----------------------------- MODULE ClusterProofs -----------------------------
(***************************************************************************)
(* The types of Cluster: an inductive invariant that says of every         *)
(* variable what it holds, and with it that ports are handed out once and  *)
(* that somebody is always left to give instances to.  Then what holds     *)
(* while no two threads work at once and no topology is prepared twice: an *)
(* inductive invariant over the table, the threads' jobs and loops, and    *)
(* the workers, and the properties that follow.                            *)
(***************************************************************************)
EXTENDS Cluster, SequenceTheorems, FiniteSetTheorems, TLAPS

-----------------------------------------------------------------------------
(* Types *)

Place == Supervisor \X Nat
AnyTask == UNION {Task(t) : t \in Topology}
Jobs == [op : Operations \ {"restart"}, topo : Topology] \cup {Op("restart", "all")}
Calls == [sup : Supervisor, task : AnyTask \cup {"all"}, count : Nat]
Worker == [sup : Supervisor, port : Nat, topo : Topology, task : AnyTask,
           state : {"up", "running", "gone"}, conns : SUBSET Place, listed : BOOLEAN]

TableInv ==
  /\ status \in [Topology -> Status]
  /\ spec \subseteq Topology /\ owed \subseteq Topology
  /\ instances = [t \in Topology |-> instances[t]]
  /\ \A t \in Topology : instances[t] \in [Task(t) -> SUBSET Place]
  /\ clash \in BOOLEAN

MembersInv ==
  /\ up \subseteq members /\ members \subseteq Supervisor
  /\ supervisors \subseteq Supervisor
  /\ executor \in Supervisor \cup {NoSup}
  /\ detected \subseteq Supervisor \ up
  /\ Cardinality(Supervisor \ up) <= MaxFailures
  /\ stuck \subseteq up

\* A thread is in a part of the operation it does, and its calls are of that part;
\* a thread that no failure has started yet does nothing.
PhaseInv(p) ==
  /\ at[p] \in {"add", "config"} => Doing(p, "prepare")
  /\ at[p] = "start" => Doing(p, "start")
  /\ at[p] = "kill" => Doing(p, "stop")
  /\ at[p] = "begin" => calls[p] = {}
  /\ at[p] \in {"add", "start", "kill"} => \A c \in calls[p] : c.task \in Task(Topo(p))
  /\ at[p] \in {"add", "config"} =>
       \E K \in SUBSET Task(Topo(p)) : config[p] \in [K -> SUBSET Place]
  /\ p > Cardinality(detected) => ~Busy(p)

ThreadInv ==
  /\ job \in [Thread -> Seq(Jobs)]
  /\ at \in [Thread -> {"begin", "add", "config", "start", "kill"}]
  /\ calls \in [Thread -> SUBSET Calls]
  /\ DOMAIN config = Thread
  /\ \A p \in Thread : PhaseInv(p)

\* Ports are handed out once.
PortsInv ==
  /\ port \in [Supervisor -> Nat]
  /\ workers \subseteq Worker
  /\ \A w \in workers : w.sup \in up /\ w.port < port[w.sup] /\ w.task \in Task(w.topo)
  /\ \A v, w \in workers : Address(v) = Address(w) => v = w
  /\ \A t \in Topology : \A k \in Task(t) : \A a \in instances[t][k] : a[2] < port[a[1]]

TInv == TableInv /\ MembersInv /\ ThreadInv /\ PortsInv

-----------------------------------------------------------------------------
(* Scheduling *)

LEMMA SupervisorFacts ==
  /\ IsFiniteSet(Supervisor) /\ Supervisor \subseteq Nat /\ NoSup \notin Supervisor
  /\ \A S \in SUBSET Supervisor : IsFiniteSet(S) /\ Cardinality(S) \in Nat
BY ClusterAssumption, FS_Subset, FS_CardinalityType DEF ClusterAssumption

\* The places of a set's ids are different and below the number of ids.
LEMMA Ranks ==
  ASSUME NEW S \in SUBSET Supervisor
  PROVE  /\ \A s \in S : Rank(s, S) \in 0 .. Cardinality(S) - 1
         /\ \A s, r \in S : Rank(s, S) = Rank(r, S) => s = r
<1> DEFINE Below(s) == {x \in S : x < s}
<1>0. S \subseteq Nat /\ IsFiniteSet(S) /\ Cardinality(S) \in Nat
  BY SupervisorFacts
<1>1. \A s \in S : IsFiniteSet(Below(s)) /\ Cardinality(Below(s)) \in Nat
  <2> SUFFICES ASSUME NEW s \in S PROVE IsFiniteSet(Below(s)) /\ Cardinality(Below(s)) \in Nat
    OBVIOUS
  <2>1. Below(s) \subseteq S
    OBVIOUS
  <2> HIDE DEF Below
  <2> QED BY <1>0, <2>1, FS_Subset, FS_CardinalityType
<1>2. ASSUME NEW s \in S PROVE Cardinality(Below(s)) < Cardinality(S)
  <2>1. Below(s) \subseteq S /\ s \notin Below(s)
    BY <1>0
  <2>2. Cardinality(Below(s) \cup {s}) = Cardinality(Below(s)) + 1
    <3> HIDE DEF Below
    <3> QED BY <1>1, <2>1, FS_AddElement
  <2>3. Below(s) \cup {s} \subseteq S
    BY <2>1
  <2>4. Cardinality(Below(s) \cup {s}) <= Cardinality(S)
    <3> HIDE DEF Below
    <3> QED BY <1>0, <2>3, FS_Subset
  <2> HIDE DEF Below
  <2> QED BY <1>0, <1>1, <2>2, <2>4
<1>3. ASSUME NEW s \in S, NEW r \in S, s < r PROVE Cardinality(Below(s)) < Cardinality(Below(r))
  <2>0. \A x \in S : ~(s < s) /\ (x < s => x < r)
    <3> SUFFICES ASSUME NEW x \in S PROVE ~(s < s) /\ (x < s => x < r)
      OBVIOUS
    <3>1. s \in Nat /\ r \in Nat /\ x \in Nat
      BY <1>0
    <3> QED BY <1>3, <3>1
  <2>1. Below(s) \cup {s} \subseteq Below(r) /\ s \notin Below(s)
    BY <1>3, <2>0
  <2> HIDE DEF Below
  <2>2. Cardinality(Below(s) \cup {s}) = Cardinality(Below(s)) + 1
    BY <1>1, <2>1, FS_AddElement
  <2>3. Cardinality(Below(s) \cup {s}) <= Cardinality(Below(r))
    BY <1>1, <2>1, FS_Subset
  <2> QED BY <1>1, <2>2, <2>3
<1>4. \A s \in S : Rank(s, S) = Cardinality(Below(s))
  BY DEF Rank
<1> HIDE DEF Below
<1>5. \A s \in S : Rank(s, S) \in 0 .. Cardinality(S) - 1
  BY <1>0, <1>1, <1>2, <1>4
<1>6. \A s, r \in S : Rank(s, S) = Rank(r, S) => s = r
  <2> SUFFICES ASSUME NEW s \in S, NEW r \in S, s # r PROVE Rank(s, S) # Rank(r, S)
    OBVIOUS
  <2>1. s < r \/ r < s
    BY <1>0
  <2>2. Cardinality(Below(s)) \in Nat /\ Cardinality(Below(r)) \in Nat
    BY <1>1
  <2>3. Cardinality(Below(s)) < Cardinality(Below(r)) \/ Cardinality(Below(r)) < Cardinality(Below(s))
    BY <1>3, <2>1
  <2> QED BY <1>4, <2>2, <2>3
<1> QED BY <1>5, <1>6

\* Every place below the number of ids has an id.
LEMMA NthIsOne ==
  ASSUME NEW S \in SUBSET Supervisor, NEW i \in 0 .. Cardinality(S) - 1
  PROVE  Nth(S, i) \in S /\ Rank(Nth(S, i), S) = i
<1> DEFINE n == Cardinality(S)
           P == 0 .. n - 1
           f == [s \in S |-> Rank(s, S)]
<1>0. IsFiniteSet(S) /\ n \in Nat
  BY SupervisorFacts
<1>1. IsFiniteSet(P) /\ Cardinality(P) = n
  <2>1. 0 \in Int /\ n - 1 \in Int
    BY <1>0
  <2>2. /\ IsFiniteSet(0 .. n - 1)
        /\ Cardinality(0 .. n - 1) = IF 0 > n - 1 THEN 0 ELSE (n - 1) - 0 + 1
    BY ONLY <2>1, FS_Interval
  <2> HIDE DEF n
  <2> QED BY <1>0, <2>2
<1>2. f \in Injection(S, P)
  BY Ranks DEF Injection, IsInjective
<1> HIDE DEF n
<1>3. f \in Surjection(S, P)
  <2> HIDE DEF f, P
  <2> QED BY <1>0, <1>1, <1>2, FS_Injection DEF n
<1>4. \E s \in S : f[s] = i
  BY <1>3 DEF Surjection, n
<1>5. \E s \in S : Rank(s, S) = i
  BY <1>4
<1> QED BY <1>5 DEF Nth

\* The supervisor that gets an instance is one of those there are.
LEMMA ExecutorIsOne ==
  ASSUME NEW S \in SUBSET Supervisor, S # {}, executor \in Supervisor \cup {NoSup},
         NEW i \in Nat \ {0}
  PROVE  Executor(S, i) \in S
<1> DEFINE n == Cardinality(S)
           a == NextPlace(S) + i - 1
<1>1. n \in Nat /\ n # 0
  BY SupervisorFacts, FS_EmptySet
<1>2. NextPlace(S) \in Nat
  <2>1. executor \in S => Rank(executor, S) \in 0 .. n - 1
    BY Ranks
  <2> HIDE DEF n
  <2>2. executor \in S => Rank(executor, S) \in Nat
    BY <1>1, <2>1
  <2> QED BY <1>1, <2>2 DEF NextPlace, n
<1>3. a \in Nat
  BY <1>2
<1> HIDE DEF a
<1>4. a % n \in 0 .. n - 1
  <2> HIDE DEF n
  <2> QED BY <1>1, <1>3
<1>5. Nth(S, a % n) \in S
  BY <1>4, NthIsOne
<1> QED BY <1>5 DEF Executor, a

-----------------------------------------------------------------------------
(* The table *)

LEMMA TopoType ==
  ASSUME ThreadInv, NEW p \in Thread, Busy(p), job[p][1].op # "restart"
  PROVE  Topo(p) \in Topology
<1>1. job[p] \in Seq(Jobs) /\ job[p] # << >>
  BY DEF ThreadInv, Busy
<1>2. job[p][1] \in Jobs
  BY <1>1
<1> QED BY <1>2 DEF Jobs, Op, Topo

LEMMA NoInstancesType ==
  ASSUME NEW t \in Topology
  PROVE  NoInstances(t) \in [Task(t) -> SUBSET Place] /\ \A k \in Task(t) : NoInstances(t)[k] = {}
BY DEF NoInstances

LEMMA StatusTypes ==
  ASSUME TableInv, NEW t \in Topology, NEW v \in Status
  PROVE  /\ SetStatus(t, v) => status' \in [Topology -> Status]
         /\ [status EXCEPT ![t] = v] \in [Topology -> Status]
BY DEF TableInv, SetStatus

LEMMA InstancesTypes ==
  ASSUME TableInv, NEW t \in Topology, NEW f \in [Task(t) -> SUBSET Place],
         instances' = [instances EXCEPT ![t] = f]
  PROVE  /\ instances' = [u \in Topology |-> instances'[u]]
         /\ \A u \in Topology : instances'[u] = IF u = t THEN f ELSE instances[u]
         /\ \A u \in Topology : instances'[u] \in [Task(u) -> SUBSET Place]
<1>1. DOMAIN instances = Topology
  BY DEF TableInv
<1>2. \A u \in Topology : instances'[u] = IF u = t THEN f ELSE instances[u]
  BY <1>1
<1>3. instances' = [u \in Topology |-> instances'[u]]
  BY <1>1
<1>4. \A u \in Topology : instances'[u] \in [Task(u) -> SUBSET Place]
  BY <1>2 DEF TableInv
<1> QED BY <1>2, <1>3, <1>4

LEMMA ExtendedInstances ==
  ASSUME TableInv, NEW t \in Topology, NEW k \in Task(t), NEW new \in SUBSET Place,
         instances' = [instances EXCEPT ![t][k] = @ \cup new]
  PROVE  /\ [instances[t] EXCEPT ![k] = @ \cup new] \in [Task(t) -> SUBSET Place]
         /\ instances' = [instances EXCEPT ![t] = [instances[t] EXCEPT ![k] = @ \cup new]]
<1>1. instances[t] \in [Task(t) -> SUBSET Place]
  BY DEF TableInv
<1>2. [instances[t] EXCEPT ![k] = @ \cup new] \in [Task(t) -> SUBSET Place]
  BY <1>1
<1>3. [instances EXCEPT ![t][k] = @ \cup new]
        = [instances EXCEPT ![t] = [instances[t] EXCEPT ![k] = @ \cup new]]
  OBVIOUS
<1> QED BY <1>2, <1>3

\* A call is made by a busy thread, to a supervisor that is up.
LEMMA CallFacts ==
  ASSUME TInv, NEW p \in Thread, NEW part \in {"add", "config", "start", "kill"},
         NEW c \in calls[p], Calling(p, part, c)
  PROVE  /\ Busy(p) /\ Topo(p) \in Topology
         /\ c \in Calls /\ c.sup \in Supervisor /\ c.sup \in up /\ c.count \in Nat
         /\ part \in {"add", "start", "kill"} => c.task \in Task(Topo(p))
<1>1. PhaseInv(p) /\ c \in Calls /\ at[p] = part /\ c.sup \in up
  BY DEF TInv, ThreadInv, Calling
<1>2. Busy(p) /\ job[p][1].op # "restart"
  BY <1>1 DEF PhaseInv, Doing
<1>3. Topo(p) \in Topology
  BY <1>2, TopoType DEF TInv
<1> QED BY <1>1, <1>2, <1>3 DEF Calls, PhaseInv

\* The workers of an ADD_WORKER call and their places.
LEMMA NewPlaces ==
  ASSUME TInv, NEW p \in Thread, NEW c \in calls[p], Calling(p, "add", c)
  PROVE  LET P == port[c.sup] .. port[c.sup] + c.count - 1
             new == {[sup |-> c.sup, port |-> n, topo |-> Topo(p), task |-> c.task,
                      state |-> "up", conns |-> {}, listed |-> TRUE] : n \in P}
         IN  /\ new \subseteq Worker
             /\ {Address(w) : w \in new} = {c.sup} \X P
             /\ {c.sup} \X P \subseteq Place
<1> DEFINE P == port[c.sup] .. port[c.sup] + c.count - 1
           W(n) == [sup |-> c.sup, port |-> n, topo |-> Topo(p), task |-> c.task,
                    state |-> "up", conns |-> {}, listed |-> TRUE]
           new == {W(n) : n \in P}
<1>1. /\ Topo(p) \in Topology /\ c.sup \in Supervisor /\ c.count \in Nat
      /\ c.task \in Task(Topo(p))
  BY CallFacts
<1>2. P \subseteq Nat
  <2>1. port[c.sup] \in Nat
    BY <1>1 DEF TInv, PortsInv
  <2> QED BY <1>1, <2>1
<1>3. c.task \in AnyTask
  BY <1>1 DEF AnyTask
<1> HIDE DEF P
<1>4. new \subseteq Worker
  <2>1. \A n \in P : W(n) \in Worker
    BY <1>1, <1>2, <1>3 DEF Worker
  <2> HIDE DEF W
  <2> QED BY <2>1
<1>5. {Address(w) : w \in new} = {c.sup} \X P
  <2>1. \A n \in P : Address(W(n)) = <<c.sup, n>>
    BY DEF Address
  <2> HIDE DEF W
  <2>2. {Address(w) : w \in new} = {<<c.sup, n>> : n \in P}
    BY <2>1
  <2> QED BY <2>2
<1>6. {c.sup} \X P \subseteq Place
  BY <1>1, <1>2 DEF Place
<1> QED BY <1>4, <1>5, <1>6 DEF P

LEMMA TableStep == TInv /\ [Next]_vars => TableInv'
<1> SUFFICES ASSUME TInv, [Next]_vars PROVE TableInv'
  OBVIOUS
<1>0. TableInv /\ ThreadInv
  BY DEF TInv
<1>1. CASE UNCHANGED vars
  BY <1>0, <1>1 DEF vars, tableVars, clientVars, TableInv
<1>2. CASE Next
  <2>0. clash' \in BOOLEAN
    BY <1>2 DEF Next, Observe
  <2>1. ASSUME NEW t \in Topology, Submit(t) PROVE TableInv'
    <3>1. "pending" \in Status
      BY DEF Status
    <3> QED BY <1>0, <2>0, <2>1, <3>1, StatusTypes DEF Submit, Serve, TableInv
  <2>2. ASSUME NEW t \in Topology, Send(t) PROVE TableInv'
    BY <1>0, <2>0, <2>2 DEF Send, Serve, TableInv
  <2>3. ASSUME NEW t \in Topology, NEW c \in Request, Command(c, t) PROVE TableInv'
    BY <1>0, <2>0, <2>3 DEF Command, Serve, TableInv
  <2>4. ASSUME NEW p \in Thread, Operation(p) PROVE TableInv'
    <3>1. ASSUME NEW o \in Operations \ {"restart"}, Doing(p, o) PROVE Topo(p) \in Topology
      BY <1>0, <3>1, TopoType DEF Doing
    <3>2. ASSUME NEW v \in Status, NEW t \in Topology, SetStatus(t, v),
                 UNCHANGED <<spec, owed, instances>>
          PROVE  TableInv'
      BY <1>0, <2>0, <3>2, StatusTypes DEF TableInv
    <3>3. CASE Compile(p)
      <4>1. Topo(p) \in Topology
        BY <3>1, <3>3 DEF Compile, Operations
      <4>2. SetStatus(Topo(p), "idle") /\ UNCHANGED <<spec, owed, instances>>
        BY <3>3 DEF Compile, clientVars
      <4>3. "idle" \in Status
        BY DEF Status
      <4> QED BY <3>2, <4>1, <4>2, <4>3
    <3>4. CASE BeginPrepare(p)
      <4>1. Topo(p) \in Topology
        BY <3>1, <3>4 DEF BeginPrepare, Operations
      <4>2. SetStatus(Topo(p), "preparing") /\ UNCHANGED <<spec, owed, instances>>
        BY <3>4 DEF BeginPrepare, clientVars
      <4>3. "preparing" \in Status
        BY DEF Status
      <4> QED BY <3>2, <4>1, <4>2, <4>3
    <3>5. CASE EndPrepare(p)
      <4>1. Topo(p) \in Topology
        BY <3>1, <3>5 DEF EndPrepare, Operations
      <4>2. SetStatus(Topo(p), "ready") /\ UNCHANGED <<spec, owed, instances>>
        BY <3>5 DEF EndPrepare, clientVars
      <4>3. "ready" \in Status
        BY DEF Status
      <4> QED BY <3>2, <4>1, <4>2, <4>3
    <3>6. CASE EndStart(p)
      <4>1. Topo(p) \in Topology
        BY <3>1, <3>6 DEF EndStart, Operations
      <4>2. SetStatus(Topo(p), "running") /\ UNCHANGED <<spec, owed, instances>>
        BY <3>6 DEF EndStart, clientVars
      <4>3. "running" \in Status
        BY DEF Status
      <4> QED BY <3>2, <4>1, <4>2, <4>3
    <3>7. CASE EndStop(p)
      <4> PICK t : t = Topo(p)
        OBVIOUS
      <4> PICK v : v = IF Exists(t) THEN "idle" ELSE "empty"
        OBVIOUS
      <4>1. t \in Topology /\ v \in Status
        BY <3>1, <3>7 DEF EndStop, Operations, Status
      <4>2. /\ status' = [status EXCEPT ![t] = v]
            /\ instances' = [instances EXCEPT ![t] = NoInstances(t)]
            /\ UNCHANGED <<spec, owed>>
        BY <3>7 DEF EndStop, clientVars
      <4>3. status' \in [Topology -> Status]
        BY <1>0, <4>1, <4>2, StatusTypes
      <4>4. /\ instances' = [u \in Topology |-> instances'[u]]
            /\ \A u \in Topology : instances'[u] \in [Task(u) -> SUBSET Place]
        BY <1>0, <4>1, <4>2, NoInstancesType, InstancesTypes
      <4> QED BY <1>0, <2>0, <4>2, <4>3, <4>4 DEF TableInv
    <3>8. CASE Erase(p)
      <4> PICK t : t = Topo(p)
        OBVIOUS
      <4>1. t \in Topology /\ "nonexisted" \in Status
        BY <3>1, <3>8 DEF Erase, Operations, Status
      <4>2. /\ status' = [status EXCEPT ![t] = "nonexisted"]
            /\ instances' = [instances EXCEPT ![t] = NoInstances(t)]
            /\ spec' \subseteq spec /\ UNCHANGED owed
        BY <3>8 DEF Erase, clientVars
      <4>3. status' \in [Topology -> Status]
        BY <1>0, <4>1, <4>2, StatusTypes
      <4>4. /\ instances' = [u \in Topology |-> instances'[u]]
            /\ \A u \in Topology : instances'[u] \in [Task(u) -> SUBSET Place]
        BY <1>0, <4>1, <4>2, NoInstancesType, InstancesTypes
      <4> QED BY <1>0, <2>0, <4>2, <4>3, <4>4 DEF TableInv
    <3>9. CASE BeginConfigure(p) \/ BeginStart(p) \/ BeginStop(p) \/ Kill(p) \/ RestartAll(p)
      <4>1. UNCHANGED <<status, spec, owed, instances>>
        BY <3>9 DEF BeginConfigure, BeginStart, BeginStop, Kill, RestartAll, tableVars, clientVars
      <4> QED BY <1>0, <2>0, <4>1 DEF TableInv
    <3> QED BY <2>4, <3>3, <3>4, <3>5, <3>6, <3>7, <3>8, <3>9 DEF Operation
  <2>5. ASSUME NEW p \in Thread, NEW c \in calls[p], AddWorkers(p, c) PROVE TableInv'
    <3> PICK t : t = Topo(p)
      OBVIOUS
    <3>0. Calling(p, "add", c) /\ UNCHANGED <<status, spec, owed>>
      BY <2>5 DEF AddWorkers, Calling, clientVars
    <3>1. t \in Topology /\ c.task \in Task(t)
      BY <3>0, CallFacts
    <3>2. PICK new \in SUBSET Place :
            instances' = IF Exists(t) THEN [instances EXCEPT ![t][c.task] = @ \cup new] ELSE instances
      BY <2>5, <3>0, NewPlaces DEF AddWorkers
    <3>3. CASE Exists(t)
      <4>1. instances' = [instances EXCEPT ![t][c.task] = @ \cup new]
        BY <3>2, <3>3
      <4>2. /\ [instances[t] EXCEPT ![c.task] = @ \cup new] \in [Task(t) -> SUBSET Place]
            /\ instances' = [instances EXCEPT ![t] = [instances[t] EXCEPT ![c.task] = @ \cup new]]
        BY <1>0, <3>1, <4>1, ExtendedInstances
      <4> PICK f \in [Task(t) -> SUBSET Place] : f = [instances[t] EXCEPT ![c.task] = @ \cup new]
        BY <4>2
      <4>3. /\ instances' = [u \in Topology |-> instances'[u]]
            /\ \A u \in Topology : instances'[u] \in [Task(u) -> SUBSET Place]
        BY <1>0, <3>1, <4>2, InstancesTypes
      <4> QED BY <1>0, <2>0, <3>0, <4>3 DEF TableInv
    <3>4. CASE ~Exists(t)
      BY <1>0, <2>0, <3>0, <3>2, <3>4 DEF TableInv
    <3> QED BY <3>3, <3>4
  <2>6. ASSUME NEW p \in Thread, NEW c \in calls[p],
               ConfigureWorkers(p, c) \/ StartWorkers(p, c) \/ KillWorkers(p, c)
        PROVE  TableInv'
    <3>1. UNCHANGED <<status, spec, owed, instances>>
      BY <2>6 DEF ConfigureWorkers, StartWorkers, KillWorkers, Calling, clientVars
    <3> QED BY <1>0, <2>0, <3>1 DEF TableInv
  <2>7. CASE FailureStep
    <3>1. UNCHANGED <<status, spec, owed, instances>>
      BY <2>7 DEF FailureStep, Crash, DetectFailure, Forget, tableVars, clientVars
    <3> QED BY <1>0, <2>0, <3>1 DEF TableInv
  <2> QED BY <1>2, <2>1, <2>2, <2>3, <2>4, <2>5, <2>6, <2>7
          DEF Next, ClientStep, ThreadStep, CallStep
<1> QED BY <1>1, <1>2

-----------------------------------------------------------------------------
(* The members *)

\* Not all supervisors crash, so that there is one to give instances to.
LEMMA SomebodyLeft ==
  ASSUME MembersInv
  PROVE  members \in SUBSET Supervisor /\ members # {} /\ Cardinality(members) \in Nat
<1>1. up # {}
  <2> SUFFICES ASSUME up = {} PROVE FALSE
    OBVIOUS
  <2>1. Supervisor \ up = Supervisor
    OBVIOUS
  <2>2. Cardinality(Supervisor) <= MaxFailures /\ MaxFailures < Cardinality(Supervisor)
    BY <2>1, ClusterAssumption DEF MembersInv, ClusterAssumption
  <2>3. Cardinality(Supervisor) \in Nat /\ MaxFailures \in Nat
    BY SupervisorFacts, ClusterAssumption DEF ClusterAssumption
  <2> QED BY <2>2, <2>3
<1>2. members \in SUBSET Supervisor /\ members # {}
  BY <1>1 DEF MembersInv
<1> QED BY <1>2, SupervisorFacts

LEMMA PlanFacts ==
  ASSUME NEW t \in Topology
  PROVE  /\ Plan[t] \in Seq(Task(t)) /\ Len(Plan[t]) \in Nat /\ DOMAIN Plan[t] = 1 .. Len(Plan[t])
         /\ Named(t) \subseteq Task(t)
         /\ Named(t) # {} => Len(Plan[t]) \in Nat \ {0}
         /\ Child[t] \in [Task(t) -> SUBSET Task(t)]
<1>1. Plan[t] \in Seq(Task(t)) /\ Child[t] \in [Task(t) -> SUBSET Task(t)]
  BY ClusterAssumption DEF ClusterAssumption
<1>2. Len(Plan[t]) \in Nat /\ DOMAIN Plan[t] = 1 .. Len(Plan[t])
  BY <1>1
<1>3. Named(t) \subseteq Task(t)
  BY DEF Named
<1>4. Named(t) # {} => Len(Plan[t]) # 0
  <2>1. Named(t) # {} => DOMAIN Plan[t] # {}
    BY <1>3 DEF Task
  <2> QED BY <1>2, <2>1
<1> QED BY <1>1, <1>2, <1>3, <1>4

LEMMA MembersStep == TInv /\ [Next]_vars => MembersInv'
<1> SUFFICES ASSUME TInv, [Next]_vars PROVE MembersInv'
  OBVIOUS
<1>0. MembersInv
  BY DEF TInv
<1>1. CASE UNCHANGED vars
  BY <1>0, <1>1 DEF vars, failVars, supVars, MembersInv
<1>2. CASE ClientStep
  BY <1>0, <1>2 DEF ClientStep, Submit, Send, Command, Serve, failVars, supVars, MembersInv
<1>3. ASSUME NEW p \in Thread, Operation(p) PROVE MembersInv'
  <2>1. UNCHANGED <<up, detected, members, stuck>>
    BY <1>3 DEF Operation, Compile, BeginPrepare, BeginConfigure, EndPrepare, BeginStart, EndStart,
                BeginStop, EndStop, Kill, Erase, RestartAll, failVars, supVars
  <2>2. supervisors' \in {supervisors, members}
    BY <1>3 DEF Operation, Compile, BeginPrepare, BeginConfigure, EndPrepare, BeginStart, EndStart,
                BeginStop, EndStop, Kill, Erase, RestartAll
  <2>3. executor' \in Supervisor \cup {NoSup}
    <3>1. CASE BeginPrepare(p)
      <4> PICK t : t = Topo(p)
        OBVIOUS
      <4>1. t \in Topology
        BY <3>1, TopoType DEF BeginPrepare, Doing, TInv
      <4>2. executor' = IF Named(t) = {} THEN executor ELSE Executor(members, Len(Plan[t]))
        BY <3>1 DEF BeginPrepare
      <4>3. CASE Named(t) = {}
        BY <1>0, <4>2, <4>3 DEF MembersInv
      <4>4. CASE Named(t) # {}
        <5>1. Len(Plan[t]) \in Nat \ {0}
          BY <4>1, <4>4, PlanFacts
        <5>2. members \in SUBSET Supervisor /\ members # {}
          BY <1>0, SomebodyLeft
        <5>3. executor \in Supervisor \cup {NoSup}
          BY <1>0 DEF MembersInv
        <5>4. Executor(members, Len(Plan[t])) \in members
          BY <5>1, <5>2, <5>3, ExecutorIsOne
        <5> QED BY <4>2, <4>4, <5>2, <5>4
      <4> QED BY <4>3, <4>4
    <3>2. CASE ~BeginPrepare(p)
      <4>1. UNCHANGED executor
        BY <1>3, <3>2 DEF Operation, Compile, BeginConfigure, EndPrepare, BeginStart, EndStart,
                          BeginStop, EndStop, Kill, Erase, RestartAll
      <4> QED BY <1>0, <4>1 DEF MembersInv
    <3> QED BY <3>1, <3>2
  <2> QED BY <1>0, <2>1, <2>2, <2>3 DEF MembersInv
<1>4. ASSUME NEW p \in Thread, NEW c \in calls[p],
             AddWorkers(p, c) \/ ConfigureWorkers(p, c) \/ StartWorkers(p, c) \/ KillWorkers(p, c)
      PROVE  MembersInv'
  <2>1. /\ UNCHANGED <<up, detected, members, supervisors, executor>>
        /\ c.sup \in up /\ stuck' \in {stuck, stuck \cup {c.sup}}
    BY <1>4 DEF AddWorkers, ConfigureWorkers, StartWorkers, KillWorkers, Calling, failVars
  <2> QED BY <1>0, <2>1 DEF MembersInv
<1>5. ASSUME NEW s \in Supervisor, Crash(s) PROVE MembersInv'
  <2>1. /\ s \in up /\ up' = up \ {s} /\ stuck' = stuck \ {s}
        /\ UNCHANGED <<detected, members, supervisors, executor>>
        /\ Cardinality(Supervisor \ up) < MaxFailures
    BY <1>5 DEF Crash
  <2>2. IsFiniteSet(Supervisor \ up) /\ Cardinality(Supervisor \ up) \in Nat
    BY SupervisorFacts
  <2>3. Cardinality((Supervisor \ up) \cup {s}) = Cardinality(Supervisor \ up) + 1
    BY <2>1, <2>2, FS_AddElement
  <2>4. Supervisor \ up' = (Supervisor \ up) \cup {s}
    BY <2>1
  <2>5. MaxFailures \in Nat
    BY ClusterAssumption DEF ClusterAssumption
  <2>6. Cardinality(Supervisor \ up') <= MaxFailures
    BY <2>1, <2>2, <2>3, <2>4, <2>5
  <2> QED BY <1>0, <2>1, <2>6 DEF MembersInv
<1>6. ASSUME NEW s \in Supervisor, DetectFailure(s) \/ Forget(s) PROVE MembersInv'
  <2>1. /\ UNCHANGED <<up, stuck, supervisors, executor>>
        /\ \/ s \notin up /\ detected' = detected \cup {s} /\ UNCHANGED members
           \/ s \in detected /\ members' = members \ {s} /\ UNCHANGED detected
    BY <1>6 DEF DetectFailure, Forget, supVars
  <2> QED BY <1>0, <2>1 DEF MembersInv
<1> QED BY <1>1, <1>2, <1>3, <1>4, <1>5, <1>6 DEF Next, ThreadStep, CallStep, FailureStep

-----------------------------------------------------------------------------
(* The threads *)

LEMMA JobFacts ==
  ASSUME ThreadInv, NEW p \in Thread, Busy(p)
  PROVE  /\ job[p] \in Seq(Jobs) /\ Len(job[p]) \in Nat \ {0}
         /\ job[p][1] \in Jobs
         /\ Rest(p) \in Seq(Jobs) /\ Len(Rest(p)) = Len(job[p]) - 1
         /\ \A i \in 1 .. Len(Rest(p)) : Rest(p)[i] = job[p][i + 1]
         /\ DOMAIN job[p] = 1 .. Len(job[p]) /\ DOMAIN Rest(p) = 1 .. Len(Rest(p))
<1>1. job[p] \in Seq(Jobs) /\ job[p] # << >>
  BY DEF ThreadInv, Busy
<1> PICK s \in Seq(Jobs) : s = job[p]
  BY <1>1
<1>2. /\ Len(s) \in Nat \ {0} /\ s[1] \in Jobs
      /\ Tail(s) \in Seq(Jobs) /\ Len(Tail(s)) = Len(s) - 1
      /\ \A i \in 1 .. Len(Tail(s)) : Tail(s)[i] = s[i + 1]
      /\ DOMAIN s = 1 .. Len(s) /\ DOMAIN Tail(s) = 1 .. Len(Tail(s))
  BY <1>1
<1> QED BY <1>1, <1>2 DEF Rest

LEMMA ShortJobs ==
  ASSUME NEW t \in Topology
  PROVE  /\ \A o \in Operations \ {"restart"} : Op(o, t) \in Jobs
         /\ << >> \in Seq(Jobs)
         /\ <<Op("compile", t), Op("prepare", t), Op("start", t)>> \in Seq(Jobs)
         /\ <<Op("prepare", t), Op("start", t)>> \in Seq(Jobs)
         /\ <<Op("stop", t), Op("erase", t)>> \in Seq(Jobs)
         /\ <<Op("erase", t)>> \in Seq(Jobs)
<1>1. \A o \in Operations \ {"restart"} : Op(o, t) \in Jobs
  BY DEF Jobs, Op
<1>2. /\ Op("compile", t) \in Jobs /\ Op("prepare", t) \in Jobs /\ Op("start", t) \in Jobs
      /\ Op("stop", t) \in Jobs /\ Op("erase", t) \in Jobs
  BY <1>1 DEF Operations
<1> QED BY <1>1, <1>2

LEMMA RestartJobFacts ==
  ASSUME NEW T \in SUBSET Topology, NEW ids \in Orders(T)
  PROVE  LET n == Cardinality(T)
             ops == RestartJob(ids)
         IN  /\ n \in Nat /\ Len(ids) = n /\ DOMAIN ids = 1 .. n
             /\ ops \in Seq(Jobs) /\ Len(ops) = 3 * n /\ DOMAIN ops = 1 .. 3 * n
             /\ \A i \in 1 .. n : ids[i] \in T /\ ops[i] = Op("stop", ids[i])
             /\ \A i \in 1 .. 3 * n : i > n =>
                  /\ (i - n + 1) \div 2 \in 1 .. n
                  /\ (i - n) % 2 = 1 => ops[i] = Op("prepare", ids[(i - n + 1) \div 2])
                  /\ (i - n) % 2 # 1 => ops[i] = Op("start", ids[(i - n + 1) \div 2])
<1> DEFINE n == Cardinality(T)
           ops == RestartJob(ids)
<1>1. n \in Nat
  BY ClusterAssumption, FS_Subset, FS_CardinalityType DEF ClusterAssumption
<1> HIDE DEF n
<1>2. ids \in [1 .. n -> T]
  BY DEF Orders, n
<1>3. Len(ids) = n /\ DOMAIN ids = 1 .. n /\ ids \in Seq(T)
  BY <1>1, <1>2, LenProperties, SeqDef
<1>4. ops = [i \in 1 .. 3 * n |->
               IF i <= n THEN Op("stop", ids[i])
               ELSE Op(IF (i - n) % 2 = 1 THEN "prepare" ELSE "start", ids[(i - n + 1) \div 2])]
  BY <1>3 DEF RestartJob
<1>5. \A i \in 1 .. 3 * n : i > n => (i - n + 1) \div 2 \in 1 .. n
  <2> SUFFICES ASSUME NEW i \in 1 .. 3 * n, i > n PROVE (i - n + 1) \div 2 \in 1 .. n
    OBVIOUS
  <2> PICK m \in Nat : m = i - n + 1
    BY <1>1
  <2>1. m >= 2 /\ m <= 2 * n + 1
    BY <1>1
  <2>2. m \div 2 \in 1 .. n
    BY <1>1, <2>1
  <2> QED BY <2>2
<1> HIDE DEF ops
<1>6. \A i \in 1 .. n : i \in 1 .. 3 * n /\ i <= n /\ ids[i] \in T
  BY <1>1, <1>2
<1>7. \A i \in 1 .. n : ops[i] = Op("stop", ids[i])
  BY <1>4, <1>6
<1>8. ASSUME NEW i \in 1 .. 3 * n, i > n
      PROVE  /\ (i - n) % 2 = 1 => ops[i] = Op("prepare", ids[(i - n + 1) \div 2])
             /\ (i - n) % 2 # 1 => ops[i] = Op("start", ids[(i - n + 1) \div 2])
  <2>1. ~(i <= n)
    BY <1>1, <1>8
  <2> QED BY <1>4, <2>1
<1>9. \A x \in T : Op("stop", x) \in Jobs /\ Op("prepare", x) \in Jobs /\ Op("start", x) \in Jobs
  BY DEF Jobs, Op, Operations
<1>10. \A i \in 1 .. 3 * n : ops[i] \in Jobs
  <2> SUFFICES ASSUME NEW i \in 1 .. 3 * n PROVE ops[i] \in Jobs
    OBVIOUS
  <2>1. CASE i <= n
    <3>1. i \in 1 .. n
      BY <1>1, <2>1
    <3> QED BY <1>6, <1>7, <1>9, <3>1
  <2>2. CASE ~(i <= n)
    <3>1. i > n
      BY <1>1, <2>2
    <3>2. ids[(i - n + 1) \div 2] \in T
      BY <1>2, <1>5, <3>1
    <3> QED BY <1>8, <1>9, <3>1, <3>2
  <2> QED BY <2>1, <2>2
<1>11. ops \in Seq(Jobs) /\ Len(ops) = 3 * n /\ DOMAIN ops = 1 .. 3 * n
  <2>1. ops \in [1 .. 3 * n -> Jobs]
    BY <1>4, <1>10
  <2>2. 3 * n \in Nat
    BY <1>1
  <2> QED BY <2>1, <2>2, LenProperties, SeqDef
<1>12. RestartJob(ids) = ops /\ Cardinality(T) = n
  BY DEF ops, n
<1> QED BY <1>1, <1>3, <1>5, <1>6, <1>7, <1>8, <1>11 DEF n, ops

LEMMA ContinueStep ==
  ASSUME ThreadInv, NEW p \in Thread, Busy(p), NEW ops \in Seq(Jobs), ContinueWith(p, ops),
         UNCHANGED detected
  PROVE  ThreadInv'
<1>1. /\ job' \in [Thread -> Seq(Jobs)]
      /\ at' \in [Thread -> {"begin", "add", "config", "start", "kill"}]
      /\ calls' \in [Thread -> SUBSET Calls]
      /\ DOMAIN config' = Thread
  BY DEF ThreadInv, ContinueWith
<1>2. at'[p] = "begin" /\ calls'[p] = {}
  BY DEF ThreadInv, ContinueWith
<1>3. PhaseInv(p)'
  BY <1>2 DEF ThreadInv, PhaseInv
<1>4. ASSUME NEW q \in Thread, q # p PROVE PhaseInv(q)'
  <2>1. job'[q] = job[q] /\ at'[q] = at[q] /\ calls'[q] = calls[q] /\ config'[q] = config[q]
    BY <1>4 DEF ThreadInv, ContinueWith
  <2>2. PhaseInv(q)
    BY DEF ThreadInv
  <2> QED BY <2>1, <2>2 DEF PhaseInv, Doing, Busy, Topo
<1> QED BY <1>1, <1>3, <1>4 DEF ThreadInv

LEMMA EnterStep ==
  ASSUME ThreadInv, NEW p \in Thread, Busy(p), NEW part \in {"add", "config", "start", "kill"},
         NEW todo \in SUBSET Calls, EnterLoop(p, part, todo), UNCHANGED <<job, detected>>,
         DOMAIN config' = Thread, \A q \in Thread \ {p} : config'[q] = config[q],
         part \in {"add", "config"} =>
           Doing(p, "prepare") /\ \E K \in SUBSET Task(Topo(p)) : config'[p] \in [K -> SUBSET Place],
         part = "start" => Doing(p, "start"),
         part = "kill" => Doing(p, "stop"),
         part # "config" => \A c \in todo : c.task \in Task(Topo(p))
  PROVE  ThreadInv'
<1>1. /\ job' \in [Thread -> Seq(Jobs)]
      /\ at' \in [Thread -> {"begin", "add", "config", "start", "kill"}]
      /\ calls' \in [Thread -> SUBSET Calls]
  BY DEF ThreadInv, EnterLoop
<1>2. at'[p] = part /\ calls'[p] = todo /\ part # "begin"
  BY DEF ThreadInv, EnterLoop
<1>3. \A q : Busy(q)' = Busy(q) /\ Topo(q)' = Topo(q) /\ \A o : Doing(q, o)' = Doing(q, o)
  BY DEF Busy, Topo, Doing
<1>4. PhaseInv(p)'
  BY <1>2, <1>3 DEF ThreadInv, PhaseInv
<1>5. ASSUME NEW q \in Thread, q # p PROVE PhaseInv(q)'
  <2>1. at'[q] = at[q] /\ calls'[q] = calls[q] /\ config'[q] = config[q]
    BY <1>5 DEF ThreadInv, EnterLoop
  <2>2. PhaseInv(q)
    BY DEF ThreadInv
  <2> QED BY <1>3, <2>1, <2>2 DEF PhaseInv
<1> QED BY <1>1, <1>4, <1>5 DEF ThreadInv

LEMMA LoopCalls ==
  ASSUME NEW t \in Topology, NEW S \in SUBSET Supervisor
  PROVE  /\ AddCalls(t, S) \subseteq Calls /\ \A c \in AddCalls(t, S) : c.task \in Named(t)
         /\ TaskCalls(t, S) \subseteq Calls /\ \A c \in TaskCalls(t, S) : c.task \in Named(t)
         /\ ConfigCalls(S) \subseteq Calls
<1>1. Named(t) \subseteq AnyTask
  BY DEF Named, AnyTask
<1>2. 1 .. Len(Plan[t]) \subseteq Nat
  BY PlanFacts
<1> QED BY <1>1, <1>2 DEF AddCalls, TaskCalls, ConfigCalls, Calls

\* The thread that a failure starts has done nothing yet.
LEMMA FreshThread ==
  ASSUME MembersInv, ThreadInv, NEW s \in Supervisor, DetectFailure(s)
  PROVE  LET n == Cardinality(detected)
         IN  /\ n \in Nat /\ Cardinality(detected \cup {s}) = n + 1
             /\ n + 1 \in Thread /\ Thread \subseteq Nat /\ ~Busy(n + 1)
             /\ <<Op("restart", "all")>> \in Seq(Jobs)
<1> DEFINE n == Cardinality(detected)
<1>1. s \in Supervisor \ up /\ s \notin detected /\ detected \subseteq Supervisor \ up
  BY DEF DetectFailure, MembersInv
<1>2. IsFiniteSet(detected) /\ n \in Nat
  BY <1>1, SupervisorFacts
<1>3. Cardinality(detected \cup {s}) = n + 1
  BY <1>1, <1>2, FS_AddElement
<1>4. IsFiniteSet(Supervisor \ up) /\ Cardinality(Supervisor \ up) \in Nat
  BY SupervisorFacts
<1>5. Cardinality(detected \cup {s}) <= Cardinality(Supervisor \ up)
  BY <1>1, <1>4, FS_Subset
<1>6. MaxFailures \in Nat /\ Cardinality(Supervisor \ up) <= MaxFailures
  BY ClusterAssumption DEF ClusterAssumption, MembersInv
<1> HIDE DEF n
<1>7. n + 1 \in 1 .. MaxFailures
  BY <1>2, <1>3, <1>4, <1>5, <1>6
<1>8. Thread \subseteq Nat /\ n + 1 \in Thread
  BY <1>6, <1>7 DEF Thread, Restart, Nimbus
<1>9. n + 1 > n
  BY <1>2
<1>10. ~Busy(n + 1)
  BY <1>8, <1>9 DEF ThreadInv, PhaseInv, n
<1>11. <<Op("restart", "all")>> \in Seq(Jobs)
  BY DEF Jobs
<1> QED BY <1>2, <1>3, <1>8, <1>10, <1>11 DEF n

LEMMA DetectStep ==
  ASSUME MembersInv, ThreadInv, NEW s \in Supervisor, DetectFailure(s)
  PROVE  ThreadInv'
<1> PICK n : n = Cardinality(detected)
  OBVIOUS
<1>1. /\ n \in Nat /\ Cardinality(detected \cup {s}) = n + 1
      /\ n + 1 \in Thread /\ Thread \subseteq Nat /\ ~Busy(n + 1)
      /\ <<Op("restart", "all")>> \in Seq(Jobs)
  BY FreshThread
<1>2. /\ detected' = detected \cup {s} /\ UNCHANGED <<at, calls, config>>
      /\ job' = [job EXCEPT ![n + 1] = <<Op("restart", "all")>>]
  BY DEF DetectFailure
<1> PICK m \in Thread : m = n + 1
  BY <1>1
<1>3. job' \in [Thread -> Seq(Jobs)] /\ \A q \in Thread : q # m => job'[q] = job[q]
  BY <1>1, <1>2 DEF ThreadInv
<1>4. PhaseInv(m) /\ at[m] = "begin"
  BY <1>1 DEF ThreadInv, PhaseInv, Doing
<1>5. Cardinality(detected') = m
  BY <1>1, <1>2
<1>6. PhaseInv(m)'
  <2>1. ~(m > m)
    BY <1>1
  <2> QED BY <1>2, <1>4, <1>5, <2>1 DEF PhaseInv
<1>7. ASSUME NEW q \in Thread, q # m PROVE PhaseInv(q)'
  <2>1. job'[q] = job[q]
    BY <1>3, <1>7
  <2>2. PhaseInv(q)
    BY DEF ThreadInv
  <2>3. q > m => q > n
    BY <1>1
  <2> QED BY <1>2, <1>5, <2>1, <2>2, <2>3 DEF PhaseInv, Doing, Busy, Topo
<1> QED BY <1>2, <1>3, <1>6, <1>7 DEF ThreadInv

LEMMA ThreadStepType == TInv /\ [Next]_vars => ThreadInv'
<1> SUFFICES ASSUME TInv, [Next]_vars PROVE ThreadInv'
  OBVIOUS
<1>0. ThreadInv /\ TableInv /\ MembersInv
  BY DEF TInv
<1>1. ASSUME UNCHANGED <<job, at, calls, config, detected>> PROVE ThreadInv'
  BY <1>0, <1>1 DEF ThreadInv, PhaseInv, Doing, Busy, Topo
<1>2. ASSUME NEW ops \in Seq(Jobs), Serve(ops) PROVE ThreadInv'
  <2>1. Nimbus \in Thread
    BY DEF Thread
  <2>2. /\ ~Busy(Nimbus) /\ job' = [job EXCEPT ![Nimbus] = ops]
        /\ UNCHANGED <<at, calls, config, detected>>
    BY <1>2 DEF Serve, failVars
  <2>3. ~(Nimbus > Cardinality(detected))
    <3>1. Cardinality(detected) \in Nat
      BY <1>0, SupervisorFacts DEF MembersInv
    <3> QED BY <3>1 DEF Nimbus
  <2>4. at[Nimbus] = "begin"
    BY <1>0, <2>1, <2>2 DEF ThreadInv, PhaseInv, Doing
  <2>5. PhaseInv(Nimbus)'
    BY <1>0, <2>1, <2>2, <2>3, <2>4 DEF ThreadInv, PhaseInv
  <2>6. ASSUME NEW q \in Thread, q # Nimbus PROVE PhaseInv(q)'
    BY <1>0, <2>2, <2>6 DEF ThreadInv, PhaseInv, Doing, Busy, Topo
  <2>7. job' \in [Thread -> Seq(Jobs)]
    BY <1>0, <2>2 DEF ThreadInv
  <2> QED BY <1>0, <2>2, <2>5, <2>6, <2>7 DEF ThreadInv
<1>3. CASE UNCHANGED vars
  BY <1>1, <1>3 DEF vars, threadVars, failVars
<1>4. CASE ClientStep
  <2>1. ASSUME NEW t \in Topology, Submit(t) PROVE ThreadInv'
    <3>1. << >> \in Seq(Jobs)
      OBVIOUS
    <3> QED BY <1>2, <2>1, <3>1 DEF Submit
  <2>2. ASSUME NEW t \in Topology, Send(t) PROVE ThreadInv'
    <3>1. <<Op("compile", t), Op("prepare", t), Op("start", t)>> \in Seq(Jobs)
      BY ShortJobs
    <3> QED BY <1>2, <2>2, <3>1 DEF Send
  <2>3. ASSUME NEW t \in Topology, NEW c \in Request, Command(c, t) PROVE ThreadInv'
    <3>1. c = "start" \/ c = "stop" \/ c = "kill"
      BY ClusterAssumption DEF ClusterAssumption
    <3>2. <<Op("prepare", t), Op("start", t)>> \in Seq(Jobs)
      BY ShortJobs
    <3>3. c # "start" => Op(c, t) \in Jobs
      BY <3>1, ShortJobs DEF Operations
    <3>4. c # "start" => <<Op(c, t)>> \in Seq(Jobs)
      BY <3>3
    <3> QED BY <1>2, <2>3, <3>2, <3>4 DEF Command
  <2> QED BY <1>4, <2>1, <2>2, <2>3 DEF ClientStep
<1>5. ASSUME NEW p \in Thread, Operation(p) PROVE ThreadInv'
  <2> PICK t : t = Topo(p)
    OBVIOUS
  <2>0. Busy(p) /\ UNCHANGED detected
    BY <1>5 DEF Operation, Compile, BeginPrepare, BeginConfigure, EndPrepare, BeginStart, EndStart,
                BeginStop, EndStop, Kill, Erase, RestartAll, Doing, failVars
  <2>1. Rest(p) \in Seq(Jobs)
    BY <1>0, <2>0, JobFacts
  <2>2. ASSUME ContinueWith(p, Rest(p)) PROVE ThreadInv'
    BY <1>0, <2>0, <2>1, <2>2, ContinueStep
  <2>3. CASE Compile(p) \/ EndPrepare(p) \/ EndStart(p) \/ EndStop(p) \/ Erase(p)
    BY <2>2, <2>3 DEF Compile, EndPrepare, EndStart, EndStop, Erase
  <2>4. job[p][1].op # "restart" => t \in Topology
    BY <1>0, <2>0, TopoType
  <2>5. members \in SUBSET Supervisor /\ supervisors \in SUBSET Supervisor
    BY <1>0 DEF MembersInv
  <2>6. CASE BeginPrepare(p)
    <3>0. /\ EnterLoop(p, "add", AddCalls(t, members)) /\ UNCHANGED job /\ Doing(p, "prepare")
          /\ config' = [config EXCEPT ![p] = [k \in {n \in Named(t) : Child[t][n] # {}} |-> {}]]
      BY <2>6 DEF BeginPrepare
    <3>1. t \in Topology
      BY <2>4, <3>0 DEF Doing
    <3>2. DOMAIN config' = Thread /\ \A q \in Thread \ {p} : config'[q] = config[q]
      BY <1>0, <3>0 DEF ThreadInv
    <3>3. \E K \in SUBSET Task(Topo(p)) : config'[p] \in [K -> SUBSET Place]
      <4> DEFINE K == {n \in Named(t) : Child[t][n] # {}}
      <4>1. K \in SUBSET Task(t)
        BY <3>1, PlanFacts
      <4>2. config'[p] = [k \in K |-> {}]
        BY <1>0, <3>0 DEF ThreadInv
      <4> QED BY <4>1, <4>2
    <3>4. AddCalls(t, members) \in SUBSET Calls /\ \A c \in AddCalls(t, members) : c.task \in Task(Topo(p))
      BY <2>5, <3>1, LoopCalls, PlanFacts
    <3> PICK todo \in SUBSET Calls : todo = AddCalls(t, members)
      BY <3>4
    <3>5. EnterLoop(p, "add", todo) /\ \A c \in todo : c.task \in Task(Topo(p))
      BY <3>0, <3>4
    <3> QED BY <1>0, <2>0, <3>0, <3>2, <3>3, <3>5, EnterStep
  <2>7. CASE BeginConfigure(p)
    <3>0. /\ EnterLoop(p, "config", ConfigCalls(supervisors)) /\ UNCHANGED job /\ Doing(p, "prepare")
          /\ at[p] = "add"
          /\ config' = [config EXCEPT ![p] =
                          [k \in DOMAIN @ |-> UNION {instances[t][c] : c \in Child[t][k]}]]
      BY <2>7 DEF BeginConfigure
    <3>1. t \in Topology
      BY <2>4, <3>0 DEF Doing
    <3>2. DOMAIN config' = Thread /\ \A q \in Thread \ {p} : config'[q] = config[q]
      BY <1>0, <3>0 DEF ThreadInv
    <3>3. \E K \in SUBSET Task(Topo(p)) : config'[p] \in [K -> SUBSET Place]
      <4>1. PICK K \in SUBSET Task(t) : config[p] \in [K -> SUBSET Place]
        BY <1>0, <3>0 DEF ThreadInv, PhaseInv
      <4>2. config'[p] = [k \in K |-> UNION {instances[t][c] : c \in Child[t][k]}]
        BY <1>0, <3>0, <4>1 DEF ThreadInv
      <4>3. \A k \in K : UNION {instances[t][c] : c \in Child[t][k]} \in SUBSET Place
        <5>1. \A k \in K : Child[t][k] \subseteq Task(t)
          BY <3>1, PlanFacts
        <5>2. \A c \in Task(t) : instances[t][c] \subseteq Place
          BY <1>0, <3>1 DEF TableInv
        <5> QED BY <5>1, <5>2
      <4>4. config'[p] \in [K -> SUBSET Place]
        BY <4>2, <4>3
      <4> QED BY <4>4
    <3>4. ConfigCalls(supervisors) \in SUBSET Calls
      BY <2>5, <3>1, LoopCalls
    <3> PICK todo \in SUBSET Calls : todo = ConfigCalls(supervisors)
      BY <3>4
    <3>5. EnterLoop(p, "config", todo)
      BY <3>0
    <3> QED BY <1>0, <2>0, <3>0, <3>2, <3>3, <3>5, EnterStep
  <2>8. ASSUME NEW part \in {"start", "kill"}, EnterLoop(p, part, TaskCalls(t, members)),
               UNCHANGED <<job, config>>,
               part = "start" => Doing(p, "start"), part = "kill" => Doing(p, "stop")
        PROVE  ThreadInv'
    <3>1. t \in Topology
      BY <2>4, <2>8 DEF Doing
    <3>2. DOMAIN config' = Thread /\ \A q \in Thread \ {p} : config'[q] = config[q]
      BY <1>0, <2>8 DEF ThreadInv
    <3>3. TaskCalls(t, members) \in SUBSET Calls /\ \A c \in TaskCalls(t, members) : c.task \in Task(Topo(p))
      BY <2>5, <3>1, LoopCalls, PlanFacts
    <3> PICK todo \in SUBSET Calls : todo = TaskCalls(t, members)
      BY <3>3
    <3>4. EnterLoop(p, part, todo) /\ \A c \in todo : c.task \in Task(Topo(p))
      BY <2>8, <3>3
    <3>5. part \in {"add", "config", "start", "kill"} /\ part \notin {"add", "config"}
      OBVIOUS
    <3> QED BY <1>0, <2>0, <2>8, <3>2, <3>4, <3>5, EnterStep
  <2>9. CASE BeginStart(p)
    <3>1. CASE status[Topo(p)] = "ready"
      BY <2>8, <2>9, <3>1 DEF BeginStart
    <3>2. CASE status[Topo(p)] # "ready"
      BY <2>2, <2>9, <3>2 DEF BeginStart
    <3> QED BY <3>1, <3>2
  <2>10. CASE BeginStop(p)
    BY <2>8, <2>10 DEF BeginStop
  <2>11. CASE Kill(p)
    <3>1. t \in Topology
      BY <2>4, <2>11 DEF Kill, Doing
    <3>2. /\ <<Op("stop", t), Op("erase", t)>> \in Seq(Jobs)
          /\ <<Op("erase", t)>> \in Seq(Jobs)
      BY <3>1, ShortJobs
    <3>3. /\ <<Op("stop", t), Op("erase", t)>> \o Rest(p) \in Seq(Jobs)
          /\ <<Op("erase", t)>> \o Rest(p) \in Seq(Jobs)
      BY <2>1, <3>2, ConcatProperties
    <3>4. \E ops \in Seq(Jobs) : ContinueWith(p, ops)
      BY <2>1, <2>11, <3>3 DEF Kill
    <3> QED BY <1>0, <2>0, <3>4, ContinueStep
  <2>12. CASE RestartAll(p)
    <3>1. PICK ids \in Orders({u \in Topology : Exists(u)}) : ContinueWith(p, RestartJob(ids))
      BY <2>12 DEF RestartAll
    <3>2. RestartJob(ids) \in Seq(Jobs)
      BY RestartJobFacts
    <3> QED BY <1>0, <2>0, <3>1, <3>2, ContinueStep
  <2> QED BY <1>5, <2>3, <2>6, <2>7, <2>9, <2>10, <2>11, <2>12 DEF Operation
<1>6. ASSUME NEW p \in Thread, NEW c \in calls[p],
             AddWorkers(p, c) \/ ConfigureWorkers(p, c) \/ StartWorkers(p, c) \/ KillWorkers(p, c)
      PROVE  ThreadInv'
  <2>1. /\ calls' = [calls EXCEPT ![p] = @ \ {c}]
        /\ UNCHANGED <<job, at, config, detected>>
    BY <1>6 DEF AddWorkers, ConfigureWorkers, StartWorkers, KillWorkers, Calling, failVars
  <2>2. calls' \in [Thread -> SUBSET Calls] /\ \A q \in Thread : calls'[q] \subseteq calls[q]
    BY <1>0, <2>1 DEF ThreadInv
  <2>3. \A q \in Thread : PhaseInv(q)'
    BY <1>0, <2>1, <2>2 DEF ThreadInv, PhaseInv, Doing, Busy, Topo
  <2> QED BY <1>0, <2>1, <2>2, <2>3 DEF ThreadInv
<1>7. ASSUME NEW s \in Supervisor, Crash(s) \/ Forget(s) PROVE ThreadInv'
  BY <1>1, <1>7 DEF Crash, Forget, threadVars
<1>8. ASSUME NEW s \in Supervisor, DetectFailure(s) PROVE ThreadInv'
  BY <1>0, <1>8, DetectStep
<1> QED BY <1>3, <1>4, <1>5, <1>6, <1>7, <1>8 DEF Next, ThreadStep, CallStep, FailureStep

-----------------------------------------------------------------------------
(* The workers *)

\* A worker before and after a call to its supervisor.
Same(v, w) ==
  v.sup = w.sup /\ v.port = w.port /\ v.topo = w.topo /\ v.task = w.task /\ v.listed = w.listed

\* The workers of the names that a CONFIG_CONNS request lists.
Addressed(p, c) == UNION {Listed(c.sup, Topo(p), k) : k \in DOMAIN config[p]}

LEMMA ConfiguredWorkers ==
  ASSUME TInv, NEW p \in Thread, NEW c \in calls[p], ConfigureWorkers(p, c)
  PROVE  \E g \in [workers -> Worker] :
           /\ workers' = {g[w] : w \in workers}
           /\ \A w \in workers : Same(g[w], w) /\ g[w].state = w.state
           /\ \A w \in workers :
                \/ g[w].conns = w.conns /\ (w \notin Addressed(p, c) \/ Gone(Addressed(p, c)))
                \/ /\ w \in Addressed(p, c)
                   /\ \E k \in DOMAIN config[p] : /\ w \in Listed(c.sup, Topo(p), k)
                                                  /\ g[w].conns = config[p][k]
<1>0. workers \subseteq Worker
  BY DEF TInv, PortsInv
<1> PICK W : W = Addressed(p, c)
  OBVIOUS
<1>1. CASE Gone(W)
  <2> DEFINE g == [w \in workers |-> w]
  <2>1. workers' = workers
    BY <1>1 DEF ConfigureWorkers, Addressed
  <2>2. g \in [workers -> Worker] /\ workers' = {g[w] : w \in workers}
    BY <1>0, <2>1
  <2> QED BY <1>1, <2>2 DEF Same
<1>2. CASE ~Gone(W)
  <2> DEFINE Entry(w) == CHOOSE k \in DOMAIN config[p] : w \in Listed(c.sup, Topo(p), k)
             Configured(w) == Reconnected(w, config[p][Entry(w)])
             g == [w \in workers |-> IF w \in W THEN Configured(w) ELSE w]
  <2>1. \A w \in W : Entry(w) \in DOMAIN config[p] /\ w \in Listed(c.sup, Topo(p), Entry(w))
    BY DEF Addressed
  <2>2. W \subseteq workers
    BY DEF Addressed, Listed
  <2>3. \A k \in DOMAIN config[p] : config[p][k] \in SUBSET Place
    <3>1. PhaseInv(p) /\ at[p] = "config"
      BY DEF ConfigureWorkers, Calling, TInv, ThreadInv
    <3> QED BY <3>1 DEF PhaseInv
  <2> HIDE DEF Entry
  <2>4. \A w \in W : /\ Configured(w) \in Worker
                     /\ Same(Configured(w), w) /\ Configured(w).state = w.state
                     /\ Configured(w).conns = config[p][Entry(w)]
    BY <1>0, <2>1, <2>2, <2>3 DEF Worker, Reconnected, Same
  <2>5. workers' = (workers \ W) \cup {Configured(w) : w \in W}
    BY <1>2 DEF ConfigureWorkers, Addressed, With, Entry
  <2> HIDE DEF Configured
  <2>6. workers' = {g[w] : w \in workers}
    BY <2>2, <2>5
  <2>7. g \in [workers -> Worker]
    BY <1>0, <2>4
  <2>8. \A w \in workers : Same(g[w], w) /\ g[w].state = w.state
    BY <2>4 DEF Same
  <2>9. \A w \in workers :
          \/ g[w].conns = w.conns /\ w \notin W
          \/ /\ w \in W
             /\ \E k \in DOMAIN config[p] : /\ w \in Listed(c.sup, Topo(p), k)
                                            /\ g[w].conns = config[p][k]
    BY <2>1, <2>4
  <2> HIDE DEF g
  <2> QED BY <2>6, <2>7, <2>8, <2>9
<1> QED BY <1>1, <1>2

LEMMA StartedWorkers ==
  ASSUME TInv, NEW p \in Thread, NEW c \in calls[p], StartWorkers(p, c)
  PROVE  \E g \in [workers -> Worker] :
           /\ workers' = {g[w] : w \in workers}
           /\ \A w \in workers : Same(g[w], w) /\ g[w].conns = w.conns
           /\ \A w \in workers :
                g[w].state = IF w \in Listed(c.sup, Topo(p), c.task)
                             THEN IF w.state = "up" THEN "running" ELSE "gone"
                             ELSE w.state
<1> PICK W : W = Listed(c.sup, Topo(p), c.task)
  OBVIOUS
<1> DEFINE g == [w \in workers |-> IF w \in W THEN Started(w) ELSE w]
<1>0. workers \subseteq Worker /\ W \subseteq workers
  BY DEF TInv, PortsInv, Listed
<1>1. \A w \in W : /\ Started(w) \in Worker
                   /\ Same(Started(w), w) /\ Started(w).conns = w.conns
                   /\ Started(w).state = IF w.state = "up" THEN "running" ELSE "gone"
  BY <1>0 DEF Worker, Started, Same
<1>2. workers' = (workers \ W) \cup {Started(w) : w \in W}
  BY DEF StartWorkers, With
<1>3. workers' = {g[w] : w \in workers}
  BY <1>0, <1>2
<1>4. g \in [workers -> Worker]
  BY <1>0, <1>1
<1>5. \A w \in workers : Same(g[w], w) /\ g[w].conns = w.conns
  BY <1>1 DEF Same
<1>6. \A w \in workers : g[w].state = IF w \in W THEN IF w.state = "up" THEN "running" ELSE "gone"
                                      ELSE w.state
  BY <1>1
<1> HIDE DEF g
<1> QED BY <1>3, <1>4, <1>5, <1>6

LEMMA FewerWorkers ==
  ASSUME PortsInv, workers' \subseteq workers, UNCHANGED <<port, instances>>,
         \A w \in workers' : w.sup \in up'
  PROVE  PortsInv'
BY DEF PortsInv, Address

LEMMA SameWorkers ==
  ASSUME PortsInv, NEW g \in [workers -> Worker], workers' = {g[w] : w \in workers},
         \A w \in workers : Same(g[w], w), UNCHANGED <<port, instances, up>>
  PROVE  PortsInv'
<1>1. workers' \subseteq Worker
  OBVIOUS
<1>2. \A w \in workers' : w.sup \in up' /\ w.port < port'[w.sup] /\ w.task \in Task(w.topo)
  BY DEF PortsInv, Same
<1>3. \A w \in workers : Address(g[w]) = Address(w)
  BY DEF Same, Address
<1>4. \A v, w \in workers' : Address(v) = Address(w) => v = w
  BY <1>3 DEF PortsInv
<1> QED BY <1>1, <1>2, <1>4 DEF PortsInv, Address

LEMMA AddedWorkers ==
  ASSUME TInv, NEW p \in Thread, NEW c \in calls[p], AddWorkers(p, c)
  PROVE  PortsInv'
<1> DEFINE P == port[c.sup] .. port[c.sup] + c.count - 1
           W(n) == [sup |-> c.sup, port |-> n, topo |-> Topo(p), task |-> c.task,
                    state |-> "up", conns |-> {}, listed |-> TRUE]
           new == {W(n) : n \in P}
<1> PICK t : t = Topo(p)
  OBVIOUS
<1>0. Calling(p, "add", c) /\ UNCHANGED up
  BY DEF AddWorkers, Calling, failVars
<1>1. /\ t \in Topology /\ c.sup \in Supervisor /\ c.sup \in up /\ c.count \in Nat
      /\ c.task \in Task(t)
  BY <1>0, CallFacts
<1>2. new \subseteq Worker /\ {Address(w) : w \in new} = {c.sup} \X P /\ {c.sup} \X P \subseteq Place
  BY <1>0, NewPlaces
<1>3. PortsInv /\ port[c.sup] \in Nat /\ TableInv
  BY <1>1 DEF TInv, PortsInv
<1>4. /\ workers' = workers \cup new
      /\ instances' = IF Exists(t)
                      THEN [instances EXCEPT ![t][c.task] = @ \cup {Address(w) : w \in new}]
                      ELSE instances
      /\ port' = [port EXCEPT ![c.sup] = @ + c.count]
  BY DEF AddWorkers
<1>5. /\ port' \in [Supervisor -> Nat]
      /\ \A s \in Supervisor : port[s] <= port'[s]
      /\ \A n \in P : port[c.sup] <= n /\ n < port'[c.sup] /\ n \in Nat
  BY <1>1, <1>3, <1>4 DEF PortsInv
<1>6. \A n \in P : /\ W(n).sup = c.sup /\ W(n).port = n /\ W(n).topo = t /\ W(n).task = c.task
  OBVIOUS
<1> HIDE DEF P, W
<1>7. \A w \in workers' : w.sup \in up' /\ w.port < port'[w.sup] /\ w.task \in Task(w.topo)
  <2> SUFFICES ASSUME NEW w \in workers' PROVE w.sup \in up' /\ w.port < port'[w.sup] /\ w.task \in Task(w.topo)
    OBVIOUS
  <2>1. CASE w \in workers
    <3>1. w.sup \in up /\ w.port < port[w.sup] /\ w.task \in Task(w.topo) /\ w.sup \in Supervisor /\ w.port \in Nat
      BY <1>3, <2>1 DEF PortsInv, Worker
    <3>2. port[w.sup] \in Nat /\ port'[w.sup] \in Nat /\ port[w.sup] <= port'[w.sup]
      BY <1>3, <1>5, <3>1 DEF PortsInv
    <3> QED BY <1>0, <3>1, <3>2
  <2>2. CASE w \in new
    BY <1>0, <1>1, <1>5, <1>6, <2>2
  <2> QED BY <1>4, <2>1, <2>2
<1>8. \A v, w \in workers' : Address(v) = Address(w) => v = w
  <2>1. ASSUME NEW v \in workers, NEW w \in new PROVE Address(v) # Address(w)
    <3>1. v.sup \in Supervisor /\ v.port < port[v.sup] /\ v.port \in Nat
      BY <1>3, <2>1 DEF PortsInv, Worker
    <3>2. w.sup = c.sup /\ port[c.sup] <= w.port /\ w.port \in Nat
      BY <1>5, <1>6, <2>1
    <3>3. v.sup = c.sup => v.port # w.port
      BY <1>3, <3>1, <3>2
    <3> QED BY <3>2, <3>3 DEF Address
  <2>2. ASSUME NEW v \in new, NEW w \in new, Address(v) = Address(w) PROVE v = w
    <3>1. PICK m \in P : v = W(m)
      BY <2>2
    <3>2. PICK n \in P : w = W(n)
      BY <2>2
    <3>3. m = n
      BY <1>6, <2>2, <3>1, <3>2 DEF Address
    <3> QED BY <3>1, <3>2, <3>3
  <2>3. \A v, w \in workers : Address(v) = Address(w) => v = w
    BY <1>3 DEF PortsInv
  <2> HIDE DEF new
  <2> QED BY <1>4, <2>1, <2>2, <2>3
<1>9. \A u \in Topology : \A k \in Task(u) : \A a \in instances'[u][k] : a[2] < port'[a[1]]
  <2>1. ASSUME NEW u \in Topology, NEW k \in Task(u), NEW a \in instances[u][k]
        PROVE  a[2] < port'[a[1]]
    <3>1. a \in Place /\ a[2] < port[a[1]]
      BY <1>3, <2>1 DEF TableInv, PortsInv
    <3>2. a[1] \in Supervisor /\ a[2] \in Nat
      BY <3>1 DEF Place
    <3>3. port[a[1]] \in Nat /\ port'[a[1]] \in Nat /\ port[a[1]] <= port'[a[1]]
      BY <1>3, <1>5, <3>2 DEF PortsInv
    <3> QED BY <3>1, <3>2, <3>3
  <2>2. \A a \in {Address(w) : w \in new} : a[2] < port'[a[1]]
    BY <1>2, <1>5
  <2>3. ASSUME NEW u \in Topology, NEW k \in Task(u), NEW a \in instances'[u][k]
        PROVE  a \in instances[u][k] \/ a \in {Address(w) : w \in new}
    <3> PICK N : N = {Address(w) : w \in new}
      OBVIOUS
    <3>1. CASE Exists(t)
      <4>0. N \in SUBSET Place
        BY <1>2
      <4>1. instances' = [instances EXCEPT ![t][c.task] = @ \cup N]
        BY <1>4, <3>1
      <4>2. /\ [instances[t] EXCEPT ![c.task] = @ \cup N] \in [Task(t) -> SUBSET Place]
            /\ instances' = [instances EXCEPT ![t] = [instances[t] EXCEPT ![c.task] = @ \cup N]]
        BY <1>1, <1>3, <4>0, <4>1, ExtendedInstances
      <4> PICK f \in [Task(t) -> SUBSET Place] : f = [instances[t] EXCEPT ![c.task] = @ \cup N]
        BY <4>2
      <4>3. \A x \in Topology : instances'[x] = IF x = t THEN f ELSE instances[x]
        BY <1>1, <1>3, <4>2, InstancesTypes
      <4>4. \A m \in Task(t) : f[m] \subseteq instances[t][m] \cup N
        BY <1>1, <1>3 DEF TableInv
      <4> QED BY <2>3, <4>3, <4>4
    <3>2. CASE ~Exists(t)
      BY <1>4, <2>3, <3>2
    <3> QED BY <3>1, <3>2
  <2> HIDE DEF new
  <2> QED BY <2>1, <2>2, <2>3
<1>10. workers' \subseteq Worker
  BY <1>2, <1>3, <1>4 DEF PortsInv
<1> HIDE DEF new
<1> QED BY <1>5, <1>7, <1>8, <1>9, <1>10 DEF PortsInv, Address

LEMMA PortsStep == TInv /\ [Next]_vars => PortsInv'
<1> SUFFICES ASSUME TInv, [Next]_vars PROVE PortsInv'
  OBVIOUS
<1>0. PortsInv /\ TableInv
  BY DEF TInv
<1>1. ASSUME UNCHANGED <<workers, port, instances, up>> PROVE PortsInv'
  BY <1>0, <1>1 DEF PortsInv, Address
<1>2. CASE UNCHANGED vars
  BY <1>1, <1>2 DEF vars, supVars, tableVars, failVars
<1>3. CASE ClientStep
  BY <1>1, <1>3 DEF ClientStep, Submit, Send, Command, Serve, supVars, failVars
<1>4. ASSUME NEW p \in Thread, Operation(p) PROVE PortsInv'
  <2> PICK t : t = Topo(p)
    OBVIOUS
  <2>1. UNCHANGED <<workers, port, up>>
    BY <1>4 DEF Operation, Compile, BeginPrepare, BeginConfigure, EndPrepare, BeginStart, EndStart,
                BeginStop, EndStop, Kill, Erase, RestartAll, supVars, failVars
  <2>2. CASE UNCHANGED instances
    BY <1>1, <2>1, <2>2
  <2>3. CASE EndStop(p) \/ Erase(p)
    <3>1. instances' = [instances EXCEPT ![t] = NoInstances(t)]
      BY <2>3 DEF EndStop, Erase
    <3>2. t \in Topology
      BY <2>3, TopoType DEF EndStop, Erase, Doing, TInv
    <3>3. \A u \in Topology : instances'[u] = IF u = t THEN NoInstances(t) ELSE instances[u]
      BY <1>0, <3>1, <3>2, NoInstancesType, InstancesTypes
    <3>4. \A k \in Task(t) : NoInstances(t)[k] = {}
      BY <3>2, NoInstancesType
    <3>5. \A u \in Topology : \A k \in Task(u) : instances'[u][k] \subseteq instances[u][k]
      BY <3>3, <3>4
    <3> QED BY <1>0, <2>1, <3>5 DEF PortsInv, Address
  <2>4. CASE ~(EndStop(p) \/ Erase(p))
    <3>1. UNCHANGED instances
      BY <1>4, <2>4 DEF Operation, Compile, BeginPrepare, BeginConfigure, EndPrepare, BeginStart,
                        EndStart, BeginStop, Kill, RestartAll, tableVars
    <3> QED BY <2>2, <3>1
  <2> QED BY <2>3, <2>4
<1>5. ASSUME NEW p \in Thread, NEW c \in calls[p], AddWorkers(p, c) PROVE PortsInv'
  BY <1>5, AddedWorkers
<1>6. ASSUME NEW p \in Thread, NEW c \in calls[p], ConfigureWorkers(p, c) PROVE PortsInv'
  <2>1. UNCHANGED <<port, instances, up>>
    BY <1>6 DEF ConfigureWorkers, Calling, failVars
  <2>2. PICK g \in [workers -> Worker] : /\ workers' = {g[w] : w \in workers}
                                         /\ \A w \in workers : Same(g[w], w)
    BY <1>6, ConfiguredWorkers
  <2> QED BY <1>0, <2>1, <2>2, SameWorkers
<1>7. ASSUME NEW p \in Thread, NEW c \in calls[p], StartWorkers(p, c) PROVE PortsInv'
  <2>1. UNCHANGED <<port, instances, up>>
    BY <1>7 DEF StartWorkers, Calling, failVars
  <2>2. PICK g \in [workers -> Worker] : /\ workers' = {g[w] : w \in workers}
                                         /\ \A w \in workers : Same(g[w], w)
    BY <1>7, StartedWorkers
  <2> QED BY <1>0, <2>1, <2>2, SameWorkers
<1>8. ASSUME NEW p \in Thread, NEW c \in calls[p], KillWorkers(p, c) PROVE PortsInv'
  <2>1. workers' \subseteq workers /\ UNCHANGED <<port, instances, up>>
    BY <1>8 DEF KillWorkers, Calling, failVars
  <2>2. \A w \in workers' : w.sup \in up'
    BY <1>0, <2>1 DEF PortsInv
  <2> QED BY <1>0, <2>1, <2>2, FewerWorkers
<1>9. ASSUME NEW s \in Supervisor, Crash(s) PROVE PortsInv'
  <2>1. /\ workers' = {w \in workers : w.sup # s} /\ up' = up \ {s}
        /\ UNCHANGED <<port, instances>>
    BY <1>9 DEF Crash, tableVars
  <2>2. workers' \subseteq workers /\ \A w \in workers' : w.sup \in up'
    BY <1>0, <2>1 DEF PortsInv
  <2> QED BY <1>0, <2>1, <2>2, FewerWorkers
<1>10. ASSUME NEW s \in Supervisor, DetectFailure(s) \/ Forget(s) PROVE PortsInv'
  BY <1>1, <1>10 DEF DetectFailure, Forget, supVars, tableVars
<1> QED BY <1>2, <1>3, <1>4, <1>5, <1>6, <1>7, <1>8, <1>9, <1>10
        DEF Next, ThreadStep, CallStep, FailureStep

-----------------------------------------------------------------------------
(* Type correctness *)

LEMMA TypeInit == Init => TInv
<1> SUFFICES ASSUME Init PROVE TInv
  OBVIOUS
<1>1. TableInv
  BY NoInstancesType DEF Init, TableInv, Status
<1>2. MembersInv
  <2>1. Supervisor \ up = {}
    BY DEF Init
  <2>2. Cardinality({}) = 0 /\ MaxFailures \in Nat
    BY FS_EmptySet, ClusterAssumption DEF ClusterAssumption
  <2>3. Cardinality(Supervisor \ up) <= MaxFailures
    <3>1. \A n \in Nat : 0 <= n
      OBVIOUS
    <3> QED BY <2>1, <2>2, <3>1
  <2> QED BY <2>3 DEF Init, MembersInv
<1>3. ThreadInv
  BY DEF Init, ThreadInv, PhaseInv, Doing, Busy
<1>4. PortsInv
  BY NoInstancesType DEF Init, PortsInv
<1> QED BY <1>1, <1>2, <1>3, <1>4 DEF TInv

LEMMA TypeStep == TInv /\ [Next]_vars => TInv'
BY TableStep, MembersStep, ThreadStepType, PortsStep DEF TInv

LEMMA TypesOK == TInv => TypeOK
<1> SUFFICES ASSUME TInv PROVE TypeOK
  OBVIOUS
<1>0. TableInv /\ MembersInv /\ ThreadInv /\ PortsInv
  BY DEF TInv
<1>1. \A t \in Topology : \A k \in Task(t) : \A a \in instances[t][k] :
        a[1] \in Supervisor /\ a[2] < port[a[1]]
  <2>1. \A t \in Topology : \A k \in Task(t) : instances[t][k] \subseteq Place
    BY <1>0 DEF TableInv
  <2> QED BY <1>0, <2>1 DEF PortsInv, Place
<1>2. ASSUME NEW p \in Thread
      PROVE  /\ \A i \in DOMAIN job[p] : job[p][i].op \in Operations
             /\ at[p] \in {"begin", "add", "config", "start", "kill"}
             /\ calls[p] # {} => Busy(p)
  <2>1. job[p] \in Seq(Jobs) /\ PhaseInv(p) /\ at[p] \in {"begin", "add", "config", "start", "kill"}
    BY <1>0 DEF ThreadInv
  <2>2. \A i \in DOMAIN job[p] : job[p][i] \in Jobs
    BY <2>1
  <2>3. \A e \in Jobs : e.op \in Operations
    BY DEF Jobs, Op, Operations
  <2>4. calls[p] # {} => Busy(p)
    BY <2>1 DEF PhaseInv, Doing
  <2> QED BY <2>1, <2>2, <2>3, <2>4
<1>3. \A w \in workers : /\ w.sup \in up /\ w.port < port[w.sup]
                         /\ w.task \in Task(w.topo)
                         /\ w.state \in {"up", "running", "gone"}
                         /\ \A v \in workers : Address(v) = Address(w) => v = w
  BY <1>0 DEF PortsInv, Worker
<1>4. supervisors \cup members \subseteq Supervisor /\ executor \in Supervisor \cup {NoSup}
  BY <1>0 DEF MembersInv
<1> QED BY <1>0, <1>1, <1>2, <1>3, <1>4 DEF TypeOK, TableInv, MembersInv

\* The variables always have their types; in particular a supervisor's port serves
\* one worker at a time and none that has not been handed out, whatever the number
\* of restart threads that work on the topology table beside Nimbus's own.
THEOREM TypeCorrect == Spec => []TypeOK
<1>1. Init => TInv
  BY TypeInit
<1>2. TInv /\ [Next]_vars => TInv'
  BY TypeStep
<1>3. TInv => TypeOK
  BY TypesOK
<1> QED BY <1>1, <1>2, <1>3, PTL DEF Spec

-----------------------------------------------------------------------------
(* Threads that do not overlap: the invariant *)

\* The joined names of two tasks differ (see createWorkerId).
NamesApart ==
  \A t, u \in Topology : \A k \in Task(t), m \in Task(u) :
    WorkerId[t][k] = WorkerId[u][m] => t = u /\ k = m

Of(t) == {w \in workers : w.topo = t}

Single == \A p, q \in Thread : Busy(p) /\ Busy(q) => p = q

\* No topology that is about to be prepared has instances.
Unprepared ==
  \A p \in Thread : Doing(p, "prepare") /\ at[p] = "begin" =>
                     instances[Topo(p)] = NoInstances(Topo(p))

\* Operation i of a job: a prepare comes before its start and after its compile,
\* what ends a topology ends the job, and a topology is erased by a client alone,
\* after it was stopped if the same job stops anything.
Ordered(p, ops, i) ==
  LET o == ops[i].op
      t == ops[i].topo
      Follows(x) == i + 1 \in DOMAIN ops /\ ops[i + 1] = Op(x, t)
  IN  /\ o = "compile" => Follows("prepare")
      /\ o = "prepare" => Follows("start")
      /\ o \in {"kill", "erase", "restart"} => i = Len(ops)
      /\ o = "erase" /\ i > 1 => ops[i - 1] = Op("stop", t)
      /\ p # Nimbus => o \notin {"kill", "erase"}

\* A topology that is to be stopped exists, and so do all that a restart thread
\* works on, until it is done.
Standing(p, e) ==
  e.op = "stop" \/ (p # Nimbus /\ e.op # "restart") => Exists(e.topo)

JobShape(p) == \A i \in DOMAIN job[p] : Ordered(p, job[p], i) /\ Standing(p, job[p][i])

\* Nimbus knows all workers, and none of them has ended by itself.
KnownInv ==
  /\ \A t \in spec : Exists(t)
  /\ \A w \in workers :
       /\ w.listed /\ w.state # "gone" /\ w.topo \in spec
       /\ Address(w) \in instances[w.topo][w.task]

NotStarted == {"nonexisted", "empty", "pending", "idle"}

\* The state of the table says which workers there are, and whether they run.
StatusInv(t) ==
  /\ status[t] = "preparing" =>
       /\ \E p \in Thread : Doing(p, "prepare") /\ at[p] # "begin" /\ Topo(p) = t
       /\ \A w \in Of(t) : w.state = "up"
  /\ status[t] = "ready" => \E p \in Thread : Doing(p, "start") /\ Topo(p) = t
  /\ status[t] \in NotStarted => Of(t) = {}

\* The loop p is in has a call to make for the worker.
Owed(p, w) == [sup |-> w.sup, task |-> w.task, count |-> 0] \in calls[p]

\* What the thread has done and what it has left to do.
LoopInv(p) ==
  /\ at[p] \in {"add", "config"} /\ Exists(Topo(p)) => status[Topo(p)] = "preparing"
  /\ at[p] = "add" /\ calls[p] # {} => Topo(p) \in spec
  /\ Doing(p, "start") /\ at[p] = "begin" /\ status[Topo(p)] = "ready" =>
       \A w \in Of(Topo(p)) : w.state = "up"
  /\ at[p] = "start" =>
       /\ status[Topo(p)] = "ready"
       /\ \A w \in Of(Topo(p)) : Owed(p, w) => w.state = "up"
  /\ at[p] = "kill" => \A w \in Of(Topo(p)) : Owed(p, w)
  /\ at[p] \in {"start", "kill"} => \A c \in calls[p] : c.count = 0
  /\ Doing(p, "erase") => status[Topo(p)] \in NotStarted

Alone ==
  /\ Single /\ Unprepared
  /\ stuck = {}
  /\ KnownInv
  /\ \A t \in Topology : StatusInv(t)
  /\ \A p \in Thread : JobShape(p) /\ LoopInv(p)

IInv == TInv /\ (~clash => Alone)

-----------------------------------------------------------------------------
(* Lemmas *)

LEMMA AtMostOne ==
  ASSUME NEW S \in SUBSET Thread, ~(Cardinality(S) > 1)
  PROVE  \A p, q \in S : p = q
<1> SUFFICES ASSUME NEW p \in S, NEW q \in S, p # q PROVE FALSE
  OBVIOUS
<1>1. IsFiniteSet(Thread)
  <2>1. IsFiniteSet(Restart)
    <3>1. 1 \in Int /\ MaxFailures \in Int
      BY ClusterAssumption DEF ClusterAssumption
    <3> QED BY <3>1, FS_Interval DEF Restart
  <2> QED BY <2>1, FS_Singleton, FS_Union DEF Thread
<1>2. IsFiniteSet(S) /\ Cardinality(S) \in Nat
  BY <1>1, FS_Subset, FS_CardinalityType
<1>3. Cardinality({p, q}) = 2
  <2>1. Cardinality({p} \cup {q}) = Cardinality({p}) + 1 /\ Cardinality({p}) = 1
    BY FS_Singleton, FS_AddElement
  <2>2. {p, q} = {p} \cup {q}
    OBVIOUS
  <2> QED BY <2>1, <2>2
<1>4. Cardinality({p, q}) <= Cardinality(S)
  <2>1. {p, q} \subseteq S
    OBVIOUS
  <2> QED BY <1>2, <2>1, FS_Subset
<1> QED BY <1>2, <1>3, <1>4

\* A step without a clash leaves no two threads busy and no topology to be prepared twice.
LEMMA NoClash ==
  ASSUME Observe, ~clash'
  PROVE  ~clash /\ Single' /\ Unprepared'
<1>1. ~clash /\ ~Disorder'
  BY DEF Observe
<1>2. Single'
  <2> DEFINE S == {p \in Thread : Busy(p)'}
  <2>1. S \in SUBSET Thread /\ ~(Cardinality(S) > 1)
    BY <1>1 DEF Disorder, Overlap
  <2>2. \A p, q \in S : p = q
    BY <2>1, AtMostOne
  <2> QED BY <2>2 DEF Single
<1>3. Unprepared'
  BY <1>1 DEF Disorder, Unprepared
<1> QED BY <1>1, <1>2, <1>3

\* While one thread works the others do nothing.
LEMMA Others ==
  ASSUME ThreadInv, Single, NEW p \in Thread, Busy(p), NEW q \in Thread, q # p
  PROVE  job[q] = << >> /\ at[q] = "begin" /\ calls[q] = {} /\ \A o : ~Doing(q, o)
<1>1. ~Busy(q) /\ PhaseInv(q)
  BY DEF Single, ThreadInv
<1> QED BY <1>1 DEF Busy, Doing, PhaseInv, ThreadInv

LEMMA IdleAfter ==
  ASSUME NEW q \in Thread, job'[q] = << >>, at'[q] = "begin"
  PROVE  JobShape(q)' /\ LoopInv(q)'
<1>1. DOMAIN job'[q] = {} /\ \A o : ~Doing(q, o)'
  BY DEF Doing, Busy
<1> QED BY <1>1 DEF JobShape, LoopInv

\* What is left to show when thread p, the only one that works, takes a step.
LEMMA AloneAgain ==
  ASSUME TInv, Alone, NEW p \in Thread, Busy(p), Single', Unprepared', stuck' = {}, KnownInv',
         \A t \in Topology : StatusInv(t)',
         \A q \in Thread \ {p} : job'[q] = job[q] /\ at'[q] = at[q],
         JobShape(p)', LoopInv(p)'
  PROVE  Alone'
<1>1. ASSUME NEW q \in Thread, q # p PROVE JobShape(q)' /\ LoopInv(q)'
  <2>1. job[q] = << >> /\ at[q] = "begin"
    BY <1>1, Others DEF TInv, Alone
  <2> QED BY <1>1, <2>1, IdleAfter
<1> QED BY <1>1 DEF Alone

\* A topology that is shown as being prepared or ready is the one p works on.
LEMMA ShownAs ==
  ASSUME TInv, Alone, NEW p \in Thread, Busy(p), NEW t \in Topology
  PROVE  /\ status[t] \in Status
         /\ status[t] = "preparing" => Doing(p, "prepare") /\ at[p] # "begin" /\ Topo(p) = t
         /\ status[t] = "ready" => Doing(p, "start") /\ Topo(p) = t
<1>1. \A q \in Thread : Busy(q) => q = p
  BY DEF Alone, Single
<1>2. StatusInv(t) /\ status[t] \in Status
  BY DEF Alone, TInv, TableInv
<1> QED BY <1>1, <1>2 DEF StatusInv, Doing

LEMMA TailOrdered ==
  ASSUME NEW p, NEW ops \in Seq(Jobs), ops # << >>, \A i \in DOMAIN ops : Ordered(p, ops, i)
  PROVE  \A i \in DOMAIN Tail(ops) : Ordered(p, Tail(ops), i)
<1> SUFFICES ASSUME NEW i \in DOMAIN Tail(ops) PROVE Ordered(p, Tail(ops), i)
  OBVIOUS
<1>1. /\ Len(ops) \in Nat \ {0} /\ DOMAIN ops = 1 .. Len(ops)
      /\ Tail(ops) \in Seq(Jobs) /\ Len(Tail(ops)) = Len(ops) - 1
      /\ DOMAIN Tail(ops) = 1 .. Len(ops) - 1
      /\ \A j \in 1 .. Len(ops) - 1 : Tail(ops)[j] = ops[j + 1]
  OBVIOUS
<1>2. i \in Nat /\ i + 1 \in DOMAIN ops /\ Tail(ops)[i] = ops[i + 1] /\ Ordered(p, ops, i + 1)
  BY <1>1
<1>3. i + 2 \in DOMAIN ops => i + 1 \in DOMAIN Tail(ops) /\ Tail(ops)[i + 1] = ops[i + 2]
  BY <1>1, <1>2
<1>4. (i + 1) + 1 = i + 2 /\ (i + 1) - 1 = i
  BY <1>2
<1>5. i > 1 => Tail(ops)[i - 1] = ops[i]
  BY <1>1, <1>2
<1>6. i + 1 = Len(ops) => i = Len(Tail(ops))
  <2> PICK m \in Nat : m = Len(ops)
    BY <1>1
  <2>1. i + 1 = m => i = m - 1
    BY <1>2
  <2> QED BY <1>1, <2>1
<1>7. i + 1 > 1
  BY <1>2
<1> HIDE DEF Tail
<1> QED BY <1>2, <1>3, <1>4, <1>5, <1>6, <1>7 DEF Ordered

\* A thread that goes on with the rest of its job keeps its shape.
LEMMA RestShape ==
  ASSUME TInv, NEW p \in Thread, Busy(p), JobShape(p), ContinueWith(p, Rest(p)),
         \A i \in DOMAIN Rest(p) :
           Rest(p)[i].topo \in Topology /\ Exists(Rest(p)[i].topo)
             => status'[Rest(p)[i].topo] # "nonexisted"
  PROVE  JobShape(p)'
<1> PICK ops \in Seq(Jobs) : ops = job[p]
  BY JobFacts DEF TInv
<1>1. ops # << >> /\ \A i \in DOMAIN ops : Ordered(p, ops, i) /\ Standing(p, ops[i])
  BY DEF Busy, JobShape
<1>2. \A i \in DOMAIN Tail(ops) : Ordered(p, Tail(ops), i)
  BY <1>1, TailOrdered
<1>3. job'[p] = Tail(ops)
  BY DEF ContinueWith, Rest, TInv, ThreadInv
<1>4. ASSUME NEW i \in DOMAIN Tail(ops) PROVE Standing(p, Tail(ops)[i])'
  <2>1. Tail(ops) = Rest(p)
    BY DEF Rest
  <2>2. /\ i \in 1 .. Len(Rest(p)) /\ Rest(p)[i] = job[p][i + 1] /\ i + 1 \in DOMAIN job[p]
        /\ job[p][i + 1] \in Jobs
    <3>1. /\ job[p] \in Seq(Jobs) /\ Len(Rest(p)) = Len(job[p]) - 1 /\ Len(job[p]) \in Nat
          /\ \A j \in 1 .. Len(Rest(p)) : Rest(p)[j] = job[p][j + 1]
          /\ DOMAIN job[p] = 1 .. Len(job[p]) /\ DOMAIN Rest(p) = 1 .. Len(Rest(p))
      BY JobFacts DEF TInv
    <3>2. i \in 1 .. Len(Rest(p)) /\ i + 1 \in DOMAIN job[p]
      BY <2>1, <3>1
    <3> QED BY <3>1, <3>2
  <2> PICK e \in Jobs : e = Rest(p)[i]
    BY <2>2
  <2>3. Standing(p, e)
    BY <1>1, <2>2
  <2>4. e.op # "restart" => e.topo \in Topology
    BY DEF Jobs, Op
  <2>5. Exists(e.topo) /\ e.topo \in Topology => status'[e.topo] # "nonexisted"
    BY <2>1
  <2>6. e.op = "stop" \/ (p # Nimbus /\ e.op # "restart") => status'[e.topo] # "nonexisted"
    BY <2>3, <2>4, <2>5 DEF Standing
  <2> QED BY <2>1, <2>6 DEF Standing, Exists
<1> QED BY <1>2, <1>3, <1>4 DEF JobShape, Ordered

LEMMA SameShape ==
  ASSUME TInv, NEW p \in Thread, JobShape(p), job'[p] = job[p],
         \A t \in Topology : Exists(t) => Exists(t)'
  PROVE  JobShape(p)'
<1>1. ASSUME NEW i \in DOMAIN job[p] PROVE Standing(p, job[p][i])'
  <2> PICK e : e = job[p][i]
    OBVIOUS
  <2>1. e \in Jobs /\ Standing(p, e)
    <3>1. job[p] \in Seq(Jobs)
      BY DEF TInv, ThreadInv
    <3>2. job[p][i] \in Jobs
      BY <3>1
    <3> QED BY <3>2 DEF JobShape
  <2>2. e.op # "restart" => e.topo \in Topology
    BY <2>1 DEF Jobs, Op
  <2>3. job'[p][i] = e
    OBVIOUS
  <2>4. e.op = "stop" \/ (p # Nimbus /\ e.op # "restart") => Exists(e.topo)'
    BY <2>1, <2>2 DEF Standing
  <2> QED BY <2>3, <2>4 DEF Standing
<1> QED BY <1>1 DEF JobShape, Ordered

\* A step that only takes workers away.
LEMMA Untouched ==
  ASSUME TInv, Alone, Single', Unprepared', stuck' = {}, workers' \subseteq workers,
         UNCHANGED <<status, spec, instances, job, at, calls>>
  PROVE  Alone'
<1>1. \A t : Of(t)' \subseteq Of(t) /\ Exists(t)' = Exists(t)
  BY DEF Of, Exists
<1>2. \A p : Busy(p)' = Busy(p) /\ Topo(p)' = Topo(p) /\ \A o : Doing(p, o)' = Doing(p, o)
  BY DEF Busy, Topo, Doing
<1>3. KnownInv'
  BY <1>1 DEF Alone, KnownInv, Address
<1>4. \A t \in Topology : StatusInv(t)'
  BY <1>1, <1>2 DEF Alone, StatusInv
<1>5. ASSUME NEW p \in Thread PROVE JobShape(p)' /\ LoopInv(p)'
  <2>1. JobShape(p) /\ LoopInv(p)
    BY DEF Alone
  <2>2. JobShape(p)'
    BY <1>1, <2>1, SameShape
  <2>3. LoopInv(p)'
    BY <1>1, <1>2, <2>1 DEF LoopInv, Owed
  <2> QED BY <2>2, <2>3
<1> QED BY <1>3, <1>4, <1>5 DEF Alone

\* A thread that had nothing to do gets a job.
LEMMA StartJob ==
  ASSUME TInv, Alone, Single', Unprepared', NEW p \in Thread, ~Busy(p), NEW ops \in Seq(Jobs),
         job' = [job EXCEPT ![p] = ops], ops # << >>, ops[1].op \notin {"start", "erase"},
         \A i \in DOMAIN ops : Ordered(p, ops, i) /\ Standing(p, ops[i]),
         UNCHANGED <<status, spec, instances, workers, stuck, at, calls>>
  PROVE  Alone'
<1>1. /\ job'[p] = ops /\ \A q \in Thread : q # p => job'[q] = job[q]
      /\ job[p] = << >> /\ at[p] = "begin" /\ job \in [Thread -> Seq(Jobs)]
  BY DEF TInv, ThreadInv, PhaseInv, Doing, Busy
<1>2. Busy(p)'
  BY <1>1 DEF Busy
<1>3. \A q \in Thread : q # p => ~Busy(q)'
  BY <1>2 DEF Single
<1>4. \A q \in Thread : ~Busy(q)
  BY <1>1, <1>3 DEF Busy
<1>5. KnownInv'
  BY DEF Alone, KnownInv, Exists, Address
<1>6. ASSUME NEW t \in Topology PROVE StatusInv(t)'
  BY <1>4 DEF Alone, StatusInv, Doing, Of
<1>7. JobShape(p)'
  BY <1>1 DEF JobShape, Ordered, Standing, Exists
<1>8. LoopInv(p)'
  <2>1. at'[p] = "begin" /\ ~Doing(p, "start")' /\ ~Doing(p, "erase")'
    BY <1>1 DEF Doing
  <2> QED BY <2>1 DEF LoopInv
<1>9. ASSUME NEW q \in Thread, q # p PROVE JobShape(q)' /\ LoopInv(q)'
  <2>1. job'[q] = << >> /\ at'[q] = "begin"
    BY <1>1, <1>3, <1>4, <1>9 DEF Busy, TInv, ThreadInv, PhaseInv, Doing
  <2> QED BY <2>1, IdleAfter
<1> QED BY <1>5, <1>6, <1>7, <1>8, <1>9 DEF Alone

\* What the invariant says of a topology that p does not prepare or start.
LEMMA OthersShown ==
  ASSUME TInv, Alone, NEW p \in Thread, Busy(p), NEW t \in Topology,
         t # Topo(p) \/ job[p][1].op \notin {"prepare", "start"},
         status'[t] = status[t], Of(t) = {} => Of(t)' = {}
  PROVE  StatusInv(t)' /\ status'[t] # "ready"
<1>1. status[t] # "preparing" /\ status[t] # "ready"
  BY ShownAs DEF Doing
<1>2. status[t] \in NotStarted => Of(t) = {}
  BY DEF Alone, StatusInv
<1> QED BY <1>1, <1>2 DEF StatusInv

LEMMA WorkerFacts ==
  ASSUME TInv, Alone, NEW p \in Thread, Busy(p), job[p][1].op # "restart"
  PROVE  /\ Topo(p) \in Topology
         /\ Exists(Topo(p)) = (status[Topo(p)] # "nonexisted") /\ status[Topo(p)] \in Status
         /\ Ordered(p, job[p], 1) /\ Standing(p, job[p][1])
         /\ LoopInv(p) /\ KnownInv /\ JobShape(p) /\ PhaseInv(p)
<1>1. Topo(p) \in Topology
  BY TopoType DEF TInv
<1>2. 1 \in DOMAIN job[p]
  <2>1. Len(job[p]) \in Nat \ {0} /\ DOMAIN job[p] = 1 .. Len(job[p])
    BY JobFacts DEF TInv
  <2> QED BY <2>1
<1>3. JobShape(p) /\ LoopInv(p) /\ KnownInv /\ PhaseInv(p)
  BY DEF Alone, TInv, ThreadInv
<1>4. Ordered(p, job[p], 1) /\ Standing(p, job[p][1])
  BY <1>2, <1>3 DEF JobShape
<1>5. status[Topo(p)] \in Status
  BY <1>1 DEF TInv, TableInv
<1> QED BY <1>1, <1>3, <1>4, <1>5 DEF Exists

\* Thread p ends its operation; the next one of its job, if there is one, is now current.
LEMMA NextOp ==
  ASSUME TInv, Alone, NEW p \in Thread, Busy(p), ContinueWith(p, Rest(p))
  PROVE  /\ job'[p] = Rest(p) /\ at'[p] = "begin" /\ calls'[p] = {}
         /\ \A q \in Thread \ {p} : job'[q] = job[q] /\ at'[q] = at[q]
         /\ Busy(p)' => 2 \in DOMAIN job[p] /\ job'[p][1] = job[p][2] /\ Ordered(p, job[p], 2)
         /\ 2 \in DOMAIN job[p] => Busy(p)' /\ job'[p][1] = job[p][2]
         /\ Busy(p)' /\ job[p][2].op # "restart" => Topo(p)' \in Topology
<1>1. /\ job'[p] = Rest(p) /\ at'[p] = "begin" /\ calls'[p] = {}
      /\ \A q \in Thread \ {p} : job'[q] = job[q] /\ at'[q] = at[q]
  BY DEF ContinueWith, TInv, ThreadInv
<1>2. /\ job[p] \in Seq(Jobs) /\ Len(job[p]) \in Nat \ {0}
      /\ Rest(p) \in Seq(Jobs) /\ Len(Rest(p)) = Len(job[p]) - 1
      /\ \A i \in 1 .. Len(Rest(p)) : Rest(p)[i] = job[p][i + 1]
      /\ DOMAIN job[p] = 1 .. Len(job[p])
  BY JobFacts DEF TInv
<1>3. Rest(p) # << >> => Len(Rest(p)) # 0
  BY <1>2
<1>4. Len(Rest(p)) # 0 => Rest(p) # << >>
  OBVIOUS
<1> PICK n \in Nat \ {0} : n = Len(job[p])
  BY <1>2
<1>5. /\ n - 1 # 0 => 1 \in 1 .. n - 1 /\ 2 \in 1 .. n
      /\ 2 \in 1 .. n => n - 1 # 0 /\ 1 \in 1 .. n - 1
      /\ 1 + 1 = 2
  <2>1. n \in Nat \ {0}
    OBVIOUS
  <2>2. n - 1 # 0 => n >= 2
    BY ONLY <2>1
  <2>3. n >= 2 => 1 \in 1 .. n - 1 /\ 2 \in 1 .. n
    BY ONLY <2>1
  <2>4. 2 \in 1 .. n => n >= 2 /\ n - 1 # 0
    BY ONLY <2>1
  <2> QED BY <2>2, <2>3, <2>4
<1>6. Rest(p) # << >> <=> 2 \in DOMAIN job[p]
  BY <1>2, <1>3, <1>4, <1>5
<1>7. 2 \in DOMAIN job[p] => Rest(p)[1] = job[p][2] /\ job[p][2] \in Jobs
  BY <1>2, <1>5
<1>8. Busy(p)' <=> Rest(p) # << >>
  BY <1>1 DEF Busy
<1>9. 2 \in DOMAIN job[p] => Ordered(p, job[p], 2)
  BY DEF Alone, JobShape
<1>10. Busy(p)' /\ job[p][2].op # "restart" => Topo(p)' \in Topology
  BY <1>1, <1>6, <1>7, <1>8 DEF Jobs, Op, Topo
<1> QED BY <1>1, <1>6, <1>7, <1>8, <1>9, <1>10

-----------------------------------------------------------------------------
(* The operations *)

\* An operation that leaves the specifications, the instances and the workers alone
\* ends, and gives its topology the status v.
LEMMA EndStep ==
  ASSUME TInv, Alone, Single', Unprepared', NEW p \in Thread, Busy(p),
         job[p][1].op \notin {"restart", "kill", "erase"}, ContinueWith(p, Rest(p)),
         NEW v \in Status \ {"nonexisted"}, NEW t, t = Topo(p), SetStatus(t, v),
         UNCHANGED <<spec, instances, workers, stuck>>, StatusInv(t)', LoopInv(p)'
  PROVE  Alone'
<1>1. t \in Topology /\ KnownInv /\ JobShape(p) /\ stuck = {}
  BY WorkerFacts DEF Alone
<1>2. \A u \in Topology : /\ Exists(u)' = Exists(u)
                          /\ u # t => status'[u] = status[u]
  BY <1>1 DEF SetStatus, Exists, TInv, TableInv
<1>3. KnownInv'
  BY <1>1, <1>2 DEF KnownInv, Address, TInv, TableInv
<1>4. ASSUME NEW u \in Topology PROVE StatusInv(u)'
  <2>1. CASE u = t
    BY <2>1
  <2>2. CASE u # t
    <3>1. status'[u] = status[u] /\ (Of(u) = {} => Of(u)' = {})
      BY <1>2, <2>2 DEF Of
    <3>2. u # Topo(p)
      BY <2>2
    <3> QED BY <3>1, <3>2, OthersShown
  <2> QED BY <2>1, <2>2
<1>5. \A q \in Thread \ {p} : job'[q] = job[q] /\ at'[q] = at[q]
  BY NextOp
<1>6. JobShape(p)'
  <2>1. \A i \in DOMAIN Rest(p) :
          Rest(p)[i].topo \in Topology /\ Exists(Rest(p)[i].topo)
            => status'[Rest(p)[i].topo] # "nonexisted"
    BY <1>2 DEF Exists
  <2> QED BY <1>1, <2>1, RestShape
<1> QED BY <1>1, <1>3, <1>4, <1>5, <1>6, AloneAgain

\* A step within the loop of an operation.
LEMMA LoopStep ==
  ASSUME TInv, Alone, Single', Unprepared', NEW p \in Thread, Busy(p),
         UNCHANGED <<job, spec, stuck>>, KnownInv',
         \A q \in Thread \ {p} : at'[q] = at[q],
         \A u \in Topology : Exists(u) => Exists(u)',
         \A u \in Topology : StatusInv(u)', LoopInv(p)'
  PROVE  Alone'
<1>1. JobShape(p) /\ stuck = {}
  BY DEF Alone
<1>2. JobShape(p)'
  BY <1>1, SameShape
<1> QED BY <1>1, <1>2, AloneAgain

LEMMA CompileStep ==
  ASSUME TInv, Alone, Single', Unprepared', NEW p \in Thread, Compile(p)
  PROVE  Alone'
<1> PICK t : t = Topo(p)
  OBVIOUS
<1>0. /\ Busy(p) /\ job[p][1].op = "compile" /\ ContinueWith(p, Rest(p)) /\ SetStatus(t, "idle")
      /\ UNCHANGED <<spec, instances, workers, stuck>>
  BY DEF Compile, Doing, supVars
<1>1. /\ t \in Topology /\ Ordered(p, job[p], 1) /\ status[t] \in Status
      /\ Exists(t) = (status[t] # "nonexisted")
  BY <1>0, WorkerFacts
<1>2. "idle" \in Status \ {"nonexisted"} /\ "idle" \in NotStarted
  BY DEF Status, NotStarted
<1>3. status[t] # "preparing" /\ status[t] # "ready"
  BY <1>0, <1>1, ShownAs DEF Doing
<1>4. 2 \in DOMAIN job[p] /\ job[p][2] = Op("prepare", t)
  BY <1>0, <1>1 DEF Ordered, Topo
<1>5. Busy(p)' /\ job'[p][1] = Op("prepare", t) /\ at'[p] = "begin"
  BY <1>0, <1>4, NextOp
<1>6. Of(t)' = {}
  <2>1. Doing(p, "prepare")' /\ Topo(p)' = t
    BY <1>5 DEF Doing, Topo, Op
  <2>2. instances'[t] = NoInstances(t)
    BY <1>5, <2>1 DEF Unprepared
  <2>3. \A k \in Task(t) : instances[t][k] = {}
    BY <1>0, <1>1, <2>2, NoInstancesType
  <2>4. \A w \in workers : w.topo # t
    BY <2>3 DEF Alone, KnownInv, TInv, PortsInv
  <2> QED BY <1>0, <2>4 DEF Of
<1>7. StatusInv(t)'
  <2>1. status'[t] = "idle" \/ status'[t] = status[t]
    BY <1>0, <1>1 DEF SetStatus, TInv, TableInv
  <2> QED BY <1>3, <1>6, <2>1 DEF StatusInv
<1>8. LoopInv(p)'
  <2>1. ~Doing(p, "start")' /\ ~Doing(p, "erase")'
    BY <1>5 DEF Doing, Op
  <2> QED BY <1>5, <2>1 DEF LoopInv
<1> QED BY <1>0, <1>2, <1>7, <1>8, EndStep

LEMMA BeginPrepareStep ==
  ASSUME TInv, Alone, Single', Unprepared', NEW p \in Thread, BeginPrepare(p)
  PROVE  Alone'
<1> PICK t : t = Topo(p)
  OBVIOUS
<1>0. /\ Busy(p) /\ job[p][1].op = "prepare" /\ Doing(p, "prepare") /\ at[p] = "begin"
      /\ SetStatus(t, "preparing") /\ EnterLoop(p, "add", AddCalls(t, members))
      /\ UNCHANGED <<spec, instances, workers, stuck, job>>
  BY DEF BeginPrepare, Doing, supVars
<1>1. /\ t \in Topology /\ KnownInv /\ status[t] \in Status
      /\ Exists(t) = (status[t] # "nonexisted")
  BY <1>0, WorkerFacts
<1>2. \A u \in Topology : /\ Exists(u)' = Exists(u)
                          /\ u # t => status'[u] = status[u]
  BY <1>0, <1>1 DEF SetStatus, Exists, TInv, TableInv
<1>3. Of(t) = {}
  <2>1. instances[t] = NoInstances(t)
    BY <1>0 DEF Alone, Unprepared
  <2>2. \A k \in Task(t) : instances[t][k] = {}
    BY <1>1, <2>1, NoInstancesType
  <2>3. \A w \in workers : w.topo # t
    BY <1>1, <2>2 DEF KnownInv, TInv, PortsInv
  <2> QED BY <2>3 DEF Of
<1>4. KnownInv'
  BY <1>0, <1>1, <1>2 DEF KnownInv, Address, TInv, TableInv
<1>5. at'[p] = "add" /\ calls'[p] = AddCalls(t, members) /\ \A q \in Thread \ {p} : at'[q] = at[q]
  BY <1>0 DEF EnterLoop, TInv, ThreadInv
<1>6. status'[t] = IF Exists(t) THEN "preparing" ELSE "nonexisted"
  BY <1>0, <1>1 DEF SetStatus, TInv, TableInv
<1>7. Doing(p, "prepare")' /\ Topo(p)' = t /\ \A o : o # "prepare" => ~Doing(p, o)'
  BY <1>0 DEF Doing, Busy, Topo
<1>8. Of(t)' = {}
  BY <1>0, <1>3 DEF Of
<1>9. ASSUME NEW u \in Topology PROVE StatusInv(u)'
  <2>1. CASE u = t
    BY <1>5, <1>6, <1>7, <1>8, <2>1 DEF StatusInv
  <2>2. CASE u # t
    <3>1. status'[u] = status[u] /\ (Of(u) = {} => Of(u)' = {}) /\ u # Topo(p)
      BY <1>0, <1>2, <2>2 DEF Of
    <3> QED BY <1>0, <3>1, OthersShown
  <2> QED BY <2>1, <2>2
<1>10. calls'[p] # {} => t \in spec
  <2>1. t \notin spec => Named(t) = {}
    BY DEF Named
  <2>2. Named(t) = {} => AddCalls(t, members) = {}
    BY DEF AddCalls
  <2> QED BY <1>5, <2>1, <2>2
<1>11. LoopInv(p)'
  BY <1>0, <1>5, <1>6, <1>7, <1>10 DEF LoopInv, Exists
<1> QED BY <1>0, <1>2, <1>4, <1>5, <1>9, <1>11, LoopStep

LEMMA BeginConfigureStep ==
  ASSUME TInv, Alone, Single', Unprepared', NEW p \in Thread, BeginConfigure(p)
  PROVE  Alone'
<1>0. /\ Busy(p) /\ job[p][1].op = "prepare" /\ Doing(p, "prepare") /\ at[p] = "add"
      /\ EnterLoop(p, "config", ConfigCalls(supervisors))
      /\ UNCHANGED <<status, spec, instances, workers, stuck, job>>
  BY DEF BeginConfigure, Doing, supVars, tableVars
<1>1. KnownInv /\ LoopInv(p)
  BY <1>0, WorkerFacts
<1>2. at'[p] = "config" /\ \A q \in Thread \ {p} : at'[q] = at[q]
  BY <1>0 DEF EnterLoop, TInv, ThreadInv
<1>3. /\ \A u : Exists(u)' = Exists(u) /\ Of(u)' = Of(u)
      /\ \A q : Topo(q)' = Topo(q) /\ \A o : Doing(q, o)' = Doing(q, o)
  BY <1>0 DEF Exists, Of, Topo, Doing, Busy
<1>4. KnownInv'
  BY <1>0, <1>1, <1>3 DEF KnownInv, Address
<1>5. ASSUME NEW u \in Topology PROVE StatusInv(u)'
  <2>1. StatusInv(u)
    BY DEF Alone
  <2>2. \A q \in Thread : at[q] # "begin" => at'[q] # "begin"
    BY <1>2
  <2> QED BY <1>0, <1>3, <2>1, <2>2 DEF StatusInv
<1>6. LoopInv(p)'
  <2>1. \A o : o # "prepare" => ~Doing(p, o)'
    BY <1>0, <1>3 DEF Doing
  <2> QED BY <1>0, <1>1, <1>2, <1>3, <2>1 DEF LoopInv
<1> QED BY <1>0, <1>2, <1>3, <1>4, <1>5, <1>6, LoopStep

LEMMA EndPrepareStep ==
  ASSUME TInv, Alone, Single', Unprepared', NEW p \in Thread, EndPrepare(p)
  PROVE  Alone'
<1> PICK t : t = Topo(p)
  OBVIOUS
<1>0. /\ Busy(p) /\ job[p][1].op = "prepare" /\ ContinueWith(p, Rest(p)) /\ SetStatus(t, "ready")
      /\ at[p] = "config" /\ UNCHANGED <<spec, instances, workers, stuck>>
  BY DEF EndPrepare, Doing, supVars
<1>1. /\ t \in Topology /\ Ordered(p, job[p], 1) /\ status[t] \in Status /\ LoopInv(p)
      /\ Exists(t) = (status[t] # "nonexisted")
  BY <1>0, WorkerFacts
<1>2. "ready" \in Status \ {"nonexisted"}
  BY DEF Status
<1>3. 2 \in DOMAIN job[p] /\ job[p][2] = Op("start", t)
  BY <1>0, <1>1 DEF Ordered, Topo
<1>4. Busy(p)' /\ job'[p][1] = Op("start", t) /\ at'[p] = "begin"
  BY <1>0, <1>3, NextOp
<1>5. /\ Doing(p, "start")' /\ Topo(p)' = t /\ ~Doing(p, "erase")'
  BY <1>4 DEF Doing, Topo, Op
<1>6. status'[t] = IF Exists(t) THEN "ready" ELSE "nonexisted"
  BY <1>0, <1>1 DEF SetStatus, TInv, TableInv
<1>7. StatusInv(t) /\ Of(t)' = Of(t)
  BY <1>0, <1>1 DEF Alone, Of
<1>8. StatusInv(t)'
  <2>1. "nonexisted" \in NotStarted /\ "ready" \notin NotStarted
    BY DEF NotStarted
  <2>2. ~Exists(t) => Of(t)' = {}
    BY <1>1, <1>7, <2>1 DEF StatusInv
  <2> QED BY <1>5, <1>6, <2>1, <2>2 DEF StatusInv
<1>9. LoopInv(p)'
  <2>1. Exists(t) => status[t] = "preparing"
    BY <1>0, <1>1 DEF LoopInv
  <2>2. status'[t] = "ready" => \A w \in Of(t)' : w.state = "up"
    BY <1>6, <1>7, <2>1 DEF StatusInv
  <2> QED BY <1>4, <1>5, <2>2 DEF LoopInv
<1> QED BY <1>0, <1>2, <1>8, <1>9, EndStep

\* After an operation that is not a stop nothing is erased; nothing is ready either
\* when no topology is.
LEMMA LoopAfter ==
  ASSUME TInv, Alone, NEW p \in Thread, Busy(p), ContinueWith(p, Rest(p)),
         job[p][1].op # "stop", \A u \in Topology : status'[u] # "ready"
  PROVE  LoopInv(p)'
<1>1. at'[p] = "begin" /\ (Busy(p)' => job'[p][1] = job[p][2] /\ Ordered(p, job[p], 2))
  BY NextOp
<1>2. ~Doing(p, "erase")'
  <2> SUFFICES ASSUME Doing(p, "erase")' PROVE FALSE
    OBVIOUS
  <2>1. job[p][2].op = "erase" /\ Ordered(p, job[p], 2)
    BY <1>1 DEF Doing
  <2>2. job[p][2 - 1].op = "stop" /\ 2 - 1 = 1
    BY <2>1 DEF Ordered, Op
  <2> QED BY <2>2
<1>3. Doing(p, "start")' => status'[Topo(p)'] # "ready"
  <2> SUFFICES ASSUME Doing(p, "start")' PROVE status'[Topo(p)'] # "ready"
    OBVIOUS
  <2>1. Busy(p)' /\ job[p][2].op # "restart"
    BY <1>1 DEF Doing
  <2>2. Topo(p)' \in Topology
    BY <2>1, NextOp
  <2> QED BY <2>2
<1> QED BY <1>1, <1>2, <1>3 DEF LoopInv

LEMMA BeginStartStep ==
  ASSUME TInv, Alone, Single', Unprepared', NEW p \in Thread, BeginStart(p)
  PROVE  Alone'
<1> PICK t : t = Topo(p)
  OBVIOUS
<1>0. /\ Busy(p) /\ job[p][1].op = "start" /\ Doing(p, "start") /\ at[p] = "begin"
      /\ UNCHANGED <<status, spec, instances, workers, stuck>>
  BY DEF BeginStart, Doing, supVars, tableVars
<1>1. /\ t \in Topology /\ KnownInv /\ LoopInv(p) /\ status[t] \in Status
  BY <1>0, WorkerFacts
<1>2. CASE status[t] = "ready"
  <2>0. EnterLoop(p, "start", TaskCalls(t, members)) /\ UNCHANGED job
    BY <1>2 DEF BeginStart
  <2>1. /\ at'[p] = "start" /\ calls'[p] = TaskCalls(t, members)
        /\ \A q \in Thread \ {p} : at'[q] = at[q]
    BY <2>0 DEF EnterLoop, TInv, ThreadInv
  <2>2. /\ \A u : Exists(u)' = Exists(u) /\ Of(u)' = Of(u)
        /\ \A q : Topo(q)' = Topo(q) /\ \A o : Doing(q, o)' = Doing(q, o)
    BY <1>0, <2>0 DEF Exists, Of, Topo, Doing, Busy
  <2>3. KnownInv'
    BY <1>0, <1>1, <2>2 DEF KnownInv, Address
  <2>4. ASSUME NEW u \in Topology PROVE StatusInv(u)'
    <3>1. CASE u = t
      <4>1. "ready" \notin NotStarted
        BY DEF NotStarted
      <4> QED BY <1>0, <1>2, <2>2, <3>1, <4>1 DEF StatusInv
    <3>2. CASE u # t
      <4>1. status'[u] = status[u] /\ (Of(u) = {} => Of(u)' = {}) /\ u # Topo(p)
        BY <1>0, <2>2, <3>2
      <4> QED BY <1>0, <4>1, OthersShown
    <3> QED BY <3>1, <3>2
  <2>5. LoopInv(p)'
    <3>1. \A w \in Of(t) : w.state = "up"
      BY <1>0, <1>1, <1>2 DEF LoopInv
    <3>2. \A c \in calls'[p] : c.count = 0
      BY <2>1 DEF TaskCalls
    <3>3. ~Doing(p, "erase")'
      BY <1>0, <2>2 DEF Doing
    <3> QED BY <1>0, <1>2, <2>1, <2>2, <3>1, <3>2, <3>3 DEF LoopInv
  <2> QED BY <1>0, <2>0, <2>1, <2>2, <2>3, <2>4, <2>5, LoopStep
<1>3. CASE status[t] # "ready"
  <2>0. ContinueWith(p, Rest(p))
    BY <1>3 DEF BeginStart
  <2> PICK v : v = IF status[t] = "nonexisted" THEN "idle" ELSE status[t]
    OBVIOUS
  <2>1. v \in Status \ {"nonexisted"}
    BY <1>1 DEF Status
  <2>2. SetStatus(t, v)
    BY <1>0, <1>1 DEF SetStatus, Exists, TInv, TableInv
  <2>3. \A u \in Topology : status'[u] # "ready"
    BY <1>0, <1>3, ShownAs
  <2>4. StatusInv(t)'
    <3>1. status[t] # "preparing"
      BY <1>0, <1>1, ShownAs DEF Doing
    <3>2. StatusInv(t)
      BY <1>1 DEF Alone
    <3> QED BY <1>0, <1>1, <2>3, <3>1, <3>2 DEF StatusInv, Of
  <2>5. LoopInv(p)'
    BY <1>0, <2>0, <2>3, LoopAfter
  <2> QED BY <1>0, <2>0, <2>1, <2>2, <2>4, <2>5, EndStep
<1> QED BY <1>2, <1>3

LEMMA EndStartStep ==
  ASSUME TInv, Alone, Single', Unprepared', NEW p \in Thread, EndStart(p)
  PROVE  Alone'
<1> PICK t : t = Topo(p)
  OBVIOUS
<1>0. /\ Busy(p) /\ job[p][1].op = "start" /\ ContinueWith(p, Rest(p)) /\ SetStatus(t, "running")
      /\ at[p] = "start" /\ UNCHANGED <<spec, instances, workers, stuck>>
  BY DEF EndStart, Doing, supVars
<1>1. t \in Topology /\ LoopInv(p)
  BY <1>0, WorkerFacts
<1>2. status[t] = "ready"
  BY <1>0, <1>1 DEF LoopInv
<1>3. status' = [status EXCEPT ![t] = "running"] /\ status'[t] = "running"
  BY <1>0, <1>1, <1>2 DEF SetStatus, Exists, TInv, TableInv
<1>4. \A u \in Topology : status'[u] # "ready"
  BY <1>0, <1>1, <1>3, ShownAs
<1>5. StatusInv(t)'
  BY <1>3 DEF StatusInv, NotStarted
<1>6. LoopInv(p)'
  BY <1>0, <1>4, LoopAfter
<1>7. "running" \in Status \ {"nonexisted"}
  BY DEF Status
<1> QED BY <1>0, <1>5, <1>6, <1>7, EndStep

LEMMA BeginStopStep ==
  ASSUME TInv, Alone, Single', Unprepared', NEW p \in Thread, BeginStop(p)
  PROVE  Alone'
<1> PICK t : t = Topo(p)
  OBVIOUS
<1>0. /\ Busy(p) /\ job[p][1].op = "stop" /\ Doing(p, "stop")
      /\ EnterLoop(p, "kill", TaskCalls(t, members))
      /\ UNCHANGED <<status, spec, instances, workers, stuck, job>>
  BY DEF BeginStop, Doing, supVars, tableVars
<1>1. t \in Topology /\ KnownInv
  BY <1>0, WorkerFacts
<1>2. /\ at'[p] = "kill" /\ calls'[p] = TaskCalls(t, members)
      /\ \A q \in Thread \ {p} : at'[q] = at[q]
  BY <1>0 DEF EnterLoop, TInv, ThreadInv
<1>3. /\ \A u : Exists(u)' = Exists(u) /\ Of(u)' = Of(u)
      /\ \A q : Topo(q)' = Topo(q) /\ \A o : Doing(q, o)' = Doing(q, o)
  BY <1>0 DEF Exists, Of, Topo, Doing, Busy
<1>4. KnownInv'
  BY <1>0, <1>1, <1>3 DEF KnownInv, Address
<1>5. ASSUME NEW u \in Topology PROVE StatusInv(u)'
  <2>1. status'[u] = status[u] /\ (Of(u) = {} => Of(u)' = {})
    BY <1>0, <1>3
  <2> QED BY <1>0, <2>1, OthersShown
<1>6. LoopInv(p)'
  <2>1. ASSUME NEW w \in Of(t) PROVE [sup |-> w.sup, task |-> w.task, count |-> 0] \in calls'[p]
    <3>1. w \in workers /\ w.topo = t /\ w.sup \in up /\ w.task \in Task(t)
      BY DEF Of, TInv, PortsInv
    <3>2. w.sup \in members /\ t \in spec
      BY <1>1, <3>1 DEF TInv, MembersInv, KnownInv
    <3>3. w.task \in Named(t)
      BY <3>1, <3>2 DEF Named
    <3> QED BY <1>2, <3>2, <3>3 DEF TaskCalls
  <2>2. \A c \in calls'[p] : c.count = 0
    BY <1>2 DEF TaskCalls
  <2>3. ~Doing(p, "start")' /\ ~Doing(p, "erase")'
    BY <1>0, <1>3 DEF Doing
  <2> QED BY <1>2, <1>3, <2>1, <2>2, <2>3 DEF LoopInv, Owed
<1> QED BY <1>0, <1>2, <1>3, <1>4, <1>5, <1>6, LoopStep

\* The end of a stop: its topology has an entry still, and no worker is left of it.
LEMMA EndStopStep ==
  ASSUME TInv, Alone, Single', Unprepared', NEW p \in Thread, EndStop(p)
  PROVE  /\ Alone'
         /\ \A u \in Topology : status[u] = "nonexisted" => status'[u] = "nonexisted"
<1> PICK t : t = Topo(p)
  OBVIOUS
<1>0. /\ Busy(p) /\ job[p][1].op = "stop" /\ Doing(p, "stop") /\ at[p] = "kill" /\ calls[p] = {}
      /\ status' = [status EXCEPT ![t] = IF Exists(t) THEN "idle" ELSE "empty"]
      /\ instances' = [instances EXCEPT ![t] = NoInstances(t)]
      /\ ContinueWith(p, Rest(p))
      /\ UNCHANGED <<spec, workers, stuck>>
  BY DEF EndStop, Doing, supVars
<1>1. /\ t \in Topology /\ KnownInv /\ LoopInv(p) /\ JobShape(p) /\ Standing(p, job[p][1])
      /\ stuck = {}
  BY <1>0, WorkerFacts DEF Alone
<1>2. Exists(t)
  BY <1>0, <1>1 DEF Standing, Topo
<1>3. /\ status'[t] = "idle" /\ \A u \in Topology : u # t => status'[u] = status[u]
      /\ \A u \in Topology : Exists(u)' = Exists(u)
  BY <1>0, <1>1, <1>2 DEF TInv, TableInv, Exists
<1>4. Of(t) = {}
  BY <1>0, <1>1 DEF LoopInv, Owed
<1>5. \A u \in Topology : u # t => instances'[u] = instances[u]
  BY <1>0 DEF TInv, TableInv
<1>6. KnownInv'
  <2>1. \A w \in workers : w.topo # t /\ w.topo \in Topology
    BY <1>1, <1>4 DEF Of, KnownInv, TInv, TableInv
  <2>2. \A u \in spec' : Exists(u)'
    BY <1>0, <1>1, <1>3 DEF KnownInv, TInv, TableInv
  <2> QED BY <1>0, <1>1, <1>5, <2>1, <2>2 DEF KnownInv, Address
<1>7. ASSUME NEW u \in Topology PROVE StatusInv(u)'
  <2>1. Of(u)' = Of(u)
    BY <1>0 DEF Of
  <2>2. CASE u = t
    BY <1>3, <1>4, <2>1, <2>2 DEF StatusInv
  <2>3. CASE u # t
    <3>1. status'[u] = status[u] /\ (Of(u) = {} => Of(u)' = {})
      BY <1>3, <2>1, <2>3
    <3> QED BY <1>0, <3>1, OthersShown
  <2> QED BY <2>2, <2>3
<1>8. /\ \A q \in Thread \ {p} : job'[q] = job[q] /\ at'[q] = at[q]
      /\ at'[p] = "begin"
      /\ Busy(p)' => job'[p][1] = job[p][2] /\ Ordered(p, job[p], 2)
      /\ Busy(p)' /\ job[p][2].op # "restart" => Topo(p)' \in Topology
  BY <1>0, NextOp
<1>9. JobShape(p)'
  <2>1. \A i \in DOMAIN Rest(p) :
          Rest(p)[i].topo \in Topology /\ Exists(Rest(p)[i].topo)
            => status'[Rest(p)[i].topo] # "nonexisted"
    BY <1>3 DEF Exists
  <2> QED BY <1>0, <1>1, <2>1, RestShape
<1>10. LoopInv(p)'
  <2>1. \A u \in Topology : status'[u] # "ready"
    <3>1. \A u \in Topology : status[u] # "ready"
      BY <1>0, ShownAs DEF Doing
    <3> QED BY <1>3, <3>1
  <2>2. Doing(p, "start")' => status'[Topo(p)'] # "ready"
    <3>1. Doing(p, "start")' => Busy(p)' /\ job[p][2].op # "restart"
      BY <1>8 DEF Doing
    <3> QED BY <1>8, <2>1, <3>1
  <2>3. Doing(p, "erase")' => Topo(p)' = t
    <3> SUFFICES ASSUME Doing(p, "erase")' PROVE Topo(p)' = t
      OBVIOUS
    <3>1. job'[p][1] = job[p][2] /\ job[p][2].op = "erase" /\ Ordered(p, job[p], 2)
      BY <1>8 DEF Doing
    <3>2. job[p][2 - 1] = Op("stop", job[p][2].topo) /\ 2 - 1 = 1
      BY <3>1 DEF Ordered
    <3> QED BY <3>1, <3>2 DEF Topo, Op
  <2>4. "idle" \in NotStarted
    BY DEF NotStarted
  <2> QED BY <1>3, <1>8, <2>2, <2>3, <2>4 DEF LoopInv
<1>11. Alone'
  BY <1>0, <1>1, <1>6, <1>7, <1>8, <1>9, <1>10, AloneAgain
<1>12. \A u \in Topology : status[u] = "nonexisted" => status'[u] = "nonexisted"
  BY <1>2, <1>3 DEF Exists
<1> QED BY <1>11, <1>12

\* A kill is the last operation of a client's job.
LEMMA KillJob ==
  ASSUME TInv, Alone, NEW p \in Thread, Kill(p), NEW t, t = Topo(p)
  PROVE  /\ p = Nimbus /\ at'[p] = "begin"
         /\ \A q \in Thread \ {p} : job'[q] = job[q] /\ at'[q] = at[q]
         /\ \/ job'[p] = << >>
            \/ job'[p] = <<Op("stop", t), Op("erase", t)>> /\ Exists(t)
            \/ job'[p] = <<Op("erase", t)>> /\ status[t] # "running"
<1>0. Busy(p) /\ job[p][1].op = "kill"
  BY DEF Kill, Doing
<1>1. Ordered(p, job[p], 1)
  BY <1>0, WorkerFacts
<1>2. p = Nimbus /\ Len(job[p]) = 1
  BY <1>0, <1>1 DEF Ordered
<1>3. Rest(p) = << >>
  <2>1. Rest(p) \in Seq(Jobs) /\ Len(Rest(p)) = Len(job[p]) - 1
    BY <1>0, JobFacts DEF TInv
  <2>2. Len(Rest(p)) = 0
    BY <1>2, <2>1
  <2> QED BY <2>1, <2>2, EmptySeq
<1>4. t \in Topology /\ <<Op("stop", t), Op("erase", t)>> \in Seq(Jobs) /\ <<Op("erase", t)>> \in Seq(Jobs)
  BY <1>0, WorkerFacts, ShortJobs
<1>5. /\ <<Op("stop", t), Op("erase", t)>> \o << >> = <<Op("stop", t), Op("erase", t)>>
      /\ <<Op("erase", t)>> \o << >> = <<Op("erase", t)>>
  BY <1>4, ConcatEmptySeq
<1> PICK ops : /\ ContinueWith(p, ops)
               /\ \/ ops = << >>
                  \/ ops = <<Op("stop", t), Op("erase", t)>> /\ Exists(t)
                  \/ ops = <<Op("erase", t)>> /\ status[t] # "running"
  BY <1>3, <1>5 DEF Kill
<1>6. /\ job'[p] = ops /\ at'[p] = "begin"
      /\ \A q \in Thread \ {p} : job'[q] = job[q] /\ at'[q] = at[q]
  BY DEF ContinueWith, TInv, ThreadInv
<1> QED BY <1>2, <1>6

LEMMA KillStep ==
  ASSUME TInv, Alone, Single', Unprepared', NEW p \in Thread, Kill(p)
  PROVE  Alone'
<1> PICK t : t = Topo(p)
  OBVIOUS
<1>0. /\ Busy(p) /\ job[p][1].op = "kill" /\ UNCHANGED <<status, spec, instances, workers, stuck>>
  BY DEF Kill, Doing, supVars, tableVars
<1>1. t \in Topology /\ KnownInv /\ status[t] \in Status /\ stuck = {}
  BY <1>0, WorkerFacts DEF Alone
<1>2. /\ p = Nimbus /\ at'[p] = "begin"
      /\ \A q \in Thread \ {p} : job'[q] = job[q] /\ at'[q] = at[q]
      /\ \/ job'[p] = << >>
         \/ job'[p] = <<Op("stop", t), Op("erase", t)>> /\ Exists(t)
         \/ job'[p] = <<Op("erase", t)>> /\ status[t] # "running"
  BY KillJob
<1>3. \A u : Exists(u)' = Exists(u) /\ Of(u)' = Of(u)
  BY <1>0 DEF Exists, Of
<1>4. KnownInv'
  BY <1>0, <1>1, <1>3 DEF KnownInv, Address
<1>5. ASSUME NEW u \in Topology PROVE StatusInv(u)'
  <2>1. status'[u] = status[u] /\ (Of(u) = {} => Of(u)' = {})
    BY <1>0, <1>3
  <2> QED BY <1>0, <2>1, OthersShown
<1>6. status[t] # "running" => status[t] \in NotStarted
  <2>1. status[t] # "ready" /\ status[t] # "preparing"
    BY <1>0, <1>1, ShownAs DEF Doing
  <2> QED BY <1>1, <2>1 DEF Status, NotStarted
<1>7. JobShape(p)' /\ LoopInv(p)'
  <2>1. CASE job'[p] = << >>
    BY <1>2, <2>1, IdleAfter
  <2>2. CASE job'[p] = <<Op("stop", t), Op("erase", t)>> /\ Exists(t)
    <3> PICK ops : ops = job'[p]
      OBVIOUS
    <3>1. /\ DOMAIN ops = 1 .. 2 /\ Len(ops) = 2
          /\ ops[1] = Op("stop", t) /\ ops[2] = Op("erase", t)
      BY <2>2
    <3>2. \A i \in 1 .. 2 : i = 1 \/ i = 2
      OBVIOUS
    <3>3. 2 - 1 = 1
      OBVIOUS
    <3>4. Ordered(p, ops, 1) /\ Standing(p, ops[1])'
      <4>1. ~(1 > 1)
        OBVIOUS
      <4> QED BY <1>3, <2>2, <3>1, <4>1 DEF Ordered, Standing, Op
    <3>5. Ordered(p, ops, 2) /\ Standing(p, ops[2])'
      BY <1>2, <3>1, <3>3 DEF Ordered, Standing, Op
    <3>6. \A i \in DOMAIN ops : Ordered(p, ops, i) /\ Standing(p, ops[i])'
      BY <3>1, <3>2, <3>4, <3>5
    <3>7. JobShape(p)'
      BY <3>6 DEF JobShape, Ordered
    <3>8. ~Doing(p, "start")' /\ ~Doing(p, "erase")'
      BY <3>1 DEF Doing, Op
    <3> QED BY <1>2, <3>7, <3>8 DEF LoopInv
  <2>3. CASE job'[p] = <<Op("erase", t)>> /\ status[t] # "running"
    <3> PICK ops : ops = job'[p]
      OBVIOUS
    <3>1. DOMAIN ops = {1} /\ Len(ops) = 1 /\ ops[1] = Op("erase", t)
      BY <2>3
    <3>2. Ordered(p, ops, 1) /\ Standing(p, ops[1])'
      <4>1. ~(1 > 1)
        OBVIOUS
      <4> QED BY <1>2, <3>1, <4>1 DEF Ordered, Standing, Op
    <3>3. JobShape(p)'
      BY <3>1, <3>2 DEF JobShape, Ordered
    <3>4. ~Doing(p, "start")' /\ Topo(p)' = t
      BY <3>1 DEF Doing, Op, Topo
    <3> QED BY <1>0, <1>2, <1>6, <2>3, <3>3, <3>4 DEF LoopInv
  <2> QED BY <1>2, <2>1, <2>2, <2>3
<1> QED BY <1>0, <1>1, <1>2, <1>4, <1>5, <1>7, AloneAgain

LEMMA EraseStep ==
  ASSUME TInv, Alone, Single', Unprepared', NEW p \in Thread, Erase(p)
  PROVE  Alone'
<1> PICK t : t = Topo(p)
  OBVIOUS
<1>0. /\ Busy(p) /\ job[p][1].op = "erase" /\ Doing(p, "erase")
      /\ status' = [status EXCEPT ![t] = "nonexisted"]
      /\ spec' = spec \ {t}
      /\ instances' = [instances EXCEPT ![t] = NoInstances(t)]
      /\ ContinueWith(p, Rest(p)) /\ UNCHANGED <<workers, stuck>>
  BY DEF Erase, Doing, supVars
<1>1. /\ t \in Topology /\ KnownInv /\ LoopInv(p) /\ Ordered(p, job[p], 1) /\ stuck = {}
      /\ spec \subseteq Topology
  BY <1>0, WorkerFacts DEF Alone, TInv, TableInv
<1>2. Of(t) = {}
  <2>1. status[t] \in NotStarted
    BY <1>0, <1>1 DEF LoopInv
  <2> QED BY <1>1, <2>1 DEF Alone, StatusInv
<1>3. /\ status'[t] = "nonexisted"
      /\ \A u \in Topology : u # t => status'[u] = status[u] /\ instances'[u] = instances[u]
  BY <1>0, <1>1 DEF TInv, TableInv
<1>4. KnownInv'
  <2>1. \A w \in workers : w.topo # t /\ w.topo \in Topology
    BY <1>1, <1>2 DEF Of, KnownInv
  <2>2. \A u \in spec' : Exists(u)'
    BY <1>0, <1>1, <1>3 DEF KnownInv, Exists
  <2> QED BY <1>0, <1>1, <1>3, <2>1, <2>2 DEF KnownInv, Address
<1>5. ASSUME NEW u \in Topology PROVE StatusInv(u)'
  <2>1. Of(u)' = Of(u)
    BY <1>0 DEF Of
  <2>2. CASE u = t
    BY <1>2, <1>3, <2>1, <2>2 DEF StatusInv
  <2>3. CASE u # t
    <3>1. status'[u] = status[u] /\ (Of(u) = {} => Of(u)' = {})
      BY <1>3, <2>1, <2>3
    <3> QED BY <1>0, <3>1, OthersShown
  <2> QED BY <2>2, <2>3
<1>6. /\ \A q \in Thread \ {p} : job'[q] = job[q] /\ at'[q] = at[q]
      /\ at'[p] = "begin" /\ job'[p] = Rest(p)
  BY <1>0, NextOp
<1>7. Rest(p) = << >>
  <2>1. Rest(p) \in Seq(Jobs) /\ Len(Rest(p)) = Len(job[p]) - 1
    BY <1>0, JobFacts DEF TInv
  <2>2. Len(job[p]) = 1
    BY <1>0, <1>1 DEF Ordered
  <2>3. Len(Rest(p)) = 0
    BY <2>1, <2>2
  <2> QED BY <2>1, <2>3, EmptySeq
<1>8. JobShape(p)' /\ LoopInv(p)'
  BY <1>6, <1>7, IdleAfter
<1> QED BY <1>0, <1>1, <1>4, <1>5, <1>6, <1>8, AloneAgain

LEMMA RestartOrdered ==
  ASSUME NEW p, NEW T \in SUBSET Topology, NEW ids \in Orders(T)
  PROVE  \A i \in DOMAIN RestartJob(ids) :
           /\ Ordered(p, RestartJob(ids), i)
           /\ RestartJob(ids)[i].topo \in T
           /\ i = 1 => RestartJob(ids)[i].op = "stop"
<1> PICK n : n = Cardinality(T)
  OBVIOUS
<1> PICK ops : ops = RestartJob(ids)
  OBVIOUS
<1>1. /\ n \in Nat /\ DOMAIN ids = 1 .. n /\ Len(ops) = 3 * n /\ DOMAIN ops = 1 .. 3 * n
      /\ \A i \in 1 .. n : ids[i] \in T /\ ops[i] = Op("stop", ids[i])
      /\ \A i \in 1 .. 3 * n : i > n =>
           /\ (i - n + 1) \div 2 \in 1 .. n
           /\ (i - n) % 2 = 1 => ops[i] = Op("prepare", ids[(i - n + 1) \div 2])
           /\ (i - n) % 2 # 1 => ops[i] = Op("start", ids[(i - n + 1) \div 2])
  BY RestartJobFacts
<1> SUFFICES ASSUME NEW i \in 1 .. 3 * n
             PROVE  Ordered(p, ops, i) /\ ops[i].topo \in T /\ (i = 1 => ops[i].op = "stop")
  BY <1>1
<1>2. CASE i <= n
  <2>1. i \in 1 .. n
    BY <1>1, <1>2
  <2>2. ops[i] = Op("stop", ids[i]) /\ ids[i] \in T
    BY <1>1, <2>1
  <2> QED BY <2>2 DEF Ordered, Op
<1>3. CASE i > n
  <2>1. i # 1
    BY <1>1, <1>3
  <2> PICK j : j = (i - n + 1) \div 2
    OBVIOUS
  <2>2. ids[j] \in T
    BY <1>1, <1>3
  <2>3. CASE (i - n) % 2 = 1
    <3>1. ops[i] = Op("prepare", ids[j])
      BY <1>1, <1>3, <2>3
    <3> PICK d \in Nat : d = i - n
      BY <1>1, <1>3
    <3>0. n \in Nat /\ d \in Nat /\ i \in Int /\ d = i - n /\ 1 <= i /\ i <= 3 * n /\ i > n
      BY <1>1, <1>3
    <3>2. d % 2 = 1
      BY <2>3
    <3>3. d <= 2 * n /\ i = d + n
      BY ONLY <3>0
    <3>4. d # 2 * n
      BY ONLY <3>0, <3>2
    <3>5. d + 1 <= 2 * n /\ i + 1 \in 1 .. 3 * n /\ i + 1 > n
      BY ONLY <3>0, <3>3, <3>4
    <3>6. /\ (i + 1) - n = d + 1 /\ (i + 1) - n + 1 = d + 2 /\ i - n + 1 = d + 1
          /\ (d + 1) % 2 # 1 /\ (d + 2) \div 2 = (d + 1) \div 2
      BY ONLY <3>0, <3>2, <3>3
    <3>7. ops[i + 1] = Op("start", ids[j])
      BY <1>1, <3>5, <3>6
    <3> QED BY <1>1, <2>1, <2>2, <3>1, <3>5, <3>7 DEF Ordered, Op
  <2>4. CASE (i - n) % 2 # 1
    <3>1. ops[i] = Op("start", ids[j])
      BY <1>1, <1>3, <2>4
    <3> QED BY <2>1, <2>2, <3>1 DEF Ordered, Op
  <2> QED BY <2>3, <2>4
<1> QED BY <1>1, <1>2, <1>3

LEMMA RestartAllStep ==
  ASSUME TInv, Alone, Single', Unprepared', NEW p \in Thread, RestartAll(p)
  PROVE  Alone'
<1>0. /\ Busy(p) /\ job[p][1].op = "restart"
      /\ UNCHANGED <<status, spec, instances, workers, stuck>>
  BY DEF RestartAll, Doing, supVars, tableVars
<1> PICK T \in SUBSET Topology : T = {t \in Topology : Exists(t)}
  OBVIOUS
<1> PICK ids \in Orders(T) : ContinueWith(p, RestartJob(ids))
  BY DEF RestartAll
<1> PICK ops : ops = RestartJob(ids)
  OBVIOUS
<1>1. KnownInv /\ stuck = {}
  BY DEF Alone
<1>2. \A u : Exists(u)' = Exists(u) /\ Of(u)' = Of(u)
  BY <1>0 DEF Exists, Of
<1>3. KnownInv'
  BY <1>0, <1>1, <1>2 DEF KnownInv, Address
<1>4. ASSUME NEW u \in Topology PROVE StatusInv(u)'
  <2>1. status'[u] = status[u] /\ (Of(u) = {} => Of(u)' = {})
    BY <1>0, <1>2
  <2> QED BY <1>0, <2>1, OthersShown
<1>5. /\ job'[p] = ops /\ at'[p] = "begin"
      /\ \A q \in Thread \ {p} : job'[q] = job[q] /\ at'[q] = at[q]
  BY DEF ContinueWith, TInv, ThreadInv
<1>6. \A i \in DOMAIN ops : /\ Ordered(p, ops, i) /\ ops[i].topo \in T
                            /\ i = 1 => ops[i].op = "stop"
  BY RestartOrdered
<1>7. JobShape(p)'
  <2>1. \A t \in T : Exists(t)'
    BY <1>2
  <2> QED BY <1>5, <1>6, <2>1 DEF JobShape, Ordered, Standing
<1>8. LoopInv(p)'
  <2>1. ops # << >> => 1 \in DOMAIN ops
    <3>1. ops \in Seq(Jobs)
      BY RestartJobFacts
    <3>2. ops # << >> => Len(ops) \in Nat \ {0} /\ DOMAIN ops = 1 .. Len(ops)
      BY <3>1
    <3> QED BY <3>2
  <2>2. ~Doing(p, "start")' /\ ~Doing(p, "erase")'
    BY <1>5, <1>6, <2>1 DEF Doing, Busy
  <2> QED BY <1>5, <2>2 DEF LoopInv
<1> QED BY <1>0, <1>1, <1>3, <1>4, <1>5, <1>7, <1>8, AloneAgain

-----------------------------------------------------------------------------
(* The calls *)

\* The same workers in another state or with other connections.
LEMMA SameKnown ==
  ASSUME TInv, KnownInv, NEW g \in [workers -> Worker], workers' = {g[w] : w \in workers},
         \A w \in workers : Same(g[w], w) /\ g[w].state # "gone",
         UNCHANGED <<status, spec, instances>>
  PROVE  /\ KnownInv'
         /\ \A t : \A v \in Of(t)' : \E w \in Of(t) : v = g[w]
<1>1. \A w \in workers : Address(g[w]) = Address(w)
  BY DEF Same, Address
<1>2. \A v \in workers' : /\ v.listed /\ v.state # "gone" /\ v.topo \in spec
                          /\ Address(v) \in instances[v.topo][v.task]
  BY <1>1 DEF KnownInv, Same
<1>3. KnownInv'
  BY <1>2 DEF KnownInv, Exists, Address
<1>4. \A t : \A v \in Of(t)' : \E w \in Of(t) : v = g[w]
  BY DEF Of, Same
<1> QED BY <1>3, <1>4

LEMMA CallStart ==
  ASSUME TInv, Alone, NEW p \in Thread, NEW part \in {"add", "config", "start", "kill"},
         NEW c \in calls[p], Calling(p, part, c)
  PROVE  /\ Busy(p) /\ Topo(p) \in Topology /\ at[p] = part /\ job[p][1].op # "restart"
         /\ part \in {"add", "config"} => Doing(p, "prepare")
         /\ part = "start" => Doing(p, "start")
         /\ part = "kill" => Doing(p, "stop")
         /\ calls'[p] = calls[p] \ {c} /\ LoopInv(p) /\ KnownInv
         /\ UNCHANGED <<status, spec, job, at>>
         /\ Topo(p)' = Topo(p) /\ \A o : Doing(p, o)' = Doing(p, o)
<1>1. Busy(p) /\ Topo(p) \in Topology
  BY CallFacts
<1>2. at[p] = part /\ UNCHANGED <<status, spec, job, at>>
  BY DEF Calling
<1>3. PhaseInv(p)
  BY DEF TInv, ThreadInv
<1>4. /\ part \in {"add", "config"} => Doing(p, "prepare")
      /\ part = "start" => Doing(p, "start")
      /\ part = "kill" => Doing(p, "stop")
  BY <1>2, <1>3 DEF PhaseInv
<1>5. job[p][1].op # "restart"
  BY <1>4 DEF Doing
<1>6. calls'[p] = calls[p] \ {c}
  BY DEF Calling, TInv, ThreadInv
<1>7. Topo(p)' = Topo(p) /\ \A o : Doing(p, o)' = Doing(p, o)
  BY <1>2 DEF Topo, Doing, Busy
<1> QED BY <1>1, <1>2, <1>4, <1>5, <1>6, <1>7 DEF Alone

LEMMA AddWorkersStep ==
  ASSUME TInv, Alone, Single', Unprepared', NEW p \in Thread, NEW c \in calls[p], AddWorkers(p, c)
  PROVE  Alone'
<1> PICK t : t = Topo(p)
  OBVIOUS
<1>0. Calling(p, "add", c) /\ UNCHANGED stuck
  BY DEF AddWorkers
<1>1. /\ Busy(p) /\ t \in Topology /\ at[p] = "add" /\ Doing(p, "prepare")
      /\ job[p][1].op = "prepare" /\ calls'[p] = calls[p] \ {c}
      /\ LoopInv(p) /\ KnownInv /\ UNCHANGED <<status, spec, job, at>>
      /\ Topo(p)' = t /\ \A o : Doing(p, o)' = Doing(p, o)
  BY <1>0, CallStart DEF Doing
<1>2. t \in spec /\ Exists(t) /\ status[t] = "preparing"
  BY <1>1 DEF LoopInv, KnownInv
<1>3. c.task \in Task(t)
  BY <1>0, CallFacts
<1>4. PICK new \in SUBSET Worker :
        /\ workers' = workers \cup new
        /\ \A w \in new : w.topo = t /\ w.task = c.task /\ w.state = "up" /\ w.listed
        /\ {Address(w) : w \in new} \in SUBSET Place
        /\ instances' = [instances EXCEPT ![t][c.task] = @ \cup {Address(w) : w \in new}]
  <2> DEFINE P == port[c.sup] .. port[c.sup] + c.count - 1
             W(n) == [sup |-> c.sup, port |-> n, topo |-> Topo(p), task |-> c.task,
                      state |-> "up", conns |-> {}, listed |-> TRUE]
             N == {W(n) : n \in P}
  <2>1. /\ N \subseteq Worker /\ {Address(w) : w \in N} = {c.sup} \X P
        /\ {c.sup} \X P \subseteq Place
    BY <1>0, NewPlaces
  <2>2. /\ workers' = workers \cup N
        /\ instances' = IF Exists(Topo(p))
                        THEN [instances EXCEPT ![Topo(p)][c.task] = @ \cup {Address(w) : w \in N}]
                        ELSE instances
    BY DEF AddWorkers
  <2>3. \A w \in N : w.topo = t /\ w.task = c.task /\ w.state = "up" /\ w.listed
    OBVIOUS
  <2> HIDE DEF N
  <2> QED BY <1>2, <2>1, <2>2, <2>3
<1> PICK A \in SUBSET Place : A = {Address(w) : w \in new}
  BY <1>4
<1>5. /\ [instances[t] EXCEPT ![c.task] = @ \cup A] \in [Task(t) -> SUBSET Place]
      /\ instances' = [instances EXCEPT ![t] = [instances[t] EXCEPT ![c.task] = @ \cup A]]
  <2>1. TableInv /\ instances' = [instances EXCEPT ![t][c.task] = @ \cup A]
    BY <1>4 DEF TInv
  <2> QED BY <1>1, <1>3, <2>1, ExtendedInstances
<1> PICK f \in [Task(t) -> SUBSET Place] : f = [instances[t] EXCEPT ![c.task] = @ \cup A]
  BY <1>5
<1>6. \A u \in Topology : instances'[u] = IF u = t THEN f ELSE instances[u]
  BY <1>1, <1>5, InstancesTypes DEF TInv
<1>7. f[c.task] = instances[t][c.task] \cup A /\ \A k \in Task(t) : instances[t][k] \subseteq f[k]
  BY <1>1, <1>3 DEF TInv, TableInv
<1>8. KnownInv'
  <2>1. \A u \in spec' : Exists(u)'
    BY <1>1 DEF KnownInv, Exists
  <2>2. ASSUME NEW w \in workers
        PROVE  /\ w.listed /\ w.state # "gone" /\ w.topo \in spec'
               /\ Address(w) \in instances'[w.topo][w.task]
    <3>1. /\ w.listed /\ w.state # "gone" /\ w.topo \in spec
          /\ Address(w) \in instances[w.topo][w.task]
      BY <1>1 DEF KnownInv
    <3>2. w.topo \in Topology /\ w.task \in Task(w.topo)
      BY DEF TInv, PortsInv, Worker
    <3> QED BY <1>1, <1>6, <1>7, <3>1, <3>2
  <2>3. ASSUME NEW w \in new
        PROVE  /\ w.listed /\ w.state # "gone" /\ w.topo \in spec'
               /\ Address(w) \in instances'[w.topo][w.task]
    <3>1. Address(w) \in A
      OBVIOUS
    <3> QED BY <1>1, <1>2, <1>4, <1>6, <1>7, <3>1
  <2> QED BY <1>4, <2>1, <2>2, <2>3 DEF KnownInv, Address
<1>9. ASSUME NEW u \in Topology PROVE StatusInv(u)'
  <2>1. CASE u = t
    <3>1. \A w \in Of(t) : w.state = "up"
      BY <1>1, <1>2 DEF Alone, StatusInv
    <3>2. \A w \in Of(t)' : w.state = "up"
      BY <1>4, <3>1 DEF Of
    <3>3. "preparing" \notin NotStarted
      BY DEF NotStarted
    <3> QED BY <1>1, <1>2, <2>1, <3>2, <3>3 DEF StatusInv
  <2>2. CASE u # t
    <3>1. status'[u] = status[u] /\ (Of(u) = {} => Of(u)' = {}) /\ u # Topo(p)
      BY <1>1, <1>4, <2>2 DEF Of
    <3> QED BY <1>1, <3>1, OthersShown
  <2> QED BY <2>1, <2>2
<1>10. LoopInv(p)'
  <2>1. ~Doing(p, "start")' /\ ~Doing(p, "erase")' /\ at'[p] = "add"
    BY <1>1 DEF Doing
  <2> QED BY <1>1, <1>2, <2>1 DEF LoopInv
<1> QED BY <1>0, <1>1, <1>8, <1>9, <1>10, LoopStep DEF Exists

LEMMA ConfigureWorkersStep ==
  ASSUME TInv, Alone, Single', Unprepared', NEW p \in Thread, NEW c \in calls[p],
         ConfigureWorkers(p, c)
  PROVE  Alone'
<1> PICK t : t = Topo(p)
  OBVIOUS
<1>0. Calling(p, "config", c) /\ UNCHANGED instances
  BY DEF ConfigureWorkers
<1>1. /\ Busy(p) /\ t \in Topology /\ at[p] = "config" /\ Doing(p, "prepare")
      /\ job[p][1].op = "prepare" /\ calls'[p] = calls[p] \ {c}
      /\ LoopInv(p) /\ KnownInv /\ UNCHANGED <<status, spec, job, at>>
      /\ Topo(p)' = t /\ \A o : Doing(p, o)' = Doing(p, o)
  BY <1>0, CallStart DEF Doing
<1>2. UNCHANGED stuck
  <2>1. ~Gone(Addressed(p, c))
    BY <1>1 DEF Gone, Addressed, Listed, KnownInv
  <2> QED BY <2>1 DEF ConfigureWorkers, Addressed
<1>3. PICK g \in [workers -> Worker] :
        /\ workers' = {g[w] : w \in workers}
        /\ \A w \in workers : Same(g[w], w) /\ g[w].state = w.state
  BY ConfiguredWorkers
<1>4. KnownInv' /\ \A u : \A v \in Of(u)' : \E w \in Of(u) : v = g[w]
  <2>1. \A w \in workers : Same(g[w], w) /\ g[w].state # "gone"
    BY <1>1, <1>3 DEF KnownInv
  <2> QED BY <1>0, <1>1, <1>3, <2>1, SameKnown
<1>5. ASSUME NEW u \in Topology PROVE StatusInv(u)'
  <2>1. CASE u = t
    <3>1. StatusInv(t)
      BY <1>1 DEF Alone
    <3>2. (\A w \in Of(t) : w.state = "up") => \A v \in Of(t)' : v.state = "up"
      BY <1>3, <1>4 DEF Of
    <3>3. Of(t) = {} => Of(t)' = {}
      BY <1>4
    <3>4. \A q : Topo(q)' = Topo(q) /\ \A o : Doing(q, o)' = Doing(q, o)
      BY <1>1 DEF Topo, Doing, Busy
    <3> QED BY <1>1, <2>1, <3>1, <3>2, <3>3, <3>4 DEF StatusInv
  <2>2. CASE u # t
    <3>1. status'[u] = status[u] /\ (Of(u) = {} => Of(u)' = {}) /\ u # Topo(p)
      BY <1>1, <1>4, <2>2
    <3> QED BY <1>1, <3>1, OthersShown
  <2> QED BY <2>1, <2>2
<1>6. LoopInv(p)'
  <2>1. ~Doing(p, "start")' /\ ~Doing(p, "erase")' /\ at'[p] = "config"
    BY <1>1 DEF Doing
  <2> QED BY <1>1, <2>1 DEF LoopInv, Exists
<1> QED BY <1>1, <1>2, <1>4, <1>5, <1>6, LoopStep DEF Exists

\* When no joined names agree a supervisor finds the workers of the task that was meant.
LEMMA ListedAre ==
  ASSUME NamesApart, TInv, NEW s, NEW t \in Topology, NEW k \in Task(t)
  PROVE  /\ Listed(s, t, k) \subseteq workers
         /\ \A w \in workers : w \in Listed(s, t, k) <=>
                                 w.sup = s /\ w.listed /\ w.topo = t /\ w.task = k
<1>1. \A w \in workers : w.topo \in Topology /\ w.task \in Task(w.topo)
  BY DEF TInv, PortsInv, Worker
<1>2. \A w \in workers : WorkerId[w.topo][w.task] = WorkerId[t][k] => w.topo = t /\ w.task = k
  BY <1>1 DEF NamesApart
<1> QED BY <1>2 DEF Listed

LEMMA StartWorkersStep ==
  ASSUME NamesApart, TInv, Alone, Single', Unprepared', NEW p \in Thread, NEW c \in calls[p],
         StartWorkers(p, c)
  PROVE  Alone'
<1> PICK t : t = Topo(p)
  OBVIOUS
<1> PICK W : W = Listed(c.sup, t, c.task)
  OBVIOUS
<1>0. Calling(p, "start", c) /\ UNCHANGED instances
  BY DEF StartWorkers
<1>1. /\ Busy(p) /\ t \in Topology /\ at[p] = "start" /\ Doing(p, "start")
      /\ job[p][1].op = "start" /\ calls'[p] = calls[p] \ {c}
      /\ LoopInv(p) /\ KnownInv /\ UNCHANGED <<status, spec, job, at>>
      /\ Topo(p)' = t /\ \A o : Doing(p, o)' = Doing(p, o)
  BY <1>0, CallStart DEF Doing
<1>2. c.task \in Task(t) /\ c = [sup |-> c.sup, task |-> c.task, count |-> 0]
  BY <1>0, <1>1, CallFacts DEF LoopInv, Calls
<1>3. W \subseteq workers /\ \A w \in workers : w \in W => w.sup = c.sup /\ w.topo = t /\ w.task = c.task
  BY <1>1, <1>2, ListedAre
<1>4. \A w \in W : w.state = "up"
  <2>1. \A w \in W : Owed(p, w) /\ w \in Of(t)
    BY <1>2, <1>3 DEF Owed, Of
  <2> QED BY <1>1, <2>1 DEF LoopInv
<1>5. UNCHANGED stuck
  <2>1. ~\E w \in W : w.state # "up"
    BY <1>4
  <2> QED BY <2>1 DEF StartWorkers
<1>6. PICK g \in [workers -> Worker] :
        /\ workers' = {g[w] : w \in workers}
        /\ \A w \in workers : Same(g[w], w)
        /\ \A w \in workers :
             g[w].state = IF w \in W THEN IF w.state = "up" THEN "running" ELSE "gone"
                          ELSE w.state
  BY StartedWorkers
<1>7. KnownInv' /\ \A u : \A v \in Of(u)' : \E w \in Of(u) : v = g[w]
  <2>1. \A w \in workers : Same(g[w], w) /\ g[w].state # "gone"
    BY <1>1, <1>4, <1>6 DEF KnownInv
  <2> QED BY <1>0, <1>1, <1>6, <2>1, SameKnown
<1>8. status[t] = "ready"
  BY <1>1 DEF LoopInv
<1>9. ASSUME NEW u \in Topology PROVE StatusInv(u)'
  <2>1. CASE u = t
    <3>1. "ready" \notin NotStarted
      BY DEF NotStarted
    <3> QED BY <1>1, <1>8, <2>1, <3>1 DEF StatusInv
  <2>2. CASE u # t
    <3>1. status'[u] = status[u] /\ (Of(u) = {} => Of(u)' = {}) /\ u # Topo(p)
      BY <1>1, <1>7, <2>2
    <3> QED BY <1>1, <3>1, OthersShown
  <2> QED BY <2>1, <2>2
<1>10. LoopInv(p)'
  <2>1. ASSUME NEW v \in Of(t)', [sup |-> v.sup, task |-> v.task, count |-> 0] \in calls'[p]
        PROVE  v.state = "up"
    <3>1. PICK w \in Of(t) : v = g[w]
      BY <1>7
    <3>2. w \in workers /\ v.sup = w.sup /\ v.task = w.task
      BY <1>6, <3>1 DEF Of, Same
    <3>3. w \notin W /\ Owed(p, w)
      BY <1>1, <1>2, <1>3, <2>1, <3>2 DEF Owed
    <3>4. w.state = "up"
      BY <1>1, <3>1, <3>3 DEF LoopInv
    <3> QED BY <1>6, <3>1, <3>2, <3>3, <3>4
  <2>2. ~Doing(p, "erase")' /\ at'[p] = "start"
    BY <1>1 DEF Doing
  <2>3. \A d \in calls'[p] : d.count = 0
    BY <1>1 DEF LoopInv
  <2> QED BY <1>1, <1>8, <2>1, <2>2, <2>3 DEF LoopInv, Owed
<1> QED BY <1>1, <1>5, <1>7, <1>9, <1>10, LoopStep DEF Exists

LEMMA KillWorkersStep ==
  ASSUME NamesApart, TInv, Alone, Single', Unprepared', NEW p \in Thread, NEW c \in calls[p],
         KillWorkers(p, c)
  PROVE  Alone'
<1> PICK t : t = Topo(p)
  OBVIOUS
<1> PICK W : W = Listed(c.sup, t, c.task)
  OBVIOUS
<1>0. Calling(p, "kill", c) /\ UNCHANGED instances /\ workers' = workers \ W
  BY DEF KillWorkers
<1>1. /\ Busy(p) /\ t \in Topology /\ at[p] = "kill" /\ Doing(p, "stop")
      /\ job[p][1].op = "stop" /\ calls'[p] = calls[p] \ {c}
      /\ LoopInv(p) /\ KnownInv /\ UNCHANGED <<status, spec, job, at>>
      /\ Topo(p)' = t /\ \A o : Doing(p, o)' = Doing(p, o)
  BY <1>0, CallStart DEF Doing
<1>2. c.task \in Task(t) /\ c = [sup |-> c.sup, task |-> c.task, count |-> 0]
  BY <1>0, <1>1, CallFacts DEF LoopInv, Calls
<1>3. /\ W \subseteq workers
      /\ \A w \in workers : w.sup = c.sup /\ w.topo = t /\ w.task = c.task => w \in W
  BY <1>1, <1>2, ListedAre DEF KnownInv
<1>4. UNCHANGED stuck
  <2>1. ~Gone(W)
    BY <1>1, <1>3 DEF Gone, KnownInv
  <2> QED BY <2>1 DEF KillWorkers
<1>5. KnownInv' /\ \A u : Of(u)' \subseteq Of(u)
  BY <1>0, <1>1 DEF KnownInv, Exists, Address, Of
<1>6. ASSUME NEW u \in Topology PROVE StatusInv(u)'
  <2>1. status'[u] = status[u] /\ (Of(u) = {} => Of(u)' = {})
    BY <1>1, <1>5
  <2> QED BY <1>1, <2>1, OthersShown
<1>7. LoopInv(p)'
  <2>1. ASSUME NEW w \in Of(t)' PROVE [sup |-> w.sup, task |-> w.task, count |-> 0] \in calls'[p]
    <3>1. w \in workers /\ w \notin W /\ w.topo = t /\ w \in Of(t)
      BY <1>0, <2>1 DEF Of
    <3>2. Owed(p, w)
      BY <1>1, <3>1 DEF LoopInv
    <3>3. ~(w.sup = c.sup /\ w.task = c.task)
      BY <1>3, <3>1
    <3>4. [sup |-> w.sup, task |-> w.task, count |-> 0] # c
      BY <3>3
    <3> QED BY <1>1, <3>2, <3>4 DEF Owed
  <2>2. ~Doing(p, "start")' /\ ~Doing(p, "erase")' /\ at'[p] = "kill"
    BY <1>1 DEF Doing
  <2>3. \A d \in calls'[p] : d.count = 0
    BY <1>1 DEF LoopInv
  <2> QED BY <1>1, <2>1, <2>2, <2>3 DEF LoopInv, Owed
<1> QED BY <1>1, <1>4, <1>5, <1>6, <1>7, LoopStep DEF Exists

-----------------------------------------------------------------------------
(* Clients and failures *)

LEMMA SubmitStep ==
  ASSUME TInv, Alone, Single', Unprepared', NEW t \in Topology, Submit(t)
  PROVE  Alone'
<1>0. /\ status[t] = "nonexisted" /\ status' = [status EXCEPT ![t] = "pending"]
      /\ spec' = spec \cup {t} /\ UNCHANGED <<instances, workers, stuck, at, calls>>
  BY DEF Submit, Serve, supVars, Exists
<1>1. UNCHANGED job
  <2>1. job[Nimbus] = << >> /\ job' = [job EXCEPT ![Nimbus] = << >>]
    BY DEF Submit, Serve, Busy
  <2> QED BY <2>1 DEF TInv, ThreadInv
<1>2. /\ status'[t] = "pending" /\ \A u \in Topology : u # t => status'[u] = status[u]
      /\ \A u \in Topology : Exists(u) => Exists(u)'
  BY <1>0 DEF TInv, TableInv, Exists
<1>3. KnownInv /\ stuck = {} /\ spec \subseteq Topology
  BY DEF Alone, TInv, TableInv
<1>4. /\ \A u : Of(u)' = Of(u)
      /\ \A q : Busy(q)' = Busy(q) /\ Topo(q)' = Topo(q) /\ \A o : Doing(q, o)' = Doing(q, o)
  BY <1>0, <1>1 DEF Of, Busy, Topo, Doing
<1>5. KnownInv'
  <2>1. \A u \in spec' : Exists(u)'
    BY <1>0, <1>2, <1>3 DEF KnownInv, Exists
  <2> QED BY <1>0, <1>3, <2>1 DEF KnownInv, Address
<1>6. ASSUME NEW u \in Topology PROVE StatusInv(u)'
  <2>1. StatusInv(u)
    BY DEF Alone
  <2>2. CASE u = t
    <3>1. Of(t) = {}
      BY <1>0, <2>1, <2>2 DEF StatusInv, NotStarted
    <3> QED BY <1>2, <1>4, <2>2, <3>1 DEF StatusInv
  <2>3. CASE u # t
    BY <1>0, <1>2, <1>4, <2>1, <2>3 DEF StatusInv
  <2> QED BY <2>2, <2>3
<1>7. ASSUME NEW q \in Thread PROVE JobShape(q)' /\ LoopInv(q)'
  <2>1. JobShape(q) /\ LoopInv(q)
    BY DEF Alone
  <2>2. JobShape(q)'
    BY <1>1, <1>2, <2>1, SameShape
  <2>3. CASE ~Busy(q)
    <3>1. job[q] = << >> /\ at[q] = "begin"
      BY <2>3 DEF Busy, TInv, ThreadInv, PhaseInv, Doing
    <3> QED BY <1>0, <1>1, <3>1, IdleAfter
  <2>4. CASE Busy(q) /\ job[q][1].op = "restart"
    <3>1. at[q] = "begin" /\ ~Doing(q, "start") /\ ~Doing(q, "erase")
      BY <2>4 DEF TInv, ThreadInv, PhaseInv, Doing
    <3>2. LoopInv(q)'
      BY <1>0, <1>4, <3>1 DEF LoopInv
    <3> QED BY <2>2, <3>2
  <2>5. CASE Busy(q) /\ job[q][1].op # "restart"
    <3>1. q # Nimbus
      BY <2>5 DEF Submit, Serve
    <3>2. Topo(q) \in Topology /\ Exists(Topo(q))
      BY <2>5, <3>1, WorkerFacts DEF Standing, Topo
    <3>3. Topo(q) # t /\ status'[Topo(q)] = status[Topo(q)]
      BY <1>0, <1>2, <3>2 DEF Exists
    <3>4. LoopInv(q)'
      <4>1. Exists(Topo(q))' = Exists(Topo(q)) /\ (Topo(q) \in spec => Topo(q) \in spec')
        BY <1>0, <1>4, <3>3 DEF Exists
      <4> QED BY <1>0, <1>4, <2>1, <3>3, <4>1 DEF LoopInv, Owed, Exists
    <3> QED BY <2>2, <3>4
  <2> QED BY <2>3, <2>4, <2>5
<1> QED BY <1>0, <1>3, <1>5, <1>6, <1>7 DEF Alone

LEMMA ClientJobs ==
  ASSUME NEW t \in Topology
  PROVE  /\ \A i \in 1 .. 3 : Ordered(Nimbus, <<Op("compile", t), Op("prepare", t), Op("start", t)>>, i)
         /\ \A i \in 1 .. 2 : Ordered(Nimbus, <<Op("prepare", t), Op("start", t)>>, i)
         /\ \A o \in {"stop", "kill"} : Ordered(Nimbus, <<Op(o, t)>>, 1)
<1>1. ASSUME NEW i \in 1 .. 3
      PROVE  Ordered(Nimbus, <<Op("compile", t), Op("prepare", t), Op("start", t)>>, i)
  <2> PICK ops : ops = <<Op("compile", t), Op("prepare", t), Op("start", t)>>
    OBVIOUS
  <2>1. /\ DOMAIN ops = 1 .. 3 /\ ops[1] = Op("compile", t) /\ ops[2] = Op("prepare", t)
        /\ ops[3] = Op("start", t)
    OBVIOUS
  <2>2. (i = 1 /\ i + 1 = 2) \/ (i = 2 /\ i + 1 = 3) \/ i = 3
    OBVIOUS
  <2>3. 2 \in 1 .. 3 /\ 3 \in 1 .. 3
    OBVIOUS
  <2>4. CASE i = 1 /\ i + 1 = 2
    BY <2>1, <2>3, <2>4 DEF Ordered, Op
  <2>5. CASE i = 2 /\ i + 1 = 3
    BY <2>1, <2>3, <2>5 DEF Ordered, Op
  <2>6. CASE i = 3
    BY <2>1, <2>6 DEF Ordered, Op
  <2> QED BY <2>2, <2>4, <2>5, <2>6
<1>2. ASSUME NEW i \in 1 .. 2 PROVE Ordered(Nimbus, <<Op("prepare", t), Op("start", t)>>, i)
  <2> PICK ops : ops = <<Op("prepare", t), Op("start", t)>>
    OBVIOUS
  <2>1. DOMAIN ops = 1 .. 2 /\ ops[1] = Op("prepare", t) /\ ops[2] = Op("start", t)
    OBVIOUS
  <2>2. (i = 1 /\ i + 1 = 2) \/ i = 2
    OBVIOUS
  <2>3. 2 \in 1 .. 2
    OBVIOUS
  <2>4. CASE i = 1 /\ i + 1 = 2
    BY <2>1, <2>3, <2>4 DEF Ordered, Op
  <2>5. CASE i = 2
    BY <2>1, <2>5 DEF Ordered, Op
  <2> QED BY <2>2, <2>4, <2>5
<1>3. ASSUME NEW o \in {"stop", "kill"} PROVE Ordered(Nimbus, <<Op(o, t)>>, 1)
  <2> PICK ops : ops = <<Op(o, t)>>
    OBVIOUS
  <2>1. Len(ops) = 1 /\ ops[1] = Op(o, t)
    OBVIOUS
  <2> QED BY <2>1 DEF Ordered, Op
<1> QED BY <1>1, <1>2, <1>3

LEMMA ServeStep ==
  ASSUME TInv, Alone, Single', Unprepared', NEW ops \in Seq(Jobs), Serve(ops), ops # << >>,
         ops[1].op \notin {"start", "erase"},
         \A i \in DOMAIN ops : Ordered(Nimbus, ops, i) /\ Standing(Nimbus, ops[i]),
         UNCHANGED <<status, spec>>
  PROVE  Alone'
<1>1. /\ ~Busy(Nimbus) /\ job' = [job EXCEPT ![Nimbus] = ops]
      /\ UNCHANGED <<instances, workers, stuck, at, calls>>
  BY DEF Serve, supVars
<1>2. Nimbus \in Thread
  BY DEF Thread
<1> QED BY <1>1, <1>2, StartJob

LEMMA SendStep ==
  ASSUME TInv, Alone, Single', Unprepared', NEW t \in Topology, Send(t)
  PROVE  Alone'
<1> PICK ops \in Seq(Jobs) : ops = <<Op("compile", t), Op("prepare", t), Op("start", t)>>
  BY ShortJobs
<1>1. Serve(ops) /\ UNCHANGED <<status, spec>>
  BY DEF Send
<1>2. /\ DOMAIN ops = 1 .. 3 /\ ops[1] = Op("compile", t) /\ ops[2] = Op("prepare", t)
      /\ ops[3] = Op("start", t) /\ ops # << >>
  OBVIOUS
<1>3. \A i \in DOMAIN ops : Ordered(Nimbus, ops, i)
  BY <1>2, ClientJobs
<1>4. \A i \in DOMAIN ops : Standing(Nimbus, ops[i])
  <2>1. \A i \in 1 .. 3 : i = 1 \/ i = 2 \/ i = 3
    OBVIOUS
  <2> QED BY <1>2, <2>1 DEF Standing, Op
<1>5. ops[1].op \notin {"start", "erase"}
  BY <1>2 DEF Op
<1> QED BY <1>1, <1>2, <1>3, <1>4, <1>5, ServeStep

LEMMA CommandStep ==
  ASSUME TInv, Alone, Single', Unprepared', NEW t \in Topology, NEW c \in Request, Command(c, t)
  PROVE  Alone'
<1>0. c = "start" \/ c = "stop" \/ c = "kill"
  BY ClusterAssumption DEF ClusterAssumption
<1>1. CASE c = "start"
  <2> PICK ops \in Seq(Jobs) : ops = <<Op("prepare", t), Op("start", t)>>
    BY ShortJobs
  <2>1. Serve(ops) /\ UNCHANGED <<status, spec>>
    BY <1>1 DEF Command
  <2>2. /\ DOMAIN ops = 1 .. 2 /\ ops[1] = Op("prepare", t) /\ ops[2] = Op("start", t) /\ ops # << >>
    OBVIOUS
  <2>3. \A i \in DOMAIN ops : Ordered(Nimbus, ops, i)
    BY <2>2, ClientJobs
  <2>4. \A i \in DOMAIN ops : Standing(Nimbus, ops[i])
    <3>1. \A i \in 1 .. 2 : i = 1 \/ i = 2
      OBVIOUS
    <3> QED BY <2>2, <3>1 DEF Standing, Op
  <2>5. ops[1].op \notin {"start", "erase"}
    BY <2>2 DEF Op
  <2> QED BY <2>1, <2>2, <2>3, <2>4, <2>5, ServeStep
<1>2. CASE c # "start"
  <2>0. Op(c, t) \in Jobs
    BY <1>0, <1>2, ShortJobs DEF Operations
  <2> PICK e \in Jobs : e = Op(c, t)
    BY <2>0
  <2>7. <<e>> \in Seq(Jobs)
    OBVIOUS
  <2> PICK ops \in Seq(Jobs) : ops = <<e>>
    BY <2>7
  <2>1. Serve(ops) /\ UNCHANGED <<status, spec>> /\ Exists(t)
    BY <1>2 DEF Command
  <2>2. DOMAIN ops = {1} /\ ops[1] = Op(c, t) /\ ops # << >>
    OBVIOUS
  <2>3. \A i \in DOMAIN ops : Ordered(Nimbus, ops, i)
    BY <1>0, <1>2, <2>2, ClientJobs
  <2>4. \A i \in DOMAIN ops : Standing(Nimbus, ops[i])
    BY <2>1, <2>2 DEF Standing, Op
  <2>5. ops[1].op \notin {"start", "erase"}
    BY <1>0, <1>2, <2>2 DEF Op
  <2> QED BY <2>1, <2>2, <2>3, <2>4, <2>5, ServeStep
<1> QED BY <1>1, <1>2

LEMMA FailuresStep ==
  ASSUME TInv, Alone, Single', Unprepared', NEW s \in Supervisor,
         Crash(s) \/ DetectFailure(s) \/ Forget(s)
  PROVE  Alone'
<1>0. stuck = {}
  BY DEF Alone
<1>1. CASE Crash(s)
  <2>1. /\ stuck' = {} /\ workers' \subseteq workers
        /\ UNCHANGED <<status, spec, instances, job, at, calls>>
    BY <1>0, <1>1 DEF Crash, tableVars, threadVars
  <2> QED BY <2>1, Untouched
<1>2. CASE Forget(s)
  <2>1. /\ stuck' = {} /\ workers' \subseteq workers
        /\ UNCHANGED <<status, spec, instances, job, at, calls>>
    BY <1>0, <1>2 DEF Forget, tableVars, threadVars, supVars
  <2> QED BY <2>1, Untouched
<1>3. CASE DetectFailure(s)
  <2> PICK p : p = Cardinality(detected) + 1
    OBVIOUS
  <2>1. p \in Thread /\ ~Busy(p) /\ Thread \subseteq Nat /\ p # Nimbus
        /\ <<Op("restart", "all")>> \in Seq(Jobs)
    <3>1. /\ Cardinality(detected) \in Nat /\ p \in Thread /\ ~Busy(p) /\ Thread \subseteq Nat
          /\ <<Op("restart", "all")>> \in Seq(Jobs)
      BY <1>3, FreshThread DEF TInv
    <3>2. p # 0
      BY <3>1
    <3> QED BY <3>1, <3>2 DEF Nimbus
  <2> PICK ops \in Seq(Jobs) : ops = <<Op("restart", "all")>>
    BY <2>1
  <2>2. /\ job' = [job EXCEPT ![p] = ops]
        /\ UNCHANGED <<status, spec, instances, workers, stuck, at, calls>>
    BY <1>3 DEF DetectFailure, tableVars, supVars
  <2>3. DOMAIN ops = {1} /\ Len(ops) = 1 /\ ops[1] = Op("restart", "all") /\ ops # << >>
    OBVIOUS
  <2>4. \A i \in DOMAIN ops : Ordered(p, ops, i) /\ Standing(p, ops[i])
    BY <2>3 DEF Ordered, Standing, Op
  <2>5. ops[1].op \notin {"start", "erase"}
    BY <2>3 DEF Op
  <2> QED BY <2>1, <2>2, <2>3, <2>4, <2>5, StartJob
<1> QED BY <1>1, <1>2, <1>3

-----------------------------------------------------------------------------
(* The invariant holds *)

LEMMA AloneInit == Init => IInv
<1> SUFFICES ASSUME Init PROVE IInv
  OBVIOUS
<1>1. TInv
  BY TypeInit
<1>2. /\ \A p \in Thread : job[p] = << >> /\ at[p] = "begin"
      /\ \A t \in Topology : status[t] = "nonexisted" /\ Of(t) = {}
      /\ spec = {} /\ workers = {} /\ stuck = {}
  BY DEF Init, Of
<1>3. \A p \in Thread : ~Busy(p) /\ (\A o : ~Doing(p, o)) /\ DOMAIN job[p] = {}
  BY <1>2 DEF Busy, Doing
<1>4. Alone
  BY <1>2, <1>3 DEF Alone, Single, Unprepared, KnownInv, StatusInv, JobShape, LoopInv
<1> QED BY <1>1, <1>4 DEF IInv

LEMMA ThreadAlone ==
  ASSUME NamesApart, TInv, Alone, Single', Unprepared', NEW p \in Thread, ThreadStep(p)
  PROVE  Alone'
<1>1. CASE Operation(p)
  BY <1>1, CompileStep, BeginPrepareStep, BeginConfigureStep, EndPrepareStep, BeginStartStep,
     EndStartStep, BeginStopStep, EndStopStep, KillStep, EraseStep, RestartAllStep DEF Operation
<1>2. CASE CallStep(p)
  BY <1>2, AddWorkersStep, ConfigureWorkersStep, StartWorkersStep, KillWorkersStep DEF CallStep
<1> QED BY <1>1, <1>2 DEF ThreadStep

LEMMA AloneStep == NamesApart /\ IInv /\ [Next]_vars => IInv'
<1> SUFFICES ASSUME NamesApart, IInv, [Next]_vars PROVE IInv'
  OBVIOUS
<1>1. TInv /\ TInv'
  BY TypeStep DEF IInv
<1>2. ASSUME ~clash' PROVE Alone'
  <2>1. CASE UNCHANGED vars
    <3>1. Alone /\ UNCHANGED <<status, spec, instances, job, at, calls, stuck, workers>>
      BY <1>2, <2>1 DEF IInv, vars, tableVars, threadVars, supVars
    <3>2. \A q : Busy(q)' = Busy(q) /\ Topo(q)' = Topo(q) /\ \A o : Doing(q, o)' = Doing(q, o)
      BY <3>1 DEF Busy, Topo, Doing
    <3>3. Single' /\ Unprepared' /\ stuck' = {}
      BY <3>1, <3>2 DEF Alone, Single, Unprepared
    <3> QED BY <1>1, <3>1, <3>3, Untouched
  <2>2. CASE Next
    <3>1. Alone /\ Single' /\ Unprepared'
      BY <1>2, <2>2, NoClash DEF Next, IInv
    <3>2. CASE ClientStep
      BY <1>1, <3>1, <3>2, SubmitStep, SendStep, CommandStep DEF ClientStep
    <3>3. ASSUME NEW p \in Thread, ThreadStep(p) PROVE Alone'
      BY <1>1, <3>1, <3>3, ThreadAlone
    <3>4. CASE FailureStep
      BY <1>1, <3>1, <3>4, FailuresStep DEF FailureStep
    <3> QED BY <2>2, <3>2, <3>3, <3>4 DEF Next
  <2> QED BY <2>1, <2>2
<1> QED BY <1>1, <1>2 DEF IInv

-----------------------------------------------------------------------------
(* What follows from it *)

\* As long as no two threads work at once and nothing is prepared twice, no
\* supervisor waits for ever for a worker that has ended, and no worker ends by
\* itself: startProcessing is never run a second time.
THEOREM NobodyGetsStuck == NamesApart => (Spec => []NobodyStuck)
<1> SUFFICES ASSUME NamesApart PROVE Spec => []NobodyStuck
  OBVIOUS
<1>1. Init => IInv
  BY AloneInit
<1>2. IInv /\ [Next]_vars => IInv'
  BY AloneStep
<1>3. IInv => NobodyStuck
  BY DEF IInv, Alone, KnownInv, NobodyStuck
<1> QED BY <1>1, <1>2, <1>3, PTL DEF Spec

LEMMA NothingLeft == IInv => NothingLeftBehind
<1> SUFFICES ASSUME IInv, ~clash, Quiet, NEW w \in workers PROVE status[w.topo] = "running"
  BY DEF NothingLeftBehind
<1>1. TInv /\ Alone
  BY DEF IInv
<1>2. w.topo \in Topology /\ status[w.topo] \in Status /\ StatusInv(w.topo) /\ w \in Of(w.topo)
  BY <1>1 DEF TInv, PortsInv, TableInv, Worker, Alone, Of
<1>3. \A p \in Thread : \A o : ~Doing(p, o)
  BY DEF Quiet, Doing
<1> QED BY <1>2, <1>3 DEF StatusInv, Status, NotStarted

\* When all is quiet a worker belongs to a topology that runs: each path through
\* stopTopology and killTopology ends the processes of the topologies it takes away.
THEOREM NothingStays == NamesApart => (Spec => []NothingLeftBehind)
<1> SUFFICES ASSUME NamesApart PROVE Spec => []NothingLeftBehind
  OBVIOUS
<1>1. Init => IInv
  BY AloneInit
<1>2. IInv /\ [Next]_vars => IInv'
  BY AloneStep
<1>3. IInv => NothingLeftBehind
  BY NothingLeft
<1> QED BY <1>1, <1>2, <1>3, PTL DEF Spec

\* No operation makes an entry for a topology that has none.
LEMMA NoEntryMade ==
  ASSUME NamesApart, IInv, Next, ~clash', NEW t \in Topology,
         status[t] = "nonexisted", status'[t] # "nonexisted"
  PROVE  status'[t] = "pending" /\ t \in spec'
<1>1. TInv /\ Alone /\ Single' /\ Unprepared' /\ status \in [Topology -> Status]
  BY NoClash DEF Next, IInv, TInv, TableInv
<1>2. ASSUME NEW u \in Topology, Submit(u) PROVE status'[t] = "pending" /\ t \in spec'
  <2>1. status' = [status EXCEPT ![u] = "pending"] /\ spec' = spec \cup {u}
    BY <1>2 DEF Submit
  <2>2. u = t
    BY <1>1, <2>1
  <2> QED BY <1>1, <2>1, <2>2
<1>3. ASSUME NEW u \in Topology, Send(u) \/ \E c \in Request : Command(c, u) PROVE FALSE
  BY <1>3 DEF Send, Command
<1>4. ASSUME NEW p \in Thread, Operation(p) PROVE FALSE
  <2>1. ASSUME NEW u, NEW v, SetStatus(u, v) PROVE FALSE
    BY <1>1, <2>1 DEF SetStatus, Exists
  <2>2. CASE Compile(p) \/ BeginPrepare(p) \/ EndPrepare(p) \/ EndStart(p)
    BY <2>1, <2>2 DEF Compile, BeginPrepare, EndPrepare, EndStart
  <2>3. CASE BeginConfigure(p) \/ BeginStart(p) \/ BeginStop(p) \/ Kill(p) \/ RestartAll(p)
    BY <2>3 DEF BeginConfigure, BeginStart, BeginStop, Kill, RestartAll, tableVars
  <2>4. CASE EndStop(p)
    BY <1>1, <2>4, EndStopStep
  <2>5. CASE Erase(p)
    <3>1. status' = [status EXCEPT ![Topo(p)] = "nonexisted"]
      BY <2>5 DEF Erase
    <3> QED BY <1>1, <3>1
  <2> QED BY <1>4, <2>2, <2>3, <2>4, <2>5 DEF Operation
<1>5. ASSUME NEW p \in Thread, CallStep(p) PROVE FALSE
  BY <1>5 DEF CallStep, AddWorkers, ConfigureWorkers, StartWorkers, KillWorkers, Calling
<1>6. CASE FailureStep
  BY <1>6 DEF FailureStep, Crash, DetectFailure, Forget, tableVars
<1> QED BY <1>2, <1>3, <1>4, <1>5, <1>6 DEF Next, ClientStep, ThreadStep

\* A topology that was killed comes back only when it is submitted again: a stop that
\* a restart thread or a client has begun always finds its entry, so that
\* topoStats[topoid] at its end never makes one.
THEOREM KilledStay == NamesApart => (Spec => KilledStaysGone)
<1> SUFFICES ASSUME NamesApart PROVE Spec => KilledStaysGone
  OBVIOUS
<1> DEFINE Stays == \A t \in Topology :
                      (status[t] = "nonexisted" /\ status'[t] # "nonexisted")
                        => (clash' \/ (status'[t] = "pending" /\ t \in spec'))
<1>1. Init => IInv
  BY AloneInit
<1>2. IInv /\ [Next]_vars => IInv'
  BY AloneStep
<1>3. IInv /\ [Next]_vars => [Stays]_vars
  <2> SUFFICES ASSUME IInv, Next PROVE Stays
    OBVIOUS
  <2> QED BY NoEntryMade
<1>4. KilledStaysGone <=> [][Stays]_vars
  BY DEF KilledStaysGone
<1> HIDE DEF Stays
<1>5. Spec => [][Stays]_vars
  BY <1>1, <1>2, <1>3, PTL DEF Spec
<1> QED BY <1>4, <1>5
=============================================================================
