-------------------------- MODULE ClusterWholeProofs --------------------------
(***************************************************************************)
(* A topology that is shown as running is whole once all is quiet: how the *)
(* assignment of instances, the calls that are left and the workers that   *)
(* are there add up, and why a failure always leads to a new start.        *)
(***************************************************************************)
EXTENDS ClusterProofs

-----------------------------------------------------------------------------
(* The invariant *)

Crew(t, k) == {w \in Of(t) : w.task = k}
Children(t, k) == UNION {instances[t][c] : c \in Child[t][k]}

\* A supervisor crashed and Nimbus has not been told.
Undetected == Supervisor \ up # detected

\* What Nimbus knows of a topology's workers is true; there are as many as were
\* asked for; each sends to the workers of its children.
Known(t) == \A k \in Task(t) : instances[t][k] = {Address(w) : w \in Crew(t, k)}
Manned(t) == \A k \in Task(t) :
               IsFiniteSet(Crew(t, k)) /\ Cardinality(Crew(t, k)) = Asked(t, k)
Wired(t) == \A w \in Of(t) : w.conns = Children(t, w.task)
Built(t) == Known(t) /\ Manned(t) /\ Wired(t)

\* The instances of task k that g gives to supervisor s, and those whose
\* ADD_WORKER call is not among C, so that it has been made.
Given(g, t, k, s) == {i \in DOMAIN Plan[t] : Plan[t][i] = k /\ g[i] = s}
Placed(g, t, k, C) ==
  {i \in DOMAIN Plan[t] : Plan[t][i] = k /\ ~\E c \in C : c.sup = g[i] /\ c.task = k}

\* There is an assignment such that the calls that are left are for the instances
\* that have no worker yet.
Assigned(t, C) ==
  \E g \in [DOMAIN Plan[t] -> Supervisor] :
    /\ \A c \in C : c.count = Cardinality(Given(g, t, c.task, c.sup))
    /\ \A k \in Task(t) : /\ IsFiniteSet(Crew(t, k))
                          /\ Cardinality(Crew(t, k)) = Cardinality(Placed(g, t, k, C))

Parents(t) == {n \in Task(t) : Child[t][n] # {}}

\* How far thread p has got with the topology it prepares or starts.
BuildInv(p, t) ==
  /\ at[p] = "add" =>
       /\ up \subseteq supervisors
       /\ DOMAIN config[p] = Parents(t)
       /\ \A w \in Of(t) : w.conns = {}
       /\ Undetected \/ (Known(t) /\ Assigned(t, calls[p]))
  /\ at[p] = "config" =>
       /\ config[p] = [k \in Parents(t) |-> Children(t, k)]
       /\ Undetected \/ (Known(t) /\ Manned(t))
       /\ \A w \in Of(t) :
            \/ w.conns = {} /\ [sup |-> w.sup, task |-> "all", count |-> 0] \in calls[p]
            \/ w.conns = Children(t, w.task)
  /\ Doing(p, "start") /\ status[t] = "ready" =>
       /\ Undetected \/ Built(t)
       /\ at[p] = "start" => \A w \in Of(t) : Owed(p, w) \/ w.state = "running"

\* A thread has yet to stop t, or finished to.
Pending(t) ==
  \E p \in Thread : \E i \in DOMAIN job[p] :
    job[p][i].op = "restart" \/ job[p][i] = Op("stop", t)

RunInv(t) ==
  status[t] = "running" =>
    \/ Undetected
    \/ Pending(t)
    \/ Built(t) /\ \A w \in Of(t) : w.state = "running"

WholeInv ==
  /\ \A t \in Topology : Exists(t) => t \in spec
  /\ \A t \in Topology : RunInv(t)
  /\ \A p \in Thread : \A t \in spec : Busy(p) /\ Topo(p) = t => BuildInv(p, t)

WInv == IInv /\ (~clash => Alone /\ WholeInv)

-----------------------------------------------------------------------------
(* Lemmas *)

\* An injective function does not change the number of elements.
LEMMA SameCount ==
  ASSUME NEW S, IsFiniteSet(S), NEW f, \A x, y \in S : f[x] = f[y] => x = y
  PROVE  IsFiniteSet({f[x] : x \in S}) /\ Cardinality({f[x] : x \in S}) = Cardinality(S)
<1> DEFINE T == {f[x] : x \in S}
           h == [x \in S |-> f[x]]
<1>1. h \in Surjection(S, T)
  BY DEF Surjection
<1>2. h \in Injection(S, T)
  BY DEF Injection, IsInjective
<1> HIDE DEF T, h
<1> QED BY <1>1, <1>2, FS_Surjection DEF T

\* Nothing about the workers of t has changed.
LEMMA Kept ==
  ASSUME NEW t \in Topology, Of(t)' = Of(t), instances'[t] = instances[t]
  PROVE  /\ \A k : Crew(t, k)' = Crew(t, k) /\ Children(t, k)' = Children(t, k)
         /\ Known(t) => Known(t)'
         /\ Manned(t) => Manned(t)'
         /\ Built(t) => Built(t)'
<1>1. \A k : Crew(t, k)' = Crew(t, k) /\ Children(t, k)' = Children(t, k)
  BY DEF Crew, Children
<1>2. Known(t) => Known(t)'
  BY <1>1 DEF Known, Address
<1>3. Manned(t) => Manned(t)'
  BY <1>1 DEF Manned, Asked
<1>4. Wired(t) => Wired(t)'
  BY <1>1 DEF Wired
<1> QED BY <1>1, <1>2, <1>3, <1>4 DEF Built

LEMMA RunKept ==
  ASSUME NEW t \in Topology, RunInv(t), status'[t] = status[t],
         Of(t)' = Of(t), instances'[t] = instances[t],
         Undetected => Undetected', Pending(t) => Pending(t)'
  PROVE  RunInv(t)'
BY Kept DEF RunInv

\* The same workers in another state or with other connections.
LEMMA SameCrew ==
  ASSUME TInv, NEW g \in [workers -> Worker], workers' = {g[w] : w \in workers},
         \A w \in workers : Same(g[w], w), UNCHANGED instances, NEW t \in Topology
  PROVE  /\ Known(t) => Known(t)'
         /\ Manned(t) => Manned(t)'
         /\ \A v \in Of(t)' : \E w \in Of(t) : v = g[w]
         /\ \A k : Children(t, k)' = Children(t, k)
         /\ (\A w \in Of(t) : g[w] = w) => Of(t)' = Of(t)
<1>1. \A w \in workers : Address(g[w]) = Address(w)
  BY DEF Same, Address
<1>2. \A v, w \in workers : g[v] = g[w] => v = w
  BY <1>1 DEF TInv, PortsInv
<1>3. Of(t)' = {g[w] : w \in Of(t)}
  BY DEF Of, Same
<1>4. \A k : Crew(t, k)' = {g[w] : w \in Crew(t, k)}
  BY <1>3 DEF Crew, Same, Of
<1>5. \A k : Crew(t, k) \subseteq workers
  BY DEF Crew, Of
<1>6. ASSUME NEW k, IsFiniteSet(Crew(t, k))
      PROVE  IsFiniteSet(Crew(t, k)') /\ Cardinality(Crew(t, k)') = Cardinality(Crew(t, k))
  <2> PICK S : S = Crew(t, k)
    OBVIOUS
  <2>1. \A x, y \in S : g[x] = g[y] => x = y
    BY <1>2, <1>5
  <2>2. IsFiniteSet({g[x] : x \in S}) /\ Cardinality({g[x] : x \in S}) = Cardinality(S)
    BY <1>6, <2>1, SameCount
  <2> QED BY <1>4, <2>2
<1>7. Manned(t) => Manned(t)'
  BY <1>6 DEF Manned, Asked
<1>8. Known(t) => Known(t)'
  <2> SUFFICES ASSUME Known(t), NEW k \in Task(t)
               PROVE  instances'[t][k] = {Address(w) : w \in Crew(t, k)'}
    BY DEF Known, Address
  <2>1. {Address(w) : w \in Crew(t, k)'} = {Address(w) : w \in Crew(t, k)}
    BY <1>1, <1>4, <1>5
  <2> QED BY <2>1 DEF Known
<1>9. (\A w \in Of(t) : g[w] = w) => Of(t)' = Of(t)
  BY <1>3
<1> QED BY <1>3, <1>7, <1>8, <1>9 DEF Children

\* A thread that goes on with its job still has to stop what it had to stop.
LEMMA RestPending ==
  ASSUME TInv, NEW p \in Thread, Busy(p), ContinueWith(p, Rest(p)), NEW t \in Topology,
         job[p][1].op # "restart", job[p][1].op = "stop" => Topo(p) # t,
         Pending(t)
  PROVE  Pending(t)'
<1>1. PICK q \in Thread : \E i \in DOMAIN job[q] :
               job[q][i].op = "restart" \/ job[q][i] = Op("stop", t)
  BY DEF Pending
<1> PICK i \in DOMAIN job[q] : job[q][i].op = "restart" \/ job[q][i] = Op("stop", t)
  BY <1>1
<1>2. CASE q # p
  <2>1. job'[q] = job[q]
    BY <1>2 DEF ContinueWith, TInv, ThreadInv
  <2> QED BY <1>1, <2>1 DEF Pending
<1>3. CASE q = p
  <2>1. /\ Len(job[p]) \in Nat \ {0} /\ DOMAIN job[p] = 1 .. Len(job[p])
        /\ DOMAIN Rest(p) = 1 .. Len(job[p]) - 1
        /\ \A j \in 1 .. Len(job[p]) - 1 : Rest(p)[j] = job[p][j + 1]
    BY JobFacts DEF TInv
  <2>2. i # 1
    BY <1>1, <1>3 DEF Op, Topo
  <2>3. i - 1 \in DOMAIN Rest(p) /\ Rest(p)[i - 1] = job[p][i]
    BY <1>3, <2>1, <2>2
  <2>4. job'[p] = Rest(p)
    BY DEF ContinueWith, TInv, ThreadInv
  <2> QED BY <1>1, <1>3, <2>3, <2>4 DEF Pending
<1> QED BY <1>2, <1>3

\* Nothing to show for a thread that neither prepares nor starts a topology.
LEMMA NoBuild ==
  ASSUME NEW p \in Thread, NEW t, at'[p] \notin {"add", "config"},
         Doing(p, "start")' => status'[t] # "ready"
  PROVE  BuildInv(p, t)'
BY DEF BuildInv

\* What is left to show when thread p, the only one that works, takes a step.
LEMMA WholeAgain ==
  ASSUME TInv, Alone, NEW p \in Thread, Busy(p),
         \A q \in Thread \ {p} : job'[q] = job[q],
         \A t \in Topology : Exists(t)' => t \in spec',
         \A t \in Topology : RunInv(t)',
         \A t \in spec' : Busy(p)' /\ Topo(p)' = t => BuildInv(p, t)'
  PROVE  WholeInv'
<1>1. ASSUME NEW q \in Thread, q # p PROVE ~Busy(q)'
  <2>1. job[q] = << >>
    BY <1>1, Others DEF TInv, Alone
  <2> QED BY <1>1, <2>1 DEF Busy
<1> QED BY <1>1 DEF WholeInv

\* What WholeInv says of the thread that works.
LEMMA BuildFacts ==
  ASSUME TInv, Alone, WholeInv, NEW p \in Thread, Busy(p), job[p][1].op # "restart"
  PROVE  /\ Topo(p) \in Topology
         /\ Exists(Topo(p)) <=> Topo(p) \in spec
         /\ Topo(p) \in spec => BuildInv(p, Topo(p))
         /\ \A u \in Topology : RunInv(u)
         /\ spec \subseteq Topology
BY WorkerFacts DEF WholeInv, KnownInv, TInv, TableInv

\* An operation that leaves the specifications, the instances and the workers alone
\* ends, and gives its topology the status v.
LEMMA EndWhole ==
  ASSUME TInv, Alone, WholeInv, NEW p \in Thread, Busy(p),
         job[p][1].op \notin {"restart", "stop", "kill", "erase"},
         ContinueWith(p, Rest(p)), NEW v \in Status \ {"nonexisted"},
         NEW t, t = Topo(p), SetStatus(t, v),
         UNCHANGED <<spec, instances, workers, up, detected>>,
         RunInv(t)', \A u \in spec' : Busy(p)' /\ Topo(p)' = u => BuildInv(p, u)'
  PROVE  WholeInv'
<1>1. t \in Topology /\ \A u \in Topology : RunInv(u) /\ (Exists(u) => u \in spec)
  BY BuildFacts DEF WholeInv
<1>2. \A u \in Topology : /\ Exists(u)' = Exists(u)
                          /\ u # t => status'[u] = status[u]
  BY <1>1 DEF SetStatus, Exists, TInv, TableInv
<1>3. ASSUME NEW u \in Topology PROVE RunInv(u)'
  <2>1. CASE u = t
    BY <2>1
  <2>2. CASE u # t
    <3>1. Of(u)' = Of(u) /\ instances'[u] = instances[u] /\ (Undetected => Undetected')
      BY DEF Of, Undetected
    <3>2. job[p][1].op # "restart" /\ job[p][1].op # "stop"
      OBVIOUS
    <3>3. ASSUME Pending(u) PROVE Pending(u)'
      BY <3>2, <3>3, RestPending
    <3> QED BY <1>1, <1>2, <2>2, <3>1, <3>3, RunKept
  <2> QED BY <2>1, <2>2
<1>4. \A q \in Thread \ {p} : job'[q] = job[q]
  BY NextOp
<1> QED BY <1>1, <1>2, <1>3, <1>4, WholeAgain

-----------------------------------------------------------------------------
(* The operations *)

LEMMA CompileWhole ==
  ASSUME TInv, Alone, WholeInv, NEW p \in Thread, Compile(p)
  PROVE  WholeInv'
<1> PICK t : t = Topo(p)
  OBVIOUS
<1>0. /\ Busy(p) /\ job[p][1].op = "compile" /\ ContinueWith(p, Rest(p)) /\ SetStatus(t, "idle")
      /\ UNCHANGED <<spec, instances, workers, up, detected>>
  BY DEF Compile, Doing, supVars, failVars
<1>1. t \in Topology /\ Ordered(p, job[p], 1)
  BY <1>0, WorkerFacts
<1>2. RunInv(t)'
  BY <1>0, <1>1 DEF RunInv, SetStatus, Exists, TInv, TableInv
<1>3. ~Doing(p, "start")' /\ at'[p] = "begin"
  <2>1. 2 \in DOMAIN job[p] /\ job[p][2] = Op("prepare", t)
    BY <1>0, <1>1 DEF Ordered, Topo
  <2> QED BY <1>0, <2>1, NextOp DEF Doing, Op
<1>4. \A u : BuildInv(p, u)'
  BY <1>3, NoBuild
<1>5. "idle" \in Status \ {"nonexisted"}
  BY DEF Status
<1> QED BY <1>0, <1>2, <1>4, <1>5, EndWhole

\* When the calls are listed none of the instances has been placed.
LEMMA FirstAssigned ==
  ASSUME TInv, NEW t \in Topology, t \in spec, Of(t) = {}
  PROVE  Assigned(t, AddCalls(t, members))
<1> DEFINE g == [i \in DOMAIN Plan[t] |-> Executor(members, i)]
           C == AddCalls(t, members)
<1>1. /\ members \in SUBSET Supervisor /\ members # {} /\ executor \in Supervisor \cup {NoSup}
  BY SomebodyLeft DEF TInv, MembersInv
<1>2. Plan[t] \in Seq(Task(t)) /\ Len(Plan[t]) \in Nat /\ DOMAIN Plan[t] = 1 .. Len(Plan[t])
  BY ClusterAssumption DEF ClusterAssumption
<1>3. \A i \in DOMAIN Plan[t] : Executor(members, i) \in members
  BY <1>1, <1>2, ExecutorIsOne
<1>4. g \in [DOMAIN Plan[t] -> Supervisor]
  BY <1>1, <1>3
<1>5. \A k, s : Share(t, members, s, k) = Given(g, t, k, s)
  BY DEF Share, Given
<1>6. \A c \in C : c.count = Cardinality(Given(g, t, c.task, c.sup))
  BY <1>5 DEF AddCalls
<1>7. ASSUME NEW k \in Task(t)
      PROVE  /\ IsFiniteSet(Crew(t, k))
             /\ Cardinality(Crew(t, k)) = Cardinality(Placed(g, t, k, C))
  <2>1. Crew(t, k) = {}
    BY DEF Crew
  <2>2. ASSUME NEW i \in DOMAIN Plan[t], Plan[t][i] = k
        PROVE  \E c \in C : c.sup = g[i] /\ c.task = k
    <3> DEFINE S == Share(t, members, g[i], k)
               n == Cardinality(S)
    <3>1. i \in S /\ S \subseteq 1 .. Len(Plan[t])
      BY <1>2, <2>2 DEF Share
    <3>2. IsFiniteSet(1 .. Len(Plan[t])) /\ Cardinality(1 .. Len(Plan[t])) = Len(Plan[t])
      <4>1. 1 \in Int /\ Len(Plan[t]) \in Int
        BY <1>2
      <4>2. /\ IsFiniteSet(1 .. Len(Plan[t]))
            /\ Cardinality(1 .. Len(Plan[t]))
                 = IF 1 > Len(Plan[t]) THEN 0 ELSE Len(Plan[t]) - 1 + 1
        BY ONLY <4>1, FS_Interval
      <4> QED BY <1>2, <4>2
    <3> HIDE DEF S
    <3>3. IsFiniteSet(S) /\ n \in Nat /\ n <= Len(Plan[t]) /\ n # 0
      <4>1. IsFiniteSet(S) /\ n <= Cardinality(1 .. Len(Plan[t]))
        BY <3>1, <3>2, FS_Subset
      <4>2. n \in Nat /\ n # 0
        BY <3>1, <4>1, FS_CardinalityType, FS_EmptySet
      <4> QED BY <3>2, <4>1, <4>2
    <3>4. n \in 1 .. Len(Plan[t])
      BY <1>2, <3>3
    <3>5. g[i] \in members /\ k \in Named(t)
      BY <1>3 DEF Named
    <3>6. [sup |-> g[i], task |-> k, count |-> n] \in C
      BY <3>4, <3>5 DEF AddCalls, S
    <3> QED BY <3>6
  <2>3. Placed(g, t, k, C) = {}
    BY <2>2 DEF Placed
  <2> QED BY <2>1, <2>3, FS_EmptySet
<1> HIDE DEF g, C
<1>8. Assigned(t, C)
  BY <1>4, <1>6, <1>7 DEF Assigned
<1> QED BY <1>8 DEF C

LEMMA BeginPrepareWhole ==
  ASSUME TInv, Alone, WholeInv, NEW p \in Thread, BeginPrepare(p)
  PROVE  WholeInv'
<1> PICK t : t = Topo(p)
  OBVIOUS
<1>0. /\ Busy(p) /\ job[p][1].op = "prepare" /\ Doing(p, "prepare") /\ at[p] = "begin"
      /\ SetStatus(t, "preparing") /\ EnterLoop(p, "add", AddCalls(t, members))
      /\ config' = [config EXCEPT ![p] = [k \in {n \in Named(t) : Child[t][n] # {}} |-> {}]]
      /\ supervisors' = members
      /\ UNCHANGED <<job, spec, instances, workers, up, detected>>
  BY DEF BeginPrepare, Doing, supVars, failVars
<1>1. t \in Topology /\ KnownInv /\ \A u \in Topology : RunInv(u) /\ (Exists(u) => u \in spec)
  BY <1>0, WorkerFacts, BuildFacts DEF WholeInv
<1>2. Of(t) = {} /\ instances[t] = NoInstances(t)
  <2>1. instances[t] = NoInstances(t)
    BY <1>0 DEF Alone, Unprepared
  <2> QED BY <1>1, <2>1, NoInstancesType DEF KnownInv, Of, TInv, PortsInv
<1>3. /\ status'[t] # "running"
      /\ \A u \in Topology : (u # t => status'[u] = status[u]) /\ Exists(u)' = Exists(u)
  BY <1>0, <1>1 DEF SetStatus, Exists, TInv, TableInv
<1>4. ASSUME NEW u \in Topology PROVE RunInv(u)'
  <2>1. CASE u = t
    BY <1>3, <2>1 DEF RunInv
  <2>2. CASE u # t
    <3>1. Of(u)' = Of(u) /\ instances'[u] = instances[u] /\ (Undetected => Undetected')
          /\ (Pending(u) => Pending(u)')
      BY <1>0 DEF Of, Undetected, Pending
    <3> QED BY <1>1, <1>3, <2>2, <3>1, RunKept
  <2> QED BY <2>1, <2>2
<1>5. ASSUME t \in spec' PROVE BuildInv(p, t)'
  <2>1. at'[p] = "add" /\ calls'[p] = AddCalls(t, members)
        /\ config'[p] = [k \in {n \in Named(t) : Child[t][n] # {}} |-> {}]
    BY <1>0 DEF EnterLoop, TInv, ThreadInv
  <2>2. Named(t) = Task(t) /\ t \in spec
    BY <1>0, <1>5 DEF Named
  <2>3. up' \subseteq supervisors'
    BY <1>0 DEF TInv, MembersInv
  <2>4. DOMAIN config'[p] = Parents(t)
    BY <2>1, <2>2 DEF Parents
  <2>5. Of(t)' = {}
    BY <1>0, <1>2 DEF Of
  <2>6. Known(t)'
    BY <1>0, <1>1, <1>2, <2>5, NoInstancesType DEF Known, Crew
  <2>7. Assigned(t, calls[p])'
    <3>1. Assigned(t, AddCalls(t, members))
      BY <1>1, <1>2, <2>2, FirstAssigned
    <3>2. \A k : Crew(t, k)' = Crew(t, k)
      BY <1>2, <2>5 DEF Crew
    <3> QED BY <2>1, <3>1, <3>2 DEF Assigned
  <2>8. ~Doing(p, "start")'
    BY <1>0 DEF Doing
  <2> QED BY <2>1, <2>3, <2>4, <2>5, <2>6, <2>7, <2>8 DEF BuildInv
<1>6. \A u \in spec' : Busy(p)' /\ Topo(p)' = u => BuildInv(p, u)'
  BY <1>0, <1>5 DEF Topo
<1> QED BY <1>0, <1>1, <1>3, <1>4, <1>6, WholeAgain

LEMMA BeginConfigureWhole ==
  ASSUME TInv, Alone, WholeInv, NEW p \in Thread, BeginConfigure(p)
  PROVE  WholeInv'
<1> PICK t : t = Topo(p)
  OBVIOUS
<1>0. /\ Busy(p) /\ job[p][1].op = "prepare" /\ at[p] = "add" /\ calls[p] = {}
      /\ EnterLoop(p, "config", ConfigCalls(supervisors))
      /\ config' = [config EXCEPT ![p] =
                      [k \in DOMAIN config[p] |-> UNION {instances[t][c] : c \in Child[t][k]}]]
      /\ UNCHANGED <<job, status, spec, instances, workers, up, detected>>
  BY DEF BeginConfigure, Doing, supVars, failVars, tableVars
<1>1. /\ t \in Topology /\ \A u \in Topology : RunInv(u) /\ (Exists(u) => u \in spec)
      /\ t \in spec => BuildInv(p, t)
  BY <1>0, BuildFacts DEF WholeInv
<1>2. /\ \A u : Of(u)' = Of(u)
      /\ Undetected' = Undetected /\ \A u : Pending(u)' = Pending(u)
  BY <1>0 DEF Of, Undetected, Pending
<1>3. \A u \in Topology : RunInv(u)'
  BY <1>0, <1>1, <1>2, RunKept
<1>4. ASSUME t \in spec' PROVE BuildInv(p, t)'
  <2>1. at'[p] = "config" /\ calls'[p] = ConfigCalls(supervisors)
        /\ config'[p] = [k \in DOMAIN config[p] |-> Children(t, k)]
    BY <1>0 DEF EnterLoop, TInv, ThreadInv, Children
  <2>2. /\ up \subseteq supervisors /\ DOMAIN config[p] = Parents(t)
        /\ \A w \in Of(t) : w.conns = {}
        /\ Undetected \/ (Known(t) /\ Assigned(t, {}))
    BY <1>0, <1>1, <1>4 DEF BuildInv
  <2>3. Assigned(t, {}) => Manned(t)
    <3>1. \A g, k : Placed(g, t, k, {}) = {i \in DOMAIN Plan[t] : Plan[t][i] = k}
      BY DEF Placed
    <3> QED BY <3>1 DEF Assigned, Manned, Asked
  <2>4. \A k : Children(t, k)' = Children(t, k)
    BY <1>0 DEF Children
  <2>5. config'[p] = [k \in Parents(t) |-> Children(t, k)]
    BY <2>1, <2>2
  <2>6. \A w \in Of(t) : [sup |-> w.sup, task |-> "all", count |-> 0] \in ConfigCalls(supervisors)
    BY <2>2 DEF ConfigCalls, Of, TInv, PortsInv
  <2>7. Undetected' \/ (Known(t)' /\ Manned(t)')
    BY <1>0, <1>1, <1>2, <2>2, <2>3, Kept
  <2>8. ~Doing(p, "start")'
    BY <1>0 DEF Doing
  <2>9. (config[p])' = [k \in Parents(t) |-> Children(t, k)']
    BY <2>4, <2>5
  <2> QED BY <1>2, <2>1, <2>2, <2>6, <2>7, <2>8, <2>9 DEF BuildInv, Parents
<1>5. \A u \in spec' : Busy(p)' /\ Topo(p)' = u => BuildInv(p, u)'
  BY <1>0, <1>4 DEF Topo
<1> QED BY <1>0, <1>1, <1>3, <1>5, WholeAgain DEF Exists

\* A prepared topology has all its workers, and they are connected.
LEMMA EndPrepareWhole ==
  ASSUME TInv, Alone, WholeInv, NEW p \in Thread, EndPrepare(p)
  PROVE  WholeInv'
<1> PICK t : t = Topo(p)
  OBVIOUS
<1>0. /\ Busy(p) /\ job[p][1].op = "prepare" /\ at[p] = "config" /\ calls[p] = {}
      /\ ContinueWith(p, Rest(p)) /\ SetStatus(t, "ready")
      /\ UNCHANGED <<spec, instances, workers, up, detected>>
  BY DEF EndPrepare, Doing, supVars, failVars
<1>1. t \in Topology /\ Ordered(p, job[p], 1) /\ (t \in spec => BuildInv(p, t))
  BY <1>0, WorkerFacts, BuildFacts
<1>2. RunInv(t)'
  BY <1>0, <1>1 DEF RunInv, SetStatus, Exists, TInv, TableInv
<1>3. Topo(p)' = t /\ at'[p] = "begin"
  <2>1. 2 \in DOMAIN job[p] /\ job[p][2] = Op("start", t)
    BY <1>0, <1>1 DEF Ordered, Topo
  <2> QED BY <1>0, <2>1, NextOp DEF Topo, Op
<1>4. ASSUME t \in spec' PROVE BuildInv(p, t)'
  <2>1. BuildInv(p, t)
    BY <1>0, <1>1, <1>4
  <2>2. (Undetected \/ (Known(t) /\ Manned(t))) /\ Wired(t)
    BY <1>0, <2>1 DEF BuildInv, Wired
  <2>3. Of(t)' = Of(t) /\ Undetected' = Undetected
    BY <1>0 DEF Of, Undetected
  <2>4. Undetected' \/ Built(t)'
    BY <1>0, <1>1, <2>2, <2>3, Kept DEF Built
  <2> QED BY <1>3, <2>4 DEF BuildInv
<1>5. \A u \in spec' : Busy(p)' /\ Topo(p)' = u => BuildInv(p, u)'
  BY <1>3, <1>4
<1>6. "ready" \in Status \ {"nonexisted"}
  BY DEF Status
<1> QED BY <1>0, <1>2, <1>5, <1>6, EndWhole

LEMMA BeginStartWhole ==
  ASSUME TInv, Alone, WholeInv, NEW p \in Thread, BeginStart(p)
  PROVE  WholeInv'
<1> PICK t : t = Topo(p)
  OBVIOUS
<1>0. /\ Busy(p) /\ job[p][1].op = "start" /\ Doing(p, "start") /\ at[p] = "begin"
      /\ UNCHANGED <<status, spec, instances, workers, up, detected>>
  BY DEF BeginStart, Doing, supVars, tableVars, failVars
<1>1. /\ t \in Topology /\ \A u \in Topology : RunInv(u) /\ (Exists(u) => u \in spec)
      /\ t \in spec => BuildInv(p, t)
  BY <1>0, BuildFacts DEF WholeInv
<1>2. (\A u : Of(u)' = Of(u)) /\ Undetected' = Undetected
  BY <1>0 DEF Of, Undetected
<1>3. CASE status[t] = "ready"
  <2>0. EnterLoop(p, "start", TaskCalls(t, members)) /\ UNCHANGED job
    BY <1>3 DEF BeginStart
  <2>1. at'[p] = "start" /\ calls'[p] = TaskCalls(t, members)
    BY <2>0 DEF EnterLoop, TInv, ThreadInv
  <2>2. \A u \in Topology : RunInv(u)'
    BY <1>0, <1>1, <1>2, <2>0, RunKept DEF Pending
  <2>3. ASSUME t \in spec' PROVE BuildInv(p, t)'
    <3>1. Undetected \/ Built(t)
      BY <1>0, <1>1, <1>3, <2>3 DEF BuildInv
    <3>2. Undetected' \/ Built(t)'
      BY <1>0, <1>1, <1>2, <3>1, Kept
    <3>3. \A w \in Of(t) : [sup |-> w.sup, task |-> w.task, count |-> 0] \in TaskCalls(t, members)
      <4>1. \A w \in Of(t) : w.sup \in members /\ w.task \in Task(t)
        BY DEF Of, TInv, MembersInv, PortsInv
      <4>2. t \in spec
        BY <1>0, <2>3
      <4> QED BY <4>1, <4>2 DEF TaskCalls, Named
    <3>4. \A w \in Of(t)' : Owed(p, w)'
      BY <1>2, <2>1, <3>3 DEF Owed
    <3> QED BY <2>1, <3>2, <3>4 DEF BuildInv
  <2>4. \A u \in spec' : Busy(p)' /\ Topo(p)' = u => BuildInv(p, u)'
    BY <2>0, <2>3 DEF Topo
  <2> QED BY <1>0, <1>1, <2>0, <2>2, <2>4, WholeAgain DEF Exists
<1>4. CASE status[t] # "ready"
  <2>0. ContinueWith(p, Rest(p))
    BY <1>4 DEF BeginStart
  <2>1. ASSUME NEW u \in Topology PROVE RunInv(u)'
    <3>1. Pending(u) => Pending(u)'
      <4>1. ASSUME Pending(u) PROVE Pending(u)'
        BY <1>0, <2>0, <4>1, RestPending
      <4> QED BY <4>1
    <3> QED BY <1>0, <1>1, <1>2, <3>1, RunKept
  <2>2. \A u \in Topology : status'[u] # "ready"
    BY <1>0, <1>4, ShownAs DEF Doing
  <2>3. at'[p] = "begin" /\ \A q \in Thread \ {p} : job'[q] = job[q]
    BY <1>0, <2>0, NextOp
  <2>4. \A u \in spec' : BuildInv(p, u)'
    <3>1. spec' \subseteq Topology
      BY <1>0 DEF TInv, TableInv
    <3> QED BY <2>2, <2>3, <3>1, NoBuild
  <2> QED BY <1>0, <1>1, <2>1, <2>3, <2>4, WholeAgain DEF Exists
<1> QED BY <1>3, <1>4

\* A started topology is whole.
LEMMA EndStartWhole ==
  ASSUME TInv, Alone, WholeInv, NEW p \in Thread, EndStart(p)
  PROVE  WholeInv'
<1> PICK t : t = Topo(p)
  OBVIOUS
<1>0. /\ Busy(p) /\ job[p][1].op = "start" /\ Doing(p, "start") /\ at[p] = "start" /\ calls[p] = {}
      /\ ContinueWith(p, Rest(p)) /\ SetStatus(t, "running")
      /\ UNCHANGED <<spec, instances, workers, up, detected>>
  BY DEF EndStart, Doing, supVars, failVars
<1>1. /\ t \in Topology /\ LoopInv(p) /\ status[t] = "ready" /\ spec \subseteq Topology
      /\ Exists(t) => t \in spec
      /\ t \in spec => BuildInv(p, t)
  BY <1>0, WorkerFacts, BuildFacts DEF LoopInv
<1>2. BuildInv(p, t)
  BY <1>1 DEF Exists
<1>3. RunInv(t)'
  <2>1. (Undetected \/ Built(t)) /\ \A w \in Of(t) : w.state = "running"
    BY <1>0, <1>1, <1>2 DEF BuildInv, Owed
  <2>2. Of(t)' = Of(t) /\ Undetected' = Undetected
    BY <1>0 DEF Of, Undetected
  <2>3. Undetected' \/ (Built(t)' /\ \A w \in Of(t)' : w.state = "running")
    BY <1>0, <1>1, <2>1, <2>2, Kept
  <2> QED BY <2>3 DEF RunInv
<1>4. \A u \in Topology : status'[u] # "ready"
  <2>1. status' = [status EXCEPT ![t] = "running"]
    BY <1>0, <1>1 DEF SetStatus, Exists
  <2>2. \A u \in Topology : status'[u] = IF u = t THEN "running" ELSE status[u]
    BY <1>1, <2>1 DEF TInv, TableInv
  <2> QED BY <1>0, <2>2, ShownAs
<1>5. at'[p] = "begin"
  BY <1>0, NextOp
<1>6. \A u \in spec' : BuildInv(p, u)'
  BY <1>0, <1>1, <1>4, <1>5, NoBuild
<1>7. "running" \in Status \ {"nonexisted"}
  BY DEF Status
<1> QED BY <1>0, <1>3, <1>6, <1>7, EndWhole

LEMMA BeginStopWhole ==
  ASSUME TInv, Alone, WholeInv, NEW p \in Thread, BeginStop(p)
  PROVE  WholeInv'
<1>0. /\ Busy(p) /\ job[p][1].op = "stop" /\ EnterLoop(p, "kill", TaskCalls(Topo(p), members))
      /\ UNCHANGED <<job, status, spec, instances, workers, up, detected>>
  BY DEF BeginStop, Doing, supVars, tableVars, failVars
<1>1. \A u \in Topology : RunInv(u) /\ (Exists(u) => u \in spec)
  BY DEF WholeInv
<1>2. /\ \A u : Of(u)' = Of(u)
      /\ Undetected' = Undetected /\ \A u : Pending(u)' = Pending(u)
  BY <1>0 DEF Of, Undetected, Pending
<1>3. \A u \in Topology : RunInv(u)'
  BY <1>0, <1>1, <1>2, RunKept
<1>4. at'[p] = "kill" /\ ~Doing(p, "start")'
  BY <1>0 DEF EnterLoop, TInv, ThreadInv, Doing
<1>5. \A u : BuildInv(p, u)'
  BY <1>4, NoBuild
<1> QED BY <1>0, <1>1, <1>3, <1>5, WholeAgain DEF Exists

LEMMA EndStopWhole ==
  ASSUME TInv, Alone, WholeInv, NEW p \in Thread, EndStop(p)
  PROVE  WholeInv'
<1> PICK t : t = Topo(p)
  OBVIOUS
<1>0. /\ Busy(p) /\ job[p][1].op = "stop" /\ ContinueWith(p, Rest(p))
      /\ status' = [status EXCEPT ![t] = IF Exists(t) THEN "idle" ELSE "empty"]
      /\ instances' = [instances EXCEPT ![t] = NoInstances(t)]
      /\ UNCHANGED <<spec, workers, up, detected>>
  BY DEF EndStop, Doing, supVars, failVars
<1>1. /\ t \in Topology /\ Standing(p, job[p][1])
      /\ \A u \in Topology : RunInv(u) /\ (Exists(u) => u \in spec)
      /\ spec \subseteq Topology
  BY <1>0, WorkerFacts, BuildFacts DEF WholeInv
<1>2. Exists(t)
  BY <1>0, <1>1 DEF Standing, Topo
<1>3. status'[t] = "idle" /\ \A u \in Topology : u # t => status'[u] = status[u]
  BY <1>0, <1>1, <1>2 DEF TInv, TableInv
<1>4. \A u \in Topology : u # t => instances'[u] = instances[u]
  BY <1>0, <1>1, NoInstancesType, InstancesTypes DEF TInv
<1>5. ASSUME NEW u \in Topology PROVE RunInv(u)'
  <2>1. CASE u = t
    BY <1>3, <2>1 DEF RunInv
  <2>2. CASE u # t
    <3>1. Of(u)' = Of(u) /\ (Undetected => Undetected')
      BY <1>0 DEF Of, Undetected
    <3>2. ASSUME Pending(u) PROVE Pending(u)'
      BY <1>0, <2>2, <3>2, RestPending
    <3> QED BY <1>1, <1>3, <1>4, <2>2, <3>1, <3>2, RunKept
  <2> QED BY <2>1, <2>2
<1>6. \A u \in Topology : status'[u] # "ready"
  BY <1>0, <1>3, ShownAs DEF Doing
<1>7. at'[p] = "begin" /\ \A q \in Thread \ {p} : job'[q] = job[q]
  BY <1>0, NextOp
<1>8. \A u \in spec' : BuildInv(p, u)'
  BY <1>0, <1>1, <1>6, <1>7, NoBuild
<1>9. \A u \in Topology : Exists(u)' => u \in spec'
  BY <1>0, <1>1, <1>2, <1>3 DEF Exists
<1> QED BY <1>0, <1>5, <1>7, <1>8, <1>9, WholeAgain

LEMMA KillWhole ==
  ASSUME TInv, Alone, WholeInv, NEW p \in Thread, Kill(p)
  PROVE  WholeInv'
<1> PICK t : t = Topo(p)
  OBVIOUS
<1>0. /\ Busy(p) /\ job[p][1].op = "kill"
      /\ UNCHANGED <<status, spec, instances, workers, up, detected>>
  BY DEF Kill, Doing, supVars, tableVars, failVars
<1>1. /\ at'[p] = "begin" /\ \A q \in Thread \ {p} : job'[q] = job[q]
      /\ \/ job'[p] = << >>
         \/ job'[p] = <<Op("stop", t), Op("erase", t)>>
         \/ job'[p] = <<Op("erase", t)>>
  BY KillJob
<1>2. ~Doing(p, "start")'
  BY <1>1 DEF Doing, Busy, Op
<1>3. \A u : ~Pending(u)
  <2>1. 1 = Len(job[p])
    BY <1>0, WorkerFacts DEF Ordered
  <2>2. DOMAIN job[p] = {1}
    BY <1>0, <2>1, JobFacts DEF TInv
  <2>3. \A q \in Thread \ {p} : job[q] = << >>
    BY <1>0, Others DEF TInv, Alone
  <2> QED BY <1>0, <2>2, <2>3 DEF Pending, Op
<1>4. ASSUME NEW u \in Topology PROVE RunInv(u)'
  <2>1. RunInv(u) /\ Of(u)' = Of(u) /\ (Undetected => Undetected')
    BY <1>0 DEF WholeInv, Of, Undetected
  <2> QED BY <1>0, <1>3, <2>1, RunKept
<1>5. \A u : BuildInv(p, u)'
  BY <1>1, <1>2, NoBuild
<1> QED BY <1>0, <1>1, <1>4, <1>5, WholeAgain DEF WholeInv, Exists

LEMMA EraseWhole ==
  ASSUME TInv, Alone, WholeInv, NEW p \in Thread, Erase(p)
  PROVE  WholeInv'
<1> PICK t : t = Topo(p)
  OBVIOUS
<1>0. /\ Busy(p) /\ job[p][1].op = "erase" /\ ContinueWith(p, Rest(p))
      /\ status' = [status EXCEPT ![t] = "nonexisted"]
      /\ spec' = spec \ {t}
      /\ instances' = [instances EXCEPT ![t] = NoInstances(t)]
      /\ UNCHANGED <<workers, up, detected>>
  BY DEF Erase, Doing, supVars, failVars
<1>1. t \in Topology /\ Ordered(p, job[p], 1)
      /\ \A u \in Topology : RunInv(u) /\ (Exists(u) => u \in spec)
  BY <1>0, WorkerFacts DEF WholeInv
<1>2. job'[p] = << >> /\ \A q \in Thread \ {p} : job'[q] = job[q]
  <2>1. Rest(p) = << >>
    BY <1>0, <1>1, JobFacts DEF TInv, Ordered
  <2> QED BY <1>0, <2>1, NextOp
<1>3. status'[t] = "nonexisted" /\ \A u \in Topology : u # t => status'[u] = status[u]
  BY <1>0, <1>1 DEF TInv, TableInv
<1>4. \A u \in Topology : u # t => instances'[u] = instances[u]
  BY <1>0, <1>1, NoInstancesType, InstancesTypes DEF TInv
<1>5. ASSUME NEW u \in Topology PROVE RunInv(u)'
  <2>1. CASE u = t
    BY <1>3, <2>1 DEF RunInv
  <2>2. CASE u # t
    <3>1. Of(u)' = Of(u) /\ (Undetected => Undetected')
      BY <1>0 DEF Of, Undetected
    <3>2. ASSUME Pending(u) PROVE Pending(u)'
      <4>1. job[p][1].op # "restart" /\ job[p][1].op # "stop"
        BY <1>0
      <4> QED BY <1>0, <3>2, <4>1, RestPending
    <3> QED BY <1>1, <1>3, <1>4, <2>2, <3>1, <3>2, RunKept
  <2> QED BY <2>1, <2>2
<1>6. \A u \in Topology : Exists(u)' => u \in spec'
  BY <1>0, <1>1, <1>3 DEF Exists
<1>7. ~Busy(p)'
  BY <1>2 DEF Busy
<1> QED BY <1>0, <1>2, <1>5, <1>6, <1>7, WholeAgain

\* The thread that restarts everything is to stop every topology there is.
LEMMA RestartAllWhole ==
  ASSUME TInv, Alone, WholeInv, NEW p \in Thread, RestartAll(p)
  PROVE  WholeInv'
<1> DEFINE T == {t \in Topology : Exists(t)}
<1>0. /\ Busy(p) /\ job[p][1].op = "restart"
      /\ UNCHANGED <<status, spec, instances, workers, up, detected>>
  BY DEF RestartAll, Doing, supVars, tableVars, failVars
<1>1. PICK ids \in Orders(T) : ContinueWith(p, RestartJob(ids))
  BY DEF RestartAll
<1>2. PICK ops : ops = RestartJob(ids)
  OBVIOUS
<1>3. /\ job'[p] = ops /\ at'[p] = "begin" /\ \A q \in Thread \ {p} : job'[q] = job[q]
  BY <1>1, <1>2 DEF ContinueWith, TInv, ThreadInv
<1>4. ASSUME NEW u \in T PROVE \E i \in DOMAIN ops : ops[i] = Op("stop", u)
  <2>1. PICK i \in DOMAIN ids : ids[i] = u
    BY DEF Orders
  <2> HIDE DEF T
  <2>2. /\ Cardinality(T) \in Nat /\ DOMAIN ids = 1 .. Cardinality(T)
        /\ DOMAIN ops = 1 .. 3 * Cardinality(T)
        /\ \A j \in 1 .. Cardinality(T) : ops[j] = Op("stop", ids[j])
    <3>1. T \in SUBSET Topology
      BY DEF T
    <3> QED BY <1>2, <3>1, RestartJobFacts
  <2>3. i \in DOMAIN ops
    BY <2>2
  <2> QED BY <2>1, <2>2, <2>3
<1>5. ASSUME NEW u \in Topology PROVE RunInv(u)'
  <2>1. status'[u] = "running" => u \in T
    BY <1>0 DEF Exists
  <2>2. u \in T => Pending(u)'
    BY <1>3, <1>4 DEF Pending
  <2> QED BY <2>1, <2>2 DEF RunInv
<1>6. ~Doing(p, "start")'
  <2>1. ops # << >> => ops[1].op = "stop"
    <3>1. \A i \in DOMAIN ops : i = 1 => ops[i].op = "stop"
      BY <1>2, RestartOrdered
    <3>2. ops \in Seq(Jobs)
      BY <1>2, RestartJobFacts
    <3> QED BY <3>1, <3>2
  <2> QED BY <1>3, <2>1 DEF Doing, Busy
<1>7. \A u : BuildInv(p, u)'
  BY <1>3, <1>6, NoBuild
<1> QED BY <1>0, <1>3, <1>5, <1>7, WholeAgain DEF WholeInv, Exists

-----------------------------------------------------------------------------
(* The calls *)

LEMMA DisjointUnion ==
  ASSUME NEW S, NEW T, IsFiniteSet(S), IsFiniteSet(T), S \cap T = {}
  PROVE  IsFiniteSet(S \cup T) /\ Cardinality(S \cup T) = Cardinality(S) + Cardinality(T)
<1>1. Cardinality(S \cap T) = 0 /\ Cardinality(S) \in Nat /\ Cardinality(T) \in Nat
  BY FS_EmptySet, FS_CardinalityType
<1>2. IsFiniteSet(S \cup T)
      /\ Cardinality(S \cup T) = Cardinality(S) + Cardinality(T) - Cardinality(S \cap T)
  BY FS_Union
<1> QED BY <1>1, <1>2

\* As many workers are added as the call asks for, and none of them was there.
LEMMA AddedCrew ==
  ASSUME TInv, NEW p \in Thread, NEW c \in calls[p], AddWorkers(p, c), NEW t, t = Topo(p),
         Exists(t)
  PROVE  \E new :
           /\ workers' = workers \cup new /\ new \cap workers = {}
           /\ IsFiniteSet(new) /\ Cardinality(new) = c.count
           /\ \A w \in new : w.topo = t /\ w.task = c.task /\ w.conns = {}
           /\ instances'[t][c.task] = instances[t][c.task] \cup {Address(w) : w \in new}
           /\ \A k \in Task(t) : k # c.task => instances'[t][k] = instances[t][k]
           /\ \A u \in Topology : u # t => instances'[u] = instances[u]
<1> DEFINE P == port[c.sup] .. port[c.sup] + c.count - 1
           W(n) == [sup |-> c.sup, port |-> n, topo |-> Topo(p), task |-> c.task,
                    state |-> "up", conns |-> {}, listed |-> TRUE]
           new == {W(n) : n \in P}
<1>0. Calling(p, "add", c)
  BY DEF AddWorkers
<1>1. /\ t \in Topology /\ c.sup \in Supervisor /\ c.count \in Nat
      /\ c.task \in Task(t) /\ port[c.sup] \in Nat
  BY <1>0, CallFacts DEF TInv, PortsInv
<1>2. {Address(w) : w \in new} = {c.sup} \X P /\ {c.sup} \X P \subseteq Place
  BY <1>0, NewPlaces
<1>3. /\ workers' = workers \cup new
      /\ instances' = [instances EXCEPT ![t][c.task] = @ \cup ({c.sup} \X P)]
  BY <1>2 DEF AddWorkers
<1>4. new \cap workers = {}
  <2>1. ASSUME NEW n \in P PROVE W(n) \notin workers
    <3>1. W(n).sup = c.sup /\ W(n).port = n
      OBVIOUS
    <3>2. n \in Nat /\ n >= port[c.sup]
      BY <1>1
    <3>3. \A w \in workers : w.sup = c.sup => w.port \in Nat /\ w.port < port[c.sup]
      BY DEF TInv, PortsInv, Worker
    <3> HIDE DEF W, P
    <3> QED BY <1>1, <3>1, <3>2, <3>3
  <2> HIDE DEF W, P
  <2> QED BY <2>1
<1>5. IsFiniteSet(new) /\ Cardinality(new) = c.count
  <2> DEFINE f == [n \in P |-> W(n)]
  <2>1. IsFiniteSet(P) /\ Cardinality(P) = c.count
    <3>1. port[c.sup] \in Int /\ port[c.sup] + c.count - 1 \in Int
      BY <1>1
    <3>2. /\ IsFiniteSet(P)
          /\ Cardinality(P) = IF port[c.sup] > port[c.sup] + c.count - 1 THEN 0
                              ELSE (port[c.sup] + c.count - 1) - port[c.sup] + 1
      BY ONLY <3>1, FS_Interval
    <3> HIDE DEF P
    <3> QED BY <1>1, <3>2
  <2>2. \A x, y \in P : f[x] = f[y] => x = y
    <3>1. \A x \in P : f[x].port = x
      OBVIOUS
    <3> HIDE DEF f, P
    <3> QED BY <3>1
  <2>3. new = {f[n] : n \in P}
    BY Zenon
  <2> HIDE DEF f, P, new
  <2> QED BY <2>1, <2>2, <2>3, SameCount
<1>6. \A w \in new : w.topo = t /\ w.task = c.task /\ w.conns = {}
  OBVIOUS
<1> HIDE DEF P
<1>7. /\ instances'[t][c.task] = instances[t][c.task] \cup ({c.sup} \X P)
      /\ \A k \in Task(t) : k # c.task => instances'[t][k] = instances[t][k]
      /\ \A u \in Topology : u # t => instances'[u] = instances[u]
  <2> DEFINE h == [instances[t] EXCEPT ![c.task] = @ \cup ({c.sup} \X P)]
  <2>1. h \in [Task(t) -> SUBSET Place] /\ instances' = [instances EXCEPT ![t] = h]
    BY <1>1, <1>2, <1>3, ExtendedInstances DEF TInv
  <2>2. /\ h[c.task] = instances[t][c.task] \cup ({c.sup} \X P)
        /\ \A k \in Task(t) : k # c.task => h[k] = instances[t][k]
    BY <1>1 DEF TInv, TableInv
  <2> HIDE DEF h
  <2>3. \A u \in Topology : instances'[u] = IF u = t THEN h ELSE instances[u]
    BY <1>1, <2>1, InstancesTypes DEF TInv
  <2> QED BY <1>1, <2>2, <2>3
<1> HIDE DEF new
<1> QED BY <1>2, <1>3, <1>4, <1>5, <1>6, <1>7

\* The instances that a call is for have workers once it is made.
LEMMA CallAssigned ==
  ASSUME NEW t \in Topology, NEW C \in SUBSET Calls, NEW c \in C,
         NEW g \in [DOMAIN Plan[t] -> Supervisor],
         \A d \in C : d.count = Cardinality(Given(g, t, d.task, d.sup)),
         NEW k
  PROVE  /\ IsFiniteSet(Placed(g, t, k, C)) /\ IsFiniteSet(Given(g, t, k, c.sup))
         /\ k # c.task => Placed(g, t, k, C \ {c}) = Placed(g, t, k, C)
         /\ k = c.task => /\ Placed(g, t, k, C \ {c}) = Placed(g, t, k, C) \cup Given(g, t, k, c.sup)
                          /\ Placed(g, t, k, C) \cap Given(g, t, k, c.sup) = {}
<1>1. \A d \in C : d.sup = c.sup /\ d.task = c.task => d = c
  BY DEF Calls
<1>2. IsFiniteSet(DOMAIN Plan[t])
  <2>1. Len(Plan[t]) \in Nat /\ DOMAIN Plan[t] = 1 .. Len(Plan[t])
    BY ClusterAssumption DEF ClusterAssumption
  <2>2. 1 \in Int /\ Len(Plan[t]) \in Int
    BY <2>1
  <2>3. IsFiniteSet(1 .. Len(Plan[t]))
    BY ONLY <2>2, FS_Interval
  <2> QED BY <2>1, <2>3
<1>3. IsFiniteSet(Placed(g, t, k, C)) /\ IsFiniteSet(Given(g, t, k, c.sup))
  <2>1. Placed(g, t, k, C) \subseteq DOMAIN Plan[t] /\ Given(g, t, k, c.sup) \subseteq DOMAIN Plan[t]
    BY DEF Placed, Given
  <2> QED BY <1>2, <2>1, FS_Subset
<1>4. k # c.task => Placed(g, t, k, C \ {c}) = Placed(g, t, k, C)
  BY DEF Placed
<1>5. ASSUME k = c.task
      PROVE  /\ Placed(g, t, k, C \ {c}) = Placed(g, t, k, C) \cup Given(g, t, k, c.sup)
             /\ Placed(g, t, k, C) \cap Given(g, t, k, c.sup) = {}
  BY <1>1, <1>5 DEF Placed, Given
<1> QED BY <1>3, <1>4, <1>5

LEMMA AddWorkersWhole ==
  ASSUME TInv, Alone, WholeInv, NEW p \in Thread, NEW c \in calls[p], AddWorkers(p, c)
  PROVE  WholeInv'
<1> PICK t : t = Topo(p)
  OBVIOUS
<1>0. Calling(p, "add", c) /\ UNCHANGED <<supervisors, config, up, detected>>
  BY DEF AddWorkers, Calling, failVars
<1>1. /\ Busy(p) /\ t \in Topology /\ at[p] = "add" /\ Doing(p, "prepare")
      /\ job[p][1].op # "restart" /\ calls'[p] = calls[p] \ {c}
      /\ LoopInv(p) /\ KnownInv /\ UNCHANGED <<status, spec, job, at>>
      /\ Topo(p)' = t /\ \A o : Doing(p, o)' = Doing(p, o)
  BY <1>0, CallStart
<1>2. t \in spec /\ Exists(t) /\ status[t] = "preparing"
  BY <1>1 DEF LoopInv, KnownInv
<1>3. c.task \in Task(t) /\ calls[p] \in SUBSET Calls /\ c \in Calls
  BY <1>0, CallFacts DEF TInv, ThreadInv
<1>4. PICK new :
        /\ workers' = workers \cup new /\ new \cap workers = {}
        /\ IsFiniteSet(new) /\ Cardinality(new) = c.count
        /\ \A w \in new : w.topo = t /\ w.task = c.task /\ w.conns = {}
        /\ instances'[t][c.task] = instances[t][c.task] \cup {Address(w) : w \in new}
        /\ \A k \in Task(t) : k # c.task => instances'[t][k] = instances[t][k]
        /\ \A u \in Topology : u # t => instances'[u] = instances[u]
  BY <1>2, AddedCrew
<1>5. /\ \A u \in Topology : u # t => Of(u)' = Of(u)
      /\ Of(t)' = Of(t) \cup new
      /\ Crew(t, c.task)' = Crew(t, c.task) \cup new
      /\ Crew(t, c.task) \cap new = {}
      /\ \A k : k # c.task => Crew(t, k)' = Crew(t, k)
  BY <1>4 DEF Of, Crew
<1>6. /\ \A u \in Topology : RunInv(u) /\ (Exists(u) => u \in spec)
      /\ BuildInv(p, t)
  BY <1>1, <1>2, BuildFacts DEF WholeInv
<1>7. ASSUME NEW u \in Topology PROVE RunInv(u)'
  <2>1. CASE u = t
    BY <1>1, <1>2, <2>1 DEF RunInv
  <2>2. CASE u # t
    <3>1. (Undetected => Undetected') /\ (Pending(u) => Pending(u)')
      BY <1>0, <1>1 DEF Undetected, Pending
    <3> QED BY <1>1, <1>4, <1>5, <1>6, <2>2, <3>1, RunKept
  <2> QED BY <2>1, <2>2
<1>8. BuildInv(p, t)'
  <2>1. /\ up \subseteq supervisors /\ DOMAIN config[p] = Parents(t)
        /\ \A w \in Of(t) : w.conns = {}
        /\ Undetected \/ (Known(t) /\ Assigned(t, calls[p]))
    BY <1>1, <1>6 DEF BuildInv
  <2>2. \A w \in Of(t)' : w.conns = {}
    BY <1>4, <1>5, <2>1
  <2>3. Undetected' = Undetected
    BY <1>0 DEF Undetected
  <2>4. ASSUME Known(t) PROVE Known(t)'
    <3>1. ASSUME NEW k \in Task(t)
          PROVE  instances'[t][k] = {Address(w) : w \in Crew(t, k)'}
      <4>1. CASE k = c.task
        BY <1>3, <1>4, <1>5, <2>4, <4>1 DEF Known
      <4>2. CASE k # c.task
        BY <1>4, <1>5, <2>4, <4>2 DEF Known
      <4> QED BY <4>1, <4>2
    <3> QED BY <3>1 DEF Known, Address
  <2>5. ASSUME Assigned(t, calls[p]) PROVE Assigned(t, calls[p])'
    <3> PICK C : C = calls[p]
      OBVIOUS
    <3>1. PICK g \in [DOMAIN Plan[t] -> Supervisor] :
            /\ \A d \in C : d.count = Cardinality(Given(g, t, d.task, d.sup))
            /\ \A k \in Task(t) : /\ IsFiniteSet(Crew(t, k))
                                  /\ Cardinality(Crew(t, k)) = Cardinality(Placed(g, t, k, C))
      BY <2>5 DEF Assigned
    <3>2. ASSUME NEW k \in Task(t)
          PROVE  /\ IsFiniteSet(Crew(t, k)')
                 /\ Cardinality(Crew(t, k)') = Cardinality(Placed(g, t, k, C \ {c}))
      <4>0. /\ IsFiniteSet(Placed(g, t, k, C)) /\ IsFiniteSet(Given(g, t, k, c.sup))
            /\ k # c.task => Placed(g, t, k, C \ {c}) = Placed(g, t, k, C)
            /\ k = c.task =>
                 /\ Placed(g, t, k, C \ {c}) = Placed(g, t, k, C) \cup Given(g, t, k, c.sup)
                 /\ Placed(g, t, k, C) \cap Given(g, t, k, c.sup) = {}
        <5>1. C \in SUBSET Calls /\ c \in C
          BY <1>3
        <5>2. \A d \in C : d.count = Cardinality(Given(g, t, d.task, d.sup))
          BY <3>1
        <5>3. t \in Topology
          BY <1>1
        <5> QED BY ONLY <5>1, <5>2, <5>3, CallAssigned, g \in [DOMAIN Plan[t] -> Supervisor], Zenon
      <4>1. CASE k # c.task
        BY <1>5, <3>1, <4>0, <4>1
      <4>2. CASE k = c.task
        <5>1. Cardinality(Placed(g, t, k, C \ {c})) =
                Cardinality(Placed(g, t, k, C)) + Cardinality(Given(g, t, k, c.sup))
          BY <4>0, <4>2, DisjointUnion
        <5>2. /\ IsFiniteSet(Crew(t, k) \cup new)
              /\ Cardinality(Crew(t, k) \cup new) = Cardinality(Crew(t, k)) + Cardinality(new)
          <6>1. IsFiniteSet(Crew(t, k)) /\ IsFiniteSet(new)
            BY <1>4, <3>1
          <6>2. Crew(t, k) \cap new = {}
            BY <1>5, <4>2
          <6> QED BY <6>1, <6>2, DisjointUnion
        <5>3. Cardinality(new) = Cardinality(Given(g, t, k, c.sup))
          BY <1>4, <3>1, <4>2
        <5> QED BY <1>5, <3>1, <4>2, <5>1, <5>2, <5>3
      <4> QED BY <4>1, <4>2
    <3>3. \A d \in calls'[p] : d.count = Cardinality(Given(g, t, d.task, d.sup))
      BY <1>1, <3>1
    <3> QED BY <1>1, <3>2, <3>3 DEF Assigned
  <2>6. ~Doing(p, "start")' /\ at'[p] = "add"
    BY <1>1 DEF Doing
  <2> QED BY <1>0, <2>1, <2>2, <2>3, <2>4, <2>5, <2>6 DEF BuildInv
<1>9. \A u \in spec' : Busy(p)' /\ Topo(p)' = u => BuildInv(p, u)'
  BY <1>1, <1>8
<1> QED BY <1>1, <1>6, <1>7, <1>9, WholeAgain DEF Exists

LEMMA SameRecord ==
  ASSUME NEW v \in Worker, NEW w \in Worker, Same(v, w), v.state = w.state, v.conns = w.conns
  PROVE  v = w
BY DEF Worker, Same

\* A CONFIG_CONNS call connects the workers of one supervisor to their children.
LEMMA ConfigureWorkersWhole ==
  ASSUME NamesApart, TInv, Alone, WholeInv, NEW p \in Thread, NEW c \in calls[p],
         ConfigureWorkers(p, c)
  PROVE  WholeInv'
<1> PICK t : t = Topo(p)
  OBVIOUS
<1>0. /\ Calling(p, "config", c)
      /\ UNCHANGED <<instances, supervisors, config, up, detected>>
  BY DEF ConfigureWorkers, Calling, failVars
<1>1. /\ Busy(p) /\ t \in Topology /\ at[p] = "config" /\ Doing(p, "prepare")
      /\ job[p][1].op = "prepare" /\ calls'[p] = calls[p] \ {c}
      /\ LoopInv(p) /\ KnownInv /\ UNCHANGED <<status, spec, job, at>>
      /\ Topo(p)' = t /\ \A o : Doing(p, o)' = Doing(p, o)
  BY <1>0, CallStart DEF Doing
<1>2. /\ \A u \in Topology : RunInv(u) /\ (Exists(u) => u \in spec)
      /\ t \in spec => BuildInv(p, t)
  BY <1>1, BuildFacts DEF WholeInv
<1>3. PICK g \in [workers -> Worker] :
        /\ workers' = {g[w] : w \in workers}
        /\ \A w \in workers : Same(g[w], w) /\ g[w].state = w.state
        /\ \A w \in workers :
             \/ g[w].conns = w.conns /\ (w \notin Addressed(p, c) \/ Gone(Addressed(p, c)))
             \/ /\ w \in Addressed(p, c)
                /\ \E k \in DOMAIN config[p] : /\ w \in Listed(c.sup, Topo(p), k)
                                               /\ g[w].conns = config[p][k]
  BY ConfiguredWorkers
<1>4. workers \subseteq Worker /\ ~Gone(Addressed(p, c))
  BY <1>1 DEF Gone, Addressed, Listed, KnownInv, TInv, PortsInv
<1>5. DOMAIN config[p] \subseteq Task(t)
  BY <1>1 DEF TInv, ThreadInv, PhaseInv
<1>6. \A k \in DOMAIN config[p] : \A w \in workers :
        w \in Listed(c.sup, t, k) <=> w.sup = c.sup /\ w.topo = t /\ w.task = k
  BY <1>1, <1>5, ListedAre DEF KnownInv
<1>7. ASSUME NEW u \in Topology, u # t PROVE Of(u)' = Of(u)
  <2>1. ASSUME NEW w \in Of(u) PROVE g[w] = w
    <3>1. w \in workers /\ w.topo = u
      BY DEF Of
    <3>2. w \notin Addressed(p, c)
      BY <1>6, <1>7, <3>1 DEF Addressed
    <3>3. g[w].conns = w.conns
      BY <1>3, <3>1, <3>2
    <3> QED BY <1>3, <1>4, <3>1, <3>3, SameRecord
  <2> QED BY <1>0, <1>3, <2>1, SameCrew
<1>8. ASSUME NEW u \in Topology PROVE RunInv(u)'
  <2>1. CASE u = t
    BY <1>1, <2>1 DEF RunInv, LoopInv, Exists
  <2>2. CASE u # t
    <3>1. (Undetected => Undetected') /\ (Pending(u) => Pending(u)')
      BY <1>0, <1>1 DEF Undetected, Pending
    <3> QED BY <1>0, <1>1, <1>2, <1>7, <2>2, <3>1, RunKept
  <2> QED BY <2>1, <2>2
<1>9. ASSUME t \in spec PROVE BuildInv(p, t)'
  <2>1. /\ config[p] = [k \in Parents(t) |-> Children(t, k)]
        /\ Undetected \/ (Known(t) /\ Manned(t))
        /\ \A w \in Of(t) :
             \/ w.conns = {} /\ [sup |-> w.sup, task |-> "all", count |-> 0] \in calls[p]
             \/ w.conns = Children(t, w.task)
    BY <1>1, <1>2, <1>9 DEF BuildInv
  <2>2. /\ Known(t) => Known(t)'
        /\ Manned(t) => Manned(t)'
        /\ \A v \in Of(t)' : \E w \in Of(t) : v = g[w]
        /\ \A k : Children(t, k)' = Children(t, k)
    BY <1>0, <1>1, <1>3, SameCrew
  <2>3. Undetected' = Undetected
    BY <1>0 DEF Undetected
  <2>4. config'[p] = [k \in Parents(t) |-> Children(t, k)']
    BY <1>0, <2>1, <2>2
  <2>5. ASSUME NEW v \in Of(t)'
        PROVE  \/ v.conns = {} /\ [sup |-> v.sup, task |-> "all", count |-> 0] \in calls'[p]
               \/ v.conns = Children(t, v.task)
    <3>1. PICK w \in Of(t) : v = g[w]
      BY <2>2
    <3>2. /\ w \in workers /\ w.topo = t /\ w.task \in Task(t)
          /\ v.sup = w.sup /\ v.task = w.task
      BY <1>3, <3>1 DEF Of, Same, TInv, PortsInv
    <3>3. CASE w \in Addressed(p, c)
      <4>1. PICK k \in DOMAIN config[p] :
                   w \in Listed(c.sup, Topo(p), k) /\ g[w].conns = config[p][k]
        BY <1>3, <1>4, <3>2, <3>3
      <4>2. k = w.task
        BY <1>6, <3>2, <4>1
      <4>3. config[p][k] = Children(t, k)
        BY <2>1, <4>1
      <4> QED BY <3>1, <3>2, <4>1, <4>2, <4>3
    <3>4. CASE w \notin Addressed(p, c)
      <4>1. v.conns = w.conns
        BY <1>3, <3>1, <3>2, <3>4
      <4>2. CASE w.sup = c.sup
        <5>1. w.task \notin DOMAIN config[p]
          BY <1>6, <3>2, <3>4, <4>2 DEF Addressed
        <5>2. Child[t][w.task] = {}
          BY <2>1, <3>2, <5>1 DEF Parents
        <5>3. Children(t, w.task) = {}
          BY <5>2 DEF Children
        <5> QED BY <2>1, <3>2, <4>1, <5>3
      <4>3. CASE w.sup # c.sup
        BY <1>1, <2>1, <3>2, <4>1, <4>3
      <4> QED BY <4>2, <4>3
    <3> QED BY <3>3, <3>4
  <2>6. ~Doing(p, "start")' /\ at'[p] = "config"
    BY <1>1 DEF Doing
  <2> QED BY <2>1, <2>2, <2>3, <2>4, <2>5, <2>6 DEF BuildInv, Parents
<1>10. \A u \in spec' : Busy(p)' /\ Topo(p)' = u => BuildInv(p, u)'
  BY <1>1, <1>9
<1> QED BY <1>1, <1>2, <1>8, <1>10, WholeAgain DEF Exists

\* START_WORKER makes the workers it reaches run, and the others are still owed one.
LEMMA StartWorkersWhole ==
  ASSUME NamesApart, TInv, Alone, WholeInv, NEW p \in Thread, NEW c \in calls[p],
         StartWorkers(p, c)
  PROVE  WholeInv'
<1> PICK t : t = Topo(p)
  OBVIOUS
<1> PICK W : W = Listed(c.sup, t, c.task)
  OBVIOUS
<1>0. /\ Calling(p, "start", c)
      /\ UNCHANGED <<instances, supervisors, config, up, detected>>
  BY DEF StartWorkers, Calling, failVars
<1>1. /\ Busy(p) /\ t \in Topology /\ at[p] = "start" /\ Doing(p, "start")
      /\ job[p][1].op = "start" /\ calls'[p] = calls[p] \ {c}
      /\ LoopInv(p) /\ KnownInv /\ UNCHANGED <<status, spec, job, at>>
      /\ Topo(p)' = t /\ \A o : Doing(p, o)' = Doing(p, o)
  BY <1>0, CallStart DEF Doing
<1>2. c.task \in Task(t) /\ c.count = 0
  <2>1. c.task \in Task(t)
    BY <1>0, CallFacts
  <2> QED BY <1>1, <2>1 DEF LoopInv
<1>3. /\ W \subseteq workers
      /\ \A w \in workers : w \in W <=> w.sup = c.sup /\ w.topo = t /\ w.task = c.task
  BY <1>1, <1>2, ListedAre DEF KnownInv
<1>4. /\ \A u \in Topology : RunInv(u) /\ (Exists(u) => u \in spec)
      /\ status[t] = "ready" /\ t \in spec
      /\ BuildInv(p, t)
  <2>1. status[t] = "ready"
    BY <1>1 DEF LoopInv
  <2>2. t \in spec
    BY <1>1, <2>1 DEF WholeInv, Exists
  <2> QED BY <1>1, <2>1, <2>2, BuildFacts DEF WholeInv
<1>5. PICK g \in [workers -> Worker] :
        /\ workers' = {g[w] : w \in workers}
        /\ \A w \in workers : Same(g[w], w) /\ g[w].conns = w.conns
        /\ \A w \in workers :
             g[w].state = IF w \in W THEN IF w.state = "up" THEN "running" ELSE "gone"
                          ELSE w.state
  BY StartedWorkers
<1>6. workers \subseteq Worker
  BY DEF TInv, PortsInv
<1>7. ASSUME NEW u \in Topology, u # t PROVE Of(u)' = Of(u)
  <2>1. ASSUME NEW w \in Of(u) PROVE g[w] = w
    <3>1. w \in workers /\ w \notin W
      BY <1>3, <1>7 DEF Of
    <3>2. g[w].state = w.state
      BY <1>5, <3>1
    <3> QED BY <1>5, <1>6, <3>1, <3>2, SameRecord
  <2> QED BY <1>0, <1>5, <2>1, SameCrew
<1>8. ASSUME NEW u \in Topology PROVE RunInv(u)'
  <2>1. CASE u = t
    BY <1>1, <1>4, <2>1 DEF RunInv
  <2>2. CASE u # t
    <3>1. (Undetected => Undetected') /\ (Pending(u) => Pending(u)')
      BY <1>0, <1>1 DEF Undetected, Pending
    <3> QED BY <1>0, <1>1, <1>4, <1>7, <2>2, <3>1, RunKept
  <2> QED BY <2>1, <2>2
<1>9. BuildInv(p, t)'
  <2>1. /\ Undetected \/ Built(t)
        /\ \A w \in Of(t) : Owed(p, w) \/ w.state = "running"
    BY <1>1, <1>4 DEF BuildInv
  <2>2. /\ Known(t) => Known(t)'
        /\ Manned(t) => Manned(t)'
        /\ \A v \in Of(t)' : \E w \in Of(t) : v = g[w]
        /\ \A k : Children(t, k)' = Children(t, k)
    BY <1>0, <1>1, <1>5, SameCrew
  <2>3. \A w \in Of(t) : /\ w \in workers /\ w.topo = t
                         /\ g[w].sup = w.sup /\ g[w].task = w.task /\ g[w].conns = w.conns
    BY <1>5 DEF Of, Same
  <2>4. Wired(t) => Wired(t)'
    BY <2>2, <2>3 DEF Wired
  <2>5. ASSUME NEW v \in Of(t)'
        PROVE  [sup |-> v.sup, task |-> v.task, count |-> 0] \in calls'[p] \/ v.state = "running"
    <3>1. PICK w \in Of(t) : v = g[w]
      BY <2>2
    <3>2. CASE w \in W
      <4>1. c = [sup |-> c.sup, task |-> c.task, count |-> 0]
        BY <1>0, <1>2, CallFacts DEF Calls
      <4>2. Owed(p, w)
        BY <1>3, <3>2, <4>1 DEF Owed
      <4>3. w.state = "up"
        BY <1>1, <4>2 DEF LoopInv
      <4> QED BY <1>5, <2>3, <3>1, <3>2, <4>3
    <3>3. CASE w \notin W
      <4>1. g[w].state = w.state /\ ~(w.sup = c.sup /\ w.task = c.task)
        BY <1>3, <1>5, <2>3, <3>3
      <4>2. Owed(p, w) => [sup |-> w.sup, task |-> w.task, count |-> 0] \in calls'[p]
        BY <1>1, <4>1 DEF Owed
      <4> QED BY <2>1, <2>3, <3>1, <4>1, <4>2
    <3> QED BY <3>2, <3>3
  <2>6. Undetected' = Undetected
    BY <1>0 DEF Undetected
  <2>7. at'[p] = "start"
    BY <1>1
  <2>8. Undetected' \/ Built(t)'
    BY <2>1, <2>2, <2>4, <2>6 DEF Built
  <2>9. \A v \in Of(t)' : Owed(p, v)' \/ v.state = "running"
    BY <2>5 DEF Owed
  <2> QED BY <2>7, <2>8, <2>9 DEF BuildInv
<1>10. \A u \in spec' : Busy(p)' /\ Topo(p)' = u => BuildInv(p, u)'
  BY <1>1, <1>9
<1> QED BY <1>1, <1>4, <1>8, <1>10, WholeAgain DEF Exists

LEMMA KillWorkersWhole ==
  ASSUME NamesApart, TInv, Alone, WholeInv, NEW p \in Thread, NEW c \in calls[p],
         KillWorkers(p, c)
  PROVE  WholeInv'
<1> PICK t : t = Topo(p)
  OBVIOUS
<1> PICK W : W = Listed(c.sup, t, c.task)
  OBVIOUS
<1>0. /\ Calling(p, "kill", c) /\ workers' = workers \ W
      /\ UNCHANGED <<instances, up, detected>>
  BY DEF KillWorkers, Calling, failVars
<1>1. /\ Busy(p) /\ t \in Topology /\ at[p] = "kill" /\ Doing(p, "stop")
      /\ job[p][1].op = "stop" /\ KnownInv /\ UNCHANGED <<status, spec, job, at>>
      /\ Topo(p)' = t /\ \A o : Doing(p, o)' = Doing(p, o)
  BY <1>0, CallStart DEF Doing
<1>2. c.task \in Task(t)
  BY <1>0, CallFacts
<1>3. W \subseteq workers /\ \A w \in W : w.topo = t
  BY <1>1, <1>2, ListedAre
<1>4. \A u \in Topology : RunInv(u) /\ (Exists(u) => u \in spec)
  BY DEF WholeInv
<1>5. ASSUME NEW u \in Topology PROVE RunInv(u)'
  <2>1. CASE u = t
    <3>1. 1 \in DOMAIN job[p] /\ job[p][1] \in Jobs
      BY <1>1, JobFacts DEF TInv
    <3>2. job[p][1] = Op("stop", t)
      BY <1>1, <3>1 DEF Op, Topo, Jobs
    <3>3. Pending(u)'
      BY <1>1, <2>1, <3>1, <3>2 DEF Pending
    <3> QED BY <3>3 DEF RunInv
  <2>2. CASE u # t
    <3>1. (Undetected => Undetected') /\ (Pending(u) => Pending(u)')
      BY <1>0, <1>1 DEF Undetected, Pending
    <3>2. Of(u)' = Of(u)
      BY <1>0, <1>3, <2>2 DEF Of
    <3> QED BY <1>0, <1>1, <1>4, <3>1, <3>2, RunKept
  <2> QED BY <2>1, <2>2
<1>6. \A u : BuildInv(p, u)'
  <2>1. at'[p] = "kill" /\ ~Doing(p, "start")'
    BY <1>1 DEF Doing
  <2> QED BY <2>1, NoBuild
<1> QED BY <1>1, <1>4, <1>5, <1>6, WholeAgain DEF Exists

-----------------------------------------------------------------------------
(* Clients and failures *)

\* A step of no thread that takes workers away, if any, with their supervisor.
LEMMA LessBuild ==
  ASSUME NEW p \in Thread, NEW u \in Topology, BuildInv(p, u),
         UNCHANGED <<job, at, calls, config, supervisors, instances>>, status'[u] = status[u],
         workers' \subseteq workers, up' \subseteq up,
         Undetected' \/ (UNCHANGED workers /\ (Undetected => Undetected'))
  PROVE  BuildInv(p, u)'
<1>1. /\ Of(u)' \subseteq Of(u) /\ \A k : Children(u, k)' = Children(u, k)
      /\ \A o : Doing(p, o)' = Doing(p, o)
  BY DEF Of, Children, Doing, Busy
<1>2. Undetected' \/ (Of(u)' = Of(u) /\ (Undetected => Undetected'))
  BY DEF Of
<1>3. ASSUME Undetected \/ Built(u) PROVE Undetected' \/ Built(u)'
  <2>1. CASE Undetected'
    BY <2>1
  <2>2. CASE ~Undetected'
    <3>1. Of(u)' = Of(u) /\ ~Undetected
      BY <1>2, <2>2
    <3> QED BY <1>3, <3>1, Kept
  <2> QED BY <2>1, <2>2
<1>4. at'[p] = "add" =>
        /\ up' \subseteq supervisors'
        /\ DOMAIN config'[p] = Parents(u)
        /\ \A w \in Of(u)' : w.conns = {}
        /\ Undetected' \/ (Known(u)' /\ Assigned(u, calls[p])')
  <2> SUFFICES ASSUME at[p] = "add"
               PROVE  /\ up' \subseteq supervisors'
                      /\ DOMAIN config'[p] = Parents(u)
                      /\ \A w \in Of(u)' : w.conns = {}
                      /\ Undetected' \/ (Known(u)' /\ Assigned(u, calls[p])')
    OBVIOUS
  <2>1. /\ up \subseteq supervisors /\ DOMAIN config[p] = Parents(u)
        /\ \A w \in Of(u) : w.conns = {}
        /\ Undetected \/ (Known(u) /\ Assigned(u, calls[p]))
    BY DEF BuildInv
  <2>2. CASE Undetected'
    BY <1>1, <2>1, <2>2
  <2>3. CASE ~Undetected'
    <3>1. Of(u)' = Of(u) /\ Known(u) /\ Assigned(u, calls[p])
      BY <1>2, <2>1, <2>3
    <3>2. Known(u)' /\ \A k : Crew(u, k)' = Crew(u, k)
      BY <3>1, Kept
    <3>3. Assigned(u, calls[p])'
      BY <3>1, <3>2 DEF Assigned
    <3> QED BY <1>1, <2>1, <3>2, <3>3
  <2> QED BY <2>2, <2>3
<1>5. at'[p] = "config" =>
        /\ config'[p] = [k \in Parents(u) |-> Children(u, k)']
        /\ Undetected' \/ (Known(u)' /\ Manned(u)')
        /\ \A w \in Of(u)' :
             \/ w.conns = {} /\ [sup |-> w.sup, task |-> "all", count |-> 0] \in calls'[p]
             \/ w.conns = Children(u, w.task)'
  <2> SUFFICES ASSUME at[p] = "config"
               PROVE  /\ config'[p] = [k \in Parents(u) |-> Children(u, k)']
                      /\ Undetected' \/ (Known(u)' /\ Manned(u)')
                      /\ \A w \in Of(u)' :
                           \/ w.conns = {} /\ [sup |-> w.sup, task |-> "all", count |-> 0] \in calls'[p]
                           \/ w.conns = Children(u, w.task)'
    OBVIOUS
  <2>1. /\ config[p] = [k \in Parents(u) |-> Children(u, k)]
        /\ Undetected \/ (Known(u) /\ Manned(u))
        /\ \A w \in Of(u) :
             \/ w.conns = {} /\ [sup |-> w.sup, task |-> "all", count |-> 0] \in calls[p]
             \/ w.conns = Children(u, w.task)
    BY DEF BuildInv
  <2>2. Undetected' \/ (Known(u)' /\ Manned(u)')
    <3>1. CASE Undetected'
      BY <3>1
    <3>2. CASE ~Undetected'
      BY <1>2, <2>1, <3>2, Kept
    <3> QED BY <3>1, <3>2
  <2>3. config'[p] = [k \in Parents(u) |-> Children(u, k)']
    BY <1>1, <2>1
  <2> QED BY <1>1, <2>1, <2>2, <2>3
<1>6. Doing(p, "start")' /\ status'[u] = "ready" =>
        /\ Undetected' \/ Built(u)'
        /\ at'[p] = "start" => \A w \in Of(u)' : Owed(p, w)' \/ w.state = "running"
  <2> SUFFICES ASSUME Doing(p, "start"), status[u] = "ready"
               PROVE  /\ Undetected' \/ Built(u)'
                      /\ at[p] = "start" => \A w \in Of(u)' : Owed(p, w)' \/ w.state = "running"
    BY <1>1
  <2>1. /\ Undetected \/ Built(u)
        /\ at[p] = "start" => \A w \in Of(u) : Owed(p, w) \/ w.state = "running"
    BY DEF BuildInv
  <2> QED BY <1>1, <1>3, <2>1 DEF Owed
<1> QED BY <1>4, <1>5, <1>6 DEF BuildInv, Parents

\* A thread gets a job while no other has one.
LEMMA NewJobWhole ==
  ASSUME TInv, WholeInv, Single', NEW p \in Thread, ~Busy(p), NEW ops, ops # << >>,
         ops[1].op # "start", job' = [job EXCEPT ![p] = ops], UNCHANGED <<status, spec, at>>,
         \A u \in Topology : RunInv(u)'
  PROVE  WholeInv'
<1>1. job'[p] = ops /\ at'[p] = "begin"
  BY DEF TInv, ThreadInv, PhaseInv, Doing
<1>2. Busy(p)' /\ ~Doing(p, "start")'
  BY <1>1 DEF Busy, Doing
<1>3. \A q \in Thread : Busy(q)' => q = p
  BY <1>2 DEF Single
<1>4. \A u : BuildInv(p, u)'
  BY <1>1, <1>2, NoBuild
<1> QED BY <1>3, <1>4 DEF WholeInv, Exists

LEMMA ServeWhole ==
  ASSUME TInv, WholeInv, Single', NEW ops, Serve(ops), ops # << >>, ops[1].op # "start",
         UNCHANGED <<status, spec>>
  PROVE  WholeInv'
<1>1. /\ ~Busy(Nimbus) /\ job' = [job EXCEPT ![Nimbus] = ops] /\ Nimbus \in Thread
      /\ UNCHANGED <<at, workers, instances, up, detected>>
  BY DEF Serve, supVars, failVars, Thread
<1>2. ASSUME NEW u \in Topology PROVE RunInv(u)'
  <2>1. Of(u)' = Of(u) /\ (Undetected => Undetected') /\ RunInv(u)
    BY <1>1 DEF Of, Undetected, WholeInv
  <2>2. Pending(u) => Pending(u)'
    <3> SUFFICES ASSUME NEW q \in Thread, NEW i \in DOMAIN job[q],
                        job[q][i].op = "restart" \/ job[q][i] = Op("stop", u)
                 PROVE  Pending(u)'
      BY DEF Pending
    <3>1. q # Nimbus
      BY <1>1 DEF Busy
    <3>2. job'[q] = job[q]
      BY <1>1, <3>1 DEF TInv, ThreadInv
    <3> QED BY <3>2 DEF Pending
  <2> QED BY <1>1, <2>1, <2>2, RunKept
<1> QED BY <1>1, <1>2, NewJobWhole

LEMMA ClientWhole ==
  ASSUME TInv, Alone, WholeInv, Single', ClientStep
  PROVE  WholeInv'
<1>1. ASSUME NEW t \in Topology, Submit(t) PROVE WholeInv'
  <2>0. /\ status[t] = "nonexisted" /\ status' = [status EXCEPT ![t] = "pending"]
        /\ spec' = spec \cup {t}
        /\ UNCHANGED <<at, calls, config, supervisors, instances, workers, up, detected>>
    BY <1>1 DEF Submit, Serve, supVars, failVars, Exists
  <2>1. UNCHANGED job
    <3>1. job[Nimbus] = << >> /\ job' = [job EXCEPT ![Nimbus] = << >>]
      BY <1>1 DEF Submit, Serve, Busy
    <3> QED BY <3>1 DEF TInv, ThreadInv
  <2>2. status'[t] = "pending" /\ \A u \in Topology : u # t => status'[u] = status[u]
    BY <2>0 DEF TInv, TableInv
  <2>3. /\ \A u : Of(u)' = Of(u) /\ Pending(u)' = Pending(u)
        /\ Undetected' = Undetected
        /\ \A q : Busy(q)' = Busy(q) /\ Topo(q)' = Topo(q) /\ \A o : Doing(q, o)' = Doing(q, o)
    BY <2>0, <2>1 DEF Of, Pending, Undetected, Busy, Topo, Doing
  <2>4. \A u \in Topology : Exists(u)' => u \in spec'
    BY <2>0, <2>2 DEF WholeInv, Exists
  <2>5. ASSUME NEW u \in Topology PROVE RunInv(u)'
    <3>1. CASE u = t
      BY <2>2, <3>1 DEF RunInv
    <3>2. CASE u # t
      BY <2>0, <2>2, <2>3, <3>2, RunKept DEF WholeInv
    <3> QED BY <3>1, <3>2
  <2>6. ASSUME NEW p \in Thread, NEW u \in spec', Busy(p), Topo(p) = u PROVE BuildInv(p, u)'
    <3>1. CASE job[p][1].op = "restart"
      <4>1. at[p] = "begin" /\ ~Doing(p, "start")
        BY <3>1 DEF TInv, ThreadInv, PhaseInv, Doing
      <4> QED BY <2>0, <2>3, <4>1, NoBuild
    <3>2. CASE job[p][1].op # "restart"
      <4>1. p # Nimbus
        BY <1>1, <2>6 DEF Submit, Serve
      <4>2. u \in Topology /\ Exists(u)
        BY <2>6, <3>2, <4>1, WorkerFacts DEF Standing, Topo
      <4>3. u # t /\ u \in spec
        BY <2>0, <4>2 DEF Exists
      <4>4. BuildInv(p, u)
        BY <2>6, <4>3 DEF WholeInv
      <4>5. status'[u] = status[u]
        BY <2>2, <4>2, <4>3
      <4> QED BY <2>0, <2>1, <2>3, <4>2, <4>4, <4>5, LessBuild
    <3> QED BY <3>1, <3>2
  <2> QED BY <2>3, <2>4, <2>5, <2>6 DEF WholeInv
<1>2. ASSUME NEW t \in Topology, Send(t) PROVE WholeInv'
  <2> PICK ops : ops = <<Op("compile", t), Op("prepare", t), Op("start", t)>>
    OBVIOUS
  <2>1. Serve(ops) /\ UNCHANGED <<status, spec>>
    BY <1>2 DEF Send
  <2>2. ops # << >> /\ ops[1] = Op("compile", t)
    OBVIOUS
  <2>3. ops[1].op # "start"
    BY <2>2 DEF Op
  <2> QED BY <2>1, <2>2, <2>3, ServeWhole
<1>3. ASSUME NEW t \in Topology, NEW c \in Request, Command(c, t) PROVE WholeInv'
  <2> PICK ops : ops = IF c = "start" THEN <<Op("prepare", t), Op("start", t)>> ELSE <<Op(c, t)>>
    OBVIOUS
  <2>1. Serve(ops) /\ UNCHANGED <<status, spec>>
    BY <1>3 DEF Command
  <2>2. ops # << >> /\ ops[1] = IF c = "start" THEN Op("prepare", t) ELSE Op(c, t)
    OBVIOUS
  <2>3. ops[1].op # "start"
    BY <2>2 DEF Op
  <2> QED BY <2>1, <2>2, <2>3, ServeWhole
<1> QED BY <1>1, <1>2, <1>3 DEF ClientStep

LEMMA FailureWhole ==
  ASSUME TInv, Alone, WholeInv, Single', NEW s \in Supervisor,
         Crash(s) \/ DetectFailure(s) \/ Forget(s)
  PROVE  WholeInv'
<1>1. CASE Crash(s)
  <2>0. /\ s \in up /\ up' = up \ {s} /\ workers' \subseteq workers
        /\ UNCHANGED <<status, spec, instances, job, at, calls, config, supervisors, detected>>
    BY <1>1 DEF Crash, tableVars, threadVars
  <2>1. Undetected'
    BY <2>0 DEF Undetected, TInv, MembersInv
  <2>2. \A u \in Topology : RunInv(u)'
    BY <2>1 DEF RunInv
  <2>3. ASSUME NEW p \in Thread, NEW u \in spec, Busy(p), Topo(p) = u PROVE BuildInv(p, u)'
    <3>1. BuildInv(p, u) /\ u \in Topology
      BY <2>3 DEF WholeInv, TInv, TableInv
    <3> QED BY <2>0, <2>1, <3>1, LessBuild
  <2>4. \A q : Busy(q)' = Busy(q) /\ Topo(q)' = Topo(q)
    BY <2>0 DEF Busy, Topo
  <2> QED BY <2>0, <2>2, <2>3, <2>4 DEF WholeInv, Exists
<1>2. CASE DetectFailure(s)
  <2> PICK p : p = Cardinality(detected) + 1
    OBVIOUS
  <2>1. p \in Thread /\ ~Busy(p)
    BY <1>2, FreshThread DEF TInv
  <2> PICK ops : ops = <<Op("restart", "all")>>
    OBVIOUS
  <2>2. job' = [job EXCEPT ![p] = ops] /\ UNCHANGED <<status, spec, at>>
    BY <1>2 DEF DetectFailure, tableVars
  <2>3. ops # << >> /\ ops[1].op = "restart" /\ 1 \in DOMAIN ops
    BY DEF Op
  <2>4. job'[p] = ops
    BY <2>1, <2>2 DEF TInv, ThreadInv
  <2>5. \A u \in Topology : RunInv(u)'
    BY <2>1, <2>3, <2>4 DEF RunInv, Pending
  <2> QED BY <2>1, <2>2, <2>3, <2>5, NewJobWhole
<1>3. CASE Forget(s)
  <2>0. UNCHANGED <<status, spec, instances, job, at, calls, config, supervisors, workers,
                    up, detected>>
    BY <1>3 DEF Forget, tableVars, threadVars, supVars
  <2>1. /\ \A u : Of(u)' = Of(u) /\ Pending(u)' = Pending(u)
        /\ Undetected' = Undetected
        /\ \A q : Busy(q)' = Busy(q) /\ Topo(q)' = Topo(q)
    BY <2>0 DEF Of, Pending, Undetected, Busy, Topo
  <2>2. \A u \in Topology : RunInv(u)'
    BY <2>0, <2>1, RunKept DEF WholeInv
  <2>3. ASSUME NEW p \in Thread, NEW u \in spec, Busy(p), Topo(p) = u PROVE BuildInv(p, u)'
    <3>1. BuildInv(p, u) /\ u \in Topology
      BY <2>3 DEF WholeInv, TInv, TableInv
    <3> QED BY <2>0, <2>1, <3>1, LessBuild
  <2> QED BY <2>0, <2>1, <2>2, <2>3 DEF WholeInv, Exists
<1> QED BY <1>1, <1>2, <1>3

-----------------------------------------------------------------------------
(* The invariant holds *)

LEMMA WholeInit == Init => WInv
<1> SUFFICES ASSUME Init PROVE WInv
  OBVIOUS
<1>1. IInv /\ Alone
  BY AloneInit DEF Init, IInv
<1>2. /\ \A t \in Topology : status[t] = "nonexisted"
      /\ \A p \in Thread : ~Busy(p)
  BY DEF Init, Busy
<1>3. WholeInv
  BY <1>2 DEF WholeInv, RunInv, Exists
<1> QED BY <1>1, <1>3 DEF WInv

LEMMA ThreadWhole ==
  ASSUME NamesApart, TInv, Alone, WholeInv, NEW p \in Thread, ThreadStep(p)
  PROVE  WholeInv'
<1>1. CASE Operation(p)
  BY <1>1, CompileWhole, BeginPrepareWhole, BeginConfigureWhole, EndPrepareWhole, BeginStartWhole,
     EndStartWhole, BeginStopWhole, EndStopWhole, KillWhole, EraseWhole, RestartAllWhole
     DEF Operation
<1>2. CASE CallStep(p)
  BY <1>2, AddWorkersWhole, ConfigureWorkersWhole, StartWorkersWhole, KillWorkersWhole DEF CallStep
<1> QED BY <1>1, <1>2 DEF ThreadStep

LEMMA WholeStep == NamesApart /\ WInv /\ [Next]_vars => WInv'
<1> SUFFICES ASSUME NamesApart, WInv, [Next]_vars PROVE WInv'
  OBVIOUS
<1>1. TInv /\ IInv /\ IInv'
  BY AloneStep DEF WInv, IInv
<1>2. ASSUME ~clash' PROVE WholeInv'
  <2>1. CASE UNCHANGED vars
    <3>1. Alone /\ WholeInv
      BY <1>2, <2>1 DEF WInv, vars
    <3>2. UNCHANGED <<status, spec, instances, job, at, calls, config, supervisors, workers,
                      up, detected>>
      BY <2>1 DEF vars, tableVars, threadVars, supVars, failVars
    <3>3. /\ \A u : Of(u)' = Of(u) /\ Pending(u)' = Pending(u)
          /\ Undetected' = Undetected
          /\ \A q : Busy(q)' = Busy(q) /\ Topo(q)' = Topo(q)
      BY <3>2 DEF Of, Pending, Undetected, Busy, Topo
    <3>4. \A u \in Topology : RunInv(u)'
      BY <3>1, <3>2, <3>3, RunKept DEF WholeInv
    <3>5. ASSUME NEW p \in Thread, NEW u \in spec, Busy(p), Topo(p) = u PROVE BuildInv(p, u)'
      <4>1. BuildInv(p, u) /\ u \in Topology
        BY <1>1, <3>1, <3>5 DEF WholeInv, TInv, TableInv
      <4> QED BY <3>2, <3>3, <4>1, LessBuild
    <3> QED BY <3>1, <3>2, <3>3, <3>4, <3>5 DEF WholeInv, Exists
  <2>2. CASE Next
    <3>1. Alone /\ WholeInv /\ Single'
      BY <1>2, <2>2, NoClash DEF Next, WInv
    <3>2. CASE ClientStep
      BY <1>1, <3>1, <3>2, ClientWhole
    <3>3. ASSUME NEW p \in Thread, ThreadStep(p) PROVE WholeInv'
      BY <1>1, <3>1, <3>3, ThreadWhole
    <3>4. CASE FailureStep
      BY <1>1, <3>1, <3>4, FailureWhole DEF FailureStep
    <3> QED BY <2>2, <3>2, <3>3, <3>4 DEF Next
  <2> QED BY <2>1, <2>2
<1> QED BY <1>1, <1>2 DEF WInv, IInv

LEMMA WholeWhenQuiet == WInv => RunningIsWhole
<1> SUFFICES ASSUME WInv, ~clash, Quiet, NEW t \in Topology, status[t] = "running" PROVE Whole(t)
  BY DEF RunningIsWhole
<1>1. Alone /\ RunInv(t)
  BY DEF WInv, WholeInv
<1>2. ~Undetected
  BY DEF Quiet, Undetected
<1>3. ~Pending(t)
  <2>1. \A p \in Thread : job[p] = << >>
    BY DEF Quiet, Busy
  <2>2. \A p \in Thread : DOMAIN job[p] = {}
    BY <2>1
  <2> QED BY <2>2 DEF Pending
<1>4. Built(t) /\ \A w \in Of(t) : w.state = "running"
  BY <1>1, <1>2, <1>3 DEF RunInv
<1>5. \A k : Live(t, k) = Crew(t, k) /\ Crew(t, k) \subseteq Of(t)
  BY <1>4 DEF Live, Crew, Of
<1>6. ASSUME NEW k \in Task(t), NEW w \in Live(t, k)
      PROVE  /\ w.state = "running" /\ w.listed
             /\ w.conns = UNION {instances[t][c] : c \in Child[t][k]}
  <2>1. w \in Of(t) /\ w.task = k /\ w \in workers
    BY <1>5, <1>6 DEF Crew, Of
  <2>2. w.conns = Children(t, k)
    BY <1>4, <2>1 DEF Built, Wired
  <2> QED BY <1>1, <1>4, <2>1, <2>2 DEF Children, Alone, KnownInv
<1>7. \A k \in Task(t) : /\ Cardinality(Live(t, k)) = Asked(t, k)
                         /\ instances[t][k] = {Address(w) : w \in Live(t, k)}
  BY <1>4, <1>5 DEF Built, Manned, Known
<1> QED BY <1>6, <1>7 DEF Whole

\* When all is quiet a topology that is shown as running has as many workers of every
\* task as were asked for, all of them run, Nimbus knows them all, and each sends to
\* exactly the workers of its children: whatever submissions, stops, kills and failures
\* went before, as long as no two threads worked at once and nothing that was prepared
\* was prepared again.
THEOREM RunningAreWhole == NamesApart => (Spec => []RunningIsWhole)
<1> SUFFICES ASSUME NamesApart PROVE Spec => []RunningIsWhole
  OBVIOUS
<1>1. Init => WInv
  BY WholeInit
<1>2. WInv /\ [Next]_vars => WInv'
  BY WholeStep
<1>3. WInv => RunningIsWhole
  BY WholeWhenQuiet
<1> QED BY <1>1, <1>2, <1>3, PTL DEF Spec
=============================================================================
