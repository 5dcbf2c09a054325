------------------------------ MODULE Cluster ------------------------------
(***************************************************************************)
(* Nimbus, the supervisors and their worker processes                      *)
(* (daemon/src/nimbus, daemon/src/supervisor, message/CraneMessageHandler, *)
(* and the control side of worker/Worker.cpp).                             *)
(*                                                                         *)
(* The Nimbus thread serves one client request after the other.  Every     *)
(* node that fails starts one more thread that stops all topologies, waits *)
(* ten seconds, and prepares and starts them again.  All these threads     *)
(* work on the same topology table without a lock, and call supervisors    *)
(* over REQ sockets that wait for ever; a supervisor calls its workers in  *)
(* the same way.                                                           *)
(*                                                                         *)
(* A thread is a queue of operations (job) with the calls that the loop it *)
(* is in has left (calls).  A call, with what the supervisor and its       *)
(* workers do in it, is one step: the supervisor serves one at a time.     *)
(* Left out: how libraries are compiled, stored and fetched (DFile), and   *)
(* the tuples that flow between workers.                                   *)
(***************************************************************************)
EXTENDS Integers, Sequences, FiniteSets

CONSTANTS
  Supervisor,   \* ids of the nodes other than Nimbus's own, in their order
  Topology,     \* names of topologies
  Plan,         \* Plan[t]: the task of every instance the specification asks
                \*   for, spouts first, a bolt as often as its paralevel
  WorkerId,     \* WorkerId[t][k]: createWorkerId, the names of t and k joined
  Child,        \* Child[t][k]: the tasks that name k as a parent
  Request,      \* the commands clients use, a subset of {"start","stop","kill"}
  MaxRequests,  \* bound on the requests that Nimbus serves
  MaxFailures,  \* bound on the supervisors that crash
  EraseFirst    \* is a failed node erased before the thread it starts runs?

NoSup == 0
Nimbus == 0
Restart == 1..MaxFailures
Thread == {Nimbus} \cup Restart
Task(t) == {Plan[t][i] : i \in DOMAIN Plan[t]}

ASSUME ClusterAssumption ==
  /\ Supervisor \subseteq Nat \ {NoSup} /\ IsFiniteSet(Supervisor)
  /\ MaxFailures \in Nat /\ MaxFailures < Cardinality(Supervisor)
  /\ MaxRequests \in Nat
  /\ Request \subseteq {"start", "stop", "kill"}
  /\ EraseFirst \in BOOLEAN
  /\ IsFiniteSet(Topology)
  /\ \A t \in Topology : /\ Plan[t] \in Seq(Task(t))
                          /\ Child[t] \in [Task(t) -> SUBSET Task(t)]

VARIABLES
  \* Nimbus
  status,     \* topoStats[t].status, "nonexisted" when there is no entry
  spec,       \* topologies whose entry holds a specification
  instances,  \* topoStats[t].taskInstances
  supervisors,\* the vector that all threads refill and iterate over
  executor,   \* nextExecutor's static variable
  members,    \* the membership list without Nimbus's own node
  job,        \* job[p]: operations thread p has to do, the current one first
  at,         \* at[p]: the part of the current operation p is in
  calls,      \* calls[p]: calls the loop p is in has not made yet
  config,     \* config[p]: the addresses of the ConfigureConnections request
  owed,       \* topologies that were approved and whose code is to be sent
  requests,   \* number of requests served
  \* supervisors
  up,         \* supervisors that have not crashed
  stuck,      \* supervisors whose command thread waits for ever
  detected,   \* failed supervisors that were reported by a NodeFailEvent
  port,       \* nextAvailableWorkerPort
  workers,    \* the workers: their place, state and connections
  \* history
  clash       \* did two threads work at once, or was a topology prepared twice?

threadVars == <<job, at, calls, config>>
tableVars == <<status, spec, instances>>
clientVars == <<owed, requests>>
failVars == <<members, up, detected>>
supVars == <<stuck, port, workers>>
vars == <<tableVars, supervisors, executor, threadVars, clientVars, failVars,
          supVars, clash>>

Exists(t) == status[t] # "nonexisted"
NoInstances(t) == [k \in Task(t) |-> {}]
Address(w) == <<w.sup, w.port>>
\* The tasks an operation works on: none when the entry holds no specification.
Named(t) == IF t \in spec THEN Task(t) ELSE {}
Op(op, t) == [op |-> op, topo |-> t]

Busy(p) == job[p] # << >>
Doing(p, op) == Busy(p) /\ job[p][1].op = op
Topo(p) == job[p][1].topo

-----------------------------------------------------------------------------
(* Scheduling *)

\* The place of an id among the others, and the id at a place, both from 0.
Rank(s, S) == Cardinality({x \in S : x < s})
Nth(S, i) == CHOOSE s \in S : Rank(s, S) = i

\* nextExecutor: the place in the vector that is next, whatever has become of
\* the supervisor that was chosen last; place 0 when there was none.
NextPlace(S) ==
  IF executor = NoSup THEN 0
  ELSE IF executor \in S THEN Rank(executor, S) + 1 ELSE Cardinality(S) + 1

\* The supervisor that gets the i-th instance: round robin over the vector.
Executor(S, i) == Nth(S, (NextPlace(S) + i - 1) % Cardinality(S))

\* The instances of task k that supervisor s gets.
Share(t, S, s, k) == {i \in DOMAIN Plan[t] : Plan[t][i] = k /\ Executor(S, i) = s}

\* One ADD_WORKER call for every supervisor and task it gets instances of.
AddCalls(t, S) ==
  {c \in [sup : S, task : Named(t), count : 1..Len(Plan[t])] :
     c.count = Cardinality(Share(t, S, c.sup, c.task))}

\* START_WORKER and KILL_WORKER go to every supervisor for every task.
TaskCalls(t, S) == [sup : S, task : Named(t), count : {0}]
\* CONFIG_CONNS goes once to every supervisor.
ConfigCalls(S) == [sup : S, task : {"all"}, count : {0}]

-----------------------------------------------------------------------------
Init ==
  /\ status = [t \in Topology |-> "nonexisted"]
  /\ spec = {}
  /\ instances = [t \in Topology |-> NoInstances(t)]
  /\ supervisors = {}
  /\ executor = NoSup
  /\ members = Supervisor
  /\ job = [p \in Thread |-> << >>]
  /\ at = [p \in Thread |-> "begin"]
  /\ calls = [p \in Thread |-> {}]
  /\ config = [p \in Thread |-> << >>]
  /\ owed = {}
  /\ requests = 0
  /\ up = Supervisor
  /\ stuck = {}
  /\ detected = {}
  /\ port = [s \in Supervisor |-> 0]
  /\ workers = {}
  /\ clash = FALSE

-----------------------------------------------------------------------------
(* Requests of clients, served by the Nimbus thread.  Each is answered      *)
(* before its work is done; one that is refused changes nothing.            *)

Serve(ops) ==
  /\ ~Busy(Nimbus)
  /\ requests < MaxRequests
  /\ requests' = requests + 1
  /\ job' = [job EXCEPT ![Nimbus] = ops]
  /\ UNCHANGED <<instances, supervisors, executor, at, calls, config, failVars, supVars>>

\* process(CraneClientSubmitRequestPointer), approved.
Submit(t) ==
  /\ ~Exists(t)
  /\ status' = [status EXCEPT ![t] = "pending"]
  /\ spec' = spec \cup {t}
  /\ owed' = owed \cup {t}
  /\ Serve(<< >>)

\* process(CraneClientSendRequestPointer): the code of an approved topology
\* arrives; the topology may have been killed since.
Send(t) ==
  /\ t \in owed
  /\ owed' = owed \ {t}
  /\ UNCHANGED <<status, spec>>
  /\ Serve(<<Op("compile", t), Op("prepare", t), Op("start", t)>>)

\* process(CraneClient{Start,Stop,Kill}RequestPointer).
Command(c, t) ==
  /\ Exists(t)
  /\ UNCHANGED <<status, spec, owed>>
  /\ Serve(IF c = "start" THEN <<Op("prepare", t), Op("start", t)>>
           ELSE <<Op(c, t)>>)

-----------------------------------------------------------------------------
(* Operations of a thread *)

\* The operation is over; the thread goes on with ops.
ContinueWith(p, ops) ==
  /\ job' = [job EXCEPT ![p] = ops]
  /\ at' = [at EXCEPT ![p] = "begin"]
  /\ calls' = [calls EXCEPT ![p] = {}]
  /\ config' = [config EXCEPT ![p] = << >>]

Rest(p) == Tail(job[p])

\* setTopoStatus: nothing for a topology that does not exist.
SetStatus(t, v) ==
  status' = IF Exists(t) THEN [status EXCEPT ![t] = v] ELSE status

\* The thread enters the loop that makes the given calls.
EnterLoop(p, part, todo) ==
  /\ at' = [at EXCEPT ![p] = part]
  /\ calls' = [calls EXCEPT ![p] = todo]

\* compileTopology
Compile(p) ==
  /\ Doing(p, "compile")
  /\ SetStatus(Topo(p), "idle")
  /\ ContinueWith(p, Rest(p))
  /\ UNCHANGED <<spec, instances, supervisors, executor, clientVars, failVars, supVars>>

\* prepareTopology up to the first call: updateSupervisors and the assignment.
BeginPrepare(p) ==
  /\ Doing(p, "prepare") /\ at[p] = "begin"
  /\ LET t == Topo(p) IN
     /\ SetStatus(t, "preparing")
     /\ EnterLoop(p, "add", AddCalls(t, members))
     /\ executor' = IF Named(t) = {} THEN executor
                     ELSE Executor(members, Len(Plan[t]))
     /\ config' = [config EXCEPT ![p] =
                     [k \in {n \in Named(t) : Child[t][n] # {}} |-> {}]]
  /\ supervisors' = members
  /\ UNCHANGED <<spec, instances, job, clientVars, failVars, supVars>>

\* prepareTopology once all workers are there: the request that tells every
\* parent the addresses of its children goes to the supervisors of the shared
\* vector, which another thread may have refilled.
BeginConfigure(p) ==
  /\ Doing(p, "prepare") /\ at[p] = "add" /\ calls[p] = {}
  /\ LET t == Topo(p) IN
     config' = [config EXCEPT ![p] =
                  [k \in DOMAIN @ |-> UNION {instances[t][c] : c \in Child[t][k]}]]
  /\ EnterLoop(p, "config", ConfigCalls(supervisors))
  /\ UNCHANGED <<tableVars, supervisors, executor, job, clientVars, failVars, supVars>>

\* The end of prepareTopology.
EndPrepare(p) ==
  /\ Doing(p, "prepare") /\ at[p] = "config" /\ calls[p] = {}
  /\ SetStatus(Topo(p), "ready")
  /\ ContinueWith(p, Rest(p))
  /\ UNCHANGED <<spec, instances, supervisors, executor, clientVars, failVars, supVars>>

\* startTopology: only a ready topology is started.
BeginStart(p) ==
  /\ Doing(p, "start") /\ at[p] = "begin"
  /\ IF status[Topo(p)] = "ready"
     THEN /\ supervisors' = members
          /\ EnterLoop(p, "start", TaskCalls(Topo(p), members))
          /\ UNCHANGED <<job, config>>
     ELSE /\ ContinueWith(p, Rest(p))
          /\ UNCHANGED supervisors
  /\ UNCHANGED <<tableVars, executor, clientVars, failVars, supVars>>

EndStart(p) ==
  /\ Doing(p, "start") /\ at[p] = "start" /\ calls[p] = {}
  /\ SetStatus(Topo(p), "running")
  /\ ContinueWith(p, Rest(p))
  /\ UNCHANGED <<spec, instances, supervisors, executor, clientVars, failVars, supVars>>

\* stopTopology: a topology that is not running is stopped all the same.
BeginStop(p) ==
  /\ Doing(p, "stop") /\ at[p] = "begin"
  /\ supervisors' = members
  /\ EnterLoop(p, "kill", TaskCalls(Topo(p), members))
  /\ UNCHANGED <<tableVars, executor, job, config, clientVars, failVars, supVars>>

\* The end of stopTopology: topoStats[topoid] makes an entry where there is none.
EndStop(p) ==
  /\ Doing(p, "stop") /\ at[p] = "kill" /\ calls[p] = {}
  /\ LET t == Topo(p) IN
     /\ status' = [status EXCEPT ![t] = IF Exists(t) THEN "idle" ELSE "empty"]
     /\ instances' = [instances EXCEPT ![t] = NoInstances(t)]
  /\ ContinueWith(p, Rest(p))
  /\ UNCHANGED <<spec, supervisors, executor, clientVars, failVars, supVars>>

\* Mutant: a running topology is erased like any other.
KillUnstopped(p) ==
  /\ Doing(p, "kill")
  /\ ContinueWith(p, IF Exists(Topo(p)) THEN <<Op("erase", Topo(p))>> \o Rest(p)
                     ELSE Rest(p))
  /\ UNCHANGED <<tableVars, supervisors, executor, clientVars, failVars, supVars>>

\* Mutant: the entry is erased before the topology is stopped.
KillErasedFirst(p) ==
  /\ Doing(p, "kill")
  /\ LET t == Topo(p) IN
     ContinueWith(p, IF ~Exists(t) THEN Rest(p)
                     ELSE IF status[t] = "running"
                     THEN <<Op("erase", t), Op("stop", t)>> \o Rest(p)
                     ELSE <<Op("erase", t)>> \o Rest(p))
  /\ UNCHANGED <<tableVars, supervisors, executor, clientVars, failVars, supVars>>

\* killTopology: a running topology is stopped first.
Kill(p) ==
  /\ Doing(p, "kill")
  /\ LET t == Topo(p) IN
     ContinueWith(p, IF ~Exists(t) THEN Rest(p)
                     ELSE IF status[t] = "running"
                     THEN <<Op("stop", t), Op("erase", t)>> \o Rest(p)
                     ELSE <<Op("erase", t)>> \o Rest(p))
  /\ UNCHANGED <<tableVars, supervisors, executor, clientVars, failVars, supVars>>

Erase(p) ==
  /\ Doing(p, "erase")
  /\ LET t == Topo(p) IN
     /\ status' = [status EXCEPT ![t] = "nonexisted"]
     /\ spec' = spec \ {t}
     /\ instances' = [instances EXCEPT ![t] = NoInstances(t)]
  /\ ContinueWith(p, Rest(p))
  /\ UNCHANGED <<supervisors, executor, clientVars, failVars, supVars>>

-----------------------------------------------------------------------------
(* Calls: the request, what the supervisor does, and its reply.  A call to  *)
(* a supervisor that crashed or is stuck is never answered.                 *)

\* Thread p makes its next call in the given part of an operation:
\* supervisors in their order.
Calling(p, part, c) ==
  /\ at[p] = part
  /\ c \in calls[p] /\ \A d \in calls[p] : c.sup <= d.sup
  /\ c.sup \in up \ stuck
  /\ calls' = [calls EXCEPT ![p] = @ \ {c}]
  /\ UNCHANGED <<status, spec, supervisors, executor, job, at, config, clientVars, failVars>>

\* workersMap[createWorkerId(topoId, name)] of the called supervisor
Listed(s, t, k) ==
  {w \in workers : w.sup = s /\ w.listed /\ WorkerId[w.topo][w.task] = WorkerId[t][k]}
With(W, f(_)) == (workers \ W) \cup {f(w) : w \in W}

\* A worker's process that has ended never answers its wrapper.
Gone(W) == \E w \in W : w.state = "gone"

\* The worker closes its connections and opens the given ones.
Reconnected(w, addresses) == [w EXCEPT !.conns = addresses]

\* startProcessing; a second time, the data port is bound already and the
\* exception ends the process.
Started(w) == [w EXCEPT !.state = IF @ = "up" THEN "running" ELSE "gone"]

\* Mutant: nextAvailableWorkerPort is not advanced.
AddWorkersSamePort(p, c) ==
  /\ Calling(p, "add", c)
  /\ workers' = workers \cup
       {[sup |-> c.sup, port |-> port[c.sup], topo |-> Topo(p), task |-> c.task,
         state |-> "up", conns |-> {}, listed |-> TRUE]}
  /\ instances' = IF Exists(Topo(p))
                  THEN [instances EXCEPT ![Topo(p)][c.task] = @ \cup {<<c.sup, port[c.sup]>>}]
                  ELSE instances
  /\ UNCHANGED <<stuck, port>>

\* addWorker, and the reply: addTopoTaskInstance for every port.
AddWorkers(p, c) ==
  /\ Calling(p, "add", c)
  /\ LET t == Topo(p)
         new == {[sup |-> c.sup, port |-> n, topo |-> t, task |-> c.task,
                  state |-> "up", conns |-> {}, listed |-> TRUE] :
                   n \in port[c.sup] .. port[c.sup] + c.count - 1}
     IN  /\ workers' = workers \cup new
         /\ instances' = IF Exists(t)
                         THEN [instances EXCEPT ![t][c.task] = @ \cup {Address(w) : w \in new}]
                         ELSE instances
  /\ port' = [port EXCEPT ![c.sup] = @ + c.count]
  /\ UNCHANGED stuck

\* configureConnections on every listed worker of the topology; one that is
\* gone never answers.
ConfigureWorkers(p, c) ==
  /\ Calling(p, "config", c)
  /\ LET W == UNION {Listed(c.sup, Topo(p), k) : k \in DOMAIN config[p]}
         Entry(w) == CHOOSE k \in DOMAIN config[p] : w \in Listed(c.sup, Topo(p), k)
         Configured(w) == Reconnected(w, config[p][Entry(w)])
     IN  IF Gone(W)
         THEN /\ stuck' = stuck \cup {c.sup}
              /\ UNCHANGED workers
         ELSE /\ workers' = With(W, Configured)
              /\ UNCHANGED stuck
  /\ UNCHANGED <<instances, port>>

\* startWorker on the listed workers of a task; one that runs already ends before
\* or after it has answered.
StartWorkers(p, c) ==
  /\ Calling(p, "start", c)
  /\ LET W == Listed(c.sup, Topo(p), c.task)
     IN  \/ /\ ~Gone(W)
            /\ workers' = With(W, Started)
            /\ UNCHANGED stuck
         \/ /\ \E w \in W : w.state # "up"
            /\ workers' = With(W, Started)
            /\ stuck' = stuck \cup {c.sup}
  /\ UNCHANGED <<instances, port>>

\* Mutant: the wrappers are dropped from the map before they are told to end.
KillWorkersUnlisted(p, c) ==
  /\ Calling(p, "kill", c)
  /\ LET Unlisted(w) == [w EXCEPT !.listed = FALSE]
     IN  workers' = With(Listed(c.sup, Topo(p), c.task), Unlisted)
  /\ UNCHANGED <<instances, port, stuck>>

\* Mutant: the wrappers of workers that ended stay in the map.
KillWorkersListed(p, c) ==
  /\ Calling(p, "kill", c)
  /\ LET W == Listed(c.sup, Topo(p), c.task)
         Ended(w) == [w EXCEPT !.state = "gone"]
     IN  /\ workers' = With(W, Ended)
         /\ stuck' = IF Gone(W) THEN stuck \cup {c.sup} ELSE stuck
  /\ UNCHANGED <<instances, port>>

\* killWorker: the workers end and their wrappers are destroyed, which waits
\* for ever for one that was gone before.
KillWorkers(p, c) ==
  /\ Calling(p, "kill", c)
  /\ LET W == Listed(c.sup, Topo(p), c.task)
     IN  /\ workers' = workers \ W
         /\ stuck' = IF Gone(W) THEN stuck \cup {c.sup} ELSE stuck
  /\ UNCHANGED <<instances, port>>

-----------------------------------------------------------------------------
(* Failures *)

\* A supervisor's node crashes, with its workers.
Crash(s) ==
  /\ s \in up
  /\ Cardinality(Supervisor \ up) < MaxFailures
  /\ up' = up \ {s}
  /\ stuck' = stuck \ {s}
  /\ workers' = {w \in workers : w.sup # s}
  /\ UNCHANGED <<tableVars, supervisors, executor, threadVars, clientVars, members,
                 detected, port>>

\* The membership reports the failure: handle(NodeFailEvent) starts a thread.
DetectFailure(s) ==
  /\ s \in Supervisor \ (up \cup detected)
  /\ detected' = detected \cup {s}
  /\ job' = [job EXCEPT ![Cardinality(detected) + 1] = <<Op("restart", "all")>>]
  /\ UNCHANGED <<tableVars, supervisors, executor, at, calls, config, clientVars,
                 members, up, supVars>>

\* The membership erases the failed node after its handlers have run.
Forget(s) ==
  /\ s \in detected \cap members
  /\ members' = members \ {s}
  /\ UNCHANGED <<tableVars, supervisors, executor, threadVars, clientVars, up,
                 detected, supVars>>

\* The sequences that hold every element of T once.
Orders(T) == {ids \in [1..Cardinality(T) -> T] : \A t \in T : \E i \in DOMAIN ids : ids[i] = t}

\* Mutant: the topologies are started without being prepared.
RestartJobUnprepared(ids) ==
  [i \in DOMAIN ids |-> Op("stop", ids[i])] \o [i \in DOMAIN ids |-> Op("start", ids[i])]

\* All topologies are stopped, then each is prepared and started.
RestartJob(ids) ==
  LET n == Len(ids)
  IN  [i \in 1 .. 3 * n |->
         IF i <= n THEN Op("stop", ids[i])
         ELSE Op(IF (i - n) % 2 = 1 THEN "prepare" ELSE "start", ids[(i - n + 1) \div 2])]

\* restartThread: does this for the topologies there are now.
RestartAll(p) ==
  /\ Doing(p, "restart")
  /\ EraseFirst => detected \cap members = {}
  /\ \E ids \in Orders({t \in Topology : Exists(t)}) : ContinueWith(p, RestartJob(ids))
  /\ UNCHANGED <<tableVars, supervisors, executor, clientVars, failVars, supVars>>

-----------------------------------------------------------------------------
ClientStep ==
  \/ \E t \in Topology : Submit(t) \/ Send(t)
  \/ \E t \in Topology, c \in Request : Command(c, t)

Operation(p) ==
  \/ Compile(p)
  \/ BeginPrepare(p) \/ BeginConfigure(p) \/ EndPrepare(p)
  \/ BeginStart(p) \/ EndStart(p)
  \/ BeginStop(p) \/ EndStop(p)
  \/ Kill(p) \/ Erase(p)
  \/ RestartAll(p)

CallStep(p) ==
  \E c \in calls[p] :
    AddWorkers(p, c) \/ ConfigureWorkers(p, c) \/ StartWorkers(p, c) \/ KillWorkers(p, c)

ThreadStep(p) == Operation(p) \/ CallStep(p)

FailureStep == \E s \in Supervisor : Crash(s) \/ DetectFailure(s) \/ Forget(s)

\* Two threads work on the table at once, or a topology is about to be
\* prepared that has instances already.
Overlap == Cardinality({p \in Thread : Busy(p)}) > 1
Disorder ==
  \/ Overlap
  \/ \E p \in Thread : /\ Doing(p, "prepare") /\ at[p] = "begin"
                       /\ instances[Topo(p)] # NoInstances(Topo(p))

Observe == clash' = (clash \/ Disorder')

Next ==
  \/ ClientStep /\ Observe
  \/ \E p \in Thread : ThreadStep(p) /\ Observe
  \/ FailureStep /\ Observe

Spec == Init /\ [][Next]_vars

\* Threads and supervisors keep running, and the membership does its work;
\* clients and crashes owe nothing.
Fairness ==
  /\ \A p \in Thread : WF_vars(ThreadStep(p) /\ Observe)
  /\ \A s \in Supervisor : WF_vars((DetectFailure(s) \/ Forget(s)) /\ Observe)

FairSpec == Spec /\ Fairness

-----------------------------------------------------------------------------
(* Properties *)

Status == {"nonexisted", "empty", "pending", "idle", "preparing", "ready", "running"}
Operations == {"compile", "prepare", "start", "stop", "kill", "erase", "restart"}

\* The variables have their types: among others, no two workers share a
\* supervisor's port and none uses one that has not been handed out.
TypeOK ==
  /\ status \in [Topology -> Status]
  /\ spec \subseteq Topology /\ owed \subseteq Topology
  /\ \A t \in Topology : \A k \in Task(t) : \A a \in instances[t][k] :
       a[1] \in Supervisor /\ a[2] < port[a[1]]
  /\ executor \in Supervisor \cup {NoSup}
  /\ detected \subseteq Supervisor \ up /\ supervisors \cup members \subseteq Supervisor
  /\ stuck \subseteq up
  /\ \A p \in Thread : /\ \A i \in DOMAIN job[p] : job[p][i].op \in Operations
                       /\ at[p] \in {"begin", "add", "config", "start", "kill"}
                       /\ calls[p] # {} => Busy(p)
  /\ \A w \in workers : /\ w.sup \in up /\ w.port < port[w.sup]
                        /\ w.task \in Task(w.topo)
                        /\ w.state \in {"up", "running", "gone"}
                        /\ \A v \in workers : Address(v) = Address(w) => v = w

\* No thread works, every crash has been dealt with, nobody waits for ever.
Quiet ==
  /\ \A p \in Thread : ~Busy(p)
  /\ Supervisor \ up = detected

Asked(t, k) == Cardinality({i \in DOMAIN Plan[t] : Plan[t][i] = k})
Live(t, k) == {w \in workers : w.topo = t /\ w.task = k /\ w.state # "gone"}

\* Every task of t has as many workers as were asked for, all of them run, are
\* those Nimbus knows of, and send to exactly the workers of their children.
Whole(t) ==
  \A k \in Task(t) :
    /\ Cardinality(Live(t, k)) = Asked(t, k)
    /\ instances[t][k] = {Address(w) : w \in Live(t, k)}
    /\ \A w \in Live(t, k) :
         /\ w.state = "running" /\ w.listed
         /\ w.conns = UNION {instances[t][c] : c \in Child[t][k]}

\* When all is quiet, a topology that is shown as running is whole, however
\* often it was stopped, killed, submitted again or moved by a failure: unless
\* two threads worked at once or a prepared topology was prepared again.
RunningIsWhole ==
  (~clash /\ Quiet) => \A t \in Topology : status[t] = "running" => Whole(t)

\* When all is quiet, no worker is left that belongs to a topology that does
\* not run: nothing else would ever end its process.
NothingLeftBehind ==
  (~clash /\ Quiet) => \A w \in workers : status[w.topo] = "running"

\* A supervisor only gets stuck on a worker that was started twice, and no
\* worker is unless there was a clash.
NobodyStuck == ~clash => stuck = {} /\ \A w \in workers : w.state # "gone"

\* A topology that was killed comes back only when it is submitted: no
\* operation that was under way makes an entry for it again.
KilledStaysGone ==
  [][\A t \in Topology :
       (status[t] = "nonexisted" /\ status'[t] # "nonexisted")
         => (clash' \/ (status'[t] = "pending" /\ t \in spec'))]_vars

\* A topology that runs, with nothing under way, when a supervisor fails is whole
\* and running again in the end, on the nodes that are left.
RunsAgain ==
  \A t \in Topology :
    (status[t] = "running" /\ ~Busy(Nimbus) /\ ~(Supervisor \ up \subseteq detected))
      ~> (clash \/ (Quiet /\ status[t] = "running" /\ Whole(t)))

\* The comment on Supervisor's WorkersMap: several workers of a task exist
\* because its parallelism level is above 1, so never more than the level.
NoMoreThanAsked ==
  \A t \in Topology : \A k \in Task(t) : Cardinality(Live(t, k)) <= Asked(t, k)
=============================================================================
