------------------------------ MODULE Election ------------------------------
(***************************************************************************)
(* Leader election (daemon/src/election/Candidate.cpp with                 *)
(* daemon/src/message/ElectionMessageHandler.cpp): a bully election in     *)
(* which the lowest id of the membership list leads.                       *)
(*                                                                         *)
(* Every node has one service thread, which answers the queue of its REP   *)
(* socket one request at a time, any number of detached electionThreads,   *)
(* and one short-lived thread per request it sends, with a receive timeout *)
(* of one second.  A request whose sender gave up stays in the queue of    *)
(* the receiver (the sockets linger) and is handled later.                 *)
(*                                                                         *)
(* The membership list is DMember's: here members[n] shrinks when a failed *)
(* or departed node is dropped and grows when a node is heard of.          *)
(***************************************************************************)
EXTENDS Naturals, FiniteSets

CONSTANTS
  Node,          \* ids; the order of the ids is the order of the strings
  Fresh,         \* nodes whose daemon is being started; the others form a
                 \* group that has elected its lowest id
  InitialView,   \* InitialView[n]: membership list of n at the start
  CanMisjudge,   \* may a live node be taken for a failed one?
  CanSkew,       \* may one node drop a failed member seconds before another?
  SleepTicks,    \* seconds an electionThread sleeps first; 0: no timing at all
  MaxCrashes,    \* bound on crashes
  MaxLeaves,     \* bound on "leave" commands
  MaxTimeouts    \* bound on replies that take more than a second from a live node

NoOne == 0       \* the empty string of leaderId

ASSUME ElectionAssumption ==
  /\ Node \subseteq Nat \ {NoOne}
  /\ IsFiniteSet(Node)
  /\ Fresh \subseteq Node
  /\ InitialView \in [Node -> SUBSET Node]
  /\ CanMisjudge \in BOOLEAN /\ CanSkew \in BOOLEAN
  /\ SleepTicks \in Nat
  /\ MaxCrashes \in Nat /\ MaxLeaves \in Nat /\ MaxTimeouts \in Nat

VARIABLES
  alive,         \* nodes whose process runs
  departed,      \* nodes that left with the "leave" command
  members,       \* members[n]: DMember::membershipList() at n
  leader,        \* leader[n]: leaderId
  previous,      \* previous[n]: previousLeaderId, the last LeaderElectedEvent
  started,       \* started[n]
  okReceived,    \* okReceived[n]
  expected,      \* expected[n]: exptectedConfirmationCount
  received,      \* received[n]: receivedConfirmationCount
  asleep,        \* asleep[n]: seconds left to the electionThreads that sleep
  threads,       \* electionThreads that passed the test of started
  reqs,          \* requests from their sending until nobody deals with them
  crashes, timeouts  \* counters for the bounds

views == <<alive, departed, members>>
fields == <<leader, previous, started, okReceived, expected, received>>
bounds == <<crashes, timeouts>>
vars == <<views, fields, asleep, threads, reqs, bounds>>

-----------------------------------------------------------------------------
(* Threads and requests *)

\* run: a handle that tells the threads of one node apart.
Thread == [node : Node, run : Nat, at : {"ready", "asking"}, answered : BOOLEAN]

\* A request and the thread that sends it.  stage: "queued" for the receiver's
\* service thread, being "served" by it, "replied"; then, at the sender of a
\* NEW_LEADER, "counted" and "naming" (between two steps of setNewLeader).
\* waiting: the sender has not given up; old: a second began since it was sent;
\* seen: previousLeaderId as setNewLeader read it.
Request ==
  [kind : {"start", "claim"}, from : Node, to : Node, run : Nat,
   stage : {"queued", "served", "replied", "counted", "naming"},
   waiting : BOOLEAN, old : BOOLEAN, seen : Node \cup {NoOne}]

NewRequests(kind, n, run, targets) ==
  {[kind |-> kind, from |-> n, to |-> m, run |-> run, stage |-> "queued",
    waiting |-> TRUE, old |-> FALSE, seen |-> NoOne] : m \in targets}

FreeRun(n, r) ==
  /\ \A t \in threads : t.node = n => t.run # r
  /\ \A q \in reqs : q.from = n => q.run # r

Replace(q, new) == (reqs \ {q}) \cup {new}

\* The receiver answers: the answer of a sender that gave up goes nowhere.
Answered(q) ==
  IF q.waiting THEN Replace(q, [q EXCEPT !.stage = "replied"]) ELSE reqs \ {q}

\* A new electionThread at n sleeps first (those that wake together count as one).
SpawnElection(n) == asleep' = [asleep EXCEPT ![n] = @ \cup {SleepTicks}]

LowerIds(n) == {m \in members[n] : m < n}

-----------------------------------------------------------------------------
IsSettledLeader(n) == n \in Node \ Fresh /\ \A m \in Node \ Fresh : n <= m

SettledCount(n) ==
  IF IsSettledLeader(n) THEN Cardinality(Node \ Fresh) ELSE 0

\* Candidate::start of the fresh nodes: the service thread waits for requests
\* and one electionThread sleeps.  The others are as a clean election left them.
Init ==
  /\ alive = Node
  /\ departed = {}
  /\ members = InitialView
  /\ leader \in [Node -> Node \cup {NoOne}]
  /\ \A n \in Node : IF n \in Fresh THEN leader[n] = NoOne ELSE IsSettledLeader(leader[n])
  /\ previous = leader
  /\ started = [n \in Node |-> FALSE]
  /\ okReceived = [n \in Node |-> FALSE]
  /\ expected = [n \in Node |-> SettledCount(n)]
  /\ received = expected
  /\ asleep \in [Node -> {{}} \cup {{k} : k \in 0..SleepTicks}]
  /\ \A n \in Node : n \in Fresh <=> asleep[n] # {}
  /\ threads = {}
  /\ reqs = {}
  /\ crashes = 0 /\ timeouts = 0

\* An electionThread wakes; it returns if the protocol is already running.
Wake(n) ==
  /\ n \in alive
  /\ 0 \in asleep[n]
  /\ asleep' = [asleep EXCEPT ![n] = @ \ {0}]
  /\ started' = [started EXCEPT ![n] = TRUE]
  /\ IF started[n]
     THEN UNCHANGED threads
     ELSE \E r \in 1 .. Cardinality(threads) + Cardinality(reqs) + 1 :
            /\ FreeRun(n, r)
            /\ \A k \in 1 .. r - 1 : ~FreeRun(n, k)
            /\ threads' = threads \cup
                 {[node |-> n, run |-> r, at |-> "ready", answered |-> FALSE]}
  /\ UNCHANGED <<views, leader, previous, okReceived, expected, received, reqs, bounds>>

\* Mutant: the claimant does not expect its own confirmation.
ClaimWithoutItself(t) ==
  /\ t.node \in alive /\ t.at = "ready"
  /\ t.node \in members[t.node] /\ LowerIds(t.node) = {}
  /\ expected' = [expected EXCEPT ![t.node] = Cardinality(members[t.node]) - 1]
  /\ received' = [received EXCEPT ![t.node] = 0]
  /\ reqs' = reqs \cup NewRequests("claim", t.node, t.run, members[t.node])
  /\ threads' = threads \ {t}
  /\ UNCHANGED <<views, leader, previous, started, okReceived, asleep, bounds>>

\* The lowest id of its membership list names itself to every member.
ClaimAsLowest(t) ==
  /\ t.node \in alive /\ t.at = "ready"
  /\ members[t.node] # {}
  /\ t.node \in members[t.node] /\ LowerIds(t.node) = {}
  /\ expected' = [expected EXCEPT ![t.node] = Cardinality(members[t.node])]
  /\ received' = [received EXCEPT ![t.node] = 0]
  /\ reqs' = reqs \cup NewRequests("claim", t.node, t.run, members[t.node])
  /\ threads' = threads \ {t}
  /\ UNCHANGED <<views, leader, previous, started, okReceived, asleep, bounds>>

\* Any other node asks the lower ones to start (sendElectionStart up to join).
AskLower(t) ==
  /\ t.node \in alive /\ t.at = "ready"
  /\ members[t.node] # {}
  /\ t.node \notin members[t.node] \/ LowerIds(t.node) # {}
  /\ okReceived' = [okReceived EXCEPT ![t.node] = FALSE]
  /\ reqs' = reqs \cup NewRequests("start", t.node, t.run, LowerIds(t.node))
  /\ threads' = (threads \ {t}) \cup {[t EXCEPT !.at = "asking"]}
  /\ UNCHANGED <<views, leader, previous, started, expected, received, asleep, bounds>>

\* The requests the thread joins on.
Unanswered(t) ==
  {q \in reqs : q.kind = "start" /\ q.from = t.node /\ q.run = t.run /\ q.waiting}

\* Mutant: an OK does not keep the thread from claiming.
JoinedDespiteOk(t) ==
  /\ t.node \in alive /\ t.at = "asking"
  /\ Unanswered(t) = {}
  /\ threads' = threads \ {t}
  /\ reqs' = reqs \cup NewRequests("claim", t.node, t.run, members[t.node])
  /\ UNCHANGED <<views, fields, asleep, bounds>>

\* Mutant: the fallback sets the two counts, as the claim of the lowest id does.
JoinedCounting(t) ==
  /\ t.node \in alive /\ t.at = "asking"
  /\ Unanswered(t) = {} /\ ~okReceived[t.node]
  /\ threads' = threads \ {t}
  /\ expected' = [expected EXCEPT ![t.node] = Cardinality(members[t.node])]
  /\ received' = [received EXCEPT ![t.node] = 0]
  /\ reqs' = reqs \cup NewRequests("claim", t.node, t.run, members[t.node])
  /\ UNCHANGED <<views, leader, previous, started, okReceived, asleep, bounds>>

\* All request threads have joined.  Without an OK the node sends NEW_LEADER to
\* every member, and leaves the two counts as they are.
Joined(t) ==
  /\ t.node \in alive /\ t.at = "asking"
  /\ Unanswered(t) = {}
  /\ threads' = threads \ {t}
  /\ reqs' = IF okReceived[t.node] THEN reqs
             ELSE reqs \cup NewRequests("claim", t.node, t.run, members[t.node])
  /\ UNCHANGED <<views, fields, asleep, bounds>>

-----------------------------------------------------------------------------
(* The service thread *)

Free(n) == n \in alive /\ \A q \in reqs : ~(q.to = n /\ q.stage = "served")

\* ELECTION_START: reply OK and start an electionThread.
ServeStart(q) ==
  /\ Free(q.to)
  /\ q.kind = "start" /\ q.stage = "queued"
  /\ reqs' = Answered(q)
  /\ SpawnElection(q.to)
  /\ UNCHANGED <<views, fields, threads, bounds>>

\* NEW_LEADER of the node itself: only confirm.
ServeOwnClaim(q) ==
  /\ Free(q.to)
  /\ q.kind = "claim" /\ q.stage = "queued" /\ q.to = q.from
  /\ reqs' = Answered(q)
  /\ UNCHANGED <<views, fields, asleep, threads, bounds>>

\* NEW_LEADER of another node: the first half of setNewLeader.
ServeClaim(q) ==
  /\ Free(q.to)
  /\ q.kind = "claim" /\ q.stage = "queued" /\ q.to # q.from
  /\ leader' = [leader EXCEPT ![q.to] = q.from]
  /\ reqs' = Replace(q, [q EXCEPT !.stage = "served", !.seen = previous[q.to]])
  /\ UNCHANGED <<views, previous, started, okReceived, expected, received,
                 asleep, threads, bounds>>

\* Mutant: the election is not ended.
AnnounceOnly(n, id, seen) ==
  /\ previous' = IF id # seen THEN [previous EXCEPT ![n] = id] ELSE previous
  /\ UNCHANGED started

\* Mutant: the id is compared with leaderId, which was just set to it.
AnnounceNever(n, id, seen) ==
  /\ previous' = IF id # leader[n] THEN [previous EXCEPT ![n] = id] ELSE previous
  /\ started' = [started EXCEPT ![n] = FALSE]

\* The second half of setNewLeader at node n: announce a leader that is not the
\* one announced last, and end the election.
Announce(n, id, seen) ==
  /\ previous' = IF id # seen THEN [previous EXCEPT ![n] = id] ELSE previous
  /\ started' = [started EXCEPT ![n] = FALSE]

FinishClaim(q) ==
  /\ q.to \in alive /\ q.stage = "served"
  /\ Announce(q.to, q.from, q.seen)
  /\ reqs' = Answered(q)
  /\ UNCHANGED <<views, leader, okReceived, expected, received, asleep, threads, bounds>>

-----------------------------------------------------------------------------
(* The threads that send requests *)

\* The OK arrives.
ReceiveOk(q) ==
  /\ q.from \in alive
  /\ q.kind = "start" /\ q.stage = "replied"
  /\ okReceived' = [okReceived EXCEPT ![q.from] = TRUE]
  /\ threads' = {IF t.node = q.from /\ t.run = q.run
                 THEN [t EXCEPT !.answered = TRUE] ELSE t : t \in threads}
  /\ reqs' = reqs \ {q}
  /\ UNCHANGED <<views, leader, previous, started, expected, received, asleep, bounds>>

\* A confirmation arrives and is counted ...
CountConfirmation(q) ==
  /\ q.from \in alive
  /\ q.kind = "claim" /\ q.stage = "replied"
  /\ received' = [received EXCEPT ![q.from] = @ + 1]
  /\ reqs' = Replace(q, [q EXCEPT !.stage = "counted"])
  /\ UNCHANGED <<views, leader, previous, started, okReceived, expected,
                 asleep, threads, bounds>>

AllConfirmed(n) == expected[n] = received[n]

\* ... and only then compared with the expected count (allConfirmationsReceived).
CheckConfirmations(q) ==
  /\ q.from \in alive
  /\ q.stage = "counted"
  /\ IF AllConfirmed(q.from)
     THEN /\ leader' = [leader EXCEPT ![q.from] = q.from]
          /\ reqs' = Replace(q, [q EXCEPT !.stage = "naming", !.seen = previous[q.from]])
     ELSE /\ reqs' = reqs \ {q}
          /\ UNCHANGED leader
  /\ UNCHANGED <<views, previous, started, okReceived, expected, received,
                 asleep, threads, bounds>>

NameSelf(q) ==
  /\ q.from \in alive /\ q.stage = "naming"
  /\ Announce(q.from, q.from, q.seen)
  /\ reqs' = reqs \ {q}
  /\ UNCHANGED <<views, leader, okReceived, expected, received, asleep, threads, bounds>>

\* No reply within a second: because the receiver is gone, or is only slow.
Timeout(q) ==
  /\ q.from \in alive
  /\ q.waiting /\ q.stage \in {"queued", "served", "replied"}
  /\ IF q.to \in alive
     THEN timeouts < MaxTimeouts /\ timeouts' = timeouts + 1
     ELSE UNCHANGED timeouts
  /\ reqs' = IF q.to \in alive /\ q.stage # "replied"
             THEN Replace(q, [q EXCEPT !.waiting = FALSE])
             ELSE reqs \ {q}
  /\ UNCHANGED <<views, fields, asleep, threads, crashes>>

\* Mutant: a timer runs on below zero.
TickPastZero ==
  /\ \E n \in Node : asleep[n] # {}
  /\ asleep' = [n \in Node |-> {k - 1 : k \in asleep[n]}]
  /\ UNCHANGED <<views, fields, threads, reqs, bounds>>

\* A second passes while threads sleep.  Threads that can run do so at once and
\* a request lasts at most a second for its sender, so a request crosses at most
\* one tick: an electionThread sleeps longer than any request lasts.
Tick ==
  /\ \E n \in Node : asleep[n] # {}
  /\ \A n \in Node : 0 \notin asleep[n]
  /\ \A t \in threads : t.at = "asking" /\ Unanswered(t) # {}
  /\ \A q \in reqs : q.stage \in {"queued", "replied"} /\ (q.waiting => ~q.old)
  /\ CanSkew \/ \A n, m \in alive : members[n] \ alive = members[m] \ alive
  /\ asleep' = [n \in Node |-> {k - 1 : k \in asleep[n]}]
  /\ reqs' = {[q EXCEPT !.old = q.waiting] : q \in reqs}
  /\ UNCHANGED <<views, fields, threads, bounds>>

-----------------------------------------------------------------------------
(* Membership and failures *)

\* The process of n ends: its threads go, the requests in its queue are lost
\* once their senders time out, its own wait in the queues of the others.
Stop(n) ==
  /\ alive' = alive \ {n}
  /\ asleep' = [asleep EXCEPT ![n] = {}]
  /\ threads' = {t \in threads : t.node # n}
  /\ reqs' = {IF q.from = n THEN [q EXCEPT !.waiting = FALSE] ELSE q :
                q \in {p \in reqs : IF p.from = n
                                    THEN p.stage \in {"queued", "served"} /\ p.to # n
                                    ELSE p.to = n => p.waiting}}
  /\ UNCHANGED <<members, fields, timeouts>>

Crash(n) ==
  /\ n \in alive /\ crashes < MaxCrashes
  /\ Stop(n)
  /\ crashes' = crashes + 1
  /\ UNCHANGED departed

\* The command "leave".
Leave(n) ==
  /\ n \in alive /\ Cardinality(departed) < MaxLeaves
  /\ Stop(n)
  /\ departed' = departed \cup {n}
  /\ UNCHANGED crashes

\* Mutant: the loss of the leader starts no election.
DetectFailureOnly(n, m) ==
  /\ n \in alive
  /\ m \in members[n] \ {n}
  /\ m \notin alive \/ CanMisjudge
  /\ members' = [members EXCEPT ![n] = @ \ {m}]
  /\ UNCHANGED <<alive, departed, fields, asleep, threads, reqs, bounds>>

\* DMember drops m after four silent seconds and raises NodeFailEvent; Candidate
\* starts an election if m was its leader, and keeps leaderId.
DetectFailure(n, m) ==
  /\ n \in alive
  /\ m \in members[n] \ {n}
  /\ m \notin alive \/ CanMisjudge
  /\ members' = [members EXCEPT ![n] = @ \ {m}]
  /\ IF leader[n] = m THEN SpawnElection(n) ELSE UNCHANGED asleep
  /\ UNCHANGED <<alive, departed, fields, threads, reqs, bounds>>

\* A node known to be leaving is erased from the list without an event.
ForgetLeaver(n, m) ==
  /\ n \in alive
  /\ m \in members[n] \cap departed
  /\ members' = [members EXCEPT ![n] = @ \ {m}]
  /\ UNCHANGED <<alive, departed, fields, asleep, threads, reqs, bounds>>

\* DMember hears of a member that was not in its list yet.
Learn(n, m) ==
  /\ n \in alive /\ m \in alive \ members[n]
  /\ members' = [members EXCEPT ![n] = @ \cup {m}]
  /\ UNCHANGED <<alive, departed, fields, asleep, threads, reqs, bounds>>

-----------------------------------------------------------------------------
ElectionStep(n) ==
  \/ Wake(n)
  \/ \E t \in threads :
       t.node = n /\ (ClaimAsLowest(t) \/ AskLower(t) \/ Joined(t))

ServiceStep(n) ==
  \E q \in reqs :
    q.to = n /\ (ServeStart(q) \/ ServeOwnClaim(q) \/ ServeClaim(q) \/ FinishClaim(q))

SenderStep(n) ==
  \E q \in reqs :
    q.from = n /\ (ReceiveOk(q) \/ CountConfirmation(q) \/ CheckConfirmations(q) \/ NameSelf(q))

\* A request to a node that is gone always times out.
GiveUp(n) == \E q \in reqs : q.from = n /\ q.to \notin alive /\ Timeout(q)

Detection(n) == \E m \in Node : DetectFailure(n, m) \/ ForgetLeaver(n, m) \/ Learn(n, m)

Next ==
  \/ \E n \in Node : ElectionStep(n) \/ ServiceStep(n) \/ SenderStep(n) \/ Detection(n)
  \/ \E q \in reqs : Timeout(q)
  \/ Tick
  \/ \E n \in Node : Crash(n) \/ Leave(n)

Spec == Init /\ [][Next]_vars

\* Every runnable thread runs, and gossip drops and finds members in the end.
Fairness ==
  \A n \in Node :
    WF_vars(ElectionStep(n)) /\ WF_vars(ServiceStep(n)) /\ WF_vars(SenderStep(n))
    /\ WF_vars(GiveUp(n)) /\ WF_vars(Detection(n)) /\ WF_vars(Tick)

FairSpec == Spec /\ Fairness

-----------------------------------------------------------------------------
(* Properties *)

TypeOK ==
  /\ alive \subseteq Node /\ departed \subseteq Node
  /\ members \in [Node -> SUBSET Node]
  /\ leader \in [Node -> Node \cup {NoOne}]
  /\ previous \in [Node -> Node \cup {NoOne}]
  /\ started \in [Node -> BOOLEAN] /\ okReceived \in [Node -> BOOLEAN]
  /\ expected \in [Node -> Nat] /\ received \in [Node -> Nat]
  /\ asleep \in [Node -> SUBSET (0..SleepTicks)]
  /\ threads \subseteq Thread
  /\ reqs \subseteq Request
  /\ crashes \in Nat /\ timeouts \in Nat

\* Two live nodes never both lead themselves, i.e. never both run the master
\* services, whatever replies are late or lost and whoever crashes.
AtMostOneLeader ==
  \A n, m \in alive : leader[n] = n /\ leader[m] = m => n = m

\* A node leads itself only when every lower node is gone.
LeaderIsLowest ==
  \A n \in alive : leader[n] = n => \A m \in alive : n <= m

\* Nothing is under way.
Quiet == threads = {} /\ reqs = {} /\ \A n \in alive : asleep[n] = {}

\* "No one responded, name ourself a leader": once all is quiet, the node that
\* every other live node follows leads itself.
ClaimantLeads ==
  Quiet => \A n \in alive :
             (/\ alive # {n}
              /\ \A m \in alive \ {n} : leader[m] = n) => leader[n] = n

\* "Return if protocol is already running": once all is quiet no node takes an
\* election to be running.
StartedMeansRunning == Quiet => \A n \in alive : ~started[n]

\* The leader announced last is the leader.
AnnouncedIsLeader == Quiet => \A n \in alive : previous[n] = leader[n]

\* No node that was answered OK falls back to naming itself.
NoClaimAfterOk ==
  [][\A t \in threads :
       t.at = "asking" /\ t.answered =>
         \A q \in reqs' \ reqs : ~(q.kind = "claim" /\ q.stage = "queued"
                                   /\ q.from = t.node /\ q.run = t.run)]_vars

\* Every live node follows a live node.
Led == \A n \in alive : leader[n] \in alive

Settled == Led /\ \A n, m \in alive : leader[n] <= m

\* "gracefully exit the group": when a node has left, the others follow a live
\* node in the end.
LedInTheEnd == <>[]Led

\* In the end every live node follows the lowest live node, for good.
Agreement == <>[]Settled
=============================================================================
