----------------------------- MODULE Membership -----------------------------
(***************************************************************************)
(* Group membership (daemon/src/DMember.cpp, member/Member.cpp,            *)
(* introducer/Introducer.cpp, message/MessageHandler.cpp): every half      *)
(* second a node counts itself up, merges the lists it received, reports   *)
(* and drops members it has not heard of for too long and publishes its    *)
(* list to the nodes that subscribed to it.                                *)
(*                                                                         *)
(* A node joins by asking the introducer, which pings all nodes and tells  *)
(* the group in its next heartbeat to arrange its connections anew: in a   *)
(* ring in which everybody listens to MaxFail + 1 predecessors, and to the *)
(* introducer.  A node that leaves says so in one last heartbeat.          *)
(*                                                                         *)
(* Time: a Tick is a heartbeat period.  Every node sends once in each, in  *)
(* any order, and a heartbeat is read at most Lag periods late.            *)
(* Subscriptions take effect at once.                                      *)
(***************************************************************************)
EXTENDS Integers, Sequences, FiniteSets, TLC, SequencesExt

CONSTANTS
  Node,          \* ids; their order is the order of the addresses
  Introducer,    \* the node whose address all others know
  Settled,       \* nodes that form a group at the start; the others are off
  SuspectAfter,  \* T_FAIL in heartbeat periods
  CleanAfter,    \* T_FAIL + T_CLEANUP in heartbeat periods
  MaxFail,       \* updateConnection's max_fail
  Lag,           \* bound on the heartbeats a link holds when a period ends
  PingTicks,     \* bound on the periods the introducer's pings take
  MaxTicks, MaxStarts, MaxCrashes, MaxLeaves  \* bounds on the exploration

ASSUME MembershipAssumption ==
  /\ Node \subseteq Nat /\ IsFiniteSet(Node)
  /\ Introducer \in Settled /\ Settled \subseteq Node
  /\ SuspectAfter \in Nat /\ CleanAfter \in Nat /\ SuspectAfter <= CleanAfter
  /\ {MaxFail, Lag, PingTicks, MaxTicks, MaxStarts, MaxCrashes, MaxLeaves} \subseteq Nat

VARIABLES
  up,        \* up[n]: "off", "starting" (the join request is not answered yet),
             \*   "on", or "stopping" (isStopped is set)
  map,       \* map[n]: memberMap, from ids to entries
  inbox,     \* inbox[n]: membersQueue, the lists by value; NoMap is a pointer to pinged
  subs,      \* subs[n]: the nodes that inSocket is connected to
  chan,      \* chan[m][n]: heartbeats of m that n has not read yet
  pinged,    \* the introducer's memberMap: who answered its latest pings
  serving,   \* the periods these pings may still take, Idle when there are none
  announce,  \* the introducer's updateOnNextHeartbeat
  beaten,    \* nodes that sent their heartbeat in this period
  now,       \* periods that have passed
  \* history
  reports,   \* <<n, m>>: n raised NodeFailEvent(m) in the last step
  told,      \* <<n, m>>: n did so before, and neither was started again since
  since,     \* since[n]: periods since up[n] became what it is
  stopped,   \* nodes that crashed or left at some time
  starts, crashes, leaves  \* counters for the bounds

introVars == <<pinged, serving, announce>>
bounds == <<starts, crashes, leaves>>
history == <<reports, told, since, stopped>>
vars == <<up, map, inbox, subs, chan, introVars, beaten, now, history, bounds>>

Live == {n \in Node : up[n] # "off"}
NoMap == << >>
Idle == -1
\* Long enough for everybody to have noticed.
Ages == 2 * CleanAfter + Cardinality(Node)

-----------------------------------------------------------------------------
(* Entries *)

Keep(f, S) == [m \in S |-> f[m]]
NewEntry(e) == [count |-> e.count, leaving |-> e.leaving, age |-> 0]

\* Mutant: an entry is refreshed by a count that is not newer.
UpdatedByOld(mine, e) == IF e.count >= mine.count THEN NewEntry(e) ELSE mine

\* Member::update: only a higher count is news.
Updated(mine, e) == IF e.count > mine.count THEN NewEntry(e) ELSE mine

\* The loop of updateMembers over one received list: known members are updated,
\* others are added unless they are leaving.
Merged(mine, list) ==
  [m \in DOMAIN mine \cup {k \in DOMAIN list : ~list[k].leaving} |->
     IF m \notin DOMAIN list THEN mine[m]
     ELSE IF m \in DOMAIN mine THEN Updated(mine[m], list[m]) ELSE NewEntry(list[m])]

\* isTimedOut, shouldBeCleanUp
TimedOut(e) == e.age > SuspectAfter
CleanUp(e) == e.age > CleanAfter /\ ~e.leaving

\* memberMap after updateMembers has counted the node itself and merged its queue.
Heard(n) ==
  LET count == IF n \in DOMAIN map[n] THEN map[n][n].count ELSE 0
      own == [count |-> count + 1, leaving |-> up[n] = "stopping", age |-> 0]
      lists == [i \in DOMAIN inbox[n] |-> IF inbox[n][i] = NoMap THEN pinged ELSE inbox[n][i]]
  IN  FoldLeft(Merged, (n :> own) @@ map[n], lists)

Failed(list) == {m \in DOMAIN list : CleanUp(list[m])}

\* Mutant: a member that is reported failed is not erased.
RemainingAll(list) == list

\* What the end of updateMembers leaves of a list.
Remaining(list) == Keep(list, DOMAIN list \ Failed(list))

Leavers(list) == {m \in DOMAIN list : list[m].leaving}

\* Mutant: members that are leaving are not published.
PublishedStaying(list) ==
  [m \in {k \in DOMAIN list : ~list[k].leaving /\ ~TimedOut(list[k])} |->
     [count |-> list[m].count, leaving |-> FALSE]]

\* What createHeartbeatMessage says of a list: all but the suspicious members.
Published(list) ==
  [m \in {k \in DOMAIN list : list[k].leaving \/ ~TimedOut(list[k])} |->
     [count |-> list[m].count, leaving |-> list[m].leaving]]

-----------------------------------------------------------------------------
(* Connections *)

\* Mutant: one predecessor fewer.
RingOneShort(n, S) ==
  LET order == SetToSortSeq(S, <)
      size == Len(order)
      index == IF n \in S THEN CHOOSE i \in 1..size : order[i] = n ELSE size + 1
  IN  IF size <= MaxFail + 1 THEN S \ {n}
      ELSE {order[((index - 1 - i + size) % size) + 1] : i \in 1..MaxFail}

\* The members n listens to when the group is S: all others in a small group,
\* else its MaxFail + 1 predecessors in the order of the addresses (a node that
\* is not in S takes itself to be behind the last).
Ring(n, S) ==
  LET order == SetToSortSeq(S, <)
      size == Len(order)
      index == IF n \in S THEN CHOOSE i \in 1..size : order[i] = n ELSE size + 1
  IN  IF size <= MaxFail + 1 THEN S \ {n}
      ELSE {order[((index - 1 - i + size) % size) + 1] : i \in 1..MaxFail + 1}

Connections(n, S) == {Introducer} \cup Ring(n, S)

-----------------------------------------------------------------------------
Init ==
  /\ up = [n \in Node |-> IF n \in Settled THEN "on" ELSE "off"]
  /\ map = [n \in Node |->
              [m \in IF n \in Settled THEN Settled ELSE {} |->
                 [count |-> 1, leaving |-> FALSE, age |-> 0]]]
  /\ inbox = [n \in Node |-> << >>]
  /\ subs = [n \in Node |-> IF n \in Settled THEN Connections(n, Settled) ELSE {}]
  /\ chan = [m \in Node |-> [n \in Node |-> << >>]]
  /\ pinged = NoMap /\ serving = Idle /\ announce = FALSE
  /\ beaten = {}
  /\ reports = {} /\ told = {} /\ stopped = {}
  /\ since = [n \in Node |-> Ages]
  /\ now = 0 /\ starts = 0 /\ crashes = 0 /\ leaves = 0

\* The history of a step in which pairs are reported and the nodes of S change up.
Report(pairs, S) ==
  /\ reports' = pairs
  /\ told' = {r \in told \cup pairs : \A n \in S : up'[n] = "starting" => n \notin {r[1], r[2]}}
  /\ since' = [n \in Node |-> IF n \in S THEN 0 ELSE since[n]]
  /\ stopped' = stopped \cup {n \in S : up'[n] = "off"}

\* The node's process ends, with its sockets; what it sent is still delivered.
Stopped(n) ==
  /\ up' = [up EXCEPT ![n] = "off"]
  /\ map' = [map EXCEPT ![n] = NoMap]
  /\ inbox' = [inbox EXCEPT ![n] = << >>]
  /\ subs' = [subs EXCEPT ![n] = {}]
  /\ IF n = Introducer
     THEN pinged' = NoMap /\ serving' = Idle /\ announce' = FALSE
     ELSE UNCHANGED introVars

Emptied(c, n) == [m \in Node |-> [c[m] EXCEPT ![n] = << >>]]

\* One round of heartbeatsSendThread: updateMembers, createHeartbeatMessage and
\* the send; a node that is stopping ends after it.
Beat(n) ==
  /\ n \in Live \ beaten
  /\ LET heard == Heard(n)
         kept == Remaining(heard)
         message == [list |-> Published(kept), flag |-> n = Introducer /\ announce]
         sent == [chan EXCEPT ![n] =
                    [r \in Node |-> IF n \in subs[r] THEN Append(@[r], message) ELSE @[r]]]
     IN  /\ IF up[n] = "stopping"
            THEN Stopped(n) /\ chan' = Emptied(sent, n)
            ELSE /\ map' = [map EXCEPT ![n] = Keep(kept, DOMAIN kept \ Leavers(kept))]
                 /\ inbox' = [inbox EXCEPT ![n] = << >>]
                 /\ announce' = (announce /\ n # Introducer)
                 /\ chan' = sent
                 /\ UNCHANGED <<up, subs, pinged, serving>>
         /\ Report({n} \X Failed(heard), {n} \cap {k \in Node : up[k] = "stopping"})
  /\ beaten' = beaten \cup {n}
  /\ UNCHANGED <<now, bounds>>

\* process(HeartBeatPointer): the list is queued; if the heartbeat says so, or
\* names a leaver that the node did not know to be leaving, the connections are
\* made anew, and what the old socket held is lost.  The listener
\* of a node that is stopping ends after the heartbeat it waits for.
Deliver(m, n) ==
  /\ n \in Live /\ chan[m][n] # << >>
  /\ LET message == Head(chan[m][n])
         list == message.list
         group == DOMAIN list \ Leavers(list)
         unknown == {k \in Leavers(list) : k \in DOMAIN map[n] /\ ~map[n][k].leaving}
         remake == (message.flag \/ unknown # {}) /\ Cardinality(group) # 1
     IN  /\ inbox' = [inbox EXCEPT ![n] = Append(@, list)]
         /\ IF remake \/ up[n] = "stopping"
            THEN /\ subs' = [subs EXCEPT ![n] =
                               IF up[n] = "stopping" THEN {} ELSE Connections(n, group)]
                 /\ chan' = Emptied(chan, n)
            ELSE /\ chan' = [chan EXCEPT ![m][n] = Tail(@)]
                 /\ UNCHANGED subs
  /\ Report({}, {})
  /\ UNCHANGED <<up, map, introVars, beaten, now, bounds>>

-----------------------------------------------------------------------------
(* Joins *)

\* DMember::start: the node listens to the introducer and asks to join.
Start(n) ==
  /\ up[n] = "off" /\ starts < MaxStarts
  /\ up' = [up EXCEPT ![n] = "starting"]
  /\ subs' = [subs EXCEPT ![n] = {Introducer}]
  /\ starts' = starts + 1
  /\ Report({}, {n})
  /\ UNCHANGED <<map, inbox, chan, introVars, beaten, now, crashes, leaves>>

\* The introducer's service thread takes a join request, answers it and pings
\* all nodes; their answers replace the earlier ones, also in a queue that still
\* holds them.  (A node that is pinged before its first round dereferences its
\* missing entry; here the first round comes first.)
Join(n) ==
  /\ up[n] = "starting" /\ n \in DOMAIN map[n]
  /\ up[Introducer] # "off" /\ Introducer \in DOMAIN map[Introducer] /\ serving = Idle
  /\ up' = [up EXCEPT ![n] = "on"]
  /\ serving' = PingTicks
  /\ pinged' = [m \in {k \in Live : k \in DOMAIN map[k]} |->
                  [count |-> map[m][m].count, leaving |-> FALSE]]
  /\ Report({}, {n})
  /\ UNCHANGED <<map, inbox, subs, chan, announce, beaten, now, bounds>>

\* Mutant: the next heartbeat does not say that connections are to be made anew.
AnnounceQuietly ==
  /\ serving # Idle
  /\ inbox' = [inbox EXCEPT ![Introducer] = Append(@, NoMap)]
  /\ serving' = Idle
  /\ Report({}, {})
  /\ UNCHANGED <<up, map, subs, chan, pinged, announce, beaten, now, bounds>>

\* Mutant: what the pings found is not passed on.
AnnounceNobody ==
  /\ serving # Idle
  /\ announce' = TRUE /\ serving' = Idle
  /\ Report({}, {})
  /\ UNCHANGED <<up, map, inbox, subs, chan, pinged, beaten, now, bounds>>

\* The pings are over: updateConnectionsOnNextHeartbeat.
Announce ==
  /\ serving # Idle
  /\ inbox' = [inbox EXCEPT ![Introducer] = Append(@, NoMap)]
  /\ announce' = TRUE /\ serving' = Idle
  /\ Report({}, {})
  /\ UNCHANGED <<up, map, subs, chan, pinged, beaten, now, bounds>>

\* The command "leave": DMember::stop sets isStopped and waits for the last round.
Leave(n) ==
  /\ up[n] = "on" /\ leaves < MaxLeaves
  /\ up' = [up EXCEPT ![n] = "stopping"]
  /\ leaves' = leaves + 1
  /\ Report({}, {n})
  /\ UNCHANGED <<map, inbox, subs, chan, introVars, beaten, now, starts, crashes>>

Crash(n) ==
  /\ n \in Live /\ crashes < MaxCrashes
  /\ Stopped(n)
  /\ chan' = Emptied(chan, n)
  /\ crashes' = crashes + 1
  /\ Report({}, {n})
  /\ UNCHANGED <<beaten, now, starts, leaves>>


\* A heartbeat period ends: everybody has sent, and links hold no more than Lag.
Tick ==
  /\ now < MaxTicks
  /\ Live \subseteq beaten
  /\ \A m, n \in Node : Len(chan[m][n]) <= Lag
  /\ \A n \in Live : up[n] = "starting" => up[Introducer] = "off" \/ serving # Idle
  /\ serving # 0
  /\ serving' = IF serving = Idle THEN Idle ELSE serving - 1
  /\ map' = [n \in Node |->
               [m \in DOMAIN map[n] |-> [map[n][m] EXCEPT !.age = @ + 1]]]
  /\ since' = [n \in Node |-> IF since[n] = Ages THEN Ages ELSE since[n] + 1]
  /\ now' = now + 1
  /\ beaten' = {}
  /\ reports' = {}
  /\ UNCHANGED <<up, inbox, subs, chan, pinged, announce, told, stopped, bounds>>

Next ==
  \/ \E n \in Node : Beat(n) \/ Start(n) \/ Join(n) \/ Leave(n) \/ Crash(n)
  \/ \E m, n \in Node : Deliver(m, n)
  \/ Announce
  \/ Tick

Spec == Init /\ [][Next]_vars

-----------------------------------------------------------------------------
(* Properties *)

TypeOK ==
  /\ up \in [Node -> {"off", "starting", "on", "stopping"}]
  /\ \A n \in Node :
       /\ DOMAIN map[n] \subseteq Node
       /\ \A m \in DOMAIN map[n] : map[n][m].count \in Nat /\ map[n][m].age \in Nat
       /\ map[n] # NoMap => up[n] # "off"
       /\ \A i \in DOMAIN inbox[n] : DOMAIN inbox[n][i] \subseteq Node
  /\ subs \in [Node -> SUBSET Node]
  /\ \A m, n \in Node : \A i \in DOMAIN chan[m][n] :
       /\ chan[m][n][i].flag => m = Introducer
       /\ m \in DOMAIN chan[m][n][i].list
  /\ DOMAIN pinged \subseteq Node /\ serving \in {Idle} \cup 0..PingTicks
  /\ announce \in BOOLEAN /\ beaten \subseteq Node /\ now \in 0..MaxTicks
  /\ told \subseteq Node \X Node /\ since \in [Node -> 0..Ages]

\* No more nodes went than the connections are made for, and nobody joined while
\* another one left or with the introducer, which all joins need, gone.  (A node
\* that makes its connections anew because of one of two such events may lose the
\* heartbeat that tells of the other.)
Tolerable ==
  /\ Cardinality(stopped) <= MaxFail
  /\ starts = 0 \/ (leaves = 0 /\ Introducer \notin stopped)

\* As long as that is so, a node is reported failed only if it did stop: everybody
\* else is heard of in time, by way of others if need be, also while connections
\* are being made anew.
OnlyTheDead == Tolerable => \A r \in reports : r[2] \in stopped

\* While nobody joins, a failure is reported once by each node: old news of the
\* failed node, passed on by the others, have died out when it is dropped.  (A
\* node that joins meanwhile takes the failed one for new and passes it on for
\* another T_FAIL, when some have dropped it: they take it for new in turn.)
ToldOnce == [][starts' = 0 => reports' \cap told = {}]_vars

\* While nobody joins, a node that stopped is in nobody's list soon after: who
\* heard of it last needs CleanAfter periods, and all others may each have
\* passed the news on once before.
ForgottenInTime ==
  starts = 0 =>
    \A m \in Node : (up[m] = "off" /\ since[m] >= CleanAfter + Cardinality(Node))
      => \A n \in Live : m \notin DOMAIN map[n]

\* Two members know each other soon, but for a node that is back under the id of
\* an earlier life: its count starts again below the one that the others hold,
\* and it is news only after they reported and dropped it.
Acquainted ==
  Tolerable =>
    \A m \in Node \ stopped, n \in Node :
      (\A i \in {m, n} : up[i] = "on" /\ since[i] > PingTicks + 1) => m \in DOMAIN map[n]

\* A join or a departure is not known to all yet.
Unsettled ==
  \/ serving # Idle \/ announce
  \/ \E n \in Node : up[n] \in {"starting", "stopping"}
  \/ \E m, n \in Node : \E i \in DOMAIN chan[m][n] :
       chan[m][n][i].flag \/ Leavers(chan[m][n][i].list) # {}

\* After joins everybody listens to its predecessors in the group there is.
Arranged == stopped = {} /\ ~Unsettled => \A n \in Live : subs[n] = Connections(n, Live)

=============================================================================
