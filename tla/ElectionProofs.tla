--------------------------- MODULE ElectionProofs ---------------------------
(***************************************************************************)
(* At most one live node leads itself, for any number of nodes, crashes,   *)
(* departures and late replies, and without any assumption on timing.      *)
(***************************************************************************)
EXTENDS Election, FiniteSetTheorems, TLAPS

\* What the theorem asks of membership: lists start with every lower node, a
\* node that starts has a higher id than the group it joins, and no live node
\* is taken for a failed one.
AccurateViews ==
  /\ ~CanMisjudge
  /\ \A n, m \in Node : m < n => m \in InitialView[n]
  /\ \A n \in Fresh, m \in Node \ Fresh : m < n

-----------------------------------------------------------------------------
(* The inductive invariant *)

\* Membership lists never lose a lower live node.
KnowsLower == \A n, m \in alive : m < n => m \in members[n]

\* Only the lowest live node has ever set the count of confirmations it expects:
\* a node that falls back to naming itself leaves the count at zero.
CountedIsLowest ==
  \A n \in alive : expected[n] # 0 => \A m \in alive : n <= m

\* A confirmation that was counted is still in the count, or a new claim reset
\* the count and expects at least one.
CountedConfirmation ==
  \A q \in reqs : q.from \in alive /\ q.stage = "counted" =>
                    received[q.from] # 0 \/ expected[q.from] # 0

\* A node that leads itself, or is about to announce it, has set that count.
NamedWasCounted ==
  /\ \A n \in alive : leader[n] = n => expected[n] # 0
  /\ \A q \in reqs : q.from \in alive /\ q.stage = "naming" => expected[q.from] # 0

DepartedAreGone == departed \cap alive = {}

IInv == TypeOK /\ DepartedAreGone /\ KnowsLower /\ CountedIsLowest /\ CountedConfirmation /\ NamedWasCounted

-----------------------------------------------------------------------------
(* Type correctness *)

\* Requests that are just made are requests.
LEMMA NewRequestsType ==
  ASSUME NEW kind \in {"start", "claim"}, NEW n \in Node, NEW run \in Nat,
         NEW targets \in SUBSET Node
  PROVE  NewRequests(kind, n, run, targets) \subseteq Request
<1> SUFFICES ASSUME NEW m \in targets
             PROVE  [kind |-> kind, from |-> n, to |-> m, run |-> run,
                     stage |-> "queued", waiting |-> TRUE, old |-> FALSE,
                     seen |-> NoOne] \in Request
  BY DEF NewRequests
<1> QED BY DEF Request

\* A request that changes stage, is given up, ages or remembers is a request.
LEMMA RequestUpdates ==
  ASSUME NEW q \in Request
  PROVE  /\ \A st \in {"queued", "served", "replied", "counted", "naming"} :
              [q EXCEPT !.stage = st] \in Request
         /\ \A st \in {"served", "naming"}, id \in Node \cup {NoOne} :
              [q EXCEPT !.stage = st, !.seen = id] \in Request
         /\ \A b \in BOOLEAN : /\ [q EXCEPT !.waiting = b] \in Request
                              /\ [q EXCEPT !.old = b] \in Request
         /\ q.waiting \in BOOLEAN /\ q.from \in Node /\ q.to \in Node
BY DEF Request

\* A membership list is finite, so its length is a number.
LEMMA ListLength ==
  ASSUME NEW S \in SUBSET Node
  PROVE  /\ IsFiniteSet(S)
         /\ Cardinality(S) \in Nat
         /\ S # {} => Cardinality(S) # 0
<1>1. IsFiniteSet(S)
  BY ElectionAssumption, FS_Subset DEF ElectionAssumption
<1>2. Cardinality(S) \in Nat
  BY <1>1, FS_CardinalityType
<1>3. S # {} => Cardinality(S) # 0
  BY <1>1, FS_EmptySet
<1> QED BY <1>1, <1>2, <1>3

\* Every variable stays in its type, in every behaviour of the election.
LEMMA TypeInit == Init => TypeOK
<1> SUFFICES ASSUME Init PROVE TypeOK
  OBVIOUS
<1>1. expected \in [Node -> Nat]
  BY ListLength DEF Init, SettledCount
<1> QED BY <1>1, ElectionAssumption DEF Init, TypeOK, ElectionAssumption, NoOne

LEMMA TypeStep == TypeOK /\ [Next]_vars => TypeOK'
<1> SUFFICES ASSUME TypeOK, [Next]_vars PROVE TypeOK'
  OBVIOUS
<1> USE DEF TypeOK
<1>1. ASSUME NEW n \in Node, Wake(n) PROVE TypeOK'
  <2>1. threads' \subseteq Thread
    <3>1. CASE started[n]
      BY <1>1, <3>1 DEF Wake
    <3>2. CASE ~started[n]
      <4>1. PICK r \in 1 .. Cardinality(threads) + Cardinality(reqs) + 1 :
              threads' = threads \cup
                {[node |-> n, run |-> r, at |-> "ready", answered |-> FALSE]}
        BY <1>1, <3>2 DEF Wake
      <4>2. r \in Nat
        BY <4>1
      <4>3. [node |-> n, run |-> r, at |-> "ready", answered |-> FALSE] \in Thread
        BY <4>2 DEF Thread
      <4> QED BY <4>1, <4>3
    <3> QED BY <3>1, <3>2
  <2> QED BY <1>1, <2>1 DEF Wake, views, bounds
<1>2. ASSUME NEW t \in threads, ClaimAsLowest(t) PROVE TypeOK'
  <2>1. t.node \in Node /\ t.run \in Nat
    BY DEF Thread
  <2>2. reqs' \subseteq Request
    BY <1>2, <2>1, NewRequestsType DEF ClaimAsLowest
  <2> QED BY <1>2, <2>1, <2>2, ListLength DEF ClaimAsLowest, views, bounds
<1>3. ASSUME NEW t \in threads, AskLower(t) PROVE TypeOK'
  <2>1. t.node \in Node /\ t.run \in Nat
    BY DEF Thread
  <2>2. reqs' \subseteq Request
    BY <1>3, <2>1, NewRequestsType DEF AskLower, LowerIds
  <2>3. threads' \subseteq Thread
    BY <1>3 DEF AskLower, Thread
  <2> QED BY <1>3, <2>1, <2>2, <2>3 DEF AskLower, views, bounds
<1>4. ASSUME NEW t \in threads, Joined(t) PROVE TypeOK'
  <2>1. t.node \in Node /\ t.run \in Nat
    BY DEF Thread
  <2>2. reqs' \subseteq Request
    BY <1>4, <2>1, NewRequestsType DEF Joined
  <2> QED BY <1>4, <2>2 DEF Joined, views, fields, bounds
<1>5. ASSUME NEW q \in reqs, ServeStart(q) PROVE TypeOK'
  <2>1. reqs' \subseteq Request
    BY <1>5, RequestUpdates DEF ServeStart, Answered, Replace
  <2>2. asleep' \in [Node -> SUBSET (0..SleepTicks)]
    <3>1. SleepTicks \in 0..SleepTicks
      BY ElectionAssumption DEF ElectionAssumption
    <3>2. asleep' = [asleep EXCEPT ![q.to] = @ \cup {SleepTicks}]
      BY <1>5 DEF ServeStart, SpawnElection
    <3> QED BY <3>1, <3>2
  <2> QED BY <1>5, <2>1, <2>2 DEF ServeStart, views, fields, bounds
<1>6. ASSUME NEW q \in reqs, ServeOwnClaim(q) PROVE TypeOK'
  <2>1. reqs' \subseteq Request
    BY <1>6, RequestUpdates DEF ServeOwnClaim, Answered, Replace
  <2> QED BY <1>6, <2>1 DEF ServeOwnClaim, views, fields, bounds
<1>7. ASSUME NEW q \in reqs, ServeClaim(q) PROVE TypeOK'
  <2>1. q \in Request /\ q.to \in Node /\ q.from \in Node
    BY RequestUpdates
  <2>2. reqs' \subseteq Request
    <3>1. previous[q.to] \in Node \cup {NoOne}
      BY <2>1
    <3>2. [q EXCEPT !.stage = "served", !.seen = previous[q.to]] \in Request
      BY <2>1, <3>1, RequestUpdates
    <3>3. reqs' = Replace(q, [q EXCEPT !.stage = "served", !.seen = previous[q.to]])
      BY <1>7 DEF ServeClaim
    <3> QED BY <3>2, <3>3 DEF Replace
  <2> QED BY <1>7, <2>1, <2>2 DEF ServeClaim, views, bounds
<1>8. ASSUME NEW q \in reqs, FinishClaim(q) PROVE TypeOK'
  <2>1. q \in Request /\ q.to \in Node /\ q.from \in Node
    BY RequestUpdates
  <2>2. reqs' \subseteq Request
    BY <1>8, RequestUpdates DEF FinishClaim, Answered, Replace
  <2> QED BY <1>8, <2>1, <2>2 DEF FinishClaim, Announce, views, bounds
<1>9. ASSUME NEW q \in reqs, ReceiveOk(q) PROVE TypeOK'
  <2>1. threads' \subseteq Thread
    <3>1. \A t \in Thread : [t EXCEPT !.answered = TRUE] \in Thread
      BY DEF Thread
    <3>2. threads' = {IF t.node = q.from /\ t.run = q.run
                      THEN [t EXCEPT !.answered = TRUE] ELSE t : t \in threads}
      BY <1>9 DEF ReceiveOk
    <3> QED BY <3>1, <3>2
  <2> QED BY <1>9, <2>1 DEF ReceiveOk, views, bounds
<1>10. ASSUME NEW q \in reqs, CountConfirmation(q) PROVE TypeOK'
  <2>1. q \in Request /\ q.from \in Node
    BY RequestUpdates
  <2>2. reqs' \subseteq Request
    BY <1>10, RequestUpdates DEF CountConfirmation, Replace
  <2> QED BY <1>10, <2>1, <2>2 DEF CountConfirmation, views, bounds
<1>11. ASSUME NEW q \in reqs, CheckConfirmations(q) PROVE TypeOK'
  <2>1. q \in Request /\ q.from \in Node
    BY RequestUpdates
  <2>2. reqs' \subseteq Request
    <3>1. previous[q.from] \in Node \cup {NoOne}
      BY <2>1
    <3>2. [q EXCEPT !.stage = "naming", !.seen = previous[q.from]] \in Request
      BY <2>1, <3>1, RequestUpdates
    <3> QED BY <1>11, <3>2 DEF CheckConfirmations, Replace
  <2> QED BY <1>11, <2>1, <2>2 DEF CheckConfirmations, views, bounds
<1>12. ASSUME NEW q \in reqs, NameSelf(q) PROVE TypeOK'
  <2>1. q \in Request /\ q.from \in Node
    BY RequestUpdates
  <2> QED BY <1>12, <2>1 DEF NameSelf, Announce, views, bounds
<1>13. ASSUME NEW q \in reqs, Timeout(q) PROVE TypeOK'
  <2>1. reqs' \subseteq Request
    BY <1>13, RequestUpdates DEF Timeout, Replace
  <2>2. timeouts' \in Nat
    BY <1>13 DEF Timeout
  <2> QED BY <1>13, <2>1, <2>2 DEF Timeout, views, fields
<1>14. CASE Tick
  <2>1. reqs' \subseteq Request
    <3>1. \A q \in reqs : [q EXCEPT !.old = q.waiting] \in Request
      BY RequestUpdates
    <3> QED BY <1>14, <3>1 DEF Tick
  <2>2. asleep' \in [Node -> SUBSET (0..SleepTicks)]
    <3>1. ASSUME NEW n \in Node, NEW k \in asleep[n]
          PROVE  k - 1 \in 0..SleepTicks
      <4>1. k # 0 /\ k \in 0..SleepTicks
        BY <1>14 DEF Tick
      <4> QED BY <4>1, ElectionAssumption DEF ElectionAssumption
    <3> QED BY <1>14, <3>1 DEF Tick
  <2> QED BY <1>14, <2>1, <2>2 DEF Tick, views, fields, bounds
<1>15. ASSUME NEW n \in Node, Stop(n) PROVE /\ alive' \subseteq Node
                                            /\ asleep' \in [Node -> SUBSET (0..SleepTicks)]
                                            /\ threads' \subseteq Thread
                                            /\ reqs' \subseteq Request
                                            /\ UNCHANGED <<members, fields, timeouts>>
  BY <1>15, RequestUpdates DEF Stop
<1>16. ASSUME NEW n \in Node, Crash(n) PROVE TypeOK'
  BY <1>15, <1>16 DEF Crash, fields
<1>17. ASSUME NEW n \in Node, Leave(n) PROVE TypeOK'
  BY <1>15, <1>17 DEF Leave, fields
<1>18. ASSUME NEW n \in Node, Detection(n) PROVE TypeOK'
  <2>1. asleep' \in [Node -> SUBSET (0..SleepTicks)]
    BY <1>18, ElectionAssumption
    DEF Detection, DetectFailure, ForgetLeaver, Learn, SpawnElection, ElectionAssumption
  <2> QED BY <1>18, <2>1 DEF Detection, DetectFailure, ForgetLeaver, Learn, fields, bounds
<1>19. CASE UNCHANGED vars
  BY <1>19 DEF vars, views, fields, bounds
<1> QED
  BY <1>1, <1>2, <1>3, <1>4, <1>5, <1>6, <1>7, <1>8, <1>9, <1>10, <1>11, <1>12,
     <1>13, <1>14, <1>16, <1>17, <1>18, <1>19
  DEF Next, ElectionStep, ServiceStep, SenderStep

-----------------------------------------------------------------------------
(* The other conjuncts of the invariant *)

LEMMA InvInit == AccurateViews /\ Init => IInv
<1> SUFFICES ASSUME AccurateViews, Init PROVE IInv
  OBVIOUS
<1>1. KnowsLower /\ DepartedAreGone
  BY DEF AccurateViews, Init, KnowsLower, DepartedAreGone
<1>2. ASSUME NEW n \in Node, expected[n] # 0 PROVE IsSettledLeader(n)
  BY <1>2 DEF Init, SettledCount
<1>3. CountedIsLowest
  BY <1>2, ElectionAssumption
  DEF CountedIsLowest, IsSettledLeader, AccurateViews, Init, ElectionAssumption
<1>4. ASSUME NEW n \in Node, leader[n] = n PROVE expected[n] # 0
  <2>1. n # NoOne
    BY ElectionAssumption DEF ElectionAssumption
  <2>2. IsSettledLeader(n)
    BY <1>4, <2>1 DEF Init
  <2>3. Cardinality(Node \ Fresh) # 0
    BY <2>2, ListLength DEF IsSettledLeader
  <2> QED BY <2>2, <2>3 DEF Init, SettledCount
<1>5. CountedConfirmation /\ NamedWasCounted
  BY <1>4 DEF CountedConfirmation, NamedWasCounted, Init
<1> QED BY <1>1, <1>3, <1>5, TypeInit DEF IInv

\* Only crashes, departures and gossip touch the views, and none of them takes
\* a live lower node out of a list.
LEMMA ViewsStep ==
  ASSUME TypeOK, AccurateViews, KnowsLower, DepartedAreGone, [Next]_vars
  PROVE  KnowsLower' /\ DepartedAreGone'
<1> USE DEF KnowsLower, DepartedAreGone
<1>1. ASSUME NEW n \in Node, Crash(n) \/ Leave(n) PROVE KnowsLower' /\ DepartedAreGone'
  BY <1>1 DEF Crash, Leave, Stop, TypeOK
<1>2. ASSUME NEW n \in Node, Detection(n) PROVE KnowsLower' /\ DepartedAreGone'
  BY <1>2 DEF Detection, DetectFailure, ForgetLeaver, Learn, AccurateViews, TypeOK
<1>3. CASE UNCHANGED views
  BY <1>3 DEF views
<1>4. UNCHANGED views \/ \E n \in Node : Crash(n) \/ Leave(n) \/ Detection(n)
  BY DEF Next, ElectionStep, ServiceStep, SenderStep, vars, Wake, ClaimAsLowest,
         AskLower, Joined, ServeStart, ServeOwnClaim, ServeClaim, FinishClaim,
         ReceiveOk, CountConfirmation, CheckConfirmations, NameSelf, Timeout, Tick
<1> QED BY <1>1, <1>2, <1>3, <1>4

\* Live nodes stay a subset of the live nodes.
LEMMA AliveShrinks == [Next]_vars => alive' \subseteq alive
BY DEF Next, ElectionStep, ServiceStep, SenderStep, vars, views, Wake, ClaimAsLowest,
       AskLower, Joined, ServeStart, ServeOwnClaim, ServeClaim, FinishClaim,
       ReceiveOk, CountConfirmation, CheckConfirmations, NameSelf, Timeout, Tick,
       Crash, Leave, Stop, Detection, DetectFailure, ForgetLeaver, Learn

\* Only a claim as the lowest id sets the count that is expected.
LEMMA ExpectedStep ==
  ASSUME [Next]_vars
  PROVE  UNCHANGED expected \/ \E t \in threads : ClaimAsLowest(t)
BY DEF Next, ElectionStep, ServiceStep, SenderStep, vars, fields, Wake,
       AskLower, Joined, ServeStart, ServeOwnClaim, ServeClaim, FinishClaim,
       ReceiveOk, CountConfirmation, CheckConfirmations, NameSelf, Timeout, Tick,
       Crash, Leave, Stop, Detection, DetectFailure, ForgetLeaver, Learn

LEMMA CountedIsLowestStep ==
  ASSUME TypeOK, KnowsLower, CountedIsLowest, [Next]_vars
  PROVE  CountedIsLowest'
<1>1. CASE UNCHANGED expected
  BY <1>1, AliveShrinks DEF CountedIsLowest
<1>2. ASSUME NEW t \in threads, ClaimAsLowest(t) PROVE CountedIsLowest'
  <2>1. t.node \in alive /\ alive' = alive
    BY <1>2 DEF ClaimAsLowest, views
  <2>2. \A m \in alive : t.node <= m
    <3> SUFFICES ASSUME NEW m \in alive, ~(t.node <= m) PROVE FALSE
      OBVIOUS
    <3>1. t.node \in Nat /\ m \in Nat /\ m \in Node
      BY <2>1, ElectionAssumption DEF TypeOK, ElectionAssumption
    <3>2. m < t.node
      BY <3>1
    <3>3. m \in LowerIds(t.node)
      BY <2>1, <3>2 DEF KnowsLower, LowerIds
    <3> QED BY <1>2, <3>3 DEF ClaimAsLowest
  <2> QED BY <1>2, <2>1, <2>2 DEF ClaimAsLowest, CountedIsLowest, TypeOK
<1> QED BY <1>1, <1>2, ExpectedStep

\* Giving a request another stage, giving it up or letting it age leaves the rest.
LEMMA StageUpdates ==
  ASSUME NEW q \in Request
  PROVE  /\ \A st : /\ [q EXCEPT !.stage = st].stage = st
                    /\ [q EXCEPT !.stage = st].from = q.from
         /\ \A st, id : /\ [q EXCEPT !.stage = st, !.seen = id].stage = st
                        /\ [q EXCEPT !.stage = st, !.seen = id].from = q.from
         /\ \A b : /\ [q EXCEPT !.waiting = b].stage = q.stage
                   /\ [q EXCEPT !.waiting = b].from = q.from
                   /\ [q EXCEPT !.old = b].stage = q.stage
                   /\ [q EXCEPT !.old = b].from = q.from
BY DEF Request

\* A request reaches the last two stages by these two actions only.
LEMMA StageStep ==
  ASSUME TypeOK, [Next]_vars, NEW r \in reqs', r.stage \in {"counted", "naming"}
  PROVE  \/ \E q \in reqs : q.from = r.from /\ q.stage = r.stage
         \/ \E q \in reqs : CountConfirmation(q) /\ q.from = r.from /\ r.stage = "counted"
         \/ \E q \in reqs : CheckConfirmations(q) /\ q.from = r.from /\ r.stage = "naming"
                            /\ expected[q.from] = received[q.from]
<1> DEFINE Kept == \E q \in reqs : q.from = r.from /\ q.stage = r.stage
<1>0. \A q \in reqs : q \in Request
  BY DEF TypeOK
<1>1. ASSUME NEW n \in Node, Wake(n) PROVE Kept
  BY <1>1 DEF Wake
<1>2. ASSUME NEW t \in threads, ClaimAsLowest(t) \/ AskLower(t) \/ Joined(t) PROVE Kept
  BY <1>2 DEF ClaimAsLowest, AskLower, Joined, NewRequests
<1>3. ASSUME NEW q \in reqs, ServeStart(q) \/ ServeOwnClaim(q) \/ FinishClaim(q) PROVE Kept
  <2>1. r \in reqs \/ r = [q EXCEPT !.stage = "replied"]
    BY <1>3 DEF ServeStart, ServeOwnClaim, FinishClaim, Answered, Replace
  <2>2. [q EXCEPT !.stage = "replied"].stage = "replied"
    BY <1>0, StageUpdates
  <2> QED BY <2>1, <2>2
<1>4. ASSUME NEW q \in reqs, ServeClaim(q) PROVE Kept
  <2>1. r \in reqs \/ r = [q EXCEPT !.stage = "served", !.seen = previous[q.to]]
    BY <1>4 DEF ServeClaim, Replace
  <2>2. [q EXCEPT !.stage = "served", !.seen = previous[q.to]].stage = "served"
    BY <1>0, StageUpdates
  <2> QED BY <2>1, <2>2
<1>5. ASSUME NEW q \in reqs, ReceiveOk(q) \/ NameSelf(q) PROVE Kept
  BY <1>5 DEF ReceiveOk, NameSelf
<1>6. ASSUME NEW q \in reqs, CountConfirmation(q)
      PROVE  Kept \/ (q.from = r.from /\ r.stage = "counted")
  <2>1. r \in reqs \/ r = [q EXCEPT !.stage = "counted"]
    BY <1>6 DEF CountConfirmation, Replace
  <2>2. /\ [q EXCEPT !.stage = "counted"].stage = "counted"
        /\ [q EXCEPT !.stage = "counted"].from = q.from
    BY <1>0, StageUpdates
  <2> QED BY <2>1, <2>2
<1>7. ASSUME NEW q \in reqs, CheckConfirmations(q)
      PROVE  Kept \/ (q.from = r.from /\ r.stage = "naming" /\ expected[q.from] = received[q.from])
  <2>1. CASE AllConfirmed(q.from)
    <3>1. r \in reqs \/ r = [q EXCEPT !.stage = "naming", !.seen = previous[q.from]]
      BY <1>7, <2>1 DEF CheckConfirmations, Replace
    <3>2. /\ [q EXCEPT !.stage = "naming", !.seen = previous[q.from]].stage = "naming"
          /\ [q EXCEPT !.stage = "naming", !.seen = previous[q.from]].from = q.from
      BY <1>0, StageUpdates
    <3> QED BY <2>1, <3>1, <3>2 DEF AllConfirmed
  <2>2. CASE ~AllConfirmed(q.from)
    BY <1>7, <2>2 DEF CheckConfirmations
  <2> QED BY <2>1, <2>2
<1>8. ASSUME NEW q \in reqs, Timeout(q) PROVE Kept
  <2>1. r \in reqs \/ r = [q EXCEPT !.waiting = FALSE]
    BY <1>8 DEF Timeout, Replace
  <2>2. /\ [q EXCEPT !.waiting = FALSE].stage = q.stage
        /\ [q EXCEPT !.waiting = FALSE].from = q.from
    BY <1>0, StageUpdates
  <2> QED BY <2>1, <2>2
<1>9. CASE Tick
  <2>1. PICK q \in reqs : r = [q EXCEPT !.old = q.waiting]
    BY <1>9 DEF Tick
  <2> QED BY <2>1, <1>0, StageUpdates
<1>10. ASSUME NEW n \in Node, Crash(n) \/ Leave(n) PROVE Kept
  <2>1. Stop(n)
    BY <1>10 DEF Crash, Leave
  <2>2. PICK q \in reqs : r = IF q.from = n THEN [q EXCEPT !.waiting = FALSE] ELSE q
    BY <2>1 DEF Stop
  <2> QED BY <2>2, <1>0, StageUpdates
<1>11. ASSUME NEW n \in Node, Detection(n) PROVE Kept
  BY <1>11 DEF Detection, DetectFailure, ForgetLeaver, Learn
<1>12. CASE UNCHANGED vars
  BY <1>12 DEF vars
<1> QED
  BY <1>1, <1>2, <1>3, <1>4, <1>5, <1>6, <1>7, <1>8, <1>9, <1>10, <1>11, <1>12
  DEF Next, ElectionStep, ServiceStep, SenderStep

\* Only a confirmation and a new claim touch the counts.
LEMMA CountsStep ==
  ASSUME [Next]_vars
  PROVE  \/ UNCHANGED <<received, expected>>
         \/ \E t \in threads : ClaimAsLowest(t)
         \/ \E q \in reqs : CountConfirmation(q)
BY ZenonT(60) DEF Next, ElectionStep, ServiceStep, SenderStep, vars, fields, Wake,
       AskLower, Joined, ServeStart, ServeOwnClaim, ServeClaim, FinishClaim,
       ReceiveOk, CheckConfirmations, NameSelf, Timeout, Tick,
       Crash, Leave, Stop, Detection, DetectFailure, ForgetLeaver, Learn

\* Only setNewLeader touches leaderId.
LEMMA LeaderStep ==
  ASSUME [Next]_vars
  PROVE  \/ UNCHANGED leader
         \/ \E q \in reqs : ServeClaim(q)
         \/ \E q \in reqs : CheckConfirmations(q) /\ expected[q.from] = received[q.from]
                            /\ leader' = [leader EXCEPT ![q.from] = q.from]
BY DEF Next, ElectionStep, ServiceStep, SenderStep, vars, fields, Wake, ClaimAsLowest,
       AskLower, Joined, ServeStart, ServeOwnClaim, FinishClaim,
       ReceiveOk, CountConfirmation, CheckConfirmations, AllConfirmed, NameSelf, Timeout, Tick,
       Crash, Leave, Stop, Detection, DetectFailure, ForgetLeaver, Learn

\* A claim as the lowest id expects the confirmation of its own node at least.
LEMMA ClaimCounts ==
  ASSUME TypeOK, NEW t \in threads, ClaimAsLowest(t)
  PROVE  /\ t.node \in Node
         /\ expected'[t.node] # 0
         /\ \A n \in Node \ {t.node} : expected'[n] = expected[n] /\ received'[n] = received[n]
<1>1. t.node \in Node /\ members[t.node] \in SUBSET Node
  BY DEF TypeOK, Thread
<1> QED BY <1>1, ListLength DEF ClaimAsLowest, TypeOK

\* A confirmation that is in the count stays there until a claim resets it.
LEMMA CountedConfirmationStep ==
  ASSUME TypeOK, CountedConfirmation, [Next]_vars
  PROVE  CountedConfirmation'
<1> SUFFICES ASSUME NEW r \in reqs', r.from \in alive', r.stage = "counted"
             PROVE  received'[r.from] # 0 \/ expected'[r.from] # 0
  BY DEF CountedConfirmation
<1>1. r.from \in alive /\ r.from \in Node
  BY AliveShrinks DEF TypeOK
<1>2. \/ received[r.from] # 0 \/ expected[r.from] # 0
      \/ \E q \in reqs : CountConfirmation(q) /\ q.from = r.from
  BY <1>1, StageStep DEF CountedConfirmation
<1>3. ASSUME NEW q \in reqs, CountConfirmation(q)
      PROVE  /\ q.from \in Node => received'[q.from] # 0
             /\ \A n \in Node \ {q.from} : received'[n] = received[n]
             /\ expected' = expected
  BY <1>3 DEF CountConfirmation, TypeOK
<1>4. CASE UNCHANGED <<received, expected>>
  BY <1>1, <1>2, <1>3, <1>4
<1>5. ASSUME NEW t \in threads, ClaimAsLowest(t)
      PROVE  received'[r.from] # 0 \/ expected'[r.from] # 0
  BY <1>1, <1>2, <1>3, <1>5, ClaimCounts
<1>6. ASSUME NEW q \in reqs, CountConfirmation(q)
      PROVE  received'[r.from] # 0 \/ expected'[r.from] # 0
  BY <1>1, <1>2, <1>3, <1>6
<1> QED BY <1>4, <1>5, <1>6, CountsStep

\* A count of confirmations is never taken back to zero.
LEMMA ExpectedStays ==
  ASSUME TypeOK, [Next]_vars, NEW n \in Node, expected[n] # 0
  PROVE  expected'[n] # 0
BY ExpectedStep, ClaimCounts

\* Who names itself has compared a confirmation that counted with a count it set.
LEMMA NamedWasCountedStep ==
  ASSUME TypeOK, CountedConfirmation, NamedWasCounted, [Next]_vars
  PROVE  NamedWasCounted'
<1>0. alive' \subseteq alive /\ alive \subseteq Node
  BY AliveShrinks DEF TypeOK
<1>1. ASSUME NEW q \in reqs, CheckConfirmations(q), expected[q.from] = received[q.from]
      PROVE  q.from \in Node /\ expected[q.from] # 0
  BY <1>0, <1>1 DEF CheckConfirmations, CountedConfirmation
<1>2. ASSUME NEW n \in alive', leader'[n] = n PROVE expected'[n] # 0
  <2>1. expected[n] # 0
    <3>1. CASE UNCHANGED leader
      BY <1>0, <1>2, <3>1 DEF NamedWasCounted
    <3>2. ASSUME NEW q \in reqs, ServeClaim(q) PROVE expected[n] # 0
      <4>1. leader[n] = n
        BY <1>0, <1>2, <3>2 DEF ServeClaim, TypeOK
      <4> QED BY <1>0, <4>1 DEF NamedWasCounted
    <3>3. ASSUME NEW q \in reqs, CheckConfirmations(q), expected[q.from] = received[q.from],
                 leader' = [leader EXCEPT ![q.from] = q.from]
          PROVE  expected[n] # 0
      <4>1. n = q.from \/ leader[n] = n
        BY <1>0, <1>2, <3>3 DEF TypeOK
      <4> QED BY <1>0, <1>1, <3>3, <4>1 DEF NamedWasCounted
    <3> QED BY <3>1, <3>2, <3>3, LeaderStep
  <2> QED BY <1>0, <2>1, ExpectedStays
<1>3. ASSUME NEW r \in reqs', r.from \in alive', r.stage = "naming" PROVE expected'[r.from] # 0
  <2>1. expected[r.from] # 0
    BY <1>0, <1>1, <1>3, StageStep DEF NamedWasCounted
  <2> QED BY <1>0, <1>3, <2>1, ExpectedStays
<1> QED BY <1>2, <1>3 DEF NamedWasCounted

-----------------------------------------------------------------------------
(* The theorems *)

\* Every variable of the election stays in its type, whatever the timing, the
\* failures and the membership lists.
THEOREM TypeCorrect == Spec => []TypeOK
<1> QED BY TypeInit, TypeStep, PTL DEF Spec

\* The strengthened invariant holds in every reachable state.
THEOREM Invariance == AccurateViews => (Spec => []IInv)
<1> SUFFICES ASSUME AccurateViews PROVE Spec => []IInv
  OBVIOUS
<1>1. Init => IInv
  BY InvInit
<1>2. IInv /\ [Next]_vars => IInv'
  BY TypeStep, ViewsStep, CountedIsLowestStep, CountedConfirmationStep,
     NamedWasCountedStep DEF IInv
<1> QED BY <1>1, <1>2, PTL DEF Spec

\* Only the lowest live node leads itself, as setNewLeader is reached at a
\* sender only through a count that sendElectionStart's fallback never sets.
THEOREM LowestLeads == AccurateViews => (Spec => []LeaderIsLowest)
<1>1. IInv => LeaderIsLowest
  BY DEF IInv, NamedWasCounted, CountedIsLowest, LeaderIsLowest
<1> QED BY <1>1, Invariance, PTL

\* Two live nodes never both lead themselves, however late, lost or repeated the
\* replies of an election are.
THEOREM OneLeader == AccurateViews => (Spec => []AtMostOneLeader)
<1>1. IInv => AtMostOneLeader
  <2> SUFFICES ASSUME IInv, NEW n \in alive, NEW m \in alive, leader[n] = n, leader[m] = m
               PROVE  n = m
    BY DEF AtMostOneLeader
  <2>1. n <= m /\ m <= n
    BY DEF IInv, NamedWasCounted, CountedIsLowest
  <2> QED BY <2>1, ElectionAssumption DEF IInv, TypeOK, ElectionAssumption
<1> QED BY <1>1, Invariance, PTL
=============================================================================
