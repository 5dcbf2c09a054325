-------------------------- MODULE ReplicationProofs --------------------------
(***************************************************************************)
(* Who commands, and which service threads wait for each other             *)
(* (RoundsExplained of Replication), for any number of nodes and files.    *)
(* Only the leader's threads send commands, whatever crashes, leaves and   *)
(* is elected, so a service thread dies of no command but one of a master  *)
(* that has crashed.  Neither needs to know which node an election makes   *)
(* the leader, only that the one before it does not run any more.  While   *)
(* every node runs only one thread sends commands, one at a time, so that  *)
(* only one service thread waits; and a source never is a target of what   *)
(* is to be kept.                                                          *)
(***************************************************************************)
EXTENDS Replication, SequenceTheorems, FiniteSetTheorems, WellFoundedInduction, TLAPS

-----------------------------------------------------------------------------
(* Who commands *)

\* The states of what the argument looks at: functions, and commands that say
\* where they go and how far they are.
Shape ==
  /\ alive \subseteq Node
  /\ job = [t \in Thread |-> job[t]]
  /\ call = [t \in Thread |-> call[t]]
  /\ map = [m \in Node |-> map[m]]
  /\ service = [n \in Node |-> service[n]]
  /\ \A t \in Thread : /\ "state" \in DOMAIN call[t]
                       /\ call[t].state # "none" => "to" \in DOMAIN call[t]

\* No node is dropped from the list while it runs, unless it left.
AliveListed == members \subseteq Node /\ alive \subseteq members /\ reported \cap alive = {}

Repairs == {RepairTask(lost) : lost \in SUBSET Node}
Followers == alive \ {leader}

\* A node that does not lead knows of no files, and its threads have nothing to
\* do but to replicate anew what it does not know of.
NobodyElse ==
  /\ \A n \in Followers : map[n] = [k \in Node |-> {}]
  /\ \A t \in Thread : NodeOf(t) \in Followers =>
       call[t] = NoCall /\ job[t] \in Seq(Repairs)

\* A service thread that died has refused a command of a node that has crashed.
Killers ==
  \A n \in alive : service[n].state = "dead" =>
    \E t \in Thread : call[t].state = "refused" /\ call[t].to = n /\ NodeOf(t) \notin alive

IInv == Shape /\ AliveListed /\ NobodyElse /\ Killers

-----------------------------------------------------------------------------
LEMMA ThreadNodes == \A t \in Thread : NodeOf(t) \in Node
BY DEF Thread, NodeOf

LEMMA InvInit == Init => IInv
<1> SUFFICES ASSUME Init PROVE IInv
  OBVIOUS
<1>1. Shape
  BY DEF Init, Shape, NoCall
<1>2. AliveListed
  BY DEF Init, AliveListed
<1>3. NobodyElse
  BY DEF Init, NobodyElse, Followers, Thread, NodeOf
<1>4. Killers
  BY DEF Init, Killers, Idle
<1> QED BY <1>1, <1>2, <1>3, <1>4 DEF IInv

-----------------------------------------------------------------------------
(* The shape of the variables *)

LEMMA ShapeStep == Shape /\ [Next]_vars => Shape'
<1> SUFFICES ASSUME Shape, [Next]_vars PROVE Shape'
  OBVIOUS
<1> USE DEF Shape
<1>1. CASE UNCHANGED vars
  BY <1>1 DEF vars, groupVars, nodeVars, masterVars
<1>2. ASSUME NEW n \in Node, NEW op, NEW f, Ask(n, op, f) PROVE Shape'
  BY <1>2 DEF Ask, groupVars, masterVars
<1>3. ASSUME NEW n \in Node, GiveUp(n) PROVE Shape'
  BY <1>3 DEF GiveUp, groupVars, masterVars
<1>4. ASSUME NEW n \in Node, Copy(n) PROVE Shape'
  BY <1>4 DEF Copy, groupVars, masterVars
<1>5. ASSUME NEW n \in Node, Serve(n) PROVE Shape'
  <2>1. <<n, "serve">> \in Thread
    BY DEF Thread
  <2>2. PICK q \in mail : \/ ServePut(<<n, "serve">>, q) \/ ServeGet(<<n, "serve">>, q)
                          \/ ServeDelete(<<n, "serve">>, q) \/ ServeUpdate(<<n, "serve">>, q)
    BY <1>5 DEF Serve
  <2>3. UNCHANGED <<alive, service>>
    BY <1>5 DEF Serve, groupVars
  <2>4. CASE ServePut(<<n, "serve">>, q)
    <3>1. UNCHANGED <<alive, service, call>>
      BY <2>3, <2>4 DEF ServePut
    <3>2. map' = map \/ \E k, S : map' = [map EXCEPT ![NodeOf(<<n, "serve">>)][k] = S]
      BY <2>4 DEF ServePut
    <3>3. job' = job \/ \E e : job' = [job EXCEPT ![<<n, "serve">>] = e]
      BY <2>4 DEF ServePut
    <3>4. map' = [m \in Node |-> map'[m]]
      BY <3>2
    <3>5. job' = [t \in Thread |-> job'[t]]
      BY <3>3
    <3> QED BY <3>1, <3>4, <3>5
  <2>5. CASE ServeGet(<<n, "serve">>, q)
    <3>1. UNCHANGED <<alive, service, map>>
      BY <2>3, <2>5 DEF ServeGet
    <3>2. job' = job \/ \E e : job' = [job EXCEPT ![<<n, "serve">>] = e]
      BY <2>5 DEF ServeGet
    <3>3. job' = [t \in Thread |-> job'[t]]
      BY <3>2
    <3>4. \/ call' = call
          \/ \E k, S : call' = [call EXCEPT ![<<n, "serve">>] = ReplicateCall(k, q.file, S, FALSE)]
      BY <2>5 DEF ServeGet
    <3>5. \A k, S : LET c == ReplicateCall(k, q.file, S, FALSE)
                   IN  "state" \in DOMAIN c /\ "to" \in DOMAIN c
      BY DEF ReplicateCall
    <3>6. call' = call
          \/ \E c : "state" \in DOMAIN c /\ "to" \in DOMAIN c /\ call' = [call EXCEPT ![<<n, "serve">>] = c]
      BY <3>4, <3>5
    <3>7. /\ call' = [t \in Thread |-> call'[t]]
          /\ \A t \in Thread : /\ "state" \in DOMAIN call'[t]
                               /\ call'[t].state # "none" => "to" \in DOMAIN call'[t]
      BY <3>6
    <3> QED BY <3>1, <3>3, <3>7
  <2>6. CASE ServeDelete(<<n, "serve">>, q)
    BY <2>1, <2>3, <2>6 DEF ServeDelete
  <2>7. CASE ServeUpdate(<<n, "serve">>, q)
    BY <2>1, <2>3, <2>7 DEF ServeUpdate
  <2> QED BY <2>2, <2>4, <2>5, <2>6, <2>7
<1>6. ASSUME NEW n \in Node, Obey(n) PROVE Shape'
  <2>1. PICK t \in Thread : /\ call[t].state = "sent"
                            /\ Refuse(n, t) \/ DoList(n, t) \/ DoDelete(n, t) \/ DoReplicate(n, t)
    BY <1>6 DEF Obey
  <2>2. UNCHANGED <<alive, map, job>>
    BY <1>6 DEF Obey, groupVars
  <2>3. CASE Refuse(n, t)
    BY <2>1, <2>2, <2>3 DEF Refuse
  <2>4. CASE DoList(n, t)
    BY <2>1, <2>2, <2>4 DEF DoList
  <2>5. CASE DoDelete(n, t)
    BY <2>1, <2>2, <2>5 DEF DoDelete, Done
  <2>6. CASE DoReplicate(n, t)
    BY <2>1, <2>2, <2>6 DEF DoReplicate
  <2> QED BY <2>1, <2>3, <2>4, <2>5, <2>6
<1>7. ASSUME NEW n \in Node, Announce(n) PROVE Shape'
  <2>1. UNCHANGED <<alive, map, job>>
    BY <1>7 DEF Announce, groupVars
  <2>2. service' = [k \in Node |-> service'[k]]
    BY <1>7 DEF Announce
  <2> DEFINE by == service[n].by
             final == service[n].targets = {Lowest(service[n].targets)}
  <2>3. CASE ~final
    <3>1. call' = call
      BY <1>7, <2>3 DEF Announce
    <3> QED BY <2>1, <2>2, <3>1
  <2>4. CASE final
    <3>1. call' = IF call[by].state = "taken" THEN [call EXCEPT ![by].state = "done"] ELSE call
      BY <1>7, <2>4 DEF Announce, Done
    <3> HIDE DEF by
    <3> QED BY <2>1, <2>2, <3>1
  <2> QED BY <2>3, <2>4
<1>8. ASSUME NEW n \in Node, Crash(n) \/ Leave(n) PROVE Shape'
  <2>1. UNCHANGED <<map, service>> /\ alive' = alive \ {n}
    BY <1>8 DEF Crash, Leave, Gone
  <2>2. PICK delivered \in BOOLEAN :
          call' = [t \in Thread |-> IF NodeOf(t) = n /\ ~delivered THEN NoCall ELSE call[t]]
    BY <1>8 DEF Crash, Leave, Gone
  <2>3. job' = [t \in Thread |-> IF NodeOf(t) = n THEN << >> ELSE job[t]]
    BY <1>8 DEF Crash, Leave, Gone
  <2> QED BY <2>1, <2>2, <2>3 DEF NoCall
<1>9. ASSUME NEW n \in Node, Report(n) PROVE Shape'
  BY <1>9 DEF Report, nodeVars
<1>10. ASSUME NEW n \in Node, Erase(n) PROVE Shape'
  BY <1>10 DEF Erase, nodeVars, masterVars
<1>11. ASSUME NEW t \in Thread, Work(t) PROVE Shape'
  <2>1. UNCHANGED <<alive, service>>
    BY <1>11 DEF Work, groupVars, nodeVars
  <2>2. CASE Repair(t)
    BY <2>1, <2>2 DEF Repair
  <2>3. CASE Replicate(t)
    <3>1. UNCHANGED map /\ job' = [u \in Thread |-> job'[u]]
      BY <2>3 DEF Replicate, Rest
    <3>2. call' = call \/ \E c \in Draws(NodeOf(t), Head(job[t]).file) : call' = [call EXCEPT ![t] = c]
      BY <2>3 DEF Replicate
    <3>3. \A m, f : \A c \in Draws(m, f) : "state" \in DOMAIN c /\ "to" \in DOMAIN c
      BY DEF Draws, ReplicateCall
    <3> QED BY <2>1, <3>1, <3>2, <3>3
  <2>4. CASE Command(t)
    BY <2>1, <2>4 DEF Command, Call
  <2> QED BY <1>11, <2>2, <2>3, <2>4 DEF Work
<1>12. ASSUME NEW t \in Thread, Return(t) PROVE Shape'
  <2>1. UNCHANGED <<alive, service>>
    BY <1>12 DEF Return, groupVars, nodeVars
  <2>2. map' = [m \in Node |-> map'[m]]
    BY <1>12 DEF Return
  <2>3. job' = [u \in Thread |-> job'[u]]
    BY <1>12 DEF Return, Rest
  <2>4. call' = [call EXCEPT ![t] = NoCall]
    BY <1>12 DEF Return
  <2> QED BY <2>1, <2>2, <2>3, <2>4 DEF NoCall
<1>13. ASSUME NEW x \in fetches, Fetched(x) PROVE Shape'
  BY <1>13 DEF Fetched, groupVars, masterVars
<1>14. CASE Elect
  BY <1>14 DEF Elect, nodeVars
<1> QED BY <1>1, <1>2, <1>3, <1>4, <1>5, <1>6, <1>7, <1>8, <1>9, <1>10, <1>11, <1>12,
           <1>13, <1>14 DEF Next

-----------------------------------------------------------------------------
(* Who runs and who leads, from step to step *)

\* Only failures, reports of them and elections change the group.
LEMMA GroupSteps ==
  ASSUME [Next]_vars
  PROVE  \/ UNCHANGED groupVars
         \/ Elect
         \/ \E n \in Node : Crash(n) \/ Leave(n) \/ Report(n) \/ Erase(n)
<1>1. CASE UNCHANGED vars
  BY <1>1 DEF vars
<1>2. ASSUME NEW n \in Node, NEW op, NEW f, Ask(n, op, f) PROVE UNCHANGED groupVars
  BY <1>2 DEF Ask
<1>3. ASSUME NEW n \in Node, GiveUp(n) PROVE UNCHANGED groupVars
  BY <1>3 DEF GiveUp
<1>4. ASSUME NEW n \in Node, Copy(n) PROVE UNCHANGED groupVars
  BY <1>4 DEF Copy
<1>5. ASSUME NEW n \in Node, Serve(n) PROVE UNCHANGED groupVars
  BY <1>5 DEF Serve
<1>6. ASSUME NEW n \in Node, Obey(n) PROVE UNCHANGED groupVars
  BY <1>6 DEF Obey
<1>7. ASSUME NEW n \in Node, Announce(n) PROVE UNCHANGED groupVars
  BY <1>7 DEF Announce
<1>8. ASSUME NEW t \in Thread, Work(t) PROVE UNCHANGED groupVars
  BY <1>8 DEF Work
<1>9. ASSUME NEW t \in Thread, Return(t) PROVE UNCHANGED groupVars
  BY <1>9 DEF Return
<1>10. ASSUME NEW x \in fetches, Fetched(x) PROVE UNCHANGED groupVars
  BY <1>10 DEF Fetched
<1> QED BY <1>1, <1>2, <1>3, <1>4, <1>5, <1>6, <1>7, <1>8, <1>9, <1>10 DEF Next

LEMMA AliveShrinks == ASSUME [Next]_vars PROVE alive' \subseteq alive
<1>1. UNCHANGED groupVars \/ Elect => alive' = alive
  BY DEF Elect, groupVars
<1>2. \A n \in Node : Crash(n) \/ Leave(n) => alive' \subseteq alive
  BY DEF Crash, Leave, Gone
<1>3. \A n \in Node : Report(n) \/ Erase(n) => alive' = alive
  BY DEF Report, Erase
<1> QED BY <1>1, <1>2, <1>3, GroupSteps

-----------------------------------------------------------------------------
(* Who runs is listed *)

LEMMA AliveListedStep == AliveListed /\ [Next]_vars => AliveListed'
<1> SUFFICES ASSUME AliveListed, [Next]_vars PROVE AliveListed'
  OBVIOUS
<1> USE DEF AliveListed
<1>1. CASE UNCHANGED groupVars
  BY <1>1 DEF groupVars
<1>2. ASSUME NEW n \in Node, Crash(n) PROVE AliveListed'
  BY <1>2 DEF Crash, Gone
<1>3. ASSUME NEW n \in Node, Leave(n) PROVE AliveListed'
  BY <1>3 DEF Leave, Gone
<1>4. ASSUME NEW n \in Node, Report(n) PROVE AliveListed'
  BY <1>4 DEF Report
<1>5. ASSUME NEW n \in Node, Erase(n) PROVE AliveListed'
  BY <1>5 DEF Erase
<1>6. CASE Elect
  BY <1>6 DEF Elect
<1> QED BY <1>1, <1>2, <1>3, <1>4, <1>5, <1>6, GroupSteps

-----------------------------------------------------------------------------
(* Nobody but the leader *)

\* The new leader was no leader before: the old one is not on the list.
LEMMA LeaderStep ==
  ASSUME AliveListed, [Next]_vars PROVE leader' = leader \/ leader \notin alive
<1>1. CASE Elect
  BY <1>1 DEF Elect, AliveListed
<1>2. \A n \in Node : Crash(n) \/ Leave(n) => UNCHANGED leader
  BY DEF Crash, Leave, Gone
<1>3. \A n \in Node : Report(n) \/ Erase(n) => UNCHANGED leader
  BY DEF Report, Erase
<1> QED BY <1>1, <1>2, <1>3, GroupSteps DEF groupVars

\* Followers of a step were followers before it.
LEMMA FollowersStep ==
  ASSUME AliveListed, [Next]_vars PROVE Followers' \subseteq Followers
<1> QED BY AliveShrinks, LeaderStep DEF Followers

\* A follower's thread that works forgets what it knows of a failed node: nothing.
LEMMA RepairOfFollower ==
  ASSUME Shape, AliveListed, NobodyElse, NEW t \in Thread, NodeOf(t) \in Followers, Work(t)
  PROVE  /\ \A u \in Thread : call'[u] = call[u]
         /\ \A u \in Thread \ {t} : job'[u] = job[u]
         /\ job'[t] \in Seq(Repairs)
         /\ map' = map
<1>1. job[t] \in Seq(Repairs) /\ job[t] # << >>
  BY DEF NobodyElse, Work
<1>2. Head(job[t]) \in Repairs /\ Tail(job[t]) \in Seq(Repairs)
  BY <1>1
<1>3. Head(job[t]).do = "repair"
  BY <1>2 DEF Repairs, RepairTask
<1>4. Repair(t)
  BY <1>3 DEF Work
<1> DEFINE m == NodeOf(t)
           known == [n \in Node |-> IF n \in Head(job[t]).lost THEN {} ELSE map[m][n]]
           names == UNION {known[n] : n \in members}
<1>5. m \in Node
  BY ThreadNodes
<1>6. map[m] = [k \in Node |-> {}]
  BY DEF NobodyElse
<1>7. known = map[m]
  BY <1>6
<1>8. map' = map
  <2>1. map' = [map EXCEPT ![m] = known]
    BY <1>4 DEF Repair
  <2> HIDE DEF known, m
  <2> QED BY <2>1, <1>5, <1>7 DEF Shape
<1>9. names = {}
  BY <1>6, <1>7 DEF AliveListed
<1>10. Each(names, ReplicateTask) = << >>
  <2>1. Cardinality(names) = 0
    BY <1>9, FS_EmptySet
  <2> HIDE DEF names
  <2> QED BY <2>1 DEF Each
<1>11. job' = [job EXCEPT ![t] = Each(names, ReplicateTask) \o Tail(@)] /\ call' = call
  BY <1>4 DEF Repair
<1>12. job'[t] = Each(names, ReplicateTask) \o Tail(job[t])
  BY <1>11 DEF Shape
<1>13. job'[t] \in Seq(Repairs)
  BY <1>2, <1>10, <1>12
<1>14. \A u \in Thread \ {t} : job'[u] = job[u]
  BY <1>11 DEF Shape
<1> QED BY <1>8, <1>11, <1>13, <1>14

LEMMA NobodyElseStep == Shape /\ AliveListed /\ NobodyElse /\ [Next]_vars => NobodyElse'
<1> SUFFICES ASSUME Shape, AliveListed, NobodyElse, [Next]_vars PROVE NobodyElse'
  OBVIOUS
<1> DEFINE Keeps == /\ \A n \in Followers' : map'[n] = map[n]
                    /\ \A t \in Thread : NodeOf(t) \in Followers' =>
                         call'[t] = call[t] /\ job'[t] = job[t]
<1>a. Followers' \subseteq Followers /\ Followers \subseteq Node
  BY FollowersStep DEF Followers, Shape
<1>b. ASSUME Keeps PROVE NobodyElse'
  BY <1>a, <1>b DEF NobodyElse
<1>c. \A t \in Thread : NodeOf(t) \in Followers => call[t].state = "none"
  BY DEF NobodyElse, NoCall
<1>1. CASE UNCHANGED masterVars
  BY <1>1, <1>b DEF masterVars
<1>2. ASSUME NEW n \in Node, Serve(n) PROVE NobodyElse'
  <2> DEFINE t == <<n, "serve">>
  <2>1. t \in Thread /\ NodeOf(t) = n
    BY DEF Thread, NodeOf
  <2>2. leader = n /\ leader' = leader
    BY <1>2 DEF Serve, groupVars
  <2>3. PICK q \in mail : \/ ServePut(t, q) \/ ServeGet(t, q)
                          \/ ServeDelete(t, q) \/ ServeUpdate(t, q)
    BY <1>2 DEF Serve
  <2> HIDE DEF t
  <2>4. \A k \in Node \ {n} : map'[k] = map[k]
    BY <2>1, <2>3 DEF ServePut, ServeGet, ServeDelete, ServeUpdate, Shape
  <2>5. \A u \in Thread \ {t} : job'[u] = job[u]
    BY <2>3 DEF ServePut, ServeGet, ServeDelete, ServeUpdate, Shape
  <2>6. \A u \in Thread \ {t} : call'[u] = call[u]
    BY <2>3 DEF ServePut, ServeGet, ServeDelete, ServeUpdate, Shape
  <2>7. n \notin Followers'
    BY <2>2 DEF Followers
  <2> QED BY <1>a, <1>b, <2>1, <2>4, <2>5, <2>6, <2>7
<1>3. ASSUME NEW n \in Node, Obey(n) PROVE NobodyElse'
  <2>1. UNCHANGED <<map, job>>
    BY <1>3 DEF Obey
  <2>2. PICK t \in Thread : /\ call[t].state = "sent"
                            /\ Refuse(n, t) \/ DoList(n, t) \/ DoDelete(n, t) \/ DoReplicate(n, t)
    BY <1>3 DEF Obey
  <2>3. \A u \in Thread \ {t} : call'[u] = call[u]
    BY <2>2 DEF Refuse, DoList, DoDelete, DoReplicate, Done, Shape
  <2>4. NodeOf(t) \notin Followers
    BY <1>c, <2>2
  <2> QED BY <1>a, <1>b, <2>1, <2>3, <2>4
<1>4. ASSUME NEW n \in Node, Announce(n) PROVE NobodyElse'
  <2> DEFINE by == service[n].by
  <2>1. UNCHANGED <<map, job>>
    BY <1>4 DEF Announce
  <2>2. \/ call' = call
        \/ call[by].state = "taken" /\ call' = [call EXCEPT ![by].state = "done"]
    BY <1>4 DEF Announce, Done
  <2> HIDE DEF by
  <2>3. \A u \in Thread : call[u].state = "none" => call'[u] = call[u]
    BY <2>2 DEF Shape
  <2> QED BY <1>a, <1>b, <1>c, <2>1, <2>3
<1>5. ASSUME NEW n \in Node, Crash(n) \/ Leave(n) PROVE NobodyElse'
  <2>1. map' = map /\ alive' = alive \ {n}
    BY <1>5 DEF Crash, Leave, Gone
  <2>2. PICK delivered \in BOOLEAN :
          call' = [t \in Thread |-> IF NodeOf(t) = n /\ ~delivered THEN NoCall ELSE call[t]]
    BY <1>5 DEF Crash, Leave, Gone
  <2>3. job' = [t \in Thread |-> IF NodeOf(t) = n THEN << >> ELSE job[t]]
    BY <1>5 DEF Crash, Leave, Gone
  <2>4. n \notin Followers'
    BY <2>1 DEF Followers
  <2> QED BY <1>b, <2>1, <2>2, <2>3, <2>4
<1>6. ASSUME NEW n \in Node, Report(n) PROVE NobodyElse'
  <2>1. UNCHANGED <<map, call>>
    BY <1>6 DEF Report
  <2>2. \A t \in Thread : job'[t] = job[t] \/ job'[t] = Append(job[t], RepairTask({n}))
    BY <1>6 DEF Report
  <2>3. RepairTask({n}) \in Repairs
    BY DEF Repairs
  <2>4. ASSUME NEW t \in Thread, NodeOf(t) \in Followers PROVE job'[t] \in Seq(Repairs)
    <3>1. job[t] \in Seq(Repairs)
      BY <2>4 DEF NobodyElse
    <3>2. Append(job[t], RepairTask({n})) \in Seq(Repairs)
      BY <2>3, <3>1
    <3> QED BY <2>2, <3>1, <3>2
  <2> QED BY <1>a, <2>1, <2>4 DEF NobodyElse
<1>7. ASSUME NEW t \in Thread, Work(t) PROVE NobodyElse'
  <2>1. CASE NodeOf(t) \in Followers
    <3>1. \A u \in Thread : NodeOf(u) \in Followers => job'[u] \in Seq(Repairs)
      BY <1>7, <2>1, RepairOfFollower DEF NobodyElse
    <3>2. map' = map /\ \A u \in Thread : call'[u] = call[u]
      BY <1>7, <2>1, RepairOfFollower
    <3> QED BY <1>a, <3>1, <3>2 DEF NobodyElse
  <2>2. CASE NodeOf(t) \notin Followers
    <3>1. \A u \in Thread \ {t} : job'[u] = job[u]
      BY <1>7 DEF Work, Repair, Replicate, Command, Rest, Shape
    <3>2. \A u \in Thread \ {t} : call'[u] = call[u]
      BY <1>7 DEF Work, Repair, Replicate, Command, Shape
    <3>3. \A k \in Node \ {NodeOf(t)} : map'[k] = map[k]
      BY <1>7 DEF Work, Repair, Replicate, Command, Shape
    <3> QED BY <1>a, <1>b, <2>2, <3>1, <3>2, <3>3
  <2> QED BY <2>1, <2>2
<1>8. ASSUME NEW t \in Thread, Return(t) PROVE NobodyElse'
  <2>1. NodeOf(t) \notin Followers
    BY <1>c, <1>8 DEF Return
  <2>2. \A u \in Thread \ {t} : job'[u] = job[u] /\ call'[u] = call[u]
    BY <1>8 DEF Return, Rest, Shape
  <2>3. \A k \in Node \ {NodeOf(t)} : map'[k] = map[k]
    BY <1>8 DEF Return, Shape
  <2> QED BY <1>a, <1>b, <2>1, <2>2, <2>3
<1>9. CASE Elect
  <2>1. UNCHANGED <<map, call>>
    BY <1>9 DEF Elect, masterVars
  <2>2. \A u \in Thread : u # <<leader', "start">> => job'[u] = job[u]
    BY <1>9 DEF Elect, Shape
  <2>3. leader' \notin Followers' /\ NodeOf(<<leader', "start">>) = leader'
    BY DEF Followers, NodeOf
  <2> QED BY <1>b, <2>1, <2>2, <2>3
<1> QED BY <1>1, <1>2, <1>3, <1>4, <1>5, <1>6, <1>7, <1>8, <1>9
  DEF Next, vars, Ask, GiveUp, Copy, Erase, Fetched

-----------------------------------------------------------------------------
(* Refusals *)

\* A refused command of a node that has crashed is never touched again.
LEMMA RefusalStays ==
  ASSUME Shape, [Next]_vars, NEW t \in Thread, call[t].state = "refused", NodeOf(t) \notin alive
  PROVE  call'[t] = call[t] /\ NodeOf(t) \notin alive'
<1>1. alive' \subseteq alive
  BY AliveShrinks
<1>2. CASE UNCHANGED call
  BY <1>1, <1>2
<1>3. ASSUME NEW n \in Node, Serve(n) PROVE call'[t] = call[t]
  <2> DEFINE u == <<n, "serve">>
  <2>1. u # t
    BY <1>3 DEF Serve, NodeOf
  <2>2. PICK q \in mail : \/ ServePut(u, q) \/ ServeGet(u, q)
                          \/ ServeDelete(u, q) \/ ServeUpdate(u, q)
    BY <1>3 DEF Serve
  <2> HIDE DEF u
  <2> QED BY <2>1, <2>2 DEF ServePut, ServeGet, ServeDelete, ServeUpdate, Shape
<1>4. ASSUME NEW n \in Node, Obey(n) PROVE call'[t] = call[t]
  <2>1. PICK u \in Thread : /\ call[u].state = "sent"
                            /\ Refuse(n, u) \/ DoList(n, u) \/ DoDelete(n, u) \/ DoReplicate(n, u)
    BY <1>4 DEF Obey
  <2> QED BY <2>1 DEF Refuse, DoList, DoDelete, DoReplicate, Done, Shape
<1>5. ASSUME NEW n \in Node, Announce(n) PROVE call'[t] = call[t]
  <2> DEFINE by == service[n].by
  <2>1. \/ call' = call
        \/ call[by].state = "taken" /\ call' = [call EXCEPT ![by].state = "done"]
    BY <1>5 DEF Announce, Done
  <2> HIDE DEF by
  <2> QED BY <2>1 DEF Shape
<1>6. ASSUME NEW n \in Node, Crash(n) \/ Leave(n) PROVE call'[t] = call[t]
  <2>1. NodeOf(t) # n
    BY <1>6 DEF Crash, Leave
  <2> QED BY <1>6, <2>1 DEF Crash, Leave, Gone
<1>7. ASSUME NEW u \in Thread, Work(u) \/ Return(u) PROVE call'[t] = call[t]
  <2>1. u # t
    BY <1>7 DEF Work, Return
  <2> QED BY <1>7, <2>1 DEF Work, Repair, Replicate, Command, Return, Shape
<1> QED BY <1>1, <1>2, <1>3, <1>4, <1>5, <1>6, <1>7
  DEF Next, vars, masterVars, Ask, GiveUp, Copy, Report, Erase, Fetched, Elect

\* A thread that dies does so of a command of a node that has crashed, since
\* followers send none.
LEMMA DeathByTheDead ==
  ASSUME Shape, NobodyElse, [Next]_vars, NEW n \in Node,
         service[n].state # "dead", service'[n].state = "dead"
  PROVE  \E t \in Thread : call'[t].state = "refused" /\ call'[t].to = n /\ NodeOf(t) \notin alive'
<1>1. service' # service
  OBVIOUS
<1>2. ASSUME NEW k \in Node, Announce(k) PROVE FALSE
  <2>1. service[k].state = "sending"
    BY <1>2 DEF Announce
  <2>2. \A j \in Node \ {k} : service'[j] = service[j]
    BY <1>2 DEF Announce, Shape
  <2>3. service'[k].state # "dead"
    <3> DEFINE rest == service[k].targets \ {Lowest(service[k].targets)}
    <3>1. \/ service' = [service EXCEPT ![k] = Idle]
          \/ service' = [service EXCEPT ![k].targets = rest]
      BY <1>2 DEF Announce
    <3> HIDE DEF rest
    <3>2. CASE service' = [service EXCEPT ![k] = Idle]
      BY <3>2 DEF Idle, Shape
    <3>3. CASE service' = [service EXCEPT ![k].targets = rest]
      BY <3>3, <2>1 DEF Shape
    <3> QED BY <3>1, <3>2, <3>3
  <2> QED BY <2>2, <2>3
<1>3. PICK k \in Node : Obey(k)
  <2>1. UNCHANGED vars => UNCHANGED service
    BY DEF vars, nodeVars
  <2>2. \A j \in Node : \A op, f : Ask(j, op, f) => UNCHANGED service
    BY DEF Ask
  <2>3. \A j \in Node : GiveUp(j) \/ Copy(j) => UNCHANGED service
    BY DEF GiveUp, Copy
  <2>4. \A j \in Node : Serve(j) => UNCHANGED service
    BY DEF Serve
  <2>5. \A j \in Node : Crash(j) \/ Leave(j) => UNCHANGED service
    BY DEF Crash, Leave, Gone
  <2>6. \A j \in Node : Report(j) \/ Erase(j) => UNCHANGED service
    BY DEF Report, Erase, nodeVars
  <2>7. \A t \in Thread : Work(t) \/ Return(t) => UNCHANGED service
    BY DEF Work, Return, nodeVars
  <2>8. \A x \in fetches : Fetched(x) => UNCHANGED service
    BY DEF Fetched
  <2>9. Elect => UNCHANGED service
    BY DEF Elect, nodeVars
  <2> QED BY <1>1, <1>2, <2>1, <2>2, <2>3, <2>4, <2>5, <2>6, <2>7, <2>8, <2>9 DEF Next
<1>4. PICK t \in Thread :
        /\ call[t].state = "sent" /\ call[t].to = k
        /\ \/ leader # NodeOf(t) /\ Refuse(k, t)
           \/ DoList(k, t) \/ DoDelete(k, t) \/ DoReplicate(k, t)
  BY <1>3 DEF Obey
<1>5. ~DoList(k, t) /\ ~DoDelete(k, t)
  BY <1>1 DEF DoList, DoDelete
<1>6. ~DoReplicate(k, t)
  BY DEF DoReplicate, Shape
<1>7. leader # NodeOf(t) /\ Refuse(k, t)
  BY <1>4, <1>5, <1>6
<1>8. n = k
  BY <1>7 DEF Refuse, Shape
<1>9. NodeOf(t) \notin alive
  BY <1>4, <1>7 DEF NobodyElse, NoCall, Followers
<1>10. alive' = alive
  BY <1>3 DEF Obey, groupVars
<1>11. call'[t].state = "refused" /\ call'[t].to = k
  BY <1>4, <1>7 DEF Refuse, Shape
<1> QED BY <1>8, <1>9, <1>10, <1>11

LEMMA KillersStep == Shape /\ NobodyElse /\ Killers /\ [Next]_vars => Killers'
<1> SUFFICES ASSUME Shape, NobodyElse, Killers, [Next]_vars,
                    NEW n \in alive', service'[n].state = "dead"
             PROVE  \E t \in Thread : /\ call'[t].state = "refused" /\ call'[t].to = n
                                      /\ NodeOf(t) \notin alive'
  BY DEF Killers
<1>1. alive' \subseteq alive
  BY AliveShrinks
<1>2. n \in alive /\ n \in Node
  BY <1>1 DEF Shape
<1>3. CASE service[n].state = "dead"
  <2>1. PICK t \in Thread : /\ call[t].state = "refused" /\ call[t].to = n
                            /\ NodeOf(t) \notin alive
    BY <1>2, <1>3 DEF Killers
  <2>2. call'[t] = call[t] /\ NodeOf(t) \notin alive'
    BY <2>1, RefusalStays
  <2> QED BY <2>1, <2>2
<1>4. CASE service[n].state # "dead"
  BY <1>2, <1>4, DeathByTheDead
<1> QED BY <1>3, <1>4

-----------------------------------------------------------------------------
(* The theorems *)

LEMMA InvAlways == Spec => []IInv
<1>1. IInv /\ [Next]_vars => IInv'
  BY ShapeStep, AliveListedStep, NobodyElseStep, KillersStep DEF IInv
<1> QED BY InvInit, <1>1, PTL DEF Spec

\* The map of a node that runs and does not lead is empty, and its threads send
\* no command and have none to send: DFileMaster acts at the leader only, through
\* crashes, departures, elections and repairs, for any number of nodes and files.
THEOREM OnlyTheLeaderCommands == Spec => []NobodyElse
<1>1. IInv => NobodyElse
  BY DEF IInv
<1> QED BY InvAlways, <1>1, PTL

\* A service thread that ended (DFileMessageHandler leaves a command of a node it
\* does not take for the leader unanswered) did so of a command of a crashed master.
THEOREM ServiceDiesOfTheDead == Spec => []DiesOfTheDead
<1>1. IInv => DiesOfTheDead
  BY DEF IInv, Killers, DiesOfTheDead
<1> QED BY InvAlways, <1>1, PTL

-----------------------------------------------------------------------------
(* Who waits for whom *)

\* Senders and receivers are nodes.
Addressed ==
  /\ \A q \in mail : q.from \in Node
  /\ \A x \in fetches : x.to \in Node

\* Whoever is to send a file has somebody to send it to, others if it is to be kept.
GoodTargets(n, r) ==
  /\ r.targets \in (SUBSET Node) \ {{}}
  /\ r.keep => n \notin r.targets

Targeted ==
  /\ \A t \in Thread : call[t].do = "replicate" /\ call[t].state = "sent" =>
       GoodTargets(call[t].to, call[t])
  /\ \A n \in Node : service[n].state = "sending" => GoodTargets(n, service[n])

\* What n sends it was told to by a command that is not answered yet.
Ordered(n) ==
  /\ service[n].by \in Thread
  /\ call[service[n].by].state = "taken" /\ call[service[n].by].to = n

\* Only one thread commands as long as nobody has gone.
First == <<leader, "serve">>
AsBegun ==
  alive = Node =>
    /\ leader \in Node
    /\ \A t \in Thread \ {First} : job[t] = << >> /\ call[t] = NoCall
    /\ job[First] = << >> => call[First] = NoCall
    /\ \A n \in Node : service[n].state = "sending" => Ordered(n)

RInv == Addressed /\ Targeted /\ AsBegun

-----------------------------------------------------------------------------
LEMMA LeastNatural ==
  ASSUME NEW S \in SUBSET Nat, S # {}
  PROVE  \E n \in S : \A m \in S : n <= m
<1> DEFINE Less == {ss \in Nat \X Nat : ss[1] < ss[2]}
<1>1. IsWellFoundedOn(Less, Nat)
  BY NatLessThanWellFounded DEF OpToRel
<1>2. \E n \in S : \A m \in S : ~ (<<m, n>> \in Less)
  <2> HIDE DEF Less
  <2> QED BY <1>1, WFMin
<1>3. \A m, n \in S : ~ (<<m, n>> \in Less) => n <= m
  OBVIOUS
<1> QED BY <1>2, <1>3

LEMMA LowestIn == ASSUME NEW S \in (SUBSET Node) \ {{}} PROVE Lowest(S) \in S
<1>1. S \in SUBSET Nat /\ S # {}
  BY ReplicationAssumption
<1> QED BY <1>1, LeastNatural DEF Lowest

LEMMA RInvInit == Init => RInv
<1> SUFFICES ASSUME Init PROVE RInv
  OBVIOUS
<1>1. Addressed
  BY DEF Init, Addressed
<1>2. Targeted
  BY DEF Init, Targeted, NoCall, Idle
<1>3. leader \in Node
  BY LowestIn, ReplicationAssumption DEF Init
<1>4. First \in Thread
  BY <1>3 DEF First, Thread
<1>5. AsBegun
  BY <1>3, <1>4 DEF Init, AsBegun, Idle
<1> QED BY <1>1, <1>2, <1>5 DEF RInv

-----------------------------------------------------------------------------
(* Addresses *)

LEMMA AddressedStep == Addressed /\ Targeted /\ [Next]_vars => Addressed'
<1> SUFFICES ASSUME Addressed, Targeted, [Next]_vars PROVE Addressed'
  OBVIOUS
<1> USE DEF Addressed
<1>1. CASE UNCHANGED <<mail, fetches>>
  BY <1>1
<1>2. ASSUME NEW n \in Node, NEW op, NEW f, Ask(n, op, f) PROVE Addressed'
  BY <1>2 DEF Ask, Request
<1>3. ASSUME NEW n \in Node, Serve(n) PROVE Addressed'
  BY <1>3 DEF Serve
<1>4. ASSUME NEW n \in Node, Announce(n) PROVE Addressed'
  <2>1. Lowest(service[n].targets) \in Node
    BY <1>4, LowestIn DEF Announce, Targeted, GoodTargets
  <2> QED BY <1>4, <2>1 DEF Announce, Fetch
<1>5. ASSUME NEW n \in Node, Crash(n) \/ Leave(n) PROVE Addressed'
  BY <1>5 DEF Crash, Leave, Gone
<1>6. ASSUME NEW x \in fetches, Fetched(x) PROVE Addressed'
  BY <1>6 DEF Fetched
<1> QED BY <1>1, <1>2, <1>3, <1>4, <1>5, <1>6
  DEF Next, vars, nodeVars, GiveUp, Copy, Obey, Report, Erase, Work, Return, Elect

-----------------------------------------------------------------------------
(* Targets *)

\* replicateFile draws its targets among the members without the file, the source
\* among those that have it, and as many targets as replicas lack, which is not 0.
LEMMA DrawnWell ==
  ASSUME AliveListed, NEW m, NEW f, Wanted(m, f) # 0, NEW c \in Draws(m, f)
  PROVE  GoodTargets(c.to, c)
<1> DEFINE Sets == {S \in SUBSET (members \ Holders(m, f)) : Cardinality(S) = Wanted(m, f)}
<1>1. PICK T \in Sets : \E s \in Holders(m, f) : c = ReplicateCall(s, f, T, TRUE)
  BY DEF Draws
<1>2. PICK s \in Holders(m, f) : c = ReplicateCall(s, f, T, TRUE)
  BY <1>1
<1>3. T # {}
  BY FS_EmptySet
<1>4. T \subseteq Node /\ s \notin T
  BY DEF AliveListed
<1> HIDE DEF Sets
<1> QED BY <1>2, <1>3, <1>4 DEF GoodTargets, ReplicateCall

LEMMA TargetedStep == Shape /\ AliveListed /\ RInv /\ [Next]_vars => Targeted'
<1> SUFFICES ASSUME Shape, AliveListed, Addressed, Targeted, [Next]_vars PROVE Targeted'
  BY DEF RInv
<1> DEFINE Calls == \A t \in Thread : \/ call'[t].do # "replicate" \/ call'[t].state # "sent"
                                      \/ call'[t] = call[t]
                                      \/ GoodTargets(call'[t].to, call'[t])
           Services == \A n \in Node : \/ service'[n].state # "sending"
                                       \/ service'[n] = service[n]
                                       \/ GoodTargets(n, service'[n])
<1>a. ASSUME Calls, Services PROVE Targeted'
  BY <1>a DEF Targeted, GoodTargets
<1>1. CASE UNCHANGED <<call, service>>
  BY <1>1, <1>a
<1>2. ASSUME NEW n \in Node, Serve(n) PROVE Targeted'
  <2> DEFINE t == <<n, "serve">>
  <2>1. t \in Thread
    BY DEF Thread
  <2>2. PICK q \in mail : \/ ServePut(t, q) \/ ServeGet(t, q)
                          \/ ServeDelete(t, q) \/ ServeUpdate(t, q)
    BY <1>2 DEF Serve
  <2>3. service' = service
    BY <1>2 DEF Serve
  <2> HIDE DEF t
  <2>4. CASE ServeGet(t, q)
    <3> DEFINE c == ReplicateCall(Lowest(Holders(NodeOf(t), q.file)), q.file, {q.from}, FALSE)
    <3>1. call' = call \/ call' = [call EXCEPT ![t] = c]
      BY <2>4 DEF ServeGet
    <3>2. GoodTargets(c.to, c)
      BY DEF GoodTargets, ReplicateCall, Addressed
    <3> HIDE DEF c
    <3>3. Calls
      BY <2>1, <3>1, <3>2 DEF Shape
    <3> QED BY <1>a, <2>3, <3>3
  <2>5. CASE call' = call
    BY <1>a, <2>3, <2>5
  <2> QED BY <2>2, <2>4, <2>5 DEF ServePut, ServeDelete, ServeUpdate
<1>3. ASSUME NEW n \in Node, Obey(n) PROVE Targeted'
  <2>1. PICK t \in Thread :
          /\ call[t].state = "sent" /\ call[t].to = n
          /\ \/ Refuse(n, t) \/ DoList(n, t) \/ DoDelete(n, t)
             \/ call[t].do = "replicate" /\ DoReplicate(n, t)
    BY <1>3 DEF Obey
  <2>2. \A u \in Thread \ {t} : call'[u] = call[u]
    BY <2>1 DEF Refuse, DoList, DoDelete, DoReplicate, Done, Shape
  <2>3. call'[t].state # "sent"
    BY <2>1 DEF Refuse, DoList, DoDelete, DoReplicate, Done, Shape
  <2>4. Calls
    BY <2>2, <2>3
  <2>5. CASE Refuse(n, t) \/ DoList(n, t) \/ DoDelete(n, t)
    <3>1. Services
      BY <2>5 DEF Refuse, DoList, DoDelete, Shape
    <3> QED BY <1>a, <2>4, <3>1
  <2>6. CASE call[t].do = "replicate" /\ DoReplicate(n, t)
    <3>1. GoodTargets(n, call[t])
      BY <2>1, <2>6 DEF Targeted
    <3>2. \A k \in Node \ {n} : service'[k] = service[k]
      BY <2>6 DEF DoReplicate, Shape
    <3>3. service'[n].targets = call[t].targets /\ service'[n].keep = call[t].keep
      BY <2>6 DEF DoReplicate, Shape
    <3>4. Services
      BY <3>1, <3>2, <3>3 DEF GoodTargets
    <3> QED BY <1>a, <2>4, <3>4
  <2> QED BY <2>1, <2>5, <2>6
<1>4. ASSUME NEW n \in Node, Announce(n) PROVE Targeted'
  <2> DEFINE by == service[n].by
             k == Lowest(service[n].targets)
             rest == service[n].targets \ {k}
  <2>1. GoodTargets(n, service[n])
    BY <1>4 DEF Announce, Targeted
  <2>2. k \in service[n].targets
    BY <2>1, LowestIn DEF GoodTargets
  <2>3. \/ call' = call
        \/ call' = [call EXCEPT ![by].state = "done"]
    BY <1>4 DEF Announce, Done
  <2>4. \/ service' = [service EXCEPT ![n] = Idle]
        \/ service[n].targets # {k} /\ service' = [service EXCEPT ![n].targets = rest]
    BY <1>4 DEF Announce
  <2>5. service[n].targets # {k} => rest \in (SUBSET Node) \ {{}}
    BY <2>1, <2>2 DEF GoodTargets
  <2>6. n \in rest => n \in service[n].targets
    OBVIOUS
  <2> HIDE DEF by, k, rest
  <2>7. Calls
    BY <2>3 DEF Shape
  <2>8. CASE service' = [service EXCEPT ![n] = Idle]
    <3>1. Services
      BY <2>8 DEF Idle, Shape
    <3> QED BY <1>a, <2>7, <3>1
  <2>9. CASE service[n].targets # {k} /\ service' = [service EXCEPT ![n].targets = rest]
    <3>1. \A j \in Node \ {n} : service'[j] = service[j]
      BY <2>9 DEF Shape
    <3>2. service'[n] = [service[n] EXCEPT !.targets = rest]
      BY <2>9 DEF Shape
    <3>3. service'[n].state # "sending" \/ GoodTargets(n, service'[n])
      BY <2>1, <2>5, <2>6, <2>9, <3>2 DEF GoodTargets
    <3>4. Services
      BY <3>1, <3>3
    <3> QED BY <1>a, <2>7, <3>4
  <2> QED BY <2>4, <2>8, <2>9
<1>5. ASSUME NEW n \in Node, Crash(n) \/ Leave(n) PROVE Targeted'
  <2>1. service' = service
    BY <1>5 DEF Crash, Leave, Gone
  <2>2. PICK delivered \in BOOLEAN :
          call' = [t \in Thread |-> IF NodeOf(t) = n /\ ~delivered THEN NoCall ELSE call[t]]
    BY <1>5 DEF Crash, Leave, Gone
  <2>3. Calls
    BY <2>2 DEF NoCall
  <2> QED BY <1>a, <2>1, <2>3
<1>6. ASSUME NEW t \in Thread, Work(t) PROVE Targeted'
  <2>1. service' = service
    BY <1>6 DEF Work, nodeVars
  <2>2. CASE Replicate(t)
    <3>1. \/ call' = call
          \/ /\ Wanted(NodeOf(t), Head(job[t]).file) # 0
             /\ \E c \in Draws(NodeOf(t), Head(job[t]).file) : call' = [call EXCEPT ![t] = c]
      BY <2>2 DEF Replicate
    <3>2. Calls
      BY <3>1, DrawnWell DEF Shape
    <3> QED BY <1>a, <2>1, <3>2
  <2>3. CASE Command(t) /\ Head(job[t]).do \in {"list", "delete"}
    <3>1. call'[t].do \in {"list", "delete"} /\ \A u \in Thread \ {t} : call'[u] = call[u]
      BY <2>3 DEF Command, Call, Shape
    <3>2. Calls
      BY <3>1
    <3> QED BY <1>a, <2>1, <3>2
  <2>4. CASE call' = call
    BY <1>a, <2>1, <2>4
  <2> QED BY <1>6, <2>2, <2>3, <2>4 DEF Work, Repair
<1>7. ASSUME NEW t \in Thread, Return(t) PROVE Targeted'
  <2>1. service' = service /\ call' = [call EXCEPT ![t] = NoCall]
    BY <1>7 DEF Return, nodeVars
  <2>2. Calls
    BY <2>1 DEF NoCall, Shape
  <2> QED BY <1>a, <2>1, <2>2
<1> QED BY <1>1, <1>2, <1>3, <1>4, <1>5, <1>6, <1>7
  DEF Next, vars, nodeVars, masterVars, Ask, GiveUp, Copy, Report, Erase, Fetched, Elect

-----------------------------------------------------------------------------
(* As long as nobody has gone *)

LEMMA AsBegunStep == Shape /\ AliveListed /\ AsBegun /\ [Next]_vars => AsBegun'
<1> SUFFICES ASSUME Shape, AliveListed, AsBegun, [Next]_vars, alive' = Node PROVE AsBegun'
  BY DEF AsBegun
<1>a. alive = Node /\ members = Node /\ reported \cap Node = {}
  <2>1. alive' \subseteq alive
    BY AliveShrinks
  <2> QED BY <2>1 DEF Shape, AliveListed
<1>b. /\ leader \in Node
      /\ \A t \in Thread \ {First} : job[t] = << >> /\ call[t] = NoCall
      /\ job[First] = << >> => call[First] = NoCall
      /\ \A n \in Node : service[n].state = "sending" => Ordered(n)
  BY <1>a DEF AsBegun
<1>c. First \in Thread /\ First' = First /\ leader' = leader
  <2>1. leader' = leader
    BY <1>a, <1>b, LeaderStep
  <2> QED BY <1>b, <2>1 DEF First, Thread
<1>d. ASSUME \A t \in Thread \ {First} : job'[t] = job[t] /\ call'[t] = call[t],
             job'[First] = << >> => call'[First] = NoCall,
             \A n \in Node : service'[n].state = "sending" => Ordered(n)'
      PROVE  AsBegun'
  BY <1>b, <1>c, <1>d DEF AsBegun
\* What a thread does whose command nobody works on disturbs no sender.
<1>e. ASSUME NEW t \in Thread, call[t].state # "taken", service' = service,
             \A u \in Thread \ {t} : call'[u] = call[u]
      PROVE  \A n \in Node : service'[n].state = "sending" => Ordered(n)'
  BY <1>b, <1>e DEF Ordered
<1>1. CASE UNCHANGED <<job, call, service>>
  BY <1>1, <1>b, <1>d DEF Ordered
<1>2. ASSUME NEW n \in Node, Serve(n) PROVE AsBegun'
  <2>1. n = leader /\ <<n, "serve">> = First
    BY <1>2 DEF Serve, First
  <2>2. job[First] = << >> /\ service' = service
    BY <1>2, <2>1 DEF Serve
  <2>3. PICK q \in mail : \/ ServePut(First, q) \/ ServeGet(First, q)
                          \/ ServeDelete(First, q) \/ ServeUpdate(First, q)
    BY <1>2, <2>1 DEF Serve
  <2>4. call[First].state # "taken"
    BY <1>b, <2>2 DEF NoCall
  <2> HIDE DEF First
  <2>5. \A u \in Thread \ {First} : job'[u] = job[u]
    BY <2>3 DEF ServePut, ServeGet, ServeDelete, ServeUpdate, Shape
  <2>6. \A u \in Thread \ {First} : call'[u] = call[u]
    BY <2>3 DEF ServePut, ServeGet, ServeDelete, ServeUpdate, Shape
  <2>7. call'[First] = NoCall \/ job'[First] # << >>
    <3>1. CASE ServeGet(First, q)
      <4>1. UNCHANGED <<job, call>> \/ job' = [job EXCEPT ![First] = <<GetTask>>]
        BY <3>1 DEF ServeGet
      <4>2. job' = [job EXCEPT ![First] = <<GetTask>>] => job'[First] = <<GetTask>>
        BY <1>c DEF Shape
      <4> QED BY <1>b, <2>2, <4>1, <4>2
    <3>2. CASE ServePut(First, q) \/ ServeDelete(First, q) \/ ServeUpdate(First, q)
      BY <1>b, <2>2, <3>2 DEF ServePut, ServeDelete, ServeUpdate
    <3> QED BY <2>3, <3>1, <3>2
  <2> QED BY <1>c, <1>d, <1>e, <2>2, <2>4, <2>5, <2>6, <2>7
<1>3. ASSUME NEW n \in Node, Obey(n) PROVE AsBegun'
  <2>1. PICK t \in Thread :
          /\ call[t].state = "sent" /\ call[t].to = n
          /\ Refuse(n, t) \/ DoList(n, t) \/ DoDelete(n, t) \/ DoReplicate(n, t)
    BY <1>3 DEF Obey
  <2>2. job' = job
    BY <1>3 DEF Obey
  <2>3. t = First /\ job[First] # << >>
    BY <1>b, <2>1 DEF NoCall
  <2>4. \A u \in Thread \ {t} : call'[u] = call[u]
    BY <2>1 DEF Refuse, DoList, DoDelete, DoReplicate, Done, Shape
  <2>5. \A k \in Node : service[k].state # "sending"
    BY <1>b, <2>1, <2>3 DEF Ordered, NoCall
  <2>6. ASSUME NEW k \in Node, service'[k].state = "sending" PROVE Ordered(k)'
    <3>1. DoReplicate(n, t) /\ k = n
      BY <2>1, <2>5, <2>6 DEF Refuse, DoList, DoDelete, DoReplicate, Shape
    <3>2. service'[n].by = t /\ call'[t].state = "taken" /\ call'[t].to = n
      BY <2>1, <3>1 DEF DoReplicate, Shape
    <3> QED BY <3>1, <3>2 DEF Ordered
  <2> QED BY <1>d, <2>2, <2>3, <2>4, <2>6
<1>4. ASSUME NEW n \in Node, Announce(n) PROVE AsBegun'
  <2> DEFINE by == service[n].by
             rest == service[n].targets \ {Lowest(service[n].targets)}
  <2>1. job' = job
    BY <1>4 DEF Announce
  <2>2. by = First /\ call[First].state = "taken" /\ call[First].to = n
    BY <1>4, <1>b DEF Announce, Ordered, NoCall
  <2>3. \A k \in Node \ {n} : service[k].state # "sending"
    BY <1>b, <2>2 DEF Ordered, NoCall
  <2>4. job[First] # << >>
    BY <1>b, <2>2 DEF NoCall
  <2>5. \/ service' = [service EXCEPT ![n] = Idle] /\ call' = [call EXCEPT ![by].state = "done"]
        \/ service' = [service EXCEPT ![n].targets = rest] /\ call' = call
    BY <1>4, <2>2 DEF Announce, Done
  <2> HIDE DEF by, rest, First
  <2>6. \A u \in Thread \ {First} : call'[u] = call[u]
    BY <2>2, <2>5 DEF Shape
  <2>7. ASSUME NEW k \in Node, service'[k].state = "sending" PROVE Ordered(k)'
    <3>1. service' = [service EXCEPT ![n].targets = rest] /\ call' = call /\ k = n
      BY <2>3, <2>5, <2>7 DEF Idle, Shape
    <3>2. service'[n] = [service[n] EXCEPT !.targets = rest]
      BY <3>1 DEF Shape
    <3>3. service'[n].by = service[n].by
      BY <3>2
    <3> QED BY <1>c, <2>2, <3>1, <3>3 DEF Ordered, by
  <2> QED BY <1>d, <2>1, <2>4, <2>6, <2>7
<1>5. ASSUME NEW n \in Node, Crash(n) \/ Leave(n) PROVE FALSE
  BY <1>5, <1>a DEF Crash, Leave, Gone
<1>6. ASSUME NEW n \in Node, Report(n) \/ Erase(n) PROVE FALSE
  BY <1>6, <1>a DEF Report, Erase
<1>7. CASE Elect
  BY <1>7, <1>a, <1>b DEF Elect
<1>8. ASSUME NEW t \in Thread, Work(t) PROVE AsBegun'
  <2>1. t = First /\ job[t] # << >> /\ call[t] = NoCall
    BY <1>8, <1>b DEF Work
  <2>2. service' = service
    BY <1>8 DEF Work, nodeVars
  <2>3. \A u \in Thread \ {t} : job'[u] = job[u]
    BY <1>8 DEF Work, Repair, Replicate, Command, Rest, Shape
  <2>4. \A u \in Thread \ {t} : call'[u] = call[u]
    BY <1>8 DEF Work, Repair, Replicate, Command, Shape
  <2>5. call' = call \/ job' = job
    BY <1>8 DEF Work, Repair, Replicate, Command
  <2>6. call[t].state # "taken"
    BY <2>1 DEF NoCall
  <2> QED BY <1>d, <1>e, <2>1, <2>2, <2>3, <2>4, <2>5, <2>6
<1>9. ASSUME NEW t \in Thread, Return(t) PROVE AsBegun'
  <2>1. call[t].state = "done" /\ t = First
    BY <1>9, <1>b DEF Return, NoCall
  <2>2. service' = service
    BY <1>9 DEF Return, nodeVars
  <2>3. \A u \in Thread \ {t} : job'[u] = job[u]
    BY <1>9 DEF Return, Rest, Shape
  <2>4. call' = [call EXCEPT ![t] = NoCall]
    BY <1>9 DEF Return
  <2>5. call'[t] = NoCall /\ \A u \in Thread \ {t} : call'[u] = call[u]
    BY <2>4 DEF Shape
  <2> QED BY <1>d, <1>e, <2>1, <2>2, <2>3, <2>5
<1> QED BY <1>1, <1>2, <1>3, <1>4, <1>5, <1>6, <1>7, <1>8, <1>9
  DEF Next, vars, nodeVars, masterVars, Ask, GiveUp, Copy, Fetched

-----------------------------------------------------------------------------
(* The theorem *)

LEMMA RInvAlways == Spec => [](IInv /\ RInv)
<1>1. IInv /\ RInv /\ [Next]_vars => RInv'
  BY AddressedStep, TargetedStep, AsBegunStep DEF IInv, RInv
<1> QED BY InvAlways, RInvInit, <1>1, PTL DEF Spec

\* Two service threads that wait have different commands, which one thread sent.
LEMMA OneWaits ==
  ASSUME AsBegun, alive = Node, NEW n \in Node, NEW k \in Node,
         service[n].state = "sending", service[k].state = "sending"
  PROVE  n = k
BY DEF AsBegun, Ordered, NoCall

\* A service thread waits for itself only to answer a get of its own user, and two
\* wait for each other only once a node is gone (REPLICATE of DFileMessageHandler).
THEOREM RoundsAreExplained == Spec => []RoundsExplained
<1>1. ASSUME IInv, RInv PROVE RoundsExplained
  <2> USE ReplicationAssumption
  <2>1. ASSUME NEW n \in alive, WaitsFor(n) = n PROVE ~service[n].keep
    <3>1. n \in Node /\ service[n].state = "sending" /\ Lowest(service[n].targets) = n
      BY <1>1, <2>1 DEF IInv, Shape, WaitsFor
    <3>2. GoodTargets(n, service[n])
      BY <1>1, <3>1 DEF RInv, Targeted
    <3> QED BY <3>1, <3>2, LowestIn DEF GoodTargets
  <2>2. ASSUME NEW S \in SUBSET alive, Cardinality(S) > 1, Round(S), alive = Node PROVE FALSE
    <3>0. Cardinality(S) # 1
      BY <2>2, FS_Subset, FS_CardinalityType
    <3>1. PICK n \in S : WaitsFor(n) \in S \ {n}
      BY <2>2, <3>0 DEF Round
    <3>2. PICK k \in S : k = WaitsFor(n) /\ k # n
      BY <3>1
    <3>3. WaitsFor(k) \in S
      BY <2>2 DEF Round
    <3>4. n \in Node /\ k \in Node /\ WaitsFor(n) # 0 /\ WaitsFor(k) # 0
      BY <2>2, <3>1, <3>2, <3>3
    <3>5. service[n].state = "sending" /\ service[k].state = "sending"
      BY <3>4 DEF WaitsFor
    <3> QED BY <1>1, <2>2, <3>2, <3>4, <3>5, OneWaits DEF RInv
  <2> QED BY <2>1, <2>2 DEF RoundsExplained
<1> QED BY RInvAlways, <1>1, PTL
=============================================================================
