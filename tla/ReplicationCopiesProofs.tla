------------------------ MODULE ReplicationCopiesProofs ------------------------
(***************************************************************************)
(* The types of Replication, and that its replicas are alike, its map is   *)
(* true, deletions are complete, replication ends and copies are kept: an  *)
(* inductive invariant that ties what the nodes hold and fetch to the      *)
(* master's map, and the map to the jobs and commands that change it.      *)
(***************************************************************************)
EXTENDS ReplicationProofs

-----------------------------------------------------------------------------
(* Types *)

Requests == [op : {"put", "get", "delete"}, from : Node, file : File, id : Nat, to : Node]
Updates == [op : {"update"}, from : Node, file : File, to : Node]
Copies == [op : {"copy"}, file : File]
Fetches == [file : File, from : Node, to : Node, keep : BOOLEAN,
            content : Content \cup {Absent}]
Sends == [state : {"sending"}, by : Thread, file : File,
          targets : (SUBSET Node) \ {{}}, keep : BOOLEAN]

Tasks ==
  {ListTask(n) : n \in Node} \cup Repairs \cup {ReplicateTask(f) : f \in File}
    \cup {DeleteTask(n, f) : n \in Node, f \in File} \cup {GetTask}
    \cup [do : {"endless"}, file : File, excess : BOOLEAN]

ListCalls == [do : {"list"}, to : Node, file : {""}, state : {"sent", "refused"}]
ListReplies == [do : {"list"}, to : Node, names : SUBSET File, state : {"done"}]
DeleteCalls == [do : {"delete"}, to : Node, file : File, state : {"sent", "done", "refused"}]
ReplicateCalls ==
  [do : {"replicate"}, to : Node, file : File, targets : (SUBSET Node) \ {{}},
   keep : BOOLEAN, state : {"sent", "taken", "done", "refused"}]
Calls == {NoCall} \cup ListCalls \cup ListReplies \cup DeleteCalls \cup ReplicateCalls

GroupT ==
  /\ alive \in (SUBSET Node) \ {{}} /\ members \subseteq Node /\ reported \subseteq Node
  /\ leader \in Node

FilesT ==
  /\ held \in [Node -> SUBSET File]
  /\ disk \in [Node -> [File -> Content \cup {Absent}]]
  /\ got \in [Node -> [File -> Content \cup {Absent}]]
  /\ fetches \subseteq Fetches

UsersT ==
  /\ user \in [Node -> {Ready} \cup Requests \cup Copies]
  /\ mail \subseteq Requests \cup Updates

ThreadsT ==
  /\ service \in [Node -> {Idle} \cup [state : {"dead"}] \cup Sends]
  /\ job \in [Thread -> Seq(Tasks)]
  /\ call \in [Thread -> Calls]
  /\ map \in [Node -> [Node -> SUBSET File]]

NotesT ==
  /\ asked \in 0 .. MaxRequests
  /\ late \in Nat /\ Faults <= MaxFaults
  /\ last \in [File -> {"none", "put", "delete"}]
  /\ mishaps \subseteq Mishap /\ miscounted \subseteq File

\* A thread that runs has done what it waits for only when the reply is there.
Employed == \A t \in Thread : NodeOf(t) \in alive /\ call[t] # NoCall => job[t] # << >>

TInv == GroupT /\ FilesT /\ UsersT /\ ThreadsT /\ NotesT /\ Employed

-----------------------------------------------------------------------------
(* The group, the files and the users *)

LEMMA GroupTypeInit == Init => GroupT
BY LowestIn, ReplicationAssumption DEF Init, GroupT, ReplicationAssumption

LEMMA GroupTypeStep == GroupT /\ [Next]_vars => GroupT'
<1> SUFFICES ASSUME GroupT, [Next]_vars PROVE GroupT'
  OBVIOUS
<1> USE DEF GroupT
<1>1. CASE UNCHANGED groupVars
  BY <1>1 DEF groupVars
<1>2. ASSUME NEW n \in Node, Crash(n) PROVE GroupT'
  BY <1>2 DEF Crash, Gone
<1>3. ASSUME NEW n \in Node, Leave(n) PROVE GroupT'
  BY <1>3 DEF Leave, Gone
<1>4. ASSUME NEW n \in Node, Report(n) PROVE GroupT'
  BY <1>4 DEF Report
<1>5. ASSUME NEW n \in Node, Erase(n) PROVE GroupT'
  BY <1>5 DEF Erase
<1>6. CASE Elect
  BY <1>6, LowestIn DEF Elect
<1> QED BY <1>1, <1>2, <1>3, <1>4, <1>5, <1>6
  DEF Next, vars, Ask, GiveUp, Copy, Serve, Obey, Announce, Work, Return, Fetched

\* One entry of a table of tables is set.
LEMMA SetEntry ==
  ASSUME NEW S, NEW T, NEW g \in [Node -> [S -> T]], NEW n \in Node, NEW f \in S, NEW v
  PROVE  /\ [g EXCEPT ![n][f] = v] =
              [k \in Node |-> [h \in S |-> IF k = n /\ h = f THEN v ELSE g[k][h]]]
         /\ v \in T => [g EXCEPT ![n][f] = v] \in [Node -> [S -> T]]
<1>1. [g EXCEPT ![n][f] = v] = [k \in Node |-> IF k = n THEN [g[n] EXCEPT ![f] = v] ELSE g[k]]
  OBVIOUS
<1>2. \A k \in Node : g[k] = [h \in S |-> g[k][h]]
  OBVIOUS
<1>3. [g[n] EXCEPT ![f] = v] = [h \in S |-> IF h = f THEN v ELSE g[n][h]]
  OBVIOUS
<1> QED BY <1>1, <1>2, <1>3

LEMMA SetContent ==
  ASSUME FilesT, NEW n \in Node, NEW f \in File, NEW v \in Content \cup {Absent}
  PROVE  /\ [disk EXCEPT ![n][f] = v] \in [Node -> [File -> Content \cup {Absent}]]
         /\ [got EXCEPT ![n][f] = v] \in [Node -> [File -> Content \cup {Absent}]]
<1> PICK T : T = Content \cup {Absent}
  OBVIOUS
<1>1. disk \in [Node -> [File -> T]] /\ got \in [Node -> [File -> T]]
  BY DEF FilesT
<1> QED BY <1>1, SetEntry

LEMMA FilesTypeInit == Init => FilesT
BY DEF Init, FilesT, Content, Absent

LEMMA FilesTypeStep == TInv /\ [Next]_vars => FilesT'
<1> SUFFICES ASSUME TInv, [Next]_vars PROVE FilesT'
  OBVIOUS
<1> USE DEF TInv, FilesT
<1>1. CASE UNCHANGED <<held, disk, got, fetches>>
  BY <1>1
<1>2. ASSUME NEW n \in Node, NEW op, NEW f \in File, Ask(n, op, f) PROVE FilesT'
  <2>1. UNCHANGED <<held, disk, fetches>> /\ (got' = got \/ got' = [got EXCEPT ![n][f] = disk[n][f]])
    BY <1>2 DEF Ask
  <2>2. disk[n][f] \in Content \cup {Absent}
    OBVIOUS
  <2>3. [got EXCEPT ![n][f] = disk[n][f]] \in [Node -> [File -> Content \cup {Absent}]]
    BY <2>2, SetContent
  <2> QED BY <2>1, <2>3
<1>3. ASSUME NEW n \in Node, Copy(n) PROVE FilesT'
  <2> PICK f : f = user[n].file
    OBVIOUS
  <2>1. f \in File
    BY <1>3 DEF Copy, UsersT, Requests, Copies, Ready
  <2>2. /\ disk' = [disk EXCEPT ![n][f] = n] /\ held' = [held EXCEPT ![n] = @ \cup {f}]
        /\ UNCHANGED <<got, fetches>>
    BY <1>3 DEF Copy
  <2>3. n \in Content \cup {Absent}
    BY DEF Content
  <2>4. [disk EXCEPT ![n][f] = n] \in [Node -> [File -> Content \cup {Absent}]]
    BY <2>1, <2>3, SetContent
  <2> QED BY <2>1, <2>2, <2>4
<1>4. ASSUME NEW n \in Node, Obey(n) PROVE FilesT'
  <2>1. UNCHANGED <<got, fetches>>
    BY <1>4 DEF Obey
  <2>2. UNCHANGED <<held, disk>> \/ \E t \in Thread : DoDelete(n, t)
    BY <1>4 DEF Obey, Refuse, DoList, DoReplicate
  <2>3. ASSUME NEW t \in Thread, DoDelete(n, t) PROVE FilesT'
    <3> PICK f : f = call[t].file
      OBVIOUS
    <3>1. \/ UNCHANGED <<held, disk>>
          \/ f \in held[n] /\ held' = [held EXCEPT ![n] = @ \ {f}] /\ disk' = [disk EXCEPT ![n][f] = Absent]
      BY <2>3 DEF DoDelete
    <3>2. f \in held[n] => f \in File
      OBVIOUS
    <3>3. f \in held[n] => [disk EXCEPT ![n][f] = Absent] \in [Node -> [File -> Content \cup {Absent}]]
      BY <3>2, SetContent
    <3>4. disk' \in [Node -> [File -> Content \cup {Absent}]]
      BY <3>1, <3>3
    <3>5. held' \in [Node -> SUBSET File]
      BY <3>1
    <3> QED BY <2>1, <3>4, <3>5
  <2> QED BY <2>1, <2>2, <2>3
<1>5. ASSUME NEW n \in Node, Announce(n) PROVE FilesT'
  <2> PICK s : s = service[n]
    OBVIOUS
  <2>1. s \in Sends
    <3>1. s.state = "sending"
      BY <1>5 DEF Announce
    <3>2. s \in {Idle} \cup [state : {"dead"}] \cup Sends
      BY DEF ThreadsT
    <3> QED BY <3>1, <3>2 DEF Idle
  <2> PICK k : k = Lowest(s.targets)
    OBVIOUS
  <2>2. k \in Node
    BY <2>1, LowestIn DEF Sends
  <2> PICK new : new = Fetch(s.file, n, k, s.keep, SourceOf(n, s.file))
    OBVIOUS
  <2>3. SourceOf(n, s.file) \in Content \cup {Absent}
    BY <2>1 DEF SourceOf, Sends, Content
  <2>4. new \in Fetches
    BY <2>1, <2>2, <2>3 DEF Fetch, Fetches, Sends
  <2>5. UNCHANGED <<held, disk, got>>
    BY <1>5 DEF Announce
  <2>6. fetches' = fetches \/ fetches' = fetches \cup {new}
    BY <1>5 DEF Announce
  <2> QED BY <2>4, <2>5, <2>6
<1>6. ASSUME NEW n \in Node, Crash(n) \/ Leave(n) PROVE FilesT'
  <2>1. UNCHANGED <<held, got>> /\ fetches' \subseteq fetches
    BY <1>6 DEF Crash, Leave, Gone
  <2>a. Gone(n)
    BY <1>6 DEF Crash, Leave
  <2>2. PICK begun \in SUBSET {x \in fetches : x.from = n /\ x.to # n} : disk' = [k \in Node |-> [f \in File |->
                  IF \E x \in begun : SameName(x, f, k) THEN Junk ELSE disk[k][f]]]
    BY <2>a DEF Gone
  <2>3. disk' \in [Node -> [File -> Content \cup {Absent}]]
    BY <2>2 DEF Content
  <2> QED BY <2>1, <2>3
<1>7. ASSUME NEW x \in fetches, Fetched(x) PROVE FilesT'
  <2> PICK n, f : n = x.to /\ f = x.file
    OBVIOUS
  <2>1. n \in Node /\ f \in File /\ x.content \in Content \cup {Absent}
    BY DEF Fetches
  <2>2. PICK content \in Content \cup {Absent} :
          IF x.keep
          THEN /\ disk' = [disk EXCEPT ![n][f] = content]
               /\ held' = [held EXCEPT ![n] = @ \cup {f}] /\ UNCHANGED got
          ELSE /\ got' = [got EXCEPT ![n][f] = content]
               /\ disk' = [disk EXCEPT ![n][f] = Absent] /\ UNCHANGED held
    BY <1>7, <2>1 DEF Fetched, Content
  <2>3. fetches' \subseteq fetches
    BY <1>7 DEF Fetched
  <2>4. /\ [disk EXCEPT ![n][f] = content] \in [Node -> [File -> Content \cup {Absent}]]
        /\ [disk EXCEPT ![n][f] = Absent] \in [Node -> [File -> Content \cup {Absent}]]
        /\ [got EXCEPT ![n][f] = content] \in [Node -> [File -> Content \cup {Absent}]]
    BY <2>1, SetContent
  <2>5. held' \in [Node -> SUBSET File]
    BY <2>1, <2>2
  <2>6. disk' \in [Node -> [File -> Content \cup {Absent}]] /\ got' \in [Node -> [File -> Content \cup {Absent}]]
    BY <2>2, <2>4
  <2> QED BY <2>3, <2>5, <2>6
<1> QED BY <1>1, <1>2, <1>3, <1>4, <1>5, <1>6, <1>7
  DEF Next, vars, nodeVars, GiveUp, Serve, Report, Erase, Work, Return, Elect

LEMMA UsersTypeInit == Init => UsersT
BY DEF Init, UsersT

LEMMA UsersTypeStep == TInv /\ [Next]_vars => UsersT'
<1> SUFFICES ASSUME TInv, [Next]_vars PROVE UsersT'
  OBVIOUS
<1> USE DEF TInv, UsersT
<1>1. CASE UNCHANGED <<user, mail>>
  BY <1>1
<1>2. ASSUME NEW n \in Node, NEW op \in {"put", "get", "delete"}, NEW f \in File, Ask(n, op, f) PROVE UsersT'
  <2>1. asked' \in Nat
    BY <1>2, ReplicationAssumption DEF Ask, NotesT, ReplicationAssumption
  <2> PICK q : q = Request(op, n, f, asked')
    OBVIOUS
  <2>2. q \in Requests
    BY <2>1 DEF Request, Requests, GroupT
  <2>3. \/ UNCHANGED <<user, mail>>
        \/ user' = [user EXCEPT ![n] = q] /\ (mail' = mail \/ mail' = mail \cup {q})
    BY <1>2 DEF Ask
  <2> QED BY <2>2, <2>3
<1>3. ASSUME NEW n \in Node, GiveUp(n) \/ Copy(n) PROVE UsersT'
  <2>1. user' = [user EXCEPT ![n] = Ready] /\ UNCHANGED mail
    BY <1>3 DEF GiveUp, Copy
  <2> QED BY <2>1
<1>4. ASSUME NEW n \in Node, Serve(n) PROVE UsersT'
  <2>1. PICK q \in mail :
          /\ mail' = mail \ {q}
          /\ \/ UNCHANGED user
             \/ Answer(q, Ready)
             \/ q.op = "put" /\ Answer(q, [op |-> "copy", file |-> q.file])
    BY <1>4 DEF Serve, ServePut, ServeGet, ServeDelete, ServeUpdate
  <2>2. [op |-> "copy", file |-> q.file] \in Copies
    BY DEF Copies, Requests, Updates
  <2>3. PICK u \in {Ready} \cup Copies : user' = user \/ user' = [user EXCEPT ![q.from] = u]
    BY <2>1, <2>2 DEF Answer
  <2> QED BY <2>1, <2>3
<1>5. ASSUME NEW n \in Node, Crash(n) \/ Leave(n) PROVE UsersT'
  <2>1. user' = [user EXCEPT ![n] = Ready] /\ mail' \subseteq mail
    BY <1>5 DEF Crash, Leave, Gone
  <2> QED BY <2>1
<1>6. ASSUME NEW x \in fetches, Fetched(x) PROVE UsersT'
  <2>1. UNCHANGED user
    BY <1>6 DEF Fetched
  <2>2. [op |-> "update", from |-> x.to, file |-> x.file, to |-> leader] \in Updates
    BY DEF Updates, FilesT, Fetches, GroupT
  <2> QED BY <1>6, <2>1, <2>2 DEF Fetched
<1> QED BY <1>1, <1>2, <1>3, <1>4, <1>5, <1>6
  DEF Next, vars, nodeVars, Obey, Announce, Report, Erase, Work, Return, Elect

-----------------------------------------------------------------------------
(* The threads and the notes *)

\* Ids and names in order: every place is somebody's.
LEMMA RankType ==
  ASSUME NEW S \in SUBSET Nat, IsFiniteSet(S), NEW x \in S
  PROVE  Rank(x, S) \in 0 .. Cardinality(S) - 1
<1> DEFINE B == {y \in S : y < x}
<1>1. B \in SUBSET S /\ B # S
  OBVIOUS
<1>2. IsFiniteSet(B) /\ Cardinality(B) \in Nat /\ Cardinality(S) \in Nat
  BY <1>1, FS_Subset, FS_CardinalityType
<1>3. Cardinality(B) <= Cardinality(S) /\ Cardinality(B) # Cardinality(S)
  BY <1>1, FS_Subset
<1> HIDE DEF B
<1> QED BY <1>2, <1>3 DEF Rank, B

LEMMA RanksDiffer ==
  ASSUME NEW S \in SUBSET Nat, IsFiniteSet(S), NEW x \in S, NEW y \in S, x < y
  PROVE  Rank(x, S) # Rank(y, S)
<1> DEFINE A == {z \in S : z < x}
           B == {z \in S : z < y}
<1>0. \A z \in S : z < x => z < y
  <2> SUFFICES ASSUME NEW z \in S, z < x PROVE z < y
    OBVIOUS
  <2>1. x \in Nat /\ y \in Nat /\ z \in Nat
    OBVIOUS
  <2> QED BY <2>1
<1>1. A \in SUBSET B /\ x \in B /\ x \notin A
  <2>1. \A z \in Nat : ~(z < z)
    OBVIOUS
  <2>2. x \notin A
    BY <2>1
  <2>3. x \in B
    OBVIOUS
  <2>4. A \subseteq B
    BY <1>0
  <2> QED BY <2>2, <2>3, <2>4
<1>2. B \in SUBSET S
  OBVIOUS
<1>3. Rank(x, S) = Cardinality(A) /\ Rank(y, S) = Cardinality(B)
  BY DEF Rank
<1> HIDE DEF A, B
<1>4. IsFiniteSet(B) /\ A # B
  BY <1>1, <1>2, FS_Subset
<1>5. Cardinality(A) # Cardinality(B)
  BY <1>1, <1>4, FS_Subset
<1> QED BY <1>3, <1>5

LEMMA PlaceTaken ==
  ASSUME NEW S \in SUBSET Nat, IsFiniteSet(S), NEW i \in 1 .. Cardinality(S)
  PROVE  Nth(S, i) \in S /\ Rank(Nth(S, i), S) = i - 1
<1> DEFINE c == Cardinality(S)
           place == [x \in S |-> Rank(x, S)]
<1>1. c \in Nat
  BY FS_CardinalityType
<1>2. IsFiniteSet(0 .. c - 1) /\ Cardinality(0 .. c - 1) = c
  <2>1. c - 1 \in Int
    BY <1>1
  <2>2. /\ IsFiniteSet(0 .. c - 1)
        /\ Cardinality(0 .. c - 1) = IF 0 > c - 1 THEN 0 ELSE (c - 1) - 0 + 1
    BY ONLY <2>1, FS_Interval
  <2> HIDE DEF c
  <2> QED BY <1>1, <2>2
<1>3. place \in [S -> 0 .. c - 1]
  BY RankType
<1>4. ASSUME NEW x \in S, NEW y \in S, place[x] = place[y] PROVE x = y
  <2>1. x \in Nat /\ y \in Nat
    OBVIOUS
  <2>2. ~(x < y) /\ ~(y < x)
    BY <1>4, RanksDiffer
  <2> QED BY <2>1, <2>2
<1>5. place \in Injection(S, 0 .. c - 1)
  BY <1>3, <1>4 DEF Injection, IsInjective
<1> HIDE DEF place
<1>6. place \in Surjection(S, 0 .. c - 1)
  <2>1. IsFiniteSet(S) /\ IsFiniteSet(0 .. c - 1) /\ Cardinality(S) = Cardinality(0 .. c - 1)
    BY <1>2
  <2> HIDE DEF c
  <2> QED BY <1>5, <2>1, FS_Injection
<1>7. i - 1 \in 0 .. c - 1
  BY <1>1
<1>8. PICK x \in S : place[x] = i - 1
  BY <1>6, <1>7 DEF Surjection
<1>9. Rank(x, S) = i - 1
  BY <1>8 DEF place
<1> QED BY <1>9 DEF Nth

\* Each has every member of the set in its place, once.
LEMMA PlaceOf ==
  ASSUME NEW S \in SUBSET Nat, IsFiniteSet(S), NEW x \in S
  PROVE  \E i \in 1 .. Cardinality(S) : Nth(S, i) = x
<1>1. Cardinality(S) \in Nat /\ Rank(x, S) \in 0 .. Cardinality(S) - 1
  BY FS_CardinalityType, RankType
<1> DEFINE i == Rank(x, S) + 1
<1>2. i \in 1 .. Cardinality(S) /\ i - 1 = Rank(x, S)
  BY <1>1
<1> HIDE DEF i
<1>3. Nth(S, i) \in S /\ Rank(Nth(S, i), S) = Rank(x, S)
  BY <1>2, PlaceTaken
<1>4. Nth(S, i) \in Nat /\ x \in Nat
  BY <1>3
<1>5. Nth(S, i) = x
  BY <1>3, <1>4, RanksDiffer
<1> QED BY <1>2, <1>5

\* What a thread is given to do for each member of a set.
LEMMA EachList ==
  ASSUME NEW S \in SUBSET Node
  PROVE  /\ DOMAIN Each(S, ListTask) = 1 .. Cardinality(S) /\ Cardinality(S) \in Nat
         /\ \A i \in 1 .. Cardinality(S) : \E n \in S : Each(S, ListTask)[i] = ListTask(n)
         /\ \A n \in S : \E i \in 1 .. Cardinality(S) : Each(S, ListTask)[i] = ListTask(n)
         /\ Each(S, ListTask) \in Seq(Tasks)
<1>1. S \in SUBSET Nat /\ IsFiniteSet(S)
  BY ReplicationAssumption, FS_Subset
<1>2. Cardinality(S) \in Nat
  BY <1>1, FS_CardinalityType
<1>3. \A i \in 1 .. Cardinality(S) : Nth(S, i) \in S
  BY <1>1, PlaceTaken
<1>4. \A n \in S : \E i \in 1 .. Cardinality(S) : Nth(S, i) = n
  BY <1>1, PlaceOf
<1>5. Each(S, ListTask) = [i \in 1 .. Cardinality(S) |-> ListTask(Nth(S, i))]
  BY DEF Each
<1>6. \A i \in 1 .. Cardinality(S) : ListTask(Nth(S, i)) \in Tasks
  BY <1>3 DEF Tasks
<1>7. Each(S, ListTask) \in Seq(Tasks)
  BY <1>2, <1>5, <1>6
<1> QED BY <1>2, <1>3, <1>4, <1>5, <1>7

LEMMA EachReplicate ==
  ASSUME NEW S \in SUBSET File
  PROVE  /\ DOMAIN Each(S, ReplicateTask) = 1 .. Cardinality(S) /\ Cardinality(S) \in Nat
         /\ \A i \in 1 .. Cardinality(S) : \E f \in S : Each(S, ReplicateTask)[i] = ReplicateTask(f)
         /\ Each(S, ReplicateTask) \in Seq(Tasks)
<1>1. S \in SUBSET Nat /\ IsFiniteSet(S)
  BY ReplicationAssumption, FS_Subset
<1>2. Cardinality(S) \in Nat
  BY <1>1, FS_CardinalityType
<1>3. \A i \in 1 .. Cardinality(S) : Nth(S, i) \in S
  BY <1>1, PlaceTaken
<1>4. Each(S, ReplicateTask) = [i \in 1 .. Cardinality(S) |-> ReplicateTask(Nth(S, i))]
  BY DEF Each
<1>5. \A i \in 1 .. Cardinality(S) : ReplicateTask(Nth(S, i)) \in Tasks
  BY <1>3 DEF Tasks
<1>6. Each(S, ReplicateTask) \in Seq(Tasks)
  BY <1>2, <1>4, <1>5
<1> QED BY <1>2, <1>3, <1>4, <1>6

LEMMA EachDelete ==
  ASSUME NEW S \in SUBSET Node, NEW f \in File, NEW e, DOMAIN e = 1 .. Cardinality(S),
         e = [i \in DOMAIN e |-> e[i]],
         \A i \in 1 .. Cardinality(S) : e[i] = DeleteTask(Nth(S, i), f)
  PROVE  /\ DOMAIN e = 1 .. Cardinality(S) /\ Cardinality(S) \in Nat
         /\ \A i \in 1 .. Cardinality(S) : \E n \in S : e[i] = DeleteTask(n, f)
         /\ e \in Seq({DeleteTask(n, f) : n \in S})
<1>1. S \in SUBSET Nat /\ IsFiniteSet(S)
  BY ReplicationAssumption, FS_Subset
<1>2. Cardinality(S) \in Nat
  BY <1>1, FS_CardinalityType
<1>3. \A i \in 1 .. Cardinality(S) : Nth(S, i) \in S
  BY <1>1, PlaceTaken
<1> QED BY <1>2, <1>3

\* A command is refused, taken or done as its kind allows.
LEMMA CallMoves ==
  ASSUME NEW c \in Calls
  PROVE  /\ c.state = "sent" => [c EXCEPT !.state = "refused"] \in Calls
         /\ c.state = "sent" /\ c.do = "delete" => [c EXCEPT !.state = "done"] \in Calls
         /\ c.state = "sent" /\ c.do = "replicate" => [c EXCEPT !.state = "taken"] \in Calls
         /\ c.state = "taken" => [c EXCEPT !.state = "done"] \in Calls
<1>1. CASE c = NoCall
  BY <1>1 DEF NoCall
<1>2. CASE c \in ListCalls
  <2>1. c.state = "sent" => [c EXCEPT !.state = "refused"] \in ListCalls
    BY <1>2 DEF ListCalls
  <2> QED BY <1>2, <2>1 DEF ListCalls, Calls
<1>3. CASE c \in ListReplies
  BY <1>3 DEF ListReplies
<1>4. CASE c \in DeleteCalls
  <2>1. /\ [c EXCEPT !.state = "refused"] \in DeleteCalls
        /\ [c EXCEPT !.state = "done"] \in DeleteCalls
    BY <1>4 DEF DeleteCalls
  <2> QED BY <1>4, <2>1 DEF DeleteCalls, Calls
<1>5. CASE c \in ReplicateCalls
  <2>1. /\ [c EXCEPT !.state = "refused"] \in ReplicateCalls
        /\ [c EXCEPT !.state = "taken"] \in ReplicateCalls
        /\ [c EXCEPT !.state = "done"] \in ReplicateCalls
    BY <1>5 DEF ReplicateCalls
  <2> QED BY <2>1 DEF Calls
<1> QED BY <1>1, <1>2, <1>3, <1>4, <1>5 DEF Calls

\* What a call says, by its kind.
LEMMA CallFields ==
  ASSUME NEW c \in Calls
  PROVE  /\ c.do = "list" => c \in ListCalls \cup ListReplies
         /\ c.do = "delete" => c \in DeleteCalls
         /\ c.do = "replicate" => c \in ReplicateCalls
         /\ c.state = "taken" => c \in ReplicateCalls
         /\ c # NoCall => c.do \in {"list", "delete", "replicate"} /\ c.to \in Node
         /\ c.do = "none" => c = NoCall
         /\ c.do = "list" /\ c.state = "done" => c \in ListReplies
<1>1. CASE c = NoCall
  BY <1>1 DEF NoCall
<1>2. CASE c \in ListCalls
  BY <1>2 DEF ListCalls, NoCall
<1>3. CASE c \in ListReplies
  BY <1>3 DEF ListReplies, NoCall
<1>4. CASE c \in DeleteCalls
  BY <1>4 DEF DeleteCalls, NoCall
<1>5. CASE c \in ReplicateCalls
  BY <1>5 DEF ReplicateCalls, NoCall
<1> QED BY <1>1, <1>2, <1>3, <1>4, <1>5 DEF Calls

LEMMA TaskFields ==
  ASSUME NEW k \in Tasks
  PROVE  /\ k.do = "list" => \E n \in Node : k = ListTask(n)
         /\ k.do = "repair" => \E lost \in SUBSET Node : k = RepairTask(lost)
         /\ k.do = "replicate" => \E f \in File : k = ReplicateTask(f)
         /\ k.do = "delete" => \E n \in Node, f \in File : k = DeleteTask(n, f)
BY DEF Tasks, Repairs, ListTask, RepairTask, ReplicateTask, DeleteTask, GetTask, EndlessTask

\* A task is of its kind with what it names.
LEMMA TaskForms ==
  ASSUME NEW k \in Tasks
  PROVE  /\ k.do = "list" => k = ListTask(k.node)
         /\ k.do = "delete" => k = DeleteTask(k.node, k.file)
BY TaskFields DEF ListTask, DeleteTask

LEMMA CopyTask == \A f : ReplicateTask(f).do = "replicate" /\ ReplicateTask(f).file = f
BY DEF ReplicateTask

LEMMA ServiceFields ==
  ASSUME ThreadsT, NEW n \in Node, service[n].state = "sending"
  PROVE  service[n] \in Sends
BY DEF ThreadsT, Idle, Sends

LEMMA HeadTail ==
  ASSUME ThreadsT, NEW t \in Thread, job[t] # << >>
  PROVE  Head(job[t]) \in Tasks /\ Tail(job[t]) \in Seq(Tasks)
BY DEF ThreadsT

LEMMA FirstOf == ASSUME NEW S, NEW s \in Seq(S), s # << >> PROVE Head(s) = s[1] /\ 1 \in DOMAIN s
OBVIOUS

\* Commands that replicateFile may send.
LEMMA DrawsType ==
  ASSUME TInv, NEW m \in Node, NEW f \in File, Wanted(m, f) # 0, NEW c \in Draws(m, f)
  PROVE  c \in ReplicateCalls /\ c.state = "sent" /\ c.keep /\ c.file = f /\ c.to \in Holders(m, f)
<1>1. PICK s \in Holders(m, f), T \in SUBSET (members \ Holders(m, f)) :
         c = ReplicateCall(s, f, T, TRUE) /\ Cardinality(T) = Wanted(m, f)
  BY DEF Draws
<1>2. s \in Node /\ T \in SUBSET Node
  BY DEF Holders, TInv, GroupT
<1>3. T # {}
  BY <1>1, FS_EmptySet
<1> QED BY <1>1, <1>2, <1>3 DEF ReplicateCall, ReplicateCalls

LEMMA ThreadsTypeInit == Init => ThreadsT
<1> SUFFICES ASSUME Init PROVE ThreadsT
  OBVIOUS
<1>1. << >> \in Seq(Tasks)
  OBVIOUS
<1> QED BY <1>1 DEF Init, ThreadsT, Calls

\* The next thing a thread does may be replaced, or done.
LEMMA JobsType ==
  ASSUME ThreadsT, NEW t \in Thread
  PROVE  /\ \A e \in Seq(Tasks) : [job EXCEPT ![t] = e] \in [Thread -> Seq(Tasks)]
         /\ \A c \in Calls : [call EXCEPT ![t] = c] \in [Thread -> Calls]
         /\ \A k \in Tasks : <<k>> \in Seq(Tasks)
BY DEF ThreadsT

LEMMA MapType ==
  ASSUME ThreadsT, NEW m \in Node, NEW n \in Node, NEW S \in SUBSET File
  PROVE  [map EXCEPT ![m][n] = S] \in [Node -> [Node -> SUBSET File]]
<1> PICK T : T = SUBSET File
  OBVIOUS
<1>1. map \in [Node -> [Node -> T]]
  BY DEF ThreadsT
<1>2. \A g \in [Node -> [Node -> T]] : \A v \in T :
        [g EXCEPT ![m][n] = v] \in [Node -> [Node -> T]]
  BY SetEntry
<1> QED BY <1>1, <1>2

LEMMA ServeTypes == ASSUME TInv, NEW m \in Node, Serve(m) PROVE ThreadsT'
<1> DEFINE t == <<m, "serve">>
<1> USE DEF TInv
<1>1. t \in Thread /\ NodeOf(t) = m
  BY DEF Thread, NodeOf
<1>2. PICK q \in mail : \/ ServePut(t, q) \/ ServeGet(t, q)
                        \/ ServeDelete(t, q) \/ ServeUpdate(t, q)
  BY DEF Serve
<1>3. service' = service
  BY DEF Serve
<1>4. q.file \in File /\ q.from \in Node
  BY DEF UsersT, Requests, Updates
<1> HIDE DEF t
<1>5. CASE ServePut(t, q)
  <2>1. /\ UNCHANGED call
        /\ \/ UNCHANGED <<map, job>>
           \/ /\ map' = [map EXCEPT ![m][q.from] = map[m][q.from] \cup {q.file}]
              /\ job' = [job EXCEPT ![t] = <<ReplicateTask(q.file)>>]
    BY <1>1, <1>5 DEF ServePut
  <2>2. map[m][q.from] \cup {q.file} \in SUBSET File
    BY <1>4 DEF ThreadsT
  <2>3. [map EXCEPT ![m][q.from] = map[m][q.from] \cup {q.file}] \in [Node -> [Node -> SUBSET File]]
    BY <1>4, <2>2, MapType
  <2>4. ReplicateTask(q.file) \in Tasks
    BY <1>4 DEF Tasks
  <2>5. [job EXCEPT ![t] = <<ReplicateTask(q.file)>>] \in [Thread -> Seq(Tasks)]
    BY <1>1, <2>4, JobsType
  <2> QED BY <1>3, <2>1, <2>3, <2>5 DEF ThreadsT
<1>6. CASE ServeGet(t, q)
  <2> DEFINE have == Holders(m, q.file)
             c == ReplicateCall(Lowest(have), q.file, {q.from}, FALSE)
  <2>1. /\ UNCHANGED map
        /\ \/ UNCHANGED <<job, call>>
           \/ have # {} /\ job' = [job EXCEPT ![t] = <<GetTask>>] /\ call' = [call EXCEPT ![t] = c]
    BY <1>1, <1>6 DEF ServeGet
  <2>2. CASE have # {}
    <3>1. Lowest(have) \in Node
      BY <2>2, LowestIn DEF Holders, GroupT
    <3>2. c \in ReplicateCalls
      BY <1>4, <3>1 DEF ReplicateCall, ReplicateCalls
    <3>3. c \in Calls /\ GetTask \in Tasks
      <4> HIDE DEF c
      <4> QED BY <3>2 DEF Calls, Tasks
    <3>4. /\ [job EXCEPT ![t] = <<GetTask>>] \in [Thread -> Seq(Tasks)]
          /\ [call EXCEPT ![t] = c] \in [Thread -> Calls]
      BY <1>1, <3>3, JobsType
    <3> HIDE DEF c, have
    <3> QED BY <1>3, <2>1, <3>4 DEF ThreadsT
  <2> HIDE DEF c
  <2> QED BY <1>3, <2>1, <2>2 DEF ThreadsT
<1>7. CASE ServeDelete(t, q)
  <2> DEFINE have == Holders(m, q.file)
             e == [i \in 1 .. Cardinality(have) |-> DeleteTask(Nth(have, i), q.file)]
  <2>1. /\ UNCHANGED <<map, call>>
        /\ UNCHANGED job \/ job' = [job EXCEPT ![t] = e]
    BY <1>1, <1>7 DEF ServeDelete, Each
  <2>2. have \in SUBSET Node
    BY DEF Holders, GroupT
  <2>3. e \in Seq({DeleteTask(n, q.file) : n \in have})
    <3>1. /\ DOMAIN e = 1 .. Cardinality(have) /\ e = [i \in DOMAIN e |-> e[i]]
          /\ \A i \in 1 .. Cardinality(have) : e[i] = DeleteTask(Nth(have, i), q.file)
      OBVIOUS
    <3> HIDE DEF e, have
    <3> QED BY <1>4, <2>2, <3>1, EachDelete
  <2>4. {DeleteTask(n, q.file) : n \in have} \subseteq Tasks
    BY <1>4, <2>2 DEF Tasks
  <2> HIDE DEF e
  <2>5. e \in Seq(Tasks)
    BY <2>3, <2>4
  <2>6. [job EXCEPT ![t] = e] \in [Thread -> Seq(Tasks)]
    BY <1>1, <2>5, JobsType
  <2> QED BY <1>3, <2>1, <2>6 DEF ThreadsT
<1>8. CASE ServeUpdate(t, q)
  <2>1. UNCHANGED <<job, call>> /\ map' = [map EXCEPT ![m][q.from] = map[m][q.from] \cup {q.file}]
    BY <1>1, <1>8 DEF ServeUpdate
  <2>2. map[m][q.from] \cup {q.file} \in SUBSET File
    BY <1>4 DEF ThreadsT
  <2>3. [map EXCEPT ![m][q.from] = map[m][q.from] \cup {q.file}] \in [Node -> [Node -> SUBSET File]]
    BY <1>4, <2>2, MapType
  <2> QED BY <1>3, <2>1, <2>3 DEF ThreadsT
<1> QED BY <1>2, <1>5, <1>6, <1>7, <1>8

LEMMA ObeyTypes == ASSUME TInv, NEW n \in Node, Obey(n) PROVE ThreadsT'
<1> USE DEF TInv
<1>1. UNCHANGED <<map, job>>
  BY DEF Obey
<1>2. PICK t \in Thread :
        /\ call[t].state = "sent" /\ call[t].to = n
        /\ \/ Refuse(n, t)
           \/ call[t].do = "list" /\ DoList(n, t)
           \/ call[t].do = "delete" /\ DoDelete(n, t)
           \/ call[t].do = "replicate" /\ DoReplicate(n, t)
  BY DEF Obey
<1>3. call[t] \in Calls
  BY DEF ThreadsT
<1>4. CASE Refuse(n, t)
  <2>1. /\ call' = [call EXCEPT ![t] = [call[t] EXCEPT !.state = "refused"]]
        /\ service' = [service EXCEPT ![n] = [state |-> "dead"]]
    BY <1>4 DEF Refuse
  <2>2. [call[t] EXCEPT !.state = "refused"] \in Calls
    BY <1>2, <1>3, CallMoves
  <2>3. call' \in [Thread -> Calls]
    BY <2>1, <2>2, JobsType
  <2> QED BY <1>1, <2>1, <2>3 DEF ThreadsT
<1>5. CASE DoList(n, t)
  <2> DEFINE c == [do |-> "list", to |-> n, names |-> held[n], state |-> "done"]
  <2>1. call' = [call EXCEPT ![t] = c] /\ UNCHANGED service
    BY <1>5 DEF DoList
  <2>2. c \in Calls
    BY DEF Calls, ListReplies, FilesT
  <2> HIDE DEF c
  <2>3. call' \in [Thread -> Calls]
    BY <2>1, <2>2, JobsType
  <2> QED BY <1>1, <2>1, <2>3 DEF ThreadsT
<1>6. CASE call[t].do = "delete" /\ DoDelete(n, t)
  <2>1. call' = [call EXCEPT ![t] = [call[t] EXCEPT !.state = "done"]] /\ UNCHANGED service
    BY <1>6 DEF DoDelete, Done
  <2>2. [call[t] EXCEPT !.state = "done"] \in Calls
    BY <1>2, <1>3, <1>6, CallMoves
  <2>3. call' \in [Thread -> Calls]
    BY <2>1, <2>2, JobsType
  <2> QED BY <1>1, <2>1, <2>3 DEF ThreadsT
<1>7. CASE call[t].do = "replicate" /\ DoReplicate(n, t)
  <2> DEFINE s == [state |-> "sending", by |-> t, file |-> call[t].file,
                   targets |-> call[t].targets, keep |-> call[t].keep]
  <2>1. /\ call' = [call EXCEPT ![t] = [call[t] EXCEPT !.state = "taken"]]
        /\ service' = [service EXCEPT ![n] = s]
    BY <1>7 DEF DoReplicate
  <2>2. [call[t] EXCEPT !.state = "taken"] \in Calls
    BY <1>2, <1>3, <1>7, CallMoves
  <2>3. call' \in [Thread -> Calls]
    BY <2>1, <2>2, JobsType
  <2>4. s \in Sends
    BY <1>3, <1>7, CallFields DEF ReplicateCalls, Sends
  <2> HIDE DEF s
  <2> QED BY <1>1, <2>1, <2>3, <2>4 DEF ThreadsT
<1> QED BY <1>2, <1>4, <1>5, <1>6, <1>7

LEMMA AnnounceTypes == ASSUME TInv, NEW n \in Node, Announce(n) PROVE ThreadsT'
<1> USE DEF TInv
<1> DEFINE k == Lowest(service[n].targets)
           b == service[n].by
<1>1. UNCHANGED <<map, job>>
  BY DEF Announce
<1>2. service[n].state = "sending"
  BY DEF Announce
<1>3. service[n] \in Sends /\ b \in Thread
  BY <1>2, ServiceFields DEF Sends
<1>4. \/ /\ service' = [service EXCEPT ![n] = Idle]
         /\ \/ UNCHANGED call
            \/ call[b].state = "taken" /\ call' = [call EXCEPT ![b] = [call[b] EXCEPT !.state = "done"]]
      \/ /\ service[n].targets # {k}
         /\ service' = [service EXCEPT ![n] = [service[n] EXCEPT !.targets = service[n].targets \ {k}]]
         /\ UNCHANGED call
  BY DEF Announce, Done
<1> HIDE DEF k
<1>5. service' \in [Node -> {Idle} \cup [state : {"dead"}] \cup Sends]
  <2>1. service[n].targets # {k} => [service[n] EXCEPT !.targets = service[n].targets \ {k}] \in Sends
    BY <1>3 DEF Sends
  <2>2. service \in [Node -> {Idle} \cup [state : {"dead"}] \cup Sends]
    BY DEF ThreadsT
  <2> QED BY <1>4, <2>1, <2>2
<1>6. call' \in [Thread -> Calls]
  <2>1. call[b] \in Calls /\ call \in [Thread -> Calls]
    BY <1>3 DEF ThreadsT
  <2>2. call[b].state = "taken" => [call[b] EXCEPT !.state = "done"] \in Calls
    BY <2>1, CallMoves
  <2> HIDE DEF b
  <2> QED BY <1>3, <1>4, <2>1, <2>2, JobsType
<1> QED BY <1>1, <1>5, <1>6 DEF ThreadsT

LEMMA WantedInt ==
  ASSUME GroupT, NEW m, NEW f
  PROVE  /\ Wanted(m, f) \in Int /\ Count(m, f) \in Nat
         /\ Count(m, f) = 0 <=> \A n \in Node : f \notin map[m][n]
<1> DEFINE S == {n \in Node : f \in map[m][n]}
<1>1. IsFiniteSet(S) /\ IsFiniteSet(members)
  BY ReplicationAssumption, FS_Subset DEF GroupT
<1>2. Count(m, f) = Cardinality(S)
  BY DEF Count
<1>3. S = {} <=> \A n \in Node : f \notin map[m][n]
  OBVIOUS
<1> HIDE DEF S
<1>4. Cardinality(S) \in Nat /\ Cardinality(members) \in Nat /\ (Cardinality(S) = 0 <=> S = {})
  BY <1>1, FS_CardinalityType, FS_EmptySet
<1>5. Smaller(Cardinality(members), MaxReplicate) \in Nat
  BY <1>4, ReplicationAssumption DEF Smaller
<1> QED BY <1>2, <1>3, <1>4, <1>5 DEF Wanted

LEMMA WorkTypes == ASSUME TInv, NEW t \in Thread, Work(t) PROVE ThreadsT' /\ Employed'
<1> USE DEF TInv
<1>1. UNCHANGED <<service, alive>> /\ call[t] = NoCall /\ job[t] # << >>
  BY DEF Work, nodeVars, groupVars
<1>2. Head(job[t]) \in Tasks /\ Tail(job[t]) \in Seq(Tasks)
  BY <1>1, HeadTail
<1> DEFINE m == NodeOf(t)
<1>3. m \in Node
  BY ThreadNodes
<1> HIDE DEF m
<1>4. ASSUME Head(job[t]).do = "repair", Repair(t) PROVE ThreadsT' /\ Employed'
  <2> DEFINE known == [n \in Node |-> IF n \in Head(job[t]).lost THEN {} ELSE map[m][n]]
             names == UNION {known[n] : n \in members}
             e == Each(names, ReplicateTask) \o Tail(job[t])
  <2>1. /\ map' = [map EXCEPT ![m] = known] /\ job' = [job EXCEPT ![t] = e] /\ UNCHANGED call
    BY <1>4 DEF Repair, m
  <2>2. known \in [Node -> SUBSET File]
    BY <1>3 DEF ThreadsT
  <2>3. names \in SUBSET File
    BY <2>2 DEF GroupT
  <2>5. Each(names, ReplicateTask) \in Seq(Tasks)
    <3> HIDE DEF names
    <3> QED BY <2>3, EachReplicate
  <2>6. e \in Seq(Tasks)
    BY <1>2, <2>5
  <2>7. [job EXCEPT ![t] = e] \in [Thread -> Seq(Tasks)]
    BY <2>6, JobsType
  <2> HIDE DEF e, known
  <2>8. ThreadsT'
    BY <1>1, <2>1, <2>2, <2>7 DEF ThreadsT
  <2>9. Employed'
    BY <1>1, <2>1 DEF Employed, ThreadsT
  <2> QED BY <2>8, <2>9
<1>5. ASSUME Head(job[t]).do = "replicate", Replicate(t) PROVE ThreadsT' /\ Employed'
  <2> PICK f \in File : Head(job[t]) = ReplicateTask(f)
    BY <1>2, <1>5, TaskFields
  <2>1. Head(job[t]).file = f
    BY DEF ReplicateTask
  <2>2. /\ UNCHANGED map
        /\ \/ UNCHANGED call /\ job' = [job EXCEPT ![t] = Tail(job[t])]
           \/ UNCHANGED call /\ job' = [job EXCEPT ![t] = <<EndlessTask(f, Wanted(m, f) < 0)>>]
           \/ /\ UNCHANGED job /\ Wanted(m, f) # 0
              /\ \E c \in Draws(m, f) : call' = [call EXCEPT ![t] = c]
    BY <1>5, <2>1 DEF Replicate, Rest, m
  <2>3. [job EXCEPT ![t] = Tail(job[t])] \in [Thread -> Seq(Tasks)]
    BY <1>2, JobsType
  <2>4. [job EXCEPT ![t] = <<EndlessTask(f, Wanted(m, f) < 0)>>] \in [Thread -> Seq(Tasks)]
    <3>0. Wanted(m, f) \in Int
      BY WantedInt
    <3> DEFINE excess == Wanted(m, f) < 0
    <3>2. excess \in BOOLEAN
      BY <3>0
    <3> HIDE DEF excess
    <3>3. EndlessTask(f, excess) \in [do : {"endless"}, file : File, excess : BOOLEAN]
      BY <3>2 DEF EndlessTask
    <3>1. EndlessTask(f, excess) \in Tasks
      BY <3>3 DEF Tasks
    <3> USE DEF excess
    <3> QED BY <3>1, JobsType
  <2>5. \A c \in Draws(m, f) : Wanted(m, f) # 0 => [call EXCEPT ![t] = c] \in [Thread -> Calls]
    BY <1>3, DrawsType, JobsType DEF Calls
  <2> HIDE DEF m
  <2>6. ThreadsT'
    BY <1>1, <2>2, <2>3, <2>4, <2>5 DEF ThreadsT
  <2>7. Employed'
    BY <1>1, <2>2 DEF Employed, ThreadsT
  <2> QED BY <2>6, <2>7
<1>6. ASSUME Head(job[t]).do \in {"list", "delete"}, Command(t) PROVE ThreadsT' /\ Employed'
  <2> DEFINE k == Head(job[t])
             c == Call(k.do, k.node, IF k.do = "delete" THEN k.file ELSE "")
  <2>1. UNCHANGED <<map, job>> /\ call' = [call EXCEPT ![t] = c]
    BY <1>6 DEF Command
  <2>2. c \in ListCalls \cup DeleteCalls
    <3>1. CASE k.do = "list"
      <4>1. PICK n \in Node : k = ListTask(n)
        BY <1>2, <3>1, TaskFields
      <4>2. k.node = n
        BY <4>1 DEF ListTask
      <4> HIDE DEF k
      <4>3. c = Call("list", n, "")
        BY <3>1, <4>2
      <4> HIDE DEF c
      <4> QED BY <4>3 DEF Call, ListCalls
    <3>2. CASE k.do = "delete"
      <4>1. PICK n \in Node, f \in File : k = DeleteTask(n, f)
        BY <1>2, <3>2, TaskFields
      <4>2. k.node = n /\ k.file = f
        BY <4>1 DEF DeleteTask
      <4> HIDE DEF k
      <4>3. c = Call("delete", n, f)
        BY <3>2, <4>2
      <4> HIDE DEF c
      <4> QED BY <4>3 DEF Call, DeleteCalls
    <3> QED BY <1>6, <3>1, <3>2
  <2> HIDE DEF c
  <2>3. c \in Calls
    BY <2>2 DEF Calls
  <2>4. [call EXCEPT ![t] = c] \in [Thread -> Calls]
    BY <2>3, JobsType
  <2>5. ThreadsT'
    BY <1>1, <2>1, <2>4 DEF ThreadsT
  <2>6. Employed'
    BY <1>1, <2>1 DEF Employed, ThreadsT
  <2> QED BY <2>5, <2>6
<1> QED BY <1>4, <1>5, <1>6 DEF Work

LEMMA ReturnTypes == ASSUME TInv, NEW t \in Thread, Return(t) PROVE ThreadsT' /\ Employed'
<1> USE DEF TInv
<1> DEFINE c == call[t]
           m == NodeOf(t)
           S == IF c.do = "list" /\ c.names # {} THEN c.names
                ELSE IF c.do = "delete" THEN map[m][c.to] \ {c.file} ELSE map[m][c.to]
<1>1. /\ UNCHANGED <<service, alive>>
      /\ m \in alive /\ c.state = "done"
      /\ map' = [map EXCEPT ![m][c.to] = S]
      /\ job' = [job EXCEPT ![t] = Tail(job[t])]
      /\ call' = [call EXCEPT ![t] = NoCall]
  BY DEF Return, nodeVars, groupVars, Rest
<1>2. c \in Calls
  BY DEF ThreadsT
<1>3. c # NoCall /\ job[t] # << >>
  BY <1>1 DEF NoCall, Employed
<1>4. Tail(job[t]) \in Seq(Tasks)
  BY <1>3, HeadTail
<1>5. m \in Node /\ c.to \in Node /\ (c.do = "list" => c.names \in SUBSET File)
  BY <1>1, <1>2, <1>3, ThreadNodes, CallFields DEF ListReplies
<1> HIDE DEF c, m
<1>6. S \in SUBSET File
  BY <1>5 DEF ThreadsT
<1> HIDE DEF S
<1>7. map' \in [Node -> [Node -> SUBSET File]]
  BY <1>1, <1>5, <1>6, MapType
<1>8. job' \in [Thread -> Seq(Tasks)]
  BY <1>1, <1>4, JobsType
<1>9. call' \in [Thread -> Calls]
  <2>1. NoCall \in Calls
    BY DEF Calls
  <2> QED BY <1>1, <2>1, JobsType
<1>10. ThreadsT'
  BY <1>1, <1>7, <1>8, <1>9 DEF ThreadsT
<1>11. Employed'
  BY <1>1 DEF Employed, ThreadsT
<1> QED BY <1>10, <1>11

LEMMA GoneTypes ==
  ASSUME TInv, NEW n \in Node, Crash(n) \/ Leave(n)
  PROVE  ThreadsT' /\ Employed'
<1> USE DEF TInv
<1>1. Gone(n)
  BY DEF Crash, Leave
<1>2. /\ UNCHANGED <<service, map>> /\ alive' = alive \ {n}
      /\ job' = [t \in Thread |-> IF NodeOf(t) = n THEN << >> ELSE job[t]]
  BY <1>1 DEF Gone
<1>3. PICK delivered \in BOOLEAN :
        call' = [t \in Thread |-> IF NodeOf(t) = n /\ ~delivered THEN NoCall ELSE call[t]]
  BY <1>1 DEF Gone
<1>4. job' \in [Thread -> Seq(Tasks)]
  <2>1. << >> \in Seq(Tasks)
    OBVIOUS
  <2> QED BY <1>2, <2>1 DEF ThreadsT
<1>5. call' \in [Thread -> Calls]
  BY <1>3 DEF ThreadsT, Calls
<1>6. ThreadsT'
  BY <1>2, <1>4, <1>5 DEF ThreadsT
<1>7. Employed'
  BY <1>2, <1>3 DEF Employed
<1> QED BY <1>6, <1>7

LEMMA ReportTypes == ASSUME TInv, NEW n \in Node, Report(n) PROVE ThreadsT' /\ Employed'
<1> USE DEF TInv
<1>1. /\ UNCHANGED <<service, map, call, alive>>
      /\ job' = [t \in Thread |->
                  IF t[2] = "repair" /\ NodeOf(t) \in alive \cap {leader, Lowest(alive)}
                  THEN Append(job[t], RepairTask({n})) ELSE job[t]]
  BY DEF Report, nodeVars
<1>2. RepairTask({n}) \in Tasks
  BY DEF Tasks, Repairs
<1>3. ASSUME NEW t \in Thread
      PROVE  Append(job[t], RepairTask({n})) \in Seq(Tasks) /\ Append(job[t], RepairTask({n})) # << >>
  <2>1. job[t] \in Seq(Tasks)
    BY DEF ThreadsT
  <2> PICK k \in Tasks : k = RepairTask({n})
    BY <1>2
  <2> QED BY <2>1
<1>4. job' \in [Thread -> Seq(Tasks)]
  BY <1>1, <1>3 DEF ThreadsT
<1>5. ThreadsT'
  BY <1>1, <1>4 DEF ThreadsT
<1>6. Employed'
  BY <1>1, <1>3 DEF Employed
<1> QED BY <1>5, <1>6

LEMMA ElectTypes == ASSUME TInv, Elect PROVE ThreadsT' /\ Employed'
<1> USE DEF TInv
<1> DEFINE t == <<leader', "start">>
           e == Each(members, ListTask) \o <<RepairTask({})>>
<1>1. UNCHANGED <<service, map, call, alive>> /\ job' = [job EXCEPT ![t] = e]
  BY DEF Elect, nodeVars
<1>2. t \in Thread
  BY LowestIn DEF Elect, GroupT, Thread
<1>3. e \in Seq(Tasks) /\ e # << >>
  <2>3. Each(members, ListTask) \in Seq(Tasks)
    BY EachList DEF GroupT
  <2>4. RepairTask({}) \in Tasks
    BY DEF Tasks, Repairs
  <2> PICK d, k : d = Each(members, ListTask) /\ k = RepairTask({})
    OBVIOUS
  <2>5. <<k>> \in Seq(Tasks) /\ Len(<<k>>) = 1 /\ d \in Seq(Tasks)
    BY <2>3, <2>4
  <2>6. d \o <<k>> \in Seq(Tasks) /\ Len(d \o <<k>>) = Len(d) + 1 /\ Len(d) \in Nat
    BY <2>5
  <2> QED BY <2>6
<1> HIDE DEF t, e
<1>4. job' \in [Thread -> Seq(Tasks)]
  BY <1>1, <1>2, <1>3, JobsType
<1>5. ThreadsT'
  BY <1>1, <1>4 DEF ThreadsT
<1>6. Employed'
  BY <1>1, <1>2, <1>3 DEF Employed, ThreadsT
<1> QED BY <1>5, <1>6

LEMMA ThreadsTypeStep == TInv /\ [Next]_vars => ThreadsT'
<1> SUFFICES ASSUME TInv, [Next]_vars PROVE ThreadsT'
  OBVIOUS
<1>1. CASE UNCHANGED <<service, job, call, map>>
  BY <1>1 DEF TInv, ThreadsT
<1> QED BY <1>1, ServeTypes, ObeyTypes, AnnounceTypes, WorkTypes, ReturnTypes, GoneTypes,
           ReportTypes, ElectTypes
  DEF Next, vars, nodeVars, masterVars, Ask, GiveUp, Copy, Fetched, Erase

LEMMA EmployedStep == TInv /\ [Next]_vars => Employed'
<1> SUFFICES ASSUME TInv, [Next]_vars PROVE Employed'
  OBVIOUS
<1> USE DEF TInv
<1>1. CASE UNCHANGED <<alive, job, call>>
  BY <1>1 DEF Employed
<1>2. ASSUME NEW m \in Node, Serve(m) PROVE Employed'
  <2> DEFINE t == <<m, "serve">>
  <2>1. t \in Thread /\ NodeOf(t) = m /\ m \in alive /\ job[t] = << >> /\ UNCHANGED alive
    BY <1>2 DEF Thread, NodeOf, Serve, groupVars
  <2>2. call[t] = NoCall
    BY <2>1 DEF Employed
  <2>3. PICK q \in mail : \/ ServePut(t, q) \/ ServeGet(t, q)
                          \/ ServeDelete(t, q) \/ ServeUpdate(t, q)
    BY <1>2 DEF Serve
  <2>4. \/ UNCHANGED call /\ \E e : job' = [job EXCEPT ![t] = e]
        \/ UNCHANGED <<job, call>>
        \/ /\ job' = [job EXCEPT ![t] = <<GetTask>>]
           /\ \E c : call' = [call EXCEPT ![t] = c]
    <3> HIDE DEF t
    <3> QED BY <2>3 DEF ServePut, ServeGet, ServeDelete, ServeUpdate
  <2> HIDE DEF t
  <2>5. \A r \in Thread : r # t => job'[r] = job[r] /\ call'[r] = call[r]
    BY <2>4 DEF ThreadsT
  <2>6. call'[t] = NoCall \/ job'[t] # << >>
    <3>1. \A k : <<k>> # << >>
      OBVIOUS
    <3>2. call' = call \/ job' = [job EXCEPT ![t] = <<GetTask>>]
      BY <2>4
    <3>3. call' = call => call'[t] = NoCall
      BY <2>2
    <3>4. job' = [job EXCEPT ![t] = <<GetTask>>] => job'[t] = <<GetTask>>
      BY <2>1 DEF ThreadsT
    <3> QED BY <3>1, <3>2, <3>3, <3>4
  <2> QED BY <2>1, <2>5, <2>6 DEF Employed
<1>3. ASSUME NEW n \in Node, Obey(n) PROVE Employed'
  <2>1. PICK t \in Thread :
          /\ call[t].state = "sent"
          /\ Refuse(n, t) \/ DoList(n, t) \/ DoDelete(n, t) \/ DoReplicate(n, t)
    BY <1>3 DEF Obey
  <2>2. call[t] # NoCall /\ \A r \in Thread : r # t => call'[r] = call[r]
    BY <2>1 DEF NoCall, Refuse, DoList, DoDelete, DoReplicate, Done, ThreadsT
  <2> QED BY <1>3, <2>2 DEF Obey, groupVars, Employed
<1>4. ASSUME NEW n \in Node, Announce(n) PROVE Employed'
  <2> DEFINE b == service[n].by
  <2>1. /\ UNCHANGED <<job, alive>>
        /\ \/ UNCHANGED call
           \/ call[b].state = "taken" /\ call' = [call EXCEPT ![b].state = "done"]
    BY <1>4 DEF Announce, groupVars, Done
  <2>2. \A r \in Thread : call'[r] # NoCall => call[r] # NoCall
    <3> HIDE DEF b
    <3> QED BY <2>1 DEF NoCall, ThreadsT
  <2> QED BY <2>1, <2>2 DEF Employed
<1> QED BY <1>1, <1>2, <1>3, <1>4, WorkTypes, ReturnTypes, GoneTypes, ReportTypes, ElectTypes
  DEF Next, vars, groupVars, masterVars, Ask, GiveUp, Copy, Fetched, Erase

LEMMA GroupFinite ==
  ASSUME GroupT, NEW n \in alive
  PROVE  /\ Cardinality(Node \ alive) \in Nat
         /\ Cardinality(Node \ (alive \ {n})) = Cardinality(Node \ alive) + 1
<1>1. IsFiniteSet(Node \ alive) /\ n \notin Node \ alive
  BY ReplicationAssumption, FS_Subset
<1>2. Node \ (alive \ {n}) = (Node \ alive) \cup {n}
  BY DEF GroupT
<1> QED BY <1>1, <1>2, FS_AddElement, FS_CardinalityType

LEMMA NotesTypeInit == Init => NotesT
<1> SUFFICES ASSUME Init PROVE NotesT
  OBVIOUS
<1>1. Node \ alive = {}
  BY DEF Init
<1>2. late = 0 /\ Cardinality(Node \ alive) = 0
  BY <1>1, FS_EmptySet DEF Init
<1>3. Faults = 0
  BY <1>2 DEF Faults
<1> QED BY <1>2, <1>3, ReplicationAssumption DEF Init, NotesT

LEMMA NotesTypeStep == TInv /\ [Next]_vars => NotesT'
<1> SUFFICES ASSUME TInv, [Next]_vars PROVE NotesT'
  OBVIOUS
<1> USE DEF TInv
<1>1. CASE UNCHANGED <<alive, noteVars>>
  BY <1>1 DEF NotesT, noteVars, Faults
<1>2. ASSUME NEW n \in Node, NEW op, NEW f, Ask(n, op, f) PROVE NotesT'
  <2>1. asked < MaxRequests /\ asked' = asked + 1 /\ UNCHANGED <<alive, late, last, mishaps, miscounted>>
    BY <1>2 DEF Ask, groupVars
  <2>2. asked' \in 0 .. MaxRequests
    BY <2>1, ReplicationAssumption DEF NotesT
  <2> QED BY <2>1, <2>2 DEF NotesT, Faults
<1>3. ASSUME NEW n \in Node, GiveUp(n) PROVE NotesT'
  <2>1. UNCHANGED <<alive, asked, last, miscounted>> /\ (mishaps' = mishaps \/ mishaps' = mishaps \cup {"late"})
    BY <1>3 DEF GiveUp, groupVars
  <2>2. \/ UNCHANGED late
        \/ late' = late + 1 /\ Faults < MaxFaults
    BY <1>3 DEF GiveUp
  <2>3. Cardinality(Node \ alive) \in Nat
    BY GroupFinite DEF GroupT
  <2>4. late' \in Nat /\ Faults' <= MaxFaults
    BY <2>1, <2>2, <2>3, ReplicationAssumption DEF NotesT, Faults
  <2> QED BY <2>1, <2>4 DEF NotesT, Mishap
<1>4. ASSUME NEW n \in Node, Copy(n) \/ Obey(n) \/ Announce(n) PROVE NotesT'
  <2>1. UNCHANGED <<alive, asked, late, last, miscounted>>
    BY <1>4 DEF Copy, Obey, Announce, groupVars
  <2>2. mishaps' \subseteq mishaps \cup {"overlap", "crossed", "hasty", "overtaken"}
    BY <1>4 DEF Copy, Obey, Refuse, DoList, DoDelete, DoReplicate, Announce
  <2> QED BY <2>1, <2>2 DEF NotesT, Faults, Mishap
<1>5. ASSUME NEW m \in Node, Serve(m) PROVE NotesT'
  <2> DEFINE t == <<m, "serve">>
  <2>1. UNCHANGED <<alive, asked, late, miscounted>>
    BY <1>5 DEF Serve, groupVars
  <2>2. PICK q \in mail : \/ ServePut(t, q) \/ ServeGet(t, q)
                          \/ ServeDelete(t, q) \/ ServeUpdate(t, q)
    BY <1>5 DEF Serve
  <2>3. q.file \in File
    BY DEF UsersT, Requests, Updates
  <2> HIDE DEF t
  <2>4. mishaps' \subseteq mishaps \cup {"early", "overtaken", "crossed"}
    BY <2>2 DEF ServePut, ServeGet, ServeDelete, ServeUpdate
  <2>5. \/ UNCHANGED last
        \/ last' = [last EXCEPT ![q.file] = "put"]
        \/ last' = [last EXCEPT ![q.file] = "delete"]
    BY <2>2 DEF ServePut, ServeGet, ServeDelete, ServeUpdate
  <2>6. last' \in [File -> {"none", "put", "delete"}]
    BY <2>3, <2>5 DEF NotesT
  <2> QED BY <2>1, <2>4, <2>6 DEF NotesT, Faults, Mishap
<1>6. ASSUME NEW t \in Thread, Work(t) PROVE NotesT'
  <2>1. UNCHANGED <<alive, asked, late, last>>
    BY <1>6 DEF Work, groupVars
  <2>2. mishaps' = mishaps \/ mishaps' = mishaps \cup {"crossed"}
    BY <1>6 DEF Work, Repair, Replicate, Command
  <2>3. job[t] # << >> /\ Head(job[t]) \in Tasks
    BY <1>6, HeadTail DEF Work, ThreadsT
  <2>4. \/ UNCHANGED miscounted
        \/ Head(job[t]).do = "replicate" /\ miscounted' \subseteq miscounted \cup {Head(job[t]).file}
    BY <1>6 DEF Work, Repair, Replicate, Command
  <2>a. Head(job[t]).do = "replicate" => Head(job[t]).file \in File
    BY <2>3, TaskFields DEF ReplicateTask
  <2>5. miscounted' \subseteq File
    BY <2>4, <2>a DEF NotesT
  <2> QED BY <2>1, <2>2, <2>5 DEF NotesT, Faults, Mishap
<1>7. ASSUME NEW n \in Node, Crash(n) \/ Leave(n) PROVE NotesT'
  <2>1. Gone(n) /\ n \in alive /\ Faults < MaxFaults
    BY <1>7 DEF Crash, Leave
  <2>2. /\ alive' = alive \ {n} /\ UNCHANGED <<asked, late, last, miscounted>>
        /\ mishaps' = mishaps \/ mishaps' = mishaps \cup {"amid"}
    BY <2>1 DEF Gone
  <2>3. Cardinality(Node \ alive) \in Nat /\ Cardinality(Node \ alive') = Cardinality(Node \ alive) + 1
    BY <2>1, <2>2, GroupFinite
  <2>4. Faults' <= MaxFaults
    BY <2>1, <2>2, <2>3, ReplicationAssumption DEF NotesT, Faults
  <2> QED BY <2>2, <2>4 DEF NotesT, Mishap
<1> QED BY <1>1, <1>2, <1>3, <1>4, <1>5, <1>6, <1>7
  DEF Next, vars, groupVars, noteVars, Return, Fetched, Report, Erase, Elect

LEMMA TypesInit == Init => TInv
<1> SUFFICES ASSUME Init PROVE TInv
  OBVIOUS
<1>1. Employed
  BY DEF Init, Employed
<1> QED BY <1>1, GroupTypeInit, FilesTypeInit, UsersTypeInit, ThreadsTypeInit, NotesTypeInit DEF TInv

LEMMA TypesStep == TInv /\ [Next]_vars => TInv'
BY GroupTypeStep, FilesTypeStep, UsersTypeStep, ThreadsTypeStep, NotesTypeStep, EmployedStep
  DEF TInv

LEMMA TypesAlways == Spec => []TInv
<1>1. TInv /\ [Next]_vars => TInv'
  BY TypesStep
<1> QED BY TypesInit, <1>1, PTL DEF Spec

\* The types of the whole state (TypeOK), for any group, files and bounds: what is
\* held, stored and noted is of known nodes and files, every command goes to a node,
\* and a service thread that sends has somebody left to send to.
THEOREM TypeCorrect == Spec => []TypeOK
<1>1. TInv => TypeOK
  <2> SUFFICES ASSUME TInv PROVE TypeOK
    OBVIOUS
  <2> USE DEF TInv
  <2>1. \A q \in mail : {q.from, q.to} \subseteq Node /\ q.file \in File
    BY DEF UsersT, Requests, Updates
  <2>2. \A x \in fetches : x.file \in File /\ {x.from, x.to} \subseteq Node
    BY DEF FilesT, Fetches
  <2>3. \A t \in Thread : call[t] # NoCall => call[t].to \in Node
    BY CallFields DEF ThreadsT
  <2>4. \A n \in Node : service[n].state = "sending" => service[n].targets \in (SUBSET Node) \ {{}}
    BY ServiceFields DEF Sends
  <2>5. late \in 0 .. MaxFaults
    <3>1. Cardinality(Node \ alive) \in Nat
      BY GroupFinite DEF GroupT
    <3> QED BY <3>1, ReplicationAssumption DEF NotesT, Faults
  <2>6. /\ alive \subseteq Node /\ members \subseteq Node /\ reported \subseteq Node
        /\ leader \in Node
    BY DEF GroupT
  <2> QED BY <2>1, <2>2, <2>3, <2>4, <2>5, <2>6 DEF TypeOK, FilesT, ThreadsT, NotesT
<1> QED BY TypesAlways, <1>1, PTL

-----------------------------------------------------------------------------
(* While nothing has gone wrong: how files, map, jobs and commands agree *)

Runs(t) == NodeOf(t) \in alive
Led == leader \in alive
Dead == members \ alive
Starter == <<leader, "start">>
Server == <<leader, "serve">>
Repairer == <<leader, "repair">>

Copying(n, f) == user[n].op = "copy" /\ user[n].file = f
Told(n, f) == [op |-> "update", from |-> n, file |-> f, to |-> leader] \in mail

\* Copies of f are being made or are about to be.
Busy(f) ==
  \/ \E x \in fetches : x.file = f /\ x.keep
  \/ \E q \in mail : q.op = "update" /\ q.file = f
  \/ \E n \in alive : Copying(n, f)
  \/ \E t \in Thread : Todo(t, ReplicateTask(f))

\* What a thread of each kind has to do: the master's service thread deletes and
\* sends, the election's lists first, and only nodes that do not run are repaired.
Proper(s, kind) ==
  \A i \in DOMAIN s :
    /\ s[i].do \in {"delete", "get"} => kind = "serve"
    /\ s[i].do = "list" =>
         kind = "start" /\ \A j \in DOMAIN s : j < i => s[j].do = "list"
    /\ s[i].do = "repair" => kind # "serve" /\ s[i].lost \cap alive = {}

Fits(c, k) ==
  /\ c.do = "replicate" => k = IF c.keep THEN ReplicateTask(c.file) ELSE GetTask
  /\ c.do = "list" => k = ListTask(c.to)
  /\ c.do = "delete" => k = DeleteTask(c.to, c.file)

\* A command is for what its thread has to do first.
Orders(t) ==
  /\ Proper(job[t], t[2])
  /\ ~Runs(t) => job[t] = << >> /\ call[t] = NoCall
  /\ call[t] # NoCall => job[t] # << >> /\ Fits(call[t], Head(job[t]))
  /\ call[t].do = "delete" /\ call[t].state = "done" /\ call[t].to \in alive =>
       call[t].file \notin held[call[t].to]

\* A node that sends was told to by a command that is not answered.
Sending(n) ==
  service[n].state = "sending" =>
    /\ service[n].by \in Thread /\ Runs(service[n].by)
    /\ call[service[n].by].do = "replicate" /\ call[service[n].by].state = "taken"
    /\ call[service[n].by].to = n
    /\ call[service[n].by].file = service[n].file
    /\ call[service[n].by].keep = service[n].keep

\* Fetches are of whole files, one of a name at a node, and what is to be kept is
\* what all the others have.
Fetching ==
  \A x \in fetches :
    /\ x.from \in alive /\ x.to \in alive /\ x.content \in Node /\ x.file \notin held[x.to]
    /\ \A y \in fetches : y.file = x.file /\ y.to = x.to => x = y
    /\ x.keep => \A n \in alive : x.file \in held[n] => disk[n][x.file] = x.content
    /\ x.keep => \A y \in fetches : y.keep /\ y.file = x.file => x.content = y.content

Stored ==
  \A n \in alive, f \in File :
    /\ f \in held[n] => disk[n][f] \in Node
    /\ f \notin held[n] => disk[n][f] = Absent
    /\ \A k \in alive : f \in held[n] /\ f \in held[k] => disk[n][f] = disk[k][f]
    /\ got[n][f] # Junk

\* A user who may copy a file is the only one to have it.
FirstCopy ==
  \A n \in alive, f \in File : Copying(n, f) =>
    /\ Led /\ f \in map[leader][n]
    /\ \A k \in alive : f \notin held[k] /\ (Copying(k, f) => k = n)
    /\ \A x \in fetches : ~(x.file = f /\ x.keep)

Mailed ==
  \A q \in mail :
    /\ Led /\ q.from \in alive /\ q.to = leader
    /\ q.op = "put" => user[q.from] = q
    /\ q.op = "update" => q.file \in held[q.from]

\* What is known and done of a node that crashed, when nothing was under way.
Mourned ==
  /\ \A x, y \in Dead : x = y
  /\ Dead # {} => \A m \in alive : job[<<m, "start">>] = << >>
  /\ \A x \in Dead : x \notin reported => \A m \in alive : job[<<m, "repair">>] = << >>
  /\ \A x \in Dead : x \in reported /\ Led =>
       map[leader][x] = {} \/ job[Repairer] = <<RepairTask({x})>>
  /\ ~Led => Dead \subseteq {leader} /\ fetches = {} /\ \A n \in alive : service[n] = Idle

\* The answer of n to the election's list command is there.
Replied(n) ==
  call[Starter].do = "list" /\ call[Starter].to = n /\ call[Starter].state = "done"
Names == call[Starter].names

\* What n holds the map says, or an update or the gathering will make it say.
Covered(n, f) ==
  \/ Told(n, f)
  \/ Replied(n) /\ (f \in Names \/ (Names = {} /\ f \in map[leader][n]))
  \/ ~Replied(n) /\ (f \in map[leader][n] \/ Todo(Starter, ListTask(n)))

\* n has deleted f, and the map does not know yet.
Struck(n, f) ==
  /\ call[Server].do = "delete" /\ call[Server].state = "done"
  /\ call[Server].to = n /\ call[Server].file = f

\* What the map says n holds, will hold, or has just deleted.
Noted(n, f) == f \in held[n] \/ Copying(n, f) \/ Struck(n, f)

Mapped ==
  Led =>
    /\ \A n \in alive : \A f \in held[n] : Covered(n, f)
    /\ \A n \in alive : \A f \in map[leader][n] : Noted(n, f)
    /\ \A n \in alive : Replied(n) =>
         Names \subseteq held[n] /\ (Names # {} => map[leader][n] \subseteq Names)
    /\ \A f \in File : Busy(f) => \E n \in alive : f \in map[leader][n]
    /\ \A f \in File : Deleting(f) => ~Busy(f)
    /\ Gathering => \A f \in File : ~Deleting(f) /\ \A n \in alive : ~Copying(n, f)

Agreed ==
  /\ \A t \in Thread : Orders(t)
  /\ \A n \in alive : Sending(n)
  /\ Fetching /\ Stored /\ FirstCopy /\ Mailed /\ Mourned /\ Mapped

Whole == TInv /\ IInv /\ RInv /\ Agreed

-----------------------------------------------------------------------------
(* What has to be done, in order *)

Within(s, k) == \E i \in DOMAIN s : s[i] = k

LEMMA TailWithin ==
  ASSUME NEW s \in Seq(Tasks), s # << >>
  PROVE  /\ Tail(s) \in Seq(Tasks) /\ Head(s) \in Tasks
         /\ \A k : Within(Tail(s), k) => Within(s, k)
         /\ \A k : Within(s, k) => k = Head(s) \/ Within(Tail(s), k)
         /\ Within(s, Head(s))
<1>1. Len(s) \in Nat /\ Len(s) >= 1 /\ DOMAIN s = 1 .. Len(s)
  OBVIOUS
<1>2. /\ Tail(s) \in Seq(Tasks) /\ DOMAIN Tail(s) = 1 .. Len(s) - 1
      /\ \A i \in 1 .. Len(s) - 1 : Tail(s)[i] = s[i + 1]
  OBVIOUS
<1>3. Head(s) = s[1] /\ Head(s) \in Tasks
  OBVIOUS
<1>4. \A k : Within(Tail(s), k) => Within(s, k)
  <2> SUFFICES ASSUME NEW k, NEW i \in 1 .. Len(s) - 1, Tail(s)[i] = k PROVE Within(s, k)
    BY <1>2 DEF Within
  <2>1. i + 1 \in 1 .. Len(s)
    BY <1>1
  <2> QED BY <1>1, <1>2, <2>1 DEF Within
<1>5. ASSUME NEW k, Within(s, k), k # Head(s) PROVE Within(Tail(s), k)
  <2>1. PICK i \in 1 .. Len(s) : s[i] = k
    BY <1>1, <1>5 DEF Within
  <2>2. i # 1
    BY <1>3, <1>5, <2>1
  <2>3. i - 1 \in 1 .. Len(s) - 1 /\ (i - 1) + 1 = i
    BY <1>1, <2>2
  <2>4. Tail(s)[i - 1] = k
    BY <1>2, <2>1, <2>3
  <2> QED BY <1>2, <2>3, <2>4 DEF Within
<1>6. Within(s, Head(s))
  <2>1. 1 \in 1 .. Len(s)
    BY <1>1
  <2> QED BY <1>1, <1>3, <2>1 DEF Within
<1> QED BY <1>2, <1>3, <1>4, <1>5, <1>6

LEMMA JoinWithin ==
  ASSUME NEW s \in Seq(Tasks), NEW r \in Seq(Tasks)
  PROVE  /\ s \o r \in Seq(Tasks)
         /\ DOMAIN (s \o r) = 1 .. Len(s) + Len(r)
         /\ \A i \in DOMAIN (s \o r) :
              \/ i \in DOMAIN s /\ (s \o r)[i] = s[i]
              \/ i > Len(s) /\ i - Len(s) \in DOMAIN r /\ (s \o r)[i] = r[i - Len(s)]
         /\ \A k : Within(s \o r, k) <=> Within(s, k) \/ Within(r, k)
<1>1. /\ Len(s) \in Nat /\ Len(r) \in Nat /\ DOMAIN s = 1 .. Len(s) /\ DOMAIN r = 1 .. Len(r)
      /\ s \o r \in Seq(Tasks) /\ DOMAIN (s \o r) = 1 .. Len(s) + Len(r)
  OBVIOUS
<1>2. \A i \in 1 .. Len(s) : (s \o r)[i] = s[i]
  OBVIOUS
<1>3. \A i \in 1 .. Len(s) + Len(r) : i > Len(s) => (s \o r)[i] = r[i - Len(s)]
  OBVIOUS
<1>4. \A i \in 1 .. Len(s) + Len(r) : i \in 1 .. Len(s) \/ (i > Len(s) /\ i - Len(s) \in 1 .. Len(r))
  BY <1>1
<1>5. \A i \in DOMAIN (s \o r) :
        \/ i \in DOMAIN s /\ (s \o r)[i] = s[i]
        \/ i > Len(s) /\ i - Len(s) \in DOMAIN r /\ (s \o r)[i] = r[i - Len(s)]
  BY <1>1, <1>2, <1>3, <1>4
<1>6. \A k : Within(s \o r, k) => Within(s, k) \/ Within(r, k)
  BY <1>5 DEF Within
<1>7. \A k : Within(s, k) => Within(s \o r, k)
  <2>1. \A i \in 1 .. Len(s) : i \in 1 .. Len(s) + Len(r)
    BY <1>1
  <2> QED BY <1>1, <1>2, <2>1 DEF Within
<1>8. ASSUME NEW k, Within(r, k) PROVE Within(s \o r, k)
  <2>1. PICK i \in 1 .. Len(r) : r[i] = k
    BY <1>1, <1>8 DEF Within
  <2>2. i + Len(s) \in 1 .. Len(s) + Len(r) /\ i + Len(s) > Len(s) /\ (i + Len(s)) - Len(s) = i
    BY <1>1
  <2>3. (s \o r)[i + Len(s)] = k
    BY <1>3, <2>1, <2>2
  <2> QED BY <1>1, <2>2, <2>3 DEF Within
<1> QED BY <1>1, <1>5, <1>6, <1>7, <1>8

LEMMA ProperTail ==
  ASSUME NEW s \in Seq(Tasks), s # << >>, NEW kind, Proper(s, kind)
  PROVE  Proper(Tail(s), kind)
<1>1. /\ Len(s) \in Nat /\ DOMAIN s = 1 .. Len(s) /\ DOMAIN Tail(s) = 1 .. Len(s) - 1
      /\ \A i \in 1 .. Len(s) - 1 : Tail(s)[i] = s[i + 1]
  OBVIOUS
<1>2. \A i \in 1 .. Len(s) - 1 : i + 1 \in 1 .. Len(s)
  BY <1>1
<1>3. \A i, j \in 1 .. Len(s) - 1 : j < i => j + 1 < i + 1
  BY <1>1
<1> QED BY <1>1, <1>2, <1>3 DEF Proper

\* What begins with a repair or a copy has no list to ask for any more.
LEMMA ListsFirst ==
  ASSUME NEW s \in Seq(Tasks), s # << >>, NEW kind, Proper(s, kind), Head(s).do # "list"
  PROVE  \A i \in DOMAIN s : s[i].do # "list"
<1>1. Len(s) \in Nat /\ DOMAIN s = 1 .. Len(s) /\ Head(s) = s[1] /\ 1 \in 1 .. Len(s)
  OBVIOUS
<1>2. \A i \in 1 .. Len(s) : i = 1 \/ 1 < i
  BY <1>1
<1> QED BY <1>1, <1>2 DEF Proper

LEMMA ProperRepair ==
  ASSUME NEW s \in Seq(Tasks), s # << >>, NEW kind, Proper(s, kind), Head(s).do = "repair",
         NEW a \in Seq(Tasks), \A i \in DOMAIN a : a[i].do = "replicate"
  PROVE  Proper(a \o Tail(s), kind)
<1>1. Tail(s) \in Seq(Tasks) /\ Proper(Tail(s), kind)
  BY ProperTail, TailWithin
<1>2. \A i \in DOMAIN Tail(s) : Tail(s)[i].do # "list"
  <2>1. /\ Len(s) \in Nat /\ DOMAIN s = 1 .. Len(s) /\ DOMAIN Tail(s) = 1 .. Len(s) - 1
        /\ \A i \in 1 .. Len(s) - 1 : Tail(s)[i] = s[i + 1]
    OBVIOUS
  <2>2. \A i \in 1 .. Len(s) - 1 : i + 1 \in 1 .. Len(s)
    BY <2>1
  <2> QED BY <2>1, <2>2, ListsFirst
<1>3. \A i \in DOMAIN (a \o Tail(s)) :
        \/ i \in DOMAIN a /\ (a \o Tail(s))[i] = a[i]
        \/ \E j \in DOMAIN Tail(s) : (a \o Tail(s))[i] = Tail(s)[j]
  BY <1>1, JoinWithin
<1> PICK r : r = a \o Tail(s)
  OBVIOUS
<1> QED BY <1>1, <1>2, <1>3 DEF Proper

LEMMA ProperThenRepair ==
  ASSUME NEW s \in Seq(Tasks), NEW kind, Proper(s, kind), kind # "serve",
         NEW lost \in SUBSET Node, lost \cap alive = {}
  PROVE  /\ Proper(s \o <<RepairTask(lost)>>, kind) /\ s \o <<RepairTask(lost)>> \in Seq(Tasks)
         /\ s \o <<RepairTask(lost)>> # << >>
         /\ s # << >> => Head(s \o <<RepairTask(lost)>>) = Head(s)
         /\ s = << >> => s \o <<RepairTask(lost)>> = <<RepairTask(lost)>>
         /\ \A k : k.do # "repair" =>
              (Within(s \o <<RepairTask(lost)>>, k) <=> Within(s, k))
<1> PICK k \in Tasks : k = RepairTask(lost)
  BY DEF Tasks, Repairs
<1> PICK r : r = s \o <<k>>
  OBVIOUS
<1>1. k.do = "repair" /\ k.lost = lost
  BY DEF RepairTask
<1>2. <<k>> \in Seq(Tasks) /\ Len(<<k>>) = 1 /\ DOMAIN <<k>> = {1} /\ <<k>>[1] = k
  OBVIOUS
<1>3. /\ r \in Seq(Tasks) /\ Len(s) \in Nat /\ DOMAIN s = 1 .. Len(s) /\ DOMAIN r = 1 .. Len(s) + 1
      /\ \A i \in DOMAIN r : \/ i \in DOMAIN s /\ r[i] = s[i]
                             \/ i > Len(s) /\ r[i] = k
  BY <1>2, JoinWithin
<1>4. \A i \in DOMAIN r : i \in DOMAIN s => r[i] = s[i]
  BY <1>3
<1>5. \A i, j \in DOMAIN r : i \in DOMAIN s /\ j < i => j \in DOMAIN s
  BY <1>3
<1>6. Proper(r, kind)
  BY <1>1, <1>3, <1>4, <1>5 DEF Proper
<1>7. r # << >>
  BY <1>3
<1>8. s # << >> => Head(r) = Head(s)
  <2> SUFFICES ASSUME s # << >> PROVE Head(r) = Head(s)
    OBVIOUS
  <2>1. 1 \in DOMAIN s /\ Head(s) = s[1] /\ 1 \in DOMAIN r /\ Head(r) = r[1]
    BY <1>3, <1>7
  <2> QED BY <2>1, <1>4
<1>9. s = << >> => r = <<k>>
  BY <1>2
<1>10. \A h : h.do # "repair" => (Within(r, h) <=> Within(s, h))
  <2>1. \A h : Within(r, h) <=> Within(s, h) \/ Within(<<k>>, h)
    BY <1>2, JoinWithin
  <2>2. \A h : Within(<<k>>, h) => h = k
    BY <1>2 DEF Within
  <2> QED BY <1>1, <2>1, <2>2
<1> QED BY <1>3, <1>6, <1>7, <1>8, <1>9, <1>10

\* The election's job: every member is asked for its files, then what lacks is repaired.
LEMMA ElectionsJob ==
  ASSUME NEW S \in SUBSET Node, NEW e, e = Each(S, ListTask) \o <<RepairTask({})>>
  PROVE  /\ e \in Seq(Tasks) /\ e # << >> /\ Proper(e, "start")
         /\ \A n \in S : Within(e, ListTask(n))
         /\ \A f \in File : ~Within(e, ReplicateTask(f))
         /\ \A f \in File, n \in Node : ~Within(e, DeleteTask(n, f))
<1> PICK s : s = Each(S, ListTask)
  OBVIOUS
<1>1. /\ s \in Seq(Tasks) /\ DOMAIN s = 1 .. Cardinality(S)
      /\ \A i \in DOMAIN s : \E n \in S : s[i] = ListTask(n)
      /\ \A n \in S : \E i \in DOMAIN s : s[i] = ListTask(n)
  BY EachList
<1>2. \A i \in DOMAIN s : s[i].do = "list"
  <2>1. \A n : ListTask(n).do = "list"
    BY DEF ListTask
  <2> QED BY <1>1, <2>1
<1>3. Proper(s, "start")
  BY <1>2 DEF Proper
<1>4. \A k : k.do # "list" => ~Within(s, k)
  BY <1>2 DEF Within
<1>5. \A n \in S : Within(s, ListTask(n)) /\ ListTask(n).do = "list"
  BY <1>1 DEF Within, ListTask
<1>6. \A f : ReplicateTask(f).do = "replicate"
  BY DEF ReplicateTask
<1>7. \A n, f : DeleteTask(n, f).do = "delete"
  BY DEF DeleteTask
<1>8. {} \in SUBSET Node /\ {} \cap alive = {}
  OBVIOUS
<1>9. /\ e \in Seq(Tasks) /\ e # << >> /\ Proper(e, "start")
      /\ \A k : k.do # "repair" => (Within(e, k) <=> Within(s, k))
  BY <1>1, <1>3, <1>8, ProperThenRepair
<1> QED BY <1>4, <1>5, <1>6, <1>7, <1>9

-----------------------------------------------------------------------------
(* What follows from the invariant *)

LEMMA KindsOf ==
  ASSUME NEW t \in Thread
  PROVE  /\ NodeOf(t) \in Node /\ t[2] \in {"serve", "start", "repair"}
         /\ (NodeOf(t) = leader /\ t[2] = "serve" => t = Server)
         /\ (NodeOf(t) = leader /\ t[2] = "start" => t = Starter)
         /\ (NodeOf(t) = leader /\ t[2] = "repair" => t = Repairer)
BY DEF Thread, NodeOf, Server, Starter, Repairer

LEMMA LeadersThreads ==
  ASSUME GroupT
  PROVE  /\ {Server, Starter, Repairer} \subseteq Thread
         /\ NodeOf(Server) = leader /\ NodeOf(Starter) = leader /\ NodeOf(Repairer) = leader
         /\ Server # Starter /\ Server # Repairer /\ Starter # Repairer
         /\ Server[2] = "serve" /\ Starter[2] = "start" /\ Repairer[2] = "repair"
BY DEF GroupT, Thread, NodeOf, Server, Starter, Repairer

\* Whoever has sent a command is a thread of the leader and runs.
LEMMA CommandsOfLeader ==
  ASSUME Whole, NEW t \in Thread, call[t] # NoCall
  PROVE  /\ Led /\ NodeOf(t) = leader /\ job[t] \in Seq(Tasks) /\ job[t] # << >>
         /\ Within(job[t], Head(job[t])) /\ Fits(call[t], Head(job[t])) /\ call[t] \in Calls
<1>1. job[t] # << >> /\ Runs(t) /\ Fits(call[t], Head(job[t]))
  BY DEF Whole, Agreed, Orders
<1>2. NodeOf(t) = leader
  BY <1>1 DEF Runs, Whole, IInv, NobodyElse, Followers
<1>3. job[t] \in Seq(Tasks) /\ call[t] \in Calls
  BY DEF Whole, TInv, ThreadsT
<1> QED BY <1>1, <1>2, <1>3, TailWithin DEF Runs, Led

\* What is not a repair is to be done by the leader, who runs.
LEMMA JobsOfLeader ==
  ASSUME Whole, NEW t \in Thread, NEW k, Todo(t, k), k.do # "repair"
  PROVE  /\ Led /\ NodeOf(t) = leader /\ job[t] # << >>
         /\ k.do \in {"delete", "get"} => t = Server
         /\ k.do = "list" => t = Starter
<1>1. job[t] \in Seq(Tasks)
  BY DEF Whole, TInv, ThreadsT
<1>2. PICK i \in DOMAIN job[t] : job[t][i] = k
  BY DEF Todo
<1>3. job[t] # << >>
  BY <1>2
<1>4. Runs(t) /\ Proper(job[t], t[2])
  BY <1>3 DEF Whole, Agreed, Orders
<1>5. ASSUME NodeOf(t) # leader PROVE FALSE
  <2>1. job[t] \in Seq(Repairs)
    BY <1>4, <1>5 DEF Whole, IInv, NobodyElse, Followers, Runs
  <2>2. job[t][i] \in Repairs
    BY <2>1, <1>2
  <2> QED BY <1>2, <2>2 DEF Repairs, RepairTask
<1>6. k.do \in {"delete", "get"} => t[2] = "serve"
  BY <1>2, <1>4 DEF Proper
<1>7. k.do = "list" => t[2] = "start"
  BY <1>2, <1>4 DEF Proper
<1> QED BY <1>3, <1>4, <1>5, <1>6, <1>7, KindsOf DEF Runs, Led

LEMMA DeletionsOfServer ==
  ASSUME Whole, NEW f, Deleting(f)
  PROVE  Led /\ job[Server] # << >> /\ \E n \in Node : Todo(Server, DeleteTask(n, f))
<1>1. PICK t \in Thread, n \in Node : Todo(t, DeleteTask(n, f))
  BY DEF Deleting
<1>2. DeleteTask(n, f).do = "delete"
  BY DEF DeleteTask
<1> QED BY <1>1, <1>2, JobsOfLeader

LEMMA DeleteCallFacts ==
  ASSUME Whole, NEW t \in Thread, call[t].do = "delete"
  PROVE  /\ t = Server /\ Led /\ call[t] \in DeleteCalls
         /\ Head(job[t]) = DeleteTask(call[t].to, call[t].file)
         /\ Deleting(call[t].file) /\ ~Busy(call[t].file) /\ ~Gathering
<1>1. call[t] # NoCall
  BY DEF NoCall
<1>2. /\ Led /\ NodeOf(t) = leader /\ job[t] \in Seq(Tasks) /\ job[t] # << >>
      /\ Within(job[t], Head(job[t])) /\ Fits(call[t], Head(job[t])) /\ call[t] \in Calls
  BY <1>1, CommandsOfLeader
<1>3. call[t] \in DeleteCalls /\ call[t].to \in Node /\ call[t].file \in File
  BY <1>2, CallFields DEF DeleteCalls
<1>4. Head(job[t]) = DeleteTask(call[t].to, call[t].file)
  BY <1>2 DEF Fits
<1>5. Todo(t, DeleteTask(call[t].to, call[t].file))
  BY <1>2, <1>4 DEF Within, Todo
<1>6. t = Server
  <2>1. DeleteTask(call[t].to, call[t].file).do = "delete"
    BY DEF DeleteTask
  <2> QED BY <1>5, <2>1, JobsOfLeader
<1>7. Deleting(call[t].file)
  BY <1>3, <1>5 DEF Deleting
<1> QED BY <1>2, <1>3, <1>4, <1>6, <1>7 DEF Whole, Agreed, Mapped

LEMMA ListCallFacts ==
  ASSUME Whole, NEW t \in Thread, call[t].do = "list"
  PROVE  /\ t = Starter /\ Led /\ Head(job[t]) = ListTask(call[t].to) /\ Gathering
         /\ call[t].to \in Node
         /\ Dead = {} /\ \A f \in File : ~Deleting(f) /\ \A n \in alive : ~Copying(n, f)
<1>1. call[t] # NoCall
  BY DEF NoCall
<1>2. /\ Led /\ NodeOf(t) = leader /\ job[t] \in Seq(Tasks) /\ job[t] # << >>
      /\ Within(job[t], Head(job[t])) /\ Fits(call[t], Head(job[t])) /\ call[t] \in Calls
  BY <1>1, CommandsOfLeader
<1>3. call[t].to \in Node
  BY <1>1, <1>2, CallFields
<1>4. Head(job[t]) = ListTask(call[t].to)
  BY <1>2 DEF Fits
<1>5. Todo(t, ListTask(call[t].to)) /\ ListTask(call[t].to).do = "list"
  BY <1>2, <1>4 DEF Within, Todo, ListTask
<1>6. t = Starter
  BY <1>5, JobsOfLeader
<1>7. Gathering
  BY <1>2, <1>6 DEF Gathering, Starter
<1>8. Dead = {}
  BY <1>2, <1>6 DEF Whole, Agreed, Mourned, Starter, Led
<1> QED BY <1>2, <1>3, <1>4, <1>6, <1>7, <1>8 DEF Whole, Agreed, Mapped

LEMMA ReplicateCallFacts ==
  ASSUME Whole, NEW t \in Thread, call[t].do = "replicate", call[t].keep
  PROVE  Head(job[t]) = ReplicateTask(call[t].file) /\ Busy(call[t].file) /\ Led
<1>1. call[t] # NoCall
  BY DEF NoCall
<1>2. /\ Led /\ Within(job[t], Head(job[t])) /\ Fits(call[t], Head(job[t]))
  BY <1>1, CommandsOfLeader
<1>3. Head(job[t]) = ReplicateTask(call[t].file)
  BY <1>2 DEF Fits
<1> QED BY <1>2, <1>3 DEF Within, Todo, Busy

\* Only if nothing is being gathered has the election's thread no call.
LEMMA RepliedFacts ==
  ASSUME Whole, NEW n, Replied(n)
  PROVE  /\ Gathering /\ Led /\ Dead = {} /\ Names \in SUBSET File /\ n \in Node
         /\ Head(job[Starter]) = ListTask(n)
         /\ \A f \in File : ~Deleting(f) /\ \A k \in alive : ~Copying(k, f)
<1>1. Starter \in Thread /\ call[Starter].do = "list" /\ call[Starter].to = n /\ call[Starter].state = "done"
  BY LeadersThreads DEF Whole, TInv, Replied
<1>2. call[Starter] \in Calls
  BY <1>1 DEF Whole, TInv, ThreadsT
<1>3. Names \in SUBSET File
  BY <1>1, <1>2, CallFields DEF ListReplies, Names
<1> QED BY <1>1, <1>3, ListCallFacts

-----------------------------------------------------------------------------
(* What a step leaves as it is *)

LEMMA Frames ==
  ASSUME Whole, UNCHANGED alive
  PROVE  /\ UNCHANGED <<job, call, held>> => \A t \in Thread : Orders(t)'
         /\ UNCHANGED <<service, call>> => (\A n \in alive : Sending(n))'
         /\ UNCHANGED <<held, disk, fetches>> => Fetching'
         /\ UNCHANGED <<held, disk, got>> => Stored'
         /\ UNCHANGED <<members, reported, job, map, leader, fetches, service>> => Mourned'
<1> USE DEF Whole, Agreed
<1>1. UNCHANGED <<job, call, held>> => \A t \in Thread : Orders(t)'
  BY DEF Orders, Proper, Runs, Fits
<1>2. UNCHANGED <<service, call>> => (\A n \in alive : Sending(n))'
  BY DEF Sending, Runs
<1>3. UNCHANGED <<held, disk, fetches>> => Fetching'
  BY DEF Fetching
<1>4. UNCHANGED <<held, disk, got>> => Stored'
  BY DEF Stored
<1>5. UNCHANGED <<members, reported, job, map, leader, fetches, service>> => Mourned'
  BY DEF Mourned, Dead, Led, Repairer
<1> QED BY <1>1, <1>2, <1>3, <1>4, <1>5

\* The map and what is held do not change, nothing that counts for them is lost, and
\* no deletion is begun of what is being copied.
LEMMA MappedStays ==
  ASSUME Whole, UNCHANGED <<alive, leader, held, map>>,
         \A n \in alive, f \in File : Told(n, f) => Told(n, f)',
         \A n \in alive : (Replied(n)' <=> Replied(n)) /\ (Replied(n) => UNCHANGED Names),
         \A n \in alive : Todo(Starter, ListTask(n)) => Todo(Starter, ListTask(n))',
         \A n \in alive, f \in File : Copying(n, f)' <=> Copying(n, f),
         \A n \in alive, f \in File : Struck(n, f) => Struck(n, f)',
         \A f \in File : (Busy(f)' => Busy(f)) /\ (Deleting(f)' => ~Busy(f)),
         Gathering' => Gathering /\ \A f \in File : ~Deleting(f)'
  PROVE  Mapped'
<1> SUFFICES ASSUME Led' PROVE Mapped'
  BY DEF Mapped
<1>1. Led /\ Mapped
  BY DEF Led, Whole, Agreed
<1>2. held \in [Node -> SUBSET File] /\ map \in [Node -> [Node -> SUBSET File]] /\ leader \in Node
      /\ alive \subseteq Node
  BY DEF Whole, TInv, FilesT, ThreadsT, GroupT
<1>3. ASSUME NEW n \in alive, NEW f \in held[n] PROVE Covered(n, f)'
  <2>1. Covered(n, f) /\ f \in File
    BY <1>1, <1>2, <1>3 DEF Mapped
  <2> QED BY <2>1 DEF Covered
<1>4. ASSUME NEW n \in alive, NEW f \in map[leader][n] PROVE Noted(n, f)'
  <2>1. Noted(n, f) /\ f \in File
    BY <1>1, <1>2, <1>4 DEF Mapped
  <2> QED BY <2>1 DEF Noted
<1>5. ASSUME NEW n \in alive, Replied(n)'
      PROVE  (Names \subseteq held[n] /\ (Names # {} => map[leader][n] \subseteq Names))'
  BY <1>1, <1>5 DEF Mapped
<1>6. ASSUME NEW f \in File, Busy(f)' PROVE \E n \in alive : f \in map[leader][n]
  BY <1>1, <1>6 DEF Mapped
<1>7. \A f \in File : Deleting(f)' => ~Busy(f)'
  OBVIOUS
<1>8. Gathering' => \A f \in File : ~Deleting(f)' /\ \A n \in alive : ~Copying(n, f)'
  BY <1>1 DEF Mapped
<1> QED BY <1>3, <1>4, <1>5, <1>6, <1>7, <1>8 DEF Mapped

-----------------------------------------------------------------------------
(* The users *)

LEMMA AskAgreed ==
  ASSUME Whole, NEW n \in Node, NEW op \in {"put", "get", "delete"}, NEW f \in File, Ask(n, op, f)
  PROVE  Agreed'
<1>0. /\ UNCHANGED <<alive, members, reported, leader, held, disk, service, fetches, map, job, call>>
      /\ n \in alive /\ user[n] = Ready
  BY DEF Ask, groupVars, masterVars
<1> PICK q : q = Request(op, n, f, asked')
  OBVIOUS
<1>1. q.op = op /\ q.from = n /\ q.to = leader
  BY DEF Request
<1>2. \/ /\ f \in held[n] /\ got' = [got EXCEPT ![n][f] = disk[n][f]]
         /\ UNCHANGED <<user, mail>>
      \/ /\ user' = [user EXCEPT ![n] = q]
         /\ mail' = IF Led THEN mail \cup {q} ELSE mail
         /\ UNCHANGED got
  BY DEF Ask, Led
<1>3. user \in [Node -> {Ready} \cup Requests \cup Copies]
  BY DEF Whole, TInv, UsersT
<1>4. /\ \A t \in Thread : Orders(t)'
      /\ (\A k \in alive : Sending(k))'
      /\ Fetching' /\ Mourned'
  BY <1>0, Frames
<1>5. Stored'
  <2>1. CASE UNCHANGED got
    BY <1>0, <2>1, Frames
  <2>2. CASE f \in held[n] /\ got' = [got EXCEPT ![n][f] = disk[n][f]]
    <3>1. got \in [Node -> [File -> Content \cup {Absent}]]
      BY DEF Whole, TInv, FilesT
    <3>2. \A k \in Node, g \in File : got'[k][g] = IF k = n /\ g = f THEN disk[n][f] ELSE got[k][g]
      BY <2>2, <3>1
    <3>3. disk[n][f] # Junk
      BY <1>0, <2>2, ReplicationAssumption DEF Whole, Agreed, Stored, Junk
    <3>4. alive \subseteq Node
      BY DEF Whole, TInv, GroupT
    <3>5. \A k \in alive, g \in File : got'[k][g] # Junk
      BY <3>2, <3>3, <3>4 DEF Whole, Agreed, Stored
    <3> QED BY <1>0, <3>5 DEF Whole, Agreed, Stored
  <2> QED BY <1>2, <2>1, <2>2
<1>6. \A k \in alive, g \in File : Copying(k, g)' <=> Copying(k, g)
  <2>1. user' = user \/ (user' = [user EXCEPT ![n] = q] /\ q.op # "copy" /\ user[n].op # "copy")
    BY <1>0, <1>1, <1>2 DEF Ready
  <2> QED BY <1>3, <2>1 DEF Copying, Whole, TInv, GroupT
<1>7. FirstCopy'
  BY <1>0, <1>6 DEF Whole, Agreed, FirstCopy, Led
<1>8. Mailed'
  <2>1. \A r \in mail : r.op = "put" => r.from # n
    BY <1>0 DEF Whole, Agreed, Mailed, Ready
  <2>2. \A r \in mail' : (r = q /\ Led /\ user'[n] = q) \/ r \in mail
    BY <1>2, <1>3
  <2>3. \A r \in mail : r.op = "put" => user'[r.from] = user[r.from]
    BY <1>2, <1>3, <2>1 DEF Whole, RInv, Addressed
  <2> QED BY <1>0, <1>1, <2>2, <2>3 DEF Whole, Agreed, Mailed, Led
<1>9. Mapped'
  <2>1. \A k \in alive, g \in File : Told(k, g) => Told(k, g)'
    BY <1>0, <1>2 DEF Told
  <2>2. \A k \in alive : (Replied(k)' <=> Replied(k)) /\ (Replied(k) => UNCHANGED Names)
    BY <1>0 DEF Replied, Names, Starter
  <2>3. \A k \in alive : Todo(Starter, ListTask(k)) => Todo(Starter, ListTask(k))'
    BY <1>0 DEF Todo, Starter
  <2>4. \A k \in alive, g \in File : Struck(k, g) => Struck(k, g)'
    BY <1>0 DEF Struck, Server
  <2>5. \A r \in mail' : r.op = "update" => r \in mail
    BY <1>1, <1>2
  <2>6. \A g \in File : Busy(g)' => Busy(g)
    BY <1>0, <1>6, <2>5 DEF Busy, Todo
  <2>7. Led => (\A g \in File : Deleting(g)' => ~Busy(g))
    BY <1>0 DEF Deleting, Todo, Whole, Agreed, Mapped
  <2>8. Led /\ Gathering' => Gathering /\ \A g \in File : ~Deleting(g)'
    BY <1>0 DEF Gathering, Deleting, Todo, Whole, Agreed, Mapped
  <2>9. ~Led => Mapped'
    BY <1>0 DEF Mapped, Led
  <2> QED BY <1>0, <1>6, <2>1, <2>2, <2>3, <2>4, <2>6, <2>7, <2>8, <2>9, MappedStays
<1> QED BY <1>0, <1>4, <1>5, <1>7, <1>8, <1>9 DEF Agreed

LEMMA GiveUpAgreed ==
  ASSUME Whole, NEW n \in Node, GiveUp(n), "late" \notin mishaps'
  PROVE  Agreed'
<1>0. /\ UNCHANGED <<alive, members, reported, leader, held, disk, got, service, fetches, map, job,
                     call, mail>>
      /\ n \in alive /\ user[n].op # "copy" /\ user' = [user EXCEPT ![n] = Ready]
  BY DEF GiveUp, Waiting, groupVars, masterVars
<1>1. ~(user[n] \in mail /\ user[n].op = "put")
  BY DEF GiveUp
<1>2. user \in [Node -> {Ready} \cup Requests \cup Copies] /\ alive \subseteq Node
  BY DEF Whole, TInv, UsersT, GroupT
<1>3. /\ \A t \in Thread : Orders(t)'
      /\ (\A k \in alive : Sending(k))'
      /\ Fetching' /\ Stored' /\ Mourned'
  BY <1>0, Frames
<1>4. \A k \in alive, g \in File : Copying(k, g)' <=> Copying(k, g)
  BY <1>0, <1>2 DEF Copying, Ready
<1>5. FirstCopy'
  BY <1>0, <1>4 DEF Whole, Agreed, FirstCopy, Led
<1>6. Mailed'
  <2>1. \A r \in mail : r.from \in Node /\ (r.op = "put" => user[r.from] = r)
    BY DEF Whole, RInv, Addressed, Agreed, Mailed
  <2>2. \A r \in mail : r.op = "put" => r.from # n
    BY <1>1, <2>1
  <2>3. \A r \in mail : r.op = "put" => user'[r.from] = r
    BY <1>0, <1>2, <2>1, <2>2
  <2> QED BY <1>0, <2>3 DEF Whole, Agreed, Mailed, Led
<1>7. Mapped'
  <2>1. \A k \in alive, g \in File : Told(k, g) => Told(k, g)'
    BY <1>0 DEF Told
  <2>2. \A k \in alive : (Replied(k)' <=> Replied(k)) /\ (Replied(k) => UNCHANGED Names)
    BY <1>0 DEF Replied, Names, Starter
  <2>3. \A k \in alive : Todo(Starter, ListTask(k)) => Todo(Starter, ListTask(k))'
    BY <1>0 DEF Todo, Starter
  <2>4. \A k \in alive, g \in File : Struck(k, g) => Struck(k, g)'
    BY <1>0 DEF Struck, Server
  <2>5. \A g \in File : Busy(g)' => Busy(g)
    BY <1>0, <1>4 DEF Busy, Todo
  <2>6. Led => (\A g \in File : Deleting(g)' => ~Busy(g))
    BY <1>0 DEF Deleting, Todo, Whole, Agreed, Mapped
  <2>7. Led /\ Gathering' => Gathering /\ \A g \in File : ~Deleting(g)'
    BY <1>0 DEF Gathering, Deleting, Todo, Whole, Agreed, Mapped
  <2>8. ~Led => Mapped'
    BY <1>0 DEF Mapped, Led
  <2> QED BY <1>0, <1>4, <2>1, <2>2, <2>3, <2>4, <2>5, <2>6, <2>7, <2>8, MappedStays
<1> QED BY <1>0, <1>3, <1>5, <1>6, <1>7 DEF Agreed

LEMMA CopyAgreed ==
  ASSUME Whole, NEW n \in Node, Copy(n), "overlap" \notin mishaps'
  PROVE  Agreed'
<1> PICK f : f = user[n].file
  OBVIOUS
<1>0. /\ UNCHANGED <<alive, members, reported, leader, got, service, fetches, map, job, call, mail>>
      /\ n \in alive /\ Copying(n, f)
      /\ user' = [user EXCEPT ![n] = Ready]
      /\ disk' = [disk EXCEPT ![n][f] = n]
      /\ held' = [held EXCEPT ![n] = held[n] \cup {f}]
      /\ \A x \in fetches : ~(x.file = f /\ x.to = n)
  BY DEF Copy, Copying, groupVars, masterVars, SameName
<1>1. /\ user \in [Node -> {Ready} \cup Requests \cup Copies] /\ alive \subseteq Node
      /\ disk \in [Node -> [File -> Content \cup {Absent}]] /\ held \in [Node -> SUBSET File]
      /\ map \in [Node -> [Node -> SUBSET File]] /\ leader \in Node
  BY DEF Whole, TInv, UsersT, GroupT, FilesT, ThreadsT
<1>2. f \in File
  BY <1>0, <1>1 DEF Copying, Ready, Requests, Copies
<1>3. /\ Led /\ f \in map[leader][n] /\ Busy(f) /\ ~Deleting(f) /\ ~Gathering
      /\ \A k \in alive : f \notin held[k] /\ (Copying(k, f) => k = n)
      /\ \A x \in fetches : ~(x.file = f /\ x.keep)
  BY <1>0, <1>2 DEF Whole, Agreed, FirstCopy, Mapped, Busy
<1>4. \A k \in Node : held'[k] = IF k = n THEN held[k] \cup {f} ELSE held[k]
  BY <1>0, <1>1
<1>5. \A k \in alive, g \in File : /\ k = n /\ g = f => disk'[k][g] = n
                                   /\ k # n \/ g # f => disk'[k][g] = disk[k][g]
                                   /\ g \in held'[k] <=> g \in held[k] \/ (k = n /\ g = f)
  BY <1>0, <1>1
<1>6. \A k \in alive, g \in File : Copying(k, g)' <=> Copying(k, g) /\ g # f
  <2>1. \A k \in alive, g \in File : k # n => (Copying(k, g)' <=> Copying(k, g))
    BY <1>0, <1>1 DEF Copying
  <2>2. \A g \in File : ~Copying(n, g)' /\ (Copying(n, g) => g = f)
    BY <1>0, <1>1 DEF Copying, Ready
  <2> QED BY <1>0, <1>3, <2>1, <2>2
<1>7. /\ (\A k \in alive : Sending(k))'
      /\ Mourned'
  BY <1>0, Frames
<1>8. ASSUME NEW t \in Thread PROVE Orders(t)'
  <2>1. ASSUME call[t].do = "delete", call[t].state = "done", call[t].to \in alive
        PROVE  call[t].file \notin held'[call[t].to]
    <3>1. Deleting(call[t].file)
      BY <2>1, DeleteCallFacts
    <3>2. call[t].file # f
      BY <1>3, <3>1
    <3>3. call[t].file \notin held[call[t].to]
      BY <2>1 DEF Whole, Agreed, Orders
    <3> QED BY <1>1, <1>4, <2>1, <3>2, <3>3
  <2> QED BY <1>0, <2>1 DEF Whole, Agreed, Orders, Proper, Runs, Fits
<1>9. Fetching'
  <2>1. ASSUME NEW x \in fetches
        PROVE  /\ x.file \in File /\ x.from \in alive /\ x.to \in alive /\ x.content \in Node
               /\ x.file \notin held'[x.to]
               /\ x.keep => \A k \in alive : x.file \in held'[k] => disk'[k][x.file] = x.content
    <3>1. /\ x.from \in alive /\ x.to \in alive /\ x.content \in Node /\ x.file \notin held[x.to]
          /\ x.keep => \A k \in alive : x.file \in held[k] => disk[k][x.file] = x.content
      BY DEF Whole, Agreed, Fetching
    <3>2. x.file \in File
      BY DEF Whole, TInv, FilesT, Fetches
    <3>3. x.file \notin held'[x.to]
      BY <1>0, <1>1, <1>4, <3>1
    <3>4. x.keep => x.file # f
      BY <1>3
    <3>5. ASSUME x.keep, NEW k \in alive, x.file \in held'[k] PROVE disk'[k][x.file] = x.content
      BY <1>5, <3>1, <3>2, <3>4, <3>5
    <3> QED BY <3>1, <3>2, <3>3, <3>5
  <2> QED BY <1>0, <2>1 DEF Whole, Agreed, Fetching
<1>10. Stored'
  <2>1. \A k \in alive, g \in File : /\ g \in held'[k] => disk'[k][g] \in Node
                                     /\ g \notin held'[k] => disk'[k][g] = Absent
                                     /\ got[k][g] # Junk
    BY <1>5 DEF Whole, Agreed, Stored
  <2>2. ASSUME NEW k \in alive, NEW j \in alive, NEW g \in File, g \in held'[k], g \in held'[j]
        PROVE  disk'[k][g] = disk'[j][g]
    <3>1. CASE g = f
      <4>1. k = n \/ g \in held[k]
        BY <1>5, <2>2
      <4>2. j = n \/ g \in held[j]
        BY <1>5, <2>2
      <4>3. k = n /\ j = n
        BY <1>3, <4>1, <4>2, <3>1
      <4> QED BY <4>3
    <3>2. CASE g # f
      BY <1>5, <2>2, <3>2 DEF Whole, Agreed, Stored
    <3> QED BY <3>1, <3>2
  <2> QED BY <1>0, <2>1, <2>2 DEF Stored
<1>11. FirstCopy'
  BY <1>0, <1>1, <1>4, <1>6 DEF Whole, Agreed, FirstCopy, Led
<1>12. Mailed'
  <2>1. \A r \in mail : r.from \in Node /\ (r.op = "put" => user[r.from] = r)
    BY DEF Whole, RInv, Addressed, Agreed, Mailed
  <2>2. \A r \in mail : r.op = "put" => user'[r.from] = r
    BY <1>0, <1>1, <2>1 DEF Copying
  <2>3. \A r \in mail : r.op = "update" => r.file \in held'[r.from]
    BY <1>4, <2>1 DEF Whole, Agreed, Mailed
  <2> QED BY <1>0, <2>2, <2>3 DEF Whole, Agreed, Mailed, Led
<1>13. Mapped'
  <2>1. \A k \in alive : ~Replied(k)
    BY <1>3, RepliedFacts
  <2>2. \A k \in alive : ~Replied(k)'
    BY <1>0, <2>1 DEF Replied, Starter
  <2>3. ASSUME NEW k \in alive, NEW g \in held'[k] PROVE Covered(k, g)'
    <3>1. CASE g \in held[k]
      <4>1. Covered(k, g)
        BY <1>3, <3>1 DEF Whole, Agreed, Mapped
      <4> QED BY <1>0, <2>1, <2>2, <4>1 DEF Covered, Told, Todo, Starter
    <3>2. CASE g \notin held[k]
      <4>1. k = n /\ g = f
        BY <1>1, <1>4, <2>3, <3>2
      <4> QED BY <1>0, <1>3, <2>2, <4>1 DEF Covered
    <3> QED BY <3>1, <3>2
  <2>4. ASSUME NEW k \in alive, NEW g \in map[leader][k] PROVE Noted(k, g)'
    <3>1. Noted(k, g) /\ g \in File
      BY <1>1, <1>3 DEF Whole, Agreed, Mapped
    <3>2. CASE g = f /\ Copying(k, g)
      <4>1. k = n
        BY <1>3, <3>2
      <4> QED BY <1>1, <1>4, <3>2, <4>1 DEF Noted
    <3> QED BY <1>0, <1>1, <1>4, <1>6, <3>1, <3>2 DEF Noted, Struck, Server
  <2>5. \A g \in File : Busy(g)' => Busy(g)
    BY <1>0, <1>6 DEF Busy, Todo
  <2>6. \A g \in File : Deleting(g)' <=> Deleting(g)
    BY <1>0 DEF Deleting, Todo
  <2>7. ~Gathering'
    BY <1>0, <1>3 DEF Gathering
  <2> QED BY <1>0, <1>3, <2>2, <2>3, <2>4, <2>5, <2>6, <2>7 DEF Whole, Agreed, Mapped, Led
<1> QED BY <1>0, <1>7, <1>8, <1>9, <1>10, <1>11, <1>12, <1>13 DEF Agreed

-----------------------------------------------------------------------------
(* The master's service thread *)

LEMMA MournedStays ==
  ASSUME Whole, UNCHANGED <<alive, members, reported, leader, fetches, service>>,
         \A m \in alive : /\ job'[<<m, "start">>] = job[<<m, "start">>]
                          /\ job'[<<m, "repair">>] = job[<<m, "repair">>],
         \A x \in Dead : map'[leader][x] \subseteq map[leader][x]
  PROVE  Mourned'
BY DEF Whole, Agreed, Mourned, Dead, Led, Repairer

LEMMA FirstCopyStays ==
  ASSUME Whole, UNCHANGED <<alive, leader, held>>,
         \A n \in alive, f \in File : Copying(n, f)' => Copying(n, f),
         \A n \in alive : map[leader][n] \subseteq map'[leader][n],
         \A x \in fetches' : x.keep => x \in fetches
  PROVE  FirstCopy'
<1>1. ASSUME NEW n \in alive, NEW f \in File, Copying(n, f)'
      PROVE  /\ Led /\ f \in map'[leader][n]
             /\ \A k \in alive : f \notin held[k] /\ (Copying(k, f)' => k = n)
             /\ \A x \in fetches' : ~(x.file = f /\ x.keep)
  BY <1>1 DEF Whole, Agreed, FirstCopy
<1> QED BY <1>1 DEF FirstCopy, Led

LEMMA ServeFacts ==
  ASSUME Whole, NEW m \in Node, Serve(m)
  PROVE  /\ UNCHANGED <<alive, members, reported, leader, held, disk, got, service, fetches>>
         /\ Led /\ m = leader /\ job[Server] = << >> /\ call[Server] = NoCall
         /\ \A f : ~Deleting(f)
         /\ \A n, f : ~Struck(n, f)
         /\ \E q \in mail :
              /\ mail' = mail \ {q} /\ q.from \in alive /\ q.file \in File
              /\ q.op = "put" => user[q.from] = q
              /\ q.op = "update" => q.file \in held[q.from]
              /\ \/ q.op = "put" /\ ServePut(Server, q)
                 \/ q.op = "get" /\ ServeGet(Server, q)
                 \/ q.op = "delete" /\ ServeDelete(Server, q)
                 \/ q.op = "update" /\ ServeUpdate(Server, q)
<1>1. m = leader /\ m \in alive /\ job[<<m, "serve">>] = << >>
  BY DEF Serve
<1>2. Led /\ Server = <<m, "serve">>
  BY <1>1 DEF Led, Server
<1>3. Server \in Thread
  BY LeadersThreads DEF Whole, TInv
<1>4. call[Server] = NoCall
  BY <1>1, <1>2, <1>3 DEF Whole, Agreed, Orders
<1>5. \A f : ~Deleting(f)
  BY <1>1, <1>2, DeletionsOfServer
<1>6. \A n, f : ~Struck(n, f)
  BY <1>4 DEF Struck, NoCall
<1>7. UNCHANGED <<alive, members, reported, leader, held, disk, got, service, fetches>>
  BY DEF Serve, groupVars
<1>8. PICK q \in mail :
        /\ mail' = mail \ {q}
        /\ \/ q.op = "put" /\ ServePut(Server, q)
           \/ q.op = "get" /\ ServeGet(Server, q)
           \/ q.op = "delete" /\ ServeDelete(Server, q)
           \/ q.op = "update" /\ ServeUpdate(Server, q)
  BY <1>2 DEF Serve
<1>9. q.from \in alive /\ (q.op = "put" => user[q.from] = q) /\ (q.op = "update" => q.file \in held[q.from])
  BY DEF Whole, Agreed, Mailed
<1>10. q.file \in File
  BY DEF Whole, TInv, UsersT, Requests, Updates
<1> QED BY <1>1, <1>2, <1>4, <1>5, <1>6, <1>7, <1>8, <1>9, <1>10

\* A user that is told no, or that is told nothing, waits no more.
LEMMA Refused ==
  ASSUME Whole, NEW q \in mail, q.op # "update", Answer(q, Ready), mail' = mail \ {q},
         UNCHANGED <<alive, leader, held>>
  PROVE  /\ \A k \in alive, g \in File : Copying(k, g)' <=> Copying(k, g)
         /\ Mailed'
<1>1. user \in [Node -> {Ready} \cup Requests \cup Copies] /\ alive \subseteq Node
  BY DEF Whole, TInv, UsersT, GroupT
<1>2. q.op # "copy" /\ q.from \in Node
  BY DEF Whole, TInv, UsersT, Requests, Updates
<1>3. user' = user \/ (user[q.from] = q /\ user' = [user EXCEPT ![q.from] = Ready])
  BY DEF Answer
<1>4. \A k \in alive, g \in File : Copying(k, g)' <=> Copying(k, g)
  BY <1>1, <1>2, <1>3 DEF Copying, Ready
<1>5. \A r \in mail : r.from \in Node /\ (r.op = "put" => user[r.from] = r)
  BY DEF Whole, RInv, Addressed, Agreed, Mailed
<1>6. \A r \in mail' : r.op = "put" => user'[r.from] = r
  BY <1>1, <1>2, <1>3, <1>5
<1> QED BY <1>4, <1>6 DEF Whole, Agreed, Mailed, Led

\* Jobs of the service thread are proper.
LEMMA ServersOrders ==
  ASSUME Whole, Led, UNCHANGED <<alive, leader, held>>,
         NEW e \in Seq(Tasks), job' = [job EXCEPT ![Server] = e] \/ (e = job[Server] /\ job' = job),
         Proper(e, "serve"),
         \A t \in Thread \ {Server} : call'[t] = call[t],
         call'[Server] = NoCall \/ (e # << >> /\ Fits(call'[Server], Head(e)) /\ call'[Server].state # "done")
  PROVE  \A t \in Thread : Orders(t)'
<1>1. Server \in Thread /\ Server[2] = "serve" /\ NodeOf(Server) = leader
  BY LeadersThreads DEF Whole, TInv
<1>2. job \in [Thread -> Seq(Tasks)]
  BY DEF Whole, TInv, ThreadsT
<1>3. job'[Server] = e /\ \A t \in Thread \ {Server} : job'[t] = job[t]
  BY <1>1, <1>2
<1>4. ASSUME NEW t \in Thread \ {Server} PROVE Orders(t)'
  BY <1>3, <1>4 DEF Whole, Agreed, Orders, Proper, Runs, Fits
<1> PICK s \in Thread : s = Server
  BY <1>1
<1>5. Orders(s)'
  <2>1. Runs(s)'
    BY <1>1 DEF Runs, Led
  <2>2. Proper(job[s], s[2])'
    BY <1>1, <1>3 DEF Proper
  <2>3. call'[s] # NoCall => job'[s] # << >> /\ Fits(call'[s], Head(job'[s]))
    BY <1>3
  <2>4. ~(call'[s].do = "delete" /\ call'[s].state = "done")
    BY DEF NoCall
  <2> QED BY <2>1, <2>2, <2>3, <2>4 DEF Orders, Fits
<1> QED BY <1>4, <1>5

\* What the service thread is given to do, and whom that leaves alone.
LEMMA ServersJob ==
  ASSUME Whole, NEW e, job' = [job EXCEPT ![Server] = e], UNCHANGED leader
  PROVE  /\ job'[Server] = e
         /\ \A t \in Thread \ {Server} : job'[t] = job[t] /\ \A k : Todo(t, k)' <=> Todo(t, k)
         /\ \A k : Todo(Server, k)' <=> Within(e, k)
         /\ \A m \in alive : /\ job'[<<m, "start">>] = job[<<m, "start">>]
                             /\ job'[<<m, "repair">>] = job[<<m, "repair">>]
         /\ \A k : Todo(Starter, k)' <=> Todo(Starter, k)
         /\ Gathering' <=> Gathering
<1>1. Server \in Thread /\ Starter \in Thread /\ Server # Starter /\ Server[2] = "serve"
  BY LeadersThreads DEF Whole, TInv
<1>2. job'[Server] = e /\ \A t \in Thread \ {Server} : job'[t] = job[t]
  BY <1>1 DEF Whole, TInv, ThreadsT
<1>3. \A t \in Thread \ {Server} : \A k : Todo(t, k)' <=> Todo(t, k)
  BY <1>2 DEF Todo
<1>4. \A k : Todo(Server, k)' <=> Within(e, k)
  BY <1>2 DEF Todo, Within, Server
<1>5. ASSUME NEW m \in alive
      PROVE  /\ job'[<<m, "start">>] = job[<<m, "start">>]
             /\ job'[<<m, "repair">>] = job[<<m, "repair">>]
  <2>1. <<m, "start">> \in Thread \ {Server} /\ <<m, "repair">> \in Thread \ {Server}
    BY <1>1 DEF Thread, Whole, TInv, GroupT, Server
  <2> QED BY <1>2, <2>1
<1>6. Starter' = Starter
  BY DEF Starter
<1>7. \A k : Todo(Starter, k)' <=> Todo(Starter, k)
  BY <1>1, <1>2, <1>6 DEF Todo
<1>8. Gathering' <=> Gathering
  BY <1>1, <1>2, <1>6 DEF Gathering, Starter
<1> QED BY <1>2, <1>3, <1>4, <1>5, <1>7, <1>8

LEMMA OneTask ==
  ASSUME NEW k \in Tasks, k.do \in {"get", "replicate"}
  PROVE  /\ <<k>> \in Seq(Tasks) /\ <<k>> # << >> /\ Head(<<k>>) = k
         /\ Proper(<<k>>, "serve")
         /\ \A h : Within(<<k>>, h) <=> h = k
<1>1. DOMAIN <<k>> = {1} /\ <<k>>[1] = k
  OBVIOUS
<1> QED BY <1>1 DEF Proper, Within

LEMMA ServeGetAgreed ==
  ASSUME Whole, NEW m \in Node, Serve(m), NEW q \in mail, q.op = "get", q.from \in alive,
         q.file \in File, mail' = mail \ {q}, ServeGet(Server, q)
  PROVE  Agreed'
<1> DEFINE have == Holders(NodeOf(Server), q.file)
<1> PICK c : c = ReplicateCall(Lowest(have), q.file, {q.from}, FALSE)
  OBVIOUS
<1>0. /\ UNCHANGED <<alive, members, reported, leader, held, disk, got, service, fetches>>
      /\ Led /\ m = leader /\ job[Server] = << >> /\ call[Server] = NoCall
      /\ \A f : ~Deleting(f)
      /\ \A n, f : ~Struck(n, f)
  BY ServeFacts
<1>1. /\ UNCHANGED map /\ Answer(q, Ready)
      /\ \/ UNCHANGED <<job, call>>
         \/ job' = [job EXCEPT ![Server] = <<GetTask>>] /\ call' = [call EXCEPT ![Server] = c]
  BY DEF ServeGet
<1> HIDE DEF have
<1>2. Server \in Thread /\ Starter \in Thread /\ Server # Starter
  BY LeadersThreads DEF Whole, TInv
<1>3. /\ \A k \in alive, g \in File : Copying(k, g)' <=> Copying(k, g)
      /\ Mailed'
  BY <1>0, <1>1, Refused
<1>4. Fetching' /\ Stored'
  BY <1>0, Frames
<1>5. GetTask \in Tasks /\ GetTask.do = "get" /\ \A f : GetTask # ReplicateTask(f)
  BY DEF Tasks, GetTask, ReplicateTask
<1>6. c.do = "replicate" /\ c.state = "sent" /\ Fits(c, GetTask)
  BY DEF ReplicateCall, Fits
<1>7. /\ <<GetTask>> \in Seq(Tasks) /\ <<GetTask>> # << >> /\ Head(<<GetTask>>) = GetTask
      /\ Proper(<<GetTask>>, "serve")
      /\ \A h : Within(<<GetTask>>, h) <=> h = GetTask
  <2>1. GetTask.do \in {"get", "replicate"}
    BY <1>5
  <2> QED BY <1>5, <2>1, OneTask
<1>8. \A t \in Thread \ {Server} : call'[t] = call[t]
  BY <1>1, <1>2 DEF Whole, TInv, ThreadsT
<1>9. \A t \in Thread : Orders(t)'
  <2>1. CASE UNCHANGED <<job, call>>
    BY <1>0, <2>1, Frames
  <2>2. CASE job' = [job EXCEPT ![Server] = <<GetTask>>] /\ call' = [call EXCEPT ![Server] = c]
    <3>1. call'[Server] = c
      BY <1>2, <2>2 DEF Whole, TInv, ThreadsT
    <3> QED BY <1>0, <1>6, <1>7, <1>8, <2>2, <3>1, ServersOrders
  <2> QED BY <1>1, <2>1, <2>2
<1>10. (\A k \in alive : Sending(k))'
  BY <1>0, <1>8 DEF Whole, Agreed, Sending, Runs, NoCall
<1>11. /\ \A n \in alive : job'[<<n, "start">>] = job[<<n, "start">>]
                         /\ job'[<<n, "repair">>] = job[<<n, "repair">>]
       /\ \A k : Todo(Starter, k)' <=> Todo(Starter, k)
       /\ Gathering' <=> Gathering
       /\ \A f \in File, t \in Thread : Todo(t, ReplicateTask(f))' => Todo(t, ReplicateTask(f))
       /\ \A f : ~Deleting(f)'
  <2>1. CASE UNCHANGED job
    BY <1>0, <2>1 DEF Todo, Gathering, Starter, Deleting
  <2>2. CASE job' = [job EXCEPT ![Server] = <<GetTask>>]
    <3>1. /\ \A n \in alive : /\ job'[<<n, "start">>] = job[<<n, "start">>]
                              /\ job'[<<n, "repair">>] = job[<<n, "repair">>]
          /\ \A k : Todo(Starter, k)' <=> Todo(Starter, k)
          /\ Gathering' <=> Gathering
          /\ \A t \in Thread \ {Server} : \A k : Todo(t, k)' <=> Todo(t, k)
          /\ \A k : Todo(Server, k)' <=> Within(<<GetTask>>, k)
      BY <1>0, <2>2, ServersJob
    <3> PICK s \in Thread : s = Server
      BY <1>2
    <3>2. Server' = Server
      BY <1>0 DEF Server
    <3>3. \A k : Todo(s, k)' <=> k = GetTask
      BY <1>7, <3>1, <3>2 DEF Todo
    <3>4. \A n, f : GetTask # DeleteTask(n, f)
      BY DEF GetTask, DeleteTask
    <3>5. \A f : ~Deleting(f)'
      BY <1>0, <3>1, <3>3, <3>4 DEF Deleting
    <3> QED BY <1>5, <3>1, <3>3, <3>5
  <2> QED BY <1>1, <2>1, <2>2
<1>12. Mourned'
  BY <1>0, <1>1, <1>11, MournedStays
<1>13. Mapped'
  <2>1. \A k \in alive, g \in File : Told(k, g) => Told(k, g)'
    <3>1. \A k, g : [op |-> "update", from |-> k, file |-> g, to |-> leader] # q
      OBVIOUS
    <3> QED BY <1>0, <3>1 DEF Told
  <2>2. \A k \in alive : (Replied(k)' <=> Replied(k)) /\ (Replied(k) => UNCHANGED Names)
    BY <1>0, <1>2, <1>8 DEF Replied, Names, Starter
  <2>3. \A g \in File : Busy(g)' => Busy(g)
    BY <1>0, <1>3, <1>11 DEF Busy
  <2> QED BY <1>0, <1>1, <1>3, <1>11, <2>1, <2>2, <2>3, MappedStays
<1>14. FirstCopy'
  BY <1>0, <1>1, <1>3, FirstCopyStays
<1> QED BY <1>0, <1>3, <1>4, <1>9, <1>10, <1>12, <1>13, <1>14 DEF Agreed

LEMMA BusyMoves == \A f : Busy(f) => Moving(f)
BY DEF Busy, Moving, Copying

LEMMA ServeDeleteAgreed ==
  ASSUME Whole, NEW m \in Node, Serve(m), NEW q \in mail, q.op = "delete", q.from \in alive,
         q.file \in File, mail' = mail \ {q}, ServeDelete(Server, q), mishaps' = {}
  PROVE  Agreed'
<1> DEFINE have == Holders(NodeOf(Server), q.file)
           d == [i \in 1 .. Cardinality(have) |-> DeleteTask(Nth(have, i), q.file)]
<1>0. /\ UNCHANGED <<alive, members, reported, leader, held, disk, got, service, fetches>>
      /\ Led /\ m = leader /\ job[Server] = << >> /\ call[Server] = NoCall
      /\ \A f : ~Deleting(f)
      /\ \A n, f : ~Struck(n, f)
  BY ServeFacts
<1>1. /\ UNCHANGED <<map, call>> /\ Answer(q, Ready)
      /\ \/ UNCHANGED job
         \/ job' = [job EXCEPT ![Server] = d] /\ ~Gathering /\ ~Moving(q.file)
  BY DEF ServeDelete, Each
<1>2. Server \in Thread /\ Starter \in Thread /\ Server # Starter
  BY LeadersThreads DEF Whole, TInv
<1>3. /\ d \in Seq(Tasks) /\ Proper(d, "serve")
      /\ \A k : Within(d, k) => \E n \in Node : k = DeleteTask(n, q.file)
  <2>1. have \in SUBSET Node
    BY DEF Holders, Whole, TInv, GroupT
  <2>2. /\ \A i \in DOMAIN d : \E n \in have : d[i] = DeleteTask(n, q.file)
        /\ d \in Seq({DeleteTask(n, q.file) : n \in have})
    <3>1. /\ DOMAIN d = 1 .. Cardinality(have) /\ d = [i \in DOMAIN d |-> d[i]]
          /\ \A i \in 1 .. Cardinality(have) : d[i] = DeleteTask(Nth(have, i), q.file)
      OBVIOUS
    <3> HIDE DEF d, have
    <3>2. /\ DOMAIN d = 1 .. Cardinality(have) /\ Cardinality(have) \in Nat
          /\ \A i \in 1 .. Cardinality(have) : \E n \in have : d[i] = DeleteTask(n, q.file)
          /\ d \in Seq({DeleteTask(n, q.file) : n \in have})
      BY <2>1, <3>1, EachDelete
    <3> QED BY <3>2
  <2>3. {DeleteTask(n, q.file) : n \in have} \subseteq Tasks
    BY <2>1 DEF Tasks
  <2> HIDE DEF d, have
  <2>4. \A i \in DOMAIN d : d[i].do = "delete"
    <3>1. \A n : DeleteTask(n, q.file).do = "delete"
      BY DEF DeleteTask
    <3> QED BY <2>2, <3>1
  <2> QED BY <2>1, <2>2, <2>3, <2>4 DEF Proper, Within
<1> HIDE DEF have, d
<1>4. /\ \A k \in alive, g \in File : Copying(k, g)' <=> Copying(k, g)
      /\ Mailed'
  BY <1>0, <1>1, Refused
<1>5. Fetching' /\ Stored' /\ (\A k \in alive : Sending(k))'
  BY <1>0, <1>1, Frames
<1>6. \A t \in Thread : Orders(t)'
  <2>1. CASE UNCHANGED job
    BY <1>0, <1>1, <2>1, Frames
  <2>2. CASE job' = [job EXCEPT ![Server] = d]
    <3>1. call'[Server] = NoCall /\ \A t \in Thread \ {Server} : call'[t] = call[t]
      BY <1>0, <1>1
    <3> QED BY <1>0, <1>3, <2>2, <3>1, ServersOrders
  <2> QED BY <1>1, <2>1, <2>2
<1>7. /\ \A n \in alive : job'[<<n, "start">>] = job[<<n, "start">>]
                        /\ job'[<<n, "repair">>] = job[<<n, "repair">>]
      /\ \A k : Todo(Starter, k)' <=> Todo(Starter, k)
      /\ Gathering' <=> Gathering
      /\ \A f \in File, t \in Thread : Todo(t, ReplicateTask(f))' => Todo(t, ReplicateTask(f))
      /\ \A f : Deleting(f)' => f = q.file /\ ~Gathering /\ ~Moving(q.file)
  <2>1. CASE UNCHANGED job
    BY <1>0, <2>1 DEF Todo, Gathering, Starter, Deleting
  <2>2. CASE job' = [job EXCEPT ![Server] = d] /\ ~Gathering /\ ~Moving(q.file)
    <3>1. /\ \A n \in alive : /\ job'[<<n, "start">>] = job[<<n, "start">>]
                              /\ job'[<<n, "repair">>] = job[<<n, "repair">>]
          /\ \A k : Todo(Starter, k)' <=> Todo(Starter, k)
          /\ Gathering' <=> Gathering
          /\ \A t \in Thread \ {Server} : \A k : Todo(t, k)' <=> Todo(t, k)
          /\ \A k : Todo(Server, k)' <=> Within(d, k)
      BY <1>0, <2>2, ServersJob
    <3> PICK s \in Thread : s = Server
      BY <1>2
    <3>2. Server' = Server
      BY <1>0 DEF Server
    <3>3. \A k : Todo(s, k)' => \E n \in Node : k = DeleteTask(n, q.file)
      BY <1>3, <3>1, <3>2 DEF Todo
    <3>4. \A n, f, g : DeleteTask(n, f) # ReplicateTask(g)
      BY DEF ReplicateTask, DeleteTask
    <3>5. \A n, k, f, g : DeleteTask(n, f) = DeleteTask(k, g) => f = g
      BY DEF DeleteTask
    <3>6. \A f : Deleting(f)' => f = q.file
      BY <1>0, <3>1, <3>3, <3>5 DEF Deleting
    <3> QED BY <2>2, <3>1, <3>3, <3>4, <3>6
  <2> QED BY <1>1, <2>1, <2>2
<1>8. Mourned'
  BY <1>0, <1>1, <1>7, MournedStays
<1>9. Mapped'
  <2>1. \A k \in alive, g \in File : Told(k, g) => Told(k, g)'
    <3>1. \A k, g : [op |-> "update", from |-> k, file |-> g, to |-> leader] # q
      OBVIOUS
    <3> QED BY <1>0, <3>1 DEF Told
  <2>2. \A k \in alive : (Replied(k)' <=> Replied(k)) /\ (Replied(k) => UNCHANGED Names)
    BY <1>0, <1>1 DEF Replied, Names, Starter
  <2>3. \A g \in File : Busy(g)' => Busy(g)
    BY <1>0, <1>4, <1>7 DEF Busy
  <2>4. \A g \in File : Deleting(g)' => ~Busy(g)
    BY <1>7, BusyMoves
  <2>5. Gathering' => Gathering /\ \A g \in File : ~Deleting(g)'
    BY <1>7
  <2> QED BY <1>0, <1>1, <1>4, <1>7, <2>1, <2>2, <2>3, <2>4, <2>5, MappedStays
<1>10. FirstCopy'
  BY <1>0, <1>1, <1>4, FirstCopyStays
<1> QED BY <1>0, <1>4, <1>5, <1>6, <1>8, <1>9, <1>10 DEF Agreed

LEMMA ServeUpdateAgreed ==
  ASSUME Whole, NEW m \in Node, Serve(m), NEW q \in mail, q.op = "update", q.from \in alive,
         q.file \in File, q.file \in held[q.from], mail' = mail \ {q}, ServeUpdate(Server, q),
         mishaps' = {}
  PROVE  Agreed'
<1> PICK n \in alive, f \in File : n = q.from /\ f = q.file
  OBVIOUS
<1>0. /\ UNCHANGED <<alive, members, reported, leader, held, disk, got, service, fetches>>
      /\ Led /\ m = leader /\ job[Server] = << >> /\ call[Server] = NoCall
      /\ \A g : ~Deleting(g)
      /\ \A k, g : ~Struck(k, g)
  BY ServeFacts
<1>1. NodeOf(Server) = leader /\ Starter \in Thread /\ NodeOf(Starter) = leader
  BY LeadersThreads DEF Whole, TInv
<1>2. /\ UNCHANGED <<user, job, call>>
      /\ map' = [map EXCEPT ![leader][n] = map[leader][n] \cup {f}]
      /\ ~Overtakes(leader, n)
  BY <1>1 DEF ServeUpdate
<1>3. /\ map \in [Node -> [Node -> SUBSET File]] /\ leader \in Node /\ alive \subseteq Node
      /\ held \in [Node -> SUBSET File] /\ mail \subseteq Requests \cup Updates
  BY DEF Whole, TInv, ThreadsT, GroupT, FilesT, UsersT
<1>4. \A k \in Node : map'[leader][k] = IF k = n THEN map[leader][k] \cup {f} ELSE map[leader][k]
  BY <1>2, <1>3
<1>5. /\ \A t \in Thread : Orders(t)'
      /\ (\A k \in alive : Sending(k))'
      /\ Fetching' /\ Stored'
  BY <1>0, <1>2, Frames
<1>6. \A k \in alive, g \in File : Copying(k, g)' <=> Copying(k, g)
  BY <1>2 DEF Copying
<1>7. FirstCopy'
  BY <1>0, <1>3, <1>4, <1>6, FirstCopyStays
<1>8. Mailed'
  BY <1>0, <1>2 DEF Whole, Agreed, Mailed, Led
<1>9. Mourned'
  <2>1. \A x \in Dead : x \in Node /\ x # n
    BY DEF Dead, Whole, TInv, GroupT
  <2>2. \A x \in Dead : map'[leader][x] \subseteq map[leader][x]
    BY <1>4, <2>1
  <2> QED BY <1>0, <1>2, <2>2, MournedStays
<1>10. Mapped'
  <2>1. \A k \in alive : (Replied(k)' <=> Replied(k)) /\ UNCHANGED Names
    BY <1>0, <1>2 DEF Replied, Names, Starter
  <2>2. Replied(n) => Names = {}
    BY <1>1, <1>2 DEF Replied, Names, Overtakes
  <2>3. \A k, g : Told(k, g)' <=> Told(k, g) /\ ~(k = n /\ g = f)
    <3>1. q \in Updates
      BY <1>3 DEF Requests
    <3>2. q.to = leader
      BY DEF Whole, Agreed, Mailed
    <3>3. q = [op |-> "update", from |-> n, file |-> f, to |-> leader]
      BY <3>1, <3>2 DEF Updates
    <3> QED BY <1>0, <3>3 DEF Told
  <2>4. ASSUME NEW k \in alive, NEW g \in held[k] PROVE Covered(k, g)'
    <3>1. Covered(k, g)
      BY <1>0, <2>4 DEF Whole, Agreed, Mapped
    <3>2. Todo(Starter, ListTask(k))' <=> Todo(Starter, ListTask(k))
      BY <1>0, <1>2 DEF Todo, Starter
    <3>3. g \in map[leader][k] => g \in map'[leader][k]
      BY <1>3, <1>4
    <3>4. k = n /\ g = f => g \in map'[leader][k]
      BY <1>3, <1>4
    <3>5. CASE k = n /\ g = f
      BY <1>0, <2>1, <2>2, <3>4, <3>5 DEF Covered
    <3>6. CASE ~(k = n /\ g = f)
      BY <1>0, <2>1, <2>3, <3>1, <3>2, <3>3, <3>6 DEF Covered
    <3> QED BY <3>5, <3>6
  <2>5. ASSUME NEW k \in alive, NEW g \in map'[leader][k] PROVE Noted(k, g)'
    <3>1. CASE g \in map[leader][k]
      <4>1. Noted(k, g) /\ g \in File
        BY <1>0, <1>3, <3>1 DEF Whole, Agreed, Mapped
      <4> QED BY <1>0, <1>6, <4>1 DEF Noted
    <3>2. CASE g \notin map[leader][k]
      <4>1. k = n /\ g = f
        BY <1>3, <1>4, <2>5, <3>2
      <4> QED BY <1>0, <4>1 DEF Noted
    <3> QED BY <3>1, <3>2
  <2>6. ASSUME NEW k \in alive, Replied(k)'
        PROVE  (Names \subseteq held[k] /\ (Names # {} => map[leader][k] \subseteq Names))'
    <3>1. Replied(k) /\ Names \subseteq held[k] /\ (Names # {} => map[leader][k] \subseteq Names)
      BY <1>0, <2>1, <2>6 DEF Whole, Agreed, Mapped
    <3>2. Names # {} => k # n
      BY <2>2, <3>1
    <3>3. Names # {} => map'[leader][k] \subseteq Names
      BY <1>3, <1>4, <3>1, <3>2
    <3> QED BY <1>0, <2>1, <3>1, <3>3
  <2>7. ASSUME NEW g \in File, Busy(g)' PROVE \E k \in alive : g \in map'[leader][k]
    <3>1. Busy(g)
      BY <1>0, <1>2, <1>6, <2>7 DEF Busy, Todo
    <3>2. PICK k \in alive : g \in map[leader][k]
      BY <1>0, <3>1 DEF Whole, Agreed, Mapped
    <3>3. g \in map'[leader][k]
      BY <1>3, <1>4, <3>2
    <3> QED BY <3>3
  <2>8. \A g \in File : ~Deleting(g)'
    BY <1>0, <1>2 DEF Deleting, Todo
  <2>9. Gathering' => \A g \in File, k \in alive : ~Copying(k, g)'
    BY <1>0, <1>2, <1>6 DEF Gathering, Whole, Agreed, Mapped
  <2> QED BY <1>0, <2>4, <2>5, <2>6, <2>7, <2>8, <2>9 DEF Mapped, Led
<1> QED BY <1>0, <1>5, <1>7, <1>8, <1>9, <1>10 DEF Agreed

LEMMA PutRefused ==
  ASSUME Whole, NEW m \in Node, Serve(m), NEW q \in mail, q.op = "put",
         mail' = mail \ {q}, Answer(q, Ready), UNCHANGED <<map, job, call>>
  PROVE  Agreed'
<1>0. /\ UNCHANGED <<alive, members, reported, leader, held, disk, got, service, fetches>>
      /\ Led /\ \A f : ~Deleting(f)
  BY ServeFacts
<1>1. /\ \A k \in alive, g \in File : Copying(k, g)' <=> Copying(k, g)
      /\ Mailed'
  BY <1>0, Refused
<1>2. /\ \A t \in Thread : Orders(t)'
      /\ (\A k \in alive : Sending(k))'
      /\ Fetching' /\ Stored' /\ Mourned'
  BY <1>0, Frames
<1>3. FirstCopy'
  BY <1>0, <1>1, FirstCopyStays
<1>4. Mapped'
  <2>1. \A k \in alive, g \in File : Told(k, g) => Told(k, g)'
    <3>1. \A k, g : [op |-> "update", from |-> k, file |-> g, to |-> leader] # q
      OBVIOUS
    <3> QED BY <1>0, <3>1 DEF Told
  <2>2. \A k \in alive : (Replied(k)' <=> Replied(k)) /\ (Replied(k) => UNCHANGED Names)
    BY <1>0 DEF Replied, Names, Starter
  <2>3. \A k \in alive : Todo(Starter, ListTask(k)) => Todo(Starter, ListTask(k))'
    BY <1>0 DEF Todo, Starter
  <2>4. \A k \in alive, g \in File : Struck(k, g) => Struck(k, g)'
    BY <1>0 DEF Struck, Server
  <2>5. \A g \in File : Busy(g)' => Busy(g)
    BY <1>0, <1>1 DEF Busy, Todo
  <2>6. \A g \in File : ~Deleting(g)'
    BY <1>0 DEF Deleting, Todo
  <2>7. Gathering' => Gathering
    BY <1>0 DEF Gathering
  <2> QED BY <1>0, <1>1, <2>1, <2>2, <2>3, <2>4, <2>5, <2>6, <2>7, MappedStays
<1> QED BY <1>0, <1>1, <1>2, <1>3, <1>4 DEF Agreed

LEMMA ServePutAgreed ==
  ASSUME Whole, NEW m \in Node, Serve(m), NEW q \in mail, q.op = "put", q.from \in alive,
         q.file \in File, user[q.from] = q, mail' = mail \ {q}, ServePut(Server, q), mishaps' = {}
  PROVE  Agreed'
<1> PICK n \in alive, f \in File : n = q.from /\ f = q.file
  OBVIOUS
<1>0. /\ UNCHANGED <<alive, members, reported, leader, held, disk, got, service, fetches>>
      /\ Led /\ m = leader /\ job[Server] = << >> /\ call[Server] = NoCall
      /\ \A g : ~Deleting(g)
      /\ \A k, g : ~Struck(k, g)
  BY ServeFacts
<1>1. NodeOf(Server) = leader /\ Server \in Thread /\ Starter \in Thread /\ NodeOf(Starter) = leader
  BY LeadersThreads DEF Whole, TInv
<1> PICK u : u = [op |-> "copy", file |-> f]
  OBVIOUS
<1> SUFFICES ASSUME Count(leader, f) = 0 PROVE Agreed'
  <2>1. ASSUME Count(leader, f) # 0 PROVE Answer(q, Ready) /\ UNCHANGED <<map, job, call>>
    BY <1>1, <2>1 DEF ServePut
  <2> QED BY <2>1, PutRefused
<1>2. /\ user' = [user EXCEPT ![n] = u]
      /\ map' = [map EXCEPT ![leader][n] = map[leader][n] \cup {f}]
      /\ job' = [job EXCEPT ![Server] = <<ReplicateTask(f)>>]
      /\ UNCHANGED call /\ ~Gathering
  BY <1>1 DEF ServePut, Answer
<1>3. /\ map \in [Node -> [Node -> SUBSET File]] /\ leader \in Node /\ alive \subseteq Node
      /\ held \in [Node -> SUBSET File] /\ user \in [Node -> {Ready} \cup Requests \cup Copies]
  BY DEF Whole, TInv, ThreadsT, GroupT, FilesT, UsersT
<1>4. \A k \in Node : map'[leader][k] = IF k = n THEN map[leader][k] \cup {f} ELSE map[leader][k]
  BY <1>2, <1>3
\* Nobody has the file or is about to.
<1>5. \A k \in Node : f \notin map[leader][k]
  BY WantedInt DEF Whole, TInv
<1>6. ~Busy(f)
  BY <1>0, <1>3, <1>5 DEF Whole, Agreed, Mapped
<1>7. \A k \in alive : ~Replied(k)
  BY <1>2, RepliedFacts
<1>8. \A k \in alive : f \notin held[k]
  <2> SUFFICES ASSUME NEW k \in alive, f \in held[k] PROVE FALSE
    OBVIOUS
  <2>1. Covered(k, f)
    BY <1>0 DEF Whole, Agreed, Mapped
  <2>2. ~Told(k, f)
    BY <1>6 DEF Busy, Told
  <2>3. ~Todo(Starter, ListTask(k))
    BY <1>2 DEF Todo, Gathering, Starter
  <2> QED BY <1>3, <1>5, <1>7, <2>1, <2>2, <2>3 DEF Covered
<1>9. \A k \in alive, g \in File : Copying(k, g)' <=> Copying(k, g) \/ (k = n /\ g = f)
  <2>1. user[n].op # "copy" /\ user'[n] = u /\ \A k \in alive : k # n => user'[k] = user[k]
    BY <1>2, <1>3
  <2> QED BY <2>1 DEF Copying
<1>10. (\A k \in alive : Sending(k))' /\ Fetching' /\ Stored'
  BY <1>0, <1>2, Frames
<1>11. /\ ReplicateTask(f) \in Tasks
       /\ <<ReplicateTask(f)>> \in Seq(Tasks) /\ Proper(<<ReplicateTask(f)>>, "serve")
       /\ \A k : Within(<<ReplicateTask(f)>>, k) <=> k = ReplicateTask(f)
  <2>1. ReplicateTask(f) \in Tasks /\ ReplicateTask(f).do \in {"get", "replicate"}
    BY DEF Tasks, ReplicateTask
  <2> PICK k \in Tasks : k = ReplicateTask(f)
    BY <2>1
  <2> QED BY <2>1, OneTask
<1>12. \A t \in Thread : Orders(t)'
  <2> PICK e \in Seq(Tasks) : e = <<ReplicateTask(f)>>
    BY <1>11
  <2>1. job' = [job EXCEPT ![Server] = e] /\ Proper(e, "serve")
    BY <1>2, <1>11
  <2>2. call'[Server] = NoCall /\ \A t \in Thread \ {Server} : call'[t] = call[t]
    BY <1>0, <1>2
  <2> QED BY <1>0, <2>1, <2>2, ServersOrders
<1>13. /\ \A k \in alive : job'[<<k, "start">>] = job[<<k, "start">>]
                         /\ job'[<<k, "repair">>] = job[<<k, "repair">>]
       /\ \A k : Todo(Starter, k)' <=> Todo(Starter, k)
       /\ ~Gathering'
       /\ \A g \in File, t \in Thread : Todo(t, ReplicateTask(g))' => Todo(t, ReplicateTask(g)) \/ g = f
       /\ \A g : ~Deleting(g)'
  <2> PICK e \in Seq(Tasks) : e = <<ReplicateTask(f)>>
    BY <1>11
  <2>0. job' = [job EXCEPT ![Server] = e]
    BY <1>2
  <2>1. /\ \A k \in alive : /\ job'[<<k, "start">>] = job[<<k, "start">>]
                            /\ job'[<<k, "repair">>] = job[<<k, "repair">>]
        /\ \A k : Todo(Starter, k)' <=> Todo(Starter, k)
        /\ Gathering' <=> Gathering
        /\ \A t \in Thread \ {Server} : \A k : Todo(t, k)' <=> Todo(t, k)
        /\ \A k : Todo(Server, k)' <=> Within(e, k)
    BY <1>0, <2>0, ServersJob
  <2> PICK s \in Thread : s = Server
    BY <1>1
  <2>2. Server' = Server
    BY <1>0 DEF Server
  <2>3. \A k : Todo(s, k)' <=> k = ReplicateTask(f)
    BY <1>11, <2>1, <2>2 DEF Todo
  <2>4. \A k, g, h : DeleteTask(k, g) # ReplicateTask(h)
    BY DEF ReplicateTask, DeleteTask
  <2>5. \A g, h : ReplicateTask(g) = ReplicateTask(h) => g = h
    BY DEF ReplicateTask
  <2>6. \A g : ~Deleting(g)'
    BY <1>0, <2>1, <2>3, <2>4 DEF Deleting
  <2> QED BY <1>2, <2>1, <2>3, <2>5, <2>6
<1>14. Mourned'
  <2>1. \A x \in Dead : x \in Node /\ x # n
    BY DEF Dead, Whole, TInv, GroupT
  <2>2. \A x \in Dead : map'[leader][x] \subseteq map[leader][x]
    BY <1>4, <2>1
  <2> QED BY <1>0, <1>13, <2>2, MournedStays
<1>15. FirstCopy'
  <2>1. ASSUME NEW k \in alive, NEW g \in File, Copying(k, g)'
        PROVE  /\ g \in map'[leader][k]
               /\ \A j \in alive : g \notin held[j] /\ (Copying(j, g)' => j = k)
               /\ \A x \in fetches : ~(x.file = g /\ x.keep)
    <3>1. CASE g = f
      <4>1. \A j \in alive : ~Copying(j, f) /\ \A x \in fetches : ~(x.file = f /\ x.keep)
        BY <1>6 DEF Busy
      <4> QED BY <1>3, <1>4, <1>8, <1>9, <2>1, <3>1, <4>1
    <3>2. CASE g # f
      <4>1. Copying(k, g) /\ \A j \in alive : Copying(j, g)' <=> Copying(j, g)
        BY <1>9, <2>1, <3>2
      <4>2. /\ g \in map[leader][k]
            /\ \A j \in alive : g \notin held[j] /\ (Copying(j, g) => j = k)
            /\ \A x \in fetches : ~(x.file = g /\ x.keep)
        BY <4>1 DEF Whole, Agreed, FirstCopy
      <4>3. g \in map'[leader][k]
        BY <1>3, <1>4, <4>2
      <4> QED BY <4>1, <4>2, <4>3
    <3> QED BY <3>1, <3>2
  <2> QED BY <1>0, <2>1 DEF FirstCopy, Led
<1>16. Mailed'
  <2>1. \A r \in mail : r.from \in Node /\ (r.op = "put" => user[r.from] = r)
    BY DEF Whole, RInv, Addressed, Agreed, Mailed
  <2>2. \A r \in mail' : r.op = "put" => user'[r.from] = r
    BY <1>2, <1>3, <2>1
  <2> QED BY <1>0, <2>2 DEF Whole, Agreed, Mailed, Led
<1>17. Mapped'
  <2>1. \A k \in alive : ~Replied(k)'
    BY <1>0, <1>2, <1>7 DEF Replied, Starter
  <2>2. \A k, g : Told(k, g)' <=> Told(k, g)
    BY <1>0 DEF Told
  <2>3. \A k \in alive : map[leader][k] \subseteq map'[leader][k]
    BY <1>3, <1>4
  <2>4. ASSUME NEW k \in alive, NEW g \in held[k] PROVE Covered(k, g)'
    <3>1. Covered(k, g)
      BY <1>0, <2>4 DEF Whole, Agreed, Mapped
    <3> QED BY <1>0, <1>7, <1>13, <2>1, <2>2, <2>3, <3>1 DEF Covered
  <2>5. ASSUME NEW k \in alive, NEW g \in map'[leader][k] PROVE Noted(k, g)'
    <3>1. CASE g \in map[leader][k]
      <4>1. Noted(k, g) /\ g \in File
        BY <1>0, <1>3, <3>1 DEF Whole, Agreed, Mapped
      <4> QED BY <1>0, <1>9, <4>1 DEF Noted
    <3>2. CASE g \notin map[leader][k]
      <4>1. k = n /\ g = f
        BY <1>3, <1>4, <2>5, <3>2
      <4> QED BY <1>9, <4>1 DEF Noted
    <3> QED BY <3>1, <3>2
  <2>6. ASSUME NEW g \in File, Busy(g)' PROVE \E k \in alive : g \in map'[leader][k]
    <3>1. Busy(g) \/ g = f
      BY <1>0, <1>9, <1>13, <2>6 DEF Busy
    <3>2. CASE g = f
      BY <1>3, <1>4, <3>2
    <3>3. CASE Busy(g)
      <4>1. PICK k \in alive : g \in map[leader][k]
        BY <1>0, <3>3 DEF Whole, Agreed, Mapped
      <4> QED BY <2>3, <4>1
    <3> QED BY <3>1, <3>2, <3>3
  <2> QED BY <1>0, <1>13, <2>1, <2>4, <2>5, <2>6 DEF Mapped, Led
<1> QED BY <1>0, <1>10, <1>12, <1>14, <1>15, <1>16, <1>17 DEF Agreed

LEMMA ServeAgreed == ASSUME Whole, NEW m \in Node, Serve(m), mishaps' = {} PROVE Agreed'
BY ServeFacts, ServePutAgreed, ServeGetAgreed, ServeDeleteAgreed, ServeUpdateAgreed

-----------------------------------------------------------------------------
(* The service threads of the nodes *)

LEMMA CommandObeyed ==
  ASSUME Whole, NEW n \in Node, Obey(n)
  PROVE  /\ UNCHANGED <<alive, members, reported, leader, got, user, fetches, mail, map, job>>
         /\ n \in alive /\ service[n] = Idle /\ Led
         /\ \E t \in Thread :
              /\ call[t].state = "sent" /\ call[t].to = n /\ NodeOf(t) = leader
              /\ \/ call[t].do = "list" /\ DoList(n, t)
                 \/ call[t].do = "delete" /\ DoDelete(n, t)
                 \/ call[t].do = "replicate" /\ DoReplicate(n, t)
<1>1. PICK t \in Thread :
        /\ call[t].state = "sent" /\ call[t].to = n
        /\ \/ leader # NodeOf(t) /\ Refuse(n, t)
           \/ call[t].do = "list" /\ DoList(n, t)
           \/ call[t].do = "delete" /\ DoDelete(n, t)
           \/ call[t].do = "replicate" /\ DoReplicate(n, t)
  BY DEF Obey
<1>2. call[t] # NoCall
  BY <1>1 DEF NoCall
<1>3. Led /\ NodeOf(t) = leader
  BY <1>2, CommandsOfLeader
<1> QED BY <1>1, <1>3 DEF Obey, Free, groupVars

\* A step of one call leaves the others' orders alone.
LEMMA OthersOrders ==
  ASSUME Whole, UNCHANGED <<alive, job>>, NEW t \in Thread, NEW c, call' = [call EXCEPT ![t] = c],
         \A k \in alive : held'[k] \subseteq held[k],
         Orders(t)'
  PROVE  /\ \A r \in Thread : Orders(r)'
         /\ call'[t] = c /\ \A r \in Thread \ {t} : call'[r] = call[r]
<1>1. call'[t] = c /\ \A r \in Thread \ {t} : call'[r] = call[r]
  BY DEF Whole, TInv, ThreadsT
<1>2. ASSUME NEW r \in Thread \ {t} PROVE Orders(r)'
  BY <1>1, <1>2 DEF Whole, Agreed, Orders, Proper, Runs, Fits
<1> QED BY <1>1, <1>2

LEMMA ObeyListAgreed ==
  ASSUME Whole, NEW n \in Node, Obey(n), NEW t \in Thread, call[t].state = "sent", call[t].to = n,
         call[t].do = "list", DoList(n, t), mishaps' = {}
  PROVE  Agreed'
<1> PICK c : c = [do |-> "list", to |-> n, names |-> held[n], state |-> "done"]
  OBVIOUS
<1>0. /\ UNCHANGED <<alive, members, reported, leader, got, user, fetches, mail, map, job,
                     service, held, disk>>
      /\ n \in alive /\ Led /\ call' = [call EXCEPT ![t] = c] /\ user[n].op # "copy"
  BY CommandObeyed DEF DoList
<1>1. /\ t = Starter /\ Head(job[t]) = ListTask(n) /\ Gathering
      /\ \A f \in File : ~Deleting(f) /\ \A k \in alive : ~Copying(k, f)
  BY ListCallFacts
<1>2. call'[t] = c /\ \A r \in Thread \ {t} : call'[r] = call[r]
  BY <1>0 DEF Whole, TInv, ThreadsT
<1>3. Orders(t)'
  <2>1. /\ Proper(job[t], t[2]) /\ (~Runs(t) => job[t] = << >> /\ call[t] = NoCall)
        /\ job[t] # << >> /\ call[t] # NoCall
    BY CommandsOfLeader DEF Whole, Agreed, Orders, NoCall
  <2>2. Fits(c, ListTask(n)) /\ c.do # "delete"
    BY DEF Fits
  <2> QED BY <1>0, <1>1, <1>2, <2>1, <2>2 DEF Orders, Proper, Runs, Fits
<1>4. \A r \in Thread : Orders(r)'
  BY <1>0, <1>3, OthersOrders
<1>5. (\A k \in alive : Sending(k))'
  BY <1>0, <1>2 DEF Whole, Agreed, Sending, Runs
<1>6. Fetching' /\ Stored' /\ Mourned'
  BY <1>0, Frames
<1>7. FirstCopy'
  BY <1>0, FirstCopyStays DEF Copying
<1>8. Mailed'
  BY <1>0 DEF Whole, Agreed, Mailed, Led
<1>9. Mapped'
  <2>1. Starter' = t /\ Names' = held[n]
    BY <1>0, <1>1, <1>2 DEF Starter, Names
  <2>2. \A k : Replied(k)' <=> k = n
    BY <1>2, <2>1 DEF Replied
  <2>3. \A k : ~Replied(k)
    BY <1>1 DEF Replied
  <2>4. ASSUME NEW k \in alive, NEW g \in held[k] PROVE Covered(k, g)'
    <3>1. Covered(k, g)
      BY <1>0, <2>4 DEF Whole, Agreed, Mapped
    <3>2. Todo(Starter, ListTask(k))' <=> Todo(Starter, ListTask(k))
      BY <1>0, <1>1, <2>1 DEF Todo
    <3>3. Told(k, g)' <=> Told(k, g)
      BY <1>0 DEF Told
    <3> QED BY <1>0, <2>1, <2>2, <2>3, <3>1, <3>2, <3>3 DEF Covered
  <2>5. Server \in Thread \ {t} /\ Server' = Server
    BY <1>0, <1>1, LeadersThreads DEF Whole, TInv, Server
  <2>6. \A k, g : Struck(k, g)' <=> Struck(k, g)
    BY <1>2, <2>5 DEF Struck
  <2>7. \A k, g : Copying(k, g)' <=> Copying(k, g)
    BY <1>0 DEF Copying
  <2>8. ASSUME NEW k \in alive, NEW g \in map[leader][k] PROVE Noted(k, g)'
    <3>1. Noted(k, g)
      BY <1>0, <2>8 DEF Whole, Agreed, Mapped
    <3> QED BY <1>0, <2>6, <2>7, <3>1 DEF Noted
  <2>9. map[leader][n] \subseteq held[n]
    <3> SUFFICES ASSUME NEW g \in map[leader][n] PROVE g \in held[n]
      OBVIOUS
    <3>1. Noted(n, g) /\ g \in File
      BY <1>0 DEF Whole, Agreed, Mapped, TInv, ThreadsT, GroupT
    <3>2. ~Struck(n, g)
      <4>1. ASSUME Struck(n, g) PROVE FALSE
        <5>1. Deleting(call[Server].file) /\ call[Server].file = g
          BY <2>5, <4>1, DeleteCallFacts DEF Struck
        <5> QED BY <1>1, <3>1, <5>1
      <4> QED BY <4>1
    <3> QED BY <1>0, <3>1, <3>2 DEF Noted, Copying
  <2>10. \A g \in File : (Busy(g)' <=> Busy(g)) /\ ~Deleting(g)'
    BY <1>0, <1>1, <2>7 DEF Busy, Deleting, Todo
  <2>11. \A g \in File, k \in alive : ~Copying(k, g)'
    BY <1>1, <2>7
  <2>12. \A g \in File : Busy(g)' => \E k \in alive : g \in map[leader][k]
    BY <1>0, <2>10 DEF Whole, Agreed, Mapped
  <2> QED BY <1>0, <2>1, <2>2, <2>4, <2>8, <2>9, <2>10, <2>11, <2>12 DEF Mapped, Led
<1> QED BY <1>0, <1>4, <1>5, <1>6, <1>7, <1>8, <1>9 DEF Agreed

LEMMA ObeyDeleteAgreed ==
  ASSUME Whole, NEW n \in Node, Obey(n), NEW t \in Thread, call[t].state = "sent", call[t].to = n,
         call[t].do = "delete", DoDelete(n, t), mishaps' = {}
  PROVE  Agreed'
<1> PICK f : f = call[t].file
  OBVIOUS
<1> PICK c : c = [call[t] EXCEPT !.state = "done"]
  OBVIOUS
<1>0. /\ UNCHANGED <<alive, members, reported, leader, got, user, fetches, mail, map, job, service>>
      /\ n \in alive /\ Led /\ call' = [call EXCEPT ![t] = c]
      /\ held' = [held EXCEPT ![n] = held[n] \ {f}]
      /\ disk' = [disk EXCEPT ![n][f] = Absent]
      /\ f \in held[n] /\ ~Moving(f)
  BY CommandObeyed DEF DoDelete, Done
<1>1. /\ t = Server /\ Head(job[t]) = DeleteTask(n, f) /\ Deleting(f) /\ ~Busy(f) /\ ~Gathering
      /\ call[t] \in DeleteCalls
  BY DeleteCallFacts
<1>2. /\ c.do = "delete" /\ c.state = "done" /\ c.to = n /\ c.file = f
      /\ call'[t] = c /\ \A r \in Thread \ {t} : call'[r] = call[r]
  BY <1>0, <1>1 DEF Whole, TInv, ThreadsT, DeleteCalls
<1>3. /\ held \in [Node -> SUBSET File] /\ disk \in [Node -> [File -> Content \cup {Absent}]]
      /\ alive \subseteq Node /\ f \in File /\ map \in [Node -> [Node -> SUBSET File]] /\ leader \in Node
  BY <1>1 DEF Whole, TInv, FilesT, GroupT, DeleteCalls, ThreadsT
<1>4. \A k \in alive, g \in File :
        /\ g \in held'[k] <=> g \in held[k] /\ ~(k = n /\ g = f)
        /\ k = n /\ g = f => disk'[k][g] = Absent
        /\ ~(k = n /\ g = f) => disk'[k][g] = disk[k][g]
  BY <1>0, <1>3
<1>5. \A k \in alive : held'[k] \subseteq held[k] /\ held'[k] \subseteq File
  BY <1>0, <1>3
<1>6. \A r \in Thread : Orders(r)'
  <2>1. Orders(t)'
    <3>1. /\ Proper(job[t], t[2]) /\ (~Runs(t) => job[t] = << >> /\ call[t] = NoCall)
          /\ job[t] # << >> /\ call[t] # NoCall
      BY CommandsOfLeader DEF Whole, Agreed, Orders, NoCall
    <3>2. Fits(c, DeleteTask(n, f)) /\ f \notin held'[n]
      BY <1>0, <1>2, <1>3 DEF Fits
    <3> QED BY <1>0, <1>1, <1>2, <3>1, <3>2 DEF Orders, Proper, Runs, Fits
  <2> QED BY <1>0, <1>5, <2>1, OthersOrders
<1>7. (\A k \in alive : Sending(k))'
  BY <1>0, <1>2 DEF Whole, Agreed, Sending, Runs
<1>8. Fetching'
  <2>1. ASSUME NEW x \in fetches
        PROVE  /\ x.from \in alive /\ x.to \in alive /\ x.content \in Node
               /\ x.file \notin held'[x.to]
               /\ x.keep => \A k \in alive : x.file \in held'[k] => disk'[k][x.file] = x.content
    <3>1. /\ x.from \in alive /\ x.to \in alive /\ x.content \in Node /\ x.file \notin held[x.to]
          /\ x.keep => \A k \in alive : x.file \in held[k] => disk[k][x.file] = x.content
      BY DEF Whole, Agreed, Fetching
    <3>2. x.file \in File
      BY DEF Whole, TInv, FilesT, Fetches
    <3> QED BY <1>4, <3>1, <3>2
  <2> QED BY <1>0, <2>1 DEF Whole, Agreed, Fetching
<1>9. Stored'
  <2>1. \A k \in alive, g \in File : /\ g \in held'[k] => disk'[k][g] \in Node
                                     /\ g \notin held'[k] => disk'[k][g] = Absent
                                     /\ got[k][g] # Junk
    BY <1>4 DEF Whole, Agreed, Stored
  <2>2. \A k \in alive, j \in alive, g \in File :
          g \in held'[k] /\ g \in held'[j] => disk'[k][g] = disk'[j][g]
    BY <1>4 DEF Whole, Agreed, Stored
  <2> QED BY <1>0, <2>1, <2>2 DEF Stored
<1>10. \A k, g : Copying(k, g)' <=> Copying(k, g)
  BY <1>0 DEF Copying
<1>11. FirstCopy'
  BY <1>0, <1>4, <1>10 DEF Whole, Agreed, FirstCopy, Led
<1>12. Mailed'
  <2>1. ASSUME NEW q \in mail, q.op = "update" PROVE q.file \in held'[q.from]
    <3>1. q.file \in held[q.from] /\ q.from \in alive /\ q.file # f
      BY <1>1, <2>1 DEF Whole, Agreed, Mailed, Busy
    <3>2. q.file \in File
      BY <1>3, <3>1
    <3> QED BY <1>4, <3>1, <3>2
  <2> QED BY <1>0, <2>1 DEF Whole, Agreed, Mailed, Led
<1>13. Mourned'
  BY <1>0, Frames
<1>14. Mapped'
  <2>1. \A k : ~Replied(k)
    BY <1>1, RepliedFacts
  <2>2. Starter' = Starter /\ Starter \in Thread \ {t} /\ Server' = t
    BY <1>0, <1>1, LeadersThreads DEF Whole, TInv, Starter, Server
  <2>3. \A k : ~Replied(k)'
    BY <1>2, <2>1, <2>2 DEF Replied
  <2>4. ASSUME NEW k \in alive, NEW g \in held'[k] PROVE Covered(k, g)'
    <3>1. Covered(k, g)
      BY <1>0, <1>5, <2>4 DEF Whole, Agreed, Mapped
    <3>2. Todo(Starter, ListTask(k))' <=> Todo(Starter, ListTask(k))
      BY <1>0, <2>2 DEF Todo
    <3>3. Told(k, g)' <=> Told(k, g)
      BY <1>0 DEF Told
    <3> QED BY <1>0, <2>1, <2>3, <3>1, <3>2, <3>3 DEF Covered
  <2>5. ASSUME NEW k \in alive, NEW g \in map[leader][k] PROVE Noted(k, g)'
    <3>1. Noted(k, g) /\ g \in File
      BY <1>0, <1>3, <2>5 DEF Whole, Agreed, Mapped
    <3>2. ~Struck(k, g)
      BY <1>1 DEF Struck
    <3>3. CASE k = n /\ g = f
      BY <1>2, <2>2, <3>3 DEF Noted, Struck
    <3>4. CASE ~(k = n /\ g = f)
      BY <1>4, <1>10, <3>1, <3>2, <3>4 DEF Noted
    <3> QED BY <3>3, <3>4
  <2>6. \A g \in File : (Busy(g)' <=> Busy(g)) /\ (Deleting(g)' <=> Deleting(g))
    BY <1>0, <1>10 DEF Busy, Deleting, Todo
  <2>7. ~Gathering'
    BY <1>0, <1>1, <2>2 DEF Gathering
  <2> QED BY <1>0, <2>3, <2>4, <2>5, <2>6, <2>7 DEF Whole, Agreed, Mapped, Led
<1> QED BY <1>0, <1>6, <1>7, <1>8, <1>9, <1>11, <1>12, <1>13, <1>14 DEF Agreed

\* A service thread waits for nothing once its leader has crashed.
LEMMA LeadersGone ==
  ASSUME Whole, ~Led
  PROVE  /\ Dead \subseteq {leader} /\ fetches = {} /\ mail = {} /\ \A n \in alive : service[n] = Idle
         /\ \A t \in Thread : call[t] = NoCall
<1>1. \A t \in Thread : call[t] = NoCall
  BY CommandsOfLeader
<1> QED BY <1>1 DEF Whole, Agreed, Mourned, Mailed

LEMMA ObeyReplicateAgreed ==
  ASSUME Whole, NEW n \in Node, Obey(n), NEW t \in Thread, call[t].state = "sent", call[t].to = n,
         call[t].do = "replicate", DoReplicate(n, t)
  PROVE  Agreed'
<1> PICK c : c = [call[t] EXCEPT !.state = "taken"]
  OBVIOUS
<1> PICK s : s = [state |-> "sending", by |-> t, file |-> call[t].file,
                  targets |-> call[t].targets, keep |-> call[t].keep]
  OBVIOUS
<1>0. /\ UNCHANGED <<alive, members, reported, leader, got, user, fetches, mail, map, job,
                     held, disk>>
      /\ n \in alive /\ Led /\ service[n] = Idle
      /\ call' = [call EXCEPT ![t] = c] /\ service' = [service EXCEPT ![n] = s]
  BY CommandObeyed DEF DoReplicate
<1>1. /\ call[t] # NoCall /\ call[t] \in ReplicateCalls /\ job[t] # << >> /\ Fits(call[t], Head(job[t]))
  <2>1. call[t] # NoCall
    BY DEF NoCall
  <2> QED BY <2>1, CommandsOfLeader, CallFields
<1>2. /\ c.do = "replicate" /\ c.state = "taken" /\ c.to = n /\ c.file = call[t].file
      /\ c.keep = call[t].keep
      /\ call'[t] = c /\ \A r \in Thread \ {t} : call'[r] = call[r]
  BY <1>0, <1>1 DEF Whole, TInv, ThreadsT, ReplicateCalls
<1>3. service'[n] = s /\ \A k \in alive \ {n} : service'[k] = service[k]
  BY <1>0 DEF Whole, TInv, ThreadsT, GroupT
<1>4. Orders(t)'
  <2>1. /\ Proper(job[t], t[2]) /\ (~Runs(t) => job[t] = << >> /\ call[t] = NoCall)
    BY DEF Whole, Agreed, Orders
  <2>2. Fits(c, Head(job[t])) /\ c.do # "delete"
    BY <1>1, <1>2 DEF Fits
  <2> QED BY <1>0, <1>1, <1>2, <2>1, <2>2 DEF Orders, Proper, Runs, Fits
<1>5. \A r \in Thread : Orders(r)'
  BY <1>0, <1>4, OthersOrders
<1>6. ASSUME NEW k \in alive PROVE Sending(k)'
  <2>1. CASE k = n
    <3>1. Runs(t)
      BY <1>1 DEF Whole, Agreed, Orders
    <3>2. s.by = t /\ s.file = call[t].file /\ s.keep = call[t].keep
      OBVIOUS
    <3>3. /\ service'[k].by = t /\ service'[k].file = call[t].file /\ service'[k].keep = call[t].keep
          /\ call'[t] = c /\ NodeOf(t) \in alive'
      BY <1>0, <1>2, <1>3, <2>1, <3>1, <3>2 DEF Runs
    <3>4. /\ service'[k].by \in Thread /\ NodeOf(service'[k].by) \in alive'
          /\ call'[service'[k].by] = c
      BY <3>3
    <3>5. c.to = k
      BY <1>2, <2>1
    <3> QED BY <1>2, <3>3, <3>4, <3>5 DEF Sending, Runs
  <2>2. CASE k # n
    <3>1. service'[k] = service[k] /\ Sending(k)
      BY <1>3, <2>2 DEF Whole, Agreed
    <3>2. service[k].state = "sending" => service[k].by \in Thread \ {t}
      BY <3>1 DEF Sending
    <3> QED BY <1>0, <1>2, <3>1, <3>2 DEF Sending, Runs
  <2> QED BY <2>1, <2>2
<1>7. Fetching' /\ Stored'
  BY <1>0, Frames
<1>8. Mourned'
  BY <1>0 DEF Whole, Agreed, Mourned, Dead, Led, Repairer
<1>9. FirstCopy'
  BY <1>0, FirstCopyStays DEF Copying
<1>10. Mailed'
  BY <1>0 DEF Whole, Agreed, Mailed, Led
<1>11. Mapped'
  <2>1. {Server, Starter} \subseteq Thread /\ Server' = Server /\ Starter' = Starter
    BY <1>0, LeadersThreads DEF Whole, TInv, Server, Starter
  <2>2. \A k : Replied(k) <=> Replied(k)'
    <3>1. call[Starter] = call'[Starter] \/ (Starter = t /\ call'[t].do # "list" /\ call[t].do # "list")
      BY <1>2, <2>1
    <3> QED BY <2>1, <3>1 DEF Replied
  <2>3. \A k : Replied(k) => UNCHANGED Names
    <3>1. \A k : Replied(k) => Starter # t
      BY DEF Replied
    <3> QED BY <1>2, <2>1, <3>1 DEF Names
  <2>4. \A k, g : Struck(k, g) => Struck(k, g)'
    <3>1. \A k, g : Struck(k, g) => Server # t
      BY DEF Struck
    <3> QED BY <1>2, <2>1, <3>1 DEF Struck
  <2>5. \A k \in alive, g \in File : /\ Told(k, g) => Told(k, g)'
                                     /\ Copying(k, g)' <=> Copying(k, g)
                                     /\ Todo(Starter, ListTask(k)) => Todo(Starter, ListTask(k))'
    BY <1>0, <2>1 DEF Told, Copying, Todo
  <2>6. \A g \in File : (Busy(g)' <=> Busy(g)) /\ (Deleting(g)' <=> Deleting(g))
    BY <1>0 DEF Busy, Deleting, Todo, Copying
  <2>7. Gathering' => Gathering
    BY <1>0 DEF Gathering
  <2>8. \A g \in File : Deleting(g) => ~Busy(g) /\ ~Gathering
    BY <1>0 DEF Whole, Agreed, Mapped
  <2>9. \A k \in alive : Todo(Starter, ListTask(k)) => Todo(Starter, ListTask(k))'
    BY <1>0, <2>1 DEF Todo
  <2> QED BY <1>0, <2>2, <2>3, <2>4, <2>5, <2>6, <2>7, <2>8, <2>9, MappedStays
<1> QED BY <1>0, <1>5, <1>6, <1>7, <1>8, <1>9, <1>10, <1>11 DEF Agreed

LEMMA ObeyAgreed == ASSUME Whole, NEW n \in Node, Obey(n), mishaps' = {} PROVE Agreed'
BY CommandObeyed, ObeyListAgreed, ObeyDeleteAgreed, ObeyReplicateAgreed

\* Who sends was told to by the leader, and the target it asks is another node.
LEMMA AnnounceFacts ==
  ASSUME Whole, NEW n \in Node, Announce(n), "hasty" \notin mishaps', "overlap" \notin mishaps'
  PROVE  /\ UNCHANGED <<alive, members, reported, leader, held, disk, got, user, mail, map, job>>
         /\ n \in alive /\ service[n] \in Sends /\ Led
         /\ call[service[n].by] \in ReplicateCalls /\ call[service[n].by].state = "taken"
         /\ call[service[n].by].to = n /\ call[service[n].by].file = service[n].file
         /\ call[service[n].by].keep = service[n].keep
         /\ \/ UNCHANGED fetches
            \/ \E k \in alive :
                 /\ service[n].file \notin held[k] /\ service[n].file \in held[n]
                 /\ \A x \in fetches : ~(x.file = service[n].file /\ x.to = k)
                 /\ fetches' = fetches \cup {Fetch(service[n].file, n, k, service[n].keep,
                                                   disk[n][service[n].file])}
         /\ \/ /\ service' = [service EXCEPT ![n] = Idle]
               /\ call' = [call EXCEPT ![service[n].by] =
                             [call[service[n].by] EXCEPT !.state = "done"]]
            \/ /\ \E T : service' = [service EXCEPT ![n] = [service[n] EXCEPT !.targets = T]]
               /\ UNCHANGED call
<1> PICK s : s = service[n]
  OBVIOUS
<1> PICK k : k = Lowest(s.targets)
  OBVIOUS
<1>1. n \in alive /\ s.state = "sending" /\ Free(k)
  BY DEF Announce
<1>2. s \in Sends
  BY <1>1, ServiceFields DEF Whole, TInv
<1>3. /\ s.by \in Thread /\ call[s.by].do = "replicate" /\ call[s.by].state = "taken"
      /\ call[s.by].to = n /\ call[s.by].file = s.file /\ call[s.by].keep = s.keep
  BY <1>1 DEF Whole, Agreed, Sending
<1>4. call[s.by] \in ReplicateCalls /\ call[s.by] # NoCall
  BY <1>3, CallFields DEF Whole, TInv, ThreadsT, NoCall
<1>5. Led
  BY <1>3, <1>4, CommandsOfLeader
<1>6. \/ UNCHANGED fetches
      \/ /\ s.file \notin held[k] /\ s.file \in held[n]
         /\ \A x \in fetches : ~(x.file = s.file /\ x.to = k)
         /\ fetches' = fetches \cup {Fetch(s.file, n, k, s.keep, disk[n][s.file])}
  BY DEF Announce, SourceOf, SameName
<1>7. \/ /\ service' = [service EXCEPT ![n] = Idle]
         /\ call' = [call EXCEPT ![s.by] = [call[s.by] EXCEPT !.state = "done"]]
      \/ /\ service' = [service EXCEPT ![n] = [s EXCEPT !.targets = s.targets \ {k}]]
         /\ UNCHANGED call
  <2>1. CASE s.targets = {k}
    BY <1>3, <2>1 DEF Announce, Done
  <2>2. CASE s.targets # {k}
    BY <2>2 DEF Announce
  <2> QED BY <2>1, <2>2
<1>8. UNCHANGED <<alive, members, reported, leader, held, disk, got, user, mail, map, job>>
  BY DEF Announce, groupVars
<1>9. k \in alive
  BY <1>1 DEF Free
<1> QED BY <1>1, <1>2, <1>3, <1>4, <1>5, <1>6, <1>7, <1>8, <1>9

LEMMA AnnounceAgreed == ASSUME Whole, NEW n \in Node, Announce(n), mishaps' = {} PROVE Agreed'
<1> PICK t \in Thread : t = service[n].by
  BY AnnounceFacts DEF Sends
<1> PICK f \in File : f = service[n].file
  BY AnnounceFacts DEF Sends
<1> PICK c : c = [call[t] EXCEPT !.state = "done"]
  OBVIOUS
<1>0. /\ UNCHANGED <<alive, members, reported, leader, held, disk, got, user, mail, map, job>>
      /\ n \in alive /\ service[n] \in Sends /\ Led
      /\ call[t] \in ReplicateCalls /\ call[t].state = "taken" /\ call[t].to = n
      /\ call[t].file = f /\ call[t].keep = service[n].keep
      /\ \/ UNCHANGED fetches
         \/ \E k \in alive :
              /\ f \notin held[k] /\ f \in held[n]
              /\ \A x \in fetches : ~(x.file = f /\ x.to = k)
              /\ fetches' = fetches \cup {Fetch(f, n, k, service[n].keep, disk[n][f])}
      /\ \/ /\ service' = [service EXCEPT ![n] = Idle]
            /\ call' = [call EXCEPT ![t] = c]
         \/ /\ \E T : service' = [service EXCEPT ![n] = [service[n] EXCEPT !.targets = T]]
            /\ UNCHANGED call
  BY AnnounceFacts
<1>1. /\ call[t].do = "replicate" /\ call[t] # NoCall
      /\ c.do = "replicate" /\ c.state = "done" /\ c.to = n /\ c.file = f
      /\ c.keep = service[n].keep
  BY <1>0 DEF ReplicateCalls, NoCall
<1>2. /\ call'[t] \in {call[t], c} /\ \A r \in Thread \ {t} : call'[r] = call[r]
      /\ \A k \in alive \ {n} : service'[k] = service[k]
  BY <1>0 DEF Whole, TInv, ThreadsT, GroupT
<1>3. \A r \in Thread : Orders(r)'
  <2>1. CASE UNCHANGED call
    BY <1>0, <2>1, Frames
  <2>2. CASE call' = [call EXCEPT ![t] = c]
    <3>1. call'[t] = c
      BY <2>2 DEF Whole, TInv, ThreadsT
    <3>2. /\ Proper(job[t], t[2]) /\ (~Runs(t) => job[t] = << >> /\ call[t] = NoCall)
          /\ job[t] # << >> /\ Fits(call[t], Head(job[t]))
      BY <1>1 DEF Whole, Agreed, Orders
    <3>3. Fits(c, Head(job[t]))
      BY <1>0, <1>1, <3>2 DEF Fits
    <3>4. Orders(t)'
      <4>1. Proper(job[t], t[2])' /\ Runs(t)' /\ job'[t] = job[t]
        <5>1. UNCHANGED <<alive, job>>
          BY <1>0
        <5>2. Runs(t)'
          BY <3>2, <5>1 DEF Runs
        <5>3. Proper(job[t], t[2])'
          BY <3>2, <5>1 DEF Proper
        <5> QED BY <5>1, <5>2, <5>3
      <4>3. ~(call'[t].do = "delete")
        BY <1>1, <3>1
      <4>4. ~Runs(t)' => job'[t] = << >> /\ call'[t] = NoCall
        BY <4>1
      <4>5. call'[t] # NoCall => job'[t] # << >> /\ Fits(call'[t], Head(job'[t]))
        BY <3>1, <3>2, <3>3, <4>1
      <4> QED BY <4>1, <4>3, <4>4, <4>5 DEF Orders
    <3> QED BY <1>0, <2>2, <3>4, OthersOrders
  <2> QED BY <1>0, <2>1, <2>2
<1>4. ASSUME NEW k \in alive PROVE Sending(k)'
  <2>1. CASE k = n
    <3>1. CASE service' = [service EXCEPT ![n] = Idle]
      BY <2>1, <3>1 DEF Sending, Idle, Whole, TInv, ThreadsT
    <3>2. CASE UNCHANGED call /\ \E T : service' = [service EXCEPT ![n] = [service[n] EXCEPT !.targets = T]]
      <4>1. PICK T : service' = [service EXCEPT ![n] = [service[n] EXCEPT !.targets = T]]
        BY <3>2
      <4>2. service'[n] = [service[n] EXCEPT !.targets = T]
        BY <4>1 DEF Whole, TInv, ThreadsT
      <4>3. /\ service'[n].by = t /\ service'[n].file = f /\ service'[n].keep = service[n].keep
            /\ Runs(t)
        BY <1>0, <1>1, <4>2 DEF Sends, Whole, Agreed, Orders
      <4> QED BY <1>0, <1>1, <2>1, <3>2, <4>3 DEF Sending, Runs
    <3> QED BY <1>0, <3>1, <3>2
  <2>2. CASE k # n
    <3>1. service'[k] = service[k] /\ Sending(k)
      BY <1>2, <2>2 DEF Whole, Agreed
    <3>2. service[k].state = "sending" => service[k].by \in Thread \ {t}
      BY <1>0, <2>2, <3>1 DEF Sending
    <3> QED BY <1>0, <1>2, <3>1, <3>2 DEF Sending, Runs
  <2> QED BY <2>1, <2>2
<1>5. fetches' # fetches => f \in held[n] /\ \A k \in alive : ~Copying(k, f)
  BY <1>0 DEF Whole, Agreed, FirstCopy
<1>6. ASSUME NEW x \in fetches', x.keep PROVE Busy(x.file) /\ (x \in fetches \/ x.file = f)
  <2>1. CASE x \in fetches
    BY <1>6, <2>1 DEF Busy
  <2>2. CASE x \notin fetches
    <3>1. x.file = f /\ x.keep = service[n].keep
      BY <1>0, <2>2 DEF Fetch
    <3> QED BY <1>0, <1>1, <1>6, <3>1, ReplicateCallFacts
  <2> QED BY <2>1, <2>2
<1>7. Fetching'
  <2>1. CASE UNCHANGED fetches
    BY <1>0, <2>1, Frames
  <2>2. CASE fetches' # fetches
    <3>1. PICK k \in alive :
            /\ f \notin held[k] /\ f \in held[n]
            /\ \A x \in fetches : ~(x.file = f /\ x.to = k)
            /\ fetches' = fetches \cup {Fetch(f, n, k, service[n].keep, disk[n][f])}
      BY <1>0, <2>2
    <3> PICK y : y = Fetch(f, n, k, service[n].keep, disk[n][f])
      OBVIOUS
    <3>2. y.file = f /\ y.from = n /\ y.to = k /\ y.content = disk[n][f]
      BY DEF Fetch
    <3>3. disk[n][f] \in Node /\ \A j \in alive : f \in held[j] => disk[j][f] = disk[n][f]
      BY <1>0, <3>1 DEF Whole, Agreed, Stored
    <3>4. \A x \in fetches : x.keep /\ x.file = f => x.content = disk[n][f]
      BY <1>0, <3>1 DEF Whole, Agreed, Fetching
    <3>5. \A x \in fetches' : x \in fetches \/ x = y
      BY <3>1
    <3>6. ASSUME NEW x \in fetches'
          PROVE  /\ x.from \in alive /\ x.to \in alive /\ x.content \in Node /\ x.file \notin held[x.to]
                 /\ x.keep => \A j \in alive : x.file \in held[j] => disk[j][x.file] = x.content
      <4>1. CASE x \in fetches
        BY <4>1 DEF Whole, Agreed, Fetching
      <4>2. CASE x = y
        <5>1. x.from \in alive /\ x.to \in alive /\ x.content \in Node /\ x.file \notin held[x.to]
          BY <1>0, <3>1, <3>2, <3>3, <4>2
        <5>2. \A j \in alive : x.file \in held[j] => disk[j][x.file] = x.content
          BY <3>2, <3>3, <4>2
        <5> QED BY <5>1, <5>2
      <4> QED BY <3>5, <4>1, <4>2
    <3>7. ASSUME NEW x \in fetches', NEW z \in fetches', z.file = x.file
          PROVE  /\ z.to = x.to => x = z
                 /\ x.keep /\ z.keep => x.content = z.content
      <4>1. CASE x \in fetches /\ z \in fetches
        BY <3>7, <4>1 DEF Whole, Agreed, Fetching
      <4>2. CASE x = y \/ z = y
        BY <3>1, <3>2, <3>4, <3>5, <3>7, <4>2
      <4> QED BY <3>5, <4>1, <4>2
    <3> QED BY <1>0, <3>6, <3>7 DEF Fetching
  <2> QED BY <2>1, <2>2
<1>8. Stored'
  BY <1>0, Frames
<1>9. Mourned'
  BY <1>0 DEF Whole, Agreed, Mourned, Dead, Led, Repairer
<1>10. FirstCopy'
  <2>1. ASSUME NEW k \in alive, NEW g \in File, Copying(k, g)
        PROVE  /\ Led /\ g \in map[leader][k]
               /\ \A j \in alive : g \notin held[j] /\ (Copying(j, g) => j = k)
               /\ \A x \in fetches' : ~(x.file = g /\ x.keep)
    BY <1>5, <1>6, <2>1 DEF Whole, Agreed, FirstCopy
  <2> QED BY <1>0, <2>1 DEF FirstCopy, Led, Copying
<1>11. Mailed'
  BY <1>0 DEF Whole, Agreed, Mailed, Led
<1>12. Mapped'
  <2>1. {Server, Starter} \subseteq Thread /\ Server' = Server /\ Starter' = Starter
    BY <1>0, LeadersThreads DEF Whole, TInv, Server, Starter
  <2>2. \A k : Replied(k) <=> Replied(k)'
    <3>1. call[Starter] = call'[Starter] \/ (Starter = t /\ call'[t].do # "list" /\ call[t].do # "list")
      BY <1>1, <1>2, <2>1
    <3> QED BY <2>1, <3>1 DEF Replied
  <2>3. \A k : Replied(k) => UNCHANGED Names
    <3>1. \A k : Replied(k) => Starter # t
      BY <1>1 DEF Replied
    <3> QED BY <1>2, <2>1, <3>1 DEF Names
  <2>4. \A k, g : Struck(k, g) => Struck(k, g)'
    <3>1. \A k, g : Struck(k, g) => Server # t
      BY <1>1 DEF Struck
    <3> QED BY <1>2, <2>1, <3>1 DEF Struck
  <2>5. \A k \in alive, g \in File : /\ Told(k, g) => Told(k, g)'
                                     /\ Copying(k, g)' <=> Copying(k, g)
                                     /\ Todo(Starter, ListTask(k)) => Todo(Starter, ListTask(k))'
    BY <1>0, <2>1 DEF Told, Copying, Todo
  <2>6. \A g \in File : (Busy(g)' => Busy(g)) /\ (Deleting(g)' <=> Deleting(g))
    BY <1>0, <1>6 DEF Busy, Deleting, Todo, Copying
  <2>7. Gathering' => Gathering
    BY <1>0 DEF Gathering
  <2>8. \A g \in File : Deleting(g) => ~Busy(g) /\ ~Gathering
    BY <1>0 DEF Whole, Agreed, Mapped
  <2>9. \A k \in alive : Todo(Starter, ListTask(k)) => Todo(Starter, ListTask(k))'
    BY <1>0, <2>1 DEF Todo
  <2> QED BY <1>0, <2>2, <2>3, <2>4, <2>5, <2>6, <2>7, <2>8, <2>9, MappedStays
<1> QED BY <1>0, <1>3, <1>4, <1>7, <1>8, <1>9, <1>10, <1>11, <1>12 DEF Agreed

-----------------------------------------------------------------------------
(* Nodes that go, and what is known of them *)

\* When nothing is under way the map says what the nodes that run hold.
LEMMA AtRest ==
  ASSUME Whole, Quiet
  PROVE  /\ Led /\ Dead = {} /\ mail = {} /\ fetches = {}
         /\ \A n \in alive : user[n] = Ready /\ service[n] = Idle
         /\ \A t \in Thread : job[t] = << >> /\ call[t] = NoCall
         /\ \A n \in alive : map[leader][n] = held[n]
<1>1. /\ Led /\ Dead = {} /\ mail = {} /\ fetches = {}
      /\ \A n \in alive : user[n] = Ready /\ service[n] = Idle
  BY DEF Quiet, Led, Dead
<1>2. \A t \in Thread : job[t] = << >> /\ call[t] = NoCall
  BY CommandsOfLeader DEF Quiet, Whole, Agreed, Orders, Runs
<1>3. Starter \in Thread /\ Server \in Thread
  BY LeadersThreads DEF Whole, TInv
<1>4. \A n, f : ~Told(n, f) /\ ~Struck(n, f) /\ ~Replied(n) /\ ~Todo(Starter, ListTask(n))
  BY <1>1, <1>2, <1>3 DEF Told, Struck, Replied, Todo, NoCall
<1>5. \A n \in alive : \A f : ~Copying(n, f)
  BY <1>1 DEF Copying, Ready
<1>6. \A n \in alive : \A f \in held[n] : f \in map[leader][n]
  BY <1>1, <1>4 DEF Whole, Agreed, Mapped, Covered
<1>7. \A n \in alive : \A f \in map[leader][n] : f \in held[n]
  BY <1>1, <1>4, <1>5 DEF Whole, Agreed, Mapped, Noted
<1>8. ASSUME NEW n \in alive PROVE map[leader][n] = held[n]
  BY <1>6, <1>7 DEF Whole, TInv, GroupT, FilesT, ThreadsT
<1> QED BY <1>1, <1>2, <1>8

LEMMA GoneAgreed ==
  ASSUME Whole, NEW n \in Node, Crash(n) \/ Leave(n), mishaps' = {}
  PROVE  Agreed'
<1>1. /\ Gone(n) /\ n \in alive /\ alive # {n} /\ reported' = reported
      /\ members' = members \/ (members' = members \ {n} /\ n # leader)
  BY DEF Crash, Leave
<1>2. Quiet
  BY <1>1 DEF Gone
<1>3. /\ Led /\ Dead = {} /\ mail = {} /\ fetches = {}
      /\ \A k \in alive : user[k] = Ready /\ service[k] = Idle
      /\ \A t \in Thread : job[t] = << >> /\ call[t] = NoCall
      /\ \A k \in alive : map[leader][k] = held[k]
  BY <1>2, AtRest
<1>4. PICK begun \in SUBSET {x \in fetches : x.from = n /\ x.to # n} :
         disk' = [k \in Node |-> [f \in File |->
                    IF \E x \in begun : SameName(x, f, k) THEN Junk ELSE disk[k][f]]]
  BY <1>1 DEF Gone
<1>5. alive' = alive \ {n} /\ UNCHANGED <<leader, held, got, service, map>>
  BY <1>1 DEF Gone
<1>6. fetches' = {} /\ mail' = {}
  BY <1>1, <1>3 DEF Gone
<1>7. job' = [t \in Thread |-> IF NodeOf(t) = n THEN << >> ELSE job[t]]
  BY <1>1 DEF Gone
<1>8. PICK delivered \in BOOLEAN :
        call' = [t \in Thread |-> IF NodeOf(t) = n /\ ~delivered THEN NoCall ELSE call[t]]
  BY <1>1 DEF Gone
<1>9. user' = [user EXCEPT ![n] = Ready]
  BY <1>1 DEF Gone
<1>10. \A t \in Thread : job'[t] = << >> /\ call'[t] = NoCall
  BY <1>3, <1>7, <1>8
<1>11. \A k \in Node, f \in File : disk'[k][f] = disk[k][f]
  BY <1>3, <1>4
<1>12. alive' \subseteq alive /\ alive \subseteq Node /\ leader \in Node /\ reported \cap alive = {}
  BY <1>5 DEF Whole, TInv, GroupT, IInv, AliveListed
<1>13. \A k \in alive' : user'[k] = Ready /\ service'[k] = Idle
  BY <1>3, <1>5, <1>9, <1>12 DEF Whole, TInv, UsersT
<1>14. \A k \in alive' : \A f : ~Copying(k, f)'
  BY <1>13 DEF Copying, Ready
<1>15. {Server, Starter, Repairer} \subseteq Thread /\ Server' = Server /\ Starter' = Starter
  BY <1>5, LeadersThreads DEF Whole, TInv, Server, Starter
<1>16. \A t \in Thread : \A k : ~Todo(t, k)'
  BY <1>10 DEF Todo
<1>17. \A t \in Thread : Orders(t)'
  BY <1>10 DEF Orders, Proper, NoCall
<1>18. \A k \in alive' : Sending(k)'
  BY <1>13 DEF Sending, Idle
<1>19. Fetching' /\ Mailed'
  BY <1>6 DEF Fetching, Mailed
<1>20. Stored'
  BY <1>5, <1>11, <1>12 DEF Whole, Agreed, Stored
<1>21. FirstCopy'
  BY <1>14 DEF FirstCopy
<1>22. Dead' \subseteq {n} /\ (~Led)' = (leader = n)
  BY <1>1, <1>3, <1>5 DEF Dead, Led
<1>23. Mourned'
  <2>1. \A m \in alive' : job'[<<m, "start">>] = << >> /\ job'[<<m, "repair">>] = << >>
    BY <1>10, <1>12 DEF Thread
  <2>2. n \notin reported'
    BY <1>1, <1>12
  <2> QED BY <1>5, <1>6, <1>13, <1>22, <2>1, <2>2 DEF Mourned
<1>24. Mapped'
  <2>1. \A k : ~Replied(k)'
    BY <1>10, <1>15 DEF Replied, NoCall
  <2>2. ASSUME NEW k \in alive' PROVE map'[leader'][k] = held'[k]
    BY <1>3, <1>5, <1>12
  <2>3. \A k \in alive' : \A f \in held'[k] : Covered(k, f)'
    BY <2>1, <2>2 DEF Covered
  <2>4. \A k \in alive' : \A f \in map'[leader'][k] : Noted(k, f)'
    BY <2>2 DEF Noted
  <2>5. \A f : ~Deleting(f)'
    BY <1>16 DEF Deleting
  <2>6. \A f : ~Busy(f)'
    BY <1>6, <1>14, <1>16 DEF Busy
  <2>7. ~Gathering'
    BY <1>10, <1>15 DEF Gathering, Starter
  <2> QED BY <2>1, <2>3, <2>4, <2>5, <2>6, <2>7 DEF Mapped
<1> QED BY <1>17, <1>18, <1>19, <1>20, <1>21, <1>23, <1>24 DEF Agreed

LEMMA EraseAgreed ==
  ASSUME Whole, NEW n \in Node, Erase(n)
  PROVE  Agreed'
<1>0. /\ UNCHANGED <<alive, reported, leader, held, disk, got, user, service, fetches, mail, map,
                     job, call>>
      /\ members' \subseteq members
  BY DEF Erase, nodeVars, masterVars
<1>1. /\ \A t \in Thread : Orders(t)'
      /\ (\A k \in alive : Sending(k))'
      /\ Fetching' /\ Stored'
  BY <1>0, Frames
<1>2. FirstCopy' /\ Mailed'
  BY <1>0 DEF Whole, Agreed, FirstCopy, Mailed, Led, Copying
<1>3. Mourned'
  <2>1. Dead' \subseteq Dead
    BY <1>0 DEF Dead
  <2> QED BY <1>0, <2>1 DEF Whole, Agreed, Mourned, Led, Repairer
<1>4. Mapped'
  <2>1. Starter' = Starter /\ Server' = Server
    BY <1>0 DEF Starter, Server
  <2>2. \A k \in alive : (Replied(k)' <=> Replied(k)) /\ (Replied(k) => UNCHANGED Names)
    BY <1>0, <2>1 DEF Replied, Names
  <2>3. \A k \in alive, f \in File : /\ Told(k, f) => Told(k, f)'
                                     /\ Copying(k, f)' <=> Copying(k, f)
                                     /\ Struck(k, f) => Struck(k, f)'
    BY <1>0, <2>1 DEF Told, Copying, Struck
  <2>4. \A k \in alive : Todo(Starter, ListTask(k)) => Todo(Starter, ListTask(k))'
    BY <1>0, <2>1 DEF Todo
  <2>5. \A f \in File : (Busy(f)' => Busy(f)) /\ (Deleting(f)' <=> Deleting(f))
    BY <1>0 DEF Busy, Deleting, Todo, Copying
  <2>6. (Gathering' => Gathering) /\ \A f : Deleting(f) => Led
    BY <1>0, DeletionsOfServer DEF Gathering
  <2>7. \A f \in File : Deleting(f) => ~Busy(f) /\ ~Gathering
    BY <2>6 DEF Whole, Agreed, Mapped
  <2> QED BY <1>0, <2>2, <2>3, <2>4, <2>5, <2>6, <2>7, MappedStays
<1> QED BY <1>0, <1>1, <1>2, <1>3, <1>4 DEF Agreed

LEMMA ReportAgreed ==
  ASSUME Whole, NEW n \in Node, Report(n)
  PROVE  Agreed'
<1> PICK k \in Tasks : k = RepairTask({n})
  BY DEF Tasks, Repairs
<1> PICK r : r = <<k>>
  OBVIOUS
<1> DEFINE told(t) == t[2] = "repair" /\ NodeOf(t) \in alive \cap {leader, Lowest(alive)}
<1>0. /\ UNCHANGED <<alive, members, leader, held, disk, got, user, service, fetches, mail, map, call>>
      /\ n \in members /\ n \notin alive /\ n \notin reported /\ reported' = reported \cup {n}
      /\ job' = [t \in Thread |-> IF told(t) THEN Append(job[t], k) ELSE job[t]]
  BY DEF Report, nodeVars
<1>1. k.do = "repair" /\ k.lost = {n}
  BY DEF RepairTask
<1>2. Dead = {n} /\ (\A m \in alive : job[<<m, "start">>] = << >> /\ job[<<m, "repair">>] = << >>)
  BY <1>0 DEF Whole, Agreed, Mourned, Dead
<1>3. \A t \in Thread : told(t) => job[t] = << >>
  <2>1. \A t \in Thread : t = <<t[1], t[2]>>
    BY DEF Thread
  <2> QED BY <1>2, <2>1 DEF NodeOf
<1>4. \A t \in Thread : job'[t] = IF told(t) THEN r ELSE job[t]
  <2>1. Append(<< >>, k) = r
    OBVIOUS
  <2> HIDE DEF told
  <2>2. \A t \in Thread : job'[t] = IF told(t) THEN Append(job[t], k) ELSE job[t]
    BY <1>0
  <2> QED BY <1>3, <2>1, <2>2
<1>5. /\ {Server, Starter, Repairer} \subseteq Thread
      /\ Server' = Server /\ Starter' = Starter /\ Repairer' = Repairer
      /\ ~told(Server) /\ ~told(Starter) /\ (Led => told(Repairer))
  BY <1>0, LeadersThreads DEF Whole, TInv, Server, Starter, Repairer, Led
<1>6. \A m \in alive : ~told(<<m, "start">>) /\ <<m, "start">> \in Thread
  BY DEF Whole, TInv, GroupT, Thread
<1> HIDE DEF told
<1>7. DOMAIN r = {1} /\ r[1] = k
  OBVIOUS
<1>8. ASSUME NEW t \in Thread PROVE Orders(t)'
  <2>1. CASE told(t)
    <3>1. t[2] = "repair" /\ Runs(t)
      BY <2>1 DEF told, Runs
    <3>2. Proper(job[t], t[2])'
      <4>1. \A i \in DOMAIN r : r[i].do = "repair" /\ r[i].lost = {n}
        BY <1>1, <1>7
      <4> QED BY <1>0, <1>4, <2>1, <3>1, <4>1 DEF Proper
    <3>3. call'[t] = NoCall
      BY <1>0, <1>3, <2>1 DEF Whole, Agreed, Orders
    <3> QED BY <1>0, <1>4, <2>1, <3>1, <3>2, <3>3 DEF Orders, Runs, NoCall
  <2>2. CASE ~told(t)
    BY <1>0, <1>4, <2>2 DEF Whole, Agreed, Orders, Proper, Runs, Fits
  <2> QED BY <2>1, <2>2
<1>9. (\A j \in alive : Sending(j))' /\ Fetching' /\ Stored'
  BY <1>0, Frames
<1>10. FirstCopy' /\ Mailed'
  BY <1>0 DEF Whole, Agreed, FirstCopy, Mailed, Led, Copying
<1>11. Mourned'
  <2>1. Dead' = {n} /\ reported' = reported \cup {n}
    BY <1>0, <1>2 DEF Dead
  <2>2. \A m \in alive : job'[<<m, "start">>] = << >>
    BY <1>2, <1>4, <1>6
  <2>3. Led => job'[Repairer] = r
    BY <1>4, <1>5
  <2>4. ~Led => Dead \subseteq {leader} /\ fetches = {} /\ \A j \in alive : service[j] = Idle
    BY LeadersGone
  <2> QED BY <1>0, <1>2, <1>5, <2>1, <2>2, <2>3, <2>4 DEF Mourned, Led
<1>12. Mapped'
  <2>1. \A t \in Thread : \A h : h.do # "repair" => (Todo(t, h)' <=> Todo(t, h))
    <3> SUFFICES ASSUME NEW t \in Thread, NEW h, h.do # "repair" PROVE Todo(t, h)' <=> Todo(t, h)
      OBVIOUS
    <3>1. CASE told(t)
      <4>1. job[t] = << >> /\ job'[t] = r
        BY <1>3, <1>4, <3>1
      <4>2. ~Todo(t, h)
        BY <4>1 DEF Todo
      <4>3. h # k
        BY <1>1
      <4> QED BY <1>7, <4>1, <4>2, <4>3 DEF Todo
    <3>2. CASE ~told(t)
      BY <1>4, <3>2 DEF Todo
    <3> QED BY <3>1, <3>2
  <2>2. /\ \A j : ListTask(j).do # "repair"
        /\ \A f : ReplicateTask(f).do # "repair"
        /\ \A j, f : DeleteTask(j, f).do # "repair"
    BY DEF ListTask, ReplicateTask, DeleteTask
  <2>3. \A j \in alive : (Replied(j)' <=> Replied(j)) /\ (Replied(j) => UNCHANGED Names)
    BY <1>0, <1>5 DEF Replied, Names
  <2>4. \A j \in alive, f \in File : /\ Told(j, f) => Told(j, f)'
                                     /\ Copying(j, f)' <=> Copying(j, f)
                                     /\ Struck(j, f) => Struck(j, f)'
    BY <1>0, <1>5 DEF Told, Copying, Struck
  <2>5. \A j \in alive : Todo(Starter, ListTask(j)) => Todo(Starter, ListTask(j))'
    <3> PICK s \in Thread : s = Starter
      BY <1>5
    <3>1. \A j : Todo(s, ListTask(j)) => Todo(s, ListTask(j))'
      BY <2>1, <2>2
    <3> QED BY <1>5, <3>1 DEF Todo
  <2>6. \A f \in File : (Busy(f)' => Busy(f)) /\ (Deleting(f)' <=> Deleting(f))
    BY <1>0, <2>1, <2>2, <2>4 DEF Busy, Deleting
  <2>7. (Gathering' => Gathering) /\ \A f : Deleting(f) => Led
    BY <1>0, <1>4, <1>5, DeletionsOfServer DEF Gathering, Starter
  <2>8. \A f \in File : Deleting(f) => ~Busy(f) /\ ~Gathering
    BY <2>7 DEF Whole, Agreed, Mapped
  <2> QED BY <1>0, <2>3, <2>4, <2>5, <2>6, <2>7, <2>8, MappedStays
<1> QED BY <1>0, <1>8, <1>9, <1>10, <1>11, <1>12 DEF Agreed

-----------------------------------------------------------------------------
(* Threads of the master that send commands *)

\* A thread that has something else to do than a repair does not change what is
\* done about a node that crashed.
LEMMA MournedWorks ==
  ASSUME Whole, UNCHANGED <<alive, members, reported, leader>>,
         NEW t \in Thread, job[t] # << >>, Head(job[t]).do # "repair", Led,
         NEW e, job' = [job EXCEPT ![t] = e],
         \A x \in Dead : map'[leader][x] \subseteq map[leader][x]
  PROVE  Mourned'
<1>1. Dead' = Dead /\ Led' /\ Repairer' = Repairer
  BY DEF Dead, Led, Repairer
<1>2. \A r \in Thread \ {t} : job'[r] = job[r]
  BY DEF Whole, TInv, ThreadsT
<1>3. \A m \in alive : <<m, "start">> \in Thread /\ <<m, "repair">> \in Thread
  BY DEF Whole, TInv, GroupT, Thread
<1>4. Dead # {} => \A m \in alive : job'[<<m, "start">>] = << >>
  BY <1>2, <1>3 DEF Whole, Agreed, Mourned
<1>5. \A x \in Dead : x \notin reported => \A m \in alive : job'[<<m, "repair">>] = << >>
  BY <1>2, <1>3 DEF Whole, Agreed, Mourned
<1>6. ASSUME NEW x \in Dead, x \in reported
      PROVE  map'[leader][x] = {} \/ job'[Repairer] = <<RepairTask({x})>>
  <2>1. CASE map[leader][x] = {}
    BY <2>1
  <2>2. CASE job[Repairer] = <<RepairTask({x})>>
    <3>1. Head(job[Repairer]).do = "repair"
      BY <2>2 DEF RepairTask
    <3>2. Repairer \in Thread \ {t}
      BY <3>1, LeadersThreads DEF Whole, TInv
    <3> QED BY <1>2, <2>2, <3>2
  <2> QED BY <1>6, <2>1, <2>2 DEF Whole, Agreed, Mourned
<1>7. \A x, y \in Dead : x = y
  BY DEF Whole, Agreed, Mourned
<1> QED BY <1>1, <1>4, <1>5, <1>6, <1>7 DEF Mourned

\* A command is sent.
LEMMA SentAgreed ==
  ASSUME Whole, UNCHANGED <<alive, members, reported, leader, nodeVars, mail, map, job>>,
         NEW t \in Thread, Runs(t), call[t] = NoCall, job[t] # << >>,
         NEW c, call' = [call EXCEPT ![t] = c], c.state = "sent", Fits(c, Head(job[t]))
  PROVE  Agreed'
<1>0. UNCHANGED <<alive, members, reported, leader, held, disk, got, user, service, fetches, mail,
                  map, job>>
  BY DEF nodeVars
<1>1. call'[t] = c /\ \A r \in Thread \ {t} : call'[r] = call[r]
  BY DEF Whole, TInv, ThreadsT
<1>2. Orders(t)'
  <2>1. Proper(job[t], t[2])
    BY DEF Whole, Agreed, Orders
  <2> QED BY <1>0, <1>1, <2>1 DEF Orders, Proper, Runs, Fits
<1>3. \A r \in Thread : Orders(r)'
  BY <1>0, <1>2, OthersOrders
<1>4. (\A k \in alive : Sending(k))'
  BY <1>0, <1>1 DEF Whole, Agreed, Sending, Runs, NoCall
<1>5. Fetching' /\ Stored' /\ Mourned'
  BY <1>0, Frames
<1>6. FirstCopy' /\ Mailed'
  BY <1>0 DEF Whole, Agreed, FirstCopy, Mailed, Led, Copying
<1>7. Mapped'
  <2>1. {Server, Starter} \subseteq Thread /\ Server' = Server /\ Starter' = Starter
    BY <1>0, LeadersThreads DEF Whole, TInv, Server, Starter
  <2>2. \A k : (Replied(k) <=> Replied(k)') /\ (Replied(k) => UNCHANGED Names)
    BY <1>1, <2>1 DEF Replied, Names, NoCall
  <2>3. \A k, g : Struck(k, g) => Struck(k, g)'
    BY <1>1, <2>1 DEF Struck, NoCall
  <2>4. \A k \in alive, g \in File : /\ Told(k, g) => Told(k, g)'
                                     /\ Copying(k, g)' <=> Copying(k, g)
    BY <1>0 DEF Told, Copying
  <2>5. \A k \in alive : Todo(Starter, ListTask(k)) => Todo(Starter, ListTask(k))'
    BY <1>0, <2>1 DEF Todo
  <2>6. \A g \in File : (Busy(g)' => Busy(g)) /\ (Deleting(g)' <=> Deleting(g))
    BY <1>0 DEF Busy, Deleting, Todo, Copying
  <2>7. (Gathering' => Gathering) /\ \A g : Deleting(g) => Led
    BY <1>0, DeletionsOfServer DEF Gathering
  <2>8. \A g \in File : Deleting(g) => ~Busy(g) /\ ~Gathering
    BY <2>7 DEF Whole, Agreed, Mapped
  <2> QED BY <1>0, <2>2, <2>3, <2>4, <2>5, <2>6, <2>7, <2>8, MappedStays
<1> QED BY <1>0, <1>3, <1>4, <1>5, <1>6, <1>7 DEF Agreed

\* What a thread had to do it drops, but no list.
LEMMA JobAgreed ==
  ASSUME Whole, UNCHANGED <<alive, members, reported, leader, nodeVars, mail, map, call>>,
         NEW t \in Thread, call[t] = NoCall, job[t] # << >>, Head(job[t]).do = "replicate",
         NEW e \in Seq(Tasks), job' = [job EXCEPT ![t] = e], Proper(e, t[2]),
         \A k : k.do \in {"replicate", "delete"} /\ Within(e, k) => Within(job[t], k)
  PROVE  Agreed'
<1>0. UNCHANGED <<alive, members, reported, leader, held, disk, got, user, service, fetches, mail,
                  map, call>>
  BY DEF nodeVars
<1>1. job'[t] = e /\ \A r \in Thread \ {t} : job'[r] = job[r]
  BY DEF Whole, TInv, ThreadsT
<1>2. /\ job[t] \in Seq(Tasks) /\ Proper(job[t], t[2]) /\ Runs(t) /\ Led
      /\ \A k : k.do = "list" => ~Within(job[t], k)
  <2>1. job[t] \in Seq(Tasks) /\ Proper(job[t], t[2]) /\ Runs(t)
    BY DEF Whole, TInv, ThreadsT, Agreed, Orders
  <2>2. Within(job[t], Head(job[t]))
    BY <2>1, TailWithin
  <2>3. Todo(t, Head(job[t]))
    BY <2>2 DEF Within, Todo
  <2>4. Led
    BY <2>3, JobsOfLeader
  <2>5. \A i \in DOMAIN job[t] : job[t][i].do # "list"
    BY <2>1, ListsFirst
  <2> QED BY <2>1, <2>4, <2>5 DEF Within
<1>3. \A r \in Thread : \A k : k.do \in {"replicate", "delete"} /\ Todo(r, k)' => Todo(r, k)
  <2>1. \A r \in Thread : \A k : Todo(r, k) <=> Within(job[r], k)
    BY DEF Todo, Within
  <2>2. \A r \in Thread : \A k : Todo(r, k)' <=> Within(job'[r], k)
    BY DEF Todo, Within
  <2> QED BY <1>1, <2>1, <2>2
<1>4. ASSUME NEW r \in Thread PROVE Orders(r)'
  <2>1. CASE r = t
    <3>1. Proper(job[r], r[2])'
      BY <1>0, <1>1, <2>1 DEF Proper
    <3> QED BY <1>0, <1>2, <2>1, <3>1 DEF Orders, Runs, NoCall
  <2>2. CASE r # t
    BY <1>0, <1>1, <2>2 DEF Whole, Agreed, Orders, Proper, Runs, Fits
  <2> QED BY <2>1, <2>2
<1>5. (\A k \in alive : Sending(k))' /\ Fetching' /\ Stored'
  BY <1>0, Frames
<1>6. FirstCopy' /\ Mailed'
  BY <1>0 DEF Whole, Agreed, FirstCopy, Mailed, Led, Copying
<1>7. Mourned'
  BY <1>0, <1>2, MournedWorks
<1>8. Mapped'
  <2>1. {Server, Starter} \subseteq Thread /\ Server' = Server /\ Starter' = Starter
    BY <1>0, LeadersThreads DEF Whole, TInv, Server, Starter
  <2>2. \A k : (Replied(k) <=> Replied(k)') /\ (Replied(k) => UNCHANGED Names)
    BY <1>0, <2>1 DEF Replied, Names
  <2>3. \A k \in alive, g \in File : /\ Told(k, g) => Told(k, g)'
                                     /\ Copying(k, g)' <=> Copying(k, g)
                                     /\ Struck(k, g) => Struck(k, g)'
    BY <1>0, <2>1 DEF Told, Copying, Struck
  <2>4. /\ \A k : ListTask(k).do = "list"
        /\ \A g : ReplicateTask(g).do = "replicate"
        /\ \A k, g : DeleteTask(k, g).do = "delete"
    BY DEF ListTask, ReplicateTask, DeleteTask
  <2>5. \A k \in alive : Todo(Starter, ListTask(k)) => Todo(Starter, ListTask(k))'
    <3>1. CASE Starter = t
      BY <1>2, <2>4, <3>1 DEF Todo, Within
    <3>2. CASE Starter # t
      BY <1>1, <2>1, <3>2 DEF Todo
    <3> QED BY <3>1, <3>2
  <2>6. \A g \in File : (Busy(g)' => Busy(g)) /\ (Deleting(g)' => Deleting(g))
    BY <1>0, <1>3, <2>3, <2>4 DEF Busy, Deleting
  <2>7. Gathering' => Gathering
    BY <1>1, <2>1 DEF Gathering, Starter
  <2>8. \A g \in File : Deleting(g) => ~Busy(g) /\ ~Gathering
    BY <1>2 DEF Whole, Agreed, Mapped
  <2> QED BY <1>0, <2>2, <2>3, <2>5, <2>6, <2>7, <2>8, MappedStays
<1> QED BY <1>0, <1>4, <1>5, <1>6, <1>7, <1>8 DEF Agreed

LEMMA ReplicateAgreed ==
  ASSUME Whole, NEW t \in Thread, Work(t), Head(job[t]).do = "replicate", Replicate(t)
  PROVE  Agreed'
<1> PICK f : f = Head(job[t]).file
  OBVIOUS
<1> PICK m : m = NodeOf(t)
  OBVIOUS
<1>0. /\ UNCHANGED <<alive, members, reported, leader, nodeVars, mail, map>>
      /\ Runs(t) /\ call[t] = NoCall /\ job[t] # << >>
  BY DEF Work, Replicate, Runs, groupVars
<1>1. job[t] \in Seq(Tasks) /\ Proper(job[t], t[2]) /\ m \in Node
  BY KindsOf DEF Whole, TInv, ThreadsT, Agreed, Orders
<1>2. f \in File /\ Head(job[t]) = ReplicateTask(f)
  <2>1. Head(job[t]) \in Tasks
    BY <1>0, <1>1, TailWithin
  <2>2. PICK g \in File : Head(job[t]) = ReplicateTask(g)
    BY <2>1, TaskFields
  <2> QED BY <2>2 DEF ReplicateTask
<1>3. CASE job' = Rest(t) /\ UNCHANGED call
  <2>1. /\ Tail(job[t]) \in Seq(Tasks) /\ Proper(Tail(job[t]), t[2])
        /\ \A k : Within(Tail(job[t]), k) => Within(job[t], k)
    BY <1>0, <1>1, TailWithin, ProperTail
  <2>2. job' = [job EXCEPT ![t] = Tail(job[t])]
    BY <1>3 DEF Rest
  <2> QED BY <1>0, <1>3, <2>1, <2>2, JobAgreed
<1>4. CASE job' = [job EXCEPT ![t] = <<EndlessTask(f, Wanted(m, f) < 0)>>] /\ UNCHANGED call
  <2> PICK excess : excess = (Wanted(m, f) < 0)
    OBVIOUS
  <2>8. excess \in BOOLEAN
    OBVIOUS
  <2>9. EndlessTask(f, excess) \in [do : {"endless"}, file : File, excess : BOOLEAN]
    BY <1>2, <2>8 DEF EndlessTask
  <2>10. EndlessTask(f, excess) \in Tasks
    BY <2>9 DEF Tasks
  <2>1. PICK k \in Tasks : k = EndlessTask(f, excess)
    BY <2>10
  <2>2. k.do = "endless"
    BY <2>1 DEF EndlessTask
  <2> PICK e : e = <<k>>
    OBVIOUS
  <2>3. e \in Seq(Tasks) /\ DOMAIN e = {1} /\ e[1] = k
    OBVIOUS
  <2>4. Proper(e, t[2]) /\ \A h : h.do \in {"replicate", "delete"} => ~Within(e, h)
    BY <2>2, <2>3 DEF Proper, Within
  <2>5. job' = [job EXCEPT ![t] = e] /\ UNCHANGED call
    BY <1>4, <2>1
  <2>6. \A h : h.do \in {"replicate", "delete"} /\ Within(e, h) => Within(job[t], h)
    BY <2>4
  <2>7. e \in Seq(Tasks) /\ Proper(e, t[2])
    BY <2>3, <2>4
  <2> QED BY <1>0, <2>5, <2>6, <2>7, JobAgreed
<1>5. CASE /\ Wanted(m, f) # 0
           /\ \E c \in Draws(m, f) : call' = [call EXCEPT ![t] = c] /\ UNCHANGED job
  <2>1. PICK c \in Draws(m, f) : call' = [call EXCEPT ![t] = c] /\ UNCHANGED job
    BY <1>5
  <2>2. c \in ReplicateCalls /\ c.state = "sent" /\ c.keep /\ c.file = f
    BY <1>1, <1>2, <1>5, DrawsType DEF Whole
  <2>3. Fits(c, Head(job[t]))
    BY <1>2, <2>2 DEF Fits, ReplicateCalls
  <2> QED BY <1>0, <2>1, <2>2, <2>3, SentAgreed
<1>6. \/ job' = Rest(t) /\ UNCHANGED call
      \/ job' = [job EXCEPT ![t] = <<EndlessTask(f, Wanted(m, f) < 0)>>] /\ UNCHANGED call
      \/ /\ Wanted(m, f) # 0
         /\ \E c \in Draws(m, f) : call' = [call EXCEPT ![t] = c] /\ UNCHANGED job
  BY DEF Replicate
<1> QED BY <1>3, <1>4, <1>5, <1>6

LEMMA CommandAgreed ==
  ASSUME Whole, NEW t \in Thread, Work(t), Head(job[t]).do \in {"list", "delete"}, Command(t)
  PROVE  Agreed'
<1> PICK k : k = Head(job[t])
  OBVIOUS
<1> PICK c : c = Call(k.do, k.node, IF k.do = "delete" THEN k.file ELSE "")
  OBVIOUS
<1>0. /\ UNCHANGED <<alive, members, reported, leader, nodeVars, mail, map, job>>
      /\ Runs(t) /\ call[t] = NoCall /\ job[t] # << >> /\ call' = [call EXCEPT ![t] = c]
  BY DEF Work, Command, Runs, groupVars
<1>1. k \in Tasks
  BY <1>0, HeadTail DEF Whole, TInv
<1>2. /\ c.state = "sent" /\ c.do = k.do /\ c.to = k.node
      /\ k.do = "delete" => c.file = k.file
  BY DEF Call
<1>3. /\ k.do = "list" => k = ListTask(k.node)
      /\ k.do = "delete" => k = DeleteTask(k.node, k.file)
  BY <1>1, TaskForms
<1>4. Fits(c, k)
  BY <1>2, <1>3 DEF Fits
<1> QED BY <1>0, <1>2, <1>4, SentAgreed

\* What a repair leaves of the map, and what its thread then has to do.
RepairLeaves(t, names, lost, e) ==
  /\ Head(job[t]) = RepairTask(lost) /\ lost \cap alive = {} /\ t[2] # "serve"
  /\ \A n \in Node : map'[leader][n] \subseteq map[leader][n]
  /\ \A n \in alive : map'[leader][n] = map[leader][n]
  /\ t = Repairer => \A n \in lost : map'[leader][n] = {}
  /\ \A f \in names : ~Deleting(f) /\ NodeOf(t) = leader
  /\ \A f \in names : \E n \in members : n \notin lost /\ f \in map[leader][n]
  /\ job' = [job EXCEPT ![t] = e] /\ Proper(e, t[2])
  /\ \A k : Within(e, k) => Within(job[t], k) \/ \E f \in names : k = ReplicateTask(f)

LEMMA RepairFacts ==
  ASSUME Whole, NEW t \in Thread, Work(t), Head(job[t]).do = "repair", Repair(t), mishaps' = {}
  PROVE  \E names \in SUBSET File, lost \in SUBSET Node, e \in Seq(Tasks) :
           RepairLeaves(t, names, lost, e)
<1> PICK m \in Node : m = NodeOf(t)
  BY KindsOf
<1>0. /\ Runs(t) /\ call[t] = NoCall /\ job[t] # << >>
  BY DEF Work, Runs
<1>1. job[t] \in Seq(Tasks) /\ Proper(job[t], t[2]) /\ map \in [Node -> [Node -> SUBSET File]]
      /\ leader \in Node /\ alive \subseteq Node /\ members \subseteq Node
  BY DEF Whole, TInv, ThreadsT, GroupT, Agreed, Orders
<1>2. PICK lost \in SUBSET Node : Head(job[t]) = RepairTask(lost)
  BY <1>0, <1>1, TailWithin, TaskFields
<1>3. lost \cap alive = {} /\ t[2] # "serve"
  <2>1. Head(job[t]) = job[t][1] /\ 1 \in DOMAIN job[t]
    BY <1>0, <1>1, FirstOf
  <2>2. Head(job[t]).lost = lost
    BY <1>2 DEF RepairTask
  <2> QED BY <1>1, <2>1, <2>2 DEF Proper
<1> PICK known : known = [n \in Node |-> IF n \in lost THEN {} ELSE map[m][n]]
  OBVIOUS
<1> PICK names : names = UNION {known[n] : n \in members}
  OBVIOUS
<1>4. /\ map' = [map EXCEPT ![m] = known]
      /\ job' = [job EXCEPT ![t] = Each(names, ReplicateTask) \o Tail(job[t])]
      /\ mishaps' = IF \E f \in names : Deleting(f) THEN mishaps \cup {"crossed"} ELSE mishaps
  <2>1. Head(job[t]).lost = lost
    BY <1>2 DEF RepairTask
  <2> QED BY <2>1 DEF Repair
<1>5. \A f \in names : ~Deleting(f)
  BY <1>4
<1>6. /\ names \in SUBSET File
      /\ \A f \in names : \E n \in members : n \notin lost /\ f \in map[m][n]
  <2>1. \A n \in members : known[n] \subseteq File /\ (known[n] # {} => n \notin lost /\ known[n] = map[m][n])
    BY <1>1
  <2>2. \A f \in names : \E n \in members : f \in known[n]
    OBVIOUS
  <2> QED BY <2>1, <2>2
<1>7. m # leader => names = {}
  <2>1. m # leader => map[m] = [k \in Node |-> {}]
    BY <1>0 DEF Whole, IInv, NobodyElse, Followers, Runs
  <2> QED BY <1>1, <1>6, <2>1
<1>8. \A n \in Node : map'[leader][n] = IF m = leader /\ n \in lost THEN {} ELSE map[leader][n]
  BY <1>1, <1>4
<1> PICK a : a = Each(names, ReplicateTask)
  OBVIOUS
<1> PICK e : e = a \o Tail(job[t])
  OBVIOUS
<1>9. /\ a \in Seq(Tasks) /\ \A i \in DOMAIN a : \E f \in names : a[i] = ReplicateTask(f)
  BY <1>6, EachReplicate
<1>10. ASSUME NEW i \in DOMAIN a PROVE a[i].do = "replicate"
  <2>1. PICK f \in names : a[i] = ReplicateTask(f)
    BY <1>9
  <2> QED BY <2>1, CopyTask
<1>11. Tail(job[t]) \in Seq(Tasks) /\ \A k : Within(Tail(job[t]), k) => Within(job[t], k)
  BY <1>0, <1>1, TailWithin
<1>12. Proper(e, t[2])
  BY <1>0, <1>1, <1>9, <1>10, ProperRepair
<1>13. e \in Seq(Tasks) /\ \A k : Within(e, k) <=> Within(a, k) \/ Within(Tail(job[t]), k)
  BY <1>9, <1>11, JoinWithin
<1>14. \A k : Within(a, k) => \E f \in names : k = ReplicateTask(f)
  BY <1>9 DEF Within
<1>15. \A k : Within(e, k) => Within(job[t], k) \/ \E f \in names : k = ReplicateTask(f)
  BY <1>11, <1>13, <1>14
<1>16. job' = [job EXCEPT ![t] = e]
  BY <1>4
<1>17. t = Repairer => m = leader
  BY LeadersThreads DEF Whole, TInv
<1>18. \A n \in Node : map'[leader][n] \subseteq map[leader][n]
  BY <1>8
<1>19. \A n \in alive : map'[leader][n] = map[leader][n]
  BY <1>1, <1>3, <1>8
<1>20. t = Repairer => \A n \in lost : map'[leader][n] = {}
  BY <1>8, <1>17
<1>21. \A f \in names : m = leader /\ \E n \in members : n \notin lost /\ f \in map[leader][n]
  BY <1>6, <1>7
<1>22. RepairLeaves(t, names, lost, e)
  BY <1>2, <1>3, <1>5, <1>12, <1>15, <1>16, <1>18, <1>19, <1>20, <1>21 DEF RepairLeaves
<1> QED BY <1>6, <1>13, <1>22

LEMMA RepairAgreed ==
  ASSUME Whole, NEW t \in Thread, Work(t), Head(job[t]).do = "repair", Repair(t), mishaps' = {}
  PROVE  Agreed'
<1> PICK names \in SUBSET File, lost \in SUBSET Node, e \in Seq(Tasks) :
      RepairLeaves(t, names, lost, e)
  BY RepairFacts
<1>1. /\ Head(job[t]) = RepairTask(lost) /\ lost \cap alive = {} /\ t[2] # "serve"
      /\ \A n \in Node : map'[leader][n] \subseteq map[leader][n]
      /\ \A n \in alive : map'[leader][n] = map[leader][n]
      /\ t = Repairer => \A n \in lost : map'[leader][n] = {}
      /\ \A f \in names : ~Deleting(f) /\ NodeOf(t) = leader
      /\ \A f \in names : \E n \in members : n \notin lost /\ f \in map[leader][n]
      /\ job' = [job EXCEPT ![t] = e] /\ Proper(e, t[2])
      /\ \A k : Within(e, k) => Within(job[t], k) \/ \E f \in names : k = ReplicateTask(f)
  BY DEF RepairLeaves
<1>0. /\ UNCHANGED <<alive, members, reported, leader, held, disk, got, user, service, fetches, mail,
                     call>>
      /\ Runs(t) /\ call[t] = NoCall /\ job[t] # << >>
  BY DEF Work, Repair, Runs, groupVars, nodeVars
<1>2. job'[t] = e /\ \A r \in Thread \ {t} : job'[r] = job[r]
  BY <1>1 DEF Whole, TInv, ThreadsT
<1>3. /\ job[t] \in Seq(Tasks) /\ Proper(job[t], t[2]) /\ alive \subseteq Node /\ members \subseteq Node
      /\ \A k : k.do = "list" => ~Within(job[t], k)
  <2>1. job[t] \in Seq(Tasks) /\ Proper(job[t], t[2]) /\ alive \subseteq Node /\ members \subseteq Node
    BY DEF Whole, TInv, ThreadsT, GroupT, Agreed, Orders
  <2>2. Head(job[t]).do # "list"
    OBVIOUS
  <2>3. \A i \in DOMAIN job[t] : job[t][i].do # "list"
    BY <1>0, <2>1, <2>2, ListsFirst
  <2> QED BY <2>1, <2>3 DEF Within
<1>4. \A m \in alive : <<m, "start">> \in Thread /\ <<m, "repair">> \in Thread
  BY <1>3 DEF Thread
<1>5. t = <<NodeOf(t), t[2]>> /\ NodeOf(t) \in alive /\ t[2] \in {"start", "repair"}
  BY <1>0, <1>1 DEF Thread, NodeOf, Runs
\* No repair is under way of a node whose failure is not known.
<1>6. ASSUME NEW x \in Dead PROVE t[2] = "repair" /\ x \in reported
  <2>1. t[2] # "start"
    BY <1>0, <1>5, <1>6 DEF Whole, Agreed, Mourned
  <2>2. t[2] = "repair"
    BY <1>5, <2>1
  <2> QED BY <1>0, <1>5, <1>6, <2>2 DEF Whole, Agreed, Mourned
<1>7. \A x \in Dead : Led => map[leader][x] = {} \/ job[Repairer] = <<RepairTask({x})>>
  BY <1>6 DEF Whole, Agreed, Mourned
<1>8. \A x : t = Repairer /\ job[Repairer] = <<RepairTask({x})>> => lost = {x}
  <2> SUFFICES ASSUME NEW x, t = Repairer, job[Repairer] = <<RepairTask({x})>> PROVE lost = {x}
    OBVIOUS
  <2>1. RepairTask(lost) = RepairTask({x})
    BY <1>1
  <2>2. RepairTask(lost).lost = lost /\ RepairTask({x}).lost = {x}
    BY DEF RepairTask
  <2> QED BY <2>1, <2>2
<1>9. {Server, Starter, Repairer} \subseteq Thread /\ Server' = Server /\ Starter' = Starter
      /\ Repairer' = Repairer /\ Server # t
      /\ (NodeOf(t) = leader /\ t[2] = "repair" => t = Repairer)
  BY <1>0, <1>1, LeadersThreads, KindsOf DEF Whole, TInv, Server, Starter, Repairer
<1>10. \A r \in Thread : \A k : Todo(r, k)' =>
          Todo(r, k) \/ (r = t /\ \E f \in names : k = ReplicateTask(f))
  <2>1. \A r \in Thread : \A k : Todo(r, k) <=> Within(job[r], k)
    BY DEF Todo, Within
  <2>2. \A r \in Thread : \A k : Todo(r, k)' <=> Within(job'[r], k)
    BY DEF Todo, Within
  <2> QED BY <1>1, <1>2, <2>1, <2>2
<1>11. ASSUME NEW r \in Thread PROVE Orders(r)'
  <2>1. CASE r = t
    <3>1. Proper(job[r], r[2])'
      BY <1>0, <1>1, <1>2, <2>1 DEF Proper
    <3> QED BY <1>0, <2>1, <3>1 DEF Orders, Runs, NoCall
  <2>2. CASE r # t
    BY <1>0, <1>2, <2>2 DEF Whole, Agreed, Orders, Proper, Runs, Fits
  <2> QED BY <2>1, <2>2
<1>12. (\A k \in alive : Sending(k))' /\ Fetching' /\ Stored'
  BY <1>0, Frames
<1>13. Mailed'
  BY <1>0 DEF Whole, Agreed, Mailed, Led
<1>14. FirstCopy'
  <2>1. \A n \in alive, f \in File : Copying(n, f)' => Copying(n, f)
    BY <1>0 DEF Copying
  <2>2. \A n \in alive : map[leader][n] \subseteq map'[leader][n]
    BY <1>1
  <2> QED BY <1>0, <2>1, <2>2, FirstCopyStays
<1>15. Mourned'
  <2>1. Dead' = Dead /\ (Led' <=> Led)
    BY <1>0 DEF Dead, Led
  <2>2. Dead # {} => \A m \in alive : job'[<<m, "start">>] = << >>
    <3>1. \A m : <<m, "start">>[2] = "start"
      OBVIOUS
    <3>2. \A m \in alive : t[2] = "repair" => job'[<<m, "start">>] = job[<<m, "start">>]
      BY <1>2, <1>4, <3>1
    <3> QED BY <1>6, <3>2 DEF Whole, Agreed, Mourned
  <2>3. \A x \in Dead : x \in reported
    BY <1>6
  <2>4. ASSUME NEW x \in Dead, Led
        PROVE  map'[leader][x] = {} \/ job'[Repairer] = <<RepairTask({x})>>
    <3>1. x \in Node
      BY <1>3, <2>4 DEF Dead
    <3>2. CASE map[leader][x] = {}
      BY <1>1, <3>1, <3>2
    <3>3. CASE job[Repairer] = <<RepairTask({x})>>
      BY <1>1, <1>2, <1>8, <1>9, <3>3
    <3> QED BY <1>7, <2>4, <3>2, <3>3
  <2> QED BY <1>0, <1>9, <2>1, <2>2, <2>3, <2>4 DEF Whole, Agreed, Mourned
<1>16. Mapped'
  <2> SUFFICES ASSUME Led' PROVE Mapped'
    BY DEF Mapped
  <2>0. Led /\ Mapped
    BY <1>0 DEF Led, Whole, Agreed
  <2>1. \A k : (Replied(k) <=> Replied(k)') /\ UNCHANGED Names
    BY <1>0, <1>9 DEF Replied, Names
  <2>2. \A k, g : /\ Told(k, g)' <=> Told(k, g)
                  /\ Copying(k, g)' <=> Copying(k, g)
                  /\ Struck(k, g)' <=> Struck(k, g)
    BY <1>0, <1>9 DEF Told, Copying, Struck
  <2>3. /\ \A k : ListTask(k).do = "list"
        /\ \A k, g : DeleteTask(k, g).do = "delete"
        /\ \A g : ReplicateTask(g).do = "replicate" /\ ReplicateTask(g).file = g
    BY DEF ListTask, ReplicateTask, DeleteTask
  <2>4. \A k \in alive : Todo(Starter, ListTask(k)) => Todo(Starter, ListTask(k))'
    <3>1. CASE Starter = t
      BY <1>3, <2>3, <3>1 DEF Todo, Within
    <3>2. CASE Starter # t
      BY <1>2, <1>9, <3>2 DEF Todo
    <3> QED BY <3>1, <3>2
  <2>5. ASSUME NEW k \in alive, NEW g \in held[k] PROVE Covered(k, g)'
    BY <1>0, <1>1, <2>0, <2>1, <2>2, <2>4, <2>5 DEF Mapped, Covered
  <2>6. ASSUME NEW k \in alive, NEW g \in map[leader][k] PROVE Noted(k, g)'
    BY <1>0, <2>0, <2>2, <2>6 DEF Mapped, Noted
  <2>7. ASSUME NEW k \in alive, Replied(k)
        PROVE  Names \subseteq held[k] /\ (Names # {} => map[leader][k] \subseteq Names)
    BY <2>0, <2>7 DEF Mapped
  <2>8. \A g \in File : Deleting(g)' => Deleting(g)
    BY <1>10, <2>3 DEF Deleting
  <2>9. \A g \in File : Busy(g)' => Busy(g) \/ g \in names
    <3>1. ASSUME NEW g \in File, NEW r \in Thread, Todo(r, ReplicateTask(g))'
          PROVE  Todo(r, ReplicateTask(g)) \/ g \in names
      BY <1>10, <2>3, <3>1
    <3> QED BY <1>0, <2>2, <3>1 DEF Busy
  <2>10. ASSUME NEW g \in names PROVE \E k \in alive : g \in map[leader][k]
    <3>1. PICK x \in members : x \notin lost /\ g \in map[leader][x]
      BY <1>1
    <3>2. CASE x \in Dead
      <4>1. map[leader][x] # {}
        BY <3>1
      <4>2. job[Repairer] = <<RepairTask({x})>> /\ t = Repairer
        BY <1>1, <1>6, <1>7, <1>9, <2>0, <3>2, <4>1
      <4>3. x \in lost
        BY <1>8, <4>2
      <4> QED BY <3>1, <4>3
    <3> QED BY <3>1, <3>2 DEF Dead
  <2>11. ASSUME NEW g \in File, Busy(g)' PROVE \E k \in alive : g \in map'[leader][k]
    <3>1. \E k \in alive : g \in map[leader][k]
      BY <2>0, <2>9, <2>10, <2>11 DEF Mapped
    <3> QED BY <1>1, <3>1
  <2>12. \A g \in File : Deleting(g)' => ~Busy(g)'
    BY <1>1, <2>0, <2>8, <2>9 DEF Mapped
  <2>13. Gathering' => Gathering
    BY <1>0, <1>2, <1>9 DEF Gathering, Starter
  <2>14. Gathering' => \A g \in File : ~Deleting(g)' /\ \A k \in alive : ~Copying(k, g)'
    BY <2>0, <2>2, <2>8, <2>13 DEF Mapped
  <2> QED BY <1>0, <1>1, <2>1, <2>5, <2>6, <2>7, <2>11, <2>12, <2>14 DEF Mapped
<1> QED BY <1>0, <1>11, <1>12, <1>13, <1>14, <1>15, <1>16 DEF Agreed

LEMMA WorkAgreed == ASSUME Whole, NEW t \in Thread, Work(t), mishaps' = {} PROVE Agreed'
BY RepairAgreed, ReplicateAgreed, CommandAgreed DEF Work

\* A command is done with.
LEMMA ReturnFacts ==
  ASSUME Whole, NEW t \in Thread, Return(t)
  PROVE  /\ UNCHANGED <<alive, members, reported, leader, held, disk, got, user, service, fetches, mail>>
         /\ Led /\ NodeOf(t) = leader /\ call[t].state = "done" /\ call[t] \in Calls
         /\ call[t] # NoCall /\ call[t].to \in Node
         /\ job[t] # << >> /\ Fits(call[t], Head(job[t]))
         /\ call[t].do \in {"list", "delete", "replicate"}
         /\ job' = [job EXCEPT ![t] = Tail(job[t])] /\ job'[t] = Tail(job[t])
         /\ \A r \in Thread \ {t} : job'[r] = job[r] /\ call'[r] = call[r]
         /\ call'[t] = NoCall
         /\ \A r \in Thread : \A k : Todo(r, k)' => Todo(r, k)
         /\ \A r \in Thread : \A k : Todo(r, k) => Todo(r, k)' \/ (r = t /\ k = Head(job[t]))
<1>1. /\ UNCHANGED <<alive, members, reported, leader, held, disk, got, user, service, fetches, mail>>
      /\ call[t].state = "done" /\ job' = [job EXCEPT ![t] = Tail(job[t])]
      /\ call' = [call EXCEPT ![t] = NoCall]
  BY DEF Return, Rest, groupVars, nodeVars
<1>2. call[t] # NoCall
  BY <1>1 DEF NoCall
<1>3. /\ Led /\ NodeOf(t) = leader /\ job[t] \in Seq(Tasks) /\ job[t] # << >>
      /\ Fits(call[t], Head(job[t])) /\ call[t] \in Calls
  BY <1>2, CommandsOfLeader
<1>4. call[t].do \in {"list", "delete", "replicate"} /\ call[t].to \in Node
  BY <1>2, <1>3, CallFields
<1>5. /\ job'[t] = Tail(job[t]) /\ call'[t] = NoCall
      /\ \A r \in Thread \ {t} : job'[r] = job[r] /\ call'[r] = call[r]
  BY <1>1 DEF Whole, TInv, ThreadsT
<1>6. /\ \A k : Within(Tail(job[t]), k) => Within(job[t], k)
      /\ \A k : Within(job[t], k) => k = Head(job[t]) \/ Within(Tail(job[t]), k)
  BY <1>3, TailWithin
<1>7. \A r \in Thread : \A k : (Todo(r, k) <=> Within(job[r], k)) /\ (Todo(r, k)' <=> Within(job'[r], k))
  BY DEF Todo, Within
<1>8. \A r \in Thread : \A k : Todo(r, k)' => Todo(r, k)
  BY <1>5, <1>6, <1>7
<1>9. \A r \in Thread : \A k : Todo(r, k) => Todo(r, k)' \/ (r = t /\ k = Head(job[t]))
  BY <1>5, <1>6, <1>7
<1> QED BY <1>1, <1>2, <1>3, <1>4, <1>5, <1>8, <1>9

\* All of the invariant but what the map says.
LEMMA ReturnLeaves ==
  ASSUME Whole, NEW t \in Thread, Return(t),
         \A x \in Dead : map'[leader][x] \subseteq map[leader][x]
  PROVE  /\ \A r \in Thread : Orders(r)'
         /\ (\A k \in alive : Sending(k))' /\ Fetching' /\ Stored' /\ Mailed' /\ Mourned'
         /\ \A g \in File : (Busy(g)' => Busy(g)) /\ (Deleting(g)' => Deleting(g))
         /\ Gathering' => Gathering
         /\ \A k, g : (Told(k, g)' <=> Told(k, g)) /\ (Copying(k, g)' <=> Copying(k, g))
         /\ {Server, Starter} \subseteq Thread /\ Server' = Server /\ Starter' = Starter
<1>1. /\ UNCHANGED <<alive, members, reported, leader, held, disk, got, user, service, fetches, mail>>
      /\ Led /\ NodeOf(t) = leader /\ call[t].state = "done"
      /\ job[t] # << >> /\ Fits(call[t], Head(job[t]))
      /\ call[t].do \in {"list", "delete", "replicate"}
      /\ job' = [job EXCEPT ![t] = Tail(job[t])] /\ job'[t] = Tail(job[t])
      /\ \A r \in Thread \ {t} : job'[r] = job[r] /\ call'[r] = call[r]
      /\ call'[t] = NoCall
      /\ \A r \in Thread : \A k : Todo(r, k)' => Todo(r, k)
  BY ReturnFacts
<1>2. {Server, Starter} \subseteq Thread /\ Server' = Server /\ Starter' = Starter
  BY <1>1, LeadersThreads DEF Whole, TInv, Server, Starter
<1>3. job[t] \in Seq(Tasks) /\ Proper(job[t], t[2]) /\ Runs(t)
  BY <1>1 DEF Whole, TInv, ThreadsT, Agreed, Orders
<1>4. \E e : Proper(e, t[2]) /\ job'[t] = e
  BY <1>1, <1>3, ProperTail
<1>5. ASSUME NEW r \in Thread PROVE Orders(r)'
  <2>1. CASE r = t
    <3>1. Proper(job[r], r[2])'
      <4>1. UNCHANGED alive
        BY <1>1
      <4> QED BY <1>4, <2>1, <4>1 DEF Proper
    <3> QED BY <1>1, <1>3, <2>1, <3>1 DEF Orders, Runs, NoCall
  <2>2. CASE r # t
    BY <1>1, <2>2 DEF Whole, Agreed, Orders, Proper, Runs, Fits
  <2> QED BY <2>1, <2>2
<1>6. Fetching' /\ Stored'
  BY <1>1, Frames
<1>7. (\A k \in alive : Sending(k))'
  BY <1>1 DEF Whole, Agreed, Sending, Runs
<1>8. Mailed'
  BY <1>1 DEF Whole, Agreed, Mailed, Led
<1>9. Mourned'
  <2>1. Head(job[t]).do # "repair"
    BY <1>1 DEF Fits, ListTask, DeleteTask, ReplicateTask, GetTask
  <2> QED BY <1>1, <2>1, MournedWorks
<1>10. \A k, g : (Told(k, g)' <=> Told(k, g)) /\ (Copying(k, g)' <=> Copying(k, g))
  BY <1>1 DEF Told, Copying
<1>11. \A g \in File : (Busy(g)' => Busy(g)) /\ (Deleting(g)' => Deleting(g))
  BY <1>1, <1>10 DEF Busy, Deleting
<1>12. Gathering' => Gathering
  BY <1>1, <1>2 DEF Gathering, Starter
<1> QED BY <1>2, <1>5, <1>6, <1>7, <1>8, <1>9, <1>10, <1>11, <1>12

LEMMA ReturnReplicateAgreed ==
  ASSUME Whole, NEW t \in Thread, Return(t), call[t].do = "replicate"
  PROVE  Agreed'
<1>1. /\ UNCHANGED <<alive, members, reported, leader, held, disk, got, user, service, fetches, mail>>
      /\ Led /\ NodeOf(t) = leader /\ call[t].to \in Node /\ Fits(call[t], Head(job[t]))
      /\ \A r \in Thread \ {t} : job'[r] = job[r] /\ call'[r] = call[r]
      /\ call'[t] = NoCall
      /\ \A r \in Thread : \A k : Todo(r, k) => Todo(r, k)' \/ (r = t /\ k = Head(job[t]))
  BY ReturnFacts
<1>2. UNCHANGED map
  <2>1. map' = [map EXCEPT ![NodeOf(t)][call[t].to] = @]
    BY DEF Return
  <2>2. NodeOf(t) \in Node
    BY KindsOf
  <2> QED BY <1>1, <2>1, <2>2 DEF Whole, TInv, ThreadsT
<1>3. /\ \A r \in Thread : Orders(r)'
      /\ (\A k \in alive : Sending(k))' /\ Fetching' /\ Stored' /\ Mailed' /\ Mourned'
      /\ \A g \in File : (Busy(g)' => Busy(g)) /\ (Deleting(g)' => Deleting(g))
      /\ Gathering' => Gathering
      /\ \A k, g : (Told(k, g)' <=> Told(k, g)) /\ (Copying(k, g)' <=> Copying(k, g))
      /\ {Server, Starter} \subseteq Thread /\ Server' = Server /\ Starter' = Starter
  BY <1>2, ReturnLeaves
<1>4. FirstCopy'
  BY <1>1, <1>2, <1>3, FirstCopyStays
<1>5. \A k : Head(job[t]) # ListTask(k)
  BY <1>1 DEF Fits, ListTask, ReplicateTask, GetTask
<1>6. \A k \in alive : Todo(Starter, ListTask(k)) => Todo(Starter, ListTask(k))'
  <2> PICK s \in Thread : s = Starter
    BY <1>3
  <2>1. \A k : Todo(s, ListTask(k)) => Todo(s, ListTask(k))'
    BY <1>1, <1>5
  <2> QED BY <1>3, <2>1 DEF Todo
<1>7. \A k : (Replied(k) <=> Replied(k)') /\ (Replied(k) => UNCHANGED Names)
  BY <1>1, <1>3 DEF Replied, Names, NoCall
<1>8. \A k, g : Struck(k, g) => Struck(k, g)'
  BY <1>1, <1>3 DEF Struck
<1>9. \A g \in File : Deleting(g) => ~Busy(g) /\ ~Gathering
  BY <1>1 DEF Whole, Agreed, Mapped
<1>10. Mapped'
  BY <1>1, <1>2, <1>3, <1>6, <1>7, <1>8, <1>9, MappedStays
<1> QED BY <1>1, <1>3, <1>4, <1>10 DEF Agreed

LEMMA ReturnListAgreed ==
  ASSUME Whole, NEW t \in Thread, Return(t), call[t].do = "list"
  PROVE  Agreed'
<1> PICK n \in Node : n = call[t].to
  BY ReturnFacts
<1>1. /\ UNCHANGED <<alive, members, reported, leader, held, disk, got, user, service, fetches, mail>>
      /\ Led /\ NodeOf(t) = leader /\ call[t].state = "done"
      /\ \A r \in Thread \ {t} : job'[r] = job[r] /\ call'[r] = call[r]
      /\ call'[t] = NoCall
      /\ \A r \in Thread : \A k : Todo(r, k) => Todo(r, k)' \/ (r = t /\ k = Head(job[t]))
  BY ReturnFacts
<1>2. /\ t = Starter /\ Head(job[t]) = ListTask(n) /\ Gathering /\ Dead = {}
      /\ \A f \in File : ~Deleting(f) /\ \A k \in alive : ~Copying(k, f)
  BY ListCallFacts
<1>3. Replied(n) /\ Names \in SUBSET File /\ Names = call[t].names
  BY <1>1, <1>2, RepliedFacts DEF Replied, Names
<1>4. /\ \A r \in Thread : Orders(r)'
      /\ (\A k \in alive : Sending(k))' /\ Fetching' /\ Stored' /\ Mailed' /\ Mourned'
      /\ \A g \in File : (Busy(g)' => Busy(g)) /\ (Deleting(g)' => Deleting(g))
      /\ Gathering' => Gathering
      /\ \A k, g : (Told(k, g)' <=> Told(k, g)) /\ (Copying(k, g)' <=> Copying(k, g))
      /\ {Server, Starter} \subseteq Thread /\ Server' = Server /\ Starter' = Starter
  BY <1>2, ReturnLeaves
<1>5. /\ map \in [Node -> [Node -> SUBSET File]] /\ leader \in Node /\ alive \subseteq Node
      /\ held \in [Node -> SUBSET File]
  BY DEF Whole, TInv, ThreadsT, GroupT, FilesT
<1>6. \A k \in Node : map'[leader][k] = IF k = n /\ Names # {} THEN Names ELSE map[leader][k]
  <2>1. map' = [map EXCEPT ![leader][n] = IF Names # {} THEN Names ELSE map[leader][n]]
    <3>1. map' = [map EXCEPT ![NodeOf(t)][call[t].to] =
                    IF call[t].do = "list" /\ call[t].names # {} THEN call[t].names
                    ELSE IF call[t].do = "delete" THEN @ \ {call[t].file} ELSE @]
      BY DEF Return
    <3> QED BY <1>1, <1>3, <3>1
  <2> QED BY <1>5, <2>1
<1>7. FirstCopy'
  BY <1>1, <1>2, <1>4 DEF FirstCopy
<1>8. Mapped'
  <2>1. \A k : ~Replied(k)'
    BY <1>1, <1>2, <1>4 DEF Replied, NoCall
  <2>2. \A k : Replied(k) <=> k = n
    BY <1>3 DEF Replied
  <2>3. \A k \in alive : k # n /\ Todo(Starter, ListTask(k)) => Todo(Starter, ListTask(k))'
    <3>1. \A k : k # n => ListTask(k) # ListTask(n)
      <4>1. \A k : ListTask(k).node = k
        BY DEF ListTask
      <4> QED BY <4>1
    <3>2. \A k \in alive : k # n /\ Todo(t, ListTask(k)) => Todo(t, ListTask(k))'
      BY <1>1, <1>2, <3>1
    <3> QED BY <1>2, <1>4, <3>2 DEF Todo
  <2>4. Server \in Thread \ {t}
    BY <1>2, <1>4, LeadersThreads DEF Whole, TInv
  <2>5. \A k, g : Struck(k, g)' <=> Struck(k, g)
    BY <1>1, <1>4, <2>4 DEF Struck
  <2>6. ASSUME NEW k \in alive, NEW g \in held[k] PROVE Covered(k, g)'
    <3>1. Covered(k, g)
      BY <1>1, <2>6 DEF Whole, Agreed, Mapped
    <3>2. CASE k = n
      <4>1. Told(k, g) \/ g \in Names \/ (Names = {} /\ g \in map[leader][k])
        BY <1>3, <3>1, <3>2 DEF Covered
      <4>2. Told(k, g)' \/ g \in map'[leader][k]
        BY <1>4, <1>6, <3>2, <4>1
      <4> QED BY <1>1, <2>1, <4>2 DEF Covered
    <3>3. CASE k # n
      <4>1. Told(k, g) \/ g \in map[leader][k] \/ Todo(Starter, ListTask(k))
        BY <2>2, <3>1, <3>3 DEF Covered
      <4>2. Told(k, g)' \/ g \in map'[leader][k] \/ Todo(Starter, ListTask(k))'
        BY <1>4, <1>5, <1>6, <2>3, <3>3, <4>1
      <4> QED BY <1>1, <2>1, <4>2 DEF Covered
    <3> QED BY <3>2, <3>3
  <2>7. n \in alive => Names \subseteq held[n] /\ (Names # {} => map[leader][n] \subseteq Names)
    BY <1>1, <1>3 DEF Whole, Agreed, Mapped
  <2>8. ASSUME NEW k \in alive, NEW g \in map'[leader][k] PROVE Noted(k, g)'
    <3>1. g \in held[k] \/ g \in map[leader][k]
      BY <1>5, <1>6, <2>7, <2>8
    <3>2. Noted(k, g)
      BY <1>1, <3>1 DEF Whole, Agreed, Mapped, Noted
    <3> QED BY <1>1, <1>4, <2>5, <3>2 DEF Noted
  <2>9. ASSUME NEW g \in File, Busy(g)' PROVE \E k \in alive : g \in map'[leader][k]
    <3>1. PICK k \in alive : g \in map[leader][k]
      BY <1>1, <1>4, <2>9 DEF Whole, Agreed, Mapped
    <3>2. g \in map'[leader][k]
      BY <1>5, <1>6, <2>7, <3>1
    <3> QED BY <3>2
  <2> QED BY <1>1, <1>2, <1>4, <2>1, <2>6, <2>8, <2>9 DEF Mapped
<1> QED BY <1>1, <1>4, <1>7, <1>8 DEF Agreed

LEMMA ReturnDeleteAgreed ==
  ASSUME Whole, NEW t \in Thread, Return(t), call[t].do = "delete"
  PROVE  Agreed'
<1> PICK n \in Node : n = call[t].to
  BY ReturnFacts
<1> PICK f : f = call[t].file
  OBVIOUS
<1>1. /\ UNCHANGED <<alive, members, reported, leader, held, disk, got, user, service, fetches, mail>>
      /\ Led /\ NodeOf(t) = leader /\ call[t].state = "done"
      /\ \A r \in Thread \ {t} : job'[r] = job[r] /\ call'[r] = call[r]
      /\ call'[t] = NoCall
      /\ \A r \in Thread : \A k : Todo(r, k) => Todo(r, k)' \/ (r = t /\ k = Head(job[t]))
  BY ReturnFacts
<1>2. t = Server /\ f \in File /\ ~Busy(f) /\ ~Gathering
  BY DeleteCallFacts DEF DeleteCalls
<1>3. /\ map \in [Node -> [Node -> SUBSET File]] /\ leader \in Node /\ alive \subseteq Node
      /\ held \in [Node -> SUBSET File] /\ members \subseteq Node
  BY DEF Whole, TInv, ThreadsT, GroupT, FilesT
<1>4. \A k \in Node : map'[leader][k] = IF k = n THEN map[leader][k] \ {f} ELSE map[leader][k]
  <2>1. map' = [map EXCEPT ![leader][n] = map[leader][n] \ {f}]
    <3>1. map' = [map EXCEPT ![NodeOf(t)][call[t].to] =
                    IF call[t].do = "list" /\ call[t].names # {} THEN call[t].names
                    ELSE IF call[t].do = "delete" THEN @ \ {call[t].file} ELSE @]
      BY DEF Return
    <3> QED BY <1>1, <3>1
  <2> QED BY <1>3, <2>1
<1>5. /\ \A r \in Thread : Orders(r)'
      /\ (\A k \in alive : Sending(k))' /\ Fetching' /\ Stored' /\ Mailed' /\ Mourned'
      /\ \A g \in File : (Busy(g)' => Busy(g)) /\ (Deleting(g)' => Deleting(g))
      /\ Gathering' => Gathering
      /\ \A k, g : (Told(k, g)' <=> Told(k, g)) /\ (Copying(k, g)' <=> Copying(k, g))
      /\ {Server, Starter} \subseteq Thread /\ Server' = Server /\ Starter' = Starter
  <2>1. \A x \in Dead : map'[leader][x] \subseteq map[leader][x]
    BY <1>3, <1>4 DEF Dead
  <2> QED BY <2>1, ReturnLeaves
<1>6. \A k \in alive, g \in File : Copying(k, g) => Busy(g)
  BY DEF Busy
<1>7. FirstCopy'
  <2>1. ASSUME NEW k \in alive, NEW g \in File, Copying(k, g)
        PROVE  /\ Led /\ g \in map'[leader][k]
               /\ \A j \in alive : g \notin held[j] /\ (Copying(j, g) => j = k)
               /\ \A x \in fetches : ~(x.file = g /\ x.keep)
    <3>1. g \in map[leader][k] /\ g # f
      BY <1>2, <1>6, <2>1 DEF Whole, Agreed, FirstCopy
    <3>2. /\ \A j \in alive : g \notin held[j] /\ (Copying(j, g) => j = k)
          /\ \A x \in fetches : ~(x.file = g /\ x.keep)
      BY <2>1 DEF Whole, Agreed, FirstCopy
    <3>3. g \in map'[leader][k]
      BY <1>3, <1>4, <3>1
    <3> QED BY <1>1, <3>2, <3>3
  <2> QED BY <1>1, <1>5, <2>1 DEF FirstCopy, Led
<1>8. Mapped'
  <2>1. \A k : ~Replied(k)
    BY <1>2, RepliedFacts
  <2>2. Starter \in Thread \ {t}
    BY <1>2, <1>5, LeadersThreads DEF Whole, TInv
  <2>3. \A k : ~Replied(k)'
    BY <1>1, <1>5, <2>1, <2>2 DEF Replied
  <2>4. \A k : Todo(Starter, ListTask(k)) => Todo(Starter, ListTask(k))'
    BY <1>1, <1>5, <2>2 DEF Todo
  <2>5. n \in alive => f \notin held[n]
    BY <1>1 DEF Whole, Agreed, Orders
  <2>6. ASSUME NEW k \in alive, NEW g \in held[k] PROVE Covered(k, g)'
    <3>1. Told(k, g) \/ g \in map[leader][k] \/ Todo(Starter, ListTask(k))
      BY <1>1, <2>1, <2>6 DEF Whole, Agreed, Mapped, Covered
    <3>2. Told(k, g)' \/ g \in map'[leader][k] \/ Todo(Starter, ListTask(k))'
      BY <1>3, <1>4, <1>5, <2>4, <2>5, <2>6, <3>1
    <3> QED BY <1>1, <2>3, <3>2 DEF Covered
  <2>7. ASSUME NEW k \in alive, NEW g \in map'[leader][k] PROVE Noted(k, g)'
    <3>1. g \in map[leader][k] /\ ~(k = n /\ g = f)
      BY <1>3, <1>4, <2>7
    <3>2. Noted(k, g)
      BY <1>1, <3>1 DEF Whole, Agreed, Mapped
    <3>3. ~Struck(k, g)
      BY <1>2, <3>1 DEF Struck
    <3> QED BY <1>1, <1>5, <3>2, <3>3 DEF Noted
  <2>8. ASSUME NEW g \in File, Busy(g)' PROVE \E k \in alive : g \in map'[leader][k]
    <3>1. PICK k \in alive : g \in map[leader][k]
      BY <1>1, <1>5, <2>8 DEF Whole, Agreed, Mapped
    <3>2. g # f
      BY <1>2, <1>5, <2>8
    <3>3. g \in map'[leader][k]
      BY <1>3, <1>4, <3>1, <3>2
    <3> QED BY <3>3
  <2>9. \A g \in File : Deleting(g)' => ~Busy(g)'
    BY <1>1, <1>5 DEF Whole, Agreed, Mapped
  <2> QED BY <1>1, <1>2, <1>5, <2>3, <2>6, <2>7, <2>8, <2>9 DEF Mapped
<1> QED BY <1>1, <1>5, <1>7, <1>8 DEF Agreed

LEMMA ReturnAgreed == ASSUME Whole, NEW t \in Thread, Return(t) PROVE Agreed'
BY ReturnFacts, ReturnListAgreed, ReturnDeleteAgreed, ReturnReplicateAgreed

-----------------------------------------------------------------------------
(* Fetches end *)

LEMMA FetchedFacts ==
  ASSUME Whole, NEW x \in fetches, Fetched(x)
  PROVE  /\ UNCHANGED <<alive, members, reported, leader, user, service, map, job, call>>
         /\ Led /\ x.to \in alive /\ x.file \in File /\ x.content \in Node /\ x.file \notin held[x.to]
         /\ \A y \in fetches' : y \in fetches /\ ~(y.file = x.file /\ y.to = x.to)
         /\ \/ /\ x.keep /\ UNCHANGED got
               /\ disk' = [disk EXCEPT ![x.to][x.file] = x.content]
               /\ held' = [held EXCEPT ![x.to] = held[x.to] \cup {x.file}]
               /\ mail' = mail \cup {[op |-> "update", from |-> x.to, file |-> x.file, to |-> leader]}
            \/ /\ ~x.keep /\ UNCHANGED <<held, mail>>
               /\ got' = [got EXCEPT ![x.to][x.file] = x.content]
               /\ disk' = [disk EXCEPT ![x.to][x.file] = Absent]
<1>1. /\ x.to \in alive /\ x.content \in Node /\ x.file \notin held[x.to]
      /\ \A y \in fetches : y.file = x.file /\ y.to = x.to => x = y
  BY DEF Whole, Agreed, Fetching
<1>2. x.file \in File
  BY DEF Whole, TInv, FilesT, Fetches
<1>3. disk[x.to][x.file] = Absent
  BY <1>1, <1>2 DEF Whole, Agreed, Stored
<1>4. Led
  BY LeadersGone
<1>5. UNCHANGED <<alive, members, reported, leader, user, service, map, job, call>>
      /\ fetches' = fetches \ {x}
  BY DEF Fetched, groupVars, masterVars
<1>6. ~(disk[x.to][x.file] # Absent \/ \E y \in fetches \ {x} : SameName(y, x.file, x.to))
  BY <1>1, <1>3 DEF SameName
<1>7. \/ /\ x.keep /\ UNCHANGED got
         /\ disk' = [disk EXCEPT ![x.to][x.file] = x.content]
         /\ held' = [held EXCEPT ![x.to] = held[x.to] \cup {x.file}]
         /\ mail' = mail \cup {[op |-> "update", from |-> x.to, file |-> x.file, to |-> leader]}
      \/ /\ ~x.keep /\ UNCHANGED <<held, mail>>
         /\ got' = [got EXCEPT ![x.to][x.file] = x.content]
         /\ disk' = [disk EXCEPT ![x.to][x.file] = Absent]
  BY <1>4, <1>6 DEF Fetched, Led
<1> QED BY <1>1, <1>2, <1>4, <1>5, <1>7

LEMMA FetchedAgreed ==
  ASSUME Whole, NEW x \in fetches, Fetched(x)
  PROVE  Agreed'
<1> PICK n : n = x.to
  OBVIOUS
<1> PICK f : f = x.file
  OBVIOUS
<1> PICK q : q = [op |-> "update", from |-> n, file |-> f, to |-> leader]
  OBVIOUS
<1>0. /\ UNCHANGED <<alive, members, reported, leader, user, service, map, job, call>>
      /\ Led /\ n \in alive /\ f \in File /\ x.content \in Node /\ f \notin held[n]
      /\ \A y \in fetches' : y \in fetches /\ ~(y.file = f /\ y.to = n)
      /\ \/ /\ x.keep /\ UNCHANGED got
            /\ disk' = [disk EXCEPT ![n][f] = x.content]
            /\ held' = [held EXCEPT ![n] = held[n] \cup {f}]
            /\ mail' = mail \cup {q}
         \/ /\ ~x.keep /\ UNCHANGED <<held, mail>>
            /\ got' = [got EXCEPT ![n][f] = x.content]
            /\ disk' = [disk EXCEPT ![n][f] = Absent]
  BY FetchedFacts
<1>1. /\ held \in [Node -> SUBSET File] /\ disk \in [Node -> [File -> Content \cup {Absent}]]
      /\ got \in [Node -> [File -> Content \cup {Absent}]] /\ alive \subseteq Node
      /\ \A y \in fetches : y.file \in File /\ y.to \in Node
      /\ \A r \in mail : r.from \in alive
  BY DEF Whole, TInv, FilesT, GroupT, Fetches, Agreed, Mailed
<1>2. disk[n][f] = Absent
  BY <1>0 DEF Whole, Agreed, Stored
\* What is held now, and where it came from.
<1>3. \A k \in alive, g \in File :
        /\ g \in held'[k] <=> g \in held[k] \/ (x.keep /\ k = n /\ g = f)
        /\ ~(k = n /\ g = f) => disk'[k][g] = disk[k][g]
        /\ disk'[n][f] = IF x.keep THEN x.content ELSE Absent
        /\ got'[k][g] = IF ~x.keep /\ k = n /\ g = f THEN x.content ELSE got[k][g]
  <2>1. CASE x.keep
    BY <1>0, <1>1, <2>1
  <2>2. CASE ~x.keep
    BY <1>0, <1>1, <2>2
  <2> QED BY <2>1, <2>2
<1>4. \A k \in alive : held[k] \subseteq held'[k] /\ held'[k] \subseteq File
  BY <1>0, <1>1
<1>5. x.keep => Busy(f) /\ \A k \in alive : ~Copying(k, f)
  BY <1>0 DEF Busy, Whole, Agreed, FirstCopy
<1>6. mail \subseteq mail' /\ (x.keep => q \in mail') /\ \A r \in mail' : r \in mail \/ (x.keep /\ r = q)
  BY <1>0
<1>7. /\ q.op = "update" /\ q.from = n /\ q.file = f /\ q.to = leader
  OBVIOUS
<1>8. \A k, g : Copying(k, g)' <=> Copying(k, g)
  BY <1>0 DEF Copying
<1>9. ASSUME NEW t \in Thread PROVE Orders(t)'
  <2>1. ASSUME call[t].do = "delete", call[t].state = "done", call[t].to \in alive
        PROVE  call[t].file \notin held'[call[t].to]
    <3>1. Deleting(call[t].file) /\ ~Busy(call[t].file) /\ call[t].file \in File
      BY <2>1, DeleteCallFacts DEF DeleteCalls
    <3>2. call[t].file \notin held[call[t].to]
      BY <2>1 DEF Whole, Agreed, Orders
    <3> QED BY <1>3, <1>5, <2>1, <3>1, <3>2
  <2> QED BY <1>0, <2>1 DEF Whole, Agreed, Orders, Proper, Runs, Fits
<1>10. (\A k \in alive : Sending(k))'
  BY <1>0, Frames
<1>11. Fetching'
  <2>1. ASSUME NEW y \in fetches'
        PROVE  /\ y.from \in alive /\ y.to \in alive /\ y.content \in Node
               /\ y.file \notin held'[y.to]
               /\ y.keep => \A k \in alive : y.file \in held'[k] => disk'[k][y.file] = y.content
    <3>1. /\ y.from \in alive /\ y.to \in alive /\ y.content \in Node /\ y.file \notin held[y.to]
          /\ y.keep => \A k \in alive : y.file \in held[k] => disk[k][y.file] = y.content
          /\ x.keep /\ y.keep /\ y.file = f => x.content = y.content
          /\ ~(y.file = f /\ y.to = n) /\ y.file \in File
      BY <1>0, <1>1 DEF Whole, Agreed, Fetching
    <3>2. y.file \notin held'[y.to]
      BY <1>3, <3>1
    <3>3. ASSUME y.keep, NEW k \in alive, y.file \in held'[k] PROVE disk'[k][y.file] = y.content
      BY <1>0, <1>3, <3>1, <3>3
    <3> QED BY <3>1, <3>2, <3>3
  <2>2. \A y, z \in fetches' : y.file = z.file =>
          /\ y.to = z.to => y = z
          /\ y.keep /\ z.keep => y.content = z.content
    BY <1>0 DEF Whole, Agreed, Fetching
  <2> QED BY <1>0, <2>1, <2>2 DEF Fetching
<1>12. Stored'
  <2>1. Junk \notin Node /\ Absent # Junk
    BY ReplicationAssumption DEF Junk, Absent
  <2>2. \A k \in alive, g \in File : /\ g \in held'[k] => disk'[k][g] \in Node
                                     /\ g \notin held'[k] => disk'[k][g] = Absent
                                     /\ got'[k][g] # Junk
    BY <1>0, <1>2, <1>3, <2>1 DEF Whole, Agreed, Stored
  <2>3. ASSUME x.keep, NEW k \in alive, f \in held'[k] PROVE disk'[k][f] = x.content
    BY <1>0, <1>3, <2>3 DEF Whole, Agreed, Fetching
  <2>4. ASSUME NEW k \in alive, NEW j \in alive, NEW g \in File, g \in held'[k], g \in held'[j]
        PROVE  disk'[k][g] = disk'[j][g]
    <3>1. CASE x.keep /\ g = f
      BY <2>3, <2>4, <3>1
    <3>2. CASE ~(x.keep /\ g = f)
      BY <1>0, <1>3, <2>4, <3>2 DEF Whole, Agreed, Stored
    <3> QED BY <3>1, <3>2
  <2> QED BY <1>0, <2>2, <2>4 DEF Stored
<1>13. FirstCopy'
  <2>1. ASSUME NEW k \in alive, NEW g \in File, Copying(k, g)
        PROVE  /\ Led /\ g \in map[leader][k]
               /\ \A j \in alive : g \notin held'[j] /\ (Copying(j, g) => j = k)
               /\ \A y \in fetches' : ~(y.file = g /\ y.keep)
    BY <1>0, <1>3, <1>5, <2>1 DEF Whole, Agreed, FirstCopy
  <2> QED BY <1>0, <1>8, <2>1 DEF FirstCopy, Led
<1>14. Mailed'
  <2>1. ASSUME NEW r \in mail'
        PROVE  /\ r.from \in alive /\ r.to = leader
               /\ r.op = "put" => user[r.from] = r
               /\ r.op = "update" => r.file \in held'[r.from]
    <3>1. CASE r \in mail
      <4>1. /\ r.from \in alive /\ r.to = leader
            /\ r.op = "put" => user[r.from] = r
            /\ r.op = "update" => r.file \in held[r.from]
        BY <3>1 DEF Whole, Agreed, Mailed
      <4> QED BY <1>4, <4>1
    <3>2. CASE x.keep /\ r = q
      BY <1>0, <1>3, <1>7, <3>2
    <3> QED BY <1>6, <3>1, <3>2
  <2> QED BY <1>0, <2>1 DEF Mailed, Led
<1>15. Mourned'
  BY <1>0 DEF Whole, Agreed, Mourned, Dead, Led, Repairer
<1>16. Mapped'
  <2>1. Starter' = Starter /\ Server' = Server
    BY <1>0 DEF Starter, Server
  <2>2. \A k : (Replied(k) <=> Replied(k)') /\ UNCHANGED Names
    BY <1>0, <2>1 DEF Replied, Names
  <2>3. \A k, g : /\ Told(k, g) => Told(k, g)'
                  /\ Struck(k, g)' <=> Struck(k, g)
                  /\ Todo(Starter, ListTask(k))' <=> Todo(Starter, ListTask(k))
    BY <1>0, <1>6, <2>1 DEF Told, Struck, Todo
  <2>4. ASSUME NEW k \in alive, NEW g \in held'[k] PROVE Covered(k, g)'
    <3>1. CASE g \in held[k]
      <4>1. Covered(k, g)
        BY <1>0, <3>1 DEF Whole, Agreed, Mapped
      <4> QED BY <1>0, <2>2, <2>3, <4>1 DEF Covered
    <3>2. CASE g \notin held[k]
      <4>1. x.keep /\ k = n /\ g = f
        BY <1>3, <1>4, <2>4, <3>2
      <4>2. Told(k, g)'
        BY <1>0, <1>6, <4>1 DEF Told
      <4> QED BY <4>2 DEF Covered
    <3> QED BY <3>1, <3>2
  <2>5. ASSUME NEW k \in alive, NEW g \in map[leader][k] PROVE Noted(k, g)'
    <3>1. Noted(k, g)
      BY <1>0, <2>5 DEF Whole, Agreed, Mapped
    <3> QED BY <1>4, <1>8, <2>3, <3>1 DEF Noted
  <2>6. ASSUME NEW k \in alive, Replied(k)
        PROVE  Names \subseteq held'[k] /\ (Names # {} => map[leader][k] \subseteq Names)
    <3>1. Names \subseteq held[k] /\ (Names # {} => map[leader][k] \subseteq Names)
      BY <1>0, <2>6 DEF Whole, Agreed, Mapped
    <3> QED BY <1>4, <3>1
  <2>7. \A g \in File : Busy(g)' => Busy(g)
    <3>1. ASSUME NEW g \in File, NEW r \in mail', r.op = "update", r.file = g PROVE Busy(g)
      BY <1>5, <1>6, <1>7, <3>1 DEF Busy
    <3>2. \A g, t : Todo(t, ReplicateTask(g))' <=> Todo(t, ReplicateTask(g))
      BY <1>0 DEF Todo
    <3>3. \A g \in File, y \in fetches' : y.keep /\ y.file = g => Busy(g)
      BY <1>0 DEF Busy
    <3>4. \A g \in File, k \in alive : Copying(k, g)' => Busy(g)
      BY <1>8 DEF Busy
    <3>5. \A g \in File, t \in Thread : Todo(t, ReplicateTask(g))' => Busy(g)
      BY <3>2 DEF Busy
    <3> QED BY <1>0, <3>1, <3>3, <3>4, <3>5 DEF Busy
  <2>8. \A g \in File : Deleting(g)' <=> Deleting(g)
    BY <1>0 DEF Deleting, Todo
  <2>9. Gathering' <=> Gathering
    BY <1>0 DEF Gathering
  <2> QED BY <1>0, <1>8, <2>2, <2>4, <2>5, <2>6, <2>7, <2>8, <2>9 DEF Whole, Agreed, Mapped, Led
<1> QED BY <1>0, <1>9, <1>10, <1>11, <1>12, <1>13, <1>14, <1>15, <1>16 DEF Agreed

-----------------------------------------------------------------------------
(* The election *)

LEMMA ElectAgreed == ASSUME Whole, Elect PROVE Agreed'
<1> PICK m \in alive : m = Lowest(alive)
  <2>1. alive \in (SUBSET Node) \ {{}}
    BY DEF Whole, TInv, GroupT
  <2> QED BY <2>1, LowestIn
<1> PICK s \in Thread : s = <<m, "start">>
  BY DEF Thread, Whole, TInv, GroupT
<1> DEFINE Given(e) ==
      /\ e \in Seq(Tasks) /\ e # << >> /\ Proper(e, "start")
      /\ \A n \in members : Within(e, ListTask(n))
      /\ \A f \in File : ~Within(e, ReplicateTask(f))
      /\ \A f \in File, n \in Node : ~Within(e, DeleteTask(n, f))
      /\ job' = [job EXCEPT ![s] = e]
<1>5. \E e : Given(e)
  <2> PICK e : e = Each(members, ListTask) \o <<RepairTask({})>>
    OBVIOUS
  <2>1. members \in SUBSET Node
    BY DEF Whole, TInv, GroupT
  <2>2. job' = [job EXCEPT ![s] = e]
    BY DEF Elect
  <2>3. Given(e)
    BY <2>1, <2>2, ElectionsJob
  <2> QED BY <2>3
<1>16. PICK e : Given(e)
  BY <1>5
<1>0. /\ UNCHANGED <<alive, members, reported, held, disk, got, user, service, fetches, mail, map, call>>
      /\ leader \notin members /\ leader' = m /\ job' = [job EXCEPT ![s] = e]
      /\ Proper(e, "start")
  BY <1>16 DEF Elect, nodeVars
<1>1. /\ alive \subseteq members /\ members \in SUBSET Node
  BY DEF Whole, TInv, GroupT, IInv, AliveListed
<1>2. ~Led
  BY <1>0, <1>1 DEF Led
<1>3. /\ Dead \subseteq {leader} /\ fetches = {} /\ mail = {} /\ \A n \in alive : service[n] = Idle
      /\ \A t \in Thread : call[t] = NoCall
  BY <1>2, LeadersGone
<1>4. Dead = {} /\ members = alive
  <2>1. Dead = {}
    BY <1>0, <1>3 DEF Dead
  <2> QED BY <1>1, <2>1 DEF Dead
<1>6. job'[s] = e /\ \A t \in Thread \ {s} : job'[t] = job[t]
  BY <1>0 DEF Whole, TInv, ThreadsT
<1>7. s[2] = "start" /\ NodeOf(s) = m /\ Starter' = s
  BY <1>0 DEF Starter, NodeOf
<1>8. \A n \in alive, f \in File : ~Copying(n, f)' /\ ~Copying(n, f)
  BY <1>0, <1>2 DEF Copying, Whole, Agreed, FirstCopy
<1>9. ASSUME NEW t \in Thread PROVE Orders(t)'
  <2>1. CASE t = s
    <3>1. Proper(job[t], t[2])'
      BY <1>0, <1>6, <1>7, <2>1 DEF Proper
    <3>2. Runs(t)'
      BY <1>0, <1>7, <2>1 DEF Runs
    <3> QED BY <1>0, <1>3, <3>1, <3>2 DEF Orders, NoCall
  <2>2. CASE t # s
    BY <1>0, <1>6, <2>2 DEF Whole, Agreed, Orders, Proper, Runs, Fits
  <2> QED BY <2>1, <2>2
<1>10. (\A k \in alive : Sending(k))' /\ Fetching' /\ Stored'
  BY <1>0, Frames
<1>11. FirstCopy' /\ Mailed'
  BY <1>0, <1>3, <1>8 DEF FirstCopy, Mailed
<1>12. Mourned'
  <2>1. Dead' = {} /\ Led'
    BY <1>0, <1>4 DEF Dead, Led
  <2> QED BY <2>1 DEF Mourned
<1>13. Mapped'
  <2>1. \A t \in Thread : \A k : (Todo(t, k) <=> Within(job[t], k)) /\ (Todo(t, k)' <=> Within(job'[t], k))
    BY DEF Todo, Within
  <2>2. /\ \A f : ReplicateTask(f).do = "replicate"
        /\ \A n, f : DeleteTask(n, f).do = "delete"
    BY DEF ReplicateTask, DeleteTask
  <2>3. \A t \in Thread : \A k : k.do # "repair" => ~Todo(t, k)
    BY <1>2, JobsOfLeader
  <2>4. \A t \in Thread, f \in File : ~Todo(t, ReplicateTask(f))'
    BY <1>6, <1>16, <2>1, <2>2, <2>3
  <2>5. \A t \in Thread, f \in File, n \in Node : ~Todo(t, DeleteTask(n, f))'
    BY <1>6, <1>16, <2>1, <2>2, <2>3
  <2>6. \A f \in File : ~Busy(f)' /\ ~Deleting(f)'
    BY <1>0, <1>3, <1>8, <2>4, <2>5 DEF Busy, Deleting
  <2>7. \A n : ~Replied(n)'
    BY <1>0, <1>3, <1>7 DEF Replied, NoCall
  <2>8. \A n \in alive : Todo(Starter, ListTask(n))'
    <3>1. \A n \in alive : Todo(s, ListTask(n))'
      BY <1>4, <1>6, <1>16, <2>1
    <3> QED BY <1>7, <3>1 DEF Todo
  <2>9. \A n \in alive : map'[leader'][n] = {}
    <3>1. map[m] = [k \in Node |-> {}]
      BY <1>2 DEF Whole, IInv, NobodyElse, Followers, Led
    <3> QED BY <1>0, <1>1, <3>1
  <2> QED BY <1>0, <1>8, <2>6, <2>7, <2>8, <2>9 DEF Mapped, Covered
<1> QED BY <1>0, <1>9, <1>10, <1>11, <1>12, <1>13 DEF Agreed

-----------------------------------------------------------------------------
(* Replicas are alike *)

\* What has gone wrong is not forgotten.
LEMMA MishapsStay == [Next]_vars => mishaps \subseteq mishaps'
<1> SUFFICES ASSUME [Next]_vars PROVE mishaps \subseteq mishaps'
  OBVIOUS
<1>1. CASE UNCHANGED mishaps
  BY <1>1
<1>2. ASSUME NEW n \in Node, GiveUp(n) \/ Copy(n) PROVE mishaps \subseteq mishaps'
  BY <1>2 DEF GiveUp, Copy
<1>3. ASSUME NEW n \in Node, Serve(n) PROVE mishaps \subseteq mishaps'
  BY <1>3 DEF Serve, ServePut, ServeGet, ServeDelete, ServeUpdate
<1>4. ASSUME NEW n \in Node, Obey(n) PROVE mishaps \subseteq mishaps'
  BY <1>4 DEF Obey, Refuse, DoList, DoDelete, DoReplicate
<1>5. ASSUME NEW n \in Node, Announce(n) PROVE mishaps \subseteq mishaps'
  BY <1>5 DEF Announce
<1>6. ASSUME NEW n \in Node, Crash(n) \/ Leave(n) PROVE mishaps \subseteq mishaps'
  BY <1>6 DEF Crash, Leave, Gone
<1>7. ASSUME NEW t \in Thread, Work(t) PROVE mishaps \subseteq mishaps'
  <2>1. CASE Repair(t)
    BY <2>1 DEF Repair
  <2>2. CASE Replicate(t) \/ Command(t)
    BY <2>2 DEF Replicate, Command
  <2> QED BY <1>7, <2>1, <2>2 DEF Work
<1> QED BY <1>1, <1>2, <1>3, <1>4, <1>5, <1>6, <1>7
  DEF Next, vars, noteVars, Ask, Report, Erase, Return, Fetched, Elect

LEMMA AgreedInit == Init => Agreed
<1> SUFFICES ASSUME Init PROVE Agreed
  OBVIOUS
<1>1. leader \in Node
  BY TypesInit DEF TInv, GroupT
<1>2. {Server, Starter} \subseteq Thread
  BY <1>1 DEF Server, Starter, Thread
<1>3. \A t \in Thread : job[t] = << >> /\ call[t] = NoCall
  BY DEF Init
<1>4. \A t \in Thread : \A k : ~Todo(t, k)
  BY <1>3 DEF Todo
<1>5. \A n \in Node : ~(service[n].state = "sending")
  BY DEF Init, Idle
<1>6. \A n \in Node : \A f : ~Copying(n, f)
  BY DEF Init, Copying, Ready
<1>7. alive = Node /\ members = Node /\ mail = {} /\ fetches = {} /\ Dead = {}
  BY DEF Init, Dead
<1>8. \A n, f : held[n] = {} \/ n \notin Node
  BY DEF Init
<1>9. \A t \in Thread : Orders(t)
  BY <1>3, <1>7, KindsOf DEF Orders, Proper, Runs, NoCall
<1>10. \A n \in alive : Sending(n)
  BY <1>5, <1>7 DEF Sending
<1>11. Fetching /\ Mailed /\ FirstCopy
  BY <1>6, <1>7 DEF Fetching, Mailed, FirstCopy
<1>12. Stored
  <2>1. Absent # Junk
    BY DEF Absent, Junk
  <2> QED BY <2>1 DEF Init, Stored
<1>13. Mourned
  BY <1>1, <1>7 DEF Mourned, Led
<1>14. Mapped
  <2>1. \A n : ~Replied(n)
    BY <1>2, <1>3 DEF Replied, NoCall
  <2>2. \A n \in Node : held[n] = {} /\ map[leader][n] = {}
    BY <1>1 DEF Init
  <2>3. ~Gathering
    BY <1>2, <1>3 DEF Gathering, Starter
  <2>4. \A f : ~Busy(f) /\ ~Deleting(f)
    BY <1>4, <1>6, <1>7 DEF Busy, Deleting
  <2> QED BY <1>7, <2>1, <2>2, <2>3, <2>4 DEF Mapped
<1> QED BY <1>9, <1>10, <1>11, <1>12, <1>13, <1>14 DEF Agreed

LEMMA AgreedStep ==
  TInv /\ IInv /\ RInv /\ (mishaps = {} => Agreed) /\ [Next]_vars => (mishaps = {} => Agreed)'
<1> SUFFICES ASSUME TInv, IInv, RInv, mishaps = {} => Agreed, [Next]_vars, mishaps' = {}
             PROVE  Agreed'
  OBVIOUS
<1>1. Whole
  BY MishapsStay DEF Whole
<1>2. CASE UNCHANGED vars
  <2>1. UNCHANGED <<alive, members, reported, leader, held, disk, got, user, mail, service,
                    fetches, map, job, call>>
    BY <1>2 DEF vars, groupVars, nodeVars, masterVars
  <2>2. Agreed
    BY <1>1 DEF Whole
  <2>3. UNCHANGED <<Led, Dead, Server, Starter, Repairer, Gathering, Names>>
    BY <2>1 DEF Led, Dead, Server, Starter, Repairer, Gathering, Names
  <2>4. \A t, k : Todo(t, k)' <=> Todo(t, k)
    BY <2>1 DEF Todo
  <2>5. \A n, f : Copying(n, f)' <=> Copying(n, f)
    BY <2>1 DEF Copying
  <2>6. (\A t \in Thread : Orders(t))' /\ (\A n \in alive : Sending(n))' /\ Fetching' /\ Stored' /\ Mourned'
    BY <1>1, <2>1, Frames
  <2>7. FirstCopy' /\ Mailed'
    BY <2>1, <2>2, <2>3, <2>5 DEF Agreed, FirstCopy, Mailed
  <2>8. /\ \A n : Replied(n)' <=> Replied(n)
        /\ \A n, f : /\ Told(n, f)' <=> Told(n, f)
                     /\ Struck(n, f)' <=> Struck(n, f)
    BY <2>1, <2>3 DEF Replied, Told, Struck
  <2>9. \A f : (Busy(f)' <=> Busy(f)) /\ (Deleting(f)' <=> Deleting(f))
    BY <2>1, <2>4, <2>5 DEF Busy, Deleting
  <2>10. \A n : Todo(Starter, ListTask(n)) => Todo(Starter, ListTask(n))'
    BY <2>1, <2>3 DEF Todo
  <2>11. \A f : Deleting(f) => Led
    BY <1>1, DeletionsOfServer
  <2>12. Mapped'
    BY <1>1, <2>1, <2>2, <2>3, <2>5, <2>8, <2>9, <2>10, <2>11, MappedStays DEF Agreed, Mapped
  <2> QED BY <2>6, <2>7, <2>12 DEF Agreed
<1>3. ASSUME NEW n \in Node, NEW op \in {"put", "get", "delete"}, NEW f \in File, Ask(n, op, f)
      PROVE  Agreed'
  BY <1>1, <1>3, AskAgreed
<1>4. ASSUME NEW n \in Node, GiveUp(n) PROVE Agreed'
  BY <1>1, <1>4, GiveUpAgreed
<1>5. ASSUME NEW n \in Node, Copy(n) PROVE Agreed'
  BY <1>1, <1>5, CopyAgreed
<1>6. ASSUME NEW n \in Node, Serve(n) PROVE Agreed'
  BY <1>1, <1>6, ServeAgreed
<1>7. ASSUME NEW n \in Node, Obey(n) PROVE Agreed'
  BY <1>1, <1>7, ObeyAgreed
<1>8. ASSUME NEW n \in Node, Announce(n) PROVE Agreed'
  BY <1>1, <1>8, AnnounceAgreed
<1>9. ASSUME NEW n \in Node, Crash(n) \/ Leave(n) PROVE Agreed'
  BY <1>1, <1>9, GoneAgreed
<1>10. ASSUME NEW n \in Node, Report(n) PROVE Agreed'
  BY <1>1, <1>10, ReportAgreed
<1>11. ASSUME NEW n \in Node, Erase(n) PROVE Agreed'
  BY <1>1, <1>11, EraseAgreed
<1>12. ASSUME NEW t \in Thread, Work(t) PROVE Agreed'
  BY <1>1, <1>12, WorkAgreed
<1>13. ASSUME NEW t \in Thread, Return(t) PROVE Agreed'
  BY <1>1, <1>13, ReturnAgreed
<1>14. ASSUME NEW x \in fetches, Fetched(x) PROVE Agreed'
  BY <1>1, <1>14, FetchedAgreed
<1>15. CASE Elect
  BY <1>1, <1>15, ElectAgreed
<1> QED BY <1>2, <1>3, <1>4, <1>5, <1>6, <1>7, <1>8, <1>9, <1>10, <1>11, <1>12, <1>13, <1>14, <1>15
  DEF Next

\* While nothing has gone wrong files, map, jobs and commands agree.
LEMMA AgreedAlways == Spec => [](TInv /\ (mishaps = {} => Agreed))
<1>1. Init => TInv /\ IInv /\ RInv /\ (mishaps = {} => Agreed)
  BY TypesInit, InvInit, RInvInit, AgreedInit
<1>2. /\ TInv /\ IInv /\ RInv /\ (mishaps = {} => Agreed) /\ [Next]_vars
      => (mishaps = {} => Agreed)'
  BY AgreedStep
<1>3. TInv /\ [Next]_vars => TInv'
  BY TypesStep
<1> QED BY <1>1, <1>2, <1>3, RInvAlways, PTL DEF Spec

\* Replicas of a name are alike, and neither a replica nor what a get hands over is
\* junk (Intact), for any group, files, users and bounds: while none of the mishaps of
\* the model has happened, whatever puts, gets and deletions compete, and whoever
\* crashes, leaves, is elected and repairs, one at a time, when nothing is under way.
THEOREM CopiesIntact == Spec => []Intact
<1>1. ASSUME TInv, mishaps = {} => Agreed PROVE Intact
  <2>1. Unmarred(Mishap) => mishaps = {}
    BY <1>1 DEF TInv, NotesT, Unmarred
  <2> QED BY <1>1, <2>1 DEF Intact, Agreed, Stored, CopiesOf
<1> QED BY AgreedAlways, <1>1, PTL

\* While nothing has gone wrong the list command is right at rest (MapTrue): the leader's
\* map names, for every file, exactly the nodes that hold it, whoever has been elected,
\* has gathered it and has repaired what failed nodes held.
THEOREM MapToldAtRest == Spec => [](Unmarred(Mishap) => MapTrue)
<1>1. ASSUME TInv /\ (mishaps = {} => Agreed), IInv /\ RInv PROVE Unmarred(Mishap) => MapTrue
  <2> SUFFICES ASSUME Unmarred(Mishap), Quiet, NEW f \in File
               PROVE  Holders(leader, f) = CopiesOf(f)
    BY DEF MapTrue
  <2>1. mishaps = {}
    BY <1>1 DEF TInv, NotesT, Unmarred
  <2>2. Whole
    BY <1>1, <2>1 DEF Whole
  <2>3. members = alive /\ \A n \in alive : map[leader][n] = held[n]
    BY <2>2, AtRest DEF Quiet
  <2> QED BY <2>3 DEF Holders, CopiesOf
<1> QED BY AgreedAlways, RInvAlways, <1>1, PTL

-----------------------------------------------------------------------------
(* While nothing has gone wrong: what is deleted *)

\* Of a file whose last change was its deletion no copies are being made, and for every
\* copy and every entry of the map that is left the master's thread has a deletion to do.
Erased(f) ==
  last[f] = "delete" =>
    /\ ~Busy(f)
    /\ \A n \in alive : f \in held[n] => Todo(Server, DeleteTask(n, f))
    /\ Led => \A n \in members : f \in map[leader][n] => Todo(Server, DeleteTask(n, f))

\* A thread that deletes has nothing else to do.
Alike ==
  \A i, j \in DOMAIN job[Server] : job[Server][i].do = "delete" => job[Server][j].do = "delete"

LEMMA ErasedStays ==
  ASSUME Whole, NEW f \in File, Erased(f), UNCHANGED <<alive, leader>>,
         members' \subseteq members, last'[f] = "delete" => last[f] = "delete",
         last[f] = "delete" /\ ~Busy(f) /\ last'[f] = "delete" =>
           /\ ~Busy(f)'
           /\ \A n \in alive : f \in held'[n] => f \in held[n]
           /\ Led => \A n \in members' : f \in map'[leader][n] => f \in map[leader][n]
           /\ \A n \in Node : Todo(Server, DeleteTask(n, f)) =>
                \/ Todo(Server, DeleteTask(n, f))'
                \/ (n \in alive => f \notin held'[n]) /\ f \notin map'[leader][n]
  PROVE  Erased(f)'
<1> SUFFICES ASSUME last'[f] = "delete" PROVE Erased(f)'
  BY DEF Erased
<1>1. /\ last[f] = "delete" /\ ~Busy(f)
      /\ \A n \in alive : f \in held[n] => Todo(Server, DeleteTask(n, f))
      /\ Led => \A n \in members : f \in map[leader][n] => Todo(Server, DeleteTask(n, f))
  BY DEF Erased
<1>2. alive \subseteq Node /\ members \subseteq Node
  BY DEF Whole, TInv, GroupT
<1>3. \A n \in alive : f \in held'[n] => Todo(Server, DeleteTask(n, f))'
  BY <1>1, <1>2
<1>4. Led => \A n \in members' : f \in map'[leader][n] => Todo(Server, DeleteTask(n, f))'
  BY <1>1, <1>2
<1> QED BY <1>1, <1>3, <1>4 DEF Erased, Led

LEMMA AlikeStays ==
  ASSUME Alike, UNCHANGED leader,
         \A i \in DOMAIN job'[Server] : \E j \in DOMAIN job[Server] : job'[Server][i] = job[Server][j]
  PROVE  Alike'
BY DEF Alike, Server

\* What changes neither the map nor the jobs, nor what is deleted.
LEMMA ErasedFrame ==
  ASSUME Whole, Alike, NEW f \in File, Erased(f), UNCHANGED <<alive, leader, map, last, job>>,
         members' \subseteq members,
         ~Busy(f) => ~Busy(f)' /\ \A n \in alive : f \in held'[n] => f \in held[n]
  PROVE  Erased(f)' /\ Alike'
<1>1. Alike'
  BY DEF Alike, Server
<1>2. \A n \in Node : Todo(Server, DeleteTask(n, f)) => Todo(Server, DeleteTask(n, f))'
  BY DEF Todo, Server
<1>3. Erased(f)'
  BY <1>2, ErasedStays
<1> QED BY <1>1, <1>3

LEMMA UsersErase ==
  ASSUME Whole, Alike, NEW f \in File, Erased(f), NEW n \in Node,
         \/ \E op \in {"put", "get", "delete"}, g \in File : Ask(n, op, g)
         \/ GiveUp(n)
         \/ Copy(n)
  PROVE  Erased(f)' /\ Alike'
<1>1. user \in [Node -> {Ready} \cup Requests \cup Copies] /\ held \in [Node -> SUBSET File]
      /\ alive \subseteq Node
  BY DEF Whole, TInv, UsersT, FilesT, GroupT
<1>2. ASSUME NEW op \in {"put", "get", "delete"}, NEW g \in File, Ask(n, op, g)
      PROVE  Erased(f)' /\ Alike'
  <2> PICK q : q = Request(op, n, g, asked')
    OBVIOUS
  <2>1. q.op # "update" /\ q.op # "copy"
    BY DEF Request
  <2>2. /\ UNCHANGED <<alive, members, leader, held, fetches, map, job, last>>
        /\ user' = user \/ user' = [user EXCEPT ![n] = q]
        /\ mail' \subseteq mail \cup {q}
    BY <1>2 DEF Ask, groupVars, masterVars
  <2>3. \A k \in alive : Copying(k, f)' => Copying(k, f)
    BY <1>1, <2>1, <2>2 DEF Copying
  <2>4. Busy(f)' => Busy(f)
    BY <2>1, <2>2, <2>3 DEF Busy, Todo
  <2> QED BY <2>2, <2>4, ErasedFrame
<1>3. CASE GiveUp(n)
  <2>2. /\ UNCHANGED <<alive, members, leader, held, fetches, mail, map, job, last>>
        /\ user' = [user EXCEPT ![n] = Ready]
    BY <1>3 DEF GiveUp, groupVars, masterVars
  <2>3. \A k \in alive : Copying(k, f)' => Copying(k, f)
    BY <1>1, <2>2 DEF Copying, Ready
  <2>4. Busy(f)' => Busy(f)
    BY <2>2, <2>3 DEF Busy, Todo
  <2> QED BY <2>2, <2>4, ErasedFrame
<1>4. CASE Copy(n)
  <2>2. /\ UNCHANGED <<alive, members, leader, fetches, mail, map, job, last>>
        /\ user' = [user EXCEPT ![n] = Ready] /\ n \in alive
        /\ held' = [held EXCEPT ![n] = @ \cup {user[n].file}] /\ Copying(n, user[n].file)
    BY <1>4 DEF Copy, groupVars, masterVars, Copying
  <2>3. \A k \in alive : Copying(k, f)' => Copying(k, f)
    BY <1>1, <2>2 DEF Copying, Ready
  <2>4. Busy(f)' => Busy(f)
    BY <2>2, <2>3 DEF Busy, Todo
  <2>5. ASSUME NEW k \in alive, f \in held'[k], ~Busy(f) PROVE f \in held[k]
    <3>1. user[n].file # f
      BY <2>2, <2>5 DEF Busy
    <3>2. f \in held[k] \/ (k = n /\ f = user[n].file)
      BY <1>1, <2>2, <2>5
    <3> QED BY <3>1, <3>2
  <2> QED BY <2>2, <2>4, <2>5, ErasedFrame
<1> QED BY <1>2, <1>3, <1>4

LEMMA NodesErase ==
  ASSUME Whole, Alike, NEW f \in File, Erased(f), NEW n \in Node, mishaps' = {},
         Obey(n) \/ Announce(n) \/ Erase(n)
  PROVE  Erased(f)' /\ Alike'
<1>1. held \in [Node -> SUBSET File] /\ alive \subseteq Node
  BY DEF Whole, TInv, FilesT, GroupT
<1>2. CASE Obey(n)
  <2>1. /\ UNCHANGED <<alive, members, leader, user, fetches, mail, map, job>>
        /\ UNCHANGED last
    BY <1>2 DEF Obey, groupVars
  <2>2. \A k \in alive : held'[k] \subseteq held[k]
    <3>1. UNCHANGED held \/ \E g : held' = [held EXCEPT ![n] = @ \ {g}]
      BY <1>2 DEF Obey, Refuse, DoList, DoDelete, DoReplicate
    <3> QED BY <1>1, <3>1
  <2>3. Busy(f)' => Busy(f)
    BY <2>1 DEF Busy, Copying, Todo
  <2> QED BY <2>1, <2>2, <2>3, ErasedFrame
<1>3. CASE Announce(n)
  <2>1. UNCHANGED last
    BY <1>3 DEF Announce
  <2>2. /\ UNCHANGED <<alive, members, leader, held, user, mail, map, job>>
        /\ n \in alive /\ service[n] \in Sends
        /\ call[service[n].by].file = service[n].file /\ call[service[n].by].keep = service[n].keep
        /\ call[service[n].by] \in ReplicateCalls
        /\ \/ UNCHANGED fetches
           \/ \E x : /\ x.file = service[n].file /\ x.keep = service[n].keep
                     /\ fetches' = fetches \cup {x}
    <3>1. "hasty" \notin mishaps' /\ "overlap" \notin mishaps'
      OBVIOUS
    <3>2. /\ UNCHANGED <<alive, members, reported, leader, held, disk, got, user, mail, map, job>>
          /\ n \in alive /\ service[n] \in Sends /\ Led
          /\ call[service[n].by] \in ReplicateCalls /\ call[service[n].by].state = "taken"
          /\ call[service[n].by].to = n /\ call[service[n].by].file = service[n].file
          /\ call[service[n].by].keep = service[n].keep
          /\ \/ UNCHANGED fetches
             \/ \E k \in alive :
                  /\ service[n].file \notin held[k] /\ service[n].file \in held[n]
                  /\ \A x \in fetches : ~(x.file = service[n].file /\ x.to = k)
                  /\ fetches' = fetches \cup {Fetch(service[n].file, n, k, service[n].keep,
                                                    disk[n][service[n].file])}
      BY <1>3, <3>1, AnnounceFacts
    <3>3. CASE UNCHANGED fetches
      BY <3>2, <3>3
    <3>4. CASE ~UNCHANGED fetches
      <4>1. PICK k \in alive : fetches' = fetches \cup {Fetch(service[n].file, n, k, service[n].keep,
                                                              disk[n][service[n].file])}
        BY <3>2, <3>4
      <4> PICK x : x = Fetch(service[n].file, n, k, service[n].keep, disk[n][service[n].file])
        OBVIOUS
      <4>2. x.file = service[n].file /\ x.keep = service[n].keep
        BY DEF Fetch
      <4> QED BY <3>2, <4>1, <4>2
    <3> QED BY <3>3, <3>4
  <2>3. service[n].keep => Busy(service[n].file)
    <3>1. service[n].by \in Thread /\ call[service[n].by].do = "replicate"
      BY <2>2 DEF Sends, ReplicateCalls
    <3> QED BY <2>2, <3>1, ReplicateCallFacts
  <2>4. ~Busy(f) => ~Busy(f)'
    BY <2>2, <2>3 DEF Busy, Copying, Todo
  <2> QED BY <2>1, <2>2, <2>4, ErasedFrame
<1>4. CASE Erase(n)
  <2>1. UNCHANGED <<alive, leader, held, user, fetches, mail, map, job, last>> /\ members' \subseteq members
    BY <1>4 DEF Erase, nodeVars, masterVars, noteVars
  <2>2. Busy(f)' => Busy(f)
    BY <2>1 DEF Busy, Copying, Todo
  <2> QED BY <2>1, <2>2, ErasedFrame
<1> QED BY <1>2, <1>3, <1>4

LEMMA FetchesErase ==
  ASSUME Whole, Alike, NEW f \in File, Erased(f), NEW x \in fetches, Fetched(x)
  PROVE  Erased(f)' /\ Alike'
<1>1. UNCHANGED <<alive, members, leader, user, map, job, last>> /\ fetches' \subseteq fetches
  BY DEF Fetched, groupVars, masterVars, noteVars
<1>2. held \in [Node -> SUBSET File] /\ alive \subseteq Node
  BY DEF Whole, TInv, FilesT, GroupT
<1>3. \/ UNCHANGED <<held, mail>>
      \/ /\ x.keep /\ held' = [held EXCEPT ![x.to] = held[x.to] \cup {x.file}]
         /\ mail' = mail \cup {[op |-> "update", from |-> x.to, file |-> x.file, to |-> leader]}
  BY FetchedFacts
<1>4. x.keep => Busy(x.file)
  BY DEF Busy
<1>5. ASSUME ~Busy(f) PROVE ~Busy(f)' /\ \A n \in alive : f \in held'[n] => f \in held[n]
  <2>1. UNCHANGED <<held, mail>> => ~Busy(f)'
    BY <1>1, <1>5 DEF Busy, Copying, Todo
  <2>2. ASSUME x.file # f, held' = [held EXCEPT ![x.to] = held[x.to] \cup {x.file}],
               mail' = mail \cup {[op |-> "update", from |-> x.to, file |-> x.file, to |-> leader]}
        PROVE  ~Busy(f)' /\ \A n \in alive : f \in held'[n] => f \in held[n]
    <3>1. ~Busy(f)'
      BY <1>1, <1>5, <2>2 DEF Busy, Copying, Todo
    <3> QED BY <1>2, <2>2, <3>1
  <2> QED BY <1>3, <1>4, <1>5, <2>1, <2>2
<1> QED BY <1>1, <1>5, ErasedFrame

\* What the master's service thread takes on when it has nothing to do.
LEMMA ServerTakes ==
  ASSUME Whole, NEW f \in File, Erased(f), job[Server] = << >>,
         UNCHANGED <<alive, members, leader, held>>,
         last'[f] = "delete" => last[f] = "delete",
         last[f] = "delete" /\ ~Busy(f) /\ last'[f] = "delete" =>
           ~Busy(f)' /\ \A n \in members : f \in map'[leader][n] => f \in map[leader][n]
  PROVE  Erased(f)'
<1>1. \A n : ~Todo(Server, DeleteTask(n, f))
  BY DEF Todo
<1> QED BY <1>1, ErasedStays

LEMMA ServePutErases ==
  ASSUME Whole, NEW f \in File, Erased(f), NEW m \in Node, Serve(m), NEW q \in mail, q.op = "put",
         q.file \in File, mail' = mail \ {q}, q.from \in alive, ServePut(Server, q)
  PROVE  Erased(f)' /\ Alike'
<1>0. /\ UNCHANGED <<alive, members, leader, held, fetches>>
      /\ Led /\ job[Server] = << >>
  BY ServeFacts
<1>1. NodeOf(Server) = leader /\ Server \in Thread
  BY LeadersThreads DEF Whole, TInv
<1> PICK u : u = [op |-> "copy", file |-> q.file]
  OBVIOUS
<1>2. CASE Count(leader, q.file) = 0
  <2>1. /\ user' = user \/ user' = [user EXCEPT ![q.from] = u]
        /\ map' = [map EXCEPT ![leader][q.from] = map[leader][q.from] \cup {q.file}]
        /\ job' = [job EXCEPT ![Server] = <<ReplicateTask(q.file)>>]
        /\ last' = [last EXCEPT ![q.file] = "put"]
    BY <1>1, <1>2 DEF ServePut, Answer
  <2>2. /\ map \in [Node -> [Node -> SUBSET File]] /\ leader \in Node
        /\ q.from \in Node /\ members \subseteq Node /\ alive \subseteq Node
        /\ user \in [Node -> {Ready} \cup Requests \cup Copies]
        /\ last \in [File -> {"none", "put", "delete"}] /\ job \in [Thread -> Seq(Tasks)]
    BY DEF Whole, TInv, ThreadsT, GroupT, UsersT, NotesT
  <2>3. last'[f] = "delete" => last[f] = "delete" /\ f # q.file
    BY <2>1, <2>2
  <2>4. ASSUME f # q.file, Busy(f)' PROVE Busy(f)
    <3>1. \A k \in alive : Copying(k, f)' => Copying(k, f)
      <4>1. u.file # f
        BY <2>4
      <4>2. \A k \in Node : user'[k] = user[k] \/ user'[k] = u
        BY <2>1, <2>2
      <4> QED BY <2>2, <4>1, <4>2 DEF Copying
    <3>2. \A t \in Thread : Todo(t, ReplicateTask(f))' => Todo(t, ReplicateTask(f))
      <4>1. ReplicateTask(q.file) # ReplicateTask(f)
        BY <2>4 DEF ReplicateTask
      <4> SUFFICES ASSUME NEW t \in Thread, Todo(t, ReplicateTask(f))' PROVE Todo(t, ReplicateTask(f))
        OBVIOUS
      <4>2. t = Server => job'[t] = <<ReplicateTask(q.file)>>
        BY <1>1, <2>1, <2>2
      <4>3. t # Server => job'[t] = job[t]
        BY <1>1, <2>1, <2>2
      <4> QED BY <4>1, <4>2, <4>3 DEF Todo
    <3> QED BY <1>0, <2>4, <3>1, <3>2 DEF Busy
  <2>5. ASSUME f # q.file, NEW n \in members, f \in map'[leader][n] PROVE f \in map[leader][n]
    BY <2>1, <2>2, <2>5
  <2>6. Erased(f)'
    BY <1>0, <2>3, <2>4, <2>5, ServerTakes
  <2>7. job'[Server] = <<ReplicateTask(q.file)>>
    BY <1>1, <2>1, <2>2
  <2>8. \A i \in DOMAIN job'[Server] : job'[Server][i].do # "delete"
    BY <2>7 DEF ReplicateTask
  <2>9. Server' = Server
    BY <1>0 DEF Server
  <2> QED BY <2>6, <2>8, <2>9 DEF Alike
<1>3. CASE Count(leader, q.file) # 0
  <2>1. Answer(q, Ready) /\ UNCHANGED <<map, job, last>>
    BY <1>1, <1>3 DEF ServePut
  <2>2. \A k \in alive : Copying(k, f)' <=> Copying(k, f)
    BY <1>0, <2>1, Refused
  <2>3. Busy(f)' => Busy(f)
    BY <1>0, <2>1, <2>2 DEF Busy, Todo
  <2>4. Erased(f)'
    BY <1>0, <2>1, <2>3, ServerTakes
  <2>5. Alike'
    BY <1>0, <2>1 DEF Alike, Server
  <2> QED BY <2>4, <2>5
<1> QED BY <1>2, <1>3

LEMMA ServeGetErases ==
  ASSUME Whole, NEW f \in File, Erased(f), NEW m \in Node, Serve(m), NEW q \in mail, q.op = "get",
         mail' = mail \ {q}, ServeGet(Server, q)
  PROVE  Erased(f)' /\ Alike'
<1>0. /\ UNCHANGED <<alive, members, leader, held, fetches>>
      /\ Led /\ job[Server] = << >>
  BY ServeFacts
<1>1. Server \in Thread /\ job \in [Thread -> Seq(Tasks)]
  BY LeadersThreads DEF Whole, TInv, ThreadsT
<1>2. Answer(q, Ready) /\ UNCHANGED <<map, last>> /\ (job' = job \/ job' = [job EXCEPT ![Server] = <<GetTask>>])
  BY DEF ServeGet
<1>3. \A k \in alive : Copying(k, f)' <=> Copying(k, f)
  BY <1>0, <1>2, Refused
<1>4. job'[Server] = << >> \/ job'[Server] = <<GetTask>>
  BY <1>0, <1>1, <1>2
<1>5. \A t \in Thread : Todo(t, ReplicateTask(f))' => Todo(t, ReplicateTask(f))
  <2> SUFFICES ASSUME NEW t \in Thread, Todo(t, ReplicateTask(f))' PROVE Todo(t, ReplicateTask(f))
    OBVIOUS
  <2>1. GetTask # ReplicateTask(f)
    BY DEF GetTask, ReplicateTask
  <2>2. t = Server => job'[t] = << >> \/ job'[t] = <<GetTask>>
    BY <1>4
  <2>3. t # Server => job'[t] = job[t]
    BY <1>1, <1>2
  <2> QED BY <2>1, <2>2, <2>3 DEF Todo
<1>6. Busy(f)' => Busy(f)
  BY <1>0, <1>3, <1>5 DEF Busy
<1>7. Erased(f)'
  BY <1>0, <1>2, <1>6, ServerTakes
<1>8. \A i \in DOMAIN job'[Server] : job'[Server][i].do # "delete"
  BY <1>4 DEF GetTask
<1>9. Server' = Server
  BY <1>0 DEF Server
<1> QED BY <1>7, <1>8, <1>9 DEF Alike

LEMMA ServeUpdateErases ==
  ASSUME Whole, Alike, NEW f \in File, Erased(f), NEW m \in Node, Serve(m), NEW q \in mail,
         q.op = "update", q.from \in alive, mail' = mail \ {q}, ServeUpdate(Server, q)
  PROVE  Erased(f)' /\ Alike'
<1>0. /\ UNCHANGED <<alive, members, leader, held, fetches>>
      /\ Led /\ job[Server] = << >>
  BY ServeFacts
<1>1. NodeOf(Server) = leader /\ map \in [Node -> [Node -> SUBSET File]] /\ leader \in Node
      /\ members \subseteq Node
  BY LeadersThreads DEF Whole, TInv, ThreadsT, GroupT
<1>2. /\ map' = [map EXCEPT ![leader][q.from] = @ \cup {q.file}]
      /\ UNCHANGED <<user, job, last>>
  BY <1>1 DEF ServeUpdate
<1>3. q.file = f => Busy(f)
  BY DEF Busy
<1>4. Busy(f)' => Busy(f)
  BY <1>0, <1>2 DEF Busy, Todo, Copying
<1>5. ASSUME q.file # f, NEW n \in members, f \in map'[leader][n] PROVE f \in map[leader][n]
  BY <1>1, <1>2, <1>5
<1>6. Erased(f)'
  BY <1>0, <1>2, <1>3, <1>4, <1>5, ServerTakes
<1>7. Alike'
  BY <1>0, <1>2 DEF Alike, Server
<1> QED BY <1>6, <1>7

LEMMA ServeDeleteErases ==
  ASSUME Whole, Alike, NEW f \in File, Erased(f), NEW m \in Node, Serve(m), NEW q \in mail,
         q.op = "delete", q.file \in File, mail' = mail \ {q}, ServeDelete(Server, q), mishaps' = {}
  PROVE  Erased(f)' /\ Alike'
<1> DEFINE have == Holders(NodeOf(Server), q.file)
           d == [i \in 1 .. Cardinality(have) |-> DeleteTask(Nth(have, i), q.file)]
<1>0. /\ UNCHANGED <<alive, members, leader, held, fetches>>
      /\ Led /\ job[Server] = << >>
  BY ServeFacts
<1>1. /\ UNCHANGED map /\ Answer(q, Ready)
      /\ \/ UNCHANGED <<job, last>>
         \/ /\ job' = [job EXCEPT ![Server] = d] /\ last' = [last EXCEPT ![q.file] = "delete"]
            /\ ~Gathering /\ ~Moving(q.file)
  BY DEF ServeDelete, Each
<1>2. /\ Server \in Thread /\ job \in [Thread -> Seq(Tasks)] /\ NodeOf(Server) = leader
      /\ last \in [File -> {"none", "put", "delete"}]
  BY LeadersThreads DEF Whole, TInv, ThreadsT, NotesT
<1>3. have \in SUBSET Nat /\ IsFiniteSet(have)
  <2>1. have \in SUBSET Node
    BY DEF Holders, Whole, TInv, GroupT
  <2> QED BY <2>1, ReplicationAssumption, FS_Subset
<1>4. /\ \A n \in have : \E i \in DOMAIN d : d[i] = DeleteTask(n, q.file)
      /\ \A i \in DOMAIN d : d[i].do = "delete" /\ d[i].file = q.file
  <2>1. \A n \in have : \E i \in 1 .. Cardinality(have) : Nth(have, i) = n
    BY <1>3, PlaceOf
  <2> QED BY <2>1 DEF DeleteTask
<1> HIDE DEF d
<1>5. \A k \in alive : Copying(k, f)' <=> Copying(k, f)
  BY <1>0, <1>1, Refused
<1>6. Server' = Server
  BY <1>0 DEF Server
<1>7. CASE UNCHANGED <<job, last>>
  <2>1. Busy(f)' => Busy(f)
    BY <1>0, <1>5, <1>7 DEF Busy, Todo
  <2>2. Erased(f)'
    BY <1>0, <1>1, <1>7, <2>1, ServerTakes
  <2> QED BY <1>6, <1>7, <2>2 DEF Alike
<1>8. CASE /\ job' = [job EXCEPT ![Server] = d] /\ last' = [last EXCEPT ![q.file] = "delete"]
           /\ ~Gathering /\ ~Moving(q.file)
  <2>1. job'[Server] = d /\ \A t \in Thread : t # Server => job'[t] = job[t]
    BY <1>2, <1>8
  <2>2. Alike'
    BY <1>4, <1>6, <2>1 DEF Alike
  <2>3. \A t \in Thread : Todo(t, ReplicateTask(f))' => Todo(t, ReplicateTask(f))
    <3> SUFFICES ASSUME NEW t \in Thread, Todo(t, ReplicateTask(f))' PROVE Todo(t, ReplicateTask(f))
      OBVIOUS
    <3>1. ReplicateTask(f).do # "delete"
      BY DEF ReplicateTask
    <3> QED BY <1>4, <2>1, <3>1 DEF Todo
  <2>4. Busy(f)' => Busy(f)
    BY <1>0, <1>5, <2>3 DEF Busy
  <2>5. CASE f # q.file
    BY <1>0, <1>1, <1>2, <1>8, <2>2, <2>4, <2>5, ServerTakes
  <2>6. CASE f = q.file
    <3>1. ~Busy(f)'
      BY <1>8, <2>4, <2>6, BusyMoves
    <3>2. \A n \in members : f \in map[leader][n] => Todo(Server, DeleteTask(n, f))'
      BY <1>2, <1>4, <1>6, <2>1, <2>6 DEF Todo, Holders
    <3>3. ASSUME NEW n \in alive, f \in held[n] PROVE f \in map[leader][n]
      <4>1. Covered(n, f)
        BY <1>0, <3>3 DEF Whole, Agreed, Mapped
      <4>2. ~Told(n, f)
        BY <1>8, <2>6, BusyMoves DEF Busy, Told
      <4>3. ~Replied(n)
        BY <1>8, RepliedFacts
      <4>4. ~Todo(Starter, ListTask(n))
        BY <1>8 DEF Todo, Gathering, Starter
      <4> QED BY <4>1, <4>2, <4>3, <4>4 DEF Covered
    <3>4. alive \subseteq members
      BY DEF Whole, IInv, AliveListed
    <3>5. Erased(f)'
      BY <1>0, <1>1, <3>1, <3>2, <3>3, <3>4 DEF Erased, Led
    <3> QED BY <2>2, <3>5
  <2> QED BY <2>5, <2>6
<1> QED BY <1>1, <1>7, <1>8

LEMMA ServeErases ==
  ASSUME Whole, Alike, NEW f \in File, Erased(f), NEW m \in Node, Serve(m), mishaps' = {}
  PROVE  Erased(f)' /\ Alike'
BY ServeFacts, ServePutErases, ServeGetErases, ServeUpdateErases, ServeDeleteErases

LEMMA GoneErases ==
  ASSUME Whole, NEW f \in File, Erased(f), NEW n \in Node, Crash(n) \/ Leave(n), mishaps' = {}
  PROVE  Erased(f)' /\ Alike'
<1>1. /\ Gone(n) /\ members' \subseteq members
  BY DEF Crash, Leave
<1>2. Quiet
  BY <1>1 DEF Gone
<1>3. /\ Led /\ mail = {} /\ fetches = {}
      /\ \A k \in alive : user[k] = Ready
      /\ \A t \in Thread : job[t] = << >>
  BY <1>2, AtRest
<1>4. /\ alive' \subseteq alive /\ UNCHANGED <<leader, held, map, last>>
      /\ fetches' = {} /\ mail' = {} /\ user' = [user EXCEPT ![n] = Ready]
      /\ job' = [t \in Thread |-> IF NodeOf(t) = n THEN << >> ELSE job[t]]
  BY <1>1, <1>3 DEF Gone
<1>5. user \in [Node -> {Ready} \cup Requests \cup Copies] /\ alive \subseteq Node
      /\ Server \in Thread
  BY LeadersThreads DEF Whole, TInv, UsersT, GroupT
<1>6. \A t \in Thread : job'[t] = << >>
  BY <1>3, <1>4
<1>7. \A k \in alive' : user'[k] = Ready
  BY <1>3, <1>4, <1>5
<1>8. ~Busy(f)'
  BY <1>4, <1>6, <1>7 DEF Busy, Copying, Ready, Todo
<1>9. \A k : ~Todo(Server, DeleteTask(k, f))
  BY <1>3, <1>5 DEF Todo
<1>10. Erased(f)'
  BY <1>1, <1>3, <1>4, <1>8, <1>9 DEF Erased, Led
<1>11. Server' = Server
  BY <1>4 DEF Server
<1>12. Alike'
  BY <1>5, <1>6, <1>11 DEF Alike
<1> QED BY <1>10, <1>12

LEMMA ReportErases ==
  ASSUME Whole, Alike, NEW f \in File, Erased(f), NEW n \in Node, Report(n)
  PROVE  Erased(f)' /\ Alike'
<1> PICK k \in Tasks : k = RepairTask({n})
  BY DEF Tasks, Repairs
<1>1. UNCHANGED <<alive, members, leader, held, user, fetches, mail, map, last>>
  BY DEF Report, nodeVars, noteVars
<1>2. \A t \in Thread : job'[t] = job[t] \/ (t[2] = "repair" /\ job'[t] = Append(job[t], k))
  BY DEF Report
<1>3. /\ job \in [Thread -> Seq(Tasks)] /\ Server \in Thread /\ Server[2] = "serve"
  BY LeadersThreads DEF Whole, TInv, ThreadsT
<1>4. job'[Server] = job[Server] /\ Server' = Server
  BY <1>1, <1>2, <1>3 DEF Server
<1>5. ASSUME NEW t \in Thread, Todo(t, ReplicateTask(f))' PROVE Todo(t, ReplicateTask(f))
  <2>1. ReplicateTask(f) # k
    BY DEF ReplicateTask, RepairTask
  <2>2. CASE job'[t] = job[t]
    BY <1>5, <2>2 DEF Todo
  <2>3. CASE job'[t] = Append(job[t], k)
    <3>1. PICK i \in DOMAIN Append(job[t], k) : Append(job[t], k)[i] = ReplicateTask(f)
      BY <1>5, <2>3 DEF Todo
    <3>2. job[t] \in Seq(Tasks)
      BY <1>3
    <3>3. i \in DOMAIN job[t] /\ job[t][i] = ReplicateTask(f)
      BY <2>1, <3>1, <3>2
    <3> QED BY <3>3 DEF Todo
  <2> QED BY <1>2, <2>2, <2>3
<1>6. Busy(f)' => Busy(f)
  BY <1>1, <1>5 DEF Busy, Copying
<1>7. \A j : Todo(Server, DeleteTask(j, f)) => Todo(Server, DeleteTask(j, f))'
  BY <1>4 DEF Todo
<1>8. Erased(f)'
  BY <1>1, <1>6, <1>7, ErasedStays
<1>9. Alike'
  BY <1>4 DEF Alike
<1> QED BY <1>8, <1>9

LEMMA ElectErases ==
  ASSUME Whole, NEW f \in File, Erased(f), Elect
  PROVE  Erased(f)' /\ Alike'
<1> PICK m \in alive : m = Lowest(alive)
  <2>1. alive \in (SUBSET Node) \ {{}}
    BY DEF Whole, TInv, GroupT
  <2> QED BY <2>1, LowestIn
<1> PICK s \in Thread : s = <<m, "start">>
  BY DEF Thread, Whole, TInv, GroupT
<1>1. /\ UNCHANGED <<alive, members, held, user, fetches, mail, map, last>>
      /\ leader \notin members /\ leader' = m
      /\ job' = [job EXCEPT ![s] = Each(members, ListTask) \o <<RepairTask({})>>]
  BY DEF Elect, nodeVars, noteVars
<1>2. ~Led /\ m # leader
  BY <1>1 DEF Led, Whole, IInv, AliveListed
<1>3. members \in SUBSET Node /\ alive \subseteq Node
  BY DEF Whole, TInv, GroupT
<1>4. PICK e : /\ \A g \in File : ~Within(e, ReplicateTask(g))
               /\ job' = [job EXCEPT ![s] = e]
  BY <1>1, <1>3, ElectionsJob
<1>5. job'[s] = e /\ \A t \in Thread \ {s} : job'[t] = job[t]
  BY <1>4 DEF Whole, TInv, ThreadsT
<1>6. \A t \in Thread : Todo(t, ReplicateTask(f))' => Todo(t, ReplicateTask(f))
  BY <1>4, <1>5 DEF Todo, Within
<1>7. Busy(f)' => Busy(f)
  BY <1>1, <1>6 DEF Busy, Copying
<1>8. \A j \in Node : ~Todo(Server, DeleteTask(j, f))
  <2>1. \A j : DeleteTask(j, f).do = "delete"
    BY DEF DeleteTask
  <2>2. Server \in Thread
    BY LeadersThreads DEF Whole, TInv
  <2> QED BY <1>2, <2>1, <2>2, JobsOfLeader
<1>9. \A j \in Node : map[m][j] = {}
  BY <1>2 DEF Whole, IInv, NobodyElse, Followers
<1>10. Erased(f)'
  <2> SUFFICES ASSUME last'[f] = "delete" PROVE Erased(f)'
    BY DEF Erased
  <2>1. ~Busy(f) /\ \A j \in alive : f \notin held[j]
    BY <1>1, <1>3, <1>8 DEF Erased
  <2>2. \A j \in members : f \notin map'[leader'][j]
    BY <1>1, <1>3, <1>9
  <2> QED BY <1>1, <1>7, <2>1, <2>2 DEF Erased
<1>11. Alike'
  <2> PICK r \in Thread : r = <<m, "serve">>
    BY <1>3 DEF Thread
  <2>1. Server' = r /\ r # s /\ NodeOf(r) = m
    BY <1>1 DEF Server, NodeOf
  <2>2. job[r] \in Seq(Repairs)
    BY <1>2, <2>1 DEF Whole, IInv, NobodyElse, Followers
  <2>3. \A i \in DOMAIN job[r] : job[r][i] \in Repairs
    BY <2>2
  <2>4. \A x \in Repairs : x.do = "repair"
    BY DEF Repairs, RepairTask
  <2>5. job'[r] = job[r]
    BY <1>5, <2>1
  <2> QED BY <2>1, <2>3, <2>4, <2>5 DEF Alike
<1> QED BY <1>10, <1>11

\* What a thread that has nothing to delete does.
LEMMA WorkersErase ==
  ASSUME Whole, Alike, NEW f \in File, Erased(f),
         UNCHANGED <<alive, members, leader, held, user, fetches, mail, last>>,
         NEW t \in Thread, NEW e, job' = [job EXCEPT ![t] = e],
         \A n \in members : Led /\ f \in map'[leader][n] => f \in map[leader][n],
         last[f] = "delete" /\ ~Busy(f) => ~Within(e, ReplicateTask(f)),
         t = Server => /\ \A i \in DOMAIN job[t] : job[t][i].do # "delete"
                       /\ \A i \in DOMAIN e : e[i].do # "delete"
  PROVE  Erased(f)' /\ Alike'
<1>1. job'[t] = e /\ \A r \in Thread \ {t} : job'[r] = job[r]
  BY DEF Whole, TInv, ThreadsT
<1>2. Server \in Thread /\ Server' = Server
  BY LeadersThreads DEF Whole, TInv, Server
<1>3. ASSUME last[f] = "delete", ~Busy(f) PROVE ~Busy(f)'
  <2>1. \A r \in Thread : ~Todo(r, ReplicateTask(f))'
    <3>1. ~Todo(t, ReplicateTask(f))'
      BY <1>1, <1>3 DEF Todo, Within
    <3>2. \A r \in Thread \ {t} : ~Todo(r, ReplicateTask(f))'
      BY <1>1, <1>3 DEF Todo, Busy
    <3> QED BY <3>1, <3>2
  <2> QED BY <1>3, <2>1 DEF Busy, Copying
<1>4. CASE t = Server
  <2>1. \A n : ~Todo(Server, DeleteTask(n, f))
    <3>1. \A n : DeleteTask(n, f).do = "delete"
      BY DEF DeleteTask
    <3> QED BY <1>4, <3>1 DEF Todo
  <2>2. Erased(f)'
    BY <1>3, <2>1, ErasedStays
  <2> QED BY <1>1, <1>2, <1>4, <2>2 DEF Alike
<1>5. CASE t # Server
  <2>1. job'[Server] = job[Server]
    BY <1>1, <1>2, <1>5
  <2>2. \A n : Todo(Server, DeleteTask(n, f)) => Todo(Server, DeleteTask(n, f))'
    BY <1>2, <2>1 DEF Todo
  <2>3. Erased(f)'
    BY <1>3, <2>2, ErasedStays
  <2> QED BY <1>2, <2>1, <2>3 DEF Alike
<1> QED BY <1>4, <1>5

LEMMA WorkErases ==
  ASSUME Whole, Alike, NEW f \in File, Erased(f), NEW t \in Thread, Work(t), mishaps' = {}
  PROVE  Erased(f)' /\ Alike'
<1>0. /\ UNCHANGED <<alive, members, leader, held, user, fetches, mail, last>>
      /\ job[t] # << >>
      /\ \/ Head(job[t]).do = "repair" /\ Repair(t)
         \/ Head(job[t]).do = "replicate" /\ Replicate(t)
         \/ Head(job[t]).do \in {"list", "delete"} /\ Command(t)
  BY DEF Work, groupVars, nodeVars
<1>1. job[t] \in Seq(Tasks) /\ members \subseteq Node /\ leader \in Node
  BY DEF Whole, TInv, ThreadsT, GroupT
<1>2. Head(job[t]) = job[t][1] /\ 1 \in DOMAIN job[t]
  BY <1>0, <1>1, FirstOf
<1>3. ASSUME Head(job[t]).do = "repair", Repair(t) PROVE Erased(f)' /\ Alike'
  <2>1. PICK names \in SUBSET File, lost \in SUBSET Node, e \in Seq(Tasks) :
          RepairLeaves(t, names, lost, e)
    BY <1>3, RepairFacts
  <2>2. /\ t[2] # "serve" /\ job' = [job EXCEPT ![t] = e]
        /\ \A n \in Node : map'[leader][n] \subseteq map[leader][n]
        /\ \A g \in names : ~Deleting(g) /\ NodeOf(t) = leader
        /\ \A g \in names : \E n \in members : g \in map[leader][n]
        /\ \A k : Within(e, k) => Within(job[t], k) \/ \E g \in names : k = ReplicateTask(g)
    BY <2>1 DEF RepairLeaves
  <2>3. Runs(t)
    BY DEF Work, Runs
  <2>4. ASSUME last[f] = "delete", ~Busy(f), Within(e, ReplicateTask(f)) PROVE FALSE
    <3>1. ~Within(job[t], ReplicateTask(f))
      BY <2>4 DEF Busy, Todo, Within
    <3>2. PICK g \in names : ReplicateTask(f) = ReplicateTask(g)
      BY <2>2, <2>4, <3>1
    <3>3. f = g
      BY <3>2 DEF ReplicateTask
    <3>4. Led /\ ~Deleting(f)
      BY <2>2, <2>3, <3>3 DEF Led, Runs
    <3>5. PICK n \in members : f \in map[leader][n]
      BY <2>2, <3>3
    <3>6. Todo(Server, DeleteTask(n, f))
      BY <2>4, <3>4, <3>5 DEF Erased
    <3>7. Server \in Thread
      BY LeadersThreads DEF Whole, TInv
    <3> QED BY <1>1, <3>4, <3>6, <3>7 DEF Deleting
  <2>5. t # Server
    BY <2>2, LeadersThreads DEF Whole, TInv
  <2>6. \A n \in members : f \in map'[leader][n] => f \in map[leader][n]
    BY <1>1, <2>2
  <2> QED BY <1>0, <2>2, <2>4, <2>5, <2>6, WorkersErase
<1>4. ASSUME Head(job[t]).do = "replicate", Replicate(t) PROVE Erased(f)' /\ Alike'
  <2> PICK g : g = Head(job[t]).file
    OBVIOUS
  <2>1. /\ UNCHANGED map
        /\ \/ job' = Rest(t)
           \/ \E excess : job' = [job EXCEPT ![t] = <<EndlessTask(g, excess)>>]
           \/ UNCHANGED job
    BY <1>4 DEF Replicate
  <2>2. t = Server => \A i \in DOMAIN job[t] : job[t][i].do # "delete"
    BY <1>2, <1>4 DEF Alike
  <2>3. CASE job' = Rest(t)
    <3> PICK e : e = Tail(job[t])
      OBVIOUS
    <3>1. job' = [job EXCEPT ![t] = e]
      BY <2>3 DEF Rest
    <3>2. \A k : Within(e, k) => Within(job[t], k)
      BY <1>0, <1>1, TailWithin
    <3>3. t = Server => \A i \in DOMAIN e : e[i].do # "delete"
      BY <2>2, <3>2 DEF Within
    <3>4. ~Busy(f) => ~Within(e, ReplicateTask(f))
      BY <3>2 DEF Busy, Todo, Within
    <3> QED BY <1>0, <2>1, <2>2, <3>1, <3>3, <3>4, WorkersErase
  <2>4. ASSUME NEW excess, job' = [job EXCEPT ![t] = <<EndlessTask(g, excess)>>]
        PROVE  Erased(f)' /\ Alike'
    <3> PICK e : e = <<EndlessTask(g, excess)>>
      OBVIOUS
    <3>1. DOMAIN e = {1} /\ e[1].do = "endless"
      BY DEF EndlessTask
    <3>2. ReplicateTask(f).do = "replicate"
      BY DEF ReplicateTask
    <3>3. ~Within(e, ReplicateTask(f)) /\ \A i \in DOMAIN e : e[i].do # "delete"
      BY <3>1, <3>2 DEF Within
    <3> QED BY <1>0, <2>1, <2>2, <2>4, <3>3, WorkersErase
  <2>5. CASE UNCHANGED job
    <3>1. ~Busy(f) => ~Busy(f)'
      BY <1>0, <2>5 DEF Busy, Copying, Todo
    <3> QED BY <1>0, <2>1, <2>5, <3>1, ErasedFrame
  <2> QED BY <2>1, <2>3, <2>4, <2>5
<1>5. ASSUME Command(t) PROVE Erased(f)' /\ Alike'
  <2>1. UNCHANGED <<map, job>>
    BY <1>5 DEF Command
  <2>2. ~Busy(f) => ~Busy(f)'
    BY <1>0, <2>1 DEF Busy, Copying, Todo
  <2> QED BY <1>0, <2>1, <2>2, ErasedFrame
<1> QED BY <1>0, <1>3, <1>4, <1>5

LEMMA ReturnErases ==
  ASSUME Whole, Alike, NEW f \in File, Erased(f), NEW t \in Thread, Return(t)
  PROVE  Erased(f)' /\ Alike'
<1>1. /\ UNCHANGED <<alive, members, leader, held, user, fetches, mail>>
      /\ Led /\ NodeOf(t) = leader /\ call[t].state = "done"
      /\ job[t] # << >> /\ Fits(call[t], Head(job[t])) /\ call[t].to \in Node
      /\ call[t].do \in {"list", "delete", "replicate"}
      /\ job'[t] = Tail(job[t])
      /\ \A r \in Thread \ {t} : job'[r] = job[r]
      /\ \A r \in Thread : \A k : Todo(r, k)' => Todo(r, k)
      /\ \A r \in Thread : \A k : Todo(r, k) => Todo(r, k)' \/ (r = t /\ k = Head(job[t]))
  BY ReturnFacts
<1>2. UNCHANGED last
  BY DEF Return, noteVars
<1>3. /\ Server \in Thread /\ Server' = Server /\ Starter # Server /\ job[t] \in Seq(Tasks)
      /\ map \in [Node -> [Node -> SUBSET File]] /\ leader \in Node /\ members \subseteq Node
      /\ alive \subseteq Node
  BY <1>1, LeadersThreads DEF Whole, TInv, ThreadsT, GroupT, Server
<1>4. Busy(f)' => Busy(f)
  BY <1>1 DEF Busy, Copying
<1>5. Alike'
  <2>1. \A k : Within(Tail(job[t]), k) => Within(job[t], k)
    BY <1>1, <1>3, TailWithin
  <2>2. \A i \in DOMAIN job'[Server] : \E j \in DOMAIN job[Server] : job'[Server][i] = job[Server][j]
    <3>1. CASE t = Server
      BY <1>1, <2>1, <3>1 DEF Within
    <3>2. CASE t # Server
      BY <1>1, <1>3, <3>2
    <3> QED BY <3>1, <3>2
  <2> QED BY <1>1, <2>2, AlikeStays
<1>6. map' = [map EXCEPT ![NodeOf(t)][call[t].to] =
                IF call[t].do = "list" /\ call[t].names # {} THEN call[t].names
                ELSE IF call[t].do = "delete" THEN @ \ {call[t].file} ELSE @]
  BY DEF Return
<1>7. ASSUME NEW r \in Thread, r = Server PROVE \A k : Todo(r, k)' <=> Todo(Server, k)'
  BY <1>3, <1>7 DEF Todo
<1>8. CASE call[t].do = "replicate"
  <2>1. UNCHANGED map
    BY <1>1, <1>3, <1>6, <1>8
  <2>2. \A n : Head(job[t]) # DeleteTask(n, f)
    BY <1>1, <1>8 DEF Fits, ReplicateTask, GetTask, DeleteTask
  <2>3. \A n : Todo(Server, DeleteTask(n, f)) => Todo(Server, DeleteTask(n, f))'
    BY <1>1, <1>3, <1>7, <2>2
  <2>4. Erased(f)'
    BY <1>1, <1>2, <1>4, <2>1, <2>3, ErasedStays
  <2> QED BY <1>5, <2>4
<1>9. CASE call[t].do = "delete"
  <2>1. t = Server /\ Head(job[t]) = DeleteTask(call[t].to, call[t].file)
    BY <1>9, DeleteCallFacts
  <2>2. \A n \in Node : map'[leader][n] =
          IF n = call[t].to THEN map[leader][n] \ {call[t].file} ELSE map[leader][n]
    BY <1>1, <1>3, <1>6, <1>9
  <2>3. call[t].to \in alive => call[t].file \notin held[call[t].to]
    BY <1>1, <1>9 DEF Whole, Agreed, Orders
  <2>4. ASSUME NEW n \in Node, Todo(Server, DeleteTask(n, f)), ~Todo(Server, DeleteTask(n, f))'
        PROVE  (n \in alive => f \notin held'[n]) /\ f \notin map'[leader][n]
    <3>1. DeleteTask(n, f) = DeleteTask(call[t].to, call[t].file)
      BY <1>1, <1>3, <1>7, <2>1, <2>4
    <3>2. n = call[t].to /\ f = call[t].file
      BY <3>1 DEF DeleteTask
    <3> QED BY <1>1, <2>2, <2>3, <3>2
  <2>5. \A n \in members : f \in map'[leader][n] => f \in map[leader][n]
    BY <1>3, <2>2
  <2>6. Erased(f)'
    BY <1>1, <1>2, <1>4, <2>4, <2>5, ErasedStays
  <2> QED BY <1>5, <2>6
<1>10. CASE call[t].do = "list"
  <2> PICK n \in Node : n = call[t].to
    BY <1>1
  <2>1. t = Starter /\ Dead = {} /\ ~Deleting(f)
    BY <1>10, ListCallFacts
  <2>2. Replied(n) /\ Names = call[t].names
    BY <1>1, <1>10, <2>1 DEF Replied, Names
  <2>3. \A k \in Node : map'[leader][k] = IF k = n /\ Names # {} THEN Names ELSE map[leader][k]
    BY <1>1, <1>3, <1>6, <1>10, <2>2
  <2>4. \A k : Todo(Server, DeleteTask(k, f)) => Todo(Server, DeleteTask(k, f))'
    BY <1>1, <1>3, <1>7, <2>1
  <2>5. ASSUME NEW k \in members, last[f] = "delete", f \in map'[leader][k] PROVE f \in map[leader][k]
    <3>1. n \in alive => f \notin Names
      <4> SUFFICES ASSUME n \in alive, f \in Names PROVE FALSE
        OBVIOUS
      <4>1. f \in held[n]
        BY <1>1, <2>2 DEF Whole, Agreed, Mapped
      <4>2. Todo(Server, DeleteTask(n, f))
        BY <2>5, <4>1 DEF Erased
      <4> QED BY <1>3, <2>1, <4>2 DEF Deleting
    <3>2. k \in alive
      BY <2>1 DEF Dead
    <3> QED BY <1>3, <2>3, <2>5, <3>1, <3>2
  <2>6. Erased(f)'
    BY <1>1, <1>2, <1>4, <2>4, <2>5, ErasedStays
  <2> QED BY <1>5, <2>6
<1> QED BY <1>1, <1>8, <1>9, <1>10

Emptied == \A f \in File : Erased(f) /\ Alike

LEMMA EmptiedInit == Init => Emptied
<1> SUFFICES ASSUME Init PROVE Emptied
  OBVIOUS
<1>1. \A f \in File : last[f] = "none"
  BY DEF Init
<1>2. Server \in Thread /\ \A t \in Thread : job[t] = << >>
  <2>1. Init => TInv
    BY TypesInit
  <2> QED BY <2>1, LeadersThreads DEF Init, TInv
<1> QED BY <1>1, <1>2 DEF Emptied, Erased, Alike

LEMMA EmptiedStep ==
  /\ TInv /\ IInv /\ RInv /\ (mishaps = {} => Agreed) /\ (mishaps = {} => Emptied) /\ [Next]_vars
  => (mishaps = {} => Emptied)'
<1> SUFFICES ASSUME TInv, IInv, RInv, mishaps = {} => Agreed, mishaps = {} => Emptied, [Next]_vars,
                    mishaps' = {}, NEW f \in File
             PROVE  Erased(f)' /\ Alike'
  BY DEF Emptied
<1>1. Whole /\ Alike /\ Erased(f)
  BY MishapsStay DEF Whole, Emptied
<1>2. CASE UNCHANGED vars
  <2>1. UNCHANGED <<alive, members, leader, held, user, mail, fetches, map, job, last>>
    BY <1>2 DEF vars, groupVars, nodeVars, masterVars, noteVars
  <2>2. ~Busy(f) => ~Busy(f)'
    BY <2>1 DEF Busy, Copying, Todo
  <2> QED BY <1>1, <2>1, <2>2, ErasedFrame
<1>3. ASSUME NEW n \in Node,
             \/ \E op \in {"put", "get", "delete"}, g \in File : Ask(n, op, g)
             \/ GiveUp(n)
             \/ Copy(n)
      PROVE  Erased(f)' /\ Alike'
  BY <1>1, <1>3, UsersErase
<1>4. ASSUME NEW n \in Node, Serve(n) PROVE Erased(f)' /\ Alike'
  BY <1>1, <1>4, ServeErases
<1>5. ASSUME NEW n \in Node, Obey(n) \/ Announce(n) \/ Erase(n) PROVE Erased(f)' /\ Alike'
  BY <1>1, <1>5, NodesErase
<1>6. ASSUME NEW n \in Node, Crash(n) \/ Leave(n) PROVE Erased(f)' /\ Alike'
  BY <1>1, <1>6, GoneErases
<1>7. ASSUME NEW n \in Node, Report(n) PROVE Erased(f)' /\ Alike'
  BY <1>1, <1>7, ReportErases
<1>8. ASSUME NEW t \in Thread, Work(t) PROVE Erased(f)' /\ Alike'
  BY <1>1, <1>8, WorkErases
<1>9. ASSUME NEW t \in Thread, Return(t) PROVE Erased(f)' /\ Alike'
  BY <1>1, <1>9, ReturnErases
<1>10. ASSUME NEW x \in fetches, Fetched(x) PROVE Erased(f)' /\ Alike'
  BY <1>1, <1>10, FetchesErase
<1>11. CASE Elect
  BY <1>1, <1>11, ElectErases
<1> QED BY <1>2, <1>3, <1>4, <1>5, <1>6, <1>7, <1>8, <1>9, <1>10, <1>11 DEF Next

\* While nothing has gone wrong a deletion is complete once it has been served (Deleted):
\* at rest no node holds a file whose last change the master took on was its deletion,
\* for any group, files, users and bounds, and whoever has failed and been elected since.
THEOREM DeletedAtRest == Spec => [](Unmarred(Mishap) => Deleted)
<1>1. Init => (mishaps = {} => Emptied)
  BY EmptiedInit
<1>2. /\ TInv /\ IInv /\ RInv /\ (mishaps = {} => Agreed) /\ (mishaps = {} => Emptied) /\ [Next]_vars
      => (mishaps = {} => Emptied)'
  BY EmptiedStep
<1>3. Spec => [](mishaps = {} => Emptied)
  BY <1>1, <1>2, AgreedAlways, RInvAlways, PTL DEF Spec
<1>4. ASSUME TInv /\ (mishaps = {} => Agreed), IInv /\ RInv, mishaps = {} => Emptied
      PROVE  Unmarred(Mishap) => Deleted
  <2> SUFFICES ASSUME Unmarred(Mishap), Quiet, NEW f \in File, last[f] = "delete"
               PROVE  CopiesOf(f) = {}
    BY DEF Deleted
  <2>1. mishaps = {}
    BY <1>4 DEF TInv, NotesT, Unmarred
  <2>2. Whole /\ Erased(f)
    BY <1>4, <2>1 DEF Whole, Emptied
  <2>3. Server \in Thread /\ \A t \in Thread : job[t] = << >>
    BY <2>2, AtRest, LeadersThreads DEF Whole, TInv
  <2>4. \A n : ~Todo(Server, DeleteTask(n, f))
    BY <2>3 DEF Todo
  <2> QED BY <2>2, <2>4 DEF Erased, CopiesOf
<1> QED BY AgreedAlways, RInvAlways, <1>3, <1>4, PTL

-----------------------------------------------------------------------------
(* While nothing has gone wrong and nobody has left: that replicateFile ends *)

Arriving(n, f) == \E x \in fetches : x.keep /\ x.file = f /\ x.to = n
Making(t, f) == call[t].do = "replicate" /\ call[t].keep /\ call[t].file = f

\* Nodes that have a copy of f, or are certain to have one, and those that a command
\* under way names as targets.
Has(f) == {n \in alive : f \in held[n] \/ Copying(n, f) \/ Arriving(n, f)}
Coming(f) == Has(f) \cup {n \in alive : \E t \in Thread : Making(t, f) /\ n \in call[t].targets}
Entries(f) == {n \in Node : f \in map[leader][n]}

\* Lists are asked of nodes that run, and before a repair.
Listed == \A n \in Node : Todo(Starter, ListTask(n)) => n \in alive /\ Todo(Starter, RepairTask({}))

\* A node that was told to send does, to those it was told.
Obeyed ==
  \A t \in Thread : call[t].state = "taken" =>
    LET s == service[call[t].to] IN
    s.state = "sending" /\ s.by = t /\ s.targets \subseteq call[t].targets

\* What the map says of a node that has failed is cleared by the repair that its
\* report starts, before anything else is replicated anew.
Cleared ==
  Led => \A n \in Node \ alive : map[leader][n] # {} =>
    /\ job[Starter] = << >>
    /\ n \in reported => job[Repairer] = <<RepairTask({n})>>

\* Replicas of f are counted when all that are noted are at nodes that run.
Certain(f) ==
  Led /\ (\E t \in Thread : Todo(t, ReplicateTask(f))) => Entries(f) \subseteq alive

\* There are too many copies of f only where a count has missed some.
Limited(f) == f \in miscounted \/ Cardinality(Coming(f)) <= MaxReplicate

\* Whoever replicates for ever does so for too many copies.
Excess ==
  \A t \in Thread, k \in Tasks :
    k.do = "endless" /\ Todo(t, k) => k.excess /\ k.file \in miscounted

Counted == Listed /\ Obeyed /\ Cleared /\ Excess /\ \A f \in File : Certain(f) /\ Limited(f)

LEMMA CopiesFinite ==
  ASSUME GroupT, NEW f
  PROVE  /\ Coming(f) \subseteq alive /\ IsFiniteSet(Coming(f)) /\ Cardinality(Coming(f)) \in Nat
         /\ Has(f) \subseteq Coming(f) /\ IsFiniteSet(Has(f)) /\ Cardinality(Has(f)) \in Nat
         /\ Entries(f) \subseteq Node /\ IsFiniteSet(Entries(f)) /\ Cardinality(Entries(f)) \in Nat
         /\ IsFiniteSet(alive) /\ Cardinality(alive) \in Nat
<1>1. IsFiniteSet(Node) /\ alive \subseteq Node
  BY ReplicationAssumption DEF ReplicationAssumption, GroupT
<1>2. IsFiniteSet(alive)
  BY <1>1, FS_Subset
<1>3. Coming(f) \subseteq alive /\ Has(f) \subseteq Coming(f) /\ Entries(f) \subseteq Node
  BY DEF Coming, Has, Entries
<1>4. IsFiniteSet(Coming(f)) /\ IsFiniteSet(Entries(f))
  BY <1>1, <1>2, <1>3, FS_Subset
<1>5. IsFiniteSet(Has(f))
  BY <1>3, <1>4, FS_Subset
<1> QED BY <1>2, <1>3, <1>4, <1>5, FS_CardinalityType

\* A limit that held does when nobody else is about to have a copy.
LEMMA LimitedStays ==
  ASSUME GroupT, NEW f \in File, Limited(f), miscounted \subseteq miscounted', Coming(f)' \subseteq Coming(f)
  PROVE  Limited(f)'
<1>1. IsFiniteSet(Coming(f)) /\ Cardinality(Coming(f)) \in Nat
  BY CopiesFinite
<1>2. Cardinality(Coming(f)') \in Nat /\ Cardinality(Coming(f)') <= Cardinality(Coming(f))
  BY <1>1, FS_Subset, FS_CardinalityType
<1>3. MaxReplicate \in Nat
  BY ReplicationAssumption DEF ReplicationAssumption
<1>4. Cardinality(Coming(f)) <= MaxReplicate => Cardinality(Coming(f)') <= MaxReplicate
  BY <1>1, <1>2, <1>3
<1> QED BY <1>4 DEF Limited

LEMMA CertainStays ==
  ASSUME NEW f \in File, Certain(f), UNCHANGED <<alive, leader>>,
         \A t \in Thread : Todo(t, ReplicateTask(f))' => Todo(t, ReplicateTask(f)),
         \A n \in Node \ alive : map'[leader][n] \subseteq map[leader][n]
  PROVE  Certain(f)'
<1>1. ASSUME Led', NEW t \in Thread, Todo(t, ReplicateTask(f))' PROVE Entries(f)' \subseteq alive'
  <2>1. Led
    BY <1>1 DEF Led
  <2>2. Entries(f) \subseteq alive
    BY <1>1, <2>1 DEF Certain
  <2>3. \A n \in Node \ alive : f \notin map[leader][n]
    BY <2>2 DEF Entries
  <2>4. \A n \in Node \ alive : f \notin map'[leader][n]
    BY <2>3
  <2> QED BY <2>4 DEF Entries
<1> QED BY <1>1 DEF Certain

\* Nothing is to be listed, or replicated for ever, that was not.
LEMMA RestCounted ==
  ASSUME Whole, Counted, UNCHANGED <<alive, leader, reported>>, miscounted \subseteq miscounted',
         \A t \in Thread, k \in Tasks : k.do \in {"list", "endless"} /\ Todo(t, k)' => Todo(t, k),
         (\E n \in Node : Todo(Starter, ListTask(n))') /\ Todo(Starter, RepairTask({})) =>
           Todo(Starter, RepairTask({}))',
         \A n \in Node \ alive : map'[leader][n] \subseteq map[leader][n],
         job[Starter] = << >> => job'[Starter] = << >>,
         \A n \in Node : job[Repairer] = <<RepairTask({n})>> => job'[Repairer] = job[Repairer]
  PROVE  Listed' /\ Cleared' /\ Excess'
<1>0. Led' <=> Led
  BY DEF Led
<1>t. {Server, Starter, Repairer} \subseteq Thread /\ Starter' = Starter /\ Repairer' = Repairer
  BY LeadersThreads DEF Whole, TInv, Starter, Repairer
<1>1. Listed'
  <2> SUFFICES ASSUME NEW n \in Node, Todo(Starter, ListTask(n))'
               PROVE  n \in alive' /\ Todo(Starter, RepairTask({}))'
    BY DEF Listed
  <2>1. ListTask(n) \in Tasks /\ ListTask(n).do = "list"
    BY DEF Tasks, ListTask
  <2>2. Todo(Starter, ListTask(n))
    BY <2>1, <1>t
  <2> QED BY <2>2 DEF Counted, Listed
<1>2. Cleared'
  <2> SUFFICES ASSUME Led, NEW n \in Node \ alive, map'[leader][n] # {}
               PROVE  /\ job'[Starter] = << >>
                      /\ n \in reported => job'[Repairer] = <<RepairTask({n})>>
    BY <1>0, <1>t DEF Cleared
  <2>1. map[leader][n] # {}
    OBVIOUS
  <2>2. job[Starter] = << >> /\ (n \in reported => job[Repairer] = <<RepairTask({n})>>)
    BY <2>1 DEF Counted, Cleared
  <2> QED BY <2>2
<1>3. Excess'
  <2> SUFFICES ASSUME NEW t \in Thread, NEW k \in Tasks, k.do = "endless", Todo(t, k)'
               PROVE  k.excess /\ k.file \in miscounted'
    BY DEF Excess
  <2>1. Todo(t, k)
    OBVIOUS
  <2> QED BY <2>1 DEF Counted, Excess
<1> QED BY <1>1, <1>2, <1>3

\* Nothing is to be listed or replicated that was not, and no copies are begun.
LEMMA CountedStays ==
  ASSUME Whole, Counted, UNCHANGED <<alive, leader, reported>>, miscounted \subseteq miscounted',
         \A t \in Thread, k \in Tasks :
           k.do \in {"list", "replicate", "endless"} /\ Todo(t, k)' => Todo(t, k),
         (\E n \in Node : Todo(Starter, ListTask(n))') /\ Todo(Starter, RepairTask({})) =>
           Todo(Starter, RepairTask({}))',
         \A n \in Node \ alive : map'[leader][n] \subseteq map[leader][n],
         job[Starter] = << >> => job'[Starter] = << >>,
         \A n \in Node : job[Repairer] = <<RepairTask({n})>> => job'[Repairer] = job[Repairer],
         Obeyed', \A f \in File : Coming(f)' \subseteq Coming(f)
  PROVE  Counted'
<1>1. Listed' /\ Cleared' /\ Excess'
  BY RestCounted
<1>2. ASSUME NEW f \in File PROVE Certain(f)' /\ Limited(f)'
  <2>1. ReplicateTask(f) \in Tasks /\ ReplicateTask(f).do = "replicate"
    BY DEF Tasks, ReplicateTask
  <2>2. \A t \in Thread : Todo(t, ReplicateTask(f))' => Todo(t, ReplicateTask(f))
    BY <2>1
  <2>3. Certain(f)'
    BY <2>2, CertainStays DEF Counted
  <2>4. Limited(f)'
    BY LimitedStays DEF Counted, Whole, TInv
  <2> QED BY <2>3, <2>4
<1> QED BY <1>1, <1>2 DEF Counted

\* What changes neither the map nor the jobs.
LEMMA CountedFrame ==
  ASSUME Whole, Counted, UNCHANGED <<alive, leader, reported, miscounted, map, job>>,
         Obeyed', \A f \in File : Coming(f)' \subseteq Coming(f)
  PROVE  Counted'
<1>1. \A t \in Thread : \A k : Todo(t, k)' <=> Todo(t, k)
  BY DEF Todo
<1>2. {Starter, Repairer} \subseteq Thread
  BY LeadersThreads DEF Whole, TInv
<1>3. Todo(Starter, RepairTask({})) => Todo(Starter, RepairTask({}))'
  BY DEF Todo, Starter
<1> QED BY <1>1, <1>2, <1>3, CountedStays

\* Commands and senders are as they were.
LEMMA ObeyedStays == ASSUME Obeyed, UNCHANGED <<call, service>> PROVE Obeyed'
BY DEF Obeyed

\* So are copies where nothing is held, fetched, copied or commanded that was not.
LEMMA ComingStays ==
  ASSUME NEW f, alive' \subseteq alive,
         \A n \in alive : f \in held'[n] \/ Copying(n, f)' \/ Arriving(n, f)' => n \in Coming(f),
         \A t \in Thread : Making(t, f)' => Making(t, f) /\ call'[t].targets \subseteq call[t].targets
  PROVE  Coming(f)' \subseteq Coming(f)
BY DEF Coming, Has


\* The users' steps change neither who is to have copies nor what the master does.
LEMMA UsersKeep ==
  ASSUME Whole, NEW n \in Node, NEW f \in File,
         \/ \E op \in {"put", "get", "delete"}, g \in File : Ask(n, op, g)
         \/ GiveUp(n)
         \/ Copy(n)
  PROVE  /\ UNCHANGED <<groupVars, service, fetches, masterVars, last, miscounted>>
         /\ Has(f)' = Has(f) /\ Coming(f)' = Coming(f)
         /\ \A k \in alive : held[k] \subseteq held'[k]
<1>1. user \in [Node -> {Ready} \cup Requests \cup Copies] /\ held \in [Node -> SUBSET File]
      /\ alive \subseteq Node
  BY DEF Whole, TInv, UsersT, FilesT, GroupT
<1>2. UNCHANGED <<groupVars, service, fetches, masterVars, last, miscounted>>
  BY DEF Ask, GiveUp, Copy
<1>3. /\ \A k \in alive : held[k] \subseteq held'[k]
      /\ \A k \in alive : f \in held'[k] \/ Copying(k, f)' <=> f \in held[k] \/ Copying(k, f)
  <2>1. ASSUME NEW op \in {"put", "get", "delete"}, NEW g \in File, Ask(n, op, g)
        PROVE  UNCHANGED held /\ \A k \in alive : Copying(k, f)' <=> Copying(k, f)
    <3> PICK q : q = Request(op, n, g, asked')
      OBVIOUS
    <3>1. q.op # "copy"
      BY DEF Request
    <3>2. /\ UNCHANGED held /\ user[n] = Ready
          /\ user' = user \/ user' = [user EXCEPT ![n] = q]
      BY <2>1 DEF Ask
    <3> QED BY <1>1, <3>1, <3>2 DEF Copying, Ready
  <2>2. CASE GiveUp(n)
    <3>1. UNCHANGED held /\ user' = [user EXCEPT ![n] = Ready] /\ user[n].op # "copy"
      BY <2>2 DEF GiveUp, Waiting
    <3> QED BY <1>1, <3>1 DEF Copying, Ready
  <2>3. CASE Copy(n)
    <3>1. /\ user' = [user EXCEPT ![n] = Ready] /\ user[n].op = "copy"
          /\ held' = [held EXCEPT ![n] = @ \cup {user[n].file}]
      BY <2>3 DEF Copy
    <3> QED BY <1>1, <3>1 DEF Copying, Ready
  <2> QED BY <2>1, <2>2, <2>3
<1>4. \A k \in alive : Arriving(k, f)' <=> Arriving(k, f)
  BY <1>2 DEF Arriving
<1>5. UNCHANGED <<alive, call>>
  BY <1>2 DEF groupVars, masterVars
<1>6. Has(f)' = Has(f)
  BY <1>3, <1>4, <1>5 DEF Has
<1>7. Coming(f)' = Coming(f)
  BY <1>5, <1>6 DEF Coming, Making
<1> QED BY <1>2, <1>3, <1>6, <1>7

\* A fetch that ends leaves the file, and a copy that is kept is one that was coming.
LEMMA FetchesKeep ==
  ASSUME Whole, NEW x \in fetches, Fetched(x), NEW f \in File
  PROVE  /\ UNCHANGED <<groupVars, service, masterVars, last, miscounted>>
         /\ Has(f)' = Has(f) /\ Coming(f)' = Coming(f)
         /\ \A k \in alive : held[k] \subseteq held'[k]
<1>1. held \in [Node -> SUBSET File] /\ alive \subseteq Node /\ x.to \in Node
  BY DEF Whole, TInv, FilesT, GroupT, Fetches
<1>2. UNCHANGED <<groupVars, user, service, masterVars, last, miscounted>> /\ fetches' = fetches \ {x}
  BY DEF Fetched, noteVars
<1>3. IF x.keep THEN held' = [held EXCEPT ![x.to] = @ \cup {x.file}] ELSE UNCHANGED held
  BY DEF Fetched
<1>4. \A k \in alive : held[k] \subseteq held'[k]
  BY <1>1, <1>3
<1>5. \A k \in alive : f \in held'[k] \/ Arriving(k, f)' <=> f \in held[k] \/ Arriving(k, f)
  <2>1. CASE x.keep
    <3>1. \A k \in alive : f \in held'[k] <=> f \in held[k] \/ (f = x.file /\ k = x.to)
      BY <1>1, <1>3, <2>1
    <3>2. \A k \in alive : Arriving(k, f) <=> Arriving(k, f)' \/ (f = x.file /\ k = x.to)
                           \/ (Arriving(k, f) /\ f = x.file /\ k = x.to)
      BY <1>2, <2>1 DEF Arriving
    <3> QED BY <3>1, <3>2
  <2>2. CASE ~x.keep
    BY <1>2, <1>3, <2>2 DEF Arriving
  <2> QED BY <2>1, <2>2
<1>6. UNCHANGED <<alive, call, user>>
  BY <1>2 DEF groupVars, masterVars
<1>7. Has(f)' = Has(f)
  BY <1>5, <1>6 DEF Has, Copying
<1>8. Coming(f)' = Coming(f)
  BY <1>6, <1>7 DEF Coming, Making
<1> QED BY <1>2, <1>4, <1>7, <1>8

\* Whom a sender asks has the file then, or fetches it; the last one ends the command.
LEMMA AnnounceAsks ==
  ASSUME Whole, Obeyed, NEW n \in Node, Announce(n), mishaps' = {},
         NEW t, t = service[n].by, NEW k, k = Lowest(service[n].targets)
  PROVE  /\ UNCHANGED <<groupVars, held, user, map, job, last, miscounted>>
         /\ n \in alive /\ t \in Thread /\ k \in alive /\ Led
         /\ call[t] \in ReplicateCalls /\ call[t].state = "taken" /\ call[t].to = n
         /\ call[t].file = service[n].file /\ call[t].keep = service[n].keep
         /\ k \in service[n].targets /\ service[n].targets \subseteq call[t].targets
         /\ fetches \subseteq fetches'
         /\ service[n].file \in held[k]
            \/ \E x \in fetches' : x.file = service[n].file /\ x.to = k /\ x.keep = service[n].keep
         /\ \A x \in fetches' : x \in fetches
              \/ (x.file = service[n].file /\ x.to = k /\ x.keep = service[n].keep)
         /\ \/ /\ service[n].targets = {k} /\ service' = [service EXCEPT ![n] = Idle]
               /\ call' = [call EXCEPT ![t] = [call[t] EXCEPT !.state = "done"]]
            \/ /\ service' = [service EXCEPT ![n] = [service[n] EXCEPT !.targets = service[n].targets \ {k}]]
               /\ UNCHANGED call
<1> PICK s : s = service[n]
  OBVIOUS
<1>1. n \in alive /\ s.state = "sending" /\ Free(k)
  BY DEF Announce
<1>2. s \in Sends
  BY <1>1, ServiceFields DEF Whole, TInv
<1>3. /\ t \in Thread /\ call[t].do = "replicate" /\ call[t].state = "taken"
      /\ call[t].to = n /\ call[t].file = s.file /\ call[t].keep = s.keep
  BY <1>1 DEF Whole, Agreed, Sending
<1>4. call[t] \in ReplicateCalls /\ call[t] # NoCall
  BY <1>3, CallFields DEF Whole, TInv, ThreadsT, NoCall
<1>5. Led
  BY <1>3, <1>4, CommandsOfLeader
<1>6. k \in s.targets /\ k \in alive
  BY <1>1, <1>2, LowestIn DEF Sends, Free
<1>7. s.targets \subseteq call[t].targets
  BY <1>3 DEF Obeyed
<1> PICK new : new = Fetch(s.file, n, k, s.keep, SourceOf(n, s.file))
  OBVIOUS
<1>8. new.file = s.file /\ new.to = k /\ new.keep = s.keep
  BY DEF Fetch
<1>9. (s.file \in held[k] /\ UNCHANGED fetches) \/ (s.file \notin held[k] /\ fetches' = fetches \cup {new})
  BY DEF Announce
<1>10. \/ /\ s.targets = {k} /\ service' = [service EXCEPT ![n] = Idle]
          /\ call' = [call EXCEPT ![t] = [call[t] EXCEPT !.state = "done"]]
       \/ /\ service' = [service EXCEPT ![n] = [s EXCEPT !.targets = s.targets \ {k}]]
          /\ UNCHANGED call
  <2>1. CASE s.targets = {k}
    BY <1>3, <2>1 DEF Announce, Done
  <2>2. CASE s.targets # {k}
    BY <2>2 DEF Announce
  <2> QED BY <2>1, <2>2
<1>11. UNCHANGED <<groupVars, held, user, map, job, last, miscounted>>
  BY DEF Announce
<1>12. /\ fetches \subseteq fetches'
       /\ s.file \in held[k] \/ \E x \in fetches' : x.file = s.file /\ x.to = k /\ x.keep = s.keep
       /\ \A x \in fetches' : x \in fetches \/ (x.file = s.file /\ x.to = k /\ x.keep = s.keep)
  BY <1>8, <1>9
<1> QED BY <1>1, <1>3, <1>4, <1>5, <1>6, <1>7, <1>10, <1>11, <1>12

\* A target that is asked gets a copy if the sender's command says so.
LEMMA AnnounceKeeps ==
  ASSUME Whole, Obeyed, NEW n \in Node, Announce(n), mishaps' = {}, NEW f \in File
  PROVE  /\ UNCHANGED <<groupVars, held, user, map, job, last, miscounted>>
         /\ Has(f) \subseteq Has(f)' /\ Coming(f)' \subseteq Coming(f)
         /\ \A t \in Thread : /\ Making(t, f)' <=> Making(t, f)
                              /\ Making(t, f) => UNCHANGED <<call[t].targets, call[t].to>>
<1> PICK t, k : t = service[n].by /\ k = Lowest(service[n].targets)
  OBVIOUS
<1> PICK g : g = service[n].file
  OBVIOUS
<1>1. /\ UNCHANGED <<groupVars, held, user, map, job, last, miscounted>>
      /\ t \in Thread /\ k \in alive
      /\ call[t] \in ReplicateCalls /\ call[t].file = g /\ call[t].keep = service[n].keep
      /\ k \in call[t].targets /\ fetches \subseteq fetches'
      /\ \A x \in fetches' : x \in fetches \/ (x.file = g /\ x.to = k /\ x.keep = service[n].keep)
      /\ \/ call' = [call EXCEPT ![t] = [call[t] EXCEPT !.state = "done"]]
         \/ UNCHANGED call
  <2>1. /\ UNCHANGED <<groupVars, held, user, map, job, last, miscounted>>
        /\ t \in Thread /\ k \in alive
        /\ call[t] \in ReplicateCalls /\ call[t].file = service[n].file
        /\ call[t].keep = service[n].keep
    BY AnnounceAsks
  <2>2. k \in service[n].targets /\ service[n].targets \subseteq call[t].targets
    BY AnnounceAsks
  <2>3. /\ fetches \subseteq fetches'
        /\ \A x \in fetches' : x \in fetches
             \/ (x.file = service[n].file /\ x.to = k /\ x.keep = service[n].keep)
    BY AnnounceAsks
  <2>4. \/ call' = [call EXCEPT ![t] = [call[t] EXCEPT !.state = "done"]]
        \/ UNCHANGED call
    BY AnnounceAsks
  <2> QED BY <2>1, <2>2, <2>3, <2>4
<1>2. UNCHANGED alive
  BY <1>1 DEF groupVars
<1>3. call \in [Thread -> Calls]
  BY DEF Whole, TInv, ThreadsT
<1>4. /\ call'[t].do = call[t].do /\ call'[t].keep = call[t].keep /\ call'[t].file = call[t].file
      /\ call'[t].targets = call[t].targets /\ call'[t].to = call[t].to
  BY <1>1, <1>3 DEF ReplicateCalls
<1>5. \A r \in Thread \ {t} : call'[r] = call[r]
  BY <1>1, <1>3
<1>6. \A r \in Thread : /\ Making(r, f)' <=> Making(r, f)
                        /\ Making(r, f) => UNCHANGED <<call[r].targets, call[r].to>>
  <2> TAKE r \in Thread
  <2> QED BY <1>4, <1>5 DEF Making
<1>7. Has(f) \subseteq Has(f)'
  BY <1>1, <1>2 DEF Has, Copying, Arriving
<1>8. \A j \in alive : Arriving(j, f)' => j \in Coming(f)
  <2> SUFFICES ASSUME NEW j \in alive, NEW x \in fetches', x.keep, x.file = f, x.to = j
               PROVE  j \in Coming(f)
    BY DEF Arriving
  <2>1. CASE x \in fetches
    BY <2>1 DEF Coming, Has, Arriving
  <2>2. CASE x \notin fetches
    <3>1. f = g /\ j = k /\ service[n].keep
      BY <1>1, <2>2
    <3>2. Making(t, f) /\ j \in call[t].targets
      BY <1>1, <3>1 DEF Making, ReplicateCalls
    <3> QED BY <1>1, <3>2 DEF Coming
  <2> QED BY <2>1, <2>2
<1>9. \A j \in alive : f \in held'[j] \/ Copying(j, f)' => j \in Coming(f)
  BY <1>1 DEF Coming, Has, Copying
<1>10. Coming(f)' \subseteq Coming(f)
  BY <1>2, <1>6, <1>8, <1>9, ComingStays
<1> QED BY <1>1, <1>6, <1>7, <1>10

LEMMA AnnounceObeyed ==
  ASSUME Whole, Obeyed, NEW n \in Node, Announce(n), mishaps' = {}
  PROVE  Obeyed'
<1> PICK t, k : t = service[n].by /\ k = Lowest(service[n].targets)
  OBVIOUS
<1>1. /\ t \in Thread /\ call[t] \in ReplicateCalls /\ call[t].to = n
      /\ service[n].targets \subseteq call[t].targets
      /\ \/ /\ service' = [service EXCEPT ![n] = Idle]
            /\ call' = [call EXCEPT ![t] = [call[t] EXCEPT !.state = "done"]]
         \/ /\ service' = [service EXCEPT ![n] = [service[n] EXCEPT !.targets = service[n].targets \ {k}]]
            /\ UNCHANGED call
  <2>1. t = service[n].by /\ k = Lowest(service[n].targets)
    OBVIOUS
  <2>2. t \in Thread /\ call[t] \in ReplicateCalls /\ call[t].to = n
    BY <2>1, AnnounceAsks
  <2>3. service[n].targets \subseteq call[t].targets
    BY <2>1, AnnounceAsks
  <2>4. \/ /\ service' = [service EXCEPT ![n] = Idle]
           /\ call' = [call EXCEPT ![t] = [call[t] EXCEPT !.state = "done"]]
        \/ /\ service' = [service EXCEPT ![n] = [service[n] EXCEPT !.targets = service[n].targets \ {k}]]
           /\ UNCHANGED call
    BY <2>1, AnnounceAsks
  <2> QED BY <2>2, <2>3, <2>4
<1>2. call \in [Thread -> Calls] /\ service[n].state = "sending" /\ service[n] \in Sends
  BY ServiceFields DEF Whole, TInv, ThreadsT, Announce
<1>0. service = [k_1 \in Node |-> service[k_1]]
  BY DEF Whole, IInv, Shape
<1> SUFFICES ASSUME NEW r \in Thread, call'[r].state = "taken"
             PROVE  LET s == service'[call'[r].to] IN
                    s.state = "sending" /\ s.by = r /\ s.targets \subseteq call'[r].targets
  BY DEF Obeyed
<1>3. call'[r] = call[r]
  BY <1>1, <1>2 DEF ReplicateCalls
<1>4. /\ service[call[r].to].state = "sending" /\ service[call[r].to].by = r
      /\ service[call[r].to].targets \subseteq call[r].targets
  BY <1>3 DEF Obeyed
<1>5. CASE call[r].to # n
  <2>0. call[r].to \in Node
    BY <1>2, <1>3, CallFields DEF NoCall
  <2>1. service'[call[r].to] = service[call[r].to]
    BY <1>0, <1>1, <1>5, <2>0
  <2> QED BY <1>3, <1>4, <2>1
<1>6. CASE call[r].to = n
  <2>1. r = t
    BY <1>4, <1>6
  <2>2. call'[t] # [call[t] EXCEPT !.state = "done"]
    BY <1>1, <1>3, <2>1 DEF ReplicateCalls
  <2>3. service' = [service EXCEPT ![n] = [service[n] EXCEPT !.targets = service[n].targets \ {k}]]
    BY <1>1, <1>2, <2>2
  <2>4. service'[n] = [service[n] EXCEPT !.targets = service[n].targets \ {k}]
    BY <1>0, <2>3
  <2>5. /\ service'[n].state = "sending" /\ service'[n].by = service[n].by
        /\ service'[n].targets = service[n].targets \ {k}
    BY <1>2, <2>4 DEF Sends
  <2> QED BY <1>3, <1>4, <1>6, <2>5
<1> QED BY <1>5, <1>6


\* A node that obeys deletes what its master deletes, or is told whom to send to; the
\* copies that are being made stay as they are.
LEMMA ObeyKeeps ==
  ASSUME Whole, Obeyed, NEW n \in Node, Obey(n), mishaps' = {}, NEW f \in File
  PROVE  /\ UNCHANGED <<groupVars, user, fetches, map, job, last, miscounted>>
         /\ Coming(f)' \subseteq Coming(f)
         /\ \/ Has(f) \subseteq Has(f)' /\ \A k \in alive : f \in held[k] => f \in held'[k]
            \/ Deleting(f) /\ \A t \in Thread : ~Making(t, f)
         /\ \A t \in Thread :
              /\ Making(t, f)' <=> Making(t, f)
              /\ Making(t, f) => UNCHANGED <<call[t].targets, call[t].to>>
              /\ call'[t].state = "taken" =>
                   \/ call[t].state = "taken" /\ service'[call[t].to] = service[call[t].to]
                   \/ /\ service'[call'[t].to].state = "sending" /\ service'[call'[t].to].by = t
                      /\ service'[call'[t].to].targets = call'[t].targets
              /\ Making(t, f) /\ call'[t].state = "done" => call[t].state = "done"
<1> PICK t \in Thread :
      /\ call[t].state = "sent" /\ call[t].to = n /\ NodeOf(t) = leader
      /\ \/ call[t].do = "list" /\ DoList(n, t)
         \/ call[t].do = "delete" /\ DoDelete(n, t)
         \/ call[t].do = "replicate" /\ DoReplicate(n, t)
  BY CommandObeyed
<1>1. UNCHANGED <<groupVars, user, fetches, map, job, last, miscounted>> /\ n \in alive /\ service[n] = Idle
  BY DEF Obey, Free
<1>2. UNCHANGED alive
  BY <1>1 DEF groupVars
<1>3. /\ call \in [Thread -> Calls] /\ held \in [Node -> SUBSET File]
      /\ service = [k \in Node |-> service[k]]
  BY DEF Whole, TInv, ThreadsT, FilesT, IInv, Shape
<1>4. PICK c :
        /\ call' = [call EXCEPT ![t] = c] /\ c.do = call[t].do /\ c.to = n
        /\ \/ c.do # "replicate" /\ c.state = "done" /\ UNCHANGED service
           \/ /\ c.do = "replicate" /\ c.state = "taken" /\ c.keep = call[t].keep /\ c.file = call[t].file
              /\ c.targets = call[t].targets
              /\ service'[n].state = "sending" /\ service'[n].by = t
              /\ service'[n].targets = call[t].targets
              /\ \A k \in Node \ {n} : service'[k] = service[k]
  <2>1. CASE DoList(n, t) /\ call[t].do = "list"
    <3> PICK c : c = [do |-> "list", to |-> n, names |-> held[n], state |-> "done"]
      OBVIOUS
    <3>1. call' = [call EXCEPT ![t] = c] /\ UNCHANGED service
      BY <2>1 DEF DoList
    <3>2. c.do = call[t].do /\ c.to = n /\ c.do # "replicate" /\ c.state = "done"
      BY <2>1
    <3> QED BY <3>1, <3>2
  <2>2. CASE DoDelete(n, t) /\ call[t].do = "delete"
    <3> PICK c : c = [call[t] EXCEPT !.state = "done"]
      OBVIOUS
    <3>1. call' = [call EXCEPT ![t] = c] /\ UNCHANGED service
      BY <2>2 DEF DoDelete, Done
    <3>2. call[t] \in DeleteCalls
      BY <1>3, <2>2, CallFields
    <3>3. c.do = call[t].do /\ c.to = n /\ c.do # "replicate" /\ c.state = "done"
      BY <2>2, <3>2 DEF DeleteCalls
    <3> QED BY <3>1, <3>3
  <2>3. CASE DoReplicate(n, t) /\ call[t].do = "replicate"
    <3> PICK c : c = [call[t] EXCEPT !.state = "taken"]
      OBVIOUS
    <3> PICK s : s = [state |-> "sending", by |-> t, file |-> call[t].file,
                      targets |-> call[t].targets, keep |-> call[t].keep]
      OBVIOUS
    <3>1. call' = [call EXCEPT ![t] = c] /\ service' = [service EXCEPT ![n] = s]
      BY <2>3 DEF DoReplicate
    <3>2. call[t] \in ReplicateCalls
      BY <1>3, <2>3, CallFields
    <3>3. /\ c.do = "replicate" /\ c.to = n /\ c.state = "taken" /\ c.keep = call[t].keep
          /\ c.file = call[t].file /\ c.targets = call[t].targets
      BY <2>3, <3>2 DEF ReplicateCalls
    <3>4. s.state = "sending" /\ s.by = t /\ s.targets = call[t].targets
      OBVIOUS
    <3>5. service'[n] = s /\ \A k \in Node \ {n} : service'[k] = service[k]
      BY <1>3, <3>1
    <3>6. /\ service'[n].state = "sending" /\ service'[n].by = t
          /\ service'[n].targets = call[t].targets
      BY <3>4, <3>5
    <3>7. c.do = call[t].do
      BY <2>3, <3>3
    <3> QED BY <3>1, <3>3, <3>5, <3>6, <3>7
  <2> QED BY <2>1, <2>2, <2>3
<1>5. call'[t] = c /\ \A r \in Thread \ {t} : call'[r] = call[r]
  BY <1>3, <1>4
<1>6. ASSUME NEW r \in Thread
      PROVE  /\ Making(r, f)' <=> Making(r, f)
             /\ Making(r, f) => UNCHANGED <<call[r].targets, call[r].to>>
             /\ call'[r].state = "taken" =>
                   \/ call[r].state = "taken" /\ service'[call[r].to] = service[call[r].to]
                   \/ /\ service'[call'[r].to].state = "sending" /\ service'[call'[r].to].by = r
                      /\ service'[call'[r].to].targets = call'[r].targets
             /\ Making(r, f) /\ call'[r].state = "done" => call[r].state = "done"
  <2>1. CASE r = t
    BY <1>4, <1>5, <2>1 DEF Making
  <2>2. CASE r # t
    <3>1. call'[r] = call[r]
      BY <1>5, <2>2
    <3>2. ASSUME call[r].state = "taken" PROVE service'[call[r].to] = service[call[r].to]
      <4>1. service[call[r].to].state = "sending" /\ call[r].to \in Node
        BY <1>3, <3>2, CallFields DEF Obeyed, NoCall
      <4>2. call[r].to # n
        BY <1>1, <4>1 DEF Idle
      <4> QED BY <1>4, <4>1, <4>2
    <3> QED BY <3>1, <3>2 DEF Making
  <2> QED BY <2>1, <2>2
<1>7. \A k \in alive : held'[k] \subseteq held[k]
  <2>1. UNCHANGED held \/ \E g : held' = [held EXCEPT ![n] = held[n] \ {g}]
    BY DEF DoList, DoDelete, DoReplicate
  <2>2. ASSUME NEW g, held' = [held EXCEPT ![n] = held[n] \ {g}] PROVE \A k \in Node : held'[k] \subseteq held[k]
    BY <1>3, <2>2
  <2>3. alive \subseteq Node
    BY DEF Whole, TInv, GroupT
  <2> QED BY <2>1, <2>2, <2>3
<1>8. Coming(f)' \subseteq Coming(f)
  <2>1. \A k \in alive : f \in held'[k] \/ Copying(k, f)' \/ Arriving(k, f)' => k \in Coming(f)
    BY <1>1, <1>7 DEF Coming, Has, Copying, Arriving
  <2> QED BY <1>2, <1>6, <2>1, ComingStays
<1>9. \/ Has(f) \subseteq Has(f)' /\ \A k \in alive : f \in held[k] => f \in held'[k]
      \/ Deleting(f) /\ \A r \in Thread : ~Making(r, f)
  <2>1. CASE \A k \in alive : f \in held[k] => f \in held'[k]
    BY <1>1, <1>2, <2>1 DEF Has, Copying, Arriving
  <2>2. CASE \E k \in alive : f \in held[k] /\ f \notin held'[k]
    <3>1. call[t].do = "delete" /\ DoDelete(n, t)
      BY <2>2 DEF DoList, DoReplicate
    <3>2. call[t].file = f
      <4>1. UNCHANGED held \/ held' = [held EXCEPT ![n] = held[n] \ {call[t].file}]
        BY <3>1 DEF DoDelete
      <4>2. PICK k \in Node : f \in held[k] /\ f \notin held'[k]
        BY <2>2 DEF Whole, TInv, GroupT
      <4> QED BY <1>3, <4>1, <4>2
    <3>3. Deleting(f) /\ ~Moving(f)
      BY <3>1, <3>2, DeleteCallFacts DEF DoDelete
    <3> QED BY <3>3 DEF Moving, Making
  <2> QED BY <2>1, <2>2
<1> QED BY <1>1, <1>6, <1>8, <1>9

LEMMA ObeyObeyed ==
  ASSUME Whole, Obeyed, NEW n \in Node, Obey(n), mishaps' = {}
  PROVE  Obeyed'
<1> SUFFICES ASSUME NEW t \in Thread, call'[t].state = "taken"
             PROVE  LET s == service'[call'[t].to] IN
                    s.state = "sending" /\ s.by = t /\ s.targets \subseteq call'[t].targets
  BY DEF Obeyed
<1>1. PICK r \in Thread :
        /\ call[r].state = "sent" /\ call[r].to = n
        /\ \/ call[r].do = "list" /\ DoList(n, r)
           \/ call[r].do = "delete" /\ DoDelete(n, r)
           \/ call[r].do = "replicate" /\ DoReplicate(n, r)
  BY CommandObeyed
<1>2. call \in [Thread -> Calls] /\ service = [k \in Node |-> service[k]]
  BY DEF Whole, TInv, ThreadsT, IInv, Shape
<1>3. \A k \in Thread \ {r} : call'[k] = call[k]
  BY <1>1, <1>2 DEF DoList, DoDelete, DoReplicate, Done
<1>4. CASE t = r
  <2>1. call'[r].state = "taken" => DoReplicate(n, r) /\ call[r].do = "replicate"
    <3>1. DoList(n, r) => call'[r].state = "done"
      BY <1>2 DEF DoList
    <3>2. DoDelete(n, r) /\ call[r].do = "delete" => call'[r].state = "done"
      <4>1. call[r].do = "delete" => call[r] \in DeleteCalls
        BY <1>2, CallFields
      <4> QED BY <1>2, <4>1 DEF DoDelete, Done, DeleteCalls
    <3> QED BY <1>1, <3>1, <3>2
  <2>2. call[r] \in ReplicateCalls
    BY <1>2, <1>4, <2>1, CallFields
  <2>3. call'[r].to = n /\ call'[r].targets = call[r].targets
    BY <1>1, <1>2, <1>4, <2>1, <2>2 DEF DoReplicate, ReplicateCalls
  <2>4. /\ service'[n].state = "sending" /\ service'[n].by = r
        /\ service'[n].targets = call[r].targets
    BY <1>2, <1>4, <2>1 DEF DoReplicate
  <2> QED BY <1>4, <2>3, <2>4
<1>5. CASE t # r
  <2>1. call'[t] = call[t]
    BY <1>3, <1>5
  <2>2. /\ service[call[t].to].state = "sending" /\ service[call[t].to].by = t
        /\ service[call[t].to].targets \subseteq call[t].targets /\ call[t].to \in Node
    BY <1>2, <2>1, CallFields DEF Obeyed, NoCall
  <2>3. service[n] = Idle
    BY DEF Obey, Free
  <2>4. service'[call[t].to] = service[call[t].to]
    BY <1>1, <1>2, <2>2, <2>3 DEF DoList, DoDelete, DoReplicate, Idle
  <2> QED BY <2>1, <2>2, <2>4
<1> QED BY <1>4, <1>5

\* The steps of users and nodes, fetches that end and nodes that are dropped.
LEMMA NodesCount ==
  ASSUME Whole, Counted, mishaps' = {},
         \/ \E n \in Node : \/ \E op \in {"put", "get", "delete"}, g \in File : Ask(n, op, g)
                            \/ GiveUp(n) \/ Copy(n) \/ Obey(n) \/ Announce(n) \/ Erase(n)
         \/ \E x \in fetches : Fetched(x)
  PROVE  Counted'
<1>0. Obeyed
  BY DEF Counted
<1>1. ASSUME NEW n \in Node,
             \/ \E op \in {"put", "get", "delete"}, g \in File : Ask(n, op, g)
             \/ GiveUp(n) \/ Copy(n)
      PROVE  Counted'
  <2>1. UNCHANGED <<groupVars, service, fetches, masterVars, last, miscounted>>
    BY <1>1 DEF Ask, GiveUp, Copy
  <2>2. \A f \in File : Coming(f)' \subseteq Coming(f)
    BY <1>1, UsersKeep
  <2>3. Obeyed'
    BY <1>0, <2>1, ObeyedStays DEF masterVars
  <2> QED BY <2>1, <2>2, <2>3, CountedFrame DEF groupVars, masterVars
<1>2. ASSUME NEW n \in Node, Obey(n) PROVE Counted'
  <2>1. UNCHANGED <<groupVars, map, job, miscounted>>
    BY <1>2 DEF Obey
  <2>2. \A f \in File : Coming(f)' \subseteq Coming(f)
    BY <1>0, <1>2, ObeyKeeps
  <2>3. Obeyed'
    BY <1>0, <1>2, ObeyObeyed
  <2> QED BY <2>1, <2>2, <2>3, CountedFrame DEF groupVars
<1>3. ASSUME NEW n \in Node, Announce(n) PROVE Counted'
  <2>1. UNCHANGED <<groupVars, map, job, miscounted>>
    BY <1>3 DEF Announce
  <2>2. \A f \in File : Coming(f)' \subseteq Coming(f)
    BY <1>0, <1>3, AnnounceKeeps
  <2>3. Obeyed'
    BY <1>0, <1>3, AnnounceObeyed
  <2> QED BY <2>1, <2>2, <2>3, CountedFrame DEF groupVars
<1>4. ASSUME NEW n \in Node, Erase(n) PROVE Counted'
  <2>1. UNCHANGED <<alive, reported, leader, nodeVars, mail, masterVars, noteVars>>
    BY <1>4 DEF Erase
  <2>2. UNCHANGED <<alive, reported, leader, held, user, service, fetches, map, job, call, miscounted>>
    BY <2>1 DEF nodeVars, masterVars, noteVars
  <2>3. \A f \in File : Coming(f)' \subseteq Coming(f)
    BY <2>2 DEF Coming, Has, Making, Copying, Arriving
  <2>4. Obeyed'
    BY <1>0, <2>2, ObeyedStays
  <2> QED BY <2>2, <2>3, <2>4, CountedFrame
<1>5. ASSUME NEW x \in fetches, Fetched(x) PROVE Counted'
  <2>1. UNCHANGED <<groupVars, service, masterVars, last, miscounted>>
    BY <1>5 DEF Fetched, noteVars
  <2>2. \A f \in File : Coming(f)' \subseteq Coming(f)
    BY <1>5, FetchesKeep
  <2>3. Obeyed'
    BY <1>0, <2>1, ObeyedStays DEF masterVars
  <2> QED BY <2>1, <2>2, <2>3, CountedFrame DEF groupVars, masterVars
<1> QED BY <1>1, <1>2, <1>3, <1>4, <1>5


\* Nobody has a file that the map does not name at all, or is about to, unless the map
\* is being gathered.
LEMMA NobodyHas ==
  ASSUME Whole, Led, NEW f \in File, Entries(f) = {}, ~Gathering
  PROVE  Coming(f) = {} /\ ~Busy(f)
<1>1. \A k \in Node : f \notin map[leader][k]
  BY DEF Entries
<1>2. ~Busy(f)
  BY <1>1 DEF Whole, Agreed, Mapped, TInv, GroupT
<1>3. \A k \in alive : f \notin held[k]
  <2> SUFFICES ASSUME NEW k \in alive, f \in held[k] PROVE FALSE
    OBVIOUS
  <2>1. Covered(k, f) /\ k \in Node
    BY DEF Whole, Agreed, Mapped, TInv, GroupT
  <2>2. ~Told(k, f)
    BY <1>2 DEF Busy, Told
  <2>3. ~Todo(Starter, ListTask(k))
    BY DEF Todo, Gathering, Starter
  <2>4. ~Replied(k)
    BY RepliedFacts
  <2> QED BY <1>1, <2>1, <2>2, <2>3, <2>4 DEF Covered
<1>4. \A k \in alive : ~Copying(k, f) /\ ~Arriving(k, f)
  BY <1>2 DEF Busy, Arriving
<1>5. \A t \in Thread : ~Making(t, f)
  BY <1>2, ReplicateCallFacts DEF Making
<1> QED BY <1>2, <1>3, <1>4, <1>5 DEF Coming, Has

\* What the service thread of the master has to do and commands after it took request q.
Taken(e) ==
  /\ UNCHANGED <<alive, members, reported, leader, held, service, fetches, miscounted>>
  /\ Led /\ job[Server] = << >> /\ job' = [job EXCEPT ![Server] = e]
  /\ call[Server] = NoCall
  /\ \A t \in Thread \ {Server} : call'[t] = call[t]
  /\ call'[Server].state \notin {"taken", "done"}
  /\ \A f : ~Making(Server, f)'
  /\ \A n \in Node : map[leader][n] \subseteq map'[leader][n]
  /\ \A n \in Node \ alive : map'[leader][n] = map[leader][n]

TakenOther(e) ==
  /\ \A n \in alive, f \in File : Copying(n, f)' <=> Copying(n, f)
  /\ \A k \in Tasks : Within(e, k) => k.do = "get"
  /\ UNCHANGED last
TakenDelete(e, f) ==
  /\ \A n \in alive, g \in File : Copying(n, g)' <=> Copying(n, g)
  /\ \A k \in Tasks : Within(e, k) => k.do = "delete" /\ k.file = f
  /\ last' = [last EXCEPT ![f] = "delete"] /\ ~Moving(f)
TakenPut(e, n, f) ==
  /\ \A k \in alive, g \in File : Copying(k, g)' <=> Copying(k, g) \/ (k = n /\ g = f)
  /\ \A k : Within(e, k) <=> k = ReplicateTask(f)
  /\ last' = [last EXCEPT ![f] = "put"]
  /\ n \in alive /\ f \in map'[leader][n] /\ Entries(f)' = {n} /\ Coming(f) = {} /\ ~Busy(f)

LEMMA ServedGet ==
  ASSUME Whole, NEW m \in Node, Serve(m), NEW q \in mail, q.op = "get", q.file \in File,
         mail' = mail \ {q}, ServeGet(Server, q)
  PROVE  \E e : Taken(e) /\ TakenOther(e)
<1> DEFINE have == Holders(NodeOf(Server), q.file)
           c == ReplicateCall(Lowest(have), q.file, {q.from}, FALSE)
<1>0. /\ UNCHANGED <<alive, members, reported, leader, held, service, fetches>>
      /\ Led /\ job[Server] = << >> /\ call[Server] = NoCall
  BY ServeFacts
<1>1. UNCHANGED miscounted
  BY DEF Serve
<1>2. /\ Server \in Thread /\ job \in [Thread -> Seq(Tasks)] /\ call \in [Thread -> Calls]
  BY LeadersThreads DEF Whole, TInv, ThreadsT
<1>3. UNCHANGED <<map, last>> /\ Answer(q, Ready)
  BY DEF ServeGet
<1>4. \A k \in alive, f \in File : Copying(k, f)' <=> Copying(k, f)
  BY <1>0, <1>3, Refused
<1>5. \/ UNCHANGED <<job, call>>
      \/ job' = [job EXCEPT ![Server] = <<GetTask>>] /\ call' = [call EXCEPT ![Server] = c]
  BY DEF ServeGet
<1>6. c.state = "sent" /\ ~c.keep
  BY DEF ReplicateCall
<1> HIDE DEF c, have
<1>7. Server' = Server /\ Led
  BY <1>0 DEF Server
<1>8. CASE UNCHANGED <<job, call>>
  <2> PICK e : e = << >>
    OBVIOUS
  <2>1. job' = [job EXCEPT ![Server] = e]
    BY <1>0, <1>2, <1>8
  <2>2. \A k : ~Within(e, k)
    BY DEF Within
  <2>3. \A f : ~Making(Server, f)'
    BY <1>0, <1>7, <1>8 DEF Making, NoCall
  <2>5. call'[Server].state \notin {"taken", "done"} /\ UNCHANGED call
    BY <1>0, <1>8 DEF NoCall
  <2>4. Taken(e)
    BY <1>0, <1>1, <1>3, <2>1, <2>3, <2>5 DEF Taken
  <2> QED BY <1>3, <1>4, <2>2, <2>4 DEF TakenOther
<1>9. CASE job' = [job EXCEPT ![Server] = <<GetTask>>] /\ call' = [call EXCEPT ![Server] = c]
  <2> PICK e : e = <<GetTask>>
    OBVIOUS
  <2>1. \A k : Within(e, k) => k.do = "get"
    BY DEF Within, GetTask
  <2>2. call'[Server] = c /\ \A t \in Thread \ {Server} : call'[t] = call[t]
    BY <1>2, <1>9
  <2>3. \A f : ~Making(Server, f)'
    BY <1>6, <1>7, <2>2 DEF Making
  <2>4. Taken(e)
    BY <1>0, <1>1, <1>3, <1>6, <1>7, <1>9, <2>2, <2>3 DEF Taken
  <2> QED BY <1>3, <1>4, <2>1, <2>4 DEF TakenOther
<1> QED BY <1>5, <1>8, <1>9

LEMMA ServedDelete ==
  ASSUME Whole, NEW m \in Node, Serve(m), NEW q \in mail, q.op = "delete", q.file \in File,
         mail' = mail \ {q}, ServeDelete(Server, q), mishaps' = {}
  PROVE  \E e : Taken(e) /\ (TakenOther(e) \/ TakenDelete(e, q.file))
<1> DEFINE have == Holders(NodeOf(Server), q.file)
           d == [i \in 1 .. Cardinality(have) |-> DeleteTask(Nth(have, i), q.file)]
<1>0. /\ UNCHANGED <<alive, members, reported, leader, held, service, fetches>>
      /\ Led /\ job[Server] = << >> /\ call[Server] = NoCall
  BY ServeFacts
<1>1. UNCHANGED miscounted
  BY DEF Serve
<1>2. /\ Server \in Thread /\ job \in [Thread -> Seq(Tasks)]
  BY LeadersThreads DEF Whole, TInv, ThreadsT
<1>3. /\ UNCHANGED <<map, call>> /\ Answer(q, Ready)
      /\ \/ UNCHANGED <<job, last>>
         \/ /\ job' = [job EXCEPT ![Server] = d] /\ last' = [last EXCEPT ![q.file] = "delete"]
            /\ ~Moving(q.file)
  BY DEF ServeDelete, Each
<1>4. \A k : Within(d, k) => k.do = "delete" /\ k.file = q.file
  BY DEF Within, DeleteTask
<1> HIDE DEF d, have
<1>5. \A k \in alive, f \in File : Copying(k, f)' <=> Copying(k, f)
  BY <1>0, <1>3, Refused
<1>6. Server' = Server
  BY <1>0 DEF Server
<1>7. (\A f : ~Making(Server, f)') /\ call'[Server].state \notin {"taken", "done"}
  BY <1>0, <1>3, <1>6 DEF Making, NoCall
<1>8. CASE UNCHANGED <<job, last>>
  <2> PICK e : e = << >>
    OBVIOUS
  <2>1. job' = [job EXCEPT ![Server] = e]
    BY <1>0, <1>2, <1>8
  <2>2. \A k : ~Within(e, k)
    BY DEF Within
  <2>3. Taken(e)
    BY <1>0, <1>1, <1>3, <1>7, <2>1 DEF Taken
  <2> QED BY <1>5, <1>8, <2>2, <2>3 DEF TakenOther
<1>9. CASE /\ job' = [job EXCEPT ![Server] = d] /\ last' = [last EXCEPT ![q.file] = "delete"]
           /\ ~Moving(q.file)
  <2>1. Taken(d)
    BY <1>0, <1>1, <1>3, <1>7, <1>9 DEF Taken
  <2> QED BY <1>4, <1>5, <1>9, <2>1 DEF TakenDelete
<1> QED BY <1>3, <1>8, <1>9

LEMMA ServedUpdate ==
  ASSUME Whole, NEW m \in Node, Serve(m), NEW q \in mail, q.op = "update", q.from \in alive,
         q.file \in File, ServeUpdate(Server, q)
  PROVE  \E e : Taken(e) /\ TakenOther(e)
<1>0. /\ UNCHANGED <<alive, members, reported, leader, held, service, fetches>>
      /\ Led /\ job[Server] = << >> /\ call[Server] = NoCall
  BY ServeFacts
<1>1. UNCHANGED miscounted
  BY DEF Serve
<1>2. /\ Server \in Thread /\ job \in [Thread -> Seq(Tasks)] /\ NodeOf(Server) = leader
      /\ map \in [Node -> [Node -> SUBSET File]] /\ leader \in Node /\ alive \subseteq Node
  BY LeadersThreads DEF Whole, TInv, ThreadsT, GroupT
<1>3. /\ map' = [map EXCEPT ![leader][q.from] = @ \cup {q.file}]
      /\ UNCHANGED <<user, job, call, last>>
  BY <1>2 DEF ServeUpdate
<1>4. \A n \in Node : map'[leader][n] = IF n = q.from THEN map[leader][n] \cup {q.file} ELSE map[leader][n]
  BY <1>2, <1>3
<1>5. Server' = Server
  BY <1>0 DEF Server
<1> PICK e : e = << >>
  OBVIOUS
<1>6. job' = [job EXCEPT ![Server] = e]
  BY <1>0, <1>2, <1>3
<1>7. \A k : ~Within(e, k)
  BY DEF Within
<1>8. (\A f : ~Making(Server, f)') /\ call'[Server].state \notin {"taken", "done"}
  BY <1>0, <1>3, <1>5 DEF Making, NoCall
<1>9. \A n \in Node : map[leader][n] \subseteq map'[leader][n]
  BY <1>4
<1>10. \A n \in Node \ alive : map'[leader][n] = map[leader][n]
  BY <1>4
<1>11. UNCHANGED call
  BY <1>3
<1>12. Taken(e)
  BY <1>0, <1>1, <1>6, <1>8, <1>9, <1>10, <1>11 DEF Taken
<1> QED BY <1>3, <1>7, <1>12 DEF TakenOther, Copying

LEMMA ServedPut ==
  ASSUME Whole, NEW m \in Node, Serve(m), NEW q \in mail, q.op = "put", q.from \in alive,
         q.file \in File, user[q.from] = q, mail' = mail \ {q}, ServePut(Server, q), mishaps' = {}
  PROVE  \E e : Taken(e) /\ (TakenOther(e) \/ TakenPut(e, q.from, q.file))
<1> PICK n \in alive, f \in File : n = q.from /\ f = q.file
  OBVIOUS
<1>0. /\ UNCHANGED <<alive, members, reported, leader, held, service, fetches>>
      /\ Led /\ job[Server] = << >> /\ call[Server] = NoCall
  BY ServeFacts
<1>1. UNCHANGED miscounted
  BY DEF Serve
<1>2. /\ Server \in Thread /\ job \in [Thread -> Seq(Tasks)] /\ NodeOf(Server) = leader
      /\ map \in [Node -> [Node -> SUBSET File]] /\ leader \in Node /\ alive \subseteq Node
      /\ user \in [Node -> {Ready} \cup Requests \cup Copies]
  BY LeadersThreads DEF Whole, TInv, ThreadsT, GroupT, UsersT
<1>5. Server' = Server
  BY <1>0 DEF Server
<1>8. UNCHANGED call => (\A g : ~Making(Server, g)') /\ call'[Server].state \notin {"taken", "done"}
  BY <1>0, <1>5 DEF Making, NoCall
<1>a. CASE Count(leader, f) # 0
  <2>1. Answer(q, Ready) /\ UNCHANGED <<map, job, call, last>>
    BY <1>2, <1>a DEF ServePut
  <2>2. \A k \in alive, g \in File : Copying(k, g)' <=> Copying(k, g)
    BY <1>0, <2>1, Refused
  <2> PICK e : e = << >>
    OBVIOUS
  <2>3. job' = [job EXCEPT ![Server] = e]
    BY <1>0, <1>2, <2>1
  <2>4. \A k : ~Within(e, k)
    BY DEF Within
  <2>5. Taken(e)
    BY <1>0, <1>1, <1>8, <2>1, <2>3 DEF Taken
  <2> QED BY <2>1, <2>2, <2>4, <2>5 DEF TakenOther
<1>b. CASE Count(leader, f) = 0
  <2> PICK u : u = [op |-> "copy", file |-> f]
    OBVIOUS
  <2> PICK e : e = <<ReplicateTask(f)>>
    OBVIOUS
  <2>1. /\ user' = [user EXCEPT ![n] = u]
        /\ map' = [map EXCEPT ![leader][n] = map[leader][n] \cup {f}]
        /\ job' = [job EXCEPT ![Server] = e] /\ last' = [last EXCEPT ![f] = "put"]
        /\ UNCHANGED call /\ ~Gathering
    BY <1>2, <1>b DEF ServePut, Answer
  <2>2. \A k \in Node : map'[leader][k] = IF k = n THEN map[leader][k] \cup {f} ELSE map[leader][k]
    BY <1>2, <2>1
  <2>3. \A k \in Node : f \notin map[leader][k]
    BY <1>b, WantedInt DEF Whole, TInv
  <2>4. Entries(f) = {} /\ Entries(f)' = {n} /\ f \in map'[leader][n]
    <3>1. Entries(f) = {}
      BY <2>3 DEF Entries
    <3>2. n \in Node /\ f \in map'[leader][n] /\ \A k \in Node : f \in map'[leader][k] => k = n
      BY <1>2, <2>2, <2>3
    <3>3. Entries(f)' = {k \in Node : f \in map'[leader][k]}
      BY <1>0 DEF Entries
    <3> QED BY <3>1, <3>2, <3>3
  <2>5. Coming(f) = {} /\ ~Busy(f)
    BY <1>0, <2>1, <2>4, NobodyHas
  <2>6. \A k \in alive, g \in File : Copying(k, g)' <=> Copying(k, g) \/ (k = n /\ g = f)
    <3>1. user[n].op # "copy" /\ user'[n] = u /\ \A k \in alive : k # n => user'[k] = user[k]
      BY <1>2, <2>1
    <3> QED BY <3>1 DEF Copying
  <2>7. \A k : Within(e, k) <=> k = ReplicateTask(f)
    <3>1. DOMAIN e = {1} /\ e[1] = ReplicateTask(f)
      OBVIOUS
    <3> QED BY <3>1 DEF Within
  <2>8. Taken(e)
    BY <1>0, <1>1, <1>2, <1>8, <2>1, <2>2 DEF Taken
  <2> QED BY <2>1, <2>4, <2>5, <2>6, <2>7, <2>8 DEF TakenPut
<1> QED BY <1>a, <1>b


\* A request that the master takes, by what it gives the service thread to do.
LEMMA ServeForms ==
  ASSUME Whole, NEW m \in Node, Serve(m), mishaps' = {}
  PROVE  \E e : /\ Taken(e)
                /\ \/ TakenOther(e)
                   \/ \E f \in File : TakenDelete(e, f)
                   \/ \E n \in alive, f \in File : TakenPut(e, n, f)
<1> PICK q \in mail :
      /\ mail' = mail \ {q} /\ q.from \in alive /\ q.file \in File
      /\ q.op = "put" => user[q.from] = q
      /\ \/ q.op = "put" /\ ServePut(Server, q)
         \/ q.op = "get" /\ ServeGet(Server, q)
         \/ q.op = "delete" /\ ServeDelete(Server, q)
         \/ q.op = "update" /\ ServeUpdate(Server, q)
  BY ServeFacts
<1>1. CASE q.op = "put" /\ ServePut(Server, q)
  BY <1>1, ServedPut
<1>2. CASE q.op = "get" /\ ServeGet(Server, q)
  BY <1>2, ServedGet
<1>3. CASE q.op = "delete" /\ ServeDelete(Server, q)
  BY <1>3, ServedDelete
<1>4. CASE q.op = "update" /\ ServeUpdate(Server, q)
  BY <1>4, ServedUpdate
<1> QED BY <1>1, <1>2, <1>3, <1>4

\* It begins no commands that keep copies, lists or repairs.
LEMMA TakenFrame ==
  ASSUME Whole, Counted, NEW e, Taken(e),
         \A k \in Tasks : Within(e, k) => k.do \in {"get", "delete", "replicate"}
  PROVE  /\ Listed' /\ Cleared' /\ Excess' /\ Obeyed'
         /\ \A t \in Thread : \A k : Todo(t, k)' <=> IF t = Server THEN Within(e, k) ELSE Todo(t, k)
         /\ \A t \in Thread : \A f : Making(t, f)' => Making(t, f) /\ call'[t] = call[t]
<1>t. /\ {Server, Starter, Repairer} \subseteq Thread /\ Starter' = Starter /\ Repairer' = Repairer
      /\ Server # Starter /\ Server # Repairer /\ Server' = Server
  <2>1. UNCHANGED leader
    BY DEF Taken
  <2> QED BY <2>1, LeadersThreads DEF Whole, TInv, Server, Starter, Repairer
<1>1. /\ \A t \in Thread \ {Server} : job'[t] = job[t]
      /\ \A t \in Thread : \A k : Todo(t, k)' <=> IF t = Server THEN Within(e, k) ELSE Todo(t, k)
  <2>1. job' = [job EXCEPT ![Server] = e] /\ UNCHANGED leader
    BY DEF Taken
  <2>2. job'[Server] = e /\ \A t \in Thread \ {Server} : job'[t] = job[t]
    BY <2>1, ServersJob
  <2> QED BY <2>2 DEF Todo, Within
<1>2. \A t \in Thread, k \in Tasks : k.do \in {"list", "endless"} /\ Todo(t, k)' => Todo(t, k)
  <2> SUFFICES ASSUME NEW t \in Thread, NEW k \in Tasks, k.do \in {"list", "endless"}, Todo(t, k)'
               PROVE  Todo(t, k)
    OBVIOUS
  <2>1. t # Server
    BY <1>1
  <2> QED BY <1>1, <2>1
<1>3. Todo(Starter, RepairTask({})) => Todo(Starter, RepairTask({}))'
  <2>1. Todo(Starter, RepairTask({}))' <=> \E i \in DOMAIN job'[Starter] : job'[Starter][i] = RepairTask({})
    BY <1>t DEF Todo
  <2> QED BY <1>1, <1>t, <2>1 DEF Todo
<1>4. job'[Starter] = job[Starter] /\ job'[Repairer] = job[Repairer]
  BY <1>1, <1>t
<1>5. /\ UNCHANGED <<alive, leader, reported, miscounted, service>>
      /\ \A n \in Node \ alive : map'[leader][n] \subseteq map[leader][n]
      /\ \A t \in Thread \ {Server} : call'[t] = call[t]
      /\ call'[Server].state # "taken"
  BY DEF Taken
<1>9. \A t \in Thread : t = Server => \A f : ~Making(t, f)'
  <2>1. \A f : ~Making(Server, f)'
    BY DEF Taken
  <2> QED BY <1>t, <2>1 DEF Making
<1>6. Listed' /\ Cleared' /\ Excess'
  BY <1>2, <1>3, <1>4, <1>5, RestCounted
<1>7. Obeyed'
  <2> SUFFICES ASSUME NEW t \in Thread, call'[t].state = "taken"
               PROVE  LET s == service'[call'[t].to] IN
                      s.state = "sending" /\ s.by = t /\ s.targets \subseteq call'[t].targets
    BY DEF Obeyed
  <2>1. call'[t] = call[t] /\ service' = service
    BY <1>5
  <2> QED BY <2>1 DEF Counted, Obeyed
<1>8. \A t \in Thread : \A f : Making(t, f)' => Making(t, f) /\ call'[t] = call[t]
  <2> SUFFICES ASSUME NEW t \in Thread, NEW f, Making(t, f)' PROVE Making(t, f) /\ call'[t] = call[t]
    OBVIOUS
  <2>1. t # Server
    BY <1>9
  <2> QED BY <1>5, <2>1 DEF Making
<1> QED BY <1>1, <1>6, <1>7, <1>8

LEMMA ServeCounts ==
  ASSUME Whole, Counted, NEW m \in Node, Serve(m), mishaps' = {}
  PROVE  Counted'
<1> PICK e : /\ Taken(e)
             /\ \/ TakenOther(e)
                \/ \E f \in File : TakenDelete(e, f)
                \/ \E n \in alive, f \in File : TakenPut(e, n, f)
  BY ServeForms
<1>1. /\ UNCHANGED <<alive, members, leader, held, fetches, miscounted>>
      /\ \A n \in Node \ alive : map'[leader][n] \subseteq map[leader][n]
  BY DEF Taken
<1>2. \A k \in Tasks : Within(e, k) => k.do \in {"get", "delete", "replicate"}
  BY DEF TakenOther, TakenDelete, TakenPut, ReplicateTask
<1>3. /\ Listed' /\ Cleared' /\ Excess' /\ Obeyed'
      /\ \A t \in Thread : \A k : Todo(t, k)' <=> IF t = Server THEN Within(e, k) ELSE Todo(t, k)
      /\ \A t \in Thread : \A f : Making(t, f)' => Making(t, f) /\ call'[t] = call[t]
  BY <1>2, TakenFrame
\* A file that is not put now.
<1>4. ASSUME NEW f \in File, ~Within(e, ReplicateTask(f)),
             \A n \in alive : Copying(n, f)' => Copying(n, f)
      PROVE  Certain(f)' /\ Limited(f)'
  <2>1. \A t \in Thread : Todo(t, ReplicateTask(f))' => Todo(t, ReplicateTask(f))
    BY <1>3, <1>4
  <2>2. Certain(f)'
    BY <1>1, <2>1, CertainStays DEF Counted
  <2>3. \A n \in alive : f \in held'[n] \/ Copying(n, f)' \/ Arriving(n, f)' => n \in Coming(f)
    BY <1>1, <1>4 DEF Coming, Has, Arriving
  <2>4. Coming(f)' \subseteq Coming(f)
    BY <1>1, <1>3, <2>3, ComingStays
  <2> QED BY <1>1, <2>2, <2>4, LimitedStays DEF Counted, Whole, TInv
<1>5. ASSUME NEW n \in alive, NEW f \in File, TakenPut(e, n, f), NEW g \in File
      PROVE  Certain(g)' /\ Limited(g)'
  <2>1. CASE g # f
    <3>1. ~Within(e, ReplicateTask(g))
      BY <1>5, <2>1 DEF TakenPut, ReplicateTask
    <3>2. \A k \in alive : Copying(k, g)' => Copying(k, g)
      BY <1>5, <2>1 DEF TakenPut
    <3> QED BY <1>4, <3>1, <3>2
  <2>2. CASE g = f
    <3>1. Certain(f)'
      BY <1>1, <1>5 DEF Certain, TakenPut
    <3>2. Coming(f)' \subseteq {n}
      <4>1. Coming(f) = {} /\ \A k \in alive : Copying(k, f)' => Copying(k, f) \/ k = n
        BY <1>5 DEF TakenPut
      <4>2. \A k \in alive : f \notin held[k] /\ ~Copying(k, f) /\ ~Arriving(k, f)
        BY <4>1 DEF Coming, Has
      <4>3. \A k \in alive : f \in held'[k] \/ Copying(k, f)' \/ Arriving(k, f)' => k = n
        BY <1>1, <4>1, <4>2 DEF Arriving
      <4>4. \A k \in alive, t \in Thread : ~(Making(t, f)' /\ k \in call'[t].targets)
        BY <1>3, <4>1 DEF Coming
      <4> QED BY <1>1, <4>3, <4>4 DEF Coming, Has
    <3>3. Cardinality(Coming(f)') <= 1
      <4>1. IsFiniteSet({n}) /\ Cardinality({n}) = 1
        BY FS_Singleton
      <4> QED BY <3>2, <4>1, FS_Subset
    <3>4. MaxReplicate >= 1 /\ MaxReplicate \in Nat
      BY ReplicationAssumption DEF ReplicationAssumption
    <3>5. Cardinality(Coming(f)') \in Nat
      <4>1. IsFiniteSet({n})
        BY FS_Singleton
      <4> QED BY <3>2, <4>1, FS_Subset, FS_CardinalityType
    <3>6. Limited(f)'
      BY <3>3, <3>4, <3>5 DEF Limited
    <3> QED BY <2>2, <3>1, <3>6
  <2> QED BY <2>1, <2>2
<1>6. ASSUME NEW g \in File PROVE Certain(g)' /\ Limited(g)'
  <2>1. CASE TakenOther(e) \/ \E f \in File : TakenDelete(e, f)
    <3>1. ~Within(e, ReplicateTask(g))
      <4>1. ReplicateTask(g) \in Tasks /\ ReplicateTask(g).do = "replicate"
        BY DEF Tasks, ReplicateTask
      <4> QED BY <2>1, <4>1 DEF TakenOther, TakenDelete
    <3>2. \A k \in alive : Copying(k, g)' => Copying(k, g)
      BY <2>1 DEF TakenOther, TakenDelete
    <3> QED BY <1>4, <3>1, <3>2
  <2>2. CASE \E n \in alive, f \in File : TakenPut(e, n, f)
    BY <1>5, <2>2
  <2> QED BY <2>1, <2>2
<1> QED BY <1>3, <1>6 DEF Counted


-----------------------------------------------------------------------------
(* Targets are found *)

\* Copies that are due to a file that was put.
Due == Smaller(Cardinality(alive), MaxReplicate)

LEMMA SubsetOfSize ==
  ASSUME NEW S, IsFiniteSet(S), NEW k \in Nat, k <= Cardinality(S)
  PROVE  \E T \in SUBSET S : Cardinality(T) = k
<1> DEFINE c == Cardinality(S)
<1>1. c \in Nat /\ ExistsBijection(1 .. c, S)
  BY FS_CardinalityType
<1> PICK g \in Bijection(1 .. c, S) : TRUE
  BY <1>1 DEF ExistsBijection
<1> HIDE DEF c
<1>2. /\ g \in [1 .. c -> S]
      /\ \A i, j \in 1 .. c : g[i] = g[j] => i = j
  BY DEF Bijection, Injection, IsInjective
<1> DEFINE T == {g[i] : i \in 1 .. k}
           h == [i \in 1 .. k |-> g[i]]
<1>3. 1 .. k \subseteq 1 .. c
  BY <1>1 DEF c
<1>4. T \in SUBSET S
  BY <1>2, <1>3
<1>5. h \in [1 .. k -> T]
  OBVIOUS
<1>6. \A i, j \in 1 .. k : h[i] = h[j] => i = j
  BY <1>2, <1>3
<1>7. \A y \in T : \E i \in 1 .. k : h[i] = y
  OBVIOUS
<1> HIDE DEF T, h
<1>8. h \in Bijection(1 .. k, T)
  BY <1>5, <1>6, <1>7 DEF Bijection, Injection, IsInjective, Surjection
<1>9. ExistsBijection(1 .. k, T)
  BY <1>8 DEF ExistsBijection
<1>10. Cardinality(T) = k
  BY <1>9, FS_CountingElements
<1> QED BY <1>4, <1>10

\* Whoever counts the replicas of f counts those of nodes that run, all of which have it
\* or are about to; it is told when there are others.
LEMMA CountFacts ==
  ASSUME Whole, Counted, NEW t \in Thread, NEW f \in File, Todo(t, ReplicateTask(f))
  PROVE  /\ Led /\ NodeOf(t) = leader
         /\ Entries(f) \subseteq Has(f) /\ Entries(f) # {} /\ Holders(leader, f) = Entries(f)
         /\ Count(leader, f) = Cardinality(Entries(f))
         /\ ~Uncounted(leader, f) => Coming(f) \subseteq Entries(f)
<1>1. Led /\ NodeOf(t) = leader
  BY JobsOfLeader DEF ReplicateTask
<1>2. Busy(f) /\ ~Deleting(f)
  BY <1>1 DEF Busy, Whole, Agreed, Mapped
<1>3. Entries(f) \subseteq alive
  BY <1>1 DEF Counted, Certain
<1>4. Entries(f) # {}
  <2>1. \E n \in alive : f \in map[leader][n]
    BY <1>1, <1>2 DEF Whole, Agreed, Mapped
  <2> QED BY <2>1 DEF Entries, Whole, TInv, GroupT
<1>5. alive \subseteq members /\ members \subseteq Node
  BY DEF Whole, IInv, AliveListed
<1>6. Holders(leader, f) = Entries(f)
  BY <1>3, <1>5 DEF Holders, Entries
<1>7. Count(leader, f) = Cardinality(Entries(f))
  BY DEF Count, Entries
<1>8. \A n \in alive : ~Struck(n, f)
  <2> SUFFICES ASSUME NEW n \in alive, Struck(n, f) PROVE FALSE
    OBVIOUS
  <2>1. Server \in Thread /\ call[Server].do = "delete" /\ call[Server].file = f
    BY LeadersThreads DEF Struck, Whole, TInv
  <2>2. Deleting(f)
    BY <2>1, DeleteCallFacts
  <2> QED BY <1>2, <2>2
<1>9. Entries(f) \subseteq Has(f)
  <2> SUFFICES ASSUME NEW n \in Entries(f) PROVE n \in Has(f)
    OBVIOUS
  <2>1. n \in alive /\ f \in map[leader][n]
    BY <1>3 DEF Entries
  <2>2. Noted(n, f)
    BY <1>1, <2>1 DEF Whole, Agreed, Mapped
  <2> QED BY <1>8, <2>1, <2>2 DEF Noted, Has
<1>10. ASSUME ~Uncounted(leader, f) PROVE Coming(f) \subseteq Entries(f)
  <2> SUFFICES ASSUME NEW n \in Coming(f), f \notin map[leader][n] PROVE FALSE
    BY DEF Entries, Coming, Has, Whole, TInv, GroupT
  <2>1. n \in alive
    BY DEF Coming, Has
  <2>2. ~Copying(n, f)
    BY <2>1 DEF Whole, Agreed, FirstCopy
  <2>3. f \notin held[n] /\ ~Arriving(n, f)
    BY <1>10, <2>1 DEF Uncounted, Arriving
  <2>4. \A r \in Thread : ~(Making(r, f) /\ n \in call[r].targets)
    BY <1>10, <2>1 DEF Uncounted, Making
  <2> QED BY <2>2, <2>3, <2>4 DEF Coming, Has
<1> QED BY <1>1, <1>4, <1>6, <1>7, <1>9, <1>10

LEMMA GroupSize ==
  ASSUME Whole
  PROVE  /\ IsFiniteSet(members) /\ Cardinality(members) \in Nat
         /\ Cardinality(alive) \in Nat /\ Cardinality(alive) <= Cardinality(members)
         /\ MaxReplicate \in Nat /\ MaxReplicate >= 1
<1>1. IsFiniteSet(Node) /\ members \subseteq Node /\ alive \subseteq members
  BY ReplicationAssumption DEF ReplicationAssumption, Whole, IInv, AliveListed
<1>2. IsFiniteSet(members)
  BY <1>1, FS_Subset
<1>3. /\ Cardinality(alive) <= Cardinality(members) /\ IsFiniteSet(alive)
  BY <1>1, <1>2, FS_Subset
<1>4. MaxReplicate \in Nat /\ MaxReplicate >= 1
  BY ReplicationAssumption DEF ReplicationAssumption
<1> QED BY <1>2, <1>3, <1>4, FS_CardinalityType

LEMMA DrawnFrom ==
  ASSUME NEW m, NEW f, NEW s \in Holders(m, f), NEW T \in SUBSET (members \ Holders(m, f)),
         Cardinality(T) = Wanted(m, f)
  PROVE  ReplicateCall(s, f, T, TRUE) \in Draws(m, f)
<1> DEFINE Q == {S \in SUBSET (members \ Holders(m, f)) : Cardinality(S) = Wanted(m, f)}
           From(U) == {ReplicateCall(r, f, U, TRUE) : r \in Holders(m, f)}
<1>1. T \in Q
  OBVIOUS
<1>2. ReplicateCall(s, f, T, TRUE) \in From(T)
  OBVIOUS
<1>3. Draws(m, f) = UNION {From(U) : U \in Q}
  BY DEF Draws
<1> HIDE DEF Q, From
<1>4. From(T) \in {From(U) : U \in Q}
  BY <1>1
<1> QED BY <1>2, <1>3, <1>4

\* The loops of replicateFile only fail to end when more copies are there than are due.
LEMMA NoTargets ==
  ASSUME Whole, Counted, NEW t \in Thread, NEW f \in File, Todo(t, ReplicateTask(f)),
         Wanted(leader, f) # 0, Draws(leader, f) = {}
  PROVE  Wanted(leader, f) < 0 /\ f \in miscounted
<1> DEFINE E == Entries(f)
           M == Cardinality(members)
           c == Cardinality(E)
<1>1. /\ E \subseteq Has(f) /\ E # {} /\ Holders(leader, f) = E /\ Count(leader, f) = c
  BY CountFacts
<1>2. /\ Has(f) \subseteq Coming(f) /\ IsFiniteSet(Coming(f)) /\ Cardinality(Coming(f)) \in Nat
      /\ IsFiniteSet(E) /\ c \in Nat
  BY CopiesFinite DEF Whole, TInv
<1>3. /\ IsFiniteSet(members) /\ M \in Nat /\ MaxReplicate \in Nat
  BY GroupSize
<1>4. E \subseteq members
  BY <1>1 DEF Holders
<1>5. c <= M
  BY <1>3, <1>4, FS_Subset
<1>6. Wanted(leader, f) = Smaller(M, MaxReplicate) - c
  BY <1>1 DEF Wanted
<1>7. Cardinality(members \ E) = M - c /\ IsFiniteSet(members \ E)
  <2>1. members \cap E = E
    BY <1>4
  <2> QED BY <1>3, <2>1, FS_Difference
<1> HIDE DEF E, M, c
<1>8. ~(Wanted(leader, f) > 0)
  <2> SUFFICES ASSUME Wanted(leader, f) > 0 PROVE FALSE
    OBVIOUS
  <2>1. Wanted(leader, f) \in Nat /\ Wanted(leader, f) <= M - c
    BY <1>2, <1>3, <1>6 DEF Smaller
  <2>2. PICK T \in SUBSET (members \ E) : Cardinality(T) = Wanted(leader, f)
    BY <1>7, <2>1, SubsetOfSize
  <2>3. PICK s \in E : TRUE
    BY <1>1
  <2>4. ReplicateCall(s, f, T, TRUE) \in Draws(leader, f)
    BY <1>1, <2>2, DrawnFrom
  <2> QED BY <2>4
<1>9. Wanted(leader, f) \in Int
  BY <1>2, <1>3, <1>6 DEF Smaller
<1>10. Wanted(leader, f) < 0
  BY <1>8, <1>9
<1>11. c > MaxReplicate
  BY <1>2, <1>3, <1>5, <1>6, <1>10 DEF Smaller
<1>12. c <= Cardinality(Coming(f))
  BY <1>1, <1>2, FS_Subset DEF c
<1>13. Cardinality(Coming(f)) > MaxReplicate
  BY <1>2, <1>3, <1>11, <1>12
<1>14. ~(Cardinality(Coming(f)) <= MaxReplicate)
  BY <1>2, <1>3, <1>13
<1> QED BY <1>10, <1>14 DEF Counted, Limited

\* The targets that it finds make all the copies that are due, and not more than are
\* counted.
LEMMA SomeTargets ==
  ASSUME Whole, Counted, NEW t \in Thread, NEW f \in File, Todo(t, ReplicateTask(f)),
         Wanted(leader, f) # 0, NEW c \in Draws(leader, f)
  PROVE  /\ Cardinality(Has(f) \cup c.targets) >= Due
         /\ Uncounted(leader, f) \/ Cardinality(Coming(f) \cup c.targets) <= MaxReplicate
<1> DEFINE E == Entries(f)
<1>1. /\ E \subseteq Has(f) /\ Holders(leader, f) = E /\ Count(leader, f) = Cardinality(E)
      /\ ~Uncounted(leader, f) => Coming(f) \subseteq E
  BY CountFacts
<1> PICK s \in Holders(leader, f),
         T \in {S \in SUBSET (members \ Holders(leader, f)) : Cardinality(S) = Wanted(leader, f)} :
           c = ReplicateCall(s, f, T, TRUE)
  BY DEF Draws
<1>2. /\ T \subseteq members \ E /\ Cardinality(T) = Smaller(Cardinality(members), MaxReplicate) - Cardinality(E)
      /\ c.targets = T
  BY <1>1 DEF Wanted, ReplicateCall
<1>3. /\ IsFiniteSet(members) /\ Cardinality(members) \in Nat /\ MaxReplicate \in Nat
      /\ Cardinality(alive) \in Nat /\ Cardinality(alive) <= Cardinality(members)
  BY GroupSize
<1>4. IsFiniteSet(T)
  BY <1>2, <1>3, FS_Subset
<1>5. /\ IsFiniteSet(E) /\ Cardinality(E) \in Nat /\ IsFiniteSet(Has(f)) /\ IsFiniteSet(Coming(f))
  BY CopiesFinite DEF Whole, TInv
<1> HIDE DEF E
<1>6. /\ IsFiniteSet(E \cup T)
      /\ Cardinality(E \cup T) = Smaller(Cardinality(members), MaxReplicate)
  <2>1. E \cap T = {}
    BY <1>2
  <2>2. Cardinality(E \cap T) = 0
    BY <2>1, FS_EmptySet
  <2>3. IsFiniteSet(E \cup T) /\ Cardinality(E \cup T) = Cardinality(E) + Cardinality(T) - Cardinality(E \cap T)
    BY <1>4, <1>5, FS_Union
  <2>4. Smaller(Cardinality(members), MaxReplicate) \in Int
    BY <1>3 DEF Smaller
  <2> QED BY <1>2, <1>5, <2>2, <2>3, <2>4
<1>7. Due <= Cardinality(E \cup T) /\ Cardinality(E \cup T) <= MaxReplicate /\ Due \in Int
  BY <1>3, <1>6 DEF Due, Smaller
<1>8. Cardinality(Has(f) \cup T) >= Due
  <2>1. IsFiniteSet(Has(f) \cup T)
    BY <1>4, <1>5, FS_Union
  <2>2. Cardinality(E \cup T) <= Cardinality(Has(f) \cup T) /\ Cardinality(Has(f) \cup T) \in Nat
    BY <1>1, <2>1, FS_Subset, FS_CardinalityType
  <2>3. Cardinality(E \cup T) \in Nat
    BY <1>6, FS_CardinalityType
  <2> QED BY <1>7, <2>2, <2>3
<1>9. ASSUME ~Uncounted(leader, f) PROVE Cardinality(Coming(f) \cup T) <= MaxReplicate
  <2>1. Coming(f) \cup T \in SUBSET (E \cup T)
    BY <1>1, <1>9
  <2>2. Cardinality(Coming(f) \cup T) <= Cardinality(E \cup T) /\ Cardinality(Coming(f) \cup T) \in Nat
    BY <1>6, <2>1, FS_Subset, FS_CardinalityType
  <2>3. Cardinality(E \cup T) \in Nat
    BY <1>6, FS_CardinalityType
  <2> QED BY <1>3, <1>7, <2>2, <2>3
<1> QED BY <1>2, <1>8, <1>9


-----------------------------------------------------------------------------
(* The master's threads *)

\* A thread that has anything else to do first than to repair changes what it has to do.
LEMMA JobFrame ==
  ASSUME Whole, NEW t \in Thread, job[t] # << >>, Head(job[t]).do # "repair",
         NEW e, job' = [job EXCEPT ![t] = e]
  PROVE  /\ job'[t] = e /\ \A r \in Thread \ {t} : job'[r] = job[r]
         /\ \A r \in Thread \ {t} : \A k : Todo(r, k)' <=> Todo(r, k)
         /\ \A k : Todo(t, k)' <=> Within(e, k)
         /\ \A k : Todo(t, k) <=> Within(job[t], k)
         /\ job[Starter] = << >> => job'[Starter] = << >>
         /\ \A n \in Node : job[Repairer] = <<RepairTask({n})>> => job'[Repairer] = job[Repairer]
<1>1. job'[t] = e /\ \A r \in Thread \ {t} : job'[r] = job[r]
  BY DEF Whole, TInv, ThreadsT
<1>2. \A r \in Thread \ {t} : \A k : Todo(r, k)' <=> Todo(r, k)
  BY <1>1 DEF Todo
<1>3. (\A k : Todo(t, k)' <=> Within(e, k)) /\ \A k : Todo(t, k) <=> Within(job[t], k)
  BY <1>1 DEF Todo, Within
<1>4. Starter \in Thread /\ Repairer \in Thread
  BY LeadersThreads DEF Whole, TInv
<1>5. job[Starter] = << >> => job'[Starter] = << >>
  BY <1>1, <1>4
<1>6. ASSUME NEW n \in Node, job[Repairer] = <<RepairTask({n})>> PROVE job'[Repairer] = job[Repairer]
  <2>1. Head(job[Repairer]).do = "repair"
    BY <1>6 DEF RepairTask
  <2> QED BY <1>1, <1>4, <2>1
<1> QED BY <1>1, <1>2, <1>3, <1>5, <1>6

\* The thread that replicates f, its count, and the three ways it goes on.
ReplicateStep(t, f) ==
  /\ Head(job[t]) = ReplicateTask(f) /\ Todo(t, ReplicateTask(f)) /\ job[t] # << >>
  /\ job[t] \in Seq(Tasks) /\ NodeOf(t) = leader /\ Led /\ call[t] = NoCall
  /\ miscounted' = IF Uncounted(leader, f) THEN miscounted \cup {f} ELSE miscounted
  /\ \/ /\ Wanted(leader, f) = 0
        /\ job' = [job EXCEPT ![t] = Tail(job[t])] /\ UNCHANGED call
     \/ /\ Wanted(leader, f) # 0 /\ Draws(leader, f) = {}
        /\ job' = [job EXCEPT ![t] = <<EndlessTask(f, Wanted(leader, f) < 0)>>] /\ UNCHANGED call
     \/ /\ Wanted(leader, f) # 0
        /\ \E c \in Draws(leader, f) : call' = [call EXCEPT ![t] = c] /\ UNCHANGED job

LEMMA ReplicateFacts ==
  ASSUME Whole, NEW t \in Thread, Work(t), Head(job[t]).do = "replicate", Replicate(t)
  PROVE  /\ UNCHANGED <<alive, members, reported, leader, held, user, service, fetches, mail, map, last>>
         /\ \E f \in File : ReplicateStep(t, f)
<1>0. /\ UNCHANGED <<alive, members, reported, leader, held, user, service, fetches, mail, map, last>>
      /\ Runs(t) /\ call[t] = NoCall /\ job[t] # << >>
  BY DEF Work, Replicate, Runs, groupVars, nodeVars
<1>1. job[t] \in Seq(Tasks)
  BY DEF Whole, TInv, ThreadsT
<1>2. PICK f \in File : Head(job[t]) = ReplicateTask(f)
  <2>1. Head(job[t]) \in Tasks
    BY <1>0, <1>1, TailWithin
  <2> QED BY <2>1, TaskFields
<1>3. Head(job[t]).file = f /\ ReplicateTask(f).do # "repair"
  BY <1>2 DEF ReplicateTask
<1>4. Todo(t, ReplicateTask(f))
  <2>1. Within(job[t], Head(job[t]))
    BY <1>0, <1>1, TailWithin
  <2> QED BY <1>2, <2>1 DEF Within, Todo
<1>5. NodeOf(t) = leader /\ Led
  BY <1>3, <1>4, JobsOfLeader
<1>6. miscounted' = IF Uncounted(leader, f) THEN miscounted \cup {f} ELSE miscounted
  BY <1>3, <1>5 DEF Replicate
<1>7. \/ Wanted(leader, f) = 0 /\ job' = Rest(t) /\ UNCHANGED call
      \/ /\ Wanted(leader, f) # 0 /\ Draws(leader, f) = {}
         /\ job' = [job EXCEPT ![t] = <<EndlessTask(f, Wanted(leader, f) < 0)>>] /\ UNCHANGED call
      \/ /\ Wanted(leader, f) # 0
         /\ \E c \in Draws(leader, f) : call' = [call EXCEPT ![t] = c] /\ UNCHANGED job
  BY <1>3, <1>5 DEF Replicate
<1>8. job' = Rest(t) => job' = [job EXCEPT ![t] = Tail(job[t])]
  BY DEF Rest
<1>9. ReplicateStep(t, f)
  BY <1>0, <1>1, <1>2, <1>4, <1>5, <1>6, <1>7, <1>8 DEF ReplicateStep
<1> QED BY <1>0, <1>9

\* A thread that has other work first than lists has none.
LEMMA NoLists ==
  ASSUME Whole, NEW t \in Thread, job[t] # << >>, Head(job[t]).do # "list"
  PROVE  \A k : k.do = "list" => ~Todo(t, k)
<1>1. job[t] \in Seq(Tasks) /\ Proper(job[t], t[2])
  BY DEF Whole, TInv, ThreadsT, Agreed, Orders
<1>2. \A i \in DOMAIN job[t] : job[t][i].do # "list"
  BY <1>1, ListsFirst
<1> QED BY <1>2 DEF Todo

LEMMA ReplicateCounts ==
  ASSUME Whole, Counted, NEW t \in Thread, Work(t), Head(job[t]).do = "replicate", Replicate(t)
  PROVE  Counted'
<1>0. UNCHANGED <<alive, members, reported, leader, held, user, service, fetches, mail, map, last>>
  BY ReplicateFacts
<1> PICK f \in File : ReplicateStep(t, f)
  BY ReplicateFacts
<1>1. /\ Head(job[t]) = ReplicateTask(f) /\ Todo(t, ReplicateTask(f)) /\ job[t] # << >>
      /\ job[t] \in Seq(Tasks) /\ NodeOf(t) = leader /\ Led /\ call[t] = NoCall
      /\ miscounted \subseteq miscounted' /\ (Uncounted(leader, f) => f \in miscounted')
  BY DEF ReplicateStep
<1>2. Head(job[t]).do = "replicate" /\ Starter \in Thread /\ Starter' = Starter
  BY <1>0, LeadersThreads DEF Whole, TInv, Starter
<1>3. \A k : k.do = "list" => ~Todo(t, k)
  BY <1>1, <1>2, NoLists
<1>4. Obeyed /\ Listed /\ Excess /\ \A g \in File : Certain(g) /\ Limited(g)
  BY DEF Counted
<1>5. ASSUME job' = [job EXCEPT ![t] = Tail(job[t])], UNCHANGED call PROVE Counted'
  <2>1. \A k : Within(Tail(job[t]), k) => Within(job[t], k)
    BY <1>1, TailWithin
  <2>2. \A r \in Thread : \A k : Todo(r, k)' => Todo(r, k)
    BY <1>1, <1>2, <1>5, <2>1, JobFrame
  <2>3. \A r \in Thread : r = Starter => \A k : Todo(r, k) \/ ~Todo(r, k)'
    BY <2>2
  <2>4. \A r \in Thread : r # t => (Todo(r, RepairTask({})) => Todo(r, RepairTask({}))')
    BY <1>1, <1>2, <1>5, JobFrame
  <2>5. (\E n \in Node : Todo(Starter, ListTask(n))') /\ Todo(Starter, RepairTask({})) =>
          Todo(Starter, RepairTask({}))'
    <3>1. ASSUME NEW n \in Node, Todo(Starter, ListTask(n))' PROVE Starter # t
      <4>1. ListTask(n).do = "list"
        BY DEF ListTask
      <4>2. Todo(Starter, ListTask(n))
        BY <1>2, <2>2, <3>1 DEF Todo
      <4> QED BY <1>3, <4>1, <4>2
    <3> QED BY <1>2, <2>4, <3>1 DEF Todo
  <2>6. /\ job[Starter] = << >> => job'[Starter] = << >>
        /\ \A n \in Node : job[Repairer] = <<RepairTask({n})>> => job'[Repairer] = job[Repairer]
    BY <1>1, <1>2, <1>5, JobFrame
  <2>7. Obeyed'
    BY <1>0, <1>4, <1>5 DEF Obeyed
  <2>8. \A g \in File : Coming(g)' \subseteq Coming(g)
    BY <1>0, <1>5 DEF Coming, Has, Arriving, Copying, Making
  <2> QED BY <1>0, <1>1, <2>2, <2>5, <2>6, <2>7, <2>8, CountedStays
<1>6. ASSUME Wanted(leader, f) # 0, Draws(leader, f) = {},
             job' = [job EXCEPT ![t] = <<EndlessTask(f, Wanted(leader, f) < 0)>>], UNCHANGED call
      PROVE  Counted'
  <2>1. Wanted(leader, f) < 0 /\ f \in miscounted
    BY <1>1, <1>6, NoTargets
  <2> PICK h : h = EndlessTask(f, Wanted(leader, f) < 0)
    OBVIOUS
  <2>2. h = EndlessTask(f, TRUE)
    BY <2>1
  <2>3. h.do = "endless" /\ h.excess /\ h.file = f
    BY <2>2 DEF EndlessTask
  <2> PICK e : e = <<h>>
    OBVIOUS
  <2>4. job' = [job EXCEPT ![t] = e] /\ \A k : Within(e, k) <=> k = h
    BY <1>6 DEF Within
  <2>5. \A r \in Thread : \A k : Todo(r, k)' => Todo(r, k) \/ (r = t /\ k = h)
    BY <1>1, <1>2, <2>4, JobFrame
  <2>6. \A r \in Thread : r # t => (Todo(r, RepairTask({})) => Todo(r, RepairTask({}))')
    BY <1>1, <1>2, <2>4, JobFrame
  <2>7. Listed'
    <3> SUFFICES ASSUME NEW n \in Node, Todo(Starter, ListTask(n))'
                 PROVE  n \in alive' /\ Todo(Starter, RepairTask({}))'
      BY DEF Listed
    <3>1. ListTask(n).do = "list"
      BY DEF ListTask
    <3>2. Todo(Starter, ListTask(n))
      BY <1>2, <2>3, <2>5, <3>1 DEF Todo
    <3>3. Starter # t
      BY <1>3, <3>1, <3>2
    <3> QED BY <1>0, <1>2, <1>4, <2>6, <3>2, <3>3 DEF Listed, Todo
  <2>8. Cleared'
    <3>1. Led' /\ Repairer' = Repairer
      BY <1>0, <1>1 DEF Led, Repairer
    <3>2. /\ job[Starter] = << >> => job'[Starter] = << >>
          /\ \A n \in Node : job[Repairer] = <<RepairTask({n})>> => job'[Repairer] = job[Repairer]
      BY <1>1, <1>2, <2>4, JobFrame
    <3>3. ASSUME NEW n \in Node \ alive, map[leader][n] # {}
          PROVE  job'[Starter] = << >> /\ (n \in reported => job'[Repairer] = <<RepairTask({n})>>)
      BY <1>1, <3>2, <3>3 DEF Counted, Cleared
    <3> QED BY <1>0, <1>2, <3>1, <3>3 DEF Cleared
  <2>9. Excess'
    <3> SUFFICES ASSUME NEW r \in Thread, NEW k \in Tasks, k.do = "endless", Todo(r, k)'
                 PROVE  k.excess /\ k.file \in miscounted'
      BY DEF Excess
    <3>1. CASE Todo(r, k)
      BY <1>1, <1>4, <3>1 DEF Excess
    <3>2. CASE k = h
      BY <1>1, <2>1, <2>3, <3>2
    <3> QED BY <2>5, <3>1, <3>2
  <2>10. ASSUME NEW g \in File PROVE Certain(g)' /\ Limited(g)'
    <3>1. ReplicateTask(g).do = "replicate"
      BY DEF ReplicateTask
    <3>2. \A r \in Thread : Todo(r, ReplicateTask(g))' => Todo(r, ReplicateTask(g))
      BY <2>3, <2>5, <3>1
    <3>3. Certain(g)'
      BY <1>0, <1>4, <3>2, CertainStays
    <3>4. Coming(g)' \subseteq Coming(g)
      BY <1>0, <1>6 DEF Coming, Has, Arriving, Copying, Making
    <3> QED BY <1>1, <1>4, <3>3, <3>4, LimitedStays DEF Whole, TInv
  <2>11. Obeyed'
    BY <1>0, <1>4, <1>6 DEF Obeyed
  <2> QED BY <2>7, <2>8, <2>9, <2>10, <2>11 DEF Counted
<1>7. ASSUME Wanted(leader, f) # 0, NEW c \in Draws(leader, f), call' = [call EXCEPT ![t] = c],
             UNCHANGED job
      PROVE  Counted'
  <2>1. c.state = "sent" /\ c.keep /\ c.file = f
    BY <1>7, DrawsType DEF Whole, TInv, GroupT
  <2>2. call'[t] = c /\ \A r \in Thread \ {t} : call'[r] = call[r]
    BY <1>7 DEF Whole, TInv, ThreadsT
  <2>3. Obeyed'
    BY <1>0, <1>4, <2>1, <2>2 DEF Obeyed
  <2>4. \A r \in Thread : \A k : Todo(r, k)' <=> Todo(r, k)
    BY <1>7 DEF Todo
  <2>5. Todo(Starter, RepairTask({})) => Todo(Starter, RepairTask({}))'
    BY <1>2, <1>7 DEF Todo
  <2>6. Listed' /\ Cleared' /\ Excess'
    BY <1>0, <1>1, <1>7, <2>4, <2>5, RestCounted
  <2>7. ASSUME NEW g \in File PROVE Certain(g)' /\ Limited(g)'
    <3>1. Certain(g)'
      BY <1>0, <1>4, <2>4, CertainStays
    <3>2. Coming(g)' \subseteq Coming(g) \cup (IF g = f THEN c.targets ELSE {})
      <4>1. \A r \in Thread : Making(r, g)' => \/ r # t /\ Making(r, g) /\ call'[r].targets = call[r].targets
                                               \/ g = f /\ call'[r].targets = c.targets
        BY <2>1, <2>2 DEF Making
      <4>2. Has(g)' = Has(g)
        BY <1>0 DEF Has, Arriving, Copying
      <4> QED BY <1>0, <4>1, <4>2 DEF Coming
    <3>3. CASE g # f
      BY <1>1, <1>4, <3>1, <3>2, <3>3, LimitedStays DEF Whole, TInv
    <3>4. CASE g = f /\ ~Uncounted(leader, f)
      <4>1. Cardinality(Coming(f) \cup c.targets) <= MaxReplicate
        BY <1>1, <1>7, <3>4, SomeTargets
      <4>2. IsFiniteSet(Coming(f)) /\ IsFiniteSet(c.targets) /\ MaxReplicate \in Nat
        <5>1. c.targets \subseteq Node
          BY <1>7, DrawsType DEF Whole, TInv, GroupT, ReplicateCalls
        <5> QED BY <5>1, CopiesFinite, FS_Subset, ReplicationAssumption
                DEF Whole, TInv, ReplicationAssumption
      <4>3. IsFiniteSet(Coming(f) \cup c.targets)
        BY <4>2, FS_Union
      <4>4. /\ Cardinality(Coming(g)') <= Cardinality(Coming(f) \cup c.targets)
            /\ Cardinality(Coming(g)') \in Nat /\ Cardinality(Coming(f) \cup c.targets) \in Nat
        BY <3>2, <3>4, <4>3, FS_Subset, FS_CardinalityType
      <4>5. Cardinality(Coming(g)') <= MaxReplicate
        BY <4>1, <4>2, <4>4
      <4> QED BY <3>1, <4>5 DEF Limited
    <3>5. CASE g = f /\ Uncounted(leader, f)
      BY <1>1, <3>1, <3>5 DEF Limited
    <3> QED BY <3>1, <3>3, <3>4, <3>5
  <2> QED BY <2>3, <2>6, <2>7 DEF Counted
<1> QED BY <1>5, <1>6, <1>7 DEF ReplicateStep

LEMMA CommandCounts ==
  ASSUME Whole, Counted, NEW t \in Thread, Work(t), Head(job[t]).do \in {"list", "delete"}, Command(t)
  PROVE  Counted'
<1>0. /\ UNCHANGED <<alive, members, reported, leader, held, user, service, fetches, map, job, miscounted>>
      /\ call[t] = NoCall
  BY DEF Work, Command, groupVars, nodeVars
<1> PICK k : k = Head(job[t])
  OBVIOUS
<1> PICK c : c = Call(k.do, k.node, IF k.do = "delete" THEN k.file ELSE "")
  OBVIOUS
<1>1. call' = [call EXCEPT ![t] = c]
  BY DEF Command
<1>2. c.state = "sent" /\ c.do \in {"list", "delete"}
  BY DEF Call
<1>3. call'[t] = c /\ \A r \in Thread \ {t} : call'[r] = call[r]
  BY <1>1 DEF Whole, TInv, ThreadsT
<1>4. Obeyed'
  <2> SUFFICES ASSUME NEW r \in Thread, call'[r].state = "taken"
               PROVE  LET s == service[call'[r].to] IN
                      s.state = "sending" /\ s.by = r /\ s.targets \subseteq call'[r].targets
    BY <1>0 DEF Obeyed
  <2>1. r # t
    BY <1>2, <1>3
  <2> QED BY <1>3, <2>1 DEF Counted, Obeyed
<1>5. ASSUME NEW f \in File PROVE Coming(f)' \subseteq Coming(f)
  <2>1. \A r \in Thread : Making(r, f)' => Making(r, f) /\ call'[r].targets = call[r].targets
    BY <1>2, <1>3 DEF Making
  <2>2. Has(f)' = Has(f)
    BY <1>0 DEF Has, Arriving, Copying
  <2> QED BY <1>0, <2>1, <2>2 DEF Coming
<1> QED BY <1>0, <1>4, <1>5, CountedFrame


LEMMA RepairCounts ==
  ASSUME Whole, Counted, NEW t \in Thread, Work(t), Head(job[t]).do = "repair", Repair(t),
         mishaps' = {}, Departed = {}
  PROVE  Counted'
<1>0. /\ UNCHANGED <<alive, members, reported, leader, held, user, service, fetches, call, miscounted>>
      /\ Runs(t) /\ job[t] # << >>
  BY DEF Work, Repair, Runs, groupVars, nodeVars
<1> PICK names \in SUBSET File, lost \in SUBSET Node, e \in Seq(Tasks) : RepairLeaves(t, names, lost, e)
  BY RepairFacts
<1>1. /\ Head(job[t]) = RepairTask(lost) /\ t[2] # "serve"
      /\ \A n \in Node : map'[leader][n] \subseteq map[leader][n]
      /\ t = Repairer => \A n \in lost : map'[leader][n] = {}
      /\ \A f \in names : NodeOf(t) = leader
      /\ job' = [job EXCEPT ![t] = e]
      /\ \A k : Within(e, k) => Within(job[t], k) \/ \E f \in names : k = ReplicateTask(f)
  BY DEF RepairLeaves
<1>2. job'[t] = e /\ \A r \in Thread \ {t} : job'[r] = job[r]
  BY <1>1 DEF Whole, TInv, ThreadsT
<1>3. /\ Starter \in Thread /\ Repairer \in Thread /\ Starter' = Starter /\ Repairer' = Repairer
      /\ Head(job[t]).do # "list" /\ (Led' <=> Led)
  BY <1>0, LeadersThreads DEF Whole, TInv, Starter, Repairer, Led
<1>4. \A k : k.do = "list" => ~Todo(t, k)
  BY <1>0, <1>3, NoLists
<1>5. Obeyed /\ Listed /\ Cleared /\ Excess /\ \A g \in File : Certain(g) /\ Limited(g)
  BY DEF Counted
<1>6. \A r \in Thread \ {t} : \A k : Todo(r, k)' <=> Todo(r, k)
  BY <1>2 DEF Todo
<1>7. \A k : Todo(t, k)' => Todo(t, k) \/ \E f \in names : k = ReplicateTask(f)
  <2>1. \A k : (Todo(t, k)' <=> Within(e, k)) /\ (Todo(t, k) <=> Within(job[t], k))
    BY <1>2 DEF Todo, Within
  <2> QED BY <1>1, <2>1
<1>8. ASSUME NEW n \in Node, n \in reported, job[Repairer] = <<RepairTask({n})>>, t = Repairer
      PROVE  map'[leader][n] = {}
  <2>1. RepairTask(lost) = RepairTask({n})
    BY <1>1, <1>8
  <2>2. lost = {n}
    BY <2>1 DEF RepairTask
  <2> QED BY <1>1, <1>8, <2>2
<1>9. Listed'
  <2> SUFFICES ASSUME NEW n \in Node, Todo(Starter, ListTask(n))'
               PROVE  n \in alive' /\ Todo(Starter, RepairTask({}))'
    BY DEF Listed
  <2>1. ListTask(n).do = "list" /\ \A f \in File : ListTask(n) # ReplicateTask(f)
    BY DEF ListTask, ReplicateTask
  <2>2. Starter # t
    BY <1>3, <1>4, <1>7, <2>1 DEF Todo
  <2>3. job'[Starter] = job[Starter]
    BY <1>2, <1>3, <2>2
  <2>4. \A k : Todo(Starter, k)' <=> Todo(Starter, k)
    BY <1>3, <2>3 DEF Todo
  <2> QED BY <1>0, <1>5, <2>4 DEF Listed
<1>10. ASSUME Led, NEW n \in Node \ alive, map'[leader][n] # {}
       PROVE  /\ job[Starter] = << >> /\ job'[Starter] = << >>
              /\ n \in reported => t # Repairer /\ job'[Repairer] = <<RepairTask({n})>>
  <2>1. map[leader][n] # {}
    BY <1>1, <1>10
  <2>2. job[Starter] = << >> /\ (n \in reported => job[Repairer] = <<RepairTask({n})>>)
    BY <1>5, <1>10, <2>1 DEF Cleared
  <2>3. n \in reported => t # Repairer
    BY <1>8, <1>10, <2>2
  <2> QED BY <1>0, <1>2, <1>3, <2>2, <2>3
<1>11. Cleared'
  BY <1>0, <1>3, <1>10 DEF Cleared
<1>12. Excess'
  <2> SUFFICES ASSUME NEW r \in Thread, NEW k \in Tasks, k.do = "endless", Todo(r, k)'
               PROVE  k.excess /\ k.file \in miscounted'
    BY DEF Excess
  <2>1. Todo(r, k)
    BY <1>6, <1>7, CopyTask
  <2> QED BY <1>0, <1>5, <2>1 DEF Excess
<1>13. ASSUME NEW f \in File PROVE Certain(f)'
  <2> SUFFICES ASSUME Led, NEW r \in Thread, Todo(r, ReplicateTask(f))',
                      NEW n \in Node \ alive, f \in map'[leader][n]
               PROVE  FALSE
    BY <1>0, <1>3 DEF Certain, Entries
  <2>1. f \in map[leader][n]
    BY <1>1
  <2>2. ~Todo(r, ReplicateTask(f))
    BY <1>5, <2>1 DEF Certain, Entries
  <2>3. r = t /\ NodeOf(t) = leader
    BY <1>1, <1>6, <1>7, <2>2
  <2>4. job[Starter] = << >> /\ (n \in reported => t # Repairer)
    BY <1>10
  <2>5. t = Repairer
    BY <1>0, <1>1, <2>3, <2>4, KindsOf
  <2>6. n \in Dead /\ n \notin reported
    BY <2>4, <2>5 DEF Departed, Dead
  <2>7. job[<<leader, "repair">>] = << >>
    BY <2>6 DEF Whole, Agreed, Mourned, Led
  <2> QED BY <1>0, <2>5, <2>7 DEF Repairer
<1>14. ASSUME NEW f \in File PROVE Limited(f)'
  <2>1. Coming(f)' \subseteq Coming(f)
    BY <1>0 DEF Coming, Has, Arriving, Copying, Making
  <2> QED BY <1>0, <1>5, <2>1, LimitedStays DEF Whole, TInv
<1>15. Obeyed'
  BY <1>0, <1>5, ObeyedStays
<1> QED BY <1>9, <1>11, <1>12, <1>13, <1>14, <1>15 DEF Counted

LEMMA WorkCounts ==
  ASSUME Whole, Counted, NEW t \in Thread, Work(t), mishaps' = {}, Departed = {}
  PROVE  Counted'
BY RepairCounts, ReplicateCounts, CommandCounts DEF Work

\* A reply is taken: what is to be listed is at nodes that run.
LEMMA ReturnCounts ==
  ASSUME Whole, Counted, NEW t \in Thread, Return(t)
  PROVE  Counted'
<1>1. /\ UNCHANGED <<alive, members, reported, leader, held, disk, got, user, service, fetches, mail>>
      /\ Led /\ NodeOf(t) = leader /\ call[t].state = "done" /\ call[t] \in Calls
      /\ call[t] # NoCall /\ call[t].to \in Node
      /\ job[t] # << >> /\ Fits(call[t], Head(job[t]))
      /\ call[t].do \in {"list", "delete", "replicate"}
      /\ job' = [job EXCEPT ![t] = Tail(job[t])]
      /\ \A r \in Thread \ {t} : call'[r] = call[r]
      /\ call'[t] = NoCall
      /\ \A r \in Thread : \A k : Todo(r, k)' => Todo(r, k)
      /\ \A r \in Thread : \A k : Todo(r, k) => Todo(r, k)' \/ (r = t /\ k = Head(job[t]))
  BY ReturnFacts
<1>2. UNCHANGED miscounted
  BY DEF Return, noteVars
<1>3. /\ Starter \in Thread /\ Starter' = Starter
      /\ map \in [Node -> [Node -> SUBSET File]] /\ leader \in Node
  BY <1>1, LeadersThreads DEF Whole, TInv, ThreadsT, GroupT, Starter
<1>4. Head(job[t]).do # "repair"
  BY <1>1 DEF Fits, ReplicateTask, GetTask, ListTask, DeleteTask
<1>5. /\ job[Starter] = << >> => job'[Starter] = << >>
      /\ \A n \in Node : job[Repairer] = <<RepairTask({n})>> => job'[Repairer] = job[Repairer]
  BY <1>1, <1>4, JobFrame
<1>6. Todo(Starter, RepairTask({})) => Todo(Starter, RepairTask({}))'
  <2>1. RepairTask({}).do = "repair"
    BY DEF RepairTask
  <2>2. \A r \in Thread : Todo(r, RepairTask({})) => Todo(r, RepairTask({}))'
    BY <1>1, <1>4, <2>1
  <2> QED BY <1>3, <2>2 DEF Todo
<1>7. map' = [map EXCEPT ![leader][call[t].to] =
                IF call[t].do = "list" /\ call[t].names # {} THEN call[t].names
                ELSE IF call[t].do = "delete" THEN @ \ {call[t].file} ELSE @]
  BY <1>1 DEF Return
<1>8. call[t].do = "list" => call[t].to \in alive
  <2> SUFFICES ASSUME call[t].do = "list" PROVE call[t].to \in alive
    OBVIOUS
  <2>1. t = Starter /\ Head(job[t]) = ListTask(call[t].to)
    BY ListCallFacts
  <2>2. Within(job[t], Head(job[t]))
    BY <1>1, CommandsOfLeader
  <2>3. Todo(Starter, ListTask(call[t].to))
    BY <2>1, <2>2 DEF Todo, Within
  <2> QED BY <1>1, <2>3 DEF Counted, Listed
<1>9. \A n \in Node \ alive : map'[leader][n] \subseteq map[leader][n]
  BY <1>3, <1>7, <1>8
<1>10. Obeyed'
  <2> SUFFICES ASSUME NEW r \in Thread, call'[r].state = "taken"
               PROVE  LET s == service[call'[r].to] IN
                      s.state = "sending" /\ s.by = r /\ s.targets \subseteq call'[r].targets
    BY <1>1 DEF Obeyed
  <2>1. r # t
    BY <1>1 DEF NoCall
  <2> QED BY <1>1, <2>1 DEF Counted, Obeyed
<1>11. ASSUME NEW f \in File PROVE Coming(f)' \subseteq Coming(f)
  <2>1. \A r \in Thread : Making(r, f)' => Making(r, f) /\ call'[r].targets = call[r].targets
    BY <1>1 DEF Making, NoCall
  <2>2. Has(f)' = Has(f)
    BY <1>1 DEF Has, Arriving, Copying
  <2> QED BY <1>1, <2>1, <2>2 DEF Coming
<1> QED BY <1>1, <1>2, <1>5, <1>6, <1>9, <1>10, <1>11, CountedStays


-----------------------------------------------------------------------------
(* The group: crashes at rest, reports, elections *)

\* A node only crashes at rest, and nothing is under way afterwards.
LEMMA CrashLeaves ==
  ASSUME Whole, NEW n \in Node, Crash(n), mishaps' = {}
  PROVE  /\ n \in alive /\ alive' = alive \ {n} /\ alive' # {} /\ Quiet
         /\ UNCHANGED <<members, reported, leader, held, service, map, last, miscounted>>
         /\ fetches' = {}
         /\ \A k \in alive' : user'[k] = Ready
         /\ \A t \in Thread : job'[t] = << >> /\ call'[t] = NoCall
<1>1. /\ Gone(n) /\ n \in alive /\ alive # {n} /\ UNCHANGED <<members, reported>>
  BY DEF Crash
<1>2. Quiet
  BY <1>1 DEF Gone
<1>3. /\ fetches = {} /\ \A k \in alive : user[k] = Ready
      /\ \A t \in Thread : job[t] = << >> /\ call[t] = NoCall
  BY <1>2, AtRest
<1>4. /\ alive' = alive \ {n} /\ fetches' \subseteq fetches
      /\ job' = [t \in Thread |-> IF NodeOf(t) = n THEN << >> ELSE job[t]]
      /\ \E delivered \in BOOLEAN :
           call' = [t \in Thread |-> IF NodeOf(t) = n /\ ~delivered THEN NoCall ELSE call[t]]
      /\ user' = [user EXCEPT ![n] = Ready]
      /\ UNCHANGED <<leader, held, service, map, last, miscounted>>
  BY <1>1 DEF Gone
<1>5. \A t \in Thread : job'[t] = << >> /\ call'[t] = NoCall
  BY <1>3, <1>4
<1>6. \A k \in alive' : user'[k] = Ready
  BY <1>3, <1>4 DEF Whole, TInv, UsersT, GroupT
<1>7. alive' # {}
  BY <1>1, <1>4
<1> QED BY <1>1, <1>2, <1>3, <1>4, <1>5, <1>6, <1>7

LEMMA CrashCounts ==
  ASSUME Whole, Counted, NEW n \in Node, Crash(n), mishaps' = {}
  PROVE  Counted'
<1>1. /\ n \in alive /\ alive' = alive \ {n}
      /\ UNCHANGED <<members, reported, leader, held, service, map, last, miscounted>>
      /\ fetches' = {}
      /\ \A k \in alive' : user'[k] = Ready
      /\ \A t \in Thread : job'[t] = << >> /\ call'[t] = NoCall
  BY CrashLeaves
<1>2. Led /\ \A t \in Thread : job[t] = << >>
  BY CrashLeaves, AtRest
<1>3. Starter \in Thread /\ Repairer \in Thread /\ Starter' = Starter /\ Repairer' = Repairer
  BY <1>1, LeadersThreads DEF Whole, TInv, Starter, Repairer
<1>4. \A t \in Thread : \A k : ~Todo(t, k)'
  BY <1>1 DEF Todo
<1>5. Listed' /\ Excess' /\ Obeyed' /\ \A f \in File : Certain(f)'
  <2>1. \A k : ~Todo(Starter, k)'
    BY <1>1, <1>3 DEF Todo
  <2> QED BY <1>1, <1>4, <2>1 DEF Listed, Excess, Obeyed, Certain, NoCall
<1>6. Cleared'
  <2>1. ASSUME NEW k \in Node \ alive', map[leader][k] # {} PROVE k \notin reported
    <3>1. CASE k = n
      BY <1>1, <3>1 DEF Whole, IInv, AliveListed
    <3>2. CASE k # n
      <4>1. k \in reported => job[Repairer] = <<RepairTask({k})>>
        BY <1>1, <1>2, <2>1, <3>2 DEF Counted, Cleared
      <4>2. <<RepairTask({k})>> # << >>
        OBVIOUS
      <4> QED BY <1>2, <1>3, <4>1, <4>2
    <3> QED BY <3>1, <3>2
  <2> QED BY <1>1, <1>3, <2>1 DEF Cleared
<1>7. ASSUME NEW f \in File PROVE Limited(f)'
  <2>1. \A t \in Thread : ~Making(t, f)'
    BY <1>1 DEF Making, NoCall
  <2>2. \A k \in alive' : ~Copying(k, f)' /\ ~Arriving(k, f)'
    BY <1>1 DEF Copying, Arriving, Ready
  <2>3. Coming(f)' \subseteq Coming(f)
    BY <1>1, <2>1, <2>2 DEF Coming, Has
  <2> QED BY <1>1, <2>3, LimitedStays DEF Whole, TInv, Counted
<1> QED BY <1>5, <1>6, <1>7 DEF Counted

\* Whoever leaves while nothing is amiss is not reported.
LEMMA LeaveDeparts ==
  ASSUME Whole, NEW n \in Node, Leave(n)
  PROVE  Departed' # {}
<1>1. n \in alive /\ alive' = alive \ {n} /\ members' = members \ {n} /\ reported' = reported
  BY DEF Leave, Gone
<1>2. n \notin reported
  BY <1>1 DEF Whole, IInv, AliveListed
<1>3. n \in Departed'
  BY <1>1, <1>2 DEF Departed
<1> QED BY <1>3

\* A report adds a repair to threads of live nodes that had none.
LEMMA ReportLeaves ==
  ASSUME Whole, NEW n \in Node, Report(n)
  PROVE  /\ UNCHANGED <<alive, members, leader, nodeVars, mail, map, call, last, miscounted>>
         /\ n \in Dead /\ n \notin reported /\ reported' = reported \cup {n}
         /\ \A t \in Thread : t[2] # "repair" => job'[t] = job[t]
         /\ \A t \in Thread : job'[t] = job[t] \/ (job[t] = << >> /\ job'[t] = <<RepairTask({n})>>)
         /\ Led => job[Repairer] = << >> /\ job'[Repairer] = <<RepairTask({n})>>
<1>1. /\ n \in members \ (alive \cup reported)
      /\ reported' = reported \cup {n}
      /\ UNCHANGED <<alive, members, leader, nodeVars, mail, map, call, last, miscounted>>
      /\ job' = [t \in Thread |->
                   IF t[2] = "repair" /\ NodeOf(t) \in alive \cap {leader, Lowest(alive)}
                   THEN Append(job[t], RepairTask({n})) ELSE job[t]]
  BY DEF Report, noteVars
<1>2. n \in Dead
  BY <1>1 DEF Dead
<1>3. \A m \in alive : job[<<m, "repair">>] = << >>
  BY <1>1, <1>2 DEF Whole, Agreed, Mourned
<1>4. \A t \in Thread : t[2] = "repair" /\ NodeOf(t) \in alive => job[t] = << >>
  BY <1>3 DEF Thread, NodeOf
<1>5. Append(<< >>, RepairTask({n})) = <<RepairTask({n})>>
  OBVIOUS
<1>6. \A t \in Thread : t[2] # "repair" => job'[t] = job[t]
  BY <1>1
<1>7. \A t \in Thread : job'[t] = job[t] \/ (job[t] = << >> /\ job'[t] = <<RepairTask({n})>>)
  <2> SUFFICES ASSUME NEW t \in Thread, job'[t] # job[t]
               PROVE  job[t] = << >> /\ job'[t] = <<RepairTask({n})>>
    OBVIOUS
  <2>1. t[2] = "repair" /\ NodeOf(t) \in alive /\ job'[t] = Append(job[t], RepairTask({n}))
    BY <1>1
  <2>2. job[t] = << >>
    BY <1>4, <2>1
  <2> QED BY <1>5, <2>1, <2>2
<1>8. ASSUME Led PROVE job[Repairer] = << >> /\ job'[Repairer] = <<RepairTask({n})>>
  <2>1. Repairer \in Thread /\ Repairer[2] = "repair" /\ NodeOf(Repairer) = leader
    BY LeadersThreads DEF Whole, TInv
  <2>2. leader \in alive \cap {leader, Lowest(alive)}
    BY <1>8 DEF Led
  <2>3. job'[Repairer] = Append(job[Repairer], RepairTask({n}))
    BY <1>1, <2>1, <2>2
  <2>4. job[Repairer] = << >>
    BY <1>4, <2>1, <2>2
  <2> QED BY <1>5, <2>3, <2>4
<1> QED BY <1>1, <1>2, <1>6, <1>7, <1>8

LEMMA ReportCounts ==
  ASSUME Whole, Counted, NEW n \in Node, Report(n)
  PROVE  Counted'
<1>1. /\ UNCHANGED <<alive, members, leader, nodeVars, mail, map, call, last, miscounted>>
      /\ n \in Dead /\ n \notin reported /\ reported' = reported \cup {n}
      /\ \A t \in Thread : t[2] # "repair" => job'[t] = job[t]
      /\ \A t \in Thread : job'[t] = job[t] \/ (job[t] = << >> /\ job'[t] = <<RepairTask({n})>>)
      /\ Led => job[Repairer] = << >> /\ job'[Repairer] = <<RepairTask({n})>>
  BY ReportLeaves
<1>2. /\ Starter \in Thread /\ Starter' = Starter /\ Repairer' = Repairer /\ Starter[2] # "repair"
      /\ (Led' <=> Led)
  BY <1>1, LeadersThreads DEF Whole, TInv, Starter, Repairer, Led
<1>3. \A t \in Thread : \A k : k.do # "repair" /\ Todo(t, k)' => Todo(t, k)
  <2> SUFFICES ASSUME NEW t \in Thread, NEW k, k.do # "repair", Todo(t, k)' PROVE Todo(t, k)
    OBVIOUS
  <2>1. RepairTask({n}).do = "repair"
    BY DEF RepairTask
  <2>2. job'[t] # <<RepairTask({n})>>
    BY <2>1 DEF Todo
  <2>3. job'[t] = job[t]
    BY <1>1, <2>2
  <2> QED BY <2>3 DEF Todo
<1>4. job'[Starter] = job[Starter]
  BY <1>1, <1>2
<1>5. Listed'
  <2>1. \A k : Todo(Starter, k)' <=> Todo(Starter, k)
    BY <1>2, <1>4 DEF Todo
  <2> QED BY <1>1, <2>1 DEF Counted, Listed
<1>6. Excess'
  BY <1>1, <1>3 DEF Counted, Excess
<1>7. Cleared'
  <2>1. ASSUME Led, NEW k \in Node \ alive, map[leader][k] # {}
        PROVE  job[Starter] = << >> /\ (k \in reported' => k = n)
    <3>1. job[Starter] = << >> /\ (k \in reported => job[Repairer] = <<RepairTask({k})>>)
      BY <2>1 DEF Counted, Cleared
    <3>2. k \notin reported
      BY <1>1, <2>1, <3>1
    <3> QED BY <1>1, <3>1, <3>2
  <2> QED BY <1>1, <1>2, <1>4, <2>1 DEF Cleared
<1>8. ASSUME NEW f \in File PROVE Certain(f)' /\ Limited(f)'
  <2>1. ReplicateTask(f).do # "repair"
    BY DEF ReplicateTask
  <2>2. Certain(f)'
    BY <1>1, <1>3, <2>1, CertainStays DEF Counted
  <2>3. Coming(f)' \subseteq Coming(f)
    BY <1>1 DEF Coming, Has, Arriving, Copying, Making, nodeVars
  <2> QED BY <1>1, <2>2, <2>3, LimitedStays DEF Counted, Whole, TInv
<1>9. Obeyed'
  BY <1>1, ObeyedStays DEF Counted, nodeVars
<1> QED BY <1>5, <1>6, <1>7, <1>8, <1>9 DEF Counted

\* What the election's thread is to do: lists of all that run, then a repair; the new
\* leader's map is empty, and nothing is under way.
LEMMA ElectLeaves ==
  ASSUME Whole, Elect
  PROVE  /\ UNCHANGED <<alive, members, reported, held, user, service, fetches, map, call, last, miscounted>>
         /\ ~Led /\ Led' /\ Dead = {} /\ members = alive
         /\ \A t \in Thread : call[t] = NoCall
         /\ \A n \in Node : map[leader'][n] = {}
         /\ Starter' \in Thread
         /\ \A t \in Thread : t # Starter' => job'[t] = job[t]
         /\ \A t \in Thread : \A k : k.do # "repair" => ~Todo(t, k)
         /\ \A n \in alive : Todo(Starter, ListTask(n))'
         /\ Todo(Starter, RepairTask({}))'
         /\ \A t \in Thread : \A k : t = Starter' /\ Todo(t, k)' =>
              k = RepairTask({}) \/ \E n \in alive : k = ListTask(n)
<1> PICK m \in alive : m = Lowest(alive)
  <2>1. alive \in (SUBSET Node) \ {{}}
    BY DEF Whole, TInv, GroupT
  <2> QED BY <2>1, LowestIn
<1> PICK s \in Thread : s = <<m, "start">>
  BY DEF Thread, Whole, TInv, GroupT
<1> PICK a : a = Each(members, ListTask)
  OBVIOUS
<1> PICK e : e = a \o <<RepairTask({})>>
  OBVIOUS
<1>1. /\ UNCHANGED <<alive, members, reported, held, user, service, fetches, map, call, last, miscounted>>
      /\ leader \notin members /\ leader' = m /\ job' = [job EXCEPT ![s] = e]
  BY DEF Elect, nodeVars, noteVars
<1>2. alive \subseteq members /\ members \in SUBSET Node
  BY DEF Whole, TInv, GroupT, IInv, AliveListed
<1>3. ~Led /\ Led'
  BY <1>1, <1>2 DEF Led
<1>4. /\ Dead \subseteq {leader} /\ \A t \in Thread : call[t] = NoCall
  BY <1>3, LeadersGone
<1>5. Dead = {} /\ members = alive
  <2>1. Dead = {}
    BY <1>1, <1>4 DEF Dead
  <2> QED BY <1>2, <2>1 DEF Dead
<1>6. \A n \in Node : map[leader'][n] = {}
  <2>1. map[m] = [k \in Node |-> {}]
    BY <1>3 DEF Whole, IInv, NobodyElse, Followers, Led
  <2> QED BY <1>1, <2>1
<1>7. Starter' = s /\ job'[s] = e /\ \A t \in Thread \ {s} : job'[t] = job[t]
  BY <1>1 DEF Whole, TInv, ThreadsT, Starter
<1>8. \A t \in Thread : \A k : k.do # "repair" => ~Todo(t, k)
  BY <1>3, JobsOfLeader
<1>9. /\ a \in Seq(Tasks) /\ \A k : Within(a, k) => \E n \in members : k = ListTask(n)
      /\ \A n \in members : Within(a, ListTask(n))
  <2> PICK S \in SUBSET Node : S = members
    BY <1>2
  <2>1. /\ DOMAIN a = 1 .. Cardinality(S)
        /\ \A i \in 1 .. Cardinality(S) : \E n \in S : a[i] = ListTask(n)
        /\ \A n \in S : \E i \in 1 .. Cardinality(S) : a[i] = ListTask(n)
        /\ a \in Seq(Tasks)
    BY EachList
  <2>2. ASSUME NEW k, Within(a, k) PROVE \E n \in members : k = ListTask(n)
    <3>1. PICK i \in DOMAIN a : a[i] = k
      BY <2>2 DEF Within
    <3> QED BY <2>1, <3>1
  <2>3. ASSUME NEW n \in members PROVE Within(a, ListTask(n))
    BY <2>1 DEF Within
  <2> QED BY <2>1, <2>2, <2>3
<1>10. RepairTask({}) \in Tasks
  BY DEF Tasks, Repairs
<1>11. <<RepairTask({})>> \in Seq(Tasks) /\ \A k : Within(<<RepairTask({})>>, k) <=> k = RepairTask({})
  BY <1>10 DEF Within
<1>12. \A k : Within(e, k) <=> Within(a, k) \/ k = RepairTask({})
  BY <1>9, <1>11, JoinWithin
<1>13. \A k : Todo(s, k)' <=> Within(e, k)
  BY <1>7 DEF Todo, Within
<1>14. \A k : Todo(Starter, k)' <=> Within(e, k)
  BY <1>7 DEF Todo, Within
<1>15. (\A n \in alive : Todo(Starter, ListTask(n))') /\ Todo(Starter, RepairTask({}))'
  BY <1>5, <1>9, <1>12, <1>14
<1>16. \A t \in Thread : \A k : t = Starter' /\ Todo(t, k)' =>
         k = RepairTask({}) \/ \E n \in alive : k = ListTask(n)
  BY <1>5, <1>7, <1>9, <1>12, <1>13
<1> QED BY <1>1, <1>3, <1>4, <1>5, <1>6, <1>7, <1>8, <1>15, <1>16

LEMMA ElectCounts ==
  ASSUME Whole, Counted, Elect
  PROVE  Counted'
<1>1. /\ UNCHANGED <<alive, members, reported, held, user, service, fetches, map, call, last, miscounted>>
      /\ \A t \in Thread : call[t] = NoCall
      /\ \A n \in Node : map[leader'][n] = {}
      /\ Starter' \in Thread
      /\ \A t \in Thread : t # Starter' => job'[t] = job[t]
      /\ \A t \in Thread : \A k : k.do # "repair" => ~Todo(t, k)
      /\ Todo(Starter, RepairTask({}))'
      /\ \A t \in Thread : \A k : t = Starter' /\ Todo(t, k)' =>
           k = RepairTask({}) \/ \E n \in alive : k = ListTask(n)
  BY ElectLeaves
<1>2. \A t \in Thread : t # Starter' => \A k : k.do # "repair" => ~Todo(t, k)'
  BY <1>1 DEF Todo
<1>3. \A t \in Thread : \A k : k.do \notin {"repair", "list"} => ~Todo(t, k)'
  BY <1>1, <1>2 DEF RepairTask, ListTask
<1>4. Listed'
  <2> SUFFICES ASSUME NEW n \in Node, Todo(Starter, ListTask(n))' PROVE n \in alive
    BY <1>1 DEF Listed
  <2>1. \A t \in Thread : t = Starter' => Todo(t, ListTask(n))'
    BY DEF Todo
  <2>2. PICK k \in alive : ListTask(n) = ListTask(k)
    BY <1>1, <2>1 DEF ListTask, RepairTask
  <2> QED BY <2>2 DEF ListTask
<1>5. Excess'
  BY <1>3 DEF Excess
<1>6. Cleared' /\ \A f \in File : Certain(f)'
  BY <1>1, <1>3 DEF Cleared, Certain, Entries, ReplicateTask
<1>7. ASSUME NEW f \in File PROVE Limited(f)'
  <2>1. Coming(f)' \subseteq Coming(f)
    BY <1>1 DEF Coming, Has, Arriving, Copying, Making
  <2> QED BY <1>1, <2>1, LimitedStays DEF Counted, Whole, TInv
<1>8. Obeyed'
  BY <1>1, ObeyedStays DEF Counted
<1> QED BY <1>4, <1>5, <1>6, <1>7, <1>8 DEF Counted

LEMMA CountedInit == Init => Counted
<1> SUFFICES ASSUME Init PROVE Counted
  OBVIOUS
<1>1. /\ held = [n \in Node |-> {}] /\ alive = Node /\ user = [n \in Node |-> Ready]
      /\ fetches = {} /\ map = [m \in Node |-> [n \in Node |-> {}]]
      /\ job = [t \in Thread |-> << >>] /\ call = [t \in Thread |-> NoCall]
  BY DEF Init
<1>2. GroupT
  BY GroupTypeInit
<1>3. Starter \in Thread /\ leader \in Node
  BY <1>2, LeadersThreads DEF GroupT
<1>4. \A t \in Thread : \A k : ~Todo(t, k)
  BY <1>1 DEF Todo
<1>5. Listed /\ Excess /\ Obeyed /\ Cleared /\ \A f \in File : Certain(f)
  BY <1>1, <1>3, <1>4 DEF Listed, Excess, Obeyed, Cleared, Certain, NoCall
<1>6. ASSUME NEW f \in File PROVE Limited(f)
  <2>1. \A t \in Thread : ~Making(t, f)
    BY <1>1 DEF Making, NoCall
  <2>2. \A n \in alive : f \notin held[n] /\ ~Copying(n, f) /\ ~Arriving(n, f)
    BY <1>1 DEF Copying, Arriving, Ready
  <2>3. Coming(f) = {}
    BY <2>1, <2>2 DEF Coming, Has
  <2>4. Cardinality(Coming(f)) = 0
    BY <2>3, FS_EmptySet
  <2> QED BY <2>4, ReplicationAssumption DEF Limited, ReplicationAssumption
<1> QED BY <1>5, <1>6 DEF Counted

\* Who has left without a word is not heard of again.
LEMMA DepartedStay == GroupT /\ [Next]_vars => Departed \subseteq Departed'
<1> SUFFICES ASSUME GroupT, [Next]_vars, NEW n \in Departed PROVE n \in Departed'
  OBVIOUS
<1>1. n \in Node /\ n \notin alive /\ n \notin members /\ n \notin reported
  BY DEF Departed
<1>2. \/ UNCHANGED <<alive, members, reported>>
      \/ \E k \in Node : Crash(k) \/ Leave(k) \/ Report(k) \/ Erase(k)
  <2>1. CASE UNCHANGED vars
    BY <2>1 DEF vars, groupVars
  <2>2. ASSUME NEW k \in Node,
               \/ \E op \in {"put", "get", "delete"}, f \in File : Ask(k, op, f)
               \/ GiveUp(k) \/ Copy(k) \/ Serve(k) \/ Obey(k) \/ Announce(k)
        PROVE  UNCHANGED <<alive, members, reported>>
    BY <2>2 DEF Ask, GiveUp, Copy, Serve, Obey, Announce, groupVars
  <2>3. ASSUME NEW t \in Thread, Work(t) \/ Return(t) PROVE UNCHANGED <<alive, members, reported>>
    BY <2>3 DEF Work, Return, groupVars
  <2>4. ASSUME NEW x \in fetches, Fetched(x) PROVE UNCHANGED <<alive, members, reported>>
    BY <2>4 DEF Fetched, groupVars
  <2>5. CASE Elect
    BY <2>5 DEF Elect
  <2> QED BY <2>1, <2>2, <2>3, <2>4, <2>5 DEF Next
<1>3. /\ alive' \subseteq alive /\ members' \subseteq members
      /\ reported' \subseteq reported \cup members
  BY <1>2 DEF Crash, Leave, Gone, Report, Erase
<1> QED BY <1>1, <1>3 DEF Departed

\* Nothing has gone wrong, and nobody has left.
Smooth == mishaps = {} /\ Departed = {}

LEMMA CountedStep ==
  /\ TInv /\ IInv /\ RInv /\ (mishaps = {} => Agreed) /\ (Smooth => Counted) /\ [Next]_vars
  => (Smooth => Counted)'
<1> SUFFICES ASSUME TInv, IInv, RInv, mishaps = {} => Agreed, Smooth => Counted, [Next]_vars,
                    mishaps' = {}, Departed' = {}
             PROVE  Counted'
  BY DEF Smooth
<1>1. Whole /\ Counted /\ Departed = {}
  BY MishapsStay, DepartedStay DEF Whole, TInv, Smooth
<1>2. CASE UNCHANGED vars
  <2>1. UNCHANGED <<alive, leader, reported, held, user, service, fetches, map, job, call, miscounted>>
    BY <1>2 DEF vars, groupVars, nodeVars, masterVars, noteVars
  <2>2. Obeyed'
    BY <1>1, <2>1, ObeyedStays DEF Counted
  <2>3. \A f \in File : Coming(f)' \subseteq Coming(f)
    BY <2>1 DEF Coming, Has, Arriving, Copying, Making
  <2> QED BY <1>1, <2>1, <2>2, <2>3, CountedFrame
<1>3. ASSUME NEW n \in Node,
             \/ \E op \in {"put", "get", "delete"}, g \in File : Ask(n, op, g)
             \/ GiveUp(n) \/ Copy(n) \/ Obey(n) \/ Announce(n) \/ Erase(n)
      PROVE  Counted'
  BY <1>1, <1>3, NodesCount
<1>4. ASSUME NEW n \in Node, Serve(n) PROVE Counted'
  BY <1>1, <1>4, ServeCounts
<1>5. ASSUME NEW n \in Node, Crash(n) PROVE Counted'
  BY <1>1, <1>5, CrashCounts
<1>6. ASSUME NEW n \in Node, Leave(n) PROVE Counted'
  BY <1>1, <1>6, LeaveDeparts
<1>7. ASSUME NEW n \in Node, Report(n) PROVE Counted'
  BY <1>1, <1>7, ReportCounts
<1>8. ASSUME NEW t \in Thread, Work(t) PROVE Counted'
  BY <1>1, <1>8, WorkCounts
<1>9. ASSUME NEW t \in Thread, Return(t) PROVE Counted'
  BY <1>1, <1>9, ReturnCounts
<1>10. ASSUME NEW x \in fetches, Fetched(x) PROVE Counted'
  BY <1>1, <1>10, NodesCount
<1>11. CASE Elect
  BY <1>1, <1>11, ElectCounts
<1> QED BY <1>2, <1>3, <1>4, <1>5, <1>6, <1>7, <1>8, <1>9, <1>10, <1>11 DEF Next

LEMMA CountedAlways == Spec => [](Smooth => Counted)
<1>1. Init => (Smooth => Counted)
  BY CountedInit
<1>2. /\ TInv /\ IInv /\ RInv /\ (mishaps = {} => Agreed) /\ (Smooth => Counted) /\ [Next]_vars
      => (Smooth => Counted)'
  BY CountedStep
<1> QED BY <1>1, <1>2, AgreedAlways, RInvAlways, PTL DEF Spec

\* While nothing has gone wrong replicateFile only fails to end (Ends) for a file that
\* has more replicas than are due, which two threads that replicate it at once have made:
\* never for want of targets or of a source, for any group, files, users and bounds.
THEOREM ReplicationEnds == Spec => [](Unmarred(Mishap) => Ends)
<1>1. ASSUME TInv /\ (mishaps = {} => Agreed), Smooth => Counted
      PROVE  Unmarred(Mishap) => Ends
  <2> SUFFICES ASSUME Unmarred(Mishap), Departed = {}, NEW t \in Spinning
               PROVE  Head(job[t]).excess /\ Head(job[t]).file \in miscounted
    BY DEF Ends
  <2>1. mishaps = {} /\ Excess
    BY <1>1 DEF TInv, NotesT, Unmarred, Smooth, Counted
  <2>2. t \in Thread /\ job[t] # << >> /\ Head(job[t]).do = "endless" /\ job[t] \in Seq(Tasks)
    BY <1>1 DEF Spinning, TInv, ThreadsT
  <2>3. Head(job[t]) \in Tasks /\ Within(job[t], Head(job[t]))
    BY <2>2, TailWithin
  <2>4. Todo(t, Head(job[t]))
    BY <2>3 DEF Todo, Within
  <2> QED BY <2>1, <2>2, <2>3, <2>4 DEF Excess
<1> QED BY AgreedAlways, CountedAlways, <1>1, PTL


-----------------------------------------------------------------------------
(* While nothing has gone wrong and nobody has left: that copies are kept *)

\* A file that was put is at a live node that the map names or will name.
Found(f) ==
  last[f] = "put" =>
    IF Led
    THEN \E n \in alive : f \in map[leader][n] \/ (f \in held[n] /\ Todo(Starter, ListTask(n)))
    ELSE \E n \in alive : f \in held[n]

\* A command to replicate f makes all the copies that are due, one target after the other.
Serves(f) ==
  \A t \in Thread : Making(t, f) =>
    /\ Cardinality(Has(f) \cup call[t].targets) >= Due
    /\ call[t].state = "done" => call[t].targets \subseteq Has(f)
    /\ call[t].state = "taken" => call[t].targets \ service[call[t].to].targets \subseteq Has(f)

\* The master's node has yet to see how many copies of f there are, or never will.
Pending(f) ==
  \/ \E x \in Dead : x \notin reported
  \/ \E lost \in SUBSET Node : Todo(Starter, RepairTask(lost)) \/ Todo(Repairer, RepairTask(lost))
  \/ \E t \in Thread, k \in Tasks : k.do = "endless" /\ Todo(t, k)
  \/ \E t \in Thread : Todo(t, ReplicateTask(f))

Enough(f) == last[f] = "put" /\ Led => Pending(f) \/ Cardinality(Has(f)) >= Due

\* Only what is to be deleted is.
Undone(f) == Deleting(f) => last[f] = "delete"

Supplied(f) == Found(f) /\ Serves(f) /\ Enough(f) /\ Undone(f)

LEMMA DueType == ASSUME GroupT PROVE Due \in Nat
<1>1. Cardinality(alive) \in Nat
  BY CopiesFinite
<1>2. MaxReplicate \in Nat
  BY ReplicationAssumption DEF ReplicationAssumption
<1> QED BY <1>1, <1>2 DEF Due, Smaller

LEMMA DueStays ==
  ASSUME GroupT, NEW f, NEW S \in SUBSET Node, UNCHANGED alive, Has(f) \subseteq Has(f)',
         Cardinality(Has(f) \cup S) >= Due
  PROVE  Cardinality(Has(f)' \cup S) >= Due'
<1>1. Due' = Due /\ Due \in Nat
  BY DueType DEF Due
<1>2. Has(f)' \subseteq Node
  BY DEF Has, GroupT
<1>3. IsFiniteSet(Has(f)' \cup S)
  BY <1>2, FS_Subset, ReplicationAssumption DEF ReplicationAssumption
<1>4. Has(f) \cup S \in SUBSET (Has(f)' \cup S)
  OBVIOUS
<1>5. /\ Cardinality(Has(f) \cup S) <= Cardinality(Has(f)' \cup S)
      /\ Cardinality(Has(f)' \cup S) \in Nat /\ Cardinality(Has(f) \cup S) \in Nat
  BY <1>3, <1>4, FS_Subset, FS_CardinalityType
<1> QED BY <1>1, <1>5

LEMMA ServesStays ==
  ASSUME Whole, NEW f, Serves(f), UNCHANGED <<alive, service>>, Has(f) \subseteq Has(f)',
         \A t \in Thread : Making(t, f)' => Making(t, f) /\ call'[t] = call[t]
  PROVE  Serves(f)'
<1> SUFFICES ASSUME NEW t \in Thread, Making(t, f)'
             PROVE  /\ Cardinality(Has(f)' \cup call'[t].targets) >= Due'
                    /\ call'[t].state = "done" => call'[t].targets \subseteq Has(f)'
                    /\ call'[t].state = "taken" =>
                         call'[t].targets \ service'[call'[t].to].targets \subseteq Has(f)'
  BY DEF Serves
<1>1. Making(t, f) /\ call'[t] = call[t]
  OBVIOUS
<1>2. call[t].targets \in SUBSET Node
  BY <1>1, CallFields DEF Making, Whole, TInv, ThreadsT, ReplicateCalls
<1>3. Cardinality(Has(f)' \cup call[t].targets) >= Due'
  BY <1>1, <1>2, DueStays DEF Serves, Whole, TInv
<1> QED BY <1>1, <1>3 DEF Serves

LEMMA EnoughStays ==
  ASSUME Whole, NEW f, Enough(f), UNCHANGED <<alive, leader>>,
         last'[f] = "put" =>
           /\ last[f] = "put" /\ Has(f) \subseteq Has(f)'
           /\ Led /\ Pending(f) => Pending(f)' \/ Cardinality(Has(f)) >= Due
  PROVE  Enough(f)'
<1> SUFFICES ASSUME last'[f] = "put", Led', ~Pending(f)' PROVE Cardinality(Has(f)') >= Due'
  BY DEF Enough
<1>1. Led
  BY DEF Led
<1>2. Cardinality(Has(f)) >= Due
  BY <1>1 DEF Enough
<1>3. Has(f) \cup {} = Has(f) /\ Has(f)' \cup {} = Has(f)'
  OBVIOUS
<1>4. Cardinality(Has(f) \cup {}) >= Due
  BY <1>2, <1>3
<1>5. Cardinality(Has(f)' \cup {}) >= Due'
  BY <1>4, DueStays DEF Whole, TInv
<1> QED BY <1>3, <1>5

LEMMA PendingStays ==
  ASSUME Whole, NEW f, UNCHANGED leader, \A x \in Dead : x \notin reported => x \in Dead' /\ x \notin reported',
         \A t \in Thread : \A k :
           (k.do \in {"repair", "endless"} \/ k = ReplicateTask(f)) /\ Todo(t, k) => Todo(t, k)',
         Pending(f)
  PROVE  Pending(f)'
<1>1. /\ Starter \in Thread /\ Repairer \in Thread /\ Starter' = Starter /\ Repairer' = Repairer
      /\ \A lost : RepairTask(lost).do = "repair"
  BY LeadersThreads DEF Whole, TInv, Starter, Repairer, RepairTask
<1>2. ASSUME NEW x \in Dead, x \notin reported PROVE Pending(f)'
  BY <1>2 DEF Pending
<1>3. ASSUME NEW lost \in SUBSET Node, Todo(Starter, RepairTask(lost)) PROVE Pending(f)'
  <2>1. \A t \in Thread : t = Starter => Todo(t, RepairTask(lost))'
    BY <1>1, <1>3
  <2>2. Todo(Starter, RepairTask(lost))'
    BY <1>1, <2>1 DEF Todo
  <2> QED BY <2>2 DEF Pending
<1>4. ASSUME NEW lost \in SUBSET Node, Todo(Repairer, RepairTask(lost)) PROVE Pending(f)'
  <2>1. \A t \in Thread : t = Repairer => Todo(t, RepairTask(lost))'
    BY <1>1, <1>4
  <2>2. Todo(Repairer, RepairTask(lost))'
    BY <1>1, <2>1 DEF Todo
  <2> QED BY <2>2 DEF Pending
<1>5. ASSUME NEW t \in Thread, NEW k \in Tasks, k.do = "endless", Todo(t, k) PROVE Pending(f)'
  <2>1. Todo(t, k)'
    BY <1>5
  <2> QED BY <1>5, <2>1 DEF Pending
<1>6. ASSUME NEW t \in Thread, Todo(t, ReplicateTask(f)) PROVE Pending(f)'
  <2>1. Todo(t, ReplicateTask(f))'
    BY <1>6
  <2> QED BY <2>1 DEF Pending
<1> QED BY <1>2, <1>3, <1>4, <1>5, <1>6 DEF Pending

LEMMA FoundStays ==
  ASSUME Whole, NEW f, Found(f), UNCHANGED <<alive, leader>>,
         last'[f] = "put" =>
           /\ last[f] = "put"
           /\ \A n \in alive :
                /\ f \in held[n] => f \in held'[n]
                /\ Led /\ f \in map[leader][n] => f \in map'[leader][n]
                /\ Led /\ f \in held[n] /\ Todo(Starter, ListTask(n)) =>
                     \/ \E k \in alive : f \in map'[leader][k]
                     \/ Todo(Starter, ListTask(n))'
  PROVE  Found(f)'
<1> SUFFICES ASSUME last'[f] = "put"
             PROVE  IF Led
                    THEN \E n \in alive : \/ f \in map'[leader][n]
                                          \/ f \in held'[n] /\ Todo(Starter, ListTask(n))'
                    ELSE \E n \in alive : f \in held'[n]
  <2>1. Led' <=> Led
    BY DEF Led
  <2> QED BY <2>1 DEF Found
<1>1. CASE Led
  <2>1. PICK n \in alive : f \in map[leader][n] \/ (f \in held[n] /\ Todo(Starter, ListTask(n)))
    BY <1>1 DEF Found
  <2>2. CASE f \in map[leader][n]
    BY <1>1, <2>2
  <2>3. CASE f \in held[n] /\ Todo(Starter, ListTask(n))
    BY <1>1, <2>3
  <2> QED BY <1>1, <2>1, <2>2, <2>3
<1>2. CASE ~Led
  BY <1>2 DEF Found
<1> QED BY <1>1, <1>2

\* What changes neither the map, the jobs nor the commands, and takes no copies away.
LEMMA SuppliedFrame ==
  ASSUME Whole, NEW f, Supplied(f), UNCHANGED <<alive, leader, reported, service, map, job, call, last>>,
         \A x \in Dead : x \notin reported => x \in Dead',
         Has(f) \subseteq Has(f)', \A n \in alive : f \in held[n] => f \in held'[n]
  PROVE  Supplied(f)'
<1>1. \A t \in Thread : \A k : Todo(t, k)' <=> Todo(t, k)
  BY DEF Todo
<1>2. \A k : Todo(Starter, k) => Todo(Starter, k)'
  BY DEF Todo, Starter
<1>3. Found(f)'
  BY <1>2, FoundStays DEF Supplied
<1>4. Serves(f)'
  BY ServesStays DEF Supplied, Making
<1>5. Pending(f) => Pending(f)'
  BY <1>1, PendingStays
<1>6. Enough(f)'
  BY <1>5, EnoughStays DEF Supplied
<1>7. Undone(f)'
  BY <1>1 DEF Supplied, Undone, Deleting
<1> QED BY <1>3, <1>4, <1>6, <1>7 DEF Supplied


LEMMA UsersSupply ==
  ASSUME Whole, NEW f \in File, Supplied(f), NEW n \in Node,
         \/ \E op \in {"put", "get", "delete"}, g \in File : Ask(n, op, g)
         \/ GiveUp(n)
         \/ Copy(n)
  PROVE  Supplied(f)'
<1>1. /\ UNCHANGED <<groupVars, service, fetches, masterVars, last, miscounted>>
      /\ Has(f)' = Has(f) /\ \A k \in alive : held[k] \subseteq held'[k]
  BY UsersKeep
<1>2. UNCHANGED <<alive, members, leader, reported, service, map, job, call, last>>
  BY <1>1 DEF groupVars, masterVars
<1>3. Dead' = Dead
  BY <1>2 DEF Dead
<1> QED BY <1>1, <1>2, <1>3, SuppliedFrame

LEMMA FetchesSupply ==
  ASSUME Whole, NEW f \in File, Supplied(f), NEW x \in fetches, Fetched(x)
  PROVE  Supplied(f)'
<1>1. /\ UNCHANGED <<groupVars, service, masterVars, last, miscounted>>
      /\ Has(f)' = Has(f) /\ \A k \in alive : held[k] \subseteq held'[k]
  BY FetchesKeep
<1>2. UNCHANGED <<alive, members, leader, reported, service, map, job, call, last>>
  BY <1>1 DEF groupVars, masterVars
<1>3. Dead' = Dead
  BY <1>2 DEF Dead
<1> QED BY <1>1, <1>2, <1>3, SuppliedFrame

LEMMA EraseSupplies ==
  ASSUME Whole, NEW f \in File, Supplied(f), NEW n \in Node, Erase(n)
  PROVE  Supplied(f)'
<1>1. /\ UNCHANGED <<alive, leader, reported, service, map, job, call, last, held, user, fetches>>
      /\ n \in reported /\ members' = members \ {n}
  BY DEF Erase, nodeVars, masterVars, noteVars
<1>2. \A x \in Dead : x \notin reported => x \in Dead'
  BY <1>1 DEF Dead
<1>3. Has(f)' = Has(f)
  BY <1>1 DEF Has, Copying, Arriving
<1> QED BY <1>1, <1>2, <1>3, SuppliedFrame

\* Each target that is asked has the file or fetches it.
LEMMA AnnounceSupplies ==
  ASSUME Whole, Obeyed, NEW f \in File, Supplied(f), NEW n \in Node, Announce(n), mishaps' = {}
  PROVE  Supplied(f)'
<1> PICK t, k : t = service[n].by /\ k = Lowest(service[n].targets)
  OBVIOUS
<1>1. /\ UNCHANGED <<groupVars, held, user, map, job, last, miscounted>>
      /\ Has(f) \subseteq Has(f)'
      /\ \A r \in Thread : /\ Making(r, f)' <=> Making(r, f)
                           /\ Making(r, f) => UNCHANGED <<call[r].targets, call[r].to>>
  BY AnnounceKeeps
<1>2. UNCHANGED <<alive, members, leader, reported, held, map, job, last>> /\ Dead' = Dead
  BY <1>1 DEF groupVars, Dead
<1>3. \A r \in Thread : \A j : Todo(r, j)' <=> Todo(r, j)
  BY <1>2 DEF Todo
<1>4. Found(f)'
  <2>1. \A j : Todo(Starter, j) => Todo(Starter, j)'
    BY <1>2 DEF Todo, Starter
  <2> QED BY <1>2, <2>1, FoundStays DEF Supplied
<1>5. Enough(f)'
  <2>1. Pending(f) => Pending(f)'
    BY <1>2, <1>3, PendingStays
  <2> QED BY <1>1, <1>2, <2>1, EnoughStays DEF Supplied
<1>6. Undone(f)'
  BY <1>2, <1>3 DEF Supplied, Undone, Deleting
<1>7. /\ n \in alive /\ t \in Thread /\ k \in alive /\ call[t] \in ReplicateCalls
      /\ call[t].state = "taken" /\ call[t].to = n
      /\ call[t].file = service[n].file /\ call[t].keep = service[n].keep
  <2>1. t = service[n].by /\ k = Lowest(service[n].targets)
    OBVIOUS
  <2> QED BY <2>1, AnnounceAsks
<1>8. /\ k \in service[n].targets /\ service[n].targets \subseteq call[t].targets
      /\ service[n].file \in held[k]
         \/ \E x \in fetches' : x.file = service[n].file /\ x.to = k /\ x.keep = service[n].keep
  <2>1. t = service[n].by /\ k = Lowest(service[n].targets)
    OBVIOUS
  <2> QED BY <2>1, AnnounceAsks
<1>9. \/ /\ service[n].targets = {k} /\ service' = [service EXCEPT ![n] = Idle]
         /\ call' = [call EXCEPT ![t] = [call[t] EXCEPT !.state = "done"]]
      \/ /\ service' = [service EXCEPT ![n] = [service[n] EXCEPT !.targets = service[n].targets \ {k}]]
         /\ UNCHANGED call
  BY <1>7 DEF Announce, Done
<1>10. /\ call \in [Thread -> Calls] /\ service = [j \in Node |-> service[j]] /\ n \in Node
       /\ service[n] \in Sends
  <2>1. service[n].state = "sending"
    BY DEF Announce
  <2> QED BY <2>1, ServiceFields DEF Whole, TInv, ThreadsT, IInv, Shape
<1>11. Making(t, f) => k \in Has(f)'
  <2> SUFFICES ASSUME Making(t, f) PROVE k \in Has(f)'
    OBVIOUS
  <2>1. service[n].file = f /\ service[n].keep
    BY <1>7 DEF Making
  <2>2. f \in held'[k] \/ Arriving(k, f)'
    BY <1>2, <1>8, <2>1 DEF Arriving
  <2> QED BY <1>2, <1>7, <2>2 DEF Has
<1>12. \A j \in Node \ {n} : service'[j] = service[j]
  BY <1>9, <1>10
<1>13. \A r \in Thread \ {t} : call'[r] = call[r]
  BY <1>9, <1>10
<1>14. \/ call'[t].state = "done" /\ service[n].targets = {k}
       \/ call'[t].state = "taken" /\ service'[n].targets = service[n].targets \ {k}
  <2>1. CASE /\ service[n].targets = {k}
             /\ call' = [call EXCEPT ![t] = [call[t] EXCEPT !.state = "done"]]
    <3>1. call'[t] = [call[t] EXCEPT !.state = "done"]
      BY <1>7, <1>10, <2>1
    <3>2. call'[t].state = "done"
      BY <1>7, <3>1 DEF ReplicateCalls
    <3> QED BY <2>1, <3>2
  <2>2. CASE /\ service' = [service EXCEPT ![n] = [service[n] EXCEPT !.targets = service[n].targets \ {k}]]
             /\ UNCHANGED call
    <3>1. service'[n] = [service[n] EXCEPT !.targets = service[n].targets \ {k}]
      BY <1>10, <2>2
    <3>2. service'[n].targets = service[n].targets \ {k}
      BY <1>10, <3>1 DEF Sends
    <3> QED BY <1>7, <2>2, <3>2
  <2> QED BY <1>9, <2>1, <2>2
<1>15. ASSUME NEW r \in Thread, Making(r, f)'
       PROVE  /\ Cardinality(Has(f)' \cup call'[r].targets) >= Due'
              /\ call'[r].state = "done" => call'[r].targets \subseteq Has(f)'
              /\ call'[r].state = "taken" =>
                   call'[r].targets \ service'[call'[r].to].targets \subseteq Has(f)'
  <2>1. Making(r, f) /\ call'[r].targets = call[r].targets /\ call'[r].to = call[r].to
    BY <1>1, <1>15
  <2>2. /\ Cardinality(Has(f) \cup call[r].targets) >= Due
        /\ call[r].state = "done" => call[r].targets \subseteq Has(f)
        /\ call[r].state = "taken" => call[r].targets \ service[call[r].to].targets \subseteq Has(f)
    BY <2>1 DEF Supplied, Serves
  <2>3. call[r].targets \in SUBSET Node /\ call[r].to \in Node
    BY <1>10, <2>1, CallFields DEF Making, ReplicateCalls
  <2>4. Cardinality(Has(f)' \cup call[r].targets) >= Due'
    BY <1>1, <1>2, <2>2, <2>3, DueStays DEF Whole, TInv
  <2>5. CASE r # t
    <3>1. call[r].state = "taken" => call[r].to # n
      BY <2>5 DEF Obeyed
    <3> QED BY <1>1, <1>12, <1>13, <2>1, <2>2, <2>3, <2>4, <2>5, <3>1
  <2>6. CASE r = t
    <3>1. k \in Has(f)' /\ call[t].targets \ service[n].targets \subseteq Has(f)
      BY <1>7, <1>11, <2>1, <2>2, <2>6
    <3> QED BY <1>1, <1>7, <1>14, <2>1, <2>4, <2>6, <3>1
  <2> QED BY <2>5, <2>6
<1>16. Serves(f)'
  BY <1>15 DEF Serves
<1> QED BY <1>4, <1>5, <1>6, <1>16 DEF Supplied

\* Only a deletion takes copies away, and a command that is taken has all its targets left.
LEMMA ObeySupplies ==
  ASSUME Whole, Obeyed, NEW f \in File, Supplied(f), NEW n \in Node, Obey(n), mishaps' = {}
  PROVE  Supplied(f)'
<1>1. /\ UNCHANGED <<groupVars, user, fetches, map, job, last, miscounted>>
      /\ \/ Has(f) \subseteq Has(f)' /\ \A k \in alive : f \in held[k] => f \in held'[k]
         \/ Deleting(f) /\ \A t \in Thread : ~Making(t, f)
      /\ \A t \in Thread :
           /\ Making(t, f)' <=> Making(t, f)
           /\ Making(t, f) => UNCHANGED <<call[t].targets, call[t].to>>
           /\ call'[t].state = "taken" =>
                \/ call[t].state = "taken" /\ service'[call[t].to] = service[call[t].to]
                \/ /\ service'[call'[t].to].state = "sending" /\ service'[call'[t].to].by = t
                   /\ service'[call'[t].to].targets = call'[t].targets
           /\ Making(t, f) /\ call'[t].state = "done" => call[t].state = "done"
  BY ObeyKeeps
<1>2. UNCHANGED <<alive, members, leader, reported, map, job, last>> /\ Dead' = Dead
  BY <1>1 DEF groupVars, Dead
<1>3. \A r \in Thread : \A j : Todo(r, j)' <=> Todo(r, j)
  BY <1>2 DEF Todo
<1>4. last[f] = "put" =>
        Has(f) \subseteq Has(f)' /\ \A k \in alive : f \in held[k] => f \in held'[k]
  BY <1>1 DEF Supplied, Undone
<1>5. Found(f)'
  <2>1. \A j : Todo(Starter, j) => Todo(Starter, j)'
    BY <1>2 DEF Todo, Starter
  <2> QED BY <1>2, <1>4, <2>1, FoundStays DEF Supplied
<1>6. Enough(f)'
  <2>1. Pending(f) => Pending(f)'
    BY <1>2, <1>3, PendingStays
  <2> QED BY <1>2, <1>4, <2>1, EnoughStays DEF Supplied
<1>7. Undone(f)'
  BY <1>2, <1>3 DEF Supplied, Undone, Deleting
<1>8. ASSUME NEW r \in Thread, Making(r, f)'
      PROVE  /\ Cardinality(Has(f)' \cup call'[r].targets) >= Due'
             /\ call'[r].state = "done" => call'[r].targets \subseteq Has(f)'
             /\ call'[r].state = "taken" =>
                  call'[r].targets \ service'[call'[r].to].targets \subseteq Has(f)'
  <2>1. Making(r, f) /\ call'[r].targets = call[r].targets /\ call'[r].to = call[r].to
    BY <1>1, <1>8
  <2>2. /\ Cardinality(Has(f) \cup call[r].targets) >= Due
        /\ call[r].state = "done" => call[r].targets \subseteq Has(f)
        /\ call[r].state = "taken" => call[r].targets \ service[call[r].to].targets \subseteq Has(f)
    BY <2>1 DEF Supplied, Serves
  <2>3. call[r].targets \in SUBSET Node
    BY <2>1, CallFields DEF Making, ReplicateCalls, Whole, TInv, ThreadsT
  <2>4. Has(f) \subseteq Has(f)'
    BY <1>1, <2>1
  <2>5. Cardinality(Has(f)' \cup call[r].targets) >= Due'
    BY <1>2, <2>2, <2>3, <2>4, DueStays DEF Whole, TInv
  <2>6. call'[r].state = "done" => call[r].targets \subseteq Has(f)'
    BY <1>1, <2>1, <2>2, <2>4
  <2>7. call'[r].state = "taken" =>
          call[r].targets \ service'[call[r].to].targets \subseteq Has(f)'
    <3>1. CASE call[r].state = "taken" /\ service'[call[r].to] = service[call[r].to]
      BY <2>2, <2>4, <3>1
    <3>2. CASE service'[call'[r].to].targets = call'[r].targets
      BY <2>1, <3>2
    <3> QED BY <1>1, <3>1, <3>2
  <2> QED BY <2>1, <2>5, <2>6, <2>7
<1>9. Serves(f)'
  BY <1>8 DEF Serves
<1> QED BY <1>5, <1>6, <1>7, <1>9 DEF Supplied

\* What the master takes on of f is settled: it is entered and to be replicated, or to be
\* deleted; no command for it is under way.
LEMMA ServeSupplies ==
  ASSUME Whole, Counted, NEW f \in File, Supplied(f), NEW m \in Node, Serve(m), mishaps' = {}
  PROVE  Supplied(f)'
<1> PICK e : /\ Taken(e)
             /\ \/ TakenOther(e)
                \/ \E g \in File : TakenDelete(e, g)
                \/ \E n \in alive, g \in File : TakenPut(e, n, g)
  BY ServeForms
<1>1. /\ UNCHANGED <<alive, members, reported, leader, held, service, fetches, miscounted>>
      /\ Led /\ job[Server] = << >>
      /\ \A n \in Node : map[leader][n] \subseteq map'[leader][n]
      /\ Dead' = Dead
  BY DEF Taken, Dead
<1>2. \A k \in Tasks : Within(e, k) => k.do \in {"get", "delete", "replicate"}
  BY DEF TakenOther, TakenDelete, TakenPut, ReplicateTask
<1>3. /\ \A t \in Thread : \A k : Todo(t, k)' <=> IF t = Server THEN Within(e, k) ELSE Todo(t, k)
      /\ \A t \in Thread : \A g : Making(t, g)' => Making(t, g) /\ call'[t] = call[t]
  BY <1>2, TakenFrame
<1>4. /\ {Server, Starter} \subseteq Thread /\ Server # Starter /\ Starter' = Starter
      /\ alive \subseteq Node /\ last \in [File -> {"none", "put", "delete"}]
  BY <1>1, LeadersThreads DEF Whole, TInv, Starter, GroupT, NotesT
<1>5. \A t \in Thread : \A k : Todo(t, k) => Todo(t, k)'
  <2>1. \A k : ~Todo(Server, k)
    BY <1>1 DEF Todo
  <2>2. \A t \in Thread : t = Server => \A k : ~Todo(t, k)
    BY <2>1
  <2> QED BY <1>3, <2>2
<1>6. \A k : Todo(Starter, k) => Todo(Starter, k)'
  <2>1. \A t \in Thread : t = Starter => \A k : Todo(Starter, k) => Todo(t, k)'
    BY <1>5
  <2> QED BY <1>4, <2>1 DEF Todo
<1>7. (\A n \in alive : Copying(n, f) => Copying(n, f)') /\ Has(f) \subseteq Has(f)'
  <2>1. \A n \in alive : Copying(n, f) => Copying(n, f)'
    BY DEF TakenOther, TakenDelete, TakenPut
  <2> QED BY <1>1, <2>1 DEF Has, Arriving
<1>8. Serves(f)'
  BY <1>1, <1>3, <1>7, ServesStays DEF Supplied
<1>9. ASSUME last'[f] = "put" => last[f] = "put" PROVE Found(f)' /\ Enough(f)'
  <2>1. Found(f)'
    BY <1>1, <1>4, <1>6, <1>9, FoundStays DEF Supplied
  <2>2. Pending(f) => Pending(f)'
    BY <1>1, <1>5, PendingStays
  <2>3. Enough(f)'
    BY <1>1, <1>7, <1>9, <2>2, EnoughStays DEF Supplied
  <2> QED BY <2>1, <2>3
<1>10. ASSUME NEW n \in alive, TakenPut(e, n, f) PROVE Found(f)' /\ Enough(f)'
  <2>1. f \in map'[leader][n] /\ Within(e, ReplicateTask(f))
    BY <1>10 DEF TakenPut
  <2>2. Found(f)'
    BY <1>1, <2>1 DEF Found, Led
  <2>3. \E t \in Thread : Todo(t, ReplicateTask(f))'
    BY <1>3, <1>4, <2>1
  <2> QED BY <2>2, <2>3 DEF Enough, Pending
<1>11. Found(f)' /\ Enough(f)'
  <2>1. CASE last'[f] = "put" => last[f] = "put"
    BY <1>9, <2>1
  <2>2. CASE last'[f] = "put" /\ last[f] # "put"
    <3>1. \A g \in File : TakenDelete(e, g) => last'[f] # "put"
      BY <1>4, <2>2 DEF TakenDelete
    <3>2. ~TakenOther(e)
      BY <2>2 DEF TakenOther
    <3>3. PICK n \in alive, g \in File : TakenPut(e, n, g)
      BY <2>2, <3>1, <3>2
    <3>4. g = f
      BY <1>4, <2>2, <3>3 DEF TakenPut
    <3> QED BY <1>10, <3>3, <3>4
  <2> QED BY <2>1, <2>2
<1>12. Undone(f)'
  <2> SUFFICES ASSUME NEW t \in Thread, NEW n \in Node, Todo(t, DeleteTask(n, f))'
               PROVE  last'[f] = "delete"
    BY DEF Undone, Deleting
  <2>1. /\ DeleteTask(n, f) \in Tasks /\ DeleteTask(n, f).do = "delete" /\ DeleteTask(n, f).file = f
    BY DEF Tasks, DeleteTask
  <2>2. ~Todo(t, DeleteTask(n, f))
    <3>1. ~Deleting(f)
      BY <1>1, DeletionsOfServer
    <3> QED BY <3>1 DEF Deleting
  <2>3. Within(e, DeleteTask(n, f))
    BY <1>3, <2>2
  <2>4. ~TakenOther(e)
    BY <2>1, <2>3 DEF TakenOther
  <2>5. \A j \in alive, g \in File : ~TakenPut(e, j, g)
    BY <2>1, <2>3 DEF TakenPut, ReplicateTask
  <2>6. PICK g \in File : TakenDelete(e, g)
    BY <2>4, <2>5
  <2>7. g = f
    BY <2>1, <2>3, <2>6 DEF TakenDelete
  <2> QED BY <1>4, <2>6, <2>7 DEF TakenDelete
<1> QED BY <1>8, <1>11, <1>12 DEF Supplied


\* A repair is followed by the replication of all that the map knows at nodes that run.
LEMMA RepairReplicates ==
  ASSUME Whole, NEW t \in Thread, Work(t), Head(job[t]).do = "repair", Repair(t)
  PROVE  /\ \A k : Todo(t, k) => k = Head(job[t]) \/ Todo(t, k)'
         /\ NodeOf(t) = leader => \A n \in alive : \A f \in map[leader][n] : Todo(t, ReplicateTask(f))'
<1> PICK m \in Node : m = NodeOf(t)
  BY KindsOf
<1>0. job[t] # << >>
  BY DEF Work
<1>1. /\ job[t] \in Seq(Tasks) /\ Proper(job[t], t[2]) /\ map \in [Node -> [Node -> SUBSET File]]
      /\ alive \subseteq members /\ members \subseteq Node
  BY DEF Whole, TInv, ThreadsT, GroupT, Agreed, Orders, IInv, AliveListed
<1>2. PICK lost \in SUBSET Node : Head(job[t]) = RepairTask(lost)
  BY <1>0, <1>1, TailWithin, TaskFields
<1>3. lost \cap alive = {}
  <2>1. Head(job[t]) = job[t][1] /\ 1 \in DOMAIN job[t]
    BY <1>0, <1>1, FirstOf
  <2>2. Head(job[t]).lost = lost
    BY <1>2 DEF RepairTask
  <2> QED BY <1>1, <2>1, <2>2 DEF Proper
<1> PICK known : known = [n \in Node |-> IF n \in lost THEN {} ELSE map[m][n]]
  OBVIOUS
<1> PICK names : names = UNION {known[n] : n \in members}
  OBVIOUS
<1>4. job' = [job EXCEPT ![t] = Each(names, ReplicateTask) \o Tail(job[t])]
  <2>1. Head(job[t]).lost = lost
    BY <1>2 DEF RepairTask
  <2> QED BY <2>1 DEF Repair
<1> PICK a : a = Each(names, ReplicateTask)
  OBVIOUS
<1> PICK e : e = a \o Tail(job[t])
  OBVIOUS
<1>5. names \in SUBSET File
  <2>1. \A n \in members : known[n] \subseteq File
    BY <1>1
  <2> QED BY <2>1
<1>6. /\ DOMAIN a = 1 .. Cardinality(names) /\ a \in Seq(Tasks)
      /\ \A i \in 1 .. Cardinality(names) : a[i] = ReplicateTask(Nth(names, i))
  <2>1. DOMAIN a = 1 .. Cardinality(names) /\ a \in Seq(Tasks)
    BY <1>5, EachReplicate
  <2> QED BY <2>1 DEF Each
<1>7. \A k : Todo(t, k)' <=> Within(a, k) \/ Within(Tail(job[t]), k)
  <2>1. Tail(job[t]) \in Seq(Tasks)
    BY <1>0, <1>1, TailWithin
  <2>2. \A k : Within(e, k) <=> Within(a, k) \/ Within(Tail(job[t]), k)
    BY <1>6, <2>1, JoinWithin
  <2>3. job' = [job EXCEPT ![t] = e]
    BY <1>4
  <2>4. job'[t] = e
    BY <2>3 DEF Whole, TInv, ThreadsT
  <2>5. \A k : Todo(t, k)' <=> Within(e, k)
    BY <2>4 DEF Todo, Within
  <2> QED BY <2>2, <2>5
<1>8. ASSUME NEW k, Todo(t, k) PROVE k = Head(job[t]) \/ Todo(t, k)'
  <2>1. Within(job[t], k)
    BY <1>8 DEF Todo, Within
  <2>2. k = Head(job[t]) \/ Within(Tail(job[t]), k)
    BY <1>0, <1>1, <2>1, TailWithin
  <2> QED BY <1>7, <2>2
<1>9. ASSUME m = leader, NEW n \in alive, NEW f \in map[leader][n] PROVE Todo(t, ReplicateTask(f))'
  <2>1. f \in names
    <3>1. n \in members /\ n \in Node /\ n \notin lost
      BY <1>1, <1>3
    <3>2. f \in known[n]
      BY <1>9, <3>1
    <3> QED BY <3>1, <3>2
  <2>2. names \in SUBSET Nat /\ IsFiniteSet(names)
    BY <1>5, FS_Subset, ReplicationAssumption DEF ReplicationAssumption
  <2>3. PICK i \in 1 .. Cardinality(names) : Nth(names, i) = f
    BY <2>1, <2>2, PlaceOf
  <2>4. a[i] = ReplicateTask(f) /\ i \in DOMAIN a
    BY <1>6, <2>3
  <2> QED BY <1>7, <2>4 DEF Within
<1> QED BY <1>8, <1>9

LEMMA RepairSupplies ==
  ASSUME Whole, Counted, NEW f \in File, Supplied(f),
         NEW t \in Thread, Work(t), Head(job[t]).do = "repair", Repair(t), mishaps' = {}
  PROVE  Supplied(f)'
<1>0. /\ UNCHANGED <<alive, members, reported, leader, held, user, service, fetches, call, last>>
      /\ job[t] # << >>
  BY DEF Work, Repair, groupVars, nodeVars
<1> PICK names \in SUBSET File, lost \in SUBSET Node, e \in Seq(Tasks) : RepairLeaves(t, names, lost, e)
  BY RepairFacts
<1>1. /\ \A n \in alive : map'[leader][n] = map[leader][n]
      /\ job' = [job EXCEPT ![t] = e]
      /\ \A k : Within(e, k) => Within(job[t], k) \/ \E g \in names : k = ReplicateTask(g)
  BY DEF RepairLeaves
<1>2. job'[t] = e /\ \A r \in Thread \ {t} : job'[r] = job[r]
  BY <1>1 DEF Whole, TInv, ThreadsT
<1>3. /\ Starter \in Thread /\ Repairer \in Thread /\ Starter' = Starter /\ Repairer' = Repairer
      /\ Dead' = Dead
  BY <1>0, LeadersThreads DEF Whole, TInv, Starter, Repairer, Dead
<1>4. \A r \in Thread \ {t} : \A k : Todo(r, k)' <=> Todo(r, k)
  BY <1>2 DEF Todo
<1>5. \A k : Todo(t, k)' => Todo(t, k) \/ \E g \in names : k = ReplicateTask(g)
  <2>1. \A k : (Todo(t, k)' <=> Within(e, k)) /\ (Todo(t, k) <=> Within(job[t], k))
    BY <1>2 DEF Todo, Within
  <2> QED BY <1>1, <2>1
<1>6. \A r \in Thread : \A k : k.do # "repair" /\ Todo(r, k) => Todo(r, k)'
  BY <1>4, RepairReplicates
<1>7. Has(f)' = Has(f)
  BY <1>0 DEF Has, Arriving, Copying
<1>8. Serves(f)'
  BY <1>0, <1>7, ServesStays DEF Supplied, Making
<1>9. Undone(f)'
  <2>1. \A n, g : DeleteTask(n, f) # ReplicateTask(g)
    BY DEF DeleteTask, ReplicateTask
  <2>2. \A r \in Thread, n \in Node : Todo(r, DeleteTask(n, f))' => Todo(r, DeleteTask(n, f))
    BY <1>4, <1>5, <2>1
  <2> QED BY <1>0, <2>2 DEF Supplied, Undone, Deleting
<1>10. \A n : Todo(Starter, ListTask(n)) => Todo(Starter, ListTask(n))'
  <2>1. \A n : ListTask(n).do # "repair"
    BY DEF ListTask
  <2>2. \A r \in Thread : r = Starter => \A n : Todo(r, ListTask(n)) => Todo(r, ListTask(n))'
    BY <1>6, <2>1
  <2> QED BY <1>3, <2>2 DEF Todo
<1>11. Found(f)'
  BY <1>0, <1>1, <1>10, FoundStays DEF Supplied
<1>12. ASSUME Led, NodeOf(t) = leader, last[f] = "put" PROVE Pending(f)'
  <2>1. PICK n \in alive : f \in map[leader][n] \/ (f \in held[n] /\ Todo(Starter, ListTask(n)))
    BY <1>12 DEF Supplied, Found
  <2>2. CASE f \in map[leader][n]
    <3>1. Todo(t, ReplicateTask(f))'
      BY <1>12, <2>2, RepairReplicates
    <3> QED BY <3>1 DEF Pending
  <2>3. CASE Todo(Starter, ListTask(n))
    <3>1. t # Starter
      <4>1. ListTask(n).do = "list"
        BY DEF ListTask
      <4> QED BY <1>0, <2>3, <4>1, NoLists
    <3>2. Todo(Starter, RepairTask({})) /\ n \in Node
      BY <2>3 DEF Counted, Listed, Whole, TInv, GroupT
    <3>3. job'[Starter] = job[Starter]
      BY <1>2, <1>3, <3>1
    <3>4. Todo(Starter, RepairTask({}))'
      BY <1>3, <3>2, <3>3 DEF Todo
    <3> QED BY <3>4 DEF Pending
  <2> QED BY <2>1, <2>2, <2>3
<1>13. ASSUME NodeOf(t) # leader, Pending(f) PROVE Pending(f)'
  <2>1. t # Starter /\ t # Repairer
    BY <1>13 DEF Starter, Repairer, NodeOf
  <2>2. job'[Starter] = job[Starter] /\ job'[Repairer] = job[Repairer]
    BY <1>2, <1>3, <2>1
  <2>3. \A k : (Todo(Starter, k)' <=> Todo(Starter, k)) /\ (Todo(Repairer, k)' <=> Todo(Repairer, k))
    BY <1>3, <2>2 DEF Todo
  <2>4. CASE \E x \in Dead : x \notin reported
    BY <1>0, <1>3, <2>4 DEF Pending
  <2>5. CASE \E l \in SUBSET Node : Todo(Starter, RepairTask(l)) \/ Todo(Repairer, RepairTask(l))
    BY <2>3, <2>5 DEF Pending
  <2>6. ASSUME NEW r \in Thread, NEW k \in Tasks, k.do = "endless", Todo(r, k) PROVE Pending(f)'
    <3>1. Todo(r, k)'
      BY <1>6, <2>6
    <3> QED BY <2>6, <3>1 DEF Pending
  <2>7. ASSUME NEW r \in Thread, Todo(r, ReplicateTask(f)) PROVE Pending(f)'
    <3>1. ReplicateTask(f).do # "repair"
      BY DEF ReplicateTask
    <3>2. Todo(r, ReplicateTask(f))'
      BY <1>6, <2>7, <3>1
    <3> QED BY <3>2 DEF Pending
  <2> QED BY <1>13, <2>4, <2>5, <2>6, <2>7 DEF Pending
<1>14. Enough(f)'
  BY <1>0, <1>7, <1>12, <1>13, EnoughStays DEF Supplied
<1> QED BY <1>8, <1>9, <1>11, <1>14 DEF Supplied


\* replicateFile only passes over a file that is at as many live nodes as are due.
LEMMA ReplicateSupplies ==
  ASSUME Whole, Counted, NEW f \in File, Supplied(f),
         NEW t \in Thread, Work(t), Head(job[t]).do = "replicate", Replicate(t)
  PROVE  Supplied(f)'
<1>0. UNCHANGED <<alive, members, reported, leader, held, user, service, fetches, mail, map, last>>
  BY ReplicateFacts
<1> PICK g \in File : ReplicateStep(t, g)
  BY ReplicateFacts
<1>1. /\ Head(job[t]) = ReplicateTask(g) /\ Todo(t, ReplicateTask(g)) /\ job[t] # << >>
      /\ job[t] \in Seq(Tasks) /\ Led /\ call[t] = NoCall
  BY DEF ReplicateStep
<1>2. /\ Head(job[t]).do = "replicate" /\ Starter \in Thread /\ Starter' = Starter /\ Dead' = Dead
      /\ ReplicateTask(g).do = "replicate"
  BY <1>0, <1>1, LeadersThreads DEF Whole, TInv, Starter, Dead, ReplicateTask
<1>3. \A k : k.do = "list" => ~Todo(t, k)
  BY <1>1, <1>2, NoLists
<1>4. Has(f)' = Has(f)
  BY <1>0 DEF Has, Arriving, Copying
<1>5. ASSUME \A r \in Thread \ {t} : job'[r] = job[r] PROVE Found(f)'
  <2>1. ASSUME NEW n, Todo(Starter, ListTask(n)) PROVE Todo(Starter, ListTask(n))'
    <3>1. ListTask(n).do = "list"
      BY DEF ListTask
    <3>2. Starter # t
      BY <1>3, <2>1, <3>1
    <3>3. job'[Starter] = job[Starter]
      BY <1>2, <1>5, <3>2
    <3> QED BY <1>2, <2>1, <3>3 DEF Todo
  <2> QED BY <1>0, <2>1, FoundStays DEF Supplied
<1>6. ASSUME job' = [job EXCEPT ![t] = Tail(job[t])], UNCHANGED call, Wanted(leader, g) = 0
      PROVE  Supplied(f)'
  <2>1. /\ \A r \in Thread \ {t} : job'[r] = job[r]
        /\ \A r \in Thread \ {t} : \A k : Todo(r, k)' <=> Todo(r, k)
        /\ \A k : Todo(t, k)' <=> Within(Tail(job[t]), k)
        /\ \A k : Todo(t, k) <=> Within(job[t], k)
    BY <1>1, <1>2, <1>6, JobFrame
  <2>2. /\ \A k : Todo(t, k)' => Todo(t, k)
        /\ \A k : Todo(t, k) => k = ReplicateTask(g) \/ Todo(t, k)'
    BY <1>1, <2>1, TailWithin
  <2>3. Found(f)'
    BY <1>5, <2>1
  <2>4. Serves(f)'
    BY <1>0, <1>4, <1>6, ServesStays DEF Supplied, Making
  <2>5. Undone(f)'
    BY <1>0, <2>1, <2>2 DEF Supplied, Undone, Deleting
  <2>6. CASE f = g
    <3>1. /\ Entries(f) \subseteq Has(f) /\ Count(leader, f) = Cardinality(Entries(f))
      BY <1>1, <2>6, CountFacts
    <3>2. /\ Cardinality(Entries(f)) \in Nat /\ Cardinality(Has(f)) \in Nat
          /\ Cardinality(Entries(f)) <= Cardinality(Has(f))
      BY <3>1, CopiesFinite, FS_Subset DEF Whole, TInv
    <3>3. /\ Cardinality(members) \in Nat /\ Cardinality(alive) \in Nat
          /\ Cardinality(alive) <= Cardinality(members) /\ MaxReplicate \in Nat
      BY GroupSize
    <3>4. Smaller(Cardinality(members), MaxReplicate) - Cardinality(Entries(f)) = 0
      BY <1>6, <2>6, <3>1 DEF Wanted
    <3>5. Cardinality(Has(f)) >= Due
      BY <3>2, <3>3, <3>4 DEF Due, Smaller
    <3> QED BY <1>0, <1>4, <3>5, EnoughStays, <2>3, <2>4, <2>5 DEF Supplied
  <2>7. CASE f # g
    <3>1. ReplicateTask(f) # ReplicateTask(g)
      BY <2>7 DEF ReplicateTask
    <3>2. \A r \in Thread : \A k :
            (k.do \in {"repair", "endless"} \/ k = ReplicateTask(f)) /\ Todo(r, k) => Todo(r, k)'
      BY <1>2, <2>1, <2>2, <3>1
    <3>3. Pending(f) => Pending(f)'
      BY <1>0, <1>2, <3>2, PendingStays
    <3>4. Enough(f)'
      BY <1>0, <1>4, <3>3, EnoughStays DEF Supplied
    <3> QED BY <2>3, <2>4, <2>5, <3>4 DEF Supplied
  <2> QED BY <2>6, <2>7
<1>7. ASSUME Wanted(leader, g) # 0, Draws(leader, g) = {},
             job' = [job EXCEPT ![t] = <<EndlessTask(g, Wanted(leader, g) < 0)>>], UNCHANGED call
      PROVE  Supplied(f)'
  <2>0. Wanted(leader, g) < 0
    BY <1>1, <1>7, NoTargets
  <2> PICK h : h = EndlessTask(g, Wanted(leader, g) < 0)
    OBVIOUS
  <2>1. h \in Tasks /\ h.do = "endless"
    <3>1. h = EndlessTask(g, TRUE)
      BY <2>0
    <3> QED BY <3>1 DEF EndlessTask, Tasks
  <2> PICK e : e = <<h>>
    OBVIOUS
  <2>2. job' = [job EXCEPT ![t] = e] /\ \A k : Within(e, k) <=> k = h
    BY <1>7 DEF Within
  <2>3. /\ \A r \in Thread \ {t} : job'[r] = job[r]
        /\ \A r \in Thread \ {t} : \A k : Todo(r, k)' <=> Todo(r, k)
        /\ \A k : Todo(t, k)' <=> k = h
    BY <1>1, <1>2, <2>2, JobFrame
  <2>4. Found(f)'
    BY <1>5, <2>3
  <2>5. Serves(f)'
    BY <1>0, <1>4, <1>7, ServesStays DEF Supplied, Making
  <2>6. Undone(f)'
    <3>1. \A n : DeleteTask(n, f) # h
      BY <2>1 DEF DeleteTask
    <3>2. \A r \in Thread, n \in Node : Todo(r, DeleteTask(n, f))' => Todo(r, DeleteTask(n, f))
      BY <2>3, <3>1
    <3> QED BY <1>0, <3>2 DEF Supplied, Undone, Deleting
  <2>7. Pending(f)'
    <3>1. Todo(t, h)'
      BY <2>3
    <3> QED BY <2>1, <3>1 DEF Pending
  <2> QED BY <2>4, <2>5, <2>6, <2>7 DEF Supplied, Enough
<1>8. ASSUME Wanted(leader, g) # 0, NEW c \in Draws(leader, g), call' = [call EXCEPT ![t] = c],
             UNCHANGED job
      PROVE  Supplied(f)'
  <2>1. c.state = "sent" /\ c.file = g
    BY <1>8, DrawsType DEF Whole, TInv, GroupT
  <2>2. call'[t] = c /\ \A r \in Thread \ {t} : call'[r] = call[r]
    BY <1>8 DEF Whole, TInv, ThreadsT
  <2>3. \A r \in Thread : \A k : Todo(r, k)' <=> Todo(r, k)
    BY <1>8 DEF Todo
  <2>4. Found(f)'
    BY <1>5, <1>8
  <2>5. Undone(f)'
    BY <1>0, <2>3 DEF Supplied, Undone, Deleting
  <2>6. Pending(f) => Pending(f)'
    BY <1>0, <1>2, <2>3, PendingStays
  <2>7. Enough(f)'
    BY <1>0, <1>4, <2>6, EnoughStays DEF Supplied
  <2>8. Due' = Due
    BY <1>0 DEF Due
  <2>9. ASSUME NEW r \in Thread, Making(r, f)'
        PROVE  /\ Cardinality(Has(f)' \cup call'[r].targets) >= Due'
               /\ call'[r].state = "done" => call'[r].targets \subseteq Has(f)'
               /\ call'[r].state = "taken" =>
                    call'[r].targets \ service'[call'[r].to].targets \subseteq Has(f)'
    <3>1. CASE r = t
      <4>1. f = g
        BY <2>1, <2>2, <2>9, <3>1 DEF Making
      <4>2. Cardinality(Has(f) \cup c.targets) >= Due
        BY <1>1, <1>8, <4>1, SomeTargets
      <4> QED BY <1>4, <2>1, <2>2, <2>8, <3>1, <4>2
    <3>2. CASE r # t
      <4>1. Making(r, f) /\ call'[r] = call[r]
        BY <2>2, <2>9, <3>2 DEF Making
      <4> QED BY <1>0, <1>4, <2>8, <4>1 DEF Supplied, Serves
    <3> QED BY <3>1, <3>2
  <2>10. Serves(f)'
    BY <2>9 DEF Serves
  <2> QED BY <2>4, <2>5, <2>7, <2>10 DEF Supplied
<1> QED BY <1>6, <1>7, <1>8 DEF ReplicateStep

LEMMA CommandSupplies ==
  ASSUME Whole, NEW f \in File, Supplied(f),
         NEW t \in Thread, Work(t), Head(job[t]).do \in {"list", "delete"}, Command(t)
  PROVE  Supplied(f)'
<1>0. UNCHANGED <<alive, members, reported, leader, held, user, service, fetches, map, job, last>>
  BY DEF Work, Command, groupVars, nodeVars
<1> PICK k : k = Head(job[t])
  OBVIOUS
<1> PICK c : c = Call(k.do, k.node, IF k.do = "delete" THEN k.file ELSE "")
  OBVIOUS
<1>1. call' = [call EXCEPT ![t] = c]
  BY DEF Command
<1>2. c.do \in {"list", "delete"}
  BY DEF Call
<1>3. call'[t] = c /\ \A r \in Thread \ {t} : call'[r] = call[r]
  BY <1>1 DEF Whole, TInv, ThreadsT
<1>4. \A r \in Thread : Making(r, f)' => Making(r, f) /\ call'[r] = call[r]
  BY <1>2, <1>3 DEF Making
<1>5. Has(f)' = Has(f) /\ Dead' = Dead
  BY <1>0 DEF Has, Arriving, Copying, Dead
<1>6. Serves(f)'
  BY <1>0, <1>4, <1>5, ServesStays DEF Supplied
<1>7. \A r \in Thread : \A j : Todo(r, j)' <=> Todo(r, j)
  BY <1>0 DEF Todo
<1>8. \A j : Todo(Starter, j) => Todo(Starter, j)'
  BY <1>0 DEF Todo, Starter
<1>9. Found(f)'
  BY <1>0, <1>8, FoundStays DEF Supplied
<1>10. Pending(f) => Pending(f)'
  BY <1>0, <1>5, <1>7, PendingStays
<1>11. Enough(f)'
  BY <1>0, <1>5, <1>10, EnoughStays DEF Supplied
<1>12. Undone(f)'
  BY <1>0, <1>7 DEF Supplied, Undone, Deleting
<1> QED BY <1>6, <1>9, <1>11, <1>12 DEF Supplied

LEMMA WorkSupplies ==
  ASSUME Whole, Counted, NEW f \in File, Supplied(f), NEW t \in Thread, Work(t), mishaps' = {}
  PROVE  Supplied(f)'
BY RepairSupplies, ReplicateSupplies, CommandSupplies DEF Work

\* A list names what the map says of the node and more; a command to replicate is done
\* when all its targets have the file; only what is to be deleted is struck from the map.
LEMMA ReturnSupplies ==
  ASSUME Whole, NEW f \in File, Supplied(f), NEW t \in Thread, Return(t)
  PROVE  Supplied(f)'
<1> PICK c : c = call[t]
  OBVIOUS
<1>1. /\ UNCHANGED <<alive, members, reported, leader, held, user, service, fetches, mail>>
      /\ Led /\ NodeOf(t) = leader /\ c.state = "done" /\ c \in Calls
      /\ c # NoCall /\ c.to \in Node
      /\ job[t] # << >> /\ Fits(c, Head(job[t]))
      /\ c.do \in {"list", "delete", "replicate"}
  BY ReturnFacts
<1>2. /\ \A r \in Thread \ {t} : call'[r] = call[r]
      /\ call'[t] = NoCall
      /\ \A r \in Thread : \A k : Todo(r, k)' => Todo(r, k)
      /\ \A r \in Thread : \A k : Todo(r, k) => Todo(r, k)' \/ (r = t /\ k = Head(job[t]))
  BY ReturnFacts
<1>3. UNCHANGED last
  BY DEF Return, noteVars
<1>4. /\ Starter \in Thread /\ Starter' = Starter /\ Dead' = Dead
      /\ map \in [Node -> [Node -> SUBSET File]] /\ leader \in Node /\ alive \subseteq Node
  BY <1>1, LeadersThreads DEF Whole, TInv, ThreadsT, GroupT, Starter, Dead
<1>5. \A n \in Node : map'[leader][n] =
        IF n # c.to THEN map[leader][n]
        ELSE IF c.do = "list" /\ c.names # {} THEN c.names
        ELSE IF c.do = "delete" THEN map[leader][n] \ {c.file} ELSE map[leader][n]
  <2>1. map' = [map EXCEPT ![leader][c.to] =
                  IF c.do = "list" /\ c.names # {} THEN c.names
                  ELSE IF c.do = "delete" THEN @ \ {c.file} ELSE @]
    BY <1>1 DEF Return
  <2> QED BY <1>1, <1>4, <2>1
<1>6. Has(f)' = Has(f)
  BY <1>1 DEF Has, Arriving, Copying
<1>7. \A r \in Thread : Making(r, f)' => Making(r, f) /\ call'[r] = call[r]
  BY <1>2 DEF Making, NoCall
<1>8. Serves(f)'
  BY <1>1, <1>6, <1>7, ServesStays DEF Supplied
<1>9. Undone(f)'
  BY <1>2, <1>3 DEF Supplied, Undone, Deleting
<1>10. /\ ReplicateTask(f).do = "replicate" /\ GetTask.do = "get"
       /\ \A n : ListTask(n).do = "list" /\ ListTask(n).node = n
       /\ \A n, g : DeleteTask(n, g).do = "delete"
       /\ \A g : ReplicateTask(g).do = "replicate" /\ ReplicateTask(g).file = g
  BY DEF ReplicateTask, GetTask, ListTask, DeleteTask
<1>11. c.do = "list" => /\ t = Starter /\ Replied(c.to) /\ c.names = Names
                        /\ Head(job[t]) = ListTask(c.to)
  BY <1>1, ListCallFacts DEF Replied, Names
<1>12. ASSUME NEW n \in alive, f \in map[leader][n], last[f] = "put" PROVE f \in map'[leader][n]
  <2>1. CASE c.do = "list" /\ c.names # {} /\ n = c.to
    <3>1. map[leader][n] \subseteq Names /\ Names = c.names
      BY <1>1, <1>11, <2>1 DEF Whole, Agreed, Mapped
    <3> QED BY <1>4, <1>5, <1>12, <2>1, <3>1
  <2>2. CASE c.do = "delete"
    <3>1. Deleting(c.file)
      BY <2>2, DeleteCallFacts
    <3>2. c.file # f
      BY <1>12, <3>1 DEF Supplied, Undone
    <3> QED BY <1>4, <1>5, <1>12, <2>2, <3>2
  <2>3. CASE ~(c.do = "list" /\ c.names # {} /\ n = c.to) /\ c.do # "delete"
    BY <1>4, <1>5, <1>12, <2>3
  <2> QED BY <2>1, <2>2, <2>3
<1>13. ASSUME NEW n \in alive, f \in held[n], Todo(Starter, ListTask(n)), last[f] = "put",
              \A k \in alive : f \notin map'[leader][k]
       PROVE  Todo(Starter, ListTask(n))'
  <2> SUFFICES ASSUME ~Todo(Starter, ListTask(n))' PROVE FALSE
    OBVIOUS
  <2>1. \A r \in Thread : r = Starter => Todo(r, ListTask(n)) /\ ~Todo(r, ListTask(n))'
    BY <1>4, <1>13 DEF Todo
  <2>2. t = Starter /\ Head(job[t]) = ListTask(n)
    BY <1>2, <1>4, <2>1
  <2>3. c.do = "list" /\ c.to = n
    <3>1. c.do # "delete"
      BY <1>1, <1>10, <2>2 DEF Fits
    <3>2. c.do # "replicate"
      BY <1>1, <1>10, <2>2 DEF Fits
    <3>3. c.do = "list"
      BY <1>1, <3>1, <3>2
    <3>4. ListTask(c.to) = ListTask(n)
      BY <1>11, <2>2, <3>3
    <3> QED BY <1>10, <3>3, <3>4
  <2>4. Replied(n) /\ Covered(n, f)
    BY <1>1, <1>11, <1>13, <2>3 DEF Whole, Agreed, Mapped
  <2>5. CASE Told(n, f)
    <3>1. Busy(f)
      BY <2>5 DEF Told, Busy
    <3>2. \E k \in alive : f \in map[leader][k]
      BY <1>1, <3>1 DEF Whole, Agreed, Mapped
    <3> QED BY <1>12, <1>13, <3>2
  <2>6. CASE f \in Names
    <3>1. f \in c.names /\ n \in Node
      BY <1>4, <1>11, <2>3, <2>6
    <3>2. map'[leader][n] = c.names
      BY <1>5, <2>3, <3>1
    <3> QED BY <1>13, <3>1, <3>2
  <2>7. CASE f \in map[leader][n]
    BY <1>12, <1>13, <2>7
  <2> QED BY <2>4, <2>5, <2>6, <2>7 DEF Covered
<1>14. Found(f)'
  BY <1>1, <1>3, <1>12, <1>13, FoundStays DEF Supplied
<1>15. CASE Head(job[t]) = ReplicateTask(f)
  <2>1. c.do = "replicate"
    BY <1>1, <1>10, <1>15 DEF Fits
  <2>2. c.keep /\ c.file = f
    <3>1. Head(job[t]) = IF c.keep THEN ReplicateTask(c.file) ELSE GetTask
      BY <1>1, <2>1 DEF Fits
    <3>2. Head(job[t]) = ReplicateTask(c.file)
      BY <1>10, <1>15, <3>1
    <3>3. c.keep = TRUE
      <4>1. c \in ReplicateCalls
        BY <1>1, <2>1, CallFields
      <4>2. c.keep \in BOOLEAN
        BY <4>1 DEF ReplicateCalls
      <4> QED BY <1>10, <1>15, <3>1, <4>2
    <3> QED BY <1>10, <1>15, <3>2, <3>3
  <2>3. Making(t, f)
    BY <2>1, <2>2 DEF Making
  <2>4. Cardinality(Has(f) \cup c.targets) >= Due /\ c.targets \subseteq Has(f)
    BY <1>1, <2>3 DEF Supplied, Serves
  <2>5. Has(f) \cup c.targets = Has(f)
    BY <2>4
  <2>6. Cardinality(Has(f)) >= Due
    BY <2>4, <2>5
  <2>7. Enough(f)'
    BY <1>1, <1>3, <1>6, <2>6, EnoughStays DEF Supplied
  <2> QED BY <1>8, <1>9, <1>14, <2>7 DEF Supplied
<1>16. CASE Head(job[t]) # ReplicateTask(f)
  <2>1. Head(job[t]).do \in {"list", "delete", "get", "replicate"}
    BY <1>1, <1>10 DEF Fits
  <2>2. \A r \in Thread : \A k :
          (k.do \in {"repair", "endless"} \/ k = ReplicateTask(f)) /\ Todo(r, k) => Todo(r, k)'
    BY <1>2, <1>16, <2>1
  <2>3. Pending(f) => Pending(f)'
    BY <1>1, <1>4, <2>2, PendingStays
  <2>4. Enough(f)'
    BY <1>1, <1>3, <1>6, <2>3, EnoughStays DEF Supplied
  <2> QED BY <1>8, <1>9, <1>14, <2>4 DEF Supplied
<1> QED BY <1>15, <1>16


\* A node that crashes at rest was not the only one to hold a file: two copies are due.
LEMMA CrashSupplies ==
  ASSUME MaxReplicate >= 2, Whole, NEW f \in File, Supplied(f), NEW n \in Node, Crash(n), mishaps' = {}
  PROVE  Supplied(f)'
<1>1. /\ n \in alive /\ alive' = alive \ {n} /\ alive' # {} /\ Quiet
      /\ UNCHANGED <<members, reported, leader, held, service, map, last>>
      /\ \A t \in Thread : job'[t] = << >> /\ call'[t] = NoCall
  BY CrashLeaves
<1>2. /\ Led /\ Dead = {} /\ fetches = {} /\ \A k \in alive : user[k] = Ready
      /\ \A t \in Thread : job[t] = << >>
      /\ \A k \in alive : map[leader][k] = held[k]
  BY <1>1, AtRest
<1>3. Starter \in Thread /\ Repairer \in Thread
  BY LeadersThreads DEF Whole, TInv
<1>4. \A t \in Thread : \A k : ~Todo(t, k)
  BY <1>2 DEF Todo
<1>5. (\A k : ~Todo(Starter, k) /\ ~Todo(Repairer, k)) /\ ~Pending(f)
  BY <1>2, <1>3, <1>4 DEF Pending
<1>6. \A k \in Has(f) : k \in alive /\ f \in held[k] /\ f \in map[leader][k]
  BY <1>2 DEF Has, Copying, Arriving, Ready
<1>7. \A t \in Thread : \A k : ~Todo(t, k)'
  BY <1>1 DEF Todo
<1>8. Serves(f)' /\ Undone(f)'
  BY <1>1, <1>7 DEF Serves, Making, NoCall, Undone, Deleting
<1>9. Enough(f)'
  <2>1. n \in Dead' /\ n \notin reported'
    BY <1>1 DEF Dead, Whole, IInv, AliveListed
  <2> QED BY <2>1 DEF Enough, Pending
<1>10. ASSUME last[f] = "put" PROVE \E k \in alive' : f \in held[k] /\ f \in map[leader][k]
  <2>1. Cardinality(Has(f)) >= Due
    BY <1>2, <1>5, <1>10 DEF Supplied, Enough
  <2>2. PICK k \in alive : k # n
    BY <1>1
  <2>3. /\ IsFiniteSet(alive) /\ Cardinality(alive) \in Nat
        /\ IsFiniteSet(Has(f)) /\ Cardinality(Has(f)) \in Nat /\ MaxReplicate \in Nat
    BY CopiesFinite, GroupSize DEF Whole, TInv
  <2>4. Cardinality(alive \ {n}) >= 1
    <3>1. IsFiniteSet(alive \ {n}) /\ alive \ {n} # {}
      BY <1>1, <2>3, FS_Subset
    <3>2. Cardinality(alive \ {n}) \in Nat /\ Cardinality(alive \ {n}) # 0
      BY <3>1, FS_EmptySet, FS_CardinalityType
    <3> QED BY <3>2
  <2>5. Cardinality(alive \ {n}) = Cardinality(alive) - 1
    BY <1>1, <2>3, FS_RemoveElement
  <2>6. Due >= 2
    BY <2>3, <2>4, <2>5 DEF Due, Smaller
  <2>7. Due \in Nat
    BY DueType DEF Whole, TInv
  <2>8. ~(Has(f) \subseteq {n})
    <3>1. IsFiniteSet({n}) /\ Cardinality({n}) = 1
      BY FS_Singleton
    <3>2. Has(f) \subseteq {n} => Cardinality(Has(f)) <= 1
      BY <3>1, FS_Subset
    <3> QED BY <2>1, <2>3, <2>6, <2>7, <3>2
  <2>9. PICK h \in Has(f) : h # n
    BY <2>8
  <2> QED BY <1>1, <1>6, <2>9
<1>11. Found(f)'
  BY <1>1, <1>10 DEF Found
<1> QED BY <1>8, <1>9, <1>11 DEF Supplied

\* A failure that is reported is repaired.
LEMMA ReportSupplies ==
  ASSUME Whole, NEW f \in File, Supplied(f), NEW n \in Node, Report(n)
  PROVE  Supplied(f)'
<1>1. /\ UNCHANGED <<alive, members, leader, held, user, service, fetches, map, call, last>>
      /\ n \in Dead
      /\ \A t \in Thread : job'[t] = job[t] \/ (job[t] = << >> /\ job'[t] = <<RepairTask({n})>>)
      /\ Led => job'[Repairer] = <<RepairTask({n})>>
  BY ReportLeaves DEF nodeVars
<1>2. /\ Starter \in Thread /\ Starter' = Starter /\ Repairer' = Repairer /\ (Led' <=> Led)
      /\ n \in Node
  BY <1>1, LeadersThreads DEF Whole, TInv, Starter, Repairer, Led
<1>3. \A t \in Thread : \A k : k.do # "repair" => (Todo(t, k)' <=> Todo(t, k))
  <2> SUFFICES ASSUME NEW t \in Thread, NEW k, k.do # "repair" PROVE Todo(t, k)' <=> Todo(t, k)
    OBVIOUS
  <2>1. CASE job'[t] = job[t]
    BY <2>1 DEF Todo
  <2>2. CASE job[t] = << >> /\ job'[t] = <<RepairTask({n})>>
    <3>1. RepairTask({n}).do = "repair"
      BY DEF RepairTask
    <3> QED BY <2>2, <3>1 DEF Todo
  <2> QED BY <1>1, <2>1, <2>2
<1>4. \A k : Todo(Starter, ListTask(k)) => Todo(Starter, ListTask(k))'
  <2>1. \A k : ListTask(k).do # "repair"
    BY DEF ListTask
  <2>2. \A t \in Thread : t = Starter => \A k : Todo(t, ListTask(k)) => Todo(t, ListTask(k))'
    BY <1>3, <2>1
  <2> QED BY <1>2, <2>2 DEF Todo
<1>5. Found(f)'
  BY <1>1, <1>4, FoundStays DEF Supplied
<1>6. Has(f)' = Has(f)
  BY <1>1 DEF Has, Arriving, Copying
<1>7. Serves(f)'
  BY <1>1, <1>6, ServesStays DEF Supplied, Making
<1>8. Undone(f)'
  <2>1. \A k : DeleteTask(k, f).do # "repair"
    BY DEF DeleteTask
  <2> QED BY <1>1, <1>3, <2>1 DEF Supplied, Undone, Deleting
<1>9. Led => Pending(f)'
  <2>1. ASSUME Led PROVE Todo(Repairer, RepairTask({n}))'
    BY <1>1, <1>2, <2>1 DEF Todo
  <2> QED BY <1>2, <2>1 DEF Pending
<1>10. Enough(f)'
  BY <1>2, <1>9 DEF Enough
<1> QED BY <1>5, <1>7, <1>8, <1>10 DEF Supplied

\* The new leader lists all nodes that run, then repairs.
LEMMA ElectSupplies ==
  ASSUME Whole, NEW f \in File, Supplied(f), Elect
  PROVE  Supplied(f)'
<1>1. /\ UNCHANGED <<alive, held, call, last>>
      /\ ~Led /\ Led'
      /\ \A t \in Thread : call[t] = NoCall
      /\ \A t \in Thread : t # Starter' => job'[t] = job[t]
      /\ \A t \in Thread : \A k : k.do # "repair" => ~Todo(t, k)
  BY ElectLeaves
<1>2. /\ \A n \in alive : Todo(Starter, ListTask(n))'
      /\ Todo(Starter, RepairTask({}))'
      /\ \A t \in Thread : \A k : t = Starter' /\ Todo(t, k)' =>
           k = RepairTask({}) \/ \E n \in alive : k = ListTask(n)
  BY ElectLeaves
<1>3. Found(f)'
  <2> SUFFICES ASSUME last[f] = "put"
               PROVE  \E n \in alive' : f \in held'[n] /\ Todo(Starter, ListTask(n))'
    BY <1>1 DEF Found
  <2>1. PICK n \in alive : f \in held[n]
    BY <1>1 DEF Supplied, Found
  <2> QED BY <1>1, <1>2, <2>1
<1>4. Serves(f)'
  BY <1>1 DEF Serves, Making, NoCall
<1>5. Pending(f)'
  BY <1>2 DEF Pending
<1>6. Undone(f)'
  <2> SUFFICES ASSUME NEW t \in Thread, NEW n \in Node, Todo(t, DeleteTask(n, f))' PROVE FALSE
    BY DEF Undone, Deleting
  <2>1. /\ DeleteTask(n, f).do = "delete" /\ RepairTask({}).do = "repair"
        /\ \A k : ListTask(k).do = "list"
    BY DEF DeleteTask, RepairTask, ListTask
  <2>2. t # Starter'
    BY <1>2, <2>1
  <2>3. job'[t] = job[t]
    BY <1>1, <2>2
  <2> QED BY <1>1, <2>1, <2>3 DEF Todo
<1> QED BY <1>3, <1>4, <1>5, <1>6 DEF Supplied, Enough

LEMMA SuppliedInit == Init => \A f \in File : Supplied(f)
<1> SUFFICES ASSUME Init, NEW f \in File PROVE Supplied(f)
  OBVIOUS
<1>1. /\ last = [g \in File |-> "none"] /\ job = [t \in Thread |-> << >>]
      /\ call = [t \in Thread |-> NoCall]
  BY DEF Init
<1>2. \A t \in Thread : \A k : ~Todo(t, k)
  BY <1>1 DEF Todo
<1> QED BY <1>1, <1>2 DEF Supplied, Found, Serves, Making, NoCall, Enough, Undone, Deleting

LEMMA SuppliedStep ==
  ASSUME MaxReplicate >= 2, TInv, IInv, RInv, mishaps = {} => Agreed, Smooth => Counted,
         Smooth => \A f \in File : Supplied(f), [Next]_vars
  PROVE  (Smooth => \A f \in File : Supplied(f))'
<1> SUFFICES ASSUME mishaps' = {}, Departed' = {}, NEW f \in File
             PROVE  Supplied(f)'
  BY DEF Smooth
<1>1. Whole /\ Counted /\ Obeyed /\ Supplied(f)
  BY MishapsStay, DepartedStay DEF Whole, TInv, Smooth, Counted
<1>2. CASE UNCHANGED vars
  <2>1. /\ UNCHANGED <<alive, members, leader, reported, held, user, service, fetches>>
        /\ UNCHANGED <<map, job, call, last>>
    BY <1>2 DEF vars, groupVars, nodeVars, masterVars, noteVars
  <2>2. Has(f)' = Has(f) /\ Dead' = Dead
    BY <2>1 DEF Has, Arriving, Copying, Dead
  <2> QED BY <1>1, <2>1, <2>2, SuppliedFrame
<1>3. ASSUME NEW n \in Node,
             \/ \E op \in {"put", "get", "delete"}, g \in File : Ask(n, op, g)
             \/ GiveUp(n) \/ Copy(n)
      PROVE  Supplied(f)'
  BY <1>1, <1>3, UsersSupply
<1>4. ASSUME NEW n \in Node, Serve(n) PROVE Supplied(f)'
  BY <1>1, <1>4, ServeSupplies
<1>5. ASSUME NEW n \in Node, Obey(n) PROVE Supplied(f)'
  BY <1>1, <1>5, ObeySupplies
<1>6. ASSUME NEW n \in Node, Announce(n) PROVE Supplied(f)'
  BY <1>1, <1>6, AnnounceSupplies
<1>7. ASSUME NEW n \in Node, Crash(n) PROVE Supplied(f)'
  BY <1>1, <1>7, CrashSupplies
<1>8. ASSUME NEW n \in Node, Leave(n) PROVE Supplied(f)'
  BY <1>1, <1>8, LeaveDeparts
<1>9. ASSUME NEW n \in Node, Report(n) PROVE Supplied(f)'
  BY <1>1, <1>9, ReportSupplies
<1>10. ASSUME NEW n \in Node, Erase(n) PROVE Supplied(f)'
  BY <1>1, <1>10, EraseSupplies
<1>11. ASSUME NEW t \in Thread, Work(t) PROVE Supplied(f)'
  BY <1>1, <1>11, WorkSupplies
<1>12. ASSUME NEW t \in Thread, Return(t) PROVE Supplied(f)'
  BY <1>1, <1>12, ReturnSupplies
<1>13. ASSUME NEW x \in fetches, Fetched(x) PROVE Supplied(f)'
  BY <1>1, <1>13, FetchesSupply
<1>14. CASE Elect
  BY <1>1, <1>14, ElectSupplies
<1> QED BY <1>2, <1>3, <1>4, <1>5, <1>6, <1>7, <1>8, <1>9, <1>10, <1>11, <1>12, <1>13, <1>14 DEF Next

\* While nothing has gone wrong a file that was put has all its replicas at rest (Kept),
\* whoever has crashed at rest before, the master too, and not more unless two threads
\* made some: for any group, files, users and bounds, and any number of replicas that
\* survives the loss of one (MAX_REPLICATE is 3).
THEOREM CopiesKept ==
  ASSUME MaxReplicate >= 2
  PROVE  Spec => [](Unmarred(Mishap) => Kept)
<1>1. Init => (Smooth => \A f \in File : Supplied(f))
  BY SuppliedInit
<1>2. /\ TInv /\ IInv /\ RInv /\ (mishaps = {} => Agreed) /\ (Smooth => Counted)
      /\ (Smooth => \A f \in File : Supplied(f)) /\ [Next]_vars
      => (Smooth => \A f \in File : Supplied(f))'
  BY SuppliedStep
<1>3. Spec => [](Smooth => \A f \in File : Supplied(f))
  BY <1>1, <1>2, AgreedAlways, RInvAlways, CountedAlways, PTL DEF Spec
<1>4. ASSUME TInv /\ (mishaps = {} => Agreed), IInv /\ RInv, Smooth => Counted,
             Smooth => \A f \in File : Supplied(f)
      PROVE  Unmarred(Mishap) => Kept
  <2> SUFFICES ASSUME Unmarred(Mishap), Quiet, Departed = {}, NEW f \in File, last[f] = "put"
               PROVE  LET many == Cardinality(CopiesOf(f))
                          due == Smaller(Cardinality(members), MaxReplicate) IN
                      many >= due /\ (many = due \/ f \in miscounted)
    BY DEF Kept
  <2>1. Whole /\ Limited(f) /\ Supplied(f)
    BY <1>4 DEF TInv, NotesT, Unmarred, Smooth, Counted, Whole
  <2>2. /\ Led /\ Dead = {} /\ fetches = {} /\ \A k \in alive : user[k] = Ready
        /\ \A t \in Thread : job[t] = << >> /\ call[t] = NoCall
        /\ members = alive
    BY <2>1, AtRest DEF Quiet
  <2>3. Has(f) = CopiesOf(f)
    BY <2>2 DEF Has, CopiesOf, Copying, Arriving, Ready
  <2>4. Coming(f) = CopiesOf(f)
    BY <2>2, <2>3 DEF Coming, Making, NoCall
  <2>5. ~Pending(f)
    <3>1. Starter \in Thread /\ Repairer \in Thread
      BY <2>1, LeadersThreads DEF Whole, TInv
    <3>2. \A t \in Thread : \A k : ~Todo(t, k)
      BY <2>2 DEF Todo
    <3>3. \A k : ~Todo(Starter, k) /\ ~Todo(Repairer, k)
      BY <3>1, <3>2
    <3> QED BY <2>2, <3>2, <3>3 DEF Pending
  <2>6. Cardinality(CopiesOf(f)) >= Due
    BY <2>1, <2>2, <2>3, <2>5 DEF Supplied, Enough
  <2>7. /\ Cardinality(CopiesOf(f)) \in Nat /\ Cardinality(alive) \in Nat
        /\ Cardinality(CopiesOf(f)) <= Cardinality(alive) /\ MaxReplicate \in Nat
    <3>1. IsFiniteSet(alive) /\ CopiesOf(f) \subseteq alive
      BY <2>1, CopiesFinite DEF CopiesOf, Whole, TInv
    <3> QED BY <2>1, <3>1, FS_Subset, FS_CardinalityType, GroupSize
  <2>8. f \in miscounted \/ Cardinality(CopiesOf(f)) <= MaxReplicate
    BY <2>1, <2>4 DEF Limited
  <2> QED BY <2>2, <2>6, <2>7, <2>8 DEF Due, Smaller
<1> QED BY AgreedAlways, RInvAlways, CountedAlways, <1>3, <1>4, PTL

=============================================================================
