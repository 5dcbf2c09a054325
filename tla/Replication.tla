----------------------------- MODULE Replication -----------------------------
(***************************************************************************)
(* The SDFS: the service thread and the user's commands of DFile on every  *)
(* node, and DFileMaster on the node that leads (daemon/src/filesys,       *)
(* daemon/src/message/DFileMessageHandler.cpp).                            *)
(*                                                                         *)
(* The master keeps a map of who holds what.  It serves one user request   *)
(* at a time, and commands nodes to replicate, delete and list over REQ    *)
(* sockets that wait for ever; a node that replicates in its turn asks the *)
(* service thread of each target.  Two more threads of the master's node   *)
(* send commands: the election's, which gathers the map, and one that      *)
(* replicates anew what a failed node held.                                *)
(*                                                                         *)
(* Data: a file put by node n has content n.  A fetch is one step at its   *)
(* end; FileTransfer says how it goes and when its result is not the       *)
(* source.  Views of the membership agree (Membership), and the lowest     *)
(* live node is elected (Election).                                        *)
(***************************************************************************)
EXTENDS Integers, Sequences, FiniteSets

CONSTANTS
  Node,          \* ids, ordered like those of the code
  File,          \* names of files, numbers in the place of ordered strings
  MaxReplicate,  \* MAX_REPLICATE of replicateFile
  User,          \* nodes whose users give commands
  MaxRequests,   \* bound: commands of users
  MaxFaults      \* bound: crashes, departures and late replies together

ASSUME ReplicationAssumption ==
  /\ Node \subseteq Nat \ {0} /\ IsFiniteSet(Node) /\ Node # {}
  /\ File \subseteq Nat /\ IsFiniteSet(File)
  /\ MaxReplicate \in Nat \ {0}
  /\ User \subseteq Node
  /\ {MaxRequests, MaxFaults} \subseteq Nat

VARIABLES
  alive,     \* nodes whose daemon runs
  members,   \* the membership list
  reported,  \* nodes whose NodeFailEvent was delivered
  leader,    \* Candidate::leader()
  held,      \* held[n]: names in the local file map of n
  disk,      \* disk[n][f]: what files/f is at n
  got,       \* got[n][f]: what a get of f gave the user of n
  user,      \* user[n]: the command the user of n waits for
  mail,      \* requests that wait for a master
  service,   \* service[n]: DFile::serviceThread
  fetches,   \* fetches under way
  map,       \* map[m][n]: fileMap[n] of DFileMaster at m
  job,       \* job[t]: what a master's thread has yet to do
  call,      \* call[t]: its command to a node
  asked, late,   \* requests, and those whose reply came too late
  last,      \* last[f]: the last change of f that a master took on
  mishaps,   \* what has gone wrong so far
  miscounted \* names that were replicated by a count of only some replicas

nodeVars == <<held, disk, got, user, service, fetches>>
masterVars == <<map, job, call>>
groupVars == <<alive, members, reported, leader>>
noteVars == <<asked, late, last, mishaps, miscounted>>
vars == <<groupVars, nodeVars, mail, masterVars, noteVars>>

-----------------------------------------------------------------------------
Absent == 0
Junk == -1

\* late: the user gave up on a put that the master still serves
\* early: a request was served while the new master's start() gathers its map
\* overtaken: what the master noted of a node was replaced by an older list
\* crossed: a deletion met replicas of the file that were being made
\* hasty: a command came before the put's own copy, or without it
\* overlap: two fetches of a name at one node, or one and the user's own copy
\* amid: a node failed while something was under way
Mishap == {"late", "early", "overtaken", "crossed", "hasty", "overlap", "amid"}
Unmarred(S) == mishaps \cap S = {}
Content == Node \cup {Junk}

\* masterServiceThread, Candidate's thread in start(), rereplicateThreads.
Thread == Node \X {"serve", "start", "repair"}
NodeOf(t) == t[1]

Lowest(S) == CHOOSE n \in S : \A m \in S : n <= m
Smaller(a, b) == IF a <= b THEN a ELSE b

\* std::map and std::set yield ids and names in order.
Rank(x, S) == Cardinality({y \in S : y < x})
Nth(S, i) == CHOOSE x \in S : Rank(x, S) = i - 1
Each(S, Task(_)) == [i \in 1 .. Cardinality(S) |-> Task(Nth(S, i))]

ListTask(n) == [do |-> "list", node |-> n]
RepairTask(lost) == [do |-> "repair", lost |-> lost]
ReplicateTask(f) == [do |-> "replicate", file |-> f]
DeleteTask(n, f) == [do |-> "delete", node |-> n, file |-> f]
GetTask == [do |-> "get"]
EndlessTask(f, excess) == [do |-> "endless", file |-> f, excess |-> excess]

NoCall == [do |-> "none", state |-> "none"]
Call(do, n, f) == [do |-> do, to |-> n, file |-> f, state |-> "sent"]
ReplicateCall(n, f, targets, keep) ==
  [do |-> "replicate", to |-> n, file |-> f, targets |-> targets, keep |-> keep,
   state |-> "sent"]

Ready == [op |-> "none"]
Idle == [state |-> "idle"]
Request(op, n, f, id) == [op |-> op, from |-> n, file |-> f, id |-> id, to |-> leader]

\* Thread t has the task k to do.
Todo(t, k) == \E i \in DOMAIN job[t] : job[t][i] = k

Faults == late + Cardinality(Node \ alive)
\* Copies of f are being made that the map does not know yet.
Moving(f) ==
  \/ \E x \in fetches : x.file = f /\ x.keep
  \/ \E q \in mail : q.op = "update" /\ q.file = f
  \/ \E n \in alive : user[n].op = "copy" /\ user[n].file = f
  \/ \E t \in Thread : Todo(t, ReplicateTask(f))
  \/ \E t \in Thread : call[t].do = "replicate" /\ call[t].file = f

\* There are or will be replicas of f that the master m has not noted.
Uncounted(m, f) ==
  \E n \in alive :
    /\ f \notin map[m][n]
    /\ \/ f \in held[n]
       \/ \E x \in fetches : x.keep /\ x.file = f /\ x.to = n
       \/ \E t \in Thread : /\ call[t].do = "replicate" /\ call[t].file = f
                            /\ call[t].keep /\ n \in call[t].targets

\* The answer of n to a list command is about to replace what is now noted of n.
Overtakes(m, n) ==
  \E t \in Thread : /\ NodeOf(t) = m /\ call[t].do = "list" /\ call[t].to = n
                    /\ call[t].state = "done" /\ call[t].names # {}

Deleting(f) == \E t \in Thread, n \in Node : Todo(t, DeleteTask(n, f))

Gathering == job[<<leader, "start">>] # << >>

-----------------------------------------------------------------------------
(* The master's map *)

\* countReplicates: entries of nodes that are gone count.
Count(m, f) == Cardinality({n \in Node : f \in map[m][n]})

\* Members that have the file, as hasFile says.
Holders(m, f) == {n \in members : f \in map[m][n]}

\* numTargets, negative when there are more replicas than are due.
Wanted(m, f) == Smaller(Cardinality(members), MaxReplicate) - Count(m, f)

\* Mutant: targets are drawn among all members.
DrawsAnybody(m, f) ==
  {ReplicateCall(s, f, T, TRUE) :
     s \in Holders(m, f),
     T \in {S \in SUBSET members : Cardinality(S) = Wanted(m, f)}}

\* The targets and the source that replicateFile may draw; no choice at all
\* when its loops never end: too many replicas, or no member has the file.
Draws(m, f) ==
  UNION {{ReplicateCall(s, f, T, TRUE) : s \in Holders(m, f)} :
           T \in {S \in SUBSET (members \ Holders(m, f)) : Cardinality(S) = Wanted(m, f)}}

-----------------------------------------------------------------------------
Init ==
  /\ alive = Node /\ members = Node /\ reported = {}
  /\ leader = Lowest(Node)
  /\ held = [n \in Node |-> {}]
  /\ disk = [n \in Node |-> [f \in File |-> Absent]]
  /\ got = [n \in Node |-> [f \in File |-> Absent]]
  /\ user = [n \in Node |-> Ready]
  /\ mail = {}
  /\ service = [n \in Node |-> Idle]
  /\ fetches = {}
  /\ map = [m \in Node |-> [n \in Node |-> {}]]
  /\ job = [t \in Thread |-> << >>]
  /\ call = [t \in Thread |-> NoCall]
  /\ asked = 0 /\ late = 0
  /\ last = [f \in File |-> "none"]
  /\ mishaps = {} /\ miscounted = {}

-----------------------------------------------------------------------------
(* The user of a node *)

\* sendPutRequest, sendDeleteRequest and sendGetRequest; a get of a file that
\* the node holds is a copy on the spot.
Ask(n, op, f) ==
  /\ n \in User \cap alive /\ user[n] = Ready
  /\ asked < MaxRequests
  /\ asked' = asked + 1
  /\ IF op = "get" /\ f \in held[n]
     THEN /\ got' = [got EXCEPT ![n][f] = disk[n][f]]
          /\ UNCHANGED <<user, mail>>
     ELSE LET q == Request(op, n, f, asked') IN
          /\ user' = [user EXCEPT ![n] = q]
          /\ mail' = IF leader \in alive THEN mail \cup {q} ELSE mail
          /\ UNCHANGED got
  /\ UNCHANGED <<groupVars, held, disk, service, fetches, masterVars,
                 late, last, mishaps, miscounted>>

Waiting(n) == user[n] # Ready /\ user[n].op # "copy"

\* The receive times out after requestTimeout; a request to a live master
\* stays in the master's queue.
GiveUp(n) ==
  /\ n \in alive /\ Waiting(n)
  /\ user' = [user EXCEPT ![n] = Ready]
  /\ IF user[n] \in mail
     THEN /\ Faults < MaxFaults
          /\ late' = late + 1
          /\ mishaps' = IF user[n].op = "put" THEN mishaps \cup {"late"} ELSE mishaps
     ELSE UNCHANGED <<late, mishaps>>
  /\ UNCHANGED <<groupVars, held, disk, got, service, fetches, mail, masterVars,
                 asked, last, miscounted>>

SameName(x, f, k) == x.file = f /\ x.to = k

\* copyBufferedFile, in the user's thread, after the put was approved.
Copy(n) ==
  /\ n \in alive /\ user[n].op = "copy"
  /\ LET f == user[n].file IN
     /\ disk' = [disk EXCEPT ![n][f] = n]
     /\ held' = [held EXCEPT ![n] = @ \cup {f}]
     /\ mishaps' = IF \E x \in fetches : SameName(x, f, n) THEN mishaps \cup {"overlap"} ELSE mishaps
  /\ user' = [user EXCEPT ![n] = Ready]
  /\ UNCHANGED <<groupVars, got, service, fetches, mail, masterVars, asked, late, last, miscounted>>

-----------------------------------------------------------------------------
(* The master's service thread *)

\* The user hears the reply if it still waits for it.
Answer(q, after) ==
  user' = IF user[q.from] = q THEN [user EXCEPT ![q.from] = after] ELSE user

\* Mutant: the put is accepted whatever the map says.
ServePutAlways(t, q) ==
  /\ Answer(q, [op |-> "copy", file |-> q.file])
  /\ map' = [map EXCEPT ![NodeOf(t)][q.from] = @ \cup {q.file}]
  /\ job' = [job EXCEPT ![t] = <<ReplicateTask(q.file)>>]
  /\ last' = [last EXCEPT ![q.file] = "put"]
  /\ UNCHANGED <<call, mishaps>>

\* Mutant: the requester is not entered in the map.
ServePutUnnoted(t, q) ==
  LET new == Count(NodeOf(t), q.file) = 0 IN
  /\ Answer(q, IF new THEN [op |-> "copy", file |-> q.file] ELSE Ready)
  /\ job' = IF new THEN [job EXCEPT ![t] = <<ReplicateTask(q.file)>>] ELSE job
  /\ last' = IF new THEN [last EXCEPT ![q.file] = "put"] ELSE last
  /\ UNCHANGED <<map, call, mishaps>>

ServePut(t, q) ==
  LET m == NodeOf(t)
      new == Count(m, q.file) = 0 IN
  /\ Answer(q, IF new THEN [op |-> "copy", file |-> q.file] ELSE Ready)
  /\ IF new
     THEN /\ map' = [map EXCEPT ![m][q.from] = @ \cup {q.file}]
          /\ job' = [job EXCEPT ![t] = <<ReplicateTask(q.file)>>]
          /\ last' = [last EXCEPT ![q.file] = "put"]
          /\ mishaps' = mishaps \cup (IF Gathering THEN {"early"} ELSE {})
                                \cup (IF Overtakes(m, q.from) THEN {"overtaken"} ELSE {})
     ELSE UNCHANGED <<map, job, last, mishaps>>
  /\ UNCHANGED call

\* The first member that has the file is told to send it to the user's path.
ServeGet(t, q) ==
  LET have == Holders(NodeOf(t), q.file) IN
  /\ Answer(q, Ready)
  /\ IF have # {}
     THEN /\ job' = [job EXCEPT ![t] = <<GetTask>>]
          /\ call' = [call EXCEPT ![t] =
                        ReplicateCall(Lowest(have), q.file, {q.from}, FALSE)]
     ELSE UNCHANGED <<job, call>>
  /\ UNCHANGED <<map, last, mishaps>>

\* Mutant: only the first holder is told.
ServeDeleteFirst(t, q) ==
  LET have == Holders(NodeOf(t), q.file) IN
  /\ Answer(q, Ready)
  /\ IF have # {}
     THEN /\ job' = [job EXCEPT ![t] = <<DeleteTask(Lowest(have), q.file)>>]
          /\ last' = [last EXCEPT ![q.file] = "delete"]
     ELSE UNCHANGED <<job, last>>
  /\ UNCHANGED <<map, call, mishaps>>

ServeDelete(t, q) ==
  LET have == Holders(NodeOf(t), q.file)
      Task(n) == DeleteTask(n, q.file) IN
  /\ Answer(q, Ready)
  /\ IF Count(NodeOf(t), q.file) > 0
     THEN /\ job' = [job EXCEPT ![t] = Each(have, Task)]
          /\ last' = [last EXCEPT ![q.file] = "delete"]
          /\ mishaps' = mishaps \cup (IF Gathering THEN {"early"} ELSE {})
                                \cup (IF Moving(q.file) THEN {"crossed"} ELSE {})
     ELSE UNCHANGED <<job, last, mishaps>>
  /\ UNCHANGED <<map, call>>

\* Mutant: the update is read and forgotten.
ServeUpdateNot(t, q) == UNCHANGED <<map, user, job, call, last, mishaps>>

ServeUpdate(t, q) ==
  /\ map' = [map EXCEPT ![NodeOf(t)][q.from] = @ \cup {q.file}]
  /\ mishaps' = IF Overtakes(NodeOf(t), q.from) THEN mishaps \cup {"overtaken"} ELSE mishaps
  /\ UNCHANGED <<user, job, call, last>>

\* masterServiceThread: it takes a request and answers it before it acts on it.
Serve(m) ==
  LET t == <<m, "serve">> IN
  /\ m \in alive /\ leader = m
  /\ job[t] = << >>
  /\ \E q \in mail :
       /\ q.to = m
       /\ mail' = mail \ {q}
       /\ \/ q.op = "put" /\ ServePut(t, q)
          \/ q.op = "get" /\ ServeGet(t, q)
          \/ q.op = "delete" /\ ServeDelete(t, q)
          \/ q.op = "update" /\ ServeUpdate(t, q)
  /\ UNCHANGED <<groupVars, held, disk, got, service, fetches, asked, late,
                 miscounted>>

-----------------------------------------------------------------------------
(* Threads of the master that send commands *)

Rest(t) == [job EXCEPT ![t] = Tail(@)]

\* Mutant: the failed node keeps its entry.
RepairStale(t) ==
  LET m == NodeOf(t)
      names == UNION {map[m][n] : n \in members} IN
  /\ job' = [job EXCEPT ![t] = Each(names, ReplicateTask) \o Tail(@)]
  /\ UNCHANGED <<map, mishaps, miscounted, call>>

\* reReplicate, after the entry of the failed node (if any) was cleared: one
\* replicateFile for each name that a member has.
Repair(t) ==
  LET m == NodeOf(t)
      known == [n \in Node |-> IF n \in Head(job[t]).lost THEN {} ELSE map[m][n]]
      names == UNION {known[n] : n \in members} IN
  /\ map' = [map EXCEPT ![m] = known]
  /\ job' = [job EXCEPT ![t] = Each(names, ReplicateTask) \o Tail(@)]
  /\ mishaps' = IF \E f \in names : Deleting(f) THEN mishaps \cup {"crossed"} ELSE mishaps
  /\ UNCHANGED <<call, miscounted>>

\* replicateFile up to its command.
Replicate(t) ==
  LET m == NodeOf(t)
      f == Head(job[t]).file IN
  /\ CASE Wanted(m, f) = 0 -> job' = Rest(t) /\ UNCHANGED call
       [] Wanted(m, f) # 0 /\ Draws(m, f) = {} ->
            /\ job' = [job EXCEPT ![t] = <<EndlessTask(f, Wanted(m, f) < 0)>>]
            /\ UNCHANGED call
       [] OTHER -> \E c \in Draws(m, f) : call' = [call EXCEPT ![t] = c] /\ UNCHANGED job
  /\ miscounted' = IF Uncounted(m, f) THEN miscounted \cup {f} ELSE miscounted
  /\ UNCHANGED <<map, mishaps>>

\* sendListCommand, sendDeleteCommand.
Command(t) ==
  /\ call' = [call EXCEPT ![t] =
                LET k == Head(job[t]) IN
                Call(k.do, k.node, IF k.do = "delete" THEN k.file ELSE "")]
  /\ UNCHANGED <<map, job, mishaps, miscounted>>

Work(t) ==
  /\ NodeOf(t) \in alive /\ call[t] = NoCall /\ job[t] # << >>
  /\ \/ Head(job[t]).do = "repair" /\ Repair(t)
     \/ Head(job[t]).do = "replicate" /\ Replicate(t)
     \/ Head(job[t]).do \in {"list", "delete"} /\ Command(t)
  /\ UNCHANGED <<groupVars, nodeVars, mail, asked, late, last>>

\* The reply to a command: a list replaces the node's entry, unless it is empty
\* (then the reply has no list at all), a deletion strikes the name from it.
Return(t) ==
  /\ NodeOf(t) \in alive /\ call[t].state = "done"
  /\ LET c == call[t] IN
     map' = [map EXCEPT ![NodeOf(t)][c.to] =
               IF c.do = "list" /\ c.names # {} THEN c.names
               ELSE IF c.do = "delete" THEN @ \ {c.file} ELSE @]
  /\ job' = Rest(t)
  /\ call' = [call EXCEPT ![t] = NoCall]
  /\ UNCHANGED <<groupVars, nodeVars, mail, noteVars>>

-----------------------------------------------------------------------------
(* The service thread of a node *)

Free(n) == n \in alive /\ service[n] = Idle
Done(t) == [call EXCEPT ![t].state = "done"]

\* A command of a node that does not lead gets no reply, and the receive that
\* follows on the REP socket throws, which ends the thread.
Refuse(n, t) ==
  /\ service' = [service EXCEPT ![n] = [state |-> "dead"]]
  /\ call' = [call EXCEPT ![t].state = "refused"]
  /\ UNCHANGED <<held, disk, mishaps>>

DoList(n, t) ==
  /\ call' = [call EXCEPT ![t] = [do |-> "list", to |-> n, names |-> held[n],
                                 state |-> "done"]]
  /\ mishaps' = IF user[n].op = "copy" THEN mishaps \cup {"hasty"} ELSE mishaps
  /\ UNCHANGED <<service, held, disk>>

\* deleteLocalFile.
DoDelete(n, t) ==
  LET f == call[t].file IN
  /\ IF f \in held[n]
     THEN /\ held' = [held EXCEPT ![n] = @ \ {f}]
          /\ disk' = [disk EXCEPT ![n][f] = Absent]
     ELSE UNCHANGED <<held, disk>>
  /\ call' = Done(t)
  /\ mishaps' = mishaps \cup (IF Moving(f) THEN {"crossed"} ELSE {})
                        \cup (IF f \in held[n] THEN {} ELSE {"hasty"})
                        \cup (IF Overtakes(NodeOf(t), n) THEN {"overtaken"} ELSE {})
  /\ UNCHANGED service

\* REPLICATE: the thread now asks one target after the other (Announce).
DoReplicate(n, t) ==
  /\ service' = [service EXCEPT ![n] =
       [state |-> "sending", by |-> t, file |-> call[t].file,
        targets |-> call[t].targets, keep |-> call[t].keep]]
  /\ call' = [call EXCEPT ![t].state = "taken"]
  /\ UNCHANGED <<held, disk, mishaps>>

\* The service thread takes a command.
Obey(n) ==
  /\ Free(n)
  /\ \E t \in Thread :
       /\ call[t].state = "sent" /\ call[t].to = n
       /\ \/ leader # NodeOf(t) /\ Refuse(n, t)
          \/ leader = NodeOf(t) /\ \/ call[t].do = "list" /\ DoList(n, t)
                                   \/ call[t].do = "delete" /\ DoDelete(n, t)
                                   \/ call[t].do = "replicate" /\ DoReplicate(n, t)
  /\ UNCHANGED <<groupVars, got, user, fetches, mail, map, job, asked, late, last, miscounted>>

Fetch(f, n, k, keep, content) ==
  [file |-> f, from |-> n, to |-> k, keep |-> keep, content |-> content]

\* What the fetch of f from n brings: a file that is not there, or not yet
\* all of it, is sent as a chunk of junk.
SourceOf(n, f) == IF f \in held[n] THEN disk[n][f] ELSE Junk

\* Mutant: the thread goes on after its last target.
AnnounceOn(n) ==
  /\ n \in alive /\ service[n].state = "sending"
  /\ LET s == service[n]
         k == Lowest(s.targets) IN
     /\ Free(k)
     /\ fetches' = fetches \cup {Fetch(s.file, n, k, s.keep, SourceOf(n, s.file))}
     /\ service' = [service EXCEPT ![n].targets = @ \ {k}]
  /\ UNCHANGED <<groupVars, held, disk, got, user, mail, map, job, call, noteVars>>

\* Mutant: a target that has the file does not answer.
AnnounceUnanswered(n) ==
  /\ n \in alive /\ service[n].state = "sending"
  /\ LET s == service[n]
         k == Lowest(s.targets) IN
     /\ Free(k)
     /\ s.file \notin held[k]
     /\ fetches' = fetches \cup {Fetch(s.file, n, k, s.keep, SourceOf(n, s.file))}
     /\ service' = [service EXCEPT ![n] = Idle]
     /\ call' = IF call[s.by].state = "taken" THEN Done(s.by) ELSE call
  /\ UNCHANGED <<groupVars, held, disk, got, user, mail, map, job, noteVars>>

\* The service thread of n asks that of the next target k (sendFileRequest),
\* which approves unless the name is in its map, and starts to fetch.
Announce(n) ==
  /\ n \in alive /\ service[n].state = "sending"
  /\ LET s == service[n]
         f == s.file
         k == Lowest(s.targets) IN
     /\ Free(k)
     /\ IF f \notin held[k]
        THEN /\ fetches' = fetches \cup {Fetch(f, n, k, s.keep, SourceOf(n, f))}
             /\ mishaps' = mishaps
                  \cup (IF f \in held[n] THEN {} ELSE {"hasty"})
                  \cup (IF \E x \in fetches : SameName(x, f, k) THEN {"overlap"} ELSE {})
        ELSE UNCHANGED <<fetches, mishaps>>
     /\ IF s.targets = {k}
        THEN /\ service' = [service EXCEPT ![n] = Idle]
             /\ call' = IF call[s.by].state = "taken" THEN Done(s.by) ELSE call
        ELSE /\ service' = [service EXCEPT ![n].targets = @ \ {k}]
             /\ UNCHANGED call
  /\ UNCHANGED <<groupVars, held, disk, got, user, mail, map, job, asked, late, last, miscounted>>

\* fetchClientThread ends.  Bytes were appended to whatever files/f held; two
\* fetches of a name share its chunk counter.  A replica is entered in the map
\* and reported to the leader; a file that was asked for is moved to its path.
Fetched(x) ==
  LET n == x.to
      f == x.file
      mixed == disk[n][f] # Absent \/ \E y \in fetches \ {x} : SameName(y, f, n)
      content == IF mixed THEN Junk ELSE x.content
      q == [op |-> "update", from |-> n, file |-> f, to |-> leader] IN
  /\ x \in fetches
  /\ fetches' = fetches \ {x}
  /\ IF x.keep
     THEN /\ disk' = [disk EXCEPT ![n][f] = content]
          /\ held' = [held EXCEPT ![n] = @ \cup {f}]
          /\ mail' = IF leader \in alive THEN mail \cup {q} ELSE mail
          /\ UNCHANGED got
     ELSE /\ got' = [got EXCEPT ![n][f] = content]
          /\ disk' = [disk EXCEPT ![n][f] = Absent]
          /\ UNCHANGED <<held, mail>>
  /\ UNCHANGED <<groupVars, user, service, masterVars, noteVars>>

-----------------------------------------------------------------------------
(* The group *)

\* Nothing is under way, and all lists are up to date.
Quiet ==
  /\ leader \in alive /\ members = alive
  /\ mail = {} /\ fetches = {}
  /\ \A n \in alive : user[n] = Ready /\ service[n] = Idle
  /\ \A t \in Thread : NodeOf(t) \in alive => job[t] = << >>

\* What is under way at n or from n ends with n.  Of a file it was sending,
\* the target keeps the bytes it has; a command of n may have been delivered.
Gone(n) ==
  LET cut == {x \in fetches : x.from = n /\ x.to # n} IN
  /\ alive' = alive \ {n}
  /\ fetches' = {x \in fetches : x.from # n /\ x.to # n}
  /\ \E begun \in SUBSET cut :
       disk' = [k \in Node |-> [f \in File |->
                  IF \E x \in begun : SameName(x, f, k) THEN Junk ELSE disk[k][f]]]
  /\ mail' = {q \in mail : q.to # n}
  /\ job' = [t \in Thread |-> IF NodeOf(t) = n THEN << >> ELSE job[t]]
  /\ \E delivered \in BOOLEAN :
       call' = [t \in Thread |-> IF NodeOf(t) = n /\ ~delivered THEN NoCall ELSE call[t]]
  /\ user' = [user EXCEPT ![n] = Ready]
  /\ mishaps' = IF Quiet THEN mishaps ELSE mishaps \cup {"amid"}
  /\ UNCHANGED <<leader, held, got, service, map, asked, late, last, miscounted>>

Crash(n) ==
  /\ n \in alive /\ alive # {n}
  /\ Faults < MaxFaults
  /\ Gone(n)
  /\ UNCHANGED <<members, reported>>

\* A node that leaves is dropped from all lists without an event.
Leave(n) ==
  /\ n \in alive \ {leader} /\ alive # {n}
  /\ Faults < MaxFaults
  /\ Gone(n)
  /\ members' = members \ {n}
  /\ UNCHANGED reported

\* DMember reports a failed node.  Every DFileMaster starts a thread, one at a
\* time behind rereplicationMutex; where the map is empty it finds nothing to
\* do, so only the leader's and the next leader's is modelled.
Report(n) ==
  /\ n \in members \ (alive \cup reported)
  /\ reported' = reported \cup {n}
  /\ job' = [t \in Thread |->
               IF t[2] = "repair" /\ NodeOf(t) \in alive \cap {leader, Lowest(alive)}
               THEN Append(job[t], RepairTask({n})) ELSE job[t]]
  /\ UNCHANGED <<alive, members, leader, nodeVars, mail, map, call, noteVars>>

Erase(n) ==
  /\ n \in members \cap reported
  /\ members' = members \ {n}
  /\ UNCHANGED <<alive, reported, leader, nodeVars, mail, masterVars, noteVars>>

\* Mutant: every node starts a master.
ElectAll ==
  /\ leader \notin members
  /\ leader' = Lowest(alive)
  /\ job' = [t \in Thread |->
               IF t[2] = "start" /\ NodeOf(t) \in alive
               THEN Each(members, ListTask) \o <<RepairTask({})>> ELSE job[t]]
  /\ UNCHANGED <<alive, members, reported, nodeVars, mail, map, call, noteVars>>

\* The election after a failed leader was dropped; the new leader's start()
\* asks every member for its files and then replicates what lacks replicas.
Elect ==
  /\ leader \notin members
  /\ leader' = Lowest(alive)
  /\ job' = [job EXCEPT ![<<leader', "start">>] =
               Each(members, ListTask) \o <<RepairTask({})>>]
  /\ UNCHANGED <<alive, members, reported, nodeVars, mail, map, call, noteVars>>

Next ==
  \/ \E n \in Node :
       \/ \E op \in {"put", "get", "delete"}, f \in File : Ask(n, op, f)
       \/ GiveUp(n)
       \/ Copy(n)
       \/ Serve(n)
       \/ Obey(n)
       \/ Announce(n)
       \/ Crash(n)
       \/ Leave(n)
       \/ Report(n)
       \/ Erase(n)
  \/ \E t \in Thread : Work(t) \/ Return(t)
  \/ \E x \in fetches : Fetched(x)
  \/ Elect

\* What the threads, the users' receive timeouts (with the leader gone) and the
\* membership do; users, late replies, crashes and departures are not obliged.
System ==
  \/ \E n \in Node : \/ user[n] \notin mail /\ GiveUp(n)
                     \/ Copy(n) \/ Serve(n) \/ Obey(n) \/ Announce(n)
                     \/ Report(n) \/ Erase(n)
  \/ \E t \in Thread : Work(t) \/ Return(t)
  \/ \E x \in fetches : Fetched(x)
  \/ Elect

Fairness == WF_vars(System)

Spec == Init /\ [][Next]_vars /\ Fairness

-----------------------------------------------------------------------------
(* Properties *)

\* A thread that sends has somebody to send to; commands are to nodes.
TypeOK ==
  /\ alive \subseteq Node /\ members \subseteq Node /\ reported \subseteq Node
  /\ leader \in Node
  /\ held \in [Node -> SUBSET File]
  /\ disk \in [Node -> [File -> Content \cup {Absent}]]
  /\ got \in [Node -> [File -> Content \cup {Absent}]]
  /\ map \in [Node -> [Node -> SUBSET File]]
  /\ \A q \in mail : {q.from, q.to} \subseteq Node /\ q.file \in File
  /\ \A x \in fetches : x.file \in File /\ {x.from, x.to} \subseteq Node
  /\ \A t \in Thread : call[t] # NoCall => call[t].to \in Node
  /\ \A n \in Node : service[n].state = "sending" => service[n].targets \in (SUBSET Node) \ {{}}
  /\ asked \in 0 .. MaxRequests /\ late \in 0 .. MaxFaults
  /\ last \in [File -> {"none", "put", "delete"}]
  /\ mishaps \subseteq Mishap /\ miscounted \subseteq File

Departed == Node \ (alive \cup members \cup reported)
CopiesOf(f) == {n \in alive : f \in held[n]}

\* Replicas of a name are alike, and neither a replica nor what a get hands over is
\* junk, whatever puts compete for the name and whoever crashes at rest.
Intact ==
  Unmarred(Mishap) =>
    \A f \in File, n \in alive :
      /\ f \in held[n] => disk[n][f] \in Node
      /\ got[n][f] # Junk
      /\ \A k \in CopiesOf(f) : n \in CopiesOf(f) => disk[n][f] = disk[k][f]

\* At rest the list command ("list where file is replicated") names exactly
\* the nodes that hold the file, also after the master has changed.
MapTrue ==
  Quiet /\ Unmarred({"late", "hasty", "early", "crossed", "overtaken"}) =>
    \A f \in File : Holders(leader, f) = CopiesOf(f)

\* At rest a file that was put has all its replicas, also after a node that
\* held it, or the master, has failed, and not more unless two threads made some.
Kept ==
  Quiet /\ Unmarred({"late", "early", "amid"}) /\ Departed = {} =>
    \A f \in File : last[f] = "put" =>
      LET many == Cardinality(CopiesOf(f))
          due == Smaller(Cardinality(members), MaxReplicate) IN
      many >= due /\ (many = due \/ f \in miscounted)

\* At rest a file that was deleted is nowhere ("delete file from the file system").
Deleted ==
  Quiet /\ Unmarred({"late", "early", "crossed", "overtaken", "amid"}) =>
    \A f \in File : last[f] = "delete" => CopiesOf(f) = {}

\* Where a service thread waits, and nodes whose threads wait in a round.
WaitsFor(n) == IF service[n].state = "sending" THEN Lowest(service[n].targets) ELSE 0
Round(S) == S # {} /\ \A n \in S : WaitsFor(n) \in S \ (IF Cardinality(S) = 1 THEN {} ELSE {n})

\* A service thread waits for itself only to answer a get of its own user, and
\* two wait for each other only once a node is gone and files are replicated anew.
RoundsExplained ==
  /\ \A n \in alive : WaitsFor(n) = n => ~service[n].keep
  /\ \A S \in SUBSET alive : Cardinality(S) > 1 /\ Round(S) => alive # Node

Spinning ==
  {t \in Thread : NodeOf(t) \in alive /\ job[t] # << >> /\ Head(job[t]).do = "endless"}

\* replicateFile ends: its loops find targets and a source, unless a node has
\* left, one of four mishaps has made the map count what is not there, or two
\* threads that replicate the same file have made more replicas than are due.
Ends ==
  Departed = {} /\ Unmarred({"late", "early", "crossed", "amid"}) =>
    \A t \in Spinning : Head(job[t]).excess /\ Head(job[t]).file \in miscounted

\* A service thread only dies of the command of a master that has crashed:
\* the nodes never take the command of a live one for that of a stranger.
DiesOfTheDead ==
  \A n \in alive : service[n].state = "dead" =>
    \E t \in Thread : call[t].state = "refused" /\ call[t].to = n /\ NodeOf(t) \notin alive

\* Waits that never end: no command has a timeout.
Jammed ==
  \/ Spinning # {}
  \/ \E S \in SUBSET alive : Round(S)
  \/ \E n \in alive : service[n].state = "dead" \/ WaitsFor(n) \in Node \ alive
  \/ \E t \in Thread : NodeOf(t) \in alive /\ call[t] # NoCall /\ call[t].to \notin alive

\* Every command, put, get, deletion and repair ends, unless something of Jammed is there.
Settles == <>[](Jammed \/ \A t \in Thread : job[t] = << >>)
=============================================================================
