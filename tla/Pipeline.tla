------------------------------- MODULE Pipeline -------------------------------
(***************************************************************************)
(* What a topology does once it runs: the tuples that pass between the     *)
(* workers (daemon/src/worker/Worker.cpp, ChildImpl), from the input spout *)
(* through the bolts of user-code/WordCountTopology, for the topology that *)
(* Nimbus has from the client (Topology).                                  *)
(*                                                                         *)
(* A worker is a process: a thread that runs the user's code on inData and *)
(* fills outData, one that sends all of outData to the children of the     *)
(* task as one batch for each destination, and one that receives.  The     *)
(* queues grow without bound.  That START reaches the workers one after    *)
(* the other (Cluster) is not modelled: what is sent to one that has not   *)
(* begun waits for it, as for one that is slow.                            *)
(*                                                                         *)
(* Data: a text is a sequence of words, and a tuple the sequence of its    *)
(* fields: a text, and what the word count adds to it.                     *)
(***************************************************************************)
EXTENDS Topology
LOCAL Sets == INSTANCE FiniteSetsExt

CONSTANTS
  Runname,   \* Runname[t]: the class a task runs
  Files,     \* what the spout's file may hold: sequences of texts
  Hash,      \* Hash[text]: hashField
  MaxReads,  \* bound: lines read by a spout, those after the end included
  MaxKills   \* bound: workers killed

Text == DOMAIN Hash
ASSUME PipelineAssumption ==
  /\ Runname \in [Id -> {"InputSpout", "SplitSentenceBolt", "WordCountBolt", "PrinterBolt"}]
  /\ Files \subseteq Seq(Text) /\ << >> \in Text
  /\ \A text \in Text : Len(text) \in Nat /\ \A i \in 1 .. Len(text) : <<text[i]>> \in Text
  /\ Hash \in [Text -> Nat]
  /\ {MaxReads, MaxKills} \subseteq Nat

Place == 1 .. Sets!Max(Level \cup {DefaultLevel})
Process == Id \X Place

VARIABLES
  file,     \* the texts in the spout's file
  dead,     \* workers that were killed
  read,     \* read[w]: lines that a spout has read
  inData, outData,
  wire,     \* wire[c]: batches on the connection c
  counts,   \* counts[w][text] of WordCountBolt
  shown,    \* shown[w]: what PrinterBolt has written
  made, had \* made[t][text], had[t][text]: tuples that the workers of t put
            \* into outData, and took from inData, by their first field

queues == <<inData, outData, wire>>
vars == <<builderVars, file, dead, read, queues, counts, shown, made, had>>

TaskOf(w) == w[1]
Worker == {w \in Process : /\ TaskOf(w) \in stored.spouts \cup DOMAIN stored.bolts
                           /\ w[2] <= LevelOf(TaskOf(w))}
running == client = "started"
Live == IF running THEN Worker \ dead ELSE {}

\* A connection: of a worker, in a group, to an instance of the group's bolt.
Channel ==
  UNION {UNION {{<<w, g, <<g[1], i>>>> : i \in 1 .. LevelOf(g[1])} : g \in Groups(TaskOf(w))} :
           w \in Worker}
From(c) == c[1]
To(c) == c[3]

-----------------------------------------------------------------------------
(* User code *)

\* InputSpout::nextTuple: after the end of the file, empty lines.
NextTuple(n) == << IF n < Len(file) THEN file[n + 1] ELSE << >> >>

\* runOnTuple of SplitSentenceBolt and of WordCountBolt; a printer makes nothing.
SplitSentence(text) == [i \in 1 .. Len(text) |-> <<<<text[i]>>>>]
WordCount(w, text) == <<<<text, counts[w][text] + 1>>>>

RunOnTuple(w, tuple) ==
  CASE Runname[TaskOf(w)] = "SplitSentenceBolt" -> SplitSentence(tuple[1])
    [] Runname[TaskOf(w)] = "WordCountBolt" -> WordCount(w, tuple[1])
    [] OTHER -> << >>

Noting(log, t, tuples) ==
  [log EXCEPT ![t] = [text \in Text |->
     @[text] + Cardinality({i \in 1 .. Len(tuples) : tuples[i][1] = text})]]

-----------------------------------------------------------------------------
StreamInit ==
  /\ file = << >> /\ dead = {}
  /\ read = [w \in Process |-> 0]
  /\ inData = [w \in Process |-> << >>] /\ outData = [w \in Process |-> << >>]
  /\ wire = Empty
  /\ counts = [w \in Process |-> [text \in Text |-> 0]]
  /\ shown = [w \in Process |-> << >>]
  /\ made = [t \in Id |-> [text \in Text |-> 0]] /\ had = [t \in Id |-> [text \in Text |-> 0]]

\* Mutant: the workers are started without connections.
StartUnconnected ==
  /\ client = "submitted"
  /\ client' = "started"
  /\ file' \in Files
  /\ UNCHANGED <<nodes, queue, boltMap, stored>>
  /\ UNCHANGED <<dead, read, queues, counts, shown, made, had>>

\* Nimbus has prepared the topology: configureConnections at every worker, then START.
StartProcessing ==
  /\ client = "submitted"
  /\ client' = "started"
  /\ file' \in Files
  /\ wire' = [c \in Channel |-> << >>]
  /\ UNCHANGED <<nodes, queue, boltMap, stored>>
  /\ UNCHANGED <<dead, read, inData, outData, counts, shown, made, had>>

\* dataProcessThread of a spout.
Spout(w) ==
  /\ w \in Live /\ TaskOf(w) \in stored.spouts
  /\ read[w] < MaxReads
  /\ read' = [read EXCEPT ![w] = @ + 1]
  /\ outData' = [outData EXCEPT ![w] = Append(@, NextTuple(read[w]))]
  /\ made' = Noting(made, TaskOf(w), <<NextTuple(read[w])>>)
  /\ UNCHANGED <<builderVars, file, dead, inData, wire, counts, shown, had>>

\* dataProcessThread of a bolt, one tuple.
Bolt(w) ==
  /\ w \in Live /\ TaskOf(w) \notin stored.spouts
  /\ inData[w] # << >>
  /\ LET tuple == Head(inData[w])
         t == TaskOf(w) IN
     /\ inData' = [inData EXCEPT ![w] = Tail(@)]
     /\ outData' = [outData EXCEPT ![w] = @ \o RunOnTuple(w, tuple)]
     /\ counts' = IF Runname[t] = "WordCountBolt"
                  THEN [counts EXCEPT ![w][tuple[1]] = @ + 1] ELSE counts
     /\ shown' = IF Runname[t] = "PrinterBolt"
                 THEN [shown EXCEPT ![w] = Append(@, tuple)] ELSE shown
     /\ made' = Noting(made, t, RunOnTuple(w, tuple))
     /\ had' = Noting(had, t, <<tuple>>)
  /\ UNCHANGED <<builderVars, file, dead, read, wire>>

\* parseGroupingString returns nothing for another string than these two: any
\* value may come out, one of theirs or none of them.
Schemes(grouping) ==
  CASE grouping = "shuffle" -> {"shuffle"}
    [] grouping = "field" -> {"field"}
    [] OTHER -> {"shuffle", "field", "none"}

\* The index of the connection for a tuple, in a group to bolt b.
Destination(b, tuple) == (Hash[tuple[1]] % LevelOf(b)) + 1

\* Mutant: where the first tuple of a batch belongs, all of it goes.
BatchByFirst(g, i, scheme, pick, batch) ==
  CASE scheme = "shuffle" -> IF i = pick THEN batch ELSE << >>
    [] scheme = "field" -> IF batch # << >> /\ Destination(g[1], batch[1]) = i
                           THEN batch ELSE << >>
    [] OTHER -> << >>

\* What goes to the i-th instance of group g: the whole batch to the one picked
\* at random, or the tuples whose first field belongs there.
BatchTo(g, i, scheme, pick, batch) ==
  CASE scheme = "shuffle" -> IF i = pick THEN batch ELSE << >>
    [] scheme = "field" -> Picked(batch, {k \in 1 .. Len(batch) : Destination(g[1], batch[k]) = i})
    [] OTHER -> << >>

\* Mutant: what was sent stays in outData.
SendBatchAgain(w) ==
  /\ w \in Live /\ outData[w] # << >>
  /\ LET mine == Groups(TaskOf(w)) IN
     \E pick \in [mine -> Place] :
       /\ \A g \in mine : pick[g] <= LevelOf(g[1])
       /\ wire' = [c \in DOMAIN wire |->
            LET batch == BatchTo(c[2], To(c)[2], Grouping(c[2]), pick[c[2]], outData[w]) IN
            IF From(c) = w /\ batch # << >> THEN Append(wire[c], batch) ELSE wire[c]]
  /\ UNCHANGED <<builderVars, file, dead, read, inData, outData, counts, shown, made, had>>

\* Mutant: a single tuple waits for another one.
SendBatchOfTwo(w) ==
  /\ w \in Live /\ Len(outData[w]) > 1
  /\ LET mine == Groups(TaskOf(w)) IN
     \E pick \in [mine -> Place] :
       /\ \A g \in mine : pick[g] <= LevelOf(g[1])
       /\ wire' = [c \in DOMAIN wire |->
            LET batch == BatchTo(c[2], To(c)[2], Grouping(c[2]), pick[c[2]], outData[w]) IN
            IF From(c) = w /\ batch # << >> THEN Append(wire[c], batch) ELSE wire[c]]
  /\ outData' = [outData EXCEPT ![w] = << >>]
  /\ UNCHANGED <<builderVars, file, dead, read, inData, counts, shown, made, had>>

\* dataSendThread: all that is in outData, to every group.
SendBatch(w) ==
  /\ w \in Live /\ outData[w] # << >>
  /\ LET mine == Groups(TaskOf(w)) IN
     \E scheme \in [mine -> {"shuffle", "field", "none"}], pick \in [mine -> Place] :
       /\ \A g \in mine : scheme[g] \in Schemes(Grouping(g)) /\ pick[g] <= LevelOf(g[1])
       /\ \A g \in mine : scheme[g] # "shuffle" => pick[g] = 1
       /\ wire' = [c \in DOMAIN wire |->
            LET batch == BatchTo(c[2], To(c)[2], scheme[c[2]], pick[c[2]], outData[w]) IN
            IF From(c) = w /\ batch # << >> THEN Append(wire[c], batch) ELSE wire[c]]
  /\ outData' = [outData EXCEPT ![w] = << >>]
  /\ UNCHANGED <<builderVars, file, dead, read, inData, counts, shown, made, had>>

\* Mutant: what comes last is handled first.
ReceiveInFront(c) ==
  /\ To(c) \in Live /\ wire[c] # << >>
  /\ wire' = [wire EXCEPT ![c] = Tail(@)]
  /\ inData' = [inData EXCEPT ![To(c)] = Head(wire[c]) \o @]
  /\ UNCHANGED <<builderVars, file, dead, read, outData, counts, shown, made, had>>

\* dataReceiveThread, pushTuples.
Receive(c) ==
  /\ To(c) \in Live /\ wire[c] # << >>
  /\ wire' = [wire EXCEPT ![c] = Tail(@)]
  /\ inData' = [inData EXCEPT ![To(c)] = @ \o Head(wire[c])]
  /\ UNCHANGED <<builderVars, file, dead, read, outData, counts, shown, made, had>>

\* KILL, which ends the process (exit), or a crash of the node: what it had is
\* gone, and of what it sent the last batches may be.
Kill(w) ==
  /\ w \in Live
  /\ Cardinality(dead) < MaxKills
  /\ dead' = dead \cup {w}
  /\ LET sent == {c \in DOMAIN wire : From(c) = w /\ wire[c] # << >>} IN
     \E left \in [sent -> UNION {0 .. Len(wire[c]) : c \in sent}] :
       /\ \A c \in sent : left[c] <= Len(wire[c])
       /\ wire' = [c \in DOMAIN wire |->
            CASE To(c) = w -> << >>
              [] c \in sent /\ To(c) # w -> SubSeq(wire[c], 1, left[c])
              [] OTHER -> wire[c]]
  /\ inData' = [inData EXCEPT ![w] = << >>]
  /\ outData' = [outData EXCEPT ![w] = << >>]
  /\ UNCHANGED <<builderVars, file, read, counts, shown, made, had>>

Work == \/ \E w \in Process : Spout(w) \/ Bolt(w) \/ SendBatch(w)
        \/ \E c \in DOMAIN wire : Receive(c)

PipelineInit == Init /\ StreamInit

Next ==
  \/ Describe /\ UNCHANGED <<file, dead, read, queues, counts, shown, made, had>>
  \/ StartProcessing
  \/ Work
  \/ \E w \in Process : Kill(w)

\* The threads of the workers go on.
Fairness == WF_vars(Work)

Spec == PipelineInit /\ [][Next]_vars /\ Fairness

-----------------------------------------------------------------------------
(* Properties *)

\* Connections are those of the groups; nobody has more than it can have.
TypeOK ==
  /\ client \in {"building", "collecting", "submitted", "started", "aborted"}
  /\ running => DOMAIN wire = Channel
  /\ dead \subseteq Worker
  /\ read \in [Process -> 0 .. MaxReads]
  /\ \A w \in Process :
       /\ w \notin Live => inData[w] = << >> /\ outData[w] = << >>
       /\ \A i \in 1 .. Len(inData[w]) : inData[w][i][1] \in Text
       /\ \A i \in 1 .. Len(outData[w]) : outData[w][i][1] \in Text
  /\ counts \in [Process -> [Text -> Nat]]
  /\ {made, had} \subseteq [Id -> [Text -> Nat]]

CallsFor(b) == {c \in Calls : Edge(c)[1] = b}
Defined(b) == \A c \in CallsFor(b) : Edge(c)[2] \in {"shuffle", "field"}
ByField(b) == \A c \in CallsFor(b) : Edge(c)[2] = "field"

\* What the parents of b have made, once for each call.
Owed(b, text) == Sets!MapThenSumSet(LAMBDA c : made[c[1]][text], CallsFor(b))

Drained == running /\ \A w \in Process : inData[w] = << >> /\ outData[w] = << >>
                   /\ \A c \in DOMAIN wire : wire[c] = << >>

\* A bolt handles each tuple of a parent at most once for each setParent of the
\* program, whoever is killed, and exactly once at rest if nobody was.
ExactlyOnce ==
  running => \A b \in DOMAIN stored.bolts, text \in Text :
    /\ had[b][text] <= Owed(b, text)
    /\ Drained /\ dead = {} /\ Defined(b) => had[b][text] = Owed(b, text)

\* Field grouping: tuples with the same first field meet at one instance of a
\* bolt, whichever parent and worker they come from.
Together ==
  \A b \in Id, text \in Text : ByField(b) =>
    Cardinality({w \in Process : TaskOf(w) = b /\ counts[w][text] > 0}) <= 1

\* The only parent of p is a word count, and both group by field.
PrintsCounts(p) ==
  SpoutsFirst /\ \E c \in Calls :
    /\ CallsFor(p) = {c} /\ ByField(p) /\ ByField(c[1])
    /\ Runname[c[1]] = "WordCountBolt" /\ c[1] \notin SpoutsAsked

\* The counts of a text that a printer has written are 1, 2, 3, ..., also when
\* workers were killed, if it prints what one word count sends it by field.
InOrder ==
  running => \A w \in Worker, text \in Text :
    LET of == Picked(shown[w], {k \in 1 .. Len(shown[w]) : shown[w][k][1] = text}) IN
    PrintsCounts(TaskOf(w)) => \A k \in 1 .. Len(of) : of[k][2] = k

\* Every tuple arrives: a running topology of which nothing is killed reads its
\* lines and comes to rest.
Finishes ==
  running ~> \/ dead # {}
             \/ Drained /\ \A w \in Worker : TaskOf(w) \in stored.spouts => read[w] = MaxReads
=============================================================================
