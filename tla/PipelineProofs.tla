--------------------------- MODULE PipelineProofs ---------------------------
(***************************************************************************)
(* What holds of Pipeline for every program, input, hash, level, number of *)
(* reads and whatever workers are killed:                                  *)
(*   SpecArrives    Nimbus gets the topology that was asked for            *)
(*   TypeCorrect    the types                                              *)
(*   FieldsMeet     field grouping: a text is counted by one instance      *)
(*   CountsInOrder  a printer shows the counts of a text one after another *)
(* The first rests on the search of TopologyProofs.  The second is         *)
(* inductive with the tree of the builder.  For the third the tuples of a  *)
(* field group are followed from the wire to the counts (PlacedInv).  For  *)
(* the last the numbers of a text are followed from what the printer shows *)
(* over what it has received, batch by batch of its one connection, to     *)
(* what the word count has to send (CountedInv).                           *)
(***************************************************************************)
EXTENDS Pipeline, TopologyProofs

-----------------------------------------------------------------------------
(* What the client sends arrives *)

\* A step of the pipeline is one of the builder, or starts the processing, or leaves the builder alone.
LEMMA PipelineBuilder ==
  [Next]_vars =>
    \/ Describe
    \/ client = "submitted" /\ client' = "started" /\ UNCHANGED <<nodes, queue, boltMap, stored>>
    \/ UNCHANGED builderVars
<1> SUFFICES ASSUME [Next]_vars
             PROVE  \/ Describe
                    \/ client = "submitted" /\ client' = "started"
                         /\ UNCHANGED <<nodes, queue, boltMap, stored>>
                    \/ UNCHANGED builderVars
  OBVIOUS
<1>1. CASE StartProcessing
  BY <1>1 DEF StartProcessing
<1>2. CASE Work
  BY <1>2 DEF Work, Spout, Bolt, SendBatch, Receive
<1>3. ASSUME NEW w \in Process, Kill(w) PROVE UNCHANGED builderVars
  BY <1>3 DEF Kill
<1>4. CASE UNCHANGED vars
  BY <1>4 DEF vars
<1> QED BY <1>1, <1>2, <1>3, <1>4 DEF Next

\* The builder's tree is one, whatever the program calls.
LEMMA TreeAlways == Spec => []TreeInv
<1>1. PipelineInit => TreeInv
  BY TreeInit DEF PipelineInit
<1>2. TreeInv /\ [Next]_vars => TreeInv'
  <2> SUFFICES ASSUME TreeInv, [Next]_vars PROVE TreeInv'
    OBVIOUS
  <2> QED BY PipelineBuilder, TreeStep, TreeStutter, StartStep
<1> QED BY <1>1, <1>2, PTL DEF Spec

\* So is the order in which buildTopology collects it, if no call names the root as a task.
LEMMA SearchAlways == RootApart => (Spec => [](TreeInv /\ SearchInv))
<1> SUFFICES ASSUME RootApart PROVE Spec => [](TreeInv /\ SearchInv)
  OBVIOUS
<1>1. PipelineInit => TreeInv /\ SearchInv
  BY TreeInit, SearchInit DEF PipelineInit
<1>2. TreeInv /\ SearchInv /\ [Next]_vars => SearchInv'
  <2> SUFFICES ASSUME TreeInv, SearchInv, [Next]_vars PROVE SearchInv'
    OBVIOUS
  <2> QED BY PipelineBuilder, SearchStep
<1>3. TreeInv /\ [Next]_vars => TreeInv'
  <2> SUFFICES ASSUME TreeInv, [Next]_vars PROVE TreeInv'
    OBVIOUS
  <2> QED BY PipelineBuilder, TreeStep, TreeStutter, StartStep
<1> QED BY <1>1, <1>2, <1>3, PTL DEF Spec

\* Whatever the program calls, in whatever order: if it makes no spout the child of
\* a task, and does not name the root, Nimbus gets the bolts that the spouts reach,
\* with their parents and levels.
THEOREM SpecArrives == RootApart => (Spec => []SpecAsBuilt)
<1>1. TreeInv /\ SearchInv => SpecAsBuilt
  BY DEF SearchInv
<1> QED BY <1>1, SearchAlways, PTL

-----------------------------------------------------------------------------
(* What is fixed while the topology runs *)

\* With the variables of the builder, all that is read from them stays.
LEMMA Steady ==
  ASSUME UNCHANGED builderVars
  PROVE  /\ running' = running /\ Worker' = Worker /\ Channel' = Channel
         /\ SpoutsAsked' = SpoutsAsked /\ Calls' = Calls
         /\ (\A c : Edge(c)' = Edge(c)) /\ (\A b : CallsFor(b)' = CallsFor(b))
         /\ (\A b : ByField(b)' = ByField(b)) /\ (\A b : LevelOf(b)' = LevelOf(b))
         /\ (\A p : Groups(p)' = Groups(p)) /\ (\A b, tuple : Destination(b, tuple)' = Destination(b, tuple))
         /\ (\A b : PrintsCounts(b)' = PrintsCounts(b))
BY DEF builderVars, running, Worker, Channel, SpoutsAsked, Calls, Known, Edge, CallsFor, ByField,
   LevelOf, Groups, TaskOf, Destination, PrintsCounts, SpoutsFirst

\* A group is a parent of a bolt that Nimbus has, and the program asked for it.
LEMMA GroupParts ==
  ASSUME TreeInv, running, NEW p, NEW g \in Groups(p)
  PROVE  /\ g[1] \in DOMAIN stored.bolts /\ g[1] \in Known
         /\ g[2] \in 1 .. Len(stored.bolts[g[1]].parents) /\ g = <<g[1], g[2]>>
         /\ stored.bolts[g[1]].parents[g[2]][1] = p
         /\ \E c \in CallsFor(g[1]) : c[1] = p /\ Edge(c) = <<g[1], Grouping(g)>>
         /\ ByField(g[1]) => Grouping(g) = "field"
<1>1. /\ g[1] \in DOMAIN stored.bolts
      /\ g[2] \in 1 .. Len(stored.bolts[g[1]].parents) /\ g = <<g[1], g[2]>>
      /\ stored.bolts[g[1]].parents[g[2]][1] = p
  BY DEF Groups
<1>2. /\ g[1] \in DOMAIN boltMap /\ stored.bolts[g[1]].parents = boltMap[g[1]].parents
      /\ DOMAIN boltMap \subseteq Known
  BY <1>1 DEF TreeInv, StoredOK, running, BuildOK
<1>3. PICK c \in Calls : c[1] = p /\ Edge(c) = <<g[1], Grouping(g)>>
  BY <1>1, <1>2 DEF TreeInv, EntriesAsked, Grouping
<1>4. c \in CallsFor(g[1])
  BY <1>3 DEF CallsFor
<1>5. ByField(g[1]) => Grouping(g) = "field"
  BY <1>3, <1>4 DEF ByField
<1> QED BY <1>1, <1>2, <1>3, <1>4, <1>5

\* A connection goes from a worker of a parent to an instance of the bolt.
LEMMA ChannelParts ==
  ASSUME NEW c \in Channel
  PROVE  /\ From(c) \in Worker /\ c[2] \in Groups(TaskOf(From(c)))
         /\ To(c)[1] = c[2][1] /\ To(c)[2] \in 1 .. LevelOf(c[2][1])
         /\ c = <<From(c), c[2], To(c)>> /\ To(c) = <<To(c)[1], To(c)[2]>>
BY DEF Channel, From, To

\* A worker is a process of a task that is known.
LEMMA WorkerParts ==
  ASSUME NEW w \in Worker
  PROVE  /\ w \in Process /\ TaskOf(w) \in Id /\ w = <<TaskOf(w), w[2]>>
         /\ TaskOf(w) \in stored.spouts \cup DOMAIN stored.bolts
BY DEF Worker, Process, TaskOf

\* The tuples of these programs.
Tuple == {<<text>> : text \in Text} \cup (Text \X Nat)

\* A tuple's first field is a text, and the second, if there is one, its count.
LEMMA TupleParts ==
  /\ \A tuple \in Tuple : tuple[1] \in Text
  /\ \A text \in Text : <<text>> \in Tuple /\ <<text>>[1] = text
  /\ \A text \in Text, n \in Nat : <<text, n>> \in Tuple /\ <<text, n>>[1] = text /\ <<text, n>>[2] = n
BY DEF Tuple

-----------------------------------------------------------------------------
(* Types *)

\* What every variable of the pipeline holds; who does not live has empty queues, and
\* nothing is there before the workers run.
StreamType ==
  /\ dead \subseteq Worker
  /\ file \in Seq(Text)
  /\ read \in [Process -> 0 .. MaxReads]
  /\ inData \in [Process -> Seq(Tuple)] /\ outData \in [Process -> Seq(Tuple)]
  /\ shown \in [Process -> Seq(Tuple)]
  /\ counts \in [Process -> [Text -> Nat]]
  /\ made \in [Id -> [Text -> Nat]] /\ had \in [Id -> [Text -> Nat]]
  /\ \A w \in Process : w \notin Live => inData[w] = << >> /\ outData[w] = << >>
  /\ running => wire \in [Channel -> Seq(Seq(Tuple))]
  /\ ~running => StreamInit

\* What the user's code makes of a tuple.
LEMMA MadeTuples ==
  ASSUME NEW w \in Process, NEW tuple \in Tuple, counts \in [Process -> [Text -> Nat]]
  PROVE  RunOnTuple(w, tuple) \in Seq(Tuple)
<1>1. tuple[1] \in Text /\ TaskOf(w) \in Id
  BY TupleParts DEF Process, TaskOf
<1>2. SplitSentence(tuple[1]) \in Seq(Tuple)
  <2> DEFINE text == tuple[1]
  <2>1. Len(text) \in Nat /\ \A i \in 1 .. Len(text) : <<<<text[i]>>>> \in Tuple
    BY <1>1, PipelineAssumption DEF PipelineAssumption, Tuple
  <2> QED BY <2>1 DEF SplitSentence
<1>3. WordCount(w, tuple[1]) \in Seq(Tuple)
  <2> DEFINE n == counts[w][tuple[1]] + 1
  <2>1. n \in Nat
    BY <1>1
  <2> HIDE DEF n
  <2>2. <<tuple[1], n>> \in Tuple
    BY <1>1, <2>1, TupleParts
  <2>3. <<<<tuple[1], n>>>> \in Seq(Tuple)
    BY <2>2
  <2> QED BY <2>3 DEF WordCount, n
<1> QED BY <1>2, <1>3 DEF RunOnTuple

\* Notes of the texts that were made or had are counts.
LEMMA NotingType ==
  ASSUME NEW log \in [Id -> [Text -> Nat]], NEW t \in Id, NEW tuples \in Seq(Tuple)
  PROVE  Noting(log, t, tuples) \in [Id -> [Text -> Nat]]
<1>1. ASSUME NEW text \in Text
      PROVE  Cardinality({i \in 1 .. Len(tuples) : tuples[i][1] = text}) \in Nat
  <2> DEFINE I == {i \in 1 .. Len(tuples) : tuples[i][1] = text}
  <2>1. Len(tuples) \in Nat /\ I \in SUBSET (1 .. Len(tuples))
    OBVIOUS
  <2> HIDE DEF I
  <2>2. Cardinality(I) \in Nat
    BY <2>1, Ranks
  <2> QED BY <2>2 DEF I
<1> QED BY <1>1 DEF Noting

\* What a group picks of a batch is a batch.
LEMMA BatchType ==
  ASSUME NEW g, NEW i, NEW scheme, NEW pick, NEW batch \in Seq(Tuple)
  PROVE  BatchTo(g, i, scheme, pick, batch) \in Seq(Tuple)
<1> DEFINE I == {k \in 1 .. Len(batch) : Destination(g[1], batch[k]) = i}
<1>1. I \in SUBSET (1 .. Len(batch)) /\ << >> \in Seq(Tuple)
  OBVIOUS
<1>2. Picked(batch, I) \in Seq(Tuple)
  <2> HIDE DEF I
  <2> QED BY <1>1, PickedProperties
<1> QED BY <1>2 DEF BatchTo

\* Before the workers run, nothing has happened to them.
LEMMA IdleType ==
  ASSUME StreamInit, ~running
  PROVE  StreamType
<1>1. 0 \in 0 .. MaxReads
  BY PipelineAssumption DEF PipelineAssumption
<1>2. << >> \in Seq(Tuple) /\ << >> \in Seq(Text)
  OBVIOUS
<1> QED BY <1>1, <1>2 DEF StreamInit, StreamType

\* Each step keeps the types: the workers are started, ...
LEMMA TypeStart ==
  ASSUME StreamType, StartProcessing
  PROVE  StreamType'
<1>1. ~running /\ running' /\ StreamInit
  BY DEF StreamType, StartProcessing, running
<1>2. Channel' = Channel /\ Worker' = Worker
  BY DEF StartProcessing, Channel, Worker, Groups, LevelOf, TaskOf
<1>3. wire' \in [Channel -> Seq(Seq(Tuple))]
  <2>1. << >> \in Seq(Seq(Tuple))
    OBVIOUS
  <2> QED BY <2>1 DEF StartProcessing
<1>4. file' \in Seq(Text)
  BY PipelineAssumption DEF PipelineAssumption, StartProcessing
<1>5. \A w \in Process : inData'[w] = << >> /\ outData'[w] = << >>
  BY <1>1 DEF StreamInit, StartProcessing
<1> QED BY <1>1, <1>2, <1>3, <1>4, <1>5 DEF StreamType, StartProcessing

\* ... a spout reads a line, ...
LEMMA TypeSpout ==
  ASSUME StreamType, NEW w \in Process, Spout(w)
  PROVE  StreamType'
<1>1. running /\ running' /\ Channel' = Channel /\ Worker' = Worker /\ Live' = Live
  BY Steady DEF Spout, Live
<1>2. read[w] \in 0 .. MaxReads /\ MaxReads \in Nat /\ TaskOf(w) \in Id
  BY PipelineAssumption DEF PipelineAssumption, StreamType, Process, TaskOf
<1>3. NextTuple(read[w]) \in Tuple
  <2>1. << >> \in Text
    BY PipelineAssumption DEF PipelineAssumption
  <2>2. read[w] < Len(file) => file[read[w] + 1] \in Text
    BY <1>2 DEF StreamType
  <2> QED BY <2>1, <2>2 DEF NextTuple, Tuple
<1>4. Append(outData[w], NextTuple(read[w])) \in Seq(Tuple) /\ <<NextTuple(read[w])>> \in Seq(Tuple)
  BY <1>3 DEF StreamType
<1>5. made' \in [Id -> [Text -> Nat]]
  <2> DEFINE tuples == <<NextTuple(read[w])>>
  <2>1. tuples \in Seq(Tuple) /\ made' = Noting(made, TaskOf(w), tuples)
    BY <1>4 DEF Spout
  <2> HIDE DEF tuples
  <2> QED BY <1>2, <2>1, NotingType DEF StreamType
<1>6. read' \in [Process -> 0 .. MaxReads]
  <2>1. read[w] + 1 \in 0 .. MaxReads
    BY <1>2 DEF Spout
  <2> QED BY <2>1 DEF Spout, StreamType
<1>7. outData' \in [Process -> Seq(Tuple)]
      /\ \A v \in Process : v \notin Live => outData'[v] = << >>
  BY <1>4 DEF Spout, StreamType
<1> QED BY <1>1, <1>5, <1>6, <1>7 DEF StreamType, Spout

\* ... a bolt runs on a tuple, ...
LEMMA TypeBolt ==
  ASSUME StreamType, NEW w \in Process, Bolt(w)
  PROVE  StreamType'
<1> DEFINE tuple == Head(inData[w])
           t == TaskOf(w)
<1>1. running /\ running' /\ Channel' = Channel /\ Worker' = Worker /\ Live' = Live
  BY Steady DEF Bolt, Live
<1>2. tuple \in Tuple /\ Tail(inData[w]) \in Seq(Tuple) /\ t \in Id /\ tuple[1] \in Text
  <2>1. inData[w] \in Seq(Tuple) /\ inData[w] # << >>
    BY DEF StreamType, Bolt
  <2>2. tuple \in Tuple /\ Tail(inData[w]) \in Seq(Tuple)
    BY <2>1
  <2> QED BY <2>2, TupleParts DEF Process, TaskOf
<1> HIDE DEF tuple
<1>3. RunOnTuple(w, tuple) \in Seq(Tuple)
  BY <1>2, MadeTuples DEF StreamType
<1>4. /\ inData' = [inData EXCEPT ![w] = Tail(inData[w])]
      /\ outData' = [outData EXCEPT ![w] = outData[w] \o RunOnTuple(w, tuple)]
      /\ counts' = IF Runname[t] = "WordCountBolt"
                   THEN [counts EXCEPT ![w] = [counts[w] EXCEPT ![tuple[1]] = counts[w][tuple[1]] + 1]]
                   ELSE counts
      /\ shown' = IF Runname[t] = "PrinterBolt"
                  THEN [shown EXCEPT ![w] = Append(shown[w], tuple)] ELSE shown
      /\ made' = Noting(made, t, RunOnTuple(w, tuple))
      /\ had' = Noting(had, t, <<tuple>>)
  BY DEF Bolt, tuple
<1>5. made' \in [Id -> [Text -> Nat]]
  BY <1>2, <1>3, <1>4, NotingType DEF StreamType
<1>6. had' \in [Id -> [Text -> Nat]]
  <2> DEFINE tuples == <<tuple>>
  <2>1. tuples \in Seq(Tuple) /\ had' = Noting(had, t, tuples)
    BY <1>2, <1>4
  <2> HIDE DEF tuples
  <2> QED BY <1>2, <2>1, NotingType DEF StreamType
<1>7. counts' \in [Process -> [Text -> Nat]]
  <2>1. counts[w] \in [Text -> Nat] /\ counts[w][tuple[1]] + 1 \in Nat
    BY <1>2 DEF StreamType
  <2>2. [counts[w] EXCEPT ![tuple[1]] = counts[w][tuple[1]] + 1] \in [Text -> Nat]
    BY <2>1
  <2> QED BY <1>4, <2>2 DEF StreamType
<1>8. outData[w] \o RunOnTuple(w, tuple) \in Seq(Tuple) /\ Append(shown[w], tuple) \in Seq(Tuple)
  BY <1>2, <1>3 DEF StreamType
<1>9. /\ inData' \in [Process -> Seq(Tuple)] /\ outData' \in [Process -> Seq(Tuple)]
      /\ shown' \in [Process -> Seq(Tuple)]
  BY <1>2, <1>4, <1>8 DEF StreamType
<1>10. \A v \in Process : v \notin Live => inData'[v] = << >> /\ outData'[v] = << >>
  BY <1>4 DEF Bolt, StreamType
<1> QED BY <1>1, <1>5, <1>6, <1>7, <1>9, <1>10 DEF StreamType, Bolt

\* ... a worker sends what it has, ...
LEMMA TypeSend ==
  ASSUME StreamType, NEW w \in Process, SendBatch(w)
  PROVE  StreamType'
<1>1. running /\ running' /\ Channel' = Channel /\ Worker' = Worker /\ Live' = Live
  BY Steady DEF SendBatch, Live
<1>2. PICK scheme \in [Groups(TaskOf(w)) -> {"shuffle", "field", "none"}],
           pick \in [Groups(TaskOf(w)) -> Place] :
        wire' = [c \in DOMAIN wire |->
            LET batch == BatchTo(c[2], To(c)[2], scheme[c[2]], pick[c[2]], outData[w]) IN
            IF From(c) = w /\ batch # << >> THEN Append(wire[c], batch) ELSE wire[c]]
  BY DEF SendBatch
<1>3. wire' \in [Channel -> Seq(Seq(Tuple))]
  <2>1. ASSUME NEW c \in Channel
        PROVE  Append(wire[c], BatchTo(c[2], To(c)[2], scheme[c[2]], pick[c[2]], outData[w])) \in Seq(Seq(Tuple))
    <3> DEFINE batch == BatchTo(c[2], To(c)[2], scheme[c[2]], pick[c[2]], outData[w])
    <3>1. batch \in Seq(Tuple)
      BY BatchType DEF StreamType
    <3>2. wire[c] \in Seq(Seq(Tuple))
      BY <1>1 DEF StreamType
    <3> HIDE DEF batch
    <3>3. Append(wire[c], batch) \in Seq(Seq(Tuple))
      BY <3>1, <3>2
    <3> QED BY <3>3 DEF batch
  <2> QED BY <1>1, <1>2, <2>1 DEF StreamType
<1>4. outData' \in [Process -> Seq(Tuple)] /\ \A v \in Process : v \notin Live => outData'[v] = << >>
  BY DEF SendBatch, StreamType
<1> QED BY <1>1, <1>3, <1>4 DEF StreamType, SendBatch

\* ... a batch is received, ...
LEMMA TypeReceive ==
  ASSUME StreamType, NEW c \in DOMAIN wire, Receive(c)
  PROVE  StreamType'
<1>1. running /\ running' /\ Channel' = Channel /\ Worker' = Worker /\ Live' = Live
  BY Steady DEF Receive, Live
<1>2. /\ wire \in [Channel -> Seq(Seq(Tuple))] /\ wire[c] # << >>
      /\ Head(wire[c]) \in Seq(Tuple) /\ Tail(wire[c]) \in Seq(Seq(Tuple))
  <2>1. wire \in [Channel -> Seq(Seq(Tuple))] /\ wire[c] # << >>
    BY <1>1 DEF StreamType, Receive
  <2>2. wire[c] \in Seq(Seq(Tuple))
    BY <2>1
  <2> QED BY <2>1, <2>2
<1>3. wire' \in [Channel -> Seq(Seq(Tuple))]
  BY <1>2 DEF Receive
<1>4. inData[To(c)] \o Head(wire[c]) \in Seq(Tuple)
  <2>1. To(c) \in Process
    BY DEF Receive, Live, Worker
  <2> QED BY <1>2, <2>1 DEF StreamType
<1>5. inData' \in [Process -> Seq(Tuple)] /\ \A v \in Process : v \notin Live => inData'[v] = << >>
  BY <1>4 DEF Receive, StreamType
<1> QED BY <1>1, <1>3, <1>5 DEF StreamType, Receive

\* ... a worker is killed.
LEMMA TypeKill ==
  ASSUME StreamType, NEW w \in Process, Kill(w)
  PROVE  StreamType'
<1>1. running /\ running' /\ Channel' = Channel /\ Worker' = Worker /\ w \in Worker
  BY Steady DEF Kill, Live
<1>2. Live' = Live \ {w} /\ dead' \subseteq Worker
  BY <1>1 DEF Kill, Live, StreamType
<1> DEFINE sent == {c \in DOMAIN wire : From(c) = w /\ wire[c] # << >>}
<1>3. PICK left \in [sent -> UNION {0 .. Len(wire[c]) : c \in sent}] :
        /\ \A c \in sent : left[c] <= Len(wire[c])
        /\ wire' = [c \in DOMAIN wire |->
             CASE To(c) = w -> << >>
               [] c \in sent /\ To(c) # w -> SubSeq(wire[c], 1, left[c])
               [] OTHER -> wire[c]]
  BY DEF Kill
<1>4. wire \in [Channel -> Seq(Seq(Tuple))]
  BY <1>1 DEF StreamType
<1>5. ASSUME NEW c \in sent PROVE SubSeq(wire[c], 1, left[c]) \in Seq(Seq(Tuple))
  <2>1. left[c] \in Int /\ left[c] <= Len(wire[c]) /\ wire[c] \in Seq(Seq(Tuple))
    BY <1>3, <1>4
  <2> HIDE DEF sent
  <2> QED BY <2>1
<1>6. wire' \in [Channel -> Seq(Seq(Tuple))]
  <2>1. << >> \in Seq(Seq(Tuple))
    OBVIOUS
  <2> HIDE DEF sent
  <2> QED BY <1>3, <1>4, <1>5, <2>1
<1>7. inData' \in [Process -> Seq(Tuple)] /\ outData' \in [Process -> Seq(Tuple)]
      /\ \A v \in Process : v \notin Live' => inData'[v] = << >> /\ outData'[v] = << >>
  BY <1>2 DEF Kill, StreamType
<1> QED BY <1>1, <1>2, <1>6, <1>7 DEF StreamType, Kill

\* Every step keeps the types.
LEMMA TypeStep ==
  ASSUME TreeInv, StreamType, [Next]_vars
  PROVE  StreamType'
<1>1. CASE Describe /\ UNCHANGED <<file, dead, read, queues, counts, shown, made, had>>
  <2>1. ~running /\ ~running'
    BY <1>1 DEF running, Describe, SetSpout, SetBolt, SetNode, SetParent, Build, Collect, Submit
  <2>2. StreamInit'
    BY <1>1, <2>1 DEF StreamType, StreamInit, queues
  <2>3. StreamType'
    <3>1. 0 \in 0 .. MaxReads /\ << >> \in Seq(Tuple) /\ << >> \in Seq(Text)
      BY PipelineAssumption DEF PipelineAssumption
    <3> QED BY <2>1, <2>2, <3>1 DEF StreamInit, StreamType
  <2> QED BY <2>3
<1>2. CASE UNCHANGED vars
  <2>1. UNCHANGED builderVars
    BY <1>2 DEF vars
  <2>2. Live' = Live /\ StreamInit' = StreamInit
    BY <1>2, <2>1, Steady DEF vars, queues, Live, StreamInit
  <2> QED BY <1>2, <2>1, <2>2, Steady DEF vars, queues, StreamType
<1> QED BY <1>1, <1>2, TypeStart, TypeSpout, TypeBolt, TypeSend, TypeReceive, TypeKill DEF Next, Work

\* The types, with the tree, always hold.
LEMMA TypeAlways == Spec => [](TreeInv /\ StreamType)
<1>1. PipelineInit => StreamType
  <2>1. PipelineInit => StreamInit /\ ~running
    BY DEF PipelineInit, Init, running
  <2> QED BY <2>1, IdleType
<1>2. TreeInv /\ StreamType /\ [Next]_vars => StreamType'
  BY TypeStep
<1> QED BY <1>1, <1>2, TreeAlways, PTL DEF Spec

\* Connections are always those of the groups, and queues hold what they can; who is
\* not running, or was killed, has nothing queued.
THEOREM TypeCorrect == Spec => []TypeOK
<1>1. TreeInv /\ StreamType => TypeOK
  <2> SUFFICES ASSUME TreeInv, StreamType PROVE TypeOK
    OBVIOUS
  <2>1. client \in {"building", "collecting", "submitted", "started", "aborted"}
    BY DEF TreeInv, BuildOK
  <2>2. ASSUME NEW w \in Process
        PROVE  /\ \A i \in 1 .. Len(inData[w]) : inData[w][i][1] \in Text
               /\ \A i \in 1 .. Len(outData[w]) : outData[w][i][1] \in Text
    <3>1. inData[w] \in Seq(Tuple) /\ outData[w] \in Seq(Tuple)
      BY DEF StreamType
    <3>2. /\ \A i \in 1 .. Len(inData[w]) : inData[w][i] \in Tuple
          /\ \A i \in 1 .. Len(outData[w]) : outData[w][i] \in Tuple
      BY <3>1
    <3> QED BY <3>2, TupleParts
  <2>3. running => DOMAIN wire = Channel
    BY DEF StreamType
  <2> QED BY <2>1, <2>2, <2>3 DEF TypeOK, StreamType
<1> QED BY <1>1, TypeAlways, PTL

-----------------------------------------------------------------------------
(* Field grouping *)

\* All tuples of s belong to the i-th instance of b.
Belong(s, b, i) == \A k \in 1 .. Len(s) : Destination(b, s[k]) = i

\* The tuples that belong to a place, under the operations on sequences.
LEMMA BelongFacts ==
  ASSUME NEW b, NEW i, NEW s \in Seq(Tuple)
  PROVE  /\ Belong(<< >>, b, i)
         /\ \A r \in Seq(Tuple) : Belong(s, b, i) /\ Belong(r, b, i) => Belong(s \o r, b, i)
         /\ s # << >> /\ Belong(s, b, i) => Destination(b, Head(s)) = i /\ Belong(Tail(s), b, i)
         /\ \A tuple \in Tuple : Destination(b, tuple) = i /\ Belong(s, b, i) => Belong(Append(s, tuple), b, i)
         /\ Belong(Picked(s, {k \in 1 .. Len(s) : Destination(b, s[k]) = i}), b, i)
<1>1. Belong(<< >>, b, i)
  BY DEF Belong
<1>2. ASSUME NEW r \in Seq(Tuple), Belong(s, b, i), Belong(r, b, i) PROVE Belong(s \o r, b, i)
  <2>1. Len(s \o r) = Len(s) + Len(r) /\ Len(s) \in Nat /\ Len(r) \in Nat
        /\ \A k \in 1 .. Len(s) + Len(r) : (s \o r)[k] = IF k <= Len(s) THEN s[k] ELSE r[k - Len(s)]
    BY ConcatProperties
  <2>2. ASSUME NEW k \in 1 .. Len(s) + Len(r) PROVE (s \o r)[k] \in {s[j] : j \in 1 .. Len(s)} \cup {r[j] : j \in 1 .. Len(r)}
    <3>1. k <= Len(s) => k \in 1 .. Len(s)
      BY <2>1
    <3>2. ~(k <= Len(s)) => k - Len(s) \in 1 .. Len(r)
      BY <2>1
    <3> QED BY <2>1, <3>1, <3>2
  <2>3. \A x \in {s[j] : j \in 1 .. Len(s)} \cup {r[j] : j \in 1 .. Len(r)} : Destination(b, x) = i
    BY <1>2 DEF Belong
  <2> QED BY <2>1, <2>2, <2>3 DEF Belong
<1>3. ASSUME s # << >>, Belong(s, b, i) PROVE Destination(b, Head(s)) = i /\ Belong(Tail(s), b, i)
  <2>1. /\ Len(s) \in Nat /\ Len(s) >= 1 /\ Head(s) = s[1]
        /\ Len(Tail(s)) = Len(s) - 1 /\ \A k \in 1 .. Len(Tail(s)) : Tail(s)[k] = s[k + 1]
    <3>1. Len(s) \in Nat /\ Len(s) # 0
      BY <1>3
    <3> QED BY <1>3, <3>1, HeadTailProperties
  <2>2. 1 \in 1 .. Len(s) /\ \A k \in 1 .. Len(Tail(s)) : k + 1 \in 1 .. Len(s)
    BY <2>1
  <2> QED BY <1>3, <2>1, <2>2 DEF Belong
<1>4. ASSUME NEW tuple \in Tuple, Destination(b, tuple) = i, Belong(s, b, i)
      PROVE  Belong(Append(s, tuple), b, i)
  <2>1. Len(Append(s, tuple)) = Len(s) + 1 /\ Len(s) \in Nat
        /\ \A k \in 1 .. Len(s) + 1 : Append(s, tuple)[k] = IF k <= Len(s) THEN s[k] ELSE tuple
    BY AppendProperties
  <2>2. \A k \in 1 .. Len(s) + 1 : k <= Len(s) => k \in 1 .. Len(s)
    BY <2>1
  <2> QED BY <1>4, <2>1, <2>2 DEF Belong
<1>5. Belong(Picked(s, {k \in 1 .. Len(s) : Destination(b, s[k]) = i}), b, i)
  <2> DEFINE I == {k \in 1 .. Len(s) : Destination(b, s[k]) = i}
  <2>1. I \in SUBSET (1 .. Len(s)) /\ \A k \in I : Destination(b, s[k]) = i
    OBVIOUS
  <2> HIDE DEF I
  <2>2. /\ Len(Picked(s, I)) = Cardinality(I)
        /\ \A k \in 1 .. Cardinality(I) : \E p \in I : Picked(s, I)[k] = s[p]
    BY <2>1, PickedProperties
  <2>3. Belong(Picked(s, I), b, i)
    BY <2>1, <2>2 DEF Belong
  <2> QED BY <2>3 DEF I
<1> QED BY <1>1, <1>2, <1>3, <1>4, <1>5

\* What is on its way to an instance of b, is there, or was counted there belongs there.
OnTheWay(b) == \A c \in Channel : To(c)[1] = b =>
                 \A k \in 1 .. Len(wire[c]) : Belong(wire[c][k], b, To(c)[2])
AtPlace(b) == \A w \in Process : TaskOf(w) = b =>
                /\ Belong(inData[w], b, w[2]) /\ Belong(shown[w], b, w[2])
                /\ \A text \in Text : counts[w][text] > 0 => Destination(b, <<text>>) = w[2]
PlacedInv == running => \A b \in Id : ByField(b) => OnTheWay(b) /\ AtPlace(b)

\* Each step leaves the tuples of a field group at their places: the workers start with none, ...
LEMMA PlacedStart ==
  ASSUME TreeInv, StreamType, StartProcessing
  PROVE  PlacedInv'
<1>1. StreamInit /\ Channel' = Channel
  BY DEF StreamType, StartProcessing, running, Channel, Worker, Groups, LevelOf, TaskOf
<1>2. ASSUME NEW b PROVE OnTheWay(b)'
  BY <1>1 DEF StartProcessing, OnTheWay
<1>3. ASSUME NEW b PROVE AtPlace(b)'
  <2>1. \A w \in Process : inData'[w] = << >> /\ shown'[w] = << >> /\ \A text \in Text : counts'[w][text] = 0
    BY <1>1 DEF StreamInit, StartProcessing
  <2> QED BY <2>1 DEF AtPlace, Belong
<1> QED BY <1>2, <1>3 DEF PlacedInv

\* ... a bolt counts what has come to its place, ...
LEMMA PlacedBolt ==
  ASSUME StreamType, PlacedInv, NEW w \in Process, Bolt(w)
  PROVE  PlacedInv'
<1> DEFINE tuple == Head(inData[w])
           t == TaskOf(w)
<1>1. running /\ UNCHANGED <<builderVars, wire>>
  BY DEF Bolt, Live
<1>2. /\ inData[w] \in Seq(Tuple) /\ inData[w] # << >> /\ shown[w] \in Seq(Tuple)
      /\ tuple \in Tuple /\ tuple[1] \in Text
  <2>1. inData[w] \in Seq(Tuple) /\ inData[w] # << >> /\ shown[w] \in Seq(Tuple)
    BY DEF StreamType, Bolt
  <2>2. tuple \in Tuple
    BY <2>1
  <2> QED BY <2>1, <2>2, TupleParts
<1>3. /\ \A v \in Process : inData'[v] = IF v = w THEN Tail(inData[w]) ELSE inData[v]
      /\ \A v \in Process : shown'[v] = IF v = w /\ Runname[t] = "PrinterBolt"
                                        THEN Append(shown[w], tuple) ELSE shown[v]
      /\ \A v \in Process, text \in Text :
           counts'[v][text] > 0 => counts[v][text] > 0 \/ (v = w /\ text = tuple[1])
  <2>1. /\ inData' = [inData EXCEPT ![w] = Tail(inData[w])]
        /\ counts' = IF Runname[t] = "WordCountBolt"
                     THEN [counts EXCEPT ![w] = [counts[w] EXCEPT ![tuple[1]] = counts[w][tuple[1]] + 1]]
                     ELSE counts
        /\ shown' = IF Runname[t] = "PrinterBolt"
                    THEN [shown EXCEPT ![w] = Append(shown[w], tuple)] ELSE shown
    BY DEF Bolt
  <2> HIDE DEF tuple, t
  <2> QED BY <2>1 DEF StreamType
<1> HIDE DEF tuple, t
<1>4. ASSUME NEW b \in Id, ByField(b) PROVE OnTheWay(b)' /\ AtPlace(b)'
  <2>1. OnTheWay(b) /\ AtPlace(b)
    BY <1>1, <1>4 DEF PlacedInv
  <2>2. OnTheWay(b)'
    BY <1>1, <2>1, Steady DEF OnTheWay, Belong
  <2>3. ASSUME NEW v \in Process, TaskOf(v) = b
        PROVE  /\ Belong(inData'[v], b, v[2]) /\ Belong(shown'[v], b, v[2])
               /\ \A text \in Text : counts'[v][text] > 0 => Destination(b, <<text>>) = v[2]
    <3>1. /\ Belong(inData[v], b, v[2]) /\ Belong(shown[v], b, v[2])
          /\ \A text \in Text : counts[v][text] > 0 => Destination(b, <<text>>) = v[2]
      BY <2>1, <2>3 DEF AtPlace
    <3>2. CASE v # w
      BY <1>3, <3>1, <3>2
    <3>3. CASE v = w
      <4>1. Destination(b, tuple) = v[2] /\ Belong(Tail(inData[w]), b, v[2])
        BY <1>2, <3>1, <3>3, BelongFacts DEF tuple
      <4>2. Belong(Append(shown[w], tuple), b, v[2])
        BY <1>2, <3>1, <3>3, <4>1, BelongFacts
      <4>3. Destination(b, <<tuple[1]>>) = v[2]
        BY <4>1 DEF Destination
      <4> QED BY <1>3, <3>1, <3>3, <4>1, <4>2, <4>3
    <3> QED BY <3>2, <3>3
  <2>4. \A v \in Process, text \in Text : Destination(b, <<text>>)' = Destination(b, <<text>>)
    BY <1>1, Steady
  <2>5. AtPlace(b)'
    <3>1. \A v \in Process : TaskOf(v) = b =>
            /\ Belong(inData[v], b, v[2])' /\ Belong(shown[v], b, v[2])'
            /\ \A text \in Text : counts'[v][text] > 0 => Destination(b, <<text>>)' = v[2]
      <4>1. \A v \in Process : Belong(inData[v], b, v[2])' = Belong(inData'[v], b, v[2])
                             /\ Belong(shown[v], b, v[2])' = Belong(shown'[v], b, v[2])
        BY <1>1, Steady DEF Belong
      <4> QED BY <2>3, <2>4, <4>1
    <3> QED BY <3>1 DEF AtPlace
  <2> QED BY <2>2, <2>5
<1> QED BY <1>1, <1>4, Steady DEF PlacedInv

\* ... what is sent is picked by the hash, ...
LEMMA PlacedSend ==
  ASSUME TreeInv, StreamType, PlacedInv, NEW w \in Process, SendBatch(w)
  PROVE  PlacedInv'
<1>1. running /\ UNCHANGED <<builderVars, inData, shown, counts>>
  BY DEF SendBatch, Live
<1>2. PICK scheme \in [Groups(TaskOf(w)) -> {"shuffle", "field", "none"}],
           pick \in [Groups(TaskOf(w)) -> Place] :
        /\ \A g \in Groups(TaskOf(w)) : scheme[g] \in Schemes(Grouping(g))
        /\ wire' = [c \in DOMAIN wire |->
            LET batch == BatchTo(c[2], To(c)[2], scheme[c[2]], pick[c[2]], outData[w]) IN
            IF From(c) = w /\ batch # << >> THEN Append(wire[c], batch) ELSE wire[c]]
  BY DEF SendBatch
<1>3. wire \in [Channel -> Seq(Seq(Tuple))] /\ outData[w] \in Seq(Tuple)
  BY <1>1 DEF StreamType
<1>4. ASSUME NEW b \in Id, ByField(b) PROVE OnTheWay(b)' /\ AtPlace(b)'
  <2>1. OnTheWay(b) /\ AtPlace(b)
    BY <1>1, <1>4 DEF PlacedInv
  <2>2. AtPlace(b)'
    BY <1>1, <2>1, Steady DEF AtPlace, Belong
  <2>3. ASSUME NEW c \in Channel, To(c)[1] = b, NEW k \in 1 .. Len(wire'[c])
        PROVE  Belong(wire'[c][k], b, To(c)[2])
    <3> DEFINE batch == BatchTo(c[2], To(c)[2], scheme[c[2]], pick[c[2]], outData[w])
    <3>1. \A j \in 1 .. Len(wire[c]) : Belong(wire[c][j], b, To(c)[2])
      BY <2>1, <2>3 DEF OnTheWay
    <3>2. wire'[c] = IF From(c) = w /\ batch # << >> THEN Append(wire[c], batch) ELSE wire[c]
      BY <1>2, <1>3
    <3>3. CASE From(c) = w
      <4>1. /\ c[2] \in Groups(TaskOf(w)) /\ c[2][1] = b
        BY <2>3, <3>3, ChannelParts
      <4>2. Grouping(c[2]) = "field"
        BY <1>1, <1>4, <4>1, GroupParts
      <4>3. scheme[c[2]] = "field"
        BY <1>2, <4>1, <4>2 DEF Schemes
      <4>4. Belong(batch, b, To(c)[2])
        <5>1. batch = Picked(outData[w], {j \in 1 .. Len(outData[w]) : Destination(b, outData[w][j]) = To(c)[2]})
          BY <4>1, <4>3 DEF BatchTo
        <5> HIDE DEF batch
        <5> QED BY <1>3, <5>1, BelongFacts
      <4> HIDE DEF batch
      <4>5. wire[c] \in Seq(Seq(Tuple))
        BY <1>3
      <4>6. CASE wire'[c] = Append(wire[c], batch)
        <5>1. batch \in Seq(Tuple)
          BY <1>3, BatchType DEF batch
        <5> DEFINE S == Seq(Tuple)
                   q == wire[c]
        <5>2. q \in Seq(S) /\ batch \in S
          BY <4>5, <5>1
        <5> HIDE DEF S, q
        <5>3. /\ Len(Append(q, batch)) = Len(q) + 1 /\ Len(q) \in Nat
              /\ \A j \in 1 .. Len(q) + 1 : Append(q, batch)[j] = IF j <= Len(q) THEN q[j] ELSE batch
          BY <5>2, AppendProperties
        <5>4. k \in 1 .. Len(q) + 1 /\ (k <= Len(q) => k \in 1 .. Len(q))
          BY <2>3, <4>6, <5>3 DEF q
        <5> QED BY <3>1, <4>4, <4>6, <5>3, <5>4 DEF q
      <4> QED BY <3>1, <3>2, <4>6 DEF batch
    <3> QED BY <3>1, <3>2, <3>3
  <2>4. OnTheWay(b)'
    BY <1>1, <2>3, Steady DEF OnTheWay, Belong
  <2> QED BY <2>2, <2>4
<1> QED BY <1>1, <1>4, Steady DEF PlacedInv

\* ... what is received was on the way to this place, ...
LEMMA PlacedReceive ==
  ASSUME StreamType, PlacedInv, NEW c \in DOMAIN wire, Receive(c)
  PROVE  PlacedInv'
<1>1. running /\ UNCHANGED <<builderVars, shown, counts>> /\ To(c) \in Process
  BY DEF Receive, Live, Worker
<1>2. /\ c \in Channel /\ wire \in [Channel -> Seq(Seq(Tuple))] /\ wire[c] # << >>
      /\ inData \in [Process -> Seq(Tuple)]
  BY <1>1 DEF StreamType, Receive
<1>3. /\ Len(wire[c]) \in Nat /\ Len(wire[c]) >= 1 /\ Head(wire[c]) = wire[c][1]
      /\ Head(wire[c]) \in Seq(Tuple) /\ Len(Tail(wire[c])) = Len(wire[c]) - 1
      /\ \A k \in 1 .. Len(Tail(wire[c])) : Tail(wire[c])[k] = wire[c][k + 1]
  <2> DEFINE S == Seq(Tuple)
             q == wire[c]
  <2>1. q \in Seq(S) /\ q # << >>
    BY <1>2
  <2> HIDE DEF S, q
  <2>2. Len(q) \in Nat /\ Len(q) # 0
    BY <2>1
  <2>3. /\ Len(q) \in Nat /\ Len(q) >= 1 /\ Head(q) = q[1] /\ Head(q) \in S
        /\ Len(Tail(q)) = Len(q) - 1 /\ \A k \in 1 .. Len(Tail(q)) : Tail(q)[k] = q[k + 1]
    BY <2>1, <2>2, HeadTailProperties
  <2> QED BY <2>3 DEF S, q
<1>4. ASSUME NEW b \in Id, ByField(b) PROVE OnTheWay(b)' /\ AtPlace(b)'
  <2>1. OnTheWay(b) /\ AtPlace(b)
    BY <1>1, <1>4 DEF PlacedInv
  <2>2. ASSUME NEW d \in Channel, To(d)[1] = b, NEW k \in 1 .. Len(wire'[d])
        PROVE  Belong(wire'[d][k], b, To(d)[2])
    <3>1. \A j \in 1 .. Len(wire[d]) : Belong(wire[d][j], b, To(d)[2])
      BY <2>1, <2>2 DEF OnTheWay
    <3>2. wire'[d] = IF d = c THEN Tail(wire[c]) ELSE wire[d]
      BY <1>2 DEF Receive
    <3>3. d = c => k + 1 \in 1 .. Len(wire[c]) /\ wire'[d][k] = wire[c][k + 1]
      BY <1>3, <2>2, <3>2
    <3> QED BY <2>2, <3>1, <3>2, <3>3
  <2>3. OnTheWay(b)'
    BY <1>1, <2>2, Steady DEF OnTheWay, Belong
  <2>4. ASSUME NEW v \in Process, TaskOf(v) = b PROVE Belong(inData'[v], b, v[2])
    <3>1. Belong(inData[v], b, v[2])
      BY <2>1, <2>4 DEF AtPlace
    <3>2. inData'[v] = IF v = To(c) THEN inData[v] \o Head(wire[c]) ELSE inData[v]
      BY <1>1, <1>2 DEF Receive
    <3>3. CASE v = To(c)
      <4>1. 1 \in 1 .. Len(wire[c]) /\ To(c)[1] = b
        BY <1>3, <2>4, <3>3 DEF TaskOf
      <4>2. Belong(Head(wire[c]), b, v[2])
        BY <1>2, <1>3, <2>1, <3>3, <4>1 DEF OnTheWay
      <4> DEFINE s == inData[v]
                 r == Head(wire[c])
                 i == v[2]
      <4>3. s \in Seq(Tuple) /\ r \in Seq(Tuple) /\ Belong(s, b, i) /\ Belong(r, b, i)
        BY <1>2, <1>3, <3>1, <4>2
      <4> HIDE DEF s, r, i
      <4>4. Belong(s \o r, b, i)
        BY <4>3, BelongFacts
      <4> QED BY <3>2, <3>3, <4>4 DEF s, r, i
    <3> QED BY <3>1, <3>2, <3>3
  <2>5. AtPlace(b)'
    BY <1>1, <2>1, <2>4, Steady DEF AtPlace, Belong
  <2> QED BY <2>3, <2>5
<1> QED BY <1>1, <1>4, Steady DEF PlacedInv

\* Killing a worker only takes from queues.
LEMMA KillParts ==
  ASSUME StreamType, NEW w \in Process, Kill(w)
  PROVE  /\ running /\ w \in Worker /\ w \notin dead /\ dead' = dead \cup {w}
         /\ UNCHANGED <<builderVars, shown, counts>>
         /\ \A v \in Process : /\ inData'[v] = IF v = w THEN << >> ELSE inData[v]
                               /\ outData'[v] = IF v = w THEN << >> ELSE outData[v]
         /\ \A c \in Channel : /\ To(c) = w => wire'[c] = << >>
                               /\ To(c) # w /\ From(c) # w => wire'[c] = wire[c]
         /\ \A c \in Channel : To(c) # w =>
              \E n \in 0 .. Len(wire[c]) : /\ Len(wire'[c]) = n
                                           /\ \A k \in 1 .. n : wire'[c][k] = wire[c][k]
<1>1. running /\ w \in Worker /\ w \notin dead /\ dead' = dead \cup {w}
      /\ UNCHANGED <<builderVars, shown, counts>>
  BY DEF Kill, Live
<1> DEFINE sent == {c \in DOMAIN wire : From(c) = w /\ wire[c] # << >>}
<1>2. PICK left \in [sent -> UNION {0 .. Len(wire[c]) : c \in sent}] :
        /\ \A c \in sent : left[c] <= Len(wire[c])
        /\ wire' = [c \in DOMAIN wire |->
             CASE To(c) = w -> << >>
               [] c \in sent /\ To(c) # w -> SubSeq(wire[c], 1, left[c])
               [] OTHER -> wire[c]]
  BY DEF Kill
<1>3. wire \in [Channel -> Seq(Seq(Tuple))]
  BY <1>1 DEF StreamType
<1>4. ASSUME NEW c \in Channel
      PROVE  wire'[c] = IF To(c) = w THEN << >>
                        ELSE IF c \in sent THEN SubSeq(wire[c], 1, left[c]) ELSE wire[c]
  <2> HIDE DEF sent
  <2> QED BY <1>2, <1>3
<1>5. ASSUME NEW c \in sent
      PROVE  left[c] \in 0 .. Len(wire[c]) /\ wire[c] \in Seq(Seq(Tuple))
  <2>1. left[c] \in UNION {0 .. Len(wire[d]) : d \in sent} /\ left[c] <= Len(wire[c])
    BY <1>2
  <2>2. wire[c] \in Seq(Seq(Tuple)) /\ Len(wire[c]) \in Nat
    BY <1>3
  <2> QED BY <2>1, <2>2
<1>6. ASSUME NEW c \in Channel, To(c) # w
      PROVE  \E n \in 0 .. Len(wire[c]) : /\ Len(wire'[c]) = n
                                          /\ \A k \in 1 .. n : wire'[c][k] = wire[c][k]
  <2>1. Len(wire[c]) \in Nat
    BY <1>3
  <2>2. CASE c \in sent
    <3> DEFINE S == Seq(Tuple)
               q == wire[c]
               n == left[c]
    <3>1. q \in Seq(S) /\ n \in 0 .. Len(q) /\ wire'[c] = SubSeq(q, 1, n)
      BY <1>4, <1>5, <1>6, <2>2
    <3> HIDE DEF S, q, n
    <3>2. /\ Len(SubSeq(q, 1, n)) = n /\ \A k \in 1 .. n : SubSeq(q, 1, n)[k] = q[k]
      <4>1. Len(q) \in Nat
        BY <3>1
      <4> QED BY <3>1, <4>1
    <3> QED BY <3>1, <3>2 DEF q
  <2>3. CASE c \notin sent
    <3>1. wire'[c] = wire[c] /\ Len(wire[c]) \in 0 .. Len(wire[c])
      BY <1>4, <1>6, <2>1, <2>3
    <3> QED BY <3>1
  <2> QED BY <2>2, <2>3
<1>7. \A v \in Process : /\ inData'[v] = IF v = w THEN << >> ELSE inData[v]
                         /\ outData'[v] = IF v = w THEN << >> ELSE outData[v]
  BY DEF Kill, StreamType
<1>8. \A c \in Channel : /\ To(c) = w => wire'[c] = << >>
                         /\ To(c) # w /\ From(c) # w => wire'[c] = wire[c]
  BY <1>4
<1> QED BY <1>1, <1>6, <1>7, <1>8

\* ... and what a kill loses belongs nowhere else.
LEMMA PlacedKill ==
  ASSUME StreamType, PlacedInv, NEW w \in Process, Kill(w)
  PROVE  PlacedInv'
<1>1. running /\ UNCHANGED <<builderVars, shown, counts>>
  BY KillParts
<1>2. ASSUME NEW b \in Id, ByField(b) PROVE OnTheWay(b)' /\ AtPlace(b)'
  <2>1. OnTheWay(b) /\ AtPlace(b)
    BY <1>1, <1>2 DEF PlacedInv
  <2>2. ASSUME NEW c \in Channel, To(c)[1] = b, NEW k \in 1 .. Len(wire'[c])
        PROVE  Belong(wire'[c][k], b, To(c)[2])
    <3>1. To(c) # w
      <4>1. To(c) = w => wire'[c] = << >>
        BY KillParts
      <4> QED BY <2>2, <4>1
    <3>2. PICK n \in 0 .. Len(wire[c]) : /\ Len(wire'[c]) = n
                                         /\ \A j \in 1 .. n : wire'[c][j] = wire[c][j]
      BY <3>1, KillParts
    <3>3. Len(wire[c]) \in Nat
      BY <1>1 DEF StreamType
    <3>4. k \in 1 .. Len(wire[c]) /\ wire'[c][k] = wire[c][k]
      BY <2>2, <3>2, <3>3
    <3> QED BY <2>1, <2>2, <3>4 DEF OnTheWay
  <2>3. OnTheWay(b)'
    BY <1>1, <2>2, Steady DEF OnTheWay, Belong
  <2>4. \A v \in Process : inData'[v] = IF v = w THEN << >> ELSE inData[v]
    BY KillParts
  <2>5. AtPlace(b)'
    BY <1>1, <2>1, <2>4, Steady DEF AtPlace, Belong
  <2> QED BY <2>3, <2>5
<1> QED BY <1>1, <1>2, Steady DEF PlacedInv

\* Every step leaves the tuples of a field group at their places.
LEMMA PlacedStep ==
  ASSUME TreeInv, StreamType, PlacedInv, [Next]_vars
  PROVE  PlacedInv'
<1>1. CASE Describe
  BY <1>1 DEF running, Describe, SetSpout, SetBolt, SetNode, SetParent, Build, Collect, Submit, PlacedInv
<1>2. ASSUME UNCHANGED <<builderVars, inData, wire, counts, shown>> PROVE PlacedInv'
  <2>1. \A b : OnTheWay(b)' = OnTheWay(b)
    BY <1>2, Steady DEF OnTheWay, Belong
  <2>2. \A b : AtPlace(b)' = AtPlace(b)
    BY <1>2, Steady DEF AtPlace, Belong
  <2> QED BY <1>2, <2>1, <2>2, Steady DEF PlacedInv
<1>3. ASSUME NEW w \in Process, Spout(w) PROVE PlacedInv'
  BY <1>2, <1>3 DEF Spout
<1>4. CASE UNCHANGED vars
  BY <1>2, <1>4 DEF vars, queues
<1> QED BY <1>1, <1>3, <1>4, PlacedStart, PlacedBolt, PlacedSend, PlacedReceive, PlacedKill DEF Next, Work

\* The tuples of a field group are always at their places.
LEMMA PlacedAlways == Spec => [](TreeInv /\ StreamType /\ PlacedInv)
<1>1. PipelineInit => PlacedInv
  BY DEF PipelineInit, Init, running, PlacedInv
<1>2. TreeInv /\ StreamType /\ PlacedInv /\ [Next]_vars => PlacedInv'
  BY PlacedStep
<1> QED BY <1>1, <1>2, TypeAlways, PTL DEF Spec

\* Field grouping, for any program, hash and levels: one instance of the bolt at most has
\* counted a text.
THEOREM FieldsMeet == Spec => []Together
<1>1. TreeInv /\ StreamType /\ PlacedInv => Together
  <2> SUFFICES ASSUME TreeInv, StreamType, PlacedInv, NEW b \in Id, NEW text \in Text, ByField(b)
               PROVE  Cardinality({w \in Process : TaskOf(w) = b /\ counts[w][text] > 0}) <= 1
    BY DEF Together
  <2> DEFINE W == {w \in Process : TaskOf(w) = b /\ counts[w][text] > 0}
             v == <<b, Destination(b, <<text>>)>>
  <2>1. W \subseteq {v}
    <3>1. ASSUME NEW w \in W PROVE w = v
      <4>1. running
        <5>1. ~running => counts[w][text] = 0
          BY DEF StreamType, StreamInit
        <5> QED BY <5>1
      <4>2. Destination(b, <<text>>) = w[2]
        BY <4>1 DEF PlacedInv, AtPlace
      <4> QED BY <4>2 DEF Process, TaskOf
    <3> QED BY <3>1
  <2>2. IsFiniteSet({v}) /\ Cardinality({v}) = 1
    BY FS_Singleton
  <2> HIDE DEF W, v
  <2>3. Cardinality(W) <= 1
    BY <2>1, <2>2, FS_Subset
  <2> QED BY <2>3 DEF W
<1> QED BY <1>1, PlacedAlways, PTL

-----------------------------------------------------------------------------
(* Numbers of a text in a sequence of tuples *)

\* How many of the first i, or of all tuples of s are of the text.
Upto(s, text, i) == Cardinality({j \in 1 .. i : s[j][1] = text})
Often(s, text) == Upto(s, text, Len(s))
\* The tuples of the text have the numbers that follow from.
Numbered(s, text, from) ==
  \A i \in 1 .. Len(s) : s[i][1] = text => s[i][2] = from + Upto(s, text, i)

\* How often a text comes up to a place is a number.
LEMMA UptoType ==
  ASSUME NEW s, NEW text, NEW i \in Nat
  PROVE  Upto(s, text, i) \in Nat
<1> DEFINE I == {j \in 1 .. i : s[j][1] = text}
<1>1. I \in SUBSET (1 .. i)
  OBVIOUS
<1> HIDE DEF I
<1>2. Cardinality(I) \in Nat
  BY <1>1, Ranks
<1> QED BY <1>2 DEF Upto, I

\* Without the text there is nothing to number.
LEMMA NumberNone ==
  ASSUME NEW s, Len(s) \in Nat, NEW text
  PROVE  /\ (\A i \in 1 .. Len(s) : s[i][1] # text) <=> Often(s, text) = 0
         /\ Often(s, text) = 0 => \A from : Numbered(s, text, from)
<1> DEFINE I == {j \in 1 .. Len(s) : s[j][1] = text}
<1>1. I \in SUBSET (1 .. Len(s))
  OBVIOUS
<1>2. I = {} <=> \A i \in 1 .. Len(s) : s[i][1] # text
  OBVIOUS
<1>3. Often(s, text) = Cardinality(I)
  BY DEF Often, Upto
<1>4. Cardinality(I) = 0 <=> I = {}
  <2> HIDE DEF I
  <2> QED BY <1>1, Ranks, FS_EmptySet
<1>5. I = {} => \A from : Numbered(s, text, from)
  BY <1>2 DEF Numbered
<1> QED BY <1>2, <1>3, <1>4, <1>5

\* Of two sequences after each other, the second goes on with the numbers of the first.
LEMMA NumberConcat ==
  ASSUME NEW S, NEW s \in Seq(S), NEW r \in Seq(S), NEW text, NEW from \in Nat
  PROVE  /\ Often(s \o r, text) = Often(s, text) + Often(r, text)
         /\ Often(s, text) \in Nat /\ Often(r, text) \in Nat
         /\ Numbered(s \o r, text, from) <=>
              Numbered(s, text, from) /\ Numbered(r, text, from + Often(s, text))
<1> DEFINE m == Len(s)
           sr == s \o r
<1>1. /\ Len(sr) = m + Len(r) /\ m \in Nat /\ Len(r) \in Nat
      /\ \A i \in 1 .. m : sr[i] = s[i]
      /\ \A i \in 1 .. Len(r) : sr[m + i] = r[i]
      /\ \A i \in 1 .. Len(sr) : i \in 1 .. m \/ i - m \in 1 .. Len(r)
  BY ConcatPlaces
<1> HIDE DEF sr, m
<1>2. Often(s, text) \in Nat /\ Often(r, text) \in Nat
  BY <1>1, UptoType DEF Often, m
<1>3. ASSUME NEW i \in 1 .. m PROVE Upto(sr, text, i) = Upto(s, text, i)
  <2>1. \A j \in 1 .. i : j \in 1 .. m
    BY <1>1
  <2>2. {j \in 1 .. i : sr[j][1] = text} = {j \in 1 .. i : s[j][1] = text}
    BY <1>1, <2>1
  <2> QED BY <2>2 DEF Upto
<1>4. ASSUME NEW k \in 0 .. Len(r)
      PROVE  Upto(sr, text, m + k) = Often(s, text) + Upto(r, text, k)
  <2> DEFINE J == {j \in 1 .. m + k : sr[j][1] = text}
             before == {j \in 1 .. m : j \in J}
             after == {j \in 1 .. k : m + j \in J}
  <2>1. k \in Nat /\ J \in SUBSET (1 .. m + k)
    BY <1>1
  <2>2. before = {j \in 1 .. m : s[j][1] = text}
    BY <1>1, <2>1
  <2>3. after = {j \in 1 .. k : r[j][1] = text}
    <3>1. ASSUME NEW j \in 1 .. k PROVE m + j \in 1 .. m + k /\ sr[m + j] = r[j]
      <4>1. j \in 1 .. Len(r) /\ m + j \in 1 .. m + k
        BY <1>1, <2>1
      <4> QED BY <1>1, <4>1
    <3> QED BY <3>1
  <2>4. Cardinality(J) = Cardinality(before) + Cardinality(after)
    <3> HIDE DEF J
    <3> QED BY <1>1, <2>1, SplitPlaces
  <2> QED BY <2>2, <2>3, <2>4 DEF Upto, Often, m
<1>5. Often(sr, text) = Often(s, text) + Often(r, text)
  <2>1. Len(r) \in 0 .. Len(r)
    BY <1>1
  <2> QED BY <1>1, <1>4, <2>1 DEF Often
<1>6. ASSUME Numbered(sr, text, from)
      PROVE  Numbered(s, text, from) /\ Numbered(r, text, from + Often(s, text))
  <2>1. ASSUME NEW i \in 1 .. m, s[i][1] = text PROVE s[i][2] = from + Upto(s, text, i)
    <3>1. i \in 1 .. Len(sr)
      BY <1>1
    <3> QED BY <1>1, <1>3, <1>6, <2>1, <3>1 DEF Numbered
  <2>2. ASSUME NEW k \in 1 .. Len(r), r[k][1] = text
        PROVE  r[k][2] = (from + Often(s, text)) + Upto(r, text, k)
    <3>1. m + k \in 1 .. Len(sr) /\ k \in 0 .. Len(r) /\ Upto(r, text, k) \in Nat
      BY <1>1, UptoType
    <3>2. r[k][2] = from + (Often(s, text) + Upto(r, text, k))
      BY <1>1, <1>4, <1>6, <2>2, <3>1 DEF Numbered
    <3> QED BY <1>2, <3>1, <3>2
  <2> QED BY <2>1, <2>2 DEF Numbered, m
<1>7. ASSUME Numbered(s, text, from), Numbered(r, text, from + Often(s, text))
      PROVE  Numbered(sr, text, from)
  <2> SUFFICES ASSUME NEW i \in 1 .. Len(sr), sr[i][1] = text
               PROVE  sr[i][2] = from + Upto(sr, text, i)
    BY DEF Numbered
  <2>1. CASE i \in 1 .. m
    BY <1>1, <1>3, <1>7, <2>1 DEF Numbered, m
  <2>2. CASE i - m \in 1 .. Len(r)
    <3> DEFINE k == i - m
    <3>1. i = m + k /\ k \in 0 .. Len(r) /\ k \in 1 .. Len(r)
      BY <1>1, <2>2
    <3> HIDE DEF k
    <3>2. sr[i] = r[k] /\ Upto(sr, text, i) = Often(s, text) + Upto(r, text, k)
      BY <1>1, <1>4, <3>1
    <3>3. r[k][2] = (from + Often(s, text)) + Upto(r, text, k) /\ Upto(r, text, k) \in Nat
      BY <1>7, <3>1, <3>2, UptoType DEF Numbered
    <3> QED BY <1>2, <3>2, <3>3
  <2> QED BY <1>1, <2>1, <2>2
<1> QED BY <1>2, <1>5, <1>6, <1>7 DEF sr

\* One tuple has the next number.
LEMMA NumberOne ==
  ASSUME NEW tuple, NEW text
  PROVE  /\ Often(<<tuple>>, text) = IF tuple[1] = text THEN 1 ELSE 0
         /\ \A from \in Nat : Numbered(<<tuple>>, text, from) <=> (tuple[1] = text => tuple[2] = from + 1)
<1> DEFINE s == <<tuple>>
<1>1. Len(s) = 1 /\ s[1] = tuple /\ \A i \in 1 .. 1 : i = 1
  OBVIOUS
<1>2. Upto(s, text, 1) = IF tuple[1] = text THEN 1 ELSE 0
  <2>1. {j \in 1 .. 1 : s[j][1] = text} = IF tuple[1] = text THEN {1} ELSE {}
    BY <1>1
  <2> QED BY <2>1, FS_Singleton, FS_EmptySet DEF Upto
<1> HIDE DEF s
<1> QED BY <1>1, <1>2 DEF Often, Numbered, s

\* What is picked of a sequence, all tuples of the text among it.
LEMMA NumberPicked ==
  ASSUME NEW S, NEW s \in Seq(S), NEW text, NEW from \in Nat, NEW I \in SUBSET (1 .. Len(s)),
         \A i \in 1 .. Len(s) : s[i][1] = text => i \in I
  PROVE  /\ Often(Picked(s, I), text) = Often(s, text)
         /\ Numbered(s, text, from) => Numbered(Picked(s, I), text, from)
<1> DEFINE n == Len(s)
           J == {i \in 1 .. n : s[i][1] = text}
           pick == Picked(s, I)
<1>1. /\ n \in Nat /\ J \in SUBSET I
      /\ Len(pick) = Cardinality(I) /\ Cardinality(I) \in Nat
      /\ \A k \in 1 .. Cardinality(I) : \E i \in I : Rank(I, i) = k /\ pick[k] = s[i]
      /\ \A i \in I : Rank(I, i) \in 1 .. Cardinality(I) /\ pick[Rank(I, i)] = s[i]
  <2>1. n \in Nat /\ J \in SUBSET I
    OBVIOUS
  <2> HIDE DEF J
  <2> QED BY <2>1, PickedProperties
<1>2. \A x, y \in I : x < y => Rank(I, x) < Rank(I, y)
  BY <1>1, Ranks
<1> HIDE DEF n, pick
<1>3. ASSUME NEW i \in J PROVE Upto(pick, text, Rank(I, i)) = Upto(s, text, i)
  <2> DEFINE K == {x \in I : x <= i}
             L == {x \in J : x <= i}
  <2>1. /\ i \in I /\ i \in Nat /\ K \in SUBSET (1 .. n) /\ L \in SUBSET K
        /\ Cardinality(K) = Rank(I, i)
    <3>1. i \in I /\ I \in SUBSET (1 .. n)
      BY <1>1 DEF n
    <3>2. i \in Nat /\ K \in SUBSET (1 .. n)
      <4>1. K \in SUBSET (1 .. n)
        BY <3>1
      <4>2. n \in Nat /\ i \in 1 .. n
        BY <1>1, <3>1
      <4> QED BY <4>1, <4>2
    <3>3. L \in SUBSET K
      BY <1>1
    <3> QED BY <3>1, <3>2, <3>3 DEF Rank
  <2>2. ASSUME NEW x \in K PROVE Rank(K, x) = Rank(I, x)
    <3>1. {q \in K : q <= x} = {q \in I : q <= x}
      <4>1. \A q \in I : q <= x => q <= i
        <5>1. x \in Nat /\ x <= i /\ i \in Nat /\ \A q \in I : q \in Nat
          BY <2>1 DEF n
        <5> QED BY <5>1
      <4> QED BY <4>1
    <3> QED BY <3>1 DEF Rank
  <2>3. L = {j \in 1 .. i : s[j][1] = text}
    <3>1. \A j \in 1 .. i : j \in 1 .. n /\ j <= i
      BY <1>1, <2>1 DEF n
    <3>2. \A j \in 1 .. n : j <= i => j \in 1 .. i
      BY <1>1, <2>1
    <3> QED BY <3>1, <3>2
  <2>4. {k \in 1 .. Rank(I, i) : pick[k][1] = text} = {k \in 1 .. Cardinality(K) : \E x \in L : Rank(K, x) = k}
    <3>1. ASSUME NEW k \in 1 .. Rank(I, i), pick[k][1] = text PROVE \E x \in L : Rank(K, x) = k
      <4>1. Rank(I, i) \in 1 .. Cardinality(I) /\ k \in 1 .. Cardinality(I)
        <5>1. Rank(I, i) \in 1 .. Cardinality(I)
          BY <1>1, <2>1
        <5> QED BY <1>1, <5>1
      <4>2. PICK x \in I : Rank(I, x) = k /\ pick[k] = s[x]
        BY <1>1, <4>1
      <4>3. x \in 1 .. n /\ s[x][1] = text
        BY <3>1, <4>2 DEF n
      <4>4. ~(i < x)
        <5>1. i < x => Rank(I, i) < k
          BY <1>2, <2>1, <4>2
        <5> QED BY <1>1, <4>1, <5>1
      <4>5. x <= i
        BY <1>1, <2>1, <4>3, <4>4
      <4>6. x \in L /\ x \in K
        BY <4>2, <4>3, <4>5
      <4> QED BY <2>2, <4>2, <4>6
    <3>2. ASSUME NEW k \in 1 .. Rank(I, i), NEW x \in L, Rank(K, x) = k PROVE pick[k][1] = text
      <4>1. x \in K /\ x \in I /\ s[x][1] = text
        BY <2>1
      <4>2. Rank(I, x) = k
        BY <2>2, <3>2, <4>1
      <4> QED BY <1>1, <4>1, <4>2
    <3> HIDE DEF K, L
    <3> QED BY <2>1, <3>1, <3>2
  <2>5. Cardinality({k \in 1 .. Cardinality(K) : \E x \in L : Rank(K, x) = k}) = Cardinality(L)
    <3> HIDE DEF K, L
    <3> QED BY <1>1, <2>1, RankedPlaces
  <2> QED BY <2>3, <2>4, <2>5 DEF Upto
<1>4. Often(pick, text) = Often(s, text)
  <2>1. {k \in 1 .. Cardinality(I) : pick[k][1] = text} = {k \in 1 .. Cardinality(I) : \E i \in J : Rank(I, i) = k}
    <3>1. ASSUME NEW k \in 1 .. Cardinality(I), pick[k][1] = text PROVE \E i \in J : Rank(I, i) = k
      BY <1>1, <3>1 DEF n
    <3>2. ASSUME NEW k \in 1 .. Cardinality(I), NEW i \in J, Rank(I, i) = k PROVE pick[k][1] = text
      <4>1. i \in I /\ s[i][1] = text
        BY <1>1
      <4> QED BY <1>1, <3>2, <4>1
    <3> HIDE DEF J
    <3> QED BY <3>1, <3>2
  <2>2. Cardinality({k \in 1 .. Cardinality(I) : \E i \in J : Rank(I, i) = k}) = Cardinality(J)
    <3>1. I \in SUBSET (1 .. n)
      BY DEF n
    <3> HIDE DEF J
    <3> QED BY <1>1, <3>1, RankedPlaces
  <2> QED BY <1>1, <2>1, <2>2 DEF Often, Upto, n
<1>5. ASSUME Numbered(s, text, from) PROVE Numbered(pick, text, from)
  <2> SUFFICES ASSUME NEW k \in 1 .. Cardinality(I), pick[k][1] = text
               PROVE  pick[k][2] = from + Upto(pick, text, k)
    BY <1>1 DEF Numbered
  <2>1. PICK i \in I : Rank(I, i) = k /\ pick[k] = s[i]
    BY <1>1
  <2>2. i \in J /\ i \in 1 .. Len(s) /\ s[i][1] = text
    BY <2>1 DEF n
  <2>3. s[i][2] = from + Upto(s, text, i)
    BY <1>5, <2>2 DEF Numbered
  <2> QED BY <1>3, <2>1, <2>2, <2>3
<1> QED BY <1>4, <1>5 DEF pick

-----------------------------------------------------------------------------
(* The counts of a text from a word count to a printer: what is shown, what the  *)
(* printer has, the batches on the connection, and what the word count has *)

\* base[k] is the number up to the end of the k-th batch.
Stream(text, sh, ind, wr, base) ==
  /\ base \in [0 .. Len(wr) -> Nat]
  /\ base[0] = Often(sh, text) + Often(ind, text)
  /\ \A k \in 1 .. Len(wr) : /\ Numbered(wr[k], text, base[k - 1])
                             /\ base[k] = base[k - 1] + Often(wr[k], text)

\* The printer takes its first tuple.
LEMMA StreamPrint ==
  ASSUME NEW sh \in Seq(Tuple), NEW ind \in Seq(Tuple), ind # << >>, NEW text,
         Numbered(sh, text, 0), Numbered(ind, text, Often(sh, text))
  PROVE  LET sh2 == Append(sh, Head(ind)) IN
         /\ Numbered(sh2, text, 0) /\ Numbered(Tail(ind), text, Often(sh2, text))
         /\ Often(sh2, text) + Often(Tail(ind), text) = Often(sh, text) + Often(ind, text)
<1> DEFINE x == Head(ind)
           one == <<x>>
           rest == Tail(ind)
           sh2 == Append(sh, x)
<1>1. x \in Tuple /\ rest \in Seq(Tuple) /\ one \in Seq(Tuple)
  OBVIOUS
<1>2. ind = one \o rest /\ sh2 = sh \o one
  <2>1. sh2 = sh \o one
    OBVIOUS
  <2>2. ind = one \o rest
    OBVIOUS
  <2> QED BY <2>1, <2>2
<1> HIDE DEF x, one, rest, sh2
<1>3. Often(sh, text) \in Nat /\ Often(one, text) \in Nat /\ Often(rest, text) \in Nat
  BY <1>1, NumberConcat
<1>4. /\ Often(ind, text) = Often(one, text) + Often(rest, text)
      /\ Numbered(one, text, Often(sh, text))
      /\ Numbered(rest, text, Often(sh, text) + Often(one, text))
  BY <1>1, <1>2, <1>3, NumberConcat
<1>5. /\ Often(sh2, text) = Often(sh, text) + Often(one, text)
      /\ Numbered(sh2, text, 0)
  <2>1. 0 \in Nat /\ 0 + Often(sh, text) = Often(sh, text)
    BY <1>3
  <2> QED BY <1>1, <1>2, <1>4, <2>1, NumberConcat
<1>6. Often(sh2, text) + Often(rest, text) = Often(sh, text) + Often(ind, text)
  BY <1>3, <1>4, <1>5
<1> QED BY <1>4, <1>5, <1>6 DEF x, rest, sh2

\* The first batch arrives.
LEMMA StreamReceive ==
  ASSUME NEW sh \in Seq(Tuple), NEW ind \in Seq(Tuple), NEW wr \in Seq(Seq(Tuple)), wr # << >>,
         NEW text, NEW base, Stream(text, sh, ind, wr, base), Numbered(ind, text, Often(sh, text))
  PROVE  /\ Numbered(ind \o Head(wr), text, Often(sh, text))
         /\ \E next : /\ Stream(text, sh, ind \o Head(wr), Tail(wr), next)
                      /\ next[Len(Tail(wr))] = base[Len(wr)]
<1> DEFINE S == Seq(Tuple)
           n == Len(wr)
           rest == Tail(wr)
           first == Head(wr)
           next == [k \in 0 .. n - 1 |-> base[k + 1]]
<1>1. /\ n \in Nat /\ n >= 1 /\ first = wr[1] /\ first \in Seq(Tuple)
      /\ Len(rest) = n - 1 /\ \A k \in 1 .. Len(rest) : rest[k] = wr[k + 1]
  <2>1. wr \in Seq(S) /\ wr # << >>
    OBVIOUS
  <2> HIDE DEF S
  <2>2. Len(wr) \in Nat /\ Len(wr) # 0
    BY <2>1
  <2>3. /\ Len(wr) \in Nat /\ Len(wr) >= 1 /\ Head(wr) = wr[1] /\ Head(wr) \in S
        /\ Len(Tail(wr)) = Len(wr) - 1 /\ \A k \in 1 .. Len(Tail(wr)) : Tail(wr)[k] = wr[k + 1]
    BY <2>1, <2>2, HeadTailProperties
  <2> QED BY <2>3 DEF S
<1>2. Often(sh, text) \in Nat /\ Often(ind, text) \in Nat /\ Often(first, text) \in Nat
  BY <1>1, NumberConcat
<1>3. /\ base \in [0 .. n -> Nat] /\ base[0] = Often(sh, text) + Often(ind, text)
      /\ \A k \in 1 .. n : Numbered(wr[k], text, base[k - 1]) /\ base[k] = base[k - 1] + Often(wr[k], text)
  BY DEF Stream
<1> HIDE DEF n, rest, first, S
<1>4. Numbered(first, text, base[0]) /\ base[1] = base[0] + Often(first, text)
  <2>1. 1 \in 1 .. n /\ 1 - 1 = 0
    BY <1>1
  <2> QED BY <1>1, <1>3, <2>1
<1>5. /\ Often(ind \o first, text) = Often(ind, text) + Often(first, text)
      /\ Numbered(ind \o first, text, Often(sh, text))
  <2> DEFINE from == Often(sh, text)
  <2>1. from \in Nat /\ Numbered(ind, text, from) /\ Numbered(first, text, from + Often(ind, text))
    BY <1>2, <1>3, <1>4
  <2> HIDE DEF from
  <2>2. /\ Often(ind \o first, text) = Often(ind, text) + Often(first, text)
        /\ Numbered(ind \o first, text, from) <=>
             Numbered(ind, text, from) /\ Numbered(first, text, from + Often(ind, text))
    BY <1>1, <2>1, NumberConcat
  <2> QED BY <2>1, <2>2 DEF from
<1>6. \A k \in 0 .. n - 1 : k + 1 \in 0 .. n
  BY <1>1
<1>7. next \in [0 .. n - 1 -> Nat] /\ \A k \in 0 .. n - 1 : next[k] = base[k + 1]
  BY <1>3, <1>6
<1>8. 0 \in 0 .. n - 1 /\ n - 1 \in 0 .. n - 1 /\ (n - 1) + 1 = n /\ 0 + 1 = 1
  BY <1>1
<1> HIDE DEF next
<1>9. next[0] = Often(sh, text) + Often(ind \o first, text)
  BY <1>2, <1>3, <1>4, <1>5, <1>7, <1>8
<1>10. ASSUME NEW k \in 1 .. Len(rest)
       PROVE  Numbered(rest[k], text, next[k - 1]) /\ next[k] = next[k - 1] + Often(rest[k], text)
  <2>1. k \in 0 .. n - 1 /\ k - 1 \in 0 .. n - 1 /\ (k - 1) + 1 = k /\ k + 1 \in 1 .. n /\ (k + 1) - 1 = k
    BY <1>1
  <2>2. next[k] = base[k + 1] /\ next[k - 1] = base[k] /\ rest[k] = wr[k + 1]
    BY <1>1, <1>7, <2>1
  <2> QED BY <1>3, <2>1, <2>2
<1>11. Stream(text, sh, ind \o first, rest, next) /\ next[Len(rest)] = base[n]
  BY <1>1, <1>7, <1>8, <1>9, <1>10 DEF Stream
<1> QED BY <1>5, <1>11 DEF n, rest, first

\* A batch is sent.
LEMMA StreamSend ==
  ASSUME NEW sh \in Seq(Tuple), NEW ind \in Seq(Tuple), NEW wr \in Seq(Seq(Tuple)),
         NEW batch \in Seq(Tuple), NEW text, NEW base, Stream(text, sh, ind, wr, base),
         Numbered(batch, text, base[Len(wr)])
  PROVE  \E next : /\ Stream(text, sh, ind, Append(wr, batch), next)
                   /\ next[Len(Append(wr, batch))] = base[Len(wr)] + Often(batch, text)
<1> DEFINE S == Seq(Tuple)
           n == Len(wr)
           all == Append(wr, batch)
           last == base[n] + Often(batch, text)
           next == [k \in 0 .. n + 1 |-> IF k = n + 1 THEN last ELSE base[k]]
<1>1. /\ n \in Nat /\ Len(all) = n + 1
      /\ \A k \in 1 .. n + 1 : all[k] = IF k <= n THEN wr[k] ELSE batch
  <2>1. wr \in Seq(S) /\ batch \in S
    OBVIOUS
  <2> HIDE DEF S
  <2> QED BY <2>1, AppendProperties
<1>2. /\ base \in [0 .. n -> Nat] /\ base[0] = Often(sh, text) + Often(ind, text)
      /\ \A k \in 1 .. n : Numbered(wr[k], text, base[k - 1]) /\ base[k] = base[k - 1] + Often(wr[k], text)
  BY DEF Stream
<1>3. last \in Nat
  <2>1. Often(batch, text) \in Nat
    BY NumberConcat
  <2>2. base[n] \in Nat
    BY <1>1, <1>2
  <2> QED BY <2>1, <2>2
<1>4. Numbered(batch, text, base[n])
  OBVIOUS
<1> HIDE DEF n, all, S
<1>5. /\ next \in [0 .. n + 1 -> Nat] /\ next[n + 1] = last
      /\ \A k \in 0 .. n : next[k] = base[k]
  <2>1. ASSUME NEW k \in 0 .. n + 1 PROVE IF k = n + 1 THEN last \in Nat ELSE base[k] \in Nat
    <3>1. k # n + 1 => k \in 0 .. n
      BY <1>1
    <3> QED BY <1>2, <1>3, <3>1
  <2>2. n + 1 \in 0 .. n + 1 /\ \A k \in 0 .. n : k \in 0 .. n + 1 /\ k # n + 1
    BY <1>1
  <2> HIDE DEF last
  <2> QED BY <2>1, <2>2
<1> HIDE DEF next
<1>6. ASSUME NEW k \in 1 .. n + 1
      PROVE  Numbered(all[k], text, next[k - 1]) /\ next[k] = next[k - 1] + Often(all[k], text)
  <2>1. k - 1 \in 0 .. n
    BY <1>1
  <2>2. CASE k <= n
    <3>1. k \in 1 .. n /\ k \in 0 .. n
      BY <1>1, <2>2
    <3> QED BY <1>1, <1>2, <1>5, <2>1, <2>2, <3>1
  <2>3. CASE ~(k <= n)
    <3>1. k = n + 1 /\ k - 1 = n
      BY <1>1, <2>3
    <3>2. all[k] = batch /\ next[k - 1] = base[n] /\ next[k] = last
      BY <1>1, <1>5, <2>1, <2>3, <3>1
    <3> QED BY <1>4, <3>2
  <2> QED BY <2>2, <2>3
<1>7. next[0] = base[0]
  <2>1. 0 \in 0 .. n
    BY <1>1
  <2> QED BY <1>5, <2>1
<1>8. Stream(text, sh, ind, all, next) /\ next[Len(all)] = last
  <2> HIDE DEF last
  <2> QED BY <1>1, <1>2, <1>5, <1>6, <1>7 DEF Stream
<1> QED BY <1>8 DEF n, all

\* The last batches are lost.
LEMMA StreamCut ==
  ASSUME NEW sh, NEW ind, NEW wr \in Seq(Seq(Tuple)), NEW cut, NEW n \in 0 .. Len(wr),
         Len(cut) = n, \A k \in 1 .. n : cut[k] = wr[k],
         NEW text, NEW base, Stream(text, sh, ind, wr, base)
  PROVE  \E next : Stream(text, sh, ind, cut, next)
<1> DEFINE next == [k \in 0 .. n |-> base[k]]
<1>1. Len(wr) \in Nat
  OBVIOUS
<1>2. /\ \A k \in 0 .. n : k \in 0 .. Len(wr)
      /\ \A k \in 1 .. n : k \in 1 .. Len(wr) /\ k \in 0 .. n /\ k - 1 \in 0 .. n
      /\ 0 \in 0 .. n
  BY <1>1
<1>3. /\ base \in [0 .. Len(wr) -> Nat] /\ base[0] = Often(sh, text) + Often(ind, text)
      /\ \A k \in 1 .. Len(wr) : Numbered(wr[k], text, base[k - 1]) /\ base[k] = base[k - 1] + Often(wr[k], text)
  BY DEF Stream
<1>4. next \in [0 .. n -> Nat] /\ \A k \in 0 .. n : next[k] = base[k]
  BY <1>2, <1>3
<1> HIDE DEF next
<1>5. Stream(text, sh, ind, cut, next)
  BY <1>2, <1>3, <1>4 DEF Stream
<1> QED BY <1>5

-----------------------------------------------------------------------------
(* The connection from a word count to a printer *)

\* Nimbus still has each parent as often as it was asked for.
NotedOnce ==
  client \in {"submitted", "started"} /\ SpoutsFirst =>
    \A b \in DOMAIN stored.bolts, p \in Known, grouping \in Grouped :
      Noted(p, b, grouping) = IF p \in Reached THEN Asked(p, b, grouping) ELSE 0

\* Nothing after buildTopology changes what Nimbus has noted.
LEMMA NotedStep ==
  ASSUME SearchInv', NotedOnce, [Next]_vars
  PROVE  NotedOnce'
<1>1. CASE client' = "submitted"
  BY <1>1 DEF SearchInv, SpecAsBuilt, NotedOnce
<1>2. CASE client' = "started"
  <2>1. client \in {"submitted", "started"} /\ UNCHANGED <<nodes, stored>>
    <3>1. ~Describe
      BY <1>2 DEF Describe, SetSpout, SetBolt, SetNode, SetParent, Build, Collect, Submit
    <3> QED BY <1>2, <3>1, PipelineBuilder DEF builderVars
  <2>2. /\ Known' = Known /\ SpoutsFirst' = SpoutsFirst /\ Reached' = Reached
        /\ \A p, b, g : Asked(p, b, g)' = Asked(p, b, g) /\ Noted(p, b, g)' = Noted(p, b, g)
    BY <2>1 DEF SpoutsFirst, SpoutsAsked, Calls, Known, Edge, Noted, Asked, Reached
  <2> QED BY <2>1, <2>2 DEF NotedOnce
<1> QED BY <1>1, <1>2 DEF NotedOnce

\* The printer p has the word count q as its one parent.
Feeds(q, p) ==
  /\ PrintsCounts(p) /\ Runname[p] = "PrinterBolt"
  /\ \E c \in Calls : CallsFor(p) = {c} /\ c[1] = q

\* All connections to a printer that is fed by q come from q, for its one parent entry.
LEMMA FeedFacts ==
  ASSUME TreeInv, NotedOnce, running, NEW p, NEW q, Feeds(q, p)
  PROVE  /\ ByField(p) /\ ByField(q) /\ p # q /\ q \in Id
         /\ Runname[q] = "WordCountBolt" /\ q \notin stored.spouts
         /\ \A c \in Channel : To(c)[1] = p => TaskOf(From(c)) = q /\ c[2] = <<p, 1>>
<1>1. PICK c \in Calls : CallsFor(p) = {c} /\ c[1] = q
  BY DEF Feeds
<1>2. /\ SpoutsFirst /\ ByField(p) /\ ByField(q) /\ Runname[q] = "WordCountBolt"
      /\ q \notin SpoutsAsked /\ Runname[p] = "PrinterBolt"
  BY <1>1 DEF Feeds, PrintsCounts
<1>3. q \notin stored.spouts /\ p # q
  BY <1>2 DEF TreeInv, StoredOK, running
<1>4. q \in Known /\ q \in Id
  BY <1>1 DEF Calls, Known, TreeInv, TreeOK
<1>5. Edge(c)[2] = "field" /\ Edge(c)[1] = p
  BY <1>1, <1>2 DEF ByField, CallsFor
<1>6. "field" \in Grouped
  <2>1. Edge(c) \in Known \X Gr
    BY <1>1, ChildrenType DEF TreeInv, Calls, Edge, Known
  <2>2. "field" \in Gr
    BY <1>5, <2>1
  <2> QED BY <2>2 DEF Gr
<1>7. Asked(q, p, "field") \in {0, 1}
  <2> DEFINE A == {d \in Calls : d[1] = q /\ Edge(d) = <<p, "field">>}
  <2>1. A \subseteq {c}
    BY <1>1 DEF CallsFor
  <2>2. Cardinality({c}) = 1 /\ IsFiniteSet({c})
    BY FS_Singleton
  <2> HIDE DEF A
  <2>3. Cardinality(A) <= 1 /\ Cardinality(A) \in Nat
    BY <2>1, <2>2, FS_Subset, FS_CardinalityType
  <2> QED BY <2>3 DEF Asked, A
<1>8. ASSUME NEW d \in Channel, To(d)[1] = p PROVE TaskOf(From(d)) = q /\ d[2] = <<p, 1>>
  <2> DEFINE g == d[2]
             parents == stored.bolts[p].parents
  <2>1. g \in Groups(TaskOf(From(d))) /\ g[1] = p
    BY <1>8, ChannelParts
  <2>2. /\ p \in DOMAIN stored.bolts /\ g[2] \in 1 .. Len(parents) /\ g = <<g[1], g[2]>>
        /\ parents[g[2]][1] = TaskOf(From(d))
    BY <2>1, GroupParts
  <2>3. p \in DOMAIN boltMap /\ parents = boltMap[p].parents
    BY <2>2 DEF TreeInv, StoredOK, running
  <2>4. parents \in Seq(Known \X Gr)
    BY <2>3 DEF TreeInv, BuildOK
  <2>5. ASSUME NEW i \in 1 .. Len(parents) PROVE parents[i] = <<q, "field">>
    <3>1. PICK e \in Calls : e[1] = parents[i][1] /\ Edge(e) = <<p, parents[i][2]>>
      BY <2>3 DEF TreeInv, EntriesAsked
    <3>2. e = c
      BY <1>1, <3>1 DEF CallsFor
    <3>3. parents[i] \in Known \X Gr
      BY <2>4
    <3>4. parents[i][1] = q /\ parents[i][2] = "field"
      BY <1>1, <1>5, <3>1, <3>2
    <3> HIDE DEF parents
    <3> QED BY <3>3, <3>4
  <2>6. Noted(q, p, "field") <= 1
    <3>1. Noted(q, p, "field") = IF q \in Reached THEN Asked(q, p, "field") ELSE 0
      BY <1>2, <1>4, <1>6, <2>2 DEF NotedOnce, running
    <3> QED BY <1>7, <3>1
  <2>7. Len(parents) \in Nat /\ Len(parents) <= 1
    <3>1. Len(parents) \in Nat
      BY <2>4
    <3>2. Noted(q, p, "field") = Cardinality(1 .. Len(parents))
      <4>1. {i \in 1 .. Len(parents) : parents[i] = <<q, "field">>} = 1 .. Len(parents)
        BY <2>5
      <4> QED BY <4>1 DEF Noted
    <3>3. Cardinality(1 .. Len(parents)) = Len(parents)
      <4>1. 1 \in Int /\ Len(parents) \in Int /\ Len(parents) >= 0
        BY <3>1
      <4>2. Cardinality(1 .. Len(parents)) = IF 1 > Len(parents) THEN 0 ELSE Len(parents) - 1 + 1
        BY <4>1, FS_Interval
      <4> QED BY <4>1, <4>2
    <3> QED BY <2>6, <3>1, <3>2, <3>3
  <2>8. g[2] = 1
    BY <2>2, <2>7
  <2>9. parents[g[2]][1] = q
    BY <2>2, <2>5
  <2> QED BY <2>1, <2>2, <2>8, <2>9
<1> QED BY <1>2, <1>3, <1>4, <1>8

\* A word count has counted what it has to send.
MadeInv ==
  running => \A w \in Process :
    Runname[TaskOf(w)] = "WordCountBolt" /\ TaskOf(w) \notin stored.spouts =>
      \A i \in 1 .. Len(outData[w]) : counts[w][outData[w][i][1]] > 0

\* A word count that runs on a tuple has counted the tuple it makes of it.
LEMMA MadeBolt ==
  ASSUME StreamType, MadeInv, NEW w \in Process, Bolt(w)
  PROVE  MadeInv'
<1> DEFINE tuple == Head(inData[w])
           t == TaskOf(w)
<1>1. running /\ UNCHANGED builderVars
  BY DEF Bolt, Live
<1>2. tuple \in Tuple /\ tuple[1] \in Text /\ t \in Id
  <2>1. inData[w] \in Seq(Tuple) /\ inData[w] # << >>
    BY DEF StreamType, Bolt
  <2>2. tuple \in Tuple
    BY <2>1
  <2> QED BY <2>2, TupleParts DEF Process, TaskOf
<1>3. ASSUME NEW v \in Process, Runname[TaskOf(v)] = "WordCountBolt", TaskOf(v) \notin stored.spouts,
             NEW i \in 1 .. Len(outData'[v])
      PROVE  counts'[v][outData'[v][i][1]] > 0
  <2>1. outData' = [outData EXCEPT ![w] = outData[w] \o RunOnTuple(w, tuple)]
        /\ (Runname[t] = "WordCountBolt" =>
              counts' = [counts EXCEPT ![w] = [counts[w] EXCEPT ![tuple[1]] = counts[w][tuple[1]] + 1]])
        /\ (Runname[t] # "WordCountBolt" => counts' = counts)
    BY DEF Bolt
  <2> HIDE DEF tuple, t
  <2>2. \A j \in 1 .. Len(outData[v]) : outData[v][j] \in Tuple /\ counts[v][outData[v][j][1]] > 0
    <3>1. outData[v] \in Seq(Tuple)
      BY DEF StreamType
    <3> QED BY <1>1, <1>3, <3>1 DEF MadeInv
  <2>3. CASE v # w
    <3>1. outData'[v] = outData[v] /\ counts'[v] = counts[v]
      BY <2>1, <2>3 DEF StreamType
    <3> QED BY <1>3, <2>2, <3>1
  <2>4. CASE v = w
    <3> DEFINE one == <<tuple[1], counts[w][tuple[1]] + 1>>
               s == outData[w]
    <3>1. RunOnTuple(w, tuple) = <<one>> /\ outData'[w] = s \o <<one>>
      BY <1>3, <2>1, <2>4 DEF RunOnTuple, WordCount, StreamType
    <3>2. s \in Seq(Tuple) /\ counts[w] \in [Text -> Nat]
      BY DEF StreamType
    <3>3. counts'[w] = [counts[w] EXCEPT ![tuple[1]] = counts[w][tuple[1]] + 1]
      BY <1>3, <2>1, <2>4 DEF StreamType, t
    <3>4. /\ counts'[w][tuple[1]] > 0
          /\ \A text \in Text : counts[w][text] > 0 => counts'[w][text] > 0
      BY <1>2, <3>2, <3>3
    <3>5. one[1] = tuple[1]
      OBVIOUS
    <3> HIDE DEF one, s
    <3>6. /\ Len(s) \in Nat /\ Len(outData'[w]) = Len(s) + 1
          /\ i <= Len(s) => i \in 1 .. Len(s) /\ outData'[w][i] = s[i]
          /\ ~(i <= Len(s)) => outData'[w][i] = one
      BY <1>3, <2>4, <3>1, <3>2
    <3> QED BY <2>2, <2>4, <3>4, <3>5, <3>6, TupleParts DEF s
  <2> QED BY <2>3, <2>4
<1> QED BY <1>1, <1>3, Steady DEF MadeInv, builderVars

\* Every step leaves what a word count has to send among what it has counted.
LEMMA MadeStep ==
  ASSUME TreeInv, StreamType, MadeInv, [Next]_vars
  PROVE  MadeInv'
<1>1. CASE Describe
  BY <1>1 DEF running, Describe, SetSpout, SetBolt, SetNode, SetParent, Build, Collect, Submit, MadeInv
<1>2. ASSUME running, UNCHANGED <<builderVars, counts>>,
             \A w \in Process : TaskOf(w) \in stored.spouts \/ outData'[w] \in {outData[w], << >>}
      PROVE  MadeInv'
  <2>1. ASSUME NEW w \in Process, Runname[TaskOf(w)] = "WordCountBolt", TaskOf(w) \notin stored.spouts,
               NEW i \in 1 .. Len(outData'[w])
        PROVE  counts[w][outData'[w][i][1]] > 0
    <3>1. outData'[w] = outData[w]
      BY <1>2, <2>1
    <3> QED BY <1>2, <2>1, <3>1 DEF MadeInv
  <2> QED BY <1>2, <2>1, Steady DEF MadeInv, builderVars
<1>3. ASSUME NEW w \in Process, Spout(w) PROVE MadeInv'
  BY <1>2, <1>3 DEF Spout, Live, StreamType
<1>4. ASSUME NEW w \in Process, SendBatch(w) PROVE MadeInv'
  BY <1>2, <1>4 DEF SendBatch, Live, StreamType
<1>5. ASSUME NEW c \in DOMAIN wire, Receive(c) PROVE MadeInv'
  BY <1>2, <1>5 DEF Receive, Live
<1>6. ASSUME NEW w \in Process, Kill(w) PROVE MadeInv'
  <2>1. running /\ UNCHANGED <<builderVars, counts>>
        /\ \A v \in Process : outData'[v] = IF v = w THEN << >> ELSE outData[v]
    BY <1>6, KillParts
  <2> QED BY <1>2, <2>1
<1>7. ASSUME StartProcessing PROVE MadeInv'
  <2>1. \A w \in Process : outData'[w] = << >>
    BY <1>7 DEF StartProcessing, StreamType, StreamInit, running
  <2> QED BY <2>1 DEF MadeInv
<1>8. CASE UNCHANGED vars
  <2>1. UNCHANGED <<builderVars, counts, outData>>
    BY <1>8 DEF vars, queues
  <2> QED BY <2>1, Steady DEF MadeInv, builderVars
<1> QED BY <1>1, <1>3, <1>4, <1>5, <1>6, <1>7, <1>8, MadeBolt DEF Next, Work

\* Only printers write.
PrintedInv ==
  running => \A w \in Process : \A i \in 1 .. Len(shown[w]) : Runname[TaskOf(w)] = "PrinterBolt"

\* No step makes a bolt other than a printer write.
LEMMA PrintedStep ==
  ASSUME StreamType, PrintedInv, [Next]_vars
  PROVE  PrintedInv'
<1>1. CASE Describe
  BY <1>1 DEF running, Describe, SetSpout, SetBolt, SetNode, SetParent, Build, Collect, Submit, PrintedInv
<1>2. ASSUME running, UNCHANGED shown PROVE PrintedInv'
  BY <1>2 DEF PrintedInv
<1>3. CASE StartProcessing
  <2>1. \A w \in Process : shown'[w] = << >>
    BY <1>3 DEF StartProcessing, StreamType, StreamInit, running
  <2> QED BY <2>1 DEF PrintedInv
<1>4. ASSUME NEW w \in Process, Bolt(w) PROVE PrintedInv'
  <2>1. running /\ \A v \in Process : shown'[v] = shown[v] \/ Runname[TaskOf(v)] = "PrinterBolt"
    BY <1>4 DEF Bolt, Live, StreamType
  <2> QED BY <2>1 DEF PrintedInv
<1>5. CASE UNCHANGED vars
  BY <1>5 DEF vars, builderVars, running, PrintedInv
<1>6. ASSUME NEW w \in Process, Spout(w) \/ SendBatch(w) \/ Kill(w) PROVE PrintedInv'
  BY <1>2, <1>6 DEF Spout, SendBatch, Kill, Live
<1>7. ASSUME NEW c \in DOMAIN wire, Receive(c) PROVE PrintedInv'
  BY <1>2, <1>7 DEF Receive, Live
<1> QED BY <1>1, <1>3, <1>4, <1>5, <1>6, <1>7 DEF Next, Work

\* The instance of b that a text belongs to, and the connection on which the tuples of
\* the text go from q to p.
Instance(b, text) == <<b, Destination(b, <<text>>)>>
Line(q, p, text) == <<Instance(q, text), <<p, 1>>, Instance(p, text)>>

OneLine(q, p, text) ==
  \A c \in Channel : To(c) = Instance(p, text) /\ c # Line(q, p, text) =>
    \A k \in 1 .. Len(wire[c]) : Often(wire[c][k], text) = 0
ShownRight(p, text) == Numbered(shown[Instance(p, text)], text, 0)
HadRight(p, text) ==
  Instance(p, text) \notin dead =>
    Numbered(inData[Instance(p, text)], text, Often(shown[Instance(p, text)], text))
SentRight(q, text, last) ==
  Instance(q, text) \notin dead =>
    /\ Numbered(outData[Instance(q, text)], text, last)
    /\ counts[Instance(q, text)][text] = last + Often(outData[Instance(q, text)], text)
LineRight(q, p, text) ==
  Instance(p, text) \notin dead /\ Line(q, p, text) \in Channel =>
    \E base : /\ Stream(text, shown[Instance(p, text)], inData[Instance(p, text)], wire[Line(q, p, text)], base)
              /\ SentRight(q, text, base[Len(wire[Line(q, p, text)])])

Fed(q, p, text) == running /\ Feeds(q, p) /\ Instance(p, text) \in Process
\* From what is shown to what the word count has to send, the numbers of a text follow
\* on each other, and the last is what it has counted.
Right(q, p, text) ==
  OneLine(q, p, text) /\ ShownRight(p, text) /\ HadRight(p, text) /\ LineRight(q, p, text)

CountedInv == \A p, q \in Id, text \in Text : Fed(q, p, text) => Right(q, p, text)
BaseInv == TreeInv /\ StreamType /\ PlacedInv /\ MadeInv /\ PrintedInv /\ NotedOnce

\* While the builder is left alone, the instances and their connections are the same.
LEMMA SteadyLine ==
  ASSUME UNCHANGED builderVars
  PROVE  /\ (\A b, text : Instance(b, text)' = Instance(b, text))
         /\ (\A q, p, text : Line(q, p, text)' = Line(q, p, text))
         /\ (\A q, p : Feeds(q, p)' = Feeds(q, p))
         /\ (\A q, p, text : Fed(q, p, text)' = Fed(q, p, text))
<1>1. /\ (\A b, text : Instance(b, text)' = Instance(b, text))
      /\ (\A q, p, text : Line(q, p, text)' = Line(q, p, text))
  BY Steady DEF Instance, Line
<1>2. (\A q, p : Feeds(q, p)' = Feeds(q, p))
  BY Steady DEF Feeds
<1> QED BY <1>1, <1>2, Steady DEF Fed

\* The tuples of the text come from one instance of q, on one connection.
LEMMA FedFacts ==
  ASSUME BaseInv, NEW p \in Id, NEW q \in Id, NEW text \in Text, Fed(q, p, text)
  PROVE  /\ Instance(p, text) # Instance(q, text)
         /\ Line(q, p, text) \in Channel => Instance(q, text) \in Worker /\ Instance(q, text) \in Process
         /\ From(Line(q, p, text)) = Instance(q, text) /\ To(Line(q, p, text)) = Instance(p, text)
         /\ \A c \in Channel : To(c) = Instance(p, text) =>
              /\ From(c) \in Process
              /\ From(c) = Instance(q, text) => c = Line(q, p, text)
              /\ From(c) # Instance(q, text) => Often(outData[From(c)], text) = 0
<1>1. /\ p # q /\ ByField(q) /\ Runname[q] = "WordCountBolt" /\ q \notin stored.spouts
      /\ \A c \in Channel : To(c)[1] = p => TaskOf(From(c)) = q /\ c[2] = <<p, 1>>
  BY FeedFacts DEF BaseInv, Fed
<1>2. From(Line(q, p, text)) = Instance(q, text) /\ To(Line(q, p, text)) = Instance(p, text)
  BY DEF Line, From, To
<1>3. Line(q, p, text) \in Channel => Instance(q, text) \in Worker /\ Instance(q, text) \in Process
  BY <1>2, ChannelParts, WorkerParts
<1>4. ASSUME NEW c \in Channel, To(c) = Instance(p, text)
      PROVE  /\ From(c) \in Process
             /\ From(c) = Instance(q, text) => c = Line(q, p, text)
             /\ From(c) # Instance(q, text) => Often(outData[From(c)], text) = 0
  <2>1. /\ From(c) \in Process /\ TaskOf(From(c)) = q /\ c[2] = <<p, 1>>
        /\ c = <<From(c), c[2], To(c)>> /\ From(c) = <<q, From(c)[2]>>
    BY <1>1, <1>4, ChannelParts, WorkerParts DEF Instance
  <2>2. From(c) = Instance(q, text) => c = Line(q, p, text)
    BY <1>4, <2>1 DEF Line
  <2>3. ASSUME From(c) # Instance(q, text) PROVE Often(outData[From(c)], text) = 0
    <3> DEFINE w == From(c)
    <3>1. w \in Process /\ TaskOf(w) = q /\ w[2] # Destination(q, <<text>>)
      BY <2>1, <2>3 DEF Instance
    <3> HIDE DEF w
    <3>2. outData[w] \in Seq(Tuple)
      BY <3>1 DEF BaseInv, StreamType
    <3>3. ASSUME NEW i \in 1 .. Len(outData[w]), outData[w][i][1] = text PROVE FALSE
      <4>1. counts[w][text] > 0
        BY <1>1, <3>1, <3>3 DEF BaseInv, MadeInv, Fed
      <4>2. AtPlace(q)
        BY <1>1 DEF BaseInv, PlacedInv, Fed
      <4> QED BY <3>1, <4>1, <4>2 DEF AtPlace
    <3>4. Len(outData[w]) \in Nat /\ \A i \in 1 .. Len(outData[w]) : outData[w][i][1] # text
      BY <3>2, <3>3
    <3>5. Often(outData[w], text) = 0
      BY <3>4, NumberNone
    <3> QED BY <3>5 DEF w
  <2> QED BY <2>1, <2>2, <2>3
<1>5. Instance(p, text) # Instance(q, text)
  BY <1>1 DEF Instance
<1> QED BY <1>2, <1>3, <1>4, <1>5

\* What leaves the connections to p's instance, the instance and q's instance alone.
LEMMA RightKept ==
  ASSUME NEW p, NEW q, NEW text, Right(q, p, text), UNCHANGED builderVars,
         \A c \in Channel : To(c) = Instance(p, text) => wire'[c] = wire[c],
         Line(q, p, text) \in Channel => To(Line(q, p, text)) = Instance(p, text),
         Instance(p, text) \in dead => Instance(p, text) \in dead',
         Instance(q, text) \in dead => Instance(q, text) \in dead',
         shown'[Instance(p, text)] = shown[Instance(p, text)],
         inData'[Instance(p, text)] = inData[Instance(p, text)] \/ Instance(p, text) \in dead',
         Line(q, p, text) \in Channel =>
           \/ Instance(q, text) \in dead'
           \/ /\ outData'[Instance(q, text)] = outData[Instance(q, text)]
              /\ counts'[Instance(q, text)][text] = counts[Instance(q, text)][text]
  PROVE  Right(q, p, text)'
<1> DEFINE wp == Instance(p, text)
           wq == Instance(q, text)
           ch == Line(q, p, text)
<1>1. wp' = wp /\ wq' = wq /\ ch' = ch /\ Channel' = Channel
  BY Steady, SteadyLine
<1>2. OneLine(q, p, text)'
  BY <1>1 DEF Right, OneLine, To
<1>3. ShownRight(p, text)'
  BY <1>1 DEF Right, ShownRight
<1>4. HadRight(p, text)'
  BY <1>1 DEF Right, HadRight
<1>5. LineRight(q, p, text)'
  <2> SUFFICES ASSUME wp \notin dead', ch \in Channel
               PROVE  \E base : /\ Stream(text, shown'[wp], inData'[wp], wire'[ch], base)
                                /\ wq \notin dead' =>
                                     /\ Numbered(outData'[wq], text, base[Len(wire'[ch])])
                                     /\ counts'[wq][text] = base[Len(wire'[ch])] + Often(outData'[wq], text)
    BY <1>1 DEF LineRight, SentRight
  <2>1. wp \notin dead /\ wire'[ch] = wire[ch] /\ inData'[wp] = inData[wp] /\ shown'[wp] = shown[wp]
    OBVIOUS
  <2>2. PICK base : /\ Stream(text, shown[wp], inData[wp], wire[ch], base)
                    /\ SentRight(q, text, base[Len(wire[ch])])
    BY <2>1 DEF Right, LineRight
  <2>3. wq \notin dead' => /\ wq \notin dead /\ outData'[wq] = outData[wq]
                           /\ counts'[wq][text] = counts[wq][text]
    OBVIOUS
  <2>4. wq \notin dead' => /\ Numbered(outData'[wq], text, base[Len(wire'[ch])])
                           /\ counts'[wq][text] = base[Len(wire'[ch])] + Often(outData'[wq], text)
    BY <2>1, <2>2, <2>3 DEF SentRight
  <2> QED BY <2>1, <2>2, <2>4
<1> QED BY <1>2, <1>3, <1>4, <1>5 DEF Right

\* The same, said of the next state.
LEMMA RightNext ==
  ASSUME NEW p, NEW q, NEW text, UNCHANGED builderVars,
         \A c \in Channel : To(c) = Instance(p, text) /\ c # Line(q, p, text) =>
           \A k \in 1 .. Len(wire'[c]) : Often(wire'[c][k], text) = 0,
         Numbered(shown'[Instance(p, text)], text, 0),
         Instance(p, text) \notin dead' =>
           Numbered(inData'[Instance(p, text)], text, Often(shown'[Instance(p, text)], text)),
         Instance(p, text) \notin dead' /\ Line(q, p, text) \in Channel =>
           \E base :
             /\ Stream(text, shown'[Instance(p, text)], inData'[Instance(p, text)],
                       wire'[Line(q, p, text)], base)
             /\ Instance(q, text) \notin dead' =>
                  /\ Numbered(outData'[Instance(q, text)], text, base[Len(wire'[Line(q, p, text)])])
                  /\ counts'[Instance(q, text)][text] =
                       base[Len(wire'[Line(q, p, text)])] + Often(outData'[Instance(q, text)], text)
  PROVE  Right(q, p, text)'
<1> DEFINE wp == Instance(p, text)
           wq == Instance(q, text)
           ch == Line(q, p, text)
<1>1. wp' = wp /\ wq' = wq /\ ch' = ch /\ Channel' = Channel
  BY Steady, SteadyLine
<1>2. OneLine(q, p, text)'
  BY <1>1 DEF OneLine, To
<1>3. ShownRight(p, text)'
  BY <1>1 DEF ShownRight
<1>4. HadRight(p, text)'
  BY <1>1 DEF HadRight
<1>5. LineRight(q, p, text)'
  BY <1>1 DEF LineRight, SentRight
<1> QED BY <1>2, <1>3, <1>4, <1>5 DEF Right

\* The workers start with nothing counted and nothing on the way.
LEMMA RightStart ==
  ASSUME TreeInv, StreamType, StartProcessing, NEW p \in Id, NEW q \in Id, NEW text \in Text,
         Fed(q, p, text)'
  PROVE  Right(q, p, text)'
<1>1. StreamInit /\ Channel' = Channel
  BY DEF StreamType, StartProcessing, running, Channel, Worker, Groups, LevelOf, TaskOf
<1> DEFINE wp == Instance(p, text)'
           wq == Instance(q, text)'
           ch == Line(q, p, text)'
<1>2. wp \in Process
  BY DEF Fed
<1>3. \A w \in Process : /\ inData'[w] = << >> /\ shown'[w] = << >> /\ outData'[w] = << >>
                         /\ counts'[w][text] = 0
  BY <1>1 DEF StreamInit, StartProcessing
<1>4. \A c \in Channel : wire'[c] = << >>
  BY DEF StartProcessing
<1>5. Often(<< >>, text) = 0 /\ (\A from : Numbered(<< >>, text, from)) /\ Len(<< >>) = 0
  <2>1. Len(<< >>) \in Nat /\ Len(<< >>) = 0 /\ \A i \in 1 .. Len(<< >>) : << >>[i][1] # text
    OBVIOUS
  <2> QED BY <2>1, NumberNone
<1>6. ch \in Channel => wq \in Process
  <2>1. From(ch) = wq
    BY DEF Line, From
  <2> QED BY <2>1, ChannelParts, WorkerParts
<1>7. OneLine(q, p, text)' /\ ShownRight(p, text)' /\ HadRight(p, text)'
  BY <1>1, <1>2, <1>3, <1>4, <1>5 DEF OneLine, ShownRight, HadRight
<1>8. LineRight(q, p, text)'
  <2> SUFFICES ASSUME ch \in Channel
               PROVE  \E base : /\ Stream(text, shown'[wp], inData'[wp], wire'[ch], base)
                                /\ Numbered(outData'[wq], text, base[Len(wire'[ch])])
                                /\ counts'[wq][text] = base[Len(wire'[ch])] + Often(outData'[wq], text)
    BY <1>1 DEF LineRight, SentRight
  <2> DEFINE base == [k \in 0 .. 0 |-> 0]
  <2>1. Stream(text, << >>, << >>, << >>, base) /\ base[0] = 0
    BY <1>5 DEF Stream
  <2> HIDE DEF base, wp, wq, ch
  <2>2. /\ Stream(text, shown'[wp], inData'[wp], wire'[ch], base)
        /\ Numbered(outData'[wq], text, base[Len(wire'[ch])])
        /\ counts'[wq][text] = base[Len(wire'[ch])] + Often(outData'[wq], text)
    BY <1>2, <1>3, <1>4, <1>5, <1>6, <2>1
  <2> QED BY <2>2
<1> QED BY <1>7, <1>8 DEF Right

\* A bolt that runs on a tuple, the word count, the printer or another, leaves the numbers right.
LEMMA RightBolt ==
  ASSUME BaseInv, NEW p \in Id, NEW q \in Id, NEW text \in Text, Fed(q, p, text),
         Right(q, p, text), NEW w \in Process, Bolt(w)
  PROVE  Right(q, p, text)'
<1> DEFINE wp == Instance(p, text)
           wq == Instance(q, text)
           ch == Line(q, p, text)
           x == Head(inData[w])
<1>1. /\ wp # wq /\ wp \in Process /\ (ch \in Channel => wq \in Process)
      /\ Runname[p] = "PrinterBolt" /\ Runname[q] = "WordCountBolt"
      /\ TaskOf(wp) = p /\ TaskOf(wq) = q
      /\ (ch \in Channel => To(ch) = wp)
  <2>1. wp # wq /\ (ch \in Channel => wq \in Process) /\ To(ch) = wp
    BY FedFacts
  <2>2. Runname[q] = "WordCountBolt"
    BY FeedFacts DEF BaseInv, Fed
  <2>3. wp \in Process /\ Runname[p] = "PrinterBolt" /\ TaskOf(wp) = p /\ TaskOf(wq) = q
    BY DEF Fed, Feeds, Instance, TaskOf
  <2> QED BY <2>1, <2>2, <2>3
<1>2. /\ UNCHANGED <<builderVars, dead, wire>> /\ w \notin dead
      /\ inData[w] \in Seq(Tuple) /\ inData[w] # << >> /\ shown[w] \in Seq(Tuple)
      /\ outData[w] \in Seq(Tuple)
  BY DEF Bolt, Live, BaseInv, StreamType
<1>3. x \in Tuple /\ x[1] \in Text
  <2>1. x \in Tuple
    BY <1>2
  <2> QED BY <2>1, TupleParts
<1>4. /\ inData' = [inData EXCEPT ![w] = Tail(inData[w])]
      /\ outData' = [outData EXCEPT ![w] = outData[w] \o RunOnTuple(w, x)]
      /\ counts' = IF Runname[TaskOf(w)] = "WordCountBolt"
                   THEN [counts EXCEPT ![w] = [counts[w] EXCEPT ![x[1]] = counts[w][x[1]] + 1]]
                   ELSE counts
      /\ shown' = IF Runname[TaskOf(w)] = "PrinterBolt"
                  THEN [shown EXCEPT ![w] = Append(shown[w], x)] ELSE shown
  BY DEF Bolt
<1>5. /\ \A v \in Process : v # w => /\ inData'[v] = inData[v] /\ outData'[v] = outData[v]
                                     /\ counts'[v] = counts[v] /\ shown'[v] = shown[v]
      /\ inData'[w] = Tail(inData[w])
  BY <1>4 DEF BaseInv, StreamType
<1> HIDE DEF wp, wq, ch, x
<1>6. CASE w # wp /\ w # wq
  BY <1>1, <1>2, <1>5, <1>6, RightKept DEF wp, wq, ch
<1>7. CASE w = wp
  <2>1. /\ shown'[wp] = Append(shown[wp], Head(inData[wp])) /\ inData'[wp] = Tail(inData[wp])
        /\ wp \notin dead /\ inData[wp] \in Seq(Tuple) /\ inData[wp] # << >> /\ shown[wp] \in Seq(Tuple)
    BY <1>1, <1>2, <1>4, <1>5, <1>7 DEF BaseInv, StreamType, x
  <2>2. Numbered(shown[wp], text, 0) /\ Numbered(inData[wp], text, Often(shown[wp], text))
    BY <2>1 DEF Right, ShownRight, HadRight, wp
  <2>3. /\ Numbered(shown'[wp], text, 0) /\ Numbered(inData'[wp], text, Often(shown'[wp], text))
        /\ Often(shown'[wp], text) + Often(inData'[wp], text) = Often(shown[wp], text) + Often(inData[wp], text)
    BY <2>1, <2>2, StreamPrint
  <2>4. ch \in Channel =>
          \E base : /\ Stream(text, shown'[wp], inData'[wp], wire[ch], base)
                    /\ SentRight(q, text, base[Len(wire[ch])])
    <3>1. SUFFICES ASSUME ch \in Channel
                   PROVE  \E base : /\ Stream(text, shown'[wp], inData'[wp], wire[ch], base)
                                    /\ SentRight(q, text, base[Len(wire[ch])])
      OBVIOUS
    <3>2. PICK base : /\ Stream(text, shown[wp], inData[wp], wire[ch], base)
                      /\ SentRight(q, text, base[Len(wire[ch])])
      BY <2>1, <3>1 DEF Right, LineRight, wp, ch
    <3>3. Stream(text, shown'[wp], inData'[wp], wire[ch], base)
      BY <2>3, <3>2 DEF Stream
    <3> QED BY <3>2, <3>3
  <2>5. ch \in Channel =>
          \E base : /\ Stream(text, shown'[wp], inData'[wp], wire'[ch], base)
                    /\ wq \notin dead' =>
                         /\ Numbered(outData'[wq], text, base[Len(wire'[ch])])
                         /\ counts'[wq][text] = base[Len(wire'[ch])] + Often(outData'[wq], text)
    BY <1>1, <1>2, <1>5, <1>7, <2>4 DEF SentRight, wq
  <2>6. OneLine(q, p, text)
    BY DEF Right
  <2> QED BY <1>2, <2>3, <2>5, <2>6, RightNext DEF OneLine, wp, wq, ch
<1>8. CASE w = wq
  <2>1. /\ inData'[wp] = inData[wp] /\ shown'[wp] = shown[wp]
    BY <1>1, <1>5, <1>8
  <2> DEFINE n == counts[wq][x[1]] + 1
             one == <<x[1], n>>
             s == outData[wq]
  <2>2. outData'[wq] = s \o <<one>>
    BY <1>1, <1>4, <1>8 DEF RunOnTuple, WordCount, BaseInv, StreamType
  <2>3. /\ counts'[wq][text] = IF x[1] = text THEN counts[wq][text] + 1 ELSE counts[wq][text]
        /\ counts[wq] \in [Text -> Nat] /\ n \in Nat
    <3>1. counts[wq] \in [Text -> Nat] /\ counts'[wq] = [counts[wq] EXCEPT ![x[1]] = counts[wq][x[1]] + 1]
      BY <1>1, <1>4, <1>8 DEF BaseInv, StreamType
    <3> QED BY <1>3, <3>1
  <2>4. one \in Tuple /\ one[1] = x[1] /\ one[2] = n
    <3> HIDE DEF n
    <3> QED BY <1>3, <2>3, TupleParts
  <2>5. s \in Seq(Tuple) /\ <<one>> \in Seq(Tuple)
    BY <1>2, <1>8, <2>4
  <2> HIDE DEF one, s
  <2>6. ASSUME NEW last \in Nat, Numbered(s, text, last), counts[wq][text] = last + Often(s, text)
        PROVE  /\ Numbered(outData'[wq], text, last)
               /\ counts'[wq][text] = last + Often(outData'[wq], text)
    <3>1. /\ Often(s, text) \in Nat /\ Often(s \o <<one>>, text) = Often(s, text) + Often(<<one>>, text)
          /\ Numbered(s \o <<one>>, text, last) <=>
               Numbered(s, text, last) /\ Numbered(<<one>>, text, last + Often(s, text))
      BY <2>5, NumberConcat
    <3>2. last + Often(s, text) \in Nat
      BY <3>1
    <3>3. /\ Often(<<one>>, text) = IF one[1] = text THEN 1 ELSE 0
          /\ Numbered(<<one>>, text, last + Often(s, text)) <=>
               (one[1] = text => one[2] = (last + Often(s, text)) + 1)
      BY <3>2, NumberOne
    <3>4. Numbered(<<one>>, text, last + Often(s, text))
      BY <2>4, <2>6, <3>3
    <3>5. counts'[wq][text] = last + Often(s \o <<one>>, text)
      BY <2>3, <2>4, <2>6, <3>1, <3>3
    <3> QED BY <2>2, <2>6, <3>1, <3>4, <3>5
  <2>7. wp \notin dead' /\ ch \in Channel =>
          \E base : /\ Stream(text, shown'[wp], inData'[wp], wire'[ch], base)
                    /\ wq \notin dead' =>
                         /\ Numbered(outData'[wq], text, base[Len(wire'[ch])])
                         /\ counts'[wq][text] = base[Len(wire'[ch])] + Often(outData'[wq], text)
    <3>1. SUFFICES ASSUME wp \notin dead, ch \in Channel
                   PROVE  \E base : /\ Stream(text, shown[wp], inData[wp], wire[ch], base)
                                    /\ Numbered(outData'[wq], text, base[Len(wire[ch])])
                                    /\ counts'[wq][text] = base[Len(wire[ch])] + Often(outData'[wq], text)
      BY <1>2, <2>1
    <3>2. PICK base : /\ Stream(text, shown[wp], inData[wp], wire[ch], base)
                      /\ SentRight(q, text, base[Len(wire[ch])])
      BY <3>1 DEF Right, LineRight, wp, ch
    <3>3. base[Len(wire[ch])] \in Nat
      <4>1. Len(wire[ch]) \in Nat /\ base \in [0 .. Len(wire[ch]) -> Nat]
        BY <3>1, <3>2 DEF BaseInv, StreamType, Fed, Stream
      <4> QED BY <4>1
    <3>4. /\ Numbered(s, text, base[Len(wire[ch])])
          /\ counts[wq][text] = base[Len(wire[ch])] + Often(s, text)
      BY <1>2, <1>8, <3>2 DEF SentRight, wq, s
    <3>5. /\ Numbered(outData'[wq], text, base[Len(wire[ch])])
          /\ counts'[wq][text] = base[Len(wire[ch])] + Often(outData'[wq], text)
      BY <2>6, <3>3, <3>4
    <3> QED BY <3>2, <3>5
  <2>8. OneLine(q, p, text) /\ ShownRight(p, text) /\ HadRight(p, text)
    BY DEF Right
  <2> QED BY <1>2, <2>1, <2>7, <2>8, RightNext DEF OneLine, ShownRight, HadRight, wp, wq, ch
<1> QED BY <1>6, <1>7, <1>8

\* The tuples of a batch of w that belong to an instance of b.
Share(w, b, place) == {k \in 1 .. Len(outData[w]) : Destination(b, outData[w][k]) = place}

\* On a connection of a field group goes what belongs to the instance at its end.
LEMMA SendField ==
  ASSUME TreeInv, StreamType, NEW w \in Process, SendBatch(w), NEW b, ByField(b),
         NEW c \in Channel, To(c)[1] = b
  PROVE  LET batch == Picked(outData[w], Share(w, b, To(c)[2]))
         IN  wire'[c] = IF From(c) = w /\ batch # << >> THEN Append(wire[c], batch) ELSE wire[c]
<1>1. running
  BY DEF SendBatch, Live
<1>2. PICK scheme \in [Groups(TaskOf(w)) -> {"shuffle", "field", "none"}],
           pick \in [Groups(TaskOf(w)) -> Place] :
        /\ \A g \in Groups(TaskOf(w)) : scheme[g] \in Schemes(Grouping(g))
        /\ wire' = [d \in DOMAIN wire |->
            LET batch == BatchTo(d[2], To(d)[2], scheme[d[2]], pick[d[2]], outData[w]) IN
            IF From(d) = w /\ batch # << >> THEN Append(wire[d], batch) ELSE wire[d]]
  BY DEF SendBatch
<1>3. DOMAIN wire = Channel
  BY <1>1 DEF StreamType
<1>4. ASSUME From(c) = w
      PROVE  BatchTo(c[2], To(c)[2], scheme[c[2]], pick[c[2]], outData[w]) =
               Picked(outData[w], Share(w, b, To(c)[2]))
  <2>1. c[2] \in Groups(TaskOf(w)) /\ c[2][1] = b
    BY <1>4, ChannelParts
  <2>2. Grouping(c[2]) = "field"
    BY <1>1, <2>1, GroupParts
  <2>3. scheme[c[2]] = "field"
    BY <1>2, <2>1, <2>2 DEF Schemes
  <2> QED BY <2>1, <2>3 DEF BatchTo, Share
<1> QED BY <1>2, <1>3, <1>4

\* So does a worker that sends: the word count's batch goes on with the numbers on the wire.
LEMMA RightSend ==
  ASSUME BaseInv, NEW p \in Id, NEW q \in Id, NEW text \in Text, Fed(q, p, text),
         Right(q, p, text), NEW w \in Process, SendBatch(w)
  PROVE  Right(q, p, text)'
<1> DEFINE wp == Instance(p, text)
           wq == Instance(q, text)
           ch == Line(q, p, text)
           s == outData[w]
           I == Share(w, p, wp[2])
           batch == Picked(s, I)
<1>1. /\ wp # wq /\ (ch \in Channel => wq \in Process) /\ To(ch) = wp /\ From(ch) = wq
      /\ \A c \in Channel : To(c) = wp =>
           /\ From(c) \in Process
           /\ From(c) = wq => c = ch
           /\ From(c) # wq => Often(outData[From(c)], text) = 0
  BY FedFacts
<1>2. ByField(p) /\ running
  BY FeedFacts DEF BaseInv, Fed
<1>3. /\ UNCHANGED <<builderVars, dead, shown, inData, counts>> /\ s \in Seq(Tuple)
      /\ w \notin dead
      /\ wire \in [Channel -> Seq(Seq(Tuple))]
      /\ \A v \in Process : outData'[v] = IF v = w THEN << >> ELSE outData[v]
  BY <1>2 DEF SendBatch, Live, BaseInv, StreamType
<1>4. \A c \in Channel : To(c) = wp =>
        wire'[c] = IF From(c) = w /\ batch # << >> THEN Append(wire[c], batch) ELSE wire[c]
  <2>1. ASSUME NEW c \in Channel, To(c) = wp
        PROVE  wire'[c] = IF From(c) = w /\ batch # << >> THEN Append(wire[c], batch) ELSE wire[c]
    <3>1. To(c)[1] = p /\ To(c)[2] = wp[2]
      BY <2>1 DEF Instance
    <3>2. LET b == Picked(outData[w], Share(w, p, To(c)[2]))
          IN  wire'[c] = IF From(c) = w /\ b # << >> THEN Append(wire[c], b) ELSE wire[c]
      BY <1>2, <3>1, SendField DEF BaseInv
    <3> QED BY <3>1, <3>2
  <2> QED BY <2>1
<1>5. /\ batch \in Seq(Tuple) /\ Often(batch, text) = Often(s, text)
      /\ \A from \in Nat : Numbered(s, text, from) => Numbered(batch, text, from)
  <2>1. ASSUME NEW i \in 1 .. Len(s), s[i][1] = text PROVE i \in I
    BY <2>1 DEF Instance, Destination, Share
  <2>2. I \in SUBSET (1 .. Len(s))
    BY DEF Share
  <2> HIDE DEF I, s
  <2>3. batch \in Seq(Tuple)
    BY <1>3, <2>2, PickedProperties
  <2>4. ASSUME NEW from \in Nat
        PROVE  /\ Often(batch, text) = Often(s, text)
               /\ Numbered(s, text, from) => Numbered(batch, text, from)
    BY <1>3, <2>1, <2>2, NumberPicked
  <2>5. 0 \in Nat
    OBVIOUS
  <2> QED BY <2>3, <2>4, <2>5
<1> HIDE DEF wp, wq, ch, s, I, batch
<1>6. ASSUME NEW c \in Channel, To(c) = wp, c # ch, NEW k \in 1 .. Len(wire'[c])
      PROVE  Often(wire'[c][k], text) = 0
  <2>1. \A j \in 1 .. Len(wire[c]) : Often(wire[c][j], text) = 0
    BY <1>6 DEF Right, OneLine, wp, ch
  <2>2. CASE wire'[c] = wire[c]
    BY <1>6, <2>1, <2>2
  <2>3. CASE From(c) = w /\ wire'[c] = Append(wire[c], batch)
    <3>1. Often(batch, text) = 0
      BY <1>1, <1>5, <1>6, <2>3 DEF s
    <3> DEFINE S == Seq(Tuple)
               old == wire[c]
    <3>2. old \in Seq(S) /\ batch \in S
      BY <1>3, <1>5
    <3> HIDE DEF S, old
    <3>3. /\ Len(Append(old, batch)) = Len(old) + 1 /\ Len(old) \in Nat
          /\ \A j \in 1 .. Len(old) + 1 : Append(old, batch)[j] = IF j <= Len(old) THEN old[j] ELSE batch
      BY <3>2, AppendProperties
    <3>4. k \in 1 .. Len(old) + 1 /\ (k <= Len(old) => k \in 1 .. Len(old))
      BY <1>6, <2>3, <3>3 DEF old
    <3> QED BY <2>1, <2>3, <3>1, <3>3, <3>4 DEF old
  <2> QED BY <1>4, <1>6, <2>2, <2>3
<1>7. wp \notin dead' /\ ch \in Channel =>
        \E base : /\ Stream(text, shown'[wp], inData'[wp], wire'[ch], base)
                  /\ wq \notin dead' =>
                       /\ Numbered(outData'[wq], text, base[Len(wire'[ch])])
                       /\ counts'[wq][text] = base[Len(wire'[ch])] + Often(outData'[wq], text)
  <2>1. SUFFICES ASSUME wp \notin dead, ch \in Channel
                 PROVE  \E base : /\ Stream(text, shown[wp], inData[wp], wire'[ch], base)
                                  /\ wq \notin dead =>
                                       /\ Numbered(outData'[wq], text, base[Len(wire'[ch])])
                                       /\ counts[wq][text] = base[Len(wire'[ch])] + Often(outData'[wq], text)
    BY <1>3
  <2>2. PICK base : /\ Stream(text, shown[wp], inData[wp], wire[ch], base)
                    /\ SentRight(q, text, base[Len(wire[ch])])
    BY <2>1 DEF Right, LineRight, wp, ch
  <2>3. wq \in Process /\ Len(wire[ch]) \in Nat /\ base[Len(wire[ch])] \in Nat
    <3>1. Len(wire[ch]) \in Nat /\ base \in [0 .. Len(wire[ch]) -> Nat] /\ wq \in Process
      BY <1>1, <1>3, <2>1, <2>2 DEF Stream
    <3> QED BY <3>1
  <2>4. CASE w # wq
    <3>1. wire'[ch] = wire[ch] /\ outData'[wq] = outData[wq]
      BY <1>1, <1>3, <1>4, <2>1, <2>3, <2>4
    <3> QED BY <2>2, <3>1 DEF SentRight, wq
  <2>5. CASE w = wq
    <3> DEFINE last == base[Len(wire[ch])]
    <3>1. /\ Numbered(batch, text, last)
          /\ counts[wq][text] = last + Often(batch, text)
      <4>1. Numbered(s, text, last) /\ counts[wq][text] = last + Often(s, text)
        BY <1>3, <2>2, <2>5 DEF SentRight, wq, s
      <4> QED BY <1>5, <2>3, <4>1
    <3>2. outData'[wq] = << >> /\ (\A from : Numbered(<< >>, text, from)) /\ Often(<< >>, text) = 0
      <4>1. Len(<< >>) \in Nat /\ \A i \in 1 .. Len(<< >>) : << >>[i][1] # text
        OBVIOUS
      <4> QED BY <1>3, <2>3, <2>5, <4>1, NumberNone
    <3>3. CASE batch = << >>
      <4>1. wire'[ch] = wire[ch]
        BY <1>1, <1>4, <2>1, <3>3
      <4>2. counts[wq][text] = last + Often(<< >>, text)
        BY <3>1, <3>3
      <4> QED BY <2>2, <3>2, <4>1, <4>2
    <3>4. CASE batch # << >>
      <4>1. wire'[ch] = Append(wire[ch], batch)
        BY <1>1, <1>4, <2>1, <2>5, <3>4
      <4>2. wire[ch] \in Seq(Seq(Tuple)) /\ shown[wp] \in Seq(Tuple) /\ inData[wp] \in Seq(Tuple)
        BY <1>3, <2>1 DEF BaseInv, StreamType, Fed, wp
      <4>3. PICK next : /\ Stream(text, shown[wp], inData[wp], Append(wire[ch], batch), next)
                        /\ next[Len(Append(wire[ch], batch))] = last + Often(batch, text)
        <5> DEFINE wr == wire[ch]
                   sh == shown[wp]
                   ind == inData[wp]
        <5>1. wr \in Seq(Seq(Tuple)) /\ sh \in Seq(Tuple) /\ ind \in Seq(Tuple)
          BY <4>2
        <5>2. Stream(text, sh, ind, wr, base) /\ Numbered(batch, text, base[Len(wr)])
          BY <2>2, <3>1
        <5> HIDE DEF wr, sh, ind
        <5>3. \E next : /\ Stream(text, sh, ind, Append(wr, batch), next)
                        /\ next[Len(Append(wr, batch))] = base[Len(wr)] + Often(batch, text)
          BY <1>5, <5>1, <5>2, StreamSend
        <5> QED BY <5>3 DEF wr, sh, ind
      <4>4. counts[wq][text] = next[Len(wire'[ch])] + Often(<< >>, text)
        <5>1. counts[wq][text] = next[Len(wire'[ch])]
          BY <3>1, <4>1, <4>3
        <5>2. last + Often(batch, text) \in Nat
          BY <1>5, <2>3, NumberConcat
        <5> QED BY <3>1, <3>2, <5>1, <5>2
      <4> QED BY <3>2, <4>1, <4>3, <4>4
    <3> QED BY <3>3, <3>4
  <2> QED BY <2>4, <2>5
<1>8. ShownRight(p, text) /\ HadRight(p, text)
  BY DEF Right
<1> QED BY <1>3, <1>6, <1>7, <1>8, RightNext DEF ShownRight, HadRight, wp, wq, ch

\* So does a worker that receives: the first batch on the wire goes on with what it has.
LEMMA RightReceive ==
  ASSUME BaseInv, NEW p \in Id, NEW q \in Id, NEW text \in Text, Fed(q, p, text),
         Right(q, p, text), NEW c \in DOMAIN wire, Receive(c)
  PROVE  Right(q, p, text)'
<1> DEFINE wp == Instance(p, text)
           wq == Instance(q, text)
           ch == Line(q, p, text)
<1>1. wp # wq /\ To(ch) = wp /\ wp \in Process
  BY FedFacts DEF Fed
<1>2. /\ UNCHANGED <<builderVars, dead, shown, counts, outData>>
      /\ c \in Channel /\ wire \in [Channel -> Seq(Seq(Tuple))] /\ wire[c] # << >>
      /\ wire[c] \in Seq(Seq(Tuple))
      /\ inData \in [Process -> Seq(Tuple)] /\ To(c) \notin dead
      /\ shown[wp] \in Seq(Tuple) /\ inData[wp] \in Seq(Tuple)
  BY <1>1 DEF Receive, BaseInv, StreamType, Fed, Live
<1>3. /\ \A d \in Channel : wire'[d] = IF d = c THEN Tail(wire[c]) ELSE wire[d]
      /\ \A v \in Process : inData'[v] = IF v = To(c) THEN inData[v] \o Head(wire[c]) ELSE inData[v]
  BY <1>2 DEF Receive
<1>4. /\ Len(wire[c]) \in Nat /\ Len(wire[c]) >= 1 /\ Head(wire[c]) = wire[c][1]
      /\ Head(wire[c]) \in Seq(Tuple) /\ Len(Tail(wire[c])) = Len(wire[c]) - 1
      /\ \A k \in 1 .. Len(Tail(wire[c])) : Tail(wire[c])[k] = wire[c][k + 1]
  <2> DEFINE S == Seq(Tuple)
             r == wire[c]
  <2>1. r \in Seq(S) /\ r # << >>
    BY <1>2
  <2> HIDE DEF S, r
  <2>2. Len(r) \in Nat /\ Len(r) # 0
    BY <2>1
  <2>3. /\ Len(r) \in Nat /\ Len(r) >= 1 /\ Head(r) = r[1] /\ Head(r) \in S
        /\ Len(Tail(r)) = Len(r) - 1 /\ \A k \in 1 .. Len(Tail(r)) : Tail(r)[k] = r[k + 1]
    BY <2>1, <2>2, HeadTailProperties
  <2> QED BY <2>3 DEF S, r
<1> HIDE DEF wp, wq, ch
<1>5. ASSUME NEW d \in Channel, To(d) = wp, d # ch, NEW k \in 1 .. Len(wire'[d])
      PROVE  Often(wire'[d][k], text) = 0
  <2>1. \A j \in 1 .. Len(wire[d]) : Often(wire[d][j], text) = 0
    BY <1>5 DEF Right, OneLine, wp, ch
  <2>2. CASE d # c
    BY <1>3, <1>5, <2>1, <2>2
  <2>3. CASE d = c
    <3> DEFINE r == wire[c]
               rest == Tail(wire[c])
    <3>1. wire'[d] = rest /\ k \in 1 .. Len(rest)
      BY <1>3, <1>5, <2>3
    <3>2. Len(r) \in Nat /\ Len(rest) = Len(r) - 1 /\ \A j \in 1 .. Len(rest) : rest[j] = r[j + 1]
      BY <1>4
    <3>3. \A j \in 1 .. Len(r) : Often(r[j], text) = 0
      BY <2>1, <2>3
    <3> HIDE DEF r, rest
    <3>4. k + 1 \in 1 .. Len(r) /\ rest[k] = r[k + 1]
      BY <3>1, <3>2
    <3> QED BY <3>1, <3>3, <3>4
  <2> QED BY <2>2, <2>3
<1>6. ShownRight(p, text) /\ OneLine(q, p, text) /\ HadRight(p, text) /\ LineRight(q, p, text)
  BY DEF Right
<1>7. CASE To(c) # wp
  <2>1. inData'[wp] = inData[wp] /\ (ch \in Channel => wire'[ch] = wire[ch])
    BY <1>1, <1>3, <1>7
  <2>2. \A d \in Channel : To(d) = wp => wire'[d] = wire[d]
    BY <1>3, <1>7
  <2> QED BY <1>1, <1>2, <2>1, <2>2, RightKept DEF wp, wq, ch
<1>8. CASE To(c) = wp /\ c # ch
  <2> DEFINE first == Head(wire[c])
             from == Often(shown[wp], text)
  <2>1. inData'[wp] = inData[wp] \o first /\ first \in Seq(Tuple) /\ wp \notin dead
    BY <1>1, <1>2, <1>3, <1>4, <1>8
  <2>2. Often(first, text) = 0
    <3>1. 1 \in 1 .. Len(wire[c])
      BY <1>4
    <3>2. c # Line(q, p, text) /\ To(c) = Instance(p, text)
      BY <1>8 DEF wp, ch
    <3>3. Often(wire[c][1], text) = 0
      BY <1>2, <1>6, <3>1, <3>2 DEF OneLine
    <3> QED BY <1>4, <3>3
  <2> HIDE DEF first
  <2>3. from \in Nat /\ Often(inData[wp], text) \in Nat
    BY <1>2, NumberConcat
  <2>4. Numbered(inData[wp], text, from)
    BY <1>6, <2>1 DEF HadRight, wp
  <2> HIDE DEF from
  <2>5. Numbered(first, text, from + Often(inData[wp], text))
    <3>1. Len(first) \in Nat
      BY <2>1
    <3> QED BY <2>2, <3>1, NumberNone
  <2>6. Often(inData'[wp], text) = Often(inData[wp], text) /\ Numbered(inData'[wp], text, from)
    <3>1. /\ Often(inData[wp] \o first, text) = Often(inData[wp], text) + Often(first, text)
          /\ Numbered(inData[wp] \o first, text, from) <=>
               Numbered(inData[wp], text, from) /\ Numbered(first, text, from + Often(inData[wp], text))
      <4> PICK s, i : s = inData[wp] /\ i = from
        OBVIOUS
      <4>1. s \in Seq(Tuple) /\ first \in Seq(Tuple) /\ i \in Nat
        BY <1>2, <2>1, <2>3
      <4>2. /\ Often(s \o first, text) = Often(s, text) + Often(first, text)
            /\ Numbered(s \o first, text, i) <=>
                 Numbered(s, text, i) /\ Numbered(first, text, i + Often(s, text))
        BY <4>1, NumberConcat
      <4> QED BY <4>2
    <3> QED BY <2>1, <2>2, <2>3, <2>4, <2>5, <3>1
  <2>7. ch \in Channel =>
          \E base : /\ Stream(text, shown'[wp], inData'[wp], wire'[ch], base)
                    /\ wq \notin dead' =>
                         /\ Numbered(outData'[wq], text, base[Len(wire'[ch])])
                         /\ counts'[wq][text] = base[Len(wire'[ch])] + Often(outData'[wq], text)
    <3>1. SUFFICES ASSUME ch \in Channel
                   PROVE  \E base : /\ Stream(text, shown[wp], inData'[wp], wire[ch], base)
                                    /\ SentRight(q, text, base[Len(wire[ch])])
      BY <1>2, <1>3, <1>8 DEF SentRight, wq
    <3>2. PICK base : /\ Stream(text, shown[wp], inData[wp], wire[ch], base)
                      /\ SentRight(q, text, base[Len(wire[ch])])
      BY <1>6, <2>1, <3>1 DEF LineRight, wp, ch
    <3>3. Stream(text, shown[wp], inData'[wp], wire[ch], base)
      BY <2>6, <3>2 DEF Stream
    <3> QED BY <3>2, <3>3
  <2>8. Numbered(inData'[wp], text, Often(shown'[wp], text)) /\ Numbered(shown'[wp], text, 0)
    BY <1>2, <1>6, <2>6 DEF ShownRight, wp, from
  <2> QED BY <1>2, <1>5, <2>7, <2>8, RightNext DEF wp, wq, ch
<1>9. CASE c = ch
  <2>1. /\ inData'[wp] = inData[wp] \o Head(wire[ch]) /\ wire'[ch] = Tail(wire[ch])
        /\ ch \in Channel /\ wp \notin dead /\ wire[ch] # << >> /\ wire[ch] \in Seq(Seq(Tuple))
    BY <1>1, <1>2, <1>3, <1>9
  <2>2. PICK base : /\ Stream(text, shown[wp], inData[wp], wire[ch], base)
                    /\ SentRight(q, text, base[Len(wire[ch])])
    BY <1>6, <2>1 DEF LineRight, wp, ch
  <2>3. Numbered(inData[wp], text, Often(shown[wp], text))
    BY <1>6, <2>1 DEF HadRight, wp
  <2>4. /\ Numbered(inData'[wp], text, Often(shown[wp], text))
        /\ \E next : /\ Stream(text, shown[wp], inData'[wp], wire'[ch], next)
                     /\ next[Len(wire'[ch])] = base[Len(wire[ch])]
    BY <1>2, <2>1, <2>2, <2>3, StreamReceive
  <2>5. \E next : /\ Stream(text, shown'[wp], inData'[wp], wire'[ch], next)
                  /\ wq \notin dead' =>
                       /\ Numbered(outData'[wq], text, next[Len(wire'[ch])])
                       /\ counts'[wq][text] = next[Len(wire'[ch])] + Often(outData'[wq], text)
    <3>1. PICK next : /\ Stream(text, shown[wp], inData'[wp], wire'[ch], next)
                      /\ next[Len(wire'[ch])] = base[Len(wire[ch])]
      BY <2>4
    <3> QED BY <1>2, <2>2, <3>1 DEF SentRight, wq
  <2> QED BY <1>2, <1>5, <1>6, <2>4, <2>5, RightNext DEF ShownRight, wp, wq, ch
<1> QED BY <1>7, <1>8, <1>9

\* So does a kill: what is lost of the wire is its end, and who would go on from there is dead.
LEMMA RightKill ==
  ASSUME BaseInv, NEW p \in Id, NEW q \in Id, NEW text \in Text, Fed(q, p, text),
         Right(q, p, text), NEW w \in Process, Kill(w)
  PROVE  Right(q, p, text)'
<1> DEFINE wp == Instance(p, text)
           wq == Instance(q, text)
           ch == Line(q, p, text)
<1>1. wp # wq /\ To(ch) = wp /\ From(ch) = wq /\ wp \in Process /\ (ch \in Channel => wq \in Process)
  BY FedFacts DEF Fed
<1>2. /\ dead' = dead \cup {w} /\ UNCHANGED <<builderVars, shown, counts>>
      /\ \A v \in Process : /\ inData'[v] = IF v = w THEN << >> ELSE inData[v]
                            /\ outData'[v] = IF v = w THEN << >> ELSE outData[v]
      /\ \A c \in Channel : /\ To(c) = w => wire'[c] = << >>
                            /\ To(c) # w /\ From(c) # w => wire'[c] = wire[c]
      /\ \A c \in Channel : To(c) # w =>
           \E n \in 0 .. Len(wire[c]) : /\ Len(wire'[c]) = n
                                        /\ \A k \in 1 .. n : wire'[c][k] = wire[c][k]
  BY KillParts DEF BaseInv
<1> HIDE DEF wp, wq, ch
<1>3. wire \in [Channel -> Seq(Seq(Tuple))]
  BY DEF BaseInv, StreamType, Fed
<1>4. ShownRight(p, text) /\ OneLine(q, p, text) /\ HadRight(p, text) /\ LineRight(q, p, text)
  BY DEF Right
<1>5. ASSUME NEW d \in Channel, To(d) = wp, d # ch, NEW k \in 1 .. Len(wire'[d])
      PROVE  Often(wire'[d][k], text) = 0
  <2>1. To(d) # w
    BY <1>2, <1>5
  <2>2. PICK n \in 0 .. Len(wire[d]) : /\ Len(wire'[d]) = n
                                       /\ \A j \in 1 .. n : wire'[d][j] = wire[d][j]
    BY <1>2, <2>1
  <2>3. Len(wire[d]) \in Nat
    BY <1>3
  <2>4. k \in 1 .. Len(wire[d]) /\ wire'[d][k] = wire[d][k]
    BY <1>5, <2>2, <2>3
  <2> QED BY <1>4, <1>5, <2>4 DEF OneLine, wp, ch
<1>6. wp \notin dead' => Numbered(inData'[wp], text, Often(shown'[wp], text))
  <2>1. SUFFICES ASSUME wp # w, wp \notin dead PROVE Numbered(inData'[wp], text, Often(shown'[wp], text))
    BY <1>2
  <2>2. inData'[wp] = inData[wp] /\ shown'[wp] = shown[wp]
    BY <1>1, <1>2, <2>1
  <2> QED BY <1>4, <2>1, <2>2 DEF HadRight, wp
<1>7. wp \notin dead' /\ ch \in Channel =>
        \E base : /\ Stream(text, shown'[wp], inData'[wp], wire'[ch], base)
                  /\ wq \notin dead' =>
                       /\ Numbered(outData'[wq], text, base[Len(wire'[ch])])
                       /\ counts'[wq][text] = base[Len(wire'[ch])] + Often(outData'[wq], text)
  <2>1. SUFFICES ASSUME wp # w, wp \notin dead, ch \in Channel
                 PROVE  \E base : /\ Stream(text, shown[wp], inData[wp], wire'[ch], base)
                                  /\ wq \notin dead' =>
                                       /\ Numbered(outData'[wq], text, base[Len(wire'[ch])])
                                       /\ counts[wq][text] = base[Len(wire'[ch])] + Often(outData'[wq], text)
    BY <1>1, <1>2
  <2>2. PICK base : /\ Stream(text, shown[wp], inData[wp], wire[ch], base)
                    /\ SentRight(q, text, base[Len(wire[ch])])
    BY <1>4, <2>1 DEF LineRight, wp, ch
  <2>3. CASE wq # w
    <3>1. wire'[ch] = wire[ch] /\ outData'[wq] = outData[wq]
      BY <1>1, <1>2, <2>1, <2>3
    <3> QED BY <1>2, <2>2, <3>1 DEF SentRight, wq
  <2>4. CASE wq = w
    <3>1. PICK n \in 0 .. Len(wire[ch]) : /\ Len(wire'[ch]) = n
                                          /\ \A j \in 1 .. n : wire'[ch][j] = wire[ch][j]
      BY <1>1, <1>2, <2>1
    <3>2. wire[ch] \in Seq(Seq(Tuple))
      BY <1>3, <2>1
    <3>3. \E next : Stream(text, shown[wp], inData[wp], wire'[ch], next)
      BY <2>2, <3>1, <3>2, StreamCut
    <3> QED BY <1>2, <2>4, <3>3
  <2> QED BY <2>3, <2>4
<1> QED BY <1>2, <1>4, <1>5, <1>6, <1>7, RightNext DEF ShownRight, wp, wq, ch

\* Every step leaves the numbers right.
LEMMA CountedStep ==
  ASSUME BaseInv, CountedInv, [Next]_vars
  PROVE  CountedInv'
<1> SUFFICES ASSUME NEW p \in Id, NEW q \in Id, NEW text \in Text, Fed(q, p, text)'
             PROVE  Right(q, p, text)'
  BY DEF CountedInv
<1>1. CASE Describe
  BY <1>1 DEF running, Describe, SetSpout, SetBolt, SetNode, SetParent, Build, Collect, Submit, Fed
<1>2. ASSUME UNCHANGED builderVars PROVE Fed(q, p, text) /\ Right(q, p, text)
  BY <1>2, SteadyLine DEF CountedInv
<1>3. CASE UNCHANGED vars
  <2>1. UNCHANGED <<builderVars, dead, shown, counts, inData, outData, wire>>
    BY <1>3 DEF vars, queues
  <2>2. To(Line(q, p, text)) = Instance(p, text)
    BY DEF To, Line
  <2> QED BY <1>2, <2>1, <2>2, RightKept
<1>4. ASSUME NEW w \in Process, Spout(w) PROVE Right(q, p, text)'
  <2>1. /\ UNCHANGED <<builderVars, dead, shown, counts, inData, wire>>
        /\ TaskOf(w) \in stored.spouts
        /\ \A v \in Process : v # w => outData'[v] = outData[v]
    BY <1>4 DEF Spout, BaseInv, StreamType
  <2>2. Fed(q, p, text) /\ Right(q, p, text)
    BY <1>2, <2>1
  <2>3. q \notin stored.spouts
    BY <2>2, FeedFacts DEF BaseInv, Fed
  <2>4. w # Instance(q, text)
    BY <2>1, <2>3 DEF TaskOf, Instance
  <2>5. Line(q, p, text) \in Channel => Instance(q, text) \in Process
    BY <2>2, FedFacts
  <2>6. To(Line(q, p, text)) = Instance(p, text)
    BY DEF To, Line
  <2>7. Line(q, p, text) \in Channel => outData'[Instance(q, text)] = outData[Instance(q, text)]
    BY <2>1, <2>4, <2>5
  <2> QED BY <2>1, <2>2, <2>6, <2>7, RightKept
<1>5. ASSUME NEW w \in Process, Bolt(w) PROVE Right(q, p, text)'
  BY <1>2, <1>5, RightBolt DEF Bolt
<1>6. ASSUME NEW w \in Process, SendBatch(w) PROVE Right(q, p, text)'
  BY <1>2, <1>6, RightSend DEF SendBatch
<1>7. ASSUME NEW c \in DOMAIN wire, Receive(c) PROVE Right(q, p, text)'
  BY <1>2, <1>7, RightReceive DEF Receive
<1>8. ASSUME NEW w \in Process, Kill(w) PROVE Right(q, p, text)'
  BY <1>2, <1>8, RightKill DEF Kill
<1>9. ASSUME StartProcessing PROVE Right(q, p, text)'
  BY <1>9, RightStart DEF BaseInv
<1> QED BY <1>1, <1>3, <1>4, <1>5, <1>6, <1>7, <1>8, <1>9 DEF Next, Work

\* The numbers of a text, from the word count to what is shown, are always right.
LEMMA CountedAlways == RootApart => (Spec => [](BaseInv /\ CountedInv))
<1> SUFFICES ASSUME RootApart PROVE Spec => [](BaseInv /\ CountedInv)
  OBVIOUS
<1>1. PipelineInit => MadeInv /\ PrintedInv /\ NotedOnce /\ CountedInv
  <2>1. PipelineInit => ~running /\ client = "building"
    BY DEF PipelineInit, Init, running
  <2> QED BY <2>1 DEF MadeInv, PrintedInv, NotedOnce, CountedInv, Fed
<1>2. SearchInv' /\ TreeInv /\ StreamType /\ MadeInv /\ PrintedInv /\ NotedOnce /\ [Next]_vars
        => MadeInv' /\ PrintedInv' /\ NotedOnce'
  BY MadeStep, PrintedStep, NotedStep
<1>3. Spec => [](TreeInv /\ StreamType /\ PlacedInv) /\ [](TreeInv /\ SearchInv)
  BY PlacedAlways, SearchAlways, PTL
<1>4. BaseInv <=> TreeInv /\ StreamType /\ PlacedInv /\ MadeInv /\ PrintedInv /\ NotedOnce
  BY DEF BaseInv
<1>5. BaseInv /\ CountedInv /\ [Next]_vars => CountedInv'
  BY CountedStep
<1> QED BY <1>1, <1>2, <1>3, <1>4, <1>5, PTL DEF Spec

\* For any program, hash and levels, and whoever is killed: the counts of a text that a
\* printer writes are 1, 2, 3, ....
THEOREM CountsInOrder == RootApart => (Spec => []InOrder)
<1>1. BaseInv /\ CountedInv => InOrder
  <2> SUFFICES ASSUME BaseInv, CountedInv, running, NEW w \in Worker, NEW text \in Text,
                      PrintsCounts(TaskOf(w))
               PROVE  LET of == Picked(shown[w], {k \in 1 .. Len(shown[w]) : shown[w][k][1] = text}) IN
                      \A k \in 1 .. Len(of) : of[k][2] = k
    BY DEF InOrder
  <2> DEFINE s == shown[w]
             I == {k \in 1 .. Len(s) : s[k][1] = text}
             of == Picked(s, I)
             p == TaskOf(w)
  <2>1. w \in Process /\ p \in Id /\ w = <<p, w[2]>> /\ s \in Seq(Tuple)
    BY WorkerParts DEF BaseInv, StreamType
  <2>2. /\ Len(of) = Cardinality(I)
        /\ \A k \in 1 .. Cardinality(I) : \E i \in I : Rank(I, i) = k /\ of[k] = s[i]
    <3>1. I \in SUBSET (1 .. Len(s))
      OBVIOUS
    <3> HIDE DEF I, s
    <3> QED BY <2>1, <3>1, PickedProperties
  <2>3. ASSUME NEW i \in I PROVE s[i][2] = Rank(I, i)
    <3>1. i \in 1 .. Len(s) /\ s[i][1] = text
      OBVIOUS
    <3>2. PICK c \in Calls : /\ CallsFor(p) = {c} /\ ByField(p)
                             /\ Runname[c[1]] = "WordCountBolt"
      BY DEF PrintsCounts
    <3>3. w = Instance(p, text)
      <4>1. Destination(p, s[i]) = w[2]
        BY <2>1, <3>1, <3>2 DEF BaseInv, PlacedInv, AtPlace, Belong
      <4> QED BY <2>1, <3>1, <4>1 DEF Instance, Destination
    <3>4. Feeds(c[1], p) /\ c[1] \in Id
      <4>1. Runname[p] = "PrinterBolt"
        BY <2>1, <3>1 DEF BaseInv, PrintedInv
      <4>2. c[1] \in Id
        BY <3>2 DEF Calls, Known, BaseInv, TreeInv, TreeOK
      <4> QED BY <3>2, <4>1, <4>2 DEF Feeds
    <3>5. Numbered(s, text, 0)
      BY <2>1, <3>3, <3>4 DEF CountedInv, Fed, Right, ShownRight
    <3>6. s[i][2] = 0 + Upto(s, text, i)
      BY <3>1, <3>5 DEF Numbered
    <3>7. Upto(s, text, i) = Rank(I, i)
      <4>1. Len(s) \in Nat
        BY <2>1
      <4>2. {j \in 1 .. i : s[j][1] = text} = {q \in I : q <= i}
        <5>1. \A j \in 1 .. i : j \in 1 .. Len(s) /\ j <= i
          BY <3>1, <4>1
        <5>2. \A j \in 1 .. Len(s) : j <= i => j \in 1 .. i
          BY <3>1, <4>1
        <5> QED BY <5>1, <5>2
      <4> QED BY <4>2 DEF Upto, Rank
    <3>8. Upto(s, text, i) \in Nat
      BY <3>1, UptoType
    <3> QED BY <3>6, <3>7, <3>8
  <2> HIDE DEF I, s, of
  <2>4. \A k \in 1 .. Len(of) : of[k][2] = k
    BY <2>2, <2>3
  <2> QED BY <2>4 DEF of, I, s
<1> QED BY <1>1, CountedAlways, PTL

=============================================================================
