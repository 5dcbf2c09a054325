---------------------------- MODULE TopologyProofs ----------------------------
(***************************************************************************)
(* What holds of the builder of a topology (Topology) whatever the program *)
(* calls: the tree it builds is one, and the breadth-first search of       *)
(* buildTopology ends with each task that a spout reaches, once, and with  *)
(* its parents as often as they were asked for.  Theorems that rest on     *)
(* this are those of PipelineProofs, which has the specification.          *)
(*                                                                         *)
(* The data are sequences from which elements are picked.  Nothing here    *)
(* is by induction on them: an element that is picked is found by its      *)
(* rank, the number of places picked up to its own.                        *)
(***************************************************************************)
EXTENDS Topology, SequenceTheorems, FiniteSetTheorems, TLAPS

\* How many of the places of I come up to p.
Rank(I, p) == Cardinality({q \in I : q <= p})

\* Places are counted in their order, from the first to the last.
LEMMA Ranks ==
  ASSUME NEW n \in Nat, NEW I \in SUBSET (1 .. n)
  PROVE  /\ IsFiniteSet(I) /\ Cardinality(I) \in Nat
         /\ \A p \in I : Rank(I, p) \in 1 .. Cardinality(I)
         /\ \A p, q \in I : p < q => Rank(I, p) < Rank(I, q)
         /\ \A k \in 1 .. Cardinality(I) : \E p \in I : Rank(I, p) = k
<1> DEFINE Upto(p) == {q \in I : q <= p}
<1>1. IsFiniteSet(I) /\ Cardinality(I) \in Nat
  <2>1. IsFiniteSet(1 .. n)
    BY FS_Interval
  <2> QED BY <2>1, FS_Subset, FS_CardinalityType
<1>2. ASSUME NEW p \in Nat PROVE /\ IsFiniteSet(Upto(p)) /\ Rank(I, p) \in Nat
                                 /\ Rank(I, p) <= Cardinality(I)
  <2>1. Upto(p) \in SUBSET I
    OBVIOUS
  <2>2. IsFiniteSet(Upto(p)) /\ Cardinality(Upto(p)) <= Cardinality(I)
    BY <1>1, <2>1, FS_Subset
  <2> QED BY <2>2, FS_CardinalityType DEF Rank
<1>3. I \subseteq Nat
  OBVIOUS
<1>4. ASSUME NEW p \in I PROVE Rank(I, p) \in 1 .. Cardinality(I)
  <2>1. p \in Upto(p)
    BY <1>3
  <2>2. Cardinality(Upto(p)) # 0
    BY <1>2, <1>3, <2>1, FS_EmptySet
  <2> QED BY <1>1, <1>2, <1>3, <2>2 DEF Rank
<1>5. ASSUME NEW p \in I, NEW q \in I, p < q PROVE Rank(I, p) < Rank(I, q)
  <2>1. p \in Nat /\ q \in Nat
    BY <1>3
  <2>2. Upto(p) \in SUBSET Upto(q)
    <3>1. ASSUME NEW x \in I, x <= p PROVE x <= q
      BY <1>3, <1>5, <2>1, <3>1
    <3> QED BY <3>1
  <2>3. q \in Upto(q) /\ q \notin Upto(p)
    BY <1>3, <1>5
  <2>4. Cardinality(Upto(p)) <= Cardinality(Upto(q))
        /\ Cardinality(Upto(p)) # Cardinality(Upto(q))
    BY <1>2, <2>1, <2>2, <2>3, FS_Subset
  <2> QED BY <1>2, <2>1, <2>4 DEF Rank
<1>6. ASSUME NEW k \in 1 .. Cardinality(I) PROVE \E p \in I : Rank(I, p) = k
  <2> DEFINE C == Cardinality(I)
             T == 1 .. C
             g == [p \in I |-> Rank(I, p)]
  <2>1. g \in [I -> T]
    BY <1>4
  <2>2. ASSUME NEW p \in I, NEW q \in I, p # q PROVE g[p] # g[q]
    <3>1. p \in Nat /\ q \in Nat /\ Rank(I, p) \in Nat /\ Rank(I, q) \in Nat
      BY <1>2, <1>3
    <3>2. p < q \/ q < p
      BY <2>2, <3>1
    <3> QED BY <1>5, <3>1, <3>2
  <2>3. g \in Injection(I, T)
    BY <2>1, <2>2, Zenon DEF Injection, IsInjective
  <2>4. IsFiniteSet(T) /\ Cardinality(T) = C
    <3>1. C \in Int /\ 1 \in Int /\ C >= 0
      BY <1>1
    <3>2. IsFiniteSet(1 .. C) /\ Cardinality(1 .. C) = IF 1 > C THEN 0 ELSE C - 1 + 1
      BY <3>1, FS_Interval
    <3> QED BY <3>1, <3>2
  <2>5. g \in Surjection(I, T)
    BY <2>3, <2>4, FS_Injection
  <2> QED BY <2>5 DEF Surjection
<1> QED BY <1>1, <1>4, <1>5, <1>6

\* What is picked of a sequence: its elements at these places, each at its rank.
LEMMA PickedProperties ==
  ASSUME NEW S, NEW s \in Seq(S), NEW I \in SUBSET (1 .. Len(s))
  PROVE  /\ Picked(s, I) \in Seq(S)
         /\ Len(Picked(s, I)) = Cardinality(I)
         /\ Cardinality(I) \in Nat
         /\ \A p \in I : Rank(I, p) \in 1 .. Cardinality(I) /\ Picked(s, I)[Rank(I, p)] = s[p]
         /\ \A k \in 1 .. Cardinality(I) : \E p \in I : Rank(I, p) = k /\ Picked(s, I)[k] = s[p]
<1> DEFINE at(k) == CHOOSE p \in I : Rank(I, p) = k
<1>1. Len(s) \in Nat /\ \A p \in 1 .. Len(s) : s[p] \in S
  OBVIOUS
<1>2. Cardinality(I) \in Nat
  BY <1>1, Ranks
<1>3. ASSUME NEW k \in 1 .. Cardinality(I) PROVE at(k) \in I /\ Rank(I, at(k)) = k
  <2>1. \E p \in I : Rank(I, p) = k
    BY <1>1, Ranks
  <2> QED BY <2>1
<1>4. ASSUME NEW p \in I PROVE /\ Rank(I, p) \in 1 .. Cardinality(I)
                               /\ at(Rank(I, p)) = p
  <2>1. Rank(I, p) \in 1 .. Cardinality(I)
    BY <1>1, Ranks
  <2>2. at(Rank(I, p)) \in I /\ Rank(I, at(Rank(I, p))) = Rank(I, p)
    BY <1>3, <2>1
  <2>3. ASSUME NEW q \in I, q # p PROVE Rank(I, q) # Rank(I, p)
    <3>1. q \in Nat /\ p \in Nat
      BY <1>1
    <3>2. q < p \/ p < q
      BY <2>3, <3>1
    <3>3. Rank(I, q) \in Nat /\ Rank(I, p) \in Nat
      <4>1. Rank(I, q) \in 1 .. Cardinality(I) /\ Rank(I, p) \in 1 .. Cardinality(I)
        BY <1>1, Ranks
      <4> QED BY <1>2, <4>1
    <3>4. \A x, y \in I : x < y => Rank(I, x) < Rank(I, y)
      BY <1>1, Ranks
    <3> QED BY <3>2, <3>3, <3>4
  <2> QED BY <2>1, <2>2, <2>3
<1>5. Picked(s, I) = [k \in 1 .. Cardinality(I) |-> s[at(k)]]
  BY DEF Picked, Rank
<1> HIDE DEF at
<1>6. Picked(s, I) \in Seq(S) /\ Len(Picked(s, I)) = Cardinality(I)
  <2>1. \A k \in 1 .. Cardinality(I) : s[at(k)] \in S
    BY <1>1, <1>3
  <2> QED BY <1>2, <1>5, <2>1
<1>7. ASSUME NEW p \in I
      PROVE  Rank(I, p) \in 1 .. Cardinality(I) /\ Picked(s, I)[Rank(I, p)] = s[p]
  BY <1>4, <1>5
<1>8. ASSUME NEW k \in 1 .. Cardinality(I)
      PROVE  \E p \in I : Rank(I, p) = k /\ Picked(s, I)[k] = s[p]
  BY <1>3, <1>5
<1> QED BY <1>2, <1>6, <1>7, <1>8

\* Places that a sequence has before and after its m-th.
LEMMA SplitPlaces ==
  ASSUME NEW m \in Nat, NEW n \in Nat, NEW J \in SUBSET (1 .. m + n)
  PROVE  LET before == {j \in 1 .. m : j \in J}
             after == {j \in 1 .. n : m + j \in J}
         IN  /\ Cardinality(J) = Cardinality(before) + Cardinality(after)
             /\ Cardinality(before) \in Nat /\ Cardinality(after) \in Nat
<1> DEFINE before == {j \in 1 .. m : j \in J}
           after == {j \in 1 .. n : m + j \in J}
           last == {j \in J : m < j}
           shift == [j \in after |-> m + j]
<1>1. IsFiniteSet(before) /\ IsFiniteSet(after)
  <2>1. before \in SUBSET (1 .. m) /\ after \in SUBSET (1 .. n)
    OBVIOUS
  <2> QED BY <2>1, Ranks
<1>2. shift \in Bijection(after, last)
  <2>1. shift \in [after -> last]
    <3>1. ASSUME NEW j \in after PROVE m + j \in last
      OBVIOUS
    <3> QED BY <3>1
  <2>2. \A x, y \in after : shift[x] = shift[y] => x = y
    OBVIOUS
  <2>3. ASSUME NEW y \in last PROVE \E x \in after : shift[x] = y
    <3>1. y \in 1 .. m + n /\ m < y
      OBVIOUS
    <3>2. y - m \in after /\ m + (y - m) = y
      BY <3>1
    <3> QED BY <3>2
  <2> QED BY <2>1, <2>2, <2>3 DEF Bijection, Injection, Surjection, IsInjective
<1>3. IsFiniteSet(last) /\ Cardinality(last) = Cardinality(after)
  BY <1>1, <1>2, FS_Bijection DEF ExistsBijection
<1>4. J = before \cup last /\ before \cap last = {}
  <2>1. ASSUME NEW j \in J PROVE j \in 1 .. m \/ m < j
    OBVIOUS
  <2>2. ASSUME NEW j \in 1 .. m PROVE ~(m < j)
    OBVIOUS
  <2> QED BY <2>1, <2>2
<1>5. Cardinality(J) = Cardinality(before) + Cardinality(last) - Cardinality({})
  <2> HIDE DEF before, last
  <2> QED BY <1>1, <1>3, <1>4, FS_Union
<1>6. Cardinality(before) \in Nat /\ Cardinality(after) \in Nat /\ Cardinality({}) = 0
  BY <1>1, FS_CardinalityType, FS_EmptySet
<1> QED BY <1>3, <1>5, <1>6

\* A pick has as many of the places J as there are.
LEMMA RankedPlaces ==
  ASSUME NEW n \in Nat, NEW I \in SUBSET (1 .. n), NEW J \in SUBSET I
  PROVE  Cardinality({k \in 1 .. Cardinality(I) : \E p \in J : Rank(I, p) = k}) = Cardinality(J)
<1> DEFINE R == {k \in 1 .. Cardinality(I) : \E p \in J : Rank(I, p) = k}
           g == [p \in J |-> Rank(I, p)]
<1>1. IsFiniteSet(J)
  BY Ranks, FS_Subset
<1>2. Cardinality(I) \in Nat /\ \A p \in I : Rank(I, p) \in 1 .. Cardinality(I)
  BY Ranks
<1>3. ASSUME NEW p \in J, NEW q \in J, p # q PROVE Rank(I, p) # Rank(I, q)
  <2>1. p \in Nat /\ q \in Nat /\ p \in I /\ q \in I
    OBVIOUS
  <2>2. p < q \/ q < p
    BY <1>3, <2>1
  <2>3. \A x, y \in I : x < y => Rank(I, x) < Rank(I, y)
    BY Ranks
  <2>4. Rank(I, p) \in Nat /\ Rank(I, q) \in Nat
    BY <1>2, <2>1
  <2> QED BY <2>1, <2>2, <2>3, <2>4
<1>4. g \in Bijection(J, R)
  <2>1. g \in [J -> R]
    BY <1>2
  <2>2. \A x, y \in J : g[x] = g[y] => x = y
    BY <1>3
  <2>3. \A y \in R : \E x \in J : g[x] = y
    OBVIOUS
  <2> QED BY <2>1, <2>2, <2>3 DEF Bijection, Injection, Surjection, IsInjective
<1> QED BY <1>1, <1>4, FS_Bijection DEF ExistsBijection

-----------------------------------------------------------------------------
(* From the program to Nimbus: what the builder has *)

Gr == Grouped \cup {"default"}

\* A node of the tree that has edges to ids of K.
Branch(K) == [level : Nat, children : Seq(K \X Gr)]

\* The tree: ids, each with edges to ids that are there.
TreeOK ==
  /\ "root" \in DOMAIN nodes /\ DOMAIN nodes \subseteq Id \cup {"root"}
  /\ nodes \in [DOMAIN nodes -> Branch(Known)]

\* buildTopology: ids that are there, each with parents that are.
BuildOK ==
  /\ client \in {"building", "aborted", "collecting", "submitted", "started"}
  /\ queue \in Seq(Known)
  /\ DOMAIN boltMap \subseteq Known
  /\ boltMap \in [DOMAIN boltMap -> [level : Nat, parents : Seq(Known \X Gr)]]
  /\ client \in {"building", "aborted"} => queue = << >> /\ boltMap = Empty

\* Every parent of a bolt is one that the program asked for.
EntriesAsked ==
  \A b \in DOMAIN boltMap : \A i \in 1 .. Len(boltMap[b].parents) :
    \E c \in Calls : c[1] = boltMap[b].parents[i][1] /\ Edge(c) = <<b, boltMap[b].parents[i][2]>>

\* Nimbus has what was collected, with levels of its own.
StoredOK ==
  IF client \in {"submitted", "started"}
  THEN /\ stored.spouts = SpoutsAsked
       /\ stored.bolts = [b \in DOMAIN boltMap |->
            [level |-> LevelParsed(LevelSent(boltMap[b].level)), parents |-> boltMap[b].parents]]
  ELSE stored = [spouts |-> {}, bolts |-> Empty]

TreeInv == TreeOK /\ BuildOK /\ EntriesAsked /\ StoredOK

\* Before the first call there is the root alone.
LEMMA TreeInit == Init => TreeInv
<1> SUFFICES ASSUME Init PROVE TreeInv
  OBVIOUS
<1>1. DOMAIN nodes = {"root"} /\ nodes["root"] = [level |-> 0, children |-> << >>]
      /\ nodes = [x \in DOMAIN nodes |-> nodes[x]]
  BY DEF Init, Put, Empty, NewNode
<1>2. TreeOK
  <2>1. << >> \in Seq(Known \X Gr)
    OBVIOUS
  <2>2. nodes["root"] \in Branch(Known)
    BY <1>1, <2>1 DEF Branch
  <2> QED BY <1>1, <2>2 DEF TreeOK
<1>3. BuildOK /\ EntriesAsked /\ StoredOK
  BY DEF Init, BuildOK, EntriesAsked, StoredOK, Empty
<1> QED BY <1>2, <1>3 DEF TreeInv

\* A node that is new, and an edge between nodes that are there, keep the tree.
LEMMA TreeGrows ==
  ASSUME TreeOK, NEW id \in Id \ Known, NEW level \in Nat
  PROVE  LET ns == Put(nodes, id, NewNode(level)) IN
         /\ DOMAIN ns = DOMAIN nodes \cup {id}
         /\ \A x \in DOMAIN nodes : ns[x] = nodes[x]
         /\ ns \in [DOMAIN ns -> Branch(Known \cup {id})]
<1> DEFINE ns == Put(nodes, id, NewNode(level))
           K == Known \cup {id}
<1>1. id \notin DOMAIN nodes
  BY TopologyAssumption DEF TopologyAssumption, Known
<1>2. DOMAIN ns = DOMAIN nodes \cup {id} /\ ns = [x \in DOMAIN ns |-> ns[x]]
      /\ ns[id] = NewNode(level) /\ \A x \in DOMAIN nodes : ns[x] = nodes[x]
  BY <1>1 DEF Put
<1>3. ASSUME NEW x \in DOMAIN nodes PROVE nodes[x] \in Branch(K)
  <2>1. nodes[x] \in Branch(Known)
    BY DEF TreeOK
  <2>2. nodes[x].children \in Seq(K \X Gr)
    BY <2>1 DEF Branch
  <2> QED BY <2>1, <2>2 DEF Branch
<1>4. NewNode(level) \in Branch(K)
  BY DEF NewNode, Branch
<1> QED BY <1>2, <1>3, <1>4

\* A further edge to a node that is there keeps the nodes of their type.
LEMMA EdgeType ==
  ASSUME NEW K, NEW ns, NEW parent \in DOMAIN ns, NEW id \in K, NEW g \in Gr,
         ns \in [DOMAIN ns -> Branch(K)]
  PROVE  /\ Adopted(ns, id, parent, g) \in [DOMAIN ns -> Branch(K)]
         /\ DOMAIN Adopted(ns, id, parent, g) = DOMAIN ns
<1> DEFINE old == ns[parent]
           node == [old EXCEPT !.children = Append(old.children, <<id, g>>)]
<1>1. Adopted(ns, id, parent, g) = [ns EXCEPT ![parent] = node]
  BY DEF Adopted
<1>2. old \in Branch(K)
  OBVIOUS
<1>3. <<id, g>> \in K \X Gr
  OBVIOUS
<1>4. Append(old.children, <<id, g>>) \in Seq(K \X Gr)
  BY <1>2, <1>3 DEF Branch
<1>5. node \in Branch(K) /\ node.level = old.level /\ node.children = Append(old.children, <<id, g>>)
  BY <1>2, <1>4 DEF Branch
<1> HIDE DEF node
<1> QED BY <1>1, <1>2, <1>5

\* The calls that build the tree.
LEMMA SetNodeStep ==
  ASSUME TreeInv, client = "building",
         \/ \E id \in Id : SetSpout(id)
         \/ \E id \in Id, level \in Level : SetBolt(id, level)
         \/ \E e \in EdgeCall : SetParent(e)
  PROVE  TreeInv'
<1> USE DEF TreeInv
<1>1. UNCHANGED <<queue, boltMap, stored>>
  BY DEF SetSpout, SetBolt, SetParent
<1>2. client' \in {"building", "aborted"}
  BY DEF SetSpout, SetBolt, SetNode, SetParent
<1>3. boltMap = Empty /\ queue = << >> /\ DOMAIN boltMap = {}
  BY DEF BuildOK, Empty
<1>4. EntriesAsked' /\ StoredOK'
  BY <1>1, <1>2, <1>3 DEF EntriesAsked, StoredOK
<1>5. BuildOK'
  <2>1. queue' \in Seq(Known') /\ DOMAIN boltMap' \subseteq Known'
    BY <1>1, <1>3
  <2>2. boltMap' \in [DOMAIN boltMap' -> [level : Nat, parents : Seq(Known' \X Gr)]]
    BY <1>1, <1>3 DEF Empty
  <2> QED BY <1>1, <1>2, <1>3, <2>1, <2>2 DEF BuildOK
<1>6. ASSUME UNCHANGED nodes PROVE TreeOK'
  BY <1>6 DEF TreeOK, Known
<1>7. ASSUME NEW id \in Id \ Known, NEW level \in Nat,
             nodes' = Put(nodes, id, NewNode(level))
      PROVE  TreeOK'
  <2>1. id # "root"
    BY TopologyAssumption DEF TopologyAssumption
  <2>2. Known' = Known \cup {id} /\ DOMAIN nodes' = DOMAIN nodes \cup {id}
    BY <1>7, <2>1, TreeGrows DEF Known
  <2> QED BY <1>7, <2>2, TreeGrows DEF TreeOK
<1>8. ASSUME NEW id \in Id \ Known,
             nodes' = Adopted(Put(nodes, id, NewNode(1)), id, "root", "default")
      PROVE  TreeOK'
  <2> DEFINE ns == Put(nodes, id, NewNode(1))
             K == Known \cup {id}
  <2>1. id # "root"
    BY TopologyAssumption DEF TopologyAssumption
  <2>2. DOMAIN ns = DOMAIN nodes \cup {id} /\ ns \in [DOMAIN ns -> Branch(K)]
    BY TreeGrows
  <2>3. "root" \in DOMAIN ns /\ "default" \in Gr /\ id \in K
    BY <2>2 DEF TreeOK, Gr
  <2> HIDE DEF ns, K
  <2>4. DOMAIN nodes' = DOMAIN ns /\ nodes' \in [DOMAIN ns -> Branch(K)]
    <3>1. nodes' = Adopted(ns, id, "root", "default")
      BY <1>8 DEF ns
    <3>2. ns \in [DOMAIN ns -> Branch(K)]
      BY <2>2
    <3> HIDE DEF K
    <3>3. /\ Adopted(ns, id, "root", "default") \in [DOMAIN ns -> Branch(K)]
          /\ DOMAIN Adopted(ns, id, "root", "default") = DOMAIN ns
      BY ONLY <2>3, <3>2, EdgeType
    <3> QED BY <3>1, <3>3
  <2>5. Known' = K
    BY <2>1, <2>2, <2>4 DEF Known, K
  <2> QED BY <2>2, <2>4, <2>5 DEF TreeOK
<1>9. ASSUME NEW e \in EdgeCall, e[2] \in Known, e[1] \in DOMAIN nodes,
             nodes' = Adopted(nodes, e[2], e[1], e[3])
      PROVE  TreeOK'
  <2>1. e[3] \in Gr
    BY DEF Gr, Grouped
  <2>2. DOMAIN nodes' = DOMAIN nodes /\ nodes' \in [DOMAIN nodes -> Branch(Known)]
    <3>1. nodes \in [DOMAIN nodes -> Branch(Known)]
      BY DEF TreeOK
    <3>2. /\ Adopted(nodes, e[2], e[1], e[3]) \in [DOMAIN nodes -> Branch(Known)]
          /\ DOMAIN Adopted(nodes, e[2], e[1], e[3]) = DOMAIN nodes
      BY ONLY <1>9, <2>1, <3>1, EdgeType
    <3> QED BY <1>9, <3>2
  <2>3. Known' = Known
    BY <2>2 DEF Known
  <2> QED BY <2>2, <2>3 DEF TreeOK
<1>10. TreeOK'
  <2>1. ASSUME NEW id \in Id, SetSpout(id) PROVE TreeOK'
    BY <1>6, <1>8, <2>1 DEF SetSpout
  <2>2. ASSUME NEW id \in Id, NEW level \in Level, SetBolt(id, level) PROVE TreeOK'
    BY <1>6, <1>7, <2>2, TopologyAssumption DEF SetBolt, SetNode, TopologyAssumption
  <2>3. ASSUME NEW e \in EdgeCall, SetParent(e) PROVE TreeOK'
    BY <1>6, <1>9, <2>3 DEF SetParent
  <2> QED BY <2>1, <2>2, <2>3
<1> QED BY <1>4, <1>5, <1>10

\* Where the elements of two sequences are in the sequence of both.
LEMMA ConcatPlaces ==
  ASSUME NEW S, NEW s \in Seq(S), NEW r \in Seq(S)
  PROVE  /\ s \o r \in Seq(S) /\ Len(s \o r) = Len(s) + Len(r)
         /\ Len(s) \in Nat /\ Len(r) \in Nat
         /\ \A i \in 1 .. Len(s) : (s \o r)[i] = s[i]
         /\ \A i \in 1 .. Len(r) : (s \o r)[Len(s) + i] = r[i]
         /\ \A i \in 1 .. Len(s \o r) : i \in 1 .. Len(s) \/ i - Len(s) \in 1 .. Len(r)
<1>1. Len(s) \in Nat /\ Len(r) \in Nat
  OBVIOUS
<1>2. /\ s \o r \in Seq(S) /\ Len(s \o r) = Len(s) + Len(r)
      /\ \A i \in 1 .. Len(s) + Len(r) : (s \o r)[i] = IF i <= Len(s) THEN s[i] ELSE r[i - Len(s)]
  BY ConcatProperties
<1>3. \A i \in 1 .. Len(s) : i \in 1 .. Len(s) + Len(r) /\ i <= Len(s)
  BY <1>1
<1>4. \A i \in 1 .. Len(r) : /\ Len(s) + i \in 1 .. Len(s) + Len(r)
                             /\ ~(Len(s) + i <= Len(s)) /\ (Len(s) + i) - Len(s) = i
  BY <1>1
<1>5. \A i \in 1 .. Len(s) + Len(r) : i \in 1 .. Len(s) \/ i - Len(s) \in 1 .. Len(r)
  BY <1>1
<1> QED BY <1>1, <1>2, <1>3, <1>4, <1>5

\* The children of a node of the tree.
LEMMA ChildrenType ==
  ASSUME TreeOK, NEW p \in DOMAIN nodes
  PROVE  /\ nodes[p].children \in Seq(Known \X Gr) /\ nodes[p].level \in Nat
         /\ Len(nodes[p].children) \in Nat
         /\ \A i \in 1 .. Len(nodes[p].children) : nodes[p].children[i] \in Known \X Gr
         /\ Targets(p) \in Seq(Known) /\ Len(Targets(p)) = Len(nodes[p].children)
         /\ \A i \in 1 .. Len(nodes[p].children) : Targets(p)[i] = nodes[p].children[i][1]
<1> DEFINE es == nodes[p].children
<1>1. es \in Seq(Known \X Gr) /\ nodes[p].level \in Nat
  BY DEF TreeOK, Branch
<1>2. Len(es) \in Nat /\ \A i \in 1 .. Len(es) : es[i] \in Known \X Gr
  BY <1>1
<1>3. Targets(p) = [i \in 1 .. Len(es) |-> es[i][1]]
  BY DEF Targets
<1> HIDE DEF es
<1>4. \A i \in 1 .. Len(es) : es[i][1] \in Known
  BY <1>2
<1>5. Targets(p) \in Seq(Known) /\ Len(Targets(p)) = Len(es)
  BY <1>2, <1>3, <1>4
<1>6. \A i \in 1 .. Len(es) : Targets(p)[i] = es[i][1]
  BY <1>3
<1> QED BY <1>1, <1>2, <1>5, <1>6 DEF es

EdgePlaces(p, b) == {i \in 1 .. Len(nodes[p].children) : nodes[p].children[i][1] = b}

\* The edges of p to b are those of its children that name b.
LEMMA EdgesFound ==
  ASSUME TreeOK, NEW p \in DOMAIN nodes, NEW b
  PROVE  LET I == EdgePlaces(p, b) IN
         /\ EdgesTo(p, b) \in Seq(Known \X Gr)
         /\ Len(EdgesTo(p, b)) = Cardinality(I) /\ Cardinality(I) \in Nat
         /\ \A k \in 1 .. Cardinality(I) :
              \E i \in I : Rank(I, i) = k /\ EdgesTo(p, b)[k] = nodes[p].children[i]
         /\ \A i \in I : Rank(I, i) \in 1 .. Cardinality(I)
                         /\ EdgesTo(p, b)[Rank(I, i)] = nodes[p].children[i]
         /\ EdgesTo(p, b) # << >> <=> I # {}
<1> DEFINE es == nodes[p].children
           I == EdgePlaces(p, b)
<1>1. es \in Seq(Known \X Gr) /\ Len(es) \in Nat
  BY ChildrenType
<1>2. I \in SUBSET (1 .. Len(es)) /\ EdgesTo(p, b) = Picked(es, I)
  BY DEF EdgePlaces, EdgesTo
<1> HIDE DEF es, I
<1>3. /\ EdgesTo(p, b) \in Seq(Known \X Gr)
      /\ Len(EdgesTo(p, b)) = Cardinality(I) /\ Cardinality(I) \in Nat
      /\ \A k \in 1 .. Cardinality(I) : \E i \in I : Rank(I, i) = k /\ EdgesTo(p, b)[k] = es[i]
      /\ \A i \in I : Rank(I, i) \in 1 .. Cardinality(I) /\ EdgesTo(p, b)[Rank(I, i)] = es[i]
  BY <1>1, <1>2, PickedProperties
<1>4. Cardinality(I) = 0 <=> I = {}
  BY <1>1, <1>2, Ranks, FS_EmptySet
<1>5. EdgesTo(p, b) = << >> <=> Len(EdgesTo(p, b)) = 0
  BY <1>3
<1> QED BY <1>3, <1>4, <1>5 DEF es, I

\* The parents of b once p is done: those it had, and p for each edge.
LEMMA ParentsNoted ==
  ASSUME TreeOK, BuildOK, NEW p \in Known, NEW b \in Known
  PROVE  LET old == IF b \in DOMAIN boltMap THEN boltMap[b].parents ELSE << >>
             new == [i \in 1 .. Len(EdgesTo(p, b)) |-> <<p, EdgesTo(p, b)[i][2]>>]
         IN  /\ old \in Seq(Known \X Gr) /\ new \in Seq(Known \X Gr)
             /\ ParentsAfter(p, b) = old \o new /\ ParentsAfter(p, b) \in Seq(Known \X Gr)
             /\ Len(new) = Len(EdgesTo(p, b))
             /\ Len(old) \in Nat /\ Len(new) \in Nat
             /\ Len(ParentsAfter(p, b)) = Len(old) + Len(new)
             /\ \A i \in 1 .. Len(old) : ParentsAfter(p, b)[i] = old[i]
             /\ \A i \in 1 .. Len(new) : ParentsAfter(p, b)[Len(old) + i] = new[i]
                                         /\ new[i] = <<p, EdgesTo(p, b)[i][2]>>
<1> DEFINE old == IF b \in DOMAIN boltMap THEN boltMap[b].parents ELSE << >>
           es == EdgesTo(p, b)
           new == [i \in 1 .. Len(es) |-> <<p, es[i][2]>>]
<1>1. old \in Seq(Known \X Gr)
  BY DEF BuildOK
<1>2. es \in Seq(Known \X Gr)
  BY EdgesFound DEF Known
<1>3. ParentsAfter(p, b) = old \o new
  BY DEF ParentsAfter
<1> HIDE DEF old, es
<1>4. Len(es) \in Nat /\ \A i \in 1 .. Len(es) : es[i][2] \in Gr
  BY <1>2
<1>5. new \in Seq(Known \X Gr) /\ Len(new) = Len(es)
  BY <1>4
<1>6. \A i \in 1 .. Len(new) : new[i] = <<p, es[i][2]>>
  BY <1>5
<1> HIDE DEF new
<1>7. /\ old \o new \in Seq(Known \X Gr) /\ Len(old \o new) = Len(old) + Len(new)
      /\ Len(old) \in Nat /\ Len(new) \in Nat
      /\ \A i \in 1 .. Len(old) : (old \o new)[i] = old[i]
      /\ \A i \in 1 .. Len(new) : (old \o new)[Len(old) + i] = new[i]
  <2> DEFINE S == Known \X Gr
  <2>1. old \in Seq(S) /\ new \in Seq(S)
    BY <1>1, <1>5
  <2> HIDE DEF S
  <2>2. /\ old \o new \in Seq(S) /\ Len(old \o new) = Len(old) + Len(new)
        /\ Len(old) \in Nat /\ Len(new) \in Nat
        /\ \A i \in 1 .. Len(old) : (old \o new)[i] = old[i]
        /\ \A i \in 1 .. Len(new) : (old \o new)[Len(old) + i] = new[i]
    BY ONLY <2>1, ConcatPlaces
  <2> QED BY <2>2 DEF S
<1> QED BY <1>1, <1>3, <1>5, <1>6, <1>7 DEF old, es, new

FreshPlaces(p) ==
  {i \in 1 .. Len(Targets(p)) :
     Targets(p)[i] \notin DOMAIN boltMap /\ \A j \in 1 .. i - 1 : Targets(p)[j] # Targets(p)[i]}

\* What is queued: each child that is not in boltMap yet, once.
LEMMA FreshFound ==
  ASSUME TreeOK, NEW p \in DOMAIN nodes
  PROVE  LET I == FreshPlaces(p) IN
         /\ Fresh(p) \in Seq(Known)
         /\ Len(Fresh(p)) = Cardinality(I) /\ Cardinality(I) \in Nat
         /\ I \in SUBSET (1 .. Len(Targets(p)))
         /\ \A k \in 1 .. Cardinality(I) : \E i \in I : Rank(I, i) = k /\ Fresh(p)[k] = Targets(p)[i]
         /\ \A i \in I : Rank(I, i) \in 1 .. Cardinality(I) /\ Fresh(p)[Rank(I, i)] = Targets(p)[i]
<1> DEFINE ts == Targets(p)
           I == FreshPlaces(p)
<1>1. ts \in Seq(Known) /\ Len(ts) \in Nat
  BY ChildrenType
<1>2. I \in SUBSET (1 .. Len(ts)) /\ Fresh(p) = Picked(ts, I)
  BY DEF FreshPlaces, Fresh
<1> HIDE DEF ts, I
<1>3. /\ Fresh(p) \in Seq(Known)
      /\ Len(Fresh(p)) = Cardinality(I) /\ Cardinality(I) \in Nat
      /\ \A k \in 1 .. Cardinality(I) : \E i \in I : Rank(I, i) = k /\ Fresh(p)[k] = ts[i]
      /\ \A i \in I : Rank(I, i) \in 1 .. Cardinality(I) /\ Fresh(p)[Rank(I, i)] = ts[i]
  BY <1>1, <1>2, PickedProperties
<1> QED BY <1>2, <1>3 DEF ts, I

Into(p) == {b \in Known : EdgesTo(p, b) # << >>}

\* A round of the loop of buildTopology leaves the types and notes only what was asked for.
LEMMA CollectStep ==
  ASSUME TreeInv, Collect
  PROVE  TreeInv'
<1> USE DEF TreeInv
<1> DEFINE p == Head(queue)
<1>1. UNCHANGED <<client, nodes, stored>> /\ client = "collecting"
  BY DEF Collect
<1>2. p \in Known /\ p \in DOMAIN nodes /\ Tail(queue) \in Seq(Known)
  BY DEF Collect, BuildOK, Known
<1>3. queue' = Tail(queue) \o Fresh(p)
      /\ boltMap' = [b \in DOMAIN boltMap \cup Into(p) |->
                       [level |-> nodes[b].level, parents |-> ParentsAfter(p, b)]]
  BY DEF Collect, Into
<1>4. DOMAIN boltMap' = DOMAIN boltMap \cup Into(p) /\ DOMAIN boltMap' \subseteq Known
  BY <1>3 DEF Into, BuildOK
<1>5. TreeOK' /\ StoredOK' /\ Known' = Known
  BY <1>1 DEF TreeOK, StoredOK, Known
<1> HIDE DEF p
<1>6. BuildOK'
  <2>1. Fresh(p) \in Seq(Known)
    BY <1>2, FreshFound
  <2>2. queue' \in Seq(Known)
    BY <1>2, <1>3, <2>1, ConcatProperties
  <2>3. ASSUME NEW b \in DOMAIN boltMap'
        PROVE  boltMap'[b] \in [level : Nat, parents : Seq(Known \X Gr)]
    <3>1. nodes[b].level \in Nat
      BY <1>4, ChildrenType DEF Known
    <3>2. ParentsAfter(p, b) \in Seq(Known \X Gr)
      BY <1>2, <1>4, ParentsNoted
    <3> QED BY <1>3, <1>4, <3>1, <3>2
  <2>4. boltMap' \in [DOMAIN boltMap' -> [level : Nat, parents : Seq(Known \X Gr)]]
    BY <1>3, <1>4, <2>3
  <2> QED BY <1>1, <1>4, <1>5, <2>2, <2>4 DEF BuildOK
<1>7. Calls' = Calls /\ \A c : Edge(c)' = Edge(c)
  BY <1>1 DEF Calls, Edge, Known
<1>8. ASSUME NEW b \in DOMAIN boltMap', NEW i \in 1 .. Len(boltMap'[b].parents)
      PROVE  \E c \in Calls : c[1] = boltMap'[b].parents[i][1] /\ Edge(c) = <<b, boltMap'[b].parents[i][2]>>
  <2> DEFINE old == IF b \in DOMAIN boltMap THEN boltMap[b].parents ELSE << >>
             new == [k \in 1 .. Len(EdgesTo(p, b)) |-> <<p, EdgesTo(p, b)[k][2]>>]
             all == ParentsAfter(p, b)
  <2>1. b \in Known /\ boltMap'[b].parents = all
    BY <1>3, <1>4
  <2>2. /\ Len(old) \in Nat /\ Len(new) \in Nat /\ Len(all) = Len(old) + Len(new)
        /\ \A k \in 1 .. Len(old) : all[k] = old[k]
        /\ \A k \in 1 .. Len(new) : all[Len(old) + k] = <<p, EdgesTo(p, b)[k][2]>>
        /\ Len(new) = Len(EdgesTo(p, b))
    BY <1>2, <2>1, ParentsNoted, ZenonT(60)
  <2> HIDE DEF new, all
  <2>3. CASE i \in 1 .. Len(old)
    <3>1. b \in DOMAIN boltMap /\ all[i] = boltMap[b].parents[i] /\ i \in 1 .. Len(boltMap[b].parents)
      BY <2>2, <2>3
    <3> QED BY <2>1, <3>1 DEF EntriesAsked
  <2>4. CASE i \notin 1 .. Len(old)
    <3> DEFINE k == i - Len(old)
    <3>1. k \in 1 .. Len(EdgesTo(p, b)) /\ i = Len(old) + k
      BY <1>8, <2>1, <2>2, <2>4
    <3>2. all[i] = <<p, EdgesTo(p, b)[k][2]>>
      BY <2>2, <3>1
    <3>3. PICK j \in EdgePlaces(p, b) : EdgesTo(p, b)[k] = nodes[p].children[j]
      <4>1. k \in 1 .. Cardinality(EdgePlaces(p, b))
        BY <1>2, <3>1, EdgesFound
      <4> HIDE DEF k
      <4> QED BY <1>2, <4>1, EdgesFound
    <3>4. j \in 1 .. Len(nodes[p].children) /\ nodes[p].children[j][1] = b
          /\ nodes[p].children[j] \in Known \X Gr
      BY <1>2, ChildrenType DEF EdgePlaces
    <3>5. <<p, j>> \in Calls /\ Edge(<<p, j>>) = nodes[p].children[j]
      BY <1>2, <3>4 DEF Calls, Edge
    <3>6. Edge(<<p, j>>) = <<b, all[i][2]>> /\ all[i][1] = p
      BY <3>2, <3>3, <3>4, <3>5
    <3> QED BY <2>1, <3>5, <3>6
  <2> QED BY <2>3, <2>4
<1>9. EntriesAsked'
  BY <1>7, <1>8 DEF EntriesAsked
<1> QED BY <1>5, <1>6, <1>9

\* While nodes and boltMap stay what they are, so does what they say.
LEMMA TreeKept ==
  ASSUME TreeInv, UNCHANGED <<nodes, boltMap>>
  PROVE  /\ TreeOK' /\ EntriesAsked' /\ Known' = Known /\ SpoutsAsked' = SpoutsAsked
         /\ Calls' = Calls /\ \A c : Edge(c)' = Edge(c)
<1>1. Known' = Known /\ Calls' = Calls /\ (\A c : Edge(c)' = Edge(c)) /\ SpoutsAsked' = SpoutsAsked
  BY DEF Known, Calls, Edge, SpoutsAsked
<1>2. TreeOK'
  BY <1>1 DEF TreeInv, TreeOK
<1> QED BY <1>1, <1>2 DEF TreeInv, EntriesAsked

\* buildTopology begins with the children of the root.
LEMMA BuildStep ==
  ASSUME TreeInv, Build
  PROVE  TreeInv'
<1>1. /\ TreeOK' /\ EntriesAsked' /\ Known' = Known
  BY TreeKept DEF Build
<1>2. "root" \in DOMAIN nodes
  BY DEF TreeInv, TreeOK
<1>3. Targets("root") \in Seq(Known)
  BY <1>2, ChildrenType DEF TreeInv
<1>4. BuildOK'
  BY <1>1, <1>3 DEF Build, TreeInv, BuildOK
<1>5. StoredOK'
  BY DEF Build, TreeInv, StoredOK
<1> QED BY <1>1, <1>4, <1>5 DEF TreeInv

\* What is sent and parsed is what was collected, but for the levels.
LEMMA SubmitStep ==
  ASSUME TreeInv, Submit
  PROVE  TreeInv'
<1>1. /\ TreeOK' /\ EntriesAsked' /\ Known' = Known /\ SpoutsAsked' = SpoutsAsked
  BY TreeKept DEF Submit
<1>2. BuildOK'
  BY <1>1 DEF Submit, TreeInv, BuildOK
<1>3. ASSUME NEW b \in DOMAIN boltMap
      PROVE  [boltMap[b] EXCEPT !.level = LevelParsed(LevelSent(@))] =
               [level |-> LevelParsed(LevelSent(boltMap[b].level)), parents |-> boltMap[b].parents]
  <2>1. boltMap[b] \in [level : Nat, parents : Seq(Known \X Gr)]
    BY DEF TreeInv, BuildOK
  <2>2. boltMap[b] = [level |-> boltMap[b].level, parents |-> boltMap[b].parents]
    BY <2>1
  <2> QED BY <2>2
<1>4. stored'.bolts = [b \in DOMAIN boltMap |->
            [level |-> LevelParsed(LevelSent(boltMap[b].level)), parents |-> boltMap[b].parents]]
  <2>1. stored'.bolts = [b \in DOMAIN boltMap |->
                          [boltMap[b] EXCEPT !.level = LevelParsed(LevelSent(@))]]
    BY DEF Submit
  <2> QED BY <1>3, <2>1
<1>5. StoredOK'
  BY <1>1, <1>4 DEF Submit, StoredOK, SpoutsAsked
<1> QED BY <1>1, <1>2, <1>5 DEF TreeInv

\* What Nimbus does with it leaves all this alone.
LEMMA StartStep ==
  ASSUME TreeInv, client = "submitted", client' = "started", UNCHANGED <<nodes, queue, boltMap, stored>>
  PROVE  TreeInv'
<1>1. /\ TreeOK' /\ EntriesAsked' /\ Known' = Known /\ SpoutsAsked' = SpoutsAsked
  BY TreeKept
<1>2. BuildOK' /\ StoredOK'
  BY <1>1 DEF TreeInv, BuildOK, StoredOK
<1> QED BY <1>1, <1>2 DEF TreeInv

\* Every call of the builder.
LEMMA TreeStep == TreeInv /\ Describe => TreeInv'
<1> SUFFICES ASSUME TreeInv, Describe PROVE TreeInv'
  OBVIOUS
<1>1. ASSUME NEW id \in Id, SetSpout(id) PROVE TreeInv'
  BY <1>1, SetNodeStep DEF SetSpout
<1>2. ASSUME NEW id \in Id, NEW level \in Level, SetBolt(id, level) PROVE TreeInv'
  BY <1>2, SetNodeStep DEF SetBolt
<1>3. ASSUME NEW e \in EdgeCall, SetParent(e) PROVE TreeInv'
  BY <1>3, SetNodeStep DEF SetParent
<1> QED BY <1>1, <1>2, <1>3, BuildStep, CollectStep, SubmitStep DEF Describe

\* What leaves the variables of the builder alone.
LEMMA TreeStutter == TreeInv /\ UNCHANGED builderVars => TreeInv'
<1> SUFFICES ASSUME TreeInv, UNCHANGED builderVars PROVE TreeInv'
  OBVIOUS
<1>1. /\ TreeOK' /\ EntriesAsked' /\ Known' = Known /\ SpoutsAsked' = SpoutsAsked
  BY TreeKept DEF builderVars
<1>2. BuildOK' /\ StoredOK'
  BY <1>1 DEF TreeInv, BuildOK, StoredOK, builderVars
<1> QED BY <1>1, <1>2 DEF TreeInv

-----------------------------------------------------------------------------
(* The breadth-first search of buildTopology *)

\* No program gives a task the root of the tree as a parent: it is the name the
\* builder itself uses for the parent of the spouts.
RootApart == \A e \in EdgeCall : e[1] # "root"

\* Every spout is one edge of the root.
SpoutsOnce ==
  \A i, j \in 1 .. Len(nodes["root"].children) :
    nodes["root"].children[i][1] = nodes["root"].children[j][1] => i = j

Seen == SpoutsAsked \cup DOMAIN boltMap
Listed == {queue[i] : i \in 1 .. Len(queue)}
\* Those whose edges were followed.
Done == Seen \ Listed
CountOf(s, e) == Cardinality({i \in 1 .. Len(s) : s[i] = e})
Closed(S) == SpoutsAsked \subseteq S /\ \A c \in Calls : c[1] \in S => Edge(c)[1] \in S

\* Nobody is queued twice or before it was seen; all children of those that are done
\* are in boltMap, each with the parents among those, as often as asked for; and
\* nobody is seen whom no spout reaches.
Searching ==
  /\ \A i, j \in 1 .. Len(queue) : queue[i] = queue[j] => i = j
  /\ Listed \subseteq Seen
  /\ DOMAIN boltMap \cap SpoutsAsked = {}
  /\ \A b \in DOMAIN boltMap : boltMap[b].level = nodes[b].level
  /\ \A c \in Calls : c[1] \in Done => Edge(c)[1] \in DOMAIN boltMap
  /\ \A b \in DOMAIN boltMap, p \in Known, g \in Grouped :
       CountOf(boltMap[b].parents, <<p, g>>) = IF p \in Done THEN Asked(p, b, g) ELSE 0
  /\ \A S \in SUBSET Known : Closed(S) => Seen \subseteq S

SearchInv ==
  /\ SpoutsOnce
  /\ SpoutsFirst /\ client = "collecting" => Searching
  /\ SpecAsBuilt

\* A set of places has a first one.
LEMMA FirstPlace ==
  ASSUME NEW n \in Nat, NEW I \in SUBSET (1 .. n), I # {}
  PROVE  \E i \in I : \A j \in I : i <= j
<1>1. Cardinality(I) \in Nat /\ Cardinality(I) # 0
  BY Ranks, FS_EmptySet
<1>2. PICK i \in I : Rank(I, i) = 1
  <2>1. 1 \in 1 .. Cardinality(I)
    BY <1>1
  <2> QED BY <2>1, Ranks
<1>3. ASSUME NEW j \in I, ~(i <= j) PROVE FALSE
  <2>1. j < i
    BY <1>3
  <2>2. Rank(I, j) < 1 /\ Rank(I, j) \in 1 .. Cardinality(I)
    BY <1>2, <2>1, Ranks
  <2> QED BY <1>1, <2>2
<1> QED BY <1>3

\* Counting in two sequences.
LEMMA CountConcat ==
  ASSUME NEW S, NEW s \in Seq(S), NEW r \in Seq(S), NEW e
  PROVE  CountOf(s \o r, e) = CountOf(s, e) + CountOf(r, e)
<1> DEFINE J == {i \in 1 .. Len(s) + Len(r) : (s \o r)[i] = e}
           before == {j \in 1 .. Len(s) : j \in J}
           after == {j \in 1 .. Len(r) : Len(s) + j \in J}
<1>1. /\ Len(s \o r) = Len(s) + Len(r)
      /\ Len(s) \in Nat /\ Len(r) \in Nat
      /\ \A i \in 1 .. Len(s) : (s \o r)[i] = s[i]
      /\ \A i \in 1 .. Len(r) : (s \o r)[Len(s) + i] = r[i]
  BY ConcatPlaces
<1>2. Cardinality(J) = Cardinality(before) + Cardinality(after)
  <2>1. J \in SUBSET (1 .. Len(s) + Len(r))
    OBVIOUS
  <2> HIDE DEF J
  <2> QED BY <1>1, <2>1, SplitPlaces
<1>3. before = {i \in 1 .. Len(s) : s[i] = e}
  BY <1>1
<1>4. after = {i \in 1 .. Len(r) : r[i] = e}
  BY <1>1
<1> QED BY <1>1, <1>2, <1>3, <1>4 DEF CountOf

\* What the program asked for, as places among the edges of the parent.
LEMMA AskedPlaces ==
  ASSUME TreeOK, NEW p \in Known, NEW b, NEW g
  PROVE  /\ Asked(p, b, g) = CountOf(nodes[p].children, <<b, g>>)
         /\ Asked(p, b, g) \in Nat
<1> DEFINE es == nodes[p].children
           I == {i \in 1 .. Len(es) : es[i] = <<b, g>>}
           C == {c \in Calls : c[1] = p /\ Edge(c) = <<b, g>>}
           f == [i \in I |-> <<p, i>>]
<1>1. Len(es) \in Nat
  BY ChildrenType DEF Known
<1>2. IsFiniteSet(I) /\ Cardinality(I) \in Nat
  <2>1. I \in SUBSET (1 .. Len(es))
    OBVIOUS
  <2> HIDE DEF I
  <2> QED BY <1>1, <2>1, Ranks
<1>3. f \in Bijection(I, C)
  <2>1. f \in [I -> C]
    BY DEF Calls, Edge
  <2>2. \A x, y \in I : f[x] = f[y] => x = y
    OBVIOUS
  <2>3. ASSUME NEW c \in C PROVE \E i \in I : f[i] = c
    <3>1. c[1] = p /\ c[2] \in 1 .. Len(es) /\ es[c[2]] = <<b, g>> /\ c = <<p, c[2]>>
      BY DEF Calls, Edge
    <3> QED BY <3>1
  <2> QED BY <2>1, <2>2, <2>3 DEF Bijection, Injection, Surjection, IsInjective
<1>4. Cardinality(C) = Cardinality(I)
  BY <1>2, <1>3, FS_Bijection DEF ExistsBijection
<1> QED BY <1>2, <1>4 DEF Asked, CountOf

\* Following the edges of p notes it for b as often as the program asked for.
LEMMA NotedNow ==
  ASSUME TreeOK, NEW p \in Known, NEW b \in Known, NEW q \in Known, NEW g
  PROVE  CountOf([i \in 1 .. Len(EdgesTo(p, b)) |-> <<p, EdgesTo(p, b)[i][2]>>], <<q, g>>)
           = IF q = p THEN Asked(p, b, g) ELSE 0
<1> DEFINE es == nodes[p].children
           I == EdgePlaces(p, b)
           J == {i \in 1 .. Len(es) : es[i] = <<b, g>>}
           found == EdgesTo(p, b)
           new == [i \in 1 .. Len(found) |-> <<p, found[i][2]>>]
           N == {i \in 1 .. Len(new) : new[i] = <<q, g>>}
<1>1. Len(es) \in Nat /\ \A i \in 1 .. Len(es) : es[i] \in Known \X Gr
  BY ChildrenType DEF Known
<1>2. I = {i \in 1 .. Len(es) : es[i][1] = b}
  BY DEF EdgePlaces
<1>3. /\ Len(found) = Cardinality(I) /\ Cardinality(I) \in Nat
      /\ \A k \in 1 .. Cardinality(I) : \E i \in I : Rank(I, i) = k /\ found[k] = es[i]
      /\ \A i \in I : Rank(I, i) \in 1 .. Cardinality(I) /\ found[Rank(I, i)] = es[i]
  BY EdgesFound DEF Known
<1>4. Len(new) = Cardinality(I) /\ \A k \in 1 .. Cardinality(I) : new[k] = <<p, found[k][2]>>
  BY <1>3
<1>5. CASE q # p
  <2>1. N = {}
    BY <1>4, <1>5
  <2> QED BY <1>5, <2>1, FS_EmptySet DEF CountOf
<1>6. CASE q = p
  <2>1. J \in SUBSET I
    BY <1>2
  <2>2. N = {k \in 1 .. Cardinality(I) : \E i \in J : Rank(I, i) = k}
    <3>1. ASSUME NEW k \in 1 .. Cardinality(I), new[k] = <<q, g>>
          PROVE  \E i \in J : Rank(I, i) = k
      <4>1. PICK i \in I : Rank(I, i) = k /\ found[k] = es[i]
        BY <1>3
      <4>2. es[i][2] = g /\ es[i][1] = b /\ es[i] \in Known \X Gr
        BY <1>1, <1>2, <1>4, <3>1, <4>1
      <4>3. es[i] = <<b, g>>
        BY <4>2
      <4> QED BY <1>2, <4>1, <4>3
    <3>2. ASSUME NEW k \in 1 .. Cardinality(I), NEW i \in J, Rank(I, i) = k
          PROVE  new[k] = <<q, g>>
      <4>1. found[k] = es[i] /\ es[i] = <<b, g>>
        BY <1>3, <2>1, <3>2
      <4> QED BY <1>4, <1>6, <4>1
    <3> HIDE DEF J, new
    <3> QED BY <1>4, <3>1, <3>2
  <2>3. Cardinality(N) = Cardinality(J)
    <3>1. I \in SUBSET (1 .. Len(es))
      BY <1>2
    <3> HIDE DEF I, J, N
    <3> QED BY <1>1, <2>1, <2>2, <3>1, RankedPlaces
  <2>4. Asked(p, b, g) = Cardinality(J)
    BY AskedPlaces DEF CountOf
  <2> QED BY <1>6, <2>3, <2>4 DEF CountOf
<1> QED BY <1>5, <1>6

\* A spout is given the root as its parent once, when it is new.
LEMMA SpoutsOnceStep ==
  ASSUME RootApart, TreeInv, SpoutsOnce,
         \/ Describe
         \/ UNCHANGED nodes
  PROVE  SpoutsOnce'
<1> DEFINE rs == nodes["root"].children
<1>1. "root" \in DOMAIN nodes /\ TreeOK
  BY DEF TreeInv, TreeOK
<1>2. /\ rs \in Seq(Known \X Gr) /\ Len(rs) \in Nat
      /\ \A i \in 1 .. Len(rs) : rs[i] \in Known \X Gr
  BY <1>1, ChildrenType
<1>3. ASSUME nodes'["root"].children = rs PROVE SpoutsOnce'
  BY <1>3 DEF SpoutsOnce
<1>4. ASSUME NEW id \in Id \ Known, NEW level \in Nat
      PROVE  /\ Put(nodes, id, NewNode(level))["root"] = nodes["root"]
             /\ "root" \in DOMAIN Put(nodes, id, NewNode(level))
             /\ Put(nodes, id, NewNode(level))
                  \in [DOMAIN Put(nodes, id, NewNode(level)) -> Branch(Known \cup {id})]
  BY <1>1, TreeGrows
<1>5. ASSUME NEW id \in Id, SetSpout(id) PROVE SpoutsOnce'
  <2>1. CASE id \in Known
    BY <1>3, <1>5, <2>1 DEF SetSpout
  <2>2. CASE id \notin Known
    <3> DEFINE ns == Put(nodes, id, NewNode(1))
               K == Known \cup {id}
    <3>1. /\ "root" \in DOMAIN ns /\ ns \in [DOMAIN ns -> Branch(K)] /\ ns["root"] = nodes["root"]
      BY <1>4, <2>2
    <3>2. nodes' = Adopted(ns, id, "root", "default")
      BY <1>5, <2>2 DEF SetSpout
    <3>3. id \in K /\ "default" \in Gr
      BY DEF Gr
    <3> HIDE DEF ns, K
    <3>4. nodes'["root"].children = Append(rs, <<id, "default">>)
      <4>1. ns["root"] \in Branch(K)
        BY <3>1
      <4>2. nodes'["root"] = [ns["root"] EXCEPT !.children = Append(@, <<id, "default">>)]
        BY <3>1, <3>2 DEF Adopted
      <4> QED BY <3>1, <4>1, <4>2 DEF Branch
    <3>5. /\ Len(nodes'["root"].children) = Len(rs) + 1
          /\ nodes'["root"].children[Len(rs) + 1] = <<id, "default">>
          /\ \A i \in 1 .. Len(rs) : nodes'["root"].children[i] = rs[i]
      <4> HIDE DEF rs
      <4> QED BY <1>2, <3>4
    <3>6. \A i \in 1 .. Len(rs) : rs[i][1] # id
      BY <1>2, <2>2
    <3>7. \A i \in 1 .. Len(rs) + 1 : i \in 1 .. Len(rs) \/ i = Len(rs) + 1
      BY <1>2
    <3>8. ASSUME NEW i \in 1 .. Len(rs) + 1, NEW j \in 1 .. Len(rs) + 1,
                 nodes'["root"].children[i][1] = nodes'["root"].children[j][1]
          PROVE  i = j
      <4>1. CASE i \in 1 .. Len(rs) /\ j \in 1 .. Len(rs)
        BY <3>5, <3>8, <4>1 DEF SpoutsOnce
      <4>2. CASE i = Len(rs) + 1 /\ j \in 1 .. Len(rs)
        <5>1. nodes'["root"].children[i] = <<id, "default">> /\ nodes'["root"].children[j] = rs[j]
          BY <3>5, <4>2
        <5>2. nodes'["root"].children[i][1] = id /\ nodes'["root"].children[j][1] # id
          BY <3>6, <4>2, <5>1
        <5> QED BY <3>8, <5>2
      <4>3. CASE i \in 1 .. Len(rs) /\ j = Len(rs) + 1
        <5>1. nodes'["root"].children[j] = <<id, "default">> /\ nodes'["root"].children[i] = rs[i]
          BY <3>5, <4>3
        <5>2. nodes'["root"].children[j][1] = id /\ nodes'["root"].children[i][1] # id
          BY <3>6, <4>3, <5>1
        <5> QED BY <3>8, <5>2
      <4> QED BY <3>7, <4>1, <4>2, <4>3
    <3> QED BY <3>5, <3>8 DEF SpoutsOnce
  <2> QED BY <2>1, <2>2
<1>6. ASSUME NEW id \in Id, NEW level \in Level, SetBolt(id, level) PROVE SpoutsOnce'
  <2>1. level \in Nat
    BY TopologyAssumption DEF TopologyAssumption
  <2> QED BY <1>3, <1>4, <1>6, <2>1 DEF SetBolt, SetNode
<1>7. ASSUME NEW e \in EdgeCall, SetParent(e) PROVE SpoutsOnce'
  <2>1. CASE e[1] \in DOMAIN nodes
    <3>1. nodes' = Adopted(nodes, e[2], e[1], e[3]) /\ e[2] \in Known /\ e[3] \in Gr
      BY <1>7, <2>1 DEF SetParent, Gr, Grouped
    <3>2. nodes \in [DOMAIN nodes -> Branch(Known)]
      BY <1>1 DEF TreeOK
    <3>3. nodes'["root"].children = rs
      <4>1. e[1] # "root"
        BY DEF RootApart
      <4>2. nodes'["root"] = nodes["root"]
        BY <1>1, <2>1, <3>1, <3>2, <4>1 DEF Adopted
      <4> QED BY <4>2
    <3> QED BY <1>3, <3>3
  <2>2. CASE e[1] \notin DOMAIN nodes
    BY <1>3, <1>7, <2>2 DEF SetParent
  <2> QED BY <2>1, <2>2
<1>8. ASSUME Build \/ Collect \/ Submit \/ UNCHANGED nodes PROVE SpoutsOnce'
  BY <1>3, <1>8 DEF Build, Collect, Submit
<1> QED BY <1>5, <1>6, <1>7, <1>8 DEF Describe

\* The search begins at the spouts.
LEMMA SearchBegins ==
  ASSUME TreeInv, SpoutsOnce, Build
  PROVE  Searching'
<1> DEFINE rs == nodes["root"].children
<1>1. "root" \in DOMAIN nodes /\ TreeOK
  BY DEF TreeInv, TreeOK
<1>2. /\ Len(queue') = Len(rs) /\ \A i \in 1 .. Len(rs) : queue'[i] = rs[i][1]
  BY <1>1, ChildrenType DEF Build
<1>3. boltMap' = Empty /\ DOMAIN boltMap' = {} /\ nodes' = nodes
  BY DEF Build, TreeInv, BuildOK, Empty
<1>4. SpoutsAsked' = SpoutsAsked /\ Listed' = SpoutsAsked /\ Seen' = SpoutsAsked
  BY <1>2, <1>3 DEF SpoutsAsked, Listed, Seen
<1>5. Done' = {}
  BY <1>4 DEF Done
<1>6. \A S : Closed(S)' => SpoutsAsked \subseteq S
  BY <1>4 DEF Closed
<1>7. \A i, j \in 1 .. Len(queue') : queue'[i] = queue'[j] => i = j
  BY <1>2 DEF SpoutsOnce
<1> QED BY <1>3, <1>4, <1>5, <1>6, <1>7 DEF Searching

FreshSet(p) == {Fresh(p)[k] : k \in 1 .. Len(Fresh(p))}

\* A child of p is found among its edges.
LEMMA IntoIsChildren ==
  ASSUME TreeOK, NEW p \in Known, NEW b
  PROVE  /\ b \in Into(p) <=> \E i \in 1 .. Len(nodes[p].children) : nodes[p].children[i][1] = b
         /\ b \in Into(p) <=> \E c \in Calls : c[1] = p /\ Edge(c)[1] = b
<1> DEFINE es == nodes[p].children
<1>1. \A i \in 1 .. Len(es) : es[i] \in Known \X Gr
  BY ChildrenType DEF Known
<1>2. EdgesTo(p, b) # << >> <=> EdgePlaces(p, b) # {}
  BY EdgesFound DEF Known
<1>3. b \in Into(p) <=> \E i \in 1 .. Len(es) : es[i][1] = b
  <2>1. ASSUME NEW i \in 1 .. Len(es), es[i][1] = b PROVE b \in Known
    BY <1>1, <2>1
  <2> QED BY <1>2, <2>1 DEF Into, EdgePlaces
<1>4. ASSUME NEW i \in 1 .. Len(es), es[i][1] = b PROVE \E c \in Calls : c[1] = p /\ Edge(c)[1] = b
  <2>1. <<p, i>> \in Calls /\ Edge(<<p, i>>) = es[i]
    BY DEF Calls, Edge
  <2> QED BY <1>4, <2>1
<1>5. ASSUME NEW c \in Calls, c[1] = p, Edge(c)[1] = b PROVE \E i \in 1 .. Len(es) : es[i][1] = b
  BY <1>5 DEF Calls, Edge
<1> QED BY <1>3, <1>4, <1>5

\* What is queued are the children that are new, each once.
LEMMA FreshIsNew ==
  ASSUME TreeOK, NEW p \in Known
  PROVE  /\ FreshSet(p) = Into(p) \ DOMAIN boltMap
         /\ \A i, j \in 1 .. Len(Fresh(p)) : Fresh(p)[i] = Fresh(p)[j] => i = j
<1> DEFINE ts == Targets(p)
           es == nodes[p].children
           I == FreshPlaces(p)
<1>1. /\ Len(ts) = Len(es) /\ Len(ts) \in Nat
      /\ \A i \in 1 .. Len(ts) : ts[i] = es[i][1]
  BY ChildrenType DEF Known
<1>2. /\ Len(Fresh(p)) = Cardinality(I) /\ I \in SUBSET (1 .. Len(ts))
      /\ \A k \in 1 .. Cardinality(I) : \E i \in I : Rank(I, i) = k /\ Fresh(p)[k] = ts[i]
      /\ \A i \in I : Rank(I, i) \in 1 .. Cardinality(I) /\ Fresh(p)[Rank(I, i)] = ts[i]
  BY FreshFound DEF Known
<1>3. /\ \A i \in I : ts[i] \notin DOMAIN boltMap /\ \A j \in 1 .. i - 1 : ts[j] # ts[i]
      /\ \A i \in 1 .. Len(ts) : ts[i] \notin DOMAIN boltMap /\ (\A j \in 1 .. i - 1 : ts[j] # ts[i]) => i \in I
  BY DEF FreshPlaces
<1> HIDE DEF I, ts, es
<1>4. ASSUME NEW b \in FreshSet(p) PROVE b \in Into(p) \ DOMAIN boltMap
  <2>1. PICK i \in I : b = ts[i]
    BY <1>2 DEF FreshSet
  <2>2. i \in 1 .. Len(es) /\ es[i][1] = b
    BY <1>1, <1>2, <2>1
  <2> QED BY <1>3, <2>1, <2>2, IntoIsChildren DEF es
<1>5. ASSUME NEW b \in Into(p) \ DOMAIN boltMap PROVE b \in FreshSet(p)
  <2> DEFINE B == {i \in 1 .. Len(ts) : ts[i] = b}
  <2>1. B # {}
    BY <1>1, IntoIsChildren DEF es
  <2>2. PICK i \in B : \A j \in B : i <= j
    <3>1. B \in SUBSET (1 .. Len(ts))
      OBVIOUS
    <3> HIDE DEF B
    <3> QED BY <1>1, <2>1, <3>1, FirstPlace
  <2>3. \A j \in 1 .. i - 1 : ts[j] # b
    BY <1>1, <2>2
  <2>4. i \in I
    BY <1>3, <2>2, <2>3
  <2> QED BY <1>2, <2>2, <2>4 DEF FreshSet
<1>6. ASSUME NEW x \in 1 .. Len(Fresh(p)), NEW y \in 1 .. Len(Fresh(p)), Fresh(p)[x] = Fresh(p)[y]
      PROVE  x = y
  <2>1. PICK i \in I : Rank(I, i) = x /\ Fresh(p)[x] = ts[i]
    BY <1>2
  <2>2. PICK j \in I : Rank(I, j) = y /\ Fresh(p)[y] = ts[j]
    BY <1>2
  <2>3. i \in 1 .. Len(ts) /\ j \in 1 .. Len(ts) /\ ts[i] = ts[j]
    BY <1>2, <1>6, <2>1, <2>2
  <2>4. ~(i < j) /\ ~(j < i)
    <3>1. i < j => i \in 1 .. j - 1
      BY <1>1, <2>3
    <3>2. j < i => j \in 1 .. i - 1
      BY <1>1, <2>3
    <3> QED BY <1>3, <2>3, <3>1, <3>2
  <2>5. i = j
    BY <1>1, <2>3, <2>4
  <2> QED BY <2>1, <2>2, <2>5
<1> QED BY <1>4, <1>5, <1>6

\* The first of a queue without repetition, and the others.
LEMMA QueueParts ==
  ASSUME NEW S, NEW q \in Seq(S), q # << >>, \A i, j \in 1 .. Len(q) : q[i] = q[j] => i = j
  PROVE  LET rest == {Tail(q)[i] : i \in 1 .. Len(Tail(q))} IN
         /\ Head(q) \in S /\ Tail(q) \in Seq(S)
         /\ {q[i] : i \in 1 .. Len(q)} = {Head(q)} \cup rest
         /\ Head(q) \notin rest
         /\ \A i, j \in 1 .. Len(Tail(q)) : Tail(q)[i] = Tail(q)[j] => i = j
<1> DEFINE t == Tail(q)
<1>1. /\ Len(q) \in Nat /\ Len(q) >= 1 /\ Head(q) = q[1] /\ q[1] \in S
      /\ t \in Seq(S) /\ Len(t) = Len(q) - 1 /\ \A i \in 1 .. Len(t) : t[i] = q[i + 1]
  <2>1. Len(q) \in Nat /\ Len(q) # 0
    OBVIOUS
  <2> QED BY <2>1, HeadTailProperties
<1> HIDE DEF t
<1>2. \A i \in 1 .. Len(t) : i + 1 \in 1 .. Len(q) /\ i + 1 # 1
  BY <1>1
<1>3. \A i \in 1 .. Len(q) : i = 1 \/ (i - 1 \in 1 .. Len(t) /\ q[i] = t[i - 1])
  <2>1. ASSUME NEW i \in 1 .. Len(q), i # 1 PROVE i - 1 \in 1 .. Len(t) /\ (i - 1) + 1 = i
    BY <1>1, <2>1
  <2> QED BY <1>1, <2>1
<1>4. 1 \in 1 .. Len(q)
  BY <1>1
<1>5. {q[i] : i \in 1 .. Len(q)} = {Head(q)} \cup {t[i] : i \in 1 .. Len(t)}
  <2>1. ASSUME NEW i \in 1 .. Len(t) PROVE t[i] \in {q[j] : j \in 1 .. Len(q)}
    BY <1>1, <1>2
  <2> QED BY <1>1, <1>3, <1>4, <2>1
<1>6. Head(q) \notin {t[i] : i \in 1 .. Len(t)}
  <2> SUFFICES ASSUME NEW i \in 1 .. Len(t), t[i] = Head(q) PROVE FALSE
    OBVIOUS
  <2>1. q[i + 1] = q[1] /\ i + 1 \in 1 .. Len(q)
    BY <1>1, <1>2
  <2> QED BY <1>2, <1>4, <2>1
<1>7. ASSUME NEW i \in 1 .. Len(t), NEW j \in 1 .. Len(t), t[i] = t[j] PROVE i = j
  <2>1. q[i + 1] = q[j + 1] /\ i + 1 \in 1 .. Len(q) /\ j + 1 \in 1 .. Len(q)
    BY <1>1, <1>2, <1>7
  <2>2. i + 1 = j + 1
    BY <2>1
  <2> QED BY <1>1, <2>2
<1> QED BY <1>1, <1>5, <1>6, <1>7 DEF t

\* One round of the loop.
LEMMA SearchGoesOn ==
  ASSUME TreeInv, SpoutsFirst, Searching, Collect
  PROVE  Searching'
<1> DEFINE p == Head(queue)
           t == Tail(queue)
           rest == {t[i] : i \in 1 .. Len(t)}
           fr == Fresh(p)
<1>1. /\ queue \in Seq(Known) /\ queue # << >> /\ TreeOK /\ BuildOK
      /\ DOMAIN boltMap \subseteq Known
  BY DEF TreeInv, BuildOK, Collect
<1>2. /\ p \in Known /\ t \in Seq(Known) /\ Listed = {p} \cup rest /\ p \notin rest
      /\ \A i, j \in 1 .. Len(t) : t[i] = t[j] => i = j
  <2>1. \A i, j \in 1 .. Len(queue) : queue[i] = queue[j] => i = j
    BY DEF Searching
  <2> DEFINE S == Known
  <2>2. queue \in Seq(S) /\ queue # << >>
    BY <1>1
  <2> HIDE DEF S, p, t, rest
  <2>3. LET others == {Tail(queue)[i] : i \in 1 .. Len(Tail(queue))} IN
        /\ Head(queue) \in S /\ Tail(queue) \in Seq(S)
        /\ {queue[i] : i \in 1 .. Len(queue)} = {Head(queue)} \cup others
        /\ Head(queue) \notin others
        /\ \A i, j \in 1 .. Len(Tail(queue)) : Tail(queue)[i] = Tail(queue)[j] => i = j
    BY ONLY <2>1, <2>2, QueueParts
  <2> QED BY <2>3 DEF Listed, S, p, t, rest
<1>3. p \in DOMAIN nodes /\ fr \in Seq(Known)
  BY <1>1, <1>2, FreshFound DEF Known
<1>4. /\ queue' = t \o fr
      /\ boltMap' = [b \in DOMAIN boltMap \cup Into(p) |->
                       [level |-> nodes[b].level, parents |-> ParentsAfter(p, b)]]
      /\ UNCHANGED <<client, nodes, stored>>
  BY DEF Collect, Into
<1>5. DOMAIN boltMap' = DOMAIN boltMap \cup Into(p) /\ Into(p) \subseteq Known
  BY <1>4 DEF Into
<1>6. /\ Known' = Known /\ SpoutsAsked' = SpoutsAsked /\ Calls' = Calls
      /\ (\A c : Edge(c)' = Edge(c)) /\ (\A S : Closed(S)' = Closed(S))
      /\ (\A x, b, g : Asked(x, b, g)' = Asked(x, b, g))
  BY <1>4 DEF Known, SpoutsAsked, Calls, Edge, Closed, Asked
<1> HIDE DEF p, t, fr
<1>7. FreshSet(p) = Into(p) \ DOMAIN boltMap
      /\ \A i, j \in 1 .. Len(fr) : fr[i] = fr[j] => i = j
  BY <1>1, <1>2, FreshIsNew DEF fr
<1>8. p \in Seen /\ rest \subseteq Seen /\ Listed \subseteq Seen
  BY <1>2 DEF Searching
<1>9. Into(p) \cap SpoutsAsked = {}
  BY <1>1, <1>2, IntoIsChildren DEF SpoutsFirst
<1>10. FreshSet(p) \cap Seen = {} /\ FreshSet(p) = {fr[k] : k \in 1 .. Len(fr)}
  BY <1>7, <1>9 DEF Seen, FreshSet, fr
<1>11. /\ Len(t) \in Nat /\ Len(fr) \in Nat /\ Len(queue') = Len(t) + Len(fr)
       /\ \A i \in 1 .. Len(t) : queue'[i] = t[i]
       /\ \A i \in 1 .. Len(fr) : queue'[Len(t) + i] = fr[i]
       /\ \A i \in 1 .. Len(queue') : i \in 1 .. Len(t) \/ i - Len(t) \in 1 .. Len(fr)
  <2> DEFINE S == Known
  <2>1. t \in Seq(S) /\ fr \in Seq(S)
    BY <1>2, <1>3
  <2> HIDE DEF S
  <2> QED BY <1>4, <2>1, ConcatPlaces
<1>12. \A i \in 1 .. Len(queue') : i \notin 1 .. Len(t) => queue'[i] = fr[i - Len(t)]
  <2>1. ASSUME NEW i \in 1 .. Len(queue'), i \notin 1 .. Len(t)
        PROVE  i - Len(t) \in 1 .. Len(fr) /\ Len(t) + (i - Len(t)) = i
    BY <1>11, <2>1
  <2> QED BY <1>11, <2>1
<1>13. Listed' = rest \cup FreshSet(p)
  <2>1. ASSUME NEW i \in 1 .. Len(queue') PROVE queue'[i] \in rest \cup FreshSet(p)
    BY <1>10, <1>11, <1>12
  <2>2. ASSUME NEW i \in 1 .. Len(t) PROVE t[i] \in Listed'
    <3>1. i \in 1 .. Len(queue')
      BY <1>11
    <3> QED BY <1>11, <3>1 DEF Listed
  <2>3. ASSUME NEW i \in 1 .. Len(fr) PROVE fr[i] \in Listed'
    <3>1. Len(t) + i \in 1 .. Len(queue')
      BY <1>11
    <3> QED BY <1>11, <3>1 DEF Listed
  <2> QED BY <1>10, <2>1, <2>2, <2>3 DEF Listed
<1>14. ASSUME NEW i \in 1 .. Len(queue'), NEW j \in 1 .. Len(queue'), queue'[i] = queue'[j]
       PROVE  i = j
  <2>1. \A k \in 1 .. Len(t) : queue'[k] \in rest
    BY <1>11
  <2>2. \A k \in 1 .. Len(queue') : k \notin 1 .. Len(t) => queue'[k] \in FreshSet(p)
    BY <1>10, <1>11, <1>12
  <2>3. i \in 1 .. Len(t) <=> j \in 1 .. Len(t)
    BY <1>8, <1>10, <1>14, <2>1, <2>2
  <2>4. CASE i \in 1 .. Len(t)
    BY <1>2, <1>11, <1>14, <2>3, <2>4
  <2>5. CASE i \notin 1 .. Len(t)
    <3>1. j \notin 1 .. Len(t) /\ queue'[i] = fr[i - Len(t)] /\ queue'[j] = fr[j - Len(t)]
      BY <1>12, <2>3, <2>5
    <3>2. i - Len(t) \in 1 .. Len(fr) /\ j - Len(t) \in 1 .. Len(fr)
      BY <1>11, <2>5, <3>1
    <3>3. i - Len(t) = j - Len(t)
      BY <1>7, <1>14, <3>1, <3>2
    <3> QED BY <1>11, <3>3
  <2> QED BY <2>4, <2>5
<1>15. Seen' = Seen \cup FreshSet(p)
  BY <1>5, <1>6, <1>7 DEF Seen
<1>16. Done' = Done \cup {p} /\ p \notin Done
  BY <1>2, <1>8, <1>10, <1>13, <1>15 DEF Done
<1>17. \A b \in DOMAIN boltMap' : boltMap'[b].level = nodes'[b].level
  BY <1>4, <1>5
<1>18. ASSUME NEW c \in Calls, c[1] \in Done' PROVE Edge(c)[1] \in DOMAIN boltMap'
  <2>1. CASE c[1] = p
    BY <1>1, <1>2, <1>5, <2>1, IntoIsChildren
  <2>2. CASE c[1] \in Done
    BY <1>5, <2>2 DEF Searching
  <2> QED BY <1>16, <1>18, <2>1, <2>2
<1>19. ASSUME NEW b \in DOMAIN boltMap', NEW x \in Known, NEW g \in Grouped
       PROVE  CountOf(boltMap'[b].parents, <<x, g>>) = IF x \in Done' THEN Asked(x, b, g) ELSE 0
  <2> DEFINE old == IF b \in DOMAIN boltMap THEN boltMap[b].parents ELSE << >>
             new == [i \in 1 .. Len(EdgesTo(p, b)) |-> <<p, EdgesTo(p, b)[i][2]>>]
             S == Known \X Gr
  <2>1. b \in Known /\ boltMap'[b].parents = ParentsAfter(p, b)
    BY <1>1, <1>4, <1>5
  <2>2. old \in Seq(S) /\ new \in Seq(S) /\ ParentsAfter(p, b) = old \o new
    BY <1>1, <1>2, <2>1, ParentsNoted
  <2>3. CountOf(new, <<x, g>>) = IF x = p THEN Asked(p, b, g) ELSE 0
    BY <1>1, <1>2, <2>1, NotedNow
  <2>4. CountOf(old, <<x, g>>) = IF x \in Done THEN Asked(x, b, g) ELSE 0
    <3>1. CASE b \in DOMAIN boltMap
      BY <3>1 DEF Searching
    <3>2. CASE b \notin DOMAIN boltMap
      <4>1. CountOf(<< >>, <<x, g>>) = 0
        <5>1. {i \in 1 .. Len(<< >>) : << >>[i] = <<x, g>>} = {}
          OBVIOUS
        <5> QED BY <5>1, FS_EmptySet DEF CountOf
      <4>2. x \in Done => Asked(x, b, g) = 0
        <5>1. x \in Done => {c \in Calls : c[1] = x /\ Edge(c) = <<b, g>>} = {}
          BY <3>2 DEF Searching
        <5> QED BY <5>1, FS_EmptySet DEF Asked
      <4> QED BY <3>2, <4>1, <4>2
    <3> QED BY <3>1, <3>2
  <2> HIDE DEF old, new, S
  <2>5. CountOf(old \o new, <<x, g>>) = CountOf(old, <<x, g>>) + CountOf(new, <<x, g>>)
    BY <2>2, CountConcat
  <2>6. Asked(x, b, g) \in Nat
    BY <1>1, AskedPlaces
  <2> QED BY <1>16, <2>1, <2>2, <2>3, <2>4, <2>5, <2>6
<1>20. ASSUME NEW S \in SUBSET Known, Closed(S) PROVE Seen' \subseteq S
  <2>1. Seen \subseteq S
    BY <1>20 DEF Searching
  <2>2. Into(p) \subseteq S
    BY <1>1, <1>2, <1>8, <1>20, <2>1, IntoIsChildren DEF Closed
  <2> QED BY <1>7, <1>15, <2>1, <2>2
<1>21. DOMAIN boltMap' \cap SpoutsAsked = {}
  BY <1>5, <1>9 DEF Searching
<1>22. Listed' \subseteq Seen'
  BY <1>8, <1>13, <1>15
<1>23. /\ \A c \in Calls' : c[1] \in Done' => Edge(c)'[1] \in DOMAIN boltMap'
       /\ \A b \in DOMAIN boltMap', x \in Known', g \in Grouped :
            CountOf(boltMap'[b].parents, <<x, g>>) = IF x \in Done' THEN Asked(x, b, g)' ELSE 0
       /\ \A S \in SUBSET Known' : Closed(S)' => Seen' \subseteq S
       /\ DOMAIN boltMap' \cap SpoutsAsked' = {}
  BY <1>6, <1>18, <1>19, <1>20, <1>21
<1> QED BY <1>14, <1>17, <1>22, <1>23 DEF Searching, CountOf

\* When the queue is empty, what was seen is what the spouts reach.
LEMMA SearchEnds ==
  ASSUME TreeInv, SpoutsFirst, Searching, Submit
  PROVE  SpecAsBuilt'
<1>1. /\ TreeOK /\ BuildOK /\ DOMAIN boltMap \subseteq Known /\ queue = << >>
      /\ UNCHANGED <<nodes, queue, boltMap>>
  BY DEF TreeInv, BuildOK, Submit
<1>2. Listed = {} /\ Done = Seen
  <2>1. Listed = {}
    BY <1>1 DEF Listed
  <2> QED BY <2>1 DEF Done
<1>3. SpoutsAsked \subseteq Known
  <2>1. "root" \in DOMAIN nodes
    BY <1>1 DEF TreeOK
  <2>2. \A i \in 1 .. Len(nodes["root"].children) : nodes["root"].children[i] \in Known \X Gr
    BY <1>1, <2>1, ChildrenType
  <2> QED BY <2>2 DEF SpoutsAsked
<1>4. Seen \in SUBSET Known /\ Closed(Seen)
  BY <1>1, <1>2, <1>3 DEF Seen, Closed, Searching
<1>5. Reached = Seen
  <2>1. Reached = {t \in Known : \A S \in SUBSET Known : Closed(S) => t \in S}
    BY DEF Reached, Closed
  <2>2. Reached \subseteq Seen
    BY <1>4, <2>1
  <2>3. Seen \subseteq Reached
    BY <1>4, <2>1 DEF Searching
  <2> QED BY <2>2, <2>3
<1>6. DOMAIN boltMap = Reached \ SpoutsAsked
  BY <1>5 DEF Seen, Searching
<1>7. /\ Known' = Known /\ SpoutsAsked' = SpoutsAsked /\ Reached' = Reached
      /\ \A x, b, g : Asked(x, b, g)' = Asked(x, b, g)
  BY <1>1 DEF Known, SpoutsAsked, Reached, Asked, Calls, Edge
<1>8. /\ client' = "submitted" /\ stored'.spouts = SpoutsAsked
      /\ stored'.bolts = [b \in DOMAIN boltMap |->
           [level |-> LevelParsed(LevelSent(boltMap[b].level)), parents |-> boltMap[b].parents]]
  BY <1>7, SubmitStep DEF TreeInv, StoredOK, Submit
<1>9. ASSUME NEW b \in DOMAIN boltMap
      PROVE  stored'.bolts[b].level =
               IF nodes[b].level > DefaultLevel THEN nodes[b].level ELSE DefaultLevel
  <2>1. boltMap[b].level = nodes[b].level /\ nodes[b].level \in Nat
    BY <1>1, ChildrenType DEF Searching, Known
  <2> QED BY <1>8, <2>1 DEF LevelParsed, LevelSent
<1>10. ASSUME NEW b \in DOMAIN boltMap, NEW p \in Known, NEW g \in Grouped
       PROVE  Cardinality({i \in 1 .. Len(stored'.bolts[b].parents) :
                             stored'.bolts[b].parents[i] = <<p, g>>})
                = IF p \in Reached THEN Asked(p, b, g) ELSE 0
  <2>1. stored'.bolts[b].parents = boltMap[b].parents
    BY <1>8
  <2>2. CountOf(boltMap[b].parents, <<p, g>>) = IF p \in Reached THEN Asked(p, b, g) ELSE 0
    BY <1>2, <1>5 DEF Searching
  <2> QED BY <2>1, <2>2 DEF CountOf
<1>11. ASSUME NEW b \in DOMAIN boltMap, NEW p \in Known, NEW g \in Grouped
       PROVE  Noted(p, b, g)' = IF p \in Reached THEN Asked(p, b, g) ELSE 0
  BY <1>10 DEF Noted
<1>12. DOMAIN stored'.bolts = DOMAIN boltMap
  BY <1>8
<1>13. /\ stored'.spouts = SpoutsAsked' /\ DOMAIN stored'.bolts = Reached' \ SpoutsAsked'
       /\ \A b \in DOMAIN stored'.bolts :
            /\ stored'.bolts[b].level =
                 IF nodes'[b].level > DefaultLevel THEN nodes'[b].level ELSE DefaultLevel
            /\ \A p \in Known', g \in Grouped :
                 Noted(p, b, g)' = IF p \in Reached' THEN Asked(p, b, g)' ELSE 0
  BY <1>1, <1>6, <1>7, <1>8, <1>9, <1>11, <1>12
<1> QED BY <1>13 DEF SpecAsBuilt

\* There is nothing to search at first.
LEMMA SearchInit == Init => SearchInv
<1> SUFFICES ASSUME Init PROVE SearchInv
  OBVIOUS
<1>1. nodes["root"].children = << >> /\ client = "building"
  BY DEF Init, Put, Empty, NewNode
<1>2. SpoutsOnce
  BY <1>1 DEF SpoutsOnce
<1> QED BY <1>1, <1>2 DEF SearchInv, SpecAsBuilt

\* Every step of the builder, and what follows it.
LEMMA SearchStep ==
  ASSUME RootApart, TreeInv, SearchInv,
         \/ Describe
         \/ client = "submitted" /\ client' = "started" /\ UNCHANGED <<nodes, queue, boltMap, stored>>
         \/ UNCHANGED builderVars
  PROVE  SearchInv'
<1>1. SpoutsOnce'
  BY SpoutsOnceStep DEF SearchInv, builderVars
<1>2. CASE UNCHANGED builderVars
  <2>1. /\ Known' = Known /\ SpoutsAsked' = SpoutsAsked /\ Calls' = Calls
        /\ SpoutsFirst' = SpoutsFirst /\ Searching' = Searching /\ SpecAsBuilt' = SpecAsBuilt
    BY <1>2 DEF builderVars, Known, SpoutsAsked, Calls, Edge, SpoutsFirst, Searching, SpecAsBuilt,
       Seen, Listed, Done, CountOf, Closed, Asked, Noted, Reached
  <2> QED BY <1>1, <1>2, <2>1 DEF SearchInv, builderVars
<1>3. CASE client' \notin {"collecting", "submitted"}
  BY <1>1, <1>3 DEF SearchInv, SpecAsBuilt
<1>4. CASE Build
  BY <1>1, <1>4, SearchBegins DEF SearchInv, Build, SpecAsBuilt
<1>5. CASE Collect
  <2>1. client' = "collecting" /\ client = "collecting" /\ SpoutsFirst' = SpoutsFirst
    BY <1>5 DEF Collect, SpoutsFirst, Calls, Edge, Known, SpoutsAsked
  <2> QED BY <1>1, <1>5, <2>1, SearchGoesOn DEF SearchInv, SpecAsBuilt
<1>6. CASE Submit
  <2>1. client' = "submitted" /\ client = "collecting" /\ SpoutsFirst' = SpoutsFirst
    BY <1>6 DEF Submit, SpoutsFirst, Calls, Edge, Known, SpoutsAsked
  <2>2. SpecAsBuilt'
    BY <1>6, <2>1, SearchEnds DEF SearchInv, SpecAsBuilt
  <2> QED BY <1>1, <2>1, <2>2 DEF SearchInv
<1>7. ASSUME client = "building", client' # "collecting" PROVE client' \notin {"collecting", "submitted"} \/ ~Describe
  BY <1>7 DEF Describe, SetSpout, SetBolt, SetNode, SetParent, Build, Collect, Submit
<1>8. CASE Describe
  <2>1. Build \/ Collect \/ Submit \/ client' \in {"building", "aborted"}
    BY <1>8 DEF Describe, SetSpout, SetBolt, SetNode, SetParent
  <2> QED BY <1>3, <1>4, <1>5, <1>6, <2>1
<1> QED BY <1>2, <1>3, <1>8
=============================================================================
