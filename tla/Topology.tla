------------------------------- MODULE Topology -------------------------------
(***************************************************************************)
(* How a topology gets from the program that describes it to Nimbus: the   *)
(* calls of TopologyBuilder (crane-core/src/topology), buildTopology, the  *)
(* client's submit request (client/src/CraneClient.cpp) and what Nimbus    *)
(* makes of it (TopologySpec::parseFromRequest, the tree of                *)
(* Nimbus::prepareTopology).                                               *)
(*                                                                         *)
(* The order of the bolts in a request, which is that of their names, is   *)
(* left out: nothing that follows depends on it.                           *)
(***************************************************************************)
EXTENDS Integers, Sequences, FiniteSets

CONSTANTS
  Id,            \* ids of spouts and bolts
  Level,         \* levels of parallelism a program asks for
  EdgeCall,      \* what setParent is called with: <<parent, child, grouping>>
  MaxEdges,      \* bound: calls of setParent
  DefaultLevel   \* paraLevel of a BoltSpec, and the limit in submit (3)

ASSUME TopologyAssumption ==
  /\ "root" \notin Id
  /\ Level \subseteq Nat
  /\ \A e \in EdgeCall : e[2] \in Id
  /\ MaxEdges \in Nat
  /\ DefaultLevel \in Nat \ {0}

VARIABLES
  client,   \* what the client program is at
  nodes,    \* Node::nodeTypeMap
  queue,    \* of buildTopology
  boltMap,  \* of buildTopology
  stored    \* the specification that Nimbus has

builderVars == <<client, nodes, queue, boltMap, stored>>

-----------------------------------------------------------------------------
Put(f, k, v) == [x \in DOMAIN f \cup {k} |-> IF x = k THEN v ELSE f[x]]
Empty == [x \in {} |-> x]

\* The elements of s at the places of I, in their order.
Picked(s, I) ==
  [k \in 1 .. Cardinality(I) |-> s[CHOOSE p \in I : Cardinality({q \in I : q <= p}) = k]]

NewNode(level) == [level |-> level, children |-> << >>]
\* setParent, on the node id.
Adopted(ns, id, parent, grouping) ==
  [ns EXCEPT ![parent].children = Append(@, <<id, grouping>>)]

Known == DOMAIN nodes \ {"root"}
\* Calls of setParent: the parent, and the place of the edge among its edges.
Calls == UNION {{p} \X (1 .. Len(nodes[p].children)) : p \in Known}
Edge(c) == nodes[c[1]].children[c[2]]
EdgesTo(p, b) ==
  LET edges == nodes[p].children
  IN Picked(edges, {i \in 1 .. Len(edges) : edges[i][1] = b})

Init ==
  /\ client = "building"
  /\ nodes = Put(Empty, "root", NewNode(0))
  /\ queue = << >> /\ boltMap = Empty
  /\ stored = [spouts |-> {}, bolts |-> Empty]

\* An id that exists already is an exception that the program does not catch.
SetNode(id, level) ==
  IF id \in Known
  THEN client' = "aborted" /\ UNCHANGED nodes
  ELSE nodes' = Put(nodes, id, NewNode(level)) /\ UNCHANGED client

SetSpout(id) ==
  /\ client = "building"
  /\ IF id \in Known
     THEN client' = "aborted" /\ UNCHANGED nodes
     ELSE /\ nodes' = Adopted(Put(nodes, id, NewNode(1)), id, "root", "default")
          /\ UNCHANGED client
  /\ UNCHANGED <<queue, boltMap, stored>>

SetBolt(id, level) ==
  /\ client = "building"
  /\ SetNode(id, level)
  /\ UNCHANGED <<queue, boltMap, stored>>

\* A parent that does not exist is looked up as a null pointer and dereferenced.
SetParent(e) ==
  /\ client = "building"
  /\ e[2] \in Known
  /\ Cardinality(Calls) < MaxEdges
  /\ IF e[1] \in DOMAIN nodes
     THEN nodes' = Adopted(nodes, e[2], e[1], e[3]) /\ UNCHANGED client
     ELSE client' = "aborted" /\ UNCHANGED nodes
  /\ UNCHANGED <<queue, boltMap, stored>>

-----------------------------------------------------------------------------
(* buildTopology: breadth first from the spouts *)

Targets(p) == [i \in 1 .. Len(nodes[p].children) |-> nodes[p].children[i][1]]

Build ==
  /\ client = "building"
  /\ client' = "collecting"
  /\ queue' = Targets("root")
  /\ UNCHANGED <<nodes, boltMap, stored>>

\* What one round of the while loop leaves in boltMap[b].parents.
ParentsAfter(p, b) ==
  (IF b \in DOMAIN boltMap THEN boltMap[b].parents ELSE << >>)
    \o [i \in 1 .. Len(EdgesTo(p, b)) |-> <<p, EdgesTo(p, b)[i][2]>>]

\* Children that were not in boltMap, in order of their first occurrence.
Fresh(p) ==
  LET ts == Targets(p)
  IN Picked(ts, {i \in 1 .. Len(ts) :
                   ts[i] \notin DOMAIN boltMap /\ \A j \in 1 .. i - 1 : ts[j] # ts[i]})

\* Mutant: a bolt that is known already gets no further parent.
CollectFirst ==
  /\ client = "collecting" /\ queue # << >>
  /\ LET p == Head(queue)
         Into == {b \in Known \ DOMAIN boltMap : EdgesTo(p, b) # << >>} IN
     /\ queue' = Tail(queue) \o Fresh(p)
     /\ boltMap' = [b \in DOMAIN boltMap \cup Into |->
                      IF b \in Into THEN [level |-> nodes[b].level, parents |-> ParentsAfter(p, b)]
                      ELSE boltMap[b]]
  /\ UNCHANGED <<client, nodes, stored>>

Collect ==
  /\ client = "collecting" /\ queue # << >>
  /\ LET p == Head(queue)
         Into == {b \in Known : EdgesTo(p, b) # << >>} IN
     /\ queue' = Tail(queue) \o Fresh(p)
     /\ boltMap' = [b \in DOMAIN boltMap \cup Into |->
                      [level |-> nodes[b].level, parents |-> ParentsAfter(p, b)]]
  /\ UNCHANGED <<client, nodes, stored>>

\* submit: the level is sent only if it is greater than 3; parseFromRequest
\* leaves the default level where none was sent.
LevelSent(level) == IF level > DefaultLevel THEN <<level>> ELSE << >>
LevelParsed(sent) == IF sent = << >> THEN DefaultLevel ELSE sent[1]

Submit ==
  /\ client = "collecting" /\ queue = << >>
  /\ client' = "submitted"
  /\ stored' = [spouts |-> {nodes["root"].children[i][1] :
                              i \in 1 .. Len(nodes["root"].children)},
                bolts |-> [b \in DOMAIN boltMap |->
                  [boltMap[b] EXCEPT !.level = LevelParsed(LevelSent(@))]]]
  /\ UNCHANGED <<nodes, queue, boltMap>>

Describe ==
  \/ \E id \in Id : SetSpout(id) \/ \E level \in Level : SetBolt(id, level)
  \/ \E e \in EdgeCall : SetParent(e)
  \/ Build
  \/ Collect
  \/ Submit

-----------------------------------------------------------------------------
(* Nimbus: instances of a task, and the groups of connections of its parents *)

LevelOf(t) == IF t \in stored.spouts THEN 1 ELSE stored.bolts[t].level

\* The groups of p: a bolt of which it is a parent, and the place among that
\* bolt's parents.
Groups(p) ==
  UNION {{b} \X {i \in 1 .. Len(stored.bolts[b].parents) : stored.bolts[b].parents[i][1] = p} :
           b \in DOMAIN stored.bolts}
Grouping(g) == stored.bolts[g[1]].parents[g[2]][2]

-----------------------------------------------------------------------------
(* Properties *)

SpoutsAsked == {nodes["root"].children[i][1] : i \in 1 .. Len(nodes["root"].children)}
Asked(p, b, grouping) == Cardinality({c \in Calls : c[1] = p /\ Edge(c) = <<b, grouping>>})
Noted(p, b, grouping) ==
  Cardinality({i \in 1 .. Len(stored.bolts[b].parents) :
                 stored.bolts[b].parents[i] = <<p, grouping>>})

\* Tasks that a spout reaches: in every set that has the spouts and the
\* children of its members.
Reached ==
  {t \in Known : \A S \in SUBSET Known :
     SpoutsAsked \subseteq S /\ (\A c \in Calls : c[1] \in S => Edge(c)[1] \in S) => t \in S}

Grouped == {e[3] : e \in EdgeCall}
\* No spout has a parent.
SpoutsFirst == \A c \in Calls : Edge(c)[1] \notin SpoutsAsked

\* Nimbus gets each bolt that a spout reaches, each with exactly the parents the
\* program gave it, as often as it did, and the level it asked for if that is more
\* than the default, which it gets otherwise.
SpecAsBuilt ==
  client = "submitted" /\ SpoutsFirst =>
    /\ stored.spouts = SpoutsAsked
    /\ DOMAIN stored.bolts = Reached \ SpoutsAsked
    /\ \A b \in DOMAIN stored.bolts :
         /\ stored.bolts[b].level =
              IF nodes[b].level > DefaultLevel THEN nodes[b].level ELSE DefaultLevel
         /\ \A p \in Known, grouping \in Grouped :
              Noted(p, b, grouping) = IF p \in Reached THEN Asked(p, b, grouping) ELSE 0
=============================================================================
