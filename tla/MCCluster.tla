----------------------------- MODULE MCCluster -----------------------------
(***************************************************************************)
(* Instances of Cluster for TLC: topologies with a spout "in" and a bolt   *)
(* "out" that reads it.                                                    *)
(***************************************************************************)
EXTENDS Cluster

\* The bolt has as many instances as MCPlan says: one, or two.
MCPlanTwo == [t \in Topology |-> <<"in", "out", "out">>]
MCPlanOne == [t \in Topology |-> <<"in", "out">>]
\* Names whose concatenations differ.
MCWorkerId == [t \in Topology |-> [k \in Task(t) |-> <<t, k>>]]
MCChild == [t \in Topology |-> [k \in {"in", "out"} |-> IF k = "in" THEN {"out"} ELSE {}]]

\* A bound on the exploration: what threads do once they overlap is left out,
\* since the properties that use this specification say nothing of it.
AloneSpec == Init /\ [][~Overlap /\ Next]_vars /\ Fairness
=============================================================================
