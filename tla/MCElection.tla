----------------------------- MODULE MCElection -----------------------------
(***************************************************************************)
(* Instances of Election for TLC.                                          *)
(***************************************************************************)
EXTENDS Election

\* Every daemon knew the whole group when its first electionThread woke.
FullView == [n \in Node |-> Node]

\* Whoever joins is told of all; the settled nodes have yet to learn of the last.
LateView ==
  [n \in Node |-> IF n \in Fresh THEN Node ELSE {m \in Node : \E k \in Node : m < k}]

\* Nodes only fail between elections, when everybody knows everybody, so that no
\* request is to a node that is gone; and no reply is late.
Calm == Quiet /\ \A n \in alive : alive \subseteq members[n]
CalmNext ==
  \/ \E n \in Node : ElectionStep(n) \/ ServiceStep(n) \/ SenderStep(n) \/ Detection(n)
  \/ Tick
  \/ \E n \in Node : Calm /\ (Crash(n) \/ Leave(n))
CalmSpec == Init /\ [][CalmNext]_vars /\ Fairness
=============================================================================
