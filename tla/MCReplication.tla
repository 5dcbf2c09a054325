---------------------------- MODULE MCReplication ----------------------------
(***************************************************************************)
(* An instance of Replication for TLC.                                     *)
(***************************************************************************)
EXTENDS Replication

\* A bound on the exploration: the first command is a put of the highest user
\* (any other finds nothing to do), and no command is given once one of these
\* has happened, since the properties say nothing of what it does to later ones.
Foremost == CHOOSE u \in User : \A v \in User : v <= u
Explored ==
  /\ asked = 0 => user'[Foremost].op = "put"
  /\ Unmarred({"amid", "late", "hasty", "overlap"})
MCNext == Next /\ (asked' # asked => Explored)
MCSpec == Init /\ [][MCNext]_vars /\ Fairness
=============================================================================
