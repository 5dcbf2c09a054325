---------------------------- MODULE MCMembership ----------------------------
(***************************************************************************)
(* Membership on a group of four, in the behaviours in which reading is    *)
(* prompt: a node reads what it was sent just before its own round, and    *)
(* the nodes send in the same order in every period, by their ids or in    *)
(* the opposite order (they all sleep for the same time).  MaxEvents nodes *)
(* start, crash or leave, the first one in the first two periods, which    *)
(* are like all later ones, and none after LastEvent.                      *)
(***************************************************************************)
EXTENDS Membership

CONSTANTS MaxEvents, LastEvent

VARIABLE phase  \* phase[n]: when n sends, within a period

Phases == {[n \in Node |-> n], [n \in Node |-> -n]}

Reading == {n \in Live \ beaten : inbox[n] # << >>}

Prompt ==
  /\ Next
  /\ \A n \in Reading : inbox'[n] # inbox[n]
  /\ \A n \in beaten : Len(inbox'[n]) <= Len(inbox[n])
  /\ \A n \in beaten' \ beaten :
       /\ \A m \in Node : chan[m][n] = << >>
       /\ \A m \in Live \ beaten : phase[n] <= phase[m]
  /\ starts' + crashes' + leaves' <= MaxEvents
  /\ bounds' # bounds => now <= IF starts + crashes + leaves = 0 THEN 1 ELSE LastEvent
  /\ UNCHANGED phase

MCInit == Init /\ phase \in Phases

MCSpec == MCInit /\ [][Prompt]_<<vars, phase>>
=============================================================================
