------------------------------ MODULE FileCopy ------------------------------
(***************************************************************************)
(* What a fetch promises to the rest of the file system, without chunks,   *)
(* threads or messages: the local copy of a file only ever grows along the *)
(* content of its source, and the file is announced (entered in the local  *)
(* file map, or moved to the path the user asked for) only when the copy   *)
(* is the whole content.  FileTransfer implements this specification.      *)
(***************************************************************************)
EXTENDS Naturals, Sequences

CONSTANTS File,      \* names of files
          Byte,      \* values of one byte
          Content    \* Content[f] \in Seq(Byte): what every source of f holds

VARIABLES copy,      \* copy[f]: the bytes of files/f on the receiving node
          stored,    \* the files in the receiving node's file map
          handed     \* the files moved out of files/ to a path of the user

vars == <<copy, stored, handed>>

Init ==
  /\ stored \in SUBSET File
  /\ handed = {}
  /\ copy = [f \in File |-> IF f \in stored THEN Content[f] ELSE << >>]

Pending(f) == f \notin stored

\* Some more bytes of the source arrive, in order.
Extend(f) ==
  /\ Pending(f)
  /\ \E n \in Len(copy[f]) .. Len(Content[f]) :
       copy' = [copy EXCEPT ![f] = SubSeq(Content[f], 1, n)]
  /\ UNCHANGED <<stored, handed>>

\* The complete copy becomes a replica.
Store(f) ==
  /\ Pending(f)
  /\ copy[f] = Content[f]
  /\ stored' = stored \cup {f}
  /\ UNCHANGED <<copy, handed>>

\* The complete copy is moved to the path the user gave.
HandOver(f) ==
  /\ Pending(f)
  /\ copy[f] = Content[f]
  /\ copy' = [copy EXCEPT ![f] = << >>]
  /\ handed' = handed \cup {f}
  /\ UNCHANGED stored

Next == \E f \in File : Extend(f) \/ Store(f) \/ HandOver(f)

Spec == Init /\ [][Next]_vars
=============================================================================
