--------------------------- MODULE MCFileTransfer ---------------------------
(***************************************************************************)
(* Instances of FileTransfer for TLC.  A file is named by its length, so   *)
(* that the set File says which boundary cases (empty, one short chunk, a  *)
(* multiple of the chunk size, a ragged last chunk) the run covers.        *)
(***************************************************************************)
EXTENDS FileTransfer

MCContent == [f \in File |-> [i \in 1..f |-> i]]

\* Solo runs: one session for every file.
SoloFileOf == [s \in Session |-> s]

\* Shared runs: two senders offer the same file.
SharedFileOf == [s \in Session |-> 3]
=============================================================================
