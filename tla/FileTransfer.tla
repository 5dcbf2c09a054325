---------------------------- MODULE FileTransfer ----------------------------
(***************************************************************************)
(* The chunk protocol of DFile (daemon/src/filesys/DFile.cpp): one         *)
(* receiving node and the sessions in which other nodes send it files.     *)
(*                                                                         *)
(* A session starts with a SEND_REQ (sendFileRequest); when the receiver   *)
(* approves it, the sender runs a fetchServerThread on a port of the       *)
(* session and the receiver a fetchClientThread, which asks for the chunks *)
(* one by one over a REQ socket that waits for ever.  All client threads   *)
(* of the node share clientChunkCountMap and files/, both indexed by the   *)
(* name of the file, not by the session.                                   *)
(*                                                                         *)
(* Data: a file is a sequence of bytes cut in chunks of ChunkSize bytes;   *)
(* md5 sums are carried by the code but never compared, so are left out.   *)
(***************************************************************************)
EXTENDS Integers, Sequences

CONSTANTS
  File,          \* names of files
  Byte,          \* values of one byte
  Junk,          \* the byte ifstream::get() yields on a stream that never opened
  Content,       \* Content[f]: what a source of f holds once it is complete
  ChunkSize,     \* DFile::chunkSize
  Session,       \* one per SEND_REQ the node receives
  FileOf,        \* FileOf[s]: the file of the session
  Keep,          \* sessions without a filepath: the file becomes a replica
  LateSources,   \* sessions whose sender may still be copying the file (put)
  CanTimeOut,    \* may a client be slower than the server's 3000 ms?
  CanCrash       \* may a sender crash?

ASSUME TransferAssumption ==
  /\ Content \in [File -> Seq(Byte)]
  /\ Junk \notin Byte
  /\ ChunkSize \in Nat \ {0, 1}
  /\ FileOf \in [Session -> File]
  /\ Keep \subseteq Session
  /\ LateSources \subseteq Session
  /\ CanTimeOut \in BOOLEAN
  /\ CanCrash \in BOOLEAN

VARIABLES
  hasFile,   \* names in fileMap[id] of the receiver
  disk,      \* disk[f]: bytes of files/f at the receiver
  created,   \* files that exist in files/ at the receiver
  got,       \* got[s]: bytes of the file that session s moved to its filepath
  count,     \* count[f]: clientChunkCountMap[filename]
  client,    \* client[s]: where the receiver's side of s is
  server,    \* server[s]: where the sender's side of s is
  sent,      \* sent[s]: chunkCount of fetchServerThread
  pos,       \* pos[s]: read position of its FileHelper
  buf,       \* buf[s]: FileHelper::buffer, the last chunk read
  size,      \* size[s]: the filesize the SEND_REQ announced
  avail,     \* avail[s]: bytes of the file at the sender, -1: no such file
  chan       \* chan[s]: the message in flight on the session's REQ/REP pair

receiverVars == <<hasFile, disk, created, got, count, client>>
senderVars == <<server, sent, pos, buf>>
vars == <<receiverVars, senderVars, size, avail, chan>>

-----------------------------------------------------------------------------
(* Chunks *)

Least(a, b) == IF a <= b THEN a ELSE b

\* Mutant: the remainder's chunk is forgotten.
TotalChunksTruncated(n) == IF n < 0 THEN 1 ELSE n \div ChunkSize

\* fetchClientThread's totalChunks; C++ division truncates, so the size -1 of
\* a file that cannot be opened gives 0 chunks and a remainder.
TotalChunks(n) ==
  IF n < 0 THEN 1
  ELSE (n \div ChunkSize) + (IF n % ChunkSize = 0 THEN 0 ELSE 1)

Silence == [type |-> "none", chunkid |-> 0, data |-> << >>]
FetchRequest(k) == [type |-> "req", chunkid |-> k, data |-> << >>]
FetchReply(k, d) == [type |-> "rep", chunkid |-> k, data |-> d]
\* The reply to a re-fetch of the last piece lacks its required fields.
MangledReply == [type |-> "bad", chunkid |-> 0, data |-> << >>]

\* Mutant: a chunk is one byte short.
NextChunkShort(s) ==
  SubSeq(Content[FileOf[s]], pos[s] + 1, Least(pos[s] + ChunkSize - 1, avail[s]))

\* FileHelper::getNextChunk: at most ChunkSize bytes from the read position; a
\* stream that never opened is not at its end and yields ChunkSize junk bytes.
NextChunk(s) ==
  IF server[s] = "void" THEN [i \in 1..ChunkSize |-> Junk]
  ELSE SubSeq(Content[FileOf[s]], pos[s] + 1, Least(pos[s] + ChunkSize, avail[s]))

\* The end-of-file flag is only raised by reading beyond the last byte.
ReadsPastEnd(s) == server[s] # "void" /\ pos[s] + ChunkSize > avail[s]

-----------------------------------------------------------------------------
Init ==
  /\ hasFile \in SUBSET File
  /\ disk = [f \in File |-> IF f \in hasFile THEN Content[f] ELSE << >>]
  /\ created = hasFile
  /\ got = [s \in Session |-> << >>]
  /\ count = [f \in File |-> 0]
  /\ client = [s \in Session |-> "idle"]
  /\ server = [s \in Session |-> "idle"]
  /\ sent = [s \in Session |-> -1]
  /\ pos = [s \in Session |-> 0]
  /\ buf = [s \in Session |-> << >>]
  /\ size = [s \in Session |-> 0]
  /\ avail = [s \in Session |-> IF s \in LateSources THEN -1
                                ELSE Len(Content[FileOf[s]])]
  /\ chan = [s \in Session |-> Silence]

\* The sender of a put still copies the user's file to files/ (copyBufferedFile).
CopyBuffered(s) ==
  /\ \E n \in avail[s] + 1 .. Len(Content[FileOf[s]]) :
       avail' = [avail EXCEPT ![s] = n]
  /\ UNCHANGED <<receiverVars, senderVars, size, chan>>

\* sendFileRequest at the sender, answered by the receiver's service thread: a
\* file that is in the local file map is refused, any other approved.
SendRequest(s) ==
  /\ client[s] = "idle"
  /\ size' = [size EXCEPT ![s] = avail[s]]
  /\ IF FileOf[s] \in hasFile
     THEN /\ client' = [client EXCEPT ![s] = "denied"]
          /\ UNCHANGED server
     ELSE /\ client' = [client EXCEPT ![s] = "approved"]
          /\ server' = [server EXCEPT ![s] = "starting"]
  /\ UNCHANGED <<hasFile, disk, created, got, count, sent, pos, buf, avail, chan>>

\* The sender handles SEND_REP: fetchServerThread binds and opens the file.
ServerStart(s) ==
  /\ server[s] = "starting"
  /\ server' = [server EXCEPT ![s] = IF avail[s] < 0 THEN "void" ELSE "open"]
  /\ UNCHANGED <<receiverVars, sent, pos, buf, size, avail, chan>>

\* Mutant: the counter starts where the sender's does, below the first chunk.
ClientStartBelow(s) ==
  /\ client[s] = "approved"
  /\ client' = [client EXCEPT ![s] = "loop"]
  /\ count' = [count EXCEPT ![FileOf[s]] = -1]
  /\ UNCHANGED <<hasFile, disk, created, got, senderVars, size, avail, chan>>

\* Mutant: the counter of an earlier fetch of the name is kept.
ClientStartStale(s) ==
  /\ client[s] = "approved"
  /\ client' = [client EXCEPT ![s] = "loop"]
  /\ UNCHANGED <<hasFile, disk, created, got, count, senderVars, size, avail, chan>>

\* fetchClientThread begins: it resets the counter of the file's name.
ClientStart(s) ==
  /\ client[s] = "approved"
  /\ client' = [client EXCEPT ![s] = "loop"]
  /\ count' = [count EXCEPT ![FileOf[s]] = 0]
  /\ UNCHANGED <<hasFile, disk, created, got, senderVars, size, avail, chan>>

\* Mutant: the first chunk asked for is number one.
AskFromOne(s) ==
  /\ client[s] = "loop"
  /\ count[FileOf[s]] < TotalChunks(size[s])
  /\ client' = [client EXCEPT ![s] = "asked"]
  /\ chan' = [chan EXCEPT ![s] = FetchRequest(count[FileOf[s]] + 1)]
  /\ UNCHANGED <<hasFile, disk, created, got, count, senderVars, size, avail>>

Ask(s) ==
  /\ client[s] = "loop"
  /\ count[FileOf[s]] < TotalChunks(size[s])
  /\ client' = [client EXCEPT ![s] = "asked"]
  /\ chan' = [chan EXCEPT ![s] = FetchRequest(count[FileOf[s]])]
  /\ UNCHANGED <<hasFile, disk, created, got, count, senderVars, size, avail>>

\* The loop of fetchServerThread up to the end of the file: the chunk asked for
\* is the last one sent, or the next one, or the thread throws a const char*
\* that none of its handlers catches, which ends the sender's process.
Serve(s) ==
  /\ server[s] \in {"open", "void"}
  /\ chan[s].type = "req"
  /\ \/ /\ chan[s].chunkid >= 0
        /\ chan[s].chunkid = sent[s]
        /\ chan' = [chan EXCEPT ![s] = FetchReply(sent[s], buf[s])]
        /\ UNCHANGED senderVars
     \/ /\ chan[s].chunkid = sent[s] + 1
        /\ buf' = [buf EXCEPT ![s] = NextChunk(s)]
        /\ pos' = [pos EXCEPT ![s] = @ + Len(NextChunk(s))]
        /\ sent' = [sent EXCEPT ![s] = @ + 1]
        /\ server' = [server EXCEPT ![s] = IF ReadsPastEnd(s) THEN "linger" ELSE @]
        /\ chan' = [chan EXCEPT ![s] = FetchReply(sent[s] + 1, NextChunk(s))]
     \/ /\ chan[s].chunkid \notin {sent[s], sent[s] + 1}
        /\ server' = [server EXCEPT ![s] = "aborted"]
        /\ chan' = [chan EXCEPT ![s] = Silence]
        /\ UNCHANGED <<sent, pos, buf>>
  /\ UNCHANGED <<receiverVars, size, avail>>

\* After the end of the file one more request is answered, without the fields
\* the receiver's parser requires.
ServeLastAgain(s) ==
  /\ server[s] = "linger"
  /\ chan[s].type = "req"
  /\ IF chan[s].chunkid = sent[s]
     THEN /\ server' = [server EXCEPT ![s] = "closed"]
          /\ chan' = [chan EXCEPT ![s] = MangledReply]
     ELSE /\ server' = [server EXCEPT ![s] = "aborted"]
          /\ chan' = [chan EXCEPT ![s] = Silence]
  /\ UNCHANGED <<receiverVars, sent, pos, buf, size, avail>>

\* No request for 3000 ms: the thread returns and its socket is closed.
ServerTimeout(s) ==
  /\ server[s] \in {"open", "void", "linger"}
  /\ chan[s].type = "none"
  /\ CanTimeOut \/ client[s] = "done"
  /\ server' = [server EXCEPT ![s] = "closed"]
  /\ UNCHANGED <<receiverVars, sent, pos, buf, size, avail, chan>>

\* The sender's node goes away with whatever is in flight.
SenderCrash(s) ==
  /\ CanCrash
  /\ server[s] \in {"starting", "open", "void", "linger"}
  /\ server' = [server EXCEPT ![s] = "crashed"]
  /\ chan' = [chan EXCEPT ![s] = Silence]
  /\ UNCHANGED <<receiverVars, sent, pos, buf, size, avail>>

\* Mutant: the counter is compared after it should have been advanced.
ReceiveNever(s) ==
  /\ client[s] = "asked"
  /\ chan[s].type = "rep" /\ chan[s].chunkid # count[FileOf[s]] + 1
  /\ client' = [client EXCEPT ![s] = "loop"]
  /\ chan' = [chan EXCEPT ![s] = Silence]
  /\ UNCHANGED <<hasFile, disk, created, got, count, senderVars, size, avail>>

\* Mutant: the file is opened for writing instead of appending.
ReceiveOverwriting(s) ==
  /\ client[s] = "asked"
  /\ chan[s].type = "rep" /\ chan[s].chunkid = count[FileOf[s]]
  /\ client' = [client EXCEPT ![s] = "loop"]
  /\ chan' = [chan EXCEPT ![s] = Silence]
  /\ count' = [count EXCEPT ![FileOf[s]] = @ + 1]
  /\ disk' = [disk EXCEPT ![FileOf[s]] = chan[s].data]
  /\ created' = created \cup {FileOf[s]}
  /\ UNCHANGED <<hasFile, got, senderVars, size, avail>>

\* recvNextChunk: a chunk other than the one the counter names is dropped, the
\* right one is appended to files/<name>.
Receive(s) ==
  /\ client[s] = "asked"
  /\ chan[s].type \in {"rep", "bad"}
  /\ client' = [client EXCEPT ![s] = "loop"]
  /\ chan' = [chan EXCEPT ![s] = Silence]
  /\ IF chan[s].type = "rep" /\ chan[s].chunkid = count[FileOf[s]]
     THEN /\ count' = [count EXCEPT ![FileOf[s]] = @ + 1]
          /\ disk' = [disk EXCEPT ![FileOf[s]] = @ \o chan[s].data]
          /\ created' = created \cup {FileOf[s]}
     ELSE UNCHANGED <<count, disk, created>>
  /\ UNCHANGED <<hasFile, got, senderVars, size, avail>>

\* All chunks are there: the file becomes a replica, announced to the master.
Store(s) ==
  /\ client[s] = "loop"
  /\ count[FileOf[s]] >= TotalChunks(size[s])
  /\ s \in Keep
  /\ hasFile' = hasFile \cup {FileOf[s]}
  /\ client' = [client EXCEPT ![s] = "done"]
  /\ UNCHANGED <<disk, created, got, count, senderVars, size, avail, chan>>

\* All chunks are there: mv files/<name> <filepath>.
HandOver(s) ==
  /\ client[s] = "loop"
  /\ count[FileOf[s]] >= TotalChunks(size[s])
  /\ s \notin Keep
  /\ got' = [got EXCEPT ![s] = disk[FileOf[s]]]
  /\ disk' = [disk EXCEPT ![FileOf[s]] = << >>]
  /\ created' = created \ {FileOf[s]}
  /\ client' = [client EXCEPT ![s] = "done"]
  /\ UNCHANGED <<hasFile, count, senderVars, size, avail, chan>>

ReceiverStep(s) == ClientStart(s) \/ Ask(s) \/ Receive(s) \/ Store(s) \/ HandOver(s)
SenderStep(s) == ServerStart(s) \/ Serve(s) \/ ServeLastAgain(s)

Next ==
  \E s \in Session :
    \/ CopyBuffered(s) \/ SendRequest(s)
    \/ ReceiverStep(s) \/ SenderStep(s)
    \/ ServerTimeout(s) \/ SenderCrash(s)

Spec == Init /\ [][Next]_vars

\* Threads that can run do run; nothing obliges a peer to time out or to crash.
Fairness == \A s \in Session : WF_vars(ReceiverStep(s)) /\ WF_vars(SenderStep(s))
FairSpec == Spec /\ Fairness

-----------------------------------------------------------------------------
(* Properties *)

Bytes == Byte \cup {Junk}
Message == [type : {"none", "req", "rep", "bad"}, chunkid : Nat, data : Seq(Bytes)]

TypeOK ==
  /\ hasFile \subseteq File
  /\ disk \in [File -> Seq(Bytes)]
  /\ created \subseteq File
  /\ got \in [Session -> Seq(Bytes)]
  /\ count \in [File -> Nat]
  /\ client \in [Session -> {"idle", "denied", "approved", "loop", "asked", "done"}]
  /\ server \in [Session -> {"idle", "starting", "open", "void", "linger",
                            "closed", "crashed", "aborted"}]
  /\ sent \in [Session -> Nat \cup {-1}]
  /\ pos \in [Session -> Nat]
  /\ buf \in [Session -> Seq(Bytes)]
  /\ size \in [Session -> Nat \cup {-1}]
  /\ avail \in [Session -> Nat \cup {-1}]
  /\ chan \in [Session -> Message]

\* The receiver has a client thread for s that has not ended (a thread whose
\* server went away never ends).
Active(s) == client[s] \in {"approved", "loop", "asked"}

\* The two conditions under which the protocol is correct: no two fetches of
\* one name overlap, and the sender's copy was complete when it was announced.
OneFetchPerName ==
  \A s, t \in Session :
    s # t /\ FileOf[s] = FileOf[t] => ~(Active(s) /\ Active(t))

SourcesComplete ==
  \A s \in Session : client[s] # "idle" => size[s] = Len(Content[FileOf[s]])

Orderly == OneFetchPerName /\ SourcesComplete

\* A file listed in the local file map has, byte for byte, its source's content.
StoredIntact == \A f \in hasFile : disk[f] = Content[f]

\* So has a file that was moved to the path the user asked for.
HandedIntact ==
  \A s \in Session \ Keep : client[s] = "done" => got[s] = Content[FileOf[s]]

\* No fetchServerThread meets a chunk id it did not expect (the exception it
\* throws then is a const char*, which ends the sender's daemon).
SenderSurvives == \A s \in Session : server[s] # "aborted"

Intact == StoredIntact /\ HandedIntact /\ SenderSurvives

\* While fetches are orderly, whatever times out or crashes, nothing but the
\* source's content is stored or handed over and no sender is brought down.
OrderlyIsEnough == []Orderly => []Intact

\* Every file of the local file map is a file of files/, as listLocalFiles and
\* the comment above it assume; the fetch of an empty file creates none.
MapMatchesDirectory == hasFile \subseteq created

\* An approved fetch ends, unless its sender timed out or crashed: then the
\* client thread waits for ever.
FetchEnds ==
  \A s \in Session :
    client[s] = "approved" ~> client[s] = "done" \/ server[s] \in {"closed", "crashed"}

\* What a fetch promises: FileCopy.
Copy == INSTANCE FileCopy
          WITH copy <- disk, stored <- hasFile,
               handed <- {FileOf[s] : s \in {t \in Session \ Keep : client[t] = "done"}}
CopySpec == Copy!Spec
=============================================================================
