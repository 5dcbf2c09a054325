------------------------- MODULE FileTransferProofs -------------------------
(***************************************************************************)
(* The chunk protocol is correct while no two fetches of one name overlap  *)
(* and every source is complete when it is announced: for any files, chunk *)
(* size and number of sessions, whatever times out and whoever crashes.    *)
(***************************************************************************)
EXTENDS FileTransfer, SequenceTheorems, TLAPS

-----------------------------------------------------------------------------
(* The inductive invariant *)

Whole(s) == Content[FileOf[s]]

\* How many bytes of the file the first k chunks hold.
Reach(s, k) == Least(k * ChunkSize, Len(Whole(s)))

Fetching(s) == client[s] \in {"loop", "asked"}

\* A source only grows, up to the whole content.
SourceInv(s) ==
  /\ avail[s] \in -1 .. Len(Whole(s))
  /\ client[s] # "idle" => size[s] <= avail[s]

\* The sender's read position follows its chunk counter; it lingers only after
\* a chunk that ended before the chunk size.
SenderInv(s) ==
  /\ client[s] = "idle" => server[s] = "idle"
  /\ client[s] \in {"idle", "denied", "approved"} => sent[s] = -1
  /\ server[s] \in {"idle", "starting"} => sent[s] = -1
  /\ server[s] \in {"idle", "starting", "open", "linger"} => pos[s] = Reach(s, sent[s] + 1)
  /\ server[s] = "linger" => Len(Whole(s)) < (sent[s] + 1) * ChunkSize
  /\ server[s] \notin {"void", "aborted"}

\* The message in flight carries the chunk the receiver's counter names, which
\* is the sender's next one or, once replied, its last one.
ChannelInv(s) ==
  /\ client[s] # "asked" => chan[s] = Silence
  /\ chan[s].type = "req" => /\ chan[s].chunkid = count[FileOf[s]]
                             /\ count[FileOf[s]] * ChunkSize < Len(Whole(s))
  /\ chan[s].type = "rep" =>
       /\ server[s] \in {"open", "linger"}
       /\ chan[s].chunkid = count[FileOf[s]]
       /\ chan[s].data = SubSeq(Whole(s), Reach(s, count[FileOf[s]]) + 1,
                                          Reach(s, count[FileOf[s]] + 1))
  /\ chan[s].type # "bad"
  /\ Fetching(s) /\ server[s] \in {"starting", "open", "linger"} =>
       sent[s] = count[FileOf[s]] - (IF chan[s].type = "rep" THEN 0 ELSE 1)

\* The copy is the part of the file that the counter says has arrived.
CopyInv(s) ==
  /\ Active(s) => FileOf[s] \notin hasFile
  /\ Fetching(s) => disk[FileOf[s]] = SubSeq(Whole(s), 1, Reach(s, count[FileOf[s]]))
  /\ s \notin Keep /\ client[s] = "done" => got[s] = Whole(s)

SessionInv(s) == SourceInv(s) /\ SenderInv(s) /\ ChannelInv(s) /\ CopyInv(s)

\* A file nobody fetches is whole or not there at all.
FileInv(f) ==
  IF f \in hasFile THEN disk[f] = Content[f]
  ELSE (\A s \in Session : FileOf[s] = f => ~Fetching(s)) => disk[f] = << >>

IInv ==
  /\ TypeOK
  /\ \A s \in Session : SessionInv(s)
  /\ \A f \in File : FileInv(f)

-----------------------------------------------------------------------------
(* Chunks *)

LEMMA Products ==
  ASSUME NEW k \in Nat, NEW c \in Nat
  PROVE  k * c \in Nat /\ 0 * c = 0 /\ (k + 1) * c = k * c + c
OBVIOUS

LEMMA Monotone ==
  ASSUME NEW j \in Nat, NEW k \in Nat, NEW c \in Nat, j <= k
  PROVE  j * c <= k * c
<1>1. k - j \in Nat /\ k = j + (k - j)
  OBVIOUS
<1>2. k * c = j * c + (k - j) * c
  BY <1>1
<1>3. (k - j) * c \in Nat /\ j * c \in Nat
  BY <1>1, Products
<1> QED BY <1>2, <1>3

\* A file has more than k chunks just if k chunks do not hold it.
LEMMA ChunksHold ==
  ASSUME NEW n \in Nat, NEW k \in Nat
  PROVE  k < TotalChunks(n) <=> k * ChunkSize < n
<1> DEFINE q == n \div ChunkSize
           r == n % ChunkSize
<1>1. ChunkSize \in Nat /\ ChunkSize > 0
  BY TransferAssumption DEF TransferAssumption
<1>2. q \in Nat /\ r \in 0 .. ChunkSize - 1 /\ n = q * ChunkSize + r
  BY <1>1
<1>3. q * ChunkSize \in Nat /\ k * ChunkSize \in Nat /\ (q + 1) * ChunkSize = q * ChunkSize + ChunkSize
  BY <1>1, <1>2, Products
<1>4. k * ChunkSize < n <=> (IF r = 0 THEN k < q ELSE k <= q)
  <2>1. CASE k < q
    <3>1. k + 1 \in Nat /\ k + 1 <= q
      BY <1>2, <2>1
    <3>2. (k + 1) * ChunkSize <= q * ChunkSize /\ (k + 1) * ChunkSize = k * ChunkSize + ChunkSize
      BY <1>1, <1>2, <3>1, Monotone, Products
    <3> HIDE DEF q, r
    <3> QED BY <1>1, <1>2, <1>3, <2>1, <3>2
  <2>2. CASE k = q
    <3> HIDE DEF q, r
    <3> QED BY <1>1, <1>2, <1>3, <2>2
  <2>3. CASE q + 1 <= k
    <3>1. (q + 1) * ChunkSize <= k * ChunkSize
      BY <1>1, <1>2, <2>3, Monotone
    <3> HIDE DEF q, r
    <3> QED BY <1>1, <1>2, <1>3, <2>3, <3>1
  <2> QED BY <1>2, <2>1, <2>2, <2>3
<1>5. TotalChunks(n) = q + (IF r = 0 THEN 0 ELSE 1)
  BY DEF TotalChunks
<1> HIDE DEF q, r
<1> QED BY <1>2, <1>4, <1>5

\* The content of a file is a sequence of bytes.
LEMMA WholeType ==
  ASSUME NEW s \in Session
  PROVE  Whole(s) \in Seq(Byte) /\ Len(Whole(s)) \in Nat /\ FileOf[s] \in File
BY TransferAssumption DEF TransferAssumption, Whole

\* Where the first k chunks end, and where the next one does.
LEMMA ReachFacts ==
  ASSUME NEW s \in Session, NEW k \in Nat
  PROVE  /\ Reach(s, k) \in 0 .. Len(Whole(s))
         /\ Reach(s, 0) = 0
         /\ Reach(s, k) <= Reach(s, k + 1)
         /\ Least(Reach(s, k) + ChunkSize, Len(Whole(s))) = Reach(s, k + 1)
         /\ Len(Whole(s)) < Reach(s, k) + ChunkSize <=> Len(Whole(s)) < (k + 1) * ChunkSize
         /\ Len(Whole(s)) <= k * ChunkSize => Reach(s, k) = Len(Whole(s))
<1>1. ChunkSize \in Nat /\ ChunkSize > 0
  BY TransferAssumption DEF TransferAssumption
<1>2. k * ChunkSize \in Nat /\ 0 * ChunkSize = 0 /\ (k + 1) * ChunkSize = k * ChunkSize + ChunkSize
  BY <1>1, Products
<1>3. Len(Whole(s)) \in Nat
  BY WholeType
<1> QED BY <1>1, <1>2, <1>3 DEF Reach, Least

\* A part of a source's content is a sequence of bytes.
LEMMA PartType ==
  ASSUME NEW s \in Session, NEW m \in Nat, NEW n \in Int, n <= Len(Whole(s))
  PROVE  /\ SubSeq(Whole(s), m + 1, n) \in Seq(Bytes)
         /\ Len(SubSeq(Whole(s), m + 1, n)) = IF m + 1 <= n THEN n - m ELSE 0
<1>1. \A i \in m + 1 .. n : Whole(s)[i] \in Bytes
  BY WholeType DEF Bytes
<1> QED BY <1>1, SubSeqProperties

\* A copy of k chunks and the chunk after them make a copy of k + 1 chunks.
LEMMA OneMoreChunk ==
  ASSUME NEW s \in Session, NEW k \in Nat
  PROVE  SubSeq(Whole(s), 1, Reach(s, k)) \o SubSeq(Whole(s), Reach(s, k) + 1, Reach(s, k + 1))
           = SubSeq(Whole(s), 1, Reach(s, k + 1))
<1>1. /\ Reach(s, k) \in 0 .. Len(Whole(s))
      /\ Reach(s, k + 1) \in 0 .. Len(Whole(s))
      /\ Reach(s, k) <= Reach(s, k + 1)
  BY ReachFacts
<1>2. Whole(s) \in Seq(Byte) /\ Len(Whole(s)) \in Nat
  BY WholeType
<1>3. ASSUME NEW w \in Seq(Byte), Len(w) \in Nat, NEW a \in 0 .. Len(w), NEW b \in a .. Len(w)
      PROVE  SubSeq(w, 1, a) \o SubSeq(w, a + 1, b) = SubSeq(w, 1, b)
  <2>1. 1 \in 1 .. Len(w) + 1 /\ a \in 1 - 1 .. Len(w)
    BY <1>3
  <2> QED BY <2>1, ConcatAdjacentSubSeq
<1>4. Reach(s, k + 1) \in Reach(s, k) .. Len(Whole(s))
  BY <1>1, <1>2
<1> QED BY <1>1, <1>2, <1>3, <1>4

-----------------------------------------------------------------------------
(* Type correctness *)

TInv == TypeOK /\ \A s \in Session : SourceInv(s)

\* Every message is a message.
LEMMA MessageType ==
  /\ Silence \in Message /\ MangledReply \in Message
  /\ \A k \in Nat : FetchRequest(k) \in Message
  /\ \A k \in Nat, d \in Seq(Bytes) : FetchReply(k, d) \in Message
BY DEF Silence, MangledReply, FetchRequest, FetchReply, Message

LEMMA TypeInit == Init => TInv
<1> SUFFICES ASSUME Init PROVE TInv
  OBVIOUS
<1>1. \A f \in File : Content[f] \in Seq(Bytes)
  BY TransferAssumption DEF TransferAssumption, Bytes
<1>2. \A s \in Session : Len(Content[FileOf[s]]) \in Nat
  BY WholeType DEF Whole
<1>3. disk \in [File -> Seq(Bytes)]
  BY <1>1 DEF Init
<1>4. avail \in [Session -> Nat \cup {-1}]
  BY <1>2 DEF Init
<1>5. \A s \in Session : SourceInv(s)
  BY <1>2 DEF Init, SourceInv, Whole
<1>6. chan \in [Session -> Message]
  BY MessageType DEF Init
<1>7. << >> \in Seq(Bytes)
  OBVIOUS
<1>8. TypeOK
  BY <1>3, <1>4, <1>6, <1>7 DEF Init, TypeOK
<1> QED BY <1>5, <1>8 DEF TInv

\* What the sender reads next is a sequence of bytes.
LEMMA NextChunkType ==
  ASSUME TInv, NEW s \in Session
  PROVE  NextChunk(s) \in Seq(Bytes) /\ Len(NextChunk(s)) \in Nat
<1>1. ChunkSize \in Nat /\ pos[s] \in Nat /\ avail[s] \in Int /\ avail[s] <= Len(Whole(s))
  BY TransferAssumption, WholeType DEF TransferAssumption, TInv, TypeOK, SourceInv
<1>2. CASE server[s] = "void"
  BY <1>1, <1>2 DEF NextChunk, Bytes
<1>3. CASE server[s] # "void"
  <2>1. /\ Least(pos[s] + ChunkSize, avail[s]) \in Int
        /\ Least(pos[s] + ChunkSize, avail[s]) <= Len(Whole(s))
    BY <1>1, WholeType DEF Least
  <2>2. NextChunk(s) \in Seq(Bytes)
    BY <1>1, <1>3, <2>1, PartType DEF NextChunk, Whole
  <2> QED BY <2>2
<1> QED BY <1>2, <1>3

\* The source side stays as it is but for copyBufferedFile and sendFileRequest.
LEMMA SourceStep ==
  ASSUME TInv, [Next]_vars
  PROVE  \A s \in Session : SourceInv(s)'
<1> SUFFICES ASSUME NEW s \in Session PROVE SourceInv(s)'
  OBVIOUS
<1> USE DEF TInv, TypeOK, SourceInv
<1>1. ASSUME NEW t \in Session, CopyBuffered(t) PROVE SourceInv(s)'
  <2>1. PICK n \in avail[t] + 1 .. Len(Whole(t)) : avail' = [avail EXCEPT ![t] = n]
    BY <1>1 DEF CopyBuffered, Whole
  <2>2. n \in Int /\ avail[t] < n /\ n <= Len(Whole(t)) /\ -1 <= avail[t]
    BY <2>1, WholeType
  <2>3. avail'[s] \in -1 .. Len(Whole(s)) /\ avail[s] <= avail'[s]
    BY <2>1, <2>2, WholeType
  <2>4. UNCHANGED <<size, client>>
    BY <1>1 DEF CopyBuffered, receiverVars
  <2>5. size[s] \in Int /\ avail[s] \in Int /\ Len(Whole(s)) \in Nat
    BY WholeType
  <2> QED BY <2>3, <2>4, <2>5 DEF Whole
<1>2. ASSUME NEW t \in Session, SendRequest(t) PROVE SourceInv(s)'
  BY <1>2 DEF SendRequest
<1>3. ASSUME NEW t \in Session,
             ReceiverStep(t) \/ SenderStep(t) \/ ServerTimeout(t) \/ SenderCrash(t)
      PROVE  SourceInv(s)'
  <2>1. UNCHANGED <<size, avail>>
    BY <1>3 DEF ReceiverStep, ClientStart, Ask, Receive, Store, HandOver,
                SenderStep, ServerStart, Serve, ServeLastAgain, ServerTimeout, SenderCrash
  <2>2. client'[s] = "idle" <=> client[s] = "idle"
    BY <1>3 DEF ReceiverStep, ClientStart, Ask, Receive, Store, HandOver,
                SenderStep, ServerStart, Serve, ServeLastAgain, ServerTimeout, SenderCrash,
                receiverVars
  <2> QED BY <2>1, <2>2
<1>4. CASE UNCHANGED vars
  BY <1>4 DEF vars, receiverVars
<1> QED BY <1>1, <1>2, <1>3, <1>4 DEF Next

LEMMA TypeStep == TInv /\ [Next]_vars => TInv'
<1> SUFFICES ASSUME TInv, [Next]_vars PROVE TypeOK'
  BY SourceStep DEF TInv
<1> USE DEF TypeOK
<1>0. TypeOK /\ FileOf \in [Session -> File] /\ ChunkSize \in Nat
  BY TransferAssumption DEF TInv, TransferAssumption
<1>1. ASSUME NEW s \in Session, CopyBuffered(s) PROVE TypeOK'
  <2>1. PICK n \in avail[s] + 1 .. Len(Whole(s)) : avail' = [avail EXCEPT ![s] = n]
    BY <1>1 DEF CopyBuffered, Whole
  <2>2. avail[s] \in Nat \cup {-1} /\ Len(Whole(s)) \in Nat
    BY <1>0, WholeType
  <2>3. n \in Nat
    BY <2>1, <2>2
  <2> QED BY <1>0, <1>1, <2>1, <2>3 DEF CopyBuffered, receiverVars, senderVars
<1>2. ASSUME NEW s \in Session, SendRequest(s) PROVE TypeOK'
  BY <1>0, <1>2 DEF SendRequest
<1>3. ASSUME NEW s \in Session, ServerStart(s) PROVE TypeOK'
  BY <1>0, <1>3 DEF ServerStart, receiverVars
<1>4. ASSUME NEW s \in Session, ClientStart(s) PROVE TypeOK'
  BY <1>0, <1>4 DEF ClientStart, senderVars
<1>5. ASSUME NEW s \in Session, Ask(s) PROVE TypeOK'
  <2>1. FetchRequest(count[FileOf[s]]) \in Message
    BY <1>0, MessageType
  <2> QED BY <1>0, <1>5, <2>1 DEF Ask, senderVars
<1>6. ASSUME NEW s \in Session, Serve(s) PROVE TypeOK'
  <2>0. UNCHANGED <<hasFile, disk, created, got, count, client, size, avail>>
    BY <1>6 DEF Serve, receiverVars
  <2>1. CASE /\ chan[s].chunkid >= 0
             /\ chan[s].chunkid = sent[s]
             /\ chan' = [chan EXCEPT ![s] = FetchReply(sent[s], buf[s])]
             /\ UNCHANGED senderVars
    <3>1. sent[s] \in Nat
      BY <1>0, <2>1
    <3>2. FetchReply(sent[s], buf[s]) \in Message
      BY <1>0, <3>1, MessageType
    <3> QED BY <1>0, <2>0, <2>1, <3>2 DEF senderVars
  <2>2. CASE /\ buf' = [buf EXCEPT ![s] = NextChunk(s)]
             /\ pos' = [pos EXCEPT ![s] = @ + Len(NextChunk(s))]
             /\ sent' = [sent EXCEPT ![s] = @ + 1]
             /\ server' = [server EXCEPT ![s] = IF ReadsPastEnd(s) THEN "linger" ELSE @]
             /\ chan' = [chan EXCEPT ![s] = FetchReply(sent[s] + 1, NextChunk(s))]
    <3>1. NextChunk(s) \in Seq(Bytes) /\ Len(NextChunk(s)) \in Nat
      BY NextChunkType
    <3>2. sent[s] + 1 \in Nat
      <4>1. sent[s] \in Nat \/ sent[s] = -1
        BY <1>0
      <4> QED BY <4>1
    <3>3. FetchReply(sent[s] + 1, NextChunk(s)) \in Message
      BY <3>1, <3>2, MessageType
    <3>4. chan' \in [Session -> Message] /\ buf' \in [Session -> Seq(Bytes)]
      BY <1>0, <2>2, <3>1, <3>3
    <3>5. pos' \in [Session -> Nat] /\ sent' \in [Session -> Nat \cup {-1}]
      BY <1>0, <2>2, <3>1, <3>2
    <3> QED BY <1>0, <2>0, <2>2, <3>4, <3>5
  <2>3. CASE /\ server' = [server EXCEPT ![s] = "aborted"]
             /\ chan' = [chan EXCEPT ![s] = Silence]
             /\ UNCHANGED <<sent, pos, buf>>
    BY <1>0, <2>0, <2>3, MessageType
  <2> QED BY <1>6, <2>1, <2>2, <2>3 DEF Serve
<1>7. ASSUME NEW s \in Session, ServeLastAgain(s) PROVE TypeOK'
  <2>1. chan' \in [Session -> Message]
    BY <1>0, <1>7, MessageType DEF ServeLastAgain
  <2> QED BY <1>0, <1>7, <2>1 DEF ServeLastAgain, receiverVars
<1>8. ASSUME NEW s \in Session, ServerTimeout(s) \/ SenderCrash(s) PROVE TypeOK'
  <2>1. chan' \in [Session -> Message]
    BY <1>0, <1>8, MessageType DEF ServerTimeout, SenderCrash
  <2> QED BY <1>0, <1>8, <2>1 DEF ServerTimeout, SenderCrash, receiverVars
<1>9. ASSUME NEW s \in Session, Receive(s) PROVE TypeOK'
  <2>1. chan[s].data \in Seq(Bytes)
    BY <1>0 DEF Message
  <2>2. disk[FileOf[s]] \o chan[s].data \in Seq(Bytes)
    BY <1>0, <2>1
  <2>3. disk' \in [File -> Seq(Bytes)]
    BY <1>0, <1>9, <2>2 DEF Receive
  <2>4. chan' \in [Session -> Message]
    BY <1>0, <1>9, MessageType DEF Receive
  <2>5. count' \in [File -> Nat]
    <3>1. count' = count \/ count' = [count EXCEPT ![FileOf[s]] = @ + 1]
      BY <1>9 DEF Receive
    <3>2. count \in [File -> Nat]
      BY <1>0
    <3> QED BY <3>1, <3>2
  <2>7. created' \subseteq File
    <3>1. created' = created \/ created' = created \cup {FileOf[s]}
      BY <1>9 DEF Receive
    <3> QED BY <1>0, <3>1
  <2>6. client' = [client EXCEPT ![s] = "loop"] /\ UNCHANGED <<hasFile, got, senderVars, size, avail>>
    BY <1>9 DEF Receive
  <2> QED BY <1>0, <2>3, <2>4, <2>5, <2>6, <2>7 DEF senderVars
<1>10. ASSUME NEW s \in Session, Store(s) \/ HandOver(s) PROVE TypeOK'
  <2>1. disk[FileOf[s]] \in Seq(Bytes) /\ << >> \in Seq(Bytes)
    BY <1>0
  <2>2. disk' \in [File -> Seq(Bytes)] /\ got' \in [Session -> Seq(Bytes)]
    <3>1. /\ disk' = disk \/ disk' = [disk EXCEPT ![FileOf[s]] = << >>]
          /\ got' = got \/ got' = [got EXCEPT ![s] = disk[FileOf[s]]]
      BY <1>10 DEF Store, HandOver
    <3>2. disk \in [File -> Seq(Bytes)] /\ got \in [Session -> Seq(Bytes)]
      BY <1>0
    <3> QED BY <2>1, <3>1, <3>2
  <2>4. hasFile' \subseteq File /\ created' \subseteq File
    <3>1. /\ hasFile' = hasFile \/ hasFile' = hasFile \cup {FileOf[s]}
          /\ created' = created \/ created' = created \ {FileOf[s]}
      BY <1>10 DEF Store, HandOver
    <3> QED BY <1>0, <3>1
  <2>3. client' = [client EXCEPT ![s] = "done"] /\ UNCHANGED <<count, senderVars, size, avail, chan>>
    BY <1>10 DEF Store, HandOver
  <2> QED BY <1>0, <2>2, <2>3, <2>4 DEF senderVars
<1>11. CASE UNCHANGED vars
  BY <1>0, <1>11 DEF vars, receiverVars, senderVars
<1> QED
  BY <1>1, <1>2, <1>3, <1>4, <1>5, <1>6, <1>7, <1>8, <1>9, <1>10, <1>11
  DEF Next, ReceiverStep, SenderStep

-----------------------------------------------------------------------------
(* The invariant of a session *)

\* Session s moves, and its file with it only if s is being fetched.
Moves(s) ==
  /\ \A t \in Session \ {s} :
       /\ client'[t] = client[t] /\ server'[t] = server[t] /\ sent'[t] = sent[t]
       /\ pos'[t] = pos[t] /\ size'[t] = size[t] /\ avail'[t] = avail[t]
       /\ chan'[t] = chan[t] /\ got'[t] = got[t]
  /\ \A f \in File \ {FileOf[s]} :
       count'[f] = count[f] /\ disk'[f] = disk[f] /\ (f \in hasFile' <=> f \in hasFile)
  /\ UNCHANGED <<count, disk, hasFile>> \/ Active(s)

\* Every action is the move of one session.
LEMMA MovesStep ==
  ASSUME TypeOK, NEW s \in Session,
         \/ CopyBuffered(s) \/ SendRequest(s) \/ ReceiverStep(s)
         \/ SenderStep(s) \/ ServerTimeout(s) \/ SenderCrash(s)
  PROVE  Moves(s)
<1> USE DEF TypeOK, Moves
<1>1. CASE CopyBuffered(s) \/ SendRequest(s)
  BY <1>1 DEF CopyBuffered, SendRequest, receiverVars, senderVars
<1>2. CASE ClientStart(s) \/ Ask(s)
  BY <1>2 DEF ClientStart, Ask, senderVars, Active
<1>3. CASE Receive(s)
  BY <1>3 DEF Receive, senderVars, Active
<1>4. CASE Store(s) \/ HandOver(s)
  BY <1>4 DEF Store, HandOver, senderVars, Active
<1>5. CASE ServerStart(s) \/ ServeLastAgain(s) \/ ServerTimeout(s) \/ SenderCrash(s)
  BY <1>5 DEF ServerStart, ServeLastAgain, ServerTimeout, SenderCrash, receiverVars
<1>6. CASE Serve(s)
  BY <1>6 DEF Serve, receiverVars, senderVars
<1> QED BY <1>1, <1>2, <1>3, <1>4, <1>5, <1>6 DEF ReceiverStep, SenderStep

\* The other sessions do not notice, since none of them fetches the same name.
LEMMA OthersStep ==
  ASSUME TypeOK, OneFetchPerName, NEW s \in Session, Moves(s),
         NEW t \in Session, t # s, SessionInv(t)
  PROVE  SessionInv(t)'
<1>1. /\ client'[t] = client[t] /\ server'[t] = server[t] /\ sent'[t] = sent[t]
      /\ pos'[t] = pos[t] /\ size'[t] = size[t] /\ avail'[t] = avail[t]
      /\ chan'[t] = chan[t] /\ got'[t] = got[t]
  BY DEF Moves
<1>2. FileOf[t] \in File
  BY WholeType
<1>3. Active(t) => /\ count'[FileOf[t]] = count[FileOf[t]]
                   /\ disk'[FileOf[t]] = disk[FileOf[t]]
                   /\ FileOf[t] \in hasFile' <=> FileOf[t] \in hasFile
  BY <1>2 DEF Moves, OneFetchPerName
<1>4. SourceInv(t)' /\ SenderInv(t)'
  BY <1>1 DEF SessionInv, SourceInv, SenderInv, Whole, Reach
<1>5. CASE Active(t)
  <2>1. ChannelInv(t)'
    BY <1>1, <1>3, <1>5 DEF SessionInv, ChannelInv, Whole, Reach, Fetching, Active
  <2>2. CopyInv(t)'
    BY <1>1, <1>3, <1>5 DEF SessionInv, CopyInv, Whole, Reach, Fetching, Active
  <2> QED BY <1>4, <2>1, <2>2 DEF SessionInv
<1>6. CASE ~Active(t)
  <2>1. chan[t] = Silence /\ chan'[t].type = "none"
    BY <1>1, <1>6 DEF SessionInv, ChannelInv, Active, Silence
  <2>2. ChannelInv(t)'
    BY <1>1, <1>6, <2>1 DEF ChannelInv, Fetching, Active
  <2>3. CopyInv(t)'
    BY <1>1, <1>6 DEF SessionInv, CopyInv, Fetching, Active, Whole
  <2> QED BY <1>4, <2>2, <2>3 DEF SessionInv
<1> QED BY <1>5, <1>6

\* What the two conditions and the types say of one session.
LEMMA SessionFacts ==
  ASSUME TypeOK, SourcesComplete, NEW s \in Session, SourceInv(s)
  PROVE  /\ FileOf[s] \in File /\ Whole(s) = Content[FileOf[s]]
         /\ Whole(s) \in Seq(Byte) /\ Len(Whole(s)) \in Nat
         /\ ChunkSize \in Nat /\ ChunkSize > 0
         /\ count[FileOf[s]] \in Nat /\ sent[s] \in Nat \cup {-1}
         /\ sent[s] + 1 \in Nat
         /\ client[s] # "idle" => size[s] = Len(Whole(s)) /\ avail[s] = Len(Whole(s))
<1>1. FileOf[s] \in File /\ Whole(s) \in Seq(Byte) /\ Len(Whole(s)) \in Nat
  BY WholeType
<1>2. ChunkSize \in Nat /\ ChunkSize > 0
  BY TransferAssumption DEF TransferAssumption
<1>3. count[FileOf[s]] \in Nat /\ sent[s] \in Nat \cup {-1}
  BY <1>1 DEF TypeOK
<1>4. sent[s] + 1 \in Nat
  BY <1>3
<1>5. client[s] # "idle" => size[s] = Len(Whole(s)) /\ avail[s] = Len(Whole(s))
  BY <1>1 DEF SourcesComplete, SourceInv, Whole
<1> QED BY <1>1, <1>2, <1>3, <1>4, <1>5 DEF Whole

\* The copy is complete when all chunks are counted.
LEMMA AllChunks ==
  ASSUME TypeOK, SourcesComplete, NEW s \in Session, SessionInv(s), client[s] = "loop"
  PROVE  /\ ~(count[FileOf[s]] < TotalChunks(size[s])) => disk[FileOf[s]] = Whole(s)
         /\ count[FileOf[s]] < TotalChunks(size[s]) =>
              count[FileOf[s]] * ChunkSize < Len(Whole(s))
<1> DEFINE k == count[FileOf[s]]
<1>1. /\ k \in Nat /\ size[s] = Len(Whole(s)) /\ Len(Whole(s)) \in Nat
      /\ Whole(s) \in Seq(Byte) /\ ChunkSize \in Nat
  BY SessionFacts DEF SessionInv
<1>2. k < TotalChunks(size[s]) <=> k * ChunkSize < Len(Whole(s))
  BY <1>1, ChunksHold
<1>3. k * ChunkSize \in Nat
  BY <1>1, Products
<1>4. ASSUME ~(k < TotalChunks(size[s])) PROVE disk[FileOf[s]] = Whole(s)
  <2>1. Len(Whole(s)) <= k * ChunkSize
    BY <1>1, <1>2, <1>3, <1>4
  <2>2. Reach(s, k) = Len(Whole(s))
    BY <1>1, <2>1, ReachFacts
  <2>3. disk[FileOf[s]] = SubSeq(Whole(s), 1, Len(Whole(s)))
    BY <2>2 DEF SessionInv, CopyInv, Fetching
  <2> QED BY <1>1, <2>3, SubSeqFull
<1> QED BY <1>2, <1>4

\* The sender's answer to the request for its next chunk is that chunk.
LEMMA NextChunkIsNext ==
  ASSUME TypeOK, SourcesComplete, NEW s \in Session, SessionInv(s),
         server[s] = "open", chan[s].type = "req"
  PROVE  LET k == count[FileOf[s]]
         IN  /\ chan[s].chunkid = k /\ sent[s] = k - 1
             /\ NextChunk(s) = SubSeq(Whole(s), Reach(s, k) + 1, Reach(s, k + 1))
             /\ pos[s] + Len(NextChunk(s)) = Reach(s, k + 1)
             /\ ReadsPastEnd(s) => Len(Whole(s)) < (k + 1) * ChunkSize
<1> DEFINE k == count[FileOf[s]]
<1>1. client[s] = "asked"
  BY DEF SessionInv, ChannelInv, Silence
<1>2. /\ k \in Nat /\ avail[s] = Len(Whole(s)) /\ Len(Whole(s)) \in Nat
      /\ Whole(s) = Content[FileOf[s]] /\ ChunkSize \in Nat
  BY <1>1, SessionFacts DEF SessionInv
<1>3. chan[s].chunkid = k /\ sent[s] = k - 1
  BY <1>1 DEF SessionInv, ChannelInv, Fetching
<1>4. pos[s] = Reach(s, k)
  <2>1. sent[s] + 1 = k
    BY <1>2, <1>3
  <2> QED BY <2>1 DEF SessionInv, SenderInv
<1>5. /\ Reach(s, k) \in 0 .. Len(Whole(s)) /\ Reach(s, k + 1) \in 0 .. Len(Whole(s))
      /\ Reach(s, k) <= Reach(s, k + 1)
      /\ Least(Reach(s, k) + ChunkSize, Len(Whole(s))) = Reach(s, k + 1)
      /\ Len(Whole(s)) < Reach(s, k) + ChunkSize => Len(Whole(s)) < (k + 1) * ChunkSize
  <2>1. k + 1 \in Nat
    BY <1>2
  <2> HIDE DEF k
  <2> QED BY <1>2, <2>1, ReachFacts
<1>6. NextChunk(s) = SubSeq(Whole(s), Reach(s, k) + 1, Reach(s, k + 1))
  BY <1>2, <1>4, <1>5 DEF NextChunk
<1>7. pos[s] + Len(NextChunk(s)) = Reach(s, k + 1)
  <2>1. Len(NextChunk(s)) = IF Reach(s, k) + 1 <= Reach(s, k + 1)
                            THEN Reach(s, k + 1) - Reach(s, k) ELSE 0
    BY <1>2, <1>5, <1>6, PartType
  <2> QED BY <1>2, <1>4, <1>5, <2>1
<1>8. ReadsPastEnd(s) => Len(Whole(s)) < (k + 1) * ChunkSize
  BY <1>2, <1>4, <1>5 DEF ReadsPastEnd
<1> QED BY <1>3, <1>6, <1>7, <1>8

\* The session that moves keeps its part of the invariant: what it does to its
\* source is SourceStep, what it does to the rest one step per action.
LEMMA OwnStep ==
  ASSUME TInv, Orderly, Orderly', NEW s \in Session, SessionInv(s), FileInv(FileOf[s]),
         \/ CopyBuffered(s) \/ SendRequest(s) \/ ReceiverStep(s)
         \/ SenderStep(s) \/ ServerTimeout(s) \/ SenderCrash(s)
  PROVE  SenderInv(s)' /\ ChannelInv(s)' /\ CopyInv(s)'
<1> DEFINE f == FileOf[s]
           k == count[f]
           Kept == SenderInv(s)' /\ ChannelInv(s)' /\ CopyInv(s)'
<1>0. TypeOK /\ SourcesComplete /\ OneFetchPerName
  BY DEF TInv, Orderly
<1>1. /\ f \in File /\ Whole(s) \in Seq(Byte) /\ Len(Whole(s)) \in Nat
      /\ k \in Nat /\ sent[s] \in Nat \cup {-1} /\ sent[s] + 1 \in Nat
      /\ client[s] # "idle" => size[s] = Len(Whole(s)) /\ avail[s] = Len(Whole(s))
  BY <1>0, SessionFacts DEF SessionInv
<1>2. SenderInv(s) /\ ChannelInv(s) /\ CopyInv(s)
  BY DEF SessionInv
<1>3. CASE CopyBuffered(s)
  <2>1. UNCHANGED <<receiverVars, senderVars, chan>>
    BY <1>3 DEF CopyBuffered
  <2> QED BY <1>2, <2>1 DEF SenderInv, ChannelInv, CopyInv, receiverVars, senderVars,
                            Whole, Reach, Fetching, Active
<1>4. CASE SendRequest(s)
  <2>1. /\ client[s] = "idle" /\ client'[s] \in {"denied", "approved"}
        /\ client'[s] = "approved" => f \notin hasFile
        /\ server'[s] \in {"idle", "starting"}
        /\ UNCHANGED <<hasFile, disk, got, count, sent, pos, chan>>
    BY <1>0, <1>2, <1>4 DEF SendRequest, SenderInv, TypeOK
  <2>2. /\ server[s] = "idle" /\ sent[s] = -1 /\ pos[s] = Reach(s, sent[s] + 1)
        /\ chan[s] = Silence
    BY <1>2, <2>1 DEF SenderInv, ChannelInv
  <2>3. SenderInv(s)'
    BY <2>1, <2>2 DEF SenderInv, Reach, Whole
  <2>4. ChannelInv(s)'
    BY <2>1, <2>2 DEF ChannelInv, Silence, Fetching
  <2>5. CopyInv(s)'
    BY <2>1 DEF CopyInv, Fetching, Active
  <2> QED BY <2>3, <2>4, <2>5
<1>5. CASE ClientStart(s)
  <2>1. /\ client[s] = "approved" /\ client'[s] = "loop" /\ count'[f] = 0
        /\ UNCHANGED <<hasFile, disk, got, server, sent, pos, chan>>
    BY <1>0, <1>1, <1>5 DEF ClientStart, senderVars, TypeOK
  <2>2. sent[s] = -1 /\ chan[s] = Silence /\ f \notin hasFile
    BY <1>2, <2>1 DEF SenderInv, ChannelInv, CopyInv, Active
  <2>3. disk[f] = << >>
    <3>1. \A t \in Session : FileOf[t] = f => ~Fetching(t)
      BY <1>0, <2>1 DEF OneFetchPerName, Active, Fetching
    <3> QED BY <2>2, <3>1 DEF FileInv
  <2>4. SubSeq(Whole(s), 1, Reach(s, 0)) = << >>
    BY <1>1, ReachFacts, SubSeqEmpty
  <2>5. SenderInv(s)'
    BY <1>2, <2>1, <2>2 DEF SenderInv, Reach, Whole
  <2>6. ChannelInv(s)'
    BY <2>1, <2>2 DEF ChannelInv, Silence, Fetching
  <2>7. CopyInv(s)'
    BY <2>1, <2>2, <2>3, <2>4 DEF CopyInv, Fetching, Active, Whole, Reach
  <2> QED BY <2>5, <2>6, <2>7
<1>6. CASE Ask(s)
  <2>1. /\ client[s] = "loop" /\ client'[s] = "asked"
        /\ chan'[s] = FetchRequest(k) /\ k < TotalChunks(size[s])
        /\ UNCHANGED <<hasFile, disk, got, count, server, sent, pos>>
    BY <1>0, <1>6 DEF Ask, senderVars, TypeOK
  <2>2. k * ChunkSize < Len(Whole(s))
    BY <1>0, <2>1, AllChunks
  <2>3. chan[s] = Silence
    BY <1>2, <2>1 DEF ChannelInv
  <2>4. SenderInv(s)'
    BY <1>2, <2>1 DEF SenderInv, Reach, Whole
  <2>5. ChannelInv(s)'
    BY <1>2, <2>1, <2>2, <2>3 DEF ChannelInv, Silence, FetchRequest, Fetching, Whole
  <2>6. CopyInv(s)'
    BY <1>2, <2>1 DEF CopyInv, Fetching, Active, Whole, Reach
  <2> QED BY <2>4, <2>5, <2>6
<1>7. CASE ServerStart(s)
  <2>1. /\ server[s] = "starting" /\ server'[s] = "open"
        /\ UNCHANGED <<receiverVars, sent, pos, chan>>
    <3>1. client[s] # "idle"
      BY <1>2, <1>7 DEF ServerStart, SenderInv
    <3> QED BY <1>0, <1>1, <1>7, <3>1 DEF ServerStart, TypeOK
  <2> QED BY <1>2, <2>1 DEF SenderInv, ChannelInv, CopyInv, receiverVars, Whole, Reach, Fetching, Active
<1>8. CASE Serve(s) \/ ServeLastAgain(s)
  <2>1. client[s] = "asked" /\ chan[s].type = "req"
    BY <1>2, <1>8 DEF Serve, ServeLastAgain, ChannelInv, Silence
  <2>2. chan[s].chunkid = k /\ k * ChunkSize < Len(Whole(s))
    BY <1>2, <2>1 DEF ChannelInv
  <2>3. server[s] = "open"
    <3>1. server[s] \in {"open", "linger"}
      BY <1>2, <1>8 DEF Serve, ServeLastAgain, SenderInv
    <3>2. ASSUME server[s] = "linger" PROVE FALSE
      <4>1. sent[s] = k - 1
        BY <1>2, <2>1, <3>2 DEF ChannelInv, Fetching
      <4>2. sent[s] + 1 = k
        BY <1>1, <4>1
      <4>3. Len(Whole(s)) < k * ChunkSize
        BY <1>2, <3>2, <4>2 DEF SenderInv
      <4>4. k * ChunkSize \in Nat
        BY <1>1, Products, TransferAssumption DEF TransferAssumption
      <4> QED BY <1>1, <2>2, <4>3, <4>4
    <3> QED BY <3>1, <3>2
  <2>4. /\ sent[s] = k - 1
        /\ NextChunk(s) = SubSeq(Whole(s), Reach(s, k) + 1, Reach(s, k + 1))
        /\ pos[s] + Len(NextChunk(s)) = Reach(s, k + 1)
        /\ ReadsPastEnd(s) => Len(Whole(s)) < (k + 1) * ChunkSize
    BY <1>0, <2>1, <2>3, NextChunkIsNext
  <2>5. k # sent[s] /\ k = sent[s] + 1
    BY <1>1, <2>4
  <2>6. /\ pos'[s] = Reach(s, k + 1) /\ sent'[s] = k
        /\ server'[s] = IF ReadsPastEnd(s) THEN "linger" ELSE "open"
        /\ chan'[s] = FetchReply(k, NextChunk(s))
        /\ UNCHANGED receiverVars
    <3>1. /\ buf' = [buf EXCEPT ![s] = NextChunk(s)]
          /\ pos' = [pos EXCEPT ![s] = @ + Len(NextChunk(s))]
          /\ sent' = [sent EXCEPT ![s] = @ + 1]
          /\ server' = [server EXCEPT ![s] = IF ReadsPastEnd(s) THEN "linger" ELSE @]
          /\ chan' = [chan EXCEPT ![s] = FetchReply(sent[s] + 1, NextChunk(s))]
          /\ UNCHANGED receiverVars
      BY <1>8, <2>2, <2>3, <2>5 DEF Serve, ServeLastAgain
    <3>2. /\ pos'[s] = pos[s] + Len(NextChunk(s)) /\ sent'[s] = sent[s] + 1
          /\ server'[s] = IF ReadsPastEnd(s) THEN "linger" ELSE server[s]
          /\ chan'[s] = FetchReply(sent[s] + 1, NextChunk(s))
      BY <1>0, <3>1 DEF TypeOK
    <3> QED BY <2>3, <2>4, <2>5, <3>1, <3>2
  <2>7. SenderInv(s)'
    BY <1>1, <2>1, <2>4, <2>6 DEF SenderInv, receiverVars, Reach, Whole
  <2>8. ChannelInv(s)'
    <3>1. /\ chan'[s].type = "rep" /\ chan'[s].chunkid = k
          /\ chan'[s].data = SubSeq(Whole(s), Reach(s, k) + 1, Reach(s, k + 1))
      <4>1. LET m == FetchReply(k, NextChunk(s))
            IN  m.type = "rep" /\ m.chunkid = k /\ m.data = NextChunk(s)
        BY DEF FetchReply
      <4> QED BY <2>4, <2>6, <4>1
    <3>2. client'[s] = "asked" /\ count' = count /\ server'[s] \in {"open", "linger"}
      BY <2>1, <2>6 DEF receiverVars
    <3> QED BY <1>1, <2>6, <3>1, <3>2 DEF ChannelInv, Reach, Whole
  <2>9. CopyInv(s)'
    BY <1>2, <2>6 DEF CopyInv, receiverVars, Fetching, Active, Whole, Reach
  <2> QED BY <2>7, <2>8, <2>9
<1>9. CASE ServerTimeout(s) \/ SenderCrash(s)
  <2>1. /\ server'[s] \in {"closed", "crashed"} /\ client[s] # "idle"
        /\ server[s] # "idle"
        /\ chan'[s] = Silence \/ (chan'[s] = chan[s] /\ chan[s].type = "none")
        /\ UNCHANGED <<receiverVars, sent, pos>>
    BY <1>0, <1>2, <1>9 DEF ServerTimeout, SenderCrash, TypeOK, SenderInv
  <2>2. SenderInv(s)' /\ CopyInv(s)'
    BY <1>2, <2>1 DEF SenderInv, CopyInv, receiverVars, Fetching, Active, Whole, Reach
  <2>3. ChannelInv(s)'
    BY <1>2, <2>1 DEF ChannelInv, receiverVars, Fetching, Silence
  <2> QED BY <2>2, <2>3
<1>10. CASE Receive(s)
  <2>1. client[s] = "asked" /\ chan[s].type = "rep" /\ chan[s].chunkid = k
    BY <1>2, <1>10 DEF Receive, ChannelInv
  <2>2. /\ client'[s] = "loop" /\ count'[f] = k + 1 /\ disk'[f] = disk[f] \o chan[s].data
        /\ chan'[s] = Silence /\ UNCHANGED <<hasFile, got, server, sent, pos>>
    BY <1>0, <1>1, <1>10, <2>1 DEF Receive, senderVars, TypeOK
  <2>3. disk'[f] = SubSeq(Whole(s), 1, Reach(s, k + 1))
    <3>1. /\ disk[f] = SubSeq(Whole(s), 1, Reach(s, k))
          /\ chan[s].data = SubSeq(Whole(s), Reach(s, k) + 1, Reach(s, k + 1))
      BY <1>2, <2>1 DEF CopyInv, ChannelInv, Fetching
    <3> QED BY <1>1, <2>2, <3>1, OneMoreChunk
  <2>4. SenderInv(s)'
    BY <1>2, <2>1, <2>2 DEF SenderInv, Reach, Whole
  <2>5. ChannelInv(s)'
    <3>1. sent[s] = k
      BY <1>1, <1>2, <2>1 DEF ChannelInv, Fetching
    <3> QED BY <1>1, <2>2, <3>1 DEF ChannelInv, Silence, Fetching
  <2>6. CopyInv(s)'
    BY <1>2, <2>1, <2>2, <2>3 DEF CopyInv, Fetching, Active, Whole, Reach
  <2> QED BY <2>4, <2>5, <2>6
<1>11. CASE Store(s) \/ HandOver(s)
  <2>1. /\ client[s] = "loop" /\ client'[s] = "done" /\ ~(k < TotalChunks(size[s]))
        /\ s \notin Keep => got'[s] = disk[f]
        /\ UNCHANGED <<count, server, sent, pos, chan>>
    <3>1. TotalChunks(size[s]) \in Int
      <4>1. size[s] \in Nat /\ ChunkSize \in Nat /\ ChunkSize > 0
        BY <1>1, <1>11, TransferAssumption DEF Store, HandOver, TransferAssumption
      <4> QED BY <4>1 DEF TotalChunks
    <3> QED BY <1>0, <1>1, <1>11, <3>1 DEF Store, HandOver, senderVars, TypeOK
  <2>2. disk[f] = Whole(s)
    BY <1>0, <2>1, AllChunks
  <2>3. SenderInv(s)' /\ ChannelInv(s)'
    BY <1>2, <2>1 DEF SenderInv, ChannelInv, Reach, Whole, Fetching, Silence
  <2>4. CopyInv(s)'
    BY <2>1, <2>2 DEF CopyInv, Fetching, Active, Whole
  <2> QED BY <2>3, <2>4
<1> QED
  BY <1>3, <1>4, <1>5, <1>6, <1>7, <1>8, <1>9, <1>10, <1>11 DEF ReceiverStep, SenderStep

-----------------------------------------------------------------------------
(* The invariant of a file *)

LEMMA FileStep ==
  ASSUME TInv, Orderly, Orderly', NEW s \in Session, SessionInv(s),
         \A g \in File : FileInv(g),
         \/ CopyBuffered(s) \/ SendRequest(s) \/ ReceiverStep(s)
         \/ SenderStep(s) \/ ServerTimeout(s) \/ SenderCrash(s),
         NEW g \in File
  PROVE  FileInv(g)'
<1>0. TypeOK /\ SourcesComplete /\ FileInv(g) /\ Moves(s)
  BY MovesStep DEF TInv, Orderly
<1>1. \A t \in Session \ {s} : client'[t] = client[t]
  BY <1>0 DEF Moves
<1>2. CASE FileOf[s] # g
  BY <1>0, <1>1, <1>2 DEF Moves, FileInv, Fetching
<1>3. CASE FileOf[s] = g
  <2>1. CASE Store(s) \/ HandOver(s)
    <3>1. TotalChunks(size[s]) \in Int /\ count[g] \in Nat
      <4>1. size[s] \in Nat /\ ChunkSize \in Nat /\ ChunkSize > 0
        BY <1>0, <2>1, SessionFacts, TransferAssumption
        DEF SessionInv, Store, HandOver, TransferAssumption
      <4> QED BY <1>0, <4>1 DEF TotalChunks, TypeOK
    <3>2. client[s] = "loop" /\ ~(count[g] < TotalChunks(size[s]))
      BY <1>3, <2>1, <3>1 DEF Store, HandOver
    <3>3. disk[g] = Content[g]
      BY <1>0, <1>3, <3>2, AllChunks DEF Whole
    <3>4. CASE Store(s)
      BY <1>3, <3>3, <3>4 DEF Store, FileInv
    <3>5. CASE HandOver(s)
      <4>1. g \notin hasFile /\ hasFile' = hasFile /\ disk'[g] = << >>
        BY <1>0, <1>3, <3>2, <3>5 DEF SessionInv, CopyInv, Active, HandOver, TypeOK
      <4> QED BY <4>1 DEF FileInv
    <3> QED BY <2>1, <3>4, <3>5
  <2>2. CASE ClientStart(s) \/ Ask(s) \/ Receive(s)
    <3>1. Fetching(s)' /\ g \notin hasFile /\ hasFile' = hasFile
      BY <1>0, <1>3, <2>2 DEF ClientStart, Ask, Receive, Fetching, SessionInv, CopyInv, Active, TypeOK
    <3> QED BY <1>3, <3>1 DEF FileInv, Fetching
  <2>3. CASE \/ CopyBuffered(s) \/ SendRequest(s) \/ SenderStep(s)
             \/ ServerTimeout(s) \/ SenderCrash(s)
    <3>1. UNCHANGED <<hasFile, disk>> /\ \A t \in Session : Fetching(t)' <=> Fetching(t)
      BY <1>0, <2>3
      DEF CopyBuffered, SendRequest, SenderStep, ServerStart, Serve, ServeLastAgain,
          ServerTimeout, SenderCrash, receiverVars, Fetching, TypeOK
    <3> QED BY <1>0, <3>1 DEF FileInv
  <2> QED BY <2>1, <2>2, <2>3 DEF ReceiverStep
<1> QED BY <1>2, <1>3

-----------------------------------------------------------------------------
(* The theorems *)

\* Every variable of a transfer stays in its type, orderly or not.
THEOREM TypeCorrect == Spec => []TypeOK
<1>1. TInv => TypeOK
  BY DEF TInv
<1> QED BY <1>1, TypeInit, TypeStep, PTL DEF Spec

LEMMA InvInit == Init => IInv
<1> SUFFICES ASSUME Init PROVE IInv
  OBVIOUS
<1>1. TypeOK /\ \A s \in Session : SourceInv(s)
  BY TypeInit DEF TInv
<1>2. ASSUME NEW s \in Session PROVE SenderInv(s) /\ ChannelInv(s) /\ CopyInv(s)
  <2>1. Reach(s, 0) = 0
    BY ReachFacts
  <2> QED BY <2>1 DEF Init, SenderInv, ChannelInv, CopyInv, Silence, Fetching, Active
<1>3. \A f \in File : FileInv(f)
  BY DEF Init, FileInv
<1> QED BY <1>1, <1>2, <1>3 DEF IInv, SessionInv

LEMMA InvStep == IInv /\ Orderly /\ Orderly' /\ [Next]_vars => IInv'
<1> SUFFICES ASSUME IInv, Orderly, Orderly', [Next]_vars PROVE IInv'
  OBVIOUS
<1>1. TInv
  BY DEF IInv, TInv, SessionInv
<1>2. TypeOK' /\ \A s \in Session : SourceInv(s)'
  BY <1>1, TypeStep DEF TInv
<1>3. ASSUME NEW s \in Session,
             \/ CopyBuffered(s) \/ SendRequest(s) \/ ReceiverStep(s)
             \/ SenderStep(s) \/ ServerTimeout(s) \/ SenderCrash(s)
      PROVE  IInv'
  <2>1. \A f \in File : FileInv(f)'
    BY <1>1, <1>3, FileStep DEF IInv
  <2>2. SenderInv(s)' /\ ChannelInv(s)' /\ CopyInv(s)'
    <3>1. FileOf[s] \in File
      BY WholeType
    <3> QED BY <1>1, <1>3, <3>1, OwnStep DEF IInv
  <2>3. ASSUME NEW t \in Session, t # s PROVE SessionInv(t)'
    BY <1>3, <2>3, MovesStep, OthersStep DEF IInv, Orderly
  <2> QED BY <1>2, <2>1, <2>2, <2>3 DEF IInv, SessionInv
<1>4. CASE UNCHANGED vars
  BY <1>4 DEF vars, receiverVars, senderVars, IInv, TypeOK, SessionInv, SourceInv, SenderInv,
              ChannelInv, CopyInv, FileInv, Fetching, Active, Reach, Whole
<1> QED BY <1>3, <1>4 DEF Next

\* While fetches are orderly, what is stored or handed over is the source's
\* content and no sender is brought down, whoever times out or crashes.
THEOREM TransferIntact == Spec => OrderlyIsEnough
<1>1. IInv => Intact
  BY TransferAssumption
  DEF IInv, SessionInv, SenderInv, CopyInv, FileInv, TypeOK, Whole, TransferAssumption,
      Intact, StoredIntact, HandedIntact, SenderSurvives
<1> QED BY <1>1, InvInit, InvStep, PTL DEF Spec, OrderlyIsEnough

-----------------------------------------------------------------------------
(* FileTransfer implements FileCopy *)

Handed == {FileOf[s] : s \in {t \in Session \ Keep : client[t] = "done"}}

LEMMA CopyInit == Init => Copy!Init
<1> SUFFICES ASSUME Init PROVE Copy!Init
  OBVIOUS
<1>1. Handed = {}
  BY DEF Init, Handed
<1> QED BY <1>1 DEF Init, Copy!Init, Handed

\* A chunk that arrives extends the copy, a complete copy is stored or handed
\* over; every other step leaves the copies, the map and the paths alone.
LEMMA CopyStep ==
  ASSUME IInv, Orderly, Orderly', [Next]_vars
  PROVE  [Copy!Next]_(Copy!vars)
<1> USE DEF Copy!vars
<1>0. TypeOK /\ SourcesComplete
  BY DEF IInv, Orderly
<1>1. ASSUME NEW s \in Session, Receive(s) PROVE Copy!Extend(FileOf[s])
  <2> DEFINE k == count[FileOf[s]]
             n == Reach(s, k + 1)
  <2>1. SessionInv(s) /\ FileOf[s] \in File /\ k \in Nat
    BY <1>0, WholeType DEF IInv, TypeOK
  <2>2. /\ client[s] = "asked" /\ chan[s].type = "rep" /\ chan[s].chunkid = k
        /\ FileOf[s] \notin hasFile
        /\ disk[FileOf[s]] = SubSeq(Whole(s), 1, Reach(s, k))
        /\ chan[s].data = SubSeq(Whole(s), Reach(s, k) + 1, n)
    BY <1>1, <2>1 DEF Receive, SessionInv, ChannelInv, CopyInv, Fetching, Active
  <2>3. disk' = [disk EXCEPT ![FileOf[s]] = SubSeq(Content[FileOf[s]], 1, n)]
    BY <1>1, <2>1, <2>2, OneMoreChunk DEF Receive, Whole
  <2>4. n \in Len(disk[FileOf[s]]) .. Len(Content[FileOf[s]])
    <3>1. k + 1 \in Nat
      BY <2>1
    <3>2. /\ Reach(s, k) \in 0 .. Len(Whole(s)) /\ n \in 0 .. Len(Whole(s))
          /\ Reach(s, k) <= n /\ Len(Whole(s)) \in Nat
      BY <2>1, <3>1, ReachFacts, WholeType
    <3>3. Len(disk[FileOf[s]]) = Reach(s, k)
      <4>1. Len(SubSeq(Whole(s), 0 + 1, Reach(s, k))) = IF 0 + 1 <= Reach(s, k) THEN Reach(s, k) - 0 ELSE 0
        BY <3>2, PartType
      <4> QED BY <2>2, <3>2, <4>1
    <3> QED BY <3>2, <3>3 DEF Whole
  <2>5. hasFile' = hasFile /\ Handed' = Handed
    BY <1>0, <1>1 DEF Receive, Handed, TypeOK
  <2> QED BY <2>2, <2>3, <2>4, <2>5 DEF Copy!Extend, Copy!Pending, Handed
<1>2. ASSUME NEW s \in Session, Store(s) \/ HandOver(s)
      PROVE  /\ FileOf[s] \in File \ hasFile /\ disk[FileOf[s]] = Content[FileOf[s]]
  <2>1. SessionInv(s) /\ FileOf[s] \in File /\ count[FileOf[s]] \in Nat
    BY <1>0, WholeType DEF IInv, TypeOK
  <2>2. TotalChunks(size[s]) \in Int
    <3>1. size[s] \in Nat /\ ChunkSize \in Nat /\ ChunkSize > 0
      BY <1>0, <1>2, <2>1, SessionFacts, TransferAssumption
      DEF SessionInv, Store, HandOver, TransferAssumption
    <3> QED BY <3>1 DEF TotalChunks
  <2>3. client[s] = "loop" /\ ~(count[FileOf[s]] < TotalChunks(size[s]))
    BY <1>2, <2>1, <2>2 DEF Store, HandOver
  <2>4. disk[FileOf[s]] = Content[FileOf[s]]
    BY <1>0, <2>1, <2>3, AllChunks DEF Whole
  <2>5. FileOf[s] \notin hasFile
    BY <2>1, <2>3 DEF SessionInv, CopyInv, Active
  <2> QED BY <2>1, <2>4, <2>5
<1>3. ASSUME NEW s \in Session, Store(s) PROVE Copy!Store(FileOf[s])
  <2>1. Handed' = Handed
    BY <1>0, <1>3 DEF Store, Handed, TypeOK
  <2> QED BY <1>2, <1>3, <2>1 DEF Store, Copy!Store, Copy!Pending, Handed
<1>4. ASSUME NEW s \in Session, HandOver(s) PROVE Copy!HandOver(FileOf[s])
  <2>1. Handed' = Handed \cup {FileOf[s]}
    BY <1>0, <1>4 DEF HandOver, Handed, TypeOK
  <2> QED BY <1>2, <1>4, <2>1 DEF HandOver, Copy!HandOver, Copy!Pending, Handed
<1>5. ASSUME NEW s \in Session,
             \/ CopyBuffered(s) \/ SendRequest(s) \/ ClientStart(s) \/ Ask(s)
             \/ SenderStep(s) \/ ServerTimeout(s) \/ SenderCrash(s)
      PROVE  UNCHANGED <<disk, hasFile, Handed>>
  <2>1. UNCHANGED <<disk, hasFile>>
    BY <1>5 DEF CopyBuffered, SendRequest, ClientStart, Ask, SenderStep, ServerStart, Serve,
                ServeLastAgain, ServerTimeout, SenderCrash, receiverVars
  <2>2. \A t \in Session : client'[t] = "done" <=> client[t] = "done"
    BY <1>0, <1>5
    DEF CopyBuffered, SendRequest, ClientStart, Ask, SenderStep, ServerStart, Serve,
        ServeLastAgain, ServerTimeout, SenderCrash, receiverVars, TypeOK
  <2> QED BY <2>1, <2>2 DEF Handed
<1>6. CASE UNCHANGED vars
  BY <1>6 DEF vars, receiverVars, Handed
<1> QED
  BY <1>1, <1>2, <1>3, <1>4, <1>5, <1>6, WholeType
  DEF Next, ReceiverStep, Copy!Next, Handed

\* Orderly fetches keep the promise of a fetch: the copy grows along the content
\* of its source and is announced only when it is whole.
THEOREM TransferImplementsCopy == Spec /\ []Orderly => CopySpec
<1>1. IInv /\ Orderly /\ Orderly' /\ [Next]_vars => [Copy!Next]_(Copy!vars)
  BY CopyStep
<1> QED BY <1>1, CopyInit, InvInit, InvStep, PTL DEF Spec, CopySpec, Copy!Spec

-----------------------------------------------------------------------------
(* Without conditions: sources that are in files/ and fetches of one node   *)
(* that are of different names                                             *)

\* What replication and get start with (a put lets the master announce the file
\* while it is still copied), when the node fetches every name once.
Apart ==
  /\ LateSources = {}
  /\ \A s, t \in Session : s # t => FileOf[s] # FileOf[t]

\* Sources stay what they are, and every announced size is theirs.
SettledSources ==
  \A s \in Session : avail[s] = Len(Whole(s)) /\ (client[s] # "idle" => size[s] = avail[s])

LEMMA SettledInit ==
  ASSUME LateSources = {}, Init PROVE SettledSources
BY DEF Init, SettledSources, Whole

LEMMA SettledStep ==
  ASSUME TInv, SettledSources, [Next]_vars
  PROVE  SettledSources'
<1> USE DEF TInv, TypeOK, SettledSources, SourceInv
<1>1. ASSUME NEW s \in Session, CopyBuffered(s) PROVE FALSE
  BY <1>1, WholeType DEF CopyBuffered, Whole
<1>2. ASSUME NEW s \in Session, SendRequest(s) PROVE SettledSources'
  BY <1>2, WholeType DEF SendRequest
<1>3. ASSUME NEW s \in Session, ReceiverStep(s) PROVE SettledSources'
  <2>1. UNCHANGED <<avail, size>> /\ client[s] # "idle" /\ \A u \in Session \ {s} : client'[u] = client[u]
    BY <1>3 DEF ReceiverStep, ClientStart, Ask, Receive, Store, HandOver
  <2> QED BY <2>1
<1>4. ASSUME NEW s \in Session, SenderStep(s) \/ ServerTimeout(s) \/ SenderCrash(s)
      PROVE  SettledSources'
  <2>1. UNCHANGED <<avail, size, client>>
    BY <1>4 DEF SenderStep, ServerStart, Serve, ServeLastAgain, ServerTimeout, SenderCrash, receiverVars
  <2> QED BY <2>1
<1>5. CASE UNCHANGED vars
  BY <1>5 DEF vars, receiverVars
<1> QED BY <1>1, <1>2, <1>3, <1>4, <1>5 DEF Next

\* Then fetches are orderly in every state.
LEMMA ApartIsOrderly ==
  ASSUME Apart, SettledSources PROVE Orderly
BY DEF Apart, SettledSources, Orderly, OneFetchPerName, SourcesComplete, Whole

LEMMA ApartInit ==
  ASSUME Apart, Init PROVE IInv /\ SettledSources
BY InvInit, SettledInit DEF Apart

LEMMA ApartStep ==
  ASSUME Apart, IInv, SettledSources, [Next]_vars PROVE IInv' /\ SettledSources'
<1>1. TInv
  BY DEF IInv, TInv, SessionInv
<1>2. SettledSources'
  BY <1>1, SettledStep
<1>3. Orderly /\ Orderly'
  BY <1>2, ApartIsOrderly DEF Apart, SettledSources, Orderly, OneFetchPerName, SourcesComplete, Whole
<1> QED BY <1>2, <1>3, InvStep


\* The inductive invariant, now of every behaviour.
LEMMA ApartInvariance == Apart => (Spec => [](IInv /\ SettledSources))
<1> SUFFICES ASSUME Apart PROVE Spec => [](IInv /\ SettledSources)
  OBVIOUS
<1>1. Init => IInv /\ SettledSources
  BY ApartInit
<1>2. IInv /\ SettledSources /\ [Next]_vars => (IInv /\ SettledSources)'
  BY ApartStep
<1> QED BY <1>1, <1>2, PTL DEF Spec

LEMMA IntactFacts == IInv => StoredIntact /\ HandedIntact /\ SenderSurvives
BY TransferAssumption
DEF IInv, SessionInv, SenderInv, CopyInv, FileInv, TypeOK, Whole, TransferAssumption,
    StoredIntact, HandedIntact, SenderSurvives

\* Whatever times out or crashes, a file in the local file map has byte for byte
\* its source's content: fetchClientThread enters it after the last chunk only.
THEOREM StoredAreIntact == Apart => (Spec => []StoredIntact)
BY ApartInvariance, IntactFacts, PTL

\* So has a file that was moved to the path the user asked for.
THEOREM HandedAreIntact == Apart => (Spec => []HandedIntact)
BY ApartInvariance, IntactFacts, PTL

\* And fetchServerThread never meets a chunk id it did not expect.
THEOREM SendersSurvive == Apart => (Spec => []SenderSurvives)
BY ApartInvariance, IntactFacts, PTL

\* Every behaviour of the node is one of FileCopy.
THEOREM TransferIsCopy == Apart => (Spec => CopySpec)
<1> SUFFICES ASSUME Apart PROVE Spec => CopySpec
  OBVIOUS
<1>1. Spec => [](IInv /\ SettledSources)
  BY ApartInvariance
<1>2. IInv /\ SettledSources => Orderly
  BY ApartIsOrderly
<1> QED BY <1>1, <1>2, TransferImplementsCopy, PTL

=============================================================================
