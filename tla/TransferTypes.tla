---------------------------- MODULE TransferTypes ----------------------------
(***************************************************************************)
(* Type correctness of the transfer, for every set of senders, every file  *)
(* content, every chunk size and every bound on faults and edits.          *)
(***************************************************************************)
EXTENDS TransferInv, SequenceTheorems, TLAPS

-----------------------------------------------------------------------------
(* Chunks and positioned writes *)

(* Multiples of the chunk size are a whole chunk apart: the byte ranges that *)
(* receive_file_chunks writes for two chunks cannot overlap.                 *)
LEMMA Multiples ==
    ASSUME NEW C \in Nat, NEW i \in Nat, NEW j \in Nat, i < j
    PROVE  i * C + C <= j * C
PROOF
  <1>1. PICK d \in Nat : j = i + 1 + d
    BY SMT
  <1>2. j * C = i * C + C + d * C
    BY <1>1, SMT
  <1>3. d * C \in Nat
    BY SMT
  <1> QED
    BY <1>2, <1>3, SMT

(* chunk_offset is a natural number. *)
LEMMA OffsetType ==
    ASSUME NEW c, c.chunk_size \in Nat, NEW i \in Nat
    PROVE  chunk_offset(c, i) \in Nat
PROOF
    BY DEF chunk_offset

(* payload_size_for_chunk is an integer of at most a chunk. *)
LEMMA PayloadBound ==
    ASSUME NEW c, c.chunk_size \in Nat, c.file_size \in Nat, NEW i \in Nat
    PROVE  /\ payload_size_for_chunk(c, i) \in Int
           /\ payload_size_for_chunk(c, i) <= c.chunk_size
PROOF
    BY OffsetType DEF payload_size_for_chunk

(* A header that validate_chunk_header accepts has exactly the place and the *)
(* size payload_size_for_chunk gives its chunk.                              *)
LEMMA ValidHeader ==
    ASSUME NEW m \in Manifest, NEW h \in Header, validate_chunk_header(m, h)
    PROVE  /\ h.byte_offset = chunk_offset(m, h.chunk_index)
           /\ h.payload_size = payload_size_for_chunk(m, h.chunk_index)
           /\ h.payload_size \in Nat \ {0}
           /\ h.chunk_index < m.chunk_count
PROOF
  <1> USE ChunkPlanAssumption DEF Manifest, Header
  <1> DEFINE off == h.chunk_index * m.chunk_size
  <1>1. off \in Nat
    OBVIOUS
  <1>2. /\ h.byte_offset = off
        /\ h.payload_size > 0
        /\ h.payload_size <= m.chunk_size
        /\ off + h.payload_size <= m.file_size
        /\ h.chunk_index < m.chunk_count
        /\ \/ h.payload_size = m.file_size - off
           \/ h.payload_size = m.chunk_size
    BY DEF validate_chunk_header
  <1> HIDE DEF off
  <1>3. h.payload_size = IF m.file_size - off < m.chunk_size
                         THEN m.file_size - off ELSE m.chunk_size
    BY <1>1, <1>2
  <1>4. chunk_offset(m, h.chunk_index) = off
    BY DEF chunk_offset, off
  <1> QED
    BY <1>1, <1>2, <1>3, <1>4 DEF payload_size_for_chunk

(* A positioned write yields a file of bytes that is never shorter. *)
LEMMA WriteAtType ==
    ASSUME NEW f \in File, NEW offset \in Nat, NEW data \in File
    PROVE  /\ WriteAt(f, offset, data) \in File
           /\ Len(WriteAt(f, offset, data)) =
                 IF Len(f) < offset + Len(data) THEN offset + Len(data) ELSE Len(f)
           /\ Len(WriteAt(f, offset, data)) >= Len(f)
           /\ \A k \in 1 .. Len(WriteAt(f, offset, data)) :
                 WriteAt(f, offset, data)[k] =
                    IF offset < k /\ k <= offset + Len(data) THEN data[k - offset]
                    ELSE IF k <= Len(f) THEN f[k] ELSE Zero
PROOF
  <1> USE ChunkPlanAssumption DEF File
  <1> DEFINE n == IF Len(f) < offset + Len(data) THEN offset + Len(data) ELSE Len(f)
             g(k) == IF offset < k /\ k <= offset + Len(data) THEN data[k - offset]
                     ELSE IF k <= Len(f) THEN f[k] ELSE Zero
  <1>1. n \in Nat /\ n >= Len(f)
    OBVIOUS
  <1>2. \A k \in 1 .. n : g(k) \in Byte
    <2> TAKE k \in 1 .. n
    <2>1. CASE offset < k /\ k <= offset + Len(data)
      BY <2>1
    <2>2. CASE ~(offset < k /\ k <= offset + Len(data)) /\ k <= Len(f)
      BY <2>2
    <2>3. CASE ~(offset < k /\ k <= offset + Len(data)) /\ ~(k <= Len(f))
      BY <2>3
    <2> QED
      BY <2>1, <2>2, <2>3
  <1>3. WriteAt(f, offset, data) = [k \in 1 .. n |-> g(k)]
    BY DEF WriteAt
  <1> HIDE DEF n, g
  <1>4. [k \in 1 .. n |-> g(k)] \in Seq(Byte) /\ Len([k \in 1 .. n |-> g(k)]) = n
    BY <1>1, <1>2
  <1>5. \A j \in 1 .. n : [k \in 1 .. n |-> g(k)][j] = g(j)
    OBVIOUS
  <1> QED
    BY <1>1, <1>3, <1>4, <1>5 DEF n, g

(* A positioned read of bytes that are there returns those bytes. *)
LEMMA ReadAtType ==
    ASSUME NEW f \in File, NEW offset \in Nat, NEW n \in Int, offset + n <= Len(f)
    PROVE  /\ ReadAt(f, offset, n) \in File
           /\ n > 0 => Len(ReadAt(f, offset, n)) = n
           /\ n > 0 => \A k \in 1 .. n : ReadAt(f, offset, n)[k] = f[offset + k]
PROOF
  <1> USE DEF File
  <1>1. CASE n > 0
    BY <1>1 DEF ReadAt
  <1>2. CASE ~(n > 0)
    <2>1. 1 .. n = {}
      BY <1>2
    <2>2. ReadAt(f, offset, n) = << >>
      BY <2>1 DEF ReadAt
    <2> QED
      BY <1>2, <2>2
  <1> QED
    BY <1>1, <1>2

(* A read gets the bytes that are there: as many as it asks for, or fewer    *)
(* where the file ends.                                                      *)
LEMMA ReadUpToType ==
    ASSUME NEW f \in File, NEW offset \in Nat, NEW n \in Nat
    PROVE  /\ ReadUpTo(f, offset, n) \in File
           /\ Len(ReadUpTo(f, offset, n)) =
                 IF Len(f) - offset < 0 THEN 0
                 ELSE IF Len(f) - offset < n THEN Len(f) - offset ELSE n
           /\ \A k \in 1 .. Len(ReadUpTo(f, offset, n)) :
                 ReadUpTo(f, offset, n)[k] = f[offset + k]
PROOF
  <1> USE DEF File
  <1> DEFINE rest == IF Len(f) - offset < n THEN Len(f) - offset ELSE n
  <1>1. rest \in Int /\ offset + rest <= Len(f) /\ ReadUpTo(f, offset, n) = ReadAt(f, offset, rest)
    BY DEF ReadUpTo
  <1>2. rest = IF Len(f) - offset < n THEN Len(f) - offset ELSE n
    OBVIOUS
  <1> HIDE DEF rest
  <1>3. CASE rest > 0
    <2> DEFINE got == ReadAt(f, offset, rest)
    <2>1. got \in File /\ Len(got) = rest /\ \A k \in 1 .. rest : got[k] = f[offset + k]
      BY <1>1, <1>3, ReadAtType
    <2> HIDE DEF got
    <2>2. rest = IF Len(f) - offset < 0 THEN 0
                 ELSE IF Len(f) - offset < n THEN Len(f) - offset ELSE n
      BY <1>2, <1>3
    <2>3. ReadUpTo(f, offset, n) = got
      BY <1>1 DEF got
    <2> QED
      BY <2>1, <2>2, <2>3
  <1>4. CASE ~(rest > 0)
    <2>1. 1 .. rest = {}
      BY <1>1, <1>4
    <2>2. ReadUpTo(f, offset, n) = << >>
      BY <1>1, <2>1 DEF ReadAt
    <2>3. 0 = IF Len(f) - offset < 0 THEN 0
              ELSE IF Len(f) - offset < n THEN Len(f) - offset ELSE n
      BY <1>2, <1>4
    <2> QED
      BY <2>2, <2>3
  <1> QED
    BY <1>3, <1>4

-----------------------------------------------------------------------------
(* What a broken connection leaves of a stream is a stream. *)
LEMMA PrefixType ==
    ASSUME NEW S, NEW q \in Seq(S), NEW p \in Prefixes(q)
    PROVE  p \in Seq(S)
PROOF
  <1>1. PICK n \in 0 .. Len(q) : p = SubSeq(q, 1, n)
    BY DEF Prefixes
  <1> QED
    BY <1>1, SubSeqProperties

(* Every operation on the connections keeps them well typed. *)
LEMMA LinkSteps ==
    ASSUME LinkTypeOK
    PROVE  /\ \A s \in Senders : Connect(s) => LinkTypeOK'
           /\ \A s \in Senders, msg \in ToReceiver : SendToReceiver(s, msg) => LinkTypeOK'
           /\ \A s \in Senders : RecvFromReceiver(s) => LinkTypeOK'
           /\ \A s \in Senders : CloseSender(s) => LinkTypeOK'
           /\ bind_and_listen => LinkTypeOK'
           /\ accept_client => LinkTypeOK' /\ client' \in Senders
           /\ \A msg \in Request : client \in Senders /\ SendToSender(msg) => LinkTypeOK'
           /\ client \in Senders /\ RecvFromSender => LinkTypeOK'
           /\ CloseReceiver => LinkTypeOK'
           /\ \A s \in Senders : LoseConnection(s) => LinkTypeOK'
           /\ \A s \in Senders : ResetBySender(s) => LinkTypeOK'
PROOF
  <1> USE DEF LinkTypeOK
  <1>1. ASSUME NEW s \in Senders, Connect(s) PROVE LinkTypeOK'
    BY <1>1 DEF Connect
  <1>2. ASSUME NEW s \in Senders, NEW msg \in ToReceiver, SendToReceiver(s, msg)
        PROVE  LinkTypeOK'
    <2>1. CASE UNCHANGED s2r
      BY <1>2, <2>1 DEF SendToReceiver
    <2>2. CASE s2r' = [s2r EXCEPT ![s] = Append(@, msg)]
      <3>1. s2r' \in [Senders -> Seq(ToReceiver)]
        BY <2>2
      <3> QED
        BY <1>2, <3>1 DEF SendToReceiver
    <2> QED
      BY <1>2, <2>1, <2>2 DEF SendToReceiver
  <1>3. ASSUME NEW s \in Senders, RecvFromReceiver(s) PROVE LinkTypeOK'
    BY <1>3 DEF RecvFromReceiver
  <1>4. ASSUME NEW s \in Senders, CloseSender(s) PROVE LinkTypeOK'
    BY <1>4 DEF CloseSender
  <1>5. ASSUME bind_and_listen PROVE LinkTypeOK'
    BY <1>5 DEF bind_and_listen
  <1>6. ASSUME accept_client PROVE LinkTypeOK' /\ client' \in Senders
    BY <1>6 DEF accept_client
  <1>7. ASSUME NEW msg \in Request, client \in Senders, SendToSender(msg) PROVE LinkTypeOK'
    BY <1>7 DEF SendToSender
  <1>8. ASSUME client \in Senders, RecvFromSender PROVE LinkTypeOK'
    BY <1>8 DEF RecvFromSender
  <1>9. ASSUME CloseReceiver PROVE LinkTypeOK'
    <2>1. up' \in [Senders -> BOOLEAN]
      BY <1>9, Zenon DEF CloseReceiver
    <2>2. s2r' \in [Senders -> Seq(ToReceiver)]
      BY <1>9 DEF CloseReceiver
    <2>3. listening' \in BOOLEAN /\ client' \in Senders \cup {Absent}
      BY <1>9, Zenon DEF CloseReceiver
    <2>4. backlog' \in Seq(Senders) /\ r2s' \in [Senders -> Seq(Request)]
      BY <1>9 DEF CloseReceiver
    <2> QED
      BY <2>1, <2>2, <2>3, <2>4
  <1>10. ASSUME NEW s \in Senders, LoseConnection(s) PROVE LinkTypeOK'
    <2>1. PICK p \in Prefixes(s2r[s]) : s2r' = [s2r EXCEPT ![s] = p]
      BY <1>10 DEF LoseConnection
    <2>2. PICK q \in Prefixes(r2s[s]) : r2s' = [r2s EXCEPT ![s] = q]
      BY <1>10 DEF LoseConnection
    <2>3. p \in Seq(ToReceiver) /\ q \in Seq(Request)
      BY <2>1, <2>2, PrefixType
    <2> QED
      BY <1>10, <2>1, <2>2, <2>3 DEF LoseConnection
  <1>11. ASSUME NEW s \in Senders, ResetBySender(s) PROVE LinkTypeOK'
    <2>1. PICK p \in Prefixes(s2r[s]) : s2r' = [s2r EXCEPT ![s] = p]
      BY <1>11 DEF ResetBySender
    <2>2. p \in Seq(ToReceiver)
      BY <2>1, PrefixType
    <2> QED
      BY <1>11, <2>1, <2>2 DEF ResetBySender
  <1> QED
    BY <1>1, <1>2, <1>3, <1>4, <1>5, <1>6, <1>7, <1>8, <1>9, <1>10, <1>11

-----------------------------------------------------------------------------
(* A cut sidecar text reads back as a checkpoint or as Torn. *)
LEMMA CutShortType ==
    ASSUME NEW c \in Checkpoint, NEW d \in CutShort(c)
    PROVE  d \in Checkpoint \cup {Torn}
PROOF
  <1>1. \A S \in CutCompleted(c.completed) : S \in SUBSET Nat
    BY DEF CutCompleted, DigitPrefixes, Checkpoint
  <1> QED
    BY <1>1 DEF CutShort, Checkpoint

(* The checkpoint a run starts from is one. *)
LEMMA StartingCheckpointType ==
    ASSUME CkptTypeOK, NEW m \in Manifest
    PROVE  StartingCheckpoint(m) \in Checkpoint
PROOF
  <1>1. CASE UsableCheckpoint(m)
    BY <1>1 DEF StartingCheckpoint, UsableCheckpoint, Loadable, CkptTypeOK
  <1>2. CASE ~UsableCheckpoint(m)
    BY <1>2, ChunkPlanAssumption
    DEF StartingCheckpoint, create_checkpoint_from_manifest, Manifest, Checkpoint
  <1> QED
    BY <1>1, <1>2

(* Passing on what the stream holds leaves a file where there was one. *)
LEMMA FlushedType ==
    ASSUME RcvTypeOK, RcvShape
    PROVE  /\ Flushed \in File \cup {Absent}
           /\ rOpen => Flushed \in File
PROOF
  <1>1. CASE rBuf = Absent
    BY <1>1 DEF Flushed, RcvTypeOK, RcvShape
  <1>2. CASE rBuf # Absent
    <2>1. rBuf \in PendingWrite /\ out \in File
      BY <1>2 DEF RcvTypeOK, RcvShape
    <2>2. WriteAt(out, rBuf.offset, rBuf.data) \in File
      BY <2>1, WriteAtType DEF PendingWrite
    <2> QED
      BY <1>2, <2>2 DEF Flushed
  <1> QED
    BY <1>1, <1>2

(* The end of a run is well typed, whatever it leaves as the output file. *)
LEMMA ForgetRunType ==
    ASSUME LinkTypeOK, NEW result \in RcvResult, ForgetRun(result),
           out' \in File \cup {Absent}
    PROVE  LinkTypeOK' /\ RcvTypeOK' /\ RcvShape'
PROOF
  <1>1. LinkTypeOK'
    BY LinkSteps DEF ForgetRun
  <1>2. RcvTypeOK'
    BY DEF ForgetRun, RcvTypeOK, RcvPc
  <1>3. RcvShape'
    BY DEF ForgetRun, RcvShape
  <1> QED
    BY <1>1, <1>2, <1>3

(* So is a return from main, which flushes the stream first. *)
LEMMA ExitType ==
    ASSUME LinkTypeOK, RcvTypeOK, RcvShape, NEW result \in RcvResult, Exit(result)
    PROVE  LinkTypeOK' /\ RcvTypeOK' /\ RcvShape'
PROOF
    BY ForgetRunType, FlushedType DEF Exit

-----------------------------------------------------------------------------
(* Every step of the receiver, faults included, keeps its part well typed. *)
LEMMA ReceiverTypes ==
    ASSUME TypeInv, ReceiverStep \/ ReceiverFault
    PROVE  LinkTypeOK' /\ CkptTypeOK' /\ RcvTypeOK' /\ RcvShape'
PROOF
  <1> DEFINE Goal == LinkTypeOK' /\ CkptTypeOK' /\ RcvTypeOK' /\ RcvShape'
  <1>0. LinkTypeOK /\ CkptTypeOK /\ RcvTypeOK /\ RcvShape
    BY DEF TypeInv, TypeOK
  <1> USE <1>0
  <1>1. ASSUME RStart PROVE Goal
    <2>1. LinkTypeOK'
      BY <1>1, LinkSteps DEF RStart
    <2> QED
      BY <1>1, <2>1 DEF RStart, ckptVars, CkptTypeOK, RcvTypeOK, RcvShape, RcvPc, RcvResult
  <1>2. ASSUME RAccept PROVE Goal
    <2>1. LinkTypeOK' /\ client' \in Senders
      BY <1>2, LinkSteps DEF RAccept
    <2> QED
      BY <1>2, <2>1 DEF RAccept, ckptVars, CkptTypeOK, RcvTypeOK, RcvShape, RcvPc
  <1>3. ASSUME RRecvManifest PROVE Goal
    <2> DEFINE msg == Head(s2r[client])
               m == msg.manifest
    <2>1. client \in Senders /\ s2r[client] # <<>> /\ UNCHANGED ckptVars /\ rpc = "manifest"
      BY <1>3 DEF RRecvManifest, RcvShape
    <2>2. msg \in ToReceiver
      BY <2>1 DEF LinkTypeOK
    <2>3. CkptTypeOK'
      BY <2>1 DEF CkptTypeOK, ckptVars
    <2>4. CASE msg.type = "manifest" /\ valid_manifest(m)
      <3>1. m \in Manifest
        BY <2>2, <2>4 DEF ToReceiver, ManifestMsg, ChunkMsg, HashMsg
      <3>2. StartingCheckpoint(m) \in Checkpoint
        BY <3>1, StartingCheckpointType
      <3>3. /\ RecvFromSender
            /\ rpc' = "request"
            /\ rManifest' = m
            /\ rCkpt' = StartingCheckpoint(m)
            /\ rTodo' = missing_chunks(StartingCheckpoint(m))
            /\ rFresh' = ~UsableCheckpoint(m)
            /\ UNCHANGED <<out, rOpen, rBuf, rHash, rResult>>
        BY <1>3, <2>4 DEF RRecvManifest
      <3>4. LinkTypeOK'
        BY <2>1, <3>3, LinkSteps
      <3>5. rTodo' \in SUBSET Nat
        BY <3>2, <3>3 DEF missing_chunks, Checkpoint
      <3>6. rFresh' \in BOOLEAN
        BY <3>3, Zenon
      <3>7. RcvTypeOK'
        BY <3>1, <3>2, <3>3, <3>5, <3>6 DEF RcvTypeOK, RcvPc
      <3>8. RcvShape'
        BY <2>1, <3>1, <3>2, <3>3 DEF RcvShape, RecvFromSender
      <3> QED
        BY <2>3, <3>4, <3>7, <3>8
    <2>5. CASE ~(msg.type = "manifest" /\ valid_manifest(m))
      <3>1. Exit("rejected")
        BY <1>3, <2>5 DEF RRecvManifest
      <3> QED
        BY <2>3, <3>1, ExitType DEF RcvResult
    <2> QED
      BY <2>4, <2>5
  <1>4. ASSUME RSendRequest PROVE Goal
    <2> DEFINE msg == [total_chunks |-> rManifest.chunk_count, missing |-> rTodo]
    <2>1. client \in Senders /\ rManifest \in Manifest /\ SendToSender(msg)
      BY <1>4 DEF RSendRequest, RcvShape
    <2>2. msg \in Request
      BY <2>1 DEF Request, Manifest, RcvTypeOK
    <2>3. LinkTypeOK'
      BY <2>1, <2>2, LinkSteps
    <2>4. client' = client
      BY <2>1 DEF SendToSender
    <2> QED
      BY <1>4, <2>3, <2>4 DEF RSendRequest, ckptVars, CkptTypeOK, RcvTypeOK, RcvShape, RcvPc
  <1>5. ASSUME RWriteTmp PROVE Goal
    BY <1>5 DEF RWriteTmp, WriteTmp, linkVars, LinkTypeOK, CkptTypeOK, RcvTypeOK, RcvShape, RcvPc
  <1>6. ASSUME RWriteTmpShort PROVE Goal
    <2>1. tmp' \in Checkpoint \cup {Torn}
      BY <1>6, CutShortType DEF RWriteTmpShort, WriteTmpShort, RcvShape
    <2> QED
      BY <1>6, <2>1
      DEF RWriteTmpShort, WriteTmpShort, linkVars, LinkTypeOK, CkptTypeOK, RcvTypeOK, RcvShape, RcvPc
  <1>7. ASSUME RRemoveOld PROVE Goal
    BY <1>7 DEF RRemoveOld, RemoveOld, linkVars, LinkTypeOK, CkptTypeOK, RcvTypeOK, RcvShape, RcvPc
  <1>8. ASSUME RRenameTmp PROVE Goal
    BY <1>8 DEF RRenameTmp, RenameTmp, linkVars, LinkTypeOK, CkptTypeOK, RcvTypeOK, RcvShape, RcvPc
  <1>9. ASSUME RPrepareOutput PROVE Goal
    <2>1. CkptTypeOK' /\ rpc = "prepare" /\ ~rOpen /\ rBuf = Absent
      BY <1>9 DEF RPrepareOutput, CkptTypeOK, ckptVars, RcvShape
    <2>2. CASE rFresh \/ file_exists(out)
      <3>0. <<>> \in File
        BY DEF File
      <3>1. out' \in File
        BY <1>9, <2>2, <3>0 DEF RPrepareOutput, file_exists, RcvTypeOK
      <3> QED
        BY <1>9, <2>1, <2>2, <3>1
        DEF RPrepareOutput, linkVars, LinkTypeOK, RcvTypeOK, RcvShape, RcvPc
    <2>3. CASE ~(rFresh \/ file_exists(out))
      BY <1>9, <2>1, <2>3, ExitType DEF RPrepareOutput, RcvResult
    <2> QED
      BY <2>2, <2>3
  <1>10. ASSUME RRecvChunk PROVE Goal
    <2> DEFINE msg == Head(s2r[client])
               i == msg.header.chunk_index
    <2>1. /\ client \in Senders /\ s2r[client] # <<>> /\ UNCHANGED ckptVars /\ rpc = "chunk"
          /\ rOpen /\ out \in File /\ rCkpt \in Checkpoint /\ rManifest \in Manifest
      BY <1>10 DEF RRecvChunk, RcvShape
    <2>2. msg \in ToReceiver
      BY <2>1 DEF LinkTypeOK
    <2>3. CkptTypeOK'
      BY <2>1 DEF CkptTypeOK, ckptVars
    <2>4. CASE ExpectedChunk(msg)
      <3>1. msg.header \in Header /\ msg.payload \in File
        BY <2>2, <2>4 DEF ExpectedChunk, ToReceiver, ManifestMsg, ChunkMsg, HashMsg
      <3>2. /\ RecvFromSender
            /\ WriteChunk(msg.header.byte_offset, msg.payload)
            /\ rCkpt' = [rCkpt EXCEPT !.completed = @ \cup {i}]
            /\ rTodo' = rTodo \ {i}
            /\ rpc' = "tmp"
            /\ UNCHANGED <<rManifest, rFresh, rOpen, rHash, rResult>>
        BY <1>10, <2>4 DEF RRecvChunk
      <3>3. LinkTypeOK' /\ client' = client
        BY <2>1, <3>2, LinkSteps DEF RecvFromSender
      <3>4. Flushed \in File
        BY <2>1, FlushedType
      <3>5. WriteAt(Flushed, msg.header.byte_offset, msg.payload) \in File
        BY <3>1, <3>4, WriteAtType DEF Header
      <3>6. out' \in File /\ rBuf' \in PendingWrite \cup {Absent}
        BY <3>1, <3>2, <3>4, <3>5 DEF WriteChunk, PendingWrite, Header
      <3>7. rCkpt' \in Checkpoint /\ rTodo' \in SUBSET Nat
        BY <2>1, <3>1, <3>2 DEF Checkpoint, Header, RcvTypeOK
      <3>8. RcvTypeOK'
        BY <3>2, <3>6, <3>7 DEF RcvTypeOK, RcvPc
      <3>9. RcvShape'
        BY <2>1, <3>2, <3>3, <3>6, <3>7 DEF RcvShape
      <3> QED
        BY <2>3, <3>3, <3>8, <3>9
    <2>5. CASE ~ExpectedChunk(msg)
      <3>1. Exit("rejected")
        BY <1>10, <2>5 DEF RRecvChunk
      <3> QED
        BY <2>3, <3>1, ExitType DEF RcvResult
    <2> QED
      BY <2>4, <2>5
  <1>11. ASSUME RCloseStream PROVE Goal
    <2>1. Flushed \in File
      BY <1>11, FlushedType DEF RCloseStream, RcvShape
    <2> QED
      BY <1>11, <2>1
      DEF RCloseStream, ckptVars, linkVars, LinkTypeOK, CkptTypeOK, RcvTypeOK, RcvShape, RcvPc
  <1>12. ASSUME RRecvHash PROVE Goal
    <2> DEFINE msg == Head(s2r[client])
    <2>1. client \in Senders /\ s2r[client] # <<>> /\ UNCHANGED ckptVars /\ rpc = "hash"
      BY <1>12 DEF RRecvHash, RcvShape
    <2>2. msg \in ToReceiver
      BY <2>1 DEF LinkTypeOK
    <2>3. CkptTypeOK'
      BY <2>1 DEF CkptTypeOK, ckptVars
    <2>4. CASE msg.type = "hash"
      <3>1. msg.hash \in Digest
        BY <2>2, <2>4 DEF ToReceiver, ManifestMsg, ChunkMsg, HashMsg
      <3>2. /\ RecvFromSender
            /\ rHash' = msg.hash
            /\ rpc' = "verify"
            /\ UNCHANGED <<out, rManifest, rCkpt, rTodo, rFresh, rOpen, rBuf, rResult>>
        BY <1>12, <2>4 DEF RRecvHash
      <3>3. LinkTypeOK' /\ client' = client
        BY <2>1, <3>2, LinkSteps DEF RecvFromSender
      <3> QED
        BY <2>1, <2>3, <3>1, <3>2, <3>3 DEF RcvTypeOK, RcvShape, RcvPc
    <2>5. CASE ~(msg.type = "hash")
      <3>1. Exit("rejected")
        BY <1>12, <2>5 DEF RRecvHash
      <3> QED
        BY <2>3, <3>1, ExitType DEF RcvResult
    <2> QED
      BY <2>4, <2>5
  <1>13. ASSUME RVerify PROVE Goal
    <2>1. CkptTypeOK'
      BY <1>13 DEF RVerify, CkptTypeOK, ckptVars
    <2>2. CASE Sha256(out) = rHash
      BY <1>13, <2>1, <2>2 DEF RVerify, linkVars, LinkTypeOK, RcvTypeOK, RcvShape, RcvPc
    <2>3. CASE Sha256(out) # rHash
      BY <1>13, <2>1, <2>3, ExitType DEF RVerify, RcvResult
    <2> QED
      BY <2>2, <2>3
  <1>14. ASSUME RCleanup PROVE Goal
    BY <1>14, ExitType DEF RCleanup, remove_checkpoint, CkptTypeOK, RcvResult
  <1>15. ASSUME RRecvEof \/ RSendFail \/ RCallFail PROVE Goal
    BY <1>15, ExitType DEF RRecvEof, RSendFail, RCallFail, ckptVars, CkptTypeOK, RcvResult
  <1>16. ASSUME RCleanupFail PROVE Goal
    BY <1>16, ExitType DEF RCleanupFail, ckptVars, CkptTypeOK, RcvResult
  <1>17. ASSUME RPrepareFail PROVE Goal
    <2>1. out' \in File \cup {Absent}
      <3>1. <<>> \in File
        BY DEF File
      <3>2. out' = out \/ out' = <<>>
        BY <1>17 DEF RPrepareFail
      <3> QED
        BY <3>1, <3>2 DEF RcvTypeOK
    <2> QED
      BY <1>17, <2>1, ForgetRunType DEF RPrepareFail, ckptVars, CkptTypeOK, RcvResult
  <1>18. ASSUME RWriteFail PROVE Goal
    <2> DEFINE msg == Head(s2r[client])
    <2>1. client \in Senders /\ s2r[client] # <<>> /\ rpc = "chunk" /\ rOpen /\ ExpectedChunk(msg)
      BY <1>18 DEF RWriteFail, RcvShape
    <2>2. msg \in ToReceiver
      BY <2>1 DEF LinkTypeOK
    <2>3. msg.header \in Header /\ msg.payload \in File
      BY <2>1, <2>2 DEF ExpectedChunk, ToReceiver, ManifestMsg, ChunkMsg, HashMsg
    <2>4. Flushed \in File
      BY <2>1, FlushedType
    <2>5. \A n \in 1 .. Len(msg.payload) - 1 :
             WriteAt(Flushed, msg.header.byte_offset, SubSeq(msg.payload, 1, n)) \in File
      <3> TAKE n \in 1 .. Len(msg.payload) - 1
      <3>1. SubSeq(msg.payload, 1, n) \in File
        BY <2>3 DEF File
      <3> QED
        BY <2>3, <2>4, <3>1, WriteAtType DEF Header
    <2>6. out' \in File \cup {Absent}
      BY <1>18, <2>4, <2>5 DEF RWriteFail, RcvTypeOK
    <2> QED
      BY <1>18, <2>6, ForgetRunType DEF RWriteFail, ckptVars, CkptTypeOK, RcvResult
  <1>19. ASSUME RCrash PROVE Goal
    <2>1. out' \in File \cup {Absent}
      BY <1>19 DEF RCrash, RcvTypeOK
    <2> QED
      BY <1>19, <2>1, ForgetRunType DEF RCrash, ckptVars, CkptTypeOK, RcvResult
  <1>20. ASSUME DeleteOutput PROVE Goal
    BY <1>20
    DEF DeleteOutput, ckptVars, linkVars, LinkTypeOK, CkptTypeOK, RcvTypeOK, RcvShape, RcvResult
  <1>21. ASSUME RFlushFail PROVE Goal
    <2>1. rOpen /\ out \in File /\ rBuf \in PendingWrite
      BY <1>21 DEF RFlushFail, RcvShape, RcvTypeOK
    <2>2. \A n \in 1 .. Len(rBuf.data) - 1 :
             WriteAt(out, rBuf.offset, SubSeq(rBuf.data, 1, n)) \in File
      <3> TAKE n \in 1 .. Len(rBuf.data) - 1
      <3>1. rBuf.offset \in Nat /\ SubSeq(rBuf.data, 1, n) \in File
        BY <2>1 DEF PendingWrite, File
      <3> QED
        BY <2>1, <3>1, WriteAtType
    <2>3. out' \in File
      BY <1>21, <2>1, <2>2 DEF RFlushFail
    <2> QED
      BY <1>21, <2>3
      DEF RFlushFail, ckptVars, linkVars, LinkTypeOK, CkptTypeOK, RcvTypeOK, RcvShape, RcvPc
  <1> HIDE DEF Goal
  <1>22. Goal
    BY <1>1, <1>2, <1>3, <1>4, <1>5, <1>6, <1>7, <1>8, <1>9, <1>10, <1>11, <1>12, <1>13,
       <1>14, <1>15, <1>16, <1>17, <1>18, <1>19, <1>20, <1>21
    DEF ReceiverStep, ReceiverFault
  <1> QED
    BY <1>22 DEF Goal

-----------------------------------------------------------------------------
(* The manifest a sender makes is one. *)
LEMMA NewManifestType ==
    ASSUME NEW n \in Nat
    PROVE  NewManifest(n) \in Manifest
PROOF
  <1>1. chunk_count(n, ChunkSize) \in Nat
    BY ChunkPlanAssumption DEF chunk_count
  <1> QED
    BY <1>1 DEF NewManifest, Manifest

(* So is the header of any chunk. *)
LEMMA NewHeaderType ==
    ASSUME NEW m \in Manifest, NEW i \in Nat
    PROVE  NewHeader(m, i) \in Header
PROOF
  <1>1. m.chunk_size \in Nat /\ m.file_size \in Nat
    BY ChunkPlanAssumption DEF Manifest
  <1> QED
    BY <1>1, OffsetType, PayloadBound DEF NewHeader, Header

(* The end of a sender's run is well typed. *)
LEMMA ForgetSendType ==
    ASSUME SndTypeOK, SndShape, NEW s \in Senders, NEW result \in SndResult,
           ForgetSend(s, result)
    PROVE  SndTypeOK' /\ SndShape'
PROOF
    BY DEF ForgetSend, Goto, SndTypeOK, SndShape, SndPc

(* Every step of a sender, faults included, keeps its part well typed. *)
LEMMA SenderTypes ==
    ASSUME TypeInv, NEW s \in Senders, SenderStep(s) \/ SenderFault(s)
    PROVE  LinkTypeOK' /\ SndTypeOK' /\ SndShape'
PROOF
  <1> DEFINE Goal == LinkTypeOK' /\ SndTypeOK' /\ SndShape'
  <1>0. LinkTypeOK /\ SndTypeOK /\ SndShape
    BY DEF TypeInv, TypeOK
  <1> USE <1>0
  <1>1. ASSUME SStart(s) PROVE Goal
    <2>1. Len(src[s]) \in Nat
      BY ChunkPlanAssumption DEF SndTypeOK
    <2>2. NewManifest(Len(src[s])) \in Manifest
      BY <2>1, NewManifestType
    <2>3. Sha256(<<>>) \in Digest
      BY DEF Sha256, Digest, File
    <2> QED
      BY <1>1, <2>2, <2>3
      DEF SStart, Goto, linkVars, LinkTypeOK, SndTypeOK, SndShape, SndPc, SndResult
  <1>2. ASSUME SDigest(s) PROVE Goal
    <2> DEFINE sofar == sDigest[s].sha256
               piece == ReadUpTo(src[s], Len(sofar), ReadSize)
               next  == IF Len(piece) < ReadSize THEN "connect" ELSE "digest"
    <2>1. sofar \in File
      BY <1>2 DEF SDigest, SndShape, Digest
    <2>2. src[s] \in File /\ Len(sofar) \in Nat /\ ReadSize \in Nat
      BY <2>1, ChunkPlanAssumption DEF SndTypeOK, File
    <2>3. piece \in File
      BY <2>2, ReadUpToType
    <2>4. sofar \o piece \in File
      BY <2>1, <2>3 DEF File
    <2>5. Sha256(sofar \o piece) \in Digest
      BY <2>4 DEF Sha256, Digest
    <2>6. /\ sDigest' = [sDigest EXCEPT ![s] = Sha256(sofar \o piece)]
          /\ Goto(s, next)
          /\ UNCHANGED <<src, sManifest, sTodo, sResult, linkVars>>
      BY <1>2 DEF SDigest
    <2> HIDE DEF sofar, piece
    <2>7. next \in SndPc
      BY DEF SndPc
    <2> HIDE DEF next
    <2>8. LinkTypeOK'
      BY <2>6 DEF linkVars, LinkTypeOK
    <2>9. SndTypeOK'
      BY <2>5, <2>6, <2>7 DEF Goto, SndTypeOK
    <2>10. spc[s] # "off"
      BY <1>2 DEF SDigest
    <2>11. SndShape'
      BY <2>5, <2>6, <2>10 DEF Goto, SndTypeOK, SndShape
    <2> QED
      BY <2>8, <2>9, <2>11
  <1>3. ASSUME SConnect(s) PROVE Goal
    <2>1. LinkTypeOK'
      BY <1>3, LinkSteps DEF SConnect
    <2> QED
      BY <1>3, <2>1 DEF SConnect, Goto, SndTypeOK, SndShape, SndPc
  <1>4. ASSUME SConnectRefused(s) PROVE Goal
    BY <1>4, ForgetSendType DEF SConnectRefused, linkVars, LinkTypeOK, SndResult
  <1>5. ASSUME SSendManifest(s) PROVE Goal
    <2> DEFINE msg == [type |-> "manifest", manifest |-> sManifest[s]]
    <2>1. msg \in ToReceiver /\ SendToReceiver(s, msg)
      BY <1>5 DEF SSendManifest, SndShape, ToReceiver, ManifestMsg
    <2>2. LinkTypeOK'
      BY <2>1, LinkSteps
    <2> QED
      BY <1>5, <2>2 DEF SSendManifest, Goto, SndTypeOK, SndShape, SndPc
  <1>6. ASSUME SRecvRequest(s) PROVE Goal
    <2> DEFINE request == Head(r2s[s])
    <2>1. r2s[s] # <<>> /\ spc[s] = "request"
      BY <1>6 DEF SRecvRequest
    <2>2. request \in Request
      BY <2>1 DEF LinkTypeOK
    <2>3. CASE receivable_request(request) /\ validate_continue_request(sManifest[s], request)
      <3>1. /\ RecvFromReceiver(s)
            /\ sTodo' = [sTodo EXCEPT ![s] = request.missing]
            /\ Goto(s, "chunks")
            /\ UNCHANGED <<src, sManifest, sDigest, sResult>>
        BY <1>6, <2>3 DEF SRecvRequest
      <3>2. LinkTypeOK'
        BY <3>1, LinkSteps
      <3>3. request.missing \in SUBSET Nat
        BY <2>2 DEF Request
      <3> QED
        BY <2>1, <3>1, <3>2, <3>3 DEF Goto, SndTypeOK, SndShape, SndPc
    <2>4. CASE ~(receivable_request(request) /\ validate_continue_request(sManifest[s], request))
      <3>1. Return(s, "rejected")
        BY <1>6, <2>4 DEF SRecvRequest
      <3> QED
        BY <3>1, LinkSteps, ForgetSendType DEF Return, SndResult
    <2> QED
      BY <2>3, <2>4
  <1>7. ASSUME SSendChunk(s) PROVE Goal
    <2>1. PICK i \in NextOf(sTodo[s]) :
            LET h == NewHeader(sManifest[s], i)
            IN  IF h.byte_offset + h.payload_size <= Len(src[s])
                THEN /\ SendToReceiver(s,
                          [type |-> "chunk", header |-> h,
                           payload |-> ReadAt(src[s], h.byte_offset, h.payload_size)])
                     /\ sTodo' = [sTodo EXCEPT ![s] = @ \ {i}]
                     /\ UNCHANGED <<src, spc, sManifest, sDigest, sResult>>
                ELSE Return(s, "failed")
      BY <1>7 DEF SSendChunk
    <2> DEFINE h == NewHeader(sManifest[s], i)
               data == ReadAt(src[s], h.byte_offset, h.payload_size)
               msg == [type |-> "chunk", header |-> h, payload |-> data]
    <2>2. i \in Nat /\ sManifest[s] \in Manifest /\ spc[s] = "chunks" /\ src[s] \in File
      BY <1>7, ChunkPlanAssumption DEF SSendChunk, NextOf, SndTypeOK, SndShape, File
    <2>3. h \in Header
      BY <2>2, NewHeaderType
    <2>4. CASE h.byte_offset + h.payload_size <= Len(src[s])
      <3>1. data \in File
        BY <2>2, <2>3, <2>4, ReadAtType DEF Header
      <3>2. msg \in ToReceiver
        BY <2>3, <3>1 DEF ToReceiver, ChunkMsg
      <3>3. LinkTypeOK'
        BY <2>1, <2>4, <3>2, LinkSteps
      <3>4. sTodo' = [sTodo EXCEPT ![s] = @ \ {i}] /\ UNCHANGED <<src, spc, sManifest, sDigest, sResult>>
        BY <2>1, <2>4
      <3> QED
        BY <3>3, <3>4 DEF SndTypeOK, SndShape
    <2>5. CASE ~(h.byte_offset + h.payload_size <= Len(src[s]))
      <3>1. Return(s, "failed")
        BY <2>1, <2>5
      <3> QED
        BY <3>1, LinkSteps, ForgetSendType DEF Return, SndResult
    <2> QED
      BY <2>4, <2>5
  <1>8. ASSUME SSendHash(s) PROVE Goal
    <2> DEFINE msg == [type |-> "hash", hash |-> sDigest[s]]
    <2>1. msg \in ToReceiver
      BY <1>8 DEF SSendHash, SndShape, ToReceiver, HashMsg
    <2>2. s2r' = [s2r EXCEPT ![s] = Append(@, msg)] \/ s2r' = s2r
      BY <1>8 DEF SSendHash
    <2>3. s2r' \in [Senders -> Seq(ToReceiver)]
      <3>1. s2r \in [Senders -> Seq(ToReceiver)]
        BY DEF LinkTypeOK
      <3> HIDE DEF msg
      <3>2. CASE s2r' = s2r
        BY <3>1, <3>2
      <3>3. CASE s2r' = [s2r EXCEPT ![s] = Append(@, msg)]
        <4>1. s2r[s] \in Seq(ToReceiver)
          BY <3>1
        <4>2. Append(s2r[s], msg) \in Seq(ToReceiver)
          BY <2>1, <4>1
        <4> QED
          BY <3>1, <3>3, <4>2
      <3> QED
        BY <2>2, <3>2, <3>3
    <2>4. up' \in [Senders -> BOOLEAN] /\ r2s' \in [Senders -> Seq(Request)]
      BY <1>8 DEF SSendHash, LinkTypeOK
    <2>5. LinkTypeOK'
      BY <1>8, <2>3, <2>4 DEF SSendHash, LinkTypeOK
    <2> QED
      BY <1>8, <2>5, ForgetSendType DEF SSendHash, SndResult
  <1>9. ASSUME SLinkFail(s) PROVE Goal
    BY <1>9, LinkSteps, ForgetSendType DEF SLinkFail, Return, SndResult
  <1>10. ASSUME SCrash(s) PROVE Goal
    BY <1>10, LinkSteps, ForgetSendType DEF SCrash, SndResult
  <1>11. ASSUME SCallFail(s) PROVE Goal
    BY <1>11, LinkSteps, ForgetSendType DEF SCallFail, Return, SndResult
  <1> HIDE DEF Goal
  <1>12. Goal
    BY <1>1, <1>2, <1>3, <1>4, <1>5, <1>6, <1>7, <1>8, <1>9, <1>10, <1>11
    DEF SenderStep, SenderFault
  <1> QED
    BY <1>12 DEF Goal

-----------------------------------------------------------------------------
(* The strengthened type invariant holds initially. *)
LEMMA TypeInit == Init => TypeInv
PROOF
  <1> SUFFICES ASSUME Init PROVE TypeInv
    OBVIOUS
  <1>1. LinkTypeOK
    <2>1. listening \in BOOLEAN /\ client \in Senders \cup {Absent} /\ up \in [Senders -> BOOLEAN]
      BY Zenon DEF Init, LinkInit
    <2>2. /\ backlog \in Seq(Senders)
          /\ s2r \in [Senders -> Seq(ToReceiver)]
          /\ r2s \in [Senders -> Seq(Request)]
      BY DEF Init, LinkInit
    <2> QED
      BY <2>1, <2>2 DEF LinkTypeOK
  <1>2. CkptTypeOK
    BY CheckpointFileAssumption DEF Init, CkptInit, CkptTypeOK
  <1>3. RcvTypeOK
    BY TransferAssumption DEF Init, RcvInit, RcvTypeOK, RcvPc, RcvResult
  <1>4. SndTypeOK
    BY DEF Init, SndInit, SndTypeOK, SndPc, SndResult
  <1>5. RcvShape /\ SndShape
    BY DEF Init, RcvInit, SndInit, RcvShape, SndShape
  <1>6. faults \in 0 .. MaxFaults /\ edits \in 0 .. MaxEdits
    BY TransferAssumption DEF Init
  <1>7. versions \in [Senders -> SUBSET Contents]
    BY <1>4 DEF Init, SndTypeOK
  <1>8. found \in Sidecars /\ madeUp \in SUBSET Nat
    BY DEF Init, CkptInit
  <1> QED
    BY <1>1, <1>2, <1>3, <1>4, <1>5, <1>6, <1>7, <1>8 DEF TypeInv, TypeOK, BudgetTypeOK

(* Every step keeps it. *)
LEMMA TypeStep == TypeInv /\ [Next]_vars => TypeInv'
PROOF
  <1> SUFFICES ASSUME TypeInv, [Next]_vars PROVE TypeInv'
    OBVIOUS
  <1>0. /\ LinkTypeOK /\ CkptTypeOK /\ RcvTypeOK /\ RcvShape /\ SndTypeOK /\ SndShape
        /\ BudgetTypeOK
    BY DEF TypeInv, TypeOK
  <1>1. ASSUME UNCHANGED sndVars PROVE SndTypeOK' /\ SndShape'
    BY <1>0, <1>1 DEF sndVars, SndTypeOK, SndShape
  <1>2. ASSUME UNCHANGED <<rcvVars, ckptVars>>, client' = client
        PROVE  RcvTypeOK' /\ RcvShape' /\ CkptTypeOK'
    BY <1>0, <1>2 DEF rcvVars, ckptVars, RcvTypeOK, RcvShape, CkptTypeOK
  <1>3. ASSUME UNCHANGED budgetVars PROVE BudgetTypeOK'
    BY <1>0, <1>3 DEF budgetVars, BudgetTypeOK
  <1>4. CASE ReceiverStep
    <2>1. UNCHANGED <<sndVars, budgetVars>>
      BY <1>4 DEF ReceiverStep
    <2> QED
      BY <1>4, <2>1, <1>1, <1>3, ReceiverTypes DEF TypeInv, TypeOK
  <1>5. ASSUME NEW s \in Senders, SenderStep(s) PROVE TypeInv'
    <2>1. UNCHANGED <<rcvVars, ckptVars, budgetVars>>
      BY <1>5 DEF SenderStep
    <2>2. client' = client
      BY <1>5 DEF SenderStep, SStart, SDigest, SConnect, SConnectRefused, SSendManifest,
          SRecvRequest, SSendChunk, SSendHash, SLinkFail, Return, linkVars,
          Connect, SendToReceiver, RecvFromReceiver, CloseSender
    <2> QED
      BY <1>5, <2>1, <2>2, <1>2, <1>3, SenderTypes DEF TypeInv, TypeOK
  <1>6. CASE Fault
    <2>1. BudgetTypeOK'
      <3>1. /\ faults' \in 0 .. MaxFaults /\ edits' \in 0 .. MaxEdits
            /\ UNCHANGED <<versions, found>>
        BY <1>0, <1>6, TransferAssumption DEF Fault, BudgetTypeOK
      <3>2. madeUp' \in SUBSET Nat
        <4>1. CASE UNCHANGED madeUp
          BY <1>0, <4>1 DEF BudgetTypeOK
        <4>2. CASE RWriteTmpShort /\ madeUp' = madeUp \cup MadeUpBy(tmp')
          <5>1. tmp' \in Checkpoint \cup {Torn}
            BY <1>0, <4>2, CutShortType DEF RWriteTmpShort, WriteTmpShort, RcvShape
          <5>2. MadeUpBy(tmp') \subseteq Nat
            BY <5>1 DEF MadeUpBy, Loadable, Checkpoint
          <5> QED
            BY <1>0, <4>2, <5>2 DEF BudgetTypeOK
        <4> QED
          BY <1>6, <4>1, <4>2 DEF Fault, ReceiverFault, LinkFault, SenderFault
      <3> QED
        BY <1>0, <3>1, <3>2 DEF BudgetTypeOK
    <2>2. CASE ReceiverFault
      <3>1. UNCHANGED sndVars
        BY <2>2 DEF ReceiverFault
      <3> QED
        BY <2>1, <2>2, <3>1, <1>1, ReceiverTypes DEF TypeInv, TypeOK
    <2>3. ASSUME NEW s \in Senders, LinkFault(s) PROVE TypeInv'
      <3>1. UNCHANGED <<sndVars, rcvVars, ckptVars>> /\ client' = client
        BY <2>3 DEF LinkFault, LoseConnection
      <3>2. LinkTypeOK'
        BY <1>0, <2>3, LinkSteps DEF LinkFault
      <3> QED
        BY <2>1, <3>1, <3>2, <1>1, <1>2 DEF TypeInv, TypeOK
    <2>4. ASSUME NEW s \in Senders, SenderFault(s) PROVE TypeInv'
      <3>1. UNCHANGED <<rcvVars, ckptVars>> /\ client' = client
        BY <2>4 DEF SenderFault, SCallFail, Return, CloseSender, SCrash, ResetBySender
      <3> QED
        BY <2>1, <2>4, <3>1, <1>2, SenderTypes DEF TypeInv, TypeOK
    <2> QED
      BY <1>6, <2>2, <2>3, <2>4 DEF Fault
  <1>7. CASE Edit
    <2>1. PICK s \in Senders, bytes \in Contents : EditSource(s, bytes)
      BY <1>7 DEF Edit
    <2>2. UNCHANGED <<rcvVars, ckptVars>> /\ UNCHANGED linkVars
      BY <1>7, <2>1 DEF Edit, EditSource
    <2>3. LinkTypeOK' /\ client' = client
      BY <1>0, <2>2 DEF linkVars, LinkTypeOK
    <2>4. SndTypeOK' /\ SndShape'
      BY <1>0, <2>1 DEF EditSource, SndTypeOK, SndShape
    <2>5. BudgetTypeOK'
      <3>1. /\ faults' \in 0 .. MaxFaults /\ edits' \in 0 .. MaxEdits
            /\ UNCHANGED <<found, madeUp>>
        BY <1>0, <1>7, TransferAssumption DEF Edit, BudgetTypeOK
      <3>2. PICK t \in Senders, new \in Contents :
               versions' = [versions EXCEPT ![t] = @ \cup {new}]
        BY <1>7 DEF Edit
      <3>3. versions' \in [Senders -> SUBSET Contents]
        BY <1>0, <3>2 DEF BudgetTypeOK
      <3> QED
        BY <1>0, <3>1, <3>3 DEF BudgetTypeOK
    <2> QED
      BY <2>2, <2>3, <2>4, <2>5, <1>2 DEF TypeInv, TypeOK
  <1>8. CASE UNCHANGED vars
    <2>1. UNCHANGED <<linkVars, rcvVars, ckptVars, sndVars, budgetVars>>
      BY <1>8 DEF vars
    <2>2. LinkTypeOK' /\ client' = client
      BY <1>0, <2>1 DEF linkVars, LinkTypeOK
    <2> QED
      BY <2>1, <2>2, <1>1, <1>2, <1>3 DEF TypeInv, TypeOK
  <1> QED
    BY <1>4, <1>5, <1>6, <1>7, <1>8 DEF Next

(* In every reachable state what the programs rely on is set.                *)
LEMMA TypeInvariant == Spec => []TypeInv
PROOF
    BY TypeInit, TypeStep, PTL DEF Spec

(* Every reachable state is well typed: no step reads a local before the     *)
(* program has set it, takes from an empty stream, or writes to a stream     *)
(* that is not open.                                                         *)
THEOREM TypeCorrect == Spec => []TypeOK
PROOF
  <1>1. TypeInv => TypeOK
    BY DEF TypeInv
  <1> QED
    BY <1>1, TypeInvariant, PTL

=============================================================================
