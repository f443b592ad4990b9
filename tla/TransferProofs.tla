--------------------------- MODULE TransferProofs ---------------------------
(***************************************************************************)
(* The safety theorems of the transfer: checkpoints are sound, no gap      *)
(* appears in them, and a verified file is what a sender's file was, for   *)
(* every set of senders, every content, every sidecar to begin with, every *)
(* chunk size, every stream buffer and any number of faults and edits.     *)
(***************************************************************************)
EXTENDS TransferTypes, TransferRefinement

-----------------------------------------------------------------------------
(* A checkpoint that claims less is sound where one that claims more is. *)
LEMMA WithinSound ==
    ASSUME NEW f, NEW c \in Checkpoint, NEW d \in Checkpoint, Within(c, d), SoundFor(f, d)
    PROVE  SoundFor(f, c)
PROOF
  <1> SUFFICES ASSUME NEW i \in c.completed \ madeUp, payload_size_for_chunk(c, i) >= StreamBuf
               PROVE  ChunkOnDisk(f, c, i)
    BY DEF SoundFor
  <1>1. i \in d.completed \ madeUp
    BY DEF Within
  <1>2. /\ chunk_offset(c, i) = chunk_offset(d, i)
        /\ payload_size_for_chunk(c, i) = payload_size_for_chunk(d, i)
    BY DEF Within, chunk_offset, payload_size_for_chunk
  <1>3. ChunkOnDisk(f, d, i)
    BY <1>1, <1>2 DEF SoundFor
  <1> QED
    BY <1>2, <1>3 DEF ChunkOnDisk

(* Writing at one chunk's place leaves every other chunk's bytes alone. *)
LEMMA WriteElsewhere ==
    ASSUME NEW f \in File, NEW c \in Checkpoint, NEW i \in Nat, NEW j \in Nat, i # j,
           NEW data \in File, Len(data) <= c.chunk_size, ChunkOnDisk(f, c, j)
    PROVE  ChunkOnDisk(WriteAt(f, chunk_offset(c, i), data), c, j)
PROOF
  <1> DEFINE C == c.chunk_size
             g == WriteAt(f, chunk_offset(c, i), data)
             oi == chunk_offset(c, i)
             oj == chunk_offset(c, j)
             n == payload_size_for_chunk(c, j)
             L == Len(data)
  <1>1. C \in Nat /\ c.file_size \in Nat
    BY ChunkPlanAssumption DEF Checkpoint
  <1>2. oi \in Nat /\ oj \in Nat /\ n \in Int /\ n <= C
    BY <1>1, OffsetType, PayloadBound
  <1>3. oi + C <= oj \/ oj + C <= oi
    <2>1. CASE i < j
      <3>1. i * C + C <= j * C
        BY <1>1, <2>1, Multiples
      <3> QED
        BY <3>1 DEF chunk_offset
    <2>2. CASE j < i
      <3>1. j * C + C <= i * C
        BY <1>1, <2>2, Multiples
      <3> QED
        BY <3>1 DEF chunk_offset
    <2> QED
      BY <2>1, <2>2
  <1>4. /\ Len(g) >= Len(f)
        /\ \A k \in 1 .. Len(g) :
              g[k] = IF oi < k /\ k <= oi + L THEN data[k - oi]
                     ELSE IF k <= Len(f) THEN f[k] ELSE Zero
    BY <1>2, WriteAtType
  <1>5. PICK b \in Contents : /\ oj + n <= Len(b)
                              /\ \A k \in oj + 1 .. oj + n : f[k] = b[k]
    BY DEF ChunkOnDisk
  <1>6. oj + n <= Len(f)
    BY DEF ChunkOnDisk
  <1>7. L \in Nat /\ Len(f) \in Nat /\ Len(g) \in Nat /\ L <= C
    BY <1>2, WriteAtType DEF File
  <1> HIDE DEF C, g, oi, oj, n, L
  <1>8. \A k \in oj + 1 .. oj + n : g[k] = b[k]
    <2> TAKE k \in oj + 1 .. oj + n
    <2>1. k \in 1 .. Len(g) /\ k <= Len(f)
      BY <1>2, <1>4, <1>6, <1>7
    <2>2. ~(oi < k /\ k <= oi + L)
      BY <1>1, <1>2, <1>3, <1>7
    <2>3. g[k] = f[k]
      BY <1>4, <2>1, <2>2
    <2> QED
      BY <1>5, <2>3
  <1>9. oj + n <= Len(g)
    BY <1>2, <1>4, <1>6, <1>7
  <1> QED
    BY <1>5, <1>8, <1>9 DEF ChunkOnDisk, oj, n, g, oi

(* Writing a whole chunk of genuine bytes at its place puts it on disk. *)
LEMMA WriteInPlace ==
    ASSUME NEW f \in File, NEW c \in Checkpoint, NEW i \in Nat, NEW data \in File,
           Len(data) = payload_size_for_chunk(c, i), Genuine(chunk_offset(c, i), data)
    PROVE  ChunkOnDisk(WriteAt(f, chunk_offset(c, i), data), c, i)
PROOF
  <1> DEFINE g == WriteAt(f, chunk_offset(c, i), data)
             o == chunk_offset(c, i)
             L == Len(data)
  <1>1. o \in Nat
    BY ChunkPlanAssumption, OffsetType DEF Checkpoint
  <1>2. /\ Len(g) = IF Len(f) < o + L THEN o + L ELSE Len(f)
        /\ \A k \in 1 .. Len(g) :
              g[k] = IF o < k /\ k <= o + L THEN data[k - o]
                     ELSE IF k <= Len(f) THEN f[k] ELSE Zero
    BY <1>1, WriteAtType, SMTT(30)
  <1>3. L \in Nat /\ Len(f) \in Nat
    BY DEF File
  <1>4. PICK b \in Contents : o + L <= Len(b) /\ \A k \in 1 .. L : data[k] = b[o + k]
    BY DEF Genuine
  <1> HIDE DEF g, o, L
  <1>5. \A k \in o + 1 .. o + L : g[k] = b[k]
    <2> TAKE k \in o + 1 .. o + L
    <2>1. k \in 1 .. Len(g) /\ o < k /\ k <= o + L
      BY <1>1, <1>2, <1>3
    <2>2. g[k] = data[k - o]
      BY <1>2, <2>1
    <2>3. k - o \in 1 .. L /\ o + (k - o) = k
      BY <1>1, <1>3, <2>1
    <2> QED
      BY <1>4, <2>2, <2>3
  <1>6. o + L <= Len(g)
    BY <1>1, <1>2, <1>3
  <1> QED
    BY <1>4, <1>5, <1>6 DEF ChunkOnDisk, g, o, L

(* A whole genuine chunk written in its place keeps a checkpoint sound, and  *)
(* stays sound when that chunk is added to it.                               *)
LEMMA WriteSound ==
    ASSUME NEW f \in File, NEW c \in Checkpoint, NEW i \in Nat, NEW data \in File,
           Len(data) = payload_size_for_chunk(c, i), Genuine(chunk_offset(c, i), data),
           SoundFor(f, c)
    PROVE  \A j \in (c.completed \ madeUp) \cup {i} :
              payload_size_for_chunk(c, j) >= StreamBuf =>
                  ChunkOnDisk(WriteAt(f, chunk_offset(c, i), data), c, j)
PROOF
  <1> SUFFICES ASSUME NEW j \in (c.completed \ madeUp) \cup {i},
                      payload_size_for_chunk(c, j) >= StreamBuf
               PROVE  ChunkOnDisk(WriteAt(f, chunk_offset(c, i), data), c, j)
    OBVIOUS
  <1>1. CASE j = i
    BY <1>1, WriteInPlace
  <1>2. CASE j # i
    <2>1. Len(data) <= c.chunk_size
      BY PayloadBound, ChunkPlanAssumption DEF Checkpoint
    <2>2. j \in Nat /\ ChunkOnDisk(f, c, j)
      BY <1>2 DEF SoundFor, Checkpoint
    <2> QED
      BY <1>2, <2>1, <2>2, WriteElsewhere
  <1> QED
    BY <1>1, <1>2

(* Passing on what the stream holds keeps every checkpoint sound that is     *)
(* within the one in memory.                                                 *)
LEMMA FlushSound ==
    ASSUME TypeInv, HeldGenuine, NEW c \in Checkpoint, file_exists(out), SoundFor(out, c),
           rBuf # Absent => Within(c, rCkpt) /\ rCkpt \in Checkpoint
    PROVE  SoundFor(Flushed, c)
PROOF
  <1>1. CASE rBuf = Absent
    BY <1>1 DEF Flushed
  <1>2. CASE rBuf # Absent
    <2>1. rBuf \in PendingWrite /\ out \in File
      BY <1>2 DEF TypeInv, TypeOK, RcvTypeOK, RcvShape
    <2>2. PICK i \in rCkpt.completed :
             /\ rBuf.offset = chunk_offset(rCkpt, i)
             /\ Len(rBuf.data) = payload_size_for_chunk(rCkpt, i)
             /\ Genuine(rBuf.offset, rBuf.data)
      BY <1>2 DEF HeldGenuine
    <2>3. i \in Nat
      BY <1>2 DEF Checkpoint
    <2>4. /\ chunk_offset(c, i) = chunk_offset(rCkpt, i)
          /\ payload_size_for_chunk(c, i) = payload_size_for_chunk(rCkpt, i)
      BY <1>2 DEF Within, chunk_offset, payload_size_for_chunk
    <2>5. rBuf.data \in File
      BY <2>1 DEF PendingWrite
    <2>6. \A j \in (c.completed \ madeUp) \cup {i} :
              payload_size_for_chunk(c, j) >= StreamBuf =>
                  ChunkOnDisk(WriteAt(out, chunk_offset(c, i), rBuf.data), c, j)
      BY <2>1, <2>2, <2>3, <2>4, <2>5, WriteSound
    <2>7. Flushed = WriteAt(out, chunk_offset(c, i), rBuf.data)
      BY <1>2, <2>2, <2>4 DEF Flushed
    <2> QED
      BY <2>6, <2>7 DEF SoundFor
  <1> QED
    BY <1>1, <1>2

-----------------------------------------------------------------------------
(* Cut sidecar texts *)

(* What is left of a list of chunks lists no chunk ahead of a missing one    *)
(* that it did not list so before, but for one that it did not list at all;  *)
(* and that one comes before a chunk that was listed ahead of it.            *)
LEMMA CutKeepsGaps ==
    ASSUME NEW c \in Checkpoint, NEW d \in CutShort(c), d # Torn
    PROVE  /\ d \in Checkpoint
           /\ d.file_size = c.file_size
           /\ d.chunk_size = c.chunk_size
           /\ d.total_chunks = c.total_chunks
           /\ Ahead(d) \subseteq Ahead(c) \cup (d.completed \ c.completed)
           /\ \A e \in d.completed \ c.completed : \E m \in Ahead(c) : e < m
PROOF
  <1>1. PICK S \in {{}} \cup CutCompleted(c.completed) : d = [c EXCEPT !.completed = S]
    BY DEF CutShort
  <1>2. c.completed \subseteq Nat
    BY DEF Checkpoint
  <1>3. d \in Checkpoint
    BY CutShortType
  <1>4. /\ d.completed = S
        /\ d.file_size = c.file_size /\ d.chunk_size = c.chunk_size
        /\ d.total_chunks = c.total_chunks
    BY <1>1 DEF Checkpoint
  <1>5. Loadable(c) /\ Loadable(d)
    BY <1>3, CheckpointFileAssumption DEF Loadable
  <1>6. CASE S = {}
    BY <1>3, <1>4, <1>6 DEF Ahead
  <1>7. CASE S # {}
    <2>1. PICK m \in c.completed :
            S \in {{j \in c.completed : j < m}}
                    \cup {{j \in c.completed : j < m} \cup {e} : e \in DigitPrefixes(m)}
      BY <1>1, <1>7 DEF CutCompleted
    <2>2. m \in Nat
      BY <1>2
    <2>3. PICK e \in 0 .. m : /\ {j \in c.completed : j < m} \subseteq S
                              /\ \A j \in S : j = e \/ (j \in c.completed /\ j < m)
      <3>1. CASE S = {j \in c.completed : j < m}
        BY <2>2, <3>1
      <3>2. CASE \E e \in DigitPrefixes(m) : S = {j \in c.completed : j < m} \cup {e}
        BY <2>2, <3>2 DEF DigitPrefixes
      <3> QED
        BY <2>1, <3>1, <3>2
    <2>4. ASSUME NEW i \in Ahead(d), i \in c.completed PROVE i \in Ahead(c)
      <3>1. i \in S /\ i \in Nat /\ i <= m
        BY <1>2, <1>4, <1>5, <2>2, <2>3, <2>4 DEF Ahead
      <3>2. PICK j \in 0 .. i - 1 : j \notin S
        BY <1>4, <1>5, <2>4 DEF Ahead
      <3>3. j \notin c.completed
        BY <2>2, <2>3, <3>1, <3>2
      <3> QED
        BY <1>5, <2>4, <3>2, <3>3 DEF Ahead
    <2>5. Ahead(d) \subseteq d.completed
      BY DEF Ahead
    <2>6. ASSUME NEW x \in d.completed \ c.completed PROVE m \in Ahead(c) /\ x < m
      <3>1. x = e /\ x # m
        BY <1>4, <2>3, <2>6
      <3>2. x \in 0 .. m - 1
        BY <2>2, <3>1
      <3> QED
        BY <1>5, <2>2, <2>6, <3>2 DEF Ahead
    <2> QED
      BY <1>3, <1>4, <2>4, <2>5, <2>6
  <1> QED
    BY <1>6, <1>7

-----------------------------------------------------------------------------
(* The end of a run *)

(* Once the run's locals are gone, all that remains to be sound is the       *)
(* sidecar beside the output file.                                           *)
LEMMA ForgetDisk ==
    ASSUME NEW result, ForgetRun(result), GapsAreFound', CheckpointSound'
    PROVE  DiskInv'
PROOF
    BY DEF ForgetRun, DiskInv, MemoryPlan, MemorySound, TmpWithin, SidecarWithin, HeldGenuine

(* A sidecar that is kept or removed and a .tmp that is kept get no new gap. *)
LEMMA KeepGaps ==
    ASSUME GapsAreFound, UNCHANGED <<found, madeUp>>,
           ckpt' \in {ckpt, Absent}, tmp' = tmp, rCkpt' \in {rCkpt, Absent}
    PROVE  GapsAreFound'
PROOF
  <1>1. Ahead(Absent) = {}
    BY DEF Ahead, Loadable
  <1>2. \A c \in {ckpt', tmp', rCkpt'} : c \in {ckpt, tmp, rCkpt} \/ c = Absent
    OBVIOUS
  <1>3. \A c \in {ckpt', tmp', rCkpt'} : Ahead(c) \subseteq Ahead(found) \cup madeUp
    BY <1>1, <1>2 DEF GapsAreFound
  <1> QED
    BY <1>3 DEF GapsAreFound

(* The end of a run that leaves the output file as it is keeps DiskInv. *)
LEMMA ForgetKeeping ==
    ASSUME DiskInv, UNCHANGED <<found, madeUp>>,
           NEW result, ForgetRun(result), out' = out, UNCHANGED ckptVars
    PROVE  DiskInv'
PROOF
  <1>1. GapsAreFound'
    BY KeepGaps DEF ForgetRun, ckptVars, DiskInv
  <1>2. CheckpointSound'
    BY DEF CheckpointSound, SoundFor, ckptVars, DiskInv
  <1> QED
    BY <1>1, <1>2, ForgetDisk

(* A return from main, which flushes the stream, keeps DiskInv. *)
LEMMA ExitDisk ==
    ASSUME TypeInv, DiskInv, UNCHANGED <<found, madeUp>>,
           NEW result, Exit(result), ckpt' \in {ckpt, Absent}, tmp' = tmp
    PROVE  DiskInv'
PROOF
  <1>1. ForgetRun(result) /\ out' = Flushed
    BY DEF Exit
  <1>2. GapsAreFound'
    BY <1>1, KeepGaps DEF ForgetRun, DiskInv
  <1>3. CheckpointSound'
    <2> SUFFICES ASSUME Loadable(ckpt'), file_exists(out') PROVE SoundFor(out', ckpt')
      BY DEF CheckpointSound, SoundFor
    <2>1. ckpt' = ckpt /\ ckpt \in Checkpoint /\ Loadable(ckpt)
      BY DEF Loadable, TypeInv, TypeOK, CkptTypeOK
    <2>2. file_exists(out)
      BY <1>1, ChunkPlanAssumption
      DEF file_exists, Flushed, TypeInv, RcvShape, File
    <2>3. SoundFor(out, ckpt)
      BY <2>1, <2>2 DEF DiskInv, CheckpointSound
    <2>4. rBuf # Absent => Within(ckpt, rCkpt) /\ rCkpt \in Checkpoint
      BY <2>1 DEF DiskInv, SidecarWithin, TypeInv, RcvShape
    <2>5. SoundFor(Flushed, ckpt)
      BY <2>1, <2>2, <2>3, <2>4, FlushSound DEF DiskInv
    <2> QED
      BY <1>1, <2>1, <2>5
  <1> QED
    BY <1>1, <1>2, <1>3, ForgetDisk

-----------------------------------------------------------------------------
(* The steps of the receiver *)

(* A run that resumes starts from a sound checkpoint, a fresh one claims     *)
(* nothing.                                                                  *)
LEMMA ManifestDisk ==
    ASSUME TypeInv, DiskInv, UNCHANGED <<found, madeUp>>, RRecvManifest
    PROVE  DiskInv'
PROOF
  <1> DEFINE msg == Head(s2r[client])
             m == msg.manifest
             c == StartingCheckpoint(m)
  <1>1. rpc = "manifest" /\ UNCHANGED ckptVars /\ rBuf = Absent /\ ~rOpen
    BY DEF RRecvManifest, TypeInv, RcvShape
  <1>2. CASE msg.type = "manifest" /\ valid_manifest(m)
    <2>1. /\ rpc' = "request"
          /\ rManifest' = m
          /\ rCkpt' = c
          /\ rTodo' = missing_chunks(c)
          /\ rFresh' = ~UsableCheckpoint(m)
          /\ UNCHANGED <<out, rOpen, rBuf, rHash, rResult>>
      BY <1>2 DEF RRecvManifest
    <2>2. /\ c.file_size = m.file_size
          /\ c.chunk_size = m.chunk_size
          /\ c.total_chunks = m.chunk_count
      BY DEF StartingCheckpoint, UsableCheckpoint, checkpoint_matches_manifest,
             create_checkpoint_from_manifest
    <2>3. MemoryPlan'
      BY <2>1, <2>2 DEF MemoryPlan
    <2>4. ~UsableCheckpoint(m) => c.completed = {}
      BY DEF StartingCheckpoint, create_checkpoint_from_manifest
    <2>5. file_exists(out) => SoundFor(out, c)
      <3>1. CASE UsableCheckpoint(m)
        BY <3>1 DEF StartingCheckpoint, UsableCheckpoint, DiskInv, CheckpointSound
      <3>2. CASE ~UsableCheckpoint(m)
        BY <2>4, <3>2 DEF SoundFor
      <3> QED
        BY <3>1, <3>2
    <2>6. MemorySound'
      <3> HIDE DEF c
      <3>1. file_exists(out') => SoundFor(out', rCkpt')
        BY <2>1, <2>5 DEF file_exists
      <3>2. rCkpt' # Absent /\ file_exists(out') => SoundFor(out, rCkpt)'
        BY <3>1 DEF SoundFor
      <3> QED
        BY <1>1, <2>1, <2>4, <3>2 DEF MemorySound, file_exists
    <2>7. TmpWithin' /\ SidecarWithin' /\ HeldGenuine'
      BY <1>1, <2>1 DEF TmpWithin, SidecarWithin, HeldGenuine
    <2>8. Ahead(c) \subseteq Ahead(found) \cup madeUp
      <3>1. CASE UsableCheckpoint(m)
        BY <3>1 DEF StartingCheckpoint, DiskInv, GapsAreFound
      <3>2. CASE ~UsableCheckpoint(m)
        BY <2>4, <3>2 DEF Ahead
      <3> QED
        BY <3>1, <3>2
    <2>9. GapsAreFound'
      <3> HIDE DEF c
      <3> QED
        BY <1>1, <2>1, <2>8 DEF GapsAreFound, ckptVars, DiskInv
    <2>10. CheckpointSound'
      BY <1>1, <2>1 DEF CheckpointSound, SoundFor, ckptVars, DiskInv
    <2> QED
      BY <2>3, <2>6, <2>7, <2>9, <2>10 DEF DiskInv
  <1>3. CASE ~(msg.type = "manifest" /\ valid_manifest(m))
    <2>1. Exit("rejected")
      BY <1>3 DEF RRecvManifest
    <2> QED
      BY <1>1, <2>1, ExitDisk DEF ckptVars
  <1> QED
    BY <1>2, <1>3

(* The three steps of save_checkpoint never let the sidecar claim more than  *)
(* the memory does.                                                          *)
LEMMA SaveDisk ==
    ASSUME TypeInv, DiskInv, UNCHANGED <<found, madeUp>>, RWriteTmp \/ RRemoveOld \/ RRenameTmp
    PROVE  DiskInv'
PROOF
  <1>0. /\ UNCHANGED <<out, rManifest, rCkpt, rTodo, rFresh, rOpen, rBuf>>
        /\ rpc \in {"tmp", "remove", "rename"} /\ rCkpt \in Checkpoint
        /\ rpc' \in {"remove", "rename", "prepare", "chunk"}
        /\ rpc' = "chunk" => rOpen
    BY DEF RWriteTmp, RRemoveOld, RRenameTmp, TypeInv, RcvShape
  <1>1. rCkpt # Absent /\ rCkpt # Torn
    BY <1>0, CheckpointFileAssumption
  <1>2. MemoryPlan'
    BY <1>0 DEF DiskInv, MemoryPlan
  <1>3. MemorySound'
    BY <1>0, <1>1 DEF DiskInv, MemorySound, SoundFor
  <1>4. HeldGenuine'
    BY <1>0 DEF DiskInv, HeldGenuine
  <1> SUFFICES TmpWithin' /\ SidecarWithin' /\ GapsAreFound' /\ CheckpointSound'
    BY <1>2, <1>3, <1>4 DEF DiskInv
  <1>5. CASE RWriteTmp
    <2>1. rpc' = "remove" /\ ckpt' = ckpt /\ rpc = "tmp" /\ tmp' = rCkpt
      BY <1>5 DEF RWriteTmp, WriteTmp
    <2>2. TmpWithin'
      BY <1>0, <1>1, <2>1 DEF TmpWithin, Within
    <2>3. SidecarWithin'
      BY <1>0, <2>1 DEF SidecarWithin, Within, DiskInv
    <2>4. GapsAreFound'
      BY <1>0, <2>1 DEF GapsAreFound, DiskInv
    <2>5. CheckpointSound'
      BY <1>0, <2>1 DEF CheckpointSound, SoundFor, DiskInv
    <2> QED
      BY <2>2, <2>3, <2>4, <2>5
  <1>6. CASE RRemoveOld
    <2>1. rpc' = "rename" /\ rpc = "remove" /\ ckpt' = Absent /\ tmp' = tmp
      BY <1>6 DEF RRemoveOld, RemoveOld
    <2>2. TmpWithin'
      BY <1>0, <2>1 DEF TmpWithin, Within, DiskInv
    <2>3. SidecarWithin' /\ CheckpointSound'
      BY <2>1 DEF SidecarWithin, CheckpointSound, Loadable
    <2>4. GapsAreFound'
      BY <1>0, <2>1, KeepGaps DEF DiskInv
    <2> QED
      BY <2>2, <2>3, <2>4
  <1>7. CASE RRenameTmp
    <2>1. rpc' \in {"prepare", "chunk"} /\ rpc = "rename" /\ ckpt' = tmp /\ tmp' = Absent
      BY <1>7 DEF RRenameTmp, RenameTmp
    <2>2. tmp = Torn \/ (tmp \in Checkpoint /\ Within(tmp, rCkpt))
      BY <2>1 DEF DiskInv, TmpWithin, TypeInv, TypeOK, CkptTypeOK
    <2>3. TmpWithin'
      BY <2>1 DEF TmpWithin
    <2>4. SidecarWithin'
      BY <1>0, <2>1, <2>2 DEF SidecarWithin, Within, Loadable
    <2>5. GapsAreFound'
      <3>1. Ahead(Absent) = {}
        BY DEF Ahead, Loadable
      <3> QED
        BY <1>0, <2>1, <3>1 DEF GapsAreFound, DiskInv
    <2>6. CheckpointSound'
      <3> SUFFICES ASSUME Loadable(ckpt'), file_exists(out') PROVE SoundFor(out', ckpt')
        BY DEF CheckpointSound, SoundFor
      <3>1. tmp \in Checkpoint /\ Within(tmp, rCkpt)
        BY <2>1, <2>2 DEF Loadable
      <3>2. SoundFor(out, rCkpt)
        BY <1>0, <1>1 DEF DiskInv, MemorySound
      <3>3. SoundFor(out, tmp)
        BY <1>0, <3>1, <3>2, WithinSound
      <3> QED
        BY <1>0, <2>1, <3>3
    <2> QED
      BY <2>3, <2>4, <2>5, <2>6
  <1> QED
    BY <1>5, <1>6, <1>7

(* A .tmp that a full disk has cut short claims no more than the memory      *)
(* either, but for a chunk that the cut has made up; it makes one up only    *)
(* where an earlier chunk is missing.                                        *)
LEMMA CutDisk ==
    ASSUME TypeInv, DiskInv, RWriteTmpShort, found' = found,
           madeUp' = madeUp \cup MadeUpBy(tmp')
    PROVE  DiskInv'
PROOF
  <1>0. /\ UNCHANGED <<out, rManifest, rCkpt, rTodo, rFresh, rOpen, rBuf, ckpt>>
        /\ rpc = "tmp" /\ rpc' = "remove" /\ rCkpt \in Checkpoint
        /\ tmp' \in CutShort(rCkpt)
    BY DEF RWriteTmpShort, WriteTmpShort, TypeInv, RcvShape
  <1>1. madeUp \subseteq madeUp'
    OBVIOUS
  <1>2. MemoryPlan' /\ HeldGenuine'
    BY <1>0 DEF DiskInv, MemoryPlan, HeldGenuine
  <1>3. MemorySound'
    BY <1>0, <1>1 DEF DiskInv, MemorySound, SoundFor
  <1>4. CheckpointSound'
    BY <1>0, <1>1 DEF DiskInv, CheckpointSound, SoundFor
  <1>5. SidecarWithin'
    BY <1>0, <1>1 DEF DiskInv, SidecarWithin, Within
  <1>6. CASE tmp' = Torn
    <2>1. Ahead(Torn) = {} /\ MadeUpBy(Torn) = {}
      BY DEF Ahead, MadeUpBy, Loadable
    <2>2. GapsAreFound'
      BY <1>0, <1>6, <2>1 DEF DiskInv, GapsAreFound
    <2> QED
      BY <1>2, <1>3, <1>4, <1>5, <1>6, <2>2 DEF DiskInv, TmpWithin
  <1>7. CASE tmp' # Torn
    <2>1. /\ tmp' \in Checkpoint
          /\ tmp'.file_size = rCkpt.file_size
          /\ tmp'.chunk_size = rCkpt.chunk_size
          /\ tmp'.total_chunks = rCkpt.total_chunks
          /\ Ahead(tmp') \subseteq Ahead(rCkpt) \cup (tmp'.completed \ rCkpt.completed)
          /\ \A e \in tmp'.completed \ rCkpt.completed : \E m \in Ahead(rCkpt) : e < m
      BY <1>0, <1>7, CutKeepsGaps
    <2>2. madeUp' = madeUp \cup (tmp'.completed \ rCkpt.completed)
      BY <2>1, CheckpointFileAssumption DEF MadeUpBy, Loadable
    <2>3. TmpWithin'
      BY <1>0, <2>1, <2>2, CheckpointFileAssumption DEF TmpWithin, Within
    <2>4. /\ Ahead(ckpt) \subseteq Ahead(found) \cup madeUp
          /\ Ahead(rCkpt) \subseteq Ahead(found) \cup madeUp
          /\ \A d \in madeUp : \E i \in Ahead(found) : d < i
      BY DEF DiskInv, GapsAreFound
    <2>5. Ahead(found) \subseteq Nat /\ madeUp \subseteq Nat /\ tmp'.completed \subseteq Nat
      <3>1. found \in Checkpoint \cup {Absent, Torn}
        BY CheckpointFileAssumption DEF TypeInv, TypeOK, BudgetTypeOK
      <3> QED
        BY <2>1, <3>1 DEF Ahead, Loadable, Checkpoint, TypeInv, TypeOK, BudgetTypeOK
    <2>6. ASSUME NEW e \in tmp'.completed \ rCkpt.completed
          PROVE  \E i \in Ahead(found) : e < i
      <3>1. PICK m \in Ahead(rCkpt) : e < m
        BY <2>1
      <3>2. CASE m \in Ahead(found)
        BY <3>1, <3>2
      <3>3. CASE m \in madeUp
        <4>1. PICK i \in Ahead(found) : m < i
          BY <2>4, <3>3
        <4> QED
          BY <2>5, <3>1, <3>3, <4>1
      <3> QED
        BY <2>4, <3>2, <3>3
    <2>7. /\ Ahead(ckpt') \subseteq Ahead(found) \cup madeUp'
          /\ Ahead(tmp') \subseteq Ahead(found) \cup madeUp'
          /\ Ahead(rCkpt') \subseteq Ahead(found) \cup madeUp'
      BY <1>0, <2>1, <2>2, <2>4
    <2>8. \A d \in madeUp' : \E i \in Ahead(found) : d < i
      BY <2>2, <2>4, <2>6
    <2>9. GapsAreFound'
      BY <2>7, <2>8 DEF GapsAreFound
    <2> QED
      BY <1>2, <1>3, <1>4, <1>5, <2>3, <2>9 DEF DiskInv
  <1> QED
    BY <1>6, <1>7

(* Truncating the output file of a fresh run is safe, because by then the    *)
(* sidecar claims nothing but what a cut has made up.                        *)
LEMMA EmptySound ==
    ASSUME TypeInv, DiskInv, rpc = "prepare", rFresh
    PROVE  /\ rCkpt.completed = {}
           /\ Loadable(ckpt) => ckpt.completed \subseteq madeUp
PROOF
  <1>1. ~rOpen
    BY DEF TypeInv, RcvShape
  <1>2. rCkpt.completed = {}
    BY <1>1 DEF DiskInv, MemorySound
  <1> QED
    BY <1>2 DEF DiskInv, SidecarWithin, Within

(* prepare_output_file keeps DiskInv, whether it succeeds or fails. *)
LEMMA PrepareDisk ==
    ASSUME TypeInv, DiskInv, UNCHANGED <<found, madeUp>>, RPrepareOutput \/ RPrepareFail
    PROVE  DiskInv'
PROOF
  <1>0. rpc = "prepare" /\ UNCHANGED ckptVars /\ ~rOpen /\ rBuf = Absent
    BY DEF RPrepareOutput, RPrepareFail, TypeInv, RcvShape
  <1>1. CASE RPrepareOutput /\ (rFresh \/ file_exists(out))
    <2>1. /\ out' = (IF rFresh THEN <<>> ELSE out)
          /\ rpc' = "chunk"
          /\ UNCHANGED <<rManifest, rCkpt, rTodo, rFresh, rBuf>>
      BY <1>1 DEF RPrepareOutput
    <2>2. MemoryPlan' /\ TmpWithin' /\ HeldGenuine' /\ SidecarWithin'
      BY <1>0, <2>1
      DEF DiskInv, MemoryPlan, TmpWithin, HeldGenuine, SidecarWithin, Within, ckptVars
    <2>3. GapsAreFound'
      BY <1>0, <2>1, KeepGaps DEF DiskInv, ckptVars
    <2>4. MemorySound' /\ CheckpointSound'
      <3>1. CASE rFresh
        BY <1>0, <2>1, <3>1, EmptySound DEF MemorySound, CheckpointSound, SoundFor, ckptVars
      <3>2. CASE ~rFresh
        BY <1>0, <2>1, <3>2 DEF DiskInv, MemorySound, CheckpointSound, SoundFor, ckptVars
      <3> QED
        BY <3>1, <3>2
    <2> QED
      BY <2>2, <2>3, <2>4 DEF DiskInv
  <1>2. CASE RPrepareOutput /\ ~(rFresh \/ file_exists(out))
    <2>1. Exit("failed")
      BY <1>2 DEF RPrepareOutput
    <2> QED
      BY <1>0, <2>1, ExitDisk DEF ckptVars
  <1>3. CASE RPrepareFail
    <2>1. ForgetRun("failed") /\ (out' = out \/ (rFresh /\ out' = <<>>))
      BY <1>3 DEF RPrepareFail
    <2>2. CASE out' = out
      BY <1>0, <2>1, <2>2, ForgetKeeping
    <2>3. CASE rFresh
      <3>1. CheckpointSound'
        BY <1>0, <2>3, EmptySound DEF CheckpointSound, SoundFor, ckptVars
      <3>2. GapsAreFound'
        BY <1>0, <2>1, KeepGaps DEF ForgetRun, DiskInv, ckptVars
      <3> QED
        BY <2>1, <3>1, <3>2, ForgetDisk
    <2> QED
      BY <2>1, <2>2, <2>3
  <1> QED
    BY <1>1, <1>2, <1>3

-----------------------------------------------------------------------------
(* The chunk that arrives is the next one, at its place, of its size and     *)
(* genuine; all chunks before it are completed and it is not.                *)
LEMMA ArrivingChunk ==
    ASSUME TypeInv, SafetyInv, rpc = "chunk", s2r[client] # <<>>,
           ExpectedChunk(Head(s2r[client]))
    PROVE  LET msg == Head(s2r[client])
               i   == msg.header.chunk_index
           IN  /\ i \in Nat /\ msg.payload \in File
               /\ msg.header.byte_offset = chunk_offset(rCkpt, i)
               /\ Len(msg.payload) = payload_size_for_chunk(rCkpt, i)
               /\ Genuine(chunk_offset(rCkpt, i), msg.payload)
               /\ i \in missing_chunks(rCkpt)
               /\ \A j \in 0 .. i : j = i \/ j \in rCkpt.completed
PROOF
  <1> DEFINE msg == Head(s2r[client])
             i == msg.header.chunk_index
  <1>1. /\ client \in Senders /\ rCkpt \in Checkpoint /\ rManifest \in Manifest
        /\ s2r \in [Senders -> Seq(ToReceiver)]
    BY DEF TypeInv, TypeOK, LinkTypeOK, RcvShape
  <1>2. msg \in ToReceiver /\ msg = s2r[client][1] /\ 1 \in 1 .. Len(s2r[client])
    BY <1>1
  <1>3. msg.header \in Header /\ msg.payload \in File /\ msg.type = "chunk"
    BY <1>2 DEF ExpectedChunk, ToReceiver, ManifestMsg, ChunkMsg, HashMsg
  <1>4. i \in NextOf(rTodo) /\ validate_chunk_header(rManifest, msg.header)
    BY DEF ExpectedChunk
  <1>5. /\ msg.header.byte_offset = chunk_offset(rManifest, i)
        /\ msg.header.payload_size = payload_size_for_chunk(rManifest, i)
        /\ msg.header.payload_size \in Nat \ {0}
    BY <1>1, <1>3, <1>4, ValidHeader
  <1>6. /\ Len(msg.payload) = msg.header.payload_size
        /\ Genuine(msg.header.byte_offset, msg.payload)
    <2>1. ChunkGenuine(msg)
      BY <1>1, <1>2 DEF SafetyInv, StreamsGenuine
    <2>2. msg.header.payload_size > 0
      BY <1>5
    <2> QED
      BY <1>3, <2>1, <2>2 DEF ChunkGenuine
  <1>7. /\ rCkpt.file_size = rManifest.file_size
        /\ rCkpt.chunk_size = rManifest.chunk_size
        /\ rTodo = missing_chunks(rCkpt)
    BY <1>1, CheckpointFileAssumption DEF SafetyInv, DiskInv, MemoryPlan
  <1>8. /\ chunk_offset(rCkpt, i) = chunk_offset(rManifest, i)
        /\ payload_size_for_chunk(rCkpt, i) = payload_size_for_chunk(rManifest, i)
    BY <1>7 DEF chunk_offset, payload_size_for_chunk
  <1>9. i \in Nat /\ i \in missing_chunks(rCkpt)
    BY <1>3, <1>4, <1>7 DEF Header, NextOf
  <1>10. ASSUME NEW j \in 0 .. i, j # i PROVE j \in rCkpt.completed
    <2>1. j \notin rTodo
      BY <1>4, <1>9, <1>10 DEF NextOf
    <2>2. j \in 0 .. rCkpt.total_chunks - 1
      BY <1>1, <1>9, <1>10 DEF missing_chunks, Checkpoint
    <2> QED
      BY <1>7, <2>1, <2>2 DEF missing_chunks
  <1> QED
    BY <1>3, <1>5, <1>6, <1>8, <1>9, <1>10

(* Writing a chunk and then listing it in memory keeps the memory sound and  *)
(* the sidecar, which does not list it yet, too.                             *)
LEMMA ChunkDisk ==
    ASSUME TypeInv, SafetyInv, UNCHANGED <<found, madeUp>>, RRecvChunk
    PROVE  DiskInv'
PROOF
  <1> DEFINE msg == Head(s2r[client])
             i == msg.header.chunk_index
             data == msg.payload
             o == chunk_offset(rCkpt, i)
  <1>0. /\ rpc = "chunk" /\ s2r[client] # <<>> /\ UNCHANGED ckptVars /\ DiskInv
        /\ rCkpt \in Checkpoint /\ rOpen /\ out \in File
    BY DEF RRecvChunk, TypeInv, RcvShape, SafetyInv
  <1>1. CASE ExpectedChunk(msg)
    <2>1. /\ WriteChunk(msg.header.byte_offset, data)
          /\ rCkpt' = [rCkpt EXCEPT !.completed = @ \cup {i}]
          /\ rTodo' = rTodo \ {i}
          /\ rpc' = "tmp"
          /\ UNCHANGED <<rManifest, rFresh, rOpen>>
      BY <1>1 DEF RRecvChunk
    <2>2. /\ i \in Nat /\ data \in File
          /\ msg.header.byte_offset = o
          /\ Len(data) = payload_size_for_chunk(rCkpt, i)
          /\ Genuine(o, data)
          /\ i \in missing_chunks(rCkpt)
          /\ \A j \in 0 .. i : j = i \/ j \in rCkpt.completed
      BY <1>0, <1>1, ArrivingChunk
    <2> HIDE DEF i, data
    <2>3. /\ rCkpt' \in Checkpoint
          /\ rCkpt'.completed = rCkpt.completed \cup {i}
          /\ rCkpt'.file_size = rCkpt.file_size
          /\ rCkpt'.chunk_size = rCkpt.chunk_size
          /\ rCkpt'.total_chunks = rCkpt.total_chunks
      BY <1>0, <2>1, <2>2 DEF Checkpoint
    <2>4. \A j : /\ chunk_offset(rCkpt', j) = chunk_offset(rCkpt, j)
                 /\ payload_size_for_chunk(rCkpt', j) = payload_size_for_chunk(rCkpt, j)
      BY <2>3 DEF chunk_offset, payload_size_for_chunk
    <2>5. file_exists(out) /\ rCkpt # Absent
      BY <1>0, ChunkPlanAssumption, CheckpointFileAssumption DEF file_exists, File
    <2>6. Flushed \in File
      BY <1>0, FlushedType DEF TypeInv, TypeOK
    <2>7. Within(rCkpt, rCkpt)
      BY DEF Within
    <2>8. SoundFor(Flushed, rCkpt)
      BY <1>0, <2>5, <2>7, FlushSound DEF DiskInv, MemorySound
    <2>9. SoundFor(out', rCkpt')
      <3>1. \A j \in (rCkpt.completed \ madeUp) \cup {i} :
                payload_size_for_chunk(rCkpt, j) >= StreamBuf => ChunkOnDisk(out', rCkpt, j)
        <4>1. CASE out' = WriteAt(Flushed, o, data)
          BY <1>0, <2>2, <2>6, <2>8, <4>1, WriteSound
        <4>2. CASE MayHold(data) /\ out' = Flushed
          <5>1. ~(payload_size_for_chunk(rCkpt, i) >= StreamBuf)
            BY <2>2, <4>2, ReceiverAssumption DEF MayHold, File
          <5> QED
            BY <2>8, <4>2, <5>1 DEF SoundFor
        <4> QED
          BY <2>1, <2>2, <4>1, <4>2 DEF WriteChunk
      <3>2. \A j : ChunkOnDisk(out', rCkpt, j) => ChunkOnDisk(out', rCkpt', j)
        BY <2>4 DEF ChunkOnDisk
      <3>3. rCkpt'.completed \ madeUp \subseteq (rCkpt.completed \ madeUp) \cup {i}
        BY <2>3
      <3> QED
        BY <2>4, <3>1, <3>2, <3>3 DEF SoundFor
    <2>10. MemoryPlan'
      <3>1. rTodo = missing_chunks(rCkpt)
        BY <1>0, <2>5 DEF DiskInv, MemoryPlan
      <3>2. rTodo' = missing_chunks(rCkpt')
        BY <2>1, <2>3, <3>1 DEF missing_chunks
      <3> QED
        BY <1>0, <2>1, <2>3, <2>5, <3>2 DEF DiskInv, MemoryPlan
    <2>11. MemorySound'
      BY <1>0, <2>1, <2>9 DEF MemorySound, SoundFor
    <2>12. TmpWithin'
      BY <2>1 DEF TmpWithin
    <2>13. SidecarWithin' /\ (Loadable(ckpt') => Within(ckpt', rCkpt'))
      BY <1>0, <2>3 DEF DiskInv, SidecarWithin, Within, ckptVars
    <2>14. HeldGenuine'
      <3>1. rBuf' = Absent \/ (rBuf' = [offset |-> o, data |-> data] /\ MayHold(data))
        BY <2>1, <2>2 DEF WriteChunk
      <3> QED
        BY <2>2, <2>3, <2>4, <3>1 DEF HeldGenuine
    <2>15. GapsAreFound'
      <3>1. Loadable(rCkpt) /\ Loadable(rCkpt')
        BY <1>0, <2>3, CheckpointFileAssumption DEF Loadable
      <3>2. ASSUME NEW j \in Ahead(rCkpt') PROVE j \in Ahead(rCkpt)
        <4>1. j \in rCkpt.completed \cup {i} /\ j \in Nat
          BY <1>0, <2>2, <2>3, <3>1, <3>2 DEF Ahead, Checkpoint
        <4>2. PICK k \in 0 .. j - 1 : k \notin rCkpt.completed \cup {i}
          BY <2>3, <3>1, <3>2 DEF Ahead
        <4>3. j # i
          BY <2>2, <4>1, <4>2
        <4> QED
          BY <3>1, <4>1, <4>2, <4>3 DEF Ahead
      <3>3. Ahead(rCkpt) \subseteq Ahead(found) \cup madeUp
        BY <1>0 DEF DiskInv, GapsAreFound
      <3> QED
        BY <1>0, <3>2, <3>3 DEF DiskInv, GapsAreFound, ckptVars
    <2>16. CheckpointSound'
      <3> SUFFICES ASSUME Loadable(ckpt'), file_exists(out') PROVE SoundFor(out', ckpt')
        BY DEF CheckpointSound, SoundFor
      <3>1. ckpt' \in Checkpoint
        BY <1>0 DEF ckptVars, Loadable, TypeInv, TypeOK, CkptTypeOK
      <3> QED
        BY <2>3, <2>9, <2>13, <3>1, WithinSound
    <2> QED
      BY <2>10, <2>11, <2>12, <2>13, <2>14, <2>15, <2>16 DEF DiskInv
  <1>2. CASE ~ExpectedChunk(msg)
    <2>1. Exit("rejected")
      BY <1>2 DEF RRecvChunk
    <2> QED
      BY <1>0, <2>1, ExitDisk DEF ckptVars
  <1> QED
    BY <1>1, <1>2

(* A write that fails halfway spoils only a chunk that nothing but a cut      *)
(* claims.                                                                   *)
LEMMA WriteFailDisk ==
    ASSUME TypeInv, SafetyInv, UNCHANGED <<found, madeUp>>, RWriteFail
    PROVE  DiskInv'
PROOF
  <1> DEFINE msg == Head(s2r[client])
             i == msg.header.chunk_index
             data == msg.payload
             o == chunk_offset(rCkpt, i)
  <1>0. /\ rpc = "chunk" /\ s2r[client] # <<>> /\ UNCHANGED ckptVars /\ DiskInv
        /\ rCkpt \in Checkpoint /\ rOpen /\ out \in File /\ ExpectedChunk(msg)
        /\ ForgetRun("failed")
    BY DEF RWriteFail, TypeInv, RcvShape, SafetyInv
  <1>1. /\ i \in Nat /\ data \in File
        /\ msg.header.byte_offset = o
        /\ Len(data) = payload_size_for_chunk(rCkpt, i)
        /\ i \in missing_chunks(rCkpt)
    BY <1>0, ArrivingChunk
  <1>2. \/ out' = out
        \/ out' = Flushed
        \/ \E n \in 1 .. Len(data) - 1 : out' = WriteAt(Flushed, o, SubSeq(data, 1, n))
    BY <1>1 DEF RWriteFail
  <1> HIDE DEF i, data
  <1>3. GapsAreFound'
    BY <1>0, KeepGaps DEF ForgetRun, DiskInv, ckptVars
  <1>4. CheckpointSound'
    <2> SUFFICES ASSUME Loadable(ckpt') PROVE SoundFor(out', ckpt')
      BY DEF CheckpointSound, SoundFor
    <2>1. ckpt' = ckpt /\ ckpt \in Checkpoint /\ Within(ckpt, rCkpt) /\ Loadable(ckpt)
      BY <1>0 DEF ckptVars, Loadable, TypeInv, TypeOK, CkptTypeOK, DiskInv, SidecarWithin
    <2>2. file_exists(out)
      BY <1>0, ChunkPlanAssumption DEF file_exists, File
    <2>3. SoundFor(out, ckpt)
      BY <1>0, <2>1, <2>2 DEF DiskInv, CheckpointSound
    <2>4. SoundFor(Flushed, ckpt)
      BY <1>0, <2>1, <2>2, <2>3, FlushSound DEF DiskInv
    <2>5. ASSUME NEW n \in 1 .. Len(data) - 1,
                 out' = WriteAt(Flushed, o, SubSeq(data, 1, n))
          PROVE  SoundFor(out', ckpt)
      <3> DEFINE part == SubSeq(data, 1, n)
      <3>1. part \in File /\ Len(part) = n /\ n <= Len(data)
        BY <1>1 DEF File
      <3>2. Len(data) <= ckpt.chunk_size
        BY <1>0, <1>1, <2>1, PayloadBound, ChunkPlanAssumption DEF Checkpoint
      <3>3. Flushed \in File
        BY <1>0, FlushedType DEF TypeInv, TypeOK
      <3>4. chunk_offset(ckpt, i) = o
        BY <2>1 DEF Within, chunk_offset
      <3>5. ASSUME NEW j \in ckpt.completed \ madeUp,
                   payload_size_for_chunk(ckpt, j) >= StreamBuf
            PROVE  ChunkOnDisk(out', ckpt, j)
        <4>1. j # i /\ j \in Nat
          BY <1>1, <2>1 DEF Within, missing_chunks, Checkpoint
        <4>2. ChunkOnDisk(Flushed, ckpt, j)
          BY <2>4, <3>5 DEF SoundFor
        <4>3. Len(part) <= ckpt.chunk_size
          BY <2>1, <3>1, <3>2, <1>1, ChunkPlanAssumption DEF Checkpoint, File
        <4> HIDE DEF part
        <4>4. ChunkOnDisk(WriteAt(Flushed, chunk_offset(ckpt, i), part), ckpt, j)
          BY <1>1, <2>1, <3>1, <3>3, <4>1, <4>2, <4>3, WriteElsewhere
        <4> QED
          BY <2>5, <3>4, <4>4 DEF part
      <3> QED
        BY <3>5 DEF SoundFor
    <2> QED
      BY <1>2, <2>1, <2>3, <2>4, <2>5
  <1> QED
    BY <1>0, <1>3, <1>4, ForgetDisk

-----------------------------------------------------------------------------
(* Closing the stream passes on what it holds and keeps DiskInv. *)
LEMMA CloseDisk ==
    ASSUME TypeInv, DiskInv, UNCHANGED <<found, madeUp>>, RCloseStream
    PROVE  DiskInv'
PROOF
  <1>1. /\ rpc = "chunk" /\ rpc' = "hash" /\ out' = Flushed /\ rBuf' = Absent
        /\ UNCHANGED <<rManifest, rCkpt, rTodo, ckpt, tmp>>
        /\ rCkpt \in Checkpoint /\ rOpen /\ out \in File
    BY DEF RCloseStream, ckptVars, TypeInv, RcvShape
  <1>2. file_exists(out) /\ rCkpt # Absent
    BY <1>1, ChunkPlanAssumption, CheckpointFileAssumption DEF file_exists, File
  <1>3. MemoryPlan' /\ TmpWithin' /\ HeldGenuine' /\ SidecarWithin'
    BY <1>1 DEF DiskInv, MemoryPlan, TmpWithin, HeldGenuine, SidecarWithin, Within
  <1>4. GapsAreFound'
    BY <1>1, KeepGaps DEF DiskInv
  <1>5. SoundFor(Flushed, rCkpt)
    BY <1>1, <1>2, FlushSound DEF DiskInv, MemorySound, Within
  <1>6. MemorySound'
    BY <1>1, <1>5 DEF MemorySound, SoundFor
  <1>7. CheckpointSound'
    <2> SUFFICES ASSUME Loadable(ckpt) PROVE SoundFor(Flushed, ckpt)
      BY <1>1 DEF CheckpointSound, SoundFor
    <2>1. ckpt \in Checkpoint /\ Within(ckpt, rCkpt)
      BY <1>1 DEF Loadable, TypeInv, TypeOK, CkptTypeOK, DiskInv, SidecarWithin
    <2> QED
      BY <1>1, <1>5, <2>1, WithinSound
  <1> QED
    BY <1>3, <1>4, <1>6, <1>7 DEF DiskInv

(* When the last write fails, or is cut, only a chunk is damaged that nobody *)
(* takes for one on disk: it is shorter than the stream's buffer.            *)
LEMMA FlushFailDisk ==
    ASSUME TypeInv, DiskInv, UNCHANGED <<found, madeUp>>, RFlushFail
    PROVE  DiskInv'
PROOF
  <1>1. /\ rpc = "chunk" /\ rpc' = "hash" /\ rBuf' = Absent /\ rBuf # Absent
        /\ UNCHANGED <<rManifest, rCkpt, rTodo, ckpt, tmp>>
        /\ rCkpt \in Checkpoint /\ rOpen /\ out \in File /\ rBuf \in PendingWrite
    BY DEF RFlushFail, ckptVars, TypeInv, TypeOK, RcvTypeOK, RcvShape
  <1>2. file_exists(out) /\ rCkpt # Absent
    BY <1>1, ChunkPlanAssumption, CheckpointFileAssumption DEF file_exists, File
  <1>3. MemoryPlan' /\ TmpWithin' /\ HeldGenuine' /\ SidecarWithin'
    BY <1>1 DEF DiskInv, MemoryPlan, TmpWithin, HeldGenuine, SidecarWithin, Within
  <1>4. GapsAreFound'
    BY <1>1, KeepGaps DEF DiskInv
  <1>5. PICK i \in rCkpt.completed :
           /\ rBuf.offset = chunk_offset(rCkpt, i)
           /\ Len(rBuf.data) = payload_size_for_chunk(rCkpt, i)
    BY <1>1 DEF DiskInv, HeldGenuine
  <1>6. ~(payload_size_for_chunk(rCkpt, i) >= StreamBuf)
    <2>1. Len(rBuf.data) \in Nat /\ Len(rBuf.data) < StreamBuf
      BY <1>1 DEF DiskInv, HeldGenuine, MayHold, PendingWrite, File
    <2> QED
      BY <1>5, <2>1, ReceiverAssumption
  <1>7. SoundFor(out, rCkpt)
    BY <1>2 DEF DiskInv, MemorySound
  <1>8. SoundFor(out', rCkpt)
    <2>1. CASE out' = out
      BY <1>7, <2>1
    <2>2. ASSUME NEW n \in 1 .. Len(rBuf.data) - 1,
                 out' = WriteAt(out, rBuf.offset, SubSeq(rBuf.data, 1, n))
          PROVE  SoundFor(out', rCkpt)
      <3> DEFINE part == SubSeq(rBuf.data, 1, n)
      <3>1. part \in File /\ Len(part) = n /\ n <= Len(rBuf.data)
        BY <1>1 DEF PendingWrite, File
      <3>2. i \in Nat
        BY <1>1 DEF Checkpoint
      <3>3. Len(part) <= rCkpt.chunk_size
        <4>1. payload_size_for_chunk(rCkpt, i) <= rCkpt.chunk_size
          BY <1>1, <3>2, PayloadBound, ChunkPlanAssumption DEF Checkpoint
        <4>2. rCkpt.chunk_size \in Nat /\ Len(rBuf.data) \in Nat
          BY <1>1, ChunkPlanAssumption DEF Checkpoint, PendingWrite, File
        <4> HIDE DEF part
        <4> QED
          BY <1>5, <3>1, <4>1, <4>2
      <3> HIDE DEF part
      <3>4. ASSUME NEW j \in rCkpt.completed \ madeUp,
                   payload_size_for_chunk(rCkpt, j) >= StreamBuf
            PROVE  ChunkOnDisk(out', rCkpt, j)
        <4>1. j # i /\ j \in Nat
          BY <1>1, <1>6, <3>4 DEF Checkpoint
        <4>2. ChunkOnDisk(out, rCkpt, j)
          BY <1>7, <3>4 DEF SoundFor
        <4>3. ChunkOnDisk(WriteAt(out, chunk_offset(rCkpt, i), part), rCkpt, j)
          BY <1>1, <3>1, <3>2, <3>3, <4>1, <4>2, WriteElsewhere
        <4> QED
          BY <1>5, <2>2, <4>3 DEF part
      <3> QED
        BY <3>4 DEF SoundFor
    <2> QED
      BY <2>1, <2>2 DEF RFlushFail
  <1>9. MemorySound'
    BY <1>1, <1>8 DEF MemorySound, SoundFor
  <1>10. CheckpointSound'
    <2> SUFFICES ASSUME Loadable(ckpt) PROVE SoundFor(out', ckpt)
      BY <1>1 DEF CheckpointSound, SoundFor
    <2>1. ckpt \in Checkpoint /\ Within(ckpt, rCkpt)
      BY <1>1 DEF Loadable, TypeInv, TypeOK, CkptTypeOK, DiskInv, SidecarWithin
    <2> QED
      BY <1>1, <1>8, <2>1, WithinSound
  <1> QED
    BY <1>3, <1>4, <1>9, <1>10 DEF DiskInv

(* Steps that only move on in the program keep DiskInv. *)
LEMMA MoveDisk ==
    ASSUME DiskInv, UNCHANGED <<found, madeUp>>,
           UNCHANGED <<out, rManifest, rCkpt, rTodo, rFresh, rOpen, rBuf, ckptVars>>,
           rpc' \in {"accept", "manifest", "tmp", "verify", "cleanup"},
           rpc' = "tmp" => rpc = "request",
           rpc' \in {"verify", "cleanup"} => rpc \in {"hash", "verify"}
    PROVE  DiskInv'
PROOF
  <1>1. MemoryPlan' /\ TmpWithin' /\ HeldGenuine'
    BY DEF DiskInv, MemoryPlan, TmpWithin, HeldGenuine
  <1>2. MemorySound' /\ CheckpointSound'
    BY DEF DiskInv, MemorySound, CheckpointSound, SoundFor, ckptVars
  <1>3. GapsAreFound'
    BY KeepGaps DEF DiskInv, ckptVars
  <1>4. SidecarWithin'
    BY DEF DiskInv, SidecarWithin, Within, ckptVars
  <1> QED
    BY <1>1, <1>2, <1>3, <1>4 DEF DiskInv

(* Every step of the receiver, faults included, keeps DiskInv. *)
LEMMA ReceiverDisk ==
    ASSUME TypeInv, SafetyInv,
           (ReceiverStep /\ UNCHANGED budgetVars) \/ ReceiverFault, found' = found
    PROVE  DiskInv'
PROOF
  <1>0. DiskInv
    BY DEF SafetyInv
  <1>1. CASE RWriteTmpShort /\ madeUp' = madeUp \cup MadeUpBy(tmp')
    BY <1>0, <1>1, CutDisk
  <1>2. CASE /\ UNCHANGED madeUp
             /\ \/ ReceiverStep \/ RCrash \/ RCallFail \/ RPrepareFail
                \/ RWriteFail \/ RFlushFail \/ RCleanupFail \/ DeleteOutput
    <2>0. UNCHANGED madeUp /\ UNCHANGED found
      BY <1>2
    <2> USE <2>0
    <2>1. ASSUME RStart \/ RAccept \/ RSendRequest PROVE DiskInv'
      BY <1>0, <2>1, MoveDisk DEF RStart, RAccept, RSendRequest
    <2>2. ASSUME RRecvHash PROVE DiskInv'
      <3>1. UNCHANGED ckptVars /\ rpc = "hash"
        BY <2>2 DEF RRecvHash
      <3>2. CASE Head(s2r[client]).type = "hash"
        BY <1>0, <2>2, <3>1, <3>2, MoveDisk DEF RRecvHash
      <3>3. CASE Head(s2r[client]).type # "hash"
        <4>1. Exit("rejected")
          BY <2>2, <3>3 DEF RRecvHash
        <4> QED
          BY <1>0, <3>1, <4>1, ExitDisk DEF ckptVars
      <3> QED
        BY <3>2, <3>3
    <2>3. ASSUME RVerify PROVE DiskInv'
      <3>1. UNCHANGED ckptVars /\ rpc = "verify"
        BY <2>3 DEF RVerify
      <3>2. CASE Sha256(out) = rHash
        BY <1>0, <2>3, <3>1, <3>2, MoveDisk DEF RVerify
      <3>3. CASE Sha256(out) # rHash
        <4>1. Exit("mismatch")
          BY <2>3, <3>3 DEF RVerify
        <4> QED
          BY <1>0, <3>1, <4>1, ExitDisk DEF ckptVars
      <3> QED
        BY <3>2, <3>3
    <2>4. ASSUME RCleanup \/ RCleanupFail PROVE DiskInv'
      <3>1. Exit("verified") /\ ckpt' \in {ckpt, Absent} /\ tmp' = tmp
        BY <2>4 DEF RCleanup, RCleanupFail, remove_checkpoint, ckptVars
      <3> QED
        BY <1>0, <3>1, ExitDisk
    <2>5. ASSUME RRecvEof \/ RSendFail \/ RCallFail PROVE DiskInv'
      <3>1. Exit("failed") /\ UNCHANGED ckptVars
        BY <2>5 DEF RRecvEof, RSendFail, RCallFail
      <3> QED
        BY <1>0, <3>1, ExitDisk DEF ckptVars
    <2>6. ASSUME RCrash PROVE DiskInv'
      <3>1. ForgetRun("crashed") /\ out' = out /\ UNCHANGED ckptVars
        BY <2>6 DEF RCrash
      <3> QED
        BY <1>0, <3>1, ForgetKeeping
    <2>7. ASSUME DeleteOutput PROVE DiskInv'
      <3>1. /\ rpc = "off" /\ rpc' = "off" /\ out' = Absent
            /\ UNCHANGED <<rManifest, rCkpt, rTodo, rFresh, rOpen, rBuf, ckptVars>>
        BY <2>7 DEF DeleteOutput
      <3>2. MemoryPlan' /\ TmpWithin' /\ HeldGenuine' /\ SidecarWithin'
        BY <1>0, <3>1 DEF DiskInv, MemoryPlan, TmpWithin, HeldGenuine, SidecarWithin, Within, ckptVars
      <3>3. MemorySound' /\ CheckpointSound'
        BY <3>1 DEF MemorySound, CheckpointSound, file_exists
      <3>4. GapsAreFound'
        BY <1>0, <3>1, KeepGaps DEF DiskInv, ckptVars
      <3> QED
        BY <3>2, <3>3, <3>4 DEF DiskInv
    <2> QED
      BY <1>0, <1>2, <2>1, <2>2, <2>3, <2>4, <2>5, <2>6, <2>7,
         ManifestDisk, SaveDisk, PrepareDisk, ChunkDisk, WriteFailDisk, CloseDisk, FlushFailDisk
      DEF ReceiverStep
  <1> QED
    BY <1>1, <1>2 DEF ReceiverFault, budgetVars

-----------------------------------------------------------------------------
(* The streams *)

\* What sender s may put on its stream.
SentBy(s, msg) ==
    /\ ChunkGenuine(msg)
    /\ msg.type = "hash" => msg.hash = sDigest[s] /\ spc[s] = "chunks"

\* How the stream of s may change in one step.
StreamStep(s) ==
    \/ s2r' = [s2r EXCEPT ![s] = <<>>]
    \/ s2r[s] # <<>> /\ s2r' = [s2r EXCEPT ![s] = Tail(@)]
    \/ \E p \in Prefixes(s2r[s]) : s2r' = [s2r EXCEPT ![s] = p]
    \/ \E msg \in ToReceiver : SentBy(s, msg) /\ s2r' = [s2r EXCEPT ![s] = Append(@, msg)]

\* How the streams may change in one step.
StreamsStep ==
    \/ UNCHANGED s2r
    \/ s2r' = [s \in Senders |-> <<>>]
    \/ \E s \in Senders : StreamStep(s)

(* Messages of a kind that holds all that senders send stay of that kind:    *)
(* reading, closing and losing a connection make no new ones.                *)
LEMMA StreamsKeep ==
    ASSUME TypeInv, StreamsStep, NEW G,
           \A s \in Senders : \A k \in 1 .. Len(s2r[s]) : s2r[s][k] \in G,
           \A s \in Senders : \A msg \in ToReceiver : SentBy(s, msg) => msg \in G
    PROVE  \A s \in Senders : \A k \in 1 .. Len(s2r'[s]) : s2r'[s][k] \in G
PROOF
  <1>0. s2r \in [Senders -> Seq(ToReceiver)]
    BY DEF TypeInv, TypeOK, LinkTypeOK
  <1>1. CASE UNCHANGED s2r
    BY <1>1
  <1>2. CASE s2r' = [s \in Senders |-> <<>>]
    BY <1>2
  <1>3. ASSUME NEW s \in Senders, StreamStep(s)
        PROVE  \A t \in Senders : \A k \in 1 .. Len(s2r'[t]) : s2r'[t][k] \in G
    <2>1. CASE s2r' = [s2r EXCEPT ![s] = <<>>]
      BY <1>0, <2>1
    <2>2. CASE s2r[s] # <<>> /\ s2r' = [s2r EXCEPT ![s] = Tail(@)]
      BY <1>0, <2>2
    <2>3. CASE \E p \in Prefixes(s2r[s]) : s2r' = [s2r EXCEPT ![s] = p]
      BY <1>0, <2>3 DEF Prefixes
    <2>4. CASE \E msg \in ToReceiver :
                  SentBy(s, msg) /\ s2r' = [s2r EXCEPT ![s] = Append(@, msg)]
      BY <1>0, <2>4
    <2> QED
      BY <1>3, <2>1, <2>2, <2>3, <2>4 DEF StreamStep
  <1> QED
    BY <1>1, <1>2, <1>3 DEF StreamsStep

(* A chunk message carries the bytes its sender's file has at that place at  *)
(* that moment.                                                              *)
LEMMA SentChunk ==
    ASSUME TypeInv, NEW s \in Senders, SSendChunk(s)
    PROVE  StreamsStep
PROOF
  <1>1. PICK i \in NextOf(sTodo[s]) :
          LET h == NewHeader(sManifest[s], i)
          IN  IF h.byte_offset + h.payload_size <= Len(src[s])
              THEN SendToReceiver(s,
                        [type |-> "chunk", header |-> h,
                         payload |-> ReadAt(src[s], h.byte_offset, h.payload_size)])
              ELSE Return(s, "failed")
    BY DEF SSendChunk
  <1> DEFINE h == NewHeader(sManifest[s], i)
             data == ReadAt(src[s], h.byte_offset, h.payload_size)
             msg == [type |-> "chunk", header |-> h, payload |-> data]
  <1>2. /\ i \in Nat /\ sManifest[s] \in Manifest /\ src[s] \in Contents /\ src[s] \in File
    BY ChunkPlanAssumption
    DEF SSendChunk, NextOf, TypeInv, TypeOK, SndTypeOK, SndShape, File
  <1>3. h \in Header
    BY <1>2, NewHeaderType
  <1>4. CASE h.byte_offset + h.payload_size <= Len(src[s])
    <2> HIDE DEF h
    <2>1. /\ data \in File
          /\ h.payload_size > 0 =>
                /\ Len(data) = h.payload_size
                /\ \A k \in 1 .. h.payload_size : data[k] = src[s][h.byte_offset + k]
      BY <1>2, <1>3, <1>4, ReadAtType DEF Header
    <2> HIDE DEF data
    <2>2. msg \in ToReceiver
      BY <1>3, <2>1 DEF ToReceiver, ChunkMsg
    <2>3. h.payload_size > 0 => Len(data) = h.payload_size /\ Genuine(h.byte_offset, data)
      BY <1>2, <1>4, <2>1 DEF Genuine
    <2>4. SentBy(s, msg)
      BY <2>3 DEF SentBy, ChunkGenuine
    <2>5. SendToReceiver(s, msg)
      BY <1>1, <1>4 DEF h, data
    <2> HIDE DEF msg
    <2> QED
      BY <2>2, <2>4, <2>5 DEF SendToReceiver, StreamsStep, StreamStep
  <1>5. CASE ~(h.byte_offset + h.payload_size <= Len(src[s]))
    <2>1. Return(s, "failed")
      BY <1>1, <1>5
    <2> QED
      BY <2>1 DEF Return, CloseSender, StreamsStep
  <1> QED
    BY <1>4, <1>5

(* Every step changes the streams in one of these ways. *)
LEMMA StreamsChange ==
    ASSUME TypeInv, [Next]_vars
    PROVE  StreamsStep
PROOF
  <1>1. CASE ReceiverStep \/ ReceiverFault
    <2>1. \/ UNCHANGED s2r
          \/ s2r' = [s \in Senders |-> <<>>]
          \/ rpc \in {"manifest", "chunk", "hash"} /\ RecvFromSender
      BY <1>1 DEF ReceiverStep, ReceiverFault, RStart, RAccept, RRecvManifest, RSendRequest,
          RWriteTmp, RWriteTmpShort, RRemoveOld, RRenameTmp, RPrepareOutput, RRecvChunk,
          RCloseStream, RRecvHash, RVerify, RCleanup, RRecvEof, RSendFail, RCallFail,
          RPrepareFail, RWriteFail, RFlushFail, RCleanupFail, RCrash, DeleteOutput, Exit, ForgetRun,
          linkVars, bind_and_listen, accept_client, SendToSender, CloseReceiver
    <2>2. rpc \in {"manifest", "chunk", "hash"} => client \in Senders
      BY DEF TypeInv, RcvShape
    <2> QED
      BY <2>1, <2>2 DEF StreamsStep, StreamStep, RecvFromSender
  <1>2. ASSUME NEW s \in Senders, SenderStep(s) PROVE StreamsStep
    <2>1. CASE SStart(s) \/ SDigest(s) \/ SConnectRefused(s) \/ SRecvRequest(s) \/ SLinkFail(s)
      BY <2>1 DEF SStart, SDigest, SConnectRefused, SRecvRequest, SLinkFail, Return,
          RecvFromReceiver, CloseSender, linkVars, StreamsStep
    <2>2. CASE SConnect(s)
      BY <2>2 DEF SConnect, Connect, StreamsStep, StreamStep
    <2>3. CASE SSendManifest(s)
      <3> DEFINE msg == [type |-> "manifest", manifest |-> sManifest[s]]
      <3>1. msg \in ToReceiver /\ SentBy(s, msg) /\ SendToReceiver(s, msg)
        BY <2>3
        DEF SSendManifest, TypeInv, SndShape, ToReceiver, ManifestMsg, SentBy, ChunkGenuine
      <3> HIDE DEF msg
      <3> QED
        BY <3>1 DEF SendToReceiver, StreamsStep, StreamStep
    <2>4. CASE SSendHash(s)
      <3> DEFINE msg == [type |-> "hash", hash |-> sDigest[s]]
      <3>1. sDigest[s] \in Digest /\ spc[s] = "chunks"
        BY <2>4 DEF SSendHash, TypeInv, SndShape
      <3>2. msg \in ToReceiver /\ SentBy(s, msg)
        BY <3>1 DEF ToReceiver, HashMsg, SentBy, ChunkGenuine
      <3>3. UNCHANGED s2r \/ s2r' = [s2r EXCEPT ![s] = Append(@, msg)]
        BY <2>4 DEF SSendHash
      <3> HIDE DEF msg
      <3> QED
        BY <3>2, <3>3 DEF StreamsStep, StreamStep
    <2> QED
      BY <1>2, <2>1, <2>2, <2>3, <2>4, SentChunk DEF SenderStep
  <1>3. ASSUME NEW s \in Senders, LinkFault(s) \/ SenderFault(s) PROVE StreamsStep
    BY <1>3 DEF LinkFault, LoseConnection, SenderFault, SCallFail, Return, CloseSender, SCrash, ResetBySender,
        StreamsStep, StreamStep
  <1>4. CASE Edit
    BY <1>4 DEF Edit, EditSource, linkVars, StreamsStep
  <1>5. CASE UNCHANGED vars
    BY <1>5 DEF vars, linkVars, StreamsStep
  <1> QED
    BY <1>1, <1>2, <1>3, <1>4, <1>5 DEF Next, Fault

-----------------------------------------------------------------------------
(* Checkpoints are sound *)

(* The invariant holds initially: the sidecar that is found is sound. *)
LEMMA SafetyInit == Init => SafetyInv
PROOF
  <1> SUFFICES ASSUME Init PROVE SafetyInv
    OBVIOUS
  <1>1. MemoryPlan /\ MemorySound /\ TmpWithin /\ SidecarWithin /\ HeldGenuine
    BY DEF Init, RcvInit, MemoryPlan, MemorySound, TmpWithin, SidecarWithin, HeldGenuine
  <1>2. GapsAreFound /\ CheckpointSound
    <2>1. Ahead(Absent) = {}
      BY DEF Ahead, Loadable
    <2> QED
      BY <2>1 DEF Init, RcvInit, CkptInit, GapsAreFound
  <1>3. StreamsGenuine
    BY DEF Init, LinkInit, StreamsGenuine
  <1> QED
    BY <1>1, <1>2, <1>3 DEF SafetyInv, DiskInv

(* Every step keeps it. *)
LEMMA SafetyStep == TypeInv /\ SafetyInv /\ [Next]_vars => SafetyInv'
PROOF
  <1> SUFFICES ASSUME TypeInv, SafetyInv, [Next]_vars PROVE SafetyInv'
    OBVIOUS
  <1>1. StreamsGenuine'
    <2> DEFINE G == {msg \in ToReceiver : ChunkGenuine(msg)}
    <2>1. \A s \in Senders : \A k \in 1 .. Len(s2r[s]) : s2r[s][k] \in G
      BY DEF SafetyInv, StreamsGenuine, TypeInv, TypeOK, LinkTypeOK
    <2>2. \A s \in Senders : \A msg \in ToReceiver : SentBy(s, msg) => msg \in G
      BY DEF SentBy
    <2>3. StreamsStep
      BY StreamsChange
    <2> HIDE DEF G
    <2>4. \A s \in Senders : \A k \in 1 .. Len(s2r'[s]) : s2r'[s][k] \in G
      BY <2>1, <2>2, <2>3, StreamsKeep
    <2> QED
      BY <2>4 DEF G, StreamsGenuine
  <1>2. CASE ((ReceiverStep /\ UNCHANGED budgetVars) \/ ReceiverFault) /\ found' = found
    BY <1>1, <1>2, ReceiverDisk DEF SafetyInv
  <1>3. CASE UNCHANGED <<rcvVars, ckptVars, found, madeUp>>
    <2>1. DiskInv'
      <3>1. MemoryPlan' /\ MemorySound' /\ TmpWithin' /\ SidecarWithin' /\ HeldGenuine'
        BY <1>3 DEF SafetyInv, DiskInv, MemoryPlan, MemorySound, TmpWithin, SidecarWithin,
            HeldGenuine, Within, SoundFor, rcvVars, ckptVars
      <3>2. GapsAreFound' /\ CheckpointSound'
        BY <1>3 DEF SafetyInv, DiskInv, GapsAreFound, CheckpointSound, SoundFor, rcvVars, ckptVars
      <3> QED
        BY <3>1, <3>2 DEF DiskInv
    <2> QED
      BY <1>1, <2>1 DEF SafetyInv
  <1> QED
    BY <1>2, <1>3
    DEF Next, ReceiverStep, SenderStep, Fault, LinkFault, SenderFault, Edit, vars, budgetVars,
        rcvVars, ckptVars

(* What the run knows in memory, what .tmp and the sidecar claim, what the   *)
(* stream holds and what is on its way agree with the output file in every   *)
(* reachable state, whatever crashes, cuts, losses and edits happen.         *)
THEOREM SafetyInvariant == Spec => []SafetyInv
PROOF
  <1>1. Init => TypeInv /\ SafetyInv
    BY TypeInit, SafetyInit
  <1>2. TypeInv /\ SafetyInv /\ [Next]_vars => (TypeInv /\ SafetyInv)'
    BY TypeStep, SafetyStep
  <1> QED
    BY <1>1, <1>2, PTL DEF Spec

(* Whatever crashes, cuts, losses and edits happen, and whoever sends: the   *)
(* sidecar beside an existing output file never lists a chunk that bypasses  *)
(* the stream buffer and is not on disk, unless a full disk has cut the list *)
(* of a transfer that began with a gap in it.                                *)
THEOREM CheckpointsAreSound == Spec => []CheckpointSound
PROOF
  <1>1. SafetyInv => CheckpointSound
    BY DEF SafetyInv, DiskInv
  <1> QED
    BY <1>1, SafetyInvariant, PTL

(* Whatever sidecar a transfer starts from, no list of completed chunks in   *)
(* memory, in the sidecar or in .tmp gets a gap that was not found there at  *)
(* first, and a list that a full disk cuts short claims nothing new unless   *)
(* the first one had a gap.                                                  *)
THEOREM GapsAreOnlyFound == Spec => []GapsAreFound
PROOF
  <1>1. SafetyInv => GapsAreFound
    BY DEF SafetyInv, DiskInv
  <1> QED
    BY <1>1, SafetyInvariant, PTL

-----------------------------------------------------------------------------
(* A file read in pieces *)

(* A piece is what the file has there: ReadSize bytes, or fewer at its end.  *)
LEMMA PieceType ==
    ASSUME NEW f \in File, NEW n \in Nat
    PROVE  /\ Piece(f, n) \in File
           /\ Len(Piece(f, n)) =
                 IF Len(f) - n * ReadSize < 0 THEN 0
                 ELSE IF Len(f) - n * ReadSize < ReadSize THEN Len(f) - n * ReadSize
                 ELSE ReadSize
           /\ \A k \in 1 .. Len(Piece(f, n)) : Piece(f, n)[k] = f[n * ReadSize + k]
PROOF
  <1> DEFINE o == n * ReadSize
  <1>1. o \in Nat /\ ReadSize \in Nat
    BY ChunkPlanAssumption
  <1>2. Piece(f, n) = ReadUpTo(f, o, ReadSize)
    BY DEF Piece
  <1> HIDE DEF o
  <1> DEFINE p == ReadUpTo(f, o, ReadSize)
  <1>3. /\ p \in File
        /\ Len(p) = IF Len(f) - o < 0 THEN 0
                    ELSE IF Len(f) - o < ReadSize THEN Len(f) - o ELSE ReadSize
        /\ \A k \in 1 .. Len(p) : p[k] = f[o + k]
    BY <1>1, ReadUpToType, Zenon
  <1> QED
    BY <1>2, <1>3 DEF o

(* Two files have the same piece where its bytes are the same in both. *)
LEMMA SamePiece ==
    ASSUME NEW f \in File, NEW g \in File, NEW n \in Nat,
           Len(Piece(f, n)) = Len(Piece(g, n)),
           \A k \in 1 .. Len(Piece(f, n)) : f[n * ReadSize + k] = g[n * ReadSize + k]
    PROVE  Piece(f, n) = Piece(g, n)
PROOF
  <1> DEFINE o == n * ReadSize
             p == Piece(f, n)
             q == Piece(g, n)
  <1>1. /\ p \in File /\ q \in File
        /\ \A k \in 1 .. Len(p) : p[k] = f[o + k]
        /\ \A k \in 1 .. Len(q) : q[k] = g[o + k]
    BY PieceType
  <1>2. Len(p) = Len(q) /\ \A k \in 1 .. Len(p) : f[o + k] = g[o + k]
    OBVIOUS
  <1> HIDE DEF o, p, q
  <1>3. p = q
    BY <1>1, <1>2, SeqEqual DEF File
  <1> QED
    BY <1>3 DEF p, q

(* A number of whole pieces has at least as many bytes. *)
LEMMA PiecesHaveBytes ==
    ASSUME NEW n \in Nat
    PROVE  n * ReadSize \in Nat /\ n <= n * ReadSize
PROOF
  <1>1. PICK d \in Nat : ReadSize = 1 + d
    BY ChunkPlanAssumption, SMT
  <1>2. n * ReadSize = n + n * d
    BY <1>1, SMT
  <1>3. n * d \in Nat
    BY SMT
  <1> QED
    BY <1>2, <1>3, SMT

(* A read that gets a whole piece adds it to the pieces read; one that gets  *)
(* less completes a file all of whose pieces are those of a known content.   *)
LEMMA PieceRead ==
    ASSUME NEW V \in SUBSET File, NEW f \in V, NEW got \in File, NEW n \in Nat,
           Len(got) = n * ReadSize,
           \A m \in 0 .. n - 1 : \E b \in V : Piece(got, m) = Piece(b, m)
    PROVE  LET piece == ReadUpTo(f, Len(got), ReadSize)
               all   == got \o piece
           IN  /\ all \in File
               /\ Len(piece) >= ReadSize =>
                     /\ Len(all) = (n + 1) * ReadSize
                     /\ \A m \in 0 .. n : \E b \in V : Piece(all, m) = Piece(b, m)
               /\ Len(piece) < ReadSize => InPieces(all, V)
PROOF
  <1> DEFINE o     == n * ReadSize
             piece == Piece(f, n)
             all   == got \o piece
  <1>1. ReadSize \in Nat /\ ReadSize > 0 /\ f \in File
    BY ChunkPlanAssumption
  <1>2. o \in Nat /\ Len(got) = o
    BY PiecesHaveBytes
  <1>3. /\ piece \in File
        /\ Len(piece) = IF Len(f) - o < 0 THEN 0
                        ELSE IF Len(f) - o < ReadSize THEN Len(f) - o ELSE ReadSize
        /\ \A k \in 1 .. Len(piece) : piece[k] = f[o + k]
    BY <1>1, PieceType
  <1> HIDE DEF o
  <1>4. /\ Len(piece) \in Nat /\ Len(f) \in Nat
        /\ Len(piece) <= ReadSize
        /\ Len(piece) > 0 => o + Len(piece) <= Len(f)
        /\ Len(piece) < ReadSize => Len(f) <= o + Len(piece)
    BY <1>1, <1>2, <1>3 DEF File
  <1>5. (n + 1) * ReadSize = o + ReadSize
    BY <1>1, SMT DEF o
  <1> HIDE DEF piece
  <1>6. /\ all \in File
        /\ Len(all) = o + Len(piece)
        /\ \A k \in 1 .. o + Len(piece) : all[k] = IF k <= o THEN got[k] ELSE piece[k - o]
    BY <1>2, <1>3, ConcatProperties DEF File
  <1> HIDE DEF all
  <1>7. \A m \in 0 .. n - 1 : \E b \in V : Piece(all, m) = Piece(b, m)
    <2> TAKE m \in 0 .. n - 1
    <2>1. m \in Nat /\ m < n
      OBVIOUS
    <2> DEFINE om == m * ReadSize
    <2>2. om \in Nat /\ om + ReadSize <= o
      BY <1>1, <2>1, Multiples, PiecesHaveBytes DEF o
    <2> HIDE DEF om
    <2>3. Len(Piece(all, m)) = ReadSize /\ Len(Piece(got, m)) = ReadSize
      <3> USE DEF om
      <3>1. /\ Len(Piece(all, m)) =
                  IF Len(all) - om < 0 THEN 0
                  ELSE IF Len(all) - om < ReadSize THEN Len(all) - om ELSE ReadSize
            /\ Len(Piece(got, m)) =
                  IF Len(got) - om < 0 THEN 0
                  ELSE IF Len(got) - om < ReadSize THEN Len(got) - om ELSE ReadSize
        BY <1>6, <2>1, PieceType
      <3> HIDE DEF om
      <3> QED
        BY <1>1, <1>2, <1>4, <1>6, <2>2, <3>1
    <2>4. \A k \in 1 .. ReadSize : all[om + k] = got[om + k]
      BY <1>1, <1>2, <1>4, <1>6, <2>2
    <2>5. Len(Piece(all, m)) = Len(Piece(got, m))
      BY <2>3
    <2>6. \A k \in 1 .. Len(Piece(all, m)) : all[om + k] = got[om + k]
      BY <2>3, <2>4
    <2>7. Piece(all, m) = Piece(got, m)
      BY <1>6, <2>1, <2>5, <2>6, SamePiece, Zenon DEF om
    <2> QED
      BY <2>7
  <1>8. Piece(all, n) = Piece(f, n)
    <2>1. Len(Piece(all, n)) = IF Len(all) - o < 0 THEN 0
                               ELSE IF Len(all) - o < ReadSize THEN Len(all) - o ELSE ReadSize
      BY <1>6, PieceType DEF o
    <2>2. Len(Piece(all, n)) = Len(piece)
      BY <1>1, <1>2, <1>4, <1>6, <2>1
    <2>3. \A k \in 1 .. Len(piece) : all[o + k] = f[o + k]
      BY <1>2, <1>3, <1>4, <1>6
    <2> QED
      BY <1>1, <1>6, <2>2, <2>3, SamePiece, Zenon DEF o, piece
  <1>9. ASSUME Len(piece) < ReadSize, NEW m \in Nat, n < m
        PROVE  Piece(all, m) = Piece(f, m)
    <2> DEFINE om == m * ReadSize
    <2>1. om \in Nat /\ o + ReadSize <= om
      BY <1>1, <1>9, Multiples, PiecesHaveBytes DEF o
    <2> HIDE DEF om
    <2>2. Len(all) < om /\ Len(f) < om
      BY <1>1, <1>2, <1>4, <1>6, <1>9, <2>1
    <2>3. Len(Piece(all, m)) = 0 /\ Len(Piece(f, m)) = 0
      BY <1>1, <1>4, <1>6, <2>1, <2>2, PieceType DEF om
    <2>4. /\ Len(Piece(all, m)) = Len(Piece(f, m))
          /\ \A k \in 1 .. Len(Piece(all, m)) : all[m * ReadSize + k] = f[m * ReadSize + k]
      BY <2>3
    <2> QED
      BY <1>1, <1>6, <1>9, <2>4, SamePiece, Zenon
  <1>10. Len(piece) >= ReadSize =>
            /\ Len(all) = (n + 1) * ReadSize
            /\ \A m \in 0 .. n : \E b \in V : Piece(all, m) = Piece(b, m)
    BY <1>1, <1>4, <1>5, <1>6, <1>7, <1>8
  <1>11. Len(piece) < ReadSize => InPieces(all, V)
    <2> SUFFICES ASSUME Len(piece) < ReadSize, NEW m \in 0 .. Len(all)
                 PROVE  \E b \in V : Piece(all, m) = Piece(b, m)
      BY DEF InPieces
    <2>1. m \in Nat /\ (m \in 0 .. n - 1 \/ m = n \/ n < m)
      BY <1>6
    <2> QED
      BY <1>7, <1>8, <1>9, <2>1
  <1>12. piece = ReadUpTo(f, Len(got), ReadSize)
    BY DEF piece, Piece
  <1> QED
    BY <1>6, <1>10, <1>11, <1>12 DEF all

(* Reading on from a prefix of a file gets a longer one, or the whole file.  *)
LEMMA PrefixRead ==
    ASSUME NEW f \in File, NEW got \in File, Len(got) <= Len(f),
           \A k \in 1 .. Len(got) : got[k] = f[k]
    PROVE  LET piece == ReadUpTo(f, Len(got), ReadSize)
               all   == got \o piece
           IN  /\ Len(all) <= Len(f)
               /\ \A k \in 1 .. Len(all) : all[k] = f[k]
               /\ Len(piece) < ReadSize => all = f
PROOF
  <1> DEFINE o     == Len(got)
             piece == ReadUpTo(f, o, ReadSize)
             all   == got \o piece
  <1>1. ReadSize \in Nat /\ o \in Nat /\ Len(f) \in Nat /\ o <= Len(f)
    BY ChunkPlanAssumption DEF File
  <1> HIDE DEF o
  <1>2. /\ piece \in File
        /\ Len(piece) = IF Len(f) - o < 0 THEN 0
                        ELSE IF Len(f) - o < ReadSize THEN Len(f) - o ELSE ReadSize
        /\ \A k \in 1 .. Len(piece) : piece[k] = f[o + k]
    BY <1>1, ReadUpToType, Zenon
  <1> HIDE DEF piece
  <1> USE DEF o
  <1>3. /\ all \in File
        /\ Len(all) = o + Len(piece)
        /\ \A k \in 1 .. o + Len(piece) : all[k] = IF k <= o THEN got[k] ELSE piece[k - o]
    BY <1>2, ConcatProperties DEF File
  <1> HIDE DEF all
  <1>4. Len(all) <= Len(f) /\ \A k \in 1 .. Len(all) : all[k] = f[k]
    BY <1>1, <1>2, <1>3
  <1>5. Len(piece) < ReadSize => all = f
    BY <1>1, <1>2, <1>3, <1>4, SeqEqual DEF File
  <1> QED
    BY <1>4, <1>5 DEF piece, all, o

-----------------------------------------------------------------------------
(* Verified files are sent files *)

(* The invariant holds initially: nothing is verified yet. *)
LEMMA VerifyInit == Init => VerifyInv
PROOF
  <1> SUFFICES ASSUME Init PROVE VerifyInv
    OBVIOUS
  <1>1. \A s \in Senders : src[s] \in versions[s] /\ s2r[s] = <<>> /\ spc[s] = "off"
    BY DEF Init, LinkInit, SndInit
  <1>2. rpc = "off" /\ rResult = "none"
    BY DEF Init, RcvInit
  <1>3. DigestsGenuine
    BY <1>1, <1>2 DEF DigestsGenuine
  <1> QED
    BY <1>2, <1>3 DEF VerifyInv, VerifiedIsSource

(* No version of a file is forgotten, and a file that nobody has edited is   *)
(* what it always was.                                                       *)
LEMMA PastGrows ==
    ASSUME TypeInv, \A s \in Senders : src[s] \in versions[s], [Next]_vars
    PROVE  /\ \A s \in Senders : versions[s] \subseteq versions'[s] /\ src'[s] \in versions'[s]
           /\ edits' = 0 => edits = 0 /\ src' = src
PROOF
  <1>0. /\ src \in [Senders -> Contents] /\ versions \in [Senders -> SUBSET Contents]
        /\ edits \in Nat
    BY TransferAssumption DEF TypeInv, TypeOK, SndTypeOK, BudgetTypeOK
  <1>1. CASE Edit
    BY <1>0, <1>1 DEF Edit, EditSource
  <1>2. CASE ReceiverStep \/ Fault \/ UNCHANGED vars
    <2>1. UNCHANGED <<src, versions, edits>>
      BY <1>2 DEF ReceiverStep, Fault, ReceiverFault, LinkFault, SenderFault, SCallFail, SCrash,
          Return, ForgetSend, vars, sndVars, budgetVars
    <2> QED
      BY <2>1
  <1>3. ASSUME NEW s \in Senders, SenderStep(s) PROVE UNCHANGED <<src, versions, edits>>
    <2>1. UNCHANGED <<versions, edits>>
      BY <1>3 DEF SenderStep, budgetVars
    <2>2. UNCHANGED src
      BY <1>3 DEF SenderStep, SStart, SDigest, SConnect, SConnectRefused, SSendManifest,
          SRecvRequest, SSendChunk, SSendHash, SLinkFail, Return, ForgetSend
    <2> QED
      BY <2>1, <2>2
  <1> QED
    BY <1>1, <1>2, <1>3 DEF Next

(* What a digest says of a sender's file stays true when the file is edited. *)
LEMMA DigestsLast ==
    ASSUME TypeInv, \A s \in Senders : src[s] \in versions[s], [Next]_vars
    PROVE  \A s \in Senders : \A d :
              DigestOf(s, d) =>
                 /\ InPieces(d.sha256, versions'[s])
                 /\ edits' = 0 => d.sha256 = src'[s]
PROOF
  <1>1. /\ \A s \in Senders : versions[s] \subseteq versions'[s]
        /\ edits' = 0 => edits = 0 /\ src' = src
    BY PastGrows
  <1>2. \A s \in Senders : \A f : InPieces(f, versions[s]) => InPieces(f, versions'[s])
    BY <1>1, Zenon DEF InPieces
  <1> QED
    BY <1>1, <1>2, Zenon DEF DigestOf

(* So does what a sender that is hashing knows of the pieces it has read.    *)
LEMMA ReadingLasts ==
    ASSUME TypeInv, DigestsGenuine, [Next]_vars, NEW s \in Senders,
           spc[s] = "digest", sDigest'[s] = sDigest[s]
    PROVE  \E n \in 0 .. Len(sDigest'[s].sha256) : ReadSoFar(s, n)'
PROOF
  <1>1. /\ versions[s] \subseteq versions'[s]
        /\ edits' = 0 => edits = 0 /\ src' = src
    BY PastGrows DEF DigestsGenuine
  <1>2. PICK n \in 0 .. Len(sDigest[s].sha256) : ReadSoFar(s, n)
    BY DEF DigestsGenuine
  <1> DEFINE got == sDigest[s].sha256
  <1>3. \A m \in 0 .. n - 1 : \E b \in versions'[s] : Piece(got, m) = Piece(b, m)
    BY <1>1, <1>2, Zenon DEF ReadSoFar
  <1>4. /\ Len(got) = n * ReadSize
        /\ edits' = 0 => Len(got) <= Len(src'[s]) /\ \A k \in 1 .. Len(got) : got[k] = src'[s][k]
    BY <1>1, <1>2, Zenon DEF ReadSoFar
  <1>5. ReadSoFar(s, n)'
    BY <1>3, <1>4 DEF ReadSoFar
  <1> QED
    BY <1>2, <1>5

(* One read of sha256_file adds a piece that the file has now; the last one  *)
(* leaves the digest of a file each of whose pieces was there when it was    *)
(* read.                                                                     *)
LEMMA ReadsOn ==
    ASSUME TypeInv, DigestsGenuine, NEW t \in Senders, SDigest(t), UNCHANGED <<versions, edits>>
    PROVE  /\ spc'[t] = "digest" => \E n \in 0 .. Len(sDigest'[t].sha256) : ReadSoFar(t, n)'
           /\ spc'[t] # "digest" => DigestOf(t, sDigest[t])'
PROOF
  <1> DEFINE got   == sDigest[t].sha256
             f     == src[t]
             V     == versions[t]
             piece == ReadUpTo(f, Len(got), ReadSize)
             all   == got \o piece
  <1>0. spc[t] = "digest" /\ sDigest[t] \in Digest
    BY DEF SDigest, TypeInv, SndShape
  <1>1. got \in File /\ V \in SUBSET File /\ f \in V /\ f \in File
    <2>1. got \in File
      BY <1>0 DEF Digest
    <2>2. Contents \subseteq File /\ V \in SUBSET Contents /\ f \in V
      BY ChunkPlanAssumption DEF DigestsGenuine, TypeInv, TypeOK, BudgetTypeOK, File
    <2> QED
      BY <2>1, <2>2
  <1>2. /\ sDigest'[t].sha256 = all
        /\ spc'[t] = IF Len(piece) < ReadSize THEN "connect" ELSE "digest"
        /\ src' = src
    BY DEF SDigest, Goto, Sha256, TypeInv, TypeOK, SndTypeOK
  <1>3. PICK n \in 0 .. Len(got) : ReadSoFar(t, n)
    BY <1>0 DEF DigestsGenuine
  <1>4. n \in Nat /\ Len(got) = n * ReadSize
    BY <1>3 DEF ReadSoFar
  <1>5. \A m \in 0 .. n - 1 : \E b \in V : Piece(got, m) = Piece(b, m)
    BY <1>3 DEF ReadSoFar
  <1>6. edits = 0 => Len(got) <= Len(f) /\ \A k \in 1 .. Len(got) : got[k] = f[k]
    BY <1>3 DEF ReadSoFar
  <1> HIDE DEF got, f, V
  <1>7. /\ all \in File
        /\ Len(piece) >= ReadSize =>
              /\ Len(all) = (n + 1) * ReadSize
              /\ \A m \in 0 .. n : \E b \in V : Piece(all, m) = Piece(b, m)
        /\ Len(piece) < ReadSize => InPieces(all, V)
    BY <1>1, <1>4, <1>5, PieceRead
  <1>8. edits = 0 =>
           /\ Len(all) <= Len(f)
           /\ \A k \in 1 .. Len(all) : all[k] = f[k]
           /\ Len(piece) < ReadSize => all = f
    BY <1>1, <1>6, PrefixRead
  <1>9. Len(piece) \in Nat /\ ReadSize \in Nat
    BY <1>1, <1>4, PiecesHaveBytes, ReadUpToType, ChunkPlanAssumption DEF File
  <1> HIDE DEF all, piece
  <1>10. CASE Len(piece) < ReadSize
    <2>1. DigestOf(t, sDigest[t])'
      BY <1>2, <1>7, <1>8, <1>10 DEF DigestOf, f, V
    <2> QED
      BY <1>2, <1>10, <2>1
  <1>11. CASE ~(Len(piece) < ReadSize)
    <2>1. Len(all) = (n + 1) * ReadSize /\ n + 1 \in 0 .. Len(all)
      BY <1>4, <1>7, <1>9, <1>11, PiecesHaveBytes
    <2>2. \A m \in 0 .. (n + 1) - 1 : \E b \in V : Piece(all, m) = Piece(b, m)
      BY <1>4, <1>7, <1>9, <1>11
    <2>3. ReadSoFar(t, n + 1)'
      BY <1>2, <1>8, <2>1, <2>2 DEF ReadSoFar, f, V
    <2> QED
      BY <1>2, <1>11, <2>1, <2>3
  <1> QED
    BY <1>10, <1>11

(* How a step of sender t leaves its digest. *)
LEMMA DigestOfSender ==
    ASSUME TypeInv, NEW t \in Senders, SenderStep(t) \/ SenderFault(t)
    PROVE  \/ ForgetSend(t, sResult'[t])
           \/ Goto(t, "digest") /\ sDigest' = [sDigest EXCEPT ![t] = Sha256(<<>>)]
           \/ SDigest(t) /\ UNCHANGED <<versions, edits>>
           \/ /\ spc[t] \notin {"off", "digest"}
              /\ UNCHANGED sDigest
              /\ \E pc \in SndPc \ {"digest"} : Goto(t, pc)
PROOF
  <1>1. spc \in [Senders -> SndPc] /\ sResult \in [Senders -> SndResult]
    BY DEF TypeInv, TypeOK, SndTypeOK
  <1>2. \A result : ForgetSend(t, result) => ForgetSend(t, sResult'[t])
    BY <1>1 DEF ForgetSend
  <1>3. UNCHANGED spc => Goto(t, spc[t])
    BY <1>1 DEF Goto
  <1>4. CASE SSendChunk(t)
    BY <1>1, <1>2, <1>3, <1>4 DEF SSendChunk, Return
  <1>5. CASE SRecvRequest(t)
    BY <1>2, <1>5 DEF SRecvRequest, Return, SndPc
  <1>6. CASE SStart(t) \/ SConnect(t) \/ SSendManifest(t)
    BY <1>6 DEF SStart, SConnect, SSendManifest, SndPc
  <1>7. CASE SConnectRefused(t) \/ SSendHash(t) \/ SLinkFail(t) \/ SCallFail(t) \/ SCrash(t)
    BY <1>2, <1>7 DEF SConnectRefused, SSendHash, SLinkFail, SCallFail, SCrash, Return
  <1>8. CASE SDigest(t) /\ SenderStep(t)
    BY <1>8 DEF SenderStep, budgetVars
  <1> QED
    BY <1>4, <1>5, <1>6, <1>7, <1>8 DEF SenderStep, SenderFault

(* Every step keeps the digests genuine. *)
LEMMA DigestsStep ==
    ASSUME TypeInv, VerifyInv, [Next]_vars
    PROVE  DigestsGenuine'
PROOF
  <1>0. DigestsGenuine
    BY DEF VerifyInv
  <1>1. \A s \in Senders : \A d :
           DigestOf(s, d) =>
              /\ InPieces(d.sha256, versions'[s])
              /\ edits' = 0 => d.sha256 = src'[s]
    BY <1>0, DigestsLast DEF DigestsGenuine
  <1>2. \A d : OfSource(d) =>
           \E s \in Senders :
              /\ InPieces(d.sha256, versions'[s])
              /\ edits' = 0 => d.sha256 = src'[s]
    BY <1>1, Zenon DEF OfSource
  <1>3. (\A s \in Senders : src[s] \in versions[s])'
    BY <1>0, PastGrows DEF DigestsGenuine
  <1>4. (\A s \in Senders : \A k \in 1 .. Len(s2r[s]) :
           s2r[s][k].type = "hash" => OfSource(s2r[s][k].hash))'
    <2> DEFINE G == {msg \in ToReceiver : msg.type = "hash" => OfSource(msg.hash)}
    <2>1. \A s \in Senders : \A k \in 1 .. Len(s2r[s]) : s2r[s][k] \in G
      BY <1>0 DEF DigestsGenuine, TypeInv, TypeOK, LinkTypeOK
    <2>2. \A s \in Senders : \A msg \in ToReceiver : SentBy(s, msg) => msg \in G
      BY <1>0, Zenon DEF SentBy, DigestsGenuine, OfSource
    <2>3. StreamsStep
      BY StreamsChange
    <2> HIDE DEF G
    <2>4. \A s \in Senders : \A k \in 1 .. Len(s2r'[s]) : s2r'[s][k] \in G
      BY <2>1, <2>2, <2>3, StreamsKeep
    <2>5. \A s \in Senders : \A k \in 1 .. Len(s2r'[s]) :
             s2r'[s][k].type = "hash" => OfSource(s2r'[s][k].hash)
      BY <2>4 DEF G
    <2> QED
      BY <1>2, <2>5, Zenon DEF OfSource, DigestOf
  <1>5. /\ (\A s \in Senders : spc[s] = "digest" =>
              \E n \in 0 .. Len(sDigest[s].sha256) : ReadSoFar(s, n))'
        /\ (\A s \in Senders : spc[s] \notin {"off", "digest"} => DigestOf(s, sDigest[s]))'
    <2>1. ASSUME NEW s \in Senders, spc'[s] = spc[s], sDigest'[s] = sDigest[s]
          PROVE  /\ spc'[s] = "digest" =>
                       \E n \in 0 .. Len(sDigest'[s].sha256) : ReadSoFar(s, n)'
                 /\ spc'[s] \notin {"off", "digest"} => DigestOf(s, sDigest[s])'
      <3>1. spc[s] \notin {"off", "digest"} => DigestOf(s, sDigest[s])
        BY <1>0 DEF DigestsGenuine
      <3>2. spc'[s] \notin {"off", "digest"} => DigestOf(s, sDigest[s])'
        BY <1>1, <2>1, <3>1 DEF DigestOf
      <3>3. spc'[s] = "digest" => \E n \in 0 .. Len(sDigest'[s].sha256) : ReadSoFar(s, n)'
        BY <1>0, <2>1, ReadingLasts
      <3> QED
        BY <3>2, <3>3
    <2>2. CASE UNCHANGED <<spc, sDigest>>
      BY <2>1, <2>2
    <2>3. ASSUME NEW t \in Senders, SenderStep(t) \/ SenderFault(t), NEW s \in Senders
          PROVE  /\ spc'[s] = "digest" =>
                       \E n \in 0 .. Len(sDigest'[s].sha256) : ReadSoFar(s, n)'
                 /\ spc'[s] \notin {"off", "digest"} => DigestOf(s, sDigest[s])'
      <3>1. \/ ForgetSend(t, sResult'[t])
            \/ Goto(t, "digest") /\ sDigest' = [sDigest EXCEPT ![t] = Sha256(<<>>)]
            \/ SDigest(t) /\ UNCHANGED <<versions, edits>>
            \/ /\ spc[t] \notin {"off", "digest"}
               /\ UNCHANGED sDigest
               /\ \E pc \in SndPc \ {"digest"} : Goto(t, pc)
        BY <2>3, DigestOfSender
      <3>2. /\ spc \in [Senders -> SndPc]
            /\ sDigest \in [Senders -> Digest \cup {Absent}]
        BY DEF TypeInv, TypeOK, SndTypeOK
      <3>3. CASE s # t
        <4>1. spc'[s] = spc[s] /\ sDigest'[s] = sDigest[s]
          BY <3>1, <3>2, <3>3 DEF ForgetSend, Goto, SDigest
        <4> QED
          BY <2>1, <4>1
      <3>4. CASE s = t /\ ForgetSend(t, sResult'[t])
        BY <3>2, <3>4 DEF ForgetSend, Goto
      <3>5. CASE /\ s = t
                 /\ Goto(t, "digest") /\ sDigest' = [sDigest EXCEPT ![t] = Sha256(<<>>)]
        <4>1. spc'[s] = "digest" /\ sDigest'[s].sha256 = <<>>
          BY <3>2, <3>5 DEF Goto, Sha256
        <4>2. src'[s] \in File
          BY <1>3, TypeStep, ChunkPlanAssumption DEF TypeInv, TypeOK, SndTypeOK, File
        <4>3. ReadSoFar(s, 0)'
          BY <4>1, <4>2, ChunkPlanAssumption DEF ReadSoFar, File
        <4>4. 0 \in 0 .. Len(sDigest'[s].sha256)
          BY <4>1
        <4> QED
          BY <4>1, <4>3, <4>4
      <3>6. CASE s = t /\ SDigest(t) /\ UNCHANGED <<versions, edits>>
        BY <1>0, <3>6, ReadsOn
      <3>7. CASE /\ s = t
                 /\ spc[t] \notin {"off", "digest"}
                 /\ UNCHANGED sDigest
                 /\ \E pc \in SndPc \ {"digest"} : Goto(t, pc)
        <4>1. DigestOf(s, sDigest[s]) /\ spc'[s] # "digest"
          BY <1>0, <3>2, <3>7 DEF DigestsGenuine, Goto
        <4>2. DigestOf(s, sDigest[s])'
          BY <1>1, <3>7, <4>1 DEF DigestOf
        <4> QED
          BY <4>1, <4>2
      <3> QED
        BY <3>1, <3>3, <3>4, <3>5, <3>6, <3>7
    <2>4. \/ UNCHANGED <<spc, sDigest>>
          \/ \E t \in Senders : SenderStep(t) \/ SenderFault(t)
      BY DEF Next, ReceiverStep, Fault, ReceiverFault, LinkFault, Edit, EditSource, vars, sndVars
    <2> QED
      BY <2>2, <2>3, <2>4
  <1>6. (rpc \in {"verify", "cleanup"} => OfSource(rHash))'
    <2>1. CASE OfSource(rHash) /\ UNCHANGED rHash
      BY <1>2, <2>1, Zenon DEF OfSource, DigestOf
    <2>2. CASE UNCHANGED rcvVars
      BY <1>0, <2>1, <2>2 DEF rcvVars, DigestsGenuine
    <2>3. CASE RRecvHash
      <3> DEFINE msg == Head(s2r[client])
      <3>1. client \in Senders /\ s2r[client] \in Seq(ToReceiver) /\ s2r[client] # <<>>
        BY <2>3 DEF RRecvHash, TypeInv, TypeOK, LinkTypeOK, RcvShape
      <3>2. msg = s2r[client][1] /\ 1 \in 1 .. Len(s2r[client])
        BY <3>1
      <3>3. msg.type = "hash" => OfSource(msg.hash)
        BY <1>0, <3>1, <3>2 DEF DigestsGenuine
      <3>4. CASE msg.type = "hash"
        <4>1. rHash' = msg.hash
          BY <2>3, <3>4 DEF RRecvHash
        <4> QED
          BY <1>2, <3>3, <3>4, <4>1, Zenon DEF OfSource, DigestOf
      <3>5. CASE msg.type # "hash"
        BY <2>3, <3>5 DEF RRecvHash, Exit, ForgetRun
      <3> QED
        BY <3>4, <3>5
    <2>4. CASE RVerify
      <3>1. rpc = "verify" /\ (UNCHANGED rHash \/ rpc' = "off")
        BY <2>4 DEF RVerify, Exit, ForgetRun
      <3> QED
        BY <1>0, <2>1, <3>1 DEF DigestsGenuine
    <2>5. CASE \/ RStart \/ RAccept \/ RRecvManifest \/ RSendRequest \/ RWriteTmp
               \/ RWriteTmpShort \/ RRemoveOld \/ RRenameTmp \/ RPrepareOutput \/ RRecvChunk
               \/ RCloseStream \/ RCleanup \/ RRecvEof \/ RSendFail \/ ReceiverFault
      <3>1. rpc' \notin {"verify", "cleanup"}
        BY <2>5 DEF RStart, RAccept, RRecvManifest, RSendRequest, RWriteTmp, RWriteTmpShort,
            RRemoveOld, RRenameTmp, RPrepareOutput, RRecvChunk, RCloseStream, RCleanup,
            RRecvEof, RSendFail, ReceiverFault, RCallFail, RPrepareFail, RWriteFail,
            RFlushFail, RCleanupFail, RCrash, DeleteOutput, Exit, ForgetRun
      <3> QED
        BY <3>1
    <2> QED
      BY <2>2, <2>3, <2>4, <2>5
      DEF Next, ReceiverStep, SenderStep, Fault, LinkFault, SenderFault, Edit, vars
  <1> QED
    BY <1>3, <1>4, <1>5, <1>6 DEF DigestsGenuine

(* Every step keeps the invariant. *)
LEMMA VerifyStep == TypeInv /\ VerifyInv /\ [Next]_vars => VerifyInv'
PROOF
  <1> SUFFICES ASSUME TypeInv, VerifyInv, [Next]_vars PROVE VerifyInv'
    OBVIOUS
  <1>0. /\ rpc \in {"verify", "cleanup"} => OfSource(rHash)
        /\ rpc = "cleanup" => Sha256(out) = rHash
        /\ rpc # "off" => rResult = "none"
        /\ VerifiedIsSource
    BY DEF VerifyInv, DigestsGenuine
  <1>1. DigestsGenuine'
    BY DigestsStep
  <1>2. CASE UNCHANGED rcvVars
    <2>1. /\ \A s \in Senders : versions[s] \subseteq versions'[s]
          /\ edits' = 0 => edits = 0 /\ src' = src
      BY PastGrows DEF VerifyInv, DigestsGenuine
    <2>2. \A s \in Senders : InPieces(out, versions[s]) => InPieces(out, versions'[s])
      BY <2>1, Zenon DEF InPieces
    <2>3. VerifiedIsSource'
      BY <1>0, <1>2, <2>1, <2>2 DEF rcvVars, VerifiedIsSource
    <2> QED
      BY <1>0, <1>1, <1>2, <2>3 DEF rcvVars, VerifyInv
  <1>3. CASE RStart
    BY <1>1, <1>3 DEF RStart, VerifyInv, VerifiedIsSource
  <1>4. CASE RVerify
    <2>1. CASE Sha256(out) = rHash
      BY <1>0, <1>1, <1>4, <2>1 DEF RVerify, VerifyInv, VerifiedIsSource
    <2>2. CASE Sha256(out) # rHash
      BY <1>1, <1>4, <2>2 DEF RVerify, Exit, ForgetRun, VerifyInv, VerifiedIsSource
    <2> QED
      BY <2>1, <2>2
  <1>5. CASE RCleanup \/ RCleanupFail
    <2>1. rpc = "cleanup" /\ rpc' = "off" /\ out' = Flushed
      BY <1>5 DEF RCleanup, RCleanupFail, Exit, ForgetRun
    <2>2. out' = out
      BY <2>1 DEF Flushed, TypeInv, RcvShape
    <2>3. PICK s \in Senders : DigestOf(s, rHash)
      BY <1>0, <2>1 DEF OfSource
    <2>4. rHash.sha256 = out
      BY <1>0, <2>1 DEF Sha256
    <2>5. InPieces(rHash.sha256, versions'[s]) /\ (edits' = 0 => rHash.sha256 = src'[s])
      BY <2>3, DigestsLast DEF VerifyInv, DigestsGenuine
    <2>6. VerifiedIsSource'
      BY <2>2, <2>4, <2>5 DEF VerifiedIsSource
    <2> QED
      BY <1>1, <2>1, <2>6 DEF VerifyInv
  <1>6. CASE DeleteOutput
    BY <1>1, <1>6 DEF DeleteOutput, VerifyInv, VerifiedIsSource
  <1>7. CASE \/ RAccept \/ RRecvManifest \/ RSendRequest \/ RWriteTmp \/ RWriteTmpShort
             \/ RRemoveOld \/ RRenameTmp \/ RPrepareOutput \/ RRecvChunk \/ RCloseStream
             \/ RRecvHash \/ RRecvEof \/ RSendFail \/ RCallFail \/ RPrepareFail
             \/ RWriteFail \/ RFlushFail \/ RCrash
    <2>1. rpc # "off" /\ rpc' # "cleanup"
      BY <1>7 DEF RAccept, RRecvManifest, RSendRequest, RWriteTmp, RWriteTmpShort, RRemoveOld,
          RRenameTmp, RPrepareOutput, RRecvChunk, RCloseStream, RRecvHash, RRecvEof, RSendFail,
          RCallFail, RPrepareFail, RWriteFail, RFlushFail, RCrash, Exit, ForgetRun
    <2>2. rResult' = rResult \/ (rpc' = "off" /\ rResult' \in {"rejected", "failed", "crashed"})
      BY <1>7 DEF RAccept, RRecvManifest, RSendRequest, RWriteTmp, RWriteTmpShort, RRemoveOld,
          RRenameTmp, RPrepareOutput, RRecvChunk, RCloseStream, RRecvHash, RRecvEof, RSendFail,
          RCallFail, RPrepareFail, RWriteFail, RFlushFail, RCrash, Exit, ForgetRun
    <2> QED
      BY <1>0, <1>1, <2>1, <2>2 DEF VerifyInv, VerifiedIsSource
  <1> QED
    BY <1>2, <1>3, <1>4, <1>5, <1>6, <1>7
    DEF Next, ReceiverStep, SenderStep, Fault, ReceiverFault, LinkFault, SenderFault, Edit, vars

(* In every reachable state every digest is that of what a sender has read,  *)
(* and clean-up has begun only if the output file has it.                    *)
LEMMA VerifyInvariant == Spec => []VerifyInv
PROOF
  <1>1. Init => TypeInv /\ VerifyInv
    BY TypeInit, VerifyInit
  <1>2. TypeInv /\ VerifyInv /\ [Next]_vars => (TypeInv /\ VerifyInv)'
    BY TypeStep, VerifyStep
  <1> QED
    BY <1>1, <1>2, PTL DEF Spec

(* A receiver that reports a verified transfer has an output file that is,   *)
(* piece by piece, what the file of one sender was at some time, and exactly *)
(* a file that is sent if nobody has edited one, given that SHA-256 does not *)
(* collide.                                                                  *)
THEOREM VerifiedFilesAreSent == Spec => []VerifiedIsSource
PROOF
  <1>1. VerifyInv => VerifiedIsSource
    BY DEF VerifyInv
  <1> QED
    BY <1>1, VerifyInvariant, PTL

-----------------------------------------------------------------------------
(* Transfer implements AbstractTransfer: each step of the programs, the      *)
(* network and the disk is a step the user may see, or one that the user     *)
(* does not see.                                                             *)

-----------------------------------------------------------------------------
(* Files that receive genuine bytes *)

(* A positioned write of genuine bytes, whole or cut short, only puts bytes  *)
(* of sent files in their own places and zeros between the old end and them. *)
LEMMA GenuineWriteFills ==
    ASSUME NEW f \in File, NEW o \in Nat, NEW data \in File, Genuine(o, data)
    PROVE  /\ WriteAt(f, o, data) \in File
           /\ Abstract!Filled(f, WriteAt(f, o, data))
PROOF
  <1> DEFINE g == WriteAt(f, o, data)
             L == Len(data)
  <1>1. /\ g \in File
        /\ Len(g) >= Len(f)
        /\ \A k \in 1 .. Len(g) :
              g[k] = IF o < k /\ k <= o + L THEN data[k - o]
                     ELSE IF k <= Len(f) THEN f[k] ELSE Zero
    BY WriteAtType
  <1>2. PICK b \in Contents : o + L <= Len(b) /\ \A k \in 1 .. L : data[k] = b[o + k]
    BY DEF Genuine
  <1>3. L \in Nat /\ Len(f) \in Nat /\ Len(g) \in Nat /\ Len(b) \in Nat
    BY <1>1, ChunkPlanAssumption DEF File
  <1> HIDE DEF g, L
  <1>4. ASSUME NEW k \in 1 .. Len(g)
        PROVE  \/ k <= Len(f) /\ g[k] = f[k]
               \/ k > Len(f) /\ g[k] = Zero
               \/ Abstract!Genuine(k, g[k])
    <2>1. CASE o < k /\ k <= o + L
      <3>1. k - o \in 1 .. L /\ o + (k - o) = k /\ k <= Len(b)
        BY <1>2, <1>3, <2>1
      <3>2. g[k] = b[k]
        BY <1>1, <1>2, <2>1, <3>1
      <3> QED
        BY <3>1, <3>2 DEF Abstract!Genuine
    <2>2. CASE ~(o < k /\ k <= o + L)
      BY <1>1, <1>3, <2>2
    <2> QED
      BY <2>1, <2>2
  <1> QED
    BY <1>1, <1>3, <1>4 DEF Abstract!Filled, g

(* A file is itself after no writes. *)
LEMMA FilledReflexive ==
    ASSUME NEW f \in File
    PROVE  Abstract!Filled(f, f)
PROOF
    BY DEF Abstract!Filled, File

(* Writes after writes are writes. *)
LEMMA FilledTransitive ==
    ASSUME NEW f \in File, NEW g \in File, NEW h \in File,
           Abstract!Filled(f, g), Abstract!Filled(g, h)
    PROVE  Abstract!Filled(f, h)
PROOF
  <1>1. Len(f) \in Nat /\ Len(g) \in Nat /\ Len(h) \in Nat
    BY DEF File
  <1>2. Len(f) <= Len(g) /\ Len(g) <= Len(h)
    BY DEF Abstract!Filled
  <1>3. ASSUME NEW k \in 1 .. Len(h)
        PROVE  \/ k <= Len(f) /\ h[k] = f[k]
               \/ k > Len(f) /\ h[k] = Zero
               \/ Abstract!Genuine(k, h[k])
    <2>1. CASE k <= Len(g) /\ h[k] = g[k]
      <3>1. k \in 1 .. Len(g)
        BY <1>1, <2>1
      <3> QED
        BY <2>1, <3>1 DEF Abstract!Filled
    <2>2. CASE k > Len(g) /\ h[k] = Zero
      BY <1>1, <1>2, <2>2
    <2>3. CASE Abstract!Genuine(k, h[k])
      BY <2>3
    <2> QED
      BY <2>1, <2>2, <2>3 DEF Abstract!Filled
  <1> QED
    BY <1>1, <1>2, <1>3 DEF Abstract!Filled

(* Passing on what the stream holds fills the output file. *)
LEMMA FlushFills ==
    ASSUME TypeInv, SafetyInv, out \in File
    PROVE  Flushed \in File /\ Abstract!Filled(out, Flushed)
PROOF
  <1>1. CASE rBuf = Absent
    BY <1>1, FilledReflexive DEF Flushed
  <1>2. CASE rBuf # Absent
    <2>1. rBuf.offset \in Nat /\ rBuf.data \in File
      BY <1>2 DEF TypeInv, TypeOK, RcvTypeOK, PendingWrite
    <2>2. Genuine(rBuf.offset, rBuf.data)
      BY <1>2 DEF SafetyInv, DiskInv, HeldGenuine
    <2> QED
      BY <1>2, <2>1, <2>2, GenuineWriteFills DEF Flushed
  <1> QED
    BY <1>1, <1>2

(* Bytes cut short are still genuine. *)
LEMMA CutGenuine ==
    ASSUME NEW o \in Nat, NEW data \in File, Genuine(o, data), NEW n \in 1 .. Len(data) - 1
    PROVE  SubSeq(data, 1, n) \in File /\ Genuine(o, SubSeq(data, 1, n))
PROOF
  <1>1. /\ SubSeq(data, 1, n) \in File
        /\ Len(SubSeq(data, 1, n)) = n
        /\ \A k \in 1 .. n : SubSeq(data, 1, n)[k] = data[k]
    BY DEF File
  <1>2. PICK b \in Contents : o + Len(data) <= Len(b)
                              /\ \A k \in 1 .. Len(data) : data[k] = b[o + k]
    BY DEF Genuine
  <1>3. Len(data) \in Nat /\ Len(b) \in Nat
    BY <1>2, ChunkPlanAssumption DEF File
  <1>4. o + n <= Len(b) /\ \A k \in 1 .. n : SubSeq(data, 1, n)[k] = b[o + k]
    BY <1>1, <1>2, <1>3
  <1> QED
    BY <1>1, <1>2, <1>4 DEF Genuine

-----------------------------------------------------------------------------
(* The ends of a run *)

(* The phase of a run that has not ended says whether the output is open. *)
LEMMA PhaseOf ==
    ASSUME TypeInv, rpc # "off"
    PROVE  /\ Phase \in {"looking", "working"}
           /\ Phase = "working" => out \in File
           /\ Phase = "looking" => rBuf = Absent /\ Flushed = out
PROOF
    BY DEF TypeInv, RcvShape, Phase, Working, Flushed

(* A run that ends badly is a failed run to the user: it has left the file   *)
(* alone, truncated it when it was about to open it, or filled it further.   *)
LEMMA EndIsFail ==
    ASSUME TypeInv, UNCHANGED versions, rpc # "off", NEW result, result \notin {"none", "verified"},
           ForgetRun(result),
           \/ Phase = "looking" /\ (out' = out \/ out' = <<>>)
           \/ Phase = "working" /\ out' \in File /\ Abstract!Filled(out, out')
    PROVE  Abstract!Fail
PROOF
  <1>1. Phase' = "idle" /\ Verdict' = "unverified"
    BY DEF ForgetRun, Phase, Verdict
  <1>2. Phase = "working" => out \in File /\ out # Absent
    BY PhaseOf, ChunkPlanAssumption DEF File
  <1> QED
    BY <1>1, <1>2
    DEF Abstract!Fail, Abstract!Kept, Abstract!Restarted, Abstract!Extended, File

(* So is a return from main before the verification has succeeded. *)
LEMMA ExitIsFail ==
    ASSUME TypeInv, SafetyInv, UNCHANGED versions, rpc # "off",
           NEW result, result \notin {"none", "verified"}, Exit(result)
    PROVE  Abstract!Fail
PROOF
  <1>1. ForgetRun(result) /\ out' = Flushed
    BY DEF Exit
  <1>2. CASE Phase = "looking"
    BY <1>1, <1>2, PhaseOf, EndIsFail
  <1>3. CASE Phase = "working"
    BY <1>1, <1>3, PhaseOf, FlushFills, EndIsFail
  <1> QED
    BY <1>2, <1>3, PhaseOf

(* A run that ends after the clean-up has verified the file it leaves. *)
LEMMA CleanupIsVerify ==
    ASSUME TypeInv, VerifyInv', UNCHANGED versions, rpc = "cleanup", Exit("verified")
    PROVE  Abstract!Verify
PROOF
  <1>1. Phase = "working" /\ Phase' = "idle" /\ Verdict' = "verified" /\ rResult' = "verified"
    BY DEF Exit, ForgetRun, Phase, Working, Verdict
  <1>2. out' = out
    BY DEF Exit, Flushed, TypeInv, RcvShape
  <1>3. PICK s \in Senders : InPieces(out, versions[s])
    BY <1>1, <1>2 DEF VerifyInv, VerifiedIsSource
  <1>4. \A f, n : Abstract!Piece(f, n) = Piece(f, n)
    BY DEF Abstract!Piece, Piece, ReadUpTo, ReadAt
  <1>5. Abstract!Sent(s, out)
    BY <1>3, <1>4, Zenon DEF InPieces, Abstract!Sent
  <1> QED
    BY <1>1, <1>2, <1>5 DEF Abstract!Verify, Abstract!Kept

-----------------------------------------------------------------------------
(* The steps of a run *)

\* A step the user does not see.
Unseen == out' = out /\ Phase' = Phase /\ Verdict' = Verdict

(* The arriving chunk fills the output file, or what was held does. *)
LEMMA ChunkIsWork ==
    ASSUME TypeInv, SafetyInv, UNCHANGED versions, RRecvChunk
    PROVE  Abstract!Next
PROOF
  <1> DEFINE msg == Head(s2r[client])
             i == msg.header.chunk_index
             o == msg.header.byte_offset
  <1>1. rpc = "chunk" /\ s2r[client] # <<>> /\ rOpen /\ out \in File /\ rpc # "off"
    BY DEF RRecvChunk, TypeInv, RcvShape
  <1>2. CASE ~ExpectedChunk(msg)
    <2>1. Exit("rejected")
      BY <1>2 DEF RRecvChunk
    <2> QED
      BY <1>1, <2>1, ExitIsFail DEF Abstract!Next
  <1>3. CASE ExpectedChunk(msg)
    <2>1. WriteChunk(o, msg.payload) /\ rpc' = "tmp" /\ UNCHANGED <<rOpen, rResult>>
      BY <1>3 DEF RRecvChunk
    <2>2. Phase = "working" /\ Phase' = "working" /\ Verdict' = Verdict
      BY <1>1, <2>1 DEF Phase, Working, Verdict
    <2>3. o = chunk_offset(rCkpt, i) /\ i \in Nat /\ msg.payload \in File
          /\ Genuine(o, msg.payload)
      BY <1>1, <1>3, ArrivingChunk
    <2>4. o \in Nat
      <3>1. rCkpt \in Checkpoint
        BY <1>1 DEF TypeInv, RcvShape
      <3>2. rCkpt.chunk_size \in Nat
        BY <3>1, ChunkPlanAssumption DEF Checkpoint
      <3> HIDE DEF i, o
      <3> QED
        BY <2>3, <3>2, OffsetType
    <2>5. Flushed \in File /\ Abstract!Filled(out, Flushed)
      BY <1>1, FlushFills
    <2> HIDE DEF msg, i, o
    <2>6. out' \in File /\ Abstract!Filled(out, out')
      <3>1. CASE out' = Flushed
        BY <2>5, <3>1
      <3>2. CASE out' = WriteAt(Flushed, o, msg.payload)
        <4>1. out' \in File /\ Abstract!Filled(Flushed, out')
          BY <2>3, <2>4, <2>5, <3>2, GenuineWriteFills
        <4> QED
          BY <1>1, <2>5, <4>1, FilledTransitive
      <3> QED
        BY <2>1, <3>1, <3>2 DEF WriteChunk
    <2>7. out # Absent
      BY <1>1, ChunkPlanAssumption DEF File
    <2> QED
      BY <2>2, <2>6, <2>7 DEF Abstract!Next, Abstract!Work, Abstract!Extended, File
  <1> QED
    BY <1>2, <1>3

(* A write that fails halfway fills the output file with less. *)
LEMMA WriteFailIsFail ==
    ASSUME TypeInv, SafetyInv, UNCHANGED versions, RWriteFail
    PROVE  Abstract!Next
PROOF
  <1> DEFINE msg == Head(s2r[client])
             i == msg.header.chunk_index
             o == msg.header.byte_offset
             data == msg.payload
  <1>1. /\ rpc = "chunk" /\ s2r[client] # <<>> /\ rOpen /\ out \in File /\ ExpectedChunk(msg)
        /\ ForgetRun("failed")
    BY DEF RWriteFail, TypeInv, RcvShape
  <1>2. o = chunk_offset(rCkpt, i) /\ i \in Nat /\ data \in File /\ Genuine(o, data)
    BY <1>1, ArrivingChunk
  <1>3. o \in Nat
    <2>1. rCkpt \in Checkpoint
      BY <1>1 DEF TypeInv, RcvShape
    <2>2. rCkpt.chunk_size \in Nat
      BY <2>1, ChunkPlanAssumption DEF Checkpoint
    <2> HIDE DEF i, o
    <2> QED
      BY <1>2, <2>2, OffsetType
  <1>4. Flushed \in File /\ Abstract!Filled(out, Flushed)
    BY <1>1, FlushFills
  <1>5. \/ out' = out
        \/ out' = Flushed
        \/ \E n \in 1 .. Len(data) - 1 : out' = WriteAt(Flushed, o, SubSeq(data, 1, n))
    BY DEF RWriteFail
  <1> HIDE DEF msg, i, o, data
  <1>6. out' \in File /\ Abstract!Filled(out, out')
    <2>1. CASE out' = out
      BY <1>1, <2>1, FilledReflexive
    <2>2. CASE out' = Flushed
      BY <1>4, <2>2
    <2>3. ASSUME NEW n \in 1 .. Len(data) - 1, out' = WriteAt(Flushed, o, SubSeq(data, 1, n))
          PROVE  out' \in File /\ Abstract!Filled(out, out')
      <3>1. SubSeq(data, 1, n) \in File /\ Genuine(o, SubSeq(data, 1, n))
        BY <1>2, <1>3, CutGenuine
      <3>2. out' \in File /\ Abstract!Filled(Flushed, out')
        BY <1>3, <1>4, <2>3, <3>1, GenuineWriteFills
      <3> QED
        BY <1>1, <1>4, <3>2, FilledTransitive
    <2> QED
      BY <1>5, <2>1, <2>2, <2>3
  <1>7. Phase = "working"
    BY <1>1 DEF Phase, Working
  <1> QED
    BY <1>1, <1>6, <1>7, EndIsFail DEF Abstract!Next

(* Preparing the output file opens it, afresh or as it is. *)
LEMMA PrepareIsOpen ==
    ASSUME TypeInv, SafetyInv, UNCHANGED versions, RPrepareOutput \/ RPrepareFail
    PROVE  Abstract!Next
PROOF
  <1>1. rpc = "prepare" /\ Phase = "looking" /\ rpc # "off"
    BY DEF RPrepareOutput, RPrepareFail, TypeInv, RcvShape, Phase, Working
  <1>2. CASE RPrepareOutput /\ (rFresh \/ file_exists(out))
    <2>1. /\ out' = (IF rFresh THEN <<>> ELSE out)
          /\ rpc' = "chunk"
          /\ UNCHANGED rResult
      BY <1>2 DEF RPrepareOutput
    <2>2. Phase' = "working" /\ Verdict' = Verdict
      BY <2>1 DEF Phase, Working, Verdict
    <2> QED
      BY <1>1, <1>2, <2>1, <2>2
      DEF file_exists, Abstract!Next, Abstract!Open, Abstract!Restarted, Abstract!Kept
  <1>3. CASE RPrepareOutput /\ ~(rFresh \/ file_exists(out))
    <2>1. Exit("failed")
      BY <1>3 DEF RPrepareOutput
    <2> QED
      BY <1>1, <2>1, ExitIsFail DEF Abstract!Next
  <1>4. CASE RPrepareFail
    <2>1. ForgetRun("failed") /\ (out' = out \/ out' = <<>>)
      BY <1>4 DEF RPrepareFail
    <2> QED
      BY <1>1, <2>1, EndIsFail DEF Abstract!Next
  <1> QED
    BY <1>2, <1>3, <1>4

(* Closing the stream passes on what it holds. *)
LEMMA CloseIsWork ==
    ASSUME TypeInv, SafetyInv, UNCHANGED versions, RCloseStream
    PROVE  Abstract!Next
PROOF
  <1>1. /\ rpc = "chunk" /\ rpc' = "hash" /\ out' = Flushed /\ UNCHANGED rResult
        /\ out \in File
    BY DEF RCloseStream, TypeInv, RcvShape
  <1>2. Phase = "working" /\ Phase' = "working" /\ Verdict' = Verdict
    BY <1>1 DEF Phase, Working, Verdict
  <1>3. out' \in File /\ Abstract!Filled(out, out') /\ out # Absent
    BY <1>1, FlushFills, ChunkPlanAssumption DEF File
  <1> QED
    BY <1>2, <1>3 DEF Abstract!Next, Abstract!Work, Abstract!Extended, File

(* So does a failed or cut write of what it holds. *)
LEMMA FlushFailIsWork ==
    ASSUME TypeInv, SafetyInv, UNCHANGED versions, RFlushFail
    PROVE  Abstract!Next
PROOF
  <1>1. /\ rpc = "chunk" /\ rpc' = "hash" /\ UNCHANGED rResult /\ out \in File
        /\ rBuf # Absent /\ rBuf.offset \in Nat /\ rBuf.data \in File
    BY DEF RFlushFail, TypeInv, TypeOK, RcvTypeOK, RcvShape, PendingWrite
  <1>2. Phase = "working" /\ Phase' = "working" /\ Verdict' = Verdict
    BY <1>1 DEF Phase, Working, Verdict
  <1>3. Genuine(rBuf.offset, rBuf.data)
    BY <1>1 DEF SafetyInv, DiskInv, HeldGenuine
  <1>4. out' \in File /\ Abstract!Filled(out, out')
    <2>1. CASE out' = out
      BY <1>1, <2>1, FilledReflexive
    <2>2. ASSUME NEW n \in 1 .. Len(rBuf.data) - 1,
                 out' = WriteAt(out, rBuf.offset, SubSeq(rBuf.data, 1, n))
          PROVE  out' \in File /\ Abstract!Filled(out, out')
      <3>1. SubSeq(rBuf.data, 1, n) \in File /\ Genuine(rBuf.offset, SubSeq(rBuf.data, 1, n))
        BY <1>1, <1>3, CutGenuine
      <3> QED
        BY <1>1, <2>2, <3>1, GenuineWriteFills
    <2> QED
      BY <2>1, <2>2 DEF RFlushFail
  <1>5. out # Absent
    BY <1>1, ChunkPlanAssumption DEF File
  <1> QED
    BY <1>2, <1>4, <1>5 DEF Abstract!Next, Abstract!Work, Abstract!Extended, File

(* Every step of the receiver, faults included, is a step the user may see   *)
(* or one the user does not.                                                 *)
LEMMA ReceiverRefines ==
    ASSUME TypeInv, SafetyInv, VerifyInv', UNCHANGED versions, ReceiverStep \/ ReceiverFault
    PROVE  Abstract!Next \/ Unseen
PROOF
  <1>1. CASE RStart
    <2>1. /\ rpc = "off" /\ rpc' = "accept" /\ rResult' = "none" /\ out' = out
          /\ rOpen = FALSE /\ UNCHANGED rOpen
      BY <1>1 DEF RStart, TypeInv, TypeOK, RcvTypeOK, RcvShape
    <2> QED
      BY <2>1 DEF Phase, Working, Verdict, Abstract!Next, Abstract!Start, Abstract!Kept
  <1>2. CASE RAccept \/ RSendRequest \/ RWriteTmp \/ RWriteTmpShort \/ RRemoveOld \/ RRenameTmp
    <2>1. /\ UNCHANGED <<out, rOpen, rResult>>
          /\ rpc \in {"accept", "request", "tmp", "remove", "rename"}
          /\ rpc' \in {"manifest", "tmp", "remove", "rename", "prepare", "chunk"}
          /\ rpc' = "chunk" => rOpen
      BY <1>2 DEF RAccept, RSendRequest, RWriteTmp, RWriteTmpShort, RRemoveOld, RRenameTmp
    <2> QED
      BY <2>1 DEF Phase, Working, Verdict, Unseen
  <1>3. CASE RRecvManifest
    <2>1. CASE Exit("rejected")
      BY <1>3, <2>1, ExitIsFail DEF RRecvManifest, Abstract!Next
    <2>2. CASE rpc' = "request" /\ UNCHANGED <<out, rOpen, rResult>>
      BY <1>3, <2>2 DEF RRecvManifest, Phase, Working, Verdict, Unseen
    <2> QED
      BY <1>3, <2>1, <2>2 DEF RRecvManifest
  <1>4. CASE RRecvHash
    <2>1. CASE Exit("rejected")
      BY <1>4, <2>1, ExitIsFail DEF RRecvHash, Abstract!Next
    <2>2. CASE rpc' = "verify" /\ UNCHANGED <<out, rOpen, rResult>>
      BY <1>4, <2>2 DEF RRecvHash, Phase, Working, Verdict, Unseen
    <2> QED
      BY <1>4, <2>1, <2>2 DEF RRecvHash
  <1>5. CASE RVerify
    <2>1. CASE Exit("mismatch")
      BY <1>5, <2>1, ExitIsFail DEF RVerify, Abstract!Next
    <2>2. CASE rpc' = "cleanup" /\ UNCHANGED <<out, rOpen, rResult>>
      BY <1>5, <2>2 DEF RVerify, Phase, Working, Verdict, Unseen
    <2> QED
      BY <1>5, <2>1, <2>2 DEF RVerify
  <1>6. CASE RCleanup \/ RCleanupFail
    BY <1>6, CleanupIsVerify DEF RCleanup, RCleanupFail, Abstract!Next
  <1>7. CASE RRecvEof \/ RSendFail \/ RCallFail
    <2>1. Exit("failed") /\ rpc # "off"
      BY <1>7 DEF RRecvEof, RSendFail, RCallFail
    <2> QED
      BY <2>1, ExitIsFail DEF Abstract!Next
  <1>8. CASE RCrash
    <2>1. ForgetRun("crashed") /\ rpc # "off" /\ out' = out
      BY <1>8 DEF RCrash
    <2> QED
      BY <2>1, PhaseOf, FilledReflexive, EndIsFail DEF Abstract!Next
  <1>9. CASE DeleteOutput
    <2>1. /\ rpc = "off" /\ rpc' = "off" /\ out # Absent /\ out' = Absent /\ rResult' = "none"
      BY <1>9 DEF DeleteOutput, file_exists
    <2> QED
      BY <2>1 DEF Phase, Verdict, Abstract!Next, Abstract!Delete
  <1> QED
    BY <1>1, <1>2, <1>3, <1>4, <1>5, <1>6, <1>7, <1>8, <1>9,
       ChunkIsWork, WriteFailIsFail, PrepareIsOpen, CloseIsWork, FlushFailIsWork
    DEF ReceiverStep, ReceiverFault

-----------------------------------------------------------------------------
(* The refinement *)

(* Initial states map to initial states. *)
LEMMA RefinesInit == Init => Abstract!Init
PROOF
    BY DEF Init, RcvInit, SndInit, Phase, Working, Verdict, Abstract!Init

(* Every step maps to a step or a stutter. *)
LEMMA RefinesStep ==
    TypeInv /\ SafetyInv /\ VerifyInv /\ VerifyInv' /\ [Next]_vars
        => [Abstract!Next]_(Abstract!vars)
PROOF
  <1> SUFFICES ASSUME TypeInv, SafetyInv, VerifyInv, VerifyInv', [Next]_vars
               PROVE  Abstract!Next \/ UNCHANGED Abstract!vars
    OBVIOUS
  <1>1. Unseen /\ UNCHANGED versions => UNCHANGED Abstract!vars
    BY DEF Unseen, Abstract!vars
  <1>2. CASE (ReceiverStep \/ ReceiverFault) /\ UNCHANGED versions
    BY <1>1, <1>2, ReceiverRefines
  <1>3. UNCHANGED rcvVars => Unseen
    BY DEF rcvVars, Unseen, Phase, Working, Verdict
  <1>4. CASE Edit
    BY <1>3, <1>4 DEF Edit, Unseen, Abstract!Next, Abstract!Edit
  <1>5. CASE UNCHANGED rcvVars /\ UNCHANGED versions
    BY <1>1, <1>3, <1>5
  <1> QED
    BY <1>2, <1>4, <1>5
    DEF Next, ReceiverStep, SenderStep, Fault, LinkFault, SenderFault, vars, budgetVars

(* To a user who looks only at the output file and at the verdict, the       *)
(* programs with their connections, sidecar, crashes, cut writes and edits   *)
(* behave as AbstractTransfer says.                                          *)
THEOREM TransferImplementsAbstract == Spec => ImplementsAbstract
PROOF
    BY RefinesInit, RefinesStep, TypeInvariant, SafetyInvariant, VerifyInvariant, PTL
    DEF Spec, ImplementsAbstract, Abstract!Spec

=============================================================================
