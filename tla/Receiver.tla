------------------------------ MODULE Receiver ------------------------------
(***************************************************************************)
(* The receiver program: one run accepts one sender, decides from the      *)
(* sidecar what it still misses, receives those chunks, and verifies the   *)
(* result.  A run ends in "off"; the user may start another one.  The      *)
(* output file and the sidecar outlive the process, nothing else does.     *)
(***************************************************************************)
EXTENDS TcpLink, CheckpointFile

CONSTANTS
    StreamBuf   \* std::fstream may hold a write shorter than this many bytes

ASSUME ReceiverAssumption == StreamBuf \in Nat

VARIABLES
    out,        \* the output file received_<name>, as the disk has it
    rpc,        \* where the run is
    rManifest,  \* manifest
    rCkpt,      \* checkpoint
    rTodo,      \* chunks_to_receive from the current one on
    rFresh,     \* !loaded_checkpoint
    rOpen,      \* the fstream output is open
    rBuf,       \* a write the fstream has not passed to the disk yet
    rHash,      \* hash_packet
    rResult     \* how the last run ended

rcvVars == <<out, rpc, rManifest, rCkpt, rTodo, rFresh, rOpen, rBuf, rHash, rResult>>

RcvPc == {"off", "accept", "manifest", "request", "tmp", "remove", "rename",
          "prepare", "chunk", "hash", "verify", "cleanup"}
RcvResult == {"none", "verified", "mismatch", "rejected", "failed", "crashed"}

PendingWrite == [offset : Nat, data : File]

RcvTypeOK ==
    /\ out \in File \cup {Absent}
    /\ rpc \in RcvPc
    /\ rManifest \in Manifest \cup {Absent}
    /\ rCkpt \in Checkpoint \cup {Absent}
    /\ rTodo \in SUBSET Nat
    /\ rFresh \in BOOLEAN
    /\ rOpen \in BOOLEAN
    /\ rBuf \in PendingWrite \cup {Absent}
    /\ rHash \in Digest \cup {Absent}
    /\ rResult \in RcvResult

RcvInit ==
    /\ rpc = "off"
    /\ rManifest = Absent
    /\ rCkpt = Absent
    /\ rTodo = {}
    /\ rFresh = FALSE
    /\ rOpen = FALSE
    /\ rBuf = Absent
    /\ rHash = Absent
    /\ rResult = "none"

file_exists(f) == f # Absent

-----------------------------------------------------------------------------
(* The output stream *)

\* seekp, close and ~fstream write what is held; a killed process does not.
Flushed == IF rBuf = Absent THEN out ELSE WriteAt(out, rBuf.offset, rBuf.data)

\* Only a write shorter than the stream's buffer can stay behind in it.
MayHold(data) == Len(data) < StreamBuf

-----------------------------------------------------------------------------
(* The end of a run: locals and sockets go, the disk stays *)

ForgetRun(result) ==
    /\ rpc' = "off"
    /\ rManifest' = Absent
    /\ rCkpt' = Absent
    /\ rTodo' = {}
    /\ rFresh' = FALSE
    /\ rOpen' = FALSE
    /\ rBuf' = Absent
    /\ rHash' = Absent
    /\ rResult' = result
    /\ CloseReceiver

\* return from main: ~fstream flushes.
Exit(result) == ForgetRun(result) /\ out' = Flushed

-----------------------------------------------------------------------------
(* main, up to the continuation request *)

RStart ==
    /\ rpc = "off"
    /\ bind_and_listen
    /\ rpc' = "accept"
    /\ rResult' = "none"
    /\ UNCHANGED <<out, rManifest, rCkpt, rTodo, rFresh, rOpen, rBuf, rHash, ckptVars>>

RAccept ==
    /\ rpc = "accept"
    /\ accept_client
    /\ rpc' = "manifest"
    /\ UNCHANGED <<out, rManifest, rCkpt, rTodo, rFresh, rOpen, rBuf, rHash, rResult, ckptVars>>

\* Mutant: the sidecar counts even when the output file is gone.
UsableCheckpoint_NoOutput(m) ==
    /\ Loadable(ckpt)
    /\ checkpoint_matches_manifest(ckpt, m)

\* loaded_checkpoint: the sidecar counts only beside an existing output file.
UsableCheckpoint(m) ==
    /\ file_exists(out)
    /\ Loadable(ckpt)
    /\ checkpoint_matches_manifest(ckpt, m)

\* Mutant: a loaded checkpoint is not reset when it turns out unusable.
StartingCheckpoint_NoReset(m) ==
    IF Loadable(ckpt) THEN ckpt ELSE create_checkpoint_from_manifest(m)

StartingCheckpoint(m) ==
    IF UsableCheckpoint(m) THEN ckpt ELSE create_checkpoint_from_manifest(m)

\* Receive the manifest, then load or create the checkpoint.
RRecvManifest ==
    /\ rpc = "manifest"
    /\ s2r[client] # <<>>
    /\ LET msg == Head(s2r[client])
       IN  IF msg.type = "manifest" /\ valid_manifest(msg.manifest)
           THEN LET m == msg.manifest
                    c == StartingCheckpoint(m)
                IN  /\ RecvFromSender
                    /\ rpc' = "request"
                    /\ rManifest' = m
                    /\ rCkpt' = c
                    /\ rTodo' = missing_chunks(c)
                    /\ rFresh' = ~UsableCheckpoint(m)
                    /\ UNCHANGED <<out, rOpen, rBuf, rHash, rResult>>
           ELSE Exit("rejected")
    /\ UNCHANGED ckptVars

\* Mutant: every chunk is asked for, continuing or not.
RSendRequest_All ==
    /\ rpc = "request"
    /\ SendToSender([total_chunks |-> rManifest.chunk_count,
                     missing |-> 0 .. rManifest.chunk_count - 1])
    /\ rpc' = "tmp"
    /\ UNCHANGED <<out, rManifest, rCkpt, rTodo, rFresh, rOpen, rBuf, rHash, rResult, ckptVars>>

RSendRequest ==
    /\ rpc = "request"
    /\ SendToSender([total_chunks |-> rManifest.chunk_count, missing |-> rTodo])
    /\ rpc' = "tmp"
    /\ UNCHANGED <<out, rManifest, rCkpt, rTodo, rFresh, rOpen, rBuf, rHash, rResult, ckptVars>>

-----------------------------------------------------------------------------
(* save_checkpoint: first before the output file is touched, then after the *)
(* write of every chunk                                                     *)

RWriteTmp ==
    /\ rpc = "tmp"
    /\ WriteTmp(rCkpt)
    /\ rpc' = "remove"
    /\ UNCHANGED <<out, rManifest, rCkpt, rTodo, rFresh, rOpen, rBuf, rHash, rResult, linkVars>>

RWriteTmpShort ==
    /\ rpc = "tmp"
    /\ WriteTmpShort(rCkpt)
    /\ rpc' = "remove"
    /\ UNCHANGED <<out, rManifest, rCkpt, rTodo, rFresh, rOpen, rBuf, rHash, rResult, linkVars>>

RRemoveOld ==
    /\ rpc = "remove"
    /\ RemoveOld
    /\ rpc' = "rename"
    /\ UNCHANGED <<out, rManifest, rCkpt, rTodo, rFresh, rOpen, rBuf, rHash, rResult, linkVars>>

RRenameTmp ==
    /\ rpc = "rename"
    /\ RenameTmp
    /\ rpc' = IF rOpen THEN "chunk" ELSE "prepare"
    /\ UNCHANGED <<out, rManifest, rCkpt, rTodo, rFresh, rOpen, rBuf, rHash, rResult, linkVars>>

-----------------------------------------------------------------------------
(* receive_file_chunks *)

\* Mutant: a continued transfer truncates the output file too.
RPrepareOutput_Truncates ==
    /\ rpc = "prepare"
    /\ out' = <<>>
    /\ rOpen' = TRUE
    /\ rpc' = "chunk"
    /\ UNCHANGED <<rManifest, rCkpt, rTodo, rFresh, rBuf, rHash, rResult, linkVars, ckptVars>>

\* prepare_output_file: a fresh transfer truncates, a continued one keeps.
RPrepareOutput ==
    /\ rpc = "prepare"
    /\ IF rFresh \/ file_exists(out)
       THEN /\ out' = IF rFresh THEN <<>> ELSE out
            /\ rOpen' = TRUE
            /\ rpc' = "chunk"
            /\ UNCHANGED <<rManifest, rCkpt, rTodo, rFresh, rBuf, rHash, rResult, linkVars>>
       ELSE Exit("failed")
    /\ UNCHANGED ckptVars

\* Mutant: the chunk goes to the end of the file, wherever that is.
WriteChunk_Appends(offset, data) ==
    out' = WriteAt(Flushed, Len(Flushed), data) /\ rBuf' = Absent

\* The write of a chunk: seekp first passes on what is held, then the new
\* bytes go to the disk or stay in the buffer.
WriteChunk(offset, data) ==
    \/ out' = WriteAt(Flushed, offset, data) /\ rBuf' = Absent
    \/ /\ MayHold(data)
       /\ out' = Flushed
       /\ rBuf' = [offset |-> offset, data |-> data]

\* The chunk that is expected: in sequence and of the right place and size.
ExpectedChunk(msg) ==
    /\ msg.type = "chunk"
    /\ msg.header.chunk_index \in NextOf(rTodo)
    /\ validate_chunk_header(rManifest, msg.header)

RRecvChunk ==
    /\ rpc = "chunk"
    /\ rTodo # {}
    /\ s2r[client] # <<>>
    /\ LET msg == Head(s2r[client])
       IN  IF ExpectedChunk(msg)
           THEN LET i == msg.header.chunk_index
                IN  /\ RecvFromSender
                    /\ WriteChunk(msg.header.byte_offset, msg.payload)
                    /\ rCkpt' = [rCkpt EXCEPT !.completed = @ \cup {i}]
                    /\ rTodo' = rTodo \ {i}
                    /\ rpc' = "tmp"
                    /\ UNCHANGED <<rManifest, rFresh, rOpen, rHash, rResult>>
           ELSE Exit("rejected")
    /\ UNCHANGED ckptVars

\* receive_file_chunks returns: the stream is closed.
RCloseStream ==
    /\ rpc = "chunk"
    /\ rTodo = {}
    /\ out' = Flushed
    /\ rBuf' = Absent
    /\ rOpen' = FALSE
    /\ rpc' = "hash"
    /\ UNCHANGED <<rManifest, rCkpt, rTodo, rFresh, rHash, rResult, linkVars, ckptVars>>

-----------------------------------------------------------------------------
(* main, verification *)

RRecvHash ==
    /\ rpc = "hash"
    /\ s2r[client] # <<>>
    /\ LET msg == Head(s2r[client])
       IN  IF msg.type = "hash"
           THEN /\ RecvFromSender
                /\ rHash' = msg.hash
                /\ rpc' = "verify"
                /\ UNCHANGED <<out, rManifest, rCkpt, rTodo, rFresh, rOpen, rBuf, rResult>>
           ELSE Exit("rejected")
    /\ UNCHANGED ckptVars

\* Mutant: only the byte counts are compared.
RVerify_CountsOnly ==
    /\ rpc = "verify"
    /\ IF Len(out) = Len(rHash.sha256)
       THEN /\ rpc' = "cleanup"
            /\ UNCHANGED <<out, rManifest, rCkpt, rTodo, rFresh, rOpen, rBuf, rHash, rResult, linkVars>>
       ELSE Exit("mismatch")
    /\ UNCHANGED ckptVars

RVerify ==
    /\ rpc = "verify"
    /\ IF Sha256(out) = rHash
       THEN /\ rpc' = "cleanup"
            /\ UNCHANGED <<out, rManifest, rCkpt, rTodo, rFresh, rOpen, rBuf, rHash, rResult, linkVars>>
       ELSE Exit("mismatch")
    /\ UNCHANGED ckptVars

RCleanup ==
    /\ rpc = "cleanup"
    /\ remove_checkpoint
    /\ Exit("verified")

-----------------------------------------------------------------------------
(* Runs that end early *)

\* Mutant: between chunks the end of the stream is taken for an interruption.
RRecvEof_NotInChunks ==
    /\ rpc \in {"manifest", "hash"}
    /\ EndOfStream
    /\ Exit("failed")
    /\ UNCHANGED ckptVars

\* recv_exact meets the end of the stream.
RRecvEof ==
    /\ rpc \in {"manifest", "chunk", "hash"}
    /\ rpc = "chunk" => rTodo # {}
    /\ EndOfStream
    /\ Exit("failed")
    /\ UNCHANGED ckptVars

\* send_all of the request fails on a connection the sender has closed.
RSendFail ==
    /\ rpc = "request"
    /\ ~up[client]
    /\ Exit("failed")
    /\ UNCHANGED ckptVars

\* accept, the open of .tmp, the rename or the hashing of the output fails, and
\* the run gives up.
RCallFail ==
    /\ rpc \in {"accept", "tmp", "rename", "verify"}
    /\ Exit("failed")
    /\ UNCHANGED ckptVars

\* prepare_output_file or the open after it fails: truncated or not.
RPrepareFail ==
    /\ rpc = "prepare"
    /\ ForgetRun("failed")
    /\ out' \in {out} \cup (IF rFresh THEN {<<>>} ELSE {})
    /\ UNCHANGED ckptVars

\* seekp or write fails: what was held may be lost, and the chunk may have
\* reached the disk in part.
RWriteFail ==
    /\ rpc = "chunk"
    /\ rTodo # {}
    /\ s2r[client] # <<>>
    /\ ExpectedChunk(Head(s2r[client]))
    /\ ForgetRun("failed")
    /\ LET msg == Head(s2r[client])
       IN  out' \in {out, Flushed} \cup
                   {WriteAt(Flushed, msg.header.byte_offset, SubSeq(msg.payload, 1, n)) :
                        n \in 1 .. Len(msg.payload) - 1}
    /\ UNCHANGED ckptVars

\* The write of what the stream holds fails, or is cut, when it is closed at the
\* end of receive_file_chunks; nobody looks.
RFlushFail ==
    /\ rpc = "chunk"
    /\ rTodo = {}
    /\ rBuf # Absent
    /\ out' \in {out} \cup {WriteAt(out, rBuf.offset, SubSeq(rBuf.data, 1, n)) :
                               n \in 1 .. Len(rBuf.data) - 1}
    /\ rBuf' = Absent
    /\ rOpen' = FALSE
    /\ rpc' = "hash"
    /\ UNCHANGED <<rManifest, rCkpt, rTodo, rFresh, rHash, rResult, linkVars, ckptVars>>

\* remove_checkpoint fails: only a warning.
RCleanupFail ==
    /\ rpc = "cleanup"
    /\ Exit("verified")
    /\ UNCHANGED ckptVars

\* The process is killed: what the stream holds is lost.
RCrash ==
    /\ rpc # "off"
    /\ ForgetRun("crashed")
    /\ UNCHANGED <<out, ckptVars>>

=============================================================================
