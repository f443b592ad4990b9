------------------------------ MODULE ChunkPlan ------------------------------
(***************************************************************************)
(* The vocabulary sender and receiver share: the records they exchange,    *)
(* the arithmetic that cuts a file into chunks, the validation of what     *)
(* arrives, the checkpoint operations on records, and positioned writes.   *)
(*                                                                         *)
(* Abstractions.  All transfers are of files of one name, hence to one     *)
(* output path.  session_id is 0 in every message the code builds and      *)
(* protocol_version is a compiled-in constant: their comparisons cannot    *)
(* fail between these peers and are left out.  A vector of chunk indexes   *)
(* is the SET of its members: missing_chunks builds it in ascending order, *)
(* validate_continue_request refuses any other, and both loops walk it     *)
(* from the smallest.                                                      *)
(***************************************************************************)
EXTENDS Integers, Sequences, FiniteSets

CONSTANTS
    Byte,               \* the values of a byte
    Zero,               \* what a hole left by seekp reads back as
    Contents,           \* the contents a file being sent may have
    ChunkSize,          \* kDefaultChunkSize
    ReadSize,           \* how many bytes sha256_file reads at once
    kMaxChunkIndexes,   \* the longest chunk list a request may carry
    Absent              \* no such file, no such value

ASSUME ChunkPlanAssumption ==
    /\ Zero \in Byte
    /\ Contents \subseteq Seq(Byte)
    /\ ChunkSize \in Nat \ {0}
    /\ ReadSize \in Nat \ {0}
    /\ kMaxChunkIndexes \in Nat
    /\ Absent \notin Seq(Byte)

File == Seq(Byte)

-----------------------------------------------------------------------------
(* FileManifest, ChunkHeader, ContinueRequest, TransferCheckpoint *)

Manifest   == [file_size : Nat, chunk_size : {ChunkSize}, chunk_count : Nat]
Header     == [chunk_index : Nat, byte_offset : Nat, payload_size : Int]
Request    == [total_chunks : Nat, missing : SUBSET Nat]
Checkpoint == [file_size : Nat, chunk_size : {ChunkSize}, total_chunks : Nat,
               completed : SUBSET Nat]

\* SHA-256 is taken to be collision free: a digest determines the bytes.
Sha256(bytes) == [sha256 |-> bytes]
Digest        == [sha256 : File]

-----------------------------------------------------------------------------
(* Cutting a file into chunks *)

chunk_count(size, chunk_size) ==
    IF chunk_size = 0 THEN 0 ELSE (size + chunk_size - 1) \div chunk_size

chunk_offset(m, i) == i * m.chunk_size

\* All chunks are chunk_size bytes long but the last, which has what is left.
payload_size_for_chunk(m, i) ==
    LET remaining == m.file_size - chunk_offset(m, i)
    IN  IF remaining < m.chunk_size THEN remaining ELSE m.chunk_size

\* Mutant: the index of the last chunk instead of the number of chunks.
NewManifest_LastIndex(size) ==
    [file_size |-> size, chunk_size |-> ChunkSize,
     chunk_count |-> chunk_count(size, ChunkSize) - 1]

NewManifest(size) ==
    [file_size |-> size, chunk_size |-> ChunkSize,
     chunk_count |-> chunk_count(size, ChunkSize)]

NewHeader(m, i) ==
    [chunk_index |-> i, byte_offset |-> chunk_offset(m, i),
     payload_size |-> payload_size_for_chunk(m, i)]

-----------------------------------------------------------------------------
(* Validation of what arrives *)

\* deserialize_file_manifest
valid_manifest(m) ==
    /\ m.chunk_size # 0
    /\ m.chunk_count = (m.file_size + m.chunk_size - 1) \div m.chunk_size

\* Mutant: the last chunk is expected to be as long as the others.
validate_chunk_header_NoShortLast(m, h) ==
    /\ h.chunk_index < m.chunk_count
    /\ h.byte_offset = h.chunk_index * m.chunk_size
    /\ h.payload_size = m.chunk_size

validate_chunk_header(m, h) ==
    /\ m.chunk_size # 0
    /\ h.chunk_index < m.chunk_count
    /\ h.payload_size > 0
    /\ h.payload_size <= m.chunk_size
    /\ h.byte_offset = h.chunk_index * m.chunk_size
    /\ h.byte_offset < m.file_size
    /\ h.byte_offset + h.payload_size <= m.file_size
    /\ h.payload_size = IF h.chunk_index + 1 = m.chunk_count
                        THEN m.file_size - h.byte_offset
                        ELSE m.chunk_size

\* receive_continue_request refuses an oversized list before it looks inside.
receivable_request(r) == Cardinality(r.missing) <= kMaxChunkIndexes

validate_continue_request(m, r) ==
    /\ r.total_chunks = m.chunk_count
    /\ \A i \in r.missing : i < m.chunk_count

-----------------------------------------------------------------------------
(* Checkpoints in memory *)

create_checkpoint_from_manifest(m) ==
    [file_size |-> m.file_size, chunk_size |-> m.chunk_size,
     total_chunks |-> m.chunk_count, completed |-> {}]

checkpoint_matches_manifest(c, m) ==
    /\ c.file_size = m.file_size
    /\ c.chunk_size = m.chunk_size
    /\ c.total_chunks = m.chunk_count
    /\ \A i \in c.completed : i < m.chunk_count

missing_chunks(c) == (0 .. c.total_chunks - 1) \ c.completed

\* Mutant: the lists are walked from their ends.
NextOf_Last(indexes) == {i \in indexes : \A j \in indexes : i >= j}

\* The next index of a list of chunks: the loops take them in ascending order.
NextOf(indexes) == {i \in indexes : \A j \in indexes : i <= j}

-----------------------------------------------------------------------------
(* Files *)

\* seekp to offset, then write: bytes between the old end and offset read Zero.
WriteAt(file, offset, data) ==
    LET end == offset + Len(data)
    IN  [k \in 1 .. (IF Len(file) < end THEN end ELSE Len(file)) |->
            IF offset < k /\ k <= end THEN data[k - offset]
            ELSE IF k <= Len(file) THEN file[k] ELSE Zero]

\* seekg to offset, then read of n bytes; only asked for when they are there.
ReadAt(file, offset, n) == [k \in 1 .. n |-> file[offset + k]]

\* A read that asks for more than there may be, and gets what there is.
ReadUpTo(file, offset, n) ==
    ReadAt(file, offset, IF Len(file) - offset < n THEN Len(file) - offset ELSE n)

\* What sha256_file reads of a file the nth time, counted from 0.
Piece(file, n) == ReadUpTo(file, n * ReadSize, ReadSize)

=============================================================================
