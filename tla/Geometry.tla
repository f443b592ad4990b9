------------------------------- MODULE Geometry -------------------------------
(***************************************************************************)
(* The arithmetic of the chunks in the width of the code, beside the same  *)
(* arithmetic over the naturals, which the other modules use.  A file has  *)
(* any size up to the largest that file_size can return: tellg is signed,  *)
(* so that is half of what a uint64_t holds.                               *)
(***************************************************************************)
EXTENDS Codecs

CONSTANT SentNames      \* file names that a sender may announce

ASSUME SentNamesAssumption ==
    \A name \in SentNames : name \in Seq(Bytes) /\ Len(name) \in 1 .. kMaxFilenameLength

VARIABLE size   \* of the file, or Absent

Plan == INSTANCE ChunkPlan WITH
    Byte <- Bytes, Zero <- 0, Contents <- {}, ChunkSize <- 1, ReadSize <- 1

\* file_size
MaxFileSize == Power[W64] \div 2 - 1

GeometryInit == size \in 0 .. MaxFileSize

-----------------------------------------------------------------------------
(* Properties *)

\* The manifest of a file of this size, for every chunk size.
Manifests == {NewManifest(<<1>>, size, chunk_size) : chunk_size \in 1 .. Power[W32] - 1}

IndexesOf(m) == 0 .. m.chunk_count - 1

\* The header of chunk i is the one over the naturals, and is accepted.
HeaderIsExact(m, i) ==
    LET h == NewHeader(m, i)
    IN  /\ h.byte_offset = Plan!chunk_offset(m, i)
        /\ h.payload_size = Plan!payload_size_for_chunk(m, i)
        /\ Plan!validate_chunk_header(m, h)
        /\ validate_chunk_header(m, h)

\* No size that a file can have makes the 64-bit sums and products of
\* chunk_count, payload_size_for_chunk and validate_chunk_header wrap around,
\* whatever the chunk size: the plan of a file in the code's integers is its
\* plan over the naturals.
WidthsSuffice ==
    size # Absent =>
        \A m \in Manifests :
            /\ m.chunk_count = Plan!chunk_count(m.file_size, m.chunk_size)
            /\ \A i \in IndexesOf(m) : HeaderIsExact(m, i)

\* The last chunks of a manifest, from one on, as a list.
TailFrom(m, first) == [k \in 1 .. m.chunk_count - first |-> first + k - 1]

\* The requests for chunks of a file that has as many chunks as it has bytes,
\* which is any number of chunks a file can have.
Requests ==
    {[session_id |-> 0, total_chunks |-> size, missing |-> list] :
        list \in UNION {[1 .. n -> 0 .. size - 1] : n \in 0 .. kMaxChunkIndexes}}

\* The packets of all digests.
HashPackets ==
    {[session_id |-> 0, sha256_hex |-> hex] : hex \in [1 .. DigestSize -> HexDigits]}

\* The bytes of the last chunks, from each one on.
TailsAddUp(m) ==
    \A first \in 0 .. m.chunk_count :
        bytes_for_chunks(m, TailFrom(m, first)) =
            IF first = m.chunk_count THEN 0 ELSE m.file_size - first * m.chunk_size

ManifestReturns(m) == deserialize_file_manifest(serialize_file_manifest(m)) = m
HeaderReturns(h)   == deserialize_chunk_header(serialize_chunk_header(h)) = h
RequestReturns(r)  == deserialize_continue_request(serialize_continue_request(r)) = r
PacketReturns(p)   == deserialize_hash_packet(serialize_hash_packet(p)) = p

\* Whichever chunk a transfer is resumed from, bytes_for_chunks is what the
\* file has from there on.  The manifest under any name, the headers of all
\* chunks, every request within the limit and every hash packet are still
\* themselves when they have been written and read back, field by field in
\* the widths of the codecs.
TripsAreExact ==
    size # Absent =>
        /\ \A m \in Manifests :
              /\ TailsAddUp(m)
              /\ \A name \in SentNames : ManifestReturns([m EXCEPT !.filename = name])
              /\ \A i \in IndexesOf(m) : HeaderReturns(NewHeader(m, i))
        /\ \A r \in Requests : RequestReturns(r)
        /\ \A p \in HashPackets : PacketReturns(p)

=============================================================================
