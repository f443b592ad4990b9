-------------------------------- MODULE Codecs --------------------------------
(***************************************************************************)
(* Messages as bytes: the layouts that the codecs write and read back, the *)
(* checks they make on the way, and the arithmetic of the chunks in the    *)
(* width the code has for it (ChunkPlan has it over the naturals).         *)
(*                                                                         *)
(* Base and the widths are parameters: 256 and 2, 4, 8 in the code.  A     *)
(* character of a file name and a digit of a digest are one byte each.     *)
(***************************************************************************)
EXTENDS Integers, Sequences

CONSTANTS
    Base,                   \* the number of values of a byte
    W16, W32, W64,          \* bytes in a uint16_t, a uint32_t, a uint64_t
    kMaxFilenameLength,
    kMaxChunkIndexes,
    DigestSize,             \* characters of sha256_hex
    kProtocolVersion,
    Absent                  \* no value: the bytes are refused

ASSUME CodecsAssumption ==
    /\ Base \in Nat \ {0, 1}
    /\ W16 \in Nat \ {0} /\ W32 \in Nat /\ W64 \in Nat
    /\ W16 <= W32 /\ W32 < W64
    /\ DigestSize \in Nat

Bytes == 0 .. Base - 1

\* The number of values of an integer of so many bytes.
Power[width \in 0 .. W64] == IF width = 0 THEN 1 ELSE Base * Power[width - 1]

\* The limits and the version fit into their fields.
ASSUME LimitsAssumption ==
    /\ kMaxFilenameLength \in 1 .. Power[W16] - 1
    /\ kMaxChunkIndexes \in 0 .. Power[W64] - 1
    /\ kProtocolVersion \in 0 .. Power[W16] - 1

\* What is left of a number in a uint32_t and in a uint64_t.
U32(n) == n % Power[W32]
U64(n) == n % Power[W64]

-----------------------------------------------------------------------------
(* Integers as bytes, most significant first *)

\* append_u16, append_u32, append_u64
append(width, value) == [k \in 1 .. width |-> (value \div Power[width - k]) % Base]

\* read_u16, read_u32, read_u64, at offset
read(width, input, offset) ==
    LET value[i \in 0 .. width] ==
            IF i = 0 THEN 0 ELSE value[i - 1] * Base + input[offset + i]
    IN  value[width]

\* A layout is the list of the widths of consecutive fields.
Start(layout, k) ==
    LET at[i \in 0 .. Len(layout)] == IF i = 0 THEN 0 ELSE at[i - 1] + layout[i]
    IN  at[k - 1]

SizeOf(layout) == Start(layout, Len(layout) + 1)

Pack(layout, values) ==
    LET bytes[k \in 0 .. Len(layout)] ==
            IF k = 0 THEN <<>> ELSE bytes[k - 1] \o append(layout[k], values[k])
    IN  bytes[Len(layout)]

Unpack(layout, input) ==
    [k \in 1 .. Len(layout) |-> read(layout[k], input, Start(layout, k))]

After(layout, input) == SubSeq(input, SizeOf(layout) + 1, Len(input))

-----------------------------------------------------------------------------
(* The arithmetic of the chunks, in the code's width *)

chunk_count(size, chunk_size) ==
    IF chunk_size = 0 THEN 0 ELSE U64(size + chunk_size - 1) \div chunk_size

\* Mutant: the product is computed in 32 bits.
chunk_offset_32(m, i) == U32(i * m.chunk_size)

chunk_offset(m, i) == U64(i * m.chunk_size)

payload_size_for_chunk(m, i) ==
    LET remaining == U64(m.file_size - chunk_offset(m, i))
    IN  U32(IF remaining < m.chunk_size THEN remaining ELSE m.chunk_size)

\* Mutant: every chunk counts as a whole one.
bytes_for_chunks_Whole(m, indexes) == U64(Len(indexes) * m.chunk_size)

\* The total of ProgressTracker, over a list of chunks.
bytes_for_chunks(m, indexes) ==
    LET total[k \in 0 .. Len(indexes)] ==
            IF k = 0 THEN 0 ELSE U64(total[k - 1] + payload_size_for_chunk(m, indexes[k]))
    IN  total[Len(indexes)]

NewManifest(name, size, chunk_size) ==
    [filename |-> name, file_size |-> size, chunk_size |-> chunk_size,
     chunk_count |-> chunk_count(size, chunk_size),
     protocol_version |-> kProtocolVersion, session_id |-> 0]

NewHeader(m, i) ==
    [session_id |-> m.session_id, chunk_index |-> i, byte_offset |-> chunk_offset(m, i),
     payload_size |-> payload_size_for_chunk(m, i)]

validate_chunk_header(m, h) ==
    /\ m.chunk_size # 0
    /\ h.chunk_index < m.chunk_count
    /\ h.payload_size # 0
    /\ h.payload_size <= m.chunk_size
    /\ h.session_id = m.session_id
    /\ h.byte_offset = U64(h.chunk_index * m.chunk_size)
    /\ h.byte_offset < m.file_size
    /\ U64(h.byte_offset + h.payload_size) <= m.file_size
    /\ h.payload_size = IF U64(h.chunk_index + 1) = m.chunk_count
                        THEN U64(m.file_size - h.byte_offset)
                        ELSE m.chunk_size

\* The list must be strictly ascending: no chunk is sent twice.
validate_continue_request(m, r) ==
    /\ r.session_id = m.session_id
    /\ r.total_chunks = m.chunk_count
    /\ \A k \in 1 .. Len(r.missing) :
          /\ r.missing[k] < m.chunk_count
          /\ k > 1 => r.missing[k - 1] < r.missing[k]

-----------------------------------------------------------------------------
(* FileManifest *)

FileManifest ==
    [filename : Seq(Bytes), file_size : Nat, chunk_size : Nat, chunk_count : Nat,
     protocol_version : Nat, session_id : Nat]

kManifestMagic == 1
ManifestLayout == <<W32, W16, W16, W64, W32, W64, W64, W16>>

\* The size of every manifest fits in front of it.
ASSUME ManifestAssumption == SizeOf(ManifestLayout) + kMaxFilenameLength < Power[W32]

\* Mutant: the size in front of the manifest counts itself.
serialize_file_manifest_CountsItself(m) ==
    LET payload == Pack(ManifestLayout,
                        <<kManifestMagic, m.protocol_version, Len(m.filename), m.file_size,
                          m.chunk_size, m.chunk_count, m.session_id, 0>>) \o m.filename
    IN  append(W32, W32 + Len(payload)) \o payload

\* No bytes at all, and no message, for a name that is too long.
serialize_file_manifest(m) ==
    LET payload == Pack(ManifestLayout,
                        <<kManifestMagic, m.protocol_version, Len(m.filename), m.file_size,
                          m.chunk_size, m.chunk_count, m.session_id, 0>>) \o m.filename
    IN  IF Len(m.filename) > kMaxFilenameLength
        THEN <<>>
        ELSE append(W32, Len(payload)) \o payload

\* Mutant: the longest name counts as too long.
acceptable_payload_size_Strict(n) ==
    SizeOf(ManifestLayout) <= n /\ n < SizeOf(ManifestLayout) + kMaxFilenameLength

acceptable_payload_size(n) ==
    SizeOf(ManifestLayout) <= n /\ n <= SizeOf(ManifestLayout) + kMaxFilenameLength

deserialize_file_manifest(frame) ==
    LET payload == SubSeq(frame, W32 + 1, Len(frame))
        field   == Unpack(ManifestLayout, payload)
    IN  IF /\ Len(frame) >= W32
           /\ acceptable_payload_size(read(W32, frame, 0))
           /\ Len(frame) = W32 + read(W32, frame, 0)
           /\ field[1] = kManifestMagic
           /\ field[2] = kProtocolVersion
           /\ field[3] \in 1 .. kMaxFilenameLength
           /\ SizeOf(ManifestLayout) + field[3] = Len(payload)
           /\ field[5] # 0
           /\ field[6] = U64(field[4] + field[5] - 1) \div field[5]
        THEN [filename |-> After(ManifestLayout, payload), file_size |-> field[4],
              chunk_size |-> field[5], chunk_count |-> field[6],
              protocol_version |-> field[2], session_id |-> field[7]]
        ELSE Absent

-----------------------------------------------------------------------------
(* ContinueRequest *)

ContinueRequest == [session_id : Nat, total_chunks : Nat, missing : Seq(Nat)]

kContinueRequestMagic == 2
RequestLayout == <<W32, W64, W64, W64>>

serialize_continue_request(r) ==
    Pack(RequestLayout, <<kContinueRequestMagic, r.session_id, r.total_chunks, Len(r.missing)>>)
        \o Pack([k \in 1 .. Len(r.missing) |-> W64], r.missing)

deserialize_continue_request(payload) ==
    LET field == Unpack(RequestLayout, payload)
    IN  IF /\ Len(payload) >= SizeOf(RequestLayout)
           /\ field[1] = kContinueRequestMagic
           /\ field[4] <= kMaxChunkIndexes
           /\ Len(payload) = SizeOf(RequestLayout) + field[4] * W64
        THEN [session_id |-> field[2], total_chunks |-> field[3],
              missing |-> Unpack([k \in 1 .. field[4] |-> W64], After(RequestLayout, payload))]
        ELSE Absent

-----------------------------------------------------------------------------
(* ChunkHeader *)

ChunkHeader == [session_id : Nat, chunk_index : Nat, byte_offset : Nat, payload_size : Nat]

kChunkHeaderMagic == 3

\* Mutant: a chunk's place in the file is written in 32 bits.
HeaderLayout_32 == <<W32, W64, W64, W32, W32>>

HeaderLayout == <<W32, W64, W64, W64, W32>>

serialize_chunk_header(h) ==
    Pack(HeaderLayout,
         <<kChunkHeaderMagic, h.session_id, h.chunk_index, h.byte_offset, h.payload_size>>)

deserialize_chunk_header(payload) ==
    LET field == Unpack(HeaderLayout, payload)
    IN  IF Len(payload) = SizeOf(HeaderLayout) /\ field[1] = kChunkHeaderMagic
        THEN [session_id |-> field[2], chunk_index |-> field[3],
              byte_offset |-> field[4], payload_size |-> field[5]]
        ELSE Absent

-----------------------------------------------------------------------------
(* HashPacket *)

HashPacket == [session_id : Nat, sha256_hex : Seq(Bytes)]

kHashPacketMagic == 4
HashLayout == <<W32, W64>>
HexDigits == Bytes \ {0}     \* the bytes that stand for 0-9 and a-f

is_sha256_hex(value) ==
    Len(value) = DigestSize /\ \A k \in 1 .. Len(value) : value[k] \in HexDigits

serialize_hash_packet(p) ==
    IF is_sha256_hex(p.sha256_hex)
    THEN Pack(HashLayout, <<kHashPacketMagic, p.session_id>>) \o p.sha256_hex
    ELSE <<>>

deserialize_hash_packet(payload) ==
    LET field == Unpack(HashLayout, payload)
        hex   == After(HashLayout, payload)
    IN  IF /\ Len(payload) = SizeOf(HashLayout) + DigestSize
           /\ field[1] = kHashPacketMagic
           /\ is_sha256_hex(hex)
        THEN [session_id |-> field[2], sha256_hex |-> hex]
        ELSE Absent

=============================================================================
