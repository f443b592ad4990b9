----------------------------- MODULE Sha256Blocks -----------------------------
(***************************************************************************)
(* sha256_file: the loop that reads the file and class Sha256, up to the   *)
(* compression of a block.  A byte of the file is its position, and what   *)
(* process_block has consumed, one block after the other, is kept instead  *)
(* of the digest: two inputs give the same digest if they give the same    *)
(* blocks.                                                                 *)
(***************************************************************************)
EXTENDS Integers, Sequences, FiniteSetsExt

CONSTANTS
    Block,          \* buffer_.size(): 64
    LengthBytes,    \* bytes of bit_count_: 8
    ReadSize,       \* size of the buffer of sha256_file: 64 KiB
    Radix,          \* values of a byte: 256
    Lengths         \* the file lengths to look at

ASSUME Sha256Assumption ==
    /\ Block \in Nat /\ LengthBytes \in 1 .. Block - 1 /\ ReadSize \in Nat \ {0}
    /\ Radix^LengthBytes \in Nat \ {0}
    /\ Lengths \subseteq 1 .. Radix^LengthBytes \div 8 - 1 \cup {0}

Marker == -1        \* 0x80

VARIABLES
    length,         \* length of the file
    sha,            \* the Sha256 object
    consumed,       \* bytes read from the file
    digest          \* "pending", "returned" or "thrown"

shaVars == <<length, sha, consumed, digest>>

ShaInit ==
    /\ length \in Lengths
    /\ sha = [buffer |-> <<>>, bit_count |-> 0, hashed |-> <<>>]
    /\ consumed = 0
    /\ digest = "pending"

-----------------------------------------------------------------------------
(* class Sha256 *)

\* buffer_[buffer_size_++] = byte, and process_block when that fills it.
Put(s, byte) ==
    LET filled == Append(s.buffer, byte)
    IN  IF Len(filled) < Block THEN [s EXCEPT !.buffer = filled]
        ELSE [s EXCEPT !.buffer = <<>>, !.hashed = @ \o filled]

PutAll(s, bytes) ==
    LET after[k \in 0 .. Len(bytes)] == IF k = 0 THEN s ELSE Put(after[k - 1], bytes[k])
    IN  after[Len(bytes)]

update(s, data) ==
    PutAll([s EXCEPT !.bit_count = (@ + Len(data) * 8) % Radix^LengthBytes], data)

Zeros(n) == [k \in 1 .. n |-> 0]

\* The loop over shift: most significant byte first.
BigEndian(n) == [k \in 1 .. LengthBytes |-> (n \div Radix^(LengthBytes - k)) % Radix]

\* Mutant: a block too many when the marker just fits before the length.
final_hex_OneMore(s) ==
    LET marked == PutAll(s, <<Marker>>)
        room   == IF Len(marked.buffer) >= Block - LengthBytes
                  THEN PutAll(marked, Zeros(Block - Len(marked.buffer))) ELSE marked
    IN  PutAll(room, Zeros(Block - LengthBytes - Len(room.buffer)) \o BigEndian(s.bit_count))

final_hex(s) ==
    LET marked == PutAll(s, <<Marker>>)
        room   == IF Len(marked.buffer) > Block - LengthBytes
                  THEN PutAll(marked, Zeros(Block - Len(marked.buffer))) ELSE marked
    IN  PutAll(room, Zeros(Block - LengthBytes - Len(room.buffer)) \o BigEndian(s.bit_count))

-----------------------------------------------------------------------------
(* sha256_file *)

FileBytes(from, to) == [k \in 1 .. to - from |-> from + k]

\* A full buffer: the loop goes on, even when that was all of the file.
ReadFull ==
    /\ digest = "pending" /\ length - consumed >= ReadSize
    /\ sha' = update(sha, FileBytes(consumed, consumed + ReadSize))
    /\ consumed' = consumed + ReadSize
    /\ UNCHANGED <<length, digest>>

\* Fewer bytes, perhaps none: end of file, and the digest is returned.
ReadLast ==
    /\ digest = "pending" /\ length - consumed < ReadSize
    /\ sha' = final_hex(IF length > consumed THEN update(sha, FileBytes(consumed, length)) ELSE sha)
    /\ consumed' = length
    /\ digest' = "returned"
    /\ UNCHANGED length

\* The device fails after n bytes: the loop ends without end of file.
ReadFails(n) ==
    /\ digest = "pending" /\ n < ReadSize /\ consumed + n <= length
    /\ sha' = update(sha, FileBytes(consumed, consumed + n))
    /\ consumed' = consumed + n
    /\ digest' = "thrown"
    /\ UNCHANGED length

ShaNext == ReadFull \/ ReadLast \/ \E n \in 0 .. ReadSize - 1 : ReadFails(n)

ShaSpec == ShaInit /\ [][ShaNext]_shaVars

-----------------------------------------------------------------------------
(* Properties *)

\* The padding of the standard: the message, a marker, the fewest zeros that
\* fill the last block, and the length of the message in bits.
Padded ==
    LET fit(k) == (length + 1 + k + LengthBytes) % Block = 0
        zeros == Min({k \in 0 .. Block : fit(k)})
    IN  FileBytes(0, length) \o <<Marker>> \o Zeros(zeros) \o BigEndian(8 * length)

\* A digest that sha256_file returns is computed from the blocks of the padded
\* file, all of it and nothing else, wherever the file ends within a block or a
\* read; a file that cannot be read to its end has no digest.
DigestsWholeFile ==
    digest = "returned" => sha.hashed = Padded /\ sha.buffer = <<>>

=============================================================================
