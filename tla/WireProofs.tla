----------------------------- MODULE WireProofs -----------------------------
(***************************************************************************)
(* One connection, for every width of the integers, every size of a file,  *)
(* of a chunk and of the kernel's buffers: neither end refuses what the    *)
(* other has written, progress is exact, and the bytes implement the       *)
(* queues of whole messages that Transfer is built on.                     *)
(***************************************************************************)
EXTENDS WireRefinement, CodecProofs

(* No file has more chunks than a request may ask for; one that has is the   *)
(* subject of the run request_limit.                                         *)
Requestable == \A n \in FileSizes : chunk_count(n, ChunkSize) <= kMaxChunkIndexes

-----------------------------------------------------------------------------
(* The invariant *)

(* The bytes of message k of exchange s that end e is sent. *)
Part(s, e, k) == IF s[k].by # e THEN s[k].bytes ELSE <<>>

(* All bytes that end e is sent from message k on. *)
Coming(s, e) ==
    LET n == Len(s)
        last[j \in 0 .. n] == IF j = 0 THEN <<>> ELSE Part(s, e, n + 1 - j) \o last[j - 1]
    IN  [k \in 1 .. n + 1 |-> last[n + 1 - k]]

(* Message k is one that e sends, or reads. *)
Written(s, e, k) == k <= Len(s) /\ s[k].by = e
Expected(s, e, k) == k <= Len(s) /\ s[k].by # e

(* The bytes for e that are not handed to the kernel yet when the other end  *)
(* is at message k and has sent n bytes of it.                               *)
Unsent(s, e, k, n) ==
    IF Expected(s, e, k)
    THEN SubSeq(s[k].bytes, n + 1, Len(s[k].bytes)) \o Coming(s, e)[k + 1]
    ELSE Coming(s, e)[k]

(* End e is at message k, has collected b of it, and w is on its way: that   *)
(* is the beginning of what it expects, and on a connection that is up the   *)
(* other end, at byte n of message j, has yet to send the rest.              *)
InStep(s, e, k, b, w, j, n, alive) ==
    \E more \in Seq(Bytes) :
        /\ (b \o w) \o more = Coming(s, e)[k]
        /\ alive => more = Unsent(s, e, j, n)

(* An end collects less than a message, and only while it reads one. *)
Collecting(s, e, k, b) == IF Expected(s, e, k) THEN Len(b) < Len(s[k].bytes) ELSE b = <<>>

(* An end has sent less than the message it is at, if it is one to send. *)
Sending(s, e, k, n) == IF Written(s, e, k) THEN n < Len(s[k].bytes) ELSE n = 0

(* The exchange is one about a file that may be sent and some of its chunks. *)
Exchanges ==
    {x \in Names \X FileSizes \X Seq(Nat) : x[3] \in Lists(chunk_count(x[2], ChunkSize))}
ScriptOf(x) == Exchange(NewManifest(x[1], x[2], ChunkSize), x[3])

(* The chunks that an end has sent or received when it is at message k. *)
Passed(s, k) == IF k < 3 THEN 0 ELSE IF k < Len(s) THEN k - 3 ELSE Len(s) - 3

(* Where chunk i begins: at the end of the file, for the one after the last. *)
Begin(n, i) == Boundary(n, ChunkSize, chunk_count(n, ChunkSize), i)

(* The bytes of the first chunks of the list, as bytes_for_chunks adds them up. *)
TotalOf(x) ==
    LET total[k \in 0 .. Len(x[3])] ==
            IF k = 0 THEN 0
            ELSE U64(total[k - 1]
                     + payload_size_for_chunk(NewManifest(x[1], x[2], ChunkSize), x[3][k]))
    IN  total

WireTypes ==
    /\ at \in [Ends -> 1 .. Len(script) + 1]
    /\ sent \in [Ends -> Nat]
    /\ buf \in [Ends -> Seq(Bytes)]
    /\ wire \in [Ends -> Seq(Bytes)]
    /\ up \in BOOLEAN
    /\ got \in [Ends -> Seq(Message)]
    /\ progress \in [Ends -> [bytes : Nat, chunks : Nat]]
    /\ ended \in [Ends -> {"no", "refused", "failed", "done"}]

StreamInv ==
    \A e \in Ends : ended[e] = "no" =>
        InStep(script, e, at[e], buf[e], wire[e], at[Peer(e)], sent[Peer(e)], up)

CollectInv == \A e \in Ends : Collecting(script, e, at[e], buf[e])

SentInv == \A e \in Ends : Sending(script, e, at[e], sent[e])

(* The receiver has the manifest first. *)
GotInv ==
    IF at["receiver"] = 1 THEN got["receiver"] = <<>>
    ELSE Len(got["receiver"]) > 0 /\ got["receiver"][1] = script[1].msg

(* A connection that is up has two ends, and nothing was refused. *)
EndInv == \A e \in Ends : (up => ended[e] = "no") /\ ended[e] # "refused"

(* Progress counts the chunks that an end is past, and their bytes. *)
ProgressAt(x, k, p) ==
    LET c == Passed(ScriptOf(x), k)
    IN  p = [bytes |-> TotalOf(x)[c], chunks |-> c]

ProgressInv(x) == \A e \in Ends : ProgressAt(x, at[e], progress[e])

(* The invariant of the exchange x, and of all. *)
WireInvOf(x) ==
    /\ script = ScriptOf(x)
    /\ WireTypes /\ StreamInv /\ CollectInv /\ SentInv /\ GotInv /\ EndInv /\ ProgressInv(x)

WireInv == \E x \in Exchanges : WireInvOf(x)

-----------------------------------------------------------------------------
(* Framing: what the first part of a message says about its size is so *)

(* The bytes of a whole message. *)
Whole(type, b) ==
    /\ b \in Seq(Bytes)
    /\ FixedSize(type) \in Nat \ {0} /\ FixedSize(type) <= Len(b)
    /\ RestSize(type, SubSeq(b, 1, FixedSize(type))) = Len(b) - FixedSize(type)

(* Every layout has a size. *)
LEMMA SizesOfLayouts ==
    /\ SizeOf(RequestLayout) \in Nat \ {0}
    /\ SizeOf(HeaderLayout) \in Nat \ {0}
    /\ SizeOf(HashLayout) \in Nat \ {0}
PROOF
  <1>1. ASSUME NEW L \in Layouts, NEW n \in {2, 4, 5}, Len(L) = n PROVE SizeOf(L) \in Nat \ {0}
    <2>1. L \in Seq(Nat) /\ \A k \in 1 .. n : L[k] \in Nat \ {0}
      <3>1. L \in Seq(1 .. W64) /\ 1 .. W64 \subseteq Nat
        BY <1>1, Widths DEF Layouts
      <3>2. L \in Seq(Nat)
        BY <3>1, SeqMonotonic
      <3>3. \A k \in 1 .. Len(L) : L[k] \in 1 .. W64
        BY <3>1, ElementOfSeq
      <3> QED
        BY <1>1, <3>2, <3>3, Widths
    <2>2. /\ Start(L, 1) = 0
          /\ \A k \in 1 .. n : Start(L, k + 1) = Start(L, k) + L[k]
      BY <1>1, <2>1, Starts
    <2>3. ASSUME NEW k \in 1 .. n, Start(L, k) \in Nat PROVE Start(L, k + 1) \in Nat \ {0}
      <3>1. L[k] \in Nat \ {0} /\ Start(L, k + 1) = Start(L, k) + L[k]
        BY <2>1, <2>2, Zenon
      <3> QED
        BY <2>3, <3>1
    <2>4. Start(L, 2) \in Nat /\ Start(L, 3) \in Nat \ {0}
      BY <2>2, <2>3
    <2>5. n # 2 => Start(L, 4) \in Nat /\ Start(L, 5) \in Nat \ {0}
      BY <2>3, <2>4
    <2>6. n = 5 => Start(L, 6) \in Nat \ {0}
      BY <2>3, <2>5
    <2> QED
      BY <1>1, <2>4, <2>5, <2>6 DEF SizeOf
  <1> QED
    BY <1>1, LayoutTypes

(* The beginning of a sequence, element by element. *)
LEMMA Beginning ==
    ASSUME NEW b \in Seq(Bytes), NEW n \in 0 .. Len(b)
    PROVE  /\ SubSeq(b, 1, n) \in Seq(Bytes) /\ Len(SubSeq(b, 1, n)) = n
           /\ \A i \in 1 .. n : SubSeq(b, 1, n)[i] = b[i]
  OBVIOUS

LEMMA ManifestFrame ==
    ASSUME NEW m \in FittingManifests
    PROVE  Whole("manifest", serialize_file_manifest(m))
PROOF
  <1> DEFINE payload == Pack(ManifestLayout, ManifestFields(m)) \o m.filename
             frame == append(W32, Len(payload)) \o payload
             fixed == SubSeq(frame, 1, W32)
  <1>1. /\ payload \in Seq(Bytes) /\ Len(payload) \in 0 .. Power[W32] - 1
        /\ acceptable_payload_size(Len(payload))
        /\ serialize_file_manifest(m) = frame
    BY ManifestBytes
  <1> HIDE DEF payload
  <1>2. /\ frame \in Seq(Bytes) /\ Len(frame) = W32 + Len(payload)
        /\ \A input : (\A i \in 1 .. W32 : input[i] = frame[i]) => read(W32, input, 0) = Len(payload)
    BY <1>1, SizedFrame
  <1> HIDE DEF frame
  <1>3. W32 \in Nat \ {0} /\ W32 \in 0 .. Len(frame) /\ Len(payload) \in Nat
    BY <1>1, <1>2, Widths
  <1>4. \A i \in 1 .. W32 : fixed[i] = frame[i]
    BY <1>2, <1>3, Beginning
  <1> HIDE DEF fixed
  <1>5. read(W32, fixed, 0) = Len(payload)
    BY <1>2, <1>4, Zenon
  <1>6. FixedSize("manifest") = W32 /\ RestSize("manifest", fixed) = Len(payload)
    BY <1>1, <1>5 DEF FixedSize, RestSize
  <1>7. Len(payload) = Len(frame) - W32 /\ W32 <= Len(frame)
    BY <1>1, <1>2, <1>3
  <1> QED
    BY <1>1, <1>2, <1>3, <1>6, <1>7 DEF Whole, fixed

LEMMA RequestFrame ==
    ASSUME NEW r \in FittingRequests
    PROVE  Whole("request", serialize_continue_request(r))
PROOF
  <1> DEFINE s == serialize_continue_request(r)
             n == Len(r.missing)
             z == SizeOf(RequestLayout)
             fixed == SubSeq(s, 1, z)
  <1>1. /\ s \in Seq(Bytes) /\ Len(s) = z + n * W64
        /\ \A input : (\A i \in 1 .. z : input[i] = s[i])
                          => read(W64, input, Start(RequestLayout, 4)) = n
    BY RequestTrip
  <1>2. n \in Nat /\ n <= kMaxChunkIndexes
    BY DEF FittingRequests, ContinueRequest
  <1>3. z \in Nat \ {0}
    BY SizesOfLayouts
  <1> HIDE DEF s, n, z
  <1>4. n * W64 \in Nat
    BY <1>2, Widths
  <1>5. z \in 0 .. Len(s) /\ n * W64 = Len(s) - z /\ z <= Len(s)
    BY <1>1, <1>3, <1>4
  <1>6. \A i \in 1 .. z : fixed[i] = s[i]
    BY <1>1, <1>5, Beginning
  <1> HIDE DEF fixed
  <1>7. read(W64, fixed, Start(RequestLayout, 4)) = n
    BY <1>1, <1>6, Zenon
  <1>8. FixedSize("request") = z /\ RestSize("request", fixed) = n * W64
    BY <1>2, <1>7 DEF FixedSize, RestSize, z
  <1> QED
    BY <1>1, <1>3, <1>5, <1>8 DEF Whole, fixed, s

LEMMA ChunkFrame ==
    ASSUME NEW h \in FittingHeaders, NEW payload \in Seq(Bytes), Len(payload) = h.payload_size
    PROVE  LET b == serialize_chunk_header(h) \o payload
           IN  /\ Whole("chunk", b)
               /\ deserialize_chunk_header(SubSeq(b, 1, SizeOf(HeaderLayout))) = h
               /\ After(HeaderLayout, b) = payload
               /\ h # Absent
PROOF
  <1> DEFINE front == serialize_chunk_header(h)
             b == front \o payload
             z == SizeOf(HeaderLayout)
  <1>1. front \in Seq(Bytes) /\ Len(front) = z /\ deserialize_chunk_header(front) = h
    BY HeaderTrip
  <1>2. z \in Nat \ {0}
    BY SizesOfLayouts
  <1> HIDE DEF front, z
  <1>3. /\ b \in Seq(Bytes) /\ Len(b) = z + Len(payload)
        /\ SubSeq(b, 1, z) = front /\ SubSeq(b, z + 1, Len(b)) = payload
    BY <1>1, RestOf
  <1> HIDE DEF b
  <1>4. h \in ChunkHeader /\ h # Absent
    BY AbsentAssumption DEF FittingHeaders, ChunkHeader
  <1>5. FixedSize("chunk") = z /\ RestSize("chunk", SubSeq(b, 1, z)) = h.payload_size
    BY <1>1, <1>3, <1>4 DEF FixedSize, RestSize, z
  <1>6. h.payload_size = Len(b) - z /\ z <= Len(b)
    BY <1>2, <1>3
  <1>7. Whole("chunk", b)
    BY <1>2, <1>3, <1>5, <1>6 DEF Whole
  <1>8. After(HeaderLayout, b) = payload
    BY <1>3 DEF After, z
  <1> QED
    BY <1>1, <1>3, <1>4, <1>7, <1>8 DEF b, z, front

LEMMA HashFrame ==
    ASSUME NEW p \in FittingPackets
    PROVE  Whole("hash", serialize_hash_packet(p))
PROOF
  <1> DEFINE s == serialize_hash_packet(p)
             z == SizeOf(HashLayout)
  <1>1. s \in Seq(Bytes) /\ Len(s) = z + DigestSize
    BY HashTrip
  <1>2. z \in Nat \ {0} /\ DigestSize \in Nat
    BY SizesOfLayouts, CodecsAssumption
  <1> HIDE DEF s, z
  <1>3. FixedSize("hash") = z + DigestSize /\ RestSize("hash", SubSeq(s, 1, z + DigestSize)) = 0
    BY DEF FixedSize, RestSize, z
  <1>4. z + DigestSize \in Nat \ {0} /\ 0 = Len(s) - (z + DigestSize) /\ z + DigestSize <= Len(s)
    BY <1>1, <1>2
  <1> QED
    BY <1>1, <1>3, <1>4 DEF Whole, s

(* recv_exact never asks for a byte behind the message, and only the whole   *)
(* message is as much as it asks for.                                        *)
LEMMA WantsTheMessage ==
    ASSUME NEW type, NEW b, Whole(type, b), NEW x \in Seq(Bytes), NEW y \in Seq(Bytes), b = x \o y
    PROVE  /\ Wanted(type, x) \in Nat /\ Wanted(type, x) <= Len(b)
           /\ Len(x) >= Wanted(type, x) => Len(x) = Len(b)
PROOF
  <1> DEFINE z == FixedSize(type)
  <1>1. /\ b \in Seq(Bytes) /\ z \in Nat \ {0} /\ z <= Len(b)
        /\ RestSize(type, SubSeq(b, 1, z)) = Len(b) - z
    BY DEF Whole
  <1>2. /\ Len(b) = Len(x) + Len(y) /\ Len(x) \in Nat /\ Len(y) \in Nat
        /\ \A i \in 1 .. Len(x) : x[i] = b[i]
    OBVIOUS
  <1>3. CASE Len(x) < z
    <2>1. Wanted(type, x) = z
      BY <1>3 DEF Wanted
    <2> HIDE DEF z
    <2> QED
      BY <1>1, <1>2, <1>3, <2>1
  <1>4. CASE ~(Len(x) < z)
    <2>1. SubSeq(x, 1, z) = SubSeq(b, 1, z)
      <3> HIDE DEF z
      <3> QED
        BY <1>1, <1>2, <1>4
    <2>2. Wanted(type, x) = z + (Len(b) - z)
      BY <1>1, <1>4, <2>1 DEF Wanted
    <2> HIDE DEF z
    <2> QED
      BY <1>1, <1>2, <2>2
  <1> QED
    BY <1>3, <1>4

-----------------------------------------------------------------------------
(* The messages of an exchange *)

ManifestOf(x) == NewManifest(x[1], x[2], ChunkSize)
CountOf(x) == chunk_count(x[2], ChunkSize)
MissingOf(x) == x[3]
LeftOf(x) == Len(MissingOf(x))

LEMMA FileFacts ==
    ASSUME NEW x \in Exchanges
    PROVE  /\ x[1] \in Seq(Bytes) /\ Len(x[1]) \in 1 .. kMaxFilenameLength
           /\ x[2] \in 0 .. MaxFileSize /\ ChunkSize \in 1 .. Power[W32] - 1
           /\ CountOf(x) \in Nat /\ CountOf(x) < Power[W64]
           /\ CountOf(x) = (x[2] + ChunkSize - 1) \div ChunkSize
           /\ LeftOf(x) \in 0 .. CountOf(x)
           /\ MissingOf(x) \in [1 .. LeftOf(x) -> 0 .. CountOf(x) - 1]
           /\ \A j \in 2 .. LeftOf(x) : MissingOf(x)[j - 1] < MissingOf(x)[j]
           /\ ManifestOf(x) \in FittingManifests
           /\ ManifestOf(x) = [filename |-> x[1], file_size |-> x[2], chunk_size |-> ChunkSize,
                               chunk_count |-> CountOf(x), protocol_version |-> kProtocolVersion,
                               session_id |-> 0]
PROOF
  <1>1. PICK name \in Names, n \in FileSizes, list \in Seq(Nat) :
           name = x[1] /\ n = x[2] /\ list = x[3]
    BY DEF Exchanges
  <1>2. list \in Lists(chunk_count(n, ChunkSize))
    BY <1>1 DEF Exchanges
  <1>3. /\ name \in Seq(Bytes) /\ Len(name) \in 1 .. kMaxFilenameLength
        /\ n \in 0 .. MaxFileSize /\ ChunkSize \in 1 .. Power[W32] - 1
    BY WireStreamAssumption DEF MaxFileSize
  <1>4. NewManifest(name, n, ChunkSize).chunk_count = (n + ChunkSize - 1) \div ChunkSize
    BY <1>3, PlanIsExact
  <1>5. PICK k : k = (n + ChunkSize - 1) \div ChunkSize
    OBVIOUS
  <1>6. chunk_count(n, ChunkSize) = k
    BY <1>4, <1>5 DEF NewManifest
  <1>7. /\ NewManifest(name, n, ChunkSize) \in FittingManifests
        /\ NewManifest(name, n, ChunkSize)
           = [filename |-> name, file_size |-> n, chunk_size |-> ChunkSize, chunk_count |-> k,
              protocol_version |-> kProtocolVersion, session_id |-> 0]
        /\ k \in Nat /\ k < Power[W64]
    BY <1>3, <1>5, ManifestsFit
  <1>8. PICK c \in 0 .. k : list \in [1 .. c -> 0 .. k - 1]
    BY <1>2, <1>6, Zenon DEF Lists
  <1>9. Len(list) = c /\ \A j \in 2 .. c : list[j - 1] < list[j]
    <2>1. Len(list) = c
      BY <1>7, <1>8
    <2> QED
      BY <1>2, <2>1 DEF Lists
  <1> QED
    BY <1>1, <1>3, <1>5, <1>6, <1>7, <1>8, <1>9 DEF CountOf, LeftOf, MissingOf, ManifestOf

(* An exchange: the manifest, the request, the missing chunks, the digest. *)
LEMMA ScriptShape ==
    ASSUME NEW x \in Exchanges
    PROVE  LET s == ScriptOf(x)
               c == LeftOf(x)
               m == ManifestOf(x)
           IN  /\ Len(s) = c + 3
               /\ s[1] = By("sender", ManifestMsg(m))
               /\ s[2] = By("receiver", RequestMsg(m, MissingOf(x)))
               /\ \A j \in 1 .. c : s[j + 2] = By("sender", ChunkMsg(m, MissingOf(x)[j]))
               /\ s[c + 3] = By("sender", HashMsg(m))
PROOF
  <1> DEFINE m == ManifestOf(x)
             c == LeftOf(x)
             a == By("sender", ManifestMsg(m))
             b == By("receiver", RequestMsg(m, MissingOf(x)))
             z == By("sender", HashMsg(m))
             f(j) == By("sender", ChunkMsg(m, MissingOf(x)[j]))
             mid == [j \in 1 .. c |-> f(j)]
             S == {a, b, z} \cup {f(j) : j \in 1 .. c}
  <1>1. c \in Nat
    BY FileFacts
  <1>2. ScriptOf(x) = <<a, b>> \o mid \o <<z>>
    <2>1. DOMAIN MissingOf(x) = 1 .. c
      BY FileFacts
    <2>2. [k \in DOMAIN MissingOf(x) |-> By("sender", ChunkMsg(m, MissingOf(x)[k]))] = mid
      <3> HIDE DEF m, c
      <3> QED
        BY <2>1
    <2> QED
      BY <2>2 DEF ScriptOf, Exchange, ManifestOf, MissingOf
  <1> HIDE DEF m, c, a, b, z, f
  <1>3. <<a, b>> \in Seq(S) /\ mid \in Seq(S) /\ <<z>> \in Seq(S)
    <2>1. a \in S /\ b \in S /\ z \in S /\ \A j \in 1 .. c : f(j) \in S
      OBVIOUS
    <2> HIDE DEF S
    <2> QED
      BY <1>1, <2>1
  <1>4. Len(mid) = c /\ \A j \in 1 .. c : mid[j] = f(j)
    BY <1>1
  <1> HIDE DEF S, mid
  <1>5. PICK u \in Seq(S) : u = <<a, b>> \o mid
    <2>1. <<a, b>> \o mid \in Seq(S)
      BY <1>3, ConcatProperties
    <2> QED
      BY <2>1, Zenon
  <1>6. /\ Len(u) = c + 2 /\ u[1] = a /\ u[2] = b
        /\ \A j \in 1 .. c : u[j + 2] = f(j)
    BY <1>1, <1>3, <1>4, <1>5
  <1>7. /\ Len(u \o <<z>>) = c + 3 /\ \A j \in 1 .. c + 2 : (u \o <<z>>)[j] = u[j]
        /\ (u \o <<z>>)[c + 3] = z
    BY <1>1, <1>3, <1>6
  <1>8. \A j \in 1 .. c : j + 2 \in 1 .. c + 2
    BY <1>1
  <1>9. (u \o <<z>>)[1] = a /\ (u \o <<z>>)[2] = b
    BY <1>1, <1>6, <1>7
  <1>10. \A j \in 1 .. c : (u \o <<z>>)[j + 2] = f(j)
    BY <1>6, <1>7, <1>8
  <1> QED
    BY <1>2, <1>5, <1>7, <1>9, <1>10 DEF m, c, a, b, z, f

(* A message in the exchange, and its bytes. *)
Sound(item) ==
    /\ item.by \in Ends
    /\ item.msg \in Message /\ item.msg # Absent
    /\ item.bytes \in Seq(Bytes) /\ Len(item.bytes) > 0
    /\ Whole(item.msg.type, item.bytes)

(* The bytes of a whole message are some. *)
LEMMA SoundIf ==
    ASSUME NEW e \in Ends, NEW msg \in Message, Whole(msg.type, Serialized(msg))
    PROVE  Sound(By(e, msg))
PROOF
  <1>1. By(e, msg).by = e /\ By(e, msg).msg = msg /\ By(e, msg).bytes = Serialized(msg)
    BY DEF By
  <1>2. Serialized(msg) \in Seq(Bytes) /\ Len(Serialized(msg)) > 0
    BY DEF Whole
  <1>3. msg # Absent
    BY AbsentAssumption
  <1> QED
    BY <1>1, <1>2, <1>3 DEF Sound

LEMMA SoundManifest ==
    ASSUME NEW x \in Exchanges
    PROVE  LET msg == ManifestMsg(ManifestOf(x))
           IN  /\ ManifestOf(x) \in FileManifest
               /\ msg \in Message /\ msg.type = "manifest" /\ msg.manifest = ManifestOf(x)
               /\ Serialized(msg) = serialize_file_manifest(ManifestOf(x))
               /\ Sound(By("sender", msg))
PROOF
  <1> DEFINE m == ManifestOf(x)
             msg == ManifestMsg(m)
  <1>1. m \in FittingManifests
    BY FileFacts
  <1> HIDE DEF m
  <1>2. m \in FileManifest
    <2>1. m \in [filename : Seq(Bytes), file_size : Nat, chunk_size : Nat \ {0},
                chunk_count : Nat, protocol_version : {kProtocolVersion}, session_id : Nat]
      BY <1>1, Zenon DEF FittingManifests
    <2>2. kProtocolVersion \in Nat
      BY LimitsAssumption, MagicsFit
    <2> QED
      BY <2>1, <2>2 DEF FileManifest
  <1>3. msg \in Message /\ msg.type = "manifest" /\ msg.manifest = m
    BY <1>2 DEF ManifestMsg, Message
  <1> HIDE DEF msg
  <1>4. Serialized(msg) = serialize_file_manifest(m)
    BY <1>3 DEF Serialized
  <1>5. Whole(msg.type, Serialized(msg))
    BY <1>1, <1>3, <1>4, ManifestFrame
  <1> QED
    BY <1>2, <1>3, <1>4, <1>5, SoundIf DEF m, msg, Ends

LEMMA SoundRequest ==
    ASSUME Requestable, NEW x \in Exchanges
    PROVE  LET msg == RequestMsg(ManifestOf(x), MissingOf(x))
           IN  /\ msg \in Message /\ msg.type = "request"
               /\ msg.request = [session_id |-> 0, total_chunks |-> CountOf(x), missing |-> MissingOf(x)]
               /\ msg.request \in FittingRequests
               /\ Len(MissingOf(x)) = LeftOf(x)
               /\ Serialized(msg) = serialize_continue_request(msg.request)
               /\ Sound(By("receiver", msg))
PROOF
  <1> DEFINE m == ManifestOf(x)
             msg == RequestMsg(m, MissingOf(x))
             r == [session_id |-> 0, total_chunks |-> CountOf(x), missing |-> MissingOf(x)]
  <1>1. /\ m.session_id = 0 /\ m.chunk_count = CountOf(x)
        /\ CountOf(x) \in Nat /\ CountOf(x) < Power[W64]
        /\ LeftOf(x) \in Nat /\ LeftOf(x) <= CountOf(x)
    BY FileFacts
  <1> HIDE DEF m
  <1>2. CountOf(x) <= kMaxChunkIndexes
    <2>1. x[2] \in FileSizes
      BY DEF Exchanges
    <2> QED
      BY <2>1 DEF Requestable, CountOf
  <1>3. /\ MissingOf(x) \in Seq(Nat) /\ Len(MissingOf(x)) = LeftOf(x)
        /\ \A k \in 1 .. LeftOf(x) : MissingOf(x)[k] \in 0 .. CountOf(x) - 1
    <2>1. PICK c \in Nat, n \in Nat : c = LeftOf(x) /\ n = CountOf(x)
      BY <1>1
    <2>2. MissingOf(x) \in [1 .. c -> 0 .. n - 1]
      BY <2>1, FileFacts
    <2>3. MissingOf(x) \in Seq(Nat) /\ Len(MissingOf(x)) = c
      BY <2>2
    <2> QED
      BY <2>1, <2>2, <2>3
  <1>4. r \in ContinueRequest
    BY <1>1, <1>3 DEF ContinueRequest
  <1>5. r \in FittingRequests
    <2>1. kMaxChunkIndexes \in Nat /\ Power[W64] \in Nat \ {0}
      BY LimitsAssumption, MagicsFit
    <2>2. Len(MissingOf(x)) <= kMaxChunkIndexes /\ 0 < Power[W64]
      BY <1>1, <1>2, <1>3, <2>1
    <2>3. \A k \in 1 .. LeftOf(x) : MissingOf(x)[k] < Power[W64]
      BY <1>1, <1>3, <2>1
    <2> QED
      BY <1>1, <1>3, <1>4, <2>2, <2>3 DEF FittingRequests
  <1>6. msg.type = "request" /\ msg.request = r /\ msg = [type |-> "request", request |-> r]
    BY <1>1 DEF RequestMsg
  <1> HIDE DEF r, msg
  <1>7. msg \in Message
    BY <1>4, <1>6 DEF Message
  <1>8. Serialized(msg) = serialize_continue_request(r)
    BY <1>6 DEF Serialized
  <1>9. Whole(msg.type, Serialized(msg))
    BY <1>5, <1>6, <1>8, RequestFrame
  <1>10. Sound(By("receiver", msg))
    BY <1>7, <1>9, SoundIf DEF Ends
  <1> QED
    BY <1>3, <1>5, <1>6, <1>7, <1>8, <1>10 DEF m, msg, r

LEMMA SoundChunk ==
    ASSUME NEW x \in Exchanges, NEW i \in 0 .. CountOf(x) - 1
    PROVE  LET msg == ChunkMsg(ManifestOf(x), i)
               h == NewHeader(ManifestOf(x), i)
           IN  /\ msg \in Message /\ msg.type = "chunk" /\ msg.header = h
               /\ msg = [type |-> "chunk", header |-> h, payload |-> msg.payload]
               /\ Serialized(msg) = serialize_chunk_header(h) \o msg.payload
               /\ h # Absent /\ h.chunk_index = i /\ validate_chunk_header(ManifestOf(x), h)
               /\ h.payload_size = payload_size_for_chunk(ManifestOf(x), i)
               /\ deserialize_chunk_header(SubSeq(Serialized(msg), 1, SizeOf(HeaderLayout))) = h
               /\ After(HeaderLayout, Serialized(msg)) = msg.payload
               /\ Sound(By("sender", msg))
PROOF
  <1> DEFINE m == ManifestOf(x)
             h == NewHeader(m, i)
             data == [k \in 1 .. h.payload_size |-> FileByte(h.byte_offset + k)]
             msg == ChunkMsg(m, i)
  <1>1. h \in FittingHeaders
    <2>1. PICK k \in Nat, n \in 0 .. MaxFileSize, name \in Seq(Bytes) :
             k = CountOf(x) /\ n = x[2] /\ name = x[1] /\ k = (n + ChunkSize - 1) \div ChunkSize
             /\ ChunkSize \in 1 .. Power[W32] - 1
      BY FileFacts
    <2>2. NewHeader(NewManifest(name, n, ChunkSize), i) \in FittingHeaders
      BY <2>1, HeadersFit
    <2> QED
      BY <2>1, <2>2 DEF ManifestOf
  <1>2. HeaderIsExact(m, i) /\ m.chunk_count = CountOf(x)
    <2>1. PICK n \in 0 .. MaxFileSize, name \in Seq(Bytes) :
             n = x[2] /\ name = x[1] /\ ChunkSize \in 1 .. Power[W32] - 1
      BY FileFacts
    <2>2. m.chunk_count = CountOf(x)
      BY FileFacts
    <2>3. \A j \in IndexesOf(NewManifest(name, n, ChunkSize)) :
             HeaderIsExact(NewManifest(name, n, ChunkSize), j)
      BY <2>1, PlanIsExact
    <2> QED
      BY <2>1, <2>2, <2>3 DEF ManifestOf, IndexesOf
  <1>3. /\ h = [session_id |-> m.session_id, chunk_index |-> i, byte_offset |-> chunk_offset(m, i),
                payload_size |-> payload_size_for_chunk(m, i)]
        /\ h.chunk_index = i /\ h.payload_size = payload_size_for_chunk(m, i)
    BY DEF NewHeader
  <1>4. validate_chunk_header(m, h)
    BY <1>2 DEF HeaderIsExact
  <1>5. msg = [type |-> "chunk", header |-> h, payload |-> data]
    BY DEF ChunkMsg
  <1> HIDE DEF h, m, msg
  <1>6. h \in ChunkHeader /\ h.payload_size \in Nat /\ h.byte_offset \in Nat
    BY <1>1 DEF FittingHeaders, ChunkHeader
  <1>7. data \in Seq(Bytes) /\ Len(data) = h.payload_size
    <2>1. ASSUME NEW k \in 1 .. h.payload_size PROVE FileByte(h.byte_offset + k) \in Bytes
      BY <1>6, CodecsAssumption DEF FileByte, Bytes
    <2> QED
      BY <1>6, <2>1
  <1> HIDE DEF data
  <1>8. msg \in Message /\ msg.type = "chunk" /\ msg.header = h /\ msg.payload = data
    BY <1>5, <1>6, <1>7 DEF Message
  <1>9. Serialized(msg) = serialize_chunk_header(h) \o data
    BY <1>8 DEF Serialized
  <1>10. /\ Whole("chunk", serialize_chunk_header(h) \o data)
         /\ deserialize_chunk_header(SubSeq(serialize_chunk_header(h) \o data, 1, SizeOf(HeaderLayout))) = h
         /\ After(HeaderLayout, serialize_chunk_header(h) \o data) = data
         /\ h # Absent
    BY <1>1, <1>7, ChunkFrame
  <1>11. Sound(By("sender", msg))
    BY <1>8, <1>9, <1>10, SoundIf DEF Ends
  <1> QED
    BY <1>3, <1>4, <1>5, <1>8, <1>9, <1>10, <1>11 DEF m, h, msg

LEMMA SoundHash ==
    ASSUME NEW x \in Exchanges
    PROVE  LET msg == HashMsg(ManifestOf(x))
           IN  /\ msg \in Message /\ msg.type = "hash" /\ msg.packet \in FittingPackets
               /\ msg = [type |-> "hash", packet |-> msg.packet]
               /\ Serialized(msg) = serialize_hash_packet(msg.packet)
               /\ Sound(By("sender", msg))
PROOF
  <1> DEFINE m == ManifestOf(x)
             hex == [k \in 1 .. DigestSize |-> 1]
             p == [session_id |-> m.session_id, sha256_hex |-> hex]
             msg == HashMsg(m)
  <1>1. m.session_id = 0
    BY FileFacts
  <1>2. hex \in Seq(Bytes) /\ is_sha256_hex(hex)
    BY CodecsAssumption DEF Bytes, HexDigits, is_sha256_hex
  <1>3. msg = [type |-> "hash", packet |-> p]
    BY DEF HashMsg
  <1> HIDE DEF hex, m, msg
  <1>4. p \in HashPacket /\ p \in FittingPackets
    BY <1>1, <1>2, MagicsFit DEF HashPacket, FittingPackets
  <1> HIDE DEF p
  <1>5. msg \in Message /\ msg.type = "hash" /\ msg.packet = p
    BY <1>3, <1>4 DEF Message
  <1>6. Serialized(msg) = serialize_hash_packet(p)
    BY <1>5 DEF Serialized
  <1>7. Whole(msg.type, Serialized(msg))
    BY <1>4, <1>5, <1>6, HashFrame
  <1>8. Sound(By("sender", msg))
    BY <1>5, <1>7, SoundIf DEF Ends
  <1> QED
    BY <1>3, <1>4, <1>5, <1>6, <1>8 DEF m, msg

(* Where the messages of an exchange are, and of which type. *)
LEMMA Positions ==
    ASSUME NEW x \in Exchanges, NEW k \in 1 .. Len(ScriptOf(x))
    PROVE  /\ Len(ScriptOf(x)) = LeftOf(x) + 3 /\ LeftOf(x) \in Nat
           /\ \/ k = 1
              \/ k = 2
              \/ \E j \in 1 .. LeftOf(x) : k = j + 2
              \/ k = LeftOf(x) + 3
PROOF
  <1>1. Len(ScriptOf(x)) = LeftOf(x) + 3 /\ LeftOf(x) \in Nat
    BY ScriptShape, FileFacts
  <1>2. PICK c \in Nat : c = LeftOf(x)
    BY <1>1
  <1>3. k \in 1 .. c + 3
    BY <1>1, <1>2
  <1>4. k = 1 \/ k = 2 \/ k = c + 3 \/ (k - 2 \in 1 .. c /\ k = (k - 2) + 2)
    BY <1>3
  <1> QED
    BY <1>1, <1>2, <1>4

(* The index of a missing chunk is one of the file. *)
LEMMA MissingIndex ==
    ASSUME NEW x \in Exchanges, NEW j \in 1 .. LeftOf(x)
    PROVE  MissingOf(x)[j] \in 0 .. CountOf(x) - 1
  BY FileFacts

(* Every message of an exchange is sound. *)
LEMMA AllSound ==
    ASSUME Requestable, NEW x \in Exchanges, NEW k \in 1 .. Len(ScriptOf(x))
    PROVE  Sound(ScriptOf(x)[k])
PROOF
  <1> DEFINE s == ScriptOf(x)
             m == ManifestOf(x)
             c == LeftOf(x)
  <1>1. /\ s[1] = By("sender", ManifestMsg(m))
        /\ s[2] = By("receiver", RequestMsg(m, MissingOf(x)))
        /\ \A j \in 1 .. c : s[j + 2] = By("sender", ChunkMsg(m, MissingOf(x)[j]))
        /\ s[c + 3] = By("sender", HashMsg(m))
    BY ScriptShape
  <1> HIDE DEF s
  <1>a. /\ Sound(By("sender", ManifestMsg(m)))
        /\ Sound(By("receiver", RequestMsg(m, MissingOf(x))))
        /\ Sound(By("sender", HashMsg(m)))
    BY SoundManifest, SoundRequest, SoundHash
  <1> HIDE DEF m
  <1>2. CASE k = 1
    BY <1>1, <1>2, <1>a, Zenon DEF s
  <1>3. CASE k = 2
    BY <1>1, <1>3, <1>a, Zenon DEF s
  <1>4. ASSUME NEW j \in 1 .. c, k = j + 2 PROVE Sound(s[k])
    <2>1. PICK i \in 0 .. CountOf(x) - 1 : i = MissingOf(x)[j]
      BY MissingIndex
    <2>2. Sound(By("sender", ChunkMsg(m, i)))
      BY SoundChunk DEF m
    <2> QED
      BY <1>1, <1>4, <2>1, <2>2
  <1>5. CASE k = c + 3
    BY <1>1, <1>5, <1>a, Zenon DEF s
  <1> QED
    BY <1>2, <1>3, <1>4, <1>5, Positions DEF s

(* What an end makes of the bytes of a message is that message. *)
LEMMA Understood ==
    ASSUME Requestable, NEW x \in Exchanges, script = ScriptOf(x), NEW e \in Ends,
           NEW k \in 1 .. Len(script),
           k > 2 => got[e][1] = script[1].msg
    PROVE  Deserialized(e, script[k].msg, script[k].bytes) = script[k].msg
PROOF
  <1> DEFINE m == ManifestOf(x)
             c == LeftOf(x)
             msg == script[k].msg
             b == script[k].bytes
  <1>1. /\ script[1] = By("sender", ManifestMsg(m))
        /\ script[2] = By("receiver", RequestMsg(m, MissingOf(x)))
        /\ \A j \in 1 .. c : script[j + 2] = By("sender", ChunkMsg(m, MissingOf(x)[j]))
        /\ script[c + 3] = By("sender", HashMsg(m))
    BY ScriptShape
  <1>2. \A f, g : By(f, g).msg = g /\ By(f, g).bytes = Serialized(g)
    BY DEF By
  <1>3. script[1].msg = ManifestMsg(m) /\ script[1].msg.manifest = m
    BY <1>1, <1>2, SoundManifest
  <1>4. c \in Nat
    BY FileFacts
  <1> HIDE DEF m, c
  <1>5. CASE k = 1
    <2>1. msg = ManifestMsg(m) /\ b = Serialized(msg)
      BY <1>1, <1>2, <1>5
    <2>2. msg.type = "manifest" /\ b = serialize_file_manifest(m)
      BY <2>1, SoundManifest DEF m
    <2>3. m \in FittingManifests /\ m # Absent
      <3>1. m \in FittingManifests
        BY FileFacts DEF m
      <3>2. m \in FileManifest
        BY SoundManifest DEF m
      <3> QED
        BY <3>1, <3>2, AbsentAssumption
    <2>4. deserialize_file_manifest(b) = m
      BY <2>2, <2>3, ManifestTrip
    <2> HIDE DEF msg, b
    <2>5. Deserialized(e, msg, b) = ManifestMsg(m)
      BY <2>2, <2>3, <2>4 DEF Deserialized
    <2> QED
      BY <2>1, <2>5 DEF msg, b
  <1>6. CASE k = 2
    <2> DEFINE r == [session_id |-> 0, total_chunks |-> CountOf(x), missing |-> MissingOf(x)]
    <2>1. msg = RequestMsg(m, MissingOf(x)) /\ b = Serialized(msg)
      BY <1>1, <1>2, <1>6
    <2>2. msg.type = "request" /\ msg.request = r /\ r \in FittingRequests
          /\ b = serialize_continue_request(r) /\ Len(MissingOf(x)) = c
      BY <2>1, SoundRequest DEF m, c
    <2>3. m.session_id = 0 /\ m.chunk_count = CountOf(x)
      BY FileFacts DEF m
    <2>4. msg = [type |-> "request", request |-> r]
      BY <2>1, <2>3 DEF RequestMsg
    <2>5. r.session_id = 0 /\ r.total_chunks = CountOf(x) /\ r.missing = MissingOf(x)
      OBVIOUS
    <2> HIDE DEF r, msg, b
    <2>6. deserialize_continue_request(b) = r
      BY <2>2, RequestTrip
    <2>7. r # Absent
      <3>1. r \in ContinueRequest
        BY <2>2 DEF FittingRequests
      <3> QED
        BY <3>1, AbsentAssumption
    <2>8. validate_continue_request(TheManifest, r)
      <3>1. TheManifest = m
        BY <1>3 DEF TheManifest
      <3>2. PICK n \in Nat : n = CountOf(x)
        BY FileFacts
      <3>3. /\ \A j \in 1 .. c : MissingOf(x)[j] < n
            /\ \A j \in 2 .. c : MissingOf(x)[j - 1] < MissingOf(x)[j]
        <4>1. ASSUME NEW j \in 1 .. c PROVE MissingOf(x)[j] < n
          <5>1. MissingOf(x)[j] \in 0 .. n - 1
            BY <3>2, MissingIndex DEF c
          <5> QED
            BY <3>2, <5>1
        <4>2. \A j \in 2 .. c : MissingOf(x)[j - 1] < MissingOf(x)[j]
          BY FileFacts DEF c
        <4> QED
          BY <4>1, <4>2
      <3>4. ASSUME NEW j \in 1 .. c, j > 1 PROVE MissingOf(x)[j - 1] < MissingOf(x)[j]
        <4>1. j \in 2 .. c
          BY <1>4, <3>4
        <4> QED
          BY <3>3, <4>1
      <3> QED
        BY <2>2, <2>3, <2>5, <3>1, <3>2, <3>3, <3>4 DEF validate_continue_request
    <2>9. Deserialized(e, msg, b) = [type |-> "request", request |-> r]
      BY <2>2, <2>6, <2>7, <2>8 DEF Deserialized
    <2> QED
      BY <2>4, <2>9 DEF msg, b
  <1>7. ASSUME NEW j \in 1 .. c, k = j + 2 PROVE Deserialized(e, msg, b) = msg
    <2>1. PICK i \in 0 .. CountOf(x) - 1 : i = MissingOf(x)[j]
      BY MissingIndex DEF c
    <2>2. msg = ChunkMsg(m, i) /\ b = Serialized(msg)
      BY <1>1, <1>2, <1>7, <2>1
    <2> DEFINE h == NewHeader(m, i)
    <2>3. /\ msg.type = "chunk" /\ msg.header = h
          /\ msg = [type |-> "chunk", header |-> h, payload |-> msg.payload]
          /\ h # Absent /\ h.chunk_index = i /\ validate_chunk_header(m, h)
          /\ deserialize_chunk_header(SubSeq(b, 1, SizeOf(HeaderLayout))) = h
          /\ After(HeaderLayout, b) = msg.payload
      BY <2>2, SoundChunk DEF m
    <2>4. got[e][1].manifest = m
      <3>1. k > 2
        BY <1>4, <1>7
      <3> QED
        BY <1>3, <3>1
    <2> HIDE DEF h, msg, b
    <2>5. Deserialized(e, msg, b) = [type |-> "chunk", header |-> h, payload |-> After(HeaderLayout, b)]
      BY <2>3, <2>4 DEF Deserialized
    <2> QED
      BY <2>3, <2>5
  <1>8. CASE k = c + 3
    <2>1. msg = HashMsg(m) /\ b = Serialized(msg)
      BY <1>1, <1>2, <1>8
    <2> DEFINE p == msg.packet
    <2>2. /\ msg.type = "hash" /\ p \in FittingPackets /\ b = serialize_hash_packet(p)
          /\ msg = [type |-> "hash", packet |-> p]
      BY <2>1, SoundHash DEF m
    <2> HIDE DEF p, msg, b
    <2>3. deserialize_hash_packet(b) = p
      BY <2>2, HashTrip
    <2>4. p # Absent
      <3>1. p \in HashPacket
        BY <2>2 DEF FittingPackets
      <3> QED
        BY <3>1, AbsentAssumption
    <2>5. Deserialized(e, msg, b) = [type |-> "hash", packet |-> p]
      BY <2>2, <2>3, <2>4 DEF Deserialized
    <2> QED
      BY <2>2, <2>5 DEF msg, b
  <1> QED
    BY <1>5, <1>6, <1>7, <1>8, Positions DEF c

-----------------------------------------------------------------------------
(* Streams of bytes *)

(* What follows the messages before k. *)
LEMMA ComingBytes ==
    ASSUME NEW s, NEW e, Len(s) \in Nat, \A k \in 1 .. Len(s) : s[k].bytes \in Seq(Bytes)
    PROVE  /\ Coming(s, e)[Len(s) + 1] = <<>>
           /\ \A k \in 1 .. Len(s) : Coming(s, e)[k] = Part(s, e, k) \o Coming(s, e)[k + 1]
           /\ \A k \in 1 .. Len(s) + 1 : Coming(s, e)[k] \in Seq(Bytes)
PROOF
  <1> DEFINE n == Len(s)
             S == Seq(Bytes)
             part(j) == Part(s, e, n + 1 - j)
             Eq(f) == f = [j \in 0 .. n |-> IF j = 0 THEN <<>> ELSE part(j) \o f[j - 1]]
             last == CHOOSE f : Eq(f)
             step == [j \in 1 .. n |-> [x \in S |-> part(j) \o x]]
  <1>1. n \in Nat /\ <<>> \in S
    OBVIOUS
  <1>2. ASSUME NEW k \in 1 .. n PROVE Part(s, e, k) \in S
    <2>1. s[k].bytes \in S
      OBVIOUS
    <2> QED
      BY <1>1, <2>1 DEF Part
  <1>3. ASSUME NEW j \in 1 .. n PROVE part(j) \in S
    <2>1. n + 1 - j \in 1 .. n
      BY <1>1
    <2> QED
      BY <1>2, <2>1
  <1>4. Coming(s, e) = [k \in 1 .. n + 1 |-> last[n + 1 - k]]
    BY DEF Coming
  <1> HIDE DEF part, n
  <1>5. step \in Steps(n, S)
    <2>1. ASSUME NEW j \in 1 .. n, NEW x \in S PROVE part(j) \o x \in S
      BY <1>3, <2>1
    <2> HIDE DEF S
    <2> QED
      BY <2>1, Zenon DEF Steps
  <1>6. PICK g \in Values(n, S) : Unrolls(g, n, <<>>, step)
    <2> HIDE DEF step, S
    <2> QED
      BY <1>1, <1>5, Recursive, Zenon
  <1>7. g \in [0 .. n -> S] /\ g[0] = <<>> /\ \A j \in 1 .. n : g[j] = step[j][g[j - 1]]
    BY <1>6, Zenon DEF Values, Unrolls
  <1>8. Eq(g)
    <2>1. ASSUME NEW j \in 0 .. n PROVE g[j] = IF j = 0 THEN <<>> ELSE part(j) \o g[j - 1]
      <3>1. CASE j = 0
        BY <1>7, <3>1
      <3>2. CASE j # 0
        <4>1. j \in 1 .. n /\ j - 1 \in 0 .. n
          BY <1>1, <3>2
        <4>2. g[j - 1] \in S
          BY <1>7, <4>1, Zenon
        <4> HIDE DEF S
        <4> QED
          BY <1>7, <3>2, <4>1, <4>2, Zenon
      <3> QED
        BY <3>1, <3>2
    <2> QED
      BY <1>7, <2>1, Zenon
  <1>9. Eq(last)
    BY <1>8, Zenon
  <1> HIDE DEF last
  <1>10. last[0] = <<>> /\ \A j \in 1 .. n : last[j] = part(j) \o last[j - 1]
    <2>1. \A j \in 0 .. n : last[j] = IF j = 0 THEN <<>> ELSE part(j) \o last[j - 1]
      BY <1>9, Zenon
    <2>2. 0 \in 0 .. n /\ \A j \in 1 .. n : j \in 0 .. n /\ j # 0
      BY <1>1
    <2> QED
      BY <2>1, <2>2, Zenon
  <1>11. \A j \in 0 .. n : last[j] \in S
    <2>1. last[0] \in S
      BY <1>1, <1>10
    <2>2. ASSUME NEW j \in 1 .. n, last[j - 1] \in S PROVE last[j] \in S
      <3>1. last[j] = part(j) \o last[j - 1] /\ part(j) \in S
        BY <1>3, <1>10, Zenon
      <3> QED
        BY <2>2, <3>1
    <2> HIDE DEF S
    <2> QED
      BY <1>1, <2>1, <2>2, Hereditary
  <1>12. Coming(s, e)[n + 1] = <<>>
    <2>1. n + 1 \in 1 .. n + 1 /\ n + 1 - (n + 1) = 0
      BY <1>1
    <2> QED
      BY <1>4, <1>10, <2>1
  <1>13. ASSUME NEW k \in 1 .. n
         PROVE  Coming(s, e)[k] = Part(s, e, k) \o Coming(s, e)[k + 1]
    <2>1. PICK j \in 1 .. n : j = n + 1 - k /\ j - 1 = n + 1 - (k + 1) /\ n + 1 - j = k
      BY <1>1
    <2>2. k \in 1 .. n + 1 /\ k + 1 \in 1 .. n + 1
      BY <1>1
    <2>3. Coming(s, e)[k] = last[j] /\ Coming(s, e)[k + 1] = last[j - 1]
      BY <1>4, <2>1, <2>2
    <2>4. last[j] = part(j) \o last[j - 1] /\ part(j) = Part(s, e, k)
      BY <1>10, <2>1 DEF part
    <2> QED
      BY <2>3, <2>4
  <1>14. ASSUME NEW k \in 1 .. n + 1 PROVE Coming(s, e)[k] \in S
    <2>1. n + 1 - k \in 0 .. n
      BY <1>1
    <2> QED
      BY <1>4, <1>11, <2>1
  <1> QED
    BY <1>12, <1>13, <1>14 DEF n

(* Two ways to cut the same bytes in the same place. *)
LEMMA SameCut ==
    ASSUME NEW a \in Seq(Bytes), NEW b \in Seq(Bytes), NEW c \in Seq(Bytes), NEW d \in Seq(Bytes),
           a \o b = c \o d, Len(a) = Len(c)
    PROVE  a = c /\ b = d
PROOF
  <1>1. /\ a = SubSeq(a \o b, 1, Len(a)) /\ b = SubSeq(a \o b, Len(a) + 1, Len(a \o b))
        /\ c = SubSeq(c \o d, 1, Len(c)) /\ d = SubSeq(c \o d, Len(c) + 1, Len(c \o d))
    BY RestOf
  <1> QED
    BY <1>1

(* A sequence of bytes is its two parts. *)
LEMMA TwoParts ==
    ASSUME NEW a \in Seq(Bytes), NEW n \in 0 .. Len(a)
    PROVE  /\ SubSeq(a, 1, n) \in Seq(Bytes) /\ Len(SubSeq(a, 1, n)) = n
           /\ SubSeq(a, n + 1, Len(a)) \in Seq(Bytes) /\ Len(SubSeq(a, n + 1, Len(a))) = Len(a) - n
           /\ SubSeq(a, 1, n) \o SubSeq(a, n + 1, Len(a)) = a
PROOF
  <1>1. Len(a) \in Nat
    OBVIOUS
  <1>2. /\ SubSeq(a, 1, n) \in Seq(Bytes) /\ Len(SubSeq(a, 1, n)) = n
        /\ \A i \in 1 .. n : SubSeq(a, 1, n)[i] = a[i]
    OBVIOUS
  <1>3. /\ SubSeq(a, n + 1, Len(a)) \in Seq(Bytes) /\ Len(SubSeq(a, n + 1, Len(a))) = Len(a) - n
        /\ \A i \in 1 .. Len(a) - n : SubSeq(a, n + 1, Len(a))[i] = a[n + i]
    BY <1>1
  <1>4. PICK u \in Seq(Bytes), v \in Seq(Bytes) :
           u = SubSeq(a, 1, n) /\ v = SubSeq(a, n + 1, Len(a))
    BY <1>2, <1>3
  <1>5. /\ u \o v \in Seq(Bytes) /\ Len(u \o v) = Len(a)
        /\ \A i \in 1 .. Len(a) : (u \o v)[i] = a[i]
    <2>1. Len(u) = n /\ Len(v) = Len(a) - n
      BY <1>2, <1>3, <1>4
    <2>2. u \o v \in Seq(Bytes) /\ Len(u \o v) = Len(a)
      BY <1>1, <2>1
    <2>3. ASSUME NEW i \in 1 .. Len(a) PROVE (u \o v)[i] = a[i]
      <3>1. CASE i <= n
        <4>1. i \in 1 .. n
          BY <1>1, <3>1
        <4>2. (u \o v)[i] = u[i]
          BY <2>1, <4>1
        <4> QED
          BY <1>2, <1>4, <4>1, <4>2
      <3>2. CASE ~(i <= n)
        <4>1. PICK j \in 1 .. Len(a) - n : j = i - n /\ n + j = i
          BY <1>1, <3>2
        <4>2. (u \o v)[i] = v[j]
          BY <1>1, <2>1, <3>2, <4>1
        <4> QED
          BY <1>3, <1>4, <4>1, <4>2
      <3> QED
        BY <3>1, <3>2
    <2> QED
      BY <2>2, <2>3
  <1>6. u \o v = a
    BY <1>5, SeqEqual
  <1> QED
    BY <1>2, <1>3, <1>4, <1>6

(* Three parts of a stream. *)
Joined(a, b, c) ==
    /\ a \o b \in Seq(Bytes) /\ b \o c \in Seq(Bytes)
    /\ (a \o b) \o c = a \o (b \o c)
    /\ Len(a \o b) = Len(a) + Len(b)

LEMMA Together ==
    ASSUME NEW a \in Seq(Bytes), NEW b \in Seq(Bytes), NEW c \in Seq(Bytes)
    PROVE  Joined(a, b, c)
PROOF
  <1>1. (a \o b) \o c = a \o (b \o c)
    BY ConcatAssociative
  <1>3. a \o b \in Seq(Bytes) /\ b \o c \in Seq(Bytes) /\ Len(a \o b) = Len(a) + Len(b)
    OBVIOUS
  <1> QED
    BY <1>1, <1>3 DEF Joined

-----------------------------------------------------------------------------
(* How one direction of the connection moves *)

(* What the proofs below use of an exchange. *)
Flow(s) ==
    /\ Len(s) \in Nat
    /\ \A k \in 1 .. Len(s) : Sound(s[k])
    /\ \A e \in Ends :
          /\ Coming(s, e)[Len(s) + 1] = <<>>
          /\ \A k \in 1 .. Len(s) : Coming(s, e)[k] = Part(s, e, k) \o Coming(s, e)[k + 1]
          /\ \A k \in 1 .. Len(s) + 1 : Coming(s, e)[k] \in Seq(Bytes)

LEMMA Flows == ASSUME Requestable, NEW x \in Exchanges PROVE Flow(ScriptOf(x))
PROOF
  <1> DEFINE s == ScriptOf(x)
  <1>1. Len(s) \in Nat
    BY ScriptShape, FileFacts
  <1>2. \A k \in 1 .. Len(s) : Sound(s[k])
    BY AllSound
  <1> HIDE DEF s
  <1>3. \A k \in 1 .. Len(s) : s[k].bytes \in Seq(Bytes)
    BY <1>2 DEF Sound
  <1>4. ASSUME NEW e \in Ends
        PROVE  /\ Coming(s, e)[Len(s) + 1] = <<>>
               /\ \A k \in 1 .. Len(s) : Coming(s, e)[k] = Part(s, e, k) \o Coming(s, e)[k + 1]
               /\ \A k \in 1 .. Len(s) + 1 : Coming(s, e)[k] \in Seq(Bytes)
    BY <1>1, <1>3, ComingBytes
  <1> QED
    BY <1>1, <1>2, <1>4, Zenon DEF Flow, s

(* One message further in the stream. *)
Advances(s, e, k) ==
    /\ s[k].bytes \in Seq(Bytes) /\ Len(s[k].bytes) \in Nat \ {0}
    /\ Coming(s, e)[k] \in Seq(Bytes) /\ Coming(s, e)[k + 1] \in Seq(Bytes)
    /\ Expected(s, e, k) => Coming(s, e)[k] = s[k].bytes \o Coming(s, e)[k + 1]
    /\ ~Expected(s, e, k) => Coming(s, e)[k] = Coming(s, e)[k + 1]
    /\ Expected(s, e, k) <=> s[k].by # e

LEMMA NextComing ==
    ASSUME NEW s, Flow(s), NEW e \in Ends, NEW k \in 1 .. Len(s)
    PROVE  Advances(s, e, k)
PROOF
  <1>1. Len(s) \in Nat /\ Sound(s[k])
    BY DEF Flow
  <1>2. s[k].bytes \in Seq(Bytes) /\ Len(s[k].bytes) \in Nat \ {0}
    BY <1>1 DEF Sound
  <1>3. k \in 1 .. Len(s) + 1 /\ k + 1 \in 1 .. Len(s) + 1
    BY <1>1
  <1>4. Coming(s, e)[k] \in Seq(Bytes) /\ Coming(s, e)[k + 1] \in Seq(Bytes)
    BY <1>3, Zenon DEF Flow
  <1>5. Coming(s, e)[k] = Part(s, e, k) \o Coming(s, e)[k + 1]
    BY Zenon DEF Flow
  <1>6. k <= Len(s)
    BY <1>1
  <1>7. CASE s[k].by # e
    <2>1. Part(s, e, k) = s[k].bytes
      BY <1>7 DEF Part
    <2> QED
      BY <1>2, <1>4, <1>5, <1>6, <1>7, <2>1 DEF Expected, Advances
  <1>8. CASE s[k].by = e
    <2>1. Part(s, e, k) = <<>>
      BY <1>8 DEF Part
    <2>2. <<>> \o Coming(s, e)[k + 1] = Coming(s, e)[k + 1]
      BY <1>4, ConcatEmptySeq
    <2> QED
      BY <1>2, <1>4, <1>5, <1>6, <1>8, <2>1, <2>2 DEF Expected, Advances
  <1> QED
    BY <1>7, <1>8 DEF Advances

(* The other end, before the first byte of message k. *)
LEMMA UnsentAll ==
    ASSUME NEW s, Flow(s), NEW e \in Ends, NEW k \in 1 .. Len(s) + 1
    PROVE  /\ Unsent(s, e, k, 0) = Coming(s, e)[k]
           /\ Unsent(s, e, k, 0) \in Seq(Bytes)
PROOF
  <1>1. Len(s) \in Nat /\ Coming(s, e)[k] \in Seq(Bytes)
    BY Zenon DEF Flow
  <1>2. CASE Expected(s, e, k)
    <2>1. k \in 1 .. Len(s)
      BY <1>1, <1>2 DEF Expected
    <2>2. PICK b \in Seq(Bytes) : b = s[k].bytes /\ Coming(s, e)[k] = b \o Coming(s, e)[k + 1]
      <3>1. /\ s[k].bytes \in Seq(Bytes)
            /\ Expected(s, e, k) => Coming(s, e)[k] = s[k].bytes \o Coming(s, e)[k + 1]
        <4>1. Advances(s, e, k)
          BY <2>1, NextComing
        <4> QED
          BY <4>1, Zenon DEF Advances
      <3> QED
        BY <1>2, <3>1, Zenon
    <2>3. SubSeq(b, 0 + 1, Len(b)) = b
      OBVIOUS
    <2> QED
      BY <1>1, <1>2, <2>2, <2>3 DEF Unsent
  <1>3. CASE ~Expected(s, e, k)
    BY <1>1, <1>3 DEF Unsent
  <1> QED
    BY <1>2, <1>3

(* The other end hands d more bytes of message k to the kernel. *)
LEMMA UnsentSome ==
    ASSUME NEW s, Flow(s), NEW e \in Ends, NEW k \in 1 .. Len(s), Expected(s, e, k),
           NEW n \in Nat, NEW d \in Nat, n + d <= Len(s[k].bytes)
    PROVE  /\ SubSeq(s[k].bytes, n + 1, n + d) \in Seq(Bytes)
           /\ Unsent(s, e, k, n + d) \in Seq(Bytes)
           /\ Unsent(s, e, k, n) = SubSeq(s[k].bytes, n + 1, n + d) \o Unsent(s, e, k, n + d)
           /\ n + d = Len(s[k].bytes) => Unsent(s, e, k, n + d) = Unsent(s, e, k + 1, 0)
PROOF
  <1>1. PICK b \in Seq(Bytes), c \in Seq(Bytes) : b = s[k].bytes /\ c = Coming(s, e)[k + 1]
    <2>1. Advances(s, e, k)
      BY NextComing
    <2> QED
      BY <2>1, Zenon DEF Advances
  <1>2. n + d <= Len(b) /\ Len(b) \in Nat
    BY <1>1
  <1>3. PICK u \in Seq(Bytes), v \in Seq(Bytes), w \in Seq(Bytes) :
           /\ u = SubSeq(b, n + 1, n + d) /\ v = SubSeq(b, n + d + 1, Len(b))
           /\ w = SubSeq(b, n + 1, Len(b))
    <2>1. /\ SubSeq(b, n + 1, n + d) \in Seq(Bytes)
          /\ SubSeq(b, n + d + 1, Len(b)) \in Seq(Bytes)
          /\ SubSeq(b, n + 1, Len(b)) \in Seq(Bytes)
      BY <1>2
    <2> QED
      BY <2>1, Zenon
  <1>4. Len(u) = d /\ Len(v) = Len(b) - (n + d) /\ Len(w) = Len(b) - n
    BY <1>2, <1>3
  <1>5. w = u \o v
    <2>1. d \in 0 .. Len(w)
      BY <1>2, <1>4
    <2>2. SubSeq(w, 1, d) = u
      <3>1. Len(SubSeq(w, 1, d)) = d /\ SubSeq(w, 1, d) \in Seq(Bytes)
        BY <2>1, TwoParts
      <3>2. ASSUME NEW i \in 1 .. d PROVE SubSeq(w, 1, d)[i] = u[i]
        <4>1. SubSeq(w, 1, d)[i] = w[i]
          BY <2>1, Beginning
        <4>2. w[i] = b[n + i]
          BY <1>2, <1>3, <1>4
        <4>3. u[i] = b[n + i]
          BY <1>2, <1>3, <1>4
        <4> QED
          BY <4>1, <4>2, <4>3
      <3> QED
        BY <1>4, <3>1, <3>2, SeqEqual
    <2>3. SubSeq(w, d + 1, Len(w)) = v
      <3>1. Len(SubSeq(w, d + 1, Len(w))) = Len(v) /\ SubSeq(w, d + 1, Len(w)) \in Seq(Bytes)
        BY <1>2, <1>4, <2>1, TwoParts
      <3>2. ASSUME NEW i \in 1 .. Len(v) PROVE SubSeq(w, d + 1, Len(w))[i] = v[i]
        <4>1. SubSeq(w, d + 1, Len(w))[i] = w[d + i]
          BY <1>2, <1>4
        <4>2. w[d + i] = b[n + d + i]
          <5>1. \A j \in 1 .. Len(b) - n : w[j] = b[n + j]
            BY <1>2, <1>3, <1>4
          <5>2. PICK j \in 1 .. Len(b) - n : j = d + i /\ n + j = n + d + i
            BY <1>2, <1>4
          <5> QED
            BY <5>1, <5>2
        <4>3. v[i] = b[n + d + i]
          <5>1. PICK m \in Nat : m = n + d /\ m <= Len(b)
            BY <1>2
          <5>2. v = SubSeq(b, m + 1, Len(b)) /\ i \in 1 .. Len(b) - m
            BY <1>2, <1>3, <1>4, <5>1
          <5>3. v[i] = b[m + i]
            <6>1. SubSeq(b, m + 1, Len(b))[i] = b[m + i]
              <7>1. i \in 1 .. Len(b) - m /\ m <= Len(b)
                BY <5>1, <5>2, Zenon
              <7> QED
                BY <1>2, <7>1
            <6> QED
              BY <5>2, <6>1, Zenon
          <5> QED
            BY <5>1, <5>3
        <4> QED
          BY <4>1, <4>2, <4>3
      <3> QED
        BY <3>1, <3>2, SeqEqual
    <2> QED
      BY <2>1, <2>2, <2>3, TwoParts
  <1>6. Unsent(s, e, k, n) = w \o c /\ Unsent(s, e, k, n + d) = v \o c
    BY <1>1, <1>3 DEF Unsent
  <1>7. w \o c = u \o (v \o c) /\ v \o c \in Seq(Bytes)
    <2>1. Joined(u, v, c)
      BY Together
    <2> QED
      BY <1>5, <2>1, Zenon DEF Joined
  <1>8. ASSUME n + d = Len(b) PROVE v \o c = Unsent(s, e, k + 1, 0)
    <2>1. k + 1 \in 1 .. Len(s) + 1
      BY DEF Flow
    <2>2. Unsent(s, e, k + 1, 0) = c
      BY <1>1, <2>1, UnsentAll
    <2>3. v = <<>>
      BY <1>4, <1>8, EmptySeq
    <2>4. <<>> \o c = c
      BY ConcatEmptySeq
    <2> QED
      BY <2>2, <2>3, <2>4
  <1> QED
    BY <1>1, <1>3, <1>6, <1>7, <1>8

(* The reader collects n bytes of the wire. *)
LEMMA ReaderCollects ==
    ASSUME NEW s, NEW e, NEW k, NEW b \in Seq(Bytes), NEW w \in Seq(Bytes), NEW j, NEW m,
           NEW alive, InStep(s, e, k, b, w, j, m, alive), NEW n \in 0 .. Len(w)
    PROVE  /\ b \o SubSeq(w, 1, n) \in Seq(Bytes) /\ Len(b \o SubSeq(w, 1, n)) = Len(b) + n
           /\ SubSeq(w, n + 1, Len(w)) \in Seq(Bytes)
           /\ InStep(s, e, k, b \o SubSeq(w, 1, n), SubSeq(w, n + 1, Len(w)), j, m, alive)
PROOF
  <1>1. PICK u \in Seq(Bytes), v \in Seq(Bytes) :
           u = SubSeq(w, 1, n) /\ v = SubSeq(w, n + 1, Len(w)) /\ u \o v = w /\ Len(u) = n
    BY TwoParts
  <1>2. b \o u \in Seq(Bytes) /\ Len(b \o u) = Len(b) + n /\ (b \o u) \o v = b \o w
    <2>1. Joined(b, u, v)
      BY Together
    <2> QED
      BY <1>1, <2>1, Zenon DEF Joined
  <1>3. InStep(s, e, k, b \o u, v, j, m, alive)
    BY <1>2, Zenon DEF InStep
  <1> QED
    BY <1>1, <1>2, <1>3

(* The reader has the whole message and goes on to the next. *)
LEMMA ReaderFinishes ==
    ASSUME NEW s, Flow(s), NEW e \in Ends, NEW k \in 1 .. Len(s), Expected(s, e, k),
           NEW b \in Seq(Bytes), NEW w \in Seq(Bytes), NEW j, NEW m, NEW alive,
           InStep(s, e, k, b, w, j, m, alive), Len(b) = Len(s[k].bytes)
    PROVE  /\ b = s[k].bytes
           /\ InStep(s, e, k + 1, <<>>, w, j, m, alive)
PROOF
  <1>1. Advances(s, e, k)
    BY NextComing
  <1>2. PICK a \in Seq(Bytes), c \in Seq(Bytes) :
           a = s[k].bytes /\ c = Coming(s, e)[k + 1] /\ Coming(s, e)[k] = a \o c
    BY <1>1, Zenon DEF Advances
  <1>3. PICK more \in Seq(Bytes) :
           (b \o w) \o more = Coming(s, e)[k] /\ (alive => more = Unsent(s, e, j, m))
    BY Zenon DEF InStep
  <1>4. b \o (w \o more) = a \o c /\ w \o more \in Seq(Bytes)
    <2>1. Joined(b, w, more)
      BY Together
    <2> QED
      BY <1>2, <1>3, <2>1, Zenon DEF Joined
  <1>5. b = a /\ w \o more = c
    <2>1. PICK r \in Seq(Bytes) : r = w \o more /\ b \o r = a \o c
      BY <1>4, Zenon
    <2>2. Len(b) = Len(a)
      BY <1>2
    <2>3. b = a /\ r = c
      BY <2>1, <2>2, SameCut
    <2> QED
      BY <2>1, <2>3
  <1>6. <<>> \o w = w
    BY ConcatEmptySeq
  <1>7. (<<>> \o w) \o more = Coming(s, e)[k + 1]
    BY <1>2, <1>5, <1>6
  <1> QED
    BY <1>2, <1>3, <1>5, <1>7, Zenon DEF InStep

(* What the reader has collected of a message is a beginning of it. *)
LEMMA ReaderHolds ==
    ASSUME NEW s, Flow(s), NEW e \in Ends, NEW k \in 1 .. Len(s), Expected(s, e, k),
           NEW b \in Seq(Bytes), NEW w \in Seq(Bytes), NEW j, NEW m, NEW alive,
           InStep(s, e, k, b, w, j, m, alive), Len(b) <= Len(s[k].bytes)
    PROVE  \E y \in Seq(Bytes) : s[k].bytes = b \o y
PROOF
  <1>1. Advances(s, e, k)
    BY NextComing
  <1>2. PICK a \in Seq(Bytes), c \in Seq(Bytes) :
           a = s[k].bytes /\ c = Coming(s, e)[k + 1] /\ Coming(s, e)[k] = a \o c
    BY <1>1, Zenon DEF Advances
  <1>3. PICK more \in Seq(Bytes) : (b \o w) \o more = Coming(s, e)[k]
    BY Zenon DEF InStep
  <1>4. PICK r \in Seq(Bytes) : r = w \o more /\ b \o r = a \o c
    <2>1. b \o (w \o more) = a \o c /\ w \o more \in Seq(Bytes)
      <3>1. Joined(b, w, more)
        BY Together
      <3> QED
        BY <1>2, <1>3, <3>1, Zenon DEF Joined
    <2> QED
      BY <2>1, Zenon
  <1>5. Len(b) \in 0 .. Len(a)
    BY <1>2
  <1>6. PICK u \in Seq(Bytes), y \in Seq(Bytes) : u \o y = a /\ Len(u) = Len(b)
    BY <1>5, TwoParts
  <1>7. PICK q \in Seq(Bytes) : q = y \o c /\ u \o q = b \o r
    <2>1. Joined(u, y, c)
      BY Together
    <2> QED
      BY <1>4, <1>6, <2>1, Zenon DEF Joined
  <1>8. u = b
    BY <1>6, <1>7, SameCut
  <1> QED
    BY <1>2, <1>6, <1>8

(* The reader sends a message of its own. *)
LEMMA ReaderSends ==
    ASSUME NEW s, Flow(s), NEW e \in Ends, NEW k \in 1 .. Len(s), ~Expected(s, e, k),
           NEW b, NEW w, NEW j, NEW m, NEW alive, InStep(s, e, k, b, w, j, m, alive)
    PROVE  InStep(s, e, k + 1, b, w, j, m, alive)
PROOF
  <1>1. Advances(s, e, k)
    BY NextComing
  <1>2. Coming(s, e)[k] = Coming(s, e)[k + 1]
    BY <1>1, Zenon DEF Advances
  <1> QED
    BY <1>2, Zenon DEF InStep

(* The writer hands d bytes to the kernel. *)
LEMMA WriterSends ==
    ASSUME NEW s, Flow(s), NEW e \in Ends, NEW k, NEW b \in Seq(Bytes), NEW w \in Seq(Bytes),
           NEW j \in 1 .. Len(s), Expected(s, e, j), NEW m \in Nat, NEW d \in Nat,
           m + d <= Len(s[j].bytes), InStep(s, e, k, b, w, j, m, TRUE)
    PROVE  LET w2 == w \o SubSeq(s[j].bytes, m + 1, m + d)
           IN  /\ w2 \in Seq(Bytes)
               /\ InStep(s, e, k, b, w2, j, m + d, TRUE)
               /\ m + d = Len(s[j].bytes) => InStep(s, e, k, b, w2, j + 1, 0, TRUE)
PROOF
  <1>1. /\ SubSeq(s[j].bytes, m + 1, m + d) \in Seq(Bytes)
        /\ Unsent(s, e, j, m + d) \in Seq(Bytes)
        /\ Unsent(s, e, j, m) = SubSeq(s[j].bytes, m + 1, m + d) \o Unsent(s, e, j, m + d)
        /\ m + d = Len(s[j].bytes) => Unsent(s, e, j, m + d) = Unsent(s, e, j + 1, 0)
    BY UnsentSome
  <1>2. PICK u \in Seq(Bytes), v \in Seq(Bytes) :
           u = SubSeq(s[j].bytes, m + 1, m + d) /\ v = Unsent(s, e, j, m + d)
    BY <1>1, Zenon
  <1>3. (b \o w) \o (u \o v) = Coming(s, e)[k]
    <2>1. PICK more \in Seq(Bytes) :
             (b \o w) \o more = Coming(s, e)[k] /\ more = Unsent(s, e, j, m)
      BY Zenon DEF InStep
    <2> QED
      BY <1>1, <1>2, <2>1, Zenon
  <1>4. w \o u \in Seq(Bytes) /\ (b \o (w \o u)) \o v = Coming(s, e)[k]
    <2>1. PICK q \in Seq(Bytes) : q = b \o w
      <3>1. Joined(b, w, u)
        BY Together
      <3> QED
        BY <3>1, Zenon DEF Joined
    <2>2. Joined(q, u, v) /\ Joined(b, w, u)
      BY Together
    <2>3. /\ (q \o u) \o v = q \o (u \o v)
          /\ (b \o w) \o u = b \o (w \o u) /\ w \o u \in Seq(Bytes)
      BY <2>2, Zenon DEF Joined
    <2> QED
      BY <1>3, <2>1, <2>3, Zenon
  <1>5. InStep(s, e, k, b, w \o u, j, m + d, TRUE)
    BY <1>2, <1>4, Zenon DEF InStep
  <1>6. ASSUME m + d = Len(s[j].bytes) PROVE InStep(s, e, k, b, w \o u, j + 1, 0, TRUE)
    <2>1. v = Unsent(s, e, j + 1, 0)
      BY <1>1, <1>2, <1>6
    <2> QED
      BY <1>4, <2>1, Zenon DEF InStep
  <1> QED
    BY <1>2, <1>4, <1>5, <1>6

(* The writer has read a message of the reader. *)
LEMMA WriterReads ==
    ASSUME NEW s, Flow(s), NEW e \in Ends, NEW k, NEW b, NEW w, NEW alive,
           NEW j \in 1 .. Len(s), ~Expected(s, e, j), InStep(s, e, k, b, w, j, 0, alive)
    PROVE  InStep(s, e, k, b, w, j + 1, 0, alive)
PROOF
  <1>1. Advances(s, e, j)
    BY NextComing
  <1>2. Coming(s, e)[j] = Coming(s, e)[j + 1]
    BY <1>1, Zenon DEF Advances
  <1>3. j \in 1 .. Len(s) + 1 /\ j + 1 \in 1 .. Len(s) + 1
    BY DEF Flow
  <1>4. Unsent(s, e, j, 0) = Coming(s, e)[j]
    BY <1>3, UnsentAll
  <1>5. Unsent(s, e, j + 1, 0) = Coming(s, e)[j + 1]
    BY <1>3, UnsentAll
  <1> QED
    BY <1>2, <1>4, <1>5, Zenon DEF InStep

(* On a connection that is lost nobody has to send the rest, ... *)
LEMMA Lost ==
    ASSUME NEW s, NEW e, NEW k, NEW b, NEW w, NEW j, NEW m, NEW i, NEW n, NEW alive,
           InStep(s, e, k, b, w, j, m, alive)
    PROVE  InStep(s, e, k, b, w, i, n, FALSE)
PROOF
  BY Zenon DEF InStep

(* ... and of the bytes on their way the last ones may be lost too. *)
LEMMA CutShort ==
    ASSUME NEW s, NEW e, NEW k, NEW b \in Seq(Bytes), NEW w \in Seq(Bytes), NEW j, NEW m,
           NEW alive, InStep(s, e, k, b, w, j, m, alive), NEW v \in Prefixes(w)
    PROVE  v \in Seq(Bytes) /\ InStep(s, e, k, b, v, j, m, FALSE)
PROOF
  <1>1. PICK n \in 0 .. Len(w) : v = SubSeq(w, 1, n)
    BY DEF Prefixes
  <1>2. PICK r \in Seq(Bytes) : v \o r = w /\ v \in Seq(Bytes)
    BY <1>1, TwoParts
  <1>3. PICK more \in Seq(Bytes) : (b \o w) \o more = Coming(s, e)[k]
    BY Zenon DEF InStep
  <1>4. PICK q \in Seq(Bytes) : q = b \o v /\ q \o r = b \o w
    <2>1. Joined(b, v, r)
      BY <1>2, Together
    <2> QED
      BY <1>2, <2>1, Zenon DEF Joined
  <1>5. (q \o r) \o more = q \o (r \o more) /\ r \o more \in Seq(Bytes)
    <2>1. Joined(q, r, more)
      BY Together
    <2> QED
      BY <2>1, Zenon DEF Joined
  <1>6. (b \o v) \o (r \o more) = Coming(s, e)[k]
    BY <1>3, <1>4, <1>5
  <1> QED
    BY <1>2, <1>5, <1>6, Zenon DEF InStep

(* An end that comes to a message has neither collected nor sent any of it. *)
LEMMA Fresh ==
    ASSUME NEW s, Flow(s), NEW e \in Ends, NEW k \in 1 .. Len(s) + 1
    PROVE  Collecting(s, e, k, <<>>) /\ Sending(s, e, k, 0)
PROOF
  <1>1. Len(s) \in Nat
    BY DEF Flow
  <1>2. CASE k <= Len(s)
    <2>1. k \in 1 .. Len(s)
      BY <1>1, <1>2
    <2>2. Sound(s[k])
      BY <2>1, Zenon DEF Flow
    <2>3. Len(s[k].bytes) \in Nat /\ 0 < Len(s[k].bytes) /\ Len(<<>>) = 0
      BY <2>2 DEF Sound
    <2> QED
      BY <2>3 DEF Collecting, Sending, Expected, Written
  <1>3. CASE ~(k <= Len(s))
    BY <1>3 DEF Collecting, Sending, Expected, Written
  <1> QED
    BY <1>2, <1>3

-----------------------------------------------------------------------------
(* Progress *)

(* The boundaries of the chunks that an end has to pass, in order. *)
LEMMA Boundaries ==
    ASSUME NEW x \in Exchanges
    PROVE  /\ \A i \in 0 .. CountOf(x) : Begin(x[2], i) \in 0 .. x[2]
           /\ \A i \in 0 .. CountOf(x) - 1 :
                 /\ Begin(x[2], i) < Begin(x[2], i + 1)
                 /\ Begin(x[2], i + 1) = Begin(x[2], i) + payload_size_for_chunk(ManifestOf(x), i)
                 /\ payload_size_for_chunk(ManifestOf(x), i) \in Nat
           /\ Begin(x[2], CountOf(x)) = x[2]
           /\ x[2] \in Nat
PROOF
  <1>1. PICK k \in Nat, n \in 0 .. MaxFileSize, name \in Seq(Bytes) :
           k = CountOf(x) /\ n = x[2] /\ name = x[1] /\ k = (n + ChunkSize - 1) \div ChunkSize
           /\ ChunkSize \in 1 .. Power[W32] - 1
    BY FileFacts
  <1>2. /\ \A i \in 0 .. k : Boundary(n, ChunkSize, k, i) \in 0 .. n
        /\ \A i \in 0 .. k - 1 :
              /\ payload_size_for_chunk(NewManifest(name, n, ChunkSize), i) \in Nat
              /\ Boundary(n, ChunkSize, k, i) < Boundary(n, ChunkSize, k, i + 1)
              /\ Boundary(n, ChunkSize, k, i + 1) = Boundary(n, ChunkSize, k, i)
                     + payload_size_for_chunk(NewManifest(name, n, ChunkSize), i)
    BY <1>1, SideBySide
  <1>3. \A i : Begin(x[2], i) = Boundary(n, ChunkSize, k, i)
    BY <1>1 DEF Begin, CountOf
  <1>4. Boundary(n, ChunkSize, k, k) = n /\ n \in Nat
    BY DEF Boundary
  <1> QED
    BY <1>1, <1>2, <1>3, <1>4 DEF ManifestOf

(* A chunk begins no later than the ones after it. *)
LEMMA Rising ==
    ASSUME NEW x \in Exchanges, NEW j \in 0 .. CountOf(x), NEW i \in 0 .. j
    PROVE  Begin(x[2], i) <= Begin(x[2], j)
PROOF
  <1> DEFINE B(k) == Begin(x[2], k)
  <1>1. PICK n \in Nat : n = CountOf(x)
    BY FileFacts
  <1>2. /\ \A k \in 0 .. n : B(k) \in Nat
        /\ \A k \in 0 .. n - 1 : B(k) < B(k + 1)
    BY <1>1, Boundaries
  <1> HIDE DEF B
  <1> DEFINE T == {m \in 0 .. n : \A k \in 0 .. m : B(k) <= B(m)}
  <1>3. 0 \in T
    BY <1>2
  <1>4. ASSUME NEW m \in 1 .. n, m - 1 \in T PROVE m \in T
    <2>1. PICK l \in 0 .. n - 1 : l = m - 1 /\ m = l + 1
      OBVIOUS
    <2>2. B(l) < B(m) /\ B(l) \in Nat /\ B(m) \in Nat
      BY <1>2, <2>1
    <2>3. ASSUME NEW k \in 0 .. m PROVE B(k) <= B(m)
      <3>1. CASE k = m
        BY <2>2, <3>1
      <3>2. CASE k # m
        <4>1. k \in 0 .. l /\ k \in 0 .. n
          BY <2>1, <3>2
        <4>2. B(k) <= B(l) /\ B(k) \in Nat
          BY <1>2, <1>4, <2>1, <4>1
        <4> QED
          BY <2>2, <4>2
      <3> QED
        BY <3>1, <3>2
    <2> QED
      BY <2>3
  <1> HIDE DEF T
  <1>5. \A m \in 0 .. n : m \in T
    BY <1>3, <1>4, UpTo
  <1> QED
    BY <1>1, <1>5 DEF T, B

(* The bytes of the list add up without wrapping around, and each chunk has  *)
(* some.                                                                     *)
LEMMA Totals ==
    ASSUME NEW x \in Exchanges
    PROVE  /\ TotalOf(x)[0] = 0
           /\ \A j \in 0 .. LeftOf(x) : TotalOf(x)[j] \in Nat
           /\ \A j \in 1 .. LeftOf(x) :
                 /\ TotalOf(x)[j] = TotalOf(x)[j - 1]
                                     + payload_size_for_chunk(ManifestOf(x), MissingOf(x)[j])
                 /\ payload_size_for_chunk(ManifestOf(x), MissingOf(x)[j]) \in Nat \ {0}
PROOF
  <1> DEFINE c == LeftOf(x)
             z(j) == payload_size_for_chunk(ManifestOf(x), MissingOf(x)[j])
             B(i) == Begin(x[2], i)
             Eq(f) == f = [j \in 0 .. c |-> IF j = 0 THEN 0 ELSE U64(f[j - 1] + z(j))]
             total == CHOOSE f : Eq(f)
             step == [j \in 1 .. c |-> [y \in Nat |-> U64(y + z(j))]]
  <1>1. c \in Nat /\ x[2] \in Nat /\ x[2] < Power[W64] /\ Power[W64] \in Nat \ {0}
    <2>1. x[2] \in 0 .. MaxFileSize /\ ChunkSize \in 1 .. Power[W32] - 1 /\ c \in Nat
      BY FileFacts
    <2>2. Power[W64] \in Nat \ {0}
      BY MagicsFit
    <2>3. PICK n \in 0 .. MaxFileSize : n = x[2]
      BY <2>1
    <2>4. n \in Nat /\ ChunkSize \in Nat /\ n + ChunkSize < Power[W64]
      BY <2>1, SizesFit
    <2> QED
      BY <2>1, <2>2, <2>3, <2>4
  <1>2. PICK n \in Nat : n = CountOf(x)
    BY FileFacts
  <1>3. ASSUME NEW j \in 1 .. c
        PROVE  \E i \in 0 .. n - 1 :
                  /\ i = MissingOf(x)[j]
                  /\ z(j) \in Nat \ {0}
                  /\ B(i) \in Nat /\ B(i + 1) \in 0 .. x[2] /\ B(i + 1) = B(i) + z(j)
    <2>1. PICK i \in 0 .. n - 1 : i = MissingOf(x)[j]
      BY <1>2, MissingIndex
    <2>2. /\ B(i) < B(i + 1) /\ B(i + 1) = B(i) + payload_size_for_chunk(ManifestOf(x), i)
          /\ payload_size_for_chunk(ManifestOf(x), i) \in Nat
      BY <1>2, Boundaries
    <2>3. i \in 0 .. n /\ i + 1 \in 0 .. n
      BY <1>2
    <2>4. B(i) \in 0 .. x[2] /\ B(i + 1) \in 0 .. x[2]
      BY <1>2, <2>3, Boundaries
    <2>5. z(j) = payload_size_for_chunk(ManifestOf(x), i)
      BY <2>1
    <2> HIDE DEF z, B
    <2>6. z(j) \in Nat \ {0} /\ B(i) \in Nat /\ B(i + 1) = B(i) + z(j)
      BY <1>1, <2>2, <2>4, <2>5
    <2> QED
      BY <2>1, <2>4, <2>6
  <1>4. TotalOf(x) = total
    BY DEF TotalOf, LeftOf, MissingOf, ManifestOf
  <1>5. ASSUME NEW j \in 2 .. c PROVE B(MissingOf(x)[j - 1] + 1) <= B(MissingOf(x)[j])
    <2>1. j \in 1 .. c /\ j - 1 \in 1 .. c
      BY <1>1
    <2>2. PICK h \in 0 .. n - 1, i \in 0 .. n - 1 : h = MissingOf(x)[j - 1] /\ i = MissingOf(x)[j]
      BY <1>2, <2>1, MissingIndex
    <2>3. h < i
      BY <2>2, FileFacts
    <2>4. i \in 0 .. n /\ h + 1 \in 0 .. i
      BY <1>2, <2>3
    <2>5. B(h + 1) <= B(i)
      BY <1>2, <2>4, Rising
    <2> QED
      BY <2>2, <2>5
  <1> HIDE DEF z, c, B
  <1>6. step \in Steps(c, Nat)
    <2>1. ASSUME NEW j \in 1 .. c, NEW y \in Nat PROVE U64(y + z(j)) \in Nat
      <3>1. z(j) \in Nat
        BY <1>3
      <3> QED
        BY <1>1, <3>1 DEF U64
    <2> QED
      BY <2>1, Zenon DEF Steps
  <1>7. PICK g \in Values(c, Nat) : Unrolls(g, c, 0, step)
    <2> HIDE DEF step
    <2> QED
      BY <1>1, <1>6, Recursive, Zenon
  <1>8. g \in [0 .. c -> Nat] /\ g[0] = 0 /\ \A j \in 1 .. c : g[j] = step[j][g[j - 1]]
    BY <1>7, Zenon DEF Values, Unrolls
  <1>9. Eq(g)
    <2>1. ASSUME NEW j \in 0 .. c PROVE g[j] = IF j = 0 THEN 0 ELSE U64(g[j - 1] + z(j))
      <3>1. CASE j = 0
        BY <1>8, <3>1
      <3>2. CASE j # 0
        <4>1. j \in 1 .. c /\ j - 1 \in 0 .. c
          BY <1>1, <3>2
        <4>2. g[j - 1] \in Nat
          BY <1>8, <4>1
        <4> QED
          BY <1>8, <3>2, <4>1, <4>2, Zenon
      <3> QED
        BY <3>1, <3>2
    <2> QED
      BY <1>8, <2>1, Zenon
  <1>10. Eq(total)
    BY <1>9, Zenon
  <1> HIDE DEF total
  <1>11. total[0] = 0 /\ \A j \in 1 .. c : total[j] = U64(total[j - 1] + z(j))
    <2>1. \A j \in 0 .. c : total[j] = IF j = 0 THEN 0 ELSE U64(total[j - 1] + z(j))
      BY <1>10, Zenon
    <2>2. 0 \in 0 .. c /\ \A j \in 1 .. c : j \in 0 .. c /\ j # 0
      BY <1>1
    <2> QED
      BY <2>1, <2>2, Zenon
  <1> DEFINE End(j) == IF j = 0 THEN 0 ELSE B(MissingOf(x)[j] + 1)
             T == {j \in 0 .. c : total[j] \in Nat /\ total[j] <= End(j)}
  <1>12. ASSUME NEW j \in 1 .. c, j - 1 \in T
         PROVE  j \in T /\ total[j] = total[j - 1] + z(j)
    <2>1. PICK i \in 0 .. n - 1 :
             /\ i = MissingOf(x)[j] /\ z(j) \in Nat \ {0}
             /\ B(i) \in Nat /\ B(i + 1) \in 0 .. x[2] /\ B(i + 1) = B(i) + z(j)
      BY <1>3
    <2>2. End(j - 1) <= B(i)
      <3>1. CASE j = 1
        BY <2>1, <3>1
      <3>2. CASE j # 1
        <4>1. j \in 2 .. c /\ j - 1 # 0
          BY <1>1, <3>2
        <4> QED
          BY <1>5, <2>1, <4>1
      <3> QED
        BY <3>1, <3>2
    <2>3. total[j - 1] \in Nat /\ total[j - 1] <= End(j - 1)
      BY <1>12
    <2>4. End(j - 1) \in Nat
      <3>1. CASE j = 1
        BY <3>1
      <3>2. CASE j # 1
        <4>1. j - 1 \in 1 .. c /\ j - 1 # 0
          BY <1>1, <3>2
        <4>2. B(MissingOf(x)[j - 1] + 1) \in 0 .. x[2]
          BY <1>3, <4>1
        <4> QED
          BY <1>1, <4>1, <4>2
      <3> QED
        BY <3>1, <3>2
    <2>5. PICK a \in Nat, b \in Nat, d \in Nat, e \in Nat :
             a = total[j - 1] /\ b = B(i) /\ d = z(j) /\ e = End(j - 1)
      BY <2>1, <2>3, <2>4
    <2>6. a <= b /\ b + d <= x[2] /\ a + d < Power[W64]
      BY <1>1, <2>1, <2>2, <2>3, <2>5
    <2>7. total[j] = U64(a + d)
      BY <1>11, <2>5
    <2>8. total[j] = a + d
      BY <1>1, <2>6, <2>7 DEF U64
    <2>9. End(j) = b + d
      BY <2>1, <2>5
    <2> HIDE DEF End
    <2> QED
      BY <2>5, <2>6, <2>8, <2>9
  <1>13. 0 \in T
    BY <1>1, <1>11
  <1> HIDE DEF T
  <1>14. \A j \in 0 .. c : j \in T
    BY <1>1, <1>12, <1>13, UpTo
  <1>15. ASSUME NEW j \in 1 .. c PROVE total[j] = total[j - 1] + z(j) /\ z(j) \in Nat \ {0}
    <2>1. j - 1 \in 0 .. c
      BY <1>1
    <2> QED
      BY <1>3, <1>12, <1>14, <2>1
  <1>16. \A j \in 0 .. c : total[j] \in Nat
    BY <1>14 DEF T
  <1> QED
    BY <1>4, <1>11, <1>15, <1>16 DEF c, z

(* What add_progress makes of the two counters. *)
Counted(p, msg) ==
    IF msg.type = "chunk"
    THEN [bytes |-> p.bytes + msg.header.payload_size, chunks |-> p.chunks + 1]
    ELSE p

LEMMA AddProgress ==
    ASSUME progress \in [Ends -> [bytes : Nat, chunks : Nat]], NEW e \in Ends, NEW msg,
           add_progress(e, msg)
    PROVE  progress' = [progress EXCEPT ![e] = Counted(progress[e], msg)]
PROOF
  <1>1. CASE msg.type = "chunk"
    <2>1. progress' = [progress EXCEPT ![e].bytes = @ + msg.header.payload_size,
                                       ![e].chunks = @ + 1]
      BY <1>1 DEF add_progress
    <2>2. PICK p \in [bytes : Nat, chunks : Nat] : p = progress[e]
      OBVIOUS
    <2>3. [[p EXCEPT !.bytes = @ + msg.header.payload_size] EXCEPT !.chunks = @ + 1]
          = [bytes |-> p.bytes + msg.header.payload_size, chunks |-> p.chunks + 1]
      <3>1. PICK z : z = msg.header.payload_size
        OBVIOUS
      <3>2. p = [bytes |-> p.bytes, chunks |-> p.chunks]
        OBVIOUS
      <3>3. [p EXCEPT !.bytes = @ + z] = [bytes |-> p.bytes + z, chunks |-> p.chunks]
        BY <3>2
      <3>4. PICK y, k : y = p.bytes + z /\ k = p.chunks
        OBVIOUS
      <3>5. PICK q : q = [p EXCEPT !.bytes = @ + z] /\ q = [bytes |-> y, chunks |-> k]
        BY <3>3, <3>4, Zenon
      <3>6. q \in [bytes : {y}, chunks : {k}] /\ q.chunks = k /\ q.bytes = y
        BY <3>5
      <3>7. [q EXCEPT !.chunks = @ + 1] = [bytes |-> y, chunks |-> k + 1]
        BY <3>6
      <3>8. [[p EXCEPT !.bytes = @ + z] EXCEPT !.chunks = @ + 1]
            = [bytes |-> p.bytes + z, chunks |-> p.chunks + 1]
        BY <3>4, <3>5, <3>7, Zenon
      <3> QED
        BY <3>1, <3>8, Zenon
    <2>4. progress' = [progress EXCEPT ![e] = [[p EXCEPT !.bytes = @ + msg.header.payload_size]
                                                   EXCEPT !.chunks = @ + 1]]
      BY <2>1, <2>2
    <2> QED
      BY <1>1, <2>2, <2>3, <2>4 DEF Counted
  <1>2. CASE msg.type # "chunk"
    BY <1>2 DEF add_progress, Counted
  <1> QED
    BY <1>1, <1>2

(* The types of the messages by their places. *)
LEMMA TypesByPlace ==
    ASSUME Requestable, NEW x \in Exchanges
    PROVE  LET s == ScriptOf(x)
           IN  /\ s[1].msg.type = "manifest" /\ s[2].msg.type = "request"
               /\ \A j \in 1 .. LeftOf(x) :
                     /\ s[j + 2].msg.type = "chunk"
                     /\ s[j + 2].msg.header.payload_size
                        = payload_size_for_chunk(ManifestOf(x), MissingOf(x)[j])
               /\ s[LeftOf(x) + 3].msg.type = "hash"
PROOF
  <1> DEFINE s == ScriptOf(x)
             m == ManifestOf(x)
             c == LeftOf(x)
  <1>1. /\ s[1] = By("sender", ManifestMsg(m))
        /\ s[2] = By("receiver", RequestMsg(m, MissingOf(x)))
        /\ \A j \in 1 .. c : s[j + 2] = By("sender", ChunkMsg(m, MissingOf(x)[j]))
        /\ s[c + 3] = By("sender", HashMsg(m))
    BY ScriptShape
  <1>2. \A f, g : By(f, g).msg = g
    BY DEF By
  <1> HIDE DEF s, m
  <1>3. s[1].msg.type = "manifest"
    BY <1>1, <1>2 DEF ManifestMsg
  <1>4. s[2].msg.type = "request"
    BY <1>1, <1>2 DEF RequestMsg
  <1>5. s[c + 3].msg.type = "hash"
    BY <1>1, <1>2 DEF HashMsg
  <1>6. ASSUME NEW j \in 1 .. c
        PROVE  /\ s[j + 2].msg.type = "chunk"
               /\ s[j + 2].msg.header.payload_size = payload_size_for_chunk(m, MissingOf(x)[j])
    <2>1. s[j + 2].msg = ChunkMsg(m, MissingOf(x)[j])
      BY <1>1, <1>2
    <2> QED
      BY <2>1 DEF ChunkMsg, NewHeader
  <1> QED
    BY <1>3, <1>4, <1>5, <1>6 DEF s, m

(* Passing a message. *)
LEMMA Progressed ==
    ASSUME Requestable, NEW x \in Exchanges, NEW k \in 1 .. Len(ScriptOf(x)),
           NEW p, ProgressAt(x, k, p)
    PROVE  /\ ProgressAt(x, k + 1, Counted(p, ScriptOf(x)[k].msg))
           /\ Counted(p, ScriptOf(x)[k].msg) \in [bytes : Nat, chunks : Nat]
PROOF
  <1> DEFINE s == ScriptOf(x)
             msg == s[k].msg
             B == TotalOf(x)
             z(j) == payload_size_for_chunk(ManifestOf(x), MissingOf(x)[j])
  <1>1. PICK c \in Nat : c = LeftOf(x)
    BY FileFacts
  <1>2. Len(s) = c + 3
    BY <1>1, ScriptShape
  <1>3. /\ s[1].msg.type = "manifest" /\ s[2].msg.type = "request"
        /\ \A j \in 1 .. c :
              s[j + 2].msg.type = "chunk" /\ s[j + 2].msg.header.payload_size = z(j)
        /\ s[c + 3].msg.type = "hash"
    BY <1>1, TypesByPlace
  <1>4. /\ \A j \in 0 .. c : B[j] \in Nat
        /\ \A j \in 1 .. c : B[j] = B[j - 1] + z(j)
    BY <1>1, Totals
  <1> HIDE DEF s, B, z
  <1>5. \A i : Passed(s, i) = IF i < 3 THEN 0 ELSE IF i < c + 3 THEN i - 3 ELSE c
    BY <1>1, <1>2 DEF Passed
  <1>6. \A i, q : ProgressAt(x, i, q) <=> q = [bytes |-> B[Passed(s, i)], chunks |-> Passed(s, i)]
    BY <1>1 DEF ProgressAt, s, B
  <1>7. k \in 1 .. c + 3
    BY <1>2 DEF s
  <1>8. Passed(s, k) \in 0 .. c /\ B[Passed(s, k)] \in Nat
    <2>1. Passed(s, k) \in 0 .. c
      BY <1>5, <1>7
    <2> QED
      BY <1>4, <2>1
  <1>9. p = [bytes |-> B[Passed(s, k)], chunks |-> Passed(s, k)]
    BY <1>6
  <1>10. Passed(s, k) \in Nat
    BY <1>5, <1>7
  <1>11. ASSUME Passed(s, k + 1) = Passed(s, k), msg.type # "chunk"
         PROVE  ProgressAt(x, k + 1, Counted(p, msg)) /\ Counted(p, msg) \in [bytes : Nat, chunks : Nat]
    <2>1. Counted(p, msg) = p
      BY <1>11 DEF Counted
    <2>2. p \in [bytes : Nat, chunks : Nat]
      BY <1>8, <1>9, <1>10
    <2> QED
      BY <1>6, <1>9, <1>11, <2>1, <2>2
  <1>12. CASE k = 1
    <2>1. Passed(s, k + 1) = Passed(s, k) /\ msg.type # "chunk"
      BY <1>3, <1>5, <1>12
    <2> QED
      BY <1>11, <2>1 DEF s
  <1>13. CASE k = 2
    <2>1. Passed(s, k + 1) = Passed(s, k) /\ msg.type # "chunk"
      BY <1>1, <1>3, <1>5, <1>13
    <2> QED
      BY <1>11, <2>1 DEF s
  <1>14. CASE k = c + 3
    <2>1. Passed(s, k + 1) = Passed(s, k) /\ msg.type # "chunk"
      BY <1>1, <1>3, <1>5, <1>14
    <2> QED
      BY <1>11, <2>1 DEF s
  <1>15. ASSUME NEW j \in 1 .. c, k = j + 2
         PROVE  /\ ProgressAt(x, k + 1, Counted(p, msg))
                /\ Counted(p, msg) \in [bytes : Nat, chunks : Nat]
    <2>1. Passed(s, k) = j - 1 /\ Passed(s, k + 1) = j
      BY <1>1, <1>5, <1>15, SMTT(30)
    <2>2. msg.type = "chunk" /\ msg.header.payload_size = z(j)
      BY <1>3, <1>15
    <2>3. Counted(p, msg) = [bytes |-> B[j - 1] + z(j), chunks |-> j - 1 + 1]
      BY <1>9, <2>1, <2>2 DEF Counted
    <2>4. B[j] = B[j - 1] + z(j) /\ B[j] \in Nat /\ j - 1 + 1 = j
      BY <1>4
    <2>7. Counted(p, msg) = [bytes |-> B[j], chunks |-> j]
      BY <2>3, <2>4
    <2>8. ProgressAt(x, k + 1, Counted(p, msg))
      BY <1>6, <2>1, <2>7
    <2>9. Counted(p, msg) \in [bytes : Nat, chunks : Nat]
      BY <2>4, <2>7
    <2> QED
      BY <2>8, <2>9
  <1> QED
    BY <1>1, <1>12, <1>13, <1>14, <1>15, Positions DEF s

-----------------------------------------------------------------------------
(* The steps *)

LEMMA Peers ==
    ASSUME NEW e \in Ends
    PROVE  /\ Peer(e) \in Ends /\ Peer(e) # e /\ Peer(Peer(e)) = e
           /\ \A f \in Ends : f = e \/ f = Peer(e)
  BY DEF Ends, Peer

(* Every message has one end that sends it and one that reads it. *)
LEMMA Turns ==
    ASSUME NEW s, Flow(s), NEW e \in Ends, NEW k \in 1 .. Len(s)
    PROVE  /\ Written(s, e, k) <=> s[k].by = e
           /\ Expected(s, e, k) <=> s[k].by # e
           /\ Expected(s, Peer(e), k) <=> s[k].by = e
PROOF
  <1>1. Len(s) \in Nat /\ Sound(s[k])
    BY DEF Flow
  <1>2. k <= Len(s) /\ s[k].by \in Ends
    BY <1>1 DEF Sound
  <1> QED
    BY <1>2, Peers DEF Written, Expected

(* Only the request is sent by the receiver. *)
LEMMA ByWhom ==
    ASSUME NEW x \in Exchanges, NEW k \in 1 .. Len(ScriptOf(x))
    PROVE  ScriptOf(x)[k].by = IF k = 2 THEN "receiver" ELSE "sender"
PROOF
  <1> DEFINE s == ScriptOf(x)
             m == ManifestOf(x)
  <1>1. PICK c \in Nat : c = LeftOf(x)
    BY FileFacts
  <1>2. /\ s[1] = By("sender", ManifestMsg(m))
        /\ s[2] = By("receiver", RequestMsg(m, MissingOf(x)))
        /\ \A j \in 1 .. c : s[j + 2] = By("sender", ChunkMsg(m, MissingOf(x)[j]))
        /\ s[c + 3] = By("sender", HashMsg(m))
    BY <1>1, ScriptShape
  <1>3. \A f, g : By(f, g).by = f
    BY DEF By
  <1>4. k = 1 \/ k = 2 \/ (\E j \in 1 .. c : k = j + 2) \/ k = c + 3
    BY <1>1, Positions
  <1> HIDE DEF s, m
  <1>5. s[1].by = "sender" /\ s[2].by = "receiver" /\ s[c + 3].by = "sender"
    BY <1>2, <1>3
  <1>6. \A j \in 1 .. c : s[j + 2].by = "sender"
    BY <1>2, <1>3
  <1>7. c + 3 # 2 /\ \A j \in 1 .. c : j + 2 # 2
    OBVIOUS
  <1>8. s[k].by = IF k = 2 THEN "receiver" ELSE "sender"
    BY <1>4, <1>5, <1>6, <1>7
  <1> QED
    BY <1>8 DEF s

(* The invariant at one end. *)
LEMMA AtEnd ==
    ASSUME Requestable, NEW x \in Exchanges, WireInvOf(x), NEW e \in Ends
    PROVE  /\ Flow(script) /\ Len(script) \in Nat
           /\ at[e] \in 1 .. Len(script) + 1 /\ sent[e] \in Nat
           /\ buf[e] \in Seq(Bytes) /\ wire[e] \in Seq(Bytes)
           /\ ended[e] = "no" =>
                 InStep(script, e, at[e], buf[e], wire[e], at[Peer(e)], sent[Peer(e)], up)
           /\ Collecting(script, e, at[e], buf[e])
           /\ Sending(script, e, at[e], sent[e])
PROOF
  <1>1. script = ScriptOf(x) /\ WireTypes
    BY DEF WireInvOf
  <1>2. Flow(script) /\ Len(script) \in Nat
    BY <1>1, Flows DEF Flow
  <1>3. /\ at[e] \in 1 .. Len(script) + 1 /\ sent[e] \in Nat
        /\ buf[e] \in Seq(Bytes) /\ wire[e] \in Seq(Bytes)
    BY <1>1 DEF WireTypes
  <1>4. /\ ended[e] = "no" =>
              InStep(script, e, at[e], buf[e], wire[e], at[Peer(e)], sent[Peer(e)], up)
        /\ Collecting(script, e, at[e], buf[e])
        /\ Sending(script, e, at[e], sent[e])
    BY Zenon DEF WireInvOf, StreamInv, CollectInv, SentInv
  <1> QED
    BY <1>2, <1>3, <1>4

(* An end is past the message it was at. *)
LEMMA MovesOn ==
    ASSUME Requestable, NEW x \in Exchanges, script = ScriptOf(x), WireTypes, ProgressInv(x),
           NEW e \in Ends, at[e] \in 1 .. Len(script), script' = script,
           at' = [at EXCEPT ![e] = @ + 1], add_progress(e, script[at[e]].msg)
    PROVE  /\ at' \in [Ends -> 1 .. Len(script) + 1]
           /\ progress' \in [Ends -> [bytes : Nat, chunks : Nat]]
           /\ ProgressInv(x)'
PROOF
  <1>1. /\ at \in [Ends -> 1 .. Len(script) + 1]
        /\ progress \in [Ends -> [bytes : Nat, chunks : Nat]]
    BY DEF WireTypes
  <1>2. PICK k \in 1 .. Len(script) : k = at[e]
    BY Zenon
  <1>3. PICK p : p = progress[e]
    OBVIOUS
  <1>4. ProgressAt(x, k, p)
    BY <1>2, <1>3, Zenon DEF ProgressInv
  <1>5. PICK q : q = Counted(p, script[k].msg)
    OBVIOUS
  <1>6. ProgressAt(x, k + 1, q) /\ q \in [bytes : Nat, chunks : Nat]
    BY <1>4, <1>5, Progressed
  <1>7. progress' = [progress EXCEPT ![e] = q]
    BY <1>1, <1>2, <1>3, <1>5, AddProgress
  <1>8. Len(script) \in Nat
    BY ScriptShape, FileFacts
  <1>9. k + 1 \in 1 .. Len(script) + 1
    BY <1>8
  <1>10. at' = [at EXCEPT ![e] = k + 1]
    BY <1>2
  <1>11. ASSUME NEW f \in Ends PROVE ProgressAt(x, at'[f], progress'[f])
    <2>1. CASE f = e
      <3>1. at'[f] = k + 1 /\ progress'[f] = q
        BY <1>1, <1>7, <1>10, <2>1
      <3> QED
        BY <1>6, <3>1, Zenon
    <2>2. CASE f # e
      <3>1. at'[f] = at[f] /\ progress'[f] = progress[f]
        BY <1>1, <1>7, <1>10, <2>2
      <3>2. ProgressAt(x, at[f], progress[f])
        BY Zenon DEF ProgressInv
      <3> QED
        BY <3>1, <3>2, Zenon
    <2> QED
      BY <2>1, <2>2
  <1>12. at' \in [Ends -> 1 .. Len(script) + 1]
    BY <1>1, <1>9, <1>10
  <1>13. progress' \in [Ends -> [bytes : Nat, chunks : Nat]]
    BY <1>1, <1>6, <1>7
  <1>14. ProgressInv(x)'
    BY <1>11 DEF ProgressInv
  <1> QED
    BY <1>12, <1>13, <1>14

(* At first nothing is sent and nothing is read. *)
LEMMA WireInitially == ASSUME Requestable, Init PROVE WireInv
PROOF
  <1>1. PICK name \in Names, n \in FileSizes :
           LET m == NewManifest(name, n, ChunkSize)
           IN  \E missing \in Lists(m.chunk_count) : script = Exchange(m, missing)
    BY Zenon DEF Init
  <1>2. PICK list \in Lists(chunk_count(n, ChunkSize)) :
           script = Exchange(NewManifest(name, n, ChunkSize), list)
    BY <1>1 DEF NewManifest
  <1>3. PICK x \in Exchanges : script = ScriptOf(x)
    <2>1. list \in Seq(Nat)
      <3>1. chunk_count(n, ChunkSize) \in Nat
        <4>1. n \in 0 .. MaxFileSize /\ ChunkSize \in 1 .. Power[W32] - 1
          BY WireStreamAssumption DEF MaxFileSize
        <4>2. NewManifest(name, n, ChunkSize).chunk_count = (n + ChunkSize - 1) \div ChunkSize
          BY <4>1, PlanIsExact
        <4>3. (n + ChunkSize - 1) \div ChunkSize \in Nat
          BY <4>1, SizesFit, SMTT(30)
        <4> QED
          BY <4>2, <4>3 DEF NewManifest
      <3>2. PICK k \in Nat : list \in UNION {[1 .. c -> 0 .. k - 1] : c \in 0 .. k}
        BY <3>1, Zenon DEF Lists
      <3> QED
        BY <3>2
    <2>2. <<name, n, list>> \in Exchanges
      BY <2>1 DEF Exchanges
    <2> QED
      BY <1>2, <2>2 DEF ScriptOf
  <1>4. PICK s : s = script /\ s = ScriptOf(x)
    BY <1>3
  <1>5. Flow(s) /\ Len(s) \in Nat
    BY <1>4, Flows DEF Flow
  <1>6. 1 \in 1 .. Len(s) + 1
    BY <1>5
  <1>7. /\ at = [e \in Ends |-> 1] /\ sent = [e \in Ends |-> 0]
        /\ buf = [e \in Ends |-> <<>>] /\ wire = [e \in Ends |-> <<>>]
        /\ up = TRUE /\ got = [e \in Ends |-> <<>>]
        /\ progress = [e \in Ends |-> [bytes |-> 0, chunks |-> 0]]
        /\ ended = [e \in Ends |-> "no"]
    BY DEF Init
  <1>8. WireTypes
    BY <1>4, <1>6, <1>7 DEF WireTypes
  <1>9. ASSUME NEW e \in Ends
        PROVE  InStep(s, e, 1, <<>>, <<>>, 1, 0, TRUE)
    <2>1. Unsent(s, e, 1, 0) = Coming(s, e)[1] /\ Unsent(s, e, 1, 0) \in Seq(Bytes)
      BY <1>5, <1>6, UnsentAll
    <2>2. PICK more \in Seq(Bytes) : more = Unsent(s, e, 1, 0) /\ more = Coming(s, e)[1]
      BY <2>1, Zenon
    <2>3. (<<>> \o <<>>) \o more = more
      <3>1. <<>> \o <<>> = <<>>
        OBVIOUS
      <3>2. <<>> \o more = more
        BY ConcatEmptySeq
      <3> QED
        BY <3>1, <3>2
    <2> QED
      BY <2>2, <2>3 DEF InStep
  <1>10. \A e \in Ends : /\ at[e] = 1 /\ sent[e] = 0 /\ buf[e] = <<>> /\ wire[e] = <<>>
                         /\ at[Peer(e)] = 1 /\ sent[Peer(e)] = 0 /\ ended[e] = "no"
                         /\ progress[e] = [bytes |-> 0, chunks |-> 0]
    BY <1>7, Peers
  <1>11. StreamInv
    BY <1>4, <1>7, <1>9, <1>10 DEF StreamInv
  <1>12. CollectInv /\ SentInv
    BY <1>4, <1>5, <1>6, <1>10, Fresh DEF CollectInv, SentInv
  <1>13. GotInv
    BY <1>7 DEF GotInv, Ends
  <1>14. EndInv
    BY <1>10 DEF EndInv
  <1>15. ProgressAt(x, 1, [bytes |-> 0, chunks |-> 0])
    <2>1. Passed(ScriptOf(x), 1) = 0
      BY DEF Passed
    <2> QED
      BY <2>1, Totals DEF ProgressAt
  <1>16. ProgressInv(x)
    BY <1>10, <1>15 DEF ProgressInv
  <1> QED
    BY <1>3, <1>8, <1>11, <1>12, <1>13, <1>14, <1>16 DEF WireInv, WireInvOf

(* With n bytes of the wire w the reader has q, and v is left. *)
Taken(b, w, n, q, v) == q = b \o SubSeq(w, 1, n) /\ v = SubSeq(w, n + 1, Len(w))

(* What one turn of recv_exact leads to. *)
LEMMA ReaderTurns ==
    ASSUME NEW s, Flow(s), NEW e \in Ends, NEW k \in 1 .. Len(s), Expected(s, e, k),
           NEW b \in Seq(Bytes), NEW w \in Seq(Bytes), NEW j, NEW m, NEW alive,
           InStep(s, e, k, b, w, j, m, alive), Len(b) < Len(s[k].bytes),
           NEW n \in 1 .. Len(w), NEW q, NEW v, Taken(b, w, n, q, v),
           Len(q) <= Wanted(s[k].msg.type, b)
    PROVE  /\ q \in Seq(Bytes) /\ v \in Seq(Bytes)
           /\ Len(q) < Wanted(s[k].msg.type, q) =>
                 InStep(s, e, k, q, v, j, m, alive) /\ Len(q) < Len(s[k].bytes)
           /\ ~(Len(q) < Wanted(s[k].msg.type, q)) =>
                 q = s[k].bytes /\ InStep(s, e, k + 1, <<>>, v, j, m, alive)
PROOF
  <1>1. Sound(s[k])
    BY Zenon DEF Flow
  <1>2. PICK type : type = s[k].msg.type
    OBVIOUS
  <1>a. PICK a \in Seq(Bytes) : a = s[k].bytes /\ Whole(type, a)
    BY <1>1, <1>2 DEF Sound
  <1>3. n \in 0 .. Len(w)
    OBVIOUS
  <1>4. /\ b \o SubSeq(w, 1, n) \in Seq(Bytes)
        /\ SubSeq(w, n + 1, Len(w)) \in Seq(Bytes)
        /\ InStep(s, e, k, b \o SubSeq(w, 1, n), SubSeq(w, n + 1, Len(w)), j, m, alive)
    BY <1>3, ReaderCollects
  <1>5. q \in Seq(Bytes) /\ v \in Seq(Bytes) /\ InStep(s, e, k, q, v, j, m, alive)
    BY <1>4, Zenon DEF Taken
  <1>6. PICK y \in Seq(Bytes) : a = b \o y
    <2>1. Len(b) <= Len(s[k].bytes)
      BY <1>2, <1>a
    <2> QED
      BY <1>2, <1>a, <2>1, ReaderHolds
  <1>7. Wanted(type, b) \in Nat /\ Wanted(type, b) <= Len(a)
    BY <1>2, <1>a, <1>6, WantsTheMessage
  <1>8. Len(q) \in Nat /\ Len(q) <= Len(a) /\ Len(a) \in Nat
    BY <1>2, <1>a, <1>5, <1>7
  <1>9. PICK z \in Seq(Bytes) : a = q \o z
    <2>1. Len(q) <= Len(s[k].bytes)
      BY <1>2, <1>a, <1>8
    <2> QED
      BY <1>2, <1>a, <1>5, <2>1, ReaderHolds
  <1>10. /\ Wanted(type, q) \in Nat /\ Wanted(type, q) <= Len(a)
         /\ Len(q) >= Wanted(type, q) => Len(q) = Len(a)
    <2>1. PICK r \in Seq(Bytes) : r = q /\ a = r \o z
      BY <1>5, <1>9, Zenon
    <2>2. a = r \o z /\ Whole(type, a)
      BY <1>2, <1>a, <2>1, Zenon
    <2>3. /\ Wanted(type, r) \in Nat /\ Wanted(type, r) <= Len(a)
          /\ Len(r) >= Wanted(type, r) => Len(r) = Len(a)
      BY <2>2, WantsTheMessage, Zenon
    <2> QED
      BY <2>1, <2>3, Zenon
  <1>11. CASE Len(q) < Wanted(type, q)
    BY <1>2, <1>a, <1>5, <1>8, <1>10, <1>11
  <1>12. CASE ~(Len(q) < Wanted(type, q))
    <2>1. Len(q) = Len(s[k].bytes)
      BY <1>2, <1>a, <1>8, <1>10, <1>12
    <2>2. q = s[k].bytes /\ InStep(s, e, k + 1, <<>>, v, j, m, alive)
      <3>1. PICK r \in Seq(Bytes), u \in Seq(Bytes) : r = q /\ u = v
        BY <1>5, Zenon
      <3>2. InStep(s, e, k, r, u, j, m, alive) /\ Len(r) = Len(s[k].bytes)
        BY <1>5, <2>1, <3>1, Zenon
      <3>3. r = s[k].bytes /\ InStep(s, e, k + 1, <<>>, u, j, m, alive)
        BY <3>2, ReaderFinishes
      <3> QED
        BY <3>1, <3>3, Zenon
    <2> QED
      BY <1>2, <1>a, <1>5, <1>12, <2>2
  <1> QED
    BY <1>11, <1>12

(* send_all hands some bytes to the kernel. *)
LEMMA SendKeeps ==
    ASSUME Requestable, NEW x \in Exchanges, WireInvOf(x), NEW e \in Ends, SendSome(e)
    PROVE  WireInvOf(x)'
PROOF
  <1>1. /\ script = ScriptOf(x) /\ WireTypes /\ StreamInv /\ CollectInv /\ SentInv
        /\ GotInv /\ EndInv /\ ProgressInv(x)
    BY DEF WireInvOf
  <1>2. PICK p \in Ends : p = Peer(e) /\ Peer(p) = e /\ p # e /\ \A f \in Ends : f = e \/ f = p
    BY Peers
  <1>3. PICK s : s = script
    OBVIOUS
  <1>4. Flow(s) /\ Len(s) \in Nat
    BY <1>3, AtEnd, Zenon
  <1>5. PICK k \in 1 .. Len(s) : k = at[e] /\ s[k].by = e /\ ended[e] = "no"
    <2>1. at[e] \in 1 .. Len(s) + 1 /\ at[e] <= Len(s) /\ s[at[e]].by = e /\ ended[e] = "no"
      BY <1>3, AtEnd DEF SendSome, MustSend
    <2> QED
      BY <1>4, <2>1
  <1>6. Written(s, e, k) /\ ~Expected(s, e, k) /\ Expected(s, p, k)
    BY <1>2, <1>4, <1>5, Turns
  <1>7. PICK m \in Nat, a \in Seq(Bytes) : m = sent[e] /\ a = s[k].bytes /\ m < Len(a)
    <2>1. Sound(s[k])
      BY <1>4, Zenon DEF Flow
    <2>2. s[k].bytes \in Seq(Bytes)
      BY <2>1, Zenon DEF Sound
    <2>3. sent[e] \in Nat /\ Sending(s, e, k, sent[e])
      BY <1>3, <1>5, AtEnd, Zenon
    <2>4. sent[e] < Len(s[k].bytes)
      BY <1>6, <2>3 DEF Sending
    <2> QED
      BY <2>2, <2>3, <2>4, Zenon
  <1>8. PICK w \in Seq(Bytes), b \in Seq(Bytes), j \in 1 .. Len(s) + 1 :
           w = wire[p] /\ b = buf[p] /\ j = at[p]
    BY <1>3, AtEnd, Zenon
  <1>9. PICK n \in IF up THEN 1 .. (IF Capacity - Len(w) < Len(a) - m THEN Capacity - Len(w)
                                                                      ELSE Len(a) - m)
                         ELSE {Len(a) - m} :
           /\ wire' = IF up THEN [wire EXCEPT ![p] = @ \o SubSeq(a, m + 1, m + n)] ELSE wire
           /\ IF SentAll(e, n)
              THEN /\ at' = [at EXCEPT ![e] = @ + 1]
                   /\ sent' = [sent EXCEPT ![e] = 0]
                   /\ add_progress(e, Current(e))
              ELSE /\ sent' = [sent EXCEPT ![e] = @ + n]
                   /\ UNCHANGED <<at, progress>>
    BY <1>2, <1>3, <1>5, <1>7, <1>8 DEF SendSome
  <1>10. n \in Nat /\ n > 0 /\ m + n <= Len(a)
    <2>1. PICK l \in Nat, c \in Int : l = Len(a) - m /\ c = Capacity - Len(w) /\ l > 0
      <3>1. Len(a) \in Nat /\ Len(w) \in Nat /\ m < Len(a)
        BY <1>7
      <3>2. Capacity \in Nat
        BY WireStreamAssumption
      <3>3. Len(a) - m \in Nat /\ Capacity - Len(w) \in Int /\ Len(a) - m > 0
        BY <3>1, <3>2
      <3> QED
        BY <3>3
    <2>2. n \in IF up THEN 1 .. (IF c < l THEN c ELSE l) ELSE {l}
      BY <1>9, <2>1, Zenon
    <2>3. n \in 1 .. l
      BY <2>1, <2>2
    <2>4. Len(a) \in Nat /\ l = Len(a) - m
      BY <2>1
    <2> QED
      BY <2>3, <2>4
  <1>11. SentAll(e, n) <=> m + n = Len(a)
    BY <1>3, <1>5, <1>7 DEF SentAll
  <1>12. /\ script' = script /\ buf' = buf /\ up' = up /\ got' = got /\ ended' = ended
    BY DEF SendSome
  <1>13. wire' \in [Ends -> Seq(Bytes)] /\ wire'[e] = wire[e]
         /\ (up => wire'[p] = w \o SubSeq(a, m + 1, m + n)) /\ (~up => wire'[p] = w)
    <2>1. SubSeq(a, m + 1, m + n) \in Seq(Bytes)
      BY <1>10
    <2>2. w \o SubSeq(a, m + 1, m + n) \in Seq(Bytes)
      BY <2>1
    <2> QED
      BY <1>1, <1>2, <1>8, <1>9, <2>2 DEF WireTypes
  <1>14. PICK k2 \in 1 .. Len(s) + 1, m2 \in Nat :
            /\ at' = [at EXCEPT ![e] = k2] /\ sent' = [sent EXCEPT ![e] = m2]
            /\ (m + n = Len(a) => k2 = k + 1 /\ m2 = 0)
            /\ (m + n # Len(a) => k2 = k /\ m2 = m + n)
    <2>1. CASE m + n = Len(a)
      <3>1. at' = [at EXCEPT ![e] = k + 1] /\ sent' = [sent EXCEPT ![e] = 0]
        BY <1>5, <1>9, <1>11, <2>1
      <3>2. k + 1 \in 1 .. Len(s) + 1
        BY <1>4
      <3> QED
        BY <2>1, <3>1, <3>2
    <2>2. CASE m + n # Len(a)
      <3>1. at' = at /\ sent' = [sent EXCEPT ![e] = m + n]
        BY <1>7, <1>9, <1>11, <2>2
      <3>2. k \in 1 .. Len(s) + 1 /\ m + n \in Nat
        BY <1>4, <1>10
      <3>3. at = [at EXCEPT ![e] = k]
        BY <1>1, <1>5 DEF WireTypes
      <3> QED
        BY <2>2, <3>1, <3>2, <3>3
    <2> QED
      BY <2>1, <2>2
  <1>15. at'[e] = k2 /\ at'[p] = j /\ sent'[e] = m2 /\ sent'[p] = sent[p]
    BY <1>1, <1>2, <1>8, <1>14 DEF WireTypes
  <1>16. progress' \in [Ends -> [bytes : Nat, chunks : Nat]] /\ ProgressInv(x)'
    <2>1. CASE m + n = Len(a)
      <3>1. at' = [at EXCEPT ![e] = @ + 1] /\ add_progress(e, script[at[e]].msg)
        BY <1>9, <1>11, <2>1 DEF Current
      <3>2. at[e] \in 1 .. Len(script)
        BY <1>3, <1>5
      <3> QED
        BY <1>1, <1>12, <3>1, <3>2, MovesOn
    <2>2. CASE m + n # Len(a)
      <3>1. at' = at /\ progress' = progress
        BY <1>9, <1>11, <2>2
      <3>2. ProgressInv(x)'
        BY <1>1, <3>1 DEF ProgressInv
      <3> QED
        BY <1>1, <3>1, <3>2 DEF WireTypes
    <2> QED
      BY <2>1, <2>2
  <1>17. WireTypes'
    <2>1. at' \in [Ends -> 1 .. Len(s) + 1] /\ sent' \in [Ends -> Nat]
      BY <1>1, <1>3, <1>14 DEF WireTypes
    <2> QED
      BY <1>1, <1>3, <1>12, <1>13, <1>16, <2>1 DEF WireTypes
  <1>18. ASSUME ended[e] = "no"
         PROVE  InStep(s, e, k2, buf[e], wire[e], j, sent[p], up)
    <2>1. InStep(s, e, k, buf[e], wire[e], j, sent[p], up)
      BY <1>2, <1>3, <1>5, <1>8, AtEnd, Zenon
    <2>2. CASE m + n = Len(a)
      <3>1. InStep(s, e, k + 1, buf[e], wire[e], j, sent[p], up)
        BY <1>4, <1>6, <2>1, ReaderSends
      <3> QED
        BY <1>14, <2>2, <3>1
    <2>3. CASE m + n # Len(a)
      BY <1>14, <2>1, <2>3
    <2> QED
      BY <2>2, <2>3
  <1>19. ASSUME ended[p] = "no"
         PROVE  InStep(s, p, j, b, wire'[p], k2, m2, up)
    <2>1. InStep(s, p, j, b, w, k, m, up)
      BY <1>2, <1>3, <1>5, <1>7, <1>8, <1>19, AtEnd, Zenon
    <2>2. CASE up
      <3>1. up = TRUE
        BY <1>1, <2>2 DEF WireTypes
      <3>2. InStep(s, p, j, b, w, k, m, TRUE)
        BY <2>1, <3>1, Zenon
      <3>3. m + n <= Len(s[k].bytes)
        BY <1>7, <1>10
      <3>4. LET w2 == w \o SubSeq(s[k].bytes, m + 1, m + n)
            IN  /\ InStep(s, p, j, b, w2, k, m + n, TRUE)
                /\ m + n = Len(s[k].bytes) => InStep(s, p, j, b, w2, k + 1, 0, TRUE)
        BY <1>4, <1>6, <1>10, <3>2, <3>3, WriterSends
      <3>5. PICK v : /\ v = wire'[p]
                     /\ InStep(s, p, j, b, v, k, m + n, TRUE)
                     /\ m + n = Len(s[k].bytes) => InStep(s, p, j, b, v, k + 1, 0, TRUE)
        BY <1>7, <1>13, <2>2, <3>4, Zenon
      <3>6. InStep(s, p, j, b, v, k2, m2, TRUE)
        BY <1>7, <1>14, <3>5
      <3> QED
        BY <3>1, <3>5, <3>6, Zenon
    <2>3. CASE ~up
      <3>1. up = FALSE
        BY <1>1, <2>3 DEF WireTypes
      <3>2. InStep(s, p, j, b, w, k2, m2, FALSE)
        BY <2>1, Lost
      <3> QED
        BY <1>13, <2>3, <3>1, <3>2, Zenon
    <2> QED
      BY <2>2, <2>3
  <1>20. StreamInv'
    <2>1. ASSUME NEW f \in Ends, ended'[f] = "no"
          PROVE  InStep(script', f, at'[f], buf'[f], wire'[f], at'[Peer(f)], sent'[Peer(f)], up')
      <3>1. CASE f = e
        BY <1>2, <1>3, <1>12, <1>13, <1>15, <1>18, <2>1, <3>1, Zenon
      <3>2. CASE f = p
        BY <1>2, <1>3, <1>8, <1>12, <1>15, <1>19, <2>1, <3>2, Zenon
      <3> QED
        BY <1>2, <3>1, <3>2
    <2> QED
      BY <2>1, Zenon DEF StreamInv
  <1>21. Collecting(s, e, k2, buf[e]) /\ Sending(s, e, k2, m2)
    <2>1. Collecting(s, e, k, buf[e])
      BY <1>3, <1>5, AtEnd, Zenon
    <2>2. buf[e] = <<>>
      BY <1>6, <2>1 DEF Collecting
    <2>3. CASE m + n = Len(a)
      <3>1. Collecting(s, e, k2, <<>>) /\ Sending(s, e, k2, 0)
        BY <1>4, <1>14, Fresh
      <3> QED
        BY <1>14, <2>2, <2>3, <3>1
    <2>4. CASE m + n # Len(a)
      <3>1. k2 = k /\ m2 = m + n /\ m + n < Len(a)
        BY <1>10, <1>14, <2>4
      <3> QED
        BY <1>6, <1>7, <2>1, <3>1 DEF Sending
    <2> QED
      BY <2>3, <2>4
  <1>22. CollectInv' /\ SentInv'
    <2>1. ASSUME NEW f \in Ends
          PROVE  Collecting(script', f, at'[f], buf'[f]) /\ Sending(script', f, at'[f], sent'[f])
      <3>1. CASE f = e
        BY <1>3, <1>12, <1>15, <1>21, <3>1, Zenon
      <3>2. CASE f = p
        BY <1>2, <1>3, <1>8, <1>12, <1>15, <3>2, AtEnd, Zenon
      <3> QED
        BY <1>2, <3>1, <3>2
    <2> QED
      BY <2>1, Zenon DEF CollectInv, SentInv
  <1>23. GotInv'
    <2>1. "receiver" \in Ends
      BY DEF Ends
    <2>2. CASE e = "receiver"
      <3>1. k = 2
        <4>1. s[k].by = IF k = 2 THEN "receiver" ELSE "sender"
          BY <1>1, <1>3, ByWhom
        <4> QED
          BY <1>5, <2>2, <4>1
      <3>2. at["receiver"] # 1 /\ at'["receiver"] # 1
        BY <1>5, <1>14, <1>15, <2>2, <3>1
      <3> QED
        BY <1>1, <1>12, <3>2 DEF GotInv
    <2>3. CASE e # "receiver"
      <3>1. at'["receiver"] = at["receiver"]
        BY <1>2, <1>8, <1>15, <2>1, <2>3
      <3> QED
        BY <1>1, <1>12, <3>1 DEF GotInv
    <2> QED
      BY <2>2, <2>3
  <1>24. EndInv'
    BY <1>1, <1>12 DEF EndInv
  <1> QED
    BY <1>1, <1>12, <1>16, <1>17, <1>20, <1>22, <1>23, <1>24 DEF WireInvOf

(* recv_exact collects some bytes, and may end a message with them. *)
LEMMA RecvKeeps ==
    ASSUME Requestable, NEW x \in Exchanges, WireInvOf(x), NEW e \in Ends, RecvSome(e)
    PROVE  WireInvOf(x)'
PROOF
  <1>1. /\ script = ScriptOf(x) /\ WireTypes /\ StreamInv /\ CollectInv /\ SentInv
        /\ GotInv /\ EndInv /\ ProgressInv(x)
    BY DEF WireInvOf
  <1>2. PICK p \in Ends : p = Peer(e) /\ Peer(p) = e /\ p # e /\ \A f \in Ends : f = e \/ f = p
    BY Peers
  <1>3. PICK s : s = script
    OBVIOUS
  <1>4. Flow(s) /\ Len(s) \in Nat
    BY <1>3, AtEnd, Zenon
  <1>5. PICK k \in 1 .. Len(s) : k = at[e] /\ s[k].by # e /\ ended[e] = "no"
    <2>1. at[e] \in 1 .. Len(s) + 1 /\ at[e] <= Len(s) /\ s[at[e]].by # e /\ ended[e] = "no"
      BY <1>3, AtEnd DEF RecvSome, MustRecv
    <2> QED
      BY <1>4, <2>1
  <1>6. ~Written(s, e, k) /\ Expected(s, e, k) /\ ~Expected(s, p, k)
    BY <1>2, <1>4, <1>5, Turns
  <1>7. PICK w \in Seq(Bytes), b \in Seq(Bytes), j \in 1 .. Len(s) + 1, m \in Nat :
           w = wire[e] /\ b = buf[e] /\ j = at[p] /\ m = sent[p]
    BY <1>3, AtEnd, Zenon
  <1>8. InStep(s, e, k, b, w, j, m, up) /\ Collecting(s, e, k, b) /\ Sending(s, e, k, sent[e])
    BY <1>2, <1>3, <1>5, <1>7, AtEnd, Zenon
  <1>9. Len(b) < Len(s[k].bytes) /\ sent[e] = 0
    BY <1>6, <1>8 DEF Collecting, Sending
  <1>10. PICK n, q, v, type, message :
            /\ n \in 1 .. Len(w) /\ q = b \o SubSeq(w, 1, n) /\ v = SubSeq(w, n + 1, Len(w)) /\ type = s[k].msg.type
            /\ message = Deserialized(e, s[k].msg, q)
            /\ Len(q) <= Wanted(type, b)
            /\ IF Len(q) < Wanted(type, q)
               THEN /\ buf' = [buf EXCEPT ![e] = q] /\ wire' = [wire EXCEPT ![e] = v]
                    /\ UNCHANGED <<at, got, progress, up, ended>>
               ELSE IF message = Absent
               THEN Close(e, "refused") /\ UNCHANGED <<at, got, progress>>
               ELSE /\ buf' = [buf EXCEPT ![e] = <<>>] /\ wire' = [wire EXCEPT ![e] = v]
                    /\ got' = [got EXCEPT ![e] = Append(@, message)]
                    /\ at' = [at EXCEPT ![e] = @ + 1]
                    /\ add_progress(e, message)
                    /\ UNCHANGED <<up, ended>>
    BY <1>3, <1>5, <1>7 DEF RecvSome, Current
  <1>11. script' = script /\ sent' = sent
    BY DEF RecvSome
  <1>12. /\ q \in Seq(Bytes) /\ v \in Seq(Bytes)
         /\ Len(q) < Wanted(type, q) => InStep(s, e, k, q, v, j, m, up) /\ Len(q) < Len(s[k].bytes)
         /\ ~(Len(q) < Wanted(type, q)) =>
               q = s[k].bytes /\ InStep(s, e, k + 1, <<>>, v, j, m, up)
    <2>1. n \in 1 .. Len(w) /\ Taken(b, w, n, q, v) /\ Len(q) <= Wanted(s[k].msg.type, b)
      BY <1>10, Zenon DEF Taken
    <2>2. /\ q \in Seq(Bytes) /\ v \in Seq(Bytes)
          /\ Len(q) < Wanted(s[k].msg.type, q) =>
                InStep(s, e, k, q, v, j, m, up) /\ Len(q) < Len(s[k].bytes)
          /\ ~(Len(q) < Wanted(s[k].msg.type, q)) =>
                q = s[k].bytes /\ InStep(s, e, k + 1, <<>>, v, j, m, up)
      BY <1>4, <1>6, <1>8, <1>9, <2>1, ReaderTurns
    <2> QED
      BY <1>10, <2>2, Zenon
  <1>13. ended[p] = "no" => InStep(s, p, j, buf[p], wire[p], k, 0, up)
    BY <1>2, <1>3, <1>5, <1>7, <1>9, AtEnd, Zenon
  <1>14. Collecting(s, p, j, buf[p]) /\ Sending(s, p, j, sent[p])
    BY <1>3, <1>7, AtEnd, Zenon
  <1>15. CASE Len(q) < Wanted(type, q)
    <2>1. /\ buf' = [buf EXCEPT ![e] = q] /\ wire' = [wire EXCEPT ![e] = v]
          /\ at' = at /\ got' = got /\ progress' = progress /\ up' = up /\ ended' = ended
      BY <1>10, <1>15, Zenon
    <2>2. buf'[e] = q /\ wire'[e] = v /\ buf'[p] = buf[p] /\ wire'[p] = wire[p]
      BY <1>1, <1>2, <2>1 DEF WireTypes
    <2>3. WireTypes'
      BY <1>1, <1>11, <1>12, <2>1 DEF WireTypes
    <2>4. StreamInv'
      <3>1. ASSUME NEW f \in Ends, ended'[f] = "no"
            PROVE  InStep(script', f, at'[f], buf'[f], wire'[f], at'[Peer(f)], sent'[Peer(f)], up')
        <4>1. CASE f = e
          BY <1>2, <1>3, <1>5, <1>7, <1>11, <1>12, <1>15, <2>1, <2>2, <4>1, Zenon
        <4>2. CASE f = p
          BY <1>2, <1>3, <1>5, <1>7, <1>9, <1>11, <1>13, <2>1, <2>2, <3>1, <4>2, Zenon
        <4> QED
          BY <1>2, <4>1, <4>2
      <3> QED
        BY <3>1, Zenon DEF StreamInv
    <2>5. Collecting(s, e, k, q)
      BY <1>6, <1>12, <1>15 DEF Collecting
    <2>6. CollectInv'
      <3>1. ASSUME NEW f \in Ends PROVE Collecting(script', f, at'[f], buf'[f])
        <4>1. CASE f = e
          BY <1>3, <1>5, <1>11, <2>1, <2>2, <2>5, <4>1, Zenon
        <4>2. CASE f = p
          BY <1>3, <1>7, <1>11, <1>14, <2>1, <2>2, <4>2, Zenon
        <4> QED
          BY <1>2, <4>1, <4>2
      <3> QED
        BY <3>1, Zenon DEF CollectInv
    <2>7. SentInv' /\ GotInv' /\ EndInv' /\ ProgressInv(x)'
      BY <1>1, <1>11, <2>1 DEF SentInv, GotInv, EndInv, ProgressInv
    <2> QED
      BY <1>1, <1>11, <2>3, <2>4, <2>6, <2>7 DEF WireInvOf
  <1>16. CASE ~(Len(q) < Wanted(type, q))
    <2>1. k > 2 => e = "receiver" /\ got[e][1] = script[1].msg
      <3>1. s[k].by = IF k = 2 THEN "receiver" ELSE "sender"
        BY <1>1, <1>3, ByWhom
      <3>2. k > 2 => e = "receiver"
        BY <1>5, <3>1 DEF Ends
      <3> QED
        BY <1>1, <1>5, <3>2 DEF GotInv
    <2>2. message = s[k].msg /\ message \in Message /\ message # Absent
      <3>1. k \in 1 .. Len(script)
        BY <1>3
      <3>2. Deserialized(e, script[k].msg, script[k].bytes) = script[k].msg
        BY <1>1, <2>1, <3>1, Understood
      <3>3. Sound(s[k])
        BY <1>4, Zenon DEF Flow
      <3>4. message = s[k].msg
        BY <1>3, <1>10, <1>12, <1>16, <3>2, Zenon
      <3> QED
        BY <3>3, <3>4, Zenon DEF Sound
    <2>3. /\ buf' = [buf EXCEPT ![e] = <<>>] /\ wire' = [wire EXCEPT ![e] = v]
          /\ got' = [got EXCEPT ![e] = Append(@, message)]
          /\ at' = [at EXCEPT ![e] = @ + 1] /\ add_progress(e, message)
          /\ up' = up /\ ended' = ended
      BY <1>10, <1>16, <2>2, Zenon
    <2>4. /\ buf'[e] = <<>> /\ wire'[e] = v /\ buf'[p] = buf[p] /\ wire'[p] = wire[p]
          /\ at'[e] = k + 1 /\ at'[p] = j
      BY <1>1, <1>2, <1>5, <1>7, <2>3 DEF WireTypes
    <2>5. /\ at' \in [Ends -> 1 .. Len(script) + 1]
          /\ progress' \in [Ends -> [bytes : Nat, chunks : Nat]]
          /\ ProgressInv(x)'
      <3>1. at[e] \in 1 .. Len(script) /\ add_progress(e, script[at[e]].msg)
        BY <1>3, <1>5, <2>2, <2>3
      <3> QED
        BY <1>1, <1>11, <2>3, <3>1, MovesOn
    <2>6. got' \in [Ends -> Seq(Message)]
      <3>1. got \in [Ends -> Seq(Message)] /\ got[e] \in Seq(Message)
        BY <1>1 DEF WireTypes
      <3>2. Append(got[e], message) \in Seq(Message)
        BY <2>2, <3>1
      <3> QED
        BY <2>3, <3>1, <3>2
    <2>7. WireTypes'
      <3>1. <<>> \in Seq(Bytes)
        OBVIOUS
      <3>2. buf' \in [Ends -> Seq(Bytes)] /\ wire' \in [Ends -> Seq(Bytes)]
        BY <1>1, <1>12, <2>3, <3>1 DEF WireTypes
      <3> QED
        BY <1>1, <1>11, <2>3, <2>5, <2>6, <3>2 DEF WireTypes
    <2>8. StreamInv'
      <3>1. InStep(s, e, k + 1, <<>>, v, j, m, up)
        BY <1>12, <1>16
      <3>2. ended[p] = "no" => InStep(s, p, j, buf[p], wire[p], k + 1, 0, up)
        BY <1>4, <1>6, <1>13, WriterReads
      <3>3. ASSUME NEW f \in Ends, ended'[f] = "no"
            PROVE  InStep(script', f, at'[f], buf'[f], wire'[f], at'[Peer(f)], sent'[Peer(f)], up')
        <4>1. CASE f = e
          BY <1>2, <1>3, <1>7, <1>11, <2>3, <2>4, <3>1, <4>1, Zenon
        <4>2. CASE f = p
          BY <1>2, <1>3, <1>9, <1>11, <2>3, <2>4, <3>2, <3>3, <4>2, Zenon
        <4> QED
          BY <1>2, <4>1, <4>2
      <3> QED
        BY <3>3, Zenon DEF StreamInv
    <2>9. Collecting(s, e, k + 1, <<>>) /\ Sending(s, e, k + 1, 0)
      <3>1. k + 1 \in 1 .. Len(s) + 1
        BY <1>4
      <3> QED
        BY <1>4, <3>1, Fresh
    <2>10. CollectInv' /\ SentInv'
      <3>1. ASSUME NEW f \in Ends
            PROVE  Collecting(script', f, at'[f], buf'[f]) /\ Sending(script', f, at'[f], sent'[f])
        <4>1. CASE f = e
          BY <1>3, <1>9, <1>11, <2>4, <2>9, <4>1, Zenon
        <4>2. CASE f = p
          BY <1>3, <1>11, <1>14, <2>4, <4>2, Zenon
        <4> QED
          BY <1>2, <4>1, <4>2
      <3> QED
        BY <3>1, Zenon DEF CollectInv, SentInv
    <2>11. GotInv'
      <3>1. "receiver" \in Ends
        BY DEF Ends
      <3>2. CASE e = "receiver"
        <4>1. PICK g \in Seq(Message) : g = got[e] /\ got'[e] = Append(g, message)
          BY <1>1, <2>3 DEF WireTypes
        <4>2. Len(Append(g, message)) > 0
          BY <2>2
        <4>3. Append(g, message)[1] = script[1].msg
          <5>1. CASE k = 1
            <6>1. g = <<>> /\ message = script[1].msg
              BY <1>1, <1>3, <1>5, <2>2, <3>2, <4>1, <5>1 DEF GotInv
            <6> QED
              BY <6>1
          <5>2. CASE k # 1
            <6>1. Len(g) > 0 /\ g[1] = script[1].msg
              BY <1>1, <1>5, <3>2, <4>1, <5>2 DEF GotInv
            <6>2. Append(g, message)[1] = g[1]
              BY <2>2, <6>1
            <6> QED
              BY <6>1, <6>2
          <5> QED
            BY <5>1, <5>2
        <4>4. k + 1 # 1
          OBVIOUS
        <4> QED
          BY <1>11, <2>4, <3>2, <4>1, <4>2, <4>3, <4>4 DEF GotInv
      <3>3. CASE e # "receiver"
        <4>1. p = "receiver"
          BY <1>2, <3>1, <3>3
        <4>2. at'["receiver"] = at["receiver"] /\ got'["receiver"] = got["receiver"]
          BY <1>1, <1>2, <1>7, <2>3, <2>4, <4>1 DEF WireTypes
        <4> QED
          BY <1>1, <1>11, <4>2 DEF GotInv
      <3> QED
        BY <3>2, <3>3
    <2>12. EndInv'
      BY <1>1, <2>3 DEF EndInv
    <2> QED
      BY <1>1, <1>11, <2>5, <2>7, <2>8, <2>10, <2>11, <2>12 DEF WireInvOf
  <1> QED
    BY <1>15, <1>16

(* The run of one end is over and its socket is closed. *)
LEMMA CloseKeeps ==
    ASSUME Requestable, NEW x \in Exchanges, WireInvOf(x), NEW e \in Ends,
           NEW how \in {"failed", "done"}, Close(e, how),
           UNCHANGED <<script, at, sent, got, progress>>
    PROVE  WireInvOf(x)'
PROOF
  <1>1. /\ script = ScriptOf(x) /\ WireTypes /\ StreamInv /\ CollectInv /\ SentInv
        /\ GotInv /\ EndInv /\ ProgressInv(x)
    BY DEF WireInvOf
  <1>2. /\ ended' = [ended EXCEPT ![e] = how] /\ up' = FALSE
        /\ wire' = [wire EXCEPT ![e] = <<>>] /\ buf' = [buf EXCEPT ![e] = <<>>]
        /\ script' = script /\ at' = at /\ sent' = sent /\ got' = got /\ progress' = progress
    BY DEF Close
  <1>3. WireTypes'
    <2>1. <<>> \in Seq(Bytes)
      OBVIOUS
    <2>2. buf' \in [Ends -> Seq(Bytes)] /\ wire' \in [Ends -> Seq(Bytes)]
      BY <1>1, <1>2, <2>1 DEF WireTypes
    <2>3. ended' \in [Ends -> {"no", "refused", "failed", "done"}] /\ up' \in BOOLEAN
      BY <1>1, <1>2 DEF WireTypes
    <2> QED
      BY <1>1, <1>2, <2>2, <2>3 DEF WireTypes
  <1>4. ASSUME NEW f \in Ends, f # e
        PROVE  ended'[f] = ended[f] /\ buf'[f] = buf[f] /\ wire'[f] = wire[f]
    BY <1>1, <1>2, <1>4 DEF WireTypes
  <1>5. ended'[e] = how /\ buf'[e] = <<>>
    BY <1>1, <1>2 DEF WireTypes
  <1>6. StreamInv'
    <2>1. ASSUME NEW f \in Ends, ended'[f] = "no"
          PROVE  InStep(script', f, at'[f], buf'[f], wire'[f], at'[Peer(f)], sent'[Peer(f)], up')
      <3>1. f # e
        BY <1>5, <2>1
      <3>2. InStep(script, f, at[f], buf[f], wire[f], at[Peer(f)], sent[Peer(f)], up)
        BY <1>1, <1>4, <2>1, <3>1, Zenon DEF StreamInv
      <3>3. InStep(script, f, at[f], buf[f], wire[f], at[Peer(f)], sent[Peer(f)], FALSE)
        BY <3>2, Zenon DEF InStep
      <3> QED
        BY <1>2, <1>4, <3>1, <3>3, Zenon
    <2> QED
      BY <2>1, Zenon DEF StreamInv
  <1>7. CollectInv'
    <2>1. ASSUME NEW f \in Ends PROVE Collecting(script', f, at'[f], buf'[f])
      <3>1. Flow(script) /\ at[f] \in 1 .. Len(script) + 1 /\ Collecting(script, f, at[f], buf[f])
        BY AtEnd, Zenon
      <3>2. Collecting(script, f, at[f], <<>>)
        BY <3>1, Fresh
      <3>3. CASE f = e
        BY <1>2, <1>5, <3>2, <3>3, Zenon
      <3>4. CASE f # e
        BY <1>2, <1>4, <3>1, <3>4, Zenon
      <3> QED
        BY <3>3, <3>4
    <2> QED
      BY <2>1, Zenon DEF CollectInv
  <1>8. SentInv' /\ GotInv' /\ ProgressInv(x)'
    BY <1>1, <1>2 DEF SentInv, GotInv, ProgressInv
  <1>9. EndInv'
    BY <1>1, <1>2, <1>4, <1>5 DEF EndInv
  <1> QED
    BY <1>1, <1>2, <1>3, <1>6, <1>7, <1>8, <1>9 DEF WireInvOf

(* The connection breaks. *)
LEMMA BreakKeeps ==
    ASSUME Requestable, NEW x \in Exchanges, WireInvOf(x), Break
    PROVE  WireInvOf(x)'
PROOF
  <1>1. /\ script = ScriptOf(x) /\ WireTypes /\ StreamInv /\ CollectInv /\ SentInv
        /\ GotInv /\ EndInv /\ ProgressInv(x)
    BY DEF WireInvOf
  <1>2. /\ up' = FALSE
        /\ script' = script /\ at' = at /\ sent' = sent /\ buf' = buf /\ got' = got
        /\ progress' = progress /\ ended' = ended
    BY DEF Break
  <1>3. /\ DOMAIN wire' = Ends /\ wire' = [f \in Ends |-> wire'[f]]
        /\ \A f \in Ends : wire'[f] \in Prefixes(wire[f])
    <2>1. wire' \in {w \in [Ends -> UNION {Prefixes(wire[e]) : e \in Ends}] :
                        \A e \in Ends : w[e] \in Prefixes(wire[e])}
      BY Zenon DEF Break
    <2> QED
      BY <2>1
  <1>4. ASSUME NEW f \in Ends PROVE wire'[f] \in Seq(Bytes)
    <2>a. PICK v : v = wire'[f]
      OBVIOUS
    <2>1. PICK w \in Seq(Bytes) : w = wire[f] /\ v = wire'[f] /\ v \in Prefixes(w)
      BY <1>1, <1>3, <2>a, AtEnd, Zenon
    <2>2. PICK n \in 0 .. Len(w) : v = SubSeq(w, 1, n)
      BY <2>1 DEF Prefixes
    <2>3. SubSeq(w, 1, n) \in Seq(Bytes)
      BY Beginning
    <2> QED
      BY <2>1, <2>2, <2>3
  <1>5. ASSUME NEW f \in Ends, ended[f] = "no"
        PROVE  InStep(script, f, at[f], buf[f], wire'[f], at[Peer(f)], sent[Peer(f)], FALSE)
    <2>a. PICK v : v = wire'[f]
      OBVIOUS
    <2>1. PICK b \in Seq(Bytes), w \in Seq(Bytes) :
             b = buf[f] /\ w = wire[f] /\ v = wire'[f] /\ v \in Prefixes(w)
      BY <1>3, <2>a, AtEnd, Zenon
    <2>2. PICK s, k, j, m, alive : /\ s = script /\ k = at[f] /\ j = at[Peer(f)]
                                   /\ m = sent[Peer(f)] /\ alive = up
      OBVIOUS
    <2>3. InStep(s, f, k, b, w, j, m, alive)
      BY <1>5, <2>1, <2>2, AtEnd, Zenon
    <2>4. v \in Prefixes(w)
      BY <2>1, Zenon
    <2>5. InStep(s, f, k, b, v, j, m, FALSE)
      BY <2>3, <2>4, CutShort
    <2> QED
      BY <2>1, <2>2, <2>5, Zenon
  <1>6. WireTypes'
    BY <1>1, <1>2, <1>3, <1>4 DEF WireTypes
  <1>7. StreamInv'
    BY <1>2, <1>5, Zenon DEF StreamInv
  <1>8. CollectInv' /\ SentInv' /\ GotInv' /\ EndInv' /\ ProgressInv(x)'
    BY <1>1, <1>2 DEF CollectInv, SentInv, GotInv, EndInv, ProgressInv
  <1> QED
    BY <1>1, <1>2, <1>6, <1>7, <1>8 DEF WireInvOf

(* Every step keeps the invariant. *)
LEMMA WireSteps ==
    ASSUME Requestable, WireInv, [Next]_wireVars
    PROVE  WireInv'
PROOF
  <1>1. PICK x \in Exchanges : WireInvOf(x)
    BY DEF WireInv
  <1> SUFFICES WireInvOf(x)'
    BY DEF WireInv
  <1>2. ASSUME NEW e \in Ends, EndStep(e) PROVE WireInvOf(x)'
    <2>1. CASE SendSome(e)
      BY <1>1, <2>1, SendKeeps
    <2>2. CASE RecvSome(e)
      BY <1>1, <2>2, RecvKeeps
    <2>3. CASE Fail(e)
      <3>1. Close(e, "failed") /\ UNCHANGED <<script, at, sent, got, progress>>
        BY <2>3 DEF Fail
      <3> QED
        BY <1>1, <3>1, CloseKeeps
    <2>4. CASE Finish(e)
      <3>1. Close(e, "done") /\ UNCHANGED <<script, at, sent, got, progress>>
        BY <2>4 DEF Finish
      <3> QED
        BY <1>1, <3>1, CloseKeeps
    <2> QED
      BY <1>2, <2>1, <2>2, <2>3, <2>4 DEF EndStep
  <1>3. CASE Break
    BY <1>1, <1>3, BreakKeeps
  <1>4. CASE UNCHANGED wireVars
    <2>1. /\ script' = script /\ at' = at /\ sent' = sent /\ buf' = buf /\ wire' = wire /\ up' = up
          /\ got' = got /\ progress' = progress /\ ended' = ended
      BY <1>4 DEF wireVars
    <2>2. /\ script = ScriptOf(x) /\ WireTypes /\ StreamInv /\ CollectInv /\ SentInv
          /\ GotInv /\ EndInv /\ ProgressInv(x)
      BY <1>1 DEF WireInvOf
    <2>3. WireTypes'
      BY <2>1, <2>2 DEF WireTypes
    <2>4. StreamInv' /\ CollectInv' /\ SentInv'
      BY <2>1, <2>2 DEF StreamInv, CollectInv, SentInv
    <2>5. GotInv' /\ EndInv' /\ ProgressInv(x)'
      BY <2>1, <2>2 DEF GotInv, EndInv, ProgressInv
    <2> QED
      BY <2>1, <2>2, <2>3, <2>4, <2>5 DEF WireInvOf
  <1> QED
    BY <1>2, <1>3, <1>4 DEF Next

LEMMA WireInvariant == ASSUME Requestable PROVE Spec => []WireInv
  BY WireInitially, WireSteps, PTL DEF Spec

-----------------------------------------------------------------------------
(* What the invariant says *)

(* Before the last missing chunk there are bytes left, after it none. *)
LEMMA ExactAt ==
    ASSUME Requestable, NEW x \in Exchanges, NEW k \in 1 .. Len(ScriptOf(x)) + 1,
           NEW p, ProgressAt(x, k, p)
    PROVE  /\ p.chunks <= LeftOf(x)
           /\ p.chunks = LeftOf(x) <=> p.bytes = bytes_for_chunks(ManifestOf(x), MissingOf(x))
PROOF
  <1> DEFINE B == TotalOf(x)
  <1>1. PICK c \in Nat : c = LeftOf(x)
    BY FileFacts
  <1>2. ASSUME NEW j \in 1 .. c PROVE B[j - 1] < B[j] /\ B[j] \in Nat /\ B[j - 1] \in Nat
    <2>1. j - 1 \in 0 .. c /\ j \in 0 .. c
      OBVIOUS
    <2>2. PICK d : d = payload_size_for_chunk(ManifestOf(x), MissingOf(x)[j])
      OBVIOUS
    <2>3. B[j] = B[j - 1] + d /\ d \in Nat \ {0} /\ B[j - 1] \in Nat /\ B[j] \in Nat
      BY <1>1, <2>1, <2>2, Totals
    <2> HIDE DEF B
    <2> QED
      BY <2>3
  <1>3. bytes_for_chunks(ManifestOf(x), MissingOf(x)) = B[c]
    BY <1>1 DEF bytes_for_chunks, TotalOf, LeftOf, MissingOf, ManifestOf
  <1>4. \A j \in 0 .. c : B[j] \in Nat
    BY <1>1, Totals
  <1>5. PICK d \in 0 .. c : d = Passed(ScriptOf(x), k)
    <2>1. PICK l \in Nat : l = Len(ScriptOf(x)) /\ l = c + 3
      BY <1>1, ScriptShape
    <2>2. (IF k < 3 THEN 0 ELSE IF k < l THEN k - 3 ELSE l - 3) \in 0 .. c
      BY <2>1
    <2> QED
      BY <2>1, <2>2 DEF Passed
  <1>6. p = [bytes |-> B[d], chunks |-> d]
    BY <1>5 DEF ProgressAt
  <1> HIDE DEF B
  <1> DEFINE T == {m \in 0 .. c : \A j \in 0 .. m : j = m \/ B[j] < B[m]}
  <1>7. 0 \in T
    OBVIOUS
  <1>8. ASSUME NEW m \in 1 .. c, m - 1 \in T PROVE m \in T
    <2>1. ASSUME NEW j \in 0 .. m, j # m PROVE B[j] < B[m]
      <3>1. j \in 0 .. m - 1 /\ j \in 0 .. c
        BY <2>1
      <3>2. j = m - 1 \/ B[j] < B[m - 1]
        BY <1>8, <3>1
      <3>3. B[m - 1] < B[m] /\ B[m] \in Nat /\ B[m - 1] \in Nat /\ B[j] \in Nat
        BY <1>2, <1>4, <3>1
      <3> QED
        BY <3>2, <3>3
    <2> QED
      BY <2>1
  <1> HIDE DEF T
  <1>9. c \in T
    <2>1. \A m \in 0 .. c : m \in T
      BY <1>7, <1>8, UpTo
    <2> QED
      BY <2>1
  <1>10. d = c <=> B[d] = B[c]
    <2>1. d = c \/ B[d] < B[c]
      BY <1>9 DEF T
    <2>2. B[d] \in Nat /\ B[c] \in Nat
      BY <1>4
    <2> QED
      BY <2>1, <2>2
  <1> QED
    BY <1>1, <1>3, <1>6, <1>10

LEMMA ExactProgress == ASSUME Requestable, WireInv PROVE ProgressExact
PROOF
  <1>1. PICK x \in Exchanges : WireInvOf(x)
    BY DEF WireInv
  <1>2. script = ScriptOf(x) /\ ProgressInv(x)
    BY <1>1 DEF WireInvOf
  <1>3. TheManifest = ManifestOf(x)
    <2>1. script[1] = By("sender", ManifestMsg(ManifestOf(x)))
      BY <1>2, ScriptShape
    <2> QED
      BY <2>1 DEF TheManifest, By, ManifestMsg
  <1>4. TheMissing = MissingOf(x)
    <2>1. script[2] = By("receiver", RequestMsg(ManifestOf(x), MissingOf(x)))
      BY <1>2, ScriptShape
    <2> QED
      BY <2>1 DEF TheMissing, By, RequestMsg
  <1>5. Len(MissingOf(x)) = LeftOf(x)
    BY DEF LeftOf
  <1>6. ASSUME NEW e \in Ends
        PROVE  /\ progress[e].chunks <= LeftOf(x)
               /\ progress[e].chunks = LeftOf(x) <=>
                     progress[e].bytes = bytes_for_chunks(ManifestOf(x), MissingOf(x))
    <2>a. PICK p : p = progress[e]
      OBVIOUS
    <2>1. PICK k \in 1 .. Len(ScriptOf(x)) + 1 :
             k = at[e] /\ p = progress[e] /\ ProgressAt(x, k, p)
      <3>1. at[e] \in 1 .. Len(ScriptOf(x)) + 1
        BY <1>1, <1>2, AtEnd, Zenon
      <3>2. ProgressAt(x, at[e], progress[e])
        BY <1>2, Zenon DEF ProgressInv
      <3> QED
        BY <2>a, <3>1, <3>2, Zenon
    <2>2. ProgressAt(x, k, p)
      BY <2>1, Zenon
    <2>3. /\ p.chunks <= LeftOf(x)
          /\ p.chunks = LeftOf(x) <=> p.bytes = bytes_for_chunks(ManifestOf(x), MissingOf(x))
      BY <2>2, ExactAt
    <2> QED
      BY <2>1, <2>3, Zenon
  <1> QED
    BY <1>3, <1>4, <1>5, <1>6 DEF ProgressExact

-----------------------------------------------------------------------------
(* The bytes implement the queues of messages *)

(* Every message has some bytes. *)
Mails(inbox) ==
    Len(inbox) \in Nat /\ \A k \in 1 .. Len(inbox) : Len(inbox[k].bytes) \in Nat \ {0}

(* The messages end one after the other. *)
Ascends(inbox) ==
    /\ \A i \in 0 .. Len(inbox) : Bounds(inbox)[i] \in Nat
    /\ \A i \in 1 .. Len(inbox) :
          Bounds(inbox)[i] = Bounds(inbox)[i - 1] + Len(inbox[i].bytes)
    /\ \A i \in 0 .. Len(inbox) : \A j \in 0 .. Len(inbox) :
          i < j => Bounds(inbox)[i] < Bounds(inbox)[j]

LEMMA BoundsAscend ==
    ASSUME NEW inbox, Mails(inbox)
    PROVE  Ascends(inbox)
PROOF
  <1> DEFINE n == Len(inbox)
             v(k) == Len(inbox[k].bytes)
             Eq(f) == f = [k \in 0 .. n |-> IF k = 0 THEN 0 ELSE f[k - 1] + v(k)]
             end == CHOOSE f : Eq(f)
             step == [k \in 1 .. n |-> [x \in Nat |-> x + v(k)]]
  <1>1. n \in Nat /\ \A k \in 1 .. n : v(k) \in Nat \ {0}
    BY DEF Mails
  <1>2. Bounds(inbox) = end
    BY DEF Bounds
  <1> HIDE DEF n, v
  <1>3. step \in Steps(n, Nat)
    <2>1. ASSUME NEW k \in 1 .. n, NEW x \in Nat PROVE x + v(k) \in Nat
      BY <1>1
    <2> QED
      BY <2>1, Zenon DEF Steps
  <1>4. PICK g \in Values(n, Nat) : Unrolls(g, n, 0, step)
    <2> HIDE DEF step
    <2>1. 0 \in Nat
      OBVIOUS
    <2> QED
      BY <1>1, <1>3, <2>1, Recursive, Zenon
  <1>5. g \in [0 .. n -> Nat] /\ g[0] = 0 /\ \A k \in 1 .. n : g[k] = step[k][g[k - 1]]
    BY <1>4, Zenon DEF Values, Unrolls
  <1>6. ASSUME NEW k \in 1 .. n PROVE g[k] = g[k - 1] + v(k)
    <2>1. g[k - 1] \in Nat
      BY <1>1, <1>5
    <2> QED
      BY <1>5, <2>1
  <1>7. Eq(g)
    <2>1. ASSUME NEW k \in 0 .. n PROVE g[k] = IF k = 0 THEN 0 ELSE g[k - 1] + v(k)
      <3>1. CASE k = 0
        BY <1>5, <3>1
      <3>2. CASE k # 0
        <4>1. k \in 1 .. n
          BY <1>1, <3>2
        <4> QED
          BY <1>6, <3>2, <4>1
      <3> QED
        BY <3>1, <3>2
    <2> QED
      BY <1>5, <2>1
  <1>8. Eq(end)
    <2> HIDE DEF Eq
    <2> QED
      BY <1>7
  <1> HIDE DEF end
  <1>9. end[0] = 0 /\ \A k \in 1 .. n : end[k] = end[k - 1] + v(k)
    BY <1>1, <1>8
  <1>10. \A k \in 0 .. n : end[k] \in Nat
    <2>1. ASSUME NEW k \in 1 .. n, end[k - 1] \in Nat PROVE end[k] \in Nat
      BY <1>1, <1>9, <2>1
    <2>2. end[0] \in Nat
      BY <1>9
    <2> QED
      BY <1>1, <2>1, <2>2, Hereditary
  <1>11. ASSUME NEW j \in 0 .. n PROVE \A i \in 0 .. n : i < j => end[i] < end[j]
    <2> DEFINE T == {m \in 0 .. n : \A i \in 0 .. n : i < m => end[i] < end[m]}
    <2>1. 0 \in T
      BY <1>1
    <2>2. ASSUME NEW m \in 1 .. n, m - 1 \in T PROVE m \in T
      <3>1. end[m - 1] < end[m] /\ end[m - 1] \in Nat /\ end[m] \in Nat
        BY <1>1, <1>9, <1>10
      <3>2. ASSUME NEW i \in 0 .. n, i < m PROVE end[i] < end[m]
        <4>1. i = m - 1 \/ (i < m - 1 /\ end[i] < end[m - 1])
          BY <1>1, <2>2, <3>2
        <4>2. end[i] \in Nat
          BY <1>10
        <4> QED
          BY <3>1, <4>1, <4>2
      <3> QED
        BY <1>1, <3>2
    <2> HIDE DEF T
    <2>3. \A m \in 0 .. n : m \in T
      BY <1>1, <2>1, <2>2, UpTo
    <2> QED
      BY <2>3 DEF T
  <1> QED
    BY <1>2, <1>9, <1>10, <1>11, Zenon DEF Ascends, n, v

(* Of an inbox, the messages up to h are whole among the first ones and the n *)
(* bytes that follow them.                                                    *)
LastWhole(inbox, first, n, h) ==
    /\ Mails(inbox) /\ first \in 0 .. Len(inbox) /\ n \in Nat /\ h \in first .. Len(inbox)
    /\ Bounds(inbox)[h] <= Bounds(inbox)[first] + n
    /\ h < Len(inbox) => Bounds(inbox)[first] + n < Bounds(inbox)[h + 1]

Slice(inbox, first, h) == [k \in 1 .. h - first |-> inbox[first + k].msg]

LEMMA SomeFit ==
    ASSUME NEW inbox, Mails(inbox), NEW first \in 0 .. Len(inbox), NEW n \in Nat
    PROVE  \E h : LastWhole(inbox, first, n, h)
PROOF
  <1>1. PICK M, E : M \in Nat /\ M = Len(inbox) /\ E = Bounds(inbox)
    BY DEF Mails
  <1>2. \A i \in 0 .. M : E[i] \in Nat
    BY <1>1, BoundsAscend DEF Ascends
  <1> DEFINE T == {j \in first .. M : j = M \/ E[first] + n < E[j + 1]}
  <1>3. T \in SUBSET Nat /\ M \in T
    BY <1>1
  <1>4. PICK h \in T : \A j \in T : h <= j
    <2>1. T # {}
      BY <1>3
    <2> HIDE DEF T
    <2> QED
      BY <1>3, <2>1, Smallest, Zenon
  <1>5. h \in first .. M /\ (h < M => E[first] + n < E[h + 1])
    BY <1>1, <1>4
  <1>6. E[h] <= E[first] + n
    <2>1. E[first] \in Nat /\ E[h] \in Nat
      BY <1>1, <1>2, <1>5
    <2>2. CASE h = first
      BY <2>1, <2>2
    <2>3. CASE h # first
      <3>1. h - 1 \in first .. M /\ h - 1 < h /\ h - 1 # M /\ (h - 1) + 1 = h
        BY <1>1, <1>5, <2>3
      <3>2. h - 1 \notin T
        BY <1>4, <3>1
      <3>3. ~(E[first] + n < E[h])
        BY <3>1, <3>2
      <3> QED
        BY <2>1, <3>3
    <2> QED
      BY <2>2, <2>3
  <1> QED
    BY <1>1, <1>5, <1>6 DEF LastWhole

(* What waits in an inbox is what is whole. *)
LEMMA WaitsWhole ==
    ASSUME NEW inbox, NEW first, NEW n, NEW h, LastWhole(inbox, first, n, h)
    PROVE  Waiting(inbox, first, n) = Slice(inbox, first, h)
PROOF
  <1>1. PICK M, E : M \in Nat /\ M = Len(inbox) /\ E = Bounds(inbox)
    BY DEF LastWhole, Mails
  <1>2. /\ \A i \in 0 .. M : E[i] \in Nat
        /\ \A i \in 0 .. M : \A j \in 0 .. M : i < j => E[i] < E[j]
    BY <1>1, BoundsAscend DEF LastWhole, Ascends
  <1>3. /\ first \in 0 .. M /\ n \in Nat /\ h \in first .. M
        /\ E[h] <= E[first] + n /\ (h < M => E[first] + n < E[h + 1])
    BY <1>1 DEF LastWhole
  <1> DEFINE whole == {k \in 0 .. M : E[k] <= E[first] + n}
             last == CHOOSE k \in whole : \A j \in whole : j <= k
  <1>4. h \in whole
    BY <1>1, <1>3
  <1>5. ASSUME NEW j \in whole PROVE j <= h
    <2>1. j \in 0 .. M /\ E[j] <= E[first] + n
      OBVIOUS
    <2> SUFFICES ASSUME h < j PROVE FALSE
      BY <1>1, <1>3, <2>1
    <2>2. h < M /\ h + 1 \in 0 .. M /\ (h + 1 = j \/ h + 1 < j)
      BY <1>1, <1>3, <2>1
    <2>3. E[h + 1] \in Nat /\ E[j] \in Nat /\ E[first] \in Nat
      BY <1>1, <1>2, <1>3, <2>1, <2>2
    <2>4. E[h + 1] <= E[j]
      BY <1>2, <2>1, <2>2, <2>3
    <2>5. E[first] + n < E[h + 1]
      BY <1>3, <2>2
    <2> QED
      BY <1>3, <2>1, <2>3, <2>4, <2>5
  <1>6. whole \in SUBSET Int
    OBVIOUS
  <1>7. last = h
    <2> HIDE DEF whole
    <2>1. last \in whole /\ \A j \in whole : j <= last
      BY <1>4, <1>5
    <2>2. last <= h /\ h <= last /\ last \in Int /\ h \in Int
      BY <1>4, <1>5, <1>6, <2>1
    <2> HIDE DEF last
    <2> QED
      BY <2>2
  <1>8. Waiting(inbox, first, n) = [k \in 1 .. last - first |-> inbox[first + k].msg]
    BY <1>1 DEF Waiting
  <1> QED
    BY <1>7, <1>8 DEF Slice

(* The messages of an inbox. *)
Mail(inbox) == {inbox[k].msg : k \in 1 .. Len(inbox)}

LEMMA SliceIs ==
    ASSUME NEW inbox, Len(inbox) \in Nat, NEW first \in 0 .. Len(inbox),
           NEW h \in first .. Len(inbox)
    PROVE  /\ Slice(inbox, first, h) \in Seq(Mail(inbox))
           /\ Len(Slice(inbox, first, h)) = h - first
           /\ \A k \in 1 .. h - first : Slice(inbox, first, h)[k] = inbox[first + k].msg
PROOF
  <1> DEFINE f == [k \in 1 .. h - first |-> inbox[first + k].msg]
  <1>1. h - first \in Nat
    OBVIOUS
  <1>2. ASSUME NEW k \in 1 .. h - first PROVE inbox[first + k].msg \in Mail(inbox)
    <2>1. first + k \in 1 .. Len(inbox)
      OBVIOUS
    <2> QED
      BY <2>1 DEF Mail
  <1>3. f \in [1 .. h - first -> Mail(inbox)]
    BY <1>2, Zenon
  <1>4. f \in Seq(Mail(inbox)) /\ Len(f) = h - first
    <2>1. PICK n \in Nat : n = h - first
      BY <1>1
    <2>2. f \in [1 .. n -> Mail(inbox)]
      BY <1>3, <2>1, Zenon
    <2> HIDE DEF f
    <2>3. f \in Seq(Mail(inbox)) /\ Len(f) = n
      BY <2>2
    <2> QED
      BY <2>1, <2>3
  <1> QED
    BY <1>4 DEF Slice

(* Nothing waits when there are no bytes. *)
LEMMA NothingFits ==
    ASSUME NEW inbox, Mails(inbox), NEW first \in 0 .. Len(inbox)
    PROVE  Waiting(inbox, first, 0) = <<>>
PROOF
  <1>1. PICK M, E : M \in Nat /\ M = Len(inbox) /\ E = Bounds(inbox)
    BY DEF Mails
  <1>2. /\ \A i \in 0 .. M : E[i] \in Nat
        /\ \A i \in 0 .. M : \A j \in 0 .. M : i < j => E[i] < E[j]
    BY <1>1, BoundsAscend DEF Ascends
  <1>3. first \in first .. M /\ E[first] <= E[first] + 0 /\ 0 \in Nat
    BY <1>1, <1>2
  <1>4. ASSUME first < M PROVE E[first] + 0 < E[first + 1]
    <2>1. first + 1 \in 0 .. M /\ first < first + 1 /\ first \in 0 .. M
      BY <1>1, <1>4
    <2>2. E[first] < E[first + 1] /\ E[first] \in Nat
      BY <1>2, <2>1
    <2> QED
      BY <2>2
  <1>5. LastWhole(inbox, first, 0, first)
    BY <1>1, <1>3, <1>4 DEF LastWhole
  <1>6. Slice(inbox, first, first) = <<>>
    <2>1. /\ Slice(inbox, first, first) \in Seq(Mail(inbox))
          /\ Len(Slice(inbox, first, first)) = first - first
      <3>1. Len(inbox) \in Nat /\ first \in first .. Len(inbox)
        BY <1>1, <1>3
      <3> QED
        BY <3>1, SliceIs, Zenon
    <2>2. first - first = 0
      BY <1>1
    <2> QED
      BY <2>1, <2>2, EmptySeq
  <1> QED
    BY <1>5, <1>6, WaitsWhole

(* The first message is read: its bytes are gone, and the others wait. *)
LEMMA FirstIsRead ==
    ASSUME NEW inbox, NEW first, NEW n, NEW h, LastWhole(inbox, first, n, h), first < Len(inbox),
           NEW l, l = Len(inbox[first + 1].bytes), l <= n
    PROVE  /\ LastWhole(inbox, first + 1, n - l, h)
           /\ Slice(inbox, first, h) # <<>>
           /\ Head(Slice(inbox, first, h)) = inbox[first + 1].msg
           /\ Slice(inbox, first + 1, h) = Tail(Slice(inbox, first, h))
PROOF
  <1>1. PICK M, E : M \in Nat /\ M = Len(inbox) /\ E = Bounds(inbox)
    BY DEF LastWhole, Mails
  <1>2. /\ \A i \in 0 .. M : E[i] \in Nat
        /\ \A i \in 1 .. M : E[i] = E[i - 1] + Len(inbox[i].bytes)
    BY <1>1, BoundsAscend DEF LastWhole, Ascends
  <1>3. /\ first \in 0 .. M /\ n \in Nat /\ h \in first .. M /\ first < M
        /\ E[h] <= E[first] + n /\ (h < M => E[first] + n < E[h + 1])
    BY <1>1 DEF LastWhole
  <1>4. PICK k \in 1 .. M : k = first + 1 /\ k - 1 = first
    BY <1>1, <1>3
  <1>5. l \in Nat /\ E[k] = E[first] + l /\ E[k] \in Nat /\ E[first] \in Nat
    <2>1. l \in Nat
      BY <1>1, <1>4 DEF LastWhole, Mails
    <2>2. E[k] = E[first] + l
      BY <1>2, <1>4
    <2> QED
      BY <1>2, <1>3, <1>4, <2>1, <2>2
  <1>6. h # first
    <2> SUFFICES ASSUME h = first PROVE FALSE
      OBVIOUS
    <2>1. E[first] + n < E[k]
      BY <1>3, <1>4
    <2>2. PICK a \in Nat : a = E[first] /\ a + n < a + l
      BY <1>5, <2>1, Zenon
    <2>3. n \in Nat /\ l \in Nat /\ l <= n
      BY <1>3, <1>5
    <2> QED
      BY <2>2, <2>3
  <1>7. h \in k .. M /\ k \in 0 .. M
    BY <1>1, <1>3, <1>4, <1>6
  <1>8. n - l \in Nat /\ E[k] + (n - l) = E[first] + n
    <2>1. PICK a \in Nat, b \in Nat : a = E[first] /\ b = E[k] /\ b = a + l
      BY <1>5
    <2>2. n - l \in Nat /\ b + (n - l) = a + n
      <3>1. n \in Nat /\ l \in Nat /\ l <= n /\ b = a + l
        BY <1>3, <1>5, <2>1, Zenon
      <3>2. PICK y \in Nat, z \in Nat : y = n /\ z = l
        BY <3>1, Zenon
      <3>3. z <= y /\ b = a + z
        BY <3>1, <3>2, Zenon
      <3>4. y - z \in Nat /\ b + (y - z) = a + y
        BY <3>3
      <3> QED
        BY <3>2, <3>4, Zenon
    <2> QED
      BY <2>1, <2>2
  <1>9. LastWhole(inbox, k, n - l, h)
    BY <1>1, <1>3, <1>7, <1>8 DEF LastWhole
  <1>10. PICK a \in Seq(Mail(inbox)), b \in Seq(Mail(inbox)) :
            /\ a = Slice(inbox, first, h) /\ b = Slice(inbox, k, h)
            /\ Len(a) = h - first /\ Len(b) = h - k
            /\ \A i \in 1 .. h - first : a[i] = inbox[first + i].msg
            /\ \A i \in 1 .. h - k : b[i] = inbox[k + i].msg
    <2>1. Len(inbox) \in Nat /\ first \in 0 .. Len(inbox) /\ h \in first .. Len(inbox)
          /\ k \in 0 .. Len(inbox) /\ h \in k .. Len(inbox)
      BY <1>1, <1>3, <1>7
    <2> QED
      BY <2>1, SliceIs, Zenon
  <1>11. a # <<>> /\ Head(a) = inbox[k].msg
    <2>1. 1 \in 1 .. h - first /\ Len(a) > 0
      BY <1>3, <1>4, <1>7, <1>10
    <2>2. a # <<>>
      BY <2>1
    <2> QED
      BY <1>4, <1>10, <2>1, <2>2
  <1>12. b = Tail(a)
    <2>1. Tail(a) \in Seq(Mail(inbox)) /\ Len(Tail(a)) = Len(a) - 1
          /\ \A i \in 1 .. Len(Tail(a)) : Tail(a)[i] = a[i + 1]
      BY <1>11, HeadTailProperties
    <2>2. PICK t \in Seq(Mail(inbox)) : t = Tail(a)
      BY <2>1, Zenon
    <2>3. Len(t) = Len(b) /\ \A i \in 1 .. Len(t) : t[i] = a[i + 1]
      <3>1. Len(t) = Len(a) - 1 /\ \A i \in 1 .. Len(t) : t[i] = a[i + 1]
        BY <2>1, <2>2, Zenon
      <3>2. Len(a) = h - first /\ Len(b) = h - k
        BY <1>10, Zenon
      <3>3. (h - first) - 1 = h - k
        BY <1>3, <1>4, <1>7
      <3> QED
        BY <3>1, <3>2, <3>3, Zenon
    <2>4. ASSUME NEW i \in 1 .. Len(t) PROVE t[i] = b[i]
      <3>1. i \in 1 .. h - k /\ i + 1 \in 1 .. h - first /\ first + (i + 1) = k + i
        BY <1>3, <1>4, <1>7, <1>10, <2>3
      <3> QED
        BY <1>10, <2>3, <3>1
    <2> QED
      BY <2>2, <2>3, <2>4, SeqEqual
  <1> QED
    BY <1>4, <1>9, <1>10, <1>11, <1>12

(* d more bytes come of the message after the whole ones, m of which are there. *)
LEMMA LastIsSent ==
    ASSUME NEW inbox, NEW first, NEW n, NEW h, LastWhole(inbox, first, n, h), h < Len(inbox),
           NEW m \in Nat, Bounds(inbox)[first] + n = Bounds(inbox)[h] + m,
           NEW d \in Nat, m + d <= Len(inbox[h + 1].bytes)
    PROVE  /\ m + d < Len(inbox[h + 1].bytes) => LastWhole(inbox, first, n + d, h)
           /\ m + d = Len(inbox[h + 1].bytes) =>
                 /\ LastWhole(inbox, first, n + d, h + 1)
                 /\ Slice(inbox, first, h + 1) = Append(Slice(inbox, first, h), inbox[h + 1].msg)
PROOF
  <1>1. PICK M, E : M \in Nat /\ M = Len(inbox) /\ E = Bounds(inbox)
    BY DEF LastWhole, Mails
  <1>2. /\ \A i \in 0 .. M : E[i] \in Nat
        /\ \A i \in 1 .. M : E[i] = E[i - 1] + Len(inbox[i].bytes)
        /\ \A i \in 0 .. M : \A j \in 0 .. M : i < j => E[i] < E[j]
    BY <1>1, BoundsAscend DEF LastWhole, Ascends
  <1>3. first \in 0 .. M /\ n \in Nat /\ h \in first .. M /\ h < M /\ E[first] + n = E[h] + m
    BY <1>1 DEF LastWhole
  <1>4. PICK k \in 1 .. M : k = h + 1 /\ k - 1 = h
    BY <1>1, <1>3
  <1>5. PICK l \in Nat \ {0} : l = Len(inbox[k].bytes)
    BY <1>1, <1>4 DEF LastWhole, Mails
  <1>6. E[k] = E[h] + l /\ E[k] \in Nat /\ E[h] \in Nat /\ E[first] \in Nat
    <2>1. E[k] = E[h] + l
      BY <1>2, <1>4, <1>5
    <2> QED
      BY <1>2, <1>3, <1>4, <2>1
  <1>7. m + d <= l /\ E[first] + (n + d) = E[h] + (m + d) /\ n + d \in Nat
    <2>1. PICK a \in Nat, b \in Nat : a = E[first] /\ b = E[h] /\ a + n = b + m
      BY <1>3, <1>6
    <2>2. a + (n + d) = b + (m + d) /\ n + d \in Nat
      <3>1. a + n = b + m /\ n \in Nat
        BY <1>3, <2>1, Zenon
      <3> QED
        BY <3>1
    <2>3. m + d <= l
      BY <1>4, <1>5, Zenon
    <2> QED
      BY <2>1, <2>2, <2>3
  <1>8. ASSUME m + d < l PROVE LastWhole(inbox, first, n + d, h)
    <2>1. PICK a \in Nat, b \in Nat, c \in Nat, s \in Nat :
             a = E[first] + (n + d) /\ b = E[h] /\ c = E[k] /\ s = m + d /\ c = b + l /\ a = b + s
      <3>1. PICK y \in Nat, z \in Nat : y = E[first] /\ z = n + d
        BY <1>6, <1>7, Zenon
      <3>2. y + z \in Nat /\ m + d \in Nat
        OBVIOUS
      <3> QED
        BY <1>6, <1>7, <3>1, <3>2, Zenon
    <2>2. b <= a /\ a < c
      <3>1. s < l /\ c = b + l /\ a = b + s
        BY <1>8, <2>1, Zenon
      <3> QED
        BY <3>1
    <2>3. Mails(inbox)
      BY Zenon DEF LastWhole
    <2> QED
      BY <1>1, <1>3, <1>4, <1>7, <2>1, <2>2, <2>3, Zenon DEF LastWhole
  <1>9. ASSUME m + d = l PROVE LastWhole(inbox, first, n + d, k)
    <2>1. k \in first .. M /\ E[k] <= E[first] + (n + d)
      BY <1>3, <1>4, <1>6, <1>7, <1>9
    <2>2. ASSUME k < M PROVE E[first] + (n + d) < E[k + 1]
      <3>1. k + 1 \in 0 .. M /\ k \in 0 .. M /\ k < k + 1
        BY <1>1, <2>2
      <3>2. E[k] < E[k + 1]
        BY <1>2, <3>1
      <3> QED
        BY <1>6, <1>7, <1>9, <3>2
    <2> QED
      BY <1>1, <1>3, <1>7, <2>1, <2>2 DEF LastWhole
  <1>10. Slice(inbox, first, k) = Append(Slice(inbox, first, h), inbox[k].msg)
    <2>1. PICK a \in Seq(Mail(inbox)), b \in Seq(Mail(inbox)) :
             /\ a = Slice(inbox, first, h) /\ b = Slice(inbox, first, k)
             /\ Len(a) = h - first /\ Len(b) = k - first
             /\ \A i \in 1 .. h - first : a[i] = inbox[first + i].msg
             /\ \A i \in 1 .. k - first : b[i] = inbox[first + i].msg
      <3>1. Len(inbox) \in Nat /\ first \in 0 .. Len(inbox) /\ h \in first .. Len(inbox)
            /\ k \in first .. Len(inbox)
        BY <1>1, <1>3, <1>4
      <3> QED
        BY <3>1, SliceIs, Zenon
    <2>2. PICK msg \in Mail(inbox) : msg = inbox[k].msg
      BY <1>1 DEF Mail
    <2>3. /\ Append(a, msg) \in Seq(Mail(inbox)) /\ Len(Append(a, msg)) = Len(a) + 1
          /\ \A i \in 1 .. Len(a) : Append(a, msg)[i] = a[i]
          /\ Append(a, msg)[Len(a) + 1] = msg
      BY AppendProperties
    <2>4. PICK t \in Seq(Mail(inbox)) : t = Append(a, msg)
      BY <2>3, Zenon
    <2>5. /\ Len(t) = Len(b) /\ (\A i \in 1 .. h - first : t[i] = a[i])
          /\ t[k - first] = msg
      <3>1. Len(a) + 1 = k - first /\ Len(a) = h - first
        BY <1>3, <1>4, <2>1
      <3> QED
        BY <2>1, <2>3, <2>4, <3>1
    <2>6. ASSUME NEW i \in 1 .. Len(t) PROVE t[i] = b[i]
      <3>1. i \in 1 .. k - first
        BY <1>3, <1>4, <2>1, <2>5
      <3>2. i \in 1 .. h - first \/ (i = k - first /\ first + i = k)
        BY <1>3, <1>4, <3>1
      <3> QED
        BY <2>1, <2>2, <2>5, <3>1, <3>2
    <2>7. t = b
      BY <2>5, <2>6, SeqEqual
    <2> QED
      BY <2>1, <2>2, <2>4, <2>7
  <1> QED
    BY <1>4, <1>5, <1>8, <1>9, <1>10

(* With fewer bytes, the first of the messages are left. *)
LEMMA FirstAreLeft ==
    ASSUME NEW inbox, NEW first, NEW n, NEW h, LastWhole(inbox, first, n, h), NEW r \in 0 .. n
    PROVE  \E i \in 0 .. Len(Slice(inbox, first, h)) :
              Waiting(inbox, first, r) = SubSeq(Slice(inbox, first, h), 1, i)
PROOF
  <1>1. PICK M, E : M \in Nat /\ M = Len(inbox) /\ E = Bounds(inbox)
    BY DEF LastWhole, Mails
  <1>2. /\ \A i \in 0 .. M : E[i] \in Nat
        /\ \A i \in 0 .. M : \A j \in 0 .. M : i < j => E[i] < E[j]
    BY <1>1, BoundsAscend DEF LastWhole, Ascends
  <1>3. /\ first \in 0 .. M /\ n \in Nat /\ h \in first .. M
        /\ E[h] <= E[first] + n /\ (h < M => E[first] + n < E[h + 1])
    BY <1>1 DEF LastWhole
  <1>4. r \in Nat /\ r <= n
    BY <1>3
  <1>5. PICK g : LastWhole(inbox, first, r, g)
    BY <1>1, <1>3, <1>4, SomeFit DEF LastWhole
  <1>6. g \in first .. M /\ E[g] <= E[first] + r
    BY <1>1, <1>5 DEF LastWhole
  <1>7. g <= h
    <2> SUFFICES ASSUME h < g PROVE FALSE
      BY <1>3, <1>6
    <2>1. h < M /\ h + 1 \in 0 .. M /\ g \in 0 .. M /\ (h + 1 = g \/ h + 1 < g)
      BY <1>1, <1>3, <1>6
    <2>2. E[h + 1] \in Nat /\ E[g] \in Nat /\ E[first] \in Nat
      BY <1>2, <1>3, <2>1
    <2>3. E[h + 1] <= E[g]
      BY <1>2, <2>1, <2>2
    <2>4. E[first] + n < E[h + 1]
      BY <1>3, <2>1
    <2> QED
      BY <1>3, <1>4, <1>6, <2>2, <2>3, <2>4
  <1>8. PICK a \in Seq(Mail(inbox)), b \in Seq(Mail(inbox)) :
           /\ a = Slice(inbox, first, h) /\ b = Slice(inbox, first, g)
           /\ Len(a) = h - first /\ Len(b) = g - first
           /\ \A i \in 1 .. h - first : a[i] = inbox[first + i].msg
           /\ \A i \in 1 .. g - first : b[i] = inbox[first + i].msg
    <2>1. Len(inbox) \in Nat /\ first \in 0 .. Len(inbox) /\ h \in first .. Len(inbox)
          /\ g \in first .. Len(inbox)
      BY <1>1, <1>3, <1>6
    <2> QED
      BY <2>1, SliceIs, Zenon
  <1>9. PICK i \in Nat : i = g - first /\ i <= Len(a) /\ i = Len(b)
    BY <1>3, <1>6, <1>7, <1>8
  <1>10. PICK t \in Seq(Mail(inbox)) : t = SubSeq(a, 1, i) /\ Len(t) = i
                                      /\ \A j \in 1 .. i : t[j] = a[j]
    <2>1. SubSeq(a, 1, i) \in Seq(Mail(inbox)) /\ Len(SubSeq(a, 1, i)) = i
          /\ \A j \in 1 .. i : SubSeq(a, 1, i)[j] = a[j]
      BY <1>9
    <2> QED
      BY <2>1, Zenon
  <1>11. ASSUME NEW j \in 1 .. Len(t) PROVE t[j] = b[j]
    <2>1. j \in 1 .. h - first /\ j \in 1 .. g - first /\ j \in 1 .. i
      BY <1>3, <1>6, <1>7, <1>8, <1>9, <1>10
    <2> QED
      BY <1>8, <1>10, <2>1
  <1>12. t = b
    BY <1>9, <1>10, <1>11, SeqEqual
  <1>13. i \in 0 .. Len(a)
    BY <1>9
  <1>14. Waiting(inbox, first, r) = SubSeq(a, 1, i)
    BY <1>5, <1>8, <1>10, <1>12, WaitsWhole
  <1> QED
    BY <1>8, <1>13, <1>14

(* How many messages to e come before message k of an exchange. *)
Before(e, k) ==
    IF e = "sender" THEN (IF k <= 2 THEN 0 ELSE 1)
    ELSE IF k = 1 THEN 0 ELSE IF k = 2 THEN 1 ELSE k - 2

(* The inbox of e holds the messages that it reads, in their order. *)
Sorted(s, e) ==
    /\ Mails(Inbox(s, e)) /\ Len(Inbox(s, e)) < Len(s)
    /\ Before(e, 1) = 0 /\ Before(e, Len(s) + 1) = Len(Inbox(s, e))
    /\ \A k \in 1 .. Len(s) + 1 : Before(e, k) \in 0 .. Len(Inbox(s, e))
    /\ \A k \in 1 .. Len(s) :
          IF Expected(s, e, k)
          THEN /\ Before(e, k) < Len(Inbox(s, e))
               /\ Before(e, k + 1) = Before(e, k) + 1
               /\ Inbox(s, e)[Before(e, k) + 1] = s[k]
          ELSE Before(e, k + 1) = Before(e, k)

LEMMA InboxSorted ==
    ASSUME Requestable, NEW x \in Exchanges, NEW e \in Ends
    PROVE  Sorted(ScriptOf(x), e)
PROOF
  <1>1. PICK s, N : s = ScriptOf(x) /\ N = Len(s) /\ N \in Nat /\ N >= 3
    <2>1. Len(ScriptOf(x)) = LeftOf(x) + 3 /\ LeftOf(x) \in Nat
      BY ScriptShape, FileFacts
    <2>2. Len(ScriptOf(x)) \in Nat /\ Len(ScriptOf(x)) >= 3
      BY <2>1
    <2> QED
      BY <2>2, Zenon
  <1>2. \A k \in 1 .. N : Len(s[k].bytes) \in Nat \ {0}
    <2>1. Flow(s)
      BY <1>1, Flows
    <2>2. \A k \in 1 .. N : Sound(s[k])
      BY <1>1, <2>1, Zenon DEF Flow
    <2> QED
      BY <2>2 DEF Sound
  <1>3. \A k \in 1 .. N : s[k].by = IF k = 2 THEN "receiver" ELSE "sender"
    BY <1>1, ByWhom
  <1>4. CASE e = "sender"
    <2>1. PICK inbox : inbox = Inbox(s, e)
      OBVIOUS
    <2>2. Len(inbox) = 1 /\ inbox[1] = s[2]
      BY <1>4, <2>1 DEF Inbox
    <2>3. Mails(inbox)
      <3>1. 2 \in 1 .. N
        BY <1>1
      <3>2. \A k \in 1 .. 1 : k = 1
        OBVIOUS
      <3> QED
        BY <1>2, <2>2, <3>1, <3>2 DEF Mails
    <2>4. \A k \in 1 .. N : Expected(s, e, k) <=> k = 2
      BY <1>1, <1>3, <1>4 DEF Expected
    <2>5. \A k \in 1 .. N + 1 : Before(e, k) = IF k <= 2 THEN 0 ELSE 1
      BY <1>4 DEF Before
    <2>6. \A k \in 1 .. N : IF k = 2 THEN Before(e, k) = 0 /\ Before(e, k + 1) = 1
                            ELSE Before(e, k + 1) = Before(e, k)
      BY <1>1, <1>4 DEF Before
    <2>7. /\ \A k \in 1 .. N + 1 : Before(e, k) \in 0 .. 1
          /\ Before(e, 1) = 0 /\ Before(e, N + 1) = 1
      BY <1>1, <2>5
    <2>8. ASSUME NEW k \in 1 .. N
          PROVE  IF Expected(s, e, k)
                 THEN /\ Before(e, k) < Len(inbox)
                      /\ Before(e, k + 1) = Before(e, k) + 1
                      /\ inbox[Before(e, k) + 1] = s[k]
                 ELSE Before(e, k + 1) = Before(e, k)
      BY <2>2, <2>4, <2>6
    <2> QED
      BY <1>1, <2>1, <2>2, <2>3, <2>7, <2>8 DEF Sorted
  <1>5. CASE e = "receiver"
    <2>1. PICK inbox : inbox = Inbox(s, e)
      OBVIOUS
    <2>2. Len(inbox) = N - 1 /\ \A k \in 1 .. N - 1 : inbox[k] = s[IF k = 1 THEN 1 ELSE k + 1]
      <3>1. inbox = [k \in 1 .. N - 1 |-> s[IF k = 1 THEN 1 ELSE k + 1]]
        BY <1>1, <1>5, <2>1 DEF Inbox
      <3>2. N - 1 \in Nat
        BY <1>1
      <3> QED
        BY <3>1, <3>2
    <2>3. Mails(inbox)
      <3>1. \A k \in 1 .. N - 1 : (IF k = 1 THEN 1 ELSE k + 1) \in 1 .. N
        BY <1>1
      <3>2. ASSUME NEW k \in 1 .. N - 1 PROVE Len(inbox[k].bytes) \in Nat \ {0}
        BY <1>2, <2>2, <3>1
      <3>3. N - 1 \in Nat
        BY <1>1
      <3> QED
        BY <2>2, <3>2, <3>3 DEF Mails
    <2>4. \A k \in 1 .. N : Expected(s, e, k) <=> k # 2
      BY <1>1, <1>3, <1>5 DEF Expected
    <2>5. \A k \in 1 .. N + 1 : Before(e, k) = IF k = 1 THEN 0 ELSE IF k = 2 THEN 1 ELSE k - 2
      BY <1>5 DEF Before
    <2>6. /\ \A k \in 1 .. N + 1 : Before(e, k) \in 0 .. N - 1
          /\ Before(e, 1) = 0 /\ Before(e, N + 1) = N - 1
      BY <1>1, <2>5
    <2>7. ASSUME NEW k \in 1 .. N, k # 2
          PROVE  /\ Before(e, k) < N - 1 /\ Before(e, k + 1) = Before(e, k) + 1
                 /\ inbox[Before(e, k) + 1] = s[k]
      <3>1. k \in 1 .. N + 1 /\ k + 1 \in 1 .. N + 1
        BY <1>1
      <3>2. CASE k = 1
        <4>1. Before(e, k) = 0 /\ Before(e, k + 1) = 1
          BY <2>5, <3>1, <3>2
        <4>2. 1 \in 1 .. N - 1
          BY <1>1
        <4> QED
          BY <1>1, <2>2, <3>2, <4>1, <4>2
      <3>3. CASE k # 1
        <4>1. Before(e, k) = k - 2 /\ Before(e, k + 1) = k - 1
          BY <1>1, <2>5, <2>7, <3>1, <3>3
        <4>2. PICK i \in 1 .. N - 1 : i = k - 1 /\ i # 1 /\ i + 1 = k /\ (k - 2) + 1 = i
          BY <1>1, <2>7, <3>3
        <4>3. inbox[i] = s[k]
          BY <2>2, <4>2
        <4> QED
          BY <1>1, <4>1, <4>2, <4>3
      <3> QED
        BY <3>2, <3>3
    <2>8. Before(e, 2) = 1 /\ Before(e, 2 + 1) = 1
      <3>1. 2 \in 1 .. N + 1 /\ 3 \in 1 .. N + 1 /\ 2 + 1 = 3
        BY <1>1
      <3> QED
        BY <2>5, <3>1
    <2>9. ASSUME NEW k \in 1 .. N
          PROVE  IF Expected(s, e, k)
                 THEN /\ Before(e, k) < Len(inbox)
                      /\ Before(e, k + 1) = Before(e, k) + 1
                      /\ inbox[Before(e, k) + 1] = s[k]
                 ELSE Before(e, k + 1) = Before(e, k)
      BY <2>2, <2>4, <2>7, <2>8
    <2>10. Len(inbox) < N
      BY <1>1, <2>2
    <2> QED
      BY <1>1, <2>1, <2>2, <2>3, <2>6, <2>9, <2>10 DEF Sorted
  <1> QED
    BY <1>4, <1>5 DEF Ends

(* The bytes to come are those of the messages to come. *)
LEMMA ComingLength ==
    ASSUME NEW s, Flow(s), NEW e \in Ends, Sorted(s, e), NEW k \in 1 .. Len(s) + 1
    PROVE  LET end == Bounds(Inbox(s, e))
           IN  Len(Coming(s, e)[k]) + end[Before(e, k)] = end[Len(Inbox(s, e))]
PROOF
  <1>1. PICK N, C : N \in Nat /\ N = Len(s) /\ C = Coming(s, e)
    BY DEF Flow
  <1>2. PICK inbox, M, E :
           inbox = Inbox(s, e) /\ M \in Nat /\ M = Len(inbox) /\ E = Bounds(inbox)
    <2>1. Len(Inbox(s, e)) \in Nat
      BY DEF Sorted, Mails
    <2> QED
      BY <2>1, Zenon
  <1>3. /\ \A i \in 0 .. M : E[i] \in Nat
        /\ \A i \in 1 .. M : E[i] = E[i - 1] + Len(inbox[i].bytes)
    BY <1>2, BoundsAscend DEF Sorted, Ascends
  <1>a. N \in Nat /\ M \in Nat
    BY <1>1, <1>2, Zenon
  <1> DEFINE Good(i) == Len(C[i]) + E[Before(e, i)] = E[M]
             T == {i \in 0 .. N : Good(N + 1 - i)}
  <1>4. 0 \in T
    <2>1. C[N + 1] = <<>> /\ Before(e, N + 1) = M /\ N + 1 - 0 = N + 1
      BY <1>1, <1>2 DEF Flow, Sorted
    <2>2. Len(<<>>) = 0 /\ E[M] \in Nat
      BY <1>3, <1>a
    <2>3. Good(N + 1)
      BY <2>1, <2>2
    <2>4. Good(N + 1 - 0)
      BY <2>1, <2>3
    <2> QED
      BY <1>a, <2>4
  <1>5. ASSUME NEW i \in 1 .. N, i - 1 \in T PROVE i \in T
    <2>1. PICK j \in 1 .. N : j = N + 1 - i /\ j + 1 = N + 1 - (i - 1)
      <3>1. N \in Nat
        BY <1>1
      <3>2. N + 1 - i \in 1 .. N /\ (N + 1 - i) + 1 = N + 1 - (i - 1)
        BY <3>1
      <3> QED
        BY <3>2, Zenon
    <2>2. Good(j + 1)
      BY <1>5, <2>1
    <2>3. Before(e, j) \in 0 .. M /\ Before(e, j + 1) \in 0 .. M
      <3>1. j \in 1 .. Len(s) + 1 /\ j + 1 \in 1 .. Len(s) + 1
        BY <1>1
      <3> QED
        BY <1>2, <3>1, Zenon DEF Sorted
    <2>4. Advances(s, e, j)
      BY <1>1, NextComing
    <2>5. PICK a \in Seq(Bytes), c \in Seq(Bytes) : a = s[j].bytes /\ c = C[j + 1]
      BY <1>1, <2>4, Zenon DEF Advances
    <2>6. CASE Expected(s, e, j)
      <3>1. C[j] = a \o c
        BY <1>1, <2>4, <2>5, <2>6, Zenon DEF Advances
      <3>2. Len(C[j]) = Len(a) + Len(c)
        <4>1. Len(a \o c) = Len(a) + Len(c)
          OBVIOUS
        <4> QED
          BY <3>1, <4>1, Zenon
      <3>3. PICK b \in 0 .. M : /\ b = Before(e, j) /\ b < M /\ Before(e, j + 1) = b + 1
                                /\ inbox[b + 1] = s[j]
        BY <1>1, <1>2, <2>3, <2>6, Zenon DEF Sorted
      <3>4. E[b + 1] = E[b] + Len(a) /\ E[b] \in Nat
        <4>1. b + 1 \in 1 .. M /\ (b + 1) - 1 = b
          BY <1>a, <3>3
        <4> QED
          BY <1>3, <2>5, <3>3, <4>1
      <3>5. Len(c) + E[b + 1] = E[M]
        BY <2>2, <2>5, <3>3
      <3>6. (Len(a) + Len(c)) + E[b] = E[M]
        BY <3>4, <3>5
      <3> QED
        BY <2>1, <3>2, <3>3, <3>6
    <2>7. CASE ~Expected(s, e, j)
      <3>1. C[j] = C[j + 1]
        BY <1>1, <2>4, <2>7, Zenon DEF Advances
      <3>2. Before(e, j + 1) = Before(e, j)
        BY <1>1, <2>7, Zenon DEF Sorted
      <3> QED
        BY <2>1, <2>2, <3>1, <3>2
    <2> QED
      BY <2>6, <2>7
  <1>6. Good(k)
    <2>1. \A i \in 0 .. N : i \in T
      <3> HIDE DEF T
      <3> QED
        BY <1>4, <1>5, <1>a, UpTo
    <2>2. N + 1 - k \in 0 .. N /\ N + 1 - (N + 1 - k) = k
      BY <1>1
    <2> HIDE DEF Good
    <2> QED
      BY <2>1, <2>2
  <1> QED
    BY <1>1, <1>2, <1>6

(* What the other end, at byte n of message j, has yet to send of an inbox. *)
LEMMA UnsentLength ==
    ASSUME NEW s, Flow(s), NEW e \in Ends, Sorted(s, e), NEW j \in 1 .. Len(s) + 1, NEW n \in Nat,
           IF Expected(s, e, j) THEN n < Len(s[j].bytes) ELSE n = 0
    PROVE  LET end == Bounds(Inbox(s, e))
           IN  /\ Unsent(s, e, j, n) \in Seq(Bytes)
               /\ Len(Unsent(s, e, j, n)) + (end[Before(e, j)] + n) = end[Len(Inbox(s, e))]
PROOF
  <1>1. PICK inbox, M, E :
           inbox = Inbox(s, e) /\ M \in Nat /\ M = Len(inbox) /\ E = Bounds(inbox)
    <2>1. Len(Inbox(s, e)) \in Nat
      BY DEF Sorted, Mails
    <2> QED
      BY <2>1, Zenon
  <1>2. \A i \in 0 .. M : E[i] \in Nat
    BY <1>1, BoundsAscend DEF Sorted, Ascends
  <1>3. PICK i \in 0 .. M : i = Before(e, j)
    BY <1>1, Zenon DEF Sorted
  <1>4. PICK c, y, z : c = Coming(s, e)[j] /\ y = E[i] /\ z = E[M]
    OBVIOUS
  <1>5. c \in Seq(Bytes) /\ y \in Nat /\ z \in Nat
    <2>1. M \in 0 .. M
      BY <1>1
    <2> QED
      BY <1>2, <1>4, <2>1, Zenon DEF Flow
  <1>6. Len(c) + y = z
    BY <1>1, <1>3, <1>4, ComingLength, Zenon
  <1>7. CASE Expected(s, e, j)
    <2>1. j \in 1 .. Len(s) /\ j + 1 \in 1 .. Len(s) + 1
      BY <1>7 DEF Expected, Flow
    <2>2. Advances(s, e, j)
      BY <2>1, NextComing
    <2>3. PICK a \in Seq(Bytes), d \in Seq(Bytes) :
             a = s[j].bytes /\ d = Coming(s, e)[j + 1] /\ c = a \o d
      BY <1>4, <1>7, <2>2, Zenon DEF Advances
    <2>4. n < Len(a) /\ Len(a) \in Nat
      BY <1>7, <2>3
    <2>5. PICK v \in Seq(Bytes) : v = SubSeq(a, n + 1, Len(a)) /\ Len(v) = Len(a) - n
      <3>1. SubSeq(a, n + 1, Len(a)) \in Seq(Bytes) /\ Len(SubSeq(a, n + 1, Len(a))) = Len(a) - n
        BY <2>4
      <3> QED
        BY <3>1, Zenon
    <2>6. v \o d \in Seq(Bytes) /\ Len(v \o d) = Len(v) + Len(d) /\ Len(a \o d) = Len(a) + Len(d)
      OBVIOUS
    <2>7. Unsent(s, e, j, n) = v \o d
      BY <1>7, <2>3, <2>5, Zenon DEF Unsent
    <2>8. PICK p \in Nat, q \in Nat : p = Len(a) /\ q = Len(d) /\ Len(v) = p - n /\ (p + q) + y = z
      <3>1. Len(c) = Len(a) + Len(d)
        BY <2>3, <2>6, Zenon
      <3>2. (Len(a) + Len(d)) + y = z
        BY <1>6, <3>1, Zenon
      <3>3. Len(a) \in Nat /\ Len(d) \in Nat
        OBVIOUS
      <3> QED
        BY <2>5, <3>2, <3>3, Zenon
    <2>9. ((p - n) + q) + (y + n) = z
      <3>1. (p + q) + y = z
        BY <2>8, Zenon
      <3> QED
        BY <1>5, <3>1
    <2>10. Len(v \o d) + (y + n) = z
      BY <2>6, <2>8, <2>9, Zenon
    <2> QED
      BY <1>1, <1>3, <1>4, <2>6, <2>7, <2>10, Zenon
  <1>8. CASE ~Expected(s, e, j)
    <2>1. Unsent(s, e, j, n) = c
      BY <1>4, <1>8, Zenon DEF Unsent
    <2>2. y + n = y
      BY <1>5, <1>8
    <2> QED
      BY <1>1, <1>3, <1>4, <1>5, <1>6, <2>1, <2>2, Zenon
  <1> QED
    BY <1>7, <1>8

(* The other end is within message j, or at one that it reads. *)
Midway(s, e, j, m) == IF Expected(s, e, j) THEN m < Len(s[j].bytes) ELSE m = 0

(* The first messages and the n bytes that follow are the first messages and  *)
(* the m bytes of the next that the other end has sent.                       *)
AllSent(s, e, first, n, h, m) ==
    /\ LastWhole(Inbox(s, e), first, n, h)
    /\ Bounds(Inbox(s, e))[first] + n = Bounds(Inbox(s, e))[h] + m

(* On a connection that is up, an end has or is about to get exactly the      *)
(* messages that the other is past: it has m bytes of the next one.           *)
LEMMA WholeAreSent ==
    ASSUME NEW s, Flow(s), NEW e \in Ends, Sorted(s, e),
           NEW k \in 1 .. Len(s) + 1, NEW j \in 1 .. Len(s) + 1, NEW m \in Nat,
           NEW b \in Seq(Bytes), NEW w \in Seq(Bytes),
           Midway(s, e, j, m), InStep(s, e, k, b, w, j, m, TRUE)
    PROVE  AllSent(s, e, Before(e, k), Len(b) + Len(w), Before(e, j), m)
PROOF
  <1>1. PICK inbox, M, E :
           inbox = Inbox(s, e) /\ M \in Nat /\ M = Len(inbox) /\ E = Bounds(inbox)
    <2>1. Len(Inbox(s, e)) \in Nat
      BY DEF Sorted, Mails
    <2> QED
      BY <2>1, Zenon
  <1>2. /\ \A i \in 0 .. M : E[i] \in Nat
        /\ \A i \in 1 .. M : E[i] = E[i - 1] + Len(inbox[i].bytes)
        /\ \A i \in 0 .. M : \A l \in 0 .. M : i < l => E[i] < E[l]
    BY <1>1, BoundsAscend DEF Sorted, Ascends
  <1>3. PICK f \in 0 .. M, h \in 0 .. M : f = Before(e, k) /\ h = Before(e, j)
    BY <1>1, Zenon DEF Sorted
  <1>4. PICK more \in Seq(Bytes) : (b \o w) \o more = Coming(s, e)[k] /\ more = Unsent(s, e, j, m)
    BY Zenon DEF InStep
  <1>5. PICK n \in Nat, r \in Nat : n = Len(b) + Len(w) /\ r = Len(more)
    OBVIOUS
  <1>6. Len((b \o w) \o more) = n + r
    <2>1. Joined(b, w, more)
      BY Together
    <2>2. PICK q \in Seq(Bytes) : q = b \o w /\ Len(q) = n
      BY <1>5, <2>1, Zenon DEF Joined
    <2>3. Len(q \o more) = Len(q) + Len(more)
      OBVIOUS
    <2> QED
      BY <1>5, <2>2, <2>3, Zenon
  <1>7. (n + r) + E[f] = E[M]
    BY <1>1, <1>3, <1>4, <1>6, ComingLength, Zenon
  <1>8. r + (E[h] + m) = E[M]
    BY <1>1, <1>3, <1>4, <1>5, UnsentLength, Zenon DEF Midway
  <1>9. E[f] + n = E[h] + m /\ E[f] \in Nat /\ E[h] \in Nat
    <2>1. PICK y, z, t : y = E[f] /\ z = E[h] /\ t = E[M]
      OBVIOUS
    <2>2. y \in Nat /\ z \in Nat /\ t \in Nat
      <3>1. M \in 0 .. M
        BY <1>1
      <3> QED
        BY <1>2, <2>1, <3>1, Zenon
    <2>3. (n + r) + y = t /\ r + (z + m) = t
      BY <1>7, <1>8, <2>1, Zenon
    <2>4. y + n = z + m
      BY <2>2, <2>3
    <2> QED
      BY <2>1, <2>2, <2>4, Zenon
  <1>10. ASSUME h < M PROVE E[h] + m < E[h + 1]
    <2>1. PICK l \in Nat \ {0} : l = Len(inbox[h + 1].bytes) /\ E[h + 1] = E[h] + l
      <3>1. h + 1 \in 1 .. M /\ (h + 1) - 1 = h
        BY <1>1, <1>10
      <3> QED
        BY <1>1, <1>2, <3>1 DEF Sorted, Mails
    <2>2. m < l
      <3>1. CASE Expected(s, e, j)
        <4>1. j \in 1 .. Len(s)
          BY <3>1 DEF Expected, Flow
        <4>2. inbox[h + 1] = s[j]
          BY <1>1, <1>3, <3>1, <4>1, Zenon DEF Sorted
        <4> QED
          BY <2>1, <3>1, <4>2 DEF Midway
      <3>2. CASE ~Expected(s, e, j)
        BY <2>1, <3>2 DEF Midway
      <3> QED
        BY <3>1, <3>2
    <2>3. PICK z \in Nat : z = E[h]
      BY <1>9, Zenon
    <2>4. z + m < z + l
      BY <2>2
    <2> QED
      BY <2>1, <2>3, <2>4, Zenon
  <1>11. f <= h
    <2> SUFFICES ASSUME h < f PROVE FALSE
      BY <1>1
    <2>1. h < M /\ h + 1 \in 0 .. M /\ (h + 1 = f \/ h + 1 < f)
      BY <1>1
    <2>2. PICK y \in Nat, z \in Nat, u \in Nat : y = E[f] /\ z = E[h] /\ u = E[h + 1]
      <3>1. E[h + 1] \in Nat
        BY <1>2, <2>1, Zenon
      <3> QED
        BY <1>9, <3>1, Zenon
    <2>3. u = y \/ u < y
      <3>1. f \in 0 .. M
        BY <1>1, Zenon
      <3> QED
        BY <1>2, <2>1, <2>2, <3>1, Zenon
    <2>4. z + m < u
      BY <1>10, <2>1, <2>2, Zenon
    <2>5. y + n = z + m
      BY <1>9, <2>2, Zenon
    <2> QED
      BY <2>3, <2>4, <2>5
  <1>12. E[h] <= E[f] + n /\ (h < M => E[f] + n < E[h + 1])
    BY <1>9, <1>10
  <1>13. h \in f .. M
    BY <1>1, <1>11
  <1>14. Mails(inbox)
    BY <1>1, Zenon DEF Sorted
  <1>15. LastWhole(inbox, f, n, h)
    BY <1>1, <1>12, <1>13, <1>14 DEF LastWhole
  <1> QED
    BY <1>1, <1>3, <1>5, <1>9, <1>15, Zenon DEF AllSent

(* At message k end e hands d bytes, after the first m, to the kernel. *)
Handed(e, k, m, d) ==
    /\ k \in 1 .. Len(script) /\ k = at[e] /\ script[k].by = e /\ ended[e] = "no"
    /\ m \in Nat /\ m = sent[e] /\ d \in Nat /\ m + d <= Len(script[k].bytes)
    /\ script' = script /\ buf' = buf /\ up' = up /\ got' = got /\ ended' = ended
    /\ wire'[e] = wire[e]
    /\ up => Len(wire'[Peer(e)]) = Len(wire[Peer(e)]) + d
    /\ ~up => wire'[Peer(e)] = wire[Peer(e)]
    /\ at' = IF m + d = Len(script[k].bytes) THEN [at EXCEPT ![e] = k + 1] ELSE at

LEMMA SendTurn ==
    ASSUME Requestable, NEW x \in Exchanges, WireInvOf(x), NEW e \in Ends, SendSome(e)
    PROVE  \E k, m, d : Handed(e, k, m, d)
PROOF
  <1>1. /\ script = ScriptOf(x) /\ WireTypes /\ StreamInv /\ CollectInv /\ SentInv
        /\ GotInv /\ EndInv /\ ProgressInv(x)
    BY DEF WireInvOf
  <1>2. PICK p \in Ends : p = Peer(e) /\ Peer(p) = e /\ p # e /\ \A f \in Ends : f = e \/ f = p
    BY Peers
  <1>3. PICK s : s = script
    OBVIOUS
  <1>4. Flow(s) /\ Len(s) \in Nat
    BY <1>3, AtEnd, Zenon
  <1>5. PICK k \in 1 .. Len(s) : k = at[e] /\ s[k].by = e /\ ended[e] = "no"
    <2>1. at[e] \in 1 .. Len(s) + 1 /\ at[e] <= Len(s) /\ s[at[e]].by = e /\ ended[e] = "no"
      BY <1>3, AtEnd DEF SendSome, MustSend
    <2> QED
      BY <1>4, <2>1
  <1>6. Written(s, e, k) /\ ~Expected(s, e, k) /\ Expected(s, p, k)
    BY <1>2, <1>4, <1>5, Turns
  <1>7. PICK m \in Nat, a \in Seq(Bytes) : m = sent[e] /\ a = s[k].bytes /\ m < Len(a)
    <2>1. Sound(s[k])
      BY <1>4, Zenon DEF Flow
    <2>2. s[k].bytes \in Seq(Bytes)
      BY <2>1, Zenon DEF Sound
    <2>3. sent[e] \in Nat /\ Sending(s, e, k, sent[e])
      BY <1>3, <1>5, AtEnd, Zenon
    <2>4. sent[e] < Len(s[k].bytes)
      BY <1>6, <2>3 DEF Sending
    <2> QED
      BY <2>2, <2>3, <2>4, Zenon
  <1>8. PICK w \in Seq(Bytes), b \in Seq(Bytes), j \in 1 .. Len(s) + 1 :
           w = wire[p] /\ b = buf[p] /\ j = at[p]
    BY <1>3, AtEnd, Zenon
  <1>9. PICK n \in IF up THEN 1 .. (IF Capacity - Len(w) < Len(a) - m THEN Capacity - Len(w)
                                                                      ELSE Len(a) - m)
                         ELSE {Len(a) - m} :
           /\ wire' = IF up THEN [wire EXCEPT ![p] = @ \o SubSeq(a, m + 1, m + n)] ELSE wire
           /\ IF SentAll(e, n)
              THEN /\ at' = [at EXCEPT ![e] = @ + 1]
                   /\ sent' = [sent EXCEPT ![e] = 0]
                   /\ add_progress(e, Current(e))
              ELSE /\ sent' = [sent EXCEPT ![e] = @ + n]
                   /\ UNCHANGED <<at, progress>>
    BY <1>2, <1>3, <1>5, <1>7, <1>8 DEF SendSome
  <1>10. n \in Nat /\ n > 0 /\ m + n <= Len(a)
    <2>1. PICK l \in Nat, c \in Int : l = Len(a) - m /\ c = Capacity - Len(w) /\ l > 0
      <3>1. Len(a) \in Nat /\ Len(w) \in Nat /\ m < Len(a)
        BY <1>7
      <3>2. Capacity \in Nat
        BY WireStreamAssumption
      <3>3. Len(a) - m \in Nat /\ Capacity - Len(w) \in Int /\ Len(a) - m > 0
        BY <3>1, <3>2
      <3> QED
        BY <3>3
    <2>2. n \in IF up THEN 1 .. (IF c < l THEN c ELSE l) ELSE {l}
      BY <1>9, <2>1, Zenon
    <2>3. n \in 1 .. l
      BY <2>1, <2>2
    <2>4. Len(a) \in Nat /\ l = Len(a) - m
      BY <2>1
    <2> QED
      BY <2>3, <2>4
  <1>11. SentAll(e, n) <=> m + n = Len(a)
    BY <1>3, <1>5, <1>7 DEF SentAll
  <1>12. /\ script' = script /\ buf' = buf /\ up' = up /\ got' = got /\ ended' = ended
    BY DEF SendSome
  <1>13. wire' \in [Ends -> Seq(Bytes)] /\ wire'[e] = wire[e]
         /\ (up => wire'[p] = w \o SubSeq(a, m + 1, m + n)) /\ (~up => wire'[p] = w)
    <2>1. SubSeq(a, m + 1, m + n) \in Seq(Bytes)
      BY <1>10
    <2>2. w \o SubSeq(a, m + 1, m + n) \in Seq(Bytes)
      BY <2>1
    <2> QED
      BY <1>1, <1>2, <1>8, <1>9, <2>2 DEF WireTypes
  <1>14. at' = IF m + n = Len(a) THEN [at EXCEPT ![e] = k + 1] ELSE at
    BY <1>5, <1>9, <1>11
  <1>15. up => Len(wire'[p]) = Len(w) + n
    <2>1. PICK u \in Seq(Bytes) : u = SubSeq(a, m + 1, m + n) /\ Len(u) = n
      <3>1. SubSeq(a, m + 1, m + n) \in Seq(Bytes) /\ Len(SubSeq(a, m + 1, m + n)) = n
        BY <1>10
      <3> QED
        BY <3>1, Zenon
    <2>2. Len(w \o u) = Len(w) + Len(u)
      OBVIOUS
    <2> QED
      BY <1>13, <2>1, <2>2, Zenon
  <1>16. /\ k \in 1 .. Len(script) /\ k = at[e] /\ script[k].by = e /\ ended[e] = "no"
         /\ m \in Nat /\ m = sent[e] /\ n \in Nat /\ m + n <= Len(script[k].bytes)
    BY <1>3, <1>5, <1>7, <1>10, Zenon
  <1>17. Handed(e, k, m, n)
    BY <1>2, <1>3, <1>7, <1>8, <1>12, <1>13, <1>14, <1>15, <1>16, Zenon DEF Handed
  <1> QED
    BY <1>17, Zenon

(* At message k end e collects some of its bytes, ... *)
CollectedSome(e, k) ==
    /\ k \in 1 .. Len(script) /\ k = at[e] /\ script[k].by # e /\ ended[e] = "no"
    /\ script' = script /\ up' = up /\ ended' = ended /\ got' = got /\ at' = at
    /\ buf'[Peer(e)] = buf[Peer(e)] /\ wire'[Peer(e)] = wire[Peer(e)]
    /\ Len(buf'[e]) + Len(wire'[e]) = Len(buf[e]) + Len(wire[e])

(* ... or the last ones. *)
CollectedAll(e, k) ==
    /\ k \in 1 .. Len(script) /\ k = at[e] /\ script[k].by # e /\ ended[e] = "no"
    /\ script' = script /\ up' = up /\ ended' = ended
    /\ got' = [got EXCEPT ![e] = Append(@, script[k].msg)]
    /\ at' = [at EXCEPT ![e] = k + 1]
    /\ buf'[Peer(e)] = buf[Peer(e)] /\ wire'[Peer(e)] = wire[Peer(e)]
    /\ buf'[e] = <<>> /\ Len(wire'[e]) \in Nat
    /\ Len(script[k].bytes) + Len(wire'[e]) = Len(buf[e]) + Len(wire[e])

LEMMA RecvTurn ==
    ASSUME Requestable, NEW x \in Exchanges, WireInvOf(x), NEW e \in Ends, RecvSome(e)
    PROVE  \E k : CollectedSome(e, k) \/ CollectedAll(e, k)
PROOF
  <1>1. /\ script = ScriptOf(x) /\ WireTypes /\ StreamInv /\ CollectInv /\ SentInv
        /\ GotInv /\ EndInv /\ ProgressInv(x)
    BY DEF WireInvOf
  <1>2. PICK p \in Ends : p = Peer(e) /\ Peer(p) = e /\ p # e /\ \A f \in Ends : f = e \/ f = p
    BY Peers
  <1>3. PICK s : s = script
    OBVIOUS
  <1>4. Flow(s) /\ Len(s) \in Nat
    BY <1>3, AtEnd, Zenon
  <1>5. PICK k \in 1 .. Len(s) : k = at[e] /\ s[k].by # e /\ ended[e] = "no"
    <2>1. at[e] \in 1 .. Len(s) + 1 /\ at[e] <= Len(s) /\ s[at[e]].by # e /\ ended[e] = "no"
      BY <1>3, AtEnd DEF RecvSome, MustRecv
    <2> QED
      BY <1>4, <2>1
  <1>6. ~Written(s, e, k) /\ Expected(s, e, k) /\ ~Expected(s, p, k)
    BY <1>2, <1>4, <1>5, Turns
  <1>7. PICK w \in Seq(Bytes), b \in Seq(Bytes), j \in 1 .. Len(s) + 1, m \in Nat :
           w = wire[e] /\ b = buf[e] /\ j = at[p] /\ m = sent[p]
    BY <1>3, AtEnd, Zenon
  <1>8. InStep(s, e, k, b, w, j, m, up) /\ Collecting(s, e, k, b) /\ Sending(s, e, k, sent[e])
    BY <1>2, <1>3, <1>5, <1>7, AtEnd, Zenon
  <1>9. Len(b) < Len(s[k].bytes) /\ sent[e] = 0
    BY <1>6, <1>8 DEF Collecting, Sending
  <1>10. PICK n, q, v, type, message :
            /\ n \in 1 .. Len(w) /\ q = b \o SubSeq(w, 1, n) /\ v = SubSeq(w, n + 1, Len(w)) /\ type = s[k].msg.type
            /\ message = Deserialized(e, s[k].msg, q)
            /\ Len(q) <= Wanted(type, b)
            /\ IF Len(q) < Wanted(type, q)
               THEN /\ buf' = [buf EXCEPT ![e] = q] /\ wire' = [wire EXCEPT ![e] = v]
                    /\ UNCHANGED <<at, got, progress, up, ended>>
               ELSE IF message = Absent
               THEN Close(e, "refused") /\ UNCHANGED <<at, got, progress>>
               ELSE /\ buf' = [buf EXCEPT ![e] = <<>>] /\ wire' = [wire EXCEPT ![e] = v]
                    /\ got' = [got EXCEPT ![e] = Append(@, message)]
                    /\ at' = [at EXCEPT ![e] = @ + 1]
                    /\ add_progress(e, message)
                    /\ UNCHANGED <<up, ended>>
    BY <1>3, <1>5, <1>7 DEF RecvSome, Current
  <1>11. script' = script /\ sent' = sent
    BY DEF RecvSome
  <1>12. /\ q \in Seq(Bytes) /\ v \in Seq(Bytes)
         /\ Len(q) < Wanted(type, q) => InStep(s, e, k, q, v, j, m, up) /\ Len(q) < Len(s[k].bytes)
         /\ ~(Len(q) < Wanted(type, q)) =>
               q = s[k].bytes /\ InStep(s, e, k + 1, <<>>, v, j, m, up)
    <2>1. n \in 1 .. Len(w) /\ Taken(b, w, n, q, v) /\ Len(q) <= Wanted(s[k].msg.type, b)
      BY <1>10, Zenon DEF Taken
    <2>2. /\ q \in Seq(Bytes) /\ v \in Seq(Bytes)
          /\ Len(q) < Wanted(s[k].msg.type, q) =>
                InStep(s, e, k, q, v, j, m, up) /\ Len(q) < Len(s[k].bytes)
          /\ ~(Len(q) < Wanted(s[k].msg.type, q)) =>
                q = s[k].bytes /\ InStep(s, e, k + 1, <<>>, v, j, m, up)
      BY <1>4, <1>6, <1>8, <1>9, <2>1, ReaderTurns
    <2> QED
      BY <1>10, <2>2, Zenon
  <1>13. Len(q) + Len(v) = Len(b) + Len(w)
    <2>1. n \in 0 .. Len(w)
      BY <1>10
    <2>2. Len(b \o SubSeq(w, 1, n)) = Len(b) + n /\ Len(SubSeq(w, n + 1, Len(w))) = Len(w) - n
      BY <1>8, <2>1, ReaderCollects, TwoParts
    <2>3. Len(q) = Len(b) + n /\ Len(v) = Len(w) - n
      BY <1>10, <2>2, Zenon
    <2>4. Len(b) \in Nat /\ Len(w) \in Nat /\ n \in Nat
      BY <2>1
    <2> QED
      BY <2>3, <2>4
  <1>14. k \in 1 .. Len(script) /\ k = at[e] /\ script[k].by # e /\ ended[e] = "no"
    BY <1>3, <1>5, Zenon
  <1>15. CASE Len(q) < Wanted(type, q)
    <2>1. /\ buf' = [buf EXCEPT ![e] = q] /\ wire' = [wire EXCEPT ![e] = v]
          /\ at' = at /\ got' = got /\ progress' = progress /\ up' = up /\ ended' = ended
      BY <1>10, <1>15, Zenon
    <2>2. buf'[e] = q /\ wire'[e] = v /\ buf'[p] = buf[p] /\ wire'[p] = wire[p]
      BY <1>1, <1>2, <2>1 DEF WireTypes
    <2>3. CollectedSome(e, k)
      BY <1>2, <1>7, <1>11, <1>13, <1>14, <2>1, <2>2, Zenon DEF CollectedSome
    <2> QED
      BY <2>3, Zenon
  <1>16. CASE ~(Len(q) < Wanted(type, q))
    <2>1. k > 2 => e = "receiver" /\ got[e][1] = script[1].msg
      <3>1. s[k].by = IF k = 2 THEN "receiver" ELSE "sender"
        BY <1>1, <1>3, ByWhom
      <3>2. k > 2 => e = "receiver"
        BY <1>5, <3>1 DEF Ends
      <3> QED
        BY <1>1, <1>5, <3>2 DEF GotInv
    <2>2. message = s[k].msg /\ message \in Message /\ message # Absent
      <3>1. k \in 1 .. Len(script)
        BY <1>3
      <3>2. Deserialized(e, script[k].msg, script[k].bytes) = script[k].msg
        BY <1>1, <2>1, <3>1, Understood
      <3>3. Sound(s[k])
        BY <1>4, Zenon DEF Flow
      <3>4. message = s[k].msg
        BY <1>3, <1>10, <1>12, <1>16, <3>2, Zenon
      <3> QED
        BY <3>3, <3>4, Zenon DEF Sound
    <2>3. /\ buf' = [buf EXCEPT ![e] = <<>>] /\ wire' = [wire EXCEPT ![e] = v]
          /\ got' = [got EXCEPT ![e] = Append(@, message)]
          /\ at' = [at EXCEPT ![e] = @ + 1] /\ add_progress(e, message)
          /\ up' = up /\ ended' = ended
      BY <1>10, <1>16, <2>2, Zenon
    <2>4. /\ buf'[e] = <<>> /\ wire'[e] = v /\ buf'[p] = buf[p] /\ wire'[p] = wire[p]
          /\ at' = [at EXCEPT ![e] = k + 1]
      BY <1>1, <1>2, <1>5, <2>3 DEF WireTypes
    <2>5. got' = [got EXCEPT ![e] = Append(@, script[k].msg)]
      BY <1>3, <2>2, <2>3, Zenon
    <2>6. Len(script[k].bytes) + Len(wire'[e]) = Len(b) + Len(w) /\ Len(wire'[e]) \in Nat
      <3>1. q = script[k].bytes
        BY <1>3, <1>12, <1>16, Zenon
      <3>2. Len(v) \in Nat
        BY <1>12
      <3> QED
        BY <1>13, <2>4, <3>1, <3>2, Zenon
    <2>7. CollectedAll(e, k)
      BY <1>2, <1>7, <1>11, <1>14, <2>3, <2>4, <2>5, <2>6, Zenon DEF CollectedAll
    <2> QED
      BY <2>7, Zenon
  <1> QED
    BY <1>15, <1>16

(* An end has read the messages to it that it is past. *)
CountInv == \A e \in Ends : Len(got[e]) = Before(e, at[e])

(* The inbox of an end, and where it is in it. *)
Placed(e) ==
    /\ Flow(script) /\ Sorted(script, e)
    /\ at[e] \in 1 .. Len(script) + 1 /\ got[e] \in Seq(Message)
    /\ buf[e] \in Seq(Bytes) /\ wire[e] \in Seq(Bytes)
    /\ Mails(Inbox(script, e))
    /\ Len(got[e]) \in 0 .. Len(Inbox(script, e))
    /\ Len(buf[e]) + Len(wire[e]) \in Nat

LEMMA EndsPlaced ==
    ASSUME Requestable, NEW x \in Exchanges, WireInvOf(x), CountInv, NEW e \in Ends
    PROVE  Placed(e)
PROOF
  <1>1. Sorted(script, e)
    BY InboxSorted, Zenon DEF WireInvOf
  <1>2. /\ Flow(script) /\ at[e] \in 1 .. Len(script) + 1
        /\ buf[e] \in Seq(Bytes) /\ wire[e] \in Seq(Bytes)
    BY AtEnd, Zenon
  <1>3. got[e] \in Seq(Message)
    BY DEF WireInvOf, WireTypes
  <1>4. Len(buf[e]) + Len(wire[e]) \in Nat
    <2>1. PICK b \in Seq(Bytes), w \in Seq(Bytes) : b = buf[e] /\ w = wire[e]
      BY <1>2, Zenon
    <2>2. Len(b) + Len(w) \in Nat
      OBVIOUS
    <2> QED
      BY <2>1, <2>2
  <1>5. Len(got[e]) \in 0 .. Len(Inbox(script, e))
    <2>1. Len(got[e]) = Before(e, at[e])
      BY Zenon DEF CountInv
    <2>2. Before(e, at[e]) \in 0 .. Len(Inbox(script, e))
      BY <1>1, <1>2, Zenon DEF Sorted
    <2> QED
      BY <2>1, <2>2, Zenon
  <1>6. Mails(Inbox(script, e))
    BY <1>1, Zenon DEF Sorted
  <1> QED
    BY <1>1, <1>2, <1>3, <1>4, <1>5, <1>6, Zenon DEF Placed

(* The messages of an exchange, and those of an inbox, are fewer than Plenty. *)
LEMMA FewMessages ==
    ASSUME NEW x \in Exchanges
    PROVE  Len(ScriptOf(x)) \in Nat /\ Len(ScriptOf(x)) < Plenty /\ Plenty \in Nat
PROOF
  <1>1. Len(ScriptOf(x)) = LeftOf(x) + 3 /\ LeftOf(x) \in Nat
    BY ScriptShape, FileFacts
  <1>2. PICK c \in Nat : c = CountOf(x) /\ LeftOf(x) <= c
    BY FileFacts
  <1>3. c + 3 < Plenty /\ Plenty \in Nat
    <2>1. x[2] \in FileSizes
      BY DEF Exchanges
    <2> QED
      BY <1>2, <2>1, PlentyAssumption DEF CountOf
  <1> QED
    BY <1>1, <1>2, <1>3

(* A message is sent: when the kernel has its last byte, it is in the queue.  *)
LEMMA QueueWhenSent ==
    ASSUME Requestable, NEW x \in Exchanges, WireInvOf(x), CountInv, NEW e \in Ends,
           NEW k, NEW m, NEW d, Handed(e, k, m, d)
    PROVE  /\ Queue(e)' = Queue(e)
           /\ IF up /\ m + d = Len(script[k].bytes)
              THEN /\ Queue(Peer(e))' = Append(Queue(Peer(e)), script[k].msg)
                   /\ Len(Queue(Peer(e))) < Plenty
              ELSE Queue(Peer(e))' = Queue(Peer(e))
PROOF
  <1>1. PICK p \in Ends : p = Peer(e) /\ Peer(p) = e
    BY Peers, Zenon
  <1>2. /\ k \in 1 .. Len(script) /\ k = at[e] /\ script[k].by = e
        /\ m \in Nat /\ m = sent[e] /\ d \in Nat /\ m + d <= Len(script[k].bytes)
        /\ script' = script /\ buf' = buf /\ got' = got /\ wire'[e] = wire[e]
        /\ up => Len(wire'[p]) = Len(wire[p]) + d
        /\ ~up => wire'[p] = wire[p]
    BY <1>1, Zenon DEF Handed
  <1>3. Queue(e)' = Queue(e)
    BY <1>2, Zenon DEF Queue
  <1>4. CASE ~up
    <2>1. Queue(p)' = Queue(p)
      BY <1>2, <1>4, Zenon DEF Queue
    <2> QED
      BY <1>1, <1>3, <1>4, <2>1, Zenon
  <1>5. CASE up
    <2>1. Placed(p)
      BY EndsPlaced
    <2>2. PICK inbox, g, n, r : /\ inbox = Inbox(script, p) /\ g = Len(got[p])
                                /\ n = Len(buf[p]) + Len(wire[p])
                                /\ r = Len(buf'[p]) + Len(wire'[p])
      OBVIOUS
    <2>3. n \in Nat /\ r = n + d
      <3>1. PICK a \in Nat, b \in Nat : a = Len(buf[p]) /\ b = Len(wire[p])
        <4>1. Len(buf[p]) \in Nat /\ Len(wire[p]) \in Nat
          BY <2>1 DEF Placed
        <4> QED
          BY <4>1, Zenon
      <3>2. n = a + b /\ r = a + (b + d)
        BY <1>2, <1>5, <2>2, <3>1, Zenon
      <3>3. d \in Nat
        BY <1>2, Zenon
      <3> QED
        BY <3>2, <3>3
    <2>4. PICK h : h = Before(p, k)
      OBVIOUS
    <2>5. Expected(script, p, k) /\ m < Len(script[k].bytes) /\ k \in 1 .. Len(script) + 1
      <3>1. Flow(script)
        BY <2>1, Zenon DEF Placed
      <3>2. Expected(script, p, k) /\ Written(script, e, k)
        BY <1>1, <1>2, <3>1, Turns, Zenon
      <3>3. Sending(script, e, k, m)
        BY <1>2, AtEnd, Zenon
      <3>4. m < Len(script[k].bytes)
        BY <3>2, <3>3 DEF Sending
      <3> QED
        BY <1>2, <3>2, <3>4, AtEnd, Zenon
    <2>6. LastWhole(inbox, g, n, h) /\ Bounds(inbox)[g] + n = Bounds(inbox)[h] + m
      <3>1. ended[p] = "no" /\ up = TRUE
        BY <1>5 DEF WireInvOf, WireTypes, EndInv
      <3>2. InStep(script, p, at[p], buf[p], wire[p], k, m, TRUE)
        BY <1>1, <1>2, <3>1, AtEnd, Zenon
      <3>3. PICK s, i, b, w : s = script /\ i = at[p] /\ b = buf[p] /\ w = wire[p]
        OBVIOUS
      <3>4. /\ Flow(s) /\ Sorted(s, p) /\ i \in 1 .. Len(s) + 1
            /\ b \in Seq(Bytes) /\ w \in Seq(Bytes) /\ InStep(s, p, i, b, w, k, m, TRUE)
        BY <2>1, <3>2, <3>3, Zenon DEF Placed
      <3>5. k \in 1 .. Len(s) + 1 /\ m \in Nat /\ Midway(s, p, k, m)
        BY <1>2, <2>5, <3>3, Zenon DEF Midway
      <3>6. AllSent(s, p, Before(p, i), Len(b) + Len(w), Before(p, k), m)
        BY <3>4, <3>5, WholeAreSent
      <3>7. g = Before(p, i)
        BY <2>2, <3>3, Zenon DEF CountInv
      <3> QED
        BY <2>2, <2>4, <3>3, <3>6, <3>7, Zenon DEF AllSent
    <2>7. h < Len(inbox) /\ inbox[h + 1] = script[k]
      BY <1>2, <2>1, <2>2, <2>4, <2>5, Zenon DEF Placed, Sorted
    <2>8. /\ m + d < Len(inbox[h + 1].bytes) => LastWhole(inbox, g, n + d, h)
          /\ m + d = Len(inbox[h + 1].bytes) =>
                /\ LastWhole(inbox, g, n + d, h + 1)
                /\ Slice(inbox, g, h + 1) = Append(Slice(inbox, g, h), inbox[h + 1].msg)
      <3>1. m \in Nat /\ d \in Nat /\ m + d <= Len(inbox[h + 1].bytes)
        BY <1>2, <2>7, Zenon
      <3> QED
        BY <2>6, <2>7, <3>1, LastIsSent
    <2>9. Queue(p) = Slice(inbox, g, h)
      BY <2>2, <2>6, WaitsWhole, Zenon DEF Queue
    <2>10. Queue(p)' = Waiting(inbox, g, n + d)
      BY <1>2, <2>2, <2>3, Zenon DEF Queue
    <2>11. CASE m + d = Len(script[k].bytes)
      <3>1. Queue(p)' = Append(Queue(p), script[k].msg)
        BY <2>7, <2>8, <2>9, <2>10, <2>11, WaitsWhole, Zenon
      <3>2. Len(Queue(p)) < Plenty
        <4>1. PICK M \in Nat, N \in Nat : M = Len(inbox) /\ N = Len(script) /\ M < N /\ N < Plenty
          <5>1. Len(inbox) \in Nat /\ Len(inbox) < Len(script)
            BY <2>1, <2>2 DEF Placed, Sorted, Mails
          <5>2. Len(script) \in Nat /\ Len(script) < Plenty
            BY FewMessages, Zenon DEF WireInvOf
          <5> QED
            BY <5>1, <5>2, Zenon
        <4>2. g \in 0 .. M /\ h \in g .. M
          BY <2>6, <4>1, Zenon DEF LastWhole
        <4>3. Len(Slice(inbox, g, h)) = h - g
          BY <4>1, <4>2, SliceIs, Zenon
        <4>4. h - g < Plenty
          BY <4>1, <4>2, FewMessages
        <4> QED
          BY <2>9, <4>3, <4>4, Zenon
      <3> QED
        BY <1>1, <1>3, <1>5, <2>11, <3>1, <3>2, Zenon
    <2>12. CASE m + d # Len(script[k].bytes)
      <3>1. m + d < Len(inbox[h + 1].bytes)
        <4>1. PICK l \in Nat, c \in Nat : l = Len(script[k].bytes) /\ c = m + d
          <5>1. Advances(script, e, k)
            BY <1>2, <2>1, NextComing DEF Placed
          <5>2. Len(script[k].bytes) \in Nat
            BY <5>1 DEF Advances
          <5>3. m + d \in Nat
            BY <1>2
          <5> QED
            BY <5>2, <5>3, Zenon
        <4>2. c <= l /\ c # l
          BY <1>2, <2>12, <4>1, Zenon
        <4>3. c < l
          BY <4>2
        <4> QED
          BY <2>7, <4>1, <4>3, Zenon
      <3>2. Queue(p)' = Queue(p)
        BY <2>8, <2>9, <2>10, <3>1, WaitsWhole, Zenon
      <3> QED
        BY <1>1, <1>3, <2>12, <3>2, Zenon
    <2> QED
      BY <2>11, <2>12
  <1> QED
    BY <1>4, <1>5

(* Some of a message is collected: the queues are the same. *)
LEMMA QueueWhenCollected ==
    ASSUME NEW e \in Ends, NEW k, CollectedSome(e, k)
    PROVE  Queue(e)' = Queue(e) /\ Queue(Peer(e))' = Queue(Peer(e))
PROOF
  <1>1. /\ script' = script /\ got' = got
        /\ buf'[Peer(e)] = buf[Peer(e)] /\ wire'[Peer(e)] = wire[Peer(e)]
        /\ Len(buf'[e]) + Len(wire'[e]) = Len(buf[e]) + Len(wire[e])
    BY Zenon DEF CollectedSome
  <1> QED
    BY <1>1, Zenon DEF Queue

(* A message is read: it was the first of the queue. *)
LEMMA QueueWhenRead ==
    ASSUME Requestable, NEW x \in Exchanges, WireInvOf(x), CountInv, NEW e \in Ends,
           NEW k, CollectedAll(e, k)
    PROVE  /\ Queue(e) # <<>> /\ Head(Queue(e)) = script[k].msg /\ Queue(e)' = Tail(Queue(e))
           /\ Queue(Peer(e))' = Queue(Peer(e))
PROOF
  <1>1. PICK p \in Ends : p = Peer(e) /\ p # e
    BY Peers, Zenon
  <1>2. /\ k \in 1 .. Len(script) /\ k = at[e] /\ script[k].by # e
        /\ script' = script /\ got' = [got EXCEPT ![e] = Append(@, script[k].msg)]
        /\ buf'[p] = buf[p] /\ wire'[p] = wire[p] /\ buf'[e] = <<>> /\ Len(wire'[e]) \in Nat
        /\ Len(script[k].bytes) + Len(wire'[e]) = Len(buf[e]) + Len(wire[e])
    BY <1>1, Zenon DEF CollectedAll
  <1>3. got \in [Ends -> Seq(Message)]
    BY DEF WireInvOf, WireTypes
  <1>4. Queue(p)' = Queue(p)
    <2>1. got'[p] = got[p]
      BY <1>1, <1>2, <1>3
    <2> QED
      BY <1>2, <2>1, Zenon DEF Queue
  <1>5. Placed(e)
    BY EndsPlaced
  <1>6. Sound(script[k])
    BY <1>2, <1>5, Zenon DEF Placed, Flow
  <1>7. PICK inbox, g, n : /\ inbox = Inbox(script, e) /\ g = Len(got[e])
                           /\ n = Len(buf[e]) + Len(wire[e])
    OBVIOUS
  <1>8. PICK l \in Nat, r \in Nat : l = Len(script[k].bytes) /\ r = Len(wire'[e]) /\ n = l + r
    <2>1. Len(script[k].bytes) \in Nat
      BY <1>6 DEF Sound
    <2> QED
      BY <1>2, <1>7, <2>1, Zenon
  <1>9. Mails(inbox) /\ g \in 0 .. Len(inbox) /\ n \in Nat
    BY <1>5, <1>7, Zenon DEF Placed
  <1>10. PICK h : LastWhole(inbox, g, n, h)
    BY <1>9, SomeFit, Zenon
  <1>11. g < Len(inbox) /\ inbox[g + 1] = script[k]
    <2>1. Expected(script, e, k)
      BY <1>2, <1>5, Turns, Zenon DEF Placed
    <2>2. g = Before(e, k)
      BY <1>2, <1>7, Zenon DEF CountInv
    <2> QED
      BY <1>2, <1>5, <1>7, <2>1, <2>2, Zenon DEF Placed, Sorted
  <1>12. l = Len(inbox[g + 1].bytes) /\ l <= n /\ n - l = r
    <2>1. n = l + r
      BY <1>8, Zenon
    <2>2. l <= n /\ n - l = r
      BY <2>1
    <2> QED
      BY <1>8, <1>11, <2>2, Zenon
  <1>13. /\ LastWhole(inbox, g + 1, n - l, h)
         /\ Slice(inbox, g, h) # <<>>
         /\ Head(Slice(inbox, g, h)) = inbox[g + 1].msg
         /\ Slice(inbox, g + 1, h) = Tail(Slice(inbox, g, h))
    BY <1>10, <1>11, <1>12, FirstIsRead
  <1>14. Queue(e) = Slice(inbox, g, h)
    BY <1>7, <1>10, WaitsWhole, Zenon DEF Queue
  <1>15. Len(got'[e]) = g + 1
    <2>1. got[e] \in Seq(Message) /\ got'[e] = Append(got[e], script[k].msg)
      BY <1>2, <1>3
    <2>2. script[k].msg \in Message
      BY <1>6, Zenon DEF Sound
    <2> QED
      BY <1>7, <2>1, <2>2
  <1>16. Queue(e)' = Slice(inbox, g + 1, h)
    <2>1. Len(buf'[e]) + Len(wire'[e]) = n - l
      <3>1. Len(buf'[e]) = 0
        BY <1>2
      <3>2. 0 + r = r
        OBVIOUS
      <3> QED
        BY <1>8, <1>12, <3>1, <3>2, Zenon
    <2>2. Queue(e)' = Waiting(inbox, g + 1, n - l)
      BY <1>2, <1>7, <1>15, <2>1, Zenon DEF Queue
    <2> QED
      BY <1>13, <2>2, WaitsWhole, Zenon
  <1> QED
    BY <1>1, <1>4, <1>11, <1>13, <1>14, <1>16, Zenon

(* An end closes: nothing is left for it. *)
LEMMA QueueWhenClosed ==
    ASSUME Requestable, NEW x \in Exchanges, WireInvOf(x), CountInv, NEW e \in Ends, NEW how,
           Close(e, how), UNCHANGED <<script, got>>
    PROVE  Queue(e)' = <<>> /\ Queue(Peer(e))' = Queue(Peer(e))
PROOF
  <1>1. PICK p \in Ends : p = Peer(e) /\ p # e
    BY Peers, Zenon
  <1>2. /\ script' = script /\ got' = got
        /\ wire' = [wire EXCEPT ![e] = <<>>] /\ buf' = [buf EXCEPT ![e] = <<>>]
    BY DEF Close
  <1>3. wire \in [Ends -> Seq(Bytes)] /\ buf \in [Ends -> Seq(Bytes)]
    BY DEF WireInvOf, WireTypes
  <1>4. wire'[e] = <<>> /\ buf'[e] = <<>> /\ wire'[p] = wire[p] /\ buf'[p] = buf[p]
    BY <1>1, <1>2, <1>3
  <1>5. Queue(p)' = Queue(p)
    BY <1>2, <1>4, Zenon DEF Queue
  <1>6. Len(buf'[e]) + Len(wire'[e]) = 0
    BY <1>4
  <1>7. Queue(e)' = Waiting(Inbox(script, e), Len(got[e]), 0)
    BY <1>2, <1>6, Zenon DEF Queue
  <1>8. Mails(Inbox(script, e)) /\ Len(got[e]) \in 0 .. Len(Inbox(script, e))
    BY EndsPlaced, Zenon DEF Placed
  <1>9. PICK inbox, g : inbox = Inbox(script, e) /\ g = Len(got[e])
    OBVIOUS
  <1>10. Waiting(inbox, g, 0) = <<>>
    BY <1>8, <1>9, NothingFits, Zenon
  <1> QED
    BY <1>1, <1>5, <1>7, <1>9, <1>10, Zenon

(* The connection breaks: the first of the messages are left. *)
LEMMA QueueWhenBroken ==
    ASSUME Requestable, NEW x \in Exchanges, WireInvOf(x), CountInv, Break, NEW e \in Ends
    PROVE  \E i \in 0 .. Len(Queue(e)) : Queue(e)' = SubSeq(Queue(e), 1, i)
PROOF
  <1>1. /\ script' = script /\ buf' = buf /\ got' = got
        /\ \A f \in Ends : wire'[f] \in Prefixes(wire[f])
    <2>1. wire' \in {w \in [Ends -> UNION {Prefixes(wire[f]) : f \in Ends}] :
                        \A f \in Ends : w[f] \in Prefixes(wire[f])}
      BY Zenon DEF Break
    <2>2. \A f \in Ends : wire'[f] \in Prefixes(wire[f])
      BY <2>1
    <2> QED
      BY <2>2 DEF Break
  <1>2. Placed(e)
    BY EndsPlaced
  <1>3. PICK w \in Seq(Bytes), b \in Seq(Bytes) : w = wire[e] /\ b = buf[e]
    BY <1>2, Zenon DEF Placed
  <1>4. PICK v : v = wire'[e] /\ v \in Prefixes(w)
    BY <1>1, <1>3, Zenon
  <1>5. PICK t \in 0 .. Len(w) : v = SubSeq(w, 1, t)
    BY <1>4 DEF Prefixes
  <1>6. Len(SubSeq(w, 1, t)) = t
    BY TwoParts
  <1>7. PICK inbox, g, n, r : /\ inbox = Inbox(script, e) /\ g = Len(got[e])
                              /\ n = Len(b) + Len(w) /\ r = Len(b) + t
    OBVIOUS
  <1>8. r \in 0 .. n /\ n \in Nat
    <2>1. Len(b) \in Nat /\ Len(w) \in Nat /\ t \in 0 .. Len(w)
      OBVIOUS
    <2> QED
      BY <1>7, <2>1
  <1>9. Mails(inbox) /\ g \in 0 .. Len(inbox)
    BY <1>2, <1>7, Zenon DEF Placed
  <1>10. PICK h : LastWhole(inbox, g, n, h)
    BY <1>8, <1>9, SomeFit, Zenon
  <1>11. Queue(e) = Slice(inbox, g, h)
    BY <1>3, <1>7, <1>10, WaitsWhole, Zenon DEF Queue
  <1>12. Queue(e)' = Waiting(inbox, g, r)
    BY <1>1, <1>3, <1>4, <1>5, <1>6, <1>7, Zenon DEF Queue
  <1>13. \E i \in 0 .. Len(Slice(inbox, g, h)) :
            Waiting(inbox, g, r) = SubSeq(Slice(inbox, g, h), 1, i)
    BY <1>8, <1>10, FirstAreLeft
  <1> QED
    BY <1>11, <1>12, <1>13, Zenon

-----------------------------------------------------------------------------
(* Steps of the queues *)

LEMMA StepSendsToReceiver ==
    ASSUME NEW msg \in Sendable("receiver"), up = TRUE, up' = up, ended' = ended, got' = got,
           Len(Queue("receiver")) < Plenty,
           Queue("receiver")' = Append(Queue("receiver"), msg), Queue("sender")' = Queue("sender")
    PROVE  LinkStep
PROOF
  <1>1. Link!SendToReceiver(Sender, msg)
    BY DEF Link!SendToReceiver, Serving
  <1> QED
    BY <1>1, Zenon DEF LinkStep

LEMMA StepSendsToSender ==
    ASSUME NEW msg \in Sendable("sender"), up = TRUE, up' = up, ended' = ended, got' = got,
           ended["receiver"] = "no",
           Queue("sender")' = Append(Queue("sender"), msg), Queue("receiver")' = Queue("receiver")
    PROVE  LinkStep
PROOF
  <1>1. Serving
    BY DEF Serving
  <1>2. Link!SendToSender(msg)
    BY <1>1 DEF Link!SendToSender, Serving
  <1> QED
    BY <1>1, <1>2, Zenon DEF LinkStep

LEMMA StepReadsBySender ==
    ASSUME Queue("sender") # <<>>, Queue("sender")' = Tail(Queue("sender")),
           got' = [got EXCEPT !["sender"] = Append(@, Head(Queue("sender")))],
           up' = up, ended' = ended, Queue("receiver")' = Queue("receiver")
    PROVE  LinkStep
PROOF
  <1>1. Link!RecvFromReceiver(Sender)
    BY DEF Link!RecvFromReceiver, Serving
  <1> QED
    BY <1>1, Zenon DEF LinkStep, Reads

LEMMA StepReadsByReceiver ==
    ASSUME Queue("receiver") # <<>>, Queue("receiver")' = Tail(Queue("receiver")),
           got' = [got EXCEPT !["receiver"] = Append(@, Head(Queue("receiver")))],
           up' = up, ended' = ended, ended["receiver"] = "no", Queue("sender")' = Queue("sender")
    PROVE  LinkStep
PROOF
  <1>1. Serving
    BY DEF Serving
  <1>2. Link!RecvFromSender
    BY <1>1 DEF Link!RecvFromSender, Serving
  <1> QED
    BY <1>1, <1>2, Zenon DEF LinkStep, Reads

LEMMA StepClosesSender ==
    ASSUME up' = FALSE, Queue("sender")' = <<>>, Queue("receiver")' = Queue("receiver"),
           ended'["receiver"] = ended["receiver"], got' = got
    PROVE  LinkStep
PROOF
  <1>1. Link!CloseSender(Sender)
    BY DEF Link!CloseSender, Serving
  <1> QED
    BY <1>1, Zenon DEF LinkStep

LEMMA StepClosesReceiver ==
    ASSUME up' = FALSE, Queue("receiver")' = <<>>, Queue("sender")' = Queue("sender"),
           ended'["receiver"] # "no", got' = got
    PROVE  LinkStep
PROOF
  <1>1. Link!CloseReceiver
    BY DEF Link!CloseReceiver, Serving
  <1> QED
    BY <1>1, Zenon DEF LinkStep

LEMMA StepLoses ==
    ASSUME up = TRUE, up' = FALSE, ended' = ended, got' = got,
           NEW i \in 0 .. Len(Queue("receiver")), NEW j \in 0 .. Len(Queue("sender")),
           Queue("receiver")' = SubSeq(Queue("receiver"), 1, i),
           Queue("sender")' = SubSeq(Queue("sender"), 1, j)
    PROVE  LinkStep
PROOF
  <1>1. Link!LoseConnection(Sender)
    BY DEF Link!LoseConnection, Link!Prefixes, Serving
  <1> QED
    BY <1>1, Zenon DEF LinkStep

-----------------------------------------------------------------------------
(* Every end has read what it is past. *)

LEMMA CountsInitially == ASSUME Init PROVE CountInv
PROOF
  <1>1. \A e \in Ends : at[e] = 1 /\ got[e] = <<>>
    BY DEF Init
  <1>2. \A e \in Ends : Before(e, 1) = 0
    BY DEF Before
  <1> QED
    BY <1>1, <1>2 DEF CountInv

LEMMA CountsSame ==
    ASSUME CountInv, at' = at, got' = got
    PROVE  CountInv'
PROOF
  BY Zenon DEF CountInv

LEMMA CountsWhenSent ==
    ASSUME Requestable, NEW x \in Exchanges, WireInvOf(x), CountInv, NEW e \in Ends,
           NEW k, NEW m, NEW d, Handed(e, k, m, d)
    PROVE  CountInv'
PROOF
  <1>1. /\ k \in 1 .. Len(script) /\ k = at[e] /\ script[k].by = e /\ got' = got
        /\ at' = IF m + d = Len(script[k].bytes) THEN [at EXCEPT ![e] = k + 1] ELSE at
    BY Zenon DEF Handed
  <1>2. CASE at' = at
    BY <1>1, <1>2, CountsSame, Zenon
  <1>3. CASE at' = [at EXCEPT ![e] = k + 1]
    <2>1. DOMAIN at = Ends
      BY DEF WireInvOf, WireTypes
    <2>2. Placed(e)
      BY EndsPlaced
    <2>3. ~Expected(script, e, k)
      BY <1>1, Zenon DEF Expected
    <2>4. Before(e, k + 1) = Before(e, k)
      BY <1>1, <2>2, <2>3, Zenon DEF Placed, Sorted
    <2>5. \A f \in Ends : at'[f] = IF f = e THEN k + 1 ELSE at[f]
      BY <1>3, <2>1
    <2>6. ASSUME NEW f \in Ends PROVE Len(got'[f]) = Before(f, at'[f])
      <3>1. Len(got[f]) = Before(f, at[f])
        BY Zenon DEF CountInv
      <3>2. Before(f, at'[f]) = Before(f, at[f])
        BY <1>1, <2>4, <2>5, Zenon
      <3> QED
        BY <1>1, <3>1, <3>2, Zenon
    <2> QED
      BY <2>6, Zenon DEF CountInv
  <1> QED
    BY <1>1, <1>2, <1>3, Zenon

LEMMA CountsWhenRead ==
    ASSUME Requestable, NEW x \in Exchanges, WireInvOf(x), CountInv, NEW e \in Ends,
           NEW k, CollectedAll(e, k)
    PROVE  CountInv'
PROOF
  <1>1. /\ k \in 1 .. Len(script) /\ k = at[e] /\ script[k].by # e
        /\ got' = [got EXCEPT ![e] = Append(@, script[k].msg)]
        /\ at' = [at EXCEPT ![e] = k + 1]
    BY Zenon DEF CollectedAll
  <1>2. DOMAIN at = Ends /\ got \in [Ends -> Seq(Message)]
    BY DEF WireInvOf, WireTypes
  <1>3. Placed(e)
    BY EndsPlaced
  <1>4. Expected(script, e, k)
    BY <1>1, <1>3, Turns, Zenon DEF Placed
  <1>5. Before(e, k + 1) = Before(e, k) + 1
    BY <1>1, <1>3, <1>4, Zenon DEF Placed, Sorted
  <1>6. \A f \in Ends : at'[f] = IF f = e THEN k + 1 ELSE at[f]
    BY <1>1, <1>2
  <1>7. \A f \in Ends : f # e => got'[f] = got[f]
    BY <1>1, <1>2
  <1>8. Len(got'[e]) = Len(got[e]) + 1
    <2>1. got[e] \in Seq(Message) /\ got'[e] = Append(got[e], script[k].msg)
      BY <1>1, <1>2
    <2>2. script[k].msg \in Message
      BY <1>1, <1>3, Zenon DEF Placed, Flow, Sound
    <2> QED
      BY <2>1, <2>2
  <1>9. ASSUME NEW f \in Ends PROVE Len(got'[f]) = Before(f, at'[f])
    <2>1. Len(got[f]) = Before(f, at[f])
      BY Zenon DEF CountInv
    <2>2. CASE f = e
      BY <1>1, <1>5, <1>6, <1>8, <2>1, <2>2, Zenon
    <2>3. CASE f # e
      BY <1>6, <1>7, <2>1, <2>3, Zenon
    <2> QED
      BY <2>2, <2>3
  <1> QED
    BY <1>9, Zenon DEF CountInv

-----------------------------------------------------------------------------
(* Every step of the bytes is a step of the queues, or none. *)

Refines == CountInv' /\ (LinkStep \/ UNCHANGED <<Link!linkVars, got>>)

LEMMA SameQueues ==
    ASSUME Queue("sender")' = Queue("sender"), Queue("receiver")' = Queue("receiver"),
           up' = up, ended' = ended, got' = got
    PROVE  UNCHANGED <<Link!linkVars, got>>
PROOF
  BY DEF Link!linkVars, Serving

LEMMA SendRefines ==
    ASSUME Requestable, NEW x \in Exchanges, WireInvOf(x), CountInv, NEW e \in Ends, SendSome(e)
    PROVE  Refines
PROOF
  <1>1. PICK k, m, d : Handed(e, k, m, d)
    BY SendTurn
  <1>2. CountInv'
    BY <1>1, CountsWhenSent
  <1>3. /\ Queue(e)' = Queue(e)
        /\ IF up /\ m + d = Len(script[k].bytes)
           THEN /\ Queue(Peer(e))' = Append(Queue(Peer(e)), script[k].msg)
                /\ Len(Queue(Peer(e))) < Plenty
           ELSE Queue(Peer(e))' = Queue(Peer(e))
    BY <1>1, QueueWhenSent
  <1>4. k \in 1 .. Len(script) /\ script[k].by = e /\ up' = up /\ got' = got /\ ended' = ended
    BY <1>1, Zenon DEF Handed
  <1>5. (e = "sender" /\ Peer(e) = "receiver") \/ (e = "receiver" /\ Peer(e) = "sender")
    BY DEF Ends, Peer
  <1>6. CASE up /\ m + d = Len(script[k].bytes)
    <2>1. /\ Queue(Peer(e))' = Append(Queue(Peer(e)), script[k].msg)
          /\ Len(Queue(Peer(e))) < Plenty
      BY <1>3, <1>6, Zenon
    <2>2. up = TRUE /\ ended["receiver"] = "no"
      BY <1>6 DEF WireInvOf, WireTypes, EndInv, Ends
    <2>3. PICK msg : msg = script[k].msg
      OBVIOUS
    <2>4. msg \in Sendable(Peer(e))
      <3>1. DOMAIN script = 1 .. Len(script)
        BY AtEnd DEF Flow
      <3>2. script[k].by # Peer(e)
        BY <1>4, <1>5
      <3> QED
        BY <1>4, <2>3, <3>1, <3>2, Zenon DEF Sendable
    <2>5. CASE e = "sender" /\ Peer(e) = "receiver"
      <3>1. /\ msg \in Sendable("receiver") /\ Len(Queue("receiver")) < Plenty
            /\ Queue("receiver")' = Append(Queue("receiver"), msg)
            /\ Queue("sender")' = Queue("sender")
        BY <1>3, <2>1, <2>3, <2>4, <2>5, Zenon
      <3>2. LinkStep
        BY <1>4, <2>2, <3>1, StepSendsToReceiver, Zenon
      <3> QED
        BY <1>2, <3>2, Zenon DEF Refines
    <2>6. CASE e = "receiver" /\ Peer(e) = "sender"
      <3>1. /\ msg \in Sendable("sender")
            /\ Queue("sender")' = Append(Queue("sender"), msg)
            /\ Queue("receiver")' = Queue("receiver")
        BY <1>3, <2>1, <2>3, <2>4, <2>6, Zenon
      <3>2. LinkStep
        BY <1>4, <2>2, <3>1, StepSendsToSender, Zenon
      <3> QED
        BY <1>2, <3>2, Zenon DEF Refines
    <2> QED
      BY <1>5, <2>5, <2>6
  <1>7. CASE ~(up /\ m + d = Len(script[k].bytes))
    <2>1. Queue(Peer(e))' = Queue(Peer(e))
      BY <1>3, <1>7, Zenon
    <2>2. Queue("sender")' = Queue("sender") /\ Queue("receiver")' = Queue("receiver")
      BY <1>3, <1>5, <2>1, Zenon
    <2>3. UNCHANGED <<Link!linkVars, got>>
      BY <1>4, <2>2, SameQueues, Zenon
    <2> QED
      BY <1>2, <2>3, Zenon DEF Refines
  <1> QED
    BY <1>6, <1>7

LEMMA RecvRefines ==
    ASSUME Requestable, NEW x \in Exchanges, WireInvOf(x), CountInv, NEW e \in Ends, RecvSome(e)
    PROVE  Refines
PROOF
  <1>1. PICK k : CollectedSome(e, k) \/ CollectedAll(e, k)
    BY RecvTurn
  <1>2. (e = "sender" /\ Peer(e) = "receiver") \/ (e = "receiver" /\ Peer(e) = "sender")
    BY DEF Ends, Peer
  <1>3. CASE CollectedSome(e, k)
    <2>1. up' = up /\ ended' = ended /\ got' = got /\ at' = at
      BY <1>3, Zenon DEF CollectedSome
    <2>2. Queue(e)' = Queue(e) /\ Queue(Peer(e))' = Queue(Peer(e))
      BY <1>3, QueueWhenCollected
    <2>3. Queue("sender")' = Queue("sender") /\ Queue("receiver")' = Queue("receiver")
      BY <1>2, <2>2, Zenon
    <2>4. UNCHANGED <<Link!linkVars, got>>
      BY <2>1, <2>3, SameQueues, Zenon
    <2>5. CountInv'
      BY <2>1, CountsSame, Zenon
    <2> QED
      BY <2>4, <2>5, Zenon DEF Refines
  <1>4. CASE CollectedAll(e, k)
    <2>1. /\ up' = up /\ ended' = ended /\ ended[e] = "no"
          /\ got' = [got EXCEPT ![e] = Append(@, script[k].msg)]
      BY <1>4, Zenon DEF CollectedAll
    <2>2. /\ Queue(e) # <<>> /\ Head(Queue(e)) = script[k].msg /\ Queue(e)' = Tail(Queue(e))
          /\ Queue(Peer(e))' = Queue(Peer(e))
      BY <1>4, QueueWhenRead
    <2>3. CountInv'
      BY <1>4, CountsWhenRead
    <2>4. got' = [got EXCEPT ![e] = Append(@, Head(Queue(e)))]
      BY <2>1, <2>2, Zenon
    <2>5. CASE e = "sender" /\ Peer(e) = "receiver"
      <3>1. /\ Queue("sender") # <<>> /\ Queue("sender")' = Tail(Queue("sender"))
            /\ Queue("receiver")' = Queue("receiver")
            /\ got' = [got EXCEPT !["sender"] = Append(@, Head(Queue("sender")))]
        BY <2>2, <2>4, <2>5, Zenon
      <3>2. LinkStep
        BY <2>1, <3>1, StepReadsBySender, Zenon
      <3> QED
        BY <2>3, <3>2, Zenon DEF Refines
    <2>6. CASE e = "receiver" /\ Peer(e) = "sender"
      <3>1. /\ Queue("receiver") # <<>> /\ Queue("receiver")' = Tail(Queue("receiver"))
            /\ Queue("sender")' = Queue("sender") /\ ended["receiver"] = "no"
            /\ got' = [got EXCEPT !["receiver"] = Append(@, Head(Queue("receiver")))]
        BY <2>1, <2>2, <2>4, <2>6, Zenon
      <3>2. LinkStep
        BY <2>1, <3>1, StepReadsByReceiver, Zenon
      <3> QED
        BY <2>3, <3>2, Zenon DEF Refines
    <2> QED
      BY <1>2, <2>5, <2>6
  <1> QED
    BY <1>1, <1>3, <1>4

LEMMA CloseRefines ==
    ASSUME Requestable, NEW x \in Exchanges, WireInvOf(x), CountInv, NEW e \in Ends, NEW how,
           how # "no", Close(e, how), UNCHANGED <<script, at, got>>
    PROVE  Refines
PROOF
  <1>1. (e = "sender" /\ Peer(e) = "receiver") \/ (e = "receiver" /\ Peer(e) = "sender")
    BY DEF Ends, Peer
  <1>2. Queue(e)' = <<>> /\ Queue(Peer(e))' = Queue(Peer(e))
    BY QueueWhenClosed
  <1>3. ended' = [ended EXCEPT ![e] = how] /\ up' = FALSE /\ got' = got /\ at' = at
    BY DEF Close
  <1>4. CountInv'
    BY <1>3, CountsSame, Zenon
  <1>5. DOMAIN ended = Ends
    BY DEF WireInvOf, WireTypes
  <1>6. CASE e = "sender" /\ Peer(e) = "receiver"
    <2>1. Queue("sender")' = <<>> /\ Queue("receiver")' = Queue("receiver")
      BY <1>2, <1>6, Zenon
    <2>2. ended'["receiver"] = ended["receiver"]
      BY <1>3, <1>5, <1>6 DEF Ends
    <2>3. LinkStep
      BY <1>3, <2>1, <2>2, StepClosesSender, Zenon
    <2> QED
      BY <1>4, <2>3, Zenon DEF Refines
  <1>7. CASE e = "receiver" /\ Peer(e) = "sender"
    <2>1. Queue("receiver")' = <<>> /\ Queue("sender")' = Queue("sender")
      BY <1>2, <1>7, Zenon
    <2>2. ended'["receiver"] # "no"
      BY <1>3, <1>5, <1>7 DEF Ends
    <2>3. LinkStep
      BY <1>3, <2>1, <2>2, StepClosesReceiver, Zenon
    <2> QED
      BY <1>4, <2>3, Zenon DEF Refines
  <1> QED
    BY <1>1, <1>6, <1>7

LEMMA BreakRefines ==
    ASSUME Requestable, NEW x \in Exchanges, WireInvOf(x), CountInv, Break
    PROVE  Refines
PROOF
  <1>1. up = TRUE /\ up' = FALSE /\ ended' = ended /\ got' = got /\ at' = at
    BY DEF Break, WireInvOf, WireTypes
  <1>2. CountInv'
    BY <1>1, CountsSame, Zenon
  <1>3. "sender" \in Ends /\ "receiver" \in Ends
    BY DEF Ends
  <1>4. PICK i \in 0 .. Len(Queue("receiver")) :
           Queue("receiver")' = SubSeq(Queue("receiver"), 1, i)
    BY <1>3, QueueWhenBroken
  <1>5. PICK j \in 0 .. Len(Queue("sender")) : Queue("sender")' = SubSeq(Queue("sender"), 1, j)
    BY <1>3, QueueWhenBroken
  <1>6. LinkStep
    BY <1>1, <1>4, <1>5, StepLoses
  <1> QED
    BY <1>2, <1>6, Zenon DEF Refines

LEMMA WireRefines ==
    ASSUME Requestable, WireInv, CountInv, [Next]_wireVars
    PROVE  Refines
PROOF
  <1>1. PICK x \in Exchanges : WireInvOf(x)
    BY DEF WireInv
  <1>2. CASE UNCHANGED wireVars
    <2>1. /\ script' = script /\ at' = at /\ buf' = buf /\ wire' = wire
          /\ up' = up /\ got' = got /\ ended' = ended
      BY <1>2 DEF wireVars
    <2>2. Queue("sender")' = Queue("sender") /\ Queue("receiver")' = Queue("receiver")
      BY <2>1, Zenon DEF Queue
    <2>3. UNCHANGED <<Link!linkVars, got>>
      BY <2>1, <2>2, SameQueues, Zenon
    <2>4. CountInv'
      BY <2>1, CountsSame, Zenon
    <2> QED
      BY <2>3, <2>4, Zenon DEF Refines
  <1>3. CASE Break
    BY <1>1, <1>3, BreakRefines
  <1>4. ASSUME NEW e \in Ends, EndStep(e)
        PROVE  Refines
    <2>1. CASE SendSome(e)
      BY <1>1, <2>1, SendRefines
    <2>2. CASE RecvSome(e)
      BY <1>1, <2>2, RecvRefines
    <2>3. CASE Fail(e)
      <3>1. Close(e, "failed") /\ UNCHANGED <<script, at, got>>
        BY <2>3 DEF Fail
      <3> QED
        BY <1>1, <3>1, CloseRefines
    <2>4. CASE Finish(e)
      <3>1. Close(e, "done") /\ UNCHANGED <<script, at, got>>
        BY <2>4 DEF Finish
      <3> QED
        BY <1>1, <3>1, CloseRefines
    <2> QED
      BY <1>4, <2>1, <2>2, <2>3, <2>4 DEF EndStep
  <1> QED
    BY <1>2, <1>3, <1>4 DEF Next

-----------------------------------------------------------------------------
(* The theorems *)

(* No end refuses what the other has written: however send_all and           *)
(* recv_exact cut the bytes of the manifest, the request, the chunks and the *)
(* digest into pieces, and wherever the connection breaks, recv_exact asks   *)
(* for the bytes of one message and no more, and the codecs and validators   *)
(* accept them.  The file has no more chunks than a request may name.        *)
THEOREM NothingIsRefused ==
    ASSUME Requestable
    PROVE  Spec => []NothingRefused
PROOF
  <1>1. ASSUME WireInv PROVE NothingRefused
    BY <1>1 DEF WireInv, WireInvOf, EndInv, NothingRefused
  <1> QED
    BY <1>1, WireInvariant, PTL

(* At both ends the ProgressTracker reaches its total of bytes exactly when  *)
(* the last missing chunk is sent or received, for a transfer that begins or *)
(* resumes at any chunk.                                                     *)
THEOREM ProgressIsExact ==
    ASSUME Requestable
    PROVE  Spec => []ProgressExact
PROOF
  <1>1. ASSUME WireInv PROVE ProgressExact
    BY <1>1, ExactProgress
  <1> QED
    BY <1>1, WireInvariant, PTL

(* The bytes of the two loops implement the queues of whole messages that    *)
(* Transfer is built on: through send_all and recv_exact, for any file,      *)
(* chunk size and kernel buffer, a message arrives whole, once, unchanged    *)
(* and in order, or is lost with the connection together with all that       *)
(* follow it.                                                                *)
THEOREM BytesImplementMessages ==
    ASSUME Requestable
    PROVE  Spec => ImplementsTcpLink
PROOF
  <1>1. ASSUME Init PROVE CountInv
    BY <1>1, CountsInitially
  <1>2. ASSUME WireInv, CountInv, [Next]_wireVars
        PROVE  CountInv' /\ [LinkStep]_<<Link!linkVars, got>>
    BY <1>2, WireRefines DEF Refines
  <1> QED
    BY <1>1, <1>2, WireInvariant, PTL DEF Spec, ImplementsTcpLink

=============================================================================
