------------------------------ MODULE WireStream ------------------------------
(***************************************************************************)
(* One connection as the kernel sees it: bytes.  Each end works through    *)
(* the messages of one exchange; send_all hands a message to the kernel in *)
(* as many pieces as it takes, recv_exact collects one in as many as come. *)
(* The connection may break after any byte.                                *)
(*                                                                         *)
(* Transfer treats the same connection as two queues of whole messages     *)
(* (TcpLink).  WireRefinement shows that these bytes implement them.       *)
(***************************************************************************)
EXTENDS Codecs

CONSTANTS
    FileSizes,  \* sizes of the file being sent
    Names,      \* file names to announce
    ChunkSize,
    Capacity    \* bytes the kernel takes for one direction before send blocks

\* A file has a name, and no message is made of one that is too long.  Its
\* size is half of what a uint64_t holds at most, since tellg is signed.
ASSUME WireStreamAssumption ==
    /\ FileSizes \subseteq 0 .. Power[W64] \div 2 - 1
    /\ Names \subseteq Seq(Bytes)
    /\ \A name \in Names : Len(name) \in 1 .. kMaxFilenameLength
    /\ ChunkSize \in 1 .. Power[W32] - 1
    /\ Capacity \in Nat \ {0}

VARIABLES
    script,     \* the messages of the exchange, their bytes and who sends them
    at,         \* per end: the message it is at
    sent,       \* per end: bytes of that message handed to the kernel
    buf,        \* per end: bytes of that message collected
    wire,       \* per end: bytes on their way to it
    up,         \* neither end has closed and nothing has broken
    got,        \* per end: the messages it has read
    progress,   \* per end: bytes_transferred_ and chunks_completed_
    ended       \* per end: how its run ended

wireVars == <<script, at, sent, buf, wire, up, got, progress, ended>>

Ends    == {"sender", "receiver"}
Peer(e) == IF e = "sender" THEN "receiver" ELSE "sender"

-----------------------------------------------------------------------------
(* The messages *)

FileByte(k) == k % Base

Message ==
    [type : {"manifest"}, manifest : FileManifest]
        \cup [type : {"request"}, request : ContinueRequest]
        \cup [type : {"chunk"}, header : ChunkHeader, payload : Seq(Bytes)]
        \cup [type : {"hash"}, packet : HashPacket]

ASSUME AbsentAssumption ==
    Absent \notin FileManifest \cup ContinueRequest \cup ChunkHeader \cup HashPacket \cup Message

ManifestMsg(m) == [type |-> "manifest", manifest |-> m]
RequestMsg(m, missing) ==
    [type |-> "request",
     request |-> [session_id |-> m.session_id, total_chunks |-> m.chunk_count,
                  missing |-> missing]]
ChunkMsg(m, i) ==
    LET h == NewHeader(m, i)
    IN  [type |-> "chunk", header |-> h,
         payload |-> [k \in 1 .. h.payload_size |-> FileByte(h.byte_offset + k)]]
HashMsg(m) ==
    [type |-> "hash",
     packet |-> [session_id |-> m.session_id, sha256_hex |-> [k \in 1 .. DigestSize |-> 1]]]

Prefixes(s) == {SubSeq(s, 1, n) : n \in 0 .. Len(s)}

-----------------------------------------------------------------------------
(* Messages as they are written *)

\* What is handed to send_all; for a chunk, header and payload in turn.
Serialized(msg) ==
    CASE msg.type = "manifest" -> serialize_file_manifest(msg.manifest)
      [] msg.type = "request"  -> serialize_continue_request(msg.request)
      [] msg.type = "chunk"    -> serialize_chunk_header(msg.header) \o msg.payload
      [] msg.type = "hash"     -> serialize_hash_packet(msg.packet)

-----------------------------------------------------------------------------
(* The exchange: manifest, request, the chunks asked for, digest *)

By(e, msg) == [by |-> e, msg |-> msg, bytes |-> Serialized(msg)]

\* What missing_chunks returns for a file of n chunks: some of them, in order.
Lists(n) ==
    {list \in UNION {[1 .. c -> 0 .. n - 1] : c \in 0 .. n} :
        \A j \in 2 .. Len(list) : list[j - 1] < list[j]}

\* Both ends know the list, the sender from the request and the receiver from
\* its checkpoint.
Exchange(m, missing) ==
    <<By("sender", ManifestMsg(m)), By("receiver", RequestMsg(m, missing))>>
    \o [k \in DOMAIN missing |-> By("sender", ChunkMsg(m, missing[k]))]
    \o <<By("sender", HashMsg(m))>>

TheManifest == script[1].msg.manifest
TheMissing  == script[2].msg.request.missing

Init ==
    /\ \E name \in Names, size \in FileSizes :
          LET m == NewManifest(name, size, ChunkSize)
          IN  \E missing \in Lists(m.chunk_count) : script = Exchange(m, missing)
    /\ at = [e \in Ends |-> 1]
    /\ sent = [e \in Ends |-> 0]
    /\ buf = [e \in Ends |-> <<>>]
    /\ wire = [e \in Ends |-> <<>>]
    /\ up = TRUE
    /\ got = [e \in Ends |-> <<>>]
    /\ progress = [e \in Ends |-> [bytes |-> 0, chunks |-> 0]]
    /\ ended = [e \in Ends |-> "no"]

-----------------------------------------------------------------------------
(* Messages as they are read *)

\* The first recv_exact of a message has a fixed size ...
FixedSize(type) ==
    CASE type = "manifest" -> W32
      [] type = "request"  -> SizeOf(RequestLayout)
      [] type = "chunk"    -> SizeOf(HeaderLayout)
      [] type = "hash"     -> SizeOf(HashLayout) + DigestSize

\* ... and what it says decides whether there is a second one, and its size.
\* No more is read of a message that is refused by its first part.
RestSize(type, fixed) ==
    CASE type = "manifest" ->
            LET n == read(W32, fixed, 0) IN IF acceptable_payload_size(n) THEN n ELSE 0
      [] type = "request" ->
            LET n == read(W64, fixed, Start(RequestLayout, 4))
            IN  IF n <= kMaxChunkIndexes THEN n * W64 ELSE 0
      [] type = "chunk" ->
            LET h == deserialize_chunk_header(fixed) IN IF h = Absent THEN 0 ELSE h.payload_size
      [] type = "hash" -> 0

Wanted(type, bytes) ==
    LET fixed == FixedSize(type)
    IN  IF Len(bytes) < fixed THEN fixed ELSE fixed + RestSize(type, SubSeq(bytes, 1, fixed))

\* What end e, waiting for chunk index or another message, makes of the bytes.
\* The receiver validates a chunk's header before it reads the payload; here
\* both are looked at once they are there, which differs only for a header
\* that is refused.
Deserialized(e, expected, bytes) ==
    CASE expected.type = "manifest" ->
            LET m == deserialize_file_manifest(bytes)
            IN  IF m = Absent THEN Absent ELSE ManifestMsg(m)
      [] expected.type = "request" ->
            LET r == deserialize_continue_request(bytes)
            IN  IF r # Absent /\ validate_continue_request(TheManifest, r)
                THEN [type |-> "request", request |-> r]
                ELSE Absent
      [] expected.type = "chunk" ->
            LET h == deserialize_chunk_header(SubSeq(bytes, 1, SizeOf(HeaderLayout)))
            IN  IF /\ h # Absent
                   /\ h.chunk_index = expected.header.chunk_index
                   /\ validate_chunk_header(got[e][1].manifest, h)
                THEN [type |-> "chunk", header |-> h, payload |-> After(HeaderLayout, bytes)]
                ELSE Absent
      [] expected.type = "hash" ->
            LET p == deserialize_hash_packet(bytes)
            IN  IF p = Absent THEN Absent ELSE [type |-> "hash", packet |-> p]

-----------------------------------------------------------------------------
(* ProgressTracker *)

add_progress(e, msg) ==
    progress' = IF msg.type = "chunk"
                THEN [progress EXCEPT ![e].bytes = @ + msg.header.payload_size,
                                      ![e].chunks = @ + 1]
                ELSE progress

-----------------------------------------------------------------------------
(* The two ends *)

Current(e) == script[at[e]].msg
MustSend(e) == ended[e] = "no" /\ at[e] <= Len(script) /\ script[at[e]].by = e
MustRecv(e) == ended[e] = "no" /\ at[e] <= Len(script) /\ script[at[e]].by # e

\* Mutant: one send is taken to have sent it all.
SentAll_AtOnce(e, n) == n > 0

\* total_sent == size, once the kernel has taken n more bytes
SentAll(e, n) == sent[e] + n = Len(script[at[e]].bytes)

\* One turn of the loop in send_all: the kernel takes some of the remaining
\* bytes.  On a closed connection it may take them all, for nobody.
SendSome(e) ==
    /\ MustSend(e)
    /\ LET bytes == script[at[e]].bytes
           left  == Len(bytes) - sent[e]
           room  == Capacity - Len(wire[Peer(e)])
       IN  \E n \in IF up THEN 1 .. (IF room < left THEN room ELSE left) ELSE {left} :
              /\ wire' = IF up
                         THEN [wire EXCEPT ![Peer(e)] = @ \o SubSeq(bytes, sent[e] + 1, sent[e] + n)]
                         ELSE wire
              /\ IF SentAll(e, n)
                 THEN /\ at' = [at EXCEPT ![e] = @ + 1]
                      /\ sent' = [sent EXCEPT ![e] = 0]
                      /\ add_progress(e, Current(e))
                 ELSE /\ sent' = [sent EXCEPT ![e] = @ + n]
                      /\ UNCHANGED <<at, progress>>
    /\ UNCHANGED <<script, buf, up, got, ended>>

\* The run of e ends and its socket is closed: what it has not read is lost.
Close(e, how) ==
    /\ ended' = [ended EXCEPT ![e] = how]
    /\ up' = FALSE
    /\ wire' = [wire EXCEPT ![e] = <<>>]
    /\ buf' = [buf EXCEPT ![e] = <<>>]

\* One turn of the loop in recv_exact, and what follows when it was the last.
RecvSome(e) ==
    /\ MustRecv(e)
    /\ \E n \in 1 .. Len(wire[e]) :
          LET bytes   == buf[e] \o SubSeq(wire[e], 1, n)
              message == Deserialized(e, Current(e), bytes)
          IN  /\ Len(bytes) <= Wanted(Current(e).type, buf[e])
              /\ IF Len(bytes) < Wanted(Current(e).type, bytes)
                 THEN /\ buf' = [buf EXCEPT ![e] = bytes]
                      /\ wire' = [wire EXCEPT ![e] = SubSeq(@, n + 1, Len(@))]
                      /\ UNCHANGED <<at, got, progress, up, ended>>
                 ELSE IF message = Absent
                 THEN Close(e, "refused") /\ UNCHANGED <<at, got, progress>>
                 ELSE /\ buf' = [buf EXCEPT ![e] = <<>>]
                      /\ wire' = [wire EXCEPT ![e] = SubSeq(@, n + 1, Len(@))]
                      /\ got' = [got EXCEPT ![e] = Append(@, message)]
                      /\ at' = [at EXCEPT ![e] = @ + 1]
                      /\ add_progress(e, message)
                      /\ UNCHANGED <<up, ended>>
    /\ UNCHANGED <<script, sent>>

\* recv returns 0 or an error, or send does: only on a closed connection.
Fail(e) ==
    /\ ~up
    /\ MustSend(e) \/ (MustRecv(e) /\ wire[e] = <<>>)
    /\ Close(e, "failed")
    /\ UNCHANGED <<script, at, sent, got, progress>>

Finish(e) ==
    /\ ended[e] = "no"
    /\ at[e] > Len(script)
    /\ Close(e, "done")
    /\ UNCHANGED <<script, at, sent, got, progress>>

\* The connection breaks: any number of the bytes on their way still arrive.
Break ==
    /\ up
    /\ up' = FALSE
    /\ wire' \in {w \in [Ends -> UNION {Prefixes(wire[e]) : e \in Ends}] :
                    \A e \in Ends : w[e] \in Prefixes(wire[e])}
    /\ UNCHANGED <<script, at, sent, buf, got, progress, ended>>

EndStep(e) == SendSome(e) \/ RecvSome(e) \/ Fail(e) \/ Finish(e)

Next == (\E e \in Ends : EndStep(e)) \/ Break

Spec == Init /\ [][Next]_wireVars

\* Both programs go on as long as they can.
FairSpec == Spec /\ \A e \in Ends : WF_wireVars(EndStep(e))

-----------------------------------------------------------------------------
(* Properties *)

\* Framing: no end ever refuses what the other has written, however the bytes
\* are cut into pieces and wherever the connection breaks.
NothingRefused == \A e \in Ends : ended[e] # "refused"

\* At either end the bytes reach their total with the last chunk and not
\* before: the report that should_report forces says 100%.
ProgressExact ==
    \A e \in Ends :
        /\ progress[e].chunks <= Len(TheMissing)
        /\ progress[e].chunks = Len(TheMissing) <=>
              progress[e].bytes = bytes_for_chunks(TheManifest, TheMissing)

\* Neither end waits for ever, whatever the kernel's buffers hold: no
\* recv_exact asks for a byte that nobody sends.
BothEnd == <>(\A e \in Ends : ended[e] # "no")

=============================================================================
