----------------------------- MODULE TransferInv -----------------------------
(***************************************************************************)
(* The inductive invariant behind the theorems of TransferTypes and        *)
(* TransferProofs: what the properties of Transfer leave unsaid about the  *)
(* states in the middle of a run.                                          *)
(***************************************************************************)
EXTENDS Transfer

\* TypeOK is not inductive: an action reads a local or the client's stream
\* without looking, because the program is past the point that set it.  Shape
\* says what is set where.
RcvShape ==
    /\ rpc \notin {"off", "accept"} => client \in Senders
    /\ rpc \notin {"off", "accept", "manifest"} =>
          rManifest \in Manifest /\ rCkpt \in Checkpoint
    /\ rpc \in {"off", "accept", "manifest"} => rCkpt = Absent
    /\ rOpen => rpc \in {"tmp", "remove", "rename", "chunk"}
    /\ rpc = "chunk" => rOpen
    /\ rOpen \/ rpc \in {"hash", "verify", "cleanup"} => out \in File
    /\ rBuf # Absent => rOpen

SndShape ==
    \A s \in Senders :
        spc[s] # "off" => sManifest[s] \in Manifest /\ sDigest[s] \in Digest

TypeInv == TypeOK /\ RcvShape /\ SndShape

-----------------------------------------------------------------------------
(* The run's own view *)

\* c describes the same file as d and claims no chunk that d does not, but for
\* those a cut index has made up.
Within(c, d) ==
    /\ c.file_size = d.file_size
    /\ c.chunk_size = d.chunk_size
    /\ c.total_chunks = d.total_chunks
    /\ c.completed \subseteq d.completed \cup madeUp

\* The checkpoint in memory describes the manifest's file, and what is still to
\* be received is what it does not list.
MemoryPlan ==
    rCkpt # Absent =>
        /\ rCkpt.file_size = rManifest.file_size
        /\ rCkpt.chunk_size = rManifest.chunk_size
        /\ rCkpt.total_chunks = rManifest.chunk_count
        /\ rTodo = missing_chunks(rCkpt)

\* What the checkpoint in memory claims is on disk, and a fresh run claims
\* nothing until it has truncated the output file.
MemorySound ==
    /\ rCkpt # Absent /\ file_exists(out) => SoundFor(out, rCkpt)
    /\ rpc \in {"request", "tmp", "remove", "rename", "prepare"} /\ rFresh /\ ~rOpen =>
          rCkpt.completed = {}

-----------------------------------------------------------------------------
(* The files around the output file *)

\* Between its write and its rename, .tmp claims no more than the memory does.
TmpWithin == rpc \in {"remove", "rename"} => tmp = Torn \/ (tmp # Absent /\ Within(tmp, rCkpt))

\* Once the first save is done, neither does the sidecar.
SidecarWithin ==
    (rOpen \/ rpc \in {"prepare", "chunk", "hash", "verify", "cleanup"}) /\ Loadable(ckpt) =>
        Within(ckpt, rCkpt)

-----------------------------------------------------------------------------
(* Bytes on their way *)

\* data is what some sent file has from offset on.
Genuine(offset, data) ==
    \E b \in Contents :
        /\ offset + Len(data) <= Len(b)
        /\ \A k \in 1 .. Len(data) : data[k] = b[offset + k]

\* A write the stream holds is a whole completed chunk of genuine bytes, short
\* enough to be held.
HeldGenuine ==
    rBuf # Absent =>
        /\ MayHold(rBuf.data)
        /\ \E i \in rCkpt.completed :
               /\ rBuf.offset = chunk_offset(rCkpt, i)
               /\ Len(rBuf.data) = payload_size_for_chunk(rCkpt, i)
               /\ Genuine(rBuf.offset, rBuf.data)

ChunkGenuine(msg) ==
    msg.type = "chunk" /\ msg.header.payload_size > 0 =>
        /\ Len(msg.payload) = msg.header.payload_size
        /\ Genuine(msg.header.byte_offset, msg.payload)

StreamsGenuine ==
    \A s \in Senders : \A k \in 1 .. Len(s2r[s]) : ChunkGenuine(s2r[s][k])

\* The part of the invariant that only the receiver's steps can disturb.
DiskInv ==
    /\ MemoryPlan
    /\ MemorySound
    /\ TmpWithin
    /\ SidecarWithin
    /\ HeldGenuine
    /\ GapsAreFound
    /\ CheckpointSound

\* The inductive invariant for the soundness of checkpoints: the sidecar is
\* within the memory, the memory is on disk or held, and every byte that is
\* still to come is genuine.
SafetyInv == DiskInv /\ StreamsGenuine

-----------------------------------------------------------------------------
(* The digest's way *)

\* The digest of bytes that, piece by piece, the file of s had at some time,
\* and of that very file if nobody has edited one.
DigestOf(s, digest) ==
    /\ InPieces(digest.sha256, versions[s])
    /\ edits = 0 => digest.sha256 = src[s]

OfSource(digest) == \E s \in Senders : DigestOf(s, digest)

\* Sender s has read n whole pieces of its file, each as it was at that time.
ReadSoFar(s, n) ==
    LET got == sDigest[s].sha256
    IN  /\ Len(got) = n * ReadSize
        /\ \A m \in 0 .. n - 1 : \E b \in versions[s] : Piece(got, m) = Piece(b, m)
        /\ edits = 0 => Len(got) <= Len(src[s]) /\ \A k \in 1 .. Len(got) : got[k] = src[s][k]

\* A sender that is hashing has read the first pieces; a sender past its hashing,
\* every hash packet on its way and a receiver that has got one hold the digest
\* of what a sender has read.
DigestsGenuine ==
    /\ \A s \in Senders : src[s] \in versions[s]
    /\ \A s \in Senders : spc[s] = "digest" =>
          \E n \in 0 .. Len(sDigest[s].sha256) : ReadSoFar(s, n)
    /\ \A s \in Senders : spc[s] \notin {"off", "digest"} => DigestOf(s, sDigest[s])
    /\ \A s \in Senders : \A k \in 1 .. Len(s2r[s]) :
          s2r[s][k].type = "hash" => OfSource(s2r[s][k].hash)
    /\ rpc \in {"verify", "cleanup"} => OfSource(rHash)

\* The inductive invariant for verified files: a result is that of a run that
\* has ended, and clean-up begins only when the digests agree.
VerifyInv ==
    /\ DigestsGenuine
    /\ rpc = "cleanup" => Sha256(out) = rHash
    /\ rpc # "off" => rResult = "none"
    /\ VerifiedIsSource

-----------------------------------------------------------------------------
(* The conversation on a connection *)

\* m describes a file that may be sent.
Announced(m) == \E b \in Contents : m = NewManifest(Len(b))

Queued(s) == \E k \in 1 .. Len(backlog) : backlog[k] = s

\* The queue holds a connection once, and not the accepted one.
ConnectedOnce ==
    /\ rpc \in {"off", "accept"} => client = Absent
    /\ \A j, k \in 1 .. Len(backlog) : backlog[j] = backlog[k] => j = k
    /\ \A k \in 1 .. Len(backlog) : backlog[k] # client

\* What the receiver knows: the manifest it has accepted is sound, and it waits
\* for the digest only when no chunk is missing.
ReceiverKnows ==
    /\ rpc \notin {"off", "accept", "manifest"} => valid_manifest(rManifest)
    /\ rpc \in {"hash", "verify", "cleanup"} => rTodo = {}

\* What sender s knows: it has no connection before it connects and a live one
\* only while it runs, its manifest is that of a file, nothing was said before
\* it speaks, and a request that reaches it, even after the connection broke or
\* the receiver ended, is about its own manifest.
SenderKnows(s) ==
    /\ spc[s] \in {"digest", "connect"} => Disconnected(s)
    /\ up[s] => spc[s] \in {"manifest", "request", "chunks"}
    /\ spc[s] # "off" => Announced(sManifest[s])
    /\ spc[s] = "manifest" => s2r[s] = <<>> /\ r2s[s] = <<>>
    /\ spc[s] = "request" =>
          \A k \in 1 .. Len(r2s[s]) : validate_continue_request(sManifest[s], r2s[s][k])

\* The receiver has read nothing of s: there is the manifest at most.
Greeting(s) ==
    /\ r2s[s] = <<>>
    /\ spc[s] \in {"manifest", "request", "off"}
    /\ Len(s2r[s]) <= 1
    /\ \A k \in 1 .. Len(s2r[s]) :
          /\ s2r[s][k].type = "manifest"
          /\ Announced(s2r[s][k].manifest)
          /\ spc[s] = "request" => s2r[s][k].manifest = sManifest[s]

\* The receiver has read the manifest of s and s waits for the request.
Asking(s) ==
    /\ r2s[s] = <<>>
    /\ spc[s] \in {"request", "off"}
    /\ s2r[s] = <<>>
    /\ spc[s] = "request" => sManifest[s] = rManifest

\* msg is chunk i of the file that m describes.
Carries(msg, m, i) == msg.type = "chunk" /\ msg.header = NewHeader(m, i)

\* It is among the first n messages of the stream q.
Carried(q, n, m, i) == \E k \in 1 .. n : Carries(q[k], m, i)

\* The stream q holds the next of the chunks todo, in their order, and the
\* digest only after the last of them.
InSequence(q, m, todo) ==
    \A k \in 1 .. Len(q) :
        \/ \E i \in todo :
              /\ Carries(q[k], m, i)
              /\ \A j \in todo : j < i <=> Carried(q, k - 1, m, j)
        \/ /\ q[k].type = "hash"
           /\ k = Len(q)
           /\ \A j \in todo : Carried(q, k - 1, m, j)

\* On a live connection s has either not read the request yet, or the chunks it
\* still has to send are the last ones of those the receiver waits for, and all
\* others are on their way.
Agreed(s) ==
    /\ sManifest[s] = rManifest
    /\ spc[s] = "request" =>
          /\ s2r[s] = <<>>
          /\ r2s[s] = <<[total_chunks |-> rManifest.chunk_count, missing |-> rTodo]>>
    /\ spc[s] = "chunks" =>
          /\ sTodo[s] \subseteq rTodo
          /\ \A i \in sTodo[s] : \A j \in rTodo \ sTodo[s] : j < i
          /\ \A i \in rTodo : i \in sTodo[s] <=> ~Carried(s2r[s], Len(s2r[s]), rManifest, i)
          /\ \A k \in 1 .. Len(s2r[s]) : s2r[s][k].type # "hash"

Underway(s) ==
    /\ spc[s] \in {"request", "chunks", "off"}
    /\ InSequence(s2r[s], rManifest, rTodo)
    /\ up[s] => Agreed(s)

\* Where the connection of s is, if the receiver knows of it.
Conversation(s) ==
    /\ Queued(s) => Greeting(s)
    /\ client = s =>
          /\ rpc = "manifest" => Greeting(s)
          /\ rpc = "request" => Asking(s)
          /\ rpc \notin {"manifest", "request"} => Underway(s)

\* The inductive invariant behind PlanAgreement and NoHonestReject: at each
\* point of a connection's life, each end knows what the other may have said.
PlanInv ==
    /\ ConnectedOnce
    /\ ReceiverKnows
    /\ \A s \in Senders : SenderKnows(s) /\ Conversation(s)

\* No file has more chunks than a continuation request may list.
WithinRequestLimit ==
    \A b \in Contents : chunk_count(Len(b), ChunkSize) <= kMaxChunkIndexes

=============================================================================
