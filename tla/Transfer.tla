------------------------------ MODULE Transfer ------------------------------
(***************************************************************************)
(* The whole transfer: the receiver, the senders, the connections between  *)
(* them, and an environment that kills processes, breaks connections,      *)
(* fails and cuts writes, deletes the output and edits the source files.   *)
(*                                                                         *)
(* versions, found and madeUp are history variables: no action reads them, *)
(* only the properties do.                                                 *)
(***************************************************************************)
EXTENDS Sender, Receiver

CONSTANTS
    Leftover,   \* what may be at the output path before the first run
    MaxFaults,  \* bound on the faults of a behaviour
    MaxEdits    \* bound on the edits of source files

ASSUME TransferAssumption ==
    /\ Leftover \subseteq File \cup {Absent}
    /\ MaxFaults \in Nat
    /\ MaxEdits \in Nat

VARIABLES
    faults,     \* how many faults there were
    edits,      \* how many edits there were
    versions,   \* per sender: every content its file has had
    found,      \* the sidecar that was there at first
    madeUp      \* the chunks that only the first digits of a cut index claim

budgetVars == <<faults, edits, versions, found, madeUp>>
vars == <<linkVars, ckptVars, rcvVars, sndVars, budgetVars>>

BudgetTypeOK ==
    /\ faults \in 0 .. MaxFaults
    /\ edits \in 0 .. MaxEdits
    /\ versions \in [Senders -> SUBSET Contents]
    /\ found \in Sidecars
    /\ madeUp \in SUBSET Nat

TypeOK ==
    /\ LinkTypeOK
    /\ CkptTypeOK
    /\ RcvTypeOK
    /\ SndTypeOK
    /\ BudgetTypeOK

-----------------------------------------------------------------------------
(* What a checkpoint claims *)

\* The bytes of chunk i of the file that c describes are in file f, and are
\* bytes that some sent file had at the same place.
ChunkOnDisk(f, c, i) ==
    LET first == chunk_offset(c, i) + 1
        last  == chunk_offset(c, i) + payload_size_for_chunk(c, i)
    IN  /\ last <= Len(f)
        /\ \E b \in Contents :
              /\ last <= Len(b)
              /\ \A k \in first .. last : f[k] = b[k]

\* All completed chunks of c that bypass the stream buffer are in file f, but
\* for those a cut index has made up.
SoundFor(f, c) ==
    \A i \in c.completed \ madeUp :
        payload_size_for_chunk(c, i) >= StreamBuf => ChunkOnDisk(f, c, i)

\* The sidecar never claims a chunk the next run would wrongly skip: beside an
\* existing output file, every completed chunk that bypasses the stream buffer
\* is on disk, even if the process dies right now.
CheckpointSound == Loadable(ckpt) /\ file_exists(out) => SoundFor(out, ckpt)

-----------------------------------------------------------------------------

\* The sidecar there is at first is that of an interrupted transfer, or was
\* prepared with its output file as docs/testing.md says: what it claims is
\* there, in whatever order.
Init ==
    /\ LinkInit
    /\ CkptInit
    /\ RcvInit
    /\ SndInit
    /\ out \in Leftover
    /\ faults = 0
    /\ edits = 0
    /\ versions = [s \in Senders |-> {src[s]}]
    /\ found = ckpt
    /\ madeUp = {}
    /\ CheckpointSound

-----------------------------------------------------------------------------
(* The programs, started again by their users whenever they have ended *)

ReceiverStep ==
    /\ \/ RStart        \/ RAccept    \/ RRecvManifest \/ RSendRequest
       \/ RWriteTmp     \/ RRemoveOld \/ RRenameTmp
       \/ RPrepareOutput
       \/ RRecvChunk    \/ RCloseStream
       \/ RRecvHash     \/ RVerify    \/ RCleanup
       \/ RRecvEof      \/ RSendFail
    /\ UNCHANGED <<sndVars, budgetVars>>

SenderStep(s) ==
    /\ \/ SStart(s)         \/ SDigest(s)
       \/ SConnect(s)       \/ SConnectRefused(s)
       \/ SSendManifest(s)  \/ SRecvRequest(s)
       \/ SSendChunk(s)     \/ SSendHash(s)
       \/ SLinkFail(s)
    /\ UNCHANGED <<rcvVars, ckptVars, budgetVars>>

-----------------------------------------------------------------------------
(* The environment *)

\* The user removes the output file between two runs.
DeleteOutput ==
    /\ rpc = "off"
    /\ file_exists(out)
    /\ out' = Absent
    /\ rResult' = "none"
    /\ UNCHANGED <<rpc, rManifest, rCkpt, rTodo, rFresh, rOpen, rBuf, rHash, linkVars, ckptVars>>

\* What a sidecar text c claims that the checkpoint it was written from does not.
MadeUpBy(c) == IF Loadable(c) THEN c.completed \ rCkpt.completed ELSE {}

ReceiverFault ==
    /\ \/ RWriteTmpShort /\ madeUp' = madeUp \cup MadeUpBy(tmp')
       \/ /\ \/ RCrash     \/ RCallFail    \/ RPrepareFail \/ RWriteFail
             \/ RFlushFail \/ RCleanupFail \/ DeleteOutput
          /\ UNCHANGED madeUp
    /\ UNCHANGED sndVars

LinkFault(s) == LoseConnection(s) /\ UNCHANGED <<sndVars, rcvVars, ckptVars, madeUp>>

SenderFault(s) == (SCallFail(s) \/ SCrash(s)) /\ UNCHANGED <<rcvVars, ckptVars, madeUp>>

Fault ==
    /\ faults < MaxFaults
    /\ faults' = faults + 1
    /\ ReceiverFault \/ \E s \in Senders : LinkFault(s) \/ SenderFault(s)
    /\ UNCHANGED <<edits, versions, found>>

Edit ==
    /\ edits < MaxEdits
    /\ edits' = edits + 1
    /\ \E s \in Senders, bytes \in Contents :
          EditSource(s, bytes) /\ versions' = [versions EXCEPT ![s] = @ \cup {bytes}]
    /\ UNCHANGED <<rcvVars, ckptVars, faults, found, madeUp>>

Next == ReceiverStep \/ (\E s \in Senders : SenderStep(s)) \/ Fault \/ Edit

Spec == Init /\ [][Next]_vars

\* Both programs keep running as long as they can take a step, and their users
\* start them again when they have ended.  Faults and edits are never owed.
FairSpec ==
    /\ Spec
    /\ WF_vars(ReceiverStep)
    /\ \A s \in Senders : WF_vars(SenderStep(s))

-----------------------------------------------------------------------------
(* Properties *)

\* Each piece that sha256_file reads of file f is that piece of one of versions.
InPieces(f, contents) ==
    \A n \in 0 .. Len(f) : \E b \in contents : Piece(f, n) = Piece(b, n)

\* A run that reports "SHA-256 integrity verified" has left, piece by piece, the
\* bytes that the file of one sender had at some time, whatever earlier runs,
\* other senders and faults left there; and exactly the bytes of a file that
\* was sent if nobody has edited one.
VerifiedIsSource ==
    rResult = "verified" =>
        /\ \E s \in Senders : InPieces(out, versions[s])
        /\ edits = 0 => \E s \in Senders : out = src[s]

\* What docs/protocol.md says of every chunk: the checkpoint is updated after
\* a successful write.  When no receiver runs, what was written is on disk.
CompletedIsWritten ==
    rpc = "off" /\ Loadable(ckpt) /\ file_exists(out) =>
        \A i \in ckpt.completed : ChunkOnDisk(out, ckpt, i)

\* The chunks c lists although it does not list an earlier one.
Ahead(c) ==
    IF Loadable(c) THEN {i \in c.completed : \E j \in 0 .. i - 1 : j \notin c.completed}
    ELSE {}

\* No checkpoint gets a gap that the sidecar found at first did not have, and
\* without one no cut text makes up a chunk.  This is what makes the unchecked
\* writes of save_checkpoint harmless, unless the user starts from a sidecar
\* with gaps: the digits left of a cut index spell a smaller index, and when
\* no earlier chunk is missing that one is completed.
GapsAreFound ==
    /\ \A c \in {ckpt, tmp, rCkpt} : Ahead(c) \subseteq Ahead(found) \cup madeUp
    /\ \A d \in madeUp : \E i \in Ahead(found) : d < i

\* Neither program ever refuses what the other one of this repository sends.
NoHonestReject ==
    /\ rResult # "rejected"
    /\ \A s \in Senders : sResult[s] # "rejected"

\* The chunk indexes on their way from s.
InFlight(s) ==
    {s2r[s][k].header.chunk_index :
        k \in {n \in 1 .. Len(s2r[s]) : s2r[s][n].type = "chunk"}}

\* On a live connection both sides agree on the work: what the receiver still
\* waits for is what is on its way and what the sender still has to send.
PlanAgreement ==
    client # Absent /\ up[client] /\ spc[client] = "chunks" =>
        /\ rTodo = InFlight(client) \cup sTodo[client]
        /\ InFlight(client) \cap sTodo[client] = {}

\* README: a transfer that stops early keeps its sidecar file.
StoppedKeepsSidecar ==
    rpc = "off" /\ Loadable(tmp) /\ tmp.completed # {} => Loadable(ckpt)

\* Users who keep starting both programs get a verified file, again and again,
\* once the faults are over.
EventuallyVerified == []<>(rResult = "verified")

\* No run hangs: nobody waits for a message that will not come.
RunsEnd ==
    /\ rpc \notin {"off", "accept"} ~> rpc = "off"
    /\ \A s \in Senders : spc[s] # "off" ~> spc[s] = "off"

=============================================================================
