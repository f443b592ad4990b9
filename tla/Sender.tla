------------------------------- MODULE Sender -------------------------------
(***************************************************************************)
(* The sender program, one process per member of Senders.  A run measures  *)
(* the file, hashes it, connects, announces the manifest, sends the chunks *)
(* the receiver asks for and then the digest taken at the beginning.  The  *)
(* file is read anew at each of these times and others may change it in    *)
(* between.  The sender gets no answer to the digest.                      *)
(***************************************************************************)
EXTENDS TcpLink

VARIABLES
    src,        \* per sender: the file being sent
    spc,        \* where the run is
    sManifest,  \* manifest
    sDigest,    \* expected_hash, and while the file is hashed that of what is read
    sTodo,      \* request.missing_chunk_indexes from the current one on
    sResult     \* how the last run ended

sndVars == <<src, spc, sManifest, sDigest, sTodo, sResult>>

SndPc == {"off", "digest", "connect", "manifest", "request", "chunks"}
SndResult == {"none", "complete", "rejected", "failed", "crashed"}

SndTypeOK ==
    /\ src \in [Senders -> Contents]
    /\ spc \in [Senders -> SndPc]
    /\ sManifest \in [Senders -> Manifest \cup {Absent}]
    /\ sDigest \in [Senders -> Digest \cup {Absent}]
    /\ sTodo \in [Senders -> SUBSET Nat]
    /\ sResult \in [Senders -> SndResult]

SndInit ==
    /\ src \in [Senders -> Contents]
    /\ spc = [s \in Senders |-> "off"]
    /\ sManifest = [s \in Senders |-> Absent]
    /\ sDigest = [s \in Senders |-> Absent]
    /\ sTodo = [s \in Senders |-> {}]
    /\ sResult = [s \in Senders |-> "none"]

Goto(s, pc) == spc' = [spc EXCEPT ![s] = pc]

\* The end of a run: the locals go, the file stays.
ForgetSend(s, result) ==
    /\ Goto(s, "off")
    /\ sManifest' = [sManifest EXCEPT ![s] = Absent]
    /\ sDigest' = [sDigest EXCEPT ![s] = Absent]
    /\ sTodo' = [sTodo EXCEPT ![s] = {}]
    /\ sResult' = [sResult EXCEPT ![s] = result]
    /\ UNCHANGED src

Return(s, result) == ForgetSend(s, result) /\ CloseSender(s)

-----------------------------------------------------------------------------
(* main, up to the connection *)

\* file_size, from which the manifest is made.
SStart(s) ==
    /\ spc[s] = "off"
    /\ Disconnected(s)
    /\ sManifest' = [sManifest EXCEPT ![s] = NewManifest(Len(src[s]))]
    /\ sDigest' = [sDigest EXCEPT ![s] = Sha256(<<>>)]
    /\ sResult' = [sResult EXCEPT ![s] = "none"]
    /\ Goto(s, "digest")
    /\ UNCHANGED <<src, sTodo, linkVars>>

\* One read of sha256_file.  The file may be edited between two reads; the
\* first read that gets less than it asks for is the last.
SDigest(s) ==
    /\ spc[s] = "digest"
    /\ LET sofar == sDigest[s].sha256
           piece == ReadUpTo(src[s], Len(sofar), ReadSize)
       IN  /\ sDigest' = [sDigest EXCEPT ![s] = Sha256(sofar \o piece)]
           /\ Goto(s, IF Len(piece) < ReadSize THEN "connect" ELSE "digest")
    /\ UNCHANGED <<src, sManifest, sTodo, sResult, linkVars>>

SConnect(s) ==
    /\ spc[s] = "connect"
    /\ Connect(s)
    /\ Goto(s, "manifest")
    /\ UNCHANGED <<src, sManifest, sDigest, sTodo, sResult>>

SConnectRefused(s) ==
    /\ spc[s] = "connect"
    /\ ~listening
    /\ ForgetSend(s, "failed")
    /\ UNCHANGED linkVars

-----------------------------------------------------------------------------
(* main, on the connection *)

SSendManifest(s) ==
    /\ spc[s] = "manifest"
    /\ SendToReceiver(s, [type |-> "manifest", manifest |-> sManifest[s]])
    /\ Goto(s, "request")
    /\ UNCHANGED <<src, sManifest, sDigest, sTodo, sResult>>

SRecvRequest(s) ==
    /\ spc[s] = "request"
    /\ r2s[s] # <<>>
    /\ LET request == Head(r2s[s])
       IN  IF receivable_request(request) /\ validate_continue_request(sManifest[s], request)
           THEN /\ RecvFromReceiver(s)
                /\ sTodo' = [sTodo EXCEPT ![s] = request.missing]
                /\ Goto(s, "chunks")
                /\ UNCHANGED <<src, sManifest, sDigest, sResult>>
           ELSE Return(s, "rejected")

\* The bytes of chunk i are read now; fewer than announced end the run.
SSendChunk(s) ==
    /\ spc[s] = "chunks"
    /\ \E i \in NextOf(sTodo[s]) :
          LET h == NewHeader(sManifest[s], i)
          IN  IF h.byte_offset + h.payload_size <= Len(src[s])
              THEN /\ SendToReceiver(s,
                        [type |-> "chunk", header |-> h,
                         payload |-> ReadAt(src[s], h.byte_offset, h.payload_size)])
                   /\ sTodo' = [sTodo EXCEPT ![s] = @ \ {i}]
                   /\ UNCHANGED <<src, spc, sManifest, sDigest, sResult>>
              ELSE Return(s, "failed")

\* The digest packet is the last message; the run ends without an answer.
SSendHash(s) ==
    /\ spc[s] = "chunks"
    /\ sTodo[s] = {}
    /\ \/ /\ up[s]
          /\ Len(s2r[s]) < SockBuf
          /\ s2r' = [s2r EXCEPT ![s] = Append(@, [type |-> "hash", hash |-> sDigest[s]])]
       \/ ~up[s] /\ UNCHANGED s2r
    /\ up' = [up EXCEPT ![s] = FALSE]
    /\ r2s' = [r2s EXCEPT ![s] = <<>>]
    /\ UNCHANGED <<listening, backlog, client>>
    /\ ForgetSend(s, "complete")

-----------------------------------------------------------------------------
(* Runs that end early *)

\* send_all fails, or recv_exact does, on a connection that is closed or lost.
\* A reset may destroy a request that had already arrived.
SLinkFail(s) ==
    /\ spc[s] \in {"manifest", "request", "chunks"}
    /\ ~up[s]
    /\ Return(s, "failed")

\* Hashing, resolving and connecting, or opening and reading the file fails.
SCallFail(s) ==
    /\ spc[s] \in {"digest", "connect", "chunks"}
    /\ Return(s, "failed")

SCrash(s) ==
    /\ spc[s] # "off"
    /\ ForgetSend(s, "crashed")
    /\ ResetBySender(s)

\* Somebody replaces or edits the file, whether or not a run is reading it.
EditSource(s, bytes) ==
    /\ src' = [src EXCEPT ![s] = bytes]
    /\ UNCHANGED <<spc, sManifest, sDigest, sTodo, sResult, linkVars>>

=============================================================================
