------------------------------- MODULE TcpLink -------------------------------
(***************************************************************************)
(* The TCP connections between the senders and the receiver, as TcpSocket  *)
(* and TcpServer use them: one listening socket, connections waiting in    *)
(* its queue, one accepted client, and per connection a byte stream each   *)
(* way.  A stream is a sequence of whole protocol messages: recv_exact     *)
(* returns either a whole message or failure, and failing halfway through  *)
(* one has the effects of failing before it.                               *)
(***************************************************************************)
EXTENDS ChunkPlan

CONSTANTS
    Senders,    \* sender processes, each with a connection of its own
    SockBuf     \* how many messages a stream holds before send blocks

ASSUME TcpLinkAssumption ==
    /\ SockBuf \in Nat \ {0}
    /\ Absent \notin Senders

VARIABLES
    listening,  \* the receiver's listening socket is open
    backlog,    \* established connections not yet accepted, oldest first
    client,     \* the accepted connection, or Absent
    up,         \* per sender: neither end of its connection is closed or lost
    s2r,        \* per sender: messages to the receiver, sent and not yet read
    r2s         \* per sender: messages to the sender, sent and not yet read

linkVars == <<listening, backlog, client, up, s2r, r2s>>

ManifestMsg == [type : {"manifest"}, manifest : Manifest]
ChunkMsg    == [type : {"chunk"}, header : Header, payload : File]
HashMsg     == [type : {"hash"}, hash : Digest]
ToReceiver  == ManifestMsg \cup ChunkMsg \cup HashMsg

LinkTypeOK ==
    /\ listening \in BOOLEAN
    /\ backlog \in Seq(Senders)
    /\ client \in Senders \cup {Absent}
    /\ up \in [Senders -> BOOLEAN]
    /\ s2r \in [Senders -> Seq(ToReceiver)]
    /\ r2s \in [Senders -> Seq(Request)]

LinkInit ==
    /\ listening = FALSE
    /\ backlog = <<>>
    /\ client = Absent
    /\ up = [s \in Senders |-> FALSE]
    /\ s2r = [s \in Senders |-> <<>>]
    /\ r2s = [s \in Senders |-> <<>>]

\* What is left of a stream when the connection breaks: any prefix of it.
Prefixes(stream) == {SubSeq(stream, 1, n) : n \in 0 .. Len(stream)}

-----------------------------------------------------------------------------
(* The sender's end *)

\* s has no connection the receiver still knows of.
Disconnected(s) == client # s /\ \A k \in 1 .. Len(backlog) : backlog[k] # s

\* connect_to succeeds as soon as the kernel queues the connection.
Connect(s) ==
    /\ listening
    /\ backlog' = Append(backlog, s)
    /\ up' = [up EXCEPT ![s] = TRUE]
    /\ s2r' = [s2r EXCEPT ![s] = <<>>]
    /\ r2s' = [r2s EXCEPT ![s] = <<>>]
    /\ UNCHANGED <<listening, client>>

\* send_all blocks while the stream is full.  On a connection the other end
\* has closed, the kernel may still take the bytes, which nobody will read.
SendToReceiver(s, msg) ==
    /\ \/ up[s] /\ Len(s2r[s]) < SockBuf /\ s2r' = [s2r EXCEPT ![s] = Append(@, msg)]
       \/ ~up[s] /\ UNCHANGED s2r
    /\ UNCHANGED <<listening, backlog, client, up, r2s>>

RecvFromReceiver(s) ==
    /\ r2s[s] # <<>>
    /\ r2s' = [r2s EXCEPT ![s] = Tail(@)]
    /\ UNCHANGED <<listening, backlog, client, up, s2r>>

\* ~TcpSocket at the end of the sender: what it sent stays readable.
CloseSender(s) ==
    /\ up' = [up EXCEPT ![s] = FALSE]
    /\ r2s' = [r2s EXCEPT ![s] = <<>>]
    /\ UNCHANGED <<listening, backlog, client, s2r>>

-----------------------------------------------------------------------------
(* The receiver's end *)

bind_and_listen ==
    /\ listening' = TRUE
    /\ UNCHANGED <<backlog, client, up, s2r, r2s>>

accept_client ==
    /\ backlog # <<>>
    /\ client' = Head(backlog)
    /\ backlog' = Tail(backlog)
    /\ UNCHANGED <<listening, up, s2r, r2s>>

SendToSender(msg) ==
    /\ r2s' = IF up[client] THEN [r2s EXCEPT ![client] = Append(@, msg)] ELSE r2s
    /\ UNCHANGED <<listening, backlog, client, up, s2r>>

RecvFromSender ==
    /\ s2r[client] # <<>>
    /\ s2r' = [s2r EXCEPT ![client] = Tail(@)]
    /\ UNCHANGED <<listening, backlog, client, up, r2s>>

\* recv_exact reports a closed connection once everything sent has been read.
EndOfStream == s2r[client] = <<>> /\ ~up[client]

\* ~TcpSocket and ~TcpServer at the end of the receiver: the accepted
\* connection is closed and the ones still queued are reset.  Unread requests
\* stay readable on the senders' side.
CloseReceiver ==
    /\ listening' = FALSE
    /\ backlog' = <<>>
    /\ client' = Absent
    /\ up' = [s \in Senders |-> FALSE]
    /\ s2r' = [s \in Senders |-> <<>>]
    /\ UNCHANGED r2s

-----------------------------------------------------------------------------
(* The network *)

\* A connection breaks: both ends see it closed, each stream keeps a prefix.
LoseConnection(s) ==
    /\ up[s]
    /\ up' = [up EXCEPT ![s] = FALSE]
    /\ \E p \in Prefixes(s2r[s]) : s2r' = [s2r EXCEPT ![s] = p]
    /\ \E p \in Prefixes(r2s[s]) : r2s' = [r2s EXCEPT ![s] = p]
    /\ UNCHANGED <<listening, backlog, client>>

\* A killed sender: like CloseSender, and the reset the kernel sends when the
\* process left data unread may destroy bytes the receiver has not read.
ResetBySender(s) ==
    /\ up' = [up EXCEPT ![s] = FALSE]
    /\ r2s' = [r2s EXCEPT ![s] = <<>>]
    /\ \E p \in Prefixes(s2r[s]) : s2r' = [s2r EXCEPT ![s] = p]
    /\ UNCHANGED <<listening, backlog, client>>

=============================================================================
