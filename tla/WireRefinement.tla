---------------------------- MODULE WireRefinement ----------------------------
(***************************************************************************)
(* The bytes of WireStream implement the queues of messages of TcpLink.    *)
(* A message is in its queue from the moment the kernel has taken its last *)
(* byte until its reader has collected it, unless a byte of it was lost.   *)
(***************************************************************************)
EXTENDS WireStream

CONSTANTS
    Sender,     \* the one sender of this connection
    Plenty      \* more messages than an exchange has

ASSUME PlentyAssumption ==
    Plenty \in Nat /\ \A n \in FileSizes : chunk_count(n, ChunkSize) + 3 < Plenty

\* What end e of the exchange s is sent: the request, or all the others.
Inbox(s, e) ==
    IF e = "sender" THEN <<s[2]>> ELSE [k \in 1 .. Len(s) - 1 |-> s[IF k = 1 THEN 1 ELSE k + 1]]

\* At which byte of the stream the messages of an inbox end.
Bounds(inbox) ==
    LET end[k \in 0 .. Len(inbox)] == IF k = 0 THEN 0 ELSE end[k - 1] + Len(inbox[k].bytes)
    IN  end

\* The messages that are complete among the n bytes that follow the first ones.
Waiting(inbox, first, n) ==
    LET end   == Bounds(inbox)
        whole == {k \in 0 .. Len(inbox) : end[k] <= end[first] + n}
        last  == CHOOSE k \in whole : \A j \in whole : j <= k
    IN  [k \in 1 .. last - first |-> inbox[first + k].msg]

\* The messages to e that are complete among the bytes that still reach it:
\* those of the one it is collecting and those on the wire.
Queue(e) == Waiting(Inbox(script, e), Len(got[e]), Len(buf[e]) + Len(wire[e]))

Serving == ended["receiver"] = "no"

Link == INSTANCE TcpLink WITH
    Senders <- {Sender},
    SockBuf <- Plenty,
    Byte <- Bytes,
    Zero <- 0,
    Contents <- {},
    ReadSize <- 1,
    listening <- Serving,
    backlog <- <<>>,
    client <- IF Serving THEN Sender ELSE Absent,
    up <- [s \in {Sender} |-> up],
    s2r <- [s \in {Sender} |-> Queue("receiver")],
    r2s <- [s \in {Sender} |-> Queue("sender")]

Sendable(e) == {script[k].msg : k \in {n \in DOMAIN script : script[n].by # e}}

Reads(e) == got' = [got EXCEPT ![e] = Append(@, Head(Queue(e)))]

LinkStep ==
    \/ \E msg \in Sendable("receiver") : Link!SendToReceiver(Sender, msg) /\ UNCHANGED got
    \/ Serving /\ \E msg \in Sendable("sender") : Link!SendToSender(msg) /\ UNCHANGED got
    \/ Serving /\ Link!RecvFromSender /\ Reads("receiver")
    \/ Link!RecvFromReceiver(Sender) /\ Reads("sender")
    \/ (Link!CloseSender(Sender) \/ Link!CloseReceiver) /\ UNCHANGED got
    \/ Link!LoseConnection(Sender) /\ UNCHANGED got

\* Every step of the loops is a step of TcpLink or none: messages arrive whole,
\* once, unchanged and in order, and of those on their way when the connection
\* breaks the first ones still arrive.
ImplementsTcpLink == [][LinkStep]_<<Link!linkVars, got>>

=============================================================================
