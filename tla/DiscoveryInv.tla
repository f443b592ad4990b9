---------------------------- MODULE DiscoveryInv ----------------------------
(***************************************************************************)
(* The inductive invariants behind the theorems of DiscoveryProofs: how    *)
(* the deadlines of broadcasters, network and listener keep each other.    *)
(***************************************************************************)
EXTENDS Discovery

\* One turn of the listener's loop at most: the wait, and both delays.
Round == Poll + 2 * Late

\* Behind the listener's own announcement there is time for another turn.
Spare(b) == IF b \in Self THEN Round ELSE 0

\* Broadcasters are slow enough for the listener: an announcement arrives and
\* is handled before the next one of the same peer, with all others before it.
Paced ==
    \A b \in Broadcasters :
        Interval > MaxDelay + Late * Before + Spare(b)

\* At most one broadcaster runs on the listener's host.
OneSelf == \A a, b \in Self : a = b

-----------------------------------------------------------------------------
(* What is set where *)

ListenerShape ==
    /\ lpc # "handle" => got = Absent /\ since = 0
    /\ lpc = "off" =>
          /\ inbox = <<>> /\ wait = 0 /\ toPrint = 0
          /\ \A a \in Address : seen[a] = Absent

\* Only a running peer that is not the listener's own is heard or waited for.
PeerShape(b) ==
    /\ heard[b] => on[b] = "running" /\ b \notin Self /\ lpc # "off"
    /\ unheard[b] # 0 => on[b] = "running" /\ b \notin Self /\ lpc # "off" /\ ~heard[b]

Shape == ListenerShape /\ \A b \in Broadcasters : PeerShape(b)

-----------------------------------------------------------------------------
(* The socket's queue *)

\* Where in the queue q the datagrams of b are.
Places(q, b) == {k \in 1 .. Len(q) : q[k] = b}

\* The places of b, 0 for the datagram that receive_from has returned.
At(b) == Places(inbox, b) \cup (IF got = b THEN {0} ELSE {})

\* All that is under way of b's announcement.
UnderWay(b) == copies[b] + Cardinality(Places(inbox, b)) + (IF got = b THEN 1 ELSE 0)

\* The longest time until the datagram at place k has been handled.
Turn(k) == (IF lpc = "handle" THEN Late - since ELSE 0) + k * Late

\* A running peer does not send again before its datagram has been handled.
HandledFirst(b) ==
    /\ copies[b] > 0 => due[b] = Interval - travel[b]
    /\ \A k \in At(b) : due[b] > Turn(k) + Spare(b)

\* No more than one announcement of b is under way.
QueueOf(b) ==
    /\ UnderWay(b) <= MaxCopies
    /\ on[b] = "new" => UnderWay(b) = 0
    /\ on[b] = "running" => HandledFirst(b)

\* The queue never holds more than one announcement of each broadcaster, and
\* one other datagram in front.
QueueInv ==
    /\ \A k \in 1 .. Len(inbox) : inbox[k] = Junk => k = 1
    /\ \A b \in Broadcasters : QueueOf(b)

-----------------------------------------------------------------------------
(* The listener's looks at its table *)

\* It is j turns, and what has passed of this one, since the last look.
Looked(j) ==
    /\ toPrint >= -(Late + j * Round + wait + since)
    /\ \A a \in Address :
          seen[a] # Absent => seen[a] <= StaleAfter + Late + j * Round + wait + since

\* The longest time that is left of this turn.
LeftOfTurn == IF lpc = "handle" THEN Late - since ELSE Round - wait

\* The last j turns each used up a copy of the listener's own announcement, that
\* of b, and this turn ends before the next announcement.
Skipped(b, j) ==
    /\ Looked(j)
    /\ on[b] # "new"
    /\ j + UnderWay(b) <= MaxCopies
    /\ on[b] = "running" => due[b] > LeftOfTurn

\* A turn ends with a look, or with a datagram of the listener's own host.
LookInv ==
    lpc # "off" => Looked(0) \/ \E b \in Self, j \in 1 .. MaxCopies : Skipped(b, j)

-----------------------------------------------------------------------------
(* The announcements of a peer *)

\* From one announcement to the next that gets through, handled.
Longest == (MaxLost + 1) * (Interval + Late) + MaxDelay + Late * Before

\* x, the time since something last happened, is accounted for by the
\* announcements of b that got lost and the one that is next, under way, in the
\* queue or in the listener's hands.
Recent(b, x) ==
    \/ x <= lost[b] * (Interval + Late) + Interval - due[b]
    \/ copies[b] > 0 /\ x <= (MaxLost + 1) * (Interval + Late) + travel[b]
    \/ \E k \in At(b) : x + Turn(k) <= Longest

\* The time for which a peer has not been found.
FoundInv ==
    \A b \in Broadcasters \ Self :
        on[b] = "running" /\ lpc # "off" /\ ~heard[b] => Recent(b, unheard[b])

\* The time since a peer was last heard of.
ListedInv ==
    \A b \in Broadcasters :
        heard[b] => seen[AddressOf[b]] # Absent /\ Recent(b, seen[AddressOf[b]])

\* The listener keeps up with the broadcasters, in its queue and in its table.
KeepsUp == Shape /\ QueueInv /\ LookInv /\ FoundInv

=============================================================================
