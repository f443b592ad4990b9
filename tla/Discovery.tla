----------------------------- MODULE Discovery -----------------------------
(***************************************************************************)
(* Peer discovery: broadcasters announce themselves over UDP, the listener *)
(* keeps a table of the peers it has heard of and drops the silent ones.   *)
(*                                                                         *)
(* Time passes in ticks.  What the code compares are differences of times, *)
(* so the state holds the time left to a deadline or passed since an       *)
(* event, and Tick moves them all.  A process that may go on does so       *)
(* within Late ticks.  All broadcasters announce the compiled-in transfer  *)
(* port, hence peer_key, address and port, is the address.                 *)
(***************************************************************************)
EXTENDS Integers, Sequences, FiniteSets

CONSTANTS
    Broadcasters,   \* broadcaster processes
    AddressOf,      \* per broadcaster: the address its datagrams come from
    Self,           \* those that announce the listener's host name over loopback
    Interval,       \* between two announcements: 2 seconds
    StaleAfter,     \* a peer is dropped when silent for longer: 10 seconds
    TableEvery,     \* between two prints of the table: 3 seconds
    Poll,           \* receive timeout: 500 milliseconds
    Late,           \* how late a process may go on
    MaxDelay,       \* how long a datagram may be on its way
    MaxLost,        \* how many announcements in a row may get lost
    MaxCopies,      \* how many times a datagram may arrive
    Absent, Junk

Address == {AddressOf[b] : b \in Broadcasters}

ASSUME DiscoveryAssumption ==
    /\ IsFiniteSet(Broadcasters) /\ Self \subseteq Broadcasters
    /\ Interval \in Nat /\ StaleAfter \in Nat /\ TableEvery \in Nat /\ Poll \in Nat
    /\ Late \in Nat /\ MaxDelay \in Nat /\ MaxLost \in Nat /\ MaxCopies \in Nat
    /\ MaxDelay < Interval
    /\ Absent \notin Int /\ Junk # Absent
    /\ {Absent, Junk} \cap Broadcasters = {}

VARIABLES
    on,         \* per broadcaster: not started yet, running, or ended
    due,        \* per broadcaster: time left of its sleep
    copies,     \* per broadcaster: copies of its last datagram still on their way
    travel,     \* per broadcaster: how long they have been
    lost,       \* per broadcaster: announcements lost in a row
    heard,      \* per broadcaster: an announcement was taken in since it started
    unheard,    \* per broadcaster: how long it and the listener run before that
    inbox,      \* datagrams in the listener's socket
    lpc,        \* the listener is off, in receive_from, or handles its result
    wait,       \* how long receive_from has waited
    got,        \* what it returned: a broadcaster's datagram, Junk, or Absent
    since,      \* time passed since now was read
    seen,       \* peers: time passed since last_seen, Absent if not listed
    toPrint     \* time left to next_table_print

bVars == <<on, due, copies, travel, lost>>
lVars == <<lpc, wait, got, since, seen, toPrint>>
vars  == <<bVars, lVars, heard, unheard, inbox>>

TypeOK ==
    /\ on \in [Broadcasters -> {"new", "running", "ended"}]
    /\ due \in [Broadcasters -> -Late .. Interval]
    /\ copies \in [Broadcasters -> 0 .. MaxCopies]
    /\ travel \in [Broadcasters -> 0 .. MaxDelay]
    /\ lost \in [Broadcasters -> 0 .. MaxLost]
    /\ heard \in [Broadcasters -> BOOLEAN]
    /\ unheard \in [Broadcasters -> Nat]
    /\ inbox \in Seq(Broadcasters \cup {Junk})
    /\ lpc \in {"off", "recv", "handle"}
    /\ wait \in 0 .. Poll + Late
    /\ got \in Broadcasters \cup {Junk, Absent}
    /\ since \in 0 .. Late
    /\ seen \in [Address -> Nat \cup {Absent}]
    /\ toPrint \in Int

Init ==
    /\ on = [b \in Broadcasters |-> "new"]
    /\ due = [b \in Broadcasters |-> 0]
    /\ copies = [b \in Broadcasters |-> 0]
    /\ travel = [b \in Broadcasters |-> 0]
    /\ lost = [b \in Broadcasters |-> 0]
    /\ heard = [b \in Broadcasters |-> FALSE]
    /\ unheard = [b \in Broadcasters |-> 0]
    /\ inbox = <<>>
    /\ lpc = "off"
    /\ wait = 0
    /\ got = Absent
    /\ since = 0
    /\ seen = [a \in Address |-> Absent]
    /\ toPrint = 0

-----------------------------------------------------------------------------
(* The broadcaster *)

\* The socket is open and may broadcast; a process that gets neither returns.
BStart(b) ==
    /\ on[b] = "new"
    /\ on' = [on EXCEPT ![b] = "running"]
    /\ UNCHANGED <<due, copies, travel, lost, heard, unheard, inbox, lVars>>

\* A signal, or the end of the process in any other way.  A peer that comes back
\* is another broadcaster of the same address.
BStop(b) ==
    /\ on[b] = "running"
    /\ on' = [on EXCEPT ![b] = "ended"]
    /\ due' = [due EXCEPT ![b] = 0]
    /\ lost' = [lost EXCEPT ![b] = 0]
    /\ heard' = [heard EXCEPT ![b] = FALSE]
    /\ unheard' = [unheard EXCEPT ![b] = 0]
    /\ UNCHANGED <<copies, travel, inbox, lVars>>

\* A datagram that send_to fails to resolve or to send, or that the network
\* loses, has no copies.
send_to(b) ==
    \E n \in 0 .. MaxCopies :
        /\ n = 0 => lost[b] < MaxLost
        /\ lost' = [lost EXCEPT ![b] = IF n = 0 THEN @ + 1 ELSE 0]
        /\ copies' = [copies EXCEPT ![b] = n]
        /\ travel' = [travel EXCEPT ![b] = 0]

\* Mutant: the interval is slept twice.
BSend_SleepsTwice(b) ==
    /\ on[b] = "running" /\ due[b] <= 0 /\ copies[b] = 0
    /\ send_to(b)
    /\ due' = [due EXCEPT ![b] = 2 * Interval]
    /\ UNCHANGED <<on, heard, unheard, inbox, lVars>>

\* One round of the loop: send_to, then sleep, whether it has worked or not.
BSend(b) ==
    /\ on[b] = "running" /\ due[b] <= 0 /\ copies[b] = 0
    /\ send_to(b)
    /\ due' = [due EXCEPT ![b] = Interval]
    /\ UNCHANGED <<on, heard, unheard, inbox, lVars>>

-----------------------------------------------------------------------------
(* The network *)

\* A datagram for a port that nobody has bound is gone.
Arrive(b) ==
    /\ copies[b] > 0
    /\ copies' = [copies EXCEPT ![b] = @ - 1]
    /\ travel' = [travel EXCEPT ![b] = IF copies[b] = 1 THEN 0 ELSE @]
    /\ inbox' = IF lpc = "off" THEN inbox ELSE Append(inbox, b)
    /\ UNCHANGED <<on, due, lost, heard, unheard, lVars>>

\* A datagram that parse_discovery_message refuses.  It comes to an empty
\* socket only: how much foreign traffic waits at a time is bounded by one.
ArriveJunk ==
    /\ lpc # "off" /\ inbox = <<>>
    /\ inbox' = <<Junk>>
    /\ UNCHANGED <<bVars, heard, unheard, lVars>>

-----------------------------------------------------------------------------
(* The listener *)

\* From here on datagrams reach the socket.  A process that cannot bind its
\* port closes the socket and returns.
bind_to == lpc = "off" /\ lpc' = "recv"

LStart ==
    /\ bind_to
    /\ toPrint' = 0
    /\ UNCHANGED <<bVars, heard, unheard, inbox, wait, got, since, seen>>

\* A signal, or the end of the process in any other way: socket and table go.
LStop ==
    /\ lpc # "off"
    /\ lpc' = "off"
    /\ heard' = [b \in Broadcasters |-> FALSE]
    /\ unheard' = [b \in Broadcasters |-> 0]
    /\ inbox' = <<>>
    /\ wait' = 0 /\ got' = Absent /\ since' = 0 /\ toPrint' = 0
    /\ seen' = [a \in Address |-> Absent]
    /\ UNCHANGED bVars

\* receive_from returns a datagram; then now is read.
LReceive ==
    /\ lpc = "recv"
    /\ inbox # <<>>
    /\ got' = Head(inbox)
    /\ inbox' = Tail(inbox)
    /\ lpc' = "handle"
    /\ since' = 0
    /\ UNCHANGED <<bVars, heard, unheard, wait, seen, toPrint>>

\* receive_from returns nothing.
Nothing ==
    /\ got' = Absent
    /\ lpc' = "handle"
    /\ since' = 0
    /\ UNCHANGED <<bVars, heard, unheard, inbox, wait, seen, toPrint>>

\* receive_from times out.
LTimeout == lpc = "recv" /\ inbox = <<>> /\ wait >= Poll /\ Nothing

\* receive_from fails, interrupted while it waits: to the loop, a timeout.
LError == lpc = "recv" /\ inbox = <<>> /\ Nothing

\* last_seen is read while the datagram is parsed, after now was read.
Noted ==
    IF got \in Broadcasters THEN [seen EXCEPT ![AddressOf[got]] = 0] ELSE seen

\* Mutant: a peer is dropped as soon as it has been silent for StaleAfter.
Stale_AtOnce(table, a) == table[a] # Absent /\ table[a] - since >= StaleAfter

\* now - last_seen > stale_after
Stale(table, a) == table[a] # Absent /\ table[a] - since > StaleAfter

remove_stale_peers(table) ==
    [a \in Address |-> IF Stale(table, a) THEN Absent ELSE table[a]]

\* The next round of the loop.
Again ==
    /\ lpc' = "recv"
    /\ wait' = 0
    /\ got' = Absent
    /\ since' = 0
    /\ UNCHANGED <<bVars, inbox>>

Hear ==
    LET now == {b \in Broadcasters : b = got /\ on[b] = "running"}
    IN  /\ heard' = [b \in Broadcasters |-> heard[b] \/ b \in now]
        /\ unheard' = [b \in Broadcasters |-> IF b \in now THEN 0 ELSE unheard[b]]

\* continue: the listener's own announcement.
LSkipSelf ==
    /\ lpc = "handle"
    /\ got \in Self
    /\ Again
    /\ UNCHANGED <<heard, unheard, seen, toPrint>>

\* Mutant: the table is only looked after when a datagram was received.
LHandle_OnDatagram ==
    /\ lpc = "handle"
    /\ got \notin Self
    /\ Again
    /\ Hear
    /\ seen' = IF got = Absent THEN seen ELSE remove_stale_peers(Noted)
    /\ toPrint' = IF got # Absent /\ toPrint + since <= 0 THEN TableEvery - since ELSE toPrint

\* Note the peer, drop the stale ones, and print the table when it is time:
\* all by the now that was read before.
LHandle ==
    /\ lpc = "handle"
    /\ got \notin Self
    /\ Again
    /\ Hear
    /\ seen' = remove_stale_peers(Noted)
    /\ toPrint' = IF toPrint + since <= 0 THEN TableEvery - since ELSE toPrint

-----------------------------------------------------------------------------
(* Time *)

\* A tick passes only if nobody would then be later than allowed.
Tick ==
    /\ \A b \in Broadcasters :
          /\ on[b] = "running" => due[b] > -Late
          /\ copies[b] > 0 => travel[b] < MaxDelay
    /\ lpc = "recv" => inbox = <<>> /\ wait < Poll + Late
    /\ lpc = "handle" => since < Late
    /\ due' = [b \in Broadcasters |-> IF on[b] = "running" THEN due[b] - 1 ELSE due[b]]
    /\ travel' = [b \in Broadcasters |-> IF copies[b] > 0 THEN travel[b] + 1 ELSE travel[b]]
    /\ wait' = IF lpc = "recv" THEN wait + 1 ELSE wait
    /\ since' = IF lpc = "handle" THEN since + 1 ELSE since
    /\ seen' = [a \in Address |-> IF seen[a] = Absent THEN Absent ELSE seen[a] + 1]
    /\ unheard' = [b \in Broadcasters |->
          IF on[b] = "running" /\ b \notin Self /\ lpc # "off" /\ ~heard[b]
          THEN unheard[b] + 1 ELSE unheard[b]]
    /\ toPrint' = IF lpc = "off" THEN toPrint ELSE toPrint - 1
    /\ UNCHANGED <<on, copies, lost, heard, inbox, lpc, got>>

Next ==
    \/ \E b \in Broadcasters : BStart(b) \/ BStop(b) \/ BSend(b) \/ Arrive(b)
    \/ ArriveJunk
    \/ LStart \/ LStop \/ LReceive \/ LTimeout \/ LError \/ LSkipSelf \/ LHandle
    \/ Tick

Spec == Init /\ [][Next]_vars

-----------------------------------------------------------------------------
(* Properties *)

\* The longest time between two looks at the table: a wait, its handling, and
\* as much again for every copy of the listener's own announcement, which skips
\* the look.
BetweenLooks == (Poll + 2 * Late) * (IF Self = {} THEN 1 ELSE 1 + MaxCopies)

\* A peer that has fallen silent is dropped in time, whatever else arrives.
GoneInTime ==
    \A a \in Address : seen[a] # Absent => seen[a] <= StaleAfter + Late + BetweenLooks

\* The table is printed in time, whatever arrives.
TableInTime == toPrint >= -(Late + BetweenLooks)

\* A peer that keeps announcing itself stays listed, even when MaxLost of its
\* announcements in a row are lost.
StaysListed ==
    \A b \in Broadcasters : on[b] = "running" /\ heard[b] => seen[AddressOf[b]] # Absent

\* Other datagrams that may be handled before one that has arrived, and the
\* round that is under way.
Before == 2 + Cardinality(Broadcasters) * MaxCopies

\* A peer is listed in time once it and the listener run, whichever of them came
\* first: one announcement may go to a listener that is not there yet, MaxLost
\* may get lost, and the next waits for the datagrams before it.
FoundInTime ==
    \A b \in Broadcasters :
        unheard[b] <= (MaxLost + 1) * (Interval + Late) + MaxDelay + Late * Before

=============================================================================
