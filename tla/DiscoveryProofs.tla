--------------------------- MODULE DiscoveryProofs ---------------------------
(***************************************************************************)
(* Peer discovery is in time: for any number of broadcasters, any timing   *)
(* that lets the listener keep up, any loss within the bound, and any mix  *)
(* of duplicates, foreign datagrams, starts and stops.                     *)
(***************************************************************************)
EXTENDS DiscoveryInv, DiscoveryMessage, Recursion, FiniteSetTheorems, SequenceTheorems, TLAPS

-----------------------------------------------------------------------------
(* Types *)

(* What the listener notes has the type of its table. *)
LEMMA TableType ==
    ASSUME TypeOK
    PROVE  /\ Noted \in [Address -> Nat \cup {Absent}]
           /\ remove_stale_peers(Noted) \in [Address -> Nat \cup {Absent}]
PROOF
  <1>1. Noted \in [Address -> Nat \cup {Absent}]
    BY DEF TypeOK, Noted, Address
  <1> QED
    BY <1>1 DEF remove_stale_peers

(* Every step keeps the types, the deadlines' ranges among them. *)
LEMMA TypeStep == TypeOK /\ [Next]_vars => TypeOK'
PROOF
  <1> SUFFICES ASSUME TypeOK, [Next]_vars PROVE TypeOK'
    OBVIOUS
  <1>0. /\ Interval \in Nat /\ Poll \in Nat /\ Late \in Nat /\ MaxDelay \in Nat
        /\ MaxLost \in Nat /\ MaxCopies \in Nat /\ TableEvery \in Nat
    BY DiscoveryAssumption
  <1>a. 0 \in -Late .. Interval /\ 0 \in 0 .. MaxDelay /\ 0 \in 0 .. MaxLost
    BY <1>0
  <1> USE <1>0
  <1>1. ASSUME NEW b \in Broadcasters, BStart(b) PROVE TypeOK'
    BY <1>1 DEF BStart, lVars, TypeOK
  <1>2. ASSUME NEW b \in Broadcasters, BStop(b) PROVE TypeOK'
    <2>1. /\ due' \in [Broadcasters -> -Late .. Interval] /\ lost' \in [Broadcasters -> 0 .. MaxLost]
          /\ on' \in [Broadcasters -> {"new", "running", "ended"}]
      BY <1>a, <1>2 DEF BStop, TypeOK
    <2>2. heard' \in [Broadcasters -> BOOLEAN] /\ unheard' \in [Broadcasters -> Nat]
      BY <1>2 DEF BStop, TypeOK
    <2> QED
      BY <1>2, <2>1, <2>2 DEF BStop, lVars, TypeOK
  <1>3. ASSUME NEW b \in Broadcasters, BSend(b) PROVE TypeOK'
    <2>1. PICK n \in 0 .. MaxCopies :
            /\ n = 0 => lost[b] < MaxLost
            /\ lost' = [lost EXCEPT ![b] = IF n = 0 THEN @ + 1 ELSE 0]
            /\ copies' = [copies EXCEPT ![b] = n]
            /\ travel' = [travel EXCEPT ![b] = 0]
      BY <1>3 DEF BSend, send_to
    <2>2. lost' \in [Broadcasters -> 0 .. MaxLost]
      <3>1. lost[b] \in 0 .. MaxLost
        BY DEF TypeOK
      <3>2. (IF n = 0 THEN lost[b] + 1 ELSE 0) \in 0 .. MaxLost
        BY <2>1, <3>1
      <3> QED
        BY <2>1, <3>2 DEF TypeOK
    <2>3. /\ copies' \in [Broadcasters -> 0 .. MaxCopies]
          /\ travel' \in [Broadcasters -> 0 .. MaxDelay]
      BY <1>a, <2>1 DEF TypeOK
    <2>4. due' \in [Broadcasters -> -Late .. Interval]
      BY <1>3 DEF BSend, TypeOK
    <2> QED
      BY <1>3, <2>2, <2>3, <2>4 DEF BSend, lVars, TypeOK
  <1>4. ASSUME NEW b \in Broadcasters, Arrive(b) PROVE TypeOK'
    <2>1. inbox' \in Seq(Broadcasters \cup {Junk})
      BY <1>4 DEF Arrive, TypeOK
    <2>2. copies[b] - 1 \in 0 .. MaxCopies /\ (IF copies[b] = 1 THEN 0 ELSE travel[b]) \in 0 .. MaxDelay
      <3>1. copies[b] \in 0 .. MaxCopies /\ travel[b] \in 0 .. MaxDelay
        BY DEF TypeOK
      <3>2. copies[b] > 0
        BY <1>4 DEF Arrive
      <3> QED
        BY <1>a, <3>1, <3>2
    <2>3. /\ copies' \in [Broadcasters -> 0 .. MaxCopies]
          /\ travel' \in [Broadcasters -> 0 .. MaxDelay]
      BY <1>4, <2>2 DEF Arrive, TypeOK
    <2> QED
      BY <1>4, <2>1, <2>3 DEF Arrive, lVars, TypeOK
  <1>5. CASE ArriveJunk
    BY <1>5, SMTT(30) DEF ArriveJunk, bVars, lVars, TypeOK
  <1>6. CASE LStart
    BY <1>6 DEF LStart, bind_to, bVars, TypeOK
  <1>7. CASE LStop
    BY <1>7 DEF LStop, bVars, TypeOK
  <1>8. CASE LReceive
    <2>1. /\ inbox' \in Seq(Broadcasters \cup {Junk}) /\ got' \in Broadcasters \cup {Junk, Absent}
          /\ since' \in 0 .. Late
      BY <1>8 DEF LReceive, TypeOK
    <2> QED
      BY <1>8, <2>1 DEF LReceive, bVars, TypeOK
  <1>9. CASE LTimeout \/ LError
    <2>1. Nothing
      BY <1>9 DEF LTimeout, LError
    <2>2. got' \in Broadcasters \cup {Junk, Absent} /\ since' \in 0 .. Late
      BY <2>1 DEF Nothing
    <2> QED
      BY <2>1, <2>2 DEF Nothing, bVars, TypeOK
  <1>10. CASE LSkipSelf
    BY <1>10 DEF LSkipSelf, Again, bVars, TypeOK
  <1>11. CASE LHandle
    <2>1. seen' \in [Address -> Nat \cup {Absent}]
      BY <1>11, TableType DEF LHandle
    <2>2. toPrint' \in Int
      BY <1>11 DEF LHandle, TypeOK
    <2>3. heard' \in [Broadcasters -> BOOLEAN] /\ unheard' \in [Broadcasters -> Nat]
      BY <1>11 DEF LHandle, Hear, TypeOK
    <2> QED
      BY <1>11, <2>1, <2>2, <2>3 DEF LHandle, Again, bVars, TypeOK
  <1>12. CASE Tick
    <2>1. due' \in [Broadcasters -> -Late .. Interval] /\ travel' \in [Broadcasters -> 0 .. MaxDelay]
      <3>1. ASSUME NEW b \in Broadcasters
            PROVE  /\ (IF on[b] = "running" THEN due[b] - 1 ELSE due[b]) \in -Late .. Interval
                   /\ (IF copies[b] > 0 THEN travel[b] + 1 ELSE travel[b]) \in 0 .. MaxDelay
        <4>1. due[b] \in -Late .. Interval /\ travel[b] \in 0 .. MaxDelay
          BY DEF TypeOK
        <4>2. /\ on[b] = "running" => due[b] > -Late
              /\ copies[b] > 0 => travel[b] < MaxDelay
          BY <1>12 DEF Tick
        <4> QED
          BY <4>1, <4>2
      <3> QED
        BY <1>12, <3>1 DEF Tick
    <2>2. wait' \in 0 .. Poll + Late /\ since' \in 0 .. Late /\ toPrint' \in Int
      <3>1. /\ wait \in 0 .. Poll + Late /\ since \in 0 .. Late /\ toPrint \in Int
            /\ wait' = IF lpc = "recv" THEN wait + 1 ELSE wait
            /\ since' = IF lpc = "handle" THEN since + 1 ELSE since
            /\ toPrint' = IF lpc = "off" THEN toPrint ELSE toPrint - 1
            /\ lpc = "recv" => wait < Poll + Late
            /\ lpc = "handle" => since < Late
        BY <1>12 DEF Tick, TypeOK
      <3> QED
        BY <3>1
    <2>3. seen' \in [Address -> Nat \cup {Absent}]
      <3>1. ASSUME NEW a \in Address
            PROVE  (IF seen[a] = Absent THEN Absent ELSE seen[a] + 1) \in Nat \cup {Absent}
        <4>1. seen[a] \in Nat \cup {Absent}
          BY DEF TypeOK
        <4> QED
          BY <4>1
      <3> QED
        BY <1>12, <3>1 DEF Tick
    <2>4. unheard' \in [Broadcasters -> Nat]
      <3>1. ASSUME NEW b \in Broadcasters PROVE unheard[b] \in Nat /\ unheard[b] + 1 \in Nat
        <4>1. unheard[b] \in Nat
          BY DEF TypeOK
        <4> QED
          BY <4>1
      <3> QED
        BY <1>12, <3>1, Zenon DEF Tick
    <2> QED
      BY <1>12, <2>1, <2>2, <2>3, <2>4 DEF Tick, TypeOK
  <1>13. CASE UNCHANGED vars
    BY <1>13 DEF vars, bVars, lVars, TypeOK
  <1> QED
    BY <1>1, <1>2, <1>3, <1>4, <1>5, <1>6, <1>7, <1>8, <1>9, <1>10, <1>11, <1>12, <1>13
    DEF Next

(* The state of discovery keeps its types: sleeps, waits, travel times and   *)
(* losses stay within the bounds of the timing whoever starts and stops.     *)
THEOREM DiscoveryTypes == Spec => []TypeOK
PROOF
  <1>1. Init => TypeOK
    BY DiscoveryAssumption DEF Init, TypeOK
  <1> QED
    BY <1>1, TypeStep, PTL DEF Spec

-----------------------------------------------------------------------------
(* What is set where *)

(* Every step keeps the shape of the listener's and the peers' state. *)
LEMMA ShapeStep == TypeOK /\ Shape /\ [Next]_vars => Shape'
PROOF
  <1> SUFFICES ASSUME TypeOK, Shape, [Next]_vars PROVE Shape'
    OBVIOUS
  <1>0. ListenerShape /\ \A b \in Broadcasters : PeerShape(b)
    BY DEF Shape
  <1>1. ASSUME UNCHANGED <<lpc, got, since, inbox, wait, toPrint, seen>> PROVE ListenerShape'
    BY <1>0, <1>1 DEF ListenerShape
  <1>2. ASSUME UNCHANGED <<heard, unheard, on>>, lpc # "off" => lpc' # "off"
        PROVE  \A b \in Broadcasters : PeerShape(b)'
    BY <1>0, <1>2 DEF PeerShape
  <1>3. ASSUME NEW b \in Broadcasters, BStart(b) PROVE Shape'
    <2>1. /\ on[b] = "new" /\ on' = [on EXCEPT ![b] = "running"]
          /\ UNCHANGED <<heard, unheard, lpc, got, since, inbox, wait, toPrint, seen>>
          /\ on \in [Broadcasters -> {"new", "running", "ended"}]
      BY <1>3 DEF BStart, lVars, TypeOK
    <2>2. ASSUME NEW c \in Broadcasters PROVE PeerShape(c)'
      BY <1>0, <2>1 DEF PeerShape
    <2> QED
      BY <1>1, <2>1, <2>2 DEF Shape
  <1>4. ASSUME NEW b \in Broadcasters, BStop(b) PROVE Shape'
    <2>1. /\ on' = [on EXCEPT ![b] = "ended"]
          /\ heard' = [heard EXCEPT ![b] = FALSE] /\ unheard' = [unheard EXCEPT ![b] = 0]
          /\ UNCHANGED <<lpc, got, since, inbox, wait, toPrint, seen>>
          /\ on \in [Broadcasters -> {"new", "running", "ended"}]
          /\ heard \in [Broadcasters -> BOOLEAN] /\ unheard \in [Broadcasters -> Nat]
      BY <1>4 DEF BStop, lVars, TypeOK
    <2>2. ASSUME NEW c \in Broadcasters PROVE PeerShape(c)'
      <3>1. CASE c = b
        <4>1. heard'[c] = FALSE /\ unheard'[c] = 0
          BY <2>1, <3>1
        <4> QED
          BY <4>1 DEF PeerShape
      <3>2. CASE c # b
        <4>1. heard'[c] = heard[c] /\ unheard'[c] = unheard[c] /\ on'[c] = on[c] /\ lpc' = lpc
          BY <2>1, <3>2
        <4> QED
          BY <1>0, <4>1 DEF PeerShape
      <3> QED
        BY <3>1, <3>2
    <2> QED
      BY <1>1, <2>1, <2>2 DEF Shape
  <1>5. CASE \E b \in Broadcasters : BSend(b)
    BY <1>1, <1>2, <1>5 DEF BSend, lVars, Shape
  <1>6. CASE (\E b \in Broadcasters : Arrive(b)) \/ ArriveJunk
    <2>1. /\ UNCHANGED <<heard, unheard, on, lpc, got, since, wait, toPrint, seen>>
          /\ lpc = "off" => inbox' = inbox
      BY <1>6 DEF Arrive, ArriveJunk, bVars, lVars
    <2>2. ListenerShape'
      BY <1>0, <2>1 DEF ListenerShape
    <2> QED
      BY <1>2, <2>1, <2>2 DEF Shape
  <1>7. CASE LStart \/ LReceive \/ LTimeout \/ LError
    <2>1. /\ UNCHANGED <<heard, unheard, on>> /\ lpc' # "off"
          /\ lpc' # "handle" => UNCHANGED <<got, since>> /\ lpc # "handle"
      BY <1>7 DEF LStart, bind_to, LReceive, LTimeout, LError, Nothing, bVars
    <2>2. ListenerShape'
      BY <1>0, <2>1 DEF ListenerShape
    <2> QED
      BY <1>2, <2>1, <2>2 DEF Shape
  <1>8. CASE LStop
    <2>1. ListenerShape'
      BY <1>8 DEF LStop, ListenerShape
    <2>2. \A b \in Broadcasters : PeerShape(b)'
      BY <1>8 DEF LStop, PeerShape
    <2> QED
      BY <2>1, <2>2 DEF Shape
  <1>9. CASE LSkipSelf \/ LHandle
    <2>1. lpc' = "recv" /\ got' = Absent /\ since' = 0 /\ UNCHANGED on
      BY <1>9 DEF LSkipSelf, LHandle, Again, bVars
    <2>2. ListenerShape'
      BY <2>1 DEF ListenerShape
    <2>3. CASE LSkipSelf
      BY <1>2, <2>1, <2>2, <2>3 DEF LSkipSelf, Shape
    <2>4. CASE LHandle
      <3>1. ASSUME NEW b \in Broadcasters PROVE PeerShape(b)'
        <4>1. CASE b = got /\ on[b] = "running"
          <5>1. unheard'[b] = 0 /\ b \notin Self
            BY <2>4, <4>1 DEF LHandle, Hear
          <5> QED
            BY <2>1, <4>1, <5>1 DEF PeerShape
        <4>2. CASE ~(b = got /\ on[b] = "running")
          <5>1. heard'[b] = heard[b] /\ unheard'[b] = unheard[b]
            BY <2>4, <4>2 DEF LHandle, Hear, TypeOK
          <5> QED
            BY <1>0, <2>1, <5>1 DEF PeerShape
        <4> QED
          BY <4>1, <4>2
      <3> QED
        BY <2>2, <3>1 DEF Shape
    <2> QED
      BY <1>9, <2>3, <2>4
  <1>10. CASE Tick
    <2>1. /\ UNCHANGED <<on, heard, inbox, lpc, got>>
          /\ lpc # "handle" => since' = since
          /\ lpc = "off" => wait' = wait /\ toPrint' = toPrint
      BY <1>10 DEF Tick
    <2>2. \A a \in Address : seen[a] = Absent => seen'[a] = Absent
      BY <1>10 DEF Tick
    <2>3. ListenerShape'
      BY <1>0, <2>1, <2>2 DEF ListenerShape
    <2>4. ASSUME NEW b \in Broadcasters PROVE PeerShape(b)'
      <3>1. \/ unheard'[b] = unheard[b]
            \/ on[b] = "running" /\ b \notin Self /\ lpc # "off" /\ ~heard[b]
        BY <1>10 DEF Tick
      <3> QED
        BY <1>0, <2>1, <3>1 DEF PeerShape
    <2> QED
      BY <2>3, <2>4 DEF Shape
  <1>11. CASE UNCHANGED vars
    BY <1>1, <1>2, <1>11 DEF vars, bVars, lVars, Shape
  <1> QED
    BY <1>3, <1>4, <1>5, <1>6, <1>7, <1>8, <1>9, <1>10, <1>11 DEF Next

(* The shape holds at every moment. *)
LEMMA ShapeInvariant == Spec => []Shape
PROOF
  <1>1. Init => Shape
    BY DEF Init, Shape, ListenerShape, PeerShape
  <1> QED
    BY <1>1, ShapeStep, DiscoveryTypes, PTL DEF Spec

-----------------------------------------------------------------------------
(* Counting datagrams *)

(* The places of a datagram in a queue are finitely many. *)
LEMMA PlacesFinite ==
    ASSUME NEW S, NEW q \in Seq(S), NEW b
    PROVE  IsFiniteSet(Places(q, b)) /\ Cardinality(Places(q, b)) \in Nat
PROOF
  <1>1. IsFiniteSet(1 .. Len(q))
    BY FS_Interval
  <1>2. Places(q, b) \in SUBSET (1 .. Len(q))
    BY DEF Places
  <1>3. IsFiniteSet(Places(q, b))
    BY <1>1, <1>2, FS_Subset
  <1> QED
    BY <1>3, FS_CardinalityType

(* A datagram that arrives has the last place. *)
LEMMA PlacesAppend ==
    ASSUME NEW S, NEW q \in Seq(S), NEW x \in S, NEW b
    PROVE  /\ Places(Append(q, x), b) = Places(q, b) \cup (IF x = b THEN {Len(q) + 1} ELSE {})
           /\ Cardinality(Places(Append(q, x), b))
                 = Cardinality(Places(q, b)) + (IF x = b THEN 1 ELSE 0)
PROOF
  <1>1. Places(Append(q, x), b) = Places(q, b) \cup (IF x = b THEN {Len(q) + 1} ELSE {})
    BY DEF Places
  <1>2. Len(q) + 1 \notin Places(q, b)
    BY DEF Places
  <1>3. IsFiniteSet(Places(q, b)) /\ Cardinality(Places(q, b)) \in Nat
    BY PlacesFinite
  <1>4. CASE x = b
    BY <1>1, <1>2, <1>3, <1>4, FS_AddElement
  <1>5. CASE x # b
    <2>1. Places(Append(q, x), b) = Places(q, b)
      BY <1>1, <1>5
    <2> QED
      BY <1>1, <1>3, <1>5, <2>1
  <1> QED
    BY <1>4, <1>5

(* When the first one is taken out, the others move up. *)
LEMMA PlacesTail ==
    ASSUME NEW S, NEW q \in Seq(S), q # <<>>, NEW b
    PROVE  /\ \A k \in Places(Tail(q), b) : k + 1 \in Places(q, b)
           /\ \A k \in Places(q, b) : k # 1 => k - 1 \in Places(Tail(q), b)
           /\ Cardinality(Places(Tail(q), b))
                 <= Cardinality(Places(q, b)) - (IF Head(q) = b THEN 1 ELSE 0)
PROOF
  <1> DEFINE P == Places(q, b)
             T == Places(Tail(q), b)
             Q == P \ {1}
  <1>1. /\ Len(q) \in Nat \ {0} /\ Len(Tail(q)) = Len(q) - 1 /\ Head(q) = q[1]
        /\ \A k \in 1 .. Len(Tail(q)) : Tail(q)[k] = q[k + 1]
    OBVIOUS
  <1>2. \A k \in T : k \in Nat \ {0} /\ k + 1 \in P
    BY <1>1 DEF Places
  <1>3. \A k \in P : k # 1 => k - 1 \in T
    BY <1>1 DEF Places
  <1>4. IsFiniteSet(P) /\ Cardinality(P) \in Nat
    BY PlacesFinite
  <1>5. 1 \in P <=> Head(q) = b
    BY <1>1 DEF Places
  <1> HIDE DEF P, T
  <1>6. IsFiniteSet(Q) /\ Cardinality(Q) = Cardinality(P) - (IF Head(q) = b THEN 1 ELSE 0)
    BY <1>4, <1>5, FS_RemoveElement
  <1>7. Cardinality(T) <= Cardinality(Q)
    <2> DEFINE f == [k \in T |-> k + 1]
    <2>1. f \in [T -> Q]
      BY <1>2
    <2>2. \A j, k \in T : f[j] = f[k] => j = k
      BY <1>2
    <2>3. f \in Injection(T, Q)
      BY <2>1, <2>2 DEF Injection, IsInjective
    <2> QED
      BY <1>6, <2>3, FS_Injection
  <1> QED
    BY <1>2, <1>3, <1>6, <1>7 DEF P, T

(* A queue that holds each of the datagrams B at most n times, and another   *)
(* one only in front, has a bounded length: number the datagrams of equal    *)
(* origin.                                                                   *)
LEMMA QueueLength ==
    ASSUME NEW B, IsFiniteSet(B), NEW j, j \notin B, NEW n \in Nat,
           NEW q \in Seq(B \cup {j}),
           \A k \in 1 .. Len(q) : q[k] = j => k = 1,
           \A b \in B : Cardinality(Places(q, b)) <= n
    PROVE  Len(q) <= 1 + Cardinality(B) * n
PROOF
  <1> DEFINE L == Len(q)
             K == 2 .. L
             upTo(k) == {i \in Places(q, q[k]) : i <= k}
             rank(k) == Cardinality(upTo(k))
             f == [k \in K |-> <<q[k], rank(k)>>]
  <1>1. L \in Nat /\ \A k \in K : k \in 1 .. L /\ q[k] \in B
    OBVIOUS
  <1>2. ASSUME NEW k \in K
        PROVE  IsFiniteSet(upTo(k)) /\ rank(k) \in 1 .. n /\ k \in upTo(k)
    <2>1. IsFiniteSet(Places(q, q[k])) /\ Cardinality(Places(q, q[k])) \in Nat
      BY PlacesFinite
    <2>2. upTo(k) \in SUBSET Places(q, q[k])
      OBVIOUS
    <2>3. IsFiniteSet(upTo(k)) /\ rank(k) <= Cardinality(Places(q, q[k]))
      BY <2>1, <2>2, FS_Subset
    <2>4. k \in upTo(k)
      BY <1>1 DEF Places
    <2>5. rank(k) \in Nat /\ rank(k) # 0
      BY <2>3, <2>4, FS_CardinalityType, FS_EmptySet
    <2>6. Cardinality(Places(q, q[k])) <= n
      BY <1>1
    <2> HIDE DEF rank, upTo
    <2> QED
      BY <2>1, <2>3, <2>4, <2>5, <2>6
  <1>3. ASSUME NEW i \in K, NEW k \in K, i < k, q[i] = q[k]
        PROVE  rank(i) # rank(k)
    <2>1. upTo(i) \in SUBSET upTo(k)
      <3>1. \A x \in Places(q, q[k]) : x \in Int
        BY DEF Places
      <3>2. \A x \in Int : x <= i => x <= k
        BY <1>1, <1>3
      <3> QED
        BY <1>3, <3>1, <3>2
    <2>2. k \notin upTo(i)
      BY <1>3
    <2>3. upTo(i) # upTo(k)
      BY <1>2, <2>2
    <2> HIDE DEF upTo
    <2> QED
      BY <1>2, <2>1, <2>3, FS_Subset
  <1> DEFINE T == B \X (1 .. n)
  <1> HIDE DEF rank
  <1>4. f \in [K -> T]
    BY <1>1, <1>2
  <1>5. \A i, k \in K : f[i] = f[k] => i = k
    <2> SUFFICES ASSUME NEW i \in K, NEW k \in K, f[i] = f[k] PROVE i = k
      OBVIOUS
    <2>1. q[i] = q[k] /\ rank(i) = rank(k)
      OBVIOUS
    <2> QED
      BY <1>3, <2>1
  <1>6. f \in Injection(K, T)
    <2> HIDE DEF f, K, T
    <2> QED
      BY <1>4, <1>5 DEF Injection, IsInjective
  <1>7. IsFiniteSet(1 .. n) /\ Cardinality(1 .. n) = n
    BY FS_Interval
  <1>8. IsFiniteSet(T) /\ Cardinality(T) = Cardinality(B) * n
    BY <1>7, FS_Product
  <1>9. Cardinality(K) <= Cardinality(T)
    BY <1>6, <1>8, FS_Injection
  <1>10. Cardinality(K) = IF 2 > L THEN 0 ELSE L - 2 + 1
    <2>1. 2 \in Int /\ L \in Int
      BY <1>1
    <2> QED
      BY <2>1, FS_Interval
  <1>11. Cardinality(B) \in Nat /\ Cardinality(B) * n \in Nat
    BY FS_CardinalityType
  <1> HIDE DEF L, K, T
  <1>12. L <= 1 + Cardinality(B) * n
    BY <1>1, <1>8, <1>9, <1>10, <1>11
  <1> QED
    BY <1>12 DEF L

-----------------------------------------------------------------------------
(* The listener keeps up with its queue *)

(* Multiples of a natural number. *)
LEMMA Scaled ==
    ASSUME NEW c \in Nat, NEW k \in Nat
    PROVE  /\ k * c \in Nat
           /\ (k + 1) * c = k * c + c
           /\ \A j \in Nat : j <= k => j * c <= k * c
PROOF
  <1>1. k * c \in Nat /\ (k + 1) * c = k * c + c
    OBVIOUS
  <1>2. ASSUME NEW j \in Nat, j <= k PROVE j * c <= k * c
    <2>1. PICK d \in Nat : k = j + d
      <3>1. k - j \in Nat /\ k = j + (k - j)
        BY <1>2
      <3> QED
        BY <3>1
    <2>2. k * c = j * c + d * c /\ d * c \in Nat /\ j * c \in Nat
      BY <2>1
    <2> QED
      BY <2>2
  <1> QED
    BY <1>1, <1>2

(* The constants are natural numbers, and so are the bounds made of them. *)
LEMMA Bounds ==
    /\ Interval \in Nat /\ StaleAfter \in Nat /\ TableEvery \in Nat /\ Poll \in Nat
    /\ Late \in Nat /\ MaxDelay \in Nat /\ MaxLost \in Nat /\ MaxCopies \in Nat
    /\ Round \in Nat /\ Before \in Nat /\ Late * Before \in Nat
    /\ \A b : Spare(b) \in Nat
PROOF
  <1>1. /\ Interval \in Nat /\ StaleAfter \in Nat /\ TableEvery \in Nat /\ Poll \in Nat
        /\ Late \in Nat /\ MaxDelay \in Nat /\ MaxLost \in Nat /\ MaxCopies \in Nat
        /\ Cardinality(Broadcasters) \in Nat
    BY DiscoveryAssumption, FS_CardinalityType
  <1>2. Round \in Nat /\ Before \in Nat
    BY <1>1 DEF Round, Before
  <1>3. Late * Before \in Nat
    BY <1>1, <1>2
  <1>4. \A b : Spare(b) \in Nat
    BY <1>2 DEF Spare
  <1> QED
    BY <1>1, <1>2, <1>3, <1>4

(* The listener is within Late ticks of having handled what it holds. *)
LEMMA HandlingTime ==
    ASSUME TypeOK
    PROVE  Late - since \in Nat /\ Late - since <= Late
PROOF
  <1>1. since \in 0 .. Late
    BY DEF TypeOK
  <1> QED
    BY <1>1, Bounds

(* A datagram in a short queue is handled within Late ticks for each one     *)
(* before it, itself, and what the listener has in its hands.                *)
LEMMA Room ==
    ASSUME NEW q \in Seq(Broadcasters \cup {Junk}),
           \A k \in 1 .. Len(q) : q[k] = Junk => k = 1,
           \A d \in Broadcasters : Cardinality(Places(q, d)) <= MaxCopies,
           NEW k \in Nat, k <= Len(q), NEW r \in Nat, r <= Late
    PROVE  r + k * Late <= Late * Before
PROOF
  <1>1. IsFiniteSet(Broadcasters) /\ Junk \notin Broadcasters /\ MaxCopies \in Nat
    BY DiscoveryAssumption
  <1>2. Len(q) <= 1 + Cardinality(Broadcasters) * MaxCopies
    BY <1>1, QueueLength
  <1>3. Cardinality(Broadcasters) * MaxCopies \in Nat
    BY <1>1, FS_CardinalityType
  <1>4. k + 1 <= Before
    BY <1>2, <1>3 DEF Before
  <1>5. k * Late \in Nat /\ (k + 1) * Late = k * Late + Late
    BY Bounds, Scaled
  <1>6. (k + 1) * Late <= Before * Late
    BY <1>4, Bounds, Scaled
  <1>7. Before * Late = Late * Before
    BY Bounds
  <1> QED
    BY <1>5, <1>6, <1>7, Bounds

(* The places of a datagram, and how long each of them takes at most. *)
LEMMA TurnType ==
    ASSUME TypeOK, NEW b
    PROVE  /\ At(b) \subseteq Nat
           /\ \A k \in Nat : Turn(k) \in Nat
           /\ IsFiniteSet(Places(inbox, b)) /\ Cardinality(Places(inbox, b)) \in Nat
           /\ b \in Broadcasters => UnderWay(b) \in Nat
PROOF
  <1>1. At(b) \subseteq Nat
    BY DEF At, Places
  <1>2. ASSUME NEW k \in Nat PROVE Turn(k) \in Nat
    <2>1. k * Late \in Nat
      BY Bounds, Scaled
    <2>2. Late - since \in Nat
      BY Bounds, HandlingTime
    <2> QED
      BY <2>1, <2>2 DEF Turn
  <1>3. IsFiniteSet(Places(inbox, b)) /\ Cardinality(Places(inbox, b)) \in Nat
    BY PlacesFinite DEF TypeOK
  <1>4. ASSUME b \in Broadcasters PROVE UnderWay(b) \in Nat
    <2>1. copies[b] \in Nat
      BY <1>4, Bounds DEF TypeOK
    <2> QED
      BY <1>3, <2>1 DEF UnderWay
  <1> QED
    BY <1>1, <1>2, <1>3, <1>4

(* Nothing of b is under way when the count is 0. *)
LEMMA NothingUnderWay ==
    ASSUME TypeOK, NEW b \in Broadcasters, UnderWay(b) = 0
    PROVE  copies[b] = 0 /\ At(b) = {}
PROOF
  <1>1. IsFiniteSet(Places(inbox, b)) /\ Cardinality(Places(inbox, b)) \in Nat
    BY TurnType
  <1>2. copies[b] \in Nat
    BY Bounds DEF TypeOK
  <1>3. copies[b] = 0 /\ Cardinality(Places(inbox, b)) = 0 /\ got # b
    BY <1>1, <1>2 DEF UnderWay
  <1>4. Places(inbox, b) = {}
    BY <1>1, <1>3, FS_EmptySet
  <1> QED
    BY <1>3, <1>4 DEF At

(* A running peer that may send again has nothing under way. *)
LEMMA ReadyToSend ==
    ASSUME TypeOK, QueueInv, NEW b \in Broadcasters, on[b] = "running", due[b] <= 0
    PROVE  At(b) = {}
PROOF
  <1> SUFFICES ASSUME NEW k \in At(b) PROVE FALSE
    OBVIOUS
  <1>1. due[b] > Turn(k) + Spare(b)
    BY DEF QueueInv, QueueOf, HandledFirst
  <1>2. Turn(k) \in Nat
    <2>1. k \in Nat
      BY TurnType
    <2> QED
      BY <2>1, TurnType
  <1>3. Spare(b) \in Nat
    BY Bounds
  <1>4. due[b] \in Int
    BY Bounds DEF TypeOK
  <1> QED
    BY <1>1, <1>2, <1>3, <1>4

(* A step that does not touch b or the queue. *)
LEMMA KeptQueue ==
    ASSUME NEW b \in Broadcasters, QueueOf(b),
           on'[b] = on[b], due'[b] = due[b], copies'[b] = copies[b], travel'[b] = travel[b],
           Places(inbox, b)' = Places(inbox, b), UNCHANGED <<got, lpc, since>>
    PROVE  QueueOf(b)'
PROOF
  <1>1. At(b)' = At(b) /\ UnderWay(b)' = UnderWay(b)
    BY DEF At, UnderWay
  <1>2. \A k : Turn(k)' = Turn(k)
    BY DEF Turn
  <1>3. HandledFirst(b) => HandledFirst(b)'
    BY <1>1, <1>2 DEF HandledFirst, Spare
  <1> QED
    BY <1>1, <1>3 DEF QueueOf

(* The places and the count after a step. *)
LEMMA After ==
    ASSUME NEW b
    PROVE  /\ At(b)' = Places(inbox', b) \cup (IF got' = b THEN {0} ELSE {})
           /\ UnderWay(b)' = copies'[b] + Cardinality(Places(inbox', b))
                                + (IF got' = b THEN 1 ELSE 0)
           /\ \A k : Turn(k)' = (IF lpc' = "handle" THEN Late - since' ELSE 0) + k * Late
PROOF
  <1>1. Places(inbox, b)' = Places(inbox', b)
    BY DEF Places
  <1> QED
    BY <1>1 DEF At, UnderWay, Turn

(* A step after which every datagram of b that remains is handled as soon. *)
LEMMA MovedQueue ==
    ASSUME NEW b \in Broadcasters, QueueOf(b), TypeOK, TypeOK',
           on'[b] = on[b], due'[b] = due[b], copies'[b] = copies[b], travel'[b] = travel[b],
           UnderWay(b)' <= UnderWay(b),
           \A k \in At(b)' : \E i \in At(b) : Turn(k)' <= Turn(i)
    PROVE  QueueOf(b)'
PROOF
  <1>1. UnderWay(b)' \in Nat /\ UnderWay(b) \in Nat
    <2>1. Cardinality(Places(inbox', b)) \in Nat
      BY PlacesFinite DEF TypeOK
    <2>2. copies'[b] \in Nat
      BY Bounds DEF TypeOK
    <2> QED
      BY <2>1, <2>2, After, TurnType
  <1>2. ASSUME HandledFirst(b) PROVE HandledFirst(b)'
    <2>1. ASSUME NEW k \in At(b)' PROVE due'[b] > Turn(k)' + Spare(b)
      <3>1. PICK i \in At(b) : Turn(k)' <= Turn(i)
        BY <2>1
      <3>2. due[b] > Turn(i) + Spare(b)
        BY <1>2 DEF HandledFirst
      <3>3. Turn(i) \in Nat
        <4>1. i \in Nat
          BY TurnType
        <4> QED
          BY <4>1, TurnType
      <3>4. k \in Nat
        <4>1. Places(inbox', b) \subseteq Nat
          BY DEF Places
        <4> QED
          BY <4>1, After
      <3>5. Turn(k)' \in Int
        <4>1. k * Late \in Nat
          BY <3>4, Bounds, Scaled
        <4>2. Late - since' \in Int
          BY Bounds DEF TypeOK
        <4> QED
          BY <4>1, <4>2, After
      <3>6. due[b] \in Int
        BY Bounds DEF TypeOK
      <3>7. Spare(b) \in Nat
        BY Bounds
      <3> QED
        BY <3>1, <3>2, <3>3, <3>5, <3>6, <3>7
    <2> QED
      BY <1>2, <2>1 DEF HandledFirst, Spare
  <1>3. UnderWay(b)' <= MaxCopies /\ (on[b] = "new" => UnderWay(b)' = 0)
    BY <1>1, Bounds DEF QueueOf
  <1> QED
    BY <1>2, <1>3 DEF QueueOf

(* Other steps of the listener: its next turn begins, nothing has come, or   *)
(* it stops.                                                                 *)
LEMMA ListenerQueue ==
    ASSUME TypeOK, TypeOK', Shape, NEW b \in Broadcasters, QueueOf(b),
           LStart \/ LStop \/ LTimeout \/ LError \/ LSkipSelf \/ LHandle
    PROVE  QueueOf(b)' /\ UnderWay(b)' <= UnderWay(b)
PROOF
  <1>1. /\ UNCHANGED bVars
        /\ got' = Absent
        /\ inbox' = inbox \/ inbox' = <<>>
        /\ inbox' = <<>> \/ (lpc' # "handle" /\ inbox' = inbox)
    BY DEF LStart, bind_to, LStop, LTimeout, LError, Nothing, LSkipSelf, LHandle, Again,
           Shape, ListenerShape
  <1>2. b # Absent
    BY DiscoveryAssumption
  <1>3. UnderWay(b)' = copies[b] + Cardinality(Places(inbox', b)) + 0 /\ At(b)' = Places(inbox', b)
    BY <1>1, <1>2, After DEF bVars
  <1>4. copies[b] \in Nat /\ Cardinality(Places(inbox, b)) \in Nat
    <2>1. copies[b] \in Nat
      BY Bounds DEF TypeOK
    <2> QED
      BY <2>1, TurnType
  <1>5. CASE inbox' = <<>>
    <2>1. Places(<<>>, b) = {}
      BY DEF Places
    <2>2. At(b)' = {} /\ UnderWay(b)' = copies[b] + 0 + 0
      BY <1>3, <1>5, <2>1, FS_EmptySet
    <2>3. UnderWay(b)' <= UnderWay(b)
      BY <1>4, <2>2 DEF UnderWay
    <2> QED
      BY <1>1, <2>2, <2>3, MovedQueue DEF bVars
  <1>6. CASE lpc' # "handle" /\ inbox' = inbox
    <2>1. UnderWay(b)' <= UnderWay(b)
      BY <1>3, <1>4, <1>6 DEF UnderWay
    <2>2. At(b)' \subseteq At(b) /\ At(b)' \subseteq Nat
      BY <1>3, <1>6, TurnType DEF At
    <2>3. ASSUME NEW k \in Nat PROVE Turn(k)' <= Turn(k)
      <3>1. Turn(k)' = 0 + k * Late
        BY <1>6, After
      <3>2. k * Late \in Nat
        BY Bounds, Scaled
      <3>3. Late - since \in Nat
        BY Bounds, HandlingTime
      <3> QED
        BY <3>1, <3>2, <3>3 DEF Turn
    <2> QED
      BY <1>1, <2>1, <2>2, <2>3, MovedQueue DEF bVars
  <1> QED
    BY <1>1, <1>5, <1>6

(* receive_from takes the first datagram out: all of them move up. *)
LEMMA ReceiveQueue ==
    ASSUME TypeOK, TypeOK', Shape, NEW b \in Broadcasters, QueueOf(b), LReceive
    PROVE  QueueOf(b)' /\ UnderWay(b)' <= UnderWay(b)
PROOF
  <1>1. /\ UNCHANGED bVars
        /\ inbox # <<>> /\ got' = Head(inbox) /\ inbox' = Tail(inbox)
        /\ lpc = "recv" /\ lpc' = "handle" /\ since' = 0 /\ got = Absent
    BY DEF LReceive, Shape, ListenerShape
  <1>2. b # Absent
    BY DiscoveryAssumption
  <1>3. inbox \in Seq(Broadcasters \cup {Junk}) /\ copies[b] \in Nat
    BY Bounds DEF TypeOK
  <1>4. /\ \A k \in Places(Tail(inbox), b) : k + 1 \in Places(inbox, b)
        /\ Cardinality(Places(Tail(inbox), b))
              <= Cardinality(Places(inbox, b)) - (IF Head(inbox) = b THEN 1 ELSE 0)
    BY <1>1, <1>3, PlacesTail
  <1>5. UnderWay(b)' <= UnderWay(b)
    <2>1. /\ UnderWay(b)' = copies[b] + Cardinality(Places(Tail(inbox), b))
                               + (IF Head(inbox) = b THEN 1 ELSE 0)
          /\ UnderWay(b) = copies[b] + Cardinality(Places(inbox, b)) + 0
      BY <1>1, <1>2, After DEF UnderWay, bVars
    <2>2. Tail(inbox) \in Seq(Broadcasters \cup {Junk})
      BY <1>1, <1>3
    <2>3. /\ Cardinality(Places(inbox, b)) \in Nat
          /\ Cardinality(Places(Tail(inbox), b)) \in Nat
      BY <1>3, <2>2, PlacesFinite
    <2> QED
      BY <1>3, <1>4, <2>1, <2>3
  <1>6. ASSUME NEW k \in At(b)' PROVE k \in Nat /\ k + 1 \in At(b)
    <2>1. k \in Places(Tail(inbox), b) \/ (k = 0 /\ Head(inbox) = b)
      BY <1>1, <1>6, After
    <2>2. CASE k \in Places(Tail(inbox), b)
      <3>1. k \in Nat
        BY <2>2 DEF Places
      <3> QED
        BY <1>4, <2>2, <3>1 DEF At
    <2>3. CASE k = 0 /\ Head(inbox) = b
      <3>1. 1 \in Places(inbox, b)
        BY <1>1, <1>3, <2>3 DEF Places
      <3> QED
        BY <2>3, <3>1 DEF At
    <2> QED
      BY <2>1, <2>2, <2>3
  <1>7. ASSUME NEW k \in Nat PROVE Turn(k)' <= Turn(k + 1)
    <2>1. Turn(k)' = Late - 0 + k * Late /\ Turn(k + 1) = 0 + (k + 1) * Late
      BY <1>1, After DEF Turn
    <2>2. k * Late \in Nat /\ (k + 1) * Late = k * Late + Late
      BY Bounds, Scaled
    <2> QED
      BY <2>1, <2>2, Bounds
  <1> QED
    BY <1>1, <1>5, <1>6, <1>7, MovedQueue DEF bVars

(* A broadcaster starts, stops or sends: it sends when nothing of it is      *)
(* under way.                                                                *)
LEMMA BroadcasterQueue ==
    ASSUME Paced, TypeOK, TypeOK', QueueInv, NEW c \in Broadcasters,
           BStart(c) \/ BStop(c) \/ BSend(c), NEW b \in Broadcasters
    PROVE  QueueOf(b)'
PROOF
  <1>1. UNCHANGED <<inbox, got, lpc, since>> /\ QueueOf(b)
    BY DEF BStart, BStop, BSend, lVars, QueueInv
  <1>2. Places(inbox, b)' = Places(inbox, b)
    BY <1>1 DEF Places
  <1>3. CASE b # c
    <2>1. on'[b] = on[b] /\ due'[b] = due[b] /\ copies'[b] = copies[b] /\ travel'[b] = travel[b]
      BY <1>3 DEF BStart, BStop, BSend, send_to, TypeOK
    <2> QED
      BY <1>1, <1>2, <2>1, KeptQueue
  <1>4. CASE b = c
    <2>0. /\ At(b)' = At(b) /\ \A k : Turn(k)' = Turn(k)
          /\ copies'[b] = copies[b] => UnderWay(b)' = UnderWay(b)
      BY <1>1, <1>2 DEF At, UnderWay, Turn
    <2>1. CASE BStart(b)
      <3>1. on[b] = "new" /\ on'[b] = "running" /\ copies'[b] = copies[b]
        BY <2>1 DEF BStart, TypeOK
      <3>2. UnderWay(b) = 0
        BY <1>1, <3>1 DEF QueueOf
      <3>3. copies[b] = 0 /\ At(b) = {}
        BY <3>2, NothingUnderWay
      <3>4. HandledFirst(b)'
        BY <2>0, <3>1, <3>3 DEF HandledFirst
      <3> QED
        BY <1>1, <2>0, <3>1, <3>4 DEF QueueOf
    <2>2. CASE BStop(b)
      <3>1. on'[b] = "ended" /\ copies'[b] = copies[b]
        BY <2>2 DEF BStop, TypeOK
      <3> QED
        BY <1>1, <2>0, <3>1 DEF QueueOf
    <2>3. CASE BSend(b)
      <3>1. /\ on[b] = "running" /\ on'[b] = "running" /\ due[b] <= 0
            /\ due'[b] = Interval /\ travel'[b] = 0
        BY <2>3 DEF BSend, send_to, TypeOK
      <3>2. At(b) = {}
        BY <3>1, ReadyToSend
      <3>3. Places(inbox', b) = {} /\ got' # b
        BY <2>0, <3>2, After
      <3>4. UnderWay(b)' = copies'[b] + 0 + 0
        BY <3>3, After, FS_EmptySet
      <3>5. copies'[b] \in 0 .. MaxCopies
        BY DEF TypeOK
      <3>6. UnderWay(b)' <= MaxCopies
        BY <3>4, <3>5, Bounds
      <3>7. HandledFirst(b)'
        BY <2>0, <3>1, <3>2, Bounds DEF HandledFirst
      <3> QED
        BY <3>1, <3>6, <3>7 DEF QueueOf
    <2> QED
      BY <1>4, <2>1, <2>2, <2>3
  <1> QED
    BY <1>3, <1>4

(* A tick passes when the queue is empty or while a datagram is handled. *)
LEMMA TickQueue ==
    ASSUME TypeOK, TypeOK', Shape, NEW b \in Broadcasters, QueueOf(b), Tick
    PROVE  QueueOf(b)'
PROOF
  <1>1. /\ UNCHANGED <<inbox, got, lpc, on, copies>>
        /\ lpc = "handle" => since' = since + 1
    BY DEF Tick
  <1>2. Places(inbox, b)' = Places(inbox, b)
    BY <1>1 DEF Places
  <1>3. At(b)' = At(b) /\ UnderWay(b)' = UnderWay(b)
    BY <1>1, <1>2 DEF At, UnderWay
  <1>4. ASSUME on[b] = "running", HandledFirst(b) PROVE HandledFirst(b)'
    <2>1. due'[b] = due[b] - 1 /\ due[b] \in Int
      BY <1>4, Bounds DEF Tick, TypeOK
    <2>2. ASSUME copies[b] > 0 PROVE due'[b] = Interval - travel'[b]
      <3>1. travel'[b] = travel[b] + 1 /\ travel[b] \in Int
        BY <2>2, Bounds DEF Tick, TypeOK
      <3>2. due[b] = Interval - travel[b]
        BY <1>4, <2>2 DEF HandledFirst
      <3> QED
        BY <2>1, <3>1, <3>2, Bounds
    <2>3. ASSUME NEW k \in At(b) PROVE due'[b] > Turn(k)' + Spare(b)
      <3>1. lpc = "handle"
        <4>1. CASE lpc # "handle"
          <5>1. inbox = <<>> /\ got = Absent
            BY <4>1 DEF Tick, TypeOK, Shape, ListenerShape
          <5>2. Places(<<>>, b) = {}
            BY DEF Places
          <5> QED
            BY <2>3, <5>1, <5>2, DiscoveryAssumption DEF At
        <4> QED
          BY <4>1
      <3>2. Turn(k)' = Late - (since + 1) + k * Late /\ Turn(k) = Late - since + k * Late
        BY <1>1, <3>1, After DEF Turn
      <3>3. due[b] > Turn(k) + Spare(b)
        BY <1>4, <2>3 DEF HandledFirst
      <3>4. k \in Nat
        BY <2>3, TurnType
      <3>5. k * Late \in Nat
        BY <3>4, Bounds, Scaled
      <3>6. since \in Int
        BY Bounds DEF TypeOK
      <3>7. Spare(b) \in Nat /\ Late \in Nat
        BY Bounds
      <3> QED
        BY <2>1, <3>2, <3>3, <3>5, <3>6, <3>7
    <2> QED
      BY <1>1, <1>3, <2>2, <2>3 DEF HandledFirst, Spare
  <1> QED
    BY <1>1, <1>3, <1>4 DEF QueueOf

(* A datagram arrives: everything before it in the queue is handled, and it, *)
(* before its broadcaster sends again.                                       *)
LEMMA ArriveQueue ==
    ASSUME Paced, TypeOK, TypeOK', QueueInv, NEW c \in Broadcasters, Arrive(c),
           \A k \in 1 .. Len(inbox') : inbox'[k] = Junk => k = 1,
           NEW b \in Broadcasters
    PROVE  QueueOf(b)' /\ UnderWay(b)' <= UnderWay(b)
PROOF
  <1> DEFINE S == Broadcasters \cup {Junk}
             new(d) == d = c /\ lpc # "off"
  <1>1. /\ UNCHANGED <<on, due, got, lpc, since>>
        /\ inbox' = IF lpc = "off" THEN inbox ELSE Append(inbox, c)
        /\ copies[c] > 0
    BY DEF Arrive, lVars
  <1>2. inbox \in Seq(S) /\ inbox' \in Seq(S) /\ c \in S
    BY DEF TypeOK
  <1>3. ASSUME NEW d \in Broadcasters
        PROVE  /\ copies[d] \in Nat /\ Cardinality(Places(inbox, d)) \in Nat
               /\ copies'[d] = copies[d] - (IF d = c THEN 1 ELSE 0)
               /\ Places(inbox', d) = Places(inbox, d) \cup (IF new(d) THEN {Len(inbox) + 1} ELSE {})
               /\ Cardinality(Places(inbox', d))
                     = Cardinality(Places(inbox, d)) + (IF new(d) THEN 1 ELSE 0)
    <2>1. copies[d] \in Nat /\ copies'[d] = copies[d] - (IF d = c THEN 1 ELSE 0)
      <3>1. copies[d] \in Nat
        BY Bounds DEF TypeOK
      <3>2. copies' = [copies EXCEPT ![c] = @ - 1] /\ DOMAIN copies = Broadcasters
        BY DEF TypeOK, Arrive
      <3> QED
        BY <3>1, <3>2
    <2>2. Cardinality(Places(inbox, d)) \in Nat
      BY TurnType
    <2>3. CASE lpc = "off"
      BY <1>1, <2>1, <2>2, <2>3
    <2>4. CASE lpc # "off"
      BY <1>1, <1>2, <2>1, <2>2, <2>4, PlacesAppend
    <2> QED
      BY <2>3, <2>4
  <1>4. ASSUME NEW d \in Broadcasters
        PROVE  UnderWay(d)' <= UnderWay(d) /\ UnderWay(d)' \in Nat /\ UnderWay(d) \in Nat
    <2>1. /\ UnderWay(d)' = copies'[d] + Cardinality(Places(inbox', d)) + (IF got = d THEN 1 ELSE 0)
          /\ UnderWay(d) = copies[d] + Cardinality(Places(inbox, d)) + (IF got = d THEN 1 ELSE 0)
      BY <1>1, After DEF UnderWay
    <2>2. d = c => copies[d] > 0
      BY <1>1
    <2> QED
      BY <1>3, <2>1, <2>2
  <1>5. ASSUME NEW d \in Broadcasters PROVE Cardinality(Places(inbox', d)) <= MaxCopies
    <2>1. UnderWay(d) <= MaxCopies
      BY DEF QueueInv, QueueOf
    <2>2. copies'[d] \in Nat
      BY <1>1, <1>3
    <2>3. UnderWay(d)' = copies'[d] + Cardinality(Places(inbox', d)) + (IF got = d THEN 1 ELSE 0)
      BY <1>1, After
    <2>4. Cardinality(Places(inbox', d)) \in Nat
      BY <1>2, PlacesFinite
    <2>5. MaxCopies \in Nat
      BY Bounds
    <2>6. Cardinality(Places(inbox', d)) <= UnderWay(d)'
      BY <2>2, <2>3, <2>4
    <2> QED
      BY <1>4, <2>1, <2>4, <2>5, <2>6
  <1>7. ASSUME on[b] = "running", HandledFirst(b) PROVE HandledFirst(b)'
    <2>1. ASSUME copies'[b] > 0 PROVE due'[b] = Interval - travel'[b]
      <3>1. copies[b] > 0 /\ (b = c => copies[b] # 1)
        BY <1>3, <2>1
      <3>2. travel'[b] = travel[b]
        BY <3>1 DEF Arrive, TypeOK
      <3> QED
        BY <1>1, <1>7, <3>1, <3>2 DEF HandledFirst
    <2>2. ASSUME NEW k \in At(b)' PROVE due'[b] > Turn(k)' + Spare(b)
      <3>1. Turn(k)' = Turn(k)
        BY <1>1 DEF Turn
      <3>2. k \in At(b) \/ (new(b) /\ k = Len(inbox) + 1)
        BY <1>1, <1>3, <2>2, After DEF At
      <3>3. CASE k \in At(b)
        BY <1>1, <1>7, <3>1, <3>3 DEF HandledFirst
      <3>4. CASE new(b) /\ k = Len(inbox) + 1
        <4>1. due[b] = Interval - travel[b]
          BY <1>1, <1>7, <3>4 DEF HandledFirst
        <4>2. travel[b] \in 0 .. MaxDelay
          BY DEF TypeOK
        <4>3. Interval > MaxDelay + Late * Before + Spare(b)
          BY DEF Paced
        <4>4. k \in Nat /\ k <= Len(inbox')
          BY <1>1, <1>2, <3>4
        <4>5. 0 \in Nat /\ 0 <= Late /\ Late - since \in Nat /\ Late - since <= Late
          BY Bounds, HandlingTime
        <4>6. 0 + k * Late <= Late * Before /\ (Late - since) + k * Late <= Late * Before
          BY <1>2, <1>5, <4>4, <4>5, Room
        <4>7. Turn(k) <= Late * Before
          BY <4>6 DEF Turn
        <4>8. Turn(k) \in Nat
          BY <4>4, TurnType
        <4>9. Spare(b) \in Nat
          BY Bounds
        <4> QED
          BY <1>1, <3>1, <4>1, <4>2, <4>3, <4>7, <4>8, <4>9, Bounds
      <3> QED
        BY <3>2, <3>3, <3>4
    <2> QED
      BY <2>1, <2>2 DEF HandledFirst, Spare
  <1>8. UnderWay(b)' <= MaxCopies /\ (on[b] = "new" => UnderWay(b)' = 0)
    <2>1. UnderWay(b) <= MaxCopies /\ (on[b] = "new" => UnderWay(b) = 0)
      BY DEF QueueInv, QueueOf
    <2> QED
      BY <1>4, <2>1, Bounds
  <1> QED
    BY <1>1, <1>4, <1>7, <1>8 DEF QueueInv, QueueOf

(* Every step keeps the queue short: one announcement of each broadcaster. *)
LEMMA QueueStep ==
    ASSUME Paced, TypeOK, TypeOK', Shape, QueueInv, [Next]_vars
    PROVE  QueueInv'
PROOF
  <1>1. \A k \in 1 .. Len(inbox') : inbox'[k] = Junk => k = 1
    <2>1. \/ inbox' = inbox \/ inbox' = <<>> \/ inbox' = <<Junk>>
          \/ \E c \in Broadcasters : inbox' = Append(inbox, c)
          \/ inbox # <<>> /\ inbox' = Tail(inbox)
      BY DEF Next, vars, BStart, BStop, BSend, Arrive, ArriveJunk, LStart, LStop, LReceive,
             LTimeout, LError, Nothing, LSkipSelf, LHandle, Again, Tick
    <2>2. \A k \in 1 .. Len(inbox) : inbox[k] = Junk => k = 1
      BY DEF QueueInv
    <2>3. inbox \in Seq(Broadcasters \cup {Junk}) /\ Junk \notin Broadcasters
      BY DiscoveryAssumption DEF TypeOK
    <2>4. CASE inbox' = inbox \/ inbox' = <<>> \/ inbox' = <<Junk>>
      BY <2>2, <2>4
    <2>5. ASSUME NEW c \in Broadcasters, inbox' = Append(inbox, c)
          PROVE  \A k \in 1 .. Len(inbox') : inbox'[k] = Junk => k = 1
      BY <2>2, <2>3, <2>5
    <2>6. CASE inbox # <<>> /\ inbox' = Tail(inbox)
      <3>1. /\ Len(inbox) \in Nat \ {0} /\ Len(inbox') = Len(inbox) - 1
            /\ \A k \in 1 .. Len(inbox') : inbox'[k] = inbox[k + 1]
        BY <2>3, <2>6
      <3> QED
        BY <2>2, <3>1
    <2> QED
      BY <2>1, <2>4, <2>5, <2>6
  <1>2. ASSUME NEW b \in Broadcasters PROVE QueueOf(b)'
    <2>0. QueueOf(b)
      BY DEF QueueInv
    <2>1. ASSUME NEW c \in Broadcasters, BStart(c) \/ BStop(c) \/ BSend(c) PROVE QueueOf(b)'
      BY <2>1, BroadcasterQueue
    <2>2. ASSUME NEW c \in Broadcasters, Arrive(c) PROVE QueueOf(b)'
      BY <1>1, <2>2, ArriveQueue
    <2>3. CASE ArriveJunk
      <3>1. inbox = <<>> /\ inbox' = <<Junk>> /\ b # Junk /\ UNCHANGED <<bVars, lVars>>
        BY <2>3, DiscoveryAssumption DEF ArriveJunk
      <3>2. Places(inbox, b)' = Places(inbox, b)
        BY <3>1 DEF Places
      <3> QED
        BY <2>0, <3>1, <3>2, KeptQueue DEF bVars, lVars
    <2>4. CASE LStart \/ LStop \/ LTimeout \/ LError \/ LSkipSelf \/ LHandle
      BY <2>0, <2>4, ListenerQueue
    <2>5. CASE LReceive
      BY <2>0, <2>5, ReceiveQueue
    <2>6. CASE Tick
      BY <2>0, <2>6, TickQueue
    <2>7. CASE UNCHANGED vars
      <3>1. Places(inbox, b)' = Places(inbox, b)
        BY <2>7 DEF vars, Places
      <3> QED
        BY <2>0, <2>7, <3>1, KeptQueue DEF vars, bVars, lVars
    <2> QED
      BY <2>1, <2>2, <2>3, <2>4, <2>5, <2>6, <2>7 DEF Next
  <1> QED
    BY <1>1, <1>2 DEF QueueInv

(* Where broadcasters are slow enough, the queue is always short. *)
LEMMA QueueInvariant ==
    ASSUME Paced
    PROVE  Spec => []QueueInv
PROOF
  <1>1. Init => QueueInv
    <2> SUFFICES ASSUME Init PROVE QueueInv
      OBVIOUS
    <2>1. /\ inbox = <<>> /\ got = Absent
          /\ \A b \in Broadcasters : on[b] = "new" /\ copies[b] = 0
      BY DEF Init
    <2>2. \A b : Places(<<>>, b) = {}
      BY DEF Places
    <2>3. ASSUME NEW b \in Broadcasters PROVE UnderWay(b) = 0
      <3>1. got # b
        BY <2>1, DiscoveryAssumption
      <3>2. UnderWay(b) = 0 + Cardinality({}) + 0
        BY <2>1, <2>2, <3>1 DEF UnderWay
      <3> QED
        BY <3>2, FS_EmptySet
    <2> QED
      BY <2>1, <2>3, Bounds DEF QueueInv, QueueOf
  <1>2. TypeOK /\ TypeOK' /\ Shape /\ QueueInv /\ [Next]_vars => QueueInv'
    BY QueueStep
  <1> QED
    BY <1>1, <1>2, DiscoveryTypes, ShapeInvariant, PTL DEF Spec

-----------------------------------------------------------------------------
(* The listener looks at its table in time *)

(* Times that a step of another process leaves alone, and a tick moves       *)
(* together.                                                                 *)
LEMMA LookedKept ==
    ASSUME TypeOK, Shape, NEW j \in Nat, Looked(j), lpc # "off",
           \/ UNCHANGED <<toPrint, seen, wait, since>>
           \/ LReceive \/ LTimeout \/ LError \/ Tick
    PROVE  Looked(j)'
PROOF
  <1>0. j * Round \in Nat
    BY Bounds, Scaled
  <1>1. /\ wait \in Int /\ since \in Int /\ toPrint \in Int
        /\ \A a \in Address : seen[a] # Absent => seen[a] \in Int
    BY Bounds DEF TypeOK
  <1>2. CASE Tick
    <2>1. /\ toPrint' = toPrint - 1
          /\ \/ wait' = wait + 1 /\ since' = since
             \/ wait' = wait /\ since' = since + 1
      BY <1>1, <1>2 DEF Tick, TypeOK
    <2>2. ASSUME NEW a \in Address, seen'[a] # Absent
          PROVE  seen[a] # Absent /\ seen'[a] = seen[a] + 1
      BY <1>2, <2>2 DEF Tick
    <2> DEFINE m == j * Round
    <2>3. /\ m \in Nat /\ Late \in Nat /\ StaleAfter \in Nat
          /\ toPrint >= -(Late + m + wait + since)
          /\ \A a \in Address : seen[a] # Absent => seen[a] <= StaleAfter + Late + m + wait + since
      BY <1>0, Bounds DEF Looked
    <2> HIDE DEF m
    <2>4. toPrint' >= -(Late + m + wait' + since')
      BY <1>1, <2>1, <2>3
    <2>5. ASSUME NEW a \in Address, seen'[a] # Absent
          PROVE  seen'[a] <= StaleAfter + Late + m + wait' + since'
      <3>1. seen[a] # Absent /\ seen'[a] = seen[a] + 1
        BY <2>2, <2>5
      <3>2. seen[a] \in Int /\ seen[a] <= StaleAfter + Late + m + wait + since
        BY <1>1, <2>3, <3>1
      <3> QED
        BY <1>1, <2>1, <2>3, <3>1, <3>2
    <2> QED
      BY <2>4, <2>5 DEF Looked, Round, m
  <1>3. CASE LReceive \/ LTimeout \/ LError
    <2>1. UNCHANGED <<toPrint, seen, wait, since>>
      BY <1>3 DEF LReceive, LTimeout, LError, Nothing, Shape, ListenerShape
    <2> QED
      BY <2>1 DEF Looked, Round
  <1>4. CASE UNCHANGED <<toPrint, seen, wait, since>>
    BY <1>4 DEF Looked, Round
  <1> QED
    BY <1>2, <1>3, <1>4

(* A look drops what is stale by now, and prints the table if it is time. *)
LEMMA LooksNow ==
    ASSUME TypeOK, LHandle
    PROVE  Looked(0)'
PROOF
  <1>1. wait' = 0 /\ since' = 0 /\ since \in 0 .. Late /\ toPrint \in Int
    BY DEF LHandle, Again, TypeOK
  <1>2. toPrint' >= -Late /\ toPrint' \in Int
    <2>1. toPrint' = IF toPrint + since <= 0 THEN TableEvery - since ELSE toPrint
      BY DEF LHandle
    <2> QED
      BY <1>1, <2>1, Bounds
  <1>3. ASSUME NEW a \in Address, seen'[a] # Absent PROVE seen'[a] <= StaleAfter + Late
    <2>1. seen'[a] = Noted[a] /\ ~Stale(Noted, a)
      BY <1>3 DEF LHandle, remove_stale_peers
    <2>2. Noted[a] # Absent /\ Noted[a] \in Nat \cup {Absent}
      BY <1>3, <2>1, TableType
    <2>3. ~(Noted[a] - since > StaleAfter)
      BY <2>1, <2>2 DEF Stale
    <2> HIDE DEF Noted
    <2> QED
      BY <1>1, <2>1, <2>2, <2>3, Bounds
  <1>4. \A a \in Address : seen'[a] # Absent => seen'[a] \in Int
    <2>1. seen' \in [Address -> Nat \cup {Absent}]
      BY TableType DEF LHandle
    <2> QED
      BY <2>1
  <1>5. 0 * Round = 0
    BY Bounds
  <1>6. -(Late + 0 + 0 + 0) = -Late /\ StaleAfter + Late + 0 + 0 + 0 = StaleAfter + Late
    BY Bounds
  <1> QED
    BY <1>1, <1>2, <1>3, <1>5, <1>6 DEF Looked, Round

(* The look is one turn longer ago after a turn without it. *)
LEMMA LookedBefore ==
    ASSUME TypeOK, NEW j \in Nat, Looked(j), LSkipSelf
    PROVE  Looked(j + 1)'
PROOF
  <1>1. /\ wait' = 0 /\ since' = 0 /\ toPrint' = toPrint /\ seen' = seen
        /\ wait \in 0 .. Poll + Late /\ since \in 0 .. Late /\ toPrint \in Int
    BY DEF LSkipSelf, Again, TypeOK
  <1>2. j * Round \in Nat /\ (j + 1) * Round = j * Round + Round
    BY Bounds, Scaled
  <1>3. wait + since <= Round
    BY <1>1, Bounds DEF Round
  <1>4. toPrint' >= -(Late + (j + 1) * Round + wait' + since')
    BY <1>1, <1>2, <1>3, Bounds DEF Looked
  <1>5. ASSUME NEW a \in Address, seen'[a] # Absent
        PROVE  seen'[a] <= StaleAfter + Late + (j + 1) * Round + wait' + since'
    <2>1. seen[a] \in Nat
      BY <1>1, <1>5 DEF TypeOK
    <2>2. seen[a] <= StaleAfter + Late + j * Round + wait + since
      BY <1>1, <1>5 DEF Looked
    <2> QED
      BY <1>1, <1>2, <1>3, <2>1, <2>2, Bounds
  <1> QED
    BY <1>4, <1>5 DEF Looked, Round

(* While turns go by without a look, the next announcement of b, the only    *)
(* one of the listener's host, does not come before this turn ends.          *)
LEMMA SkippedStep ==
    ASSUME Paced, TypeOK, TypeOK', Shape, QueueInv, QueueInv', [Next]_vars,
           NEW b \in Self, NEW j \in 1 .. MaxCopies, Skipped(b, j), lpc # "off",
           ~LStop, ~LSkipSelf, ~LHandle
    PROVE  Skipped(b, j)'
PROOF
  <1>0. b \in Broadcasters /\ b \in Self
    BY DiscoveryAssumption
  <1>1. /\ Looked(j) /\ on[b] # "new" /\ j + UnderWay(b) <= MaxCopies /\ j \in Nat
        /\ on[b] = "running" => due[b] > LeftOfTurn
    BY Bounds DEF Skipped
  <1>2. UnderWay(b)' \in Nat /\ UnderWay(b) \in Nat
    <2>1. Cardinality(Places(inbox', b)) \in Nat
      BY PlacesFinite DEF TypeOK
    <2>2. copies'[b] \in Nat
      BY <1>0, Bounds DEF TypeOK
    <2> QED
      BY <1>0, <2>1, <2>2, After, TurnType
  <1>3. LeftOfTurn \in Nat
    <2>1. wait \in 0 .. Poll + Late /\ since \in 0 .. Late
      BY DEF TypeOK
    <2> QED
      BY <2>1, Bounds DEF LeftOfTurn, Round
  <1>4. ASSUME Looked(j)', UnderWay(b)' <= UnderWay(b), on'[b] # "new",
               on'[b] = "running" => due'[b] > LeftOfTurn'
        PROVE  Skipped(b, j)'
    BY <1>1, <1>2, <1>4, Bounds DEF Skipped
  <1>5. ASSUME UNCHANGED lVars, UnderWay(b)' <= UnderWay(b), on'[b] = on[b], due'[b] = due[b]
        PROVE  Skipped(b, j)'
    <2>1. Looked(j)'
      BY <1>1, <1>5, LookedKept DEF lVars
    <2>2. LeftOfTurn' = LeftOfTurn
      BY <1>5 DEF LeftOfTurn, Round, lVars
    <2> QED
      BY <1>1, <1>4, <1>5, <2>1, <2>2
  <1>6. ASSUME UNCHANGED <<inbox, got>>, copies'[b] = copies[b] PROVE UnderWay(b)' <= UnderWay(b)
    <2>1. UnderWay(b)' = UnderWay(b)
      BY <1>6, After DEF UnderWay
    <2> QED
      BY <1>2, <2>1
  <1>7. ASSUME NEW c \in Broadcasters, BStart(c) \/ BStop(c) \/ BSend(c) PROVE Skipped(b, j)'
    <2>1. UNCHANGED <<inbox, lVars>> /\ (BStart(c) \/ BStop(c) => copies' = copies)
      BY <1>7 DEF BStart, BStop, BSend
    <2>2. CASE c # b
      <3>1. on'[b] = on[b] /\ due'[b] = due[b] /\ copies'[b] = copies[b]
        BY <1>0, <1>7, <2>2 DEF BStart, BStop, BSend, send_to, TypeOK
      <3> QED
        BY <1>5, <1>6, <2>1, <3>1 DEF lVars
    <2>3. CASE c = b
      <3>1. ~BStart(c)
        BY <1>1, <2>3 DEF BStart
      <3>2. ~BSend(c)
        <4>1. due[b] \in Int
          BY <1>0, Bounds DEF TypeOK
        <4> QED
          BY <1>1, <1>3, <2>3, <4>1 DEF BSend
      <3>3. BStop(c)
        BY <1>7, <3>1, <3>2
      <3>4. on'[b] = "ended"
        BY <1>0, <2>3, <3>3 DEF BStop, TypeOK
      <3>5. Looked(j)'
        BY <1>1, <2>1, LookedKept DEF lVars
      <3> QED
        BY <1>4, <1>6, <2>1, <3>3, <3>4, <3>5 DEF lVars
    <2> QED
      BY <2>2, <2>3
  <1>8. ASSUME NEW c \in Broadcasters, Arrive(c) PROVE Skipped(b, j)'
    <2>1. \A k \in 1 .. Len(inbox') : inbox'[k] = Junk => k = 1
      BY DEF QueueInv
    <2>2. UnderWay(b)' <= UnderWay(b)
      BY <1>0, <1>8, <2>1, ArriveQueue
    <2> QED
      BY <1>5, <1>8, <2>2 DEF Arrive
  <1>9. CASE ArriveJunk
    <2>1. Places(inbox', b) = Places(inbox, b)
      BY <1>0, <1>9, DiscoveryAssumption DEF ArriveJunk, Places
    <2>2. UnderWay(b)' = UnderWay(b)
      BY <1>9, <2>1, After DEF UnderWay, ArriveJunk, bVars, lVars
    <2> QED
      BY <1>2, <1>5, <1>9, <2>2 DEF ArriveJunk, bVars
  <1>10. CASE LReceive \/ LTimeout \/ LError
    <2>1. QueueOf(b)
      BY <1>0 DEF QueueInv
    <2>2. UnderWay(b)' <= UnderWay(b)
      BY <1>0, <1>10, <2>1, ReceiveQueue, ListenerQueue
    <2>3. Looked(j)'
      BY <1>1, <1>10, LookedKept
    <2>4. /\ UNCHANGED bVars
          /\ lpc = "recv" /\ lpc' = "handle" /\ since' = 0
      BY <1>10 DEF LReceive, LTimeout, LError, Nothing
    <2>5. LeftOfTurn' = Late - 0 /\ LeftOfTurn = Round - wait
      BY <2>4 DEF LeftOfTurn
    <2>6. LeftOfTurn' <= LeftOfTurn /\ LeftOfTurn' \in Int
      <3>1. wait \in 0 .. Poll + Late
        BY DEF TypeOK
      <3> QED
        BY <2>5, <3>1, Bounds DEF Round
    <2>7. due[b] \in Int
      BY <1>0, Bounds DEF TypeOK
    <2>8. on[b] = "running" => due[b] > LeftOfTurn'
      BY <1>1, <1>3, <2>6, <2>7
    <2> QED
      BY <1>1, <1>4, <2>2, <2>3, <2>4, <2>8 DEF bVars
  <1>11. CASE Tick
    <2>1. UnderWay(b)' <= UnderWay(b)
      BY <1>6, <1>11 DEF Tick
    <2>2. Looked(j)'
      BY <1>1, <1>11, LookedKept
    <2>3. LeftOfTurn' = LeftOfTurn - 1
      <3>1. lpc \in {"recv", "handle"} /\ wait \in Int /\ since \in Int /\ lpc' = lpc
        BY <1>11, Bounds DEF Tick, TypeOK
      <3>2. CASE lpc = "recv"
        <4>1. wait' = wait + 1
          BY <1>11, <3>2 DEF Tick
        <4> QED
          BY <3>1, <3>2, <4>1, Bounds DEF LeftOfTurn, Round
      <3>3. CASE lpc = "handle"
        <4>1. since' = since + 1
          BY <1>11, <3>3 DEF Tick
        <4> QED
          BY <3>1, <3>3, <4>1, Bounds DEF LeftOfTurn, Round
      <3> QED
        BY <3>1, <3>2, <3>3
    <2>4. on'[b] = on[b] /\ (on[b] = "running" => due'[b] = due[b] - 1)
      BY <1>0, <1>11 DEF Tick
    <2>5. due[b] \in Int
      BY <1>0, Bounds DEF TypeOK
    <2>6. on'[b] = "running" => due'[b] > LeftOfTurn'
      BY <1>1, <1>3, <2>3, <2>4, <2>5
    <2> QED
      BY <1>1, <1>4, <2>1, <2>2, <2>4, <2>6
  <1>12. CASE UNCHANGED vars
    BY <1>5, <1>6, <1>12 DEF vars, bVars, lVars
  <1>13. ~LStart
    BY DEF LStart, bind_to
  <1> QED
    BY <1>7, <1>8, <1>9, <1>10, <1>11, <1>12, <1>13 DEF Next

(* A turn that ends with an announcement of the listener's own host uses up  *)
(* one of its copies.                                                        *)
LEMMA SkipStep ==
    ASSUME TypeOK, QueueInv, LSkipSelf, NEW b \in Self, got = b,
           NEW j \in Nat, Looked(j), j + UnderWay(b) <= MaxCopies
    PROVE  j + 1 \in 1 .. MaxCopies /\ Skipped(b, j + 1)'
PROOF
  <1>1. b \in Broadcasters /\ b # Absent /\ Spare(b) = Round
    BY DiscoveryAssumption DEF Spare
  <1>2. /\ UNCHANGED <<bVars, inbox>> /\ got' = Absent
        /\ lpc = "handle" /\ lpc' = "recv" /\ wait' = 0
    BY DEF LSkipSelf, Again
  <1>3. Cardinality(Places(inbox, b)) \in Nat
    BY TurnType
  <1>4. copies[b] \in Nat
    BY <1>1, Bounds DEF TypeOK
  <1>5. UnderWay(b) = copies[b] + Cardinality(Places(inbox, b)) + 1
    BY DEF UnderWay
  <1>6. UnderWay(b)' = copies[b] + Cardinality(Places(inbox, b)) + 0
    BY <1>1, <1>2, After DEF bVars
  <1>7. j + 1 + UnderWay(b)' <= MaxCopies /\ j + 1 \in 1 .. MaxCopies
    BY <1>3, <1>4, <1>5, <1>6, Bounds
  <1>8. on[b] # "new"
    <2>1. UnderWay(b) # 0
      BY <1>3, <1>4, <1>5
    <2> QED
      BY <1>1, <2>1 DEF QueueInv, QueueOf
  <1>9. ASSUME on[b] = "running" PROVE due[b] > LeftOfTurn'
    <2>1. 0 \in At(b)
      BY DEF At
    <2>2. due[b] > Turn(0) + Round
      BY <1>1, <1>9, <2>1 DEF QueueInv, QueueOf, HandledFirst
    <2>3. Turn(0) \in Nat
      BY TurnType
    <2>4. due[b] \in Int
      BY <1>1, Bounds DEF TypeOK
    <2>5. LeftOfTurn' = Round - 0
      BY <1>2 DEF LeftOfTurn, Round
    <2> QED
      BY <2>2, <2>3, <2>4, <2>5, Bounds
  <1>10. Looked(j + 1)'
    BY LookedBefore
  <1> QED
    BY <1>2, <1>7, <1>8, <1>9, <1>10 DEF Skipped, bVars

(* Every step keeps the account of the turns without a look.  No timing is   *)
(* assumed where no broadcaster runs on the listener's host: then every turn *)
(* ends with a look.                                                         *)
LEMMA LookStep ==
    ASSUME TypeOK, TypeOK', Shape, LookInv, [Next]_vars,
           Self # {} => Paced /\ OneSelf /\ QueueInv /\ QueueInv'
    PROVE  LookInv'
PROOF
  <1> SUFFICES ASSUME lpc' # "off"
               PROVE  Looked(0)' \/ \E b \in Self, j \in 1 .. MaxCopies : Skipped(b, j)'
    BY DEF LookInv
  <1>1. ~LStop
    BY DEF LStop
  <1>2. CASE LStart
    <2>1. /\ toPrint' = 0 /\ seen' = seen /\ wait' = 0 /\ since' = 0
          /\ \A a \in Address : seen[a] = Absent
      BY <1>2 DEF LStart, bind_to, Shape, ListenerShape
    <2>2. 0 * Round = 0 /\ 0 >= -(Late + 0 + 0 + 0)
      BY Bounds
    <2>3. Looked(0)'
      BY <2>1, <2>2 DEF Looked, Round
    <2> QED
      BY <2>3
  <1>3. CASE LHandle
    BY <1>3, LooksNow
  <1>4. CASE LSkipSelf
    <2>1. got \in Self /\ got \in Broadcasters /\ lpc # "off"
      BY <1>4, DiscoveryAssumption DEF LSkipSelf
    <2>2. PICK b \in Self : b = got
      BY <2>1
    <2>3. OneSelf /\ QueueInv /\ QueueOf(b)
      BY <2>1, <2>2 DEF QueueInv
    <2>4. CASE Looked(0)
      <3>1. UnderWay(b) \in Nat /\ UnderWay(b) <= MaxCopies
        BY <2>1, <2>2, <2>3, TurnType DEF QueueOf
      <3>2. 0 + UnderWay(b) <= MaxCopies
        BY <3>1
      <3>3. 0 + 1 \in 1 .. MaxCopies /\ Skipped(b, 0 + 1)'
        BY <1>4, <2>2, <2>3, <2>4, <3>2, SkipStep
      <3> QED
        BY <3>3
    <2>5. ASSUME NEW c \in Self, NEW j \in 1 .. MaxCopies, Skipped(c, j)
          PROVE  \E k \in 1 .. MaxCopies : Skipped(b, k)'
      <3>1. c = b
        BY <2>3 DEF OneSelf
      <3>2. Looked(j) /\ j + UnderWay(b) <= MaxCopies /\ j \in Nat
        BY <2>5, <3>1, Bounds DEF Skipped
      <3>3. j + 1 \in 1 .. MaxCopies /\ Skipped(b, j + 1)'
        BY <1>4, <2>2, <2>3, <3>2, SkipStep
      <3> QED
        BY <3>3
    <2> QED
      BY <2>1, <2>4, <2>5 DEF LookInv
  <1>5. CASE ~LStart /\ ~LHandle /\ ~LSkipSelf
    <2>1. lpc # "off"
      BY <1>5, <1>1 DEF Next, vars, lVars, BStart, BStop, BSend, Arrive, ArriveJunk, LReceive,
                        LTimeout, LError, Tick
    <2>2. CASE Looked(0)
      <3>1. \/ UNCHANGED <<toPrint, seen, wait, since>>
            \/ LReceive \/ LTimeout \/ LError \/ Tick
        BY <1>1, <1>5 DEF Next, vars, lVars, BStart, BStop, BSend, Arrive, ArriveJunk
      <3> QED
        BY <2>1, <2>2, <3>1, LookedKept
    <2>3. ASSUME NEW b \in Self, NEW j \in 1 .. MaxCopies, Skipped(b, j) PROVE Skipped(b, j)'
      <3>1. Paced /\ QueueInv /\ QueueInv'
        BY <2>3
      <3> QED
        BY <1>1, <1>5, <2>1, <2>3, <3>1, SkippedStep
    <2> QED
      BY <2>1, <2>2, <2>3 DEF LookInv
  <1> QED
    BY <1>2, <1>3, <1>4, <1>5

(* When the table was looked at no more than MaxCopies turns ago, or in the  *)
(* last turn if nothing is announced from the listener's host, it is in time.*)
LEMMA LookBound ==
    ASSUME TypeOK, Shape, LookInv
    PROVE  GoneInTime /\ TableInTime
PROOF
  <1>1. /\ wait \in 0 .. Poll + Late /\ since \in 0 .. Late /\ toPrint \in Int
        /\ \A a \in Address : seen[a] # Absent => seen[a] \in Nat
    BY DEF TypeOK
  <1>2. BetweenLooks \in Nat
    <2>1. BetweenLooks = (IF Self = {} THEN Round * 1 ELSE Round * (1 + MaxCopies))
      BY DEF BetweenLooks, Round
    <2> QED
      BY <2>1, Bounds
  <1>3. CASE lpc = "off"
    <2>1. toPrint = 0 /\ \A a \in Address : seen[a] = Absent
      BY <1>3 DEF Shape, ListenerShape
    <2> QED
      BY <1>2, <2>1, Bounds DEF GoneInTime, TableInTime
  <1>4. ASSUME NEW j \in Nat, Looked(j), (j + 1) * Round <= BetweenLooks
        PROVE  GoneInTime /\ TableInTime
    <2> DEFINE m == j * Round
    <2>1. m \in Nat /\ (j + 1) * Round = m + Round
      BY Bounds, Scaled
    <2>2. wait + since <= Round
      BY <1>1, Bounds DEF Round
    <2>3. m + wait + since <= BetweenLooks
      <3> HIDE DEF m
      <3>1. m + Round <= BetweenLooks
        BY <1>4, <2>1
      <3> QED
        BY <1>1, <1>2, <2>1, <2>2, <3>1, Bounds
    <2>4. /\ toPrint >= -(Late + m + wait + since)
          /\ \A a \in Address : seen[a] # Absent => seen[a] <= StaleAfter + Late + m + wait + since
      BY <1>4 DEF Looked
    <2> HIDE DEF m
    <2>5. toPrint >= -(Late + BetweenLooks)
      BY <1>1, <1>2, <2>1, <2>3, <2>4, Bounds
    <2>6. ASSUME NEW a \in Address, seen[a] # Absent
          PROVE  seen[a] <= StaleAfter + Late + BetweenLooks
      <3>1. seen[a] \in Nat /\ seen[a] <= StaleAfter + Late + m + wait + since
        BY <1>1, <2>4, <2>6
      <3> QED
        BY <1>1, <1>2, <2>1, <2>3, <3>1, Bounds
    <2> QED
      BY <2>5, <2>6 DEF GoneInTime, TableInTime
  <1>5. CASE Looked(0)
    <2>1. (0 + 1) * Round <= BetweenLooks
      <3>1. (0 + 1) * Round = Round /\ Round * 1 = Round /\ Round * (1 + MaxCopies) >= Round
        <4>1. (MaxCopies + 1) * Round = MaxCopies * Round + Round /\ MaxCopies * Round \in Nat
          BY Bounds, Scaled
        <4>2. Round * (1 + MaxCopies) = (MaxCopies + 1) * Round
          BY Bounds
        <4> QED
          BY <4>1, <4>2, Bounds
      <3> QED
        BY <3>1, Bounds DEF BetweenLooks, Round
    <2> QED
      BY <1>4, <1>5, <2>1
  <1>6. ASSUME NEW b \in Self, NEW j \in 1 .. MaxCopies, Skipped(b, j)
        PROVE  GoneInTime /\ TableInTime
    <2>1. j \in Nat /\ j + 1 <= MaxCopies + 1 /\ Looked(j)
      BY <1>6, Bounds DEF Skipped
    <2>2. (j + 1) * Round <= (MaxCopies + 1) * Round
      BY <2>1, Bounds, Scaled
    <2>3. BetweenLooks = Round * (1 + MaxCopies)
      BY DEF BetweenLooks, Round
    <2>4. Round * (1 + MaxCopies) = (MaxCopies + 1) * Round
      BY Bounds
    <2> QED
      BY <1>4, <2>1, <2>2, <2>3, <2>4
  <1> QED
    BY <1>3, <1>5, <1>6 DEF LookInv

(* The account of the turns without a look holds at every moment. *)
LEMMA LookInvariant ==
    ASSUME Self # {} => Paced /\ OneSelf
    PROVE  Spec => []LookInv
PROOF
  <1>1. Init => LookInv
    BY DEF Init, LookInv
  <1>2. Spec => [](Self # {} => QueueInv)
    <2>1. CASE Self = {}
      <3>1. Self # {} => QueueInv
        BY <2>1
      <3> QED
        BY <3>1, PTL
    <2>2. CASE Self # {}
      <3>1. Spec => []QueueInv
        BY <2>2, QueueInvariant
      <3> QED
        BY <3>1, PTL
    <2> QED
      BY <2>1, <2>2
  <1>3. /\ TypeOK /\ TypeOK' /\ Shape /\ LookInv /\ [Next]_vars
        /\ Self # {} => QueueInv
        /\ (Self # {} => QueueInv)'
        => LookInv'
    BY LookStep
  <1> QED
    BY <1>1, <1>2, <1>3, DiscoveryTypes, ShapeInvariant, PTL DEF Spec

(* A peer that has fallen silent is dropped in time, whatever else arrives.  *)
(* The announcements of the listener's own host, which end a turn before the *)
(* look at the table, only delay it by as many turns as one of them has      *)
(* copies, provided that they come from one broadcaster, slow enough for the *)
(* listener.                                                                 *)
THEOREM SilentPeersGo ==
    ASSUME Self # {} => Paced /\ OneSelf
    PROVE  Spec => []GoneInTime
PROOF
  <1>1. TypeOK /\ Shape /\ LookInv => GoneInTime
    BY LookBound
  <1> QED
    BY <1>1, LookInvariant, DiscoveryTypes, ShapeInvariant, PTL

(* The table is printed in time, whatever arrives, under the same premise.   *)
THEOREM TableIsPrinted ==
    ASSUME Self # {} => Paced /\ OneSelf
    PROVE  Spec => []TableInTime
PROOF
  <1>1. TypeOK /\ Shape /\ LookInv => TableInTime
    BY LookBound
  <1> QED
    BY <1>1, LookInvariant, DiscoveryTypes, ShapeInvariant, PTL

-----------------------------------------------------------------------------
(* Peers are found in time, and stay listed *)

(* The bounds of the account, and what each lost announcement adds. *)
LEMMA Account ==
    ASSUME TypeOK, NEW b \in Broadcasters
    PROVE  /\ Interval + Late \in Nat /\ Longest \in Nat
           /\ lost[b] \in Nat /\ lost[b] * (Interval + Late) \in Nat
           /\ (lost[b] + 1) * (Interval + Late) = lost[b] * (Interval + Late) + Interval + Late
           /\ (lost[b] + 1) * (Interval + Late) <= (MaxLost + 1) * (Interval + Late)
           /\ (MaxLost + 1) * (Interval + Late) \in Nat
           /\ Longest = (MaxLost + 1) * (Interval + Late) + MaxDelay + Late * Before
           /\ due[b] \in Int /\ -Late <= due[b] /\ due[b] <= Interval
           /\ travel[b] \in Nat /\ travel[b] <= MaxDelay
PROOF
  <1>1. Interval + Late \in Nat /\ MaxLost + 1 \in Nat
    BY Bounds
  <1>2. lost[b] \in Nat /\ lost[b] + 1 <= MaxLost + 1 /\ lost[b] + 1 \in Nat
    <2>1. lost[b] \in 0 .. MaxLost
      BY DEF TypeOK
    <2> QED
      BY <2>1, Bounds
  <1>3. (lost[b] + 1) * (Interval + Late) <= (MaxLost + 1) * (Interval + Late)
    BY <1>1, <1>2, Scaled
  <1>4. /\ lost[b] * (Interval + Late) \in Nat
        /\ (lost[b] + 1) * (Interval + Late) = lost[b] * (Interval + Late) + (Interval + Late)
    BY <1>1, <1>2, Scaled
  <1>5. (MaxLost + 1) * (Interval + Late) \in Nat
    BY <1>1, Scaled
  <1>6. due[b] \in Int /\ -Late <= due[b] /\ due[b] <= Interval
    BY Bounds DEF TypeOK
  <1>7. travel[b] \in Nat /\ travel[b] <= MaxDelay
    BY Bounds DEF TypeOK
  <1>8. Longest \in Nat
    BY <1>5, Bounds DEF Longest
  <1>9. (lost[b] + 1) * (Interval + Late) = lost[b] * (Interval + Late) + Interval + Late
    BY <1>4, Bounds
  <1> QED
    BY <1>1, <1>2, <1>3, <1>4, <1>5, <1>6, <1>7, <1>8, <1>9 DEF Longest

(* What is accounted for is no longer ago than Longest. *)
LEMMA RecentBound ==
    ASSUME TypeOK, NEW b \in Broadcasters, NEW x \in Nat, Recent(b, x)
    PROVE  x <= Longest
PROOF
  <1>1. CASE x <= lost[b] * (Interval + Late) + Interval - due[b]
    BY <1>1, Account, Bounds
  <1>2. CASE copies[b] > 0 /\ x <= (MaxLost + 1) * (Interval + Late) + travel[b]
    BY <1>2, Account, Bounds
  <1>3. ASSUME NEW k \in At(b), x + Turn(k) <= Longest PROVE x <= Longest
    <2>1. k \in Nat
      BY <1>3, TurnType
    <2>2. Turn(k) \in Nat
      BY <2>1, TurnType
    <2> QED
      BY <1>3, <2>2, Account
  <1> QED
    BY <1>1, <1>2, <1>3 DEF Recent

(* What has just happened is accounted for. *)
LEMMA RecentNow ==
    ASSUME TypeOK', NEW b \in Broadcasters
    PROVE  Recent(b, 0)'
PROOF
  <1>1. lost'[b] \in Nat /\ due'[b] \in Int /\ due'[b] <= Interval
    <2>1. lost'[b] \in 0 .. MaxLost /\ due'[b] \in -Late .. Interval
      BY DEF TypeOK
    <2> QED
      BY <2>1, Bounds
  <1>2. Interval + Late \in Nat
    BY Bounds
  <1>3. lost'[b] * (Interval + Late) \in Nat
    BY <1>1, <1>2, Scaled
  <1>4. 0 <= lost'[b] * (Interval + Late) + Interval - due'[b]
    BY <1>1, <1>3, Bounds
  <1> QED
    BY <1>4 DEF Recent

(* The account is kept when nothing of b changes. *)
LEMMA RecentKept ==
    ASSUME NEW b, NEW x, Recent(b, x),
           lost'[b] = lost[b], due'[b] = due[b], copies'[b] = copies[b], travel'[b] = travel[b],
           At(b) \subseteq At(b)', \A k \in At(b) : Turn(k)' = Turn(k)
    PROVE  Recent(b, x)'
PROOF
  <1>1. CASE \E k \in At(b) : x + Turn(k) <= Longest
    <2>1. \E k \in At(b)' : x + Turn(k)' <= Longest
      BY <1>1
    <2> QED
      BY <2>1 DEF Recent, Longest, Before
  <1>2. CASE ~\E k \in At(b) : x + Turn(k) <= Longest
    BY <1>2 DEF Recent, Longest, Before
  <1> QED
    BY <1>1, <1>2

(* A broadcaster starts, stops or sends.  Another announcement that gets     *)
(* lost is one more interval, one that does not is on its way.               *)
LEMMA BroadcasterRecent ==
    ASSUME TypeOK, TypeOK', QueueInv, NEW c \in Broadcasters,
           BStart(c) \/ BStop(c) \/ BSend(c),
           NEW b \in Broadcasters, on[b] = "running", on'[b] = "running",
           NEW x \in Nat, Recent(b, x)
    PROVE  Recent(b, x)'
PROOF
  <1>1. UNCHANGED <<inbox, got, lpc, since>>
    BY DEF BStart, BStop, BSend, lVars
  <1>2. At(b)' = At(b) /\ \A k : Turn(k)' = Turn(k)
    BY <1>1, After DEF At, Turn
  <1>3. CASE b # c
    <2>1. /\ due'[b] = due[b] /\ copies'[b] = copies[b] /\ travel'[b] = travel[b]
          /\ lost'[b] = lost[b]
      BY <1>3 DEF BStart, BStop, BSend, send_to, TypeOK
    <2> QED
      BY <1>2, <2>1, RecentKept
  <1>4. CASE b = c
    <2>1. BSend(b)
      BY <1>4 DEF BStart, BStop, TypeOK
    <2>2. PICK n \in 0 .. MaxCopies :
            /\ n = 0 => lost[b] < MaxLost
            /\ lost' = [lost EXCEPT ![b] = IF n = 0 THEN @ + 1 ELSE 0]
            /\ copies' = [copies EXCEPT ![b] = n]
            /\ travel' = [travel EXCEPT ![b] = 0]
      BY <2>1 DEF BSend, send_to
    <2>3. due[b] <= 0 /\ copies[b] = 0 /\ due'[b] = Interval
      BY <2>1 DEF BSend, TypeOK
    <2>4. At(b) = {}
      BY <2>3, ReadyToSend
    <2>5. x <= lost[b] * (Interval + Late) + Interval - due[b]
      BY <2>3, <2>4 DEF Recent
    <2>6. x <= (lost[b] + 1) * (Interval + Late)
      BY <2>5, Account, Bounds
    <2>7. CASE n = 0
      <3>1. lost'[b] = lost[b] + 1
        BY <2>2, <2>7 DEF TypeOK
      <3>2. (lost[b] + 1) * (Interval + Late) \in Nat
        BY Account, Bounds
      <3>3. x <= (lost[b] + 1) * (Interval + Late) + Interval - Interval
        BY <2>6, <3>2, Bounds
      <3>4. x <= lost'[b] * (Interval + Late) + Interval - due'[b]
        BY <2>3, <3>1, <3>3
      <3> QED
        BY <3>4 DEF Recent
    <2>8. CASE n # 0
      <3>1. copies'[b] = n /\ travel'[b] = 0 /\ n > 0
        BY <2>2, <2>8, Bounds DEF TypeOK
      <3>2. x <= (MaxLost + 1) * (Interval + Late) + 0
        BY <2>6, Account, Bounds
      <3> QED
        BY <3>1, <3>2 DEF Recent
    <2> QED
      BY <2>7, <2>8
  <1> QED
    BY <1>3, <1>4

(* An announcement that arrives has its place in a short queue. *)
LEMMA ArriveRecent ==
    ASSUME TypeOK, TypeOK', QueueInv, QueueInv', lpc # "off",
           NEW c \in Broadcasters, Arrive(c),
           NEW b \in Broadcasters, NEW x \in Nat, Recent(b, x)
    PROVE  Recent(b, x)'
PROOF
  <1>1. /\ UNCHANGED <<on, due, lost, got, lpc, since>>
        /\ inbox' = Append(inbox, c)
    BY DEF Arrive, lVars
  <1>2. inbox \in Seq(Broadcasters \cup {Junk}) /\ inbox' \in Seq(Broadcasters \cup {Junk})
    BY DEF TypeOK
  <1>3. Places(inbox', b) = Places(inbox, b) \cup (IF c = b THEN {Len(inbox) + 1} ELSE {})
    BY <1>1, <1>2, PlacesAppend
  <1>4. At(b) \subseteq At(b)' /\ (c = b => Len(inbox) + 1 \in At(b)')
    BY <1>1, <1>3, After DEF At
  <1>5. \A k : Turn(k)' = Turn(k)
    BY <1>1, After DEF Turn
  <1>6. CASE c # b
    <2>1. copies'[b] = copies[b] /\ travel'[b] = travel[b]
      BY <1>6 DEF Arrive, TypeOK
    <2> QED
      BY <1>1, <1>4, <1>5, <2>1, RecentKept
  <1>7. CASE c = b
    <2>1. CASE x <= lost[b] * (Interval + Late) + Interval - due[b]
      BY <1>1, <2>1 DEF Recent
    <2>2. CASE x <= (MaxLost + 1) * (Interval + Late) + travel[b]
      <3>0. PICK k \in Nat : k = Len(inbox) + 1
        BY <1>2
      <3>1. k <= Len(inbox')
        BY <1>1, <1>2, <3>0
      <3>2. \A d \in Broadcasters : Cardinality(Places(inbox', d)) <= MaxCopies
        <4> SUFFICES ASSUME NEW d \in Broadcasters PROVE Cardinality(Places(inbox', d)) <= MaxCopies
          OBVIOUS
        <4>1. UnderWay(d)' <= MaxCopies
          BY DEF QueueInv, QueueOf
        <4>2. copies'[d] \in Nat
          <5>1. copies'[d] \in 0 .. MaxCopies
            BY DEF TypeOK
          <5> QED
            BY <5>1, Bounds
        <4>3. Cardinality(Places(inbox', d)) \in Nat
          BY <1>2, PlacesFinite
        <4> QED
          BY <4>1, <4>2, <4>3, After, Bounds
      <3>3. \A i \in 1 .. Len(inbox') : inbox'[i] = Junk => i = 1
        BY DEF QueueInv
      <3>4. 0 \in Nat /\ 0 <= Late /\ Late - since \in Nat /\ Late - since <= Late
        BY Bounds DEF TypeOK
      <3>5. 0 + k * Late <= Late * Before /\ (Late - since) + k * Late <= Late * Before
        BY <1>2, <3>1, <3>2, <3>3, <3>4, Room
      <3>6. Turn(k) <= Late * Before
        BY <3>5 DEF Turn
      <3>7. Turn(k) \in Nat
        BY TurnType
      <3>8. x + Turn(k) <= Longest
        BY <2>2, <3>6, <3>7, Account, Bounds
      <3>9. k \in At(b)' /\ x + Turn(k)' <= Longest
        BY <1>4, <1>5, <1>7, <3>0, <3>8
      <3> QED
        BY <3>9 DEF Recent, Longest, Before
    <2>3. ASSUME NEW k \in At(b), x + Turn(k) <= Longest PROVE Recent(b, x)'
      <3>1. k \in At(b)' /\ x + Turn(k)' <= Longest
        BY <1>4, <1>5, <2>3
      <3> QED
        BY <3>1 DEF Recent, Longest, Before
    <2> QED
      BY <2>1, <2>2, <2>3 DEF Recent
  <1> QED
    BY <1>6, <1>7

(* The listener goes on, and has not just handled a datagram of b. *)
LEMMA ListenerRecent ==
    ASSUME TypeOK, Shape, NEW b \in Broadcasters, NEW x \in Nat, Recent(b, x),
           LReceive \/ LTimeout \/ LError \/ LSkipSelf \/ LHandle,
           lpc = "handle" => got # b
    PROVE  Recent(b, x)'
PROOF
  <1>1. UNCHANGED bVars
    BY DEF LReceive, LTimeout, LError, Nothing, LSkipSelf, LHandle, Again
  <1>2. CASE ~\E k \in At(b) : x + Turn(k) <= Longest
    BY <1>1, <1>2 DEF Recent, bVars
  <1>3. ASSUME NEW k \in At(b), x + Turn(k) <= Longest PROVE Recent(b, x)'
    <2>1. got # b
      BY DiscoveryAssumption DEF Shape, ListenerShape
    <2>2. k \in Places(inbox, b) /\ k \in Nat /\ k # 0 /\ inbox # <<>>
      BY <1>3, <2>1 DEF At, Places
    <2>3. Turn(k) \in Nat
      BY <2>2, TurnType
    <2>4. ASSUME NEW i \in At(b)', Turn(i)' <= Turn(k), Turn(i)' \in Int PROVE Recent(b, x)'
      <3>1. x + Turn(i)' <= Longest
        BY <1>3, <2>3, <2>4, Account
      <3> QED
        BY <3>1 DEF Recent, Longest, Before
    <2>5. k * Late \in Nat
      BY <2>2, Bounds, Scaled
    <2>6. CASE LReceive
      <3>1. /\ inbox' = Tail(inbox) /\ lpc = "recv" /\ lpc' = "handle" /\ since' = 0
            /\ got' = Head(inbox)
        BY <2>6 DEF LReceive
      <3>2. inbox \in Seq(Broadcasters \cup {Junk})
        BY DEF TypeOK
      <3>3. k - 1 \in At(b)'
        <4>1. CASE k = 1
          <5>1. Head(inbox) = b
            BY <2>2, <3>2, <4>1 DEF Places
          <5> QED
            BY <3>1, <4>1, <5>1, After
        <4>2. CASE k # 1
          BY <2>2, <3>1, <3>2, <4>2, PlacesTail, After
        <4> QED
          BY <4>1, <4>2
      <3>4. Turn(k - 1)' = Late - 0 + (k - 1) * Late /\ Turn(k) = 0 + k * Late
        BY <3>1, After DEF Turn
      <3>5. k - 1 \in Nat
        BY <2>2
      <3>6. (k - 1) * Late \in Nat /\ (k - 1 + 1) * Late = (k - 1) * Late + Late
        BY <3>5, Bounds, Scaled
      <3>7. k - 1 + 1 = k
        BY <2>2
      <3>8. Turn(k - 1)' <= Turn(k) /\ Turn(k - 1)' \in Int
        BY <3>4, <3>6, <3>7, Bounds
      <3> QED
        BY <2>4, <3>3, <3>8
    <2>7. CASE LTimeout \/ LError
      BY <2>2, <2>7 DEF LTimeout, LError
    <2>8. CASE LSkipSelf \/ LHandle
      <3>1. lpc' = "recv" /\ inbox' = inbox
        BY <2>8 DEF LSkipSelf, LHandle, Again
      <3>2. k \in At(b)'
        BY <2>2, <3>1, After
      <3>3. Turn(k)' = 0 + k * Late
        BY <3>1, After
      <3>4. Late - since \in Nat
        BY Bounds, HandlingTime
      <3>5. Turn(k)' <= Turn(k) /\ Turn(k)' \in Int
        BY <2>5, <3>3, <3>4 DEF Turn
      <3> QED
        BY <2>4, <3>2, <3>5
    <2> QED
      BY <2>6, <2>7, <2>8
  <1> QED
    BY <1>2, <1>3

(* A tick is on the account of the sleep, of the way, or of the turn. *)
LEMMA TickRecent ==
    ASSUME TypeOK, Shape, NEW b \in Broadcasters, on[b] = "running",
           NEW x \in Nat, Recent(b, x), Tick
    PROVE  Recent(b, x)' /\ Recent(b, x + 1)'
PROOF
  <1>1. UNCHANGED <<inbox, got, lpc, copies, lost>>
    BY DEF Tick
  <1>2. CASE x <= lost[b] * (Interval + Late) + Interval - due[b]
    <2>1. due'[b] = due[b] - 1
      BY DEF Tick
    <2>2. /\ x <= lost[b] * (Interval + Late) + Interval - due'[b]
          /\ x + 1 <= lost[b] * (Interval + Late) + Interval - due'[b]
      BY <1>2, <2>1, Account, Bounds
    <2> QED
      BY <1>1, <2>2 DEF Recent
  <1>3. CASE copies[b] > 0 /\ x <= (MaxLost + 1) * (Interval + Late) + travel[b]
    <2>1. travel'[b] = travel[b] + 1
      BY <1>3 DEF Tick
    <2>2. /\ x <= (MaxLost + 1) * (Interval + Late) + travel'[b]
          /\ x + 1 <= (MaxLost + 1) * (Interval + Late) + travel'[b]
      BY <1>3, <2>1, Account, Bounds
    <2> QED
      BY <1>1, <1>3, <2>2 DEF Recent
  <1>4. ASSUME NEW k \in At(b), x + Turn(k) <= Longest PROVE Recent(b, x)' /\ Recent(b, x + 1)'
    <2>1. lpc = "handle"
      <3>1. CASE lpc # "handle"
        <4>1. inbox = <<>> /\ got = Absent
          BY <3>1 DEF Tick, TypeOK, Shape, ListenerShape
        <4>2. Places(<<>>, b) = {}
          BY DEF Places
        <4> QED
          BY <1>4, <4>1, <4>2, DiscoveryAssumption DEF At
      <3> QED
        BY <3>1
    <2>2. k \in Nat
      BY <1>4, TurnType
    <2>3. Turn(k) \in Nat
      BY <2>2, TurnType
    <2>4. since' = since + 1 /\ since \in Int
      BY <2>1, Bounds DEF Tick, TypeOK
    <2>5. Turn(k)' = Late - (since + 1) + k * Late /\ Turn(k) = Late - since + k * Late
      BY <1>1, <2>1, <2>4, After DEF Turn
    <2>6. k * Late \in Nat
      BY <2>2, Bounds, Scaled
    <2>7. Turn(k)' = Turn(k) - 1
      BY <2>4, <2>5, <2>6, Bounds
    <2>8. x + Turn(k)' <= Longest /\ x + 1 + Turn(k)' <= Longest
      BY <1>4, <2>3, <2>7, Account
    <2>9. k \in At(b)'
      BY <1>1, <1>4, After DEF At
    <2> QED
      BY <2>8, <2>9 DEF Recent, Longest, Before
  <1> QED
    BY <1>2, <1>3, <1>4 DEF Recent

(* While b and the listener run, the account goes on from step to step. *)
LEMMA RecentStep ==
    ASSUME Paced, TypeOK, TypeOK', Shape, QueueInv, QueueInv', [Next]_vars,
           NEW b \in Broadcasters, on[b] = "running", on'[b] = "running",
           lpc # "off", lpc' # "off", got = b => ~LSkipSelf /\ ~LHandle,
           NEW x \in Nat, Recent(b, x), NEW y, y = x \/ (Tick /\ y = x + 1)
    PROVE  Recent(b, y)'
PROOF
  <1>1. CASE Tick
    <2>1. Recent(b, x)' /\ Recent(b, x + 1)'
      BY <1>1, TickRecent
    <2> QED
      BY <2>1
  <1>2. CASE ~Tick
    <2> SUFFICES Recent(b, x)'
      BY <1>2
    <2>1. ASSUME NEW c \in Broadcasters, BStart(c) \/ BStop(c) \/ BSend(c) PROVE Recent(b, x)'
      BY <2>1, BroadcasterRecent
    <2>2. ASSUME NEW c \in Broadcasters, Arrive(c) PROVE Recent(b, x)'
      BY <2>2, ArriveRecent
    <2>3. CASE ArriveJunk \/ UNCHANGED vars
      <3>1. UNCHANGED <<bVars, lVars>>
        BY <2>3 DEF ArriveJunk, vars
      <3>2. Places(inbox', b) = Places(inbox, b)
        BY <2>3, DiscoveryAssumption DEF ArriveJunk, Places, vars
      <3>3. At(b) \subseteq At(b)' /\ \A k : Turn(k)' = Turn(k)
        BY <3>1, <3>2, After DEF At, Turn, lVars
      <3> QED
        BY <3>1, <3>3, RecentKept DEF bVars
    <2>4. CASE LReceive \/ LTimeout \/ LError \/ LSkipSelf \/ LHandle
      <3>1. lpc = "handle" => got # b
        BY <2>4 DEF LReceive, LTimeout, LError
      <3> QED
        BY <2>4, <3>1, ListenerRecent
    <2>5. ~LStart /\ ~LStop
      BY DEF LStart, bind_to, LStop
    <2> QED
      BY <1>2, <2>1, <2>2, <2>3, <2>4, <2>5 DEF Next
  <1> QED
    BY <1>1, <1>2

(* Every step keeps the account of a peer that is not found yet. *)
LEMMA FoundStep ==
    ASSUME Paced, TypeOK, TypeOK', Shape, QueueInv, QueueInv', FoundInv, [Next]_vars
    PROVE  FoundInv'
PROOF
  <1> SUFFICES ASSUME NEW b \in Broadcasters \ Self,
                      on'[b] = "running", lpc' # "off", ~heard'[b]
               PROVE  Recent(b, unheard[b])'
    BY DEF FoundInv
  <1>0. PeerShape(b)
    BY DEF Shape
  <1>1. unheard[b] \in Nat /\ unheard'[b] \in Nat
    BY DEF TypeOK
  <1>2. \/ unheard'[b] = unheard[b]
        \/ Tick /\ unheard'[b] = unheard[b] + 1
        \/ unheard'[b] = 0
    <2>1. unheard \in [Broadcasters -> Nat]
      BY DEF TypeOK
    <2>2. ASSUME NEW c \in Broadcasters, BStart(c) \/ BStop(c) \/ BSend(c) \/ Arrive(c)
          PROVE  unheard'[b] = unheard[b] \/ unheard'[b] = 0
      BY <2>1, <2>2 DEF BStart, BStop, BSend, Arrive
    <2>3. ASSUME ArriveJunk \/ LReceive \/ LTimeout \/ LError \/ LSkipSelf \/ UNCHANGED vars
          PROVE  unheard'[b] = unheard[b]
      BY <2>3 DEF ArriveJunk, LReceive, LTimeout, LError, Nothing, LSkipSelf, vars
    <2>4. ASSUME LStart \/ LStop \/ LHandle
          PROVE  unheard'[b] = unheard[b] \/ unheard'[b] = 0
      BY <2>1, <2>4 DEF LStart, LStop, LHandle, Hear
    <2>5. ASSUME Tick
          PROVE  unheard'[b] = unheard[b] \/ unheard'[b] = unheard[b] + 1
      BY <2>5 DEF Tick
    <2> QED
      BY <2>2, <2>3, <2>4, <2>5 DEF Next
  <1>3. CASE unheard'[b] = 0
    <2>1. Recent(b, 0)'
      BY RecentNow
    <2> QED
      BY <1>3, <2>1 DEF Recent
  <1>4. CASE unheard'[b] # 0
    <2>1. unheard'[b] = unheard[b] \/ (Tick /\ unheard'[b] = unheard[b] + 1)
      BY <1>2, <1>4
    <2>2. on[b] = "running" /\ lpc # "off" /\ ~heard[b]
      <3>1. CASE unheard[b] # 0
        BY <1>0, <3>1 DEF PeerShape
      <3>2. CASE unheard[b] = 0
        BY <1>4, <2>1, <3>2 DEF Tick
      <3> QED
        BY <3>1, <3>2
    <2>3. got = b => ~LSkipSelf /\ ~LHandle
      BY <2>2 DEF LSkipSelf, LHandle, Hear
    <2>4. PICK x \in Nat : x = unheard[b]
      BY <1>1
    <2>5. PICK y \in Nat : y = unheard'[b]
      BY <1>1
    <2>6. Recent(b, x)
      BY <2>2, <2>4 DEF FoundInv
    <2>7. y = x \/ (Tick /\ y = x + 1)
      BY <2>1, <2>4, <2>5
    <2>8. Recent(b, y)'
      BY <2>2, <2>3, <2>6, <2>7, RecentStep
    <2> QED
      BY <2>5, <2>8 DEF Recent
  <1> QED
    BY <1>3, <1>4

(* The account of the peers that are not found yet holds at every moment. *)
LEMMA FoundInvariant ==
    ASSUME Paced
    PROVE  Spec => []FoundInv
PROOF
  <1>1. Init => FoundInv
    BY DEF Init, FoundInv
  <1>2. TypeOK /\ TypeOK' /\ Shape /\ QueueInv /\ QueueInv' /\ FoundInv /\ [Next]_vars => FoundInv'
    BY FoundStep
  <1> QED
    BY <1>1, <1>2, DiscoveryTypes, ShapeInvariant, QueueInvariant, PTL DEF Spec

(* A peer is found in time, however it and the listener were started, with   *)
(* up to MaxLost announcements in a row lost and the others duplicated,      *)
(* provided that broadcasters are slow enough for the listener.              *)
THEOREM PeersAreFound ==
    ASSUME Paced
    PROVE  Spec => []FoundInTime
PROOF
  <1>1. ASSUME TypeOK, Shape, FoundInv PROVE FoundInTime
    <2> SUFFICES ASSUME NEW b \in Broadcasters PROVE unheard[b] <= Longest
      BY DEF FoundInTime, Longest
    <2>1. unheard[b] \in Nat
      BY <1>1 DEF TypeOK
    <2>2. CASE unheard[b] = 0
      BY <1>1, <2>2, Account
    <2>3. CASE unheard[b] # 0
      <3>1. Recent(b, unheard[b])
        BY <1>1, <2>3 DEF Shape, PeerShape, FoundInv
      <3> QED
        BY <1>1, <2>1, <3>1, RecentBound
    <2> QED
      BY <2>2, <2>3
  <1> QED
    BY <1>1, FoundInvariant, DiscoveryTypes, ShapeInvariant, PTL

(* The listener keeps up with the broadcasters: never more than one          *)
(* announcement of each is under way, in the queue or in its hands, and the  *)
(* accounts of its turns and of the peers it has not found yet hold.         *)
THEOREM ListenerKeepsUp ==
    ASSUME Paced, OneSelf
    PROVE  Spec => []KeepsUp
PROOF
  <1>1. Shape /\ QueueInv /\ LookInv /\ FoundInv => KeepsUp
    BY DEF KeepsUp
  <1> QED
    BY <1>1, ShapeInvariant, QueueInvariant, LookInvariant, FoundInvariant, PTL

(* Every step keeps the account of a peer that is listed, which is therefore *)
(* not stale.                                                                *)
LEMMA ListedStep ==
    ASSUME Paced, Longest <= StaleAfter, TypeOK, TypeOK', Shape, Shape', QueueInv, QueueInv',
           ListedInv, [Next]_vars
    PROVE  ListedInv'
PROOF
  <1> SUFFICES ASSUME NEW b \in Broadcasters, heard'[b]
               PROVE  seen'[AddressOf[b]] # Absent /\ Recent(b, seen[AddressOf[b]])'
    BY DEF ListedInv
  <1> DEFINE a == AddressOf[b]
  <1>0. a \in Address /\ 0 # Absent /\ Absent \notin Nat
    BY DiscoveryAssumption DEF Address
  <1>1. /\ on'[b] = "running" /\ b \notin Self /\ lpc' # "off"
        /\ heard[b] => on[b] = "running" /\ lpc # "off"
    BY DEF Shape, PeerShape
  <1>2. ASSUME seen'[a] = 0 PROVE seen'[a] # Absent /\ Recent(b, seen[a])'
    <2>1. Recent(b, 0)'
      BY RecentNow
    <2> QED
      BY <1>0, <1>2, <2>1 DEF Recent
  <1>3. ASSUME LHandle
        PROVE  \/ seen'[a] = 0
               \/ got # b /\ seen'[a] = IF Stale(seen, a) THEN Absent ELSE seen[a]
    <2>1. seen'[a] = IF Stale(Noted, a) THEN Absent ELSE Noted[a]
      BY <1>0, <1>3 DEF LHandle, remove_stale_peers
    <2>2. Noted[a] = 0 \/ (got # b /\ Noted[a] = seen[a])
      BY <1>0 DEF Noted, TypeOK
    <2>3. CASE Noted[a] = 0
      <3>1. ~(0 - since > StaleAfter)
        <4>1. since \in Nat /\ StaleAfter \in Nat
          <5>1. since \in 0 .. Late
            BY DEF TypeOK
          <5> QED
            BY <5>1, DiscoveryAssumption
        <4> QED
          BY <4>1
      <3>2. ~Stale(Noted, a)
        BY <2>3, <3>1 DEF Stale
      <3> QED
        BY <2>1, <2>3, <3>2
    <2>4. CASE got # b /\ Noted[a] = seen[a]
      BY <2>1, <2>4 DEF Stale
    <2> QED
      BY <2>2, <2>3, <2>4
  <1>4. CASE ~heard[b]
    <2>1. LHandle /\ got = b
      <3>1. heard \in [Broadcasters -> BOOLEAN] /\ heard'[b]
        BY DEF TypeOK
      <3>2. ASSUME NEW c \in Broadcasters, BStart(c) \/ BStop(c) \/ BSend(c) \/ Arrive(c)
            PROVE  FALSE
        BY <1>4, <3>1, <3>2 DEF BStart, BStop, BSend, Arrive
      <3>3. ASSUME \/ ArriveJunk \/ LStart \/ LStop \/ LReceive \/ LTimeout \/ LError \/ LSkipSelf
                   \/ Tick \/ UNCHANGED vars
            PROVE  FALSE
        BY <1>4, <3>1, <3>3 DEF ArriveJunk, LStart, LStop, LReceive, LTimeout, LError, Nothing,
                                LSkipSelf, Tick, vars
      <3>4. ASSUME LHandle PROVE got = b
        BY <1>4, <3>1, <3>4 DEF LHandle, Hear
      <3> QED
        BY <3>2, <3>3, <3>4 DEF Next
    <2> QED
      BY <1>2, <1>3, <2>1
  <1>5. CASE heard[b]
    <2>1. seen[a] # Absent /\ Recent(b, seen[a])
      BY <1>5 DEF ListedInv
    <2>2. seen[a] \in Nat
      BY <1>0, <2>1 DEF TypeOK
    <2>3. seen[a] <= StaleAfter
      <3>1. seen[a] <= Longest
        BY <2>1, <2>2, RecentBound
      <3> QED
        BY <2>2, <3>1, Account, Bounds
    <2>4. ~Stale(seen, a)
      <3>1. ~(seen[a] - since > StaleAfter)
        <4>1. since \in Nat
          BY Bounds DEF TypeOK
        <4> QED
          BY <2>2, <2>3, <4>1, Bounds
      <3> QED
        BY <3>1 DEF Stale
    <2>5. \/ seen'[a] = 0
          \/ /\ got = b => ~LSkipSelf /\ ~LHandle
             /\ seen'[a] = seen[a] \/ (Tick /\ seen'[a] = seen[a] + 1)
      <3>1. CASE LHandle
        BY <1>3, <2>4, <3>1 DEF LSkipSelf, LHandle
      <3>2. CASE LSkipSelf
        BY <1>1, <3>2 DEF LSkipSelf
      <3>3. CASE Tick
        <4>1. seen'[a] = seen[a] + 1
          BY <1>0, <2>1, <3>3 DEF Tick
        <4>2. ~LSkipSelf /\ ~LHandle
          BY <3>3 DEF Tick, LSkipSelf, LHandle, Again
        <4> QED
          BY <3>3, <4>1, <4>2
      <3>4. CASE ~LHandle /\ ~LSkipSelf /\ ~Tick
        <4>1. ~LStop
          BY <1>1 DEF LStop
        <4>2. seen' = seen
          BY <3>4, <4>1 DEF Next, vars, lVars, BStart, BStop, BSend, Arrive, ArriveJunk, LStart,
                            LReceive, LTimeout, LError, Nothing
        <4> QED
          BY <3>4, <4>2
      <3> QED
        BY <3>1, <3>2, <3>3, <3>4
    <2>6. CASE seen'[a] # 0
      <3>1. PICK x \in Nat : x = seen[a]
        BY <2>2
      <3>2. PICK y \in Nat : y = seen'[a]
        BY <2>2, <2>5, <2>6
      <3>3. y = x \/ (Tick /\ y = x + 1)
        BY <2>5, <2>6, <3>1, <3>2
      <3>4. Recent(b, x)
        BY <2>1, <3>1
      <3>5. got = b => ~LSkipSelf /\ ~LHandle
        BY <2>5, <2>6
      <3>6. Recent(b, y)'
        BY <1>1, <1>5, <3>3, <3>4, <3>5, RecentStep
      <3> QED
        BY <1>0, <3>2, <3>6 DEF Recent
    <2> QED
      BY <1>2, <2>6
  <1> QED
    BY <1>4, <1>5

(* The account of a listed peer: the time since it was last heard of is made *)
(* up of the announcements lost since and the one that is next, under way,   *)
(* queued or in hand, provided that broadcasters are slow enough for the     *)
(* listener and a peer is stale only after the longest time between two      *)
(* announcements that get through.                                           *)
THEOREM ListedPeersAccounted ==
    ASSUME Paced, Longest <= StaleAfter
    PROVE  Spec => []ListedInv
PROOF
  <1>1. Init => ListedInv
    BY DEF Init, ListedInv
  <1>2. /\ TypeOK /\ TypeOK' /\ Shape /\ Shape' /\ QueueInv /\ QueueInv'
        /\ ListedInv /\ [Next]_vars
        => ListedInv'
    BY ListedStep
  <1> QED
    BY <1>1, <1>2, DiscoveryTypes, ShapeInvariant, QueueInvariant, PTL DEF Spec

(* A peer that keeps announcing itself stays listed, although up to MaxLost  *)
(* of its announcements in a row are lost: remove_stale_peers never removes  *)
(* one that has not stopped.                                                 *)
THEOREM PeersStayListed ==
    ASSUME Paced, Longest <= StaleAfter
    PROVE  Spec => []StaysListed
PROOF
  <1>1. ListedInv => StaysListed
    BY DEF ListedInv, StaysListed
  <1> QED
    BY <1>1, ListedPeersAccounted, PTL

-----------------------------------------------------------------------------
(* Announcements *)

(* The digits, and what they are worth. *)
LEMMA DigitFacts ==
    /\ Len(Digits) \in Nat \ {0, 1}
    /\ \A k \in 1 .. Len(Digits) : Digits[k] \in DigitChars /\ DigitValue(Digits[k]) = k - 1
    /\ \A ch \in DigitChars : DigitValue(ch) \in Nat
PROOF
  <1>1. Digits \in Seq({Digits[k] : k \in DOMAIN Digits}) /\ Len(Digits) > 1
    BY DiscoveryMessageAssumption
  <1>2. Len(Digits) \in Nat \ {0, 1} /\ DOMAIN Digits = 1 .. Len(Digits)
    BY <1>1
  <1>3. ASSUME NEW k \in 1 .. Len(Digits) PROVE DigitValue(Digits[k]) = k - 1
    <2>1. \A j \in DOMAIN Digits : Digits[j] = Digits[k] => j = k
      BY <1>2, DiscoveryMessageAssumption
    <2>2. (CHOOSE j \in DOMAIN Digits : Digits[j] = Digits[k]) = k
      BY <1>2, <2>1
    <2> QED
      BY <2>2 DEF DigitValue
  <1>4. ASSUME NEW ch \in DigitChars PROVE DigitValue(ch) \in Nat
    <2>1. PICK k \in 1 .. Len(Digits) : ch = Digits[k]
      BY <1>2 DEF DigitChars
    <2>2. DigitValue(ch) = k - 1
      BY <1>3, <2>1
    <2> QED
      BY <1>2, <2>2
  <1> QED
    BY <1>2, <1>3, <1>4 DEF DigitChars

(* The number that the first digits of a text denote, from none on. *)
Denotes(f, value) ==
    /\ f \in Values(Len(value), Nat) /\ f[0] = 0
    /\ \A i \in 1 .. Len(value) : f[i] = f[i - 1] * Len(Digits) + DigitValue(value[i])

LEMMA NumberUnrolls ==
    ASSUME NEW value \in Seq(DigitChars)
    PROVE  \E f : Denotes(f, value) /\ Number(value) = f[Len(value)]
PROOF
  <1> DEFINE n == Len(value)
             D == Len(Digits)
             v(k) == DigitValue(value[k])
             Eq(f) == f = [k \in 0 .. n |-> IF k = 0 THEN 0 ELSE f[k - 1] * D + v(k)]
             upTo == CHOOSE f : Eq(f)
             step == [k \in 1 .. n |-> [x \in Nat |-> x * D + v(k)]]
  <1>1. n \in Nat /\ D \in Nat
    BY DigitFacts
  <1>2. \A k \in 1 .. n : v(k) \in Nat
    BY DigitFacts, ElementOfSeq
  <1>3. Number(value) = upTo[n]
    BY DEF Number
  <1> HIDE DEF n, D, v
  <1>4. step \in Steps(n, Nat)
    <2>1. ASSUME NEW k \in 1 .. n, NEW x \in Nat PROVE x * D + v(k) \in Nat
      <3>1. x * D \in Nat
        BY <1>1, SMT
      <3> QED
        BY <1>2, <3>1
    <2> QED
      BY <2>1, Zenon DEF Steps
  <1>5. PICK g \in Values(n, Nat) : Unrolls(g, n, 0, step)
    <2> HIDE DEF step
    <2>1. 0 \in Nat
      OBVIOUS
    <2> QED
      BY <1>1, <1>4, <2>1, Recursive, Zenon
  <1>6. g \in [0 .. n -> Nat] /\ g[0] = 0 /\ \A k \in 1 .. n : g[k] = step[k][g[k - 1]]
    BY <1>5, Zenon DEF Values, Unrolls
  <1>7. ASSUME NEW k \in 1 .. n PROVE g[k] = g[k - 1] * D + v(k)
    <2>1. g[k - 1] \in Nat
      BY <1>1, <1>6
    <2> QED
      BY <1>6, <2>1
  <1>8. Eq(g)
    <2>1. ASSUME NEW k \in 0 .. n PROVE g[k] = IF k = 0 THEN 0 ELSE g[k - 1] * D + v(k)
      <3>1. CASE k = 0
        BY <1>6, <3>1
      <3>2. CASE k # 0
        <4>1. k \in 1 .. n
          BY <1>1, <3>2
        <4> QED
          BY <1>7, <3>2, <4>1
      <3> QED
        BY <3>1, <3>2
    <2> QED
      BY <1>6, <2>1
  <1>9. Eq(upTo)
    <2> HIDE DEF Eq
    <2> QED
      BY <1>8
  <1> HIDE DEF upTo
  <1>10. upTo[0] = 0 /\ \A k \in 1 .. n : upTo[k] = upTo[k - 1] * D + v(k)
    BY <1>1, <1>9
  <1>11. \A k \in 0 .. n : upTo[k] \in Nat
    <2>1. ASSUME NEW k \in 1 .. n, upTo[k - 1] \in Nat PROVE upTo[k] \in Nat
      <3>1. upTo[k - 1] * D \in Nat
        BY <1>1, <2>1, SMT
      <3> QED
        BY <1>2, <1>10, <3>1
    <2>2. upTo[0] \in Nat
      BY <1>10
    <2> QED
      BY <1>1, <2>1, <2>2, Hereditary
  <1>12. upTo \in Values(n, Nat)
    BY <1>9, <1>11 DEF Values
  <1> QED
    BY <1>3, <1>10, <1>12 DEF Denotes, n, D, v

(* One more digit. *)
LEMMA NumberAppend ==
    ASSUME NEW value \in Seq(DigitChars), NEW ch \in DigitChars
    PROVE  /\ Number(value) \in Nat
           /\ Number(value \o <<ch>>) = Number(value) * Len(Digits) + DigitValue(ch)
PROOF
  <1> DEFINE D == Len(Digits)
  <1>1. PICK n \in Nat : n = Len(value)
    OBVIOUS
  <1>2. PICK w \in Seq(DigitChars) : w = value \o <<ch>>
    <2>1. <<ch>> \in Seq(DigitChars)
      OBVIOUS
    <2>2. value \o <<ch>> \in Seq(DigitChars)
      BY <2>1, ConcatProperties, Zenon
    <2> QED
      BY <2>2, Zenon
  <1>3. Len(w) = n + 1 /\ w[n + 1] = ch /\ \A i \in 1 .. n : w[i] = value[i]
    BY <1>1, <1>2
  <1>4. PICK f : Denotes(f, value) /\ Number(value) = f[n]
    BY <1>1, NumberUnrolls
  <1>5. PICK g : Denotes(g, w) /\ Number(w) = g[n + 1]
    BY <1>3, NumberUnrolls
  <1> HIDE DEF D
  <1>6. /\ f \in [0 .. n -> Nat] /\ f[0] = 0
        /\ \A i \in 1 .. n : f[i] = f[i - 1] * D + DigitValue(value[i])
    BY <1>1, <1>4 DEF Denotes, Values, D
  <1>7. /\ g[0] = 0
        /\ \A i \in 1 .. n + 1 : g[i] = g[i - 1] * D + DigitValue(w[i])
    BY <1>3, <1>5 DEF Denotes, D
  <1> DEFINE T == {i \in 0 .. n : f[i] = g[i]}
  <1>8. \A i \in 0 .. n : i \in T
    <2>1. 0 \in T
      BY <1>6, <1>7
    <2>2. ASSUME NEW i \in 1 .. n, i - 1 \in T PROVE i \in T
      <3>1. f[i - 1] = g[i - 1]
        BY <2>2
      <3>2. i \in 1 .. n + 1 /\ i \in 0 .. n
        OBVIOUS
      <3>3. f[i] = f[i - 1] * D + DigitValue(value[i])
        BY <1>6
      <3>4. g[i] = g[i - 1] * D + DigitValue(w[i])
        BY <1>7, <3>2
      <3>5. w[i] = value[i]
        BY <1>3
      <3>6. f[i] = g[i]
        BY <3>1, <3>3, <3>4, <3>5, Zenon
      <3> QED
        BY <3>2, <3>6
    <2> HIDE DEF T
    <2> QED
      BY <2>1, <2>2, UpTo
  <1>9. f[n] = g[n] /\ f[n] \in Nat
    BY <1>6, <1>8
  <1>10. g[n + 1] = g[n] * D + DigitValue(ch)
    <2>1. n + 1 \in 1 .. n + 1 /\ (n + 1) - 1 = n
      OBVIOUS
    <2> QED
      BY <1>3, <1>7, <2>1
  <1> QED
    BY <1>2, <1>4, <1>5, <1>9, <1>10 DEF D

(* The text of n, given that of n \div the number of digits. *)
LastDigit(n) == <<Digits[(n % Len(Digits)) + 1]>>
TextOf(f, n) ==
    IF n < Len(Digits) THEN LastDigit(n) ELSE f[n \div Len(Digits)] \o LastDigit(n)

(* The last digit, and what is left without it. *)
LEMMA LastDigits ==
    ASSUME NEW n \in Nat
    PROVE  /\ LastDigit(n) \in Seq(DigitChars)
           /\ \E q \in Nat, r \in Nat, ch \in DigitChars :
                 /\ n \div Len(Digits) = q /\ LastDigit(n) = <<ch>> /\ DigitValue(ch) = r
                 /\ n = q * Len(Digits) + r
                 /\ n < Len(Digits) => n = r
                 /\ n >= Len(Digits) => q < n
PROOF
  <1>1. PICK D \in Nat \ {0, 1} : D = Len(Digits)
    BY DigitFacts
  <1>2. PICK q \in Nat, r \in Nat : n \div D = q /\ n % D = r /\ n = q * D + r /\ r < D
    <2>1. D \in Nat \ {0}
      OBVIOUS
    <2> QED
      BY <2>1, Division, Zenon
  <1>3. n = q * D + r /\ r < D
    BY <1>2, Zenon
  <1>4. r + 1 \in 1 .. D /\ r + 1 - 1 = r
    BY <1>3
  <1>5. PICK ch \in DigitChars : ch = Digits[r + 1] /\ DigitValue(ch) = r
    BY <1>1, <1>4, DigitFacts
  <1>6. LastDigit(n) = <<ch>>
    BY <1>1, <1>2, <1>5 DEF LastDigit
  <1>7. <<ch>> \in Seq(DigitChars)
    OBVIOUS
  <1>8. ASSUME n < D PROVE n = r
    <2>1. q = 0
      <3>1. q >= 1 => q * D >= D
        BY SMT
      <3>2. q * D \in Nat
        BY SMT
      <3> QED
        BY <1>3, <1>8, <3>1, <3>2
    <2>2. q * D = 0
      BY <2>1
    <2> QED
      BY <1>3, <2>2
  <1>9. ASSUME n >= D PROVE q < n
    <2>1. q >= 1 => q * D > q
      BY SMT
    <2>2. q = 0 \/ q >= 1
      OBVIOUS
    <2>3. q * D \in Nat
      BY SMT
    <2> QED
      BY <1>3, <1>9, <2>1, <2>2, <2>3
  <1> QED
    BY <1>1, <1>2, <1>5, <1>6, <1>7, <1>8, <1>9

LEMMA Shorter ==
    ASSUME NEW n \in Nat
    PROVE  /\ LastDigit(n) \in Seq(DigitChars) /\ n \div Len(Digits) \in Nat
           /\ ~(n < Len(Digits)) => n \div Len(Digits) < n
PROOF
  <1>1. PICK q \in Nat, r \in Nat, ch \in DigitChars :
           n \div Len(Digits) = q /\ (n >= Len(Digits) => q < n)
    BY LastDigits, Zenon
  <1>2. ~(n < Len(Digits)) => n >= Len(Digits)
    BY DigitFacts
  <1> QED
    BY <1>1, <1>2, LastDigits, Zenon

(* to_string is what its definition says, for every unsigned long. *)
LEMMA ToStringUnrolls ==
    /\ \A n \in 0 .. MaxUnsigned : to_string[n] = TextOf(to_string, n)
    /\ \A n \in 0 .. MaxUnsigned : to_string[n] \in Seq(DigitChars)
PROOF
  <1> DEFINE M == MaxUnsigned
             Upto(m, f) == f \in [0 .. m -> Seq(DigitChars)] /\ \A i \in 0 .. m : f[i] = TextOf(f, i)
             T == {m \in 0 .. M : \E f : Upto(m, f)}
             Eq(f) == f = [n \in 0 .. M |-> TextOf(f, n)]
  <1>1. M \in Nat /\ Len(Digits) \in Nat \ {0, 1}
    BY DiscoveryMessageAssumption, DigitFacts
  <1>2. 0 \in T
    <2> DEFINE f == [i \in 0 .. 0 |-> LastDigit(i)]
    <2>1. f[0] = LastDigit(0) /\ LastDigit(0) \in Seq(DigitChars) /\ 0 < Len(Digits)
      BY <1>1, LastDigits
    <2>2. f \in [0 .. 0 -> Seq(DigitChars)]
      BY <2>1
    <2>3. \A i \in 0 .. 0 : f[i] = TextOf(f, i)
      BY <2>1 DEF TextOf
    <2> HIDE DEF f
    <2>4. Upto(0, f)
      BY <2>2, <2>3
    <2> QED
      BY <1>1, <2>4
  <1>3. ASSUME NEW m \in 1 .. M, m - 1 \in T PROVE m \in T
    <2>1. PICK f : Upto(m - 1, f)
      BY <1>3
    <2> DEFINE t == TextOf(f, m)
               g == [i \in 0 .. m |-> IF i = m THEN t ELSE f[i]]
    <2>2. ASSUME NEW i \in 0 .. m
          PROVE  /\ ~(i < Len(Digits)) => i \div Len(Digits) \in 0 .. m - 1
                 /\ LastDigit(i) \in Seq(DigitChars)
      <3>1. i \in Nat
        OBVIOUS
      <3>2. PICK q \in Nat : i \div Len(Digits) = q /\ (~(i < Len(Digits)) => q < i)
        BY <3>1, Shorter, Zenon
      <3>3. q < i => q \in 0 .. m - 1
        OBVIOUS
      <3> QED
        BY <3>1, <3>2, <3>3, Shorter, Zenon
    <2>3. t \in Seq(DigitChars)
      <3>1. m \in 0 .. m
        OBVIOUS
      <3>2. PICK d \in Seq(DigitChars) : d = LastDigit(m)
        BY <2>2, <3>1
      <3>3. CASE m < Len(Digits)
        BY <3>2, <3>3 DEF TextOf
      <3>4. CASE ~(m < Len(Digits))
        <4>1. PICK j \in 0 .. m - 1 : j = m \div Len(Digits)
          BY <2>2, <3>1, <3>4, Zenon
        <4>2. PICK h \in Seq(DigitChars) : h = f[m \div Len(Digits)]
          BY <2>1, <4>1
        <4>3. h \o d \in Seq(DigitChars)
          BY ConcatProperties, Zenon
        <4> QED
          BY <3>2, <3>4, <4>2, <4>3 DEF TextOf
      <3> QED
        BY <3>3, <3>4
    <2> HIDE DEF t
    <2>4. g \in [0 .. m -> Seq(DigitChars)]
      BY <2>1, <2>3
    <2>5. ASSUME NEW i \in 0 .. m PROVE g[i] = TextOf(g, i)
      <3>1. TextOf(g, i) = TextOf(f, i)
        <4>1. CASE i < Len(Digits)
          BY <4>1 DEF TextOf
        <4>2. CASE ~(i < Len(Digits))
          <5>1. PICK j \in 0 .. m - 1 : j = i \div Len(Digits)
            BY <2>2, <4>2, Zenon
          <5>2. g[j] = f[j]
            OBVIOUS
          <5> HIDE DEF g
          <5> QED
            BY <4>2, <5>1, <5>2 DEF TextOf
        <4> QED
          BY <4>1, <4>2
      <3>2. CASE i = m
        BY <3>1, <3>2 DEF t
      <3>3. CASE i # m
        <4>1. i \in 0 .. m - 1
          BY <3>3
        <4>2. g[i] = f[i]
          BY <3>3
        <4>3. f[i] = TextOf(f, i)
          BY <2>1, <4>1
        <4> QED
          BY <3>1, <4>2, <4>3, Zenon
      <3> QED
        BY <3>2, <3>3
    <2> HIDE DEF g
    <2>6. Upto(m, g)
      BY <2>4, <2>5
    <2>7. m \in 0 .. M
      OBVIOUS
    <2> QED
      BY <2>6, <2>7, Zenon
  <1>4. M \in T
    <2> HIDE DEF T
    <2>1. \A i \in 0 .. M : i \in T
      BY <1>1, <1>2, <1>3, UpTo
    <2> QED
      BY <1>1, <2>1
  <1>5. PICK f : Upto(M, f)
    BY <1>4
  <1>6. Eq(f)
    BY <1>5
  <1>7. to_string = CHOOSE h : Eq(h)
    BY DEF to_string, TextOf, LastDigit
  <1>8. Eq(to_string)
    <2> HIDE DEF Eq
    <2> QED
      BY <1>6, <1>7
  <1>9. PICK h : h = to_string
    OBVIOUS
  <1>10. \A n \in 0 .. M : h[n] = TextOf(h, n)
    BY <1>8, <1>9
  <1>11. ASSUME NEW n \in 0 .. M, h[n] \notin Seq(DigitChars) PROVE FALSE
    <2> DEFINE U == {i \in 0 .. M : h[i] \notin Seq(DigitChars)}
    <2>1. U \in SUBSET Nat /\ U # {}
      BY <1>11
    <2>2. PICK i \in U : \A j \in U : i <= j
      BY <2>1, Smallest, Zenon
    <2>a. i \in Nat
      OBVIOUS
    <2>3. PICK q \in Nat : i \div Len(Digits) = q /\ (~(i < Len(Digits)) => q < i)
      BY <2>a, Shorter, Zenon
    <2>4. PICK d \in Seq(DigitChars) : d = LastDigit(i)
      BY <2>a, Shorter, Zenon
    <2>5. i \in 0 .. M /\ h[i] = TextOf(h, i) /\ h[i] \notin Seq(DigitChars)
      BY <1>10
    <2>6. CASE i < Len(Digits)
      BY <2>4, <2>5, <2>6 DEF TextOf
    <2>7. CASE ~(i < Len(Digits))
      <3>1. q < i /\ q \in 0 .. M
        BY <1>1, <2>3, <2>5, <2>7
      <3>2. q \notin U
        BY <2>2, <2>5, <3>1
      <3>3. PICK g \in Seq(DigitChars) : g = h[q]
        BY <3>1, <3>2
      <3>4. g \o d \in Seq(DigitChars)
        BY ConcatProperties, Zenon
      <3>5. h[i] = g \o d
        BY <2>3, <2>4, <2>5, <2>7, <3>3 DEF TextOf
      <3> QED
        BY <2>5, <3>4, <3>5
    <2> QED
      BY <2>6, <2>7
  <1> QED
    BY <1>9, <1>10, <1>11

(* The text of a number denotes it. *)
LEMMA TextDenotes ==
    ASSUME NEW n \in 0 .. MaxUnsigned
    PROVE  Number(to_string[n]) = n /\ to_string[n] # <<>> /\ to_string[n] \in Seq(DigitChars)
PROOF
  <1> DEFINE M == MaxUnsigned
             D == Len(Digits)
             Good(i) == Number(to_string[i]) = i /\ to_string[i] # <<>>
             U == {i \in 0 .. M : ~Good(i)}
  <1>1. M \in Nat /\ D \in Nat \ {0, 1}
    BY DiscoveryMessageAssumption, DigitFacts
  <1>2. PICK h : h = to_string
    OBVIOUS
  <1>3. \A i \in 0 .. M : h[i] = TextOf(h, i) /\ h[i] \in Seq(DigitChars)
    BY <1>2, ToStringUnrolls
  <1>4. ASSUME NEW i \in 0 .. M, \A j \in 0 .. M : j < i => Good(j) PROVE Good(i)
    <2>1. i \in Nat
      OBVIOUS
    <2>2. PICK q \in Nat, r \in Nat, ch \in DigitChars :
             /\ i \div D = q /\ LastDigit(i) = <<ch>> /\ DigitValue(ch) = r
             /\ i = q * D + r /\ (i < D => i = r) /\ (i >= D => q < i)
      BY <2>1, LastDigits, Zenon
    <2>3. PICK s \in Seq(DigitChars) :
             h[i] = s \o <<ch>> /\ Number(s) * D + r = i
      <3>1. CASE i < D
        <4>1. PICK s \in Seq(DigitChars) : s = <<>>
          <5>1. <<>> \in Seq(DigitChars)
            OBVIOUS
          <5> QED
            BY <5>1, Zenon
        <4>2. h[i] = <<ch>> /\ s \o <<ch>> = <<ch>>
          <5>1. h[i] = <<ch>>
            BY <1>3, <2>2, <3>1 DEF TextOf
          <5>2. <<>> \o <<ch>> = <<ch>>
            OBVIOUS
          <5> QED
            BY <4>1, <5>1, <5>2
        <4>3. Number(s) = 0
          <5>1. PICK f : Denotes(f, s) /\ Number(s) = f[0]
            BY <4>1, NumberUnrolls
          <5> QED
            BY <5>1 DEF Denotes
        <4>4. Number(s) * D + r = i
          BY <1>1, <2>2, <3>1, <4>3
        <4> QED
          BY <4>2, <4>4
      <3>2. CASE ~(i < D)
        <4>1. q < i /\ q \in 0 .. M
          BY <1>1, <2>1, <2>2, <3>2
        <4>2. PICK s \in Seq(DigitChars) : s = h[q] /\ Number(s) = q
          BY <1>2, <1>3, <1>4, <4>1
        <4>3. h[i] = s \o <<ch>>
          BY <1>3, <2>2, <3>2, <4>2 DEF TextOf
        <4> QED
          BY <2>2, <4>2, <4>3
      <3> QED
        BY <3>1, <3>2
    <2>4. Number(s \o <<ch>>) = Number(s) * D + DigitValue(ch)
      BY NumberAppend
    <2>5. Number(h[i]) = i
      BY <2>2, <2>3, <2>4
    <2>6. s \o <<ch>> # <<>>
      <3>1. Len(s \o <<ch>>) = Len(s) + 1
        OBVIOUS
      <3> QED
        BY <3>1
    <2> QED
      BY <1>2, <2>3, <2>5, <2>6
  <1> HIDE DEF Good
  <1>5. ~(n \in U)
    <2> SUFFICES ASSUME n \in U PROVE FALSE
      OBVIOUS
    <2>1. U \in SUBSET Nat /\ U # {}
      OBVIOUS
    <2>2. PICK i \in U : \A j \in U : i <= j
      BY <2>1, Smallest, Zenon
    <2>3. \A j \in 0 .. M : j < i => Good(j)
      BY <2>2
    <2> QED
      BY <1>4, <2>3
  <1>6. Good(n)
    BY <1>5
  <1> QED
    BY <1>2, <1>3, <1>6 DEF Good

(* What parse_unsigned makes of it. *)
LEMMA ParsesBack ==
    ASSUME NEW n \in 0 .. MaxUnsigned
    PROVE  parse_unsigned(to_string[n]) = n
PROOF
  <1>1. PICK v \in Seq(DigitChars) : v = to_string[n] /\ Number(v) = n /\ v # <<>>
    BY TextDenotes, Zenon
  <1>2. \A k \in DOMAIN v : v[k] \in DigitChars
    OBVIOUS
  <1>3. ~(n > MaxUnsigned)
    BY DiscoveryMessageAssumption
  <1>4. parse_unsigned(v) = n
    BY <1>1, <1>2, <1>3 DEF parse_unsigned
  <1> QED
    BY <1>1, <1>4

(* A text is some fields. *)
TextType == text \in Seq(Fields) /\ Len(text) > 0

LEMMA TextTyped == MessageSpec => []TextType
PROOF
  <1>1. ASSUME MessageInit PROVE TextType
    <2>1. PICK f \in Fields : text = <<f>>
      BY <1>1 DEF MessageInit
    <2>2. <<f>> \in Seq(Fields) /\ Len(<<f>>) = 1
      OBVIOUS
    <2> QED
      BY <2>1, <2>2 DEF TextType
  <1>2. ASSUME TextType, [MessageNext]_text PROVE TextType'
    <2>1. CASE MessageNext
      <3>1. PICK f \in Fields : text' = Append(text, f)
        BY <2>1 DEF MessageNext, Extend
      <3>2. text \in Seq(Fields)
        BY <1>2 DEF TextType
      <3>3. Append(text, f) \in Seq(Fields) /\ Len(Append(text, f)) = Len(text) + 1
        BY <3>2
      <3> QED
        BY <3>1, <3>2, <3>3 DEF TextType
    <2>2. CASE UNCHANGED text
      BY <1>2, <2>2 DEF TextType
    <2> QED
      BY <1>2, <2>1, <2>2
  <1> QED
    BY <1>1, <1>2, PTL DEF MessageSpec

(* The name that safe_peer_name makes is one field that listeners accept. *)
LEMMA SafeName ==
    ASSUME TextType
    PROVE  \E f : safe_peer_name(text) = <<f>> /\ is_valid_peer_name(f)
PROOF
  <1>1. /\ kMaxPeerNameLength \in Nat /\ Len(DefaultPeerName) \in 1 .. kMaxPeerNameLength
    BY DiscoveryMessageAssumption
  <1>2. CASE text = <<<<>>>> \/ Len(text) > 1
    <2>1. safe_peer_name(text) = <<DefaultPeerName>>
      BY <1>2 DEF safe_peer_name
    <2> QED
      BY <1>1, <2>1 DEF is_valid_peer_name
  <1>3. CASE ~(text = <<<<>>>> \/ Len(text) > 1)
    <2>1. PICK f \in Fields : text[1] = f /\ text = <<f>>
      <3>1. text \in Seq(Fields) /\ Len(text) = 1
        <4>1. text \in Seq(Fields) /\ Len(text) > 0 /\ ~(Len(text) > 1)
          BY <1>3, Zenon DEF TextType
        <4>2. PICK s \in Seq(Fields) : s = text
          BY <4>1, Zenon
        <4>3. Len(s) \in Nat
          OBVIOUS
        <4>4. PICK n \in Nat : n = Len(text) /\ n > 0 /\ ~(n > 1)
          BY <4>1, <4>2, <4>3, Zenon
        <4>5. n = 1
          BY <4>4
        <4> QED
          BY <4>1, <4>4, <4>5, Zenon
      <3>2. text[1] \in Fields /\ text = <<text[1]>>
        BY <3>1
      <3> QED
        BY <3>2
    <2>2. f # <<>>
      BY <1>3, <2>1
    <2> DEFINE S == {f[k] : k \in DOMAIN f}
    <2>3. f \in Seq(S)
      BY DiscoveryMessageAssumption, Zenon
    <2> HIDE DEF S
    <2>4. Len(f) \in Nat \ {0}
      BY <2>2, <2>3
    <2>5. PICK k \in 1 .. kMaxPeerNameLength :
             k = Min({kMaxPeerNameLength, Len(f)}) /\ k <= Len(f)
      <3> DEFINE P == {kMaxPeerNameLength, Len(f)}
      <3>1. P \in SUBSET Nat /\ P # {}
        BY <1>1, <2>4
      <3>2. PICK i \in P : \A j \in P : i <= j
        BY <3>1, Smallest, Zenon
      <3>3. Min(P) \in P /\ \A j \in P : Min(P) <= j
        BY <3>2, Zenon DEF Min
      <3>4. kMaxPeerNameLength \in P /\ Len(f) \in P
        OBVIOUS
      <3>5. PICK k \in P : k = Min(P) /\ k <= kMaxPeerNameLength /\ k <= Len(f)
        BY <3>3, <3>4, Zenon
      <3>6. k \in 1 .. kMaxPeerNameLength
        BY <1>1, <2>4, <3>5
      <3> QED
        BY <3>5, <3>6, Zenon
    <2>6. safe_peer_name(text) = <<SubSeq(f, 1, k)>>
      BY <1>3, <2>1, <2>5 DEF safe_peer_name, Prefix
    <2>7. Len(SubSeq(f, 1, k)) = k
      BY <2>3, <2>4, <2>5
    <2>8. is_valid_peer_name(SubSeq(f, 1, k))
      BY <2>7 DEF is_valid_peer_name
    <2> QED
      BY <2>6, <2>8
  <1> QED
    BY <1>2, <1>3

(* An announcement of a valid name and port is understood. *)
LEMMA AnnouncementParses ==
    ASSUME NEW f, is_valid_peer_name(f), NEW port \in 1 .. MaxPort
    PROVE  parse_discovery_message(build_discovery_message(<<f>>, port))
           = [name |-> f, transfer_port |-> port]
PROOF
  <1>1. port \in 0 .. MaxUnsigned /\ kVersion \in 0 .. MaxUnsigned
    BY DiscoveryMessageAssumption
  <1>2. PICK v, t : /\ v = to_string[kVersion] /\ t = to_string[port] /\ t # <<>>
                    /\ parse_unsigned(v) = kVersion /\ parse_unsigned(t) = port
    BY <1>1, TextDenotes, ParsesBack
  <1> DEFINE message == <<kDiscoveryMarker, v, f, t>>
  <1>3. build_discovery_message(<<f>>, port) = message
    <2>1. <<kDiscoveryMarker, v>> \o <<f>> \o <<t>> = message
      <3> DEFINE S == {kDiscoveryMarker, v, f, t}
      <3>1. PICK a \in Seq(S) : a = <<kDiscoveryMarker, v>> /\ Len(a) = 2
        <4>1. <<kDiscoveryMarker, v>> \in Seq(S) /\ Len(<<kDiscoveryMarker, v>>) = 2
          OBVIOUS
        <4> QED
          BY <4>1, Zenon
      <3>2. PICK b \in Seq(S) : b = <<f>> /\ Len(b) = 1
        <4>1. <<f>> \in Seq(S) /\ Len(<<f>>) = 1
          OBVIOUS
        <4> QED
          BY <4>1, Zenon
      <3>3. PICK c \in Seq(S) : c = <<t>> /\ Len(c) = 1
        <4>1. <<t>> \in Seq(S) /\ Len(<<t>>) = 1
          OBVIOUS
        <4> QED
          BY <4>1, Zenon
      <3>4. /\ a[1] = kDiscoveryMarker /\ a[2] = v /\ b[1] = f /\ c[1] = t
            /\ Len(a) = 2 /\ Len(b) = 1 /\ Len(c) = 1
        BY <3>1, <3>2, <3>3
      <3>5. /\ message \in Seq(S) /\ Len(message) = 4 /\ message[1] = kDiscoveryMarker
            /\ message[2] = v /\ message[3] = f /\ message[4] = t
        OBVIOUS
      <3> HIDE DEF S, message
      <3>6. PICK u \in Seq(S) : u = a \o b /\ Len(u) = 3 /\ u[1] = a[1] /\ u[2] = a[2] /\ u[3] = b[1]
        <4>1. Len(a) = 2 /\ Len(b) = 1
          BY <3>4, Zenon
        <4>2. /\ a \o b \in Seq(S) /\ Len(a \o b) = Len(a) + Len(b)
              /\ \A i \in 1 .. Len(a) + Len(b) :
                    (a \o b)[i] = IF i <= Len(a) THEN a[i] ELSE b[i - Len(a)]
          BY ConcatProperties, Zenon
        <4>3. PICK u : u = a \o b
          OBVIOUS
        <4>4. /\ u \in Seq(S) /\ Len(u) = 2 + 1
              /\ \A i \in 1 .. 2 + 1 : u[i] = IF i <= 2 THEN a[i] ELSE b[i - 2]
          BY <4>1, <4>2, <4>3, Zenon
        <4>5. Len(u) = 3 /\ u[1] = a[1] /\ u[2] = a[2] /\ u[3] = b[1]
          BY <4>4
        <4> QED
          BY <4>3, <4>4, <4>5, Zenon
      <3>7. Len(u) = 3
        BY <3>6, Zenon
      <3>8. /\ u \o c \in Seq(S) /\ Len(u \o c) = 4 /\ (u \o c)[1] = u[1]
            /\ (u \o c)[2] = u[2] /\ (u \o c)[3] = u[3] /\ (u \o c)[4] = c[1]
        <4>1. Len(c) = 1
          BY <3>4, Zenon
        <4>2. /\ u \o c \in Seq(S) /\ Len(u \o c) = Len(u) + Len(c)
              /\ \A i \in 1 .. Len(u) + Len(c) :
                    (u \o c)[i] = IF i <= Len(u) THEN u[i] ELSE c[i - Len(u)]
          BY ConcatProperties, Zenon
        <4>3. PICK w : w = u \o c
          OBVIOUS
        <4>4. /\ w \in Seq(S) /\ Len(w) = 3 + 1
              /\ \A i \in 1 .. 3 + 1 : w[i] = IF i <= 3 THEN u[i] ELSE c[i - 3]
          BY <3>7, <4>1, <4>2, <4>3, Zenon
        <4>5. Len(w) = 4 /\ w[1] = u[1] /\ w[2] = u[2] /\ w[3] = u[3] /\ w[4] = c[1]
          BY <4>4
        <4> QED
          BY <4>3, <4>4, <4>5, Zenon
      <3>9. \A i \in 1 .. 4 : (u \o c)[i] = message[i]
        <4>1. \A i \in 1 .. 4 : i = 1 \/ i = 2 \/ i = 3 \/ i = 4
          OBVIOUS
        <4> QED
          BY <3>4, <3>5, <3>6, <3>8, <4>1, Zenon
      <3>10. u \o c = message
        BY <3>5, <3>8, <3>9, SeqEqual
      <3> QED
        BY <3>1, <3>2, <3>3, <3>6, <3>10, Zenon
    <2> QED
      BY <1>2, <2>1 DEF build_discovery_message
  <1>4. /\ Len(message) = 4 /\ message[1] = kDiscoveryMarker /\ message[2] = v
        /\ message[3] = f /\ message[4] = t
    OBVIOUS
  <1> HIDE DEF message
  <1>5. split_message(message) = message
    BY <1>2, <1>4 DEF split_message, Last
  <1>6. is_valid_port(port)
    BY DEF is_valid_port
  <1> QED
    BY <1>2, <1>3, <1>4, <1>5, <1>6 DEF parse_discovery_message

(* Whatever name a user gives the broadcaster, a listener takes what it sends *)
(* for a peer of the name that safe_peer_name made, and of its port: for any  *)
(* digits, any limit on names, and any range of ports below that of stoul.    *)
THEOREM AnnouncementsAreParsed == MessageSpec => []AnnouncementsParse
PROOF
  <1>1. ASSUME TextType PROVE AnnouncementsParse
    <2>1. PICK f : safe_peer_name(text) = <<f>> /\ is_valid_peer_name(f)
      BY <1>1, SafeName
    <2>2. <<f>>[1] = f
      OBVIOUS
    <2>3. \A port \in 1 .. MaxPort :
             parse_discovery_message(build_discovery_message(<<f>>, port))
                 = [name |-> f, transfer_port |-> port]
      BY <2>1, AnnouncementParses
    <2> QED
      BY <2>1, <2>2, <2>3 DEF AnnouncementsParse
  <1> QED
    BY <1>1, TextTyped, PTL

-----------------------------------------------------------------------------
(* Only announcements parse *)

(* The text of a number of several digits, and of one of a single digit. *)
LEMMA TextOfMany ==
    ASSUME NEW q \in Nat, q > 0, NEW r \in Nat, r < Len(Digits),
           NEW n \in 0 .. MaxUnsigned, n = q * Len(Digits) + r
    PROVE  to_string[n] = to_string[q] \o <<Digits[r + 1]>> /\ q \in 0 .. MaxUnsigned
PROOF
  <1>1. PICK D \in Nat \ {0, 1} : D = Len(Digits)
    BY DigitFacts
  <1>2. n = q * D + r /\ r < D /\ n \in Nat
    BY <1>1
  <1>3. q * D \in Nat /\ q * D >= D /\ q * D >= q
    BY SMT
  <1>4. n \div D = q /\ n % D = r
    <2>1. D \in Nat \ {0}
      OBVIOUS
    <2> QED
      BY <1>2, <2>1, Quotient
  <1>5. ~(n < D) /\ q <= n
    BY <1>2, <1>3
  <1>6. to_string[n] = TextOf(to_string, n)
    BY ToStringUnrolls
  <1>7. TextOf(to_string, n) = to_string[q] \o <<Digits[r + 1]>>
    BY <1>1, <1>4, <1>5 DEF TextOf, LastDigit
  <1>8. q \in 0 .. MaxUnsigned
    BY <1>2, <1>5, DiscoveryMessageAssumption
  <1> QED
    BY <1>6, <1>7, <1>8

LEMMA TextOfOne ==
    ASSUME NEW r \in Nat, r < Len(Digits), r \in 0 .. MaxUnsigned
    PROVE  to_string[r] = <<Digits[r + 1]>>
PROOF
  <1>1. PICK D \in Nat \ {0, 1} : D = Len(Digits)
    BY DigitFacts
  <1>2. r % D = r
    BY <1>1
  <1>3. to_string[r] = TextOf(to_string, r)
    BY ToStringUnrolls
  <1> QED
    BY <1>1, <1>2, <1>3 DEF TextOf, LastDigit

(* Strings of digits are joined in any grouping. *)
LEMMA DigitsTogether ==
    ASSUME NEW z \in Seq(DigitChars), NEW s \in Seq(DigitChars), NEW c \in Seq(DigitChars)
    PROVE  (z \o s) \o c = z \o (s \o c)
PROOF
  BY ConcatAssociative

(* A run of zeros. *)
LEMMA ZeroRun ==
    ASSUME NEW l \in Nat
    PROVE  /\ LeadingZeros(l) \in Seq(DigitChars) /\ Len(LeadingZeros(l)) = l
           /\ \A i \in 1 .. l : LeadingZeros(l)[i] = Digits[1]
PROOF
  <1>1. Digits[1] \in DigitChars
    BY DigitFacts
  <1>2. [k \in 1 .. l |-> Digits[1]] \in Seq(DigitChars)
    BY <1>1
  <1>3. Len([k \in 1 .. l |-> Digits[1]]) = l
    OBVIOUS
  <1> QED
    BY <1>2, <1>3 DEF LeadingZeros

(* Zeros before a number. *)
LEMMA ZerosBefore ==
    ASSUME NEW l \in Nat
    PROVE  /\ LeadingZeros(l) \in Seq(DigitChars) /\ Len(LeadingZeros(l)) = l
           /\ LeadingZeros(l + 1) = LeadingZeros(l) \o <<Digits[1]>>
           /\ LeadingZeros(0) = <<>>
PROOF
  <1>1. Digits[1] \in DigitChars
    BY DigitFacts
  <1>2. PICK ch \in DigitChars : ch = Digits[1]
    BY <1>1
  <1>3. PICK z \in Seq(DigitChars) : z = LeadingZeros(l) /\ Len(z) = l
                                     /\ \A i \in 1 .. l : z[i] = ch
    BY <1>2, ZeroRun, Zenon
  <1>4. PICK y \in Seq(DigitChars) : y = LeadingZeros(l + 1) /\ Len(y) = l + 1
                                     /\ \A i \in 1 .. l + 1 : y[i] = ch
    <2>1. l + 1 \in Nat
      OBVIOUS
    <2> QED
      BY <1>2, <2>1, ZeroRun, Zenon
  <1>5. <<ch>> \in Seq(DigitChars) /\ Len(<<ch>>) = 1 /\ <<ch>>[1] = ch
    OBVIOUS
  <1>6. /\ z \o <<ch>> \in Seq(DigitChars) /\ Len(z \o <<ch>>) = Len(z) + Len(<<ch>>)
        /\ \A i \in 1 .. Len(z) + Len(<<ch>>) :
              (z \o <<ch>>)[i] = IF i <= Len(z) THEN z[i] ELSE <<ch>>[i - Len(z)]
    BY <1>5, ConcatProperties, Zenon
  <1>7. PICK w : w = z \o <<ch>>
    OBVIOUS
  <1>8. /\ w \in Seq(DigitChars) /\ Len(w) = l + 1
        /\ \A i \in 1 .. l + 1 : w[i] = IF i <= l THEN z[i] ELSE <<ch>>[i - l]
    BY <1>3, <1>5, <1>6, <1>7, Zenon
  <1>9. \A i \in 1 .. l + 1 : w[i] = y[i]
    <2>1. ASSUME NEW i \in 1 .. l + 1 PROVE w[i] = ch
      <3>1. CASE i <= l
        <4>1. i \in 1 .. l
          BY <3>1
        <4> QED
          BY <1>3, <1>8, <3>1, <4>1
      <3>2. CASE ~(i <= l)
        <4>1. i - l = 1
          BY <3>2
        <4> QED
          BY <1>5, <1>8, <3>2, <4>1
      <3> QED
        BY <3>1, <3>2
    <2> QED
      BY <1>4, <2>1
  <1>10. w = y
    BY <1>4, <1>8, <1>9, SeqEqual
  <1>11. LeadingZeros(0) = <<>>
    BY DEF LeadingZeros
  <1> QED
    BY <1>2, <1>3, <1>4, <1>7, <1>10, <1>11

(* Zeros denote nothing. *)
LEMMA ZerosAreNought ==
    ASSUME NEW l \in Nat
    PROVE  Number(LeadingZeros(l)) = 0
PROOF
  <1> DEFINE T == {i \in 0 .. l : Number(LeadingZeros(i)) = 0}
  <1>1. PICK D \in Nat : D = Len(Digits)
    BY DigitFacts
  <1>2. 0 \in T
    <2>1. PICK v \in Seq(DigitChars) : v = <<>> /\ v = LeadingZeros(0)
      BY ZerosBefore
    <2>2. PICK f : Denotes(f, v) /\ Number(v) = f[0]
      BY <2>1, NumberUnrolls
    <2>3. Number(v) = 0
      BY <2>2 DEF Denotes
    <2> QED
      BY <2>1, <2>3
  <1>3. ASSUME NEW i \in 1 .. l, i - 1 \in T PROVE i \in T
    <2>1. PICK j \in Nat : j = i - 1 /\ i = j + 1
      OBVIOUS
    <2>2. PICK z \in Seq(DigitChars), ch \in DigitChars :
             z = LeadingZeros(j) /\ ch = Digits[1] /\ LeadingZeros(j + 1) = z \o <<ch>>
      <3>1. Digits[1] \in DigitChars
        BY DigitFacts
      <3> QED
        BY <3>1, ZerosBefore, Zenon
    <2>3. Number(z) = 0
      BY <1>3, <2>1, <2>2
    <2>4. DigitValue(ch) = 0
      BY <2>2, DigitFacts
    <2>5. Number(z \o <<ch>>) = Number(z) * D + DigitValue(ch)
      BY <1>1, NumberAppend
    <2>6. Number(z \o <<ch>>) = 0
      BY <1>1, <2>3, <2>4, <2>5
    <2>7. Number(LeadingZeros(i)) = 0
      BY <2>1, <2>2, <2>6, Zenon
    <2> QED
      BY <2>7
  <1> HIDE DEF T
  <1>4. \A i \in 0 .. l : i \in T
    BY <1>2, <1>3, UpTo
  <1> QED
    BY <1>4 DEF T

(* A number with zeros before it denotes the same. *)
LEMMA PaddedDenotes ==
    ASSUME NEW l \in Nat, NEW n \in 0 .. MaxUnsigned
    PROVE  /\ Number(LeadingZeros(l) \o to_string[n]) = n
           /\ LeadingZeros(l) \o to_string[n] \in Seq(DigitChars)
           /\ LeadingZeros(l) \o to_string[n] # <<>>
PROOF
  <1> DEFINE M == MaxUnsigned
  <1>1. M \in Nat
    BY DiscoveryMessageAssumption
  <1>2. PICK D \in Nat \ {0, 1} : D = Len(Digits)
    BY DigitFacts
  <1>3. PICK z \in Seq(DigitChars) : z = LeadingZeros(l) /\ Number(z) = 0
    BY ZerosBefore, ZerosAreNought
  <1> DEFINE Good(i) == Number(z \o to_string[i]) = i
             U == {i \in 0 .. M : ~Good(i)}
  <1>4. ASSUME NEW i \in 0 .. M, \A j \in 0 .. M : j < i => Good(j) PROVE Good(i)
    <2>1. i \in Nat
      OBVIOUS
    <2>2. PICK q \in Nat, r \in Nat, ch \in DigitChars :
             /\ i \div D = q /\ LastDigit(i) = <<ch>> /\ DigitValue(ch) = r
             /\ i = q * D + r /\ (i < D => i = r) /\ (i >= D => q < i)
      BY <1>2, <2>1, LastDigits, ZenonT(60)
    <2>3. to_string[i] = TextOf(to_string, i)
      BY ToStringUnrolls
    <2>4. CASE i < D
      <3>1. to_string[i] = <<ch>>
        BY <1>2, <2>2, <2>3, <2>4 DEF TextOf
      <3>2. Number(z \o <<ch>>) = Number(z) * D + DigitValue(ch)
        BY <1>2, NumberAppend
      <3> QED
        BY <1>2, <1>3, <2>2, <2>4, <3>1, <3>2
    <2>5. CASE ~(i < D)
      <3>1. q < i /\ q \in 0 .. M
        BY <1>1, <1>2, <2>1, <2>2, <2>5
      <3>2. PICK s \in Seq(DigitChars) : s = to_string[q]
        BY <3>1, ToStringUnrolls
      <3>3. to_string[i] = s \o <<ch>>
        BY <1>2, <2>2, <2>3, <2>5, <3>2 DEF TextOf
      <3>4. PICK c \in Seq(DigitChars) : c = <<ch>>
        <4>1. <<ch>> \in Seq(DigitChars)
          OBVIOUS
        <4> QED
          BY <4>1, Zenon
      <3>5. (z \o s) \o c = z \o (s \o c)
        BY DigitsTogether, Zenon
      <3>6. PICK v \in Seq(DigitChars) : v = z \o s
        BY ConcatProperties, Zenon
      <3>7. Number(v \o <<ch>>) = Number(v) * D + DigitValue(ch)
        BY <1>2, NumberAppend
      <3>8. Number(v) = q
        BY <1>4, <3>1, <3>2, <3>6
      <3>9. Number(v \o <<ch>>) = i
        BY <2>2, <3>7, <3>8
      <3> QED
        BY <3>3, <3>4, <3>5, <3>6, <3>9, Zenon
    <2> QED
      BY <2>4, <2>5
  <1> HIDE DEF Good
  <1>5. ~(n \in U)
    <2> SUFFICES ASSUME n \in U PROVE FALSE
      OBVIOUS
    <2>1. U \in SUBSET Nat /\ U # {}
      OBVIOUS
    <2>2. PICK i \in U : \A j \in U : i <= j
      BY <2>1, Smallest, Zenon
    <2>3. \A j \in 0 .. M : j < i => Good(j)
      BY <2>2
    <2> QED
      BY <1>4, <2>3
  <1>6. Good(n)
    BY <1>5
  <1>7. PICK t \in Seq(DigitChars) : t = to_string[n] /\ t # <<>>
    BY TextDenotes, Zenon
  <1>8. z \o t \in Seq(DigitChars) /\ z \o t # <<>>
    <2>1. z \o t \in Seq(DigitChars) /\ Len(z \o t) = Len(z) + Len(t)
      BY ConcatProperties, Zenon
    <2>2. Len(z) + Len(t) > 0
      BY <1>7, EmptySeq
    <2>3. PICK w : w = z \o t
      OBVIOUS
    <2>4. w \in Seq(DigitChars) /\ Len(w) > 0
      BY <2>1, <2>2, <2>3
    <2>5. w # <<>>
      BY <2>4
    <2> QED
      BY <2>3, <2>4, <2>5, Zenon
  <1> QED
    BY <1>3, <1>6, <1>7, <1>8 DEF Good

(* And nothing else denotes it. *)
LEMMA OnlyPadded ==
    ASSUME NEW v \in Seq(DigitChars), v # <<>>, Number(v) \in 0 .. MaxUnsigned
    PROVE  \E l \in 0 .. Len(v) : v = LeadingZeros(l) \o to_string[Number(v)]
PROOF
  <1> DEFINE M == MaxUnsigned
             Fine(u) == \E l \in Nat : u = LeadingZeros(l) \o to_string[Number(u)]
             T == {i \in 0 .. Len(v) : \A u \in Seq(DigitChars) :
                                          Len(u) = i + 1 /\ Number(u) \in 0 .. M => Fine(u)}
  <1>1. M \in Nat /\ Len(v) \in Nat \ {0}
    BY DiscoveryMessageAssumption
  <1>2. PICK D \in Nat \ {0, 1} : D = Len(Digits)
    BY DigitFacts
  <1>3. ASSUME NEW w \in Seq(DigitChars), NEW ch \in DigitChars, NEW u \in Seq(DigitChars),
               u = w \o <<ch>>, Number(u) \in 0 .. M,
               w = <<>> \/ (Number(w) \in 0 .. M => Fine(w))
        PROVE  Fine(u)
    <2>1. PICK r \in Nat : ch = Digits[r + 1] /\ DigitValue(ch) = r /\ r < D
      <3>1. PICK k \in 1 .. D : ch = Digits[k]
        BY <1>2, DiscoveryMessageAssumption DEF DigitChars
      <3>2. PICK r \in Nat : r = k - 1 /\ k = r + 1 /\ r < D
        OBVIOUS
      <3>3. DigitValue(ch) = r
        BY <1>2, <3>1, <3>2, DigitFacts
      <3> QED
        BY <3>1, <3>2, <3>3
    <2>2. PICK q \in Nat, n \in 0 .. M : q = Number(w) /\ n = Number(u) /\ n = q * D + r
      <3>1. /\ Number(w) \in Nat
            /\ Number(w \o <<ch>>) = Number(w) * Len(Digits) + DigitValue(ch)
        BY NumberAppend
      <3> QED
        BY <1>2, <1>3, <2>1, <3>1
    <2>3. q * D \in Nat /\ q * D >= q
      BY SMT
    <2>4. q \in 0 .. M /\ r \in 0 .. M
      <3>1. n = q * D + r
        BY <2>2, Zenon
      <3> QED
        BY <1>1, <2>3, <3>1
    <2>5. CASE q > 0
      <3>1. to_string[n] = to_string[q] \o <<ch>>
        <4>1. n = q * Len(Digits) + r /\ r < Len(Digits)
          BY <1>2, <2>1, <2>2
        <4> QED
          BY <2>1, <2>5, <4>1, TextOfMany
      <3>2. w # <<>>
        <4> SUFFICES ASSUME w = <<>> PROVE FALSE
          OBVIOUS
        <4>1. PICK f : Denotes(f, w) /\ Number(w) = f[0]
          BY NumberUnrolls
        <4>2. Number(w) = 0
          BY <4>1 DEF Denotes
        <4> QED
          BY <2>2, <2>5, <4>2
      <3>3. PICK l \in Nat : w = LeadingZeros(l) \o to_string[q]
        BY <1>3, <2>2, <2>4, <3>2
      <3>4. PICK z \in Seq(DigitChars), s \in Seq(DigitChars) :
               z = LeadingZeros(l) /\ s = to_string[q]
        BY <2>4, ZerosBefore, ToStringUnrolls
      <3>5. PICK c \in Seq(DigitChars) : c = <<ch>>
        <4>1. <<ch>> \in Seq(DigitChars)
          OBVIOUS
        <4> QED
          BY <4>1, Zenon
      <3>6. (z \o s) \o c = z \o (s \o c)
        BY DigitsTogether, ZenonT(60)
      <3>7. u = LeadingZeros(l) \o to_string[n]
        BY <1>3, <3>1, <3>3, <3>4, <3>5, <3>6, Zenon
      <3> QED
        BY <2>2, <3>7, Zenon
    <2>6. CASE ~(q > 0)
      <3>1. q = 0 /\ n = r
        <4>1. q = 0
          BY <2>6
        <4>2. q * D = 0
          BY <4>1
        <4>3. n = q * D + r
          BY <2>2, Zenon
        <4> QED
          BY <4>1, <4>2, <4>3
      <3>2. to_string[n] = <<ch>>
        <4>1. to_string[r] = <<Digits[r + 1]>>
          BY <1>2, <2>1, <2>4, TextOfOne
        <4> QED
          BY <2>1, <3>1, <4>1
      <3>3. CASE w = <<>>
        <4>1. w = LeadingZeros(0) /\ 0 \in Nat
          BY <3>3, ZerosBefore
        <4>2. u = LeadingZeros(0) \o to_string[n]
          BY <1>3, <3>2, <4>1, Zenon
        <4> QED
          BY <2>2, <4>1, <4>2, Zenon
      <3>4. CASE w # <<>>
        <4>1. PICK l \in Nat : w = LeadingZeros(l) \o to_string[0]
          BY <1>3, <2>2, <2>4, <3>1, <3>4
        <4>2. to_string[0] = <<Digits[1]>>
          <5>1. 0 \in Nat /\ 0 < Len(Digits) /\ 0 \in 0 .. M /\ 0 + 1 = 1
            BY <1>1, <1>2
          <5> QED
            BY <5>1, TextOfOne
        <4>3. w = LeadingZeros(l + 1) /\ l + 1 \in Nat
          <5>1. l + 1 \in Nat
            OBVIOUS
          <5>2. LeadingZeros(l + 1) = LeadingZeros(l) \o <<Digits[1]>>
            BY ZerosBefore, Zenon
          <5> QED
            BY <4>1, <4>2, <5>1, <5>2, Zenon
        <4>4. u = LeadingZeros(l + 1) \o to_string[n]
          BY <1>3, <3>2, <4>3, Zenon
        <4> QED
          BY <2>2, <4>3, <4>4, Zenon
      <3> QED
        BY <3>3, <3>4
    <2> QED
      BY <2>5, <2>6
  <1>4. ASSUME NEW u \in Seq(DigitChars), NEW i \in Nat, Len(u) = i + 1
        PROVE  \E w \in Seq(DigitChars), ch \in DigitChars : u = w \o <<ch>> /\ Len(w) = i
    <2>1. 1 \in 1 .. Len(u) /\ Len(u) \in 1 .. Len(u) /\ Len(u) - 1 = i
      BY <1>4
    <2>2. SubSeq(u, 1, Len(u)) = SubSeq(u, 1, Len(u) - 1) \o <<u[Len(u)]>>
      BY <2>1, SubSeqRecursiveSecond
    <2>3. SubSeq(u, 1, Len(u)) = u
      BY SubSeqFull
    <2>4. SubSeq(u, 1, i) \in Seq(DigitChars) /\ Len(SubSeq(u, 1, i)) = i
      BY <1>4
    <2>5. u[Len(u)] \in DigitChars
      BY <2>1, ElementOfSeq
    <2> QED
      BY <2>1, <2>2, <2>3, <2>4, <2>5
  <1> HIDE DEF Fine
  <1>5. 0 \in T
    <2>1. ASSUME NEW u \in Seq(DigitChars), Len(u) = 0 + 1, Number(u) \in 0 .. M PROVE Fine(u)
      <3>1. PICK w \in Seq(DigitChars), ch \in DigitChars : u = w \o <<ch>> /\ Len(w) = 0
        <4>1. 0 \in Nat
          OBVIOUS
        <4> QED
          BY <1>4, <2>1, <4>1, Zenon
      <3>2. w = <<>>
        BY <3>1, EmptySeq
      <3> QED
        BY <1>3, <2>1, <3>1, <3>2
    <2> QED
      BY <1>1, <2>1
  <1>6. ASSUME NEW i \in 1 .. Len(v), i - 1 \in T PROVE i \in T
    <2>1. ASSUME NEW u \in Seq(DigitChars), Len(u) = i + 1, Number(u) \in 0 .. M PROVE Fine(u)
      <3>1. PICK w \in Seq(DigitChars), ch \in DigitChars : u = w \o <<ch>> /\ Len(w) = i
        <4>1. i \in Nat
          BY <1>1
        <4> QED
          BY <1>4, <2>1, <4>1, Zenon
      <3>2. i = (i - 1) + 1
        OBVIOUS
      <3>3. Number(w) \in 0 .. M => Fine(w)
        BY <1>6, <3>1, <3>2
      <3> QED
        BY <1>3, <2>1, <3>1, <3>3
    <2> QED
      BY <1>1, <2>1
  <1>7. Fine(v)
    <2>1. \A i \in 0 .. Len(v) : i \in T
      <3> HIDE DEF T
      <3> QED
        BY <1>1, <1>5, <1>6, UpTo
    <2>2. PICK i \in 0 .. Len(v) : Len(v) = i + 1
      <3>1. PICK n \in Nat \ {0} : n = Len(v)
        BY <1>1
      <3>2. n - 1 \in 0 .. n /\ n = (n - 1) + 1
        OBVIOUS
      <3> QED
        BY <3>1, <3>2, Zenon
    <2> QED
      BY <2>1, <2>2
  <1>8. PICK l \in Nat : v = LeadingZeros(l) \o to_string[Number(v)]
    BY <1>7 DEF Fine
  <1>9. l \in 0 .. Len(v)
    <2>1. PICK z \in Seq(DigitChars), s \in Seq(DigitChars) :
             z = LeadingZeros(l) /\ s = to_string[Number(v)] /\ Len(z) = l
      BY ZerosBefore, ToStringUnrolls
    <2>2. v = z \o s
      BY <1>8, <2>1, Zenon
    <2>3. Len(v) = Len(z) + Len(s)
      BY <2>2
    <2> QED
      BY <2>1, <2>3
  <1> QED
    BY <1>8, <1>9

(* The fields that read as a number are those that write it, zeros apart. *)
LEMMA FieldReads ==
    ASSUME NEW f \in Fields, NEW n \in 0 .. MaxUnsigned
    PROVE  parse_unsigned(f) = n <=> f \in WithZeros(n)
PROOF
  <1>1. n \in Nat /\ n # -1 /\ ~(n > MaxUnsigned)
    BY DiscoveryMessageAssumption
  <1>2. ASSUME parse_unsigned(f) = n PROVE f \in WithZeros(n)
    <2>1. f # <<>> /\ (\A k \in DOMAIN f : f[k] \in DigitChars) /\ Number(f) = n
      BY <1>1, <1>2 DEF parse_unsigned
    <2>2. f \in Seq({f[k] : k \in DOMAIN f})
      BY DiscoveryMessageAssumption
    <2>3. f \in Seq(DigitChars)
      BY <2>1, <2>2
    <2>4. PICK l \in 0 .. Len(f) : f = LeadingZeros(l) \o to_string[Number(f)]
      <3>1. Number(f) \in 0 .. MaxUnsigned
        BY <2>1
      <3> QED
        BY <2>1, <2>3, <3>1, OnlyPadded, Zenon
    <2> QED
      BY <2>1, <2>4, Zenon DEF WithZeros
  <1>3. ASSUME f \in WithZeros(n) PROVE parse_unsigned(f) = n
    <2>1. PICK l \in 0 .. Len(f) : f = LeadingZeros(l) \o to_string[n]
      BY <1>3, Zenon DEF WithZeros
    <2>2. l \in Nat
      <3>1. f \in Seq({f[k] : k \in DOMAIN f})
        BY DiscoveryMessageAssumption
      <3> QED
        BY <3>1
    <2>3. Number(f) = n /\ f \in Seq(DigitChars) /\ f # <<>>
      BY <2>1, <2>2, PaddedDenotes, Zenon
    <2>4. \A k \in DOMAIN f : f[k] \in DigitChars
      BY <2>3
    <2> QED
      BY <1>1, <2>3, <2>4 DEF parse_unsigned
  <1> QED
    BY <1>2, <1>3

(* What split_message makes of a text whose last field is not empty, and of   *)
(* the same text with one more separator.                                     *)
LEMMA SplitsInto ==
    ASSUME NEW S, NEW e \in S, e = <<>>, NEW m \in Seq(S), NEW q \in Seq(S),
           Len(m) > 0, Len(q) > 0, q[Len(q)] # <<>>
    PROVE  split_message(m) = q <=> m = q \/ m = q \o <<e>>
PROOF
  <1>1. ASSUME split_message(m) = q PROVE m = q \/ m = q \o <<e>>
    <2>1. CASE Last(m) = <<>>
      <3>1. SubSeq(m, 1, Len(m) - 1) = q
        BY <1>1, <2>1 DEF split_message, Front
      <3>2. 1 \in 1 .. Len(m) /\ Len(m) \in 1 .. Len(m)
        OBVIOUS
      <3>3. SubSeq(m, 1, Len(m)) = SubSeq(m, 1, Len(m) - 1) \o <<m[Len(m)]>>
        BY <3>2, SubSeqRecursiveSecond
      <3>4. SubSeq(m, 1, Len(m)) = m
        BY SubSeqFull
      <3>5. m[Len(m)] = e
        BY <2>1 DEF Last
      <3> QED
        BY <3>1, <3>3, <3>4, <3>5
    <2>2. CASE Last(m) # <<>>
      BY <1>1, <2>2 DEF split_message
    <2> QED
      BY <2>1, <2>2
  <1>2. ASSUME m = q PROVE split_message(m) = q
    BY <1>2 DEF split_message, Last
  <1>3. ASSUME m = q \o <<e>> PROVE split_message(m) = q
    <2>1. PICK c \in Seq(S) : c = <<e>> /\ Len(c) = 1 /\ c[1] = e
      <3>1. <<e>> \in Seq(S) /\ Len(<<e>>) = 1 /\ <<e>>[1] = e
        OBVIOUS
      <3> QED
        BY <3>1, Zenon
    <2>2. /\ Len(q \o c) = Len(q) + Len(c)
          /\ \A i \in 1 .. Len(q) + Len(c) :
                (q \o c)[i] = IF i <= Len(q) THEN q[i] ELSE c[i - Len(q)]
      BY ConcatProperties, Zenon
    <2>3. m = q \o c
      BY <1>3, <2>1, Zenon
    <2>4. /\ Len(m) = Len(q) + 1
          /\ \A i \in 1 .. Len(q) + 1 : m[i] = IF i <= Len(q) THEN q[i] ELSE c[i - Len(q)]
      BY <2>1, <2>2, <2>3, Zenon
    <2>5. m[Len(m)] = e
      BY <2>1, <2>4
    <2>6. PICK u \in Seq(S) : u = SubSeq(m, 1, Len(m) - 1) /\ Len(u) = Len(q)
                              /\ \A i \in 1 .. Len(q) : u[i] = m[i]
      <3>1. Len(m) - 1 = Len(q) /\ Len(q) \in Nat
        BY <2>4
      <3>2. SubSeq(m, 1, Len(q)) \in Seq(S) /\ Len(SubSeq(m, 1, Len(q))) = Len(q)
        BY <2>4
      <3>3. \A i \in 1 .. Len(q) : SubSeq(m, 1, Len(q))[i] = m[i]
        BY <2>4
      <3> QED
        BY <3>1, <3>2, <3>3, Zenon
    <2>7. \A i \in 1 .. Len(q) : u[i] = q[i]
      BY <2>4, <2>6
    <2>8. u = q
      BY <2>6, <2>7, SeqEqual
    <2> QED
      BY <2>5, <2>6, <2>8 DEF split_message, Front, Last
  <1> QED
    BY <1>1, <1>2, <1>3

(* The texts of a peer's announcements are those that split into its fields. *)
LEMMA TextsSplit ==
    ASSUME NEW m \in Seq(Fields), Len(m) > 0, NEW p \in ValidPeers
    PROVE  m \in TextsOf(p) <=>
              \E v \in WithZeros(kVersion), t \in WithZeros(p.transfer_port) :
                  split_message(m) = <<kDiscoveryMarker, v, p.name, t>>
PROOF
  <1> DEFINE S == Fields \cup {kDiscoveryMarker, <<>>}
             q(v, t) == <<kDiscoveryMarker, v, p.name, t>>
  <1>1. p.name \in Fields /\ p.transfer_port \in 0 .. MaxUnsigned
    BY DiscoveryMessageAssumption DEF ValidPeers
  <1>2. m \in Seq(S)
    OBVIOUS
  <1>3. PICK e \in S : e = <<>>
    OBVIOUS
  <1>4. ASSUME NEW v \in WithZeros(kVersion), NEW t \in WithZeros(p.transfer_port)
        PROVE  split_message(m) = q(v, t) <=> m = q(v, t) \o <<>> \/ m = q(v, t) \o <<e>>
    <2>1. v \in Fields /\ t \in Fields
      BY Zenon DEF WithZeros
    <2>2. t # <<>>
      <3>1. parse_unsigned(t) = p.transfer_port
        BY <1>1, <2>1, FieldReads
      <3> QED
        BY <1>1, <3>1, DiscoveryMessageAssumption DEF parse_unsigned
    <2>3. PICK w \in Seq(S) : w = q(v, t) /\ Len(w) = 4 /\ w[4] = t
      <3>1. q(v, t) \in Seq(S) /\ Len(q(v, t)) = 4 /\ q(v, t)[4] = t
        BY <1>1, <2>1
      <3> QED
        BY <3>1, Zenon
    <2>4. Len(w) > 0 /\ w[Len(w)] # <<>>
      BY <2>2, <2>3
    <2>5. split_message(m) = w <=> m = w \/ m = w \o <<e>>
      <3> HIDE DEF S, q
      <3> QED
        BY <1>2, <1>3, <2>4, SplitsInto
    <2>6. w \o <<>> = w
      BY ConcatEmptySeq, Zenon
    <2> QED
      BY <2>3, <2>5, <2>6, Zenon
  <1> HIDE DEF q
  <1>5. m \in TextsOf(p) <=>
           \E v \in WithZeros(kVersion), t \in WithZeros(p.transfer_port) :
               m = q(v, t) \o <<>> \/ m = q(v, t) \o <<e>>
    <2>1. TextsOf(p) = {q(v, t) \o end : v \in WithZeros(kVersion),
                          t \in WithZeros(p.transfer_port), end \in {<<>>, <<<<>>>>}}
      BY DEF TextsOf, q
    <2>2. <<e>> = <<<<>>>>
      BY <1>3
    <2>3. {<<>>, <<e>>} = {<<>>, <<<<>>>>}
      BY <2>2
    <2> DEFINE E == {<<>>, <<e>>}
    <2>4. \A x : x \in E <=> x = <<>> \/ x = <<e>>
      OBVIOUS
    <2>5. TextsOf(p) = {q(v, t) \o end : v \in WithZeros(kVersion),
                          t \in WithZeros(p.transfer_port), end \in E}
      <3>1. E = {<<>>, <<<<>>>>}
        BY <2>3
      <3> HIDE DEF E
      <3> QED
        BY <2>1, <3>1
    <2> HIDE DEF E
    <2>6. m \in TextsOf(p) <=>
             \E v \in WithZeros(kVersion), t \in WithZeros(p.transfer_port), end \in E :
                 m = q(v, t) \o end
      BY <2>5
    <2> QED
      BY <2>4, <2>6, Zenon
  <1> QED
    BY <1>4, <1>5, Zenon DEF q

(* Whatever a listener receives, it lists a peer exactly when the datagram is *)
(* one that a broadcaster of that name and port could have sent, up to zeros  *)
(* before the numbers and one separator after them; and lists it as that one. *)
THEOREM OnlyAnnouncementsAreParsed == MessageSpec => []OnlyAnnouncementsParse
PROOF
  <1>1. ASSUME TextType PROVE OnlyAnnouncementsParse
    <2>1. PICK m \in Seq(Fields) : m = text /\ Len(m) > 0
      BY <1>1 DEF TextType
    <2>2. PICK parts : parts = split_message(m)
      OBVIOUS
    <2>3. PICK parsed : parsed = parse_discovery_message(text)
      OBVIOUS
    <2> DEFINE Accepted == /\ Len(parts) = 4
                           /\ parts[1] = kDiscoveryMarker
                           /\ parse_unsigned(parts[2]) = kVersion
                           /\ is_valid_peer_name(parts[3])
                           /\ is_valid_port(parse_unsigned(parts[4]))
               peer == [name |-> parts[3], transfer_port |-> parse_unsigned(parts[4])]
    <2>4. parsed = IF Accepted THEN peer ELSE NoPeer
      BY <2>1, <2>2, <2>3 DEF parse_discovery_message
    <2>5. parts \in Seq(Fields)
      <3>1. SubSeq(m, 1, Len(m) - 1) \in Seq(Fields)
        BY <2>1
      <3> QED
        BY <2>2, <3>1 DEF split_message, Front
    <2>6. kVersion \in 0 .. MaxUnsigned /\ \A port \in 1 .. MaxPort : port \in 0 .. MaxUnsigned
      BY DiscoveryMessageAssumption
    <2>7. ASSUME Accepted PROVE peer \in ValidPeers /\ text \in TextsOf(peer)
      <3>1. PICK a \in Fields, v \in Fields, f \in Fields, t \in Fields :
               a = parts[1] /\ v = parts[2] /\ f = parts[3] /\ t = parts[4]
        <4>1. \A i \in 1 .. 4 : parts[i] \in Fields
          <5>1. Len(parts) = 4
            BY <2>7, Zenon
          <5> QED
            BY <2>5, <5>1, ElementOfSeq
        <4>2. /\ parts[1] \in Fields /\ parts[2] \in Fields
              /\ parts[3] \in Fields /\ parts[4] \in Fields
          BY <4>1
        <4> QED
          BY <4>2, Zenon
      <3>2. PICK port \in 1 .. MaxPort : port = parse_unsigned(t)
        BY <2>7, <3>1 DEF is_valid_port
      <3>3. PICK p : p = peer /\ p = [name |-> f, transfer_port |-> port]
        BY <3>1, <3>2
      <3>4. p \in ValidPeers /\ p.name = f /\ p.transfer_port = port
        BY <2>7, <3>1, <3>3 DEF ValidPeers
      <3>5. v \in WithZeros(kVersion) /\ t \in WithZeros(p.transfer_port)
        BY <2>6, <2>7, <3>1, <3>2, <3>4, FieldReads
      <3>6. parts = <<kDiscoveryMarker, v, p.name, t>>
        <4>1. <<a, v, f, t>> \in Seq(Fields) /\ Len(<<a, v, f, t>>) = 4
          OBVIOUS
        <4>2. \A i \in 1 .. 4 : parts[i] = <<a, v, f, t>>[i]
          BY <3>1
        <4>3. parts = <<a, v, f, t>>
          BY <2>5, <2>7, <4>1, <4>2, SeqEqual
        <4> QED
          BY <2>7, <3>1, <3>4, <4>3
      <3>7. m \in TextsOf(p)
        BY <2>1, <2>2, <3>4, <3>5, <3>6, TextsSplit, Zenon
      <3> QED
        BY <2>1, <3>3, <3>4, <3>7, Zenon
    <2>8. ASSUME NEW p \in ValidPeers, text \in TextsOf(p) PROVE Accepted
      <3>1. m \in TextsOf(p)
        BY <2>1, <2>8, Zenon
      <3>2. PICK v \in WithZeros(kVersion), t \in WithZeros(p.transfer_port) :
               split_message(m) = <<kDiscoveryMarker, v, p.name, t>>
        BY <2>1, <3>1, TextsSplit, Zenon
      <3>3. /\ Len(parts) = 4 /\ parts[1] = kDiscoveryMarker /\ parts[2] = v
            /\ parts[3] = p.name /\ parts[4] = t
        BY <2>2, <3>2
      <3>4. v \in Fields /\ t \in Fields
        BY Zenon DEF WithZeros
      <3>5. is_valid_peer_name(p.name) /\ p.transfer_port \in 1 .. MaxPort
        BY DEF ValidPeers
      <3>6. parse_unsigned(v) = kVersion /\ parse_unsigned(t) = p.transfer_port
        BY <2>6, <3>4, <3>5, FieldReads
      <3> QED
        BY <3>3, <3>5, <3>6 DEF is_valid_port
    <2>9. ASSUME Accepted PROVE peer # NoPeer
      <3>1. peer \in [name : Fields, transfer_port : 1 .. MaxPort]
        BY <2>7, <2>9 DEF ValidPeers
      <3> QED
        BY <3>1, DiscoveryMessageAssumption
    <2> HIDE DEF Accepted, peer
    <2> QED
      BY <2>3, <2>4, <2>7, <2>8, <2>9, Zenon DEF OnlyAnnouncementsParse
  <1> QED
    BY <1>1, TextTyped, PTL

=============================================================================
