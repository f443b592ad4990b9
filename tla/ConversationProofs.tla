------------------------- MODULE ConversationProofs -------------------------
(***************************************************************************)
(* Sender and receiver agree on the work, and neither refuses what the     *)
(* other one says, for every set of senders, every content and chunk size  *)
(* and any number of faults and edits.                                     *)
(***************************************************************************)
EXTENDS TransferProofs, FiniteSetTheorems

-----------------------------------------------------------------------------
(* Geometry *)

(* The number of chunks is the size divided by the chunk size, rounded up.   *)
LEMMA RoundedUp ==
    ASSUME NEW n \in Nat, NEW C \in Nat \ {0}, NEW k \in Nat, k = (n + C - 1) \div C
    PROVE  n <= k * C /\ k * C < n + C
PROOF
  <1>1. k * C <= n + C - 1 /\ n + C - 1 < k * C + C
    BY SMT
  <1>2. k * C \in Nat
    BY SMT
  <1> QED
    BY <1>1, <1>2, SMT

(* Every chunk of a valid manifest has a header that validate_chunk_header   *)
(* accepts, the short last one included.                                     *)
LEMMA NewHeaderValid ==
    ASSUME NEW m \in Manifest, valid_manifest(m), NEW i \in Nat, i < m.chunk_count
    PROVE  validate_chunk_header(m, NewHeader(m, i))
PROOF
  <1> DEFINE C == m.chunk_size
             n == m.file_size
             k == m.chunk_count
             off == i * C
  <1>1. C \in Nat \ {0} /\ n \in Nat /\ k \in Nat /\ k = (n + C - 1) \div C
    BY ChunkPlanAssumption DEF Manifest, valid_manifest
  <1>2. n <= k * C /\ k * C < n + C /\ k * C \in Nat /\ off \in Nat
    <2> HIDE DEF C, n, k
    <2> QED
      BY <1>1, RoundedUp
  <1>3. off + C <= k * C
    BY <1>1, Multiples
  <1>4. i + 1 = k => off + C = k * C
    <2>1. ASSUME i + 1 = k PROVE off + C = k * C
      <3> HIDE DEF C, k
      <3>1. k * C = (i + 1) * C
        BY <2>1
      <3>2. (i + 1) * C = i * C + C
        BY <1>1
      <3> QED
        BY <3>1, <3>2
    <2> HIDE DEF C, k, off
    <2> QED
      BY <2>1
  <1>5. i + 1 # k => off + C + C <= k * C
    <2>1. ASSUME i + 1 # k PROVE (i + 1) * C + C <= k * C
      <3>1. i + 1 \in Nat /\ i + 1 < k
        BY <1>1, <2>1
      <3> HIDE DEF C, k
      <3> QED
        BY <1>1, <3>1, Multiples
    <2>2. (i + 1) * C = i * C + C
      BY <1>1
    <2> QED
      BY <2>1, <2>2
  <1> DEFINE h == NewHeader(m, i)
             rest == n - off
  <1>6. /\ h.chunk_index = i
        /\ h.byte_offset = off
        /\ h.payload_size = IF rest < C THEN rest ELSE C
    BY DEF NewHeader, chunk_offset, payload_size_for_chunk
  <1> HIDE DEF C, n, k, off, h
  <1>7. /\ off < n
        /\ h.payload_size > 0 /\ h.payload_size <= C
        /\ off + h.payload_size <= n
        /\ h.payload_size = IF i + 1 = k THEN n - off ELSE C
    BY <1>1, <1>2, <1>3, <1>4, <1>5, <1>6
  <1> QED
    BY <1>1, <1>6, <1>7 DEF validate_chunk_header, C, n, k, off, h

(* What a sender announces is a manifest that deserialize_file_manifest      *)
(* accepts.                                                                  *)
LEMMA AnnouncedValid ==
    ASSUME NEW m, Announced(m)
    PROVE  m \in Manifest /\ valid_manifest(m)
PROOF
  <1>1. PICK b \in Contents : m = NewManifest(Len(b))
    BY DEF Announced
  <1>2. Len(b) \in Nat
    BY ChunkPlanAssumption
  <1> QED
    BY <1>1, <1>2, NewManifestType, ChunkPlanAssumption
    DEF NewManifest, valid_manifest, chunk_count

-----------------------------------------------------------------------------
(* Streams in sequence *)

(* Behind the only message of a stream there is nothing. *)
LEMMA SingleTail ==
    ASSUME NEW S, NEW q \in Seq(S), q # <<>>, Len(q) <= 1
    PROVE  Tail(q) = <<>>
PROOF
  <1>1. Tail(q) \in Seq(S) /\ Len(Tail(q)) = 0
    <2>1. Len(q) \in Nat /\ Len(q) # 0
      BY EmptySeq
    <2> QED
      BY <2>1
  <1> QED
    BY <1>1, EmptySeq

(* A prefix has the same messages, but maybe fewer. *)
LEMMA PrefixOf ==
    ASSUME NEW S, NEW q \in Seq(S)
    PROVE  /\ q \in Prefixes(q)
           /\ \A p \in Prefixes(q) :
                 /\ p \in Seq(S)
                 /\ Len(p) <= Len(q)
                 /\ \A k \in 1 .. Len(p) : p[k] = q[k] /\ k \in 1 .. Len(q)
                 /\ q = <<>> => p = <<>>
PROOF
  <1>1. q \in Prefixes(q)
    <2>1. q = SubSeq(q, 1, Len(q)) /\ Len(q) \in 0 .. Len(q)
      OBVIOUS
    <2> QED
      BY <2>1 DEF Prefixes
  <1>2. ASSUME NEW p \in Prefixes(q)
        PROVE  /\ p \in Seq(S)
               /\ Len(p) <= Len(q)
               /\ \A k \in 1 .. Len(p) : p[k] = q[k] /\ k \in 1 .. Len(q)
               /\ q = <<>> => p = <<>>
    <2>1. PICK n \in 0 .. Len(q) : p = SubSeq(q, 1, n)
      BY DEF Prefixes
    <2>2. p \in Seq(S) /\ Len(p) = n /\ \A k \in 1 .. n : p[k] = q[k] /\ k \in 1 .. Len(q)
      BY <2>1
    <2>3. q = <<>> => p = <<>>
      BY <2>2, EmptySeq
    <2> QED
      BY <2>2, <2>3
  <1> QED
    BY <1>1, <1>2

(* A message carries one chunk at most. *)
LEMMA CarriesOne ==
    ASSUME NEW msg, NEW m, NEW i, NEW j, Carries(msg, m, i), Carries(msg, m, j)
    PROVE  i = j
PROOF
    BY DEF Carries, NewHeader

(* At the head of a stream in sequence is the next chunk that is missing, or *)
(* the digest when none is.                                                  *)
LEMMA SequenceHead ==
    ASSUME NEW q \in Seq(ToReceiver), q # <<>>, NEW m, NEW todo \in SUBSET Nat,
           InSequence(q, m, todo)
    PROVE  \/ \E i \in NextOf(todo) : Carries(Head(q), m, i)
           \/ Head(q).type = "hash" /\ Tail(q) = <<>> /\ todo = {}
PROOF
  <1>1. 1 \in 1 .. Len(q) /\ Head(q) = q[1]
    OBVIOUS
  <1>2. \A j : ~Carried(q, 1 - 1, m, j)
    BY DEF Carried
  <1>3. \/ \E i \in todo :
              /\ Carries(q[1], m, i)
              /\ \A j \in todo : j < i <=> Carried(q, 1 - 1, m, j)
        \/ /\ q[1].type = "hash"
           /\ 1 = Len(q)
           /\ \A j \in todo : Carried(q, 1 - 1, m, j)
    BY <1>1 DEF InSequence
  <1>4. CASE \E i \in todo : Carries(q[1], m, i)
                             /\ \A j \in todo : j < i <=> Carried(q, 1 - 1, m, j)
    <2>1. PICK i \in todo : Carries(q[1], m, i)
                            /\ \A j \in todo : j < i <=> Carried(q, 1 - 1, m, j)
      BY <1>4
    <2>2. \A j \in todo : i <= j
      BY <1>2, <2>1
    <2> QED
      BY <1>1, <2>1, <2>2 DEF NextOf
  <1>5. CASE q[1].type = "hash" /\ 1 = Len(q) /\ \A j \in todo : Carried(q, 1 - 1, m, j)
    <2>1. Tail(q) = <<>>
      <3>1. Tail(q) \in Seq(ToReceiver) /\ Len(Tail(q)) = 0
        BY <1>5
      <3> QED
        BY <3>1, EmptySeq
    <2> QED
      BY <1>1, <1>2, <1>5, <2>1
  <1> QED
    BY <1>3, <1>4, <1>5

(* Once the head has been taken off, the rest is in sequence for what is     *)
(* then missing.                                                             *)
LEMMA SequenceTail ==
    ASSUME NEW q \in Seq(ToReceiver), q # <<>>, NEW m, NEW todo \in SUBSET Nat,
           InSequence(q, m, todo), NEW i \in todo, Carries(Head(q), m, i)
    PROVE  /\ InSequence(Tail(q), m, todo \ {i})
           /\ \A j \in todo \ {i} : \A n \in 0 .. Len(Tail(q)) :
                 Carried(Tail(q), n, m, j) <=> Carried(q, n + 1, m, j)
PROOF
  <1> DEFINE t == Tail(q)
             rest == todo \ {i}
  <1>1. /\ t \in Seq(ToReceiver) /\ Len(q) \in Nat \ {0} /\ Len(t) = Len(q) - 1
        /\ \A k \in 1 .. Len(t) : t[k] = q[k + 1]
        /\ Carries(q[1], m, i)
    OBVIOUS
  <1> HIDE DEF t
  <1>2. ASSUME NEW j \in rest, NEW n \in 0 .. Len(t)
        PROVE  Carried(t, n, m, j) <=> Carried(q, n + 1, m, j)
    <2>1. ASSUME NEW k \in 1 .. n, Carries(t[k], m, j) PROVE Carried(q, n + 1, m, j)
      <3>1. k + 1 \in 1 .. n + 1 /\ q[k + 1] = t[k]
        BY <1>1
      <3> QED
        BY <2>1, <3>1 DEF Carried
    <2>2. ASSUME NEW k \in 1 .. n + 1, Carries(q[k], m, j) PROVE Carried(t, n, m, j)
      <3>1. k # 1
        BY <1>1, <2>2, CarriesOne
      <3>2. k - 1 \in 1 .. n /\ k - 1 \in 1 .. Len(t) /\ (k - 1) + 1 = k
        BY <1>1, <3>1
      <3>3. t[k - 1] = q[k]
        BY <1>1, <3>2
      <3> QED
        BY <2>2, <3>2, <3>3 DEF Carried
    <2> QED
      BY <2>1, <2>2 DEF Carried
  <1>3. ASSUME NEW k \in 1 .. Len(t)
        PROVE  \/ \E a \in rest :
                     /\ Carries(t[k], m, a)
                     /\ \A j \in rest : j < a <=> Carried(t, k - 1, m, j)
               \/ /\ t[k].type = "hash"
                  /\ k = Len(t)
                  /\ \A j \in rest : Carried(t, k - 1, m, j)
    <2>1. /\ k + 1 \in 1 .. Len(q) /\ t[k] = q[k + 1] /\ k - 1 \in 0 .. Len(t)
          /\ (k + 1) - 1 = k /\ (k - 1) + 1 = k
      BY <1>1
    <2>2. \A j \in rest : Carried(t, k - 1, m, j) <=> Carried(q, k, m, j)
      BY <1>2, <2>1
    <2>3. Carried(q, k, m, i)
      BY <1>1, <2>1 DEF Carried
    <2>4. \/ \E a \in todo :
                /\ Carries(q[k + 1], m, a)
                /\ \A j \in todo : j < a <=> Carried(q, k, m, j)
          \/ /\ q[k + 1].type = "hash"
             /\ k + 1 = Len(q)
             /\ \A j \in todo : Carried(q, k, m, j)
      BY <2>1 DEF InSequence
    <2>5. ASSUME NEW a \in todo, Carries(q[k + 1], m, a),
                 \A j \in todo : j < a <=> Carried(q, k, m, j)
          PROVE  \E b \in rest :
                     /\ Carries(t[k], m, b)
                     /\ \A j \in rest : j < b <=> Carried(t, k - 1, m, j)
      <3>1. i < a
        BY <2>3, <2>5
      <3>2. a \in rest
        BY <3>1
      <3> QED
        BY <2>1, <2>2, <2>5, <3>2
    <2>6. CASE q[k + 1].type = "hash" /\ k + 1 = Len(q)
               /\ \A j \in todo : Carried(q, k, m, j)
      BY <1>1, <2>1, <2>2, <2>6
    <2> QED
      BY <2>4, <2>5, <2>6
  <1>4. InSequence(t, m, rest)
    BY <1>3 DEF InSequence
  <1> QED
    BY <1>2, <1>4 DEF t

(* What a broken connection leaves of a stream is in sequence. *)
LEMMA SequencePrefix ==
    ASSUME NEW q \in Seq(ToReceiver), NEW p \in Prefixes(q), NEW m, NEW todo,
           InSequence(q, m, todo)
    PROVE  InSequence(p, m, todo)
PROOF
  <1>1. PICK n \in 0 .. Len(q) : p = SubSeq(q, 1, n)
    BY DEF Prefixes
  <1>2. Len(p) = n /\ \A k \in 1 .. n : p[k] = q[k] /\ k \in 1 .. Len(q)
    BY <1>1
  <1>3. \A k \in 1 .. n : \A j : Carried(p, k - 1, m, j) <=> Carried(q, k - 1, m, j)
    BY <1>2 DEF Carried
  <1> SUFFICES ASSUME NEW k \in 1 .. n
               PROVE  \/ \E i \in todo :
                            /\ Carries(p[k], m, i)
                            /\ \A j \in todo : j < i <=> Carried(p, k - 1, m, j)
                      \/ /\ p[k].type = "hash"
                         /\ k = Len(p)
                         /\ \A j \in todo : Carried(p, k - 1, m, j)
    BY <1>2 DEF InSequence
  <1>4. p[k] = q[k] /\ k \in 1 .. Len(q) /\ (k = Len(q) => k = Len(p))
    BY <1>2
  <1>5. \/ \E i \in todo :
              /\ Carries(q[k], m, i)
              /\ \A j \in todo : j < i <=> Carried(q, k - 1, m, j)
        \/ /\ q[k].type = "hash"
           /\ k = Len(q)
           /\ \A j \in todo : Carried(q, k - 1, m, j)
    BY <1>4 DEF InSequence
  <1> QED
    BY <1>3, <1>4, <1>5

(* A message sent after a stream in sequence that has no digest yet: the     *)
(* next chunk, or the digest when every missing chunk is on its way.         *)
LEMMA SequenceAppend ==
    ASSUME NEW q \in Seq(ToReceiver), NEW m, NEW todo \in SUBSET Nat, NEW msg \in ToReceiver,
           InSequence(q, m, todo), \A k \in 1 .. Len(q) : q[k].type # "hash",
           \/ \E i \in todo : Carries(msg, m, i)
                              /\ \A j \in todo : j < i <=> Carried(q, Len(q), m, j)
           \/ msg.type = "hash" /\ \A j \in todo : Carried(q, Len(q), m, j)
    PROVE  /\ InSequence(Append(q, msg), m, todo)
           /\ \A j : Carried(Append(q, msg), Len(q) + 1, m, j)
                        <=> Carried(q, Len(q), m, j) \/ Carries(msg, m, j)
PROOF
  <1> DEFINE r == Append(q, msg)
             n == Len(q)
  <1>1. /\ n \in Nat /\ Len(r) = n + 1 /\ r[n + 1] = msg
        /\ \A k \in 1 .. n : r[k] = q[k]
    OBVIOUS
  <1> HIDE DEF r, n
  <1>2. \A k \in 0 .. n : \A j : Carried(r, k, m, j) <=> Carried(q, k, m, j)
    BY <1>1 DEF Carried
  <1>3. ASSUME NEW k \in 1 .. n + 1
        PROVE  \/ \E i \in todo :
                     /\ Carries(r[k], m, i)
                     /\ \A j \in todo : j < i <=> Carried(r, k - 1, m, j)
               \/ /\ r[k].type = "hash"
                  /\ k = Len(r)
                  /\ \A j \in todo : Carried(r, k - 1, m, j)
    <2>1. CASE k = n + 1
      <3>1. r[k] = msg /\ k = Len(r) /\ k - 1 = n /\ n \in 0 .. n
        BY <1>1, <2>1
      <3>2. \A j : Carried(r, k - 1, m, j) <=> Carried(q, n, m, j)
        BY <1>2, <3>1
      <3> QED
        BY <3>1, <3>2 DEF n
    <2>2. CASE k # n + 1
      <3>1. k \in 1 .. n /\ r[k] = q[k] /\ k - 1 \in 0 .. n
        BY <1>1, <2>2
      <3>2. \A j : Carried(r, k - 1, m, j) <=> Carried(q, k - 1, m, j)
        BY <1>2, <3>1
      <3>3. \E i \in todo :
                /\ Carries(q[k], m, i)
                /\ \A j \in todo : j < i <=> Carried(q, k - 1, m, j)
        BY <3>1 DEF InSequence, n
      <3> QED
        BY <3>1, <3>2, <3>3
    <2> QED
      BY <2>1, <2>2
  <1>4. InSequence(r, m, todo)
    BY <1>1, <1>3 DEF InSequence
  <1>5. \A j : Carried(r, n + 1, m, j) <=> Carried(q, n, m, j) \/ Carries(msg, m, j)
    <2> TAKE j
    <2>1. ASSUME NEW k \in 1 .. n + 1, Carries(r[k], m, j)
          PROVE  Carried(q, n, m, j) \/ Carries(msg, m, j)
      <3>1. CASE k = n + 1
        BY <1>1, <2>1, <3>1
      <3>2. CASE k # n + 1
        <4>1. k \in 1 .. n /\ r[k] = q[k]
          BY <1>1, <3>2
        <4> QED
          BY <2>1, <4>1 DEF Carried
      <3> QED
        BY <3>1, <3>2
    <2>2. ASSUME NEW k \in 1 .. n, Carries(q[k], m, j)
          PROVE  Carried(r, n + 1, m, j)
      <3>1. k \in 1 .. n + 1 /\ r[k] = q[k]
        BY <1>1
      <3> QED
        BY <2>2, <3>1 DEF Carried
    <2>3. Carries(msg, m, j) => Carried(r, n + 1, m, j)
      <3>1. n + 1 \in 1 .. n + 1 /\ r[n + 1] = msg
        BY <1>1
      <3> QED
        BY <3>1 DEF Carried
    <2> QED
      BY <2>1, <2>2, <2>3 DEF Carried
  <1> QED
    BY <1>4, <1>5 DEF r, n

-----------------------------------------------------------------------------
(* What a step leaves alone *)

(* A sender whose own state and connection are untouched keeps its part of   *)
(* the invariant, unless it is the client and the receiver moves on.         *)
LEMMA KeptSender ==
    ASSUME NEW t \in Senders, SenderKnows(t), Conversation(t),
           spc'[t] = spc[t], sManifest'[t] = sManifest[t], sTodo'[t] = sTodo[t],
           up'[t] = up[t], s2r'[t] = s2r[t], r2s'[t] = r2s[t],
           Queued(t)' <=> Queued(t),
           \/ client # t /\ client' # t
           \/ UNCHANGED <<rpc, rManifest, rTodo, client>>
    PROVE  SenderKnows(t)' /\ Conversation(t)'
PROOF
  <1>1. client' = t <=> client = t
    OBVIOUS
  <1>2. Disconnected(t) => Disconnected(t)'
    BY <1>1 DEF Disconnected, Queued
  <1>3. SenderKnows(t)'
    BY <1>2 DEF SenderKnows
  <1>4. Greeting(t) => Greeting(t)'
    BY DEF Greeting
  <1>5. CASE client # t /\ client' # t
    BY <1>4, <1>5, <1>3 DEF Conversation
  <1>6. CASE UNCHANGED <<rpc, rManifest, rTodo, client>>
    <2>1. Asking(t) => Asking(t)'
      BY <1>6 DEF Asking
    <2>2. Underway(t) => Underway(t)'
      BY <1>6 DEF Underway, Agreed
    <2> QED
      BY <1>3, <1>4, <1>6, <2>1, <2>2 DEF Conversation
  <1> QED
    BY <1>5, <1>6

(* A run of the receiver that ends closes every connection.  A request that  *)
(* is still on its way can be read all the same.                             *)
LEMMA EndPlan ==
    ASSUME TypeInv, PlanInv, NEW result, ForgetRun(result), UNCHANGED sndVars
    PROVE  PlanInv'
PROOF
  <1>1. /\ rpc' = "off" /\ client' = Absent /\ backlog' = <<>>
        /\ \A s \in Senders : up'[s] = FALSE /\ s2r'[s] = <<>>
        /\ r2s' = r2s /\ UNCHANGED <<spc, sManifest>>
    BY DEF ForgetRun, CloseReceiver, sndVars
  <1>2. ConnectedOnce' /\ ReceiverKnows'
    BY <1>1 DEF ConnectedOnce, ReceiverKnows
  <1>3. ASSUME NEW s \in Senders PROVE SenderKnows(s)' /\ Conversation(s)'
    <2>1. SenderKnows(s) /\ s # Absent
      BY TcpLinkAssumption DEF PlanInv
    <2>2. ~Queued(s)' /\ Disconnected(s)'
      BY <1>1, <2>1 DEF Queued, Disconnected
    <2>3. SenderKnows(s)'
      BY <1>1, <2>1, <2>2 DEF SenderKnows
    <2>4. Conversation(s)'
      BY <1>1, <2>1, <2>2 DEF Conversation
    <2> QED
      BY <2>3, <2>4
  <1> QED
    BY <1>2, <1>3 DEF PlanInv

-----------------------------------------------------------------------------
(* The steps of the receiver *)

\* The receiver's steps leave the senders alone, and all connections but the
\* accepted one.
ReceiverFrame ==
    /\ UNCHANGED <<sndVars, up>>
    /\ \A t \in Senders : t # client => s2r'[t] = s2r[t] /\ r2s'[t] = r2s[t]

(* The steps that only move on in the program. *)
LEMMA MovePlan ==
    ASSUME TypeInv, PlanInv, UNCHANGED <<sndVars, rManifest, rTodo, client, backlog, up, s2r, r2s>>,
           \/ rpc = "off" /\ rpc' = "accept"
           \/ /\ {rpc, rpc'} \cap {"off", "accept", "manifest", "request"} = {}
              /\ rpc' \in {"hash", "verify", "cleanup"} => rTodo = {}
    PROVE  PlanInv'
PROOF
  <1>1. ConnectedOnce'
    BY DEF PlanInv, ConnectedOnce
  <1>2. ReceiverKnows'
    BY DEF PlanInv, ReceiverKnows
  <1>3. ASSUME NEW s \in Senders PROVE SenderKnows(s)' /\ Conversation(s)'
    <2>1. SenderKnows(s) /\ Conversation(s) /\ s # Absent
      BY TcpLinkAssumption DEF PlanInv
    <2>2. /\ spc'[s] = spc[s] /\ sManifest'[s] = sManifest[s] /\ sTodo'[s] = sTodo[s]
          /\ up'[s] = up[s] /\ s2r'[s] = s2r[s] /\ r2s'[s] = r2s[s]
          /\ (Queued(s)' <=> Queued(s))
      BY DEF sndVars, Queued
    <2>3. CASE client # s
      BY <2>1, <2>2, <2>3, KeptSender
    <2>4. CASE client = s
      <3>1. SenderKnows(s)'
        BY <2>1, <2>2 DEF SenderKnows, Disconnected
      <3>2. {rpc, rpc'} \cap {"off", "accept", "manifest", "request"} = {}
        BY <2>1, <2>4 DEF PlanInv, ConnectedOnce
      <3>3. Underway(s)'
        BY <2>1, <2>2, <2>4, <3>2 DEF Conversation, Underway, Agreed
      <3>4. Greeting(s) => Greeting(s)'
        BY <2>2 DEF Greeting
      <3> QED
        BY <2>1, <2>2, <3>1, <3>2, <3>3, <3>4 DEF Conversation
    <2> QED
      BY <2>3, <2>4
  <1> QED
    BY <1>1, <1>2, <1>3 DEF PlanInv

(* The oldest connection of the queue becomes the client. *)
LEMMA AcceptPlan ==
    ASSUME TypeInv, PlanInv, RAccept, UNCHANGED sndVars
    PROVE  PlanInv'
PROOF
  <1> DEFINE c == Head(backlog)
  <1>1. /\ rpc = "accept" /\ rpc' = "manifest" /\ backlog # <<>> /\ client' = c
        /\ backlog' = Tail(backlog) /\ UNCHANGED <<rManifest, rTodo, up, s2r, r2s>>
        /\ backlog \in Seq(Senders)
    BY DEF RAccept, accept_client, TypeInv, TypeOK, LinkTypeOK
  <1>2. client = Absent
    BY <1>1 DEF PlanInv, ConnectedOnce
  <1>3. /\ c = backlog[1] /\ c \in Senders /\ Len(backlog) \in Nat \ {0}
        /\ Len(backlog') = Len(backlog) - 1
        /\ \A k \in 1 .. Len(backlog') : backlog'[k] = backlog[k + 1] /\ k + 1 \in 1 .. Len(backlog)
    BY <1>1
  <1>4. \A k \in 2 .. Len(backlog) : backlog[k] # c
    BY <1>3 DEF PlanInv, ConnectedOnce
  <1> HIDE DEF c
  <1>5. ConnectedOnce'
    <2>1. ASSUME NEW j \in 1 .. Len(backlog'), NEW k \in 1 .. Len(backlog'), backlog'[j] = backlog'[k]
          PROVE  j = k
      <3>1. j + 1 = k + 1
        BY <1>3, <2>1 DEF PlanInv, ConnectedOnce
      <3> QED
        BY <1>3, <3>1
    <2>2. \A k \in 1 .. Len(backlog') : backlog'[k] # c
      BY <1>3, <1>4
    <2> QED
      BY <1>1, <2>1, <2>2 DEF ConnectedOnce
  <1>6. ReceiverKnows'
    BY <1>1 DEF ReceiverKnows
  <1>7. ASSUME NEW s \in Senders PROVE SenderKnows(s)' /\ Conversation(s)'
    <2>1. SenderKnows(s) /\ Conversation(s) /\ s # Absent
      BY TcpLinkAssumption DEF PlanInv
    <2>2. /\ spc'[s] = spc[s] /\ sManifest'[s] = sManifest[s] /\ sTodo'[s] = sTodo[s]
          /\ up'[s] = up[s] /\ s2r'[s] = s2r[s] /\ r2s'[s] = r2s[s]
      BY <1>1 DEF sndVars
    <2>3. CASE s # c
      <3>1. Queued(s)' <=> Queued(s)
        <4>1. ASSUME NEW k \in 1 .. Len(backlog'), backlog'[k] = s PROVE Queued(s)
          BY <1>3, <4>1 DEF Queued
        <4>2. ASSUME NEW k \in 1 .. Len(backlog), backlog[k] = s PROVE Queued(s)'
          <5>1. k # 1
            BY <1>3, <2>3, <4>2
          <5>2. k - 1 \in 1 .. Len(backlog') /\ backlog'[k - 1] = backlog[k]
            BY <1>3, <5>1
          <5> QED
            BY <4>2, <5>2 DEF Queued
        <4> QED
          BY <4>1, <4>2 DEF Queued
      <3> QED
        BY <1>1, <1>2, <2>1, <2>2, <2>3, <3>1, KeptSender
    <2>4. CASE s = c
      <3>1. Queued(s) /\ ~Disconnected(s) /\ Greeting(s)
        <4>1. 1 \in 1 .. Len(backlog) /\ backlog[1] = s
          BY <1>3, <2>4
        <4> QED
          BY <2>1, <4>1 DEF Queued, Disconnected, Conversation
      <3>2. SenderKnows(s)'
        BY <2>1, <2>2, <3>1 DEF SenderKnows
      <3>3. Greeting(s)'
        BY <2>2, <3>1 DEF Greeting
      <3> QED
        BY <1>1, <3>2, <3>3 DEF Conversation
    <2> QED
      BY <2>3, <2>4
  <1> QED
    BY <1>5, <1>6, <1>7 DEF PlanInv

(* What a step on the client's connection has to show: the receiver's and    *)
(* the client's part.  The other senders wait in the queue.                  *)
LEMMA ClientStep ==
    ASSUME TypeInv, PlanInv, UNCHANGED <<client, backlog>>, ReceiverFrame,
           client \in Senders, rpc' \notin {"off", "accept"}, ReceiverKnows',
           SenderKnows(client)',
           rpc' = "manifest" => Greeting(client)',
           rpc' = "request" => Asking(client)',
           rpc' \notin {"manifest", "request"} => Underway(client)'
    PROVE  PlanInv'
PROOF
  <1>1. ConnectedOnce'
    BY DEF PlanInv, ConnectedOnce
  <1>2. \A s : Queued(s)' <=> Queued(s)
    BY DEF Queued
  <1>3. ASSUME NEW s \in Senders PROVE SenderKnows(s)' /\ Conversation(s)'
    <2>1. CASE s # client
      <3>1. SenderKnows(s) /\ Conversation(s)
        BY DEF PlanInv
      <3>2. /\ spc'[s] = spc[s] /\ sManifest'[s] = sManifest[s] /\ sTodo'[s] = sTodo[s]
            /\ up'[s] = up[s] /\ s2r'[s] = s2r[s] /\ r2s'[s] = r2s[s]
        BY <2>1 DEF sndVars, ReceiverFrame
      <3> QED
        BY <1>2, <2>1, <3>1, <3>2, KeptSender
    <2>2. CASE s = client
      <3>1. ~Queued(s)'
        BY <1>2, <2>2 DEF Queued, PlanInv, ConnectedOnce
      <3> QED
        BY <2>2, <3>1 DEF Conversation
    <2> QED
      BY <2>1, <2>2
  <1> QED
    BY <1>1, <1>3 DEF PlanInv

(* The manifest is read: what is left of the stream is empty, and a sender   *)
(* that still runs has announced it.                                         *)
LEMMA ManifestPlan ==
    ASSUME TypeInv, PlanInv, RRecvManifest, UNCHANGED sndVars
    PROVE  PlanInv'
PROOF
  <1> DEFINE c == client
             q == s2r[c]
             msg == Head(q)
  <1>1. rpc = "manifest" /\ q # <<>> /\ c \in Senders /\ q \in Seq(ToReceiver)
    BY DEF RRecvManifest, TypeInv, TypeOK, LinkTypeOK, RcvShape
  <1>2. CASE msg.type = "manifest" /\ valid_manifest(msg.manifest)
    <2>1. /\ RecvFromSender
          /\ rpc' = "request"
          /\ rManifest' = msg.manifest
      BY <1>2 DEF RRecvManifest
    <2>2. /\ s2r' = [s2r EXCEPT ![c] = Tail(@)] /\ s2r \in [Senders -> Seq(ToReceiver)]
          /\ UNCHANGED <<client, backlog, up, r2s>>
      BY <2>1 DEF RecvFromSender, TypeInv, TypeOK, LinkTypeOK
    <2>3. ReceiverFrame
      BY <2>2 DEF ReceiverFrame
    <2>4. SenderKnows(c) /\ Greeting(c)
      BY <1>1 DEF PlanInv, Conversation
    <2>5. s2r'[c] = <<>>
      <3>1. Len(q) <= 1
        BY <2>4 DEF Greeting
      <3>2. Tail(q) = <<>>
        BY <1>1, <3>1, SingleTail
      <3> QED
        BY <1>1, <2>2, <3>2
    <2>6. 1 \in 1 .. Len(q) /\ msg = q[1]
      BY <1>1
    <2>7. spc[c] \in {"request", "off"} /\ (spc[c] = "request" => sManifest[c] = rManifest')
      BY <1>1, <2>1, <2>4, <2>6 DEF Greeting, SenderKnows
    <2>8. Asking(c)'
      BY <2>2, <2>4, <2>5, <2>7 DEF Asking, Greeting, sndVars
    <2>9. SenderKnows(c)'
      BY <2>2, <2>4, <2>7 DEF SenderKnows, sndVars
    <2>10. ReceiverKnows'
      BY <1>2, <2>1 DEF ReceiverKnows
    <2> QED
      BY <1>1, <2>1, <2>2, <2>3, <2>8, <2>9, <2>10, ClientStep
  <1>3. CASE ~(msg.type = "manifest" /\ valid_manifest(msg.manifest))
    <2>1. ForgetRun("rejected")
      BY <1>3 DEF RRecvManifest, Exit
    <2> QED
      BY <2>1, EndPlan
  <1> QED
    BY <1>2, <1>3

(* The request is about the manifest the waiting sender has announced, and   *)
(* lists only chunks of it.                                                  *)
LEMMA RequestPlan ==
    ASSUME TypeInv, SafetyInv, PlanInv, RSendRequest, UNCHANGED sndVars
    PROVE  PlanInv'
PROOF
  <1> DEFINE c == client
             req == [total_chunks |-> rManifest.chunk_count, missing |-> rTodo]
  <1>1. /\ rpc = "request" /\ rpc' = "tmp" /\ c \in Senders /\ UNCHANGED <<rManifest, rTodo>>
        /\ r2s' = (IF up[c] THEN [r2s EXCEPT ![c] = Append(@, req)] ELSE r2s)
        /\ UNCHANGED <<client, backlog, up, s2r>>
        /\ r2s \in [Senders -> Seq(Request)]
        /\ rManifest \in Manifest /\ rCkpt \in Checkpoint
    BY DEF RSendRequest, SendToSender, TypeInv, TypeOK, LinkTypeOK, RcvShape
  <1>2. SenderKnows(c) /\ Asking(c)
    BY <1>1 DEF PlanInv, Conversation
  <1>3. ReceiverFrame
    BY <1>1 DEF ReceiverFrame
  <1>4. r2s'[c] = (IF up[c] THEN <<req>> ELSE <<>>)
    <2>1. r2s[c] = <<>>
      BY <1>2 DEF Asking
    <2> QED
      BY <1>1, <2>1
  <1>5. \A i \in rTodo : i < rManifest.chunk_count
    BY <1>1, CheckpointFileAssumption
    DEF SafetyInv, DiskInv, MemoryPlan, missing_chunks, Manifest
  <1>6. spc[c] = "request" => validate_continue_request(sManifest[c], req)
    BY <1>2, <1>5 DEF Asking, validate_continue_request
  <1> HIDE DEF req
  <1>7. SenderKnows(c)'
    <2>1. spc[c] \in {"request", "off"} /\ Disconnected(c)' = Disconnected(c)
      BY <1>1, <1>2 DEF Asking, Disconnected
    <2>2. \A k \in 1 .. Len(r2s'[c]) : r2s'[c][k] = req
      BY <1>4
    <2> QED
      BY <1>1, <1>2, <1>6, <2>1, <2>2 DEF SenderKnows, sndVars
  <1>8. Underway(c)'
    <2>1. InSequence(<<>>, rManifest, rTodo)
      BY DEF InSequence
    <2>2. up[c] => spc[c] = "request"
      BY <1>2 DEF SenderKnows, Asking
    <2> QED
      BY <1>1, <1>2, <1>4, <2>1, <2>2 DEF Underway, Agreed, Asking, sndVars, req
  <1>9. ReceiverKnows'
    BY <1>1 DEF PlanInv, ReceiverKnows
  <1> QED
    BY <1>1, <1>3, <1>7, <1>8, <1>9, ClientStep

(* The expected chunk is read: it is no longer missing and no longer on its  *)
(* way.                                                                      *)
LEMMA ChunkPlanStep ==
    ASSUME TypeInv, PlanInv, RRecvChunk, UNCHANGED sndVars
    PROVE  PlanInv'
PROOF
  <1> DEFINE c == client
             q == s2r[c]
             msg == Head(q)
             i == msg.header.chunk_index
  <1>1. /\ rpc = "chunk" /\ q # <<>> /\ c \in Senders /\ q \in Seq(ToReceiver)
        /\ rTodo \in SUBSET Nat
    BY DEF RRecvChunk, TypeInv, TypeOK, LinkTypeOK, RcvTypeOK, RcvShape
  <1>2. CASE ExpectedChunk(msg)
    <2>1. /\ RecvFromSender
          /\ rpc' = "tmp"
          /\ rTodo' = rTodo \ {i}
          /\ rManifest' = rManifest
      BY <1>2 DEF RRecvChunk
    <2>2. /\ s2r' = [s2r EXCEPT ![c] = Tail(@)] /\ s2r \in [Senders -> Seq(ToReceiver)]
          /\ UNCHANGED <<client, backlog, up, r2s>>
      BY <2>1 DEF RecvFromSender, TypeInv, TypeOK, LinkTypeOK
    <2>3. ReceiverFrame
      BY <2>2 DEF ReceiverFrame
    <2>4. SenderKnows(c) /\ Underway(c)
      BY <1>1 DEF PlanInv, Conversation
    <2>5. i \in rTodo /\ Carries(msg, rManifest, i)
      <3>1. \/ \E a \in NextOf(rTodo) : Carries(msg, rManifest, a)
            \/ msg.type = "hash"
        BY <1>1, <2>4, SequenceHead DEF Underway
      <3>2. msg.type = "chunk"
        BY <1>2 DEF ExpectedChunk
      <3>3. PICK a \in NextOf(rTodo) : Carries(msg, rManifest, a)
        BY <3>1, <3>2
      <3>4. a = i
        BY <3>3 DEF Carries, NewHeader
      <3> QED
        BY <3>3, <3>4 DEF NextOf
    <2>6. s2r'[c] = Tail(q) /\ Len(q) \in Nat \ {0} /\ Len(Tail(q)) = Len(q) - 1
          /\ 1 \in 1 .. Len(q) /\ msg = q[1]
          /\ \A k \in 1 .. Len(Tail(q)) : Tail(q)[k] = q[k + 1] /\ k + 1 \in 1 .. Len(q)
      BY <1>1, <2>2
    <2> HIDE DEF i, msg
    <2>7. /\ InSequence(Tail(q), rManifest, rTodo \ {i})
          /\ \A j \in rTodo \ {i} : \A n \in 0 .. Len(Tail(q)) :
                 Carried(Tail(q), n, rManifest, j) <=> Carried(q, n + 1, rManifest, j)
      BY <1>1, <2>4, <2>5, SequenceTail DEF Underway, msg
    <2>8. up[c] => Agreed(c)'
      <3> SUFFICES ASSUME up[c] PROVE Agreed(c)'
        OBVIOUS
      <3>1. Agreed(c) /\ spc[c] = "chunks"
        BY <1>1, <2>4 DEF Underway, SenderKnows, Agreed
      <3>2. Carried(q, Len(q), rManifest, i)
        BY <2>5, <2>6 DEF Carried
      <3>3. sTodo[c] \subseteq rTodo \ {i}
        BY <2>5, <3>1, <3>2 DEF Agreed
      <3>4. \A a \in sTodo[c] : \A j \in (rTodo \ {i}) \ sTodo[c] : j < a
        BY <3>1 DEF Agreed
      <3>5. \A a \in rTodo \ {i} :
               a \in sTodo[c] <=> ~Carried(Tail(q), Len(Tail(q)), rManifest, a)
        <4>1. Len(Tail(q)) \in 0 .. Len(Tail(q)) /\ Len(Tail(q)) + 1 = Len(q)
          BY <2>6
        <4> QED
          BY <2>7, <3>1, <4>1 DEF Agreed
      <3>6. \A k \in 1 .. Len(Tail(q)) : Tail(q)[k].type # "hash"
        BY <2>6, <3>1 DEF Agreed
      <3> HIDE DEF q
      <3> QED
        BY <2>1, <2>2, <2>6, <3>1, <3>3, <3>4, <3>5, <3>6 DEF Agreed, sndVars
    <2>9. Underway(c)'
      BY <2>1, <2>2, <2>4, <2>6, <2>7, <2>8 DEF Underway, sndVars
    <2>10. SenderKnows(c)'
      <3>1. Disconnected(c)' = Disconnected(c)
        BY <2>2 DEF Disconnected
      <3> QED
        BY <2>2, <2>4, <3>1 DEF SenderKnows, Underway, sndVars
    <2>11. ReceiverKnows'
      BY <1>1, <2>1 DEF PlanInv, ReceiverKnows
    <2> QED
      BY <1>1, <2>1, <2>2, <2>3, <2>9, <2>10, <2>11, ClientStep
  <1>3. CASE ~ExpectedChunk(msg)
    <2>1. ForgetRun("rejected")
      BY <1>3 DEF RRecvChunk, Exit
    <2> QED
      BY <2>1, EndPlan
  <1> QED
    BY <1>2, <1>3

(* The digest is read: it was the last message of a sender that has ended.   *)
LEMMA HashPlan ==
    ASSUME TypeInv, PlanInv, RRecvHash, UNCHANGED sndVars
    PROVE  PlanInv'
PROOF
  <1> DEFINE c == client
             q == s2r[c]
             msg == Head(q)
  <1>1. /\ rpc = "hash" /\ q # <<>> /\ c \in Senders /\ q \in Seq(ToReceiver) /\ rTodo = {}
    BY DEF RRecvHash, TypeInv, TypeOK, LinkTypeOK, RcvShape, PlanInv, ReceiverKnows
  <1>2. CASE msg.type = "hash"
    <2>1. RecvFromSender /\ rpc' = "verify" /\ UNCHANGED <<rTodo, rManifest>>
      BY <1>2 DEF RRecvHash
    <2>2. /\ s2r' = [s2r EXCEPT ![c] = Tail(@)] /\ s2r \in [Senders -> Seq(ToReceiver)]
          /\ UNCHANGED <<client, backlog, up, r2s>>
      BY <2>1 DEF RecvFromSender, TypeInv, TypeOK, LinkTypeOK
    <2>3. ReceiverFrame
      BY <2>2 DEF ReceiverFrame
    <2>4. SenderKnows(c) /\ Underway(c)
      BY <1>1 DEF PlanInv, Conversation
    <2>5. Tail(q) = <<>>
      <3>1. {} \in SUBSET Nat /\ NextOf({}) = {} /\ InSequence(q, rManifest, {})
        BY <1>1, <2>4 DEF NextOf, Underway
      <3> QED
        BY <1>1, <3>1, SequenceHead
    <2>6. ~up[c]
      <3>1. 1 \in 1 .. Len(q) /\ msg = q[1]
        BY <1>1
      <3> QED
        BY <1>1, <1>2, <2>4, <3>1 DEF Underway, Agreed, SenderKnows
    <2>7. s2r'[c] = <<>>
      BY <2>2, <2>5, <1>1
    <2>8. Underway(c)'
      <3>1. InSequence(<<>>, rManifest, rTodo)
        BY DEF InSequence
      <3> QED
        BY <2>1, <2>2, <2>4, <2>6, <2>7, <3>1 DEF Underway, sndVars
    <2>9. SenderKnows(c)'
      <3>1. Disconnected(c)' = Disconnected(c)
        BY <2>2 DEF Disconnected
      <3> QED
        BY <2>2, <2>4, <3>1 DEF SenderKnows, Underway, sndVars
    <2>10. ReceiverKnows'
      BY <1>1, <2>1 DEF PlanInv, ReceiverKnows
    <2> QED
      BY <1>1, <2>1, <2>2, <2>3, <2>8, <2>9, <2>10, ClientStep
  <1>3. CASE msg.type # "hash"
    <2>1. ForgetRun("rejected")
      BY <1>3 DEF RRecvHash, Exit
    <2> QED
      BY <2>1, EndPlan
  <1> QED
    BY <1>2, <1>3

(* Every step of the receiver, faults included, keeps the invariant. *)
LEMMA ReceiverPlan ==
    ASSUME TypeInv, SafetyInv, PlanInv, ReceiverStep \/ ReceiverFault
    PROVE  PlanInv'
PROOF
  <1>0. UNCHANGED sndVars
    BY DEF ReceiverStep, ReceiverFault
  <1>1. CASE RStart
    BY <1>0, <1>1, MovePlan DEF RStart, bind_and_listen
  <1>2. CASE \/ RWriteTmp \/ RWriteTmpShort \/ RRemoveOld \/ RRenameTmp \/ RCloseStream
             \/ RFlushFail
    <2>1. /\ UNCHANGED <<rManifest, rTodo, client, backlog, up, s2r, r2s>>
          /\ {rpc, rpc'} \cap {"off", "accept", "manifest", "request"} = {}
          /\ rpc' \in {"hash", "verify", "cleanup"} => rTodo = {}
      BY <1>2 DEF RWriteTmp, RWriteTmpShort, RRemoveOld, RRenameTmp, RCloseStream, RFlushFail,
          linkVars
    <2> QED
      BY <1>0, <2>1, MovePlan
  <1>3. CASE RPrepareOutput
    <2>1. CASE Exit("failed")
      BY <1>0, <2>1, EndPlan DEF Exit
    <2>2. CASE rpc' = "chunk" /\ UNCHANGED <<rManifest, rTodo, linkVars>>
      <3>1. rpc = "prepare"
        BY <1>3 DEF RPrepareOutput
      <3> QED
        BY <1>0, <2>2, <3>1, MovePlan DEF linkVars
    <2> QED
      BY <1>3, <2>1, <2>2 DEF RPrepareOutput
  <1>4. CASE RVerify
    <2>1. CASE Exit("mismatch")
      BY <1>0, <2>1, EndPlan DEF Exit
    <2>2. CASE rpc' = "cleanup" /\ UNCHANGED <<rManifest, rTodo, linkVars>>
      <3>1. rpc = "verify" /\ rTodo = {}
        BY <1>4 DEF RVerify, PlanInv, ReceiverKnows
      <3> QED
        BY <1>0, <2>2, <3>1, MovePlan DEF linkVars
    <2> QED
      BY <1>4, <2>1, <2>2 DEF RVerify
  <1>5. CASE \/ RCleanup \/ RCleanupFail \/ RRecvEof \/ RSendFail \/ RCallFail
             \/ RPrepareFail \/ RWriteFail \/ RCrash
    <2>1. \E result \in RcvResult : ForgetRun(result)
      BY <1>5 DEF RCleanup, RCleanupFail, RRecvEof, RSendFail, RCallFail, RPrepareFail,
          RWriteFail, RCrash, Exit, RcvResult
    <2> QED
      BY <1>0, <2>1, EndPlan
  <1>6. CASE DeleteOutput
    <2>1. UNCHANGED <<rpc, rManifest, rTodo, client, backlog, up, s2r, r2s>>
      BY <1>6 DEF DeleteOutput, linkVars
    <2>2. ConnectedOnce' /\ ReceiverKnows'
      BY <2>1 DEF PlanInv, ConnectedOnce, ReceiverKnows
    <2>3. ASSUME NEW s \in Senders PROVE SenderKnows(s)' /\ Conversation(s)'
      <3>1. SenderKnows(s) /\ Conversation(s)
        BY DEF PlanInv
      <3>2. /\ spc'[s] = spc[s] /\ sManifest'[s] = sManifest[s] /\ sTodo'[s] = sTodo[s]
            /\ up'[s] = up[s] /\ s2r'[s] = s2r[s] /\ r2s'[s] = r2s[s]
            /\ (Queued(s)' <=> Queued(s))
        BY <1>0, <2>1 DEF sndVars, Queued
      <3> QED
        BY <2>1, <3>1, <3>2, KeptSender
    <2> QED
      BY <2>2, <2>3 DEF PlanInv
  <1> QED
    BY <1>0, <1>1, <1>2, <1>3, <1>4, <1>5, <1>6,
       AcceptPlan, ManifestPlan, RequestPlan, ChunkPlanStep, HashPlan
    DEF ReceiverStep, ReceiverFault

-----------------------------------------------------------------------------
(* The steps of a sender *)

\* The steps of sender s leave the receiver alone, and all other senders.
SenderFrame(s) ==
    /\ UNCHANGED <<rpc, rManifest, rTodo, client>>
    /\ \A t \in Senders : t # s =>
          /\ spc'[t] = spc[t] /\ sManifest'[t] = sManifest[t] /\ sTodo'[t] = sTodo[t]
          /\ up'[t] = up[t] /\ s2r'[t] = s2r[t] /\ r2s'[t] = r2s[t]

(* What a step of s has to show when the queue stays: its own part. *)
LEMMA OwnStep ==
    ASSUME PlanInv, NEW s \in Senders, SenderFrame(s), UNCHANGED backlog,
           SenderKnows(s)', Conversation(s)'
    PROVE  PlanInv'
PROOF
  <1>1. ConnectedOnce' /\ ReceiverKnows'
    BY DEF PlanInv, ConnectedOnce, ReceiverKnows, SenderFrame
  <1>2. ASSUME NEW t \in Senders, t # s PROVE SenderKnows(t)' /\ Conversation(t)'
    <2>1. SenderKnows(t) /\ Conversation(t) /\ (Queued(t)' <=> Queued(t))
      BY DEF PlanInv, Queued
    <2> QED
      BY <1>2, <2>1, KeptSender DEF SenderFrame
  <1> QED
    BY <1>1, <1>2 DEF PlanInv

(* The receiver's view of a connection whose sender ends or which breaks:    *)
(* some of what was said can still be read, and no answer is owed.           *)
LEMMA CutOff ==
    ASSUME TypeInv, PlanInv, NEW s \in Senders, SenderFrame(s), UNCHANGED backlog,
           up'[s] = FALSE, s2r'[s] \in Prefixes(s2r[s]), r2s'[s] \in Prefixes(r2s[s]),
           \/ spc'[s] = "off"
           \/ spc'[s] = spc[s] /\ sManifest'[s] = sManifest[s]
    PROVE  Conversation(s)'
PROOF
  <1>1. s2r[s] \in Seq(ToReceiver) /\ r2s[s] \in Seq(Request)
    BY DEF TypeInv, TypeOK, LinkTypeOK
  <1>2. /\ Len(s2r'[s]) <= Len(s2r[s])
        /\ \A k \in 1 .. Len(s2r'[s]) : s2r'[s][k] = s2r[s][k] /\ k \in 1 .. Len(s2r[s])
        /\ s2r[s] = <<>> => s2r'[s] = <<>>
        /\ r2s[s] = <<>> => r2s'[s] = <<>>
        /\ Len(s2r'[s]) \in Nat /\ Len(s2r[s]) \in Nat
    BY <1>1, PrefixOf
  <1>3. Conversation(s) /\ (Queued(s)' <=> Queued(s)) /\ UNCHANGED <<rpc, rManifest, rTodo, client>>
    BY DEF PlanInv, Queued, SenderFrame
  <1>4. Greeting(s) => Greeting(s)'
    <2> SUFFICES ASSUME Greeting(s) PROVE Greeting(s)'
      OBVIOUS
    <2>1. r2s'[s] = <<>> /\ spc'[s] \in {"manifest", "request", "off"} /\ Len(s2r'[s]) <= 1
      BY <1>2 DEF Greeting
    <2>2. ASSUME NEW k \in 1 .. Len(s2r'[s])
          PROVE  /\ s2r'[s][k].type = "manifest"
                 /\ Announced(s2r'[s][k].manifest)
                 /\ spc'[s] = "request" => s2r'[s][k].manifest = sManifest'[s]
      BY <1>2 DEF Greeting
    <2> QED
      BY <2>1, <2>2 DEF Greeting
  <1>5. Asking(s) => Asking(s)'
    BY <1>2, <1>3 DEF Asking
  <1>6. Underway(s) => Underway(s)'
    <2> SUFFICES ASSUME Underway(s) PROVE Underway(s)'
      OBVIOUS
    <2>1. InSequence(s2r'[s], rManifest, rTodo)
      BY <1>1, SequencePrefix DEF Underway
    <2> QED
      BY <1>3, <2>1 DEF Underway
  <1> QED
    BY <1>3, <1>4, <1>5, <1>6 DEF Conversation

(* A run of a sender that ends. *)
LEMMA SenderEnds ==
    ASSUME TypeInv, PlanInv, NEW s \in Senders, NEW result, ForgetSend(s, result),
           CloseSender(s) \/ ResetBySender(s), UNCHANGED rcvVars
    PROVE  PlanInv'
PROOF
  <1>1. /\ spc \in [Senders -> SndPc] /\ up \in [Senders -> BOOLEAN]
        /\ s2r \in [Senders -> Seq(ToReceiver)] /\ r2s \in [Senders -> Seq(Request)]
        /\ sManifest \in [Senders -> Manifest \cup {Absent}] /\ sTodo \in [Senders -> SUBSET Nat]
    BY DEF TypeInv, TypeOK, LinkTypeOK, SndTypeOK
  <1>2. s2r[s] \in Prefixes(s2r[s]) /\ <<>> \in Prefixes(r2s[s])
    <2>1. s2r[s] \in Seq(ToReceiver) /\ r2s[s] \in Seq(Request)
      BY <1>1
    <2>2. SubSeq(r2s[s], 1, 0) = <<>> /\ 0 \in 0 .. Len(r2s[s])
      BY <2>1, EmptySeq
    <2> QED
      BY <2>1, <2>2, PrefixOf DEF Prefixes
  <1>3. PICK p \in Prefixes(s2r[s]) : s2r' = [s2r EXCEPT ![s] = p]
    <2>1. CASE CloseSender(s)
      <3>1. s2r' = [s2r EXCEPT ![s] = s2r[s]]
        BY <1>1, <2>1 DEF CloseSender
      <3> QED
        BY <1>2, <3>1
    <2>2. CASE ResetBySender(s)
      BY <2>2 DEF ResetBySender
    <2> QED
      BY <2>1, <2>2
  <1>4. /\ up' = [up EXCEPT ![s] = FALSE] /\ r2s' = [r2s EXCEPT ![s] = <<>>]
        /\ UNCHANGED <<backlog, client>>
    BY DEF CloseSender, ResetBySender
  <1>5. SenderFrame(s) /\ spc'[s] = "off" /\ ~up'[s] /\ s2r'[s] = p /\ r2s'[s] = <<>>
    BY <1>1, <1>3, <1>4 DEF SenderFrame, rcvVars, ForgetSend, Goto
  <1>6. SenderKnows(s)'
    BY <1>5 DEF SenderKnows
  <1>7. up'[s] = FALSE
    BY <1>1, <1>4
  <1>8. Conversation(s)'
    BY <1>2, <1>4, <1>5, <1>7, CutOff
  <1> QED
    BY <1>4, <1>5, <1>6, <1>8, OwnStep

(* The connection breaks: a request that arrived can still be read. *)
LEMMA LossPlan ==
    ASSUME TypeInv, PlanInv, NEW s \in Senders, LinkFault(s)
    PROVE  PlanInv'
PROOF
  <1>1. /\ up \in [Senders -> BOOLEAN]
        /\ s2r \in [Senders -> Seq(ToReceiver)] /\ r2s \in [Senders -> Seq(Request)]
    BY DEF TypeInv, TypeOK, LinkTypeOK
  <1>2. PICK p \in Prefixes(s2r[s]) : s2r' = [s2r EXCEPT ![s] = p]
    BY DEF LinkFault, LoseConnection
  <1>3. PICK r \in Prefixes(r2s[s]) : r2s' = [r2s EXCEPT ![s] = r]
    BY DEF LinkFault, LoseConnection
  <1>4. /\ up' = [up EXCEPT ![s] = FALSE]
        /\ UNCHANGED <<backlog, client, rpc, rManifest, rTodo, spc, sManifest, sTodo>>
    BY DEF LinkFault, LoseConnection, sndVars, rcvVars
  <1>5. SenderFrame(s) /\ up'[s] = FALSE /\ s2r'[s] = p /\ r2s'[s] = r
    BY <1>1, <1>2, <1>3, <1>4 DEF SenderFrame
  <1>6. Conversation(s)'
    BY <1>4, <1>5, CutOff
  <1>7. SenderKnows(s)'
    <2>1. SenderKnows(s) /\ Disconnected(s)' = Disconnected(s)
      BY <1>4 DEF PlanInv, Disconnected
    <2>2. /\ \A k \in 1 .. Len(r) : r[k] = r2s[s][k] /\ k \in 1 .. Len(r2s[s])
          /\ r2s[s] = <<>> => r = <<>>
          /\ s2r[s] = <<>> => p = <<>>
      <3>1. s2r[s] \in Seq(ToReceiver) /\ r2s[s] \in Seq(Request)
        BY <1>1
      <3> QED
        BY <3>1, PrefixOf
    <2> QED
      BY <1>4, <1>5, <2>1, <2>2 DEF SenderKnows
  <1> QED
    BY <1>4, <1>5, <1>6, <1>7, OwnStep

(* A run begins: nobody knows of a connection of s. *)
LEMMA StartPlan ==
    ASSUME TypeInv, PlanInv, NEW s \in Senders, UNCHANGED rcvVars,
           SStart(s) \/ SDigest(s) \/ SConnectRefused(s)
    PROVE  PlanInv'
PROOF
  <1>1. /\ src[s] \in Contents /\ spc \in [Senders -> SndPc]
        /\ sManifest \in [Senders -> Manifest \cup {Absent}] /\ sTodo \in [Senders -> SUBSET Nat]
    BY DEF TypeInv, TypeOK, SndTypeOK
  <1>2. SenderKnows(s) /\ Disconnected(s) /\ ~up[s]
    BY DEF PlanInv, SenderKnows, SStart, SDigest, SConnectRefused
  <1>3. /\ UNCHANGED linkVars
        /\ \/ /\ Goto(s, "digest") /\ UNCHANGED sTodo
              /\ sManifest' = [sManifest EXCEPT ![s] = NewManifest(Len(src[s]))]
           \/ /\ \E pc \in {"digest", "connect"} : Goto(s, pc)
              /\ UNCHANGED <<sManifest, sTodo>> /\ spc[s] = "digest"
           \/ ForgetSend(s, "failed")
    <2>1. CASE SDigest(s)
      <3>1. \E pc \in {"digest", "connect"} : Goto(s, pc)
        BY <2>1 DEF SDigest, Goto
      <3> QED
        BY <2>1, <3>1 DEF SDigest
    <2>2. CASE SStart(s) \/ SConnectRefused(s)
      BY <2>2 DEF SStart, SConnectRefused
    <2> QED
      BY <2>1, <2>2
  <1>4. SenderFrame(s) /\ UNCHANGED backlog
    BY <1>1, <1>3 DEF SenderFrame, Goto, ForgetSend, linkVars, rcvVars
  <1>5. Disconnected(s)' /\ ~up'[s]
    BY <1>2, <1>3 DEF Disconnected, linkVars
  <1>6. /\ spc'[s] \in {"digest", "connect", "off"}
        /\ spc'[s] # "off" => Announced(sManifest'[s])
    BY <1>1, <1>2, <1>3 DEF Goto, ForgetSend, SenderKnows, Announced
  <1>7. SenderKnows(s)'
    BY <1>5, <1>6 DEF SenderKnows
  <1>8. Conversation(s)'
    BY <1>5 DEF Conversation, Disconnected, Queued
  <1> QED
    BY <1>4, <1>7, <1>8, OwnStep

(* The connection joins the queue; nothing has been said on it. *)
LEMMA ConnectPlan ==
    ASSUME TypeInv, PlanInv, NEW s \in Senders, UNCHANGED rcvVars, SConnect(s)
    PROVE  PlanInv'
PROOF
  <1>1. /\ spc \in [Senders -> SndPc] /\ up \in [Senders -> BOOLEAN]
        /\ s2r \in [Senders -> Seq(ToReceiver)] /\ r2s \in [Senders -> Seq(Request)]
        /\ backlog \in Seq(Senders)
    BY DEF TypeInv, TypeOK, LinkTypeOK, SndTypeOK
  <1>2. /\ backlog' = Append(backlog, s)
        /\ up' = [up EXCEPT ![s] = TRUE]
        /\ s2r' = [s2r EXCEPT ![s] = <<>>]
        /\ r2s' = [r2s EXCEPT ![s] = <<>>]
        /\ spc[s] = "connect" /\ spc' = [spc EXCEPT ![s] = "manifest"]
        /\ UNCHANGED <<client, rpc, rManifest, rTodo, sManifest, sTodo>>
    BY DEF SConnect, Connect, Goto, rcvVars
  <1>3. SenderFrame(s) /\ spc'[s] = "manifest" /\ s2r'[s] = <<>> /\ r2s'[s] = <<>>
    BY <1>1, <1>2 DEF SenderFrame
  <1>4. /\ Len(backlog) \in Nat /\ Len(backlog') = Len(backlog) + 1
        /\ backlog'[Len(backlog) + 1] = s
        /\ \A k \in 1 .. Len(backlog) : backlog'[k] = backlog[k]
    BY <1>1, <1>2
  <1>5. SenderKnows(s) /\ Disconnected(s) /\ s # Absent
    BY <1>2, TcpLinkAssumption DEF PlanInv, SenderKnows
  <1>6. \A k \in 1 .. Len(backlog') : k \in 1 .. Len(backlog) \/ k = Len(backlog) + 1
    BY <1>4
  <1>7. ConnectedOnce'
    <2>1. ASSUME NEW j \in 1 .. Len(backlog'), NEW k \in 1 .. Len(backlog'), backlog'[j] = backlog'[k]
          PROVE  j = k
      BY <1>4, <1>5, <1>6, <2>1 DEF PlanInv, ConnectedOnce, Disconnected
    <2>2. \A k \in 1 .. Len(backlog') : backlog'[k] # client
      BY <1>4, <1>5, <1>6 DEF PlanInv, ConnectedOnce, Disconnected
    <2> QED
      BY <1>2, <2>1, <2>2 DEF PlanInv, ConnectedOnce
  <1>8. ReceiverKnows'
    BY <1>2 DEF PlanInv, ReceiverKnows
  <1>9. ASSUME NEW t \in Senders, t # s PROVE SenderKnows(t)' /\ Conversation(t)'
    <2>1. SenderKnows(t) /\ Conversation(t)
      BY DEF PlanInv
    <2>2. Queued(t)' <=> Queued(t)
      <3>1. Queued(t) => Queued(t)'
        BY <1>4 DEF Queued
      <3>2. Queued(t)' => Queued(t)
        BY <1>4, <1>6, <1>9 DEF Queued
      <3> QED
        BY <3>1, <3>2
    <2> QED
      BY <1>3, <1>9, <2>1, <2>2, KeptSender DEF SenderFrame
  <1>10. SenderKnows(s)'
    BY <1>2, <1>3, <1>5 DEF SenderKnows
  <1>11. Greeting(s)'
    BY <1>3 DEF Greeting
  <1>12. Conversation(s)'
    BY <1>2, <1>5, <1>11 DEF Conversation, Disconnected
  <1> QED
    BY <1>7, <1>8, <1>9, <1>10, <1>12 DEF PlanInv

(* The manifest is the first message of a connection. *)
LEMMA AnnouncePlan ==
    ASSUME TypeInv, PlanInv, NEW s \in Senders, UNCHANGED rcvVars, SSendManifest(s)
    PROVE  PlanInv'
PROOF
  <1> DEFINE msg == [type |-> "manifest", manifest |-> sManifest[s]]
  <1>1. /\ spc \in [Senders -> SndPc] /\ s2r \in [Senders -> Seq(ToReceiver)]
        /\ sManifest[s] \in Manifest
    BY DEF TypeInv, TypeOK, LinkTypeOK, SndTypeOK, SndShape, SSendManifest
  <1>2. /\ \/ s2r' = [s2r EXCEPT ![s] = Append(@, msg)]
           \/ UNCHANGED s2r
        /\ spc[s] = "manifest" /\ spc' = [spc EXCEPT ![s] = "request"]
        /\ UNCHANGED <<backlog, client, up, r2s, rpc, rManifest, rTodo, sManifest, sTodo>>
    BY DEF SSendManifest, SendToReceiver, Goto, rcvVars
  <1>3. /\ SenderKnows(s) /\ Conversation(s) /\ Announced(sManifest[s])
        /\ s2r[s] = <<>> /\ r2s[s] = <<>>
    BY <1>2 DEF PlanInv, SenderKnows
  <1>4. SenderFrame(s) /\ spc'[s] = "request"
    BY <1>1, <1>2 DEF SenderFrame
  <1>5. s2r'[s] = <<>> \/ s2r'[s] = <<msg>>
    BY <1>1, <1>2, <1>3
  <1>6. SenderKnows(s)'
    BY <1>2, <1>3, <1>4 DEF SenderKnows
  <1>7. Greeting(s)'
    <2>1. msg.type = "manifest" /\ msg.manifest = sManifest[s]
      OBVIOUS
    <2> HIDE DEF msg
    <2>2. Len(s2r'[s]) <= 1 /\ \A k \in 1 .. Len(s2r'[s]) : s2r'[s][k] = msg
      <3>1. Len(<<>>) = 0 /\ Len(<<msg>>) = 1 /\ <<msg>>[1] = msg
        OBVIOUS
      <3>2. CASE s2r'[s] = <<>>
        <4>1. Len(s2r'[s]) = 0
          BY <3>1, <3>2
        <4> QED
          BY <4>1
      <3>3. CASE s2r'[s] = <<msg>>
        <4>1. Len(s2r'[s]) = 1 /\ s2r'[s][1] = msg
          BY <3>1, <3>3
        <4> QED
          BY <4>1
      <3> QED
        BY <1>5, <3>2, <3>3
    <2> QED
      BY <1>2, <1>3, <1>4, <2>1, <2>2 DEF Greeting
  <1>8. Conversation(s)'
    <2>1. ~Asking(s) /\ ~Underway(s)
      BY <1>2 DEF Asking, Underway
    <2> QED
      BY <1>2, <1>3, <1>7, <2>1 DEF Conversation
  <1> QED
    BY <1>2, <1>4, <1>6, <1>8, OwnStep

(* A sender that has a request or sends chunks is not in the queue, and the  *)
(* receiver, if it still has the connection, is past its request.            *)
LEMMA PastRequest ==
    ASSUME PlanInv, NEW s \in Senders, spc[s] = "chunks" \/ r2s[s] # <<>>
    PROVE  ~Queued(s) /\ (client = s => rpc \notin {"manifest", "request"} /\ Underway(s))
PROOF
    BY DEF PlanInv, Conversation, Greeting, Asking

(* The request is accepted: both sides now have the same list. *)
LEMMA TakePlan ==
    ASSUME TypeInv, PlanInv, NEW s \in Senders, UNCHANGED rcvVars, SRecvRequest(s)
    PROVE  PlanInv'
PROOF
  <1> DEFINE request == Head(r2s[s])
  <1>1. /\ spc \in [Senders -> SndPc] /\ r2s \in [Senders -> Seq(Request)]
        /\ sTodo \in [Senders -> SUBSET Nat]
    BY DEF TypeInv, TypeOK, LinkTypeOK, SndTypeOK
  <1>2. spc[s] = "request" /\ r2s[s] # <<>>
    BY DEF SRecvRequest
  <1>3. CASE Return(s, "rejected")
    BY <1>3, SenderEnds DEF Return
  <1>4. CASE /\ RecvFromReceiver(s)
             /\ sTodo' = [sTodo EXCEPT ![s] = request.missing]
             /\ Goto(s, "chunks")
             /\ UNCHANGED sManifest
    <2>1. /\ r2s' = [r2s EXCEPT ![s] = Tail(@)] /\ spc' = [spc EXCEPT ![s] = "chunks"]
          /\ UNCHANGED <<backlog, client, up, s2r, rpc, rManifest, rTodo, sManifest>>
      BY <1>4 DEF RecvFromReceiver, Goto, rcvVars
    <2>2. SenderFrame(s) /\ spc'[s] = "chunks" /\ sTodo'[s] = request.missing
      BY <1>1, <1>4, <2>1 DEF SenderFrame
    <2>3. ~Queued(s) /\ (client = s => rpc \notin {"manifest", "request"} /\ Underway(s))
      BY <1>2, PastRequest
    <2>4. SenderKnows(s)'
      BY <1>2, <2>1, <2>2 DEF PlanInv, SenderKnows
    <2>5. client = s => Underway(s)'
      <3> SUFFICES ASSUME client = s PROVE Underway(s)'
        OBVIOUS
      <3>1. Underway(s)
        BY <2>3
      <3>2. ASSUME up[s] PROVE Agreed(s)'
        <4>1. /\ sManifest[s] = rManifest /\ s2r[s] = <<>>
              /\ r2s[s] = <<[total_chunks |-> rManifest.chunk_count, missing |-> rTodo]>>
          BY <1>2, <3>1, <3>2 DEF Underway, Agreed
        <4>2. request.missing = rTodo
          BY <4>1
        <4>3. \A i : ~Carried(<<>>, Len(<<>>), rManifest, i)
          BY DEF Carried
        <4> HIDE DEF request
        <4> QED
          BY <2>1, <2>2, <4>1, <4>2, <4>3 DEF Agreed
      <3> QED
        BY <2>1, <2>2, <3>1, <3>2 DEF Underway
    <2>6. Conversation(s)'
      BY <2>1, <2>3, <2>5 DEF Conversation, Queued
    <2> QED
      BY <2>1, <2>2, <2>4, <2>6, OwnStep
  <1> QED
    BY <1>3, <1>4 DEF SRecvRequest

(* The smallest index of the list goes out behind all the smaller ones. *)
LEMMA SendPlan ==
    ASSUME TypeInv, PlanInv, NEW s \in Senders, UNCHANGED rcvVars, SSendChunk(s)
    PROVE  PlanInv'
PROOF
  <1>1. PICK i \in NextOf(sTodo[s]) :
          LET h == NewHeader(sManifest[s], i)
          IN  IF h.byte_offset + h.payload_size <= Len(src[s])
              THEN /\ SendToReceiver(s,
                        [type |-> "chunk", header |-> h,
                         payload |-> ReadAt(src[s], h.byte_offset, h.payload_size)])
                   /\ sTodo' = [sTodo EXCEPT ![s] = @ \ {i}]
                   /\ UNCHANGED <<src, spc, sManifest, sDigest, sResult>>
              ELSE Return(s, "failed")
    BY DEF SSendChunk
  <1> DEFINE h == NewHeader(sManifest[s], i)
             data == ReadAt(src[s], h.byte_offset, h.payload_size)
             msg == [type |-> "chunk", header |-> h, payload |-> data]
  <1>2. /\ i \in Nat /\ i \in sTodo[s] /\ (\A j \in sTodo[s] : i <= j)
        /\ sTodo \in [Senders -> SUBSET Nat] /\ rTodo \in SUBSET Nat
        /\ sManifest[s] \in Manifest /\ spc[s] = "chunks" /\ src[s] \in File
        /\ s2r \in [Senders -> Seq(ToReceiver)]
    BY ChunkPlanAssumption
    DEF SSendChunk, NextOf, TypeInv, TypeOK, LinkTypeOK, SndTypeOK, RcvTypeOK, SndShape, File
  <1>3. h \in Header
    BY <1>2, NewHeaderType
  <1>4. ~Queued(s) /\ (client = s => rpc \notin {"manifest", "request"} /\ Underway(s))
    BY <1>2, PastRequest
  <1>5. CASE ~(h.byte_offset + h.payload_size <= Len(src[s]))
    <2>1. Return(s, "failed")
      BY <1>1, <1>5
    <2> QED
      BY <2>1, SenderEnds DEF Return
  <1>6. CASE h.byte_offset + h.payload_size <= Len(src[s])
    <2>1. data \in File
      BY <1>2, <1>3, <1>6, ReadAtType DEF Header
    <2>2. msg \in ToReceiver /\ msg.type = "chunk" /\ msg.header = h
      <3> HIDE DEF h, data
      <3> QED
        BY <1>3, <2>1 DEF ToReceiver, ChunkMsg
    <2>3. SendToReceiver(s, msg) /\ sTodo' = [sTodo EXCEPT ![s] = @ \ {i}]
          /\ UNCHANGED <<spc, sManifest>>
      BY <1>1, <1>6
    <2>4. \A j : Carries(msg, sManifest[s], j) <=> j = i
      BY <2>2 DEF Carries, NewHeader
    <2> HIDE DEF msg
    <2>5. /\ \/ up[s] /\ s2r' = [s2r EXCEPT ![s] = Append(@, msg)]
             \/ ~up[s] /\ UNCHANGED s2r
          /\ UNCHANGED <<backlog, client, up, r2s, rpc, rManifest, rTodo>>
      BY <2>3 DEF SendToReceiver, rcvVars
    <2>6. SenderFrame(s) /\ sTodo'[s] = sTodo[s] \ {i}
      BY <1>2, <2>3, <2>5 DEF SenderFrame
    <2>7. SenderKnows(s)'
      BY <1>2, <2>3, <2>5 DEF PlanInv, SenderKnows
    <2>8. ASSUME client = s PROVE Underway(s)'
      <3>1. CASE ~up[s]
        BY <1>4, <2>3, <2>5, <2>8, <3>1 DEF Underway
      <3>2. CASE up[s]
        <4> DEFINE q == s2r[s]
                   r == s2r'[s]
        <4>1. q \in Seq(ToReceiver) /\ r = Append(q, msg) /\ Len(r) = Len(q) + 1
          BY <1>2, <2>2, <2>5, <3>2
        <4>2. Agreed(s) /\ InSequence(q, rManifest, rTodo) /\ sManifest[s] = rManifest
          BY <1>4, <2>8, <3>2 DEF Underway, Agreed
        <4>3. /\ sTodo[s] \subseteq rTodo
              /\ \A a \in sTodo[s] : \A j \in rTodo \ sTodo[s] : j < a
              /\ \A a \in rTodo : a \in sTodo[s] <=> ~Carried(q, Len(q), rManifest, a)
              /\ \A k \in 1 .. Len(q) : q[k].type # "hash"
          BY <1>2, <4>2 DEF Agreed
        <4>4. i \in rTodo /\ \A j \in rTodo : j < i <=> Carried(q, Len(q), rManifest, j)
          <5>1. \A j \in rTodo : j < i <=> j \notin sTodo[s]
            BY <1>2, <4>3
          <5> QED
            BY <1>2, <4>3, <5>1
        <4>5. /\ InSequence(r, rManifest, rTodo)
              /\ \A j : Carried(r, Len(q) + 1, rManifest, j)
                           <=> Carried(q, Len(q), rManifest, j) \/ Carries(msg, rManifest, j)
          <5>1. \E a \in rTodo : Carries(msg, rManifest, a)
                                 /\ \A j \in rTodo : j < a <=> Carried(q, Len(q), rManifest, j)
            BY <2>4, <4>2, <4>4
          <5> HIDE DEF q, r
          <5> QED
            BY <1>2, <2>2, <4>1, <4>2, <4>3, <5>1, SequenceAppend
        <4>6. \A k \in 1 .. Len(r) : r[k].type # "hash"
          <5>1. \A k \in 1 .. Len(r) : r[k] = msg \/ (k \in 1 .. Len(q) /\ r[k] = q[k])
            BY <2>2, <4>1
          <5> QED
            BY <2>2, <4>3, <5>1
        <4>7. \A j : Carried(r, Len(r), rManifest, j)
                           <=> Carried(q, Len(q), rManifest, j) \/ j = i
          BY <2>4, <4>1, <4>2, <4>5
        <4>8. /\ sTodo'[s] \subseteq rTodo
              /\ \A a \in sTodo'[s] : \A j \in rTodo \ sTodo'[s] : j < a
          BY <1>2, <2>6, <4>3
        <4>9. \A a \in rTodo : a \in sTodo'[s] <=> ~Carried(r, Len(r), rManifest, a)
          BY <2>6, <4>3, <4>7
        <4> HIDE DEF q, r
        <4>10. Agreed(s)'
          BY <1>2, <2>3, <2>5, <4>2, <4>6, <4>8, <4>9 DEF Agreed, r
        <4> QED
          BY <1>2, <2>3, <2>5, <4>5, <4>10 DEF Underway, r
      <3> QED
        BY <3>1, <3>2
    <2>9. Conversation(s)'
      BY <1>4, <2>5, <2>8 DEF Conversation, Queued
    <2> QED
      BY <2>5, <2>6, <2>7, <2>9, OwnStep
  <1> QED
    BY <1>5, <1>6

(* The digest goes out behind the last chunk that is missing, and the sender *)
(* ends.                                                                     *)
LEMMA DigestPlan ==
    ASSUME TypeInv, PlanInv, NEW s \in Senders, UNCHANGED rcvVars, SSendHash(s)
    PROVE  PlanInv'
PROOF
  <1> DEFINE msg == [type |-> "hash", hash |-> sDigest[s]]
  <1>1. /\ spc \in [Senders -> SndPc] /\ up \in [Senders -> BOOLEAN]
        /\ s2r \in [Senders -> Seq(ToReceiver)] /\ r2s \in [Senders -> Seq(Request)]
        /\ sManifest \in [Senders -> Manifest \cup {Absent}] /\ sTodo \in [Senders -> SUBSET Nat]
        /\ rTodo \in SUBSET Nat
    BY DEF TypeInv, TypeOK, LinkTypeOK, SndTypeOK, RcvTypeOK
  <1>2. spc[s] = "chunks" /\ sTodo[s] = {} /\ ForgetSend(s, "complete")
    BY DEF SSendHash
  <1>3. msg \in ToReceiver /\ msg.type = "hash"
    BY <1>2 DEF TypeInv, SndShape, ToReceiver, HashMsg
  <1>4. /\ \/ up[s] /\ s2r' = [s2r EXCEPT ![s] = Append(@, msg)]
           \/ ~up[s] /\ UNCHANGED s2r
        /\ up' = [up EXCEPT ![s] = FALSE]
        /\ r2s' = [r2s EXCEPT ![s] = <<>>]
        /\ UNCHANGED <<listening, backlog, client, rpc, rManifest, rTodo>>
    BY DEF SSendHash, rcvVars
  <1> HIDE DEF msg
  <1>5. CASE ~up[s]
    <2>1. CloseSender(s)
      BY <1>4, <1>5 DEF CloseSender
    <2> QED
      BY <1>2, <2>1, SenderEnds
  <1>6. CASE up[s]
    <2>1. SenderFrame(s) /\ spc'[s] = "off" /\ ~up'[s] /\ s2r'[s] = Append(s2r[s], msg)
      BY <1>1, <1>2, <1>4, <1>6 DEF SenderFrame, ForgetSend, Goto
    <2>2. SenderKnows(s)'
      BY <2>1 DEF SenderKnows
    <2>3. ~Queued(s) /\ (client = s => rpc \notin {"manifest", "request"} /\ Underway(s))
      BY <1>2, PastRequest
    <2>4. ASSUME client = s PROVE Underway(s)'
      <3> DEFINE q == s2r[s]
      <3>1. Agreed(s) /\ InSequence(q, rManifest, rTodo)
        BY <1>6, <2>3, <2>4 DEF Underway
      <3>2. /\ \A j \in rTodo : Carried(q, Len(q), rManifest, j)
            /\ \A k \in 1 .. Len(q) : q[k].type # "hash"
        BY <1>2, <3>1 DEF Agreed
      <3>3. q \in Seq(ToReceiver)
        BY <1>1
      <3>4. InSequence(Append(q, msg), rManifest, rTodo)
        BY <1>1, <1>3, <3>1, <3>2, <3>3, SequenceAppend
      <3> QED
        BY <1>4, <2>1, <3>4 DEF Underway
    <2>5. Conversation(s)'
      BY <1>4, <2>3, <2>4 DEF Conversation, Queued
    <2> QED
      BY <1>4, <2>1, <2>2, <2>5, OwnStep
  <1> QED
    BY <1>5, <1>6

(* Every step of a sender, faults included, keeps the invariant. *)
LEMMA SenderPlan ==
    ASSUME TypeInv, PlanInv, NEW s \in Senders, SenderStep(s) \/ SenderFault(s)
    PROVE  PlanInv'
PROOF
  <1>1. UNCHANGED rcvVars
    BY DEF SenderStep, SenderFault
  <1>2. CASE SLinkFail(s) \/ SCallFail(s) \/ SCrash(s)
    <2>1. \E result \in SndResult : ForgetSend(s, result) /\ (CloseSender(s) \/ ResetBySender(s))
      BY <1>2 DEF SLinkFail, SCallFail, SCrash, Return, SndResult
    <2> QED
      BY <1>1, <2>1, SenderEnds
  <1> QED
    BY <1>1, <1>2, StartPlan, ConnectPlan, AnnouncePlan, TakePlan, SendPlan, DigestPlan
    DEF SenderStep, SenderFault

-----------------------------------------------------------------------------
(* The invariant *)

(* Before the first runs nobody is connected. *)
LEMMA PlanInit == Init => PlanInv
PROOF
  <1> SUFFICES ASSUME Init PROVE PlanInv
    OBVIOUS
  <1>1. /\ backlog = <<>> /\ client = Absent /\ rpc = "off"
        /\ \A s \in Senders : spc[s] = "off" /\ up[s] = FALSE /\ s # Absent
    BY TcpLinkAssumption DEF Init, LinkInit, RcvInit, SndInit
  <1>2. ConnectedOnce /\ ReceiverKnows
    BY <1>1 DEF ConnectedOnce, ReceiverKnows
  <1>3. ASSUME NEW s \in Senders PROVE SenderKnows(s) /\ Conversation(s)
    <2>1. ~Queued(s)
      BY <1>1 DEF Queued
    <2> QED
      BY <1>1, <2>1 DEF SenderKnows, Conversation
  <1> QED
    BY <1>2, <1>3 DEF PlanInv

(* No step of anybody breaks the invariant. *)
LEMMA PlanStep == TypeInv /\ SafetyInv /\ PlanInv /\ [Next]_vars => PlanInv'
PROOF
  <1> SUFFICES ASSUME TypeInv, SafetyInv, PlanInv, [Next]_vars PROVE PlanInv'
    OBVIOUS
  <1>1. CASE ReceiverStep \/ ReceiverFault
    BY <1>1, ReceiverPlan
  <1>2. CASE \E s \in Senders : SenderStep(s) \/ SenderFault(s)
    BY <1>2, SenderPlan
  <1>3. CASE \E s \in Senders : LinkFault(s)
    BY <1>3, LossPlan
  <1>4. CASE UNCHANGED <<linkVars, rcvVars, spc, sManifest, sTodo>>
    <2>1. UNCHANGED <<rpc, rManifest, rTodo, client, backlog, up, s2r, r2s, spc, sManifest, sTodo>>
      BY <1>4 DEF linkVars, rcvVars
    <2>2. ConnectedOnce' /\ ReceiverKnows'
      BY <2>1 DEF PlanInv, ConnectedOnce, ReceiverKnows
    <2>3. ASSUME NEW s \in Senders PROVE SenderKnows(s)' /\ Conversation(s)'
      <3>1. SenderKnows(s) /\ Conversation(s) /\ (Queued(s)' <=> Queued(s))
        BY <2>1 DEF PlanInv, Queued
      <3> QED
        BY <2>1, <3>1, KeptSender
    <2> QED
      BY <2>2, <2>3 DEF PlanInv
  <1>5. CASE Edit \/ UNCHANGED vars
    <2>1. UNCHANGED <<linkVars, rcvVars, spc, sManifest, sTodo>>
      BY <1>5 DEF Edit, EditSource, vars, sndVars
    <2> QED
      BY <1>4, <2>1
  <1> QED
    BY <1>1, <1>2, <1>3, <1>5 DEF Next, Fault

(* At each point of a connection's life each end knows what the other one    *)
(* may have said, whatever crashes, losses, edits and other senders there    *)
(* are: the manifest first, then the request, then the chunks it lists in    *)
(* ascending order, and the digest only after the last of them.              *)
THEOREM PlanInvariant == Spec => []PlanInv
PROOF
  <1>1. Init => TypeInv /\ SafetyInv /\ PlanInv
    BY TypeInit, SafetyInit, PlanInit
  <1>2. TypeInv /\ SafetyInv /\ PlanInv /\ [Next]_vars => (TypeInv /\ SafetyInv /\ PlanInv)'
    BY TypeStep, SafetyStep, PlanStep
  <1> QED
    BY <1>1, <1>2, PTL DEF Spec

(* What the two ends know of each other makes their lists one. *)
LEMMA PlanAgrees == TypeInv /\ PlanInv => PlanAgreement
PROOF
  <1> SUFFICES ASSUME TypeInv, PlanInv, client # Absent, up[client], spc[client] = "chunks"
               PROVE  /\ rTodo = InFlight(client) \cup sTodo[client]
                      /\ InFlight(client) \cap sTodo[client] = {}
    BY DEF PlanAgreement
  <1> DEFINE c == client
             q == s2r[c]
  <1>1. c \in Senders /\ q \in Seq(ToReceiver)
    BY DEF TypeInv, TypeOK, LinkTypeOK
  <1>2. Underway(c) /\ Agreed(c)
    BY <1>1, PastRequest DEF Underway
  <1>3. /\ sTodo[c] \subseteq rTodo
        /\ \A i \in rTodo : i \in sTodo[c] <=> ~Carried(q, Len(q), rManifest, i)
        /\ InSequence(q, rManifest, rTodo)
    BY <1>2 DEF Underway, Agreed
  <1>4. \A i : i \in InFlight(c) <=>
               \E k \in 1 .. Len(q) : q[k].type = "chunk" /\ i = q[k].header.chunk_index
    BY DEF InFlight
  <1> HIDE DEF q
  <1>5. ASSUME NEW k \in 1 .. Len(q), q[k].type = "chunk"
        PROVE  /\ q[k].header.chunk_index \in rTodo
               /\ Carried(q, Len(q), rManifest, q[k].header.chunk_index)
    <2>1. PICK i \in rTodo : Carries(q[k], rManifest, i)
      BY <1>3, <1>5 DEF InSequence
    <2>2. i = q[k].header.chunk_index
      BY <2>1 DEF Carries, NewHeader
    <2> QED
      BY <2>1, <2>2 DEF Carried
  <1>6. \A i : Carried(q, Len(q), rManifest, i) => i \in InFlight(c)
    <2> TAKE i
    <2>1. ASSUME NEW k \in 1 .. Len(q), Carries(q[k], rManifest, i) PROVE i \in InFlight(c)
      BY <1>4, <2>1 DEF Carries, NewHeader
    <2> QED
      BY <2>1 DEF Carried
  <1>7. \A i \in InFlight(c) : i \in rTodo /\ Carried(q, Len(q), rManifest, i)
    BY <1>4, <1>5
  <1> HIDE DEF c
  <1>8. /\ rTodo = InFlight(c) \cup sTodo[c]
        /\ InFlight(c) \cap sTodo[c] = {}
    BY <1>3, <1>6, <1>7
  <1> QED
    BY <1>8 DEF c

(* On a live connection the chunks the receiver waits for are those on their *)
(* way and those the sender has yet to send, and no chunk is both.           *)
THEOREM SidesAgree == Spec => []PlanAgreement
PROOF
    BY TypeInvariant, PlanInvariant, PlanAgrees, PTL

-----------------------------------------------------------------------------
(* Neither side refuses what the other one says *)

(* A request about an announced file is short enough to be received.         *)
LEMMA RequestFits ==
    ASSUME WithinRequestLimit, NEW m, Announced(m),
           NEW r \in Request, validate_continue_request(m, r)
    PROVE  receivable_request(r)
PROOF
  <1> DEFINE n == m.chunk_count
             I == 0 .. n - 1
  <1>1. n \in Nat /\ n <= kMaxChunkIndexes
    <2>1. PICK b \in Contents : m = NewManifest(Len(b))
      BY DEF Announced
    <2> QED
      BY <2>1, AnnouncedValid DEF WithinRequestLimit, NewManifest, Manifest
  <1>2. r.missing \subseteq I
    BY <1>1 DEF validate_continue_request, Request
  <1> HIDE DEF n
  <1>3. IsFiniteSet(I) /\ Cardinality(I) = (IF 0 > n - 1 THEN 0 ELSE (n - 1) - 0 + 1)
    BY <1>1, FS_Interval
  <1>4. Cardinality(I) = n /\ Cardinality(I) \in Nat
    BY <1>1, <1>3
  <1>5. IsFiniteSet(r.missing) /\ Cardinality(r.missing) <= Cardinality(I)
    BY <1>2, <1>3, FS_Subset
  <1>6. Cardinality(r.missing) \in Nat
    BY <1>5, FS_CardinalityType
  <1> QED
    BY <1>1, <1>4, <1>5, <1>6, ChunkPlanAssumption DEF receivable_request

(* What the receiver reads is what it expects at that point. *)
LEMMA ReceiverAccepts ==
    ASSUME TypeInv, SafetyInv, PlanInv, s2r[client] # <<>>
    PROVE  LET msg == Head(s2r[client])
           IN  /\ rpc = "manifest" => msg.type = "manifest" /\ valid_manifest(msg.manifest)
               /\ rpc = "chunk" /\ rTodo # {} => ExpectedChunk(msg)
               /\ rpc = "hash" => msg.type = "hash"
PROOF
  <1> DEFINE c == client
             q == s2r[c]
             msg == Head(q)
  <1>1. ASSUME rpc \in {"manifest", "chunk", "hash"}
        PROVE  /\ c \in Senders /\ q \in Seq(ToReceiver) /\ rTodo \in SUBSET Nat
               /\ 1 \in 1 .. Len(q) /\ msg = q[1] /\ Conversation(c)
    <2>1. c \in Senders /\ q \in Seq(ToReceiver) /\ rTodo \in SUBSET Nat
      BY <1>1 DEF TypeInv, TypeOK, LinkTypeOK, RcvTypeOK, RcvShape
    <2> QED
      BY <2>1 DEF PlanInv
  <1>2. ASSUME rpc = "manifest" PROVE msg.type = "manifest" /\ valid_manifest(msg.manifest)
    <2>1. Greeting(c)
      BY <1>1, <1>2 DEF Conversation
    <2>2. msg.type = "manifest" /\ Announced(msg.manifest)
      BY <1>1, <1>2, <2>1 DEF Greeting
    <2> QED
      BY <2>2, AnnouncedValid
  <1>3. ASSUME rpc = "chunk", rTodo # {} PROVE ExpectedChunk(msg)
    <2>1. InSequence(q, rManifest, rTodo)
      BY <1>1, <1>3 DEF Conversation, Underway
    <2>2. PICK i \in NextOf(rTodo) : Carries(msg, rManifest, i)
      BY <1>1, <1>3, <2>1, SequenceHead
    <2>3. /\ rManifest \in Manifest /\ valid_manifest(rManifest)
          /\ rTodo = missing_chunks(rCkpt) /\ rCkpt.total_chunks = rManifest.chunk_count
      BY <1>3, CheckpointFileAssumption
      DEF PlanInv, ReceiverKnows, TypeInv, RcvShape, SafetyInv, DiskInv, MemoryPlan
    <2>4. i \in Nat /\ i < rManifest.chunk_count
      BY <1>1, <1>3, <2>2, <2>3 DEF NextOf, missing_chunks, Manifest
    <2>5. validate_chunk_header(rManifest, NewHeader(rManifest, i))
      BY <2>3, <2>4, NewHeaderValid
    <2>6. msg.type = "chunk" /\ msg.header = NewHeader(rManifest, i) /\ msg.header.chunk_index = i
      BY <2>2 DEF Carries, NewHeader
    <2> HIDE DEF msg
    <2> QED
      BY <2>2, <2>5, <2>6 DEF ExpectedChunk
  <1>4. ASSUME rpc = "hash" PROVE msg.type = "hash"
    <2>1. rTodo = {} /\ InSequence(q, rManifest, rTodo) /\ NextOf({}) = {}
      BY <1>1, <1>4 DEF PlanInv, ReceiverKnows, Conversation, Underway, NextOf
    <2>2. {} \in SUBSET Nat /\ InSequence(q, rManifest, {})
      BY <2>1
    <2> QED
      BY <1>1, <1>4, <2>1, <2>2, SequenceHead
  <1> QED
    BY <1>2, <1>3, <1>4

(* And so is the request that a sender reads. *)
LEMMA SenderAccepts ==
    ASSUME WithinRequestLimit, TypeInv, PlanInv, NEW s \in Senders,
           spc[s] = "request", r2s[s] # <<>>
    PROVE  /\ receivable_request(Head(r2s[s]))
           /\ validate_continue_request(sManifest[s], Head(r2s[s]))
PROOF
  <1>1. r2s[s] \in Seq(Request)
    BY DEF TypeInv, TypeOK, LinkTypeOK
  <1>2. 1 \in 1 .. Len(r2s[s]) /\ Head(r2s[s]) = r2s[s][1] /\ Head(r2s[s]) \in Request
    BY <1>1
  <1>3. Announced(sManifest[s]) /\ validate_continue_request(sManifest[s], Head(r2s[s]))
    BY <1>2 DEF PlanInv, SenderKnows
  <1> QED
    BY <1>2, <1>3, RequestFits

(* No step refuses a message of the other program. *)
LEMMA HonestStep ==
    ASSUME WithinRequestLimit, TypeInv, SafetyInv, PlanInv, NoHonestReject, [Next]_vars
    PROVE  NoHonestReject'
PROOF
  <1>1. sResult \in [Senders -> SndResult]
    BY DEF TypeInv, TypeOK, SndTypeOK
  <1>2. CASE ReceiverStep \/ ReceiverFault
    <2>1. UNCHANGED sResult
      BY <1>2 DEF ReceiverStep, ReceiverFault, sndVars
    <2>2. ASSUME RRecvManifest \/ RRecvChunk \/ RRecvHash PROVE UNCHANGED rResult
      BY <2>2, ReceiverAccepts DEF RRecvManifest, RRecvChunk, RRecvHash
    <2>3. ASSUME \/ RStart \/ RAccept \/ RSendRequest \/ RWriteTmp \/ RRemoveOld \/ RRenameTmp
                 \/ RPrepareOutput \/ RCloseStream \/ RVerify \/ RCleanup \/ RRecvEof \/ RSendFail
                 \/ RCrash \/ RWriteTmpShort \/ RCallFail \/ RPrepareFail \/ RWriteFail
                 \/ RFlushFail \/ RCleanupFail \/ DeleteOutput
          PROVE  rResult' = rResult \/ rResult' \in RcvResult \ {"rejected"}
      BY <2>3
      DEF RStart, RAccept, RSendRequest, RWriteTmp, RRemoveOld, RRenameTmp,
          RPrepareOutput, RCloseStream, RVerify, RCleanup, RRecvEof, RSendFail,
          RCrash, RWriteTmpShort, RCallFail, RPrepareFail, RWriteFail,
          RFlushFail, RCleanupFail, DeleteOutput, Exit, ForgetRun, RcvResult
    <2> QED
      BY <1>2, <2>1, <2>2, <2>3 DEF ReceiverStep, ReceiverFault, NoHonestReject
  <1>3. ASSUME NEW s \in Senders, SenderStep(s) \/ SenderFault(s) PROVE NoHonestReject'
    <2>1. UNCHANGED rResult
      BY <1>3 DEF SenderStep, SenderFault, rcvVars
    <2>2. UNCHANGED sResult \/ \E r \in SndResult \ {"rejected"} : sResult' = [sResult EXCEPT ![s] = r]
      <3>1. CASE SRecvRequest(s)
        BY <3>1, SenderAccepts DEF SRecvRequest
      <3>2. CASE SSendChunk(s)
        BY <3>2 DEF SSendChunk, Return, ForgetSend, SndResult
      <3>3. CASE \/ SStart(s) \/ SDigest(s) \/ SConnect(s) \/ SConnectRefused(s)
                 \/ SSendManifest(s) \/ SSendHash(s) \/ SLinkFail(s) \/ SCallFail(s) \/ SCrash(s)
        BY <3>3 DEF SStart, SDigest, SConnect, SConnectRefused, SSendManifest, SSendHash,
            SLinkFail, SCallFail, SCrash, Return, ForgetSend, SndResult
      <3> QED
        BY <1>3, <3>1, <3>2, <3>3 DEF SenderStep, SenderFault
    <2> QED
      BY <1>1, <2>1, <2>2 DEF NoHonestReject
  <1>4. CASE UNCHANGED <<rResult, sResult>>
    BY <1>4 DEF NoHonestReject
  <1>5. CASE Edit \/ UNCHANGED vars \/ \E s \in Senders : LinkFault(s)
    <2>1. UNCHANGED <<rResult, sResult>>
      BY <1>5 DEF Edit, EditSource, LinkFault, vars, sndVars, rcvVars
    <2> QED
      BY <1>4, <2>1
  <1> QED
    BY <1>2, <1>3, <1>5 DEF Next, Fault

(* If no file has more chunks than a request may list, neither program ever  *)
(* refuses a message of the other: not after a crash, a broken connection,   *)
(* an edit of the file, nor because of another sender.                       *)
THEOREM HonestPeersAccept ==
    ASSUME WithinRequestLimit
    PROVE  Spec => []NoHonestReject
PROOF
  <1>1. Init => NoHonestReject
    BY DEF Init, RcvInit, SndInit, NoHonestReject
  <1>2. TypeInv /\ SafetyInv /\ PlanInv /\ NoHonestReject /\ [Next]_vars => NoHonestReject'
    BY HonestStep
  <1> QED
    BY <1>1, <1>2, TypeInvariant, SafetyInvariant, PlanInvariant, PTL DEF Spec

=============================================================================
