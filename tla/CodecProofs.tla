----------------------------- MODULE CodecProofs -----------------------------
(***************************************************************************)
(* The codecs and the arithmetic of the chunks, for bytes of any number of *)
(* values, integers of any widths and limits that fit into them, 32 and 64 *)
(* bits among them: what is written is read back, and the code's integers  *)
(* are wide enough for the plan of every file.                             *)
(***************************************************************************)
EXTENDS Geometry, Recursion, SequenceTheorems

-----------------------------------------------------------------------------
(* Powers and quotients *)

(* Power is what its definition says. *)
LEMMA Powers ==
    /\ Power[0] = 1
    /\ \A w \in 1 .. W64 : Power[w] = Base * Power[w - 1]
    /\ \A w \in 0 .. W64 : Power[w] \in Nat \ {0}
PROOF
  <1> DEFINE S == Nat \ {0}
             Eq(f) == f = [w \in 0 .. W64 |-> IF w = 0 THEN 1 ELSE Base * f[w - 1]]
             step == [w \in 1 .. W64 |-> [x \in S |-> Base * x]]
  <1>1. W64 \in Nat /\ Base \in S
    BY CodecsAssumption
  <1>2. \A x \in S : Base * x \in S
    BY <1>1, SMT
  <1>3. step \in Steps(W64, S)
    BY <1>2, Zenon DEF Steps
  <1>4. 1 \in S
    OBVIOUS
  <1> HIDE DEF S
  <1>5. PICK g \in Values(W64, S) : Unrolls(g, W64, 1, step)
    <2> HIDE DEF step
    <2> QED
      BY <1>1, <1>3, <1>4, Recursive, Zenon
  <1>6. g \in [0 .. W64 -> S] /\ g[0] = 1 /\ \A w \in 1 .. W64 : g[w] = step[w][g[w - 1]]
    BY <1>5, Zenon DEF Values, Unrolls
  <1>7. \A w \in 1 .. W64 : g[w] = Base * g[w - 1]
    <2> SUFFICES ASSUME NEW w \in 1 .. W64 PROVE g[w] = Base * g[w - 1]
      OBVIOUS
    <2>1. w - 1 \in 0 .. W64
      BY <1>1
    <2> QED
      BY <1>6, <2>1
  <1>8. Eq(g)
    <2>1. \A w \in 0 .. W64 : g[w] = IF w = 0 THEN 1 ELSE Base * g[w - 1]
      <3> SUFFICES ASSUME NEW w \in 0 .. W64 PROVE g[w] = IF w = 0 THEN 1 ELSE Base * g[w - 1]
        OBVIOUS
      <3>1. w # 0 => w \in 1 .. W64
        BY <1>1
      <3> QED
        BY <1>6, <1>7, <3>1, Zenon
    <2> QED
      BY <1>6, <2>1, Zenon
  <1>9. Eq(Power)
    <2>1. Power = CHOOSE f : Eq(f)
      BY DEF Power
    <2> QED
      BY <1>8, <2>1, Zenon
  <1>10. Power[0] = 1 /\ \A w \in 1 .. W64 : Power[w] = Base * Power[w - 1]
    <2>1. \A w \in 0 .. W64 : Power[w] = IF w = 0 THEN 1 ELSE Base * Power[w - 1]
      BY <1>9, Zenon
    <2>2. 0 \in 0 .. W64 /\ \A w \in 1 .. W64 : w \in 0 .. W64 /\ w # 0
      BY <1>1
    <2> QED
      BY <2>1, <2>2, Zenon
  <1>11. \A w \in 0 .. W64 : Power[w] \in S
    BY <1>1, <1>2, <1>4, <1>10, Hereditary
  <1> QED
    BY <1>10, <1>11 DEF S

(* A wider integer has more values. *)
LEMMA WiderHasMore ==
    ASSUME NEW v \in 0 .. W64, NEW w \in 0 .. W64, v < w
    PROVE  Base * Power[v] <= Power[w]
PROOF
  <1> DEFINE T == {i \in 0 .. w - v - 1 : Base * Power[v] <= Power[v + 1 + i]}
  <1>1. W64 \in Nat /\ Base \in Nat \ {0} /\ v \in Nat /\ w \in Nat /\ w - v - 1 \in Nat
    BY CodecsAssumption
  <1>2. 0 \in T
    <2>1. v + 1 \in 1 .. W64 /\ v + 1 - 1 = v /\ v + 1 + 0 = v + 1
      BY <1>1
    <2>2. Power[v + 1] = Base * Power[v]
      BY <2>1, Powers
    <2>3. Base * Power[v] \in Nat
      BY <1>1, Powers, SMT
    <2> QED
      BY <1>1, <2>1, <2>2, <2>3
  <1>3. ASSUME NEW i \in 1 .. w - v - 1, i - 1 \in T PROVE i \in T
    <2>1. PICK x \in Nat \ {0} : x = Power[v + i]
      <3>1. v + i \in 0 .. W64
        BY <1>1
      <3> QED
        BY <3>1, Powers
    <2>2. PICK y \in Nat : y = Base * Power[v]
      BY <1>1, Powers, SMT
    <2>3. y <= x
      <3>1. v + 1 + (i - 1) = v + i
        BY <1>1
      <3> QED
        BY <1>3, <2>1, <2>2, <3>1
    <2>4. Power[v + 1 + i] = Base * x
      <3>1. v + 1 + i \in 1 .. W64 /\ v + 1 + i - 1 = v + i
        BY <1>1
      <3> QED
        BY <2>1, <3>1, Powers
    <2>5. x <= Base * x
      <3>1. PICK b \in Nat : Base = b + 1
        <4>1. Base - 1 \in Nat /\ Base = Base - 1 + 1
          BY <1>1
        <4> QED
          BY <4>1
      <3>2. Base * x = b * x + x /\ b * x \in Nat
        BY <3>1, SMT
      <3> QED
        BY <3>2
    <2>6. Base * x \in Nat
      BY <1>1, SMT
    <2>7. y <= Base * x
      BY <2>3, <2>5, <2>6
    <2> QED
      BY <2>2, <2>4, <2>7
  <1> HIDE DEF T
  <1>4. \A i \in 0 .. w - v - 1 : i \in T
    BY <1>1, <1>2, <1>3, UpTo
  <1>5. w - v - 1 \in T /\ v + 1 + (w - v - 1) = w
    BY <1>1, <1>4
  <1> QED
    BY <1>5 DEF T

(* Dividing twice is dividing by the product. *)
LEMMA DivideTwice ==
    ASSUME NEW n \in Nat, NEW d \in Nat \ {0}, NEW b \in Nat \ {0}
    PROVE  \E p, t \in Nat : n \div (b * d) = p /\ (n \div d) % b = t /\ n \div d = p * b + t
PROOF
  <1>1. PICK q \in Nat, r \in Nat : n \div d = q /\ n = q * d + r /\ r < d
    BY Division, Zenon
  <1>2. PICK p \in Nat, t \in Nat : q % b = t /\ q = p * b + t /\ t < b
    BY Division, Zenon
  <1> DEFINE m == b * d
             s == t * d + r
  <1>3. m \in Nat \ {0} /\ s \in Nat
    BY SMT
  <1>4. n = p * m + s
    <2>1. (p * b + t) * d = p * (b * d) + t * d
      BY SMT
    <2> QED
      BY <1>1, <1>2, <2>1
  <1>5. s < m
    <2>1. PICK k \in Nat : b = t + 1 + k
      <3>1. b - t - 1 \in Nat /\ b = t + 1 + (b - t - 1)
        BY <1>2
      <3> QED
        BY <3>1
    <2>2. b * d = t * d + d + k * d /\ k * d \in Nat /\ t * d \in Nat
      BY <2>1, SMT
    <2> QED
      BY <1>1, <2>2
  <1> HIDE DEF m, s
  <1>6. n \div m = p
    BY <1>3, <1>4, <1>5, Quotient
  <1>7. n \div d = p * b + t
    BY <1>1, <1>2
  <1>8. (n \div d) % b = t
    BY <1>1, <1>2, Zenon
  <1> QED
    BY <1>6, <1>7, <1>8, Zenon DEF m

-----------------------------------------------------------------------------
(* Integers *)

(* The bytes of a number. *)
LEMMA AppendType ==
    ASSUME NEW w \in 0 .. W64, NEW v \in Nat
    PROVE  /\ append(w, v) \in Seq(Bytes) /\ Len(append(w, v)) = w
           /\ \A i \in 1 .. w : append(w, v)[i] = (v \div Power[w - i]) % Base
PROOF
  <1>1. w \in Nat /\ Base \in Nat \ {0} /\ W64 \in Nat
    BY CodecsAssumption
  <1>2. ASSUME NEW i \in 1 .. w PROVE (v \div Power[w - i]) % Base \in Bytes
    <2>1. PICK d \in Nat \ {0} : d = Power[w - i]
      <3>1. w - i \in 0 .. W64
        BY <1>1
      <3> QED
        BY <3>1, Powers
    <2>2. PICK q \in Nat : q = v \div d
      BY Division
    <2>3. q % Base \in Nat /\ q % Base < Base
      BY <1>1, Division
    <2> QED
      BY <1>1, <2>1, <2>2, <2>3 DEF Bytes
  <1> QED
    BY <1>1, <1>2 DEF append

(* read_u16, read_u32 and read_u64 read back what append_u16, append_u32 and *)
(* append_u64 have written, wherever it lies.                                *)
LEMMA ReadBack ==
    ASSUME NEW w \in 0 .. W64, NEW v \in 0 .. Power[w] - 1, NEW input, NEW offset,
           \A i \in 1 .. w : input[offset + i] = append(w, v)[i]
    PROVE  read(w, input, offset) = v
PROOF
  <1> DEFINE Eq(f) == f = [i \in 0 .. w |->
                              IF i = 0 THEN 0 ELSE f[i - 1] * Base + input[offset + i]]
             value == CHOOSE f : Eq(f)
             step == [i \in 1 .. w |-> [x \in Nat |-> x * Base + input[offset + i]]]
  <1>1. w \in Nat /\ Base \in Nat \ {0} /\ W64 \in Nat /\ v \in Nat
    BY CodecsAssumption, Powers
  <1>2. read(w, input, offset) = value[w]
    BY DEF read
  <1>3. \A i \in 1 .. w : /\ input[offset + i] = (v \div Power[w - i]) % Base
                          /\ input[offset + i] \in Nat
    <2>1. \A i \in 1 .. w : append(w, v)[i] \in Bytes
      BY <1>1, AppendType
    <2>2. Bytes \subseteq Nat
      BY <1>1 DEF Bytes
    <2> QED
      BY <1>1, <2>1, <2>2, AppendType
  <1>4. step \in Steps(w, Nat)
    <2>1. ASSUME NEW i \in 1 .. w, NEW x \in Nat PROVE x * Base + input[offset + i] \in Nat
      BY <1>1, <1>3, SMT
    <2> QED
      BY <2>1, Zenon DEF Steps
  <1>5. PICK g \in Values(w, Nat) : Unrolls(g, w, 0, step)
    <2> HIDE DEF step
    <2> QED
      BY <1>1, <1>4, Recursive, Zenon
  <1>6. g \in [0 .. w -> Nat] /\ g[0] = 0 /\ \A i \in 1 .. w : g[i] = step[i][g[i - 1]]
    BY <1>5, Zenon DEF Values, Unrolls
  <1>7. Eq(g)
    <2>1. \A i \in 0 .. w : g[i] = IF i = 0 THEN 0 ELSE g[i - 1] * Base + input[offset + i]
      <3> SUFFICES ASSUME NEW i \in 0 .. w
                   PROVE  g[i] = IF i = 0 THEN 0 ELSE g[i - 1] * Base + input[offset + i]
        OBVIOUS
      <3>1. CASE i = 0
        BY <1>6, <3>1
      <3>2. CASE i # 0
        <4>1. i \in 1 .. w /\ i - 1 \in 0 .. w
          BY <1>1, <3>2
        <4>2. g[i - 1] \in Nat
          BY <1>6, <4>1
        <4> QED
          BY <1>6, <3>2, <4>1, <4>2, Zenon
      <3> QED
        BY <3>1, <3>2
    <2> QED
      BY <1>6, <2>1, Zenon
  <1>8. Eq(value)
    BY <1>7, Zenon
  <1> HIDE DEF value
  <1>9. value[0] = 0 /\ \A i \in 1 .. w : value[i] = value[i - 1] * Base + input[offset + i]
    <2>1. \A i \in 0 .. w : value[i] = IF i = 0 THEN 0 ELSE value[i - 1] * Base + input[offset + i]
      BY <1>8, Zenon
    <2>2. 0 \in 0 .. w /\ \A i \in 1 .. w : i \in 0 .. w /\ i # 0
      BY <1>1
    <2> QED
      BY <2>1, <2>2, Zenon
  <1> DEFINE T == {i \in 0 .. w : value[i] = v \div Power[w - i]}
  <1>10. 0 \in T
    <2>1. PICK d \in Nat \ {0} : d = Power[w] /\ v < d
      BY <1>1, Powers
    <2>2. v = 0 * d + v
      BY <1>1, <2>1
    <2>3. v \div d = 0
      BY <1>1, <2>1, <2>2, Quotient
    <2> QED
      BY <1>1, <1>9, <2>1, <2>3
  <1>11. ASSUME NEW i \in 1 .. w, i - 1 \in T PROVE i \in T
    <2>1. w - i \in 0 .. W64 /\ w - i + 1 \in 1 .. W64 /\ w - (i - 1) = w - i + 1 /\ w - i + 1 - 1 = w - i
      BY <1>1
    <2>2. PICK d \in Nat \ {0} : d = Power[w - i]
      BY <2>1, Powers
    <2>3. Power[w - (i - 1)] = Base * d
      BY <2>1, <2>2, Powers
    <2>4. PICK p \in Nat, t \in Nat :
             v \div (Base * d) = p /\ (v \div d) % Base = t /\ v \div d = p * Base + t
      <3>1. v \in Nat /\ Base \in Nat \ {0} /\ d \in Nat \ {0}
        BY <1>1, Zenon
      <3> QED
        BY <3>1, DivideTwice, Zenon
    <2>5. value[i - 1] = p
      BY <1>11, <2>3, <2>4
    <2>6. input[offset + i] = t
      BY <1>3, <2>2, <2>4
    <2>7. value[i] = p * Base + t
      BY <1>9, <2>5, <2>6, Zenon
    <2> QED
      BY <2>2, <2>4, <2>7
  <1> HIDE DEF T
  <1>12. \A i \in 0 .. w : i \in T
    BY <1>1, <1>10, <1>11, UpTo
  <1>13. value[w] = v \div Power[w - w]
    BY <1>1, <1>12 DEF T
  <1>14. v \div 1 = v
    BY <1>1
  <1>15. w - w = 0 /\ Power[0] = 1
    BY <1>1, Powers
  <1> QED
    BY <1>2, <1>13, <1>14, <1>15, Zenon

-----------------------------------------------------------------------------
(* Layouts *)

(* A field begins where the one before it ends. *)
LEMMA Starts ==
    ASSUME NEW layout \in Seq(Nat)
    PROVE  /\ Start(layout, 1) = 0
           /\ \A k \in 1 .. Len(layout) : Start(layout, k + 1) = Start(layout, k) + layout[k]
           /\ \A k \in 1 .. Len(layout) + 1 : Start(layout, k) \in Nat
PROOF
  <1> DEFINE n == Len(layout)
             Eq(f) == f = [i \in 0 .. n |-> IF i = 0 THEN 0 ELSE f[i - 1] + layout[i]]
             at == CHOOSE f : Eq(f)
             step == [i \in 1 .. n |-> [x \in Nat |-> x + layout[i]]]
  <1>1. n \in Nat /\ \A i \in 1 .. n : layout[i] \in Nat
    OBVIOUS
  <1>2. \A k : Start(layout, k) = at[k - 1]
    BY DEF Start
  <1> HIDE DEF n
  <1>3. step \in Steps(n, Nat)
    <2>1. ASSUME NEW i \in 1 .. n, NEW x \in Nat PROVE x + layout[i] \in Nat
      BY <1>1
    <2> QED
      BY <2>1, Zenon DEF Steps
  <1>4. PICK g \in Values(n, Nat) : Unrolls(g, n, 0, step)
    <2> HIDE DEF step
    <2> QED
      BY <1>1, <1>3, Recursive, Zenon
  <1>5. g \in [0 .. n -> Nat] /\ g[0] = 0 /\ \A i \in 1 .. n : g[i] = step[i][g[i - 1]]
    BY <1>4, Zenon DEF Values, Unrolls
  <1>6. Eq(g)
    <2>1. \A i \in 0 .. n : g[i] = IF i = 0 THEN 0 ELSE g[i - 1] + layout[i]
      <3> SUFFICES ASSUME NEW i \in 0 .. n PROVE g[i] = IF i = 0 THEN 0 ELSE g[i - 1] + layout[i]
        OBVIOUS
      <3>1. CASE i = 0
        BY <1>5, <3>1
      <3>2. CASE i # 0
        <4>1. i \in 1 .. n /\ i - 1 \in 0 .. n
          BY <1>1, <3>2
        <4>2. g[i - 1] \in Nat
          BY <1>5, <4>1
        <4> QED
          BY <1>5, <3>2, <4>1, <4>2, Zenon
      <3> QED
        BY <3>1, <3>2
    <2> QED
      BY <1>5, <2>1, Zenon
  <1>7. Eq(at)
    BY <1>6, Zenon
  <1> HIDE DEF at
  <1>8. at[0] = 0 /\ \A i \in 1 .. n : at[i] = at[i - 1] + layout[i]
    <2>1. \A i \in 0 .. n : at[i] = IF i = 0 THEN 0 ELSE at[i - 1] + layout[i]
      BY <1>7, Zenon
    <2>2. 0 \in 0 .. n /\ \A i \in 1 .. n : i \in 0 .. n /\ i # 0
      BY <1>1
    <2> QED
      BY <2>1, <2>2, Zenon
  <1>9. \A i \in 0 .. n : at[i] \in Nat
    <2>1. at[0] \in Nat
      BY <1>8
    <2>2. ASSUME NEW i \in 1 .. n, at[i - 1] \in Nat PROVE at[i] \in Nat
      <3>1. layout[i] \in Nat /\ at[i] = at[i - 1] + layout[i]
        BY <1>1, <1>8, Zenon
      <3> QED
        BY <2>2, <3>1
    <2> QED
      BY <1>1, <2>1, <2>2, Hereditary
  <1>10. Start(layout, 1) = 0
    BY <1>2, <1>8
  <1>11. ASSUME NEW k \in 1 .. n PROVE Start(layout, k + 1) = Start(layout, k) + layout[k]
    <2>1. k + 1 - 1 = k
      BY <1>1
    <2> QED
      BY <1>2, <1>8, <2>1
  <1>12. ASSUME NEW k \in 1 .. n + 1 PROVE Start(layout, k) \in Nat
    <2>1. k - 1 \in 0 .. n
      BY <1>1
    <2> QED
      BY <1>2, <1>9, <2>1
  <1> QED
    BY <1>10, <1>11, <1>12 DEF n

(* The layouts of the messages: fields of the widths that integers have. *)
Layouts == Seq(1 .. W64)

(* The values that fit into the fields. *)
Fitting(layout, values) ==
    /\ values \in Seq(Nat) /\ Len(values) = Len(layout)
    /\ \A k \in 1 .. Len(layout) : values[k] < Power[layout[k]]

(* The bytes of the values, one field after the other. *)
Holds(bytes, layout, values, n) ==
    \A j \in 1 .. n :
        /\ Start(layout, j) + layout[j] <= Start(layout, n + 1)
        /\ \A i \in 1 .. layout[j] :
              bytes[Start(layout, j) + i] = append(layout[j], values[j])[i]

(* Pack puts every field where Start says. *)
LEMMA PackedFields ==
    ASSUME NEW layout \in Layouts, NEW values, Fitting(layout, values)
    PROVE  /\ Pack(layout, values) \in Seq(Bytes)
           /\ Len(Pack(layout, values)) = SizeOf(layout)
           /\ Holds(Pack(layout, values), layout, values, Len(layout))
PROOF
  <1> DEFINE n == Len(layout)
             S == Seq(Bytes)
             Eq(f) == f = [k \in 0 .. n |->
                              IF k = 0 THEN <<>> ELSE f[k - 1] \o append(layout[k], values[k])]
             bytes == CHOOSE f : Eq(f)
             step == [k \in 1 .. n |-> [x \in S |-> x \o append(layout[k], values[k])]]
  <1>1. /\ n \in Nat /\ W64 \in Nat /\ layout \in Seq(Nat)
        /\ \A k \in 1 .. n : layout[k] \in 1 .. W64 /\ layout[k] \in 0 .. W64
    <2>1. W64 \in Nat /\ 1 .. W64 \subseteq Nat
      BY CodecsAssumption
    <2>2. layout \in Seq(Nat)
      BY <2>1, SeqMonotonic DEF Layouts
    <2> QED
      BY <2>1, <2>2 DEF Layouts
  <1>2. \A k \in 1 .. n : values[k] \in Nat
    BY DEF Fitting
  <1>3. Pack(layout, values) = bytes[n]
    BY DEF Pack
  <1>4. /\ Start(layout, 1) = 0
        /\ \A k \in 1 .. n : Start(layout, k + 1) = Start(layout, k) + layout[k]
        /\ \A k \in 1 .. n + 1 : Start(layout, k) \in Nat
    BY <1>1, Starts
  <1> HIDE DEF n
  <1>5. \A k \in 1 .. n : /\ append(layout[k], values[k]) \in S
                          /\ Len(append(layout[k], values[k])) = layout[k]
    BY <1>1, <1>2, AppendType
  <1>6. step \in Steps(n, S)
    <2>1. ASSUME NEW k \in 1 .. n, NEW x \in S PROVE x \o append(layout[k], values[k]) \in S
      BY <1>5, ConcatProperties
    <2> QED
      BY <2>1, Zenon DEF Steps
  <1>7. <<>> \in S
    OBVIOUS
  <1>8. PICK g \in Values(n, S) : Unrolls(g, n, <<>>, step)
    <2> HIDE DEF step, S
    <2> QED
      BY <1>1, <1>6, <1>7, Recursive, Zenon
  <1>9. g \in [0 .. n -> S] /\ g[0] = <<>> /\ \A k \in 1 .. n : g[k] = step[k][g[k - 1]]
    BY <1>8, Zenon DEF Values, Unrolls
  <1>10. Eq(g)
    <2>1. \A k \in 0 .. n : g[k] = IF k = 0 THEN <<>> ELSE g[k - 1] \o append(layout[k], values[k])
      <3> SUFFICES ASSUME NEW k \in 0 .. n
                   PROVE  g[k] = IF k = 0 THEN <<>> ELSE g[k - 1] \o append(layout[k], values[k])
        OBVIOUS
      <3>1. CASE k = 0
        BY <1>9, <3>1
      <3>2. CASE k # 0
        <4>1. k \in 1 .. n /\ k - 1 \in 0 .. n
          BY <1>1, <3>2
        <4>2. g[k - 1] \in S
          BY <1>9, <4>1
        <4> QED
          BY <1>9, <3>2, <4>1, <4>2, Zenon
      <3> QED
        BY <3>1, <3>2
    <2> QED
      BY <1>9, <2>1, Zenon
  <1>11. Eq(bytes)
    BY <1>10, Zenon
  <1> HIDE DEF bytes
  <1>12. bytes[0] = <<>> /\ \A k \in 1 .. n : bytes[k] = bytes[k - 1] \o append(layout[k], values[k])
    <2>1. \A k \in 0 .. n : bytes[k] = IF k = 0 THEN <<>> ELSE bytes[k - 1] \o append(layout[k], values[k])
      BY <1>11, Zenon
    <2>2. 0 \in 0 .. n /\ \A k \in 1 .. n : k \in 0 .. n /\ k # 0
      BY <1>1
    <2> QED
      BY <2>1, <2>2, Zenon
  <1> DEFINE Good(k) == /\ bytes[k] \in S
                        /\ Len(bytes[k]) = Start(layout, k + 1)
                        /\ Holds(bytes[k], layout, values, k)
             T == {k \in 0 .. n : Good(k)}
  <1>13. 0 \in T
    <2>1. Len(<<>>) = 0 /\ Start(layout, 0 + 1) = 0
      BY <1>4
    <2>2. Holds(bytes[0], layout, values, 0)
      BY DEF Holds
    <2>3. Good(0)
      BY <1>7, <1>12, <2>1, <2>2, Zenon
    <2>4. 0 \in 0 .. n
      BY <1>1
    <2> QED
      BY <2>3, <2>4, Zenon
  <1>14. ASSUME NEW k \in 1 .. n, k - 1 \in T PROVE k \in T
    <2>1. PICK a \in S : a = bytes[k - 1]
      BY <1>14
    <2>2. PICK b \in S : b = append(layout[k], values[k]) /\ Len(b) = layout[k]
      BY <1>5
    <2>3. PICK s \in Nat : s = Start(layout, k)
      <3>1. k \in 1 .. n + 1
        BY <1>1
      <3> QED
        BY <1>4, <3>1
    <2>4. Len(a) = s /\ Holds(a, layout, values, k - 1)
      <3>1. k - 1 + 1 = k
        BY <1>1
      <3> QED
        BY <1>14, <2>1, <2>3, <3>1
    <2>5. bytes[k] = a \o b
      BY <1>12, <2>1, <2>2
    <2>6. Start(layout, k + 1) = s + layout[k] /\ layout[k] \in Nat
      BY <1>1, <1>4, <2>3
    <2>7. /\ a \o b \in S /\ Len(a \o b) = s + layout[k]
          /\ \A i \in 1 .. s + layout[k] : (a \o b)[i] = IF i <= s THEN a[i] ELSE b[i - s]
      <3>1. /\ a \o b \in S /\ Len(a \o b) = Len(a) + Len(b)
            /\ \A i \in 1 .. Len(a) + Len(b) : (a \o b)[i] = IF i <= Len(a) THEN a[i] ELSE b[i - Len(a)]
        BY ConcatProperties
      <3> QED
        BY <2>2, <2>4, <3>1
    <2>8. ASSUME NEW j \in 1 .. k
          PROVE  /\ Start(layout, j) + layout[j] <= s + layout[k]
                 /\ \A i \in 1 .. layout[j] :
                       (a \o b)[Start(layout, j) + i] = append(layout[j], values[j])[i]
      <3>0. PICK u \in Nat, l \in Nat : u = Start(layout, j) /\ l = layout[j]
        <4>1. j \in 1 .. n /\ j \in 1 .. n + 1
          BY <1>1
        <4>2. Start(layout, j) \in Nat /\ layout[j] \in Nat
          BY <1>1, <1>4, <4>1
        <4> QED
          BY <4>2
      <3>1. CASE j = k
        <4>1. u = s /\ l = layout[k]
          BY <2>3, <3>0, <3>1
        <4>2. ASSUME NEW i \in 1 .. l PROVE (a \o b)[u + i] = b[i]
          <5>1. PICK x \in 1 .. s + layout[k] : x = u + i /\ ~(x <= s) /\ x - s = i
            BY <4>1
          <5>2. (a \o b)[x] = IF x <= s THEN a[x] ELSE b[x - s]
            BY <2>7, Zenon
          <5> QED
            BY <5>1, <5>2, Zenon
        <4>3. u + l <= s + layout[k]
          BY <2>6, <4>1
        <4>4. b = append(layout[j], values[j])
          BY <2>2, <3>1
        <4> QED
          BY <3>0, <4>2, <4>3, <4>4
      <3>2. CASE j # k
        <4>1. j \in 1 .. k - 1 /\ k - 1 + 1 = k
          BY <1>1, <3>2
        <4>2. /\ u + l <= s
              /\ \A i \in 1 .. l : a[u + i] = append(layout[j], values[j])[i]
          BY <2>3, <2>4, <3>0, <4>1 DEF Holds
        <4>3. ASSUME NEW i \in 1 .. l PROVE (a \o b)[u + i] = a[u + i]
          <5>1. u + i \in 1 .. s + layout[k] /\ u + i <= s
            BY <2>6, <4>2
          <5> QED
            BY <2>7, <5>1
        <4>4. u + l <= s + layout[k]
          BY <2>6, <4>2
        <4> QED
          BY <3>0, <4>2, <4>3, <4>4
      <3> QED
        BY <3>1, <3>2
    <2>9. Holds(a \o b, layout, values, k)
      BY <2>6, <2>8 DEF Holds
    <2>10. Good(k)
      BY <2>5, <2>6, <2>7, <2>9, Zenon
    <2>11. k \in 0 .. n
      BY <1>1
    <2> QED
      BY <2>10, <2>11, Zenon
  <1> HIDE DEF T
  <1>15. n \in T
    <2>1. \A k \in 0 .. n : k \in T
      BY <1>1, <1>13, <1>14, UpTo
    <2> QED
      BY <1>1, <2>1
  <1>16. Good(n)
    BY <1>15 DEF T
  <1> QED
    BY <1>3, <1>16 DEF SizeOf, n

(* Unpack reads what Pack has written, whatever lies behind it. *)
LEMMA Unpacked ==
    ASSUME NEW layout \in Layouts, NEW values, Fitting(layout, values), NEW input,
           \A i \in 1 .. SizeOf(layout) : input[i] = Pack(layout, values)[i]
    PROVE  /\ \A j \in 1 .. Len(layout) : read(layout[j], input, Start(layout, j)) = values[j]
           /\ Unpack(layout, input) = values
PROOF
  <1>1. /\ W64 \in Nat /\ layout \in Seq(Nat) /\ Len(layout) \in Nat
        /\ \A k \in 1 .. Len(layout) : layout[k] \in 0 .. W64 /\ layout[k] \in Nat
    <2>1. W64 \in Nat /\ 1 .. W64 \subseteq Nat
      BY CodecsAssumption
    <2>2. layout \in Seq(Nat)
      BY <2>1, SeqMonotonic DEF Layouts
    <2> QED
      BY <2>1, <2>2 DEF Layouts
  <1>2. Holds(Pack(layout, values), layout, values, Len(layout))
    BY PackedFields
  <1>3. SizeOf(layout) = Start(layout, Len(layout) + 1)
    BY DEF SizeOf
  <1>4. /\ SizeOf(layout) \in Nat
        /\ \A k \in 1 .. Len(layout) + 1 : Start(layout, k) \in Nat
    BY <1>1, <1>3, Starts
  <1>5. ASSUME NEW j \in 1 .. Len(layout)
        PROVE  read(layout[j], input, Start(layout, j)) = values[j]
    <2>1. PICK s \in Nat : s = Start(layout, j)
      <3>1. j \in 1 .. Len(layout) + 1
        BY <1>1
      <3> QED
        BY <1>4, <3>1
    <2>2. PICK w \in 0 .. W64 : w = layout[j]
      BY <1>1
    <2>3. PICK v \in Nat : v = values[j] /\ v < Power[w]
      BY <2>2 DEF Fitting
    <2>4. v \in 0 .. Power[w] - 1
      <3>1. Power[w] \in Nat
        BY Powers
      <3> QED
        BY <2>3, <3>1
    <2>5. ASSUME NEW i \in 1 .. w PROVE input[s + i] = append(w, v)[i]
      <3>1. /\ s + w <= SizeOf(layout)
            /\ Pack(layout, values)[s + i] = append(w, v)[i]
        BY <1>2, <1>3, <2>1, <2>2, <2>3 DEF Holds
      <3>2. s + i \in 1 .. SizeOf(layout)
        BY <1>1, <1>4, <3>1
      <3> QED
        BY <3>1, <3>2
    <2>6. read(w, input, s) = v
      BY <2>4, <2>5, ReadBack, ZenonT(60)
    <2> QED
      BY <2>1, <2>2, <2>3, <2>6
  <1>6. Unpack(layout, input) = values
    <2>1. Unpack(layout, input) = [k \in 1 .. Len(layout) |-> values[k]]
      BY <1>5 DEF Unpack
    <2>2. values = [k \in 1 .. Len(layout) |-> values[k]]
      BY DEF Fitting
    <2> QED
      BY <2>1, <2>2
  <1> QED
    BY <1>5, <1>6

(* A message that is its packed fields and what follows them. *)
Framed(input, layout, values, rest) ==
    /\ input \in Seq(Bytes)
    /\ SizeOf(layout) \in Nat
    /\ Len(input) = SizeOf(layout) + Len(rest)
    /\ \A i \in 1 .. SizeOf(layout) : input[i] = Pack(layout, values)[i]
    /\ After(layout, input) = rest

LEMMA PackedThen ==
    ASSUME NEW layout \in Layouts, NEW values, Fitting(layout, values), NEW rest \in Seq(Bytes)
    PROVE  Framed(Pack(layout, values) \o rest, layout, values, rest)
PROOF
  <1> DEFINE front == Pack(layout, values)
             n == SizeOf(layout)
             input == front \o rest
  <1>1. front \in Seq(Bytes) /\ Len(front) = n
    BY PackedFields
  <1>2. input = front \o rest
    OBVIOUS
  <1> HIDE DEF front, n, input
  <1>3. n \in Nat /\ Len(rest) \in Nat
    BY <1>1
  <1>4. /\ input \in Seq(Bytes) /\ Len(input) = n + Len(rest)
        /\ \A i \in 1 .. n + Len(rest) : input[i] = IF i <= n THEN front[i] ELSE rest[i - n]
    <2>1. /\ front \o rest \in Seq(Bytes) /\ Len(front \o rest) = Len(front) + Len(rest)
          /\ \A i \in 1 .. Len(front) + Len(rest) :
                (front \o rest)[i] = IF i <= Len(front) THEN front[i] ELSE rest[i - Len(front)]
      BY <1>1, ConcatProperties
    <2> QED
      BY <1>1, <1>2, <2>1
  <1>5. \A i \in 1 .. n : input[i] = front[i]
    BY <1>3, <1>4
  <1>6. SubSeq(input, n + 1, Len(input)) = rest
    <2>1. PICK t : t = SubSeq(input, n + 1, Len(input))
      OBVIOUS
    <2>a. PICK a \in Int, b \in Int : a = n + 1 /\ b = Len(input)
      BY <1>3, <1>4
    <2>2. \A i \in a .. b : input[i] \in Bytes
      BY <1>3, <1>4, <2>a
    <2>b. /\ SubSeq(input, a, b) \in Seq(Bytes)
          /\ Len(SubSeq(input, a, b)) = IF a <= b THEN b - a + 1 ELSE 0
          /\ \A i \in 1 .. b - a + 1 : SubSeq(input, a, b)[i] = input[a + i - 1]
      <3>1. input \in Seq(Bytes) /\ 1 <= a /\ b <= Len(input)
        BY <1>3, <1>4, <2>a
      <3> QED
        BY <2>2, <3>1
    <2>3. /\ t \in Seq(Bytes)
          /\ Len(t) = IF n + 1 <= Len(input) THEN Len(input) - (n + 1) + 1 ELSE 0
          /\ \A i \in 1 .. Len(input) - (n + 1) + 1 : t[i] = input[n + 1 + i - 1]
      BY <2>1, <2>a, <2>b
    <2>4. Len(t) = Len(rest)
      BY <1>3, <1>4, <2>3
    <2>5. ASSUME NEW i \in 1 .. Len(t) PROVE t[i] = rest[i]
      <3>1. i \in 1 .. Len(input) - (n + 1) + 1 /\ n + 1 + i - 1 = n + i /\ n + i - n = i
        BY <1>3, <1>4, <2>4
      <3>2. n + i \in 1 .. n + Len(rest) /\ ~(n + i <= n)
        BY <1>3, <2>4
      <3>3. t[i] = input[n + i]
        BY <2>3, <3>1
      <3>4. input[n + i] = rest[i]
        <4>1. PICK j \in 1 .. n + Len(rest) : j = n + i
          BY <3>2
        <4>2. ~(j <= n) /\ j - n = i
          BY <1>3, <2>4, <3>2, <4>1
        <4>3. input[j] = IF j <= n THEN front[j] ELSE rest[j - n]
          BY <1>4
        <4> QED
          BY <4>1, <4>2, <4>3, Zenon
      <3> QED
        BY <3>3, <3>4
    <2> QED
      BY <2>1, <2>3, <2>4, <2>5, SeqEqual
  <1> QED
    BY <1>3, <1>4, <1>5, <1>6 DEF front, n, input, After, Framed

-----------------------------------------------------------------------------
(* Messages *)

(* The widths, and the layouts made of them. *)
LEMMA Widths ==
    /\ W16 \in 1 .. W64 /\ W32 \in 1 .. W64 /\ W64 \in 1 .. W64
    /\ W16 \in 0 .. W64 /\ W32 \in 0 .. W64 /\ W64 \in 0 .. W64
    /\ W16 \in Nat /\ W32 \in Nat /\ W64 \in Nat
  BY CodecsAssumption

LEMMA LayoutTypes ==
    /\ ManifestLayout \in Layouts /\ Len(ManifestLayout) = 8
    /\ RequestLayout \in Layouts /\ Len(RequestLayout) = 4
    /\ HeaderLayout \in Layouts /\ Len(HeaderLayout) = 5
    /\ HashLayout \in Layouts /\ Len(HashLayout) = 2
  BY Widths DEF Layouts, ManifestLayout, RequestLayout, HeaderLayout, HashLayout

(* The magic numbers fit into their fields. *)
LEMMA MagicsFit ==
    /\ Power[W16] \in Nat \ {0} /\ Power[W32] \in Nat \ {0} /\ Power[W64] \in Nat \ {0}
    /\ kManifestMagic < Power[W32] /\ kContinueRequestMagic < Power[W32]
    /\ kChunkHeaderMagic < Power[W32] /\ kHashPacketMagic < Power[W32]
    /\ SizeOf(ManifestLayout) \in Nat
    /\ 2 * Power[W32] <= Power[W64]
PROOF
  <1> DEFINE L == ManifestLayout
  <1>1. Power[W16] \in Nat \ {0} /\ Power[W32] \in Nat \ {0} /\ Power[W64] \in Nat \ {0}
    BY Widths, Powers
  <1>2. L \in Seq(Nat) /\ Len(L) = 8
    BY Widths DEF ManifestLayout
  <1>3. \A k \in 1 .. 8 : L[k] \in Nat \ {0}
    BY Widths DEF ManifestLayout
  <1> HIDE DEF L
  <1>4. /\ Start(L, 1) = 0
        /\ \A k \in 1 .. 8 : Start(L, k + 1) = Start(L, k) + L[k]
    BY <1>2, Starts
  <1>5. \A k \in 1 .. 8 : Start(L, k) \in Nat => Start(L, k + 1) \in Nat /\ Start(L, k + 1) > Start(L, k)
    BY <1>3, <1>4
  <1>6. Start(L, 5) \in Nat /\ Start(L, 5) >= 4
    BY <1>4, <1>5
  <1>7. Start(L, 9) \in Nat /\ Start(L, 9) >= 8
    BY <1>5, <1>6
  <1>8. SizeOf(L) \in Nat /\ SizeOf(L) >= 8
    BY <1>2, <1>7 DEF SizeOf
  <1>9. 8 < Power[W32]
    BY <1>1, <1>8, ManifestAssumption, LimitsAssumption DEF L
  <1>10. 2 * Power[W32] <= Power[W64]
    <2>1. Base * Power[W32] <= Power[W64]
      BY Widths, WiderHasMore, CodecsAssumption
    <2>2. PICK p \in Nat : p = Power[W32]
      BY <1>1
    <2>3. PICK b \in Nat : Base = b + 2
      <3>1. Base - 2 \in Nat /\ Base = Base - 2 + 2
        BY CodecsAssumption
      <3> QED
        BY <3>1
    <2>4. Base * p = b * p + 2 * p /\ b * p \in Nat
      BY <2>3, SMT
    <2> QED
      BY <1>1, <2>1, <2>2, <2>4
  <1> QED
    BY <1>1, <1>8, <1>9, <1>10
    DEF L, kManifestMagic, kContinueRequestMagic, kChunkHeaderMagic, kHashPacketMagic

(* The manifests that the sender writes. *)
FittingManifests ==
    {m \in [filename : Seq(Bytes), file_size : Nat, chunk_size : Nat \ {0}, chunk_count : Nat,
            protocol_version : {kProtocolVersion}, session_id : Nat] :
        /\ Len(m.filename) \in 1 .. kMaxFilenameLength
        /\ m.file_size < Power[W64] /\ m.chunk_size < Power[W32]
        /\ m.chunk_count < Power[W64] /\ m.session_id < Power[W64]
        /\ m.chunk_count = U64(m.file_size + m.chunk_size - 1) \div m.chunk_size}

ManifestFields(m) ==
    <<kManifestMagic, m.protocol_version, Len(m.filename), m.file_size,
      m.chunk_size, m.chunk_count, m.session_id, 0>>

(* What a manifest is on the wire: a size, and as many bytes. *)
LEMMA ManifestBytes ==
    ASSUME NEW m \in FittingManifests
    PROVE  LET payload == Pack(ManifestLayout, ManifestFields(m)) \o m.filename
           IN  /\ Fitting(ManifestLayout, ManifestFields(m))
               /\ payload \in Seq(Bytes)
               /\ Len(payload) = SizeOf(ManifestLayout) + Len(m.filename)
               /\ Len(payload) \in 0 .. Power[W32] - 1
               /\ acceptable_payload_size(Len(payload))
               /\ serialize_file_manifest(m) = append(W32, Len(payload)) \o payload
PROOF
  <1> DEFINE v == ManifestFields(m)
             L == ManifestLayout
             payload == Pack(L, v) \o m.filename
  <1>1. /\ m.filename \in Seq(Bytes) /\ Len(m.filename) \in Nat
        /\ m.protocol_version = kProtocolVersion
        /\ Len(m.filename) <= kMaxFilenameLength /\ Len(m.filename) >= 1
        /\ m.file_size \in Nat /\ m.chunk_size \in Nat /\ m.chunk_count \in Nat /\ m.session_id \in Nat
        /\ m.file_size < Power[W64] /\ m.chunk_size < Power[W32]
        /\ m.chunk_count < Power[W64] /\ m.session_id < Power[W64]
    BY LimitsAssumption DEF FittingManifests
  <1>2. /\ kProtocolVersion \in Nat /\ kProtocolVersion < Power[W16]
        /\ kMaxFilenameLength \in Nat /\ kMaxFilenameLength < Power[W16]
        /\ Power[W16] \in Nat \ {0}
    BY MagicsFit, LimitsAssumption
  <1>3. Fitting(L, v)
    <2>1. v \in Seq(Nat) /\ Len(v) = 8 /\ Len(L) = 8
      BY <1>1, <1>2 DEF ManifestFields, kManifestMagic, ManifestLayout
    <2>2. Len(m.filename) < Power[W16]
      BY <1>1, <1>2
    <2>3. ASSUME NEW k \in 1 .. 8 PROVE v[k] < Power[L[k]]
      <3>1. /\ v[1] < Power[L[1]] /\ v[2] < Power[L[2]] /\ v[3] < Power[L[3]] /\ v[4] < Power[L[4]]
            /\ v[5] < Power[L[5]] /\ v[6] < Power[L[6]] /\ v[7] < Power[L[7]] /\ v[8] < Power[L[8]]
        BY <1>1, <1>2, <2>2, MagicsFit DEF ManifestFields, ManifestLayout
      <3>2. k \in {1, 2, 3, 4, 5, 6, 7, 8}
        OBVIOUS
      <3> HIDE DEF v, L
      <3> QED
        BY <3>1, <3>2
    <2> HIDE DEF v, L
    <2> QED
      BY <2>1, <2>3 DEF Fitting
  <1> HIDE DEF v
  <1>4. /\ payload \in Seq(Bytes) /\ SizeOf(L) \in Nat
        /\ Len(payload) = SizeOf(L) + Len(m.filename)
    <2>1. Framed(payload, L, v, m.filename)
      BY <1>1, <1>3, LayoutTypes, PackedThen
    <2> QED
      BY <2>1 DEF Framed
  <1>5. Len(payload) \in 0 .. Power[W32] - 1 /\ acceptable_payload_size(Len(payload))
    <2>1. PICK z \in Nat, f \in Nat, k \in Nat, p \in Nat :
             z = SizeOf(L) /\ f = Len(m.filename) /\ k = kMaxFilenameLength /\ p = Power[W32]
      BY <1>1, <1>2, <1>4, MagicsFit
    <2>2. z + k < p /\ f <= k
      BY <1>1, <2>1, ManifestAssumption
    <2>3. Len(payload) = z + f
      BY <1>4, <2>1
    <2>4. z + f \in 0 .. p - 1 /\ z <= z + f /\ z + f <= z + k
      BY <2>2
    <2> HIDE DEF payload
    <2> QED
      BY <2>1, <2>3, <2>4 DEF acceptable_payload_size
  <1>6. ~(Len(m.filename) > kMaxFilenameLength)
    BY <1>1, <1>2
  <1>7. serialize_file_manifest(m) = append(W32, Len(payload)) \o payload
    BY <1>6 DEF serialize_file_manifest, v, ManifestFields
  <1> QED
    BY <1>3, <1>4, <1>5, <1>7 DEF v

(* What follows a sequence. *)
LEMMA RestOf ==
    ASSUME NEW front \in Seq(Bytes), NEW rest \in Seq(Bytes)
    PROVE  /\ front \o rest \in Seq(Bytes)
           /\ Len(front \o rest) = Len(front) + Len(rest)
           /\ \A i \in 1 .. Len(front) : (front \o rest)[i] = front[i]
           /\ SubSeq(front \o rest, 1, Len(front)) = front
           /\ SubSeq(front \o rest, Len(front) + 1, Len(front \o rest)) = rest
PROOF
  <1>1. /\ front \o rest \in Seq(Bytes) /\ Len(front \o rest) = Len(front) + Len(rest)
        /\ Len(front) \in Nat /\ Len(rest) \in Nat
    OBVIOUS
  <1>2. \A i \in 1 .. Len(front) : (front \o rest)[i] = front[i]
    OBVIOUS
  <1>3. SubSeq(front \o rest, 1, Len(front)) = front
    OBVIOUS
  <1>4. SubSeq(front \o rest, Len(front) + 1, Len(front \o rest)) = rest
    OBVIOUS
  <1> QED
    BY <1>1, <1>2, <1>3, <1>4

(* The size in front of a manifest. *)
LEMMA SizedFrame ==
    ASSUME NEW payload \in Seq(Bytes), Len(payload) \in 0 .. Power[W32] - 1
    PROVE  LET frame == append(W32, Len(payload)) \o payload
           IN  /\ frame \in Seq(Bytes) /\ Len(frame) = W32 + Len(payload)
               /\ SubSeq(frame, W32 + 1, Len(frame)) = payload
               /\ \A input : (\A i \in 1 .. W32 : input[i] = frame[i])
                                => read(W32, input, 0) = Len(payload)
PROOF
  <1> DEFINE n == Len(payload)
             front == append(W32, n)
             frame == front \o payload
  <1>1. W32 \in 0 .. W64 /\ W32 \in Nat /\ n \in Nat
    BY Widths
  <1>2. front \in Seq(Bytes) /\ Len(front) = W32
    BY <1>1, AppendType
  <1> HIDE DEF front
  <1>3. /\ frame \in Seq(Bytes) /\ Len(frame) = W32 + n
        /\ \A i \in 1 .. W32 : frame[i] = front[i]
        /\ SubSeq(frame, W32 + 1, Len(frame)) = payload
    BY <1>2, RestOf
  <1> HIDE DEF frame
  <1>4. ASSUME NEW input, \A i \in 1 .. W32 : input[i] = frame[i] PROVE read(W32, input, 0) = n
    <2>1. ASSUME NEW i \in 1 .. W32 PROVE input[0 + i] = append(W32, n)[i]
      <3>1. 0 + i = i
        BY <1>1
      <3> QED
        BY <1>3, <1>4, <3>1 DEF front
    <2>2. n \in 0 .. Power[W32] - 1
      OBVIOUS
    <2> HIDE DEF n
    <2> QED
      BY <1>1, <2>1, <2>2, ReadBack
  <1> QED
    BY <1>3, <1>4 DEF front, frame

(* A manifest is read as it was written. *)
LEMMA ManifestTrip ==
    ASSUME NEW m \in FittingManifests
    PROVE  deserialize_file_manifest(serialize_file_manifest(m)) = m
PROOF
  <1> DEFINE v == ManifestFields(m)
             L == ManifestLayout
             payload == Pack(L, v) \o m.filename
             frame == append(W32, Len(payload)) \o payload
             field == Unpack(L, payload)
  <1>1. /\ Fitting(L, v) /\ payload \in Seq(Bytes)
        /\ Len(payload) = SizeOf(L) + Len(m.filename)
        /\ Len(payload) \in 0 .. Power[W32] - 1
        /\ acceptable_payload_size(Len(payload))
        /\ serialize_file_manifest(m) = frame
    BY ManifestBytes
  <1>2. m.filename \in Seq(Bytes)
    BY DEF FittingManifests
  <1>3. Framed(payload, L, v, m.filename)
    BY <1>1, <1>2, LayoutTypes, PackedThen
  <1>4. field = v
    <2>1. L \in Layouts /\ \A i \in 1 .. SizeOf(L) : payload[i] = Pack(L, v)[i]
      BY <1>3, LayoutTypes DEF Framed
    <2> HIDE DEF L, v, payload
    <2> QED
      BY <1>1, <2>1, Unpacked
  <1>5. After(L, payload) = m.filename
    BY <1>3 DEF Framed
  <1> HIDE DEF payload, v
  <1>6. /\ frame \in Seq(Bytes) /\ Len(frame) = W32 + Len(payload)
        /\ SubSeq(frame, W32 + 1, Len(frame)) = payload
        /\ read(W32, frame, 0) = Len(payload)
    BY <1>1, SizedFrame
  <1> HIDE DEF frame
  <1>7. /\ field[1] = kManifestMagic /\ field[2] = m.protocol_version
        /\ field[3] = Len(m.filename) /\ field[4] = m.file_size /\ field[5] = m.chunk_size
        /\ field[6] = m.chunk_count /\ field[7] = m.session_id
    BY <1>4 DEF v, ManifestFields
  <1> HIDE DEF field
  <1>8. /\ m \in [filename : Seq(Bytes), file_size : Nat, chunk_size : Nat \ {0}, chunk_count : Nat,
                  protocol_version : {kProtocolVersion}, session_id : Nat]
        /\ m.protocol_version = kProtocolVersion /\ m.chunk_size # 0
        /\ Len(m.filename) \in 1 .. kMaxFilenameLength
        /\ m.chunk_count = U64(m.file_size + m.chunk_size - 1) \div m.chunk_size
    BY DEF FittingManifests
  <1>9. W32 \in Nat /\ Len(frame) >= W32
    BY <1>1, <1>6, Widths
  <1>10. deserialize_file_manifest(frame)
         = [filename |-> After(L, payload), file_size |-> field[4],
            chunk_size |-> field[5], chunk_count |-> field[6],
            protocol_version |-> field[2], session_id |-> field[7]]
    <2>1. SizeOf(L) + field[3] = Len(payload)
      BY <1>1, <1>7
    <2>2. field[6] = U64(field[4] + field[5] - 1) \div field[5]
      BY <1>7, <1>8, Zenon
    <2> HIDE DEF L
    <2> QED
      BY <1>1, <1>6, <1>7, <1>8, <1>9, <2>1, <2>2, Zenon DEF deserialize_file_manifest, field, L
  <1> QED
    BY <1>1, <1>5, <1>7, <1>8, <1>10

(* The headers that the sender writes. *)
FittingHeaders ==
    {h \in [session_id : Nat, chunk_index : Nat, byte_offset : Nat, payload_size : Nat] :
        /\ h.session_id < Power[W64] /\ h.chunk_index < Power[W64]
        /\ h.byte_offset < Power[W64] /\ h.payload_size < Power[W32]}

(* A header is read as it was written. *)
LEMMA HeaderTrip ==
    ASSUME NEW h \in FittingHeaders
    PROVE  /\ serialize_chunk_header(h) \in Seq(Bytes)
           /\ Len(serialize_chunk_header(h)) = SizeOf(HeaderLayout)
           /\ deserialize_chunk_header(serialize_chunk_header(h)) = h
PROOF
  <1> DEFINE L == HeaderLayout
             v == <<kChunkHeaderMagic, h.session_id, h.chunk_index, h.byte_offset, h.payload_size>>
             bytes == Pack(L, v)
             field == Unpack(L, bytes)
  <1>1. /\ h \in [session_id : Nat, chunk_index : Nat, byte_offset : Nat, payload_size : Nat]
        /\ h.session_id < Power[W64] /\ h.chunk_index < Power[W64]
        /\ h.byte_offset < Power[W64] /\ h.payload_size < Power[W32]
    BY DEF FittingHeaders
  <1>2. Fitting(L, v)
    <2>1. v \in Seq(Nat) /\ Len(v) = 5 /\ Len(L) = 5
      BY <1>1 DEF kChunkHeaderMagic, HeaderLayout
    <2>2. ASSUME NEW k \in 1 .. 5 PROVE v[k] < Power[L[k]]
      <3>1. /\ v[1] < Power[L[1]] /\ v[2] < Power[L[2]] /\ v[3] < Power[L[3]] /\ v[4] < Power[L[4]]
            /\ v[5] < Power[L[5]]
        BY <1>1, MagicsFit DEF HeaderLayout
      <3>2. k \in {1, 2, 3, 4, 5}
        OBVIOUS
      <3> HIDE DEF v, L
      <3> QED
        BY <3>1, <3>2
    <2> HIDE DEF v, L
    <2> QED
      BY <2>1, <2>2 DEF Fitting
  <1>3. L \in Layouts
    BY LayoutTypes
  <1>4. serialize_chunk_header(h) = bytes
    BY DEF serialize_chunk_header
  <1>5. /\ field[1] = kChunkHeaderMagic /\ field[2] = h.session_id /\ field[3] = h.chunk_index
        /\ field[4] = h.byte_offset /\ field[5] = h.payload_size
    <2>1. field = v
      <3> HIDE DEF L, v
      <3> QED
        BY <1>2, <1>3, Unpacked
    <2> HIDE DEF field
    <2> QED
      BY <2>1
  <1>6. bytes \in Seq(Bytes) /\ Len(bytes) = SizeOf(L)
    <2> HIDE DEF L, v
    <2> QED
      BY <1>2, <1>3, PackedFields
  <1>7. deserialize_chunk_header(bytes)
        = [session_id |-> field[2], chunk_index |-> field[3],
           byte_offset |-> field[4], payload_size |-> field[5]]
    <2> HIDE DEF bytes
    <2> QED
      BY <1>5, <1>6 DEF deserialize_chunk_header
  <1> HIDE DEF field, bytes
  <1> QED
    BY <1>1, <1>4, <1>5, <1>6, <1>7

(* A layout of n 64-bit numbers. *)
LEMMA Repeated ==
    ASSUME NEW n \in Nat
    PROVE  LET L == [k \in 1 .. n |-> W64]
           IN  L \in Layouts /\ Len(L) = n /\ SizeOf(L) = n * W64
PROOF
  <1> DEFINE L == [k \in 1 .. n |-> W64]
  <1>1. W64 \in Nat /\ W64 \in 1 .. W64
    BY Widths
  <1>2. L \in Layouts /\ L \in Seq(Nat) /\ Len(L) = n /\ \A k \in 1 .. n : L[k] = W64
    BY <1>1 DEF Layouts
  <1> HIDE DEF L
  <1>3. Start(L, 1) = 0 /\ \A k \in 1 .. n : Start(L, k + 1) = Start(L, k) + W64
    <2>1. Start(L, 1) = 0 /\ \A k \in 1 .. Len(L) : Start(L, k + 1) = Start(L, k) + L[k]
      BY <1>2, Starts
    <2> QED
      BY <1>2, <2>1
  <1> DEFINE T == {i \in 0 .. n : Start(L, i + 1) = i * W64}
  <1>4. 0 \in T
    BY <1>1, <1>3
  <1>5. ASSUME NEW i \in 1 .. n, i - 1 \in T PROVE i \in T
    <2>1. i - 1 + 1 = i /\ Start(L, i) = (i - 1) * W64
      BY <1>5
    <2>2. Start(L, i + 1) = (i - 1) * W64 + W64
      BY <1>3, <2>1
    <2>3. (i - 1) * W64 + W64 = i * W64
      BY <1>1, SMT
    <2> QED
      BY <2>2, <2>3
  <1>6. \A i \in 0 .. n : i \in T
    <2> HIDE DEF T
    <2> QED
      BY <1>4, <1>5, UpTo
  <1>7. Start(L, n + 1) = n * W64
    BY <1>6
  <1> QED
    BY <1>2, <1>7 DEF L, SizeOf

(* The requests that the receiver writes. *)
FittingRequests ==
    {r \in ContinueRequest :
        /\ r.session_id < Power[W64] /\ r.total_chunks < Power[W64]
        /\ Len(r.missing) <= kMaxChunkIndexes
        /\ \A k \in 1 .. Len(r.missing) : r.missing[k] < Power[W64]}

(* A request is read as it was written. *)
LEMMA RequestTrip ==
    ASSUME NEW r \in FittingRequests
    PROVE  LET s == serialize_continue_request(r)
           IN  /\ s \in Seq(Bytes) /\ SizeOf(RequestLayout) \in Nat
               /\ Len(s) = SizeOf(RequestLayout) + Len(r.missing) * W64
               /\ deserialize_continue_request(s) = r
               /\ \A input : (\A i \in 1 .. SizeOf(RequestLayout) : input[i] = s[i])
                                => read(W64, input, Start(RequestLayout, 4)) = Len(r.missing)
PROOF
  <1> DEFINE L == RequestLayout
             n == Len(r.missing)
             M == [k \in 1 .. n |-> W64]
             v == <<kContinueRequestMagic, r.session_id, r.total_chunks, n>>
             rest == Pack(M, r.missing)
             s == Pack(L, v) \o rest
             field == Unpack(L, s)
  <1>1. /\ r \in ContinueRequest /\ r.missing \in Seq(Nat) /\ n \in Nat
        /\ r.session_id \in Nat /\ r.total_chunks \in Nat
        /\ r.session_id < Power[W64] /\ r.total_chunks < Power[W64]
        /\ n <= kMaxChunkIndexes /\ kMaxChunkIndexes < Power[W64]
        /\ kMaxChunkIndexes \in Nat
        /\ \A k \in 1 .. n : r.missing[k] < Power[W64]
    <2>1. kMaxChunkIndexes \in Nat /\ kMaxChunkIndexes < Power[W64]
      BY LimitsAssumption, MagicsFit
    <2>2. /\ r \in ContinueRequest /\ r.session_id < Power[W64] /\ r.total_chunks < Power[W64]
          /\ n <= kMaxChunkIndexes /\ \A k \in 1 .. n : r.missing[k] < Power[W64]
      BY Zenon DEF FittingRequests
    <2>3. r.missing \in Seq(Nat) /\ n \in Nat /\ r.session_id \in Nat /\ r.total_chunks \in Nat
      BY <2>2 DEF ContinueRequest
    <2> QED
      BY <2>1, <2>2, <2>3, Zenon
  <1>2. Fitting(L, v)
    <2>1. v \in Seq(Nat) /\ Len(v) = 4 /\ Len(L) = 4
      BY <1>1 DEF kContinueRequestMagic, RequestLayout
    <2>0. n < Power[W64]
      BY <1>1, MagicsFit
    <2>2. ASSUME NEW k \in 1 .. 4 PROVE v[k] < Power[L[k]]
      <3>1. v[1] < Power[L[1]] /\ v[2] < Power[L[2]] /\ v[3] < Power[L[3]] /\ v[4] < Power[L[4]]
        BY <1>1, <2>0, MagicsFit DEF RequestLayout
      <3>2. k \in {1, 2, 3, 4}
        OBVIOUS
      <3> HIDE DEF v, L
      <3> QED
        BY <3>1, <3>2
    <2> HIDE DEF v, L
    <2> QED
      BY <2>1, <2>2 DEF Fitting
  <1>3. M \in Layouts /\ Len(M) = n /\ SizeOf(M) = n * W64
    BY <1>1, Repeated
  <1>4. Fitting(M, r.missing)
    <2>1. \A k \in 1 .. n : M[k] = W64
      OBVIOUS
    <2> HIDE DEF M
    <2> QED
      BY <1>1, <1>3, <2>1 DEF Fitting
  <1>5. L \in Layouts /\ L[4] = W64 /\ Len(L) = 4
    BY LayoutTypes DEF RequestLayout
  <1>6. v[1] = kContinueRequestMagic /\ v[2] = r.session_id /\ v[3] = r.total_chunks /\ v[4] = n
    OBVIOUS
  <1>7. s = serialize_continue_request(r)
    BY DEF serialize_continue_request
  <1> HIDE DEF M, v, L
  <1>8. rest \in Seq(Bytes) /\ Len(rest) = n * W64
    BY <1>3, <1>4, PackedFields
  <1>9. Unpack(M, rest) = r.missing
    BY <1>3, <1>4, Unpacked
  <1> HIDE DEF rest
  <1>10. Framed(s, L, v, rest)
    BY <1>2, <1>5, <1>8, PackedThen
  <1>11. /\ s \in Seq(Bytes) /\ SizeOf(L) \in Nat /\ Len(s) = SizeOf(L) + n * W64
         /\ \A i \in 1 .. SizeOf(L) : s[i] = Pack(L, v)[i]
         /\ After(L, s) = rest
    BY <1>8, <1>10 DEF Framed
  <1> HIDE DEF s
  <1>12. field = v
    BY <1>2, <1>5, <1>11, Unpacked
  <1>13. ASSUME NEW input, \A i \in 1 .. SizeOf(L) : input[i] = s[i]
         PROVE  read(W64, input, Start(L, 4)) = n
    <2>1. \A i \in 1 .. SizeOf(L) : input[i] = Pack(L, v)[i]
      BY <1>11, <1>13
    <2>2. Unpack(L, input) = v
      BY <1>2, <1>5, <2>1, Unpacked
    <2>3. Unpack(L, input)[4] = read(L[4], input, Start(L, 4))
      BY <1>5 DEF Unpack
    <2> QED
      BY <1>5, <1>6, <2>2, <2>3, Zenon
  <1>14. deserialize_continue_request(s) = r
    <2> HIDE DEF field
    <2>1. n * W64 \in Nat
      BY <1>1, Widths
    <2>2. Len(s) >= SizeOf(L)
      BY <1>11, <2>1
    <2>3. deserialize_continue_request(s)
          = [session_id |-> field[2], total_chunks |-> field[3],
             missing |-> Unpack([k \in 1 .. field[4] |-> W64], After(L, s))]
      BY <1>1, <1>6, <1>11, <1>12, <2>2 DEF deserialize_continue_request, L, field
    <2>4. Unpack([k \in 1 .. field[4] |-> W64], After(L, s)) = r.missing
      BY <1>6, <1>9, <1>11, <1>12 DEF M
    <2>5. deserialize_continue_request(s)
          = [session_id |-> r.session_id, total_chunks |-> r.total_chunks, missing |-> r.missing]
      BY <1>6, <1>12, <2>3, <2>4
    <2>6. r = [session_id |-> r.session_id, total_chunks |-> r.total_chunks, missing |-> r.missing]
      BY <1>1 DEF ContinueRequest
    <2> QED
      BY <2>5, <2>6
  <1> QED
    BY <1>7, <1>11, <1>13, <1>14 DEF L

(* The digests that the sender writes. *)
FittingPackets ==
    {p \in HashPacket : p.session_id < Power[W64] /\ is_sha256_hex(p.sha256_hex)}

(* A digest is read as it was written. *)
LEMMA HashTrip ==
    ASSUME NEW p \in FittingPackets
    PROVE  LET s == serialize_hash_packet(p)
           IN  /\ s \in Seq(Bytes) /\ SizeOf(HashLayout) \in Nat
               /\ Len(s) = SizeOf(HashLayout) + DigestSize
               /\ deserialize_hash_packet(s) = p
PROOF
  <1> DEFINE L == HashLayout
             v == <<kHashPacketMagic, p.session_id>>
             hex == p.sha256_hex
             s == Pack(L, v) \o hex
             field == Unpack(L, s)
  <1>1. /\ p \in HashPacket /\ p.session_id \in Nat /\ hex \in Seq(Bytes)
        /\ p.session_id < Power[W64] /\ is_sha256_hex(hex) /\ Len(hex) = DigestSize
    BY DEF FittingPackets, HashPacket, is_sha256_hex
  <1>2. Fitting(L, v)
    <2>1. v \in Seq(Nat) /\ Len(v) = 2 /\ Len(L) = 2
      BY <1>1 DEF kHashPacketMagic, HashLayout
    <2>2. ASSUME NEW k \in 1 .. 2 PROVE v[k] < Power[L[k]]
      <3>1. v[1] < Power[L[1]] /\ v[2] < Power[L[2]]
        BY <1>1, MagicsFit DEF HashLayout
      <3>2. k \in {1, 2}
        OBVIOUS
      <3> HIDE DEF v, L
      <3> QED
        BY <3>1, <3>2
    <2> HIDE DEF v, L
    <2> QED
      BY <2>1, <2>2 DEF Fitting
  <1>3. L \in Layouts
    BY LayoutTypes
  <1>4. v[1] = kHashPacketMagic /\ v[2] = p.session_id
    OBVIOUS
  <1>5. s = serialize_hash_packet(p)
    BY <1>1 DEF serialize_hash_packet
  <1> HIDE DEF v, L
  <1>6. Framed(s, L, v, hex)
    BY <1>1, <1>2, <1>3, PackedThen
  <1>7. /\ s \in Seq(Bytes) /\ SizeOf(L) \in Nat /\ Len(s) = SizeOf(L) + DigestSize
        /\ \A i \in 1 .. SizeOf(L) : s[i] = Pack(L, v)[i]
        /\ After(L, s) = hex
    BY <1>1, <1>6 DEF Framed
  <1> HIDE DEF s
  <1>8. field = v
    BY <1>2, <1>3, <1>7, Unpacked
  <1>9. deserialize_hash_packet(s) = p
    <2> HIDE DEF field
    <2>1. deserialize_hash_packet(s) = [session_id |-> field[2], sha256_hex |-> hex]
      BY <1>1, <1>4, <1>7, <1>8 DEF deserialize_hash_packet, L, field
    <2>2. p = [session_id |-> p.session_id, sha256_hex |-> hex]
      BY <1>1 DEF HashPacket
    <2> QED
      BY <1>4, <1>8, <2>1, <2>2
  <1> QED
    BY <1>5, <1>7, <1>9 DEF L

-----------------------------------------------------------------------------
(* The plan of a file *)

(* A number that fits is not changed by being stored. *)
LEMMA Fits ==
    ASSUME NEW n \in Nat
    PROVE  /\ n < Power[W64] => U64(n) = n
           /\ n < Power[W32] => U32(n) = n
PROOF
  <1> DEFINE B == Power[W64]
             A == Power[W32]
  <1>1. A \in Nat /\ B \in Nat
    BY MagicsFit
  <1> HIDE DEF A, B
  <1>2. (n < B => n % B = n) /\ (n < A => n % A = n)
    BY <1>1
  <1> QED
    BY <1>2 DEF U64, U32, A, B

(* Room: the size of a file and two chunks together fit. *)
LEMMA SizesFit ==
    ASSUME NEW n \in 0 .. MaxFileSize, NEW C \in 1 .. Power[W32] - 1
    PROVE  /\ n \in Nat /\ C \in Nat \ {0}
           /\ n + C < Power[W64] /\ C < Power[W32]
PROOF
  <1> DEFINE B == Power[W64]
             A == Power[W32]
  <1>1. A \in Nat /\ B \in Nat /\ 2 * A <= B
    BY MagicsFit
  <1>2. n \in 0 .. B \div 2 - 1 /\ C \in 1 .. A - 1
    BY DEF MaxFileSize
  <1> HIDE DEF A, B
  <1>3. n \in Nat /\ C \in Nat \ {0} /\ 2 * n <= B - 2 /\ C < A
    BY <1>1, <1>2
  <1>4. n + C < B
    BY <1>1, <1>3
  <1> QED
    BY <1>3, <1>4 DEF A, B

(* The number of chunks is the size divided by the chunk size, rounded up,   *)
(* and a chunk of a smaller index begins a whole chunk before the end.       *)
LEMMA RoundedUp ==
    ASSUME NEW n \in Nat, NEW C \in Nat \ {0}, NEW k, k = (n + C - 1) \div C,
           NEW i \in 0 .. k - 1
    PROVE  /\ k \in Nat /\ i * C \in Nat
           /\ i * C < n
           /\ i + 1 = k => n - i * C <= C
           /\ i + 1 # k => i * C + C < n
PROOF
  <1>1. k \in Nat /\ i \in Nat
    BY SMT
  <1>2. k * C <= n + C - 1 /\ n + C - 1 < k * C + C
    BY SMT
  <1>3. k * C \in Nat /\ i * C \in Nat
    BY <1>1, SMT
  <1>4. PICK d \in Nat : k = i + 1 + d
    <2>1. k - i - 1 \in Nat /\ k = i + 1 + (k - i - 1)
      BY <1>1
    <2> QED
      BY <2>1
  <1>5. k * C = i * C + C + d * C /\ d * C \in Nat
    BY <1>1, <1>4, SMT
  <1>6. CASE d = 0
    <2>1. k * C = i * C + C /\ i + 1 = k
      BY <1>1, <1>3, <1>4, <1>5, <1>6
    <2> QED
      BY <1>1, <1>2, <1>3, <2>1
  <1>7. CASE d # 0
    <2>1. PICK e \in Nat : d = e + 1
      BY <1>7, SMT
    <2>2. d * C = e * C + C /\ e * C \in Nat
      BY <2>1, SMT
    <2>3. i + 1 # k
      BY <1>1, <1>4, <1>7
    <2> QED
      BY <1>1, <1>2, <1>3, <1>5, <2>2, <2>3
  <1> QED
    BY <1>6, <1>7

(* The plan of every file is exact in the code's integers. *)
LEMMA PlanIsExact ==
    ASSUME NEW name, NEW n \in 0 .. MaxFileSize, NEW C \in 1 .. Power[W32] - 1
    PROVE  LET m == NewManifest(name, n, C)
           IN  /\ m.chunk_count = (n + C - 1) \div C
               /\ m.chunk_count = Plan!chunk_count(n, C)
               /\ \A i \in IndexesOf(m) : HeaderIsExact(m, i)
PROOF
  <1> DEFINE m == NewManifest(name, n, C)
             k == (n + C - 1) \div C
  <1>1. /\ n \in Nat /\ C \in Nat \ {0}
        /\ n + C < Power[W64] /\ C < Power[W32]
    BY SizesFit
  <1>2. Power[W64] \in Nat /\ Power[W32] \in Nat
    BY MagicsFit
  <1>3. U64(n + C - 1) = n + C - 1
    <2>1. n + C - 1 \in Nat /\ n + C - 1 < Power[W64]
      BY <1>1, <1>2
    <2> QED
      BY <2>1, Fits
  <1>4. chunk_count(n, C) = k /\ Plan!chunk_count(n, C) = k
    BY <1>1, <1>3 DEF chunk_count, Plan!chunk_count
  <1>5. /\ m.file_size = n /\ m.chunk_size = C /\ m.chunk_count = k /\ m.session_id = 0
    BY <1>4 DEF NewManifest
  <1> HIDE DEF m, k
  <1>6. ASSUME NEW i \in IndexesOf(m) PROVE HeaderIsExact(m, i)
    <2> DEFINE off == i * C
               rest == n - off
               h == NewHeader(m, i)
    <2>0. i \in 0 .. k - 1
      BY <1>5 DEF IndexesOf
    <2>1. /\ k \in Nat /\ off \in Nat /\ off < n
          /\ i + 1 = k => rest <= C
          /\ i + 1 # k => off + C < n
      BY <1>1, <2>0, RoundedUp DEF k
    <2>2. rest \in Nat \ {0} /\ rest <= n /\ i \in Nat /\ k <= n + C - 1 /\ i + 1 <= k
      BY <1>1, <2>0, <2>1 DEF k
    <2> HIDE DEF off
    <2>3. U64(off) = off
      BY <1>1, <1>2, <2>1, Fits
    <2>4. U64(rest) = rest
      BY <1>1, <1>2, <2>2, Fits
    <2>5. U32(IF rest < C THEN rest ELSE C) = IF rest < C THEN rest ELSE C
      BY <1>1, <1>2, <2>2, Fits
    <2>6. chunk_offset(m, i) = off /\ Plan!chunk_offset(m, i) = off
      BY <1>5, <2>3 DEF chunk_offset, Plan!chunk_offset, off
    <2> DEFINE len == IF rest < C THEN rest ELSE C
    <2>7. payload_size_for_chunk(m, i) = len /\ Plan!payload_size_for_chunk(m, i) = len
      BY <1>5, <2>4, <2>5, <2>6 DEF payload_size_for_chunk, Plan!payload_size_for_chunk
    <2>8. /\ h.chunk_index = i /\ h.byte_offset = off /\ h.payload_size = len /\ h.session_id = 0
      BY <1>5, <2>6, <2>7 DEF NewHeader
    <2> HIDE DEF h
    <2>9. /\ len \in Nat \ {0} /\ len <= C /\ off + len <= n
          /\ len = IF i + 1 = k THEN n - off ELSE C
      BY <1>1, <2>1, <2>2
    <2> HIDE DEF len
    <2>10. U64(off + len) = off + len
      <3>1. off + len \in Nat /\ off + len < Power[W64]
        BY <1>1, <1>2, <2>1, <2>9
      <3> QED
        BY <3>1, Fits
    <2>11. U64(i + 1) = i + 1
      <3>1. i + 1 \in Nat /\ i + 1 < Power[W64]
        BY <1>1, <1>2, <2>1, <2>2
      <3> QED
        BY <3>1, Fits
    <2>12. validate_chunk_header(m, h)
      BY <1>1, <1>5, <2>0, <2>1, <2>3, <2>4, <2>8, <2>9, <2>10, <2>11
      DEF validate_chunk_header, off
    <2>13. Plan!validate_chunk_header(m, h)
      BY <1>1, <1>5, <2>0, <2>1, <2>8, <2>9 DEF Plan!validate_chunk_header, off
    <2> QED
      BY <2>6, <2>7, <2>8, <2>12, <2>13 DEF HeaderIsExact, h
  <1> QED
    BY <1>4, <1>5, <1>6 DEF m, k

(* The plan of every file is exact in the code's integers: sums and products *)
(* of 64 bits never wrap around for a size that file_size can return, and    *)
(* validate_chunk_header accepts every header the sender builds.             *)
THEOREM IntegersAreWideEnough == GeometryInit => WidthsSuffice
PROOF
  <1> SUFFICES ASSUME GeometryInit, NEW C \in 1 .. Power[W32] - 1
               PROVE  LET m == NewManifest(<<1>>, size, C)
                      IN  /\ m.chunk_count = Plan!chunk_count(m.file_size, m.chunk_size)
                          /\ \A i \in IndexesOf(m) : HeaderIsExact(m, i)
    BY DEF WidthsSuffice, Manifests
  <1> DEFINE m == NewManifest(<<1>>, size, C)
  <1>1. m.file_size = size /\ m.chunk_size = C
    BY DEF NewManifest
  <1>2. size \in 0 .. MaxFileSize
    BY DEF GeometryInit
  <1> HIDE DEF m
  <1>3. m.chunk_count = Plan!chunk_count(size, C) /\ \A i \in IndexesOf(m) : HeaderIsExact(m, i)
    BY <1>2, PlanIsExact DEF m
  <1> QED
    BY <1>1, <1>3 DEF m

(* What chunk i of k is, of a file of n bytes. *)
Chunked(m, n, C, k, i) ==
    /\ payload_size_for_chunk(m, i) = IF i + 1 = k THEN n - i * C ELSE C
    /\ chunk_offset(m, i) = i * C
    /\ NewHeader(m, i) = [session_id |-> 0, chunk_index |-> i, byte_offset |-> i * C,
                          payload_size |-> IF i + 1 = k THEN n - i * C ELSE C]

(* The chunks of a file in the code's integers. *)
LEMMA ChunkSizes ==
    ASSUME NEW name, NEW n \in 0 .. MaxFileSize, NEW C \in 1 .. Power[W32] - 1, NEW k \in Nat,
           k = (n + C - 1) \div C, NEW i \in 0 .. k - 1
    PROVE  Chunked(NewManifest(name, n, C), n, C, k, i)
PROOF
  <1> DEFINE m == NewManifest(name, n, C)
             h == NewHeader(m, i)
  <1>1. m.chunk_count = k /\ \A j \in IndexesOf(m) : HeaderIsExact(m, j)
    BY PlanIsExact
  <1>2. m.file_size = n /\ m.chunk_size = C /\ m.session_id = 0
    BY DEF NewManifest
  <1> HIDE DEF m
  <1>3. Plan!validate_chunk_header(m, h) /\ h.byte_offset = Plan!chunk_offset(m, i)
    BY <1>1 DEF HeaderIsExact, IndexesOf
  <1>4. /\ h = [session_id |-> m.session_id, chunk_index |-> i, byte_offset |-> chunk_offset(m, i),
                payload_size |-> payload_size_for_chunk(m, i)]
        /\ h.chunk_index = i /\ h.byte_offset = chunk_offset(m, i)
        /\ h.payload_size = payload_size_for_chunk(m, i)
    BY DEF NewHeader
  <1> HIDE DEF h
  <1>5. chunk_offset(m, i) = i * C
    BY <1>2, <1>3, <1>4 DEF Plan!chunk_offset
  <1>6. payload_size_for_chunk(m, i) = IF i + 1 = k THEN n - i * C ELSE C
    BY <1>1, <1>2, <1>3, <1>4, <1>5 DEF Plan!validate_chunk_header
  <1> QED
    BY <1>2, <1>4, <1>5, <1>6 DEF m, h, Chunked

(* Where chunk i of k begins; after the last one, the end of the file. *)
Boundary(n, C, k, i) == IF i = k THEN n ELSE i * C

(* Chunks lie side by side. *)
LEMMA SideBySide ==
    ASSUME NEW name, NEW n \in 0 .. MaxFileSize, NEW C \in 1 .. Power[W32] - 1, NEW k \in Nat,
           k = (n + C - 1) \div C
    PROVE  /\ \A i \in 0 .. k : Boundary(n, C, k, i) \in 0 .. n
           /\ \A i \in 0 .. k - 1 :
                 /\ payload_size_for_chunk(NewManifest(name, n, C), i) \in Nat
                 /\ Boundary(n, C, k, i) < Boundary(n, C, k, i + 1)
                 /\ Boundary(n, C, k, i + 1) = Boundary(n, C, k, i)
                        + payload_size_for_chunk(NewManifest(name, n, C), i)
PROOF
  <1> DEFINE m == NewManifest(name, n, C)
             B(i) == Boundary(n, C, k, i)
  <1>1. n \in Nat /\ C \in Nat \ {0}
    BY SizesFit
  <1>2. ASSUME NEW i \in 0 .. k - 1
        PROVE  /\ payload_size_for_chunk(m, i) = IF i + 1 = k THEN n - i * C ELSE C
               /\ i * C \in Nat /\ i * C < n
               /\ i + 1 = k => n - i * C <= C
               /\ i + 1 # k => i * C + C < n
               /\ (i + 1) * C = i * C + C
    <2>1. Chunked(NewManifest(name, n, C), n, C, k, i)
      BY ChunkSizes
    <2>2. i * C \in Nat /\ i * C < n /\ (i + 1 = k => n - i * C <= C)
          /\ (i + 1 # k => i * C + C < n)
      BY <1>1, RoundedUp
    <2>3. (i + 1) * C = i * C + C
      BY <1>1, SMT
    <2> HIDE DEF m
    <2> QED
      BY <2>1, <2>2, <2>3 DEF Chunked, m
  <1> HIDE DEF m
  <1>3. ASSUME NEW i \in 0 .. k - 1
        PROVE  /\ payload_size_for_chunk(m, i) \in Nat
               /\ B(i) \in 0 .. n /\ B(i) < B(i + 1)
               /\ B(i + 1) = B(i) + payload_size_for_chunk(m, i)
    <2> DEFINE x == i * C
               y == (i + 1) * C
               z == payload_size_for_chunk(m, i)
    <2>1. /\ z = IF i + 1 = k THEN n - x ELSE C
          /\ x \in Nat /\ x < n /\ y = x + C
          /\ i + 1 = k => n - x <= C
          /\ i + 1 # k => x + C < n
      BY <1>2
    <2>2. B(i) = x /\ B(i + 1) = IF i + 1 = k THEN n ELSE y
      BY DEF Boundary
    <2> HIDE DEF x, y, z, B
    <2>3. z \in Nat /\ B(i) \in 0 .. n /\ B(i) < B(i + 1) /\ B(i + 1) = B(i) + z
      BY <1>1, <2>1, <2>2
    <2> QED
      BY <2>3 DEF z
  <1>4. B(k) \in 0 .. n
    BY <1>1 DEF Boundary
  <1>5. ASSUME NEW i \in 0 .. k PROVE B(i) \in 0 .. n
    <2>1. i = k \/ i \in 0 .. k - 1
      OBVIOUS
    <2> HIDE DEF B
    <2> QED
      BY <1>3, <1>4, <2>1
  <1> QED
    BY <1>3, <1>5 DEF m

(* The chunks of a file, from any one on, add up to what they cover. *)
LEMMA ChunksAddUp ==
    ASSUME NEW name, NEW n \in 0 .. MaxFileSize, NEW C \in 1 .. Power[W32] - 1, NEW k \in Nat,
           k = (n + C - 1) \div C, NEW first \in 0 .. k
    PROVE  bytes_for_chunks(NewManifest(name, n, C), [j \in 1 .. k - first |-> first + j - 1])
           = n - Boundary(n, C, k, first)
PROOF
  <1> DEFINE m == NewManifest(name, n, C)
             c == k - first
             indexes == [j \in 1 .. c |-> first + j - 1]
             len(j) == payload_size_for_chunk(m, indexes[j])
             B(i) == Boundary(n, C, k, i)
             Eq(f) == f = [j \in 0 .. c |-> IF j = 0 THEN 0 ELSE U64(f[j - 1] + len(j))]
             total == CHOOSE f : Eq(f)
             step == [j \in 1 .. c |-> [x \in Nat |-> U64(x + len(j))]]
  <1>1. /\ n \in Nat /\ C \in Nat \ {0} /\ n + C < Power[W64] /\ Power[W64] \in Nat \ {0}
        /\ c \in Nat
    BY SizesFit, MagicsFit
  <1>2. /\ \A i \in 0 .. k : B(i) \in 0 .. n
        /\ \A i \in 0 .. k - 1 :
              /\ payload_size_for_chunk(m, i) \in Nat
              /\ B(i) < B(i + 1) /\ B(i + 1) = B(i) + payload_size_for_chunk(m, i)
    BY SideBySide
  <1>3. B(k) = n
    BY DEF Boundary
  <1> HIDE DEF B, m
  <1>4. ASSUME NEW j \in 1 .. c
        PROVE  /\ len(j) \in Nat
               /\ B(first + (j - 1)) + len(j) = B(first + j)
               /\ B(first + (j - 1)) \in Nat /\ B(first + j) \in 0 .. n
               /\ B(first) <= B(first + (j - 1)) => B(first) <= B(first + j)
    <2>1. PICK i \in 0 .. k - 1 : i = first + (j - 1) /\ i + 1 = first + j
      BY <1>1
    <2>2. indexes[j] = i
      BY <2>1
    <2>3. i \in 0 .. k /\ i + 1 \in 0 .. k /\ first \in 0 .. k
      OBVIOUS
    <2>4. B(i) \in 0 .. n /\ B(i + 1) \in 0 .. n /\ B(first) \in 0 .. n
      BY <1>2, <2>3, Zenon
    <2>5. /\ payload_size_for_chunk(m, i) \in Nat
          /\ B(i) < B(i + 1) /\ B(i + 1) = B(i) + payload_size_for_chunk(m, i)
      BY <1>2
    <2> DEFINE z == payload_size_for_chunk(m, i)
    <2>6. len(j) = z
      BY <2>2
    <2> HIDE DEF len, z
    <2>7. PICK b \in Nat, d \in Nat, a \in Nat : b = B(i) /\ d = B(i + 1) /\ a = B(first)
      BY <1>1, <2>4
    <2>8. z \in Nat /\ b < d /\ d = b + z /\ d <= n
      BY <1>1, <2>4, <2>5, <2>7 DEF z
    <2> QED
      BY <1>1, <2>1, <2>6, <2>7, <2>8
  <1>5. bytes_for_chunks(m, indexes) = total[c]
    <2>1. Len(indexes) = c
      BY <1>1
    <2> HIDE DEF indexes
    <2> QED
      BY <2>1 DEF bytes_for_chunks
  <1> HIDE DEF len, indexes, c
  <1>6. step \in Steps(c, Nat)
    <2>1. ASSUME NEW j \in 1 .. c, NEW x \in Nat PROVE U64(x + len(j)) \in Nat
      BY <1>1, <1>4 DEF U64
    <2> QED
      BY <2>1, Zenon DEF Steps
  <1>7. PICK g \in Values(c, Nat) : Unrolls(g, c, 0, step)
    <2> HIDE DEF step
    <2> QED
      BY <1>1, <1>6, Recursive, Zenon
  <1>8. g \in [0 .. c -> Nat] /\ g[0] = 0 /\ \A j \in 1 .. c : g[j] = step[j][g[j - 1]]
    BY <1>7, Zenon DEF Values, Unrolls
  <1>9. Eq(g)
    <2>1. ASSUME NEW j \in 0 .. c PROVE g[j] = IF j = 0 THEN 0 ELSE U64(g[j - 1] + len(j))
      <3>1. CASE j = 0
        BY <1>8, <3>1
      <3>2. CASE j # 0
        <4>1. j \in 1 .. c /\ j - 1 \in 0 .. c
          BY <1>1, <3>2
        <4>2. g[j - 1] \in Nat
          BY <1>8, <4>1
        <4> QED
          BY <1>8, <3>2, <4>1, <4>2, Zenon
      <3> QED
        BY <3>1, <3>2
    <2> QED
      BY <1>8, <2>1, Zenon
  <1>10. Eq(total)
    BY <1>9, Zenon
  <1> HIDE DEF total
  <1>11. total[0] = 0 /\ \A j \in 1 .. c : total[j] = U64(total[j - 1] + len(j))
    <2>1. \A j \in 0 .. c : total[j] = IF j = 0 THEN 0 ELSE U64(total[j - 1] + len(j))
      BY <1>10, Zenon
    <2>2. 0 \in 0 .. c /\ \A j \in 1 .. c : j \in 0 .. c /\ j # 0
      BY <1>1
    <2> QED
      BY <2>1, <2>2, Zenon
  <1> DEFINE Sum(j) == /\ total[j] = B(first + j) - B(first)
                       /\ B(first) <= B(first + j)
  <1>12. B(first) \in Nat
    BY <1>1, <1>2
  <1>13. Sum(0)
    <2>1. first + 0 = first
      OBVIOUS
    <2> QED
      BY <1>11, <1>12, <2>1
  <1>14. ASSUME NEW j \in 1 .. c, Sum(j - 1) PROVE Sum(j)
    <2>1. PICK x \in Nat, y \in Nat, z \in Nat, a \in Nat :
             x = B(first + (j - 1)) /\ y = B(first + j) /\ z = len(j) /\ a = B(first)
      BY <1>1, <1>4, <1>12, SMTT(30)
    <2>2. x + z = y /\ y <= n /\ a <= x
      BY <1>1, <1>4, <1>14, <2>1
    <2>3. total[j - 1] = x - a
      BY <1>14, <2>1
    <2>4. x - a + z = y - a /\ y - a \in Nat /\ y - a < Power[W64] /\ a <= y
      BY <1>1, <2>2
    <2>5. total[j] = U64(x - a + z)
      BY <1>11, <2>1, <2>3
    <2>6. U64(y - a) = y - a
      BY <2>4, Fits
    <2> QED
      BY <2>1, <2>4, <2>5, <2>6
  <1>15. \A j \in 0 .. c : Sum(j)
    <2> DEFINE T == {j \in 0 .. c : Sum(j)}
    <2> HIDE DEF Sum
    <2>1. 0 \in T
      BY <1>1, <1>13
    <2>2. \A j \in 1 .. c : j - 1 \in T => j \in T
      BY <1>1, <1>14
    <2> HIDE DEF T
    <2>3. \A j \in 0 .. c : j \in T
      BY <1>1, <2>1, <2>2, UpTo
    <2> QED
      BY <2>3 DEF T
  <1>16. total[c] = B(k) - B(first)
    <2>1. c \in 0 .. c /\ first + c = k
      BY <1>1 DEF c
    <2> QED
      BY <1>15, <2>1
  <1> QED
    BY <1>3, <1>5, <1>16 DEF m, indexes, c, B

(* The manifest of a file is one that the codecs can hold, ... *)
LEMMA ManifestsFit ==
    ASSUME NEW name \in Seq(Bytes), Len(name) \in 1 .. kMaxFilenameLength,
           NEW n \in 0 .. MaxFileSize, NEW C \in 1 .. Power[W32] - 1, NEW k,
           k = (n + C - 1) \div C
    PROVE  /\ NewManifest(name, n, C) \in FittingManifests
           /\ NewManifest(name, n, C)
              = [filename |-> name, file_size |-> n, chunk_size |-> C, chunk_count |-> k,
                 protocol_version |-> kProtocolVersion, session_id |-> 0]
           /\ k \in Nat /\ k < Power[W64]
PROOF
  <1> DEFINE m == NewManifest(name, n, C)
  <1>1. /\ n \in Nat /\ C \in Nat \ {0} /\ n + C < Power[W64] /\ C < Power[W32]
        /\ Power[W64] \in Nat \ {0}
    BY SizesFit, MagicsFit
  <1>2. m.chunk_count = k
    BY PlanIsExact
  <1>3. m = [filename |-> name, file_size |-> n, chunk_size |-> C, chunk_count |-> k,
             protocol_version |-> kProtocolVersion, session_id |-> 0]
    BY <1>2 DEF NewManifest
  <1> HIDE DEF m
  <1>4. k \in Nat /\ k < Power[W64]
    <2>1. k \in Nat /\ k <= n + C - 1
      BY <1>1
    <2> QED
      BY <1>1, <2>1
  <1>5. m \in FittingManifests
    <2>1. U64(n + C - 1) = n + C - 1
      <3>1. n + C - 1 \in Nat /\ n + C - 1 < Power[W64]
        BY <1>1
      <3> QED
        BY <3>1, Fits
    <2>2. m \in [filename : Seq(Bytes), file_size : Nat, chunk_size : Nat \ {0}, chunk_count : Nat,
                 protocol_version : {kProtocolVersion}, session_id : Nat]
      BY <1>1, <1>3, <1>4
    <2>3. /\ m.filename = name /\ m.file_size = n /\ m.chunk_size = C /\ m.chunk_count = k
          /\ m.session_id = 0
      BY <1>3
    <2>4. n < Power[W64] /\ 0 < Power[W64]
      BY <1>1
    <2>5. k = U64(n + C - 1) \div C
      BY <2>1
    <2> QED
      BY <1>1, <1>4, <2>2, <2>3, <2>4, <2>5 DEF FittingManifests
  <1> QED
    BY <1>3, <1>4, <1>5 DEF m

(* ... and so is the header of each of its chunks. *)
LEMMA HeadersFit ==
    ASSUME NEW name, NEW n \in 0 .. MaxFileSize, NEW C \in 1 .. Power[W32] - 1, NEW k \in Nat,
           k = (n + C - 1) \div C, NEW i \in 0 .. k - 1
    PROVE  NewHeader(NewManifest(name, n, C), i) \in FittingHeaders
PROOF
  <1> DEFINE h == NewHeader(NewManifest(name, n, C), i)
             len == IF i + 1 = k THEN n - i * C ELSE C
  <1>1. /\ n \in Nat /\ C \in Nat \ {0} /\ n + C < Power[W64] /\ C < Power[W32]
        /\ Power[W64] \in Nat \ {0}
    BY SizesFit, MagicsFit
  <1>2. h = [session_id |-> 0, chunk_index |-> i, byte_offset |-> i * C, payload_size |-> len]
    <2>1. Chunked(NewManifest(name, n, C), n, C, k, i)
      BY ChunkSizes
    <2> QED
      BY <2>1 DEF Chunked
  <1>3. i * C \in Nat /\ i * C < n /\ (i + 1 = k => n - i * C <= C)
    BY <1>1, RoundedUp
  <1>4. k <= n + C - 1
    BY <1>1
  <1>5. i \in Nat /\ i < Power[W64] /\ i * C < Power[W64] /\ 0 < Power[W64]
    BY <1>1, <1>3, <1>4
  <1>6. Power[W32] \in Nat /\ len \in Nat /\ len < Power[W32]
    BY <1>1, <1>3, MagicsFit
  <1> HIDE DEF len, h
  <1>7. h \in FittingHeaders
    BY <1>2, <1>3, <1>5, <1>6 DEF FittingHeaders
  <1> QED
    BY <1>7 DEF h

(* What the sender writes for a file of any size, under any allowed name,    *)
(* comes out of the codecs as it went in: its manifest and the header of     *)
(* each of its chunks.  So does every request for some of its chunks, up to  *)
(* the limit, and every hash packet.  The total of ProgressTracker is what   *)
(* the file has from the first missing chunk on, for every tail of chunks.   *)
THEOREM CodecsAreExact == GeometryInit => TripsAreExact
PROOF
  <1> SUFFICES ASSUME GeometryInit PROVE TripsAreExact
    OBVIOUS
  <1>1. size \in 0 .. MaxFileSize
    BY DEF GeometryInit
  <1>2. ASSUME NEW C \in 1 .. Power[W32] - 1
        PROVE  LET m == NewManifest(<<1>>, size, C)
               IN  /\ TailsAddUp(m)
                   /\ \A name \in SentNames : ManifestReturns([m EXCEPT !.filename = name])
                   /\ \A i \in IndexesOf(m) : HeaderReturns(NewHeader(m, i))
    <2> DEFINE m == NewManifest(<<1>>, size, C)
               k == (size + C - 1) \div C
    <2>1. size \in Nat /\ C \in Nat \ {0} /\ k \in Nat
      BY <1>1, SizesFit
    <2>2. m.chunk_count = k /\ m.file_size = size /\ m.chunk_size = C
      BY <1>1, PlanIsExact DEF NewManifest
    <2>3. \A name : [m EXCEPT !.filename = name] = NewManifest(name, size, C)
      BY DEF NewManifest
    <2>4. k = (size + C - 1) \div C
      OBVIOUS
    <2> HIDE DEF m, k
    <2>5. TailsAddUp(m)
      <3> SUFFICES ASSUME NEW first \in 0 .. k
                   PROVE  bytes_for_chunks(m, TailFrom(m, first)) =
                             IF first = k THEN 0 ELSE size - first * C
        BY <2>2 DEF TailsAddUp
      <3>1. bytes_for_chunks(NewManifest(<<1>>, size, C), [j \in 1 .. k - first |-> first + j - 1])
            = size - Boundary(size, C, k, first)
        BY <1>1, <2>1, <2>4, ChunksAddUp
      <3>2. TailFrom(m, first) = [j \in 1 .. k - first |-> first + j - 1]
        BY <2>2 DEF TailFrom
      <3>3. size - Boundary(size, C, k, first) = IF first = k THEN 0 ELSE size - first * C
        BY <2>1 DEF Boundary
      <3> QED
        BY <3>1, <3>2, <3>3, Zenon DEF m
    <2>6. ASSUME NEW name \in SentNames
          PROVE  ManifestReturns([m EXCEPT !.filename = name])
      <3>1. name \in Seq(Bytes) /\ Len(name) \in 1 .. kMaxFilenameLength
        BY SentNamesAssumption
      <3>2. NewManifest(name, size, C) \in FittingManifests
        BY <1>1, <2>4, <3>1, ManifestsFit
      <3> QED
        BY <2>3, <3>2, ManifestTrip DEF ManifestReturns
    <2>7. ASSUME NEW i \in IndexesOf(m)
          PROVE  HeaderReturns(NewHeader(m, i))
      <3>1. i \in 0 .. k - 1
        BY <2>2 DEF IndexesOf
      <3>2. NewHeader(m, i) \in FittingHeaders
        BY <1>1, <2>1, <2>4, <3>1, HeadersFit DEF m
      <3> QED
        BY <3>2, HeaderTrip DEF HeaderReturns
    <2> QED
      BY <2>5, <2>6, <2>7 DEF m
  <1>3. ASSUME NEW r \in Requests PROVE RequestReturns(r)
    <2>0. PICK n \in 0 .. kMaxChunkIndexes :
             \E list \in [1 .. n -> 0 .. size - 1] :
                r = [session_id |-> 0, total_chunks |-> size, missing |-> list]
      BY DEF Requests
    <2>1. PICK list \in [1 .. n -> 0 .. size - 1] :
             r = [session_id |-> 0, total_chunks |-> size, missing |-> list]
      BY <2>0
    <2>2. /\ n \in Nat /\ n <= kMaxChunkIndexes /\ size \in Nat /\ size < Power[W64]
          /\ 0 < Power[W64]
      <3>1. kMaxChunkIndexes \in Nat /\ Power[W64] \in Nat \ {0}
        BY LimitsAssumption, MagicsFit
      <3>2. size \in Nat /\ size < Power[W64]
        <4>1. 1 \in 1 .. Power[W32] - 1
          BY MagicsFit DEF kManifestMagic
        <4>2. size \in Nat /\ size + 1 < Power[W64]
          BY <1>1, <4>1, SizesFit
        <4> QED
          BY <3>1, <4>2
      <3> QED
        BY <3>1, <3>2
    <2>3. list \in Seq(Nat) /\ Len(list) = n /\ \A k \in 1 .. n : list[k] < Power[W64]
      <3>1. \A k \in 1 .. n : list[k] \in Nat /\ list[k] < size
        BY <2>2
      <3>2. \A k \in 1 .. n : list[k] < Power[W64]
        BY <2>2, <3>1, MagicsFit
      <3>3. list \in [1 .. n -> Nat]
        BY <2>2
      <3> QED
        BY <2>2, <3>2, <3>3
    <2>4. r \in FittingRequests
      BY <2>1, <2>2, <2>3 DEF FittingRequests, ContinueRequest
    <2> QED
      BY <2>4, RequestTrip DEF RequestReturns
  <1>4. ASSUME NEW p \in HashPackets PROVE PacketReturns(p)
    <2>1. PICK hex \in [1 .. DigestSize -> HexDigits] :
             p = [session_id |-> 0, sha256_hex |-> hex]
      BY DEF HashPackets
    <2>2. hex \in Seq(Bytes) /\ Len(hex) = DigestSize /\ \A k \in 1 .. DigestSize : hex[k] \in HexDigits
      <3>1. DigestSize \in Nat /\ HexDigits \subseteq Bytes
        BY CodecsAssumption DEF HexDigits
      <3>2. hex \in [1 .. DigestSize -> Bytes]
        BY <3>1
      <3> HIDE DEF HexDigits
      <3> QED
        BY <3>1, <3>2
    <2>3. 0 < Power[W64]
      BY MagicsFit
    <2>4. p \in FittingPackets
      BY <2>1, <2>2, <2>3 DEF FittingPackets, HashPacket, is_sha256_hex
    <2> QED
      BY <2>4, HashTrip DEF PacketReturns
  <1> QED
    BY <1>2, <1>3, <1>4 DEF TripsAreExact, Manifests

=============================================================================
