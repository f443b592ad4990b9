----------------------------- MODULE FileProofs -----------------------------
(***************************************************************************)
(* The files of a receiver: names are safe and transfers meet only where   *)
(* they must, for paths of any length over any characters, and the digest  *)
(* is one of the whole file, for every length and every size of a block.   *)
(***************************************************************************)
EXTENDS FileNames, Sha256Blocks, Recursion, SequenceTheorems

-----------------------------------------------------------------------------
(* Names *)

(* Min and Max are what their names say, for positions in a sequence. *)
LEMMA Extremes ==
    ASSUME NEW n \in Nat, NEW T \in SUBSET (1 .. n), T # {}
    PROVE  /\ Min(T) \in T /\ \A y \in T : Min(T) <= y
           /\ Max(T) \in T /\ \A y \in T : Max(T) >= y
PROOF
  <1>1. \E x \in T : \A y \in T : x <= y
    BY Smallest
  <1>2. Min(T) \in T /\ \A y \in T : Min(T) <= y
    BY <1>1, Zenon DEF Min
  <1> DEFINE U == {n - k : k \in T}
  <1>3. U \in SUBSET Nat /\ U # {}
    <2>1. \A k \in T : n - k \in Nat
      OBVIOUS
    <2>2. PICK k \in T : TRUE
      OBVIOUS
    <2>3. n - k \in U
      OBVIOUS
    <2> QED
      BY <2>1, <2>3, Zenon
  <1>4. PICK u \in U : \A y \in U : u <= y
    BY <1>3, Smallest, Zenon
  <1>5. PICK x \in T : u = n - x
    OBVIOUS
  <1>6. ASSUME NEW y \in T PROVE x >= y
    <2>1. u <= n - y
      BY <1>4
    <2> QED
      BY <1>5, <2>1
  <1>7. Max(T) \in T /\ \A y \in T : Max(T) >= y
    BY <1>6, Zenon DEF Max
  <1> QED
    BY <1>2, <1>7

-----------------------------------------------------------------------------
(* Names *)

(* A name as sanitize_filename leaves it. *)
Clean(name) == name \in Seq(Allowed) /\ name # <<>> /\ Head(name) # "."

(* What is left after the last separator. *)
LEMMA BasenameType ==
    ASSUME NEW p \in Seq(Characters)
    PROVE  basename_from_path(p) \in Seq(Characters)
PROOF
  <1> DEFINE seps == {k \in DOMAIN p : p[k] \in Separators}
  <1>1. CASE seps = {}
    BY <1>1 DEF basename_from_path
  <1>2. CASE seps # {}
    <2>1. DOMAIN p = 1 .. Len(p) /\ Len(p) \in Nat
      BY LenProperties
    <2>2. Max(seps) \in 1 .. Len(p)
      BY <1>2, <2>1, Extremes
    <2>3. SubSeq(p, Max(seps) + 1, Len(p)) \in Seq(Characters)
      <3>1. \A i \in Max(seps) + 1 .. Len(p) : p[i] \in Characters
        BY <2>1, <2>2
      <3> QED
        BY <2>1, <2>2, <3>1, SubSeqProperties
    <2> QED
      BY <1>2, <2>3 DEF basename_from_path
  <1> QED
    BY <1>1, <1>2

(* What follows a directory that ends with a separator, or none. *)
LEMMA BasenameAfter ==
    ASSUME NEW d \in Seq(Characters), d = <<>> \/ d[Len(d)] \in Separators,
           NEW b \in Seq(Allowed)
    PROVE  basename_from_path(d \o b) = b
PROOF
  <1> DEFINE p == d \o b
             seps == {k \in DOMAIN p : p[k] \in Separators}
  <1>0. b \in Seq(Characters)
    BY SeqMonotonic DEF Characters
  <1>1. /\ p \in Seq(Characters) /\ Len(p) = Len(d) + Len(b)
        /\ \A k \in 1 .. Len(d) + Len(b) : p[k] = IF k <= Len(d) THEN d[k] ELSE b[k - Len(d)]
    BY <1>0, ConcatProperties, Zenon
  <1>2. Len(d) \in Nat /\ Len(b) \in Nat /\ DOMAIN p = 1 .. Len(d) + Len(b)
    BY <1>1, LenProperties
  <1> HIDE DEF p
  <1>3. ASSUME NEW k \in seps PROVE k \in 1 .. Len(d)
    <2>1. k \in 1 .. Len(d) + Len(b) /\ p[k] \in Separators
      BY <1>2
    <2>2. CASE ~(k <= Len(d))
      <3>1. k - Len(d) \in 1 .. Len(b)
        BY <1>2, <2>1, <2>2
      <3>2. p[k] = b[k - Len(d)]
        BY <1>1, <2>1, <2>2
      <3>3. b[k - Len(d)] \in Allowed
        BY <3>1, ElementOfSeq
      <3> QED
        BY <2>1, <3>2, <3>3, FileNamesAssumption
    <2> QED
      BY <1>2, <2>1, <2>2
  <1>4. CASE d = <<>>
    <2>1. seps = {}
      BY <1>3, <1>4
    <2>2. p = b
      BY <1>4, ConcatEmptySeq DEF p
    <2> QED
      BY <2>1, <2>2 DEF basename_from_path, p
  <1>5. CASE d # <<>>
    <2>1. Len(d) \in seps
      <3>1. Len(d) \in 1 .. Len(d) + Len(b) /\ Len(d) <= Len(d)
        BY <1>2, <1>5, EmptySeq
      <3>2. p[Len(d)] = d[Len(d)]
        BY <1>1, <3>1
      <3> QED
        BY <1>2, <1>5, <3>1, <3>2
    <2>2. Max(seps) = Len(d)
      <3>1. \A k \in seps : k \in Nat /\ k <= Len(d)
        BY <1>2, <1>3
      <3>2. Max(seps) \in seps /\ \A k \in seps : Max(seps) >= k
        <4>1. seps \in SUBSET (1 .. Len(d))
          BY <1>3
        <4> QED
          BY <1>2, <2>1, <4>1, Extremes
      <3>3. Max(seps) \in Nat /\ Max(seps) <= Len(d) /\ Max(seps) >= Len(d)
        BY <2>1, <3>1, <3>2, Zenon
      <3> HIDE DEF seps
      <3> QED
        BY <1>2, <3>3
    <2>3. SubSeq(p, Len(d) + 1, Len(p)) = b
      <3> DEFINE t == SubSeq(p, Len(d) + 1, Len(p))
      <3>1. ASSUME NEW i \in Len(d) + 1 .. Len(p) PROVE p[i] = b[i - Len(d)] /\ i - Len(d) \in 1 .. Len(b)
        BY <1>1, <1>2
      <3>2. \A i \in Len(d) + 1 .. Len(p) : p[i] \in Allowed
        BY <3>1, ElementOfSeq
      <3>3. Len(d) + 1 \in Int /\ Len(p) \in Int
        BY <1>1, <1>2
      <3>4. /\ t \in Seq(Allowed)
            /\ Len(t) = IF Len(d) + 1 <= Len(p) THEN Len(p) - (Len(d) + 1) + 1 ELSE 0
            /\ \A i \in 1 .. Len(p) - (Len(d) + 1) + 1 : t[i] = p[(Len(d) + 1) + i - 1]
        BY <3>2, <3>3, SubSeqProperties
      <3> HIDE DEF t
      <3>5. Len(t) = Len(b)
        BY <1>1, <1>2, <3>4
      <3>6. ASSUME NEW i \in 1 .. Len(t) PROVE t[i] = b[i]
        <4>1. /\ i \in 1 .. Len(p) - (Len(d) + 1) + 1 /\ (Len(d) + 1) + i - 1 = i + Len(d)
              /\ i + Len(d) \in Len(d) + 1 .. Len(p) /\ i + Len(d) - Len(d) = i
          BY <1>1, <1>2, <3>5
        <4>2. t[i] = p[i + Len(d)]
          BY <3>4, <4>1
        <4> QED
          BY <3>1, <4>1, <4>2
      <3> QED
        BY <3>4, <3>5, <3>6, SeqEqual DEF t
    <2> QED
      BY <2>1, <2>2, <2>3 DEF basename_from_path, p
  <1> QED
    BY <1>4, <1>5

(* Replacing characters leaves a name of allowed ones. *)
LEMMA ReplacedType ==
    ASSUME NEW p \in Seq(Characters)
    PROVE  Replaced(p) \in Seq(Allowed) /\ (p \in Seq(Allowed) => Replaced(p) = p)
PROOF
  <1>1. Len(p) \in Nat /\ DOMAIN p = 1 .. Len(p) /\ p \in [1 .. Len(p) -> Characters]
    BY LenProperties
  <1>2. "_" \in Allowed
    BY FileNamesAssumption
  <1>3. Replaced(p) \in [1 .. Len(p) -> Allowed]
    BY <1>1, <1>2 DEF Replaced
  <1>4. Replaced(p) \in Seq(Allowed)
    BY <1>1, <1>3
  <1>5. ASSUME p \in Seq(Allowed) PROVE Replaced(p) = p
    <2>1. \A k \in 1 .. Len(p) : p[k] \in Allowed
      BY <1>5, ElementOfSeq
    <2>2. Replaced(p) = [k \in 1 .. Len(p) |-> p[k]]
      BY <1>1, <2>1 DEF Replaced
    <2> QED
      BY <1>1, <2>2
  <1> QED
    BY <1>4, <1>5

(* sanitize_filename returns a clean name, whatever it is given, and leaves a *)
(* clean one alone.                                                          *)
LEMMA SanitizeCleans ==
    ASSUME NEW p \in Seq(Characters)
    PROVE  Clean(sanitize_filename(p))
PROOF
  <1> DEFINE name == Replaced(basename_from_path(p))
             rest == {k \in DOMAIN name : name[k] # "."}
  <1>1. name \in Seq(Allowed)
    BY BasenameType, ReplacedType
  <1>2. Len(name) \in Nat /\ DOMAIN name = 1 .. Len(name)
    BY <1>1, LenProperties
  <1>3. sanitize_filename(p) = IF rest = {} THEN DefaultName ELSE SubSeq(name, Min(rest), Len(name))
    BY DEF sanitize_filename
  <1> HIDE DEF name
  <1>4. CASE rest = {}
    BY <1>3, <1>4, FileNamesAssumption DEF Clean
  <1>5. CASE rest # {}
    <2>1. Min(rest) \in rest
      BY <1>2, <1>5, Extremes
    <2>2. Min(rest) \in 1 .. Len(name) /\ name[Min(rest)] # "."
      BY <1>2, <2>1
    <2> DEFINE t == SubSeq(name, Min(rest), Len(name))
    <2>3. \A i \in Min(rest) .. Len(name) : name[i] \in Allowed
      BY <1>1, <1>2, <2>2, ElementOfSeq
    <2>4. t \in Seq(Allowed) /\ Len(t) = IF Min(rest) <= Len(name) THEN Len(name) - Min(rest) + 1 ELSE 0
      BY <1>2, <2>2, <2>3, SubSeqProperties
    <2>5. Head(t) = name[Min(rest)]
      BY <1>1, <1>2, <2>2, HeadTailOfSubSeq
    <2>6. t # <<>>
      <3>1. Len(t) # 0
        BY <1>2, <2>2, <2>4
      <3> QED
        BY <3>1, EmptySeq
    <2> QED
      BY <1>3, <1>5, <2>2, <2>4, <2>5, <2>6 DEF Clean
  <1> QED
    BY <1>4, <1>5

LEMMA CleanStays ==
    ASSUME NEW a, Clean(a)
    PROVE  basename_from_path(a) = a /\ sanitize_filename(a) = a
PROOF
  <1>1. a \in Seq(Allowed) /\ a # <<>> /\ Head(a) # "."
    BY DEF Clean
  <1>2. a \in Seq(Characters) /\ <<>> \in Seq(Characters)
    BY <1>1, SeqMonotonic, EmptySeq DEF Characters
  <1>3. basename_from_path(a) = a
    <2>1. basename_from_path(<<>> \o a) = a
      BY <1>1, <1>2, BasenameAfter
    <2>2. <<>> \o a = a
      BY <1>1, ConcatEmptySeq
    <2> QED
      BY <2>1, <2>2
  <1>4. Replaced(a) = a
    BY <1>1, <1>2, ReplacedType
  <1> DEFINE rest == {k \in DOMAIN a : a[k] # "."}
  <1>5. Len(a) \in Nat \ {0} /\ DOMAIN a = 1 .. Len(a) /\ Head(a) = a[1]
    BY <1>1, LenProperties, EmptySeq
  <1>6. 1 \in rest
    BY <1>1, <1>5
  <1>7. Min(rest) \in rest /\ \A k \in rest : Min(rest) <= k
    BY <1>5, <1>6, Extremes
  <1>8. Min(rest) = 1
    <2>1. Min(rest) \in 1 .. Len(a) /\ Min(rest) <= 1
      BY <1>5, <1>6, <1>7, Zenon
    <2> HIDE DEF rest
    <2> QED
      BY <1>5, <2>1
  <1>9. SubSeq(a, 1, Len(a)) = a
    BY <1>1, SubSeqFull
  <1> QED
    BY <1>3, <1>4, <1>6, <1>8, <1>9, Zenon DEF sanitize_filename

-----------------------------------------------------------------------------
(* Paths *)

(* A name with something after it is still clean, and so is one with         *)
(* "received_" before it.                                                    *)
LEMMA CleanConcat ==
    ASSUME NEW a, NEW t \in Seq(Allowed), Clean(a)
    PROVE  Clean(a \o t)
PROOF
  <1>1. a \in Seq(Allowed) /\ a # <<>> /\ Head(a) # "."
    BY DEF Clean
  <1>2. /\ a \o t \in Seq(Allowed) /\ Len(a \o t) = Len(a) + Len(t)
        /\ \A k \in 1 .. Len(a) + Len(t) : (a \o t)[k] = IF k <= Len(a) THEN a[k] ELSE t[k - Len(a)]
    BY <1>1, ConcatProperties, Zenon
  <1>3. Len(a) \in Nat \ {0} /\ Len(t) \in Nat
    BY <1>1, EmptySeq, LenProperties
  <1> DEFINE u == a \o t
  <1> HIDE DEF u
  <1>4. u \in Seq(Allowed) /\ Len(u) # 0 /\ u[1] = a[1]
    BY <1>2, <1>3 DEF u
  <1>5. u # <<>>
    BY <1>4, EmptySeq
  <1>6. Head(u) = Head(a)
    BY <1>1, <1>4, <1>5
  <1> QED
    BY <1>1, <1>4, <1>5, <1>6 DEF Clean, u

(* The base name of a joined path is what was joined. *)
LEMMA BasenameOfJoin ==
    ASSUME NEW d \in Seq(Characters), NEW b \in Seq(Allowed)
    PROVE  basename_from_path(join_output_path(d, b)) = b
PROOF
  <1>0. "/" \in Separators /\ "/" \in Characters
    BY FileNamesAssumption DEF Characters
  <1>1. CASE d \in {<<>>, <<".">>}
    <2>1. <<>> \in Seq(Characters) /\ <<>> \o b = b
      BY EmptySeq, ConcatEmptySeq
    <2>2. basename_from_path(<<>> \o b) = b
      BY <2>1, BasenameAfter
    <2> QED
      BY <1>1, <2>1, <2>2 DEF join_output_path
  <1>2. CASE d \notin {<<>>, <<".">>} /\ d[Len(d)] \in Separators
    BY <1>2, BasenameAfter DEF join_output_path
  <1>3. CASE d \notin {<<>>, <<".">>} /\ d[Len(d)] \notin Separators
    <2> DEFINE e == d \o <<"/">>
    <2>1. e \in Seq(Characters) /\ Len(e) = Len(d) + 1 /\ e[Len(d) + 1] = "/"
      BY <1>0
    <2>2. basename_from_path(e \o b) = b
      BY <1>0, <2>1, BasenameAfter
    <2> QED
      BY <1>3, <2>2 DEF join_output_path
  <1> QED
    BY <1>1, <1>2, <1>3

(* Names are paths, and concatenating paths is associative. *)
LEMMA Associative ==
    /\ Seq(Allowed) \subseteq Seq(Characters)
    /\ \A x, y, z \in Seq(Characters) : (x \o y) \o z = x \o (y \o z)
PROOF
  <1>1. ASSUME NEW x \in Seq(Characters), NEW y \in Seq(Characters), NEW z \in Seq(Characters)
        PROVE  (x \o y) \o z = x \o (y \o z)
    BY ConcatAssociative
  <1>2. Seq(Allowed) \subseteq Seq(Characters)
    BY SeqMonotonic DEF Characters
  <1> QED
    BY <1>1, <1>2

(* What is put after a joined path is put after its name. *)
LEMMA JoinConcat ==
    ASSUME NEW d \in Seq(Characters), NEW b \in Seq(Allowed), NEW t \in Seq(Allowed)
    PROVE  join_output_path(d, b) \o t = join_output_path(d, b \o t)
PROOF
  <1>0. /\ b \in Seq(Characters) /\ t \in Seq(Characters) /\ <<"/">> \in Seq(Characters)
        /\ d \o <<"/">> \in Seq(Characters)
    <2>1. Allowed \subseteq Characters /\ "/" \in Characters
      BY FileNamesAssumption DEF Characters
    <2>2. b \in Seq(Characters) /\ t \in Seq(Characters)
      BY <2>1, SeqMonotonic, Zenon
    <2>3. <<"/">> \in Seq(Characters)
      BY <2>1
    <2> QED
      BY <2>2, <2>3, ConcatProperties
  <1>1. (d \o b) \o t = d \o (b \o t)
    BY <1>0, Associative, SMTT(30)
  <1>2. (d \o <<"/">> \o b) \o t = d \o <<"/">> \o (b \o t)
    BY <1>0, Associative, SMTT(30)
  <1> QED
    BY <1>1, <1>2, Zenon DEF join_output_path

(* The names of the three files of a run, in its directory. *)
Names(a) == {Received \o a, Received \o a \o Suffix, Received \o a \o Suffix \o TmpSuffix}

LEMMA TouchedNames ==
    ASSUME NEW d \in Seq(Characters), NEW a, Clean(a)
    PROVE  /\ Touched(d, a) = {join_output_path(d, b) : b \in Names(a)}
           /\ \A b \in Names(a) : Clean(b)
PROOF
  <1>1. Suffix \in Seq(Allowed) /\ TmpSuffix \in Seq(Allowed) /\ a \in Seq(Allowed) /\ Clean(Received)
    BY FileNamesAssumption DEF Clean
  <1> DEFINE x == Received \o a
             y == x \o Suffix
             z == y \o TmpSuffix
  <1>2. Clean(x)
    BY <1>1, CleanConcat
  <1>3. Clean(y)
    BY <1>1, <1>2, CleanConcat
  <1>4. Clean(z)
    BY <1>1, <1>3, CleanConcat
  <1>5. OutputPath(d, a) = join_output_path(d, x)
    BY CleanStays DEF OutputPath
  <1>6. /\ join_output_path(d, x) \o Suffix = join_output_path(d, y)
        /\ join_output_path(d, y) \o TmpSuffix = join_output_path(d, z)
    <2>1. x \in Seq(Allowed) /\ y \in Seq(Allowed)
      BY <1>2, <1>3 DEF Clean
    <2> QED
      BY <1>1, <2>1, JoinConcat, ZenonT(30)
  <1>7. Touched(d, a) = {join_output_path(d, x), join_output_path(d, y), join_output_path(d, z)}
    BY <1>5, <1>6 DEF Touched, checkpoint_path_for_output
  <1>8. Names(a) = {x, y, z}
    BY DEF Names
  <1> HIDE DEF x, y, z
  <1> QED
    BY <1>2, <1>3, <1>4, <1>7, <1>8

(* For every directory and every name, however the peer spelled it: the      *)
(* output file, the sidecar and the temporary file lie in that directory and *)
(* are not hidden.                                                           *)
THEOREM RunsStayInside ==
    ASSUME NEW d \in Seq(Characters), NEW f \in Seq(Characters), NEW p \in Touched(d, f)
    PROVE  /\ p = join_output_path(d, basename_from_path(p))
           /\ Clean(basename_from_path(p))
PROOF
  <1> DEFINE a == sanitize_filename(f)
  <1>1. Clean(a)
    BY SanitizeCleans
  <1>2. sanitize_filename(a) = a
    BY <1>1, CleanStays
  <1>3. Touched(d, f) = Touched(d, a)
    BY <1>2, Zenon DEF Touched, OutputPath
  <1>4. PICK b \in Names(a) : p = join_output_path(d, b) /\ Clean(b)
    <2>1. Touched(d, a) = {join_output_path(d, b) : b \in Names(a)} /\ \A b \in Names(a) : Clean(b)
      BY <1>1, TouchedNames
    <2> HIDE DEF a
    <2> QED
      BY <1>3, <2>1
  <1>5. basename_from_path(p) = b
    BY <1>4, BasenameOfJoin DEF Clean
  <1> QED
    BY <1>4, <1>5

-----------------------------------------------------------------------------
(* The properties *)

\* A path is a sequence of characters.
PathType == path \in Seq(Characters)

LEMMA PathsAreTyped == NamesSpec => []PathType
PROOF
  <1>1. NamesInit => PathType
    BY EmptySeq DEF NamesInit, PathType
  <1>2. PathType /\ [NamesNext]_path => PathType'
    BY DEF NamesNext, Type, PathType
  <1> QED
    BY <1>1, <1>2, PTL DEF NamesSpec

(* What the sender announces is a clean name. *)
LEMMA AnnouncedClean ==
    ASSUME NEW p \in Seq(Characters)
    PROVE  Clean(Announced(p))
  BY BasenameType, SanitizeCleans DEF Announced

(* A path of any length typed at the sender gives the receiver a name that   *)
(* sanitize_filename does not change again, and a run that stays in its      *)
(* directory with files that are not hidden.                                 *)
THEOREM NamesStaySafe == NamesSpec => []NamesAreSafe
PROOF
  <1>1. ASSUME PathType PROVE NamesAreSafe
    <2> DEFINE name == Announced(path)
    <2>1. Clean(name)
      BY <1>1, AnnouncedClean DEF PathType
    <2>2. sanitize_filename(name) = name /\ name # <<>>
      BY <2>1, CleanStays DEF Clean
    <2>3. name \in Seq(Characters)
      BY <2>1, SeqMonotonic DEF Clean, Characters
    <2>4. Directories \subseteq Seq(Characters)
      <3>1. "." \in Characters /\ Allowed \cup Separators \subseteq Characters
        BY FileNamesAssumption DEF Characters
      <3>2. \A ch \in Characters : <<ch>> \in Seq(Characters)
        OBVIOUS
      <3>3. <<>> \in Seq(Characters)
        BY EmptySeq
      <3> QED
        BY <3>1, <3>2, <3>3, Zenon DEF Directories
    <2>5. ASSUME NEW d \in Directories, NEW p \in Touched(d, name)
          PROVE  /\ p = join_output_path(d, basename_from_path(p))
                 /\ basename_from_path(p) \in Seq(Allowed) /\ Head(basename_from_path(p)) # "."
      BY <2>3, <2>4, <2>5, RunsStayInside DEF Clean
    <2> QED
      BY <2>2, <2>5 DEF NamesAreSafe
  <1> QED
    BY <1>1, PathsAreTyped, PTL

(* A name and what its suffixes make of it. *)
Forms(a) == {a, a \o Suffix, a \o Suffix \o TmpSuffix}

LEMMA NamesOfForms ==
    ASSUME NEW a \in Seq(Allowed)
    PROVE  Names(a) = {Received \o x : x \in Forms(a)} /\ \A x \in Forms(a) : x \in Seq(Allowed)
PROOF
  <1>1. Suffix \in Seq(Allowed) /\ TmpSuffix \in Seq(Allowed) /\ Received \in Seq(Allowed)
    BY FileNamesAssumption
  <1> DEFINE y == a \o Suffix
             z == y \o TmpSuffix
  <1>2. y \in Seq(Allowed) /\ z \in Seq(Allowed)
    BY <1>1, ConcatProperties
  <1>3. Received \o a \o Suffix = Received \o y
    BY <1>1, Associative
  <1>4. Received \o y \o TmpSuffix = Received \o z
    BY <1>1, <1>2, Associative, SMTT(30)
  <1>5. Forms(a) = {a, y, z} /\ Names(a) = {Received \o a, Received \o y, Received \o z}
    BY <1>3, <1>4, Zenon DEF Forms, Names
  <1> HIDE DEF y, z
  <1> QED
    BY <1>2, <1>5

(* Sequences that end in different characters differ. *)
LEMMA OtherEnding ==
    ASSUME NEW x \in Seq(Allowed), NEW y \in Seq(Allowed),
           NEW s \in Seq(Allowed) \ {<<>>}, NEW t \in Seq(Allowed) \ {<<>>},
           s[Len(s)] # t[Len(t)]
    PROVE  x \o s # y \o t
PROOF
  <1>1. ASSUME NEW v \in Seq(Allowed), NEW w \in Seq(Allowed) \ {<<>>}
        PROVE  (v \o w)[Len(v \o w)] = w[Len(w)]
    <2>1. Len(v) \in Nat /\ Len(w) \in Nat \ {0}
      BY EmptySeq, LenProperties
    <2>2. Len(v \o w) = Len(v) + Len(w)
      BY ConcatProperties
    <2>3. Len(v) + Len(w) \in 1 .. Len(v) + Len(w) /\ ~(Len(v) + Len(w) <= Len(v))
          /\ Len(v) + Len(w) - Len(v) = Len(w)
      BY <2>1
    <2> QED
      BY <2>2, <2>3, ConcatProperties
  <1>2. (x \o s)[Len(x \o s)] = s[Len(s)] /\ (y \o t)[Len(y \o t)] = t[Len(t)]
    BY <1>1
  <1> QED
    BY <1>2, Zenon

(* A file with a suffix after its name is a file of another transfer only if *)
(* one of the two names is a form of the other: the two suffixes end in      *)
(* different characters, so one sidecar is never another's temporary file.   *)
LEMMA FormsMeet ==
    ASSUME NEW a \in Seq(Allowed), NEW b \in Seq(Allowed)
    PROVE  Forms(a) \cap Forms(b) # {} <=> a \in Forms(b) \/ b \in Forms(a)
PROOF
  <1>0. /\ Suffix \in Seq(Allowed) \ {<<>>} /\ TmpSuffix \in Seq(Allowed) \ {<<>>}
        /\ Suffix[Len(Suffix)] # TmpSuffix[Len(TmpSuffix)]
    BY FileNamesAssumption
  <1>1. a \in Forms(a) /\ b \in Forms(b)
    BY DEF Forms
  <1>2. /\ a \o Suffix \in Seq(Allowed) /\ b \o Suffix \in Seq(Allowed)
    BY <1>0, ConcatProperties
  <1>3. a \o Suffix = b \o Suffix => a = b
    BY <1>0, ConcatSimplifications, Zenon
  <1>4. a \o Suffix \o TmpSuffix = b \o Suffix \o TmpSuffix => a \o Suffix = b \o Suffix
    BY <1>0, <1>2, ConcatSimplifications, Zenon
  <1>5. a \o Suffix # b \o Suffix \o TmpSuffix /\ b \o Suffix # a \o Suffix \o TmpSuffix
    BY <1>0, <1>2, OtherEnding
  <1>6. ASSUME NEW x \in Forms(a), x \in Forms(b) PROVE a \in Forms(b) \/ b \in Forms(a)
    BY <1>3, <1>4, <1>5, <1>6, Zenon DEF Forms
  <1> QED
    BY <1>1, <1>6

(* Two transfers into one directory meet in some file exactly when the names *)
(* are the same once cleaned, or one's output is the other's sidecar or      *)
(* temporary file, for paths of any length.                                  *)
THEOREM TransfersMeet == NamesSpec => []PathsMeet
PROOF
  <1>1. ASSUME PathType PROVE PathsMeet
    <2> SUFFICES ASSUME NEW n \in 1 .. MaxPath - 2, NEW other \in [1 .. n -> Characters]
                 PROVE  LET a == Announced(path)
                            b == Announced(other)
                            Clash(x, y) == x \in {y, y \o Suffix, y \o Suffix \o TmpSuffix}
                        IN  Touched(<<>>, a) \cap Touched(<<>>, b) # {} <=> Clash(a, b) \/ Clash(b, a)
      BY DEF PathsMeet
    <2> DEFINE a == Announced(path)
               b == Announced(other)
    <2>1. other \in Seq(Characters)
      <3>1. n \in Nat
        <4>1. MaxPath \in Nat
          BY FileNamesAssumption
        <4> QED
          BY <4>1
      <3> QED
        BY <3>1
    <2>2. Clean(a) /\ Clean(b)
      BY <1>1, <2>1, AnnouncedClean DEF PathType
    <2> HIDE DEF a, b
    <2>3. a \in Seq(Allowed) /\ b \in Seq(Allowed)
      BY <2>2 DEF Clean
    <2>4. ASSUME NEW c, Clean(c) PROVE Touched(<<>>, c) = {Received \o x : x \in Forms(c)}
      <3>1. c \in Seq(Allowed) /\ <<>> \in Seq(Characters)
        BY <2>4, EmptySeq DEF Clean
      <3>2. \A x : join_output_path(<<>>, x) = x
        BY DEF join_output_path
      <3>3. Touched(<<>>, c) = {join_output_path(<<>>, x) : x \in Names(c)}
        BY <2>4, <3>1, TouchedNames
      <3>4. Touched(<<>>, c) = Names(c)
        BY <3>2, <3>3, Zenon
      <3> QED
        BY <3>1, <3>4, NamesOfForms
    <2>5. ASSUME NEW x \in Forms(a), NEW y \in Forms(b), Received \o x = Received \o y PROVE x = y
      <3>1. x \in Seq(Allowed) /\ y \in Seq(Allowed) /\ Received \in Seq(Allowed)
        BY <2>3, NamesOfForms, FileNamesAssumption
      <3> QED
        BY <2>5, <3>1, ConcatSimplifications, Zenon
    <2>6. Touched(<<>>, a) \cap Touched(<<>>, b) # {} <=> Forms(a) \cap Forms(b) # {}
      <3>1. /\ Touched(<<>>, a) = {Received \o x : x \in Forms(a)}
            /\ Touched(<<>>, b) = {Received \o y : y \in Forms(b)}
        BY <2>2, <2>4
      <3>2. ASSUME NEW p \in Touched(<<>>, a), p \in Touched(<<>>, b) PROVE Forms(a) \cap Forms(b) # {}
        <4>1. PICK x \in Forms(a) : p = Received \o x
          BY <3>1
        <4>2. PICK y \in Forms(b) : p = Received \o y
          BY <3>1, <3>2
        <4> QED
          BY <2>5, <4>1, <4>2
      <3>3. ASSUME NEW x \in Forms(a), x \in Forms(b) PROVE Received \o x \in Touched(<<>>, a) \cap Touched(<<>>, b)
        BY <3>1, <3>3
      <3> QED
        BY <3>2, <3>3
    <2>7. Touched(<<>>, a) \cap Touched(<<>>, b) # {} <=> a \in Forms(b) \/ b \in Forms(a)
      BY <2>3, <2>6, FormsMeet
    <2> QED
      BY <2>7 DEF Forms, a, b
  <1> QED
    BY <1>1, PathsAreTyped, PTL

-----------------------------------------------------------------------------
(* Digests *)

(* Everything that was put into a Sha256 object, in order. *)
Joined(s) == s.hashed \o s.buffer

(* The objects that update leaves behind: whole blocks are hashed, and the   *)
(* buffer is not full.                                                       *)
Objects(E) ==
    {s \in [buffer : Seq(E), bit_count : Nat, hashed : Seq(E)] :
        Len(s.buffer) < Block /\ \E q \in Nat : Len(s.hashed) = q * Block}

(* Sequences over E can be put together in either order. *)
Chain(E) ==
    /\ \A x, y \in Seq(E) : x \o y \in Seq(E) /\ Len(x \o y) = Len(x) + Len(y)
    /\ \A x, y, z, w \in Seq(E) : (x \o y) \o (z \o w) = (x \o (y \o z)) \o w
    /\ \A x, y \in Seq(E), c \in E : Append(x \o y, c) = x \o Append(y, c)

LEMMA Chains == ASSUME NEW E PROVE Chain(E)
PROOF
  <1>1. ASSUME NEW x \in Seq(E), NEW y \in Seq(E)
        PROVE  x \o y \in Seq(E) /\ Len(x \o y) = Len(x) + Len(y)
    OBVIOUS
  <1>a. ASSUME NEW x \in Seq(E), NEW y \in Seq(E), NEW z \in Seq(E)
        PROVE  (x \o y) \o z = x \o (y \o z)
    BY ConcatAssociative
  <1>2. ASSUME NEW x \in Seq(E), NEW y \in Seq(E), NEW z \in Seq(E), NEW w \in Seq(E)
        PROVE  (x \o y) \o (z \o w) = (x \o (y \o z)) \o w
    <2>0. x \o y \in Seq(E)
      OBVIOUS
    <2>1. PICK u \in Seq(E) : u = x \o y
      BY <2>0, Zenon
    <2>a. (u \o z) \o w = u \o (z \o w)
      BY <1>a
    <2>2. (x \o y) \o (z \o w) = ((x \o y) \o z) \o w
      <3> DEFINE v == z \o w
      <3>1. (u \o z) \o w = u \o v
        BY <2>a
      <3> HIDE DEF v
      <3>2. ((x \o y) \o z) \o w = (x \o y) \o v
        BY <2>1, <3>1, Zenon
      <3> QED
        BY <3>2, Zenon DEF v
    <2>3. (x \o y) \o z = x \o (y \o z)
      BY <1>a, ZenonT(60)
    <2> QED
      BY <2>2, <2>3, Zenon
  <1>3. ASSUME NEW x \in Seq(E), NEW y \in Seq(E), NEW c \in E
        PROVE  Append(x \o y, c) = x \o Append(y, c)
    OBVIOUS
  <1> QED
    BY <1>1, <1>2, <1>3, Zenon DEF Chain

(* One byte is put behind the others. *)
LEMMA PutOne ==
    ASSUME NEW E, NEW s \in Objects(E), NEW byte \in E
    PROVE  /\ Put(s, byte) \in Objects(E)
           /\ Joined(Put(s, byte)) = Append(Joined(s), byte)
           /\ Put(s, byte).bit_count = s.bit_count
PROOF
  <1> DEFINE filled == Append(s.buffer, byte)
  <1>1. /\ s \in [buffer : Seq(E), bit_count : Nat, hashed : Seq(E)]
        /\ s.buffer \in Seq(E) /\ s.hashed \in Seq(E) /\ s.bit_count \in Nat
        /\ Len(s.buffer) < Block /\ Block \in Nat \ {0}
    BY Sha256Assumption DEF Objects
  <1>2. PICK q \in Nat : Len(s.hashed) = q * Block
    BY DEF Objects
  <1>3. filled \in Seq(E) /\ Len(filled) = Len(s.buffer) + 1
    BY <1>1
  <1>4. s.hashed \o filled = Append(s.hashed \o s.buffer, byte)
    <2>1. Chain(E)
      BY Chains
    <2>2. Append(s.hashed \o s.buffer, byte) = s.hashed \o Append(s.buffer, byte)
      <3>1. \A x, y \in Seq(E), c \in E : Append(x \o y, c) = x \o Append(y, c)
        BY <2>1 DEF Chain
      <3>2. \A y \in Seq(E), c \in E : Append(s.hashed \o y, c) = s.hashed \o Append(y, c)
        BY <1>1, <3>1, Zenon
      <3> QED
        BY <1>1, <3>2, Zenon
    <2> QED
      BY <2>2
  <1> HIDE DEF filled
  <1>5. CASE Len(filled) < Block
    <2> DEFINE t == [s EXCEPT !.buffer = filled]
    <2>1. Put(s, byte) = t
      BY <1>5 DEF Put, filled
    <2>2. /\ t \in [buffer : Seq(E), bit_count : Nat, hashed : Seq(E)]
          /\ t.buffer = filled /\ t.hashed = s.hashed /\ t.bit_count = s.bit_count
      BY <1>1, <1>3
    <2> HIDE DEF t
    <2>3. t \in Objects(E)
      BY <1>2, <1>5, <2>2 DEF Objects
    <2> QED
      BY <1>4, <2>1, <2>2, <2>3 DEF Joined
  <1>6. CASE ~(Len(filled) < Block)
    <2> DEFINE t == [s EXCEPT !.buffer = <<>>, !.hashed = @ \o filled]
    <2>1. Put(s, byte) = t
      BY <1>6 DEF Put, filled
    <2>a. <<>> \in Seq(E) /\ s.hashed \o filled \in Seq(E)
      BY <1>1, <1>3
    <2>2. /\ t \in [buffer : Seq(E), bit_count : Nat, hashed : Seq(E)]
          /\ t.buffer = <<>> /\ t.hashed = s.hashed \o filled /\ t.bit_count = s.bit_count
      <3> HIDE DEF filled
      <3> QED
        BY <1>1, <2>a
    <2>3. Len(filled) = Block
      BY <1>1, <1>3, <1>6
    <2>4. Len(s.hashed \o filled) = (q + 1) * Block
      <3>1. Len(s.hashed \o filled) = q * Block + Block
        <4>1. Chain(E)
          BY Chains
        <4>2. Len(s.hashed \o filled) = Len(s.hashed) + Len(filled)
          BY <1>1, <1>3, <4>1, Zenon DEF Chain
        <4> QED
          BY <1>2, <2>3, <4>2, Zenon
      <3>2. q * Block + Block = (q + 1) * Block
        BY <1>1, SMT
      <3> QED
        BY <3>1, <3>2
    <2>5. q + 1 \in Nat /\ Len(<<>>) < Block
      BY <1>1
    <2> HIDE DEF t
    <2>6. t \in Objects(E)
      BY <2>2, <2>4, <2>5, Zenon DEF Objects
    <2>7. (s.hashed \o filled) \o <<>> = s.hashed \o filled
      BY <1>1, <1>3
    <2> QED
      BY <1>4, <2>1, <2>2, <2>6, <2>7 DEF Joined
  <1> QED
    BY <1>5, <1>6

(* All bytes are put behind the others, in order, none twice and none left   *)
(* out, wherever the blocks end.                                             *)
LEMMA PutMany ==
    ASSUME NEW E, NEW s \in Objects(E), NEW bytes \in Seq(E)
    PROVE  /\ PutAll(s, bytes) \in Objects(E)
           /\ Joined(PutAll(s, bytes)) = Joined(s) \o bytes
           /\ PutAll(s, bytes).bit_count = s.bit_count
PROOF
  <1> DEFINE n == Len(bytes)
             Eq(f) == f = [k \in 0 .. n |-> IF k = 0 THEN s ELSE Put(f[k - 1], bytes[k])]
             after == CHOOSE f : Eq(f)
  <1>1. n \in Nat /\ \A k \in 1 .. n : bytes[k] \in E
    OBVIOUS
  <1>2. PutAll(s, bytes) = after[n]
    BY DEF PutAll
  <1> DEFINE G == [k \in 1 .. n |-> [t \in Objects(E) |-> Put(t, bytes[k])]]
  <1>3. G \in Steps(n, Objects(E))
    BY <1>1, PutOne DEF Steps
  <1> HIDE DEF n
  <1>4. PICK g \in Values(n, Objects(E)) : Unrolls(g, n, s, G)
    <2> HIDE DEF G
    <2> QED
      BY <1>1, <1>3, Recursive, Zenon
  <1>5. ASSUME NEW k \in 1 .. n PROVE g[k] = Put(g[k - 1], bytes[k])
    <2>1. g[k - 1] \in Objects(E)
      BY <1>1 DEF Values
    <2> QED
      BY <1>4, <2>1 DEF Unrolls
  <1>6. Eq(g)
    <2>1. \A k \in 0 .. n : g[k] = IF k = 0 THEN s ELSE Put(g[k - 1], bytes[k])
      BY <1>1, <1>4, <1>5 DEF Unrolls
    <2> QED
      BY <2>1 DEF Values
  <1>7. Eq(after)
    BY <1>6, Zenon
  <1> HIDE DEF after
  <1>8. after[0] = s /\ \A k \in 1 .. n : after[k] = Put(after[k - 1], bytes[k])
    BY <1>1, <1>7
  <1> DEFINE Done(k) == /\ after[k] \in Objects(E)
                        /\ after[k].bit_count = s.bit_count
                        /\ Joined(after[k]) = Joined(s) \o SubSeq(bytes, 1, k)
             T == {k \in 0 .. n : Done(k)}
  <1>9. Joined(s) \in Seq(E)
    BY DEF Joined, Objects
  <1>10. 0 \in T
    <2>1. SubSeq(bytes, 1, 0) = <<>>
      BY EmptySeq
    <2>2. Joined(s) \o <<>> = Joined(s)
      BY <1>9
    <2>3. Done(0)
      BY <1>8, <2>1, <2>2
    <2> QED
      BY <1>1, <2>3
  <1>11. ASSUME NEW k \in 1 .. n, k - 1 \in T PROVE k \in T
    <2>1. Done(k - 1)
      BY <1>11
    <2>2. bytes[k] \in E /\ after[k] = Put(after[k - 1], bytes[k])
      BY <1>1, <1>8
    <2>3. /\ after[k] \in Objects(E)
          /\ Joined(after[k]) = Append(Joined(after[k - 1]), bytes[k])
          /\ after[k].bit_count = s.bit_count
      <3>1. PICK u \in Objects(E) : u = after[k - 1]
        BY <2>1
      <3> HIDE DEF Done
      <3>2. /\ Put(u, bytes[k]) \in Objects(E)
            /\ Joined(Put(u, bytes[k])) = Append(Joined(u), bytes[k])
            /\ Put(u, bytes[k]).bit_count = u.bit_count
        BY <2>2, PutOne
      <3> QED
        BY <2>1, <2>2, <3>1, <3>2 DEF Done
    <2>4. Append(Joined(s) \o SubSeq(bytes, 1, k - 1), bytes[k]) = Joined(s) \o SubSeq(bytes, 1, k)
      <3>1. SubSeq(bytes, 1, k) = Append(SubSeq(bytes, 1, k - 1), bytes[k])
        BY <1>1 DEF n
      <3>2. SubSeq(bytes, 1, k - 1) \in Seq(E)
        BY <1>1 DEF n
      <3>3. Chain(E)
        BY Chains
      <3>4. Append(Joined(s) \o SubSeq(bytes, 1, k - 1), bytes[k])
            = Joined(s) \o Append(SubSeq(bytes, 1, k - 1), bytes[k])
        BY <1>9, <2>2, <3>2, <3>3, Zenon DEF Chain
      <3> QED
        BY <3>1, <3>4, Zenon
    <2>5. Done(k)
      BY <2>1, <2>3, <2>4
    <2> QED
      BY <2>5
  <1> HIDE DEF T
  <1>12. n \in T
    <2>1. \A k \in 0 .. n : k \in T
      BY <1>1, <1>10, <1>11, UpTo
    <2> QED
      BY <1>1, <2>1
  <1>13. Done(n)
    BY <1>12 DEF T
  <1>14. SubSeq(bytes, 1, n) = bytes
    BY DEF n
  <1> QED
    BY <1>2, <1>13, <1>14

(* The bytes of a file one after the other, and zeros. *)
LEMMA Pieces ==
    /\ \A a, b \in Nat : a <= b =>
          /\ FileBytes(a, b) \in Seq(Int) /\ Len(FileBytes(a, b)) = b - a
          /\ FileBytes(0, a) \o FileBytes(a, b) = FileBytes(0, b)
    /\ \A a, b \in Nat :
          /\ Zeros(a) \in Seq(Int) /\ Len(Zeros(a)) = a
          /\ Zeros(a) \o Zeros(b) = Zeros(a + b)
PROOF
  <1>1. ASSUME NEW a \in Nat, NEW b \in Nat, a <= b
        PROVE  FileBytes(a, b) \in Seq(Int) /\ Len(FileBytes(a, b)) = b - a
    BY <1>1 DEF FileBytes
  <1>2. ASSUME NEW a \in Nat, NEW b \in Nat, a <= b
        PROVE  FileBytes(0, a) \o FileBytes(a, b) = FileBytes(0, b)
    <2>1. /\ FileBytes(0, a) \in Seq(Int) /\ Len(FileBytes(0, a)) = a
          /\ FileBytes(a, b) \in Seq(Int) /\ Len(FileBytes(a, b)) = b - a
          /\ FileBytes(0, b) \in Seq(Int) /\ Len(FileBytes(0, b)) = b
      <3>1. 0 \in Nat /\ 0 <= a /\ 0 <= b /\ a - 0 = a /\ b - 0 = b
        OBVIOUS
      <3> QED
        BY <1>1, <1>2, <3>1, Zenon
    <2> DEFINE j == FileBytes(0, a) \o FileBytes(a, b)
    <2>2. /\ j \in Seq(Int) /\ Len(j) = b
          /\ \A i \in 1 .. b : j[i] = IF i <= a THEN FileBytes(0, a)[i] ELSE FileBytes(a, b)[i - a]
      <3> DEFINE x == FileBytes(0, a)
                 y == FileBytes(a, b)
      <3>1. x \in Seq(Int) /\ y \in Seq(Int) /\ Len(x) = a /\ Len(y) = b - a
        BY <2>1
      <3> HIDE DEF x, y
      <3>2. /\ x \o y \in Seq(Int) /\ Len(x \o y) = Len(x) + Len(y)
            /\ \A i \in 1 .. Len(x) + Len(y) : (x \o y)[i] = IF i <= Len(x) THEN x[i] ELSE y[i - Len(x)]
        BY <3>1, ConcatProperties, Zenon
      <3>3. a + (b - a) = b
        OBVIOUS
      <3>4. /\ x \o y \in Seq(Int) /\ Len(x \o y) = b
            /\ \A i \in 1 .. b : (x \o y)[i] = IF i <= a THEN x[i] ELSE y[i - a]
        BY <3>1, <3>2, <3>3, Zenon
      <3> QED
        BY <3>4 DEF x, y
    <2>3. ASSUME NEW i \in 1 .. b PROVE j[i] = FileBytes(0, b)[i]
      <3>1. FileBytes(0, b)[i] = i
        BY DEF FileBytes
      <3>2. CASE i <= a
        <4>1. FileBytes(0, a)[i] = i
          BY <3>2 DEF FileBytes
        <4> QED
          BY <2>2, <3>1, <3>2, <4>1
      <3>3. CASE ~(i <= a)
        <4>1. i - a \in 1 .. b - a
          BY <3>3
        <4>2. FileBytes(a, b)[i - a] = a + (i - a)
          BY <4>1 DEF FileBytes
        <4> QED
          BY <2>2, <3>1, <3>3, <4>2
      <3> QED
        BY <3>2, <3>3
    <2> HIDE DEF j
    <2>4. j = FileBytes(0, b)
      BY <2>1, <2>2, <2>3, SeqEqual
    <2> QED
      BY <2>4 DEF j
  <1>3. ASSUME NEW a \in Nat PROVE Zeros(a) \in Seq(Int) /\ Len(Zeros(a)) = a
    BY DEF Zeros
  <1>4. ASSUME NEW a \in Nat, NEW b \in Nat PROVE Zeros(a) \o Zeros(b) = Zeros(a + b)
    BY DEF Zeros
  <1> QED
    BY <1>1, <1>2, <1>3, <1>4

(* update counts the bits and puts all of the bytes; the count of a file     *)
(* that can be looked at does not wrap around.                               *)
LEMMA Updated ==
    ASSUME NEW E, NEW s \in Objects(E), NEW bytes \in Seq(E), NEW c \in Nat, NEW l \in Lengths,
           s.bit_count = 8 * c, c + Len(bytes) <= l
    PROVE  /\ update(s, bytes) \in Objects(E)
           /\ Joined(update(s, bytes)) = Joined(s) \o bytes
           /\ update(s, bytes).bit_count = 8 * (c + Len(bytes))
PROOF
  <1> DEFINE P == Radix^LengthBytes
             b == (s.bit_count + Len(bytes) * 8) % P
             t == [s EXCEPT !.bit_count = b]
  <1>1. P \in Nat \ {0} /\ (l = 0 \/ l \in 1 .. P \div 8 - 1)
    BY Sha256Assumption
  <1> HIDE DEF P
  <1>2. Len(bytes) \in Nat
    OBVIOUS
  <1>3. 8 * (c + Len(bytes)) < P
    BY <1>1, <1>2
  <1>4. b = 8 * (c + Len(bytes))
    BY <1>1, <1>2, <1>3
  <1>5. b \in Nat
    BY <1>2, <1>4
  <1> HIDE DEF b
  <1>6. /\ s \in [buffer : Seq(E), bit_count : Nat, hashed : Seq(E)]
        /\ t \in [buffer : Seq(E), bit_count : Nat, hashed : Seq(E)]
        /\ t.buffer = s.buffer /\ t.hashed = s.hashed /\ t.bit_count = b
    BY <1>5 DEF Objects
  <1> HIDE DEF t
  <1>7. t \in Objects(E) /\ Joined(t) = Joined(s)
    BY <1>6 DEF Objects, Joined
  <1>8. update(s, bytes) = PutAll(t, bytes)
    BY DEF update, t, b, P
  <1> HIDE DEF Joined
  <1>9. /\ PutAll(t, bytes) \in Objects(E)
        /\ Joined(PutAll(t, bytes)) = Joined(t) \o bytes
        /\ PutAll(t, bytes).bit_count = t.bit_count
    BY <1>7, PutMany
  <1> QED
    BY <1>4, <1>6, <1>7, <1>8, <1>9, Zenon

(* Only one number below B makes up for a remainder. *)
LEMMA OneRemainder ==
    ASSUME NEW B \in Nat \ {0}, NEW t \in Nat, NEW x \in 0 .. B - 1, NEW y \in 0 .. B,
           NEW p \in Nat, t + x = p * B, (t + y) % B = 0
    PROVE  x <= y
PROOF
  <1> SUFFICES ASSUME y < x PROVE FALSE
    OBVIOUS
  <1>1. PICK q \in Nat : t + y = q * B
    <2>1. PICK z \in Nat : z = t + y
      OBVIOUS
    <2>2. z \div B \in Nat /\ z = (z \div B) * B + (z % B)
      BY SMT
    <2> QED
      BY <2>1, <2>2
  <1>2. p * B = q * B + (x - y) /\ 0 < x - y /\ x - y < B
    BY <1>1
  <1>3. CASE p <= q
    <2>1. PICK d \in Nat : q = p + d
      BY <1>3, SMT
    <2>2. q * B = p * B + d * B /\ d * B \in Nat /\ p * B \in Nat
      BY <2>1, SMT
    <2> QED
      BY <1>2, <2>2
  <1>4. CASE ~(p <= q)
    <2>1. PICK d \in Nat : p = q + 1 + d
      <3>1. p - q - 1 \in Nat /\ p = q + 1 + (p - q - 1)
        BY <1>4
      <3> QED
        BY <3>1
    <2>2. p * B = q * B + B + d * B /\ d * B \in Nat /\ q * B \in Nat
      BY <2>1, SMT
    <2> QED
      BY <1>2, <2>2
  <1> QED
    BY <1>3, <1>4

(* A number and its remainder: the buffer holds what does not fill a block,  *)
(* and nothing after a whole number of blocks.                               *)
LEMMA WholeBlocks ==
    ASSUME NEW E, NEW s \in Objects(E), NEW p \in Nat, Len(Joined(s)) = p * Block
    PROVE  s.buffer = <<>> /\ s.hashed = Joined(s)
PROOF
  <1>1. /\ s.buffer \in Seq(E) /\ s.hashed \in Seq(E)
        /\ Len(s.buffer) < Block /\ Len(s.buffer) \in Nat /\ Block \in Nat \ {0}
    BY Sha256Assumption DEF Objects
  <1>2. PICK q \in Nat : Len(s.hashed) = q * Block
    BY DEF Objects
  <1>3. q * Block + Len(s.buffer) = p * Block
    <2>1. Len(s.hashed \o s.buffer) = Len(s.hashed) + Len(s.buffer)
      BY <1>1
    <2> QED
      BY <1>2, <2>1 DEF Joined
  <1>4. Len(s.buffer) = 0
    <2> DEFINE r == Len(s.buffer)
    <2> SUFFICES ASSUME r # 0 PROVE FALSE
      OBVIOUS
    <2>0. r \in Nat /\ r < Block /\ q * Block + r = p * Block
      BY <1>1, <1>3
    <2> HIDE DEF r
    <2>1. CASE p <= q
      <3>1. PICK d \in Nat : q = p + d
        BY <2>1, SMT
      <3>2. q * Block = p * Block + d * Block /\ d * Block \in Nat /\ p * Block \in Nat
        BY <1>1, <3>1, SMT
      <3> QED
        BY <1>1, <2>0, <3>2
    <2>2. CASE ~(p <= q)
      <3>1. PICK d \in Nat : p = q + 1 + d
        <4>1. p - q - 1 \in Nat /\ p = q + 1 + (p - q - 1)
          BY <2>2
        <4> QED
          BY <4>1
      <3>2. p * Block = q * Block + Block + d * Block /\ d * Block \in Nat /\ q * Block \in Nat
        BY <1>1, <3>1, SMT
      <3> QED
        BY <1>1, <2>0, <3>2
    <2> QED
      BY <2>1, <2>2
  <1>5. s.buffer = <<>>
    BY <1>1, <1>4, EmptySeq
  <1> QED
    BY <1>1, <1>5 DEF Joined

(* final_hex pads the message as the standard says, in the last block or in  *)
(* one more: what has been hashed then is the padded message, with nothing   *)
(* left over.                                                                *)
LEMMA Finished ==
    ASSUME NEW E, Int \subseteq E, NEW s \in Objects(E), NEW l \in Nat,
           Joined(s) = FileBytes(0, l), s.bit_count = 8 * l, BigEndian(8 * l) \in Seq(E)
    PROVE  LET zeros == Min({k \in 0 .. Block : (l + 1 + k + LengthBytes) % Block = 0})
           IN  /\ final_hex(s).buffer = <<>>
               /\ final_hex(s).hashed
                  = FileBytes(0, l) \o <<Marker>> \o Zeros(zeros) \o BigEndian(8 * l)
PROOF
  <1> DEFINE file == FileBytes(0, l)
             end == BigEndian(8 * l)
             marked == PutAll(s, <<Marker>>)
             one == IF Len(marked.buffer) > Block - LengthBytes THEN Block - Len(marked.buffer) ELSE 0
             room == IF Len(marked.buffer) > Block - LengthBytes THEN PutAll(marked, Zeros(one)) ELSE marked
             two == Block - LengthBytes - Len(room.buffer)
             done == PutAll(room, Zeros(two) \o end)
  <1>0. Chain(E)
    BY Chains
  <1>1. Block \in Nat /\ LengthBytes \in 1 .. Block - 1 /\ Block \in Nat \ {0}
    BY Sha256Assumption
  <1>2. final_hex(s) = done
    BY DEF final_hex
  <1>3. /\ \A n \in Nat : Zeros(n) \in Seq(E) /\ Len(Zeros(n)) = n
        /\ file \in Seq(E) /\ Len(file) = l
        /\ <<Marker>> \in Seq(E) /\ Len(<<Marker>>) = 1
    <2>1. ASSUME NEW x \in Seq(Int) PROVE x \in Seq(E)
      BY SeqMonotonic
    <2>2. <<Marker>> \in Seq(Int)
      BY DEF Marker
    <2>3. 0 \in Nat /\ 0 <= l /\ l - 0 = l
      OBVIOUS
    <2> QED
      BY <2>1, <2>2, <2>3, Pieces
  <1>4. end \in Seq(E) /\ Len(end) = LengthBytes
    BY <1>1 DEF BigEndian
  <1> HIDE DEF file, end
  <1>5. marked \in Objects(E) /\ Joined(marked) = file \o <<Marker>>
    BY <1>3, PutMany DEF file
  <1>6. Len(Joined(marked)) = l + 1
    BY <1>3, <1>5
  <1> HIDE DEF marked
  <1>7. PICK p \in Nat : l + 1 = p * Block + Len(marked.buffer)
    <2>1. /\ marked.buffer \in Seq(E) /\ marked.hashed \in Seq(E)
          /\ \E q \in Nat : Len(marked.hashed) = q * Block
      BY <1>5 DEF Objects
    <2>2. Len(Joined(marked)) = Len(marked.hashed) + Len(marked.buffer)
      BY <1>0, <2>1, Zenon DEF Chain, Joined
    <2> QED
      BY <1>6, <2>1, <2>2
  <1>8. Len(marked.buffer) \in Nat /\ Len(marked.buffer) < Block
    BY <1>5 DEF Objects
  <1>a. PICK r \in 0 .. Block - 1 : r = Len(marked.buffer)
    BY <1>1, <1>8
  <1>b. PICK whole \in Nat : whole = p * Block
    BY <1>1, SMT
  <1>c. l + 1 = whole + r
    BY <1>7, <1>a, <1>b
  <1>9. one \in Nat /\ one < Block
    BY <1>1, <1>8
  <1>10. /\ room \in Objects(E)
         /\ Joined(room) = (file \o <<Marker>>) \o Zeros(one)
         /\ Len(room.buffer) = IF Len(marked.buffer) > Block - LengthBytes
                               THEN 0 ELSE Len(marked.buffer)
    <2>1. CASE Len(marked.buffer) > Block - LengthBytes
      <3>1. room = PutAll(marked, Zeros(one)) /\ one = Block - Len(marked.buffer)
        BY <2>1
      <3> HIDE DEF one, room
      <3>2. room \in Objects(E) /\ Joined(room) = Joined(marked) \o Zeros(one)
        BY <1>3, <1>5, <1>9, <3>1, PutMany
      <3>3. Len(Joined(room)) = l + 1 + one
        <4>1. Joined(marked) \in Seq(E) /\ Zeros(one) \in Seq(E) /\ Len(Zeros(one)) = one
          BY <1>3, <1>5, <1>9
        <4>2. Len(Joined(marked) \o Zeros(one)) = Len(Joined(marked)) + Len(Zeros(one))
          BY <1>0, <4>1, Zenon DEF Chain
        <4> QED
          BY <1>6, <3>2, <4>1, <4>2, Zenon
      <3>4. l + 1 + one = (p + 1) * Block /\ p + 1 \in Nat
        <4>1. (p + 1) * Block = p * Block + Block
          BY <1>1, SMT
        <4>2. one = Block - r
          BY <1>a, <3>1
        <4>3. l + 1 + one = whole + Block
          BY <1>1, <1>c, <4>2
        <4> QED
          BY <1>b, <4>1, <4>3
      <3>5. room.buffer = <<>>
        BY <3>2, <3>3, <3>4, WholeBlocks
      <3> QED
        BY <1>5, <2>1, <3>2, <3>5
    <2>2. CASE ~(Len(marked.buffer) > Block - LengthBytes)
      <3>1. Zeros(0) = <<>>
        BY DEF Zeros
      <3>2. (file \o <<Marker>>) \in Seq(E)
        BY <1>3
      <3>3. (file \o <<Marker>>) \o <<>> = file \o <<Marker>>
        BY <3>2, ConcatEmptySeq
      <3> QED
        BY <1>5, <2>2, <3>1, <3>3
    <2> QED
      BY <2>1, <2>2
  <1> HIDE DEF room
  <1>11. /\ two \in Nat
         /\ one + two < Block
         /\ \E q \in Nat : l + 1 + one + two + LengthBytes = q * Block
    <2>0. (p + 1) * Block = whole + Block /\ (p + 2) * Block = whole + Block + Block
      BY <1>1, <1>b, SMT
    <2> HIDE DEF one, two
    <2>1. CASE r > Block - LengthBytes
      <3>1. one = Block - r /\ two = Block - LengthBytes
        BY <1>1, <1>10, <1>a, <2>1 DEF one, two
      <3>2. l + 1 + one + two + LengthBytes = whole + Block + Block
        BY <1>1, <1>c, <3>1
      <3>3. two \in Nat /\ one + two < Block
        BY <1>1, <2>1, <3>1
      <3> QED
        BY <2>0, <3>2, <3>3
    <2>2. CASE ~(r > Block - LengthBytes)
      <3>1. one = 0 /\ two = Block - LengthBytes - r
        BY <1>1, <1>10, <1>a, <2>2 DEF one, two
      <3>2. l + 1 + one + two + LengthBytes = whole + Block
        BY <1>1, <1>c, <3>1
      <3>3. two \in Nat /\ one + two < Block
        BY <1>1, <2>2, <3>1
      <3> QED
        BY <2>0, <3>2, <3>3
    <2> QED
      BY <2>1, <2>2
  <1> HIDE DEF one, two
  <1> DEFINE Z == {k \in 0 .. Block : (l + 1 + k + LengthBytes) % Block = 0}
  <1>12. Min(Z) = one + two
    <2>1. PICK q \in Nat : l + 1 + (one + two) + LengthBytes = q * Block
      BY <1>9, <1>11
    <2>2. (q * Block) % Block = 0
      BY <1>1, SMT
    <2>3. one + two \in Z
      BY <1>1, <1>9, <1>11, <2>1, <2>2
    <2>4. ASSUME NEW k \in Z PROVE one + two <= k
      <3> DEFINE t == l + 1 + LengthBytes
      <3>1. t \in Nat /\ k \in 0 .. Block /\ t + k = l + 1 + k + LengthBytes
        BY <1>1
      <3>2. (t + k) % Block = 0
        BY <3>1
      <3>3. t + (one + two) = q * Block /\ one + two \in 0 .. Block - 1
        BY <1>1, <1>9, <1>11, <2>1
      <3> HIDE DEF t, Z
      <3> QED
        BY <1>1, <3>1, <3>2, <3>3, OneRemainder
    <2>5. Z \subseteq Int /\ one + two \in Int
      BY <1>1, <1>9, <1>11
    <2> HIDE DEF Z
    <2>6. Min(Z) \in Z /\ \A y \in Z : Min(Z) <= y
      BY <2>3, <2>4, Zenon DEF Min
    <2>7. Min(Z) \in Int /\ Min(Z) <= one + two /\ one + two <= Min(Z)
      BY <2>3, <2>4, <2>5, <2>6, Zenon
    <2> QED
      BY <2>5, <2>7
  <1> DEFINE front == file \o <<Marker>>
  <1>13. Joined(done) = ((front \o Zeros(one + two)) \o end) /\ done \in Objects(E)
    <2>1. /\ front \in Seq(E) /\ Zeros(one) \in Seq(E) /\ Zeros(two) \in Seq(E)
          /\ front \o Zeros(one) \in Seq(E) /\ Zeros(two) \o end \in Seq(E)
      BY <1>3, <1>4, <1>9, <1>11
    <2>2. done \in Objects(E) /\ Joined(done) = (front \o Zeros(one)) \o (Zeros(two) \o end)
      BY <1>10, <2>1, PutMany
    <2> HIDE DEF front
    <2>4. (front \o Zeros(one)) \o (Zeros(two) \o end) = (front \o (Zeros(one) \o Zeros(two))) \o end
      <3>1. PICK a \in Seq(E) : a = front
        BY <2>1
      <3>2. PICK b \in Seq(E), c \in Seq(E) : b = Zeros(one) /\ c = Zeros(two)
        BY <2>1
      <3>3. PICK d \in Seq(E) : d = end
        BY <1>4
      <3>4. (a \o b) \o (c \o d) = (a \o (b \o c)) \o d
        <4>1. \A y, z, v \in Seq(E) : (a \o y) \o (z \o v) = (a \o (y \o z)) \o v
          BY <1>0, Zenon DEF Chain
        <4>2. \A z, v \in Seq(E) : (a \o b) \o (z \o v) = (a \o (b \o z)) \o v
          BY <4>1, Zenon
        <4> QED
          BY <4>2, Zenon
      <3> QED
        BY <3>1, <3>2, <3>3, <3>4, Zenon
    <2>5. Zeros(one) \o Zeros(two) = Zeros(one + two)
      BY <1>9, <1>11, Pieces
    <2> QED
      BY <2>2, <2>4, <2>5
  <1>14. \E q \in Nat : Len(Joined(done)) = q * Block
    <2>1. one + two \in Nat
      BY <1>9, <1>11
    <2>2. front \in Seq(E) /\ Len(front) = l + 1
      BY <1>3
    <2>3. Zeros(one + two) \in Seq(E) /\ Len(Zeros(one + two)) = one + two
      BY <1>3, <2>1
    <2> HIDE DEF front
    <2>4. front \o Zeros(one + two) \in Seq(E) /\ Len(front \o Zeros(one + two)) = l + 1 + (one + two)
      <3>1. /\ front \o Zeros(one + two) \in Seq(E)
            /\ Len(front \o Zeros(one + two)) = Len(front) + Len(Zeros(one + two))
        BY <1>0, <2>2, <2>3, Zenon DEF Chain
      <3> QED
        BY <2>2, <2>3, <3>1, Zenon
    <2>5. Len(Joined(done)) = l + 1 + (one + two) + LengthBytes
      BY <1>4, <1>13, <2>4, <1>0, Zenon DEF Chain
    <2>6. l + 1 + (one + two) + LengthBytes = l + 1 + one + two + LengthBytes
      BY <1>1, <1>9, <1>11
    <2> QED
      BY <1>11, <2>5, <2>6
  <1> HIDE DEF done
  <1>15. done.buffer = <<>> /\ done.hashed = (front \o Zeros(one + two)) \o end
    BY <1>13, <1>14, WholeBlocks
  <1> QED
    BY <1>2, <1>12, <1>15 DEF file, end

(* What sha256_file knows: until it returns, the object has all that was     *)
(* read and nothing else.                                                    *)
ShaInv ==
    /\ length \in Lengths
    /\ digest \in {"pending", "returned", "thrown"}
    /\ digest = "pending" =>
          /\ consumed \in 0 .. length
          /\ sha \in Objects(Int)
          /\ Joined(sha) = FileBytes(0, consumed)
          /\ sha.bit_count = 8 * consumed
    /\ DigestsWholeFile

(* Objects over a set are objects over a larger one. *)
LEMMA MoreObjects ==
    ASSUME NEW E, NEW D, D \subseteq E, NEW s \in Objects(D)
    PROVE  s \in Objects(E)
PROOF
  <1>1. s.buffer \in Seq(D) /\ s.hashed \in Seq(D)
    BY DEF Objects
  <1>2. s.buffer \in Seq(E) /\ s.hashed \in Seq(E)
    BY <1>1, SeqMonotonic
  <1> QED
    BY <1>2 DEF Objects

(* The lengths to look at are numbers. *)
LEMMA LengthsType == Lengths \subseteq Nat
  BY Sha256Assumption

(* The part of the file that a step reads. *)
LEMMA ReadOn ==
    ASSUME ShaInv, digest = "pending", NEW n \in Nat, consumed + n <= length
    PROVE  LET s == update(sha, FileBytes(consumed, consumed + n))
           IN  /\ s \in Objects(Int)
               /\ Joined(s) = FileBytes(0, consumed + n)
               /\ s.bit_count = 8 * (consumed + n)
PROOF
  <1> DEFINE bytes == FileBytes(consumed, consumed + n)
  <1>1. /\ length \in Lengths /\ length \in Nat /\ consumed \in Nat /\ consumed + n \in Nat
        /\ consumed <= consumed + n /\ consumed + n - consumed = n
    BY LengthsType DEF ShaInv
  <1>2. sha \in Objects(Int) /\ Joined(sha) = FileBytes(0, consumed) /\ sha.bit_count = 8 * consumed
    BY DEF ShaInv
  <1>3. /\ bytes \in Seq(Int) /\ Len(bytes) = n
        /\ FileBytes(0, consumed) \o bytes = FileBytes(0, consumed + n)
    <2>1. PICK b \in Nat : b = consumed + n
      BY <1>1
    <2>2. /\ FileBytes(consumed, b) \in Seq(Int) /\ Len(FileBytes(consumed, b)) = b - consumed
          /\ FileBytes(0, consumed) \o FileBytes(consumed, b) = FileBytes(0, b)
      BY <1>1, <2>1, Pieces, Zenon
    <2> QED
      BY <1>1, <2>1, <2>2
  <1> HIDE DEF bytes
  <1>4. /\ update(sha, bytes) \in Objects(Int)
        /\ Joined(update(sha, bytes)) = Joined(sha) \o bytes
        /\ update(sha, bytes).bit_count = 8 * (consumed + Len(bytes))
    BY <1>1, <1>2, <1>3, Updated
  <1> QED
    BY <1>2, <1>3, <1>4 DEF bytes

(* sha256_file, for blocks and reads of any size, files of any length and    *)
(* reads that fail anywhere: the digest it returns is that of the padded     *)
(* file.                                                                     *)
THEOREM DigestOfWholeFile == ShaSpec => []DigestsWholeFile
PROOF
  <1>1. ASSUME ShaInit PROVE ShaInv
    <2>1. /\ length \in Lengths /\ consumed = 0 /\ digest = "pending"
          /\ sha = [buffer |-> <<>>, bit_count |-> 0, hashed |-> <<>>]
      BY <1>1 DEF ShaInit
    <2>2. Block \in Nat \ {0} /\ 0 = 0 * Block
      BY Sha256Assumption, SMT
    <2>3. sha \in Objects(Int)
      BY <2>1, <2>2 DEF Objects
    <2>4. Joined(sha) = FileBytes(0, 0)
      BY <2>1 DEF Joined, FileBytes
    <2>5. 0 \in 0 .. length
      BY <2>1, LengthsType
    <2> QED
      BY <2>1, <2>3, <2>4, <2>5 DEF ShaInv, DigestsWholeFile
  <1>2. ASSUME ShaInv, [ShaNext]_shaVars PROVE ShaInv'
    <2>0. length \in Lengths /\ length \in Nat /\ ReadSize \in Nat \ {0}
      BY <1>2, LengthsType, Sha256Assumption DEF ShaInv
    <2>1. CASE ReadFull
      <3>1. /\ digest = "pending" /\ digest' = "pending" /\ length' = length
            /\ length - consumed >= ReadSize /\ consumed' = consumed + ReadSize
            /\ sha' = update(sha, FileBytes(consumed, consumed + ReadSize))
        BY <2>1 DEF ReadFull
      <3>2. consumed \in 0 .. length
        BY <1>2, <3>1 DEF ShaInv
      <3>3. consumed + ReadSize <= length /\ consumed + ReadSize \in 0 .. length
        BY <2>0, <3>1, <3>2
      <3>4. /\ sha' \in Objects(Int)
            /\ Joined(sha') = FileBytes(0, consumed')
            /\ sha'.bit_count = 8 * consumed'
        BY <1>2, <2>0, <3>1, <3>3, ReadOn
      <3> QED
        BY <2>0, <3>1, <3>3, <3>4 DEF ShaInv, DigestsWholeFile
    <2>2. CASE ReadLast
      <3> DEFINE s == IF length > consumed THEN update(sha, FileBytes(consumed, length)) ELSE sha
                 E == Int \cup {BigEndian(8 * length)[k] : k \in 1 .. LengthBytes}
      <3>1. /\ digest = "pending" /\ digest' = "returned" /\ length' = length
            /\ sha' = final_hex(s)
        BY <2>2 DEF ReadLast
      <3>2. consumed \in 0 .. length
        BY <1>2, <3>1 DEF ShaInv
      <3>3. /\ s \in Objects(Int) /\ Joined(s) = FileBytes(0, length) /\ s.bit_count = 8 * length
        <4>1. CASE length > consumed
          <5>1. PICK n \in Nat : n = length - consumed
            BY <2>0, <3>2
          <5>2. consumed + n = length /\ consumed + n <= length
            BY <2>0, <3>2, <5>1
          <5>3. LET t == update(sha, FileBytes(consumed, consumed + n))
                IN  /\ t \in Objects(Int)
                    /\ Joined(t) = FileBytes(0, consumed + n)
                    /\ t.bit_count = 8 * (consumed + n)
            BY <1>2, <3>1, <5>2, ReadOn
          <5>4. s = update(sha, FileBytes(consumed, length))
            BY <4>1
          <5> QED
            BY <5>2, <5>3, <5>4
        <4>2. CASE ~(length > consumed)
          <5>1. consumed = length /\ s = sha
            BY <2>0, <3>2, <4>2
          <5> QED
            BY <1>2, <3>1, <5>1 DEF ShaInv
        <4> QED
          BY <4>1, <4>2
      <3> HIDE DEF s
      <3>4. Int \subseteq E /\ s \in Objects(E)
        BY <3>3, MoreObjects
      <3>5. BigEndian(8 * length) \in Seq(E)
        <4>1. LengthBytes \in Nat
          BY Sha256Assumption
        <4>2. /\ DOMAIN BigEndian(8 * length) = 1 .. LengthBytes
              /\ BigEndian(8 * length) = [k \in 1 .. LengthBytes |-> BigEndian(8 * length)[k]]
          BY DEF BigEndian
        <4>3. BigEndian(8 * length) \in [1 .. LengthBytes -> E]
          BY <4>2
        <4> QED
          BY <4>1, <4>3
      <3> HIDE DEF E
      <3> DEFINE zeros == Min({k \in 0 .. Block : (length + 1 + k + LengthBytes) % Block = 0})
      <3>6. /\ final_hex(s).buffer = <<>>
            /\ final_hex(s).hashed
               = FileBytes(0, length) \o <<Marker>> \o Zeros(zeros) \o BigEndian(8 * length)
        BY <2>0, <3>3, <3>4, <3>5, Finished
      <3>7. Padded = FileBytes(0, length) \o <<Marker>> \o Zeros(zeros) \o BigEndian(8 * length)
        BY DEF Padded
      <3>8. Padded' = Padded
        BY <3>1 DEF Padded
      <3> QED
        BY <2>0, <3>1, <3>6, <3>7, <3>8 DEF ShaInv, DigestsWholeFile
    <2>3. CASE \E n \in 0 .. ReadSize - 1 : ReadFails(n)
      BY <2>0, <2>3 DEF ReadFails, ShaInv, DigestsWholeFile
    <2>4. CASE UNCHANGED shaVars
      BY <1>2, <2>4 DEF shaVars, ShaInv, DigestsWholeFile, Padded
    <2> QED
      BY <1>2, <2>1, <2>2, <2>3, <2>4 DEF ShaNext
  <1>3. ShaInv => DigestsWholeFile
    BY DEF ShaInv
  <1> QED
    BY <1>1, <1>2, <1>3, PTL DEF ShaSpec

=============================================================================
