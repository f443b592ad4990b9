------------------------------ MODULE FileNames ------------------------------
(***************************************************************************)
(* From the path a user types at the sender to the three paths a receiver  *)
(* run reads and writes.  A path is a sequence of characters; of these     *)
(* only some of each kind are needed.                                      *)
(***************************************************************************)
EXTENDS Integers, Sequences, FiniteSetsExt

CONSTANTS
    Separators,     \* slash and backslash
    Allowed,        \* letters, digits, ".", "-" and "_"
    Others,         \* all other characters
    DefaultName,    \* "file"
    Received,       \* "received_"
    Suffix,         \* ".pbcheckpoint"
    TmpSuffix,      \* ".tmp"
    MaxPath         \* bound on the length of a path

Characters == Separators \cup Allowed \cup Others

ASSUME FileNamesAssumption ==
    /\ {".", "_"} \subseteq Allowed
    /\ "/" \in Separators /\ Separators \cap Allowed = {}
    /\ DefaultName \in Seq(Allowed) \ {<<>>}
    /\ Head(DefaultName) # "."
    /\ \A text \in {Received, Suffix, TmpSuffix} : text \in Seq(Allowed) \ {<<>>}
    /\ Head(Received) # "."
    /\ Suffix[Len(Suffix)] # TmpSuffix[Len(TmpSuffix)]
    /\ MaxPath \in Nat

VARIABLE path       \* what the user has typed so far

NamesInit == path = <<>>
Type(ch) == Len(path) < MaxPath /\ path' = Append(path, ch)
NamesNext == \E ch \in Characters : Type(ch)

NamesSpec == NamesInit /\ [][NamesNext]_path

-----------------------------------------------------------------------------
(* file_utils.cpp *)

basename_from_path(p) ==
    LET separators == {k \in DOMAIN p : p[k] \in Separators}
    IN  IF separators = {} THEN p ELSE SubSeq(p, Max(separators) + 1, Len(p))

Replaced(p) == [k \in DOMAIN p |-> IF p[k] \in Allowed THEN p[k] ELSE "_"]

\* Mutant: at most one leading dot goes.
sanitize_filename_OneDot(filename) ==
    LET name == Replaced(basename_from_path(filename))
        rest == IF name # <<>> /\ Head(name) = "." THEN Tail(name) ELSE name
    IN  IF rest = <<>> THEN DefaultName ELSE rest

sanitize_filename(filename) ==
    LET name == Replaced(basename_from_path(filename))
        rest == {k \in DOMAIN name : name[k] # "."}
    IN  IF rest = {} THEN DefaultName ELSE SubSeq(name, Min(rest), Len(name))

join_output_path(directory, filename) ==
    IF directory \in {<<>>, <<".">>} THEN filename
    ELSE IF directory[Len(directory)] \in Separators THEN directory \o filename
    ELSE directory \o <<"/">> \o filename

-----------------------------------------------------------------------------
(* The paths of a run *)

\* Mutant: the sidecar's name replaces the extension of the output's.
checkpoint_path_for_output_NoExtension(p) ==
    LET dots == {k \in DOMAIN p : p[k] = "."}
    IN  SubSeq(p, 1, IF dots = {} THEN Len(p) ELSE Max(dots) - 1) \o Suffix

checkpoint_path_for_output(p) == p \o Suffix

\* manifest.filename
Announced(p) == sanitize_filename(basename_from_path(p))

\* output_path
OutputPath(directory, filename) ==
    join_output_path(directory, Received \o sanitize_filename(filename))

\* Output, sidecar and temporary file.
Touched(directory, filename) ==
    LET output  == OutputPath(directory, filename)
        sidecar == checkpoint_path_for_output(output)
    IN  {output, sidecar, sidecar \o TmpSuffix}

-----------------------------------------------------------------------------
(* Properties *)

Directories == {<<>>, <<".">>} \cup {<<ch>> : ch \in Allowed \cup Separators}

\* The receiver gives a file the name its sender announced: cleaning a name a
\* second time changes nothing.  All that a run touches lies in the receiver's
\* own directory, and none of it is hidden.
NamesAreSafe ==
    LET name == Announced(path)
    IN  /\ sanitize_filename(name) = name
        /\ name # <<>>
        /\ \A d \in Directories : \A p \in Touched(d, name) :
              LET base == basename_from_path(p)
              IN  p = join_output_path(d, base) /\ base \in Seq(Allowed) /\ Head(base) # "."

\* The transfers of two files into one directory meet in some file exactly when their names
\* are the same once cleaned, or one's output is the other's sidecar or
\* temporary file: "x.pbcheckpoint" after "x".
PathsMeet ==
    path # <<>> => \A other \in UNION {[1 .. n -> Characters] : n \in 1 .. MaxPath - 2} :
        LET a == Announced(path)
            b == Announced(other)
            Clash(x, y) == x \in {y, y \o Suffix, y \o Suffix \o TmpSuffix}
        IN  Touched(<<>>, a) \cap Touched(<<>>, b) # {} <=> Clash(a, b) \/ Clash(b, a)

=============================================================================
