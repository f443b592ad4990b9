--------------------------- MODULE CheckpointFile ---------------------------
(***************************************************************************)
(* The sidecar file received_<name>.pbcheckpoint and the temporary file    *)
(* save_checkpoint writes next to it.  save_checkpoint is three steps on   *)
(* the disk (write .tmp, remove the old sidecar, rename), and the process  *)
(* may die between any two.  The writes to .tmp are never checked, so a    *)
(* full disk cuts the text short and the cut text is renamed all the same. *)
(***************************************************************************)
EXTENDS ChunkPlan

CONSTANTS
    Torn,       \* a sidecar cut before its last geometry line was complete
    Radix,      \* of the indexes in the completed= line: 10 in the code
    Sidecars    \* what may be found beside the output file at first

ASSUME CheckpointFileAssumption ==
    /\ Torn # Absent
    /\ Absent \notin Checkpoint
    /\ Torn \notin Checkpoint
    /\ Radix \in Nat \ {0, 1}
    /\ Sidecars \subseteq Checkpoint \cup {Absent, Torn}

VARIABLES
    ckpt,   \* the sidecar file
    tmp     \* the temporary file

ckptVars == <<ckpt, tmp>>

CkptTypeOK ==
    /\ ckpt \in Checkpoint \cup {Absent, Torn}
    /\ tmp \in Checkpoint \cup {Absent, Torn}

\* load_checkpoint takes any list of distinct chunks, in any order.
CkptInit == ckpt \in Sidecars /\ tmp = Absent

-----------------------------------------------------------------------------
(* What a cut text says *)

\* The numbers left of a number n cut after its first digits, n included.
DigitPrefixes(n) == {d \in 1 .. n : \E k \in 0 .. n : d = n \div Radix^k}

\* completed= lists the indexes in ascending order.  Cut at or within index m,
\* the line still parses, and reads back as the indexes before m and the
\* number that m's first digits spell, if any digit is left.
CutCompleted(S) ==
    UNION {{ {j \in S : j < m} } \cup { {j \in S : j < m} \cup {d} : d \in DigitPrefixes(m) }
           : m \in S}

\* A text cut before completed= ends has lost its geometry (Torn: no manifest
\* matches a cut number or a missing line) or only some indexes.
CutShort(c) ==
    {Torn, [c EXCEPT !.completed = {}]}
        \cup {[c EXCEPT !.completed = S] : S \in CutCompleted(c.completed)}

-----------------------------------------------------------------------------
(* load_checkpoint: Torn stands for a sidecar that fails to load or that no *)
(* manifest matches.                                                        *)

Loadable(c) == c \notin {Absent, Torn}

-----------------------------------------------------------------------------
(* save_checkpoint, step by step, and remove_checkpoint *)

WriteTmp(c)      == tmp' = c /\ UNCHANGED ckpt
WriteTmpShort(c) == tmp' \in CutShort(c) /\ UNCHANGED ckpt
RemoveOld        == ckpt' = Absent /\ UNCHANGED tmp
RenameTmp        == ckpt' = tmp /\ tmp' = Absent

remove_checkpoint == ckpt' = Absent /\ UNCHANGED tmp

=============================================================================
