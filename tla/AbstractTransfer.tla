--------------------------- MODULE AbstractTransfer ---------------------------
(***************************************************************************)
(* What the transfer promises a user who looks only at the output file and *)
(* at the verdict of the last receiver run.  Nothing of the protocol, of   *)
(* the sidecar or of the faults is in here.                                *)
(*                                                                         *)
(* The file changes only while a run works on it.  A run starts it afresh  *)
(* at most once, before it writes anything; after that it only puts bytes  *)
(* of sent files where those files have them.  It calls the file verified  *)
(* when each piece of it is what the file of one and the same sender had   *)
(* there at some time: when it is that file, if nobody edits it.  From     *)
(* then on nobody touches it until the next run or until the user deletes  *)
(* it.                                                                     *)
(***************************************************************************)
EXTENDS Integers, Sequences

CONSTANTS
    Byte,       \* the values of a byte
    Zero,       \* what a hole reads back as
    Contents,   \* the contents a file being sent may have
    Senders,    \* the programs that send
    PieceSize,  \* how many bytes of a file are read at one moment
    Leftover,   \* what may be at the output path before the first run
    Absent      \* no file

VARIABLES
    file,       \* the output file, or Absent
    phase,      \* of the receiver: "idle", "looking" or "working"
    verdict,    \* on the last run: "none" until there is one
    versions    \* per sender: every content its file has had

vars == <<file, phase, verdict, versions>>

Init ==
    /\ file \in Leftover
    /\ phase = "idle"
    /\ verdict = "none"
    /\ \E sent \in [Senders -> Contents] : versions = [s \in Senders |-> {sent[s]}]

-----------------------------------------------------------------------------
(* What may happen to the file *)

\* Byte k of some sent file.
Genuine(k, byte) == \E b \in Contents : k <= Len(b) /\ byte = b[k]

\* g is f after positioned writes of genuine bytes, some of them cut short.
Filled(f, g) ==
    /\ Len(f) <= Len(g)
    /\ \A k \in 1 .. Len(g) :
          \/ k <= Len(f) /\ g[k] = f[k]
          \/ k > Len(f) /\ g[k] = Zero
          \/ Genuine(k, g[k])

Kept      == UNCHANGED file
Restarted == file' = <<>>
Extended  == file # Absent /\ file' \in Seq(Byte) /\ Filled(file, file')

\* Piece n of file f, counted from 0; the last one may be short or empty.
Piece(f, n) ==
    LET rest == Len(f) - n * PieceSize
    IN  [k \in 1 .. (IF rest < PieceSize THEN rest ELSE PieceSize) |-> f[n * PieceSize + k]]

\* f is, piece by piece, what the file of s was.
Sent(s, f) == \A n \in 0 .. Len(f) : \E b \in versions[s] : Piece(f, n) = Piece(b, n)

-----------------------------------------------------------------------------
(* What a run may do *)

\* The receiver is started; it leaves the file alone.
Start ==
    /\ phase = "idle"
    /\ phase' = "looking"
    /\ verdict' = "none"
    /\ Kept
    /\ UNCHANGED versions

\* It starts the file afresh or takes the one that is there.
Open ==
    /\ phase = "looking"
    /\ phase' = "working"
    /\ Restarted \/ (file # Absent /\ Kept)
    /\ UNCHANGED <<verdict, versions>>

Work == phase = "working" /\ Extended /\ UNCHANGED <<phase, verdict, versions>>

Verify ==
    /\ phase = "working"
    /\ phase' = "idle"
    /\ verdict' = "verified"
    /\ \E s \in Senders : Sent(s, file)
    /\ Kept
    /\ UNCHANGED versions

\* A run that has not opened the file leaves it alone, unless it was just
\* about to; one that has may still write what it holds.
Fail ==
    /\ \/ phase = "looking" /\ (Kept \/ Restarted)
       \/ phase = "working" /\ Extended
    /\ phase' = "idle"
    /\ verdict' = "unverified"
    /\ UNCHANGED versions

\* The user deletes the file between two runs.
Delete ==
    /\ phase = "idle"
    /\ file # Absent
    /\ file' = Absent
    /\ verdict' = "none"
    /\ UNCHANGED <<phase, versions>>

\* Somebody edits the file of s.
Edit ==
    /\ \E s \in Senders, bytes \in Contents :
          versions' = [versions EXCEPT ![s] = @ \cup {bytes}]
    /\ UNCHANGED <<file, phase, verdict>>

Next == Start \/ Open \/ Work \/ Verify \/ Fail \/ Delete \/ Edit

Spec == Init /\ [][Next]_vars

=============================================================================
