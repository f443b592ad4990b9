-------------------------- MODULE TransferRefinement --------------------------
(***************************************************************************)
(* Transfer implements AbstractTransfer: the refinement mapping hides the  *)
(* connections, the sender programs, the sidecar and the run's locals.     *)
(***************************************************************************)
EXTENDS TransferInv

\* The output stream is open, or has been in this run.
Working == rOpen \/ rpc \in {"chunk", "hash", "verify", "cleanup"}

\* What the user can tell of the run, and of how the last one ended.
Phase   == IF rpc = "off" THEN "idle" ELSE IF Working THEN "working" ELSE "looking"
Verdict == IF rResult \in {"none", "verified"} THEN rResult ELSE "unverified"

Abstract == INSTANCE AbstractTransfer WITH
    PieceSize <- ReadSize, file <- out, phase <- Phase, verdict <- Verdict

\* Whatever the programs, their users, the network and the disk do, the user
\* sees an output file that only changes during a run, is emptied at most once
\* and before the run's first byte, receives only bytes of sent files at their
\* own places, and is called verified only when each piece of it is what the
\* file of one and the same sender had there at some time.
ImplementsAbstract == Abstract!Spec

=============================================================================
