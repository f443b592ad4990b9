-------------------------------- MODULE MCWire --------------------------------
(* Instances of WireStream for TLC. *)
EXTENDS WireRefinement

\* The shortest and the longest name.
ShortAndLong == {<<1>>, <<1, 2, 3>>}

=============================================================================
