----------------------------- MODULE MCAlgorithms -----------------------------
(* The pure algorithms, each over all of its bounded inputs: one of the four *)
(* modules moves, or has its input chosen, in a behaviour.                   *)
EXTENDS Geometry, FileNames, DiscoveryMessage, Sha256Blocks

VARIABLE running

vars == <<running, size, path, text, shaVars>>

Init ==
    /\ running \in {"geometry", "names", "message", "sha256"}
    /\ IF running = "geometry" THEN GeometryInit ELSE size = Absent
    /\ NamesInit
    /\ IF running = "message" THEN MessageInit ELSE text = <<<<>>>>
    /\ ShaInit
    /\ (running # "sha256" => length = 0)

Paths == running = "names" /\ NamesNext /\ UNCHANGED <<running, size, text, shaVars>>
Texts == running = "message" /\ MessageNext /\ UNCHANGED <<running, size, path, shaVars>>
Digesting == running = "sha256" /\ ShaNext /\ UNCHANGED <<running, size, path, text>>

Next == Paths \/ Texts \/ Digesting

Spec == Init /\ [][Next]_vars

-----------------------------------------------------------------------------
(* Values of the constants *)

EachLength == {<<1>>, <<0, 15>>, <<15, 15, 0>>}

Binary == <<"0", "1">>
SmallFields ==
    {<<>>, <<"M">>, <<"0">>, <<"1">>, <<"0", "1">>, <<"1", "0">>,
     <<"1", "1">>, <<"1", "x">>, <<"1", "0", "0">>}
MarkerField == <<"M">>
OneLetter == <<"x">>

LetterP == <<"p">>
ReceivedPrefix == <<"p", "_">>
CheckpointSuffix == <<".", "p">>
TmpEnding == <<".", "_">>

=============================================================================
