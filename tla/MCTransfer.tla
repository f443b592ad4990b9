----------------------------- MODULE MCTransfer -----------------------------
(* Instances of Transfer for TLC. *)
EXTENDS TransferRefinement, TLC

MCByte == 0 .. 6

\* Three chunks of two bytes, the last one short.
OneFile == {<<1, 2, 3, 4, 5>>}
OrEmpty == OneFile \cup {<<>>}

\* Two files of one size that differ everywhere, and one with a chunk less.
ThreeFiles == {<<1, 2, 3>>, <<4, 5, 6>>, <<1, 2>>}

\* Two chunks, the last one short.
TwoChunks == {<<4, 5, 6>>}

\* What may lie at the output path before the first run.
Nothing   == {Absent}
SomeJunk  == {<<0, 0, 0>>}
LongJunk  == {<<0, 0, 0, 0, 0, 0, 0>>}
AnyJunk   == Nothing \cup SomeJunk \cup LongJunk

\* The sidecar of a file with some chunks completed; the documented continuation
\* test prepares one that lists a chunk ahead of a missing one.
ListsOf(bytes, completed) ==
    [create_checkpoint_from_manifest(NewManifest(Len(bytes))) EXCEPT !.completed = completed]
NoSidecar  == {Absent}
WithGap    == {Absent, Torn, ListsOf(<<1, 2, 3, 4, 5>>, {0, 2})}
SecondOnly == {ListsOf(<<4, 5, 6>>, {1})}

\* The output files beside such sidecars: with a hole, or longer than they say.
WithHole   == {<<1, 2, 0, 0, 5>>, <<1, 2, 0, 0, 5, 0, 0>>}
ResumeJunk == AnyJunk \cup WithHole
HalfJunk   == {<<0, 0, 6>>}

\* The senders run the same program on files of the same set.
SenderSymmetry == Permutations(Senders)

=============================================================================
