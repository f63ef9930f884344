------------------------------- MODULE MCBoard -------------------------------
(* A small instance of Board. *)
EXTENDS Board, TLC

CONSTANTS tag1, tag2, unknown

\* Lists that are taken, and ones that name a tag twice or one there is not.
SomeLists == {<<>>, <<tag1>>, <<tag1, tag2>>, <<tag2, tag2>>, <<unknown>>}

Interchangeable == Permutations(Slots)

=============================================================================
