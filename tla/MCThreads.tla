----------------------------- MODULE MCThreads ------------------------------
(* Small instances of Threads. *)
EXTENDS Threads, TLC

\* The two sides do the same things, and so do the slots.
Interchangeable == Permutations(Sides) \union Permutations(Slots)

=============================================================================
