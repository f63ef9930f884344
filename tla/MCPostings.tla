----------------------------- MODULE MCPostings -----------------------------
(* Small instances of Postings: one poster, the other users are helpers. *)
EXTENDS Postings, TLC

CONSTANTS poster

MCPoster == [t \in Tasks |-> poster]

\* Helpers are interchangeable, and so are slots and passes; safety runs only.
Interchangeable ==
    Permutations(Users \ {poster}) \union Permutations(Slots) \union Permutations(Passes)

=============================================================================
