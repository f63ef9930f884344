----------------------------- MODULE MCReviews ------------------------------
(* Small instances of Reviews. *)
EXTENDS Reviews, TLC

=============================================================================
