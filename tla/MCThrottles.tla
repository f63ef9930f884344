----------------------------- MODULE MCThrottles -----------------------------
(* A small instance of Throttles. *)
EXTENDS Throttles, TLC

CONSTANTS ip, email1, email2

\* Two accounts tried from one address.
TwoTargets == {{ip, email1}, {ip, email2}}

Interchangeable ==
    Permutations(Attempts) \union Permutations(Slots) \union Permutations({email1, email2})

=============================================================================
