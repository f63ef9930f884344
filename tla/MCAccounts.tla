----------------------------- MODULE MCAccounts -----------------------------
(* Small instances of Accounts: an administrator and a student. *)
EXTENDS Accounts, TLC

CONSTANTS student, studentId

\* The student's address carries the id, the administrator's none.
MCDirectory == [p \in People |-> IF p = student THEN studentId ELSE NoId]

\* Requests in flight are told apart by what they carry.
Symmetry == Permutations(Slots)

=============================================================================
