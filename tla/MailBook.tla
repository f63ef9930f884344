------------------------------ MODULE MailBook ------------------------------
(***************************************************************************)
(* What the outbox promises about a notification, with no senders, scans,  *)
(* ages or retries: a mail is queued once, is handed over only while it is *)
(* queued and nobody knows of an earlier hand-over, and is never handed    *)
(* over again once it is known to be sent.  Knowledge may get lost before  *)
(* it is written down; then, and only then, the mail is queued once more.  *)
(***************************************************************************)
EXTENDS Naturals

CONSTANT Mails

VARIABLES
    standing,   \* standing[k]: "absent", "queued", "known" (handed over), "sent"
    copies,     \* copies[k]: how often mail k was handed over
    lost        \* lost[k]: how often that was not learned or was forgotten

Move(k, from, to) ==
    /\ standing[k] = from
    /\ standing' = [standing EXCEPT ![k] = to]

Place(k) == Move(k, "absent", "queued") /\ UNCHANGED <<copies, lost>>

Hand(k) ==
    /\ Move(k, "queued", "known")
    /\ copies' = [copies EXCEPT ![k] = @ + 1]
    /\ UNCHANGED lost

\* Handed over, and nobody learns of it.
HandUnheard(k) ==
    /\ Move(k, "queued", "queued")
    /\ copies' = [copies EXCEPT ![k] = @ + 1]
    /\ lost' = [lost EXCEPT ![k] = @ + 1]

Record(k) == Move(k, "known", "sent") /\ UNCHANGED <<copies, lost>>

\* What was known of the mails in S is gone, of all of them at once.
Forget(S) ==
    /\ S # {} /\ \A k \in S : standing[k] = "known"
    /\ standing' = [k \in Mails |-> IF k \in S THEN "queued" ELSE standing[k]]
    /\ lost' = [k \in Mails |-> IF k \in S THEN lost[k] + 1 ELSE lost[k]]
    /\ UNCHANGED copies

Init ==
    /\ standing = [k \in Mails |-> "absent"]
    /\ copies = [k \in Mails |-> 0]
    /\ lost = [k \in Mails |-> 0]

Next ==
    \/ \E k \in Mails : Place(k) \/ Hand(k) \/ HandUnheard(k) \/ Record(k)
    \/ \E S \in SUBSET Mails : Forget(S)

Spec == Init /\ [][Next]_<<standing, copies, lost>>

=============================================================================
