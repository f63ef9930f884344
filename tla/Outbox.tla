------------------------------- MODULE Outbox -------------------------------
(***************************************************************************)
(* Notification mail: the outbox table and its delivery (src/lib/mailer.js)*)
(* and what fills it (src/services/mailScheduler.js): one mail sent inline *)
(* by the completion route, and the rounds of the scheduler, which retry   *)
(* what is still unsent and then scan for confirmation warnings and event  *)
(* reminders that have come due.                                           *)
(*                                                                         *)
(* A mail is its trigger, the pair (kind, refId).  Everyone who delivers   *)
(* is a sender: a request handler, or the one scheduler loop.  A step ends *)
(* at a database or transport call; the transport's answer and the code    *)
(* that reads it are one step.                                             *)
(*                                                                         *)
(* A row is young for its first minute (RETRY_MIN_AGE_MS) and no delivery  *)
(* lasts as long as that: the transport gives up after RESEND_TIMEOUT_MS,  *)
(* ten seconds, and the UPDATE after it is taken to need less than fifty.  *)
(***************************************************************************)
EXTENDS Naturals, Sequences, FiniteSets, SequencesExt

CONSTANTS
    Notices,    \* the COMPLETION_REQUESTED triggers, sent inline
    Warnings,   \* the CONFIRM_WARNING triggers
    Reminders,  \* the EVENT_REMINDER triggers
    Poison,     \* the mails the transport refuses every time
    Batch,      \* RETRY_BATCH
    Slots,      \* bound: completion requests delivering at the same time
    Mail,       \* the scheduler
    MaxMishaps  \* bound: how often an answer is lost or the process dies

ASSUME KindsAreDisjoint == Notices \intersect (Warnings \union Reminders) = {}
ASSUME BatchIsPositive == Batch \in Nat \ {0} /\ MaxMishaps \in Nat
ASSUME OneScheduler == Mail \notin Slots

VARIABLES
    outbox,     \* the EmailOutbox rows in the order of createdAt
    sent,       \* the rows whose sentAt is set
    young,      \* the rows created less than a minute ago
    window,     \* whether the scan of a timed trigger would find it now
    send,       \* what each sender is delivering
    round,      \* the scheduler's pass: its loop and the rows left in it
    accepted,   \* history: how often the transport accepted a mail
    lost,       \* history: how often the process never recorded that
    mishaps     \* how many of MaxMishaps have happened

vars == <<outbox, sent, young, window, send, round, accepted, lost, mishaps>>

Timed == Warnings \union Reminders
Keys == Notices \union Timed
Senders == Slots \union {Mail}

Idle == [at |-> "idle"]

\* "queue": sendEmail is about to insert the row; "transport": the row is with
\* the transport; "record": accepted, and sentAt is about to be set.
Sending == [at : {"queue", "transport", "record"}, key : Keys]

Rows == ToSet(outbox)

At(x, step) == send[x].at = step

\* x delivers the row of k, past the insert.
Holds(x, k) == send[x].at \in {"transport", "record"} /\ send[x].key = k

Recording(k) == \E x \in Senders : At(x, "record") /\ send[x].key = k

Resting == round.loop = "rest"

-----------------------------------------------------------------------------
(* Delivery: sendEmail, queueEmail, deliverEmail, runTransport *)

mail == <<window, round>>

\* x goes on to the next call with the mail it has.
Proceed(x, step) == send' = [send EXCEPT ![x] = [at |-> step, key |-> @.key]]

Done(x) == send' = [send EXCEPT ![x] = Idle]

\* Mutant: the insert is not awaited, and fails after all.
QueueUnsaved(x) ==
    /\ At(x, "queue")
    /\ young' = young \union {send[x].key}
    /\ Proceed(x, "transport")
    /\ UNCHANGED <<outbox, sent, mail, accepted, lost, mishaps>>

\* Mutant: an upsert instead of the insert, so a trigger queued before goes out.
QueueUpsert(x) ==
    /\ At(x, "queue")
    /\ LET k == send[x].key IN
       /\ outbox' = IF k \in Rows THEN outbox ELSE Append(outbox, k)
       /\ young' = young \union {k}
    /\ Proceed(x, "transport")
    /\ UNCHANGED <<sent, mail, accepted, lost, mishaps>>

\* outbox.create: inserted, or refused by @@unique([kind, refId]) (deduped).
Queue(x) ==
    /\ At(x, "queue")
    /\ LET k == send[x].key IN
       IF k \in Rows
       THEN Done(x) /\ UNCHANGED <<outbox, young>>
       ELSE /\ outbox' = Append(outbox, k)
            /\ young' = young \union {k}
            /\ Proceed(x, "transport")
    /\ UNCHANGED <<sent, mail, accepted, lost, mishaps>>

\* The insert fails: "could not be queued".
QueueFail(x) ==
    /\ At(x, "queue")
    /\ Done(x)
    /\ UNCHANGED <<outbox, sent, young, mail, accepted, lost, mishaps>>

\* The transport takes the mail and its 2xx answer arrives.
Accept(x) ==
    /\ At(x, "transport") /\ send[x].key \notin Poison
    /\ accepted' = [accepted EXCEPT ![send[x].key] = @ + 1]
    /\ Proceed(x, "record")
    /\ UNCHANGED <<outbox, sent, young, mail, lost, mishaps>>

\* Mutant: any answer at all counts as delivered.
RefuseAsSent(x) ==
    /\ At(x, "transport")
    /\ Proceed(x, "record")
    /\ UNCHANGED <<outbox, sent, young, mail, accepted, lost, mishaps>>

\* Non-2xx, unreachable or misconfigured: the row stays queued.
Refuse(x) ==
    /\ At(x, "transport")
    /\ Done(x)
    /\ UNCHANGED <<outbox, sent, young, mail, accepted, lost, mishaps>>

\* Accepted, but the answer comes after the ten seconds or not at all.
LoseAnswer(x) ==
    /\ At(x, "transport") /\ send[x].key \notin Poison
    /\ mishaps < MaxMishaps /\ mishaps' = mishaps + 1
    /\ accepted' = [accepted EXCEPT ![send[x].key] = @ + 1]
    /\ lost' = [lost EXCEPT ![send[x].key] = @ + 1]
    /\ Done(x)
    /\ UNCHANGED <<outbox, sent, young, mail>>

RecordSent(x) ==
    /\ At(x, "record")
    /\ sent' = sent \union {send[x].key}
    /\ Done(x)
    /\ UNCHANGED <<outbox, young, mail, accepted, lost, mishaps>>

\* The UPDATE of sentAt fails.
RecordFail(x) ==
    /\ At(x, "record")
    /\ mishaps < MaxMishaps /\ mishaps' = mishaps + 1
    /\ lost' = [lost EXCEPT ![send[x].key] = @ + 1]
    /\ Done(x)
    /\ UNCHANGED <<outbox, sent, young, mail, accepted>>

\* The completion route has set PENDING_CONFIRMATION; two clicks do it twice.
Notify(s, k) ==
    /\ send[s] = Idle
    /\ send' = [send EXCEPT ![s] = [at |-> "queue", key |-> k]]
    /\ UNCHANGED <<outbox, sent, young, mail, accepted, lost, mishaps>>

-----------------------------------------------------------------------------
(* The scheduler: tick, runMailPass and its three loops *)

\* Mutant: rows a handler may still be delivering are retried.
RetryableAnyAge(k) == k \notin sent

\* Mutant: lte and gte confused in the age of a row.
RetryableYoung(k) == k \notin sent /\ k \in young

Retryable(k) == k \notin sent /\ k \notin young

\* take: RETRY_BATCH, oldest first.
Oldest ==
    {outbox[i] : i \in {j \in DOMAIN outbox :
        /\ Retryable(outbox[j])
        /\ Cardinality({h \in 1..j : Retryable(outbox[h])}) <= Batch}}

Enter(loop, todo) == round' = [loop |-> loop, todo |-> todo]

\* The findMany that opens a loop.
Scan(loop, todo) ==
    /\ send[Mail] = Idle
    /\ Enter(loop, todo)
    /\ UNCHANGED <<outbox, sent, young, window, send, accepted, lost, mishaps>>

\* tick: a pass starts only when none is running.
RetryRead == Resting /\ Scan("retry", Oldest)

\* Mutant: gte and lte confused in the window.
OpenTooLate(kinds) == {k \in kinds : window[k] = "closed"}

Open(kinds) == {k \in kinds : window[k] = "open"}

WarnRead == round.loop = "retry" /\ round.todo = {} /\ Scan("warn", Open(Warnings))

RemindRead == round.loop = "warn" /\ round.todo = {} /\ Scan("remind", Open(Reminders))

RoundEnds == round.loop = "remind" /\ round.todo = {} /\ Scan("rest", {})

\* A findMany throws and the pass ends there: "mail pass failed".
PassFail == round.loop \in {"retry", "warn"} /\ round.todo = {} /\ Scan("rest", {})

\* The next of the loop, whichever the order of the scan: a retried row goes
\* to the transport, a due trigger through sendEmail, open window or not.
TakeNext(k) ==
    /\ k \in round.todo /\ send[Mail] = Idle
    /\ send' = [send EXCEPT ![Mail] =
                    [at |-> IF round.loop = "retry" THEN "transport" ELSE "queue", key |-> k]]
    /\ round' = [round EXCEPT !.todo = @ \ {k}]
    /\ UNCHANGED <<outbox, sent, young, window, accepted, lost, mishaps>>

-----------------------------------------------------------------------------
(* Time and crashes *)

MinutePasses(k) ==
    /\ k \in young
    /\ \A x \in Senders : ~Holds(x, k)
    /\ young' = young \ {k}
    /\ UNCHANGED <<outbox, sent, window, send, round, accepted, lost, mishaps>>

\* Five days without an answer, or an hour to the event.
WindowOpens(k) ==
    /\ window[k] = "before"
    /\ window' = [window EXCEPT ![k] = "open"]
    /\ UNCHANGED <<outbox, sent, young, send, round, accepted, lost, mishaps>>

\* Confirmed, started, cancelled, withdrawn.
WindowCloses(k) ==
    /\ window[k] = "open"
    /\ window' = [window EXCEPT ![k] = "closed"]
    /\ UNCHANGED <<outbox, sent, young, send, round, accepted, lost, mishaps>>

\* The process dies with everything in flight and starts again.
Crash ==
    /\ mishaps < MaxMishaps /\ mishaps' = mishaps + 1
    /\ lost' = [k \in Keys |-> IF Recording(k) THEN lost[k] + 1 ELSE lost[k]]
    /\ send' = [x \in Senders |-> Idle]
    /\ Enter("rest", {})
    /\ UNCHANGED <<outbox, sent, young, window, accepted>>

-----------------------------------------------------------------------------
Init ==
    /\ outbox = <<>>
    /\ sent = {}
    /\ young = {}
    /\ window = [k \in Timed |-> "before"]
    /\ send = [x \in Senders |-> Idle]
    /\ round = [loop |-> "rest", todo |-> {}]
    /\ accepted = [k \in Keys |-> 0]
    /\ lost = [k \in Keys |-> 0]
    /\ mishaps = 0

Deliver(x) ==
    \/ Queue(x)
    \/ QueueFail(x)
    \/ Accept(x)
    \/ Refuse(x)
    \/ LoseAnswer(x)
    \/ RecordSent(x)
    \/ RecordFail(x)

Round == RetryRead \/ WarnRead \/ RemindRead \/ RoundEnds

Next ==
    \/ \E s \in Slots, k \in Notices : Notify(s, k)
    \/ \E x \in Senders : Deliver(x)
    \/ Round
    \/ PassFail
    \/ \E k \in Keys : TakeNext(k) \/ MinutePasses(k)
    \/ \E k \in Timed : WindowOpens(k) \/ WindowCloses(k)
    \/ Crash

Spec == Init /\ [][Next]_vars

InHand(k) == send[Mail] # Idle /\ send[Mail].key = k

\* The timer fires again and again, a call made is answered one way or another,
\* no scan and no insert fails every time, and the transport does not refuse
\* for ever a mail it can deliver.
Fairness ==
    /\ WF_vars(RetryRead) /\ SF_vars(WarnRead) /\ SF_vars(RemindRead) /\ WF_vars(RoundEnds)
    /\ WF_vars(\E k \in Keys : TakeNext(k))
    /\ WF_vars(\E k \in Keys : MinutePasses(k))
    /\ \A x \in Senders : WF_vars(Deliver(x))
    /\ \A k \in Timed : SF_vars(InHand(k) /\ Queue(Mail))
    /\ \A k \in Keys \ Poison : SF_vars(InHand(k) /\ Accept(Mail))

FairSpec == Spec /\ Fairness

-----------------------------------------------------------------------------
(* Properties *)

Rounds ==
    [loop : {"rest"}, todo : {{}}]
        \union [loop : {"retry"}, todo : SUBSET Keys]
        \union [loop : {"warn"}, todo : SUBSET Warnings]
        \union [loop : {"remind"}, todo : SUBSET Reminders]

\* Every variable holds what the table and the loops can hold: only rows of
\* the table are retried, aged or marked sent.
TypeOK ==
    /\ outbox \in Seq(Keys)
    /\ sent \subseteq Rows
    /\ young \subseteq Rows
    /\ window \in [Timed -> {"before", "open", "closed"}]
    /\ send \in [Senders -> {Idle} \union Sending]
    /\ round \in Rounds
    /\ accepted \in [Keys -> Nat]
    /\ lost \in [Keys -> Nat]
    /\ mishaps \in Nat

\* A mail goes out once, and once more only for each time the process never
\* learned or could not record that it had: double clicks, overlapping scans
\* and the retries next to a handler that is still delivering add no copy.
CopiesAreLostAnswers == \A k \in Keys : accepted[k] <= 1 + lost[k]

\* sentAt flips only after a transport accepted the mail.
SentMeansAccepted == \A k \in sent : accepted[k] > 0

\* A queued mail that can be delivered is delivered, whatever the refusals and
\* however many mails that cannot be stand before it (fewer than a batch).
QueuedIsDelivered == \A k \in Keys \ Poison : k \in Rows ~> k \in sent

\* A warning or reminder whose window stays open is queued.
DueIsQueued == \A k \in Timed : window[k] = "open" ~> (k \in Rows \/ window[k] = "closed")

\* Where a mail stands, from the rows and from what the senders still know.
Standing ==
    [k \in Keys |->
        CASE k \in sent -> "sent"
          [] k \notin sent /\ Recording(k) -> "known"
          [] k \in Rows \ sent /\ ~Recording(k) -> "queued"
          [] OTHER -> "absent"]

Book == INSTANCE MailBook WITH Mails <- Keys, standing <- Standing, copies <- accepted

\* Handlers, the retries beside them, double clicks, scans that are out of date
\* and crashes come to no more than MailBook allows: no hand-over of a mail
\* while another of the same mail is known or recorded.
ImplementsMailBook == Book!Spec

-----------------------------------------------------------------------------
(* The inductive invariant behind CopiesAreLostAnswers *)

\* A row is delivered by one sender at a time, never after it was sent.
OneDelivery ==
    \A x \in Senders, k \in Keys : Holds(x, k) =>
        /\ k \in Rows \ sent
        /\ \A y \in Senders : Holds(y, k) => y = x

\* A handler delivers only the row it has just inserted.
HandlersHoldYoung == \A s \in Slots, k \in Keys : Holds(s, k) => k \in young

\* What is left to retry is unsent, and neither young nor with anybody.
RetriesAreFree ==
    round.loop = "retry" =>
        \A k \in round.todo :
            k \in Rows \ sent /\ k \notin young /\ \A x \in Senders : ~Holds(x, k)

\* Every acceptance is recorded, being recorded, or lost.
Accounted ==
    \A k \in Keys : accepted[k] = lost[k] + IF k \in sent \/ Recording(k) THEN 1 ELSE 0

MailInv ==
    /\ TypeOK
    /\ OneDelivery
    /\ HandlersHoldYoung
    /\ RetriesAreFree
    /\ Accounted

=============================================================================
