------------------------------ MODULE Postings ------------------------------
(***************************************************************************)
(* Postings and the helpers who take them: the Task and TaskAssignment     *)
(* rows, the handlers that move them (src/routes/tasks.js,                 *)
(* src/routes/assignments.js) and the settle engine that runs in front of  *)
(* every request (src/services/settle.js).                                 *)
(*                                                                         *)
(* Granularity.  The process is single threaded and gives way at every     *)
(* await, so a step here is what runs between two database calls, together *)
(* with the second of them; a call is atomic, at PostgreSQL's default      *)
(* READ COMMITTED.  A handler is therefore a Read step, which loads rows   *)
(* and checks every guard, and later a Write step, which writes what the   *)
(* guards allowed; anything may happen in between.  A findMany that loads  *)
(* rows with their assignments counts as one call.                         *)
(*                                                                         *)
(* The two claims of a spot (AUTO apply, accept) hold SELECT ... FOR       *)
(* UPDATE on the Task row from the count to the commit.  Meanwhile no      *)
(* other statement can write that Task row or insert an assignment of it   *)
(* (an insert takes a key-share lock on the Task row its foreign key names)*)
(* but an UPDATE of an existing assignment goes through.                   *)
(*                                                                         *)
(* Left to other modules: reviews, mail, socket fan-out, tags, locations,  *)
(* the attendance code itself and its throttle.                            *)
(***************************************************************************)
EXTENDS Naturals, FiniteSets

CONSTANTS
    Users,          \* everyone with an account
    Tasks,          \* the postings that may be created
    Poster,         \* Poster[t]: who posts t; no route ever changes it
    Events,         \* the postings of type EVENT; the type is immutable too
    DeadlineTasks,  \* bound: the postings that carry a deadline
    Caps,           \* bound: the maxTakers a posting may be created with
    PatchCaps,      \* bound: the maxTakers an edit may leave; {} = no edits
    Slots,          \* bound: the requests in flight at the same time
    Passes,         \* bound: the settle() calls in flight at the same time
    Discipline      \* how far clients serialize the requests on one row

ASSUME PostersAreUsers == Poster \in [Tasks -> Users]
ASSUME FinitelyManyUsers == IsFiniteSet(Users)
ASSUME TaskSets == Events \subseteq Tasks /\ DeadlineTasks \subseteq Tasks

\* createBody: z.number().int().min(1), default 1.  An edit that leaves
\* maxTakers out is given that default, hence 1 among the edited values.
ASSUME CapsArePositive ==
    /\ Caps \subseteq Nat \ {0}
    /\ PatchCaps \subseteq Nat \ {0}
    /\ PatchCaps = {} \/ 1 \in PatchCaps

\* "row": at most one request at a time concerns a given assignment;
\* "side": the helper's requests on it are serialized, but for a double click
\* on Apply, and the organizer's are, but one of each may overlap; "none": what
\* the server itself enforces.
ASSUME DisciplineKnown == Discipline \in {"row", "side", "none"}

VARIABLES
    status,     \* Task.status, ABSENT before the posting is created
    mode,       \* Task.acceptanceMode
    maxTakers,  \* Task.maxTakers
    expired,    \* Task.deadline lies in the past
    asg,        \* asg[t][u]: TaskAssignment.status of u on t, NONE if no row
    aged,       \* the <<t, u>> whose completionRequestedAt is 7 days old
    req,        \* what each request in flight has read and is about to do
    pass,       \* what each settle() in flight has read and is about to do
    left,       \* history: the <<t, u>> that lost a seat and claimed none since
    peakCap,    \* history: the largest maxTakers t has ever had
    cancelled   \* history: the postings a poster has ever cancelled

history == <<peakCap, cancelled>>
vars == <<status, mode, maxTakers, expired, asg, left, aged, req, pass, history>>

-----------------------------------------------------------------------------
(* Data *)

TaskStatus == {"ABSENT", "OPEN", "LOCKED", "COMPLETED", "CANCELLED"}

Modes == {"AUTO", "APPROVAL"}

RowStatus == {"NONE", "APPLIED", "ACCEPTED", "IN_PROGRESS", "PENDING_CONFIRMATION",
              "COMPLETED", "REJECTED", "WITHDRAWN"}

\* Assignment states that occupy one of the posting's spots.
HOLDS_A_SPOT == {"ACCEPTED", "IN_PROGRESS", "PENDING_CONFIRMATION", "COMPLETED"}

\* What the helper may still call finished, or still walk away from.
Working == {"ACCEPTED", "IN_PROGRESS"}

TakerOps == {"apply", "complete", "withdraw", "checkin"}
OrganizerOps == {"accept", "reject", "confirm"}
RowOps == TakerOps \union OrganizerOps
TaskOps == {"cancel", "patch"}

Idle == [op |-> "idle"]

\* "write": the next call writes; "lock": it locks the Task row and counts;
\* "commit": the row is locked, the count left a spot, the claim is written.
Request == [op : RowOps \union TaskOps, at : {"write", "lock", "commit"},
            t : Tasks, u : Users, cap : Nat, existing : BOOLEAN]

PassAt == {"rest", "confirm", "expire", "scanFull", "full", "scanDone", "done"}

Pass == [at : PassAt, rows : SUBSET (Tasks \X Users), ids : SUBSET Tasks]

AtRest == [at |-> "rest", rows |-> {}, ids |-> {}]

-----------------------------------------------------------------------------
(* What the code computes from the rows *)

Holders(t) == {u \in Users : asg[t][u] \in HOLDS_A_SPOT}
Taken(t) == Cardinality(Holders(t))

\* Mutant: > for >= in the refusal.
SpotLeftOffByOne(t, cap) == Taken(t) <= cap

\* The capacity test under the lock: taken >= maxTakers is refused.
SpotLeft(t, cap) == Taken(t) < cap

\* Mutant: the count without FOR UPDATE.
NeverLocked(t) == FALSE

Locked(t) == \E s \in Slots : req[s] # Idle /\ req[s].t = t /\ req[s].at = "commit"

\* Mutant: completionRequestedAt compared the wrong way round.
DueTooSoon(t, u) == asg[t][u] = "PENDING_CONFIRMATION" /\ <<t, u>> \notin aged

Due(t, u) == asg[t][u] = "PENDING_CONFIRMATION" /\ <<t, u>> \in aged

PastDeadline(t) == status[t] = "OPEN" /\ expired[t]

\* Mutant: > for >=.
Overfull(t) == status[t] = "OPEN" /\ Taken(t) > maxTakers[t]

Full(t) == status[t] = "OPEN" /\ Taken(t) >= maxTakers[t]

AllFinished(t) == \A u \in Holders(t) : asg[t][u] = "COMPLETED"

\* Mutant: full is taken for finished.
FullIsFinished(t) == status[t] = "LOCKED" /\ Taken(t) >= maxTakers[t]

Finished(t) ==
    /\ status[t] = "LOCKED"
    /\ Taken(t) >= maxTakers[t]
    /\ AllFinished(t)

\* Two requests the client-side discipline keeps apart on one assignment.
Clash(a, b) ==
    \/ Discipline = "row"
    \/ /\ Discipline = "side" /\ {a, b} # {"apply"}
       /\ {a, b} \subseteq TakerOps \/ {a, b} \subseteq OrganizerOps

Allowed(op, t, u) ==
    \A s \in Slots :
        (req[s].op \in RowOps /\ req[s].t = t /\ req[s].u = u) => ~Clash(op, req[s].op)

-----------------------------------------------------------------------------
(* Requests *)

posting == <<status, mode, maxTakers, expired>>

\* A request has loaded its rows, passed its guards and now awaits.
Begin(s, op, at, t, u, cap, existing) ==
    /\ req[s] = Idle
    /\ req' = [req EXCEPT ![s] = [op |-> op, at |-> at, t |-> t, u |-> u,
                                  cap |-> cap, existing |-> existing]]
    /\ UNCHANGED <<posting, asg, left, aged, pass, history>>

\* A request on one assignment; the caller's right to make it (the taker, or
\* the poster and the admins, who may all act at once) is not state.
BeginOnRow(s, op, at, t, u, cap) ==
    /\ Allowed(op, t, u)
    /\ Begin(s, op, at, t, u, cap, TRUE)

\* The request in s is at the given call of the given handler.
At(s, op, at) == req[s] # Idle /\ req[s].op = op /\ req[s].at = at

Finish(s) == req' = [req EXCEPT ![s] = Idle]

\* The row is written, by the claim of a spot or otherwise.
SetRow(t, u, value, claim) ==
    /\ asg' = [asg EXCEPT ![t][u] = value]
    /\ left' = IF claim THEN left \ {<<t, u>>}
               ELSE IF asg[t][u] \in HOLDS_A_SPOT /\ value \notin HOLDS_A_SPOT
               THEN left \union {<<t, u>>}
               ELSE left

\* The handler's last call: an unconditional UPDATE of its assignment.
WriteRow(s, value) ==
    /\ SetRow(req[s].t, req[s].u, value, req[s].at = "commit")
    /\ Finish(s)
    /\ UNCHANGED <<posting, pass, history>>

SetCap(t, c) ==
    /\ maxTakers' = [maxTakers EXCEPT ![t] = c]
    /\ peakCap' = [peakCap EXCEPT ![t] = IF c > @ THEN c ELSE @]

\* POST /tasks.  Nothing requires the deadline to be ahead: it may pass at once.
Create(t) ==
    /\ status[t] = "ABSENT"
    /\ status' = [status EXCEPT ![t] = "OPEN"]
    /\ \E m \in Modes : mode' = [mode EXCEPT ![t] = m]
    /\ \E c \in Caps : SetCap(t, c)
    /\ UNCHANGED <<expired, asg, left, aged, req, pass, cancelled>>

\* POST /tasks/:id/apply up to claimSeat's first call.
ApplyRead(s, t, u) ==
    /\ u # Poster[t]
    /\ status[t] = "OPEN"
    /\ asg[t][u] \in {"NONE", "WITHDRAWN"}
    /\ Allowed("apply", t, u)
    /\ Begin(s, "apply", IF mode[t] = "AUTO" THEN "lock" ELSE "write",
             t, u, maxTakers[t], asg[t][u] = "WITHDRAWN")

\* Mutant: the poster's choice is written without counting.
AcceptUncounted(s, t, u) ==
    /\ asg[t][u] = "APPLIED"
    /\ BeginOnRow(s, "accept", "commit", t, u, maxTakers[t])

AcceptRead(s, t, u) ==
    /\ asg[t][u] = "APPLIED"
    /\ BeginOnRow(s, "accept", "lock", t, u, maxTakers[t])

\* The lock is taken and the holders counted, against the maxTakers read
\* before the lock.  Waiting for the lock and counting are one step: nothing
\* in between depends on the wait.
CountSpots(s) ==
    /\ req[s] # Idle /\ req[s].at = "lock"
    /\ ~Locked(req[s].t)
    /\ SpotLeft(req[s].t, req[s].cap)
    /\ req' = [req EXCEPT ![s].at = "commit"]
    /\ UNCHANGED <<posting, asg, left, aged, pass, history>>

\* "No spots left." / "Every spot is already filled.": the transaction aborts.
CountFull(s) ==
    /\ req[s] # Idle /\ req[s].at = "lock"
    /\ ~Locked(req[s].t)
    /\ ~SpotLeft(req[s].t, req[s].cap)
    /\ Finish(s)
    /\ UNCHANGED <<posting, asg, left, aged, pass, history>>

\* write(tx): the old row is updated as it stands, or a new one inserted; the
\* insert of a second row for <<t, u>> is refused by @@unique([taskId, takerId]).
Insertable(s) == req[s].existing \/ asg[req[s].t][req[s].u] = "NONE"

\* Mutant: a seat is written with a status the schema does not know.
ApplyReserved(s) == IF req[s].at = "commit" THEN "RESERVED" ELSE "APPLIED"

ApplyValue(s) == IF req[s].at = "commit" THEN "ACCEPTED" ELSE "APPLIED"

ApplyWrite(s) ==
    /\ At(s, "apply", "commit") \/ At(s, "apply", "write")
    /\ req[s].existing \/ req[s].at = "commit" \/ ~Locked(req[s].t)
    /\ Insertable(s)
    /\ WriteRow(s, ApplyValue(s))
    /\ UNCHANGED aged

ApplyDuplicate(s) ==
    /\ At(s, "apply", "commit") \/ At(s, "apply", "write")
    /\ ~Insertable(s)
    /\ Finish(s)
    /\ UNCHANGED <<posting, asg, left, aged, pass, history>>

AcceptWrite(s) ==
    /\ At(s, "accept", "commit")
    /\ WriteRow(s, "ACCEPTED")
    /\ UNCHANGED aged

RejectRead(s, t, u) ==
    /\ asg[t][u] = "APPLIED"
    /\ BeginOnRow(s, "reject", "write", t, u, 0)

RejectWrite(s) ==
    /\ At(s, "reject", "write")
    /\ WriteRow(s, "REJECTED")
    /\ UNCHANGED aged

\* Mutant: an applicant may report the work done.
CompleteUnseated(s, t, u) ==
    /\ t \notin Events
    /\ asg[t][u] \in {"APPLIED"} \union Working
    /\ BeginOnRow(s, "complete", "write", t, u, 0)

CompleteRead(s, t, u) ==
    /\ t \notin Events
    /\ asg[t][u] \in Working
    /\ BeginOnRow(s, "complete", "write", t, u, 0)

\* completionRequestedAt = now: the seven days start over.
CompleteWrite(s) ==
    /\ At(s, "complete", "write")
    /\ WriteRow(s, "PENDING_CONFIRMATION")
    /\ aged' = aged \ {<<req[s].t, req[s].u>>}

ConfirmRead(s, t, u) ==
    /\ asg[t][u] = "PENDING_CONFIRMATION"
    /\ BeginOnRow(s, "confirm", "write", t, u, 0)

ConfirmWrite(s) ==
    /\ At(s, "confirm", "write")
    /\ WriteRow(s, "COMPLETED")
    /\ UNCHANGED aged

WithdrawRead(s, t, u) ==
    /\ asg[t][u] \in {"APPLIED"} \union Working
    /\ BeginOnRow(s, "withdraw", "write", t, u, 0)

WithdrawWrite(s) ==
    /\ At(s, "withdraw", "write")
    /\ WriteRow(s, "WITHDRAWN")
    /\ UNCHANGED aged

\* Presence proved with a current code; the settle() that follows in the same
\* handler is one of the Passes.
CheckinRead(s, t, u) ==
    /\ t \in Events
    /\ status[t] \in {"OPEN", "LOCKED"}
    /\ asg[t][u] = "ACCEPTED"
    /\ BeginOnRow(s, "checkin", "write", t, u, 0)

CheckinWrite(s) ==
    /\ At(s, "checkin", "write")
    /\ WriteRow(s, "COMPLETED")
    /\ UNCHANGED aged

\* "A completed task cannot be cancelled."
CancelRead(s, t) ==
    /\ status[t] \notin {"ABSENT", "COMPLETED"}
    /\ Begin(s, "cancel", "write", t, Poster[t], 0, TRUE)

CancelWrite(s) ==
    /\ At(s, "cancel", "write")
    /\ ~Locked(req[s].t)
    /\ status' = [status EXCEPT ![req[s].t] = "CANCELLED"]
    /\ cancelled' = cancelled \union {req[s].t}
    /\ Finish(s)
    /\ UNCHANGED <<mode, maxTakers, expired, asg, left, aged, pass, peakCap>>

\* "A completed task cannot be edited."
PatchRead(s, t) ==
    /\ PatchCaps # {}
    /\ status[t] \notin {"ABSENT", "COMPLETED"}
    /\ Begin(s, "patch", "write", t, Poster[t], 0, TRUE)

\* No field is checked against the seats already taken.
PatchWrite(s) ==
    /\ At(s, "patch", "write")
    /\ ~Locked(req[s].t)
    /\ LET t == req[s].t IN
       /\ \E c \in PatchCaps : SetCap(t, c)
       /\ \E m \in Modes : mode' = [mode EXCEPT ![t] = m]
       /\ \E e \in IF t \in DeadlineTasks THEN BOOLEAN ELSE {FALSE} :
            expired' = [expired EXCEPT ![t] = e]
    /\ Finish(s)
    /\ UNCHANGED <<status, asg, left, aged, pass, cancelled>>

\* A call fails, times out, or the process dies: the transaction, if any, is
\* rolled back and its lock released.  A crash is one such step per request.
ReqFail(s) ==
    /\ req[s] # Idle
    /\ Finish(s)
    /\ UNCHANGED <<posting, asg, left, aged, pass, history>>

-----------------------------------------------------------------------------
(* Time *)

SevenDaysPass(t, u) ==
    /\ asg[t][u] = "PENDING_CONFIRMATION" /\ <<t, u>> \notin aged
    /\ aged' = aged \union {<<t, u>>}
    /\ UNCHANGED <<posting, asg, left, req, pass, history>>

DeadlinePasses(t) ==
    /\ t \in DeadlineTasks /\ status[t] # "ABSENT" /\ ~expired[t]
    /\ expired' = [expired EXCEPT ![t] = TRUE]
    /\ UNCHANGED <<status, mode, maxTakers, asg, left, aged, req, pass, history>>

-----------------------------------------------------------------------------
(* settle(): three rules, each a scan and then writes from what it found.   *)
(* It runs before every request, and again inside a check-in; a failure is  *)
(* logged and the request goes on, so passes and requests are independent.  *)

Advance(p, at, rows, ids) == pass' = [pass EXCEPT ![p] = [at |-> at, rows |-> rows, ids |-> ids]]

\* autoConfirmCompletions, findMany.
DueRead(p) ==
    /\ pass[p].at = "rest"
    /\ Advance(p, "confirm", {r \in Tasks \X Users : Due(r[1], r[2])}, {})
    /\ UNCHANGED <<posting, asg, left, aged, req, history>>

\* autoConfirmCompletions, one update per due row, in whatever order they came.
AutoConfirm(p, t, u) ==
    /\ pass[p].at = "confirm" /\ <<t, u>> \in pass[p].rows
    /\ SetRow(t, u, "COMPLETED", FALSE)
    /\ Advance(p, "confirm", pass[p].rows \ {<<t, u>>}, {})
    /\ UNCHANGED <<posting, aged, req, history>>

\* A scan that finds nothing skips its write.
Scan(p, found, writeAt, nextScan) ==
    IF found = {} THEN Advance(p, nextScan, {}, {}) ELSE Advance(p, writeAt, {}, found)

ExpiredRead(p) ==
    /\ pass[p].at = "confirm" /\ pass[p].rows = {}
    /\ Scan(p, {t \in Tasks : PastDeadline(t)}, "expire", "scanFull")
    /\ UNCHANGED <<posting, asg, left, aged, req, history>>

FullRead(p) ==
    /\ pass[p].at = "scanFull"
    /\ Scan(p, {t \in Tasks : Full(t)}, "full", "scanDone")
    /\ UNCHANGED <<posting, asg, left, aged, req, history>>

FinishedRead(p) ==
    /\ pass[p].at = "scanDone"
    /\ Scan(p, {t \in Tasks : Finished(t)}, "done", "rest")
    /\ UNCHANGED <<posting, asg, left, aged, req, history>>

\* updateMany by id alone: whatever the status has become, it is overwritten.
SettleStatus(p, value) ==
    /\ \A t \in pass[p].ids : ~Locked(t)
    /\ status' = [t \in Tasks |-> IF t \in pass[p].ids THEN value ELSE status[t]]

ExpiredWrite(p) ==
    /\ pass[p].at = "expire"
    /\ SettleStatus(p, "LOCKED")
    /\ Advance(p, "scanFull", {}, {})
    /\ UNCHANGED <<mode, maxTakers, expired, asg, left, aged, req, history>>

FullWrite(p) ==
    /\ pass[p].at = "full"
    /\ SettleStatus(p, "LOCKED")
    /\ Advance(p, "scanDone", {}, {})
    /\ UNCHANGED <<mode, maxTakers, expired, asg, left, aged, req, history>>

FinishedWrite(p) ==
    /\ pass[p].at = "done"
    /\ SettleStatus(p, "COMPLETED")
    /\ Advance(p, "rest", {}, {})
    /\ UNCHANGED <<mode, maxTakers, expired, asg, left, aged, req, history>>

PassFail(p) ==
    /\ pass[p] # AtRest
    /\ pass' = [pass EXCEPT ![p] = AtRest]
    /\ UNCHANGED <<posting, asg, left, aged, req, history>>

-----------------------------------------------------------------------------
Init ==
    /\ status = [t \in Tasks |-> "ABSENT"]
    /\ mode = [t \in Tasks |-> "APPROVAL"]
    /\ maxTakers = [t \in Tasks |-> 0]
    /\ expired = [t \in Tasks |-> FALSE]
    /\ asg = [t \in Tasks |-> [u \in Users |-> "NONE"]]
    /\ left = {}
    /\ aged = {}
    /\ req = [s \in Slots |-> Idle]
    /\ pass = [p \in Passes |-> AtRest]
    /\ peakCap = [t \in Tasks |-> 0]
    /\ cancelled = {}

RowRead(s, t, u) ==
    \/ ApplyRead(s, t, u)
    \/ AcceptRead(s, t, u)
    \/ RejectRead(s, t, u)
    \/ CompleteRead(s, t, u)
    \/ ConfirmRead(s, t, u)
    \/ WithdrawRead(s, t, u)
    \/ CheckinRead(s, t, u)

\* What a request does once it has begun, unless it fails.
ReqStep(s) ==
    \/ CountSpots(s)
    \/ CountFull(s)
    \/ ApplyWrite(s)
    \/ ApplyDuplicate(s)
    \/ AcceptWrite(s)
    \/ RejectWrite(s)
    \/ CompleteWrite(s)
    \/ ConfirmWrite(s)
    \/ WithdrawWrite(s)
    \/ CheckinWrite(s)
    \/ CancelWrite(s)
    \/ PatchWrite(s)

PassRead(p) ==
    \/ DueRead(p)
    \/ ExpiredRead(p)
    \/ FullRead(p)
    \/ FinishedRead(p)

PassWrite(p) ==
    \/ ExpiredWrite(p)
    \/ FullWrite(p)
    \/ FinishedWrite(p)

Next ==
    \/ \E t \in Tasks : Create(t)
    \/ \E s \in Slots, t \in Tasks, u \in Users : RowRead(s, t, u)
    \/ \E s \in Slots, t \in Tasks : CancelRead(s, t) \/ PatchRead(s, t)
    \/ \E s \in Slots : ReqStep(s) \/ ReqFail(s)
    \/ \E t \in Tasks, u \in Users : SevenDaysPass(t, u)
    \/ \E t \in Tasks : DeadlinePasses(t)
    \/ \E p \in Passes : PassRead(p) \/ PassWrite(p) \/ PassFail(p)
    \/ \E p \in Passes, t \in Tasks, u \in Users : AutoConfirm(p, t, u)

Spec == Init /\ [][Next]_vars

\* Requests keep arriving, each with its settle(), and no call of settle fails
\* every time it is made (strong: a failed pass starts over from its first
\* scan).  Requests once begun go on to their next call.
Fairness ==
    /\ \A s \in Slots : WF_vars(ReqStep(s))
    /\ \A t \in Tasks, u \in Users : WF_vars(SevenDaysPass(t, u))
    /\ \A p \in Passes :
        /\ SF_vars(DueRead(p))
        /\ SF_vars(ExpiredRead(p))
        /\ SF_vars(FullRead(p))
        /\ SF_vars(FinishedRead(p))
        /\ SF_vars(PassWrite(p))
        /\ \A t \in Tasks, u \in Users : SF_vars(AutoConfirm(p, t, u))

FairSpec == Spec /\ Fairness

-----------------------------------------------------------------------------
(* Properties *)

\* Every variable holds what the schema and the handlers' locals can hold.
TypeOK ==
    /\ status \in [Tasks -> TaskStatus]
    /\ mode \in [Tasks -> Modes]
    /\ maxTakers \in [Tasks -> Nat]
    /\ expired \in [Tasks -> BOOLEAN]
    /\ asg \in [Tasks -> [Users -> RowStatus]]
    /\ left \subseteq Tasks \X Users
    /\ aged \subseteq Tasks \X Users
    /\ req \in [Slots -> {Idle} \union Request]
    /\ pass \in [Passes -> Pass]
    /\ peakCap \in [Tasks -> Nat]
    /\ cancelled \subseteq Tasks

\* A posting never seats more helpers than the largest capacity it has had,
\* whatever AUTO applies, accepts, withdrawals, completions, failures and
\* edits overlap: "exactly one gets it" of the last seat.
SeatCap == \A t \in Tasks : Taken(t) <= peakCap[t]

\* A posting that settle has marked COMPLETED is full and every helper on it
\* finished, however stale the scan that decided it was (where capacities
\* are not edited).
CompletedMeansDone ==
    \A t \in Tasks : status[t] = "COMPLETED" => Taken(t) >= maxTakers[t] /\ AllFinished(t)

\* The helpers who sit on t by a claim, not because a write that was decided on
\* an older row has given their seat back.
Granted(t) == {u \in Holders(t) : <<t, u>> \notin left}

\* The same of what the server enforces alone, with requests that overlap on
\* one row as they like (a double click, two tabs, helper and poster at once):
\* never more seats are granted than the posting has ever offered.  More
\* helpers sit there only when a late write has given a seat back.
GrantedSeats == \A t \in Tasks : Cardinality(Granted(t)) <= peakCap[t]

\* Every write of an assignment, made from a row read earlier and over whatever
\* it is by now, is a move of the seat book: a seat is granted only while one
\* is free, nobody reports, checks in or has confirmed the work of a seat that
\* was never granted to them, and no row goes away.
Book == INSTANCE SeatBook WITH row <- asg, limit <- peakCap

ImplementsSeatBook == Book!Spec

\* The one the helper waits for: whatever the poster does or fails to do, work
\* reported done is confirmed in the end.
NoHostage ==
    \A t \in Tasks, u \in Users :
        asg[t][u] = "PENDING_CONFIRMATION" ~> asg[t][u] = "COMPLETED"

\* A posting whose every seat is taken by a helper who has finished does not
\* stay open: settle closes it, or the poster cancels it first.
Concludes ==
    \A t \in Tasks :
        (status[t] \in {"OPEN", "LOCKED"} /\ Taken(t) >= maxTakers[t] /\ AllFinished(t))
            ~> status[t] \in {"COMPLETED", "CANCELLED"}

-----------------------------------------------------------------------------
(* What the repository says of the code and a run refutes *)

\* "A cancelled or already-finished event accepts nothing": no check-in passes
\* its guards once the poster has cancelled the event (tasks.js:465).
CancelledTakesNoCheckin ==
    [][\A s \in Slots, t \in Tasks, u \in Users : CheckinRead(s, t, u) => t \notin cancelled]_vars

-----------------------------------------------------------------------------
(* The inductive invariant behind SeatCap: for Discipline = "row", and for   *)
(* "side" where postings are not edited                                     *)

OnRow(s) == req[s].op \in RowOps

\* What the handler in s found in the row and relies on when it writes.
Read(s) ==
    CASE req[s].op = "apply"    -> IF req[s].existing THEN {"WITHDRAWN"} ELSE {"NONE"}
      [] req[s].op = "complete" -> Working
      [] req[s].op = "confirm"  -> {"PENDING_CONFIRMATION", "COMPLETED"}
      [] req[s].op = "withdraw" -> {"APPLIED"} \union Working
      [] req[s].op = "checkin"  -> {"ACCEPTED"}
      [] OTHER                  -> {"APPLIED"}

\* What the other side, or a second click, may have made of it meanwhile.
Overtaken(s) ==
    CASE req[s].op = "apply"              -> {"NONE", "WITHDRAWN", "APPLIED", "ACCEPTED", "REJECTED"}
      [] req[s].op = "withdraw"           -> {"REJECTED"}
      [] req[s].op \in {"accept", "reject"} -> {"WITHDRAWN"}
      [] OTHER                            -> {}

Relied(s) == IF Discipline = "side" THEN Read(s) \union Overtaken(s) ELSE Read(s)

\* No two requests that are kept apart are in flight on one row.
RowExclusive ==
    \A s1, s2 \in Slots :
        (/\ s1 # s2 /\ OnRow(s1) /\ OnRow(s2)
         /\ req[s1].t = req[s2].t /\ req[s1].u = req[s2].u) => ~Clash(req[s1].op, req[s2].op)

\* The row a handler is about to overwrite is what its guards accepted, or
\* what the other side can have made of that; the automatic confirmation may
\* have been quicker than the poster's.
ReadsStillValid ==
    /\ \A s \in Slots : OnRow(s) => asg[req[s].t][req[s].u] \in Relied(s)
    /\ \A p \in Passes, t \in Tasks, u \in Users :
        <<t, u>> \in pass[p].rows => asg[t][u] \in {"PENDING_CONFIRMATION", "COMPLETED"}

\* At most one claim on a posting lies between its count and its commit.
OneClaimAtATime ==
    \A s1, s2 \in Slots :
        (/\ req[s1] # Idle /\ req[s2] # Idle /\ req[s1].t = req[s2].t
         /\ req[s1].at = "commit" /\ req[s2].at = "commit") => s1 = s2

\* The count made under the lock still holds when the claim commits.
ClaimsHaveRoom ==
    \A s \in Slots : (req[s] # Idle /\ req[s].at = "commit") => SpotLeft(req[s].t, req[s].cap)

CapsRead ==
    /\ \A t \in Tasks : maxTakers[t] <= peakCap[t]
    /\ \A s \in Slots : (req[s] # Idle /\ req[s].at \in {"lock", "commit"}) =>
            req[s].cap <= peakCap[req[s].t]

ClaimInv ==
    /\ TypeOK
    /\ RowExclusive
    /\ ReadsStillValid
    /\ OneClaimAtATime
    /\ ClaimsHaveRoom
    /\ CapsRead
    /\ SeatCap

\* Rows and requests exist only for postings that were created.
OnlyPosted ==
    /\ \A t \in Tasks, u \in Users : status[t] = "ABSENT" => asg[t][u] = "NONE"
    /\ \A s \in Slots : req[s] # Idle => status[req[s].t] # "ABSENT"

\* A posting that seats at once has no applications for its poster to answer,
\* so that a claim never meets an answer on one row.
ModesStand ==
    Discipline = "side" =>
        /\ \A t \in Tasks, u \in Users : asg[t][u] = "APPLIED" => mode[t] = "APPROVAL"
        /\ \A s \in Slots :
            /\ req[s].op = "apply" => (req[s].at = "write" <=> mode[req[s].t] = "APPROVAL")
            /\ req[s].op \in {"accept", "reject"} => mode[req[s].t] = "APPROVAL"

SeatInv == ClaimInv /\ OnlyPosted /\ ModesStand

-----------------------------------------------------------------------------
(* The inductive invariant behind GrantedSeats, for every Discipline *)

\* u holds a seat on t, or lost one.
Had(t, u) == asg[t][u] \in HOLDS_A_SPOT \/ <<t, u>> \in left

\* The count made under the lock still holds of the seats granted.
ClaimsHaveGrants ==
    \A s \in Slots : (req[s] # Idle /\ req[s].at = "commit") =>
        Cardinality(Granted(req[s].t)) < req[s].cap

\* Who reports, checks in or is confirmed has been granted a seat, and only the
\* first application is without a row.
SeatsEarned ==
    /\ \A s \in Slots : req[s].op \in {"complete", "confirm", "checkin"} =>
            Had(req[s].t, req[s].u)
    /\ \A p \in Passes, t \in Tasks, u \in Users : <<t, u>> \in pass[p].rows => Had(t, u)

RowsRemain ==
    /\ \A t \in Tasks, u \in Users : <<t, u>> \in left => asg[t][u] # "NONE"
    /\ \A s \in Slots : OnRow(s) /\ (req[s].op = "apply" => req[s].existing) =>
            asg[req[s].t][req[s].u] # "NONE"

GrantInv ==
    /\ TypeOK
    /\ OneClaimAtATime
    /\ CapsRead
    /\ ClaimsHaveGrants
    /\ GrantedSeats
    /\ SeatsEarned
    /\ RowsRemain

=============================================================================
