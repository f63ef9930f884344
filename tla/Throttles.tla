------------------------------ MODULE Throttles ------------------------------
(***************************************************************************)
(* The two throttles the process keeps in memory: failed administrator     *)
(* sign-ins per address and per account, in a window that begins with the  *)
(* first failure (src/auth/loginThrottle.js, src/routes/auth.js), and      *)
(* wrong check-in codes per attendee, in a window that rolls, with the     *)
(* code that changes at every step (src/routes/tasks.js, src/lib/totp.js). *)
(*                                                                         *)
(* The clock counts whole units, as Date.now() does.  A password is        *)
(* verified with scrypt, so that a sign-in never ends in the unit it began *)
(* in.  A code is known by when the organizer showed it; two steps never   *)
(* share a code here, and a guess is right in none.  One event is          *)
(* modelled.  A restart forgets both throttles.                            *)
(***************************************************************************)
EXTENDS Naturals, Sequences, FiniteSets

CONSTANTS
    Targets,        \* the pairs of keys, ip:... and email:..., of a sign-in
    Attempts,       \* bound: sign-ins in flight at the same time
    Window,         \* WINDOW_MS
    MaxFailures,    \* MAX_FAILURES
    Attendees,      \* the accepted attendees of the event
    Slots,          \* bound: check-ins in flight at the same time
    CheckinWindow,  \* CHECKIN_WINDOW_MS
    CheckinMax,     \* CHECKIN_MAX_FAILURES
    Step,           \* STEP_SECONDS
    Guess           \* a code that was never shown

ASSUME WindowsArePositive == {Window, MaxFailures, CheckinWindow, CheckinMax, Step} \subseteq Nat \ {0}
ASSUME SomeAttempts == IsFiniteSet(Attempts) /\ Attempts # {}
ASSUME GuessIsNoAge == Guess \notin Nat

VARIABLES
    failures,   \* failures[k]: the entry of a key; count 0: no entry
    attempt,    \* the sign-ins whose password is being verified
    misses,     \* checkinFailures: how old each miss is, the oldest first
    checkin,    \* the check-ins that have read the event
    attended,   \* the attendees whose assignment is COMPLETED
    phase,      \* how far the current step of the code has gone
    recent,     \* history: recent[k][a]: failures of k in the last a units, since it was cleared
    shut        \* history: for how many units on end a key has been refused

door == <<failures, attempt, recent, shut>>
event == <<misses, checkin, attended>>
vars == <<door, event, phase>>

Keys == UNION Targets
Idle == [at |-> "idle"]

-----------------------------------------------------------------------------
(* loginThrottle.js *)

None == [count |-> 0, age |-> 0]

Expired(e) == e.age > Window

\* Mutant: an entry with one failure too many is still let through.
LockedTooLate(e) == e.count > MaxFailures /\ e.age < Window

\* retryAfterSeconds is positive; in the last unit of the window it is 0.
Locked(e) == e.count >= MaxFailures /\ e.age < Window

\* What retryAfterSeconds and sweep leave of the keys they look at.
Swept(looked) == [k \in Keys |-> IF k \in looked /\ Expired(failures[k]) THEN None ELSE failures[k]]

\* Mutant: every failure starts the window anew.
CountedAnew(e) == [count |-> e.count + 1, age |-> 0]

\* The entry after one more failure.
Counted(e) == IF e.count = 0 THEN [count |-> 1, age |-> 0] ELSE [e EXCEPT !.count = @ + 1]

NoneRecent == [a \in 0..Window |-> 0]

-----------------------------------------------------------------------------
(* POST /auth/admin/login *)

\* 429 where one of the two keys has to wait; else the password is verified.
SignIn(a, keys) ==
    /\ attempt[a] = Idle
    /\ failures' = Swept(keys)
    /\ attempt' = IF \E k \in keys : Locked(failures'[k]) THEN attempt
                  ELSE [attempt EXCEPT ![a] = [at |-> "verify", keys |-> keys, slept |-> FALSE]]
    /\ UNCHANGED <<recent, shut, event, phase>>

Verified(a) == attempt[a] # Idle /\ attempt[a].slept

Finish(a) == attempt' = [attempt EXCEPT ![a] = Idle]

\* recordFailure sweeps the whole map before it counts.
SignInFails(a) ==
    /\ Verified(a)
    /\ failures' = [k \in Keys |-> LET e == Swept(Keys)[k] IN
                                   IF k \in attempt[a].keys THEN Counted(e) ELSE e]
    /\ recent' = [k \in Keys |-> IF k \in attempt[a].keys THEN [n \in 0..Window |-> recent[k][n] + 1]
                                 ELSE recent[k]]
    /\ Finish(a)
    /\ UNCHANGED <<shut, event, phase>>

\* clearFailures for both keys, whoever has failed on them meanwhile.
SignInSucceeds(a) ==
    /\ Verified(a)
    /\ failures' = [k \in Keys |-> IF k \in attempt[a].keys THEN None ELSE failures[k]]
    /\ recent' = [k \in Keys |-> IF k \in attempt[a].keys THEN NoneRecent ELSE recent[k]]
    /\ shut' = [k \in Keys |-> IF k \in attempt[a].keys THEN 0 ELSE shut[k]]
    /\ Finish(a)
    /\ UNCHANGED <<event, phase>>

\* A call fails; nothing is counted.
SignInError(a) ==
    /\ attempt[a] # Idle
    /\ Finish(a)
    /\ UNCHANGED <<failures, recent, shut, event, phase>>

-----------------------------------------------------------------------------
(* totp.js: how many steps ago a code was shown, and whether it still counts *)

Drift(age) == (age + Step - 1 - phase) \div Step

\* Mutant: only the code of the current step.
VerifyCurrent(age) == age # Guess /\ Drift(age) = 0

Verify(age) == age # Guess /\ Drift(age) <= 1

-----------------------------------------------------------------------------
(* POST /tasks/:id/checkin *)

\* liveFailures.  Stamps are pushed in order: those that have gone by come first.
Live(stamps) ==
    LET dead == {i \in DOMAIN stamps : stamps[i] >= CheckinWindow}
    IN  SubSeq(stamps, Cardinality(dead) + 1, Len(stamps))

\* findUnique, with the attendee's assignment still ACCEPTED.
CheckinRead(s, u, age) ==
    /\ checkin[s] = Idle
    /\ u \notin attended
    /\ checkin' = [checkin EXCEPT ![s] = [at |-> "judge", who |-> u, age |-> age]]
    /\ UNCHANGED <<door, misses, attended, phase>>

Leave(s) == checkin' = [checkin EXCEPT ![s] = Idle]

\* Mutant: one miss more than the budget.
OpenOnceMore(s) == Len(Live(misses[checkin[s].who])) <= CheckinMax

\* checkinRetryAfter is null.
Open(s) == Len(Live(misses[checkin[s].who])) < CheckinMax

\* 429 or 400: the throttle, the code and the count in one go.
CheckinRefused(s) ==
    /\ checkin[s] # Idle
    /\ LET u == checkin[s].who IN
       misses' = [misses EXCEPT ![u] = IF Open(s) THEN Append(Live(@), 0) ELSE Live(@)]
    /\ ~Open(s) \/ ~Verify(checkin[s].age)
    /\ Leave(s)
    /\ UNCHANGED <<door, attended, phase>>

\* The slate is cleared before the attendance is written, and the write may fail.
CheckinAccepted(s) ==
    /\ checkin[s] # Idle
    /\ Open(s) /\ Verify(checkin[s].age)
    /\ misses' = [misses EXCEPT ![checkin[s].who] = <<>>]
    /\ attended' \in {attended, attended \union {checkin[s].who}}
    /\ Leave(s)
    /\ UNCHANGED <<door, phase>>

CheckinError(s) ==
    /\ checkin[s] # Idle
    /\ Leave(s)
    /\ UNCHANGED <<door, misses, attended, phase>>

-----------------------------------------------------------------------------
\* Ages beyond a window or two steps of the code are all the same.
Older(age, last) == IF age < last THEN age + 1 ELSE age

Tick ==
    /\ failures' = [k \in Keys |-> IF failures[k].count = 0 THEN None
                                   ELSE [failures[k] EXCEPT !.age = Older(@, Window + 1)]]
    /\ attempt' = [a \in Attempts |-> IF attempt[a] = Idle THEN Idle
                                      ELSE [attempt[a] EXCEPT !.slept = TRUE]]
    /\ recent' = [k \in Keys |-> [a \in 0..Window |-> IF a = 0 THEN 0 ELSE recent[k][a - 1]]]
    /\ shut' = [k \in Keys |-> IF Locked(failures[k]) THEN Older(shut[k], Window + 1) ELSE 0]
    /\ misses' = [u \in Attendees |-> [i \in DOMAIN misses[u] |-> Older(misses[u][i], CheckinWindow)]]
    /\ checkin' = [s \in Slots |-> IF checkin[s] = Idle \/ checkin[s].age = Guess THEN checkin[s]
                                   ELSE [checkin[s] EXCEPT !.age = Older(@, 2 * Step)]]
    /\ phase' = (phase + 1) % Step
    /\ UNCHANGED attended

\* The process starts over.
Restart ==
    /\ failures' = [k \in Keys |-> None]
    /\ attempt' = [a \in Attempts |-> Idle]
    /\ recent' = [k \in Keys |-> NoneRecent]
    /\ shut' = [k \in Keys |-> 0]
    /\ misses' = [u \in Attendees |-> <<>>]
    /\ checkin' = [s \in Slots |-> Idle]
    /\ UNCHANGED <<attended, phase>>

Init ==
    /\ failures = [k \in Keys |-> None]
    /\ attempt = [a \in Attempts |-> Idle]
    /\ misses = [u \in Attendees |-> <<>>]
    /\ checkin = [s \in Slots |-> Idle]
    /\ attended = {}
    /\ phase = 0
    /\ recent = [k \in Keys |-> NoneRecent]
    /\ shut = [k \in Keys |-> 0]

Next ==
    \/ \E a \in Attempts : \/ \E keys \in Targets : SignIn(a, keys)
                           \/ SignInFails(a) \/ SignInSucceeds(a) \/ SignInError(a)
    \/ \E s \in Slots : \/ \E u \in Attendees, age \in 0..2 * Step \union {Guess} : CheckinRead(s, u, age)
                        \/ CheckinRefused(s) \/ CheckinAccepted(s) \/ CheckinError(s)
    \/ Tick
    \/ Restart

Spec == Init /\ [][Next]_vars

-----------------------------------------------------------------------------
(* Properties *)

\* How many failures one entry may hold: the last of them and all attempts
\* that had passed the door before it was counted.
Overshoot == MaxFailures - 1 + Cardinality(Attempts)

\* No entry outgrows Overshoot (loginThrottle.js:12, 37-45), and stamps stay in
\* the order of their age, as Live relies on.
TypeOK ==
    /\ failures \in [Keys -> [count : 0..Overshoot, age : 0..Window + 1]]
    /\ attempt \in [Attempts -> {Idle} \union [at : {"verify"}, keys : Targets, slept : BOOLEAN]]
    /\ misses \in [Attendees -> Seq(0..CheckinWindow)]
    /\ \A u \in Attendees : \A i, j \in DOMAIN misses[u] : i <= j => misses[u][i] >= misses[u][j]
    /\ checkin \in [Slots -> {Idle} \union [at : {"judge"}, who : Attendees,
                                            age : 0..2 * Step \union {Guess}]]
    /\ attended \subseteq Attendees
    /\ phase \in 0..Step - 1
    /\ recent \in [Keys -> [0..Window -> Nat]]
    /\ shut \in [Keys -> 0..Window + 1]

\* What the sign-in throttle limits although its window does not roll and
\* failures are counted after the password was verified: in any span as long
\* as the window two entries may meet, each with its overshoot, and the failure
\* that opened the first is always out of it (loginThrottle.js:37-45,
\* auth.js:199-223).
BurstBound ==
    \A k \in Keys : recent[k][Window] <= 2 * Overshoot - 1

\* Failures that come in while a key is refused, from attempts that had passed
\* the door, never prolong the refusal beyond one window: Retry-After can be
\* relied on (loginThrottle.js:25-35).
ShutOutEnds == \A k \in Keys : shut[k] <= Window

\* "Five misses in a rolling five minutes" (tasks.js:401-402): never more of
\* them count at once, however many check-ins of one attendee overlap.
CheckinBudget == \A u \in Attendees : Len(Live(misses[u])) <= CheckinMax

\* A code works for at least one whole step after it was shown, whatever the
\* phase it was copied in, and for less than two (totp.js:58-65).
CodeLifetime ==
    \A s \in Slots : checkin[s] # Idle /\ checkin[s].age # Guess =>
        /\ checkin[s].age <= Step => Verify(checkin[s].age)
        /\ checkin[s].age >= 2 * Step => ~Verify(checkin[s].age)

=============================================================================
