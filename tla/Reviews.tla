------------------------------ MODULE Reviews -------------------------------
(***************************************************************************)
(* Sealed reviews: POST /reviews (src/routes/reviews.js) and the last rule *)
(* of settle(), publishDueReviews (src/services/settle.js).                *)
(*                                                                         *)
(* A pair is a finished posting with its poster and one helper; each side  *)
(* may review the other once.  The clock counts days.  As in Postings a    *)
(* step ends at a database call; the publishing pass also gives way        *)
(* between its scan and the reading of the clock, since the rows are a     *)
(* snapshot taken before Date.now() is called.                             *)
(***************************************************************************)
EXTENDS Naturals

CONSTANTS
    Pairs,      \* <posting, poster, helper> that may come to review each other
    Slots,      \* bound: review submissions in flight at the same time
    Passes,     \* bound: publishing passes in flight at the same time
    BothDays,   \* REVIEW_PUBLISH_AFTER_BOTH_DAYS
    OneDays,    \* REVIEW_PUBLISH_AFTER_ONE_DAYS
    LastSubmit, \* bound: the last day on which a review is submitted
    LastDay     \* bound: the clock stops here

ASSUME DaysAreNumbers ==
    /\ BothDays \in Nat /\ OneDays \in Nat
    /\ LastSubmit \in Nat /\ LastDay \in Nat

VARIABLES
    now,        \* Date.now(), in days
    completed,  \* the pairs whose assignment is COMPLETED, posting not an EVENT
    written,    \* the reviews in the table, <<pair, side>>
    createdAt,  \* the day a review was written, 0 while there is none
    published,  \* the reviews with published = true
    req,        \* the review a submission found missing and is about to create
    pass        \* the publishing passes in flight

vars == <<now, completed, written, createdAt, published, req, pass>>

Sides == {"poster", "taker"}
Reviews == Pairs \X Sides

Other(r) == <<r[1], IF r[2] = "poster" THEN "taker" ELSE "poster">>

NoReview == <<>>

AtRest == [at |-> "rest", seen |-> {}, due |-> {}]

\* "judge": the unpublished rows are loaded; "write": those due are chosen.
Pass ==
    {AtRest}
        \union [at : {"judge"}, seen : SUBSET Reviews, due : {{}}]
        \union [at : {"write"}, seen : SUBSET Reviews, due : SUBSET Reviews]

Age(r) == now - createdAt[r]

-----------------------------------------------------------------------------
(* Submission *)

\* Postings brings a helper's assignment to COMPLETED, where it stays.
TakerCompletes(k) ==
    /\ k \notin completed
    /\ completed' = completed \union {k}
    /\ UNCHANGED <<now, written, createdAt, published, req, pass>>

\* The pair is valid and findFirst finds no earlier review of this side.
\* Nothing asks whether the other side's review is already public.
SubmitRead(s, r) ==
    /\ req[s] = NoReview
    /\ now <= LastSubmit
    /\ r[1] \in completed
    /\ r \notin written
    /\ req' = [req EXCEPT ![s] = r]
    /\ UNCHANGED <<now, completed, written, createdAt, published, pass>>

\* Mutant: the create without @@unique([taskId, reviewerId, revieweeId]).
CreateAgain(r) ==
    /\ written' = written \union {r}
    /\ createdAt' = [createdAt EXCEPT ![r] = now]

\* review.create: sealed, dated now; the unique index refuses a second one.
CreateReview(r) ==
    IF r \in written
    THEN UNCHANGED <<written, createdAt>>
    ELSE /\ written' = written \union {r}
         /\ createdAt' = [createdAt EXCEPT ![r] = now]

SubmitWrite(s) ==
    /\ req[s] # NoReview
    /\ now <= LastSubmit
    /\ CreateReview(req[s])
    /\ req' = [req EXCEPT ![s] = NoReview]
    /\ UNCHANGED <<now, completed, published, pass>>

SubmitFail(s) ==
    /\ req[s] # NoReview
    /\ req' = [req EXCEPT ![s] = NoReview]
    /\ UNCHANGED <<now, completed, written, createdAt, published, pass>>

-----------------------------------------------------------------------------
(* publishDueReviews *)

PublishScan(p) ==
    /\ pass[p].at = "rest"
    /\ pass' = [pass EXCEPT ![p] = [at |-> "judge", seen |-> written \ published, due |-> {}]]
    /\ UNCHANGED <<now, completed, written, createdAt, published, req>>

\* Mutant: a review without its counterpart is left for later.
DueInPairs(r, seen) ==
    /\ Other(r) \in seen
    /\ Age(r) >= BothDays /\ Age(Other(r)) >= BothDays

\* Mutant: each review of a pair by its own date, not by the later one.
DueByOwnDate(r, seen) ==
    IF Other(r) \in seen THEN Age(r) >= BothDays ELSE Age(r) >= OneDays

\* A pair seen with both its reviews waits for the later of them, a review
\* seen alone waits for itself; seen means unpublished.
Due(r, seen) ==
    IF Other(r) \in seen
    THEN Age(r) >= BothDays /\ Age(Other(r)) >= BothDays
    ELSE Age(r) >= OneDays

PublishJudge(p) ==
    /\ pass[p].at = "judge"
    /\ LET seen == pass[p].seen IN
       pass' = [pass EXCEPT ![p] = [at |-> "write", seen |-> seen,
                                    due |-> {r \in seen : Due(r, seen)}]]
    /\ UNCHANGED <<now, completed, written, createdAt, published, req>>

\* Mutant: updateMany on everything scanned.
PublishSeen(p) ==
    /\ pass[p].at = "write"
    /\ published' = published \union pass[p].seen
    /\ pass' = [pass EXCEPT ![p] = AtRest]
    /\ UNCHANGED <<now, completed, written, createdAt, req>>

\* Mutant: the next pass starts with what this one had chosen.
PublishAndKeep(p) ==
    /\ pass[p].at = "write"
    /\ published' = published \union pass[p].due
    /\ pass' = [pass EXCEPT ![p].at = "rest"]
    /\ UNCHANGED <<now, completed, written, createdAt, req>>

PublishWrite(p) ==
    /\ pass[p].at = "write"
    /\ published' = published \union pass[p].due
    /\ pass' = [pass EXCEPT ![p] = AtRest]
    /\ UNCHANGED <<now, completed, written, createdAt, req>>

PublishFail(p) ==
    /\ pass[p] # AtRest
    /\ pass' = [pass EXCEPT ![p] = AtRest]
    /\ UNCHANGED <<now, completed, written, createdAt, published, req>>

DayPasses ==
    /\ now < LastDay
    /\ now' = now + 1
    /\ UNCHANGED <<completed, written, createdAt, published, req, pass>>

-----------------------------------------------------------------------------
Init ==
    /\ now = 0
    /\ completed = {}
    /\ written = {}
    /\ createdAt = [r \in Reviews |-> 0]
    /\ published = {}
    /\ req = [s \in Slots |-> NoReview]
    /\ pass = [p \in Passes |-> AtRest]

Next ==
    \/ \E k \in Pairs : TakerCompletes(k)
    \/ \E s \in Slots, r \in Reviews : SubmitRead(s, r)
    \/ \E s \in Slots : SubmitWrite(s) \/ SubmitFail(s)
    \/ \E p \in Passes : PublishScan(p) \/ PublishJudge(p) \/ PublishWrite(p) \/ PublishFail(p)
    \/ DayPasses

Spec == Init /\ [][Next]_vars

\* Days go by, every request settles, and no call of a pass fails every time.
Fairness ==
    /\ WF_vars(DayPasses)
    /\ \A p \in Passes :
        WF_vars(PublishScan(p)) /\ SF_vars(PublishJudge(p)) /\ SF_vars(PublishWrite(p))

FairSpec == Spec /\ Fairness

-----------------------------------------------------------------------------
(* Properties *)

TypeOK ==
    /\ now \in Nat
    /\ completed \subseteq Pairs
    /\ written \subseteq Reviews
    /\ createdAt \in [Reviews -> Nat]
    /\ published \subseteq written
    /\ req \in [Slots -> Reviews \union {NoReview}]
    /\ pass \in [Passes -> Pass]

\* The double-blind window of a review: a day after both sides are in, or
\* seven days after its own.
WindowClosed(r) ==
    \/ Age(r) >= OneDays
    \/ Other(r) \in written /\ Age(r) >= BothDays /\ Age(Other(r)) >= BothDays

\* A review is public only after its window, however stale the scan that
\* published it and whatever was submitted since: nobody who writes within
\* the window has read the other's rating.
Sealed == \A r \in published : WindowClosed(r)

\* Two submissions of one side, racing past the same findFirst, leave one
\* review: what was written first is never replaced or dated again.
FirstReviewStands ==
    [][\A r \in written : r \in written' /\ createdAt'[r] = createdAt[r]]_vars

\* No review stays sealed: also one whose counterpart was published alone.
Unsealed == \A r \in Reviews : r \in written ~> r \in published

-----------------------------------------------------------------------------
(* The inductive invariant behind Sealed *)

\* A pass works on rows that exist, and what it has chosen to publish has
\* closed its window, although it chose from a scan that may be stale.
PassesAreSound ==
    \A p \in Passes :
        /\ pass[p].seen \subseteq written
        /\ pass[p].due \subseteq written
        /\ \A r \in pass[p].due : WindowClosed(r)

SealInv ==
    /\ TypeOK
    /\ PassesAreSound
    /\ Sealed

=============================================================================
