# A formal model of the AU Bounty backend

TLA+ modules, TLC runs and TLAPS proofs about the backend in this repository: an Express
process on Node, one PostgreSQL database behind Prisma, Socket.IO rooms and an e-mail
outbox. Paths below are relative to the backend (`src/routes/tasks.js` and so on; in
`PROJECT.json` they carry the checkout's prefix `src/`).

## 1. Inventory

| Component | State it keeps | Operations | Interacts with |
|---|---|---|---|
| Postings and assignments (`routes/tasks.js`, `routes/assignments.js`, `lib/occupancy.js`) | `Task.status`, `acceptanceMode`, `maxTakers`, `deadline`; one `TaskAssignment` per posting and helper | create, edit, cancel, apply, check-in, accept, reject, complete, confirm, withdraw | settle moves the same rows; completion queues mail; every change is fanned out; an edit replaces the tags before its last write |
| Settle engine (`services/settle.js`) | none of its own | auto-confirm after 7 days, lock full or expired postings, complete finished ones, publish due reviews | runs as middleware in front of every request, so passes overlap with each other and with handlers |
| Reviews (`routes/reviews.js`) | `Review` rows, `published`, `createdAt` | submit; published by settle | assignments (COMPLETED only) |
| Notification mail (`lib/mailer.js`, `services/mailScheduler.js`) | `EmailOutbox` rows, `sentAt`; the scheduler's loop | inline send, retry, confirmation warnings, event reminders | the transport, the clock, restarts |
| Threads (`routes/messages.js`) | `Message` rows, `readAt` | post, page, mark read, inbox | emits to the thread room |
| Realtime (`realtime/*.js`) | room membership per socket | subscribe, unsubscribe, `message:new`, `message:read`, `task:updated` | every writer of a posting and every settle pass announce it; a posting is read after an await before it is emitted |
| Sessions and sign-on (`routes/auth.js`, `auth/*.js`, `middleware/auth.js`) | `User.msadOid`, `universityId`; the signed token in the browser | Microsoft callback, admin password sign-in, logout | role and memberships are frozen in the token for its hour |
| Profiles and tags (`routes/users.js`, `routes/tags.js`) | `universityId`, `bio`, `UserTag` rows | `PUT /me`, `PUT /me/tags`, lists | the unique index on `universityId` |
| Administration (`routes/admin.js`) | `User.role`, `OrgMembership`, organizations, tags | change role, add and remove members, moderation | outstanding tokens |
| Check-in code and throttle (`lib/totp.js`, `routes/tasks.js:399-429`) | misses per event and user, in memory | verify, count a miss, clear the slate | check-in |
| Admin sign-in throttle (`auth/loginThrottle.js`) | failures per address and per account, in memory | look, record, clear, sweep | password sign-in, which verifies with scrypt in between |
| Attachments (`routes/files.js`, `lib/filestore.js`) | `Attachment` rows, stored objects, signed links | presign, download link, remove | external object store, which nobody waits for |
| Start-up (`index.js`, `docker-entrypoint.sh`, `prisma/seedAdmins.js`) | none | boot, seed administrators, graceful stop | everything in memory is lost |
| Formatting and outside services (`lib/serialize.js`, `ics.js`, `maps.js`, `translate.js`, `weather.js`) | a weather cache | pure, or a call with a fallback | none that matters to the rules below |

What is hard here. The process is single threaded but gives way at every `await`, so
between any two database calls of a handler other handlers, other settle passes and the
mail scheduler run. Only two code paths lock (`SELECT ... FOR UPDATE` on the Task row:
AUTO apply and accept); everything else reads, checks and later writes by id. Any call
may fail and leave a handler half done; a pass that fails abandons its later rules. The
process may stop at any call. Mail is sent to a transport whose answer may never arrive.

What makes each part correct:

* postings: no more seats granted than offered; every write of a row is one the rules of
  seats allow on the row *as it is when it is written*; a completed posting really is
  finished; nobody's reported work is held hostage; a finished posting is closed;
* reviews: sealed for the double-blind window, never replaced, published in the end;
* mail: what is due is queued, what is queued is delivered, and copies are only the
  price of lost answers;
* threads: no holes between the history and the live events; a receipt reaches every
  message marked read;
* board: a reader in a posting's room always has, or is about to get, its newest state;
  an edit that nobody interferes with leaves exactly its tags;
* accounts: rights in a session are never older than its hour and the sign-in that read
  them; a student id once set and seen stays; a sign-in never fails because of somebody
  else's id;
* attachments: links die with their lifetime, also those signed before the row was
  removed; an object without a row has an explanation and, but for lost calls, is
  erased;
* throttles: overlapping attempts get through in a known burst at most, a refusal ends
  with its window, wrong codes stay within their budget, and a code lives for one step
  at least and two at most.

`PROJECT.json` lists each hazard at its line.

## 2. Modules

| Module | Models | Kind |
|---|---|---|
| `SeatBook` | what postings promise about seats however requests overlap, no requests, locks or failures | abstract specification |
| `Postings` | postings, assignments and the first three settle rules | component; refines `SeatBook` |
| `Reviews` | submission and `publishDueReviews` | component |
| `MailBook` | what the outbox promises about a mail, no senders, scans or retries | abstract specification |
| `Outbox` | `mailer.js` and `mailScheduler.js` | component; refines `MailBook` |
| `Threads` | one thread, its room and two clients | component |
| `Board` | tags, `task:updated` and the clients that read a posting | component |
| `Accounts` | sign-in, tokens, set-once ids, roles, memberships, boot | component |
| `Attachments` | attachment rows, links, objects and their erasure | component |
| `Throttles` | failed sign-ins, wrong check-in codes, the age of a code | component |
| `MC*` | small instances for TLC | instances |
| `PostingsProofs`, `ReviewsProofs`, `OutboxProofs`, `AccountsProofs`, `ThreadsProofs`, `BoardProofs`, `AttachmentsProofs`, `ThrottlesProofs` | theorems about the module of that name | proofs |

### How state and actions correspond to the code

*Granularity.* A step is what runs between two awaited calls, together with the second
of them. A handler is a `...Read` action (load, all guards, early returns) and a
`...Write` action (what it writes, unconditionally where the code writes by id), with
the request's locals in `req[s]`. A `findMany` with a nested select counts as one call.
A transaction with `FOR UPDATE` is the lock with the count (`CountSpots`) and the commit
(`ApplyWrite`, `AcceptWrite`); `Locked` says whom it delays. `ReqFail` ends a request at
any call. A settle pass is its scans and writes in the order of the code, with the
scanned ids in `pass[p]`; it belongs to no particular request, since any request starts
one.

*Postings.* `asg[t][u]` is the assignment's status, `NONE` where there is no row; `aged`
holds the assignments whose `completionRequestedAt` is seven days old; `expired` the
postings whose deadline is past. `peakCap`, `cancelled` and `left` are history. An edit
is its last write: an edit that does not name `maxTakers` or `acceptanceMode` is given
their creation defaults, because `createBody.partial()` keeps zod's defaults
(`tasks.js:66`; `admin.js:22-24` explains the same trap and avoids it). `IN_PROGRESS` is
in the model because the schema and the guards name it; no route writes it.

*Seats.* Handlers write a row by its id, whatever it has become since they read it, and
the server keeps no two requests on one row apart. `SeatBook` is what remains true then.
A seat is *granted* by a claim alone, which needs fewer granted seats than the limit;
any other late write may take a seat (`Unseat`) or give a helper back the seat that a
late answer took (`Hold`), but seats nobody who was never granted one; no row goes away.
The history variable `left` holds the helpers who lost a seat and have claimed none
since, and `Granted(t)` those who sit on `t` and are not in it. `Postings` implements
the book, and `GrantedSeats` holds, for requests that overlap in every way.

What does not hold then is `SeatCap`, that no more helpers *sit* than seats were
offered: a helper's own `complete` and `withdraw`, overlapping, leave a row in
`PENDING_CONFIRMATION` whose seat was given away meanwhile, so the posting has one
helper too many. Nor does a withdrawal always stand: accept reads the status before its
transaction and not again under the lock, and seats a helper who withdrew in between, on
a seat that is free.

*Discipline.* The constant says how far clients serialize the requests about one
assignment: `"none"` (what the server enforces by itself), `"side"` (the helper's own
are serialized but for a double click on Apply, the organizer's are, the two overlap),
`"row"` (one at a time). `SeatCap` is proved under `"row"`, and under `"side"` where
postings are not edited. An edit of the mode breaks it under `"side"`: a helper
withdraws an application while the poster rejects it, the posting turns AUTO, the helper
applies again and is seated, the old rejection overwrites that row, somebody else gets
the seat, and a `complete` that read the first seat takes it back.

*Reviews.* The clock counts days. The pass loads the rows (`PublishScan`), then reads
the clock and chooses (`PublishJudge`), then writes (`PublishWrite`); a submission
re-reads nothing, the unique index decides.

*Outbox.* A mail is its trigger `(kind, refId)`. Senders are request handlers and the
one scheduler loop. `young` is `RETRY_MIN_AGE_MS`; the model assumes that a delivery, at
most `RESEND_TIMEOUT_MS` of ten seconds and one UPDATE, ends within that minute.
`LoseAnswer` is a transport that accepted without the answer arriving; `Crash` is the
process dying at any call. Delivery is *at least once*: `sentAt` is written after the
send. `prisma/schema.prisma:253-256`, `lib/mailer.js:12-13` and `README.md:27` say never
twice or exactly once; what the code gives is `CopiesAreLostAnswers`. `MailBook` says
the same as a specification of its own: a mail stands `absent`, `queued`, `known` or
`sent`, it is handed over only while `queued`, and only a lost answer, a failed UPDATE
or a crash makes a `known` one `queued` again. `Standing` reads that off the rows and
off the senders that are about to record.

*Threads.* A message is its place in the order of `createdAt` and `id`, which it gets
when the INSERT is made; it is visible when the INSERT commits, so two messages may
become visible out of order. `Subscribe`, `LoadNewest`, `LoadOlder` and `Leave` are a
client that uses the routes the way they are meant. `late` is history: the messages that
came in between the two statements of a read, which the UPDATE marks although the
receipt does not name them.

*Board.* `version[t]` counts the writes to the status and occupancy of a posting and
stands for what an event shows. `EditWrite`, `StepWrite`, `CheckinWrite` and
`SettleWrite` are the writes of any handler and of settle; what they may write is the
subject of `Postings`. An edit is its delete (`DeleteTags`), its create (`InsertTags`,
all or nothing, refused for a tag that does not exist or is there already) and, for a
posting, the update. An emit reads the posting in one step and sends in the next. A
client keeps the newest version it ever got, since an event carries none; `wanted`,
`sure` and `lost` are history.

*Accounts.* A person is a directory identity with one address and one browser. `row[p]`
says whether the row exists and is linked by `msadOid`. `SignIn` to `Issue` are the
calls of the callback: by `msadOid`, create, create again without the id, by address,
claim, memberships (`ReadMemberships`), and the signing of what was read with the time
it is by then (`Issue`). A unique violation may name either index when both are
violated; that it names the field in `meta.target`, as the code expects, is assumed.
`PUT /me` and an administrator's change of a role or a membership are a look and a
write. `Tick` divides the hour of the token in `Ttl` parts and moves under the requests
in flight: a sign-in that straddles it signs rights read before with a fresh `iat`.
`waited` counts the ticks since a sign-in has read its role, and `Lag` bounds them; the
code has no such bound of its own, so a session's rights are as old as the hour and the
sign-in behind it. `Boot` is a restart with `seedAdmins`; tokens survive it.
`Settled(p)` says that every request in flight that has read `p`'s id has read what it
is now.

*Attachments.* A key stands for its row, its object and its two links. `Presign`,
`PresignCreate` and `PresignAnswer` sign, insert and answer; the link lives from the
signing. A removal deletes the row and sends `deleteObject`, which `Erase` and
`EraseFail` are the store's answers to. The store and the clients that use a link are
external; `Restart` loses what was on its way and may change the configuration.

*Throttles.* The clock counts units of the windows. `SignIn` looks at both keys and
forgets an entry whose window is over; the answer comes in a later unit, as scrypt takes
its time, and `SignInFails` sweeps and counts, `SignInSucceeds` clears. `recent` is
history, which the code does not keep: `recent[k][a]` are the failures of `k` in the
last `a` units. `Live` drops the stamps that have left the window, which are the first
ones since stamps are appended in the order of time. A check-in reads the event and then
judges the code by its age; `Verify` accepts a code shown in this step or the one
before.

## 3. Runs

All bounds are the CONSTANTS commented `bound:` in the modules.

| Run | Question | Instance | Size |
|---|---|---|---|
| `seats` | Is a seat ever granted twice, and is every write from an old read a move `SeatBook` allows, when any two requests overlap? | 2 helpers, 1 posting, 1 seat, edits, 2 requests, 1 pass, `"none"` | 1.2 M states |
| `settled` | Does settle complete only finished postings, and are seats safe, with the inductive invariant behind them, when helper and organizer overlap? | 3 helpers, an event with a deadline, caps 1 and 2, 2 requests, 2 passes, `"side"` | 1.5 M |
| `live` | Is reported work confirmed and a finished posting closed? | 2 helpers, caps 1 and 2, 1 request, 1 pass, failures | 24 k |
| `reopened` | refuted: a cancelled event accepts nothing (`tasks.js:464-465`) | 1 helper, 1 event | found at once |
| `sealed` | Is any review public in its window, replaced, or sealed for ever? | 1 pair, 2 submissions, 2 passes, windows of 1 and 3 days, 6 days | 85 k |
| `mail` | Is due mail queued, queued mail delivered, are copies only lost answers, and is every step one `MailBook` allows? | an inline notice, a warning that is always refused, 2 handlers, 2 mishaps, a batch of 2 | 9.6 k |
| `history` | Is there a hole between pages and live events, or a message marked read that no receipt reaches? | 3 messages, pages of 1, 2 requests, 2 chats | 2.0 M |
| `edits` | Does any write stay unannounced, or an edit leave other tags than its own? | 1 posting, 1 profile, 2 tags and an unknown one, 3 writes, 1 client, 2 requests or passes | 917 k |
| `files` | Does a link outlive its time, or an object its row without a reason? | 1 key, 3 requests, links of 2 ticks | 12 k |
| `misses` | How many wrong passwords and codes get through, and for how long is one refused? | 2 accounts tried from one address, 2 attempts at once, a window of 2, 2 failures; 1 attendee, 2 check-ins, 1 miss, steps of 2 | 975 k |
| `rights` | Does a session outlive a change of rights, or an id its first value, when sign-ins, edits and the clock overlap? | an administrator with an imported row, a student, 2 ids, 2 requests, an hour and a `Lag` of 1 tick | 1.8 M |
| `signin` | refuted: somebody else's id costs nobody the sign-in (`auth.js:151-152`) | the same | found at once |

Why the bounds are enough. A seat granted twice needs two claims that overlap between
the count and the commit, by two helpers on one seat; a write over a row that has moved
needs two requests on that row, or one and a settle pass, and what a third request does
in between may as well be done by one that begins and ends there: two requests. Raising
a capacity during a claim is covered by the proof; the run edits mode and capacity to
the default. `settled` has both capacities and three helpers. A stale scan needs one
write between a pass's read and its write, two passes the second stale writer. Postings
share no row, so one is checked; pairs of reviews likewise. The window of a review
depends on two dates and two lengths; days 1 and 3 tell both rules apart, and
submissions up to day 3 leave time to publish. The clock stops on the last day. A hole
in a thread needs an older message that commits late next to a newer one, and a page
border: three messages and pages of one. A mail is retried beside a handler that
delivers it and behind one that is always refused: two rows, with as many lost answers
as the bound on mishaps. Reminders differ from warnings only in their query and have no
instance there. Rights need one change between the reads and the signing of a sign-in, a
tick in there and one that reaches the expiry: two requests, an hour and a `Lag` of one
tick. The bound of `RightsExpire` is tight there: one tick less and TLC finds it
violated. An hour of two ticks, where a token is young and old before it expires, has
8.4 million states and was checked once with the same result. `Unused` and `Joiners`
leave out the role TEACHER, which differs from STUDENT in no guard, and the
administrator's memberships. Two ids let one replace the other, by one request or by two
that overlap. An unannounced write needs a write between another one's read and its
event: two requests and three writes. Tags need a list that is taken, one that repeats a
tag and one that names an unknown tag, of two owners that do not share rows. A file
needs a removal between two signings and a lifetime that a link can be in the middle of:
three requests and two ticks; keys share nothing. A burst needs attempts that overlap
and an entry that ends while they do: two attempts and a window of two; two accounts
from one address let one key be refused and the other not. A code has an age of 0 to 2
steps in either half of a step.

Deadlock is checked in every run. Symmetry is used in runs without temporal properties
of the liveness kind; the poster is not a member of a symmetric set.

Every property of a passing run has a mutant: an operator beside the code's own that
makes one plausible slip (`SpotLeftOffByOne`, `NeverLocked`, `RetryableAnyAge`, ...),
under which TLC finds that property violated.

### Fairness

Safety runs assume none. For the liveness properties:

* a request that has begun goes on to its next call (weak), as Node resumes every
  settled promise;
* settle runs before *every* request, so requests that keep arriving start pass after
  pass; a call of a pass may fail any number of times but not for ever whenever it is
  reached (strong, because a failure starts the pass over);
* days pass; a minute passes; the scheduler's timer fires again after each round
  (`mailScheduler.js:146-159`);
* a request about a file goes on (weak), and the store answers or fails each
  `deleteObject` (weak); neither is assumed to succeed, as `RemovedIsErased` allows the
  loss;
* an insert of the scheduler and the transport's acceptance of a mail it *can* deliver
  do not fail for ever (strong). Mails in `Poison` are refused each time.

`QueuedIsDelivered` holds with fewer undeliverable mails than `RETRY_BATCH`: the oldest
unsent rows are taken first (`mailer.js:69-74`), so a full batch of them starves the
rest.

## 4. Proofs

For every value of the constants, under the assumptions named in the modules:

| Theorem | States |
|---|---|
| `PostingsProofs!Typing` | `TypeOK` |
| `PostingsProofs!SeatInvariance`, `SeatsNeverOverbooked` | `SeatInv`, `SeatCap` when `Discipline = "row"`, or `"side"` and postings are not edited |
| `PostingsProofs!GrantInvariance`, `SeatsGrantedWithinLimit` | `GrantInv`, `GrantedSeats`, for every `Discipline` |
| `PostingsProofs!PostingsImplementSeatBook` | `ImplementsSeatBook`, for every `Discipline` |
| `PostingsProofs!CompletedPostingsAreDone` | `CompletedMeansDone` when `Discipline` is `"row"` or `"side"` and postings are not edited |
| `ReviewsProofs!Typing`, `SealInvariance`, `ReviewsStaySealed`, `ReviewsAreNeverReplaced` | `TypeOK`, `SealInv`, `Sealed`, `FirstReviewStands` |
| `OutboxProofs!Typing`, `MailInvariance`, `NoCopyWithoutALostAnswer`, `SentMailWasAccepted` | `TypeOK`, `MailInv`, `CopiesAreLostAnswers`, `SentMeansAccepted` |
| `OutboxProofs!OutboxImplementsMailBook` | `ImplementsMailBook` |
| `ThreadsProofs!Typing`, `NoHoles`, `ReceiptsReachWhatWasRead` | `TypeOK`, `NothingMissed`, `ReceiptsCoverReads` |
| `BoardProofs!Typing`, `NothingGoesUnannounced`, `LoneEditsStand` | `TypeOK`, `NewestIsAnnounced`, `EditStands` |
| `AccountsProofs!Typing`, `RightsInvariance`, `SessionRightsExpire` | `TypeOK`, `RightsInv`, `RightsExpire`, for every `Ttl` and `Lag` |
| `AccountsProofs!IdsStay` | `SetOnce` |
| `AttachmentsProofs!Typing`, `LinksDie`, `NoUnexplainedOrphan` | `TypeOK`, `LinksExpire`, `OrphansAreExplained` |
| `ThrottlesProofs!Typing`, `BurstsAreBounded`, `RefusalsEnd` | `TypeOK`, `BurstBound`, `ShutOutEnds` |
| `ThrottlesProofs!MissesStayInBudget`, `CodesLiveOneStepOrTwo` | `CheckinBudget`, `CodeLifetime` |

The inductive invariants. `GrantInv`, `SeatInv`, `SealInv`, `MailInv` and `RightsInv`
are invariants of runs too:

* `GrantInv`. It knows nothing of what the rows have become since they were read, only
  what no overlap can undo: a helper who was granted a seat sits or is in `left`
  (`Had`), which no write forgets, so `SeatsEarned` holds of whoever reports, checks in
  or is confirmed; rows remain (`RowsRemain`); and a claim that has counted finds fewer
  granted seats than its capacity at its commit (`ClaimsHaveGrants`), since the count
  sees at least the granted ones, the lock admits one such claim (`OneClaimAtATime`) and
  no other write grants a seat. The lemma `RowWritten` says this of a write, and the
  refinement reads its moves off it.
* `SeatInv`. `SeatCap` alone is not inductive: a claim commits on a count made earlier.
  `ClaimsHaveRoom` says that the count still holds at the commit. It survives because at
  most one claim on a posting is past its count (`OneClaimAtATime`, the lock) and
  because no other write turns a row that holds no spot into one that does
  (`ReadsStillValid`: the row a handler is about to overwrite still is what its guards
  accepted, which needs `RowExclusive`). Where the two sides overlap (`"side"`) a row
  may have moved: `Overtaken` lists what it can have become, and the lemma `Meetings`
  shows that whatever one request writes under another is on the other's list. A claim
  is on nobody's: it never meets an answer to an application, because a posting that
  seats at once has none (`ModesStand`, which an edit of the mode would break, and
  `OnlyPosted` for the posting's creation). `CapsRead` relates the capacity a claim has
  read to the largest ever offered. The lemmas about `Taken` count a finite set when one
  row changes.
* `DoneInv` adds to it that capacities stay (`CapsFixed`) and that what a pass has
  scanned as finished still is (`ScansStand`): every write that could undo it takes a
  seat, for which there is none left, or starts from a row that is not finished.
* `SealInv`. A published review was chosen from a scan; what was chosen had a closed
  window then, and closed windows stay closed (`WindowStaysClosed`) because rows are
  never dated again.
* `MailInv`. `Accounted` counts acceptances: each is recorded, being recorded or lost.
  It needs that a row has one deliverer at a time (`OneDelivery`), which rests on
  handlers holding only young rows and retries taking only old, free ones. The
  refinement rests on it too: a row at the transport is unsent and nobody knows of an
  earlier copy (`WithTransport`), so an acceptance is a move from `queued`; a crash
  forgets all that was `known` in one move.
* `HistoryInv` (`Threads`). Only chats that stay in the room load pages (`LoadedIsIn`).
  A message that becomes visible later is still to be emitted to it, and the page below
  the cursor is exactly the newest ones older than it (`PageIsTheNewest`). `ReceiptInv`
  says that whatever a read will mark beyond the message its receipt names has come in
  since its `findFirst`.
* `BoardInv` (`NewestIsCarried`). A version the client lacks is not just announced by
  somebody: an event that is already on its way with an older one does not count, since
  each write is followed by a read of its own. `EditInv` says that an edit without
  company has none and has emptied what it fills.
* `RightsInv`. A token that differs from its row is younger than the row's last change
  by at most `Lag` (`TokensTrackRows`). For the step that signs, `ReadRightsAreRecent`:
  rights on their way into a token that differ from the row were changed since that
  sign-in read its role, which is `waited` ticks ago.
* `IdInv`. An id belongs to a row that exists, and so does a request that reads one;
  hence a creation never meets a set id, and a settled one is written with itself only.
* `LinkInv` (`Attachments`). A link runs out with the time since the removal, and a
  request that will still hand one out began at most one tick ago. `OrphanInv` follows
  an object from its row over the deletion on its way to the store.
* `DoorInv` (`Throttles`). A key is refused for no longer than its entry is old, and
  counting never makes an entry younger.
* `TallyInv` and `BurstInv` (`Throttles`). An entry with its attempts still under way
  (`Pending`) has room for them all (`RoomLeft`), since none passes the door once the
  entry is full; that bounds the counts in `TypeOK`. `Spans` ties the failures of the
  last `a` units to the entries: the failures of a window belong to two entries at most,
  those the present one counts and those of the one before without its first. Both are
  needed: the count alone forgets what the entry before it let through.
* `BudgetInv`. The stamps on a slate are in the order of their age, so what is counted
  is all that is left of it, and a miss is stamped only where that is below the budget.
* `CodeInv` rests on a lemma about whole steps in a division.

Only model-checked: liveness under fairness (`NoHostage`, `Concludes`, `Unsealed`,
`QueuedIsDelivered`, `DueIsQueued`, `RemovedIsErased`) and everything about ENABLED,
which are out of the provers' reach. Every invariant and every action property of the
passing runs is a theorem. The modules have no recursive operators.

## 5. What the runs refute

Each finding quotes the line it contradicts in `PROJECT.json`.

1. `reopened`: `lockFullOrExpiredTasks` writes LOCKED by id over a posting that was
   cancelled after its scan, and the event takes check-ins again.
2. `signin`: only the creating branch of `upsertMicrosoftUser` gives up a taken id; from
   the second sign-in on the update meets the unique index.

More things the code does are in the models, and the properties are stated around them.
A cancel that read the posting before a pass completed it writes CANCELLED over
COMPLETED, which `tasks.js:331` means to refuse; accept seats a helper who withdrew
after it had read the row, and a late `complete` seats one helper too many (see
*Seats*); a session outlives the hour by as long as its sign-in took to sign; of two
settings of a student id that both read it empty, or one and a sign-in that fills it,
the later replaces the earlier, against `users.js:64-65` (`SetOnce` without `Settled`);
two edits of one posting's tags mix theirs, and one that fails or is refused after its
delete leaves other tags than before (`EditStands` speaks of neither); a lone review is
published after seven days and the other side may still answer it, having read it; and a
message that arrives inside a read is marked read without a receipt (`late`).

## 6. Not modelled, and the plan

Not modelled, and why:

* formatting (`serialize.js`, `ics.js`): pure functions of loaded rows;
* location, translation and weather: calls of outside services with a fallback. The
  weather cache holds an answer for its time and nothing else reads it;
* `emergency:new` and the nudge to a personal room, which say only that something is
  new, and the inbox, which only reads;
* the handshake of the sockets, `entra.js`, the nonce and the return path (they keep no
  state beyond one redirect), and the dev-only picker;
* organizations and the tag catalogue, data of no rule above; wiring, secrets, seeds;
* which of two `task:updated` events a client shows last: an older occupancy may be
  emitted after a newer one, and no document says what the client does with it.

What is left, in this order:

1. A module that composes `Postings` and `Outbox`: the reminder of an attendee who
   withdraws between the scan and the send.
