----------------------------- MODULE Attachments -----------------------------
(***************************************************************************)
(* Attachments: the rows of src/routes/files.js and the objects of the     *)
(* store behind src/lib/filestore.js.  The API never sees a file: it       *)
(* records a row, hands out links that work for URL_TTL_SECONDS, and on a  *)
(* removal deletes the row first and the object after it, as best it can.  *)
(*                                                                         *)
(* A key is made for one attachment (storageKeyFor) and stands for its row *)
(* too.  As in Postings a step ends at an awaited call; no request lasts   *)
(* as long as a Tick of the clock, so it sees one at most.  The store and  *)
(* the clients that use a link are external.  The parent of an attachment, *)
(* a posting or a message, is never removed, so who may attach, open or    *)
(* remove a file is fixed and left to the choice of the actor.             *)
(***************************************************************************)
EXTENDS Naturals

CONSTANTS
    Keys,       \* bound: the storage keys that are ever made
    Handlers,   \* bound: requests in flight at the same time
    Ttl         \* URL_TTL_SECONDS, in ticks

ASSUME TtlIsPositive == Ttl \in Nat \ {0}

VARIABLES
    row,        \* the Attachment row of a key
    stored,     \* the keys with an object in the bucket
    putLeft,    \* how long a client's upload link for a key still works
    getLeft,    \* how long the newest download link for a key still works
    req,        \* the requests in flight
    erasing,    \* the keys whose deleteObject is on its way to the store
    configured, \* isStorageConfigured, for the life of the process
    gone,       \* history: ticks since the row of a key was removed
    lost,       \* history: the keys whose deleteObject failed or was never sent
    late        \* history: the keys uploaded when nothing would erase them again

links == <<putLeft, getLeft>>
rows == <<row, gone>>
vars == <<rows, stored, links, req, erasing, configured, lost, late>>

Idle == [at |-> "idle"]

\* old: the clock has ticked since the request began.
Request == [at : {"create", "answer", "url", "row", "erase"}, key : Keys, old : BOOLEAN]

Begin(h, step, k) ==
    /\ req[h] = Idle
    /\ req' = [req EXCEPT ![h] = [at |-> step, key |-> k, old |-> FALSE]]

At(h, step) == req[h].at = step

GoOn(h, step) == req' = [req EXCEPT ![h] = [@ EXCEPT !.at = step]]

Finish(h) == req' = [req EXCEPT ![h] = Idle]

\* Mutant: the row is kept and only marked as removed.
FoundMarked(k) == row[k] # "none"

\* findUnique of the attachment.
Found(k) == row[k] = "recorded"

-----------------------------------------------------------------------------
(* POST /files/presign *)

\* A new key and, if the store is configured, its upload link; create is next.
Presign(h, k) ==
    /\ configured
    /\ row[k] = "none" /\ \A g \in Handlers : req[g] # Idle => req[g].key # k
    /\ Begin(h, "create", k)
    /\ UNCHANGED <<rows, stored, links, erasing, configured, lost, late>>

\* Mutant: the link is answered without waiting for the row.
CreateUnawaited(h) ==
    /\ At(h, "create")
    /\ GoOn(h, "answer")
    /\ UNCHANGED <<rows, stored, links, erasing, configured, lost, late>>

PresignCreate(h) ==
    /\ At(h, "create")
    /\ row' = [row EXCEPT ![req[h].key] = "recorded"]
    /\ GoOn(h, "answer")
    /\ UNCHANGED <<gone, stored, links, erasing, configured, lost, late>>

\* 201 with the link that was signed before the row was written.
PresignAnswer(h) ==
    /\ At(h, "answer")
    /\ putLeft' = [putLeft EXCEPT ![req[h].key] = IF req[h].old THEN Ttl - 1 ELSE Ttl]
    /\ Finish(h)
    /\ UNCHANGED <<rows, stored, getLeft, erasing, configured, lost, late>>

-----------------------------------------------------------------------------
(* GET /files/:id/url *)

UrlRead(h, k) ==
    /\ Found(k)
    /\ Begin(h, "url", k)
    /\ UNCHANGED <<rows, stored, links, erasing, configured, lost, late>>

\* presignGet signs what was read; 503 where the store is not configured.
UrlSign(h) ==
    /\ At(h, "url")
    /\ getLeft' = IF configured THEN [getLeft EXCEPT ![req[h].key] = Ttl] ELSE getLeft
    /\ Finish(h)
    /\ UNCHANGED <<rows, stored, putLeft, erasing, configured, lost, late>>

-----------------------------------------------------------------------------
(* DELETE /files/:id *)

RemoveRead(h, k) ==
    /\ Found(k)
    /\ Begin(h, "row", k)
    /\ UNCHANGED <<rows, stored, links, erasing, configured, lost, late>>

\* The row goes; a second removal of it finds nothing (P2025) and ends.
RemoveRow(h) ==
    /\ At(h, "row")
    /\ IF Found(req[h].key)
       THEN /\ row' = [row EXCEPT ![req[h].key] = "removed"]
            /\ GoOn(h, "erase")
       ELSE /\ Finish(h)
            /\ UNCHANGED row
    /\ UNCHANGED <<gone, stored, links, erasing, configured, lost, late>>

\* Mutant: 204, and the object stays.
RowIsEnough(h) ==
    /\ At(h, "erase")
    /\ Finish(h)
    /\ UNCHANGED <<rows, stored, links, erasing, configured, lost, late>>

\* deleteObject is sent and 204 answered; a rejection is swallowed.
SendErase(h) ==
    /\ At(h, "erase")
    /\ IF configured
       THEN erasing' = erasing \union {req[h].key} /\ UNCHANGED lost
       ELSE lost' = lost \union {req[h].key} /\ UNCHANGED erasing
    /\ Finish(h)
    /\ UNCHANGED <<rows, stored, links, configured, late>>

-----------------------------------------------------------------------------
(* The store, the clients with a link, failures and the clock *)

Erase(k) ==
    /\ k \in erasing
    /\ stored' = stored \ {k}
    /\ erasing' = erasing \ {k}
    /\ UNCHANGED <<rows, links, req, configured, lost, late>>

EraseFail(k) ==
    /\ k \in erasing
    /\ erasing' = erasing \ {k}
    /\ lost' = lost \union {k}
    /\ UNCHANGED <<rows, stored, links, req, configured, late>>

\* A removal has deleted the row and not yet sent deleteObject.
Erasable(k) == \E h \in Handlers : At(h, "erase") /\ req[h].key = k

\* A PUT with a link that still works; the store knows nothing of rows.
Upload(k) ==
    /\ putLeft[k] > 0
    /\ stored' = stored \union {k}
    /\ late' = IF row[k] = "removed" /\ k \notin erasing /\ ~Erasable(k)
               THEN late \union {k} ELSE late
    /\ UNCHANGED <<rows, links, req, erasing, configured, lost>>

\* A call fails, or its answer is lost, and the handler ends there.
ReqFail(h) ==
    /\ req[h] # Idle
    /\ lost' = IF At(h, "erase") THEN lost \union {req[h].key} ELSE lost
    /\ Finish(h)
    /\ UNCHANGED <<rows, stored, links, erasing, configured, late>>

\* The process dies and another starts, perhaps with other settings; some of
\* the deletions on their way still arrive.
Restart ==
    /\ \E arrived \in SUBSET erasing :
        /\ stored' = stored \ arrived
        /\ lost' = lost \union (erasing \ arrived) \union {k \in Keys : Erasable(k)}
    /\ erasing' = {}
    /\ req' = [h \in Handlers |-> Idle]
    /\ configured' \in BOOLEAN
    /\ UNCHANGED <<rows, links, late>>

Less(left) == [k \in Keys |-> IF left[k] > 0 THEN left[k] - 1 ELSE 0]

Tick ==
    /\ \A h \in Handlers : req[h] # Idle => ~req[h].old
    /\ req' = [h \in Handlers |-> IF req[h] = Idle THEN Idle ELSE [req[h] EXCEPT !.old = TRUE]]
    /\ putLeft' = Less(putLeft)
    /\ getLeft' = Less(getLeft)
    /\ gone' = [k \in Keys |-> IF row[k] = "removed" /\ gone[k] <= Ttl
                               THEN gone[k] + 1 ELSE gone[k]]
    /\ UNCHANGED <<row, stored, erasing, configured, lost, late>>

-----------------------------------------------------------------------------
Init ==
    /\ row = [k \in Keys |-> "none"]
    /\ stored = {}
    /\ putLeft = [k \in Keys |-> 0]
    /\ getLeft = [k \in Keys |-> 0]
    /\ req = [h \in Handlers |-> Idle]
    /\ erasing = {}
    /\ configured \in BOOLEAN
    /\ gone = [k \in Keys |-> 0]
    /\ lost = {}
    /\ late = {}

Handle(h) ==
    PresignCreate(h) \/ PresignAnswer(h) \/ UrlSign(h) \/ RemoveRow(h) \/ SendErase(h)

Next ==
    \/ \E h \in Handlers, k \in Keys : Presign(h, k) \/ UrlRead(h, k) \/ RemoveRead(h, k)
    \/ \E h \in Handlers : Handle(h) \/ ReqFail(h)
    \/ \E k \in Keys : Erase(k) \/ EraseFail(k) \/ Upload(k)
    \/ Restart
    \/ Tick

Spec == Init /\ [][Next]_vars

\* A request that has begun goes on; the store answers in the end.
FairSpec ==
    /\ Spec
    /\ \A h \in Handlers : WF_vars(Handle(h))
    /\ \A k \in Keys : WF_vars(Erase(k) \/ EraseFail(k))

-----------------------------------------------------------------------------
(* Properties *)

\* An object or a link exists only for an attachment that has been recorded,
\* and only the object of a removed one is being erased.
TypeOK ==
    /\ row \in [Keys -> {"none", "recorded", "removed"}]
    /\ stored \subseteq {k \in Keys : row[k] # "none"}
    /\ putLeft \in [Keys -> 0..Ttl] /\ getLeft \in [Keys -> 0..Ttl]
    /\ \A k \in Keys : row[k] = "none" => putLeft[k] = 0 /\ getLeft[k] = 0
    /\ req \in [Handlers -> {Idle} \union Request]
    /\ erasing \subseteq {k \in Keys : row[k] = "removed"}
    /\ configured \in BOOLEAN
    /\ gone \in [Keys -> 0..Ttl + 1]
    /\ lost \subseteq {k \in Keys : row[k] = "removed"}
    /\ late \subseteq {k \in Keys : row[k] = "removed"}

\* "A signature that ... expires fast" (files.js:13): once the row is gone for
\* longer than URL_TTL_SECONDS neither link of it works, not even one that was
\* signed from a row read before the removal.
LinksExpire ==
    \A k \in Keys : row[k] = "removed" /\ gone[k] > Ttl => putLeft[k] = 0 /\ getLeft[k] = 0

\* An object that no row names is about to be erased, or its deleteObject did
\* not get through, or it was uploaded after it had been erased: nothing else
\* leaves one behind (files.js:105-106, 161-163).
OrphansAreExplained ==
    \A k \in stored : \/ Found(k)
                      \/ k \in erasing \/ Erasable(k)
                      \/ k \in lost \/ k \in late

\* The object of a removed attachment is erased in the end, or its deleteObject
\* was lost, or a link that outlived the row has brought it back (files.js:162).
RemovedIsErased ==
    \A k \in Keys : row[k] = "removed" ~> (k \notin stored \/ k \in lost \/ k \in late)

=============================================================================
