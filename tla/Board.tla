-------------------------------- MODULE Board --------------------------------
(***************************************************************************)
(* What readers see of a posting: its tags, which an edit replaces by a    *)
(* delete and a create (src/routes/tasks.js; src/routes/users.js does the  *)
(* same to a profile), and the task:updated events with its status and     *)
(* occupancy, which every handler that writes and every settle pass send   *)
(* to the posting's room (src/realtime/emit.js, gateway.js, settle.js).    *)
(*                                                                         *)
(* version[t] counts the writes to status and occupancy of a posting, so   *)
(* a version stands for what one event shows; what the writes may do is    *)
(* the subject of Postings.  As there a step ends at a database call; an   *)
(* emit is the read of the posting and, one step later, the event.  What a *)
(* client does is external: it subscribes, waits for the answer and loads  *)
(* the posting.  An event carries no version, so which one of two a client *)
(* shows last is left out: the newest that ever reached it is kept.        *)
(***************************************************************************)
EXTENDS Naturals, Sequences, FiniteSets, Functions

CONSTANTS
    Tasks,      \* the postings
    Users,      \* the profiles
    Tags,       \* the tags there are
    Asked,      \* the tagIds that requests send, any uuids in any order
    MaxWrites,  \* bound: writes to a posting
    Clients,    \* the sockets
    Slots       \* bound: requests and settle passes at the same time

ASSUME OwnersAreApart == Tasks \intersect Users = {}
ASSUME AskedAreSequences == \A ids \in Asked : ids \in Seq(Range(ids))
ASSUME MaxWritesIsNatural == MaxWrites \in Nat

VARIABLES
    version,    \* version[t]: the writes to t so far; 0: not created yet
    tags,       \* the TaskTag and UserTag rows
    req,        \* the requests and passes in flight
    client,     \* the posting a client looks at and the newest version it got
    wanted,     \* history: the tags of the last edit of an owner that had no company
    sure,       \* history: the owners nobody has edited since that edit
    lost        \* history: the postings whose last write was announced to nobody

posts == <<version, lost>>
labels == <<tags, wanted, sure>>
vars == <<posts, labels, req, client>>

Owners == Tasks \union Users
Idle == [at |-> "idle"]
Away == [on |-> {}, loaded |-> FALSE, best |-> 0]

At(s, step) == req[s].at = step
GoOn(s, r) == req' = [req EXCEPT ![s] = r]
Finish(s) == req' = [req EXCEPT ![s] = Idle]

\* Where a handler goes when it has written and fans out what it touched.
Emit(todo) == IF todo = {} THEN Idle ELSE [at |-> "emit", todo |-> todo]

Write(t) == version[t] < MaxWrites /\ version' = [version EXCEPT ![t] = @ + 1]

-----------------------------------------------------------------------------
(* Tags *)

Editing(s, o) == (At(s, "delete") \/ At(s, "insert")) /\ req[s].owner = o

\* What createMany, or the check of POST /tasks, takes: known, each named once.
Insertable(ids) == IsInjective(ids) /\ Range(ids) \subseteq Tags

Unsettle(o) == sure' = sure \ {o} /\ UNCHANGED wanted

\* POST /tasks: the row and its tags in one statement, then emitTaskCreated.
Create(s, t, ids) ==
    /\ req[s] = Idle /\ version[t] = 0
    /\ ids # <<>> /\ Insertable(ids)
    /\ Write(t)
    /\ tags' = [tags EXCEPT ![t] = Range(ids)]
    /\ wanted' = [wanted EXCEPT ![t] = Range(ids)] /\ sure' = sure \union {t}
    /\ GoOn(s, [at |-> "send", t |-> t, seen |-> 1, todo |-> {}])
    /\ UNCHANGED <<client, lost>>

\* PATCH /tasks/:id and PUT /me/tags with tagIds; a posting's are never empty.
EditTags(s, o, ids) ==
    /\ req[s] = Idle
    /\ o \in Tasks => version[o] > 0 /\ ids # <<>>
    /\ req' = [r \in Slots |->
                 IF r = s THEN [at |-> "delete", owner |-> o, ids |-> ids,
                                alone |-> ~\E q \in Slots : Editing(q, o)]
                 ELSE IF Editing(r, o) THEN [req[r] EXCEPT !.alone = FALSE]
                 ELSE req[r]]
    /\ UNCHANGED <<posts, labels, client>>

\* PATCH /tasks/:id without tagIds.
EditRest(s, t) ==
    /\ req[s] = Idle /\ version[t] > 0
    /\ GoOn(s, [at |-> "place", owner |-> t])
    /\ UNCHANGED <<posts, labels, client>>

\* Mutant: the new tags are added to the old ones.
KeepTags(s) ==
    /\ At(s, "delete")
    /\ GoOn(s, [req[s] EXCEPT !.at = "insert"])
    /\ Unsettle(req[s].owner)
    /\ UNCHANGED <<posts, tags, client>>

\* deleteMany.
DeleteTags(s) ==
    /\ At(s, "delete")
    /\ tags' = [tags EXCEPT ![req[s].owner] = {}]
    /\ GoOn(s, [req[s] EXCEPT !.at = "insert"])
    /\ Unsettle(req[s].owner)
    /\ UNCHANGED <<posts, client>>

Inserts(s) == Insertable(req[s].ids) /\ Range(req[s].ids) \intersect tags[req[s].owner] = {}

\* createMany, all or nothing; an empty list is not created at all.
InsertTags(s) ==
    /\ At(s, "insert") /\ Inserts(s)
    /\ LET o == req[s].owner  new == tags[o] \union Range(req[s].ids) IN
       /\ tags' = [tags EXCEPT ![o] = new]
       /\ IF req[s].alone
          THEN wanted' = [wanted EXCEPT ![o] = Range(req[s].ids)] /\ sure' = sure \union {o}
          ELSE Unsettle(o)
       /\ IF o \in Tasks THEN GoOn(s, [at |-> "place", owner |-> o]) ELSE Finish(s)
    /\ UNCHANGED <<posts, client>>

\* A tag that does not exist, is named twice or came back meanwhile.
InsertRefused(s) ==
    /\ At(s, "insert") /\ ~Inserts(s)
    /\ Finish(s)
    /\ UNCHANGED <<posts, labels, client>>

\* The rest of an edit: resolveLocation and the update.
EditWrite(s) ==
    /\ At(s, "place")
    /\ Write(req[s].owner)
    /\ GoOn(s, Emit({req[s].owner}))
    /\ UNCHANGED <<lost, labels, client>>

\* LOCATION_UNRESOLVED, when the tags have been replaced already.
EditRefused(s) ==
    /\ At(s, "place")
    /\ Finish(s)
    /\ UNCHANGED <<posts, labels, client>>

-----------------------------------------------------------------------------
(* Writes and their announcements *)

\* Apply, cancel and the steps of an assignment.
StepWrite(s, t) ==
    /\ req[s] = Idle /\ version[t] > 0
    /\ Write(t)
    /\ GoOn(s, Emit({t}))
    /\ UNCHANGED <<lost, labels, client>>

\* A check-in runs settle itself before it announces what it wrote.
CheckinWrite(s, t) ==
    /\ req[s] = Idle /\ version[t] > 0
    /\ Write(t)
    /\ GoOn(s, [at |-> "settle", todo |-> {t}])
    /\ UNCHANGED <<lost, labels, client>>

\* settleMiddleware, in front of every request.
SettleBegin(s) ==
    /\ req[s] = Idle
    /\ GoOn(s, [at |-> "settle", todo |-> {}])
    /\ UNCHANGED <<posts, labels, client>>

\* Mutant: a rule of settle forgets touched.add.
SettleUntouched(s, t) ==
    /\ At(s, "settle") /\ version[t] > 0
    /\ Write(t)
    /\ UNCHANGED <<req, lost, labels, client>>

\* One rule of settle changes a posting or an assignment of it.
SettleWrite(s, t) ==
    /\ At(s, "settle") /\ version[t] > 0
    /\ Write(t)
    /\ GoOn(s, [req[s] EXCEPT !.todo = @ \union {t}])
    /\ UNCHANGED <<lost, labels, client>>

SettleEnds(s) ==
    /\ At(s, "settle")
    /\ GoOn(s, Emit(req[s].todo))
    /\ UNCHANGED <<posts, labels, client>>

\* emitTaskUpdated: the findUnique.  The event will show this version.
EmitRead(s) ==
    /\ At(s, "emit")
    /\ \E t \in req[s].todo :
        GoOn(s, [at |-> "send", t |-> t, seen |-> version[t], todo |-> req[s].todo \ {t}])
    /\ UNCHANGED <<posts, labels, client>>

Newer(m, n) == IF m > n THEN m ELSE n

\* The event to everyone in the room, then the next posting.
EmitSend(s) ==
    /\ At(s, "send")
    /\ LET t == req[s].t IN
       /\ client' = [c \in Clients |-> IF t \in client[c].on
                                       THEN [client[c] EXCEPT !.best = Newer(@, req[s].seen)]
                                       ELSE client[c]]
       /\ lost' = IF req[s].seen = version[t] THEN lost \ {t} ELSE lost
    /\ GoOn(s, Emit(req[s].todo))
    /\ UNCHANGED <<version, labels>>

\* What a request would still announce.
Announces(s) ==
    IF At(s, "settle") \/ At(s, "emit") THEN req[s].todo
    ELSE IF At(s, "send") THEN req[s].todo \union {req[s].t}
    ELSE {}

\* emitTaskUpdated swallows the failure of its read: one event is missing.
EmitFail(s) ==
    /\ At(s, "emit")
    /\ \E t \in req[s].todo :
        /\ lost' = lost \union {t}
        /\ GoOn(s, Emit(req[s].todo \ {t}))
    /\ UNCHANGED <<version, labels, client>>

\* A call before the emits fails, and what has been touched is forgotten.
ReqFail(s) ==
    /\ \E step \in {"delete", "insert", "place", "settle"} : At(s, step)
    /\ lost' = lost \union Announces(s)
    /\ Finish(s)
    /\ UNCHANGED <<version, labels, client>>

-----------------------------------------------------------------------------
(* Clients *)

\* Mutant: the room is joined without a look at the posting.
SubscribeUnseen(c, t) ==
    /\ client[c].on = {}
    /\ client' = [client EXCEPT ![c] = [Away EXCEPT !.on = {t}]]
    /\ UNCHANGED <<posts, labels, req>>

\* subscribe: roomFor finds the posting, the socket joins.
Subscribe(c, t) ==
    /\ client[c].on = {} /\ version[t] > 0
    /\ client' = [client EXCEPT ![c] = [Away EXCEPT !.on = {t}]]
    /\ UNCHANGED <<posts, labels, req>>

\* GET /tasks/:id.
Load(c, t) ==
    /\ t \in client[c].on /\ ~client[c].loaded
    /\ client' = [client EXCEPT ![c].loaded = TRUE, ![c].best = Newer(@, version[t])]
    /\ UNCHANGED <<posts, labels, req>>

\* unsubscribe or a lost connection.
Leave(c) ==
    /\ client[c].on # {}
    /\ client' = [client EXCEPT ![c] = Away]
    /\ UNCHANGED <<posts, labels, req>>

-----------------------------------------------------------------------------
Init ==
    /\ version = [t \in Tasks |-> 0]
    /\ tags = [o \in Owners |-> {}]
    /\ req = [s \in Slots |-> Idle]
    /\ client = [c \in Clients |-> Away]
    /\ wanted = [o \in Owners |-> {}]
    /\ sure = Owners
    /\ lost = {}

Next ==
    \/ \E s \in Slots, ids \in Asked :
        \/ \E t \in Tasks : Create(s, t, ids)
        \/ \E o \in Owners : EditTags(s, o, ids)
    \/ \E s \in Slots, t \in Tasks :
        EditRest(s, t) \/ StepWrite(s, t) \/ CheckinWrite(s, t) \/ SettleWrite(s, t)
    \/ \E s \in Slots :
        \/ DeleteTags(s) \/ InsertTags(s) \/ InsertRefused(s) \/ EditWrite(s) \/ EditRefused(s)
        \/ SettleBegin(s) \/ SettleEnds(s) \/ EmitRead(s) \/ EmitSend(s)
        \/ EmitFail(s) \/ ReqFail(s)
    \/ \E c \in Clients : Leave(c) \/ \E t \in Tasks : Subscribe(c, t) \/ Load(c, t)

Spec == Init /\ [][Next]_vars

-----------------------------------------------------------------------------
(* Properties *)

\* Only postings that exist are looked at, tagged or announced, and no event
\* shows a version that has not been written.
TypeOK ==
    /\ version \in [Tasks -> 0..MaxWrites]
    /\ tags \in [Owners -> SUBSET Tags] /\ wanted \in [Owners -> SUBSET Tags]
    /\ sure \subseteq Owners /\ lost \subseteq Tasks
    /\ \A c \in Clients :
        /\ client[c].on \subseteq {t \in Tasks : version[t] > 0} /\ client[c].loaded \in BOOLEAN
        /\ \A t \in client[c].on : client[c].best \in 0..version[t]
    /\ \A s \in Slots :
        /\ req[s].at \in {"idle", "delete", "insert", "place", "settle", "emit", "send"}
        /\ Announces(s) \subseteq {t \in Tasks : version[t] > 0}
        /\ At(s, "send") => req[s].seen \in 1..version[req[s].t]

\* A client that joined the room of a posting before it loaded it has its
\* newest status and occupancy, unless a request or pass is still to announce
\* it or has failed before it could: no handler and no rule of settle writes
\* without an announcement that is read after the write (settle.js:20-22,
\* assignments.js:25-33, tasks.js:506-510).
NewestIsAnnounced ==
    \A c \in Clients, t \in Tasks : t \in client[c].on /\ client[c].loaded =>
        \/ client[c].best = version[t]
        \/ t \in lost
        \/ \E s \in Slots : t \in Announces(s)

\* Once an edit that no other edit of the same owner overlapped has stored its
\* tags, they are exactly the ones it named, whatever overlapping or refused
\* edits had left before (tasks.js:297-300, users.js:108-113).
EditStands == \A o \in sure : tags[o] = wanted[o]

=============================================================================
