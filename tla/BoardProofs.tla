----------------------------- MODULE BoardProofs -----------------------------
(***************************************************************************)
(* No write to a posting goes unannounced and no edit is undone by another *)
(* that it did not meet, for any number of postings, profiles, tags,       *)
(* clients and requests.                                                   *)
(***************************************************************************)
EXTENDS Board, TLAPS

Request ==
    {Idle} \union [at : {"delete", "insert"}, owner : Owners, ids : Asked, alone : BOOLEAN]
           \union [at : {"place"}, owner : Tasks]
           \union [at : {"settle", "emit"}, todo : SUBSET Tasks]
           \union [at : {"send"}, t : Tasks, seen : 0..MaxWrites, todo : SUBSET Tasks]

Socket == [on : SUBSET Tasks, loaded : BOOLEAN, best : 0..MaxWrites]

\* Requests are about postings that exist, and events show what was written.
RequestsFollowPosts ==
    \A s \in Slots :
        /\ Announces(s) \subseteq {t \in Tasks : version[t] > 0}
        /\ At(s, "send") => req[s].seen \in 1..version[req[s].t]
        /\ At(s, "place") => version[req[s].owner] > 0
        /\ \A t \in Tasks : Editing(s, t) => version[t] > 0

\* A client looks at one posting at a time and at nothing that is yet to come.
ClientsFollowPosts ==
    \A c \in Clients :
        /\ \A t \in client[c].on : version[t] > 0 /\ client[c].best <= version[t]
        /\ \A t, u \in client[c].on : t = u

FlowInv ==
    /\ version \in [Tasks -> 0..MaxWrites]
    /\ tags \in [Owners -> SUBSET Tags] /\ wanted \in [Owners -> SUBSET Tags]
    /\ sure \subseteq Owners /\ lost \subseteq Tasks
    /\ req \in [Slots -> Request]
    /\ client \in [Clients -> Socket]
    /\ RequestsFollowPosts
    /\ ClientsFollowPosts

\* What a request carries on to an announcement that shows the newest version.
Carries(s, t) ==
    \/ (At(s, "settle") \/ At(s, "emit") \/ At(s, "send")) /\ t \in req[s].todo
    \/ At(s, "send") /\ req[s].t = t /\ req[s].seen = version[t]

\* A posting's newest version is with its readers, carried to them, or lost.
NewestIsCarried ==
    \A c \in Clients, t \in Tasks : t \in client[c].on /\ client[c].loaded =>
        \/ client[c].best = version[t]
        \/ t \in lost
        \/ \E s \in Slots : Carries(s, t)

BoardInv == FlowInv /\ NewestIsCarried

\* An edit without company has none, and what it fills is empty.
LoneEdits ==
    \A s \in Slots, o \in Owners : Editing(s, o) /\ req[s].alone =>
        /\ \A q \in Slots : Editing(q, o) => q = s
        /\ At(s, "insert") => tags[o] = {}

EditInv == FlowInv /\ LoneEdits /\ EditStands

-----------------------------------------------------------------------------
(* Requests and clients *)

\* What a request holds at each of its steps.
LEMMA RequestFields ==
    ASSUME req \in [Slots -> Request], NEW s \in Slots
    PROVE  /\ req[s] \in Request
           /\ req[s].at \in {"idle", "delete", "insert", "place", "settle", "emit", "send"}
           /\ At(s, "idle") <=> req[s] = Idle
           /\ At(s, "delete") \/ At(s, "insert") =>
                req[s].owner \in Owners /\ req[s].ids \in Asked /\ req[s].alone \in BOOLEAN
           /\ At(s, "place") => req[s].owner \in Tasks
           /\ At(s, "settle") \/ At(s, "emit") \/ At(s, "send") => req[s].todo \in SUBSET Tasks
           /\ At(s, "send") => req[s].t \in Tasks /\ req[s].seen \in 0..MaxWrites
BY DEF Request, Idle, At

\* Emit turns what is left to announce into a request that announces it.
LEMMA EmitFields ==
    ASSUME NEW todo \in SUBSET Tasks
    PROVE  /\ Emit(todo) \in Request
           /\ todo = {} => Emit(todo) = Idle
           /\ todo # {} => Emit(todo).at = "emit" /\ Emit(todo).todo = todo
           /\ Emit(todo).at \in {"idle", "emit"}
BY DEF Emit, Request, Idle

\* A request that changes its state announces and edits what that state says.
LEMMA GoesOn ==
    ASSUME req \in [Slots -> Request], NEW s \in Slots, NEW r \in Request, GoOn(s, r)
    PROVE  /\ req' \in [Slots -> Request] /\ req'[s] = r
           /\ \A q \in Slots \ {s} : req'[q] = req[q]
BY DEF GoOn

LEMMA Finished ==
    ASSUME req \in [Slots -> Request], NEW s \in Slots, Finish(s)
    PROVE  /\ req' \in [Slots -> Request] /\ req'[s] = Idle
           /\ \A q \in Slots \ {s} : req'[q] = req[q]
BY DEF Finish, Request

\* A write makes one posting one version newer.
LEMMA Writes ==
    ASSUME version \in [Tasks -> 0..MaxWrites], NEW t \in Tasks, Write(t)
    PROVE  /\ version' \in [Tasks -> 0..MaxWrites]
           /\ version'[t] = version[t] + 1 /\ version[t] \in Nat
           /\ \A u \in Tasks : /\ u # t => version'[u] = version[u]
                               /\ version[u] \in Nat /\ version'[u] \in Nat
                               /\ version'[u] >= version[u]
BY MaxWritesIsNatural DEF Write

\* Requests other than s still follow the postings when versions only grow.
LEMMA OthersFollow ==
    ASSUME FlowInv, NEW s \in Slots, req' \in [Slots -> Request],
           \A q \in Slots \ {s} : req'[q] = req[q],
           version' \in [Tasks -> 0..MaxWrites],
           \A u \in Tasks : version'[u] >= version[u],
           Announces(s)' \subseteq {t \in Tasks : version'[t] > 0},
           At(s, "send")' => req'[s].seen \in 1..version'[req'[s].t],
           At(s, "place")' => version'[req'[s].owner] > 0,
           \A t \in Tasks : Editing(s, t)' => version'[t] > 0
    PROVE  RequestsFollowPosts'
<1>1. \A u \in Tasks : version[u] \in Nat /\ version'[u] \in Nat
  BY MaxWritesIsNatural DEF FlowInv
<1> SUFFICES ASSUME NEW q \in Slots
             PROVE  /\ Announces(q)' \subseteq {t \in Tasks : version'[t] > 0}
                    /\ At(q, "send")' => req'[q].seen \in 1..version'[req'[q].t]
                    /\ At(q, "place")' => version'[req'[q].owner] > 0
                    /\ \A t \in Tasks : Editing(q, t)' => version'[t] > 0
  BY DEF RequestsFollowPosts
<1>2. CASE q = s
  BY <1>2
<1>3. CASE q # s
  <2>1. req'[q] = req[q]
    BY <1>3
  <2>2. Announces(q)' = Announces(q)
    BY <2>1 DEF Announces, At
  <2>3. Announces(q) \subseteq {t \in Tasks : version[t] > 0}
    BY DEF FlowInv, RequestsFollowPosts
  <2>4. Announces(q)' \subseteq {t \in Tasks : version'[t] > 0}
    BY <2>2, <2>3, <1>1
  <2>5. ASSUME At(q, "send")' PROVE req'[q].seen \in 1..version'[req'[q].t]
    <3>1. At(q, "send") /\ req[q].t \in Tasks
      BY <2>1, <2>5, RequestFields DEF At, FlowInv
    <3>2. req[q].seen \in 1..version[req[q].t]
      BY <3>1 DEF FlowInv, RequestsFollowPosts
    <3> QED
      BY <3>1, <3>2, <2>1, <1>1
  <2>6. ASSUME At(q, "place")' PROVE version'[req'[q].owner] > 0
    <3>1. At(q, "place") /\ req[q].owner \in Tasks
      BY <2>1, <2>6, RequestFields DEF At, FlowInv
    <3>2. version[req[q].owner] > 0
      BY <3>1 DEF FlowInv, RequestsFollowPosts
    <3> QED
      BY <3>1, <3>2, <2>1, <1>1
  <2>7. ASSUME NEW t \in Tasks, Editing(q, t)' PROVE version'[t] > 0
    <3>1. Editing(q, t)
      BY <2>1, <2>7 DEF Editing, At
    <3>2. version[t] > 0
      BY <3>1 DEF FlowInv, RequestsFollowPosts
    <3> QED
      BY <3>2, <1>1
  <2> QED
    BY <2>4, <2>5, <2>6, <2>7
<1> QED
  BY <1>2, <1>3

\* So do clients that stay where they are.
LEMMA ClientsFollow ==
    ASSUME FlowInv, client' = client, version' \in [Tasks -> 0..MaxWrites],
           \A u \in Tasks : version'[u] >= version[u]
    PROVE  ClientsFollowPosts'
<1>1. \A u \in Tasks : version[u] \in Nat /\ version'[u] \in Nat
  BY MaxWritesIsNatural DEF FlowInv
<1>2. \A c \in Clients : client[c].on \subseteq Tasks /\ client[c].best \in Nat
  BY MaxWritesIsNatural DEF FlowInv, Socket
<1>3. ASSUME NEW c \in Clients, NEW t \in client[c].on
      PROVE  version'[t] > 0 /\ client[c].best <= version'[t]
  <2>1. t \in Tasks /\ version[t] > 0 /\ client[c].best <= version[t]
    BY <1>2 DEF FlowInv, ClientsFollowPosts
  <2> QED
    BY <2>1, <1>1, <1>2
<1> QED
  BY <1>3 DEF FlowInv, ClientsFollowPosts

\* A request that goes on with r, which r's own fields show to be in order.
LEMMA RequestStep ==
    ASSUME FlowInv, NEW s \in Slots, NEW r \in Request, GoOn(s, r),
           version' \in [Tasks -> 0..MaxWrites],
           \A u \in Tasks : version'[u] >= version[u],
           r.at \in {"settle", "emit", "send"} => \A t \in r.todo : version'[t] > 0,
           r.at = "send" => r.seen \in 1..version'[r.t],
           r.at = "place" => version'[r.owner] > 0,
           r.at \in {"delete", "insert"} => (r.owner \in Tasks => version'[r.owner] > 0)
    PROVE  req' \in [Slots -> Request] /\ RequestsFollowPosts'
<1>1. /\ req' \in [Slots -> Request] /\ req'[s] = r
      /\ \A q \in Slots \ {s} : req'[q] = req[q]
  BY GoesOn DEF FlowInv
<1>2. r.at \in {"settle", "emit", "send"} => r.todo \in SUBSET Tasks
  BY DEF Request, Idle
<1>3. r.at = "send" => r.t \in Tasks /\ version'[r.t] \in Nat
  BY MaxWritesIsNatural DEF Request, Idle
<1>4. Announces(s)' \subseteq {t \in Tasks : version'[t] > 0}
  BY <1>1, <1>2, <1>3 DEF Announces, At
<1>5. /\ At(s, "send")' => req'[s].seen \in 1..version'[req'[s].t]
      /\ At(s, "place")' => version'[req'[s].owner] > 0
      /\ \A t \in Tasks : Editing(s, t)' => version'[t] > 0
  BY <1>1 DEF At, Editing
<1> QED
  BY <1>1, <1>4, <1>5, OthersFollow

LEMMA FlowInit ==
    ASSUME Init
    PROVE  FlowInv
<1>1. Idle \in Request /\ Away \in Socket /\ MaxWrites \in Nat
  BY MaxWritesIsNatural DEF Request, Away, Socket
<1>2. \A s \in Slots : /\ Announces(s) = {} /\ ~At(s, "send") /\ ~At(s, "place")
                       /\ \A t \in Tasks : ~Editing(s, t)
  BY DEF Init, Announces, At, Editing, Idle
<1>3. RequestsFollowPosts /\ ClientsFollowPosts
  BY <1>2 DEF Init, RequestsFollowPosts, ClientsFollowPosts, Away
<1> QED
  BY <1>1, <1>3 DEF Init, FlowInv

LEMMA FlowStep ==
    ASSUME FlowInv, [Next]_vars
    PROVE  FlowInv'
<1>v. /\ version \in [Tasks -> 0..MaxWrites] /\ MaxWrites \in Nat
      /\ \A u \in Tasks : version[u] \in Nat /\ version[u] >= version[u]
  BY MaxWritesIsNatural DEF FlowInv
<1>r. req \in [Slots -> Request]
  BY DEF FlowInv
<1>i. Idle \in Request /\ Idle.at = "idle"
  BY DEF Request, Idle
<1>1. ASSUME NEW s \in Slots, NEW ids \in Asked, NEW t \in Tasks, Create(s, t, ids) PROVE FlowInv'
  <2> DEFINE r == [at |-> "send", t |-> t, seen |-> 1, todo |-> {}]
  <2>1. Write(t) /\ version[t] = 0
    BY <1>1 DEF Create
  <2>2. version' \in [Tasks -> 0..MaxWrites] /\ version'[t] = 1 /\ \A u \in Tasks : version'[u] >= version[u]
    BY <2>1, <1>v, Writes
  <2>3. r \in Request
    BY <2>2, <1>v DEF Request
  <2>4. GoOn(s, r)
    BY <1>1 DEF Create
  <2>5. req' \in [Slots -> Request] /\ RequestsFollowPosts'
    BY <2>2, <2>3, <2>4, RequestStep
  <2>6. ClientsFollowPosts'
    BY <1>1, <2>2, ClientsFollow DEF Create
  <2>7. Range(ids) \subseteq Tags /\ t \in Owners
    BY <1>1 DEF Create, Insertable, Owners
  <2> QED
    BY <1>1, <2>2, <2>5, <2>6, <2>7 DEF FlowInv, Create
<1>2. ASSUME NEW s \in Slots, NEW ids \in Asked, NEW o \in Owners, EditTags(s, o, ids) PROVE FlowInv'
  <2>1. \A q \in Slots : Editing(q, o) => req[q] \in
           [at : {"delete", "insert"}, owner : Owners, ids : Asked, alone : BOOLEAN]
    BY <1>r DEF Editing, At, Request, Idle
  <2>2. req' \in [Slots -> Request]
    BY <1>2, <1>r, <2>1 DEF EditTags, Request
  <2>3. /\ req'[s].at = "delete" /\ req'[s].owner = o
        /\ \A q \in Slots \ {s} :
             /\ req'[q].at = req[q].at
             /\ At(q, "delete") \/ At(q, "insert") => req'[q].owner = req[q].owner
             /\ ~(At(q, "delete") \/ At(q, "insert")) => req'[q] = req[q]
    BY <1>2, <2>1 DEF EditTags, Editing, At
  <2>4. RequestsFollowPosts'
    <3> SUFFICES ASSUME NEW q \in Slots
                 PROVE  /\ Announces(q)' \subseteq {t \in Tasks : version[t] > 0}
                        /\ At(q, "send")' => req'[q].seen \in 1..version[req'[q].t]
                        /\ At(q, "place")' => version[req'[q].owner] > 0
                        /\ \A t \in Tasks : Editing(q, t)' => version[t] > 0
      BY <1>2 DEF RequestsFollowPosts, EditTags, posts
    <3>1. CASE q = s
      <4>1. /\ Announces(s)' = {} /\ ~At(s, "send")' /\ ~At(s, "place")'
            /\ \A t \in Tasks : Editing(s, t)' => t = o
        BY <2>3 DEF Announces, At, Editing
      <4>2. o \in Tasks => version[o] > 0
        BY <1>2 DEF EditTags
      <4> QED
        BY <3>1, <4>1, <4>2
    <3>2. CASE q # s /\ (At(q, "delete") \/ At(q, "insert"))
      <4>1. /\ Announces(q)' = {} /\ ~At(q, "send")' /\ ~At(q, "place")'
            /\ \A t \in Tasks : Editing(q, t)' => Editing(q, t)
        BY <2>3, <3>2 DEF Announces, At, Editing
      <4> QED
        BY <4>1 DEF FlowInv, RequestsFollowPosts
    <3>3. CASE q # s /\ ~(At(q, "delete") \/ At(q, "insert"))
      <4>1. req'[q] = req[q]
        BY <2>3, <3>3
      <4> QED
        BY <4>1 DEF FlowInv, RequestsFollowPosts, Announces, At, Editing
    <3> QED
      BY <3>1, <3>2, <3>3
  <2> QED
    BY <1>2, <2>2, <2>4 DEF EditTags, FlowInv, posts, labels, ClientsFollowPosts
<1>s. ASSUME NEW s \in Slots, NEW r \in Request, GoOn(s, r), version' = version, client' = client,
             r.at \in {"settle", "emit", "send"} => \A t \in r.todo : version[t] > 0,
             r.at = "send" => r.seen \in 1..version[r.t],
             r.at = "place" => version[r.owner] > 0,
             r.at \in {"delete", "insert"} => (r.owner \in Tasks => version[r.owner] > 0),
             tags' \in [Owners -> SUBSET Tags], wanted' \in [Owners -> SUBSET Tags],
             sure' \subseteq Owners, lost' \subseteq Tasks
      PROVE  FlowInv'
  <2>1. req' \in [Slots -> Request] /\ RequestsFollowPosts'
    BY <1>s, <1>v, RequestStep
  <2>2. ClientsFollowPosts'
    BY <1>s DEF ClientsFollowPosts, FlowInv
  <2> QED
    BY <1>s, <2>1, <2>2 DEF FlowInv
<1>w. ASSUME NEW s \in Slots, NEW t \in Tasks, NEW r \in Request, GoOn(s, r), Write(t), client' = client,
             r.at \in {"settle", "emit"},
             \A u \in r.todo : u = t \/ version[u] > 0,
             UNCHANGED <<lost, labels>>
      PROVE  FlowInv'
  <2>1. /\ version' \in [Tasks -> 0..MaxWrites] /\ version'[t] > 0
        /\ \A u \in Tasks : version'[u] >= version[u] /\ version'[u] \in Nat
    BY <1>w, <1>v, Writes
  <2>2. r.todo \in SUBSET Tasks
    BY <1>w DEF Request, Idle
  <2>3. \A u \in r.todo : version'[u] > 0
    BY <1>w, <1>v, <2>1, <2>2
  <2>4. req' \in [Slots -> Request] /\ RequestsFollowPosts'
    BY <1>w, <2>1, <2>3, RequestStep
  <2>5. ClientsFollowPosts'
    BY <1>w, <2>1, ClientsFollow
  <2> QED
    BY <1>w, <2>1, <2>4, <2>5 DEF FlowInv, labels
<1>l. /\ tags \in [Owners -> SUBSET Tags] /\ wanted \in [Owners -> SUBSET Tags]
      /\ sure \subseteq Owners /\ lost \subseteq Tasks
  BY DEF FlowInv
<1>3. ASSUME NEW s \in Slots, NEW t \in Tasks, EditRest(s, t) PROVE FlowInv'
  <2> DEFINE r == [at |-> "place", owner |-> t]
  <2>1. r \in Request /\ GoOn(s, r) /\ version[t] > 0
    BY <1>3 DEF EditRest, Request
  <2> QED
    BY <1>3, <1>l, <2>1, <1>s DEF EditRest, posts, labels
<1>4. ASSUME NEW s \in Slots, DeleteTags(s) PROVE FlowInv'
  <2> DEFINE r == [req[s] EXCEPT !.at = "insert"]
  <2>1. req[s] \in [at : {"delete", "insert"}, owner : Owners, ids : Asked, alone : BOOLEAN]
    BY <1>4, <1>r DEF DeleteTags, At, Request, Idle
  <2>2. r \in Request /\ r.at = "insert" /\ r.owner = req[s].owner
    BY <2>1 DEF Request
  <2>3. req[s].owner \in Tasks => version[req[s].owner] > 0
    BY <1>4 DEF DeleteTags, FlowInv, RequestsFollowPosts, Editing
  <2>4. /\ GoOn(s, r) /\ version' = version /\ client' = client /\ lost' = lost /\ wanted' = wanted
        /\ sure' \subseteq sure /\ tags' = [tags EXCEPT ![req[s].owner] = {}]
    BY <1>4 DEF DeleteTags, Unsettle, posts
  <2> HIDE DEF r
  <2>5. tags' \in [Owners -> SUBSET Tags]
    BY <2>4, <1>l
  <2> QED
    BY <1>l, <2>2, <2>3, <2>4, <2>5, <1>s
<1>5. ASSUME NEW s \in Slots, InsertTags(s) PROVE FlowInv'
  <2> DEFINE o == req[s].owner
             new == tags[o] \union Range(req[s].ids)
             r == IF o \in Tasks THEN [at |-> "place", owner |-> o] ELSE Idle
  <2>1. o \in Owners
    BY <1>5, <1>r, RequestFields DEF InsertTags
  <2>2. new \in SUBSET Tags /\ Range(req[s].ids) \in SUBSET Tags
    BY <1>5, <2>1, <1>l DEF InsertTags, Inserts, Insertable
  <2>3. r \in Request /\ r.at \in {"place", "idle"} /\ (r.at = "place" => r.owner = o /\ o \in Tasks)
    BY <1>i DEF Request
  <2>4. o \in Tasks => version[o] > 0
    BY <1>5 DEF InsertTags, FlowInv, RequestsFollowPosts, Editing
  <2>5. /\ GoOn(s, r) /\ version' = version /\ client' = client /\ lost' = lost
        /\ tags' = [tags EXCEPT ![o] = new]
        /\ wanted' = wanted \/ wanted' = [wanted EXCEPT ![o] = Range(req[s].ids)]
        /\ sure' \subseteq sure \union {o}
    BY <1>5 DEF InsertTags, Unsettle, posts, GoOn, Finish
  <2> HIDE DEF r, new, o
  <2>6. tags' \in [Owners -> SUBSET Tags] /\ wanted' \in [Owners -> SUBSET Tags] /\ sure' \subseteq Owners
    BY <2>1, <2>2, <2>5, <1>l
  <2> QED
    BY <1>l, <2>3, <2>4, <2>5, <2>6, <1>s
<1>6. ASSUME NEW s \in Slots, InsertRefused(s) \/ EditRefused(s) PROVE FlowInv'
  <2>1. GoOn(s, Idle) /\ version' = version /\ client' = client
    BY <1>6 DEF InsertRefused, EditRefused, GoOn, Finish, posts
  <2>2. UNCHANGED <<tags, wanted, sure, lost>>
    BY <1>6 DEF InsertRefused, EditRefused, posts, labels
  <2> QED
    BY <1>l, <1>i, <2>1, <2>2, <1>s
<1>7. ASSUME NEW s \in Slots, EditWrite(s) PROVE FlowInv'
  <2> DEFINE t == req[s].owner
  <2>1. t \in Tasks
    BY <1>7, <1>r, RequestFields DEF EditWrite
  <2>2. Emit({t}) \in Request /\ Emit({t}).at = "emit" /\ Emit({t}).todo = {t}
    BY <2>1, EmitFields
  <2>3. GoOn(s, Emit({t})) /\ Write(t) /\ client' = client /\ UNCHANGED <<lost, labels>>
    BY <1>7 DEF EditWrite
  <2> HIDE DEF t
  <2> QED
    BY <2>1, <2>2, <2>3, <1>w
<1>8. ASSUME NEW s \in Slots, NEW t \in Tasks, StepWrite(s, t) PROVE FlowInv'
  <2>2. Emit({t}) \in Request /\ Emit({t}).at = "emit" /\ Emit({t}).todo = {t}
    BY EmitFields
  <2> QED
    BY <1>8, <2>2, <1>w DEF StepWrite
<1>9. ASSUME NEW s \in Slots, NEW t \in Tasks, CheckinWrite(s, t) PROVE FlowInv'
  <2> DEFINE r == [at |-> "settle", todo |-> {t}]
  <2>1. r \in Request
    BY DEF Request
  <2> QED
    BY <1>9, <2>1, <1>w DEF CheckinWrite
<1>10. ASSUME NEW s \in Slots, NEW t \in Tasks, SettleWrite(s, t) PROVE FlowInv'
  <2> DEFINE r == [req[s] EXCEPT !.todo = @ \union {t}]
  <2>1. req[s] \in [at : {"settle", "emit"}, todo : SUBSET Tasks] /\ req[s].at = "settle"
    BY <1>10, <1>r DEF SettleWrite, At, Request, Idle
  <2>2. r \in Request /\ r.at = "settle" /\ r.todo = req[s].todo \union {t}
    BY <2>1 DEF Request
  <2>3. \A u \in req[s].todo : version[u] > 0
    BY <1>10 DEF SettleWrite, FlowInv, RequestsFollowPosts, Announces
  <2>4. GoOn(s, r) /\ Write(t) /\ client' = client /\ UNCHANGED <<lost, labels>>
    BY <1>10 DEF SettleWrite
  <2> HIDE DEF r
  <2> QED
    BY <2>2, <2>3, <2>4, <1>w
<1>11. ASSUME NEW s \in Slots, SettleBegin(s) PROVE FlowInv'
  <2> DEFINE r == [at |-> "settle", todo |-> {}]
  <2>1. r \in Request /\ GoOn(s, r) /\ version' = version /\ client' = client
    BY <1>11 DEF Request, SettleBegin, posts
  <2>2. UNCHANGED <<tags, wanted, sure, lost>>
    BY <1>11 DEF SettleBegin, posts, labels
  <2> QED
    BY <1>l, <2>1, <2>2, <1>s
<1>12. ASSUME NEW s \in Slots, SettleEnds(s) PROVE FlowInv'
  <2>1. req[s].todo \in SUBSET Tasks /\ \A u \in req[s].todo : version[u] > 0
    BY <1>12, <1>r, RequestFields DEF SettleEnds, FlowInv, RequestsFollowPosts, Announces
  <2>2. /\ Emit(req[s].todo) \in Request /\ Emit(req[s].todo).at \in {"idle", "emit"}
        /\ Emit(req[s].todo).at = "emit" => Emit(req[s].todo).todo = req[s].todo
    BY <2>1, EmitFields, <1>i
  <2>3. GoOn(s, Emit(req[s].todo)) /\ version' = version /\ client' = client
    BY <1>12 DEF SettleEnds, posts
  <2>4. UNCHANGED <<tags, wanted, sure, lost>>
    BY <1>12 DEF SettleEnds, posts, labels
  <2> QED
    BY <1>l, <2>1, <2>2, <2>3, <2>4, <1>s
<1>13. ASSUME NEW s \in Slots, EmitRead(s) PROVE FlowInv'
  <2>1. req[s].todo \in SUBSET Tasks /\ \A u \in req[s].todo : version[u] > 0
    BY <1>13, <1>r, RequestFields DEF EmitRead, FlowInv, RequestsFollowPosts, Announces
  <2>2. PICK t \in req[s].todo :
          GoOn(s, [at |-> "send", t |-> t, seen |-> version[t], todo |-> req[s].todo \ {t}])
    BY <1>13 DEF EmitRead
  <2> DEFINE r == [at |-> "send", t |-> t, seen |-> version[t], todo |-> req[s].todo \ {t}]
  <2>3. version[t] \in 0..MaxWrites /\ version[t] \in 1..version[t] /\ t \in Tasks
    BY <2>1, <1>v
  <2>4. r \in Request
    BY <2>1, <2>3 DEF Request
  <2>5. version' = version /\ client' = client /\ UNCHANGED <<tags, wanted, sure, lost>>
    BY <1>13 DEF EmitRead, posts, labels
  <2> QED
    BY <1>l, <2>1, <2>2, <2>3, <2>4, <2>5, <1>s
<1>14. ASSUME NEW s \in Slots, EmitSend(s) PROVE FlowInv'
  <2>1. /\ req[s].todo \in SUBSET Tasks /\ \A u \in req[s].todo : version[u] > 0
        /\ req[s].t \in Tasks /\ req[s].seen \in 1..version[req[s].t] /\ req[s].seen \in 0..MaxWrites
    BY <1>14, <1>r, RequestFields DEF EmitSend, FlowInv, RequestsFollowPosts, Announces, At
  <2>2. /\ Emit(req[s].todo) \in Request /\ Emit(req[s].todo).at \in {"idle", "emit"}
        /\ Emit(req[s].todo).at = "emit" => Emit(req[s].todo).todo = req[s].todo
    BY <2>1, EmitFields, <1>i
  <2>3. GoOn(s, Emit(req[s].todo)) /\ version' = version /\ UNCHANGED labels /\ lost' \subseteq lost
    BY <1>14 DEF EmitSend
  <2>4. req' \in [Slots -> Request] /\ RequestsFollowPosts'
    BY <2>1, <2>2, <2>3, <1>v, RequestStep
  <2>5. client' = [c \in Clients |-> IF req[s].t \in client[c].on
                                     THEN [client[c] EXCEPT !.best = Newer(@, req[s].seen)]
                                     ELSE client[c]]
    BY <1>14 DEF EmitSend
  <2>6. client' \in [Clients -> Socket]
    BY <2>1, <2>5, <1>v DEF FlowInv, Socket, Newer
  <2>7. ClientsFollowPosts'
    <3> SUFFICES ASSUME NEW c \in Clients
                 PROVE  /\ \A t \in client'[c].on : version[t] > 0 /\ client'[c].best <= version[t]
                        /\ \A t, u \in client'[c].on : t = u
      BY <2>3 DEF ClientsFollowPosts
    <3>1. /\ \A t \in client[c].on : version[t] > 0 /\ client[c].best <= version[t]
          /\ \A t, u \in client[c].on : t = u
          /\ client[c] \in Socket
      BY DEF FlowInv, ClientsFollowPosts
    <3>2. CASE req[s].t \in client[c].on
      <4>1. client'[c].on = client[c].on /\ client'[c].best = Newer(client[c].best, req[s].seen)
        BY <3>1, <3>2, <2>5 DEF Socket
      <4>2. req[s].seen <= version[req[s].t]
        BY <2>1, <1>v
      <4> QED
        BY <3>1, <3>2, <4>1, <4>2 DEF Newer
    <3>3. CASE req[s].t \notin client[c].on
      BY <3>1, <3>3, <2>5
    <3> QED
      BY <3>2, <3>3
  <2> QED
    BY <1>l, <2>3, <2>4, <2>6, <2>7, <1>v DEF FlowInv, labels
<1>15. ASSUME NEW s \in Slots, EmitFail(s) PROVE FlowInv'
  <2>1. req[s].todo \in SUBSET Tasks /\ \A u \in req[s].todo : version[u] > 0
    BY <1>15, <1>r, RequestFields DEF EmitFail, FlowInv, RequestsFollowPosts, Announces
  <2>2. PICK t \in req[s].todo : lost' = lost \union {t} /\ GoOn(s, Emit(req[s].todo \ {t}))
    BY <1>15 DEF EmitFail
  <2> DEFINE todo == req[s].todo \ {t}
  <2>3. todo \in SUBSET Tasks /\ \A u \in todo : version[u] > 0
    BY <2>1
  <2> HIDE DEF todo
  <2>4. /\ Emit(todo) \in Request /\ Emit(todo).at \in {"idle", "emit"}
        /\ Emit(todo).at = "emit" => Emit(todo).todo = todo
    BY <2>3, EmitFields, <1>i
  <2>5. version' = version /\ client' = client /\ UNCHANGED <<tags, wanted, sure>> /\ lost' \subseteq Tasks
    BY <1>15, <1>l, <2>1, <2>2 DEF EmitFail, labels
  <2>6. GoOn(s, Emit(todo))
    BY <2>2 DEF todo
  <2> QED
    BY <1>l, <2>3, <2>4, <2>5, <2>6, <1>s
<1>16. ASSUME NEW s \in Slots, ReqFail(s) PROVE FlowInv'
  <2>1. GoOn(s, Idle) /\ version' = version /\ client' = client
    BY <1>16 DEF ReqFail, GoOn, Finish
  <2>2. Announces(s) \subseteq Tasks
    BY DEF FlowInv, RequestsFollowPosts
  <2>3. UNCHANGED <<tags, wanted, sure>> /\ lost' \subseteq Tasks
    BY <1>16, <1>l, <2>2 DEF ReqFail, labels
  <2> QED
    BY <1>l, <1>i, <2>1, <2>3, <1>s
<1>17. ASSUME NEW c \in Clients, Leave(c) \/ \E t \in Tasks : Subscribe(c, t) \/ Load(c, t) PROVE FlowInv'
  <2>1. UNCHANGED <<posts, labels, req>>
    BY <1>17 DEF Leave, Subscribe, Load
  <2>2. client' \in [Clients -> Socket] /\ ClientsFollowPosts'
    <3>1. CASE Leave(c)
      <4>1. client' = [client EXCEPT ![c] = Away] /\ Away \in Socket /\ Away.on = {}
        BY <3>1, <1>v DEF Leave, Away, Socket
      <4> QED
        BY <4>1, <2>1 DEF FlowInv, ClientsFollowPosts, posts
    <3>2. ASSUME NEW t \in Tasks, Subscribe(c, t) PROVE client' \in [Clients -> Socket] /\ ClientsFollowPosts'
      <4> DEFINE k == [Away EXCEPT !.on = {t}]
      <4>0. {t} \in SUBSET Tasks /\ Away \in Socket /\ Away.best = 0
        BY <1>v DEF Away, Socket
      <4>3. client' = [client EXCEPT ![c] = k]
        BY <3>2 DEF Subscribe
      <4>1. k \in Socket /\ k.on = {t} /\ k.best = 0
        <5>1. k \in Socket
          BY <4>0 DEF Socket
        <5>2. k.on = {t} /\ k.best = 0
          BY <4>0 DEF Socket
        <5> QED
          BY <5>1, <5>2
      <4>2. version[t] > 0 /\ version[t] \in Nat
        BY <3>2, <1>v DEF Subscribe
      <4> HIDE DEF k
      <4> QED
        BY <4>1, <4>2, <4>3, <2>1 DEF FlowInv, ClientsFollowPosts, posts
    <3>3. ASSUME NEW t \in Tasks, Load(c, t) PROVE client' \in [Clients -> Socket] /\ ClientsFollowPosts'
      <4> DEFINE k == [client[c] EXCEPT !.loaded = TRUE, !.best = Newer(client[c].best, version[t])]
      <4>1. client[c] \in Socket /\ t \in client[c].on
        BY <3>3 DEF Load, FlowInv
      <4>2. k \in Socket /\ k.on = client[c].on /\ k.best = Newer(client[c].best, version[t])
        BY <4>1, <1>v DEF Socket, Newer
      <4>3. client' = [client EXCEPT ![c] = k]
        BY <3>3, <4>1 DEF Load, FlowInv, Socket
      <4>4. \A u \in client[c].on : u = t
        BY <4>1 DEF FlowInv, ClientsFollowPosts
      <4>5. version[t] > 0 /\ client[c].best <= version[t]
        BY <4>1 DEF FlowInv, ClientsFollowPosts
      <4>6. k.best <= version[t]
        BY <4>1, <4>2, <4>5, <1>v DEF Newer, Socket
      <4> HIDE DEF k
      <4> QED
        BY <4>1, <4>2, <4>3, <4>4, <4>5, <4>6, <2>1 DEF FlowInv, ClientsFollowPosts, posts
    <3> QED
      BY <1>17, <3>1, <3>2, <3>3
  <2>3. RequestsFollowPosts'
    BY <2>1 DEF posts, FlowInv, RequestsFollowPosts, Announces, At, Editing
  <2> QED
    BY <1>l, <2>1, <2>2, <2>3, <1>v, <1>r DEF FlowInv, posts, labels
<1>18. CASE UNCHANGED vars
  BY <1>18 DEF vars, posts, labels, FlowInv, RequestsFollowPosts, ClientsFollowPosts, Announces, At, Editing
<1> QED
  BY <1>1, <1>2, <1>3, <1>4, <1>5, <1>6, <1>7, <1>8, <1>9, <1>10, <1>11, <1>12, <1>13, <1>14,
     <1>15, <1>16, <1>17, <1>18 DEF Next

\* Every reachable state of Board is well typed, and nothing is announced or
\* looked at that does not exist (emit.js:21-37, gateway.js:36-60).
THEOREM Typing == Spec => []TypeOK
<1>1. Spec => []FlowInv
  BY FlowInit, FlowStep, PTL DEF Spec
<1>2. FlowInv => TypeOK
  <2> SUFFICES ASSUME FlowInv PROVE TypeOK
    OBVIOUS
  <2>1. \A s \in Slots : req[s].at \in {"idle", "delete", "insert", "place", "settle", "emit", "send"}
    BY RequestFields DEF FlowInv
  <2>2. \A u \in Tasks : version[u] \in Nat
    BY MaxWritesIsNatural DEF FlowInv
  <2>3. \A c \in Clients :
          /\ client[c].on \subseteq {t \in Tasks : version[t] > 0} /\ client[c].loaded \in BOOLEAN
          /\ \A t \in client[c].on : client[c].best \in 0..version[t]
    <3> SUFFICES ASSUME NEW c \in Clients
                 PROVE  /\ client[c].on \subseteq {t \in Tasks : version[t] > 0}
                        /\ client[c].loaded \in BOOLEAN
                        /\ \A t \in client[c].on : client[c].best \in 0..version[t]
      OBVIOUS
    <3>1. client[c].on \subseteq Tasks /\ client[c].loaded \in BOOLEAN /\ client[c].best \in Nat
      BY MaxWritesIsNatural DEF FlowInv, Socket
    <3>2. \A t \in client[c].on : version[t] > 0 /\ client[c].best <= version[t]
      BY DEF FlowInv, ClientsFollowPosts
    <3> QED
      BY <2>2, <3>1, <3>2
  <2> QED
    BY <2>1, <2>3 DEF FlowInv, TypeOK, RequestsFollowPosts
<1> QED
  BY <1>1, <1>2, PTL

-----------------------------------------------------------------------------
(* Announcements *)

\* A step without a write leaves the newest version with its readers, carried
\* or lost, if what its request carried is still carried or is lost now.
LEMMA CarriedOn ==
    ASSUME NewestIsCarried, NEW s \in Slots, version' = version, client' = client,
           lost \subseteq lost',
           \A q \in Slots \ {s} : req'[q] = req[q],
           \A t \in Tasks : Carries(s, t) => Carries(s, t)' \/ t \in lost'
    PROVE  NewestIsCarried'
<1> SUFFICES ASSUME NEW c \in Clients, NEW t \in Tasks, t \in client[c].on, client[c].loaded
             PROVE  client[c].best = version[t] \/ t \in lost' \/ \E q \in Slots : Carries(q, t)'
  BY DEF NewestIsCarried
<1>1. CASE \E q \in Slots : Carries(q, t)
  <2>1. PICK q \in Slots : Carries(q, t)
    BY <1>1
  <2>2. CASE q = s
    BY <2>1, <2>2
  <2>3. CASE q # s
    BY <2>1, <2>3 DEF Carries, At
  <2> QED
    BY <2>2, <2>3
<1> QED
  BY <1>1 DEF NewestIsCarried

\* A write is carried by the request that made it.
LEMMA WriteIsCarried ==
    ASSUME FlowInv, NewestIsCarried, NEW s \in Slots, NEW t \in Tasks, Write(t), client' = client,
           lost' = lost,
           \A q \in Slots \ {s} : req'[q] = req[q],
           At(s, "settle")' \/ At(s, "emit")', t \in req'[s].todo,
           ~At(s, "send"),
           \A u \in Tasks : Carries(s, u) => u \in req'[s].todo
    PROVE  NewestIsCarried'
<1>1. \A u \in Tasks : u # t => version'[u] = version[u]
  BY Writes DEF FlowInv
<1>2. \A u \in Tasks : u = t \/ Carries(s, u) => Carries(s, u)'
  BY DEF Carries, At
<1> SUFFICES ASSUME NEW c \in Clients, NEW u \in Tasks, u # t, u \in client[c].on, client[c].loaded
             PROVE  client[c].best = version[u] \/ u \in lost \/ \E q \in Slots : Carries(q, u)'
  BY <1>1, <1>2 DEF NewestIsCarried
<1>3. CASE \E q \in Slots : Carries(q, u)
  <2>1. PICK q \in Slots : Carries(q, u)
    BY <1>3
  <2>2. CASE q = s
    BY <2>1, <2>2, <1>2
  <2>3. CASE q # s
    BY <2>1, <2>3, <1>1 DEF Carries, At
  <2> QED
    BY <2>2, <2>3
<1> QED
  BY <1>3 DEF NewestIsCarried

\* What Emit makes of a set carries that set.
LEMMA EmitCarries ==
    ASSUME NEW s \in Slots, NEW todo \in SUBSET Tasks, req'[s] = Emit(todo)
    PROVE  \A t \in todo : Carries(s, t)'
BY EmitFields DEF Carries, At

LEMMA BoardInit ==
    ASSUME Init
    PROVE  BoardInv
BY FlowInit DEF Init, BoardInv, NewestIsCarried, Away

LEMMA BoardStep ==
    ASSUME BoardInv, [Next]_vars
    PROVE  BoardInv'
<1> USE DEF BoardInv
<1>f. FlowInv'
  BY FlowStep
<1>r. req \in [Slots -> Request]
  BY DEF FlowInv
<1>v. /\ version \in [Tasks -> 0..MaxWrites]
      /\ \A u \in Tasks : version[u] \in Nat
  BY MaxWritesIsNatural DEF FlowInv
<1>1. ASSUME NEW s \in Slots, NEW ids \in Asked, NEW t \in Tasks, Create(s, t, ids) PROVE BoardInv'
  <2>1. Write(t) /\ version[t] = 0 /\ req[s] = Idle /\ client' = client /\ lost' = lost
    BY <1>1 DEF Create
  <2>2. \A q \in Slots \ {s} : req'[q] = req[q]
    BY <1>1, <1>r DEF Create, GoOn
  <2>3. \A u \in Tasks : u # t => version'[u] = version[u]
    BY <2>1, <1>v, Writes
  <2>4. \A u \in Tasks : ~Carries(s, u)
    BY <2>1 DEF Carries, At, Idle
  <2>5. \A c \in Clients : t \notin client[c].on
    BY <2>1 DEF FlowInv, ClientsFollowPosts
  <2>6. NewestIsCarried'
    <3> SUFFICES ASSUME NEW c \in Clients, NEW u \in Tasks, u # t, u \in client[c].on, client[c].loaded
                 PROVE  client[c].best = version[u] \/ u \in lost \/ \E q \in Slots : Carries(q, u)'
      BY <2>1, <2>3, <2>5 DEF NewestIsCarried
    <3>1. CASE \E q \in Slots : Carries(q, u)
      <4>1. PICK q \in Slots : Carries(q, u)
        BY <3>1
      <4>2. req'[q] = req[q] /\ version'[u] = version[u]
        BY <4>1, <2>2, <2>3, <2>4
      <4> QED
        BY <4>1, <4>2 DEF Carries, At
    <3> QED
      BY <3>1 DEF NewestIsCarried
  <2> QED
    BY <1>f, <2>6
<1>2. ASSUME NEW s \in Slots, NEW ids \in Asked, NEW o \in Owners, EditTags(s, o, ids) PROVE BoardInv'
  <2>1. version' = version /\ client' = client /\ lost' = lost /\ req[s] = Idle
    BY <1>2 DEF EditTags, posts
  <2>2. \A q \in Slots, u \in Tasks : Carries(q, u) => req'[q] = req[q]
    BY <1>2, <1>r DEF EditTags, Carries, Editing, At, Idle
  <2>3. \A q \in Slots, u \in Tasks : Carries(q, u) => Carries(q, u)'
    BY <2>1, <2>2 DEF Carries, At
  <2> QED
    BY <1>f, <2>1, <2>3 DEF NewestIsCarried
<1>3. ASSUME NEW s \in Slots, NEW t \in Tasks, EditRest(s, t) PROVE BoardInv'
  <2>1. version' = version /\ client' = client /\ lost' = lost /\ req[s] = Idle
    BY <1>3 DEF EditRest, posts
  <2>2. \A q \in Slots \ {s} : req'[q] = req[q]
    BY <1>3, <1>r DEF EditRest, GoOn
  <2>3. \A u \in Tasks : ~Carries(s, u)
    BY <2>1 DEF Carries, At, Idle
  <2> QED
    BY <1>f, <2>1, <2>2, <2>3, CarriedOn
<1>4. ASSUME NEW s \in Slots, DeleteTags(s) \/ InsertTags(s) \/ InsertRefused(s) \/ EditRefused(s)
      PROVE  BoardInv'
  <2>1. version' = version /\ client' = client /\ lost' = lost
    BY <1>4 DEF DeleteTags, InsertTags, InsertRefused, EditRefused, posts
  <2>2. \A q \in Slots \ {s} : req'[q] = req[q]
    BY <1>4, <1>r DEF DeleteTags, InsertTags, InsertRefused, EditRefused, GoOn, Finish
  <2>3. \A u \in Tasks : ~Carries(s, u)
    BY <1>4 DEF DeleteTags, InsertTags, InsertRefused, EditRefused, Carries, At
  <2> QED
    BY <1>f, <2>1, <2>2, <2>3, CarriedOn
<1>5. ASSUME NEW s \in Slots, EditWrite(s) PROVE BoardInv'
  <2>1. req[s].owner \in Tasks /\ At(s, "place")
    BY <1>5, <1>r, RequestFields DEF EditWrite
  <2>2. /\ Write(req[s].owner) /\ client' = client /\ lost' = lost
        /\ req'[s] = Emit({req[s].owner})
        /\ \A q \in Slots \ {s} : req'[q] = req[q]
    BY <1>5, <1>r DEF EditWrite, GoOn
  <2>3. At(s, "emit")' /\ req'[s].todo = {req[s].owner}
    BY <2>1, <2>2, EmitFields DEF At
  <2>4. ~At(s, "send") /\ \A u \in Tasks : ~Carries(s, u)
    BY <2>1 DEF Carries, At
  <2>5. req[s].owner \in req'[s].todo
    BY <2>3
  <2>6. NewestIsCarried'
    BY <2>1, <2>2, <2>3, <2>4, <2>5, WriteIsCarried
  <2> QED
    BY <1>f, <2>6
<1>6. ASSUME NEW s \in Slots, NEW t \in Tasks, StepWrite(s, t) \/ CheckinWrite(s, t) PROVE BoardInv'
  <2>1. req[s] = Idle /\ Write(t) /\ client' = client /\ lost' = lost
    BY <1>6 DEF StepWrite, CheckinWrite
  <2>2. \A q \in Slots \ {s} : req'[q] = req[q]
    BY <1>6, <1>r DEF StepWrite, CheckinWrite, GoOn
  <2>3. req'[s] = Emit({t}) \/ req'[s] = [at |-> "settle", todo |-> {t}]
    BY <1>6, <1>r DEF StepWrite, CheckinWrite, GoOn
  <2>4. Emit({t}).at = "emit" /\ Emit({t}).todo = {t}
    BY EmitFields
  <2>5. (At(s, "settle")' \/ At(s, "emit")') /\ req'[s].todo = {t}
    BY <2>3, <2>4 DEF At
  <2>6. ~At(s, "send") /\ \A u \in Tasks : ~Carries(s, u)
    BY <2>1 DEF Carries, At, Idle
  <2>7. t \in req'[s].todo
    BY <2>5
  <2>8. NewestIsCarried'
    BY <2>1, <2>2, <2>5, <2>6, <2>7, WriteIsCarried
  <2> QED
    BY <1>f, <2>8
<1>7. ASSUME NEW s \in Slots, NEW t \in Tasks, SettleWrite(s, t) PROVE BoardInv'
  <2>1. /\ At(s, "settle") /\ Write(t) /\ client' = client /\ lost' = lost
        /\ req'[s] = [req[s] EXCEPT !.todo = req[s].todo \union {t}]
        /\ \A q \in Slots \ {s} : req'[q] = req[q]
    BY <1>7, <1>r DEF SettleWrite, GoOn
  <2>2. req[s] \in [at : {"settle", "emit"}, todo : SUBSET Tasks] /\ req[s].at = "settle"
    BY <2>1, <1>r DEF At, Request, Idle
  <2>3. At(s, "settle")' /\ req'[s].todo = req[s].todo \union {t}
    BY <2>1, <2>2 DEF At
  <2>4. ~At(s, "send") /\ \A u \in Tasks : Carries(s, u) => u \in req'[s].todo
    BY <2>2, <2>3 DEF Carries, At
  <2>5. t \in req'[s].todo
    BY <2>3
  <2>6. NewestIsCarried'
    BY <2>1, <2>3, <2>4, <2>5, WriteIsCarried
  <2> QED
    BY <1>f, <2>6
<1>8. ASSUME NEW s \in Slots, SettleBegin(s) PROVE BoardInv'
  <2>1. version' = version /\ client' = client /\ lost' = lost /\ req[s] = Idle
    BY <1>8 DEF SettleBegin, posts
  <2>2. \A q \in Slots \ {s} : req'[q] = req[q]
    BY <1>8, <1>r DEF SettleBegin, GoOn
  <2>3. \A u \in Tasks : ~Carries(s, u)
    BY <2>1 DEF Carries, At, Idle
  <2> QED
    BY <1>f, <2>1, <2>2, <2>3, CarriedOn
<1>9. ASSUME NEW s \in Slots, SettleEnds(s) PROVE BoardInv'
  <2>1. At(s, "settle") /\ req[s].todo \in SUBSET Tasks
    BY <1>9, <1>r, RequestFields DEF SettleEnds
  <2>2. /\ version' = version /\ client' = client /\ lost' = lost
        /\ req'[s] = Emit(req[s].todo) /\ \A q \in Slots \ {s} : req'[q] = req[q]
    BY <1>9, <1>r DEF SettleEnds, GoOn, posts
  <2>3. \A u \in req[s].todo : Carries(s, u)'
    BY <2>1, <2>2, EmitCarries
  <2>4. \A u \in Tasks : Carries(s, u) => u \in req[s].todo
    BY <2>1 DEF Carries, At
  <2> QED
    BY <1>f, <2>2, <2>3, <2>4, CarriedOn
<1>10. ASSUME NEW s \in Slots, EmitRead(s) PROVE BoardInv'
  <2>1. PICK t \in req[s].todo :
          GoOn(s, [at |-> "send", t |-> t, seen |-> version[t], todo |-> req[s].todo \ {t}])
    BY <1>10 DEF EmitRead
  <2>2. /\ version' = version /\ client' = client /\ lost' = lost /\ At(s, "emit")
        /\ req'[s] = [at |-> "send", t |-> t, seen |-> version[t], todo |-> req[s].todo \ {t}]
        /\ \A q \in Slots \ {s} : req'[q] = req[q]
    BY <1>10, <2>1, <1>r DEF EmitRead, GoOn, posts
  <2>3. \A u \in Tasks : Carries(s, u) => Carries(s, u)'
    BY <2>2 DEF Carries, At
  <2> QED
    BY <1>f, <2>2, <2>3, CarriedOn
<1>11. ASSUME NEW s \in Slots, EmitSend(s) PROVE BoardInv'
  <2>1. /\ At(s, "send") /\ req[s].todo \in SUBSET Tasks
        /\ req[s].t \in Tasks /\ req[s].seen \in 1..version[req[s].t]
    BY <1>11, <1>r, RequestFields DEF EmitSend, FlowInv, RequestsFollowPosts
  <2>2. /\ version' = version
        /\ req'[s] = Emit(req[s].todo) /\ \A q \in Slots \ {s} : req'[q] = req[q]
        /\ lost' = IF req[s].seen = version[req[s].t] THEN lost \ {req[s].t} ELSE lost
        /\ client' = [c \in Clients |-> IF req[s].t \in client[c].on
                                        THEN [client[c] EXCEPT !.best = Newer(@, req[s].seen)]
                                        ELSE client[c]]
    BY <1>11, <1>r DEF EmitSend, GoOn
  <2>3. \A u \in req[s].todo : Carries(s, u)'
    BY <2>1, <2>2, EmitCarries
  <2>4. \A u \in Tasks : Carries(s, u) => u \in req[s].todo \/ (u = req[s].t /\ req[s].seen = version[u])
    BY <2>1 DEF Carries, At
  <2>5. NewestIsCarried'
    <3> SUFFICES ASSUME NEW c \in Clients, NEW u \in Tasks, u \in client'[c].on, client'[c].loaded
                 PROVE  \/ client'[c].best = version[u]
                        \/ u \in lost'
                        \/ \E q \in Slots : Carries(q, u)'
      BY <2>2 DEF NewestIsCarried
    <3>1. /\ client[c] \in Socket /\ client[c].best \in Nat
          /\ \A t \in client[c].on : client[c].best <= version[t]
          /\ \A t, w \in client[c].on : t = w
      BY MaxWritesIsNatural DEF FlowInv, ClientsFollowPosts, Socket
    <3>2. /\ client'[c].on = client[c].on /\ client'[c].loaded = client[c].loaded
          /\ req[s].t \in client[c].on => client'[c].best = Newer(client[c].best, req[s].seen)
          /\ req[s].t \notin client[c].on => client'[c].best = client[c].best
      BY <2>2, <3>1 DEF Socket
    <3>3. u \in client[c].on /\ client[c].loaded
      BY <3>2
    <3>4. CASE u = req[s].t /\ req[s].seen = version[u]
      <4>1. client'[c].best = Newer(client[c].best, version[u]) /\ client[c].best <= version[u]
        BY <3>1, <3>2, <3>3, <3>4
      <4> QED
        BY <4>1, <3>1, <1>v DEF Newer
    <3>5. CASE u = req[s].t /\ req[s].seen # version[u]
      <4>1. CASE client[c].best = version[u]
        <5>1. client'[c].best = Newer(version[u], req[s].seen) /\ req[s].seen <= version[u]
          BY <2>1, <3>2, <3>3, <3>5, <4>1, <1>v
        <5> QED
          BY <5>1, <2>1, <1>v DEF Newer
      <4>2. CASE u \in lost
        BY <4>2, <3>5, <2>2
      <4>3. CASE \E q \in Slots : Carries(q, u)
        <5>1. PICK q \in Slots : Carries(q, u)
          BY <4>3
        <5>2. CASE q = s
          BY <5>1, <5>2, <3>5, <2>3, <2>4
        <5>3. CASE q # s
          BY <5>1, <5>3, <2>2 DEF Carries, At
        <5> QED
          BY <5>2, <5>3
      <4> QED
        BY <3>3, <4>1, <4>2, <4>3 DEF NewestIsCarried
    <3>6. CASE u # req[s].t
      <4>1. client'[c].best = client[c].best
        BY <3>1, <3>2, <3>3, <3>6
      <4>2. CASE u \in lost
        BY <4>2, <3>6, <2>2
      <4>3. CASE \E q \in Slots : Carries(q, u)
        <5>1. PICK q \in Slots : Carries(q, u)
          BY <4>3
        <5>2. CASE q = s
          BY <5>1, <5>2, <3>6, <2>3, <2>4
        <5>3. CASE q # s
          BY <5>1, <5>3, <2>2 DEF Carries, At
        <5> QED
          BY <5>2, <5>3
      <4> QED
        BY <3>3, <4>1, <4>2, <4>3 DEF NewestIsCarried
    <3> QED
      BY <3>4, <3>5, <3>6
  <2> QED
    BY <1>f, <2>5
<1>12. ASSUME NEW s \in Slots, EmitFail(s) PROVE BoardInv'
  <2>1. PICK t \in req[s].todo : lost' = lost \union {t} /\ GoOn(s, Emit(req[s].todo \ {t}))
    BY <1>12 DEF EmitFail
  <2>2. /\ At(s, "emit") /\ version' = version /\ client' = client
        /\ req'[s] = Emit(req[s].todo \ {t}) /\ \A q \in Slots \ {s} : req'[q] = req[q]
    BY <1>12, <2>1, <1>r DEF EmitFail, GoOn
  <2>3. req[s].todo \ {t} \in SUBSET Tasks
    BY <2>2, <1>r, RequestFields
  <2>4. \A u \in req[s].todo \ {t} : Carries(s, u)'
    BY <2>2, <2>3, EmitCarries
  <2>5. \A u \in Tasks : Carries(s, u) => u \in req[s].todo
    BY <2>2 DEF Carries, At
  <2> QED
    BY <1>f, <2>1, <2>2, <2>4, <2>5, CarriedOn
<1>13. ASSUME NEW s \in Slots, ReqFail(s) PROVE BoardInv'
  <2>1. /\ version' = version /\ client' = client /\ lost' = lost \union Announces(s) /\ ~At(s, "send")
        /\ \A q \in Slots \ {s} : req'[q] = req[q]
    BY <1>13, <1>r DEF ReqFail, Finish, At
  <2>2. \A u \in Tasks : Carries(s, u) => u \in Announces(s)
    BY <2>1 DEF Carries, Announces
  <2> QED
    BY <1>f, <2>1, <2>2, CarriedOn
<1>14. ASSUME NEW c \in Clients, Leave(c) \/ \E t \in Tasks : Subscribe(c, t) PROVE BoardInv'
  <2>1. /\ UNCHANGED <<posts, req>> /\ ~client'[c].loaded
        /\ \A d \in Clients \ {c} : client'[d] = client[d]
    BY <1>14 DEF Leave, Subscribe, Away, FlowInv, Socket
  <2> QED
    BY <1>f, <2>1 DEF posts, NewestIsCarried, Carries, At
<1>15. ASSUME NEW c \in Clients, NEW t \in Tasks, Load(c, t) PROVE BoardInv'
  <2>1. /\ UNCHANGED <<posts, req>> /\ t \in client[c].on /\ client[c] \in Socket
        /\ \A d \in Clients \ {c} : client'[d] = client[d]
        /\ client'[c].on = client[c].on /\ client'[c].best = Newer(client[c].best, version[t])
    BY <1>15 DEF Load, FlowInv, Socket
  <2>2. client[c].best <= version[t] /\ \A u \in client[c].on : u = t
    BY <2>1 DEF FlowInv, ClientsFollowPosts
  <2>3. client[c].best \in Nat
    BY <2>1, MaxWritesIsNatural DEF Socket
  <2>4. client'[c].best = version[t]
    BY <2>1, <2>2, <2>3, <1>v DEF Newer
  <2> QED
    BY <1>f, <2>1, <2>2, <2>4 DEF posts, NewestIsCarried, Carries, At
<1>16. CASE UNCHANGED vars
  BY <1>16, <1>f DEF vars, posts, NewestIsCarried, Carries, At
<1> QED
  BY <1>1, <1>2, <1>3, <1>4, <1>5, <1>6, <1>7, <1>8, <1>9, <1>10, <1>11, <1>12, <1>13, <1>14,
     <1>15, <1>16 DEF Next

\* However many handlers and settle passes announce a posting in whatever
\* order, who joined its room before loading it gets the newest version unless
\* an announcement is still to come or has failed (settle.js:20-22,
\* assignments.js:25-33).
THEOREM NothingGoesUnannounced == Spec => []NewestIsAnnounced
<1>1. Spec => []BoardInv
  BY BoardInit, BoardStep, PTL DEF Spec
<1>2. \A s \in Slots, t \in Tasks : Carries(s, t) => t \in Announces(s)
  BY DEF Carries, Announces, At
<1>3. BoardInv => NewestIsAnnounced
  BY <1>2, Zenon DEF BoardInv, NewestIsCarried, NewestIsAnnounced
<1> QED
  BY <1>1, <1>3, PTL

-----------------------------------------------------------------------------
(* Edits of tags *)

LEMMA EditInit ==
    ASSUME Init
    PROVE  EditInv
BY FlowInit DEF Init, EditInv, LoneEdits, EditStands, Editing, At, Idle

\* Steps that neither edit tags nor begin an edit leave every edit alone.
LEMMA EditsUndisturbed ==
    ASSUME LoneEdits, EditStands, UNCHANGED labels, NEW s \in Slots,
           \A q \in Slots \ {s} : req'[q] = req[q],
           \A o \in Owners : ~Editing(s, o)'
    PROVE  LoneEdits' /\ EditStands'
<1>1. \A q \in Slots, o \in Owners : Editing(q, o)' => q # s /\ Editing(q, o) /\ req'[q] = req[q]
  BY DEF Editing, At
<1>2. LoneEdits'
  <2> SUFFICES ASSUME NEW q \in Slots, NEW o \in Owners, Editing(q, o)', req'[q].alone
               PROVE  /\ \A p \in Slots : Editing(p, o)' => p = q
                      /\ At(q, "insert")' => tags'[o] = {}
    BY DEF LoneEdits
  <2>1. Editing(q, o) /\ req[q].alone /\ (At(q, "insert")' => At(q, "insert"))
    BY <1>1 DEF At
  <2> QED
    BY <1>1, <2>1 DEF LoneEdits, labels
<1> QED
  BY <1>2 DEF EditStands, labels

LEMMA EditStep ==
    ASSUME EditInv, [Next]_vars
    PROVE  EditInv'
<1> USE DEF EditInv
<1>f. FlowInv'
  BY FlowStep
<1>r. /\ req \in [Slots -> Request]
      /\ tags \in [Owners -> SUBSET Tags] /\ wanted \in [Owners -> SUBSET Tags] /\ sure \subseteq Owners
  BY DEF FlowInv
<1>i. Idle \in Request /\ Idle.at = "idle"
  BY DEF Request, Idle
<1>1. ASSUME NEW s \in Slots, NEW ids \in Asked, NEW t \in Tasks, Create(s, t, ids) PROVE EditInv'
  <2>1. /\ t \in Owners /\ version[t] = 0 /\ req'[s].at = "send"
        /\ tags' = [tags EXCEPT ![t] = Range(ids)] /\ wanted' = [wanted EXCEPT ![t] = Range(ids)]
        /\ sure' = sure \union {t}
        /\ \A q \in Slots \ {s} : req'[q] = req[q]
    BY <1>1, <1>r DEF Create, GoOn, Owners
  <2>2. \A q \in Slots : ~Editing(q, t)
    BY <2>1 DEF FlowInv, RequestsFollowPosts
  <2>3. \A q \in Slots, o \in Owners : Editing(q, o)' => o # t /\ q # s /\ Editing(q, o) /\ req'[q] = req[q]
    BY <2>1, <2>2 DEF Editing, At
  <2>4. \A o \in Owners : o # t => tags'[o] = tags[o] /\ wanted'[o] = wanted[o]
    BY <2>1, <1>r
  <2>5. LoneEdits'
    <3> SUFFICES ASSUME NEW q \in Slots, NEW o \in Owners, Editing(q, o)', req'[q].alone
                 PROVE  /\ \A p \in Slots : Editing(p, o)' => p = q
                        /\ At(q, "insert")' => tags'[o] = {}
      BY DEF LoneEdits
    <3>1. Editing(q, o) /\ req[q].alone /\ (At(q, "insert")' => At(q, "insert")) /\ o # t
      BY <2>3 DEF At
    <3> QED
      BY <2>3, <2>4, <3>1 DEF LoneEdits
  <2>6. EditStands'
    BY <2>1, <2>4, <1>r DEF EditStands
  <2> QED
    BY <1>f, <2>5, <2>6
<1>2. ASSUME NEW s \in Slots, NEW ids \in Asked, NEW o \in Owners, EditTags(s, o, ids) PROVE EditInv'
  <2>1. UNCHANGED labels /\ req[s] = Idle
    BY <1>2 DEF EditTags
  <2>2. \A q \in Slots \ {s} : Editing(q, o) => req'[q] = [req[q] EXCEPT !.alone = FALSE]
    BY <1>2 DEF EditTags
  <2>3. \A q \in Slots \ {s} : ~Editing(q, o) => req'[q] = req[q]
    BY <1>2 DEF EditTags
  <2> DEFINE lone == ~\E q \in Slots : Editing(q, o)
  <2>4. req'[s] = [at |-> "delete", owner |-> o, ids |-> ids, alone |-> lone]
    BY <1>2 DEF EditTags
  <2> HIDE DEF lone
  <2>5. \A q \in Slots : Editing(q, o) => req[q] \in
           [at : {"delete", "insert"}, owner : Owners, ids : Asked, alone : BOOLEAN]
    BY <1>r DEF Editing, At, Request, Idle
  <2>6. \A q \in Slots \ {s} : Editing(q, o) =>
           req'[q].at = req[q].at /\ req'[q].owner = o /\ req'[q].alone = FALSE
    BY <2>2, <2>5 DEF Editing
  <2>7. \A q \in Slots \ {s}, p \in Owners : Editing(q, p)' => Editing(q, p)
    BY <2>3, <2>6 DEF Editing, At
  <2>8. \A p \in Owners : Editing(s, p)' => p = o
    BY <2>4 DEF Editing
  <2>9. LoneEdits'
    <3> SUFFICES ASSUME NEW q \in Slots, NEW p \in Owners, Editing(q, p)', req'[q].alone
                 PROVE  /\ \A u \in Slots : Editing(u, p)' => u = q
                        /\ At(q, "insert")' => tags[p] = {}
      BY <2>1 DEF LoneEdits, labels
    <3>1. CASE q = s
      <4>0. req'[s].alone = lone
        BY <2>4
      <4>1. p = o /\ \A u \in Slots : ~Editing(u, o)
        BY <3>1, <4>0, <2>8, Zenon DEF lone
      <4>2. ~At(q, "insert")'
        BY <3>1, <2>4 DEF At
      <4> QED
        BY <3>1, <4>1, <4>2, <2>7
    <3>2. CASE q # s
      <4>1. Editing(q, p) /\ ~Editing(q, o)
        BY <3>2, <2>6, <2>7
      <4>2. p # o /\ req'[q] = req[q]
        BY <3>2, <4>1, <2>3
      <4>3. /\ \A u \in Slots : Editing(u, p) => u = q
            /\ At(q, "insert") => tags[p] = {}
        BY <4>1, <4>2 DEF LoneEdits
      <4> QED
        BY <4>2, <4>3, <2>7, <2>8 DEF At
    <3> QED
      BY <3>1, <3>2
  <2> QED
    BY <1>f, <2>1, <2>9 DEF EditStands, labels
<1>3. ASSUME NEW s \in Slots, DeleteTags(s) PROVE EditInv'
  <2> DEFINE o == req[s].owner
  <2>1. /\ req[s] \in [at : {"delete", "insert"}, owner : Owners, ids : Asked, alone : BOOLEAN]
        /\ Editing(s, o)
    BY <1>3, <1>r DEF DeleteTags, At, Request, Idle, Editing
  <2>2. /\ req'[s] = [req[s] EXCEPT !.at = "insert"]
        /\ \A q \in Slots \ {s} : req'[q] = req[q]
        /\ tags' = [tags EXCEPT ![o] = {}] /\ wanted' = wanted /\ sure' = sure \ {o}
    BY <1>3, <1>r DEF DeleteTags, GoOn, Unsettle
  <2>3. req'[s].at = "insert" /\ req'[s].owner = o /\ req'[s].alone = req[s].alone
    BY <2>1, <2>2
  <2>4. o \in Owners
    BY <2>1
  <2> HIDE DEF o
  <2>5. /\ tags'[o] = {}
        /\ \A p \in Owners : p # o => tags'[p] = tags[p]
    BY <2>2, <2>4, <1>r
  <2>6. \A q \in Slots, p \in Owners : Editing(q, p)' => Editing(q, p) /\ req'[q].alone = req[q].alone
    BY <2>1, <2>2, <2>3 DEF Editing, At, o
  <2>7. \A p \in Owners : Editing(s, p)' => p = o
    BY <2>3 DEF Editing
  <2>8. LoneEdits'
    <3> SUFFICES ASSUME NEW q \in Slots, NEW p \in Owners, Editing(q, p)', req'[q].alone
                 PROVE  /\ \A u \in Slots : Editing(u, p)' => u = q
                        /\ At(q, "insert")' => tags'[p] = {}
      BY DEF LoneEdits
    <3>1. /\ \A u \in Slots : Editing(u, p) => u = q
          /\ At(q, "insert") => tags[p] = {}
      BY <2>6 DEF LoneEdits
    <3>2. \A u \in Slots : Editing(u, p)' => u = q
      BY <2>6, <3>1
    <3>3. ASSUME At(q, "insert")' PROVE tags'[p] = {}
      <4>1. CASE q = s
        BY <4>1, <2>5, <2>7
      <4>2. CASE q # s
        BY <3>1, <3>3, <4>2, <2>2, <2>5 DEF At
      <4> QED
        BY <4>1, <4>2
    <3> QED
      BY <3>2, <3>3
  <2>9. EditStands'
    BY <2>2, <2>5, <1>r DEF EditStands
  <2> QED
    BY <1>f, <2>8, <2>9
<1>4. ASSUME NEW s \in Slots, InsertTags(s) PROVE EditInv'
  <2> DEFINE o == req[s].owner
             ids == req[s].ids
  <2>1. o \in Owners /\ Editing(s, o) /\ At(s, "insert")
    BY <1>4, <1>r, RequestFields DEF InsertTags, Editing
  <2>2. /\ tags' = [tags EXCEPT ![o] = tags[o] \union Range(ids)]
        /\ IF req[s].alone
           THEN wanted' = [wanted EXCEPT ![o] = Range(ids)] /\ sure' = sure \union {o}
           ELSE wanted' = wanted /\ sure' = sure \ {o}
        /\ \A q \in Slots \ {s} : req'[q] = req[q]
        /\ \A p \in Owners : ~Editing(s, p)'
    <3>1. req' = [req EXCEPT ![s] = IF o \in Tasks THEN [at |-> "place", owner |-> o] ELSE Idle]
      BY <1>4 DEF InsertTags, GoOn, Finish
    <3>2. req'[s] = IF o \in Tasks THEN [at |-> "place", owner |-> o] ELSE Idle
      BY <3>1, <1>r
    <3>3. req'[s].at \in {"place", "idle"}
      BY <3>2, <1>i
    <3> QED
      BY <1>4, <3>1, <3>3, <1>r DEF InsertTags, Unsettle, Editing, At
  <2> HIDE DEF o, ids
  <2>3. \A p \in Owners : p # o => tags'[p] = tags[p] /\ wanted'[p] = wanted[p]
    BY <2>1, <2>2, <1>r
  <2>4. \A q \in Slots, p \in Owners : Editing(q, p)' => q # s /\ Editing(q, p) /\ req'[q] = req[q]
    BY <2>2 DEF Editing, At
  <2>5. LoneEdits'
    <3> SUFFICES ASSUME NEW q \in Slots, NEW p \in Owners, Editing(q, p)', req'[q].alone
                 PROVE  /\ \A u \in Slots : Editing(u, p)' => u = q
                        /\ At(q, "insert")' => tags'[p] = {}
      BY DEF LoneEdits
    <3>1. /\ Editing(q, p) /\ req[q].alone /\ q # s
          /\ \A u \in Slots : Editing(u, p) => u = q
          /\ At(q, "insert")' => tags[p] = {}
      BY <2>4 DEF LoneEdits, At
    <3>2. p # o
      BY <2>1, <3>1
    <3> QED
      BY <2>3, <2>4, <3>1, <3>2
  <2>6. EditStands'
    <3>1. CASE req[s].alone
      <4>1. tags[o] = {}
        BY <2>1, <3>1 DEF LoneEdits
      <4>2. tags'[o] = Range(ids) /\ wanted'[o] = Range(ids)
        BY <2>1, <2>2, <3>1, <4>1, <1>r
      <4> QED
        BY <2>2, <2>3, <3>1, <4>2, <1>r DEF EditStands
    <3>2. CASE ~req[s].alone
      BY <2>2, <2>3, <3>2, <1>r DEF EditStands
    <3> QED
      BY <3>1, <3>2
  <2> QED
    BY <1>f, <2>5, <2>6
<1>5. ASSUME NEW s \in Slots, NEW r \in Request, GoOn(s, r), ~(r.at \in {"delete", "insert"}), UNCHANGED labels
      PROVE  EditInv'
  <2>1. req'[s] = r /\ \A q \in Slots \ {s} : req'[q] = req[q]
    BY <1>5, <1>r, GoesOn
  <2>2. \A o \in Owners : ~Editing(s, o)'
    BY <1>5, <2>1 DEF Editing, At
  <2> QED
    BY <1>5, <1>f, <2>1, <2>2, EditsUndisturbed
<1>6. ASSUME NEW s \in Slots,
             \/ InsertRefused(s) \/ EditRefused(s) \/ ReqFail(s)
      PROVE  EditInv'
  <2>1. GoOn(s, Idle) /\ UNCHANGED labels
    BY <1>6 DEF InsertRefused, EditRefused, ReqFail, GoOn, Finish
  <2> QED
    BY <2>1, <1>i, <1>5
<1>7. ASSUME NEW s \in Slots, NEW t \in Tasks,
             \/ EditRest(s, t) \/ StepWrite(s, t) \/ CheckinWrite(s, t)
      PROVE  EditInv'
  <2>1. /\ Emit({t}) \in Request /\ Emit({t}).at = "emit"
        /\ [at |-> "place", owner |-> t] \in Request
        /\ [at |-> "settle", todo |-> {t}] \in Request
    BY EmitFields DEF Request
  <2>2. PICK r \in Request : GoOn(s, r) /\ r.at \in {"emit", "place", "settle"}
    BY <1>7, <2>1 DEF EditRest, StepWrite, CheckinWrite
  <2>3. UNCHANGED labels
    BY <1>7 DEF EditRest, StepWrite, CheckinWrite
  <2> QED
    BY <2>2, <2>3, <1>5
<1>8. ASSUME NEW s \in Slots, NEW t \in Tasks, SettleWrite(s, t) PROVE EditInv'
  <2> DEFINE r == [req[s] EXCEPT !.todo = @ \union {t}]
  <2>1. req[s] \in [at : {"settle", "emit"}, todo : SUBSET Tasks] /\ req[s].at = "settle"
    BY <1>8, <1>r DEF SettleWrite, At, Request, Idle
  <2>2. r \in Request /\ r.at = "settle"
    BY <2>1 DEF Request
  <2>3. GoOn(s, r) /\ UNCHANGED labels
    BY <1>8 DEF SettleWrite
  <2> HIDE DEF r
  <2> QED
    BY <2>2, <2>3, <1>5
<1>9. ASSUME NEW s \in Slots,
             \/ EditWrite(s) \/ SettleBegin(s) \/ SettleEnds(s)
             \/ EmitRead(s) \/ EmitSend(s) \/ EmitFail(s)
      PROVE  EditInv'
  <2>1. UNCHANGED labels
    BY <1>9 DEF EditWrite, SettleBegin, SettleEnds, EmitRead, EmitSend, EmitFail, labels
  <2>2. \A q \in Slots \ {s} : req'[q] = req[q]
    BY <1>9, <1>r DEF EditWrite, SettleBegin, SettleEnds, EmitRead, EmitSend, EmitFail, GoOn
  <2>3. \A todo : Emit(todo).at \in {"idle", "emit"}
    BY <1>i DEF Emit
  <2>4. req'[s].at \in {"idle", "emit", "settle", "send"}
    <3>1. CASE \E todo : GoOn(s, Emit(todo))
      BY <3>1, <2>3, <1>r DEF GoOn
    <3>2. CASE SettleBegin(s) \/ EmitRead(s)
      BY <3>2, <1>r DEF SettleBegin, EmitRead, GoOn
    <3>3. EditWrite(s) \/ SettleEnds(s) \/ EmitSend(s) \/ EmitFail(s) => \E todo : GoOn(s, Emit(todo))
      BY Zenon DEF EditWrite, SettleEnds, EmitSend, EmitFail
    <3> QED
      BY <1>9, <3>1, <3>2, <3>3
  <2>5. \A o \in Owners : ~Editing(s, o)'
    BY <2>4 DEF Editing, At
  <2> QED
    BY <1>f, <2>1, <2>2, <2>5, EditsUndisturbed
<1>10. ASSUME NEW c \in Clients, Leave(c) \/ \E t \in Tasks : Subscribe(c, t) \/ Load(c, t) PROVE EditInv'
  <2>1. UNCHANGED <<labels, req>>
    BY <1>10 DEF Leave, Subscribe, Load
  <2> QED
    BY <1>f, <2>1 DEF labels, LoneEdits, EditStands, Editing, At
<1>11. CASE UNCHANGED vars
  BY <1>11, <1>f DEF vars, labels, LoneEdits, EditStands, Editing, At
<1> QED
  BY <1>1, <1>2, <1>3, <1>4, <1>6, <1>7, <1>8, <1>9, <1>10, <1>11 DEF Next

\* After an edit that no other edit of its owner overlapped, the owner's tags
\* are exactly those it named until somebody edits them again, whatever
\* overlapping, refused or failed edits there were before (tasks.js:297-300,
\* users.js:108-113).
THEOREM LoneEditsStand == Spec => []EditStands
<1>1. Spec => []EditInv
  BY EditInit, EditStep, PTL DEF Spec
<1>2. EditInv => EditStands
  BY DEF EditInv
<1> QED
  BY <1>1, <1>2, PTL

=============================================================================
