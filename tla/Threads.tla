------------------------------ MODULE Threads -------------------------------
(***************************************************************************)
(* One private thread between the poster and a helper: the messages, their *)
(* read markers and cursor pages (src/routes/messages.js), the fan-out to  *)
(* the thread's room (src/realtime/emit.js) and the room's membership      *)
(* (src/realtime/gateway.js).                                              *)
(*                                                                         *)
(* A message is its place in the order of createdAt and id, which it gets  *)
(* when the INSERT is made; the row is visible when the INSERT commits.    *)
(* So rows may become visible out of order, and two requests are ordered   *)
(* in neither way while both are in flight.  A handler's emit follows its  *)
(* last database call without another await, but only once the event loop  *)
(* comes back to it.                                                       *)
(*                                                                         *)
(* The participants are fixed with the assignment, so loadThread and       *)
(* roomFor, which admit nobody else, are not steps of their own.  What a   *)
(* client does is external: it joins the room, loads the newest page, then *)
(* older ones, and adds what the room brings.                              *)
(***************************************************************************)
EXTENDS Naturals, Sequences, FiniteSets, FiniteSetsExt

CONSTANTS
    Sides,          \* the two participants
    MaxMessages,    \* bound: how many messages are ever written
    Limit,          \* the page size a client asks for
    Slots           \* bound: requests in flight at the same time

ASSUME TwoSides == Cardinality(Sides) = 2
ASSUME PageIsPositive == Limit \in Nat \ {0} /\ MaxMessages \in Nat

VARIABLES
    author,     \* author[i]: who wrote message i, in the order of createdAt, id
    rows,       \* the messages whose row is visible
    read,       \* the messages whose readAt is set
    req,        \* the requests in flight
    client,     \* what each participant's open chat holds
    receipts,   \* history: how far a reader's message:read events reach, lost ones too
    dropped,    \* history: the messages whose message:new was never sent
    late        \* history: the messages that came in between the two steps of a read

vars == <<author, rows, read, req, client, receipts, dropped, late>>

Messages == 1..Len(author)

Idle == [op |-> "idle"]

Post == [op : {"post"}, at : {"create", "emit"}, by : Sides, m : 1..MaxMessages]
Read == [op : {"read"}, at : {"mark", "emit"}, by : Sides, m : 1..MaxMessages]

\* loaded: the pages came in; oldest: the cursor; more: the last hasMore.
Chat == [in : BOOLEAN, loaded : BOOLEAN, view : SUBSET (1..MaxMessages),
         oldest : 1..MaxMessages + 1, more : BOOLEAN]

Closed == [in |-> FALSE, loaded |-> FALSE, view |-> {}, oldest |-> MaxMessages + 1, more |-> FALSE]

\* The unread messages of the reader's counterpart.
Pending(by) == {i \in rows \ read : author[i] # by}

At(s, op, step) == req[s] # Idle /\ req[s].op = op /\ req[s].at = step

Finish(s) == req' = [req EXCEPT ![s] = Idle]

-----------------------------------------------------------------------------
(* POST /assignments/:id/messages *)

\* Mutant: the event goes out before the row is in.
PostEmitFirst(s, by) ==
    /\ req[s] = Idle /\ Len(author) < MaxMessages
    /\ author' = Append(author, by)
    /\ req' = [req EXCEPT ![s] = [op |-> "post", at |-> "emit", by |-> by, m |-> Len(author) + 1]]
    /\ UNCHANGED <<rows, read, client, receipts, dropped, late>>

\* message.create is on its way, createdAt and id chosen.
PostBegin(s, by) ==
    /\ req[s] = Idle /\ Len(author) < MaxMessages
    /\ author' = Append(author, by)
    /\ req' = [req EXCEPT ![s] = [op |-> "post", at |-> "create", by |-> by, m |-> Len(author) + 1]]
    /\ UNCHANGED <<rows, read, client, receipts, dropped, late>>

PostCommit(s) ==
    /\ At(s, "post", "create")
    /\ rows' = rows \union {req[s].m}
    /\ req' = [req EXCEPT ![s] = [@ EXCEPT !.at = "emit"]]
    /\ late' = IF \E r \in Slots : At(r, "read", "mark") /\ req[r].by # req[s].by
               THEN late \union {req[s].m} ELSE late
    /\ UNCHANGED <<author, read, client, receipts, dropped>>

\* emitMessageNew to the thread's room.
PostEmit(s) ==
    /\ At(s, "post", "emit")
    /\ client' = [p \in Sides |-> IF client[p].in
                                  THEN [client[p] EXCEPT !.view = @ \union {req[s].m}]
                                  ELSE client[p]]
    /\ Finish(s)
    /\ UNCHANGED <<author, rows, read, receipts, dropped, late>>

-----------------------------------------------------------------------------
(* POST /assignments/:id/read *)

\* Mutant: orderBy without desc, so the receipt names the oldest.
ReadFindOldest(s, by) ==
    /\ req[s] = Idle /\ Pending(by) # {}
    /\ req' = [req EXCEPT ![s] = [op |-> "read", at |-> "mark", by |-> by, m |-> Min(Pending(by))]]
    /\ UNCHANGED <<author, rows, read, client, receipts, dropped, late>>

\* The newest unread message is what the receipt will name; none, no receipt.
ReadFind(s, by) ==
    /\ req[s] = Idle /\ Pending(by) # {}
    /\ req' = [req EXCEPT ![s] = [op |-> "read", at |-> "mark", by |-> by, m |-> Max(Pending(by))]]
    /\ UNCHANGED <<author, rows, read, client, receipts, dropped, late>>

\* updateMany of whatever is unread by now.
ReadMark(s) ==
    /\ At(s, "read", "mark")
    /\ read' = read \union Pending(req[s].by)
    /\ req' = [req EXCEPT ![s] = [@ EXCEPT !.at = "emit"]]
    /\ UNCHANGED <<author, rows, client, receipts, dropped, late>>

Reached(s) == [receipts EXCEPT ![req[s].by] = Max({@, req[s].m})]

ReadEmit(s) ==
    /\ At(s, "read", "emit")
    /\ receipts' = Reached(s)
    /\ Finish(s)
    /\ UNCHANGED <<author, rows, read, client, dropped, late>>

\* A call fails or the process dies under the request.
ReqFail(s) ==
    /\ req[s] # Idle
    /\ dropped' = IF At(s, "post", "emit") THEN dropped \union {req[s].m} ELSE dropped
    /\ receipts' = IF At(s, "read", "emit") THEN Reached(s) ELSE receipts
    /\ Finish(s)
    /\ UNCHANGED <<author, rows, read, client, late>>

-----------------------------------------------------------------------------
(* A participant's chat *)

\* take: limit + 1 in descending order, the first limit of which are sent.
Page(found) == {i \in found : Cardinality({j \in found : j >= i}) <= Limit}

\* Mutant: take: limit, so nothing is left over to notice.
HasMoreInPage(found) == Cardinality(Page(found)) > Limit

HasMore(found) == Cardinality(found) > Limit

\* A chat with one more page.
Shown(chat, found) ==
    [chat EXCEPT !.loaded = TRUE, !.view = @ \union Page(found),
                 !.oldest = IF found = {} THEN @ ELSE Min(Page(found)),
                 !.more = HasMore(found)]

Show(p, found) == client' = [client EXCEPT ![p] = Shown(client[p], found)]

Others == <<author, rows, read, req, receipts, dropped, late>>

\* subscribe: the handshake knew the user, roomFor let a participant in.
Subscribe(p) ==
    /\ ~client[p].in
    /\ client' = [client EXCEPT ![p].in = TRUE]
    /\ UNCHANGED Others

\* GET /assignments/:id/messages without a cursor.
LoadNewest(p) ==
    /\ client[p].in /\ ~client[p].loaded
    /\ Show(p, rows)
    /\ UNCHANGED Others

\* The same with before = the oldest message of the pages loaded.
LoadOlder(p) ==
    /\ client[p].loaded /\ client[p].more
    /\ Show(p, {i \in rows : i < client[p].oldest})
    /\ UNCHANGED Others

\* unsubscribe or a lost connection; the chat starts over.
Leave(p) ==
    /\ client[p].in
    /\ client' = [client EXCEPT ![p] = Closed]
    /\ UNCHANGED Others

-----------------------------------------------------------------------------
Init ==
    /\ author = <<>>
    /\ rows = {}
    /\ read = {}
    /\ req = [s \in Slots |-> Idle]
    /\ client = [p \in Sides |-> Closed]
    /\ receipts = [p \in Sides |-> 0]
    /\ dropped = {}
    /\ late = {}

Next ==
    \/ \E s \in Slots, by \in Sides : PostBegin(s, by) \/ ReadFind(s, by)
    \/ \E s \in Slots :
        PostCommit(s) \/ PostEmit(s) \/ ReadMark(s) \/ ReadEmit(s) \/ ReqFail(s)
    \/ \E p \in Sides : Subscribe(p) \/ LoadNewest(p) \/ LoadOlder(p) \/ Leave(p)

Spec == Init /\ [][Next]_vars

-----------------------------------------------------------------------------
(* Properties *)

\* Only rows that are visible are shown, marked read or announced as read.
TypeOK ==
    /\ author \in Seq(Sides)
    /\ rows \subseteq Messages
    /\ read \subseteq rows
    /\ req \in [Slots -> {Idle} \union Post \union Read]
    /\ client \in [Sides -> Chat]
    /\ \A p \in Sides : client[p].view \subseteq rows
    /\ receipts \in [Sides -> {0} \union rows]
    /\ dropped \subseteq rows
    /\ late \subseteq rows

\* A chat that joined the room before it loaded its pages has no hole: every
\* visible message down to its cursor, or down to the first once hasMore is
\* false, is shown, but for those whose emit is still to come or was lost.
NothingMissed ==
    \A p \in Sides : client[p].loaded =>
        \A i \in rows : (i >= client[p].oldest \/ ~client[p].more) =>
            \/ i \in client[p].view \union dropped
            \/ \E s \in Slots : At(s, "post", "emit") /\ req[s].m = i

\* "The reader caught up to untilMessageId; the sender uses it to tick the
\* row" (emit.js:77): every message marked read is ticked by a receipt that
\* reaches it, sent or about to be sent, unless it came in between the two
\* statements of a read (messages.js:166-172) or the receipt was lost.
ReceiptsCoverReads ==
    \A i \in read \ late :
        \/ \E p \in Sides \ {author[i]} : receipts[p] >= i
        \/ \E s \in Slots : At(s, "read", "emit") /\ req[s].by # author[i] /\ req[s].m >= i

=============================================================================
