--------------------------- MODULE ThreadsProofs ----------------------------
(***************************************************************************)
(* A chat that joined before it loaded has no hole, and every message      *)
(* marked read is reached by a receipt unless it came in between, for any  *)
(* number of messages and of requests in flight and any page size.         *)
(***************************************************************************)
EXTENDS Threads, FiniteSetTheorems, WellFoundedInduction, TLAPS

\* A request in flight carries a message that exists: one that is visible once
\* it is emitted or found, its own when posted, the counterpart's when read.
RequestsFollowRows ==
    \A s \in Slots : req[s] # Idle =>
        /\ req[s].m \in Messages
        /\ req[s].op = "read" \/ req[s].at = "emit" => req[s].m \in rows
        /\ req[s].op = "post" => author[req[s].m] = req[s].by
        /\ req[s].op = "read" => author[req[s].m] # req[s].by

FlowInv == TypeOK /\ Len(author) <= MaxMessages /\ RequestsFollowRows

\* Pages are loaded only by chats that stay in the room.
LoadedIsIn == \A p \in Sides : client[p].loaded => client[p].in

HistoryInv == FlowInv /\ LoadedIsIn /\ NothingMissed

\* What a read between its two statements would mark beyond the message its
\* receipt names has come in since.
MarkersReach ==
    \A s \in Slots : At(s, "read", "mark") =>
        \A i \in Pending(req[s].by) : i > req[s].m => i \in late

ReceiptInv == FlowInv /\ MarkersReach /\ ReceiptsCoverReads

-----------------------------------------------------------------------------
(* The smallest and the largest of a set of numbers *)

LEMMA MinIsSmallest ==
    ASSUME NEW S \in SUBSET Nat, S # {}
    PROVE  Min(S) \in S /\ \A y \in S : Min(S) <= y
<1>1. PICK x \in S : \A y \in S : ~ (<<y, x>> \in OpToRel(<, Nat))
  BY WFMin, NatLessThanWellFounded, Zenon
<1>2. ASSUME NEW y \in S PROVE x <= y
  <2>1. <<y, x>> \in Nat \X Nat
    OBVIOUS
  <2>2. CASE y < x
    <3>1. <<y, x>> \in OpToRel(<, Nat)
      BY <2>1, <2>2 DEF OpToRel
    <3> QED
      BY <1>1, <3>1
  <2> QED
    BY <2>1, <2>2
<1> QED
  BY <1>2, Zenon DEF Min

LEMMA MaxIsLargest ==
    ASSUME NEW n \in Nat, NEW S \in SUBSET (0..n), S # {}
    PROVE  Max(S) \in S /\ \A y \in S : Max(S) >= y
<1> DEFINE T == {n - x : x \in S}
<1>1. T \in SUBSET Nat /\ T # {}
  <2>1. \A x \in S : n - x \in Nat
    OBVIOUS
  <2>2. T \subseteq Nat
    BY <2>1
  <2> QED
    BY <2>2, Zenon
<1>2. Min(T) \in T /\ \A y \in T : Min(T) <= y
  BY <1>1, MinIsSmallest
<1>3. PICK x \in S : Min(T) = n - x
  BY <1>2
<1>4. \A y \in S : x >= y
  <2> SUFFICES ASSUME NEW y \in S PROVE x >= y
    OBVIOUS
  <2>1. n - y \in T
    OBVIOUS
  <2>2. n - x <= n - y
    BY <1>2, <1>3, <2>1
  <2> QED
    BY <2>2
<1> QED
  BY <1>4, Zenon DEF Max

\* The later of two receipts reaches at least as far as each.
LEMMA MaxOfTwo ==
    ASSUME NEW a \in Nat, NEW b \in Nat
    PROVE  Max({a, b}) \in {a, b} /\ Max({a, b}) >= a /\ Max({a, b}) >= b
<1> DEFINE n == a + b
<1>1. n \in Nat /\ {a, b} \in SUBSET (0..n) /\ {a, b} # {}
  OBVIOUS
<1> QED
  BY <1>1, MaxIsLargest

-----------------------------------------------------------------------------
(* Pages *)

\* Messages are numbers, finitely many.
LEMMA RowsAreFinite ==
    ASSUME FlowInv, NEW found \in SUBSET rows
    PROVE  /\ found \in SUBSET (0..MaxMessages) /\ found \in SUBSET (1..MaxMessages)
           /\ IsFiniteSet(found) /\ Cardinality(found) \in Nat
<1>1. Len(author) \in Nat /\ MaxMessages \in Nat
  BY PageIsPositive DEF FlowInv, TypeOK
<1>2. found \in SUBSET (1..MaxMessages)
  BY <1>1 DEF FlowInv, TypeOK, Messages
<1>3. IsFiniteSet(1..MaxMessages)
  BY <1>1, FS_Interval
<1>4. found \in SUBSET (0..MaxMessages)
  BY <1>1, <1>2
<1>5. IsFiniteSet(found)
  BY <1>2, <1>3, FS_Subset
<1> QED
  BY <1>2, <1>4, <1>5, FS_CardinalityType, Zenon

\* A page of something found is not empty and has all that is newer than any
\* of its messages; without hasMore it is everything that was found.
LEMMA PageIsTheNewest ==
    ASSUME FlowInv, NEW found \in SUBSET rows, found # {}
    PROVE  /\ Page(found) # {}
           /\ Min(Page(found)) \in Page(found)
           /\ \A i \in found : i >= Min(Page(found)) => i \in Page(found)
           /\ ~HasMore(found) => Page(found) = found
<1> DEFINE From(i) == {j \in found : j >= i}
<1>a. /\ found \in SUBSET (0..MaxMessages) /\ found \in SUBSET Nat /\ MaxMessages \in Nat
      /\ IsFiniteSet(found) /\ Cardinality(found) \in Nat /\ Limit \in Nat /\ Limit >= 1
  BY RowsAreFinite, PageIsPositive
<1>b. \A i \in found : From(i) \subseteq found
  OBVIOUS
<1>c. \A i \in found : /\ IsFiniteSet(From(i)) /\ Cardinality(From(i)) \in Nat
                       /\ Cardinality(From(i)) <= Cardinality(found)
  BY <1>a, <1>b, FS_Subset, FS_CardinalityType
<1>1. Page(found) # {}
  <2>1. PICK m \in found : \A y \in found : m >= y
    BY <1>a, MaxIsLargest
  <2>2. m \in Nat /\ \A j \in found : j \in Nat
    BY <1>a
  <2>3. m >= m /\ \A j \in found : j >= m => j = m
    BY <2>1, <2>2
  <2>4. From(m) = {m}
    BY <2>1, <2>3, Zenon
  <2>5. Cardinality(From(m)) = 1
    BY <2>4, FS_Singleton
  <2> QED
    BY <2>1, <2>5, <1>a DEF Page
<1>2. Page(found) \in SUBSET Nat
  BY <1>a DEF Page
<1>3. Min(Page(found)) \in Page(found)
  BY <1>1, <1>2, MinIsSmallest
<1>4. ASSUME NEW i \in found, i >= Min(Page(found))
      PROVE  i \in Page(found)
  <2> DEFINE m == Min(Page(found))
  <2>1. m \in found /\ Cardinality(From(m)) <= Limit
    BY <1>3 DEF Page
  <2>2. From(i) \subseteq From(m)
    <3> HIDE DEF m
    <3>1. i >= m
      BY <1>4 DEF m
    <3>2. \A j \in found : j >= i => j >= m
      BY <1>a, <2>1, <3>1
    <3> QED
      BY <3>2, Zenon
  <2>3. Cardinality(From(i)) <= Cardinality(From(m))
    BY <1>c, <2>1, <2>2, FS_Subset
  <2> HIDE DEF m
  <2>4. Cardinality(From(i)) <= Limit
    BY <2>1, <2>3, <1>a, <1>c
  <2> QED
    BY <2>4 DEF Page
<1>5. ASSUME ~HasMore(found) PROVE Page(found) = found
  <2>1. Cardinality(found) <= Limit
    BY <1>5, <1>a DEF HasMore
  <2>2. \A i \in found : Cardinality(From(i)) <= Limit
    BY <2>1, <1>a, <1>c
  <2> QED
    BY <2>2 DEF Page
<1> QED
  BY <1>1, <1>3, <1>4, <1>5

-----------------------------------------------------------------------------
(* Requests and rows *)

\* A request is idle, a post or a read, and At tells which.
LEMMA RequestFields ==
    ASSUME FlowInv, NEW s \in Slots
    PROVE  /\ req[s] \in {Idle} \union Post \union Read
           /\ req[s] # Idle => /\ req[s] \in Post \union Read
                               /\ req[s].m \in Messages /\ req[s].m \in 1..MaxMessages
                               /\ req[s].by \in Sides
           /\ \A op, step : At(s, op, step) => req[s] # Idle /\ req[s].op = op /\ req[s].at = step
           /\ At(s, "post", "create") => req[s] \in Post /\ author[req[s].m] = req[s].by
           /\ At(s, "post", "emit") => req[s] \in Post /\ req[s].m \in rows
           /\ At(s, "read", "mark") \/ At(s, "read", "emit") =>
                req[s] \in Read /\ req[s].m \in rows /\ author[req[s].m] # req[s].by
BY DEF FlowInv, TypeOK, RequestsFollowRows, At, Post, Read, Idle

\* A new message leaves the authors of the others as they are.
LEMMA MessagesStay ==
    ASSUME author \in Seq(Sides), NEW by \in Sides, author' = Append(author, by)
    PROVE  /\ author' \in Seq(Sides) /\ Len(author') = Len(author) + 1
           /\ Messages' = Messages \union {Len(author) + 1} /\ Len(author) + 1 \notin Messages
           /\ \A i \in Messages : author'[i] = author[i]
           /\ author'[Len(author) + 1] = by
BY DEF Messages

LEMMA FlowInit ==
    ASSUME Init
    PROVE  FlowInv
<1>1. MaxMessages \in Nat
  BY PageIsPositive
<1>2. Closed \in Chat
  BY <1>1 DEF Closed, Chat
<1> QED
  BY <1>1, <1>2 DEF Init, FlowInv, TypeOK, RequestsFollowRows, Messages, Closed

\* One lemma for all that a client does: its chat stays a chat of visible rows.
LEMMA ChatStep ==
    ASSUME FlowInv, UNCHANGED Others, NEW p \in Sides, NEW chat \in Chat,
           chat.view \subseteq rows, client' = [client EXCEPT ![p] = chat]
    PROVE  FlowInv'
<1>1. client' \in [Sides -> Chat] /\ \A q \in Sides : client'[q].view \subseteq rows
  BY DEF FlowInv, TypeOK
<1> QED
  BY <1>1 DEF FlowInv, TypeOK, RequestsFollowRows, Others, Messages

\* What Show stores is a chat of visible rows.
LEMMA ShownIsVisible ==
    ASSUME FlowInv, NEW p \in Sides, NEW found \in SUBSET rows, Show(p, found)
    PROVE  \E chat \in Chat :
              /\ chat.view = client[p].view \union Page(found) /\ chat.view \subseteq rows
              /\ chat.in = client[p].in /\ chat.loaded = TRUE
              /\ chat.oldest = IF found = {} THEN client[p].oldest ELSE Min(Page(found))
              /\ chat.more = HasMore(found)
              /\ client' = [client EXCEPT ![p] = chat]
<1> DEFINE chat == Shown(client[p], found)
<1>1. client[p] \in Chat /\ client[p].view \subseteq rows
  BY DEF FlowInv, TypeOK
<1>2. rows \subseteq 1..MaxMessages /\ Page(found) \subseteq rows /\ MaxMessages \in Nat
  BY RowsAreFinite, PageIsPositive DEF Page
<1>3. found # {} => Min(Page(found)) \in 1..MaxMessages + 1
  <2>1. found # {} => Min(Page(found)) \in Page(found)
    BY PageIsTheNewest
  <2>2. Page(found) \subseteq 1..MaxMessages /\ MaxMessages \in Nat
    BY <1>2, Zenon
  <2> QED
    BY <2>1, <2>2
<1>4. HasMore(found) \in BOOLEAN
  BY DEF HasMore
<1>5. /\ chat.view = client[p].view \union Page(found)
      /\ chat.in = client[p].in /\ chat.loaded = TRUE
      /\ chat.oldest = IF found = {} THEN client[p].oldest ELSE Min(Page(found))
      /\ chat.more = HasMore(found)
  BY <1>1 DEF Chat, Shown
<1>6. chat \in Chat /\ chat.view \subseteq rows
  BY <1>1, <1>2, <1>3, <1>4 DEF Chat, Shown
<1>7. client' = [client EXCEPT ![p] = chat]
  BY DEF Show
<1> HIDE DEF chat
<1> QED
  BY <1>5, <1>6, <1>7

LEMMA FlowStep ==
    ASSUME FlowInv, [Next]_vars
    PROVE  FlowInv'
<1> USE DEF FlowInv
<1>t. MaxMessages \in Nat /\ Len(author) \in Nat /\ rows \subseteq 1..MaxMessages
  <2>1. MaxMessages \in Nat /\ Len(author) \in Nat
    BY PageIsPositive DEF TypeOK
  <2>2. rows \in SUBSET (1..MaxMessages)
    BY RowsAreFinite
  <2> QED
    BY <2>1, <2>2, Zenon
<1>n. rows \subseteq 0..MaxMessages /\ rows \subseteq Nat
  BY <1>t
<1>1. ASSUME NEW s \in Slots, NEW by \in Sides, PostBegin(s, by) PROVE FlowInv'
  <2>1. author \in Seq(Sides) /\ author' = Append(author, by)
    BY <1>1 DEF PostBegin, TypeOK
  <2>2. /\ author' \in Seq(Sides) /\ Len(author') = Len(author) + 1
        /\ Messages' = Messages \union {Len(author) + 1}
        /\ \A i \in Messages : author'[i] = author[i]
        /\ author'[Len(author) + 1] = by
    BY <2>1, MessagesStay
  <2> DEFINE r == [op |-> "post", at |-> "create", by |-> by, m |-> Len(author) + 1]
  <2>3. r \in Post /\ Len(author') <= MaxMessages
    BY <1>1, <1>t, <2>2 DEF PostBegin, Post
  <2>4. req' = [req EXCEPT ![s] = r] /\ r # Idle
    BY <1>1 DEF PostBegin, Idle
  <2>5. TypeOK'
    BY <1>1, <2>2, <2>3, <2>4 DEF PostBegin, TypeOK
  <2>6. RequestsFollowRows'
    <3> SUFFICES ASSUME NEW q \in Slots, req'[q] # Idle
                 PROVE  /\ req'[q].m \in Messages'
                        /\ req'[q].op = "read" \/ req'[q].at = "emit" => req'[q].m \in rows'
                        /\ req'[q].op = "post" => author'[req'[q].m] = req'[q].by
                        /\ req'[q].op = "read" => author'[req'[q].m] # req'[q].by
      BY DEF RequestsFollowRows
    <3>1. CASE q = s
      BY <3>1, <2>2, <2>4 DEF TypeOK
    <3>2. CASE q # s
      <4>1. req'[q] = req[q] /\ rows' = rows
        BY <3>2, <2>4, <1>1 DEF TypeOK, PostBegin
      <4>2. /\ req[q].m \in Messages
            /\ req[q].op = "read" \/ req[q].at = "emit" => req[q].m \in rows
            /\ req[q].op = "post" => author[req[q].m] = req[q].by
            /\ req[q].op = "read" => author[req[q].m] # req[q].by
        BY <4>1 DEF RequestsFollowRows
      <4> QED
        BY <4>1, <4>2, <2>2
    <3> QED
      BY <3>1, <3>2
  <2> QED
    BY <2>3, <2>5, <2>6
<1>2. ASSUME NEW s \in Slots, NEW by \in Sides, ReadFind(s, by) PROVE FlowInv'
  <2>1. Pending(by) \in SUBSET (0..MaxMessages) /\ Pending(by) # {} /\ Pending(by) \subseteq rows
    BY <1>2, <1>n, Zenon DEF ReadFind, Pending
  <2>2. Max(Pending(by)) \in Pending(by)
    BY <2>1, <1>t, MaxIsLargest
  <2> DEFINE r == [op |-> "read", at |-> "mark", by |-> by, m |-> Max(Pending(by))]
  <2>3. r \in Read /\ r # Idle /\ r.m \in rows /\ author[r.m] # by
    BY <2>1, <2>2, <1>t DEF Read, Idle, Pending
  <2>4. req' = [req EXCEPT ![s] = r]
    BY <1>2 DEF ReadFind
  <2> HIDE DEF r
  <2>5. TypeOK'
    BY <1>2, <2>3, <2>4 DEF ReadFind, TypeOK, Messages
  <2>6. r.op = "read" /\ r.by = by
    BY DEF r
  <2> QED
    BY <1>2, <2>3, <2>4, <2>5, <2>6 DEF ReadFind, TypeOK, RequestsFollowRows, Messages
<1>3. ASSUME NEW s \in Slots, PostCommit(s) PROVE FlowInv'
  <2>1. req[s] \in Post /\ req[s].m \in Messages /\ author[req[s].m] = req[s].by
    BY <1>3, RequestFields DEF PostCommit
  <2> DEFINE r == [req[s] EXCEPT !.at = "emit"]
  <2>2. /\ r \in Post /\ r # Idle /\ r.m = req[s].m /\ r.op = "post" /\ r.by = req[s].by
    BY <2>1 DEF Post, Idle
  <2>3. req' = [req EXCEPT ![s] = r]
    BY <1>3 DEF PostCommit
  <2> HIDE DEF r
  <2>4. TypeOK'
    BY <1>3, <2>1, <2>2, <2>3 DEF PostCommit, TypeOK, Messages
  <2> QED
    BY <1>3, <2>1, <2>2, <2>3, <2>4 DEF PostCommit, TypeOK, RequestsFollowRows, Messages
<1>4. ASSUME NEW s \in Slots, PostEmit(s) PROVE FlowInv'
  <2>1. req[s].m \in rows
    BY <1>4, RequestFields DEF PostEmit
  <2>2. /\ client' \in [Sides -> Chat] /\ \A p \in Sides : client'[p].view \subseteq rows
    BY <1>4, <2>1, <1>t DEF PostEmit, TypeOK, Chat
  <2> QED
    BY <1>4, <2>2 DEF PostEmit, Finish, TypeOK, RequestsFollowRows, Messages
<1>5. ASSUME NEW s \in Slots, ReadMark(s) PROVE FlowInv'
  <2>1. req[s] \in Read /\ req[s].m \in Messages /\ req[s].m \in rows /\ author[req[s].m] # req[s].by
    BY <1>5, RequestFields DEF ReadMark
  <2> DEFINE r == [req[s] EXCEPT !.at = "emit"]
  <2>2. /\ r \in Read /\ r # Idle /\ r.m = req[s].m /\ r.op = "read" /\ r.by = req[s].by
    BY <2>1 DEF Read, Idle
  <2>3. req' = [req EXCEPT ![s] = r]
    BY <1>5 DEF ReadMark
  <2> HIDE DEF r
  <2>4. TypeOK'
    BY <1>5, <2>1, <2>2, <2>3 DEF ReadMark, TypeOK, Messages, Pending
  <2> QED
    BY <1>5, <2>1, <2>2, <2>3, <2>4 DEF ReadMark, TypeOK, RequestsFollowRows, Messages
<1>r. ASSUME NEW s \in Slots, At(s, "read", "emit") PROVE Reached(s) \in [Sides -> {0} \union rows]
  <2>1. req[s].m \in rows /\ req[s].by \in Sides
    BY <1>r, RequestFields
  <2>2. receipts[req[s].by] \in {0} \union rows
    BY <2>1 DEF TypeOK
  <2>3. Max({receipts[req[s].by], req[s].m}) \in {receipts[req[s].by], req[s].m}
    BY <2>1, <2>2, <1>n, MaxOfTwo
  <2> QED
    BY <2>1, <2>2, <2>3 DEF Reached, TypeOK
<1>6. ASSUME NEW s \in Slots, ReadEmit(s) PROVE FlowInv'
  BY <1>6, <1>r DEF ReadEmit, Finish, TypeOK, RequestsFollowRows, Messages
<1>7. ASSUME NEW s \in Slots, ReqFail(s) PROVE FlowInv'
  <2>1. At(s, "post", "emit") => req[s].m \in rows
    BY RequestFields
  <2>2. dropped' \subseteq rows /\ receipts' \in [Sides -> {0} \union rows]
    BY <1>7, <2>1, <1>r DEF ReqFail, TypeOK
  <2> QED
    BY <1>7, <2>2 DEF ReqFail, Finish, TypeOK, RequestsFollowRows, Messages
<1>8. ASSUME NEW p \in Sides, Subscribe(p) PROVE FlowInv'
  <2> DEFINE chat == [client[p] EXCEPT !.in = TRUE]
  <2>1. chat \in Chat /\ chat.view \subseteq rows
    BY DEF TypeOK, Chat
  <2>2. client' = [client EXCEPT ![p] = chat]
    BY <1>8 DEF Subscribe
  <2> HIDE DEF chat
  <2> QED
    BY <1>8, <2>1, <2>2, ChatStep DEF Subscribe
<1>9. ASSUME NEW p \in Sides, LoadNewest(p) \/ LoadOlder(p) PROVE FlowInv'
  <2>1. PICK found \in SUBSET rows : Show(p, found)
    BY <1>9 DEF LoadNewest, LoadOlder
  <2>2. PICK chat \in Chat : chat.view \subseteq rows /\ client' = [client EXCEPT ![p] = chat]
    BY <2>1, ShownIsVisible
  <2> QED
    BY <1>9, <2>2, ChatStep DEF LoadNewest, LoadOlder
<1>10. ASSUME NEW p \in Sides, Leave(p) PROVE FlowInv'
  <2>1. Closed \in Chat /\ Closed.view \subseteq rows
    BY <1>t DEF Closed, Chat
  <2> QED
    BY <1>10, <2>1, ChatStep DEF Leave
<1>11. CASE UNCHANGED vars
  BY <1>11 DEF vars, TypeOK, RequestsFollowRows, Messages
<1> QED
  BY <1>1, <1>2, <1>3, <1>4, <1>5, <1>6, <1>7, <1>8, <1>9, <1>10, <1>11 DEF Next

\* Every reachable state of Threads is well typed (messages.js:81-175).
THEOREM Typing == Spec => []TypeOK
<1>1. Spec => []FlowInv
  BY FlowInit, FlowStep, PTL DEF Spec
<1>2. FlowInv => TypeOK
  BY DEF FlowInv
<1> QED
  BY <1>1, <1>2, PTL

-----------------------------------------------------------------------------
(* No hole between the pages and the room *)

\* Steps that leave the rows and the chats alone leave no new hole as long as
\* no emit is forgotten.
LEMMA NoNewHole ==
    ASSUME NothingMissed, rows' = rows, client' = client, dropped \subseteq dropped',
           NEW s \in Slots,
           \A q \in Slots \ {s} : req'[q] = req[q],
           At(s, "post", "emit") => req[s].m \in dropped'
    PROVE  NothingMissed'
<1> SUFFICES ASSUME NEW p \in Sides, client'[p].loaded,
                    NEW i \in rows', i >= client'[p].oldest \/ ~client'[p].more
             PROVE  \/ i \in client'[p].view \union dropped'
                    \/ \E q \in Slots : At(q, "post", "emit")' /\ req'[q].m = i
  BY DEF NothingMissed
<1>1. CASE i \in client[p].view \union dropped
  BY <1>1
<1>2. CASE \E q \in Slots : At(q, "post", "emit") /\ req[q].m = i
  <2>1. PICK q \in Slots : At(q, "post", "emit") /\ req[q].m = i
    BY <1>2
  <2>2. CASE q = s
    BY <2>1, <2>2
  <2>3. CASE q # s
    BY <2>1, <2>3 DEF At
  <2> QED
    BY <2>2, <2>3
<1> QED
  BY <1>1, <1>2 DEF NothingMissed

\* A page leaves no hole: what it does not show is older than its cursor.
LEMMA PageLeavesNoHole ==
    ASSUME HistoryInv, NEW p \in Sides, LoadNewest(p) \/ LoadOlder(p)
    PROVE  NothingMissed'
<1>1. PICK found \in SUBSET rows :
         /\ Show(p, found)
         /\ client[p].loaded => found = {i \in rows : i < client[p].oldest}
         /\ ~client[p].loaded => found = rows
  BY DEF LoadNewest, LoadOlder
<1>2. FlowInv
  BY DEF HistoryInv
<1>3. PICK chat \in Chat :
         /\ chat.view = client[p].view \union Page(found)
         /\ chat.oldest = IF found = {} THEN client[p].oldest ELSE Min(Page(found))
         /\ chat.more = HasMore(found)
         /\ client' = [client EXCEPT ![p] = chat]
  <2>1. Show(p, found)
    BY <1>1
  <2> QED
    BY <2>1, <1>2, ShownIsVisible, Zenon
<1>4. rows' = rows /\ req' = req /\ dropped' = dropped /\ client \in [Sides -> Chat]
  BY <1>2 DEF LoadNewest, LoadOlder, Others, FlowInv, TypeOK
<1>5. found # {} => /\ \A i \in found : i >= Min(Page(found)) => i \in Page(found)
                    /\ ~HasMore(found) => Page(found) = found
  BY <1>2, PageIsTheNewest
<1>6. \A i \in rows : i \in Nat /\ client[p].oldest \in Nat
  <2>1. rows \in SUBSET (1..MaxMessages) /\ MaxMessages \in Nat
    BY <1>2, RowsAreFinite, PageIsPositive
  <2>2. client[p].oldest \in 1..MaxMessages + 1
    BY <1>4 DEF Chat
  <2> QED
    BY <2>1, <2>2
<1> SUFFICES ASSUME NEW q \in Sides, client'[q].loaded,
                    NEW i \in rows, i >= client'[q].oldest \/ ~client'[q].more
             PROVE  \/ i \in client'[q].view \union dropped
                    \/ \E s \in Slots : At(s, "post", "emit") /\ req[s].m = i
  BY <1>4 DEF NothingMissed, At
<1>7. CASE q # p
  BY <1>7, <1>3, <1>4 DEF HistoryInv, NothingMissed
<1>8. CASE q = p
  <2>1. client'[q] = chat
    BY <1>3, <1>4, <1>8
  <2>2. CASE i \in found
    <3>1. i \in Page(found)
      BY <1>3, <1>5, <2>1, <2>2
    <3> QED
      BY <3>1, <2>1, <1>3
  <2>3. CASE i \notin found
    <3>1. client[p].loaded /\ i >= client[p].oldest
      BY <1>1, <1>6, <2>3
    <3>2. \/ i \in client[p].view \union dropped
          \/ \E s \in Slots : At(s, "post", "emit") /\ req[s].m = i
      BY <3>1 DEF HistoryInv, NothingMissed
    <3> QED
      BY <3>2, <2>1, <1>3
  <2> QED
    BY <2>2, <2>3
<1> QED
  BY <1>7, <1>8

LEMMA HistoryInit ==
    ASSUME Init
    PROVE  HistoryInv
BY FlowInit DEF Init, HistoryInv, LoadedIsIn, NothingMissed, Closed

LEMMA HistoryStep ==
    ASSUME HistoryInv, [Next]_vars
    PROVE  HistoryInv'
<1> USE DEF HistoryInv
<1>f. FlowInv'
  BY FlowStep
<1>c. client \in [Sides -> Chat] /\ req \in [Slots -> {Idle} \union Post \union Read]
  BY DEF FlowInv, TypeOK
<1>1. ASSUME NEW s \in Slots, NEW by \in Sides, PostBegin(s, by) \/ ReadFind(s, by) PROVE HistoryInv'
  <2>1. /\ rows' = rows /\ client' = client /\ dropped' = dropped /\ req[s] = Idle
        /\ \A q \in Slots \ {s} : req'[q] = req[q]
    BY <1>1, <1>c DEF PostBegin, ReadFind
  <2>2. ~At(s, "post", "emit")
    BY <2>1 DEF At
  <2>3. NothingMissed'
    BY <2>1, <2>2, NoNewHole
  <2> QED
    BY <1>f, <2>1, <2>3 DEF LoadedIsIn
<1>2. ASSUME NEW s \in Slots, PostCommit(s) PROVE HistoryInv'
  <2>1. req[s] \in Post /\ At(s, "post", "create")
    BY <1>2, RequestFields DEF PostCommit
  <2>2. /\ req' = [req EXCEPT ![s] = [req[s] EXCEPT !.at = "emit"]]
        /\ rows' = rows \union {req[s].m} /\ client' = client /\ dropped' = dropped
    BY <1>2 DEF PostCommit
  <2>3. At(s, "post", "emit")' /\ req'[s].m = req[s].m
    BY <2>1, <2>2, <1>c DEF At, Post, Idle
  <2>4. \A q \in Slots \ {s} : req'[q] = req[q]
    BY <2>2, <1>c
  <2>5. ~At(s, "post", "emit")
    BY <2>1 DEF At
  <2>6. NothingMissed'
    <3> SUFFICES ASSUME NEW p \in Sides, client[p].loaded, NEW i \in rows',
                        i >= client[p].oldest \/ ~client[p].more
                 PROVE  \/ i \in client[p].view \union dropped
                        \/ \E q \in Slots : At(q, "post", "emit")' /\ req'[q].m = i
      BY <2>2 DEF NothingMissed
    <3>1. CASE i = req[s].m
      BY <3>1, <2>3
    <3>2. CASE i \in rows /\ i \notin client[p].view \union dropped
      <4>1. PICK q \in Slots : At(q, "post", "emit") /\ req[q].m = i
        BY <3>2 DEF NothingMissed
      <4> QED
        BY <4>1, <2>4, <2>5 DEF At
    <3> QED
      BY <2>2, <3>1, <3>2
  <2> QED
    BY <1>f, <2>2, <2>6 DEF LoadedIsIn
<1>3. ASSUME NEW s \in Slots, PostEmit(s) PROVE HistoryInv'
  <2>1. /\ client' = [p \in Sides |-> IF client[p].in
                                      THEN [client[p] EXCEPT !.view = @ \union {req[s].m}]
                                      ELSE client[p]]
        /\ req' = [req EXCEPT ![s] = Idle] /\ rows' = rows /\ dropped' = dropped
    BY <1>3 DEF PostEmit, Finish
  <2>2. \A p \in Sides : /\ client'[p].in = client[p].in /\ client'[p].loaded = client[p].loaded
                         /\ client'[p].oldest = client[p].oldest /\ client'[p].more = client[p].more
                         /\ client[p].view \subseteq client'[p].view
                         /\ client[p].in => req[s].m \in client'[p].view
    BY <2>1, <1>c DEF Chat
  <2>3. NothingMissed'
    <3> SUFFICES ASSUME NEW p \in Sides, client[p].loaded, NEW i \in rows,
                        i >= client[p].oldest \/ ~client[p].more
                 PROVE  \/ i \in client'[p].view \union dropped
                        \/ \E q \in Slots : At(q, "post", "emit")' /\ req'[q].m = i
      BY <2>1, <2>2 DEF NothingMissed
    <3>1. CASE i \in client[p].view \union dropped
      BY <3>1, <2>2
    <3>2. CASE i \notin client[p].view \union dropped
      <4>1. PICK q \in Slots : At(q, "post", "emit") /\ req[q].m = i
        BY <3>2 DEF NothingMissed
      <4>2. CASE q = s
        BY <4>1, <4>2, <2>2 DEF LoadedIsIn
      <4>3. CASE q # s
        BY <4>1, <4>3, <2>1, <1>c DEF At
      <4> QED
        BY <4>2, <4>3
    <3> QED
      BY <3>1, <3>2
  <2> QED
    BY <1>f, <2>2, <2>3 DEF LoadedIsIn
<1>4. ASSUME NEW s \in Slots, ReadMark(s) \/ ReadEmit(s) PROVE HistoryInv'
  <2>1. /\ rows' = rows /\ client' = client /\ dropped' = dropped
        /\ \A q \in Slots \ {s} : req'[q] = req[q]
    BY <1>4, <1>c DEF ReadMark, ReadEmit, Finish
  <2>2. ~At(s, "post", "emit")
    BY <1>4 DEF ReadMark, ReadEmit, At
  <2>3. NothingMissed'
    BY <2>1, <2>2, NoNewHole
  <2> QED
    BY <1>f, <2>1, <2>3 DEF LoadedIsIn
<1>5. ASSUME NEW s \in Slots, ReqFail(s) PROVE HistoryInv'
  <2>1. /\ rows' = rows /\ client' = client /\ dropped \subseteq dropped'
        /\ \A q \in Slots \ {s} : req'[q] = req[q]
        /\ At(s, "post", "emit") => req[s].m \in dropped'
    BY <1>5, <1>c DEF ReqFail, Finish
  <2>2. NothingMissed'
    BY <2>1, NoNewHole
  <2> QED
    BY <1>f, <2>1, <2>2 DEF LoadedIsIn
<1>6. ASSUME NEW p \in Sides, Subscribe(p) \/ Leave(p) PROVE HistoryInv'
  <2>1. /\ rows' = rows /\ req' = req /\ dropped' = dropped
        /\ \A q \in Sides \ {p} : client'[q] = client[q]
        /\ ~client'[p].loaded
    BY <1>6, <1>c DEF Subscribe, Leave, Others, Closed, LoadedIsIn, Chat
  <2>2. NothingMissed' /\ LoadedIsIn'
    BY <2>1 DEF NothingMissed, LoadedIsIn, At
  <2> QED
    BY <1>f, <2>2
<1>7. ASSUME NEW p \in Sides, LoadNewest(p) \/ LoadOlder(p) PROVE HistoryInv'
  <2>1. PICK found \in SUBSET rows : Show(p, found)
    BY <1>7 DEF LoadNewest, LoadOlder
  <2>2. PICK chat \in Chat : chat.in = client[p].in /\ client' = [client EXCEPT ![p] = chat]
    BY <2>1, ShownIsVisible
  <2>3. client[p].in
    BY <1>7 DEF LoadNewest, LoadOlder, LoadedIsIn
  <2>4. LoadedIsIn'
    BY <2>2, <2>3, <1>c DEF LoadedIsIn
  <2>5. NothingMissed'
    BY <1>7, PageLeavesNoHole
  <2> QED
    BY <1>f, <2>4, <2>5
<1>8. CASE UNCHANGED vars
  BY <1>8, <1>f DEF vars, LoadedIsIn, NothingMissed, At
<1> QED
  BY <1>1, <1>2, <1>3, <1>4, <1>5, <1>6, <1>7, <1>8 DEF Next

\* Whatever the page size and the order in which messages commit, a chat that
\* joined the room before it loaded its pages shows every visible message down
\* to its cursor, but for those still to be emitted or never emitted
\* (messages.js:89-105, 119-140).
THEOREM NoHoles == Spec => []NothingMissed
<1>1. Spec => []HistoryInv
  BY HistoryInit, HistoryStep, PTL DEF Spec
<1>2. HistoryInv => NothingMissed
  BY DEF HistoryInv
<1> QED
  BY <1>1, <1>2, PTL

-----------------------------------------------------------------------------
(* Receipts *)

\* What Max makes of a reader's receipts reaches as far as before and as far
\* as the message just announced.
LEMMA ReceiptsGrow ==
    ASSUME FlowInv, NEW s \in Slots, At(s, "read", "emit")
    PROVE  /\ \A p \in Sides : Reached(s)[p] \in Nat /\ Reached(s)[p] >= receipts[p]
           /\ Reached(s)[req[s].by] >= req[s].m
           /\ receipts \in [Sides -> Nat] /\ req[s].by \in Sides /\ req[s].m \in Nat
<1>1. MaxMessages \in Nat /\ rows \in SUBSET (1..MaxMessages)
  BY PageIsPositive, RowsAreFinite
<1>2. rows \subseteq Nat
  BY <1>1
<1>3. req[s].m \in Nat /\ req[s].by \in Sides
  BY <1>2, RequestFields
<1>4. receipts \in [Sides -> Nat]
  <2>1. receipts \in [Sides -> {0} \union rows] /\ {0} \union rows \subseteq Nat
    BY <1>2 DEF FlowInv, TypeOK
  <2> QED
    BY <2>1
<1> DEFINE far == Max({receipts[req[s].by], req[s].m})
<1>5. /\ far \in Nat /\ far >= receipts[req[s].by] /\ far >= req[s].m
  BY <1>3, <1>4, MaxOfTwo
<1>6. Reached(s) = [receipts EXCEPT ![req[s].by] = far]
  BY DEF Reached
<1> HIDE DEF far
<1> QED
  BY <1>3, <1>4, <1>5, <1>6

LEMMA ReceiptInit ==
    ASSUME Init
    PROVE  ReceiptInv
BY FlowInit DEF Init, ReceiptInv, MarkersReach, ReceiptsCoverReads, At

LEMMA ReceiptStep ==
    ASSUME ReceiptInv, [Next]_vars
    PROVE  ReceiptInv'
<1> USE DEF ReceiptInv
<1>f. FlowInv'
  BY FlowStep
<1>c. /\ req \in [Slots -> {Idle} \union Post \union Read]
      /\ rows \subseteq Messages /\ read \subseteq rows /\ author \in Seq(Sides)
  BY DEF FlowInv, TypeOK
<1>n. rows \subseteq Nat
  BY <1>c DEF Messages
<1>1. ASSUME NEW s \in Slots, NEW by \in Sides, PostBegin(s, by) PROVE ReceiptInv'
  <2>1. /\ rows' = rows /\ read' = read /\ late' = late /\ receipts' = receipts /\ req[s] = Idle
        /\ \A q \in Slots \ {s} : req'[q] = req[q]
        /\ ~At(s, "read", "mark")' /\ ~At(s, "read", "emit")'
        /\ author' = Append(author, by)
    BY <1>1, <1>c DEF PostBegin, At
  <2>2. \A i \in rows : author'[i] = author[i]
    BY <2>1, <1>c, MessagesStay
  <2>3. MarkersReach'
    BY <2>1, <2>2 DEF MarkersReach, At, Pending
  <2>4. ReceiptsCoverReads'
    <3> SUFFICES ASSUME NEW i \in read \ late
                 PROVE  \/ \E p \in Sides \ {author[i]} : receipts[p] >= i
                        \/ \E q \in Slots : At(q, "read", "emit")' /\ req'[q].by # author[i] /\ req'[q].m >= i
      BY <2>1, <2>2, <1>c DEF ReceiptsCoverReads
    <3>1. CASE \E q \in Slots : At(q, "read", "emit") /\ req[q].by # author[i] /\ req[q].m >= i
      BY <3>1, <2>1 DEF At
    <3> QED
      BY <3>1 DEF ReceiptsCoverReads
  <2> QED
    BY <1>f, <2>3, <2>4
<1>2. ASSUME NEW s \in Slots, NEW by \in Sides, ReadFind(s, by) PROVE ReceiptInv'
  <2>1. /\ UNCHANGED <<rows, read, late, receipts, author>> /\ req[s] = Idle
        /\ \A q \in Slots \ {s} : req'[q] = req[q]
        /\ req'[s] = [op |-> "read", at |-> "mark", by |-> by, m |-> Max(Pending(by))]
        /\ Pending(by) # {}
    BY <1>2, <1>c DEF ReadFind
  <2>2. Max(Pending(by)) \in Pending(by) /\ \A i \in Pending(by) : Max(Pending(by)) >= i
    <3>1. Pending(by) \in SUBSET (0..MaxMessages) /\ MaxMessages \in Nat
      <4>1. Pending(by) \in SUBSET rows
        BY DEF Pending
      <4> QED
        BY <4>1, RowsAreFinite, PageIsPositive
    <3> QED
      BY <2>1, <3>1, MaxIsLargest
  <2>3. \A i \in Pending(by) : ~(i > Max(Pending(by)))
    <3>1. Pending(by) \subseteq Nat
      BY <1>n, Zenon DEF Pending
    <3> DEFINE m == Max(Pending(by))
    <3>2. m \in Nat
      BY <2>2, <3>1
    <3> HIDE DEF m
    <3>3. \A i \in Pending(by) : m >= i
      BY <2>2 DEF m
    <3>4. \A i \in Pending(by) : ~(i > m)
      BY <3>1, <3>2, <3>3
    <3> QED
      BY <3>4 DEF m
  <2>4. MarkersReach'
    <3> SUFFICES ASSUME NEW q \in Slots, At(q, "read", "mark")',
                        NEW i \in Pending(req'[q].by), i > req'[q].m
                 PROVE  i \in late
      BY <2>1 DEF MarkersReach, Pending
    <3>1. CASE q = s
      BY <3>1, <2>1, <2>3
    <3>2. CASE q # s
      BY <3>2, <2>1 DEF MarkersReach, At
    <3> QED
      BY <3>1, <3>2
  <2>5. ReceiptsCoverReads'
    <3> SUFFICES ASSUME NEW i \in read \ late
                 PROVE  \/ \E p \in Sides \ {author[i]} : receipts[p] >= i
                        \/ \E q \in Slots : At(q, "read", "emit")' /\ req'[q].by # author[i] /\ req'[q].m >= i
      BY <2>1 DEF ReceiptsCoverReads
    <3>1. CASE \E q \in Slots : At(q, "read", "emit") /\ req[q].by # author[i] /\ req[q].m >= i
      BY <3>1, <2>1 DEF At
    <3> QED
      BY <3>1 DEF ReceiptsCoverReads
  <2> QED
    BY <1>f, <2>4, <2>5
<1>3. ASSUME NEW s \in Slots, PostCommit(s) PROVE ReceiptInv'
  <2>1. /\ UNCHANGED <<read, receipts, author>> /\ rows' = rows \union {req[s].m}
        /\ req' = [req EXCEPT ![s] = [req[s] EXCEPT !.at = "emit"]]
        /\ late \subseteq late'
        /\ (\E r \in Slots : At(r, "read", "mark") /\ req[r].by # req[s].by) => req[s].m \in late'
    BY <1>3 DEF PostCommit
  <2>2. req[s] \in Post /\ author[req[s].m] = req[s].by
    BY <1>3, RequestFields DEF PostCommit
  <2>3. /\ \A q \in Slots \ {s} : req'[q] = req[q]
        /\ ~At(s, "read", "mark")' /\ ~At(s, "read", "emit")
    BY <2>1, <2>2, <1>c DEF At, Post
  <2>4. MarkersReach'
    <3> SUFFICES ASSUME NEW q \in Slots, At(q, "read", "mark")',
                        NEW i \in rows' \ read, author[i] # req'[q].by, i > req'[q].m
                 PROVE  i \in late'
      BY <2>1 DEF MarkersReach, Pending
    <3>1. q # s /\ req'[q] = req[q] /\ At(q, "read", "mark")
      BY <2>3 DEF At
    <3>2. CASE i = req[s].m
      BY <3>1, <3>2, <2>1, <2>2
    <3>3. CASE i \in rows
      BY <3>1, <3>3, <2>1 DEF MarkersReach, Pending
    <3> QED
      BY <2>1, <3>2, <3>3
  <2>5. ReceiptsCoverReads'
    <3> SUFFICES ASSUME NEW i \in read \ late
                 PROVE  \/ \E p \in Sides \ {author[i]} : receipts[p] >= i
                        \/ \E q \in Slots : At(q, "read", "emit")' /\ req'[q].by # author[i] /\ req'[q].m >= i
      BY <2>1 DEF ReceiptsCoverReads
    <3>1. CASE \E q \in Slots : At(q, "read", "emit") /\ req[q].by # author[i] /\ req[q].m >= i
      <4>1. PICK q \in Slots : At(q, "read", "emit") /\ req[q].by # author[i] /\ req[q].m >= i
        BY <3>1
      <4>2. q # s /\ req'[q] = req[q] /\ At(q, "read", "emit")'
        BY <4>1, <2>3 DEF At
      <4> QED
        BY <4>1, <4>2
    <3> QED
      BY <3>1 DEF ReceiptsCoverReads
  <2> QED
    BY <1>f, <2>4, <2>5
<1>4. ASSUME NEW s \in Slots, PostEmit(s) PROVE ReceiptInv'
  <2>1. /\ UNCHANGED <<rows, read, late, receipts, author>>
        /\ \A q \in Slots \ {s} : req'[q] = req[q]
        /\ req'[s] = Idle /\ ~At(s, "read", "emit")
    BY <1>4, <1>c DEF PostEmit, Finish, At
  <2>2. MarkersReach'
    BY <2>1 DEF MarkersReach, At, Pending
  <2>3. ReceiptsCoverReads'
    <3> SUFFICES ASSUME NEW i \in read \ late
                 PROVE  \/ \E p \in Sides \ {author[i]} : receipts[p] >= i
                        \/ \E q \in Slots : At(q, "read", "emit")' /\ req'[q].by # author[i] /\ req'[q].m >= i
      BY <2>1 DEF ReceiptsCoverReads
    <3>1. CASE \E q \in Slots : At(q, "read", "emit") /\ req[q].by # author[i] /\ req[q].m >= i
      <4>1. PICK q \in Slots : At(q, "read", "emit") /\ req[q].by # author[i] /\ req[q].m >= i
        BY <3>1
      <4>2. q # s /\ req'[q] = req[q] /\ At(q, "read", "emit")'
        BY <4>1, <2>1 DEF At
      <4> QED
        BY <4>1, <4>2
    <3> QED
      BY <3>1 DEF ReceiptsCoverReads
  <2> QED
    BY <1>f, <2>2, <2>3
<1>5. ASSUME NEW s \in Slots, ReadMark(s) PROVE ReceiptInv'
  <2>1. /\ UNCHANGED <<rows, late, receipts, author>> /\ read' = read \union Pending(req[s].by)
        /\ req' = [req EXCEPT ![s] = [req[s] EXCEPT !.at = "emit"]]
    BY <1>5 DEF ReadMark
  <2>2. At(s, "read", "mark") /\ req[s] \in Read /\ req[s].m \in rows
    BY <1>5, RequestFields DEF ReadMark
  <2>3. /\ \A q \in Slots \ {s} : req'[q] = req[q]
        /\ ~At(s, "read", "mark")' /\ At(s, "read", "emit")' /\ ~At(s, "read", "emit")
        /\ req'[s].by = req[s].by /\ req'[s].m = req[s].m
    BY <2>1, <2>2, <1>c DEF At, Read, Idle
  <2>4. MarkersReach'
    BY <2>1, <2>3 DEF MarkersReach, At, Pending
  <2>5. ReceiptsCoverReads'
    <3> SUFFICES ASSUME NEW i \in read' \ late
                 PROVE  \/ \E p \in Sides \ {author[i]} : receipts[p] >= i
                        \/ \E q \in Slots : At(q, "read", "emit")' /\ req'[q].by # author[i] /\ req'[q].m >= i
      BY <2>1 DEF ReceiptsCoverReads
    <3>1. CASE i \in Pending(req[s].by)
      <4>1. author[i] # req[s].by /\ ~(i > req[s].m)
        BY <3>1, <2>2 DEF MarkersReach, Pending
      <4>2. i \in Nat /\ req[s].m \in Nat
        BY <3>1, <2>2, <1>n DEF Pending
      <4>3. req[s].m >= i
        BY <4>1, <4>2
      <4> QED
        BY <4>1, <4>3, <2>3
    <3>2. CASE i \in read /\ \E q \in Slots : At(q, "read", "emit") /\ req[q].by # author[i] /\ req[q].m >= i
      <4>1. PICK q \in Slots : At(q, "read", "emit") /\ req[q].by # author[i] /\ req[q].m >= i
        BY <3>2
      <4>2. q # s /\ req'[q] = req[q] /\ At(q, "read", "emit")'
        BY <4>1, <2>3 DEF At
      <4> QED
        BY <4>1, <4>2
    <3> QED
      BY <3>1, <3>2, <2>1 DEF ReceiptsCoverReads
  <2> QED
    BY <1>f, <2>4, <2>5
<1>6. ASSUME NEW s \in Slots, ReadEmit(s) \/ ReqFail(s) PROVE ReceiptInv'
  <2>1. /\ UNCHANGED <<rows, read, late, author>>
        /\ \A q \in Slots \ {s} : req'[q] = req[q]
        /\ req'[s] = Idle
        /\ At(s, "read", "emit") => receipts' = Reached(s)
        /\ ~At(s, "read", "emit") => receipts' = receipts
    BY <1>6, <1>c DEF ReadEmit, ReqFail, Finish
  <2>2. MarkersReach'
    BY <2>1 DEF MarkersReach, At, Pending
  <2>3. At(s, "read", "emit") =>
          /\ \A p \in Sides : receipts'[p] \in Nat /\ receipts'[p] >= receipts[p] /\ receipts[p] \in Nat
          /\ receipts'[req[s].by] >= req[s].m /\ req[s].by \in Sides /\ req[s].m \in Nat
    BY <2>1, ReceiptsGrow
  <2>4. ReceiptsCoverReads'
    <3> SUFFICES ASSUME NEW i \in read \ late
                 PROVE  \/ \E p \in Sides \ {author[i]} : receipts'[p] >= i
                        \/ \E q \in Slots : At(q, "read", "emit")' /\ req'[q].by # author[i] /\ req'[q].m >= i
      BY <2>1 DEF ReceiptsCoverReads
    <3>n. i \in Nat
      BY <1>c, <1>n
    <3>1. CASE \E p \in Sides \ {author[i]} : receipts[p] >= i
      <4>1. PICK p \in Sides \ {author[i]} : receipts[p] >= i
        BY <3>1
      <4>2. receipts'[p] >= i
        BY <4>1, <2>1, <2>3, <3>n
      <4> QED
        BY <4>1, <4>2
    <3>2. CASE \E q \in Slots : At(q, "read", "emit") /\ req[q].by # author[i] /\ req[q].m >= i
      <4>1. PICK q \in Slots : At(q, "read", "emit") /\ req[q].by # author[i] /\ req[q].m >= i
        BY <3>2
      <4>2. CASE q = s
        <5>1. receipts'[req[s].by] >= i /\ req[s].by \in Sides \ {author[i]}
          BY <4>1, <4>2, <2>3, <3>n
        <5> QED
          BY <5>1
      <4>3. CASE q # s
        BY <4>1, <4>3, <2>1 DEF At
      <4> QED
        BY <4>2, <4>3
    <3> QED
      BY <3>1, <3>2 DEF ReceiptsCoverReads
  <2> QED
    BY <1>f, <2>2, <2>4
<1>7. ASSUME NEW p \in Sides, Subscribe(p) \/ LoadNewest(p) \/ LoadOlder(p) \/ Leave(p) PROVE ReceiptInv'
  BY <1>7, <1>f DEF Subscribe, LoadNewest, LoadOlder, Leave, Others, MarkersReach, ReceiptsCoverReads, At, Pending
<1>8. CASE UNCHANGED vars
  BY <1>8, <1>f DEF vars, MarkersReach, ReceiptsCoverReads, At, Pending
<1> QED
  BY <1>1, <1>2, <1>3, <1>4, <1>5, <1>6, <1>7, <1>8 DEF Next

\* A message marked read is named or passed by a receipt, sent or about to be
\* sent, unless it came in between the two statements of a read
\* (messages.js:159-175).
THEOREM ReceiptsReachWhatWasRead == Spec => []ReceiptsCoverReads
<1>1. Spec => []ReceiptInv
  BY ReceiptInit, ReceiptStep, PTL DEF Spec
<1>2. ReceiptInv => ReceiptsCoverReads
  BY DEF ReceiptInv
<1> QED
  BY <1>1, <1>2, PTL

=============================================================================
