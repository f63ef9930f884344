-------------------------- MODULE AttachmentsProofs --------------------------
(***************************************************************************)
(* No link outlives its attachment by more than its own life, and no       *)
(* object is left behind unexplained, for any number of attachments and of *)
(* requests that overlap, failures and restarts.                           *)
(***************************************************************************)
EXTENDS Attachments, TLAPS

\* How far a request has come agrees with its row.
RequestsFollowRows ==
    \A h \in Handlers : req[h] # Idle =>
        /\ At(h, "create") <=> row[req[h].key] = "none"
        /\ At(h, "erase") => row[req[h].key] = "removed"

\* While a row is being created no other request knows its key.
KeysApart ==
    \A g, h \in Handlers : g # h /\ At(h, "create") /\ req[g] # Idle => req[g].key # req[h].key

FlowInv == TypeOK /\ RequestsFollowRows /\ KeysApart

\* A request is idle or carries a key.
LEMMA RequestFields ==
    ASSUME TypeOK, NEW h \in Handlers
    PROVE  /\ req[h] # Idle <=> req[h] \in Request
           /\ req[h] # Idle => /\ req[h].key \in Keys /\ req[h].old \in BOOLEAN
                               /\ req[h].at \in {"create", "answer", "url", "row", "erase"}
           /\ Idle.at = "idle"
           /\ req[h].at # "idle" => req[h] # Idle
BY DEF TypeOK, Idle, Request

LEMMA FlowInit == Init => FlowInv
<1> SUFFICES ASSUME Init PROVE FlowInv
    OBVIOUS
<1>1. 0 \in 0..Ttl /\ 0 \in 0..Ttl + 1
    BY TtlIsPositive
<1> QED
    BY <1>1 DEF Init, FlowInv, TypeOK, RequestsFollowRows, KeysApart, At, Idle

\* A request that begins.
LEMMA BeginKeepsFlow ==
    ASSUME FlowInv, NEW h \in Handlers, NEW k \in Keys,
           NEW step \in {"create", "url", "row"}, Begin(h, step, k),
           step = "create" <=> row[k] = "none",
           step = "create" => \A g \in Handlers : req[g] # Idle => req[g].key # k,
           UNCHANGED <<rows, stored, links, erasing, configured, lost, late>>
    PROVE  FlowInv'
<1> DEFINE r == [at |-> step, key |-> k, old |-> FALSE]
<1>1. r \in Request /\ r # Idle
    BY DEF Request, Idle
<1>2. TypeOK'
    BY <1>1 DEF FlowInv, TypeOK, Begin, rows, links
<1>3. req[h] = Idle /\ req'[h] = r /\ \A g \in Handlers \ {h} : req'[g] = req[g]
    BY DEF FlowInv, TypeOK, Begin
<1>4. r.at = step /\ r.key = k
    OBVIOUS
<1>5. RequestsFollowRows'
    BY <1>3, <1>4 DEF FlowInv, RequestsFollowRows, At, rows
<1>6. KeysApart'
    <2> SUFFICES ASSUME NEW g \in Handlers, NEW i \in Handlers, g # i,
                        req'[i].at = "create", req'[g] # Idle
                 PROVE  req'[g].key # req'[i].key
        BY DEF KeysApart, At
    <2>1. CASE g = h
        BY <1>3, <1>4, <2>1, RequestFields DEF FlowInv, RequestsFollowRows, At
    <2>2. CASE i = h
        BY <1>3, <1>4, <2>2
    <2>3. CASE g # h /\ i # h
        BY <1>3, <2>3 DEF FlowInv, KeysApart, At
    <2> QED
        BY <2>1, <2>2, <2>3
<1> QED
    BY <1>2, <1>5, <1>6 DEF FlowInv

\* A request that ends and writes no row.
LEMMA FinishKeepsFlow ==
    ASSUME FlowInv, NEW h \in Handlers, Finish(h), UNCHANGED row, TypeOK'
    PROVE  FlowInv'
BY DEF FlowInv, RequestsFollowRows, KeysApart, Finish, At, Idle, TypeOK

\* The steps of a request that is in flight.
LEMMA HandleKeepsFlow ==
    ASSUME FlowInv, NEW h \in Handlers, Handle(h) \/ ReqFail(h)
    PROVE  FlowInv'
<1> DEFINE k == req[h].key
<1> USE DEF FlowInv, rows, links
<1>0. /\ req[h] # Idle => k \in Keys
      /\ \A g \in Handlers : req[g].at # "idle" => req[g] # Idle /\ req[g].key \in Keys
    BY RequestFields
<1>1. CASE PresignCreate(h)
    <2>1. k \in Keys /\ row[k] = "none" /\ req[h] # Idle
        BY <1>0, <1>1 DEF PresignCreate, RequestsFollowRows, At
    <2>2. /\ row'[k] = "recorded" /\ \A j \in Keys \ {k} : row'[j] = row[j]
          /\ row' \in [Keys -> {"none", "recorded", "removed"}]
        BY <1>1, <2>1 DEF PresignCreate, TypeOK
    <2>3. [req[h] EXCEPT !.at = "answer"] \in Request
        BY <2>1, RequestFields DEF Request
    <2>4. TypeOK'
        BY <1>1, <2>1, <2>2, <2>3 DEF PresignCreate, GoOn, TypeOK
    <2>5. /\ req'[h].at = "answer" /\ req'[h].key = k
          /\ \A g \in Handlers \ {h} : req'[g] = req[g]
        BY <1>1, <2>1, RequestFields DEF PresignCreate, GoOn, TypeOK, Request
    <2>6. \A g \in Handlers \ {h} : req[g] # Idle => req[g].key \in Keys \ {k}
        BY <1>1, RequestFields DEF PresignCreate, KeysApart
    <2>7. RequestsFollowRows'
        BY <2>2, <2>5, <2>6 DEF RequestsFollowRows, At
    <2>8. KeysApart'
        BY <2>1, <2>5, <2>6 DEF KeysApart, At
    <2> QED
        BY <2>4, <2>7, <2>8
<1>2. CASE PresignAnswer(h)
    <2>1. k \in Keys /\ row[k] # "none"
        BY <1>0, <1>2 DEF PresignAnswer, RequestsFollowRows, At
    <2>2. putLeft' \in [Keys -> 0..Ttl] /\ \A j \in Keys : row[j] = "none" => putLeft'[j] = 0
        BY <1>2, <2>1, TtlIsPositive DEF PresignAnswer, TypeOK
    <2>3. TypeOK'
        BY <1>2, <2>2 DEF PresignAnswer, Finish, TypeOK
    <2> QED
        BY <1>2, <2>3, FinishKeepsFlow DEF PresignAnswer
<1>3. CASE UrlSign(h)
    <2>1. k \in Keys /\ row[k] # "none"
        BY <1>0, <1>3 DEF UrlSign, RequestsFollowRows, At
    <2>2. getLeft' \in [Keys -> 0..Ttl] /\ \A j \in Keys : row[j] = "none" => getLeft'[j] = 0
        BY <1>3, <2>1, TtlIsPositive DEF UrlSign, TypeOK
    <2>3. TypeOK'
        BY <1>3, <2>2 DEF UrlSign, Finish, TypeOK
    <2> QED
        BY <1>3, <2>3, FinishKeepsFlow DEF UrlSign
<1>4. CASE RemoveRow(h) /\ Found(k)
    <2>1. k \in Keys /\ req[h] # Idle
        BY <1>0, <1>4 DEF RemoveRow, At
    <2>2. /\ row'[k] = "removed" /\ \A j \in Keys \ {k} : row'[j] = row[j]
          /\ row' \in [Keys -> {"none", "recorded", "removed"}]
        BY <1>4, <2>1 DEF RemoveRow, TypeOK
    <2>3. [req[h] EXCEPT !.at = "erase"] \in Request
        BY <2>1, RequestFields DEF Request
    <2>4. TypeOK'
        BY <1>4, <2>1, <2>2, <2>3 DEF RemoveRow, GoOn, TypeOK, Found
    <2>5. /\ req'[h].at = "erase" /\ req'[h].key = k
          /\ \A g \in Handlers \ {h} : req'[g] = req[g]
        BY <1>4, <2>1, RequestFields DEF RemoveRow, GoOn, TypeOK, Request
    <2>6. RequestsFollowRows'
        BY <1>4, <2>2, <2>5, RequestFields DEF RequestsFollowRows, At, Found
    <2>7. KeysApart'
        BY <2>1, <2>5 DEF KeysApart, At
    <2> QED
        BY <2>4, <2>6, <2>7
<1>5. CASE RemoveRow(h) /\ ~Found(k)
    <2>1. TypeOK'
        BY <1>5 DEF RemoveRow, Finish, TypeOK
    <2> QED
        BY <1>5, <2>1, FinishKeepsFlow DEF RemoveRow
<1>6. CASE SendErase(h) \/ ReqFail(h)
    <2>1. At(h, "erase") => k \in Keys /\ row[k] = "removed"
        BY <1>0 DEF At, RequestsFollowRows
    <2>2. TypeOK'
        BY <1>6, <2>1 DEF SendErase, ReqFail, Finish, TypeOK
    <2> QED
        BY <1>6, <2>2, FinishKeepsFlow DEF SendErase, ReqFail
<1> QED
    BY <1>1, <1>2, <1>3, <1>4, <1>5, <1>6 DEF Handle

LEMMA FlowNext == FlowInv /\ [Next]_vars => FlowInv'
<1> SUFFICES ASSUME FlowInv, [Next]_vars PROVE FlowInv'
    OBVIOUS
<1>1. ASSUME NEW h \in Handlers, NEW k \in Keys, Presign(h, k) \/ UrlRead(h, k) \/ RemoveRead(h, k)
      PROVE  FlowInv'
    BY <1>1, BeginKeepsFlow DEF Presign, UrlRead, RemoveRead, Found
<1>2. ASSUME NEW h \in Handlers, Handle(h) \/ ReqFail(h)
      PROVE  FlowInv'
    BY <1>2, HandleKeepsFlow
<1>3. ASSUME NEW k \in Keys, Erase(k) \/ EraseFail(k) \/ Upload(k)
      PROVE  FlowInv'
    <2>1. TypeOK'
        BY <1>3 DEF FlowInv, TypeOK, Erase, EraseFail, Upload, rows, links
    <2> QED
        BY <1>3, <2>1
           DEF FlowInv, RequestsFollowRows, KeysApart, At, Erase, EraseFail, Upload, rows
<1>4. CASE Restart
    <2>1. \A k \in Keys : Erasable(k) => row[k] = "removed"
        BY RequestFields DEF FlowInv, Erasable, RequestsFollowRows, At
    <2>2. TypeOK'
        BY <1>4, <2>1 DEF FlowInv, TypeOK, Restart, rows, links
    <2> QED
        BY <1>4, <2>2 DEF FlowInv, RequestsFollowRows, KeysApart, At, Restart, Idle
<1>5. CASE Tick
    <2>1. \A h \in Handlers : /\ req'[h] = Idle <=> req[h] = Idle
                              /\ req[h] # Idle => /\ req'[h] \in Request
                                                  /\ req'[h].at = req[h].at
                                                  /\ req'[h].key = req[h].key
        BY <1>5, RequestFields DEF FlowInv, TypeOK, Tick, Request, Idle
    <2>2. /\ putLeft' \in [Keys -> 0..Ttl] /\ getLeft' \in [Keys -> 0..Ttl]
          /\ \A k \in Keys : row[k] = "none" => putLeft'[k] = 0 /\ getLeft'[k] = 0
        BY <1>5, TtlIsPositive DEF FlowInv, TypeOK, Tick, Less
    <2>3. gone' \in [Keys -> 0..Ttl + 1]
        BY <1>5, TtlIsPositive DEF FlowInv, TypeOK, Tick
    <2>4. req' \in [Handlers -> {Idle} \union Request]
        BY <1>5, <2>1 DEF Tick
    <2>5. TypeOK'
        BY <1>5, <2>2, <2>3, <2>4 DEF FlowInv, TypeOK, Tick
    <2>6. row' = row /\ \A h \in Handlers : \A s \in {"create", "erase"} : At(h, s)' <=> At(h, s)
        BY <1>5, <2>1 DEF Tick, At, Idle
    <2> QED
        BY <2>1, <2>5, <2>6 DEF FlowInv, RequestsFollowRows, KeysApart
<1>6. CASE UNCHANGED vars
    BY <1>6 DEF FlowInv, TypeOK, RequestsFollowRows, KeysApart, At, vars, rows, links, Found
<1> QED
    BY <1>1, <1>2, <1>3, <1>4, <1>5, <1>6 DEF Next

\* Every reachable state is well typed: nothing is stored or linked before it
\* is recorded, and nothing is erased before it is removed.
THEOREM Typing == Spec => []TypeOK
<1>1. FlowInv => TypeOK
    BY DEF FlowInv
<1> QED
    BY <1>1, FlowInit, FlowNext, PTL DEF Spec

-----------------------------------------------------------------------------

\* A link of a removed attachment ends within its own life after the removal:
\* one tick later at most if it was signed from a row read before.
LinksRunOut ==
    \A k \in Keys :
        /\ row[k] # "removed" => gone[k] = 0
        /\ row[k] = "removed" /\ putLeft[k] > 0 => putLeft[k] + gone[k] <= Ttl
        /\ row[k] = "removed" /\ getLeft[k] > 0 => getLeft[k] + gone[k] <= Ttl + 1

\* A request about to hand out a link of an attachment that is removed has
\* begun before the removal, and no request lasts longer than a tick.
SignersAreRecent ==
    \A h \in Handlers : (At(h, "answer") \/ At(h, "url")) /\ row[req[h].key] = "removed" =>
        gone[req[h].key] <= IF req[h].old THEN 1 ELSE 0

LinkInv == FlowInv /\ LinksRunOut /\ SignersAreRecent

LEMMA LinkInit == Init => LinkInv
BY FlowInit, TtlIsPositive DEF Init, LinkInv, LinksRunOut, SignersAreRecent, At, Idle

\* Steps that touch neither links nor rows nor the time, and after which every
\* request that will hand out a link is as it was or belongs to a present row.
LEMMA LinklessStep ==
    ASSUME LinkInv, FlowInv', UNCHANGED <<rows, links>>,
           \A h \in Handlers : At(h, "answer")' \/ At(h, "url")' =>
               req'[h] = req[h] \/ row[req'[h].key] # "removed"
    PROVE  LinkInv'
BY DEF LinkInv, LinksRunOut, SignersAreRecent, rows, links, At

\* The steps of a request that is in flight.
LEMMA HandleKeepsLinks ==
    ASSUME LinkInv, FlowInv', NEW h \in Handlers, Handle(h) \/ ReqFail(h)
    PROVE  LinkInv'
<1> DEFINE k == req[h].key
<1> USE DEF LinkInv
<1>0. /\ TypeOK /\ TypeOK'
      /\ req[h] # Idle => k \in Keys /\ req[h].old \in BOOLEAN
      /\ \A g \in Handlers : req[g].at # "idle" => req[g].key \in Keys
    BY RequestFields DEF FlowInv
<1>1. \A j \in Keys : gone[j] \in 0..Ttl + 1 /\ putLeft[j] \in 0..Ttl /\ getLeft[j] \in 0..Ttl
    BY <1>0 DEF TypeOK
<1>2. CASE PresignCreate(h)
    <2>1. k \in Keys /\ row[k] = "none" /\ req[h] # Idle
        BY <1>0, <1>2, RequestFields
           DEF PresignCreate, FlowInv, RequestsFollowRows, At
    <2>2. row'[k] = "recorded" /\ \A j \in Keys \ {k} : row'[j] = row[j]
        BY <1>0, <1>2, <2>1 DEF PresignCreate, TypeOK
    <2>3. LinksRunOut'
        BY <1>2, <2>1, <2>2 DEF PresignCreate, LinksRunOut, links
    <2>4. /\ req'[h].key = k
          /\ \A g \in Handlers \ {h} : req'[g] = req[g]
        BY <1>0, <1>2, <2>1, RequestFields DEF PresignCreate, GoOn, TypeOK, Request
    <2>5. SignersAreRecent'
        BY <1>0, <1>2, <2>1, <2>2, <2>4 DEF PresignCreate, SignersAreRecent, At
    <2> QED
        BY <2>3, <2>5
<1>3. CASE PresignAnswer(h)
    <2>1. k \in Keys /\ req[h].old \in BOOLEAN /\ UNCHANGED <<rows, getLeft>>
        BY <1>0, <1>3 DEF PresignAnswer, At, Idle
    <2>2. /\ putLeft'[k] = IF req[h].old THEN Ttl - 1 ELSE Ttl
          /\ \A j \in Keys \ {k} : putLeft'[j] = putLeft[j]
        BY <1>0, <1>3, <2>1 DEF PresignAnswer, TypeOK
    <2>3. row[k] = "removed" => gone[k] <= IF req[h].old THEN 1 ELSE 0
        BY <1>3 DEF PresignAnswer, SignersAreRecent
    <2>4. row[k] = "removed" => putLeft'[k] + gone[k] <= Ttl
        BY <1>1, <2>1, <2>2, <2>3, TtlIsPositive
    <2>5. LinksRunOut'
        BY <2>1, <2>2, <2>4 DEF LinksRunOut, rows
    <2>6. SignersAreRecent'
        BY <1>0, <1>3, <2>1 DEF PresignAnswer, SignersAreRecent, Finish, At, Idle, rows, TypeOK
    <2> QED
        BY <2>5, <2>6
<1>4. CASE UrlSign(h)
    <2>1. k \in Keys /\ req[h].old \in BOOLEAN /\ UNCHANGED <<rows, putLeft>>
        BY <1>0, <1>4 DEF UrlSign, At, Idle
    <2>2. /\ getLeft'[k] \in {getLeft[k], Ttl}
          /\ \A j \in Keys \ {k} : getLeft'[j] = getLeft[j]
        BY <1>0, <1>4, <2>1 DEF UrlSign, TypeOK
    <2>3. row[k] = "removed" => gone[k] <= 1
        BY <1>1, <1>4, <2>1 DEF UrlSign, SignersAreRecent
    <2>4. row[k] = "removed" /\ getLeft'[k] > 0 => getLeft'[k] + gone[k] <= Ttl + 1
        BY <1>1, <2>1, <2>2, <2>3, TtlIsPositive DEF LinksRunOut
    <2>5. LinksRunOut'
        BY <2>1, <2>2, <2>4 DEF LinksRunOut, rows
    <2>6. SignersAreRecent'
        BY <1>0, <1>4, <2>1 DEF UrlSign, SignersAreRecent, Finish, At, Idle, rows, TypeOK
    <2> QED
        BY <2>5, <2>6
<1>5. CASE RemoveRow(h) /\ Found(k)
    <2>1. k \in Keys /\ req[h] # Idle /\ row[k] = "recorded" /\ UNCHANGED <<gone, links>>
        BY <1>0, <1>5 DEF RemoveRow, At, Idle, Found
    <2>2. row'[k] = "removed" /\ \A j \in Keys \ {k} : row'[j] = row[j]
        BY <1>0, <1>5, <2>1 DEF RemoveRow, TypeOK
    <2>3. gone[k] = 0
        BY <2>1 DEF LinksRunOut
    <2>4. LinksRunOut'
        BY <1>1, <2>1, <2>2, <2>3, TtlIsPositive DEF LinksRunOut, links
    <2>5. req'[h].at = "erase" /\ \A g \in Handlers \ {h} : req'[g] = req[g]
        BY <1>0, <1>5, <2>1, RequestFields DEF RemoveRow, GoOn, TypeOK, Request
    <2>6. SignersAreRecent'
        BY <1>0, <2>1, <2>2, <2>3, <2>5 DEF SignersAreRecent, At
    <2> QED
        BY <2>4, <2>6
<1>6. CASE (RemoveRow(h) /\ ~Found(k)) \/ SendErase(h) \/ ReqFail(h)
    <2>1. UNCHANGED <<rows, links>> /\ Finish(h)
        BY <1>6 DEF RemoveRow, SendErase, ReqFail, rows
    <2> QED
        BY <1>0, <2>1, LinklessStep DEF Finish, At, Idle, TypeOK
<1> QED
    BY <1>2, <1>3, <1>4, <1>5, <1>6 DEF Handle

\* Links and removals grow older together.
LEMMA TickKeepsLinks ==
    ASSUME LinkInv, FlowInv', Tick
    PROVE  LinkInv'
<1> USE DEF LinkInv
<1>0. TypeOK
    BY DEF FlowInv
<1>1. ASSUME NEW k \in Keys
      PROVE  /\ gone[k] \in 0..Ttl + 1 /\ putLeft[k] \in 0..Ttl /\ getLeft[k] \in 0..Ttl
             /\ gone'[k] = IF row[k] = "removed" /\ gone[k] <= Ttl THEN gone[k] + 1 ELSE gone[k]
             /\ putLeft'[k] = IF putLeft[k] > 0 THEN putLeft[k] - 1 ELSE 0
             /\ getLeft'[k] = IF getLeft[k] > 0 THEN getLeft[k] - 1 ELSE 0
             /\ row'[k] = row[k]
    BY <1>0 DEF Tick, Less, TypeOK
<1>2. LinksRunOut'
    BY <1>1, TtlIsPositive DEF LinksRunOut
<1>3. SignersAreRecent'
    <2> SUFFICES ASSUME NEW h \in Handlers, At(h, "answer")' \/ At(h, "url")',
                        row'[req'[h].key] = "removed"
                 PROVE  gone'[req'[h].key] <= IF req'[h].old THEN 1 ELSE 0
        BY DEF SignersAreRecent
    <2>1. req[h] # Idle
        BY DEF At, Tick, Idle
    <2>2. req[h] \in Request /\ ~req[h].old
        BY <1>0, <2>1, RequestFields DEF Tick
    <2>3. /\ req'[h].at = req[h].at /\ req'[h].key = req[h].key /\ req[h].key \in Keys
          /\ req'[h].old
        BY <2>1, <2>2 DEF Tick, Request
    <2>4. gone[req[h].key] <= 0
        BY <1>1, <2>2, <2>3 DEF SignersAreRecent, At
    <2> QED
        BY <1>1, <2>3, <2>4
<1> QED
    BY <1>2, <1>3

LEMMA LinkNext == LinkInv /\ [Next]_vars => LinkInv'
<1> SUFFICES ASSUME LinkInv, [Next]_vars PROVE LinkInv'
    OBVIOUS
<1>0. FlowInv' /\ TypeOK
    BY FlowNext DEF LinkInv, FlowInv
<1>1. ASSUME NEW h \in Handlers, NEW k \in Keys, Presign(h, k) \/ UrlRead(h, k) \/ RemoveRead(h, k)
      PROVE  LinkInv'
    <2>1. \A g \in Handlers : req'[g] = req[g] \/ req'[g].key = k
        BY <1>0, <1>1 DEF Presign, UrlRead, RemoveRead, Begin, TypeOK
    <2>2. row[k] # "removed" /\ UNCHANGED <<rows, links>>
        BY <1>1 DEF Presign, UrlRead, RemoveRead, Found
    <2> QED
        BY <1>0, <2>1, <2>2, LinklessStep
<1>2. ASSUME NEW h \in Handlers, Handle(h) \/ ReqFail(h)
      PROVE  LinkInv'
    BY <1>0, <1>2, HandleKeepsLinks
<1>3. ASSUME NEW k \in Keys, Erase(k) \/ EraseFail(k) \/ Upload(k)
      PROVE  LinkInv'
    BY <1>0, <1>3, LinklessStep DEF Erase, EraseFail, Upload
<1>4. CASE Restart
    BY <1>0, <1>4, LinklessStep DEF Restart, At, Idle
<1>5. CASE Tick
    BY <1>0, <1>5, TickKeepsLinks
<1>6. CASE UNCHANGED vars
    BY <1>0, <1>6, LinklessStep DEF vars
<1> QED
    BY <1>1, <1>2, <1>3, <1>4, <1>5, <1>6 DEF Next

\* Once an attachment has been removed for longer than the life of a link no
\* link of it works, however requests and the removal overlap.
THEOREM LinksDie == Spec => []LinksExpire
<1>1. LinkInv => LinksExpire
    <2> SUFFICES ASSUME LinkInv, NEW k \in Keys, row[k] = "removed", gone[k] > Ttl
                 PROVE  putLeft[k] = 0 /\ getLeft[k] = 0
        BY DEF LinksExpire
    <2>1. gone[k] \in 0..Ttl + 1 /\ putLeft[k] \in 0..Ttl /\ getLeft[k] \in 0..Ttl
        BY DEF LinkInv, FlowInv, TypeOK
    <2> QED
        BY <2>1, TtlIsPositive DEF LinkInv, LinksRunOut
<1> QED
    BY <1>1, LinkInit, LinkNext, PTL DEF Spec

-----------------------------------------------------------------------------

OrphanInv == FlowInv /\ OrphansAreExplained

\* Steps that store nothing, remove no row and keep every deletion on its way.
LEMMA KeepsExplained ==
    ASSUME OrphanInv, FlowInv', stored' \subseteq stored,
           \A k \in stored' : Found(k) => Found(k)' \/ Erasable(k)',
           \A k \in stored' : k \in erasing => k \in erasing' \union lost',
           \A k \in stored' : Erasable(k) => Erasable(k)' \/ k \in erasing' \union lost',
           lost \subseteq lost', late \subseteq late'
    PROVE  OrphanInv'
BY DEF OrphanInv, OrphansAreExplained

\* A deletion that is still to be sent stays so while its request does.
LEMMA ErasableStays ==
    ASSUME NEW h \in Handlers, ~At(h, "erase"), \A g \in Handlers \ {h} : req'[g] = req[g],
           NEW k \in Keys, Erasable(k)
    PROVE  Erasable(k)'
BY DEF Erasable, At

LEMMA OrphanNext == OrphanInv /\ [Next]_vars => OrphanInv'
<1> SUFFICES ASSUME OrphanInv, [Next]_vars PROVE OrphanInv'
    OBVIOUS
<1>0. FlowInv /\ FlowInv' /\ TypeOK /\ TypeOK'
    BY FlowNext DEF OrphanInv, FlowInv
<1>a. stored \subseteq Keys /\ stored' \subseteq Keys
    BY <1>0 DEF TypeOK
<1>1. ASSUME NEW h \in Handlers, NEW k \in Keys, Presign(h, k) \/ UrlRead(h, k) \/ RemoveRead(h, k)
      PROVE  OrphanInv'
    <2>1. ~At(h, "erase") /\ \A g \in Handlers \ {h} : req'[g] = req[g]
        BY <1>0, <1>1 DEF Presign, UrlRead, RemoveRead, Begin, At, Idle, TypeOK
    <2>2. \A j \in stored' : Erasable(j) => Erasable(j)'
        BY <1>a, <2>1, ErasableStays
    <2>3. UNCHANGED <<row, stored, erasing, lost, late>>
        BY <1>1 DEF Presign, UrlRead, RemoveRead, rows
    <2> QED
        BY <1>0, <2>2, <2>3, KeepsExplained DEF Found
<1>2. ASSUME NEW h \in Handlers, Handle(h) \/ ReqFail(h)
      PROVE  OrphanInv'
    <2> DEFINE k == req[h].key
    <2>0. /\ req[h] # Idle => k \in Keys
          /\ \A g \in Handlers \ {h} : req'[g] = req[g]
        BY <1>0, <1>2, RequestFields
           DEF Handle, PresignCreate, PresignAnswer, UrlSign, RemoveRow, SendErase, ReqFail,
               GoOn, Finish, TypeOK
    <2>1. CASE PresignCreate(h) \/ PresignAnswer(h) \/ UrlSign(h)
        <3>1. ~At(h, "erase") /\ UNCHANGED <<stored, erasing, lost, late>>
            BY <2>1 DEF PresignCreate, PresignAnswer, UrlSign, At, rows
        <3>2. \A j \in stored' : Erasable(j) => Erasable(j)'
            BY <1>a, <2>0, <3>1, ErasableStays
        <3>3. \A j \in Keys : Found(j) => Found(j)'
            BY <1>0, <2>0, <2>1 DEF PresignCreate, PresignAnswer, UrlSign, Found, rows, TypeOK
        <3> QED
            BY <1>0, <1>a, <3>1, <3>2, <3>3, KeepsExplained
    <2>2. CASE RemoveRow(h) /\ Found(k)
        <3>1. /\ ~At(h, "erase") /\ UNCHANGED <<stored, erasing, lost, late>>
              /\ req[h] # Idle /\ k \in Keys
            BY <2>0, <2>2 DEF RemoveRow, At, Idle
        <3>2. \A j \in stored' : Erasable(j) => Erasable(j)'
            BY <1>a, <2>0, <3>1, ErasableStays
        <3>3. req'[h].at = "erase" /\ req'[h].key = k
            BY <1>0, <2>2, <3>1, RequestFields DEF RemoveRow, GoOn, TypeOK, Request
        <3>4. ASSUME NEW j \in Keys, Found(j)
              PROVE  Found(j)' \/ Erasable(j)'
            <4>1. CASE j = k
                BY <3>3, <4>1 DEF Erasable, At
            <4>2. CASE j # k
                BY <1>0, <2>2, <3>4, <4>2 DEF RemoveRow, Found, TypeOK
            <4> QED
                BY <4>1, <4>2
        <3>5. \A j \in stored' : Found(j) => Found(j)' \/ Erasable(j)'
            BY <1>a, <3>4
        <3> QED
            BY <1>0, <3>1, <3>2, <3>5, KeepsExplained
    <2>3. CASE RemoveRow(h) /\ ~Found(k)
        <3>1. ~At(h, "erase") /\ UNCHANGED <<row, stored, erasing, lost, late>>
            BY <2>3 DEF RemoveRow, At
        <3>2. \A j \in stored' : Erasable(j) => Erasable(j)'
            BY <1>a, <2>0, <3>1, ErasableStays
        <3> QED
            BY <1>0, <3>1, <3>2, KeepsExplained DEF Found
    <2>4. CASE SendErase(h) \/ ReqFail(h)
        <3>1. /\ UNCHANGED <<row, stored, late>>
              /\ erasing \subseteq erasing' /\ lost \subseteq lost'
              /\ At(h, "erase") => k \in erasing' \union lost'
            BY <2>4 DEF SendErase, ReqFail, rows
        <3>2. \A j \in stored' : Erasable(j) => Erasable(j)' \/ j \in erasing' \union lost'
            BY <2>0, <3>1 DEF Erasable, At
        <3> QED
            BY <1>0, <3>1, <3>2, KeepsExplained DEF Found
    <2> QED
        BY <1>2, <2>1, <2>2, <2>3, <2>4 DEF Handle
<1>3. ASSUME NEW k \in Keys, Erase(k) \/ EraseFail(k)
      PROVE  OrphanInv'
    BY <1>0, <1>3, KeepsExplained DEF Erase, EraseFail, rows, Found, Erasable, At
<1>4. ASSUME NEW k \in Keys, Upload(k)
      PROVE  OrphanInv'
    <2>1. row[k] # "none" /\ stored' = stored \union {k} /\ UNCHANGED <<row, req, erasing, lost>>
        BY <1>0, <1>4 DEF Upload, TypeOK, rows
    <2>2. Found(k) \/ k \in erasing \/ Erasable(k) \/ k \in late'
        BY <1>0, <1>4, <2>1 DEF Upload, Found, TypeOK
    <2>3. late \subseteq late'
        BY <1>4 DEF Upload
    <2> QED
        BY <1>0, <2>1, <2>2, <2>3 DEF OrphanInv, OrphansAreExplained, Found, Erasable, At
<1>5. CASE Restart
    <2>1. PICK arrived \in SUBSET erasing :
              /\ stored' = stored \ arrived
              /\ lost' = lost \union (erasing \ arrived) \union {k \in Keys : Erasable(k)}
        BY <1>5 DEF Restart
    <2>2. UNCHANGED <<row, late>>
        BY <1>5 DEF Restart, rows
    <2> QED
        BY <1>0, <1>a, <2>1, <2>2, KeepsExplained DEF Found
<1>6. CASE Tick
    <2>1. UNCHANGED <<row, stored, erasing, lost, late>>
        BY <1>6 DEF Tick
    <2>2. \A h \in Handlers : At(h, "erase") => At(h, "erase")' /\ req'[h].key = req[h].key
        BY <1>0, <1>6, RequestFields DEF Tick, At, Idle, Request
    <2> QED
        BY <1>0, <2>1, <2>2, KeepsExplained DEF Erasable, Found
<1>7. CASE UNCHANGED vars
    BY <1>0, <1>7, KeepsExplained DEF vars, rows, Found, Erasable, At
<1> QED
    BY <1>1, <1>2, <1>3, <1>4, <1>5, <1>6, <1>7 DEF Next

\* No object is left behind but by a deletion that did not get through or a
\* link that outlived the row, however removals, uploads and restarts overlap.
THEOREM NoUnexplainedOrphan == Spec => []OrphansAreExplained
<1>1. Init => OrphanInv
    BY FlowInit DEF OrphanInv, OrphansAreExplained, Init
<1>2. OrphanInv => OrphansAreExplained
    BY DEF OrphanInv
<1> QED
    BY <1>1, <1>2, OrphanNext, PTL DEF Spec

=============================================================================
