--------------------------- MODULE PostingsProofs ---------------------------
(***************************************************************************)
(* Theorems about Postings, for any sets of users, postings, requests and  *)
(* settle passes.                                                          *)
(***************************************************************************)
EXTENDS Postings, FiniteSetTheorems, TLAPS

-----------------------------------------------------------------------------
(* Types *)

LEMMA ReqTypes ==
    ASSUME TypeOK, NEW s \in Slots, req[s] # Idle
    PROVE  req[s] \in Request
BY DEF TypeOK

LEMMA BeginTypes ==
    ASSUME TypeOK, NEW s \in Slots,
           NEW op \in RowOps \union TaskOps, NEW at \in {"write", "lock", "commit"},
           NEW t \in Tasks, NEW u \in Users, NEW cap \in Nat, NEW existing \in BOOLEAN,
           Begin(s, op, at, t, u, cap, existing)
    PROVE  TypeOK'
<1>1. [op |-> op, at |-> at, t |-> t, u |-> u, cap |-> cap, existing |-> existing] \in Request
    BY DEF Request
<1>2. req' \in [Slots -> {Idle} \union Request]
    BY <1>1 DEF TypeOK, Begin
<1> QED BY <1>2 DEF TypeOK, Begin, posting, history

LEMMA FinishTypes ==
    ASSUME TypeOK, NEW s \in Slots, Finish(s)
    PROVE  req' \in [Slots -> {Idle} \union Request]
BY DEF TypeOK, Finish

LEMMA SetRowTypes ==
    ASSUME TypeOK, NEW t \in Tasks, NEW u \in Users, NEW v \in RowStatus,
           NEW claim \in BOOLEAN, SetRow(t, u, v, claim)
    PROVE  asg' \in [Tasks -> [Users -> RowStatus]] /\ left' \subseteq Tasks \X Users
<1>1. asg' \in [Tasks -> [Users -> RowStatus]]
    BY DEF TypeOK, SetRow
<1>2. left' \subseteq left \union {<<t, u>>}
    BY DEF SetRow
<1> QED BY <1>1, <1>2 DEF TypeOK

LEMMA WriteRowTypes ==
    ASSUME TypeOK, NEW s \in Slots, req[s] # Idle, NEW v \in RowStatus, WriteRow(s, v),
           aged' \subseteq aged
    PROVE  TypeOK'
<1>1. req[s].t \in Tasks /\ req[s].u \in Users
    BY ReqTypes DEF Request
<1>2. req' \in [Slots -> {Idle} \union Request]
    BY FinishTypes DEF WriteRow
<1>3. asg' \in [Tasks -> [Users -> RowStatus]] /\ left' \subseteq Tasks \X Users
    BY <1>1, SetRowTypes DEF WriteRow
<1> QED BY <1>2, <1>3 DEF TypeOK, WriteRow, posting, history

LEMMA AdvanceTypes ==
    ASSUME TypeOK, NEW p \in Passes, NEW at \in PassAt,
           NEW rows \in SUBSET (Tasks \X Users), NEW ids \in SUBSET Tasks,
           Advance(p, at, rows, ids)
    PROVE  pass' \in [Passes -> Pass]
BY DEF TypeOK, Advance, Pass

LEMMA RowReadTypes ==
    ASSUME TypeOK, NEW s \in Slots, NEW t \in Tasks, NEW u \in Users, RowRead(s, t, u)
    PROVE  TypeOK'
<1>0. maxTakers[t] \in Nat /\ 0 \in Nat
    BY DEF TypeOK
<1>1. CASE ApplyRead(s, t, u)
    BY <1>0, <1>1, BeginTypes DEF ApplyRead, RowOps, TakerOps
<1>2. CASE AcceptRead(s, t, u)
    BY <1>0, <1>2, BeginTypes DEF AcceptRead, BeginOnRow, RowOps, OrganizerOps
<1>3. CASE RejectRead(s, t, u)
    BY <1>0, <1>3, BeginTypes DEF RejectRead, BeginOnRow, RowOps, OrganizerOps
<1>4. CASE CompleteRead(s, t, u)
    BY <1>0, <1>4, BeginTypes DEF CompleteRead, BeginOnRow, RowOps, TakerOps
<1>5. CASE ConfirmRead(s, t, u)
    BY <1>0, <1>5, BeginTypes DEF ConfirmRead, BeginOnRow, RowOps, OrganizerOps
<1>6. CASE WithdrawRead(s, t, u)
    BY <1>0, <1>6, BeginTypes DEF WithdrawRead, BeginOnRow, RowOps, TakerOps
<1>7. CASE CheckinRead(s, t, u)
    BY <1>0, <1>7, BeginTypes DEF CheckinRead, BeginOnRow, RowOps, TakerOps
<1> QED BY <1>1, <1>2, <1>3, <1>4, <1>5, <1>6, <1>7 DEF RowRead

LEMMA ReqStepTypes ==
    ASSUME TypeOK, NEW s \in Slots, ReqStep(s)
    PROVE  TypeOK'
<1>0. req[s] # Idle /\ req[s] \in Request
    <2>1. req[s] # Idle
        BY DEF ReqStep, CountSpots, CountFull, ApplyWrite, ApplyDuplicate, AcceptWrite,
               RejectWrite, CompleteWrite, ConfirmWrite, WithdrawWrite, CheckinWrite,
               CancelWrite, PatchWrite, At
    <2> QED BY <2>1, ReqTypes
<1>1. CASE CountSpots(s)
    <2>1. req' \in [Slots -> {Idle} \union Request]
        BY <1>0, <1>1 DEF TypeOK, CountSpots, Request
    <2> QED BY <1>1, <2>1 DEF TypeOK, CountSpots, posting, history
<1>2. CASE CountFull(s) \/ ApplyDuplicate(s)
    BY <1>2, FinishTypes DEF TypeOK, CountFull, ApplyDuplicate, posting, history
<1>3. CASE ApplyWrite(s)
    BY <1>0, <1>3, WriteRowTypes DEF ApplyWrite, ApplyValue, RowStatus
<1>4. CASE AcceptWrite(s)
    BY <1>0, <1>4, WriteRowTypes DEF AcceptWrite, RowStatus
<1>5. CASE RejectWrite(s)
    BY <1>0, <1>5, WriteRowTypes DEF RejectWrite, RowStatus
<1>6. CASE CompleteWrite(s)
    BY <1>0, <1>6, WriteRowTypes DEF CompleteWrite, RowStatus
<1>7. CASE ConfirmWrite(s)
    BY <1>0, <1>7, WriteRowTypes DEF ConfirmWrite, RowStatus
<1>8. CASE WithdrawWrite(s)
    BY <1>0, <1>8, WriteRowTypes DEF WithdrawWrite, RowStatus
<1>9. CASE CheckinWrite(s)
    BY <1>0, <1>9, WriteRowTypes DEF CheckinWrite, RowStatus
<1>10. CASE CancelWrite(s)
    <2>1. req' \in [Slots -> {Idle} \union Request]
        BY <1>10, FinishTypes DEF CancelWrite
    <2>2. req[s].t \in Tasks
        BY <1>0 DEF Request
    <2>3. status' \in [Tasks -> TaskStatus] /\ cancelled' \subseteq Tasks
        BY <1>10, <2>2 DEF TypeOK, CancelWrite, TaskStatus
    <2> QED BY <1>10, <2>1, <2>3 DEF TypeOK, CancelWrite
<1>11. CASE PatchWrite(s)
    <2>1. req' \in [Slots -> {Idle} \union Request]
        BY <1>11, FinishTypes DEF PatchWrite
    <2>2. PatchCaps \subseteq Nat
        BY CapsArePositive
    <2>3. maxTakers' \in [Tasks -> Nat] /\ peakCap' \in [Tasks -> Nat]
        BY <1>11, <2>2 DEF TypeOK, PatchWrite, SetCap
    <2>4. mode' \in [Tasks -> Modes] /\ expired' \in [Tasks -> BOOLEAN]
        BY <1>11 DEF TypeOK, PatchWrite
    <2> QED BY <1>11, <2>1, <2>3, <2>4 DEF TypeOK, PatchWrite
<1> QED BY <1>1, <1>2, <1>3, <1>4, <1>5, <1>6, <1>7, <1>8, <1>9, <1>10, <1>11 DEF ReqStep

LEMMA PassTypes ==
    ASSUME TypeOK, NEW p \in Passes, PassRead(p) \/ PassWrite(p) \/ PassFail(p)
    PROVE  TypeOK'
<1>1. ASSUME NEW found \in SUBSET Tasks, NEW w \in PassAt, NEW n \in PassAt, Scan(p, found, w, n)
      PROVE  pass' \in [Passes -> Pass]
    BY <1>1, AdvanceTypes DEF Scan
<1>2. ASSUME NEW v \in TaskStatus, SettleStatus(p, v)
      PROVE  status' \in [Tasks -> TaskStatus]
    BY <1>2 DEF SettleStatus, TypeOK
<1>3. CASE PassRead(p)
    <2>1. CASE DueRead(p)
        <3> DEFINE due == {r \in Tasks \X Users : Due(r[1], r[2])}
        <3>1. due \in SUBSET (Tasks \X Users) /\ {} \in SUBSET Tasks /\ "confirm" \in PassAt
            BY DEF PassAt
        <3>2. Advance(p, "confirm", due, {})
            BY <2>1 DEF DueRead
        <3> HIDE DEF due
        <3>3. pass' \in [Passes -> Pass]
            BY <3>1, <3>2, AdvanceTypes
        <3> QED BY <2>1, <3>3 DEF TypeOK, DueRead, posting, history
    <2>2. CASE ExpiredRead(p)
        <3>1. pass' \in [Passes -> Pass]
            BY <2>2, <1>1 DEF ExpiredRead, PassAt
        <3> QED BY <2>2, <3>1 DEF TypeOK, ExpiredRead, posting, history
    <2>3. CASE FullRead(p)
        <3>1. pass' \in [Passes -> Pass]
            BY <2>3, <1>1 DEF FullRead, PassAt
        <3> QED BY <2>3, <3>1 DEF TypeOK, FullRead, posting, history
    <2>4. CASE FinishedRead(p)
        <3>1. pass' \in [Passes -> Pass]
            BY <2>4, <1>1 DEF FinishedRead, PassAt
        <3> QED BY <2>4, <3>1 DEF TypeOK, FinishedRead, posting, history
    <2> QED BY <1>3, <2>1, <2>2, <2>3, <2>4 DEF PassRead
<1>4. CASE PassWrite(p)
    <2>1. pass' \in [Passes -> Pass]
        BY <1>4, AdvanceTypes DEF PassWrite, ExpiredWrite, FullWrite, FinishedWrite, PassAt
    <2>2. status' \in [Tasks -> TaskStatus]
        BY <1>4, <1>2 DEF PassWrite, ExpiredWrite, FullWrite, FinishedWrite, TaskStatus
    <2> QED BY <1>4, <2>1, <2>2
            DEF TypeOK, PassWrite, ExpiredWrite, FullWrite, FinishedWrite, history
<1>5. CASE PassFail(p)
    BY <1>5 DEF TypeOK, PassFail, AtRest, Pass, PassAt, posting, history
<1> QED BY <1>3, <1>4, <1>5

LEMMA TypeInit == Init => TypeOK
<1> SUFFICES ASSUME Init PROVE TypeOK OBVIOUS
<1>1. AtRest \in Pass
    BY DEF AtRest, Pass, PassAt
<1> QED BY <1>1 DEF Init, TypeOK, TaskStatus, Modes, RowStatus

LEMMA TypeStep == TypeOK /\ [Next]_vars => TypeOK'
<1> SUFFICES ASSUME TypeOK, [Next]_vars PROVE TypeOK' OBVIOUS
<1>1. ASSUME NEW t \in Tasks, Create(t) PROVE TypeOK'
    <2>1. Caps \subseteq Nat
        BY CapsArePositive
    <2> QED BY <1>1, <2>1 DEF TypeOK, Create, SetCap, TaskStatus
<1>2. ASSUME NEW s \in Slots, NEW t \in Tasks, NEW u \in Users, RowRead(s, t, u) PROVE TypeOK'
    BY <1>2, RowReadTypes
<1>3. ASSUME NEW s \in Slots, NEW t \in Tasks, CancelRead(s, t) \/ PatchRead(s, t) PROVE TypeOK'
    <2>1. Poster[t] \in Users
        BY PostersAreUsers
    <2> QED BY <1>3, <2>1, BeginTypes DEF CancelRead, PatchRead, TaskOps
<1>4. ASSUME NEW s \in Slots, ReqStep(s) PROVE TypeOK'
    BY <1>4, ReqStepTypes
<1>5. ASSUME NEW s \in Slots, ReqFail(s) PROVE TypeOK'
    BY <1>5, FinishTypes DEF TypeOK, ReqFail, posting, history
<1>6. ASSUME NEW t \in Tasks, NEW u \in Users, SevenDaysPass(t, u) PROVE TypeOK'
    BY <1>6 DEF TypeOK, SevenDaysPass, posting, history
<1>7. ASSUME NEW t \in Tasks, DeadlinePasses(t) PROVE TypeOK'
    BY <1>7 DEF TypeOK, DeadlinePasses, history
<1>8. ASSUME NEW p \in Passes, PassRead(p) \/ PassWrite(p) \/ PassFail(p) PROVE TypeOK'
    BY <1>8, PassTypes
<1>9. ASSUME NEW p \in Passes, NEW t \in Tasks, NEW u \in Users, AutoConfirm(p, t, u)
      PROVE  TypeOK'
    <2>1. asg' \in [Tasks -> [Users -> RowStatus]] /\ left' \subseteq Tasks \X Users
        BY <1>9, SetRowTypes DEF AutoConfirm, RowStatus
    <2> DEFINE rest == pass[p].rows \ {<<t, u>>}
    <2>2. rest \in SUBSET (Tasks \X Users) /\ {} \in SUBSET Tasks /\ "confirm" \in PassAt
        BY DEF TypeOK, Pass, PassAt
    <2>3. Advance(p, "confirm", rest, {})
        BY <1>9 DEF AutoConfirm
    <2> HIDE DEF rest
    <2>4. pass' \in [Passes -> Pass]
        BY <2>2, <2>3, AdvanceTypes
    <2> QED BY <1>9, <2>1, <2>4 DEF TypeOK, AutoConfirm, posting, history
<1>10. CASE UNCHANGED vars
    BY <1>10 DEF TypeOK, vars, history
<1> QED BY <1>1, <1>2, <1>3, <1>4, <1>5, <1>6, <1>7, <1>8, <1>9, <1>10 DEF Next

\* Type correctness: no interleaving of requests and settle passes leaves a
\* column, or a handler's local state, outside its type.
THEOREM Typing == Spec => []TypeOK
BY TypeInit, TypeStep, PTL DEF Spec

-----------------------------------------------------------------------------
(* Counting seats *)

LEMMA HoldersFinite ==
    ASSUME NEW t \in Tasks
    PROVE  IsFiniteSet(Holders(t)) /\ Taken(t) \in Nat
<1>1. Holders(t) \in SUBSET Users
    BY DEF Holders
<1> QED BY <1>1, FinitelyManyUsers, FS_Subset, FS_CardinalityType DEF Taken

\* Seats given back, or none taken: the count does not grow.
LEMMA FewerHolders ==
    ASSUME NEW t \in Tasks, Holders(t)' \subseteq Holders(t)
    PROVE  Taken(t)' \in Nat /\ Taken(t)' <= Taken(t)
<1>1. IsFiniteSet(Holders(t))
    BY HoldersFinite
<1>2. Holders(t)' \in SUBSET Holders(t)
    OBVIOUS
<1>3. IsFiniteSet(Holders(t)') /\ Cardinality(Holders(t)') <= Cardinality(Holders(t))
    BY <1>1, <1>2, FS_Subset
<1>4. Cardinality(Holders(t)') \in Nat
    BY <1>3, FS_CardinalityType
<1> QED BY <1>3, <1>4 DEF Taken

\* One helper seated: the count grows by at most one.
LEMMA OneMoreHolder ==
    ASSUME NEW t \in Tasks, NEW u, Holders(t)' \subseteq Holders(t) \union {u}
    PROVE  Taken(t)' \in Nat /\ Taken(t)' <= Taken(t) + 1
<1>1. IsFiniteSet(Holders(t)) /\ Cardinality(Holders(t)) \in Nat
    BY HoldersFinite DEF Taken
<1> DEFINE bigger == Holders(t) \union {u}
<1>2. IsFiniteSet(bigger) /\ Cardinality(bigger) <= Cardinality(Holders(t)) + 1
    <2>1. /\ IsFiniteSet(bigger)
          /\ Cardinality(bigger) = IF u \in Holders(t) THEN Cardinality(Holders(t))
                                   ELSE Cardinality(Holders(t)) + 1
        BY <1>1, FS_AddElement
    <2> QED BY <1>1, <2>1
<1>3. Holders(t)' \in SUBSET bigger
    OBVIOUS
<1> HIDE DEF bigger
<1>4. IsFiniteSet(Holders(t)') /\ Cardinality(Holders(t)') <= Cardinality(bigger)
    BY <1>2, <1>3, FS_Subset
<1>5. Cardinality(Holders(t)') \in Nat /\ Cardinality(bigger) \in Nat
    BY <1>2, <1>4, FS_CardinalityType
<1> QED BY <1>1, <1>2, <1>4, <1>5 DEF Taken

LEMMA SameHolders ==
    ASSUME UNCHANGED asg, NEW t \in Tasks
    PROVE  Holders(t)' = Holders(t) /\ Taken(t)' = Taken(t)
BY DEF Holders, Taken

-----------------------------------------------------------------------------
(* The counted claims *)

\* Only the first scan of a pass finds rows to confirm.
LEMMA PassRows ==
    ASSUME TypeOK, NEW p \in Passes, PassRead(p) \/ PassWrite(p) \/ PassFail(p), ~DueRead(p)
    PROVE  \A q \in Passes : pass'[q].rows \subseteq pass[q].rows
<1>1. ASSUME NEW at, NEW ids, Advance(p, at, {}, ids)
      PROVE  \A q \in Passes : pass'[q].rows \subseteq pass[q].rows
    BY <1>1 DEF Advance, TypeOK
<1>2. ASSUME NEW found, NEW w, NEW n, Scan(p, found, w, n)
      PROVE  \A q \in Passes : pass'[q].rows \subseteq pass[q].rows
    BY <1>1, <1>2 DEF Scan
<1>3. CASE ExpiredRead(p)
    BY <1>2, <1>3 DEF ExpiredRead
<1>4. CASE FullRead(p)
    BY <1>2, <1>4 DEF FullRead
<1>5. CASE FinishedRead(p)
    BY <1>2, <1>5 DEF FinishedRead
<1>6. CASE PassWrite(p)
    BY <1>1, <1>6 DEF PassWrite, ExpiredWrite, FullWrite, FinishedWrite
<1>7. CASE PassFail(p)
    BY <1>7 DEF PassFail, AtRest, TypeOK
<1> QED BY <1>3, <1>4, <1>5, <1>6, <1>7 DEF PassRead

\* A step that moves no row, begins no request and lowers no capacity keeps
\* every part of the invariant; requests may end.
LEMMA QuietStep ==
    ASSUME SeatInv, TypeOK', UNCHANGED asg,
           \A s \in Slots : req'[s] = req[s] \/ req'[s] = Idle,
           \A p \in Passes : pass'[p].rows \subseteq pass[p].rows,
           \A t \in Tasks : peakCap[t] <= peakCap'[t] /\ maxTakers'[t] <= peakCap'[t]
    PROVE  ClaimInv'
<1>0. \A s \in Slots : OnRow(s)' => OnRow(s) /\ req'[s] = req[s]
    BY DEF OnRow, Idle, RowOps, TakerOps, OrganizerOps
<1>1. RowExclusive'
    BY <1>0 DEF SeatInv, ClaimInv, RowExclusive
<1>2. ReadsStillValid'
    <2>1. \A s \in Slots : OnRow(s)' => Relied(s)' = Relied(s)
        BY <1>0 DEF Relied, Read, Overtaken
    <2> QED BY <1>0, <2>1 DEF SeatInv, ClaimInv, ReadsStillValid
<1>3. OneClaimAtATime'
    BY DEF SeatInv, ClaimInv, OneClaimAtATime
<1>4. ClaimsHaveRoom'
    <2>1. \A s \in Slots : req[s] # Idle => req[s].t \in Tasks
        BY ReqTypes DEF SeatInv, ClaimInv, Request
    <2> QED BY <2>1, SameHolders DEF SeatInv, ClaimInv, ClaimsHaveRoom, SpotLeft
<1>5. CapsRead'
    <2> SUFFICES ASSUME NEW s \in Slots, req[s] # Idle, req[s].at \in {"lock", "commit"}
                 PROVE  req[s].cap <= peakCap'[req[s].t]
        BY DEF CapsRead
    <2>1. req[s].t \in Tasks /\ req[s].cap \in Nat
        BY ReqTypes DEF SeatInv, ClaimInv, Request
    <2>2. req[s].cap <= peakCap[req[s].t]
        BY DEF SeatInv, ClaimInv, CapsRead
    <2>3. peakCap[req[s].t] \in Nat /\ peakCap'[req[s].t] \in Nat
        BY <2>1 DEF SeatInv, ClaimInv, TypeOK
    <2> QED BY <2>1, <2>2, <2>3
<1>6. SeatCap'
    <2> SUFFICES ASSUME NEW t \in Tasks PROVE Taken(t)' <= peakCap'[t]
        BY DEF SeatCap
    <2>1. Taken(t)' = Taken(t) /\ Taken(t) \in Nat /\ Taken(t) <= peakCap[t]
        BY SameHolders, HoldersFinite DEF SeatInv, ClaimInv, SeatCap
    <2>2. peakCap[t] \in Nat /\ peakCap'[t] \in Nat
        BY DEF SeatInv, ClaimInv, TypeOK
    <2> QED BY <2>1, <2>2
<1> QED BY <1>1, <1>2, <1>3, <1>4, <1>5, <1>6 DEF SeatInv, ClaimInv

\* A request begins: it relies on the row as it has just read it.
LEMMA BeginStep ==
    ASSUME SeatInv, TypeOK', NEW s \in Slots,
           NEW op \in RowOps \union TaskOps, NEW at \in {"write", "lock"},
           NEW t \in Tasks, NEW u \in Users, NEW cap \in Nat, NEW existing \in BOOLEAN,
           Begin(s, op, at, t, u, cap, existing),
           cap <= peakCap[t],
           op \in RowOps => Allowed(op, t, u) /\ asg[t][u] \in Relied(s)'
    PROVE  ClaimInv'
<1> DEFINE r == [op |-> op, at |-> at, t |-> t, u |-> u, cap |-> cap, existing |-> existing]
<1>0. /\ req'[s] = r
      /\ \A x \in Slots : x # s => req'[x] = req[x]
      /\ UNCHANGED <<asg, pass, maxTakers, peakCap>>
    BY DEF Begin, SeatInv, ClaimInv, TypeOK, posting, history
<1>1. RowExclusive'
    <2>1. \A x \in Slots : (OnRow(x) /\ req[x].t = t /\ req[x].u = u /\ op \in RowOps)
                            => ~Clash(op, req[x].op) /\ ~Clash(req[x].op, op)
        BY DEF Allowed, Clash, OnRow
    <2> QED BY <1>0, <2>1 DEF SeatInv, ClaimInv, RowExclusive, OnRow
<1>2. ReadsStillValid'
    <2>1. \A x \in Slots : x # s => Relied(x)' = Relied(x)
        BY <1>0 DEF Relied, Read, Overtaken
    <2>2. OnRow(s)' => asg'[req'[s].t][req'[s].u] \in Relied(s)'
        BY <1>0 DEF OnRow
    <2> QED BY <1>0, <2>1, <2>2 DEF SeatInv, ClaimInv, ReadsStillValid, OnRow
<1>3. OneClaimAtATime'
    BY <1>0 DEF SeatInv, ClaimInv, OneClaimAtATime
<1>4. ClaimsHaveRoom'
    <2>1. \A x \in Slots : req[x] # Idle => req[x].t \in Tasks
        BY ReqTypes DEF SeatInv, ClaimInv, Request
    <2> QED BY <1>0, <2>1, SameHolders DEF SeatInv, ClaimInv, ClaimsHaveRoom, SpotLeft
<1>5. CapsRead'
    BY <1>0 DEF SeatInv, ClaimInv, CapsRead
<1>6. SeatCap'
    BY <1>0, SameHolders DEF SeatInv, ClaimInv, SeatCap
<1> QED BY <1>1, <1>2, <1>3, <1>4, <1>5, <1>6 DEF SeatInv, ClaimInv

\* The count under the lock finds a spot, and no other claim is past its own.
LEMMA CountStep ==
    ASSUME SeatInv, TypeOK', NEW s \in Slots, CountSpots(s)
    PROVE  ClaimInv'
<1>0. /\ req'[s].op = req[s].op /\ req'[s].t = req[s].t /\ req'[s].u = req[s].u
      /\ req'[s].cap = req[s].cap /\ req'[s].existing = req[s].existing
      /\ req'[s].at = "commit" /\ req[s] # Idle /\ req[s] \in Request
      /\ \A x \in Slots : x # s => req'[x] = req[x]
      /\ UNCHANGED <<asg, pass, maxTakers, peakCap>>
    BY ReqTypes DEF CountSpots, SeatInv, ClaimInv, TypeOK, Request, posting, history
<1>1. RowExclusive'
    BY <1>0 DEF SeatInv, ClaimInv, RowExclusive, OnRow
<1>2. ReadsStillValid'
    <2>1. \A x \in Slots : Relied(x)' = Relied(x)
        BY <1>0 DEF Relied, Read, Overtaken
    <2> QED BY <1>0, <2>1 DEF SeatInv, ClaimInv, ReadsStillValid, OnRow
<1>3. OneClaimAtATime'
    BY <1>0 DEF SeatInv, ClaimInv, OneClaimAtATime, CountSpots, Locked
<1>4. ClaimsHaveRoom'
    <2>1. \A x \in Slots : req[x] # Idle => req[x].t \in Tasks
        BY ReqTypes DEF SeatInv, ClaimInv, Request
    <2>2. SpotLeft(req[s].t, req[s].cap)
        BY DEF CountSpots
    <2> QED BY <1>0, <2>1, <2>2, SameHolders DEF SeatInv, ClaimInv, ClaimsHaveRoom, SpotLeft
<1>5. CapsRead'
    BY <1>0 DEF SeatInv, ClaimInv, CapsRead, CountSpots
<1>6. SeatCap'
    BY <1>0, SameHolders DEF SeatInv, ClaimInv, SeatCap
<1> QED BY <1>1, <1>2, <1>3, <1>4, <1>5, <1>6 DEF SeatInv, ClaimInv

\* Two requests in flight on one row.
Together(s, x) ==
    s # x /\ OnRow(s) /\ OnRow(x) /\ req[s].t = req[x].t /\ req[s].u = req[x].u

\* A request writes its row: any other request on that row can do with what it
\* writes, and the row comes to hold a seat only if it held one or the claim
\* was counted.
LEMMA WriteStep ==
    ASSUME SeatInv, TypeOK', NEW s \in Slots, OnRow(s), NEW v \in RowStatus, WriteRow(s, v),
           v \in HOLDS_A_SPOT => Relied(s) \subseteq HOLDS_A_SPOT \/ req[s].at = "commit",
           v = "COMPLETED" \/ Relied(s) \intersect {"PENDING_CONFIRMATION", "COMPLETED"} = {},
           \A x \in Slots : Together(s, x) => v \in Relied(x)
    PROVE  ClaimInv'
<1>1. req[s] # Idle
    BY DEF OnRow, Idle, RowOps, TakerOps, OrganizerOps
<1>2. PICK t \in Tasks, u \in Users : req[s].t = t /\ req[s].u = u
    BY <1>1, ReqTypes DEF SeatInv, ClaimInv, Request
<1>3. /\ req[s] # Idle /\ req[s].t = t /\ req[s].u = u
      /\ req'[s] = Idle
      /\ \A x \in Slots : x # s => req'[x] = req[x]
      /\ asg'[t][u] = v
      /\ \A y \in Tasks, w \in Users : y # t \/ w # u => asg'[y][w] = asg[y][w]
      /\ UNCHANGED <<pass, maxTakers, peakCap>>
    <2>3. req'[s] = Idle /\ \A x \in Slots : x # s => req'[x] = req[x]
        BY DEF WriteRow, Finish, SeatInv, ClaimInv, TypeOK
    <2>4. asg' = [asg EXCEPT ![t][u] = v] /\ asg \in [Tasks -> [Users -> RowStatus]]
        BY <1>2 DEF WriteRow, SetRow, SeatInv, ClaimInv, TypeOK
    <2>5. asg'[t][u] = v /\ \A y \in Tasks, w \in Users : y # t \/ w # u => asg'[y][w] = asg[y][w]
        BY <2>4
    <2> QED BY <1>1, <1>2, <2>3, <2>5 DEF WriteRow, posting, history
<1>4. asg[t][u] \in Relied(s)
    BY <1>3 DEF SeatInv, ClaimInv, ReadsStillValid
<1>5. \A x \in Slots : OnRow(x)' => x # s /\ OnRow(x) /\ req'[x] = req[x] /\ Relied(x)' = Relied(x)
    <2>1. ~OnRow(s)'
        BY <1>3 DEF OnRow, Idle, RowOps, TakerOps, OrganizerOps
    <2>2. \A x \in Slots : x # s => OnRow(x)' = OnRow(x) /\ Relied(x)' = Relied(x)
        BY <1>3 DEF OnRow, Relied, Read, Overtaken
    <2> QED BY <1>3, <2>1, <2>2
<1>6. \A x \in Slots : OnRow(x)' => req[x].t # t \/ req[x].u # u \/ v \in Relied(x)
    BY <1>3, <1>5 DEF Together
<1>7. \A x \in Slots : OnRow(x) => req[x].t \in Tasks /\ req[x].u \in Users
    BY ReqTypes DEF SeatInv, ClaimInv, Request, OnRow, Idle, RowOps, TakerOps, OrganizerOps
<1>8. RowExclusive'
    BY <1>5 DEF SeatInv, ClaimInv, RowExclusive
<1>9. ReadsStillValid'
    <2>1. \A x \in Slots : OnRow(x)' => asg'[req'[x].t][req'[x].u] \in Relied(x)'
        BY <1>3, <1>5, <1>6, <1>7 DEF SeatInv, ClaimInv, ReadsStillValid
    <2>2. \A p \in Passes, y \in Tasks, w \in Users :
            <<y, w>> \in pass[p].rows => asg'[y][w] \in {"PENDING_CONFIRMATION", "COMPLETED"}
        BY <1>3, <1>4 DEF SeatInv, ClaimInv, ReadsStillValid
    <2> QED BY <1>3, <2>1, <2>2 DEF ReadsStillValid
<1>10. OneClaimAtATime'
    BY <1>3 DEF SeatInv, ClaimInv, OneClaimAtATime
<1>11. CapsRead'
    BY <1>3 DEF SeatInv, ClaimInv, CapsRead
<1>12. \A y \in Tasks : y # t => Taken(y)' = Taken(y)
    BY <1>3 DEF Taken, Holders
<1>13. CASE v \notin HOLDS_A_SPOT \/ asg[t][u] \in HOLDS_A_SPOT
    <2>1. Holders(t)' \subseteq Holders(t)
        BY <1>3, <1>13 DEF Holders
    <2>2. Taken(t)' \in Nat /\ Taken(t)' <= Taken(t) /\ Taken(t) \in Nat
        BY <1>3, <2>1, FewerHolders, HoldersFinite
    <2>3. \A y \in Tasks : Taken(y)' \in Nat /\ Taken(y)' <= Taken(y) /\ Taken(y) \in Nat
        BY <1>12, <2>2, HoldersFinite
    <2>4. ClaimsHaveRoom'
        <3> SUFFICES ASSUME NEW x \in Slots, req'[x] # Idle, req'[x].at = "commit"
                     PROVE  SpotLeft(req[x].t, req[x].cap)'
            BY DEF ClaimsHaveRoom
        <3>1. req'[x] = req[x] /\ req[x] # Idle /\ req[x].t \in Tasks /\ req[x].cap \in Nat
            BY <1>3, ReqTypes DEF SeatInv, ClaimInv, Request
        <3>2. Taken(req[x].t) < req[x].cap
            BY <3>1 DEF SeatInv, ClaimInv, ClaimsHaveRoom, SpotLeft
        <3> QED BY <2>3, <3>1, <3>2 DEF SpotLeft
    <2>5. SeatCap'
        <3> SUFFICES ASSUME NEW y \in Tasks PROVE Taken(y)' <= peakCap'[y]
            BY DEF SeatCap
        <3>1. Taken(y) <= peakCap[y] /\ peakCap[y] \in Nat
            BY DEF SeatInv, ClaimInv, SeatCap, TypeOK
        <3> QED BY <1>3, <2>3, <3>1
    <2> QED BY <1>8, <1>9, <1>10, <1>11, <2>4, <2>5 DEF SeatInv, ClaimInv
<1>14. CASE req[s].at = "commit"
    <2>1. Holders(t)' \subseteq Holders(t) \union {u}
        BY <1>3 DEF Holders
    <2>2. Taken(t)' \in Nat /\ Taken(t)' <= Taken(t) + 1 /\ Taken(t) \in Nat
        BY <1>3, <2>1, OneMoreHolder, HoldersFinite
    <2>3. Taken(t) < req[s].cap /\ req[s].cap <= peakCap[t] /\ req[s].cap \in Nat
        BY <1>3, <1>14, ReqTypes
        DEF SeatInv, ClaimInv, ClaimsHaveRoom, SpotLeft, CapsRead, Request
    <2>4. ClaimsHaveRoom'
        <3>1. \A x \in Slots : (req'[x] # Idle /\ req'[x].at = "commit") => req[x].t # t
            BY <1>3, <1>14 DEF SeatInv, ClaimInv, OneClaimAtATime
        <3>2. \A x \in Slots : req[x] # Idle => req[x].t \in Tasks
            BY ReqTypes DEF SeatInv, ClaimInv, Request
        <3> QED BY <1>3, <1>12, <3>1, <3>2 DEF SeatInv, ClaimInv, ClaimsHaveRoom, SpotLeft
    <2>5. SeatCap'
        <3> SUFFICES ASSUME NEW y \in Tasks PROVE Taken(y)' <= peakCap'[y]
            BY DEF SeatCap
        <3>1. Taken(y) <= peakCap[y] /\ peakCap[y] \in Nat
            BY DEF SeatInv, ClaimInv, SeatCap, TypeOK
        <3>2. CASE y = t
            BY <1>3, <2>2, <2>3, <3>1, <3>2
        <3>3. CASE y # t
            BY <1>3, <1>12, <3>1, <3>3
        <3> QED BY <3>2, <3>3
    <2> QED BY <1>8, <1>9, <1>10, <1>11, <2>4, <2>5 DEF SeatInv, ClaimInv
<1> QED BY <1>4, <1>13, <1>14

\* settle's confirmation finishes work that was waiting for it, or is finished.
LEMMA AutoConfirmStep ==
    ASSUME SeatInv, TypeOK', NEW p \in Passes, NEW t \in Tasks, NEW u \in Users,
           AutoConfirm(p, t, u)
    PROVE  ClaimInv'
<1>0. /\ asg[t][u] \in {"PENDING_CONFIRMATION", "COMPLETED"}
      /\ asg'[t][u] = "COMPLETED"
      /\ \A y \in Tasks, w \in Users : y # t \/ w # u => asg'[y][w] = asg[y][w]
      /\ \A q \in Passes : pass'[q].rows \subseteq pass[q].rows
      /\ UNCHANGED <<req, maxTakers, peakCap>>
    <2>1. asg[t][u] \in {"PENDING_CONFIRMATION", "COMPLETED"}
        BY DEF AutoConfirm, SeatInv, ClaimInv, ReadsStillValid
    <2>2. asg' = [asg EXCEPT ![t][u] = "COMPLETED"] /\ asg \in [Tasks -> [Users -> RowStatus]]
        BY DEF AutoConfirm, SetRow, SeatInv, ClaimInv, TypeOK
    <2>3. \A q \in Passes : pass'[q].rows \subseteq pass[q].rows
        BY DEF AutoConfirm, Advance, SeatInv, ClaimInv, TypeOK
    <2> QED BY <2>1, <2>2, <2>3 DEF AutoConfirm, posting, history
<1>1. \A x \in Slots : OnRow(x)' = OnRow(x) /\ Relied(x)' = Relied(x)
    BY <1>0 DEF OnRow, Relied, Read, Overtaken
<1>2. RowExclusive'
    BY <1>0, <1>1 DEF SeatInv, ClaimInv, RowExclusive
<1>3. ReadsStillValid'
    <2>1. \A x \in Slots : OnRow(x) => req[x].t \in Tasks /\ req[x].u \in Users
        BY ReqTypes DEF SeatInv, ClaimInv, Request, OnRow, Idle, RowOps, TakerOps, OrganizerOps
    <2>2. \A x \in Slots :
            Relied(x) \intersect {"PENDING_CONFIRMATION", "COMPLETED"} = {}
                \/ "COMPLETED" \in Relied(x)
        BY DEF Relied, Read, Overtaken, Working
    <2>3. \A x \in Slots : OnRow(x) => asg'[req[x].t][req[x].u] \in Relied(x)
        BY <1>0, <2>1, <2>2 DEF SeatInv, ClaimInv, ReadsStillValid
    <2> QED BY <1>0, <1>1, <2>3 DEF SeatInv, ClaimInv, ReadsStillValid
<1>4. OneClaimAtATime'
    BY <1>0 DEF SeatInv, ClaimInv, OneClaimAtATime
<1>5. \A y \in Tasks : Holders(y)' = Holders(y) /\ Taken(y)' = Taken(y)
    BY <1>0 DEF Holders, Taken, HOLDS_A_SPOT
<1>6. ClaimsHaveRoom'
    <2>1. \A x \in Slots : req[x] # Idle => req[x].t \in Tasks
        BY ReqTypes DEF SeatInv, ClaimInv, Request
    <2> QED BY <1>0, <1>5, <2>1 DEF SeatInv, ClaimInv, ClaimsHaveRoom, SpotLeft
<1>7. CapsRead' /\ SeatCap'
    BY <1>0, <1>5 DEF SeatInv, ClaimInv, CapsRead, SeatCap
<1> QED BY <1>2, <1>3, <1>4, <1>6, <1>7 DEF SeatInv, ClaimInv

LEMMA RowReadStep ==
    ASSUME SeatInv, TypeOK',
           NEW s \in Slots, NEW t \in Tasks, NEW u \in Users, RowRead(s, t, u)
    PROVE  ClaimInv'
<1>1. /\ maxTakers[t] \in Nat /\ peakCap[t] \in Nat /\ 0 \in Nat
      /\ maxTakers[t] <= peakCap[t] /\ 0 <= peakCap[t]
    BY DEF SeatInv, ClaimInv, TypeOK, CapsRead
<1>2. ASSUME NEW op \in RowOps, NEW at \in {"write", "lock"}, NEW cap \in {0, maxTakers[t]},
             NEW existing \in BOOLEAN,
             Allowed(op, t, u), Begin(s, op, at, t, u, cap, existing), asg[t][u] \in Relied(s)'
      PROVE  ClaimInv'
    BY <1>1, <1>2, BeginStep
<1>3. ASSUME NEW op \in RowOps, NEW at, NEW cap, NEW existing,
             Begin(s, op, at, t, u, cap, existing)
      PROVE  req'[s].op = op /\ req'[s].existing = existing
    BY <1>3 DEF Begin, SeatInv, ClaimInv, TypeOK
<1>4. CASE ApplyRead(s, t, u)
    <2> DEFINE at == IF mode[t] = "AUTO" THEN "lock" ELSE "write"
               existing == asg[t][u] = "WITHDRAWN"
    <2>1. Begin(s, "apply", at, t, u, maxTakers[t], existing) /\ Allowed("apply", t, u)
        BY <1>4 DEF ApplyRead
    <2>2. "apply" \in RowOps /\ at \in {"write", "lock"} /\ existing \in BOOLEAN
        BY DEF RowOps, TakerOps
    <2>3. asg[t][u] \in IF existing THEN {"WITHDRAWN"} ELSE {"NONE"}
        BY <1>4 DEF ApplyRead
    <2> HIDE DEF at, existing
    <2>4. req'[s].op = "apply" /\ req'[s].existing = existing
        BY <1>3, <2>1, <2>2
    <2>5. asg[t][u] \in Relied(s)'
        BY <2>3, <2>4 DEF Relied, Read, Overtaken
    <2> QED BY <1>2, <2>1, <2>2, <2>5
<1>5. CASE AcceptRead(s, t, u)
    <2>1. "accept" \in RowOps
        BY DEF RowOps, OrganizerOps
    <2>2. asg[t][u] \in Relied(s)'
        BY <1>3, <1>5, <2>1 DEF AcceptRead, BeginOnRow, Relied, Read, Overtaken
    <2> QED BY <1>2, <1>5, <2>1, <2>2 DEF AcceptRead, BeginOnRow
<1>6. CASE RejectRead(s, t, u)
    <2>1. "reject" \in RowOps
        BY DEF RowOps, OrganizerOps
    <2>2. asg[t][u] \in Relied(s)'
        BY <1>3, <1>6, <2>1 DEF RejectRead, BeginOnRow, Relied, Read, Overtaken
    <2> QED BY <1>2, <1>6, <2>1, <2>2 DEF RejectRead, BeginOnRow
<1>7. CASE CompleteRead(s, t, u)
    <2>1. "complete" \in RowOps
        BY DEF RowOps, TakerOps
    <2>2. asg[t][u] \in Relied(s)'
        BY <1>3, <1>7, <2>1 DEF CompleteRead, BeginOnRow, Relied, Read, Overtaken, Working
    <2> QED BY <1>2, <1>7, <2>1, <2>2 DEF CompleteRead, BeginOnRow
<1>8. CASE ConfirmRead(s, t, u)
    <2>1. "confirm" \in RowOps
        BY DEF RowOps, OrganizerOps
    <2>2. asg[t][u] \in Relied(s)'
        BY <1>3, <1>8, <2>1 DEF ConfirmRead, BeginOnRow, Relied, Read, Overtaken
    <2> QED BY <1>2, <1>8, <2>1, <2>2 DEF ConfirmRead, BeginOnRow
<1>9. CASE WithdrawRead(s, t, u)
    <2>1. "withdraw" \in RowOps
        BY DEF RowOps, TakerOps
    <2>2. asg[t][u] \in Relied(s)'
        BY <1>3, <1>9, <2>1 DEF WithdrawRead, BeginOnRow, Relied, Read, Overtaken, Working
    <2> QED BY <1>2, <1>9, <2>1, <2>2 DEF WithdrawRead, BeginOnRow
<1>10. CASE CheckinRead(s, t, u)
    <2>1. "checkin" \in RowOps
        BY DEF RowOps, TakerOps
    <2>2. asg[t][u] \in Relied(s)'
        BY <1>3, <1>10, <2>1 DEF CheckinRead, BeginOnRow, Relied, Read, Overtaken
    <2> QED BY <1>2, <1>10, <2>1, <2>2 DEF CheckinRead, BeginOnRow
<1> QED BY <1>4, <1>5, <1>6, <1>7, <1>8, <1>9, <1>10 DEF RowRead

\* What the handler in s writes when it ends.
Written(s) ==
    CASE req[s].op = "apply"    -> ApplyValue(s)
      [] req[s].op = "accept"   -> "ACCEPTED"
      [] req[s].op = "reject"   -> "REJECTED"
      [] req[s].op = "complete" -> "PENDING_CONFIRMATION"
      [] req[s].op = "withdraw" -> "WITHDRAWN"
      [] OTHER                  -> "COMPLETED"

\* Where two requests meet on a row, what one writes the other can do with: it
\* is one of the few things that can overtake it.
LEMMA Meetings ==
    ASSUME SeatInv, Discipline \in {"row", "side"},
           NEW s \in Slots, NEW x \in Slots, Together(s, x)
    PROVE  Written(s) \in Relied(x)
<1>1. Discipline = "side" /\ ~Clash(req[s].op, req[x].op)
    BY DEF Together, SeatInv, ClaimInv, RowExclusive, Clash
<1>2. \/ req[s].op = "apply" /\ req[x].op = "apply"
      \/ req[s].op \in TakerOps /\ req[x].op \in OrganizerOps
      \/ req[s].op \in OrganizerOps /\ req[x].op \in TakerOps
    BY <1>1 DEF Clash, Together, OnRow, RowOps
<1> DEFINE v == asg[req[s].t][req[s].u]
<1>3. v \in Read(s) \union Overtaken(s) /\ v \in Read(x) \union Overtaken(x)
    BY <1>1 DEF Together, SeatInv, ClaimInv, ReadsStillValid, Relied
<1>4. Relied(x) = Read(x) \union Overtaken(x)
    BY <1>1 DEF Relied
<1>5. (req[s].op = "apply" /\ req[x].op \in {"accept", "reject"}) => ApplyValue(s) = "APPLIED"
    <2>1. req[s].op = "apply" => (req[s].at = "write" <=> mode[req[s].t] = "APPROVAL")
        BY <1>1 DEF SeatInv, ModesStand
    <2>2. req[x].op \in {"accept", "reject"} => mode[req[s].t] = "APPROVAL"
        BY <1>1 DEF SeatInv, ModesStand, Together
    <2> QED BY <2>1, <2>2 DEF ApplyValue
<1>6. ApplyValue(s) \in {"ACCEPTED", "APPLIED"}
    BY DEF ApplyValue
<1> HIDE DEF v
<1>7. CASE req[s].op = "apply"
    <2>1. Written(s) = ApplyValue(s)
        BY <1>7 DEF Written
    <2>2. CASE req[x].op = "apply"
        BY <1>4, <1>6, <2>1, <2>2 DEF Overtaken
    <2>3. CASE req[x].op \in {"accept", "reject"}
        BY <1>4, <1>5, <1>7, <2>1, <2>3 DEF Read
    <2>4. CASE req[x].op = "confirm"
        BY <1>3, <1>7, <2>4 DEF Read, Overtaken
    <2> QED BY <1>2, <1>7, <2>2, <2>3, <2>4 DEF TakerOps, OrganizerOps
<1>8. CASE req[s].op \in {"complete", "checkin"}
    BY <1>2, <1>3, <1>8 DEF Read, Overtaken, Working, TakerOps, OrganizerOps
<1>9. CASE req[s].op = "withdraw"
    <2>1. Written(s) = "WITHDRAWN"
        BY <1>9 DEF Written
    <2> QED BY <1>2, <1>3, <1>4, <1>9, <2>1 DEF Read, Overtaken, Working, TakerOps, OrganizerOps
<1>10. CASE req[s].op = "accept"
    <2>1. Written(s) = "ACCEPTED"
        BY <1>10 DEF Written
    <2> QED BY <1>2, <1>3, <1>4, <1>10, <2>1 DEF Read, Overtaken, Working, TakerOps, OrganizerOps
<1>11. CASE req[s].op = "reject"
    <2>1. Written(s) = "REJECTED"
        BY <1>11 DEF Written
    <2> QED BY <1>2, <1>3, <1>4, <1>11, <2>1 DEF Read, Overtaken, Working, TakerOps, OrganizerOps
<1>12. CASE req[s].op = "confirm"
    BY <1>2, <1>3, <1>12 DEF Read, Overtaken, Working, TakerOps, OrganizerOps
<1> QED BY <1>7, <1>8, <1>9, <1>10, <1>11, <1>12 DEF Together, OnRow, RowOps, TakerOps, OrganizerOps

LEMMA ReqStepStep ==
    ASSUME SeatInv, TypeOK', Discipline \in {"row", "side"},
           NEW s \in Slots, ReqStep(s) \/ ReqFail(s)
    PROVE  ClaimInv'
<1>1. ASSUME UNCHANGED <<asg, pass, maxTakers, peakCap>>, Finish(s)
      PROVE  ClaimInv'
    <2>1. \A x \in Slots : req'[x] = req[x] \/ req'[x] = Idle
        BY <1>1 DEF Finish, SeatInv, ClaimInv, TypeOK
    <2>2. \A t \in Tasks : peakCap[t] <= peakCap'[t] /\ maxTakers'[t] <= peakCap'[t]
        BY <1>1 DEF SeatInv, ClaimInv, TypeOK, CapsRead
    <2> QED BY <1>1, <2>1, <2>2, QuietStep
<1>w. ASSUME NEW v \in RowStatus, v = Written(s)
      PROVE  \A x \in Slots : Together(s, x) => v \in Relied(x)
    BY <1>w, Meetings
<1>2. CASE CountSpots(s)
    BY <1>2, CountStep
<1>3. CASE CountFull(s) \/ ApplyDuplicate(s) \/ CancelWrite(s) \/ ReqFail(s)
    BY <1>1, <1>3 DEF CountFull, ApplyDuplicate, CancelWrite, ReqFail, posting, history
<1>4. CASE PatchWrite(s)
    <2>1. \A x \in Slots : req'[x] = req[x] \/ req'[x] = Idle
        BY <1>4 DEF PatchWrite, Finish, SeatInv, ClaimInv, TypeOK
    <2>2. \A t \in Tasks : peakCap[t] <= peakCap'[t] /\ maxTakers'[t] <= peakCap'[t]
        <3>1. PICK c \in PatchCaps : SetCap(req[s].t, c)
            BY <1>4 DEF PatchWrite
        <3>2. c \in Nat
            BY CapsArePositive
        <3> QED BY <3>1, <3>2 DEF SetCap, SeatInv, ClaimInv, TypeOK, CapsRead
    <2> QED BY <1>4, <2>1, <2>2, QuietStep DEF PatchWrite
<1>5. CASE ApplyWrite(s)
    <2>1. OnRow(s) /\ WriteRow(s, ApplyValue(s)) /\ ApplyValue(s) \in {"ACCEPTED", "APPLIED"}
        BY <1>5 DEF ApplyWrite, At, OnRow, RowOps, TakerOps, ApplyValue
    <2>2. ApplyValue(s) \in HOLDS_A_SPOT => req[s].at = "commit"
        BY DEF ApplyValue, HOLDS_A_SPOT
    <2>3. Relied(s) \intersect {"PENDING_CONFIRMATION", "COMPLETED"} = {}
        BY <1>5 DEF ApplyWrite, At, Relied, Read, Overtaken
    <2>4. ApplyValue(s) \in RowStatus
        BY <2>1 DEF RowStatus
    <2>5. ApplyValue(s) = Written(s)
        BY <1>5 DEF ApplyWrite, At, Written
    <2>6. \A v \in RowStatus : v = ApplyValue(s) => ClaimInv'
        BY <1>w, <2>1, <2>2, <2>3, <2>5, WriteStep
    <2> QED BY <2>4, <2>6
<1>6. CASE AcceptWrite(s)
    <2>1. OnRow(s) /\ WriteRow(s, "ACCEPTED") /\ "ACCEPTED" \in RowStatus
        BY <1>6 DEF AcceptWrite, At, OnRow, RowOps, OrganizerOps, RowStatus
    <2>2. req[s].at = "commit" /\ Relied(s) \intersect {"PENDING_CONFIRMATION", "COMPLETED"} = {}
        BY <1>6 DEF AcceptWrite, At, Relied, Read, Overtaken
    <2>3. "ACCEPTED" = Written(s)
        BY <1>6 DEF AcceptWrite, At, Written
    <2> QED BY <1>w, <2>1, <2>2, <2>3, WriteStep
<1>7. CASE RejectWrite(s)
    <2>1. OnRow(s) /\ WriteRow(s, "REJECTED") /\ "REJECTED" \in RowStatus
        BY <1>7 DEF RejectWrite, At, OnRow, RowOps, OrganizerOps, RowStatus
    <2>2. "REJECTED" \notin HOLDS_A_SPOT
        BY DEF HOLDS_A_SPOT
    <2>3. Relied(s) \intersect {"PENDING_CONFIRMATION", "COMPLETED"} = {}
        BY <1>7 DEF RejectWrite, At, Relied, Read, Overtaken
    <2>4. "REJECTED" = Written(s)
        BY <1>7 DEF RejectWrite, At, Written
    <2> QED BY <1>w, <2>1, <2>2, <2>3, <2>4, WriteStep
<1>8. CASE CompleteWrite(s)
    <2>1. /\ OnRow(s) /\ WriteRow(s, "PENDING_CONFIRMATION")
          /\ "PENDING_CONFIRMATION" \in RowStatus
        BY <1>8 DEF CompleteWrite, At, OnRow, RowOps, TakerOps, RowStatus
    <2>2. /\ Relied(s) \subseteq HOLDS_A_SPOT
          /\ Relied(s) \intersect {"PENDING_CONFIRMATION", "COMPLETED"} = {}
        BY <1>8 DEF CompleteWrite, At, Relied, Read, Overtaken, Working, HOLDS_A_SPOT
    <2>3. "PENDING_CONFIRMATION" = Written(s)
        BY <1>8 DEF CompleteWrite, At, Written
    <2> QED BY <1>w, <2>1, <2>2, <2>3, WriteStep
<1>9. CASE ConfirmWrite(s)
    <2>1. OnRow(s) /\ WriteRow(s, "COMPLETED") /\ "COMPLETED" \in RowStatus
        BY <1>9 DEF ConfirmWrite, At, OnRow, RowOps, OrganizerOps, RowStatus
    <2>2. Relied(s) \subseteq HOLDS_A_SPOT
        BY <1>9 DEF ConfirmWrite, At, Relied, Read, Overtaken, HOLDS_A_SPOT
    <2>3. "COMPLETED" = Written(s)
        BY <1>9 DEF ConfirmWrite, At, Written
    <2> QED BY <1>w, <2>1, <2>2, <2>3, WriteStep
<1>10. CASE WithdrawWrite(s)
    <2>1. OnRow(s) /\ WriteRow(s, "WITHDRAWN") /\ "WITHDRAWN" \in RowStatus
        BY <1>10 DEF WithdrawWrite, At, OnRow, RowOps, TakerOps, RowStatus
    <2>2. "WITHDRAWN" \notin HOLDS_A_SPOT
        BY DEF HOLDS_A_SPOT
    <2>3. Relied(s) \intersect {"PENDING_CONFIRMATION", "COMPLETED"} = {}
        BY <1>10 DEF WithdrawWrite, At, Relied, Read, Overtaken, Working
    <2>4. "WITHDRAWN" = Written(s)
        BY <1>10 DEF WithdrawWrite, At, Written
    <2> QED BY <1>w, <2>1, <2>2, <2>3, <2>4, WriteStep
<1>11. CASE CheckinWrite(s)
    <2>1. OnRow(s) /\ WriteRow(s, "COMPLETED") /\ "COMPLETED" \in RowStatus
        BY <1>11 DEF CheckinWrite, At, OnRow, RowOps, TakerOps, RowStatus
    <2>2. Relied(s) \subseteq HOLDS_A_SPOT
        BY <1>11 DEF CheckinWrite, At, Relied, Read, Overtaken, HOLDS_A_SPOT
    <2>3. "COMPLETED" = Written(s)
        BY <1>11 DEF CheckinWrite, At, Written
    <2> QED BY <1>w, <2>1, <2>2, <2>3, WriteStep
<1> QED BY <1>2, <1>3, <1>4, <1>5, <1>6, <1>7, <1>8, <1>9, <1>10, <1>11 DEF ReqStep

LEMMA PassStep ==
    ASSUME SeatInv, TypeOK', NEW p \in Passes, PassRead(p) \/ PassWrite(p) \/ PassFail(p)
    PROVE  ClaimInv'
<1>1. \A t \in Tasks : peakCap[t] <= peakCap[t] /\ maxTakers[t] <= peakCap[t]
    BY DEF SeatInv, ClaimInv, TypeOK, CapsRead
<1>2. ASSUME UNCHANGED <<asg, req, maxTakers, peakCap>>,
             \A q \in Passes : pass'[q].rows \subseteq pass[q].rows
      PROVE  ClaimInv'
    BY <1>1, <1>2, QuietStep
<1>3. CASE DueRead(p)
    <2> DEFINE due == {r \in Tasks \X Users : Due(r[1], r[2])}
    <2>1. /\ pass'[p].rows = due /\ \A q \in Passes : q # p => pass'[q] = pass[q]
          /\ UNCHANGED <<asg, req, maxTakers, peakCap>>
        BY <1>3 DEF DueRead, Advance, SeatInv, ClaimInv, TypeOK, posting, history
    <2>2. \A t \in Tasks, u \in Users : <<t, u>> \in due => asg[t][u] = "PENDING_CONFIRMATION"
        BY DEF Due
    <2> HIDE DEF due
    <2>3. ReadsStillValid'
        <3>1. \A x \in Slots : OnRow(x)' = OnRow(x) /\ Relied(x)' = Relied(x)
            BY <2>1 DEF OnRow, Relied, Read, Overtaken
        <3> QED BY <2>1, <2>2, <3>1 DEF SeatInv, ClaimInv, ReadsStillValid
    <2>4. RowExclusive' /\ OneClaimAtATime' /\ CapsRead'
        BY <2>1 DEF SeatInv, ClaimInv, RowExclusive, OnRow, OneClaimAtATime, CapsRead
    <2>5. ClaimsHaveRoom' /\ SeatCap'
        <3>1. \A x \in Slots : req[x] # Idle => req[x].t \in Tasks
            BY ReqTypes DEF SeatInv, ClaimInv, Request
        <3> QED BY <2>1, <3>1, SameHolders DEF SeatInv, ClaimInv, ClaimsHaveRoom, SpotLeft, SeatCap
    <2> QED BY <2>3, <2>4, <2>5 DEF SeatInv, ClaimInv
<1>4. CASE ~DueRead(p)
    <2>1. \A q \in Passes : pass'[q].rows \subseteq pass[q].rows
        BY <1>4, PassRows DEF SeatInv, ClaimInv
    <2>2. UNCHANGED <<asg, req, maxTakers, peakCap>>
        BY <1>4 DEF PassRead, ExpiredRead, FullRead, FinishedRead, PassWrite, ExpiredWrite,
                    FullWrite, FinishedWrite, PassFail, posting, history
    <2> QED BY <1>2, <2>1, <2>2
<1> QED BY <1>3, <1>4

\* A posting never ceases to exist and, where there are no edits, keeps its
\* capacity and its mode.
LEMMA PostingsRemain ==
    ASSUME TypeOK, [Next]_vars, NEW t \in Tasks, status[t] # "ABSENT"
    PROVE  /\ status'[t] # "ABSENT"
           /\ PatchCaps = {} => maxTakers'[t] = maxTakers[t] /\ mode'[t] = mode[t]
<1> DEFINE Remains == /\ status'[t] # "ABSENT"
                      /\ PatchCaps = {} => maxTakers'[t] = maxTakers[t] /\ mode'[t] = mode[t]
<1>0. /\ status \in [Tasks -> TaskStatus] /\ maxTakers \in [Tasks -> Nat]
      /\ mode \in [Tasks -> Modes]
    BY DEF TypeOK
<1>1. ASSUME NEW x \in Tasks, Create(x) PROVE Remains
    BY <1>0, <1>1 DEF Create, SetCap
<1>2. ASSUME UNCHANGED <<status, maxTakers, mode>> PROVE Remains
    BY <1>2
<1>3. ASSUME NEW s \in Slots, ReqStep(s) PROVE Remains
    <2>1. CASE CancelWrite(s)
        BY <1>0, <2>1 DEF CancelWrite
    <2>2. CASE PatchWrite(s)
        BY <2>2 DEF PatchWrite
    <2>3. CASE ~CancelWrite(s) /\ ~PatchWrite(s)
        BY <1>2, <1>3, <2>3 DEF ReqStep, CountSpots, CountFull, ApplyWrite, ApplyDuplicate,
               AcceptWrite, RejectWrite, CompleteWrite, ConfirmWrite, WithdrawWrite, CheckinWrite,
               WriteRow, posting
    <2> QED BY <2>1, <2>2, <2>3
<1>4. ASSUME NEW p \in Passes, PassWrite(p) PROVE Remains
    BY <1>4 DEF PassWrite, ExpiredWrite, FullWrite, FinishedWrite, SettleStatus
<1>5. ASSUME NEW p \in Passes, PassRead(p) \/ PassFail(p) PROVE Remains
    BY <1>2, <1>5 DEF PassRead, DueRead, ExpiredRead, FullRead, FinishedRead, PassFail, posting
<1>6. ASSUME NEW s \in Slots, NEW x \in Tasks, NEW u \in Users, RowRead(s, x, u) PROVE Remains
    BY <1>2, <1>6 DEF RowRead, ApplyRead, AcceptRead, RejectRead, CompleteRead, ConfirmRead,
                WithdrawRead, CheckinRead, BeginOnRow, Begin, posting
<1>7. ASSUME NEW s \in Slots, NEW x \in Tasks, CancelRead(s, x) \/ PatchRead(s, x) PROVE Remains
    BY <1>2, <1>7 DEF CancelRead, PatchRead, Begin, posting
<1>8. ASSUME NEW s \in Slots, ReqFail(s) PROVE Remains
    BY <1>2, <1>8 DEF ReqFail, posting
<1>9. ASSUME NEW x \in Tasks, NEW u \in Users, SevenDaysPass(x, u) PROVE Remains
    BY <1>2, <1>9 DEF SevenDaysPass, posting
<1>10. ASSUME NEW x \in Tasks, DeadlinePasses(x) PROVE Remains
    BY <1>2, <1>10 DEF DeadlinePasses
<1>11. ASSUME NEW p \in Passes, NEW x \in Tasks, NEW u \in Users, AutoConfirm(p, x, u) PROVE Remains
    BY <1>2, <1>11 DEF AutoConfirm, posting
<1>12. CASE UNCHANGED vars
    BY <1>2, <1>12 DEF vars
<1> QED BY <1>1, <1>3, <1>4, <1>5, <1>6, <1>7, <1>8, <1>9, <1>10, <1>11, <1>12 DEF Next

\* Nothing is read or written about a posting that was not created.
LEMMA PostedStep ==
    ASSUME SeatInv, [Next]_vars
    PROVE  OnlyPosted'
<1>0. /\ asg \in [Tasks -> [Users -> RowStatus]] /\ req \in [Slots -> {Idle} \union Request]
      /\ \A s \in Slots : req[s] # Idle => req[s].t \in Tasks /\ req[s].u \in Users
    BY ReqTypes DEF SeatInv, ClaimInv, TypeOK, Request
<1>1. \A t \in Tasks : status[t] # "ABSENT" => status'[t] # "ABSENT"
    BY PostingsRemain DEF SeatInv, ClaimInv
<1>2. ASSUME \A t \in Tasks : status[t] = "ABSENT" => asg'[t] = asg[t],
             \A s \in Slots : \/ req'[s] = Idle
                              \/ req[s] # Idle /\ req'[s].t = req[s].t
      PROVE  OnlyPosted'
    BY <1>0, <1>1, <1>2 DEF SeatInv, OnlyPosted
<1>3. ASSUME UNCHANGED <<asg, req>> PROVE OnlyPosted'
    BY <1>2, <1>3
<1>4. ASSUME NEW s \in Slots, NEW op, NEW at, NEW t \in Tasks, NEW u, NEW cap, NEW existing,
             Begin(s, op, at, t, u, cap, existing), status[t] # "ABSENT"
      PROVE  OnlyPosted'
    <2>1. /\ req'[s].t = t /\ \A x \in Slots : x # s => req'[x] = req[x]
          /\ UNCHANGED <<asg, status>>
        BY <1>0, <1>4 DEF Begin, posting
    <2> QED BY <1>4, <2>1 DEF SeatInv, OnlyPosted
<1>5. ASSUME NEW s \in Slots, NEW t \in Tasks, NEW u \in Users, RowRead(s, t, u) PROVE OnlyPosted'
    <2>1. PICK op, at, cap, existing : Begin(s, op, at, t, u, cap, existing)
        BY <1>5 DEF RowRead, ApplyRead, AcceptRead, RejectRead, CompleteRead, ConfirmRead,
                    WithdrawRead, CheckinRead, BeginOnRow
    <2>2. status[t] # "ABSENT" \/ asg[t][u] # "NONE"
        BY <1>5 DEF RowRead, ApplyRead, AcceptRead, RejectRead, CompleteRead, ConfirmRead,
                    WithdrawRead, CheckinRead, Working
    <2>3. status[t] # "ABSENT"
        BY <2>2 DEF SeatInv, OnlyPosted
    <2> QED BY <1>4, <2>1, <2>3
<1>6. ASSUME NEW s \in Slots, NEW t \in Tasks, CancelRead(s, t) \/ PatchRead(s, t)
      PROVE  OnlyPosted'
    BY <1>4, <1>6 DEF CancelRead, PatchRead
<1>7. ASSUME NEW s \in Slots, ReqStep(s) \/ ReqFail(s) PROVE OnlyPosted'
    <2>1. CASE CountSpots(s)
        BY <1>0, <1>2, <2>1 DEF CountSpots, Request
    <2>2. CASE ReqFail(s) \/ CountFull(s) \/ ApplyDuplicate(s) \/ CancelWrite(s) \/ PatchWrite(s)
        BY <1>0, <1>2, <2>2
        DEF ReqFail, CountFull, ApplyDuplicate, CancelWrite, PatchWrite, Finish
    <2>3. ASSUME NEW v, WriteRow(s, v), req[s] # Idle PROVE OnlyPosted'
        <3>1. \A t \in Tasks : status[t] = "ABSENT" => asg'[t] = asg[t]
            BY <1>0, <2>3 DEF WriteRow, SetRow, SeatInv, OnlyPosted
        <3> QED BY <1>0, <1>2, <2>3, <3>1 DEF WriteRow, Finish
    <2> QED BY <1>7, <2>1, <2>2, <2>3
            DEF ReqStep, ApplyWrite, AcceptWrite, RejectWrite, CompleteWrite, ConfirmWrite,
                WithdrawWrite, CheckinWrite, At
<1>8. ASSUME NEW p \in Passes, NEW t \in Tasks, NEW u \in Users, AutoConfirm(p, t, u)
      PROVE  OnlyPosted'
    <2>1. asg[t][u] # "NONE"
        BY <1>8 DEF AutoConfirm, SeatInv, ClaimInv, ReadsStillValid
    <2>2. status[t] # "ABSENT"
        BY <2>1 DEF SeatInv, OnlyPosted
    <2>3. \A x \in Tasks : status[x] = "ABSENT" => asg'[x] = asg[x]
        BY <1>0, <1>8, <2>2 DEF AutoConfirm, SetRow
    <2> QED BY <1>2, <1>8, <2>3 DEF AutoConfirm
<1>9. ASSUME NEW t \in Tasks, Create(t) \/ DeadlinePasses(t) PROVE OnlyPosted'
    BY <1>3, <1>9 DEF Create, DeadlinePasses
<1>10. ASSUME NEW p \in Passes, PassRead(p) \/ PassWrite(p) \/ PassFail(p) PROVE OnlyPosted'
    BY <1>3, <1>10 DEF PassRead, DueRead, ExpiredRead, FullRead, FinishedRead, PassWrite,
                 ExpiredWrite, FullWrite, FinishedWrite, PassFail
<1>11. ASSUME NEW t \in Tasks, NEW u \in Users, SevenDaysPass(t, u) PROVE OnlyPosted'
    BY <1>3, <1>11 DEF SevenDaysPass
<1>12. CASE UNCHANGED vars
    BY <1>3, <1>12 DEF vars
<1> QED BY <1>5, <1>6, <1>7, <1>8, <1>9, <1>10, <1>11, <1>12 DEF Next

\* Where no edit changes the mode, an application waits only where the poster
\* is to answer it, and an answer is under way only there.
LEMMA ModesStep ==
    ASSUME SeatInv, [Next]_vars, Discipline = "side" => PatchCaps = {}
    PROVE  ModesStand'
<1> SUFFICES ASSUME Discipline = "side" PROVE ModesStand'
    BY DEF ModesStand
<1>0. /\ PatchCaps = {}
      /\ asg \in [Tasks -> [Users -> RowStatus]] /\ req \in [Slots -> {Idle} \union Request]
      /\ \A s \in Slots : req[s] # Idle => req[s].t \in Tasks /\ req[s].u \in Users
    BY ReqTypes DEF SeatInv, ClaimInv, TypeOK, Request
<1>1. \A t \in Tasks : status[t] # "ABSENT" => mode'[t] = mode[t]
    BY <1>0, PostingsRemain DEF SeatInv, ClaimInv
<1> DEFINE Stands(r) ==
        r.op \in {"apply", "accept", "reject"} =>
            /\ r.t \in Tasks /\ status[r.t] # "ABSENT"
            /\ r.op = "apply" => (r.at = "write" <=> mode[r.t] = "APPROVAL")
            /\ r.op \in {"accept", "reject"} => mode[r.t] = "APPROVAL"
<1>2. \A s \in Slots : Stands(req[s])
    <2> SUFFICES ASSUME NEW s \in Slots, req[s].op \in {"apply", "accept", "reject"}
                 PROVE  Stands(req[s])
        OBVIOUS
    <2>1. req[s] # Idle
        BY DEF Idle
    <2> QED BY <1>0, <2>1 DEF SeatInv, OnlyPosted, ModesStand
<1>3. Stands(Idle)
    BY DEF Idle
\* A row stays as it is, or is written where the poster is to answer.
<1>4. ASSUME \A t \in Tasks, u \in Users : asg'[t][u] = "APPLIED" =>
                 asg[t][u] = "APPLIED" \/ (status[t] # "ABSENT" /\ mode[t] = "APPROVAL"),
             \A s \in Slots : Stands(req'[s])
      PROVE  ModesStand'
    <2>1. \A t \in Tasks, u \in Users : asg'[t][u] = "APPLIED" => mode'[t] = "APPROVAL"
        BY <1>1, <1>4 DEF SeatInv, OnlyPosted, ModesStand
    <2>2. \A s \in Slots :
            /\ req'[s].op = "apply" => (req'[s].at = "write" <=> mode'[req'[s].t] = "APPROVAL")
            /\ req'[s].op \in {"accept", "reject"} => mode'[req'[s].t] = "APPROVAL"
        BY <1>1, <1>4
    <2> QED BY <2>1, <2>2 DEF ModesStand
<1>5. ASSUME UNCHANGED asg, \A s \in Slots : req'[s] = req[s] \/ req'[s] = Idle
      PROVE  ModesStand'
    BY <1>2, <1>3, <1>4, <1>5
<1>6. ASSUME NEW s \in Slots, NEW op, NEW at, NEW t \in Tasks, NEW u, NEW cap, NEW existing,
             Begin(s, op, at, t, u, cap, existing), status[t] # "ABSENT",
             op = "apply" => (at = "write" <=> mode[t] = "APPROVAL"),
             op \in {"accept", "reject"} => mode[t] = "APPROVAL"
      PROVE  ModesStand'
    <2>1. /\ req'[s].op = op /\ req'[s].at = at /\ req'[s].t = t
          /\ \A x \in Slots : x # s => req'[x] = req[x]
          /\ UNCHANGED asg
        BY <1>0, <1>6 DEF Begin
    <2>2. Stands(req'[s])
        BY <1>6, <2>1
    <2>3. \A x \in Slots : Stands(req'[x])
        BY <1>2, <2>1, <2>2
    <2> QED BY <1>4, <2>1, <2>3
<1>7. ASSUME NEW s \in Slots, NEW t \in Tasks, NEW u \in Users, RowRead(s, t, u) PROVE ModesStand'
    <2>1. CASE ApplyRead(s, t, u)
        <3> DEFINE at == IF mode[t] = "AUTO" THEN "lock" ELSE "write"
                   existing == asg[t][u] = "WITHDRAWN"
        <3>1. Begin(s, "apply", at, t, u, maxTakers[t], existing) /\ status[t] # "ABSENT"
            BY <2>1 DEF ApplyRead
        <3>2. at = "write" <=> mode[t] = "APPROVAL"
            BY DEF SeatInv, ClaimInv, TypeOK, Modes
        <3> HIDE DEF at, existing
        <3> QED BY <1>6, <3>1, <3>2
    <2>2. CASE AcceptRead(s, t, u) \/ RejectRead(s, t, u)
        <3>1. asg[t][u] = "APPLIED"
            BY <2>2 DEF AcceptRead, RejectRead
        <3>2. status[t] # "ABSENT" /\ mode[t] = "APPROVAL"
            BY <3>1 DEF SeatInv, OnlyPosted, ModesStand
        <3>3. PICK op \in {"accept", "reject"} : \E at, cap : Begin(s, op, at, t, u, cap, TRUE)
            BY <2>2 DEF AcceptRead, RejectRead, BeginOnRow
        <3>4. PICK at, cap : Begin(s, op, at, t, u, cap, TRUE)
            BY <3>3
        <3> QED BY <1>6, <3>2, <3>4
    <2>3. CASE \/ CompleteRead(s, t, u) \/ ConfirmRead(s, t, u)
               \/ WithdrawRead(s, t, u) \/ CheckinRead(s, t, u)
        <3>1. PICK op \in {"complete", "confirm", "withdraw", "checkin"} :
                    Begin(s, op, "write", t, u, 0, TRUE)
            BY <2>3 DEF CompleteRead, ConfirmRead, WithdrawRead, CheckinRead, BeginOnRow
        <3>2. asg[t][u] # "NONE"
            BY <2>3 DEF CompleteRead, ConfirmRead, WithdrawRead, CheckinRead, Working
        <3>3. status[t] # "ABSENT"
            BY <3>2 DEF SeatInv, OnlyPosted
        <3> QED BY <1>6, <3>1, <3>3
    <2> QED BY <1>7, <2>1, <2>2, <2>3 DEF RowRead
<1>8. ASSUME NEW s \in Slots, NEW t \in Tasks, CancelRead(s, t) \/ PatchRead(s, t)
      PROVE  ModesStand'
    BY <1>6, <1>8 DEF CancelRead, PatchRead
<1>9. ASSUME NEW s \in Slots, ReqStep(s) \/ ReqFail(s) PROVE ModesStand'
    <2>1. CASE CountSpots(s)
        <3>1. /\ req'[s].op = req[s].op /\ req'[s].t = req[s].t
              /\ req[s].at = "lock" /\ req'[s].at = "commit"
              /\ \A x \in Slots : x # s => req'[x] = req[x]
              /\ UNCHANGED asg
            BY <1>0, <2>1 DEF CountSpots, Request
        <3>2. Stands(req'[s])
            BY <1>2, <3>1
        <3> QED BY <1>2, <1>4, <3>1, <3>2
    <2>2. CASE ReqFail(s) \/ CountFull(s) \/ ApplyDuplicate(s) \/ CancelWrite(s)
        BY <1>0, <1>5, <2>2 DEF ReqFail, CountFull, ApplyDuplicate, CancelWrite, Finish
    <2>3. CASE PatchWrite(s)
        BY <1>0, <2>3 DEF PatchWrite
    <2>4. ASSUME NEW v, WriteRow(s, v), req[s] # Idle,
                 v = "APPLIED" => status[req[s].t] # "ABSENT" /\ mode[req[s].t] = "APPROVAL"
          PROVE  ModesStand'
        <3>1. \A t \in Tasks, u \in Users : asg'[t][u] = "APPLIED" =>
                 asg[t][u] = "APPLIED" \/ (status[t] # "ABSENT" /\ mode[t] = "APPROVAL")
            BY <1>0, <2>4 DEF WriteRow, SetRow
        <3>2. \A x \in Slots : req'[x] = req[x] \/ req'[x] = Idle
            BY <1>0, <2>4 DEF WriteRow, Finish
        <3> QED BY <1>2, <1>3, <1>4, <3>1, <3>2
    <2>5. CASE ApplyWrite(s)
        <3>1. WriteRow(s, ApplyValue(s)) /\ req[s] # Idle /\ req[s].op = "apply"
              /\ req[s].at \in {"write", "commit"}
            BY <2>5 DEF ApplyWrite, At
        <3>2. ApplyValue(s) = "APPLIED" =>
                    status[req[s].t] # "ABSENT" /\ mode[req[s].t] = "APPROVAL"
            BY <1>2, <3>1 DEF ApplyValue
        <3> HIDE DEF Stands
        <3> QED BY <2>4, <3>1, <3>2
    <2> QED BY <1>9, <2>1, <2>2, <2>3, <2>4, <2>5
            DEF ReqStep, AcceptWrite, RejectWrite, CompleteWrite, ConfirmWrite, WithdrawWrite,
                CheckinWrite, At
<1>10. ASSUME NEW p \in Passes, NEW t \in Tasks, NEW u \in Users, AutoConfirm(p, t, u)
       PROVE  ModesStand'
    <2>1. \A x \in Tasks, w \in Users : asg'[x][w] = "APPLIED" => asg[x][w] = "APPLIED"
        BY <1>0, <1>10 DEF AutoConfirm, SetRow
    <2> QED BY <1>2, <1>4, <1>10, <2>1 DEF AutoConfirm
<1>11. ASSUME NEW t \in Tasks, Create(t) \/ DeadlinePasses(t) PROVE ModesStand'
    BY <1>5, <1>11 DEF Create, DeadlinePasses
<1>12. ASSUME NEW p \in Passes, PassRead(p) \/ PassWrite(p) \/ PassFail(p) PROVE ModesStand'
    BY <1>5, <1>12 DEF PassRead, DueRead, ExpiredRead, FullRead, FinishedRead, PassWrite,
                 ExpiredWrite, FullWrite, FinishedWrite, PassFail
<1>13. ASSUME NEW t \in Tasks, NEW u \in Users, SevenDaysPass(t, u) PROVE ModesStand'
    BY <1>5, <1>13 DEF SevenDaysPass
<1>14. CASE UNCHANGED vars
    BY <1>5, <1>14 DEF vars
<1> QED BY <1>7, <1>8, <1>9, <1>10, <1>11, <1>12, <1>13, <1>14 DEF Next

LEMMA SeatInit == Init => SeatInv
<1> SUFFICES ASSUME Init PROVE SeatInv OBVIOUS
<1>1. TypeOK
    BY TypeInit
<1>2. RowExclusive /\ ReadsStillValid /\ OneClaimAtATime /\ ClaimsHaveRoom /\ CapsRead
    BY DEF Init, RowExclusive, ReadsStillValid, OnRow, Idle, RowOps, TakerOps, OrganizerOps,
           OneClaimAtATime, ClaimsHaveRoom, CapsRead, AtRest
<1>3. SeatCap
    <2>1. \A t \in Tasks : Holders(t) = {}
        BY DEF Init, Holders, HOLDS_A_SPOT
    <2>2. Cardinality({}) = 0
        BY FS_EmptySet
    <2>3. \A t \in Tasks : Taken(t) = 0 /\ peakCap[t] = 0
        BY <2>1, <2>2 DEF Init, Taken
    <2> QED BY <2>3 DEF SeatCap
<1>4. OnlyPosted /\ ModesStand
    BY DEF Init, OnlyPosted, ModesStand, Idle
<1> QED BY <1>1, <1>2, <1>3, <1>4 DEF SeatInv, ClaimInv

\* Requests on a row are serialized, or each side's are and no edit moves the
\* mode of a posting under them.
Serialized == Discipline = "row" \/ (Discipline = "side" /\ PatchCaps = {})

LEMMA SeatStep ==
    ASSUME Serialized, SeatInv, [Next]_vars
    PROVE  SeatInv'
<1>1. TypeOK'
    BY TypeStep DEF SeatInv, ClaimInv
<1>2. \A t \in Tasks : peakCap[t] <= peakCap[t] /\ maxTakers[t] <= peakCap[t]
    BY DEF SeatInv, ClaimInv, TypeOK, CapsRead
<1>3. ASSUME UNCHANGED <<asg, req, pass, maxTakers, peakCap>>
      PROVE  ClaimInv'
    BY <1>1, <1>2, <1>3, QuietStep
<1>4. ASSUME NEW t \in Tasks, Create(t) PROVE ClaimInv'
    <2>1. PICK c \in Caps : SetCap(t, c)
        BY <1>4 DEF Create
    <2>2. c \in Nat
        BY CapsArePositive
    <2>3. \A x \in Tasks : peakCap[x] <= peakCap'[x] /\ maxTakers'[x] <= peakCap'[x]
        BY <2>1, <2>2 DEF SetCap, SeatInv, ClaimInv, TypeOK, CapsRead
    <2> QED BY <1>1, <1>4, <2>3, QuietStep DEF Create
<1>5. ASSUME NEW s \in Slots, NEW t \in Tasks, NEW u \in Users, RowRead(s, t, u) PROVE ClaimInv'
    BY <1>1, <1>5, RowReadStep
<1>6. ASSUME NEW s \in Slots, NEW t \in Tasks, CancelRead(s, t) \/ PatchRead(s, t) PROVE ClaimInv'
    <2>1. PICK op \in TaskOps : Begin(s, op, "write", t, Poster[t], 0, TRUE)
        BY <1>6 DEF CancelRead, PatchRead, TaskOps
    <2>2. Poster[t] \in Users /\ 0 <= peakCap[t] /\ op \notin RowOps
        BY PostersAreUsers DEF SeatInv, ClaimInv, TypeOK, TaskOps, RowOps, TakerOps, OrganizerOps
    <2> QED BY <1>1, <2>1, <2>2, BeginStep
<1>7. ASSUME NEW s \in Slots, ReqStep(s) \/ ReqFail(s) PROVE ClaimInv'
    BY <1>1, <1>7, ReqStepStep DEF Serialized
<1>8. ASSUME NEW t \in Tasks, NEW u \in Users, SevenDaysPass(t, u) PROVE ClaimInv'
    BY <1>3, <1>8 DEF SevenDaysPass, posting, history
<1>9. ASSUME NEW t \in Tasks, DeadlinePasses(t) PROVE ClaimInv'
    BY <1>3, <1>9 DEF DeadlinePasses, history
<1>10. ASSUME NEW p \in Passes, PassRead(p) \/ PassWrite(p) \/ PassFail(p) PROVE ClaimInv'
    BY <1>1, <1>10, PassStep
<1>11. ASSUME NEW p \in Passes, NEW t \in Tasks, NEW u \in Users, AutoConfirm(p, t, u)
       PROVE  ClaimInv'
    BY <1>1, <1>11, AutoConfirmStep
<1>12. ASSUME UNCHANGED vars PROVE ClaimInv'
    BY <1>3, <1>12 DEF vars, history
<1>13. ClaimInv'
    BY <1>4, <1>5, <1>6, <1>7, <1>8, <1>9, <1>10, <1>11, <1>12 DEF Next
<1>14. OnlyPosted' /\ ModesStand'
    BY PostedStep, ModesStep DEF Serialized
<1> QED BY <1>13, <1>14 DEF SeatInv

\* The whole inductive invariant, where requests are serialized (Serialized):
\* what a handler's guards accepted still holds when it writes, or has become
\* what the other side may make of it, and the count made under the lock still
\* leaves a spot when the claim commits.
THEOREM SeatInvariance ==
    ASSUME Serialized
    PROVE  Spec => []SeatInv
BY SeatInit, SeatStep, PTL DEF Spec

\* No posting ever seats more helpers than the largest capacity it has had,
\* for any number of users, postings, requests and settle passes in flight.
THEOREM SeatsNeverOverbooked ==
    ASSUME Serialized
    PROVE  Spec => []SeatCap
<1>1. SeatInv => SeatCap
    BY DEF SeatInv, ClaimInv
<1> QED BY <1>1, SeatInvariance, PTL

-----------------------------------------------------------------------------
(* The seats granted, however requests overlap on a row *)

LEMMA GrantedFinite ==
    ASSUME NEW t \in Tasks
    PROVE  /\ IsFiniteSet(Granted(t)) /\ Cardinality(Granted(t)) \in Nat
           /\ Cardinality(Granted(t)) <= Taken(t)
<1>1. Granted(t) \in SUBSET Holders(t)
    BY DEF Granted
<1> QED BY <1>1, HoldersFinite, FS_Subset, FS_CardinalityType DEF Taken

\* No seat granted: the count does not grow.
LEMMA FewerGranted ==
    ASSUME NEW t \in Tasks, Granted(t)' \subseteq Granted(t)
    PROVE  Cardinality(Granted(t)') \in Nat /\ Cardinality(Granted(t)') <= Cardinality(Granted(t))
<1>1. IsFiniteSet(Granted(t)) /\ Granted(t)' \in SUBSET Granted(t)
    BY GrantedFinite
<1> QED BY <1>1, FS_Subset, FS_CardinalityType

\* One seat granted: the count grows by at most one.
LEMMA OneMoreGranted ==
    ASSUME NEW t \in Tasks, NEW u, Granted(t)' \subseteq Granted(t) \union {u}
    PROVE  /\ Cardinality(Granted(t)') \in Nat
           /\ Cardinality(Granted(t)') <= Cardinality(Granted(t)) + 1
<1>1. IsFiniteSet(Granted(t)) /\ Cardinality(Granted(t)) \in Nat
    BY GrantedFinite
<1> DEFINE bigger == Granted(t) \union {u}
<1>2. IsFiniteSet(bigger) /\ Cardinality(bigger) <= Cardinality(Granted(t)) + 1
    <2>1. /\ IsFiniteSet(bigger)
          /\ Cardinality(bigger) = IF u \in Granted(t) THEN Cardinality(Granted(t))
                                   ELSE Cardinality(Granted(t)) + 1
        BY <1>1, FS_AddElement
    <2> QED BY <1>1, <2>1
<1>3. Granted(t)' \in SUBSET bigger
    OBVIOUS
<1> HIDE DEF bigger
<1>4. IsFiniteSet(Granted(t)') /\ Cardinality(Granted(t)') <= Cardinality(bigger)
    BY <1>2, <1>3, FS_Subset
<1>5. Cardinality(Granted(t)') \in Nat /\ Cardinality(bigger) \in Nat
    BY <1>2, <1>4, FS_CardinalityType
<1> QED BY <1>1, <1>2, <1>4, <1>5

LEMMA SameGrants ==
    ASSUME UNCHANGED <<asg, left>>
    PROVE  /\ \A t \in Tasks : Granted(t)' = Granted(t)
           /\ \A t \in Tasks, u \in Users : Had(t, u)' = Had(t, u)
BY DEF Granted, Holders, Had

\* What a write does to the rows and the seats: nobody is without a row again,
\* nobody who was granted a seat is forgotten, and only a claim grants one.
LEMMA RowWritten ==
    ASSUME TypeOK, NEW t \in Tasks, NEW u \in Users, NEW v \in RowStatus \ {"NONE"},
           NEW claim \in BOOLEAN, SetRow(t, u, v, claim),
           claim => v \in HOLDS_A_SPOT,
           v \in HOLDS_A_SPOT => claim \/ Had(t, u)
    PROVE  /\ \A y \in Tasks, w \in Users : asg[y][w] # "NONE" => asg'[y][w] # "NONE"
           /\ \A y \in Tasks, w \in Users : Had(y, w) => Had(y, w)'
           /\ \A y \in Tasks, w \in Users :
                <<y, w>> \in left' => <<y, w>> \in left \/ asg'[y][w] # "NONE"
           /\ \A y \in Tasks : y # t \/ ~claim => Granted(y)' \subseteq Granted(y)
           /\ Granted(t)' \subseteq Granted(t) \union {u}
<1>1. /\ asg'[t][u] = v
      /\ \A y \in Tasks, w \in Users : y # t \/ w # u => asg'[y][w] = asg[y][w]
    <2>1. asg' = [asg EXCEPT ![t][u] = v] /\ asg \in [Tasks -> [Users -> RowStatus]]
        BY DEF SetRow, TypeOK
    <2> QED BY <2>1
<1>2. \A y \in Tasks, w \in Users : y # t \/ w # u => (<<y, w>> \in left' <=> <<y, w>> \in left)
    BY DEF SetRow
<1>3. claim => <<t, u>> \notin left'
    BY DEF SetRow
<1>4. ~claim /\ v \notin HOLDS_A_SPOT /\ asg[t][u] \in HOLDS_A_SPOT => <<t, u>> \in left'
    BY DEF SetRow
<1>5. ~claim /\ (v \in HOLDS_A_SPOT \/ asg[t][u] \notin HOLDS_A_SPOT) =>
        (<<t, u>> \in left' <=> <<t, u>> \in left)
    BY DEF SetRow
<1>6. \A y \in Tasks, w \in Users : asg[y][w] # "NONE" => asg'[y][w] # "NONE"
    BY <1>1
<1>7. \A y \in Tasks, w \in Users : Had(y, w) => Had(y, w)'
    <2>1. \A y \in Tasks, w \in Users : y # t \/ w # u => Had(y, w)' = Had(y, w)
        BY <1>1, <1>2 DEF Had
    <2>2. Had(t, u) => Had(t, u)'
        BY <1>1, <1>4, <1>5 DEF Had
    <2> QED BY <2>1, <2>2
<1>8. \A y \in Tasks, w \in Users : <<y, w>> \in left' => <<y, w>> \in left \/ asg'[y][w] # "NONE"
    BY <1>1, <1>2
<1>9. \A y \in Tasks : y # t => Granted(y)' = Granted(y)
    BY <1>1, <1>2 DEF Granted, Holders
<1>10. \A w \in Users : w # u => (w \in Granted(t)' <=> w \in Granted(t))
    BY <1>1, <1>2 DEF Granted, Holders
<1>11. Granted(t)' \subseteq Users
    BY DEF Granted, Holders
<1>12. ASSUME ~claim, u \in Granted(t)' PROVE u \in Granted(t)
    <2>1. v \in HOLDS_A_SPOT /\ <<t, u>> \notin left'
        BY <1>1, <1>12 DEF Granted, Holders
    <2>2. <<t, u>> \notin left
        BY <1>5, <1>12, <2>1
    <2>3. asg[t][u] \in HOLDS_A_SPOT
        BY <1>12, <2>1, <2>2 DEF Had
    <2> QED BY <2>2, <2>3 DEF Granted, Holders
<1> QED BY <1>6, <1>7, <1>8, <1>9, <1>10, <1>11, <1>12

\* A step that moves no row, begins no request and lowers no capacity.
LEMMA QuietGrants ==
    ASSUME GrantInv, TypeOK', UNCHANGED <<asg, left>>,
           \A s \in Slots : req'[s] = req[s] \/ req'[s] = Idle,
           \A p \in Passes : pass'[p].rows \subseteq pass[p].rows,
           \A t \in Tasks : peakCap[t] <= peakCap'[t] /\ maxTakers'[t] <= peakCap'[t]
    PROVE  GrantInv'
<1>1. \A s \in Slots : req[s] # Idle => req[s].t \in Tasks /\ req[s].u \in Users /\ req[s].cap \in Nat
    BY ReqTypes DEF GrantInv, Request
<1>2. OneClaimAtATime'
    BY DEF GrantInv, OneClaimAtATime
<1>3. CapsRead'
    <2> SUFFICES ASSUME NEW s \in Slots, req[s] # Idle, req[s].at \in {"lock", "commit"}
                 PROVE  req[s].cap <= peakCap'[req[s].t]
        BY DEF CapsRead
    <2>1. req[s].cap <= peakCap[req[s].t]
        BY DEF GrantInv, CapsRead
    <2>2. peakCap[req[s].t] \in Nat /\ peakCap'[req[s].t] \in Nat
        BY <1>1 DEF GrantInv, TypeOK
    <2> QED BY <1>1, <2>1, <2>2
<1>4. ClaimsHaveGrants'
    BY <1>1, SameGrants DEF GrantInv, ClaimsHaveGrants
<1>5. GrantedSeats'
    <2> SUFFICES ASSUME NEW t \in Tasks PROVE Cardinality(Granted(t))' <= peakCap'[t]
        BY DEF GrantedSeats
    <2>1. Granted(t)' = Granted(t) /\ Cardinality(Granted(t)) \in Nat
          /\ Cardinality(Granted(t)) <= peakCap[t]
        BY SameGrants, GrantedFinite DEF GrantInv, GrantedSeats
    <2>2. peakCap[t] \in Nat /\ peakCap'[t] \in Nat
        BY DEF GrantInv, TypeOK
    <2> QED BY <2>1, <2>2
<1>6. SeatsEarned'
    <2>1. ASSUME NEW s \in Slots, req'[s].op \in {"complete", "confirm", "checkin"}
          PROVE  Had(req[s].t, req[s].u)' /\ req'[s] = req[s]
        <3>1. req'[s] = req[s] /\ req[s] # Idle
            BY <2>1 DEF Idle
        <3> QED BY <1>1, <2>1, <3>1, SameGrants DEF GrantInv, SeatsEarned
    <2>2. \A p \in Passes, t \in Tasks, u \in Users : <<t, u>> \in pass'[p].rows => Had(t, u)'
        BY SameGrants DEF GrantInv, SeatsEarned
    <2> QED BY <2>1, <2>2 DEF SeatsEarned
<1>7. RowsRemain'
    BY DEF GrantInv, RowsRemain, OnRow, Idle, RowOps, TakerOps, OrganizerOps
<1> QED BY <1>2, <1>3, <1>4, <1>5, <1>6, <1>7 DEF GrantInv

\* A request begins: who has read a seat in the row has been granted one.
LEMMA BeginGrants ==
    ASSUME GrantInv, TypeOK', NEW s \in Slots,
           NEW op \in RowOps \union TaskOps, NEW at \in {"write", "lock"},
           NEW t \in Tasks, NEW u \in Users, NEW cap \in Nat, NEW existing \in BOOLEAN,
           Begin(s, op, at, t, u, cap, existing),
           cap <= peakCap[t],
           op \in {"complete", "confirm", "checkin"} => asg[t][u] \in HOLDS_A_SPOT,
           op \in RowOps /\ (op = "apply" => existing) => asg[t][u] # "NONE"
    PROVE  GrantInv'
<1> DEFINE r == [op |-> op, at |-> at, t |-> t, u |-> u, cap |-> cap, existing |-> existing]
<1>1. /\ req'[s] = r
      /\ \A x \in Slots : x # s => req'[x] = req[x]
      /\ UNCHANGED <<asg, left, pass, maxTakers, peakCap>>
    BY DEF Begin, GrantInv, TypeOK, posting, history
<1>2. \A x \in Slots : req[x] # Idle => req[x].t \in Tasks /\ req[x].u \in Users
    BY ReqTypes DEF GrantInv, Request
<1>3. OneClaimAtATime'
    BY <1>1 DEF GrantInv, OneClaimAtATime
<1>4. CapsRead'
    BY <1>1 DEF GrantInv, CapsRead
<1>5. ClaimsHaveGrants'
    BY <1>1, <1>2, SameGrants DEF GrantInv, ClaimsHaveGrants
<1>6. GrantedSeats'
    BY <1>1, SameGrants DEF GrantInv, GrantedSeats
<1>7. SeatsEarned'
    <2>1. ASSUME NEW x \in Slots, x # s, req[x].op \in {"complete", "confirm", "checkin"}
          PROVE  asg[req[x].t][req[x].u] \in HOLDS_A_SPOT \/ <<req[x].t, req[x].u>> \in left
        BY <2>1 DEF GrantInv, SeatsEarned, Had
    <2>2. \A p \in Passes, y \in Tasks, w \in Users :
            <<y, w>> \in pass[p].rows => asg[y][w] \in HOLDS_A_SPOT \/ <<y, w>> \in left
        BY DEF GrantInv, SeatsEarned, Had
    <2> QED BY <1>1, <2>1, <2>2 DEF SeatsEarned, Had
<1>8. RowsRemain'
    BY <1>1 DEF GrantInv, RowsRemain, OnRow
<1> QED BY <1>3, <1>4, <1>5, <1>6, <1>7, <1>8 DEF GrantInv

\* The count under the lock counts at least the seats granted.
LEMMA CountGrants ==
    ASSUME GrantInv, TypeOK', NEW s \in Slots, CountSpots(s)
    PROVE  GrantInv'
<1>1. /\ req'[s].op = req[s].op /\ req'[s].t = req[s].t /\ req'[s].u = req[s].u
      /\ req'[s].cap = req[s].cap /\ req'[s].existing = req[s].existing
      /\ req'[s].at = "commit" /\ req[s] # Idle /\ req[s] \in Request
      /\ \A x \in Slots : x # s => req'[x] = req[x]
      /\ UNCHANGED <<asg, left, pass, maxTakers, peakCap>>
    BY ReqTypes DEF CountSpots, GrantInv, TypeOK, Request, posting, history
<1>2. \A x \in Slots : req[x] # Idle => req[x].t \in Tasks /\ req[x].cap \in Nat
    BY ReqTypes DEF GrantInv, Request
<1>3. OneClaimAtATime'
    BY <1>1 DEF GrantInv, OneClaimAtATime, CountSpots, Locked
<1>4. CapsRead'
    BY <1>1 DEF GrantInv, CapsRead, CountSpots
<1>5. ClaimsHaveGrants'
    <2>1. Cardinality(Granted(req[s].t)) < req[s].cap
        <3>1. Taken(req[s].t) < req[s].cap
            BY DEF CountSpots, SpotLeft
        <3> QED BY <1>1, <1>2, <3>1, GrantedFinite, HoldersFinite
    <2>2. \A t \in Tasks : Granted(t)' = Granted(t)
        BY <1>1, SameGrants
    <2>3. ASSUME NEW x \in Slots, req'[x] # Idle, req'[x].at = "commit"
          PROVE  (Cardinality(Granted(req[x].t)) < req[x].cap)'
        <3>1. PICK y \in Tasks : y = req'[x].t /\ y = req[x].t /\ req'[x].cap = req[x].cap
            BY <1>1, <1>2, <2>3
        <3>2. Cardinality(Granted(y)) < req[x].cap
            BY <1>1, <2>1, <2>3, <3>1 DEF GrantInv, ClaimsHaveGrants
        <3> QED BY <2>2, <3>1, <3>2
    <2> QED BY <2>3 DEF ClaimsHaveGrants
<1>6. GrantedSeats'
    BY <1>1, SameGrants DEF GrantInv, GrantedSeats
<1>7. SeatsEarned'
    BY <1>1 DEF GrantInv, SeatsEarned, Had
<1>8. RowsRemain'
    BY <1>1 DEF GrantInv, RowsRemain, OnRow
<1> QED BY <1>3, <1>4, <1>5, <1>6, <1>7, <1>8 DEF GrantInv

\* A row is written: by a claim, whose count still leaves a seat to grant, or
\* without granting any.
LEMMA WriteGrants ==
    ASSUME GrantInv, TypeOK', NEW t \in Tasks, NEW u \in Users,
           NEW v \in RowStatus \ {"NONE"}, NEW claim \in BOOLEAN, SetRow(t, u, v, claim),
           claim => v \in HOLDS_A_SPOT,
           v \in HOLDS_A_SPOT => claim \/ Had(t, u),
           claim => \E s \in Slots : /\ req[s] # Idle /\ req[s].t = t /\ req[s].at = "commit"
                                     /\ req'[s] = Idle,
           \A s \in Slots : req'[s] = req[s] \/ req'[s] = Idle,
           \A p \in Passes : pass'[p].rows \subseteq pass[p].rows,
           UNCHANGED <<maxTakers, peakCap>>
    PROVE  GrantInv'
<1>1. \A s \in Slots : req[s] # Idle => req[s].t \in Tasks /\ req[s].u \in Users /\ req[s].cap \in Nat
    BY ReqTypes DEF GrantInv, Request
<1>2. /\ \A y \in Tasks, w \in Users : asg[y][w] # "NONE" => asg'[y][w] # "NONE"
      /\ \A y \in Tasks, w \in Users : Had(y, w) => Had(y, w)'
      /\ \A y \in Tasks, w \in Users :
            <<y, w>> \in left' => <<y, w>> \in left \/ asg'[y][w] # "NONE"
      /\ \A y \in Tasks : y # t \/ ~claim => Granted(y)' \subseteq Granted(y)
      /\ Granted(t)' \subseteq Granted(t) \union {u}
    BY RowWritten DEF GrantInv
<1>3. OneClaimAtATime'
    BY DEF GrantInv, OneClaimAtATime
<1>4. CapsRead'
    BY DEF GrantInv, CapsRead
<1>5. ClaimsHaveGrants'
    <2>1. ASSUME NEW x \in Slots, req'[x] # Idle, req'[x].at = "commit"
          PROVE  (Cardinality(Granted(req[x].t)) < req[x].cap)'
        <3>1. req'[x] = req[x] /\ req[x] # Idle /\ req[x].at = "commit"
            BY <2>1
        <3>2. req[x].t # t \/ ~claim
            BY <2>1, <3>1 DEF GrantInv, OneClaimAtATime
        <3>4. PICK y \in Tasks : y = req[x].t /\ y = req'[x].t
            BY <1>1, <3>1
        <3>5. Cardinality(Granted(y)') \in Nat /\ Cardinality(Granted(y)') <= Cardinality(Granted(y))
            BY <1>2, <3>2, <3>4, FewerGranted
        <3>6. Cardinality(Granted(y)) < req[x].cap /\ Cardinality(Granted(y)) \in Nat
            BY <3>1, <3>4, GrantedFinite DEF GrantInv, ClaimsHaveGrants
        <3> QED BY <1>1, <3>1, <3>4, <3>5, <3>6
    <2> QED BY <2>1 DEF ClaimsHaveGrants
<1>6. GrantedSeats'
    <2> SUFFICES ASSUME NEW y \in Tasks PROVE Cardinality(Granted(y)') <= peakCap[y]
        BY DEF GrantedSeats, Granted, Holders
    <2>1. Cardinality(Granted(y)) \in Nat /\ peakCap[y] \in Nat
          /\ Cardinality(Granted(y)) <= peakCap[y]
        BY GrantedFinite DEF GrantInv, TypeOK, GrantedSeats
    <2>2. CASE y # t \/ ~claim
        <3>1. Cardinality(Granted(y)') \in Nat /\ Cardinality(Granted(y)') <= Cardinality(Granted(y))
            BY <1>2, <2>2, FewerGranted
        <3> QED BY <2>1, <3>1
    <2>3. CASE y = t /\ claim
        <3>1. PICK s \in Slots : req[s] # Idle /\ req[s].t = t /\ req[s].at = "commit"
            BY <2>3
        <3>2. Cardinality(Granted(t)) < req[s].cap /\ req[s].cap <= peakCap[t] /\ req[s].cap \in Nat
            BY <1>1, <3>1 DEF GrantInv, ClaimsHaveGrants, CapsRead
        <3>3. Cardinality(Granted(t)') \in Nat
              /\ Cardinality(Granted(t)') <= Cardinality(Granted(t)) + 1
            BY <1>2, OneMoreGranted
        <3> QED BY <2>1, <2>3, <3>2, <3>3
    <2> QED BY <2>2, <2>3
<1>7. SeatsEarned'
    <2>1. ASSUME NEW s \in Slots, req'[s].op \in {"complete", "confirm", "checkin"}
          PROVE  req'[s] = req[s] /\ Had(req[s].t, req[s].u)'
        <3>1. req'[s] = req[s] /\ req[s] # Idle
            BY <2>1 DEF Idle
        <3>2. Had(req[s].t, req[s].u)
            BY <2>1, <3>1 DEF GrantInv, SeatsEarned
        <3> QED BY <1>1, <1>2, <3>1, <3>2
    <2>2. \A p \in Passes, y \in Tasks, w \in Users : <<y, w>> \in pass'[p].rows => Had(y, w)'
        BY <1>2 DEF GrantInv, SeatsEarned
    <2> QED BY <2>1, <2>2 DEF SeatsEarned
<1>8. RowsRemain'
    <2>1. \A y \in Tasks, w \in Users : <<y, w>> \in left' => asg'[y][w] # "NONE"
        BY <1>2 DEF GrantInv, RowsRemain
    <2>2. ASSUME NEW s \in Slots, OnRow(s)', req'[s].op = "apply" => req'[s].existing
          PROVE  asg'[req'[s].t][req'[s].u] # "NONE"
        <3>1. req'[s] = req[s] /\ req[s] # Idle /\ OnRow(s)
            BY <2>2 DEF OnRow, Idle, RowOps, TakerOps, OrganizerOps
        <3>2. asg[req[s].t][req[s].u] # "NONE"
            BY <2>2, <3>1 DEF GrantInv, RowsRemain
        <3> QED BY <1>1, <1>2, <3>1, <3>2
    <2> QED BY <2>1, <2>2 DEF RowsRemain
<1> QED BY <1>3, <1>4, <1>5, <1>6, <1>7, <1>8 DEF GrantInv

LEMMA RowReadGrants ==
    ASSUME GrantInv, TypeOK', NEW s \in Slots, NEW t \in Tasks, NEW u \in Users, RowRead(s, t, u)
    PROVE  GrantInv'
<1>1. /\ maxTakers[t] \in Nat /\ maxTakers[t] <= peakCap[t] /\ 0 \in Nat /\ 0 <= peakCap[t]
      /\ asg[t][u] \in RowStatus
    BY DEF GrantInv, TypeOK, CapsRead
<1>2. CASE ApplyRead(s, t, u)
    <2>1. PICK at \in {"write", "lock"}, existing \in BOOLEAN :
            /\ Begin(s, "apply", at, t, u, maxTakers[t], existing)
            /\ existing => asg[t][u] = "WITHDRAWN"
        BY <1>2 DEF ApplyRead
    <2>2. "apply" \in RowOps
        BY DEF RowOps, TakerOps
    <2> QED BY <1>1, <2>1, <2>2, BeginGrants
<1>3. ASSUME NEW op \in RowOps \ {"apply"}, NEW at \in {"write", "lock"}, NEW cap \in Nat,
             cap <= peakCap[t], BeginOnRow(s, op, at, t, u, cap),
             op \in {"complete", "confirm", "checkin"} => asg[t][u] \in HOLDS_A_SPOT,
             asg[t][u] # "NONE"
      PROVE  GrantInv'
    BY <1>3, BeginGrants DEF BeginOnRow
<1>4. CASE AcceptRead(s, t, u) \/ RejectRead(s, t, u)
    BY <1>1, <1>3, <1>4 DEF AcceptRead, RejectRead, RowOps, OrganizerOps
<1>5. CASE CompleteRead(s, t, u) \/ WithdrawRead(s, t, u)
    BY <1>1, <1>3, <1>5 DEF CompleteRead, WithdrawRead, Working, HOLDS_A_SPOT, RowOps, TakerOps
<1>6. CASE ConfirmRead(s, t, u)
    BY <1>1, <1>3, <1>6 DEF ConfirmRead, HOLDS_A_SPOT, RowOps, OrganizerOps
<1>7. CASE CheckinRead(s, t, u)
    BY <1>1, <1>3, <1>7 DEF CheckinRead, HOLDS_A_SPOT, RowOps, TakerOps
<1> QED BY <1>2, <1>4, <1>5, <1>6, <1>7 DEF RowRead

LEMMA ReqStepGrants ==
    ASSUME GrantInv, TypeOK', NEW s \in Slots, ReqStep(s) \/ ReqFail(s)
    PROVE  GrantInv'
<1>1. \A t \in Tasks : peakCap[t] <= peakCap[t] /\ maxTakers[t] <= peakCap[t]
    BY DEF GrantInv, TypeOK, CapsRead
<1>2. ASSUME Finish(s)
      PROVE  req'[s] = Idle /\ \A x \in Slots : req'[x] = req[x] \/ req'[x] = Idle
    BY <1>2 DEF Finish, GrantInv, TypeOK
<1>3. ASSUME Finish(s), UNCHANGED <<asg, left, pass, maxTakers, peakCap>> PROVE GrantInv'
    BY <1>1, <1>2, <1>3, QuietGrants
<1>4. ASSUME req[s] # Idle, NEW v \in RowStatus \ {"NONE"}, WriteRow(s, v),
             req[s].at = "commit" => v \in HOLDS_A_SPOT,
             v \in HOLDS_A_SPOT => req[s].at = "commit" \/ Had(req[s].t, req[s].u)
      PROVE  GrantInv'
    <2>1. req[s].t \in Tasks /\ req[s].u \in Users
        BY <1>4, ReqTypes DEF GrantInv, Request
    <2>2. PICK claim \in BOOLEAN : claim = (req[s].at = "commit")
        OBVIOUS
    <2>3. SetRow(req[s].t, req[s].u, v, claim)
        BY <1>4, <2>2 DEF WriteRow
    <2>4. UNCHANGED <<pass, maxTakers, peakCap>> /\ Finish(s)
        BY <1>4 DEF WriteRow, posting, history
    <2>5. req'[s] = Idle /\ \A x \in Slots : req'[x] = req[x] \/ req'[x] = Idle
        BY <1>2, <2>4
    <2> QED BY <1>4, <2>1, <2>2, <2>3, <2>4, <2>5, WriteGrants
<1>5. CASE CountSpots(s)
    BY <1>5, CountGrants
<1>6. CASE CountFull(s) \/ ApplyDuplicate(s) \/ ReqFail(s)
    BY <1>3, <1>6 DEF CountFull, ApplyDuplicate, ReqFail, posting, history
<1>7. CASE ApplyWrite(s) \/ AcceptWrite(s)
    <2>1. CASE ApplyWrite(s)
        BY <1>4, <2>1 DEF ApplyWrite, ApplyValue, At, RowStatus, HOLDS_A_SPOT
    <2>2. CASE AcceptWrite(s)
        BY <1>4, <2>2 DEF AcceptWrite, At, RowStatus, HOLDS_A_SPOT
    <2> QED BY <1>7, <2>1, <2>2
<1>8. CASE RejectWrite(s) \/ WithdrawWrite(s)
    BY <1>4, <1>8 DEF RejectWrite, WithdrawWrite, At, RowStatus, HOLDS_A_SPOT
<1>9. CASE CompleteWrite(s) \/ ConfirmWrite(s) \/ CheckinWrite(s)
    <2>1. Had(req[s].t, req[s].u)
        BY <1>9 DEF CompleteWrite, ConfirmWrite, CheckinWrite, At, GrantInv, SeatsEarned
    <2> QED BY <1>4, <1>9, <2>1 DEF CompleteWrite, ConfirmWrite, CheckinWrite, At, RowStatus
<1>10. CASE CancelWrite(s)
    BY <1>3, <1>10 DEF CancelWrite
<1>11. CASE PatchWrite(s)
    <2>1. PICK c \in PatchCaps : SetCap(req[s].t, c)
        BY <1>11 DEF PatchWrite
    <2>2. c \in Nat
        BY CapsArePositive
    <2>3. \A t \in Tasks : peakCap[t] <= peakCap'[t] /\ maxTakers'[t] <= peakCap'[t]
        BY <2>1, <2>2 DEF SetCap, GrantInv, TypeOK, CapsRead
    <2>4. UNCHANGED <<asg, left, pass>> /\ Finish(s)
        BY <1>11 DEF PatchWrite
    <2> QED BY <1>2, <2>3, <2>4, QuietGrants
<1> QED BY <1>5, <1>6, <1>7, <1>8, <1>9, <1>10, <1>11 DEF ReqStep

LEMMA PassGrants ==
    ASSUME GrantInv, TypeOK', NEW p \in Passes, PassRead(p) \/ PassWrite(p) \/ PassFail(p)
    PROVE  GrantInv'
<1>1. \A t \in Tasks : peakCap[t] <= peakCap[t] /\ maxTakers[t] <= peakCap[t]
    BY DEF GrantInv, TypeOK, CapsRead
<1>2. UNCHANGED <<asg, left, req, maxTakers, peakCap>>
    BY DEF PassRead, DueRead, ExpiredRead, FullRead, FinishedRead, PassWrite, ExpiredWrite,
           FullWrite, FinishedWrite, PassFail, posting, history
<1>3. CASE ~DueRead(p)
    BY <1>1, <1>2, <1>3, PassRows, QuietGrants DEF GrantInv
<1>4. CASE DueRead(p)
    <2> DEFINE due == {r \in Tasks \X Users : Due(r[1], r[2])}
    <2>1. pass'[p].rows = due /\ \A q \in Passes : q # p => pass'[q] = pass[q]
        BY <1>4 DEF DueRead, Advance, GrantInv, TypeOK
    <2>2. \A t \in Tasks, u \in Users : <<t, u>> \in due => Had(t, u)
        BY DEF Due, Had, HOLDS_A_SPOT
    <2> HIDE DEF due
    <2>3. SeatsEarned'
        <3>1. \A t \in Tasks, u \in Users : Had(t, u)' = Had(t, u)
            BY <1>2, SameGrants
        <3>2. \A q \in Passes, t \in Tasks, u \in Users : <<t, u>> \in pass'[q].rows => Had(t, u)'
            BY <2>1, <2>2, <3>1 DEF GrantInv, SeatsEarned
        <3>3. \A s \in Slots : req'[s].op \in {"complete", "confirm", "checkin"} =>
                Had(req[s].t, req[s].u)'
            BY <1>2 DEF GrantInv, SeatsEarned, Had
        <3> QED BY <3>2, <3>3 DEF SeatsEarned
    <2>4. OneClaimAtATime' /\ CapsRead' /\ RowsRemain'
        BY <1>2 DEF GrantInv, OneClaimAtATime, CapsRead, RowsRemain, OnRow
    <2>5. ClaimsHaveGrants' /\ GrantedSeats'
        BY <1>2 DEF GrantInv, ClaimsHaveGrants, GrantedSeats, Granted, Holders
    <2> QED BY <2>3, <2>4, <2>5 DEF GrantInv
<1> QED BY <1>3, <1>4

LEMMA GrantInit == Init => GrantInv
<1> SUFFICES ASSUME Init PROVE GrantInv OBVIOUS
<1>1. TypeOK
    BY TypeInit
<1>2. /\ \A s \in Slots : req[s] = Idle
      /\ \A p \in Passes : pass[p].rows = {}
      /\ \A t \in Tasks, u \in Users : asg[t][u] = "NONE"
      /\ \A t \in Tasks : maxTakers[t] = 0 /\ peakCap[t] = 0
      /\ left = {}
    BY DEF Init, AtRest
<1>3. \A t \in Tasks : Cardinality(Granted(t)) = 0
    <2>1. \A t \in Tasks : Granted(t) = {}
        BY <1>2 DEF Granted, Holders, HOLDS_A_SPOT
    <2> QED BY <2>1, FS_EmptySet
<1>4. GrantedSeats
    BY <1>2, <1>3 DEF GrantedSeats
<1>5. CapsRead
    BY <1>2 DEF CapsRead, Idle
<1> QED BY <1>1, <1>2, <1>4, <1>5
        DEF GrantInv, OneClaimAtATime, ClaimsHaveGrants, SeatsEarned, RowsRemain, OnRow, Idle,
            RowOps, TakerOps, OrganizerOps

LEMMA GrantStep == GrantInv /\ [Next]_vars => GrantInv'
<1> SUFFICES ASSUME GrantInv, [Next]_vars PROVE GrantInv' OBVIOUS
<1>1. TypeOK'
    BY TypeStep DEF GrantInv
<1>2. \A t \in Tasks : peakCap[t] <= peakCap[t] /\ maxTakers[t] <= peakCap[t]
    BY DEF GrantInv, TypeOK, CapsRead
<1>3. ASSUME UNCHANGED <<asg, left, req, pass, maxTakers, peakCap>> PROVE GrantInv'
    BY <1>1, <1>2, <1>3, QuietGrants
<1>4. ASSUME NEW t \in Tasks, Create(t) PROVE GrantInv'
    <2>1. PICK c \in Caps : SetCap(t, c)
        BY <1>4 DEF Create
    <2>2. c \in Nat
        BY CapsArePositive
    <2>3. \A x \in Tasks : peakCap[x] <= peakCap'[x] /\ maxTakers'[x] <= peakCap'[x]
        BY <2>1, <2>2 DEF SetCap, GrantInv, TypeOK, CapsRead
    <2> QED BY <1>1, <1>4, <2>3, QuietGrants DEF Create
<1>5. ASSUME NEW s \in Slots, NEW t \in Tasks, NEW u \in Users, RowRead(s, t, u) PROVE GrantInv'
    BY <1>1, <1>5, RowReadGrants
<1>6. ASSUME NEW s \in Slots, NEW t \in Tasks, CancelRead(s, t) \/ PatchRead(s, t) PROVE GrantInv'
    <2>1. PICK op \in TaskOps : Begin(s, op, "write", t, Poster[t], 0, TRUE)
        BY <1>6 DEF CancelRead, PatchRead, TaskOps
    <2>2. Poster[t] \in Users /\ 0 <= peakCap[t] /\ op \notin RowOps
          /\ op \notin {"complete", "confirm", "checkin"}
        BY PostersAreUsers DEF GrantInv, TypeOK, TaskOps, RowOps, TakerOps, OrganizerOps
    <2> QED BY <1>1, <2>1, <2>2, BeginGrants
<1>7. ASSUME NEW s \in Slots, ReqStep(s) \/ ReqFail(s) PROVE GrantInv'
    BY <1>1, <1>7, ReqStepGrants
<1>8. ASSUME NEW t \in Tasks, NEW u \in Users, SevenDaysPass(t, u) PROVE GrantInv'
    BY <1>3, <1>8 DEF SevenDaysPass, posting, history
<1>9. ASSUME NEW t \in Tasks, DeadlinePasses(t) PROVE GrantInv'
    BY <1>3, <1>9 DEF DeadlinePasses, history
<1>10. ASSUME NEW p \in Passes, PassRead(p) \/ PassWrite(p) \/ PassFail(p) PROVE GrantInv'
    BY <1>1, <1>10, PassGrants
<1>11. ASSUME NEW p \in Passes, NEW t \in Tasks, NEW u \in Users, AutoConfirm(p, t, u)
       PROVE  GrantInv'
    <2>1. Had(t, u)
        BY <1>11 DEF AutoConfirm, GrantInv, SeatsEarned
    <2>2. \A q \in Passes : pass'[q].rows \subseteq pass[q].rows
        BY <1>11 DEF AutoConfirm, Advance, GrantInv, TypeOK
    <2>3. SetRow(t, u, "COMPLETED", FALSE) /\ "COMPLETED" \in RowStatus \ {"NONE"}
          /\ UNCHANGED <<req, maxTakers, peakCap>>
        BY <1>11 DEF AutoConfirm, RowStatus, posting, history
    <2> QED BY <1>1, <2>1, <2>2, <2>3, WriteGrants
<1>12. ASSUME UNCHANGED vars PROVE GrantInv'
    BY <1>3, <1>12 DEF vars, history
<1> QED BY <1>4, <1>5, <1>6, <1>7, <1>8, <1>9, <1>10, <1>11, <1>12 DEF Next

\* The whole inductive invariant of the seats granted, however the requests on
\* one row overlap: a claim whose count found a seat free finds one free at its
\* commit, and whoever reports, checks in or is confirmed was granted a seat.
THEOREM GrantInvariance == Spec => []GrantInv
BY GrantInit, GrantStep, PTL DEF Spec

\* With nothing but what the server enforces, no posting ever grants more seats
\* than the largest capacity it has had, for any number of users, postings,
\* requests and settle passes in flight.
THEOREM SeatsGrantedWithinLimit == Spec => []GrantedSeats
<1>1. GrantInv => GrantedSeats
    BY DEF GrantInv
<1> QED BY <1>1, GrantInvariance, PTL

-----------------------------------------------------------------------------
(* Refinement: Postings implements SeatBook *)

LEMMA SameWords ==
    /\ Book!Seats = HOLDS_A_SPOT
    /\ \A t \in Tasks : Book!Granted(t) = Granted(t)
    /\ \A S : Book!Cardinality(S) = Cardinality(S)
BY DEF Book!Seats, HOLDS_A_SPOT, Book!Granted, Granted, Holders, Cardinality, Book!Cardinality

\* A claim commits: the seat it has counted is free, for whoever takes it.
LEMMA ClaimInBook ==
    ASSUME GrantInv, NEW s \in Slots, req[s] # Idle, req[s].at = "commit", WriteRow(s, "ACCEPTED")
    PROVE  Book!Next
<1>1. req[s].t \in Tasks /\ req[s].u \in Users /\ req[s].cap \in Nat
    BY ReqTypes DEF GrantInv, Request
<1>2. Cardinality(Granted(req[s].t) \ {req[s].u}) < peakCap[req[s].t]
    <2>1. IsFiniteSet(Granted(req[s].t)) /\ Cardinality(Granted(req[s].t)) \in Nat
        BY <1>1, GrantedFinite
    <2>2. Granted(req[s].t) \ {req[s].u} \in SUBSET Granted(req[s].t)
        OBVIOUS
    <2>3. /\ Cardinality(Granted(req[s].t) \ {req[s].u}) \in Nat
          /\ Cardinality(Granted(req[s].t) \ {req[s].u}) <= Cardinality(Granted(req[s].t))
        BY <2>1, <2>2, FS_Subset, FS_CardinalityType
    <2>4. Cardinality(Granted(req[s].t)) < req[s].cap /\ req[s].cap <= peakCap[req[s].t]
        BY DEF GrantInv, ClaimsHaveGrants, CapsRead
    <2>5. peakCap[req[s].t] \in Nat
        BY <1>1 DEF GrantInv, TypeOK
    <2> QED BY <1>1, <2>1, <2>3, <2>4, <2>5
<1>3. /\ asg' = [asg EXCEPT ![req[s].t][req[s].u] = "ACCEPTED"]
      /\ left' = left \ {<<req[s].t, req[s].u>>}
      /\ UNCHANGED peakCap
    BY DEF WriteRow, SetRow, history
<1>4. Book!Claim(req[s].t, req[s].u)
    BY <1>1, <1>2, <1>3, SameWords DEF Book!Claim, Book!Put
<1> QED BY <1>1, <1>4 DEF Book!Next

\* Any other write: it seats only who has had a seat, and takes none away
\* without a trace.
LEMMA WriteInBook ==
    ASSUME GrantInv, NEW t \in Tasks, NEW u \in Users, NEW v, SetRow(t, u, v, FALSE),
           UNCHANGED peakCap,
           \/ v = "APPLIED" /\ asg[t][u] = "NONE"
           \/ v \in {"APPLIED", "REJECTED", "WITHDRAWN"} /\ asg[t][u] # "NONE"
           \/ v \in {"PENDING_CONFIRMATION", "COMPLETED"} /\ Had(t, u)
    PROVE  Book!Next
<1>1. asg' = [asg EXCEPT ![t][u] = v]
    BY DEF SetRow
<1>2. CASE v = "APPLIED" /\ asg[t][u] = "NONE"
    <2>1. left' = left
        BY <1>2 DEF SetRow, HOLDS_A_SPOT
    <2> QED BY <1>1, <1>2, <2>1 DEF Book!Next, Book!Enter, Book!Put
<1>3. CASE v \in {"APPLIED", "REJECTED", "WITHDRAWN"} /\ asg[t][u] # "NONE"
    <2>1. left' = IF asg[t][u] \in HOLDS_A_SPOT THEN left \union {<<t, u>>} ELSE left
        BY <1>3 DEF SetRow, HOLDS_A_SPOT
    <2>2. Book!Unseat(t, u, v)
        BY <1>1, <1>3, <2>1, SameWords DEF Book!Unseat, Book!Put
    <2> QED BY <1>3, <2>2 DEF Book!Next
<1>4. CASE v \in {"PENDING_CONFIRMATION", "COMPLETED"} /\ Had(t, u)
    <2>1. left' = left
        BY <1>4 DEF SetRow, HOLDS_A_SPOT
    <2>2. Book!Hold(t, u, v)
        BY <1>1, <1>4, <2>1, SameWords DEF Book!Hold, Book!Put, Had
    <2> QED BY <1>4, <2>2 DEF Book!Next
<1> QED BY <1>2, <1>3, <1>4

\* Capacities only ever raise the limit.
LEMMA CapIsRaise ==
    ASSUME GrantInv, NEW t \in Tasks, NEW c \in Nat, SetCap(t, c), UNCHANGED <<asg, left>>
    PROVE  Book!Next \/ UNCHANGED <<asg, left, peakCap>>
<1>1. peakCap \in [Tasks -> Nat]
    BY DEF GrantInv, TypeOK
<1>2. CASE c > peakCap[t]
    <2>1. peakCap' = [peakCap EXCEPT ![t] = c]
        BY <1>2 DEF SetCap
    <2> QED BY <1>1, <1>2, <2>1 DEF Book!Next, Book!Raise
<1>3. CASE ~(c > peakCap[t])
    <2>1. peakCap' = [peakCap EXCEPT ![t] = peakCap[t]]
        BY <1>3 DEF SetCap
    <2>2. peakCap' = peakCap
        BY <1>1, <2>1
    <2> QED BY <2>2
<1> QED BY <1>2, <1>3

LEMMA ReqStepInBook ==
    ASSUME GrantInv, NEW s \in Slots, ReqStep(s)
    PROVE  Book!Next \/ UNCHANGED <<asg, left, peakCap>>
<1>1. CASE CountSpots(s) \/ CountFull(s) \/ ApplyDuplicate(s) \/ CancelWrite(s)
    BY <1>1 DEF CountSpots, CountFull, ApplyDuplicate, CancelWrite, history
<1>2. ASSUME req[s] # Idle, req[s].at = "write", NEW v, WriteRow(s, v),
             \/ v = "APPLIED" /\ asg[req[s].t][req[s].u] = "NONE"
             \/ /\ v \in {"APPLIED", "REJECTED", "WITHDRAWN"}
                /\ asg[req[s].t][req[s].u] # "NONE"
             \/ v \in {"PENDING_CONFIRMATION", "COMPLETED"} /\ Had(req[s].t, req[s].u)
      PROVE  Book!Next
    <2>1. req[s].t \in Tasks /\ req[s].u \in Users
        BY <1>2, ReqTypes DEF GrantInv, Request
    <2>2. (req[s].at = "commit") = FALSE
        BY <1>2
    <2>3. SetRow(req[s].t, req[s].u, v, FALSE) /\ UNCHANGED peakCap
        BY <1>2, <2>2 DEF WriteRow, SetRow, history
    <2> QED BY <1>2, <2>1, <2>3, WriteInBook
<1>3. CASE ApplyWrite(s)
    <2>1. CASE req[s].at = "commit"
        BY <1>3, <2>1, ClaimInBook DEF ApplyWrite, ApplyValue, At
    <2>2. CASE req[s].at # "commit"
        <3>1. req[s] # Idle /\ req[s].op = "apply" /\ req[s].at = "write" /\ WriteRow(s, "APPLIED")
              /\ Insertable(s)
            BY <1>3, <2>2 DEF ApplyWrite, ApplyValue, At
        <3>2. asg[req[s].t][req[s].u] # "NONE" \/ asg[req[s].t][req[s].u] = "NONE"
            OBVIOUS
        <3> QED BY <1>2, <3>1, <3>2
    <2> QED BY <2>1, <2>2
<1>4. CASE AcceptWrite(s)
    BY <1>4, ClaimInBook DEF AcceptWrite, At
<1>5. CASE RejectWrite(s) \/ WithdrawWrite(s)
    <2>1. asg[req[s].t][req[s].u] # "NONE"
        BY <1>5 DEF RejectWrite, WithdrawWrite, At, GrantInv, RowsRemain, OnRow,
                    RowOps, TakerOps, OrganizerOps
    <2> QED BY <1>2, <1>5, <2>1 DEF RejectWrite, WithdrawWrite, At
<1>6. CASE CompleteWrite(s) \/ ConfirmWrite(s) \/ CheckinWrite(s)
    <2>1. Had(req[s].t, req[s].u)
        BY <1>6 DEF CompleteWrite, ConfirmWrite, CheckinWrite, At, GrantInv, SeatsEarned
    <2> QED BY <1>2, <1>6, <2>1 DEF CompleteWrite, ConfirmWrite, CheckinWrite, At
<1>7. CASE PatchWrite(s)
    <2>1. PICK c \in PatchCaps : SetCap(req[s].t, c)
        BY <1>7 DEF PatchWrite
    <2>2. c \in Nat /\ req[s].t \in Tasks
        BY <1>7, CapsArePositive, ReqTypes DEF GrantInv, PatchWrite, At, Request
    <2> QED BY <1>7, <2>1, <2>2, CapIsRaise DEF PatchWrite
<1> QED BY <1>1, <1>3, <1>4, <1>5, <1>6, <1>7 DEF ReqStep

LEMMA BookInit == Init => Book!Init
BY DEF Init, Book!Init

LEMMA BookStep ==
    ASSUME GrantInv, [Next]_vars
    PROVE  [Book!Next]_<<asg, left, peakCap>>
<1>1. ASSUME NEW t \in Tasks, Create(t) PROVE Book!Next \/ UNCHANGED <<asg, left, peakCap>>
    <2>1. PICK c \in Caps : SetCap(t, c)
        BY <1>1 DEF Create
    <2>2. c \in Nat
        BY CapsArePositive
    <2> QED BY <1>1, <2>1, <2>2, CapIsRaise DEF Create
<1>2. ASSUME NEW s \in Slots, NEW t \in Tasks, NEW u \in Users, RowRead(s, t, u)
      PROVE  UNCHANGED <<asg, left, peakCap>>
    BY <1>2 DEF RowRead, ApplyRead, AcceptRead, RejectRead, CompleteRead, ConfirmRead,
                WithdrawRead, CheckinRead, BeginOnRow, Begin, history
<1>3. ASSUME NEW s \in Slots, NEW t \in Tasks, CancelRead(s, t) \/ PatchRead(s, t)
      PROVE  UNCHANGED <<asg, left, peakCap>>
    BY <1>3 DEF CancelRead, PatchRead, Begin, history
<1>4. ASSUME NEW s \in Slots, ReqStep(s) PROVE Book!Next \/ UNCHANGED <<asg, left, peakCap>>
    BY <1>4, ReqStepInBook
<1>5. ASSUME NEW s \in Slots, ReqFail(s) PROVE UNCHANGED <<asg, left, peakCap>>
    BY <1>5 DEF ReqFail, history
<1>6. ASSUME NEW t \in Tasks, NEW u \in Users, SevenDaysPass(t, u)
      PROVE  UNCHANGED <<asg, left, peakCap>>
    BY <1>6 DEF SevenDaysPass, history
<1>7. ASSUME NEW t \in Tasks, DeadlinePasses(t) PROVE UNCHANGED <<asg, left, peakCap>>
    BY <1>7 DEF DeadlinePasses, history
<1>8. ASSUME NEW p \in Passes, PassRead(p) \/ PassWrite(p) \/ PassFail(p)
      PROVE  UNCHANGED <<asg, left, peakCap>>
    BY <1>8 DEF PassRead, DueRead, ExpiredRead, FullRead, FinishedRead, PassWrite,
                ExpiredWrite, FullWrite, FinishedWrite, PassFail, history
<1>9. ASSUME NEW p \in Passes, NEW t \in Tasks, NEW u \in Users, AutoConfirm(p, t, u)
      PROVE  Book!Next
    <2>1. Had(t, u)
        BY <1>9 DEF AutoConfirm, GrantInv, SeatsEarned
    <2>2. SetRow(t, u, "COMPLETED", FALSE) /\ UNCHANGED peakCap
        BY <1>9 DEF AutoConfirm, history
    <2> QED BY <2>1, <2>2, WriteInBook
<1>10. CASE UNCHANGED vars
    BY <1>10 DEF vars, history
<1> QED BY <1>1, <1>2, <1>3, <1>4, <1>5, <1>6, <1>7, <1>8, <1>9, <1>10 DEF Next

\* However the requests on a row overlap, every write a handler or a settle
\* pass makes from an old read is a move the seat book allows on the row as it
\* is by then: only a claim grants a seat, and only a free one.
THEOREM PostingsImplementSeatBook == Spec => ImplementsSeatBook
BY GrantInvariance, BookInit, BookStep, PTL DEF Spec, ImplementsSeatBook, Book!Spec

-----------------------------------------------------------------------------
(* A completed posting is finished, where capacities are not edited *)

\* Full, and everybody finished: what settle's last scan looks for.
Concluded(t) == Taken(t) >= maxTakers[t] /\ AllFinished(t)

\* No claim knows another capacity than its posting has.
CapsFixed ==
    \A s \in Slots : (req[s] # Idle /\ req[s].at \in {"lock", "commit"}) =>
        req[s].cap = maxTakers[req[s].t]

\* What a pass is about to close was concluded when it was found and still is.
ScansStand ==
    \A p \in Passes : \A t \in pass[p].ids :
        status[t] # "ABSENT" /\ (pass[p].at = "done" => Concluded(t))

DoneInv == SeatInv /\ CapsFixed /\ ScansStand /\ CompletedMeansDone

\* A write that takes no seat without a count, and none from a helper who has
\* finished, leaves a concluded posting concluded.
LEMMA WriteKeepsConcluded ==
    ASSUME DoneInv, NEW s \in Slots, OnRow(s), NEW v \in RowStatus, WriteRow(s, v),
           "COMPLETED" \in Relied(s) => v = "COMPLETED",
           v \in HOLDS_A_SPOT => req[s].at = "commit" \/ Relied(s) \subseteq HOLDS_A_SPOT,
           NEW t \in Tasks, Concluded(t)
    PROVE  Concluded(t)'
<1>1. req[s].t \in Tasks /\ req[s].u \in Users /\ req[s] # Idle /\ req[s].cap \in Nat
    BY ReqTypes DEF DoneInv, SeatInv, ClaimInv, Request, OnRow, Idle, RowOps, TakerOps, OrganizerOps
<1>2. asg[req[s].t][req[s].u] \in Relied(s)
    BY DEF DoneInv, SeatInv, ClaimInv, ReadsStillValid
<1>3. asg \in [Tasks -> [Users -> RowStatus]]
    BY DEF DoneInv, SeatInv, ClaimInv, TypeOK
<1>4. asg' = [asg EXCEPT ![req[s].t][req[s].u] = v] /\ maxTakers' = maxTakers
    BY DEF WriteRow, SetRow, posting
<1>5. Holders(t)' = Holders(t) /\ \A u \in Holders(t) : asg'[t][u] = "COMPLETED"
    <2>0. \A u \in Holders(t) : asg[t][u] = "COMPLETED"
        BY DEF Concluded, AllFinished
    <2>1. CASE req[s].t # t
        BY <1>1, <1>3, <1>4, <2>0, <2>1 DEF Holders
    <2>2. CASE req[s].t = t /\ req[s].u \in Holders(t)
        <3>1. v = "COMPLETED"
            BY <1>2, <2>0, <2>2
        <3>2. \A u \in Users : asg'[t][u] = asg[t][u]
            BY <1>1, <1>3, <1>4, <2>0, <2>2, <3>1
        <3> QED BY <2>0, <3>2 DEF Holders
    <2>3. CASE req[s].t = t /\ req[s].u \notin Holders(t)
        <3>1. asg[t][req[s].u] \notin HOLDS_A_SPOT
            BY <1>1, <2>3 DEF Holders
        <3>2. req[s].at # "commit"
            <4> SUFFICES ASSUME req[s].at = "commit" PROVE FALSE OBVIOUS
            <4>1. Taken(t) < req[s].cap /\ req[s].cap = maxTakers[t]
                BY <1>1, <2>3 DEF DoneInv, SeatInv, ClaimInv, ClaimsHaveRoom, SpotLeft, CapsFixed
            <4>2. Taken(t) \in Nat /\ maxTakers[t] \in Nat
                BY HoldersFinite DEF DoneInv, SeatInv, ClaimInv, TypeOK
            <4> QED BY <4>1, <4>2 DEF Concluded
        <3>3. v \notin HOLDS_A_SPOT
            BY <1>2, <2>3, <3>1, <3>2
        <3>4. \A u \in Users : asg'[t][u] = IF u = req[s].u THEN v ELSE asg[t][u]
            BY <1>1, <1>3, <1>4, <2>3
        <3> QED BY <2>0, <3>1, <3>3, <3>4 DEF Holders
    <2> QED BY <2>1, <2>2, <2>3
<1>6. Taken(t)' = Taken(t)
    BY <1>5 DEF Taken
<1> QED BY <1>4, <1>5, <1>6 DEF Concluded, AllFinished

\* Nothing that happens to a posting that exists undoes its conclusion.
LEMMA ConcludedStays ==
    ASSUME DoneInv, PatchCaps = {}, [Next]_vars,
           NEW t \in Tasks, status[t] # "ABSENT", Concluded(t)
    PROVE  Concluded(t)'
<1>1. ASSUME UNCHANGED asg, maxTakers'[t] = maxTakers[t] PROVE Concluded(t)'
    BY <1>1, SameHolders DEF Concluded, AllFinished
<1>2. ASSUME NEW x \in Tasks, Create(x) PROVE Concluded(t)'
    <2>1. maxTakers'[t] = maxTakers[t]
        BY <1>2 DEF Create, SetCap, DoneInv, SeatInv, ClaimInv, TypeOK
    <2> QED BY <1>1, <1>2, <2>1 DEF Create
<1>3. ASSUME UNCHANGED <<asg, maxTakers>> PROVE Concluded(t)'
    BY <1>1, <1>3
<1>4. ASSUME NEW s \in Slots, ReqStep(s) PROVE Concluded(t)'
    <2>1. CASE CountSpots(s) \/ CountFull(s) \/ ApplyDuplicate(s) \/ CancelWrite(s)
        BY <1>3, <2>1 DEF CountSpots, CountFull, ApplyDuplicate, CancelWrite, posting
    <2>2. CASE PatchWrite(s)
        BY <2>2 DEF PatchWrite
    <2>3. ASSUME NEW v \in RowStatus, OnRow(s), WriteRow(s, v),
                 "COMPLETED" \in Relied(s) => v = "COMPLETED",
                 v \in HOLDS_A_SPOT => req[s].at = "commit" \/ Relied(s) \subseteq HOLDS_A_SPOT
          PROVE  Concluded(t)'
        BY <2>3, WriteKeepsConcluded
    <2>4. CASE ApplyWrite(s)
        <3>1. OnRow(s) /\ "COMPLETED" \notin Relied(s) /\ WriteRow(s, ApplyValue(s))
            BY <2>4 DEF ApplyWrite, At, OnRow, RowOps, TakerOps, Relied, Read, Overtaken
        <3>2. \/ req[s].at = "commit" /\ ApplyValue(s) = "ACCEPTED"
              \/ ApplyValue(s) = "APPLIED"
            BY DEF ApplyValue
        <3>3. "ACCEPTED" \in RowStatus /\ "APPLIED" \in RowStatus /\ "APPLIED" \notin HOLDS_A_SPOT
            BY DEF RowStatus, HOLDS_A_SPOT
        <3>4. CASE req[s].at = "commit" /\ ApplyValue(s) = "ACCEPTED"
            BY <2>3, <3>1, <3>3, <3>4
        <3>5. CASE ApplyValue(s) = "APPLIED"
            BY <2>3, <3>1, <3>3, <3>5
        <3> QED BY <3>2, <3>4, <3>5
    <2>5. CASE AcceptWrite(s)
        <3>1. /\ OnRow(s) /\ "COMPLETED" \notin Relied(s) /\ WriteRow(s, "ACCEPTED")
              /\ req[s].at = "commit" /\ "ACCEPTED" \in RowStatus
            BY <2>5 DEF AcceptWrite, At, OnRow, RowOps, OrganizerOps, Relied, Read, Overtaken,
                        RowStatus
        <3> QED BY <2>3, <3>1
    <2>6. CASE RejectWrite(s)
        <3>1. /\ OnRow(s) /\ "COMPLETED" \notin Relied(s) /\ WriteRow(s, "REJECTED")
              /\ "REJECTED" \in RowStatus /\ "REJECTED" \notin HOLDS_A_SPOT
            BY <2>6 DEF RejectWrite, At, OnRow, RowOps, OrganizerOps, Relied, Read, Overtaken,
                        RowStatus, HOLDS_A_SPOT
        <3> QED BY <2>3, <3>1
    <2>7. CASE CompleteWrite(s)
        <3>1. /\ OnRow(s) /\ "COMPLETED" \notin Relied(s) /\ WriteRow(s, "PENDING_CONFIRMATION")
              /\ "PENDING_CONFIRMATION" \in RowStatus /\ Relied(s) \subseteq HOLDS_A_SPOT
            BY <2>7 DEF CompleteWrite, At, OnRow, RowOps, TakerOps, Relied, Read, Overtaken, Working,
                        RowStatus, HOLDS_A_SPOT
        <3> QED BY <2>3, <3>1
    <2>8. CASE ConfirmWrite(s)
        <3>1. /\ OnRow(s) /\ WriteRow(s, "COMPLETED")
              /\ "COMPLETED" \in RowStatus /\ Relied(s) \subseteq HOLDS_A_SPOT
            BY <2>8 DEF ConfirmWrite, At, OnRow, RowOps, OrganizerOps, Relied, Read, Overtaken,
                        RowStatus, HOLDS_A_SPOT
        <3> QED BY <2>3, <3>1
    <2>9. CASE WithdrawWrite(s)
        <3>1. /\ OnRow(s) /\ "COMPLETED" \notin Relied(s) /\ WriteRow(s, "WITHDRAWN")
              /\ "WITHDRAWN" \in RowStatus /\ "WITHDRAWN" \notin HOLDS_A_SPOT
            BY <2>9 DEF WithdrawWrite, At, OnRow, RowOps, TakerOps, Relied, Read, Overtaken, Working,
                        RowStatus, HOLDS_A_SPOT
        <3> QED BY <2>3, <3>1
    <2>10. CASE CheckinWrite(s)
        <3>1. /\ OnRow(s) /\ WriteRow(s, "COMPLETED")
              /\ "COMPLETED" \in RowStatus /\ Relied(s) \subseteq HOLDS_A_SPOT
            BY <2>10 DEF CheckinWrite, At, OnRow, RowOps, TakerOps, Relied, Read, Overtaken,
                         RowStatus, HOLDS_A_SPOT
        <3> QED BY <2>3, <3>1
    <2> QED BY <1>4, <2>1, <2>2, <2>4, <2>5, <2>6, <2>7, <2>8, <2>9, <2>10 DEF ReqStep
<1>5. ASSUME NEW p \in Passes, NEW x \in Tasks, NEW u \in Users, AutoConfirm(p, x, u)
      PROVE  Concluded(t)'
    <2>1. asg[x][u] \in {"PENDING_CONFIRMATION", "COMPLETED"}
        BY <1>5 DEF AutoConfirm, DoneInv, SeatInv, ClaimInv, ReadsStillValid
    <2>2. /\ asg' = [asg EXCEPT ![x][u] = "COMPLETED"] /\ UNCHANGED maxTakers
          /\ asg \in [Tasks -> [Users -> RowStatus]]
        BY <1>5 DEF AutoConfirm, SetRow, DoneInv, SeatInv, ClaimInv, TypeOK, posting
    <2>3. \A w \in Users : asg'[t][w] = IF t = x /\ w = u THEN "COMPLETED" ELSE asg[t][w]
        BY <2>2
    <2>4. Holders(t)' = Holders(t)
        BY <2>1, <2>3 DEF Holders, HOLDS_A_SPOT
    <2>5. Taken(t)' = Taken(t)
        BY <2>4 DEF Taken
    <2>6. \A w \in Holders(t) : w \in Users
        BY DEF Holders
    <2>7. \A w \in Holders(t) : asg'[t][w] = "COMPLETED"
        BY <2>3, <2>6 DEF Concluded, AllFinished
    <2> QED BY <2>2, <2>4, <2>5, <2>7 DEF Concluded, AllFinished
<1>6. ASSUME NEW s \in Slots, NEW x \in Tasks, NEW u \in Users, RowRead(s, x, u)
      PROVE  UNCHANGED <<asg, maxTakers>>
    BY <1>6 DEF RowRead, ApplyRead, AcceptRead, RejectRead, CompleteRead, ConfirmRead,
                WithdrawRead, CheckinRead, BeginOnRow, Begin, posting
<1>7. ASSUME NEW s \in Slots, NEW x \in Tasks, CancelRead(s, x) \/ PatchRead(s, x)
      PROVE  UNCHANGED <<asg, maxTakers>>
    BY <1>7 DEF CancelRead, PatchRead, Begin, posting
<1>8. ASSUME NEW s \in Slots, ReqFail(s) PROVE UNCHANGED <<asg, maxTakers>>
    BY <1>8 DEF ReqFail, posting
<1>9. ASSUME NEW x \in Tasks, NEW u \in Users, SevenDaysPass(x, u) \/ DeadlinePasses(x)
      PROVE  UNCHANGED <<asg, maxTakers>>
    BY <1>9 DEF SevenDaysPass, DeadlinePasses, posting
<1>10. ASSUME NEW p \in Passes, PassRead(p) \/ PassWrite(p) \/ PassFail(p)
       PROVE  UNCHANGED <<asg, maxTakers>>
    BY <1>10 DEF PassRead, DueRead, ExpiredRead, FullRead, FinishedRead, PassWrite,
                 ExpiredWrite, FullWrite, FinishedWrite, PassFail, posting
<1>11. CASE UNCHANGED vars
    BY <1>3, <1>11 DEF vars
<1>12. CASE \E x \in Tasks : DeadlinePasses(x)
    BY <1>3, <1>12 DEF DeadlinePasses
<1> QED BY <1>2, <1>3, <1>4, <1>5, <1>6, <1>7, <1>8, <1>9, <1>10, <1>11, <1>12 DEF Next

LEMMA CapsFixedStep ==
    ASSUME DoneInv, PatchCaps = {}, [Next]_vars
    PROVE  CapsFixed'
<1>0. /\ req \in [Slots -> {Idle} \union Request]
      /\ \A s \in Slots : req[s] # Idle => req[s].t \in Tasks
    BY ReqTypes DEF DoneInv, SeatInv, ClaimInv, TypeOK, Request
<1>1. \A t \in Tasks : status[t] # "ABSENT" => maxTakers'[t] = maxTakers[t]
    BY PostingsRemain DEF DoneInv, SeatInv, ClaimInv
<1>2. \A s \in Slots : req[s] # Idle => maxTakers'[req[s].t] = maxTakers[req[s].t]
    BY <1>0, <1>1 DEF DoneInv, SeatInv, OnlyPosted
\* Requests keep what they know.
<1>3. ASSUME \A s \in Slots : \/ req'[s] = Idle
                              \/ /\ req[s] # Idle
                                 /\ req'[s].t = req[s].t /\ req'[s].cap = req[s].cap
                                 /\ req'[s].at \in {"lock", "commit"}
                                        => req[s].at \in {"lock", "commit"}
      PROVE  CapsFixed'
    BY <1>2, <1>3 DEF DoneInv, CapsFixed
<1>4. ASSUME UNCHANGED req PROVE CapsFixed'
    BY <1>3, <1>4
<1>5. ASSUME NEW s \in Slots, NEW op, NEW at, NEW t \in Tasks, NEW u, NEW cap, NEW existing,
             Begin(s, op, at, t, u, cap, existing),
             at \in {"lock", "commit"} => cap = maxTakers[t]
      PROVE  CapsFixed'
    <2>1. /\ req'[s].at = at /\ req'[s].t = t /\ req'[s].cap = cap
          /\ \A x \in Slots : x # s => req'[x] = req[x]
          /\ UNCHANGED maxTakers
        BY <1>0, <1>5 DEF Begin, posting
    <2> QED BY <1>5, <2>1 DEF DoneInv, CapsFixed
<1>6. ASSUME NEW s \in Slots, NEW t \in Tasks, NEW u \in Users, RowRead(s, t, u) PROVE CapsFixed'
    <2>1. CASE ApplyRead(s, t, u) \/ AcceptRead(s, t, u)
        <3>1. PICK op, at, existing : Begin(s, op, at, t, u, maxTakers[t], existing)
            BY <2>1 DEF ApplyRead, AcceptRead, BeginOnRow
        <3> QED BY <1>5, <3>1
    <2>2. CASE ~ApplyRead(s, t, u) /\ ~AcceptRead(s, t, u)
        <3>1. PICK op : Begin(s, op, "write", t, u, 0, TRUE)
            BY <1>6, <2>2 DEF RowRead, RejectRead, CompleteRead, ConfirmRead, WithdrawRead,
                              CheckinRead, BeginOnRow
        <3> QED BY <1>5, <3>1
    <2> QED BY <2>1, <2>2
<1>7. ASSUME NEW s \in Slots, NEW t \in Tasks, CancelRead(s, t) \/ PatchRead(s, t) PROVE CapsFixed'
    BY <1>5, <1>7 DEF CancelRead, PatchRead
<1>8. ASSUME NEW s \in Slots, ReqStep(s) \/ ReqFail(s) PROVE CapsFixed'
    <2>1. CASE CountSpots(s)
        BY <1>0, <1>3, <2>1 DEF CountSpots, Request
    <2>2. CASE Finish(s)
        BY <1>0, <1>3, <2>2 DEF Finish
    <2> QED BY <1>8, <2>1, <2>2
            DEF ReqStep, ReqFail, CountFull, ApplyWrite, ApplyDuplicate, AcceptWrite, RejectWrite,
                CompleteWrite, ConfirmWrite, WithdrawWrite, CheckinWrite, CancelWrite, PatchWrite,
                WriteRow
<1>9. ASSUME NEW p \in Passes, NEW t \in Tasks, NEW u \in Users, AutoConfirm(p, t, u)
      PROVE  CapsFixed'
    BY <1>4, <1>9 DEF AutoConfirm
<1>10. ASSUME NEW t \in Tasks, Create(t) \/ DeadlinePasses(t) PROVE CapsFixed'
    BY <1>4, <1>10 DEF Create, DeadlinePasses
<1>11. ASSUME NEW p \in Passes, PassRead(p) \/ PassWrite(p) \/ PassFail(p) PROVE CapsFixed'
    BY <1>4, <1>11 DEF PassRead, DueRead, ExpiredRead, FullRead, FinishedRead, PassWrite,
                 ExpiredWrite, FullWrite, FinishedWrite, PassFail
<1>12. ASSUME NEW t \in Tasks, NEW u \in Users, SevenDaysPass(t, u) PROVE CapsFixed'
    BY <1>4, <1>12 DEF SevenDaysPass
<1>13. CASE UNCHANGED vars
    BY <1>4, <1>13 DEF vars
<1> QED BY <1>6, <1>7, <1>8, <1>9, <1>10, <1>11, <1>12, <1>13 DEF Next

LEMMA ScansStandStep ==
    ASSUME DoneInv, PatchCaps = {}, [Next]_vars
    PROVE  ScansStand'
<1>0. pass \in [Passes -> Pass]
    BY DEF DoneInv, SeatInv, ClaimInv, TypeOK
<1>1. \A t \in Tasks : status[t] # "ABSENT" =>
            status'[t] # "ABSENT" /\ (Concluded(t) => Concluded(t)')
    BY PostingsRemain, ConcludedStays DEF DoneInv, SeatInv, ClaimInv
\* What is on a pass's list was on it before or has just been found.
<1>2. ASSUME \A p \in Passes : \A t \in pass'[p].ids :
               \/ t \in pass[p].ids /\ (pass'[p].at = "done" => pass[p].at = "done")
               \/ t \in Tasks /\ status[t] # "ABSENT" /\ (pass'[p].at = "done" => Concluded(t))
      PROVE  ScansStand'
    <2> SUFFICES ASSUME NEW p \in Passes, NEW t \in pass'[p].ids
                 PROVE  status'[t] # "ABSENT" /\ (pass'[p].at = "done" => Concluded(t)')
        BY DEF ScansStand
    <2>1. t \in Tasks /\ status[t] # "ABSENT" /\ (pass'[p].at = "done" => Concluded(t))
        BY <1>0, <1>2 DEF DoneInv, ScansStand, Pass
    <2> QED BY <1>1, <2>1
<1>3. ASSUME UNCHANGED pass PROVE ScansStand'
    BY <1>2, <1>3
<1>4. ASSUME NEW p \in Passes, NEW at, NEW rows, Advance(p, at, rows, {}) PROVE ScansStand'
    BY <1>0, <1>2, <1>4 DEF Advance
<1>5. ASSUME NEW p \in Passes, NEW found \in SUBSET Tasks, NEW w, NEW n, Scan(p, found, w, n),
             \A t \in found : status[t] # "ABSENT" /\ (w = "done" => Concluded(t))
      PROVE  ScansStand'
    <2>1. CASE found = {}
        BY <1>4, <1>5, <2>1 DEF Scan
    <2>2. CASE found # {}
        BY <1>0, <1>2, <1>5, <2>2 DEF Scan, Advance
    <2> QED BY <2>1, <2>2
<1>6. ASSUME NEW p \in Passes, PassRead(p) \/ PassWrite(p) \/ PassFail(p) PROVE ScansStand'
    <2>1. CASE DueRead(p) \/ PassWrite(p)
        BY <1>4, <2>1 DEF DueRead, PassWrite, ExpiredWrite, FullWrite, FinishedWrite
    <2>2. CASE PassFail(p)
        BY <1>0, <1>2, <2>2 DEF PassFail, AtRest
    <2>3. CASE ExpiredRead(p)
        <3> DEFINE found == {t \in Tasks : PastDeadline(t)}
        <3>1. Scan(p, found, "expire", "scanFull") /\ \A t \in found : status[t] # "ABSENT"
            BY <2>3 DEF ExpiredRead, PastDeadline
        <3>2. found \in SUBSET Tasks
            OBVIOUS
        <3> HIDE DEF found
        <3> QED BY <1>5, <3>1, <3>2
    <2>4. CASE FullRead(p)
        <3> DEFINE found == {t \in Tasks : Full(t)}
        <3>1. Scan(p, found, "full", "scanDone") /\ \A t \in found : status[t] # "ABSENT"
            BY <2>4 DEF FullRead, Full
        <3>2. found \in SUBSET Tasks
            OBVIOUS
        <3> HIDE DEF found
        <3> QED BY <1>5, <3>1, <3>2
    <2>5. CASE FinishedRead(p)
        <3> DEFINE found == {t \in Tasks : Finished(t)}
        <3>1. /\ Scan(p, found, "done", "rest")
              /\ \A t \in found : status[t] # "ABSENT" /\ Concluded(t)
            BY <2>5 DEF FinishedRead, Finished, Concluded
        <3>2. found \in SUBSET Tasks
            OBVIOUS
        <3> HIDE DEF found
        <3> QED BY <1>5, <3>1, <3>2
    <2> QED BY <1>6, <2>1, <2>2, <2>3, <2>4, <2>5 DEF PassRead
<1>7. ASSUME NEW p \in Passes, NEW t \in Tasks, NEW u \in Users, AutoConfirm(p, t, u)
      PROVE  ScansStand'
    BY <1>4, <1>7 DEF AutoConfirm
<1>8. ASSUME NEW s \in Slots, ReqStep(s) \/ ReqFail(s) PROVE ScansStand'
    BY <1>3, <1>8 DEF ReqStep, ReqFail, CountSpots, CountFull, ApplyWrite, ApplyDuplicate,
           AcceptWrite, RejectWrite, CompleteWrite, ConfirmWrite, WithdrawWrite, CheckinWrite,
           WriteRow, CancelWrite, PatchWrite
<1>9. ASSUME NEW s \in Slots, NEW t \in Tasks, NEW u \in Users, RowRead(s, t, u) PROVE ScansStand'
    BY <1>3, <1>9 DEF RowRead, ApplyRead, AcceptRead, RejectRead, CompleteRead, ConfirmRead,
                WithdrawRead, CheckinRead, BeginOnRow, Begin
<1>10. ASSUME NEW s \in Slots, NEW t \in Tasks, CancelRead(s, t) \/ PatchRead(s, t)
       PROVE  ScansStand'
    BY <1>3, <1>10 DEF CancelRead, PatchRead, Begin
<1>11. ASSUME NEW t \in Tasks, Create(t) \/ DeadlinePasses(t) PROVE ScansStand'
    BY <1>3, <1>11 DEF Create, DeadlinePasses
<1>12. ASSUME NEW t \in Tasks, NEW u \in Users, SevenDaysPass(t, u) PROVE ScansStand'
    BY <1>3, <1>12 DEF SevenDaysPass
<1>13. CASE UNCHANGED vars
    BY <1>3, <1>13 DEF vars
<1> QED BY <1>6, <1>7, <1>8, <1>9, <1>10, <1>11, <1>12, <1>13 DEF Next

LEMMA CompletedStep ==
    ASSUME DoneInv, PatchCaps = {}, [Next]_vars
    PROVE  CompletedMeansDone'
<1>0. pass \in [Passes -> Pass] /\ status \in [Tasks -> TaskStatus]
    BY DEF DoneInv, SeatInv, ClaimInv, TypeOK
\* Only the last write of a pass completes a posting.
<1>1. \A t \in Tasks : status'[t] = "COMPLETED" =>
        status[t] = "COMPLETED" \/ \E p \in Passes : pass[p].at = "done" /\ t \in pass[p].ids
    <2>1. ASSUME NEW s \in Slots, ReqStep(s) \/ ReqFail(s)
          PROVE  \A t \in Tasks : status'[t] = "COMPLETED" => status[t] = "COMPLETED"
        BY <1>0, <2>1 DEF ReqStep, ReqFail, CountSpots, CountFull, ApplyWrite, ApplyDuplicate,
               AcceptWrite, RejectWrite, CompleteWrite, ConfirmWrite, WithdrawWrite, CheckinWrite,
               WriteRow, CancelWrite, PatchWrite, posting
    <2>2. ASSUME NEW p \in Passes, PassRead(p) \/ PassWrite(p) \/ PassFail(p)
          PROVE  \A t \in Tasks : status'[t] = "COMPLETED" =>
                    \/ status[t] = "COMPLETED"
                    \/ pass[p].at = "done" /\ t \in pass[p].ids
        <3>1. CASE PassRead(p) \/ PassFail(p)
            BY <3>1 DEF PassRead, DueRead, ExpiredRead, FullRead, FinishedRead, PassFail, posting
        <3>2. CASE ExpiredWrite(p) \/ FullWrite(p)
            BY <3>2 DEF ExpiredWrite, FullWrite, SettleStatus
        <3>3. CASE FinishedWrite(p)
            BY <3>3 DEF FinishedWrite, SettleStatus
        <3> QED BY <2>2, <3>1, <3>2, <3>3 DEF PassWrite
    <2>3. ASSUME NEW s \in Slots, NEW t \in Tasks, NEW u \in Users, RowRead(s, t, u)
          PROVE  UNCHANGED status
        BY <2>3 DEF RowRead, ApplyRead, AcceptRead, RejectRead, CompleteRead, ConfirmRead,
                WithdrawRead, CheckinRead, BeginOnRow, Begin, posting
    <2>4. ASSUME NEW s \in Slots, NEW t \in Tasks, CancelRead(s, t) \/ PatchRead(s, t)
          PROVE  UNCHANGED status
        BY <2>4 DEF CancelRead, PatchRead, Begin, posting
    <2>5. ASSUME NEW x \in Tasks, Create(x)
          PROVE  \A t \in Tasks : status'[t] = "COMPLETED" => status[t] = "COMPLETED"
        BY <1>0, <2>5 DEF Create
    <2>6. ASSUME NEW t \in Tasks, NEW u \in Users, SevenDaysPass(t, u) PROVE UNCHANGED status
        BY <2>6 DEF SevenDaysPass, posting
    <2>7. ASSUME NEW t \in Tasks, DeadlinePasses(t) PROVE UNCHANGED status
        BY <2>7 DEF DeadlinePasses
    <2>8. ASSUME NEW p \in Passes, NEW t \in Tasks, NEW u \in Users, AutoConfirm(p, t, u)
          PROVE  UNCHANGED status
        BY <2>8 DEF AutoConfirm, posting
    <2>9. CASE UNCHANGED vars
        BY <2>9 DEF vars
    <2> QED BY <2>1, <2>2, <2>3, <2>4, <2>5, <2>6, <2>7, <2>8, <2>9 DEF Next
<1>2. \A t \in Tasks : status'[t] = "COMPLETED" => status[t] # "ABSENT" /\ Concluded(t)
    BY <1>0, <1>1 DEF DoneInv, CompletedMeansDone, ScansStand, Concluded, Pass
<1>3. \A t \in Tasks : status'[t] = "COMPLETED" => Concluded(t)'
    BY <1>2, ConcludedStays
<1> QED BY <1>3 DEF CompletedMeansDone, Concluded

LEMMA DoneInit == Init => DoneInv
<1> SUFFICES ASSUME Init PROVE DoneInv OBVIOUS
<1>1. CapsFixed /\ ScansStand /\ CompletedMeansDone
    BY DEF Init, CapsFixed, ScansStand, CompletedMeansDone, AtRest
<1> QED BY <1>1, SeatInit DEF DoneInv

\* Where the requests of each side on a row are serialized and postings are not
\* edited, a posting that settle has completed is full and everybody on it has
\* finished, however many passes decide from however old a scan.
THEOREM CompletedPostingsAreDone ==
    ASSUME Discipline \in {"row", "side"}, PatchCaps = {}
    PROVE  Spec => []CompletedMeansDone
<1>1. DoneInv /\ [Next]_vars => DoneInv'
    BY SeatStep, CapsFixedStep, ScansStandStep, CompletedStep DEF DoneInv, Serialized
<1>2. DoneInv => CompletedMeansDone
    BY DEF DoneInv
<1> QED BY <1>1, <1>2, DoneInit, PTL DEF Spec

=============================================================================
