---------------------------- MODULE AccountsProofs ----------------------------
(***************************************************************************)
(* A session never acts with rights that changed more than an hour and a   *)
(* sign-in ago, and a student id that is set stays, for any number of      *)
(* people and of requests that overlap each other and the clock.           *)
(***************************************************************************)
EXTENDS Accounts, TLAPS

\* What a request of each kind carries.
LEMMA RequestFields ==
    ASSUME NEW r \in Request
    PROVE  /\ r.at \in {"update", "claim", "create", "retry", "email", "orgs", "sign",
                        "put", "role", "join", "leave"}
           /\ r.p \in People
           /\ r.at \in {"update", "claim", "put"} => r.read \in Ids \union {NoId}
           /\ r.at = "put" => r.id \in Ids
           /\ r.at \in {"orgs", "sign"} => r.role \in Roles
           /\ r.at = "sign" => r.member \in BOOLEAN
           /\ r.at = "role" => r.to \in Roles
BY DEF Request

\* A slot that is at some step of a request holds a request.
LEMMA AtHoldsARequest ==
    ASSUME TypeOK, NEW s \in Slots, req[s].at # "idle"
    PROVE  req[s] \in Request
BY DEF TypeOK, Idle

LEMMA TypeInit == Init => TypeOK
<1> SUFFICES ASSUME Init PROVE TypeOK
    OBVIOUS
<1> USE DEF Init
<1>1. token \in [People -> {NoToken} \union Token]
    OBVIOUS
<1>2. quiet \in [People -> 0..(Ttl + Lag)] /\ waited \in [Slots -> 0..Lag]
    BY TtlIsPositive
<1>3. role \in [People -> Roles]
    BY DEF Roles
<1>4. row \in [People -> {"absent", "imported", "linked"}]
    OBVIOUS
<1>5. member \in [People -> BOOLEAN] /\ req \in [Slots -> {Idle} \union Request]
    OBVIOUS
<1> QED
    BY <1>1, <1>2, <1>3, <1>4, <1>5 DEF TypeOK

\* A well-formed request takes the place of another, in time.
LEMMA GoOnType ==
    ASSUME TypeOK, NEW s \in Slots, NEW r \in Request, GoOn(s, r)
    PROVE  req' \in [Slots -> {Idle} \union Request] /\ waited' \in [Slots -> 0..Lag]
BY DEF TypeOK, GoOn

\* Beginning a well-formed request.
LEMMA BeginType ==
    ASSUME TypeOK, NEW s \in Slots, NEW r \in Request, Begin(s, r)
    PROVE  TypeOK'
BY GoOnType DEF TypeOK, Begin, users

\* Ending one.
LEMMA FinishType ==
    ASSUME TypeOK, NEW s \in Slots, Finish(s)
    PROVE  req' \in [Slots -> {Idle} \union Request] /\ waited' \in [Slots -> 0..Lag]
BY TtlIsPositive DEF TypeOK, Finish

\* The time of a change is now.
LEMMA QuietType ==
    ASSUME TypeOK, NEW p \in People, quiet' = [quiet EXCEPT ![p] = 0]
    PROVE  quiet' \in [People -> 0..(Ttl + Lag)]
BY TtlIsPositive DEF TypeOK

\* The steps of a sign-in or an edit that is in flight.
LEMMA RequestStepType ==
    ASSUME TypeOK, NEW s \in Slots, SignInStep(s) \/ WriteStep(s) \/ ReqFail(s)
    PROVE  TypeOK'
<1>0. req[s].at # "idle" => req[s] \in Request
    BY AtHoldsARequest
<1>1. req[s] \in Request =>
          Directory[req[s].p] \in Ids \union {NoId} /\ role[req[s].p] \in Roles
    BY RequestFields, IdsAreIds DEF TypeOK
<1>2. CASE UpdateRow(s)
    <2> DEFINE p == req[s].p
    <2>1. req[s] \in Request /\ p \in People /\ req[s].read \in Ids \union {NoId}
        BY <1>0, <1>2, RequestFields DEF UpdateRow, At
    <2>2. Filled(p, req[s].read) \in Ids \union {NoId}
        BY <2>1, <1>1 DEF Filled
    <2>3. universityId' \in [People -> Ids \union {NoId}]
        BY <1>2, <2>2 DEF UpdateRow, SetId, TypeOK
    <2>4. [at |-> "orgs", p |-> p, role |-> role[p]] \in Request
        BY <2>1, <1>1 DEF Request
    <2>5. req' \in [Slots -> {Idle} \union Request] /\ waited' \in [Slots -> 0..Lag]
        BY <1>2, <2>4, GoOnType DEF UpdateRow, ReadOrgs
    <2> QED
        BY <1>2, <2>3, <2>5 DEF UpdateRow, TypeOK
<1>3. CASE CreateRow(s) \/ RetryRow(s)
    <2> DEFINE p == req[s].p
               r == IF p \in Staff THEN "TEACHER" ELSE "STUDENT"
    <2>1. req[s] \in Request /\ p \in People
        BY <1>0, <1>3, RequestFields DEF CreateRow, RetryRow, At
    <2>2. PICK id \in Ids \union {NoId} : Insert(s, id)
        BY <1>1, <1>3, <2>1 DEF CreateRow, RetryRow
    <2>3. [at |-> "orgs", p |-> p, role |-> r] \in Request /\ r \in Roles
        BY <2>1 DEF Request, Roles
    <2>4. req' \in [Slots -> {Idle} \union Request] /\ waited' \in [Slots -> 0..Lag]
        BY <2>2, <2>3, GoOnType DEF Insert, ReadOrgs
    <2>5. /\ row' \in [People -> {"absent", "imported", "linked"}]
          /\ universityId' \in [People -> Ids \union {NoId}]
          /\ role' \in [People -> Roles]
        BY <2>2, <2>3 DEF Insert, SetId, TypeOK
    <2>6. quiet' \in [People -> 0..(Ttl + Lag)]
        BY <2>1, <2>2, QuietType DEF Insert
    <2> QED
        BY <2>2, <2>4, <2>5, <2>6 DEF Insert, TypeOK
<1>4. CASE CreateIdTaken(s) \/ CreateRowTaken(s) \/ EmailFound(s)
    <2>1. req[s] \in Request /\ req[s].p \in People
        BY <1>0, <1>4, RequestFields DEF CreateIdTaken, CreateRowTaken, EmailFound, At
    <2>2. universityId[req[s].p] \in Ids \union {NoId}
        BY <2>1 DEF TypeOK
    <2>3. PICK r \in Request : GoOn(s, r)
        BY <1>4, <2>1, <2>2 DEF CreateIdTaken, CreateRowTaken, EmailFound, Request
    <2>4. req' \in [Slots -> {Idle} \union Request] /\ waited' \in [Slots -> 0..Lag]
        BY <2>3, GoOnType
    <2> QED
        BY <1>4, <2>4 DEF CreateIdTaken, CreateRowTaken, EmailFound, users, TypeOK
<1>5. CASE ClaimRow(s)
    <2> DEFINE p == req[s].p
    <2>1. req[s] \in Request /\ p \in People /\ req[s].read \in Ids \union {NoId}
        BY <1>0, <1>5, RequestFields DEF ClaimRow, At
    <2>2. Claimed(s) \in Ids \union {NoId}
        BY <2>1, <1>1 DEF Claimed
    <2>3. [at |-> "orgs", p |-> p, role |-> role[p]] \in Request
        BY <2>1, <1>1 DEF Request
    <2>4. req' \in [Slots -> {Idle} \union Request] /\ waited' \in [Slots -> 0..Lag]
        BY <1>5, <2>3, GoOnType DEF ClaimRow, ReadOrgs
    <2>5. /\ row' \in [People -> {"absent", "imported", "linked"}]
          /\ universityId' \in [People -> Ids \union {NoId}]
        BY <1>5, <2>2 DEF ClaimRow, SetId, TypeOK
    <2> QED
        BY <1>5, <2>4, <2>5 DEF ClaimRow, TypeOK
<1>6. CASE ReadMemberships(s)
    <2> DEFINE p == req[s].p
    <2>1. req[s] \in Request /\ req[s].role \in Roles /\ p \in People
        BY <1>0, <1>6, RequestFields DEF ReadMemberships, At
    <2>2. [at |-> "sign", p |-> p, role |-> req[s].role, member |-> member[p]] \in Request
        BY <2>1 DEF Request, TypeOK
    <2>3. req' \in [Slots -> {Idle} \union Request] /\ waited' \in [Slots -> 0..Lag]
        BY <1>6, <2>2, GoOnType DEF ReadMemberships
    <2> QED
        BY <1>6, <2>3 DEF ReadMemberships, users, TypeOK
<1>7. CASE Issue(s)
    <2>1. req[s].role \in Roles /\ req[s].member \in BOOLEAN
        BY <1>0, <1>7, RequestFields DEF Issue, At
    <2>2. 0 \in 0..(Ttl - 1)
        BY TtlIsPositive
    <2>3. [role |-> req[s].role, member |-> req[s].member, age |-> 0] \in Token
        BY <2>1, <2>2 DEF Token
    <2>4. token' \in [People -> {NoToken} \union Token]
        BY <1>7, <2>3 DEF Issue, TypeOK
    <2> QED
        BY <1>7, <2>4, FinishType DEF Issue, users, TypeOK
<1>8. CASE PutWrite(s)
    <2>1. req[s].id \in Ids
        BY <1>0, <1>8, RequestFields DEF PutWrite, At
    <2>2. universityId' \in [People -> Ids \union {NoId}]
        BY <1>8, <2>1 DEF PutWrite, SetId, TypeOK
    <2> QED
        BY <1>8, <2>2, FinishType DEF PutWrite, TypeOK
<1>9. CASE RoleWrite(s)
    <2>1. req[s].p \in People /\ req[s].to \in Roles
        BY <1>0, <1>9, RequestFields DEF RoleWrite, At
    <2>2. role' \in [People -> Roles] /\ quiet' \in [People -> 0..(Ttl + Lag)]
        BY <1>9, <2>1, QuietType DEF RoleWrite, TypeOK
    <2> QED
        BY <1>9, <2>2, FinishType DEF RoleWrite, TypeOK
<1>10. CASE MembershipWrite(s)
    <2>1. req[s].p \in People
        BY <1>0, <1>10, RequestFields DEF MembershipWrite, At
    <2>2. member' \in [People -> BOOLEAN] /\ quiet' \in [People -> 0..(Ttl + Lag)]
        BY <1>10, <2>1, QuietType DEF MembershipWrite, TypeOK
    <2> QED
        BY <1>10, <2>2, FinishType DEF MembershipWrite, TypeOK
<1>11. CASE UpdateRefused(s) \/ Refused(s) \/ ReqFail(s)
    BY <1>11, FinishType DEF UpdateRefused, Refused, ReqFail, users, TypeOK
<1> QED
    BY <1>2, <1>3, <1>4, <1>5, <1>6, <1>7, <1>8, <1>9, <1>10, <1>11 DEF SignInStep, WriteStep

\* A token of a tick later is none, or one that was good and is a tick older.
LEMMA OlderToken ==
    ASSUME TypeOK, NEW p \in People
    PROVE  \/ Aged(p) = NoToken
           \/ /\ Live(p) /\ Aged(p) \in Token
              /\ Aged(p).role = token[p].role /\ Aged(p).member = token[p].member
              /\ Aged(p).age = token[p].age + 1
<1>1. CASE token[p] = NoToken
    <2>1. ~(token[p].age + 1 < Ttl)
        BY <1>1, TtlIsPositive DEF NoToken
    <2> QED
        BY <2>1 DEF Aged
<1>2. CASE token[p] \in Token /\ token[p].age + 1 < Ttl
    <2>1. token[p].age + 1 \in 0..(Ttl - 1) /\ token[p].age # Ttl
        BY <1>2, TtlIsPositive DEF Token
    <2>2. Aged(p) = [token[p] EXCEPT !.age = @ + 1] /\ Live(p)
        BY <1>2, <2>1 DEF Aged, Live, NoToken
    <2> QED
        BY <1>2, <2>1, <2>2 DEF Token
<1>3. CASE ~(token[p].age + 1 < Ttl)
    BY <1>3 DEF Aged
<1> QED
    BY <1>1, <1>2, <1>3 DEF TypeOK

LEMMA TickType ==
    ASSUME TypeOK, Tick
    PROVE  TypeOK'
<1>1. token' \in [People -> {NoToken} \union Token]
    BY OlderToken DEF TypeOK, Tick
<1>2. quiet' \in [People -> 0..(Ttl + Lag)]
    BY TtlIsPositive DEF TypeOK, Tick
<1>3. \A s \in Slots : waited[s] \in 0..Lag
    BY DEF TypeOK
<1>4. \A s \in Slots : (IF Carries(s) THEN waited[s] + 1 ELSE 0) \in 0..Lag
    BY <1>3, TtlIsPositive DEF Tick
<1>5. waited' \in [Slots -> 0..Lag]
    BY <1>4 DEF Tick
<1> QED
    BY <1>1, <1>2, <1>5 DEF TypeOK, Tick, users

LEMMA TypeNext == TypeOK /\ [Next]_vars => TypeOK'
<1> SUFFICES ASSUME TypeOK, [Next]_vars PROVE TypeOK'
    OBVIOUS
<1>1. ASSUME NEW s \in Slots, NEW p \in People, SignIn(s, p) \/ PasswordSignIn(s, p)
      PROVE  TypeOK'
    <2>1. PICK r \in Request : Begin(s, r)
        BY <1>1 DEF SignIn, PasswordSignIn, Request, Roles, TypeOK
    <2> QED
        BY <2>1, BeginType
<1>2. ASSUME NEW s \in Slots, NEW p \in People, NEW id \in Ids, PutMe(s, p, id)
      PROVE  TypeOK'
    <2>1. [at |-> "put", p |-> p, read |-> universityId[p], id |-> id] \in Request
        BY DEF Request, TypeOK
    <2> QED
        BY <1>2, <2>1, BeginType DEF PutMe
<1>3. ASSUME NEW s \in Slots, SignInStep(s) \/ WriteStep(s) \/ ReqFail(s)
      PROVE  TypeOK'
    BY <1>3, RequestStepType
<1>4. ASSUME NEW p \in People, Logout(p)
      PROVE  TypeOK'
    BY <1>4 DEF TypeOK, Logout, users
<1>5. ASSUME NEW s \in Slots, NEW a \in People, NEW p \in People, NEW r \in Grantable,
             ChangeRole(s, a, p, r)
      PROVE  TypeOK'
    <2>1. [at |-> "role", p |-> p, to |-> r] \in Request
        BY DEF Request, Grantable, Roles
    <2> QED
        BY <1>5, <2>1, BeginType DEF ChangeRole
<1>6. ASSUME NEW s \in Slots, NEW a \in People, NEW p \in Joiners, ChangeMembership(s, a, p)
      PROVE  TypeOK'
    <2>1. p \in People
        BY JoinersArePeople
    <2>2. PICK r \in Request : Begin(s, r)
        BY <1>6, <2>1 DEF ChangeMembership, Request
    <2> QED
        BY <2>2, BeginType
<1>7. CASE Tick
    BY <1>7, TickType
<1>8. CASE Boot
    <2>1. role' \in [People -> Roles] /\ req' \in [Slots -> {Idle} \union Request]
        BY <1>8 DEF TypeOK, Boot, Roles
    <2>2. quiet' \in [People -> 0..(Ttl + Lag)] /\ waited' \in [Slots -> 0..Lag]
        BY <1>8, TtlIsPositive DEF TypeOK, Boot
    <2> QED
        BY <1>8, <2>1, <2>2 DEF TypeOK, Boot
<1>9. CASE UNCHANGED vars
    BY <1>9 DEF TypeOK, vars
<1> QED
    BY <1>1, <1>2, <1>3, <1>4, <1>5, <1>6, <1>7, <1>8, <1>9 DEF Next

\* Every reachable state is well typed, whatever the people, the ids, the
\* imported rows and the length of a session.
THEOREM Typing == Spec => []TypeOK
BY TypeInit, TypeNext, PTL DEF Spec

-----------------------------------------------------------------------------

\* What is written and read of ages and times is a number.
LEMMA Times ==
    ASSUME TypeOK, NEW p \in People
    PROVE  /\ quiet[p] \in 0..(Ttl + Lag) /\ quiet[p] \in Nat
           /\ token[p].age \in 0..Ttl /\ token[p].age \in Nat
           /\ Live(p) => token[p].age < Ttl
           /\ ~Live(p) => token[p].age = Ttl
           /\ \A s \in Slots : waited[s] \in 0..Lag /\ waited[s] \in Nat
<1>1. token[p] = NoToken \/ token[p] \in Token
    BY DEF TypeOK
<1>2. CASE token[p] = NoToken
    BY <1>2, TtlIsPositive DEF TypeOK, NoToken, Live
<1>3. CASE token[p] \in Token
    <2>1. token[p].age \in 0..(Ttl - 1)
        BY <1>3 DEF Token
    <2> QED
        BY <1>3, <2>1, TtlIsPositive DEF TypeOK, NoToken, Live
<1> QED
    BY <1>1, <1>2, <1>3

LEMMA RightsInit == Init => RightsInv
<1> SUFFICES ASSUME Init PROVE RightsInv
    OBVIOUS
<1>1. TypeOK
    BY TypeInit
<1>2. TokensTrackRows
    BY TtlIsPositive DEF Init, TokensTrackRows, NoToken
<1>3. ReadRightsAreRecent
    BY DEF Init, ReadRightsAreRecent, Carries, At, Idle
<1> QED
    BY <1>1, <1>2, <1>3 DEF RightsInv

\* A slot carries the rights it carried, or those the row has now.
Reread(s) ==
    \/ req'[s] = req[s] /\ waited'[s] = waited[s]
    \/ req'[s].at \notin {"orgs", "sign"}
    \/ req'[s].at = "orgs" /\ req'[s].role = role[req'[s].p]
    \/ /\ req'[s].at = "sign" /\ req[s].at = "orgs" /\ waited'[s] = waited[s]
       /\ req'[s].p = req[s].p /\ req'[s].role = req[s].role
       /\ req'[s].member = member[req[s].p]

\* Steps that write neither rights nor tokens.
LEMMA ReadingStep ==
    ASSUME RightsInv, TypeOK', UNCHANGED <<role, member, token, quiet>>,
           \A s \in Slots : Reread(s)
    PROVE  RightsInv'
<1>1. TokensTrackRows'
    BY DEF RightsInv, TokensTrackRows
<1>2. ASSUME NEW s \in Slots
      PROVE  /\ req'[s].at \in {"orgs", "sign"} =>
                   req'[s].role = role[req'[s].p] \/ quiet[req'[s].p] <= waited'[s]
             /\ req'[s].at = "sign" =>
                   req'[s].member = member[req'[s].p] \/ quiet[req'[s].p] <= waited'[s]
    BY DEF RightsInv, ReadRightsAreRecent, Carries, At, Reread
<1>3. ReadRightsAreRecent'
    BY <1>2 DEF ReadRightsAreRecent, Carries, At
<1> QED
    BY <1>1, <1>3 DEF RightsInv

\* Steps that write the rights of one person now; what they read of them, they
\* carry from now on.
LEMMA WritingStep ==
    ASSUME RightsInv, TypeOK', NEW p \in People, UNCHANGED token,
           quiet' = [quiet EXCEPT ![p] = 0],
           \A q \in People \ {p} : role'[q] = role[q] /\ member'[q] = member[q],
           \A s \in Slots :
               \/ req'[s] = req[s] /\ waited'[s] = waited[s]
               \/ req'[s].at \notin {"orgs", "sign"}
               \/ req'[s].p = p
    PROVE  RightsInv'
<1>1. quiet'[p] = 0 /\ \A q \in People \ {p} : quiet'[q] = quiet[q]
    BY DEF RightsInv, TypeOK
<1>2. \A q \in People : token[q].age \in Nat /\ token[q].age + Lag >= 0
    BY Times, TtlIsPositive DEF RightsInv
<1>3. TokensTrackRows'
    <2> SUFFICES ASSUME NEW q \in People, token'[q].age + Lag < quiet'[q]
                 PROVE  token'[q].role = role'[q] /\ token'[q].member = member'[q]
        BY DEF TokensTrackRows
    <2>1. q # p
        BY <1>1, <1>2, TtlIsPositive
    <2> QED
        BY <1>1, <2>1 DEF RightsInv, TokensTrackRows
<1>4. \A s \in Slots : 0 <= waited'[s]
    BY DEF TypeOK
<1>5. ReadRightsAreRecent'
    <2> SUFFICES ASSUME NEW s \in Slots, req'[s].at \in {"orgs", "sign"}
                 PROVE  /\ req'[s].role = role'[req'[s].p] \/ quiet'[req'[s].p] <= waited'[s]
                        /\ req'[s].at = "sign" =>
                             \/ req'[s].member = member'[req'[s].p]
                             \/ quiet'[req'[s].p] <= waited'[s]
        BY DEF ReadRightsAreRecent, Carries, At
    <2>1. CASE req'[s].p = p
        BY <1>1, <1>4, <2>1
    <2>2. CASE req'[s] = req[s] /\ waited'[s] = waited[s] /\ req[s].p # p
        <3>1. req[s].p \in People
            BY <2>2, AtHoldsARequest, RequestFields DEF RightsInv
        <3> QED
            BY <1>1, <2>2, <3>1 DEF RightsInv, ReadRightsAreRecent, Carries, At
    <2> QED
        BY <2>1, <2>2
<1> QED
    BY <1>3, <1>5 DEF RightsInv

\* The token is signed with what was read before.
LEMMA IssueStep ==
    ASSUME RightsInv, TypeOK', NEW s \in Slots, Issue(s)
    PROVE  RightsInv'
<1> DEFINE p == req[s].p
<1>0. TypeOK
    BY DEF RightsInv
<1>1. p \in People
    BY <1>0, AtHoldsARequest, RequestFields DEF Issue, At
<1>2. /\ token' = [token EXCEPT ![p] =
                      [role |-> req[s].role, member |-> req[s].member, age |-> 0]]
      /\ UNCHANGED <<role, member, quiet>>
    BY DEF Issue, users
<1>3. /\ token'[p].age = 0 /\ token'[p].role = req[s].role /\ token'[p].member = req[s].member
      /\ \A q \in People \ {p} : token'[q] = token[q]
    BY <1>0, <1>1, <1>2 DEF TypeOK
<1>4. (req[s].role = role[p] /\ req[s].member = member[p]) \/ quiet[p] <= waited[s]
    BY DEF Issue, RightsInv, ReadRightsAreRecent, Carries
<1>5. quiet[p] \in Nat /\ waited[s] \in Nat /\ waited[s] <= Lag
    BY <1>0, <1>1, Times
<1>6. token'[p].age + Lag < quiet'[p] =>
          token'[p].role = role'[p] /\ token'[p].member = member'[p]
    BY <1>2, <1>3, <1>4, <1>5, TtlIsPositive
<1>7. TokensTrackRows'
    BY <1>2, <1>3, <1>6 DEF TokensTrackRows, RightsInv
<1>8. \A t \in Slots : \/ req'[t] = req[t] /\ waited'[t] = waited[t]
                       \/ req'[t].at \notin {"orgs", "sign"}
    BY <1>0 DEF Issue, Finish, Idle, TypeOK
<1>9. ReadRightsAreRecent'
    BY <1>2, <1>8 DEF ReadRightsAreRecent, Carries, At, RightsInv
<1> QED
    BY <1>7, <1>9 DEF RightsInv

\* Tokens, sign-ins and changes grow older together; a token that expires is no
\* longer younger than any change.
LEMMA TickStep ==
    ASSUME RightsInv, TypeOK', Tick
    PROVE  RightsInv'
<1>0. TypeOK /\ UNCHANGED <<role, member, req>>
    BY DEF RightsInv, Tick, users
<1>q. ASSUME NEW p \in People
      PROVE  quiet[p] \in Nat /\ quiet'[p] \in 0..(Ttl + Lag) /\ quiet'[p] <= quiet[p] + 1
    <2>1. quiet[p] \in Nat /\ quiet'[p] \in 0..(Ttl + Lag)
        BY <1>0, Times DEF TypeOK
    <2>2. quiet'[p] = IF quiet[p] < Ttl + Lag THEN quiet[p] + 1 ELSE Ttl + Lag
        BY DEF Tick
    <2> QED
        BY <2>1, <2>2, TtlIsPositive
<1>1. ASSUME NEW p \in People, token'[p].age + Lag < quiet'[p]
      PROVE  token'[p].role = role'[p] /\ token'[p].member = member'[p]
    <2>1. token'[p] = Aged(p)
        BY DEF Tick
    <2>2. Aged(p) # NoToken
        BY <1>1, <1>q, <2>1, TtlIsPositive DEF NoToken
    <2>3. token'[p].age = token[p].age + 1 /\ token'[p].role = token[p].role
          /\ token'[p].member = token[p].member
        BY <1>0, <2>1, <2>2, OlderToken
    <2>4. token[p].age + Lag < quiet[p]
        BY <1>0, <1>1, <1>q, <2>3, Times, TtlIsPositive
    <2> QED
        BY <1>0, <2>3, <2>4 DEF TokensTrackRows, RightsInv
<1>2. TokensTrackRows'
    BY <1>1 DEF TokensTrackRows
<1>3. ASSUME NEW s \in Slots, Carries(s)
      PROVE  req[s].p \in People /\ waited[s] \in Nat /\ waited'[s] = waited[s] + 1
    BY <1>0, <1>3, AtHoldsARequest, RequestFields DEF Carries, At, Tick, TypeOK
<1>4. ASSUME NEW s \in Slots, Carries(s), quiet[req[s].p] <= waited[s]
      PROVE  quiet'[req[s].p] <= waited'[s]
    <2> DEFINE p == req[s].p
    <2>1. p \in People /\ waited[s] \in Nat /\ waited'[s] = waited[s] + 1
        BY <1>3, <1>4
    <2>2. quiet[p] \in Nat /\ quiet'[p] \in Nat /\ quiet'[p] <= quiet[p] + 1
        BY <1>q, <2>1, TtlIsPositive
    <2> QED
        BY <1>4, <2>1, <2>2
<1>5. ReadRightsAreRecent'
    BY <1>0, <1>4 DEF ReadRightsAreRecent, Carries, At, RightsInv
<1> QED
    BY <1>2, <1>5 DEF RightsInv

\* The boot makes administrators of some and leaves no request in flight.
LEMMA BootStep ==
    ASSUME RightsInv, TypeOK', Boot
    PROVE  RightsInv'
<1>0. TypeOK
    BY DEF RightsInv
<1>1. TokensTrackRows'
    <2> SUFFICES ASSUME NEW p \in People, token'[p].age + Lag < quiet'[p]
                 PROVE  token'[p].role = role'[p] /\ token'[p].member = member'[p]
        BY DEF TokensTrackRows
    <2>1. token' = token /\ member' = member
        BY DEF Boot
    <2>2. token[p].age \in Nat
        BY <1>0, Times
    <2>3. role'[p] = role[p] /\ quiet'[p] = quiet[p]
        BY <2>1, <2>2, TtlIsPositive DEF Boot
    <2> QED
        BY <2>1, <2>3 DEF RightsInv, TokensTrackRows
<1>2. ReadRightsAreRecent'
    BY DEF ReadRightsAreRecent, Boot, Carries, At, Idle
<1> QED
    BY <1>1, <1>2 DEF RightsInv

\* A request that begins reads no rights yet, or the row's.
LEMMA BeginRights ==
    ASSUME RightsInv, TypeOK', NEW s \in Slots, NEW r, Begin(s, r),
           r.at \notin {"orgs", "sign"} \/ (r.at = "orgs" /\ r.role = role[r.p])
    PROVE  RightsInv'
<1>1. \A q \in Slots : Reread(q)
    BY DEF RightsInv, TypeOK, Begin, GoOn, Reread
<1> QED
    BY <1>1, ReadingStep DEF Begin, users

\* A request that goes on or ends without a write to rights or tokens.
LEMMA RequestStepRights ==
    ASSUME RightsInv, TypeOK', NEW s \in Slots,
           \/ SignInStep(s) /\ ~CreateRow(s) /\ ~RetryRow(s) /\ ~Issue(s)
           \/ PutWrite(s) \/ ReqFail(s)
    PROVE  RightsInv'
<1>0. TypeOK
    BY DEF RightsInv
<1>1. CASE UpdateRow(s) \/ ClaimRow(s)
    <2> DEFINE r == [at |-> "orgs", p |-> req[s].p, role |-> role[req[s].p]]
    <2>1. GoOn(s, r) /\ UNCHANGED <<role, member, token, quiet>>
        BY <1>1 DEF UpdateRow, ClaimRow, ReadOrgs
    <2>2. \A t \in Slots : Reread(t)
        BY <1>0, <2>1 DEF TypeOK, GoOn, Reread
    <2> QED
        BY <2>1, <2>2, ReadingStep
<1>2. CASE CreateIdTaken(s) \/ CreateRowTaken(s) \/ EmailFound(s)
    <2>1. PICK r : GoOn(s, r) /\ r.at \notin {"orgs", "sign"}
        BY <1>2 DEF CreateIdTaken, CreateRowTaken, EmailFound
    <2>2. UNCHANGED <<role, member, token, quiet>>
        BY <1>2 DEF CreateIdTaken, CreateRowTaken, EmailFound, users
    <2>3. \A t \in Slots : Reread(t)
        BY <1>0, <2>1 DEF TypeOK, GoOn, Reread
    <2> QED
        BY <2>2, <2>3, ReadingStep
<1>3. CASE ReadMemberships(s)
    <2>1. UNCHANGED <<role, member, token, quiet>>
        BY <1>3 DEF ReadMemberships, users
    <2>2. \A t \in Slots : Reread(t)
        BY <1>0, <1>3 DEF ReadMemberships, TypeOK, GoOn, At, Reread
    <2> QED
        BY <2>1, <2>2, ReadingStep
<1>4. CASE UpdateRefused(s) \/ Refused(s) \/ PutWrite(s) \/ ReqFail(s)
    <2>1. Finish(s) /\ UNCHANGED <<role, member, token, quiet>>
        BY <1>4 DEF UpdateRefused, Refused, PutWrite, ReqFail, users
    <2>2. \A t \in Slots : Reread(t)
        BY <1>0, <2>1 DEF TypeOK, Finish, Idle, Reread
    <2> QED
        BY <2>1, <2>2, ReadingStep
<1> QED
    BY <1>1, <1>2, <1>3, <1>4 DEF SignInStep

LEMMA RightsNext == RightsInv /\ [Next]_vars => RightsInv'
<1> SUFFICES ASSUME RightsInv, [Next]_vars PROVE RightsInv'
    OBVIOUS
<1>0. TypeOK /\ TypeOK'
    BY TypeNext DEF RightsInv
<1>1. ASSUME NEW s \in Slots, NEW p \in People, SignIn(s, p) \/ PasswordSignIn(s, p)
      PROVE  RightsInv'
    <2>1. CASE SignIn(s, p)
        <3>1. PICK r : Begin(s, r) /\ r.at \notin {"orgs", "sign"}
            BY <2>1 DEF SignIn
        <3> QED
            BY <1>0, <3>1, BeginRights
    <2>2. CASE PasswordSignIn(s, p)
        <3>1. PICK r : Begin(s, r) /\ r.at = "orgs" /\ r.role = role[r.p]
            BY <2>2 DEF PasswordSignIn
        <3> QED
            BY <1>0, <3>1, BeginRights
    <2> QED
        BY <1>1, <2>1, <2>2
<1>2. ASSUME NEW s \in Slots, NEW p \in People, NEW id \in Ids, PutMe(s, p, id)
      PROVE  RightsInv'
    <2>1. PICK r : Begin(s, r) /\ r.at = "put"
        BY <1>2 DEF PutMe
    <2> QED
        BY <1>0, <2>1, BeginRights
<1>3. ASSUME NEW s \in Slots, SignInStep(s) \/ WriteStep(s) \/ ReqFail(s)
      PROVE  RightsInv'
    <2>0. req[s].at # "idle" => req[s].p \in People
        BY <1>0, AtHoldsARequest, RequestFields
    <2>1. CASE CreateRow(s) \/ RetryRow(s)
        <3> DEFINE p == req[s].p
        <3>1. p \in People
            BY <2>0, <2>1 DEF CreateRow, RetryRow, At
        <3>2. PICK id : Insert(s, id)
            BY <2>1 DEF CreateRow, RetryRow
        <3>3. /\ UNCHANGED <<member, token>>
              /\ quiet' = [quiet EXCEPT ![p] = 0]
              /\ \A q \in People \ {p} : role'[q] = role[q]
            BY <1>0, <3>1, <3>2 DEF Insert, TypeOK
        <3>4. \A t \in Slots : \/ req'[t] = req[t] /\ waited'[t] = waited[t]
                               \/ req'[t].p = p
            BY <1>0, <3>2 DEF Insert, ReadOrgs, GoOn, TypeOK
        <3> QED
            BY <1>0, <3>1, <3>3, <3>4, WritingStep
    <2>2. CASE RoleWrite(s) \/ MembershipWrite(s)
        <3> DEFINE p == req[s].p
        <3>1. p \in People
            BY <2>0, <2>2 DEF RoleWrite, MembershipWrite, At
        <3>2. /\ UNCHANGED token /\ Finish(s)
              /\ quiet' = [quiet EXCEPT ![p] = 0]
              /\ \A q \in People \ {p} : role'[q] = role[q] /\ member'[q] = member[q]
            BY <1>0, <2>2, <3>1 DEF RoleWrite, MembershipWrite, TypeOK
        <3>3. \A t \in Slots : \/ req'[t] = req[t] /\ waited'[t] = waited[t]
                               \/ req'[t].at \notin {"orgs", "sign"}
            BY <1>0, <3>2 DEF Finish, Idle, TypeOK
        <3> QED
            BY <1>0, <3>1, <3>2, <3>3, WritingStep
    <2>3. CASE Issue(s)
        BY <1>0, <2>3, IssueStep
    <2>4. CASE \/ SignInStep(s) /\ ~CreateRow(s) /\ ~RetryRow(s) /\ ~Issue(s)
               \/ PutWrite(s) \/ ReqFail(s)
        BY <1>0, <2>4, RequestStepRights
    <2> QED
        BY <1>3, <2>1, <2>2, <2>3, <2>4 DEF WriteStep
<1>4. ASSUME NEW p \in People, Logout(p)
      PROVE  RightsInv'
    <2>1. token' = [token EXCEPT ![p] = NoToken] /\ UNCHANGED <<role, member, req, waited, quiet>>
        BY <1>4 DEF Logout, users
    <2>2. token'[p].age = Ttl /\ quiet[p] \in 0..(Ttl + Lag)
          /\ \A q \in People \ {p} : token'[q] = token[q]
        BY <1>0, <2>1 DEF TypeOK, NoToken
    <2>3. TokensTrackRows'
        BY <2>1, <2>2, TtlIsPositive DEF RightsInv, TokensTrackRows
    <2>4. ReadRightsAreRecent'
        BY <2>1 DEF RightsInv, ReadRightsAreRecent, Carries, At
    <2> QED
        BY <1>0, <2>3, <2>4 DEF RightsInv
<1>5. ASSUME NEW s \in Slots, NEW a \in People, NEW p \in People, NEW r \in Grantable,
             ChangeRole(s, a, p, r)
      PROVE  RightsInv'
    <2>1. PICK q : Begin(s, q) /\ q.at = "role"
        BY <1>5 DEF ChangeRole
    <2> QED
        BY <1>0, <2>1, BeginRights
<1>6. ASSUME NEW s \in Slots, NEW a \in People, NEW p \in Joiners, ChangeMembership(s, a, p)
      PROVE  RightsInv'
    <2>1. PICK r : Begin(s, r) /\ r.at \in {"join", "leave"}
        BY <1>6 DEF ChangeMembership
    <2> QED
        BY <1>0, <2>1, BeginRights
<1>7. CASE Tick
    BY <1>0, <1>7, TickStep
<1>8. CASE Boot
    BY <1>0, <1>8, BootStep
<1>9. CASE UNCHANGED vars
    BY <1>0, <1>9, ReadingStep DEF vars, Reread
<1> QED
    BY <1>1, <1>2, <1>3, <1>4, <1>5, <1>6, <1>7, <1>8, <1>9 DEF Next

\* At every moment a token that differs from its row was signed no later than a
\* sign-in may take after the last change of that row, and what a sign-in
\* carries was true when it read it.
THEOREM RightsInvariance == Spec => []RightsInv
BY RightsInit, RightsNext, PTL DEF Spec

\* After the hour of a session, and the time of a sign-in, no token carries a
\* role or a membership other than the row's, however sign-ins and changes
\* overlap each other and the clock.
THEOREM SessionRightsExpire == Spec => []RightsExpire
<1>1. RightsInv => RightsExpire
    <2> SUFFICES ASSUME RightsInv, NEW p \in People, Live(p), quiet[p] >= Ttl + Lag
                 PROVE  token[p].role = role[p] /\ token[p].member = member[p]
        BY DEF RightsExpire
    <2>1. token[p].age \in Nat /\ quiet[p] \in Nat /\ token[p].age < Ttl
        BY Times DEF RightsInv
    <2>2. token[p].age + Lag < quiet[p]
        BY <2>1, TtlIsPositive
    <2> QED
        BY <2>2 DEF RightsInv, TokensTrackRows
<1> QED
    BY <1>1, RightsInvariance, PTL

-----------------------------------------------------------------------------
(* Student ids, with any number of requests in flight about one person *)

\* Without a row there is no id, no session and nothing imported.
IdsNeedRows ==
    \A p \in People : row[p] = "absent" => universityId[p] = NoId /\ ~Live(p) /\ p \notin Imported

\* A request that read a row has one, and an edit asks for the id it read.
RequestsHaveRows ==
    \A s \in Slots :
        /\ req[s].at \in {"update", "claim", "orgs", "sign", "put"} => row[req[s].p] # "absent"
        /\ req[s].at = "put" => req[s].read \in {NoId, req[s].id}

IdInv == TypeOK /\ IdsNeedRows /\ RequestsHaveRows

IdsKept == \A p \in People : Settled(p) => universityId'[p] = universityId[p] /\ Settled(p)'

\* A slot keeps its request, or one that has just read the row takes its place.
Current(s) ==
    \/ req'[s] = req[s]
    \/ /\ req'[s].at \in {"update", "claim", "orgs", "sign", "put"} => row'[req'[s].p] # "absent"
       /\ req'[s].at = "put" => req'[s].read \in {NoId, req'[s].id}
       /\ req'[s].at \in {"update", "claim", "put"} => req'[s].read = universityId[req'[s].p]

\* A step after which every request is kept or current and that changes no
\* settled id keeps the invariant, and settled what was settled.
LEMMA IdFrame ==
    ASSUME IdInv, TypeOK',
           \A p \in People : row'[p] = "absent" =>
               row[p] = "absent" /\ universityId'[p] = universityId[p],
           \A p \in People : Live(p)' => Live(p) \/ row[p] # "absent",
           \A p \in People : Settled(p) => universityId'[p] = universityId[p],
           \A s \in Slots : Current(s)
    PROVE  IdInv' /\ IdsKept
<1>1. IdsNeedRows'
    BY DEF IdInv, IdsNeedRows
<1>2. ASSUME NEW s \in Slots
      PROVE  /\ req'[s].at \in {"update", "claim", "orgs", "sign", "put"} =>
                   row'[req'[s].p] # "absent"
             /\ req'[s].at = "put" => req'[s].read \in {NoId, req'[s].id}
    <2>1. CASE req'[s] = req[s]
        <3>1. req[s].at # "idle" => req[s].p \in People
            BY AtHoldsARequest, RequestFields DEF IdInv
        <3> QED
            BY <2>1, <3>1 DEF IdInv, RequestsHaveRows
    <2> QED
        BY <2>1 DEF Current
<1>3. RequestsHaveRows'
    BY <1>2 DEF RequestsHaveRows
<1>4. ASSUME NEW p \in People, Settled(p)
      PROVE  universityId'[p] = universityId[p] /\ Settled(p)'
    <2>1. universityId'[p] = universityId[p] /\ universityId[p] # NoId
        BY <1>4 DEF Settled
    <2>2. ASSUME NEW s \in Slots, req'[s].at \in {"update", "claim", "put"}, req'[s].p = p
          PROVE  req'[s].read = universityId[p]
        BY <1>4, <2>2 DEF Settled, Current
    <2> QED
        BY <2>1, <2>2 DEF Settled
<1> QED
    BY <1>1, <1>3, <1>4 DEF IdInv, IdsKept

\* What holds at the start, and of a slot that is at work.
LEMMA IdInit == Init => IdInv
<1> SUFFICES ASSUME Init PROVE IdInv
    OBVIOUS
<1>1. \A s \in Slots : req[s].at = "idle"
    BY DEF Init, Idle
<1>2. IdsNeedRows
    BY DEF Init, IdsNeedRows, Live
<1> QED
    BY <1>1, <1>2, TypeInit DEF IdInv, RequestsHaveRows

\* A request about a person with a row, that has just read the row, may begin.
LEMMA BeginIds ==
    ASSUME IdInv, TypeOK', NEW s \in Slots, NEW r \in Request, Begin(s, r),
           r.at \in {"update", "claim", "orgs", "sign", "put"} => row[r.p] # "absent",
           r.at = "put" => r.read \in {NoId, r.id},
           r.at \in {"update", "claim", "put"} => r.read = universityId[r.p]
    PROVE  IdInv' /\ IdsKept
<1>1. UNCHANGED <<row, universityId, token>> /\ req' = [req EXCEPT ![s] = r]
    BY DEF Begin, GoOn, users
<1>2. \A q \in Slots : Current(q)
    BY <1>1 DEF Current, IdInv, TypeOK
<1> QED
    BY <1>1, <1>2, IdFrame DEF Live

\* A request goes on, or ends, and leaves rows, ids and tokens alone.
LEMMA GoOnIds ==
    ASSUME IdInv, TypeOK', NEW s \in Slots, UNCHANGED <<row, universityId, token>>,
           \A q \in Slots \ {s} : req'[q] = req[q],
           \/ req'[s].at \in {"idle", "retry", "email"}
           \/ req'[s].at \in {"orgs", "sign"} /\ row[req'[s].p] # "absent"
           \/ /\ req'[s].at = "claim" /\ row[req'[s].p] # "absent"
              /\ req'[s].read = universityId[req'[s].p]
    PROVE  IdInv' /\ IdsKept
<1>1. \A q \in Slots : Current(q)
    BY DEF Current
<1> QED
    BY <1>1, IdFrame DEF Live

\* A row is written, with the id it had or one where there was none settled.
LEMMA WriteIds ==
    ASSUME IdInv, TypeOK', NEW s \in Slots, NEW p \in People, NEW id, UNCHANGED token,
           universityId' = [universityId EXCEPT ![p] = id],
           row' = row \/ row' = [row EXCEPT ![p] = "linked"], row'[p] # "absent",
           Settled(p) => id = universityId[p],
           \A q \in Slots \ {s} : req'[q] = req[q],
           req'[s].at = "idle" \/ (req'[s].at = "orgs" /\ req'[s].p = p)
    PROVE  IdInv' /\ IdsKept
<1>1. \A q \in People \ {p} : row'[q] = row[q] /\ universityId'[q] = universityId[q]
    BY DEF IdInv, TypeOK
<1>2. universityId'[p] = id
    BY DEF IdInv, TypeOK
<1>3. \A q \in Slots : Current(q)
    BY DEF Current
<1> QED
    BY <1>1, <1>2, <1>3, IdFrame DEF Live

\* The steps of a request that is in flight write no id over a settled one.
LEMMA RequestStepIds ==
    ASSUME IdInv, TypeOK', NEW s \in Slots, SignInStep(s) \/ WriteStep(s) \/ ReqFail(s)
    PROVE  IdInv' /\ IdsKept
<1> DEFINE p == req[s].p
<1>0. TypeOK
    BY DEF IdInv
<1>1. req[s].at # "idle" => p \in People
    BY <1>0, AtHoldsARequest, RequestFields
<1>2. /\ req[s].at \in {"update", "claim", "orgs", "sign", "put"} => row[p] # "absent"
      /\ req[s].at = "put" => req[s].read \in {NoId, req[s].id}
      /\ req[s].at \in {"update", "claim", "put"} /\ Settled(p) =>
             req[s].read = universityId[p] /\ universityId[p] # NoId
    BY DEF IdInv, RequestsHaveRows, Settled
<1>3. \A r : GoOn(s, r) => req'[s] = r /\ \A q \in Slots \ {s} : req'[q] = req[q]
    BY <1>0 DEF GoOn, TypeOK
<1>4. Finish(s) => req'[s].at = "idle" /\ \A q \in Slots \ {s} : req'[q] = req[q]
    BY <1>0 DEF Finish, TypeOK, Idle
<1>5. CASE UpdateRow(s)
    <2> DEFINE id == Filled(p, req[s].read)
    <2>1. /\ IF id = NoId THEN UNCHANGED universityId ELSE SetId(p, id)
          /\ req'[s].at = "orgs" /\ req'[s].p = p
          /\ \A q \in Slots \ {s} : req'[q] = req[q]
          /\ row' = row /\ token' = token /\ p \in People /\ row[p] # "absent"
        BY <1>1, <1>2, <1>3, <1>5 DEF UpdateRow, ReadOrgs, At
    <2>2. Settled(p) => id = NoId
        BY <1>2, <1>5 DEF UpdateRow, At, Filled
    <2> HIDE DEF p, id
    <2>3. CASE id = NoId
        BY <2>1, <2>3, GoOnIds
    <2>4. CASE id # NoId
        BY <2>1, <2>2, <2>4, WriteIds DEF SetId
    <2> QED
        BY <2>3, <2>4
<1>6. CASE CreateRow(s) \/ RetryRow(s)
    <2>1. PICK id : Insert(s, id)
        BY <1>6 DEF CreateRow, RetryRow
    <2>2. /\ p \in People /\ row[p] = "absent" /\ row' = [row EXCEPT ![p] = "linked"]
          /\ universityId' = [universityId EXCEPT ![p] = id] /\ token' = token
          /\ req'[s].at = "orgs" /\ req'[s].p = p
          /\ \A q \in Slots \ {s} : req'[q] = req[q]
        BY <1>1, <1>3, <1>6, <2>1 DEF Insert, SetId, ReadOrgs, CreateRow, RetryRow, At
    <2>3. row'[p] # "absent"
        BY <1>0, <2>2 DEF TypeOK
    <2>4. ~Settled(p)
        BY <2>2 DEF IdInv, IdsNeedRows, Settled
    <2> HIDE DEF p
    <2> QED
        BY <2>2, <2>3, <2>4, WriteIds
<1>7. CASE ClaimRow(s)
    <2> DEFINE id == Claimed(s)
    <2>1. /\ p \in People /\ row[p] # "absent" /\ row' = [row EXCEPT ![p] = "linked"]
          /\ universityId' = [universityId EXCEPT ![p] = id] /\ token' = token
          /\ req'[s].at = "orgs" /\ req'[s].p = p
          /\ \A q \in Slots \ {s} : req'[q] = req[q]
        BY <1>1, <1>2, <1>3, <1>7 DEF ClaimRow, SetId, ReadOrgs, At
    <2>2. row'[p] # "absent"
        BY <1>0, <2>1 DEF TypeOK
    <2>3. Settled(p) => id = universityId[p]
        BY <1>2, <1>7 DEF ClaimRow, At, Claimed
    <2> HIDE DEF p, id
    <2> QED
        BY <2>1, <2>2, <2>3, WriteIds
<1>8. CASE PutWrite(s)
    <2> DEFINE id == req[s].id
    <2>1. /\ p \in People /\ row[p] # "absent" /\ row' = row
          /\ universityId' = [universityId EXCEPT ![p] = id] /\ token' = token
          /\ req'[s].at = "idle" /\ \A q \in Slots \ {s} : req'[q] = req[q]
        BY <1>1, <1>2, <1>4, <1>8 DEF PutWrite, SetId, At
    <2>2. Settled(p) => id = universityId[p]
        BY <1>2, <1>8 DEF PutWrite, At
    <2> HIDE DEF p, id
    <2> QED
        BY <2>1, <2>2, WriteIds
<1>9. CASE UpdateRefused(s) \/ Refused(s) \/ ReqFail(s) \/ RoleWrite(s) \/ MembershipWrite(s)
    <2>1. Finish(s) /\ UNCHANGED <<row, universityId, token>>
        BY <1>9 DEF UpdateRefused, Refused, ReqFail, RoleWrite, MembershipWrite, users
    <2> QED
        BY <1>4, <2>1, GoOnIds
<1>10. CASE CreateIdTaken(s) \/ CreateRowTaken(s)
    <2>1. UNCHANGED <<row, universityId, token>>
        BY <1>10 DEF CreateIdTaken, CreateRowTaken, users
    <2>2. /\ req'[s].at \in {"retry", "email"}
          /\ \A q \in Slots \ {s} : req'[q] = req[q]
        BY <1>3, <1>10 DEF CreateIdTaken, CreateRowTaken
    <2> QED
        BY <2>1, <2>2, GoOnIds
<1>11. CASE EmailFound(s)
    <2>1. UNCHANGED <<row, universityId, token>> /\ row[p] = "imported"
        BY <1>11 DEF EmailFound, users
    <2>2. /\ req'[s].at = "claim" /\ req'[s].p = p /\ req'[s].read = universityId[p]
          /\ \A q \in Slots \ {s} : req'[q] = req[q]
        BY <1>3, <1>11 DEF EmailFound
    <2> QED
        BY <2>1, <2>2, GoOnIds
<1>12. CASE ReadMemberships(s)
    <2>1. UNCHANGED <<row, universityId, token>> /\ row[p] # "absent"
        BY <1>2, <1>12 DEF ReadMemberships, users, At
    <2>2. /\ req'[s].at = "sign" /\ req'[s].p = p
          /\ \A q \in Slots \ {s} : req'[q] = req[q]
        BY <1>3, <1>12 DEF ReadMemberships
    <2> QED
        BY <2>1, <2>2, GoOnIds
<1>13. CASE Issue(s)
    <2>1. /\ UNCHANGED <<row, universityId>> /\ p \in People /\ row[p] # "absent"
          /\ \A o \in People \ {p} : token'[o] = token[o]
          /\ req'[s].at = "idle" /\ \A q \in Slots \ {s} : req'[q] = req[q]
        BY <1>0, <1>1, <1>2, <1>4, <1>13 DEF Issue, users, At, TypeOK
    <2>2. \A o \in People : Live(o)' => Live(o) \/ row[o] # "absent"
        BY <2>1 DEF Live
    <2>3. \A q \in Slots : Current(q)
        BY <2>1 DEF Current
    <2> QED
        BY <2>1, <2>2, <2>3, IdFrame
<1> QED
    BY <1>5, <1>6, <1>7, <1>8, <1>9, <1>10, <1>11, <1>12, <1>13 DEF SignInStep, WriteStep

LEMMA IdStep ==
    ASSUME IdInv, [Next]_vars
    PROVE  IdInv' /\ IdsKept
<1>0. TypeOK /\ TypeOK'
    BY TypeNext DEF IdInv
<1>1. ASSUME NEW s \in Slots, NEW p \in People, SignIn(s, p) PROVE IdInv' /\ IdsKept
    <2>1. CASE row[p] = "linked"
        <3> DEFINE r == [at |-> "update", p |-> p, read |-> universityId[p]]
        <3>1. r \in Request /\ Begin(s, r)
            BY <1>0, <1>1, <2>1 DEF SignIn, Request, TypeOK
        <3> QED
            BY <1>0, <2>1, <3>1, BeginIds
    <2>2. CASE row[p] # "linked"
        <3> DEFINE r == [at |-> "create", p |-> p]
        <3>1. r \in Request /\ Begin(s, r)
            BY <1>1, <2>2 DEF SignIn, Request
        <3> QED
            BY <1>0, <3>1, BeginIds
    <2> QED
        BY <2>1, <2>2
<1>2. ASSUME NEW s \in Slots, NEW p \in People, PasswordSignIn(s, p) PROVE IdInv' /\ IdsKept
    <2> DEFINE r == [at |-> "orgs", p |-> p, role |-> "ADMIN"]
    <2>1. r \in Request /\ Begin(s, r) /\ p \in Imported
        BY <1>2, AdminsHaveRows DEF PasswordSignIn, Request, Roles
    <2>2. row[p] # "absent"
        BY <2>1 DEF IdInv, IdsNeedRows
    <2> QED
        BY <1>0, <2>1, <2>2, BeginIds
<1>3. ASSUME NEW s \in Slots, NEW p \in People, NEW id \in Ids, PutMe(s, p, id)
      PROVE  IdInv' /\ IdsKept
    <2> DEFINE r == [at |-> "put", p |-> p, read |-> universityId[p], id |-> id]
    <2>1. r \in Request /\ Begin(s, r) /\ Live(p) /\ universityId[p] \in {NoId, id}
        BY <1>0, <1>3 DEF PutMe, Request, TypeOK
    <2>2. row[p] # "absent"
        BY <2>1 DEF IdInv, IdsNeedRows
    <2> QED
        BY <1>0, <2>1, <2>2, BeginIds
<1>4. ASSUME NEW s \in Slots, SignInStep(s) \/ WriteStep(s) \/ ReqFail(s)
      PROVE  IdInv' /\ IdsKept
    BY <1>0, <1>4, RequestStepIds
<1>5. ASSUME NEW s \in Slots, NEW a \in People, NEW p \in People, NEW to \in Grantable,
             ChangeRole(s, a, p, to)
      PROVE  IdInv' /\ IdsKept
    <2> DEFINE r == [at |-> "role", p |-> p, to |-> to]
    <2>1. r \in Request /\ Begin(s, r)
        BY <1>5 DEF ChangeRole, Request, Grantable, Roles
    <2> QED
        BY <1>0, <2>1, BeginIds
<1>6. ASSUME NEW s \in Slots, NEW a \in People, NEW p \in Joiners, ChangeMembership(s, a, p)
      PROVE  IdInv' /\ IdsKept
    <2>1. p \in People
        BY JoinersArePeople
    <2>2. PICK r \in Request : Begin(s, r) /\ r.at \in {"join", "leave"}
        BY <1>6, <2>1 DEF ChangeMembership, Request
    <2> QED
        BY <1>0, <2>2, BeginIds
\* What is left writes neither rows, ids nor requests, but for a restart.
<1>7. ASSUME UNCHANGED <<row, universityId>>, req' = req \/ req' = [s \in Slots |-> Idle],
             \A p \in People : Live(p)' => Live(p)
      PROVE  IdInv' /\ IdsKept
    <2>1. \A s \in Slots : Current(s)
        BY <1>7 DEF Current, Idle
    <2> QED
        BY <1>0, <1>7, <2>1, IdFrame
<1>8. ASSUME NEW p \in People, Logout(p) PROVE IdInv' /\ IdsKept
    <2>1. UNCHANGED <<row, universityId, req>> /\ token' = [token EXCEPT ![p] = NoToken]
        BY <1>8 DEF Logout, users
    <2>2. \A q \in People : Live(q)' => Live(q)
        BY <1>0, <2>1 DEF Live, TypeOK
    <2> QED
        BY <1>7, <2>1, <2>2
<1>9. CASE Tick
    <2>1. UNCHANGED <<row, universityId, req>> /\ token' = [p \in People |-> Aged(p)]
        BY <1>9 DEF Tick, users
    <2>2. \A p \in People : Live(p)' => Live(p)
        BY <1>0, <2>1, OlderToken DEF Live
    <2> QED
        BY <1>7, <2>1, <2>2
<1>10. CASE Boot
    <2>1. UNCHANGED <<row, universityId, token>> /\ req' = [s \in Slots |-> Idle]
        BY <1>10 DEF Boot
    <2> QED
        BY <1>7, <2>1 DEF Live
<1>11. CASE UNCHANGED vars
    <2>1. UNCHANGED <<row, universityId, token, req>>
        BY <1>11 DEF vars
    <2> QED
        BY <1>7, <2>1 DEF Live
<1> QED
    BY <1>1, <1>2, <1>3, <1>4, <1>5, <1>6, <1>8, <1>9, <1>10, <1>11 DEF Next

\* A student id once set never changes again from the moment nobody in flight
\* read the row before it was, whatever the directory claims at later sign-ins,
\* whatever profile edits ask for and however all of them overlap
\* (auth.js:131-178, users.js:72-95).
THEOREM IdsStay == Spec => SetOnce
<1>1. Spec => []IdInv
    BY IdInit, IdStep, PTL DEF Spec
<1>2. IdInv /\ [Next]_vars =>
        [\A p \in People : Settled(p) =>
            universityId'[p] = universityId[p] /\ Settled(p)']_vars
    BY IdStep DEF IdsKept
<1> QED
    BY <1>1, <1>2, PTL DEF Spec, SetOnce

=============================================================================
