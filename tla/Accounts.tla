------------------------------ MODULE Accounts ------------------------------
(***************************************************************************)
(* Accounts, rights and sessions: signing in through the directory or with *)
(* an administrator's password (src/routes/auth.js), the student id a user *)
(* may set once (src/routes/users.js), the roles and memberships that      *)
(* administrators hand out (src/routes/admin.js), and the session token    *)
(* that carries both for an hour (src/auth/session.js).                    *)
(*                                                                         *)
(* A person has one directory identity, one address and one browser; the   *)
(* row of a person is the one with that address.  As in Postings a step    *)
(* ends at a database call, and requests overlap each other and the        *)
(* session clock in every way; only what a sign-in does between reading a  *)
(* role and signing it sees at most Lag ticks.  Left out: changes of name  *)
(* and address, the nonce of the sign-in, the throttle of the password     *)
(* form, SERVICE accounts, and the tags and the bio of a profile.          *)
(***************************************************************************)
EXTENDS Naturals

CONSTANTS
    People,     \* everyone who may sign in
    Ids,        \* the student ids
    NoId,       \* no student id: null
    Directory,  \* Directory[p]: the id claimed for or derived from p's address
    Staff,      \* those whose address makes them a TEACHER
    Imported,   \* those with a row before they first sign in
    Admins,     \* those seedAdmins looks after, with a password
    Ttl,        \* TOKEN_TTL_SECONDS, in ticks
    Lag,        \* the most ticks between a sign-in's reading a role and signing it
    Slots,      \* bound: requests in flight at the same time
    Unused,     \* bound: the roles that administrators never hand out
    Joiners     \* bound: whose memberships they change

ASSUME IdsAreIds == NoId \notin Ids /\ Directory \in [People -> Ids \union {NoId}]
ASSUME AdminsHaveRows == Admins \subseteq Imported /\ Imported \subseteq People
ASSUME JoinersArePeople == Joiners \subseteq People
ASSUME TtlIsPositive == Ttl \in Nat \ {0} /\ Lag \in Nat

VARIABLES
    row,            \* whether p has no row, one without, or one with msadOid
    universityId,   \* User.universityId
    role,           \* User.role
    member,         \* whether p has an OrgMembership
    token,          \* the session token in p's browser
    req,            \* the requests in flight
    waited,         \* the ticks since each of them read the role it carries
    quiet           \* history: ticks since p's role or membership was written

vars == <<row, universityId, role, member, token, req, waited, quiet>>

\* Mutant: every role of the schema may be granted.
GrantableAny == {"STUDENT", "TEACHER", "ADMIN", "SERVICE"}

\* roleBody: z.enum.
Grantable == {"STUDENT", "TEACHER", "ADMIN"}

Roles == {"STUDENT", "TEACHER", "ADMIN"}

\* No session token, or one whose time is over.
NoToken == [age |-> Ttl]
Token == [role : Roles, member : BOOLEAN, age : 0..(Ttl - 1)]

Idle == [at |-> "idle"]

\* What a request remembers: the id it read, the rights it read, what it asks.
Request ==
    [at : {"update", "claim"}, p : People, read : Ids \union {NoId}]
        \union [at : {"create", "retry", "email"}, p : People]
        \union [at : {"orgs"}, p : People, role : Roles]
        \union [at : {"sign"}, p : People, role : Roles, member : BOOLEAN]
        \union [at : {"put"}, p : People, read : Ids \union {NoId}, id : Ids]
        \union [at : {"role"}, p : People, to : Roles]
        \union [at : {"join", "leave"}, p : People]

\* verifySessionToken: signature and expiry, no look at the row.
Live(p) == token[p] # NoToken

\* The unique index on universityId refuses id for p.
Taken(p, id) == id # NoId /\ \E q \in People \ {p} : universityId[q] = id

users == <<row, universityId, role, member>>

At(s, step) == req[s].at = step

\* A sign-in that has read the role it will sign.
Carries(s) == At(s, "orgs") \/ At(s, "sign")

GoOn(s, r) == req' = [req EXCEPT ![s] = r] /\ UNCHANGED waited

Begin(s, r) ==
    /\ req[s] = Idle
    /\ GoOn(s, r)
    /\ UNCHANGED <<users, token, quiet>>

Finish(s) ==
    /\ req' = [req EXCEPT ![s] = Idle]
    /\ waited' = [waited EXCEPT ![s] = 0]

SetId(p, id) == universityId' = [universityId EXCEPT ![p] = id]

\* The row is as it should be; its role goes into the token.
ReadOrgs(s, p, r) == GoOn(s, [at |-> "orgs", p |-> p, role |-> r])

-----------------------------------------------------------------------------
(* GET /auth/callback: upsertMicrosoftUser, then the token *)

\* findUnique by msadOid.
SignIn(s, p) ==
    IF row[p] = "linked"
    THEN Begin(s, [at |-> "update", p |-> p, read |-> universityId[p]])
    ELSE Begin(s, [at |-> "create", p |-> p])

\* The directory's id fills an empty slot; NoId: the slot is not written.
Filled(p, read) == IF read = NoId THEN Directory[p] ELSE NoId

UpdateRow(s) ==
    /\ At(s, "update")
    /\ LET p == req[s].p  id == Filled(p, req[s].read) IN
       /\ ~Taken(p, id)
       /\ IF id = NoId THEN UNCHANGED universityId ELSE SetId(p, id)
       /\ ReadOrgs(s, p, role[p])
    /\ UNCHANGED <<row, role, member, token, quiet>>

\* The update meets the unique index and nothing catches it.
UpdateRefused(s) ==
    /\ At(s, "update")
    /\ Taken(req[s].p, Filled(req[s].p, req[s].read))
    /\ Finish(s)
    /\ UNCHANGED <<users, token, quiet>>

\* A new row with the role its address gives it (identityFromEmail).
Insert(s, id) ==
    LET p == req[s].p  r == IF p \in Staff THEN "TEACHER" ELSE "STUDENT" IN
    /\ row[p] = "absent" /\ ~Taken(p, id)
    /\ row' = [row EXCEPT ![p] = "linked"]
    /\ SetId(p, id)
    /\ role' = [role EXCEPT ![p] = r]
    /\ quiet' = [quiet EXCEPT ![p] = 0]
    /\ ReadOrgs(s, p, r)
    /\ UNCHANGED <<member, token>>

CreateRow(s) == At(s, "create") /\ Insert(s, Directory[req[s].p])

\* P2002 names universityId: somebody's row has the id, perhaps p's own.
CreateIdTaken(s) ==
    /\ At(s, "create")
    /\ Directory[req[s].p] # NoId
    /\ \E q \in People : universityId[q] = Directory[req[s].p]
    /\ GoOn(s, [at |-> "retry", p |-> req[s].p])
    /\ UNCHANGED <<users, token, quiet>>

\* P2002 names the address or the msadOid.
CreateRowTaken(s) ==
    /\ At(s, "create")
    /\ row[req[s].p] # "absent"
    /\ GoOn(s, [at |-> "email", p |-> req[s].p])
    /\ UNCHANGED <<users, token, quiet>>

\* Once more, without the id.
RetryRow(s) == At(s, "retry") /\ Insert(s, NoId)

EmailFound(s) ==
    /\ At(s, "email")
    /\ LET p == req[s].p IN
       /\ row[p] = "imported"
       /\ GoOn(s, [at |-> "claim", p |-> p, read |-> universityId[p]])
    /\ UNCHANGED <<users, token, quiet>>

\* byEmail.universityId ?? universityId, written whatever it is by now.
Claimed(s) == IF req[s].read = NoId THEN Directory[req[s].p] ELSE req[s].read

ClaimRow(s) ==
    /\ At(s, "claim")
    /\ LET p == req[s].p IN
       /\ ~Taken(p, Claimed(s))
       /\ row' = [row EXCEPT ![p] = "linked"]
       /\ SetId(p, Claimed(s))
       /\ ReadOrgs(s, p, role[p])
    /\ UNCHANGED <<role, member, token, quiet>>

\* The other ways a request ends in a conflict.
Refused(s) ==
    /\ \/ At(s, "retry") /\ row[req[s].p] # "absent"
       \/ At(s, "email") /\ row[req[s].p] # "imported"
       \/ At(s, "claim") /\ Taken(req[s].p, Claimed(s))
       \/ At(s, "put") /\ Taken(req[s].p, req[s].id)
       \/ At(s, "join") /\ member[req[s].p]
       \/ At(s, "leave") /\ ~member[req[s].p]
    /\ Finish(s)
    /\ UNCHANGED <<users, token, quiet>>

\* POST /auth/admin/login with the right password.
PasswordSignIn(s, p) ==
    /\ p \in Admins /\ role[p] = "ADMIN"
    /\ Begin(s, [at |-> "orgs", p |-> p, role |-> "ADMIN"])

\* Mutant: a session that is still good keeps its memberships.
ReadOwnToken(s) ==
    /\ At(s, "orgs")
    /\ LET p == req[s].p IN
       GoOn(s, [at |-> "sign", p |-> p, role |-> req[s].role,
                member |-> IF Live(p) THEN token[p].member ELSE member[p]])
    /\ UNCHANGED <<users, token, quiet>>

ReadMemberships(s) ==
    /\ At(s, "orgs")
    /\ LET p == req[s].p IN
       GoOn(s, [at |-> "sign", p |-> p, role |-> req[s].role, member |-> member[p]])
    /\ UNCHANGED <<users, token, quiet>>

\* signSessionToken: what was read before, with the time it is by now.
Issue(s) ==
    /\ At(s, "sign")
    /\ token' = [token EXCEPT ![req[s].p] =
                    [role |-> req[s].role, member |-> req[s].member, age |-> 0]]
    /\ Finish(s)
    /\ UNCHANGED <<users, quiet>>

Logout(p) ==
    /\ Live(p)
    /\ token' = [token EXCEPT ![p] = NoToken]
    /\ UNCHANGED <<users, req, waited, quiet>>

-----------------------------------------------------------------------------
(* PUT /me, and what administrators do *)

\* Mutant: any id is taken for an answer.
PutAnyId(s, p, id) ==
    /\ Live(p)
    /\ Begin(s, [at |-> "put", p |-> p, read |-> universityId[p], id |-> id])

\* An id that is set may only be set again to what it is.
PutMe(s, p, id) ==
    /\ Live(p)
    /\ universityId[p] \in {NoId, id}
    /\ Begin(s, [at |-> "put", p |-> p, read |-> universityId[p], id |-> id])

PutWrite(s) ==
    /\ At(s, "put")
    /\ ~Taken(req[s].p, req[s].id)
    /\ SetId(req[s].p, req[s].id)
    /\ Finish(s)
    /\ UNCHANGED <<row, role, member, token, quiet>>

\* requireRole looks at the token; only the SERVICE check needs the row.
ActsAsAdmin(a) == Live(a) /\ token[a].role = "ADMIN"

\* The target is looked up; a row never goes away nor becomes SERVICE.
ChangeRole(s, a, p, r) ==
    /\ ActsAsAdmin(a) /\ a # p
    /\ row[p] # "absent" /\ r \in Grantable
    /\ Begin(s, [at |-> "role", p |-> p, to |-> r])

RoleWrite(s) ==
    /\ At(s, "role")
    /\ role' = [role EXCEPT ![req[s].p] = req[s].to]
    /\ quiet' = [quiet EXCEPT ![req[s].p] = 0]
    /\ Finish(s)
    /\ UNCHANGED <<row, universityId, member, token>>

\* The person is looked up to become a member, the membership to end it.
ChangeMembership(s, a, p) ==
    /\ ActsAsAdmin(a)
    /\ row[p] # "absent"
    /\ \/ Begin(s, [at |-> "join", p |-> p])
       \/ member[p] /\ Begin(s, [at |-> "leave", p |-> p])

\* The create meets the unique index, or the delete finds nothing: Refused.  The
\* delete names the membership it found; here it may also meet the next one.
MembershipWrite(s) ==
    /\ \/ At(s, "join") /\ ~member[req[s].p]
       \/ At(s, "leave") /\ member[req[s].p]
    /\ member' = [member EXCEPT ![req[s].p] = ~@]
    /\ quiet' = [quiet EXCEPT ![req[s].p] = 0]
    /\ Finish(s)
    /\ UNCHANGED <<row, universityId, role, token>>

-----------------------------------------------------------------------------
(* Time, failures and restarts *)

\* Mutant: a token expires a tick late.
AgedTooLong(p) == IF token[p].age < Ttl THEN [token[p] EXCEPT !.age = @ + 1] ELSE NoToken

\* p's token a tick later: it runs out, in the cookie and in its expiry.
Aged(p) == IF token[p].age + 1 < Ttl THEN [token[p] EXCEPT !.age = @ + 1] ELSE NoToken

\* The clock moves under the requests in flight.
Tick ==
    /\ \A s \in Slots : Carries(s) => waited[s] < Lag
    /\ token' = [p \in People |-> Aged(p)]
    /\ waited' = [s \in Slots |-> IF Carries(s) THEN waited[s] + 1 ELSE 0]
    /\ quiet' = [p \in People |-> IF quiet[p] < Ttl + Lag THEN quiet[p] + 1 ELSE Ttl + Lag]
    /\ UNCHANGED <<users, req>>

ReqFail(s) ==
    /\ req[s] # Idle
    /\ Finish(s)
    /\ UNCHANGED <<users, token, quiet>>

\* The container starts again: seedAdmins makes administrators of Admins, the
\* signed tokens stay good.
Boot ==
    /\ role' = [p \in People |-> IF p \in Admins THEN "ADMIN" ELSE role[p]]
    /\ quiet' = [p \in People |-> IF role'[p] = role[p] THEN quiet[p] ELSE 0]
    /\ req' = [s \in Slots |-> Idle]
    /\ waited' = [s \in Slots |-> 0]
    /\ UNCHANGED <<row, universityId, member, token>>

-----------------------------------------------------------------------------
\* An imported row may carry the id of its owner.
Init ==
    /\ row = [p \in People |-> IF p \in Imported THEN "imported" ELSE "absent"]
    /\ universityId \in [People -> Ids \union {NoId}]
    /\ \A p \in People :
        universityId[p] \in IF p \in Imported THEN {NoId, Directory[p]} ELSE {NoId}
    /\ \A p \in People : ~Taken(p, universityId[p])
    /\ role = [p \in People |-> IF p \in Admins THEN "ADMIN" ELSE "STUDENT"]
    /\ member = [p \in People |-> FALSE]
    /\ token = [p \in People |-> NoToken]
    /\ req = [s \in Slots |-> Idle]
    /\ waited = [s \in Slots |-> 0]
    /\ quiet = [p \in People |-> 0]

SignInStep(s) ==
    \/ UpdateRow(s)
    \/ UpdateRefused(s)
    \/ CreateRow(s)
    \/ CreateIdTaken(s)
    \/ CreateRowTaken(s)
    \/ RetryRow(s)
    \/ EmailFound(s)
    \/ ClaimRow(s)
    \/ Refused(s)
    \/ ReadMemberships(s)
    \/ Issue(s)

WriteStep(s) == PutWrite(s) \/ RoleWrite(s) \/ MembershipWrite(s)

Next ==
    \/ \E s \in Slots, p \in People : SignIn(s, p) \/ PasswordSignIn(s, p)
    \/ \E s \in Slots, p \in People, id \in Ids : PutMe(s, p, id)
    \/ \E s \in Slots, a, p \in People, r \in Grantable \ Unused : ChangeRole(s, a, p, r)
    \/ \E s \in Slots, a \in People, p \in Joiners : ChangeMembership(s, a, p)
    \/ \E s \in Slots : SignInStep(s) \/ WriteStep(s) \/ ReqFail(s)
    \/ \E p \in People : Logout(p)
    \/ Tick
    \/ Boot

Spec == Init /\ [][Next]_vars

-----------------------------------------------------------------------------
(* Properties *)

TypeOK ==
    /\ row \in [People -> {"absent", "imported", "linked"}]
    /\ universityId \in [People -> Ids \union {NoId}]
    /\ role \in [People -> Roles]
    /\ member \in [People -> BOOLEAN]
    /\ token \in [People -> {NoToken} \union Token]
    /\ req \in [Slots -> {Idle} \union Request]
    /\ waited \in [Slots -> 0..Lag]
    /\ quiet \in [People -> 0..(Ttl + Lag)]

\* Rights that were taken away, or given, are what every session acts with
\* once the hour is over ("revoking a session means waiting out the 1h TTL"),
\* and the time a sign-in that overlaps the change may take before it signs.
RightsExpire ==
    \A p \in People : Live(p) /\ quiet[p] >= Ttl + Lag =>
        token[p].role = role[p] /\ token[p].member = member[p]

\* p has a student id, and every request in flight that read p's id has seen it.
Settled(p) ==
    /\ universityId[p] # NoId
    /\ \A s \in Slots : req[s].at \in {"update", "claim", "put"} /\ req[s].p = p =>
           req[s].read = universityId[p]

\* A student id, once set, stays, from the moment no request is in flight that
\* read the row before: whatever p asks for, the directory claims at later
\* sign-ins, and however those overlap.  Without Settled it would be what
\* users.js:64-65 says, which two settings that overlap refute.
SetOnce ==
    [][\A p \in People :
          Settled(p) => universityId'[p] = universityId[p] /\ Settled(p)']_vars

-----------------------------------------------------------------------------
(* What the repository says of the code and a run refutes *)

\* "A derived id someone else already owns must not cost anyone their
\* sign-in" (auth.js:151-152).
TakenIdCostsNoSignIn == [][\A s \in Slots : ~UpdateRefused(s)]_vars

-----------------------------------------------------------------------------
(* The inductive invariant behind RightsExpire *)

\* A token that differs from its row is hardly younger than the change.
TokensTrackRows ==
    \A p \in People : token[p].age + Lag < quiet[p] =>
        token[p].role = role[p] /\ token[p].member = member[p]

\* Rights read by a sign-in and changed since were changed during it.
ReadRightsAreRecent ==
    \A s \in Slots :
        /\ Carries(s) =>
              req[s].role = role[req[s].p] \/ quiet[req[s].p] <= waited[s]
        /\ At(s, "sign") =>
              req[s].member = member[req[s].p] \/ quiet[req[s].p] <= waited[s]

RightsInv ==
    /\ TypeOK
    /\ TokensTrackRows
    /\ ReadRightsAreRecent

=============================================================================
