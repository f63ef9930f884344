---------------------------- MODULE ReviewsProofs ----------------------------
(***************************************************************************)
(* The double-blind window holds for any number of pairs, submissions in   *)
(* flight, overlapping passes and any two delays.                          *)
(***************************************************************************)
EXTENDS Reviews, TLAPS

\* The other side of a review is a review.
LEMMA OtherIsAReview ==
    ASSUME NEW r \in Reviews
    PROVE  Other(r) \in Reviews
BY DEF Other, Reviews, Sides

\* A closed window stays closed: the clock only advances, no review is lost
\* and none is dated again.
LEMMA WindowStaysClosed ==
    ASSUME TypeOK, NEW r \in written, WindowClosed(r),
           now' \in Nat, now' >= now,
           written \subseteq written', \A x \in written : createdAt'[x] = createdAt[x]
    PROVE  WindowClosed(r)'
<1>1. r \in Reviews /\ now \in Nat /\ createdAt[r] \in Nat
    BY DEF TypeOK
<1>2. createdAt'[r] = createdAt[r]
    OBVIOUS
<1>3. CASE Age(r) >= OneDays
    BY <1>1, <1>2, <1>3, DaysAreNumbers DEF WindowClosed, Age
<1>4. CASE Other(r) \in written /\ Age(r) >= BothDays /\ Age(Other(r)) >= BothDays
    <2>1. createdAt'[Other(r)] = createdAt[Other(r)] /\ createdAt[Other(r)] \in Nat
        BY <1>4, <1>1, OtherIsAReview DEF TypeOK
    <2>2. Other(r)' = Other(r)
        BY DEF Other
    <2> QED
        BY <1>1, <1>2, <1>4, <2>1, <2>2, DaysAreNumbers DEF WindowClosed, Age
<1> QED
    BY <1>3, <1>4 DEF WindowClosed

\* What a pass selects by its own rule from rows that exist has closed its
\* window in the table too.
LEMMA DueIsClosed ==
    ASSUME NEW seen \in SUBSET written, NEW r \in seen, Due(r, seen)
    PROVE  WindowClosed(r)
BY DEF Due, WindowClosed

-----------------------------------------------------------------------------

LEMMA SealInit == Init => SealInv
<1> SUFFICES ASSUME Init PROVE SealInv
    OBVIOUS
<1> USE DEF Init
<1>1. TypeOK
    BY DEF TypeOK, Pass
<1>2. PassesAreSound
    BY DEF PassesAreSound, AtRest
<1>3. Sealed
    BY DEF Sealed
<1> QED
    BY <1>1, <1>2, <1>3 DEF SealInv

\* Steps that leave published and pass alone and write rows only forward.
LEMMA TableStep ==
    ASSUME SealInv, TypeOK', UNCHANGED <<published, pass>>,
           now' >= now, written \subseteq written',
           \A x \in written : createdAt'[x] = createdAt[x]
    PROVE  SealInv'
<1>0. now' \in Nat
    BY DEF TypeOK
<1>1. \A r \in written : WindowClosed(r) => WindowClosed(r)'
    BY <1>0, WindowStaysClosed DEF SealInv
<1>2. PassesAreSound'
    BY <1>1 DEF SealInv, PassesAreSound
<1>3. Sealed'
    BY <1>1 DEF SealInv, Sealed, TypeOK
<1> QED
    BY <1>2, <1>3 DEF SealInv

\* Steps of a pass, which leave the table of reviews as it is.
LEMMA PassStep ==
    ASSUME SealInv, UNCHANGED <<now, completed, written, createdAt, req>>,
           NEW p \in Passes, NEW q \in Pass, pass' = [pass EXCEPT ![p] = q],
           q.seen \subseteq written, q.due \subseteq written,
           \A r \in q.due : WindowClosed(r),
           published' \subseteq written, \A r \in published' : WindowClosed(r)
    PROVE  SealInv'
<1> USE DEF SealInv
<1>1. TypeOK'
    BY DEF TypeOK
<1>2. \A r : WindowClosed(r)' <=> WindowClosed(r)
    BY DEF WindowClosed, Age, Other
<1>3. \A x \in Passes : pass'[x] = IF x = p THEN q ELSE pass[x]
    BY DEF TypeOK
<1>4. PassesAreSound'
    BY <1>2, <1>3 DEF PassesAreSound
<1>5. Sealed'
    BY <1>2 DEF Sealed
<1> QED
    BY <1>1, <1>4, <1>5

LEMMA SealStep == SealInv /\ [Next]_vars => SealInv'
<1> SUFFICES ASSUME SealInv, [Next]_vars PROVE SealInv'
    OBVIOUS
<1>0. TypeOK /\ PassesAreSound /\ Sealed
    BY DEF SealInv
<1>1. CASE UNCHANGED vars
    <2>1. TypeOK'
        BY <1>0, <1>1 DEF vars, TypeOK
    <2> QED
        BY <1>0, <1>1, <2>1, TableStep DEF vars, TypeOK
<1>2. ASSUME NEW k \in Pairs, TakerCompletes(k) PROVE SealInv'
    <2>1. TypeOK'
        BY <1>0, <1>2 DEF TakerCompletes, TypeOK
    <2> QED
        BY <1>0, <1>2, <2>1, TableStep DEF TakerCompletes, TypeOK
<1>3. ASSUME NEW s \in Slots, NEW r \in Reviews, SubmitRead(s, r) PROVE SealInv'
    <2>1. TypeOK'
        BY <1>0, <1>3 DEF SubmitRead, TypeOK
    <2> QED
        BY <1>0, <1>3, <2>1, TableStep DEF SubmitRead, TypeOK
<1>4. ASSUME NEW s \in Slots, SubmitWrite(s) PROVE SealInv'
    <2>0. req[s] \in Reviews
        BY <1>0, <1>4 DEF SubmitWrite, TypeOK
    <2>1. TypeOK'
        BY <1>0, <1>4, <2>0 DEF SubmitWrite, CreateReview, TypeOK
    <2>2. written \subseteq written' /\ \A x \in written : createdAt'[x] = createdAt[x]
        BY <1>0, <1>4, <2>0 DEF SubmitWrite, CreateReview, TypeOK
    <2> QED
        BY <1>0, <1>4, <2>1, <2>2, TableStep DEF SubmitWrite, TypeOK
<1>5. ASSUME NEW s \in Slots, SubmitFail(s) PROVE SealInv'
    <2>1. TypeOK'
        BY <1>0, <1>5 DEF SubmitFail, TypeOK
    <2> QED
        BY <1>0, <1>5, <2>1, TableStep DEF SubmitFail, TypeOK
<1>6. ASSUME NEW p \in Passes, PublishScan(p) PROVE SealInv'
    <2> DEFINE q == [at |-> "judge", seen |-> written \ published, due |-> {}]
    <2>1. q \in Pass
        BY <1>0 DEF Pass, TypeOK
    <2>2. pass' = [pass EXCEPT ![p] = q]
        BY <1>6 DEF PublishScan
    <2>3. q.seen \subseteq written /\ q.due = {}
        OBVIOUS
    <2>4. published' = published /\ published \subseteq written
        BY <1>0, <1>6 DEF PublishScan, TypeOK
    <2>5. \A r \in published' : WindowClosed(r)
        BY <1>0, <2>4 DEF Sealed
    <2> HIDE DEF q
    <2> QED
        BY <1>6, <2>1, <2>2, <2>3, <2>4, <2>5, PassStep DEF PublishScan
<1>7. ASSUME NEW p \in Passes, PublishJudge(p) PROVE SealInv'
    <2> DEFINE seen == pass[p].seen
               q == [at |-> "write", seen |-> seen, due |-> {r \in seen : Due(r, seen)}]
    <2>1. seen \subseteq written /\ seen \subseteq Reviews
        BY <1>0 DEF PassesAreSound, TypeOK
    <2>2. q \in Pass
        BY <2>1 DEF Pass
    <2>3. pass' = [pass EXCEPT ![p] = q]
        BY <1>7 DEF PublishJudge
    <2>4. q.seen \subseteq written /\ q.due \subseteq written
        BY <2>1
    <2>5. \A r \in q.due : WindowClosed(r)
        BY <2>1, DueIsClosed
    <2>6. published' = published /\ published \subseteq written
        BY <1>0, <1>7 DEF PublishJudge, TypeOK
    <2>7. \A r \in published' : WindowClosed(r)
        BY <1>0, <2>6 DEF Sealed
    <2> HIDE DEF q
    <2> QED
        BY <1>7, <2>2, <2>3, <2>4, <2>5, <2>6, <2>7, PassStep DEF PublishJudge
<1>8. ASSUME NEW p \in Passes, PublishWrite(p) PROVE SealInv'
    <2>1. AtRest \in Pass /\ AtRest.seen = {} /\ AtRest.due = {}
        BY DEF Pass, AtRest
    <2>2. published' \subseteq written /\ \A r \in published' : WindowClosed(r)
        BY <1>0, <1>8 DEF PublishWrite, PassesAreSound, Sealed, TypeOK
    <2> QED
        BY <1>8, <2>1, <2>2, PassStep DEF PublishWrite
<1>9. ASSUME NEW p \in Passes, PublishFail(p) PROVE SealInv'
    <2>1. AtRest \in Pass /\ AtRest.seen = {} /\ AtRest.due = {}
        BY DEF Pass, AtRest
    <2>2. published' \subseteq written /\ \A r \in published' : WindowClosed(r)
        BY <1>0, <1>9 DEF PublishFail, Sealed, TypeOK
    <2> QED
        BY <1>9, <2>1, <2>2, PassStep DEF PublishFail
<1>10. CASE DayPasses
    <2>1. TypeOK'
        BY <1>0, <1>10 DEF DayPasses, TypeOK
    <2>2. now' >= now
        BY <1>0, <1>10 DEF DayPasses, TypeOK
    <2> QED
        BY <1>10, <2>1, <2>2, TableStep DEF DayPasses
<1> QED
    BY <1>1, <1>2, <1>3, <1>4, <1>5, <1>6, <1>7, <1>8, <1>9, <1>10 DEF Next

-----------------------------------------------------------------------------

\* TypeOK, in particular that only reviews in the table are ever public, with
\* what the passes in flight have seen and chosen, holds throughout.
THEOREM SealInvariance == Spec => []SealInv
BY SealInit, SealStep, PTL DEF Spec

\* No review is public before its double-blind window has closed.
THEOREM ReviewsStaySealed == Spec => []Sealed
<1>1. SealInv => Sealed
    BY DEF SealInv
<1> QED
    BY <1>1, SealInvariance, PTL

\* Every reachable state is well typed; only reviews in the table are public.
THEOREM Typing == Spec => []TypeOK
<1>1. SealInv => TypeOK
    BY DEF SealInv
<1> QED
    BY <1>1, SealInvariance, PTL

\* A review that is in the table is never replaced, dated again or taken out,
\* however many submissions of its side race.
THEOREM ReviewsAreNeverReplaced == Spec => FirstReviewStands
<1>1. ASSUME TypeOK, [Next]_vars, NEW r \in written
      PROVE  r \in written' /\ createdAt'[r] = createdAt[r]
    <2>1. ASSUME NEW s \in Slots, SubmitWrite(s)
          PROVE  r \in written' /\ createdAt'[r] = createdAt[r]
        BY <1>1, <2>1 DEF SubmitWrite, CreateReview, TypeOK
    <2>2. CASE UNCHANGED <<written, createdAt>>
        BY <2>2
    <2> QED
        BY <1>1, <2>1, <2>2
           DEF Next, vars, TakerCompletes, SubmitRead, SubmitFail, PublishScan, PublishJudge,
               PublishWrite, PublishFail, DayPasses
<1>2. TypeOK /\ [Next]_vars =>
          [\A r \in written : r \in written' /\ createdAt'[r] = createdAt[r]]_vars
    BY <1>1
<1> QED
    BY <1>2, Typing, PTL DEF Spec, FirstReviewStands

=============================================================================
