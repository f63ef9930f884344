--------------------------- MODULE ThrottlesProofs ---------------------------
(***************************************************************************)
(* For any windows, budgets and number of attempts in flight: nobody is    *)
(* refused at the administrators' sign-in for longer than one window on    *)
(* end, no window sees more failures of a key than two bursts of attempts, *)
(* nobody has more wrong check-in codes on the slate than the budget, and  *)
(* a check-in code lives for one step at least and two at most.            *)
(***************************************************************************)
EXTENDS Throttles, FiniteSetTheorems, SequenceTheorems, TLAPS

Entry == [count : Nat, age : 0..Window + 1]

SignInAttempt == [at : {"verify"}, keys : Targets, slept : BOOLEAN]

\* A key is refused only by its entry: no longer than the entry is old, and
\* not at all once the entry has expired.
RefusedByEntry ==
    \A k \in Keys :
        /\ failures[k].count = 0 => failures[k].age = 0
        /\ shut[k] <= failures[k].age
        /\ failures[k].age > Window => shut[k] = 0

DoorInv ==
    /\ failures \in [Keys -> Entry]
    /\ shut \in [Keys -> 0..Window + 1]
    /\ RefusedByEntry

LEMMA Units == Window \in Nat /\ Window >= 1 /\ Step \in Nat /\ Step >= 1
BY WindowsArePositive

\* Looking at a key forgets an expired entry and leaves the others.
LEMMA SweptEntries ==
    ASSUME DoorInv, NEW looked \in SUBSET Keys
    PROVE  /\ Swept(looked) \in [Keys -> Entry]
           /\ \A k \in Keys :
                LET e == Swept(looked)[k] IN
                /\ e.count = 0 => e.age = 0
                /\ shut[k] <= e.age
                /\ e.age > Window => shut[k] = 0
<1>1. None \in Entry /\ None.count = 0 /\ None.age = 0
  BY Units DEF None, Entry
<1>2. Swept(looked) \in [Keys -> Entry]
  BY <1>1 DEF Swept, DoorInv
<1>3. ASSUME NEW k \in Keys
      PROVE  /\ Swept(looked)[k].count = 0 => Swept(looked)[k].age = 0
             /\ shut[k] <= Swept(looked)[k].age
             /\ Swept(looked)[k].age > Window => shut[k] = 0
  <2>1. Swept(looked)[k] = IF k \in looked /\ Expired(failures[k]) THEN None ELSE failures[k]
    BY DEF Swept
  <2>2. shut[k] \in Nat
    BY Units DEF DoorInv
  <2>3. CASE k \in looked /\ Expired(failures[k])
    <3>1. shut[k] = 0
      BY <2>3 DEF Expired, DoorInv, RefusedByEntry
    <3>2. Swept(looked)[k] = None
      BY <2>1, <2>3
    <3> QED
      BY <1>1, <3>1, <3>2, Units
  <2>4. CASE ~(k \in looked /\ Expired(failures[k]))
    BY <2>1, <2>4 DEF DoorInv, RefusedByEntry
  <2> QED
    BY <2>3, <2>4
<1> QED
  BY <1>2, <1>3

LEMMA DoorInit ==
    ASSUME Init
    PROVE  DoorInv
BY Units DEF Init, DoorInv, RefusedByEntry, None, Entry

LEMMA DoorStep ==
    ASSUME DoorInv, [Next]_vars
    PROVE  DoorInv'
<1>n. None \in Entry /\ None.count = 0 /\ None.age = 0
  BY Units DEF None, Entry
<1>t. \A k \in Keys : /\ failures[k] \in Entry /\ failures[k].count \in Nat
                      /\ failures[k].age \in 0..Window + 1 /\ shut[k] \in 0..Window + 1
  BY DEF DoorInv, Entry
<1>1. ASSUME NEW a \in Attempts, NEW keys \in Targets, SignIn(a, keys) PROVE DoorInv'
  <2>1. keys \in SUBSET Keys
    BY DEF Keys
  <2>2. failures' = Swept(keys) /\ shut' = shut
    BY <1>1 DEF SignIn
  <2> QED
    BY <2>1, <2>2, SweptEntries DEF DoorInv, RefusedByEntry
<1>2. ASSUME NEW a \in Attempts, SignInFails(a) PROVE DoorInv'
  <2>1. /\ failures' = [k \in Keys |-> LET e == Swept(Keys)[k] IN
                                       IF k \in attempt[a].keys THEN Counted(e) ELSE e]
        /\ shut' = shut
    BY <1>2 DEF SignInFails
  <2>2. ASSUME NEW k \in Keys
        PROVE  /\ failures'[k] \in Entry
               /\ failures'[k].count = 0 => failures'[k].age = 0
               /\ shut[k] <= failures'[k].age
               /\ failures'[k].age > Window => shut[k] = 0
    <3> DEFINE e == Swept(Keys)[k]
    <3>1. /\ e \in Entry
          /\ e.count = 0 => e.age = 0
          /\ shut[k] <= e.age
          /\ e.age > Window => shut[k] = 0
      BY SweptEntries
    <3>2. failures'[k] = IF k \in attempt[a].keys THEN Counted(e) ELSE e
      BY <2>1
    <3> HIDE DEF e
    <3>3. Counted(e) \in Entry /\ Counted(e).age = e.age /\ Counted(e).count # 0
      BY <3>1, Units DEF Counted, Entry
    <3> QED
      BY <3>1, <3>2, <3>3
  <2>3. failures' \in [Keys -> Entry]
    BY <2>1, <2>2
  <2> QED
    BY <2>1, <2>2, <2>3 DEF DoorInv, RefusedByEntry
<1>3. ASSUME NEW a \in Attempts, SignInSucceeds(a) PROVE DoorInv'
  <2>1. /\ failures' = [k \in Keys |-> IF k \in attempt[a].keys THEN None ELSE failures[k]]
        /\ shut' = [k \in Keys |-> IF k \in attempt[a].keys THEN 0 ELSE shut[k]]
    BY <1>3 DEF SignInSucceeds
  <2>2. failures' \in [Keys -> Entry] /\ shut' \in [Keys -> 0..Window + 1]
    BY <2>1, <1>n, <1>t, Units
  <2>3. RefusedByEntry'
    BY <2>1, <1>n, Units DEF DoorInv, RefusedByEntry
  <2> QED
    BY <2>2, <2>3 DEF DoorInv
<1>4. CASE Tick
  <2>1. /\ failures' = [k \in Keys |-> IF failures[k].count = 0 THEN None
                                       ELSE [failures[k] EXCEPT !.age = Older(@, Window + 1)]]
        /\ shut' = [k \in Keys |-> IF Locked(failures[k]) THEN Older(shut[k], Window + 1) ELSE 0]
    BY <1>4 DEF Tick
  <2>2. ASSUME NEW k \in Keys
        PROVE  /\ failures'[k] \in Entry /\ shut'[k] \in 0..Window + 1
               /\ failures'[k].count = 0 => failures'[k].age = 0
               /\ shut'[k] <= failures'[k].age
               /\ failures'[k].age > Window => shut'[k] = 0
    <3>1. /\ failures[k].count \in Nat /\ failures[k].age \in 0..Window + 1 /\ shut[k] \in 0..Window + 1
          /\ failures[k].count = 0 => failures[k].age = 0
          /\ shut[k] <= failures[k].age
      BY <1>t DEF DoorInv, RefusedByEntry
    <3>2. CASE failures[k].count = 0
      <4>1. failures'[k] = None
        BY <2>1, <3>2
      <4>2. ~Locked(failures[k])
        BY <3>2, WindowsArePositive DEF Locked
      <4>3. shut'[k] = 0
        BY <2>1, <4>2
      <4> QED
        BY <1>n, <4>1, <4>3, Units
    <3>3. CASE failures[k].count # 0
      <4>1. /\ failures'[k] = [failures[k] EXCEPT !.age = Older(failures[k].age, Window + 1)]
            /\ shut'[k] = IF Locked(failures[k]) THEN Older(shut[k], Window + 1) ELSE 0
        BY <2>1, <3>3
      <4>2. Older(failures[k].age, Window + 1) \in 0..Window + 1
        BY <3>1, Units DEF Older
      <4>3. /\ failures'[k] \in Entry /\ failures'[k].count = failures[k].count
            /\ failures'[k].age = Older(failures[k].age, Window + 1)
        BY <1>t, <4>1, <4>2 DEF Entry
      <4>4. CASE Locked(failures[k])
        <5>1. failures[k].age < Window /\ shut'[k] = Older(shut[k], Window + 1)
          BY <4>1, <4>4 DEF Locked
        <5>2. failures'[k].age = failures[k].age + 1 /\ shut'[k] = shut[k] + 1
          BY <3>1, <4>3, <5>1, Units DEF Older
        <5> QED
          BY <3>1, <3>3, <4>3, <5>1, <5>2, Units
      <4>5. CASE ~Locked(failures[k])
        <5>1. shut'[k] = 0
          BY <4>1, <4>5
        <5> QED
          BY <3>3, <4>2, <4>3, <5>1, Units
      <4> QED
        BY <4>4, <4>5
    <3> QED
      BY <3>2, <3>3
  <2>3. failures' \in [Keys -> Entry] /\ shut' \in [Keys -> 0..Window + 1]
    BY <2>1, <2>2
  <2> QED
    BY <2>2, <2>3 DEF DoorInv, RefusedByEntry
<1>5. CASE Restart
  BY <1>5, <1>n, Units DEF Restart, DoorInv, RefusedByEntry
<1>6. CASE UNCHANGED <<failures, shut>>
  BY <1>6 DEF DoorInv, RefusedByEntry
<1>7. ASSUME NEW a \in Attempts, SignInError(a) PROVE UNCHANGED <<failures, shut>>
  BY <1>7 DEF SignInError
<1>8. ASSUME NEW s \in Slots, \/ \E u \in Attendees, age \in 0..2 * Step \union {Guess} : CheckinRead(s, u, age)
                              \/ CheckinRefused(s) \/ CheckinAccepted(s) \/ CheckinError(s)
      PROVE  UNCHANGED <<failures, shut>>
  BY <1>8 DEF CheckinRead, CheckinRefused, CheckinAccepted, CheckinError, door
<1> QED
  BY <1>1, <1>2, <1>3, <1>4, <1>5, <1>6, <1>7, <1>8 DEF Next, vars, door

\* However many attempts fail while a key is refused, it is refused for one
\* window on end at most (loginThrottle.js:25-45).
THEOREM RefusalsEnd == Spec => []ShutOutEnds
<1>1. Spec => []DoorInv
  BY DoorInit, DoorStep, PTL DEF Spec
<1>2. DoorInv => ShutOutEnds
  <2> SUFFICES ASSUME DoorInv, NEW k \in Keys PROVE shut[k] <= Window
    BY DEF ShutOutEnds
  <2>1. /\ shut[k] <= failures[k].age /\ (failures[k].age > Window => shut[k] = 0)
        /\ failures[k].age \in 0..Window + 1 /\ shut[k] \in 0..Window + 1
    BY DEF DoorInv, RefusedByEntry, Entry
  <2> QED
    BY <2>1, Units
<1> QED
  BY <1>1, <1>2, PTL

-----------------------------------------------------------------------------
(* The life of a check-in code *)

Ages == 0..2 * Step \union {Guess}

CodeInv ==
    /\ checkin \in [Slots -> {Idle} \union [at : {"judge"}, who : Attendees, age : Ages]]
    /\ phase \in 0..Step - 1

\* Less than two steps are one step at most, two or more at least two.
LEMMA WholeSteps ==
    ASSUME NEW d \in Nat, NEW n \in Nat, n >= 1
    PROVE  /\ d < 2 * n => d \div n <= 1
           /\ d >= 2 * n => d \div n >= 2
<1> DEFINE q == d \div n
<1>1. q \in Nat /\ n * q <= d /\ d < n * (q + 1)
  OBVIOUS
<1> HIDE DEF q
<1>2. ASSUME d < 2 * n PROVE q <= 1
  <2>1. CASE q >= 2
    <3>1. n * q >= 2 * n
      BY <1>1, <2>1
    <3> QED
      BY <1>1, <1>2, <3>1
  <2> QED
    BY <1>1, <2>1
<1>3. ASSUME d >= 2 * n PROVE q >= 2
  <2>1. CASE q <= 1
    <3>1. n * (q + 1) <= 2 * n
      BY <1>1, <2>1
    <3> QED
      BY <1>1, <1>3, <3>1
  <2> QED
    BY <1>1, <2>1
<1> QED
  BY <1>2, <1>3 DEF q

LEMMA CodeStep ==
    ASSUME CodeInv, [Next]_vars
    PROVE  CodeInv'
<1>1. ASSUME NEW s \in Slots, NEW u \in Attendees, NEW age \in Ages, CheckinRead(s, u, age) PROVE CodeInv'
  BY <1>1 DEF CodeInv, CheckinRead
<1>2. ASSUME NEW s \in Slots, CheckinRefused(s) \/ CheckinAccepted(s) \/ CheckinError(s) PROVE CodeInv'
  BY <1>2 DEF CodeInv, CheckinRefused, CheckinAccepted, CheckinError, Leave
<1>3. CASE Tick
  <2>1. phase' \in 0..Step - 1
    BY <1>3, Units DEF Tick, CodeInv
  <2>2. ASSUME NEW s \in Slots
        PROVE  checkin'[s] \in {Idle} \union [at : {"judge"}, who : Attendees, age : Ages]
    <3>1. checkin'[s] = IF checkin[s] = Idle \/ checkin[s].age = Guess THEN checkin[s]
                        ELSE [checkin[s] EXCEPT !.age = Older(@, 2 * Step)]
      BY <1>3 DEF Tick
    <3>2. CASE checkin[s] = Idle \/ checkin[s].age = Guess
      BY <3>1, <3>2 DEF CodeInv
    <3>3. CASE ~(checkin[s] = Idle \/ checkin[s].age = Guess)
      <4>1. /\ checkin[s] \in [at : {"judge"}, who : Attendees, age : Ages]
            /\ checkin[s].age \in 0..2 * Step
        BY <3>3 DEF CodeInv, Ages
      <4>2. Older(checkin[s].age, 2 * Step) \in Ages
        BY <4>1, Units DEF Older, Ages
      <4> QED
        BY <3>1, <3>3, <4>1, <4>2
    <3> QED
      BY <3>2, <3>3
  <2>3. checkin' = [s \in Slots |-> checkin'[s]]
    BY <1>3 DEF Tick
  <2> QED
    BY <2>1, <2>2, <2>3 DEF CodeInv
<1>4. CASE Restart
  BY <1>4 DEF Restart, CodeInv
<1>5. CASE UNCHANGED <<checkin, phase>>
  BY <1>5 DEF CodeInv
<1>6. ASSUME NEW a \in Attempts, \/ \E keys \in Targets : SignIn(a, keys)
                                 \/ SignInFails(a) \/ SignInSucceeds(a) \/ SignInError(a)
      PROVE  UNCHANGED <<checkin, phase>>
  BY <1>6 DEF SignIn, SignInFails, SignInSucceeds, SignInError, event
<1> QED
  BY <1>1, <1>2, <1>3, <1>4, <1>5, <1>6 DEF Next, vars, event, Ages

\* Whatever the length of a step and the moment it was copied in, a code is
\* good for one whole step and for less than two (totp.js:58-65).
THEOREM CodesLiveOneStepOrTwo == Spec => []CodeLifetime
<1>1. Init => CodeInv
  BY Units DEF Init, CodeInv
<1>2. Spec => []CodeInv
  BY <1>1, CodeStep, PTL DEF Spec
<1>3. CodeInv => CodeLifetime
  <2> SUFFICES ASSUME CodeInv, NEW s \in Slots, checkin[s] # Idle, checkin[s].age # Guess
               PROVE  /\ checkin[s].age <= Step => Verify(checkin[s].age)
                      /\ checkin[s].age >= 2 * Step => ~Verify(checkin[s].age)
    BY DEF CodeLifetime
  <2> DEFINE age == checkin[s].age
             d == age + Step - 1 - phase
  <2>1. age \in 0..2 * Step /\ age # Guess /\ phase \in 0..Step - 1
    BY DEF CodeInv, Ages
  <2> HIDE DEF age
  <2>2. /\ d \in Nat
        /\ age <= Step => d < 2 * Step
        /\ age >= 2 * Step => d >= 2 * Step
    BY <2>1, Units
  <2>3. Drift(age) = d \div Step
    BY DEF Drift
  <2> HIDE DEF d
  <2>4. /\ d < 2 * Step => d \div Step <= 1
        /\ d >= 2 * Step => d \div Step >= 2
    BY <2>2, Units, WholeSteps
  <2>5. d \div Step \in Nat
    BY <2>2, Units
  <2> QED
    BY <2>1, <2>2, <2>3, <2>4, <2>5 DEF Verify, age
<1> QED
  BY <1>2, <1>3, PTL

-----------------------------------------------------------------------------
(* How many failures one entry, and one window, can hold *)

\* The attempts whose failure may still be counted on the entry of k: all that
\* are in flight, but in its last unit none that has passed the door in it.
Pending(k) ==
    {a \in Attempts : /\ attempt[a] # Idle
                      /\ k \in attempt[a].keys
                      /\ failures[k].age < Window \/ attempt[a].slept}

\* What an entry counts and what is still to come stay within the overshoot.
RoomLeft ==
    \A k \in Keys :
        /\ failures[k].count <= Overshoot
        /\ failures[k].age <= Window => failures[k].count + Cardinality(Pending(k)) <= Overshoot

TallyInv ==
    /\ DoorInv
    /\ attempt \in [Attempts -> {Idle} \union SignInAttempt]
    /\ RoomLeft

LEMMA Bounds ==
    /\ Window \in Nat /\ Window >= 1
    /\ MaxFailures \in Nat /\ MaxFailures >= 1
    /\ Cardinality(Attempts) \in Nat /\ Cardinality(Attempts) >= 1
    /\ Overshoot \in Nat /\ Overshoot >= Cardinality(Attempts)
    /\ Overshoot = MaxFailures - 1 + Cardinality(Attempts)
<1>1. Cardinality(Attempts) \in Nat /\ Cardinality(Attempts) # 0
  BY SomeAttempts, FS_CardinalityType, FS_EmptySet
<1> QED
  BY <1>1, WindowsArePositive DEF Overshoot

\* Any set of attempts has a size, and a smaller set a smaller one.
LEMMA SizesOfAttempts ==
    ASSUME NEW S \in SUBSET Attempts, NEW T \in SUBSET S
    PROVE  /\ IsFiniteSet(S) /\ Cardinality(S) \in Nat /\ Cardinality(T) \in Nat
           /\ Cardinality(T) <= Cardinality(S)
           /\ Cardinality(S) <= Cardinality(Attempts)
<1>1. IsFiniteSet(S) /\ IsFiniteSet(T) /\ Cardinality(S) <= Cardinality(Attempts)
  BY SomeAttempts, FS_Subset
<1> QED
  BY <1>1, FS_Subset, FS_CardinalityType

\* An entry that is new, or gone, leaves room for every attempt there is.
LEMMA FreshEntryHasRoom ==
    ASSUME NEW P \in SUBSET Attempts, NEW n \in Nat,
           n < MaxFailures \/ (n = 1 /\ P # Attempts)
    PROVE  n + Cardinality(P) <= Overshoot
<1>1. Cardinality(P) \in Nat /\ Cardinality(P) <= Cardinality(Attempts)
  BY SizesOfAttempts
<1>2. CASE n < MaxFailures
  BY <1>1, <1>2, Bounds
<1>3. CASE n = 1 /\ P # Attempts
  <2>1. Cardinality(P) < Cardinality(Attempts)
    BY <1>1, <1>3, Bounds, SomeAttempts, FS_Subset
  <2> QED
    BY <1>1, <1>3, <2>1, Bounds
<1> QED
  BY <1>2, <1>3

\* An entry that is as before, while nothing more may be counted on it.
LEMMA OldEntryHasRoom ==
    ASSUME TallyInv, NEW k \in Keys, failures[k].age <= Window,
           NEW P \in SUBSET Pending(k)
    PROVE  failures[k].count + Cardinality(P) <= Overshoot
<1>1. Pending(k) \in SUBSET Attempts
  BY DEF Pending
<1>2. /\ Cardinality(P) \in Nat /\ Cardinality(Pending(k)) \in Nat
      /\ Cardinality(P) <= Cardinality(Pending(k))
  BY <1>1, SizesOfAttempts
<1>3. failures[k].count + Cardinality(Pending(k)) <= Overshoot /\ failures[k].count \in Nat
  BY DEF TallyInv, RoomLeft, DoorInv, Entry
<1> QED
  BY <1>2, <1>3, Bounds

\* What looking at a key makes of its entry.
LEMMA SweptEntry ==
    ASSUME DoorInv, NEW looked \in SUBSET Keys, NEW k \in Keys
    PROVE  \/ Swept(looked)[k] = None
           \/ Swept(looked)[k] = failures[k] /\ (k \in looked => failures[k].age <= Window)
<1>1. Swept(looked)[k] = IF k \in looked /\ Expired(failures[k]) THEN None ELSE failures[k]
  BY DEF Swept
<1>2. failures[k].age \in 0..Window + 1
  BY DEF DoorInv, Entry
<1> QED
  BY <1>1, <1>2, Bounds DEF Expired

LEMMA AttemptStep ==
    ASSUME TallyInv, [Next]_vars
    PROVE  (attempt \in [Attempts -> {Idle} \union SignInAttempt])'
<1> USE DEF SignInAttempt
<1>1. ASSUME NEW a \in Attempts, NEW keys \in Targets, SignIn(a, keys)
      PROVE  (attempt \in [Attempts -> {Idle} \union SignInAttempt])'
  BY <1>1 DEF TallyInv, SignIn
<1>2. ASSUME NEW a \in Attempts, SignInFails(a) \/ SignInSucceeds(a) \/ SignInError(a)
      PROVE  (attempt \in [Attempts -> {Idle} \union SignInAttempt])'
  BY <1>2 DEF TallyInv, SignInFails, SignInSucceeds, SignInError, Finish
<1>3. CASE Tick
  <2>1. \A a \in Attempts : attempt'[a] \in {Idle} \union SignInAttempt
    BY <1>3 DEF Tick, TallyInv
  <2> QED
    BY <1>3, <2>1 DEF Tick
<1>4. CASE Restart
  BY <1>4 DEF Restart
<1>5. CASE UNCHANGED attempt
  BY <1>5 DEF TallyInv
<1>6. ASSUME NEW s \in Slots, \/ \E u \in Attendees, age \in 0..2 * Step \union {Guess} : CheckinRead(s, u, age)
                              \/ CheckinRefused(s) \/ CheckinAccepted(s) \/ CheckinError(s)
      PROVE  UNCHANGED attempt
  BY <1>6 DEF CheckinRead, CheckinRefused, CheckinAccepted, CheckinError, door
<1> QED
  BY <1>1, <1>2, <1>3, <1>4, <1>5, <1>6 DEF Next, vars, door

\* An entry that became new or stayed, with no attempt added to the ones that
\* may be counted on it, keeps its room.
LEMMA RoomKept ==
    ASSUME TallyInv, NEW k \in Keys,
           \/ failures'[k] = None
           \/ failures'[k] = failures[k] /\ (failures[k].age <= Window => Pending(k)' \subseteq Pending(k))
    PROVE  /\ failures'[k].count <= Overshoot
           /\ failures'[k].age <= Window => failures'[k].count + Cardinality(Pending(k)') <= Overshoot
<1> DEFINE P == Pending(k)'
<1>1. P \in SUBSET Attempts
  BY DEF Pending
<1>2. CASE failures'[k] = None
  <2>1. failures'[k].count = 0
    BY <1>2 DEF None
  <2>2. 0 + Cardinality(P) <= Overshoot
    <3> HIDE DEF P
    <3> QED
      BY <1>1, FreshEntryHasRoom, Bounds
  <2>3. Cardinality(P) \in Nat
    <3> HIDE DEF P
    <3> QED
      BY <1>1, SizesOfAttempts
  <2> QED
    BY <2>1, <2>2, <2>3, Bounds
<1>3. CASE failures'[k] = failures[k] /\ (failures[k].age <= Window => P \subseteq Pending(k))
  <2>1. failures[k].count <= Overshoot
    BY DEF TallyInv, RoomLeft
  <2>2. failures[k].age <= Window => failures[k].count + Cardinality(P) <= Overshoot
    <3> HIDE DEF P
    <3> QED
      BY <1>3, OldEntryHasRoom
  <2> QED
    BY <1>3, <2>1, <2>2
<1> QED
  BY <1>2, <1>3

LEMMA RoomStep ==
    ASSUME TallyInv, [Next]_vars
    PROVE  RoomLeft'
<1> SUFFICES ASSUME NEW k \in Keys
             PROVE  /\ failures'[k].count <= Overshoot
                    /\ failures'[k].age <= Window =>
                            failures'[k].count + Cardinality(Pending(k)') <= Overshoot
  BY DEF RoomLeft
<1> DEFINE Goal == /\ failures'[k].count <= Overshoot
                   /\ failures'[k].age <= Window =>
                            failures'[k].count + Cardinality(Pending(k)') <= Overshoot
<1>t. /\ failures[k] \in Entry /\ failures[k].count \in Nat /\ failures[k].age \in 0..Window + 1
      /\ failures[k].count <= Overshoot
      /\ Pending(k) \in SUBSET Attempts
  BY DEF TallyInv, RoomLeft, DoorInv, Entry, Pending
<1>p. Pending(k)' = {a \in Attempts : /\ attempt'[a] # Idle
                                      /\ k \in attempt'[a].keys
                                      /\ failures'[k].age < Window \/ attempt'[a].slept}
  BY DEF Pending
<1>1. ASSUME NEW a \in Attempts, NEW keys \in Targets, SignIn(a, keys) PROVE Goal
  <2>0. keys \in SUBSET Keys
    BY DEF Keys
  <2>1. failures'[k] = None \/ failures'[k] = failures[k]
    BY <1>1, <2>0, SweptEntry DEF SignIn, TallyInv
  <2>2. CASE failures'[k] = None
    BY <2>2, RoomKept
  <2>3. CASE attempt' = attempt /\ failures'[k] = failures[k]
    <3>1. Pending(k)' \subseteq Pending(k)
      BY <2>3, <1>p DEF Pending
    <3> QED
      BY <2>3, <3>1, RoomKept
  <2>4. CASE failures'[k] = failures[k] /\ attempt' # attempt
    <3>1. /\ attempt' = [attempt EXCEPT ![a] = [at |-> "verify", keys |-> keys, slept |-> FALSE]]
          /\ \A q \in keys : ~Locked(failures'[q])
      BY <1>1, <2>4 DEF SignIn
    <3>2. /\ attempt'[a].keys = keys /\ ~attempt'[a].slept
          /\ \A b \in Attempts \ {a} : attempt'[b] = attempt[b]
      BY <3>1 DEF TallyInv
    <3>3. CASE k \notin keys \/ failures[k].age >= Window
      <4>1. Pending(k)' \subseteq Pending(k)
        BY <1>p, <1>t, <2>4, <3>2, <3>3, Bounds DEF Pending
      <4> QED
        BY <2>4, <4>1, RoomKept
    <3>4. CASE k \in keys /\ failures[k].age < Window
      <4>1. failures'[k].count < MaxFailures
        BY <1>t, <2>4, <3>1, <3>4, Bounds DEF Locked
      <4>2. Pending(k)' \in SUBSET Attempts
        BY <1>p
      <4>3. failures[k].count + Cardinality(Pending(k)') <= Overshoot
        BY <1>t, <2>4, <4>1, <4>2, FreshEntryHasRoom
      <4> QED
        BY <1>t, <2>4, <4>3
    <3> QED
      BY <1>t, <3>3, <3>4, Bounds
  <2> QED
    BY <2>1, <2>2, <2>3, <2>4
<1>2. ASSUME NEW a \in Attempts, SignInFails(a) PROVE Goal
  <2> DEFINE e == Swept(Keys)[k]
  <2>1. /\ failures'[k] = IF k \in attempt[a].keys THEN Counted(e) ELSE e
        /\ attempt'[a] = Idle /\ \A b \in Attempts \ {a} : attempt'[b] = attempt[b]
        /\ attempt[a] # Idle /\ attempt[a].slept
    BY <1>2 DEF SignInFails, Finish, Verified, TallyInv
  <2>2. e = None \/ (e = failures[k] /\ failures[k].age <= Window)
    BY SweptEntry DEF TallyInv
  <2> HIDE DEF e
  <2>3. Pending(k)' \subseteq Attempts \ {a}
    BY <1>p, <2>1
  <2>4. CASE k \notin attempt[a].keys
    <3>1. failures'[k] = failures[k] => Pending(k)' \subseteq Pending(k)
      BY <1>p, <2>1 DEF Pending
    <3> QED
      BY <2>1, <2>2, <2>4, <3>1, RoomKept
  <2>5. CASE k \in attempt[a].keys /\ e.count = 0
    <3>1. failures'[k].count = 1
      BY <2>1, <2>5 DEF Counted
    <3>2. Pending(k)' \in SUBSET Attempts /\ Pending(k)' # Attempts
      BY <2>3
    <3>3. 1 + Cardinality(Pending(k)') <= Overshoot
      BY <3>2, FreshEntryHasRoom
    <3> QED
      BY <3>1, <3>3, Bounds
  <2>6. CASE k \in attempt[a].keys /\ e.count # 0
    <3>1. e = failures[k] /\ failures[k].age <= Window
      BY <2>2, <2>6 DEF None
    <3>2. failures'[k].count = failures[k].count + 1 /\ failures'[k].age = failures[k].age
      BY <1>t, <2>1, <2>6, <3>1 DEF Counted, Entry
    <3>3. a \in Pending(k) /\ Pending(k)' \subseteq Pending(k) \ {a}
      BY <1>p, <2>1, <2>6, <3>2 DEF Pending
    <3>4. /\ IsFiniteSet(Pending(k)) /\ Cardinality(Pending(k)) \in Nat
          /\ Cardinality(Pending(k) \ {a}) = Cardinality(Pending(k)) - 1
      BY <1>t, <3>3, SizesOfAttempts, FS_RemoveElement
    <3>5. /\ Cardinality(Pending(k)') \in Nat
          /\ Cardinality(Pending(k)') <= Cardinality(Pending(k) \ {a})
      BY <1>t, <3>3, SizesOfAttempts
    <3>6. failures[k].count + Cardinality(Pending(k)) <= Overshoot
      BY <3>1 DEF TallyInv, RoomLeft
    <3> QED
      BY <1>t, <3>2, <3>4, <3>5, <3>6, Bounds
  <2> QED
    BY <2>4, <2>5, <2>6
<1>3. ASSUME NEW a \in Attempts, SignInSucceeds(a) \/ SignInError(a) PROVE Goal
  <2>1. /\ failures'[k] = None \/ failures'[k] = failures[k]
        /\ attempt'[a] = Idle /\ \A b \in Attempts \ {a} : attempt'[b] = attempt[b]
    BY <1>3 DEF SignInSucceeds, SignInError, Finish, TallyInv
  <2>2. failures'[k] = failures[k] => Pending(k)' \subseteq Pending(k)
    BY <1>p, <2>1 DEF Pending
  <2> QED
    BY <2>1, <2>2, RoomKept
<1>4. CASE Tick
  <2>1. failures'[k] = IF failures[k].count = 0 THEN None
                       ELSE [failures[k] EXCEPT !.age = Older(failures[k].age, Window + 1)]
    BY <1>4 DEF Tick
  <2>2. CASE failures[k].count = 0
    BY <2>1, <2>2, RoomKept
  <2>3. CASE failures[k].count # 0
    <3>1. /\ failures'[k].count = failures[k].count
          /\ failures'[k].age = Older(failures[k].age, Window + 1)
      BY <1>t, <2>1, <2>3 DEF Entry
    <3>2. failures'[k].age <= Window => failures[k].age < Window
      BY <1>t, <3>1, Bounds DEF Older
    <3>3. \A a \in Attempts : attempt'[a] # Idle => attempt[a] # Idle /\ attempt'[a].keys = attempt[a].keys
      BY <1>4 DEF Tick, TallyInv, SignInAttempt
    <3>4. failures[k].age < Window => Pending(k)' \subseteq Pending(k)
      BY <1>p, <3>3 DEF Pending
    <3>5. failures[k].age < Window => failures[k].count + Cardinality(Pending(k)') <= Overshoot
      BY <1>t, <3>4, OldEntryHasRoom, Bounds
    <3> QED
      BY <1>t, <3>1, <3>2, <3>5
  <2> QED
    BY <2>2, <2>3
<1>5. CASE Restart
  BY <1>5, RoomKept DEF Restart
<1>6. CASE UNCHANGED <<failures, attempt>>
  <2>1. Pending(k)' \subseteq Pending(k)
    BY <1>6, <1>p DEF Pending
  <2> QED
    BY <1>6, <2>1, RoomKept
<1>7. ASSUME NEW s \in Slots, \/ \E u \in Attendees, age \in 0..2 * Step \union {Guess} : CheckinRead(s, u, age)
                              \/ CheckinRefused(s) \/ CheckinAccepted(s) \/ CheckinError(s)
      PROVE  UNCHANGED <<failures, attempt>>
  BY <1>7 DEF CheckinRead, CheckinRefused, CheckinAccepted, CheckinError, door
<1> QED
  BY <1>1, <1>2, <1>3, <1>4, <1>5, <1>6, <1>7 DEF Next, vars, door

LEMMA TallyInit ==
    ASSUME Init
    PROVE  TallyInv
<1>1. DoorInv /\ attempt \in [Attempts -> {Idle} \union SignInAttempt]
  BY DoorInit DEF Init
<1>2. \A k \in Keys : Pending(k) \in SUBSET Attempts /\ failures[k].count = 0
  BY DEF Init, None, Pending
<1>3. \A k \in Keys : 0 + Cardinality(Pending(k)) <= Overshoot
  BY <1>2, FreshEntryHasRoom, Bounds
<1>4. RoomLeft
  BY <1>2, <1>3, Bounds DEF RoomLeft
<1> QED
  BY <1>1, <1>4 DEF TallyInv

LEMMA TallyStep ==
    ASSUME TallyInv, [Next]_vars
    PROVE  TallyInv'
BY AttemptStep, RoomStep, DoorStep DEF TallyInv

\* The failures of a window belong to two entries at most: those of the present
\* one, which it counts, and those of the one before, without its first.
SpanOf(e, seen) ==
    /\ \A n \in 1..Window : seen[n - 1] <= seen[n]
    /\ e.count = 0 \/ e.age > Window => seen[0] = 0 /\ seen[Window] <= Overshoot - 1
    /\ e.count > 0 /\ e.age <= Window =>
        /\ seen[e.age] <= e.count
        /\ e.age > 0 => seen[e.age - 1] <= e.count - 1
        /\ seen[Window] <= seen[e.age] + Overshoot - 1

Spans == \A k \in Keys : SpanOf(failures[k], recent[k])

BurstInv ==
    /\ TallyInv
    /\ recent \in [Keys -> [0..Window -> Nat]]
    /\ Spans

LEMMA NoSpan == SpanOf(None, NoneRecent) /\ NoneRecent \in [0..Window -> Nat]
<1>1. \A n \in 0..Window : NoneRecent[n] = 0
  BY DEF NoneRecent
<1> QED
  BY <1>1, Bounds DEF SpanOf, None, NoneRecent

\* What a failure, and what the clock, makes of the failures counted.
OneMore(seen) == [n \in 0..Window |-> seen[n] + 1]

Shifted(seen) == [n \in 0..Window |-> IF n = 0 THEN 0 ELSE seen[n - 1]]

LEMMA SpansAreNumbers ==
    ASSUME NEW seen \in [0..Window -> Nat]
    PROVE  OneMore(seen) \in [0..Window -> Nat] /\ Shifted(seen) \in [0..Window -> Nat]
<1>1. ASSUME NEW n \in 0..Window PROVE seen[n] + 1 \in Nat
  OBVIOUS
<1>2. ASSUME NEW n \in 0..Window, n # 0 PROVE seen[n - 1] \in Nat
  <2>1. n - 1 \in 0..Window
    BY <1>2, Bounds
  <2> QED
    BY <2>1
<1> QED
  BY <1>1, <1>2 DEF OneMore, Shifted

\* One more failure, on an entry that goes on or on a new one.
LEMMA SpanOfFailure ==
    ASSUME NEW e \in Entry, NEW seen \in [0..Window -> Nat], SpanOf(e, seen),
           e.count = 0 => e.age = 0, e.age <= Window
    PROVE  SpanOf(Counted(e), OneMore(seen))
<1> DEFINE more == OneMore(seen)
<1>m. ASSUME NEW n \in 0..Window PROVE more[n] = seen[n] + 1 /\ seen[n] \in Nat
  BY DEF OneMore
<1> HIDE DEF more
<1>1. e.count \in Nat /\ e.age \in 0..Window + 1
  BY DEF Entry
<1>2. /\ e.count \in Nat /\ e.age \in 0..Window /\ e.age \in Nat
      /\ e.age > 0 => e.age - 1 \in 0..Window
      /\ Window \in 0..Window /\ 0 \in 0..Window
  BY <1>1, Bounds
<1>3. Counted(e).count = e.count + 1 /\ Counted(e).age = e.age
  BY DEF Counted, Entry
<1>5. ASSUME NEW n \in 1..Window PROVE more[n - 1] <= more[n]
  <2>1. n - 1 \in 0..Window /\ n \in 0..Window /\ seen[n - 1] <= seen[n]
    BY Bounds DEF SpanOf
  <2>2. more[n - 1] = seen[n - 1] + 1 /\ more[n] = seen[n] + 1 /\ seen[n - 1] \in Nat /\ seen[n] \in Nat
    BY <1>m, <2>1
  <2> QED
    BY <2>1, <2>2
<1>6. /\ more[e.age] <= e.count + 1
      /\ e.age > 0 => more[e.age - 1] <= e.count
      /\ more[Window] <= more[e.age] + Overshoot - 1
  <2>1. /\ more[e.age] = seen[e.age] + 1 /\ seen[e.age] \in Nat
        /\ more[Window] = seen[Window] + 1 /\ seen[Window] \in Nat
    BY <1>m, <1>2
  <2>2. CASE e.count = 0
    <3>1. e.age = 0 /\ seen[0] = 0 /\ seen[Window] <= Overshoot - 1
      BY <2>2 DEF SpanOf
    <3> QED
      BY <1>2, <2>1, <2>2, <3>1, Bounds
  <2>3. CASE e.count # 0
    <3>0. e.count > 0
      BY <1>2, <2>3
    <3>1. /\ seen[e.age] <= e.count
          /\ e.age > 0 => seen[e.age - 1] <= e.count - 1
          /\ seen[Window] <= seen[e.age] + Overshoot - 1
      BY <3>0 DEF SpanOf
    <3>2. e.age > 0 => more[e.age - 1] <= e.count
      <4> SUFFICES ASSUME e.age > 0 PROVE more[e.age - 1] <= e.count
        OBVIOUS
      <4>1. more[e.age - 1] = seen[e.age - 1] + 1 /\ seen[e.age - 1] \in Nat
        BY <1>m, <1>2
      <4> QED
        BY <1>2, <3>1, <4>1
    <3>3. more[e.age] <= e.count + 1
      BY <1>2, <2>1, <3>1
    <3>4. more[Window] <= more[e.age] + Overshoot - 1
      <4>1. \A x, y, b \in Nat : y <= x + b - 1 => y + 1 <= x + 1 + b - 1
        OBVIOUS
      <4> QED
        BY <2>1, <3>1, <4>1, Bounds
    <3> QED
      BY <3>2, <3>3, <3>4
  <2> QED
    BY <2>2, <2>3
<1>7. e.count + 1 > 0 /\ e.count + 1 - 1 = e.count /\ ~(e.count + 1 = 0 \/ e.age > Window)
  BY <1>2, Bounds
<1>8. SpanOf(Counted(e), more)
  <2> DEFINE c == Counted(e)
  <2>1. c.count = e.count + 1 /\ c.age = e.age
    BY <1>3
  <2> HIDE DEF c
  <2>2. c.count > 0 /\ c.count - 1 = e.count /\ ~(c.count = 0 \/ c.age > Window)
    BY <1>2, <1>7, <2>1
  <2>3. /\ more[c.age] <= c.count
        /\ c.age > 0 => more[c.age - 1] <= c.count - 1
        /\ more[Window] <= more[c.age] + Overshoot - 1
    BY <1>6, <2>1, <2>2
  <2>4. SpanOf(c, more)
    BY <1>5, <2>2, <2>3 DEF SpanOf
  <2> QED
    BY <2>4 DEF c
<1> QED
  BY <1>8 DEF more

\* A unit goes by.
LEMMA SpanOfTick ==
    ASSUME NEW e \in Entry, NEW seen \in [0..Window -> Nat], SpanOf(e, seen),
           e.count <= Overshoot,
           NEW f \in Entry, f = IF e.count = 0 THEN None
                                ELSE [count |-> e.count, age |-> Older(e.age, Window + 1)]
    PROVE  SpanOf(f, Shifted(seen))
<1> DEFINE less == Shifted(seen)
<1>m. /\ less[0] = 0
      /\ \A n \in 1..Window : less[n] = seen[n - 1] /\ seen[n - 1] \in Nat
      /\ \A n \in 0..Window : seen[n] \in Nat
  BY Bounds DEF Shifted
<1> HIDE DEF less
<1>2. e.count \in Nat /\ e.age \in 0..Window + 1 /\ Window \in 1..Window
      /\ Window - 1 \in 0..Window /\ Window \in 0..Window /\ 0 \in 0..Window
  BY Bounds DEF Entry
<1>4. ASSUME NEW n \in 1..Window PROVE less[n - 1] <= less[n]
  <2>0. less[n] = seen[n - 1] /\ n - 1 \in 0..Window /\ seen[n - 1] \in Nat
    BY <1>m, Bounds
  <2>1. CASE n = 1
    <3>1. n - 1 = 0
      BY <2>1
    <3> QED
      BY <1>m, <2>0, <3>1
  <2>2. CASE n # 1
    <3>1. n - 1 \in 1..Window
      BY <2>2, Bounds
    <3>2. less[n - 1] = seen[n - 1 - 1] /\ seen[n - 1 - 1] <= seen[n - 1]
      BY <1>m, <3>1 DEF SpanOf
    <3> QED
      BY <2>0, <3>2
  <2> QED
    BY <2>1, <2>2
<1>5. /\ less[Window] = seen[Window - 1] /\ less[Window] <= seen[Window]
      /\ seen[Window - 1] \in Nat /\ seen[Window] \in Nat
  BY <1>m, <1>2 DEF SpanOf
<1>6. ASSUME f.count = 0 \/ f.age > Window PROVE less[Window] <= Overshoot - 1
  <2>1. CASE e.count = 0 \/ e.age > Window
    <3>1. seen[Window] <= Overshoot - 1
      BY <2>1 DEF SpanOf
    <3> QED
      BY <1>5, <3>1, Bounds
  <2>2. CASE ~(e.count = 0 \/ e.age > Window)
    <3>1. e.count > 0 /\ f.count = e.count /\ f.age = e.age + 1 /\ e.age <= Window
      BY <1>2, <2>2, Bounds DEF Older
    <3>2. e.age = Window
      BY <1>2, <1>6, <3>1, Bounds
    <3>3. seen[Window - 1] <= e.count - 1
      BY <1>2, <3>1, <3>2, Bounds DEF SpanOf
    <3> QED
      BY <1>2, <1>5, <3>3, Bounds
  <2> QED
    BY <2>1, <2>2
<1>7. ASSUME f.count > 0, f.age <= Window
      PROVE  /\ less[f.age] <= f.count
             /\ f.age > 0 => less[f.age - 1] <= f.count - 1
             /\ less[Window] <= less[f.age] + Overshoot - 1
  <2>1. e.count > 0 /\ f.count = e.count /\ e.age < Window /\ f.age = e.age + 1
    <3>1. e.count # 0
      BY <1>7 DEF None
    <3> QED
      BY <1>2, <1>7, <3>1, Bounds DEF Older
  <2>2. /\ seen[e.age] <= e.count
        /\ e.age > 0 => seen[e.age - 1] <= e.count - 1
        /\ seen[Window] <= seen[e.age] + Overshoot - 1
    BY <1>2, <2>1, Bounds DEF SpanOf
  <2>3. f.age \in 1..Window /\ f.age - 1 = e.age /\ e.age \in 0..Window /\ seen[e.age] \in Nat
    BY <1>m, <1>2, <2>1, Bounds
  <2>4. less[f.age] = seen[e.age]
    BY <1>m, <2>3
  <2>5. less[e.age] <= e.count - 1
    <3>1. CASE e.age = 0
      BY <1>m, <1>2, <2>1, <3>1
    <3>2. CASE e.age > 0
      <4>1. e.age \in 1..Window
        BY <2>3, <3>2
      <4> QED
        BY <1>m, <2>2, <3>2, <4>1
    <3> QED
      BY <1>2, <3>1, <3>2
  <2>6. less[f.age] <= f.count /\ less[f.age - 1] <= f.count - 1
    BY <2>1, <2>2, <2>3, <2>4, <2>5
  <2>7. less[Window] <= less[f.age] + Overshoot - 1
    <3>1. \A x, y, z, b \in Nat : x <= y /\ y <= z + b - 1 => x <= z + b - 1
      OBVIOUS
    <3> QED
      BY <1>5, <2>2, <2>3, <2>4, <3>1, Bounds
  <2> QED
    BY <2>6, <2>7
<1>8. SpanOf(f, less)
  BY <1>m, <1>4, <1>6, <1>7 DEF SpanOf
<1> QED
  BY <1>8 DEF less

\* An entry that has run out has left no failure of this unit.
LEMMA SpanOfSweep ==
    ASSUME NEW e \in Entry, NEW seen, SpanOf(e, seen), Expired(e)
    PROVE  SpanOf(None, seen)
BY Bounds DEF SpanOf, None, Expired

LEMMA SpanStep ==
    ASSUME BurstInv, TallyInv', [Next]_vars
    PROVE  (recent \in [Keys -> [0..Window -> Nat]])' /\ Spans'
<1>t. \A k \in Keys : /\ failures[k] \in Entry /\ recent[k] \in [0..Window -> Nat]
                      /\ failures[k].count \in Nat /\ failures[k].count <= Overshoot
                      /\ failures[k].age \in 0..Window + 1
                      /\ failures[k].count = 0 => failures[k].age = 0
                      /\ SpanOf(failures[k], recent[k])
  BY DEF Spans, BurstInv, TallyInv, RoomLeft, DoorInv, RefusedByEntry, Entry
<1>n. None \in Entry /\ None.count = 0 /\ None.age = 0
  BY Bounds DEF None, Entry
<1>g. ASSUME recent' = [k \in Keys |-> recent'[k]],
             \A k \in Keys : recent'[k] \in [0..Window -> Nat] /\ SpanOf(failures'[k], recent'[k])
      PROVE  (recent \in [Keys -> [0..Window -> Nat]])' /\ Spans'
  <2>1. Spans' <=> \A k \in Keys : SpanOf(failures'[k], recent'[k])
    BY DEF Spans, SpanOf
  <2> QED
    BY <1>g, <2>1
<1>r. recent = [k \in Keys |-> recent[k]]
  BY DEF BurstInv
<1>s. ASSUME NEW looked \in SUBSET Keys, NEW k \in Keys
      PROVE  /\ SpanOf(Swept(looked)[k], recent[k]) /\ Swept(looked)[k] \in Entry
             /\ Swept(looked)[k].count = 0 => Swept(looked)[k].age = 0
             /\ k \in looked => Swept(looked)[k].age <= Window
  <2>1. Swept(looked)[k] = IF k \in looked /\ Expired(failures[k]) THEN None ELSE failures[k]
    BY DEF Swept
  <2>2. CASE k \in looked /\ Expired(failures[k])
    BY <1>n, <1>t, <2>1, <2>2, SpanOfSweep, Bounds
  <2>3. CASE ~(k \in looked /\ Expired(failures[k]))
    BY <1>t, <2>1, <2>3, Bounds DEF Expired
  <2> QED
    BY <2>2, <2>3
<1>1. ASSUME NEW a \in Attempts, NEW keys \in Targets, SignIn(a, keys)
      PROVE  (recent \in [Keys -> [0..Window -> Nat]])' /\ Spans'
  <2>1. keys \in SUBSET Keys /\ failures' = Swept(keys) /\ recent' = recent
    BY <1>1 DEF SignIn, Keys
  <2>2. \A k \in Keys : SpanOf(Swept(keys)[k], recent[k])
    BY <1>s, <2>1
  <2> QED
    BY <1>g, <1>r, <1>t, <2>1, <2>2
<1>2. ASSUME NEW a \in Attempts, SignInFails(a)
      PROVE  (recent \in [Keys -> [0..Window -> Nat]])' /\ Spans'
  <2>1. /\ failures' = [k \in Keys |-> LET e == Swept(Keys)[k] IN
                                       IF k \in attempt[a].keys THEN Counted(e) ELSE e]
        /\ recent' = [k \in Keys |-> IF k \in attempt[a].keys
                                     THEN [n \in 0..Window |-> recent[k][n] + 1] ELSE recent[k]]
    BY <1>2 DEF SignInFails
  <2>2. ASSUME NEW k \in Keys
        PROVE  recent'[k] \in [0..Window -> Nat] /\ SpanOf(failures'[k], recent'[k])
    <3>1. CASE k \in attempt[a].keys
      <4>1. failures'[k] = Counted(Swept(Keys)[k]) /\ recent'[k] = OneMore(recent[k])
        BY <2>1, <3>1 DEF OneMore
      <4>2. /\ SpanOf(Swept(Keys)[k], recent[k]) /\ Swept(Keys)[k] \in Entry
            /\ Swept(Keys)[k].count = 0 => Swept(Keys)[k].age = 0
            /\ Swept(Keys)[k].age <= Window
        BY <1>s
      <4> QED
        BY <1>t, <4>1, <4>2, SpanOfFailure, SpansAreNumbers
    <3>2. CASE k \notin attempt[a].keys
      BY <1>s, <1>t, <2>1, <3>2
    <3> QED
      BY <3>1, <3>2
  <2>3. recent' = [k \in Keys |-> recent'[k]]
    BY <2>1
  <2> QED
    BY <1>g, <2>2, <2>3
<1>3. ASSUME NEW a \in Attempts, SignInSucceeds(a)
      PROVE  (recent \in [Keys -> [0..Window -> Nat]])' /\ Spans'
  <2>1. /\ failures' = [k \in Keys |-> IF k \in attempt[a].keys THEN None ELSE failures[k]]
        /\ recent' = [k \in Keys |-> IF k \in attempt[a].keys THEN NoneRecent ELSE recent[k]]
    BY <1>3 DEF SignInSucceeds
  <2>2. \A k \in Keys : recent'[k] \in [0..Window -> Nat] /\ SpanOf(failures'[k], recent'[k])
    BY <1>t, <2>1, NoSpan
  <2>3. recent' = [k \in Keys |-> recent'[k]]
    BY <2>1
  <2> QED
    BY <1>g, <2>2, <2>3
<1>4. CASE Tick
  <2>1. /\ failures' = [k \in Keys |-> IF failures[k].count = 0 THEN None
                                       ELSE [failures[k] EXCEPT !.age = Older(@, Window + 1)]]
        /\ recent' = [k \in Keys |-> [n \in 0..Window |-> IF n = 0 THEN 0 ELSE recent[k][n - 1]]]
    BY <1>4 DEF Tick
  <2>2. ASSUME NEW k \in Keys
        PROVE  recent'[k] \in [0..Window -> Nat] /\ SpanOf(failures'[k], recent'[k])
    <3>1. recent'[k] = Shifted(recent[k])
      BY <2>1 DEF Shifted
    <3>3. failures'[k] = IF failures[k].count = 0 THEN None
                         ELSE [count |-> failures[k].count, age |-> Older(failures[k].age, Window + 1)]
      BY <1>t, <2>1 DEF Entry
    <3>4. failures'[k] \in Entry
      BY DEF TallyInv, DoorInv
    <3> QED
      BY <1>t, <3>1, <3>3, <3>4, SpanOfTick, SpansAreNumbers
  <2>3. recent' = [k \in Keys |-> recent'[k]]
    BY <2>1
  <2> QED
    BY <1>g, <2>2, <2>3
<1>5. CASE Restart
  <2>1. failures' = [k \in Keys |-> None] /\ recent' = [k \in Keys |-> NoneRecent]
    BY <1>5 DEF Restart
  <2>2. \A k \in Keys : recent'[k] \in [0..Window -> Nat] /\ SpanOf(failures'[k], recent'[k])
    BY <2>1, NoSpan
  <2>3. recent' = [k \in Keys |-> recent'[k]]
    BY <2>1
  <2> QED
    BY <1>g, <2>2, <2>3
<1>6. CASE UNCHANGED <<failures, recent>>
  BY <1>6, <1>g, <1>r, <1>t
<1>7. ASSUME NEW a \in Attempts, SignInError(a) PROVE UNCHANGED <<failures, recent>>
  BY <1>7 DEF SignInError
<1>8. ASSUME NEW s \in Slots, \/ \E u \in Attendees, age \in 0..2 * Step \union {Guess} : CheckinRead(s, u, age)
                              \/ CheckinRefused(s) \/ CheckinAccepted(s) \/ CheckinError(s)
      PROVE  UNCHANGED <<failures, recent>>
  BY <1>8 DEF CheckinRead, CheckinRefused, CheckinAccepted, CheckinError, door
<1> QED
  BY <1>1, <1>2, <1>3, <1>4, <1>5, <1>6, <1>7, <1>8 DEF Next, vars, door

LEMMA BurstInit ==
    ASSUME Init
    PROVE  BurstInv
<1>1. TallyInv
  BY TallyInit
<1>2. recent \in [Keys -> [0..Window -> Nat]] /\ \A k \in Keys : SpanOf(failures[k], recent[k])
  BY NoSpan DEF Init
<1> QED
  BY <1>1, <1>2 DEF Spans, BurstInv

\* However many attempts are in flight and whenever they end, no key collects
\* more than two entries' worth of failures, less one, within one window
\* (loginThrottle.js:25-45, auth.js:199-223).
THEOREM BurstsAreBounded == Spec => []BurstBound
<1>1. Init => BurstInv
  BY BurstInit
<1>2. BurstInv /\ [Next]_vars => BurstInv'
  BY TallyStep, SpanStep DEF BurstInv
<1>3. BurstInv => BurstBound
  <2> SUFFICES ASSUME BurstInv, NEW k \in Keys PROVE recent[k][Window] <= 2 * Overshoot - 1
    BY DEF BurstBound
  <2>1. /\ SpanOf(failures[k], recent[k])
        /\ failures[k].count \in Nat /\ failures[k].count <= Overshoot /\ failures[k].age \in 0..Window + 1
        /\ \A n \in 0..Window : recent[k][n] \in Nat
    BY DEF Spans, BurstInv, TallyInv, RoomLeft, DoorInv, Entry
  <2>2. CASE failures[k].count = 0 \/ failures[k].age > Window
    BY <2>1, <2>2, Bounds DEF SpanOf
  <2>3. CASE failures[k].count > 0 /\ failures[k].age <= Window
    <3>1. /\ recent[k][failures[k].age] <= failures[k].count
          /\ recent[k][Window] <= recent[k][failures[k].age] + Overshoot - 1
          /\ recent[k][Window] \in Nat /\ recent[k][failures[k].age] \in Nat
      BY <2>1, <2>3, Bounds DEF SpanOf
    <3> QED
      BY <2>1, <3>1, Bounds
  <2> QED
    BY <2>1, <2>2, <2>3, Bounds
<1> QED
  BY <1>1, <1>2, <1>3, PTL DEF Spec

-----------------------------------------------------------------------------
(* The budget of check-in misses *)

Stamps == Seq(0..CheckinWindow)

\* The oldest miss comes first.
InOrder(s) == \A i, j \in DOMAIN s : i <= j => s[i] >= s[j]

Dead(s) == {i \in DOMAIN s : s[i] >= CheckinWindow}

BudgetInv ==
    /\ misses \in [Attendees -> Stamps]
    /\ \A u \in Attendees : InOrder(misses[u]) /\ Len(Live(misses[u])) <= CheckinMax

LEMMA Budget == CheckinWindow \in Nat /\ CheckinWindow >= 1 /\ CheckinMax \in Nat /\ CheckinMax >= 1
BY WindowsArePositive

\* The stamps that have gone by can be counted.
LEMMA DeadStamps ==
    ASSUME NEW s \in Stamps
    PROVE  /\ IsFiniteSet(Dead(s)) /\ Cardinality(Dead(s)) \in 0..Len(s)
           /\ Len(s) \in Nat /\ DOMAIN s = 1..Len(s)
<1>1. Len(s) \in Nat /\ DOMAIN s = 1..Len(s)
  BY LenProperties DEF Stamps
<1>2. IsFiniteSet(1..Len(s)) /\ Cardinality(1..Len(s)) = Len(s)
  <2>1. 1 \in Int /\ Len(s) \in Int
    BY <1>1
  <2>2. /\ IsFiniteSet(1..Len(s))
        /\ Cardinality(1..Len(s)) = IF 1 > Len(s) THEN 0 ELSE Len(s) - 1 + 1
    BY <2>1, FS_Interval
  <2>3. \A n \in Nat : (IF 1 > n THEN 0 ELSE n - 1 + 1) = n
    OBVIOUS
  <2> QED
    BY <1>1, <2>2, <2>3
<1>3. Dead(s) \in SUBSET (1..Len(s))
  BY <1>1 DEF Dead
<1>4. IsFiniteSet(Dead(s)) /\ Cardinality(Dead(s)) <= Len(s)
  BY <1>2, <1>3, FS_Subset
<1>5. Cardinality(Dead(s)) \in Nat
  BY <1>4, FS_CardinalityType
<1> QED
  BY <1>1, <1>4, <1>5

\* Live drops the first stamps, as many as have gone by, and keeps the order.
LEMMA LiveStamps ==
    ASSUME NEW s \in Stamps, InOrder(s)
    PROVE  /\ Live(s) \in Stamps /\ InOrder(Live(s))
           /\ Len(Live(s)) \in Nat
           /\ Len(Live(s)) = Len(s) - Cardinality(Dead(s)) /\ Len(Live(s)) <= Len(s)
<1> DEFINE c == Cardinality(Dead(s))
           l == SubSeq(s, c + 1, Len(s))
<1>1. c \in 0..Len(s) /\ Len(s) \in Nat /\ DOMAIN s = 1..Len(s)
  BY DeadStamps
<1>2. Live(s) = l
  BY DEF Live, Dead
<1> HIDE DEF c
<1>3. \A i \in c + 1..Len(s) : i \in DOMAIN s
  BY <1>1
<1>4. \A i \in c + 1..Len(s) : s[i] \in 0..CheckinWindow
  BY <1>1, <1>3, ElementOfSeq DEF Stamps
<1>5. /\ l \in Stamps
      /\ Len(l) = IF c + 1 <= Len(s) THEN Len(s) - (c + 1) + 1 ELSE 0
      /\ \A i \in 1..Len(s) - (c + 1) + 1 : l[i] = s[c + 1 + i - 1]
  BY <1>1, <1>4, SubSeqProperties DEF Stamps
<1> HIDE DEF l
<1>6. Len(l) = Len(s) - c /\ Len(l) \in Nat /\ Len(l) <= Len(s)
  <2>1. \A n \in Nat : \A m \in 0..n :
            /\ (IF m + 1 <= n THEN n - (m + 1) + 1 ELSE 0) = n - m
            /\ n - m \in Nat /\ n - m <= n
    OBVIOUS
  <2> QED
    BY <1>1, <1>5, <2>1
<1>7. DOMAIN l = 1..Len(l)
  BY <1>5, LenProperties DEF Stamps
<1>8. ASSUME NEW i \in DOMAIN l, NEW j \in DOMAIN l, i <= j PROVE l[i] >= l[j]
  <2>1. i \in Nat /\ j \in Nat /\ i >= 1 /\ j >= 1 /\ i <= Len(s) - c /\ j <= Len(s) - c
    BY <1>6, <1>7, <1>8
  <2>2. Len(s) - (c + 1) + 1 = Len(s) - c /\ c + 1 + i - 1 = c + i /\ c + 1 + j - 1 = c + j
    BY <1>1, <2>1
  <2>3. l[i] = s[c + i] /\ l[j] = s[c + j]
    <3>1. i \in 1..Len(s) - (c + 1) + 1 /\ j \in 1..Len(s) - (c + 1) + 1
      BY <1>6, <1>7, <2>2
    <3>2. l[i] = s[c + 1 + i - 1] /\ l[j] = s[c + 1 + j - 1]
      BY <1>5, <3>1
    <3> QED
      BY <2>2, <3>2
  <2>4. c + i \in DOMAIN s /\ c + j \in DOMAIN s /\ c + i <= c + j
    BY <1>1, <1>8, <2>1
  <2> QED
    BY <2>3, <2>4 DEF InOrder
<1> QED
  BY <1>2, <1>5, <1>6, <1>8 DEF InOrder, c

\* A new miss is the youngest; of fewer than the budget, it is within it.
LEMMA OneMoreMiss ==
    ASSUME NEW s \in Stamps, InOrder(s)
    PROVE  /\ Append(s, 0) \in Stamps /\ InOrder(Append(s, 0))
           /\ Len(Live(Append(s, 0))) <= Len(s) + 1 /\ Len(Live(Append(s, 0))) \in Nat
<1> DEFINE t == Append(s, 0)
<1>1. 0 \in 0..CheckinWindow /\ s \in Seq(0..CheckinWindow)
  BY Budget DEF Stamps
<1>2. /\ t \in Stamps /\ Len(t) = Len(s) + 1
      /\ \A i \in 1..Len(s) : t[i] = s[i]
      /\ t[Len(s) + 1] = 0
  BY <1>1, AppendProperties DEF Stamps
<1> HIDE DEF t
<1>3. Len(s) \in Nat /\ DOMAIN s = 1..Len(s) /\ DOMAIN t = 1..Len(s) + 1
  BY <1>2, DeadStamps
<1>4. ASSUME NEW i \in DOMAIN t, NEW j \in DOMAIN t, i <= j PROVE t[i] >= t[j]
  <2>1. t[i] \in Nat
    BY <1>2, <1>3, ElementOfSeq, Budget DEF Stamps
  <2>2. CASE j = Len(s) + 1
    BY <1>2, <2>1, <2>2
  <2>3. CASE j # Len(s) + 1
    <3>1. i \in 1..Len(s) /\ j \in 1..Len(s)
      BY <1>3, <1>4, <2>3
    <3> QED
      BY <1>2, <1>3, <1>4, <3>1 DEF InOrder
  <2> QED
    BY <2>2, <2>3
<1>5. InOrder(t)
  BY <1>4 DEF InOrder
<1>6. Len(Live(t)) <= Len(s) + 1 /\ Len(Live(t)) \in Nat
  BY <1>2, <1>5, LiveStamps
<1> QED
  BY <1>2, <1>5, <1>6 DEF t

\* A unit later no stamp that had gone by is live again.
LEMMA OlderStamps ==
    ASSUME NEW s \in Stamps, InOrder(s),
           NEW t, t = [i \in DOMAIN s |-> Older(s[i], CheckinWindow)]
    PROVE  /\ t \in Stamps /\ InOrder(t)
           /\ Len(Live(t)) <= Len(Live(s)) /\ Len(Live(t)) \in Nat /\ Len(Live(s)) \in Nat
<1>1. Len(s) \in Nat /\ DOMAIN s = 1..Len(s) /\ IsFiniteSet(Dead(s)) /\ Cardinality(Dead(s)) \in 0..Len(s)
  BY DeadStamps
<1>2. \A i \in DOMAIN s : s[i] \in 0..CheckinWindow
  BY <1>1, ElementOfSeq DEF Stamps
<1>3. \A i \in DOMAIN s : /\ t[i] \in 0..CheckinWindow
                          /\ s[i] >= CheckinWindow => t[i] >= CheckinWindow
  BY <1>2, Budget DEF Older
<1>4. t \in [1..Len(s) -> 0..CheckinWindow]
  BY <1>1, <1>3
<1>5. t \in Stamps
  BY <1>1, <1>4, SeqDef DEF Stamps
<1>6. DOMAIN t = DOMAIN s /\ Len(t) = Len(s)
  <2>1. DOMAIN t = 1..Len(s) /\ DOMAIN t = 1..Len(t) /\ Len(t) \in Nat
    BY <1>4, <1>5, DeadStamps
  <2>2. Len(t) = Len(s)
    BY <1>1, <2>1
  <2> QED
    BY <1>1, <2>1, <2>2
<1>7. InOrder(t)
  <2> SUFFICES ASSUME NEW i \in DOMAIN s, NEW j \in DOMAIN s, i <= j PROVE t[i] >= t[j]
    BY <1>6 DEF InOrder
  <2>1. s[i] >= s[j] /\ s[i] \in 0..CheckinWindow /\ s[j] \in 0..CheckinWindow
    BY <1>2 DEF InOrder
  <2>2. t[i] = Older(s[i], CheckinWindow) /\ t[j] = Older(s[j], CheckinWindow)
    OBVIOUS
  <2> QED
    BY <2>1, <2>2, Budget DEF Older
<1>8. Dead(s) \in SUBSET Dead(t)
  BY <1>3, <1>6 DEF Dead
<1>9. /\ IsFiniteSet(Dead(t)) /\ Cardinality(Dead(t)) \in 0..Len(s)
      /\ Cardinality(Dead(s)) <= Cardinality(Dead(t))
  BY <1>5, <1>6, <1>8, DeadStamps, FS_Subset
<1>10. /\ Len(Live(s)) = Len(s) - Cardinality(Dead(s)) /\ Len(Live(s)) \in Nat
       /\ Len(Live(t)) = Len(s) - Cardinality(Dead(t)) /\ Len(Live(t)) \in Nat
  BY <1>5, <1>6, <1>7, LiveStamps
<1>11. Len(Live(t)) <= Len(Live(s))
  BY <1>1, <1>9, <1>10
<1> QED
  BY <1>5, <1>7, <1>10, <1>11

LEMMA NoStamps == <<>> \in Stamps /\ InOrder(<<>>) /\ Len(Live(<<>>)) <= CheckinMax
<1>1. <<>> \in Stamps /\ Len(<<>>) = 0
  BY EmptySeq DEF Stamps
<1>2. DOMAIN <<>> = {}
  OBVIOUS
<1>3. InOrder(<<>>)
  BY <1>2 DEF InOrder
<1>4. Len(Live(<<>>)) \in Nat /\ Len(Live(<<>>)) <= 0
  BY <1>1, <1>3, LiveStamps
<1> QED
  BY <1>1, <1>3, <1>4, Budget

LEMMA BudgetStep ==
    ASSUME BudgetInv, CodeInv, [Next]_vars
    PROVE  BudgetInv'
<1> DEFINE Kept(t) == t \in Stamps /\ InOrder(t) /\ Len(Live(t)) <= CheckinMax
<1>t. \A u \in Attendees : Kept(misses[u])
  BY DEF BudgetInv
<1>g. ASSUME misses' = [u \in Attendees |-> misses'[u]], \A u \in Attendees : Kept(misses'[u])
      PROVE  BudgetInv'
  <2>1. misses' \in [Attendees -> Stamps]
    BY <1>g
  <2> QED
    BY <1>g, <2>1 DEF BudgetInv, Live, InOrder
<1>r. misses = [u \in Attendees |-> misses[u]]
  BY DEF BudgetInv
<1>e. Kept(<<>>)
  BY NoStamps
<1>l. ASSUME NEW u \in Attendees
      PROVE  /\ Kept(Live(misses[u]))
             /\ Len(Live(misses[u])) < CheckinMax => Kept(Append(Live(misses[u]), 0))
  <2>1. misses[u] \in Stamps /\ InOrder(misses[u]) /\ Len(Live(misses[u])) <= CheckinMax
    BY <1>t
  <2>2. Live(misses[u]) \in Stamps /\ InOrder(Live(misses[u])) /\ Len(Live(misses[u])) \in Nat
    BY <2>1, LiveStamps
  <2>3. Len(Live(Live(misses[u]))) <= Len(Live(misses[u])) /\ Len(Live(Live(misses[u]))) \in Nat
    BY <2>2, LiveStamps
  <2>4. /\ Append(Live(misses[u]), 0) \in Stamps /\ InOrder(Append(Live(misses[u]), 0))
        /\ Len(Live(Append(Live(misses[u]), 0))) <= Len(Live(misses[u])) + 1
        /\ Len(Live(Append(Live(misses[u]), 0))) \in Nat
    BY <2>2, OneMoreMiss
  <2>5. Len(Live(Live(misses[u]))) <= CheckinMax
    BY <2>1, <2>2, <2>3, Budget
  <2>6. Len(Live(misses[u])) < CheckinMax => Len(Live(Append(Live(misses[u]), 0))) <= CheckinMax
    BY <2>2, <2>4, Budget
  <2> QED
    BY <2>2, <2>4, <2>5, <2>6
<1>w. \A s \in Slots : checkin[s] # Idle => checkin[s].who \in Attendees
  BY DEF CodeInv
<1> HIDE DEF Kept
<1>1. ASSUME NEW s \in Slots, CheckinRefused(s) PROVE BudgetInv'
  <2> DEFINE u == checkin[s].who
  <2>1. u \in Attendees
    BY <1>1, <1>w DEF CheckinRefused
  <2>2. misses' = [misses EXCEPT ![u] = IF Open(s) THEN Append(Live(misses[u]), 0) ELSE Live(misses[u])]
    BY <1>1 DEF CheckinRefused
  <2>3. Open(s) <=> Len(Live(misses[u])) < CheckinMax
    BY DEF Open
  <2> HIDE DEF u
  <2>4. misses'[u] = IF Open(s) THEN Append(Live(misses[u]), 0) ELSE Live(misses[u])
    BY <1>r, <2>1, <2>2
  <2>5. Kept(misses'[u])
    BY <1>l, <2>1, <2>3, <2>4
  <2>6. \A v \in Attendees \ {u} : misses'[v] = misses[v]
    BY <1>r, <2>2
  <2>7. misses' = [v \in Attendees |-> misses'[v]]
    BY <1>r, <2>2
  <2> QED
    BY <1>g, <1>t, <2>5, <2>6, <2>7
<1>2. ASSUME NEW s \in Slots, CheckinAccepted(s) PROVE BudgetInv'
  <2>1. misses' = [misses EXCEPT ![checkin[s].who] = <<>>]
    BY <1>2 DEF CheckinAccepted
  <2>2. \A v \in Attendees : misses'[v] = <<>> \/ misses'[v] = misses[v]
    BY <1>r, <2>1
  <2>3. misses' = [v \in Attendees |-> misses'[v]]
    BY <1>r, <2>1
  <2>4. \A v \in Attendees : Kept(misses'[v])
    BY <1>e, <1>t, <2>2
  <2> QED
    BY <1>g, <2>3, <2>4
<1>3. CASE Tick
  <2>1. misses' = [u \in Attendees |-> [i \in DOMAIN misses[u] |-> Older(misses[u][i], CheckinWindow)]]
    BY <1>3 DEF Tick
  <2>2. ASSUME NEW u \in Attendees PROVE Kept(misses'[u])
    <3>1. misses'[u] = [i \in DOMAIN misses[u] |-> Older(misses[u][i], CheckinWindow)]
      BY <2>1
    <3>2. misses[u] \in Stamps /\ InOrder(misses[u]) /\ Len(Live(misses[u])) <= CheckinMax
      BY DEF BudgetInv
    <3>3. /\ misses'[u] \in Stamps /\ InOrder(misses'[u])
          /\ Len(Live(misses'[u])) <= Len(Live(misses[u]))
          /\ Len(Live(misses'[u])) \in Nat /\ Len(Live(misses[u])) \in Nat
      BY <3>1, <3>2, OlderStamps
    <3>4. Len(Live(misses'[u])) <= CheckinMax
      BY <3>2, <3>3, Budget
    <3> QED
      BY <3>3, <3>4 DEF Kept
  <2>3. misses' = [u \in Attendees |-> misses'[u]]
    BY <2>1
  <2> QED
    BY <1>g, <2>2, <2>3
<1>4. CASE Restart
  <2>1. misses' = [u \in Attendees |-> <<>>]
    BY <1>4 DEF Restart
  <2> QED
    BY <1>e, <1>g, <2>1
<1>5. CASE UNCHANGED misses
  BY <1>5, <1>g, <1>r, <1>t
<1>6. ASSUME NEW a \in Attempts, \/ \E keys \in Targets : SignIn(a, keys)
                                 \/ SignInFails(a) \/ SignInSucceeds(a) \/ SignInError(a)
      PROVE  UNCHANGED misses
  BY <1>6 DEF SignIn, SignInFails, SignInSucceeds, SignInError, event
<1>7. ASSUME NEW s \in Slots, \/ \E u \in Attendees, age \in 0..2 * Step \union {Guess} : CheckinRead(s, u, age)
                              \/ CheckinError(s)
      PROVE  UNCHANGED misses
  BY <1>7 DEF CheckinRead, CheckinError
<1> QED
  BY <1>1, <1>2, <1>3, <1>4, <1>5, <1>6, <1>7 DEF Next, vars, event

LEMMA BudgetIsKept == Spec => []BudgetInv
<1>1. Init => CodeInv /\ BudgetInv
  <2> SUFFICES ASSUME Init PROVE CodeInv /\ BudgetInv
    OBVIOUS
  <2>1. CodeInv
    BY Units DEF Init, CodeInv
  <2>2. misses = [u \in Attendees |-> <<>>]
    BY DEF Init
  <2> QED
    BY <2>1, <2>2, NoStamps DEF BudgetInv
<1>2. CodeInv /\ BudgetInv /\ [Next]_vars => (CodeInv /\ BudgetInv)'
  BY CodeStep, BudgetStep
<1> QED
  BY <1>1, <1>2, PTL DEF Spec

\* For any budget and any window, and however many check-ins of one attendee
\* overlap, no more misses than the budget ever count at once (tasks.js:401-432).
THEOREM MissesStayInBudget == Spec => []CheckinBudget
<1>1. BudgetInv => CheckinBudget
  BY DEF BudgetInv, CheckinBudget
<1> QED
  BY <1>1, BudgetIsKept, PTL

-----------------------------------------------------------------------------
(* The types *)

AttendedInv == attended \subseteq Attendees

LEMMA AttendedStep ==
    ASSUME AttendedInv, CodeInv, [Next]_vars
    PROVE  AttendedInv'
<1>1. ASSUME NEW s \in Slots, CheckinAccepted(s) PROVE AttendedInv'
  <2>1. checkin[s].who \in Attendees
    BY <1>1 DEF CheckinAccepted, CodeInv
  <2> QED
    BY <1>1, <2>1 DEF CheckinAccepted, AttendedInv
<1>2. CASE UNCHANGED attended
  BY <1>2 DEF AttendedInv
<1>3. ASSUME NEW a \in Attempts, \/ \E keys \in Targets : SignIn(a, keys)
                                 \/ SignInFails(a) \/ SignInSucceeds(a) \/ SignInError(a)
      PROVE  UNCHANGED attended
  BY <1>3 DEF SignIn, SignInFails, SignInSucceeds, SignInError, event
<1>4. ASSUME NEW s \in Slots, \/ \E u \in Attendees, age \in 0..2 * Step \union {Guess} : CheckinRead(s, u, age)
                              \/ CheckinRefused(s) \/ CheckinError(s)
      PROVE  UNCHANGED attended
  BY <1>4 DEF CheckinRead, CheckinRefused, CheckinError
<1>5. ASSUME Tick \/ Restart PROVE UNCHANGED attended
  BY <1>5 DEF Tick, Restart
<1> QED
  BY <1>1, <1>2, <1>3, <1>4, <1>5 DEF Next, vars, event

\* An entry counts no more failures than the budget and the attempts in flight
\* allow, and stamps stay in order, for any number of attempts and check-ins in
\* flight (loginThrottle.js:12-45, tasks.js:404-420).
THEOREM Typing == Spec => []TypeOK
<1>1. Init => BurstInv /\ CodeInv /\ AttendedInv
  <2> SUFFICES ASSUME Init PROVE BurstInv /\ CodeInv /\ AttendedInv
    OBVIOUS
  <2>1. CodeInv /\ AttendedInv
    BY Units DEF Init, CodeInv, AttendedInv
  <2> QED
    BY <2>1, BurstInit
<1>2. BurstInv /\ CodeInv /\ AttendedInv /\ [Next]_vars => (BurstInv /\ CodeInv /\ AttendedInv)'
  BY TallyStep, SpanStep, CodeStep, AttendedStep DEF BurstInv
<1>3. BurstInv /\ CodeInv /\ AttendedInv /\ BudgetInv => TypeOK
  <2> SUFFICES ASSUME BurstInv, CodeInv, AttendedInv, BudgetInv PROVE TypeOK
    OBVIOUS
  <2>1. failures \in [Keys -> [count : 0..Overshoot, age : 0..Window + 1]]
    <3>1. ASSUME NEW k \in Keys PROVE failures[k] \in [count : 0..Overshoot, age : 0..Window + 1]
      <4>1. failures[k] \in Entry /\ failures[k].count <= Overshoot
        BY DEF BurstInv, TallyInv, DoorInv, RoomLeft
      <4>2. failures[k].count \in 0..Overshoot
        BY <4>1, Bounds DEF Entry
      <4> QED
        BY <4>1, <4>2 DEF Entry
    <3> QED
      BY <3>1 DEF BurstInv, TallyInv, DoorInv
  <2>2. attempt \in [Attempts -> {Idle} \union [at : {"verify"}, keys : Targets, slept : BOOLEAN]]
    BY DEF BurstInv, TallyInv, SignInAttempt
  <2>3. /\ misses \in [Attendees -> Seq(0..CheckinWindow)]
        /\ \A u \in Attendees : \A i, j \in DOMAIN misses[u] : i <= j => misses[u][i] >= misses[u][j]
    BY DEF BudgetInv, Stamps, InOrder
  <2>4. /\ checkin \in [Slots -> {Idle} \union [at : {"judge"}, who : Attendees,
                                                age : 0..2 * Step \union {Guess}]]
        /\ phase \in 0..Step - 1
    BY DEF CodeInv, Ages
  <2>5. recent \in [Keys -> [0..Window -> Nat]] /\ shut \in [Keys -> 0..Window + 1]
    BY DEF BurstInv, TallyInv, DoorInv
  <2> QED
    BY <2>1, <2>2, <2>3, <2>4, <2>5 DEF TypeOK, AttendedInv
<1> QED
  BY <1>1, <1>2, <1>3, BudgetIsKept, PTL DEF Spec

=============================================================================
