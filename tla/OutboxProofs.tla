---------------------------- MODULE OutboxProofs ----------------------------
(***************************************************************************)
(* No mail goes out twice but for an answer the process lost: for any      *)
(* number of mails, handlers, mishaps and any retry batch.                 *)
(***************************************************************************)
EXTENDS Outbox, TLAPS

\* What the rows are after an insert.
LEMMA RowsAfterInsert ==
    ASSUME NEW s \in Seq(Keys), NEW k \in Keys
    PROVE  Append(s, k) \in Seq(Keys) /\ ToSet(Append(s, k)) = ToSet(s) \union {k}
<1>1. Append(s, k) \in Seq(Keys) /\ Len(Append(s, k)) = Len(s) + 1 /\ Len(s) \in Nat
    OBVIOUS
<1>2. Append(s, k)[Len(s) + 1] = k /\ \A i \in 1..Len(s) : Append(s, k)[i] = s[i]
    OBVIOUS
<1>3. DOMAIN s = 1..Len(s) /\ DOMAIN Append(s, k) = 1..(Len(s) + 1)
    OBVIOUS
<1>4. \A i \in 1..(Len(s) + 1) : i \in 1..Len(s) \/ i = Len(s) + 1
    BY <1>1
<1>5. ASSUME NEW y \in ToSet(Append(s, k)) PROVE y \in ToSet(s) \union {k}
    BY <1>2, <1>3, <1>4, <1>5 DEF ToSet
<1>6. ASSUME NEW y \in ToSet(s) PROVE y \in ToSet(Append(s, k))
    <2>1. PICK i \in 1..Len(s) : y = s[i]
        BY <1>3, <1>6 DEF ToSet
    <2>2. i \in 1..(Len(s) + 1) /\ y = Append(s, k)[i]
        BY <1>1, <1>2, <2>1
    <2> QED
        BY <1>3, <2>2 DEF ToSet
<1>7. k \in ToSet(Append(s, k))
    <2>1. Len(s) + 1 \in 1..(Len(s) + 1)
        BY <1>1
    <2> QED
        BY <1>2, <1>3, <2>1 DEF ToSet
<1> QED
    BY <1>1, <1>5, <1>6, <1>7

\* A retry batch holds unsent rows that are no longer young.
LEMMA OldestAreRetryable ==
    ASSUME TypeOK
    PROVE  \A k \in Oldest : k \in Keys /\ k \in Rows \ sent /\ k \notin young
<1>1. \A i \in DOMAIN outbox : outbox[i] \in Keys /\ outbox[i] \in Rows
    BY DEF TypeOK, Rows, ToSet
<1> QED
    BY <1>1 DEF Oldest, Retryable

\* The scheduler is not one of the handlers.
LEMMA SendersAre == Mail \in Senders /\ Mail \notin Slots /\ Slots \subseteq Senders
BY OneScheduler DEF Senders

\* A sender is idle or at one of the three calls with a mail in hand.
LEMMA SenderStates ==
    ASSUME TypeOK, NEW x \in Senders
    PROVE  \/ send[x] = Idle /\ send[x].at = "idle"
           \/ send[x] \in Sending /\ send[x].at \in {"queue", "transport", "record"}
              /\ send[x].key \in Keys
BY DEF TypeOK, Sending, Idle

-----------------------------------------------------------------------------

LEMMA MailInit == Init => MailInv
<1> SUFFICES ASSUME Init PROVE MailInv
    OBVIOUS
<1>1. \A x \in Senders : send[x] = Idle /\ send[x].at = "idle"
    BY DEF Init, Idle
<1>2. Rows = {}
    BY DEF Init, Rows, ToSet
<1>3. TypeOK
    BY <1>2 DEF Init, TypeOK, Rounds
<1>4. \A k \in Keys : ~Recording(k) /\ \A x \in Senders : ~Holds(x, k)
    BY <1>1 DEF Recording, Holds, At
<1>5. OneDelivery /\ HandlersHoldYoung /\ RetriesAreFree
    BY <1>4, SendersAre DEF OneDelivery, HandlersHoldYoung, RetriesAreFree, Init
<1>6. Accounted
    BY <1>4 DEF Accounted, Init
<1> QED
    BY <1>3, <1>5, <1>6 DEF MailInv

\* Steps that touch neither the rows nor any delivery in flight.
LEMMA QuietStep ==
    ASSUME MailInv, TypeOK', UNCHANGED <<outbox, sent, young, send, accepted, lost>>,
           RetriesAreFree'
    PROVE  MailInv'
<1>1. Rows' = Rows
    BY DEF Rows
<1>2. \A x, k : (Holds(x, k)' <=> Holds(x, k)) /\ (Recording(k)' <=> Recording(k))
    BY DEF Holds, Recording, At
<1>3. OneDelivery'
    BY <1>1, <1>2 DEF MailInv, OneDelivery
<1>4. HandlersHoldYoung'
    BY <1>2 DEF MailInv, HandlersHoldYoung
<1>5. Accounted'
    BY <1>2 DEF MailInv, Accounted
<1> QED
    BY <1>3, <1>4, <1>5 DEF MailInv

\* A scan of the pass that finds todo.
LEMMA ScanStep ==
    ASSUME MailInv, NEW loop, NEW todo, Scan(loop, todo),
           [loop |-> loop, todo |-> todo] \in Rounds,
           loop = "retry" => todo = Oldest
    PROVE  MailInv'
<1>1. Rows' = Rows /\ round' = [loop |-> loop, todo |-> todo]
    BY DEF Scan, Enter, Rows
<1>2. TypeOK'
    BY <1>1 DEF MailInv, TypeOK, Scan
<1>3. \A k \in Oldest : k \in Keys /\ k \in Rows \ sent /\ k \notin young
    BY OldestAreRetryable DEF MailInv
<1>4. \A k \in Oldest, x \in Senders : ~Holds(x, k)
    <2> SUFFICES ASSUME NEW k \in Oldest, NEW x \in Senders, Holds(x, k) PROVE FALSE
        OBVIOUS
    <2>1. x # Mail
        BY DEF Scan, Holds, Idle
    <2>2. x \in Slots
        BY <2>1 DEF Senders
    <2> QED
        BY <1>3, <2>2 DEF MailInv, HandlersHoldYoung
<1>5. RetriesAreFree'
    BY <1>1, <1>3, <1>4 DEF RetriesAreFree, Scan, Holds
<1> QED
    BY <1>2, <1>5, QuietStep DEF Scan


\* One sender moves on and every other stays where it is.
LEMMA SendMoves ==
    ASSUME TypeOK, NEW x \in Senders, NEW v \in {Idle} \union Sending,
           send' = [send EXCEPT ![x] = v]
    PROVE  /\ send' \in [Senders -> {Idle} \union Sending]
           /\ send'[x] = v
           /\ \A y \in Senders \ {x} :
                /\ send'[y] = send[y]
                /\ \A k : Holds(y, k)' <=> Holds(y, k)
<1>1. send \in [Senders -> {Idle} \union Sending]
    BY DEF TypeOK
<1>2. send' \in [Senders -> {Idle} \union Sending] /\ send'[x] = v
    BY <1>1
<1>3. \A y \in Senders \ {x} : send'[y] = send[y]
    BY <1>1
<1> QED
    BY <1>2, <1>3 DEF Holds

\* A sender that lets go of its mail takes nothing from the others.
LEMMA ReleaseStep ==
    ASSUME MailInv, NEW x \in Senders, Done(x), UNCHANGED <<outbox, young, mail>>,
           sent' \subseteq Rows,
           \A k \in sent' : k \in sent \/ Holds(x, k)
    PROVE  /\ send' \in [Senders -> {Idle} \union Sending]
           /\ \A y \in Senders : send'[y] = IF y = x THEN Idle ELSE send[y]
           /\ OneDelivery' /\ HandlersHoldYoung' /\ RetriesAreFree'
<1> USE DEF MailInv
<1>1. send' = [send EXCEPT ![x] = Idle]
    BY DEF Done
<1>2. send' \in [Senders -> {Idle} \union Sending]
    BY <1>1, SendMoves
<1>3. \A y \in Senders : send'[y] = IF y = x THEN Idle ELSE send[y]
    BY <1>1, SendMoves
<1>4. \A y \in Senders, k \in Keys : Holds(y, k)' => y # x /\ Holds(y, k)
    BY <1>3 DEF Holds, Idle
<1>5. Rows' = Rows
    BY DEF Rows
<1>6. OneDelivery'
    BY <1>4, <1>5 DEF OneDelivery
<1>7. HandlersHoldYoung'
    BY <1>4, SendersAre DEF HandlersHoldYoung
<1>8. RetriesAreFree'
    <2>1. round' = round
        BY DEF mail
    <2>2. \A k \in round.todo : k \in Keys
        BY DEF TypeOK, Rounds, Keys, Timed
    <2>3. ASSUME round.loop = "retry", NEW k \in round.todo
          PROVE  k \in Rows \ sent' /\ k \notin young /\ \A y \in Senders : ~Holds(y, k)'
        <3>1. k \in Keys /\ k \in Rows \ sent /\ k \notin young
            BY <2>2, <2>3 DEF RetriesAreFree
        <3>2. \A y \in Senders : ~Holds(y, k)
            BY <2>3 DEF RetriesAreFree
        <3> QED
            BY <1>4, <3>1, <3>2
    <2> QED
        BY <1>5, <2>1, <2>3 DEF RetriesAreFree
<1> QED
    BY <1>2, <1>3, <1>6, <1>7, <1>8

\* Queue refused, insert failed, or transport refused: nothing else changes.
LEMMA GiveUpStep ==
    ASSUME MailInv, NEW x \in Senders, At(x, "queue") \/ At(x, "transport"), Done(x),
           UNCHANGED <<outbox, sent, young, mail, accepted, lost, mishaps>>
    PROVE  MailInv'
<1> USE DEF MailInv
<1>1. /\ send' \in [Senders -> {Idle} \union Sending]
      /\ \A y \in Senders : send'[y] = IF y = x THEN Idle ELSE send[y]
      /\ OneDelivery' /\ HandlersHoldYoung' /\ RetriesAreFree'
    BY ReleaseStep DEF TypeOK
<1>2. TypeOK'
    BY <1>1 DEF TypeOK, Rows, mail
<1>3. \A k : Recording(k)' <=> Recording(k)
    BY <1>1 DEF Recording, At, Idle
<1>4. Accounted'
    BY <1>3 DEF Accounted
<1> QED
    BY <1>1, <1>2, <1>4

LEMMA LoseAnswerStep ==
    ASSUME MailInv, NEW x \in Senders, LoseAnswer(x)
    PROVE  MailInv'
<1> USE DEF MailInv, LoseAnswer
<1>1. /\ send' \in [Senders -> {Idle} \union Sending]
      /\ \A y \in Senders : send'[y] = IF y = x THEN Idle ELSE send[y]
      /\ OneDelivery' /\ HandlersHoldYoung' /\ RetriesAreFree'
    BY ReleaseStep DEF TypeOK
<1>0. send[x].key \in Keys
    BY SenderStates DEF At
<1>2. /\ accepted' \in [Keys -> Nat] /\ lost' \in [Keys -> Nat] /\ mishaps' \in Nat
      /\ window' \in [Timed -> {"before", "open", "closed"}] /\ round' \in Rounds
    BY <1>0 DEF TypeOK, mail
<1>7. TypeOK'
    BY <1>1, <1>2 DEF TypeOK, Rows
<1>3. \A k : Recording(k)' <=> Recording(k)
    BY <1>1 DEF Recording, At, Idle
<1>4. \A k \in Keys : accepted[k] \in Nat /\ lost[k] \in Nat
    BY DEF TypeOK
<1>5. \A k \in Keys : \/ accepted'[k] = accepted[k] /\ lost'[k] = lost[k]
                      \/ accepted'[k] = accepted[k] + 1 /\ lost'[k] = lost[k] + 1
    BY DEF TypeOK
<1>6. Accounted'
    BY <1>3, <1>4, <1>5 DEF Accounted
<1> QED
    BY <1>1, <1>6, <1>7

\* Only x was recording its mail.
LEMMA OneRecords ==
    ASSUME MailInv, NEW x \in Senders, At(x, "record")
    PROVE  /\ send[x].key \in Keys /\ Holds(x, send[x].key)
           /\ send[x].key \in Rows \ sent /\ Recording(send[x].key)
           /\ \A y \in Senders : At(y, "record") /\ send[y].key = send[x].key => y = x
<1>1. send[x].key \in Keys
    BY SenderStates DEF MailInv, At, Idle
<1>2. Holds(x, send[x].key) /\ Recording(send[x].key)
    BY DEF Holds, Recording, At
<1>3. \A y \in Senders : At(y, "record") /\ send[y].key = send[x].key => Holds(y, send[x].key)
    BY DEF Holds, At
<1> QED
    BY <1>1, <1>2, <1>3 DEF MailInv, OneDelivery

LEMMA RecordSentStep ==
    ASSUME MailInv, NEW x \in Senders, RecordSent(x)
    PROVE  MailInv'
<1>0. PICK k0 : k0 = send[x].key
    OBVIOUS
<1>1. /\ k0 \in Keys /\ Holds(x, k0) /\ k0 \in Rows \ sent /\ Recording(k0)
      /\ \A y \in Senders : At(y, "record") /\ send[y].key = k0 => y = x
    BY <1>0, OneRecords DEF RecordSent
<1>2. sent' = sent \union {k0} /\ sent \subseteq Rows
    BY <1>0 DEF RecordSent, MailInv, TypeOK
<1>3. /\ send' \in [Senders -> {Idle} \union Sending]
      /\ \A y \in Senders : send'[y] = IF y = x THEN Idle ELSE send[y]
      /\ OneDelivery' /\ HandlersHoldYoung' /\ RetriesAreFree'
    BY <1>1, <1>2, ReleaseStep DEF RecordSent
<1>4. TypeOK'
    BY <1>1, <1>2, <1>3 DEF MailInv, TypeOK, Rows, mail, RecordSent
<1>5. \A k : k # k0 => (Recording(k)' <=> Recording(k))
    BY <1>0, <1>3 DEF Recording, At, Idle
<1>6. Accounted'
    BY <1>1, <1>2, <1>5 DEF MailInv, Accounted, RecordSent
<1> QED
    BY <1>3, <1>4, <1>6 DEF MailInv

LEMMA RecordFailStep ==
    ASSUME MailInv, NEW x \in Senders, RecordFail(x)
    PROVE  MailInv'
<1>0. PICK k0 : k0 = send[x].key
    OBVIOUS
<1>1. /\ k0 \in Keys /\ Holds(x, k0) /\ k0 \in Rows \ sent /\ Recording(k0)
      /\ \A y \in Senders : At(y, "record") /\ send[y].key = k0 => y = x
    BY <1>0, OneRecords DEF RecordFail
<1>2. lost' = [lost EXCEPT ![k0] = @ + 1]
    BY <1>0 DEF RecordFail
<1>3. /\ send' \in [Senders -> {Idle} \union Sending]
      /\ \A y \in Senders : send'[y] = IF y = x THEN Idle ELSE send[y]
      /\ OneDelivery' /\ HandlersHoldYoung' /\ RetriesAreFree'
    BY ReleaseStep DEF RecordFail, MailInv, TypeOK
<1>4. TypeOK'
    <2>1. lost \in [Keys -> Nat] /\ mishaps \in Nat
        BY DEF MailInv, TypeOK
    <2>2. lost' \in [Keys -> Nat]
        BY <1>1, <1>2, <2>1
    <2>3. mishaps' \in Nat
        BY <2>1 DEF RecordFail
    <2>4. round' \in Rounds /\ window' \in [Timed -> {"before", "open", "closed"}]
        BY DEF MailInv, TypeOK, RecordFail, mail
    <2> QED
        BY <1>3, <2>2, <2>3, <2>4 DEF MailInv, TypeOK, Rows, RecordFail
<1>5. \A k : k # k0 => (Recording(k)' <=> Recording(k))
    BY <1>0, <1>3 DEF Recording, At, Idle
<1>6. ~Recording(k0)'
    BY <1>0, <1>1, <1>3 DEF Recording, At, Idle
<1>7. \A k \in Keys : accepted'[k] = accepted[k] /\ lost'[k] = lost[k] + (IF k = k0 THEN 1 ELSE 0)
    BY <1>1, <1>2 DEF MailInv, TypeOK, RecordFail
<1>8. sent' = sent
    BY DEF RecordFail
<1>9. Accounted'
    <2> SUFFICES ASSUME NEW k \in Keys
                 PROVE  accepted'[k] = lost'[k] + IF k \in sent' \/ Recording(k)' THEN 1 ELSE 0
        BY DEF Accounted
    <2>1. accepted[k] \in Nat /\ lost[k] \in Nat
        BY DEF MailInv, TypeOK
    <2>2. accepted[k] = lost[k] + IF k \in sent \/ Recording(k) THEN 1 ELSE 0
        BY DEF MailInv, Accounted
    <2>3. CASE k = k0
        <3>1. k \notin sent' /\ ~Recording(k)' /\ Recording(k)
            BY <1>1, <1>6, <1>8, <2>3
        <3>2. accepted[k] = lost[k] + 1
            BY <2>2, <3>1
        <3>3. accepted'[k] = accepted[k] /\ lost'[k] = lost[k] + 1
            BY <1>7, <2>3
        <3> QED
            BY <2>1, <3>1, <3>2, <3>3
    <2>4. CASE k # k0
        BY <1>5, <1>7, <1>8, <2>1, <2>2, <2>4
    <2> QED
        BY <2>3, <2>4
<1> QED
    BY <1>3, <1>4, <1>9 DEF MailInv

LEMMA AcceptStep ==
    ASSUME MailInv, NEW x \in Senders, Accept(x)
    PROVE  MailInv'
<1>a. PICK k0 : k0 = send[x].key
    OBVIOUS
<1> DEFINE v == [at |-> "record", key |-> k0]
<1>0. TypeOK /\ send[x].at = "transport"
    BY DEF MailInv, Accept, At
<1>1. send[x] \in Sending /\ k0 \in Keys
    BY <1>a, <1>0, SenderStates DEF Idle
<1>2. Holds(x, k0)
    BY <1>a, <1>0 DEF Holds
<1>3. k0 \in Rows \ sent /\ \A y \in Senders : Holds(y, k0) => y = x
    BY <1>1, <1>2 DEF MailInv, OneDelivery
<1>4. v \in Sending /\ send' = [send EXCEPT ![x] = v]
    BY <1>a, <1>1 DEF Accept, Sending, Proceed
<1>5. accepted' = [accepted EXCEPT ![k0] = @ + 1]
    BY <1>a DEF Accept
<1>6. /\ send' \in [Senders -> {Idle} \union Sending] /\ send'[x] = v
      /\ \A y \in Senders \ {x} : send'[y] = send[y] /\ \A k : Holds(y, k)' <=> Holds(y, k)
    BY <1>0, <1>4, SendMoves
<1>7. \A y \in Senders, k \in Keys : Holds(y, k)' <=> Holds(y, k)
    BY <1>a, <1>0, <1>6 DEF Holds
<1>8. Rows' = Rows /\ sent' = sent /\ young' = young /\ round' = round /\ lost' = lost
    BY DEF Accept, Rows, mail
<1>9. TypeOK'
    BY <1>0, <1>1, <1>5, <1>6, <1>8 DEF TypeOK, Accept, mail
<1>10. OneDelivery'
    BY <1>7, <1>8 DEF MailInv, OneDelivery
<1>11. HandlersHoldYoung'
    BY <1>7, <1>8, SendersAre DEF MailInv, HandlersHoldYoung
<1>12. RetriesAreFree'
    <2>1. \A k \in round.todo : k \in Keys
        BY <1>0 DEF TypeOK, Rounds, Keys, Timed
    <2> QED
        BY <1>7, <1>8, <2>1 DEF MailInv, RetriesAreFree
<1>13. \A k : k # k0 => (Recording(k)' <=> Recording(k))
    BY <1>a, <1>0, <1>6 DEF Recording, At
<1>14. Recording(k0)'
    BY <1>6 DEF Recording, At
<1>15. ~Recording(k0)
    BY <1>0, <1>3 DEF Recording, At, Holds
<1> HIDE DEF v
<1>16. Accounted'
    <2> SUFFICES ASSUME NEW k \in Keys
                 PROVE  accepted'[k] = lost'[k] + IF k \in sent' \/ Recording(k)' THEN 1 ELSE 0
        BY DEF Accounted
    <2>1. accepted[k] \in Nat /\ lost[k] \in Nat
        BY <1>0 DEF TypeOK
    <2>2. accepted[k] = lost[k] + IF k \in sent \/ Recording(k) THEN 1 ELSE 0
        BY DEF MailInv, Accounted
    <2>3. accepted'[k] = accepted[k] + (IF k = k0 THEN 1 ELSE 0)
        BY <1>0, <1>5, <2>1 DEF TypeOK
    <2>4. CASE k = k0
        <3>1. k \notin sent /\ Recording(k)' /\ ~Recording(k)
            BY <1>3, <1>14, <1>15, <2>4
        <3>2. accepted[k] = lost[k]
            BY <2>1, <2>2, <3>1
        <3>3. accepted'[k] = lost[k] + 1 /\ lost'[k] = lost[k]
            BY <1>8, <2>3, <2>4, <3>2
        <3> QED
            BY <3>1, <3>3
    <2>5. CASE k # k0
        BY <1>8, <1>13, <2>1, <2>2, <2>3, <2>5
    <2> QED
        BY <2>4, <2>5
<1> QED
    BY <1>9, <1>10, <1>11, <1>12, <1>16 DEF MailInv


\* A row inserted for the first time is its sender's alone.
LEMMA QueueStep ==
    ASSUME MailInv, NEW x \in Senders, Queue(x)
    PROVE  MailInv'
<1>1. PICK k0 : k0 = send[x].key
    OBVIOUS
<1>2. TypeOK /\ send[x].at = "queue"
    BY DEF MailInv, Queue, At
<1>3. send[x] \in Sending /\ k0 \in Keys
    BY <1>1, <1>2, SenderStates DEF Idle
<1>4. CASE k0 \in Rows
    BY <1>1, <1>4, GiveUpStep DEF Queue
<1>5. CASE k0 \notin Rows
    <2> DEFINE v == [at |-> "transport", key |-> k0]
    <2>1. v \in Sending /\ send' = [send EXCEPT ![x] = v]
        BY <1>1, <1>3, <1>5 DEF Queue, Sending, Proceed
    <2>2. /\ outbox' = Append(outbox, k0) /\ young' = young \union {k0} /\ sent' = sent
          /\ round' = round /\ window' = window /\ accepted' = accepted /\ lost' = lost
          /\ mishaps' = mishaps
        BY <1>1, <1>5 DEF Queue, mail
    <2>3. outbox' \in Seq(Keys) /\ Rows' = Rows \union {k0}
        BY <1>2, <1>3, <2>2, RowsAfterInsert DEF Rows, TypeOK
    <2>4. /\ send' \in [Senders -> {Idle} \union Sending] /\ send'[x] = v
          /\ \A y \in Senders \ {x} : send'[y] = send[y] /\ \A k : Holds(y, k)' <=> Holds(y, k)
        BY <1>2, <2>1, SendMoves
    <2>5. TypeOK'
        BY <1>2, <2>2, <2>3, <2>4 DEF TypeOK
    <2>6. \A y \in Senders, k \in Keys : Holds(y, k) => k \in Rows \ sent /\ k # k0
        BY <1>5 DEF MailInv, OneDelivery
    <2>7. \A k : Holds(x, k)' <=> k = k0
        BY <2>4 DEF Holds
    <2>8. \A k : ~Holds(x, k)
        BY <1>2 DEF Holds
    <2>9. k0 \notin sent
        BY <1>2, <1>5 DEF TypeOK
    <2>10. OneDelivery'
        <3> SUFFICES ASSUME NEW y \in Senders, NEW k \in Keys, Holds(y, k)'
                     PROVE  /\ k \in Rows' \ sent'
                            /\ \A z \in Senders : Holds(z, k)' => z = y
            BY DEF OneDelivery
        <3>1. CASE y = x
            <4>1. k = k0
                BY <2>7, <3>1
            <4>2. \A z \in Senders \ {x} : ~Holds(z, k)'
                BY <1>3, <2>4, <2>6, <4>1
            <4> QED
                BY <2>2, <2>3, <2>9, <3>1, <4>1, <4>2
        <3>2. CASE y # x
            <4>1. Holds(y, k) /\ k # k0 /\ k \in Rows \ sent
                BY <2>4, <2>6, <3>2
            <4>2. \A z \in Senders : Holds(z, k)' => Holds(z, k)
                BY <2>4, <2>7, <4>1
            <4> QED
                BY <2>2, <2>3, <4>1, <4>2 DEF MailInv, OneDelivery
        <3> QED
            BY <3>1, <3>2
    <2>11. HandlersHoldYoung'
        BY <2>2, <2>4, <2>7, SendersAre DEF MailInv, HandlersHoldYoung
    <2>12. RetriesAreFree'
        <3> SUFFICES ASSUME round.loop = "retry", NEW k \in round.todo
                     PROVE  /\ k \in Rows' \ sent' /\ k \notin young'
                            /\ \A y \in Senders : ~Holds(y, k)'
            BY <2>2 DEF RetriesAreFree
        <3>1. k \in Rows \ sent /\ k \notin young /\ \A y \in Senders : ~Holds(y, k)
            BY DEF MailInv, RetriesAreFree
        <3>2. k # k0
            BY <1>5, <3>1
        <3> QED
            BY <2>2, <2>3, <2>4, <2>7, <3>1, <3>2
    <2>13. \A k : Recording(k)' <=> Recording(k)
        BY <1>2, <2>4 DEF Recording, At
    <2>14. Accounted'
        BY <2>2, <2>13 DEF MailInv, Accounted
    <2> QED
        BY <2>5, <2>10, <2>11, <2>12, <2>14 DEF MailInv
<1> QED
    BY <1>4, <1>5

\* A trigger taken up for its insert is not a delivery yet.
LEMMA TakeUpStep ==
    ASSUME MailInv, NEW x \in Senders, NEW k0 \in Keys, send[x] = Idle,
           send' = [send EXCEPT ![x] = [at |-> "queue", key |-> k0]],
           TypeOK', UNCHANGED <<outbox, sent, young, accepted, lost>>,
           round'.loop = round.loop, round'.todo \subseteq round.todo
    PROVE  MailInv'
<1>1. [at |-> "queue", key |-> k0] \in Sending
    BY DEF Sending
<1>2. /\ send'[x] = [at |-> "queue", key |-> k0]
      /\ \A y \in Senders \ {x} : send'[y] = send[y] /\ \A k : Holds(y, k)' <=> Holds(y, k)
    BY <1>1, SendMoves DEF MailInv
<1>3. \A y \in Senders, k \in Keys : Holds(y, k)' <=> Holds(y, k)
    BY <1>2 DEF Holds, Idle
<1>4. Rows' = Rows
    BY DEF Rows
<1>5. OneDelivery'
    BY <1>3, <1>4 DEF MailInv, OneDelivery
<1>6. HandlersHoldYoung'
    BY <1>3, SendersAre DEF MailInv, HandlersHoldYoung
<1>7. RetriesAreFree'
    <2>1. \A k \in round.todo : k \in Keys
        BY DEF MailInv, TypeOK, Rounds, Keys, Timed
    <2> QED
        BY <1>3, <1>4, <2>1 DEF MailInv, RetriesAreFree
<1>8. \A k : Recording(k)' <=> Recording(k)
    BY <1>2 DEF Recording, At, Idle
<1>9. Accounted'
    BY <1>8 DEF MailInv, Accounted
<1> QED
    BY <1>5, <1>6, <1>7, <1>9 DEF MailInv

LEMMA NotifyStep ==
    ASSUME MailInv, NEW s \in Slots, NEW k \in Notices, Notify(s, k)
    PROVE  MailInv'
<1>1. s \in Senders /\ k \in Keys
    BY SendersAre DEF Keys
<1>2. TypeOK'
    <2>1. [at |-> "queue", key |-> k] \in Sending
        BY <1>1 DEF Sending
    <2>2. send' \in [Senders -> {Idle} \union Sending]
        BY <1>1, <2>1, SendMoves DEF MailInv, Notify
    <2> QED
        BY <2>2 DEF MailInv, TypeOK, Notify, Rows, mail
<1> QED
    BY <1>1, <1>2, TakeUpStep DEF Notify, mail

\* What the loop takes next leaves the loop; a retried row had no holder.
LEMMA TakeNextStep ==
    ASSUME MailInv, NEW k0 \in Keys, TakeNext(k0)
    PROVE  MailInv'
<1> DEFINE v == [at |-> IF round.loop = "retry" THEN "transport" ELSE "queue", key |-> k0]
<1>1. v \in Sending /\ send[Mail] = Idle /\ Mail \in Senders
    BY SendersAre DEF Sending, TakeNext
<1>2. send' = [send EXCEPT ![Mail] = v] /\ TypeOK
    BY DEF TakeNext, MailInv
<1>3. /\ send' \in [Senders -> {Idle} \union Sending] /\ send'[Mail] = v
      /\ \A y \in Senders \ {Mail} : send'[y] = send[y] /\ \A k : Holds(y, k)' <=> Holds(y, k)
    BY <1>1, <1>2, SendMoves
<1>4. round'.loop = round.loop /\ round'.todo = round.todo \ {k0} /\ round' \in Rounds
    BY <1>2 DEF TakeNext, TypeOK, Rounds
<1>5. TypeOK'
    BY <1>2, <1>3, <1>4 DEF TypeOK, TakeNext, Rows
<1>6. CASE round.loop # "retry"
    BY <1>1, <1>2, <1>4, <1>5, <1>6, TakeUpStep DEF TakeNext
<1>7. CASE round.loop = "retry"
    <2>1. v = [at |-> "transport", key |-> k0]
        BY <1>7
    <2>2. k0 \in Rows \ sent /\ k0 \notin young /\ \A x \in Senders : ~Holds(x, k0)
        BY <1>7 DEF MailInv, RetriesAreFree, TakeNext
    <2>3. \A k : Holds(Mail, k)' <=> k = k0
        BY <1>3, <2>1 DEF Holds
    <2>4. Rows' = Rows /\ sent' = sent /\ young' = young
        BY DEF TakeNext, Rows
    <2>5. OneDelivery'
        BY <1>3, <2>2, <2>3, <2>4 DEF MailInv, OneDelivery
    <2>6. HandlersHoldYoung'
        BY <1>3, <2>4, SendersAre DEF MailInv, HandlersHoldYoung
    <2>7. RetriesAreFree'
        BY <1>3, <1>4, <2>3, <2>4 DEF MailInv, RetriesAreFree
    <2>8. \A k : Recording(k)' <=> Recording(k)
        BY <1>1, <1>3, <2>1 DEF Recording, At, Idle
    <2>9. Accounted'
        BY <2>4, <2>8 DEF MailInv, Accounted, TakeNext
    <2> QED
        BY <1>5, <2>5, <2>6, <2>7, <2>9 DEF MailInv
<1> QED
    BY <1>6, <1>7

\* A row outlives its first minute only when nobody is delivering it.
LEMMA MinutePassesStep ==
    ASSUME MailInv, NEW k0 \in Keys, MinutePasses(k0)
    PROVE  MailInv'
<1>1. TypeOK'
    BY DEF MailInv, TypeOK, MinutePasses, Rows
<1>2. Rows' = Rows
    BY DEF MinutePasses, Rows
<1>3. \A x, k : (Holds(x, k)' <=> Holds(x, k)) /\ (Recording(k)' <=> Recording(k))
    BY DEF Holds, Recording, At, MinutePasses
<1>4. OneDelivery'
    BY <1>2, <1>3 DEF MailInv, OneDelivery, MinutePasses
<1>5. HandlersHoldYoung'
    BY <1>3, SendersAre DEF MailInv, HandlersHoldYoung, MinutePasses
<1>6. RetriesAreFree'
    BY <1>2, <1>3 DEF MailInv, RetriesAreFree, MinutePasses
<1>7. Accounted'
    BY <1>3 DEF MailInv, Accounted, MinutePasses
<1> QED
    BY <1>1, <1>4, <1>5, <1>6, <1>7 DEF MailInv

LEMMA WindowStep ==
    ASSUME MailInv, NEW k \in Timed, WindowOpens(k) \/ WindowCloses(k)
    PROVE  MailInv'
<1>1. UNCHANGED <<outbox, sent, young, send, round, accepted, lost, mishaps>>
    BY DEF WindowOpens, WindowCloses
<1>2. window' \in [Timed -> {"before", "open", "closed"}]
    BY DEF MailInv, TypeOK, WindowOpens, WindowCloses
<1>3. TypeOK'
    BY <1>1, <1>2 DEF MailInv, TypeOK, Rows
<1>4. RetriesAreFree'
    BY <1>1 DEF MailInv, RetriesAreFree, Rows, Holds
<1> QED
    BY <1>1, <1>3, <1>4, QuietStep

\* A crash loses exactly what was being recorded.
LEMMA CrashStep ==
    ASSUME MailInv, Crash
    PROVE  MailInv'
<1>1. \A x \in Senders : send'[x] = Idle /\ send'[x].at = "idle"
    BY DEF Crash, Idle
<1>2. \A k : ~Recording(k)' /\ \A x \in Senders : ~Holds(x, k)'
    BY <1>1 DEF Recording, Holds, At
<1>3. /\ round' = [loop |-> "rest", todo |-> {}]
      /\ lost' = [k \in Keys |-> IF Recording(k) THEN lost[k] + 1 ELSE lost[k]]
      /\ UNCHANGED <<outbox, sent, young, window, accepted>> /\ Rows' = Rows
    BY DEF Crash, Enter, Rows
<1>4. TypeOK'
    <2>1. lost' \in [Keys -> Nat]
        BY <1>3 DEF MailInv, TypeOK
    <2>2. send' \in [Senders -> {Idle} \union Sending]
        BY DEF Crash
    <2>3. round' \in Rounds /\ mishaps' \in Nat
        BY <1>3 DEF Rounds, Crash, MailInv, TypeOK
    <2> QED
        BY <1>3, <2>1, <2>2, <2>3 DEF MailInv, TypeOK
<1>5. OneDelivery' /\ HandlersHoldYoung' /\ RetriesAreFree'
    BY <1>2, <1>3, SendersAre DEF OneDelivery, HandlersHoldYoung, RetriesAreFree
<1>6. Accounted'
    <2> SUFFICES ASSUME NEW k \in Keys
                 PROVE  accepted'[k] = lost'[k] + IF k \in sent' \/ Recording(k)' THEN 1 ELSE 0
        BY DEF Accounted
    <2>1. accepted[k] \in Nat /\ lost[k] \in Nat
        BY DEF MailInv, TypeOK
    <2>2. accepted[k] = lost[k] + IF k \in sent \/ Recording(k) THEN 1 ELSE 0
        BY DEF MailInv, Accounted
    <2>3. Recording(k) => k \notin sent
        BY DEF Recording, At, Holds, MailInv, OneDelivery
    <2>4. lost'[k] = (IF Recording(k) THEN lost[k] + 1 ELSE lost[k]) /\ accepted'[k] = accepted[k]
        BY <1>3
    <2>5. CASE Recording(k)
        BY <1>2, <1>3, <2>1, <2>2, <2>3, <2>4, <2>5
    <2>6. CASE ~Recording(k)
        BY <1>2, <1>3, <2>1, <2>2, <2>4, <2>6
    <2> QED
        BY <2>5, <2>6
<1> QED
    BY <1>4, <1>5, <1>6 DEF MailInv

LEMMA MailStep == MailInv /\ [Next]_vars => MailInv'
<1> SUFFICES ASSUME MailInv, [Next]_vars PROVE MailInv'
    OBVIOUS
<1>1. CASE UNCHANGED vars
    <2>1. TypeOK'
        BY <1>1 DEF MailInv, vars, TypeOK, Rows
    <2>2. RetriesAreFree'
        BY <1>1 DEF MailInv, vars, RetriesAreFree, Rows, Holds
    <2> QED
        BY <1>1, <2>1, <2>2, QuietStep DEF vars
<1>2. ASSUME NEW x \in Senders, Deliver(x) PROVE MailInv'
    <2>1. CASE QueueFail(x)
        BY <2>1, GiveUpStep DEF QueueFail
    <2>2. CASE Refuse(x)
        BY <2>2, GiveUpStep DEF Refuse
    <2> QED
        BY <1>2, <2>1, <2>2, QueueStep, AcceptStep, LoseAnswerStep, RecordSentStep, RecordFailStep
           DEF Deliver
<1>3. CASE RetryRead
    <2>1. Oldest \subseteq Keys
        BY OldestAreRetryable DEF MailInv
    <2> QED
        BY <1>3, <2>1, ScanStep DEF RetryRead, Rounds
<1>4. CASE WarnRead
    <2>1. Open(Warnings) \subseteq Warnings
        BY DEF Open
    <2> QED
        BY <1>4, <2>1, ScanStep DEF WarnRead, Rounds
<1>5. CASE RemindRead
    <2>1. Open(Reminders) \subseteq Reminders
        BY DEF Open
    <2> QED
        BY <1>5, <2>1, ScanStep DEF RemindRead, Rounds
<1>6. CASE RoundEnds \/ PassFail
    BY <1>6, ScanStep DEF RoundEnds, PassFail, Rounds
<1> QED
    BY <1>1, <1>2, <1>3, <1>4, <1>5, <1>6, NotifyStep, TakeNextStep, MinutePassesStep,
       WindowStep, CrashStep DEF Next, Round

-----------------------------------------------------------------------------

\* Every acceptance of a mail is recorded, about to be recorded, or lost; one
\* sender delivers a row at a time, and never a row that was sent.
THEOREM MailInvariance == Spec => []MailInv
BY MailInit, MailStep, PTL DEF Spec

\* A mail goes out once, and again only for an answer the process lost.
THEOREM NoCopyWithoutALostAnswer == Spec => []CopiesAreLostAnswers
<1>1. MailInv => CopiesAreLostAnswers
    <2> SUFFICES ASSUME MailInv, NEW k \in Keys PROVE accepted[k] <= 1 + lost[k]
        BY DEF CopiesAreLostAnswers
    <2>1. accepted[k] \in Nat /\ lost[k] \in Nat
        BY DEF MailInv, TypeOK
    <2>2. accepted[k] = lost[k] \/ accepted[k] = lost[k] + 1
        BY <2>1 DEF MailInv, Accounted
    <2> QED
        BY <2>1, <2>2
<1> QED
    BY <1>1, MailInvariance, PTL

\* Every reachable state is well typed, whatever the mails and the bounds.
THEOREM Typing == Spec => []TypeOK
<1>1. MailInv => TypeOK
    BY DEF MailInv
<1> QED
    BY <1>1, MailInvariance, PTL

\* sentAt stands only on mails a transport has accepted.
THEOREM SentMailWasAccepted == Spec => []SentMeansAccepted
<1>1. MailInv => SentMeansAccepted
    <2> SUFFICES ASSUME MailInv, NEW k \in sent PROVE accepted[k] > 0
        BY DEF SentMeansAccepted
    <2>0. k \in Rows /\ TypeOK
        BY DEF MailInv, TypeOK
    <2>1. k \in Keys /\ accepted[k] \in Nat /\ lost[k] \in Nat
        BY <2>0 DEF TypeOK, Rows, ToSet
    <2>2. accepted[k] = lost[k] + 1
        BY <2>1 DEF MailInv, Accounted
    <2> QED
        BY <2>1, <2>2
<1> QED
    BY <1>1, MailInvariance, PTL

-----------------------------------------------------------------------------
(* Refinement: Outbox implements MailBook *)

\* What a mail's standing says, read back.
LEMMA StandingSays ==
    ASSUME NEW k \in Keys
    PROVE  /\ k \in sent => Standing[k] = "sent"
           /\ k \notin sent /\ Recording(k) => Standing[k] = "known"
           /\ k \in Rows \ sent /\ ~Recording(k) => Standing[k] = "queued"
           /\ k \notin sent /\ k \notin Rows /\ ~Recording(k) => Standing[k] = "absent"
BY DEF Standing

LEMMA NextStandingSays ==
    ASSUME NEW k \in Keys
    PROVE  /\ k \in sent' => Standing'[k] = "sent"
           /\ k \notin sent' /\ Recording(k)' => Standing'[k] = "known"
           /\ k \in Rows' \ sent' /\ ~Recording(k)' => Standing'[k] = "queued"
           /\ k \notin sent' /\ k \notin Rows' /\ ~Recording(k)' => Standing'[k] = "absent"
BY DEF Standing

\* The row of k, its sentAt and what the senders know of it stay as they are.
Untouched(k) ==
    /\ k \in sent' <=> k \in sent
    /\ k \in Rows' <=> k \in Rows
    /\ Recording(k)' <=> Recording(k)

LEMMA UntouchedStand ==
    ASSUME NEW k \in Keys, Untouched(k)
    PROVE  Standing'[k] = Standing[k]
<1>1. (k \in sent' <=> k \in sent) /\ (k \in Rows' <=> k \in Rows)
    BY DEF Untouched
<1>2. Recording(k)' <=> Recording(k)
    BY DEF Untouched
<1> QED BY <1>1, <1>2, StandingSays, NextStandingSays

\* A step that touches one mail at most moves the standing of that one.
LEMMA OneMoves ==
    ASSUME NEW k0 \in Keys, NEW v, Standing'[k0] = v,
           \A k \in Keys \ {k0} : Untouched(k)
    PROVE  Standing' = [Standing EXCEPT ![k0] = v]
<1>1. \A k \in Keys \ {k0} : Standing'[k] = Standing[k]
    BY UntouchedStand
<1>2. Standing = [k \in Keys |-> Standing[k]]
    BY DEF Standing
<1>3. Standing' = [k \in Keys |-> Standing'[k]]
    BY DEF Standing
<1> QED BY <1>1, <1>2, <1>3

LEMMA NoneMoves ==
    ASSUME \A k \in Keys : Untouched(k)
    PROVE  Standing' = Standing
<1>1. \A k \in Keys : Standing'[k] = Standing[k]
    BY UntouchedStand
<1>2. Standing = [k \in Keys |-> Standing[k]] /\ Standing' = [k \in Keys |-> Standing'[k]]
    BY DEF Standing
<1> QED BY <1>1, <1>2

\* A sender moving between calls changes what is known of its own mail only,
\* and not even that unless it is about to record it before or after the step.
LEMMA OthersKnowAsBefore ==
    ASSUME NEW x \in Senders, \A y \in Senders \ {x} : send'[y] = send[y], NEW k,
           At(x, "record") => send[x].key # k,
           At(x, "record")' => send'[x].key # k
    PROVE  Recording(k)' <=> Recording(k)
BY DEF Recording, At

\* The insert of a row queues its mail; one that is refused changes nothing.
LEMMA QueueMoves ==
    ASSUME MailInv, NEW x \in Senders, Queue(x)
    PROVE  Book!Next \/ UNCHANGED <<Standing, accepted, lost>>
<1>1. PICK k0 : k0 = send[x].key
    OBVIOUS
<1>2. k0 \in Keys /\ ~At(x, "record") /\ accepted' = accepted /\ lost' = lost /\ sent' = sent
    BY <1>1, SenderStates DEF MailInv, Queue, At
<1>3. CASE k0 \in Rows
    <2>1. Done(x) /\ Rows' = Rows
        BY <1>1, <1>3 DEF Queue, Rows
    <2>2. ~At(x, "record")' /\ \A y \in Senders \ {x} : send'[y] = send[y]
        BY <2>1, SendMoves DEF Done, MailInv, At, Idle
    <2>3. \A k \in Keys : Untouched(k)
        BY <1>2, <2>1, <2>2, OthersKnowAsBefore DEF Untouched
    <2> QED BY <1>2, <2>3, NoneMoves
<1>4. CASE k0 \notin Rows
    <2> DEFINE v == [at |-> "transport", key |-> k0]
    <2>1. v \in Sending /\ send' = [send EXCEPT ![x] = v]
        BY <1>1, <1>2, <1>4 DEF Queue, Sending, Proceed
    <2>2. ~At(x, "record")' /\ \A y \in Senders \ {x} : send'[y] = send[y]
        BY <2>1, SendMoves DEF MailInv, At
    <2>3. Rows' = Rows \union {k0}
        BY <1>1, <1>2, <1>4, RowsAfterInsert DEF Queue, Rows, MailInv, TypeOK
    <2>4. \A k \in Keys : Recording(k)' <=> Recording(k)
        BY <1>2, <2>2, OthersKnowAsBefore
    <2>5. \A k \in Keys \ {k0} : Untouched(k)
        BY <1>2, <2>3, <2>4 DEF Untouched
    <2>6. k0 \notin sent /\ ~Recording(k0)
        BY <1>2, <1>4 DEF MailInv, TypeOK, OneDelivery, Recording, Holds, At
    <2>7. Standing[k0] = "absent" /\ Standing'[k0] = "queued"
        BY <1>2, <1>4, <2>3, <2>4, <2>6, StandingSays, NextStandingSays
    <2>8. Standing' = [Standing EXCEPT ![k0] = "queued"]
        BY <1>2, <2>5, <2>7, OneMoves
    <2>9. Book!Place(k0)
        BY <1>2, <2>7, <2>8 DEF Book!Place, Book!Move
    <2> QED BY <1>2, <2>9 DEF Book!Next
<1> QED BY <1>3, <1>4

\* A mail with the transport is queued, and nobody knows of an earlier copy.
LEMMA WithTransport ==
    ASSUME MailInv, NEW x \in Senders, At(x, "transport")
    PROVE  /\ send[x].key \in Keys /\ send[x].key \in Rows \ sent
           /\ ~Recording(send[x].key) /\ Standing[send[x].key] = "queued"
<1>1. PICK k0 : k0 = send[x].key
    OBVIOUS
<1>2. k0 \in Keys /\ Holds(x, k0)
    BY <1>1, SenderStates DEF MailInv, At, Holds, Idle
<1>3. k0 \in Rows \ sent /\ \A y \in Senders : Holds(y, k0) => y = x
    BY <1>2 DEF MailInv, OneDelivery
<1>4. ~Recording(k0)
    BY <1>3 DEF Recording, At, Holds
<1> QED BY <1>1, <1>2, <1>3, <1>4, StandingSays

LEMMA AcceptMoves ==
    ASSUME MailInv, NEW x \in Senders, Accept(x)
    PROVE  Book!Next
<1>1. PICK k0 : k0 = send[x].key
    OBVIOUS
<1> DEFINE v == [at |-> "record", key |-> k0]
<1>2. k0 \in Keys /\ k0 \in Rows \ sent /\ ~Recording(k0) /\ Standing[k0] = "queued"
    BY <1>1, WithTransport DEF Accept
<1>3. v \in Sending /\ send' = [send EXCEPT ![x] = v]
    BY <1>1, <1>2 DEF Accept, Sending, Proceed
<1>4. At(x, "record")' /\ send'[x].key = k0 /\ \A y \in Senders \ {x} : send'[y] = send[y]
    BY <1>3, SendMoves DEF MailInv, At
<1>5. ~At(x, "record") /\ Rows' = Rows /\ sent' = sent
    BY DEF Accept, At, Rows
<1>6. \A k \in Keys \ {k0} : Untouched(k)
    BY <1>4, <1>5, OthersKnowAsBefore DEF Untouched
<1>7. Standing'[k0] = "known"
    <2>1. Recording(k0)'
        BY <1>4 DEF Recording
    <2> QED BY <1>2, <1>5, <2>1, NextStandingSays
<1>8. Standing' = [Standing EXCEPT ![k0] = "known"]
    BY <1>2, <1>6, <1>7, OneMoves
<1>9. Book!Hand(k0)
    BY <1>1, <1>2, <1>8 DEF Book!Hand, Book!Move, Accept
<1> QED BY <1>2, <1>9 DEF Book!Next

\* An answer that does not arrive hands the mail over and leaves it queued.
LEMMA LoseAnswerMoves ==
    ASSUME MailInv, NEW x \in Senders, LoseAnswer(x)
    PROVE  Book!Next
<1>1. PICK k0 : k0 = send[x].key
    OBVIOUS
<1>2. k0 \in Keys /\ Standing[k0] = "queued"
    BY <1>1, WithTransport DEF LoseAnswer
<1>3. ~At(x, "record") /\ ~At(x, "record")' /\ Rows' = Rows /\ sent' = sent
      /\ \A y \in Senders \ {x} : send'[y] = send[y]
    BY SendMoves DEF LoseAnswer, Done, MailInv, At, Idle, Rows
<1>4. \A k \in Keys : Untouched(k)
    BY <1>3, OthersKnowAsBefore DEF Untouched
<1>5. Standing' = Standing
    BY <1>4, NoneMoves
<1>6. Standing' = [Standing EXCEPT ![k0] = "queued"]
    BY <1>2, <1>5 DEF Standing
<1>7. Book!HandUnheard(k0)
    BY <1>1, <1>2, <1>6 DEF Book!HandUnheard, Book!Move, LoseAnswer
<1> QED BY <1>2, <1>7 DEF Book!Next

\* Only the mail of a sender that lets go of it, being recorded, is touched.
LEMMA RecorderLetsGo ==
    ASSUME MailInv, NEW x \in Senders, At(x, "record"), Done(x), UNCHANGED outbox,
           NEW k0, k0 = send[x].key,
           \A k \in Keys \ {k0} : k \in sent' <=> k \in sent
    PROVE  /\ k0 \in Keys /\ Standing[k0] = "known" /\ k0 \in Rows' /\ ~Recording(k0)'
           /\ \A k \in Keys \ {k0} : Untouched(k)
<1>1. /\ k0 \in Keys /\ k0 \in Rows \ sent /\ Recording(k0)
      /\ \A y \in Senders : At(y, "record") /\ send[y].key = k0 => y = x
    BY OneRecords
<1>2. ~At(x, "record")' /\ \A y \in Senders \ {x} : send'[y] = send[y]
    BY SendMoves DEF Done, MailInv, At, Idle
<1>3. ~Recording(k0)'
    BY <1>1, <1>2 DEF Recording, At
<1>4. \A k \in Keys \ {k0} : Recording(k)' <=> Recording(k)
    BY <1>2, OthersKnowAsBefore
<1>5. Rows' = Rows
    BY DEF Rows
<1>6. \A k \in Keys \ {k0} : Untouched(k)
    BY <1>4, <1>5 DEF Untouched
<1> QED BY <1>1, <1>3, <1>5, <1>6, StandingSays

LEMMA RecordSentMoves ==
    ASSUME MailInv, NEW x \in Senders, RecordSent(x)
    PROVE  Book!Next
<1>1. PICK k0 : k0 = send[x].key
    OBVIOUS
<1>2. sent' = sent \union {k0}
    BY <1>1 DEF RecordSent
<1>3. k0 \in Keys /\ Standing[k0] = "known" /\ \A k \in Keys \ {k0} : Untouched(k)
    BY <1>1, <1>2, RecorderLetsGo DEF RecordSent
<1>4. Standing'[k0] = "sent"
    BY <1>2, <1>3, NextStandingSays
<1>5. Standing' = [Standing EXCEPT ![k0] = "sent"]
    BY <1>3, <1>4, OneMoves
<1>6. Book!Record(k0)
    BY <1>3, <1>5 DEF Book!Record, Book!Move, RecordSent
<1> QED BY <1>3, <1>6 DEF Book!Next

\* An UPDATE that fails forgets one mail.
LEMMA RecordFailMoves ==
    ASSUME MailInv, NEW x \in Senders, RecordFail(x)
    PROVE  Book!Next
<1>1. PICK k0 : k0 = send[x].key
    OBVIOUS
<1>2. /\ k0 \in Keys /\ Standing[k0] = "known" /\ k0 \in Rows' /\ ~Recording(k0)'
      /\ \A k \in Keys \ {k0} : Untouched(k)
    BY <1>1, RecorderLetsGo DEF RecordFail
<1>3. k0 \notin sent'
    BY <1>1, OneRecords DEF RecordFail
<1>4. Standing' = [Standing EXCEPT ![k0] = "queued"]
    BY <1>2, <1>3, OneMoves, NextStandingSays
<1>5. Standing' = [k \in Keys |-> IF k \in {k0} THEN "queued" ELSE Standing[k]]
    BY <1>4 DEF Standing
<1>6. lost' = [k \in Keys |-> IF k \in {k0} THEN lost[k] + 1 ELSE lost[k]]
    BY <1>1, <1>2 DEF RecordFail, MailInv, TypeOK
<1>7. Book!Forget({k0})
    BY <1>2, <1>5, <1>6 DEF Book!Forget, RecordFail
<1> QED BY <1>2, <1>7 DEF Book!Next

\* A crash forgets what was about to be recorded, of every sender at once.
LEMMA CrashMoves ==
    ASSUME MailInv, Crash
    PROVE  Book!Next \/ UNCHANGED <<Standing, accepted, lost>>
<1>1. PICK S : S = {k \in Keys : Recording(k)}
    OBVIOUS
<1>2. \A k : ~Recording(k)'
    BY DEF Crash, Recording, At, Idle
<1>3. Rows' = Rows /\ sent' = sent /\ accepted' = accepted
    BY DEF Crash, Rows
<1>4. \A k \in S : k \in Rows \ sent
    BY <1>1 DEF MailInv, OneDelivery, Recording, At, Holds
<1>5. \A k \in S : Standing[k] = "known" /\ Standing'[k] = "queued"
    BY <1>1, <1>2, <1>3, <1>4, StandingSays, NextStandingSays
<1>6. \A k \in Keys \ S : Untouched(k)
    BY <1>1, <1>2, <1>3 DEF Untouched
<1>7. CASE S = {}
    <2>1. Standing' = Standing
        BY <1>6, <1>7, NoneMoves
    <2>2. lost' = lost
        BY <1>1, <1>7 DEF Crash, MailInv, TypeOK
    <2> QED BY <1>3, <2>1, <2>2
<1>8. CASE S # {}
    <2>1. \A k \in Keys : Standing'[k] = IF k \in S THEN "queued" ELSE Standing[k]
        BY <1>5, <1>6, UntouchedStand
    <2>2. Standing' = [k \in Keys |-> Standing'[k]]
        BY DEF Standing
    <2>3. Standing' = [k \in Keys |-> IF k \in S THEN "queued" ELSE Standing[k]]
        BY <2>1, <2>2
    <2>4. lost' = [k \in Keys |-> IF k \in S THEN lost[k] + 1 ELSE lost[k]]
        BY <1>1 DEF Crash
    <2>5. Book!Forget(S)
        BY <1>3, <1>5, <1>8, <2>3, <2>4 DEF Book!Forget
    <2>6. S \in SUBSET Keys
        BY <1>1
    <2> QED BY <2>5, <2>6 DEF Book!Next
<1> QED BY <1>7, <1>8

\* Taking up a mail, giving it up before it is handed over, scans and time.
LEMMA QuietMoves ==
    ASSUME MailInv, UNCHANGED <<outbox, sent, accepted, lost>>,
           \A x \in Senders : \/ send'[x] = send[x]
                              \/ ~At(x, "record") /\ ~At(x, "record")'
    PROVE  UNCHANGED <<Standing, accepted, lost>>
<1>1. \A k : Recording(k)' <=> Recording(k)
    BY DEF Recording, At
<1>2. Rows' = Rows
    BY DEF Rows
<1>3. \A k \in Keys : Untouched(k)
    BY <1>1, <1>2 DEF Untouched
<1> QED BY <1>3, NoneMoves

\* A step in which one sender at most moves, to or from a call before the record.
LEMMA OneQuietSender ==
    ASSUME MailInv, UNCHANGED <<outbox, sent, accepted, lost>>, NEW x \in Senders,
           ~At(x, "record"), NEW v \in {Idle} \union Sending, v.at # "record",
           send' = [send EXCEPT ![x] = v]
    PROVE  UNCHANGED <<Standing, accepted, lost>>
<1>1. ~At(x, "record")' /\ \A y \in Senders \ {x} : send'[y] = send[y]
    BY SendMoves DEF MailInv, At
<1> QED BY <1>1, QuietMoves

LEMMA BookInit == Init => Book!Init
<1> SUFFICES ASSUME Init PROVE Book!Init
    OBVIOUS
<1>1. \A k \in Keys : k \notin sent /\ k \notin Rows /\ ~Recording(k)
    BY DEF Init, Rows, ToSet, Recording, At, Idle
<1>2. Standing = [k \in Keys |-> "absent"]
    BY <1>1 DEF Standing
<1> QED BY <1>2 DEF Init, Book!Init

\* Every step of the outbox is one move of the book or none.
LEMMA BookStep ==
    ASSUME MailInv, [Next]_vars
    PROVE  [Book!Next]_<<Standing, accepted, lost>>
<1>1. CASE UNCHANGED vars
    BY <1>1, QuietMoves DEF vars
<1>2. ASSUME NEW x \in Senders, Deliver(x)
      PROVE  Book!Next \/ UNCHANGED <<Standing, accepted, lost>>
    <2>1. ASSUME QueueFail(x) \/ Refuse(x) PROVE UNCHANGED <<Standing, accepted, lost>>
        <3>1. ~At(x, "record") /\ send' = [send EXCEPT ![x] = Idle] /\ Idle.at # "record"
            BY <2>1 DEF QueueFail, Refuse, At, Done, Idle
        <3>2. UNCHANGED <<outbox, sent, accepted, lost>>
            BY <2>1 DEF QueueFail, Refuse
        <3> QED BY <3>1, <3>2, OneQuietSender
    <2> QED BY <1>2, <2>1, QueueMoves, AcceptMoves, LoseAnswerMoves, RecordSentMoves,
               RecordFailMoves DEF Deliver
<1>3. ASSUME NEW s \in Slots, NEW k \in Notices, Notify(s, k)
      PROVE  UNCHANGED <<Standing, accepted, lost>>
    <2>1. PICK v : v = [at |-> "queue", key |-> k]
        OBVIOUS
    <2>2. s \in Senders /\ v \in Sending /\ v.at # "record"
        BY <2>1, SendersAre DEF Sending, Keys
    <2>3. send' = [send EXCEPT ![s] = v] /\ ~At(s, "record")
          /\ UNCHANGED <<outbox, sent, accepted, lost>>
        BY <1>3, <2>1 DEF Notify, At, Idle
    <2> QED BY <2>2, <2>3, OneQuietSender
<1>4. ASSUME NEW k \in Keys, TakeNext(k)
      PROVE  UNCHANGED <<Standing, accepted, lost>>
    <2>1. PICK v : v = [at |-> IF round.loop = "retry" THEN "transport" ELSE "queue", key |-> k]
        OBVIOUS
    <2>2. Mail \in Senders /\ v \in Sending /\ v.at # "record"
        BY <2>1, SendersAre DEF Sending
    <2>3. send' = [send EXCEPT ![Mail] = v] /\ ~At(Mail, "record")
          /\ UNCHANGED <<outbox, sent, accepted, lost>>
        BY <1>4, <2>1 DEF TakeNext, At, Idle
    <2> QED BY <2>2, <2>3, OneQuietSender
<1>5. ASSUME \/ Round \/ PassFail
             \/ \E k \in Keys : MinutePasses(k)
             \/ \E k \in Timed : WindowOpens(k) \/ WindowCloses(k)
      PROVE  UNCHANGED <<Standing, accepted, lost>>
    <2>1. UNCHANGED <<outbox, sent, send, accepted, lost>>
        BY <1>5 DEF Round, RetryRead, WarnRead, RemindRead, RoundEnds, PassFail, Scan,
                    MinutePasses, WindowOpens, WindowCloses
    <2> QED BY <2>1, QuietMoves
<1> QED BY <1>1, <1>2, <1>3, <1>4, <1>5, CrashMoves DEF Next

\* Retries beside handlers, double clicks, late scans, lost answers and crashes
\* together do no more to a mail than MailBook allows.
THEOREM OutboxImplementsMailBook == Spec => ImplementsMailBook
BY BookInit, BookStep, MailInvariance, PTL DEF Spec, ImplementsMailBook, Book!Spec

=============================================================================
