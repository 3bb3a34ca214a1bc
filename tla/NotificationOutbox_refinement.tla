---------------------- MODULE NotificationOutbox_refinement ----------------------
(***************************************************************************)
(* The outbox implements AlertContract: the proof of KeepsContract, step   *)
(* by step under the mapping PromiseOf, from the inductive invariant of    *)
(* NotificationOutbox_proofs.                                              *)
(***************************************************************************)
EXTENDS NotificationOutbox_proofs

Promised == [i \in Id |-> PromiseOf(i)]
Taken == {i \in Id : \E w \in Worker : <<i, w>> \in taken}
Spent == {i \in Id : row[i].attempts = MaxAttempts}
Hopeless == Spent \cup refused

\* A row in these states stands for the promise of the same name.
LEMMA RowPromise ==
    ASSUME NEW i \in Id
    PROVE  /\ row[i].state = "absent" /\ intent[i] = "absent" => PromiseOf(i) = "none"
           /\ row[i].state = "absent" /\ intent[i] # "absent" => PromiseOf(i) = "owed"
           /\ row[i].state \in {"PENDING", "SENDING"} => PromiseOf(i) = "owed"
           /\ row[i].state = "SHADOW_HELD" => PromiseOf(i) = "held"
           /\ row[i].state = "DELIVERED" => PromiseOf(i) = "delivered"
           /\ row[i].state = "DEAD" => PromiseOf(i) = "dead"
  BY DEF PromiseOf

LEMMA RowPromiseNext ==
    ASSUME NEW i \in Id
    PROVE  /\ row'[i].state = "absent" /\ intent'[i] = "absent" => PromiseOf(i)' = "none"
           /\ row'[i].state = "absent" /\ intent'[i] # "absent" => PromiseOf(i)' = "owed"
           /\ row'[i].state \in {"PENDING", "SENDING"} => PromiseOf(i)' = "owed"
           /\ row'[i].state = "SHADOW_HELD" => PromiseOf(i)' = "held"
           /\ row'[i].state = "DELIVERED" => PromiseOf(i)' = "delivered"
           /\ row'[i].state = "DEAD" => PromiseOf(i)' = "dead"
  BY DEF PromiseOf

\* A step that leaves the intents and the state of a row leaves its promise.
LEMMA SamePromise ==
    ASSUME NEW i \in Id, row'[i].state = row[i].state,
           intent'[i] = "absent" <=> intent[i] = "absent"
    PROVE  PromiseOf(i)' = PromiseOf(i)
  BY DEF PromiseOf

LEMMA Stutter ==
    ASSUME \A i \in Id : PromiseOf(i)' = PromiseOf(i),
           \A i \in Id : row'[i].attempts = row[i].attempts,
           taken' = taken, refused' = refused
    PROVE  UNCHANGED Contract!vars
<1>1. Promised' = Promised
  BY DEF Promised
<1>2. Taken' = Taken /\ Hopeless' = Hopeless
  BY DEF Taken, Hopeless, Spent
<1> QED
  BY <1>1, <1>2 DEF Contract!vars, Promised, Taken, Hopeless, Spent

LEMMA InitContract == Init => Contract!Init
<1> SUFFICES ASSUME Init PROVE Contract!Init
  OBVIOUS
<1>1. \A i \in Id : PromiseOf(i) = "none"
  BY RowPromise DEF Init, NoRow
<1>2. \A i \in Id : row[i].attempts # MaxAttempts
  BY OutboxAssumption DEF Init, NoRow
<1> QED
  BY <1>1, <1>2 DEF Contract!Init, Init
-----------------------------------------------------------------------------
(* The contract's actions, in terms of single rows.                        *)

LEMMA Accepts ==
    ASSUME NEW i \in Id, PromiseOf(i) = "none", PromiseOf(i)' = "owed",
           \A j \in Id : j # i => PromiseOf(j)' = PromiseOf(j),
           Taken' = Taken, Hopeless' = Hopeless
    PROVE  Contract!Next
<1>1. Promised' = [Promised EXCEPT ![i] = "owed"] /\ Promised[i] = "none"
  BY DEF Promised
<1>2. Contract!Accept(i)
  BY <1>1 DEF Contract!Accept, Promised, Taken, Hopeless, Spent
<1> QED
  BY <1>2 DEF Contract!Next

LEMMA Delivers ==
    ASSUME NEW i \in Id, PromiseOf(i) = "owed", PromiseOf(i)' = "delivered",
           \A j \in Id : j # i => PromiseOf(j)' = PromiseOf(j),
           i \in Taken, Taken' = Taken, Hopeless' = Hopeless
    PROVE  Contract!Next
<1>1. Promised' = [Promised EXCEPT ![i] = "delivered"] /\ Promised[i] = "owed"
  BY DEF Promised
<1>2. Contract!Deliver(i)
  BY <1>1 DEF Contract!Deliver, Promised, Taken, Hopeless, Spent
<1> QED
  BY <1>2 DEF Contract!Next

LEMMA GivesUp ==
    ASSUME NEW i \in Id, PromiseOf(i) = "owed", PromiseOf(i)' = "dead",
           \A j \in Id : j # i => PromiseOf(j)' = PromiseOf(j),
           i \in Hopeless, Taken' = Taken, Hopeless' = Hopeless
    PROVE  Contract!Next
<1>1. Promised' = [Promised EXCEPT ![i] = "dead"] /\ Promised[i] = "owed"
  BY DEF Promised
<1>2. Contract!GiveUp(i)
  BY <1>1 DEF Contract!GiveUp, Promised, Taken, Hopeless, Spent
<1> QED
  BY <1>2 DEF Contract!Next

LEMMA Holds ==
    ASSUME NEW S \in SUBSET Id, \A i \in S : PromiseOf(i) = "owed" /\ PromiseOf(i)' = "held",
           \A j \in Id \ S : PromiseOf(j)' = PromiseOf(j),
           Taken' = Taken, Hopeless' = Hopeless
    PROVE  Contract!Next
<1>1. /\ Promised' = [i \in Id |-> IF i \in S THEN "held" ELSE Promised[i]]
      /\ \A i \in S : Promised[i] = "owed"
  BY DEF Promised
<1>2. Contract!Hold(S)
  BY <1>1 DEF Contract!Hold, Promised, Taken, Hopeless, Spent
<1> QED
  BY <1>2 DEF Contract!Next

LEMMA Exhausts ==
    ASSUME NEW S \in SUBSET Id, \A i \in S : PromiseOf(i) = "owed",
           Promised' = Promised, Taken' = Taken, Hopeless' = Hopeless \cup S
    PROVE  Contract!Next
<1>1. \A i \in S : Promised[i] = "owed"
  BY DEF Promised
<1>2. Contract!Exhaust(S)
  BY <1>1 DEF Contract!Exhaust, Promised, Taken, Hopeless, Spent
<1> QED
  BY <1>2 DEF Contract!Next

LEMMA Posts ==
    ASSUME NEW i \in Id, PromiseOf(i) \in {"owed", "delivered", "dead"},
           Promised' = Promised,
           \/ Taken' = Taken \cup {i} /\ Hopeless' = Hopeless
           \/ Hopeless' = Hopeless \cup {i} /\ Taken' = Taken
    PROVE  Contract!Next
<1>1. Promised[i] \in {"owed", "delivered", "dead"}
  BY DEF Promised
<1>2. Contract!Post(i)
  BY <1>1 DEF Contract!Post, Promised, Taken, Hopeless, Spent
<1> QED
  BY <1>2 DEF Contract!Next

\* The posts, and the rows out of attempts, change with these variables only.
LEMMA SameTaken == taken' = taken => Taken' = Taken
  BY DEF Taken

LEMMA SameHopeless ==
    (\A i \in Id : row'[i].attempts = row[i].attempts) /\ refused' = refused
        => Hopeless' = Hopeless
  BY DEF Hopeless, Spent
-----------------------------------------------------------------------------
(* Every step of the outbox is a step of the contract, or none.            *)

LEMMA ContractStep ==
    TypeOK /\ IInv /\ [Next]_vars => [Contract!Next]_(Contract!vars)
<1> SUFFICES ASSUME TypeOK, IInv, [Next]_vars
             PROVE  Contract!Next \/ UNCHANGED Contract!vars
  OBVIOUS
<1> USE OutboxAssumption
<1>a. RowsHaveIntents /\ CronSound /\ AcksSound /\ BatchSound
  BY DEF IInv
<1>b. /\ \A i \in Id : row[i] \in Row /\ row[i].attempts \in 0 .. MaxAttempts
      /\ TypeOK' /\ Grows
  BY TypeStep, StepGrows DEF TypeOK, Row
<1>1. ASSUME NEW d \in Deal, EnqueueAlertIntent(d) PROVE Contract!Next
  <2> DEFINE i == DealAlert(d)
  <2>1. /\ i \in Id /\ row' = row /\ taken' = taken /\ refused' = refused
        /\ intent[i] = "absent" /\ intent'[i] # "absent"
        /\ \A j \in Id : j # i => intent'[j] = intent[j]
    BY <1>1 DEF EnqueueAlertIntent, Enqueued, DealAlert, Id, workerVars, TypeOK
  <2> HIDE DEF i
  <2>2. row[i].state = "absent"
    BY <1>a, <2>1 DEF RowsHaveIntents
  <2>3. PromiseOf(i) = "none" /\ PromiseOf(i)' = "owed"
    BY <2>1, <2>2, RowPromise, RowPromiseNext
  <2>4. \A j \in Id : j # i => PromiseOf(j)' = PromiseOf(j)
    BY <2>1, SamePromise
  <2> QED
    BY <2>1, <2>3, <2>4, Accepts, SameTaken, SameHopeless
<1>2. ASSUME NEW c \in Cron, ProjectSelect(c) \/ KillCron(c) PROVE UNCHANGED Contract!vars
  <2>1. intent' = intent /\ row' = row /\ taken' = taken /\ refused' = refused
    BY <1>2 DEF ProjectSelect, KillCron, workerVars
  <2> QED
    BY <2>1, SamePromise, Stutter
<1>3. ASSUME NEW c \in Cron, ProjectInsert(c) PROVE Contract!Next
  <2> DEFINE Made(i) == [NoRow EXCEPT !.state = InitialState(i, cron[c].mode)]
             S == {i \in cron[c].rows : row[i].state = "absent"
                                        /\ InitialState(i, cron[c].mode) = "SHADOW_HELD"}
  <2>1. /\ intent' = intent /\ taken' = taken /\ refused' = refused
        /\ cron[c].rows \subseteq Id
    BY <1>3 DEF ProjectInsert, workerVars, TypeOK
  <2>2. \A i \in Id : row'[i] = row[i] \/ /\ row[i].state = "absent" /\ i \in cron[c].rows
                                          /\ row'[i] = Made(i)
    BY <1>3 DEF ProjectInsert
  <2>3. \A i \in S : row'[i] = Made(i)
    BY <1>3, <2>1 DEF ProjectInsert
  <2>4. \A i \in Id : /\ Made(i).attempts = 0
                      /\ Made(i).state = InitialState(i, cron[c].mode)
    BY DEF NoRow
  <2>5. \A i \in Id : InitialState(i, cron[c].mode) \in {"PENDING", "SHADOW_HELD"}
    BY DEF InitialState
  <2>6. \A i \in cron[c].rows : row[i].state = "absent" => PromiseOf(i) = "owed"
    BY <1>a, <2>1, RowPromise DEF CronSound
  <2>7. \A i \in S : PromiseOf(i) = "owed" /\ PromiseOf(i)' = "held"
    <3> SUFFICES ASSUME NEW i \in S PROVE PromiseOf(i) = "owed" /\ PromiseOf(i)' = "held"
      OBVIOUS
    <3>1. /\ i \in Id /\ i \in cron[c].rows /\ row[i].state = "absent"
          /\ InitialState(i, cron[c].mode) = "SHADOW_HELD"
      BY <2>1
    <3>2. row'[i] = Made(i)
      BY <2>3
    <3> HIDE DEF S, Made
    <3>3. row'[i].state = "SHADOW_HELD"
      BY <2>4, <3>1, <3>2
    <3> QED
      BY <2>6, <3>1, <3>3, RowPromiseNext
  <2>8. \A i \in Id \ S : PromiseOf(i)' = PromiseOf(i)
    <3> SUFFICES ASSUME NEW i \in Id \ S PROVE PromiseOf(i)' = PromiseOf(i)
      OBVIOUS
    <3>1. CASE row'[i] = row[i]
      BY <2>1, <3>1, SamePromise
    <3>2. CASE /\ row[i].state = "absent" /\ i \in cron[c].rows
               /\ row'[i] = Made(i)
      <4>1. row'[i].state = "PENDING"
        BY <2>4, <2>5, <3>2
      <4> QED
        BY <2>6, <3>2, <4>1, RowPromiseNext
    <3> QED
      BY <2>2, <3>1, <3>2
  <2>9. \A i \in Id : row'[i].attempts = row[i].attempts
    <3> HIDE DEF Made
    <3> QED
      BY <1>a, <2>2, <2>4 DEF RowsHaveIntents
  <2>10. S \in SUBSET Id
    BY <2>1
  <2> HIDE DEF S, Made
  <2> QED
    BY <2>1, <2>7, <2>8, <2>9, <2>10, Holds, SameTaken, SameHopeless
<1>4. ASSUME NEW c \in Cron, ProjectMark(c) PROVE UNCHANGED Contract!vars
  <2>1. row' = row /\ taken' = taken /\ refused' = refused
    BY <1>4 DEF ProjectMark, workerVars
  <2>2. \A i \in Id : intent'[i] = "absent" <=> intent[i] = "absent"
    BY <1>4 DEF ProjectMark, TypeOK
  <2> QED
    BY <2>1, <2>2, SamePromise, Stutter
<1>5. ASSUME NEW w \in Worker, LeaseReclaim(w) PROVE UNCHANGED Contract!vars
  <2>1. intent' = intent /\ taken' = taken /\ refused' = refused
    BY <1>5 DEF LeaseReclaim, cronVars, webhookVars
  <2>2. \A i \in Id : \/ row'[i] = row[i]
                      \/ /\ row[i].state = "SENDING" /\ row'[i].state = "PENDING"
                         /\ row'[i].attempts = row[i].attempts
    <3>1. TAKE i \in Id
    <3>2. row[i] \in Row
      BY <1>b
    <3> DEFINE r == [row[i] EXCEPT !.state = "PENDING", !.by = None]
    <3>3. r.state = "PENDING" /\ r.attempts = row[i].attempts
      BY <3>2 DEF Row
    <3> HIDE DEF r
    <3>4. row'[i] = row[i] \/ (row[i].state = "SENDING" /\ row'[i] = r)
      BY <1>5 DEF LeaseReclaim, Lapsed, r
    <3> QED
      BY <3>3, <3>4
  <2>3. \A i \in Id : PromiseOf(i)' = PromiseOf(i)
    BY <2>1, <2>2, SamePromise, RowPromise, RowPromiseNext
  <2> QED
    BY <2>1, <2>2, <2>3, Stutter
<1>6. ASSUME NEW w \in Worker, LeaseClaim(w) PROVE Contract!Next
  <2>1. intent' = intent /\ taken' = taken /\ refused' = refused
    BY <1>6 DEF LeaseClaim, cronVars, webhookVars
  <2>2. PICK S \in Limited(Due, LeaseLimit) : row' = Claimed(w, S)
    BY <1>6 DEF LeaseClaim
  <2>3. S \subseteq Due
    BY LimitedSubset
  <2>4. \A i \in S : i \in Id /\ row[i].state = "PENDING" /\ row'[i].state = "SENDING"
    BY <1>b, <2>2, <2>3 DEF Claimed, Due, Row
  <2>5. \A i \in Id \ S : row'[i] = row[i]
    BY <2>2 DEF Claimed
  <2>6. \A i \in Id : PromiseOf(i)' = PromiseOf(i)
    BY <2>1, <2>4, <2>5, SamePromise, RowPromise, RowPromiseNext
  <2> DEFINE T == {i \in S : row'[i].attempts = MaxAttempts}
  <2>7. \A i \in Id : row[i].attempts = MaxAttempts => row'[i].attempts = MaxAttempts
    <3> SUFFICES ASSUME NEW i \in S, row[i].attempts = MaxAttempts
                 PROVE  row'[i].attempts = MaxAttempts
      BY <2>5
    <3>1. row'[i] = [row[i] EXCEPT !.state = "SENDING", !.by = w,
                        !.until = LeaseTime - asking[w],
                        !.attempts = IF @ < MaxAttempts THEN @ + 1 ELSE @]
      BY <2>2, <2>4 DEF Claimed
    <3>2. ~(MaxAttempts < MaxAttempts)
      OBVIOUS
    <3>3. row'[i] = [row[i] EXCEPT !.state = "SENDING", !.by = w,
                        !.until = LeaseTime - asking[w], !.attempts = MaxAttempts]
      BY <3>1, <3>2
    <3> QED
      BY <1>b, <2>4, <3>3 DEF Row
  <2>8. Spent' = Spent \cup T
    BY <2>4, <2>5, <2>7 DEF Spent
  <2>9. T \in SUBSET Id /\ \A i \in T : PromiseOf(i) = "owed"
    BY <2>4, RowPromise
  <2>10. Promised' = Promised /\ Taken' = Taken /\ Hopeless' = Hopeless \cup T
    BY <2>1, <2>6, <2>8, SameTaken DEF Promised, Hopeless
  <2> HIDE DEF T
  <2> QED
    BY <2>9, <2>10, Exhausts
<1>7. ASSUME NEW w \in Worker, CrashNotifier(w) PROVE UNCHANGED Contract!vars
  <2>1. intent' = intent /\ row' = row /\ taken' = taken /\ refused' = refused
    BY <1>7 DEF CrashNotifier, cronVars, webhookVars
  <2> QED
    BY <2>1, SamePromise, Stutter
<1>8. ASSUME NEW w \in Worker, NEW i \in Id, NEW v \in Verdict, PostAndAck(w, i, v)
      PROVE Contract!Next \/ UNCHANGED Contract!vars
  <2>1. intent' = intent /\ row' = row
    BY <1>8 DEF PostAndAck, cronVars
  <2>2. /\ \A j \in Id : PromiseOf(j)' = PromiseOf(j)
        /\ Promised' = Promised /\ Spent' = Spent
    BY <2>1, SamePromise DEF Promised, Spent
  <2>3. PromiseOf(i) \in {"owed", "delivered", "dead"}
    <3>1. row[i].state \in Handed
      BY <1>8, <1>a DEF PostAndAck, BatchSound
    <3> QED
      BY <3>1, RowPromise DEF Handed
  <2>4. CASE taken' = taken \cup {<<i, w>>} /\ refused' = refused
    <3>1. Taken' = Taken \cup {i} /\ Hopeless' = Hopeless
      BY <2>2, <2>4 DEF Taken, Hopeless
    <3> QED
      BY <2>2, <2>3, <3>1, Posts
  <2>5. CASE refused' = refused \cup {i} /\ taken' = taken
    <3>1. Taken' = Taken /\ Hopeless' = Hopeless \cup {i}
      BY <2>2, <2>5 DEF Taken, Hopeless
    <3> QED
      BY <2>2, <2>3, <3>1, Posts
  <2>6. CASE taken' = taken /\ refused' = refused
    BY <2>1, <2>2, <2>6, Stutter
  <2> QED
    BY <1>8, <2>4, <2>5, <2>6 DEF PostAndAck, Webhook, webhookVars
<1>9. ASSUME NEW a \in acks, AckDelivered(a) \/ AckRetry(a) \/ AckDead(a)
      PROVE Contract!Next \/ UNCHANGED Contract!vars
  <2>1. intent' = intent /\ taken' = taken /\ refused' = refused
    BY <1>9 DEF AckDelivered, AckRetry, AckDead, cronVars, webhookVars
  <2>2. PICK new \in Row :
           /\ Write(a, new)
           /\ new.attempts = row[a.id].attempts
           /\ AckDelivered(a) => new.state = "DELIVERED"
           /\ AckRetry(a) => new.state = "PENDING"
           /\ AckDead(a) => new.state = "DEAD"
    BY AckWrites, <1>9
  <2>3. /\ a.id \in Id
        /\ \A j \in Id : j # a.id => row'[j] = row[j]
        /\ StillSending(a) => /\ row'[a.id] = new
                              /\ row[a.id].state = "SENDING" /\ row[a.id].by = a.by
        /\ ~StillSending(a) => row'[a.id] = row[a.id]
    BY <2>2, WriteRows
  <2>4. \A j \in Id : row'[j].attempts = row[j].attempts
    BY <2>2, <2>3
  <2>5. \A j \in Id : j # a.id => PromiseOf(j)' = PromiseOf(j)
    BY <2>1, <2>3, SamePromise
  <2>6. Taken' = Taken /\ Hopeless' = Hopeless
    BY <2>1, <2>4, SameTaken, SameHopeless
  <2>7. CASE ~StillSending(a) \/ AckRetry(a)
    <3>1. PromiseOf(a.id)' = PromiseOf(a.id)
      BY <2>1, <2>2, <2>3, <2>7, SamePromise, RowPromise, RowPromiseNext
    <3> QED
      BY <2>1, <2>4, <2>5, <3>1, Stutter
  <2>8. CASE StillSending(a) /\ AckDelivered(a)
    <3>1. PromiseOf(a.id) = "owed" /\ PromiseOf(a.id)' = "delivered"
      BY <2>2, <2>3, <2>8, RowPromise, RowPromiseNext
    <3>2. a.id \in Taken
      BY <1>a, <2>3, <2>8 DEF AcksSound, AckDelivered, Taken, TypeOK, Ack
    <3> QED
      BY <2>3, <2>5, <2>6, <3>1, <3>2, Delivers
  <2>9. CASE StillSending(a) /\ AckDead(a)
    <3>1. PromiseOf(a.id) = "owed" /\ PromiseOf(a.id)' = "dead"
      BY <2>2, <2>3, <2>9, RowPromise, RowPromiseNext
    <3>2. a.id \in Hopeless
      <4>1. /\ a.verdict = "terminal" \/ a.attempts >= MaxAttempts
            /\ a.attempts \in 0 .. MaxAttempts
        BY <2>9 DEF AckDead, Retries, TypeOK, Ack, Verdict
      <4>2. CASE a.verdict = "terminal"
        BY <1>a, <4>2 DEF AcksSound, Hopeless
      <4>3. CASE a.attempts >= MaxAttempts
        <5>1. a.attempts <= row[a.id].attempts /\ row[a.id].attempts \in 0 .. MaxAttempts
          BY <1>a, <1>b, <2>3 DEF AcksSound
        <5>2. row[a.id].attempts = MaxAttempts
          BY <4>1, <4>3, <5>1
        <5> QED
          BY <2>3, <5>2 DEF Hopeless, Spent
      <4> QED
        BY <4>1, <4>2, <4>3
    <3> QED
      BY <2>3, <2>5, <2>6, <3>1, <3>2, GivesUp
  <2> QED
    BY <1>9, <2>7, <2>8, <2>9
<1>10. ASSUME NEW a \in acks, AckEscalate(a) PROVE Contract!Next \/ UNCHANGED Contract!vars
  <2> DEFINE i == AdminAlert(a.id[1])
  <2>1. /\ i \in Id /\ row' = row /\ taken' = taken /\ refused' = refused
        /\ \A j \in Id : j # i => intent'[j] = intent[j]
        /\ intent'[i] # "absent"
    BY <1>10 DEF AckEscalate, Enqueued, AdminAlert, Id, webhookVars, TypeOK, Ack
  <2> HIDE DEF i
  <2>2. \A j \in Id : j # i => PromiseOf(j)' = PromiseOf(j)
    BY <2>1, SamePromise
  <2>3. CASE intent[i] = "absent"
    <3>1. row[i].state = "absent"
      BY <1>a, <2>1, <2>3 DEF RowsHaveIntents
    <3>2. PromiseOf(i) = "none" /\ PromiseOf(i)' = "owed"
      BY <2>1, <2>3, <3>1, RowPromise, RowPromiseNext
    <3> QED
      BY <2>1, <2>2, <3>2, Accepts, SameTaken, SameHopeless
  <2>4. CASE intent[i] # "absent"
    <3>1. PromiseOf(i)' = PromiseOf(i)
      BY <2>1, <2>4, SamePromise
    <3> QED
      BY <2>1, <2>2, <3>1, Stutter
  <2> QED
    BY <2>3, <2>4
<1>11. ASSUME NEW a \in acks, KillAck(a) PROVE UNCHANGED Contract!vars
  <2>1. intent' = intent /\ row' = row /\ taken' = taken /\ refused' = refused
    BY <1>11 DEF KillAck, cronVars, webhookVars
  <2> QED
    BY <2>1, SamePromise, Stutter
<1>12. CASE Advance
  <2>1. intent' = intent /\ taken' = taken /\ refused' = refused
    BY <1>12 DEF Advance, cronVars, webhookVars
  <2>2. \A i \in Id : row'[i].state = row[i].state /\ row'[i].attempts = row[i].attempts
    BY <1>12, <1>b DEF Advance, Row
  <2> QED
    BY <2>1, <2>2, SamePromise, Stutter
<1>13. CASE UNCHANGED vars
  <2>1. intent' = intent /\ row' = row /\ taken' = taken /\ refused' = refused
    BY <1>13 DEF vars
  <2> QED
    BY <2>1, SamePromise, Stutter
<1> QED
  BY <1>1, <1>2, <1>3, <1>4, <1>5, <1>6, <1>7, <1>8, <1>9, <1>10, <1>11, <1>12,
     <1>13 DEF Next, AckStep

\* The outbox keeps the alert contract: an accepted alert is owed until it is
\* settled, settled once, DELIVERED only after a post was taken and DEAD only
\* after a refusal or the last attempt, and never posted while held in shadow.
THEOREM OutboxKeepsContract == Spec => KeepsContract
<1>1. Spec => [](TypeOK /\ IInv)
  BY Invariance
<1> QED
  BY <1>1, InitContract, ContractStep, PTL DEF Spec, KeepsContract, Contract!Spec
==================================================================================
