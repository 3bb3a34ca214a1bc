------------------------ MODULE NotificationOutbox_proofs ------------------------
(***************************************************************************)
(* Proofs about NotificationOutbox for every set of deals, notifiers and   *)
(* cron invocations, every limit, lease time and retry schedule.           *)
(***************************************************************************)
EXTENDS NotificationOutbox, TLAPS

\* The LIMIT clause picks from the rows it is given.
LEMMA LimitedSubset ==
    ASSUME NEW S, NEW limit, NEW T \in Limited(S, limit)
    PROVE  T \subseteq S
  BY DEF Limited

\* Counting a timer down keeps it within its bound.
LEMMA DownBounded ==
    /\ \A m \in Nat : \A n \in 0 .. m : Down(n) \in 0 .. m
    /\ \A n \in Nat : Down(n) \in Nat
  BY DEF Down

\* The updates the statements make to a row keep it a row.
LEMMA RowUpdates ==
    ASSUME NEW r \in Row, NEW s \in RowState, NEW b \in Worker \cup {None},
           NEW u \in 0 .. LeaseTime, NEW n \in Nat, NEW k \in 0 .. MaxAttempts
    PROVE  /\ [r EXCEPT !.state = s] \in Row
           /\ [r EXCEPT !.state = s, !.by = b] \in Row
           /\ [r EXCEPT !.state = s, !.until = u] \in Row
           /\ [r EXCEPT !.until = u, !.next = n] \in Row
           /\ [r EXCEPT !.state = s, !.by = b, !.until = u, !.next = n] \in Row
           /\ [r EXCEPT !.state = s, !.by = b, !.until = u, !.attempts = k] \in Row
  BY DEF Row

\* ... those of a claim in particular.
LEMMA ClaimedRow ==
    ASSUME NEW r \in Row, NEW b \in Worker, NEW u \in 0 .. LeaseTime
    PROVE  [r EXCEPT !.state = "SENDING", !.by = b, !.until = u,
                     !.attempts = IF @ < MaxAttempts THEN @ + 1 ELSE @] \in Row
<1> DEFINE k == IF r.attempts < MaxAttempts THEN r.attempts + 1 ELSE r.attempts
<1>1. r.attempts \in 0 .. MaxAttempts
  BY DEF Row
<1>2. k \in 0 .. MaxAttempts
  BY <1>1, OutboxAssumption
<1> HIDE DEF k
<1>3. [r EXCEPT !.state = "SENDING", !.by = b, !.until = u, !.attempts = k] \in Row
  BY <1>2 DEF Row, RowState
<1> QED
  BY <1>3 DEF k

LEMMA AckUpdates ==
    ASSUME NEW a \in Ack
    PROVE  [a EXCEPT !.to = None] \in Ack /\ [a EXCEPT !.step = "escalate"] \in Ack
  BY DEF Ack

LEMMA Constants == /\ 0 \in 0 .. LeaseTime /\ 0 \in 0 .. MaxAttempts
                   /\ {"PENDING", "SENDING", "DELIVERED", "DEAD", "SHADOW_HELD"}
                         \subseteq RowState
  BY OutboxAssumption DEF RowState

\* A guarded write puts a row in place or leaves the table as it was.
LEMMA WriteType ==
    ASSUME TypeOK, NEW a \in acks, NEW new \in Row, Write(a, new)
    PROVE  row' \in [Id -> Row]
  BY DEF Write, TypeOK, Ack

\* Finishing an acknowledgement only takes jobs out of its notifier's batch.
LEMMA FinishedType ==
    ASSUME TypeOK, NEW a \in acks, Finished(a)
    PROVE  /\ acks' = acks \ {a} /\ acks' \subseteq Ack
           /\ batch' \in [Worker -> SUBSET Id]
           /\ \A w \in Worker : batch'[w] \subseteq batch[w]
  BY DEF Finished, TypeOK, Ack

LEMMA InitType == Init => TypeOK
  BY OutboxAssumption DEF Init, TypeOK, Row, RowState, NoRow, Idle

LEMMA TypeStep == TypeOK /\ [Next]_vars => TypeOK'
<1> SUFFICES ASSUME TypeOK, [Next]_vars PROVE TypeOK'
  OBVIOUS
<1> USE OutboxAssumption
<1>1. ASSUME NEW d \in Deal, EnqueueAlertIntent(d) PROVE TypeOK'
  BY <1>1 DEF EnqueueAlertIntent, Enqueued, DealAlert, Id, TypeOK, workerVars
<1>2. ASSUME NEW c \in Cron, ProjectSelect(c) PROVE TypeOK'
  <2>1. PICK m \in Mode, S \in Limited(QueuedIntents, ProjectLimit) :
           cron' = [cron EXCEPT ![c] = [step |-> "insert", mode |-> m, rows |-> S]]
    BY <1>2 DEF ProjectSelect
  <2>2. S \subseteq Id
    BY LimitedSubset DEF QueuedIntents
  <2> QED
    BY <1>2, <2>1, <2>2 DEF ProjectSelect, TypeOK, workerVars
<1>3. ASSUME NEW c \in Cron, ProjectInsert(c) PROVE TypeOK'
  <2>1. \A i \in Id : [NoRow EXCEPT !.state = InitialState(i, cron[c].mode)] \in Row
    BY DEF NoRow, InitialState, Row, RowState
  <2>2. row' \in [Id -> Row]
    BY <1>3, <2>1 DEF ProjectInsert, TypeOK
  <2> QED
    BY <1>3, <2>2 DEF ProjectInsert, TypeOK, workerVars
<1>4. ASSUME NEW c \in Cron, ProjectMark(c) PROVE TypeOK'
  BY <1>4 DEF ProjectMark, Idle, TypeOK, workerVars
<1>5. ASSUME NEW c \in Cron, KillCron(c) PROVE TypeOK'
  BY <1>5 DEF KillCron, Idle, TypeOK, workerVars
<1>6. ASSUME NEW w \in Worker, LeaseReclaim(w) PROVE TypeOK'
  <2>1. \A i \in Id : [row[i] EXCEPT !.state = "PENDING", !.by = None] \in Row
    BY RowUpdates, Constants DEF TypeOK
  <2>2. row' \in [Id -> Row]
    BY <1>6, <2>1 DEF LeaseReclaim, TypeOK
  <2>3. asking' \in [Worker -> (0 .. LeaseTime) \cup {None}]
    BY <1>6, Constants DEF LeaseReclaim, TypeOK
  <2> QED
    BY <1>6, <2>2, <2>3 DEF LeaseReclaim, TypeOK, cronVars, webhookVars
<1>7. ASSUME NEW w \in Worker, LeaseClaim(w) PROVE TypeOK'
  <2>1. PICK S \in Limited(Due, LeaseLimit) :
           /\ row' = Claimed(w, S)
           /\ \/ batch' = [batch EXCEPT ![w] = S]
              \/ batch' = batch
    BY <1>7 DEF LeaseClaim
  <2>2. S \subseteq Id
    BY LimitedSubset DEF Due
  <2>3. asking[w] \in 0 .. LeaseTime
    BY <1>7 DEF LeaseClaim, TypeOK
  <2>4. LeaseTime - asking[w] \in 0 .. LeaseTime
    BY <2>3
  <2>5. row \in [Id -> Row]
    BY DEF TypeOK
  <2>6. \A i \in Id : [row[i] EXCEPT !.state = "SENDING", !.by = w,
                           !.until = LeaseTime - asking[w],
                           !.attempts = IF @ < MaxAttempts THEN @ + 1 ELSE @] \in Row
    <3> DEFINE u == LeaseTime - asking[w]
    <3> HIDE DEF u
    <3>1. TAKE i \in Id
    <3>2. row[i] \in Row /\ u \in 0 .. LeaseTime
      BY <2>4, <2>5 DEF u
    <3> QED
      BY <3>2, ClaimedRow DEF u
  <2>7. row' \in [Id -> Row]
    BY <2>1, <2>6 DEF Claimed, TypeOK
  <2> QED
    BY <1>7, <2>1, <2>2, <2>7 DEF LeaseClaim, TypeOK, cronVars, webhookVars
<1>8. ASSUME NEW w \in Worker, CrashNotifier(w) PROVE TypeOK'
  <2>1. \A a \in acks : a \in Ack /\ [a EXCEPT !.to = None] \in Ack
    BY AckUpdates DEF TypeOK
  <2>2. acks' \subseteq Ack
    BY <1>8, <2>1 DEF CrashNotifier, Abandoned
  <2> QED
    BY <1>8, <2>2 DEF CrashNotifier, Restarted, TypeOK, cronVars, webhookVars
<1>9. ASSUME NEW w \in Worker, NEW i \in Id, NEW v \in Verdict, PostAndAck(w, i, v)
      PROVE TypeOK'
  <2>1. taken' \subseteq Id \X Worker /\ refused' \subseteq Id
    BY <1>9 DEF PostAndAck, Webhook, TypeOK, webhookVars
  <2>2. row[i].attempts \in 0 .. MaxAttempts
    BY DEF TypeOK, Row
  <2>3. /\ batch' \in [Worker -> SUBSET Id]
        /\ acks' \subseteq Ack
    BY <1>9, <2>2 DEF PostAndAck, Restarted, TypeOK, Ack
  <2> QED
    BY <1>9, <2>1, <2>3 DEF PostAndAck, TypeOK, cronVars
<1>10. ASSUME NEW a \in acks, AckDelivered(a) PROVE TypeOK'
  <2>1. [row[a.id] EXCEPT !.state = "DELIVERED", !.until = 0] \in Row
    BY RowUpdates, Constants DEF TypeOK, Ack
  <2>2. row' \in [Id -> Row]
    BY <1>10, <2>1, WriteType DEF AckDelivered
  <2> QED
    BY <1>10, <2>2, FinishedType
       DEF AckDelivered, TypeOK, cronVars, webhookVars
<1>11. ASSUME NEW a \in acks, AckRetry(a) PROVE TypeOK'
  <2>1. PICK left \in 0 .. RetryDelay[a.attempts] :
           Write(a, [row[a.id] EXCEPT !.state = "PENDING", !.by = None,
                                      !.until = 0, !.next = left])
    BY <1>11 DEF AckRetry
  <2>2. left \in Nat
    BY <2>1
  <2>3. [row[a.id] EXCEPT !.state = "PENDING", !.by = None,
                          !.until = 0, !.next = left] \in Row
    BY <2>2, RowUpdates, Constants DEF TypeOK, Ack
  <2>4. row' \in [Id -> Row]
    BY <2>1, <2>3, WriteType
  <2> QED
    BY <1>11, <2>4, FinishedType DEF AckRetry, TypeOK, cronVars, webhookVars
<1>12. ASSUME NEW a \in acks, AckDead(a) PROVE TypeOK'
  <2>1. [row[a.id] EXCEPT !.state = "DEAD", !.until = 0] \in Row
    BY RowUpdates, Constants DEF TypeOK, Ack
  <2>2. row' \in [Id -> Row]
    BY <1>12, <2>1, WriteType DEF AckDead
  <2>3. /\ batch' \in [Worker -> SUBSET Id]
        /\ acks' \subseteq Ack
    <3>1. CASE a.id[2] = "DEAL"
      <4>1. a \in Ack /\ [a EXCEPT !.step = "escalate"] \in Ack
        BY AckUpdates DEF TypeOK
      <4>2. acks' = (acks \ {a}) \cup {[a EXCEPT !.step = "escalate"]} /\ batch' = batch
        BY <1>12, <3>1 DEF AckDead
      <4> QED
        BY <4>1, <4>2 DEF TypeOK
    <3>2. CASE a.id[2] # "DEAL"
      BY <1>12, <3>2, FinishedType DEF AckDead
    <3> QED
      BY <3>1, <3>2
  <2> QED
    BY <1>12, <2>2, <2>3 DEF AckDead, TypeOK, cronVars, webhookVars
<1>13. ASSUME NEW a \in acks, AckEscalate(a) PROVE TypeOK'
  BY <1>13, FinishedType
     DEF AckEscalate, Enqueued, AdminAlert, Id, Ack, TypeOK, webhookVars
<1>14. ASSUME NEW a \in acks, KillAck(a) PROVE TypeOK'
  BY <1>14 DEF KillAck, Restarted, Ack, TypeOK, cronVars, webhookVars
<1>15. ASSUME Advance PROVE TypeOK'
  <2>1. \A i \in Id : [row[i] EXCEPT !.until = Down(@), !.next = Down(@)] \in Row
    <3> TAKE i \in Id
    <3>1. Down(row[i].until) \in 0 .. LeaseTime /\ Down(row[i].next) \in Nat
      BY DownBounded DEF TypeOK, Row
    <3> QED
      BY <3>1, RowUpdates, Constants DEF TypeOK
  <2>3. row' \in [Id -> Row]
    BY <1>15, <2>1 DEF Advance
  <2>2. asking' \in [Worker -> (0 .. LeaseTime) \cup {None}]
    <3>1. ASSUME NEW w \in Worker
          PROVE  (IF asking[w] = None \/ asking[w] = LeaseTime
                  THEN asking[w] ELSE asking[w] + 1) \in (0 .. LeaseTime) \cup {None}
      <4>1. CASE asking[w] = None
        BY <4>1
      <4>2. CASE asking[w] \in 0 .. LeaseTime
        BY <4>2
      <4> QED
        BY <4>1, <4>2 DEF TypeOK
    <3> QED
      BY <1>15, <3>1 DEF Advance
  <2> QED
    BY <1>15, <2>2, <2>3 DEF Advance, TypeOK, cronVars, webhookVars
<1>16. CASE UNCHANGED vars
  BY <1>16 DEF TypeOK, vars
<1> QED
  BY <1>1, <1>2, <1>3, <1>4, <1>5, <1>6, <1>7, <1>8, <1>9, <1>10, <1>11, <1>12,
     <1>13, <1>14, <1>15, <1>16 DEF Next, AckStep

\* The tables, the requests under way and the notifiers' batches keep their
\* types in every reachable state.
THEOREM TypeCorrect == Spec => []TypeOK
  BY InitType, TypeStep, PTL DEF Spec
-----------------------------------------------------------------------------
(* The inductive invariant.                                                *)

\* A row a notifier may hold a job or an acknowledgement for.
Handed == {"PENDING", "SENDING", "DELIVERED", "DEAD"}

RowsHaveIntents ==
    \A i \in Id : /\ row[i].state # "absent" => intent[i] # "absent"
                  /\ row[i].state = "absent" => row[i].attempts = 0

CronSound ==
    \A c \in Cron : \A i \in cron[c].rows :
        /\ intent[i] # "absent"
        /\ cron[c].step = "mark" => row[i].state # "absent"

AcksSound ==
    \A a \in acks :
        /\ row[a.id].state \in Handed /\ a.attempts <= row[a.id].attempts
        /\ a.verdict = "ok" => <<a.id, a.by>> \in taken
        /\ a.verdict = "terminal" => a.id \in refused

BatchSound == \A w \in Worker : \A i \in batch[w] : row[i].state \in Handed

\* NoAlertLost and DeliveredByItsClaimant are not inductive by themselves: the
\* first needs what an invocation of the cron has already inserted, the second
\* what an acknowledgement under way knows of its post.
IInv == /\ NoAlertLost /\ DeliveredByItsClaimant
        /\ RowsHaveIntents /\ CronSound /\ AcksSound /\ BatchSound

\* What no step takes back: rows, intents and posts are never withdrawn, and
\* the attempts of a row are never reset.
Grows ==
    /\ \A i \in Id : intent[i] # "absent" => intent'[i] # "absent"
    /\ \A i \in Id : row[i].state # "absent" => row'[i].state # "absent"
    /\ \A i \in Id : row[i].state \in Handed =>
          row'[i].state \in Handed /\ row[i].attempts <= row'[i].attempts
    /\ taken \subseteq taken' /\ refused \subseteq refused'

\* A guarded write only touches the row of its acknowledgement, and only when
\* that row is being sent.
LEMMA WriteRows ==
    ASSUME TypeOK, NEW a \in acks, NEW new \in Row, Write(a, new)
    PROVE  /\ a.id \in Id
           /\ \A i \in Id : i # a.id => row'[i] = row[i]
           /\ StillSending(a) => row'[a.id] = new
           /\ ~StillSending(a) => row'[a.id] = row[a.id]
           /\ StillSending(a) => row[a.id].state = "SENDING" /\ row[a.id].by = a.by
  BY DEF Write, TypeOK, Ack, StillSending

\* The row an acknowledgement's write puts in place, for each of its verdicts.
LEMMA AckWrites ==
    ASSUME TypeOK, NEW a \in acks, AckDelivered(a) \/ AckRetry(a) \/ AckDead(a)
    PROVE  \E new \in Row :
              /\ Write(a, new)
              /\ new.attempts = row[a.id].attempts
              /\ AckDelivered(a) => new.state = "DELIVERED" /\ new.by = row[a.id].by
              /\ AckRetry(a) => new.state = "PENDING"
              /\ AckDead(a) => new.state = "DEAD"
              /\ a.step = "write" /\ a.id \in Id /\ a.by \in Worker
<1>1. a.step = "write" /\ a.id \in Id /\ a.by \in Worker /\ row[a.id] \in Row
  BY DEF AckDelivered, AckRetry, AckDead, TypeOK, Ack
<1>2. CASE AckDelivered(a)
  <2> DEFINE new == [row[a.id] EXCEPT !.state = "DELIVERED", !.until = 0]
  <2>1. new \in Row
    BY <1>1, RowUpdates, Constants
  <2>2. new.state = "DELIVERED" /\ new.by = row[a.id].by
        /\ new.attempts = row[a.id].attempts
    BY <1>1 DEF Row
  <2>3. Write(a, new) /\ a.verdict = "ok"
    BY <1>2 DEF AckDelivered
  <2>4. ~AckRetry(a) /\ ~AckDead(a)
    BY <2>3 DEF AckRetry, AckDead, Retries
  <2> QED
    BY <1>1, <2>1, <2>2, <2>3, <2>4
<1>3. CASE AckRetry(a)
  <2>1. PICK left \in 0 .. RetryDelay[a.attempts] :
           Write(a, [row[a.id] EXCEPT !.state = "PENDING", !.by = None,
                                      !.until = 0, !.next = left])
    BY <1>3 DEF AckRetry
  <2> DEFINE new == [row[a.id] EXCEPT !.state = "PENDING", !.by = None,
                                      !.until = 0, !.next = left]
  <2>2. left \in Nat
    BY <2>1
  <2>3. new \in Row
    BY <1>1, <2>2, RowUpdates, Constants
  <2>4. new.state = "PENDING" /\ new.attempts = row[a.id].attempts
    BY <1>1 DEF Row
  <2>5. ~AckDelivered(a) /\ ~AckDead(a)
    BY <1>3 DEF AckRetry, AckDelivered, AckDead, Retries
  <2> QED
    BY <1>1, <2>1, <2>3, <2>4, <2>5
<1>4. CASE AckDead(a)
  <2> DEFINE new == [row[a.id] EXCEPT !.state = "DEAD", !.until = 0]
  <2>1. new \in Row
    BY <1>1, RowUpdates, Constants
  <2>2. new.state = "DEAD" /\ new.attempts = row[a.id].attempts
    BY <1>1 DEF Row
  <2>3. Write(a, new)
    BY <1>4 DEF AckDead
  <2>4. ~AckDelivered(a) /\ ~AckRetry(a)
    BY <1>4 DEF AckDead, AckDelivered, AckRetry
  <2> QED
    BY <1>1, <2>1, <2>2, <2>3, <2>4
<1> QED
  BY <1>2, <1>3, <1>4

LEMMA StepGrows == TypeOK /\ [Next]_vars => Grows
<1> SUFFICES ASSUME TypeOK, [Next]_vars PROVE Grows
  OBVIOUS
<1> USE OutboxAssumption
<1>0. \A i \in Id : row[i] \in Row /\ row[i].attempts \in Nat
  BY DEF TypeOK, Row
<1>1. ASSUME NEW d \in Deal, EnqueueAlertIntent(d) PROVE Grows
  BY <1>0, <1>1 DEF EnqueueAlertIntent, Enqueued, DealAlert, Grows, TypeOK, workerVars
<1>2. ASSUME NEW c \in Cron, ProjectSelect(c) PROVE Grows
  BY <1>0, <1>2 DEF ProjectSelect, Grows, workerVars
<1>3. ASSUME NEW c \in Cron, ProjectInsert(c) PROVE Grows
  <2>1. \A i \in Id : row[i].state # "absent" => row'[i] = row[i]
    BY <1>3 DEF ProjectInsert
  <2>2. \A i \in Id : [NoRow EXCEPT !.state = InitialState(i, cron[c].mode)].state # "absent"
    BY DEF NoRow, InitialState
  <2> QED
    BY <1>0, <1>3, <2>1, <2>2 DEF ProjectInsert, Grows, Handed, workerVars
<1>4. ASSUME NEW c \in Cron, ProjectMark(c) PROVE Grows
  BY <1>0, <1>4 DEF ProjectMark, Grows, TypeOK, workerVars
<1>5. ASSUME NEW c \in Cron, KillCron(c) PROVE Grows
  BY <1>0, <1>5 DEF KillCron, Grows, workerVars
<1>6. ASSUME NEW w \in Worker, LeaseReclaim(w) PROVE Grows
  <2>1. \A i \in Id : \/ row'[i] = row[i]
                      \/ row'[i].state = "PENDING" /\ row'[i].attempts = row[i].attempts
    BY <1>0, <1>6 DEF LeaseReclaim, Row
  <2>2. intent' = intent /\ taken' = taken /\ refused' = refused
    BY <1>6 DEF LeaseReclaim, cronVars, webhookVars
  <2> QED
    BY <1>0, <2>1, <2>2 DEF Grows, Handed
<1>7. ASSUME NEW w \in Worker, LeaseClaim(w) PROVE Grows
  <2>1. PICK S \in Limited(Due, LeaseLimit) : row' = Claimed(w, S)
    BY <1>7 DEF LeaseClaim
  <2>2. ASSUME NEW i \in Id
        PROVE  \/ row'[i] = row[i]
               \/ row'[i].state = "SENDING" /\ row'[i].attempts >= row[i].attempts
    <3> DEFINE more == IF row[i].attempts < MaxAttempts THEN row[i].attempts + 1
                                                       ELSE row[i].attempts
    <3>1. more >= row[i].attempts
      BY <1>0
    <3>2. i \in S => row'[i] = [row[i] EXCEPT !.state = "SENDING", !.by = w,
                                    !.until = LeaseTime - asking[w], !.attempts = more]
      BY <2>1 DEF Claimed
    <3>3. i \notin S => row'[i] = row[i]
      BY <2>1 DEF Claimed
    <3> HIDE DEF more
    <3>4. i \in S => row'[i].state = "SENDING" /\ row'[i].attempts = more
      BY <1>0, <3>2 DEF Row
    <3> QED
      BY <3>1, <3>3, <3>4
  <2>3. intent' = intent /\ taken' = taken /\ refused' = refused
    BY <1>7 DEF LeaseClaim, cronVars, webhookVars
  <2> QED
    BY <1>0, <2>2, <2>3 DEF Grows, Handed
<1>8. ASSUME NEW w \in Worker, CrashNotifier(w) PROVE Grows
  BY <1>0, <1>8 DEF CrashNotifier, Grows, cronVars, webhookVars
<1>9. ASSUME NEW w \in Worker, NEW i \in Id, NEW v \in Verdict, PostAndAck(w, i, v)
      PROVE Grows
  BY <1>0, <1>9 DEF PostAndAck, Webhook, Grows, cronVars, webhookVars
<1>10. ASSUME NEW a \in acks, AckDelivered(a) \/ AckRetry(a) \/ AckDead(a) PROVE Grows
  <2>1. PICK new \in Row : /\ Write(a, new) /\ new.attempts = row[a.id].attempts
                           /\ new.state \in Handed
    BY <1>10, AckWrites DEF Handed
  <2>2. \A i \in Id : \/ row'[i] = row[i]
                      \/ row'[i].state \in Handed /\ row'[i].attempts = row[i].attempts
    BY <2>1, WriteRows
  <2>3. intent' = intent /\ taken' = taken /\ refused' = refused
    BY <1>10 DEF AckDelivered, AckRetry, AckDead, cronVars, webhookVars
  <2> QED
    BY <1>0, <2>2, <2>3 DEF Grows, Handed
<1>11. ASSUME NEW a \in acks, AckEscalate(a) PROVE Grows
  BY <1>0, <1>11 DEF AckEscalate, Enqueued, Grows, TypeOK, webhookVars
<1>12. ASSUME NEW a \in acks, KillAck(a) PROVE Grows
  BY <1>0, <1>12 DEF KillAck, Grows, cronVars, webhookVars
<1>13. ASSUME Advance PROVE Grows
  <2>1. \A i \in Id : row'[i].state = row[i].state /\ row'[i].attempts = row[i].attempts
    BY <1>0, <1>13 DEF Advance, Row
  <2>2. intent' = intent /\ taken' = taken /\ refused' = refused
    BY <1>13 DEF Advance, cronVars, webhookVars
  <2> QED
    BY <1>0, <2>1, <2>2 DEF Grows
<1>14. CASE UNCHANGED vars
  BY <1>0, <1>14 DEF Grows, vars
<1> QED
  BY <1>1, <1>2, <1>3, <1>4, <1>5, <1>6, <1>7, <1>8, <1>9, <1>10, <1>11, <1>12,
     <1>13, <1>14 DEF Next, AckStep
-----------------------------------------------------------------------------
(* Every step keeps the invariant. A step disturbs only some of its parts; *)
(* the frame lemmas keep the others.                                       *)

LEMMA IntentFrame ==
    ASSUME Grows, NoAlertLost,
           \A i \in Id : intent'[i] = "projected" => intent[i] = "projected"
    PROVE  NoAlertLost'
  BY DEF Grows, NoAlertLost

LEMMA RowFrame ==
    ASSUME Grows, DeliveredByItsClaimant, RowsHaveIntents,
           \A i \in Id : row[i].state = "absent" =>
               row'[i].state = "absent" /\ row'[i].attempts = row[i].attempts,
           \A i \in Id : row'[i].state = "DELIVERED" =>
                            row[i].state = "DELIVERED" /\ row'[i].by = row[i].by
    PROVE  DeliveredByItsClaimant' /\ RowsHaveIntents'
<1>1. DeliveredByItsClaimant'
  BY DEF Grows, DeliveredByItsClaimant
<1>2. RowsHaveIntents'
  BY DEF Grows, RowsHaveIntents, NoRow
<1> QED
  BY <1>1, <1>2

LEMMA CronFrame ==
    ASSUME Grows, CronSound, TypeOK,
           \A c \in Cron : cron'[c] = cron[c] \/ cron'[c].rows = {}
    PROVE  CronSound'
  BY DEF CronSound, Grows, TypeOK

LEMMA AcksFrame ==
    ASSUME Grows, AcksSound, TypeOK, TypeOK',
           \A b \in acks' : \E a \in acks :
               /\ b.id = a.id /\ b.by = a.by
               /\ b.verdict = a.verdict /\ b.attempts = a.attempts
    PROVE  AcksSound'
<1> SUFFICES ASSUME NEW b \in acks'
             PROVE  /\ row'[b.id].state \in Handed /\ b.attempts <= row'[b.id].attempts
                    /\ b.verdict = "ok" => <<b.id, b.by>> \in taken'
                    /\ b.verdict = "terminal" => b.id \in refused'
  BY DEF AcksSound
<1>1. PICK a \in acks : /\ b.id = a.id /\ b.by = a.by
                        /\ b.verdict = a.verdict /\ b.attempts = a.attempts
  OBVIOUS
<1>2. a.id \in Id /\ a.attempts \in Nat
  BY DEF TypeOK, Ack
<1>3. row[a.id].attempts \in Nat /\ row'[a.id].attempts \in Nat
  BY <1>2 DEF TypeOK, Row
<1> QED
  BY <1>1, <1>2, <1>3 DEF Grows, AcksSound

LEMMA BatchFrame ==
    ASSUME Grows, BatchSound, TypeOK, \A w \in Worker : batch'[w] \subseteq batch[w]
    PROVE  BatchSound'
  BY DEF Grows, BatchSound, TypeOK

LEMMA InitIInv == Init => IInv
<1> SUFFICES ASSUME Init PROVE IInv
  OBVIOUS
<1>1. NoAlertLost /\ DeliveredByItsClaimant /\ RowsHaveIntents
  BY DEF Init, NoAlertLost, DeliveredByItsClaimant, RowsHaveIntents, NoRow
<1>2. CronSound /\ AcksSound /\ BatchSound
  BY DEF Init, CronSound, AcksSound, BatchSound, Idle
<1> QED
  BY <1>1, <1>2 DEF IInv

LEMMA IInvStep == TypeOK /\ IInv /\ [Next]_vars => IInv'
<1> SUFFICES ASSUME TypeOK, IInv, [Next]_vars PROVE IInv'
  OBVIOUS
<1> USE OutboxAssumption
<1>a. Grows /\ TypeOK'
  BY StepGrows, TypeStep
<1>b. /\ NoAlertLost /\ DeliveredByItsClaimant
      /\ RowsHaveIntents /\ CronSound /\ AcksSound /\ BatchSound
  BY DEF IInv
<1>c. \A i \in Id : row[i] \in Row
  BY DEF TypeOK
<1>1. ASSUME NEW d \in Deal, EnqueueAlertIntent(d) PROVE IInv'
  <2>1. NoAlertLost'
    BY <1>a, <1>b, <1>1, IntentFrame DEF EnqueueAlertIntent, Enqueued, TypeOK
  <2>2. row' = row /\ cron' = cron /\ batch' = batch /\ acks' = acks
    BY <1>1 DEF EnqueueAlertIntent, workerVars
  <2> QED
    BY <1>a, <1>b, <2>1, <2>2, RowFrame, CronFrame, AcksFrame, BatchFrame DEF IInv
<1>2. ASSUME NEW c \in Cron, ProjectSelect(c) PROVE IInv'
  <2>1. intent' = intent /\ row' = row /\ batch' = batch /\ acks' = acks
    BY <1>2 DEF ProjectSelect, workerVars
  <2>2. PICK m \in Mode, S \in Limited(QueuedIntents, ProjectLimit) :
           cron' = [cron EXCEPT ![c] = [step |-> "insert", mode |-> m, rows |-> S]]
    BY <1>2 DEF ProjectSelect
  <2>3. S \subseteq QueuedIntents
    BY LimitedSubset
  <2>4. CronSound'
    BY <1>b, <2>1, <2>2, <2>3 DEF CronSound, QueuedIntents, TypeOK
  <2> QED
    BY <1>a, <1>b, <2>1, <2>4, IntentFrame, RowFrame, AcksFrame, BatchFrame DEF IInv
<1>3. ASSUME NEW c \in Cron, ProjectInsert(c) PROVE IInv'
  <2>1. intent' = intent /\ taken' = taken /\ batch' = batch /\ acks' = acks
    BY <1>3 DEF ProjectInsert, workerVars
  <2>2. \A i \in Id : /\ [NoRow EXCEPT !.state = InitialState(i, cron[c].mode)].state
                            \in {"PENDING", "SHADOW_HELD"}
    BY DEF NoRow, InitialState
  <2>3. \A i \in Id : \/ row'[i] = row[i] /\ (i \in cron[c].rows => row[i].state # "absent")
                      \/ /\ row'[i].state \in {"PENDING", "SHADOW_HELD"}
                         /\ i \in cron[c].rows
    BY <1>3, <2>2 DEF ProjectInsert
  <2>4. DeliveredByItsClaimant'
    BY <1>b, <2>1, <2>3 DEF DeliveredByItsClaimant
  <2>5. RowsHaveIntents'
    BY <1>b, <2>1, <2>3 DEF RowsHaveIntents, CronSound
  <2>6. CronSound'
    <3>1. \A b \in Cron : b # c => cron'[b] = cron[b]
      BY <1>3 DEF ProjectInsert, TypeOK
    <3>2. cron'[c].rows = cron[c].rows /\ \A i \in cron[c].rows : row'[i].state # "absent"
      BY <1>3, <2>3 DEF ProjectInsert, TypeOK
    <3>3. ASSUME NEW b \in Cron, NEW i \in cron'[b].rows
          PROVE  intent'[i] # "absent" /\ (cron'[b].step = "mark" => row'[i].state # "absent")
      <4>1. i \in cron[b].rows /\ i \in Id
        BY <3>1, <3>2 DEF TypeOK
      <4> QED
        BY <1>a, <1>b, <2>1, <3>1, <3>2, <4>1 DEF CronSound, Grows
    <3> QED
      BY <3>3 DEF CronSound
  <2> QED
    BY <1>a, <1>b, <2>1, <2>4, <2>5, <2>6, IntentFrame, AcksFrame, BatchFrame DEF IInv
<1>4. ASSUME NEW c \in Cron, ProjectMark(c) PROVE IInv'
  <2>1. row' = row /\ batch' = batch /\ acks' = acks
    BY <1>4 DEF ProjectMark, workerVars
  <2>2. NoAlertLost'
    BY <1>b, <1>4, <2>1 DEF ProjectMark, NoAlertLost, CronSound
  <2>3. \A b \in Cron : cron'[b] = cron[b] \/ cron'[b].rows = {}
    BY <1>4 DEF ProjectMark, Idle, TypeOK
  <2> QED
    BY <1>a, <1>b, <2>1, <2>2, <2>3, RowFrame, CronFrame, AcksFrame, BatchFrame DEF IInv
<1>5. ASSUME NEW c \in Cron, KillCron(c) PROVE IInv'
  <2>1. intent' = intent /\ row' = row /\ batch' = batch /\ acks' = acks
    BY <1>5 DEF KillCron, workerVars
  <2>2. \A b \in Cron : cron'[b] = cron[b] \/ cron'[b].rows = {}
    BY <1>5 DEF KillCron, Idle, TypeOK
  <2> QED
    BY <1>a, <1>b, <2>1, <2>2, IntentFrame, RowFrame, CronFrame, AcksFrame, BatchFrame
       DEF IInv
<1>6. ASSUME NEW w \in Worker, LeaseReclaim(w) PROVE IInv'
  <2>1. intent' = intent /\ cron' = cron /\ batch' = batch /\ acks' = acks
    BY <1>6 DEF LeaseReclaim, cronVars
  <2>2. \A i \in Id : row[i].state # "SENDING" => row'[i] = row[i]
    BY <1>6 DEF LeaseReclaim, Lapsed
  <2>3. \A i \in Id : row'[i] = row[i] \/ row'[i].state = "PENDING"
    BY <1>6, <1>c DEF LeaseReclaim, Row
  <2>4. DeliveredByItsClaimant' /\ RowsHaveIntents'
    BY <1>a, <1>b, <2>2, <2>3, RowFrame
  <2> QED
    BY <1>a, <1>b, <2>1, <2>4, IntentFrame, CronFrame, AcksFrame, BatchFrame DEF IInv
<1>7. ASSUME NEW w \in Worker, LeaseClaim(w) PROVE IInv'
  <2>1. intent' = intent /\ cron' = cron /\ acks' = acks
    BY <1>7 DEF LeaseClaim, cronVars
  <2>2. PICK S \in Limited(Due, LeaseLimit) :
           /\ row' = Claimed(w, S)
           /\ batch' = [batch EXCEPT ![w] = S] \/ batch' = batch
    BY <1>7 DEF LeaseClaim
  <2>3. S \subseteq Due
    BY LimitedSubset
  <2>4. \A i \in Id : row[i].state # "PENDING" => row'[i] = row[i]
    BY <2>2, <2>3 DEF Claimed, Due
  <2>5. \A i \in Id : row'[i] = row[i] \/ row'[i].state = "SENDING"
    BY <1>c, <2>2 DEF Claimed, Row
  <2>6. DeliveredByItsClaimant' /\ RowsHaveIntents'
    BY <1>a, <1>b, <2>4, <2>5, RowFrame
  <2>7. BatchSound'
    <3>1. \A i \in S : i \in Id /\ row[i].state = "PENDING"
      BY <2>3 DEF Due
    <3>2. \A v \in Worker : \A i \in batch'[v] : i \in batch[v] \/ i \in S
      BY <2>2 DEF TypeOK
    <3> QED
      BY <1>a, <1>b, <3>1, <3>2 DEF Grows, BatchSound, Handed, TypeOK
  <2> QED
    BY <1>a, <1>b, <2>1, <2>6, <2>7, IntentFrame, CronFrame, AcksFrame DEF IInv
<1>8. ASSUME NEW w \in Worker, CrashNotifier(w) PROVE IInv'
  <2>1. intent' = intent /\ row' = row /\ cron' = cron
    BY <1>8 DEF CrashNotifier, cronVars
  <2>2. AcksSound'
    <3>1. \A b \in acks' : \E a \in acks : b = a \/ b = [a EXCEPT !.to = None]
      BY <1>8 DEF CrashNotifier, Abandoned
    <3>2. \A a \in acks : LET b == [a EXCEPT !.to = None]
                          IN  /\ b.id = a.id /\ b.by = a.by
                              /\ b.verdict = a.verdict /\ b.attempts = a.attempts
      BY DEF TypeOK, Ack
    <3>3. \A b \in acks' : \E a \in acks : /\ b.id = a.id /\ b.by = a.by
                                           /\ b.verdict = a.verdict
                                           /\ b.attempts = a.attempts
      <4>1. TAKE b \in acks'
      <4>2. PICK a \in acks : b = a \/ b = [a EXCEPT !.to = None]
        BY <3>1
      <4> QED
        BY <3>2, <4>2
    <3>4. AcksSound
      BY <1>b
    <3> QED
      BY <1>a, <3>3, <3>4, AcksFrame
  <2>3. \A v \in Worker : batch'[v] \subseteq batch[v]
    BY <1>8 DEF CrashNotifier, Restarted, TypeOK
  <2> QED
    BY <1>a, <1>b, <2>1, <2>2, <2>3, IntentFrame, RowFrame, CronFrame, BatchFrame DEF IInv
<1>9. ASSUME NEW w \in Worker, NEW i \in Id, NEW v \in Verdict, PostAndAck(w, i, v)
      PROVE IInv'
  <2>1. intent' = intent /\ row' = row /\ cron' = cron
    BY <1>9 DEF PostAndAck, cronVars
  <2>2. \A u \in Worker : batch'[u] \subseteq batch[u]
    <3>1. \/ batch' = [batch EXCEPT ![w] = @ \ {i}]
          \/ batch' = [batch EXCEPT ![w] = {}]
          \/ batch' = batch
      BY <1>9 DEF PostAndAck, Restarted
    <3>2. batch \in [Worker -> SUBSET Id]
      BY DEF TypeOK
    <3> QED
      BY ONLY <3>1, <3>2
  <2>3. /\ v = "ok" => <<i, w>> \in taken'
        /\ v = "terminal" => i \in refused'
    BY <1>9 DEF PostAndAck, Webhook
  <2>4. row[i].state \in Handed /\ row[i].attempts \in Nat
    BY <1>9, <1>b DEF PostAndAck, BatchSound, TypeOK, Row
  <2> DEFINE new == [id |-> i, by |-> w, verdict |-> v, attempts |-> row[i].attempts,
                     step |-> "write", to |-> w]
  <2>5. acks' = acks \/ acks' = acks \cup {new}
    BY <1>9 DEF PostAndAck
  <2>6. AcksSound'
    <3>1. ASSUME NEW a \in acks
          PROVE  /\ row'[a.id].state \in Handed /\ a.attempts <= row'[a.id].attempts
                 /\ a.verdict = "ok" => <<a.id, a.by>> \in taken'
                 /\ a.verdict = "terminal" => a.id \in refused'
      BY <1>a, <1>b, <2>1, <3>1 DEF AcksSound, Grows
    <3>2. /\ row'[new.id].state \in Handed /\ new.attempts <= row'[new.id].attempts
          /\ new.verdict = "ok" => <<new.id, new.by>> \in taken'
          /\ new.verdict = "terminal" => new.id \in refused'
      BY <2>1, <2>3, <2>4
    <3> HIDE DEF new
    <3> QED
      BY <2>5, <3>1, <3>2 DEF AcksSound
  <2> QED
    BY <1>a, <1>b, <2>1, <2>2, <2>6, IntentFrame, RowFrame, CronFrame, BatchFrame DEF IInv
<1>10. ASSUME NEW a \in acks, AckDelivered(a) \/ AckRetry(a) \/ AckDead(a) PROVE IInv'
  <2>1. intent' = intent /\ cron' = cron /\ taken' = taken /\ refused' = refused
    BY <1>10 DEF AckDelivered, AckRetry, AckDead, cronVars, webhookVars
  <2>2. PICK new \in Row :
           /\ Write(a, new)
           /\ AckDelivered(a) => new.state = "DELIVERED" /\ new.by = row[a.id].by
           /\ AckRetry(a) => new.state = "PENDING"
           /\ AckDead(a) => new.state = "DEAD"
    BY AckWrites, <1>10
  <2>3. /\ a.id \in Id
        /\ \A i \in Id : row'[i] # row[i] => /\ i = a.id /\ row'[i] = new
                                             /\ row[i].state = "SENDING" /\ row[i].by = a.by
    BY <2>2, WriteRows
  <2>4. AckDelivered(a) => <<a.id, a.by>> \in taken
    BY <1>b DEF AckDelivered, AcksSound
  <2>5. DeliveredByItsClaimant'
    BY <1>10, <1>b, <2>1, <2>2, <2>3, <2>4 DEF DeliveredByItsClaimant
  <2>6. RowsHaveIntents'
    BY <1>10, <1>b, <2>1, <2>2, <2>3 DEF RowsHaveIntents
  <2>7. /\ \A b \in acks' : b \in acks \/ b = [a EXCEPT !.step = "escalate"]
        /\ \A w \in Worker : batch'[w] \subseteq batch[w]
    BY <1>10, FinishedType DEF AckDelivered, AckRetry, AckDead
  <2>8. LET b == [a EXCEPT !.step = "escalate"]
        IN  b.id = a.id /\ b.by = a.by /\ b.verdict = a.verdict /\ b.attempts = a.attempts
    BY DEF TypeOK, Ack
  <2>9. AcksSound'
    BY <1>a, <1>b, <2>7, <2>8, AcksFrame
  <2> QED
    BY <1>a, <1>b, <2>1, <2>5, <2>6, <2>7, <2>9, IntentFrame, CronFrame, BatchFrame DEF IInv
<1>11. ASSUME NEW a \in acks, AckEscalate(a) PROVE IInv'
  <2>1. row' = row /\ cron' = cron
    BY <1>11 DEF AckEscalate
  <2>2. NoAlertLost'
    BY <1>a, <1>b, <1>11, IntentFrame DEF AckEscalate, Enqueued, TypeOK
  <2>3. acks' \subseteq acks /\ \A w \in Worker : batch'[w] \subseteq batch[w]
    BY <1>11, FinishedType DEF AckEscalate
  <2> QED
    BY <1>a, <1>b, <2>1, <2>2, <2>3, RowFrame, CronFrame, AcksFrame, BatchFrame DEF IInv
<1>12. ASSUME NEW a \in acks, KillAck(a) PROVE IInv'
  <2>1. intent' = intent /\ row' = row /\ cron' = cron
    BY <1>12 DEF KillAck, cronVars
  <2>2. acks' \subseteq acks /\ \A w \in Worker : batch'[w] \subseteq batch[w]
    BY <1>12 DEF KillAck, Restarted, TypeOK
  <2> QED
    BY <1>a, <1>b, <2>1, <2>2, IntentFrame, RowFrame, CronFrame, AcksFrame, BatchFrame
       DEF IInv
<1>13. ASSUME Advance PROVE IInv'
  <2>1. intent' = intent /\ cron' = cron /\ acks' = acks /\ batch' = batch
    BY <1>13 DEF Advance, cronVars
  <2>2. \A i \in Id : /\ row'[i].state = row[i].state /\ row'[i].by = row[i].by
                      /\ row'[i].attempts = row[i].attempts
    BY <1>13, <1>c DEF Advance, Row
  <2>4. DeliveredByItsClaimant' /\ RowsHaveIntents'
    BY <1>a, <1>b, <2>2, RowFrame
  <2> QED
    BY <1>a, <1>b, <2>1, <2>4, IntentFrame, CronFrame, AcksFrame, BatchFrame DEF IInv
<1>14. CASE UNCHANGED vars
  <2>1. intent' = intent /\ row' = row /\ cron' = cron /\ acks' = acks /\ batch' = batch
    BY <1>14 DEF vars
  <2> QED
    BY <1>a, <1>b, <2>1, IntentFrame, RowFrame, CronFrame, AcksFrame, BatchFrame DEF IInv
<1> QED
  BY <1>1, <1>2, <1>3, <1>4, <1>5, <1>6, <1>7, <1>8, <1>9, <1>10, <1>11, <1>12,
     <1>13, <1>14 DEF Next, AckStep

LEMMA Invariance == Spec => [](TypeOK /\ IInv)
  BY InitType, TypeStep, InitIInv, IInvStep, PTL DEF Spec

\* No interleaving of projections, kills and releases marks an intent projected
\* without its outbox row: the alert cannot be lost between the two tables.
THEOREM AlertsSurvive == Spec => []NoAlertLost
  BY Invariance, PTL DEF IInv

\* Whatever a slow or orphaned acknowledgement does, a row says DELIVERED only
\* in the name of a notifier whose webhook took the post.
THEOREM DeliveryIsReal == Spec => []DeliveredByItsClaimant
  BY Invariance, PTL DEF IInv
-----------------------------------------------------------------------------
(* Escalation.                                                             *)

\* The property after a step that leaves the acknowledgements which are about
\* to escalate, and kills no deal but one that such an acknowledgement reports.
LEMMA EscalationFrame ==
    ASSUME DeadDealIsEscalated, Grows, TypeOK,
           \A d \in Deal : row'[DealAlert(d)].state = "DEAD" =>
               \/ row[DealAlert(d)].state = "DEAD"
               \/ \E b \in acks' : b.step = "escalate" /\ b.id = DealAlert(d),
           \A a \in acks : a.step = "escalate" =>
               \/ \E b \in acks' : b.step = "escalate" /\ b.id = a.id
               \/ \A d \in Deal : a.id = DealAlert(d) => intent'[AdminAlert(d)] # "absent"
    PROVE  DeadDealIsEscalated'
<1>1. \A d \in Deal : intent[AdminAlert(d)] # "absent" => intent'[AdminAlert(d)] # "absent"
  BY DEF Grows, AdminAlert, Id
<1> QED
  BY <1>1 DEF DeadDealIsEscalated

LEMMA EscalationStep ==
    ASSUME "ack" \notin Killable
    PROVE  TypeOK /\ DeadDealIsEscalated /\ [Next]_vars => DeadDealIsEscalated'
<1> SUFFICES ASSUME TypeOK, DeadDealIsEscalated, [Next]_vars PROVE DeadDealIsEscalated'
  OBVIOUS
<1>a. Grows /\ \A d \in Deal : DealAlert(d) \in Id
  BY StepGrows DEF DealAlert, Id
<1>b. \A i \in Id : row[i] \in Row
  BY DEF TypeOK
<1>1. CASE acks' = acks /\ \A i \in Id : row'[i].state = "DEAD" => row[i].state = "DEAD"
  BY <1>a, <1>1, EscalationFrame
<1>2. ASSUME NEW d \in Deal, EnqueueAlertIntent(d) PROVE DeadDealIsEscalated'
  BY <1>1, <1>2 DEF EnqueueAlertIntent, workerVars
<1>3. ASSUME NEW c \in Cron, ProjectSelect(c) \/ ProjectMark(c) \/ KillCron(c)
      PROVE  DeadDealIsEscalated'
  BY <1>1, <1>3 DEF ProjectSelect, ProjectMark, KillCron, workerVars
<1>4. ASSUME NEW c \in Cron, ProjectInsert(c) PROVE DeadDealIsEscalated'
  <2>1. \A i \in Id : [NoRow EXCEPT !.state = InitialState(i, cron[c].mode)].state # "DEAD"
    BY DEF NoRow, InitialState
  <2> QED
    BY <1>1, <1>4, <2>1 DEF ProjectInsert, workerVars
<1>5. ASSUME NEW w \in Worker, LeaseReclaim(w) PROVE DeadDealIsEscalated'
  <2>1. \A i \in Id : row'[i] = row[i] \/ row'[i].state = "PENDING"
    BY <1>b, <1>5 DEF LeaseReclaim, Row
  <2> QED
    BY <1>1, <1>5, <2>1 DEF LeaseReclaim
<1>6. ASSUME NEW w \in Worker, LeaseClaim(w) PROVE DeadDealIsEscalated'
  <2>1. \A i \in Id : row'[i] = row[i] \/ row'[i].state = "SENDING"
    BY <1>b, <1>6 DEF LeaseClaim, Claimed, Row
  <2> QED
    BY <1>1, <1>6, <2>1 DEF LeaseClaim
<1>7. ASSUME NEW w \in Worker, CrashNotifier(w) PROVE DeadDealIsEscalated'
  <2>1. \A a \in acks : LET b == [a EXCEPT !.to = None]
                        IN  b.step = a.step /\ b.id = a.id
    BY DEF TypeOK, Ack
  <2>2. \A a \in acks : a \in acks' \/ [a EXCEPT !.to = None] \in acks'
    BY <1>7 DEF CrashNotifier, Abandoned
  <2>3. row' = row
    BY <1>7 DEF CrashNotifier
  <2> QED
    BY <1>a, <2>1, <2>2, <2>3, EscalationFrame
<1>8. ASSUME NEW w \in Worker, NEW i \in Id, NEW v \in Verdict, PostAndAck(w, i, v)
      PROVE DeadDealIsEscalated'
  <2>1. acks \subseteq acks' /\ row' = row
    BY <1>8 DEF PostAndAck
  <2> QED
    BY <1>a, <2>1, EscalationFrame
<1>9. ASSUME NEW a \in acks, AckDelivered(a) \/ AckRetry(a) \/ AckDead(a)
      PROVE DeadDealIsEscalated'
  <2> DEFINE b == [a EXCEPT !.step = "escalate"]
  <2>1. b.step = "escalate" /\ b.id = a.id
    BY DEF TypeOK, Ack
  <2> HIDE DEF b
  <2>2. a.step = "write"
    BY <1>9 DEF AckDelivered, AckRetry, AckDead
  <2>3. acks \ {a} \subseteq acks'
    BY <1>9 DEF AckDelivered, AckRetry, AckDead, Finished
  <2>4. AckDead(a) /\ a.id[2] = "DEAL" => b \in acks'
    BY DEF AckDead, b
  <2>5. PICK new \in Row :
           /\ Write(a, new)
           /\ AckDelivered(a) => new.state = "DELIVERED"
           /\ AckRetry(a) => new.state = "PENDING"
    BY AckWrites, <1>9
  <2>6. \A i \in Id : row'[i] = row[i] \/ (i = a.id /\ row'[i] = new)
    BY <2>5, WriteRows
  <2>7. ASSUME NEW d \in Deal, row'[DealAlert(d)].state = "DEAD",
               row[DealAlert(d)].state # "DEAD"
        PROVE  AckDead(a) /\ a.id = DealAlert(d) /\ a.id[2] = "DEAL"
    BY <1>9, <1>a, <2>5, <2>6, <2>7 DEF DealAlert
  <2> QED
    BY <1>a, <2>1, <2>2, <2>3, <2>4, <2>7, EscalationFrame
<1>10. ASSUME NEW a \in acks, AckEscalate(a) PROVE DeadDealIsEscalated'
  <2>1. row' = row /\ acks' = acks \ {a}
    BY <1>10 DEF AckEscalate, Finished
  <2>2. \A d \in Deal : a.id = DealAlert(d) => intent'[AdminAlert(d)] # "absent"
    BY <1>10 DEF AckEscalate, Enqueued, DealAlert, AdminAlert, Id, TypeOK
  <2>3. \A e \in acks : e.step = "escalate" =>
           \/ \E b \in acks' : b.step = "escalate" /\ b.id = e.id
           \/ \A d \in Deal : e.id = DealAlert(d) => intent'[AdminAlert(d)] # "absent"
    <3>1. TAKE e \in acks
    <3>2. CASE e = a
      BY <2>2, <3>2
    <3>3. CASE e # a
      BY <2>1, <3>3
    <3> QED
      BY <3>2, <3>3
  <2>4. \A d \in Deal : row'[DealAlert(d)].state = "DEAD" => row[DealAlert(d)].state = "DEAD"
    BY <2>1
  <2> QED
    BY <1>a, <2>3, <2>4, EscalationFrame
<1>11. ASSUME NEW a \in acks, KillAck(a) PROVE FALSE
  BY <1>11 DEF KillAck
<1>12. ASSUME Advance PROVE DeadDealIsEscalated'
  <2>1. \A i \in Id : row'[i].state = row[i].state
    <3>1. TAKE i \in Id
    <3>2. row[i] \in Row
      BY DEF TypeOK
    <3>3. \A u, n : [row[i] EXCEPT !.until = u, !.next = n].state = row[i].state
      BY <3>2 DEF Row
    <3> QED
      BY <1>12, <3>3 DEF Advance
  <2>2. intent' = intent /\ acks' = acks
    BY <1>12 DEF Advance, cronVars
  <2> QED
    BY <1>1, <2>1, <2>2
<1>13. CASE UNCHANGED vars
  BY <1>1, <1>13 DEF vars
<1> QED
  BY <1>2, <1>3, <1>4, <1>5, <1>6, <1>7, <1>8, <1>9, <1>10, <1>11, <1>12, <1>13
     DEF Next, AckStep

\* If the platform kills no acknowledgement between its DEAD update and its
\* second statement, every dead deal alert has raised its ADMIN alert.
THEOREM DeathsAreEscalated ==
    ASSUME "ack" \notin Killable
    PROVE  Spec => []DeadDealIsEscalated
<1>1. Init => DeadDealIsEscalated
  BY DEF Init, DeadDealIsEscalated, NoRow, DealAlert, Id
<1>2. TypeOK /\ DeadDealIsEscalated /\ [Next]_vars => DeadDealIsEscalated'
  BY EscalationStep
<1> QED
  BY <1>1, <1>2, TypeCorrect, PTL DEF Spec
==================================================================================
