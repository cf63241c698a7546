------------------------- MODULE PosPrintJobProofs -------------------------
(***************************************************************************)
(* Theorems about the delivery of a print job, for any number of calls in  *)
(* progress and any limit on the attempts.                                 *)
(***************************************************************************)
EXTENDS PosPrintJob, FiniteSetTheorems, TLAPS

\* The calls that passed the check of the attempts and are not counted yet.
Sending == {t \in Tasks : task[t] \in {"looking", "sent"}}

\* Each of them may still add one attempt; the one that passed the check last
\* found fewer than the limit.
SendsAreBounded ==
    row.attempts + Cardinality(Sending) <= MaxAttempts - 1 + Cardinality(Tasks)

LooseType ==
    /\ row \in [status: Statuses, offline: BOOLEAN, attempts: Nat]
    /\ timer \in BOOLEAN
    /\ online \in BOOLEAN
    /\ unanswered \in 0..MaxUnanswered
    /\ calls \in 0..MaxCalls
    /\ task \in [Tasks -> Steps]
    /\ failed \in BOOLEAN

\* Every step keeps the types, the attempts unbounded.
LEMMA LooseTypeInductive == LooseType /\ [Next]_vars => LooseType'
<1> SUFFICES ASSUME LooseType, [Next]_vars PROVE LooseType'
  OBVIOUS
<1>0. MaxCalls \in Nat /\ MaxUnanswered \in Nat
  BY PrintAssumption
<1> USE DEF LooseType
<1>1. ASSUME NEW t \in Tasks, SendPrintJob(t)
      PROVE  LooseType'
  BY <1>0, <1>1 DEF SendPrintJob, Goes, Steps
<1>2. ASSUME NEW t \in Tasks, Join(t) \/ Timeout(t) \/ Throw(t)
      PROVE  LooseType'
  BY <1>2 DEF Join, Timeout, Throw, Goes, TaskOnly, Steps
<1>3. ASSUME NEW t \in Tasks, NEW success \in BOOLEAN, Ack(t, success)
      PROVE  LooseType'
  <2>1. unanswered' \in 0..MaxUnanswered
    BY <1>0, <1>3 DEF Ack
  <2>2. task' \in [Tasks -> Steps]
    BY <1>3 DEF Ack, Goes, Steps
  <2> QED
    BY <1>3, <2>1, <2>2 DEF Ack
<1>4. ASSUME NEW t \in Tasks, Upsert(t) \/ RecordAck(t) \/ RecordTimeout(t)
                              \/ ResetAttempts(t) \/ Defer(t)
      PROVE  LooseType'
  <2>1. CASE Upsert(t)
    BY <2>1 DEF Upsert, Goes, RowOnly, Steps, Statuses
  <2>2. CASE RecordAck(t) \/ RecordTimeout(t)
    BY <2>2 DEF RecordAck, RecordTimeout, Goes, Settled, RowOnly, Steps, Statuses
  <2>3. CASE ResetAttempts(t)
    BY <2>3 DEF ResetAttempts, Goes, RowOnly, Steps, Statuses
  <2>4. CASE Defer(t)
    BY <2>4 DEF Defer, Goes, Settled, RowOnly, Steps, Statuses
  <2> QED
    BY <1>4, <2>1, <2>2, <2>3, <2>4
<1>5. ASSUME NEW t \in Tasks, DispatchPending(t) \/ Enter(t) \/ Read(t) \/ SetTimer(t)
      PROVE  LooseType'
  BY <1>5 DEF DispatchPending, Enter, Read, SetTimer, Goes, TaskOnly, Steps
<1>6. ASSUME NEW t \in Tasks, Look(t)
      PROVE  LooseType'
  <2>1. unanswered' \in 0..MaxUnanswered
    BY <1>0, <1>6 DEF Look, TaskOnly
  <2> QED
    BY <1>6, <2>1 DEF Look, Goes, TaskOnly, Steps
<1>7. ASSUME NEW t \in Tasks, RecordSend(t)
      PROVE  LooseType'
  <2>1. row' \in [status: Statuses, offline: BOOLEAN, attempts: Nat]
    BY <1>7 DEF RecordSend, Statuses
  <2> QED
    BY <1>7, <2>1 DEF RecordSend, Goes, RowOnly, Steps
<1>8. ASSUME Leave
      PROVE  LooseType'
  BY <1>8 DEF Leave
<1>9. ASSUME LoseSend
      PROVE  LooseType'
  BY <1>0, <1>9 DEF LoseSend
<1>10. ASSUME Restart
       PROVE  LooseType'
  BY <1>10 DEF Restart, Steps
<1>11. CASE UNCHANGED vars
  BY <1>11 DEF vars
<1> QED
  BY <1>1, <1>2, <1>3, <1>4, <1>5, <1>6, <1>7, <1>8, <1>9, <1>10, <1>11
     DEF Next, Continue

\* What a step of one task does to the set of sending tasks.
LEMMA SendingSize ==
    ASSUME LooseType
    PROVE  /\ IsFiniteSet(Sending)
           /\ Cardinality(Sending) \in Nat /\ Cardinality(Tasks) \in Nat
           /\ Cardinality(Sending) <= Cardinality(Tasks)
<1>1. Sending \subseteq Tasks /\ IsFiniteSet(Tasks)
  BY PrintAssumption DEF Sending
<1> QED
  BY <1>1, FS_Subset, FS_CardinalityType

\* Every step keeps the bound: a send moves one call from the set to the count.
LEMMA SendsBoundedInductive ==
    LooseType /\ SendsAreBounded /\ [Next]_vars => SendsAreBounded'
<1> SUFFICES ASSUME LooseType, SendsAreBounded, [Next]_vars
             PROVE  SendsAreBounded'
  OBVIOUS
<1>0. LooseType'
  BY LooseTypeInductive
<1>a. /\ IsFiniteSet(Sending) /\ IsFiniteSet(Sending')
      /\ Cardinality(Sending) \in Nat /\ Cardinality(Sending') \in Nat
      /\ Cardinality(Tasks) \in Nat
      /\ Cardinality(Sending') <= Cardinality(Tasks)
  <2>1. Sending' \subseteq Tasks /\ IsFiniteSet(Tasks)
    BY PrintAssumption DEF Sending
  <2> QED
    BY <2>1, SendingSize, FS_Subset, FS_CardinalityType
<1>b. row.attempts \in Nat /\ row'.attempts \in Nat /\ MaxAttempts \in Nat \ {0}
  BY <1>0, PrintAssumption DEF LooseType
<1>c. ASSUME row'.attempts < MaxAttempts PROVE SendsAreBounded'
  BY <1>a, <1>b, <1>c DEF SendsAreBounded
<1>d. ASSUME row'.attempts = row.attempts, Sending' \subseteq Sending
      PROVE  SendsAreBounded'
  BY <1>a, <1>b, <1>d, FS_Subset DEF SendsAreBounded
<1>1. ASSUME NEW t \in Tasks, RecordSend(t)
      PROVE  SendsAreBounded'
  <2>1. Sending' = Sending \ {t} /\ t \in Sending
    BY <1>1 DEF RecordSend, Goes, Sending, LooseType
  <2>2. Cardinality(Sending') = Cardinality(Sending) - 1
    BY <2>1, <1>a, FS_RemoveElement
  <2>3. row'.attempts = row.attempts + 1
    BY <1>1 DEF RecordSend
  <2> QED
    BY <2>2, <2>3, <1>a, <1>b DEF SendsAreBounded
<1>2. ASSUME NEW t \in Tasks, Read(t)
      PROVE  SendsAreBounded'
  <2>1. row' = row
    BY <1>2 DEF Read, TaskOnly
  <2>2. CASE MaySend
    BY <2>1, <2>2, <1>c DEF MaySend
  <2>3. CASE ~MaySend
    <3>1. Sending' \subseteq Sending
      BY <1>2, <2>3 DEF Read, Goes, Sending, LooseType
    <3> QED
      BY <2>1, <3>1, <1>d
  <2> QED
    BY <2>2, <2>3
<1>3. ASSUME NEW t \in Tasks, ResetAttempts(t)
      PROVE  SendsAreBounded'
  <2>1. row'.attempts = 0
    BY <1>3 DEF ResetAttempts, LooseType
  <2> QED
    BY <2>1, <1>b, <1>c
<1>4. ASSUME NEW t \in Tasks, SendPrintJob(t) \/ Join(t) \/ Timeout(t) \/ Throw(t)
      PROVE  SendsAreBounded'
  <2>1. row' = row /\ Sending' \subseteq Sending
    BY <1>4 DEF SendPrintJob, Join, Timeout, Throw, Goes, TaskOnly, Sending, LooseType
  <2> QED
    BY <2>1, <1>d
<1>5. ASSUME NEW t \in Tasks, NEW success \in BOOLEAN, Ack(t, success)
      PROVE  SendsAreBounded'
  <2>1. row' = row /\ Sending' \subseteq Sending
    BY <1>5 DEF Ack, Goes, Sending, LooseType
  <2> QED
    BY <2>1, <1>d
<1>6. ASSUME NEW t \in Tasks, Upsert(t) \/ DispatchPending(t) \/ Enter(t)
      PROVE  SendsAreBounded'
  <2>1. row'.attempts = row.attempts /\ Sending' \subseteq Sending
    BY <1>6 DEF Upsert, DispatchPending, Enter, Goes, TaskOnly, Sending, LooseType
  <2> QED
    BY <2>1, <1>d
<1>7. ASSUME NEW t \in Tasks, RecordAck(t) \/ RecordTimeout(t) \/ Defer(t)
      PROVE  SendsAreBounded'
  <2>1. row'.attempts = row.attempts /\ Sending' \subseteq Sending
    BY <1>7 DEF RecordAck, RecordTimeout, Defer, Settled, Goes, Sending, LooseType
  <2> QED
    BY <2>1, <1>d
<1>8. ASSUME NEW t \in Tasks, Look(t) \/ SetTimer(t)
      PROVE  SendsAreBounded'
  <2>1. row' = row /\ Sending' \subseteq Sending
    BY <1>8 DEF Look, SetTimer, Goes, TaskOnly, Sending, LooseType
  <2> QED
    BY <2>1, <1>d
<1>9. ASSUME Leave \/ LoseSend \/ Restart \/ UNCHANGED vars
      PROVE  SendsAreBounded'
  <2>1. row' = row /\ Sending' \subseteq Sending
    BY <1>9 DEF Leave, LoseSend, Restart, vars, Sending
  <2> QED
    BY <2>1, <1>d
<1> QED
  BY <1>1, <1>2, <1>3, <1>4, <1>5, <1>6, <1>7, <1>8, <1>9 DEF Next, Continue

\* Both hold initially.
LEMMA InitialPrint == Init => LooseType /\ SendsAreBounded
<1> SUFFICES ASSUME Init PROVE LooseType /\ SendsAreBounded
  OBVIOUS
<1>0. MaxCalls \in Nat /\ MaxUnanswered \in Nat
  BY PrintAssumption
<1>1. LooseType
  <2>1. row \in [status: Statuses, offline: BOOLEAN, attempts: Nat]
    BY DEF Init, Statuses
  <2>2. task \in [Tasks -> Steps]
    BY DEF Init, Steps
  <2>3. timer \in BOOLEAN /\ online \in BOOLEAN /\ failed \in BOOLEAN
    BY DEF Init
  <2>4. unanswered \in 0..MaxUnanswered /\ calls \in 0..MaxCalls
    BY <1>0 DEF Init
  <2> QED
    BY <2>1, <2>2, <2>3, <2>4 DEF LooseType
<1>2. row.attempts = 0
  BY DEF Init
<1>3. SendsAreBounded
  BY <1>1, <1>2, SendingSize, PrintAssumption DEF SendsAreBounded
<1> QED
  BY <1>1, <1>3

\* Type correctness of the print job, and with it the bound on the sends: with
\* n calls in progress the limit is exceeded by at most n - 1, whether or not
\* calls throw and the process restarts.
THEOREM PrintTypeCorrect == Spec => []TypeOK
<1>1. LooseType /\ SendsAreBounded => TypeOK
  <2> SUFFICES ASSUME LooseType, SendsAreBounded PROVE TypeOK
    OBVIOUS
  <2>1. row.attempts \in 0..(MaxAttempts - 1 + Cardinality(Tasks))
    BY SendingSize, PrintAssumption DEF LooseType, SendsAreBounded
  <2>2. row \in [status: Statuses, offline: BOOLEAN,
                 attempts: 0..(MaxAttempts - 1 + Cardinality(Tasks))]
    BY <2>1 DEF LooseType
  <2> QED
    BY <2>2 DEF LooseType, TypeOK
<1>2. LooseType /\ SendsAreBounded /\ [Next]_vars => (LooseType /\ SendsAreBounded)'
  BY LooseTypeInductive, SendsBoundedInductive
<1> QED
  BY InitialPrint, <1>1, <1>2, PTL DEF Spec

-----------------------------------------------------------------------------
(* Without failures.                                                        *)

\* Somebody will look at the row again, or overwrite it.
Attended ==
    timer \/ \E t \in Tasks : task[t] \notin {"idle", "upserting", "joining"}

UnfinishedIsAttended == ~failed /\ Unfinished => Deferred \/ Attended

\* A failure is not forgotten.
LEMMA FailuresStay ==
    ASSUME LooseType, [Next]_vars, ~failed'
    PROVE  ~failed
<1>1. ASSUME NEW t \in Tasks, NEW success \in BOOLEAN,
             SendPrintJob(t) \/ Join(t) \/ Timeout(t) \/ Continue(t)
             \/ Ack(t, success)
      PROVE  failed' = failed
  BY <1>1 DEF SendPrintJob, Join, Timeout, Continue, Ack, Upsert, DispatchPending,
              RecordAck, RecordTimeout, Enter, Read, ResetAttempts, Look, Defer,
              RecordSend, SetTimer, RowOnly, TaskOnly
<1>2. ASSUME NEW t \in Tasks, Throw(t) \/ Restart PROVE failed' = TRUE
  BY <1>2 DEF Throw, Restart
<1>3. CASE Leave \/ LoseSend \/ UNCHANGED vars
  BY <1>3 DEF Leave, LoseSend, vars
<1> QED
  BY <1>1, <1>2, <1>3 DEF Next, Restart

\* Without failures no step leaves a DELIVERED row unwatched.
LEMMA WatchInductive ==
    ASSUME LooseType, DeliveredIsWatched, [Next]_vars
    PROVE  DeliveredIsWatched'
<1> SUFFICES ASSUME ~failed' PROVE DeliveredIsWatched'
  BY DEF DeliveredIsWatched
<1>0. ~failed
  BY FailuresStay
<1> USE <1>0 DEF DeliveredIsWatched, LooseType
<1> DEFINE Watches(s) == s \in {"delivered", "accepted", "rejected", "expired"}
<1>a. ASSUME NEW t \in Tasks, row' = row, timer' = timer, ~Watches(task[t]),
             \A u \in Tasks \ {t} : task'[u] = task[u]
      PROVE  DeliveredIsWatched'
  BY <1>a
<1>1. ASSUME NEW t \in Tasks, SendPrintJob(t) \/ Join(t) \/ DispatchPending(t)
                              \/ Enter(t)
      PROVE  DeliveredIsWatched'
  BY <1>1, <1>a DEF SendPrintJob, Join, DispatchPending, Enter, Goes, TaskOnly
<1>2. ASSUME NEW t \in Tasks, Read(t) \/ Look(t)
      PROVE  DeliveredIsWatched'
  BY <1>2, <1>a DEF Read, Look, Goes, TaskOnly
<1>3. ASSUME NEW t \in Tasks, Upsert(t)
      PROVE  DeliveredIsWatched'
  BY <1>3 DEF Upsert, Goes, RowOnly
<1>4. ASSUME NEW t \in Tasks, Timeout(t) \/ SetTimer(t) \/ RecordSend(t)
      PROVE  DeliveredIsWatched'
  BY <1>4 DEF Timeout, SetTimer, RecordSend, Goes, RowOnly
<1>5. ASSUME NEW t \in Tasks, NEW success \in BOOLEAN, Ack(t, success)
      PROVE  DeliveredIsWatched'
  BY <1>5 DEF Ack, Goes
<1>6. ASSUME NEW t \in Tasks, RecordAck(t) \/ RecordTimeout(t)
                              \/ ResetAttempts(t) \/ Defer(t)
      PROVE  DeliveredIsWatched'
  BY <1>6 DEF RecordAck, RecordTimeout, ResetAttempts, Defer, Settled
<1>7. ASSUME Leave \/ LoseSend \/ UNCHANGED vars
      PROVE  DeliveredIsWatched'
  BY <1>7 DEF Leave, LoseSend, vars
<1>8. ASSUME NEW t \in Tasks PROVE ~Throw(t)
  BY DEF Throw
<1>9. ~Restart
  BY DEF Restart
<1> QED
  BY <1>1, <1>2, <1>3, <1>4, <1>5, <1>6, <1>7, <1>8, <1>9 DEF Next, Continue

\* Without failures no step leaves an unfinished row unattended, unless it
\* sets the row aside.
LEMMA AttentionInductive ==
    ASSUME LooseType, UnfinishedIsAttended, [Next]_vars
    PROVE  UnfinishedIsAttended'
<1> SUFFICES ASSUME ~failed' PROVE UnfinishedIsAttended'
  BY DEF UnfinishedIsAttended
<1>0. ~failed
  BY FailuresStay
<1> USE <1>0 DEF UnfinishedIsAttended, Unfinished, Deferred, Attended, LooseType
<1>a. ASSUME NEW t \in Tasks, row' = row, timer' = timer,
             task[t] \in {"idle", "upserting", "joining"},
             \A u \in Tasks \ {t} : task'[u] = task[u]
      PROVE  UnfinishedIsAttended'
  BY <1>a
<1>b. ASSUME NEW t \in Tasks,
             task'[t] \in Steps \ {"idle", "upserting", "joining"}
      PROVE  UnfinishedIsAttended'
  BY <1>b
<1>1. ASSUME NEW t \in Tasks, SendPrintJob(t) \/ Join(t) \/ DispatchPending(t)
      PROVE  UnfinishedIsAttended'
  BY <1>1, <1>a DEF SendPrintJob, Join, DispatchPending, Goes, TaskOnly
<1>2. ASSUME NEW t \in Tasks, NEW success \in BOOLEAN,
             Timeout(t) \/ Ack(t, success) \/ Upsert(t) \/ RecordTimeout(t)
             \/ ResetAttempts(t) \/ Look(t) \/ RecordSend(t)
      PROVE  UnfinishedIsAttended'
  <2>1. task'[t] \in Steps \ {"idle", "upserting", "joining"}
    BY <1>2 DEF Timeout, Ack, Upsert, RecordTimeout, ResetAttempts, Look,
                RecordSend, Goes, Steps
  <2> QED
    BY <2>1, <1>b
<1>3. ASSUME NEW t \in Tasks, RecordAck(t)
      PROVE  UnfinishedIsAttended'
  <2>1. CASE Settled("COMPLETED", FALSE)
    BY <2>1 DEF Settled
  <2>2. CASE Goes(t, "rejected", "entering")
    BY <2>2, <1>b DEF Goes, Steps
  <2> QED
    BY <1>3, <2>1, <2>2 DEF RecordAck
<1>4. ASSUME NEW t \in Tasks, Enter(t)
      PROVE  UnfinishedIsAttended'
  BY <1>4 DEF Enter, Goes, TaskOnly
<1>5. ASSUME NEW t \in Tasks, Read(t)
      PROVE  UnfinishedIsAttended'
  <2>1. CASE ~Unfinished
    BY <1>5, <2>1 DEF Read, TaskOnly
  <2>2. CASE Unfinished
    <3>1. task'[t] = "looking"
      BY <1>5, <2>2, PrintAssumption DEF Read, MaySend, Goes
    <3> QED
      BY <3>1, <1>b DEF Steps
  <2> QED
    BY <2>1, <2>2
<1>6. ASSUME NEW t \in Tasks, Defer(t) \/ SetTimer(t)
      PROVE  UnfinishedIsAttended'
  BY <1>6 DEF Defer, SetTimer, Settled
<1>7. ASSUME Leave \/ LoseSend \/ UNCHANGED vars
      PROVE  UnfinishedIsAttended'
  BY <1>7 DEF Leave, LoseSend, vars
<1>8. ASSUME NEW t \in Tasks PROVE ~Throw(t)
  BY DEF Throw
<1>9. ~Restart
  BY DEF Restart
<1> QED
  BY <1>1, <1>2, <1>3, <1>4, <1>5, <1>6, <1>7, <1>8, <1>9 DEF Next, Continue

\* As long as no call throws and the process does not restart, a row that says
\* DELIVERED has a timer or a call that takes it further.
THEOREM DeliveredRowsAreWatched == Spec => []DeliveredIsWatched
<1>1. Init => DeliveredIsWatched
  BY DEF Init, DeliveredIsWatched
<1>2. LooseType /\ DeliveredIsWatched /\ [Next]_vars
        => (LooseType /\ DeliveredIsWatched)'
  BY LooseTypeInductive, WatchInductive
<1> QED
  BY InitialPrint, <1>1, <1>2, PTL DEF Spec

\* As long as no call throws and the process does not restart, the gateway is
\* done with an unfinished ticket only when it is set aside for the next POS
\* that joins, however calls overlap.
THEOREM NoTicketIsForgotten == Spec => []NothingIsForgotten
<1>1. Init => UnfinishedIsAttended
  BY DEF Init, UnfinishedIsAttended, Unfinished
<1>2. LooseType /\ UnfinishedIsAttended /\ [Next]_vars
        => (LooseType /\ UnfinishedIsAttended)'
  BY LooseTypeInductive, AttentionInductive
<1>3. UnfinishedIsAttended => NothingIsForgotten
  BY DEF UnfinishedIsAttended, NothingIsForgotten, Attended, Quiet
<1> QED
  BY InitialPrint, <1>1, <1>2, <1>3, PTL DEF Spec
=============================================================================
