---------------------- MODULE UberOrderLifecycleProofs ----------------------
(* Proofs about the command outbox and about the life of one order, which   *)
(* has the outbox in it, for any number of handlers, workers and tokens,    *)
(* any commands and any bounds.                                             *)
EXTENDS UberOrderLifecycle, TLAPS

(* The command outbox (UberOrderAction).                                    *)

\* The values the actions assign to the enumerated fields.
LEMMA Names ==
    /\ "ABSENT" \in TaskStatuses /\ "PENDING" \in TaskStatuses
    /\ "PROCESSING" \in TaskStatuses /\ "SUCCEEDED" \in TaskStatuses
    /\ "FAILED" \in TaskStatuses
    /\ "initial" \in Phases /\ "scheduled-finalize" \in Phases
    /\ "idle" \in Steps /\ "claimed" \in Steps /\ "sending" \in Steps
    /\ "answered" \in Steps /\ "refused" \in Steps
    /\ "ACCEPT" \in ActionNames
    /\ Absent \notin OrderStatuses
  BY DEF TaskStatuses, Phases, Steps, ActionNames, Absent, OrderStatuses

\* The state machine moves an order to a status of its own, or not at all.
LEMMA Moves ==
    ASSUME NEW s \in OrderStatuses, NEW a
    PROVE  AfterConfirmedAction(s, a) \in OrderStatuses \cup {NoStatus}
  BY DEF AfterConfirmedAction, AfterCancellation, OrderStatuses, NoStatus

\* The rows the outbox writes.
LEMMA NewTaskIsTask ==
    ASSUME NEW phase \in Phases PROVE NewTask(phase) \in Tasks
  BY Names DEF NewTask, AbsentTask, Tasks

\* A row that was never enqueued.
LEMMA AbsentTaskIsTask == AbsentTask \in Tasks
  BY Names DEF AbsentTask, Tasks

\* The row a claim writes.
LEMMA ClaimedIsTask ==
    ASSUME NEW r \in Tasks, NEW t \in Tokens
    PROVE  [r EXCEPT !.status = "PROCESSING", !.token = t, !.expired = FALSE]
             \in Tasks
  BY Names DEF Tasks

\* The row complete and markFailed write.
LEMMA SettledIsTask ==
    ASSUME NEW r \in Tasks, NEW s \in {"SUCCEEDED", "FAILED"},
           NEW retryable \in BOOLEAN
    PROVE  [r EXCEPT !.status = s, !.token = NoToken, !.expired = FALSE,
                     !.retryable = retryable] \in Tasks
  BY Names DEF Tasks

\* The row whose lease ran out.
LEMMA ExpiredIsTask ==
    ASSUME NEW r \in Tasks PROVE [r EXCEPT !.expired = TRUE] \in Tasks
  BY DEF Tasks

\* The table after enqueue or requeue.
LEMMA EnqueuedIsTasks ==
    ASSUME TypeOK, NEW a \in ActionNames
    PROVE  Enqueued(a, "initial") \in [ActionNames -> Tasks]
  BY Names, NewTaskIsTask DEF Enqueued, TypeOK

\* The table after the re-keying of the scheduled ACCEPT.
LEMMA FinalizedIsTasks ==
    ASSUME TypeOK PROVE Finalized \in [ActionNames -> Tasks]
  BY Names, NewTaskIsTask DEF Finalized, TypeOK

\* The states a worker goes through.
LEMMA IdleIsWorker == IdleWorker \in WorkerStates
  BY Names DEF IdleWorker, WorkerStates

\* A worker that claimed a row.
LEMMA ClaimedIsWorker ==
    ASSUME NEW a \in ActionNames, NEW phase \in Phases, NEW t \in Tokens
    PROVE  [IdleWorker EXCEPT !.step = "claimed", !.action = a,
                              !.phase = phase, !.token = t] \in WorkerStates
  BY Names DEF IdleWorker, WorkerStates

\* A worker that read the order.
LEMMA SendingIsWorker ==
    ASSUME NEW r \in WorkerStates, NEW s \in OrderStatuses \cup {Absent}
    PROVE  [r EXCEPT !.step = "sending", !.seen = s] \in WorkerStates
  BY Names DEF WorkerStates

\* A worker that Uber answered.
LEMMA AnsweredIsWorker ==
    ASSUME NEW r \in WorkerStates
    PROVE  [r EXCEPT !.step = "answered"] \in WorkerStates
  BY Names DEF WorkerStates

\* A worker whose command failed.
LEMMA RefusedIsWorker ==
    ASSUME TypeOK, NEW w \in Workers, NEW retryable \in BOOLEAN
    PROVE  Refused(w, retryable) \in WorkerStates
<1>1. worker[w] \in WorkerStates
  BY DEF TypeOK
<1>2. QED
  BY <1>1, Names DEF Refused, WorkerStates

\* complete writes a status of the machine.
LEMMA MovedIsStatus ==
    ASSUME TypeOK, NEW w \in Workers, NEW a \in ActionNames
    PROVE  Moved(w, a) \in OrderStatuses \cup {Absent}
<1>1. CASE status = Absent
  BY <1>1 DEF Moved, TypeOK
<1>2. CASE status # Absent
  <2>1. AfterConfirmedAction(status, a) \in OrderStatuses \cup {NoStatus}
    BY <1>2, Moves DEF TypeOK
  <2>2. QED
    BY <2>1 DEF Moved, TypeOK
<1>3. QED
  BY <1>1, <1>2

\* Every step keeps the types.
LEMMA TypeStep == ASSUME TypeOK, [Next]_vars PROVE TypeOK'
<1> USE DEF TypeOK
<1>1. ASSUME NEW a \in Requestable, Request(a) PROVE TypeOK'
  BY <1>1, OutboxAssumption, EnqueuedIsTasks DEF Request
<1>2. CASE RequestScheduledFinalize
  BY <1>2, FinalizedIsTasks DEF RequestScheduledFinalize
<1>3. ASSUME NEW s \in Writable, OrderWritten(s) PROVE TypeOK'
  BY <1>3, OutboxAssumption DEF OrderWritten
<1>4. ASSUME NEW s \in Writable, NEW a \in Requestable, OrderImported(s, a)
      PROVE  TypeOK'
  BY <1>4, OutboxAssumption, EnqueuedIsTasks DEF OrderImported
<1>5. ASSUME NEW w \in Workers, NEW a \in ActionNames, NEW t \in Tokens,
             Claim(w, a, t)
      PROVE  TypeOK'
  <2>1. /\ task[a] \in Tasks
        /\ task[a].phase \in Phases
    BY DEF Tasks
  <2>2. task' \in [ActionNames -> Tasks]
    BY <1>5, <2>1, ClaimedIsTask DEF Claim
  <2>3. worker' \in [Workers -> WorkerStates]
    BY <1>5, <2>1, ClaimedIsWorker DEF Claim
  <2>4. QED
    BY <1>5, <2>2, <2>3 DEF Claim
<1>6. ASSUME NEW w \in Workers, ReadContext(w) PROVE TypeOK'
  <2>1. [worker[w] EXCEPT !.step = "sending", !.seen = status] \in WorkerStates
    BY SendingIsWorker
  <2>2. worker' = [worker EXCEPT ![w] =
                     [worker[w] EXCEPT !.step = "sending", !.seen = status]]
    BY <1>6 DEF ReadContext
  <2>3. QED
    BY <1>6, <2>1, <2>2 DEF ReadContext
<1>7. ASSUME NEW w \in Workers, NEW a \in ActionNames, Perform(w, a)
      PROVE  TypeOK'
  <2>1. worker[w].phase \in Phases
    BY DEF WorkerStates
  <2>2. /\ [worker[w] EXCEPT !.step = "answered"] \in WorkerStates
        /\ Refused(w, TRUE) \in WorkerStates
    BY AnsweredIsWorker, RefusedIsWorker
  <2>3. worker' \in [Workers -> WorkerStates]
    BY <1>7, <2>2 DEF Perform
  <2>4. QED
    BY <1>7, <2>1, <2>3 DEF Perform
<1>8. ASSUME NEW w \in Workers, NEW retryable \in BOOLEAN,
             Refuse(w, retryable)
      PROVE  TypeOK'
  BY <1>8, RefusedIsWorker DEF Refuse
<1>9. ASSUME NEW w \in Workers, NEW a \in ActionNames, Complete(w, a)
      PROVE  TypeOK'
  <2>0. [task[a] EXCEPT !.status = "SUCCEEDED", !.token = NoToken,
                        !.expired = FALSE, !.retryable = FALSE] \in Tasks
    BY SettledIsTask
  <2>1. task' \in [ActionNames -> Tasks]
    BY <1>9, <2>0 DEF Complete
  <2>2. status' \in OrderStatuses \cup {Absent}
    BY <1>9, MovedIsStatus DEF Complete
  <2>3. accepted' \in BOOLEAN
    BY <1>9 DEF Complete
  <2>4. QED
    BY <1>9, <2>1, <2>2, <2>3, IdleIsWorker DEF Complete
<1>10. ASSUME NEW w \in Workers, NEW a \in ActionNames, MarkFailed(w, a)
       PROVE  TypeOK'
  <2>1. worker[w].retryable \in BOOLEAN
    BY DEF WorkerStates
  <2>2. task' \in [ActionNames -> Tasks]
    BY <1>10, <2>1, SettledIsTask DEF MarkFailed
  <2>3. QED
    BY <1>10, <2>2, IdleIsWorker DEF MarkFailed
<1>11. ASSUME NEW a \in ActionNames, LeaseTimeout(a) PROVE TypeOK'
  BY <1>11, ExpiredIsTask DEF LeaseTimeout
<1>12. ASSUME NEW w \in Workers, Crash(w) PROVE TypeOK'
  BY <1>12, IdleIsWorker DEF Crash
<1>13. CASE UNCHANGED vars
  BY <1>13 DEF vars
<1>14. QED
  BY <1>1, <1>2, <1>3, <1>4, <1>5, <1>6, <1>7, <1>8, <1>9, <1>10,
     <1>11, <1>12, <1>13 DEF Next, WorkerStep, Settle

\* TypeOK is an invariant; in particular no command ever moves the order to a
\* status outside the machine.
THEOREM TypeCorrect == Spec => []TypeOK
<1>1. Init => TypeOK
  BY AbsentTaskIsTask, IdleIsWorker DEF Init, TypeOK
<1>2. TypeOK /\ [Next]_vars => TypeOK'
  BY TypeStep
<1>3. QED
  BY <1>1, <1>2, PTL DEF Spec
-----------------------------------------------------------------------------
(* Safety of the lease and of the idempotency keys.                         *)

\* A worker at work has a token, and no other worker has the same one.
TokensDistinct ==
    /\ \A w \in Workers : worker[w].step # "idle" => worker[w].token \in Tokens
    /\ \A v, w \in Workers :
          worker[v].token = worker[w].token /\ worker[v].token # NoToken => v = w

\* Whoever still holds a row was claimed for the phase the row is in.
PhaseOfHolder ==
    \A w \in Workers, a \in ActionNames :
        Holds(w, a) => worker[w].phase = task[a].phase

\* An answer received is a command carried out.
AnsweredIsPerformed ==
    \A w \in Workers :
        worker[w].step = "answered" =>
            <<worker[w].action, worker[w].phase>> \in performed

IInv ==
    /\ TypeOK
    /\ TokensDistinct
    /\ PhaseOfHolder
    /\ AnsweredIsPerformed
    /\ SucceededIsPerformed
    /\ AcceptedIsPerformed

\* The inductive invariant holds initially.
LEMMA InitHolds == Init => IInv
<1> SUFFICES ASSUME Init PROVE IInv
  OBVIOUS
<1>1. TypeOK
  BY AbsentTaskIsTask, IdleIsWorker DEF Init, TypeOK
<1>2. \A w \in Workers : worker[w].step = "idle" /\ worker[w].token = NoToken
  BY DEF Init, IdleWorker
<1>3. \A a \in ActionNames : task[a].status = "ABSENT"
  BY DEF Init, AbsentTask
<1>4. QED
  BY <1>1, <1>2, <1>3 DEF IInv, TokensDistinct, PhaseOfHolder, Holds, Works,
     AnsweredIsPerformed, SucceededIsPerformed, AcceptedIsPerformed, Init

\* Steps that change no worker and, of the rows, only make new ones or mark
\* the lease of one as over.
LEMMA RowStepKeeps ==
    ASSUME IInv, TypeOK', UNCHANGED <<accepted, worker, performed>>,
           \A a \in ActionNames :
              \/ task'[a].status = "PENDING"
              \/ /\ task'[a].status = task[a].status
                 /\ task'[a].phase = task[a].phase
                 /\ task'[a].token = task[a].token
    PROVE  IInv'
<1>1. TokensDistinct'
  BY DEF IInv, TokensDistinct
<1>2. PhaseOfHolder'
  <2> SUFFICES ASSUME NEW w \in Workers, NEW a \in ActionNames, Holds(w, a)'
               PROVE  (worker[w].phase = task[a].phase)'
    BY DEF PhaseOfHolder
  <2>1. /\ task'[a].status = task[a].status
        /\ task'[a].phase = task[a].phase
        /\ task'[a].token = task[a].token
    BY DEF Holds, Fenced
  <2>2. Holds(w, a)
    BY <2>1 DEF Holds, Fenced, Works
  <2>3. QED
    BY <2>1, <2>2 DEF IInv, PhaseOfHolder
<1>3. AnsweredIsPerformed'
  BY DEF IInv, AnsweredIsPerformed
<1>4. SucceededIsPerformed'
  BY DEF IInv, SucceededIsPerformed
<1>5. AcceptedIsPerformed'
  BY DEF IInv, AcceptedIsPerformed
<1>6. QED
  BY <1>1, <1>2, <1>3, <1>4, <1>5 DEF IInv

\* Steps of one worker that leave the rows alone and keep its claim: the
\* command, the phase and the token, unless the worker becomes idle.
LEMMA WorkerStepKeeps ==
    ASSUME IInv, TypeOK', UNCHANGED <<accepted, task>>,
           performed \subseteq performed',
           NEW w \in Workers, NEW r, worker' = [worker EXCEPT ![w] = r],
           \/ r = IdleWorker
           \/ /\ worker[w].step # "idle"
              /\ r.action = worker[w].action
              /\ r.phase = worker[w].phase
              /\ r.token = worker[w].token,
           r.step = "answered" => <<r.action, r.phase>> \in performed'
    PROVE  IInv'
<1>0. /\ worker'[w] = r
      /\ \A v \in Workers : v # w => worker'[v] = worker[v]
  BY DEF IInv, TypeOK
<1>1. TokensDistinct'
  <2>1. r.step # "idle" => r.token \in Tokens
    BY DEF IInv, TokensDistinct, IdleWorker
  <2>2. r.token \in {NoToken, worker[w].token}
    BY DEF IdleWorker
  <2>3. QED
    BY <1>0, <2>1, <2>2 DEF IInv, TokensDistinct
<1>2. PhaseOfHolder'
  <2> SUFFICES ASSUME NEW v \in Workers, NEW a \in ActionNames, Holds(v, a)'
               PROVE  (worker[v].phase = task[a].phase)'
    BY DEF PhaseOfHolder
  <2>1. CASE v # w
    BY <1>0, <2>1 DEF IInv, PhaseOfHolder, Holds, Works, Fenced
  <2>2. CASE v = w
    <3>1. r # IdleWorker
      BY <1>0, <2>2 DEF Holds, Works, IdleWorker
    <3>2. Holds(w, a)
      BY <1>0, <2>2, <3>1 DEF Holds, Works, Fenced
    <3>3. QED
      BY <1>0, <2>2, <3>1, <3>2 DEF IInv, PhaseOfHolder
  <2>3. QED
    BY <2>1, <2>2
<1>3. AnsweredIsPerformed'
  BY <1>0 DEF IInv, AnsweredIsPerformed
<1>4. SucceededIsPerformed'
  BY DEF IInv, SucceededIsPerformed
<1>5. AcceptedIsPerformed'
  BY DEF IInv, AcceptedIsPerformed
<1>6. QED
  BY <1>1, <1>2, <1>3, <1>4, <1>5 DEF IInv

\* Claim: the new token differs from that of every worker, so the claimed row
\* has one holder, the claiming one.
LEMMA ClaimKeeps ==
    ASSUME IInv, TypeOK', NEW w \in Workers, NEW a \in ActionNames,
           NEW t \in Tokens, Claim(w, a, t)
    PROVE  IInv'
<1>0. /\ worker'[w].step = "claimed" /\ worker'[w].action = a
      /\ worker'[w].phase = task[a].phase /\ worker'[w].token = t
      /\ \A v \in Workers : v # w => worker'[v] = worker[v] /\ worker[v].token # t
      /\ task'[a].status = "PROCESSING" /\ task'[a].phase = task[a].phase
      /\ task'[a].token = t
      /\ \A b \in ActionNames : b # a => task'[b] = task[b]
  <2>1. task[a] \in Tasks
    BY DEF IInv, TypeOK
  <2>2. /\ [task[a] EXCEPT !.status = "PROCESSING", !.token = t,
                           !.expired = FALSE].status = "PROCESSING"
        /\ [task[a] EXCEPT !.status = "PROCESSING", !.token = t,
                           !.expired = FALSE].token = t
        /\ [task[a] EXCEPT !.status = "PROCESSING", !.token = t,
                           !.expired = FALSE].phase = task[a].phase
    BY <2>1 DEF Tasks
  <2>3. task'[a] = [task[a] EXCEPT !.status = "PROCESSING", !.token = t,
                                   !.expired = FALSE]
    BY DEF IInv, TypeOK, Claim
  <2>4. worker'[w] = [IdleWorker EXCEPT !.step = "claimed", !.action = a,
                        !.phase = task[a].phase, !.token = t]
    BY DEF IInv, TypeOK, Claim
  <2>5. /\ worker'[w].step = "claimed" /\ worker'[w].action = a
        /\ worker'[w].phase = task[a].phase /\ worker'[w].token = t
    BY <2>4 DEF IdleWorker
  <2>6. \A v \in Workers :
           v # w => worker'[v] = worker[v] /\ worker[v].token # t
    BY DEF IInv, TypeOK, Claim, Fresh
  <2>7. \A b \in ActionNames : b # a => task'[b] = task[b]
    BY DEF IInv, TypeOK, Claim
  <2>8. QED
    BY <2>2, <2>3, <2>5, <2>6, <2>7
<1>1. TokensDistinct'
  BY <1>0, OutboxAssumption DEF IInv, TokensDistinct
<1>2. PhaseOfHolder'
  <2> SUFFICES ASSUME NEW v \in Workers, NEW b \in ActionNames, Holds(v, b)'
               PROVE  (worker[v].phase = task[b].phase)'
    BY DEF PhaseOfHolder
  <2>1. CASE v = w
    BY <1>0, <2>1 DEF Holds, Works
  <2>2. CASE v # w
    <3>1. b # a
      BY <1>0, <2>2 DEF Holds, Fenced
    <3>2. Holds(v, b)
      BY <1>0, <2>2, <3>1 DEF Holds, Works, Fenced
    <3>3. QED
      BY <1>0, <2>2, <3>1, <3>2 DEF IInv, PhaseOfHolder
  <2>3. QED
    BY <2>1, <2>2
<1>3. AnsweredIsPerformed'
  BY <1>0 DEF IInv, AnsweredIsPerformed, Claim
<1>4. SucceededIsPerformed'
  BY <1>0 DEF IInv, SucceededIsPerformed, Claim
<1>5. AcceptedIsPerformed'
  BY DEF IInv, AcceptedIsPerformed, Claim
<1>6. QED
  BY <1>1, <1>2, <1>3, <1>4, <1>5 DEF IInv

\* A worker that passes the fence settles its row and becomes idle.
LEMMA SettlingKeeps ==
    ASSUME IInv, TypeOK', NEW w \in Workers, NEW a \in ActionNames,
           Holds(w, a), worker' = [worker EXCEPT ![w] = IdleWorker],
           UNCHANGED performed,
           NEW r, task' = [task EXCEPT ![a] = r],
           r.phase = task[a].phase,
           \/ r.status = "FAILED"
           \/ r.status = "SUCCEEDED" /\ worker[w].step = "answered",
           accepted' => accepted \/ (a = "ACCEPT" /\ worker[w].step = "answered")
    PROVE  IInv'
<1>0. /\ worker'[w] = IdleWorker /\ task'[a] = r
      /\ \A v \in Workers : v # w => worker'[v] = worker[v]
      /\ \A b \in ActionNames : b # a => task'[b] = task[b]
  BY DEF IInv, TypeOK
<1>1. /\ worker[w].action = a
      /\ worker[w].phase = task[a].phase
      /\ worker[w].step = "answered" => <<a, task[a].phase>> \in performed
      /\ task[a].phase \in Phases
  <2>1. worker[w].action = a
    BY DEF Holds, Works
  <2>2. worker[w].phase = task[a].phase
    BY DEF IInv, PhaseOfHolder
  <2>3. task[a].phase \in Phases
    BY DEF IInv, TypeOK, Tasks
  <2>4. QED
    BY <2>1, <2>2, <2>3 DEF IInv, AnsweredIsPerformed
<1>2. TokensDistinct'
  BY <1>0 DEF IInv, TokensDistinct, IdleWorker
<1>3. PhaseOfHolder'
  <2> SUFFICES ASSUME NEW v \in Workers, NEW b \in ActionNames, Holds(v, b)'
               PROVE  (worker[v].phase = task[b].phase)'
    BY DEF PhaseOfHolder
  <2>1. v # w /\ b # a
    BY <1>0 DEF Holds, Works, Fenced, IdleWorker
  <2>2. Holds(v, b)
    BY <1>0, <2>1 DEF Holds, Works, Fenced
  <2>3. QED
    BY <1>0, <2>1, <2>2 DEF IInv, PhaseOfHolder
<1>4. AnsweredIsPerformed'
  BY <1>0 DEF IInv, AnsweredIsPerformed, IdleWorker
<1>5. SucceededIsPerformed'
  BY <1>0, <1>1 DEF IInv, SucceededIsPerformed
<1>6. AcceptedIsPerformed'
  BY <1>1 DEF IInv, AcceptedIsPerformed
<1>7. QED
  BY <1>2, <1>3, <1>4, <1>5, <1>6 DEF IInv

\* Every step keeps the inductive invariant.
LEMMA StepHolds == ASSUME IInv, [Next]_vars PROVE IInv'
<1>0. TypeOK /\ TypeOK'
  BY TypeStep DEF IInv
<1>1. ASSUME NEW a \in Requestable, Request(a) PROVE IInv'
  BY <1>0, <1>1, RowStepKeeps DEF Request, Enqueued, NewTask, AbsentTask, TypeOK
<1>2. CASE RequestScheduledFinalize
  BY <1>0, <1>2, RowStepKeeps
     DEF RequestScheduledFinalize, Finalized, NewTask, AbsentTask, TypeOK
<1>3. ASSUME NEW s \in Writable, OrderWritten(s) PROVE IInv'
  BY <1>0, <1>3, RowStepKeeps DEF OrderWritten
<1>4. ASSUME NEW s \in Writable, NEW a \in Requestable, OrderImported(s, a)
      PROVE  IInv'
  BY <1>0, <1>4, RowStepKeeps
     DEF OrderImported, Enqueued, NewTask, AbsentTask, TypeOK
<1>5. ASSUME NEW w \in Workers, NEW a \in ActionNames, NEW t \in Tokens,
             Claim(w, a, t)
      PROVE  IInv'
  BY <1>0, <1>5, ClaimKeeps
<1>6. ASSUME NEW w \in Workers, ReadContext(w) PROVE IInv'
  <2> DEFINE r == [worker[w] EXCEPT !.step = "sending", !.seen = status]
  <2>0. worker[w] \in WorkerStates
    BY <1>0 DEF TypeOK
  <2>1. /\ r.step = "sending" /\ r.action = worker[w].action
        /\ r.phase = worker[w].phase /\ r.token = worker[w].token
    BY <2>0 DEF WorkerStates
  <2>2. worker' = [worker EXCEPT ![w] = r]
    BY <1>0, <1>6 DEF ReadContext, TypeOK
  <2>3. UNCHANGED <<accepted, task, performed>> /\ worker[w].step = "claimed"
    BY <1>6 DEF ReadContext
  <2> HIDE DEF r
  <2>4. QED
    BY <1>0, <2>1, <2>2, <2>3, WorkerStepKeeps
<1>7. ASSUME NEW w \in Workers, NEW a \in ActionNames, Perform(w, a)
      PROVE  IInv'
  <2>0. worker[w] \in WorkerStates
    BY <1>0 DEF TypeOK
  <2>1. /\ UNCHANGED <<accepted, task>> /\ performed \subseteq performed'
        /\ worker[w].step = "sending" /\ worker[w].action = a
        /\ <<a, worker[w].phase>> \in performed'
    BY <1>7 DEF Perform, Works
  <2>2. CASE worker' = [worker EXCEPT ![w] = Refused(w, TRUE)]
    <3>1. /\ Refused(w, TRUE).step = "refused"
          /\ Refused(w, TRUE).action = worker[w].action
          /\ Refused(w, TRUE).phase = worker[w].phase
          /\ Refused(w, TRUE).token = worker[w].token
      BY <2>0 DEF Refused, WorkerStates
    <3>2. QED
      BY <1>0, <2>1, <2>2, <3>1, WorkerStepKeeps
  <2>3. CASE worker' = [worker EXCEPT ![w].step = "answered"]
    <3> DEFINE r == [worker[w] EXCEPT !.step = "answered"]
    <3>1. /\ r.step = "answered" /\ r.action = worker[w].action
          /\ r.phase = worker[w].phase /\ r.token = worker[w].token
      BY <2>0 DEF WorkerStates
    <3>2. worker' = [worker EXCEPT ![w] = r]
      BY <1>0, <2>3 DEF TypeOK
    <3> HIDE DEF r
    <3>3. QED
      BY <1>0, <2>1, <3>1, <3>2, WorkerStepKeeps
  <2>4. QED
    BY <1>7, <2>2, <2>3 DEF Perform
<1>8. ASSUME NEW w \in Workers, NEW retryable \in BOOLEAN, Refuse(w, retryable)
      PROVE  IInv'
  <2>0. worker[w] \in WorkerStates
    BY <1>0 DEF TypeOK
  <2>1. /\ Refused(w, retryable).step = "refused"
        /\ Refused(w, retryable).action = worker[w].action
        /\ Refused(w, retryable).phase = worker[w].phase
        /\ Refused(w, retryable).token = worker[w].token
    BY <2>0 DEF Refused, WorkerStates
  <2>2. /\ UNCHANGED <<accepted, task, performed>> /\ worker[w].step = "sending"
        /\ worker' = [worker EXCEPT ![w] = Refused(w, retryable)]
    BY <1>8 DEF Refuse
  <2>3. QED
    BY <1>0, <2>1, <2>2, WorkerStepKeeps
<1>9. ASSUME NEW w \in Workers, worker' = [worker EXCEPT ![w] = IdleWorker],
             UNCHANGED <<accepted, task, performed>>
      PROVE  IInv'
  <2>1. IdleWorker.step # "answered"
    BY DEF IdleWorker
  <2>2. QED
    BY <1>0, <1>9, <2>1, WorkerStepKeeps
<1>10. ASSUME NEW w \in Workers, NEW a \in ActionNames, Complete(w, a)
       PROVE  IInv'
  <2>1. CASE Fenced(w, a)
    <3> DEFINE r == [task[a] EXCEPT !.status = "SUCCEEDED", !.token = NoToken,
                                    !.expired = FALSE, !.retryable = FALSE]
    <3>0. task[a] \in Tasks
      BY <1>0 DEF TypeOK
    <3>1. r.phase = task[a].phase /\ r.status = "SUCCEEDED"
      BY <3>0 DEF Tasks
    <3>2. /\ worker[w].step = "answered" /\ Holds(w, a)
          /\ worker' = [worker EXCEPT ![w] = IdleWorker]
          /\ task' = [task EXCEPT ![a] = r]
          /\ UNCHANGED performed
          /\ accepted' => accepted \/ a = "ACCEPT"
      BY <1>10, <2>1 DEF Complete, Holds
    <3> HIDE DEF r
    <3>3. QED
      BY <1>0, <3>1, <3>2, SettlingKeeps
  <2>2. CASE ~Fenced(w, a)
    BY <1>9, <1>10, <2>2 DEF Complete
  <2>3. QED
    BY <2>1, <2>2
<1>11. ASSUME NEW w \in Workers, NEW a \in ActionNames, MarkFailed(w, a)
       PROVE  IInv'
  <2>1. CASE Fenced(w, a)
    <3> DEFINE r == [task[a] EXCEPT !.status = "FAILED", !.token = NoToken,
                        !.expired = FALSE, !.retryable = worker[w].retryable]
    <3>0. task[a] \in Tasks
      BY <1>0 DEF TypeOK
    <3>1. r.phase = task[a].phase /\ r.status = "FAILED"
      BY <3>0 DEF Tasks
    <3>2. /\ Holds(w, a)
          /\ worker' = [worker EXCEPT ![w] = IdleWorker]
          /\ task' = [task EXCEPT ![a] = r]
          /\ UNCHANGED <<performed, accepted>>
      BY <1>11, <2>1 DEF MarkFailed, Holds
    <3> HIDE DEF r
    <3>3. QED
      BY <1>0, <3>1, <3>2, SettlingKeeps
  <2>2. CASE ~Fenced(w, a)
    BY <1>9, <1>11, <2>2 DEF MarkFailed
  <2>3. QED
    BY <2>1, <2>2
<1>12. ASSUME NEW a \in ActionNames, LeaseTimeout(a) PROVE IInv'
  <2>1. task[a] \in Tasks
    BY <1>0 DEF TypeOK
  <2>2. /\ [task[a] EXCEPT !.expired = TRUE].status = task[a].status
        /\ [task[a] EXCEPT !.expired = TRUE].phase = task[a].phase
        /\ [task[a] EXCEPT !.expired = TRUE].token = task[a].token
    BY <2>1 DEF Tasks
  <2>3. /\ task' = [task EXCEPT ![a] = [task[a] EXCEPT !.expired = TRUE]]
        /\ UNCHANGED <<accepted, worker, performed>>
    BY <1>12 DEF LeaseTimeout
  <2>4. \A b \in ActionNames :
           /\ task'[b].status = task[b].status
           /\ task'[b].phase = task[b].phase
           /\ task'[b].token = task[b].token
    BY <1>0, <2>2, <2>3 DEF TypeOK
  <2>5. QED
    BY <1>0, <2>3, <2>4, RowStepKeeps
<1>13. ASSUME NEW w \in Workers, Crash(w) PROVE IInv'
  BY <1>9, <1>13 DEF Crash
<1>14. CASE UNCHANGED vars
  BY <1>0, <1>14, RowStepKeeps DEF vars
<1>15. QED
  BY <1>1, <1>2, <1>3, <1>4, <1>5, <1>6, <1>7, <1>8, <1>10, <1>11, <1>12,
     <1>13, <1>14 DEF Next, WorkerStep, Settle

\* The inductive invariant of the outbox: the types, the exclusive lease and
\* what workers remember of the order, of Uber's answer and of their row.
THEOREM Invariance == Spec => []IInv
<1>1. IInv /\ [Next]_vars => IInv'
  BY StepHolds
<1>2. QED
  BY <1>1, InitHolds, PTL DEF Spec

\* However many workers claimed a command and come back late, one at most
\* passes the fence of its row.
THEOREM LeaseIsExclusive == Spec => []OneSettler
<1>1. IInv => OneSettler
  BY OutboxAssumption
     DEF IInv, TokensDistinct, OneSettler, Holds, Works, Fenced
<1>2. QED
  BY <1>1, Invariance, PTL

\* A command is recorded as done under an idempotency key only if Uber
\* carried it out under that key.
THEOREM SuccessIsEarned == Spec => []SucceededIsPerformed
<1>1. IInv => SucceededIsPerformed
  BY DEF IInv
<1>2. QED
  BY <1>1, Invariance, PTL

\* The order.accepted fact is never there without an ACCEPT at Uber.
THEOREM AcceptanceIsEarned == Spec => []AcceptedIsPerformed
<1>1. IInv => AcceptedIsPerformed
  BY DEF IInv
<1>2. QED
  BY <1>1, Invariance, PTL

\* The rows a step may take to or from SUCCEEDED.
LEMMA RowsOfStep ==
    ASSUME TypeOK, [Next]_vars, NEW b \in ActionNames, task'[b] # task[b]
    PROVE  \/ /\ task[b].status = "SUCCEEDED"
              /\ task'[b].status = "PENDING"
              /\ task'[b].phase # task[b].phase
           \/ /\ task[b].status # "SUCCEEDED"
              /\ \/ task'[b].status # "SUCCEEDED"
                 \/ \E w \in Workers : status' = Moved(w, b)
<1> USE DEF TypeOK
<1>0. task[b] \in Tasks
  OBVIOUS
<1>1. ASSUME NEW a \in ActionNames, task' = Enqueued(a, "initial")
      PROVE  task[b].status = "ABSENT" /\ task'[b].status = "PENDING"
  BY <1>1 DEF Enqueued, NewTask, AbsentTask
<1>2. ASSUME NEW a \in Requestable, Request(a)
      PROVE  task[b].status = "ABSENT" /\ task'[b].status = "PENDING"
  BY <1>1, <1>2, OutboxAssumption DEF Request
<1>3. ASSUME NEW s \in Writable, NEW a \in Requestable, OrderImported(s, a)
      PROVE  task[b].status = "ABSENT" /\ task'[b].status = "PENDING"
  BY <1>1, <1>3, OutboxAssumption DEF OrderImported
<1>4. CASE RequestScheduledFinalize
  BY <1>4 DEF RequestScheduledFinalize, Finalized, PhaseOpen, NewTask, AbsentTask
<1>5. ASSUME NEW w \in Workers, NEW a \in ActionNames, NEW t \in Tokens,
             Claim(w, a, t)
      PROVE  task[b].status # "SUCCEEDED" /\ task'[b].status # "SUCCEEDED"
  <2>1. a = b /\ task' = [task EXCEPT ![a] = [task[a] EXCEPT
            !.status = "PROCESSING", !.token = t, !.expired = FALSE]]
    BY <1>5 DEF Claim
  <2>2. [task[b] EXCEPT !.status = "PROCESSING", !.token = t,
                        !.expired = FALSE].status = "PROCESSING"
    BY <1>0 DEF Tasks
  <2>3. QED
    BY <1>5, <2>1, <2>2 DEF Claim, Claimable
<1>6. ASSUME NEW w \in Workers, NEW a \in ActionNames, Complete(w, a)
      PROVE  task[b].status # "SUCCEEDED" /\ status' = Moved(w, b)
  <2>1. a = b /\ Fenced(w, a) /\ status' = Moved(w, a)
    BY <1>6 DEF Complete
  <2>2. QED
    BY <2>1 DEF Fenced
<1>7. ASSUME NEW w \in Workers, NEW a \in ActionNames, MarkFailed(w, a)
      PROVE  task[b].status # "SUCCEEDED" /\ task'[b].status # "SUCCEEDED"
  <2>1. /\ a = b /\ Fenced(w, a)
        /\ task' = [task EXCEPT ![a] = [task[a] EXCEPT !.status = "FAILED",
               !.token = NoToken, !.expired = FALSE,
               !.retryable = worker[w].retryable]]
    BY <1>7 DEF MarkFailed
  <2>2. [task[b] EXCEPT !.status = "FAILED", !.token = NoToken,
            !.expired = FALSE, !.retryable = worker[w].retryable].status = "FAILED"
    BY <1>0 DEF Tasks
  <2>3. QED
    BY <2>1, <2>2 DEF Fenced
<1>8. ASSUME NEW a \in ActionNames, LeaseTimeout(a)
      PROVE  task[b].status # "SUCCEEDED" /\ task'[b].status # "SUCCEEDED"
  <2>1. a = b /\ task' = [task EXCEPT ![a] = [task[a] EXCEPT !.expired = TRUE]]
    BY <1>8 DEF LeaseTimeout
  <2>2. [task[b] EXCEPT !.expired = TRUE].status = task[b].status
    BY <1>0 DEF Tasks
  <2>3. QED
    BY <1>8, <2>1, <2>2 DEF LeaseTimeout
<1>9. QED
  BY <1>2, <1>3, <1>4, <1>5, <1>6, <1>7, <1>8
     DEF Next, WorkerStep, Settle, OrderWritten, ReadContext, Crash, Refuse,
         Perform, vars

\* A command Uber confirmed is never sent again under its idempotency key.
THEOREM SuccessStays == Spec => SuccessIsFinal
<1>1. TypeOK /\ [Next]_vars => [\A a \in ActionNames : SuccessKept(a)]_vars
  BY RowsOfStep DEF SuccessKept
<1>2. QED
  BY <1>1, TypeCorrect, PTL DEF Spec, SuccessIsFinal

\* What a confirmed command does to the order is what the state machine says
\* of the status the order has at that instant, or nothing.
THEOREM MovesAreTheMachines == Spec => MovesAreConfirmed
<1>1. TypeOK /\ [Next]_vars => [\A a \in ActionNames : MoveOf(a)]_vars
  <2> SUFFICES ASSUME TypeOK, [Next]_vars, NEW a \in ActionNames,
                      task[a].status # "SUCCEEDED",
                      task'[a].status = "SUCCEEDED"
               PROVE  status' \in {status, AfterConfirmedAction(status, a)}
    BY DEF MoveOf
  <2>1. PICK w \in Workers : status' = Moved(w, a)
    BY RowsOfStep
  <2>2. QED
    BY <2>1 DEF Moved
<1>2. QED
  BY <1>1, TypeCorrect, PTL DEF Spec, MovesAreConfirmed

-----------------------------------------------------------------------------
(* The life of one order (UberOrderLifecycle).                              *)

\* The values the actions assign to the enumerated fields.
LEMMA LifecycleNames ==
    /\ "idle" \in LaneSteps /\ "deciding" \in LaneSteps
    /\ "merging" \in LaneSteps /\ "finalizing" \in LaneSteps
    /\ "cancelling" \in LaneSteps
    /\ "IMMEDIATE" \in Timings /\ "SCHEDULED" \in Timings
    /\ "pending" \in OrderStatuses /\ "making" \in OrderStatuses
    /\ "completed" \in OrderStatuses /\ "refunded" \in OrderStatuses
  BY DEF LaneSteps, Timings, OrderStatuses

\* The statuses staff may lead to, and from where.
LEMMA LocalMoves ==
    ASSUME NEW from \in OrderStatuses, NEW to \in OrderStatusTransitions[from]
    PROVE  /\ to \in OrderStatuses
           /\ to \in {"making", "ready", "completed"} => from \in BeyondPending
<1>1. CASE from = "pending"
  BY <1>1 DEF OrderStatusTransitions, OrderStatuses, BeyondPending
<1>2. CASE from = "paid"
  BY <1>2 DEF OrderStatusTransitions, OrderStatuses, BeyondPending
<1>3. CASE from = "making"
  BY <1>3 DEF OrderStatusTransitions, OrderStatuses, BeyondPending
<1>4. CASE from = "ready"
  BY <1>4 DEF OrderStatusTransitions, OrderStatuses, BeyondPending
<1>5. CASE from = "completed"
  BY <1>5 DEF OrderStatusTransitions, OrderStatuses, BeyondPending
<1>6. CASE from = "refunded"
  BY <1>6 DEF OrderStatusTransitions, OrderStatuses, BeyondPending
<1>7. QED
  BY <1>1, <1>2, <1>3, <1>4, <1>5, <1>6 DEF OrderStatuses

\* An import writes "pending" or the status it read.
LEMMA MergedIsStatus ==
    ASSUME LifecycleTypeOK, NEW l \in Lanes
    PROVE  /\ MergedStatus(l) \in OrderStatuses
           /\ MergedStatus(l) \in {"pending", lane[l].seen}
<1>1. lane[l].seen \in OrderStatuses \cup {Absent}
  BY DEF LifecycleTypeOK, LaneStates
<1>2. QED
  BY <1>1, LifecycleNames DEF MergedStatus, EffectiveStatus

\* The states a lane goes through: idle,
LEMMA IdleIsLane == IdleLane \in LaneStates
  BY LifecycleNames DEF IdleLane, LaneStates, Intents

\* after it saved the order,
LEMMA AfterSaveIsLane == ASSUME NEW l PROVE AfterSave(l) \in LaneStates
  BY LifecycleNames DEF AfterSave, IdleLane, LaneStates, Intents

\* while it decides on the answer to Uber,
LEMMA DecidingIsLane ==
    ASSUME NEW t \in Timings, NEW f \in BOOLEAN
    PROVE  [IdleLane EXCEPT !.step = "deciding", !.followUp = f, !.timing = t]
             \in LaneStates
  BY LifecycleNames DEF IdleLane, LaneStates, Intents

\* while it records a cancellation,
LEMMA CancellingIsLane ==
    [IdleLane EXCEPT !.step = "cancelling"] \in LaneStates
  BY LifecycleNames DEF IdleLane, LaneStates, Intents

\* and while it merges the import into the stored order.
LEMMA MergingIsLane ==
    ASSUME NEW r \in LaneStates, NEW i \in Intents,
           NEW s \in OrderStatuses \cup {Absent}
    PROVE  [r EXCEPT !.step = "merging", !.intent = i, !.seen = s]
             \in LaneStates
  BY LifecycleNames DEF LaneStates

\* Every step of the lifecycle is a step of the outbox or leaves it alone.
LEMMA StepIsOutboxStep ==
    ASSUME LifecycleTypeOK, [LifecycleNext]_lifecycleVars
    PROVE  [Next]_vars
<1>1. ASSUME NEW s \in OrderStatuses, OrderWritten(s) PROVE Next
  BY <1>1, LifecycleAssumption DEF Next
<1>2. ASSUME NEW a \in Requestable, Request(a) PROVE Next
  BY <1>2 DEF Next
<1>3. CASE OutboxStep
  BY <1>3, LifecycleAssumption DEF OutboxStep, Next
<1>4. ASSUME NEW l \in Lanes, LaneStep(l) PROVE [Next]_vars
  <2>1. CASE DenyStandalone(l)
    BY <1>2, <2>1, LifecycleAssumption DEF DenyStandalone
  <2>2. CASE MergeOrder(l)
    <3>1. lane[l].intent \in Intents
      BY DEF LifecycleTypeOK, LaneStates
    <3>2. CASE OrderWritten(MergedStatus(l))
      BY <1>1, <3>2, MergedIsStatus
    <3>3. CASE /\ lane[l].intent # NoAction
               /\ OrderImported(MergedStatus(l), lane[l].intent)
      BY <3>1, <3>3, MergedIsStatus, LifecycleAssumption DEF Next, Intents
    <3>4. QED
      BY <2>2, <3>2, <3>3 DEF MergeOrder, Saved
  <2>3. CASE Finalize(l)
    BY <2>3 DEF Finalize, Next
  <2>4. CASE CancelOrder(l)
    BY <1>1, <2>4, LifecycleNames DEF CancelOrder
  <2>5. QED
    BY <1>4, <2>1, <2>2, <2>3, <2>4
       DEF LaneStep, Notify, ReadStored, NotifyFailure, LaneFails
<1>5. ASSUME NEW s, LocalUpdate(s) PROVE Next
  BY <1>1, <1>5, LocalMoves DEF LocalUpdate, LifecycleTypeOK, TypeOK
<1>6. CASE StaffStep
  BY <1>2, <1>5, <1>6 DEF StaffStep, PosDecide, PosRequest, Patch, PosAdvance,
     RequestLost
<1>7. ASSUME NEW t, Activate(t) PROVE Next
  BY <1>1, <1>7, LifecycleNames DEF Activate
<1>8. CASE KitchenStep
  BY <1>7, <1>8 DEF KitchenStep, StartImmediate, StartDue, StartEarly,
     PrintFromOutbox, PrintFromBus, Ticket, AnnouncementLost
<1>9. CASE UNCHANGED lifecycleVars
  BY <1>9 DEF lifecycleVars
<1>10. QED
  BY <1>3, <1>4, <1>6, <1>8, <1>9 DEF LifecycleNext

\* Every step keeps the types.
LEMMA LifecycleTypeStep ==
    ASSUME LifecycleTypeOK, [LifecycleNext]_lifecycleVars
    PROVE  LifecycleTypeOK'
<1> DEFINE LaneTypes ==
        /\ timing' \in Timings
        /\ lane' \in [Lanes -> LaneStates]
        /\ UNCHANGED <<activated, prepStarted, announced, printJob, paidByHand, terminal>>
<1>0. TypeOK'
  BY StepIsOutboxStep, TypeStep DEF LifecycleTypeOK
<1>1. CASE OutboxStep
  BY <1>0, <1>1 DEF OutboxStep, houseVars, LifecycleTypeOK
<1>2. ASSUME NEW l \in Lanes, LaneStep(l) PROVE LaneTypes
  <2>0. /\ lane[l] \in LaneStates /\ lane \in [Lanes -> LaneStates]
        /\ timing \in Timings /\ status \in OrderStatuses \cup {Absent}
        /\ lane[l].timing \in Timings
    BY DEF LifecycleTypeOK, TypeOK, LaneStates
  <2>1. ASSUME NEW r \in LaneStates, LaneOnly(l, r) PROVE LaneTypes
    BY <2>0, <2>1 DEF LaneOnly, houseVars
  <2>2. ASSUME NEW scheduled \in BOOLEAN, Notify(l, scheduled) PROVE LaneTypes
    <3>1. /\ FollowsUp(scheduled) \in BOOLEAN
          /\ (IF scheduled \/ FollowsUp(scheduled)
              THEN "SCHEDULED" ELSE "IMMEDIATE") \in Timings
      BY LifecycleNames DEF FollowsUp
    <3> DEFINE r == [IdleLane EXCEPT !.step = "deciding",
                        !.followUp = FollowsUp(scheduled),
                        !.timing = IF scheduled \/ FollowsUp(scheduled)
                                   THEN "SCHEDULED" ELSE "IMMEDIATE"]
    <3>2. r \in LaneStates
      BY <3>1, DecidingIsLane
    <3>3. LaneOnly(l, r)
      BY <2>2 DEF Notify
    <3> HIDE DEF r
    <3>4. QED
      BY <2>1, <3>2, <3>3
  <2>3. ASSUME NEW i \in Intents, ReadStored(l, i) PROVE LaneTypes
    BY <2>0, <2>1, <2>3, MergingIsLane DEF ReadStored
  <2>4. CASE NotifyFailure(l)
    BY <2>1, <2>4, CancellingIsLane DEF NotifyFailure
  <2>5. CASE MergeOrder(l)
    BY <2>0, <2>5, AfterSaveIsLane DEF MergeOrder, houseVars
  <2>6. CASE DenyStandalone(l) \/ Finalize(l) \/ CancelOrder(l) \/ LaneFails(l)
    BY <2>1, <2>6, IdleIsLane DEF DenyStandalone, Finalize, CancelOrder, LaneFails
  <2>7. QED
    BY <1>2, <2>2, <2>3, <2>4, <2>5, <2>6 DEF LaneStep
<1>3. ASSUME NEW l \in Lanes, LaneStep(l) PROVE LifecycleTypeOK'
  BY <1>0, <1>2, <1>3 DEF LifecycleTypeOK
<1>4. CASE StaffStep
  BY <1>0, <1>4 DEF StaffStep, PosDecide, PosRequest, Patch, PosAdvance,
     LocalUpdate, StaffOnly, RequestLost, LifecycleTypeOK
<1>5. CASE KitchenStep
  BY <1>0, <1>5 DEF KitchenStep, StartImmediate, StartDue, StartEarly, Activate,
     PrintFromOutbox, PrintFromBus, Ticket, KitchenOnly, AnnouncementLost,
     LifecycleTypeOK
<1>6. CASE UNCHANGED lifecycleVars
  BY <1>0, <1>6 DEF lifecycleVars, houseVars, LifecycleTypeOK
<1>7. QED
  BY <1>1, <1>3, <1>4, <1>5, <1>6 DEF LifecycleNext

\* The types hold initially.
LEMMA LifecycleTypeInit == LifecycleInit => LifecycleTypeOK
<1> SUFFICES ASSUME LifecycleInit PROVE LifecycleTypeOK
  OBVIOUS
<1>1. TypeOK
  BY InitHolds DEF LifecycleInit, IInv
<1>2. QED
  BY <1>1, IdleIsLane, LifecycleNames DEF LifecycleInit, LifecycleTypeOK

\* Type correctness of the lifecycle, and with it of the outbox in it.
THEOREM LifecycleTypeCorrect == LifecycleSpec => []LifecycleTypeOK
<1>1. LifecycleTypeOK /\ [LifecycleNext]_lifecycleVars => LifecycleTypeOK'
  BY LifecycleTypeStep
<1>2. QED
  BY <1>1, LifecycleTypeInit, PTL DEF LifecycleSpec

\* The surroundings of the outbox keep what it asks of them, so what is
\* proved of the outbox alone holds of the whole lifecycle.
THEOREM OutboxImplemented == LifecycleSpec => ImplementsOutbox
<1>1. LifecycleInit => Init
  BY DEF LifecycleInit
<1>2. LifecycleTypeOK /\ [LifecycleNext]_lifecycleVars => [Next]_vars
  BY StepIsOutboxStep
<1>3. QED
  BY <1>1, <1>2, LifecycleTypeCorrect, PTL DEF LifecycleSpec, ImplementsOutbox, Spec
-----------------------------------------------------------------------------
(* The accepted fact.                                                       *)

\* PaidIsAccepted with what it needs of the statuses handlers remember, and
\* what follows from it for the kitchen.
AcceptedEverywhere ==
    /\ PaidIsAccepted
    /\ \A l \in Lanes : lane[l].seen \in BeyondPending => accepted \/ paidByHand
    /\ announced \/ printJob => accepted \/ paidByHand
    /\ prepStarted => accepted

\* What a confirmed command may lead to, and from where.
LEMMA ConfirmedMoves ==
    ASSUME NEW s, NEW a \in ActionNames,
           AfterConfirmedAction(s, a) \in BeyondPending
    PROVE  a = "ACCEPT" \/ s \in BeyondPending
<1>1. CASE a = "ACCEPT"
  BY <1>1
<1>2. CASE a = "CANCEL"
  BY <1>2 DEF AfterConfirmedAction, AfterCancellation, BeyondPending, NoStatus
<1>3. CASE a = "READY_FOR_PICKUP"
  BY <1>3 DEF AfterConfirmedAction, BeyondPending, NoStatus
<1>4. CASE a = "DENY"
  BY <1>4 DEF AfterConfirmedAction, BeyondPending, NoStatus
<1>5. QED
  BY <1>1, <1>2, <1>3, <1>4 DEF ActionNames

\* complete writes paid and the order.accepted fact in one transaction.
LEMMA CompletingAccepts ==
    ASSUME PaidIsAccepted, NEW w \in Workers, NEW a \in ActionNames,
           Complete(w, a), UNCHANGED paidByHand
    PROVE  PaidIsAccepted' /\ (accepted => accepted')
<1>1. CASE UNCHANGED <<status, accepted>>
  BY <1>1 DEF PaidIsAccepted
<1>2. CASE /\ status' = Moved(w, a)
           /\ accepted' = (accepted \/ (a = "ACCEPT" /\ ReachedTarget(w, a)))
  <2>1. CASE Moved(w, a) = status
    BY <1>2, <2>1 DEF PaidIsAccepted
  <2>2. CASE Moved(w, a) # status
    <3>1. /\ worker[w].seen # Absent /\ status = worker[w].seen
          /\ AfterConfirmedAction(status, a) # NoStatus
          /\ Moved(w, a) = AfterConfirmedAction(status, a)
      BY <2>2 DEF Moved
    <3>2. ReachedTarget(w, a)
      BY <3>1 DEF ReachedTarget
    <3>3. status' \in BeyondPending => a = "ACCEPT" \/ status \in BeyondPending
      BY <1>2, <3>1, ConfirmedMoves
    <3>4. QED
      BY <1>2, <3>2, <3>3 DEF PaidIsAccepted
  <2>3. QED
    BY <2>1, <2>2
<1>3. QED
  BY <1>1, <1>2 DEF Complete

\* No step of the outbox parts the status and the fact.
LEMMA OutboxAccepts ==
    ASSUME AcceptedEverywhere, OutboxStep PROVE AcceptedEverywhere'
<1>0. UNCHANGED paidByHand
  BY DEF OutboxStep, houseVars
<1>1. PaidIsAccepted' /\ (accepted => accepted')
  <2>1. ASSUME NEW w \in Workers, NEW a \in ActionNames, Complete(w, a)
        PROVE  PaidIsAccepted' /\ (accepted => accepted')
    BY <1>0, <2>1, CompletingAccepts DEF AcceptedEverywhere
  <2>2. CASE UNCHANGED <<status, accepted>>
    BY <1>0, <2>2 DEF AcceptedEverywhere, PaidIsAccepted
  <2>3. QED
    BY <2>1, <2>2, LifecycleAssumption DEF OutboxStep, WorkerStep, Claim, Perform, Settle, MarkFailed,
       ReadContext, Crash, Refuse, LeaseTimeout
<1>2. UNCHANGED <<lane, prepStarted, announced, printJob, paidByHand>>
  BY DEF OutboxStep, houseVars
<1>3. QED
  BY <1>1, <1>2 DEF AcceptedEverywhere

\* Steps of webhook handlers: what they remember and write of the status is
\* what the order has or had.
LEMMA LaneAccepts ==
    ASSUME LifecycleTypeOK, AcceptedEverywhere, NEW l \in Lanes, LaneStep(l)
    PROVE  AcceptedEverywhere'
<1>0. UNCHANGED <<accepted, prepStarted, announced, printJob, paidByHand>>
  BY DEF LaneStep, Notify, NotifyFailure, DenyStandalone, ReadStored, MergeOrder,
     Finalize, CancelOrder, LaneFails, LaneOnly, houseVars, Saved,
     OrderWritten, OrderImported, Request, RequestScheduledFinalize, vars
<1>1. status' \in BeyondPending => accepted \/ paidByHand
  <2>1. CASE status' = status
    BY <2>1 DEF AcceptedEverywhere, PaidIsAccepted
  <2>2. CASE status' = MergedStatus(l)
    BY <2>2, MergedIsStatus DEF AcceptedEverywhere, BeyondPending
  <2>3. CASE status' = "refunded"
    BY <2>3 DEF BeyondPending
  <2>4. QED
    BY <2>1, <2>2, <2>3
       DEF LaneStep, Notify, NotifyFailure, DenyStandalone, ReadStored,
           MergeOrder, Finalize, CancelOrder, LaneFails, Saved, OrderWritten,
           OrderImported, Request, RequestScheduledFinalize, vars
<1>2. \A k \in Lanes : lane'[k].seen \in BeyondPending => accepted \/ paidByHand
  <2>0. lane \in [Lanes -> LaneStates] /\ lane[l] \in LaneStates
    BY DEF LifecycleTypeOK
  <2>1. ASSUME NEW r, lane' = [lane EXCEPT ![l] = r],
               r.seen \in BeyondPending => accepted \/ paidByHand
        PROVE  \A k \in Lanes : lane'[k].seen \in BeyondPending => accepted \/ paidByHand
    BY <2>0, <2>1 DEF AcceptedEverywhere
  <2>2. ASSUME NEW r, lane' = [lane EXCEPT ![l] = r], r.seen = Absent
        PROVE  \A k \in Lanes : lane'[k].seen \in BeyondPending => accepted \/ paidByHand
    BY <2>1, <2>2 DEF BeyondPending, Absent
  <2>3. ASSUME NEW scheduled \in BOOLEAN, Notify(l, scheduled)
        PROVE  \A k \in Lanes : lane'[k].seen \in BeyondPending => accepted \/ paidByHand
    <3> DEFINE r == [IdleLane EXCEPT !.step = "deciding",
                        !.followUp = FollowsUp(scheduled),
                        !.timing = IF scheduled \/ FollowsUp(scheduled)
                                   THEN "SCHEDULED" ELSE "IMMEDIATE"]
    <3>1. r.seen = Absent
      BY DEF IdleLane
    <3>2. lane' = [lane EXCEPT ![l] = r]
      BY <2>3 DEF Notify, LaneOnly
    <3> HIDE DEF r
    <3>3. QED
      BY <2>2, <3>1, <3>2
  <2>4. ASSUME NEW i \in Intents, ReadStored(l, i)
        PROVE  \A k \in Lanes : lane'[k].seen \in BeyondPending => accepted \/ paidByHand
    <3> DEFINE r == [lane[l] EXCEPT !.step = "merging", !.intent = i,
                                    !.seen = status]
    <3>1. r.seen = status
      BY <2>0 DEF LaneStates
    <3>2. lane' = [lane EXCEPT ![l] = r]
      BY <2>4 DEF ReadStored, LaneOnly
    <3> HIDE DEF r
    <3>3. QED
      BY <2>1, <3>1, <3>2 DEF AcceptedEverywhere, PaidIsAccepted
  <2>5. CASE NotifyFailure(l)
    <3>1. [IdleLane EXCEPT !.step = "cancelling"].seen = Absent
      BY DEF IdleLane
    <3>2. QED
      BY <2>2, <2>5, <3>1 DEF NotifyFailure, LaneOnly
  <2>6. CASE MergeOrder(l)
    <3>1. AfterSave(l).seen = Absent
      BY DEF AfterSave, IdleLane
    <3>2. QED
      BY <2>2, <2>6, <3>1 DEF MergeOrder
  <2>7. CASE DenyStandalone(l) \/ Finalize(l) \/ CancelOrder(l) \/ LaneFails(l)
    <3>1. IdleLane.seen = Absent
      BY DEF IdleLane
    <3>2. QED
      BY <2>2, <2>7, <3>1
         DEF DenyStandalone, Finalize, CancelOrder, LaneFails, LaneOnly
  <2>8. QED
    BY <2>3, <2>4, <2>5, <2>6, <2>7 DEF LaneStep
<1>3. QED
  BY <1>0, <1>1, <1>2 DEF AcceptedEverywhere, PaidIsAccepted

\* No step of staff does: a move past pending either starts past it or is the
\* one to paid that the history remembers.
LEMMA StaffAccepts ==
    ASSUME LifecycleTypeOK, AcceptedEverywhere, StaffStep
    PROVE  AcceptedEverywhere'
<1> DEFINE Excused == accepted \/ paidByHand
<1>0. UNCHANGED <<accepted, prepStarted, printJob, lane>>
  BY DEF StaffStep, PosDecide, PosRequest, Patch, PosAdvance, LocalUpdate,
     StaffOnly, RequestLost, OrderWritten, Request, vars
<1>1. ASSUME NEW s, LocalUpdate(s)
      PROVE  /\ Excused => Excused'
             /\ status' \in BeyondPending => Excused'
             /\ announced' => Excused'
  <2>1. status \in OrderStatuses /\ s \in OrderStatusTransitions[status]
    BY <1>1 DEF LocalUpdate, LifecycleTypeOK, TypeOK
  <2>2. s \in BeyondPending => s = "paid" \/ status \in BeyondPending
    BY <2>1, LocalMoves DEF BeyondPending
  <2>3. /\ status' = s /\ announced' = (announced \/ s = "making")
        /\ paidByHand' = (paidByHand \/ s = "paid")
    BY <1>1 DEF LocalUpdate, OrderWritten
  <2>4. "making" \in BeyondPending /\ "making" # "paid"
    BY DEF BeyondPending
  <2>5. Excused => Excused'
    BY <1>0, <2>3
  <2>6. QED
    BY <2>2, <2>3, <2>4, <2>5 DEF AcceptedEverywhere, PaidIsAccepted
<1>2. ASSUME UNCHANGED <<status, paidByHand>>, announced' => announced
      PROVE  /\ Excused => Excused'
             /\ status' \in BeyondPending => Excused'
             /\ announced' => Excused'
  BY <1>0, <1>2 DEF AcceptedEverywhere, PaidIsAccepted
<1>3. /\ Excused => Excused'
      /\ status' \in BeyondPending => Excused'
      /\ announced' => Excused'
  BY <1>1, <1>2 DEF StaffStep, PosDecide, PosRequest, Patch, PosAdvance,
     RequestLost, Request, vars
<1>4. QED
  BY <1>0, <1>3 DEF AcceptedEverywhere, PaidIsAccepted

\* No step of the kitchen does.
LEMMA KitchenAccepts ==
    ASSUME AcceptedEverywhere, KitchenStep PROVE AcceptedEverywhere'
<1>1. ASSUME NEW t, Activate(t) PROVE AcceptedEverywhere'
  BY <1>1 DEF Activate, Startable, OrderWritten, KitchenOnly, AcceptedEverywhere,
     PaidIsAccepted
<1>2. CASE PrintFromOutbox \/ PrintFromBus \/ AnnouncementLost
  BY <1>2 DEF PrintFromOutbox, PrintFromBus, AnnouncementLost, TicketDue, Ticket,
     KitchenOnly, vars, AcceptedEverywhere, PaidIsAccepted
<1>3. QED
  BY <1>1, <1>2 DEF KitchenStep, StartImmediate, StartDue, StartEarly

\* The invariant holds initially.
LEMMA AcceptedInit == LifecycleInit => AcceptedEverywhere
<1> SUFFICES ASSUME LifecycleInit PROVE AcceptedEverywhere
  OBVIOUS
<1>1. \A l \in Lanes : lane[l].seen = Absent
  BY DEF LifecycleInit, IdleLane
<1>2. Absent \notin BeyondPending
  BY DEF Absent, BeyondPending
<1>3. QED
  BY <1>1, <1>2 DEF LifecycleInit, Init, AcceptedEverywhere, PaidIsAccepted

\* The inductive invariant behind the two theorems below: the fact is there
\* wherever a status beyond pending is stored or remembered by a lane.
LEMMA AcceptedInvariant == LifecycleSpec => []AcceptedEverywhere
<1>1. LifecycleTypeOK /\ AcceptedEverywhere /\ [LifecycleNext]_lifecycleVars
        => AcceptedEverywhere'
  <2>1. AcceptedEverywhere /\ UNCHANGED lifecycleVars => AcceptedEverywhere'
    BY DEF lifecycleVars, houseVars, vars, AcceptedEverywhere, PaidIsAccepted
  <2>2. QED
    BY <2>1, OutboxAccepts, LaneAccepts, StaffAccepts, KitchenAccepts
       DEF LifecycleNext
<1>2. QED
  BY <1>1, AcceptedInit, LifecycleTypeCorrect, PTL DEF LifecycleSpec

\* Unless staff has set it to paid by hand, no order is paid or further
\* without the accepted fact.
THEOREM PaidOrdersAreAccepted == LifecycleSpec => []PaidIsAccepted
<1>1. AcceptedEverywhere => PaidIsAccepted
  BY DEF AcceptedEverywhere
<1>2. QED
  BY <1>1, AcceptedInvariant, PTL

\* With the same exception no kitchen ticket is printed for an order that
\* Uber was not told we accept,
THEOREM TicketsAreAccepted == LifecycleSpec => []TicketIsAccepted
<1>1. AcceptedEverywhere /\ AcceptedIsPerformed => TicketIsAccepted
  BY DEF AcceptedEverywhere, AcceptedIsPerformed, TicketIsAccepted
<1>2. LifecycleSpec => []AcceptedIsPerformed
  BY OutboxImplemented, AcceptanceIsEarned DEF ImplementsOutbox
<1>3. QED
  BY <1>1, <1>2, AcceptedInvariant, PTL

\* and without any exception none is started by the durable path.
THEOREM PreparationsAreAccepted == LifecycleSpec => []PreparationIsAccepted
<1>1. AcceptedEverywhere /\ AcceptedIsPerformed => PreparationIsAccepted
  BY DEF AcceptedEverywhere, AcceptedIsPerformed, PreparationIsAccepted
<1>2. LifecycleSpec => []AcceptedIsPerformed
  BY OutboxImplemented, AcceptanceIsEarned DEF ImplementsOutbox
<1>3. QED
  BY <1>1, <1>2, AcceptedInvariant, PTL
-----------------------------------------------------------------------------
(* Every stored order has been answered.                                    *)

Answered == \E a \in {"ACCEPT", "DENY"} : task[a].status # "ABSENT"

\* A handler that follows up or cancels knows that there is an order; one
\* that will store the order without an intent follows up.
LanesKnowTheOrder ==
    \A l \in Lanes :
        /\ lane[l].followUp \/ lane[l].step = "cancelling" => status # Absent
        /\ lane[l].step = "merging" /\ lane[l].intent = NoAction
             => lane[l].followUp

AnswerInv == ImportIsAnswered /\ LanesKnowTheOrder

\* No step removes a command.
LEMMA AnswerStays ==
    ASSUME TypeOK, [Next]_vars, Answered PROVE Answered'
<1>1. PICK a \in {"ACCEPT", "DENY"} : task[a].status # "ABSENT"
  BY DEF Answered
<1>2. a \in ActionNames
  BY DEF ActionNames
<1>3. CASE task'[a] = task[a]
  BY <1>1, <1>3 DEF Answered
<1>4. CASE task'[a] # task[a]
  <2> SUFFICES ASSUME task'[a].status = "ABSENT" PROVE FALSE
    BY DEF Answered
  <2>0. task \in [ActionNames -> Tasks] /\ task[a] \in Tasks
    BY <1>2 DEF TypeOK
  <2>1. ASSUME NEW b \in ActionNames, task' = Enqueued(b, "initial") PROVE FALSE
    BY <1>1, <1>2, <1>4, <2>0, <2>1 DEF Enqueued
  <2>2. ASSUME NEW b \in Requestable, Request(b) PROVE FALSE
    BY <2>1, <2>2, OutboxAssumption DEF Request
  <2>3. ASSUME NEW s \in Writable, NEW b \in Requestable, OrderImported(s, b)
        PROVE  FALSE
    BY <2>1, <2>3, OutboxAssumption DEF OrderImported
  <2>4. CASE RequestScheduledFinalize
    BY <1>2, <1>4, <2>0, <2>4
       DEF RequestScheduledFinalize, Finalized, NewTask, AbsentTask
  <2>5. ASSUME NEW w \in Workers, NEW b \in ActionNames, NEW t \in Tokens,
               Claim(w, b, t)
        PROVE  FALSE
    <3>1. [task[a] EXCEPT !.status = "PROCESSING", !.token = t,
                          !.expired = FALSE].status = "PROCESSING"
      BY <2>0 DEF Tasks
    <3>2. QED
      BY <1>2, <1>4, <2>0, <2>5, <3>1 DEF Claim
  <2>6. ASSUME NEW w \in Workers, NEW b \in ActionNames, Complete(w, b)
        PROVE  FALSE
    <3>1. [task[a] EXCEPT !.status = "SUCCEEDED", !.token = NoToken,
              !.expired = FALSE, !.retryable = FALSE].status = "SUCCEEDED"
      BY <2>0 DEF Tasks
    <3>2. QED
      BY <1>2, <1>4, <2>0, <2>6, <3>1 DEF Complete
  <2>7. ASSUME NEW w \in Workers, NEW b \in ActionNames, MarkFailed(w, b)
        PROVE  FALSE
    <3>1. [task[a] EXCEPT !.status = "FAILED", !.token = NoToken,
              !.expired = FALSE, !.retryable = worker[w].retryable].status
            = "FAILED"
      BY <2>0 DEF Tasks
    <3>2. a = b /\ task' = [task EXCEPT ![b] = [task[b] EXCEPT
              !.status = "FAILED", !.token = NoToken, !.expired = FALSE,
              !.retryable = worker[w].retryable]]
      BY <1>2, <1>4, <2>0, <2>7 DEF MarkFailed
    <3>3. QED
      BY <1>2, <2>0, <3>1, <3>2
  <2>8. ASSUME NEW b \in ActionNames, LeaseTimeout(b) PROVE FALSE
    <3>1. [task[a] EXCEPT !.expired = TRUE].status = task[a].status
      BY <2>0 DEF Tasks
    <3>2. QED
      BY <1>1, <1>2, <1>4, <2>0, <2>8, <3>1 DEF LeaseTimeout
  <2>9. QED
    BY <1>4, <2>2, <2>3, <2>4, <2>5, <2>6, <2>7, <2>8
       DEF Next, WorkerStep, Settle, OrderWritten, ReadContext, Crash, Refuse,
           Perform, vars
<1>5. QED
  BY <1>3, <1>4

\* The row a handler writes beside the order is an answer.
LEMMA ImportAnswers ==
    ASSUME TypeOK, NEW s, NEW a \in Admissions, OrderImported(s, a)
    PROVE  Answered'
<1>1. a \in {"ACCEPT", "DENY"} /\ a \in ActionNames
  BY LifecycleAssumption DEF ActionNames
<1>2. task \in [ActionNames -> Tasks] /\ task' = Enqueued(a, "initial")
  BY DEF TypeOK, OrderImported
<1>3. NewTask("initial").status # "ABSENT"
  BY DEF NewTask, AbsentTask
<1>4. task'[a].status # "ABSENT"
  BY <1>1, <1>2, <1>3 DEF Enqueued
<1>5. QED
  BY <1>1, <1>4 DEF Answered

\* A command moves an order, it does not make or remove one.
LEMMA CommandsKeepOrders ==
    ASSUME TypeOK, OutboxStep PROVE status' = Absent <=> status = Absent
<1>1. ASSUME NEW w \in Workers, NEW a \in ActionNames, Complete(w, a)
      PROVE  status' = Absent <=> status = Absent
  <2>1. CASE status' = status
    BY <2>1
  <2>2. CASE status' # status
    <3>1. /\ status \in OrderStatuses
          /\ status' = AfterConfirmedAction(status, a)
          /\ AfterConfirmedAction(status, a) # NoStatus
      BY <1>1, <2>2 DEF Complete, Moved, TypeOK
    <3>2. status' \in OrderStatuses
      BY <3>1, Moves
    <3>3. QED
      BY <3>1, <3>2, Names
  <2>3. QED
    BY <2>1, <2>2
<1>2. QED
  BY <1>1, LifecycleAssumption DEF OutboxStep, WorkerStep, Claim, Perform, Settle, MarkFailed,
     ReadContext, Crash, Refuse, LeaseTimeout

\* What a step of a handler makes of the handler and of the order.
LEMMA LaneKnows ==
    ASSUME LifecycleTypeOK, AnswerInv, NEW l \in Lanes, LaneStep(l)
    PROVE  /\ status # Absent => status' # Absent
           /\ status' # Absent => status # Absent \/ Answered'
           /\ LanesKnowTheOrder'
<1>0. /\ lane \in [Lanes -> LaneStates] /\ lane[l] \in LaneStates
      /\ lane[l].intent \in Intents /\ status \in OrderStatuses \cup {Absent}
      /\ TypeOK
  BY DEF LifecycleTypeOK, LaneStates, TypeOK
<1>1. status # Absent => status' # Absent
  BY MergedIsStatus, Names, LifecycleNames
     DEF LaneStep, Notify, NotifyFailure, DenyStandalone, ReadStored, MergeOrder,
         Finalize, CancelOrder, LaneFails, Saved, OrderWritten, OrderImported,
         Request, RequestScheduledFinalize, vars
<1>2. status' # Absent => status # Absent \/ Answered'
  <2>1. CASE status' = status
    BY <2>1
  <2>2. CASE MergeOrder(l)
    <3>1. CASE lane[l].intent = NoAction
      BY <2>2, <3>1 DEF MergeOrder, At, AnswerInv, LanesKnowTheOrder
    <3>2. CASE lane[l].intent # NoAction
      <4>1. lane[l].intent \in Admissions
        BY <1>0, <3>2 DEF Intents
      <4>2. OrderImported(MergedStatus(l), lane[l].intent)
        BY <2>2, <3>2 DEF MergeOrder, Saved
      <4>3. QED
        BY <1>0, <4>1, <4>2, ImportAnswers
    <3>3. QED
      BY <3>1, <3>2
  <2>3. CASE CancelOrder(l)
    BY <2>3 DEF CancelOrder, At, AnswerInv, LanesKnowTheOrder
  <2>4. QED
    BY <2>1, <2>2, <2>3
       DEF LaneStep, Notify, NotifyFailure, DenyStandalone, ReadStored, Finalize,
           LaneFails, Request, RequestScheduledFinalize, vars
<1>3. LanesKnowTheOrder'
  <2>1. ASSUME NEW r, lane' = [lane EXCEPT ![l] = r],
               r.followUp \/ r.step = "cancelling" => status # Absent,
               r.step = "merging" /\ r.intent = NoAction => r.followUp
        PROVE  LanesKnowTheOrder'
    BY <1>0, <1>1, <2>1 DEF AnswerInv, LanesKnowTheOrder
  <2>2. ASSUME NEW scheduled \in BOOLEAN, Notify(l, scheduled)
        PROVE  LanesKnowTheOrder'
    <3> DEFINE r == [IdleLane EXCEPT !.step = "deciding",
                        !.followUp = FollowsUp(scheduled),
                        !.timing = IF scheduled \/ FollowsUp(scheduled)
                                   THEN "SCHEDULED" ELSE "IMMEDIATE"]
    <3>1. r.step = "deciding" /\ r.followUp = FollowsUp(scheduled)
      BY DEF IdleLane
    <3>2. lane' = [lane EXCEPT ![l] = r]
      BY <2>2 DEF Notify, LaneOnly
    <3> HIDE DEF r
    <3>3. FollowsUp(scheduled) => status # Absent
      BY DEF FollowsUp
    <3>4. QED
      BY <2>1, <3>1, <3>2, <3>3
  <2>3. ASSUME NEW i \in Intents, ReadStored(l, i) PROVE LanesKnowTheOrder'
    <3> DEFINE r == [lane[l] EXCEPT !.step = "merging", !.intent = i,
                                    !.seen = status]
    <3>1. r.step = "merging" /\ r.intent = i /\ r.followUp = lane[l].followUp
      BY <1>0 DEF LaneStates
    <3>2. lane' = [lane EXCEPT ![l] = r]
      BY <2>3 DEF ReadStored, LaneOnly
    <3>3. i = NoAction => lane[l].followUp
      BY <2>3 DEF ReadStored
    <3>4. lane[l].followUp => status # Absent
      BY DEF AnswerInv, LanesKnowTheOrder
    <3> HIDE DEF r
    <3>5. QED
      BY <2>1, <3>1, <3>2, <3>3, <3>4
  <2>4. CASE NotifyFailure(l)
    <3> DEFINE r == [IdleLane EXCEPT !.step = "cancelling"]
    <3>1. r.step = "cancelling" /\ status # Absent
      BY <2>4 DEF IdleLane, NotifyFailure
    <3>2. lane' = [lane EXCEPT ![l] = r]
      BY <2>4 DEF NotifyFailure, LaneOnly
    <3> HIDE DEF r
    <3>3. QED
      BY <2>1, <3>1, <3>2
  <2>5. CASE MergeOrder(l)
    <3>1. AfterSave(l).followUp = FALSE /\ AfterSave(l).step \in {"idle", "finalizing"}
      BY DEF AfterSave, IdleLane
    <3>2. lane' = [lane EXCEPT ![l] = AfterSave(l)]
      BY <2>5 DEF MergeOrder
    <3>3. QED
      BY <2>1, <3>1, <3>2
  <2>6. CASE DenyStandalone(l) \/ Finalize(l) \/ CancelOrder(l) \/ LaneFails(l)
    <3>1. IdleLane.followUp = FALSE /\ IdleLane.step = "idle"
      BY DEF IdleLane
    <3>2. lane' = [lane EXCEPT ![l] = IdleLane]
      BY <2>6 DEF DenyStandalone, Finalize, CancelOrder, LaneFails, LaneOnly
    <3>3. QED
      BY <2>1, <3>1, <3>2
  <2>7. QED
    BY <2>2, <2>3, <2>4, <2>5, <2>6 DEF LaneStep
<1>4. QED
  BY <1>1, <1>2, <1>3

\* Staff and kitchen move orders that exist.
LEMMA LocalKeepsOrders ==
    ASSUME LifecycleTypeOK, StaffStep \/ KitchenStep
    PROVE  (status' = Absent <=> status = Absent) /\ UNCHANGED lane
<1>1. ASSUME NEW s, LocalUpdate(s)
      PROVE  (status' = Absent <=> status = Absent) /\ UNCHANGED lane
  <2>1. status \in OrderStatuses /\ s \in OrderStatusTransitions[status]
    BY <1>1 DEF LocalUpdate, LifecycleTypeOK, TypeOK
  <2>2. s \in OrderStatuses
    BY <2>1, LocalMoves
  <2>3. QED
    BY <1>1, <2>1, <2>2, Names DEF LocalUpdate, OrderWritten, StaffOnly
<1>2. CASE StaffStep
  BY <1>1, <1>2 DEF StaffStep, PosDecide, PosRequest, Patch, PosAdvance,
     RequestLost, Request, StaffOnly, vars
<1>3. ASSUME NEW t, Activate(t)
      PROVE  (status' = Absent <=> status = Absent) /\ UNCHANGED lane
  BY <1>3 DEF Activate, Startable, OrderWritten, KitchenOnly, Absent
<1>4. CASE KitchenStep
  BY <1>3, <1>4 DEF KitchenStep, StartImmediate, StartDue, StartEarly,
     PrintFromOutbox, PrintFromBus, AnnouncementLost, Ticket, KitchenOnly, vars
<1>5. QED
  BY <1>2, <1>4

\* A stored order never waits without a command to Uber: the intent is
\* committed with the order, by every handler that makes one.
THEOREM ImportsAreAnswered == LifecycleSpec => []ImportIsAnswered
<1>1. LifecycleInit => AnswerInv
  <2> SUFFICES ASSUME LifecycleInit PROVE AnswerInv
    OBVIOUS
  <2>1. \A l \in Lanes : lane[l].followUp = FALSE /\ lane[l].step = "idle"
    BY DEF LifecycleInit, IdleLane
  <2>2. status = Absent
    BY DEF LifecycleInit, Init
  <2>3. QED
    BY <2>1, <2>2 DEF AnswerInv, ImportIsAnswered, LanesKnowTheOrder
<1>2. LifecycleTypeOK /\ AnswerInv /\ [LifecycleNext]_lifecycleVars => AnswerInv'
  <2> SUFFICES ASSUME LifecycleTypeOK, AnswerInv, [LifecycleNext]_lifecycleVars
               PROVE  AnswerInv'
    OBVIOUS
  <2>0. TypeOK
    BY DEF LifecycleTypeOK
  <2>1. Answered => Answered'
    BY <2>0, AnswerStays, StepIsOutboxStep
  <2>2. ImportIsAnswered <=> (status # Absent => Answered)
    BY DEF ImportIsAnswered, Answered
  <2>3. ImportIsAnswered' <=> (status' # Absent => Answered')
    BY DEF ImportIsAnswered, Answered
  <2>4. ASSUME status' = Absent <=> status = Absent, UNCHANGED lane
        PROVE  AnswerInv'
    BY <2>1, <2>2, <2>3, <2>4 DEF AnswerInv, LanesKnowTheOrder
  <2>5. ASSUME NEW l \in Lanes, LaneStep(l) PROVE AnswerInv'
    BY <2>1, <2>2, <2>3, <2>5, LaneKnows DEF AnswerInv
  <2>6. CASE OutboxStep
    BY <2>0, <2>4, <2>6, CommandsKeepOrders DEF OutboxStep
  <2>7. CASE StaffStep \/ KitchenStep
    BY <2>4, <2>7, LocalKeepsOrders
  <2>8. CASE UNCHANGED lifecycleVars
    BY <2>4, <2>8 DEF lifecycleVars, vars
  <2>9. QED
    BY <2>5, <2>6, <2>7, <2>8 DEF LifecycleNext
<1>3. AnswerInv => ImportIsAnswered
  BY DEF AnswerInv
<1>4. QED
  BY <1>1, <1>2, <1>3, LifecycleTypeCorrect, PTL DEF LifecycleSpec
=============================================================================
