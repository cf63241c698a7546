-------------------------- MODULE UberOrderAction --------------------------
(***************************************************************************)
(* The outbox of Uber order commands (table UberOrderAction), for one      *)
(* external order: a row per command, workers that claim a row under a     *)
(* lease, read the order, call Uber and settle row, order and the durable  *)
(* order.accepted fact in one transaction.  Orders share no row, so one    *)
(* order is the general case; a worker here is one task of a claimed       *)
(* batch, whose tasks run concurrently.                                    *)
(*                                                                         *)
(* What other parts of the system do to the order is left open:            *)
(* OrderWritten gives it any status, Request asks for any command.         *)
(* UberOrderLifecycle puts the real writers in their place.                *)
(*                                                                         *)
(* The one second before a retryable row is claimable again and the 30     *)
(* seconds of a lease are not measured: a retry may follow at any time,    *)
(* LeaseTimeout is the instant at which leaseExpiresAt passes.             *)
(***************************************************************************)
EXTENDS UberOrderStateMachine, FiniteSets

CONSTANTS
    Requestable,  \* bound: the commands that are requested
    Writable,     \* bound: the statuses other components write
    Workers,      \* tasks executing at the same time
    Tokens,       \* lease tokens; one that nobody holds stands for a fresh UUID
    NoToken       \* leaseToken IS NULL

ASSUME OutboxAssumption ==
    /\ Requestable \subseteq ActionNames
    /\ Writable \subseteq OrderStatuses
    /\ NoToken \notin Tokens

TaskStatuses == {"ABSENT", "PENDING", "PROCESSING", "SUCCEEDED", "FAILED"}

\* The phase is what tells the idempotency keys of one command apart.
Phases == {"initial", "scheduled-finalize"}

Steps == {"idle", "claimed", "sending", "answered", "refused"}

VARIABLES
    status,     \* status of the order, or Absent
    accepted,   \* the order.accepted fact is in the lifecycle outbox
    task,       \* the rows of this order, by command
    worker,     \* local state of each worker
    performed   \* ghost: the commands, by idempotency key, Uber carried out

vars == <<status, accepted, task, worker, performed>>

AbsentTask == [status |-> "ABSENT", phase |-> "initial", token |-> NoToken,
               expired |-> FALSE, retryable |-> FALSE]

NewTask(phase) == [AbsentTask EXCEPT !.status = "PENDING", !.phase = phase,
                                     !.retryable = TRUE]

IdleWorker == [step |-> "idle", action |-> "ACCEPT", phase |-> "initial",
               token |-> NoToken, seen |-> Absent, retryable |-> FALSE]

Tasks == [status: TaskStatuses, phase: Phases, token: Tokens \cup {NoToken},
          expired: BOOLEAN, retryable: BOOLEAN]

WorkerStates == [step: Steps, action: ActionNames, phase: Phases,
                 token: Tokens \cup {NoToken},
                 seen: OrderStatuses \cup {Absent}, retryable: BOOLEAN]

-----------------------------------------------------------------------------

Claimable(a) ==
    \/ task[a].status = "PENDING"
    \/ task[a].status = "FAILED" /\ task[a].retryable
    \/ task[a].status = "PROCESSING" /\ task[a].expired

Fresh(t) == \A w \in Workers : worker[w].token # t

\* Mutant: they ask for the status, not for the token.
FencedByStatus(w, a) == task[a].status = "PROCESSING"

\* WHERE status = 'PROCESSING' AND "leaseToken" = ...
Fenced(w, a) == task[a].status = "PROCESSING" /\ task[a].token = worker[w].token

Works(w, a) == worker[w].step # "idle" /\ worker[w].action = a

\* createMany with skipDuplicates, or create and P2002: the unique pair
\* (externalOrderId, action) keeps the first row.
Enqueued(a, phase) ==
    IF task[a].status = "ABSENT" THEN [task EXCEPT ![a] = NewTask(phase)] ELSE task

\* requeue refuses a row in flight and finds a row of the new phase done.
PhaseOpen ==
    /\ task["ACCEPT"].status \in {"ABSENT", "SUCCEEDED", "FAILED"}
    /\ task["ACCEPT"].status # "ABSENT" => task["ACCEPT"].phase = "initial"

Finalized ==
    IF PhaseOpen THEN [task EXCEPT !["ACCEPT"] = NewTask("scheduled-finalize")]
                 ELSE task

\* The conditional update of the order: the move computed from the status
\* read before the call, made only if the order still has that status.
Moved(w, a) ==
    IF /\ worker[w].seen # Absent
       /\ status = worker[w].seen
       /\ AfterConfirmedAction(status, a) # NoStatus
    THEN AfterConfirmedAction(status, a) ELSE status

\* A move was asked for and the order is where it should lead.
ReachedTarget(w, a) ==
    /\ worker[w].seen # Absent
    /\ AfterConfirmedAction(worker[w].seen, a) # NoStatus
    /\ Moved(w, a) = AfterConfirmedAction(worker[w].seen, a)

-----------------------------------------------------------------------------

Init ==
    /\ status = Absent
    /\ accepted = FALSE
    /\ task = [a \in ActionNames |-> AbsentTask]
    /\ worker = [w \in Workers |-> IdleWorker]
    /\ performed = {}

Request(a) ==
    /\ task' = Enqueued(a, "initial")
    /\ UNCHANGED <<status, accepted, worker, performed>>

RequestScheduledFinalize ==
    /\ task' = Finalized
    /\ UNCHANGED <<status, accepted, worker, performed>>

\* Other components write the order: a status alone, or, in the import
\* transaction, a status together with the intent it decided on.
OrderWritten(s) ==
    /\ status' = s
    /\ UNCHANGED <<accepted, task, worker, performed>>

OrderImported(s, a) ==
    /\ status' = s
    /\ task' = Enqueued(a, "initial")
    /\ UNCHANGED <<accepted, worker, performed>>

Claim(w, a, t) ==
    /\ worker[w].step = "idle"
    /\ Claimable(a)
    /\ Fresh(t)
    /\ task' = [task EXCEPT ![a] = [task[a] EXCEPT !.status = "PROCESSING",
                                       !.token = t, !.expired = FALSE]]
    /\ worker' = [worker EXCEPT ![w] = [IdleWorker EXCEPT !.step = "claimed",
                     !.action = a, !.phase = task[a].phase, !.token = t]]
    /\ UNCHANGED <<status, accepted, performed>>

\* getOrderContext, outside any transaction.
ReadContext(w) ==
    /\ worker[w].step = "claimed"
    /\ worker' = [worker EXCEPT ![w].step = "sending", ![w].seen = status]
    /\ UNCHANGED <<status, accepted, task, performed>>

\* Mutant: the failure of the call is swallowed.
Swallowed(w, retryable) == [worker[w] EXCEPT !.step = "answered"]

\* What the failure handler still uses of the worker's state.
Refused(w, retryable) ==
    [worker[w] EXCEPT !.step = "refused", !.seen = Absent, !.retryable = retryable]

\* Uber carries the command out.  The answer arrives, or is lost (a timeout,
\* a status of 500 and more): the worker then sees a retryable failure.
Perform(w, a) ==
    /\ Works(w, a) /\ worker[w].step = "sending"
    /\ performed' = performed \cup {<<a, worker[w].phase>>}
    /\ \/ worker' = [worker EXCEPT ![w].step = "answered"]
       \/ worker' = [worker EXCEPT ![w] = Refused(w, TRUE)]
    /\ UNCHANGED <<status, accepted, task>>

\* Uber, or the way to it, refuses the command.
Refuse(w, retryable) ==
    /\ worker[w].step = "sending"
    /\ worker' = [worker EXCEPT ![w] = Refused(w, retryable)]
    /\ UNCHANGED <<status, accepted, task, performed>>

\* complete: the row, the order and the fact in one transaction.
Complete(w, a) ==
    /\ Works(w, a) /\ worker[w].step = "answered"
    /\ \/ /\ Fenced(w, a)
          /\ task' = [task EXCEPT ![a] = [task[a] EXCEPT !.status = "SUCCEEDED",
                         !.token = NoToken, !.expired = FALSE, !.retryable = FALSE]]
          /\ status' = Moved(w, a)
          /\ accepted' = (accepted \/ (a = "ACCEPT" /\ ReachedTarget(w, a)))
       \/ /\ ~Fenced(w, a)
          /\ UNCHANGED <<task, status, accepted>>
    /\ worker' = [worker EXCEPT ![w] = IdleWorker]
    /\ UNCHANGED performed

MarkFailed(w, a) ==
    /\ Works(w, a) /\ worker[w].step = "refused"
    /\ task' = IF Fenced(w, a)
               THEN [task EXCEPT ![a] = [task[a] EXCEPT !.status = "FAILED",
                        !.token = NoToken, !.expired = FALSE,
                        !.retryable = worker[w].retryable]]
               ELSE task
    /\ worker' = [worker EXCEPT ![w] = IdleWorker]
    /\ UNCHANGED <<status, accepted, performed>>

LeaseTimeout(a) ==
    /\ task[a].status = "PROCESSING" /\ ~task[a].expired
    /\ task' = [task EXCEPT ![a] = [task[a] EXCEPT !.expired = TRUE]]
    /\ UNCHANGED <<status, accepted, worker, performed>>

\* The process dies, or a database call of the task throws: the claim is
\* left to expire.
Crash(w) ==
    /\ worker[w].step # "idle"
    /\ worker' = [worker EXCEPT ![w] = IdleWorker]
    /\ UNCHANGED <<status, accepted, task, performed>>

Settle(w, a) == Complete(w, a) \/ MarkFailed(w, a)

WorkerStep(w, a) ==
    \/ \E t \in Tokens : Claim(w, a, t)
    \/ Perform(w, a)
    \/ Settle(w, a)

Next ==
    \/ \E a \in Requestable : Request(a)
    \/ RequestScheduledFinalize
    \/ \E s \in Writable : OrderWritten(s)
    \/ \E s \in Writable, a \in Requestable : OrderImported(s, a)
    \/ \E w \in Workers, a \in ActionNames : WorkerStep(w, a)
    \/ \E w \in Workers : ReadContext(w) \/ Crash(w)
    \/ \E w \in Workers, retryable \in BOOLEAN : Refuse(w, retryable)
    \/ \E a \in ActionNames : LeaseTimeout(a)

Spec == Init /\ [][Next]_vars

-----------------------------------------------------------------------------
(* Properties.                                                              *)

\* Commands move the order to statuses of the machine only.
TypeOK ==
    /\ status \in OrderStatuses \cup {Absent}
    /\ accepted \in BOOLEAN
    /\ task \in [ActionNames -> Tasks]
    /\ worker \in [Workers -> WorkerStates]
    /\ performed \in SUBSET (ActionNames \X Phases)

Holds(w, a) == Works(w, a) /\ Fenced(w, a)

\* At most one worker can settle a row: of all workers that ever claimed a
\* command, however late they come back, one at most still passes the fence.
OneSettler ==
    \A v, w \in Workers, a \in ActionNames : Holds(v, a) /\ Holds(w, a) => v = w

\* A row says SUCCEEDED only for the idempotency key Uber confirmed: the
\* worker of the first ACCEPT, however late, never settles the ACCEPT of the
\* scheduled order's final phase.
SucceededIsPerformed ==
    \A a \in ActionNames :
        task[a].status = "SUCCEEDED" => <<a, task[a].phase>> \in performed

\* The order.accepted fact, which lets the kitchen start, exists only after
\* Uber carried out an ACCEPT.
AcceptedIsPerformed ==
    accepted => \E phase \in Phases : <<"ACCEPT", phase>> \in performed

\* A command that succeeded is not sent again under its idempotency key: the
\* row leaves SUCCEEDED for a new phase only.
SuccessKept(a) ==
    task[a].status = "SUCCEEDED" =>
        task'[a].status = "SUCCEEDED" \/ task'[a].phase # task[a].phase

SuccessIsFinal == [][\A a \in ActionNames : SuccessKept(a)]_vars

\* Completing a command moves the order as the state machine says of the
\* status the order has at that instant, or not at all, although the move
\* was computed from a status read before the call to Uber.
MoveOf(a) ==
    task[a].status # "SUCCEEDED" /\ task'[a].status = "SUCCEEDED" =>
        status' \in {status, AfterConfirmedAction(status, a)}

MovesAreConfirmed == [][\A a \in ActionNames : MoveOf(a)]_vars
=============================================================================
