---------------------------- MODULE PosPrintJob ----------------------------
(***************************************************************************)
(* Delivery of one target (customer or kitchen) of one PosPrintJob by the  *)
(* PosGateway: a row, an acknowledgement timer in the memory of the API    *)
(* process, and asynchronous calls that interleave between their awaits.   *)
(* The targets of a job share neither columns nor timer, and jobs share    *)
(* nothing, so one target is the general case.                             *)
(*                                                                         *)
(* A task is one such call, from the event that starts it to its end, with *)
(* the dispatchTarget it may end in; its step names what it does next.  A  *)
(* database write and the code that resumes after it are separate steps.   *)
(***************************************************************************)
EXTENDS Naturals, FiniteSets

CONSTANTS
    Tasks,          \* bound: calls in progress at the same time
    MaxAttempts,    \* maxAttempts, POS_PRINT_MAX_ATTEMPTS
    MaxCalls,       \* bound: sendPrintJob calls for the job
    MaxUnanswered   \* bound: of more sends than this the answers are lost

ASSUME PrintAssumption ==
    /\ IsFiniteSet(Tasks) /\ Tasks # {}
    /\ MaxAttempts \in Nat \ {0}
    /\ MaxCalls \in Nat /\ MaxUnanswered \in Nat \ {0}

Statuses == {"ABSENT", "PENDING", "DELIVERED", "FAILED", "COMPLETED"}

Steps == {"idle", "upserting", "joining", "accepted", "rejected", "expired",
          "entering", "reading", "resetting", "looking", "deferring", "sent",
          "delivered"}

VARIABLES
    row,         \* status, attempts and whether the reason is CLIENT_OFFLINE
    timer,       \* the timers map has an entry
    online,      \* a socket is in the room of the store
    unanswered,  \* PRINT_JOB messages the POS has not answered
    calls,       \* sendPrintJob calls so far
    task,        \* the step of each call in progress
    failed       \* ghost: the process restarted or a call it awaits threw

vars == <<row, timer, online, unanswered, calls, task, failed>>

Init ==
    /\ row = [status |-> "ABSENT", attempts |-> 0, offline |-> FALSE]
    /\ timer = FALSE
    /\ online = FALSE
    /\ unanswered = 0
    /\ calls = 0
    /\ task = [t \in Tasks |-> "idle"]
    /\ failed = FALSE

Goes(t, from, to) == task[t] = from /\ task' = [task EXCEPT ![t] = to]

TaskOnly == UNCHANGED <<row, timer, online, unanswered, calls, failed>>

RowOnly == UNCHANGED <<timer, online, unanswered, calls, failed>>

Settled(status, offline) ==
    row' = [row EXCEPT !.status = status, !.offline = offline]

-----------------------------------------------------------------------------
(* What starts a task.                                                      *)

SendPrintJob(t) ==
    /\ calls < MaxCalls
    /\ Goes(t, "idle", "upserting")
    /\ calls' = calls + 1
    /\ UNCHANGED <<row, timer, online, unanswered, failed>>

\* joinStore, of the first or of a further socket.
Join(t) ==
    /\ Goes(t, "idle", "joining")
    /\ online' = TRUE
    /\ UNCHANGED <<row, timer, unanswered, calls, failed>>

\* The POS answers a PRINT_JOB: the timer is cleared at once.
Ack(t, success) ==
    /\ unanswered > 0
    /\ Goes(t, "idle", IF success THEN "accepted" ELSE "rejected")
    /\ unanswered' = unanswered - 1
    /\ timer' = FALSE
    /\ UNCHANGED <<row, online, calls, failed>>

\* The timer fires.
Timeout(t) ==
    /\ timer
    /\ Goes(t, "idle", "expired")
    /\ timer' = FALSE
    /\ UNCHANGED <<row, online, unanswered, calls, failed>>

-----------------------------------------------------------------------------
(* What it writes before it dispatches.                                     *)

Upsert(t) ==
    /\ Goes(t, "upserting", "entering")
    /\ row' = IF row.status = "ABSENT" THEN [row EXCEPT !.status = "PENDING"]
                                       ELSE row
    /\ RowOnly

\* The filter of dispatchPending.
Undelivered ==
    /\ row.status \in {"PENDING", "FAILED"}
    /\ row.attempts < MaxAttempts \/ row.offline

DispatchPending(t) ==
    /\ \/ Undelivered /\ Goes(t, "joining", "entering")
       \/ ~Undelivered /\ Goes(t, "joining", "idle")
    /\ TaskOnly

\* Mutant: a failed attempt is recorded and not followed up.
RecordAckOnly(t) ==
    /\ \/ Goes(t, "accepted", "idle") /\ Settled("COMPLETED", FALSE)
       \/ Goes(t, "rejected", "idle") /\ Settled("FAILED", FALSE)
    /\ RowOnly

RecordAck(t) ==
    /\ \/ Goes(t, "accepted", "idle") /\ Settled("COMPLETED", FALSE)
       \/ Goes(t, "rejected", "entering") /\ Settled("FAILED", FALSE)
    /\ RowOnly

\* markTimeoutAndRetry, whatever the row has become meanwhile.
RecordTimeout(t) ==
    /\ Goes(t, "expired", "entering")
    /\ Settled("FAILED", FALSE)
    /\ RowOnly

-----------------------------------------------------------------------------
(* dispatchTarget.                                                          *)

\* Somebody waits for an answer already.
Enter(t) ==
    /\ Goes(t, "entering", IF timer THEN "idle" ELSE "reading")
    /\ TaskOnly

\* Mutant: the attempts are not looked at.
AlwaysSends == TRUE

MaySend == row.attempts < MaxAttempts

Read(t) ==
    /\ \/ row.status = "COMPLETED" /\ Goes(t, "reading", "idle")
       \/ row.status # "COMPLETED" /\ MaySend /\ Goes(t, "reading", "looking")
       \/ /\ row.status # "COMPLETED" /\ ~MaySend
          /\ Goes(t, "reading", IF row.offline THEN "resetting" ELSE "idle")
    /\ TaskOnly

\* A job that older versions exhausted while the POS was offline.
ResetAttempts(t) ==
    /\ Goes(t, "resetting", "looking")
    /\ row' = [row EXCEPT !.attempts = 0, !.status = "PENDING"]
    /\ RowOnly

\* fetchSockets, and the PRINT_JOB message if there is one.
Look(t) ==
    \/ /\ online /\ Goes(t, "looking", "sent")
       /\ unanswered' = IF unanswered < MaxUnanswered THEN unanswered + 1
                                                      ELSE unanswered
       /\ UNCHANGED <<row, timer, online, calls, failed>>
    \/ /\ ~online /\ Goes(t, "looking", "deferring")
       /\ TaskOnly

Defer(t) ==
    /\ Goes(t, "deferring", "idle")
    /\ Settled("PENDING", TRUE)
    /\ RowOnly

RecordSend(t) ==
    /\ Goes(t, "sent", "delivered")
    /\ row' = [status |-> "DELIVERED", attempts |-> row.attempts + 1,
               offline |-> FALSE]
    /\ RowOnly

\* Mutant: nobody waits for the answer.
SetNoTimer(t) == Goes(t, "delivered", "idle") /\ TaskOnly

\* The timer is set after the write; one that is set is cleared first.
SetTimer(t) ==
    /\ Goes(t, "delivered", "idle")
    /\ timer' = TRUE
    /\ UNCHANGED <<row, online, unanswered, calls, failed>>

-----------------------------------------------------------------------------
(* The POS and failures.                                                    *)

\* The POS leaves, or loses a message, its ticket or its answer.
Leave ==
    /\ online /\ online' = FALSE
    /\ UNCHANGED <<row, timer, unanswered, calls, task, failed>>

LoseSend ==
    /\ unanswered > 0 /\ unanswered' = unanswered - 1
    /\ UNCHANGED <<row, timer, online, calls, task, failed>>

\* The database or socket call that the task awaits throws.
Throw(t) ==
    /\ task[t] \notin {"idle", "delivered"}
    /\ task' = [task EXCEPT ![t] = "idle"]
    /\ failed' = TRUE
    /\ UNCHANGED <<row, timer, online, unanswered, calls>>

\* The API process restarts; sockets have to join again.
Restart ==
    /\ task' = [t \in Tasks |-> "idle"]
    /\ timer' = FALSE /\ online' = FALSE
    /\ failed' = TRUE
    /\ UNCHANGED <<row, unanswered, calls>>

-----------------------------------------------------------------------------

\* The steps of a call once it started.
Continue(t) ==
    \/ Upsert(t) \/ DispatchPending(t) \/ RecordAck(t) \/ RecordTimeout(t)
    \/ Enter(t) \/ Read(t) \/ ResetAttempts(t) \/ Look(t) \/ Defer(t)
    \/ RecordSend(t) \/ SetTimer(t)

Next ==
    \/ \E t \in Tasks :
          \/ SendPrintJob(t) \/ Join(t) \/ Timeout(t) \/ Continue(t) \/ Throw(t)
          \/ \E success \in BOOLEAN : Ack(t, success)
    \/ Leave \/ LoseSend \/ Restart

Spec == Init /\ [][Next]_vars

(* Fairness.  The event loop resumes every call whose await is over, and    *)
(* runs an expired timer however often the bound on tasks keeps it waiting. *)
(* Nothing is assumed of the POS.                                           *)
Fairness ==
    /\ \A t \in Tasks : WF_vars(Continue(t))
    /\ SF_vars(\E t \in Tasks : Timeout(t))

FairSpec == Spec /\ Fairness

-----------------------------------------------------------------------------
(* Properties.                                                              *)

\* Calls that overlap may pass the check of the attempts together: the limit
\* is exceeded by at most one send for each call but one.
TypeOK ==
    /\ row \in [status: Statuses, offline: BOOLEAN,
                attempts: 0..(MaxAttempts - 1 + Cardinality(Tasks))]
    /\ timer \in BOOLEAN
    /\ online \in BOOLEAN
    /\ unanswered \in 0..MaxUnanswered
    /\ calls \in 0..MaxCalls
    /\ task \in [Tasks -> Steps]
    /\ failed \in BOOLEAN

\* As long as no call throws and the process does not restart, a row that says
\* DELIVERED, which joinStore passes over, has somebody who takes it further:
\* its timer, or a call about to set the timer or to overwrite the status.
DeliveredIsWatched ==
    ~failed /\ row.status = "DELIVERED" =>
        \/ timer
        \/ \E t \in Tasks :
              task[t] \in {"delivered", "accepted", "rejected", "expired"}

Quiet == ~timer /\ \A t \in Tasks : task[t] = "idle"

\* Set aside for the next POS that joins.
Deferred == row.status = "PENDING" /\ row.offline

Unfinished == row.status \notin {"ABSENT", "COMPLETED"} /\ row.attempts < MaxAttempts

\* Without such a failure the gateway gives a ticket up only for one of two
\* reasons: its attempts are used up, or the row says that no POS was there,
\* whatever overlapping calls wrote over each other.  A failed attempt is always
\* being followed up.
NothingIsForgotten == ~failed /\ Quiet /\ Unfinished => Deferred

\* A job that is begun ends: it is printed, its attempts get used up, or it is
\* set aside, unless a failure comes in between.
Settles ==
    row.status # "ABSENT" ~> ~Unfinished \/ Deferred \/ failed
=============================================================================
