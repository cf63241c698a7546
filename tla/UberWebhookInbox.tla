-------------------------- MODULE UberWebhookInbox --------------------------
(***************************************************************************)
(* The durable inbox of Uber webhooks: the HTTP receiver that inserts an   *)
(* event, the poll lanes that claim one row at a time under a lease, run   *)
(* its handler and settle the row, and the administrator who replays       *)
(* quarantined rows.  Every database statement is one atomic action; what  *)
(* a lane does between two statements is kept in lane[l], and a crash of   *)
(* the process may happen between any two of them.                         *)
(*                                                                         *)
(* Time is abstract: LeaseTimeout and BackoffElapsed are the instants at   *)
(* which leaseExpiresAt and nextRetryAt fall behind NOW().                 *)
(***************************************************************************)
EXTENDS Naturals, FiniteSets

CONSTANTS
    Events,         \* event ids Uber may deliver (unique key of the table)
    Lanes,          \* concurrent executions of ProcessUberWebhookInboxUseCase
    Resource,       \* the externalOrderId column of each event
    Unsupported,    \* events whose type the first build does not dispatch
    NoEvent,        \* what an idle lane works on
    MaxAttempts,    \* MAX_ATTEMPTS, 8 in the code
    MaxReplays      \* bound: how often the administrator replays one event

ASSUME InboxAssumption ==
    /\ Unsupported \subseteq Events
    /\ NoEvent \notin Events
    /\ MaxAttempts \in Nat \ {0}
    /\ MaxReplays \in Nat

Statuses == {"ABSENT", "PENDING", "PROCESSING", "FAILED", "PROCESSED", "DEAD"}

\* The structuredError column, reduced to what the code reads back or a
\* reader of a dead row must know.
Codes == {"none", "unsupported", "retryable", "permanent", "exhausted"}

Steps == {"idle", "claimed", "handled", "failing", "counted"}

VARIABLES
    row,        \* the UberWebhookInbox table
    lane,       \* local state of each lane: what it claimed and how far it got
    issued,     \* lease tokens issued so far: a randomUUID() is a fresh number
    arrivals,   \* inserts begun so far, the source of createdAt
    understood, \* events whose type the deployed build dispatches
    handled,    \* ghost: events whose handler completed at least once
    replays,    \* ghost: how often each event was replayed
    overtaken   \* ghost: leases on later events of the resource that were out
                \* when the row became visible

vars == <<row, lane, issued, arrivals, understood, handled, replays,
          overtaken>>

NoToken == 0

AbsentRow == [status |-> "ABSENT", attempts |-> 0, token |-> NoToken,
              expired |-> FALSE, due |-> FALSE, code |-> "none",
              createdAt |-> 0]

IdleLane == [step |-> "idle", event |-> NoEvent, token |-> NoToken,
             retryable |-> FALSE, attempts |-> 0]

Rows == [status: Statuses, attempts: 0..MaxAttempts, token: Nat,
         expired: BOOLEAN, due: BOOLEAN, code: Codes, createdAt: Nat]

LaneStates == [step: Steps, event: Events \cup {NoEvent}, token: Nat,
               retryable: BOOLEAN, attempts: 0..MaxAttempts]

-----------------------------------------------------------------------------
(* Which rows the claim statement sees as what.                             *)

Settled(e) == row[e].status \in {"PROCESSED", "DEAD"}

\* A row that is in the queue: inserted and not settled.
Open(e) == row[e].status \in {"PENDING", "FAILED", "PROCESSING"}

LeaseOver(e) == row[e].status = "PROCESSING" /\ row[e].expired

\* Mutant: the last attempt is not made.
ExhaustedTooSoon(e) ==
    /\ row[e].attempts + 1 >= MaxAttempts
    /\ row[e].status \in {"PENDING", "FAILED"} \/ LeaseOver(e)

\* Mutant: a row whose last holder died is never swept.
ExhaustedWaiting(e) ==
    /\ row[e].attempts >= MaxAttempts
    /\ row[e].status \in {"PENDING", "FAILED"}

\* The common table expression "exhausted" of claimDue.
Exhausted(e) ==
    /\ row[e].attempts >= MaxAttempts
    /\ row[e].status \in {"PENDING", "FAILED"} \/ LeaseOver(e)

Earlier(d, e) ==
    /\ row[d].status # "ABSENT"
    /\ Resource[d] = Resource[e]
    /\ row[d].createdAt < row[e].createdAt

\* Mutant: an event in the hands of a lane does not hold back later ones.
BlockedByWaiting(e) ==
    \E d \in Events : Earlier(d, e) /\ row[d].status \in {"PENDING", "FAILED"}

\* An earlier event of the same resource that still has to be settled.
Blocked(e) == \E d \in Events : Earlier(d, e) /\ Open(d) /\ ~Exhausted(d)

Claimable(e) ==
    /\ \/ row[e].status \in {"PENDING", "FAILED"} /\ row[e].due
       \/ LeaseOver(e)
    /\ row[e].attempts < MaxAttempts
    /\ ~Blocked(e)

\* The event a busy lane works on.
Works(l, e) == lane[l].event = e

\* Mutant: the settling statements select by event id only.
Unfenced(l, e) == row[e].status # "ABSENT"

\* The WHERE clause of every settling statement: still PROCESSING, under the
\* token this lane was given.
Fenced(l, e) == row[e].status = "PROCESSING" /\ row[e].token = lane[l].token

-----------------------------------------------------------------------------

Init ==
    /\ row = [e \in Events |-> AbsentRow]
    /\ lane = [l \in Lanes |-> IdleLane]
    /\ issued = 0
    /\ arrivals = 0
    /\ understood = Events \ Unsupported
    /\ handled = {}
    /\ replays = [e \in Events |-> 0]
    /\ overtaken = [e \in Events |-> {}]

\* The receiver's insert begins: the row, which nobody sees yet, is given its
\* createdAt.  An insert that is rolled back leaves nothing, and is not shown.
Receive(e) ==
    /\ row[e] = AbsentRow
    /\ arrivals' = arrivals + 1
    /\ row' = [row EXCEPT ![e].createdAt = arrivals + 1]
    /\ UNCHANGED <<lane, issued, understood, handled, replays, overtaken>>

\* The insert is committed, maybe after one that began later; a second
\* delivery meets the unique event id (P2002) and changes nothing.
Enqueue(e) ==
    /\ row[e].status = "ABSENT" /\ row[e] # AbsentRow
    /\ row' = [row EXCEPT ![e].status = "PENDING", ![e].due = TRUE]
    /\ overtaken' = [overtaken EXCEPT ![e] =
           {row[d].token : d \in {f \in Events :
                                    /\ Resource[f] = Resource[e]
                                    /\ row[f].createdAt > row[e].createdAt
                                    /\ row[f].status = "PROCESSING"}}]
    /\ UNCHANGED <<lane, issued, arrivals, understood, handled, replays>>

DeadLetter(r, code) ==
    [r EXCEPT !.status = "DEAD", !.token = NoToken, !.expired = FALSE,
              !.due = FALSE, !.code = code]

\* Every exhausted row becomes DEAD in the statement that claims.
Sweep == [e \in Events |-> IF Exhausted(e) THEN DeadLetter(row[e], "exhausted")
                                           ELSE row[e]]

\* claimDue(1).  SKIP LOCKED may pass over candidates another session has
\* locked, so any candidate may be the first one this statement can lock.
Claim(l, e) ==
    /\ lane[l].step = "idle"
    /\ Claimable(e)
    /\ issued' = issued + 1
    /\ row' = [Sweep EXCEPT ![e] = [row[e] EXCEPT
                  !.status = "PROCESSING", !.token = issued + 1,
                  !.expired = FALSE, !.attempts = row[e].attempts + 1]]
    /\ lane' = [lane EXCEPT ![l] = [IdleLane EXCEPT
                  !.step = "claimed", !.event = e, !.token = issued + 1]]
    /\ UNCHANGED <<arrivals, understood, handled, replays, overtaken>>

\* claimDue that finds no candidate still buries the exhausted rows.
ClaimNothing(l) ==
    /\ lane[l].step = "idle"
    /\ \A e \in Events : ~Claimable(e)
    /\ row' = Sweep
    /\ UNCHANGED <<lane, issued, arrivals, understood, handled, replays, overtaken>>

\* The handler of an understood event returns: its effects are committed.
Handle(l, e) ==
    /\ Works(l, e) /\ lane[l].step = "claimed"
    /\ e \in understood
    /\ lane' = [lane EXCEPT ![l].step = "handled"]
    /\ handled' = handled \cup {e}
    /\ UNCHANGED <<row, issued, arrivals, understood, replays, overtaken>>

\* The dispatch finds the payload invalid, the handler throws, or a database
\* call of the settlement throws: the catch block of route is entered.
Fail(l, e, retryable) ==
    /\ Works(l, e)
    /\ lane[l].step = "claimed" \/ (lane[l].step = "handled" /\ retryable)
    /\ lane' = [lane EXCEPT ![l].step = "failing", ![l].retryable = retryable]
    /\ UNCHANGED <<row, issued, arrivals, understood, handled, replays, overtaken>>

\* markSucceeded; when the lease is lost the poll ends with an error.
MarkSucceeded(l, e) ==
    /\ Works(l, e) /\ lane[l].step = "handled"
    /\ row' = IF Fenced(l, e)
              THEN [row EXCEPT ![e] = [row[e] EXCEPT !.status = "PROCESSED",
                       !.token = NoToken, !.expired = FALSE,
                       !.due = FALSE, !.code = "none"]]
              ELSE row
    /\ lane' = [lane EXCEPT ![l] = IdleLane]
    /\ UNCHANGED <<issued, arrivals, understood, handled, replays, overtaken>>

\* markUnsupported.  The telemetry written after the commit may throw, which
\* leads to the catch block with the row already dead.
MarkUnsupported(l, e) ==
    /\ Works(l, e) /\ lane[l].step = "claimed"
    /\ e \notin understood
    /\ row' = IF Fenced(l, e)
              THEN [row EXCEPT ![e] = DeadLetter(row[e], "unsupported")]
              ELSE row
    /\ \/ lane' = [lane EXCEPT ![l] = IdleLane]
       \/ /\ Fenced(l, e)
          /\ lane' = [lane EXCEPT ![l].step = "failing", ![l].retryable = TRUE]
    /\ UNCHANGED <<issued, arrivals, understood, handled, replays, overtaken>>

\* markFailed, first statement: attemptCount is read without the lease.
CountAttempts(l, e) ==
    /\ Works(l, e) /\ lane[l].step = "failing"
    /\ lane' = [lane EXCEPT ![l].step = "counted",
                            ![l].attempts = row[e].attempts]
    /\ UNCHANGED <<row, issued, arrivals, understood, handled, replays, overtaken>>

\* markFailed, second statement, fenced.
Dead(l) == ~lane[l].retryable \/ lane[l].attempts >= MaxAttempts

MarkFailed(l, e) ==
    /\ Works(l, e) /\ lane[l].step = "counted"
    /\ \/ /\ ~Fenced(l, e)
          /\ UNCHANGED row
       \/ /\ Fenced(l, e) /\ Dead(l)
          /\ row' = [row EXCEPT ![e] = DeadLetter(row[e],
                       IF lane[l].retryable THEN "retryable" ELSE "permanent")]
       \/ /\ Fenced(l, e) /\ ~Dead(l)
          /\ row' = [row EXCEPT ![e] = [row[e] EXCEPT !.status = "FAILED",
                       !.token = NoToken, !.expired = FALSE,
                       !.due = FALSE, !.code = "retryable"]]
    /\ lane' = [lane EXCEPT ![l] = IdleLane]
    /\ UNCHANGED <<issued, arrivals, understood, handled, replays, overtaken>>

LeaseTimeout(e) ==
    /\ row[e].status = "PROCESSING" /\ ~row[e].expired
    /\ row' = [row EXCEPT ![e].expired = TRUE]
    /\ UNCHANGED <<lane, issued, arrivals, understood, handled, replays, overtaken>>

BackoffElapsed(e) ==
    /\ row[e].status = "FAILED" /\ ~row[e].due
    /\ row' = [row EXCEPT ![e].due = TRUE]
    /\ UNCHANGED <<lane, issued, arrivals, understood, handled, replays, overtaken>>

\* The process of this lane dies, or hits its shutdown timeout: what it had
\* claimed is known to the table only.
Crash(l) ==
    /\ lane[l].step # "idle"
    /\ lane' = [lane EXCEPT ![l] = IdleLane]
    /\ UNCHANGED <<row, issued, arrivals, understood, handled, replays, overtaken>>

\* A build that dispatches the quarantined types is deployed: every process
\* restarts.
Deploy ==
    /\ understood # Events
    /\ understood' = Events
    /\ lane' = [l \in Lanes |-> IdleLane]
    /\ UNCHANGED <<row, issued, arrivals, handled, replays, overtaken>>

\* The rows requeueUnsupported selects among the administrator's event ids.
Requeued(selected) ==
    {e \in selected : /\ e \in understood
                      /\ row[e].status = "DEAD"
                      /\ row[e].code = "unsupported"}

Replay(selected) ==
    /\ Requeued(selected) # {}
    /\ \A e \in Requeued(selected) : replays[e] < MaxReplays
    /\ row' = [e \in Events |->
                 IF e \in Requeued(selected)
                 THEN [row[e] EXCEPT !.status = "PENDING", !.attempts = 0,
                          !.token = NoToken, !.expired = FALSE,
                          !.due = TRUE, !.code = "none"]
                 ELSE row[e]]
    /\ replays' = [e \in Events |->
                     IF e \in Requeued(selected) THEN replays[e] + 1
                                                 ELSE replays[e]]
    /\ UNCHANGED <<lane, issued, arrivals, understood, handled, overtaken>>

LaneStep(l, e) ==
    \/ Handle(l, e)
    \/ \E retryable \in BOOLEAN : Fail(l, e, retryable)
    \/ MarkSucceeded(l, e)
    \/ MarkUnsupported(l, e)
    \/ CountAttempts(l, e)
    \/ MarkFailed(l, e)

Next ==
    \/ \E e \in Events :
          Receive(e) \/ Enqueue(e) \/ LeaseTimeout(e) \/ BackoffElapsed(e)
    \/ \E l \in Lanes, e \in Events : Claim(l, e) \/ LaneStep(l, e)
    \/ \E l \in Lanes : ClaimNothing(l) \/ Crash(l)
    \/ Deploy
    \/ \E selected \in SUBSET Events : Replay(selected)

Spec == Init /\ [][Next]_vars

(* Fairness.  The clock advances; the poll timer of every lane fires again  *)
(* and again, so a lane that is idle polls; a handler returns or throws     *)
(* (or its process dies, which also leaves the row to its lease).  Nothing  *)
(* is assumed of deliveries, deployments and replays.                       *)
Poll(l) == ClaimNothing(l) \/ \E e \in Events : Claim(l, e)

Fairness ==
    /\ \A e \in Events : WF_vars(LeaseTimeout(e)) /\ WF_vars(BackoffElapsed(e))
    /\ \A l \in Lanes : /\ WF_vars(Poll(l))
                        /\ WF_vars(\E e \in Events : LaneStep(l, e))

FairSpec == Spec /\ Fairness

-----------------------------------------------------------------------------
(* Properties.                                                              *)

\* The attempts of a row never exceed the limit, and a row has the columns
\* that some path of the code writes together.
TypeOK ==
    /\ row \in [Events -> Rows]
    /\ lane \in [Lanes -> LaneStates]
    /\ issued \in Nat
    /\ arrivals \in Nat
    /\ understood \in SUBSET Events
    /\ handled \in SUBSET Events
    /\ replays \in [Events -> 0..MaxReplays]
    /\ overtaken \in [Events -> SUBSET Nat]

\* Lane l works on e under the lease the table records.
Holds(l, e) == Works(l, e) /\ Fenced(l, e)

\* However often leases time out and rows are claimed again, at most one lane
\* can settle a row: all others are fenced off by their token.
OneHolder ==
    \A l, m \in Lanes, e \in Events : Holds(l, e) /\ Holds(m, e) => l = m

\* The lane that may settle an event works behind settled events only: an
\* event of the same resource that was created earlier is processed or dead,
\* unless the administrator reopened it in the meantime, or its insert was
\* committed only after the lane had been given its lease.
InOrder ==
    \A l \in Lanes, d, e \in Events :
        Holds(l, e) /\ Earlier(d, e) =>
            Settled(d) \/ replays[d] > 0 \/ lane[l].token \in overtaken[d]

\* Retryable failures, crashes and timeouts never bury an event before all
\* its attempts are used, although markFailed decides on an attempt count it
\* read without holding the lease.
NoEarlyDrop ==
    \A e \in Events :
        row[e].status = "DEAD" /\ row[e].code \in {"retryable", "exhausted"}
            => row[e].attempts = MaxAttempts

\* A lease that has not timed out is ended by a step of its holder only: no
\* other lane, no claim, no sweep and no replay takes the row away from it.
LeaseStep ==
    \A e \in Events :
        /\ row[e].status = "PROCESSING" /\ ~row[e].expired
        /\ row'[e].status # "PROCESSING" \/ row'[e].token # row[e].token
        => \E l \in Lanes : Holds(l, e) /\ lane'[l] # lane[l]

LeaseRespected == [][LeaseStep]_vars

(* The inductive strengthenings the proofs use.                             *)

\* Tokens are issued once: no two busy lanes share one, and none is from the
\* future.
Leases ==
    /\ \A l \in Lanes : lane[l].event \in Events =>
                          lane[l].token \in Nat /\ lane[l].token <= issued
    /\ \A l, m \in Lanes :
          /\ lane[l].event \in Events /\ lane[m].event \in Events
          /\ lane[l].token = lane[m].token
          => l = m

\* No row was created after the last insert began.
Created == \A e \in Events : row[e].createdAt <= arrivals

\* A count that was read stays true for as long as the lease is held.
Counted ==
    \A l \in Lanes, e \in Events :
        Holds(l, e) /\ lane[l].step = "counted"
            => lane[l].attempts = row[e].attempts

\* Lanes work on inserted events, and have handled what they call handled.
Worked ==
    \A l \in Lanes :
        /\ lane[l].event \in Events => row[lane[l].event].status # "ABSENT"
        /\ lane[l].step = "handled" => lane[l].event \in handled

\* What the inbox promises, see WebhookDelivery: the state of an event there
\* is read off the status and error columns of its row.
PromiseOf(r) ==
    CASE r.status = "ABSENT" -> "unknown"
      [] r.status \in {"PENDING", "FAILED", "PROCESSING"} -> "owed"
      [] r.status = "PROCESSED" -> "done"
      [] r.status = "DEAD" /\ r.code = "unsupported" -> "quarantined"
      [] OTHER -> "abandoned"

promise == [e \in Events |-> PromiseOf(row[e])]

Delivery == INSTANCE WebhookDelivery WITH promise <- promise, handled <- handled

\* The inbox implements at-least-once delivery.
ImplementsDelivery == Delivery!Spec

\* Every accepted event is eventually settled, whatever handlers throw and
\* however often processes die: polls and clocks go on, attempts are finite.
EventuallySettled == \A e \in Events : Open(e) ~> Settled(e)
=============================================================================
