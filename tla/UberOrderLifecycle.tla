------------------------- MODULE UberOrderLifecycle -------------------------
(***************************************************************************)
(* One Uber order from webhook to kitchen ticket: the webhook handlers     *)
(* that import and cancel it, the command outbox of UberOrderAction, the   *)
(* staff at the POS, the activation of preparation, and the lifecycle      *)
(* outbox that creates the AUTO print job.  They run in two processes (API *)
(* and worker) and meet in the order row only.                             *)
(*                                                                         *)
(* Which webhooks Uber sends, and how often a handler is run again for one *)
(* of them, is left open; so is the time at which a scheduled order is     *)
(* due.  The order has no items or amounts here.                           *)
(***************************************************************************)
EXTENDS UberOrderAction

CONSTANTS
    Lanes,      \* webhook handlers that run at the same time
    Admissions, \* bound: the decisions the admission of an order comes to
    Sent,       \* bound: the commands workers take up
    NoAction    \* no command, no intent

ASSUME LifecycleAssumption ==
    /\ Sent \subseteq ActionNames
    /\ NoAction \notin ActionNames
    /\ Admissions \subseteq {"ACCEPT", "DENY"} \cap Requestable
    /\ Writable = OrderStatuses

VARIABLES
    timing,       \* fulfillmentTiming of the order
    activated,    \* scheduleActivatedAt IS NOT NULL
    prepStarted,  \* the order.prep_started fact is in the lifecycle outbox
    announced,    \* the in-memory order.accepted event, not yet handled
    printJob,     \* the AUTO PosPrintJob exists
    paidByHand,   \* history: staff has set the order to paid
    terminal,     \* the command a POS request has checked but not yet queued
    lane          \* local state of each webhook handler

houseVars == <<activated, prepStarted, announced, printJob, paidByHand>>
lifecycleVars == <<vars, timing, houseVars, terminal, lane>>

Timings == {"IMMEDIATE", "SCHEDULED"}

LaneSteps == {"idle", "deciding", "merging", "finalizing", "cancelling"}

\* What an import queues beside the order: the admission decision or nothing.
Intents == Admissions \cup {NoAction}

IdleLane == [step |-> "idle", timing |-> "IMMEDIATE", followUp |-> FALSE,
             intent |-> NoAction, seen |-> Absent]

LaneStates == [step: LaneSteps, timing: Timings, followUp: BOOLEAN,
               intent: Intents,
               seen: OrderStatuses \cup {Absent}]

LifecycleInit ==
    /\ Init
    /\ timing = "IMMEDIATE"
    /\ activated = FALSE
    /\ prepStarted = FALSE
    /\ announced = FALSE
    /\ printJob = FALSE
    /\ paidByHand = FALSE
    /\ terminal = NoAction
    /\ lane = [l \in Lanes |-> IdleLane]

-----------------------------------------------------------------------------
(* Webhook handlers: ImportUberOrderUseCase.execute.                        *)

At(l, step) == lane[l].step = step

LaneOnly(l, state) ==
    /\ lane' = [lane EXCEPT ![l] = state]
    /\ UNCHANGED <<timing, houseVars, terminal>>

\* orders.notification for an order that is known as scheduled.
FollowsUp(scheduled) ==
    ~scheduled /\ status # Absent /\ timing = "SCHEDULED"

\* orders.notification or orders.scheduled.notification: the handler looks
\* the order up, then fetches the detail as that kind of order.
Notify(l, scheduled) ==
    /\ At(l, "idle")
    /\ LaneOnly(l, [IdleLane EXCEPT !.step = "deciding",
          !.followUp = FollowsUp(scheduled),
          !.timing = IF scheduled \/ FollowsUp(scheduled)
                     THEN "SCHEDULED" ELSE "IMMEDIATE"])
    /\ UNCHANGED vars

\* orders.failure.  Before the import it only throws, to be retried.
NotifyFailure(l) ==
    /\ At(l, "idle") /\ status # Absent
    /\ LaneOnly(l, [IdleLane EXCEPT !.step = "cancelling"])
    /\ UNCHANGED vars

\* The detail is invalid, or nothing can be stored, or a follow-up is not
\* admitted: a DENY of its own, and nothing else.
DenyStandalone(l) ==
    /\ At(l, "deciding") /\ "DENY" \in Admissions
    /\ Request("DENY")
    /\ LaneOnly(l, IdleLane)

\* The order will be stored, with the intent the admission came to.  First
\* statement of OrderIngestionService.ingest: a plain SELECT of the order.
ReadStored(l, intent) ==
    /\ At(l, "deciding")
    /\ lane[l].followUp => intent = NoAction
    /\ ~lane[l].followUp => intent # NoAction
    /\ LaneOnly(l, [lane[l] EXCEPT !.step = "merging", !.intent = intent,
                                   !.seen = status])
    /\ UNCHANGED vars

\* Every dispatched event stands for "pending": eventStatus, toPrismaStatus.
MergedStatus(l) == EffectiveStatus("pending", lane[l].seen)

AfterSave(l) ==
    IF lane[l].followUp THEN [IdleLane EXCEPT !.step = "finalizing"] ELSE IdleLane

\* Mutant: only a newly created order gets the intent.
SavedWithoutIntent(l) == OrderWritten(MergedStatus(l))

\* Mutant: the intent replaces the row it finds.
SavedOverCommand(l) ==
    /\ status' = MergedStatus(l)
    /\ task' = IF lane[l].intent = NoAction THEN task
               ELSE [task EXCEPT ![lane[l].intent] = NewTask("initial")]
    /\ UNCHANGED <<accepted, worker, performed>>

\* The order, and in the same transaction the intent unless it is a follow-up.
Saved(l) ==
    \/ /\ lane[l].intent # NoAction
       /\ OrderImported(MergedStatus(l), lane[l].intent)
    \/ /\ lane[l].intent = NoAction
       /\ OrderWritten(MergedStatus(l))

\* The rest of the transaction: create, or update by id whatever the order
\* has become since it was read.
MergeOrder(l) ==
    /\ At(l, "merging")
    /\ lane[l].seen = Absent => status = Absent
    /\ Saved(l)
    /\ timing' = lane[l].timing
    /\ lane' = [lane EXCEPT ![l] = AfterSave(l)]
    /\ UNCHANGED <<houseVars, terminal>>

Finalize(l) ==
    /\ At(l, "finalizing")
    /\ RequestScheduledFinalize
    /\ LaneOnly(l, IdleLane)

\* persistCancellation.
CancelOrder(l) ==
    /\ At(l, "cancelling")
    /\ OrderWritten("refunded")
    /\ LaneOnly(l, IdleLane)

\* The handler throws (the unique key of an order created meanwhile, the
\* detail request, the database) or its process dies.
LaneFails(l) ==
    /\ ~At(l, "idle")
    /\ LaneOnly(l, IdleLane)
    /\ UNCHANGED vars

-----------------------------------------------------------------------------
(* Staff at the POS.                                                        *)

StaffOnly == UNCHANGED <<timing, activated, prepStarted, printJob, lane>>

\* The commands PosOrdersService queues in a status: advance, retryUberSync
\* and cancelUberOrder.
Offered(a) ==
    \/ a = "ACCEPT" /\ status = "pending"
    \/ a = "READY_FOR_PICKUP" /\ status = "making" /\ CanRequestAction(status, a)
    \/ a = "READY_FOR_PICKUP" /\ status = "ready"
    \/ a = "CANCEL" /\ status \in {"paid", "making", "ready"}

PosDecide(a) ==
    /\ terminal = NoAction /\ Offered(a)
    /\ terminal' = a
    /\ StaffOnly
    /\ UNCHANGED <<vars, announced, paidByHand>>

PosRequest ==
    /\ terminal \in Requestable
    /\ Request(terminal)
    /\ terminal' = NoAction
    /\ StaffOnly
    /\ UNCHANGED <<announced, paidByHand>>

\* updateStatusByInternalId: the order moves if it still has the status that
\* was read, and a move to making is announced on the in-memory bus.
LocalUpdate(s) ==
    /\ status # Absent
    /\ s \in OrderStatusTransitions[status]
    /\ OrderWritten(s)
    /\ announced' = (announced \/ s = "making")
    /\ paidByHand' = (paidByHand \/ s = "paid")
    /\ StaffOnly
    /\ UNCHANGED terminal

\* PosOrdersService.advance where Uber has no say.
PosAdvance ==
    \/ status = "paid" /\ LocalUpdate("making")
    \/ status = "ready" /\ LocalUpdate("completed")

\* PATCH .../status: any move of the table, an Uber order to paid as well.
Patch(s) == LocalUpdate(s)

-----------------------------------------------------------------------------
(* Preparation and ticket.                                                  *)

KitchenOnly == UNCHANGED <<timing, paidByHand, terminal, lane>>

\* Mutant: an order is activated without the accepted fact.
StartableUnaccepted(t) == timing = t /\ status \in {"pending", "paid"}

\* activateLocked, under the lock of the order row.
Startable(t) == timing = t /\ status \in {"pending", "paid"} /\ accepted

Activate(t) ==
    /\ Startable(t)
    /\ OrderWritten("making")
    /\ prepStarted' = TRUE
    /\ activated' = (activated \/ t = "SCHEDULED")
    /\ UNCHANGED <<announced, printJob>>
    /\ KitchenOnly

\* processImmediateAcceptedLocked: selected by the absence of prep_started.
StartImmediate == ~prepStarted /\ Activate("IMMEDIATE")

\* activateNextDueScheduledOrder.
StartDue == ~activated /\ Activate("SCHEDULED")

\* preparation/start, from the POS.
StartEarly == Activate("SCHEDULED")

\* Mutant: the ticket is not printed from the durable fact.
TicketOfRunningOrder == prepStarted /\ ~printJob /\ status = "making"

\* The prep_started facts without an AUTO job.
TicketDue == prepStarted /\ ~printJob

Ticket ==
    /\ printJob' = TRUE
    /\ UNCHANGED <<vars, activated, prepStarted>>
    /\ KitchenOnly

\* processPrepStartedLocked; sendPrintJob keeps an AUTO job that exists.
PrintFromOutbox == TicketDue /\ Ticket /\ UNCHANGED announced

\* The handler of the in-memory event.
PrintFromBus == announced /\ Ticket /\ announced' = FALSE

\* The API process restarts, or that handler fails and only logs it.
AnnouncementLost ==
    /\ announced /\ announced' = FALSE
    /\ UNCHANGED <<vars, activated, prepStarted, printJob>>
    /\ KitchenOnly

\* A POS request dies between its check and its command.
RequestLost ==
    /\ terminal # NoAction /\ terminal' = NoAction
    /\ StaffOnly
    /\ UNCHANGED <<vars, announced, paidByHand>>

-----------------------------------------------------------------------------

OutboxStep ==
    /\ \/ \E w \in Workers, a \in Sent : WorkerStep(w, a)
       \/ \E w \in Workers : ReadContext(w) \/ Crash(w)
       \/ \E w \in Workers, retryable \in BOOLEAN : Refuse(w, retryable)
       \/ \E a \in ActionNames : LeaseTimeout(a)
    /\ UNCHANGED <<timing, houseVars, terminal, lane>>

LaneStep(l) ==
    \/ \E scheduled \in BOOLEAN : Notify(l, scheduled)
    \/ \E intent \in Intents : ReadStored(l, intent)
    \/ NotifyFailure(l) \/ DenyStandalone(l) \/ MergeOrder(l)
    \/ Finalize(l) \/ CancelOrder(l) \/ LaneFails(l)

StaffStep ==
    \/ \E a \in Requestable : PosDecide(a)
    \/ \E s \in OrderStatuses : Patch(s)
    \/ PosRequest \/ PosAdvance \/ RequestLost

KitchenStep ==
    StartImmediate \/ StartDue \/ StartEarly
    \/ PrintFromOutbox \/ PrintFromBus \/ AnnouncementLost

LifecycleNext ==
    OutboxStep \/ (\E l \in Lanes : LaneStep(l)) \/ StaffStep \/ KitchenStep

LifecycleSpec == LifecycleInit /\ [][LifecycleNext]_lifecycleVars

(* Fairness.  The poller of the lifecycle outbox runs twice a second: what  *)
(* it finds again and again without an interruption it processes.  Nothing  *)
(* is assumed of Uber, of staff, of the workers or of the time a scheduled  *)
(* order is due at.                                                         *)
LifecycleFairness ==
    /\ WF_lifecycleVars(StartImmediate)
    /\ WF_lifecycleVars(PrintFromOutbox)

FairLifecycleSpec == LifecycleSpec /\ LifecycleFairness

-----------------------------------------------------------------------------
(* Properties.                                                              *)

\* Imports and staff, too, store statuses of the machine only.
LifecycleTypeOK ==
    /\ TypeOK
    /\ timing \in Timings
    /\ {activated, prepStarted, announced, printJob, paidByHand} \subseteq BOOLEAN
    /\ terminal \in Requestable \cup {NoAction}
    /\ lane \in [Lanes -> LaneStates]

\* The lifecycle keeps what the outbox asks of its surroundings, so all that
\* holds of UberOrderAction holds here.
ImplementsOutbox == Spec

BeyondPending == {"paid", "making", "ready", "completed"}

\* No order is paid, in preparation or further without the order.accepted
\* fact, unless staff set it to paid by hand: the status and the fact are
\* written together, and neither stale writers of the status nor commands
\* confirmed late part them.  The PATCH is the one way round the fact; nothing
\* in updateStatus keeps it from a pending Uber order.
PaidIsAccepted == status \in BeyondPending => accepted \/ paidByHand

\* A kitchen ticket exists only for an order Uber was told we accept, unless
\* staff set it to paid by hand, on the durable path and on the in-memory one.
TicketIsAccepted ==
    printJob =>
        \/ paidByHand
        \/ \E phase \in Phases : <<"ACCEPT", phase>> \in performed

\* The durable path needs the fact whatever staff does: preparation that was
\* started is that of an order Uber was told we accept.
PreparationIsAccepted ==
    prepStarted => \E phase \in Phases : <<"ACCEPT", phase>> \in performed

\* A stored order never waits without a command: its import queued an answer
\* to Uber in the same transaction.
ImportIsAnswered ==
    status # Absent => \E a \in {"ACCEPT", "DENY"} : task[a].status # "ABSENT"

\* An immediate order that is accepted and paid gets its ticket, with nothing
\* asked of the in-memory bus: it gets into preparation unless something else happens to it
\* first, and an order whose preparation started is printed whatever becomes
\* of it.
AcceptedIsPrinted ==
    (prepStarted \/ (accepted /\ status = "paid" /\ timing = "IMMEDIATE")) ~>
        \/ printJob
        \/ ~prepStarted /\ (status # "paid" \/ timing # "IMMEDIATE")
=============================================================================
