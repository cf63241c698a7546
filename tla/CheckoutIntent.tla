--------------------------- MODULE CheckoutIntent ---------------------------
(***************************************************************************)
(* The online payment of one order: a CheckoutIntent row, the charges made *)
(* for it at Clover and the order it pays, shared by two kinds of calls.   *)
(* A payer is one payWithCardToken request.  A reconciler is one call of   *)
(* reconcileIntent, from the five-second timer or from a customer's page   *)
(* that polls the status.  Calls overlap without bound on their awaits, so *)
(* every statement, and every call to Clover, is a step of its own.        *)
(*                                                                         *)
(* One reference id is followed.  What other intents do to it is the       *)
(* variable crowded: the timer takes the ten oldest unresolved intents     *)
(* only, and older ones may keep this one from its list.  Money is not     *)
(* modelled: amounts may be found different when "mismatch" or "refused"   *)
(* is in Faults, identifiers for the attempts in Mistaken.                 *)
(***************************************************************************)
EXTENDS Naturals, FiniteSets

CONSTANTS
    Payers,       \* payWithCardToken requests in progress at the same time
    Reconcilers,  \* reconcileIntent calls in progress at the same time
    MaxAttempts,  \* bound: of the payment attempts of the intent
    Mistaken,     \* the attempts whose charge Clover reports, whenever it is
                  \* asked, under an identifier that was not expected
    Faults        \* which of the faults below happen

(* "crash": the process dies; "lost": Clover, or the way to it, does not   *)
(* answer; "mismatch": the charge found has not the amount expected;       *)
(* "refused": the order cannot be created as it was quoted.                *)
ASSUME CheckoutAssumption ==
    /\ Payers \cap Reconcilers = {}
    /\ MaxAttempts \in Nat \ {0}
    /\ Mistaken \subseteq 1 .. MaxAttempts
    /\ Faults \subseteq {"crash", "lost", "mismatch", "refused"}

Calls == Payers \cup Reconcilers
Attempts == 1 .. MaxAttempts

Statuses == {"absent", "pending", "processing", "creating_order",
             "completed", "failed", "expired", "deleted"}

Charges == {"none", "pending", "captured", "declined"}

Intents == [status : Statuses,         \* "absent" before the row exists,
                                       \* "deleted" after it
            ordered : BOOLEAN,         \* orderId is set, or was when deleted
            overdue : BOOLEAN,         \* expiresAt has passed
            attempt : 0 .. MaxAttempts, \* metadata: paymentAttempt, 0 if unset
            inFlight : BOOLEAN,        \* metadata: inFlight
            recent : BOOLEAN]          \* metadata: paymentStartedAt is recent

PayerSteps == {"reject", "reset", "record", "claim", "begin", "charge",
               "challenge", "verify", "fail", "clear", "note"}

ReconcilerSteps == {"ask", "claimOrder", "quote", "surcharge"}

SharedSteps == {"idle", "overdue", "refetch", "refuse", "check", "find",
                "create", "link"}

VARIABLES
    intent,
    charge,  \* at Clover, by attempt: the idempotency key is reference_attempt
    orders,  \* orders created for the intent
    crowded, \* it is unresolved, and ten older intents are
    call     \* of each call its next step, the attempt it is about, and
             \* whether it read the creation of the order as claimed

vars == <<intent, charge, orders, crowded, call>>

IdleCall == [at |-> "idle", attempt |-> 0, claimed |-> FALSE]

AbsentIntent == [status |-> "absent", ordered |-> FALSE, overdue |-> FALSE,
                 attempt |-> 0, inFlight |-> FALSE, recent |-> FALSE]

Init ==
    /\ intent = AbsentIntent
    /\ charge = [k \in Attempts |-> "none"]
    /\ orders = 0
    /\ crowded = FALSE
    /\ call = [c \in Calls |-> IdleCall]

Exists == intent.status # "absent"

\* The steps of both kinds of calls depend on nothing a call has read.
Goes(c, from, to) ==
    /\ call[c].at = from
    /\ call' = IF to \in SharedSteps
               THEN [call EXCEPT ![c] = [IdleCall EXCEPT !.at = to]]
               ELSE [call EXCEPT ![c].at = to]

CallOnly == UNCHANGED <<intent, charge, orders, crowded>>

Started(i) == i.status \in {"processing", "creating_order"}

Unresolved(i) == Started(i) /\ ~i.ordered

Writes(i) ==
    /\ intent' = i
    /\ crowded' = (crowded /\ Unresolved(i))
    /\ UNCHANGED <<charge, orders>>

-----------------------------------------------------------------------------
(* The statements of CheckoutIntentsService: each returns the row after an *)
(* updateMany whose condition may not hold.                                *)

Expired(i) ==
    IF i.status = "pending" /\ ~i.ordered
    THEN [i EXCEPT !.status = "expired"] ELSE i

ResetForRetry(i) ==
    IF i.status \in {"failed", "expired"} /\ ~i.ordered
    THEN [i EXCEPT !.status = "pending", !.overdue = FALSE] ELSE i

\* Mutant: the guard on orderId is forgotten.
FailedAnyway(i) ==
    IF i.status = "pending" \/ Started(i)
    THEN [i EXCEPT !.status = "failed"] ELSE i

Failed(i) ==
    IF (i.status = "pending" \/ Started(i)) /\ ~i.ordered
    THEN [i EXCEPT !.status = "failed"] ELSE i

Completed(i) ==
    IF Started(i) THEN [i EXCEPT !.status = "completed", !.ordered = TRUE]
    ELSE i

Claimable(i) == i.status = "pending" /\ ~i.ordered /\ ~i.overdue

\* updateMetadata by a payer: what it wrote when it began, without inFlight.
Landed(i, k) == [i EXCEPT !.attempt = k, !.inFlight = FALSE]

-----------------------------------------------------------------------------
(* findByIdentifiers: a pending row found overdue is expired and read again.*)

PendingExpired == intent.status = "pending" /\ ~intent.ordered /\ intent.overdue

FindOverdue(c) ==
    /\ PendingExpired
    /\ Goes(c, "idle", "overdue")
    /\ CallOnly

MarkExpired(c) ==
    /\ Goes(c, "overdue", "refetch")
    /\ Writes(Expired(intent))

Found(c) ==
    \/ call[c].at = "idle" /\ ~PendingExpired
    \/ call[c].at = "refetch"

\* POST pay/online/session: the row exists before any payment.
OpenSession ==
    /\ ~Exists
    /\ Writes([AbsentIntent EXCEPT !.status = "pending"])
    /\ UNCHANGED call

-----------------------------------------------------------------------------
(* payWithCardToken.                                                       *)

PaymentAttempt(i) ==
    CASE i.status \in {"failed", "expired"} -> i.attempt + 1
      [] i.status \notin {"failed", "expired"} /\ i.attempt > 0 -> i.attempt
      [] OTHER -> 1

NextStep ==
    CASE ~Exists -> "record"
      [] intent.status \in {"failed", "expired"} -> "reset"
      [] OTHER -> "claim"

\* The existing intent is read.  The pricing token, checked next, is good, or
\* it is over and the intent with it, or the request is turned away.  Bound:
\* nobody pays under an identifier whose row has been deleted.
Pay(p) ==
    /\ Found(p) /\ intent.status # "deleted"
    /\ PaymentAttempt(intent) <= MaxAttempts
    /\ \/ call' = [call EXCEPT ![p] = IdleCall]
       \/ /\ ~intent.ordered
          /\ \E next \in {"reject", NextStep} :
                /\ next = "reject" => Exists
                /\ call' = [call EXCEPT ![p].at = next,
                                  ![p].attempt = PaymentAttempt(intent)]
    /\ CallOnly

Reject(p) == Goes(p, "reject", "idle") /\ Writes(Expired(intent))

Reset(p) == Goes(p, "reset", "claim") /\ Writes(ResetForRetry(intent))

\* referenceId is unique: of two requests that saw no row, one fails here.
Record(p) ==
    IF Exists
    THEN Goes(p, "record", "idle") /\ CallOnly
    ELSE /\ Goes(p, "record", "claim")
         /\ Writes([AbsentIntent EXCEPT !.status = "pending", !.recent = TRUE,
                        !.attempt = call[p].attempt, !.inFlight = TRUE])

\* claimProcessing, or CHECKOUT_IN_PROGRESS.
Claim(p) ==
    IF Claimable(intent)
    THEN /\ Goes(p, "claim", "begin")
         /\ Writes([intent EXCEPT !.status = "processing"])
    ELSE Goes(p, "claim", "idle") /\ CallOnly

Begin(p) ==
    /\ Goes(p, "begin", "charge")
    /\ Writes([intent EXCEPT !.attempt = call[p].attempt, !.inFlight = TRUE,
                             !.recent = TRUE])

\* Clover makes one charge for an idempotency key and repeats its answer.
Charged(k) ==
    IF charge[k] = "none" THEN {"pending", "captured", "declined"}
    ELSE {charge[k]}

Answer(outcome) ==
    CASE outcome = "captured" -> "verify"
      [] outcome = "pending" -> "challenge"
      [] OTHER -> "fail"

CreateCharge(p) ==
    /\ call[p].at = "charge"
    /\ \E outcome \in Charged(call[p].attempt) :
          /\ charge' = [charge EXCEPT ![call[p].attempt] = outcome]
          /\ \/ Goes(p, "charge", Answer(outcome))
             \/ "lost" \in Faults /\ Goes(p, "charge", "fail")
    /\ UNCHANGED <<intent, orders, crowded>>

\* The request does not reach Clover.
LoseCharge(p) ==
    /\ "lost" \in Faults
    /\ Goes(p, "charge", "fail")
    /\ CallOnly

Challenge(p) ==
    /\ Goes(p, "challenge", "idle")
    /\ Writes(Landed(intent, call[p].attempt))

\* getChargeStatus, up to three times, and the checks of what it returned.
Verify(p) ==
    /\ \/ call[p].attempt \notin Mistaken /\ Goes(p, "verify", "note")
       \/ "lost" \in Faults /\ Goes(p, "verify", "fail")
       \/ /\ "mismatch" \in Faults \/ call[p].attempt \in Mistaken
          /\ Goes(p, "verify", "refuse")
    /\ CallOnly

Fail(p) == Goes(p, "fail", "clear") /\ Writes(Failed(intent))

Clear(p) ==
    /\ Goes(p, "clear", "idle")
    /\ Writes(Landed(intent, call[p].attempt))

Note(p) ==
    /\ Goes(p, "note", "check")
    /\ Writes(Landed(intent, call[p].attempt))

\* markProcessed: unconditional, unlike markCompleted.
MarkProcessed(p) ==
    /\ Goes(p, "link", "idle")
    /\ Writes([intent EXCEPT !.status = "completed", !.ordered = TRUE])

-----------------------------------------------------------------------------
(* reconcileIntent.                                                        *)

\* Mutant: the start of the payment is looked for, not its age.
ReconcilableUnlessStarted ==
    /\ Unresolved(intent) /\ ~intent.inFlight
    /\ intent.status = "processing" => intent.attempt = 0

Reconcilable ==
    /\ Unresolved(intent) /\ ~intent.inFlight
    /\ intent.status = "processing" => ~intent.recent

\* By the timer, which needs a place in its list, or by a customer's page.
Poll(r) ==
    /\ Found(r)
    /\ call' = [call EXCEPT ![r] =
          IF Reconcilable
          THEN [at |-> "ask", attempt |-> intent.attempt,
                claimed |-> intent.status = "creating_order"]
          ELSE IdleCall]
    /\ CallOnly

StatusOf(k) == IF k = 0 THEN "none" ELSE charge[k]

\* Mutant: a charge that waits for the customer is taken for captured.
SucceededUnlessDeclined(k) == StatusOf(k) \in {"pending", "captured"}

Succeeded(k) == StatusOf(k) = "captured"

\* A charge that succeeded is ordered by the caller that claims the creation,
\* or by any caller that read the intent as claimed already.  The charge of
\* another payment changes nothing.
Ask(r) ==
    LET k == call[r].attempt IN
    /\ \/ /\ Succeeded(k) /\ k \notin Mistaken
          /\ Goes(r, "ask", IF call[r].claimed THEN "quote"
                            ELSE "claimOrder")
       \/ /\ StatusOf(k) = "declined" /\ k \notin Mistaken
          /\ Goes(r, "ask", "refuse")
       \/ /\ StatusOf(k) \in {"none", "pending"} \/ k \in Mistaken
          /\ Goes(r, "ask", "idle")
    /\ CallOnly

\* No answer, or another amount.
AskInVain(r) ==
    LET k == call[r].attempt IN
    /\ \/ "lost" \in Faults /\ Goes(r, "ask", "idle")
       \/ /\ "mismatch" \in Faults /\ k \notin Mistaken /\ StatusOf(k) # "none"
          /\ Goes(r, "ask", "refuse")
    /\ CallOnly

ClaimOrderCreation(r) ==
    IF intent.status = "processing" /\ ~intent.ordered
    THEN /\ Goes(r, "claimOrder", "quote")
         /\ Writes([intent EXCEPT !.status = "creating_order"])
    ELSE Goes(r, "claimOrder", "idle") /\ CallOnly

Quote(r) ==
    /\ \/ Goes(r, "quote", "surcharge")
       \/ Goes(r, "quote", "check")
       \/ /\ "refused" \in Faults
          /\ \E next \in {"idle", "refuse"} : Goes(r, "quote", next)
    /\ CallOnly

\* The surcharge is written with the metadata as it was read; a row that is
\* gone cannot be updated.
Surcharge(r) ==
    IF intent.status = "deleted"
    THEN Goes(r, "surcharge", "idle") /\ CallOnly
    ELSE /\ Goes(r, "surcharge", "check")
         /\ Writes(Landed(intent, call[r].attempt))

MarkCompleted(r) == Goes(r, "link", "idle") /\ Writes(Completed(intent))

-----------------------------------------------------------------------------
(* What both do: markFailed before an error, and createImmediatePaid.  The *)
(* check of the order's total afterwards cannot fail: the transaction made *)
(* it already.                                                             *)

Refuse(c) == Goes(c, "refuse", "idle") /\ Writes(Failed(intent))

Confirmed(i) == Started(i) \/ i.status = "completed"

\* Mutant: the intent is consumed whoever has consumed it.
ConsumableTwice(i) == Confirmed(i)

Consumable(i) == Confirmed(i) /\ ~i.ordered

\* The order that exists is returned, unless the kitchen has begun it: it is to
\* become paid again, which its status does not allow.
WithOrder == {"link", "idle"}

\* createInternal reads the intent; an error leaves everything as it is.
CheckIntent(c) ==
    /\ \E next \in CASE ~Confirmed(intent) \/ intent.overdue -> {"idle"}
                    [] Consumable(intent) /\ ~intent.overdue -> {"find"}
                    [] OTHER -> WithOrder :
          Goes(c, "check", next)
    /\ CallOnly

FindOrder(c) ==
    /\ \E next \in IF orders > 0 THEN WithOrder ELSE {"create"} :
          Goes(c, "find", next)
    /\ CallOnly

\* One transaction consumes the intent and creates the order.  That the order's
\* keys are unique as well is not needed, and left out.
CreateOrder(c) ==
    /\ Consumable(intent)
    /\ Goes(c, "create", "link")
    /\ intent' = [intent EXCEPT !.ordered = TRUE]
    /\ orders' = orders + 1
    /\ crowded' = FALSE
    /\ UNCHANGED charge

OrderNotCreated(c) ==
    /\ "refused" \in Faults \/ ~Consumable(intent)
    /\ Goes(c, "create", "idle")
    /\ CallOnly

-----------------------------------------------------------------------------
(* Around the calls.                                                       *)

\* The customer completes or fails the 3DS challenge of a charge.
Authenticate(k) ==
    /\ charge[k] = "pending"
    /\ \E outcome \in {"captured", "declined"} :
          charge' = [charge EXCEPT ![k] = outcome]
    /\ UNCHANGED <<intent, orders, crowded, call>>

\* Twenty minutes pass since the row was recorded or reset: looked at while the
\* row is pending and by createInternal, renewed when it becomes pending again.
RunOut ==
    /\ intent.status = "pending" \/ Started(intent)
    /\ ~intent.overdue
    /\ Writes([intent EXCEPT !.overdue = TRUE])
    /\ UNCHANGED call

\* Thirty seconds pass since the payment started.
WindowEnds ==
    /\ intent.recent
    /\ Writes([intent EXCEPT !.recent = FALSE])
    /\ UNCHANGED call

\* Older intents begin, or cease, to fill the timer's list.
Crowd ==
    /\ Unresolved(intent)
    /\ crowded' = ~crowded
    /\ UNCHANGED <<intent, charge, orders, call>>

\* After two weeks the row is deleted, whatever its status.  Bound: not while a
\* request of a payer is under way.
Retain ==
    /\ intent.status \notin {"absent", "deleted"}
    /\ \A p \in Payers : call[p].at = "idle"
    /\ Writes([AbsentIntent EXCEPT !.status = "deleted", !.ordered = intent.ordered])
    /\ UNCHANGED call

Crash ==
    /\ "crash" \in Faults
    /\ call' = [c \in Calls |-> IdleCall]
    /\ CallOnly

SharedStep(c) ==
    \/ MarkExpired(c) \/ Refuse(c)
    \/ CheckIntent(c) \/ FindOrder(c) \/ CreateOrder(c) \/ OrderNotCreated(c)

PayerStep(p) ==
    \/ Reject(p) \/ Reset(p) \/ Record(p) \/ Claim(p) \/ Begin(p)
    \/ CreateCharge(p) \/ LoseCharge(p) \/ Challenge(p) \/ Verify(p)
    \/ Fail(p) \/ Clear(p) \/ Note(p) \/ MarkProcessed(p) \/ SharedStep(p)

ReconcilerStep(r) ==
    \/ ClaimOrderCreation(r) \/ Quote(r) \/ Surcharge(r) \/ MarkCompleted(r)
    \/ SharedStep(r)

Next ==
    \/ OpenSession
    \/ \E c \in Calls : FindOverdue(c)
    \/ \E p \in Payers : Pay(p) \/ PayerStep(p)
    \/ \E r \in Reconcilers : Poll(r) \/ Ask(r) \/ AskInVain(r) \/ ReconcilerStep(r)
    \/ \E k \in Attempts : Authenticate(k)
    \/ RunOut \/ WindowEnds \/ Crowd \/ Retain \/ Crash

Spec == Init /\ [][Next]_vars

(* The timer lists ten unresolved intents every five seconds, this one     *)
(* unless it is crowded out, and the event loop resumes what it starts;    *)
(* Clover does not leave every question about a charge unanswered for      *)
(* ever, a challenge ends and time passes: strong fairness, since a crash  *)
(* may interrupt a call, but not every one.  Nobody need poll a status, and*)
(* nothing makes older intents leave the list.                             *)
ReconciledSpec ==
    /\ Spec
    /\ \A r \in Reconcilers :
          /\ WF_vars(~crowded /\ Poll(r))
          /\ SF_vars(Ask(r)) /\ SF_vars(ReconcilerStep(r))
    /\ \A k \in Attempts : WF_vars(Authenticate(k))
    /\ WF_vars(WindowEnds)

(* And the requests of payers are resumed too, as long as the process lives.*)
FairSpec ==
    /\ ReconciledSpec
    /\ \A p \in Payers : WF_vars(PayerStep(p))

-----------------------------------------------------------------------------
TypeOK ==
    /\ intent \in Intents
    /\ charge \in [Attempts -> Charges]
    /\ orders \in Nat
    /\ crowded \in BOOLEAN
    /\ call \in [Calls -> [at : SharedSteps \cup PayerSteps \cup ReconcilerSteps,
                          attempt : 0 .. MaxAttempts, claimed : BOOLEAN]]

Captured == \E k \in Attempts : charge[k] = "captured"

(* An order exists, and its creation is claimed, only once a charge of its *)
(* intent has been captured: "create the order record only after payment   *)
(* has succeeded" (createInternal), whichever of the calls creates it and  *)
(* however stale what it read is.                                          *)
OrderIsPaid == orders > 0 \/ intent.status = "creating_order" => Captured

(* However many calls find the charge captured, the intent is consumed by  *)
(* one order, and the intent knows it.                                     *)
OneOrder == orders = IF intent.ordered THEN 1 ELSE 0

(* An intent whose order exists is never reported failed or expired, and   *)
(* never opened for another payment, as long as its row is kept; one       *)
(* reported completed has its order.                                       *)
UsedIsNotFailed ==
    /\ intent.ordered => Confirmed(intent) \/ intent.status = "deleted"
    /\ intent.status = "completed" => intent.ordered

(* An unused intent in processing whose metadata does not say that a       *)
(* payment is in flight, and whose last charge Clover knows under the      *)
(* identifiers expected, does not stay so: whatever crashes, is lost or    *)
(* refused, a reconciler takes it out of processing unless a payer does.   *)
(* This rests on the timer coming to it: on older intents that do not fill *)
(* its list for ever or again and again.                                   *)
Landable ==
    /\ intent.status = "processing" /\ ~intent.ordered /\ ~intent.inFlight
    /\ StatusOf(intent.attempt) # "none" /\ intent.attempt \notin Mistaken

LandedIsReconciled == (<>[]~crowded) => (Landable ~> ~Landable)
=============================================================================
