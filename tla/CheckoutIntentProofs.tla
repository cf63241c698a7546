------------------------ MODULE CheckoutIntentProofs ------------------------
(***************************************************************************)
(* Theorems about online payments, for any number of overlapping requests  *)
(* and reconciliations, any number of attempts and any faults.             *)
(***************************************************************************)
EXTENDS CheckoutIntent, TLAPS

Steps == SharedSteps \cup PayerSteps \cup ReconcilerSteps

CallType == [at : Steps, attempt : 0 .. MaxAttempts, claimed : BOOLEAN]

\* What one step of a call does to the others and to itself.
LEMMA GoesOn ==
    ASSUME call \in [Calls -> CallType], NEW c \in Calls,
           NEW from, NEW to \in Steps, Goes(c, from, to)
    PROVE  /\ call' \in [Calls -> CallType]
           /\ call[c].at = from /\ call'[c].at = to
           /\ \A d \in Calls : d # c => call'[d] = call[d]
<1>1. MaxAttempts \in Nat /\ 0 \in 0 .. MaxAttempts
  BY CheckoutAssumption
<1>2. IdleCall \in CallType
  BY <1>1 DEF IdleCall, CallType, Steps, SharedSteps
<1>3. CASE to \in SharedSteps
  <2>1. [IdleCall EXCEPT !.at = to] \in CallType
    BY <1>1 DEF IdleCall, CallType
  <2>2. [IdleCall EXCEPT !.at = to].at = to
    BY DEF IdleCall
  <2> QED
    BY <1>3, <2>1, <2>2 DEF Goes
<1>4. CASE to \notin SharedSteps
  <2>1. [call[c] EXCEPT !.at = to] \in CallType
    BY DEF CallType
  <2>2. call' = [call EXCEPT ![c] = [call[c] EXCEPT !.at = to]]
    BY <1>4 DEF Goes
  <2>3. [call[c] EXCEPT !.at = to].at = to
    BY <2>1 DEF CallType
  <2> QED
    BY <2>1, <2>2, <2>3 DEF Goes
<1> QED
  BY <1>3, <1>4

\* Every statement on the row returns a row.
LEMMA StatementsAreTyped ==
    ASSUME NEW i \in Intents, NEW k \in 0 .. MaxAttempts
    PROVE  /\ Expired(i) \in Intents /\ ResetForRetry(i) \in Intents
           /\ Failed(i) \in Intents /\ Completed(i) \in Intents
           /\ Landed(i, k) \in Intents
BY DEF Intents, Statuses, Expired, ResetForRetry, Failed, Completed, Landed

\* The attempt a payer makes is an attempt, if it is within the bound.
LEMMA AttemptIsTyped ==
    ASSUME NEW i \in Intents, PaymentAttempt(i) <= MaxAttempts
    PROVE  PaymentAttempt(i) \in 0 .. MaxAttempts
BY CheckoutAssumption DEF Intents, PaymentAttempt

\* The types without the mention of the steps' names.
Typed ==
    /\ intent \in Intents
    /\ charge \in [Attempts -> Charges]
    /\ orders \in Nat
    /\ crowded \in BOOLEAN
    /\ call \in [Calls -> CallType]

LEMMA TypedIsTypeOK == Typed <=> TypeOK
BY DEF Typed, TypeOK, CallType, Steps

LEMMA TypeInitially == Init => Typed
<1> SUFFICES ASSUME Init PROVE Typed
  OBVIOUS
<1>1. MaxAttempts \in Nat /\ 0 \in 0 .. MaxAttempts
  BY CheckoutAssumption
<1> QED
  BY <1>1 DEF Init, Typed, AbsentIntent, IdleCall, Intents, Statuses, Charges,
              CallType, Steps, SharedSteps

\* The steps of payers and reconcilers alike.
LEMMA SharedStepsAreTyped ==
    ASSUME Typed, NEW c \in Calls, SharedStep(c) \/ FindOverdue(c)
    PROVE  Typed'
<1> USE DEF Typed
<1>1. CASE MarkExpired(c)
  BY <1>1, GoesOn, StatementsAreTyped, CheckoutAssumption
     DEF MarkExpired, Writes, Steps, SharedSteps
<1>2. CASE Refuse(c)
  BY <1>2, GoesOn, StatementsAreTyped, CheckoutAssumption
     DEF Refuse, Writes, Steps, SharedSteps
<1>3. CASE CheckIntent(c)
  BY <1>3, GoesOn DEF CheckIntent, WithOrder, CallOnly, Steps, SharedSteps
<1>4. CASE FindOrder(c)
  BY <1>4, GoesOn DEF FindOrder, WithOrder, CallOnly, Steps, SharedSteps
<1>5. CASE CreateOrder(c)
  <2>1. call' \in [Calls -> CallType]
    BY <1>5, GoesOn DEF CreateOrder, Steps, SharedSteps
  <2>2. intent' \in Intents
    BY <1>5 DEF CreateOrder, Intents
  <2>3. crowded' \in BOOLEAN
    <3>1. crowded' = FALSE
      BY <1>5 DEF CreateOrder
    <3> QED
      BY <3>1
  <2>4. orders' \in Nat /\ charge' = charge
    BY <1>5 DEF CreateOrder
  <2> QED
    BY <2>1, <2>2, <2>3, <2>4
<1>6. CASE OrderNotCreated(c) \/ FindOverdue(c)
  BY <1>6, GoesOn DEF OrderNotCreated, FindOverdue, CallOnly, Steps, SharedSteps
<1> QED
  BY <1>1, <1>2, <1>3, <1>4, <1>5, <1>6 DEF SharedStep

LEMMA PayerStepsAreTyped ==
    ASSUME Typed, NEW p \in Payers, Pay(p) \/ PayerStep(p)
    PROVE  Typed'
<1> USE DEF Typed
<1>0. p \in Calls /\ call[p].attempt \in 0 .. MaxAttempts
  BY DEF Calls, CallType
<1>1. CASE Pay(p)
  <2>1. IdleCall \in CallType
    BY CheckoutAssumption DEF IdleCall, CallType, Steps, SharedSteps
  <2>2. call' \in [Calls -> CallType]
    <3>1. CASE call' = [call EXCEPT ![p] = IdleCall]
      BY <3>1, <2>1
    <3>2. ASSUME NEW next \in {"reject", NextStep},
                 call' = [call EXCEPT ![p].at = next,
                                    ![p].attempt = PaymentAttempt(intent)]
          PROVE  call' \in [Calls -> CallType]
      <4>1. next \in Steps
        BY DEF NextStep, Steps, PayerSteps
      <4>2. PaymentAttempt(intent) \in 0 .. MaxAttempts
        BY <1>1, AttemptIsTyped DEF Pay
      <4> QED
        BY <3>2, <4>1, <4>2, <1>0 DEF CallType
    <3> QED
      BY <1>1, <3>1, <3>2 DEF Pay
  <2> QED
    BY <1>1, <2>2 DEF Pay, CallOnly
<1>2. CASE Reject(p) \/ Reset(p)
  BY <1>2, <1>0, GoesOn, StatementsAreTyped
     DEF Reject, Reset, Writes, Steps, SharedSteps, PayerSteps
<1>3. CASE Record(p)
  <2>1. call' \in [Calls -> CallType]
    BY <1>3, <1>0, GoesOn DEF Record, Steps, SharedSteps, PayerSteps
  <2>2. intent' \in Intents
    BY <1>3, <1>0 DEF Record, Writes, CallOnly, AbsentIntent, Intents, Statuses
  <2> QED
    BY <1>3, <2>1, <2>2 DEF Record, Writes, CallOnly
<1>4. CASE Claim(p)
  <2>1. call' \in [Calls -> CallType]
    BY <1>4, <1>0, GoesOn DEF Claim, Steps, SharedSteps, PayerSteps
  <2>2. intent' \in Intents
    BY <1>4 DEF Claim, Writes, CallOnly, Intents, Statuses
  <2> QED
    BY <1>4, <2>1, <2>2 DEF Claim, Writes, CallOnly
<1>5. CASE Begin(p)
  <2>1. call' \in [Calls -> CallType]
    BY <1>5, <1>0, GoesOn DEF Begin, Steps, SharedSteps, PayerSteps
  <2>2. intent' \in Intents
    BY <1>5, <1>0 DEF Begin, Writes, Intents
  <2> QED
    BY <1>5, <2>1, <2>2 DEF Begin, Writes
<1>6. CASE CreateCharge(p)
  <2>1. PICK outcome \in Charged(call[p].attempt) :
          /\ charge' = [charge EXCEPT ![call[p].attempt] = outcome]
          /\ \/ Goes(p, "charge", Answer(outcome))
             \/ Goes(p, "charge", "fail")
    BY <1>6 DEF CreateCharge
  <2>2. Answer(outcome) \in Steps /\ "fail" \in Steps
    BY DEF Answer, Steps, PayerSteps
  <2>3. call' \in [Calls -> CallType]
    BY <1>0, <2>1, <2>2, GoesOn
  <2>4. charge' \in [Attempts -> Charges]
    <3>1. CASE call[p].attempt \in Attempts
      BY <2>1, <3>1 DEF Charged, Charges
    <3>2. CASE call[p].attempt \notin Attempts
      BY <2>1, <3>2
    <3> QED
      BY <3>1, <3>2
  <2> QED
    BY <1>6, <2>3, <2>4 DEF CreateCharge
<1>7. CASE LoseCharge(p) \/ Verify(p)
  BY <1>7, <1>0, GoesOn
     DEF LoseCharge, Verify, CallOnly, Steps, SharedSteps, PayerSteps
<1>8. CASE Challenge(p) \/ Clear(p) \/ Note(p)
  BY <1>8, <1>0, GoesOn, StatementsAreTyped
     DEF Challenge, Clear, Note, Writes, Steps, SharedSteps, PayerSteps
<1>9. CASE Fail(p)
  BY <1>9, <1>0, GoesOn, StatementsAreTyped DEF Fail, Writes, Steps, PayerSteps
<1>10. CASE MarkProcessed(p)
  <2>1. call' \in [Calls -> CallType]
    BY <1>10, <1>0, GoesOn DEF MarkProcessed, Steps, SharedSteps
  <2>2. intent' \in Intents
    BY <1>10 DEF MarkProcessed, Writes, Intents, Statuses
  <2> QED
    BY <1>10, <2>1, <2>2 DEF MarkProcessed, Writes
<1>11. CASE SharedStep(p)
  BY <1>11, <1>0, SharedStepsAreTyped
<1> QED
  BY <1>1, <1>2, <1>3, <1>4, <1>5, <1>6, <1>7, <1>8, <1>9, <1>10, <1>11
     DEF PayerStep

LEMMA ReconcilerStepsAreTyped ==
    ASSUME Typed, NEW r \in Reconcilers,
           Poll(r) \/ Ask(r) \/ AskInVain(r) \/ ReconcilerStep(r)
    PROVE  Typed'
<1> USE DEF Typed
<1>0. r \in Calls /\ call[r].attempt \in 0 .. MaxAttempts
  BY DEF Calls, CallType
<1>1. CASE Poll(r)
  <2>1. IdleCall \in CallType
    BY CheckoutAssumption DEF IdleCall, CallType, Steps, SharedSteps
  <2>2. [at |-> "ask", attempt |-> intent.attempt,
         claimed |-> intent.status = "creating_order"] \in CallType
    BY DEF CallType, Steps, ReconcilerSteps, Intents
  <2> QED
    BY <1>1, <1>0, <2>1, <2>2 DEF Poll, CallOnly
<1>2. CASE Ask(r) \/ AskInVain(r) \/ Quote(r)
  BY <1>2, <1>0, GoesOn
     DEF Ask, AskInVain, Quote, CallOnly, Steps, SharedSteps, ReconcilerSteps
<1>3. CASE ClaimOrderCreation(r)
  <2>1. call' \in [Calls -> CallType]
    BY <1>3, <1>0, GoesOn
       DEF ClaimOrderCreation, Steps, SharedSteps, ReconcilerSteps
  <2>2. intent' \in Intents
    BY <1>3 DEF ClaimOrderCreation, Writes, CallOnly, Intents, Statuses
  <2> QED
    BY <1>3, <2>1, <2>2 DEF ClaimOrderCreation, Writes, CallOnly
<1>4. CASE Surcharge(r)
  <2>1. call' \in [Calls -> CallType]
    BY <1>4, <1>0, GoesOn DEF Surcharge, Steps, SharedSteps
  <2>2. CallOnly \/ Writes(Landed(intent, call[r].attempt))
    BY <1>4 DEF Surcharge
  <2> QED
    BY <1>0, <2>1, <2>2, StatementsAreTyped DEF CallOnly, Writes
<1>6. CASE MarkCompleted(r)
  BY <1>6, <1>0, GoesOn, StatementsAreTyped
     DEF MarkCompleted, Writes, Steps, SharedSteps
<1>5. CASE SharedStep(r)
  BY <1>5, <1>0, SharedStepsAreTyped
<1> QED
  BY <1>1, <1>2, <1>3, <1>4, <1>5, <1>6 DEF ReconcilerStep

LEMMA TypeInductive == Typed /\ [Next]_vars => Typed'
<1> SUFFICES ASSUME Typed, [Next]_vars PROVE Typed'
  OBVIOUS
<1>1. CASE OpenSession
  <2>1. AbsentIntent \in Intents
    BY CheckoutAssumption DEF AbsentIntent, Intents, Statuses
  <2>2. [AbsentIntent EXCEPT !.status = "pending"] \in Intents
    BY <2>1 DEF Intents, Statuses
  <2> QED
    BY <1>1, <2>2 DEF OpenSession, Typed, Writes
<1>2. ASSUME NEW k \in Attempts, Authenticate(k) PROVE Typed'
  BY <1>2 DEF Authenticate, Typed, Charges
<1>3. CASE RunOut \/ WindowEnds \/ Crowd
  BY <1>3 DEF RunOut, WindowEnds, Crowd, Typed, Writes, Intents
<1>6. CASE Retain
  <2>1. [AbsentIntent EXCEPT !.status = "deleted", !.ordered = intent.ordered]
          \in Intents
    <3>1. AbsentIntent \in Intents /\ intent.ordered \in BOOLEAN
      BY CheckoutAssumption DEF AbsentIntent, Intents, Statuses, Typed
    <3> QED
      BY <3>1 DEF Intents, Statuses
  <2> QED
    BY <1>6, <2>1 DEF Retain, Typed, Writes
<1>4. CASE Crash
  <2>1. IdleCall \in CallType
    BY CheckoutAssumption DEF IdleCall, CallType, Steps, SharedSteps
  <2> QED
    BY <1>4, <2>1 DEF Crash, Typed, CallOnly
<1>5. CASE UNCHANGED vars
  BY <1>5 DEF vars, Typed
<1> QED
  BY <1>1, <1>2, <1>3, <1>4, <1>5, <1>6, SharedStepsAreTyped, PayerStepsAreTyped,
     ReconcilerStepsAreTyped DEF Next

(* The row, the charges and the calls keep their types, and no attempt is  *)
(* numbered beyond the bound.                                              *)
THEOREM CheckoutTypeCorrect == Spec => []TypeOK
<1>1. Init => Typed
  BY TypeInitially
<1>2. Typed /\ [Next]_vars => Typed'
  BY TypeInductive
<1>3. Typed => TypeOK
  BY TypedIsTypeOK
<1> QED
  BY <1>1, <1>2, <1>3, PTL DEF Spec

-----------------------------------------------------------------------------
(* No order without a captured charge.  A call that is past the answer of  *)
(* Clover knows of a captured charge, and a captured charge remains so: the*)
(* two are what the invariant lacks to be inductive.                       *)

PaidSteps == {"verify", "note", "claimOrder", "quote", "surcharge", "check",
              "find", "create", "link"}

StepsArePaid == \A c \in Calls : call[c].at \in PaidSteps => Captured

Paid == OrderIsPaid /\ StepsArePaid

\* A charge is captured for ever.
LEMMA CapturedIsStable ==
    ASSUME Typed, [Next]_vars, Captured
    PROVE  Captured'
<1>1. CASE UNCHANGED charge
  BY <1>1 DEF Captured
<1>2. ASSUME NEW p \in Payers, CreateCharge(p) PROVE Captured'
  <2>1. PICK outcome \in Charged(call[p].attempt) :
          charge' = [charge EXCEPT ![call[p].attempt] = outcome]
    BY <1>2 DEF CreateCharge
  <2>2. PICK k \in Attempts : charge[k] = "captured"
    BY DEF Captured
  <2>3. charge'[k] = "captured"
    BY <2>1, <2>2 DEF Typed, Charged
  <2> QED
    BY <2>3 DEF Captured
<1>3. ASSUME NEW k \in Attempts, Authenticate(k) PROVE Captured'
  BY <1>3 DEF Authenticate, Captured, Typed
<1>4. (\E p \in Payers : CreateCharge(p)) \/ (\E k \in Attempts : Authenticate(k))
      \/ UNCHANGED charge
  <2> USE DEF Writes, CallOnly
  <2>1. ASSUME NEW c \in Calls, SharedStep(c) \/ FindOverdue(c)
        PROVE  UNCHANGED charge
    BY <2>1 DEF SharedStep, FindOverdue, MarkExpired, Refuse, CheckIntent,
                FindOrder, CreateOrder, OrderNotCreated
  <2>2. ASSUME NEW p \in Payers, Pay(p) \/ PayerStep(p)
        PROVE  CreateCharge(p) \/ UNCHANGED charge
    BY <2>1, <2>2 DEF Calls, PayerStep, Pay, Reject, Reset, Record, Claim, Begin,
                LoseCharge, Challenge, Verify, Fail, Clear, Note, MarkProcessed
  <2>3. ASSUME NEW r \in Reconcilers,
               Poll(r) \/ Ask(r) \/ AskInVain(r) \/ ReconcilerStep(r)
        PROVE  UNCHANGED charge
    BY <2>1, <2>3 DEF Calls, ReconcilerStep, Poll, Ask, AskInVain,
                ClaimOrderCreation, Quote, Surcharge, MarkCompleted
  <2>4. CASE OpenSession \/ RunOut \/ WindowEnds \/ Crowd \/ Retain \/ Crash
              \/ UNCHANGED vars
    BY <2>4 DEF OpenSession, RunOut, WindowEnds, Crowd, Retain, Crash, vars
  <2> QED
    BY <2>1, <2>2, <2>3, <2>4 DEF Next
<1> QED
  BY <1>1, <1>2, <1>3, <1>4

\* The requests of payers carry the number of an attempt while it is theirs.
Numbered ==
    \A p \in Payers : call[p].at \in PayerSteps => call[p].attempt \in Attempts

LEMMA GoesNumbered ==
    ASSUME Typed, Numbered, NEW p \in Payers, NEW from \in PayerSteps, NEW to \in Steps,
           Goes(p, from, to)
    PROVE  Numbered'
<1>1. p \in Calls /\ call[p].attempt \in Attempts
  BY GoesOn DEF Calls, Typed, Numbered
<1>2. \A d \in Payers \ {p} : call'[d] = call[d]
  BY <1>1, GoesOn DEF Calls, Typed
<1>3. call'[p].at \in PayerSteps => call'[p].attempt \in Attempts
  <2>1. CASE to \in SharedSteps
    <3>1. to \notin PayerSteps
      BY <2>1 DEF SharedSteps, PayerSteps
    <3> QED
      BY <1>1, <3>1, GoesOn DEF Typed
  <2>2. CASE to \notin SharedSteps
    <3>1. call' = [call EXCEPT ![p] = [call[p] EXCEPT !.at = to]]
      BY <2>2 DEF Goes
    <3> QED
      BY <1>1, <3>1 DEF Typed, CallType
  <2> QED
    BY <2>1, <2>2
<1> QED
  BY <1>2, <1>3 DEF Numbered

LEMMA SharedNumbered ==
    ASSUME Typed, Numbered, NEW c \in Calls,
           SharedStep(c) \/ FindOverdue(c) \/ MarkProcessed(c)
    PROVE  Numbered'
<1> USE DEF Steps, SharedSteps
<1>1. \E from, to \in SharedSteps : Goes(c, from, to)
  BY DEF SharedStep, FindOverdue, MarkExpired, Refuse, CheckIntent, FindOrder,
         CreateOrder, OrderNotCreated, MarkProcessed, WithOrder
<1>2. call'[c].at \in SharedSteps /\ \A d \in Calls : d # c => call'[d] = call[d]
  BY <1>1, GoesOn DEF Typed
<1>3. SharedSteps \cap PayerSteps = {}
  BY DEF PayerSteps
<1> QED
  BY <1>2, <1>3 DEF Numbered, Calls

LEMMA NumberedInductive == Typed /\ Numbered /\ [Next]_vars => Numbered'
<1> SUFFICES ASSUME Typed, Numbered, [Next]_vars PROVE Numbered'
  OBVIOUS
<1>1. ASSUME NEW p \in Payers, Pay(p) PROVE Numbered'
  <2>1. p \in Calls /\ \A d \in Calls : d # p => call'[d] = call[d]
    BY <1>1 DEF Pay, Typed, Calls
  <2>2. call'[p].at \in PayerSteps => call'[p].attempt \in Attempts
    <3>1. CASE call' = [call EXCEPT ![p] = IdleCall]
      BY <2>1, <3>1 DEF Typed, IdleCall, PayerSteps
    <3>2. CASE call'[p].attempt = PaymentAttempt(intent)
      <4>1. PaymentAttempt(intent) \in 1 .. MaxAttempts
        BY <1>1, CheckoutAssumption DEF Pay, PaymentAttempt, Typed, Intents
      <4> QED
        BY <3>2, <4>1 DEF Attempts
    <3>3. ASSUME NEW next,
                 call' = [call EXCEPT ![p].at = next,
                                    ![p].attempt = PaymentAttempt(intent)]
          PROVE  call'[p].attempt = PaymentAttempt(intent)
      BY <2>1, <3>3 DEF Typed, CallType
    <3> QED
      BY <1>1, <3>1, <3>2, <3>3 DEF Pay
  <2> QED
    BY <2>1, <2>2 DEF Numbered, Calls
<1>2. ASSUME NEW p \in Payers, PayerStep(p),
             ~SharedStep(p), ~MarkProcessed(p)
      PROVE  Numbered'
  <2>1. \E from \in PayerSteps, to \in Steps : Goes(p, from, to)
    BY <1>2 DEF PayerStep, Reject, Reset, Record, Claim, Begin, CreateCharge,
                LoseCharge, Challenge, Verify, Fail, Clear, Note, Answer,
                Steps, PayerSteps, SharedSteps
  <2> QED
    BY <2>1, GoesNumbered
<1>3. ASSUME NEW r \in Reconcilers,
             Poll(r) \/ Ask(r) \/ AskInVain(r) \/ ReconcilerStep(r), ~SharedStep(r)
      PROVE  Numbered'
  <2>1. \A p \in Payers : call'[p] = call[p]
    BY <1>3, CheckoutAssumption
       DEF Poll, Ask, AskInVain, ReconcilerStep, ClaimOrderCreation, Quote,
           Surcharge, MarkCompleted, Goes, Typed, Calls
  <2> QED
    BY <2>1 DEF Numbered
<1>4. CASE OpenSession \/ RunOut \/ WindowEnds \/ Crowd \/ Retain
           \/ UNCHANGED vars \/ \E k \in Attempts : Authenticate(k)
  BY <1>4 DEF OpenSession, RunOut, WindowEnds, Crowd, Retain, vars, Authenticate,
              Numbered
<1>5. CASE Crash
  BY <1>5 DEF Crash, Numbered, IdleCall, PayerSteps, Calls
<1> QED
  BY <1>1, <1>2, <1>3, <1>4, <1>5, SharedNumbered DEF Next, Calls, PayerStep,
     ReconcilerStep

\* What Paid says of a state without a captured charge.
Unpaid ==
    /\ orders = 0 /\ intent.status # "creating_order"
    /\ \A c \in Calls : call[c].at \notin PaidSteps

LEMMA UnpaidGoes ==
    ASSUME Typed, Unpaid, NEW c \in Calls, NEW from, NEW to \in Steps \ PaidSteps,
           Goes(c, from, to)
    PROVE  /\ \A d \in Calls : call'[d].at \notin PaidSteps
           /\ from \notin PaidSteps
BY GoesOn DEF Typed, Unpaid

\* The statements on the row claim no creation of an order.
LEMMA StatementsClaimNothing ==
    ASSUME NEW i \in Intents, i.status # "creating_order", NEW k \in 0 .. MaxAttempts
    PROVE  /\ Expired(i).status # "creating_order"
           /\ ResetForRetry(i).status # "creating_order"
           /\ Failed(i).status # "creating_order"
           /\ Landed(i, k).status # "creating_order"
BY DEF Intents, Expired, ResetForRetry, Failed, Landed

LEMMA UnpaidShared ==
    ASSUME Typed, Unpaid, NEW c \in Calls, SharedStep(c) \/ FindOverdue(c)
    PROVE  Unpaid'
<1> USE DEF Steps, SharedSteps, PaidSteps
<1>1. call[c].at \notin {"check", "find", "create"}
  BY DEF Unpaid
<1>2. MarkExpired(c) \/ Refuse(c) \/ FindOverdue(c)
  BY <1>1 DEF SharedStep, CheckIntent, FindOrder, CreateOrder, OrderNotCreated, Goes
<1>3. \A d \in Calls : call'[d].at \notin PaidSteps
  BY <1>2, UnpaidGoes DEF MarkExpired, Refuse, FindOverdue
<1>4. intent'.status # "creating_order" /\ orders' = orders
  BY <1>2, StatementsClaimNothing, CheckoutAssumption
     DEF MarkExpired, Refuse, FindOverdue, Writes, CallOnly, Typed, Unpaid
<1> QED
  BY <1>3, <1>4 DEF Unpaid

LEMMA UnpaidPayers ==
    ASSUME Typed, Numbered, Unpaid, ~Captured', NEW p \in Payers,
           Pay(p) \/ PayerStep(p)
    PROVE  Unpaid'
<1> USE DEF Steps, SharedSteps, PayerSteps, PaidSteps
<1>0. /\ p \in Calls /\ call[p].at \notin {"verify", "note", "link"}
      /\ call[p].attempt \in 0 .. MaxAttempts
  BY DEF Calls, Unpaid, Typed, CallType
<1>1. CASE Pay(p)
  <2>1. call'[p].at \in {"idle", "reject", "record", "reset", "claim"}
    BY <1>0, <1>1 DEF Pay, NextStep, IdleCall, Typed, CallType
  <2>2. \A d \in Calls : d # p => call'[d] = call[d]
    BY <1>0, <1>1 DEF Pay, Typed
  <2> QED
    BY <1>1, <2>1, <2>2 DEF Unpaid, Pay, CallOnly
<1>2. CASE CreateCharge(p)
  <2>1. PICK outcome \in Charged(call[p].attempt) :
          /\ charge' = [charge EXCEPT ![call[p].attempt] = outcome]
          /\ \/ Goes(p, "charge", Answer(outcome))
             \/ Goes(p, "charge", "fail")
    BY <1>2 DEF CreateCharge
  <2>2. call[p].attempt \in Attempts
    BY <2>1 DEF Numbered, Goes
  <2>3. outcome # "captured"
    BY <2>1, <2>2 DEF Captured, Typed
  <2>4. Answer(outcome) \in {"challenge", "fail"}
    BY <2>3 DEF Answer
  <2>5. \A d \in Calls : call'[d].at \notin PaidSteps
    BY <1>0, <2>1, <2>4, UnpaidGoes
  <2> QED
    BY <1>2, <2>5 DEF Unpaid, CreateCharge
<1>3. CASE Reject(p) \/ Reset(p) \/ Challenge(p) \/ Fail(p) \/ Clear(p)
  <2>1. \A d \in Calls : call'[d].at \notin PaidSteps
    BY <1>0, <1>3, UnpaidGoes DEF Reject, Reset, Challenge, Fail, Clear
  <2>2. intent'.status # "creating_order" /\ orders' = orders
    BY <1>0, <1>3, StatementsClaimNothing
       DEF Reject, Reset, Challenge, Fail, Clear, Writes, Typed, Unpaid
  <2> QED
    BY <2>1, <2>2 DEF Unpaid
<1>4. CASE Record(p) \/ Claim(p) \/ Begin(p) \/ LoseCharge(p)
  <2>1. \A d \in Calls : call'[d].at \notin PaidSteps
    BY <1>0, <1>4, UnpaidGoes DEF Record, Claim, Begin, LoseCharge
  <2>2. intent'.status # "creating_order" /\ orders' = orders
    BY <1>4 DEF Record, Claim, Begin, LoseCharge, Writes, CallOnly, Typed, Intents,
                AbsentIntent, Unpaid
  <2> QED
    BY <2>1, <2>2 DEF Unpaid
<1>5. CASE SharedStep(p)
  BY <1>0, <1>5, UnpaidShared
<1> QED
  BY <1>0, <1>1, <1>2, <1>3, <1>4, <1>5
     DEF PayerStep, Verify, Note, MarkProcessed, Goes

LEMMA UnpaidReconcilers ==
    ASSUME Typed, Unpaid, ~Captured, NEW r \in Reconcilers,
           Poll(r) \/ Ask(r) \/ AskInVain(r) \/ ReconcilerStep(r)
    PROVE  Unpaid'
<1> USE DEF Steps, SharedSteps, PaidSteps
<1>0. /\ r \in Calls /\ call[r].attempt \in 0 .. MaxAttempts
      /\ call[r].at \notin {"claimOrder", "quote", "surcharge", "link"}
  BY DEF Calls, Unpaid, Typed, CallType
<1>1. CASE Poll(r)
  BY <1>0, <1>1 DEF Poll, CallOnly, IdleCall, Typed, Unpaid
<1>2. CASE Ask(r) \/ AskInVain(r)
  <2>1. ~Succeeded(call[r].attempt)
    BY <1>0 DEF Succeeded, StatusOf, Captured, Attempts
  <2>2. \A d \in Calls : call'[d].at \notin PaidSteps
    BY <1>0, <1>2, <2>1, UnpaidGoes DEF Ask, AskInVain
  <2> QED
    BY <1>2, <2>2 DEF Ask, AskInVain, CallOnly, Unpaid
<1>3. CASE SharedStep(r)
  BY <1>0, <1>3, UnpaidShared
<1> QED
  BY <1>0, <1>1, <1>2, <1>3
     DEF ReconcilerStep, ClaimOrderCreation, Quote, Surcharge, MarkCompleted, Goes

LEMMA PaidInductive == Typed /\ Numbered /\ Paid /\ [Next]_vars => Paid'
<1> SUFFICES ASSUME Typed, Numbered, Paid, [Next]_vars PROVE Paid'
  OBVIOUS
<1>1. CASE Captured'
  BY <1>1 DEF Paid, OrderIsPaid, StepsArePaid
<1>2. CASE ~Captured'
  <2>1. ~Captured
    BY <1>2, CapturedIsStable
  <2>2. Unpaid
    BY <2>1 DEF Paid, OrderIsPaid, StepsArePaid, Unpaid, Typed
  <2>3. ASSUME OpenSession \/ RunOut \/ WindowEnds \/ Crowd \/ Retain
                \/ UNCHANGED vars \/ \E k \in Attempts : Authenticate(k)
        PROVE  Unpaid'
    BY <2>2, <2>3 DEF OpenSession, RunOut, WindowEnds, Crowd, Retain, vars,
                      Authenticate, Writes, AbsentIntent, Typed, Intents, Unpaid
  <2>4. ASSUME Crash PROVE Unpaid'
    BY <2>2, <2>4 DEF Crash, CallOnly, IdleCall, PaidSteps, Unpaid
  <2>5. Unpaid'
    BY <1>2, <2>1, <2>2, <2>3, <2>4, UnpaidShared, UnpaidPayers, UnpaidReconcilers
       DEF Next
  <2> QED
    BY <2>5 DEF Unpaid, Paid, OrderIsPaid, StepsArePaid
<1> QED
  BY <1>1, <1>2

(* However many requests and reconciliations overlap, whatever is lost,    *)
(* refused or crashes: an order is created, and its creation is claimed,   *)
(* only for an intent one of whose charges Clover has captured.            *)
THEOREM CheckoutOrderIsPaid == Spec => []OrderIsPaid
<1>1. Init => Typed /\ Numbered /\ Paid
  <2> SUFFICES ASSUME Init PROVE Typed /\ Numbered /\ Paid
    OBVIOUS
  <2>1. Numbered
    BY DEF Init, Numbered, IdleCall, PayerSteps, Calls
  <2>2. Paid
    BY DEF Init, Paid, OrderIsPaid, StepsArePaid, IdleCall, AbsentIntent, PaidSteps
  <2> QED
    BY <2>1, <2>2, TypeInitially
<1>2. Typed /\ Numbered /\ Paid /\ [Next]_vars => (Typed /\ Numbered /\ Paid)'
  BY TypeInductive, NumberedInductive, PaidInductive
<1>3. Paid => OrderIsPaid
  BY DEF Paid
<1> QED
  BY <1>1, <1>2, <1>3, PTL DEF Spec

-----------------------------------------------------------------------------
(* One order.  A call that links an order to its intent, with or without a *)
(* condition, comes after the order: what the two invariants lack.         *)

LinksAreOrdered == \A c \in Calls : call[c].at = "link" => intent.ordered

\* What UsedIsNotFailed says of an intent whose order exists.
Used(i) == Confirmed(i) \/ i.status = "deleted"

Linked == OneOrder /\ UsedIsNotFailed /\ LinksAreOrdered

\* No statement on the row takes the order from it, or fails it with one.
LEMMA StatementsKeepOrders ==
    ASSUME NEW i \in Intents, NEW k \in 0 .. MaxAttempts,
           i.ordered => Used(i), i.status = "completed" => i.ordered,
           NEW j \in {Expired(i), ResetForRetry(i), Failed(i), Landed(i, k)}
    PROVE  /\ j.ordered = i.ordered
           /\ j.ordered => Used(j)
           /\ j.status = "completed" => j.ordered
BY DEF Intents, Used, Confirmed, Started, Expired, ResetForRetry, Failed, Landed

\* A step that leaves the order of the intent alone, and links none.
LEMMA LinkedStep ==
    ASSUME Typed, Linked, intent'.ordered = intent.ordered, UNCHANGED orders,
           intent'.ordered => Used(intent'),
           intent'.status = "completed" => intent'.ordered,
           \A c \in Calls : call'[c].at = "link" =>
                              call[c].at = "link" \/ intent.ordered
    PROVE  Linked'
BY DEF Linked, OneOrder, UsedIsNotFailed, Used, LinksAreOrdered

LEMMA GoesLinked ==
    ASSUME Typed, NEW c \in Calls, NEW from, NEW to \in Steps, Goes(c, from, to),
           to = "link" => intent.ordered
    PROVE  \A d \in Calls : call'[d].at = "link" =>
                              call[d].at = "link" \/ intent.ordered
BY GoesOn DEF Typed

LEMMA LinkedShared ==
    ASSUME Typed, Linked, NEW c \in Calls, SharedStep(c) \/ FindOverdue(c)
    PROVE  Linked'
<1> USE DEF Steps, SharedSteps
<1>0. /\ intent \in Intents /\ 0 \in 0 .. MaxAttempts
      /\ intent.ordered => Used(intent)
      /\ intent.status = "completed" => intent.ordered
      /\ orders = IF intent.ordered THEN 1 ELSE 0
  BY CheckoutAssumption DEF Typed, Linked, UsedIsNotFailed, Used, OneOrder
<1>1. CASE MarkExpired(c) \/ Refuse(c)
  <2>1. \A d \in Calls : call'[d].at = "link" => call[d].at = "link" \/ intent.ordered
    BY <1>1, GoesLinked DEF MarkExpired, Refuse
  <2>2. intent' \in {Expired(intent), Failed(intent)} /\ UNCHANGED orders
    BY <1>1 DEF MarkExpired, Refuse, Writes
  <2> QED
    BY <1>0, <2>1, <2>2, StatementsKeepOrders, LinkedStep
<1>2. CASE CheckIntent(c) \/ FindOrder(c) \/ OrderNotCreated(c) \/ FindOverdue(c)
  <2>1. \A d \in Calls : call'[d].at = "link" => call[d].at = "link" \/ intent.ordered
    BY <1>0, <1>2, GoesLinked
       DEF CheckIntent, FindOrder, OrderNotCreated, FindOverdue, WithOrder,
           Consumable
  <2> QED
    BY <1>0, <1>2, <2>1, LinkedStep
       DEF CheckIntent, FindOrder, OrderNotCreated, FindOverdue, CallOnly
<1>3. CASE CreateOrder(c)
  <2>1. /\ intent' = [intent EXCEPT !.ordered = TRUE] /\ orders' = orders + 1
        /\ Confirmed(intent) /\ ~intent.ordered
    BY <1>3 DEF CreateOrder, Consumable
  <2>2. intent'.ordered = TRUE /\ intent'.status = intent.status
    BY <1>0, <2>1 DEF Intents
  <2> QED
    BY <1>0, <2>1, <2>2
       DEF Linked, OneOrder, UsedIsNotFailed, LinksAreOrdered, Used, Confirmed, Started
<1> QED
  BY <1>1, <1>2, <1>3 DEF SharedStep

LEMMA LinkedPayers ==
    ASSUME Typed, Linked, NEW p \in Payers, Pay(p) \/ PayerStep(p)
    PROVE  Linked'
<1> USE DEF Steps, SharedSteps, PayerSteps
<1>0. /\ p \in Calls /\ intent \in Intents /\ call[p].attempt \in 0 .. MaxAttempts
      /\ 0 \in 0 .. MaxAttempts
      /\ intent.ordered => Used(intent)
      /\ intent.status = "completed" => intent.ordered
  BY CheckoutAssumption DEF Calls, Typed, CallType, Linked, UsedIsNotFailed, Used
<1>1. CASE Pay(p)
  <2>1. call'[p].at # "link" /\ \A d \in Calls : d # p => call'[d] = call[d]
    BY <1>0, <1>1 DEF Pay, NextStep, IdleCall, Typed, CallType
  <2> QED
    BY <1>0, <1>1, <2>1, LinkedStep DEF Pay, CallOnly
<1>2. CASE CreateCharge(p)
  <2>1. \E to \in {"verify", "challenge", "fail"} : Goes(p, "charge", to)
    BY <1>2 DEF CreateCharge, Answer
  <2>2. \A d \in Calls : call'[d].at = "link" => call[d].at = "link" \/ intent.ordered
    BY <1>0, <2>1, GoesLinked
  <2> QED
    BY <1>0, <1>2, <2>2, LinkedStep DEF CreateCharge
<1>3. CASE Reject(p) \/ Reset(p) \/ Challenge(p) \/ Fail(p) \/ Clear(p) \/ Note(p)
  <2>1. \A d \in Calls : call'[d].at = "link" => call[d].at = "link" \/ intent.ordered
    BY <1>0, <1>3, GoesLinked DEF Reject, Reset, Challenge, Fail, Clear, Note
  <2>2. /\ intent' \in {Expired(intent), ResetForRetry(intent), Failed(intent),
                        Landed(intent, call[p].attempt)}
        /\ UNCHANGED orders
    BY <1>3 DEF Reject, Reset, Challenge, Fail, Clear, Note, Writes
  <2> QED
    BY <1>0, <2>1, <2>2, StatementsKeepOrders, LinkedStep
<1>4. CASE Record(p) \/ Claim(p) \/ Begin(p) \/ LoseCharge(p) \/ Verify(p)
  <2>1. \A d \in Calls : call'[d].at = "link" => call[d].at = "link" \/ intent.ordered
    BY <1>0, <1>4, GoesLinked DEF Record, Claim, Begin, LoseCharge, Verify
  <2>2. /\ intent'.ordered = intent.ordered /\ UNCHANGED orders
        /\ intent'.ordered => Used(intent')
        /\ intent'.status = "completed" => intent'.ordered
    <3>1. CASE UNCHANGED intent /\ UNCHANGED orders
      BY <1>0, <3>1 DEF Used, Confirmed, Started
    <3>2. CASE Record(p) /\ ~Exists
      BY <1>0, <3>2 DEF Record, Exists, Writes, AbsentIntent, Used, Confirmed, Started, Intents
    <3>3. CASE Claim(p) /\ Claimable(intent)
      BY <1>0, <3>3 DEF Claim, Claimable, Writes, Intents
    <3>4. CASE Begin(p)
      BY <1>0, <3>4 DEF Begin, Writes, Intents, Used, Confirmed, Started
    <3> QED
      BY <1>4, <3>1, <3>2, <3>3, <3>4
         DEF Record, Claim, LoseCharge, Verify, CallOnly
  <2> QED
    BY <2>1, <2>2, LinkedStep
<1>5. CASE MarkProcessed(p)
  <2>1. \A d \in Calls : call'[d].at = "link" => call[d].at = "link" \/ intent.ordered
    BY <1>0, <1>5, GoesLinked DEF MarkProcessed
  <2>2. intent.ordered = TRUE
    BY <1>0, <1>5 DEF MarkProcessed, Goes, Linked, LinksAreOrdered, Intents
  <2>3. intent'.ordered = TRUE /\ intent'.status = "completed" /\ UNCHANGED orders
    BY <1>0, <1>5 DEF MarkProcessed, Writes, Intents
  <2> QED
    BY <2>1, <2>2, <2>3, LinkedStep DEF Used, Confirmed
<1>6. CASE SharedStep(p)
  BY <1>0, <1>6, LinkedShared
<1> QED
  BY <1>1, <1>2, <1>3, <1>4, <1>5, <1>6 DEF PayerStep

LEMMA LinkedReconcilers ==
    ASSUME Typed, Linked, NEW r \in Reconcilers,
           Poll(r) \/ Ask(r) \/ AskInVain(r) \/ ReconcilerStep(r)
    PROVE  Linked'
<1> USE DEF Steps, SharedSteps, ReconcilerSteps
<1>0. /\ r \in Calls /\ intent \in Intents /\ call[r].attempt \in 0 .. MaxAttempts
      /\ intent.ordered => Used(intent)
      /\ intent.status = "completed" => intent.ordered
  BY DEF Calls, Typed, CallType, Linked, UsedIsNotFailed, Used
<1>1. CASE Poll(r)
  <2>1. call'[r].at # "link" /\ \A d \in Calls : d # r => call'[d] = call[d]
    BY <1>0, <1>1 DEF Poll, IdleCall, Typed, CallType
  <2> QED
    BY <1>0, <1>1, <2>1, LinkedStep DEF Poll, CallOnly
<1>2. CASE Ask(r) \/ AskInVain(r) \/ Quote(r)
  <2>1. \A d \in Calls : call'[d].at = "link" => call[d].at = "link" \/ intent.ordered
    BY <1>0, <1>2, GoesLinked DEF Ask, AskInVain, Quote
  <2> QED
    BY <1>0, <1>2, <2>1, LinkedStep DEF Ask, AskInVain, Quote, CallOnly
<1>3. CASE ClaimOrderCreation(r)
  <2>1. \A d \in Calls : call'[d].at = "link" => call[d].at = "link" \/ intent.ordered
    BY <1>0, <1>3, GoesLinked DEF ClaimOrderCreation
  <2> QED
    BY <1>0, <1>3, <2>1, LinkedStep
       DEF ClaimOrderCreation, Writes, CallOnly, Intents
<1>4. CASE Surcharge(r)
  <2>1. \A d \in Calls : call'[d].at = "link" => call[d].at = "link" \/ intent.ordered
    BY <1>0, <1>4, GoesLinked DEF Surcharge
  <2>2. CallOnly \/ Writes(Landed(intent, call[r].attempt))
    BY <1>4 DEF Surcharge
  <2> QED
    BY <1>0, <2>1, <2>2, StatementsKeepOrders, LinkedStep DEF CallOnly, Writes
<1>5. CASE MarkCompleted(r)
  <2>1. \A d \in Calls : call'[d].at = "link" => call[d].at = "link" \/ intent.ordered
    BY <1>0, <1>5, GoesLinked DEF MarkCompleted
  <2>2. intent.ordered = TRUE
    BY <1>0, <1>5 DEF MarkCompleted, Goes, Linked, LinksAreOrdered, Intents
  <2>3. intent'.ordered = TRUE /\ Used(intent') /\ UNCHANGED orders
    BY <1>0, <1>5, <2>2
       DEF MarkCompleted, Writes, Completed, Used, Confirmed, Intents
  <2> QED
    BY <2>1, <2>2, <2>3, LinkedStep
<1>6. CASE SharedStep(r)
  BY <1>0, <1>6, LinkedShared
<1> QED
  BY <1>1, <1>2, <1>3, <1>4, <1>5, <1>6 DEF ReconcilerStep

LEMMA LinkedInductive == Typed /\ Linked /\ [Next]_vars => Linked'
<1> SUFFICES ASSUME Typed, Linked, [Next]_vars PROVE Linked'
  OBVIOUS
<1>0. /\ intent \in Intents
      /\ intent.ordered => Used(intent)
      /\ intent.status = "completed" => intent.ordered
  BY DEF Typed, Linked, UsedIsNotFailed, Used
<1>1. CASE OpenSession
  BY <1>0, <1>1, LinkedStep
     DEF OpenSession, Exists, Writes, AbsentIntent, Used, Confirmed, Started, Intents
<1>2. CASE RunOut \/ WindowEnds
  <2>1. intent'.ordered = intent.ordered /\ intent'.status = intent.status
    BY <1>0, <1>2 DEF RunOut, WindowEnds, Writes, Intents
  <2> QED
    BY <1>0, <1>2, <2>1, LinkedStep
       DEF RunOut, WindowEnds, Writes, Used, Confirmed, Started
<1>6. CASE Crowd
  BY <1>0, <1>6, LinkedStep DEF Crowd
<1>7. CASE Retain
  <2>1. intent'.ordered = intent.ordered /\ intent'.status = "deleted"
    BY <1>0, <1>7 DEF Retain, Writes, AbsentIntent
  <2> QED
    BY <1>0, <1>7, <2>1, LinkedStep DEF Retain, Writes, Used
<1>3. ASSUME NEW k \in Attempts, Authenticate(k) PROVE Linked'
  BY <1>0, <1>3, LinkedStep DEF Authenticate
<1>4. CASE Crash
  <2>1. \A c \in Calls : call'[c].at # "link"
    BY <1>4 DEF Crash, IdleCall
  <2> QED
    BY <1>0, <1>4, <2>1, LinkedStep DEF Crash, CallOnly
<1>5. CASE UNCHANGED vars
  BY <1>0, <1>5, LinkedStep DEF vars
<1> QED
  BY <1>1, <1>2, <1>3, <1>4, <1>5, <1>6, <1>7, LinkedShared, LinkedPayers,
     LinkedReconcilers DEF Next

LEMMA LinkedInitially == Init => Linked
BY DEF Init, AbsentIntent, IdleCall, Linked, OneOrder, UsedIsNotFailed,
       LinksAreOrdered, Used, Confirmed, Started

(* The intent is consumed by one order, however many requests and          *)
(* reconciliations of it overlap.                                          *)
THEOREM CheckoutOneOrder == Spec => []OneOrder
<1>1. Init => Typed /\ Linked
  BY TypeInitially, LinkedInitially
<1>2. Typed /\ Linked /\ [Next]_vars => (Typed /\ Linked)'
  BY TypeInductive, LinkedInductive
<1>3. Linked => OneOrder
  BY DEF Linked
<1> QED
  BY <1>1, <1>2, <1>3, PTL DEF Spec

(* An intent whose order exists is not failed, expired or opened for       *)
(* another payment while its row is kept, and one reported completed has   *)
(* its order.                                                              *)
THEOREM CheckoutUsedIsNotFailed == Spec => []UsedIsNotFailed
<1>1. Init => Typed /\ Linked
  BY TypeInitially, LinkedInitially
<1>2. Typed /\ Linked /\ [Next]_vars => (Typed /\ Linked)'
  BY TypeInductive, LinkedInductive
<1>3. Linked => UsedIsNotFailed
  BY DEF Linked
<1> QED
  BY <1>1, <1>2, <1>3, PTL DEF Spec
=============================================================================
