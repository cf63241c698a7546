----------------------- MODULE UberWebhookInboxProofs -----------------------
(* Proofs about the webhook inbox, for any events, lanes and bounds.        *)
EXTENDS UberWebhookInbox, TLAPS

\* The rows the inbox writes: a dead letter,
LEMMA DeadLetterIsRow ==
    ASSUME NEW r \in Rows, NEW code \in Codes PROVE DeadLetter(r, code) \in Rows
  BY DEF Rows, DeadLetter, Statuses, NoToken

\* The values the actions assign to the enumerated fields.
LEMMA Names ==
    /\ "PENDING" \in Statuses /\ "PROCESSING" \in Statuses
    /\ "FAILED" \in Statuses /\ "PROCESSED" \in Statuses
    /\ "none" \in Codes /\ "unsupported" \in Codes /\ "retryable" \in Codes
    /\ "permanent" \in Codes /\ "exhausted" \in Codes
    /\ "handled" \in Steps /\ "failing" \in Steps
    /\ "counted" \in Steps /\ "claimed" \in Steps
    /\ NoToken \in Nat
  BY DEF Statuses, Codes, Steps, NoToken

\* a row that does not exist, and the lane at rest,
LEMMA ConstantRows == AbsentRow \in Rows /\ IdleLane \in LaneStates
  BY InboxAssumption DEF AbsentRow, IdleLane, Rows, LaneStates, Statuses, Codes,
     Steps, NoToken

\* The rows an insert, a claim and a replay write.
LEMMA InsertedIsRow ==
    ASSUME NEW r \in Rows, NEW n \in Nat
    PROVE  /\ [r EXCEPT !.createdAt = n] \in Rows
           /\ [r EXCEPT !.status = "PENDING", !.due = TRUE] \in Rows
  BY Names DEF Rows

\* a claimed row,
LEMMA ClaimedIsRow ==
    ASSUME NEW r \in Rows, NEW t \in Nat, NEW n \in 0..MaxAttempts
    PROVE  [r EXCEPT !.status = "PROCESSING", !.token = t, !.expired = FALSE,
                     !.attempts = n] \in Rows
  BY Names DEF Rows

\* a replayed row,
LEMMA ReopenedIsRow ==
    ASSUME NEW r \in Rows
    PROVE  [r EXCEPT !.status = "PENDING", !.attempts = 0, !.token = NoToken,
                     !.expired = FALSE, !.due = TRUE, !.code = "none"] \in Rows
<1>1. 0 \in 0..MaxAttempts
  BY InboxAssumption
<1>2. QED
  BY <1>1, Names DEF Rows

\* and a lane that claimed a row.
LEMMA ClaimedIsLane ==
    ASSUME NEW e \in Events, NEW t \in Nat
    PROVE  [IdleLane EXCEPT !.step = "claimed", !.event = e, !.token = t]
             \in LaneStates
  BY Names, ConstantRows DEF LaneStates

\* TypeOK is an invariant: every column and every lane stays in its range,
\* in particular no row is ever claimed more than MaxAttempts times.
THEOREM TypeCorrect == Spec => []TypeOK
<1>1. Init => TypeOK
  BY ConstantRows, InboxAssumption DEF Init, TypeOK
<1>2. TypeOK /\ [Next]_vars => TypeOK'
  <2> SUFFICES ASSUME TypeOK, [Next]_vars PROVE TypeOK'
    OBVIOUS
  <2> USE Names, ConstantRows DEF TypeOK
  <2>0. Sweep \in [Events -> Rows]
    BY DeadLetterIsRow DEF Sweep
  <2>1. ASSUME NEW e \in Events, Receive(e) \/ Enqueue(e) PROVE TypeOK'
    <3>1. row' \in [Events -> Rows]
      <4>1. arrivals + 1 \in Nat /\ row[e] \in Rows
        OBVIOUS
      <4>2. QED
        BY <2>1, <4>1, InsertedIsRow DEF Receive, Enqueue
    <3>2. overtaken' \in [Events -> SUBSET Nat]
      <4>1. \A d \in Events : row[d].token \in Nat
        BY DEF Rows
      <4>2. QED
        BY <2>1, <4>1 DEF Receive, Enqueue
    <3>3. QED
      BY <2>1, <3>1, <3>2 DEF Receive, Enqueue
  <2>2. ASSUME NEW e \in Events, LeaseTimeout(e) PROVE TypeOK'
    BY <2>2 DEF LeaseTimeout, Rows
  <2>3. ASSUME NEW e \in Events, BackoffElapsed(e) PROVE TypeOK'
    BY <2>3 DEF BackoffElapsed, Rows
  <2>4. ASSUME NEW l \in Lanes, NEW e \in Events, Claim(l, e) PROVE TypeOK'
    <3>1. row[e].attempts + 1 \in 0..MaxAttempts
      BY <2>4, InboxAssumption DEF Claim, Claimable, Rows
    <3>2. issued + 1 \in Nat /\ row[e] \in Rows
      OBVIOUS
    <3>3. row' \in [Events -> Rows]
      <4>1. [row[e] EXCEPT !.status = "PROCESSING", !.token = issued + 1,
               !.expired = FALSE, !.attempts = row[e].attempts + 1] \in Rows
        BY <3>1, <3>2, ClaimedIsRow
      <4>2. QED
        BY <2>0, <2>4, <4>1 DEF Claim
    <3>4. lane' \in [Lanes -> LaneStates]
      BY <2>4, <3>2, ClaimedIsLane DEF Claim
    <3>5. QED
      BY <2>4, <3>2, <3>3, <3>4 DEF Claim
  <2>5. ASSUME NEW l \in Lanes, ClaimNothing(l) PROVE TypeOK'
    BY <2>0, <2>5 DEF ClaimNothing
  <2>6. ASSUME NEW l \in Lanes, NEW e \in Events, Handle(l, e) PROVE TypeOK'
    BY <2>6 DEF Handle, LaneStates
  <2>7. ASSUME NEW l \in Lanes, NEW e \in Events,
               NEW retryable \in BOOLEAN, Fail(l, e, retryable)
        PROVE TypeOK'
    BY <2>7 DEF Fail, LaneStates
  <2>8. ASSUME NEW l \in Lanes, NEW e \in Events, MarkSucceeded(l, e)
        PROVE TypeOK'
    BY <2>8 DEF MarkSucceeded, Rows
  <2>9. ASSUME NEW l \in Lanes, NEW e \in Events, MarkUnsupported(l, e)
        PROVE TypeOK'
    <3>1. lane' \in [Lanes -> LaneStates]
      BY <2>9 DEF MarkUnsupported, LaneStates
    <3>2. QED
      BY <2>9, <3>1, DeadLetterIsRow DEF MarkUnsupported
  <2>10. ASSUME NEW l \in Lanes, NEW e \in Events, CountAttempts(l, e)
         PROVE TypeOK'
    BY <2>10 DEF CountAttempts, LaneStates, Rows
  <2>11. ASSUME NEW l \in Lanes, NEW e \in Events, MarkFailed(l, e)
         PROVE TypeOK'
    <3>1. [row[e] EXCEPT !.status = "FAILED", !.token = NoToken,
              !.expired = FALSE, !.due = FALSE, !.code = "retryable"] \in Rows
      BY DEF Rows
    <3>2. DeadLetter(row[e], IF lane[l].retryable THEN "retryable"
                                                 ELSE "permanent") \in Rows
      BY DeadLetterIsRow
    <3>3. row' \in [Events -> Rows]
      BY <2>11, <3>1, <3>2 DEF MarkFailed
    <3>4. QED
      BY <2>11, <3>3 DEF MarkFailed
  <2>12. ASSUME NEW l \in Lanes, Crash(l) PROVE TypeOK'
    BY <2>12 DEF Crash
  <2>13. CASE Deploy
    BY <2>13 DEF Deploy
  <2>14. ASSUME NEW selected \in SUBSET Events, Replay(selected) PROVE TypeOK'
    <3>1. row' \in [Events -> Rows]
      BY <2>14, ReopenedIsRow DEF Replay
    <3>2. replays' \in [Events -> 0..MaxReplays]
      <4>1. ASSUME NEW e \in Events, e \in Requeued(selected)
            PROVE  replays[e] + 1 \in 0..MaxReplays
        <5>1. replays[e] < MaxReplays
          BY <2>14, <4>1 DEF Replay
        <5>2. replays[e] \in 0..MaxReplays
          OBVIOUS
        <5>3. QED
          BY <5>1, <5>2, InboxAssumption
      <4>2. QED
        BY <2>14, <4>1 DEF Replay
    <3>3. QED
      BY <2>14, <3>1, <3>2 DEF Replay
  <2>15. CASE UNCHANGED vars
    BY <2>15 DEF vars
  <2>16. QED
    BY <2>1, <2>2, <2>3, <2>4, <2>5, <2>6, <2>7, <2>8, <2>9, <2>10, <2>11,
       <2>12, <2>13, <2>14, <2>15 DEF Next, LaneStep
<1>3. QED
  BY <1>1, <1>2, PTL DEF Spec

-----------------------------------------------------------------------------

\* A token is held by one lane at a time.
LEMMA LeasesInvariant == Spec => []Leases
<1>1. Init => Leases
  BY InboxAssumption DEF Init, Leases, IdleLane
<1>2. TypeOK /\ Leases /\ [Next]_vars => Leases'
  <2> SUFFICES ASSUME TypeOK, Leases, [Next]_vars PROVE Leases'
    OBVIOUS
  <2> USE InboxAssumption DEF TypeOK, Leases
  <2>1. ASSUME UNCHANGED <<lane, issued>> PROVE Leases'
    BY <2>1
  <2>2. ASSUME NEW l \in Lanes, NEW e \in Events, Claim(l, e) PROVE Leases'
    <3>1. /\ issued' = issued + 1
          /\ \A m \in Lanes \ {l} : lane'[m] = lane[m]
          /\ lane'[l].token = issued + 1
      BY <2>2 DEF Claim, IdleLane
    <3>2. QED
      BY <3>1
  <2>3. ASSUME NEW l \in Lanes, issued' = issued,
               \A m \in Lanes \ {l} : lane'[m] = lane[m],
               \/ lane'[l].event = lane[l].event /\ lane'[l].token = lane[l].token
               \/ lane'[l].event = NoEvent
        PROVE  Leases'
    BY <2>3
  <2>4. ASSUME NEW l \in Lanes, NEW e \in Events, LaneStep(l, e) PROVE Leases'
    <3>1. issued' = issued /\ \A m \in Lanes \ {l} : lane'[m] = lane[m]
      BY <2>4 DEF LaneStep, Handle, Fail, MarkSucceeded, MarkUnsupported,
                  CountAttempts, MarkFailed
    <3>2. \/ lane'[l].event = lane[l].event /\ lane'[l].token = lane[l].token
          \/ lane'[l].event = NoEvent
      BY <2>4 DEF LaneStep, Handle, Fail, MarkSucceeded, MarkUnsupported,
                  CountAttempts, MarkFailed, IdleLane, LaneStates
    <3>3. QED
      BY <2>3, <3>1, <3>2
  <2>5. ASSUME NEW l \in Lanes, Crash(l) PROVE Leases'
    BY <2>3, <2>5 DEF Crash, IdleLane
  <2>6. CASE Deploy
    BY <2>6 DEF Deploy, IdleLane
  <2>7. QED
    BY <2>1, <2>2, <2>4, <2>5, <2>6
       DEF Next, Receive, Enqueue, LeaseTimeout, BackoffElapsed, ClaimNothing,
           Replay, vars
<1>3. QED
  BY <1>1, <1>2, TypeCorrect, PTL DEF Spec

\* However leases time out and rows are claimed again, at most one lane can
\* settle a row: OneHolder holds for any number of lanes, events and attempts.
THEOREM LeaseExclusive == Spec => []OneHolder
<1>1. Leases => OneHolder
  BY DEF Leases, OneHolder, Holds, Works, Fenced
<1>2. QED
  BY <1>1, LeasesInvariant, PTL

-----------------------------------------------------------------------------

\* The three outcomes of markFailed for the row it names.
LEMMA FailedRow ==
    ASSUME TypeOK, NEW l \in Lanes, NEW e \in Events, MarkFailed(l, e)
    PROVE  /\ \A d \in Events \ {e} : row'[d] = row[d]
           /\ \/ ~Fenced(l, e) /\ row'[e] = row[e]
              \/ /\ Fenced(l, e) /\ Dead(l) /\ lane[l].retryable
                 /\ row'[e] = DeadLetter(row[e], "retryable")
              \/ /\ Fenced(l, e) /\ Dead(l) /\ ~lane[l].retryable
                 /\ row'[e] = DeadLetter(row[e], "permanent")
              \/ /\ Fenced(l, e) /\ ~Dead(l)
                 /\ row'[e] = [row[e] EXCEPT !.status = "FAILED",
                        !.token = NoToken, !.expired = FALSE,
                        !.due = FALSE, !.code = "retryable"]
<1>1. CASE ~Fenced(l, e)
  BY <1>1 DEF MarkFailed
<1>2. CASE Fenced(l, e) /\ Dead(l)
  <2>1. row' = [row EXCEPT ![e] = DeadLetter(row[e],
                  IF lane[l].retryable THEN "retryable" ELSE "permanent")]
    BY <1>2 DEF MarkFailed
  <2>2. lane[l].retryable \in BOOLEAN
    BY DEF TypeOK, LaneStates
  <2>3. QED
    BY <1>2, <2>1, <2>2 DEF TypeOK
<1>3. CASE Fenced(l, e) /\ ~Dead(l)
  <2>1. row' = [row EXCEPT ![e] = [row[e] EXCEPT !.status = "FAILED",
                  !.token = NoToken, !.expired = FALSE,
                  !.due = FALSE, !.code = "retryable"]]
    BY <1>3 DEF MarkFailed
  <2>2. QED
    BY <1>3, <2>1 DEF TypeOK
<1>4. QED
  BY <1>1, <1>2, <1>3

\* What any step does to a row that exists: its place in the queue is kept, a
\* settled row is reopened by a replay only, and new rows are there once their
\* insert is committed.
LEMMA RowSteps ==
    ASSUME TypeOK, Created, [Next]_vars
    PROVE  /\ Created'
           /\ \A e \in Events :
                 /\ row[e].status # "ABSENT" =>
                       /\ row'[e].status # "ABSENT"
                       /\ row'[e].createdAt = row[e].createdAt
                       /\ overtaken'[e] = overtaken[e]
                 /\ row[e].status = "ABSENT" /\ row'[e].status # "ABSENT" =>
                       Enqueue(e) /\ row'[e].status = "PENDING"
                 /\ Settled(e) => Settled(e)' \/ replays'[e] > 0
                 /\ replays[e] > 0 => replays'[e] > 0
<1> USE DEF TypeOK, Created
<1> DEFINE Good(e) ==
             /\ row'[e].createdAt <= arrivals'
             /\ row[e].status # "ABSENT" =>
                   /\ row'[e].status # "ABSENT"
                   /\ row'[e].createdAt = row[e].createdAt
                   /\ overtaken'[e] = overtaken[e]
             /\ row[e].status = "ABSENT" /\ row'[e].status # "ABSENT" =>
                   Enqueue(e) /\ row'[e].status = "PENDING"
             /\ Settled(e) => Settled(e)' \/ replays'[e] > 0
             /\ replays[e] > 0 => replays'[e] > 0
<1>1. ASSUME NEW e \in Events PROVE Good(e)
  <2> USE DEF Settled, Rows
  <2>0. ASSUME UNCHANGED <<row, replays, overtaken>>, arrivals' = arrivals
        PROVE  Good(e)
    BY <2>0
  <2>1. ASSUME NEW d \in Events, Receive(d) \/ Enqueue(d) PROVE Good(e)
    <3>1. CASE Receive(d) /\ d = e
      <4>1. row[e].status = "ABSENT" /\ UNCHANGED replays /\ arrivals' = arrivals + 1
        BY <3>1 DEF Receive, AbsentRow
      <4>2. row'[e].status = row[e].status /\ row'[e].createdAt = arrivals + 1
        BY <3>1 DEF Receive
      <4>3. QED
        BY <4>1, <4>2
    <3>2. CASE Enqueue(d) /\ d = e
      <4>1. row[e].status = "ABSENT" /\ UNCHANGED <<replays, arrivals>>
        BY <3>2 DEF Enqueue
      <4>2. row'[e].status = "PENDING" /\ row'[e].createdAt = row[e].createdAt
        BY <3>2 DEF Enqueue
      <4>3. QED
        BY <3>2, <4>1, <4>2
    <3>3. CASE d # e
      <4>1. row'[e] = row[e] /\ overtaken'[e] = overtaken[e]
        BY <2>1, <3>3 DEF Receive, Enqueue
      <4>2. UNCHANGED replays /\ (arrivals' = arrivals \/ arrivals' = arrivals + 1)
        BY <2>1 DEF Receive, Enqueue
      <4>3. QED
        BY <4>1, <4>2
    <3>4. QED
      BY <2>1, <3>1, <3>2, <3>3
  <2>2. ASSUME NEW d \in Events, LeaseTimeout(d) \/ BackoffElapsed(d)
        PROVE  Good(e)
    BY <2>2 DEF LeaseTimeout, BackoffElapsed
  <2>3. /\ Sweep[e].createdAt = row[e].createdAt
        /\ row[e].status # "ABSENT" => Sweep[e].status # "ABSENT"
        /\ row[e].status = "ABSENT" => Sweep[e] = row[e]
        /\ Settled(e) => Sweep[e] = row[e]
    BY DEF Sweep, DeadLetter, Exhausted, LeaseOver
  <2>4. ASSUME NEW l \in Lanes, NEW d \in Events, Claim(l, d) PROVE Good(e)
    <3>1. row[d].status # "ABSENT" /\ ~Settled(d)
      BY <2>4 DEF Claim, Claimable, LeaseOver
    <3>2. UNCHANGED <<arrivals, replays, overtaken>>
      BY <2>4 DEF Claim
    <3>3. CASE d = e
      <4>1. row'[e].createdAt = row[e].createdAt /\ row'[e].status = "PROCESSING"
        BY <2>4, <3>3 DEF Claim, Sweep
      <4>2. QED
        BY <3>1, <3>2, <3>3, <4>1
    <3>4. CASE d # e
      <4>1. row'[e] = Sweep[e]
        BY <2>4, <3>4 DEF Claim, Sweep
      <4>2. QED
        BY <2>3, <3>2, <4>1
    <3>5. QED
      BY <3>3, <3>4
  <2>5. ASSUME NEW l \in Lanes, ClaimNothing(l) PROVE Good(e)
    BY <2>3, <2>5 DEF ClaimNothing
  <2>6. ASSUME NEW l \in Lanes, NEW d \in Events, MarkSucceeded(l, d)
        PROVE Good(e)
    BY <2>6 DEF MarkSucceeded, Fenced
  <2>7. ASSUME NEW l \in Lanes, NEW d \in Events, MarkUnsupported(l, d)
        PROVE Good(e)
    BY <2>7 DEF MarkUnsupported, Fenced, DeadLetter
  <2>8. ASSUME NEW l \in Lanes, NEW d \in Events, MarkFailed(l, d)
        PROVE Good(e)
    <3>1. UNCHANGED <<arrivals, replays, overtaken>>
      BY <2>8 DEF MarkFailed
    <3>2. CASE row'[e] = row[e]
      BY <3>1, <3>2
    <3>3. CASE d = e /\ row'[e] # row[e]
      <4>1. row[e].status = "PROCESSING"
        BY <2>8, <3>3, FailedRow DEF Fenced
      <4>2. row'[e].createdAt = row[e].createdAt
            /\ row'[e].status \in {"FAILED", "DEAD"}
        <5>1. \/ row'[e] = DeadLetter(row[e], "retryable")
              \/ row'[e] = DeadLetter(row[e], "permanent")
              \/ row'[e] = [row[e] EXCEPT !.status = "FAILED",
                    !.token = NoToken, !.expired = FALSE,
                    !.due = FALSE, !.code = "retryable"]
          BY <2>8, <3>3, FailedRow
        <5>2. row[e] \in Rows
          OBVIOUS
        <5>3. QED
          BY <5>1, <5>2 DEF DeadLetter
      <4>3. QED
        BY <3>1, <4>1, <4>2
    <3>4. QED
      BY <2>8, <3>2, <3>3, FailedRow
  <2>9. ASSUME NEW selected \in SUBSET Events, Replay(selected) PROVE Good(e)
    <3>1. CASE e \in Requeued(selected)
      <4>1. row'[e].status = "PENDING" /\ row'[e].createdAt = row[e].createdAt
        <5>1. row'[e] = [row[e] EXCEPT !.status = "PENDING", !.attempts = 0,
                            !.token = NoToken, !.expired = FALSE,
                            !.due = TRUE, !.code = "none"]
          BY <2>9, <3>1 DEF Replay
        <5>2. row[e] \in Rows
          OBVIOUS
        <5>3. QED
          BY <5>1, <5>2
      <4>2. replays'[e] = replays[e] + 1 /\ row[e].status = "DEAD"
        BY <2>9, <3>1 DEF Replay, Requeued
      <4>3. arrivals' = arrivals /\ overtaken' = overtaken
        BY <2>9 DEF Replay
      <4>4. replays[e] \in 0..MaxReplays
        OBVIOUS
      <4>5. replays[e] + 1 > 0
        BY <4>4, InboxAssumption
      <4>6. QED
        BY <4>1, <4>2, <4>3, <4>5
    <3>2. CASE e \notin Requeued(selected)
      <4>1. /\ row'[e] = row[e] /\ replays'[e] = replays[e]
            /\ arrivals' = arrivals /\ overtaken' = overtaken
        BY <2>9, <3>2 DEF Replay
      <4>2. QED
        BY <4>1
    <3>3. QED
      BY <3>1, <3>2
  <2>10. QED
    BY <2>0, <2>1, <2>2, <2>4, <2>5, <2>6, <2>7, <2>8, <2>9
       DEF Next, LaneStep, Handle, Fail, CountAttempts, Crash, Deploy, vars
<1>2. QED
  BY <1>1

\* No row has a createdAt from the future.
LEMMA CreatedInvariant == Spec => []Created
<1>1. Init => Created
  BY DEF Init, Created, AbsentRow
<1>2. TypeOK /\ Created /\ [Next]_vars => Created'
  BY RowSteps
<1>3. QED
  BY <1>1, <1>2, TypeCorrect, PTL DEF Spec

\* A row is brought into, or kept in, PROCESSING by a claim or by nothing.
LEMMA ProcessingSteps ==
    ASSUME TypeOK, [Next]_vars, NEW e \in Events, row'[e].status = "PROCESSING"
    PROVE  \/ \E l \in Lanes : Claim(l, e)
           \/ /\ row[e].status = "PROCESSING"
              /\ row'[e].token = row[e].token
              /\ row'[e].attempts = row[e].attempts
<1> DEFINE Kept == /\ row[e].status = "PROCESSING"
                   /\ row'[e].token = row[e].token
                   /\ row'[e].attempts = row[e].attempts
<1> USE DEF TypeOK
<1>0. row[e] \in Rows
  OBVIOUS
<1>1. ASSUME row' = row PROVE Kept
  BY <1>1
<1>2. ASSUME NEW d \in Events, Receive(d) \/ Enqueue(d) PROVE Kept
  <2>1. CASE d = e
    BY <1>0, <1>2, <2>1 DEF Receive, Enqueue, AbsentRow, Rows
  <2>2. CASE d # e
    BY <1>2, <2>2 DEF Receive, Enqueue
  <2>3. QED
    BY <2>1, <2>2
<1>3. ASSUME NEW d \in Events, LeaseTimeout(d) \/ BackoffElapsed(d) PROVE Kept
  BY <1>0, <1>3 DEF LeaseTimeout, BackoffElapsed, Rows
<1>4. ASSUME row'[e] = Sweep[e] PROVE Kept
  <2>1. CASE Exhausted(e)
    <3>1. row'[e] = DeadLetter(row[e], "exhausted")
      BY <1>4, <2>1 DEF Sweep
    <3>2. QED
      BY <1>0, <3>1 DEF DeadLetter, Rows
  <2>2. CASE ~Exhausted(e)
    <3>1. row'[e] = row[e]
      BY <1>4, <2>2 DEF Sweep
    <3>2. QED
      BY <3>1
  <2>3. QED
    BY <2>1, <2>2
<1>5. ASSUME NEW l \in Lanes, NEW d \in Events, Claim(l, d)
      PROVE  Kept \/ \E m \in Lanes : Claim(m, e)
  <2>1. CASE d = e
    BY <1>5, <2>1
  <2>2. CASE d # e
    <3>1. row'[e] = Sweep[e]
      BY <1>5, <2>2 DEF Claim, Sweep
    <3>2. QED
      BY <1>4, <3>1
  <2>3. QED
    BY <2>1, <2>2
<1>6. ASSUME NEW l \in Lanes, ClaimNothing(l) PROVE Kept
  BY <1>4, <1>6 DEF ClaimNothing
<1>7. ASSUME NEW l \in Lanes, NEW d \in Events,
             MarkSucceeded(l, d) \/ MarkUnsupported(l, d)
      PROVE  Kept
  <2>1. CASE MarkSucceeded(l, d)
    BY <1>0, <2>1 DEF MarkSucceeded, Rows
  <2>2. CASE MarkUnsupported(l, d)
    <3>1. row'[e] = row[e] \/ row'[e] = DeadLetter(row[e], "unsupported")
      BY <2>2 DEF MarkUnsupported
    <3>2. QED
      BY <1>0, <3>1 DEF DeadLetter, Rows
  <2>3. QED
    BY <1>7, <2>1, <2>2
<1>8. ASSUME NEW l \in Lanes, NEW d \in Events, MarkFailed(l, d) PROVE Kept
  <2>1. CASE d = e
    BY <1>0, <1>8, <2>1, FailedRow DEF DeadLetter, Rows
  <2>2. CASE d # e
    BY <1>8, <2>2, FailedRow
  <2>3. QED
    BY <2>1, <2>2
<1>9. ASSUME NEW selected \in SUBSET Events, Replay(selected) PROVE Kept
  <2>1. CASE e \in Requeued(selected)
    <3>1. row'[e] = [row[e] EXCEPT !.status = "PENDING", !.attempts = 0,
                        !.token = NoToken, !.expired = FALSE,
                        !.due = TRUE, !.code = "none"]
      BY <1>9, <2>1 DEF Replay
    <3>2. QED
      BY <1>0, <3>1 DEF Rows
  <2>2. CASE e \notin Requeued(selected)
    BY <1>9, <2>2 DEF Replay
  <2>3. QED
    BY <2>1, <2>2
<1>10. QED
  BY <1>1, <1>2, <1>3, <1>5, <1>6, <1>7, <1>8, <1>9
     DEF Next, LaneStep, Handle, Fail, CountAttempts, Crash, Deploy, vars

\* A lane gets an event by its own claim only and keeps it with its token
\* until it is idle; the later steps of route are entered one way each.
LEMMA LaneSteps ==
    ASSUME TypeOK, [Next]_vars, NEW l \in Lanes
    PROVE  \/ \E e \in Events : Claim(l, e)
           \/ lane'[l] = IdleLane
           \/ lane'[l] = lane[l]
           \/ /\ lane'[l].event = lane[l].event
              /\ lane'[l].token = lane[l].token
              /\ \/ lane'[l].step = "handled" /\ Handle(l, lane[l].event)
                 \/ lane'[l].step = "failing"
                 \/ lane'[l].step = "counted" /\ CountAttempts(l, lane[l].event)
<1> DEFINE Goal == \/ \E e \in Events : Claim(l, e)
                   \/ lane'[l] = IdleLane
                   \/ lane'[l] = lane[l]
                   \/ /\ lane'[l].event = lane[l].event
                      /\ lane'[l].token = lane[l].token
                      /\ \/ /\ lane'[l].step = "handled"
                            /\ Handle(l, lane[l].event)
                         \/ lane'[l].step = "failing"
                         \/ /\ lane'[l].step = "counted"
                            /\ CountAttempts(l, lane[l].event)
<1> USE DEF TypeOK
<1>0. lane[l] \in LaneStates
  OBVIOUS
<1>1. ASSUME lane'[l] = lane[l] PROVE Goal
  BY <1>1
<1>2. ASSUME lane'[l] = IdleLane PROVE Goal
  BY <1>2
<1>3. ASSUME NEW m \in Lanes, NEW e \in Events, Claim(m, e) PROVE Goal
  BY <1>1, <1>3 DEF Claim
<1>4. ASSUME NEW m \in Lanes, NEW e \in Events, Handle(m, e) PROVE Goal
  <2>1. CASE m = l
    BY <1>0, <1>4, <2>1 DEF Handle, Works, LaneStates
  <2>2. CASE m # l
    BY <1>1, <1>4, <2>2 DEF Handle
  <2>3. QED
    BY <2>1, <2>2
<1>5. ASSUME NEW m \in Lanes, NEW e \in Events, NEW retryable \in BOOLEAN,
             Fail(m, e, retryable)
      PROVE  Goal
  BY <1>0, <1>1, <1>5 DEF Fail, LaneStates
<1>6. ASSUME NEW m \in Lanes, NEW e \in Events,
             MarkSucceeded(m, e) \/ MarkFailed(m, e)
      PROVE  Goal
  BY <1>1, <1>2, <1>6 DEF MarkSucceeded, MarkFailed
<1>7. ASSUME NEW m \in Lanes, NEW e \in Events, MarkUnsupported(m, e)
      PROVE  Goal
  <2>1. CASE m = l
    <3>1. \/ lane'[l] = IdleLane
          \/ lane'[l] = [lane[l] EXCEPT !.step = "failing", !.retryable = TRUE]
      BY <1>7, <2>1 DEF MarkUnsupported
    <3>2. QED
      BY <1>0, <1>2, <3>1 DEF LaneStates
  <2>2. CASE m # l
    BY <1>1, <1>7, <2>2 DEF MarkUnsupported
  <2>3. QED
    BY <2>1, <2>2
<1>8. ASSUME NEW m \in Lanes, NEW e \in Events, CountAttempts(m, e)
      PROVE  Goal
  <2>1. CASE m = l
    BY <1>0, <1>8, <2>1 DEF CountAttempts, Works, LaneStates
  <2>2. CASE m # l
    BY <1>1, <1>8, <2>2 DEF CountAttempts
  <2>3. QED
    BY <2>1, <2>2
<1>9. ASSUME NEW m \in Lanes, Crash(m) PROVE Goal
  BY <1>1, <1>2, <1>9 DEF Crash
<1>10. CASE Deploy
  BY <1>2, <1>10 DEF Deploy
<1>11. ASSUME UNCHANGED lane PROVE Goal
  BY <1>1, <1>11
<1>12. QED
  BY <1>3, <1>4, <1>5, <1>6, <1>7, <1>8, <1>9, <1>10, <1>11
     DEF Next, LaneStep, Receive, Enqueue, LeaseTimeout, BackoffElapsed,
         ClaimNothing, Replay, vars

\* Only a claim makes a lane the holder of a row.
LEMMA NewHolder ==
    ASSUME TypeOK, Leases, [Next]_vars, NEW l \in Lanes, NEW e \in Events,
           Holds(l, e)', ~Holds(l, e)
    PROVE  Claim(l, e)
<1>1. lane'[l].event = e /\ row'[e].status = "PROCESSING"
      /\ row'[e].token = lane'[l].token /\ e # NoEvent
  BY InboxAssumption DEF Holds, Works, Fenced
<1>2. ASSUME NEW f \in Events, Claim(l, f) PROVE f = e
  BY <1>1, <1>2 DEF Claim, TypeOK, IdleLane
<1>3. SUFFICES ASSUME \A f \in Events : ~Claim(l, f) PROVE FALSE
  BY <1>2
<1>4. lane[l].event = e /\ lane'[l].token = lane[l].token
  BY <1>1, <1>3, LaneSteps DEF IdleLane
<1>5. lane[l].token \in Nat /\ lane[l].token <= issued /\ issued \in Nat
  BY <1>4 DEF Leases, TypeOK
<1>6. CASE \E m \in Lanes : Claim(m, e)
  <2>1. row'[e].token = issued + 1
    <3>1. PICK m \in Lanes : Claim(m, e)
      BY <1>6
    <3>2. row'[e] = [row[e] EXCEPT !.status = "PROCESSING",
                       !.token = issued + 1, !.expired = FALSE,
                       !.attempts = row[e].attempts + 1]
      BY <3>1 DEF Claim, Sweep
    <3>3. row[e] \in Rows
      BY DEF TypeOK
    <3>4. QED
      BY <3>2, <3>3 DEF Rows
  <2>2. QED
    BY <2>1, <1>1, <1>4, <1>5
<1>7. CASE row[e].status = "PROCESSING" /\ row'[e].token = row[e].token
  BY <1>1, <1>4, <1>7 DEF Holds, Works, Fenced
<1>8. QED
  BY <1>1, <1>6, <1>7, ProcessingSteps

\* InOrder for any set of events and any interleaving of lanes: whoever may
\* settle an event has only settled events in front of it, and such as became
\* visible under its lease.
THEOREM ResourceOrder == Spec => []InOrder
<1>1. Init => Created /\ InOrder
  BY DEF Init, Created, InOrder, AbsentRow, Earlier
<1>2. TypeOK /\ Leases /\ Created /\ InOrder /\ [Next]_vars => Created' /\ InOrder'
  <2> SUFFICES ASSUME TypeOK, Leases, Created, InOrder, [Next]_vars
               PROVE  Created' /\ InOrder'
    OBVIOUS
  <2>1. Created'
    BY RowSteps
  <2>2. ASSUME NEW l \in Lanes, NEW d \in Events, NEW e \in Events,
               Holds(l, e)', Earlier(d, e)'
        PROVE  Settled(d)' \/ replays'[d] > 0 \/ lane'[l].token \in overtaken'[d]
    <3>1. /\ row[e].status # "ABSENT" /\ row'[e].status = "PROCESSING"
          /\ row'[e].token = lane'[l].token
      BY <2>2, RowSteps DEF Holds, Fenced
    <3>2. CASE row[d].status = "ABSENT"
      <4>1. Enqueue(d) /\ d # e
        BY <2>2, <3>1, <3>2, RowSteps DEF Earlier
      <4>2. row'[e] = row[e] /\ lane'[l] = lane[l]
        BY <4>1 DEF Enqueue, TypeOK
      <4>3. overtaken'[d] = {row[f].token : f \in {g \in Events :
                                /\ Resource[g] = Resource[d]
                                /\ row[g].createdAt > row[d].createdAt
                                /\ row[g].status = "PROCESSING"}}
        BY <4>1 DEF Enqueue, TypeOK
      <4>4. /\ Resource[e] = Resource[d] /\ row'[d].createdAt < row'[e].createdAt
            /\ row'[d].createdAt = row[d].createdAt
        BY <2>2, <4>1 DEF Earlier, Enqueue, TypeOK
      <4>5. QED
        BY <3>1, <4>2, <4>3, <4>4 DEF TypeOK, Rows
    <3>3. CASE row[d].status # "ABSENT" /\ ~Claim(l, e)
      <4>1. Holds(l, e) /\ Earlier(d, e)
        BY <2>2, <3>1, <3>3, NewHolder, RowSteps DEF Earlier
      <4>2. lane'[l].token = lane[l].token
        <5>1. lane'[l].event = e /\ e # NoEvent
          BY <2>2, InboxAssumption DEF Holds, Works
        <5>2. ASSUME NEW f \in Events, Claim(l, f) PROVE FALSE
          BY <3>3, <5>1, <5>2 DEF Claim, TypeOK, IdleLane
        <5>3. QED
          BY <5>1, <5>2, LaneSteps DEF IdleLane
      <4>3. QED
        BY <3>3, <4>1, <4>2, RowSteps DEF InOrder
    <3>4. CASE row[d].status # "ABSENT" /\ Claim(l, e)
      <4>1. Claim(l, e) /\ Earlier(d, e)
        BY <2>2, <3>1, <3>4, RowSteps DEF Earlier
      <4>2. Settled(d) \/ Exhausted(d)
        BY <4>1 DEF Claim, Claimable, Blocked, Earlier, Settled, Open,
                          TypeOK, Rows, Statuses
      <4>3. ASSUME Exhausted(d), d # e PROVE row'[d].status = "DEAD"
        BY <4>1, <4>3 DEF Claim, Sweep, DeadLetter, TypeOK, Rows
      <4>4. d # e
        BY <4>1 DEF Earlier, TypeOK, Rows
      <4>5. QED
        BY <4>2, <4>3, <4>4, RowSteps DEF Settled
    <3>5. QED
      BY <3>2, <3>3, <3>4
  <2>3. QED
    BY <2>1, <2>2 DEF InOrder
<1>3. QED
  BY <1>1, <1>2, TypeCorrect, LeasesInvariant, PTL DEF Spec

-----------------------------------------------------------------------------

\* A count read by markFailed is the current one as long as its write can
\* still succeed.
LEMMA CountedInvariant == Spec => []Counted
<1>1. Init => Counted
  BY DEF Init, Counted, Holds, Works, Fenced, IdleLane, AbsentRow
<1>2. TypeOK /\ Leases /\ Counted /\ [Next]_vars => Counted'
  <2> SUFFICES ASSUME TypeOK, Leases, Counted, [Next]_vars,
                      NEW l \in Lanes, NEW e \in Events,
                      Holds(l, e)', lane'[l].step = "counted"
               PROVE  lane'[l].attempts = row'[e].attempts
    BY DEF Counted
  <2>1. ASSUME NEW f \in Events, Claim(l, f) PROVE FALSE
    BY <2>1 DEF Claim, TypeOK, IdleLane
  <2>2. Holds(l, e)
    BY <2>1, NewHolder
  <2>3. lane[l].event = e /\ e # NoEvent /\ lane'[l].event = e
    BY <2>2, InboxAssumption DEF Holds, Works
  <2>4. row'[e].attempts = row[e].attempts
    <3>1. ASSUME NEW m \in Lanes, Claim(m, e) PROVE FALSE
      <4>1. row'[e] = [row[e] EXCEPT !.status = "PROCESSING",
                         !.token = issued + 1, !.expired = FALSE,
                         !.attempts = row[e].attempts + 1]
        BY <3>1 DEF Claim, Sweep
      <4>2. row'[e].token = issued + 1
        BY <4>1 DEF TypeOK, Rows
      <4>3. m # l
        BY <2>1, <3>1
      <4>4. lane'[l] = lane[l]
        BY <3>1, <4>3 DEF Claim
      <4>5. lane[l].token <= issued /\ lane[l].token \in Nat /\ issued \in Nat
        BY <2>3 DEF Leases, TypeOK
      <4>6. row'[e].token = lane'[l].token
        BY DEF Holds, Fenced
      <4>7. QED
        BY <4>2, <4>4, <4>5, <4>6
    <3>2. QED
      BY <3>1, ProcessingSteps DEF Holds, Fenced
  <2>5. CASE CountAttempts(l, e)
    BY <2>4, <2>5 DEF CountAttempts, TypeOK, LaneStates
  <2>6. CASE lane'[l] = lane[l]
    BY <2>2, <2>4, <2>6 DEF Counted
  <2>7. QED
    BY <2>1, <2>3, <2>5, <2>6, LaneSteps DEF IdleLane
<1>3. QED
  BY <1>1, <1>2, TypeCorrect, LeasesInvariant, PTL DEF Spec

\* NoEarlyDrop for any number of attempts: retryable failures and crashes
\* bury an event only after MAX_ATTEMPTS claims.
THEOREM NoEventDroppedEarly == Spec => []NoEarlyDrop
<1>1. Init => NoEarlyDrop
  BY DEF Init, NoEarlyDrop, AbsentRow
<1>2. TypeOK /\ Counted /\ NoEarlyDrop /\ [Next]_vars => NoEarlyDrop'
  <2> SUFFICES ASSUME TypeOK, Counted, NoEarlyDrop, [Next]_vars,
                      NEW e \in Events, row'[e].status = "DEAD",
                      row'[e].code \in {"retryable", "exhausted"}
               PROVE  row'[e].attempts = MaxAttempts
    BY DEF NoEarlyDrop
  <2> DEFINE Goal == row'[e].attempts = MaxAttempts
  <2> USE DEF TypeOK
  <2>0. /\ row[e] \in Rows
        /\ row[e].attempts \in Nat /\ row[e].attempts <= MaxAttempts
    BY InboxAssumption DEF Rows
  <2>1. ASSUME row'[e] = row[e] PROVE Goal
    BY <2>1 DEF NoEarlyDrop
  <2>2. ASSUME row'[e] = Sweep[e] PROVE Goal
    <3>1. CASE Exhausted(e)
      <4>1. row'[e] = DeadLetter(row[e], "exhausted")
        BY <2>2, <3>1 DEF Sweep
      <4>2. row'[e].attempts = row[e].attempts
        BY <2>0, <4>1 DEF DeadLetter, Rows
      <4>3. row[e].attempts >= MaxAttempts
        BY <3>1 DEF Exhausted
      <4>4. QED
        BY <2>0, <4>2, <4>3, InboxAssumption
    <3>2. CASE ~Exhausted(e)
      <4>1. row'[e] = row[e]
        BY <2>2, <3>2 DEF Sweep
      <4>2. QED
        BY <2>1, <4>1
    <3>3. QED
      BY <3>1, <3>2
  <2>3. ASSUME NEW d \in Events, Receive(d) \/ Enqueue(d) PROVE Goal
    <3>1. CASE d = e
      <4>1. row[e].status = "ABSENT"
        BY <2>3, <3>1 DEF Receive, Enqueue, AbsentRow
      <4>2. row'[e].status \in {row[e].status, "PENDING"}
        BY <2>0, <2>3, <3>1 DEF Receive, Enqueue, Rows
      <4>3. QED
        BY <4>1, <4>2
    <3>2. CASE d # e
      BY <2>1, <2>3, <3>2 DEF Receive, Enqueue
    <3>3. QED
      BY <3>1, <3>2
  <2>4. ASSUME NEW d \in Events, LeaseTimeout(d) \/ BackoffElapsed(d) PROVE Goal
    <3>1. CASE d = e
      BY <2>0, <2>4, <3>1 DEF LeaseTimeout, BackoffElapsed, Rows
    <3>2. CASE d # e
      BY <2>1, <2>4, <3>2 DEF LeaseTimeout, BackoffElapsed
    <3>3. QED
      BY <3>1, <3>2
  <2>5. ASSUME NEW l \in Lanes, NEW d \in Events, Claim(l, d) PROVE Goal
    <3>1. CASE d = e
      <4>1. row'[e] = [row[e] EXCEPT !.status = "PROCESSING",
                         !.token = issued + 1, !.expired = FALSE,
                         !.attempts = row[e].attempts + 1]
        BY <2>5, <3>1 DEF Claim, Sweep
      <4>2. QED
        BY <2>0, <4>1 DEF Rows
    <3>2. CASE d # e
      <4>1. row'[e] = Sweep[e]
        BY <2>5, <3>2 DEF Claim, Sweep
      <4>2. QED
        BY <2>2, <4>1
    <3>3. QED
      BY <3>1, <3>2
  <2>6. ASSUME NEW l \in Lanes, ClaimNothing(l) PROVE Goal
    BY <2>2, <2>6 DEF ClaimNothing
  <2>7. ASSUME NEW l \in Lanes, NEW d \in Events, MarkSucceeded(l, d) PROVE Goal
    <3>1. CASE d = e /\ Fenced(l, d)
      BY <2>0, <2>7, <3>1 DEF MarkSucceeded, Rows
    <3>2. CASE ~(d = e /\ Fenced(l, d))
      BY <2>1, <2>7, <3>2 DEF MarkSucceeded
    <3>3. QED
      BY <3>1, <3>2
  <2>8. ASSUME NEW l \in Lanes, NEW d \in Events, MarkUnsupported(l, d)
        PROVE  Goal
    <3>1. row'[e] = row[e] \/ row'[e] = DeadLetter(row[e], "unsupported")
      BY <2>8 DEF MarkUnsupported
    <3>2. row'[e] # DeadLetter(row[e], "unsupported")
      BY <2>0 DEF DeadLetter, Rows
    <3>3. QED
      BY <2>1, <3>1, <3>2
  <2>9. ASSUME NEW l \in Lanes, NEW d \in Events, MarkFailed(l, d) PROVE Goal
    <3>1. CASE d = e /\ Fenced(l, e) /\ Dead(l) /\ lane[l].retryable
      <4>1. lane[l].attempts = row[e].attempts
        BY <2>9, <3>1 DEF MarkFailed, Counted, Holds
      <4>2. row'[e] = DeadLetter(row[e], "retryable")
        BY <2>9, <3>1, FailedRow
      <4>3. row'[e].attempts = row[e].attempts
        BY <2>0, <4>2 DEF DeadLetter, Rows
      <4>4. QED
        BY <2>0, <3>1, <4>1, <4>3, InboxAssumption DEF Dead
    <3>2. CASE d = e /\ Fenced(l, e) /\ Dead(l) /\ ~lane[l].retryable
      <4>1. row'[e] = DeadLetter(row[e], "permanent")
        BY <2>9, <3>2, FailedRow
      <4>2. QED
        BY <2>0, <4>1 DEF DeadLetter, Rows
    <3>3. CASE d = e /\ Fenced(l, e) /\ ~Dead(l)
      <4>1. row'[e] = [row[e] EXCEPT !.status = "FAILED",
                          !.token = NoToken, !.expired = FALSE,
                          !.due = FALSE, !.code = "retryable"]
        BY <2>9, <3>3, FailedRow
      <4>2. QED
        BY <2>0, <4>1 DEF Rows
    <3>4. CASE ~(d = e /\ Fenced(l, e))
      BY <2>1, <2>9, <3>4, FailedRow
    <3>5. QED
      BY <3>1, <3>2, <3>3, <3>4
  <2>10. ASSUME NEW selected \in SUBSET Events, Replay(selected) PROVE Goal
    <3>1. CASE e \in Requeued(selected)
      <4>1. row'[e] = [row[e] EXCEPT !.status = "PENDING", !.attempts = 0,
                          !.token = NoToken, !.expired = FALSE,
                          !.due = TRUE, !.code = "none"]
        BY <2>10, <3>1 DEF Replay
      <4>2. QED
        BY <2>0, <4>1 DEF Rows
    <3>2. CASE e \notin Requeued(selected)
      BY <2>1, <2>10, <3>2 DEF Replay
    <3>3. QED
      BY <3>1, <3>2
  <2>11. ASSUME UNCHANGED row PROVE Goal
    BY <2>1, <2>11
  <2>12. QED
    BY <2>3, <2>4, <2>5, <2>6, <2>7, <2>8, <2>9, <2>10, <2>11
       DEF Next, LaneStep, Handle, Fail, CountAttempts, Crash, Deploy, vars
<1>3. QED
  BY <1>1, <1>2, TypeCorrect, CountedInvariant, PTL DEF Spec

-----------------------------------------------------------------------------

\* LeaseRespected: nobody but its holder ends a lease that has not timed out,
\* for any number of lanes and any events.
THEOREM LeaseIsRespected == Spec => LeaseRespected
<1>1. TypeOK /\ [Next]_vars => [LeaseStep]_vars
  <2> SUFFICES ASSUME TypeOK, [Next]_vars, NEW e \in Events,
                      row[e].status = "PROCESSING", ~row[e].expired,
                      row'[e].status # "PROCESSING" \/ row'[e].token # row[e].token
               PROVE  \E l \in Lanes : Holds(l, e) /\ lane'[l] # lane[l]
    BY DEF LeaseStep
  <2> DEFINE Goal == \E l \in Lanes : Holds(l, e) /\ lane'[l] # lane[l]
  <2> USE DEF TypeOK
  <2>0. row[e] \in Rows /\ ~Exhausted(e) /\ ~Claimable(e)
    BY DEF Exhausted, Claimable, LeaseOver
  <2>1. row'[e] # row[e]
    OBVIOUS
  <2>2. ASSUME NEW l \in Lanes, NEW d \in Events, Claim(l, d) PROVE FALSE
    <3>1. row'[e] = Sweep[e]
      BY <2>0, <2>2 DEF Claim, Sweep
    <3>2. QED
      BY <2>0, <2>1, <3>1 DEF Sweep
  <2>3. ASSUME NEW l \in Lanes, ClaimNothing(l) PROVE FALSE
    BY <2>0, <2>1, <2>3 DEF ClaimNothing, Sweep
  <2>4. ASSUME NEW d \in Events, Receive(d) \/ Enqueue(d) PROVE FALSE
    BY <2>1, <2>4 DEF Receive, Enqueue, AbsentRow
  <2>5. ASSUME NEW d \in Events, LeaseTimeout(d) \/ BackoffElapsed(d) PROVE FALSE
    BY <2>0, <2>5 DEF LeaseTimeout, BackoffElapsed, Rows
  <2>6. ASSUME NEW selected \in SUBSET Events, Replay(selected) PROVE FALSE
    <3>1. e \notin Requeued(selected)
      BY DEF Requeued
    <3>2. QED
      BY <2>1, <2>6, <3>1 DEF Replay
  <2>7. ASSUME NEW l \in Lanes, NEW d \in Events,
               \/ MarkSucceeded(l, d) \/ MarkUnsupported(l, d)
               \/ MarkFailed(l, d)
        PROVE  Goal
    <3>1. d = e /\ Fenced(l, e)
      BY <2>1, <2>7 DEF MarkSucceeded, MarkUnsupported, MarkFailed
    <3>2. Holds(l, e)
      BY <2>7, <3>1 DEF MarkSucceeded, MarkUnsupported, MarkFailed, Holds
    <3>3. lane'[l] # lane[l]
      <4>1. lane[l].step \in {"handled", "claimed", "counted"}
        BY <2>7 DEF MarkSucceeded, MarkUnsupported, MarkFailed
      <4>2. lane[l] \in LaneStates
        OBVIOUS
      <4>3. \/ lane'[l] = IdleLane
            \/ lane'[l] = [lane[l] EXCEPT !.step = "failing",
                                          !.retryable = TRUE]
        BY <2>7 DEF MarkSucceeded, MarkUnsupported, MarkFailed
      <4>4. IdleLane.step = "idle" /\ [lane[l] EXCEPT !.step = "failing",
                                           !.retryable = TRUE].step = "failing"
        BY <4>2 DEF IdleLane, LaneStates
      <4>5. QED
        BY <4>1, <4>3, <4>4
    <3>4. QED
      BY <3>2, <3>3
  <2>8. ASSUME UNCHANGED row PROVE FALSE
    BY <2>1, <2>8
  <2>9. QED
    BY <2>2, <2>3, <2>4, <2>5, <2>6, <2>7, <2>8
       DEF Next, LaneStep, Handle, Fail, CountAttempts, Crash, Deploy, vars
<1>2. QED
  BY <1>1, TypeCorrect, PTL DEF Spec, LeaseRespected

-----------------------------------------------------------------------------

\* Lanes work on inserted events, and what they call handled is handled.
LEMMA WorkedInvariant == Spec => []Worked
<1>1. Init => Worked
  BY InboxAssumption DEF Init, Worked, IdleLane
<1>2. TypeOK /\ Created /\ Worked /\ [Next]_vars => Worked'
  <2> SUFFICES ASSUME TypeOK, Created, Worked, [Next]_vars, NEW l \in Lanes
               PROVE  /\ lane'[l].event \in Events =>
                            row'[lane'[l].event].status # "ABSENT"
                      /\ lane'[l].step = "handled" =>
                            lane'[l].event \in handled'
    BY DEF Worked
  <2> USE DEF TypeOK
  <2>0. lane[l] \in LaneStates
    OBVIOUS
  <2>1. handled \subseteq handled'
    BY DEF Next, LaneStep, Receive, Enqueue, LeaseTimeout, BackoffElapsed, Claim,
           ClaimNothing, Handle, Fail, MarkSucceeded, MarkUnsupported,
           CountAttempts, MarkFailed, Crash, Deploy, Replay, vars
  <2>2. CASE \E e \in Events : Claim(l, e)
    <3>1. PICK e \in Events : Claim(l, e)
      BY <2>2
    <3>2. row[e].status # "ABSENT"
      BY <3>1 DEF Claim, Claimable, LeaseOver
    <3>3. lane'[l].event = e /\ lane'[l].step = "claimed"
      BY <3>1 DEF Claim, IdleLane
    <3>4. QED
      BY <3>2, <3>3, RowSteps
  <2>3. CASE lane'[l] = IdleLane
    BY <2>3, InboxAssumption DEF IdleLane
  <2>4. ASSUME lane'[l].event = lane[l].event,
               \/ lane'[l].step = lane[l].step
               \/ lane'[l].step = "handled" /\ Handle(l, lane[l].event)
               \/ lane'[l].step \in {"failing", "counted"}
        PROVE  /\ lane'[l].event \in Events =>
                     row'[lane'[l].event].status # "ABSENT"
               /\ lane'[l].step = "handled" => lane'[l].event \in handled'
    <3>1. lane'[l].event \in Events => row'[lane'[l].event].status # "ABSENT"
      BY <2>4, RowSteps DEF Worked
    <3>2. lane'[l].step = "handled" => lane'[l].event \in handled'
      BY <2>1, <2>4 DEF Worked, Handle
    <3>3. QED
      BY <3>1, <3>2
  <2>5. QED
    BY <2>2, <2>3, <2>4, LaneSteps
<1>3. QED
  BY <1>1, <1>2, CreatedInvariant, TypeCorrect, PTL DEF Spec

\* The inbox implements at-least-once delivery (WebhookDelivery), for any
\* number of lanes: every step of the table and of the lanes is a step of the
\* promise or leaves it unchanged.
THEOREM DeliveryImplemented == Spec => ImplementsDelivery
<1> DEFINE Same == UNCHANGED <<promise, handled>>
           Step == Delivery!Next \/ Same
<1>1. Init => Delivery!Init
  BY DEF Init, Delivery!Init, promise, PromiseOf, AbsentRow
<1>2. TypeOK /\ Created /\ Worked /\ [Next]_vars
        => [Delivery!Next]_<<promise, handled>>
  <2> SUFFICES ASSUME TypeOK, Created, Worked, [Next]_vars PROVE Step
    OBVIOUS
  <2> USE DEF TypeOK
  <2>0. \A e \in Events : row[e] \in Rows
    OBVIOUS
  <2>1. ASSUME UNCHANGED handled,
               \A e \in Events : PromiseOf(row'[e]) = PromiseOf(row[e])
        PROVE  Same
    BY <2>1 DEF promise
  <2>2. ASSUME UNCHANGED handled, NEW e \in Events,
               \A d \in Events \ {e} : PromiseOf(row'[d]) = PromiseOf(row[d])
        PROVE  promise' = [promise EXCEPT ![e] = PromiseOf(row'[e])]
    BY <2>2 DEF promise
  <2>3. \A e \in Events : PromiseOf(row[e]) = promise[e]
    BY DEF promise
  <2>4. ASSUME NEW e \in Events, Receive(e) \/ Enqueue(e) PROVE Step
    <3>1. /\ UNCHANGED handled /\ \A d \in Events \ {e} : row'[d] = row[d]
          /\ row[e].status = "ABSENT"
      BY <2>4 DEF Receive, Enqueue, AbsentRow
    <3>2. promise[e] = "unknown"
      BY <2>3, <3>1 DEF PromiseOf
    <3>3. CASE Receive(e)
      <4>1. row'[e].status = "ABSENT"
        BY <2>0, <3>1, <3>3 DEF Receive, Rows
      <4>2. PromiseOf(row'[e]) = PromiseOf(row[e])
        BY <3>1, <4>1 DEF PromiseOf
      <4>3. QED
        BY <2>1, <3>1, <4>2
    <3>4. CASE Enqueue(e)
      <4>1. row'[e].status = "PENDING"
        BY <2>0, <3>4 DEF Enqueue, Rows
      <4>2. PromiseOf(row'[e]) = "owed"
        BY <4>1 DEF PromiseOf
      <4>3. Delivery!Accept(e)
        BY <2>2, <3>1, <3>2, <4>2 DEF Delivery!Accept
      <4>4. QED
        BY <4>3 DEF Delivery!Next
    <3>5. QED
      BY <2>4, <3>3, <3>4
  <2>5. ASSUME NEW e \in Events, LeaseTimeout(e) \/ BackoffElapsed(e) PROVE Step
    <3>1. UNCHANGED handled /\ \A d \in Events \ {e} : row'[d] = row[d]
      BY <2>5 DEF LeaseTimeout, BackoffElapsed
    <3>2. row'[e].status = row[e].status /\ row'[e].code = row[e].code
      BY <2>0, <2>5 DEF LeaseTimeout, BackoffElapsed, Rows
    <3>3. PromiseOf(row'[e]) = PromiseOf(row[e])
      BY <3>2 DEF PromiseOf
    <3>4. QED
      BY <2>1, <3>1, <3>3
  <2>6. ASSUME NEW some \in SUBSET Events, UNCHANGED handled,
               \A e \in Events : e \in some =>
                   PromiseOf(row[e]) = "owed" /\ PromiseOf(row'[e]) = "abandoned",
               \A e \in Events \ some : PromiseOf(row'[e]) = PromiseOf(row[e])
        PROVE  Step
    <3>1. Delivery!Abandon(some)
      BY <2>3, <2>6 DEF Delivery!Abandon, Delivery!Move, promise
    <3>2. QED
      BY <3>1 DEF Delivery!Next
  <2>7. \A e \in Events :
          /\ Exhausted(e) => /\ PromiseOf(row[e]) = "owed"
                             /\ PromiseOf(Sweep[e]) = "abandoned"
          /\ ~Exhausted(e) => Sweep[e] = row[e]
    <3> SUFFICES ASSUME NEW e \in Events
                 PROVE  /\ Exhausted(e) => /\ PromiseOf(row[e]) = "owed"
                                           /\ PromiseOf(Sweep[e]) = "abandoned"
                        /\ ~Exhausted(e) => Sweep[e] = row[e]
      OBVIOUS
    <3>1. CASE Exhausted(e)
      <4>1. row[e].status \in {"PENDING", "FAILED", "PROCESSING"}
        BY <3>1 DEF Exhausted, LeaseOver
      <4>2. PromiseOf(row[e]) = "owed"
        BY <4>1 DEF PromiseOf
      <4>3. Sweep[e] = DeadLetter(row[e], "exhausted")
        BY <3>1 DEF Sweep
      <4>4. Sweep[e].status = "DEAD" /\ Sweep[e].code = "exhausted"
        BY <2>0, <4>3 DEF DeadLetter, Rows
      <4>5. QED
        BY <3>1, <4>2, <4>4 DEF PromiseOf
    <3>2. CASE ~Exhausted(e)
      BY <3>2 DEF Sweep
    <3>3. QED
      BY <3>1, <3>2
  <2>8. ASSUME NEW l \in Lanes, NEW e \in Events, Claim(l, e) PROVE Step
    <3>1. ~Exhausted(e) /\ row[e].status \in {"PENDING", "FAILED", "PROCESSING"}
      BY <2>8, <2>0, InboxAssumption
         DEF Claim, Claimable, Exhausted, LeaseOver, Rows
    <3>2. row'[e] = [row[e] EXCEPT !.status = "PROCESSING",
                       !.token = issued + 1, !.expired = FALSE,
                       !.attempts = row[e].attempts + 1]
      BY <2>8 DEF Claim, Sweep
    <3>3. row'[e].status = "PROCESSING"
      BY <2>0, <3>2 DEF Rows
    <3>4. PromiseOf(row'[e]) = PromiseOf(row[e])
      BY <3>1, <3>3 DEF PromiseOf
    <3>5. UNCHANGED handled /\ \A d \in Events \ {e} : row'[d] = Sweep[d]
      BY <2>8 DEF Claim, Sweep
    <3> DEFINE some == {d \in Events : Exhausted(d)}
    <3>6. \A d \in Events : d \in some =>
            PromiseOf(row[d]) = "owed" /\ PromiseOf(row'[d]) = "abandoned"
      BY <2>7, <3>1, <3>5
    <3>7. \A d \in Events \ some : PromiseOf(row'[d]) = PromiseOf(row[d])
      BY <2>7, <3>4, <3>5
    <3>8. some \in SUBSET Events
      OBVIOUS
    <3> HIDE DEF some
    <3>9. QED
      BY <2>6, <3>5, <3>6, <3>7, <3>8
  <2>9. ASSUME NEW l \in Lanes, ClaimNothing(l) PROVE Step
    <3> DEFINE some == {d \in Events : Exhausted(d)}
    <3>1. UNCHANGED handled /\ row' = Sweep
      BY <2>9 DEF ClaimNothing
    <3>2. \A d \in Events : d \in some =>
            PromiseOf(row[d]) = "owed" /\ PromiseOf(row'[d]) = "abandoned"
      BY <2>7, <3>1
    <3>3. \A d \in Events \ some : PromiseOf(row'[d]) = PromiseOf(row[d])
      BY <2>7, <3>1
    <3>4. some \in SUBSET Events
      OBVIOUS
    <3> HIDE DEF some
    <3>5. QED
      BY <2>6, <3>1, <3>2, <3>3, <3>4
  <2>10. ASSUME NEW l \in Lanes, NEW e \in Events, Handle(l, e) PROVE Step
    <3>1. row[e].status # "ABSENT"
      BY <2>10 DEF Handle, Works, Worked
    <3>2. promise[e] # "unknown"
      BY <2>0, <2>3, <3>1 DEF PromiseOf
    <3>3. promise' = promise
      BY <2>10 DEF Handle, promise
    <3>4. Delivery!Run(e)
      BY <2>10, <3>2, <3>3 DEF Handle, Delivery!Run
    <3>5. QED
      BY <3>4 DEF Delivery!Next
  <2>11. ASSUME NEW l \in Lanes, NEW e \in Events, MarkSucceeded(l, e) PROVE Step
    <3>1. UNCHANGED handled /\ \A d \in Events \ {e} : row'[d] = row[d]
      BY <2>11 DEF MarkSucceeded
    <3>2. CASE Fenced(l, e)
      <4>1. promise[e] = "owed" /\ e \in handled
        BY <2>3, <2>11, <3>2
           DEF MarkSucceeded, Works, Worked, Fenced, PromiseOf
      <4>2. row'[e] = [row[e] EXCEPT !.status = "PROCESSED", !.token = NoToken,
                          !.expired = FALSE, !.due = FALSE, !.code = "none"]
        BY <2>11, <3>2 DEF MarkSucceeded
      <4>3. PromiseOf(row'[e]) = "done"
        BY <2>0, <4>2 DEF PromiseOf, Rows
      <4>4. Delivery!Finish(e)
        BY <2>2, <3>1, <4>1, <4>3 DEF Delivery!Finish
      <4>5. QED
        BY <4>4 DEF Delivery!Next
    <3>3. CASE ~Fenced(l, e)
      BY <2>1, <2>11, <3>3 DEF MarkSucceeded
    <3>4. QED
      BY <3>2, <3>3
  <2>12. ASSUME NEW l \in Lanes, NEW e \in Events, MarkUnsupported(l, e)
         PROVE Step
    <3>1. UNCHANGED handled /\ \A d \in Events \ {e} : row'[d] = row[d]
      BY <2>12 DEF MarkUnsupported
    <3>2. CASE Fenced(l, e)
      <4>1. promise[e] = "owed"
        BY <2>3, <3>2 DEF Fenced, PromiseOf
      <4>2. row'[e] = DeadLetter(row[e], "unsupported")
        BY <2>12, <3>2 DEF MarkUnsupported
      <4>3. PromiseOf(row'[e]) = "quarantined"
        BY <2>0, <4>2 DEF PromiseOf, DeadLetter, Rows
      <4>4. Delivery!Quarantine(e)
        BY <2>2, <3>1, <4>1, <4>3
           DEF Delivery!Quarantine, Delivery!Move, promise
      <4>5. QED
        BY <4>4 DEF Delivery!Next
    <3>3. CASE ~Fenced(l, e)
      BY <2>1, <2>12, <3>3 DEF MarkUnsupported
    <3>4. QED
      BY <3>2, <3>3
  <2>13. ASSUME NEW l \in Lanes, NEW e \in Events, MarkFailed(l, e) PROVE Step
    <3>1. UNCHANGED handled /\ \A d \in Events \ {e} : row'[d] = row[d]
      BY <2>13 DEF MarkFailed
    <3>2. CASE ~Fenced(l, e)
      BY <2>1, <2>13, <3>2 DEF MarkFailed
    <3>3. CASE Fenced(l, e) /\ Dead(l)
      <4>1. PromiseOf(row[e]) = "owed"
        BY <3>3 DEF Fenced, PromiseOf
      <4>2. \/ row'[e] = DeadLetter(row[e], "retryable")
            \/ row'[e] = DeadLetter(row[e], "permanent")
        BY <2>13, <3>3, FailedRow
      <4>3. row'[e].status = "DEAD" /\ row'[e].code \in {"retryable", "permanent"}
        BY <2>0, <4>2 DEF DeadLetter, Rows
      <4>4. PromiseOf(row'[e]) = "abandoned"
        BY <4>3 DEF PromiseOf
      <4>5. QED
        BY <2>6, <3>1, <4>1, <4>4
    <3>4. CASE Fenced(l, e) /\ ~Dead(l)
      <4>1. row'[e] = [row[e] EXCEPT !.status = "FAILED", !.token = NoToken,
                          !.expired = FALSE, !.due = FALSE, !.code = "retryable"]
        BY <2>13, <3>4, FailedRow
      <4>2. row'[e].status = "FAILED" /\ row[e].status = "PROCESSING"
        BY <2>0, <3>4, <4>1 DEF Fenced, Rows
      <4>3. PromiseOf(row'[e]) = PromiseOf(row[e])
        BY <4>2 DEF PromiseOf
      <4>4. QED
        BY <2>1, <3>1, <4>3
    <3>5. QED
      BY <3>2, <3>3, <3>4
  <2>14. ASSUME NEW selected \in SUBSET Events, Replay(selected) PROVE Step
    <3> DEFINE some == Requeued(selected)
    <3>1. some \in SUBSET Events
      BY DEF Requeued
    <3>2. UNCHANGED handled /\ \A e \in Events \ some : row'[e] = row[e]
      BY <2>14 DEF Replay
    <3>3. \A e \in some : promise[e] = "quarantined"
      BY <2>3 DEF Requeued, PromiseOf
    <3>4. ASSUME NEW e \in Events, e \in some PROVE PromiseOf(row'[e]) = "owed"
      <4>1. row'[e] = [row[e] EXCEPT !.status = "PENDING", !.attempts = 0,
                          !.token = NoToken, !.expired = FALSE,
                          !.due = TRUE, !.code = "none"]
        BY <2>14, <3>4 DEF Replay
      <4>2. row'[e].status = "PENDING"
        BY <2>0, <4>1 DEF Rows
      <4>3. QED
        BY <4>2 DEF PromiseOf
    <3> HIDE DEF some
    <3>5. promise' = [e \in Events |-> IF e \in some THEN "owed" ELSE promise[e]]
      BY <3>2, <3>4 DEF promise
    <3>6. Delivery!Reopen(some)
      BY <3>2, <3>3, <3>5 DEF Delivery!Reopen, Delivery!Move
    <3>7. QED
      BY <3>1, <3>6 DEF Delivery!Next
  <2>15. ASSUME UNCHANGED <<row, handled>> PROVE Step
    BY <2>1, <2>15
  <2>16. QED
    BY <2>4, <2>5, <2>8, <2>9, <2>10, <2>11, <2>12, <2>13, <2>14, <2>15
       DEF Next, LaneStep, Fail, CountAttempts, Crash, Deploy, vars
<1>3. QED
  BY <1>1, <1>2, TypeCorrect, CreatedInvariant, WorkedInvariant, PTL
     DEF Spec, ImplementsDelivery, Delivery!Spec
=============================================================================
