--------------------------- MODULE WebhookDelivery ---------------------------
(***************************************************************************)
(* What the webhook inbox promises, without rows, leases or retries: an    *)
(* event that was accepted is owed until it is done, abandoned or put in   *)
(* quarantine; its handler may complete any number of times once it was    *)
(* accepted, and it is never reported done before a completion; done and   *)
(* abandoned are final, and only quarantine can be reopened.               *)
(***************************************************************************)
CONSTANT Events

VARIABLES
    promise,    \* what is owed for each event
    handled     \* events whose handler completed at least once

Promises == {"unknown", "owed", "done", "abandoned", "quarantined"}

Init ==
    /\ promise = [e \in Events |-> "unknown"]
    /\ handled = {}

Accept(e) ==
    /\ promise[e] = "unknown"
    /\ promise' = [promise EXCEPT ![e] = "owed"]
    /\ UNCHANGED handled

\* The handler completes, possibly again and possibly after the event was
\* settled by somebody else.
Run(e) ==
    /\ promise[e] # "unknown"
    /\ handled' = handled \cup {e}
    /\ UNCHANGED promise

Finish(e) ==
    /\ promise[e] = "owed"
    /\ e \in handled
    /\ promise' = [promise EXCEPT ![e] = "done"]
    /\ UNCHANGED handled

Move(some, from, to) ==
    /\ \A e \in some : promise[e] = from
    /\ promise' = [e \in Events |-> IF e \in some THEN to ELSE promise[e]]
    /\ UNCHANGED handled

Abandon(some) == Move(some, "owed", "abandoned")

Quarantine(e) == Move({e}, "owed", "quarantined")

Reopen(some) == Move(some, "quarantined", "owed")

Next ==
    \/ \E e \in Events : Accept(e) \/ Run(e) \/ Finish(e) \/ Quarantine(e)
    \/ \E some \in SUBSET Events : Abandon(some) \/ Reopen(some)

Spec == Init /\ [][Next]_<<promise, handled>>
=============================================================================
