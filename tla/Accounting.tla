----------------------------- MODULE Accounting -----------------------------
(***************************************************************************)
(* The books (accounting/accounting.service.ts): entries that accountants  *)
(* create, change and delete on the transactions page, the revenue of a    *)
(* day's orders, booked order by order or in one entry, months that are    *)
(* closed, and the audit log.                                              *)
(*                                                                         *)
(* No operation runs in a transaction: each statement is a step, and the   *)
(* checks are made of what was read before.  What is guarded is guarded by *)
(* a condition of the statement that writes (updatedAt, the unique         *)
(* idempotency key).                                                       *)
(*                                                                         *)
(* Of an entry there are its type (adjustment or not), its month, its      *)
(* version, its key and the orders whose revenue it holds.  updatedAt is   *)
(* the version: no entry is changed twice within a millisecond.            *)
(***************************************************************************)
EXTENDS Integers, FiniteSets

CONSTANTS
    Orders,        \* orders of one day
    Spellings,     \* ways the date of that day may be written
    Months, ThisMonth,
    Calls,
    Operations,    \* what each call may do
    MaxEntries     \* bound

Ids == 1..MaxEntries
Types == {"INCOME", "ADJUSTMENT"}
NoKey == <<>>

\* AUTO_ORDER and AUTO_ORDER_DAILY; the latter holds the date as it was sent.
KeyOf(order) == <<"AUTO_ORDER", order>>
DailyKey(spelling) == <<"AUTO_ORDER_DAILY", spelling>>
DailyKeys == {DailyKey(s) : s \in Spellings}
Keys == {KeyOf(o) : o \in Orders} \cup DailyKeys

Entries ==
    [type : Types, month : Months, version : Nat, deleted : BOOLEAN,
     key : Keys \cup {NoKey}, covers : SUBSET Orders]
NoEntry == [type |-> "NONE"]

OperationKinds == {"create", "update", "delete", "close", "accrue", "accrueDaily"}

ASSUME AccountingAssumption ==
    /\ ThisMonth \in Months
    /\ \A c \in Calls : Operations[c] \subseteq OperationKinds
    /\ MaxEntries \in Nat \ {0}

VARIABLES
    entry,
    closed,   \* months with a row in AccountingPeriodClose
    paid,     \* orders that are paid and not refunded
    audit,    \* CREATE, UPDATE and DELETE, with the entry before and after
    call

vars == <<entry, closed, paid, audit, call>>

Steps == {"asked", "checking", "looking", "writing", "auditing", "done", "failed"}

Draft(type, month, key, covers) ==
    [type |-> type, month |-> month, version |-> 1, deleted |-> FALSE,
     key |-> key, covers |-> covers]

\* seen: the version the form was opened with; before: the entry as it was
\* read; draft: what is to be written; opened: months closed when the call
\* began (of the properties); todo: orders an accrual has still to book.
NewCall(op) ==
    [op |-> op, step |-> "asked", id |-> 0, seen |-> 0, before |-> NoEntry,
     draft |-> NoEntry, opened |-> {}, todo |-> {}, selected |-> {}]

Init ==
    /\ entry = [i \in Ids |-> NoEntry]
    /\ closed = {}
    /\ paid \in SUBSET Orders
    /\ audit = {}
    /\ call \in [Calls -> {NewCall(op) : op \in OperationKinds}]
    /\ \A c \in Calls : call[c].op \in Operations[c]

Exists(i) == entry[i] # NoEntry
Live(i) == Exists(i) /\ ~entry[i].deleted
WithKey(key) == {i \in Ids : Exists(i) /\ key # NoKey /\ entry[i].key = key}

At(c, step) == call[c].step = step
Fails(c) == call' = [call EXCEPT ![c].step = "failed"]
Becomes(c, step) == call' = [call EXCEPT ![c].step = step]

Creates(c) == call[c].op \in {"create", "accrue", "accrueDaily"}
Accrues(c) == call[c].op \in {"accrue", "accrueDaily"}

-----------------------------------------------------------------------------
(* What a call begins with.                                                 *)

AskCreate(c) ==
    /\ At(c, "asked") /\ call[c].op = "create"
    /\ \E type \in Types, month \in Months :
          call' = [call EXCEPT ![c].step = "checking", ![c].opened = closed,
                               ![c].draft = Draft(type, month, NoKey, {})]
    /\ UNCHANGED <<entry, closed, paid, audit>>

\* The page opens a form for an entry it shows; nothing was read yet.
AskUpdate(c) ==
    /\ At(c, "asked") /\ call[c].op = "update" /\ call[c].id = 0
    /\ \E i \in Ids :
          /\ Live(i)
          /\ call' = [call EXCEPT ![c].id = i, ![c].seen = entry[i].version]
    /\ UNCHANGED <<entry, closed, paid, audit>>

\* updateTx reads the entry.  The page sends no key, so that the entry loses
\* the one it had; another client may send it.
ReadForUpdate(c) ==
    /\ At(c, "asked") /\ call[c].op = "update" /\ call[c].id # 0
    /\ LET i == call[c].id
       IN  IF Live(i)
           THEN \E type \in Types, month \in Months, key \in {NoKey, entry[i].key} :
                   call' = [call EXCEPT
                       ![c].step = "checking", ![c].opened = closed,
                       ![c].before = entry[i],
                       ![c].draft = Draft(type, month, key, entry[i].covers)]
           ELSE Fails(c)
    /\ UNCHANGED <<entry, closed, paid, audit>>

ReadForDelete(c) ==
    /\ At(c, "asked") /\ call[c].op = "delete"
    /\ \E i \in Ids :
          /\ Exists(i)
          /\ IF Live(i)
             THEN call' = [call EXCEPT ![c].step = "checking", ![c].id = i,
                                       ![c].opened = closed, ![c].before = entry[i]]
             ELSE Fails(c)
    /\ UNCHANGED <<entry, closed, paid, audit>>

\* autoAccrueOrderRevenue: the orders of the day that are paid by now.
SelectOrders(c) ==
    /\ At(c, "asked") /\ Accrues(c)
    /\ call' = [call EXCEPT ![c].step = IF paid = {} THEN "done" ELSE "looking",
                            ![c].todo = paid, ![c].selected = paid]
    /\ UNCHANGED <<entry, closed, paid, audit>>

-----------------------------------------------------------------------------
(* Accruals.                                                                *)

\* Mutant: an order that is booked ends the run.
RestStopping(c, covers) == IF \E o \in covers : WithKey(KeyOf(o)) # {} THEN {}
                           ELSE call[c].todo \ covers

Rest(c, covers) == call[c].todo \ covers

\* An order, or a day, that has an entry is skipped; a deleted entry keeps its
\* key.
LookUp(c, key, covers) ==
    call' = [call EXCEPT
        ![c].todo = Rest(c, covers),
        ![c].step = IF WithKey(key) = {} THEN "checking"
                    ELSE IF Rest(c, covers) = {} THEN "done" ELSE "looking",
        ![c].opened = closed,
        ![c].draft = Draft("INCOME", ThisMonth, key, covers)]

AccrueOrder(c) ==
    /\ At(c, "looking") /\ call[c].op = "accrue"
    /\ \E o \in call[c].todo : LookUp(c, KeyOf(o), {o})
    /\ UNCHANGED <<entry, closed, paid, audit>>

AccrueDay(c) ==
    /\ At(c, "looking") /\ call[c].op = "accrueDaily"
    /\ \E spelling \in Spellings : LookUp(c, DailyKey(spelling), call[c].todo)
    /\ UNCHANGED <<entry, closed, paid, audit>>

-----------------------------------------------------------------------------
(* assertEditableForPeriod, and the statements that write.                  *)

Editable(type, month) == month \notin closed \/ type = "ADJUSTMENT"

\* Mutant: an update asks for the new month only.
CheckedOfDraft(c) ==
    IF call[c].op = "delete" THEN {call[c].before} ELSE {call[c].draft}

\* An update has to be allowed for the entry as it is and as it will be.
Checked(c) == {call[c].before, call[c].draft} \ {NoEntry}

CheckPeriods(c) ==
    /\ At(c, "checking")
    /\ IF \A e \in Checked(c) : Editable(e.type, e.month)
       THEN Becomes(c, "writing") ELSE Fails(c)
    /\ UNCHANGED <<entry, closed, paid, audit>>

\* Mutant: the key is looked up, but the column is not unique.
TakenNever(key) == FALSE

Taken(key) == WithKey(key) # {}

NextId == CHOOSE i \in Ids : ~Exists(i) /\ \A j \in Ids : j < i => Exists(j)

AfterOne(c) == IF call[c].todo # {} THEN "looking" ELSE "done"

\* createTx, with its own lookup of the key and the insert as one step.  If
\* there is an entry with the key, the lookup returns it, or it came after the
\* lookup and the unique index refuses the insert.
Insert(c) ==
    /\ At(c, "writing") /\ Creates(c)
    /\ \E i \in Ids : ~Exists(i)
    /\ IF Taken(call[c].draft.key)
       THEN (Fails(c) \/ Becomes(c, AfterOne(c))) /\ UNCHANGED entry
       ELSE /\ entry' = [entry EXCEPT ![NextId] = call[c].draft]
            /\ call' = [call EXCEPT ![c].step = "auditing", ![c].id = NextId]
    /\ UNCHANGED <<closed, paid, audit>>

\* Mutant: the update is not conditional.
SeenByAnyone(c) == Live(call[c].id)

SeenByCaller(c) ==
    Live(call[c].id) /\ entry[call[c].id].version = call[c].seen

Update(c) ==
    /\ At(c, "writing") /\ call[c].op = "update"
    /\ IF SeenByCaller(c) /\ ~\E i \in WithKey(call[c].draft.key) : i # call[c].id
       THEN /\ entry' = [entry EXCEPT ![call[c].id] =
                  [call[c].draft EXCEPT !.version = entry[call[c].id].version + 1]]
            /\ Becomes(c, "auditing")
       ELSE Fails(c) /\ UNCHANGED entry
    /\ UNCHANGED <<closed, paid, audit>>

\* deleteTx: of the row as it is now, deleted or not.
Delete(c) ==
    /\ At(c, "writing") /\ call[c].op = "delete"
    /\ entry' = [entry EXCEPT ![call[c].id].deleted = TRUE, ![call[c].id].version = @ + 1]
    /\ call' = [call EXCEPT ![c].step = "auditing", ![c].draft = entry'[call[c].id]]
    /\ UNCHANGED <<closed, paid, audit>>

\* An update reads the entry again, the others have it from their statement.
Written(c) == IF call[c].op = "update" THEN entry[call[c].id] ELSE call[c].draft

\* createAuditLog.
WriteAudit(c) ==
    /\ At(c, "auditing")
    /\ audit' = audit \cup
          {[by |-> c, action |-> call[c].op, id |-> call[c].id,
            before |-> call[c].before, after |-> Written(c)]}
    /\ Becomes(c, AfterOne(c))
    /\ UNCHANGED <<entry, closed, paid>>

CloseMonth(c) ==
    /\ At(c, "asked") /\ call[c].op = "close"
    /\ \E month \in Months : closed' = closed \cup {month}
    /\ Becomes(c, "done")
    /\ UNCHANGED <<entry, paid, audit>>

OrderPaid(o) ==
    /\ o \notin paid
    /\ paid' = paid \cup {o}
    /\ UNCHANGED <<entry, closed, audit, call>>

Next ==
    \/ \E c \in Calls :
          \/ AskCreate(c) \/ AskUpdate(c) \/ ReadForUpdate(c) \/ ReadForDelete(c)
          \/ SelectOrders(c) \/ AccrueOrder(c) \/ AccrueDay(c)
          \/ CheckPeriods(c) \/ Insert(c) \/ Update(c) \/ Delete(c) \/ WriteAudit(c)
          \/ CloseMonth(c)
    \/ \E o \in Orders : OrderPaid(o)

Spec == Init /\ [][Next]_vars

-----------------------------------------------------------------------------
(* Properties.                                                              *)

TypeOK ==
    /\ \A i \in Ids : entry[i] \in Entries \cup {NoEntry}
    /\ \A i, j \in Ids :
          Exists(i) /\ Exists(j) /\ entry[i].key = entry[j].key => i = j \/ entry[i].key = NoKey
    /\ closed \subseteq Months /\ paid \subseteq Orders
    /\ \A a \in audit : a.id \in Ids /\ a.after \in Entries
    /\ \A c \in Calls :
          /\ call[c].step \in Steps /\ call[c].id \in Ids \cup {0}
          /\ call[c].todo \subseteq call[c].selected /\ call[c].selected \subseteq Orders

\* The entry is in another month, or of another type, than the call read.
Moved(c) ==
    LET now == entry[call[c].id]
    IN  <<now.type, now.month>> # <<call[c].before.type, call[c].before.month>>

\* Once a month is closed, only what was asked for before still puts an entry
\* into it, changes or deletes one in it or takes one out of it, adjustments
\* apart - and but for a delete of an entry that was moved since the delete
\* read it: deleteTx writes without a condition, so that it deletes the entry
\* wherever an older update has put it.
LateChangesAreOld ==
    [][\A i \in Ids, c \in Calls :
          (Insert(c) \/ Update(c) \/ Delete(c)) /\ entry'[i] # entry[i] =>
              \/ Delete(c) /\ Moved(c)
              \/ \A e \in {entry[i], entry'[i]} \ {NoEntry} :
                    e.type = "ADJUSTMENT" \/ e.month \notin call[c].opened]_vars

\* No change is lost: of the changes in the log no two replaced the same
\* version of an entry, whatever was read and changed in between.
ChangesAreChained ==
    \A a, b \in {r \in audit : r.action = "update"} :
        a.id = b.id /\ a.before.version = b.before.version => a = b

\* The revenue of an order is booked once, unless its entry was edited and so
\* lost its key, or the day was accrued order by order and in one entry, or in
\* one entry under two spellings of its date.
RevenueIsBookedOnce ==
    \A i, j \in Ids :
        i # j /\ Live(i) /\ Live(j) /\ entry[i].covers \cap entry[j].covers # {} =>
            \/ NoKey \in {entry[i].key, entry[j].key}
            \/ /\ entry[i].key # entry[j].key
               /\ {entry[i].key, entry[j].key} \cap DailyKeys # {}

\* An accrual order by order that comes to its end leaves no order it selected
\* without an entry, whatever was booked before or beside it.
AccrualIsComplete ==
    \A c \in Calls :
        call[c].op = "accrue" /\ At(c, "done") =>
            \A o \in call[c].selected : \E i \in Ids : Exists(i) /\ o \in entry[i].covers
=============================================================================
