-------------------------- MODULE AccountingProofs --------------------------
(***************************************************************************)
(* Theorems about the books, for any orders, months, calls and bound on    *)
(* the entries.                                                            *)
(***************************************************************************)
EXTENDS Accounting, WellFoundedInduction, TLAPS

\* A key that names an order is on an entry of that order alone.
Matches(e) == \A o \in Orders : e.key = KeyOf(o) => e.covers = {o}

EntriesOK ==
    /\ entry \in [Ids -> Entries \cup {NoEntry}]
    /\ \A i, j \in Ids :
          Exists(i) /\ Exists(j) /\ entry[i].key = entry[j].key => i = j \/ entry[i].key = NoKey
    /\ \A i \in Ids : Exists(i) => Matches(entry[i])

CallType ==
    [op : OperationKinds, step : Steps, id : Ids \cup {0}, seen : Nat,
     before : Entries \cup {NoEntry}, draft : Entries \cup {NoEntry},
     opened : SUBSET Months, todo : SUBSET Orders, selected : SUBSET Orders]

CallOK(c) ==
    /\ call[c] \in CallType
    /\ call[c].opened \subseteq closed /\ call[c].todo \subseteq call[c].selected

Underway == {"checking", "writing", "auditing"}

\* A new entry replaces none; its draft is its own.
Creating(c) ==
    /\ call[c].before = NoEntry
    /\ call[c].step \in Underway => call[c].draft \in Entries /\ Matches(call[c].draft)
    /\ call[c].step = "auditing" =>
          /\ call[c].id \in Ids /\ Exists(call[c].id)
          /\ entry[call[c].id].covers = call[c].draft.covers

\* The form is not newer than the read, nor the read newer than the entry; an
\* entry of the version that was read is what was read.
Updating(c) ==
    LET i == call[c].id
    IN  /\ call[c].step = "asked" /\ i # 0 =>
              i \in Ids /\ Exists(i) /\ call[c].seen <= entry[i].version
        /\ call[c].step \in Underway =>
              /\ i \in Ids /\ Exists(i)
              /\ call[c].before \in Entries /\ call[c].draft \in Entries
              /\ call[c].draft.covers = entry[i].covers /\ Matches(call[c].draft)
              /\ call[c].seen <= call[c].before.version
              /\ call[c].before.version <= entry[i].version
              /\ call[c].before.version = entry[i].version =>
                    call[c].before = entry[i] /\ call[c].step # "auditing"

Deleting(c) ==
    call[c].step \in Underway =>
        /\ call[c].id \in Ids /\ Exists(call[c].id) /\ call[c].before \in Entries
        /\ call[c].step = "auditing" => call[c].draft \in Entries

\* What is written was allowed in the months that were closed at the start.
Allowed(c) ==
    call[c].step = "writing" =>
        \A e \in Checked(c) : e.type = "ADJUSTMENT" \/ e.month \notin call[c].opened

Covered(o) == \E i \in Ids : Exists(i) /\ o \in entry[i].covers

\* An accrual has dealt with the orders it has taken, but for the one in hand.
Accruing(c) ==
    /\ call[c].step \in {"looking", "auditing", "done"} =>
          \A o \in call[c].selected \ call[c].todo : Covered(o)
    /\ call[c].step = "done" => call[c].todo = {}
    /\ call[c].step \in {"checking", "writing"} =>
          \E x \in Orders :
              /\ call[c].draft.key = KeyOf(x) /\ call[c].draft.covers = {x}
              /\ \A o \in call[c].selected \ call[c].todo : o = x \/ Covered(o)
    /\ call[c].step = "auditing" =>
          \A o \in call[c].draft.covers : Covered(o)

CallInv(c) ==
    /\ CallOK(c) /\ Allowed(c)
    /\ ~Accrues(c) => call[c].todo = {} /\ call[c].step # "looking"
    /\ Creates(c) => Creating(c)
    /\ call[c].op = "update" => Updating(c)
    /\ call[c].op = "delete" => Deleting(c)
    /\ call[c].op = "close" => call[c].step \notin Underway
    /\ call[c].op = "accrue" => Accruing(c)

Changes == {a \in audit : a.action = "update"}
Pending == {c \in Calls : call[c].op = "update" /\ call[c].step = "auditing"}

AuditOK ==
    /\ \A a \in audit : a.id \in Ids /\ a.after \in Entries
    /\ \A a \in Changes :
          Exists(a.id) /\ a.before.version \in Nat /\ a.before.version < entry[a.id].version

\* A version is replaced once, by changes in the log and those about to be.
Chained ==
    /\ ChangesAreChained
    /\ \A a \in Changes, c \in Pending :
          a.id = call[c].id => a.before.version # call[c].before.version
    /\ \A c, d \in Pending :
          call[c].id = call[d].id /\ call[c].before.version = call[d].before.version => c = d

IInv ==
    /\ EntriesOK /\ closed \subseteq Months /\ paid \subseteq Orders
    /\ DOMAIN call = Calls /\ \A c \in Calls : CallInv(c)
    /\ AuditOK /\ Chained

-----------------------------------------------------------------------------
(* Keys, drafts and numbers.                                                *)

LEMMA KeysDiffer ==
    /\ \A o, p : KeyOf(o) = KeyOf(p) => o = p
    /\ \A o : KeyOf(o) # NoKey /\ \A s : KeyOf(o) # DailyKey(s)
BY DEF KeyOf, DailyKey, NoKey

LEMMA NoEntryIsNone == NoEntry \notin Entries
BY DEF NoEntry, Entries, Types

LEMMA DraftsAreEntries ==
    ASSUME NEW type \in Types, NEW month \in Months, NEW key \in Keys \cup {NoKey},
           NEW covers \in SUBSET Orders
    PROVE  /\ Draft(type, month, key, covers) \in Entries
           /\ Draft(type, month, key, covers).key = key
           /\ Draft(type, month, key, covers).covers = covers
BY DEF Draft, Entries

LEMMA LaterEntries ==
    ASSUME NEW e \in Entries, NEW k \in Nat
    PROVE  /\ [e EXCEPT !.version = k] \in Entries
           /\ [e EXCEPT !.deleted = TRUE, !.version = k] \in Entries
<1>1. e \in [type : Types, month : Months, version : Nat, deleted : BOOLEAN,
             key : Keys \cup {NoKey}, covers : SUBSET Orders]
  BY DEF Entries
<1>2. [e EXCEPT !.version = k] \in Entries
  BY <1>1 DEF Entries
<1>3. [e EXCEPT !.deleted = TRUE, !.version = k] \in Entries
  BY <1>1, TRUE \in BOOLEAN DEF Entries
<1> QED BY <1>2, <1>3

\* The entry that is created next has the least number that is free.
LEMMA NextIdIsFree ==
    ASSUME \E i \in Ids : ~Exists(i)
    PROVE  NextId \in Ids /\ ~Exists(NextId)
<1> DEFINE Free == {i \in Ids : ~Exists(i)}
<1>1. Free \subseteq Nat /\ Free # {}
  BY AccountingAssumption DEF Ids
<1>2. PICK i \in Free : \A j \in Free : ~(<<j, i>> \in OpToRel(<, Nat))
  <2> HIDE DEF Free
  <2> QED BY <1>1, NatLessThanWellFounded, WFMin
<1>3. ASSUME NEW j \in Ids, j < i PROVE Exists(j)
  <2>1. CASE j \in Free
    <3>1. i \in Nat /\ j \in Nat
      BY <1>1, <2>1
    <3>2. <<j, i>> \in OpToRel(<, Nat)
      BY <3>1, <1>3 DEF OpToRel
    <3> QED BY <1>2, <2>1, <3>2
  <2> QED BY <2>1
<1>4. \E k \in Ids : ~Exists(k) /\ \A j \in Ids : j < k => Exists(j)
  BY <1>3
<1> QED BY <1>4 DEF NextId

-----------------------------------------------------------------------------
(* What the others keep.                                                    *)

\* An entry stays, with its orders, and is another one only in a later version.
Kept ==
    \A i \in Ids : Exists(i) =>
        /\ Exists(i)' /\ entry'[i].covers = entry[i].covers
        /\ entry[i].version \in Nat /\ entry'[i].version \in Nat
        /\ entry[i].version <= entry'[i].version
        /\ entry'[i].version = entry[i].version => entry'[i] = entry[i]

LEMMA UnchangedIsKept ==
    ASSUME EntriesOK, UNCHANGED entry
    PROVE  Kept /\ EntriesOK'
<1>1. \A i \in Ids : Exists(i) => entry[i].version \in Nat
  BY DEF EntriesOK, Exists, Entries
<1>2. EntriesOK'
  BY DEF EntriesOK, Exists, Matches
<1> QED BY <1>1, <1>2 DEF Kept, Exists

LEMMA CoveredStays ==
    ASSUME Kept, NEW o, Covered(o)
    PROVE  Covered(o)'
BY DEF Kept, Covered

\* A call that does not step finds what it relies on.
LEMMA OthersKeep ==
    ASSUME NEW d \in Calls, CallInv(d), call'[d] = call[d], Kept, closed \subseteq closed'
    PROVE  CallInv(d)'
<1>1. CallOK(d)'
  BY DEF CallInv, CallOK
<1>2. Allowed(d)'
  BY DEF CallInv, Allowed, Checked
<1>3. Creating(d) => Creating(d)'
  BY DEF Creating, Kept, Matches
<1>4. CallOK(d) /\ Updating(d) => Updating(d)'
  <2> SUFFICES ASSUME CallOK(d), Updating(d) PROVE Updating(d)'
    OBVIOUS
  <2> DEFINE i == call[d].id
  <2>1. call[d].step = "asked" /\ i # 0 =>
            i \in Ids /\ Exists(i)' /\ call[d].seen <= entry'[i].version
    BY DEF CallOK, CallType, Updating, Kept
  <2>2. ASSUME call[d].step \in Underway
        PROVE  /\ i \in Ids /\ Exists(i)'
               /\ call[d].draft.covers = entry'[i].covers
               /\ call[d].before.version <= entry'[i].version
               /\ call[d].before.version = entry'[i].version =>
                     call[d].before = entry'[i] /\ call[d].step # "auditing"
    <3>1. call[d].before.version \in Nat
      BY <2>2 DEF Updating, Entries
    <3>2. /\ i \in Ids /\ Exists(i) /\ call[d].draft.covers = entry[i].covers
          /\ call[d].before.version <= entry[i].version
          /\ call[d].before.version = entry[i].version =>
                     call[d].before = entry[i] /\ call[d].step # "auditing"
      BY <2>2 DEF Updating
    <3> QED BY <3>1, <3>2 DEF Kept
  <2> QED BY <2>1, <2>2 DEF Updating, Matches
<1>5. Deleting(d) => Deleting(d)'
  BY DEF Deleting, Kept
<1>6. Accruing(d) => Accruing(d)'
  <2> SUFFICES ASSUME Accruing(d) PROVE Accruing(d)'
    OBVIOUS
  <2>1. \A o : Covered(o) => Covered(o)'
    BY CoveredStays
  <2> HIDE DEF Covered
  <2> QED BY <2>1 DEF Accruing
<1> QED BY <1>1, <1>2, <1>3, <1>4, <1>5, <1>6 DEF CallInv, Creates, Accrues

-----------------------------------------------------------------------------
(* Steps that change no entry and log nothing.                              *)

\* The other calls do not step.
Alone(c) == DOMAIN call' = Calls /\ \A d \in Calls \ {c} : call'[d] = call[d]

LEMMA CallStep ==
    ASSUME IInv, NEW c \in Calls, Alone(c), Kept, EntriesOK', UNCHANGED audit,
           closed \subseteq closed', closed' \subseteq Months, paid' \subseteq Orders,
           CallInv(c)', c \notin Pending'
    PROVE  IInv'
<1>1. \A d \in Calls : CallInv(d)'
  BY OthersKeep DEF IInv, Alone
<1>2. AuditOK'
  <2>1. ASSUME NEW a \in Changes
        PROVE  Exists(a.id)' /\ a.before.version \in Nat /\ a.before.version < entry'[a.id].version
    <3>1. /\ a.id \in Ids /\ Exists(a.id) /\ a.before.version \in Nat
          /\ a.before.version < entry[a.id].version
      BY DEF IInv, AuditOK, Changes
    <3>2. /\ Exists(a.id)' /\ entry[a.id].version <= entry'[a.id].version
          /\ entry[a.id].version \in Nat /\ entry'[a.id].version \in Nat
      BY <3>1 DEF Kept
    <3> HIDE DEF Exists
    <3> QED BY <3>1, <3>2
  <2> QED BY <2>1 DEF IInv, AuditOK, Changes
<1>3. Pending' \subseteq Pending /\ \A d \in Pending' : call'[d] = call[d]
  BY DEF Alone, Pending
<1>4. Chained'
  BY <1>3 DEF IInv, Chained, ChangesAreChained, Changes
<1> QED BY <1>1, <1>2, <1>4 DEF IInv, Alone

LEMMA QuietStep ==
    ASSUME IInv, NEW c \in Calls, Alone(c), UNCHANGED <<entry, audit>>,
           closed \subseteq closed', closed' \subseteq Months, paid' \subseteq Orders,
           CallInv(c)', c \notin Pending'
    PROVE  IInv'
<1>1. Kept /\ EntriesOK'
  BY UnchangedIsKept DEF IInv
<1> QED BY <1>1, CallStep

\* What a step makes of its call.
Called(c, s, id, seen, before, draft, opened, todo) ==
    /\ Alone(c) /\ call'[c].step = s /\ call'[c].op = call[c].op
    /\ call'[c].id = id /\ call'[c].seen = seen
    /\ call'[c].before = before /\ call'[c].draft = draft
    /\ call'[c].opened = opened
    /\ call'[c].todo = todo /\ call'[c].selected = call[c].selected

\* Only the step of the call changes.
LEMMA StepAlone ==
    ASSUME IInv, NEW c \in Calls, NEW s \in Steps, Becomes(c, s), closed \subseteq closed'
    PROVE  /\ Called(c, s, call[c].id, call[c].seen, call[c].before, call[c].draft,
                     call[c].opened, call[c].todo)
           /\ CallOK(c)'
<1>1. call[c] \in CallType /\ CallOK(c) /\ DOMAIN call = Calls
  BY DEF IInv, CallInv, CallOK
<1>2. call' = [call EXCEPT ![c].step = s]
  BY DEF Becomes
<1>3. Called(c, s, call[c].id, call[c].seen, call[c].before, call[c].draft,
                     call[c].opened, call[c].todo)
  BY <1>1, <1>2 DEF Called, Alone, CallType
<1>4. call'[c] \in CallType
  BY <1>1, <1>2 DEF CallType
<1> QED BY <1>1, <1>3, <1>4 DEF CallOK, Called

LEMMA FailingKeeps ==
    ASSUME IInv, NEW c \in Calls, Fails(c), UNCHANGED <<entry, audit, closed, paid>>
    PROVE  IInv'
<1>1. Becomes(c, "failed")
  BY DEF Fails, Becomes
<1>2. /\ Called(c, "failed", call[c].id, call[c].seen, call[c].before, call[c].draft,
                     call[c].opened, call[c].todo)
      /\ CallOK(c)'
  BY <1>1, StepAlone DEF Steps
<1>3. CallInv(c)'
  BY <1>2 DEF IInv, CallInv, Allowed, Creating, Updating, Deleting, Accruing, Underway,
              Creates, Accrues, Called
<1>4. c \notin Pending' /\ Alone(c)
  BY <1>2 DEF Pending, Called
<1> QED BY <1>3, <1>4, QuietStep DEF IInv

LEMMA AskCreateKeeps ==
    ASSUME IInv, NEW c \in Calls, AskCreate(c)
    PROVE  IInv'
<1>1. PICK type \in Types, month \in Months :
          call' = [call EXCEPT ![c].step = "checking", ![c].opened = closed,
                               ![c].draft = Draft(type, month, NoKey, {})]
  BY DEF AskCreate
<1> DEFINE D == Draft(type, month, NoKey, {})
<1>2. D \in Entries /\ Matches(D)
  BY DraftsAreEntries, KeysDiffer DEF Matches
<1> HIDE DEF D
<1>3. CallInv(c) /\ CallOK(c) /\ DOMAIN call = Calls /\ call[c] \in CallType /\ closed \subseteq Months
  BY DEF IInv, CallInv, CallOK
<1>4. /\ call'[c] \in CallType
      /\ Called(c, "checking", call[c].id, call[c].seen, call[c].before, D, closed, call[c].todo)
  BY <1>1, <1>2, <1>3 DEF CallType, D, Called, Alone, Steps
<1>5. UNCHANGED <<entry, closed, paid, audit>> /\ call[c].op = "create"
  BY DEF AskCreate
<1>6. CallInv(c)'
  <2>1. CallOK(c)'
    BY <1>3, <1>4, <1>5 DEF CallOK, Called
  <2>2. Creating(c)'
    BY <1>3, <1>4, <1>5, <1>2 DEF CallInv, Creating, Creates, Called, Matches, Underway
  <2> QED BY <1>3, <1>4, <1>5, <2>1, <2>2 DEF Called, CallInv, Allowed, Creates, Accrues
<1>7. c \notin Pending' /\ Alone(c)
  BY <1>4, <1>5 DEF Pending, Called
<1> QED BY <1>5, <1>6, <1>7, QuietStep DEF IInv

LEMMA AskUpdateKeeps ==
    ASSUME IInv, NEW c \in Calls, AskUpdate(c)
    PROVE  IInv'
<1>1. PICK i \in Ids :
          Live(i) /\ call' = [call EXCEPT ![c].id = i, ![c].seen = entry[i].version]
  BY DEF AskUpdate
<1>2. entry[i] \in Entries /\ entry[i].version \in Nat /\ Exists(i)
  BY <1>1 DEF Live, Exists, IInv, EntriesOK, Entries
<1>3. CallInv(c) /\ CallOK(c) /\ DOMAIN call = Calls /\ call[c] \in CallType
  BY DEF IInv, CallInv, CallOK
<1>4. call[c].step = "asked" /\ call[c].op = "update" /\ UNCHANGED <<entry, closed, paid, audit>>
  BY DEF AskUpdate, At
<1>5. /\ call'[c] \in CallType
      /\ Called(c, "asked", i, entry[i].version, call[c].before, call[c].draft,
                call[c].opened, call[c].todo)
  BY <1>1, <1>2, <1>3, <1>4 DEF CallType, Called, Alone
<1>6. CallInv(c)'
  <2>1. CallOK(c)'
    BY <1>3, <1>4, <1>5 DEF CallOK, Called
  <2>2. Updating(c)'
    BY <1>2, <1>4, <1>5 DEF Updating, Called, Underway, Exists
  <2> QED BY <1>3, <1>4, <1>5, <2>1, <2>2 DEF Called, CallInv, Allowed, Creates, Accrues
<1>7. c \notin Pending' /\ Alone(c)
  BY <1>5 DEF Pending, Called
<1> QED BY <1>4, <1>6, <1>7, QuietStep DEF IInv

LEMMA ReadForUpdateKeeps ==
    ASSUME IInv, NEW c \in Calls, ReadForUpdate(c)
    PROVE  IInv'
<1> DEFINE i == call[c].id
<1>1. call[c].step = "asked" /\ call[c].op = "update" /\ i # 0
      /\ UNCHANGED <<entry, closed, paid, audit>>
  BY DEF ReadForUpdate, At
<1>2. CallInv(c) /\ CallOK(c) /\ DOMAIN call = Calls /\ call[c] \in CallType /\ closed \subseteq Months
  BY DEF IInv, CallInv, CallOK
<1>3. i \in Ids /\ Exists(i) /\ call[c].seen <= entry[i].version /\ entry[i] \in Entries
      /\ Matches(entry[i])
  BY <1>1, <1>2 DEF CallInv, Updating, IInv, EntriesOK, Exists
<1>4. CASE ~Live(i)
  BY <1>4, <1>1, FailingKeeps DEF ReadForUpdate
<1>5. CASE Live(i)
  <2>1. PICK type \in Types, month \in Months, key \in {NoKey, entry[i].key} :
          call' = [call EXCEPT
                       ![c].step = "checking", ![c].opened = closed,
                       ![c].before = entry[i],
                       ![c].draft = Draft(type, month, key, entry[i].covers)]
    BY <1>5 DEF ReadForUpdate
  <2> DEFINE D == Draft(type, month, key, entry[i].covers)
  <2>2. D \in Entries /\ D.covers = entry[i].covers /\ Matches(D)
    <3>1. key \in Keys \cup {NoKey} /\ entry[i].covers \in SUBSET Orders
      BY <1>3 DEF Entries
    <3>2. D \in Entries /\ D.covers = entry[i].covers /\ D.key = key
      BY <3>1, DraftsAreEntries
    <3> QED BY <3>2, <1>3, KeysDiffer DEF Matches
  <2> HIDE DEF D
  <2>3. /\ call'[c] \in CallType
        /\ Called(c, "checking", i, call[c].seen, entry[i], D, closed, call[c].todo)
    BY <1>2, <1>3, <2>1, <2>2 DEF CallType, Called, Alone, Steps, D
  <2>4. CallInv(c)'
    <3>1. CallOK(c)'
      BY <1>1, <1>2, <2>3 DEF CallOK, Called
    <3>2. Updating(c)'
      <4>1. entry[i].version \in Nat
        BY <1>3 DEF Entries
      <4> QED BY <1>1, <1>3, <2>2, <2>3, <4>1 DEF Updating, Called, Underway, Exists, Matches
    <3> QED BY <1>1, <1>2, <2>3, <3>1, <3>2 DEF Called, CallInv, Allowed, Creates, Accrues
  <2>5. c \notin Pending' /\ Alone(c)
    BY <2>3 DEF Pending, Called
  <2> QED BY <1>1, <2>4, <2>5, QuietStep DEF IInv
<1> QED BY <1>4, <1>5

LEMMA ReadForDeleteKeeps ==
    ASSUME IInv, NEW c \in Calls, ReadForDelete(c)
    PROVE  IInv'
<1>1. PICK i \in Ids :
          /\ Exists(i)
          /\ IF Live(i)
             THEN call' = [call EXCEPT ![c].step = "checking", ![c].id = i,
                                       ![c].opened = closed, ![c].before = entry[i]]
             ELSE Fails(c)
  BY DEF ReadForDelete
<1>2. CallInv(c) /\ CallOK(c) /\ DOMAIN call = Calls /\ call[c] \in CallType /\ closed \subseteq Months
  BY DEF IInv, CallInv, CallOK
<1>3. call[c].op = "delete" /\ UNCHANGED <<entry, closed, paid, audit>>
  BY DEF ReadForDelete
<1>4. CASE ~Live(i)
  BY <1>1, <1>3, <1>4, FailingKeeps
<1>5. CASE Live(i)
  <2>1. entry[i] \in Entries
    BY <1>1 DEF IInv, EntriesOK, Exists
  <2>2. /\ call'[c] \in CallType
        /\ Called(c, "checking", i, call[c].seen, entry[i], call[c].draft, closed, call[c].todo)
    BY <1>1, <1>2, <1>5, <2>1 DEF CallType, Called, Alone, Steps
  <2>3. CallInv(c)'
    <3>1. CallOK(c)'
      BY <1>2, <1>3, <2>2 DEF CallOK, Called
    <3>2. Deleting(c)'
      BY <1>1, <1>3, <2>1, <2>2 DEF Deleting, Called, Exists
    <3> QED BY <1>2, <1>3, <2>2, <3>1, <3>2 DEF Called, CallInv, Allowed, Creates, Accrues
  <2>4. c \notin Pending' /\ Alone(c)
    BY <2>2 DEF Pending, Called
  <2> QED BY <1>3, <2>3, <2>4, QuietStep DEF IInv
<1> QED BY <1>4, <1>5

LEMMA SelectOrdersKeeps ==
    ASSUME IInv, NEW c \in Calls, SelectOrders(c)
    PROVE  IInv'
<1>1. CallInv(c) /\ CallOK(c) /\ DOMAIN call = Calls /\ call[c] \in CallType /\ paid \subseteq Orders
  BY DEF IInv, CallInv, CallOK
<1>2. Accrues(c) /\ UNCHANGED <<entry, closed, paid, audit>>
  BY DEF SelectOrders
<1> DEFINE s == IF paid = {} THEN "done" ELSE "looking"
<1>3. /\ call'[c] \in CallType /\ Alone(c) /\ call'[c].op = call[c].op
      /\ call'[c].step = s /\ call'[c].todo = paid /\ call'[c].selected = paid
      /\ call'[c].opened = call[c].opened /\ call'[c].before = call[c].before
  BY <1>1 DEF SelectOrders, CallType, Alone, Steps
<1>4. CallInv(c)'
  <2>1. CallOK(c)'
    BY <1>1, <1>2, <1>3 DEF CallOK
  <2>2. s \in {"looking", "done"}
    OBVIOUS
  <2>3. Creating(c)' /\ Allowed(c)'
    BY <1>1, <1>2, <1>3, <2>2 DEF Creating, Underway, CallInv, Creates, Accrues, Allowed
  <2>4. Accruing(c)'
    BY <1>3, <2>2 DEF Accruing
  <2> QED BY <1>2, <1>3, <2>1, <2>3, <2>4 DEF CallInv, Creates, Accrues
<1>5. c \notin Pending'
  BY <1>2, <1>3 DEF Pending, Accrues
<1> QED BY <1>2, <1>3, <1>4, <1>5, QuietStep DEF IInv

\* An order or a day that is looked up is booked or has a draft.
LEMMA LookUpKeeps ==
    ASSUME IInv, NEW c \in Calls, Accrues(c), At(c, "looking"),
           NEW key \in Keys, NEW covers \in SUBSET call[c].todo, LookUp(c, key, covers),
           \A o \in Orders : key = KeyOf(o) => covers = {o},
           call[c].op = "accrue" => \E o \in Orders : key = KeyOf(o),
           UNCHANGED <<entry, closed, paid, audit>>
    PROVE  IInv'
<1>1. /\ CallInv(c) /\ CallOK(c) /\ DOMAIN call = Calls /\ call[c] \in CallType
      /\ closed \subseteq Months
  BY DEF IInv, CallInv, CallOK
<1> DEFINE D == Draft("INCOME", ThisMonth, key, covers)
           left == call[c].todo \ covers
           s == IF WithKey(key) = {} THEN "checking" ELSE IF left = {} THEN "done" ELSE "looking"
<1>2. covers \in SUBSET Orders /\ left \in SUBSET Orders /\ call[c].selected \subseteq Orders
  BY <1>1 DEF CallOK, CallType
<1>3. D \in Entries /\ D.covers = covers /\ D.key = key /\ Matches(D)
  <2>1. "INCOME" \in Types /\ ThisMonth \in Months /\ key \in Keys \cup {NoKey}
    BY AccountingAssumption DEF Types
  <2>2. D \in Entries /\ D.covers = covers /\ D.key = key
    BY <1>2, <2>1, DraftsAreEntries
  <2> QED BY <2>2 DEF Matches
<1>4. call' = [call EXCEPT ![c].todo = left, ![c].step = s, ![c].opened = closed, ![c].draft = D]
  BY DEF LookUp, Rest
<1>5. s \in {"checking", "done", "looking"}
  OBVIOUS
<1>6. /\ s = "done" => left = {}
      /\ s \in {"looking", "done"} => \A o \in Orders : key = KeyOf(o) => Covered(o)
  <2>1. ASSUME NEW o \in Orders, key = KeyOf(o), WithKey(key) # {} PROVE Covered(o)
    <3>1. PICK i \in Ids : Exists(i) /\ entry[i].key = KeyOf(o)
      BY <2>1 DEF WithKey
    <3>2. entry[i].covers = {o}
      BY <3>1, <2>1 DEF IInv, EntriesOK, Matches
    <3> QED BY <3>1, <3>2 DEF Covered
  <2> QED BY <2>1
<1> HIDE DEF D, left, s
<1>7. /\ call'[c] \in CallType
      /\ Called(c, s, call[c].id, call[c].seen, call[c].before, D, closed, left)
  BY <1>1, <1>2, <1>3, <1>4, <1>5 DEF CallType, Called, Alone, Steps
<1>8. CallInv(c)'
  <2>1. CallOK(c)'
    BY <1>1, <1>7 DEF CallOK, Called, left
  <2>2. Creating(c)' /\ Allowed(c)'
    <3>1. call[c].before = NoEntry
      BY <1>1 DEF CallInv, Creating, Creates, Accrues
    <3> QED BY <1>3, <1>5, <1>7, <3>1 DEF Creating, Underway, Called, Matches, Allowed
  <2>3. ASSUME call[c].op = "accrue" PROVE Accruing(c)'
    <3>1. PICK x \in Orders : key = KeyOf(x)
      BY <2>3
    <3>2. covers = {x}
      BY <3>1
    <3>3. \A o \in call[c].selected \ call[c].todo : Covered(o)
      BY <1>1, <2>3 DEF CallInv, Accruing, At
    <3>4. \A o \in call[c].selected \ left : o = x \/ Covered(o)
      BY <3>2, <3>3 DEF left
    <3>5. \A o : Covered(o)' <=> Covered(o)
      BY DEF Covered, Exists
    <3>6. s \in {"looking", "done"} => Covered(x)
      BY <1>6, <3>1
    <3> HIDE DEF Covered
    <3> QED BY <1>3, <1>5, <1>6, <1>7, <3>1, <3>2, <3>4, <3>5, <3>6 DEF Accruing, Called
  <2> QED BY <1>5, <1>7, <2>1, <2>2, <2>3 DEF CallInv, Called, Creates, Accrues
<1>9. c \notin Pending' /\ Alone(c)
  BY <1>5, <1>7 DEF Pending, Called
<1> QED BY <1>8, <1>9, QuietStep DEF IInv

LEMMA AccrueOrderKeeps ==
    ASSUME IInv, NEW c \in Calls, AccrueOrder(c)
    PROVE  IInv'
<1>1. PICK o \in call[c].todo : LookUp(c, KeyOf(o), {o})
  BY DEF AccrueOrder
<1>2. At(c, "looking") /\ call[c].op = "accrue" /\ UNCHANGED <<entry, closed, paid, audit>>
  BY DEF AccrueOrder
<1>3. o \in Orders
  BY DEF IInv, CallInv, CallOK, CallType
<1>4. KeyOf(o) \in Keys /\ \A p \in Orders : KeyOf(o) = KeyOf(p) => {o} = {p}
  BY <1>3, KeysDiffer DEF Keys
<1> QED BY <1>1, <1>2, <1>3, <1>4, LookUpKeeps DEF Accrues

LEMMA AccrueDayKeeps ==
    ASSUME IInv, NEW c \in Calls, AccrueDay(c)
    PROVE  IInv'
<1>1. At(c, "looking") /\ call[c].op = "accrueDaily" /\ UNCHANGED <<entry, closed, paid, audit>>
  BY DEF AccrueDay
<1>2. PICK s \in Spellings : LookUp(c, DailyKey(s), call[c].todo)
  BY DEF AccrueDay
<1>3. DailyKey(s) \in Keys /\ \A p \in Orders : DailyKey(s) # KeyOf(p)
  BY KeysDiffer DEF Keys, DailyKeys
<1> QED BY <1>1, <1>2, <1>3, LookUpKeeps DEF Accrues

LEMMA CheckPeriodsKeeps ==
    ASSUME IInv, NEW c \in Calls, CheckPeriods(c)
    PROVE  IInv'
<1>1. call[c].step = "checking" /\ UNCHANGED <<entry, closed, paid, audit>>
  BY DEF CheckPeriods, At
<1>2. CASE ~\A e \in Checked(c) : Editable(e.type, e.month)
  BY <1>1, <1>2, FailingKeeps DEF CheckPeriods
<1>3. CASE \A e \in Checked(c) : Editable(e.type, e.month)
  <2>1. Becomes(c, "writing")
    BY <1>3 DEF CheckPeriods
  <2>2. /\ Called(c, "writing", call[c].id, call[c].seen, call[c].before, call[c].draft,
                     call[c].opened, call[c].todo)
        /\ CallOK(c)'
    BY <1>1, <2>1, StepAlone DEF Steps
  <2>3. CallInv(c)'
    <3>1. CallInv(c)
      BY DEF IInv
    <3>2. Allowed(c)'
      <4>1. \A e \in Checked(c) : e.type = "ADJUSTMENT" \/ e.month \notin call[c].opened
        BY <1>3, <3>1 DEF Editable, CallInv, CallOK
      <4> QED BY <2>2, <4>1 DEF Allowed, Called, Checked
    <3>3. Creates(c) => Creating(c)'
      BY <1>1, <2>2, <3>1 DEF CallInv, Creating, Called, Underway, Matches
    <3>4. call[c].op = "update" => Updating(c)'
      BY <1>1, <2>2, <3>1 DEF CallInv, Updating, Called, Underway, Matches, Exists
    <3>5. call[c].op = "delete" => Deleting(c)'
      BY <1>1, <2>2, <3>1 DEF CallInv, Deleting, Called, Underway, Exists
    <3>6. call[c].op = "accrue" => Accruing(c)'
      <4>1. \A o : Covered(o)' <=> Covered(o)
        BY <1>1 DEF Covered, Exists
      <4> HIDE DEF Covered
      <4> QED BY <1>1, <2>2, <3>1, <4>1 DEF CallInv, Accruing, Called
    <3>7. call[c].op # "close"
      BY <1>1, <3>1 DEF CallInv, Underway
    <3> QED BY <2>2, <3>1, <3>2, <3>3, <3>4, <3>5, <3>6, <3>7 DEF CallInv, Called, Creates, Accrues
  <2>4. c \notin Pending' /\ Alone(c)
    BY <2>2 DEF Pending, Called
  <2> QED BY <1>1, <2>3, <2>4, QuietStep DEF IInv
<1> QED BY <1>2, <1>3

LEMMA CloseMonthKeeps ==
    ASSUME IInv, NEW c \in Calls, CloseMonth(c)
    PROVE  IInv'
<1>1. /\ call[c].op = "close" /\ Becomes(c, "done") /\ UNCHANGED <<entry, paid, audit>>
      /\ closed \subseteq closed' /\ closed' \subseteq Months
  BY DEF CloseMonth, IInv
<1>2. /\ Called(c, "done", call[c].id, call[c].seen, call[c].before, call[c].draft,
                     call[c].opened, call[c].todo)
      /\ CallOK(c)'
  BY <1>1, StepAlone DEF Steps
<1>3. CallInv(c)'
  BY <1>1, <1>2 DEF IInv, CallInv, Called, Allowed, Creates, Accrues, Underway
<1>4. c \notin Pending' /\ Alone(c)
  BY <1>2 DEF Pending, Called
<1> QED BY <1>1, <1>3, <1>4, QuietStep DEF IInv

LEMMA OrderPaidKeeps ==
    ASSUME IInv, NEW o \in Orders, OrderPaid(o)
    PROVE  IInv'
<1>1. UNCHANGED <<entry, closed, audit, call>> /\ paid' \subseteq Orders
  BY DEF OrderPaid, IInv
<1>2. Kept /\ EntriesOK'
  BY <1>1, UnchangedIsKept DEF IInv
<1>3. \A d \in Calls : CallInv(d)'
  BY <1>1, <1>2, OthersKeep DEF IInv
<1>4. AuditOK' /\ Chained'
  BY <1>1 DEF IInv, AuditOK, Changes, Exists, Chained, ChangesAreChained, Pending
<1> QED BY <1>1, <1>2, <1>3, <1>4 DEF IInv

-----------------------------------------------------------------------------
(* Steps that write an entry.                                               *)

\* The entry that is written is one, its key is its own or none, and if it
\* replaces another it has its orders and a later version.
LEMMA WriteEntry ==
    ASSUME IInv, NEW i \in Ids, NEW e \in Entries, entry' = [entry EXCEPT ![i] = e],
           Matches(e), \A j \in WithKey(e.key) : j = i,
           Exists(i) => e.covers = entry[i].covers /\ entry[i].version < e.version
    PROVE  Kept /\ EntriesOK' /\ entry'[i] = e /\ \A j \in Ids \ {i} : entry'[j] = entry[j]
<1>1. entry \in [Ids -> Entries \cup {NoEntry}]
  BY DEF IInv, EntriesOK
<1>2. entry'[i] = e /\ \A j \in Ids \ {i} : entry'[j] = entry[j]
  BY <1>1
<1>3. \A j \in Ids : Exists(j) => entry[j].version \in Nat
  BY <1>1 DEF Exists, Entries
<1>4. e.version \in Nat /\ e # NoEntry
  BY NoEntryIsNone DEF Entries
<1>5. Kept
  BY <1>2, <1>3, <1>4 DEF Kept, Exists
<1>6. EntriesOK'
  <2>1. entry' \in [Ids -> Entries \cup {NoEntry}]
    BY <1>1
  <2>2. ASSUME NEW j \in Ids, NEW k \in Ids, entry'[j] # NoEntry, entry'[k] # NoEntry,
               entry'[j].key = entry'[k].key, j # k
        PROVE  entry'[j].key = NoKey
    <3>1. CASE j # i /\ k # i
      BY <1>2, <2>2, <3>1 DEF IInv, EntriesOK, Exists
    <3>2. CASE j = i
      BY <1>2, <2>2, <3>2 DEF WithKey, Exists
    <3>3. CASE k = i
      BY <1>2, <2>2, <3>3 DEF WithKey, Exists
    <3> QED BY <3>1, <3>2, <3>3
  <2>3. \A j \in Ids : Exists(j)' => Matches(entry[j])'
    BY <1>2 DEF IInv, EntriesOK, Exists, Matches
  <2> QED BY <2>1, <2>2, <2>3 DEF EntriesOK, Exists
<1> QED BY <1>2, <1>5, <1>6

LEMMA InsertKeeps ==
    ASSUME IInv, NEW c \in Calls, Insert(c)
    PROVE  IInv'
<1>1. /\ call[c].step = "writing" /\ Creates(c) /\ (\E i \in Ids : ~Exists(i))
      /\ UNCHANGED <<closed, paid, audit>>
  BY DEF Insert, At
<1>2. /\ CallInv(c) /\ CallOK(c) /\ DOMAIN call = Calls /\ call[c] \in CallType
      /\ closed \subseteq Months
  BY DEF IInv, CallInv, CallOK
<1> DEFINE D == call[c].draft
<1>3. D \in Entries /\ Matches(D) /\ call[c].before = NoEntry
  BY <1>1, <1>2 DEF CallInv, Creating, Underway
<1>4. c \notin Pending'
  <2>1. call'[c].op = call[c].op
    BY <1>2 DEF Insert, Fails, Becomes, CallType
  <2> QED BY <1>1, <2>1 DEF Pending, Creates
<1>5. CASE Taken(D.key)
  <2>1. CASE Fails(c)
    BY <1>1, <1>5, <2>1, FailingKeeps DEF Insert
  <2>2. CASE Becomes(c, AfterOne(c))
    <3>1. AfterOne(c) \in {"looking", "done"} /\ (AfterOne(c) = "done" => call[c].todo = {})
          /\ (call[c].todo = {} => AfterOne(c) = "done")
      BY DEF AfterOne
    <3>2. /\ Called(c, AfterOne(c), call[c].id, call[c].seen, call[c].before, call[c].draft,
                    call[c].opened, call[c].todo)
          /\ CallOK(c)'
      BY <1>1, <2>2, <3>1, StepAlone DEF Steps
    <3>3. UNCHANGED entry
      BY <1>5 DEF Insert
    <3>4. ASSUME call[c].op = "accrue" PROVE Accruing(c)'
      <4>1. PICK x \in Orders : D.key = KeyOf(x) /\ D.covers = {x} /\
                \A o \in call[c].selected \ call[c].todo : o = x \/ Covered(o)
        BY <1>1, <1>2, <3>4 DEF CallInv, Accruing
      <4>2. PICK i \in Ids : Exists(i) /\ entry[i].key = KeyOf(x)
        BY <1>5, <4>1 DEF Taken, WithKey
      <4>3. Covered(x)
        BY <4>2 DEF Covered, IInv, EntriesOK, Matches
      <4>4. \A o : Covered(o)' <=> Covered(o)
        BY <3>3 DEF Covered, Exists
      <4> HIDE DEF Covered
      <4> QED BY <3>1, <3>2, <4>1, <4>3, <4>4 DEF Accruing, Called
    <3>5. CallInv(c)'
      BY <1>1, <1>2, <1>3, <3>1, <3>2, <3>4
         DEF CallInv, Called, Allowed, Creating, Creates, Accrues, Underway
    <3> QED BY <1>1, <1>2, <1>4, <3>2, <3>3, <3>5, QuietStep DEF Called, IInv
  <2> QED BY <1>5, <2>1, <2>2 DEF Insert
<1>6. CASE ~Taken(D.key)
  <2>1. /\ entry' = [entry EXCEPT ![NextId] = D]
        /\ call' = [call EXCEPT ![c].step = "auditing", ![c].id = NextId]
    BY <1>6 DEF Insert
  <2>2. NextId \in Ids /\ ~Exists(NextId)
    BY <1>1, NextIdIsFree
  <2>3. /\ Kept /\ EntriesOK' /\ entry'[NextId] = D
        /\ \A j \in Ids \ {NextId} : entry'[j] = entry[j]
    <3>1. \A j \in WithKey(D.key) : j = NextId
      BY <1>6 DEF Taken
    <3> HIDE DEF D
    <3> QED BY <1>3, <2>1, <2>2, <3>1, WriteEntry
  <2>4. /\ call'[c] \in CallType
        /\ Called(c, "auditing", NextId, call[c].seen, call[c].before, call[c].draft,
                  call[c].opened, call[c].todo)
    BY <1>2, <2>1, <2>2 DEF CallType, Called, Alone, Steps
  <2>5. Creating(c)'
    BY <1>3, <2>2, <2>3, <2>4, NoEntryIsNone DEF Creating, Called, Exists, Matches
  <2>6. ASSUME call[c].op = "accrue" PROVE Accruing(c)'
    <3>1. PICK x \in Orders : D.covers = {x} /\
              \A o \in call[c].selected \ call[c].todo : o = x \/ Covered(o)
      BY <1>1, <1>2, <2>6 DEF CallInv, Accruing
    <3>2. \A o : Covered(o) => Covered(o)'
      BY <2>3, CoveredStays
    <3>3. Covered(x)'
      BY <1>3, <2>2, <2>3, <3>1, NoEntryIsNone DEF Covered, Exists
    <3> HIDE DEF Covered
    <3> QED BY <2>4, <3>1, <3>2, <3>3 DEF Accruing, Called
  <2>7. CallInv(c)'
    <3>1. CallOK(c)'
      BY <1>1, <1>2, <2>4 DEF CallOK, Called
    <3> QED BY <1>1, <1>2, <2>4, <2>5, <2>6, <3>1
          DEF CallInv, Called, Allowed, Creates, Accrues
  <2> QED BY <1>1, <1>2, <1>4, <2>3, <2>4, <2>7, CallStep DEF Called, IInv
<1> QED BY <1>5, <1>6

LEMMA DeleteKeeps ==
    ASSUME IInv, NEW c \in Calls, Delete(c)
    PROVE  IInv'
<1> DEFINE i == call[c].id
           e == [entry[i] EXCEPT !.deleted = TRUE, !.version = entry[i].version + 1]
<1>1. call[c].step = "writing" /\ call[c].op = "delete" /\ UNCHANGED <<closed, paid, audit>>
  BY DEF Delete, At
<1>2. /\ CallInv(c) /\ CallOK(c) /\ DOMAIN call = Calls /\ call[c] \in CallType
      /\ closed \subseteq Months
  BY DEF IInv, CallInv, CallOK
<1>3. /\ i \in Ids /\ Exists(i) /\ entry[i] \in Entries /\ Matches(entry[i])
      /\ call[c].before \in Entries
  BY <1>1, <1>2 DEF CallInv, Deleting, Underway, IInv, EntriesOK, Exists
<1>4. entry' = [entry EXCEPT ![i] = e]
  BY <1>3 DEF Delete, IInv, EntriesOK
<1>5. e \in Entries /\ e.key = entry[i].key /\ e.covers = entry[i].covers
      /\ entry[i].version < e.version
  <2>1. entry[i].version \in Nat /\ entry[i].version + 1 \in Nat
    BY <1>3 DEF Entries
  <2>2. e \in Entries
    BY <1>3, <2>1, LaterEntries
  <2>3. e.key = entry[i].key /\ e.covers = entry[i].covers /\ e.version = entry[i].version + 1
    BY <1>3 DEF Entries
  <2> HIDE DEF e
  <2> QED BY <2>1, <2>2, <2>3
<1>6. \A j \in WithKey(e.key) : j = i
  BY <1>3, <1>5 DEF WithKey, IInv, EntriesOK
<1> HIDE DEF e
<1>7. Kept /\ EntriesOK' /\ entry'[i] = e
  <2>1. Matches(e)
    BY <1>3, <1>5 DEF Matches
  <2> QED BY <1>3, <1>4, <1>5, <1>6, <2>1, WriteEntry
<1>8. /\ call'[c] \in CallType
      /\ Called(c, "auditing", i, call[c].seen, call[c].before, e, call[c].opened, call[c].todo)
  <2>1. call' = [call EXCEPT ![c].step = "auditing", ![c].draft = e]
    BY <1>7 DEF Delete
  <2> QED BY <1>2, <1>5, <2>1 DEF CallType, Called, Alone, Steps
<1>9. CallInv(c)'
  <2>1. CallOK(c)'
    BY <1>1, <1>2, <1>8 DEF CallOK, Called
  <2>2. Deleting(c)'
    BY <1>3, <1>5, <1>7, <1>8, NoEntryIsNone DEF Deleting, Called, Exists
  <2> QED BY <1>1, <1>2, <1>8, <2>1, <2>2 DEF CallInv, Called, Allowed, Creates, Accrues
<1>10. c \notin Pending'
  BY <1>1, <1>8 DEF Pending, Called
<1> QED BY <1>1, <1>2, <1>7, <1>8, <1>9, <1>10, CallStep DEF Called, IInv

\* An update that is made replaces the version that was read, which nobody
\* has replaced, in the log or about to be in it.
LEMMA UpdateKeeps ==
    ASSUME IInv, NEW c \in Calls, Update(c)
    PROVE  IInv'
<1> DEFINE i == call[c].id
           D == call[c].draft
           e == [D EXCEPT !.version = entry[i].version + 1]
<1>1. call[c].step = "writing" /\ call[c].op = "update" /\ UNCHANGED <<closed, paid, audit>>
  BY DEF Update, At
<1>2. /\ CallInv(c) /\ CallOK(c) /\ DOMAIN call = Calls /\ call[c] \in CallType
      /\ closed \subseteq Months
  BY DEF IInv, CallInv, CallOK
<1>3. CASE ~(SeenByCaller(c) /\ ~\E j \in WithKey(D.key) : j # i)
  BY <1>1, <1>3, FailingKeeps DEF Update
<1>4. CASE SeenByCaller(c) /\ ~\E j \in WithKey(D.key) : j # i
  <2>1. /\ entry' = [entry EXCEPT ![i] = e] /\ Becomes(c, "auditing")
    BY <1>4 DEF Update
  <2>2. /\ i \in Ids /\ Exists(i) /\ entry[i] \in Entries
        /\ call[c].before \in Entries /\ D \in Entries
        /\ D.covers = entry[i].covers /\ Matches(D)
        /\ call[c].seen <= call[c].before.version
        /\ call[c].before.version <= entry[i].version
    BY <1>1, <1>2 DEF CallInv, Updating, Underway, IInv, EntriesOK, Exists
  <2>3. call[c].before.version \in Nat /\ entry[i].version \in Nat /\ call[c].seen \in Nat
    BY <1>2, <2>2 DEF Entries, CallType
  <2>4. call[c].before.version = entry[i].version
    BY <1>4, <2>2, <2>3 DEF SeenByCaller
  <2>5. e \in Entries /\ e.key = D.key /\ e.covers = D.covers /\ e.version = entry[i].version + 1
    <3>1. entry[i].version + 1 \in Nat
      BY <2>3
    <3>2. e \in Entries
      BY <2>2, <3>1, LaterEntries
    <3>3. e.key = D.key /\ e.covers = D.covers /\ e.version = entry[i].version + 1
      BY <2>2 DEF Entries
    <3> QED BY <3>2, <3>3
  <2> HIDE DEF e
  <2>6. Kept /\ EntriesOK' /\ entry'[i] = e
    <3>1. Matches(e)
      BY <2>2, <2>5 DEF Matches
    <3>2. \A j \in WithKey(e.key) : j = i
      BY <1>4, <2>5
    <3>3. entry[i].version < e.version
      BY <2>3, <2>5
    <3> QED BY <2>1, <2>2, <2>5, <3>1, <3>2, <3>3, WriteEntry
  <2>7. /\ Called(c, "auditing", i, call[c].seen, call[c].before, D, call[c].opened,
                  call[c].todo)
        /\ CallOK(c)'
    BY <1>1, <2>1, StepAlone DEF Steps
  <2>8. CallInv(c)'
    <3>1. Updating(c)'
      <4>1. call[c].before.version <= e.version /\ call[c].before.version # e.version
        BY <2>3, <2>4, <2>5
      <4> QED BY <2>2, <2>5, <2>6, <2>7, <4>1, NoEntryIsNone DEF Updating, Called, Exists, Matches
    <3> QED BY <1>1, <1>2, <2>7, <3>1 DEF CallInv, Called, Allowed, Creates, Accrues
  <2>9. \A d \in Calls : CallInv(d)'
    BY <1>1, <2>6, <2>7, <2>8, OthersKeep DEF IInv, Called, Alone
  <2>10. AuditOK'
    <3>1. ASSUME NEW a \in Changes
          PROVE  Exists(a.id)' /\ a.before.version \in Nat /\ a.before.version < entry'[a.id].version
      <4>1. /\ a.id \in Ids /\ Exists(a.id) /\ a.before.version \in Nat
            /\ a.before.version < entry[a.id].version
        BY DEF IInv, AuditOK, Changes
      <4>2. /\ Exists(a.id)' /\ entry[a.id].version <= entry'[a.id].version
            /\ entry[a.id].version \in Nat /\ entry'[a.id].version \in Nat
        BY <4>1, <2>6 DEF Kept
      <4> HIDE DEF Exists
      <4> QED BY <4>1, <4>2
    <3> QED BY <1>1, <3>1 DEF IInv, AuditOK, Changes
  <2>11. Pending' \subseteq Pending \cup {c} /\ \A d \in Pending' \ {c} : call'[d] = call[d]
    BY <2>7 DEF Called, Alone, Pending
  <2>12. c \notin Pending
    BY <1>1 DEF Pending
  <2>13. \A a \in Changes : a.id = i => a.before.version # call[c].before.version
    <3> SUFFICES ASSUME NEW a \in Changes, a.id = i PROVE a.before.version # call[c].before.version
      OBVIOUS
    <3>1. a.before.version < entry[i].version /\ a.before.version \in Nat
      BY DEF IInv, AuditOK
    <3> QED BY <2>3, <2>4, <3>1
  <2>14. \A d \in Pending : call[d].id = i => call[d].before.version # call[c].before.version
    BY <2>4 DEF Pending, IInv, CallInv, Updating, Underway
  <2>15. Chained'
    <3>1. Changes' = Changes /\ ChangesAreChained'
      BY <1>1 DEF IInv, Chained, ChangesAreChained, Changes
    <3>2. call'[c].id = i /\ call'[c].before = call[c].before
      BY <2>7 DEF Called
    <3>3. ASSUME NEW a \in Changes, NEW d \in Pending', a.id = call'[d].id
          PROVE  a.before.version # call'[d].before.version
      <4>1. CASE d = c
        BY <2>13, <3>2, <3>3, <4>1
      <4>2. CASE d # c
        BY <2>11, <3>3, <4>2 DEF IInv, Chained
      <4> QED BY <4>1, <4>2
    <3>4. ASSUME NEW d \in Pending', NEW b \in Pending', call'[d].id = call'[b].id,
                 call'[d].before.version = call'[b].before.version
          PROVE  d = b
      BY <2>11, <2>14, <3>2, <3>4 DEF IInv, Chained
    <3> QED BY <3>1, <3>3, <3>4 DEF Chained
  <2> QED BY <1>1, <2>6, <2>7, <2>9, <2>10, <2>15 DEF IInv, Called, Alone
<1> QED BY <1>3, <1>4

LEMMA WriteAuditKeeps ==
    ASSUME IInv, NEW c \in Calls, WriteAudit(c)
    PROVE  IInv'
<1> DEFINE new == [by |-> c, action |-> call[c].op, id |-> call[c].id,
                   before |-> call[c].before, after |-> Written(c)]
<1>1. /\ call[c].step = "auditing" /\ UNCHANGED <<entry, closed, paid>>
      /\ audit' = audit \cup {new} /\ Becomes(c, AfterOne(c))
  BY DEF WriteAudit, At
<1>2. /\ CallInv(c) /\ CallOK(c) /\ DOMAIN call = Calls /\ call[c] \in CallType
      /\ closed \subseteq Months
  BY DEF IInv, CallInv, CallOK
<1>3. AfterOne(c) \in {"looking", "done"} /\ (AfterOne(c) = "done" => call[c].todo = {})
      /\ (call[c].todo = {} => AfterOne(c) = "done")
  BY DEF AfterOne
<1>4. /\ Called(c, AfterOne(c), call[c].id, call[c].seen, call[c].before, call[c].draft,
                call[c].opened, call[c].todo)
      /\ CallOK(c)'
  BY <1>1, <1>3, StepAlone DEF Steps
<1>5. CallInv(c)'
  <2>1. ASSUME call[c].op = "accrue" PROVE Accruing(c)'
    <3>1. \A o \in call[c].selected \ call[c].todo : Covered(o)
      BY <1>1, <1>2, <2>1 DEF CallInv, Accruing
    <3>2. \A o : Covered(o)' <=> Covered(o)
      BY <1>1 DEF Covered, Exists
    <3> HIDE DEF Covered
    <3> QED BY <1>3, <1>4, <3>1, <3>2 DEF Accruing, Called
  <2> QED BY <1>1, <1>2, <1>3, <1>4, <2>1
        DEF CallInv, Called, Allowed, Creating, Updating, Deleting, Creates, Accrues, Underway
<1>6. Kept /\ EntriesOK'
  BY <1>1, UnchangedIsKept DEF IInv
<1>7. \A d \in Calls : CallInv(d)'
  BY <1>1, <1>4, <1>5, <1>6, OthersKeep DEF IInv, Called, Alone
<1>8. new.id \in Ids /\ new.after \in Entries
  <2>1. call[c].op \in OperationKinds /\ call[c].op # "close"
    BY <1>1, <1>2 DEF CallInv, CallType, Underway
  <2>2. CASE Creates(c)
    BY <1>1, <1>2, <2>2 DEF CallInv, Creating, Underway, Creates, Written
  <2>3. CASE call[c].op = "update"
    BY <1>1, <1>2, <2>3 DEF CallInv, Updating, Underway, Written, IInv, EntriesOK, Exists
  <2>4. CASE call[c].op = "delete"
    BY <1>1, <1>2, <2>4 DEF CallInv, Deleting, Underway, Written
  <2> QED BY <2>1, <2>2, <2>3, <2>4 DEF OperationKinds, Creates
<1>9. call[c].op = "update" =>
          /\ Exists(new.id) /\ new.before.version \in Nat
          /\ new.before.version < entry[new.id].version
  <2> SUFFICES ASSUME call[c].op = "update"
               PROVE  /\ Exists(new.id) /\ new.before.version \in Nat
                      /\ new.before.version < entry[new.id].version
    OBVIOUS
  <2>1. /\ call[c].id \in Ids /\ Exists(call[c].id) /\ call[c].before \in Entries
        /\ call[c].before.version <= entry[call[c].id].version
        /\ call[c].before.version # entry[call[c].id].version
    BY <1>1, <1>2 DEF CallInv, Updating, Underway
  <2>2. call[c].before.version \in Nat /\ entry[call[c].id].version \in Nat
    BY <2>1 DEF IInv, EntriesOK, Exists, Entries
  <2> QED BY <2>1, <2>2
<1>10. /\ Changes' \subseteq Changes \cup {new}
       /\ new \in Changes' => call[c].op = "update" /\ c \in Pending
       /\ new.id = call[c].id /\ new.before = call[c].before
       /\ Pending' \subseteq Pending \ {c} /\ \A d \in Pending' : call'[d] = call[d]
  BY <1>1, <1>3, <1>4 DEF Changes, Pending, Called, Alone
<1> HIDE DEF new
<1>11. AuditOK'
  <2>1. \A a \in audit' : a.id \in Ids /\ a.after \in Entries
    BY <1>1, <1>8 DEF IInv, AuditOK
  <2>2. \A a \in Changes' :
          Exists(a.id) /\ a.before.version \in Nat /\ a.before.version < entry[a.id].version
    BY <1>9, <1>10 DEF IInv, AuditOK
  <2> QED BY <1>1, <2>1, <2>2 DEF AuditOK, Exists
<1>12. Chained'
  <2>1. \A a, b \in Changes' :
          a.id = b.id /\ a.before.version = b.before.version => a = b
    <3>1. \A a, b \in Changes : a.id = b.id /\ a.before.version = b.before.version => a = b
      BY DEF IInv, Chained, ChangesAreChained, Changes
    <3>2. c \in Pending => \A a \in Changes : a.id = new.id => a.before.version # new.before.version
      BY <1>10 DEF IInv, Chained
    <3> QED BY <1>10, <3>1, <3>2
  <2>2. \A a \in Changes', d \in Pending' :
          a.id = call'[d].id => a.before.version # call'[d].before.version
    BY <1>10 DEF IInv, Chained
  <2>3. \A d, b \in Pending' :
          call'[d].id = call'[b].id /\ call'[d].before.version = call'[b].before.version => d = b
    BY <1>10 DEF IInv, Chained
  <2> QED BY <2>1, <2>2, <2>3 DEF Chained, ChangesAreChained, Changes
<1> QED BY <1>1, <1>4, <1>6, <1>7, <1>11, <1>12 DEF IInv, Called, Alone

-----------------------------------------------------------------------------
(* Theorems.                                                                *)

LEMMA InvInitially == Init => IInv
<1> SUFFICES ASSUME Init PROVE IInv
  OBVIOUS
<1>1. \A i \in Ids : ~Exists(i)
  BY DEF Init, Exists
<1>2. EntriesOK /\ closed \subseteq Months /\ paid \subseteq Orders /\ DOMAIN call = Calls
  BY <1>1 DEF Init, EntriesOK
<1>3. ASSUME NEW c \in Calls PROVE CallInv(c)
  <2>1. PICK op \in OperationKinds : call[c] = NewCall(op)
    BY DEF Init
  <2>2. /\ call[c] \in CallType /\ call[c].step = "asked" /\ call[c].id = 0
        /\ call[c].opened = {} /\ call[c].todo = {} /\ call[c].before = NoEntry
    BY <2>1 DEF NewCall, CallType, Steps
  <2> QED BY <2>2 DEF CallInv, CallOK, Allowed, Creating, Updating, Deleting, Accruing, Underway
<1>4. AuditOK /\ Chained
  BY <1>3 DEF Init, AuditOK, Chained, ChangesAreChained, Changes, Pending, NewCall
<1> QED BY <1>2, <1>3, <1>4 DEF IInv

LEMMA InvKept == IInv /\ [Next]_vars => IInv'
<1> SUFFICES ASSUME IInv, [Next]_vars PROVE IInv'
  OBVIOUS
<1>1. CASE UNCHANGED vars
  <2>1. UNCHANGED <<entry, closed, paid, audit, call>>
    BY <1>1 DEF vars
  <2>2. Kept /\ EntriesOK'
    BY <2>1, UnchangedIsKept DEF IInv
  <2>3. \A d \in Calls : CallInv(d)'
    BY <2>1, <2>2, OthersKeep DEF IInv
  <2> QED BY <2>1, <2>2, <2>3
        DEF IInv, AuditOK, Changes, Exists, Chained, ChangesAreChained, Pending
<1>2. ASSUME NEW o \in Orders, OrderPaid(o) PROVE IInv'
  BY <1>2, OrderPaidKeeps
<1>3. ASSUME NEW c \in Calls,
          \/ AskCreate(c) \/ AskUpdate(c) \/ ReadForUpdate(c) \/ ReadForDelete(c)
          \/ SelectOrders(c) \/ AccrueOrder(c) \/ AccrueDay(c)
          \/ CheckPeriods(c) \/ Insert(c) \/ Update(c) \/ Delete(c) \/ WriteAudit(c)
          \/ CloseMonth(c)
      PROVE IInv'
  BY <1>3, AskCreateKeeps, AskUpdateKeeps, ReadForUpdateKeeps, ReadForDeleteKeeps,
     SelectOrdersKeeps, AccrueOrderKeeps, AccrueDayKeeps, CheckPeriodsKeeps, InsertKeeps,
     UpdateKeeps, DeleteKeeps, WriteAuditKeeps, CloseMonthKeeps
<1> QED BY <1>1, <1>2, <1>3 DEF Next

LEMMA InvAlways == Spec => []IInv
<1> QED BY InvInitially, InvKept, PTL DEF Spec

\* Entries, calls and the log are what they should be, and no two entries
\* share a key (the unique index on idempotencyKey).
THEOREM AccountingTypeCorrect == Spec => []TypeOK
<1>1. IInv => TypeOK
  BY DEF IInv, EntriesOK, CallInv, CallOK, CallType, AuditOK, TypeOK
<1> QED BY <1>1, InvAlways, PTL

\* No change of an entry is lost: an update is conditional on the version its
\* form was opened with, which is at most the one updateTx read, so that no
\* two updates in the log replaced the same version.
THEOREM AccountingChangesAreChained == Spec => []ChangesAreChained
<1>1. IInv => ChangesAreChained
  BY DEF IInv, Chained
<1> QED BY <1>1, InvAlways, PTL

\* Overlapping accruals, order by order or of the day, and whatever is created
\* beside them book the revenue of an order once, unless its entry lost its
\* key, the day was accrued in both ways, or its date was written in two ways.
THEOREM AccountingRevenueIsBookedOnce == Spec => []RevenueIsBookedOnce
<1>1. IInv => RevenueIsBookedOnce
  <2> SUFFICES ASSUME IInv, NEW i \in Ids, NEW j \in Ids, i # j, Live(i), Live(j),
                      NEW o \in entry[i].covers \cap entry[j].covers
               PROVE  \/ NoKey \in {entry[i].key, entry[j].key}
                      \/ /\ entry[i].key # entry[j].key
                         /\ {entry[i].key, entry[j].key} \cap DailyKeys # {}
    BY DEF RevenueIsBookedOnce
  <2>1. /\ Exists(i) /\ Exists(j) /\ entry[i] \in Entries /\ entry[j] \in Entries
        /\ Matches(entry[i]) /\ Matches(entry[j])
        /\ entry[i].key = entry[j].key => entry[i].key = NoKey
    BY DEF IInv, EntriesOK, Live, Exists
  <2>2. ASSUME NEW k \in Ids, entry[k] \in Entries, Matches(entry[k]), o \in entry[k].covers,
               entry[k].key # NoKey, entry[k].key \notin DailyKeys
        PROVE  entry[k].key = KeyOf(o)
    <3>1. PICK p \in Orders : entry[k].key = KeyOf(p)
      BY <2>2 DEF Entries, Keys
    <3> QED BY <2>2, <3>1 DEF Matches
  <2> QED BY <2>1, <2>2
<1> QED BY <1>1, InvAlways, PTL

\* An accrual order by order that comes to its end leaves no order it selected
\* without an entry, whether the entry was there, came in between or is its own.
THEOREM AccountingAccrualIsComplete == Spec => []AccrualIsComplete
<1>1. IInv => AccrualIsComplete
  BY DEF IInv, CallInv, Accruing, AccrualIsComplete, Covered, At, CallOK
<1> QED BY <1>1, InvAlways, PTL

\* What is written, and what it replaces, is of a month that was open when the
\* call began, or an adjustment; of deletes this holds of the entry as it was
\* read.
THEOREM AccountingLateChangesAreOld == Spec => LateChangesAreOld
<1> DEFINE Old == \A i \in Ids, c \in Calls :
          (Insert(c) \/ Update(c) \/ Delete(c)) /\ entry'[i] # entry[i] =>
              \/ Delete(c) /\ Moved(c)
              \/ \A e \in {entry[i], entry'[i]} \ {NoEntry} :
                    e.type = "ADJUSTMENT" \/ e.month \notin call[c].opened
<1>1. IInv => Old
  <2> SUFFICES ASSUME IInv, NEW i \in Ids, NEW c \in Calls,
                      Insert(c) \/ Update(c) \/ Delete(c),
                      entry'[i] # entry[i], ~(Delete(c) /\ Moved(c)),
                      NEW e \in {entry[i], entry'[i]} \ {NoEntry}
               PROVE  e.type = "ADJUSTMENT" \/ e.month \notin call[c].opened
    OBVIOUS
  <2>1. /\ CallInv(c) /\ call[c].step = "writing" /\ entry \in [Ids -> Entries \cup {NoEntry}]
        /\ \A x \in Checked(c) : x.type = "ADJUSTMENT" \/ x.month \notin call[c].opened
    BY DEF IInv, CallInv, Allowed, Insert, Update, Delete, At, EntriesOK
  <2>2. CASE Insert(c)
    <3>1. entry' = [entry EXCEPT ![NextId] = call[c].draft] /\ NextId \in Ids /\ ~Exists(NextId)
      BY <2>2, NextIdIsFree DEF Insert
    <3>2. e = call[c].draft /\ e # NoEntry
      BY <2>1, <3>1 DEF Exists
    <3> QED BY <2>1, <3>2 DEF Checked
  <2>3. CASE Update(c)
    <3> DEFINE D == call[c].draft
               n == [D EXCEPT !.version = entry[call[c].id].version + 1]
    <3>1. SeenByCaller(c) /\ entry' = [entry EXCEPT ![call[c].id] = n] /\ call[c].op = "update"
      BY <2>3 DEF Update
    <3>2. /\ call[c].id \in Ids /\ Exists(call[c].id) /\ entry[call[c].id] \in Entries
          /\ call[c].before \in Entries /\ D \in Entries
          /\ call[c].seen <= call[c].before.version
          /\ call[c].before.version <= entry[call[c].id].version
          /\ call[c].before.version = entry[call[c].id].version =>
                call[c].before = entry[call[c].id]
      BY <2>1, <3>1 DEF CallInv, Updating, Underway, IInv, EntriesOK, Exists
    <3>3. call[c].before.version \in Nat /\ entry[call[c].id].version \in Nat
          /\ call[c].seen \in Nat /\ entry[call[c].id].version = call[c].seen
      BY <2>1, <3>1, <3>2 DEF Entries, CallInv, CallOK, CallType, SeenByCaller
    <3>4. call[c].before = entry[call[c].id]
      BY <3>2, <3>3
    <3>5. n.type = D.type /\ n.month = D.month
      BY <3>2 DEF Entries
    <3>6. D \in Checked(c) /\ entry[call[c].id] \in Checked(c)
      BY <3>2, <3>4, NoEntryIsNone DEF Checked
    <3> HIDE DEF n
    <3>7. i = call[c].id /\ e \in {entry[call[c].id], n}
      BY <2>1, <3>1, <3>2
    <3> QED BY <2>1, <3>5, <3>6, <3>7
  <2>4. CASE Delete(c)
    <3> DEFINE id == call[c].id
               n == [entry[id] EXCEPT !.deleted = TRUE, !.version = entry[id].version + 1]
    <3>1. entry' = [entry EXCEPT ![id] = n] /\ call[c].op = "delete" /\ ~Moved(c)
      BY <2>4 DEF Delete
    <3>2. id \in Ids /\ entry[id] \in Entries /\ call[c].before \in Entries
      BY <2>1, <3>1 DEF CallInv, Deleting, Underway, IInv, EntriesOK, Exists
    <3>3. entry[id].type = call[c].before.type /\ entry[id].month = call[c].before.month
      BY <3>1 DEF Moved
    <3>4. n.type = entry[id].type /\ n.month = entry[id].month
      BY <3>2 DEF Entries
    <3>5. call[c].before \in Checked(c)
      BY <3>2, NoEntryIsNone DEF Checked
    <3> HIDE DEF n
    <3>6. e \in {entry[id], n}
      BY <2>1, <3>1, <3>2
    <3> QED BY <2>1, <3>3, <3>4, <3>5, <3>6
  <2> QED BY <2>2, <2>3, <2>4
<1> QED BY <1>1, InvAlways, PTL DEF LateChangesAreOld

=============================================================================
