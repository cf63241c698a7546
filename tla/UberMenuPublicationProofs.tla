--------------------- MODULE UberMenuPublicationProofs ---------------------
(***************************************************************************)
(* Theorems about the published menu, for any items, prices, donor store,  *)
(* any number of publications and switches at the same time and any bounds.*)
(***************************************************************************)
EXTENDS UberMenuPublication, SequenceTheorems, TLAPS

-----------------------------------------------------------------------------
\* What the operators of the model return.

LEMMA VersionsOf ==
    ASSUME TypeOK
    PROVE  /\ version \in [DOMAIN version -> Versions]
           /\ DOMAIN version = 1 .. Len(version) /\ Len(version) \in Nat
BY LenProperties, ElementOfSeq DEF TypeOK

\* A rewrite of the rows is again a sequence of as many rows.
LEMMA RowsRewritten ==
    ASSUME TypeOK, NEW f \in [DOMAIN version -> Versions]
    PROVE  f \in Seq(Versions) /\ Len(f) = Len(version) /\ DOMAIN f = DOMAIN version
BY VersionsOf, IsASeq

LEMMA EffectiveIs ==
    ASSUME TypeOK, NEW i \in Items
    PROVE  Effective(i) \in Prices \cup {"null"}
BY DEF Effective, TypeOK, Prices

LEMMA PayloadIs ==
    ASSUME TypeOK, NEW kept
    PROVE  Payload(kept) \in Menus
<1>1. ASSUME NEW i \in Items
      PROVE  (IF i \notin kept THEN Absent
              ELSE [price |-> IF Effective(i) = "null" THEN "source" ELSE Effective(i),
                    until |-> IF Offered(i) THEN 0 ELSE Forever]) \in Entries
  BY EffectiveIs, MenuAssumption DEF Absent, Entries, Prices, Days, Forever
<1> QED
  BY <1>1 DEF Payload, Menus

LEMMA RisksIs ==
    ASSUME NEW menu, NEW own
    PROVE  Risks(menu, own) \in RiskSets
BY DEF Risks, RiskSets, NoRisk

LEMMA ConstantsAre ==
    /\ NoMenu \in Menus /\ NoPrint \in Fingerprints
    /\ IdlePublication \in Publications /\ IdleSwitch \in Switches
<1>1. NoMenu \in Menus
  BY MenuAssumption DEF NoMenu, Menus, Entries, Absent, Days, Forever
<1>2. NoPrint \in Fingerprints
  BY <1>1 DEF NoPrint, Fingerprints, NoRisk, RiskSets
<1>3. IdlePublication \in Publications
  BY <1>1, <1>2 DEF IdlePublication, Publications
<1>4. IdleSwitch \in Switches
  BY MenuAssumption DEF IdleSwitch, Switches, Days, Forever
<1> QED
  BY <1>1, <1>2, <1>3, <1>4

LEMMA StepIs ==
    ASSUME NEW r \in Publications, NEW s
    PROVE  /\ [r EXCEPT !.step = s].menu = r.menu
           /\ [r EXCEPT !.step = s].step = s
           /\ [r EXCEPT !.step = s].print = r.print
           /\ [r EXCEPT !.step = s].own = r.own
BY DEF Publications

LEMMA UnsentIs ==
    ASSUME TypeOK, NEW rows
    PROVE  Unsent(rows) \in [Items -> {"told", "unread", "read"}]
BY DEF Unsent, TypeOK

LEMMA FinishedIs ==
    ASSUME TypeOK, NEW v \in DOMAIN version, NEW s \in {"SUCCEEDED", "FAILED"}
    PROVE  /\ Finished(s, v) \in [DOMAIN version -> Versions]
           /\ Finished(s, v)[v].status = s
           /\ Finished(s, v)[v].answered = version[v].answered
           /\ Finished(s, v)[v].lease = version[v].lease
           /\ Finished(s, v)[v].menu = version[v].menu
           /\ \A u \in DOMAIN version \ {v} : Finished(s, v)[u] = version[u]
<1>1. restored \subseteq Items
  BY DEF TypeOK
<1> QED
  BY <1>1, VersionsOf DEF Finished, Versions

-----------------------------------------------------------------------------
(* The type invariant                                                       *)

LEMMA TypeInit == Init => TypeOK
<1> SUFFICES ASSUME Init PROVE TypeOK
  OBVIOUS
<1>1. /\ today \in 0 .. LastDay /\ changes \in 0 .. MaxChanges
      /\ item \in [Items -> [on : BOOLEAN, until : 0 .. LastDay + 1]]
      /\ config \in [Items -> Rows]
      /\ legacy \subseteq Legacy /\ restored \subseteq Items \ Options
      /\ publishing \in [Publishers -> Publications]
      /\ switching \in [Admins -> Switches]
      /\ ticket \subseteq Items \ Options
      /\ asked \subseteq Items /\ sticking \subseteq Items
      /\ unsent \in [Items -> {"told", "unread", "read"}]
      /\ disturbed \in BOOLEAN
  <2>1. disturbed \in BOOLEAN
    BY DEF Init
  <2>2. 0 \in 0 .. LastDay /\ 0 \in 0 .. MaxChanges /\ 0 \in 0 .. LastDay + 1
    BY MenuAssumption
  <2>3. /\ item \in [Items -> [on : BOOLEAN, until : 0 .. LastDay + 1]]
        /\ config \in [Items -> Rows]
    BY <2>2 DEF Init, NoRow, Rows
  <2>4. /\ publishing \in [Publishers -> Publications]
        /\ switching \in [Admins -> Switches]
    BY ConstantsAre DEF Init
  <2> QED
    BY <2>1, <2>2, <2>3, <2>4 DEF Init
<1>2. Payload(Items) \in Menus
  <2>1. \A i \in Items : Effective(i) \in Prices \cup {"null"}
    BY <1>1 DEF Effective, Prices
  <2>2. ASSUME NEW i \in Items
        PROVE  (IF i \notin Items THEN Absent
                ELSE [price |-> IF Effective(i) = "null" THEN "source" ELSE Effective(i),
                      until |-> IF Offered(i) THEN 0 ELSE Forever]) \in Entries
    BY <2>1, MenuAssumption DEF Absent, Entries, Prices, Days, Forever
  <2> QED
    BY <2>2 DEF Payload, Menus
<1>3. CASE version = <<>> /\ live = NoMenu /\ uploaded = {}
  <2>1. version \in Seq(Versions) /\ Len(version) = 0
    BY <1>3
  <2> QED
    BY <1>1, <1>3, <2>1, ConstantsAre, MenuAssumption DEF TypeOK
<1>4. CASE /\ live = Payload(Items) /\ uploaded = {1}
           /\ version = <<[menu |-> live, status |-> "SUBMITTED", older |-> {},
                           answered |-> TRUE, lease |-> "none"]>>
  <2> DEFINE first == [menu |-> live, status |-> "SUBMITTED", older |-> {},
                       answered |-> TRUE, lease |-> "none"]
  <2>1. first \in Versions
    BY <1>2, <1>4 DEF Versions
  <2>2. version \in Seq(Versions) /\ Len(version) = 1 /\ DOMAIN version = {1}
    BY <1>4, <2>1
  <2> QED
    BY <1>1, <1>2, <1>4, <2>2, MenuAssumption DEF TypeOK
<1> QED
  BY <1>3, <1>4 DEF Init

LEMMA TypeLocal ==
    ASSUME TypeOK, LocalNext PROVE TypeOK'
<1> USE DEF TypeOK, menuVars, pubVars, ghosts
<1>1. ASSUME NEW i \in Items, NEW price \in Settable \cup {config[i].price},
             NEW on \in BOOLEAN, SetRow(i, price, on)
      PROVE  TypeOK'
  <2>1. changes' \in 0 .. MaxChanges
    BY <1>1, MenuAssumption DEF SetRow, Change
  <2>2. price \in Prices \cup {"null"}
    BY <1>1, MenuAssumption DEF SetRow, Rows, NoRow
  <2>3. config' \in [Items -> Rows]
    BY <1>1, <2>2 DEF SetRow, Rows
  <2>4. unsent' \in [Items -> {"told", "unread", "read"}]
    BY <1>1, UnsentIs DEF SetRow
  <2> QED
    BY <1>1, <2>1, <2>3, <2>4 DEF SetRow
<1>2. ASSUME NEW i \in Items, RestorePrice(i) PROVE TypeOK'
  <2>1. changes' \in 0 .. MaxChanges
    BY <1>2, MenuAssumption DEF RestorePrice, Change
  <2>2. config' \in [Items -> Rows]
    <3>1. item[i].on \in BOOLEAN /\ config[i] \in Rows
      OBVIOUS
    <3> QED
      BY <1>2, <3>1 DEF RestorePrice, Rows, Prices
  <2>3. version' \in [DOMAIN version -> Versions]
    BY <1>2, VersionsOf DEF RestorePrice, Versions
  <2>4. /\ version' \in Seq(Versions) /\ Len(version') = Len(version)
        /\ DOMAIN version' = DOMAIN version
    BY <2>3, RowsRewritten
  <2>5. unsent' \in [Items -> {"told", "unread", "read"}]
    BY <1>2, UnsentIs DEF RestorePrice
  <2> QED
    BY <1>2, <2>1, <2>2, <2>4, <2>5 DEF RestorePrice
<1>3. ASSUME NEW overwrite \in BOOLEAN, ApplyImport(overwrite) PROVE TypeOK'
  <2>1. changes' \in 0 .. MaxChanges
    BY <1>3, MenuAssumption DEF ApplyImport, Change
  <2>2. config' \in [Items -> Rows]
    BY <1>3, DonorAssumption DEF ApplyImport
  <2>3. sticking' \subseteq Items
    BY <1>3 DEF ApplyImport
  <2>4. unsent' \in [Items -> {"told", "unread", "read"}]
    BY <1>3, UnsentIs DEF ApplyImport
  <2> QED
    BY <1>3, <2>1, <2>2, <2>3, <2>4 DEF ApplyImport
<1> QED
  BY <1>1, <1>2, <1>3 DEF LocalNext

LocalRows == [on : BOOLEAN, until : 0 .. LastDay + 1]

\* The three ways a switch starts.
LEMMA StartIs ==
    ASSUME TypeOK, NEW a \in Admins, NEW i \in Items,
           \/ \E mode \in {"on", "off", "today"} : Switch(a, i, mode)
           \/ \E on \in BOOLEAN : EditItem(a, i, on) \/ SwitchChannel(a, i, on)
    PROVE  \E row \in LocalRows, on \in BOOLEAN : StartSwitch(a, i, row, on)
<1> USE DEF TypeOK, LocalRows
<1>1. ASSUME NEW mode \in {"on", "off", "today"}, Switch(a, i, mode)
      PROVE  \E row \in LocalRows, on \in BOOLEAN : StartSwitch(a, i, row, on)
  <2> DEFINE row == [on |-> mode # "off",
                     until |-> IF mode = "today" THEN NextMidnight ELSE 0]
  <2>1. row \in LocalRows
    BY MenuAssumption DEF NextMidnight
  <2>2. StartSwitch(a, i, row, mode = "on")
    BY <1>1 DEF Switch
  <2>3. (mode = "on") \in BOOLEAN
    OBVIOUS
  <2> QED
    BY <2>1, <2>2, <2>3
<1>2. ASSUME NEW on \in BOOLEAN, EditItem(a, i, on)
      PROVE  \E row \in LocalRows, s \in BOOLEAN : StartSwitch(a, i, row, s)
  <2> DEFINE row == [on |-> on, until |-> item[i].until]
             told == on /\ item[i].until <= today
  <2>1. row \in LocalRows /\ told \in BOOLEAN
    OBVIOUS
  <2>2. StartSwitch(a, i, row, told)
    BY <1>2 DEF EditItem
  <2> QED
    BY <2>1, <2>2
<1>3. ASSUME NEW on \in BOOLEAN, SwitchChannel(a, i, on)
      PROVE  \E row \in LocalRows, s \in BOOLEAN : StartSwitch(a, i, row, s)
  <2>1. item[i] \in LocalRows
    OBVIOUS
  <2> QED
    BY <1>3, <2>1 DEF SwitchChannel
<1> QED
  BY <1>1, <1>2, <1>3

\* A switch starts, or goes on.
LEMMA SwitchIs ==
    ASSUME TypeOK, NEW a \in Admins, SwitchNext(a)
    PROVE  \/ \E i \in Items, row \in LocalRows, on \in BOOLEAN :
                StartSwitch(a, i, row, on)
           \/ SaveSwitch(a) \/ SwitchAtUber(a) \/ SwitchRefused(a) \/ ReportSwitch(a)
BY StartIs DEF SwitchNext

LEMMA TypeSwitch ==
    ASSUME TypeOK, NEW a \in Admins, SwitchNext(a) PROVE TypeOK'
<1> USE DEF TypeOK, menuVars, pubVars, ghosts
<1>1. ASSUME NEW i \in Items, NEW row \in LocalRows, NEW on \in BOOLEAN,
             StartSwitch(a, i, row, on)
      PROVE  TypeOK'
  <2>1. changes' \in 0 .. MaxChanges
    BY <1>1, MenuAssumption DEF StartSwitch, Change
  <2>2. item' \in [Items -> [on : BOOLEAN, until : 0 .. LastDay + 1]]
    BY <1>1 DEF StartSwitch, LocalRows
  <2>3. switching' \in [Admins -> Switches]
    BY <1>1, MenuAssumption DEF StartSwitch, Switches, Days, Forever
  <2>4. disturbed' \in BOOLEAN
    BY <1>1 DEF StartSwitch, Busy
  <2> QED
    BY <1>1, <2>1, <2>2, <2>3, <2>4 DEF StartSwitch
<1>2. CASE SaveSwitch(a)
  <2>1. /\ switching[a] \in Switches /\ switching[a].item \in Items
        /\ config[switching[a].item] \in Rows
    BY <1>2 DEF SaveSwitch, Switches
  <2>2. config' \in [Items -> Rows]
    <3>1. PICK row : /\ config' = [config EXCEPT ![switching[a].item] = row]
                     /\ \E price \in Prices \cup {"null"}, on \in BOOLEAN :
                           row = [price |-> price, on |-> on]
      <4> DEFINE i == switching[a].item
                 price == IF config[i].price = "norow"
                          THEN IF i \in Options THEN "source"
                               ELSE IF i \in legacy THEN "own" ELSE "null"
                          ELSE config[i].price
      <4>1. price \in Prices \cup {"null"}
        BY <2>1 DEF Rows, NoRow, Prices
      <4>2. switching[a].on \in BOOLEAN
        BY <2>1 DEF Switches
      <4>3. config' = [config EXCEPT ![i] = [price |-> price, on |-> switching[a].on]]
        BY <1>2, <2>1 DEF SaveSwitch
      <4> QED
        BY <4>1, <4>2, <4>3
    <3>2. row \in Rows
      BY <3>1 DEF Rows
    <3> QED
      BY <2>1, <3>1, <3>2
  <2>3. item[switching[a].item].until \in Days
    BY <2>1, MenuAssumption DEF Days, Forever
  <2>4. switching' \in [Admins -> Switches]
    BY <1>2, <2>1, <2>3 DEF SaveSwitch, Switches
  <2>5. unsent' \in [Items -> {"told", "unread", "read"}]
    BY <1>2 DEF SaveSwitch
  <2> QED
    BY <1>2, <2>2, <2>4, <2>5 DEF SaveSwitch
<1>3. CASE SwitchAtUber(a)
  <2>1. /\ switching[a].item \in Items
        /\ Suspension(switching[a]) \in Days
    BY <1>3, MenuAssumption DEF SwitchAtUber, Suspension, Switches, Days, Forever
  <2>2. live' \in Menus
    <3> DEFINE entry == [live[switching[a].item] EXCEPT !.until = Suspension(switching[a])]
    <3>1. entry \in Entries
      <4>1. live[switching[a].item] \in Entries
        BY <2>1 DEF Menus
      <4> QED
        BY <2>1, <4>1 DEF Entries
    <3>2. live' = [live EXCEPT ![switching[a].item] = entry]
      BY <1>3 DEF SwitchAtUber
    <3> QED
      BY <2>1, <3>1, <3>2 DEF Menus
  <2>3. switching' \in [Admins -> Switches]
    <3>1. [switching[a] EXCEPT !.step = "refused"] \in Switches
      BY <2>1 DEF Switches
    <3>2. \/ switching' = [switching EXCEPT ![a] = IdleSwitch]
          \/ switching' = [switching EXCEPT ![a] = [switching[a] EXCEPT !.step = "refused"]]
      BY <1>3 DEF SwitchAtUber
    <3> QED
      BY <3>1, <3>2, ConstantsAre
  <2> QED
    BY <1>3, <2>2, <2>3 DEF SwitchAtUber
<1>4. CASE SwitchRefused(a)
  BY <1>4 DEF SwitchRefused, Switches
<1>5. CASE ReportSwitch(a)
  BY <1>5, ConstantsAre DEF ReportSwitch, Switches
<1> QED
  BY <1>1, <1>2, <1>3, <1>4, <1>5, SwitchIs

LEMMA TypePublish ==
    ASSUME TypeOK, NEW p \in Publishers, PublishNext(p) PROVE TypeOK'
<1> USE DEF TypeOK, menuVars, pubVars, ghosts
<1>1. publishing[p] \in Publications
  OBVIOUS
<1>2. ASSUME NEW kept \in SUBSET Items, NEW print \in {NoPrint} \cup Confirmable,
             Read(p, kept, print)
      PROVE  TypeOK'
  <2>1. print \in Fingerprints
    BY PayloadIs, RisksIs, ConstantsAre DEF Confirmable, DryRun, Fingerprints
  <2>2. Payload(kept) \in Menus
    BY PayloadIs
  <2>3. publishing' \in [Publishers -> Publications]
    BY <1>2, <2>1, <2>2 DEF Read, Publications, Overridden
  <2>4. disturbed' \in BOOLEAN
    BY <1>2 DEF Read, Busy
  <2>5. unsent' \in [Items -> {"told", "unread", "read"}]
    BY <1>2 DEF Read
  <2> QED
    BY <1>2, <2>3, <2>4, <2>5 DEF Read
<1>3. CASE TurnAway(p)
  BY <1>3, ConstantsAre DEF TurnAway
<1>4. CASE Submit(p)
  <2> DEFINE row == [menu |-> publishing[p].menu, status |-> "SUBMITTED",
                     older |-> {}, answered |-> FALSE, lease |-> "none"]
  <2>1. row \in Versions
    BY <1>1 DEF Versions, Publications
  <2>2. /\ version' \in Seq(Versions) /\ Len(version') = Len(version) + 1
        /\ DOMAIN version \subseteq DOMAIN version'
    BY <1>4, <2>1, AppendProperties DEF Submit
  <2>3. Len(version') <= MaxVersions + 1
    BY <1>4, <2>2, VersionsOf, MenuAssumption DEF Submit
  <2>4. publishing' \in [Publishers -> Publications]
    BY <1>1, <1>4 DEF Submit, Publications
  <2> QED
    BY <1>4, <2>2, <2>3, <2>4 DEF Submit
<1>5. CASE Upload(p)
  <2>1. live' \in Menus
    BY <1>1, <1>5 DEF Upload, Publications
  <2>2. publishing' \in [Publishers -> Publications]
    <3>1. \A s \in {"accepted", "refused"} :
              [publishing[p] EXCEPT !.step = s] \in Publications
      BY <1>1 DEF Publications
    <3>2. \E s \in {"accepted", "refused"} :
              publishing' = [publishing EXCEPT ![p] = [publishing[p] EXCEPT !.step = s]]
      BY <1>5 DEF Upload
    <3> QED
      BY <3>1, <3>2
  <2>3. uploaded' \subseteq DOMAIN version
    BY <1>5 DEF Upload, Published
  <2>4. unsent' \in [Items -> {"told", "unread", "read"}]
    BY <1>5 DEF Upload
  <2> QED
    BY <1>5, <2>1, <2>2, <2>3, <2>4 DEF Upload
<1>6. CASE Refuse(p)
  BY <1>1, <1>6 DEF Refuse, Publications
<1>7. CASE RecordSuccess(p)
  <2>1. PICK v \in Published(publishing[p].menu) :
            version' \in {version, Finished("SUCCEEDED", v)}
    BY <1>7 DEF RecordSuccess
  <2>2. version' \in [DOMAIN version -> Versions]
    BY <2>1, VersionsOf, FinishedIs DEF Published
  <2>3. /\ version' \in Seq(Versions) /\ Len(version') = Len(version)
        /\ DOMAIN version' = DOMAIN version
    BY <2>2, RowsRewritten
  <2>4. publishing' \in [Publishers -> Publications] /\ disturbed' \in BOOLEAN
    <3>1. [publishing[p] EXCEPT !.step = "refused"] \in Publications
      BY <1>1 DEF Publications
    <3>2. \/ publishing' = [publishing EXCEPT ![p] = IdlePublication]
          \/ publishing' = [publishing EXCEPT ![p] = [publishing[p] EXCEPT !.step = "refused"]]
      BY <1>7 DEF RecordSuccess
    <3> QED
      BY <1>7, <3>1, <3>2, ConstantsAre DEF RecordSuccess
  <2> QED
    BY <1>7, <2>3, <2>4 DEF RecordSuccess
<1>8. CASE RecordFailure(p)
  <2>1. PICK v \in Published(publishing[p].menu) : version' = Finished("FAILED", v)
    BY <1>8 DEF RecordFailure
  <2>2. version' \in [DOMAIN version -> Versions]
    BY <2>1, FinishedIs DEF Published
  <2>3. /\ version' \in Seq(Versions) /\ Len(version') = Len(version)
        /\ DOMAIN version' = DOMAIN version
    BY <2>2, RowsRewritten
  <2>4. publishing' \in [Publishers -> Publications]
    BY <1>8, ConstantsAre DEF RecordFailure
  <2> QED
    BY <1>8, <2>3, <2>4 DEF RecordFailure
<1> QED
  BY <1>2, <1>3, <1>4, <1>5, <1>6, <1>7, <1>8 DEF PublishNext, Settle

\* What the workers and the notification write of a row.
LEMMA RowsAfterWorker ==
    ASSUME TypeOK, NEW v \in DOMAIN version, WorkerNext(v)
    PROVE  /\ version' \in [DOMAIN version -> Versions]
           /\ \A u \in DOMAIN version \ {v} : version'[u] = version[u]
           /\ version'[v].answered = version[v].answered
           /\ version'[v].menu = version[v].menu
           /\ version'[v].status = "SUCCEEDED"
                 => \/ version[v].status = "SUCCEEDED"
                    \/ version[v].lease = "confirm"
                    \/ version[v].answered
           /\ version'[v].lease = "confirm"
                 => version[v].lease = "confirm" \/ version[v].answered
<1>1. CASE ClaimDue(v)
  BY <1>1, VersionsOf DEF ClaimDue, Lease, AwaitsConfirmation, Versions
<1>2. CASE MarkConfirmed(v)
  <2> DEFINE row == Finished("SUCCEEDED", v)
  <2>1. /\ row \in [DOMAIN version -> Versions]
        /\ row[v].answered = version[v].answered /\ row[v].menu = version[v].menu
        /\ row[v].status = "SUCCEEDED"
        /\ \A u \in DOMAIN version \ {v} : row[u] = version[u]
    BY FinishedIs
  <2>2. [row[v] EXCEPT !.lease = "none"] \in Versions
    BY <2>1 DEF Versions
  <2>3. version' = [row EXCEPT ![v] = [row[v] EXCEPT !.lease = "none"]]
    BY <1>2 DEF MarkConfirmed
  <2> QED
    BY <1>2, <2>1, <2>2, <2>3 DEF MarkConfirmed, Versions
<1>3. CASE ClaimTimedOut(v)
  BY <1>3, VersionsOf DEF ClaimTimedOut, Lease, Versions
<1>4. CASE MarkTimedOut(v)
  <2> DEFINE row == Finished("FAILED", v)
  <2>1. /\ row \in [DOMAIN version -> Versions]
        /\ row[v].answered = version[v].answered /\ row[v].menu = version[v].menu
        /\ row[v].status = "FAILED"
        /\ \A u \in DOMAIN version \ {v} : row[u] = version[u]
    BY FinishedIs
  <2>2. [row[v] EXCEPT !.lease = "none"] \in Versions
    BY <2>1 DEF Versions
  <2>3. version' = [row EXCEPT ![v] = [row[v] EXCEPT !.lease = "none"]]
    BY <1>4 DEF MarkTimedOut
  <2> QED
    BY <1>4, <2>1, <2>2, <2>3 DEF MarkTimedOut, Versions
<1>5. CASE LeaseExpires(v)
  BY <1>5, VersionsOf DEF LeaseExpires, Lease, Versions
<1>6. ASSUME NEW s \in {"SUCCEEDED", "FAILED"}, Notify(v, s)
      PROVE  /\ version' = Finished(s, v)
             /\ version[v].answered
  BY <1>6 DEF Notify, AwaitsConfirmation
<1> QED
  BY <1>1, <1>2, <1>3, <1>4, <1>5, <1>6, VersionsOf, FinishedIs DEF WorkerNext

LEMMA TypeWorker ==
    ASSUME TypeOK, NEW v \in DOMAIN version, WorkerNext(v) PROVE TypeOK'
<1>1. /\ version' \in Seq(Versions) /\ Len(version') = Len(version)
      /\ DOMAIN version' = DOMAIN version
  BY RowsAfterWorker, RowsRewritten
<1>2. /\ UNCHANGED <<today, changes, menuVars, publishing, switching, ticket, live,
                     uploaded, asked, sticking, unsent>>
      /\ disturbed' \in BOOLEAN
  BY DEF WorkerNext, ClaimDue, MarkConfirmed, ClaimTimedOut, MarkTimedOut,
         LeaseExpires, Notify, ghosts, TypeOK
<1> QED
  BY <1>1, <1>2 DEF TypeOK, menuVars

LEMMA TypeNext == TypeOK /\ [Next]_vars => TypeOK'
<1> SUFFICES ASSUME TypeOK, [Next]_vars PROVE TypeOK'
  OBVIOUS
<1>1. CASE Crash
  <2>1. changes' \in 0 .. MaxChanges
    BY <1>1, MenuAssumption DEF Crash, Change, TypeOK
  <2> QED
    BY <1>1, <2>1, ConstantsAre DEF Crash, TypeOK, menuVars
<1>2. CASE Midnight
  <2>1. today' \in 0 .. LastDay
    BY <1>2, MenuAssumption DEF Midnight, TypeOK
  <2>2. disturbed' \in BOOLEAN
    BY <1>2 DEF Midnight, Busy, TypeOK
  <2> QED
    BY <1>2, <2>1, <2>2 DEF Midnight, TypeOK, menuVars, pubVars
<1>3. CASE UNCHANGED vars
  BY <1>3 DEF vars, TypeOK, menuVars, pubVars, ghosts
<1> QED
  BY <1>1, <1>2, <1>3, TypeLocal, TypeSwitch, TypePublish, TypeWorker DEF Next

(* Every value stays in its type, for every instance                        *)
(* (the columns of UberItemChannelConfig and UberMenuPublishVersion).       *)
THEOREM MenuTypeCorrect == Spec => []TypeOK
<1> QED
  BY TypeInit, TypeNext, PTL DEF Spec

-----------------------------------------------------------------------------
(* Why a succeeded version was uploaded: only rows of an earlier release    *)
(* carry an answer, their menu had been uploaded, and the menu of a         *)
(* publication that Uber accepted is in no version but uploaded ones.       *)

Vouched ==
    /\ \A v \in DOMAIN version :
         /\ version[v].status = "SUCCEEDED" => v \in uploaded
         /\ version[v].answered => v \in uploaded
         /\ version[v].lease = "confirm" => version[v].answered
    /\ \A p \in Publishers :
         /\ publishing[p].step \in {"uploading", "accepted", "refused"}
              => Published(publishing[p].menu) # {}
         /\ publishing[p].step = "accepted"
              => Published(publishing[p].menu) \subseteq uploaded

LEMMA VouchedInit == Init => Vouched
<1> SUFFICES ASSUME Init PROVE Vouched
  OBVIOUS
<1>1. \A p \in Publishers : publishing[p].step = "idle"
  BY DEF Init, IdlePublication
<1>2. CASE version = <<>>
  BY <1>1, <1>2 DEF Vouched
<1>3. CASE /\ uploaded = {1}
           /\ version = <<[menu |-> live, status |-> "SUBMITTED", older |-> {},
                           answered |-> TRUE, lease |-> "none"]>>
  <2>1. DOMAIN version = {1} /\ version[1].status = "SUBMITTED" /\ version[1].lease = "none"
    BY <1>3
  <2> QED
    BY <1>1, <1>3, <2>1 DEF Vouched
<1> QED
  BY <1>2, <1>3 DEF Init

\* Steps that neither add nor settle a row, nor start or accept an upload.
LEMMA VouchedKept ==
    ASSUME TypeOK, Vouched, uploaded' = uploaded,
           version' \in [DOMAIN version -> Versions],
           \A v \in DOMAIN version :
               /\ version'[v].menu = version[v].menu
               /\ version'[v].answered = version[v].answered
               /\ version'[v].status = "SUCCEEDED"
                     => version[v].status = "SUCCEEDED" \/ v \in uploaded
               /\ version'[v].lease = "confirm" => version[v].answered,
           \A p \in Publishers :
               publishing'[p].step \in {"uploading", "accepted", "refused"}
                 => /\ publishing[p].step \in {"uploading", "accepted", "refused"}
                    /\ publishing'[p].menu = publishing[p].menu
                    /\ publishing'[p].step = "accepted" => publishing[p].step = "accepted"
    PROVE  Vouched'
<1>1. DOMAIN version' = DOMAIN version
  OBVIOUS
<1>2. ASSUME NEW menu
      PROVE  {v \in DOMAIN version' : version'[v].menu = menu} = Published(menu)
  BY <1>1 DEF Published
<1>3. ASSUME NEW p \in Publishers,
             publishing'[p].step \in {"uploading", "accepted", "refused"}
      PROVE  Published(publishing[p].menu)' = Published(publishing[p].menu)
  BY <1>1, <1>3 DEF Published
<1> QED
  BY <1>1, <1>3 DEF Vouched

LEMMA VouchedNext == TypeOK /\ Vouched /\ [Next]_vars => Vouched'
<1> SUFFICES ASSUME TypeOK, Vouched, [Next]_vars PROVE Vouched'
  OBVIOUS
<1> USE VersionsOf
<1>1. CASE LocalNext
  <2>1. ASSUME NEW i \in Items, NEW price, NEW on, SetRow(i, price, on) PROVE Vouched'
    BY <2>1, VouchedKept DEF SetRow, pubVars, Vouched
  <2>2. ASSUME NEW i \in Items, RestorePrice(i) PROVE Vouched'
    <3>1. /\ version' \in [DOMAIN version -> Versions]
          /\ \A v \in DOMAIN version :
                /\ version'[v].menu = version[v].menu
                /\ version'[v].answered = version[v].answered
                /\ version'[v].status = version[v].status
                /\ version'[v].lease = version[v].lease
      BY <2>2 DEF RestorePrice, Versions
    <3>2. UNCHANGED <<publishing, uploaded>>
      BY <2>2 DEF RestorePrice
    <3> QED
      BY <3>1, <3>2, VouchedKept DEF Vouched
  <2>3. ASSUME NEW overwrite \in BOOLEAN, ApplyImport(overwrite) PROVE Vouched'
    BY <2>3, VouchedKept DEF ApplyImport, pubVars, Vouched
  <2> QED
    BY <1>1, <2>1, <2>2, <2>3 DEF LocalNext
<1>2. ASSUME NEW a \in Admins, SwitchNext(a) PROVE Vouched'
  <2>1. UNCHANGED <<pubVars, uploaded>>
    BY <1>2, SwitchIs DEF StartSwitch, SaveSwitch, SwitchAtUber, SwitchRefused,
                          ReportSwitch, ghosts
  <2> QED
    BY <2>1, VouchedKept DEF pubVars, Vouched
<1>3. ASSUME NEW p \in Publishers, PublishNext(p) PROVE Vouched'
  <2> USE DEF TypeOK
  <2>1. ASSUME NEW kept \in SUBSET Items, NEW print \in {NoPrint} \cup Confirmable,
               Read(p, kept, print)
        PROVE  Vouched'
    <3>1. UNCHANGED <<version, uploaded>>
      BY <2>1 DEF Read
    <3>2. \A q \in Publishers :
             publishing'[q].step \in {"uploading", "accepted", "refused"}
               => publishing'[q] = publishing[q]
      BY <2>1 DEF Read
    <3> QED
      BY <3>1, <3>2, VouchedKept DEF Vouched
  <2>2. CASE TurnAway(p)
    <3>1. UNCHANGED <<version, uploaded>>
      BY <2>2 DEF TurnAway, ghosts
    <3>2. \A q \in Publishers :
             publishing'[q].step \in {"uploading", "accepted", "refused"}
               => publishing'[q] = publishing[q]
      BY <2>2 DEF TurnAway, IdlePublication
    <3> QED
      BY <3>1, <3>2, VouchedKept DEF Vouched
  <2>3. CASE Submit(p)
    <3> DEFINE menu == publishing[p].menu
               row == [menu |-> menu, status |-> "SUBMITTED", older |-> {},
                       answered |-> FALSE, lease |-> "none"]
               n == Len(version) + 1
    <3>1. row \in Versions
      BY DEF Versions, Publications
    <3>2. /\ DOMAIN version' = DOMAIN version \cup {n} /\ n \notin DOMAIN version
          /\ version'[n] = row
          /\ \A v \in DOMAIN version : version'[v] = version[v]
      BY <2>3, <3>1, AppendProperties DEF Submit
    <3>3. UNCHANGED uploaded
      BY <2>3 DEF Submit, ghosts
    <3>4. ASSUME NEW v \in DOMAIN version'
          PROVE  /\ version'[v].status = "SUCCEEDED" => v \in uploaded
                 /\ version'[v].answered => v \in uploaded
                 /\ version'[v].lease = "confirm" => version'[v].answered
      BY <3>2 DEF Vouched
    <3>5. ASSUME NEW q \in Publishers,
                 publishing'[q].step \in {"uploading", "accepted", "refused"}
          PROVE  Published(publishing[q].menu)' # {}
      <4>1. CASE q = p
        <5>1. publishing'[p].menu = menu
          BY <2>3 DEF Submit
        <5>2. n \in Published(publishing[p].menu)'
          BY <3>2, <5>1 DEF Published
        <5> QED
          BY <4>1, <5>2
      <4>2. CASE q # p
        <5>1. publishing'[q] = publishing[q]
          BY <2>3, <4>2 DEF Submit
        <5>2. PICK v \in Published(publishing[q].menu) : TRUE
          BY <3>5, <5>1 DEF Vouched
        <5>3. v \in Published(publishing[q].menu)'
          BY <3>2, <5>1, <5>2 DEF Published
        <5> QED
          BY <5>3
      <4> QED
        BY <4>1, <4>2
    <3>6. ASSUME NEW q \in Publishers, publishing'[q].step = "accepted"
          PROVE  Published(publishing[q].menu)' \subseteq uploaded
      <4>1. q # p /\ publishing'[q] = publishing[q]
        BY <2>3, <3>6 DEF Submit
      <4>2. publishing[q].menu # menu
        BY <2>3, <3>6, <4>1 DEF Submit, Vouched
      <4>3. Published(publishing[q].menu)' = Published(publishing[q].menu)
        BY <3>2, <4>1, <4>2 DEF Published
      <4> QED
        BY <3>6, <4>1, <4>3 DEF Vouched
    <3> QED
      BY <3>3, <3>4, <3>5, <3>6 DEF Vouched
  <2>4. CASE Upload(p)
    <3>1. /\ UNCHANGED version
          /\ uploaded' = uploaded \cup Published(publishing[p].menu)
      BY <2>4 DEF Upload
    <3>2. /\ publishing'[p].menu = publishing[p].menu
          /\ \A q \in Publishers \ {p} : publishing'[q] = publishing[q]
      <4>1. \E s \in {"accepted", "refused"} :
               publishing' = [publishing EXCEPT ![p] = [publishing[p] EXCEPT !.step = s]]
        BY <2>4 DEF Upload
      <4>2. publishing[p] \in Publications
        OBVIOUS
      <4> QED
        BY <4>1, <4>2, StepIs
    <3>3. \A q \in Publishers : Published(publishing[q].menu)' = Published(publishing[q].menu)
      BY <3>1, <3>2 DEF Published
    <3>4. publishing[p].step = "uploading"
      BY <2>4 DEF Upload
    <3>5. \A v \in DOMAIN version :
             /\ version[v].status = "SUCCEEDED" => v \in uploaded'
             /\ version[v].answered => v \in uploaded'
             /\ version[v].lease = "confirm" => version[v].answered
      BY <3>1 DEF Vouched
    <3>6. ASSUME NEW q \in Publishers,
                 publishing'[q].step \in {"uploading", "accepted", "refused"}
          PROVE  /\ Published(publishing[q].menu) # {}
                 /\ publishing'[q].step = "accepted"
                      => Published(publishing[q].menu) \subseteq uploaded'
      <4>1. CASE q = p
        BY <3>1, <3>4, <4>1 DEF Vouched
      <4>2. CASE q # p
        BY <3>1, <3>2, <3>6, <4>2 DEF Vouched
      <4> QED
        BY <4>1, <4>2
    <3> QED
      BY <3>1, <3>3, <3>5, <3>6 DEF Vouched
  <2>5. CASE Refuse(p)
    <3>1. UNCHANGED <<version, uploaded>>
      BY <2>5 DEF Refuse, ghosts
    <3>2. ASSUME NEW q \in Publishers,
                 publishing'[q].step \in {"uploading", "accepted", "refused"}
          PROVE  /\ publishing[q].step \in {"uploading", "accepted", "refused"}
                 /\ publishing'[q].menu = publishing[q].menu
                 /\ publishing'[q].step = "accepted" => publishing[q].step = "accepted"
      <4>1. publishing[p] \in Publications
        OBVIOUS
      <4>2. CASE q = p
        BY <2>5, <4>1, <4>2 DEF Refuse, Publications
      <4>3. CASE q # p
        BY <2>5, <3>2, <4>3 DEF Refuse
      <4> QED
        BY <4>2, <4>3
    <3> QED
      BY <3>1, <3>2, VouchedKept DEF Vouched
  <2>6. CASE RecordSuccess(p)
    <3>1. PICK v \in Published(publishing[p].menu) :
              version' \in {version, Finished("SUCCEEDED", v)}
      BY <2>6 DEF RecordSuccess
    <3>2. v \in DOMAIN version /\ v \in uploaded
      <4>1. publishing[p].step = "accepted"
        BY <2>6 DEF RecordSuccess
      <4> QED
        BY <3>1, <4>1 DEF Published, Vouched
    <3>3. /\ version' \in [DOMAIN version -> Versions]
          /\ \A u \in DOMAIN version :
                /\ version'[u].menu = version[u].menu
                /\ version'[u].answered = version[u].answered
                /\ version'[u].lease = version[u].lease
                /\ u # v => version'[u] = version[u]
      BY <3>1, <3>2, FinishedIs
    <3>4. /\ UNCHANGED uploaded
          /\ \A q \in Publishers :
                publishing'[q].step # "idle"
                  => /\ publishing'[q].menu = publishing[q].menu
                     /\ publishing'[q].step = publishing[q].step
                        \/ (publishing[q].step = "accepted" /\ publishing'[q].step = "refused")
      <4>1. /\ UNCHANGED uploaded /\ publishing[p].step = "accepted"
            /\ \/ publishing' = [publishing EXCEPT ![p] = IdlePublication]
               \/ publishing' = [publishing EXCEPT ![p] =
                                  [publishing[p] EXCEPT !.step = "refused"]]
        BY <2>6 DEF RecordSuccess
      <4>2. publishing[p] \in Publications
        OBVIOUS
      <4>3. IdlePublication.step = "idle"
        BY DEF IdlePublication
      <4>4. ASSUME NEW q \in Publishers, publishing'[q].step # "idle"
            PROVE  /\ publishing'[q].menu = publishing[q].menu
                   /\ publishing'[q].step = publishing[q].step
                      \/ (publishing[q].step = "accepted" /\ publishing'[q].step = "refused")
        <5>1. CASE q # p
          BY <4>1, <5>1
        <5>2. CASE q = p
          <6>1. publishing'[p] = [publishing[p] EXCEPT !.step = "refused"]
            <7>1. publishing' # [publishing EXCEPT ![p] = IdlePublication]
              BY <4>3, <4>4, <5>2
            <7> QED
              BY <4>1, <7>1
          <6> QED
            BY <4>1, <4>2, <5>2, <6>1, StepIs
        <5> QED
          BY <5>1, <5>2
      <4> QED
        BY <4>1, <4>4
    <3> QED
      BY <3>2, <3>3, <3>4, VouchedKept DEF Vouched
  <2>7. CASE RecordFailure(p)
    <3>1. PICK v \in Published(publishing[p].menu) : version' = Finished("FAILED", v)
      BY <2>7 DEF RecordFailure
    <3>2. /\ version' \in [DOMAIN version -> Versions]
          /\ version'[v].status = "FAILED"
          /\ \A u \in DOMAIN version :
                /\ version'[u].menu = version[u].menu
                /\ version'[u].answered = version[u].answered
                /\ version'[u].lease = version[u].lease
                /\ u # v => version'[u] = version[u]
      BY <3>1, FinishedIs DEF Published
    <3>3. /\ UNCHANGED uploaded
          /\ \A q \in Publishers :
                publishing'[q].step # "idle" => publishing'[q] = publishing[q]
      BY <2>7 DEF RecordFailure, ghosts, IdlePublication
    <3> QED
      BY <3>2, <3>3, VouchedKept DEF Vouched
  <2> QED
    BY <1>3, <2>1, <2>2, <2>3, <2>4, <2>5, <2>6, <2>7 DEF PublishNext, Settle
<1>4. ASSUME NEW v \in DOMAIN version, WorkerNext(v) PROVE Vouched'
  <2>1. UNCHANGED <<publishing, uploaded>>
    BY <1>4 DEF WorkerNext, ClaimDue, MarkConfirmed, ClaimTimedOut, MarkTimedOut,
                LeaseExpires, Notify, ghosts
  <2>2. \A u \in DOMAIN version :
           /\ version'[u].menu = version[u].menu
           /\ version'[u].answered = version[u].answered
           /\ version'[u].status = "SUCCEEDED"
                 => version[u].status = "SUCCEEDED" \/ u \in uploaded
           /\ version'[u].lease = "confirm" => version[u].answered
    BY <1>4, RowsAfterWorker DEF Vouched
  <2>3. version' \in [DOMAIN version -> Versions]
    BY <1>4, RowsAfterWorker
  <2> QED
    BY <2>1, <2>2, <2>3, VouchedKept DEF Vouched
<1>5. CASE Crash
  <2>1. /\ UNCHANGED <<version, uploaded>>
        /\ \A p \in Publishers : publishing'[p].step = "idle"
    BY <1>5 DEF Crash, IdlePublication
  <2> QED
    BY <2>1, VouchedKept DEF Vouched
<1>6. CASE Midnight \/ UNCHANGED vars
  <2>1. UNCHANGED <<pubVars, uploaded>>
    BY <1>6 DEF Midnight, vars, ghosts
  <2> QED
    BY <2>1, VouchedKept DEF pubVars, Vouched
<1> QED
  BY <1>1, <1>2, <1>3, <1>4, <1>5, <1>6 DEF Next

(* A version that counts as succeeded was uploaded, whatever publication,   *)
(* worker or notification settled it (the baseline of                       *)
(* uber-menu-publish-safety.service.ts is a menu Uber has had).             *)
THEOREM MenuSucceededWasUploaded == Spec => []SucceededWasUploaded
<1>1. TypeOK /\ Vouched => SucceededWasUploaded
  BY DEF Vouched, SucceededWasUploaded, Succeeded
<1>2. Init => TypeOK /\ Vouched
  BY TypeInit, VouchedInit
<1>3. TypeOK /\ Vouched /\ [Next]_vars => (TypeOK /\ Vouched)'
  BY TypeNext, VouchedNext
<1> QED
  BY <1>1, <1>2, <1>3, PTL DEF Spec

-----------------------------------------------------------------------------
(* Why a restored price stays: its row exists from then on, so that no      *)
(* switch creates one with the inherited price, and the event is never      *)
(* withdrawn.                                                               *)

Restorations ==
    \A i \in sticking :
        IF i \in Options THEN config[i].price = "source"
                         ELSE config[i].price = "null" /\ i \in restored

LEMMA RestorationsNext == TypeOK /\ Restorations /\ [Next]_vars => Restorations'
<1> SUFFICES ASSUME TypeOK, Restorations, [Next]_vars PROVE Restorations'
  OBVIOUS
<1> USE DEF TypeOK
<1>1. ASSUME NEW i \in Items, NEW price, NEW on, SetRow(i, price, on)
      PROVE  Restorations'
  <2>1. /\ \A j \in Items \ {i} : config'[j] = config[j]
        /\ config'[i].price = price /\ restored' = restored
        /\ sticking' = IF price = config[i].price THEN sticking ELSE sticking \ {i}
    BY <1>1 DEF SetRow
  <2> QED
    BY <2>1 DEF Restorations
<1>2. ASSUME NEW i \in Items, RestorePrice(i) PROVE Restorations'
  <2>1. /\ sticking' = sticking \cup {i} /\ restored' = restored \cup ({i} \ Options)
        /\ \A j \in Items \ {i} : config'[j] = config[j]
    BY <1>2 DEF RestorePrice
  <2>2. config'[i].price = IF i \in Options THEN "source" ELSE "null"
    <3>1. config[i] \in Rows
      OBVIOUS
    <3> QED
      BY <1>2, <3>1 DEF RestorePrice, Rows
  <2> QED
    BY <2>1, <2>2 DEF Restorations
<1>3. ASSUME NEW overwrite \in BOOLEAN, ApplyImport(overwrite) PROVE Restorations'
  BY <1>3 DEF ApplyImport, Restorations
<1>4. ASSUME NEW a \in Admins, SaveSwitch(a) PROVE Restorations'
  <2> DEFINE j == switching[a].item
  <2>1. j \in Items /\ config[j] \in Rows
    BY <1>4 DEF SaveSwitch, Switches
  <2>2. UNCHANGED <<sticking, restored>>
    BY <1>4 DEF SaveSwitch, ghosts
  <2>3. \A i \in Items \ {j} : config'[i] = config[i]
    BY <1>4 DEF SaveSwitch
  <2>4. config[j].price # "norow" => config'[j].price = config[j].price
    BY <1>4, <2>1 DEF SaveSwitch, Rows
  <2>5. j \in sticking => config[j].price # "norow"
    BY DEF Restorations
  <2> QED
    BY <2>2, <2>3, <2>4, <2>5 DEF Restorations
<1>5. ASSUME UNCHANGED <<config, restored, sticking>> PROVE Restorations'
  BY <1>5 DEF Restorations
<1>6. ASSUME NEW a \in Admins, SwitchNext(a) PROVE Restorations'
  <2>1. SaveSwitch(a) \/ UNCHANGED <<config, restored, sticking>>
    BY <1>6, SwitchIs DEF StartSwitch, SwitchAtUber, SwitchRefused, ReportSwitch,
                          ghosts, menuVars
  <2> QED
    BY <1>4, <1>5, <2>1
<1>7. ASSUME NEW p \in Publishers, PublishNext(p) PROVE Restorations'
  <2>1. UNCHANGED <<config, restored, sticking>>
    BY <1>7 DEF PublishNext, Settle, Read, TurnAway, Submit, Upload, Refuse,
                RecordSuccess, RecordFailure, ghosts, menuVars
  <2> QED
    BY <1>5, <2>1
<1>8. ASSUME NEW v \in DOMAIN version, WorkerNext(v) PROVE Restorations'
  <2>1. UNCHANGED <<config, restored, sticking>>
    BY <1>8 DEF WorkerNext, ClaimDue, MarkConfirmed, ClaimTimedOut, MarkTimedOut,
                LeaseExpires, Notify, ghosts, menuVars
  <2> QED
    BY <1>5, <2>1
<1>9. CASE Crash \/ Midnight \/ UNCHANGED vars
  <2>1. UNCHANGED <<config, restored, sticking>>
    BY <1>9 DEF Crash, Midnight, vars, ghosts, menuVars
  <2> QED
    BY <1>5, <2>1
<1> QED
  BY <1>1, <1>2, <1>3, <1>6, <1>7, <1>8, <1>9 DEF Next, LocalNext

(* A restored price stays restored until it is set again or imported: a     *)
(* switch that updates the row in between never brings back the price of    *)
(* the row under the Uber store id                                          *)
(* (uber-menu-snapshot-prisma.adapter.ts, restoredItems).                   *)
THEOREM MenuRestoreSticks == Spec => []RestoreSticks
<1>1. TypeOK /\ Restorations => RestoreSticks
  BY DEF TypeOK, Restorations, RestoreSticks, Effective, Prices
<1>2. Init => TypeOK /\ Restorations
  BY TypeInit DEF Init, Restorations
<1>3. TypeOK /\ Restorations /\ [Next]_vars => (TypeOK /\ Restorations)'
  BY TypeNext, RestorationsNext
<1> QED
  BY <1>1, <1>2, <1>3, PTL DEF Spec

-----------------------------------------------------------------------------
(* Why what is sold out is suspended.  As long as nothing was disturbed, one *)
(* call at most is under way.  An item is off only by its channel row.  A    *)
(* switch that turned the row off tells Uber, or leaves a ticket; an edit or *)
(* an import that did so is remembered until a publication has read the row, *)
(* and the menu it read suspends the item.                                   *)

Switching(a) == switching[a].step # "idle"
Publishing(p) == publishing[p].step # "idle"

Alone ==
    /\ \A a \in Admins, b \in Admins : Switching(a) /\ Switching(b) => a = b
    /\ \A p \in Publishers, q \in Publishers : Publishing(p) /\ Publishing(q) => p = q
    /\ \A a \in Admins, p \in Publishers : ~(Switching(a) /\ Publishing(p))

Off(i) == ~item[i].on /\ item[i].until = 0 /\ ~config[i].on
Told(entry) == entry = Absent \/ entry.until = Forever

\* Uber is to be told what the switch wrote, unless the row was written again.
OnItsWay ==
    \A a \in Admins, i \in Items :
        /\ switching[a].step = "saved" /\ switching[a].item = i
        /\ Off(i) /\ unsent[i] = "told"
        => ~switching[a].on /\ switching[a].until = 0

AtUber ==
    \A i \in Items : Off(i) =>
        \/ Told(live[i]) \/ i \in ticket \/ unsent[i] # "told"
        \/ \E a \in Admins : Switching(a) /\ switching[a].item = i

InUpload ==
    \A p \in Publishers, i \in Items :
        publishing[p].step \in {"read", "uploading"} /\ Off(i)
            => Told(publishing[p].menu[i]) \/ unsent[i] = "unread"

Undisturbed == Alone /\ OnItsWay /\ AtUber /\ InUpload

\* A change of the channel rows that remembers which ones it switched off.
LEMMA RowsChanged ==
    ASSUME TypeOK, Undisturbed,
           UNCHANGED <<item, publishing, switching, ticket, live>>,
           \A i \in Items : ~config'[i].on =>
               \/ ~config[i].on /\ unsent'[i] = unsent[i]
               \/ unsent'[i] = "unread"
    PROVE  Undisturbed'
<1>1. \A i \in Items : Off(i)' => \/ Off(i) /\ unsent'[i] = unsent[i]
                                  \/ unsent'[i] = "unread"
  BY DEF Off
<1>2. Alone'
  BY DEF Undisturbed, Alone, Switching, Publishing
<1>3. OnItsWay'
  BY <1>1 DEF Undisturbed, OnItsWay
<1>4. AtUber'
  BY <1>1 DEF Undisturbed, AtUber, Switching
<1>5. InUpload'
  BY <1>1 DEF Undisturbed, InUpload
<1> QED
  BY <1>2, <1>3, <1>4, <1>5 DEF Undisturbed

\* A publication that goes on with the menu it read keeps it, and so does one
\* that ends.
LEMMA PublicationsGoOn ==
    ASSUME TypeOK, Undisturbed, UNCHANGED <<item, config, switching, ticket>>,
           \E p \in Publishers : Publishing(p),
           \A p \in Publishers :
               /\ Publishing(p)' => Publishing(p)
               /\ publishing'[p].step \in {"read", "uploading"}
                      => /\ publishing[p].step \in {"read", "uploading"}
                         /\ publishing'[p].menu = publishing[p].menu,
           \A i \in Items :
               /\ unsent[i] = "unread" => unsent'[i] = "unread"
               /\ \/ live'[i] = live[i] /\ unsent'[i] = unsent[i]
                  \/ \E p \in Publishers : /\ publishing[p].step = "uploading"
                                         /\ live'[i] = publishing[p].menu[i]
    PROVE  Undisturbed'
<1>1. Alone'
  BY DEF Undisturbed, Alone, Switching, Publishing
<1>2. OnItsWay'
  BY DEF Undisturbed, Alone, OnItsWay, Switching
<1>3. InUpload'
  BY DEF Undisturbed, InUpload, Off
<1>4. ASSUME NEW i \in Items, Off(i)
      PROVE  \/ Told(live'[i]) \/ i \in ticket \/ unsent'[i] # "told"
             \/ \E a \in Admins : Switching(a) /\ switching[a].item = i
  <2>1. CASE live'[i] = live[i] /\ unsent'[i] = unsent[i]
    BY <1>4, <2>1 DEF Undisturbed, AtUber
  <2>2. CASE \E p \in Publishers : /\ publishing[p].step = "uploading"
                                 /\ live'[i] = publishing[p].menu[i]
    <3>1. PICK p \in Publishers : /\ publishing[p].step = "uploading"
                                /\ live'[i] = publishing[p].menu[i]
      BY <2>2
    <3>2. Told(publishing[p].menu[i]) \/ unsent'[i] = "unread"
      BY <1>4, <3>1 DEF Undisturbed, InUpload
    <3> QED
      BY <3>1, <3>2 DEF Told
  <2> QED
    BY <2>1, <2>2
<1>5. AtUber'
  BY <1>4 DEF AtUber, Off, Switching
<1> QED
  BY <1>1, <1>2, <1>3, <1>5 DEF Undisturbed

\* What is read suspends what is off.
LEMMA PayloadSuspends ==
    ASSUME TypeOK, NEW kept, NEW i \in Items, Off(i)
    PROVE  Told(Payload(kept)[i])
<1>1. config[i].price # "norow"
  <2>1. config[i] \in Rows /\ config[i] # NoRow
    BY DEF Off, TypeOK, NoRow
  <2>2. config[i] \in [price : Prices \cup {"null"}, on : BOOLEAN]
    BY <2>1 DEF Rows
  <2> QED
    BY <2>2 DEF Prices
<1>2. Offered(i) = FALSE
  BY <1>1 DEF Offered, Off, TypeOK, Rows, NoRow
<1> QED
  BY <1>2 DEF Payload, Told

LEMMA UndisturbedSwitch ==
    ASSUME TypeOK, Undisturbed, NEW a \in Admins, SwitchNext(a), ~disturbed'
    PROVE  Undisturbed'
<1> USE DEF TypeOK
<1>0. switching[a] \in Switches /\ switching \in [Admins -> Switches]
  OBVIOUS
<1>1. ASSUME NEW i \in Items, NEW row \in LocalRows, NEW on \in BOOLEAN,
             StartSwitch(a, i, row, on)
      PROVE  Undisturbed'
  <2>1. /\ ~Busy
        /\ UNCHANGED <<config, publishing, live, ticket, unsent>>
        /\ item' = [item EXCEPT ![i] = row]
        /\ switching' = [switching EXCEPT ![a] =
               [step |-> "written", item |-> i, on |-> on, until |-> 0]]
    BY <1>1 DEF StartSwitch, pubVars
  <2>2. /\ \A b \in Admins : Switching(b)' => b = a
        /\ \A p \in Publishers : ~Publishing(p)'
        /\ switching'[a].step = "written" /\ switching'[a].item = i
    BY <2>1, <1>0 DEF Busy, Switching, Publishing
  <2>3. Alone' /\ InUpload'
    BY <2>2 DEF Alone, InUpload, Publishing
  <2>4. OnItsWay'
    BY <2>2 DEF OnItsWay, Switching
  <2>5. AtUber'
    <3>1. \A b \in Admins : ~Switching(b)
      BY <2>1 DEF Busy, Switching
    <3>2. ASSUME NEW j \in Items, j # i, Off(j)'
          PROVE  Told(live[j]) \/ j \in ticket \/ unsent[j] # "told"
      <4>1. Off(j)
        BY <2>1, <3>2 DEF Off
      <4> QED
        BY <3>1, <4>1 DEF Undisturbed, AtUber
    <3>3. Switching(a)'
      BY <2>2 DEF Switching
    <3> QED
      BY <2>1, <2>2, <3>2, <3>3 DEF AtUber
  <2> QED
    BY <2>3, <2>4, <2>5 DEF Undisturbed
<1>2. CASE SaveSwitch(a)
  <2>0. PICK i \in Items : i = switching[a].item
    BY <1>2, <1>0 DEF SaveSwitch, Switches
  <2>1. /\ switching[a].step = "written" /\ i = switching[a].item
        /\ UNCHANGED <<item, publishing, live, ticket>>
        /\ switching' = [switching EXCEPT ![a].step = "saved", ![a].until = item[i].until]
        /\ \A j \in Items \ {i} : unsent'[j] = unsent[j]
    BY <1>2, <2>0 DEF SaveSwitch, menuVars, pubVars
  <2>2. /\ \A j \in Items \ {i} : config'[j] = config[j]
        /\ config'[i].on = switching[a].on
    BY <1>2, <2>0 DEF SaveSwitch
  <2>3. /\ switching'[a].step = "saved" /\ switching'[a].item = i
        /\ switching'[a].on = switching[a].on
        /\ switching'[a].until = item[i].until
        /\ \A b \in Admins \ {a} : switching'[b] = switching[b]
    BY <2>1, <1>0 DEF Switches
  <2>4. Alone'
    BY <2>1, <2>3 DEF Undisturbed, Alone, Switching, Publishing
  <2>5. OnItsWay'
    <3>1. \A b \in Admins \ {a} : ~Switching(b)'
      BY <2>1, <2>3 DEF Undisturbed, Alone, Switching
    <3>2. Off(i)' => ~switching[a].on /\ item[i].until = 0
      BY <2>1, <2>2 DEF Off
    <3> QED
      BY <2>3, <3>1, <3>2 DEF OnItsWay, Switching
  <2>6. AtUber'
    <3>1. Switching(a)'
      BY <2>3 DEF Switching
    <3>2. ASSUME NEW j \in Items, j # i, Off(j)'
          PROVE  \/ Told(live[j]) \/ j \in ticket \/ unsent'[j] # "told"
                 \/ \E b \in Admins : Switching(b)' /\ switching'[b].item = j
      <4>1. Off(j) /\ unsent'[j] = unsent[j]
        BY <2>1, <2>2, <3>2 DEF Off
      <4>2. \A b \in Admins : Switching(b) /\ switching[b].item = j
                               => Switching(b)' /\ switching'[b].item = j
        BY <2>1, <2>3, <3>2 DEF Switching
      <4> QED
        BY <4>1, <4>2 DEF Undisturbed, AtUber
    <3> QED
      BY <2>1, <2>3, <3>1, <3>2 DEF AtUber
  <2>7. InUpload'
    BY <2>1 DEF Undisturbed, InUpload, Alone, Switching, Publishing
  <2> QED
    BY <2>4, <2>5, <2>6, <2>7 DEF Undisturbed
<1>3. CASE SwitchAtUber(a)
  <2>0. PICK i \in Items : i = switching[a].item
    BY <1>3, <1>0 DEF SwitchAtUber, Switches
  <2>1. /\ switching[a].step = "saved" /\ i = switching[a].item
        /\ UNCHANGED <<item, config, publishing, ticket, unsent>>
        /\ switching' = [switching EXCEPT ![a] = IdleSwitch]
        /\ live' = [live EXCEPT ![i].until = Suspension(switching[a])]
    BY <1>3, <2>0 DEF SwitchAtUber, menuVars, pubVars
  <2>2. /\ switching'[a].step = "idle"
        /\ \A b \in Admins \ {a} : switching'[b] = switching[b]
    BY <2>1, <1>0 DEF IdleSwitch
  <2>3. Alone' /\ OnItsWay'
    BY <2>1, <2>2 DEF Undisturbed, Alone, OnItsWay, Off, Switching, Publishing
  <2>4. InUpload'
    BY <2>1 DEF Undisturbed, InUpload, Alone, Switching, Publishing
  <2>5. Off(i) /\ unsent[i] = "told" => Told(live'[i])
    <3>1. Off(i) /\ unsent[i] = "told" => ~switching[a].on /\ switching[a].until = 0
      BY <2>1 DEF Undisturbed, OnItsWay
    <3>2. ~(0 > today)
      OBVIOUS
    <3>3. Off(i) /\ unsent[i] = "told" => Suspension(switching[a]) = Forever
      BY <3>1, <3>2 DEF Suspension
    <3>4. live[i] \in Entries
      BY <2>1 DEF Menus
    <3>5. live'[i].until = Suspension(switching[a])
      BY <2>1, <3>4 DEF Menus, Entries
    <3> QED
      BY <3>3, <3>5 DEF Told
  <2>6. \A j \in Items \ {i} : live'[j] = live[j]
    BY <2>1 DEF Menus
  <2>7. AtUber'
    <3>1. ASSUME NEW j \in Items, j # i, Off(j)'
          PROVE  \/ Told(live'[j]) \/ j \in ticket' \/ unsent'[j] # "told"
                 \/ \E b \in Admins : Switching(b)' /\ switching'[b].item = j
      <4>1. Off(j) /\ live'[j] = live[j]
        BY <2>1, <2>6, <3>1 DEF Off
      <4>2. \A b \in Admins : Switching(b) /\ switching[b].item = j
                               => Switching(b)' /\ switching'[b].item = j
        BY <2>1, <2>2, <3>1 DEF Switching
      <4> QED
        BY <2>1, <4>1, <4>2 DEF Undisturbed, AtUber, Told
    <3>2. Off(i)' => Told(live'[i]) \/ unsent'[i] # "told"
      BY <2>1, <2>5 DEF Off
    <3> QED
      BY <3>1, <3>2 DEF AtUber, Told
  <2> QED
    BY <2>3, <2>4, <2>7 DEF Undisturbed
<1>4. CASE SwitchRefused(a)
  <2>1. /\ switching[a].step = "saved"
        /\ UNCHANGED <<item, config, publishing, ticket, live, unsent>>
        /\ switching'[a].step = "refused" /\ switching'[a].item = switching[a].item
        /\ \A b \in Admins \ {a} : switching'[b] = switching[b]
    BY <1>4, <1>0 DEF SwitchRefused, Switches, menuVars, pubVars, ghosts
  <2>2. Alone' /\ InUpload'
    BY <2>1 DEF Undisturbed, Alone, InUpload, Off, Switching, Publishing
  <2>3. OnItsWay'
    BY <2>1 DEF Undisturbed, OnItsWay, Off
  <2>4. AtUber'
    <3>1. \A b \in Admins : /\ Switching(b) => Switching(b)'
                             /\ switching'[b].item = switching[b].item
      BY <2>1 DEF Switching
    <3>2. ASSUME NEW j \in Items, Off(j)'
          PROVE  \/ Told(live[j]) \/ j \in ticket \/ unsent[j] # "told"
                 \/ \E b \in Admins : Switching(b)' /\ switching'[b].item = j
      <4>1. Off(j)
        BY <2>1, <3>2 DEF Off
      <4> QED
        BY <3>1, <4>1 DEF Undisturbed, AtUber
    <3> QED
      BY <2>1, <3>2 DEF AtUber
  <2> QED
    BY <2>2, <2>3, <2>4 DEF Undisturbed
<1>5. CASE ReportSwitch(a)
  <2>1. /\ switching[a].step = "refused"
        /\ switching[a].item \notin Options
        /\ UNCHANGED <<item, config, publishing, live, unsent>>
        /\ switching' = [switching EXCEPT ![a] = IdleSwitch]
        /\ ticket' = ticket \cup ({switching[a].item} \ Options)
    BY <1>5 DEF ReportSwitch, menuVars, pubVars
  <2>2. /\ switching'[a].step = "idle"
        /\ \A b \in Admins \ {a} : switching'[b] = switching[b]
    BY <2>1, <1>0 DEF IdleSwitch
  <2>3. Alone' /\ OnItsWay' /\ InUpload'
    BY <2>1, <2>2 DEF Undisturbed, Alone, OnItsWay, InUpload, Off, Switching, Publishing
  <2>4. AtUber'
    BY <2>1, <2>2 DEF Undisturbed, AtUber, Off, Switching
  <2> QED
    BY <2>3, <2>4 DEF Undisturbed
<1> QED
  BY <1>1, <1>2, <1>3, <1>4, <1>5, SwitchIs

LEMMA UndisturbedPublish ==
    ASSUME TypeOK, Undisturbed, NEW p \in Publishers, PublishNext(p), ~disturbed'
    PROVE  Undisturbed'
<1> USE DEF TypeOK
<1>0. publishing[p] \in Publications
  OBVIOUS
<1>1. ASSUME NEW kept \in SUBSET Items, NEW print, Read(p, kept, print)
      PROVE  Undisturbed'
  <2>1. /\ ~Busy /\ UNCHANGED <<item, config, switching, ticket, live>>
        /\ publishing'[p].step = "read" /\ publishing'[p].menu = Payload(kept)
        /\ \A q \in Publishers \ {p} : publishing'[q] = publishing[q]
        /\ \A i \in Items : unsent'[i] = "told" <=> unsent[i] = "told"
    BY <1>1 DEF Read, menuVars
  <2>2. /\ \A b \in Admins : ~Switching(b)
        /\ \A q \in Publishers : ~Publishing(q)
    BY <2>1 DEF Busy, Switching, Publishing
  <2>3. Alone'
    BY <2>1, <2>2 DEF Alone, Switching, Publishing
  <2>4. OnItsWay' /\ AtUber'
    BY <2>1, <2>2 DEF Undisturbed, OnItsWay, AtUber, Off, Switching
  <2>5. ASSUME NEW i \in Items, Off(i) PROVE Told(Payload(kept)[i])
    BY <2>5, PayloadSuspends
  <2>6. \A i \in Items : Off(i)' => Off(i)
    BY <2>1 DEF Off
  <2>7. InUpload'
    BY <2>1, <2>2, <2>5, <2>6 DEF InUpload, Publishing
  <2> QED
    BY <2>3, <2>4, <2>7 DEF Undisturbed
<1>2. ASSUME NEW step \in {"uploading", "accepted", "refused"},
             publishing' = [publishing EXCEPT ![p].step = step],
             step = "uploading" => publishing[p].step = "read",
             publishing[p].step # "idle"
      PROVE  \A q \in Publishers :
                 /\ Publishing(q)' => Publishing(q)
                 /\ publishing'[q].step \in {"read", "uploading"}
                      => /\ publishing[q].step \in {"read", "uploading"}
                         /\ publishing'[q].menu = publishing[q].menu
  BY <1>0, <1>2 DEF Publishing, Publications
<1>3. ASSUME publishing' = [publishing EXCEPT ![p] = IdlePublication]
      PROVE  \A q \in Publishers :
                 /\ Publishing(q)' => Publishing(q)
                 /\ publishing'[q].step \in {"read", "uploading"}
                      => /\ publishing[q].step \in {"read", "uploading"}
                         /\ publishing'[q].menu = publishing[q].menu
  BY <1>0, <1>3 DEF Publishing, IdlePublication
<1>4. CASE Settle(p)
  <2>1. UNCHANGED <<item, config, switching, ticket>>
    BY <1>4 DEF Settle, TurnAway, Submit, Upload, Refuse, RecordSuccess,
                RecordFailure, menuVars
  <2>2. \A i \in Items :
           /\ unsent[i] = "unread" => unsent'[i] = "unread"
           /\ \/ live'[i] = live[i] /\ unsent'[i] = unsent[i]
              \/ publishing[p].step = "uploading" /\ live'[i] = publishing[p].menu[i]
    BY <1>4 DEF Settle, TurnAway, Submit, Upload, Refuse, RecordSuccess, RecordFailure,
                ghosts
  <2>3. \/ publishing' = [publishing EXCEPT ![p] = IdlePublication]
        \/ \E step \in {"uploading", "accepted", "refused"} :
              /\ publishing' = [publishing EXCEPT ![p].step = step]
              /\ step = "uploading" => publishing[p].step = "read"
              /\ publishing[p].step # "idle"
    BY <1>4 DEF Settle, TurnAway, Submit, Upload, Refuse, RecordSuccess, RecordFailure
  <2>4. Publishing(p)
    BY <1>4 DEF Settle, TurnAway, Submit, Upload, Refuse, RecordSuccess,
                RecordFailure, Publishing
  <2> QED
    BY <1>2, <1>3, <2>1, <2>2, <2>3, <2>4, PublicationsGoOn
<1> QED
  BY <1>1, <1>4 DEF PublishNext

\* Nothing undisturbs a disturbed history.
LEMMA DisturbedStays == TypeOK /\ [Next]_vars /\ disturbed => disturbed'
<1> SUFFICES ASSUME TypeOK, [Next]_vars, disturbed PROVE disturbed'
  OBVIOUS
<1>1. CASE LocalNext
  BY <1>1 DEF LocalNext, SetRow, RestorePrice, ApplyImport
<1>2. ASSUME NEW a \in Admins, SwitchNext(a) PROVE disturbed'
  BY <1>2, SwitchIs DEF StartSwitch, SaveSwitch, SwitchAtUber, SwitchRefused,
                        ReportSwitch, ghosts
<1>3. ASSUME NEW p \in Publishers, PublishNext(p) PROVE disturbed'
  BY <1>3 DEF PublishNext, Settle, Read, TurnAway, Submit, Upload, Refuse,
              RecordSuccess, RecordFailure, ghosts
<1>4. ASSUME NEW v \in DOMAIN version, WorkerNext(v) PROVE disturbed'
  BY <1>4 DEF WorkerNext, ClaimDue, MarkConfirmed, ClaimTimedOut, MarkTimedOut,
              LeaseExpires, Notify, ghosts
<1>5. CASE Crash \/ Midnight \/ UNCHANGED vars
  BY <1>5 DEF Crash, Midnight, vars, ghosts
<1> QED
  BY <1>1, <1>2, <1>3, <1>4, <1>5 DEF Next

LEMMA UndisturbedNext ==
    TypeOK /\ Undisturbed /\ [Next]_vars /\ ~disturbed' => Undisturbed'
<1> SUFFICES ASSUME TypeOK, Undisturbed, [Next]_vars, ~disturbed' PROVE Undisturbed'
  OBVIOUS
<1> USE DEF TypeOK
<1>1. CASE LocalNext
  <2>1. /\ UNCHANGED <<item, publishing, switching, ticket, live>>
        /\ unsent' = Unsent(config')
    BY <1>1 DEF LocalNext, SetRow, RestorePrice, ApplyImport, pubVars
  <2> QED
    BY <2>1, RowsChanged DEF Unsent
<1>4. ASSUME UNCHANGED <<item, config, publishing, switching, ticket, live, unsent>>
      PROVE  Undisturbed'
  BY <1>4, RowsChanged
<1>5. ASSUME NEW v \in DOMAIN version, WorkerNext(v) PROVE Undisturbed'
  <2>1. UNCHANGED <<item, config, publishing, switching, ticket, live, unsent>>
    BY <1>5 DEF WorkerNext, ClaimDue, MarkConfirmed, ClaimTimedOut, MarkTimedOut,
                LeaseExpires, Notify, menuVars, ghosts
  <2> QED
    BY <1>4, <2>1
<1>6. CASE Crash
  BY <1>6 DEF Crash
<1>7. CASE Midnight \/ UNCHANGED vars
  <2>1. UNCHANGED <<item, config, publishing, switching, ticket, live, unsent>>
    BY <1>7 DEF Midnight, vars, menuVars, pubVars, ghosts
  <2> QED
    BY <1>4, <2>1
<1> QED
  BY <1>1, <1>5, <1>6, <1>7, UndisturbedSwitch, UndisturbedPublish DEF Next

LEMMA UndisturbedInit == Init /\ ~disturbed => Undisturbed
<1> SUFFICES ASSUME Init, ~disturbed PROVE Undisturbed
  OBVIOUS
<1>1. /\ \A i \in Items : config[i].on
      /\ \A a \in Admins : switching[a].step = "idle"
      /\ \A p \in Publishers : publishing[p].step = "idle"
  BY DEF Init, NoRow, IdleSwitch, IdlePublication
<1> QED
  BY <1>1 DEF Undisturbed, Alone, OnItsWay, AtUber, InUpload, Off,
              Switching, Publishing

(* Unless an answer was lost or calls overlapped, an item that is off       *)
(* locally, with no pause left over, and in the channel row is suspended    *)
(* for good at Uber, or a switch Uber refused has left a ticket, or an edit *)
(* of the draft or an import was the last to switch its row off and no      *)
(* publication that read it so was uploaded since                           *)
(* (uber-menu-availability.use-case.ts, INDEFINITE_SUSPEND_UNTIL).          *)
THEOREM MenuSoldOutIsSuspended == Spec => []SoldOutIsSuspended
<1> DEFINE Inv == TypeOK /\ (~disturbed => Undisturbed)
<1>1. Inv => SoldOutIsSuspended
  BY DEF SoldOutIsSuspended, Undisturbed, AtUber, Off, Told, Busy, Switching
<1>2. Init => Inv
  BY TypeInit, UndisturbedInit
<1>3. Inv /\ [Next]_vars => Inv'
  BY TypeNext, DisturbedStays, UndisturbedNext
<1> QED
  BY <1>1, <1>2, <1>3, PTL DEF Spec

-----------------------------------------------------------------------------
(* Why losses are acknowledged.  As long as nothing was disturbed, the last  *)
(* row that succeeded holds the prices Uber shows, and what was restored     *)
(* since that row finished was restored since the last upload: the risks     *)
(* that were evaluated when the row was created name what the upload takes   *)
(* away.                                                                     *)

\* No row awaits a confirmation: only those of an earlier release do.
Unanswered == \A v \in DOMAIN version : ~version[v].answered

OwnRow ==
    \A p \in Publishers :
        publishing[p].step \in {"uploading", "accepted", "refused"}
            => /\ Published(publishing[p].menu) = {Len(version)}
               /\ version[Len(version)].status # "SUCCEEDED"

SamePrices(menu, other) == \A i \in Items : menu[i].price = other[i].price

\* The row that stands for what Uber shows.
Stands(v) ==
    /\ v \in Succeeded /\ \A u \in Succeeded : u <= v
    /\ SamePrices(live, version[v].menu)
    /\ restored \ version[v].older \subseteq asked

Baseline ==
    /\ \A p \in Publishers :
          publishing[p].step = "accepted" => SamePrices(live, publishing[p].menu)
    /\ \/ \E p \in Publishers : publishing[p].step = "accepted"
       \/ Succeeded = {} /\ SamePrices(live, NoMenu)
       \/ \E v \in DOMAIN version : Stands(v)

Lost(i, p) ==
    /\ live[i].price = "own"
    /\ \/ publishing[p].menu[i].price = "absent"
       \/ publishing[p].menu[i].price = "source" /\ i \notin publishing[p].own

Known(i, p) ==
    \/ i \in publishing[p].print.risks.deleted \cup publishing[p].print.risks.fallen
    \/ i \in asked /\ publishing[p].menu[i].price = "source"

Acknowledged ==
    \A p \in Publishers, i \in Items :
        publishing[p].step = "uploading" /\ Lost(i, p) => Known(i, p)

Recorded == Unanswered /\ OwnRow /\ Baseline /\ Acknowledged

LEMMA LastIs ==
    ASSUME TypeOK, NEW v \in Succeeded, \A u \in Succeeded : u <= v
    PROVE  LastSucceeded = v
<1>1. \A u \in Succeeded : u \in Nat
  BY VersionsOf DEF Succeeded
<1>2. LastSucceeded \in Succeeded /\ \A u \in Succeeded : u <= LastSucceeded
  BY DEF LastSucceeded
<1> QED
  BY <1>1, <1>2

\* What the evaluation of a menu names, against the row that stands for Uber's.
LEMMA RisksName ==
    ASSUME TypeOK, NEW v \in DOMAIN version, Stands(v), NEW menu \in Menus, NEW own,
           NEW i \in Items, live[i].price = "own"
    PROVE  /\ menu[i].price = "absent" => i \in Risks(menu, own).deleted
           /\ menu[i].price = "source" /\ i \notin own
                => \/ i \in Risks(menu, own).fallen
                   \/ i \in asked
<1>1. LastSucceeded = v /\ Succeeded # {}
  BY LastIs DEF Stands
<1>2. version[v].menu[i].price = "own"
  BY DEF Stands, SamePrices
<1>3. i \in Intentional => i \in asked
  BY <1>1 DEF Intentional, Stands
<1> QED
  BY <1>1, <1>2, <1>3 DEF Risks

\* Rows and publications that go on.
LEMMA RecordedKept ==
    ASSUME TypeOK, Recorded,
           DOMAIN version' = DOMAIN version, Len(version') = Len(version),
           \A v \in DOMAIN version :
               /\ version'[v].menu = version[v].menu
               /\ version'[v].answered = version[v].answered
               /\ (version'[v].status = "SUCCEEDED") = (version[v].status = "SUCCEEDED")
               /\ version[v].status = "SUCCEEDED"
                    => restored' \ version'[v].older
                         \subseteq (restored \ version[v].older) \cup asked',
           asked \subseteq asked',
           SamePrices(live', live),
           \A p \in Publishers :
               /\ publishing'[p].step \in {"uploading", "accepted", "refused"}
                    => /\ publishing[p].step \in {"uploading", "accepted", "refused"}
                       /\ publishing'[p].menu = publishing[p].menu
               /\ (publishing'[p].step = "accepted") = (publishing[p].step = "accepted")
               /\ publishing'[p].step = "uploading"
                    => publishing'[p] = publishing[p]
    PROVE  Recorded'
<1>1. Unanswered'
  BY DEF Recorded, Unanswered
<1>2. Succeeded' = Succeeded
  BY DEF Succeeded
<1>3. OwnRow'
  <2>1. ASSUME NEW p \in Publishers,
               publishing'[p].step \in {"uploading", "accepted", "refused"}
        PROVE  /\ {v \in DOMAIN version' : version'[v].menu = publishing'[p].menu}
                    = {Len(version')}
               /\ version'[Len(version')].status # "SUCCEEDED"
    <3>1. /\ Published(publishing[p].menu) = {Len(version)}
          /\ version[Len(version)].status # "SUCCEEDED"
          /\ publishing'[p].menu = publishing[p].menu
      BY <2>1 DEF Recorded, OwnRow
    <3>2. Len(version) \in DOMAIN version
      BY <3>1 DEF Published
    <3>3. version'[Len(version)].status # "SUCCEEDED"
      BY <3>1, <3>2
    <3>4. {v \in DOMAIN version' : version'[v].menu = publishing'[p].menu}
            = {v \in DOMAIN version : version[v].menu = publishing[p].menu}
      BY <3>1
    <3> QED
      BY <3>1, <3>3, <3>4 DEF Published
  <2> QED
    BY <2>1 DEF OwnRow, Published
<1>4. Baseline'
  <2>1. \A p \in Publishers :
           publishing'[p].step = "accepted" => SamePrices(live', publishing'[p].menu)
    BY DEF Recorded, Baseline, SamePrices
  <2>2. CASE \E p \in Publishers : publishing[p].step = "accepted"
    BY <2>1, <2>2 DEF Baseline
  <2>3. CASE Succeeded = {} /\ SamePrices(live, NoMenu)
    BY <1>2, <2>1, <2>3 DEF Baseline, SamePrices, NoMenu
  <2>4. ASSUME NEW v \in DOMAIN version, Stands(v) PROVE Stands(v)'
    <3>1. v \in Succeeded' /\ \A u \in Succeeded' : u <= v
      BY <1>2, <2>4 DEF Stands
    <3>2. SamePrices(live', version'[v].menu)
      BY <2>4 DEF Stands, SamePrices
    <3>3. restored' \ version'[v].older \subseteq asked'
      BY <2>4 DEF Stands, Succeeded
    <3> QED
      BY <3>1, <3>2, <3>3 DEF Stands
  <2> QED
    BY <2>1, <2>2, <2>3, <2>4 DEF Recorded, Baseline
<1>5. Acknowledged'
  BY DEF Recorded, Acknowledged, Lost, Known, SamePrices
<1> QED
  BY <1>1, <1>3, <1>4, <1>5 DEF Recorded

\* The same, when neither the rows nor the publications change.
LEMMA RecordedAside ==
    ASSUME TypeOK, Recorded, UNCHANGED <<version, publishing, restored, asked>>,
           SamePrices(live', live)
    PROVE  Recorded'
BY RecordedKept

LEMMA RecordedPublish ==
    ASSUME TypeOK, Undisturbed, Recorded, NEW p \in Publishers, PublishNext(p), ~disturbed'
    PROVE  Recorded'
<1> USE DEF TypeOK
<1>0. publishing[p] \in Publications
  OBVIOUS
<1>a. SamePrices(live, live)
  BY DEF SamePrices
<1>b. \A q \in Publishers : q # p /\ Publishing(p) => publishing[q].step = "idle"
  BY DEF Undisturbed, Alone, Publishing
<1>1. ASSUME NEW kept, NEW print, Read(p, kept, print) PROVE Recorded'
  <2>1. /\ publishing[p].step = "idle" /\ publishing'[p].step = "read"
        /\ \A q \in Publishers \ {p} : publishing'[q] = publishing[q]
    BY <1>1 DEF Read
  <2>2. UNCHANGED <<version, restored, asked, live>>
    BY <1>1 DEF Read, menuVars
  <2> QED
    BY <1>a, <2>1, <2>2, RecordedKept
<1>2. CASE TurnAway(p)
  <2>1. /\ publishing[p].step = "read" /\ publishing'[p].step = "idle"
        /\ \A q \in Publishers \ {p} : publishing'[q] = publishing[q]
    BY <1>2 DEF TurnAway, IdlePublication
  <2>2. UNCHANGED <<version, restored, asked, live>>
    BY <1>2 DEF TurnAway, menuVars, ghosts
  <2> QED
    BY <1>a, <2>1, <2>2, RecordedKept
<1>3. CASE Submit(p)
  <2> DEFINE menu == publishing[p].menu
             row == [menu |-> menu, status |-> "SUBMITTED", older |-> {},
                     answered |-> FALSE, lease |-> "none"]
             risks == Risks(menu, publishing[p].own)
             n == Len(version) + 1
  <2>1. /\ publishing[p].step = "read" /\ Confirmed(p, risks) /\ Published(menu) = {}
        /\ version' = Append(version, row)
        /\ publishing' = [publishing EXCEPT ![p].step = "uploading"]
        /\ UNCHANGED <<live, restored, asked>>
    BY <1>3 DEF Submit, menuVars, ghosts
  <2>2. /\ DOMAIN version' = DOMAIN version \cup {n} /\ n \notin DOMAIN version
        /\ Len(version') = n /\ version'[n] = row
        /\ \A v \in DOMAIN version : version'[v] = version[v]
        /\ \A v \in DOMAIN version : v \in Nat
    <3>1. row \in Versions
      BY <1>0 DEF Publications, Versions
    <3> QED
      BY <2>1, <3>1, VersionsOf, AppendProperties
  <2>3. /\ publishing'[p].step = "uploading" /\ publishing'[p].menu = menu
        /\ publishing'[p].own = publishing[p].own
        /\ publishing'[p].print = publishing[p].print
        /\ \A q \in Publishers \ {p} : publishing'[q].step = "idle"
    BY <1>0, <1>b, <2>1, StepIs DEF Publishing
  <2>4. \A q \in Publishers : publishing[q].step # "accepted"
    BY <1>b, <2>1 DEF Publishing
  <2>5. Unanswered'
    BY <2>2 DEF Recorded, Unanswered
  <2>6. Succeeded' = Succeeded
    BY <2>2 DEF Succeeded
  <2>7. OwnRow'
    <3>1. {v \in DOMAIN version' : version'[v].menu = menu} = {n}
      BY <2>1, <2>2 DEF Published
    <3>2. version'[n].status # "SUCCEEDED" /\ n = Len(version')
      BY <2>2
    <3>3. ASSUME NEW q \in Publishers,
                 publishing'[q].step \in {"uploading", "accepted", "refused"}
          PROVE  publishing'[q].menu = menu
      BY <2>3, <3>3
    <3>4. ASSUME NEW q \in Publishers,
                 publishing'[q].step \in {"uploading", "accepted", "refused"}
          PROVE  {v \in DOMAIN version' : version'[v].menu = publishing'[q].menu} = {n}
      BY <3>1, <3>3, <3>4
    <3> QED
      BY <3>2, <3>4 DEF OwnRow, Published
  <2>8. Baseline'
    <3>1. \A q \in Publishers : publishing'[q].step # "accepted"
      BY <2>3
    <3>2. CASE Succeeded = {} /\ SamePrices(live, NoMenu)
      BY <2>1, <2>6, <3>1, <3>2 DEF Baseline, SamePrices, NoMenu
    <3>3. ASSUME NEW v \in DOMAIN version, Stands(v) PROVE Stands(v)'
      BY <2>1, <2>2, <2>6, <3>3 DEF Stands, SamePrices
    <3> QED
      BY <2>2, <2>4, <3>1, <3>2, <3>3 DEF Recorded, Baseline
  <2>9. Acknowledged'
    <3>1. ASSUME NEW i \in Items, Lost(i, p) PROVE Known(i, p)
      <4>1. live[i].price = "own"
        BY <3>1 DEF Lost
      <4>2. PICK v \in DOMAIN version : Stands(v)
        BY <2>4, <4>1 DEF Recorded, Baseline, SamePrices, NoMenu, Absent
      <4>3. menu \in Menus
        BY <1>0 DEF Publications
      <4>4. \/ menu[i].price = "absent" /\ i \in risks.deleted
            \/ menu[i].price = "source" /\ i \in risks.fallen
            \/ menu[i].price = "source" /\ i \in asked
        BY <3>1, <4>1, <4>2, <4>3, RisksName DEF Lost
      <4>5. i \in risks.deleted \cup risks.fallen
              => publishing[p].print.risks = risks
        BY <2>1 DEF Confirmed, HasCritical
      <4> QED
        BY <4>4, <4>5 DEF Known
    <3>2. \A i \in Items : Lost(i, p)' => Lost(i, p)
      BY <2>1, <2>3 DEF Lost
    <3>3. \A i \in Items : Known(i, p) => Known(i, p)'
      BY <2>1, <2>3 DEF Known
    <3> QED
      BY <2>3, <3>1, <3>2, <3>3 DEF Acknowledged
  <2> QED
    BY <2>5, <2>7, <2>8, <2>9 DEF Recorded
<1>4. CASE Upload(p)
  <2>1. /\ publishing[p].step = "uploading" /\ live' = publishing[p].menu
        /\ publishing' = [publishing EXCEPT ![p].step = "accepted"]
        /\ UNCHANGED version
    BY <1>4 DEF Upload
  <2>2. /\ publishing'[p].step = "accepted" /\ publishing'[p].menu = publishing[p].menu
        /\ \A q \in Publishers \ {p} : publishing'[q].step = "idle"
    BY <1>0, <1>b, <2>1, StepIs DEF Publishing
  <2>3. Unanswered' /\ Acknowledged'
    BY <2>1, <2>2 DEF Recorded, Unanswered, Acknowledged
  <2>4. OwnRow'
    BY <2>1, <2>2 DEF Recorded, OwnRow, Published
  <2>5. Baseline'
    BY <2>1, <2>2 DEF Baseline, SamePrices
  <2> QED
    BY <2>3, <2>4, <2>5 DEF Recorded
<1>5. CASE Refuse(p)
  <2>1. /\ publishing[p].step = "uploading"
        /\ publishing' = [publishing EXCEPT ![p].step = "refused"]
        /\ UNCHANGED <<version, restored, asked, live>>
    BY <1>5 DEF Refuse, menuVars, ghosts
  <2>2. /\ publishing'[p].step = "refused" /\ publishing'[p].menu = publishing[p].menu
        /\ \A q \in Publishers \ {p} : publishing'[q] = publishing[q]
    BY <1>0, <2>1, StepIs
  <2> QED
    BY <1>a, <2>1, <2>2, RecordedKept
<1>6. CASE RecordSuccess(p)
  <2> DEFINE n == Len(version)
  <2>1. /\ publishing[p].step = "accepted"
        /\ Published(publishing[p].menu) = {n} /\ n \in DOMAIN version
        /\ version[n].menu = publishing[p].menu
        /\ SamePrices(live, publishing[p].menu)
    <3>1. publishing[p].step = "accepted"
      BY <1>6 DEF RecordSuccess
    <3>2. Published(publishing[p].menu) = {n} /\ SamePrices(live, publishing[p].menu)
      BY <3>1 DEF Recorded, OwnRow, Baseline
    <3> QED
      BY <3>1, <3>2 DEF Published
  <2>2. /\ version' = Finished("SUCCEEDED", n)
        /\ publishing' = [publishing EXCEPT ![p] = IdlePublication]
        /\ UNCHANGED <<live, restored, asked>>
    BY <1>6, <2>1 DEF RecordSuccess, menuVars
  <2>3. /\ version' \in [DOMAIN version -> Versions]
        /\ version'[n].status = "SUCCEEDED"
        /\ version'[n].menu = version[n].menu
        /\ version'[n].answered = version[n].answered
        /\ \A u \in DOMAIN version \ {n} : version'[u] = version[u]
    BY <2>1, <2>2, FinishedIs
  <2>4. version'[n].older = restored
    <3>1. version[n] \in Versions
      BY <2>1, VersionsOf
    <3> QED
      BY <2>1, <2>2, <3>1 DEF Finished, Versions
  <2>5. \A q \in Publishers : publishing'[q].step = "idle"
    BY <1>b, <2>1, <2>2 DEF Publishing, IdlePublication
  <2>6. Unanswered' /\ OwnRow' /\ Acknowledged'
    BY <2>1, <2>3, <2>5 DEF Recorded, Unanswered, OwnRow, Acknowledged
  <2>7. Stands(n)'
    <3>0. Len(version') = n
      BY <2>3, RowsRewritten
    <3>1. n \in Succeeded' /\ \A u \in Succeeded' : u <= n
      BY <2>1, <2>3, VersionsOf DEF Succeeded
    <3>2. SamePrices(live', version'[n].menu)
      BY <2>1, <2>2, <2>3
    <3>3. restored' \ version'[n].older \subseteq asked'
      BY <2>2, <2>4
    <3> QED
      BY <3>0, <3>1, <3>2, <3>3 DEF Stands
  <2>8. Baseline'
    BY <2>1, <2>3, <2>5, <2>7 DEF Baseline
  <2> QED
    BY <2>6, <2>8 DEF Recorded
<1>7. CASE RecordFailure(p)
  <2> DEFINE n == Len(version)
  <2>1. /\ publishing[p].step = "refused" /\ n \in DOMAIN version
        /\ Published(publishing[p].menu) = {n}
        /\ version[n].status # "SUCCEEDED"
    <3>1. publishing[p].step = "refused"
      BY <1>7 DEF RecordFailure
    <3> QED
      BY <3>1 DEF Recorded, OwnRow, Published
  <2>2. /\ version' = Finished("FAILED", n)
        /\ publishing' = [publishing EXCEPT ![p] = IdlePublication]
        /\ UNCHANGED <<live, restored, asked>>
    BY <1>7, <2>1 DEF RecordFailure, menuVars, ghosts
  <2>3. /\ version' \in [DOMAIN version -> Versions]
        /\ version'[n].status = "FAILED"
        /\ version'[n].menu = version[n].menu
        /\ version'[n].answered = version[n].answered
        /\ \A u \in DOMAIN version \ {n} : version'[u] = version[u]
    BY <2>1, <2>2, FinishedIs
  <2>4. /\ \A q \in Publishers \ {p} : publishing'[q] = publishing[q]
        /\ publishing'[p].step = "idle"
    BY <2>2 DEF IdlePublication
  <2>5. DOMAIN version' = DOMAIN version /\ Len(version') = Len(version)
    BY <2>3, RowsRewritten
  <2> QED
    BY <1>a, <2>1, <2>2, <2>3, <2>4, <2>5, RecordedKept
<1> QED
  BY <1>1, <1>2, <1>3, <1>4, <1>5, <1>6, <1>7 DEF PublishNext, Settle

LEMMA RecordedNext ==
    TypeOK /\ Vouched /\ Undisturbed /\ Recorded /\ [Next]_vars /\ ~disturbed'
        => Recorded'
<1> SUFFICES ASSUME TypeOK, Vouched, Undisturbed, Recorded, [Next]_vars, ~disturbed'
             PROVE  Recorded'
  OBVIOUS
<1> USE DEF TypeOK
<1>a. SamePrices(live, live)
  BY DEF SamePrices
<1>1. ASSUME NEW i \in Items, RestorePrice(i) PROVE Recorded'
  <2>1. /\ version' = [v \in DOMAIN version |->
                         [version[v] EXCEPT !.older = @ \ {i}]]
        /\ restored' = restored \cup ({i} \ Options)
        /\ asked' = asked \cup {i}
        /\ UNCHANGED <<publishing, live>>
    BY <1>1 DEF RestorePrice
  <2>2. \A v \in DOMAIN version :
           /\ version'[v].menu = version[v].menu
           /\ version'[v].answered = version[v].answered
           /\ version'[v].status = version[v].status
           /\ version'[v].older = version[v].older \ {i}
    BY <2>1, VersionsOf DEF Versions
  <2>3. version' \in [DOMAIN version -> Versions]
    BY <2>1, VersionsOf DEF Versions
  <2>4. DOMAIN version' = DOMAIN version /\ Len(version') = Len(version)
    BY <2>3, RowsRewritten
  <2>5. \A v \in DOMAIN version :
           restored' \ version'[v].older \subseteq (restored \ version[v].older) \cup asked'
    BY <2>1, <2>2
  <2> QED
    BY <1>a, <2>1, <2>2, <2>4, <2>5, RecordedKept
<1>2. CASE LocalNext
  <2>1. \/ \E i \in Items : RestorePrice(i)
        \/ UNCHANGED <<version, publishing, restored, asked, live>>
    BY <1>2 DEF LocalNext, SetRow, ApplyImport, pubVars
  <2> QED
    BY <1>1, <1>a, <2>1, RecordedAside
<1>3. ASSUME NEW a \in Admins, SwitchNext(a) PROVE Recorded'
  <2>1. UNCHANGED <<version, publishing, restored, asked>>
    BY <1>3, SwitchIs DEF StartSwitch, SaveSwitch, SwitchAtUber, SwitchRefused,
                          ReportSwitch, menuVars, pubVars, ghosts
  <2>2. SamePrices(live', live)
    <3>1. CASE SwitchAtUber(a)
      <4>1. PICK j, d : live' = [live EXCEPT ![j].until = d]
        BY <3>1 DEF SwitchAtUber
      <4>2. \A i \in Items : live[i] \in Entries
        BY DEF Menus
      <4> QED
        BY <4>1, <4>2 DEF SamePrices, Menus, Entries
    <3>2. CASE UNCHANGED live
      BY <1>a, <3>2
    <3>3. SwitchAtUber(a) \/ UNCHANGED live
      BY <1>3, SwitchIs DEF StartSwitch, SaveSwitch, SwitchRefused, ReportSwitch
    <3> QED
      BY <3>1, <3>2, <3>3
  <2> QED
    BY <2>1, <2>2, RecordedAside
<1>4. ASSUME NEW v \in DOMAIN version, WorkerNext(v) PROVE Recorded'
  <2>1. ~version[v].answered /\ version[v].lease # "confirm"
    BY DEF Recorded, Unanswered, Vouched
  <2>2. UNCHANGED <<publishing, restored, asked, live>>
    BY <1>4 DEF WorkerNext, ClaimDue, MarkConfirmed, ClaimTimedOut, MarkTimedOut,
                LeaseExpires, Notify, menuVars, ghosts
  <2>3. /\ version' \in [DOMAIN version -> Versions]
        /\ \A u \in DOMAIN version :
              /\ version'[u].menu = version[u].menu
              /\ version'[u].answered = version[u].answered
    BY <1>4, RowsAfterWorker
  <2>4. \A u \in DOMAIN version :
           /\ (version'[u].status = "SUCCEEDED") = (version[u].status = "SUCCEEDED")
           /\ version[u].status = "SUCCEEDED" => version'[u].older = version[u].older
    <3>0. version \in [DOMAIN version -> Versions]
      BY VersionsOf
    <3>1. ASSUME NEW task, Lease(v, task)
          PROVE  \A u \in DOMAIN version : /\ version'[u].status = version[u].status
                                           /\ version'[u].older = version[u].older
      BY <3>0, <3>1 DEF Lease, Versions
    <3>2. CASE MarkTimedOut(v)
      BY <3>0, <3>2 DEF MarkTimedOut, Finished, Versions
    <3>3. \/ MarkTimedOut(v) \/ \E task : Lease(v, task)
      BY <1>4, <2>1 DEF WorkerNext, ClaimDue, MarkConfirmed, ClaimTimedOut,
                        LeaseExpires, Notify, AwaitsConfirmation
    <3> QED
      BY <3>1, <3>2, <3>3
  <2>5. DOMAIN version' = DOMAIN version /\ Len(version') = Len(version)
    BY <2>3, RowsRewritten
  <2> QED
    BY <1>a, <2>2, <2>3, <2>4, <2>5, RecordedKept
<1>5. CASE Crash
  BY <1>5 DEF Crash
<1>6. CASE Midnight \/ UNCHANGED vars
  <2>1. UNCHANGED <<version, publishing, restored, asked, live>>
    BY <1>6 DEF Midnight, vars, menuVars, pubVars, ghosts
  <2> QED
    BY <1>a, <2>1, RecordedAside
<1> QED
  BY <1>2, <1>3, <1>4, <1>5, <1>6, RecordedPublish DEF Next

LEMMA RecordedInit == Init /\ ~disturbed => Recorded
<1> SUFFICES ASSUME Init, ~disturbed PROVE Recorded
  OBVIOUS
<1>1. version = <<>> /\ live = NoMenu /\ DOMAIN version = {}
  BY DEF Init
<1>2. \A p \in Publishers : publishing[p].step = "idle"
  BY DEF Init, IdlePublication
<1> QED
  BY <1>1, <1>2 DEF Recorded, Unanswered, OwnRow, Baseline, Acknowledged, Succeeded,
                    SamePrices

\* Only its own upload is accepted.
LEMMA AcceptedIs ==
    ASSUME TypeOK, [Next]_vars, NEW p \in Publishers,
           publishing[p].step = "uploading", publishing'[p].step = "accepted"
    PROVE  Upload(p)
<1> USE DEF TypeOK
<1>1. ASSUME UNCHANGED publishing PROVE FALSE
  BY <1>1
<1>2. ~LocalNext
  BY <1>1 DEF LocalNext, SetRow, RestorePrice, ApplyImport, pubVars
<1>3. \A a \in Admins : ~SwitchNext(a)
  BY <1>1, SwitchIs DEF StartSwitch, SaveSwitch, SwitchAtUber, SwitchRefused,
                        ReportSwitch, pubVars
<1>4. \A v \in DOMAIN version : ~WorkerNext(v)
  BY <1>1 DEF WorkerNext, ClaimDue, MarkConfirmed, ClaimTimedOut, MarkTimedOut,
              LeaseExpires, Notify
<1>5. ~Crash
  BY DEF Crash, IdlePublication
<1>6. ~Midnight /\ ~UNCHANGED vars
  BY <1>1 DEF Midnight, vars, pubVars
<1>7. PICK q \in Publishers : PublishNext(q)
  BY <1>2, <1>3, <1>4, <1>5, <1>6 DEF Next
<1>8. q = p
  <2>1. \A r \in Publishers \ {q} : publishing'[r] = publishing[r]
    BY <1>7 DEF PublishNext, Settle, Read, TurnAway, Submit, Upload, Refuse,
                RecordSuccess, RecordFailure
  <2> QED
    BY <2>1
<1>9. publishing[p] \in Publications /\ PublishNext(p)
  BY <1>7, <1>8
<1>10. ASSUME NEW step, publishing' = [publishing EXCEPT ![p].step = step]
       PROVE  step = "accepted"
  BY <1>9, <1>10, StepIs
<1>11. publishing' # [publishing EXCEPT ![p] = IdlePublication]
  BY DEF IdlePublication
<1>12. ~TurnAway(p) /\ ~RecordFailure(p)
  BY <1>11 DEF TurnAway, RecordFailure
<1>13. ~Submit(p) /\ ~Refuse(p) /\ ~RecordSuccess(p)
  BY <1>10, <1>11 DEF Submit, Refuse, RecordSuccess
<1>14. \A kept, print : ~Read(p, kept, print)
  BY DEF Read
<1> QED
  BY <1>9, <1>12, <1>13, <1>14 DEF PublishNext, Settle

(* Unless an answer was lost or calls overlapped, no item loses its own     *)
(* Uber price, or its place in the menu, in an upload nobody was asked      *)
(* about (uber-menu-publish-safety.service.ts, PUBLISHED_OVERRIDE_FALLBACK  *)
(* and RESOURCE_DELETED).                                                   *)
THEOREM MenuLossesAreAcknowledged == Spec => LossesAreAcknowledged
<1> DEFINE Inv == TypeOK /\ Vouched /\ (~disturbed => Undisturbed /\ Recorded)
           Loss(i, p) ==
               /\ publishing[p].step = "uploading"
               /\ publishing'[p].step = "accepted"
               /\ live[i].price = "own"
               /\ \/ live'[i].price = "absent"
                  \/ live'[i].price = "source" /\ i \notin publishing[p].own
           Named(i, p) ==
               \/ disturbed
               \/ i \in publishing[p].print.risks.deleted
                         \cup publishing[p].print.risks.fallen
               \/ i \in asked /\ live'[i].price = "source"
<1>1. Init => Inv
  BY TypeInit, VouchedInit, UndisturbedInit, RecordedInit
<1>2. Inv /\ [Next]_vars => Inv'
  BY TypeNext, VouchedNext, DisturbedStays, UndisturbedNext, RecordedNext
<1>3. Inv /\ [Next]_vars
        => [\A i \in Items, p \in Publishers : Loss(i, p) => Named(i, p)]_vars
  <2> SUFFICES ASSUME Inv, [Next]_vars, NEW i \in Items, NEW p \in Publishers, Loss(i, p)
               PROVE  Named(i, p)
    OBVIOUS
  <2>1. live' = publishing[p].menu
    BY AcceptedIs DEF Upload
  <2>2. Lost(i, p)
    BY <2>1 DEF Lost
  <2>3. ~disturbed => Known(i, p)
    BY <2>2 DEF Recorded, Acknowledged
  <2> QED
    BY <2>1, <2>3 DEF Known
<1> QED
  BY <1>1, <1>2, <1>3, PTL DEF Spec, LossesAreAcknowledged
=============================================================================
