------------------------ MODULE UberMenuPublication ------------------------
(***************************************************************************)
(* What Uber Eats shows of one store's menu: prices and availability of    *)
(* items and options, kept in the local tables and sent to Uber by two     *)
(* paths that know nothing of each other.  A publication reads a snapshot, *)
(* has its losses confirmed and uploads the whole menu; a switch of one    *)
(* item is sent on its own.  The rows of UberMenuPublishVersion record     *)
(* what was uploaded and are the baseline of the next publication.         *)
(*                                                                         *)
(* A price is the item's own Uber price or the one of the local menu       *)
(* ("source").  A suspension is the day it ends on: 0 for none.            *)
(***************************************************************************)
EXTENDS Naturals, Sequences

CONSTANTS
    Items,        \* items and options of the menu
    NoItem,       \* what an idle switch is about
    Options,      \* the options among them
    Legacy,       \* bound: the items that may have a row under the Uber store id
    Dark,         \* those whose row there says they are not available
    Settable,     \* bound: the prices of their own items are given
    Donor,        \* rows of the store whose configuration may be imported
    Publishers,   \* publications at the same time
    Admins,       \* switches of an item at the same time
    LastDay,      \* bound: the days that pass
    MaxChanges,   \* bound: the changes of prices and availability, and crashes
    MaxVersions   \* bound: the publications that are recorded

Prices == {"own", "source"}

ASSUME MenuAssumption ==
    /\ Options \subseteq Items /\ Legacy \subseteq Items \ Options /\ Dark \subseteq Legacy
    /\ Settable \subseteq Prices /\ NoItem \notin Items
    /\ LastDay \in Nat /\ MaxChanges \in Nat /\ MaxVersions \in Nat

Forever == LastDay + 2
Days == 0 .. Forever

\* A row of UberItemChannelConfig: priceCents may be NULL.
NoRow == [price |-> "norow", on |-> TRUE]
Rows == [price : Prices \cup {"null"}, on : BOOLEAN] \cup {NoRow}

ASSUME DonorAssumption == Donor \in [Items -> Rows]

\* What a menu says of an item; "absent" when it leaves the item out.
Entries == [price : Prices \cup {"absent"}, until : Days]
Absent == [price |-> "absent", until |-> 0]
Menus == [Items -> Entries]
NoMenu == [i \in Items |-> Absent]

RiskSets == [deleted : SUBSET Items, fallen : SUBSET Items, intended : SUBSET Items]
NoRisk == [deleted |-> {}, fallen |-> {}, intended |-> {}]
Fingerprints == [menu : Menus, risks : RiskSets]
NoPrint == [menu |-> NoMenu, risks |-> NoRisk]

\* older: items last restored before the version finished.  answered:
\* responsePayload is set, as only rows of an earlier release have it while
\* they are SUBMITTED.  lease: the worker's task that holds the row.
Versions == [menu : Menus, status : {"SUBMITTED", "SUCCEEDED", "FAILED"},
             older : SUBSET Items, answered : BOOLEAN,
             lease : {"none", "confirm", "recover"}]

Publications == [step : {"idle", "read", "uploading", "accepted", "refused"},
                 menu : Menus, own : SUBSET Items, print : Fingerprints]
IdlePublication == [step |-> "idle", menu |-> NoMenu, own |-> {},
                    print |-> NoPrint]

Switches == {s \in [step : {"idle", "written", "saved", "refused"},
                    item : Items \cup {NoItem}, on : BOOLEAN, until : Days] :
                s.step = "idle" \/ s.item \in Items}
IdleSwitch == [step |-> "idle", item |-> NoItem, on |-> TRUE, until |-> 0]

VARIABLES
    today,
    changes,     \* the changes and crashes so far
    item,        \* isAvailable and tempUnavailableUntil of the local menu
    config,      \* the store's channel rows
    legacy,      \* items with a row of their own price under the Uber store id
    restored,    \* items with a price_restored event
    version,     \* UberMenuPublishVersion, by creation
    publishing,  \* local state of each publication
    switching,   \* local state of each switch
    ticket,      \* items with a ticket for a switch Uber did not take
    live,        \* the menu at Uber
    uploaded,    \* ghost: versions whose menu reached Uber
    asked,       \* ghost: items restored since the last upload
    unsent,      \* ghost: "told" unless a write of the channel row alone was the
                 \* last to switch it off; then whether a publication has read it
    sticking,    \* ghost: items whose last change of price is a restore
    disturbed    \* ghost: an answer was lost, calls or midnight overlapped, or Uber
                 \* has a menu of an earlier release that no row vouches for

menuVars == <<item, config, legacy, restored>>
pubVars == <<version, publishing>>
ghosts == <<uploaded, asked, sticking, unsent, disturbed>>
vars == <<today, changes, menuVars, pubVars, switching, ticket, live, ghosts>>

-----------------------------------------------------------------------------

\* Mutant: whether the price was restored is not asked.
EffectiveAnyhow(i) ==
    IF config[i].price \in Prices THEN config[i].price
    ELSE IF i \in legacy THEN "own" ELSE "null"

\* The override of an item: of the canonical row, or inherited from the row
\* under the Uber store id unless the price was restored.
Effective(i) ==
    IF config[i].price \in Prices THEN config[i].price
    ELSE IF i \in legacy /\ ~(config[i].price = "null" /\ i \in restored) THEN "own"
    ELSE "null"

\* isAvailable of the row that counts, or of the item: a day's pause is not
\* looked at.
Offered(i) ==
    IF config[i].price # "norow" THEN config[i].on
    ELSE IF i \in legacy THEN i \notin Dark ELSE item[i].on

\* The payload for the items that are not excluded.
Payload(kept) ==
    [i \in Items |->
        IF i \notin kept THEN Absent
        ELSE [price |-> IF Effective(i) = "null" THEN "source" ELSE Effective(i),
              until |-> IF Offered(i) THEN 0 ELSE Forever]]

Overridden == {i \in Items : Effective(i) # "null"}

Succeeded == {v \in DOMAIN version : version[v].status = "SUCCEEDED"}

LastSucceeded == CHOOSE v \in Succeeded : \A u \in Succeeded : u <= v

\* Mutant: a restore counts however long ago it was.
IntentionalEver == restored

\* listIntentionalPriceRestores: the restores since the last success finished.
Intentional ==
    IF Succeeded = {} THEN restored ELSE restored \ version[LastSucceeded].older

\* UberMenuPublishSafetyService.evaluate.
Risks(menu, own) ==
    IF Succeeded = {} THEN NoRisk ELSE
    LET previous == version[LastSucceeded].menu
        there == {i \in Items : previous[i].price # "absent"}
        fall == {i \in there \ own : /\ menu[i].price = "source"
                                     /\ previous[i].price # "source"}
    IN  [deleted |-> {i \in there : menu[i].price = "absent"},
         fallen |-> fall \ Intentional, intended |-> fall \cap Intentional]

HasCritical(risks) == risks.deleted # {} \/ risks.fallen # {}

Published(menu) == {v \in DOMAIN version : version[v].menu = menu}

Busy == \/ \E p \in Publishers : publishing[p].step # "idle"
        \/ \E a \in Admins : switching[a].step # "idle"

Change == changes < MaxChanges /\ changes' = changes + 1

-----------------------------------------------------------------------------
(* The local tables                                                         *)

\* What a write of the rows that Uber is not told of makes of unsent.  An
\* absent row counts as on.
Unsent(rows) ==
    [i \in Items |-> IF rows[i].on THEN "told"
                     ELSE IF config[i].on THEN "unread" ELSE unsent[i]]

\* The draft and the price book create a row or change one: its price, its
\* availability, or both.  Neither tells Uber.
SetRow(i, price, on) ==
    /\ Change
    /\ price # "norow"
    /\ config[i] # [price |-> price, on |-> on]
    /\ config' = [config EXCEPT ![i] = [price |-> price, on |-> on]]
    /\ unsent' = Unsent(config')
    /\ sticking' = IF price = config[i].price THEN sticking ELSE sticking \ {i}
    /\ UNCHANGED <<today, item, legacy, restored, pubVars, switching, ticket,
                   live, uploaded, asked, disturbed>>

\* restoreItemPrice clears the override, restoreOptionPrice writes the source
\* price as one; both write the event, which names only items.
RestorePrice(i) ==
    /\ Change
    /\ config' = [config EXCEPT ![i] =
           [price |-> IF i \in Options THEN "source" ELSE "null",
            on |-> IF @ = NoRow THEN item[i].on ELSE @.on]]
    /\ restored' = restored \cup ({i} \ Options)
    /\ version' = [v \in DOMAIN version |->
                     [version[v] EXCEPT !.older = @ \ {i}]]
    /\ asked' = asked \cup {i}
    /\ sticking' = sticking \cup {i}
    /\ unsent' = Unsent(config')
    /\ UNCHANGED <<today, item, legacy, publishing, switching, ticket, live,
                   uploaded, disturbed>>

\* One serializable transaction, refused when a row changed since the preview:
\* the administrator has seen the rows it acts on.  SKIP_EXISTING only creates
\* rows, OVERWRITE changes the others as well.
ApplyImport(overwrite) ==
    LET taken == {i \in Items : /\ Donor[i] # NoRow
                                /\ config[i] = NoRow \/ overwrite}
    IN  /\ Change
        /\ \E i \in taken : config[i] # Donor[i]
        /\ config' = [i \in Items |-> IF i \in taken THEN Donor[i] ELSE config[i]]
        /\ sticking' = sticking \ taken
        /\ unsent' = Unsent(config')
        /\ UNCHANGED <<today, item, legacy, restored, pubVars, switching, ticket,
                       live, uploaded, asked, disturbed>>

-----------------------------------------------------------------------------
(* Switching an item or an option on or off                                 *)

NextMidnight == today + 1

\* The local row is written first, and decides whether Uber is told "on".
StartSwitch(a, i, row, on) ==
    /\ Change
    /\ switching[a].step = "idle"
    /\ item' = [item EXCEPT ![i] = row]
    /\ switching' = [switching EXCEPT ![a] =
           [step |-> "written", item |-> i, on |-> on, until |-> 0]]
    /\ disturbed' = (disturbed \/ Busy)
    /\ UNCHANGED <<today, config, legacy, restored, pubVars, ticket, live,
                   uploaded, asked, sticking, unsent>>

\* setItemAvailability and setTemplateOptionAvailability.
Switch(a, i, mode) ==
    StartSwitch(a, i, [on |-> mode # "off",
                       until |-> IF mode = "today" THEN NextMidnight ELSE 0],
                mode = "on")

\* updateItem: the form sends isAvailable and leaves a pause as it is.
EditItem(a, i, on) ==
    /\ i \notin Options
    /\ StartSwitch(a, i, [on |-> on, until |-> item[i].until],
                   on /\ item[i].until <= today)

\* The switch of the Uber pages leaves the local row alone.
SwitchChannel(a, i, on) == StartSwitch(a, i, item[i], on)

\* The channel row, created with the price of the row under the Uber store id,
\* and tempUnavailableUntil as it is by now.
SaveSwitch(a) ==
    LET s == switching[a]
        i == s.item
        inherited == IF i \in Options THEN "source"
                     ELSE IF i \in legacy THEN "own" ELSE "null"
    IN  /\ s.step = "written"
        /\ config' = [config EXCEPT ![i] =
               [price |-> IF @.price = "norow" THEN inherited ELSE @.price, on |-> s.on]]
        /\ switching' = [switching EXCEPT ![a].step = "saved",
                                          ![a].until = item[i].until]
        /\ unsent' = [unsent EXCEPT ![i] = "told"]
        /\ UNCHANGED <<today, changes, item, legacy, restored, pubVars, ticket,
                       live, uploaded, asked, sticking, disturbed>>

\* Mutant: without an end in the future there is no suspension.
SuspensionUnlessOver(s) == IF s.on THEN 0 ELSE s.until

\* suspendUntilEpochSeconds, or the year 2099.
Suspension(s) ==
    IF s.on THEN 0 ELSE IF s.until > today THEN s.until ELSE Forever

\* updateItemAvailability; Uber knows only the items of its menu.
SwitchAtUber(a) ==
    LET s == switching[a] IN
    /\ s.step = "saved"
    /\ live[s.item] # Absent
    /\ live' = [live EXCEPT ![s.item].until = Suspension(s)]
    /\ \/ /\ switching' = [switching EXCEPT ![a] = IdleSwitch]
          /\ UNCHANGED disturbed
       \/ /\ switching' = [switching EXCEPT ![a].step = "refused"]
          /\ disturbed' = TRUE
    /\ UNCHANGED <<today, changes, menuVars, pubVars, ticket, uploaded, asked,
                   sticking, unsent>>

SwitchRefused(a) ==
    /\ switching[a].step = "saved"
    /\ switching' = [switching EXCEPT ![a].step = "refused"]
    /\ UNCHANGED <<today, changes, menuVars, pubVars, ticket, live, ghosts>>

\* A failed switch of an item leaves a ticket, of an option nothing.
ReportSwitch(a) ==
    LET i == switching[a].item IN
    /\ switching[a].step = "refused"
    /\ switching' = [switching EXCEPT ![a] = IdleSwitch]
    /\ ticket' = ticket \cup ({i} \ Options)
    /\ disturbed' = (disturbed \/ i \in Options)
    /\ UNCHANGED <<today, changes, menuVars, pubVars, live, uploaded, asked,
                   sticking, unsent>>

-----------------------------------------------------------------------------
(* Publishing the menu                                                      *)

\* What a dry run shows, and the administrator may confirm.
DryRun(seen) ==
    [menu |-> Payload(seen), risks |-> Risks(Payload(seen), Overridden)]

Confirmable ==
    {d \in {DryRun(seen) : seen \in SUBSET Items} : HasCritical(d.risks)}

\* The snapshot, read before the images are probed; print is the fingerprint
\* of a dry run that came with the request.
Read(p, kept, print) ==
    /\ publishing[p].step = "idle"
    /\ kept # {}
    /\ publishing' = [publishing EXCEPT ![p] =
           [step |-> "read", menu |-> Payload(kept), own |-> Overridden,
            print |-> print]]
    /\ unsent' = [i \in Items |-> IF unsent[i] = "unread" THEN "read" ELSE unsent[i]]
    /\ disturbed' = (disturbed \/ Busy)
    /\ UNCHANGED <<today, changes, menuVars, version, switching, ticket, live,
                   uploaded, asked, sticking>>

\* safetyFingerprint equals the one of this payload and these risks.
Confirmed(p, risks) ==
    HasCritical(risks)
        => publishing[p].print = [menu |-> publishing[p].menu, risks |-> risks]

\* Refused for a risk nobody confirmed, answered as a duplicate of a version
\* that succeeded, or stopped by the unique key a failed version still holds.
TurnAway(p) ==
    LET menu == publishing[p].menu IN
    /\ publishing[p].step = "read"
    /\ \/ ~Confirmed(p, Risks(menu, publishing[p].own))
       \/ Published(menu) # {}
    /\ publishing' = [publishing EXCEPT ![p] = IdlePublication]
    /\ UNCHANGED <<today, changes, menuVars, version, switching, ticket, live, ghosts>>

\* createAttempt.
Submit(p) ==
    LET menu == publishing[p].menu
        risks == Risks(menu, publishing[p].own)
    IN  /\ publishing[p].step = "read"
        /\ Len(version) < MaxVersions
        /\ Confirmed(p, risks)
        /\ Published(menu) = {}
        /\ version' = Append(version, [menu |-> menu, status |-> "SUBMITTED",
                                       older |-> {}, answered |-> FALSE,
                                       lease |-> "none"])
        /\ publishing' = [publishing EXCEPT ![p].step = "uploading"]
        /\ UNCHANGED <<today, changes, menuVars, switching, ticket, live, ghosts>>

\* Uber takes the menu; its answer may not arrive.
Upload(p) ==
    /\ publishing[p].step = "uploading"
    /\ live' = publishing[p].menu
    /\ uploaded' = uploaded \cup Published(publishing[p].menu)
    /\ asked' = {}
    /\ unsent' = [i \in Items |-> IF unsent[i] = "read" THEN "told" ELSE unsent[i]]
    /\ \/ /\ publishing' = [publishing EXCEPT ![p].step = "accepted"]
          /\ UNCHANGED disturbed
       \/ /\ publishing' = [publishing EXCEPT ![p].step = "refused"]
          /\ disturbed' = TRUE
    /\ UNCHANGED <<today, changes, menuVars, version, switching, ticket, sticking>>

Refuse(p) ==
    /\ publishing[p].step = "uploading"
    /\ publishing' = [publishing EXCEPT ![p].step = "refused"]
    /\ UNCHANGED <<today, changes, menuVars, version, switching, ticket, live, ghosts>>

\* A row that is finished: the restores so far are older than it.
Finished(status, v) ==
    [version EXCEPT ![v].status = status, ![v].older = restored]

\* markPublishVersionSucceeded asks for nothing; when it throws, committed or
\* not, the version is marked failed.
RecordSuccess(p) ==
    /\ publishing[p].step = "accepted"
    /\ \E v \in Published(publishing[p].menu) :
         \/ /\ version' = Finished("SUCCEEDED", v)
            /\ publishing' = [publishing EXCEPT ![p] = IdlePublication]
            /\ UNCHANGED disturbed
         \/ /\ version' \in {version, Finished("SUCCEEDED", v)}
            /\ publishing' = [publishing EXCEPT ![p].step = "refused"]
            /\ disturbed' = TRUE
    /\ UNCHANGED <<today, changes, menuVars, switching, ticket, live,
                   uploaded, asked, sticking, unsent>>

RecordFailure(p) ==
    /\ publishing[p].step = "refused"
    /\ \E v \in Published(publishing[p].menu) : version' = Finished("FAILED", v)
    /\ publishing' = [publishing EXCEPT ![p] = IdlePublication]
    /\ UNCHANGED <<today, changes, menuVars, switching, ticket, live, ghosts>>

-----------------------------------------------------------------------------
(* The confirmation worker, and what comes from outside                     *)

Lease(v, task) == version' = [version EXCEPT ![v].lease = task]

\* Mutant: a row without an answer is confirmed as well.
AwaitsAnything(v) == version[v].status = "SUBMITTED"

\* responsePayload: { not: DbNull }
AwaitsConfirmation(v) == version[v].status = "SUBMITTED" /\ version[v].answered

ClaimDue(v) ==
    /\ AwaitsConfirmation(v) /\ version[v].lease = "none"
    /\ Lease(v, "confirm")
    /\ UNCHANGED <<today, changes, menuVars, publishing, switching, ticket, live, ghosts>>

MarkConfirmed(v) ==
    /\ version[v].status = "SUBMITTED" /\ version[v].lease = "confirm"
    /\ version' = [Finished("SUCCEEDED", v) EXCEPT ![v].lease = "none"]
    /\ UNCHANGED <<today, changes, menuVars, publishing, switching, ticket, live, ghosts>>

\* Mutant: only rows with an answer time out.
TimedOutAnswered(v) == version[v].status = "SUBMITTED" /\ version[v].answered

\* Submitted half an hour ago, which no publication takes.
TimedOut(v) ==
    /\ version[v].status = "SUBMITTED"
    /\ \A p \in Publishers : publishing[p].step \in {"uploading", "accepted", "refused"}
                                 => publishing[p].menu # version[v].menu

ClaimTimedOut(v) ==
    /\ TimedOut(v) /\ version[v].lease = "none"
    /\ Lease(v, "recover")
    /\ UNCHANGED <<today, changes, menuVars, publishing, switching, ticket, live, ghosts>>

MarkTimedOut(v) ==
    /\ version[v].status = "SUBMITTED" /\ version[v].lease = "recover"
    /\ version' = [Finished("FAILED", v) EXCEPT ![v].lease = "none"]
    /\ disturbed' = (disturbed \/ v \in uploaded)
    /\ UNCHANGED <<today, changes, menuVars, publishing, switching, ticket, live,
                   uploaded, asked, sticking, unsent>>

\* A minute passes, or the worker died: its token no longer counts.
LeaseExpires(v) ==
    /\ version[v].lease # "none"
    /\ Lease(v, "none")
    /\ UNCHANGED <<today, changes, menuVars, publishing, switching, ticket, live, ghosts>>

\* A notification is matched by the resource id of the stored answer.  The
\* other key it is looked up by, versionStableId, is never sent to Uber.
Notify(v, status) ==
    /\ AwaitsConfirmation(v)
    /\ version' = Finished(status, v)
    /\ disturbed' = (disturbed \/ status = "FAILED")
    /\ UNCHANGED <<today, changes, menuVars, publishing, switching, ticket, live,
                   uploaded, asked, sticking, unsent>>

\* The process dies with everything it was doing.
Crash ==
    /\ Change
    /\ Busy
    /\ publishing' = [p \in Publishers |-> IdlePublication]
    /\ switching' = [a \in Admins |-> IdleSwitch]
    /\ disturbed' = TRUE
    /\ UNCHANGED <<today, menuVars, version, ticket, live, uploaded, asked,
                   sticking, unsent>>

Midnight ==
    /\ today < LastDay
    /\ today' = today + 1
    /\ disturbed' = (disturbed \/ Busy)
    /\ UNCHANGED <<changes, menuVars, pubVars, switching, ticket, live,
                   uploaded, asked, sticking, unsent>>

-----------------------------------------------------------------------------

\* A store that was never published, or one that an earlier release has just
\* published, with its items on (a bound).
Init ==
    /\ today = 0 /\ changes = 0
    /\ item \in [Items -> {[on |-> on, until |-> 0] : on \in BOOLEAN}]
    /\ config = [i \in Items |-> NoRow]
    /\ restored = {}
    /\ publishing = [p \in Publishers |-> IdlePublication]
    /\ switching = [a \in Admins |-> IdleSwitch]
    /\ ticket = {} /\ asked = {} /\ sticking = {}
    /\ legacy \in SUBSET Legacy
    /\ unsent = [i \in Items |-> "told"]
    /\ \/ /\ version = <<>> /\ live = NoMenu /\ uploaded = {} /\ disturbed = FALSE
       \/ /\ live = Payload(Items) /\ uploaded = {1} /\ disturbed = TRUE
          /\ \A i \in Items : item[i].on
          /\ version = <<[menu |-> live, status |-> "SUBMITTED", older |-> {},
                          answered |-> TRUE, lease |-> "none"]>>

LocalNext ==
    \/ \E i \in Items :
          \/ \E price \in Settable \cup {config[i].price}, on \in BOOLEAN :
                SetRow(i, price, on)
          \/ RestorePrice(i)
    \/ \E overwrite \in BOOLEAN : ApplyImport(overwrite)

SwitchNext(a) ==
    \/ \E i \in Items :
          \/ \E mode \in {"on", "off", "today"} : Switch(a, i, mode)
          \/ \E on \in BOOLEAN : EditItem(a, i, on) \/ SwitchChannel(a, i, on)
    \/ SaveSwitch(a) \/ SwitchAtUber(a) \/ SwitchRefused(a) \/ ReportSwitch(a)

Settle(p) == TurnAway(p) \/ Submit(p) \/ Upload(p) \/ Refuse(p)
             \/ RecordSuccess(p) \/ RecordFailure(p)

PublishNext(p) ==
    \/ \E kept \in SUBSET Items, print \in {NoPrint} \cup Confirmable : Read(p, kept, print)
    \/ Settle(p)

WorkerNext(v) ==
    \/ ClaimDue(v) \/ MarkConfirmed(v) \/ ClaimTimedOut(v) \/ MarkTimedOut(v)
    \/ LeaseExpires(v)
    \/ \E status \in {"SUCCEEDED", "FAILED"} : Notify(v, status)

Next ==
    \/ LocalNext
    \/ \E a \in Admins : SwitchNext(a)
    \/ \E p \in Publishers : PublishNext(p)
    \/ \E v \in DOMAIN version : WorkerNext(v)
    \/ Crash \/ Midnight

Spec == Init /\ [][Next]_vars

\* The worker polls, and is not killed within the minute of each of its leases;
\* calls to Uber and to the database end, so a publication goes on.
FairSpec ==
    /\ Spec
    /\ \A p \in Publishers : WF_vars(Settle(p))
    /\ \A v \in 1 .. MaxVersions :
         /\ WF_vars(v \in DOMAIN version /\ ClaimTimedOut(v))
         /\ SF_vars(v \in DOMAIN version /\ MarkTimedOut(v))
         /\ SF_vars(v \in DOMAIN version /\ MarkConfirmed(v))
         /\ WF_vars(v \in DOMAIN version /\ LeaseExpires(v))

-----------------------------------------------------------------------------

TypeOK ==
    /\ today \in 0 .. LastDay /\ changes \in 0 .. MaxChanges
    /\ item \in [Items -> [on : BOOLEAN, until : 0 .. LastDay + 1]]
    /\ config \in [Items -> Rows]
    /\ legacy \subseteq Legacy /\ restored \subseteq Items \ Options
    /\ version \in Seq(Versions) /\ Len(version) <= MaxVersions + 1
    /\ publishing \in [Publishers -> Publications]
    /\ switching \in [Admins -> Switches]
    /\ ticket \subseteq Items \ Options
    /\ live \in Menus
    /\ uploaded \subseteq DOMAIN version
    /\ asked \subseteq Items /\ sticking \subseteq Items
    /\ unsent \in [Items -> {"told", "unread", "read"}]
    /\ disturbed \in BOOLEAN

(* A version that counts as succeeded was uploaded: the baseline the next   *)
(* publication is judged by, and the draft is compared with, is a menu that *)
(* Uber has had.  Three writers settle the row: the publication, the        *)
(* confirmation worker (claimDueConfirmations, claimTimedOutConfirmations)  *)
(* and the notification handler, around crashes of the process that         *)
(* created it.                                                              *)
SucceededWasUploaded == Succeeded \subseteq uploaded

(* The price an administrator restored stays restored until it is set again *)
(* or imported: no switch that creates or updates the row in between brings *)
(* back the price of the row under the Uber store id                        *)
(* (uber-menu-snapshot-prisma.adapter.ts, restoredItems).                   *)
RestoreSticks ==
    \A i \in sticking : Effective(i) = IF i \in Options THEN "source" ELSE "null"

(* Unless an answer was lost or calls overlapped, an item that is off       *)
(* locally, with no pause left over, and in the channel row is suspended    *)
(* for good at Uber, whatever publications, switches, edits of the draft    *)
(* and imports came before; a switch Uber refused has left a ticket         *)
(* (uber-menu-availability.use-case.ts, INDEFINITE_SUSPEND_UNTIL).  The one *)
(* exception is a row that an edit or an import was the last to switch off, *)
(* until a publication that read it so is uploaded: these writes do not     *)
(* tell Uber.                                                               *)
SoldOutIsSuspended ==
    ~disturbed /\ ~Busy =>
        \A i \in Items :
            ~item[i].on /\ item[i].until = 0 /\ ~config[i].on
                => \/ live[i] = Absent \/ live[i].until = Forever
                   \/ i \in ticket \/ unsent[i] # "told"

(* Unless an answer was lost or calls overlapped, no item loses its own     *)
(* Uber price, or its place in the menu, in an upload nobody was asked      *)
(* about: its price was restored by hand since the last upload, or          *)
(* the administrator confirmed the fingerprint of just these risks          *)
(* (uber-menu-publish-safety.service.ts, PUBLISHED_OVERRIDE_FALLBACK and    *)
(* RESOURCE_DELETED).  A row that holds the local price of an option, as    *)
(* restoreOptionPrice writes it or an import brings it, is an override to   *)
(* the code: such an option loses nothing.                                  *)
LossesAreAcknowledged ==
    [][\A i \in Items, p \in Publishers :
          /\ publishing[p].step = "uploading"
          /\ publishing'[p].step = "accepted"
          /\ live[i].price = "own"
          /\ \/ live'[i].price = "absent"
             \/ live'[i].price = "source" /\ i \notin publishing[p].own
          => \/ disturbed
             \/ i \in publishing[p].print.risks.deleted \cup publishing[p].print.risks.fallen
             \/ i \in asked /\ live'[i].price = "source"]_vars

(* A version does not stay SUBMITTED: its publication settles it, or, when  *)
(* that process died, the recovery does half an hour later                  *)
(* (recover-timed-out-menu-publications.use-case.ts).                       *)
PublicationsEnd ==
    \A v \in 1 .. MaxVersions :
        (v \in DOMAIN version /\ version[v].status = "SUBMITTED")
            ~> (v \in DOMAIN version /\ version[v].status # "SUBMITTED")
=============================================================================
