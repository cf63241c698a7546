--------------------------- MODULE CouponProgram ---------------------------
(***************************************************************************)
(* Programs that hand out coupons (coupons/*.ts).  A member claims one of  *)
(* a program, with a code or without (CouponProgramClaimService); signing  *)
(* up and the like trigger programs, and a job gives the birthday coupons  *)
(* of the month every night (CouponProgramTriggerService, -Scheduler); an  *)
(* administrator pushes one to a member.  All of them decide what a member *)
(* may have (CouponProgramEligibilityService) and then issue it            *)
(* (CouponProgramIssuerService); only a claim does both in one             *)
(* transaction, which is serializable and tried three times.               *)
(*                                                                         *)
(* The days of the model are the days of the members' birthday month, one  *)
(* year after the other.  An outage is shorter than a day, and a nightly   *)
(* job too; the first day is at midnight.                                  *)
(***************************************************************************)
EXTENDS Integers, FiniteSets

CONSTANTS
    Users,         \* ACTIVE members
    Programs,
    Distributions, \* distribution types a program may start with
    Trigger,       \* of a program while it is an AUTOMATIC_TRIGGER
    RequiredQuantity, \* coupons a program gives at a time
    PerUserLimit,
    Limits,        \* total limits an administrator may set; NoLimit is null
    Calls,
    Requests,      \* what each call may ask for: its kind, member and program
    MaxAttempts,   \* of a claim: three in the code
    LastDay, YearOf,
    MaxUpdates, MaxFaults  \* bounds

NoLimit == -1
Nobody == <<>>
Days == 0..LastDay

DistributionTypes == {"MANUAL_CLAIM", "AUTOMATIC_TRIGGER", "ADMIN_PUSH"}

ASSUME CouponAssumption ==
    /\ \A p \in Programs : Distributions[p] \subseteq DistributionTypes
    /\ Trigger \in [Programs -> {"SIGNUP_COMPLETED", "BIRTHDAY_MONTH"}]
    /\ RequiredQuantity \in [Programs -> Nat \ {0}]
    /\ PerUserLimit \in [Programs -> Nat \ {0}]
    /\ \A p \in Programs : Limits[p] \subseteq Nat \cup {NoLimit}
    /\ \A c \in Calls : Requests[c] \subseteq
          [kind : {"claim", "signup", "push"}, user : Users, program : Programs]
    /\ "job" \notin Calls
    /\ MaxAttempts \in Nat \ {0}
    /\ LastDay \in Nat /\ YearOf \in [Days -> Nat]
    /\ MaxUpdates \in Nat /\ MaxFaults \in Nat

VARIABLES
    row,      \* CouponProgram: its type, status, totalLimit and issuedCount, and
              \* the version of the row
    request,
    coupons,  \* the rows of UserCoupon with their Coupon
    day,
    process,  \* up, down, or down since before midnight
    work,     \* of every call and of the nightly job
    updates,  \* by an administrator
    faults    \* errors of the database and crashes

programVars == <<row, request, coupons, day, process, work, updates, faults>>

AllLimits == UNION {Limits[p] : p \in Programs}
Workers == Calls \cup {"job"}

\* New: asked for, nothing was read yet.
Steps == {"new", "running", "done", "refused", "failed"}

\* loaded: the rows as they were read; at: whom a program is issued to next.
Idle(step) ==
    [step |-> step, attempt |-> 0, loaded |-> <<>>, todo |-> {}, at |-> Nobody]

ProgramInit ==
    /\ \E type \in [Programs -> DistributionTypes], limit \in [Programs -> AllLimits] :
          /\ \A p \in Programs : type[p] \in Distributions[p] /\ limit[p] \in Limits[p]
          /\ row = [p \in Programs |-> [type |-> type[p], active |-> TRUE,
                                       limit |-> limit[p], issued |-> 0, version |-> 0]]
    /\ request \in [Calls -> UNION {Requests[c] : c \in Calls}]
    /\ \A c \in Calls : request[c] \in Requests[c]
    /\ coupons = {}
    /\ day = 0
    /\ process = "up"
    /\ work = [w \in Workers |-> Idle("new")]
    /\ updates = 0 /\ faults = 0

-----------------------------------------------------------------------------
(* Eligibility and issuing.                                                 *)

\* Mutant: only what was issued today counts.
CountedToday(program, p) == {day}

\* Of a birthday program only the coupons of the year count.
CountedDays(program, p) ==
    IF program.type = "AUTOMATIC_TRIGGER" /\ Trigger[p] = "BIRTHDAY_MONTH"
    THEN {d \in Days : YearOf[d] = YearOf[day]}
    ELSE Days

Owned(p, u) == {c \in coupons : c.campaign = p /\ c.user = u}

IssuedOn(p, u, days) == Cardinality({c \in Owned(p, u) : c.issuedAt \in days})

IssuedToUser(program, p, u) == IssuedOn(p, u, CountedDays(program, p))

\* evaluate, of a program as it was loaded and of the coupons as they are.
CanIssue(program, p, u) ==
    /\ program.limit = NoLimit \/ program.issued + RequiredQuantity[p] <= program.limit
    /\ IssuedToUser(program, p, u) < PerUserLimit[p]

\* The rows a member gets; the number stands for the identifier of a row.
NewCoupons(p, u) ==
    LET n == Cardinality(Owned(p, u))
    IN  [campaign : {p}, user : {u}, issuedAt : {day},
         number : (n + 1)..(n + RequiredQuantity[p])]

\* Mutant: the count that was read, and what is issued.
IssueOverwrites(w, p, u) ==
    /\ coupons' = coupons \cup NewCoupons(p, u)
    /\ row' = [row EXCEPT ![p].issued = work[w].loaded[p].issued + RequiredQuantity[p],
                          ![p].version = @ + 1]

\* issueProgramToUser: the coupons and the count, in one transaction.
Issue(w, p, u) ==
    /\ coupons' = coupons \cup NewCoupons(p, u)
    /\ row' = [row EXCEPT ![p].issued = @ + RequiredQuantity[p], ![p].version = @ + 1]

Rows(programs) == [p \in programs |-> row[p]]

Is(w, kind) == w \in Calls /\ request[w].kind = kind
Running(w) == process = "up" /\ work[w].step = "running"

-----------------------------------------------------------------------------
(* Claims.                                                                  *)

\* The snapshot of the transaction, and what is decided from it.
ClaimReads(w) ==
    /\ process = "up" /\ Is(w, "claim") /\ work[w].step = "new"
    /\ LET p == request[w].program
           u == request[w].user
       IN  work' = [work EXCEPT ![w] =
                       IF /\ row[p].type = "MANUAL_CLAIM"
                          /\ row[p].active /\ CanIssue(row[p], p, u)
                       THEN [@ EXCEPT !.step = "running", !.loaded = Rows({p}), !.at = <<p, u>>]
                       ELSE [@ EXCEPT !.step = "refused"]]
    /\ UNCHANGED <<row, request, coupons, day, process, updates, faults>>

\* Mutant: the transaction runs at the default isolation level.
NeverConflicts(w) == FALSE

\* The update of the row fails if the row was updated since the snapshot.
Conflicts(w) ==
    LET p == work[w].at[1] IN row[p].version # work[w].loaded[p].version

ClaimCommits(w) ==
    /\ Is(w, "claim") /\ Running(w) /\ ~Conflicts(w)
    /\ Issue(w, work[w].at[1], work[w].at[2])
    /\ work' = [work EXCEPT ![w] = Idle("done")]
    /\ UNCHANGED <<request, day, process, updates, faults>>

Again(w) == work[w].attempt + 1 < MaxAttempts

\* P2034: every attempt has a snapshot of its own.
ClaimConflicts(w) ==
    /\ Is(w, "claim") /\ Running(w) /\ Conflicts(w)
    /\ work' = [work EXCEPT ![w] =
                   IF Again(w)
                   THEN [Idle("new") EXCEPT !.attempt = work[w].attempt + 1]
                   ELSE Idle("failed")]
    /\ UNCHANGED <<row, request, coupons, day, process, updates, faults>>

-----------------------------------------------------------------------------
(* Triggers, and the nightly job.                                           *)

TriggerOf(w) == IF w = "job" THEN "BIRTHDAY_MONTH" ELSE "SIGNUP_COMPLETED"

\* findActivePrograms, and the members whose birthday is in the month.
TriggerLoads(w) ==
    /\ w = "job" \/ Is(w, "signup")
    /\ process = "up" /\ work[w].step = "new"
    /\ LET programs == {p \in Programs : /\ row[p].type = "AUTOMATIC_TRIGGER"
                                         /\ Trigger[p] = TriggerOf(w) /\ row[p].active}
           members == IF w = "job" THEN Users ELSE {request[w].user}
       IN  work' = [work EXCEPT ![w].step = "running", ![w].loaded = Rows(programs),
                                ![w].todo = programs \X members]
    /\ UNCHANGED <<row, request, coupons, day, process, updates, faults>>

\* Mutant: the first member who has the coupon ends the job.
LeftStopping(w, p, u) ==
    IF CanIssue(work[w].loaded[p], p, u) THEN work[w].todo \ {<<p, u>>} ELSE {}

\* The others are still to be asked about, whatever this one may have.
Left(w, p, u) == work[w].todo \ {<<p, u>>}

\* The program is the one that was loaded before the loop.
TriggerEvaluates(w) ==
    /\ Running(w) /\ work[w].at = Nobody
    /\ \E item \in work[w].todo :
          LET p == item[1]
              u == item[2]
          IN  work' = [work EXCEPT
                 ![w].todo = Left(w, p, u),
                 ![w].at = IF CanIssue(work[w].loaded[p], p, u) THEN item ELSE Nobody]
    /\ UNCHANGED <<row, request, coupons, day, process, updates, faults>>

TriggerIssues(w) ==
    /\ Running(w) /\ ~Is(w, "claim") /\ work[w].at # Nobody
    /\ Issue(w, work[w].at[1], work[w].at[2])
    /\ work' = [work EXCEPT ![w].at = Nobody]
    /\ UNCHANGED <<request, day, process, updates, faults>>

TriggerEnds(w) ==
    /\ Running(w) /\ ~Is(w, "claim") /\ work[w].at = Nobody /\ work[w].todo = {}
    /\ work' = [work EXCEPT ![w] = Idle("done")]
    /\ UNCHANGED <<row, request, coupons, day, process, updates, faults>>

\* scheduleNextRun: the timer of a running process fires at midnight.
Midnight ==
    /\ day < LastDay
    /\ process \in {"up", "down"}
    /\ work["job"].step \notin {"new", "running"}
    /\ day' = day + 1
    /\ process' = IF process = "down" THEN "down_since" ELSE process
    /\ work' = IF process = "up" THEN [work EXCEPT !["job"] = Idle("new")] ELSE work
    /\ UNCHANGED <<row, request, coupons, updates, faults>>

-----------------------------------------------------------------------------
(* Administrators (admin-coupons.service.ts).                               *)

\* issueProgram: no limit is looked at.
PushLoads(w) ==
    /\ process = "up" /\ Is(w, "push") /\ work[w].step = "new"
    /\ LET p == request[w].program
       IN  work' = [work EXCEPT ![w] =
                       IF row[p].type = "ADMIN_PUSH"
                       THEN [@ EXCEPT !.step = "running", !.loaded = Rows({p}),
                                      !.at = <<p, request[w].user>>]
                       ELSE [@ EXCEPT !.step = "refused"]]
    /\ UNCHANGED <<row, request, coupons, day, process, updates, faults>>

\* updateProgram, of what is modelled of a program.
UpdateProgram(p) ==
    /\ process = "up" /\ updates < MaxUpdates
    /\ \E type \in Distributions[p], active \in BOOLEAN, limit \in Limits[p] :
          row' = [row EXCEPT ![p].type = type, ![p].active = active,
                             ![p].limit = limit, ![p].version = @ + 1]
    /\ updates' = updates + 1
    /\ UNCHANGED <<request, coupons, day, process, work, faults>>

-----------------------------------------------------------------------------
(* Faults.                                                                  *)

\* The database refuses a statement: the call, or the whole job, ends.
DatabaseFails(w) ==
    /\ Running(w) /\ faults < MaxFaults
    /\ work' = [work EXCEPT ![w] = Idle("failed")]
    /\ faults' = faults + 1
    /\ UNCHANGED <<row, request, coupons, day, process, updates>>

Crash ==
    /\ process = "up" /\ faults < MaxFaults
    /\ process' = "down"
    /\ work' = [w \in Workers |->
                  IF work[w].step = "running" \/ (w = "job" /\ work[w].step = "new")
                  THEN Idle("failed") ELSE work[w]]
    /\ faults' = faults + 1
    /\ UNCHANGED <<row, request, coupons, day, updates>>

\* onModuleInit: a night that was missed is not made up for.
Restart ==
    /\ process # "up"
    /\ process' = "up"
    /\ UNCHANGED <<row, request, coupons, day, work, updates, faults>>

-----------------------------------------------------------------------------

JobStep ==
    TriggerLoads("job") \/ TriggerEvaluates("job") \/ TriggerIssues("job") \/ TriggerEnds("job")

CallStep(w) ==
    \/ ClaimReads(w) \/ ClaimCommits(w) \/ ClaimConflicts(w)
    \/ TriggerLoads(w) \/ TriggerEvaluates(w) \/ TriggerIssues(w) \/ TriggerEnds(w)
    \/ PushLoads(w)

ProgramNext ==
    \/ JobStep
    \/ \E c \in Calls : CallStep(c)
    \/ \E w \in Workers : DatabaseFails(w)
    \/ \E p \in Programs : UpdateProgram(p)
    \/ Midnight \/ Crash \/ Restart

ProgramSpec == ProgramInit /\ [][ProgramNext]_programVars

\* Days pass, a process that stopped is started again, and a job that runs
\* goes on.
FairSpec == ProgramSpec /\ WF_programVars(JobStep) /\ WF_programVars(Midnight) /\ WF_programVars(Restart)

-----------------------------------------------------------------------------
(* Properties.                                                              *)

ProgramTypeOK ==
    /\ \A p \in Programs :
          /\ row[p].type \in Distributions[p] /\ row[p].active \in BOOLEAN /\ row[p].limit \in Limits[p]
          /\ row[p].issued \in Nat /\ row[p].version \in Nat
    /\ coupons \subseteq
          [campaign : Programs, user : Users, issuedAt : Days, number : Nat \ {0}]
    /\ day \in Days /\ process \in {"up", "down", "down_since"}
    /\ \A w \in Workers :
          /\ work[w].step \in Steps /\ work[w].attempt \in 0..(MaxAttempts - 1)
          /\ work[w].todo \subseteq Programs \X Users
          /\ work[w].at \in (Programs \X Users) \cup {Nobody}
    /\ updates \in 0..MaxUpdates /\ faults \in 0..MaxFaults

\* The count that total limits are checked against is the number of coupons
\* there are, however many calls issue at a time.
IssuedIsCounted ==
    \A p \in Programs : row[p].issued = Cardinality({c \in coupons : c.campaign = p})

\* A member who claims gets coupons only within the limits in force when they
\* get them, whatever was claimed, issued or changed since the claim was made.
ClaimsKeepLimits ==
    [][\A c \in Calls :
          Is(c, "claim") /\ Running(c) /\ work'[c].step = "done" =>
              LET p == request[c].program
              IN  /\ row[p].active /\ row[p].type = "MANUAL_CLAIM"
                  /\ row[p].limit = NoLimit \/ row'[p].issued <= row[p].limit
                  /\ IssuedToUser(row[p], p, request[c].user) < PerUserLimit[p]]_programVars

Years == {YearOf[d] : d \in Days}
BirthdayPrograms ==
    {p \in Programs : /\ Distributions[p] = {"AUTOMATIC_TRIGGER"}
                      /\ Trigger[p] = "BIRTHDAY_MONTH"}

\* The job of every night of the month, started again after a crash or not,
\* gives a member the birthday coupons of a year once.
BirthdayOnceAYear ==
    \A p \in BirthdayPrograms, u \in Users, y \in Years :
        IssuedOn(p, u, {d \in Days : YearOf[d] = y}) < PerUserLimit[p] + RequiredQuantity[p]

\* A job that a crash or an error ends leaves nobody without the coupons of a
\* program that stays active and has no total limit: a later night brings them.
BirthdayIsKept ==
    \A p \in BirthdayPrograms, u \in Users :
        [](row[p].active /\ row[p].limit = NoLimit) =>
            <>(IssuedOn(p, u, {d \in Days : YearOf[d] = YearOf[0]}) >= PerUserLimit[p])
=============================================================================
