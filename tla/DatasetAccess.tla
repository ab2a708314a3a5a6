--------------------------- MODULE DatasetAccess ---------------------------
(***************************************************************************)
(* The access service of the dataset plugin: who may read which dataset.   *)
(*                                                                         *)
(* One membership row per (user, dataset) is written by every grant path:  *)
(* subscription events, line items, one-time orders and the grace-period   *)
(* scheduler.  Each of these runs in some worker (a request or the cron    *)
(* process).  A transition is three database steps - look the row up,      *)
(* commit the row, commit the audit entry - and a plan event or a          *)
(* scheduler tick repeats them for each dataset.  Workers interleave       *)
(* between the steps and may die between any two of them.                  *)
(*                                                                         *)
(* The environment (the core event bus, the invoices) may deliver any      *)
(* event at any time, repeated or out of order.                            *)
(***************************************************************************)
EXTENDS Integers, Sequences

CONSTANTS
    Users,
    Datasets,
    Plans,
    Workers,      \* request workers and the cron process
    TrailingDays, \* the trailing_days values a cancellation may carry
    FallbackDays, \* grace_period_fallback_days of the plugin config
    RowVersioned, \* TRUE iff core's BaseModel checks the "version" column on
                  \* UPDATE (the column is in the migration, the mapper is not
                  \* in this repository, so both are explored)
    NoMember, NoDataset, NoExpiry, \* the NULLs
    MaxEvents,    \* bound: external events delivered
    MaxCrashes,   \* bound: workers that die in mid-job
    MaxClock      \* bound: days that pass

Members == Users \X Datasets

ASSUME ConstantsAssumption ==
    /\ TrailingDays \subseteq Nat
    /\ FallbackDays \in Nat
    /\ RowVersioned \in BOOLEAN
    /\ NoMember \notin Members
    /\ NoDataset \notin Datasets
    /\ NoExpiry \notin Nat
    /\ MaxEvents \in Nat /\ MaxCrashes \in Nat /\ MaxClock \in Nat

VARIABLES
    clock,      \* today, in days
    datasets,   \* the dataset rows that exist
    planLinks,  \* DatasetPlan rows: pairs <<dataset, plan>>
    membership, \* DatasetMembership rows, one per member; "absent" = no row
    accessLog,  \* DatasetAccessLog rows in the order they were committed
    job,        \* what each worker is doing
    events,     \* counter for MaxEvents
    crashes,    \* counter for MaxCrashes
    unlogged    \* history: <<member, status>> committed but never logged

vars == <<clock, datasets, planLinks, membership, accessLog, job,
          events, crashes, unlogged>>

(***************************************************************************)
(* Rows and jobs                                                           *)
(***************************************************************************)
Status == {"active", "grace", "revoked"}
Expiry == Nat \union {NoExpiry}
Row    == [status: Status \union {"absent"}, until: Expiry, ver: Nat]
NoRow  == [status |-> "absent", until |-> NoExpiry, ver |-> 0]

\* The four transitions of the service, with the status each one writes.
Op == {"grant", "restore", "grace_started", "revoke"}
StatusOf(op) == IF op = "revoke" THEN "revoked"
                ELSE IF op = "grace_started" THEN "grace" ELSE "active"

Trigger  == {"subscription_event", "scheduler", "line_item", "one_time_order"}
LogEntry == [user: Users, dataset: Datasets \union {NoDataset},
             action: Op, triggered_by: Trigger]

\* "find": next is the SELECT of the upsert; "commit": its UPDATE or INSERT;
\* "log": the audit row.  seen is the row as loaded into the ORM session.
Job == [pc: {"idle", "find", "commit", "log"}, op: Op, by: Trigger,
        days: Nat, todo: SUBSET Members, target: Members \union {NoMember},
        seen: Row, until: Expiry]
IdleJob == [pc |-> "idle", op |-> "grant", by |-> "scheduler", days |-> 0,
            todo |-> {}, target |-> NoMember, seen |-> NoRow, until |-> NoExpiry]

Init ==
    /\ clock = 0
    /\ datasets = Datasets
    /\ planLinks \in SUBSET (Datasets \X Plans)
    /\ membership = [m \in Members |-> NoRow]
    /\ accessLog = <<>>
    /\ job = [w \in Workers |-> IdleJob]
    /\ events = 0
    /\ crashes = 0
    /\ unlogged = {}

(***************************************************************************)
(* Reads                                                                   *)
(***************************************************************************)
HasActiveAccess(m) == membership[m].status \in {"active", "grace"}

\* Faulty variants (named ...Wrong...): slips this code could have, kept to show
\* that the properties below notice them.  No action uses them.
WrongExpiredOnTheDay(m) ==
    membership[m].status = "grace" /\ membership[m].until = clock

WrongExpiredADayEarly(m) == /\ membership[m].status = "grace"
                            /\ membership[m].until # NoExpiry
                            /\ membership[m].until <= clock + 1

\* find_grace_expired: a NULL expiry never compares as due.
Expired(m) == /\ membership[m].status = "grace"
              /\ membership[m].until # NoExpiry
              /\ membership[m].until <= clock

\* The rows a plan event is about: _datasets_for_plan for one user.
PlanMembers(u, p) == {m \in Members : m[1] = u /\ <<m[2], p>> \in planLinks}

GraceDays(trailing) == IF trailing = 0 THEN FallbackDays ELSE trailing

(***************************************************************************)
(* Events: a worker starts a job                                           *)
(***************************************************************************)
\* w starts applying op to members; the lookup of the members is part of the
\* step, as a handler's first statement is that query.
Handle(w, op, by, days, members) ==
    /\ job[w].pc = "idle"
    /\ events < MaxEvents
    /\ members # {}
    /\ events' = events + 1
    /\ job' = [job EXCEPT ![w] = [IdleJob EXCEPT !.pc = "find", !.op = op,
                                    !.by = by, !.days = days, !.todo = members]]
    /\ UNCHANGED <<clock, datasets, planLinks, membership, accessLog, crashes, unlogged>>

OnSubscriptionActivated(w, u, p) ==
    Handle(w, "grant", "subscription_event", 0, PlanMembers(u, p))

WrongCancelledRevokes(w, u, p, trailing) ==
    Handle(w, "revoke", "subscription_event", 0, PlanMembers(u, p))

OnSubscriptionCancelled(w, u, p, trailing) ==
    Handle(w, "grace_started", "subscription_event", GraceDays(trailing), PlanMembers(u, p))

OnSubscriptionPaymentFailed(w, u, p, trailing) ==
    OnSubscriptionCancelled(w, u, p, trailing)

OnSubscriptionRenewed(w, u, p) ==
    Handle(w, "restore", "subscription_event", 0, PlanMembers(u, p))

ActivateLineItem(w, m) == Handle(w, "grant", "line_item", 0, {m})
ReverseLineItem(w, m)  == Handle(w, "revoke", "line_item", 0, {m})
RestoreLineItem(w, m)  == Handle(w, "restore", "line_item", 0, {m})
OnInvoicePaid(w, m)    == Handle(w, "grant", "one_time_order", 0, {m})

\* revoke_expired_grace_access: the list is read once.  It also loads the rows
\* into the session, so the first revoke works on the row as listed; the commit
\* expires the session and every later revoke loads its row again - without
\* looking at its status.
RevokeExpiredGraceAccess(w) ==
    LET expired == {m \in Members : Expired(m)} IN
    /\ job[w].pc = "idle"
    /\ \E first \in expired :
          job' = [job EXCEPT ![w] = [IdleJob EXCEPT !.pc = "commit", !.op = "revoke",
                                       !.by = "scheduler", !.todo = expired \ {first},
                                       !.target = first, !.seen = membership[first]]]
    /\ UNCHANGED <<clock, datasets, planLinks, membership, accessLog, events, crashes, unlogged>>

(***************************************************************************)
(* One transition: find, commit, log                                       *)
(***************************************************************************)
Find(w) ==
    LET j == job[w] IN
    /\ j.pc = "find"
    /\ \E m \in j.todo :
          job' = [job EXCEPT ![w] = [j EXCEPT !.pc = "commit",
                     !.todo = j.todo \ {m}, !.target = m, !.seen = membership[m],
                     !.until = IF j.op = "grace_started" THEN clock + j.days ELSE NoExpiry]]
    /\ UNCHANGED <<clock, datasets, planLinks, membership, accessLog, events, crashes, unlogged>>

\* Revoking a revoked row sets every attribute to the value it has: the session
\* has no net change to flush.  Every other transition has one (granted_at, or
\* an expiry computed from a clock of microseconds).
NoNetChange(j) == /\ j.op = "revoke"
                  /\ j.seen.status = "revoked"
                  /\ j.seen.until = NoExpiry

WrongWrittenRefundIsFinal(j, r) ==
    IF r.status = "revoked" THEN r
    ELSE [status |-> StatusOf(j.op), until |-> j.until, ver |-> r.ver]

\* The row after the commit of j when the stored row is r.  An INSERT writes
\* the whole row, an UPDATE only the attributes that differ from what was seen.
Written(j, r) ==
    IF j.seen.status = "absent"
    THEN [status |-> StatusOf(j.op), until |-> j.until,
          ver |-> IF RowVersioned THEN 1 ELSE 0]
    ELSE [status |-> IF j.seen.status = StatusOf(j.op) THEN r.status ELSE StatusOf(j.op),
          until  |-> IF j.seen.until = j.until /\ j.until = NoExpiry
                     THEN r.until ELSE j.until,
          ver    |-> IF RowVersioned /\ ~NoNetChange(j) THEN r.ver + 1 ELSE r.ver]

Exists(m) == m[2] \in datasets

WrongRefusedNoVersion(j) ==
    \/ ~Exists(j.target)
    \/ j.seen.status = "absent" /\ membership[j.target].status # "absent"

\* The database refuses the commit: the dataset is gone (foreign key, or an
\* UPDATE of no row), another worker inserted the unique row first, or the
\* version moved on.
Refused(j) ==
    \/ ~Exists(j.target)
    \/ j.seen.status = "absent" /\ membership[j.target].status # "absent"
    \/ RowVersioned /\ ~NoNetChange(j) /\ j.seen.ver # membership[j.target].ver

WrongCommitRevokesOnlyRows(w) ==
    LET j == job[w] IN
    /\ j.pc = "commit"
    /\ ~Refused(j)
    /\ membership' = [membership EXCEPT ![j.target] =
                         IF j.op = "revoke" /\ @.status = "absent" THEN @ ELSE Written(j, @)]
    /\ job' = [job EXCEPT ![w].pc = "log"]
    /\ UNCHANGED <<clock, datasets, planLinks, accessLog, events, crashes, unlogged>>

Commit(w) ==
    LET j == job[w] IN
    /\ j.pc = "commit"
    /\ ~Refused(j)
    /\ membership' = [membership EXCEPT ![j.target] = Written(j, @)]
    /\ job' = [job EXCEPT ![w].pc = "log"]
    /\ UNCHANGED <<clock, datasets, planLinks, accessLog, events, crashes, unlogged>>

WrongLogAlwaysGrant(w) ==
    LET j == job[w] IN
    /\ j.pc = "log"
    /\ Exists(j.target)
    /\ accessLog' = Append(accessLog, [user |-> j.target[1], dataset |-> j.target[2],
                                       action |-> "grant", triggered_by |-> j.by])
    /\ job' = [job EXCEPT ![w] = IF j.todo = {} THEN IdleJob ELSE [j EXCEPT !.pc = "find"]]
    /\ UNCHANGED <<clock, datasets, planLinks, membership, events, crashes, unlogged>>

Log(w) ==
    LET j == job[w] IN
    /\ j.pc = "log"
    /\ Exists(j.target)
    /\ accessLog' = Append(accessLog, [user |-> j.target[1], dataset |-> j.target[2],
                                       action |-> j.op, triggered_by |-> j.by])
    /\ job' = [job EXCEPT ![w] = IF j.todo = {} THEN IdleJob ELSE [j EXCEPT !.pc = "find"]]
    /\ UNCHANGED <<clock, datasets, planLinks, membership, events, crashes, unlogged>>

\* The database raises; nobody catches it in the loop, so the rest of the job
\* is lost with it.
Fail(w) ==
    /\ \/ job[w].pc = "commit" /\ Refused(job[w])
       \/ job[w].pc = "log" /\ ~Exists(job[w].target)
    /\ job' = [job EXCEPT ![w] = IdleJob]
    /\ UNCHANGED <<clock, datasets, planLinks, membership, accessLog, events, crashes, unlogged>>

\* The process dies between two database steps.
Crash(w) ==
    /\ job[w].pc # "idle"
    /\ crashes < MaxCrashes
    /\ crashes' = crashes + 1
    /\ job' = [job EXCEPT ![w] = IdleJob]
    /\ unlogged' = IF job[w].pc = "log"
                   THEN unlogged \union {<<job[w].target, StatusOf(job[w].op)>>}
                   ELSE unlogged
    /\ UNCHANGED <<clock, datasets, planLinks, membership, accessLog, events>>

(***************************************************************************)
(* The catalogue and the clock                                             *)
(***************************************************************************)
\* set_tariff_plan_link as one committed request; NULL clears the link.
SetTariffPlanLink(d, plans) ==
    /\ d \in datasets
    /\ planLinks' = (planLinks \ ({d} \X Plans)) \union ({d} \X plans)
    /\ UNCHANGED <<clock, datasets, membership, accessLog, job, events, crashes, unlogged>>

WrongDeleteKeepsMemberships(d) ==
    /\ d \in datasets
    /\ datasets' = datasets \ {d}
    /\ planLinks' = planLinks \ ({d} \X Plans)
    /\ UNCHANGED <<clock, membership, accessLog, job, events, crashes, unlogged>>

\* The row goes, its memberships and links cascade, the audit rows stay with a
\* NULL dataset.
DeleteDataset(d) ==
    /\ d \in datasets
    /\ datasets' = datasets \ {d}
    /\ planLinks' = planLinks \ ({d} \X Plans)
    /\ membership' = [m \in Members |-> IF m[2] = d THEN NoRow ELSE membership[m]]
    /\ accessLog' = [i \in DOMAIN accessLog |->
                        IF accessLog[i].dataset = d
                        THEN [accessLog[i] EXCEPT !.dataset = NoDataset]
                        ELSE accessLog[i]]
    /\ UNCHANGED <<clock, job, events, crashes, unlogged>>

DayPasses ==
    /\ clock < MaxClock
    /\ clock' = clock + 1
    /\ UNCHANGED <<datasets, planLinks, membership, accessLog, job, events, crashes, unlogged>>

(***************************************************************************)
(* Specification                                                           *)
(***************************************************************************)
SubscriptionEvent(w) ==
    \E u \in Users, p \in Plans :
       \/ OnSubscriptionActivated(w, u, p)
       \/ OnSubscriptionRenewed(w, u, p)
       \/ \E t \in TrailingDays : \/ OnSubscriptionCancelled(w, u, p, t)
                                  \/ OnSubscriptionPaymentFailed(w, u, p, t)

OrderEvent(w) ==
    \E m \in Members :
       \/ ActivateLineItem(w, m)
       \/ ReverseLineItem(w, m)
       \/ RestoreLineItem(w, m)
       \/ OnInvoicePaid(w, m)

JobStep(w) == Find(w) \/ Commit(w) \/ Log(w) \/ Fail(w)

CatalogueChange ==
    \E d \in Datasets :
       \/ DeleteDataset(d)
       \/ SetTariffPlanLink(d, {})
       \/ \E p \in Plans : SetTariffPlanLink(d, {p})

Next ==
    \/ \E w \in Workers :
          \/ SubscriptionEvent(w)
          \/ OrderEvent(w)
          \/ RevokeExpiredGraceAccess(w)
          \/ JobStep(w)
          \/ Crash(w)
    \/ CatalogueChange
    \/ DayPasses

Spec == Init /\ [][Next]_vars

\* A running worker gets on with its job, time passes, and the deployment
\* calls the scheduler again and again, which finds a free worker.
Fairness ==
    /\ WF_vars(DayPasses)
    /\ WF_vars(\E w \in Workers : RevokeExpiredGraceAccess(w))
    /\ \A w \in Workers : WF_vars(JobStep(w))

FairSpec == Spec /\ Fairness

(***************************************************************************)
(* Properties                                                              *)
(***************************************************************************)
\* Every variable has its type, and the foreign keys hold: no link, membership
\* or audit entry refers to a dataset that was deleted.
TypeOK ==
    /\ clock \in Nat
    /\ datasets \subseteq Datasets
    /\ planLinks \subseteq datasets \X Plans
    /\ membership \in [Members -> Row]
    /\ \A m \in Members : membership[m].status # "absent" => Exists(m)
    /\ accessLog \in Seq(LogEntry)
    /\ \A i \in DOMAIN accessLog : accessLog[i].dataset \in datasets \union {NoDataset}
    /\ job \in [Workers -> Job]
    /\ \A w \in Workers : job[w].pc \in {"commit", "log"} => job[w].target \in Members
    /\ events \in Nat
    /\ crashes \in Nat
    /\ unlogged \subseteq Members \X Status

About(entry, m) == entry.user = m[1] /\ entry.dataset = m[2]

\* Every status a member has is explained by the audit trail: an entry for that
\* member whose action leads to that status, or a worker that has committed the
\* status and is about to write the entry, or a crash between the two commits.
\* Interleaved partial UPDATEs must not invent a status nobody recorded.
AuditExplainsStatus ==
    \A m \in Members :
       LET status == membership[m].status IN
       status # "absent" =>
          \/ \E i \in DOMAIN accessLog : /\ About(accessLog[i], m)
                                         /\ StatusOf(accessLog[i].action) = status
          \/ \E w \in Workers : /\ job[w].pc = "log"
                                /\ job[w].target = m
                                /\ StatusOf(job[w].op) = status
          \/ <<m, status>> \in unlogged

\* The audit trail never runs ahead of the data: an entry that still names its
\* dataset belongs to a member whose row exists.
AuditNeverLeads ==
    \A i \in DOMAIN accessLog :
       accessLog[i].dataset # NoDataset =>
          membership[<<accessLog[i].user, accessLog[i].dataset>>].status # "absent"

\* Only a refund or the scheduler turns live access into revoked access: no
\* subscription event does, however its read and its write are interleaved with
\* other workers.  (A cancelled subscriber keeps the grace period.)
SubscriptionEventsNeverRevoke ==
    [][\A m \in Members :
         HasActiveAccess(m) /\ membership'[m].status = "revoked" =>
            \E w \in Workers : /\ Commit(w)
                               /\ job[w].target = m
                               /\ job[w].op = "revoke"
                               /\ job[w].by \in {"line_item", "scheduler"}]_vars

\* With versioned rows, a membership has an expiry exactly while it is in grace:
\* no interleaving leaves a grace period that never ends (a grace row without
\* expiry is invisible to the scheduler) or an expiry on an active row.
GraceHasExpiry ==
    \A m \in Members : membership[m].status = "grace" <=> membership[m].until # NoExpiry

\* With one worker the newest audit entry of a member agrees with its row,
\* unless the worker is about to write it or died before it could.
NewestAuditAgrees ==
    \A m \in Members :
       LET entries == {i \in DOMAIN accessLog : About(accessLog[i], m)}
           status  == membership[m].status
       IN  \/ status = "absent"
           \/ \E w \in Workers : job[w].pc = "log" /\ job[w].target = m
           \/ <<m, status>> \in unlogged
           \/ \E i \in entries : /\ \A k \in entries : k <= i
                                 /\ StatusOf(accessLog[i].action) = status

\* A grace period whose last day lies within the modelled time, or that has no
\* last day at all, ends: by revocation, by a renewal, by the removal of the
\* dataset, or because a later event moved the day beyond that time.
GraceRunsOut ==
    \A m \in Members :
       LET due == /\ membership[m].status = "grace"
                  /\ membership[m].until \in (0..MaxClock) \union {NoExpiry}
       IN  due ~> ~due

\* The service implements AccessLifecycle when one worker at a time handles
\* events: every commit is one abstract step, everything else is invisible.
PendingRefund(m) ==
    \E w \in Workers : /\ job[w].op = "revoke"
                       /\ job[w].by = "line_item"
                       /\ \/ m \in job[w].todo
                          \/ job[w].pc = "commit" /\ job[w].target = m

Lifecycle == INSTANCE AccessLifecycle WITH
    access  <- [m \in Members |-> [status |-> membership[m].status,
                                   until  |-> membership[m].until]],
    today   <- clock,
    refunds <- {m \in Members : PendingRefund(m)},
    LastDays <- {day + GraceDays(t) : day \in 0..MaxClock, t \in TrailingDays}

ImplementsLifecycle == Lifecycle!Spec

\* "Revoke every grace-expired membership": whoever loses access at the hands of the
\* scheduler is in an expired grace period at that moment, and was not renewed or
\* granted anew since the scheduler made its list.
SchedulerRevokesOnlyExpired ==
    [][\A w \in Workers :
         LET m == job[w].target IN
         /\ Commit(w) /\ job[w].by = "scheduler"
         /\ HasActiveAccess(m) /\ membership'[m].status = "revoked"
         => Expired(m)]_vars

\* The lifecycle is INVITED, ACTIVE, GRACE, REVOKED in this order: access that
\* was revoked does not come back as a grace period.
RevokedNeverEntersGrace ==
    [][\A m \in Members :
         membership[m].status = "revoked" => membership'[m].status # "grace"]_vars

=============================================================================
