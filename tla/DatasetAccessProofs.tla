------------------------ MODULE DatasetAccessProofs ------------------------
(***************************************************************************)
(* Theorems about DatasetAccess for every number of users, datasets, plans *)
(* and workers, with and without row versions.                             *)
(***************************************************************************)
EXTENDS DatasetAccess, SequenceTheorems, TLAPS

(***************************************************************************)
(* The operators the actions are built from                                *)
(***************************************************************************)

\* Each transition writes a real status, and only a revoke writes "revoked".
LEMMA StatusOfType ==
    ASSUME NEW op \in Op
    PROVE  /\ StatusOf(op) \in Status
           /\ StatusOf(op) = "revoked" <=> op = "revoke"
           /\ StatusOf(op) = "grace" <=> op = "grace_started"
BY DEF Op, StatusOf, Status

LEMMA IdleJobType == IdleJob \in Job
BY ConstantsAssumption DEF IdleJob, Job, Op, Trigger, NoRow, Row, Expiry, Status

\* A commit writes a row; it never removes one.
LEMMA WrittenType ==
    ASSUME NEW j \in Job, NEW r \in Row
    PROVE  /\ Written(j, r) \in Row
           /\ (j.seen.status # "absent" => r.status # "absent")
                 => Written(j, r).status # "absent"
           /\ Written(j, r).status \in {r.status, StatusOf(j.op)}
<1>1. StatusOf(j.op) \in Status
  BY StatusOfType DEF Job
<1>2. QED
  BY <1>1 DEF Written, Job, Row, Status, Expiry

LEMMA GraceDaysType ==
    ASSUME NEW t \in TrailingDays
    PROVE  GraceDays(t) \in Nat
BY ConstantsAssumption DEF GraceDays

(***************************************************************************)
(* Every event is one Handle step                                          *)
(***************************************************************************)

\* Whatever the event, the worker starts one transition of the service for a
\* set of members; only a line item can ask for a revoke, and it is about one
\* member; the days of a grace period are those of a cancellation.
LEMMA EventIsHandle ==
    ASSUME NEW w \in Workers, datasets \subseteq Datasets,
           SubscriptionEvent(w) \/ OrderEvent(w)
    PROVE  \E op \in Op, by \in Trigger, days \in Nat, members \in SUBSET Members :
              /\ Handle(w, op, by, days, members)
              /\ op = "revoke" => by = "line_item" /\ \E m \in Members : members = {m}
              /\ op = "grace_started" => \E t \in TrailingDays : days = GraceDays(t)
              /\ by # "scheduler"
<1> DEFINE Goal == \E op \in Op, by \in Trigger, days \in Nat, members \in SUBSET Members :
                      /\ Handle(w, op, by, days, members)
                      /\ op = "revoke" => by = "line_item" /\ \E m \in Members : members = {m}
                      /\ op = "grace_started" => \E t \in TrailingDays : days = GraceDays(t)
                      /\ by # "scheduler"
<1>1. /\ {"grant", "restore", "grace_started", "revoke"} = Op
      /\ {"subscription_event", "line_item", "one_time_order"} \subseteq Trigger
      /\ 0 \in Nat
  BY DEF Op, Trigger
<1>2. ASSUME NEW op \in Op, NEW by \in Trigger, NEW days \in Nat,
             NEW members \in SUBSET Members, Handle(w, op, by, days, members),
             op = "revoke" => by = "line_item" /\ \E m \in Members : members = {m},
             op = "grace_started" => \E t \in TrailingDays : days = GraceDays(t),
             by # "scheduler"
      PROVE  Goal
  BY <1>2
<1>3. CASE SubscriptionEvent(w)
  <2>1. PICK u \in Users, p \in Plans :
           \/ OnSubscriptionActivated(w, u, p)
           \/ OnSubscriptionRenewed(w, u, p)
           \/ \E t \in TrailingDays : OnSubscriptionCancelled(w, u, p, t)
    BY <1>3 DEF SubscriptionEvent, OnSubscriptionPaymentFailed
  <2>2. PlanMembers(u, p) \in SUBSET Members
    BY DEF PlanMembers
  <2>3. CASE OnSubscriptionActivated(w, u, p)
    <3>1. Handle(w, "grant", "subscription_event", 0, PlanMembers(u, p))
      BY <2>3 DEF OnSubscriptionActivated
    <3>2. QED BY <3>1, <2>2, <1>1, <1>2
  <2>4. CASE OnSubscriptionRenewed(w, u, p)
    <3>1. Handle(w, "restore", "subscription_event", 0, PlanMembers(u, p))
      BY <2>4 DEF OnSubscriptionRenewed
    <3>2. QED BY <3>1, <2>2, <1>1, <1>2
  <2>5. ASSUME NEW t \in TrailingDays, OnSubscriptionCancelled(w, u, p, t)
        PROVE  Goal
    <3>1. Handle(w, "grace_started", "subscription_event", GraceDays(t), PlanMembers(u, p))
      BY <2>5 DEF OnSubscriptionCancelled
    <3>2. GraceDays(t) \in Nat
      BY GraceDaysType
    <3>3. QED BY <3>1, <3>2, <2>2, <1>1, <1>2
  <2>6. QED BY <2>1, <2>3, <2>4, <2>5
<1>4. CASE OrderEvent(w)
  <2>1. PICK m \in Members : \/ ActivateLineItem(w, m)
                             \/ ReverseLineItem(w, m)
                             \/ RestoreLineItem(w, m)
                             \/ OnInvoicePaid(w, m)
    BY <1>4 DEF OrderEvent
  <2>2. {m} \in SUBSET Members
    OBVIOUS
  <2>3. CASE ActivateLineItem(w, m)
    <3>1. Handle(w, "grant", "line_item", 0, {m})
      BY <2>3 DEF ActivateLineItem
    <3>2. QED BY <3>1, <2>2, <1>1, <1>2
  <2>4. CASE ReverseLineItem(w, m)
    <3>1. Handle(w, "revoke", "line_item", 0, {m})
      BY <2>4 DEF ReverseLineItem
    <3>2. QED BY <3>1, <2>2, <1>1, <1>2
  <2>5. CASE RestoreLineItem(w, m)
    <3>1. Handle(w, "restore", "line_item", 0, {m})
      BY <2>5 DEF RestoreLineItem
    <3>2. QED BY <3>1, <2>2, <1>1, <1>2
  <2>6. CASE OnInvoicePaid(w, m)
    <3>1. Handle(w, "grant", "one_time_order", 0, {m})
      BY <2>6 DEF OnInvoicePaid
    <3>2. QED BY <3>1, <2>2, <1>1, <1>2
  <2>7. QED BY <2>1, <2>3, <2>4, <2>5, <2>6
<1>5. QED BY <1>3, <1>4

(***************************************************************************)
(* Types and foreign keys                                                  *)
(***************************************************************************)

\* The part of TypeOK that speaks of one worker's job.
LEMMA HandleType ==
    ASSUME TypeOK, NEW w \in Workers, NEW op \in Op, NEW by \in Trigger,
           NEW days \in Nat, NEW members \in SUBSET Members,
           Handle(w, op, by, days, members)
    PROVE  TypeOK'
<1>1. [IdleJob EXCEPT !.pc = "find", !.op = op, !.by = by,
                      !.days = days, !.todo = members] \in Job
  BY IdleJobType DEF Job, IdleJob
<1>2. /\ job' \in [Workers -> Job]
      /\ \A x \in Workers : job'[x].pc \in {"commit", "log"} => job'[x].target \in Members
  BY <1>1 DEF Handle, TypeOK, IdleJob
<1>3. QED
  BY <1>2 DEF Handle, TypeOK, Exists

LEMMA TypeInit == Init => TypeOK
<1> SUFFICES ASSUME Init PROVE TypeOK
  OBVIOUS
<1>1. NoRow \in Row /\ NoRow.status = "absent"
  BY ConstantsAssumption DEF NoRow, Row, Expiry, Status
<1>2. accessLog \in Seq(LogEntry) /\ DOMAIN accessLog = {}
  BY DEF Init
<1>3. /\ job \in [Workers -> Job]
      /\ \A w \in Workers : job[w].pc = "idle"
  BY IdleJobType DEF Init, IdleJob
<1>4. /\ membership \in [Members -> Row]
      /\ \A m \in Members : membership[m].status = "absent"
  BY <1>1 DEF Init
<1>5. QED
  BY <1>2, <1>3, <1>4 DEF Init, TypeOK

LEMMA TypeStep == TypeOK /\ [Next]_vars => TypeOK'
<1> SUFFICES ASSUME TypeOK, [Next]_vars PROVE TypeOK'
  OBVIOUS
<1>1. ASSUME NEW w \in Workers, SubscriptionEvent(w) \/ OrderEvent(w)
      PROVE  TypeOK'
  BY <1>1, EventIsHandle, HandleType DEF TypeOK
<1>2. ASSUME NEW w \in Workers, RevokeExpiredGraceAccess(w)
      PROVE  TypeOK'
  <2>1. PICK first \in Members :
           job' = [job EXCEPT ![w] = [IdleJob EXCEPT !.pc = "commit", !.op = "revoke",
                     !.by = "scheduler", !.todo = {m \in Members : Expired(m)} \ {first},
                     !.target = first, !.seen = membership[first]]]
    BY <1>2 DEF RevokeExpiredGraceAccess
  <2>2. /\ job' \in [Workers -> Job]
        /\ \A x \in Workers : job'[x].pc \in {"commit", "log"} => job'[x].target \in Members
    BY <2>1, IdleJobType DEF TypeOK, Job, IdleJob, Op, Trigger
  <2>3. QED
    BY <1>2, <2>2 DEF RevokeExpiredGraceAccess, TypeOK, Exists
<1>3. ASSUME NEW w \in Workers, Find(w)
      PROVE  TypeOK'
  <2>1. job[w] \in Job
    BY DEF TypeOK
  <2>2. PICK m \in job[w].todo :
           job' = [job EXCEPT ![w] = [job[w] EXCEPT !.pc = "commit",
                     !.todo = job[w].todo \ {m}, !.target = m, !.seen = membership[m],
                     !.until = IF job[w].op = "grace_started"
                               THEN clock + job[w].days ELSE NoExpiry]]
    BY <1>3 DEF Find
  <2>3. m \in Members /\ membership[m] \in Row /\ clock + job[w].days \in Nat
    BY <2>1, <2>2 DEF TypeOK, Job
  <2>4. /\ job' \in [Workers -> Job]
        /\ \A x \in Workers : job'[x].pc \in {"commit", "log"} => job'[x].target \in Members
    BY <2>1, <2>2, <2>3 DEF TypeOK, Job, Expiry
  <2>5. QED
    BY <1>3, <2>4 DEF Find, TypeOK, Exists
<1>4. ASSUME NEW w \in Workers, Commit(w)
      PROVE  TypeOK'
  <2> DEFINE j == job[w]
  <2>1. /\ j \in Job /\ j.target \in Members /\ Exists(j.target)
        /\ membership' = [membership EXCEPT ![j.target] = Written(j, membership[j.target])]
        /\ job' = [job EXCEPT ![w] = [j EXCEPT !.pc = "log"]]
    BY <1>4 DEF Commit, Refused, TypeOK, Job
  <2>2. membership' \in [Members -> Row]
    BY <2>1, WrittenType DEF TypeOK
  <2>3. \A m \in Members : membership'[m].status # "absent" => Exists(m)
    BY <2>1 DEF TypeOK
  <2>4. job' \in [Workers -> Job]
    BY <2>1 DEF TypeOK, Job
  <2>5. QED
    BY <1>4, <2>1, <2>2, <2>3, <2>4 DEF Commit, TypeOK, Exists
<1>5. ASSUME NEW w \in Workers, Log(w)
      PROVE  TypeOK'
  <2> DEFINE j     == job[w]
             entry == [user |-> j.target[1], dataset |-> j.target[2],
                       action |-> j.op, triggered_by |-> j.by]
  <2>1. /\ j \in Job /\ j.target \in Members /\ Exists(j.target)
        /\ accessLog' = Append(accessLog, entry)
        /\ job' = [job EXCEPT ![w] = IF j.todo = {} THEN IdleJob ELSE [j EXCEPT !.pc = "find"]]
    BY <1>5 DEF Log, TypeOK, Job
  <2>2. entry \in LogEntry /\ entry.dataset \in datasets
    BY <2>1 DEF LogEntry, Exists, Members, Job
  <2>3. accessLog' \in Seq(LogEntry)
    BY <2>1, <2>2 DEF TypeOK
  <2>4. \A i \in DOMAIN accessLog' : accessLog'[i].dataset \in datasets \union {NoDataset}
    BY <2>1, <2>2 DEF TypeOK
  <2>5. /\ job' \in [Workers -> Job]
        /\ \A x \in Workers : job'[x].pc \in {"commit", "log"} => job'[x].target \in Members
    BY <2>1, IdleJobType DEF TypeOK, Job, IdleJob
  <2>6. QED
    BY <1>5, <2>3, <2>4, <2>5 DEF Log, TypeOK, Exists
<1>6. ASSUME NEW w \in Workers, Fail(w)
      PROVE  TypeOK'
  <2>1. /\ job' \in [Workers -> Job]
        /\ \A x \in Workers : job'[x].pc \in {"commit", "log"} => job'[x].target \in Members
    BY <1>6, IdleJobType DEF Fail, TypeOK, IdleJob
  <2>2. QED
    BY <1>6, <2>1 DEF Fail, TypeOK, Exists
<1>7. ASSUME NEW w \in Workers, Crash(w)
      PROVE  TypeOK'
  <2>1. /\ job' \in [Workers -> Job]
        /\ \A x \in Workers : job'[x].pc \in {"commit", "log"} => job'[x].target \in Members
    BY <1>7, IdleJobType DEF Crash, TypeOK, IdleJob
  <2>2. job[w].pc = "log" => <<job[w].target, StatusOf(job[w].op)>> \in Members \X Status
    BY StatusOfType DEF TypeOK, Job
  <2>3. unlogged' \subseteq Members \X Status
    BY <1>7, <2>2 DEF Crash, TypeOK
  <2>4. QED
    BY <1>7, <2>1, <2>3 DEF Crash, TypeOK, Exists
<1>8. ASSUME NEW d \in Datasets, DeleteDataset(d)
      PROVE  TypeOK'
  <2>1. NoRow \in Row /\ NoRow.status = "absent"
    BY ConstantsAssumption DEF NoRow, Row, Expiry, Status
  <2>2. /\ membership' \in [Members -> Row]
        /\ \A m \in Members : membership'[m].status # "absent" => m[2] \in datasets'
    BY <1>8, <2>1 DEF DeleteDataset, TypeOK, Exists
  <2>3. /\ datasets' \subseteq Datasets
        /\ planLinks' \subseteq datasets' \X Plans
    BY <1>8 DEF DeleteDataset, TypeOK
  <2>4. /\ accessLog' \in Seq(LogEntry)
        /\ \A i \in DOMAIN accessLog' : accessLog'[i].dataset \in datasets' \union {NoDataset}
    <3>1. \A e \in LogEntry : [e EXCEPT !.dataset = NoDataset] \in LogEntry
      BY DEF LogEntry
    <3>2. DOMAIN accessLog = 1..Len(accessLog) /\ Len(accessLog) \in Nat
      BY DEF TypeOK
    <3>3. \A i \in 1..Len(accessLog) : accessLog[i] \in LogEntry
      BY DEF TypeOK
    <3>4. accessLog' = [i \in 1..Len(accessLog) |->
                          IF accessLog[i].dataset = d
                          THEN [accessLog[i] EXCEPT !.dataset = NoDataset]
                          ELSE accessLog[i]]
      BY <1>8, <3>2 DEF DeleteDataset
    <3>5. accessLog' \in [1..Len(accessLog) -> LogEntry]
      BY <3>1, <3>3, <3>4
    <3>6. accessLog' \in Seq(LogEntry)
      BY <3>2, <3>5, SeqDef
    <3>7. \A i \in 1..Len(accessLog) : accessLog'[i].dataset \in datasets' \union {NoDataset}
      BY <1>8, <3>2, <3>3, <3>4 DEF DeleteDataset, TypeOK, LogEntry
    <3>8. DOMAIN accessLog' = 1..Len(accessLog)
      BY <3>4
    <3>9. QED BY <3>6, <3>7, <3>8
  <2>5. QED
    BY <1>8, <2>2, <2>3, <2>4 DEF DeleteDataset, TypeOK, Exists
<1>9. ASSUME NEW d \in Datasets, NEW plans \in SUBSET Plans, SetTariffPlanLink(d, plans)
      PROVE  TypeOK'
  BY <1>9 DEF SetTariffPlanLink, TypeOK, Exists
<1>10. CASE DayPasses
  BY <1>10 DEF DayPasses, TypeOK, Exists
<1>11. CASE UNCHANGED vars
  BY <1>11 DEF vars, TypeOK, Exists
<1>12. QED
  BY <1>1, <1>2, <1>3, <1>4, <1>5, <1>6, <1>7, <1>8, <1>9, <1>10, <1>11
     DEF Next, JobStep, CatalogueChange

\* Rows, links, audit entries and jobs keep their types and the foreign keys
\* hold in every reachable state: the cascades of DeleteDataset are complete.
THEOREM TypeCorrect == Spec => []TypeOK
BY TypeInit, TypeStep, PTL DEF Spec

(***************************************************************************)
(* The audit trail                                                         *)
(***************************************************************************)

\* A row a worker has seen or written is still there when it comes back, unless
\* its dataset was deleted: no transition removes a row.
SeenRowStays ==
    \A w \in Workers :
       LET j == job[w] IN
       /\ Exists(j.target)
       /\ \/ j.pc = "commit" /\ j.seen.status # "absent"
          \/ j.pc = "log"
       => membership[j.target].status # "absent"

AuditInv == TypeOK /\ SeenRowStays /\ AuditExplainsStatus /\ AuditNeverLeads

LEMMA AuditInit == Init => AuditInv
<1> SUFFICES ASSUME Init PROVE AuditInv
  OBVIOUS
<1>1. TypeOK
  BY TypeInit
<1>2. DOMAIN accessLog = {} /\ \A m \in Members : membership[m].status = "absent"
  BY DEF Init, NoRow
<1>3. \A w \in Workers : job[w].pc = "idle"
  BY DEF Init, IdleJob
<1>4. SeenRowStays /\ AuditExplainsStatus /\ AuditNeverLeads
  BY <1>2, <1>3 DEF SeenRowStays, AuditExplainsStatus, AuditNeverLeads
<1>5. QED BY <1>1, <1>4 DEF AuditInv

\* A step that only starts a job, or reads, leaves rows and log alone and takes
\* no worker out of its "log" step.
LEMMA AuditQuietStep ==
    ASSUME AuditInv, NEW w \in Workers, NEW j \in Job,
           job' = [job EXCEPT ![w] = j],
           job[w].pc # "log",
           j.pc # "log",
           j.pc = "commit" => j.seen = membership[j.target],
           UNCHANGED <<datasets, membership, accessLog, unlogged>>
    PROVE  SeenRowStays' /\ AuditExplainsStatus' /\ AuditNeverLeads'
<1>1. SeenRowStays'
  BY DEF SeenRowStays, AuditInv, TypeOK, Exists
<1>2. AuditExplainsStatus'
  BY DEF AuditExplainsStatus, AuditInv, TypeOK, About
<1>3. AuditNeverLeads'
  BY DEF AuditNeverLeads, AuditInv
<1>4. QED BY <1>1, <1>2, <1>3

LEMMA AuditStep == AuditInv /\ [Next]_vars => AuditInv'
<1> SUFFICES ASSUME AuditInv, [Next]_vars
             PROVE  SeenRowStays' /\ AuditExplainsStatus' /\ AuditNeverLeads'
  BY TypeStep DEF AuditInv
<1>0. TypeOK
  BY DEF AuditInv
<1>1. ASSUME NEW w \in Workers, SubscriptionEvent(w) \/ OrderEvent(w)
      PROVE  SeenRowStays' /\ AuditExplainsStatus' /\ AuditNeverLeads'
  <2>1. PICK op \in Op, by \in Trigger, days \in Nat, members \in SUBSET Members :
           Handle(w, op, by, days, members)
    BY <1>0, <1>1, EventIsHandle DEF TypeOK
  <2> DEFINE new == [IdleJob EXCEPT !.pc = "find", !.op = op, !.by = by,
                                    !.days = days, !.todo = members]
  <2>2. new \in Job /\ new.pc = "find"
    BY IdleJobType DEF Job, IdleJob
  <2>3. QED
    BY <2>1, <2>2, AuditQuietStep DEF Handle
<1>2. ASSUME NEW w \in Workers, RevokeExpiredGraceAccess(w)
      PROVE  SeenRowStays' /\ AuditExplainsStatus' /\ AuditNeverLeads'
  <2>1. PICK first \in {m \in Members : Expired(m)} :
           job' = [job EXCEPT ![w] = [IdleJob EXCEPT !.pc = "commit", !.op = "revoke",
                     !.by = "scheduler", !.todo = {m \in Members : Expired(m)} \ {first},
                     !.target = first, !.seen = membership[first]]]
    BY <1>2 DEF RevokeExpiredGraceAccess
  <2> DEFINE new == [IdleJob EXCEPT !.pc = "commit", !.op = "revoke",
                     !.by = "scheduler", !.todo = {m \in Members : Expired(m)} \ {first},
                     !.target = first, !.seen = membership[first]]
  <2>2. new \in Job /\ new.pc = "commit" /\ new.seen = membership[new.target]
    BY <1>0, IdleJobType DEF Job, IdleJob, TypeOK, Op, Trigger
  <2>3. QED
    BY <1>2, <2>1, <2>2, AuditQuietStep DEF RevokeExpiredGraceAccess
<1>3. ASSUME NEW w \in Workers, Find(w)
      PROVE  SeenRowStays' /\ AuditExplainsStatus' /\ AuditNeverLeads'
  <2>1. PICK m \in job[w].todo :
           job' = [job EXCEPT ![w] = [job[w] EXCEPT !.pc = "commit",
                     !.todo = job[w].todo \ {m}, !.target = m, !.seen = membership[m],
                     !.until = IF job[w].op = "grace_started"
                               THEN clock + job[w].days ELSE NoExpiry]]
    BY <1>3 DEF Find
  <2>2. job' \in [Workers -> Job]
    BY <1>0, <1>3, TypeStep DEF TypeOK
  <2>3. /\ job' = [job EXCEPT ![w] = job'[w]]
        /\ job'[w] \in Job /\ job'[w].pc = "commit"
        /\ job'[w].seen = membership[job'[w].target]
    BY <1>0, <2>1, <2>2 DEF TypeOK, Job
  <2>4. QED
    BY <1>3, <2>3, AuditQuietStep DEF Find
<1>4. ASSUME NEW w \in Workers, Commit(w)
      PROVE  SeenRowStays' /\ AuditExplainsStatus' /\ AuditNeverLeads'
  <2> DEFINE j == job[w]
             r == membership[j.target]
  <2>1. /\ j \in Job /\ j.target \in Members /\ Exists(j.target) /\ j.pc = "commit" /\ r \in Row
        /\ membership' = [membership EXCEPT ![j.target] = Written(j, r)]
        /\ job' = [job EXCEPT ![w] = [j EXCEPT !.pc = "log"]]
        /\ UNCHANGED <<datasets, accessLog, unlogged>>
    BY <1>0, <1>4 DEF Commit, Refused, TypeOK
  <2>2. j.seen.status # "absent" => r.status # "absent"
    BY <2>1 DEF AuditInv, SeenRowStays
  <2>3. /\ Written(j, r).status # "absent"
        /\ Written(j, r).status \in {r.status, StatusOf(j.op)}
    BY <2>1, <2>2, WrittenType
  <2>4. SeenRowStays'
    BY <1>0, <2>1, <2>3 DEF SeenRowStays, AuditInv, TypeOK, Exists
  <2>5. AuditNeverLeads'
    BY <1>0, <2>1, <2>3 DEF AuditNeverLeads, AuditInv, TypeOK
  <2>6. ASSUME NEW m \in Members, membership'[m].status # "absent"
        PROVE  \/ \E i \in DOMAIN accessLog : /\ About(accessLog[i], m)
                                              /\ StatusOf(accessLog[i].action) = membership'[m].status
               \/ \E x \in Workers : /\ job'[x].pc = "log"
                                     /\ job'[x].target = m
                                     /\ StatusOf(job'[x].op) = membership'[m].status
               \/ <<m, membership'[m].status>> \in unlogged
    <3>1. CASE m = j.target /\ membership'[m].status = StatusOf(j.op)
      BY <1>0, <2>1, <3>1 DEF TypeOK
    <3>2. CASE membership'[m].status = membership[m].status
      BY <1>0, <2>1, <2>6, <3>2 DEF AuditInv, AuditExplainsStatus, TypeOK
    <3>3. QED
      BY <1>0, <2>1, <2>3, <3>1, <3>2 DEF TypeOK
  <2>7. AuditExplainsStatus'
    BY <2>1, <2>6 DEF AuditExplainsStatus, About
  <2>8. QED BY <2>4, <2>5, <2>7
<1>5. ASSUME NEW w \in Workers, Log(w)
      PROVE  SeenRowStays' /\ AuditExplainsStatus' /\ AuditNeverLeads'
  <2> DEFINE j     == job[w]
             entry == [user |-> j.target[1], dataset |-> j.target[2],
                       action |-> j.op, triggered_by |-> j.by]
  <2>1. /\ j \in Job /\ j.target \in Members /\ Exists(j.target) /\ j.pc = "log"
        /\ accessLog' = Append(accessLog, entry)
        /\ job' = [job EXCEPT ![w] = IF j.todo = {} THEN IdleJob ELSE [j EXCEPT !.pc = "find"]]
        /\ UNCHANGED <<datasets, membership, unlogged>>
    BY <1>0, <1>5 DEF Log, TypeOK
  <2>2. /\ \A i \in DOMAIN accessLog : i \in DOMAIN accessLog' /\ accessLog'[i] = accessLog[i]
        /\ Len(accessLog) + 1 \in DOMAIN accessLog'
        /\ accessLog'[Len(accessLog) + 1] = entry
        /\ \A i \in DOMAIN accessLog' : i \in DOMAIN accessLog \/ accessLog'[i] = entry
    BY <1>0, <2>1 DEF TypeOK
  <2>3. job'[w].pc # "log" /\ job'[w].pc # "commit"
    BY <1>0, <2>1 DEF TypeOK, Job, IdleJob
  <2>4. \A x \in Workers : x # w => job'[x] = job[x]
    BY <1>0, <2>1 DEF TypeOK
  <2>5. SeenRowStays'
    BY <2>1, <2>3, <2>4 DEF SeenRowStays, AuditInv, Exists
  <2>6. AuditNeverLeads'
    <3>1. <<entry.user, entry.dataset>> = j.target
      BY <2>1 DEF Members
    <3>2. membership[j.target].status # "absent"
      BY <2>1 DEF AuditInv, SeenRowStays
    <3>3. QED
      BY <2>1, <2>2, <3>1, <3>2 DEF AuditNeverLeads, AuditInv
  <2>7. ASSUME NEW m \in Members, membership[m].status # "absent"
        PROVE  \/ \E i \in DOMAIN accessLog' : /\ About(accessLog'[i], m)
                                               /\ StatusOf(accessLog'[i].action) = membership[m].status
               \/ \E x \in Workers : /\ job'[x].pc = "log"
                                     /\ job'[x].target = m
                                     /\ StatusOf(job'[x].op) = membership[m].status
               \/ <<m, membership[m].status>> \in unlogged
    <3>1. CASE \E i \in DOMAIN accessLog : /\ About(accessLog[i], m)
                                           /\ StatusOf(accessLog[i].action) = membership[m].status
      BY <2>2, <3>1
    <3>2. CASE j.target = m /\ StatusOf(j.op) = membership[m].status
      BY <2>2, <3>2 DEF About
    <3>3. QED
      BY <2>4, <2>7, <3>1, <3>2 DEF AuditInv, AuditExplainsStatus
  <2>8. AuditExplainsStatus'
    BY <2>1, <2>7 DEF AuditExplainsStatus, About
  <2>9. QED BY <2>5, <2>6, <2>8

<1>6. ASSUME NEW w \in Workers, Fail(w)
      PROVE  SeenRowStays' /\ AuditExplainsStatus' /\ AuditNeverLeads'
  <2>1. /\ job' = [job EXCEPT ![w] = IdleJob]
        /\ UNCHANGED <<datasets, membership, accessLog, unlogged>>
    BY <1>6 DEF Fail
  <2>2. CASE job[w].pc = "log"
    <3>1. job[w].target \in Members /\ ~Exists(job[w].target)
      BY <1>0, <1>6, <2>2 DEF Fail, TypeOK
    <3>2. membership[job[w].target].status = "absent"
      BY <1>0, <3>1 DEF TypeOK
    <3>3. job'[w].pc = "idle" /\ \A x \in Workers : x # w => job'[x] = job[x]
      BY <1>0, <2>1 DEF TypeOK, IdleJob
    <3>4. SeenRowStays'
      BY <2>1, <3>3 DEF SeenRowStays, AuditInv, Exists
    <3>5. AuditExplainsStatus'
      BY <2>1, <3>2, <3>3 DEF AuditExplainsStatus, AuditInv, About
    <3>6. AuditNeverLeads'
      BY <2>1 DEF AuditNeverLeads, AuditInv
    <3>7. QED BY <3>4, <3>5, <3>6
  <2>3. CASE job[w].pc # "log"
    BY <2>1, <2>3, IdleJobType, AuditQuietStep DEF IdleJob
  <2>4. QED BY <2>2, <2>3
<1>7. ASSUME NEW w \in Workers, Crash(w)
      PROVE  SeenRowStays' /\ AuditExplainsStatus' /\ AuditNeverLeads'
  <2>1. /\ job' = [job EXCEPT ![w] = IdleJob]
        /\ UNCHANGED <<datasets, membership, accessLog>>
    BY <1>7 DEF Crash
  <2>2. CASE job[w].pc = "log"
    <3>1. unlogged' = unlogged \union {<<job[w].target, StatusOf(job[w].op)>>}
      BY <1>7, <2>2 DEF Crash
    <3>2. job'[w].pc = "idle" /\ \A x \in Workers : x # w => job'[x] = job[x]
      BY <1>0, <2>1 DEF TypeOK, IdleJob
    <3>3. SeenRowStays'
      BY <2>1, <3>2 DEF SeenRowStays, AuditInv, Exists
    <3>4. AuditExplainsStatus'
      BY <2>1, <3>1, <3>2 DEF AuditExplainsStatus, AuditInv, About
    <3>5. AuditNeverLeads'
      BY <2>1 DEF AuditNeverLeads, AuditInv
    <3>6. QED BY <3>3, <3>4, <3>5
  <2>3. CASE job[w].pc # "log"
    <3>1. UNCHANGED unlogged
      BY <1>7, <2>3 DEF Crash
    <3>2. QED
      BY <2>1, <2>3, <3>1, IdleJobType, AuditQuietStep DEF IdleJob
  <2>4. QED BY <2>2, <2>3
<1>8. ASSUME NEW d \in Datasets, DeleteDataset(d)
      PROVE  SeenRowStays' /\ AuditExplainsStatus' /\ AuditNeverLeads'
  <2>1. /\ datasets' = datasets \ {d}
        /\ \A m \in Members : membership'[m] = IF m[2] = d THEN NoRow ELSE membership[m]
        /\ UNCHANGED <<job, unlogged>>
    BY <1>8 DEF DeleteDataset
  <2>2. /\ DOMAIN accessLog' = DOMAIN accessLog
        /\ \A i \in DOMAIN accessLog : accessLog'[i].dataset = NoDataset \/ accessLog'[i] = accessLog[i]
        /\ \A i \in DOMAIN accessLog : accessLog[i].dataset # d => accessLog'[i] = accessLog[i]
        /\ \A i \in DOMAIN accessLog : accessLog[i].dataset = d => accessLog'[i].dataset = NoDataset
    <3>1. \A i \in DOMAIN accessLog : accessLog[i] \in LogEntry
      BY <1>0 DEF TypeOK
    <3>2. QED
      BY <1>8, <3>1 DEF DeleteDataset, LogEntry
  <2>3. SeenRowStays'
    BY <1>0, <2>1 DEF SeenRowStays, AuditInv, Exists, TypeOK
  <2>4. AuditNeverLeads'
    <3> SUFFICES ASSUME NEW i \in DOMAIN accessLog', accessLog'[i].dataset # NoDataset
                 PROVE  membership'[<<accessLog'[i].user, accessLog'[i].dataset>>].status # "absent"
      BY DEF AuditNeverLeads
    <3>1. accessLog'[i] = accessLog[i] /\ accessLog[i].dataset # d /\ accessLog[i] \in LogEntry
      BY <1>0, <2>2 DEF TypeOK
    <3>2. membership[<<accessLog[i].user, accessLog[i].dataset>>].status # "absent"
      BY <2>2, <3>1 DEF AuditInv, AuditNeverLeads
    <3>3. <<accessLog[i].user, accessLog[i].dataset>> \in Members
      BY <3>1 DEF LogEntry, Members
    <3>4. QED
      BY <2>1, <3>1, <3>2, <3>3
  <2>5. ASSUME NEW m \in Members, membership'[m].status # "absent"
        PROVE  \/ \E i \in DOMAIN accessLog' : /\ About(accessLog'[i], m)
                                               /\ StatusOf(accessLog'[i].action) = membership'[m].status
               \/ \E x \in Workers : /\ job[x].pc = "log"
                                     /\ job[x].target = m
                                     /\ StatusOf(job[x].op) = membership'[m].status
               \/ <<m, membership'[m].status>> \in unlogged
    <3>1. m[2] # d /\ membership'[m] = membership[m]
      BY <2>1, <2>5 DEF NoRow
    <3>2. \A i \in DOMAIN accessLog : About(accessLog[i], m) => accessLog'[i] = accessLog[i]
      BY <2>2, <3>1 DEF About
    <3>3. QED
      BY <2>2, <2>5, <3>1, <3>2 DEF AuditInv, AuditExplainsStatus
  <2>6. AuditExplainsStatus'
    BY <2>1, <2>5 DEF AuditExplainsStatus, About
  <2>7. QED BY <2>3, <2>4, <2>6
<1>9. CASE \/ \E d \in Datasets, plans \in SUBSET Plans : SetTariffPlanLink(d, plans)
           \/ DayPasses
           \/ UNCHANGED vars
  <2>1. UNCHANGED <<datasets, membership, accessLog, job, unlogged>>
    BY <1>9 DEF SetTariffPlanLink, DayPasses, vars
  <2>2. QED
    BY <2>1 DEF AuditInv, SeenRowStays, AuditExplainsStatus, AuditNeverLeads, Exists, About
<1>10. QED
  BY <1>1, <1>2, <1>3, <1>4, <1>5, <1>6, <1>7, <1>8, <1>9
     DEF Next, JobStep, CatalogueChange

\* Whatever workers interleave, repeat or lose, the status of every member is
\* explained by the audit trail, by a worker about to write it, or by a crash in
\* the gap between the two commits.
THEOREM AuditTrailExplains == Spec => []AuditExplainsStatus
<1>1. AuditInv => AuditExplainsStatus
  BY DEF AuditInv
<1>2. QED
  BY <1>1, AuditInit, AuditStep, PTL DEF Spec

\* The audit trail never names a member whose row was not committed before.
THEOREM AuditTrailFollows == Spec => []AuditNeverLeads
<1>1. AuditInv => AuditNeverLeads
  BY DEF AuditInv
<1>2. QED
  BY <1>1, AuditInit, AuditStep, PTL DEF Spec

(***************************************************************************)
(* Who ends access                                                         *)
(***************************************************************************)

\* A worker in a revoke acts for a refund or for the scheduler.
RevokeTrigger ==
    \A w \in Workers : job[w].op = "revoke" => job[w].by \in {"line_item", "scheduler"}

TriggerInv == TypeOK /\ RevokeTrigger

LEMMA TriggerInit == Init => TriggerInv
<1>1. Init => RevokeTrigger
  BY DEF Init, RevokeTrigger, IdleJob
<1>2. QED BY <1>1, TypeInit DEF TriggerInv

LEMMA TriggerStep == TriggerInv /\ [Next]_vars => TriggerInv'
<1> SUFFICES ASSUME TriggerInv, [Next]_vars PROVE RevokeTrigger'
  BY TypeStep DEF TriggerInv
<1>0. TypeOK
  BY DEF TriggerInv
<1>1. ASSUME NEW w \in Workers, SubscriptionEvent(w) \/ OrderEvent(w)
      PROVE  RevokeTrigger'
  <2>1. PICK op \in Op, by \in Trigger, days \in Nat, members \in SUBSET Members :
           Handle(w, op, by, days, members) /\ (op = "revoke" => by = "line_item")
    BY <1>0, <1>1, EventIsHandle DEF TypeOK
  <2>2. QED
    BY <2>1 DEF Handle, TriggerInv, RevokeTrigger, TypeOK, IdleJob
<1>2. ASSUME NEW w \in Workers, RevokeExpiredGraceAccess(w)
      PROVE  RevokeTrigger'
  BY <1>2 DEF RevokeExpiredGraceAccess, TriggerInv, RevokeTrigger, TypeOK, IdleJob
<1>3. ASSUME NEW w \in Workers, JobStep(w) \/ Crash(w)
      PROVE  RevokeTrigger'
  <2>1. /\ job[w] \in Job
        /\ job[w].op = "revoke" => job[w].by \in {"line_item", "scheduler"}
    BY <1>3 DEF TriggerInv, RevokeTrigger, TypeOK
  <2>2. \/ Find(w) \/ Commit(w) \/ Log(w)
        \/ job' = [job EXCEPT ![w] = IdleJob]
    BY <1>3 DEF JobStep, Fail, Crash
  <2>3. \/ job'[w] = IdleJob
        \/ job'[w].op = job[w].op /\ job'[w].by = job[w].by
    <3>1. CASE Find(w)
      BY <1>0, <2>1, <3>1 DEF Find, TypeOK, Job
    <3>2. CASE Commit(w)
      BY <1>0, <2>1, <3>2 DEF Commit, TypeOK, Job
    <3>3. CASE Log(w)
      BY <1>0, <2>1, <3>3 DEF Log, TypeOK, Job
    <3>4. CASE job' = [job EXCEPT ![w] = IdleJob]
      BY <1>0, <3>4 DEF TypeOK
    <3>5. QED BY <2>2, <3>1, <3>2, <3>3, <3>4
  <2>4. \A x \in Workers : x # w => job'[x] = job[x]
    BY <1>0, <2>2 DEF TypeOK, Find, Commit, Log
  <2>5. QED
    BY <2>1, <2>3, <2>4 DEF TriggerInv, RevokeTrigger, IdleJob
<1>4. CASE CatalogueChange \/ DayPasses \/ UNCHANGED vars
  BY <1>4 DEF CatalogueChange, DeleteDataset, SetTariffPlanLink, DayPasses, vars,
              TriggerInv, RevokeTrigger
<1>5. QED
  BY <1>1, <1>2, <1>3, <1>4 DEF Next

\* No subscription event takes access away at once: a step from live to revoked
\* access is the commit of a refund or of the scheduler.
THEOREM EventsNeverRevoke == Spec => SubscriptionEventsNeverRevoke
<1>1. ASSUME TriggerInv, [Next]_vars, NEW m \in Members,
             HasActiveAccess(m), membership'[m].status = "revoked"
      PROVE  \E w \in Workers : /\ Commit(w)
                                /\ job[w].target = m
                                /\ job[w].op = "revoke"
                                /\ job[w].by \in {"line_item", "scheduler"}
  <2>1. membership[m].status # "revoked"
    BY <1>1 DEF HasActiveAccess
  <2>2. CASE \E w \in Workers : Commit(w)
    <3>1. PICK w \in Workers : Commit(w)
      BY <2>2
    <3> DEFINE j == job[w]
    <3>2. /\ j \in Job
          /\ membership' = [membership EXCEPT ![j.target] = Written(j, membership[j.target])]
      BY <1>1, <3>1 DEF Commit, TriggerInv, TypeOK
    <3>3. j.target = m /\ membership'[m] = Written(j, membership[m])
      BY <1>1, <2>1, <3>2 DEF TriggerInv, TypeOK
    <3>4. StatusOf(j.op) = "revoked"
      BY <1>1, <2>1, <3>2, <3>3, WrittenType DEF TriggerInv, TypeOK
    <3>5. j.op = "revoke"
      BY <3>2, <3>4, StatusOfType DEF Job
    <3>6. QED
      BY <1>1, <3>1, <3>3, <3>5 DEF TriggerInv, RevokeTrigger
  <2>3. CASE \E d \in Datasets : DeleteDataset(d)
    BY <1>1, <2>1, <2>3 DEF DeleteDataset, NoRow
  <2>4. CASE UNCHANGED membership
    BY <1>1, <2>1, <2>4
  <2>5. ASSUME NEW w \in Workers, SubscriptionEvent(w) \/ OrderEvent(w)
        PROVE  UNCHANGED membership
    BY <1>1, <2>5, EventIsHandle DEF TriggerInv, TypeOK, Handle
  <2>6. ASSUME NEW w \in Workers, RevokeExpiredGraceAccess(w)
        PROVE  UNCHANGED membership
    BY <2>6 DEF RevokeExpiredGraceAccess
  <2>7. ASSUME NEW w \in Workers, Find(w) \/ Log(w) \/ Fail(w) \/ Crash(w)
        PROVE  UNCHANGED membership
    BY <2>7 DEF Find, Log, Fail, Crash
  <2>8. CASE \/ \E d \in Datasets, plans \in SUBSET Plans : SetTariffPlanLink(d, plans)
             \/ DayPasses
             \/ UNCHANGED vars
    BY <2>4, <2>8 DEF SetTariffPlanLink, DayPasses, vars
  <2>9. QED
    BY <1>1, <2>2, <2>3, <2>4, <2>5, <2>6, <2>7, <2>8
       DEF Next, JobStep, CatalogueChange
<1>2. TriggerInv /\ [Next]_vars
        => [\A m \in Members :
              HasActiveAccess(m) /\ membership'[m].status = "revoked" =>
                 \E w \in Workers : /\ Commit(w)
                                    /\ job[w].target = m
                                    /\ job[w].op = "revoke"
                                    /\ job[w].by \in {"line_item", "scheduler"}]_vars
  BY <1>1
<1>3. QED
  BY <1>2, TriggerInit, TriggerStep, PTL DEF Spec, SubscriptionEventsNeverRevoke

(***************************************************************************)
(* Versioned rows keep status and expiry together                          *)
(***************************************************************************)

\* What a worker between its SELECT and its commit holds: a well-formed copy of
\* the row and the expiry its transition sets; and the copy is either behind the
\* row, which the version tells, or equal to it.
HoldsFresh(j) ==
    /\ j.op = "grace_started" \/ j.until = NoExpiry
    /\ j.pc = "commit" =>
          /\ j.op = "grace_started" => j.until # NoExpiry
          /\ j.seen.status # "absent" /\ Exists(j.target) =>
                \/ j.seen = membership[j.target]
                \/ j.seen.ver < membership[j.target].ver

FreshOrBehind == \A w \in Workers : HoldsFresh(job[w])

GraceInv == AuditInv /\ FreshOrBehind /\ GraceHasExpiry

LEMMA GraceInit == Init => GraceInv
<1> SUFFICES ASSUME Init PROVE GraceInv
  OBVIOUS
<1>1. AuditInv
  BY AuditInit
<1>2. FreshOrBehind /\ GraceHasExpiry
  BY DEF Init, IdleJob, NoRow, FreshOrBehind, HoldsFresh, GraceHasExpiry
<1>3. QED BY <1>1, <1>2 DEF GraceInv

\* A step of one worker that writes no membership row.
LEMMA GraceQuietStep ==
    ASSUME GraceInv, NEW w \in Workers, NEW j \in Job,
           job' = [job EXCEPT ![w] = j],
           HoldsFresh(j),
           UNCHANGED <<datasets, membership>>
    PROVE  FreshOrBehind' /\ GraceHasExpiry'
<1>1. \A x \in Workers : HoldsFresh(job'[x])
  BY DEF GraceInv, AuditInv, TypeOK, FreshOrBehind
<1>2. FreshOrBehind'
  BY <1>1 DEF FreshOrBehind, HoldsFresh, Exists
<1>3. GraceHasExpiry'
  BY DEF GraceInv, GraceHasExpiry
<1>4. QED BY <1>2, <1>3

\* What one commit does to a well-formed row when rows are versioned: the row
\* stays well-formed, and a worker that holds the old row falls behind unless
\* nothing was written.
LEMMA GraceWritten ==
    ASSUME RowVersioned = TRUE, NEW j \in Job, NEW r \in Row,
           j.pc = "commit", HoldsFresh(j), Exists(j.target), ~Refused(j),
           r = membership[j.target],
           r.status = "grace" <=> r.until # NoExpiry,
           j.seen.status # "absent" => r.status # "absent"
    PROVE  /\ Written(j, r).status = "grace" <=> Written(j, r).until # NoExpiry
           /\ r.status # "absent" => \/ Written(j, r) = r
                                     \/ Written(j, r).ver = r.ver + 1
<1>1. StatusOf(j.op) = "grace" <=> j.until # NoExpiry
  BY StatusOfType DEF HoldsFresh, StatusOf, Job, Op
<1>2. CASE j.seen.status = "absent"
  <2>1. r.status = "absent"
    BY <1>2 DEF Refused
  <2>2. QED
    BY <1>1, <1>2, <2>1 DEF Written
<1>3. CASE j.seen.status # "absent" /\ NoNetChange(j)
  <2>1. StatusOf(j.op) = "revoked" /\ j.until = NoExpiry
    BY <1>3 DEF NoNetChange, StatusOf, HoldsFresh
  <2>2. Written(j, r) = r
    BY <1>3, <2>1 DEF Written, NoNetChange, Row
  <2>3. QED BY <2>2
<1>4. CASE j.seen.status # "absent" /\ ~NoNetChange(j)
  <2>1. j.seen.ver = r.ver
    BY <1>4 DEF Refused
  <2>2. j.seen = r
    BY <1>4, <2>1 DEF HoldsFresh, Row
  <2>3. /\ Written(j, r).status = StatusOf(j.op)
        /\ Written(j, r).until = j.until
        /\ Written(j, r).ver = r.ver + 1
    BY <1>4, <2>2 DEF Written
  <2>4. QED BY <1>1, <2>3
<1>5. QED BY <1>2, <1>3, <1>4

LEMMA GraceStep == RowVersioned = TRUE /\ GraceInv /\ [Next]_vars => GraceInv'
<1> SUFFICES ASSUME RowVersioned = TRUE, GraceInv, [Next]_vars
             PROVE  FreshOrBehind' /\ GraceHasExpiry'
  BY AuditStep DEF GraceInv
<1>0. TypeOK /\ TypeOK'
  BY TypeStep DEF GraceInv, AuditInv
<1>1. ASSUME NEW w \in Workers, SubscriptionEvent(w) \/ OrderEvent(w)
      PROVE  FreshOrBehind' /\ GraceHasExpiry'
  <2>1. PICK op \in Op, by \in Trigger, days \in Nat, members \in SUBSET Members :
           Handle(w, op, by, days, members)
    BY <1>0, <1>1, EventIsHandle DEF TypeOK
  <2> DEFINE new == [IdleJob EXCEPT !.pc = "find", !.op = op, !.by = by,
                                    !.days = days, !.todo = members]
  <2>2. new \in Job /\ HoldsFresh(new)
    BY IdleJobType DEF Job, IdleJob, HoldsFresh
  <2>3. QED
    BY <2>1, <2>2, GraceQuietStep DEF Handle
<1>2. ASSUME NEW w \in Workers, RevokeExpiredGraceAccess(w)
      PROVE  FreshOrBehind' /\ GraceHasExpiry'
  <2>1. PICK first \in {m \in Members : Expired(m)} :
           job' = [job EXCEPT ![w] = [IdleJob EXCEPT !.pc = "commit", !.op = "revoke",
                     !.by = "scheduler", !.todo = {m \in Members : Expired(m)} \ {first},
                     !.target = first, !.seen = membership[first]]]
    BY <1>2 DEF RevokeExpiredGraceAccess
  <2> DEFINE new == [IdleJob EXCEPT !.pc = "commit", !.op = "revoke",
                     !.by = "scheduler", !.todo = {m \in Members : Expired(m)} \ {first},
                     !.target = first, !.seen = membership[first]]
  <2>2. new \in Job /\ HoldsFresh(new)
    BY <1>0, IdleJobType DEF Job, IdleJob, TypeOK, Op, Trigger, HoldsFresh
  <2>3. QED
    BY <1>2, <2>1, <2>2, GraceQuietStep DEF RevokeExpiredGraceAccess
<1>3. ASSUME NEW w \in Workers, Find(w)
      PROVE  FreshOrBehind' /\ GraceHasExpiry'
  <2> DEFINE j == job[w]
  <2>1. PICK m \in j.todo :
           job' = [job EXCEPT ![w] = [j EXCEPT !.pc = "commit",
                     !.todo = j.todo \ {m}, !.target = m, !.seen = membership[m],
                     !.until = IF j.op = "grace_started" THEN clock + j.days ELSE NoExpiry]]
    BY <1>3 DEF Find
  <2>2. j \in Job /\ clock \in Nat
    BY <1>0 DEF TypeOK
  <2>3. /\ job' = [job EXCEPT ![w] = job'[w]]
        /\ job'[w] \in Job
        /\ job'[w].op = j.op
        /\ job'[w].seen = membership[job'[w].target]
        /\ job'[w].until = IF j.op = "grace_started" THEN clock + j.days ELSE NoExpiry
    BY <1>0, <2>1, <2>2 DEF TypeOK, Job
  <2>4. clock + j.days # NoExpiry
    BY <2>2, ConstantsAssumption DEF Job
  <2>5. HoldsFresh(job'[w])
    BY <2>3, <2>4 DEF HoldsFresh
  <2>6. QED
    BY <1>3, <2>3, <2>5, GraceQuietStep DEF Find
<1>4. ASSUME NEW w \in Workers, Commit(w)
      PROVE  FreshOrBehind' /\ GraceHasExpiry'
  <2> DEFINE j == job[w]
             r == membership[j.target]
  <2>1. /\ j \in Job /\ j.target \in Members /\ Exists(j.target) /\ j.pc = "commit"
        /\ r \in Row /\ ~Refused(j)
        /\ membership' = [membership EXCEPT ![j.target] = Written(j, r)]
        /\ job' = [job EXCEPT ![w] = [j EXCEPT !.pc = "log"]]
        /\ UNCHANGED datasets
    BY <1>0, <1>4 DEF Commit, Refused, TypeOK
  <2>2. j.seen.status # "absent" => r.status # "absent"
    BY <2>1 DEF GraceInv, AuditInv, SeenRowStays
  <2>3. HoldsFresh(j) /\ (r.status = "grace" <=> r.until # NoExpiry)
    BY <2>1 DEF GraceInv, FreshOrBehind, GraceHasExpiry
  <2>4. /\ Written(j, r).status = "grace" <=> Written(j, r).until # NoExpiry
        /\ r.status # "absent" => Written(j, r) = r \/ Written(j, r).ver = r.ver + 1
    BY <2>1, <2>2, <2>3, GraceWritten
  <2>5. GraceHasExpiry'
    BY <1>0, <2>1, <2>4 DEF GraceHasExpiry, GraceInv, TypeOK
  <2>6. ASSUME NEW x \in Workers PROVE HoldsFresh(job[x])'
    <3>1. CASE x = w
      BY <1>0, <2>1, <2>3, <3>1 DEF HoldsFresh, TypeOK, Job
    <3>2. CASE x # w /\ job[x].target = j.target
      <4>1. job'[x] = job[x] /\ job[x] \in Job /\ HoldsFresh(job[x])
        BY <1>0, <2>1, <3>2 DEF TypeOK, GraceInv, FreshOrBehind
      <4>2. membership'[j.target] = Written(j, r)
        BY <1>0, <2>1 DEF TypeOK
      <4>3. job[x].pc = "commit" /\ job[x].seen.status # "absent" => r.status # "absent"
        BY <2>1, <3>2 DEF GraceInv, AuditInv, SeenRowStays
      <4>4. QED
        BY <2>1, <2>4, <3>2, <4>1, <4>2, <4>3 DEF HoldsFresh, Exists, Job, Row
    <3>3. CASE x # w /\ job[x].target # j.target
      <4>1. job'[x] = job[x] /\ HoldsFresh(job[x])
        BY <1>0, <2>1, <3>3 DEF TypeOK, GraceInv, FreshOrBehind
      <4>2. job[x].pc = "commit" => membership'[job[x].target] = membership[job[x].target]
        BY <1>0, <2>1, <3>3 DEF TypeOK
      <4>3. QED
        BY <2>1, <4>1, <4>2 DEF HoldsFresh, Exists
    <3>4. QED BY <3>1, <3>2, <3>3
  <2>7. QED BY <2>5, <2>6 DEF FreshOrBehind
<1>5. ASSUME NEW w \in Workers, Log(w)
      PROVE  FreshOrBehind' /\ GraceHasExpiry'
  <2> DEFINE j   == job[w]
             new == IF j.todo = {} THEN IdleJob ELSE [j EXCEPT !.pc = "find"]
  <2>1. j \in Job /\ HoldsFresh(j)
    BY <1>0 DEF TypeOK, GraceInv, FreshOrBehind
  <2>2. new \in Job /\ HoldsFresh(new)
    BY <2>1, IdleJobType DEF Job, IdleJob, HoldsFresh
  <2>3. job' = [job EXCEPT ![w] = new] /\ UNCHANGED <<datasets, membership>>
    BY <1>5 DEF Log
  <2>4. QED
    BY <2>2, <2>3, GraceQuietStep
<1>6. ASSUME NEW w \in Workers, Fail(w) \/ Crash(w)
      PROVE  FreshOrBehind' /\ GraceHasExpiry'
  <2>1. IdleJob \in Job /\ HoldsFresh(IdleJob)
    BY IdleJobType DEF IdleJob, HoldsFresh
  <2>2. job' = [job EXCEPT ![w] = IdleJob] /\ UNCHANGED <<datasets, membership>>
    BY <1>6 DEF Fail, Crash
  <2>3. QED
    BY <2>1, <2>2, GraceQuietStep
<1>7. ASSUME NEW d \in Datasets, DeleteDataset(d)
      PROVE  FreshOrBehind' /\ GraceHasExpiry'
  <2>1. /\ datasets' = datasets \ {d}
        /\ \A m \in Members : membership'[m] = IF m[2] = d THEN NoRow ELSE membership[m]
        /\ UNCHANGED job
    BY <1>7 DEF DeleteDataset
  <2>2. GraceHasExpiry'
    BY <2>1 DEF GraceHasExpiry, GraceInv, NoRow
  <2>3. ASSUME NEW x \in Workers PROVE HoldsFresh(job[x])'
    <3>1. job[x].pc = "commit" => job[x].target \in Members
      BY <1>0 DEF TypeOK
    <3>2. HoldsFresh(job[x])
      BY DEF GraceInv, FreshOrBehind
    <3>3. QED
      BY <2>1, <3>1, <3>2 DEF HoldsFresh, Exists
  <2>4. QED BY <2>2, <2>3 DEF FreshOrBehind
<1>8. CASE \/ \E d \in Datasets, plans \in SUBSET Plans : SetTariffPlanLink(d, plans)
           \/ DayPasses
           \/ UNCHANGED vars
  <2>1. UNCHANGED <<datasets, membership, job>>
    BY <1>8 DEF SetTariffPlanLink, DayPasses, vars
  <2>2. QED
    BY <2>1 DEF GraceInv, FreshOrBehind, HoldsFresh, GraceHasExpiry, Exists
<1>9. QED
  BY <1>1, <1>2, <1>3, <1>4, <1>5, <1>6, <1>7, <1>8 DEF Next, JobStep, CatalogueChange

\* If UPDATEs check the version column, a membership has an expiry exactly while
\* it is in grace, for any number of workers, users and datasets: no lost update
\* leaves a grace period the scheduler cannot see.
THEOREM VersionedGrace == ASSUME RowVersioned = TRUE PROVE Spec => []GraceHasExpiry
<1>1. GraceInv => GraceHasExpiry
  BY DEF GraceInv
<1>2. GraceInv /\ [Next]_vars => GraceInv'
  BY GraceStep
<1>3. QED
  BY <1>1, <1>2, GraceInit, PTL DEF Spec

=============================================================================
