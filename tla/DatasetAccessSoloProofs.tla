---------------------- MODULE DatasetAccessSoloProofs ----------------------
(***************************************************************************)
(* Theorems about DatasetAccess when one worker at a time handles events:  *)
(* the newest audit entry tells a member's status, and the service         *)
(* implements AccessLifecycle.  Users, datasets, plans, events, days and   *)
(* crashes are as many as one likes.                                       *)
(***************************************************************************)
EXTENDS DatasetAccessProofs

OneWorker == \A x, y \in Workers : x = y

\* What the one worker has read or written of a row is what the row says, unless
\* the dataset is gone: only the catalogue moves in between.
KnowsRow(j) ==
    /\ j.pc = "commit" /\ Exists(j.target) => j.seen = membership[j.target]
    /\ j.pc = "log" /\ Exists(j.target) => membership[j.target].status = StatusOf(j.op)

NewestInv == /\ AuditInv
             /\ \A w \in Workers : KnowsRow(job[w])
             /\ NewestAuditAgrees

\* A commit on the row that was seen writes what the transition asks for.
LEMMA WrittenOnSeen ==
    ASSUME NEW j \in Job, NEW r \in Row, j.seen = r
    PROVE  Written(j, r).status = StatusOf(j.op) /\ Written(j, r).until = j.until
BY StatusOfType DEF Written, Job, Row, Status

LEMMA NewestInit == Init => NewestInv
<1> SUFFICES ASSUME Init PROVE NewestInv
  OBVIOUS
<1>1. AuditInv
  BY AuditInit
<1>2. \A m \in Members : membership[m].status = "absent"
  BY DEF Init, NoRow
<1>3. \A w \in Workers : job[w].pc = "idle"
  BY DEF Init, IdleJob
<1>4. QED
  BY <1>1, <1>2, <1>3 DEF NewestInv, KnowsRow, NewestAuditAgrees

\* A step that leaves rows and log alone, and takes no worker out of its "log"
\* step, keeps the newest entries.
LEMMA NewestQuietStep ==
    ASSUME NewestInv, NEW w \in Workers, NEW j \in Job,
           job' = [job EXCEPT ![w] = j], job[w].pc # "log", j.pc # "log",
           j.pc = "commit" => j.seen = membership[j.target],
           UNCHANGED <<datasets, membership, accessLog, unlogged>>
    PROVE  (\A x \in Workers : KnowsRow(job[x])') /\ NewestAuditAgrees'
<1>1. job \in [Workers -> Job]
  BY DEF NewestInv, AuditInv, TypeOK
<1>2. \A x \in Workers : KnowsRow(job[x])'
  BY <1>1 DEF NewestInv, KnowsRow, Exists
<1>3. NewestAuditAgrees'
  BY <1>1 DEF NewestInv, NewestAuditAgrees, About
<1>4. QED BY <1>2, <1>3

LEMMA NewestStep ==
    ASSUME OneWorker
    PROVE  NewestInv /\ [Next]_vars => NewestInv'
<1> SUFFICES ASSUME NewestInv, [Next]_vars PROVE NewestInv'
  OBVIOUS
<1> DEFINE Goal == (\A x \in Workers : KnowsRow(job[x])') /\ NewestAuditAgrees'
<1>0. /\ AuditInv /\ AuditInv' /\ TypeOK /\ TypeOK'
      /\ job \in [Workers -> Job] /\ membership \in [Members -> Row]
  BY AuditStep DEF NewestInv, AuditInv, TypeOK
<1>1. ASSUME NEW w \in Workers, SubscriptionEvent(w) \/ OrderEvent(w)
      PROVE  Goal
  <2>1. PICK op \in Op, by \in Trigger, days \in Nat, members \in SUBSET Members :
           Handle(w, op, by, days, members)
    BY <1>0, <1>1, EventIsHandle DEF TypeOK
  <2> DEFINE j == [IdleJob EXCEPT !.pc = "find", !.op = op, !.by = by,
                                  !.days = days, !.todo = members]
  <2>2. j \in Job /\ j.pc = "find"
    BY IdleJobType DEF Job, IdleJob
  <2>3. QED
    BY <2>1, <2>2, NewestQuietStep DEF Handle
<1>2. ASSUME NEW w \in Workers, RevokeExpiredGraceAccess(w)
      PROVE  Goal
  <2>1. PICK m \in Members :
           job' = [job EXCEPT ![w] = [IdleJob EXCEPT !.pc = "commit", !.op = "revoke",
                     !.by = "scheduler", !.todo = {x \in Members : Expired(x)} \ {m},
                     !.target = m, !.seen = membership[m]]]
    BY <1>2 DEF RevokeExpiredGraceAccess
  <2> DEFINE j == [IdleJob EXCEPT !.pc = "commit", !.op = "revoke",
                     !.by = "scheduler", !.todo = {x \in Members : Expired(x)} \ {m},
                     !.target = m, !.seen = membership[m]]
  <2>2. j \in Job /\ j.pc = "commit" /\ j.seen = membership[j.target]
    BY <1>0, IdleJobType DEF Job, IdleJob, Op, Trigger
  <2>3. QED
    BY <1>2, <2>1, <2>2, NewestQuietStep DEF RevokeExpiredGraceAccess
<1>3. ASSUME NEW w \in Workers, Find(w)
      PROVE  Goal
  <2>1. PICK m \in job[w].todo :
           job' = [job EXCEPT ![w] = [job[w] EXCEPT !.pc = "commit",
                     !.todo = job[w].todo \ {m}, !.target = m, !.seen = membership[m],
                     !.until = IF job[w].op = "grace_started"
                               THEN clock + job[w].days ELSE NoExpiry]]
    BY <1>3 DEF Find
  <2> DEFINE j == [job[w] EXCEPT !.pc = "commit",
                     !.todo = job[w].todo \ {m}, !.target = m, !.seen = membership[m],
                     !.until = IF job[w].op = "grace_started"
                               THEN clock + job[w].days ELSE NoExpiry]
  <2>2. /\ job[w] \in Job /\ m \in Members /\ membership[m] \in Row
        /\ clock + job[w].days \in Nat
    BY <1>0 DEF TypeOK, Job
  <2>3. j \in Job
    BY <2>2 DEF Job, Expiry
  <2>4. j.pc = "commit" /\ j.seen = membership[j.target]
    BY <2>2 DEF Job
  <2>5. QED
    BY <1>3, <2>1, <2>3, <2>4, NewestQuietStep DEF Find
<1>4. ASSUME NEW w \in Workers, Commit(w)
      PROVE  Goal
  <2> DEFINE j == job[w]
  <2>1. /\ j \in Job /\ j.pc = "commit" /\ j.target \in Members /\ Exists(j.target)
        /\ membership' = [membership EXCEPT ![j.target] = Written(j, membership[j.target])]
        /\ job' = [job EXCEPT ![w].pc = "log"]
        /\ UNCHANGED <<datasets, accessLog, unlogged>>
    BY <1>0, <1>4 DEF Commit, Refused, TypeOK
  <2>2. Written(j, membership[j.target]).status = StatusOf(j.op)
    BY <1>0, <2>1, WrittenOnSeen DEF NewestInv, KnowsRow
  <2>3. /\ job'[w].pc = "log" /\ job'[w].target = j.target /\ job'[w].op = j.op
        /\ \A x \in Workers : x = w
    BY <1>0, <2>1 DEF OneWorker, Job
  <2>4. \A x \in Workers : KnowsRow(job[x])'
    BY <1>0, <2>1, <2>2, <2>3 DEF KnowsRow
  <2>5. ASSUME NEW m \in Members, m # j.target
        PROVE  membership'[m] = membership[m]
    BY <1>0, <2>1, <2>5
  <2>6. NewestAuditAgrees'
    BY <2>1, <2>3, <2>5 DEF NewestInv, NewestAuditAgrees, About
  <2>7. QED BY <2>4, <2>6
<1>5. ASSUME NEW w \in Workers, Log(w)
      PROVE  Goal
  <2> DEFINE j     == job[w]
             entry == [user |-> j.target[1], dataset |-> j.target[2],
                       action |-> j.op, triggered_by |-> j.by]
             last  == Len(accessLog) + 1
  <2>1. /\ j \in Job /\ j.pc = "log" /\ j.target \in Members /\ Exists(j.target)
        /\ accessLog' = Append(accessLog, entry)
        /\ job' = [job EXCEPT ![w] = IF j.todo = {} THEN IdleJob ELSE [j EXCEPT !.pc = "find"]]
        /\ UNCHANGED <<datasets, membership, unlogged>>
    BY <1>0, <1>5 DEF Log, TypeOK
  <2>2. job'[w].pc \notin {"commit", "log"} /\ \A x \in Workers : x = w
    BY <1>0, <2>1 DEF OneWorker, IdleJob, Job
  <2>3. \A x \in Workers : KnowsRow(job[x])'
    BY <2>2 DEF KnowsRow
  <2>4. /\ Len(accessLog) \in Nat /\ DOMAIN accessLog = 1..Len(accessLog)
        /\ DOMAIN accessLog' = 1..last
        /\ accessLog'[last] = entry
        /\ \A i \in 1..Len(accessLog) : accessLog'[i] = accessLog[i]
    BY <1>0, <2>1 DEF TypeOK
  <2>5. ASSUME NEW m \in Members
        PROVE  About(entry, m) <=> m = j.target
    BY <2>1 DEF About, Members
  <2>6. NewestAuditAgrees'
    <3>1. ASSUME NEW m \in Members, membership[m].status # "absent",
                 <<m, membership[m].status>> \notin unlogged
          PROVE  \E i \in {k \in DOMAIN accessLog' : About(accessLog'[k], m)} :
                    /\ \A k \in {k \in DOMAIN accessLog' : About(accessLog'[k], m)} : k <= i
                    /\ StatusOf(accessLog'[i].action) = membership[m].status
      <4>1. CASE m = j.target
        <5>1. StatusOf(entry.action) = membership[m].status
          BY <2>1, <4>1 DEF NewestInv, KnowsRow
        <5>2. last \in {k \in DOMAIN accessLog' : About(accessLog'[k], m)}
          BY <2>4, <2>5, <4>1
        <5>3. QED BY <2>4, <5>1, <5>2
      <4>2. CASE m # j.target
        <5>1. ~\E x \in Workers : job[x].pc = "log" /\ job[x].target = m
          BY <2>2, <4>2
        <5>2. PICK i \in {k \in DOMAIN accessLog : About(accessLog[k], m)} :
                    /\ \A k \in {k \in DOMAIN accessLog : About(accessLog[k], m)} : k <= i
                    /\ StatusOf(accessLog[i].action) = membership[m].status
          BY <3>1, <5>1 DEF NewestInv, NewestAuditAgrees
        <5>3. {k \in DOMAIN accessLog' : About(accessLog'[k], m)}
                 = {k \in DOMAIN accessLog : About(accessLog[k], m)}
          BY <2>4, <2>5, <4>2
        <5>4. QED BY <2>4, <5>2, <5>3
      <4>3. QED BY <4>1, <4>2
    <3>2. QED
      BY <2>1, <3>1 DEF NewestAuditAgrees
  <2>7. QED BY <2>3, <2>6
<1>6. ASSUME NEW w \in Workers, Fail(w)
      PROVE  Goal
  <2>1. /\ job' = [job EXCEPT ![w] = IdleJob]
        /\ UNCHANGED <<datasets, membership, accessLog, unlogged>>
        /\ \A x \in Workers : x = w
        /\ job[w].pc = "log" => ~Exists(job[w].target)
    BY <1>6 DEF Fail, OneWorker
  <2>2. job'[w].pc = "idle"
    BY <1>0, <2>1 DEF IdleJob
  <2>3. \A m \in Members : membership[m].status # "absent" => Exists(m)
    BY <1>0 DEF TypeOK
  <2>4. NewestAuditAgrees'
    BY <2>1, <2>3 DEF NewestInv, NewestAuditAgrees, About
  <2>5. QED
    BY <2>1, <2>2, <2>4 DEF KnowsRow
<1>7. ASSUME NEW w \in Workers, Crash(w)
      PROVE  Goal
  <2>1. /\ job' = [job EXCEPT ![w] = IdleJob]
        /\ UNCHANGED <<datasets, membership, accessLog>>
        /\ \A x \in Workers : x = w
        /\ unlogged \subseteq unlogged'
        /\ job[w].pc = "log" => <<job[w].target, StatusOf(job[w].op)>> \in unlogged'
    BY <1>7 DEF Crash, OneWorker
  <2>2. job'[w].pc = "idle"
    BY <1>0, <2>1 DEF IdleJob
  <2>3. \A m \in Members : membership[m].status # "absent" => Exists(m)
    BY <1>0 DEF TypeOK
  <2>4. \A m \in Members : membership[m].status # "absent" /\ job[w].pc = "log" /\ job[w].target = m
           => <<m, membership[m].status>> \in unlogged'
    BY <2>1, <2>3 DEF NewestInv, KnowsRow
  <2>5. NewestAuditAgrees'
    BY <2>1, <2>4 DEF NewestInv, NewestAuditAgrees, About
  <2>6. QED
    BY <2>1, <2>2, <2>5 DEF KnowsRow
<1>8. ASSUME NEW d \in Datasets, DeleteDataset(d)
      PROVE  Goal
  <2>1. /\ job' = job /\ unlogged' = unlogged /\ datasets' = datasets \ {d}
        /\ membership' = [m \in Members |-> IF m[2] = d THEN NoRow ELSE membership[m]]
        /\ DOMAIN accessLog' = DOMAIN accessLog
        /\ \A i \in DOMAIN accessLog :
              accessLog'[i] = IF accessLog[i].dataset = d
                              THEN [accessLog[i] EXCEPT !.dataset = NoDataset]
                              ELSE accessLog[i]
    BY <1>8 DEF DeleteDataset
  <2>2. \A x \in Workers : KnowsRow(job[x])'
    BY <1>0, <2>1 DEF NewestInv, KnowsRow, Exists, TypeOK
  <2>3. \A i \in DOMAIN accessLog : accessLog[i] \in LogEntry
    BY <1>0 DEF TypeOK
  <2>4. ASSUME NEW m \in Members, m[2] # d, NEW i \in DOMAIN accessLog
        PROVE  /\ About(accessLog'[i], m) <=> About(accessLog[i], m)
               /\ accessLog'[i].action = accessLog[i].action
    BY <2>1, <2>3, <2>4, ConstantsAssumption DEF About, LogEntry, Members
  <2>5. ASSUME NEW m \in Members, membership'[m].status # "absent"
        PROVE  m[2] # d /\ membership'[m] = membership[m]
    BY <2>1, <2>5 DEF NoRow
  <2>6. NewestAuditAgrees'
    <3>1. ASSUME NEW m \in Members, m[2] # d
          PROVE  {k \in DOMAIN accessLog' : About(accessLog'[k], m)}
                    = {k \in DOMAIN accessLog : About(accessLog[k], m)}
      BY <2>1, <2>4, <3>1
    <3>2. QED
      BY <2>1, <2>4, <2>5, <3>1 DEF NewestInv, NewestAuditAgrees
  <2>7. QED BY <2>2, <2>6
<1>9. ASSUME UNCHANGED <<datasets, membership, accessLog, job, unlogged>>
      PROVE  Goal
  BY <1>9 DEF NewestInv, KnowsRow, NewestAuditAgrees, About, Exists
<1>10. Goal
  BY <1>1, <1>2, <1>3, <1>4, <1>5, <1>6, <1>7, <1>8, <1>9
     DEF Next, JobStep, CatalogueChange, SetTariffPlanLink, DayPasses, vars
<1>11. QED
  BY <1>0, <1>10 DEF NewestInv

\* With one worker the newest audit entry about a member tells the member's
\* status, unless the worker is about to write it or died before it could.
THEOREM NewestEntryTells ==
    ASSUME OneWorker
    PROVE  Spec => []NewestAuditAgrees
<1>1. NewestInv /\ [Next]_vars => NewestInv'
  BY NewestStep
<1>2. NewestInv => NewestAuditAgrees
  BY DEF NewestInv
<1>3. QED
  BY <1>1, <1>2, NewestInit, PTL DEF Spec

(***************************************************************************)
(* One worker: the service implements AccessLifecycle                      *)
(***************************************************************************)

\* The days on which a grace period may end
GraceEnds == {day + GraceDays(t) : day \in 0..MaxClock, t \in TrailingDays}

\* What a job of the one worker is about to do is still right when it is done: a
\* refund concerns one member, and what the scheduler listed as expired is
\* expired, or its dataset is gone.
JobPromise(j) ==
    /\ j.pc = "idle" => j.op # "revoke"
    /\ j.op = "revoke" => j.by \in {"line_item", "scheduler"}
    /\ j.pc \in {"commit", "log"} => j.target \notin j.todo
    /\ j.pc # "idle" /\ j.op = "grace_started" => \E t \in TrailingDays : j.days = GraceDays(t)
    /\ j.pc = "commit" /\ j.op = "grace_started" => j.until \in GraceEnds
    /\ j.pc = "commit" /\ j.op # "grace_started" => j.until = NoExpiry
    /\ j.op = "revoke" /\ j.by = "line_item" /\ j.pc = "find" => \E m \in Members : j.todo = {m}
    /\ j.op = "revoke" /\ j.by = "line_item" /\ j.pc \in {"commit", "log"} => j.todo = {}
    /\ j.by = "scheduler" /\ j.pc # "idle" =>
          /\ j.op = "revoke"
          /\ \A m \in j.todo : Exists(m) => Expired(m)
          /\ j.pc = "commit" /\ Exists(j.target) => Expired(j.target)

LifeInv == /\ NewestInv
           /\ clock <= MaxClock
           /\ \A w \in Workers : JobPromise(job[w])

LEMMA IdlePromise == JobPromise(IdleJob)
BY DEF JobPromise, IdleJob

LEMMA LifeInit == Init => LifeInv
<1> SUFFICES ASSUME Init PROVE LifeInv
  OBVIOUS
<1>1. NewestInv
  BY NewestInit
<1>2. clock <= MaxClock
  BY ConstantsAssumption DEF Init
<1>3. \A w \in Workers : JobPromise(job[w])
  BY IdlePromise DEF Init
<1>4. QED
  BY <1>1, <1>2, <1>3 DEF LifeInv

\* A step of the one worker that leaves rows and clock alone.
LEMMA LifeQuietStep ==
    ASSUME OneWorker, LifeInv, NEW w \in Workers, NEW j, job' = [job EXCEPT ![w] = j],
           JobPromise(j), UNCHANGED <<datasets, membership, clock>>
    PROVE  clock' <= MaxClock /\ \A x \in Workers : JobPromise(job[x])'
<1>1. job'[w] = j /\ \A x \in Workers : x = w
  BY DEF LifeInv, NewestInv, AuditInv, TypeOK, OneWorker
<1>2. JobPromise(job[w])'
  BY <1>1 DEF JobPromise, Exists, Expired
<1>3. QED
  BY <1>1, <1>2 DEF LifeInv

LEMMA LifeStep ==
    ASSUME OneWorker
    PROVE  LifeInv /\ [Next]_vars => LifeInv'
<1> SUFFICES ASSUME LifeInv, [Next]_vars PROVE LifeInv'
  OBVIOUS
<1> DEFINE Goal == clock' <= MaxClock /\ \A x \in Workers : JobPromise(job[x])'
<1>0. /\ NewestInv /\ NewestInv' /\ TypeOK /\ clock <= MaxClock
      /\ job \in [Workers -> Job] /\ membership \in [Members -> Row]
      /\ clock \in Nat /\ MaxClock \in Nat
  BY NewestStep, ConstantsAssumption DEF LifeInv, NewestInv, AuditInv, TypeOK
<1>1. ASSUME NEW w \in Workers, SubscriptionEvent(w) \/ OrderEvent(w)
      PROVE  Goal
  <2>1. PICK op \in Op, by \in Trigger, days \in Nat, members \in SUBSET Members :
              /\ Handle(w, op, by, days, members)
              /\ op = "revoke" => by = "line_item" /\ \E m \in Members : members = {m}
              /\ op = "grace_started" => \E t \in TrailingDays : days = GraceDays(t)
              /\ by # "scheduler"
    BY <1>0, <1>1, EventIsHandle DEF TypeOK
  <2> DEFINE j == [IdleJob EXCEPT !.pc = "find", !.op = op, !.by = by,
                                  !.days = days, !.todo = members]
  <2>2. JobPromise(j)
    BY <2>1 DEF JobPromise, IdleJob
  <2>3. QED
    BY <2>1, <2>2, LifeQuietStep DEF Handle
<1>2. ASSUME NEW w \in Workers, RevokeExpiredGraceAccess(w)
      PROVE  Goal
  <2> DEFINE expired == {x \in Members : Expired(x)}
  <2>1. PICK m \in expired :
           job' = [job EXCEPT ![w] = [IdleJob EXCEPT !.pc = "commit", !.op = "revoke",
                     !.by = "scheduler", !.todo = expired \ {m},
                     !.target = m, !.seen = membership[m]]]
    BY <1>2 DEF RevokeExpiredGraceAccess
  <2> DEFINE j == [IdleJob EXCEPT !.pc = "commit", !.op = "revoke",
                     !.by = "scheduler", !.todo = expired \ {m},
                     !.target = m, !.seen = membership[m]]
  <2>2. JobPromise(j)
    BY <2>1 DEF JobPromise, IdleJob
  <2>3. QED
    BY <1>2, <2>1, <2>2, LifeQuietStep DEF RevokeExpiredGraceAccess
<1>3. ASSUME NEW w \in Workers, Find(w)
      PROVE  Goal
  <2> DEFINE until == IF job[w].op = "grace_started" THEN clock + job[w].days ELSE NoExpiry
  <2>1. PICK m \in job[w].todo :
           job' = [job EXCEPT ![w] = [job[w] EXCEPT !.pc = "commit",
                     !.todo = job[w].todo \ {m}, !.target = m, !.seen = membership[m],
                     !.until = until]]
    BY <1>3 DEF Find
  <2> DEFINE j == [job[w] EXCEPT !.pc = "commit",
                     !.todo = job[w].todo \ {m}, !.target = m, !.seen = membership[m],
                     !.until = until]
  <2>2. job[w] \in Job /\ job[w].pc = "find" /\ JobPromise(job[w])
    BY <1>0, <1>3 DEF Find, LifeInv
  <2>3. /\ j.pc = "commit" /\ j.op = job[w].op /\ j.by = job[w].by /\ j.days = job[w].days
        /\ j.todo = job[w].todo \ {m} /\ j.target = m /\ j.until = until
    BY <2>2 DEF Job
  <2>4. job[w].op = "grace_started" => until \in GraceEnds
    <3>1. clock \in 0..MaxClock
      BY <1>0
    <3>2. QED
      BY <2>2, <3>1 DEF JobPromise, GraceEnds
  <2>5. JobPromise(j)
    BY <2>2, <2>3, <2>4 DEF JobPromise
  <2>6. QED
    BY <1>3, <2>1, <2>5, LifeQuietStep DEF Find
<1>4. ASSUME NEW w \in Workers, Commit(w)
      PROVE  Goal
  <2> DEFINE j == job[w]
  <2>1. /\ j \in Job /\ j.pc = "commit" /\ JobPromise(j)
        /\ \A m \in Members : m # j.target => membership'[m] = membership[m]
        /\ job' = [job EXCEPT ![w].pc = "log"]
        /\ UNCHANGED <<datasets, clock>>
        /\ \A x \in Workers : x = w
    BY <1>0, <1>4 DEF Commit, LifeInv, OneWorker
  <2>2. job'[w] = [j EXCEPT !.pc = "log"]
    BY <1>0, <2>1
  <2>3. /\ job'[w].pc = "log" /\ job'[w].op = j.op /\ job'[w].by = j.by
        /\ job'[w].days = j.days /\ job'[w].todo = j.todo /\ job'[w].target = j.target
    BY <2>1, <2>2 DEF Job
  <2>4. j.todo \subseteq Members
    BY <2>1 DEF Job
  <2>5. JobPromise(job[w])'
    BY <2>1, <2>3, <2>4 DEF JobPromise, Exists, Expired
  <2>6. QED
    BY <1>0, <2>1, <2>5
<1>5. ASSUME NEW w \in Workers, Log(w)
      PROVE  Goal
  <2> DEFINE j == IF job[w].todo = {} THEN IdleJob ELSE [job[w] EXCEPT !.pc = "find"]
  <2>1. /\ job[w] \in Job /\ job[w].pc = "log" /\ JobPromise(job[w])
        /\ job' = [job EXCEPT ![w] = j]
    BY <1>0, <1>5 DEF Log, LifeInv
  <2>2. JobPromise(j)
    <3>1. CASE job[w].todo = {}
      BY <3>1, IdlePromise
    <3>2. CASE job[w].todo # {}
      BY <2>1, <3>2 DEF JobPromise, Job
    <3>3. QED BY <3>1, <3>2
  <2>3. QED
    BY <1>5, <2>1, <2>2, LifeQuietStep DEF Log
<1>6. ASSUME NEW w \in Workers, Fail(w) \/ Crash(w)
      PROVE  Goal
  BY <1>6, IdlePromise, LifeQuietStep DEF Fail, Crash
<1>7. ASSUME NEW d \in Datasets, DeleteDataset(d)
      PROVE  Goal
  <2>1. /\ job' = job /\ clock' = clock /\ datasets' = datasets \ {d}
        /\ \A m \in Members : m[2] # d => membership'[m] = membership[m]
    BY <1>7 DEF DeleteDataset
  <2>2. ASSUME NEW x \in Workers
        PROVE  JobPromise(job[x])'
    <3>1. job[x] \in Job /\ JobPromise(job[x])
      BY <1>0 DEF LifeInv
    <3>2. /\ job[x].todo \subseteq Members
          /\ job[x].pc = "commit" => job[x].target \in Members
      BY <1>0, <3>1 DEF Job, TypeOK
    <3>3. QED
      BY <2>1, <3>1, <3>2 DEF JobPromise, Exists, Expired
  <2>3. QED BY <1>0, <2>1, <2>2
<1>8. ASSUME DayPasses
      PROVE  Goal
  <2>1. /\ job' = job /\ membership' = membership /\ datasets' = datasets
        /\ clock' = clock + 1 /\ clock' <= MaxClock
    BY <1>0, <1>8 DEF DayPasses
  <2>2. ASSUME NEW m \in Members, Expired(m)
        PROVE  Expired(m)'
    <3>1. membership[m].until \in Nat
      BY <1>0, <2>2 DEF Expired, Row, Expiry
    <3>2. QED
      BY <1>0, <2>1, <2>2, <3>1 DEF Expired
  <2>3. ASSUME NEW x \in Workers
        PROVE  JobPromise(job[x])'
    <3>1. job[x] \in Job /\ JobPromise(job[x])
      BY <1>0 DEF LifeInv
    <3>2. /\ job[x].todo \subseteq Members
          /\ job[x].pc = "commit" => job[x].target \in Members
      BY <1>0, <3>1 DEF Job, TypeOK
    <3>3. QED
      BY <2>1, <2>2, <3>1, <3>2 DEF JobPromise, Exists
  <2>4. QED BY <1>0, <2>1, <2>3
<1>9. ASSUME UNCHANGED <<datasets, membership, clock, job>>
      PROVE  Goal
  BY <1>9 DEF LifeInv, JobPromise, Exists, Expired
<1>10. ASSUME \/ \E d \in Datasets, plans \in SUBSET Plans : SetTariffPlanLink(d, plans)
              \/ UNCHANGED vars
       PROVE  Goal
  BY <1>9, <1>10 DEF SetTariffPlanLink, vars
<1>11. Goal
  BY <1>1, <1>2, <1>3, <1>4, <1>5, <1>6, <1>7, <1>8, <1>10
     DEF Next, JobStep, CatalogueChange
<1>12. QED
  BY <1>0, <1>11 DEF LifeInv

Access  == [m \in Members |-> [status |-> membership[m].status,
                               until  |-> membership[m].until]]
Refunds == {m \in Members : PendingRefund(m)}

\* What the job carries out for a refund
CarriesRefund(j, m) == /\ j.op = "revoke" /\ j.by = "line_item"
                       /\ \/ m \in j.todo
                          \/ j.pc = "commit" /\ j.target = m

LEMMA OneJobsRefunds ==
    ASSUME OneWorker, NEW w \in Workers
    PROVE  \A m \in Members : /\ m \in Refunds <=> CarriesRefund(job[w], m)
                              /\ m \in Refunds' <=> CarriesRefund(job'[w], m)
<1>1. \A x \in Workers : x = w
  BY DEF OneWorker
<1>2. ASSUME NEW m \in Members
      PROVE  /\ PendingRefund(m) <=> CarriesRefund(job[w], m)
             /\ PendingRefund(m)' <=> CarriesRefund(job'[w], m)
  BY <1>1 DEF PendingRefund, CarriesRefund
<1>3. QED
  BY <1>2 DEF Refunds

LEMMA RefundsAreMembers == Refunds \subseteq Members /\ Refunds' \subseteq Members
BY DEF Refunds

\* A step that commits no row is one of filing a refund, dropping one, or none.
LEMMA RefundStep ==
    ASSUME UNCHANGED <<membership, clock>>,
           \/ Refunds' = Refunds
           \/ \E m \in Members : Refunds' = Refunds \union {m}
           \/ \E m \in Members : Refunds' = Refunds \ {m}
    PROVE  [Lifecycle!Next]_(Lifecycle!vars)
<1>1. Access' = Access
  BY DEF Access
<1>2. CASE Refunds' = Refunds
  BY <1>1, <1>2 DEF Lifecycle!vars, Access, Refunds
<1>3. ASSUME NEW m \in Members, Refunds' = Refunds \union {m}
      PROVE  Lifecycle!Next
  <2>1. Lifecycle!FileRefund(m)
    BY <1>1, <1>3 DEF Lifecycle!FileRefund, Access, Refunds
  <2>2. QED
    BY <2>1 DEF Lifecycle!Next, Lifecycle!Members, Members
<1>4. ASSUME NEW m \in Members, Refunds' = Refunds \ {m}
      PROVE  Lifecycle!Next
  <2>1. Lifecycle!DropRefund(m)
    BY <1>1, <1>4 DEF Lifecycle!DropRefund, Access, Refunds
  <2>2. QED
    BY <2>1 DEF Lifecycle!Next, Lifecycle!Members, Members
<1>5. QED
  BY <1>2, <1>3, <1>4

LEMMA LifecycleStep ==
    ASSUME OneWorker
    PROVE  LifeInv /\ [Next]_vars => [Lifecycle!Next]_(Lifecycle!vars)
<1> SUFFICES ASSUME LifeInv, [Next]_vars PROVE [Lifecycle!Next]_(Lifecycle!vars)
  OBVIOUS
<1> DEFINE Goal == [Lifecycle!Next]_(Lifecycle!vars)
<1>0. /\ NewestInv /\ TypeOK /\ clock \in Nat
      /\ job \in [Workers -> Job] /\ membership \in [Members -> Row]
      /\ \A w \in Workers : JobPromise(job[w])
  BY DEF LifeInv, NewestInv, AuditInv, TypeOK
<1>1. ASSUME NEW w \in Workers, SubscriptionEvent(w) \/ OrderEvent(w)
      PROVE  Goal
  <2>1. PICK op \in Op, by \in Trigger, days \in Nat, members \in SUBSET Members :
              /\ Handle(w, op, by, days, members)
              /\ op = "revoke" => by = "line_item" /\ \E m \in Members : members = {m}
    BY <1>0, <1>1, EventIsHandle DEF TypeOK
  <2> DEFINE j == [IdleJob EXCEPT !.pc = "find", !.op = op, !.by = by,
                                  !.days = days, !.todo = members]
  <2>2. job[w].pc = "idle" /\ job'[w] = j /\ UNCHANGED <<membership, clock>>
    BY <1>0, <2>1 DEF Handle
  <2>3. Refunds = {}
    BY <1>0, <2>2, OneJobsRefunds, RefundsAreMembers DEF CarriesRefund, JobPromise
  <2>4. /\ j.op = op /\ j.by = by /\ j.todo = members /\ j.pc = "find"
    BY DEF IdleJob
  <2> HIDE DEF j
  <2>5. Refunds' = IF op = "revoke" /\ by = "line_item" THEN members ELSE {}
    BY <2>2, <2>4, OneJobsRefunds, RefundsAreMembers DEF CarriesRefund
  <2>6. QED
    BY <2>1, <2>2, <2>3, <2>5, RefundStep
<1>2. ASSUME NEW w \in Workers, RevokeExpiredGraceAccess(w)
      PROVE  Goal
  <2>1. /\ job[w].pc = "idle" /\ job'[w].by = "scheduler" /\ UNCHANGED <<membership, clock>>
    BY <1>0, <1>2 DEF RevokeExpiredGraceAccess, IdleJob
  <2>2. Refunds = {} /\ Refunds' = {}
    BY <1>0, <2>1, OneJobsRefunds, RefundsAreMembers DEF CarriesRefund, JobPromise
  <2>3. QED
    BY <2>1, <2>2, RefundStep
<1>3. ASSUME NEW w \in Workers, Find(w)
      PROVE  Goal
  <2>1. PICK m \in job[w].todo :
           /\ job'[w] = [job[w] EXCEPT !.pc = "commit",
                           !.todo = job[w].todo \ {m}, !.target = m, !.seen = membership[m],
                           !.until = IF job[w].op = "grace_started"
                                     THEN clock + job[w].days ELSE NoExpiry]
           /\ job[w].pc = "find" /\ UNCHANGED <<membership, clock>>
    BY <1>0, <1>3 DEF Find
  <2>2. /\ job'[w].op = job[w].op /\ job'[w].by = job[w].by /\ job'[w].pc = "commit"
        /\ job'[w].todo = job[w].todo \ {m} /\ job'[w].target = m
    BY <1>0, <2>1 DEF Job
  <2>3. \A x \in Members : CarriesRefund(job'[w], x) <=> CarriesRefund(job[w], x)
    BY <2>1, <2>2 DEF CarriesRefund
  <2>4. Refunds' = Refunds
    BY <2>3, OneJobsRefunds, RefundsAreMembers
  <2>5. QED
    BY <2>1, <2>4, RefundStep
<1>4. ASSUME NEW w \in Workers, Commit(w)
      PROVE  Goal
  <2> DEFINE j == job[w]
  <2>0. PICK t \in Members : t = j.target
    BY <1>0, <1>4 DEF Commit, TypeOK
  <2> DEFINE r == Written(j, membership[t])
  <2>1. /\ j \in Job /\ j.pc = "commit" /\ j.target = t /\ Exists(t)
        /\ membership' = [membership EXCEPT ![t] = r]
        /\ job'[w] = [j EXCEPT !.pc = "log"]
        /\ clock' = clock
        /\ JobPromise(j) /\ KnowsRow(j)
    BY <1>0, <1>4, <2>0 DEF Commit, Refused, TypeOK, NewestInv
  <2>2. r.status = StatusOf(j.op) /\ r.until = j.until
    BY <1>0, <2>1, WrittenOnSeen DEF KnowsRow
  <2>3. Access' = [Access EXCEPT ![t] = [status |-> StatusOf(j.op), until |-> j.until]]
    BY <1>0, <2>1, <2>2 DEF Access
  <2>4. /\ job'[w].op = j.op /\ job'[w].by = j.by /\ job'[w].pc = "log"
        /\ job'[w].todo = j.todo
    BY <2>1 DEF Job
  <2>5. Refunds' = Refunds \ {t}
    BY <2>1, <2>4, OneJobsRefunds, RefundsAreMembers DEF CarriesRefund, JobPromise
  <2>6. CASE j.op = "grace_started"
    <3>1. Refunds' = Refunds
      BY <2>1, <2>4, <2>6, OneJobsRefunds, RefundsAreMembers DEF CarriesRefund
    <3>2. PICK day \in GraceEnds : day = j.until
      BY <2>1, <2>6 DEF JobPromise
    <3>3. Lifecycle!StartGrace(t, day)
      BY <2>1, <2>3, <2>6, <3>1, <3>2 DEF Lifecycle!StartGrace, StatusOf, Access, Refunds
    <3>4. QED
      BY <3>3 DEF Lifecycle!Next, Lifecycle!Members, Members, GraceEnds
  <2>7. CASE j.op \in {"grant", "restore"}
    <3>1. Refunds' = Refunds
      BY <2>1, <2>4, <2>7, OneJobsRefunds, RefundsAreMembers DEF CarriesRefund
    <3>2. j.until = NoExpiry /\ StatusOf(j.op) = "active"
      BY <2>1, <2>7 DEF JobPromise, StatusOf
    <3>3. Lifecycle!Grant(t)
      BY <2>1, <2>3, <3>1, <3>2 DEF Lifecycle!Grant, Lifecycle!Open, Access, Refunds
    <3>4. QED
      BY <2>1, <3>3 DEF Lifecycle!Next, Lifecycle!Members, Members
  <2>8. CASE j.op = "revoke" /\ j.by = "line_item"
    <3>1. t \in Refunds
      BY <2>1, <2>8, OneJobsRefunds, RefundsAreMembers DEF CarriesRefund
    <3>2. j.until = NoExpiry /\ StatusOf(j.op) = "revoked"
      BY <2>1, <2>8 DEF JobPromise, StatusOf
    <3>3. Lifecycle!Refund(t)
      BY <2>1, <2>3, <2>5, <3>1, <3>2 DEF Lifecycle!Refund, Lifecycle!Closed, Access, Refunds
    <3>4. QED
      BY <2>1, <3>3 DEF Lifecycle!Next, Lifecycle!Members, Members
  <2>9. CASE j.op = "revoke" /\ j.by = "scheduler"
    <3>1. Refunds' = Refunds
      BY <2>1, <2>4, <2>9, OneJobsRefunds, RefundsAreMembers DEF CarriesRefund
    <3>2. j.until = NoExpiry /\ StatusOf(j.op) = "revoked" /\ Expired(t)
      BY <2>1, <2>9 DEF JobPromise, StatusOf
    <3>3. Access[t].status = "grace" /\ Access[t].until <= clock
      BY <2>1, <3>2 DEF Access, Expired
    <3>4. Lifecycle!Expire(t)
      BY <2>1, <2>3, <3>1, <3>2, <3>3 DEF Lifecycle!Expire, Lifecycle!Closed, Access, Refunds
    <3>5. QED
      BY <2>1, <3>4 DEF Lifecycle!Next, Lifecycle!Members, Members
  <2>10. QED
    BY <2>1, <2>6, <2>7, <2>8, <2>9 DEF Job, Op, JobPromise
<1>5. ASSUME NEW w \in Workers, Log(w)
      PROVE  Goal
  <2> DEFINE j == IF job[w].todo = {} THEN IdleJob ELSE [job[w] EXCEPT !.pc = "find"]
  <2>1. /\ job[w] \in Job /\ job[w].pc = "log" /\ JobPromise(job[w])
        /\ job'[w] = j /\ UNCHANGED <<membership, clock>>
    BY <1>0, <1>5 DEF Log
  <2>2. job[w].todo # {} => /\ j.op = job[w].op /\ j.by = job[w].by
                            /\ j.todo = job[w].todo /\ j.pc = "find"
    BY <2>1 DEF Job
  <2>3. \A x \in Members : CarriesRefund(job'[w], x) <=> CarriesRefund(job[w], x)
    BY <2>1, <2>2 DEF CarriesRefund, IdleJob
  <2>4. Refunds' = Refunds
    BY <2>3, OneJobsRefunds, RefundsAreMembers
  <2>5. QED
    BY <2>1, <2>4, RefundStep
<1>6. ASSUME NEW w \in Workers, Fail(w) \/ Crash(w)
      PROVE  Goal
  <2>1. /\ job[w] \in Job /\ JobPromise(job[w])
        /\ job'[w] = IdleJob /\ UNCHANGED <<membership, clock>>
    BY <1>0, <1>6 DEF Fail, Crash
  <2>2. Refunds' = {}
    BY <2>1, OneJobsRefunds, RefundsAreMembers DEF CarriesRefund, IdleJob
  <2>3. Refunds = {} \/ \E m \in Members : Refunds = {m}
    <3>1. /\ Refunds \subseteq Members
          /\ \A m \in Members : m \in Refunds <=> CarriesRefund(job[w], m)
      BY OneJobsRefunds, RefundsAreMembers
    <3>2. CASE job[w].op = "revoke" /\ job[w].by = "line_item" /\ job[w].pc = "find"
      BY <2>1, <3>1, <3>2 DEF CarriesRefund, JobPromise
    <3>3. CASE job[w].op = "revoke" /\ job[w].by = "line_item" /\ job[w].pc \in {"commit", "log"}
      BY <2>1, <3>1, <3>3 DEF CarriesRefund, JobPromise
    <3>4. CASE ~(job[w].op = "revoke" /\ job[w].by = "line_item")
      BY <3>1, <3>4 DEF CarriesRefund
    <3>5. QED
      BY <2>1, <3>2, <3>3, <3>4 DEF Job, JobPromise
  <2>4. Refunds' = Refunds \/ \E m \in Members : Refunds' = Refunds \ {m}
    BY <2>2, <2>3
  <2>5. QED
    BY <2>1, <2>4, RefundStep
<1>7. ASSUME NEW d \in Datasets, DeleteDataset(d)
      PROVE  Goal
  <2>1. /\ job' = job /\ clock' = clock
        /\ membership' = [m \in Members |-> IF m[2] = d THEN NoRow ELSE membership[m]]
    BY <1>7 DEF DeleteDataset
  <2>2. Refunds' = Refunds
    BY <2>1 DEF Refunds, PendingRefund
  <2>3. Access' = [m \in Members |-> IF m[2] = d THEN [status |-> "absent", until |-> NoExpiry]
                                                 ELSE Access[m]]
    BY <2>1 DEF Access, NoRow
  <2>4. Lifecycle!Remove(d)
    BY <2>1, <2>2, <2>3
       DEF Lifecycle!Remove, Lifecycle!None, Lifecycle!Members, Members, Access, Refunds
  <2>5. QED
    BY <2>4 DEF Lifecycle!Next
<1>8. ASSUME DayPasses
      PROVE  Goal
  <2>1. clock' = clock + 1 /\ UNCHANGED <<membership, job>>
    BY <1>8 DEF DayPasses
  <2>2. Access' = Access /\ Refunds' = Refunds
    BY <2>1 DEF Access, Refunds, PendingRefund
  <2>3. Lifecycle!DayPasses
    BY <2>1, <2>2 DEF Lifecycle!DayPasses, Access, Refunds
  <2>4. QED
    BY <2>3 DEF Lifecycle!Next
<1>9. ASSUME \/ \E d \in Datasets, plans \in SUBSET Plans : SetTariffPlanLink(d, plans)
             \/ UNCHANGED vars
      PROVE  Goal
  <2>1. UNCHANGED <<membership, clock, job>>
    BY <1>9 DEF SetTariffPlanLink, vars
  <2>2. Refunds' = Refunds
    BY <2>1 DEF Refunds, PendingRefund
  <2>3. QED
    BY <2>1, <2>2, RefundStep
<1>10. QED
  BY <1>1, <1>2, <1>3, <1>4, <1>5, <1>6, <1>7, <1>8, <1>9
     DEF Next, JobStep, CatalogueChange

\* One worker at a time keeps the promise of AccessLifecycle through crashes,
\* refused commits, repeated events and deleted datasets: access is opened, put
\* into grace, and ends only on an expired day or by a refund that was filed.
THEOREM SoloAccess ==
    ASSUME OneWorker
    PROVE  Spec => ImplementsLifecycle
<1>1. Init => Lifecycle!Init
  <2> SUFFICES ASSUME Init PROVE Lifecycle!Init
    OBVIOUS
  <2>1. \A m \in Members : ~PendingRefund(m)
    BY DEF Init, PendingRefund, IdleJob
  <2>2. QED
    BY <2>1 DEF Init, NoRow, Lifecycle!Init, Lifecycle!None, Lifecycle!Members, Members
<1>2. LifeInv /\ [Next]_vars => LifeInv'
  BY LifeStep
<1>3. LifeInv /\ [Next]_vars => [Lifecycle!Next]_(Lifecycle!vars)
  BY LifecycleStep
<1>4. QED
  BY <1>1, <1>2, <1>3, LifeInit, PTL DEF Spec, ImplementsLifecycle, Lifecycle!Spec

=============================================================================
