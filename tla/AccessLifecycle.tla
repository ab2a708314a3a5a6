-------------------------- MODULE AccessLifecycle --------------------------
(***************************************************************************)
(* What the access service promises, without rows, commits or workers: a   *)
(* member's access is opened, put into a grace period with a last day, and *)
(* ends only because that day has come or because a refund was filed for   *)
(* it.  Every step concerns one member, except the removal of a dataset.   *)
(***************************************************************************)
EXTENDS Naturals

CONSTANTS
    Users, Datasets, NoExpiry,
    LastDays \* the days a grace period may end on

Members == Users \X Datasets

VARIABLES
    access, \* each member's [status, until]
    today,
    refunds \* members with a filed refund that is not carried out yet

vars == <<access, today, refunds>>

None    == [status |-> "absent",  until |-> NoExpiry]
Open    == [status |-> "active",  until |-> NoExpiry]
Closed  == [status |-> "revoked", until |-> NoExpiry]

Init ==
    /\ access = [m \in Members |-> None]
    /\ today \in Nat
    /\ refunds = {}

Grant(m) ==
    /\ access' = [access EXCEPT ![m] = Open]
    /\ UNCHANGED <<today, refunds>>

\* The last day was chosen when the event came in, so it need not be ahead of
\* today.
StartGrace(m, day) ==
    /\ access' = [access EXCEPT ![m] = [status |-> "grace", until |-> day]]
    /\ UNCHANGED <<today, refunds>>

FileRefund(m) ==
    /\ refunds' = refunds \union {m}
    /\ UNCHANGED <<access, today>>

\* The refund could not be carried out.
DropRefund(m) ==
    /\ refunds' = refunds \ {m}
    /\ UNCHANGED <<access, today>>

Refund(m) ==
    /\ m \in refunds
    /\ access' = [access EXCEPT ![m] = Closed]
    /\ refunds' = refunds \ {m}
    /\ UNCHANGED today

Expire(m) ==
    /\ access[m].status = "grace"
    /\ access[m].until <= today
    /\ access' = [access EXCEPT ![m] = Closed]
    /\ UNCHANGED <<today, refunds>>

Remove(d) ==
    /\ access' = [m \in Members |-> IF m[2] = d THEN None ELSE access[m]]
    /\ UNCHANGED <<today, refunds>>

DayPasses ==
    /\ today' = today + 1
    /\ UNCHANGED <<access, refunds>>

Next ==
    \/ \E m \in Members : \/ Grant(m)
                          \/ \E day \in LastDays : StartGrace(m, day)
                          \/ FileRefund(m)
                          \/ DropRefund(m)
                          \/ Refund(m)
                          \/ Expire(m)
    \/ \E d \in Datasets : Remove(d)
    \/ DayPasses

Spec == Init /\ [][Next]_vars

=============================================================================
