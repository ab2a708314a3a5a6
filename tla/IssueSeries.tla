----------------------------- MODULE IssueSeries -----------------------------
(***************************************************************************)
(* What the archive promises of a dataset, whatever its storage: a series  *)
(* of issues and a "last" pointer, which is either empty or names an issue *)
(* of the same series.  Publishing advances the pointer, withdrawing the   *)
(* issue it names empties it.                                              *)
(***************************************************************************)
CONSTANTS Datasets, Snapshots, Nothing

VARIABLES
    series, \* the issues of each dataset
    last    \* the issue each dataset serves, or Nothing

vars == <<series, last>>

Published == UNION {series[d] : d \in Datasets}

Init ==
    /\ series = [d \in Datasets |-> {}]
    /\ last = [d \in Datasets |-> Nothing]

Publish(d, s) ==
    /\ s \notin Published
    /\ series' = [series EXCEPT ![d] = @ \union {s}]
    /\ last' = [last EXCEPT ![d] = s]

PointLast(d, s) ==
    /\ s \in series[d]
    /\ last' = [last EXCEPT ![d] = s]
    /\ UNCHANGED series

Withdraw(d, s) ==
    /\ s \in series[d]
    /\ series' = [series EXCEPT ![d] = @ \ {s}]
    /\ last' = [last EXCEPT ![d] = IF @ = s THEN Nothing ELSE @]

Drop(d) ==
    /\ series' = [series EXCEPT ![d] = {}]
    /\ last' = [last EXCEPT ![d] = Nothing]

Next ==
    \E d \in Datasets :
       \/ Drop(d)
       \/ \E s \in Snapshots : Publish(d, s) \/ PointLast(d, s) \/ Withdraw(d, s)

Spec == Init /\ [][Next]_vars

=============================================================================
