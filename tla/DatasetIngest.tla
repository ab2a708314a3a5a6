---------------------------- MODULE DatasetIngest ----------------------------
(***************************************************************************)
(* The ingest webhook: a pipeline, or whoever has seen its request, sends  *)
(* a signed push again and again.  The signature covers the time stamp and *)
(* the body, so what is sent is always the same; the body names a dataset  *)
(* by its slug and may name the minute of the issue.  A push that is       *)
(* accepted is an upload like any other, and nothing remembers it.         *)
(***************************************************************************)
EXTENDS DatasetExchange

CONSTANTS
    Pushes,     \* what was signed: stamp, slug, minute, blob
    Tolerance,  \* webhook_timestamp_tolerance_seconds
    MaxTime     \* bound: the clock stops there

ASSUME IngestConstantsAssumption ==
    /\ Pushes \subseteq [stamp: Int, slug: Slugs, minute: Minutes, blob: Blobs]
    /\ Tolerance \in Nat /\ MaxTime \in Nat

VARIABLES
    clock,
    origin    \* history: the push an issue came from, or Nothing

ingestVars   == <<clock, origin>>
exchangeAll  == <<vars, links, exchangeVars>>

IngestInit ==
    /\ ExchangeInit
    /\ clock = 0
    /\ origin = [s \in Snapshots |-> Nothing]

Tick ==
    /\ clock < MaxTime
    /\ clock' = clock + 1
    /\ UNCHANGED <<exchangeAll, origin>>

\* _webhook_timestamp_is_fresh: a stamp of the sender's clock, which may be ahead
Fresh(p) == /\ clock - p.stamp <= Tolerance
            /\ p.stamp - clock <= Tolerance

\* Accepted pushes only; the rest is answered with an error and changes nothing.
IngestWebhook(w, p, d, s) ==
    /\ Fresh(p)
    /\ LiveDataset(d) /\ datasets[d].slug = p.slug
    /\ AddSnapshot(w, d, s, p.minute, p.blob)
    /\ origin' = [origin EXCEPT ![s] = p]
    /\ UNCHANGED <<links, exchangeVars, clock>>

Ingest == \E w \in Workers, p \in Pushes, d \in Datasets, s \in Snapshots : IngestWebhook(w, p, d, s)

\* A row that was never inserted has no origin any more.
KeepOrigin == origin' = [s \in Snapshots |-> IF Unused(s)' THEN Nothing ELSE origin[s]]

IngestNext ==
    \/ ExchangeNext /\ KeepOrigin /\ UNCHANGED clock
    \/ Ingest
    \/ Tick

IngestSpec == IngestInit /\ [][IngestNext]_<<exchangeAll, ingestVars>>

(***************************************************************************)
(* Properties                                                              *)
(***************************************************************************)
IngestTypeOK ==
    /\ ExchangeTypeOK
    /\ clock \in Nat
    /\ origin \in [Snapshots -> Pushes \union {Nothing}]

\* "A replay must reuse its original - now stale - timestamp and is rejected by the
\* freshness window": no two issues come from one push.
PushAcceptedOnce ==
    \A s, t \in Snapshots :
       LiveIssue(s) /\ LiveIssue(t) /\ origin[s] = origin[t] /\ origin[s] # Nothing => s = t

=============================================================================
