--------------------------- MODULE DatasetReadApi ---------------------------
(***************************************************************************)
(* The read API on top of the archive.                                     *)
(*                                                                         *)
(* A user's request resolves the dataset, checks the entitlement, resolves *)
(* an issue, is metered if it is a data call, and only then has the bytes  *)
(* streamed.  Each of these is a step of its own: uploads, deletions and   *)
(* crashes of the archive happen in between.                               *)
(*                                                                         *)
(* Who is entitled is the subject of DatasetAccess: the check may come out *)
(* either way here.  Every issue of this module is in the local store.     *)
(***************************************************************************)
EXTENDS DatasetArchive

CONSTANTS
    Users,          \* a user has one request at a time
    Weight,         \* tokens per data call; 0: not metered
    Balances,       \* tokens a user may start with
    MaxReads        \* bound: read requests

ASSUME ReadConstantsAssumption ==
    /\ Weight \in Nat /\ Balances \subseteq Nat
    /\ MaxReads \in Nat

VARIABLES
    balance,  \* tokens of each user
    read,     \* the request of each user and, once it is answered, the answer
    reads     \* counter for MaxReads

archive  == vars
readVars == <<balance, read, reads>>
allVars  == <<archive, readVars>>

(***************************************************************************)
(* Requests                                                                *)
(***************************************************************************)
\* What is asked for: the metered data call and the dashboard download (of last,
\* or of the issue with a given taken_at), one version, one companion file, the
\* zip of an issue, or its first rows.
Kind   == {"data", "download", "version", "file", "archive", "preview"}
Status == {"none", "served", "forbidden", "not_found", "over_quota", "error", "broken"}

\* "broken": the answer was begun and the bytes did not come.  locs and sums are
\* those of the rows the answer is made of, before the balance at the beginning.
Read == [pc: {"idle", "entitle", "resolve", "meter", "stream", "answered"}, kind: Kind,
         dataset: Datasets \union {Nothing}, last: Snapshots \union {Nothing},
         minute: Minutes \union {Nothing}, snap: Snapshots \union {Nothing},
         file: Files \union {Nothing}, locs: SUBSET Locations, sums: SUBSET Content,
         status: Status, bytes: SUBSET Content, before: Nat]
IdleRead == [pc |-> "idle", kind |-> "data", dataset |-> Nothing, last |-> Nothing,
             minute |-> Nothing, snap |-> Nothing, file |-> Nothing, locs |-> {},
             sums |-> {}, status |-> "none", bytes |-> {}, before |-> 0]

ReadInit ==
    /\ Init
    /\ balance \in [Users -> Balances]
    /\ read = [u \in Users |-> IdleRead]
    /\ reads = 0

Answer(u, status) ==
    read' = [read EXCEPT ![u].pc = "answered", ![u].status = status]

Proceed(u, pc) == read' = [read EXCEPT ![u].pc = pc]

\* get_dataset_by_slug; an unknown slug is answered at once.  The row of the
\* dataset stays in the session as it was read.
Begin(u, kind, d, minute, s, f) ==
    /\ read[u].pc \in {"idle", "answered"}
    /\ reads < MaxReads
    /\ LiveDataset(d)
    /\ reads' = reads + 1
    /\ read' = [read EXCEPT ![u] = [IdleRead EXCEPT !.pc = "entitle", !.kind = kind,
                   !.dataset = d, !.last = datasets[d].last, !.minute = minute, !.snap = s,
                   !.file = f, !.before = balance[u]]]
    /\ UNCHANGED <<archive, balance>>

\* _user_is_entitled; nothing entitles to a dataset that is gone.
CheckEntitlement(u) ==
    /\ read[u].pc = "entitle"
    /\ \/ LiveDataset(read[u].dataset) /\ Proceed(u, "resolve")
       \/ Answer(u, "forbidden")
    /\ UNCHANGED <<archive, balance, reads>>

\* resolve_snapshot: the first issue with the taken_at, in an order the database
\* chooses among equals, or the issue "last" names, looked up by its id alone.
Pinned(r) == {s \in Snapshots : /\ LiveIssue(s)
                                /\ issues[s].dataset = r.dataset
                                /\ issues[s].loc[2] = r.minute}

Current(r) == {s \in {r.last} : LiveIssue(s)}

WrongOwnedById(r) == {s \in {r.snap} : LiveIssue(s)}

\* get_snapshot
Owned(r) == {s \in {r.snap} : LiveIssue(s) /\ issues[s].dataset = r.dataset}

\* get_file, for an issue that was resolved
Member(r, s) == {f \in {r.file} : LiveFile(f) /\ files[f].snap = s}

Candidates(r) ==
    IF r.kind \in {"version", "file", "archive"} THEN Owned(r)
    ELSE IF r.minute # Nothing THEN Pinned(r) ELSE Current(r)

\* The rows whose bytes make up the answer.  The zip looks for the members when
\* it is built, which is the next step.
RowsOf(r, s) == IF r.kind = "file" THEN {files[f] : f \in Member(r, s)} ELSE {issues[s]}

\* get_snapshot looks the dataset up once more and nobody catches its error.
Unresolvable(r) == r.kind \in {"version", "file", "archive"} /\ ~LiveDataset(r.dataset)

ResolveIssue(u) ==
    LET r == read[u] IN
    /\ r.pc = "resolve"
    /\ \/ Unresolvable(r) /\ Answer(u, "error")
       \/ /\ ~Unresolvable(r)
          /\ \A s \in Candidates(r) : RowsOf(r, s) = {}
          /\ Answer(u, "not_found")
       \/ \E s \in Candidates(r) :
             /\ RowsOf(r, s) # {}
             /\ read' = [read EXCEPT ![u] =
                            [r EXCEPT !.pc = IF r.kind = "data" THEN "meter" ELSE "stream",
                                      !.snap = s,
                                      !.locs = {row.loc : row \in RowsOf(r, s)},
                                      !.sums = {row.sum : row \in RowsOf(r, s)}]]
    /\ UNCHANGED <<archive, balance, reads>>

WrongMeterOnlyChecks(u) ==
    /\ read[u].pc = "meter"
    /\ IF balance[u] >= Weight THEN Proceed(u, "stream") ELSE Answer(u, "over_quota")
    /\ UNCHANGED <<archive, balance, reads>>

WrongMeterOverdraws(u) ==
    /\ read[u].pc = "meter"
    /\ balance' = [balance EXCEPT ![u] = @ - Weight]
    /\ IF balance[u] > 0 THEN Proceed(u, "stream") ELSE Answer(u, "over_quota")
    /\ UNCHANGED <<archive, reads>>

\* _meter_api_call, and the commit that ends the transaction of the request.
Meter(u) ==
    /\ read[u].pc = "meter"
    /\ IF balance[u] >= Weight
       THEN balance' = [balance EXCEPT ![u] = @ - Weight] /\ Proceed(u, "stream")
       ELSE Answer(u, "over_quota") /\ UNCHANGED balance
    /\ UNCHANGED <<archive, reads>>

BytesAt(locs) == {store[l] : l \in locs}

\* The bytes are sent while they are read: without them the answer breaks off.
\* A preview and a zip are read before the answer begins.
Serve(u, locs, sums) ==
    read' = [read EXCEPT ![u].pc = "answered", ![u].locs = locs, ![u].sums = sums,
                ![u].status = IF Nothing \notin BytesAt(locs) THEN "served"
                              ELSE IF read[u].kind \in {"preview", "archive"} THEN "error"
                              ELSE "broken",
                ![u].bytes = IF Nothing \notin BytesAt(locs) THEN BytesAt(locs) ELSE {}]

\* The commit of Meter has expired the issue: it is loaded again, and if its row
\* is gone by then the request fails.
StreamMetered(u) ==
    /\ read[u].pc = "stream"
    /\ read[u].kind = "data"
    /\ IF LiveIssue(read[u].snap) THEN Serve(u, read[u].locs, read[u].sums)
                                  ELSE Answer(u, "error")
    /\ UNCHANGED <<archive, balance, reads>>

\* _stream_snapshot and _stream_member work on the row as it was resolved.
StreamResolved(u) ==
    /\ read[u].pc = "stream"
    /\ read[u].kind \in {"download", "version", "file", "preview"}
    /\ Serve(u, read[u].locs, read[u].sums)
    /\ UNCHANGED <<archive, balance, reads>>

\* build_issue_archive: the primary file of the issue as it was resolved, and the
\* members it has now.
BuildArchive(u) ==
    LET members == {files[f] : f \in {x \in Files : LiveFile(x) /\ files[x].snap = read[u].snap}} IN
    /\ read[u].pc = "stream"
    /\ read[u].kind = "archive"
    /\ Serve(u, read[u].locs \union {row.loc : row \in members},
                read[u].sums \union {row.sum : row \in members})
    /\ UNCHANGED <<archive, balance, reads>>

(***************************************************************************)
(* Specification                                                           *)
(***************************************************************************)
ReadRequest(u) ==
    \E d \in Datasets :
       \/ \E kind \in {"data", "download", "preview"}, minute \in Minutes \union {Nothing} :
             Begin(u, kind, d, minute, Nothing, Nothing)
       \/ \E s \in Snapshots : \/ Begin(u, "version", d, Nothing, s, Nothing)
                               \/ Begin(u, "archive", d, Nothing, s, Nothing)
                               \/ \E f \in Files : Begin(u, "file", d, Nothing, s, f)

ReadStep(u) ==
    \/ CheckEntitlement(u) \/ ResolveIssue(u) \/ Meter(u)
    \/ StreamMetered(u) \/ StreamResolved(u) \/ BuildArchive(u)

ReadNext ==
    \/ Next /\ UNCHANGED readVars
    \/ \E u \in Users : ReadRequest(u) \/ ReadStep(u)

ReadSpec == ReadInit /\ [][ReadNext]_allVars

(***************************************************************************)
(* Properties                                                              *)
(***************************************************************************)
ReadTypeOK ==
    /\ TypeOK
    /\ balance \in [Users -> Nat]
    /\ read \in [Users -> Read]
    /\ \A u \in Users : read[u].pc # "idle" => read[u].dataset \in Datasets
    /\ reads \in Nat

Clean(locs) == locs \intersect reused = {}

\* A request is served the bytes its rows promise, of the dataset it asked for and
\* of no other, whatever was uploaded, renamed or deleted while it ran: only a
\* location that was written twice or deleted from can give it anything else.
ServedAsPromised ==
    \A u \in Users :
       read[u].status = "served" /\ Clean(read[u].locs) =>
          /\ read[u].bytes = read[u].sums
          /\ \A content \in read[u].bytes : content[1] = read[u].dataset

\* An answer breaks off, or fails after its rows were found, only because somebody
\* deleted the issue or its bytes, or wrote there again: no read can see a row
\* before its bytes.
FailureMeansDeletion ==
    \A u \in Users :
       read[u].status \in {"error", "broken"} /\ read[u].locs # {} =>
          \/ ~LiveIssue(read[u].snap)
          \/ ~Clean(read[u].locs)

\* Tokens and answers agree: a data call that was served, broke off or failed in the
\* stream has cost its weight once, and every other request nothing.
ChargedForBytesOnly ==
    \A u \in Users :
       LET r == read[u]
           metered == \/ r.pc = "stream"
                      \/ r.status \in {"served", "broken"}
                      \/ r.status = "error" /\ r.locs # {}
       IN  r.pc # "idle" =>
              balance[u] = IF r.kind = "data" /\ metered THEN r.before - Weight ELSE r.before

=============================================================================
