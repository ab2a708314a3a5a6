--------------------------- MODULE DatasetArchive ---------------------------
(***************************************************************************)
(* The archive of the dataset plugin: catalogue rows, their issues         *)
(* (DatasetSnapshot rows), the companion files of an issue, and the bytes  *)
(* in the file store.                                                      *)
(*                                                                         *)
(* A request runs in some worker and has up to three steps: it reads the   *)
(* rows it needs, it writes or deletes bytes in the store, and it commits  *)
(* one database transaction.  The store takes no part in the transaction:  *)
(* a refused commit or a crash leaves it as the request left it.  Events   *)
(* ("dataset.updated") change nothing here and are left out, and so are    *)
(* category and extension, two more parts of a location.                   *)
(***************************************************************************)
EXTENDS Integers

CONSTANTS
    Datasets, Snapshots, Files, \* row ids; an id is used once
    Workers,
    Slugs,
    Minutes,      \* taken_at tokens, in the order of their strings
    Names,        \* sanitized names of companion files
    Blobs,        \* what a client uploads
    Primary,      \* the name part of an issue's own data file
    Nothing,      \* NULL, or no bytes
    RowVersioned, \* TRUE iff core's BaseModel checks the version column
    MaxRequests,  \* bound: requests that are started
    MaxCrashes    \* bound: workers that die in mid-request

\* The bytes remember the dataset they were uploaded for.
Content   == Datasets \X Blobs
Locations == Slugs \X Minutes \X (Names \union {Primary})

ASSUME ConstantsAssumption ==
    /\ Minutes \subseteq Int
    /\ Primary \notin Names
    /\ Nothing \notin Datasets \union Snapshots \union Files \union Slugs
    /\ Nothing \notin Content \union Locations
    /\ RowVersioned \in BOOLEAN
    /\ MaxRequests \in Nat /\ MaxCrashes \in Nat

VARIABLES
    datasets, \* dataset rows
    issues,   \* dataset_snapshot rows
    files,    \* dataset_snapshot_file rows
    store,    \* the bytes at each location, or Nothing
    job,      \* the request each worker is serving
    requests, \* counter for MaxRequests
    crashes,  \* counter for MaxCrashes
    written,  \* history: locations that were ever written
    reused    \* history: locations written more than once, or deleted from

vars == <<datasets, issues, files, store, job, requests, crashes, written, reused>>

(***************************************************************************)
(* Rows and requests                                                       *)
(***************************************************************************)
Presence == {"new", "live", "gone"} \* not inserted yet, in the table, deleted

DatasetRow == [presence: Presence, slug: Slugs \union {Nothing},
               last: Snapshots \union {Nothing}, ver: Nat]
IssueRow   == [presence: Presence, dataset: Datasets \union {Nothing},
               loc: Locations \union {Nothing}, sum: Content \union {Nothing}]
FileRow    == [presence: Presence, snap: Snapshots \union {Nothing},
               loc: Locations \union {Nothing}, sum: Content \union {Nothing}]

\* What is known of a row that is not in its table.
NoDataset(presence) == [presence |-> presence, slug |-> Nothing, last |-> Nothing, ver |-> 0]
NoIssue(presence) == [presence |-> presence, dataset |-> Nothing, loc |-> Nothing, sum |-> Nothing]
NoFile(presence) == [presence |-> presence, snap |-> Nothing, loc |-> Nothing, sum |-> Nothing]

LiveDataset(d) == d \in Datasets /\ datasets[d].presence = "live"
LiveIssue(s)   == s \in Snapshots /\ issues[s].presence = "live"
LiveFile(f)    == f \in Files /\ files[f].presence = "live"

\* "bytes": next is the store; "commit": next is the database.  seen is the
\* dataset row as the request read it.
Op  == {"add", "set_last", "delete", "add_file", "delete_file"}
Job == [pc: {"idle", "bytes", "commit"}, op: Op, dataset: Datasets \union {Nothing},
        snap: Snapshots \union {Nothing}, file: Files \union {Nothing},
        loc: Locations \union {Nothing}, sum: Content \union {Nothing}, seen: DatasetRow]
IdleJob == [pc |-> "idle", op |-> "add", dataset |-> Nothing, snap |-> Nothing,
            file |-> Nothing, loc |-> Nothing, sum |-> Nothing, seen |-> NoDataset("new")]

Init ==
    /\ datasets = [d \in Datasets |-> NoDataset("new")]
    /\ issues = [s \in Snapshots |-> NoIssue("new")]
    /\ files = [f \in Files |-> NoFile("new")]
    /\ store = [l \in Locations |-> Nothing]
    /\ job = [w \in Workers |-> IdleJob]
    /\ requests = 0
    /\ crashes = 0
    /\ written = {}
    /\ reused = {}

(***************************************************************************)
(* The catalogue: requests that touch the database only                    *)
(***************************************************************************)
SlugTaken(slug) == \E d \in Datasets : LiveDataset(d) /\ datasets[d].slug = slug

CreateDataset(d, slug) ==
    /\ datasets[d].presence = "new"
    /\ ~SlugTaken(slug)
    /\ datasets' = [datasets EXCEPT ![d] = [presence |-> "live", slug |-> slug, last |-> Nothing,
                                            ver |-> IF RowVersioned THEN 1 ELSE 0]]
    /\ UNCHANGED <<issues, files, store, job, requests, crashes, written, reused>>

NextVersion(d) == IF RowVersioned THEN datasets[d].ver + 1 ELSE datasets[d].ver

\* The slug is a writable field; the locations of the issues stay as they are.
\* Updates of other fields keep the slug.
UpdateDataset(d, slug) ==
    /\ LiveDataset(d)
    /\ requests < MaxRequests
    /\ slug = datasets[d].slug \/ ~SlugTaken(slug)
    /\ requests' = requests + 1
    /\ datasets' = [datasets EXCEPT ![d].slug = slug, ![d].ver = NextVersion(d)]
    /\ UNCHANGED <<issues, files, store, job, crashes, written, reused>>

\* Issues and files cascade in the database; the bytes stay in the store.
DeleteDataset(d) ==
    /\ LiveDataset(d)
    /\ datasets' = [datasets EXCEPT ![d] = NoDataset("gone")]
    /\ issues' = [s \in Snapshots |->
                     IF issues[s].dataset = d THEN NoIssue("gone") ELSE issues[s]]
    /\ files' = [f \in Files |->
                    IF LiveFile(f) /\ issues[files[f].snap].dataset = d
                    THEN NoFile("gone") ELSE files[f]]
    /\ UNCHANGED <<store, job, requests, crashes, written, reused>>

(***************************************************************************)
(* Requests on issues and files: the reads                                 *)
(***************************************************************************)
Start(w, j) ==
    /\ job[w].pc = "idle"
    /\ requests < MaxRequests
    /\ requests' = requests + 1
    /\ job' = [job EXCEPT ![w] = j]
    /\ UNCHANGED <<datasets, issues, files, store, crashes, written, reused>>

\* An upload, or a signed push of the pipeline.  s is the id the row will get.
AddSnapshot(w, d, s, minute, blob) ==
    /\ LiveDataset(d)
    /\ issues[s].presence = "new"
    /\ \A x \in Workers : job[x].snap # s
    /\ Start(w, [IdleJob EXCEPT !.pc = "bytes", !.op = "add", !.dataset = d, !.snap = s,
                    !.loc = <<datasets[d].slug, minute, Primary>>,
                    !.sum = <<d, blob>>, !.seen = datasets[d]])

WrongSetLastOfAnother(w, d, s) ==
    /\ LiveDataset(d)
    /\ LiveIssue(s)
    /\ Start(w, [IdleJob EXCEPT !.pc = "commit", !.op = "set_last", !.dataset = d,
                    !.snap = s, !.seen = datasets[d]])

SetLastSnapshot(w, d, s) ==
    /\ LiveDataset(d)
    /\ LiveIssue(s) /\ issues[s].dataset = d
    /\ Start(w, [IdleJob EXCEPT !.pc = "commit", !.op = "set_last", !.dataset = d,
                    !.snap = s, !.seen = datasets[d]])

DeleteSnapshot(w, d, s) ==
    /\ LiveDataset(d)
    /\ LiveIssue(s) /\ issues[s].dataset = d
    /\ Start(w, [IdleJob EXCEPT !.pc = "bytes", !.op = "delete", !.dataset = d,
                    !.snap = s, !.loc = issues[s].loc, !.seen = datasets[d]])

\* The folder of the files is derived from the location of the issue, not from
\* the slug of the dataset.
MemberLocation(s, name) == <<issues[s].loc[1], issues[s].loc[2], name>>

WrongAddFileRowOnly(w, s, f, name, blob) ==
    /\ LiveIssue(s)
    /\ files[f].presence = "new"
    /\ \A x \in Workers : job[x].file # f
    /\ Start(w, [IdleJob EXCEPT !.pc = "commit", !.op = "add_file", !.dataset = issues[s].dataset,
                    !.snap = s, !.file = f, !.loc = MemberLocation(s, name),
                    !.sum = <<issues[s].dataset, blob>>])

\* A bad role, size or extension is rejected before anything changes.
AddFile(w, s, f, name, blob) ==
    /\ LiveIssue(s)
    /\ files[f].presence = "new"
    /\ \A x \in Workers : job[x].file # f
    /\ Start(w, [IdleJob EXCEPT !.pc = "bytes", !.op = "add_file", !.dataset = issues[s].dataset,
                    !.snap = s, !.file = f, !.loc = MemberLocation(s, name),
                    !.sum = <<issues[s].dataset, blob>>])

DeleteFile(w, f) ==
    /\ LiveFile(f)
    /\ Start(w, [IdleJob EXCEPT !.pc = "bytes", !.op = "delete_file", !.snap = files[f].snap,
                    !.dataset = issues[files[f].snap].dataset, !.file = f, !.loc = files[f].loc])

(***************************************************************************)
(* The store                                                               *)
(***************************************************************************)
PutBytes(w) ==
    LET l == job[w].loc IN
    /\ job[w].pc = "bytes"
    /\ job[w].op \in {"add", "add_file"}
    /\ store' = [store EXCEPT ![l] = job[w].sum]
    /\ written' = written \union {l}
    /\ reused' = IF l \in written THEN reused \union {l} ELSE reused
    /\ job' = [job EXCEPT ![w].pc = "commit"]
    /\ UNCHANGED <<datasets, issues, files, requests, crashes>>

\* Nothing to delete is not an error.
DropBytes(w) ==
    LET l == job[w].loc IN
    /\ job[w].pc = "bytes"
    /\ job[w].op \in {"delete", "delete_file"}
    /\ store' = [store EXCEPT ![l] = Nothing]
    /\ reused' = reused \union {l}
    /\ job' = [job EXCEPT ![w].pc = "commit"]
    /\ UNCHANGED <<datasets, issues, files, requests, crashes, written>>

(***************************************************************************)
(* The database transaction                                                *)
(***************************************************************************)
\* The UPDATE of the dataset row matches no row.
RowLost(j) == \/ ~LiveDataset(j.dataset)
              \/ RowVersioned /\ datasets[j.dataset].ver # j.seen.ver

WrongRefusedNoVersion(j) ==
    \/ j.op = "add" /\ ~LiveDataset(j.dataset)
    \/ j.op = "set_last" /\ j.seen.last # j.snap /\ ~LiveDataset(j.dataset)
    \/ j.op = "delete" /\ j.seen.last = j.snap /\ ~LiveDataset(j.dataset)
    \/ j.op = "add_file" /\ ~LiveIssue(j.snap)

\* set_last writes nothing if the row already names the issue; a DELETE of a row
\* that is gone is an error only for versioned rows.
Refused(j) ==
    \/ j.op = "add" /\ RowLost(j)
    \/ j.op = "set_last" /\ j.seen.last # j.snap /\ RowLost(j)
    \/ j.op = "delete" /\ \/ RowVersioned /\ ~LiveIssue(j.snap)
                          \/ j.seen.last = j.snap /\ RowLost(j)
    \/ j.op = "add_file" /\ ~LiveIssue(j.snap)
    \/ j.op = "delete_file" /\ RowVersioned /\ ~LiveFile(j.file)

PointedTo(d, s) == [datasets EXCEPT ![d].last = s, ![d].ver = NextVersion(d)]

Without(s) == [f \in Files |-> IF files[f].snap = s THEN NoFile("gone") ELSE files[f]]

Finish(w) ==
    /\ job[w].pc = "commit"
    /\ ~Refused(job[w])
    /\ job' = [job EXCEPT ![w] = IdleJob]
    /\ UNCHANGED <<store, requests, crashes, written, reused>>

CommitAdd(w) ==
    LET j == job[w] IN
    /\ j.op = "add"
    /\ Finish(w)
    /\ issues' = [issues EXCEPT ![j.snap] = [presence |-> "live", dataset |-> j.dataset,
                                              loc |-> j.loc, sum |-> j.sum]]
    /\ datasets' = PointedTo(j.dataset, j.snap)
    /\ UNCHANGED files

CommitSetLast(w) ==
    LET j == job[w] IN
    /\ j.op = "set_last"
    /\ Finish(w)
    /\ datasets' = IF j.seen.last = j.snap THEN datasets ELSE PointedTo(j.dataset, j.snap)
    /\ UNCHANGED <<issues, files>>

WrongDeleteKeepsLast(w) ==
    LET j == job[w] IN
    /\ j.op = "delete"
    /\ Finish(w)
    /\ issues' = [issues EXCEPT ![j.snap] = NoIssue("gone")]
    /\ files' = Without(j.snap)
    /\ UNCHANGED datasets

WrongDeleteKeepsFiles(w) ==
    LET j == job[w] IN
    /\ j.op = "delete"
    /\ Finish(w)
    /\ issues' = [issues EXCEPT ![j.snap] = NoIssue("gone")]
    /\ datasets' = IF j.seen.last = j.snap THEN PointedTo(j.dataset, Nothing) ELSE datasets
    /\ UNCHANGED files

\* The pointer is cleared if the row named the issue when it was read.
CommitDelete(w) ==
    LET j == job[w] IN
    /\ j.op = "delete"
    /\ Finish(w)
    /\ issues' = [issues EXCEPT ![j.snap] = NoIssue("gone")]
    /\ files' = Without(j.snap)
    /\ datasets' = IF j.seen.last = j.snap THEN PointedTo(j.dataset, Nothing) ELSE datasets

CommitAddFile(w) ==
    LET j == job[w] IN
    /\ j.op = "add_file"
    /\ Finish(w)
    /\ files' = [files EXCEPT ![j.file] = [presence |-> "live", snap |-> j.snap,
                                            loc |-> j.loc, sum |-> j.sum]]
    /\ UNCHANGED <<datasets, issues>>

CommitDeleteFile(w) ==
    LET j == job[w] IN
    /\ j.op = "delete_file"
    /\ Finish(w)
    /\ files' = [files EXCEPT ![j.file] = NoFile("gone")]
    /\ UNCHANGED <<datasets, issues>>

\* The transaction is rolled back; what was done to the store stays.
Fail(w) ==
    /\ job[w].pc = "commit"
    /\ Refused(job[w])
    /\ job' = [job EXCEPT ![w] = IdleJob]
    /\ UNCHANGED <<datasets, issues, files, store, requests, crashes, written, reused>>

Crash(w) ==
    /\ job[w].pc # "idle"
    /\ crashes < MaxCrashes
    /\ crashes' = crashes + 1
    /\ job' = [job EXCEPT ![w] = IdleJob]
    /\ UNCHANGED <<datasets, issues, files, store, requests, written, reused>>

(***************************************************************************)
(* Specification                                                           *)
(***************************************************************************)
Catalogue ==
    \E d \in Datasets :
       \/ DeleteDataset(d)
       \/ \E slug \in Slugs : CreateDataset(d, slug) \/ UpdateDataset(d, slug)

Request(w) ==
    \/ \E d \in Datasets, s \in Snapshots :
          \/ SetLastSnapshot(w, d, s)
          \/ DeleteSnapshot(w, d, s)
          \/ \E minute \in Minutes, blob \in Blobs : AddSnapshot(w, d, s, minute, blob)
    \/ \E f \in Files :
          \/ DeleteFile(w, f)
          \/ \E s \in Snapshots, name \in Names, blob \in Blobs : AddFile(w, s, f, name, blob)

Commit(w) == CommitAdd(w) \/ CommitSetLast(w) \/ CommitDelete(w)
                \/ CommitAddFile(w) \/ CommitDeleteFile(w)

Next ==
    \/ Catalogue
    \/ \E w \in Workers :
          Request(w) \/ PutBytes(w) \/ DropBytes(w) \/ Commit(w) \/ Fail(w) \/ Crash(w)

Spec == Init /\ [][Next]_vars

(***************************************************************************)
(* Properties                                                              *)
(***************************************************************************)
\* Every variable has its type, and the foreign keys hold: a live issue has a
\* live dataset and a live file a live issue, and both have a location.
TypeOK ==
    /\ datasets \in [Datasets -> DatasetRow]
    /\ \A d \in Datasets : LiveDataset(d) => datasets[d].slug # Nothing
    /\ issues \in [Snapshots -> IssueRow]
    /\ \A s \in Snapshots : LiveIssue(s) => /\ LiveDataset(issues[s].dataset)
                                            /\ issues[s].loc # Nothing
                                            /\ issues[s].sum # Nothing
    /\ files \in [Files -> FileRow]
    /\ \A f \in Files : LiveFile(f) => /\ LiveIssue(files[f].snap)
                                       /\ files[f].loc # Nothing
                                       /\ files[f].sum # Nothing
    /\ store \in [Locations -> Content \union {Nothing}]
    /\ job \in [Workers -> Job]
    /\ requests \in Nat /\ crashes \in Nat
    /\ written \subseteq Locations
    /\ reused \subseteq Locations

\* An issue or a companion file whose location was never written twice and never
\* deleted from has exactly the bytes its checksum was computed of: the bytes are
\* in the store before the row is committed, and no crash, refused commit or
\* other worker takes them away.
BytesIntact ==
    /\ \A s \in Snapshots :
          LiveIssue(s) /\ issues[s].loc \notin reused => store[issues[s].loc] = issues[s].sum
    /\ \A f \in Files :
          LiveFile(f) /\ files[f].loc \notin reused => store[files[f].loc] = files[f].sum

\* "last" never leads into another dataset: while the issue it names is there,
\* the issue belongs to the dataset that names it.
LastIsOwn ==
    \A d \in Datasets :
       LiveDataset(d) /\ LiveIssue(datasets[d].last) => issues[datasets[d].last].dataset = d

\* With versioned rows, deleting an issue clears "last" only if "last" names that
\* very issue at that moment: a pointer that moved on in the meantime stays.
DeleteClearsOwnLast ==
    [][\A w \in Workers, d \in Datasets :
          CommitDelete(w) /\ datasets[d].last # job[w].snap
             => datasets'[d].last = datasets[d].last]_vars

\* With one worker at a time the archive is the series IssueSeries promises.
Series == INSTANCE IssueSeries WITH
    series <- [d \in Datasets |-> {s \in Snapshots : LiveIssue(s) /\ issues[s].dataset = d}],
    last   <- [d \in Datasets |-> datasets[d].last]

ImplementsSeries == Series!Spec

\* Deleting a snapshot clears "last" if it pointed there: a pointer always names
\* an issue that exists.
LastResolves ==
    \A d \in Datasets : datasets[d].last # Nothing => LiveIssue(datasets[d].last)

\* A download never serves another dataset's bytes.
ServesOwnBytes ==
    \A s \in Snapshots :
       LiveIssue(s) /\ store[issues[s].loc] # Nothing => store[issues[s].loc][1] = issues[s].dataset

=============================================================================
