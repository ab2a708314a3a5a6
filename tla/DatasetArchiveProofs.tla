------------------------ MODULE DatasetArchiveProofs ------------------------
(***************************************************************************)
(* Theorems about DatasetArchive for every number of datasets, issues,     *)
(* files and workers, with and without row versions.                       *)
(***************************************************************************)
EXTENDS DatasetArchive, TLAPS

(***************************************************************************)
(* What a request knows when it starts                                     *)
(***************************************************************************)

\* A job that is under way names the rows and the location it works on.
JobComplete(j) ==
    j.pc # "idle" =>
       /\ j.dataset \in Datasets
       /\ j.snap \in Snapshots
       /\ j.op \in {"add_file", "delete_file"} => j.file \in Files
       /\ j.op # "set_last" => j.loc \in Locations
       /\ j.op \in {"add", "add_file"} => j.sum \in Content

\* The new job of a request, in the state the request has read.
Requested(j) ==
    /\ j \in Job
    /\ JobComplete(j)
    /\ j.pc # "idle"
    /\ j.pc = "bytes" \/ j.op = "set_last"
    /\ j.op = "add" => /\ issues[j.snap].presence = "new"
                       /\ \A x \in Workers : job[x].snap # j.snap
    /\ j.op \in {"set_last", "delete"} => /\ LiveIssue(j.snap)
                                          /\ issues[j.snap].dataset = j.dataset
    /\ j.op \in {"add", "set_last", "delete"} => /\ LiveDataset(j.dataset)
                                                 /\ j.seen = datasets[j.dataset]

LEMMA IdleJobType == IdleJob \in Job
BY ConstantsAssumption DEF IdleJob, Job, Op, NoDataset, DatasetRow, Presence

\* Every request is one Start step with a job that is complete.
LEMMA RequestStarts ==
    ASSUME TypeOK, NEW w \in Workers, Request(w)
    PROVE  \E j : Start(w, j) /\ Requested(j)
<1>1. ASSUME NEW d \in Datasets, NEW s \in Snapshots, SetLastSnapshot(w, d, s)
      PROVE  \E j : Start(w, j) /\ Requested(j)
  <2> DEFINE j == [IdleJob EXCEPT !.pc = "commit", !.op = "set_last", !.dataset = d,
                      !.snap = s, !.seen = datasets[d]]
  <2>1. Start(w, j)
    BY <1>1 DEF SetLastSnapshot
  <2>2. Requested(j)
    BY <1>1, IdleJobType DEF SetLastSnapshot, Requested, JobComplete, Job, IdleJob, Op, TypeOK
  <2>3. QED BY <2>1, <2>2
<1>2. ASSUME NEW d \in Datasets, NEW s \in Snapshots, DeleteSnapshot(w, d, s)
      PROVE  \E j : Start(w, j) /\ Requested(j)
  <2> DEFINE j == [IdleJob EXCEPT !.pc = "bytes", !.op = "delete", !.dataset = d,
                      !.snap = s, !.loc = issues[s].loc, !.seen = datasets[d]]
  <2>1. Start(w, j)
    BY <1>2 DEF DeleteSnapshot
  <2>2. issues[s].loc \in Locations
    BY <1>2 DEF DeleteSnapshot, TypeOK, IssueRow
  <2>3. Requested(j)
    BY <1>2, <2>2, IdleJobType
       DEF DeleteSnapshot, Requested, JobComplete, Job, IdleJob, Op, TypeOK
  <2>4. QED BY <2>1, <2>3
<1>3. ASSUME NEW d \in Datasets, NEW s \in Snapshots, NEW minute \in Minutes,
             NEW blob \in Blobs, AddSnapshot(w, d, s, minute, blob)
      PROVE  \E j : Start(w, j) /\ Requested(j)
  <2> DEFINE j == [IdleJob EXCEPT !.pc = "bytes", !.op = "add", !.dataset = d, !.snap = s,
                      !.loc = <<datasets[d].slug, minute, Primary>>,
                      !.sum = <<d, blob>>, !.seen = datasets[d]]
  <2>1. Start(w, j)
    BY <1>3 DEF AddSnapshot
  <2>2. <<datasets[d].slug, minute, Primary>> \in Locations /\ <<d, blob>> \in Content
    BY <1>3 DEF AddSnapshot, TypeOK, DatasetRow, Locations, Content
  <2>3. Requested(j)
    BY <1>3, <2>2, IdleJobType
       DEF AddSnapshot, Requested, JobComplete, Job, IdleJob, Op, TypeOK
  <2>4. QED BY <2>1, <2>3
<1>4. ASSUME NEW f \in Files, DeleteFile(w, f)
      PROVE  \E j : Start(w, j) /\ Requested(j)
  <2> DEFINE j == [IdleJob EXCEPT !.pc = "bytes", !.op = "delete_file", !.snap = files[f].snap,
                      !.dataset = issues[files[f].snap].dataset, !.file = f,
                      !.loc = files[f].loc]
  <2>1. Start(w, j)
    BY <1>4 DEF DeleteFile
  <2>2. /\ files[f].snap \in Snapshots
        /\ issues[files[f].snap].dataset \in Datasets
        /\ files[f].loc \in Locations
    BY <1>4 DEF DeleteFile, TypeOK, FileRow, LiveIssue, LiveDataset
  <2>3. Requested(j)
    BY <2>2, IdleJobType DEF Requested, JobComplete, Job, IdleJob, Op
  <2>4. QED BY <2>1, <2>3
<1>5. ASSUME NEW f \in Files, NEW s \in Snapshots, NEW name \in Names,
             NEW blob \in Blobs, AddFile(w, s, f, name, blob)
      PROVE  \E j : Start(w, j) /\ Requested(j)
  <2> DEFINE j == [IdleJob EXCEPT !.pc = "bytes", !.op = "add_file",
                      !.dataset = issues[s].dataset, !.snap = s, !.file = f,
                      !.loc = MemberLocation(s, name), !.sum = <<issues[s].dataset, blob>>]
  <2>1. Start(w, j)
    BY <1>5 DEF AddFile
  <2>2. issues[s].dataset \in Datasets /\ issues[s].loc \in Locations
    BY <1>5 DEF AddFile, TypeOK, IssueRow, LiveDataset
  <2>3. MemberLocation(s, name) \in Locations /\ <<issues[s].dataset, blob>> \in Content
    BY <2>2 DEF MemberLocation, Locations, Content
  <2>4. Requested(j)
    BY <2>2, <2>3, IdleJobType DEF Requested, JobComplete, Job, IdleJob, Op
  <2>5. QED BY <2>1, <2>4
<1>6. QED
  BY <1>1, <1>2, <1>3, <1>4, <1>5 DEF Request

(***************************************************************************)
(* Types and foreign keys                                                  *)
(***************************************************************************)

\* TypeOK is inductive once the jobs under way are complete.
TypeInv == TypeOK /\ \A w \in Workers : JobComplete(job[w])

LEMMA TypeInit == Init => TypeInv
<1> SUFFICES ASSUME Init PROVE TypeInv
  OBVIOUS
<1>1. /\ datasets \in [Datasets -> DatasetRow]
      /\ \A d \in Datasets : ~LiveDataset(d)
  BY DEF Init, NoDataset, DatasetRow, Presence, LiveDataset
<1>2. /\ issues \in [Snapshots -> IssueRow]
      /\ \A s \in Snapshots : ~LiveIssue(s)
  BY DEF Init, NoIssue, IssueRow, Presence, LiveIssue
<1>3. /\ files \in [Files -> FileRow]
      /\ \A f \in Files : ~LiveFile(f)
  BY DEF Init, NoFile, FileRow, Presence, LiveFile
<1>4. /\ job \in [Workers -> Job]
      /\ \A w \in Workers : JobComplete(job[w])
  BY IdleJobType DEF Init, IdleJob, JobComplete
<1>5. QED
  BY <1>1, <1>2, <1>3, <1>4 DEF Init, TypeInv, TypeOK

\* The steps that leave the rows alone.
LEMMA TypeOfWork ==
    ASSUME TypeInv, UNCHANGED <<datasets, issues, files>>,
           store' \in [Locations -> Content \union {Nothing}],
           job' \in [Workers -> Job], \A w \in Workers : JobComplete(job'[w]),
           requests' \in Nat, crashes' \in Nat,
           written' \subseteq Locations, reused' \subseteq Locations
    PROVE  TypeInv'
BY DEF TypeInv, TypeOK, LiveDataset, LiveIssue, LiveFile, JobComplete

\* A job that ends leaves the worker idle.
LEMMA TypeOfEnd ==
    ASSUME TypeInv, NEW w \in Workers, job' = [job EXCEPT ![w] = IdleJob]
    PROVE  job' \in [Workers -> Job] /\ \A x \in Workers : JobComplete(job'[x])
BY IdleJobType DEF TypeInv, TypeOK, JobComplete, IdleJob

\* Whatever a commit does to the pointer, the row keeps its slug and presence.
LEMMA PointedToType ==
    ASSUME TypeOK, NEW d \in Datasets, NEW s \in Snapshots \union {Nothing},
           datasets' = PointedTo(d, s)
    PROVE  /\ datasets' \in [Datasets -> DatasetRow]
           /\ \A x \in Datasets : /\ datasets'[x].presence = datasets[x].presence
                                  /\ datasets'[x].slug = datasets[x].slug
           /\ \A x \in Datasets : datasets'[x].last = IF x = d THEN s ELSE datasets[x].last
           /\ \A x \in Datasets :
                 datasets'[x].ver = IF x = d THEN NextVersion(d) ELSE datasets[x].ver
<1>1. NextVersion(d) \in Nat
  BY DEF NextVersion, TypeOK, DatasetRow
<1>2. QED
  BY <1>1 DEF PointedTo, TypeOK, DatasetRow

LEMMA TypeOfCatalogue == ASSUME TypeInv, Catalogue PROVE TypeInv'
<1>1. ASSUME NEW d \in Datasets, DeleteDataset(d)
      PROVE  TypeInv'
  <2>1. /\ datasets' \in [Datasets -> DatasetRow]
        /\ \A x : LiveDataset(x)' <=> LiveDataset(x) /\ x # d
        /\ \A x \in Datasets : LiveDataset(x)' => datasets'[x].slug = datasets[x].slug
    BY <1>1 DEF DeleteDataset, NoDataset, DatasetRow, Presence, TypeInv, TypeOK, LiveDataset
  <2>2. /\ issues' \in [Snapshots -> IssueRow]
        /\ \A s : LiveIssue(s)' => LiveIssue(s) /\ issues'[s] = issues[s] /\ issues[s].dataset # d
        /\ \A s : LiveIssue(s) /\ issues[s].dataset # d => LiveIssue(s)'
    BY <1>1 DEF DeleteDataset, NoIssue, IssueRow, Presence, TypeInv, TypeOK, LiveIssue
  <2>3. /\ files' \in [Files -> FileRow]
        /\ \A f : LiveFile(f)' => /\ LiveFile(f) /\ files'[f] = files[f]
                                  /\ issues[files[f].snap].dataset # d
    BY <1>1 DEF DeleteDataset, NoFile, FileRow, Presence, TypeInv, TypeOK, LiveFile
  <2>4. QED
    BY <1>1, <2>1, <2>2, <2>3 DEF DeleteDataset, TypeInv, TypeOK, JobComplete
<1>2. ASSUME NEW d \in Datasets, NEW slug \in Slugs, CreateDataset(d, slug)
      PROVE  TypeInv'
  <2>1. (IF RowVersioned THEN 1 ELSE 0) \in Nat /\ slug # Nothing
    BY ConstantsAssumption
  <2>2. /\ datasets' \in [Datasets -> DatasetRow]
        /\ \A x \in Datasets : \/ datasets'[x] = datasets[x]
                               \/ /\ datasets'[x].presence = "live"
                                  /\ datasets'[x].slug = slug
    BY <1>2, <2>1 DEF CreateDataset, DatasetRow, Presence, TypeInv, TypeOK
  <2>3. /\ \A x \in Datasets : LiveDataset(x)' => datasets'[x].slug # Nothing
        /\ \A x : LiveDataset(x) => LiveDataset(x)'
    BY <2>1, <2>2 DEF TypeInv, TypeOK, LiveDataset
  <2>4. QED
    BY <1>2, <2>2, <2>3 DEF CreateDataset, TypeInv, TypeOK, LiveIssue, LiveFile, JobComplete
<1>3. ASSUME NEW d \in Datasets, NEW slug \in Slugs, UpdateDataset(d, slug)
      PROVE  TypeInv'
  <2>1. NextVersion(d) \in Nat /\ slug # Nothing
    BY ConstantsAssumption DEF NextVersion, DatasetRow, TypeInv, TypeOK
  <2>2. /\ datasets' \in [Datasets -> DatasetRow]
        /\ \A x \in Datasets : \/ datasets'[x] = datasets[x]
                               \/ /\ datasets'[x].presence = datasets[x].presence
                                  /\ datasets'[x].slug = slug
    BY <1>3, <2>1 DEF UpdateDataset, DatasetRow, Presence, TypeInv, TypeOK
  <2>3. /\ \A x \in Datasets : LiveDataset(x)' => datasets'[x].slug # Nothing
        /\ \A x : LiveDataset(x) => LiveDataset(x)'
    BY <2>1, <2>2 DEF TypeInv, TypeOK, LiveDataset
  <2>4. QED
    BY <1>3, <2>2, <2>3 DEF UpdateDataset, TypeInv, TypeOK, LiveIssue, LiveFile, JobComplete
<1>4. QED
  BY <1>1, <1>2, <1>3 DEF Catalogue

LEMMA TypeOfCommit == ASSUME TypeInv, NEW w \in Workers, Commit(w) PROVE TypeInv'
<1> DEFINE j == job[w]
<1>1. /\ j \in Job /\ JobComplete(j)
      /\ j.pc = "commit" /\ ~Refused(j)
      /\ job' = [job EXCEPT ![w] = IdleJob]
      /\ UNCHANGED <<store, requests, crashes, written, reused>>
  BY DEF Commit, CommitAdd, CommitSetLast, CommitDelete, CommitAddFile, CommitDeleteFile,
         Finish, TypeInv, TypeOK
<1>2. job' \in [Workers -> Job] /\ \A x \in Workers : JobComplete(job'[x])
  BY <1>1, TypeOfEnd
<1>3. /\ j.dataset \in Datasets /\ j.snap \in Snapshots
      /\ j.op \in {"add_file", "delete_file"} => j.file \in Files
      /\ j.op \in {"add", "add_file"} => /\ j.loc \in Locations /\ j.loc # Nothing
                                         /\ j.sum \in Content /\ j.sum # Nothing
  BY <1>1, ConstantsAssumption DEF JobComplete
<1>4. CASE CommitAdd(w)
  <2>1. /\ datasets' = PointedTo(j.dataset, j.snap)
        /\ issues' = [issues EXCEPT ![j.snap] = [presence |-> "live", dataset |-> j.dataset,
                                                  loc |-> j.loc, sum |-> j.sum]]
        /\ files' = files /\ j.op = "add" /\ LiveDataset(j.dataset)
    BY <1>1, <1>4 DEF CommitAdd, Refused, RowLost
  <2>2. /\ datasets' \in [Datasets -> DatasetRow]
        /\ \A x \in Datasets : (LiveDataset(x)' <=> LiveDataset(x))
                               /\ datasets'[x].slug = datasets[x].slug
    BY <1>3, <2>1, PointedToType DEF LiveDataset, TypeInv
  <2>3. /\ issues' \in [Snapshots -> IssueRow]
        /\ \A s \in Snapshots : LiveIssue(s) => LiveIssue(s)'
        /\ \A s \in Snapshots : LiveIssue(s)' =>
              \/ LiveIssue(s) /\ issues'[s] = issues[s]
              \/ /\ issues'[s].dataset = j.dataset
                 /\ issues'[s].loc = j.loc /\ issues'[s].sum = j.sum
    BY <1>3, <2>1 DEF LiveIssue, IssueRow, Presence, TypeInv, TypeOK
  <2>4. QED
    BY <1>1, <1>2, <1>3, <2>1, <2>2, <2>3 DEF TypeInv, TypeOK, LiveDataset, LiveIssue, LiveFile
<1>5. CASE CommitSetLast(w)
  <2>1. /\ datasets' = datasets \/ datasets' = PointedTo(j.dataset, j.snap)
        /\ issues' = issues /\ files' = files
    BY <1>5 DEF CommitSetLast
  <2>2. /\ datasets' \in [Datasets -> DatasetRow]
        /\ \A x \in Datasets : (LiveDataset(x)' <=> LiveDataset(x))
                               /\ datasets'[x].slug = datasets[x].slug
    BY <1>3, <2>1, PointedToType DEF LiveDataset, TypeInv, TypeOK
  <2>3. QED
    BY <1>1, <1>2, <2>1, <2>2 DEF TypeInv, TypeOK, LiveDataset, LiveIssue, LiveFile
<1>6. CASE CommitDelete(w)
  <2>1. /\ datasets' = datasets \/ datasets' = PointedTo(j.dataset, Nothing)
        /\ issues' = [issues EXCEPT ![j.snap] = NoIssue("gone")]
        /\ files' = Without(j.snap)
    BY <1>6 DEF CommitDelete
  <2>2. /\ datasets' \in [Datasets -> DatasetRow]
        /\ \A x \in Datasets : (LiveDataset(x)' <=> LiveDataset(x))
                               /\ datasets'[x].slug = datasets[x].slug
    BY <1>3, <2>1, PointedToType DEF LiveDataset, TypeInv, TypeOK
  <2>3. /\ issues' \in [Snapshots -> IssueRow]
        /\ \A s : LiveIssue(s)' <=> LiveIssue(s) /\ s # j.snap
        /\ \A s : LiveIssue(s)' => issues'[s] = issues[s]
    BY <1>3, <2>1 DEF NoIssue, LiveIssue, IssueRow, Presence, TypeInv, TypeOK
  <2>4. /\ files' \in [Files -> FileRow]
        /\ \A f : LiveFile(f)' => LiveFile(f) /\ files'[f] = files[f] /\ files[f].snap # j.snap
    BY <2>1 DEF Without, NoFile, LiveFile, FileRow, Presence, TypeInv, TypeOK
  <2>5. QED
    BY <1>1, <1>2, <2>2, <2>3, <2>4 DEF TypeInv, TypeOK, LiveDataset
<1>7. CASE CommitAddFile(w)
  <2>1. /\ files' = [files EXCEPT ![j.file] = [presence |-> "live", snap |-> j.snap,
                                                loc |-> j.loc, sum |-> j.sum]]
        /\ datasets' = datasets /\ issues' = issues
        /\ j.op = "add_file" /\ LiveIssue(j.snap)
    BY <1>1, <1>7 DEF CommitAddFile, Refused
  <2>2. /\ files' \in [Files -> FileRow]
        /\ \A f \in Files : LiveFile(f)' =>
              \/ LiveFile(f) /\ files'[f] = files[f]
              \/ /\ files'[f].snap = j.snap
                 /\ files'[f].loc = j.loc /\ files'[f].sum = j.sum
    BY <1>3, <2>1 DEF LiveFile, FileRow, Presence, TypeInv, TypeOK
  <2>3. QED
    BY <1>1, <1>2, <1>3, <2>1, <2>2 DEF TypeInv, TypeOK, LiveDataset, LiveIssue, LiveFile
<1>8. CASE CommitDeleteFile(w)
  <2>1. /\ files' = [files EXCEPT ![j.file] = NoFile("gone")]
        /\ datasets' = datasets /\ issues' = issues
    BY <1>8 DEF CommitDeleteFile
  <2>2. /\ files' \in [Files -> FileRow]
        /\ \A f \in Files : LiveFile(f)' => LiveFile(f) /\ files'[f] = files[f]
    BY <1>3, <2>1 DEF NoFile, LiveFile, FileRow, Presence, TypeInv, TypeOK
  <2>3. QED
    BY <1>1, <1>2, <2>1, <2>2 DEF TypeInv, TypeOK, LiveDataset, LiveIssue, LiveFile
<1>9. QED
  BY <1>4, <1>5, <1>6, <1>7, <1>8 DEF Commit

LEMMA TypeStep == TypeInv /\ [Next]_vars => TypeInv'
<1> SUFFICES ASSUME TypeInv, [Next]_vars PROVE TypeInv'
  OBVIOUS
<1>1. CASE Catalogue
  BY <1>1, TypeOfCatalogue
<1>2. ASSUME NEW w \in Workers, Request(w)
      PROVE  TypeInv'
  <2>1. PICK j : Start(w, j) /\ Requested(j)
    BY <1>2, RequestStarts DEF TypeInv
  <2>2. job' \in [Workers -> Job] /\ \A x \in Workers : JobComplete(job'[x])
    BY <2>1 DEF Start, Requested, TypeInv, TypeOK
  <2>3. QED
    BY <2>1, <2>2, TypeOfWork DEF Start, TypeInv, TypeOK
<1>3. ASSUME NEW w \in Workers, PutBytes(w) \/ DropBytes(w)
      PROVE  TypeInv'
  <2>1. /\ job[w] \in Job /\ JobComplete(job[w]) /\ job[w].pc = "bytes"
        /\ job[w].op # "set_last"
        /\ job' = [job EXCEPT ![w].pc = "commit"]
    BY <1>3 DEF PutBytes, DropBytes, TypeInv, TypeOK
  <2>2. job' \in [Workers -> Job] /\ \A x \in Workers : JobComplete(job'[x])
    BY <2>1 DEF TypeInv, TypeOK, JobComplete, Job
  <2>3. job[w].loc \in Locations
    BY <2>1 DEF JobComplete
  <2>4. store' \in [Locations -> Content \union {Nothing}]
    BY <1>3, <2>1, <2>3 DEF PutBytes, DropBytes, TypeInv, TypeOK, Job
  <2>5. written' \subseteq Locations /\ reused' \subseteq Locations
    BY <1>3, <2>3 DEF PutBytes, DropBytes, TypeInv, TypeOK
  <2>6. QED
    BY <1>3, <2>2, <2>4, <2>5, TypeOfWork DEF PutBytes, DropBytes, TypeInv, TypeOK
<1>4. ASSUME NEW w \in Workers, Commit(w)
      PROVE  TypeInv'
  BY <1>4, TypeOfCommit
<1>5. ASSUME NEW w \in Workers, Fail(w) \/ Crash(w)
      PROVE  TypeInv'
  <2>1. job' \in [Workers -> Job] /\ \A x \in Workers : JobComplete(job'[x])
    BY <1>5, TypeOfEnd DEF Fail, Crash
  <2>2. QED
    BY <1>5, <2>1, TypeOfWork DEF Fail, Crash, TypeInv, TypeOK
<1>6. CASE UNCHANGED vars
  BY <1>6, TypeOfWork DEF vars, TypeInv, TypeOK
<1>7. QED
  BY <1>1, <1>2, <1>3, <1>4, <1>5, <1>6 DEF Next

\* The rows keep their types and the foreign keys hold, whatever the workers do.
THEOREM TypeCorrect == Spec => []TypeOK
<1>1. TypeInv => TypeOK
  BY DEF TypeInv
<1>2. QED
  BY <1>1, TypeInit, TypeStep, PTL DEF Spec

(***************************************************************************)
(* The bytes and their checksums                                           *)
(***************************************************************************)

\* The bytes at l are those of the checksum c, unless l was used again.
Stored(l, c) == l \in written /\ (l \notin reused => store[l] = c)

\* A worker that is about to commit the row of an upload.
Uploaded(j) == j.pc = "commit" /\ j.op \in {"add", "add_file"}

\* BytesIntact is not inductive: the bytes are there before the row is, and a
\* location that is still unknown to all rows and jobs may be written freely.
BytesInv ==
    /\ TypeInv
    /\ \A s \in Snapshots : LiveIssue(s) => Stored(issues[s].loc, issues[s].sum)
    /\ \A f \in Files : LiveFile(f) => Stored(files[f].loc, files[f].sum)
    /\ \A w \in Workers : Uploaded(job[w]) => Stored(job[w].loc, job[w].sum)

\* Nothing happens to the bytes of the rows and jobs that are left alone.
LEMMA BytesKept ==
    ASSUME BytesInv, TypeInv', UNCHANGED <<store, written, reused>>,
           \A s \in Snapshots : LiveIssue(s)' =>
              \/ LiveIssue(s) /\ issues'[s] = issues[s]
              \/ Stored(issues'[s].loc, issues'[s].sum),
           \A f \in Files : LiveFile(f)' =>
              \/ LiveFile(f) /\ files'[f] = files[f]
              \/ Stored(files'[f].loc, files'[f].sum),
           \A w \in Workers : Uploaded(job'[w]) => job'[w] = job[w]
    PROVE  BytesInv'
BY DEF BytesInv, Stored

LEMMA BytesStep == BytesInv /\ [Next]_vars => BytesInv'
<1> SUFFICES ASSUME BytesInv, [Next]_vars PROVE BytesInv'
  OBVIOUS
<1>0. TypeInv /\ TypeInv'
  BY TypeStep DEF BytesInv
<1>1. CASE Catalogue
  <2>1. /\ \A s : LiveIssue(s)' => LiveIssue(s) /\ issues'[s] = issues[s]
        /\ \A f : LiveFile(f)' => LiveFile(f) /\ files'[f] = files[f]
    <3>1. ASSUME NEW d \in Datasets, DeleteDataset(d)
          PROVE  /\ \A s : LiveIssue(s)' => LiveIssue(s) /\ issues'[s] = issues[s]
                 /\ \A f : LiveFile(f)' => LiveFile(f) /\ files'[f] = files[f]
      BY <3>1 DEF DeleteDataset, LiveIssue, LiveFile, NoIssue, NoFile
    <3>2. QED
      BY <1>1, <3>1 DEF Catalogue, CreateDataset, UpdateDataset, LiveIssue, LiveFile
  <2>2. UNCHANGED <<store, written, reused, job>>
    BY <1>1 DEF Catalogue, CreateDataset, UpdateDataset, DeleteDataset
  <2>3. QED
    BY <1>0, <2>1, <2>2, BytesKept
<1>2. ASSUME NEW w \in Workers, Request(w)
      PROVE  BytesInv'
  <2>1. PICK j : Start(w, j) /\ Requested(j)
    BY <1>2, <1>0, RequestStarts DEF TypeInv
  <2>2. ~Uploaded(j)
    BY <2>1 DEF Requested, Uploaded
  <2>3. \A x \in Workers : Uploaded(job'[x]) => job'[x] = job[x]
    BY <1>0, <2>1, <2>2 DEF Start, TypeInv, TypeOK
  <2>4. QED
    BY <1>0, <2>1, <2>3, BytesKept DEF Start, LiveIssue, LiveFile
<1>3. ASSUME NEW w \in Workers, PutBytes(w)
      PROVE  BytesInv'
  <2> DEFINE l == job[w].loc
  <2>1. /\ job[w] \in Job /\ l \in Locations
        /\ store' = [store EXCEPT ![l] = job[w].sum]
        /\ written' = written \union {l}
        /\ reused' = IF l \in written THEN reused \union {l} ELSE reused
        /\ job' = [job EXCEPT ![w].pc = "commit"]
        /\ UNCHANGED <<datasets, issues, files>>
    BY <1>0, <1>3 DEF PutBytes, TypeInv, TypeOK, JobComplete
  <2>2. \A k, c : Stored(k, c) => k \in written' /\ (k \notin reused' => store'[k] = c)
    BY <1>0, <2>1 DEF Stored, TypeInv, TypeOK
  <2>3. Stored(job[w].loc, job[w].sum)'
    <3>1. job'[w].loc = l /\ job'[w].sum = job[w].sum
      BY <1>0, <2>1 DEF TypeInv, TypeOK, Job
    <3>2. l \in written' /\ (l \notin reused' => store'[l] = job[w].sum)
      BY <1>0, <2>1 DEF TypeInv, TypeOK
    <3>3. QED
      BY <3>1, <3>2 DEF Stored
  <2>4. \A x \in Workers : x # w => job'[x] = job[x]
    BY <1>0, <2>1 DEF TypeInv, TypeOK
  <2>5. QED
    BY <1>0, <2>1, <2>2, <2>3, <2>4 DEF BytesInv, Stored, LiveIssue, LiveFile, Uploaded
<1>4. ASSUME NEW w \in Workers, DropBytes(w)
      PROVE  BytesInv'
  <2> DEFINE l == job[w].loc
  <2>1. /\ job[w] \in Job /\ job[w].op \notin {"add", "add_file"}
        /\ store' = [store EXCEPT ![l] = Nothing]
        /\ reused' = reused \union {l} /\ written' = written
        /\ job' = [job EXCEPT ![w].pc = "commit"]
        /\ UNCHANGED <<datasets, issues, files>>
    BY <1>0, <1>4 DEF DropBytes, TypeInv, TypeOK
  <2>2. \A k, c : Stored(k, c) => k \in written' /\ (k \notin reused' => store'[k] = c)
    BY <1>0, <2>1 DEF Stored, TypeInv, TypeOK
  <2>3. \A x \in Workers : Uploaded(job'[x]) => job'[x] = job[x]
    BY <1>0, <2>1 DEF TypeInv, TypeOK, Job, Uploaded
  <2>4. QED
    BY <1>0, <2>1, <2>2, <2>3 DEF BytesInv, Stored, LiveIssue, LiveFile
<1>5. ASSUME NEW w \in Workers, Commit(w)
      PROVE  BytesInv'
  <2> DEFINE j == job[w]
  <2>1. /\ j.pc = "commit"
        /\ job' = [job EXCEPT ![w] = IdleJob]
        /\ UNCHANGED <<store, written, reused>>
    BY <1>5 DEF Commit, CommitAdd, CommitSetLast, CommitDelete, CommitAddFile,
                CommitDeleteFile, Finish
  <2>2. \A x \in Workers : Uploaded(job'[x]) => job'[x] = job[x]
    BY <1>0, <2>1 DEF TypeInv, TypeOK, IdleJob, Uploaded
  <2>3. \A s \in Snapshots : LiveIssue(s)' =>
           \/ LiveIssue(s) /\ issues'[s] = issues[s]
           \/ Stored(issues'[s].loc, issues'[s].sum)
    <3>1. CASE CommitAdd(w)
      <4>1. Stored(j.loc, j.sum)
        BY <2>1, <3>1 DEF CommitAdd, BytesInv, Uploaded
      <4>2. \A s \in Snapshots : \/ issues'[s] = issues[s]
                                 \/ issues'[s].loc = j.loc /\ issues'[s].sum = j.sum
        BY <1>0, <3>1 DEF CommitAdd, TypeInv, TypeOK
      <4>3. QED BY <4>1, <4>2 DEF LiveIssue
    <3>2. CASE CommitDelete(w)
      BY <1>0, <3>2 DEF CommitDelete, LiveIssue, NoIssue, TypeInv, TypeOK
    <3>3. QED
      BY <1>5, <3>1, <3>2 DEF Commit, CommitSetLast, CommitAddFile, CommitDeleteFile, LiveIssue
  <2>4. \A f \in Files : LiveFile(f)' =>
           \/ LiveFile(f) /\ files'[f] = files[f]
           \/ Stored(files'[f].loc, files'[f].sum)
    <3>1. CASE CommitAddFile(w)
      <4>1. Stored(j.loc, j.sum)
        BY <2>1, <3>1 DEF CommitAddFile, BytesInv, Uploaded
      <4>2. \A f \in Files : \/ files'[f] = files[f]
                             \/ files'[f].loc = j.loc /\ files'[f].sum = j.sum
        BY <1>0, <3>1 DEF CommitAddFile, TypeInv, TypeOK
      <4>3. QED BY <4>1, <4>2 DEF LiveFile
    <3>2. CASE CommitDelete(w)
      BY <3>2 DEF CommitDelete, Without, LiveFile, NoFile
    <3>3. CASE CommitDeleteFile(w)
      BY <1>0, <3>3 DEF CommitDeleteFile, LiveFile, NoFile, TypeInv, TypeOK
    <3>4. QED
      BY <1>5, <3>1, <3>2, <3>3 DEF Commit, CommitAdd, CommitSetLast, LiveFile
  <2>5. QED
    BY <1>0, <2>1, <2>2, <2>3, <2>4, BytesKept
<1>6. ASSUME NEW w \in Workers, Fail(w) \/ Crash(w)
      PROVE  BytesInv'
  <2>1. /\ job' = [job EXCEPT ![w] = IdleJob]
        /\ UNCHANGED <<issues, files, store, written, reused>>
    BY <1>6 DEF Fail, Crash
  <2>2. \A x \in Workers : Uploaded(job'[x]) => job'[x] = job[x]
    BY <1>0, <2>1 DEF TypeInv, TypeOK, IdleJob, Uploaded
  <2>3. QED
    BY <1>0, <2>1, <2>2, BytesKept DEF LiveIssue, LiveFile
<1>7. CASE UNCHANGED vars
  BY <1>0, <1>7, BytesKept DEF vars, LiveIssue, LiveFile
<1>8. QED
  BY <1>1, <1>2, <1>3, <1>4, <1>5, <1>6, <1>7 DEF Next

\* The row of an upload, once committed, describes bytes that are in the store
\* and stay there, for any number of workers, crashes and refused commits, as
\* long as its location is not used a second time.
THEOREM UploadsIntact == Spec => []BytesIntact
<1>1. Init => BytesInv
  <2> SUFFICES ASSUME Init PROVE BytesInv
    OBVIOUS
  <2>1. TypeInv
    BY TypeInit
  <2>2. QED
    BY <2>1 DEF Init, BytesInv, NoIssue, NoFile, IdleJob, LiveIssue, LiveFile, Uploaded
<1>2. BytesInv => BytesIntact
  BY DEF BytesInv, BytesIntact, Stored
<1>3. QED
  BY <1>1, <1>2, BytesStep, PTL DEF Spec

(***************************************************************************)
(* The pointer                                                             *)
(***************************************************************************)

Adding(j)   == j.pc # "idle" /\ j.op = "add"
Pointing(j) == j.pc # "idle" /\ j.op \in {"set_last", "delete"}

\* An id is used once: what "last" or a job refers to is never inserted again,
\* and no two uploads insert the same row.
OwnInv ==
    /\ TypeInv
    /\ LastIsOwn
    /\ \A s \in Snapshots : issues[s].presence = "new" => issues[s].dataset = Nothing
    /\ \A d \in Datasets :
          datasets[d].last # Nothing => issues[datasets[d].last].presence # "new"
    /\ \A w \in Workers : Adding(job[w]) => issues[job[w].snap].presence = "new"
    /\ \A w, x \in Workers :
          Adding(job[w]) /\ Adding(job[x]) /\ w # x => job[w].snap # job[x].snap
    /\ \A w \in Workers : Pointing(job[w]) =>
          /\ issues[job[w].snap].presence # "new"
          /\ LiveIssue(job[w].snap) => issues[job[w].snap].dataset = job[w].dataset

\* Deleting rows, clearing pointers and finishing jobs does no harm.
LEMMA OwnKept ==
    ASSUME OwnInv, TypeInv',
           \A s \in Snapshots :
              \/ issues'[s] = issues[s]
              \/ issues'[s].presence = "gone" /\ issues[s].presence # "new",
           \A d \in Datasets :
              \/ datasets'[d].last = Nothing
              \/ datasets'[d].last = datasets[d].last /\ (LiveDataset(d)' => LiveDataset(d)),
           \A w \in Workers :
              \/ job'[w].pc = "idle"
              \/ /\ job[w].pc # "idle" /\ job'[w].op = job[w].op
                 /\ job'[w].snap = job[w].snap /\ job'[w].dataset = job[w].dataset
    PROVE  OwnInv'
<1>1. TypeOK /\ \A d \in Datasets : datasets[d].last \in Snapshots \union {Nothing}
  BY DEF OwnInv, TypeInv, TypeOK, DatasetRow
<1>2. \A w \in Workers : job[w].pc # "idle" => job[w].snap \in Snapshots
  BY DEF OwnInv, TypeInv, JobComplete
<1>3. LastIsOwn'
  BY <1>1, ConstantsAssumption DEF OwnInv, LastIsOwn, LiveIssue
<1>4. \A s \in Snapshots : issues'[s].presence = "new" => issues'[s].dataset = Nothing
  BY DEF OwnInv
<1>5. \A d \in Datasets :
         datasets'[d].last # Nothing => issues'[datasets'[d].last].presence # "new"
  BY <1>1 DEF OwnInv
<1>6. \A w \in Workers : Adding(job'[w]) => issues'[job'[w].snap].presence = "new"
  BY <1>2 DEF OwnInv, Adding
<1>7. \A w, x \in Workers :
         Adding(job'[w]) /\ Adding(job'[x]) /\ w # x => job'[w].snap # job'[x].snap
  BY DEF OwnInv, Adding
<1>8. \A w \in Workers : Pointing(job'[w]) =>
         /\ issues'[job'[w].snap].presence # "new"
         /\ LiveIssue(job[w].snap)' => issues'[job'[w].snap].dataset = job'[w].dataset
  BY <1>2 DEF OwnInv, Pointing, LiveIssue
<1>9. QED
  BY <1>3, <1>4, <1>5, <1>6, <1>7, <1>8 DEF OwnInv, LiveIssue, Adding, Pointing

LEMMA OwnStep == OwnInv /\ [Next]_vars => OwnInv'
<1> SUFFICES ASSUME OwnInv, [Next]_vars PROVE OwnInv'
  OBVIOUS
<1>0. TypeInv /\ TypeInv' /\ TypeOK
  BY TypeStep DEF OwnInv, TypeInv
<1>1. CASE Catalogue
  <2>1. UNCHANGED job
    BY <1>1 DEF Catalogue, CreateDataset, UpdateDataset, DeleteDataset
  <2>2. \A s \in Snapshots :
           \/ issues'[s] = issues[s]
           \/ issues'[s].presence = "gone" /\ issues[s].presence # "new"
    <3>1. ASSUME NEW d \in Datasets, DeleteDataset(d)
          PROVE  \A s \in Snapshots :
                    \/ issues'[s] = issues[s]
                    \/ issues'[s].presence = "gone" /\ issues[s].presence # "new"
      <4>1. d # Nothing
        BY ConstantsAssumption
      <4>2. QED
        BY <3>1, <4>1 DEF DeleteDataset, NoIssue, OwnInv
    <3>2. QED
      BY <1>1, <3>1 DEF Catalogue, CreateDataset, UpdateDataset
  <2>3. \A d \in Datasets :
           \/ datasets'[d].last = Nothing
           \/ datasets'[d].last = datasets[d].last /\ (LiveDataset(d)' => LiveDataset(d))
    <3>1. ASSUME NEW d \in Datasets, NEW slug \in Slugs, UpdateDataset(d, slug)
          PROVE  \A x \in Datasets :
                    \/ datasets'[x].last = Nothing
                    \/ /\ datasets'[x].last = datasets[x].last
                       /\ LiveDataset(x)' => LiveDataset(x)
      BY <1>0, <3>1 DEF UpdateDataset, LiveDataset, TypeOK, DatasetRow
    <3>2. ASSUME NEW d \in Datasets, NEW slug \in Slugs, CreateDataset(d, slug)
          PROVE  \A x \in Datasets :
                    \/ datasets'[x].last = Nothing
                    \/ /\ datasets'[x].last = datasets[x].last
                       /\ LiveDataset(x)' => LiveDataset(x)
      BY <1>0, <3>2 DEF CreateDataset, LiveDataset, TypeOK, DatasetRow
    <3>3. ASSUME NEW d \in Datasets, DeleteDataset(d)
          PROVE  \A x \in Datasets :
                    \/ datasets'[x].last = Nothing
                    \/ /\ datasets'[x].last = datasets[x].last
                       /\ LiveDataset(x)' => LiveDataset(x)
      BY <1>0, <3>3 DEF DeleteDataset, NoDataset, LiveDataset, TypeOK, DatasetRow
    <3>4. QED
      BY <1>1, <3>1, <3>2, <3>3 DEF Catalogue
  <2>4. QED
    BY <1>0, <2>1, <2>2, <2>3, OwnKept
<1>2. ASSUME NEW w \in Workers, Request(w)
      PROVE  OwnInv'
  <2>1. PICK j : Start(w, j) /\ Requested(j)
    BY <1>0, <1>2, RequestStarts
  <2>2. /\ UNCHANGED <<datasets, issues>>
        /\ job'[w] = j
        /\ \A x \in Workers : x # w => job'[x] = job[x]
    BY <1>0, <2>1 DEF Start, TypeOK
  <2>3. \A x \in Workers : Adding(job'[x]) => issues'[job'[x].snap].presence = "new"
    BY <2>1, <2>2 DEF Requested, Adding, OwnInv
  <2>4. \A x, y \in Workers :
           Adding(job'[x]) /\ Adding(job'[y]) /\ x # y => job'[x].snap # job'[y].snap
    BY <2>1, <2>2 DEF Requested, Adding, OwnInv
  <2>5. \A x \in Workers : Pointing(job'[x]) =>
           /\ issues'[job'[x].snap].presence # "new"
           /\ LiveIssue(job[x].snap)' => issues'[job'[x].snap].dataset = job'[x].dataset
    BY <2>1, <2>2 DEF Requested, Pointing, OwnInv, LiveIssue
  <2>6. QED
    BY <1>0, <2>2, <2>3, <2>4, <2>5
       DEF OwnInv, LastIsOwn, LiveDataset, LiveIssue, Adding, Pointing
<1>3. ASSUME NEW w \in Workers, PutBytes(w) \/ DropBytes(w)
      PROVE  OwnInv'
  <2>1. /\ job' = [job EXCEPT ![w].pc = "commit"] /\ job[w].pc = "bytes"
        /\ UNCHANGED <<datasets, issues>>
    BY <1>3 DEF PutBytes, DropBytes
  <2>2. \A x \in Workers : /\ job[x].pc = "idle" => job'[x].pc = "idle"
                           /\ job'[x].op = job[x].op /\ job'[x].snap = job[x].snap
                           /\ job'[x].dataset = job[x].dataset
    BY <1>0, <2>1 DEF TypeOK, Job
  <2>3. QED
    BY <1>0, <2>1, <2>2, OwnKept DEF LiveDataset
<1>4. ASSUME NEW w \in Workers, Commit(w)
      PROVE  OwnInv'
  <2> DEFINE j == job[w]
  <2>1. /\ j.pc = "commit" /\ ~Refused(j) /\ j.dataset \in Datasets /\ j.snap \in Snapshots
        /\ job' = [job EXCEPT ![w] = IdleJob]
    BY <1>0, <1>4 DEF Commit, CommitAdd, CommitSetLast, CommitDelete, CommitAddFile,
                      CommitDeleteFile, Finish, TypeInv, JobComplete
  <2>2. \A x \in Workers : job'[x].pc = "idle" \/ (x # w /\ job'[x] = job[x])
    BY <1>0, <2>1 DEF TypeOK, IdleJob
  <2>3. CASE CommitAdd(w)
    <3>1. /\ j.op = "add" /\ LiveDataset(j.dataset)
          /\ datasets' = PointedTo(j.dataset, j.snap)
          /\ issues' = [issues EXCEPT ![j.snap] = [presence |-> "live", dataset |-> j.dataset,
                                                    loc |-> j.loc, sum |-> j.sum]]
      BY <2>1, <2>3 DEF CommitAdd, Refused, RowLost
    <3>2. Adding(j) /\ issues[j.snap].presence = "new"
      BY <2>1, <3>1 DEF Adding, OwnInv
    <3>3. \A d \in Datasets :
             /\ datasets'[d].presence = datasets[d].presence
             /\ datasets'[d].last = IF d = j.dataset THEN j.snap ELSE datasets[d].last
      BY <1>0, <2>1, <3>1, PointedToType
    <3>4. /\ issues'[j.snap].presence = "live" /\ issues'[j.snap].dataset = j.dataset
          /\ \A s \in Snapshots : s # j.snap => issues'[s] = issues[s]
      BY <1>0, <2>1, <3>1 DEF TypeOK
    <3>5. \A d \in Datasets : datasets[d].last \in Snapshots \union {Nothing}
      BY <1>0 DEF TypeOK, DatasetRow
    <3>6. \A d \in Datasets : datasets[d].last # j.snap
      BY <2>1, <3>2, ConstantsAssumption DEF OwnInv
    <3>7. \A x \in Workers : job[x].pc # "idle" => job[x].snap \in Snapshots
      BY <1>0 DEF TypeInv, JobComplete
    <3>8. LastIsOwn'
      BY <3>3, <3>4, <3>5, <3>6 DEF OwnInv, LastIsOwn, LiveDataset, LiveIssue
    <3>9. \A s \in Snapshots : issues'[s].presence = "new" => issues'[s].dataset = Nothing
      BY <3>4 DEF OwnInv
    <3>10. \A d \in Datasets :
              datasets'[d].last # Nothing => issues'[datasets'[d].last].presence # "new"
      BY <3>3, <3>4, <3>5, <3>6 DEF OwnInv
    <3>11. \A x \in Workers : Adding(job'[x]) => issues'[job'[x].snap].presence = "new"
      BY <2>2, <3>2, <3>4, <3>7 DEF OwnInv, Adding
    <3>12. \A x, y \in Workers :
              Adding(job'[x]) /\ Adding(job'[y]) /\ x # y => job'[x].snap # job'[y].snap
      BY <2>2 DEF OwnInv, Adding
    <3>13. \A x \in Workers : Pointing(job'[x]) =>
              /\ issues'[job'[x].snap].presence # "new"
              /\ LiveIssue(job[x].snap)' => issues'[job'[x].snap].dataset = job'[x].dataset
      BY <2>2, <3>2, <3>4, <3>7 DEF OwnInv, Pointing, LiveIssue
    <3>14. QED
      BY <1>0, <3>8, <3>9, <3>10, <3>11, <3>12, <3>13 DEF OwnInv, LiveIssue, Adding, Pointing
  <2>4. CASE CommitSetLast(w)
    <3>1. CASE datasets' = datasets
      BY <1>0, <2>2, <2>4, <3>1, OwnKept DEF CommitSetLast, LiveDataset
    <3>2. CASE datasets' = PointedTo(j.dataset, j.snap)
      <4>1. \A d \in Datasets :
               /\ datasets'[d].presence = datasets[d].presence
               /\ datasets'[d].last = IF d = j.dataset THEN j.snap ELSE datasets[d].last
        BY <1>0, <2>1, <3>2, PointedToType
      <4>2. issues' = issues /\ Pointing(j)
        BY <2>1, <2>4 DEF CommitSetLast, Pointing
      <4>3. LastIsOwn'
        BY <4>1, <4>2 DEF OwnInv, LastIsOwn, LiveDataset, LiveIssue
      <4>4. \A d \in Datasets :
               datasets'[d].last # Nothing => issues'[datasets'[d].last].presence # "new"
        BY <4>1, <4>2 DEF OwnInv
      <4>5. QED
        BY <1>0, <2>2, <4>2, <4>3, <4>4 DEF OwnInv, LiveIssue, Adding, Pointing
    <3>3. QED
      BY <2>4, <3>1, <3>2 DEF CommitSetLast
  <2>5. CASE CommitDelete(w)
    <3>1. /\ issues' = [issues EXCEPT ![j.snap] = NoIssue("gone")]
          /\ datasets' = datasets \/ datasets' = PointedTo(j.dataset, Nothing)
          /\ Pointing(j)
      BY <2>1, <2>5 DEF CommitDelete, Pointing
    <3>2. \A d \in Datasets : /\ datasets'[d].last \in {datasets[d].last, Nothing}
                              /\ LiveDataset(d)' <=> LiveDataset(d)
      BY <1>0, <2>1, <3>1, PointedToType DEF LiveDataset
    <3>3. \A s \in Snapshots :
             \/ issues'[s] = issues[s]
             \/ issues'[s].presence = "gone" /\ issues[s].presence # "new"
      BY <1>0, <3>1 DEF OwnInv, TypeOK, NoIssue
    <3>4. QED
      BY <1>0, <2>2, <3>2, <3>3, OwnKept
  <2>6. CASE CommitAddFile(w) \/ CommitDeleteFile(w)
    BY <1>0, <2>2, <2>6, OwnKept DEF CommitAddFile, CommitDeleteFile, LiveDataset
  <2>7. QED
    BY <1>4, <2>3, <2>4, <2>5, <2>6 DEF Commit
<1>5. ASSUME NEW w \in Workers, Fail(w) \/ Crash(w)
      PROVE  OwnInv'
  <2>1. /\ job' = [job EXCEPT ![w] = IdleJob]
        /\ UNCHANGED <<datasets, issues>>
    BY <1>5 DEF Fail, Crash
  <2>2. \A x \in Workers : job'[x].pc = "idle" \/ job'[x] = job[x]
    BY <1>0, <2>1 DEF TypeOK, IdleJob
  <2>3. QED
    BY <1>0, <2>1, <2>2, OwnKept DEF LiveDataset
<1>6. CASE UNCHANGED vars
  BY <1>0, <1>6, OwnKept DEF vars, LiveDataset
<1>7. QED
  BY <1>1, <1>2, <1>3, <1>4, <1>5, <1>6 DEF Next

LEMMA OwnInit == Init => OwnInv
<1> SUFFICES ASSUME Init PROVE OwnInv
  OBVIOUS
<1>1. TypeInv
  BY TypeInit
<1>2. QED
  BY <1>1 DEF Init, OwnInv, LastIsOwn, LiveDataset, NoDataset, NoIssue, IdleJob, Adding, Pointing

\* No interleaving makes a dataset serve another dataset's issue as its last.
THEOREM LastStaysOwn == Spec => []LastIsOwn
<1>1. OwnInv => LastIsOwn
  BY DEF OwnInv
<1>2. QED
  BY <1>1, OwnInit, OwnStep, PTL DEF Spec

(***************************************************************************)
(* Stale reads and row versions                                            *)
(***************************************************************************)

Deleting(j) == j.pc # "idle" /\ j.op = "delete"

\* A version that is still current vouches for the pointer that was read with it.
SeenInv ==
    /\ TypeInv
    /\ \A w \in Workers : Deleting(job[w]) =>
          /\ datasets[job[w].dataset].presence # "new"
          /\ LiveDataset(job[w].dataset) =>
                /\ job[w].seen.ver <= datasets[job[w].dataset].ver
                /\ job[w].seen.ver = datasets[job[w].dataset].ver
                      => job[w].seen.last = datasets[job[w].dataset].last

\* A dataset row is inserted once, and every UPDATE of it counts its version up.
LEMMA VersionsGrow ==
    ASSUME RowVersioned = TRUE, TypeInv, [Next]_vars, NEW d \in Datasets,
           datasets[d].presence # "new"
    PROVE  /\ datasets'[d].presence # "new"
           /\ LiveDataset(d)' => /\ LiveDataset(d)
                                 /\ \/ /\ datasets'[d].ver = datasets[d].ver
                                       /\ datasets'[d].last = datasets[d].last
                                    \/ datasets'[d].ver = datasets[d].ver + 1
<1> DEFINE Goal == /\ datasets'[d].presence # "new"
                   /\ LiveDataset(d)' => /\ LiveDataset(d)
                                         /\ \/ /\ datasets'[d].ver = datasets[d].ver
                                               /\ datasets'[d].last = datasets[d].last
                                            \/ datasets'[d].ver = datasets[d].ver + 1
<1>0. TypeOK
  BY DEF TypeInv
<1>1. ASSUME UNCHANGED datasets
      PROVE  Goal
  BY <1>1 DEF LiveDataset
<1>2. ASSUME NEW x \in Datasets, DeleteDataset(x)
      PROVE  Goal
  BY <1>0, <1>2 DEF DeleteDataset, NoDataset, LiveDataset, TypeOK
<1>3. ASSUME NEW x \in Datasets, NEW slug \in Slugs, CreateDataset(x, slug)
      PROVE  Goal
  BY <1>0, <1>3 DEF CreateDataset, LiveDataset, TypeOK
<1>4. ASSUME NEW x \in Datasets, NEW slug \in Slugs, UpdateDataset(x, slug)
      PROVE  Goal
  BY <1>0, <1>4 DEF UpdateDataset, NextVersion, LiveDataset, TypeOK, DatasetRow
<1>5. ASSUME NEW x \in Datasets, NEW s \in Snapshots \union {Nothing},
             datasets' = PointedTo(x, s)
      PROVE  Goal
  BY <1>0, <1>5, PointedToType DEF NextVersion, LiveDataset
<1>6. ASSUME NEW w \in Workers, Commit(w)
      PROVE  Goal
  <2>1. job[w].dataset \in Datasets /\ job[w].snap \in Snapshots
    BY <1>6 DEF Commit, CommitAdd, CommitSetLast, CommitDelete, CommitAddFile,
                CommitDeleteFile, Finish, TypeInv, JobComplete
  <2>2. \/ UNCHANGED datasets
        \/ datasets' = PointedTo(job[w].dataset, job[w].snap)
        \/ datasets' = PointedTo(job[w].dataset, Nothing)
    BY <1>6 DEF Commit, CommitAdd, CommitSetLast, CommitDelete, CommitAddFile, CommitDeleteFile
  <2>3. QED
    BY <1>1, <1>5, <2>1, <2>2
<1>7. ASSUME NEW w \in Workers,
             Request(w) \/ PutBytes(w) \/ DropBytes(w) \/ Fail(w) \/ Crash(w)
      PROVE  Goal
  <2>1. Request(w) => UNCHANGED datasets
    BY <1>0, RequestStarts DEF Start
  <2>2. QED
    BY <1>1, <1>7, <2>1 DEF PutBytes, DropBytes, Fail, Crash
<1>8. UNCHANGED vars => Goal
  BY <1>1 DEF vars
<1>9. QED
  BY <1>2, <1>3, <1>4, <1>6, <1>7, <1>8 DEF Next, Catalogue

\* A job that deletes an issue has read its dataset in this step or before it.
LEMMA DeletingJobs ==
    ASSUME TypeInv, [Next]_vars, NEW x \in Workers, Deleting(job'[x])
    PROVE  \/ /\ Deleting(job[x])
              /\ job'[x].dataset = job[x].dataset /\ job'[x].seen = job[x].seen
           \/ /\ UNCHANGED datasets
              /\ LiveDataset(job'[x].dataset)
              /\ job'[x].seen = datasets[job'[x].dataset]
<1> DEFINE Goal == \/ /\ Deleting(job[x])
                      /\ job'[x].dataset = job[x].dataset /\ job'[x].seen = job[x].seen
                   \/ /\ UNCHANGED datasets
                      /\ LiveDataset(job'[x].dataset)
                      /\ job'[x].seen = datasets[job'[x].dataset]
<1>0. TypeOK
  BY DEF TypeInv
<1>1. Catalogue \/ UNCHANGED vars => Goal
  BY DEF Catalogue, CreateDataset, UpdateDataset, DeleteDataset, vars
<1>2. ASSUME NEW w \in Workers, Request(w)
      PROVE  Goal
  <2>1. PICK j : Start(w, j) /\ Requested(j)
    BY <1>0, <1>2, RequestStarts
  <2>2. QED
    BY <1>0, <2>1 DEF Start, Requested, Deleting, TypeOK
<1>3. ASSUME NEW w \in Workers, PutBytes(w) \/ DropBytes(w)
      PROVE  Goal
  BY <1>0, <1>3 DEF PutBytes, DropBytes, Deleting, TypeOK, Job
<1>4. ASSUME NEW w \in Workers, Commit(w) \/ Fail(w) \/ Crash(w)
      PROVE  Goal
  <2>1. job' = [job EXCEPT ![w] = IdleJob]
    BY <1>4 DEF Commit, CommitAdd, CommitSetLast, CommitDelete, CommitAddFile,
                CommitDeleteFile, Finish, Fail, Crash
  <2>2. QED
    BY <1>0, <2>1 DEF Deleting, IdleJob, TypeOK
<1>5. QED
  BY <1>1, <1>2, <1>3, <1>4 DEF Next

LEMMA SeenStep == RowVersioned = TRUE /\ SeenInv /\ [Next]_vars => SeenInv'
<1> SUFFICES ASSUME RowVersioned = TRUE, SeenInv, [Next]_vars PROVE SeenInv'
  OBVIOUS
<1>1. TypeInv /\ TypeInv'
  BY TypeStep DEF SeenInv
<1>2. ASSUME NEW x \in Workers, Deleting(job'[x])
      PROVE  LET j == job'[x] IN
             /\ datasets'[j.dataset].presence # "new"
             /\ LiveDataset(job[x].dataset)' =>
                   /\ j.seen.ver <= datasets'[j.dataset].ver
                   /\ j.seen.ver = datasets'[j.dataset].ver
                         => j.seen.last = datasets'[j.dataset].last
  <2> DEFINE d == job'[x].dataset
  <2>1. d \in Datasets
    BY <1>1, <1>2 DEF TypeInv, JobComplete, Deleting
  <2>2. /\ datasets[d] \in DatasetRow /\ datasets'[d] \in DatasetRow
        /\ job'[x].seen \in DatasetRow
    BY <1>1, <2>1 DEF TypeInv, TypeOK, Job
  <2>3. CASE /\ Deleting(job[x])
             /\ d = job[x].dataset /\ job'[x].seen = job[x].seen
    <3>1. /\ datasets[d].presence # "new"
          /\ LiveDataset(d) => /\ job'[x].seen.ver <= datasets[d].ver
                               /\ job'[x].seen.ver = datasets[d].ver
                                     => job'[x].seen.last = datasets[d].last
      BY <2>3 DEF SeenInv
    <3>2. /\ datasets'[d].presence # "new"
          /\ LiveDataset(job[x].dataset)' =>
                /\ LiveDataset(d)
                /\ \/ /\ datasets'[d].ver = datasets[d].ver
                      /\ datasets'[d].last = datasets[d].last
                   \/ datasets'[d].ver = datasets[d].ver + 1
      BY <1>1, <2>1, <2>3, <3>1, VersionsGrow DEF LiveDataset
    <3>3. QED
      BY <2>2, <3>1, <3>2 DEF DatasetRow
  <2>4. CASE /\ UNCHANGED datasets
             /\ LiveDataset(d) /\ job'[x].seen = datasets[d]
    BY <2>2, <2>4 DEF LiveDataset, DatasetRow
  <2>5. QED
    BY <1>1, <1>2, <2>3, <2>4, DeletingJobs
<1>3. QED
  BY <1>1, <1>2 DEF SeenInv, Deleting, LiveDataset

\* With versioned rows a delete clears the pointer only if it names the issue
\* that is deleted, for any number of workers.
THEOREM VersionedDelete ==
    ASSUME RowVersioned = TRUE
    PROVE  Spec => DeleteClearsOwnLast
<1>1. Init => SeenInv
  <2> SUFFICES ASSUME Init PROVE SeenInv
    OBVIOUS
  <2>1. TypeInv
    BY TypeInit
  <2>2. QED
    BY <2>1 DEF Init, SeenInv, Deleting, IdleJob
<1>2. SeenInv /\ [Next]_vars => SeenInv'
  BY SeenStep
<1>3. ASSUME SeenInv, NEW w \in Workers, NEW d \in Datasets, CommitDelete(w),
             datasets[d].last # job[w].snap
      PROVE  datasets'[d].last = datasets[d].last
  <2> DEFINE j == job[w]
  <2>1. TypeOK /\ JobComplete(j) /\ Deleting(j) /\ ~Refused(j)
        /\ j.op = "delete" /\ j.dataset \in Datasets
    BY <1>3 DEF CommitDelete, Finish, SeenInv, TypeInv, Deleting, JobComplete
  <2>2. CASE j.seen.last = j.snap
    <3>1. LiveDataset(j.dataset) /\ datasets[j.dataset].ver = j.seen.ver
      BY <2>1, <2>2 DEF Refused, RowLost
    <3>2. datasets[j.dataset].last = j.snap
      BY <1>3, <2>1, <2>2, <3>1 DEF SeenInv
    <3>3. datasets' = PointedTo(j.dataset, Nothing)
      BY <1>3, <2>2 DEF CommitDelete
    <3>4. datasets'[d].last = IF d = j.dataset THEN Nothing ELSE datasets[d].last
      BY <2>1, <3>3, PointedToType
    <3>5. QED
      BY <1>3, <3>2, <3>4
  <2>3. CASE j.seen.last # j.snap
    BY <1>3, <2>3 DEF CommitDelete
  <2>4. QED
    BY <2>2, <2>3
<1>4. SeenInv /\ [Next]_vars =>
         [\A w \in Workers, d \in Datasets :
             CommitDelete(w) /\ datasets[d].last # job[w].snap
                => datasets'[d].last = datasets[d].last]_vars
  BY <1>3
<1>5. QED
  BY <1>1, <1>2, <1>4, PTL DEF Spec, DeleteClearsOwnLast

(***************************************************************************)
(* One worker: the archive implements IssueSeries                          *)
(***************************************************************************)

\* With one worker only the catalogue moves between a read and its commit: what
\* a job has read of its dataset is still true, or the dataset is gone.
SoloInv ==
    /\ OwnInv
    /\ \A d \in Datasets : datasets[d].presence = "new" => datasets[d].last = Nothing
    /\ \A w \in Workers : Pointing(job[w]) =>
          /\ datasets[job[w].dataset].presence # "new"
          /\ LiveDataset(job[w].dataset) =>
                /\ LiveIssue(job[w].snap)
                /\ job[w].seen.last = datasets[job[w].dataset].last

LEMMA SoloInit == Init => SoloInv
<1> SUFFICES ASSUME Init PROVE SoloInv
  OBVIOUS
<1>1. OwnInv
  BY OwnInit
<1>2. QED
  BY <1>1 DEF Init, SoloInv, NoDataset, IdleJob, Pointing

\* What a catalogue request does to the rows the jobs refer to.
LEMMA CatalogueKeeps ==
    ASSUME OwnInv, Catalogue
    PROVE  /\ UNCHANGED job
           /\ \A d \in Datasets :
                 /\ datasets'[d].presence = "new" => datasets'[d] = datasets[d]
                 /\ datasets[d].presence # "new" /\ LiveDataset(d)'
                       => LiveDataset(d) /\ datasets'[d].last = datasets[d].last
           /\ \A s \in Snapshots, d \in Datasets :
                 LiveIssue(s) /\ issues[s].dataset = d /\ LiveDataset(d)' => LiveIssue(s)'
<1> DEFINE Goal ==
           /\ UNCHANGED job
           /\ \A d \in Datasets :
                 /\ datasets'[d].presence = "new" => datasets'[d] = datasets[d]
                 /\ datasets[d].presence # "new" /\ LiveDataset(d)'
                       => LiveDataset(d) /\ datasets'[d].last = datasets[d].last
           /\ \A s \in Snapshots, d \in Datasets :
                 LiveIssue(s) /\ issues[s].dataset = d /\ LiveDataset(d)' => LiveIssue(s)'
<1>0. TypeOK
  BY DEF OwnInv, TypeInv
<1>1. ASSUME NEW x \in Datasets, DeleteDataset(x)
      PROVE  Goal
  BY <1>0, <1>1 DEF DeleteDataset, NoDataset, NoIssue, LiveDataset, LiveIssue, TypeOK
<1>2. ASSUME NEW x \in Datasets, NEW slug \in Slugs, CreateDataset(x, slug)
      PROVE  Goal
  BY <1>0, <1>2 DEF CreateDataset, LiveDataset, LiveIssue, TypeOK
<1>3. ASSUME NEW x \in Datasets, NEW slug \in Slugs, UpdateDataset(x, slug)
      PROVE  Goal
  BY <1>0, <1>3 DEF UpdateDataset, LiveDataset, LiveIssue, TypeOK, DatasetRow
<1>4. QED
  BY <1>1, <1>2, <1>3 DEF Catalogue

LEMMA SoloStep ==
    ASSUME \A x, y \in Workers : x = y
    PROVE  SoloInv /\ [Next]_vars => SoloInv'
<1> SUFFICES ASSUME SoloInv, [Next]_vars PROVE SoloInv'
  OBVIOUS
<1>0. OwnInv /\ OwnInv' /\ TypeInv /\ TypeInv' /\ TypeOK
  BY OwnStep DEF SoloInv, OwnInv, TypeInv
<1>1. CASE Catalogue
  <2>1. \A w \in Workers : Pointing(job[w]) => /\ job[w].dataset \in Datasets
                                               /\ job[w].snap \in Snapshots
    BY <1>0 DEF Pointing, TypeInv, JobComplete
  <2>2. \A w \in Workers : Pointing(job[w]) =>
           /\ datasets'[job[w].dataset].presence # "new"
           /\ LiveDataset(job[w].dataset)' =>
                 /\ LiveIssue(job[w].snap)'
                 /\ job[w].seen.last = datasets'[job[w].dataset].last
    <3>1. ASSUME NEW w \in Workers, Pointing(job[w])
          PROVE  /\ datasets'[job[w].dataset].presence # "new"
                 /\ LiveDataset(job[w].dataset)' =>
                       /\ LiveIssue(job[w].snap)'
                       /\ job[w].seen.last = datasets'[job[w].dataset].last
      <4>1. /\ job' = job
            /\ datasets[job[w].dataset].presence # "new"
            /\ LiveDataset(job[w].dataset) =>
                  /\ LiveIssue(job[w].snap)
                  /\ issues[job[w].snap].dataset = job[w].dataset
                  /\ job[w].seen.last = datasets[job[w].dataset].last
        BY <1>0, <1>1, <3>1, CatalogueKeeps DEF SoloInv, OwnInv
      <4>2. QED
        BY <1>0, <1>1, <2>1, <3>1, <4>1, CatalogueKeeps DEF LiveDataset, LiveIssue
    <3>2. QED
      BY <3>1
  <2>3. \A d \in Datasets : datasets'[d].presence = "new" => datasets'[d].last = Nothing
    BY <1>0, <1>1, CatalogueKeeps DEF SoloInv
  <2>4. job' = job
    BY <1>0, <1>1, CatalogueKeeps
  <2>5. QED
    BY <1>0, <2>2, <2>3, <2>4 DEF SoloInv, LiveDataset, LiveIssue
<1>2. ASSUME NEW w \in Workers, Request(w)
      PROVE  SoloInv'
  <2>1. PICK j : Start(w, j) /\ Requested(j)
    BY <1>0, <1>2, RequestStarts
  <2>2. /\ UNCHANGED <<datasets, issues>> /\ job'[w] = j
        /\ \A x \in Workers : x = w
    BY <1>0, <2>1 DEF Start, TypeOK
  <2>3. Pointing(j) => /\ LiveDataset(j.dataset) /\ LiveIssue(j.snap)
                       /\ j.seen = datasets[j.dataset]
    BY <2>1 DEF Requested, Pointing
  <2>4. QED
    BY <1>0, <2>2, <2>3 DEF SoloInv, LiveDataset, LiveIssue
<1>3. ASSUME NEW w \in Workers, PutBytes(w) \/ DropBytes(w)
      PROVE  SoloInv'
  <2>1. /\ job' = [job EXCEPT ![w].pc = "commit"] /\ job[w].pc = "bytes"
        /\ UNCHANGED <<datasets, issues>>
    BY <1>3 DEF PutBytes, DropBytes
  <2>2. \A x \in Workers : /\ Pointing(job'[x]) => Pointing(job[x])
                           /\ job'[x].snap = job[x].snap /\ job'[x].seen = job[x].seen
                           /\ job'[x].dataset = job[x].dataset
    BY <1>0, <2>1 DEF TypeOK, Job, Pointing
  <2>3. QED
    BY <1>0, <2>1, <2>2 DEF SoloInv, LiveDataset, LiveIssue
<1>4. ASSUME NEW w \in Workers, Commit(w)
      PROVE  SoloInv'
  <2>1. /\ job' = [job EXCEPT ![w] = IdleJob]
        /\ job[w].dataset \in Datasets /\ job[w].snap \in Snapshots
        /\ \/ UNCHANGED datasets
           \/ /\ datasets' = PointedTo(job[w].dataset, job[w].snap)
              /\ LiveDataset(job[w].dataset)
           \/ /\ datasets' = PointedTo(job[w].dataset, Nothing)
              /\ LiveDataset(job[w].dataset)
    BY <1>0, <1>4 DEF Commit, CommitAdd, CommitSetLast, CommitDelete, CommitAddFile,
                      CommitDeleteFile, Finish, Refused, RowLost, TypeInv, JobComplete
  <2>2. \A x \in Workers : ~Pointing(job'[x])
    BY <1>0, <2>1 DEF TypeOK, IdleJob, Pointing
  <2>3. \A d \in Datasets : datasets'[d].presence = "new" =>
           datasets[d].presence = "new" /\ datasets'[d].last = datasets[d].last
    BY <1>0, <2>1, PointedToType DEF LiveDataset
  <2>4. QED
    BY <1>0, <2>2, <2>3 DEF SoloInv
<1>5. ASSUME NEW w \in Workers, Fail(w) \/ Crash(w)
      PROVE  SoloInv'
  <2>1. /\ job' = [job EXCEPT ![w] = IdleJob]
        /\ UNCHANGED <<datasets, issues>>
    BY <1>5 DEF Fail, Crash
  <2>2. \A x \in Workers : ~Pointing(job'[x])
    BY <1>0, <2>1 DEF TypeOK, IdleJob, Pointing
  <2>3. QED
    BY <1>0, <2>1, <2>2 DEF SoloInv
<1>6. CASE UNCHANGED vars
  BY <1>0, <1>6 DEF vars, SoloInv, LiveDataset, LiveIssue
<1>7. QED
  BY <1>1, <1>2, <1>3, <1>4, <1>5, <1>6 DEF Next

\* The abstract state: the issues and the pointer of each dataset.
SeriesNow == [d \in Datasets |-> {s \in Snapshots : LiveIssue(s) /\ issues[s].dataset = d}]
LastNow   == [d \in Datasets |-> datasets[d].last]

\* One entry of the abstract state changes.
LEMMA IssuesUpdated ==
    ASSUME NEW x \in Datasets, NEW S \in SUBSET Snapshots,
           \A s \in Snapshots, d \in Datasets :
              LiveIssue(s)' /\ issues'[s].dataset = d
                 <=> IF d = x THEN s \in S ELSE LiveIssue(s) /\ issues[s].dataset = d
    PROVE  SeriesNow' = [SeriesNow EXCEPT ![x] = S]
<1>1. ASSUME NEW d \in Datasets
      PROVE  {s \in Snapshots : LiveIssue(s)' /\ issues'[s].dataset = d}
                = IF d = x THEN S ELSE {s \in Snapshots : LiveIssue(s) /\ issues[s].dataset = d}
  <2>1. CASE d = x
    BY <2>1
  <2>2. CASE d # x
    BY <2>2
  <2>3. QED BY <2>1, <2>2
<1>2. QED
  BY <1>1 DEF SeriesNow

LEMMA SeriesStep ==
    ASSUME \A x, y \in Workers : x = y, SoloInv, [Next]_vars
    PROVE  [Series!Next]_(Series!vars)
<1> DEFINE Goal == [Series!Next]_(Series!vars)
<1>0. OwnInv /\ TypeInv /\ TypeOK
  BY DEF SoloInv, OwnInv, TypeInv
<1>1. ASSUME SeriesNow' = SeriesNow, LastNow' = LastNow
      PROVE  Goal
  BY <1>1 DEF SeriesNow, LastNow, Series!vars
<1>2. ASSUME UNCHANGED <<datasets, issues>>
      PROVE  Goal
  BY <1>1, <1>2 DEF SeriesNow, LastNow, LiveIssue
<1>3. ASSUME NEW x \in Datasets, NEW slug \in Slugs,
             CreateDataset(x, slug) \/ UpdateDataset(x, slug)
      PROVE  Goal
  <2>1. \A d \in Datasets : datasets'[d].last = datasets[d].last
    <3>1. CASE CreateDataset(x, slug)
      BY <1>0, <3>1 DEF CreateDataset, SoloInv, TypeOK
    <3>2. CASE UpdateDataset(x, slug)
      BY <1>0, <3>2 DEF UpdateDataset, TypeOK, DatasetRow
    <3>3. QED
      BY <1>3, <3>1, <3>2
  <2>2. LastNow' = LastNow
    BY <2>1 DEF LastNow
  <2>3. SeriesNow' = SeriesNow
    BY <1>3 DEF CreateDataset, UpdateDataset, SeriesNow, LiveIssue
  <2>4. QED
    BY <1>1, <2>2, <2>3
<1>4. ASSUME NEW x \in Datasets, DeleteDataset(x)
      PROVE  Goal
  <2>1. \A d \in Datasets : datasets'[d].last = IF d = x THEN Nothing ELSE datasets[d].last
    BY <1>0, <1>4 DEF DeleteDataset, NoDataset, TypeOK
  <2>2. LastNow' = [LastNow EXCEPT ![x] = Nothing]
    BY <2>1 DEF LastNow
  <2>3. \A s \in Snapshots, d \in Datasets :
           LiveIssue(s)' /\ issues'[s].dataset = d
              <=> LiveIssue(s) /\ issues[s].dataset = d /\ d # x
    BY <1>0, <1>4 DEF DeleteDataset, NoIssue, LiveIssue, TypeOK
  <2>4. SeriesNow' = [SeriesNow EXCEPT ![x] = {}]
    BY <2>3 DEF SeriesNow
  <2>5. Series!Drop(x)
    BY <2>2, <2>4 DEF Series!Drop, SeriesNow, LastNow
  <2>6. QED
    BY <2>5 DEF Series!Next
<1>5. ASSUME NEW w \in Workers, Commit(w)
      PROVE  Goal
  <2> DEFINE j == job[w]
  <2>1. /\ j.pc = "commit" /\ ~Refused(j) /\ j.dataset \in Datasets /\ j.snap \in Snapshots
    BY <1>0, <1>5 DEF Commit, CommitAdd, CommitSetLast, CommitDelete, CommitAddFile,
                      CommitDeleteFile, Finish, TypeInv, JobComplete
  <2>0. PICK d \in Datasets, s \in Snapshots : d = j.dataset /\ s = j.snap
    BY <2>1
  <2>2. CASE CommitAdd(w)
    <3>1. /\ j.op = "add" /\ LiveDataset(j.dataset)
          /\ datasets' = PointedTo(j.dataset, j.snap)
          /\ issues' = [issues EXCEPT ![j.snap] = [presence |-> "live", dataset |-> j.dataset,
                                                    loc |-> j.loc, sum |-> j.sum]]
      BY <2>1, <2>2 DEF CommitAdd, Refused, RowLost
    <3>2. issues[j.snap].presence = "new"
      BY <1>0, <2>1, <3>1 DEF Adding, OwnInv
    <3>3. LastNow' = [LastNow EXCEPT ![d] = s]
      BY <1>0, <2>0, <3>1, PointedToType DEF LastNow
    <3>4. \A t \in Snapshots, c \in Datasets :
             LiveIssue(t)' /\ issues'[t].dataset = c
                <=> IF c = d THEN t \in SeriesNow[d] \union {s}
                             ELSE LiveIssue(t) /\ issues[t].dataset = c
      BY <1>0, <2>0, <3>1, <3>2 DEF LiveIssue, TypeOK, SeriesNow
    <3>5. SeriesNow[d] \union {s} \in SUBSET Snapshots
      BY DEF SeriesNow
    <3>6. SeriesNow' = [SeriesNow EXCEPT ![d] = SeriesNow[d] \union {s}]
      BY <3>4, <3>5, IssuesUpdated
    <3>7. \A c \in Datasets : s \notin SeriesNow[c]
      BY <2>0, <3>2 DEF SeriesNow, LiveIssue
    <3>8. Series!Publish(d, s)
      BY <3>3, <3>6, <3>7 DEF Series!Publish, Series!Published, SeriesNow, LastNow
    <3>9. QED
      BY <3>8 DEF Series!Next
  <2>3. CASE CommitSetLast(w)
    <3>1. CASE j.seen.last = j.snap
      BY <1>2, <2>3, <3>1 DEF CommitSetLast
    <3>2. CASE j.seen.last # j.snap
      <4>1. /\ j.op = "set_last" /\ LiveDataset(j.dataset)
            /\ datasets' = PointedTo(j.dataset, j.snap) /\ issues' = issues
        BY <2>1, <2>3, <3>2 DEF CommitSetLast, Refused, RowLost
      <4>2. LiveIssue(j.snap) /\ issues[j.snap].dataset = j.dataset
        BY <1>0, <2>1, <4>1 DEF SoloInv, OwnInv, Pointing
      <4>3. LastNow' = [LastNow EXCEPT ![d] = s]
        BY <1>0, <2>0, <4>1, PointedToType DEF LastNow
      <4>4. SeriesNow' = SeriesNow /\ s \in SeriesNow[d]
        BY <2>0, <4>1, <4>2 DEF SeriesNow, LiveIssue
      <4>5. Series!PointLast(d, s)
        BY <4>3, <4>4 DEF Series!PointLast, SeriesNow, LastNow
      <4>6. QED
        BY <4>5 DEF Series!Next
    <3>3. QED
      BY <3>1, <3>2
  <2>4. CASE CommitDelete(w)
    <3>1. /\ j.op = "delete" /\ Pointing(j)
          /\ issues' = [issues EXCEPT ![j.snap] = NoIssue("gone")]
          /\ datasets' = IF j.seen.last = j.snap THEN PointedTo(j.dataset, Nothing) ELSE datasets
      BY <2>1, <2>4 DEF CommitDelete, Pointing
    <3>2. \A t \in Snapshots : /\ LiveIssue(t)' <=> LiveIssue(t) /\ t # j.snap
                               /\ t # j.snap => issues'[t] = issues[t]
      BY <1>0, <2>1, <3>1 DEF LiveIssue, NoIssue, TypeOK
    <3>3. CASE LiveDataset(j.dataset)
      <4>1. /\ LiveIssue(j.snap) /\ issues[j.snap].dataset = j.dataset
            /\ j.seen.last = datasets[j.dataset].last
        BY <1>0, <2>1, <3>1, <3>3 DEF SoloInv, OwnInv
      <4>2. \A c \in Datasets : datasets'[c].last =
               IF c = d /\ datasets[c].last = s THEN Nothing ELSE datasets[c].last
        BY <1>0, <2>0, <3>1, <4>1, PointedToType
      <4>3. LastNow' = [LastNow EXCEPT ![d] = IF LastNow[d] = s THEN Nothing ELSE LastNow[d]]
        BY <4>2 DEF LastNow
      <4>4. \A t \in Snapshots, c \in Datasets :
               LiveIssue(t)' /\ issues'[t].dataset = c
                  <=> IF c = d THEN t \in SeriesNow[d] \ {s}
                               ELSE LiveIssue(t) /\ issues[t].dataset = c
        BY <2>0, <3>2, <4>1 DEF SeriesNow
      <4>5. SeriesNow[d] \ {s} \in SUBSET Snapshots
        BY DEF SeriesNow
      <4>6. SeriesNow' = [SeriesNow EXCEPT ![d] = SeriesNow[d] \ {s}]
        BY <4>4, <4>5, IssuesUpdated
      <4>7. s \in SeriesNow[d]
        BY <2>0, <4>1 DEF SeriesNow
      <4>8. Series!Withdraw(d, s)
        BY <4>3, <4>6, <4>7 DEF Series!Withdraw, SeriesNow, LastNow
      <4>9. QED
        BY <4>8 DEF Series!Next
    <3>4. CASE ~LiveDataset(j.dataset)
      <4>1. datasets' = datasets
        BY <2>1, <3>1, <3>4 DEF Refused, RowLost
      <4>2. ~LiveIssue(j.snap)
        BY <1>0, <2>1, <3>1, <3>4 DEF OwnInv, TypeOK
      <4>3. SeriesNow' = SeriesNow
        BY <3>2, <4>2 DEF SeriesNow
      <4>4. QED
        BY <1>1, <4>1, <4>3 DEF LastNow
    <3>5. QED
      BY <3>3, <3>4
  <2>5. CASE CommitAddFile(w) \/ CommitDeleteFile(w)
    BY <1>2, <2>5 DEF CommitAddFile, CommitDeleteFile
  <2>6. QED
    BY <1>5, <2>2, <2>3, <2>4, <2>5 DEF Commit
<1>6. ASSUME NEW w \in Workers,
             Request(w) \/ PutBytes(w) \/ DropBytes(w) \/ Fail(w) \/ Crash(w)
      PROVE  Goal
  <2>1. Request(w) => UNCHANGED <<datasets, issues>>
    BY <1>0, RequestStarts DEF Start
  <2>2. QED
    BY <1>2, <1>6, <2>1 DEF PutBytes, DropBytes, Fail, Crash
<1>7. UNCHANGED vars => Goal
  BY <1>2 DEF vars
<1>8. QED
  BY <1>3, <1>4, <1>5, <1>6, <1>7 DEF Next, Catalogue

\* One worker at a time, in any number of steps, crashes and refused commits,
\* keeps the promise of IssueSeries: every step is a publication, a move of the
\* pointer, a withdrawal, a removal of a dataset, or invisible.
THEOREM SoloArchive ==
    ASSUME \A x, y \in Workers : x = y
    PROVE  Spec => ImplementsSeries
<1>1. Init => Series!Init
  <2> SUFFICES ASSUME Init PROVE Series!Init
    OBVIOUS
  <2>1. \A d \in Datasets : datasets[d].last = Nothing
    BY DEF Init, NoDataset
  <2>2. \A s \in Snapshots : ~LiveIssue(s)
    BY DEF Init, NoIssue, LiveIssue
  <2>3. QED
    BY <2>1, <2>2 DEF Series!Init
<1>2. SoloInv /\ [Next]_vars => SoloInv'
  BY SoloStep
<1>3. SoloInv /\ [Next]_vars => [Series!Next]_(Series!vars)
  BY SeriesStep
<1>4. QED
  BY <1>1, <1>2, <1>3, SoloInit, PTL DEF Spec, ImplementsSeries, Series!Spec

(***************************************************************************)
(* What becomes of the rows somebody has seen                              *)
(***************************************************************************)

\* s was an issue of d when it was seen; it may have been deleted since.
Knows(s, d) == /\ s \in Snapshots /\ d \in Datasets
               /\ issues[s].presence # "new"
               /\ LiveIssue(s) => issues[s].dataset = d

\* An id is used once: a row that was seen stays as it was or goes for good.
LEMMA SeenRowsOnlyGo ==
    ASSUME OwnInv, [Next]_vars, NEW s \in Snapshots, issues[s].presence # "new"
    PROVE  /\ issues'[s].presence # "new"
           /\ LiveIssue(s)' => LiveIssue(s) /\ issues'[s] = issues[s]
<1>0. TypeInv /\ TypeOK
  BY DEF OwnInv, TypeInv
<1>1. ASSUME NEW d \in Datasets, DeleteDataset(d)
      PROVE  issues'[s] = issues[s] \/ issues'[s].presence = "gone"
  BY <1>1 DEF DeleteDataset, NoIssue
<1>2. ASSUME NEW w \in Workers, CommitAdd(w)
      PROVE  issues'[s] = issues[s]
  <2>1. Adding(job[w]) /\ job[w].snap \in Snapshots
    BY <1>0, <1>2 DEF CommitAdd, Finish, Adding, TypeInv, JobComplete
  <2>2. job[w].snap # s
    BY <2>1 DEF OwnInv
  <2>3. QED
    BY <1>0, <1>2, <2>2 DEF CommitAdd, TypeOK
<1>3. ASSUME NEW w \in Workers, CommitDelete(w)
      PROVE  issues'[s] = issues[s] \/ issues'[s].presence = "gone"
  BY <1>0, <1>3 DEF CommitDelete, NoIssue, TypeOK
<1>4. ASSUME NEW w \in Workers, Request(w)
      PROVE  issues' = issues
  BY <1>4 DEF Request, SetLastSnapshot, DeleteSnapshot, AddSnapshot, DeleteFile, AddFile, Start
<1>5. ASSUME NEW w \in Workers, Commit(w)
      PROVE  issues'[s] = issues[s] \/ issues'[s].presence = "gone"
  BY <1>2, <1>3, <1>5 DEF Commit, CommitSetLast, CommitAddFile, CommitDeleteFile
<1>6. issues'[s] = issues[s] \/ issues'[s].presence = "gone"
  <2>1. CASE Catalogue
    BY <1>1, <2>1 DEF Catalogue, CreateDataset, UpdateDataset
  <2>2. CASE UNCHANGED vars
    BY <2>2 DEF vars
  <2>3. ASSUME NEW w \in Workers, PutBytes(w) \/ DropBytes(w) \/ Fail(w) \/ Crash(w)
        PROVE  issues' = issues
    BY <2>3 DEF PutBytes, DropBytes, Fail, Crash
  <2>4. QED
    BY <1>4, <1>5, <2>1, <2>2, <2>3 DEF Next
<1>7. QED
  BY <1>6 DEF LiveIssue

LEMMA KnowledgeKept ==
    ASSUME OwnInv, [Next]_vars, NEW s, NEW d, Knows(s, d)
    PROVE  Knows(s, d)'
BY SeenRowsOnlyGo DEF Knows

\* The bytes of a row stay where they are until its location is used again.
LEMMA BytesStay ==
    ASSUME TypeInv, [Next]_vars
    PROVE  /\ reused \subseteq reused'
           /\ \A l, c : Stored(l, c) => Stored(l, c)'
<1>1. ASSUME NEW w \in Workers, PutBytes(w) \/ DropBytes(w)
      PROVE  /\ reused \subseteq reused'
             /\ \A l, c : Stored(l, c) => Stored(l, c)'
  <2>1. job[w].loc \in Locations
    BY <1>1 DEF PutBytes, DropBytes, TypeInv, TypeOK, JobComplete
  <2>2. \A l \in Locations : store'[l] = store[l] \/ l = job[w].loc
    BY <1>1, <2>1 DEF PutBytes, DropBytes, TypeInv, TypeOK
  <2>3. /\ reused \subseteq reused' /\ written \subseteq written'
        /\ job[w].loc \in written => job[w].loc \in reused'
        /\ written \subseteq Locations
    BY <1>1 DEF PutBytes, DropBytes, TypeInv, TypeOK
  <2>4. QED
    BY <2>2, <2>3 DEF Stored
<1>2. CASE UNCHANGED <<store, written, reused>>
  BY <1>2 DEF Stored
<1>3. UNCHANGED <<store, written, reused>> \/ \E w \in Workers : PutBytes(w) \/ DropBytes(w)
  <2>1. CASE Catalogue
    BY <2>1 DEF Catalogue, CreateDataset, UpdateDataset, DeleteDataset
  <2>2. CASE UNCHANGED vars
    BY <2>2 DEF vars
  <2>3. ASSUME NEW w \in Workers, Request(w) \/ Commit(w) \/ Fail(w) \/ Crash(w)
        PROVE  UNCHANGED <<store, written, reused>>
    BY <2>3 DEF Request, SetLastSnapshot, DeleteSnapshot, AddSnapshot, DeleteFile, AddFile, Start,
                Commit, CommitAdd, CommitSetLast, CommitDelete, CommitAddFile, CommitDeleteFile,
                Finish, Fail, Crash
  <2>4. QED
    BY <2>1, <2>2, <2>3 DEF Next
<1>4. QED
  BY <1>1, <1>2, <1>3

=============================================================================
