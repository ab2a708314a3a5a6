------------------------ MODULE DatasetReadApiProofs ------------------------
(***************************************************************************)
(* Theorems about DatasetReadApi: reads run beside any number of uploads,  *)
(* deletions and crashes of the archive, for any number of users.          *)
(***************************************************************************)
EXTENDS DatasetReadApi, DatasetArchiveProofs

(***************************************************************************)
(* Reads leave the archive alone                                           *)
(***************************************************************************)

\* Every step of the composition is a step of the archive or leaves it as it is.
LEMMA StepOfArchive == [ReadNext]_allVars => [Next]_vars
<1> SUFFICES ASSUME [ReadNext]_allVars PROVE [Next]_vars
  OBVIOUS
<1>1. ASSUME NEW u \in Users, ReadRequest(u) \/ ReadStep(u)
      PROVE  UNCHANGED vars
  BY <1>1 DEF ReadRequest, ReadStep, Begin, CheckEntitlement, ResolveIssue, Meter,
              StreamMetered, StreamResolved, BuildArchive, archive
<1>2. CASE UNCHANGED allVars
  BY <1>2 DEF allVars, archive
<1>3. QED
  BY <1>1, <1>2 DEF ReadNext

\* What is proved of the archive holds beside any readers.
THEOREM ReadsImplementArchive == ReadSpec => Spec
<1>1. ReadInit => Init
  BY DEF ReadInit
<1>2. QED
  BY <1>1, StepOfArchive, PTL DEF ReadSpec, Spec

(***************************************************************************)
(* The dataset the bytes were uploaded for                                 *)
(***************************************************************************)

Saving(j)  == j.pc # "idle" /\ j.op \in {"add", "add_file"}
Joining(j) == j.pc # "idle" /\ j.op = "add_file"

\* The checksum of a row is that of bytes uploaded for the dataset of the row: an
\* upload takes its dataset from the row it has read, and a companion file joins an
\* issue only while the issue is there.
SumsInv ==
    /\ \A s \in Snapshots : LiveIssue(s) => issues[s].sum[1] = issues[s].dataset
    /\ \A f \in Files : LiveFile(f) => files[f].sum[1] = issues[files[f].snap].dataset
    /\ \A w \in Workers : Saving(job[w]) => job[w].sum[1] = job[w].dataset
    /\ \A w \in Workers : Joining(job[w]) => Knows(job[w].snap, job[w].dataset)

\* A request that uploads has read the issue it uploads for.
LEMMA UploadKnows ==
    ASSUME OwnInv, NEW w \in Workers, Request(w)
    PROVE  /\ Saving(job'[w]) => job'[w].sum[1] = job'[w].dataset
           /\ Joining(job'[w]) => Knows(job'[w].snap, job'[w].dataset)
<1>0. TypeInv /\ TypeOK
  BY DEF OwnInv, TypeInv
<1>1. ASSUME NEW d \in Datasets, NEW s \in Snapshots,
             SetLastSnapshot(w, d, s) \/ DeleteSnapshot(w, d, s)
      PROVE  job'[w].op \notin {"add", "add_file"}
  <2>1. CASE SetLastSnapshot(w, d, s)
    BY <1>0, <2>1 DEF SetLastSnapshot, Start, TypeOK, IdleJob
  <2>2. CASE DeleteSnapshot(w, d, s)
    BY <1>0, <2>2 DEF DeleteSnapshot, Start, TypeOK, IdleJob
  <2>3. QED
    BY <1>1, <2>1, <2>2
<1>2. ASSUME NEW f \in Files, DeleteFile(w, f)
      PROVE  ~Saving(job'[w])
  BY <1>0, <1>2 DEF DeleteFile, Start, TypeOK, IdleJob, Saving
<1>3. ASSUME NEW d \in Datasets, NEW s \in Snapshots, NEW minute \in Minutes, NEW blob \in Blobs,
             AddSnapshot(w, d, s, minute, blob)
      PROVE  ~Joining(job'[w]) /\ job'[w].sum[1] = job'[w].dataset
  BY <1>0, <1>3 DEF AddSnapshot, Start, TypeOK, IdleJob, Joining
<1>4. ASSUME NEW f \in Files, NEW s \in Snapshots, NEW name \in Names, NEW blob \in Blobs,
             AddFile(w, s, f, name, blob)
      PROVE  Knows(job'[w].snap, job'[w].dataset) /\ job'[w].sum[1] = job'[w].dataset
  <2>1. /\ job'[w].snap = s /\ job'[w].dataset = issues[s].dataset
        /\ job'[w].sum = <<issues[s].dataset, blob>>
    BY <1>0, <1>4 DEF AddFile, Start, TypeOK, IdleJob
  <2>2. LiveIssue(s) /\ issues[s].dataset \in Datasets /\ issues[s].presence # "new"
    BY <1>0, <1>4 DEF AddFile, TypeOK, LiveIssue, LiveDataset
  <2>3. QED
    BY <2>1, <2>2 DEF Knows
<1>5. QED
  BY <1>1, <1>2, <1>3, <1>4 DEF Request, Saving, Joining

LEMMA SumsStep == OwnInv /\ SumsInv /\ [Next]_vars => SumsInv'
<1> SUFFICES ASSUME OwnInv, SumsInv, [Next]_vars PROVE SumsInv'
  OBVIOUS
<1>0. TypeInv /\ TypeOK /\ TypeInv' /\ TypeOK'
  BY TypeStep DEF OwnInv, TypeInv
<1>1. \A s, d : Knows(s, d) => /\ s \in Snapshots /\ d \in Datasets
                               /\ issues'[s].presence # "new"
                               /\ issues'[s].presence = "live" => issues'[s].dataset = d
  BY KnowledgeKept DEF Knows, LiveIssue
<1>2. \A w \in Workers : /\ Saving(job'[w]) => job'[w].sum[1] = job'[w].dataset
                         /\ Joining(job'[w]) => Knows(job[w].snap, job[w].dataset)'
  <2>1. ASSUME NEW w \in Workers, Request(w)
        PROVE  \A x \in Workers : x # w => job'[x] = job[x]
    BY <1>0, <2>1, RequestStarts DEF Start, TypeOK
  <2>2. ASSUME NEW w \in Workers, PutBytes(w) \/ DropBytes(w)
        PROVE  \A x \in Workers : /\ job'[x].pc # "idle" => job[x].pc # "idle"
                                  /\ job'[x].op = job[x].op /\ job'[x].snap = job[x].snap
                                  /\ job'[x].dataset = job[x].dataset /\ job'[x].sum = job[x].sum
    BY <1>0, <2>2 DEF PutBytes, DropBytes, TypeOK, Job
  <2>3. ASSUME NEW w \in Workers, Commit(w) \/ Fail(w) \/ Crash(w)
        PROVE  \A x \in Workers : job'[x].pc = "idle" \/ job'[x] = job[x]
    BY <1>0, <2>3 DEF Commit, CommitAdd, CommitSetLast, CommitDelete, CommitAddFile, CommitDeleteFile,
                      Finish, Fail, Crash, TypeOK, IdleJob
  <2>4. CASE Catalogue \/ UNCHANGED vars
    <3>1. job' = job
      BY <2>4 DEF vars, Catalogue, CreateDataset, UpdateDataset, DeleteDataset
    <3>2. QED
      BY <1>1, <3>1 DEF SumsInv, Knows, LiveIssue
  <2>5. ASSUME NEW w \in Workers, Request(w)
        PROVE  \A x \in Workers : /\ Saving(job'[x]) => job'[x].sum[1] = job'[x].dataset
                                  /\ Joining(job'[x]) => Knows(job[x].snap, job[x].dataset)'
    <3>1. /\ Saving(job'[w]) => job'[w].sum[1] = job'[w].dataset
          /\ Joining(job'[w]) => Knows(job'[w].snap, job'[w].dataset)
      BY <2>5, UploadKnows
    <3>2. issues' = issues
      BY <1>0, <2>5, RequestStarts DEF Start
    <3>3. QED
      BY <2>1, <2>5, <3>1, <3>2 DEF SumsInv, Knows, LiveIssue
  <2>6. ASSUME NEW w \in Workers, PutBytes(w) \/ DropBytes(w)
        PROVE  \A x \in Workers : /\ Saving(job'[x]) => job'[x].sum[1] = job'[x].dataset
                                  /\ Joining(job'[x]) => Knows(job[x].snap, job[x].dataset)'
    BY <1>1, <2>2, <2>6 DEF SumsInv, Saving, Joining, Knows, LiveIssue
  <2>7. ASSUME NEW w \in Workers, Commit(w) \/ Fail(w) \/ Crash(w)
        PROVE  \A x \in Workers : /\ Saving(job'[x]) => job'[x].sum[1] = job'[x].dataset
                                  /\ Joining(job'[x]) => Knows(job[x].snap, job[x].dataset)'
    BY <1>1, <2>3, <2>7 DEF SumsInv, Saving, Joining, Knows, LiveIssue
  <2>8. QED
    BY <2>4, <2>5, <2>6, <2>7 DEF Next
<1>3. \A s \in Snapshots : LiveIssue(s)' => issues'[s].sum[1] = issues'[s].dataset
  <2>1. ASSUME NEW s \in Snapshots, LiveIssue(s)', issues[s].presence # "new"
        PROVE  issues'[s].sum[1] = issues'[s].dataset
    BY <2>1, SeenRowsOnlyGo DEF SumsInv
  <2>2. ASSUME NEW s \in Snapshots, LiveIssue(s)', issues[s].presence = "new"
        PROVE  issues'[s].sum[1] = issues'[s].dataset
    <3>1. issues'[s] # issues[s] /\ issues'[s].presence = "live"
      BY <2>2 DEF LiveIssue
    <3>2. PICK w \in Workers : CommitAdd(w)
      <4>1. ASSUME NEW d \in Datasets, DeleteDataset(d)
            PROVE  FALSE
        BY <3>1, <4>1 DEF DeleteDataset, NoIssue
      <4>2. ASSUME NEW w \in Workers, CommitDelete(w)
            PROVE  FALSE
        BY <1>0, <3>1, <4>2 DEF CommitDelete, NoIssue, TypeOK
      <4>3. ASSUME NEW w \in Workers, Request(w)
            PROVE  FALSE
        BY <1>0, <3>1, <4>3, RequestStarts DEF Start
      <4>4. QED
        BY <3>1, <4>1, <4>2, <4>3 DEF Next, vars, Catalogue, CreateDataset, UpdateDataset,
           Commit, CommitSetLast, CommitAddFile, CommitDeleteFile, PutBytes, DropBytes, Fail, Crash
    <3>3. Saving(job[w])
      BY <3>2 DEF CommitAdd, Finish, Saving
    <3>4. issues'[s] = [presence |-> "live", dataset |-> job[w].dataset,
                        loc |-> job[w].loc, sum |-> job[w].sum]
      BY <1>0, <3>1, <3>2 DEF CommitAdd, TypeOK
    <3>5. QED
      BY <3>3, <3>4 DEF SumsInv
  <2>3. QED
    BY <2>1, <2>2
<1>4. \A f \in Files : LiveFile(f)' => files'[f].sum[1] = issues'[files'[f].snap].dataset
  <2>1. ASSUME NEW f \in Files, LiveFile(f)', LiveFile(f), files'[f] = files[f]
        PROVE  files'[f].sum[1] = issues'[files'[f].snap].dataset
    <3>1. LiveIssue(files[f].snap) /\ issues'[files[f].snap].presence = "live"
      BY <1>0, <2>1 DEF TypeOK, LiveFile, LiveIssue
    <3>2. issues'[files[f].snap] = issues[files[f].snap]
      BY <3>1, SeenRowsOnlyGo DEF LiveIssue
    <3>3. QED
      BY <2>1, <3>2 DEF SumsInv
  <2>2. ASSUME NEW f \in Files, LiveFile(f)', ~(LiveFile(f) /\ files'[f] = files[f])
        PROVE  files'[f].sum[1] = issues'[files'[f].snap].dataset
    <3>1. files'[f] # files[f] /\ files'[f].presence = "live"
      BY <2>2 DEF LiveFile
    <3>2. PICK w \in Workers : CommitAddFile(w)
      <4>1. ASSUME NEW d \in Datasets, DeleteDataset(d)
            PROVE  FALSE
        BY <3>1, <4>1 DEF DeleteDataset, NoFile
      <4>2. ASSUME NEW w \in Workers, CommitDelete(w) \/ CommitDeleteFile(w)
            PROVE  FALSE
        BY <1>0, <3>1, <4>2 DEF CommitDelete, Without, CommitDeleteFile, NoFile, TypeOK
      <4>3. ASSUME NEW w \in Workers, Request(w)
            PROVE  FALSE
        BY <1>0, <3>1, <4>3, RequestStarts DEF Start
      <4>4. QED
        BY <3>1, <4>1, <4>2, <4>3 DEF Next, vars, Catalogue, CreateDataset, UpdateDataset,
           Commit, CommitAdd, CommitSetLast, PutBytes, DropBytes, Fail, Crash
    <3>3. Saving(job[w]) /\ Joining(job[w])
      BY <3>2 DEF CommitAddFile, Finish, Saving, Joining
    <3>4. files'[f] = [presence |-> "live", snap |-> job[w].snap,
                       loc |-> job[w].loc, sum |-> job[w].sum] /\ issues' = issues
      BY <1>0, <3>1, <3>2 DEF CommitAddFile, TypeOK
    <3>5. issues'[job[w].snap].presence = "live"
      BY <1>0, <2>2, <3>4 DEF TypeOK, LiveFile, LiveIssue
    <3>6. issues'[job[w].snap].dataset = job[w].dataset
      BY <3>3, <3>4, <3>5 DEF SumsInv, Knows, LiveIssue
    <3>7. QED
      BY <3>3, <3>4, <3>6 DEF SumsInv
  <2>3. QED
    BY <2>1, <2>2
<1>5. QED
  BY <1>2, <1>3, <1>4 DEF SumsInv

(***************************************************************************)
(* One request                                                             *)
(***************************************************************************)

\* The answer has been paid for, or is about to be sent.
Metered(r) == \/ r.pc = "stream"
              \/ r.status \in {"served", "broken"}
              \/ r.status = "error" /\ r.locs # {}

\* A request has rows from the resolution on, and an outcome only at the end.
Shaped(r) ==
    /\ r.pc # "idle" => r.dataset \in Datasets
    /\ r.pc \in {"entitle", "resolve"} => r.status = "none" /\ r.locs = {}
    /\ r.pc \in {"meter", "stream"} => r.status = "none"
    /\ r.pc = "meter" => r.kind = "data"

\* What a request holds of the archive: the pointer it has read, and the row it
\* serves, with the bytes that were stored before the row was there.
Sourced(r) ==
    /\ r.pc # "idle" /\ r.last # Nothing => Knows(r.last, r.dataset)
    /\ r.pc \in {"meter", "stream"} =>
          /\ Knows(r.snap, r.dataset)
          /\ \E l \in Locations, c \in Content :
                r.locs = {l} /\ r.sums = {c} /\ Stored(l, c) /\ c[1] = r.dataset
    /\ r.status \in {"error", "broken"} /\ r.locs # {} => Knows(r.snap, r.dataset)

Paid(u) ==
    read[u].pc # "idle" =>
       balance[u] = IF read[u].kind = "data" /\ Metered(read[u])
                    THEN read[u].before - Weight ELSE read[u].before

Promised(r) ==
    r.status = "served" /\ Clean(r.locs) =>
       /\ r.bytes = r.sums
       /\ \A content \in r.bytes : content[1] = r.dataset

Excused(r) ==
    r.status \in {"error", "broken"} /\ r.locs # {} => ~LiveIssue(r.snap) \/ ~Clean(r.locs)

ReaderInv(u) ==
    /\ read[u] \in Read /\ balance[u] \in Nat
    /\ Shaped(read[u]) /\ Sourced(read[u]) /\ Paid(u)
    /\ Promised(read[u]) /\ Excused(read[u])

\* The archive as a reader relies on it.
ArchiveInv == BytesInv /\ OwnInv /\ SumsInv

LEMMA ArchiveKept == ArchiveInv /\ [Next]_vars => ArchiveInv'
BY BytesStep, OwnStep, SumsStep DEF ArchiveInv

LEMMA IdleReadType == IdleRead \in Read
BY DEF IdleRead, Read, Kind, Status

\* Nothing the others do disturbs a request.
LEMMA ReaderKept ==
    ASSUME ArchiveInv, [Next]_vars, NEW u \in Users, ReaderInv(u),
           read'[u] = read[u], balance'[u] = balance[u]
    PROVE  ReaderInv(u)'
<1> DEFINE r == read[u]
<1>1. \A s, d : Knows(s, d) => /\ s \in Snapshots /\ d \in Datasets
                               /\ issues'[s].presence # "new"
                               /\ issues'[s].presence = "live" => issues'[s].dataset = d
                               /\ issues'[s].presence = "live" => LiveIssue(s)
  BY KnowledgeKept, SeenRowsOnlyGo DEF ArchiveInv, Knows, LiveIssue
<1>2. /\ reused \subseteq reused'
      /\ \A l, c : Stored(l, c) => Stored(l, c)'
  BY BytesStay DEF ArchiveInv, BytesInv
<1>3. Sourced(read[u])'
  <2>1. r.pc # "idle" /\ r.last # Nothing => Knows(read[u].last, read[u].dataset)'
    BY <1>1 DEF ReaderInv, Sourced, Knows, LiveIssue
  <2>2. r.status \in {"error", "broken"} /\ r.locs # {} => Knows(read[u].snap, read[u].dataset)'
    BY <1>1 DEF ReaderInv, Sourced, Knows, LiveIssue
  <2>3. ASSUME r.pc \in {"meter", "stream"}
        PROVE  /\ Knows(read[u].snap, read[u].dataset)'
               /\ \E l \in Locations, c \in Content :
                     r.locs = {l} /\ r.sums = {c} /\ Stored(l, c)' /\ c[1] = r.dataset
    <3>1. Knows(read[u].snap, read[u].dataset)'
      BY <1>1, <2>3 DEF ReaderInv, Sourced, Knows, LiveIssue
    <3>2. PICK l \in Locations, c \in Content :
             r.locs = {l} /\ r.sums = {c} /\ Stored(l, c) /\ c[1] = r.dataset
      BY <2>3 DEF ReaderInv, Sourced
    <3>3. Stored(l, c)'
      BY <1>2, <3>2
    <3>4. QED
      BY <3>1, <3>2, <3>3
  <2>4. QED
    BY <2>1, <2>2, <2>3 DEF Sourced
<1>4. Promised(read[u])'
  BY <1>2 DEF ReaderInv, Promised, Clean
<1>5. Excused(read[u])'
  BY <1>1, <1>2 DEF ReaderInv, Excused, Sourced, Clean, LiveIssue
<1>6. Paid(u)'
  BY DEF ReaderInv, Paid, Metered
<1>7. QED
  BY <1>3, <1>4, <1>5, <1>6 DEF ReaderInv, Shaped

\* An answer made of stored rows of one dataset is what those rows promise, or the
\* bytes were deleted.
LEMMA ServeTells ==
    ASSUME NEW rows, NEW d,
           \A row \in rows : /\ row.sum \in Content /\ row.sum[1] = d
                             /\ Stored(row.loc, row.sum)
    PROVE  LET locs == {row.loc : row \in rows}
               sums == {row.sum : row \in rows}
           IN  /\ Clean(locs) => /\ BytesAt(locs) = sums
                                 /\ Nothing \notin BytesAt(locs)
                                 /\ \A content \in BytesAt(locs) : content[1] = d
<1> SUFFICES ASSUME Clean({row.loc : row \in rows})
             PROVE  /\ BytesAt({row.loc : row \in rows}) = {row.sum : row \in rows}
                    /\ Nothing \notin BytesAt({row.loc : row \in rows})
                    /\ \A content \in BytesAt({row.loc : row \in rows}) : content[1] = d
  OBVIOUS
<1>1. \A row \in rows : store[row.loc] = row.sum
  BY DEF Clean, Stored
<1>2. BytesAt({row.loc : row \in rows}) = {row.sum : row \in rows}
  BY <1>1 DEF BytesAt
<1>3. Nothing \notin Content
  BY ConstantsAssumption
<1>4. QED
  BY <1>2, <1>3

ReadsInv ==
    /\ ArchiveInv
    /\ read \in [Users -> Read] /\ balance \in [Users -> Nat] /\ reads \in Nat
    /\ \A u \in Users : ReaderInv(u)

\* The types of a request that becomes r.
LEMMA ReadBecomes ==
    ASSUME ReadsInv, NEW u \in Users, NEW r \in Read, read' = [read EXCEPT ![u] = r]
    PROVE  /\ read' \in [Users -> Read]
           /\ read'[u] = r
           /\ \A v \in Users : v # u => read'[v] = read[v]
BY DEF ReadsInv

\* A request that has its answer, and no rows.
LEMMA TurnedAway ==
    ASSUME ReadsInv, NEW u \in Users, NEW status \in {"forbidden", "not_found", "over_quota", "error"},
           Answer(u, status), UNCHANGED <<archive, balance>>,
           read[u].pc \in {"entitle", "resolve", "meter"},
           status = "error" => read[u].locs = {}
    PROVE  ReaderInv(u)' /\ \A v \in Users : v # u => read'[v] = read[v]
<1> DEFINE r == read[u]
           n == [r EXCEPT !.pc = "answered", !.status = status]
<1>1. /\ r \in Read /\ n \in Read
      /\ n.pc = "answered" /\ n.status = status /\ n.locs = r.locs /\ n.kind = r.kind
      /\ n.dataset = r.dataset /\ n.last = r.last /\ n.before = r.before /\ n.snap = r.snap
  BY DEF ReadsInv, Read, Status
<1>2. read' = [read EXCEPT ![u] = n]
  BY <1>1 DEF Answer, ReadsInv
<1>3. read'[u] = n /\ \A v \in Users : v # u => read'[v] = read[v]
  BY <1>1, <1>2, ReadBecomes
<1>4. UNCHANGED <<issues, store, written, reused, balance>>
  BY DEF archive, vars
<1>5. ReaderInv(u)
  BY DEF ReadsInv
<1>6. Shaped(read[u])' /\ Promised(read[u])' /\ Excused(read[u])'
  BY <1>1, <1>3, <1>4, <1>5 DEF ReaderInv, Shaped, Promised, Excused
<1>7. Sourced(read[u])'
  BY <1>1, <1>3, <1>4, <1>5 DEF ReaderInv, Sourced, Knows, LiveIssue
<1>8. Paid(u)'
  BY <1>1, <1>3, <1>4, <1>5 DEF ReaderInv, Shaped, Paid, Metered
<1>9. QED
  BY <1>1, <1>3, <1>4, <1>5, <1>6, <1>7, <1>8 DEF ReaderInv

\* A request reads the pointer of its dataset: it never leads into another one.
LEMMA ReaderBegins ==
    ASSUME ReadsInv, NEW u \in Users, NEW kind \in Kind, NEW d \in Datasets,
           NEW minute \in Minutes \union {Nothing}, NEW s \in Snapshots \union {Nothing},
           NEW f \in Files \union {Nothing}, Begin(u, kind, d, minute, s, f)
    PROVE  ReaderInv(u)' /\ \A v \in Users : v # u => read'[v] = read[v]
<1> DEFINE n == [IdleRead EXCEPT !.pc = "entitle", !.kind = kind, !.dataset = d,
                    !.last = datasets[d].last, !.minute = minute, !.snap = s,
                    !.file = f, !.before = balance[u]]
<1>1. datasets[d].last \in Snapshots \union {Nothing} /\ balance[u] \in Nat
  BY DEF ReadsInv, ArchiveInv, BytesInv, TypeInv, TypeOK, DatasetRow
<1>2. /\ n \in Read
      /\ n.pc = "entitle" /\ n.status = "none" /\ n.locs = {}
      /\ n.dataset = d /\ n.last = datasets[d].last /\ n.before = balance[u]
  BY <1>1 DEF IdleRead, Read, Status
<1>3. read' = [read EXCEPT ![u] = n] /\ UNCHANGED <<issues, balance>>
  BY DEF Begin, archive, vars
<1>4. read'[u] = n /\ \A v \in Users : v # u => read'[v] = read[v]
  BY <1>2, <1>3, ReadBecomes
<1>5. LiveDataset(d) /\ datasets[d].last # Nothing => Knows(datasets[d].last, d)
  <2>1. OwnInv
    BY DEF ReadsInv, ArchiveInv
  <2>2. QED
    BY <1>1, <2>1 DEF OwnInv, LastIsOwn, Knows
<1>6. n.last # Nothing => Knows(n.last, n.dataset)
  BY <1>2, <1>5 DEF Begin
<1>7. Sourced(read[u])'
  BY <1>2, <1>3, <1>4, <1>6 DEF Sourced, Knows, LiveIssue
<1>8. Shaped(read[u])' /\ Promised(read[u])' /\ Excused(read[u])' /\ Paid(u)'
  BY <1>1, <1>2, <1>3, <1>4 DEF Shaped, Promised, Excused, Paid, Metered
<1>9. QED
  BY <1>1, <1>2, <1>3, <1>4, <1>7, <1>8 DEF ReaderInv

\* The row a request resolves is of its dataset, and its bytes were stored first.
LEMMA RowsAreSourced ==
    ASSUME ReadsInv, NEW u \in Users, read[u].pc = "resolve",
           NEW s \in Candidates(read[u]), NEW row \in RowsOf(read[u], s)
    PROVE  /\ Knows(s, read[u].dataset)
           /\ row.loc \in Locations /\ row.sum \in Content
           /\ Stored(row.loc, row.sum) /\ row.sum[1] = read[u].dataset
           /\ RowsOf(read[u], s) = {row}
<1> DEFINE r == read[u]
<1>1. /\ r \in Read /\ r.dataset \in Datasets
      /\ r.last # Nothing => Knows(r.last, r.dataset)
  BY DEF ReadsInv, ReaderInv, Shaped, Sourced
<1>2. /\ TypeOK /\ SumsInv
      /\ \A x \in Snapshots : LiveIssue(x) => Stored(issues[x].loc, issues[x].sum)
      /\ \A f \in Files : LiveFile(f) => Stored(files[f].loc, files[f].sum)
  BY DEF ReadsInv, ArchiveInv, BytesInv, TypeInv
<1>3. LiveIssue(s) /\ issues[s].dataset = r.dataset
  <2>1. CASE s \in Owned(r) \/ s \in Pinned(r)
    BY <2>1 DEF Owned, Pinned
  <2>2. CASE s \in Current(r)
    <3>1. LiveIssue(s) /\ s = r.last /\ s # Nothing
      BY <2>2, ConstantsAssumption DEF Current, LiveIssue
    <3>2. QED
      BY <1>1, <3>1 DEF Knows
  <2>3. QED
    BY <2>1, <2>2 DEF Candidates
<1>4. Knows(s, r.dataset)
  BY <1>1, <1>3 DEF Knows, LiveIssue
<1>5. CASE r.kind = "file"
  <2>1. PICK f \in Member(r, s) : row = files[f]
    BY <1>5 DEF RowsOf
  <2>2. LiveFile(f) /\ f \in Files /\ files[f].snap = s /\ Member(r, s) = {f}
    BY <2>1 DEF Member, LiveFile
  <2>3. RowsOf(r, s) = {row}
    BY <1>5, <2>1, <2>2 DEF RowsOf
  <2>4. row.loc \in Locations /\ row.sum \in Content
    BY <1>2, <2>1, <2>2 DEF TypeOK, FileRow
  <2>5. row.sum[1] = r.dataset
    BY <1>2, <1>3, <2>1, <2>2 DEF SumsInv
  <2>6. QED
    BY <1>2, <1>4, <2>1, <2>2, <2>3, <2>4, <2>5
<1>6. CASE r.kind # "file"
  <2>1. row = issues[s] /\ RowsOf(r, s) = {row}
    BY <1>6 DEF RowsOf
  <2>2. row.loc \in Locations /\ row.sum \in Content
    BY <1>2, <1>3, <2>1 DEF TypeOK, IssueRow, LiveIssue
  <2>3. QED
    BY <1>2, <1>3, <1>4, <2>1, <2>2 DEF SumsInv, LiveIssue
<1>7. QED
  BY <1>5, <1>6

LEMMA ReaderResolves ==
    ASSUME ReadsInv, NEW u \in Users, ResolveIssue(u)
    PROVE  ReaderInv(u)' /\ \A v \in Users : v # u => read'[v] = read[v]
<1> DEFINE r == read[u]
<1>1. /\ r \in Read /\ r.pc = "resolve" /\ r.status = "none" /\ r.locs = {}
      /\ r.dataset \in Datasets /\ Sourced(r) /\ Paid(u) /\ balance[u] \in Nat
      /\ UNCHANGED <<archive, balance>>
  BY DEF ResolveIssue, ReadsInv, ReaderInv, Shaped
<1>2. CASE Answer(u, "error") \/ Answer(u, "not_found")
  BY <1>1, <1>2, TurnedAway
<1>3. ASSUME NEW s \in Candidates(r), RowsOf(r, s) # {},
             read' = [read EXCEPT ![u] =
                         [r EXCEPT !.pc = IF r.kind = "data" THEN "meter" ELSE "stream",
                                   !.snap = s,
                                   !.locs = {row.loc : row \in RowsOf(r, s)},
                                   !.sums = {row.sum : row \in RowsOf(r, s)}]]
      PROVE  ReaderInv(u)' /\ \A v \in Users : v # u => read'[v] = read[v]
  <2>1. PICK row \in RowsOf(r, s) : TRUE
    BY <1>3
  <2>2. /\ Knows(s, r.dataset) /\ row.loc \in Locations /\ row.sum \in Content
        /\ Stored(row.loc, row.sum) /\ row.sum[1] = r.dataset
        /\ RowsOf(r, s) = {row}
    BY <1>1, <2>1, RowsAreSourced
  <2> DEFINE n == [r EXCEPT !.pc = IF r.kind = "data" THEN "meter" ELSE "stream",
                            !.snap = s, !.locs = {row.loc}, !.sums = {row.sum}]
  <2>3. /\ n \in Read
        /\ n.pc = IF r.kind = "data" THEN "meter" ELSE "stream"
        /\ n.status = "none" /\ n.snap = s /\ n.locs = {row.loc} /\ n.sums = {row.sum}
        /\ n.dataset = r.dataset /\ n.last = r.last /\ n.kind = r.kind /\ n.before = r.before
    BY <1>1, <2>2 DEF Read, Knows
  <2>4. read' = [read EXCEPT ![u] = n]
    BY <1>3, <2>2
  <2>5. read'[u] = n /\ \A v \in Users : v # u => read'[v] = read[v]
    BY <2>3, <2>4, ReadBecomes
  <2>6. UNCHANGED <<issues, store, written, reused, balance>>
    BY <1>1 DEF archive, vars
  <2>7. \E l \in Locations, c \in Content :
           {row.loc} = {l} /\ {row.sum} = {c} /\ Stored(l, c) /\ c[1] = r.dataset
    BY <2>2
  <2>8. r.last # Nothing => Knows(r.last, r.dataset)
    BY <1>1 DEF Sourced
  <2>9. Sourced(read[u])'
    BY <2>2, <2>3, <2>5, <2>6, <2>7, <2>8 DEF Sourced, Knows, LiveIssue, Stored
  <2>10. Shaped(read[u])' /\ Promised(read[u])' /\ Excused(read[u])'
    BY <1>1, <2>3, <2>5 DEF Shaped, Promised, Excused
  <2>11. Paid(u)'
    BY <1>1, <2>3, <2>5, <2>6 DEF Paid, Metered
  <2>12. QED
    BY <1>1, <2>3, <2>5, <2>6, <2>9, <2>10, <2>11 DEF ReaderInv
<1>4. QED
  BY <1>2, <1>3 DEF ResolveIssue

LEMMA ReaderMeters ==
    ASSUME ReadsInv, NEW u \in Users, Meter(u)
    PROVE  /\ ReaderInv(u)'
           /\ balance' \in [Users -> Nat]
           /\ \A v \in Users : v # u => read'[v] = read[v] /\ balance'[v] = balance[v]
<1> DEFINE r == read[u]
           n == [r EXCEPT !.pc = "stream"]
<1>1. /\ r \in Read /\ r.pc = "meter" /\ r.kind = "data" /\ r.status = "none"
      /\ ReaderInv(u) /\ UNCHANGED archive /\ balance \in [Users -> Nat]
      /\ Weight \in Nat
  BY ReadConstantsAssumption DEF Meter, ReadsInv, ReaderInv, Shaped
<1>2. CASE balance[u] < Weight
  <2>1. Answer(u, "over_quota") /\ UNCHANGED balance
    BY <1>1, <1>2 DEF Meter
  <2>2. ReaderInv(u)' /\ \A v \in Users : v # u => read'[v] = read[v]
    BY <1>1, <2>1, TurnedAway
  <2>3. QED
    BY <1>1, <2>1, <2>2
<1>3. CASE balance[u] >= Weight
  <2>1. /\ balance' = [balance EXCEPT ![u] = balance[u] - Weight]
        /\ read' = [read EXCEPT ![u] = n]
    BY <1>1, <1>3 DEF Meter, Proceed, ReadsInv
  <2>2. /\ n \in Read /\ n.pc = "stream" /\ n.status = "none" /\ n.kind = "data"
        /\ n.dataset = r.dataset /\ n.last = r.last /\ n.before = r.before /\ n.snap = r.snap
        /\ n.locs = r.locs /\ n.sums = r.sums
    BY <1>1 DEF Read
  <2>3. read'[u] = n /\ \A v \in Users : v # u => read'[v] = read[v]
    BY <2>1, <2>2, ReadBecomes
  <2>4. /\ balance' \in [Users -> Nat] /\ balance'[u] = balance[u] - Weight
        /\ \A v \in Users : v # u => balance'[v] = balance[v]
    BY <1>1, <1>3, <2>1
  <2>5. UNCHANGED <<issues, store, written, reused>>
    BY <1>1 DEF archive, vars
  <2>6. Sourced(r) /\ Paid(u) /\ r.dataset \in Datasets
    BY <1>1 DEF ReaderInv, Shaped
  <2>7. Sourced(read[u])'
    BY <1>1, <2>2, <2>3, <2>5, <2>6 DEF Sourced, Knows, LiveIssue, Stored
  <2>8. Shaped(read[u])' /\ Promised(read[u])' /\ Excused(read[u])'
    BY <2>2, <2>3, <2>6 DEF Shaped, Promised, Excused
  <2>9. balance[u] = r.before
    BY <1>1, <2>6 DEF Paid, Metered
  <2>10. Paid(u)'
    BY <2>2, <2>3, <2>4, <2>9 DEF Paid, Metered
  <2>11. QED
    BY <2>2, <2>3, <2>4, <2>7, <2>8, <2>10 DEF ReaderInv
<1>4. QED
  BY <1>1, <1>2, <1>3

\* Whatever is served is made of rows whose bytes were stored before they were.
LEMMA ReaderServes ==
    ASSUME ReadsInv, NEW u \in Users, read[u].pc = "stream",
           UNCHANGED <<archive, balance>>, NEW rows, rows # {},
           \A row \in rows : /\ row.loc \in Locations /\ row.sum \in Content
                             /\ row.sum[1] = read[u].dataset /\ Stored(row.loc, row.sum),
           Serve(u, {row.loc : row \in rows}, {row.sum : row \in rows})
    PROVE  ReaderInv(u)' /\ \A v \in Users : v # u => read'[v] = read[v]
<1> DEFINE r    == read[u]
           locs == {row.loc : row \in rows}
           sums == {row.sum : row \in rows}
           whole == Nothing \notin BytesAt(locs)
           status == IF whole THEN "served"
                     ELSE IF r.kind \in {"preview", "archive"} THEN "error" ELSE "broken"
           bytes == IF whole THEN BytesAt(locs) ELSE {}
           n == [r EXCEPT !.pc = "answered", !.locs = locs, !.sums = sums,
                          !.status = status, !.bytes = bytes]
<1>1. /\ r \in Read /\ ReaderInv(u) /\ r.dataset \in Datasets
      /\ Knows(r.snap, r.dataset)
  BY DEF ReadsInv, ReaderInv, Shaped, Sourced
<1>2. locs \subseteq Locations /\ sums \subseteq Content /\ locs # {}
  OBVIOUS
<1>3. bytes \subseteq Content
  <2>1. store \in [Locations -> Content \union {Nothing}]
    BY DEF ReadsInv, ArchiveInv, BytesInv, TypeInv, TypeOK
  <2>2. CASE whole
    BY <1>2, <2>1, <2>2 DEF BytesAt
  <2>3. QED
    BY <2>2
<1>4. /\ Clean(locs) => BytesAt(locs) = sums /\ whole
      /\ Clean(locs) => \A content \in BytesAt(locs) : content[1] = r.dataset
  BY ServeTells
<1>5. status \in Status
  BY DEF Status
<1> HIDE DEF locs, sums, whole, bytes, status
<1>6. /\ n \in Read /\ n.pc = "answered" /\ n.status = status /\ n.locs = locs
      /\ n.sums = sums /\ n.bytes = bytes /\ n.kind = r.kind
      /\ n.dataset = r.dataset /\ n.last = r.last /\ n.before = r.before /\ n.snap = r.snap
  BY <1>1, <1>2, <1>3, <1>5 DEF Read
<1>7. read' = [read EXCEPT ![u] = n]
  BY DEF Serve, locs, sums, whole, bytes, status
<1>8. read'[u] = n /\ \A v \in Users : v # u => read'[v] = read[v]
  BY <1>6, <1>7, ReadBecomes
<1>9. UNCHANGED <<issues, store, written, reused, balance>>
  BY DEF archive, vars
<1>10. Shaped(read[u])' /\ Sourced(read[u])'
  BY <1>1, <1>6, <1>8, <1>9 DEF ReaderInv, Shaped, Sourced, Knows, LiveIssue
<1>11. Promised(read[u])'
  <2>1. ASSUME status = "served", Clean(locs)
        PROVE  bytes = sums /\ \A content \in bytes : content[1] = r.dataset
    BY <1>4, <2>1 DEF bytes
  <2>2. QED
    BY <1>6, <1>8, <1>9, <2>1 DEF Promised, Clean
<1>12. Excused(read[u])'
  <2>1. status # "served" => ~Clean(locs)
    BY <1>4 DEF status
  <2>2. QED
    BY <1>6, <1>8, <1>9, <2>1 DEF Excused, Clean
<1>13. Paid(u)'
  <2>1. Paid(u) /\ Metered(r)
    BY <1>1 DEF ReaderInv, Metered
  <2>2. Metered(n)
    BY <1>2, <1>6 DEF Metered, status
  <2>3. QED
    BY <1>6, <1>8, <1>9, <2>1, <2>2 DEF Paid, Metered
<1>14. QED
  BY <1>1, <1>6, <1>8, <1>9, <1>10, <1>11, <1>12, <1>13 DEF ReaderInv

\* The zip takes the members its issue has now: they joined it while it was there.
LEMMA ReaderStreams ==
    ASSUME ReadsInv, NEW u \in Users, StreamMetered(u) \/ StreamResolved(u) \/ BuildArchive(u)
    PROVE  ReaderInv(u)' /\ \A v \in Users : v # u => read'[v] = read[v]
<1> DEFINE r == read[u]
<1>1. /\ r \in Read /\ r.pc = "stream" /\ r.status = "none"
      /\ ReaderInv(u) /\ UNCHANGED <<archive, balance>>
  BY DEF StreamMetered, StreamResolved, BuildArchive, ReadsInv, ReaderInv, Shaped
<1>2. PICK l \in Locations, c \in Content :
         r.locs = {l} /\ r.sums = {c} /\ Stored(l, c) /\ c[1] = r.dataset
  BY <1>1 DEF ReaderInv, Sourced
<1>3. ASSUME Serve(u, r.locs, r.sums)
      PROVE  ReaderInv(u)' /\ \A v \in Users : v # u => read'[v] = read[v]
  <2> DEFINE rows == {[loc |-> l, sum |-> c]}
  <2>1. r.locs = {row.loc : row \in rows} /\ r.sums = {row.sum : row \in rows}
    BY <1>2
  <2>2. \A row \in rows : /\ row.loc \in Locations /\ row.sum \in Content
                          /\ row.sum[1] = r.dataset /\ Stored(row.loc, row.sum)
    BY <1>2
  <2>3. Serve(u, {row.loc : row \in rows}, {row.sum : row \in rows}) /\ rows # {}
    BY <1>3, <2>1
  <2> HIDE DEF rows
  <2>4. QED
    BY <1>1, <2>2, <2>3, ReaderServes
<1>4. ASSUME Answer(u, "error"), r.kind = "data", ~LiveIssue(r.snap)
      PROVE  ReaderInv(u)' /\ \A v \in Users : v # u => read'[v] = read[v]
  <2> DEFINE n == [r EXCEPT !.pc = "answered", !.status = "error"]
  <2>1. /\ n \in Read /\ n.pc = "answered" /\ n.status = "error" /\ n.locs = r.locs
        /\ n.kind = r.kind /\ n.dataset = r.dataset /\ n.last = r.last
        /\ n.before = r.before /\ n.snap = r.snap
    BY <1>1 DEF Read, Status
  <2>2. read' = [read EXCEPT ![u] = n]
    BY <1>1, <1>4 DEF Answer, ReadsInv
  <2>3. read'[u] = n /\ \A v \in Users : v # u => read'[v] = read[v]
    BY <2>1, <2>2, ReadBecomes
  <2>4. UNCHANGED <<issues, store, written, reused, balance>>
    BY <1>1 DEF archive, vars
  <2>5. Shaped(read[u])' /\ Promised(read[u])' /\ Excused(read[u])'
    BY <1>1, <1>4, <2>1, <2>3, <2>4 DEF ReaderInv, Shaped, Promised, Excused, LiveIssue
  <2>6. Sourced(read[u])'
    BY <1>1, <2>1, <2>3, <2>4 DEF ReaderInv, Sourced, Knows, LiveIssue
  <2>7. Paid(u)'
    BY <1>1, <1>2, <2>1, <2>3, <2>4 DEF ReaderInv, Paid, Metered
  <2>8. QED
    BY <1>1, <2>1, <2>3, <2>4, <2>5, <2>6, <2>7 DEF ReaderInv
<1>5. ASSUME BuildArchive(u)
      PROVE  ReaderInv(u)' /\ \A v \in Users : v # u => read'[v] = read[v]
  <2> DEFINE members == {files[f] : f \in {x \in Files : LiveFile(x) /\ files[x].snap = r.snap}}
             rows    == {[loc |-> l, sum |-> c]} \union members
  <2>1. /\ r.locs \union {row.loc : row \in members} = {row.loc : row \in rows}
        /\ r.sums \union {row.sum : row \in members} = {row.sum : row \in rows}
    <3>1. \A A, B : /\ {row.loc : row \in A \union B} = {row.loc : row \in A} \union {row.loc : row \in B}
                    /\ {row.sum : row \in A \union B} = {row.sum : row \in A} \union {row.sum : row \in B}
      OBVIOUS
    <3>2. /\ {row.loc : row \in {[loc |-> l, sum |-> c]}} = {l}
          /\ {row.sum : row \in {[loc |-> l, sum |-> c]}} = {c}
      OBVIOUS
    <3>3. QED
      BY <1>2, <3>1, <3>2
  <2>2. /\ TypeOK /\ SumsInv
        /\ \A f \in Files : LiveFile(f) => Stored(files[f].loc, files[f].sum)
    BY DEF ReadsInv, ArchiveInv, BytesInv, TypeInv
  <2>3. Knows(r.snap, r.dataset)
    BY <1>1 DEF ReaderInv, Sourced
  <2>4. \A row \in members : /\ row.loc \in Locations /\ row.sum \in Content
                             /\ row.sum[1] = r.dataset /\ Stored(row.loc, row.sum)
    <3>1. SUFFICES ASSUME NEW f \in Files, LiveFile(f), files[f].snap = r.snap
                   PROVE  /\ files[f].loc \in Locations /\ files[f].sum \in Content
                          /\ files[f].sum[1] = r.dataset
                          /\ Stored(files[f].loc, files[f].sum)
      OBVIOUS
    <3>2. LiveIssue(r.snap)
      BY <2>2, <3>1 DEF TypeOK
    <3>3. issues[r.snap].dataset = r.dataset
      BY <2>3, <3>2 DEF Knows
    <3>4. QED
      BY <2>2, <3>1, <3>3 DEF TypeOK, SumsInv, FileRow
  <2>5. \A row \in rows : /\ row.loc \in Locations /\ row.sum \in Content
                          /\ row.sum[1] = r.dataset /\ Stored(row.loc, row.sum)
    BY <1>2, <2>4
  <2>6. Serve(u, {row.loc : row \in rows}, {row.sum : row \in rows}) /\ rows # {}
    BY <1>5, <2>1 DEF BuildArchive
  <2> HIDE DEF rows
  <2>7. QED
    BY <1>1, <2>5, <2>6, ReaderServes
<1>6. QED
  BY <1>3, <1>4, <1>5 DEF StreamMetered, StreamResolved

LEMMA ReadsStep == ReadsInv /\ [ReadNext]_allVars => ReadsInv'
<1> SUFFICES ASSUME ReadsInv, [ReadNext]_allVars PROVE ReadsInv'
  OBVIOUS
<1>1. [Next]_vars
  BY StepOfArchive
<1>2. ArchiveInv'
  BY <1>1, ArchiveKept DEF ReadsInv
<1>3. ASSUME UNCHANGED readVars
      PROVE  ReadsInv'
  BY <1>1, <1>2, <1>3, ReaderKept DEF ReadsInv, readVars
<1>4. ASSUME NEW u \in Users, ReaderInv(u)', read' \in [Users -> Read],
             balance' \in [Users -> Nat], reads' \in Nat,
             \A v \in Users : v # u => read'[v] = read[v] /\ balance'[v] = balance[v]
      PROVE  ReadsInv'
  <2>1. ASSUME NEW v \in Users, v # u PROVE ReaderInv(v)'
    BY <1>1, <1>4, <2>1, ReaderKept DEF ReadsInv
  <2>2. QED
    BY <1>2, <1>4, <2>1 DEF ReadsInv
<1>5. ASSUME NEW u \in Users, NEW kind \in Kind, NEW d \in Datasets,
             NEW minute \in Minutes \union {Nothing}, NEW s \in Snapshots \union {Nothing},
             NEW f \in Files \union {Nothing}, Begin(u, kind, d, minute, s, f)
      PROVE  ReadsInv'
  <2>1. ReaderInv(u)' /\ \A v \in Users : v # u => read'[v] = read[v]
    BY <1>5, ReaderBegins
  <2>2. \E n : read' = [read EXCEPT ![u] = n]
    BY <1>5 DEF Begin
  <2>3. read' = [v \in Users |-> read'[v]]
    BY <2>2 DEF ReadsInv
  <2>4. read' \in [Users -> Read]
    BY <2>1, <2>3 DEF ReadsInv, ReaderInv
  <2>5. reads' \in Nat /\ UNCHANGED balance
    BY <1>5 DEF Begin, ReadsInv
  <2>6. QED
    BY <1>4, <2>1, <2>4, <2>5 DEF ReadsInv
<1>6. ASSUME NEW u \in Users, ReadStep(u)
      PROVE  ReadsInv'
  <2>1. /\ reads' \in Nat /\ read' = [v \in Users |-> read'[v]]
        /\ UNCHANGED archive
    BY <1>6 DEF ReadStep, CheckEntitlement, ResolveIssue, Meter, StreamMetered, StreamResolved,
                BuildArchive, Answer, Proceed, Serve, ReadsInv
  <2>2. ASSUME ReaderInv(u)', balance' \in [Users -> Nat],
               \A v \in Users : v # u => read'[v] = read[v] /\ balance'[v] = balance[v]
        PROVE  ReadsInv'
    <3>1. read' \in [Users -> Read]
      BY <2>1, <2>2 DEF ReadsInv, ReaderInv
    <3>2. QED
      BY <1>4, <2>1, <2>2, <3>1
  <2>3. CASE Meter(u)
    BY <2>2, <2>3, ReaderMeters
  <2>4. CASE CheckEntitlement(u) /\ Answer(u, "forbidden")
    BY <2>2, <2>4, TurnedAway DEF CheckEntitlement, ReadsInv
  <2>5. CASE CheckEntitlement(u) /\ Proceed(u, "resolve")
    <3> DEFINE n == [read[u] EXCEPT !.pc = "resolve"]
    <3>1. /\ read[u] \in Read /\ read[u].pc = "entitle" /\ ReaderInv(u)
          /\ UNCHANGED <<issues, store, written, reused, balance>>
      BY <2>5 DEF CheckEntitlement, ReadsInv, archive, vars
    <3>2. /\ n \in Read /\ n.pc = "resolve" /\ n.locs = read[u].locs
          /\ n.dataset = read[u].dataset /\ n.last = read[u].last /\ n.kind = read[u].kind
          /\ n.before = read[u].before /\ n.snap = read[u].snap /\ n.status = read[u].status
      BY <3>1 DEF Read
    <3>3. read'[u] = n /\ \A v \in Users : v # u => read'[v] = read[v]
      BY <2>5, <3>2, ReadBecomes DEF Proceed, ReadsInv
    <3>4. Shaped(read[u])' /\ Promised(read[u])' /\ Excused(read[u])'
      BY <3>1, <3>2, <3>3 DEF ReaderInv, Shaped, Promised, Excused
    <3>5. Sourced(read[u])'
      BY <3>1, <3>2, <3>3 DEF ReaderInv, Sourced, Shaped, Knows, LiveIssue
    <3>6. Paid(u)'
      BY <3>1, <3>2, <3>3 DEF ReaderInv, Shaped, Paid, Metered
    <3>7. ReaderInv(u)'
      BY <3>1, <3>2, <3>3, <3>4, <3>5, <3>6 DEF ReaderInv
    <3>8. QED
      BY <2>2, <3>1, <3>3, <3>7 DEF ReadsInv
  <2>6. CASE ResolveIssue(u)
    BY <2>2, <2>6, ReaderResolves DEF ResolveIssue, ReadsInv
  <2>7. CASE StreamMetered(u) \/ StreamResolved(u) \/ BuildArchive(u)
    BY <2>2, <2>7, ReaderStreams DEF StreamMetered, StreamResolved, BuildArchive, ReadsInv
  <2>8. QED
    BY <1>6, <2>3, <2>4, <2>5, <2>6, <2>7 DEF ReadStep, CheckEntitlement
<1>7. ASSUME NEW u \in Users, ReadRequest(u)
      PROVE  ReadsInv'
  BY <1>5, <1>7 DEF ReadRequest, Kind
<1>8. QED
  BY <1>3, <1>6, <1>7 DEF ReadNext, allVars

LEMMA ReadsInitially == ReadInit => ReadsInv
<1> SUFFICES ASSUME ReadInit PROVE ReadsInv
  OBVIOUS
<1>1. Init
  BY DEF ReadInit
<1>2. BytesInv
  <2>1. TypeInv
    BY <1>1, TypeInit
  <2>2. QED
    BY <1>1, <2>1 DEF Init, BytesInv, NoIssue, NoFile, IdleJob, LiveIssue, LiveFile, Uploaded
<1>3. SumsInv
  BY <1>1 DEF Init, SumsInv, NoIssue, NoFile, IdleJob, LiveIssue, LiveFile, Saving, Joining
<1>4. balance \in [Users -> Nat]
  BY ReadConstantsAssumption DEF ReadInit
<1>5. ASSUME NEW u \in Users PROVE ReaderInv(u)
  <2>1. /\ read[u] = IdleRead /\ IdleRead.pc = "idle" /\ IdleRead.status = "none"
    BY DEF ReadInit, IdleRead
  <2>2. QED
    BY <1>4, <2>1, IdleReadType DEF ReaderInv, Shaped, Sourced, Paid, Promised, Excused
<1>6. QED
  BY <1>1, <1>2, <1>3, <1>4, <1>5, OwnInit, IdleReadType DEF ReadsInv, ArchiveInv, ReadInit

(***************************************************************************)
(* Theorems                                                                *)
(***************************************************************************)

\* ReadsInv holds in every state.
LEMMA ReadsAlways == ReadSpec => []ReadsInv
BY ReadsInitially, ReadsStep, PTL DEF ReadSpec

\* Requests, answers and balances keep their types: no balance becomes negative.
THEOREM ReadTypeCorrect == ReadSpec => []ReadTypeOK
<1>1. ReadsInv => ReadTypeOK
  BY DEF ReadsInv, ArchiveInv, BytesInv, TypeInv, ReaderInv, Shaped, ReadTypeOK
<1>2. QED
  BY <1>1, ReadsAlways, PTL

\* Whatever runs beside it, a request is served the bytes its rows promise, of the
\* dataset it asked for, unless their location was used twice or deleted from.
THEOREM ReadsServeAsPromised == ReadSpec => []ServedAsPromised
<1>1. ReadsInv => ServedAsPromised
  BY DEF ReadsInv, ReaderInv, Promised, ServedAsPromised
<1>2. QED
  BY <1>1, ReadsAlways, PTL

\* A request that has found its rows fails only if they or their bytes were deleted.
THEOREM ReadsFailByDeletion == ReadSpec => []FailureMeansDeletion
<1>1. ReadsInv => FailureMeansDeletion
  BY DEF ReadsInv, ReaderInv, Excused, FailureMeansDeletion
<1>2. QED
  BY <1>1, ReadsAlways, PTL

\* A data call costs its weight once, if it got as far as the bytes; others nothing.
THEOREM ReadsChargeForBytes == ReadSpec => []ChargedForBytesOnly
<1>1. ReadsInv => ChargedForBytesOnly
  BY DEF ReadsInv, ReaderInv, Paid, Metered, ChargedForBytesOnly
<1>2. QED
  BY <1>1, ReadsAlways, PTL

=============================================================================
