------------------------- MODULE DatasetIngestProofs -------------------------
(***************************************************************************)
(* Theorems about DatasetExchange and DatasetIngest: categories, exports,  *)
(* imports and replayed pushes, beside any number of requests of the       *)
(* archive, with and without row versions.                                 *)
(***************************************************************************)
EXTENDS DatasetIngest, DatasetArchiveProofs

(***************************************************************************)
(* The steps of the composition                                            *)
(***************************************************************************)

\* A step of the archive: its links go with their datasets.  A push is one too.
Archival ==
    /\ [Next]_vars
    /\ links' \subseteq links
    /\ \A l \in links' : LiveDataset(l[1])'
    /\ UNCHANGED exchangeVars

\* A step of the taxonomy, an export or the look of an import: it changes no row
\* of the archive.
Bookkeeping == UNCHANGED rows /\ requests' \in Nat

LEMMA IngestIsRequest ==
    ASSUME NEW w \in Workers, NEW p \in Pushes, NEW d \in Datasets, NEW s \in Snapshots,
           IngestWebhook(w, p, d, s)
    PROVE  Request(w) /\ UNCHANGED <<datasets, issues>>
<1>1. AddSnapshot(w, d, s, p.minute, p.blob) /\ p.minute \in Minutes /\ p.blob \in Blobs
  BY IngestConstantsAssumption DEF IngestWebhook
<1>2. QED
  BY <1>1 DEF Request, AddSnapshot, Start

(***************************************************************************)
(* Types, links and documents                                              *)
(***************************************************************************)

LinksInv ==
    /\ terms \subseteq Terms
    /\ links \subseteq Datasets \X terms
    /\ \A l \in links : LiveDataset(l[1])

TagInv ==
    /\ tag \in [Curators -> Tag]
    /\ \A c \in Curators : tag[c].pc = "commit" => tag[c].term \in Terms

\* What an export has written is true of the archive it came from: every reference
\* names bytes that were stored, and the last is one of the references.
Genuine(doc) ==
    /\ doc \in Document
    /\ doc.last # Nothing => \E r \in doc.refs : r.loc[2] = doc.last
    /\ \A r \in doc.refs : Stored(r.loc, r.sum)

DocumentInv ==
    /\ document # Nothing => Genuine(document)
    /\ import \in Import
    /\ import.pc = "commit" => /\ import.dataset \in Datasets
                               /\ import.doc # Nothing /\ Genuine(import.doc)

ExchangeInv == BytesInv /\ LinksInv /\ TagInv /\ DocumentInv

LEMMA IdleTagType == IdleTag \in Tag
BY DEF IdleTag, Tag

LEMMA IdleImportType == IdleImport \in Import
BY IdleJobType DEF IdleImport, Import, IdleJob, Job, NoDataset, DatasetRow, Presence

\* What a request keeps in hand outlives what the others do to the archive.
LEMMA GenuineStays ==
    ASSUME TypeInv, [Next]_vars, NEW doc, Genuine(doc)
    PROVE  Genuine(doc)'
<1>1. \A l, c : Stored(l, c) => Stored(l, c)'
  BY BytesStay
<1>2. QED
  BY <1>1 DEF Genuine

LEMMA ArchivalExchange == ASSUME ExchangeInv, Archival PROVE ExchangeInv'
<1>1. BytesInv' /\ TypeInv
  BY BytesStep DEF ExchangeInv, BytesInv, Archival
<1>2. UNCHANGED <<terms, tag, document, import>>
  BY DEF Archival, exchangeVars
<1>3. LinksInv'
  BY <1>2 DEF Archival, ExchangeInv, LinksInv, LiveDataset
<1>4. TagInv'
  BY <1>2 DEF ExchangeInv, TagInv
<1>5. \A doc : Genuine(doc) => Genuine(doc)'
  BY <1>1, GenuineStays DEF Archival
<1>6. DocumentInv'
  <2>1. document # Nothing => Genuine(document)'
    BY <1>2, <1>5 DEF ExchangeInv, DocumentInv, Genuine, Stored
  <2>2. import.pc = "commit" => Genuine(import.doc)'
    BY <1>2, <1>5 DEF ExchangeInv, DocumentInv, Genuine, Stored
  <2>3. QED
    BY <1>2, <2>1, <2>2 DEF ExchangeInv, DocumentInv
<1>7. QED
  BY <1>1, <1>3, <1>4, <1>6 DEF ExchangeInv

\* The rows of the archive are as they were.
LEMMA BookkeepingArchive ==
    ASSUME BytesInv, Bookkeeping
    PROVE  /\ BytesInv'
           /\ \A l, c : Stored(l, c) <=> Stored(l, c)'
           /\ \A d : LiveDataset(d)' <=> LiveDataset(d)
<1>1. TypeInv'
  BY TypeOfWork DEF BytesInv, TypeInv, TypeOK, Bookkeeping, rows
<1>2. UNCHANGED <<datasets, issues, files, store, job, written, reused>>
  BY DEF Bookkeeping, rows
<1>3. BytesInv'
  BY <1>1, <1>2, BytesKept DEF LiveIssue, LiveFile
<1>4. QED
  BY <1>2, <1>3 DEF Stored, LiveDataset

LEMMA CountIsNat == ASSUME TypeInv, Count PROVE requests' \in Nat
BY DEF Count, TypeInv, TypeOK

\* Assigning a category, and taking one away.
LEMMA TagsExchange ==
    ASSUME ExchangeInv, NEW c \in Curators,
           \/ \E ds \in SUBSET Datasets, t \in Terms : Assign(c, ds, t)
           \/ CommitAssign(c) \/ FailAssign(c)
    PROVE  ExchangeInv'
<1>1. TypeInv
  BY DEF ExchangeInv, BytesInv
<1>2. Bookkeeping /\ UNCHANGED <<terms, document, import>>
  BY <1>1, CountIsNat DEF Assign, CommitAssign, FailAssign, Bookkeeping, rows, vars, TypeInv, TypeOK
<1>3. /\ BytesInv'
      /\ \A l, k : Stored(l, k) <=> Stored(l, k)'
      /\ \A d : LiveDataset(d)' <=> LiveDataset(d)
  BY <1>2, BookkeepingArchive DEF ExchangeInv
<1>4. DocumentInv'
  BY <1>2, <1>3 DEF ExchangeInv, DocumentInv, Genuine, Stored, Bookkeeping, rows
<1>5. LinksInv'
  <2>1. CASE links' = links
    BY <1>2, <1>3, <2>1 DEF ExchangeInv, LinksInv
  <2>2. CASE CommitAssign(c)
    <3>1. /\ links' = links \union (tag[c].missing \X {tag[c].term})
          /\ tag[c].missing \subseteq Datasets
          /\ \A d \in tag[c].missing : LiveDataset(d) /\ tag[c].term \in terms
      BY <2>2 DEF CommitAssign, TagRefused, ExchangeInv, TagInv, Tag
    <3>2. QED
      BY <1>2, <1>3, <3>1 DEF ExchangeInv, LinksInv
  <2>3. QED
    BY <2>1, <2>2 DEF Assign, FailAssign
<1>6. TagInv'
  <2>1. CASE tag' = [tag EXCEPT ![c] = IdleTag]
    BY <2>1, IdleTagType DEF ExchangeInv, TagInv, IdleTag
  <2>2. ASSUME NEW ds \in SUBSET Datasets, NEW t \in Terms, Assign(c, ds, t)
        PROVE  TagInv'
    <3> DEFINE n == [pc |-> "commit", datasets |-> ds, term |-> t,
                     missing |-> Missing(ds, t)]
    <3>1. n \in Tag
      BY DEF Tag, Missing
    <3>2. tag' = [tag EXCEPT ![c] = n]
      BY <2>2 DEF Assign
    <3>3. QED
      BY <3>1, <3>2 DEF ExchangeInv, TagInv
  <2>3. QED
    BY <2>1, <2>2 DEF CommitAssign, FailAssign
<1>7. QED
  BY <1>3, <1>4, <1>5, <1>6 DEF ExchangeInv

LEMMA RemovalsExchange ==
    ASSUME ExchangeInv, NEW t \in Terms, RemoveTerm(t) \/ \E d \in Datasets : Unassign(d, t)
    PROVE  ExchangeInv'
<1>1. Bookkeeping /\ UNCHANGED <<tag, document, import>>
  BY DEF RemoveTerm, Unassign, Bookkeeping, rows, vars, exchangeVars, ExchangeInv, BytesInv,
         TypeInv, TypeOK
<1>2. /\ BytesInv'
      /\ \A l, k : Stored(l, k) <=> Stored(l, k)'
      /\ \A d : LiveDataset(d)' <=> LiveDataset(d)
  BY <1>1, BookkeepingArchive DEF ExchangeInv
<1>3. DocumentInv'
  BY <1>1, <1>2 DEF ExchangeInv, DocumentInv, Genuine, Stored, Bookkeeping, rows
<1>4. LinksInv'
  <2>1. CASE RemoveTerm(t)
    BY <1>2, <2>1 DEF RemoveTerm, ExchangeInv, LinksInv
  <2>2. ASSUME NEW d \in Datasets, Unassign(d, t)
        PROVE  LinksInv'
    BY <1>2, <2>2 DEF Unassign, exchangeVars, ExchangeInv, LinksInv
  <2>3. QED
    BY <2>1, <2>2
<1>5. QED
  BY <1>1, <1>2, <1>3, <1>4 DEF ExchangeInv, TagInv

(***************************************************************************)
(* Exports and imports                                                     *)
(***************************************************************************)

LEMMA MinuteType ==
    ASSUME TypeOK, NEW s \in Snapshots, LiveIssue(s)
    PROVE  /\ issues[s].loc \in Locations /\ issues[s].sum \in Content
           /\ MinuteOf(s) \in Minutes
BY DEF TypeOK, IssueRow, LiveIssue, MinuteOf, Locations

LEMMA ExportIsGenuine ==
    ASSUME ExchangeInv, NEW d \in Datasets, LiveDataset(d)
    PROVE  Genuine(ExportOf(d))
<1>1. /\ TypeOK
      /\ \A s \in Snapshots : LiveIssue(s) => Stored(issues[s].loc, issues[s].sum)
  BY DEF ExchangeInv, BytesInv, TypeInv
<1>2. \A x : x \in IssuesOf(d) => x \in Snapshots /\ LiveIssue(x)
  BY DEF IssuesOf
<1>0. PICK doc : doc = ExportOf(d)
  OBVIOUS
<1>3. /\ doc.slug = datasets[d].slug /\ doc.last = LastMinute(d) /\ doc.terms = TermsOf(d)
      /\ doc.refs = {[loc |-> issues[s].loc, sum |-> issues[s].sum] : s \in IssuesOf(d)}
      /\ doc = [slug |-> doc.slug, refs |-> doc.refs, last |-> doc.last, terms |-> doc.terms]
  BY <1>0 DEF ExportOf
<1>4. doc.slug \in Slugs
  BY <1>1, <1>3 DEF TypeOK, DatasetRow
<1>5. /\ doc.refs \subseteq Ref
      /\ \A r \in doc.refs : Stored(r.loc, r.sum)
  BY <1>1, <1>2, <1>3, MinuteType DEF Ref
<1>6. /\ doc.last \in Minutes \union {Nothing}
      /\ doc.last # Nothing => \E r \in doc.refs : r.loc[2] = doc.last
  <2>1. CASE datasets[d].last \in IssuesOf(d)
    <3>1. doc.last = issues[datasets[d].last].loc[2] /\ doc.last \in Minutes
      BY <1>1, <1>2, <1>3, <2>1, MinuteType DEF LastMinute, MinuteOf
    <3>2. [loc |-> issues[datasets[d].last].loc, sum |-> issues[datasets[d].last].sum] \in doc.refs
      BY <1>3, <2>1
    <3>3. QED
      BY <3>1, <3>2
  <2>2. CASE datasets[d].last \notin IssuesOf(d)
    BY <1>3, <2>2 DEF LastMinute
  <2>3. QED
    BY <2>1, <2>2
<1>7. doc.terms \subseteq Terms
  BY <1>3 DEF TermsOf, ExchangeInv, LinksInv
<1>8. doc \in Document
  BY <1>3, <1>4, <1>5, <1>6, <1>7 DEF Document
<1>9. QED
  BY <1>0, <1>5, <1>6, <1>8 DEF Genuine

LEMMA ExportExchange ==
    ASSUME ExchangeInv, NEW d \in Datasets, Export(d)
    PROVE  ExchangeInv'
<1>1. Bookkeeping /\ UNCHANGED <<terms, tag, links, import>>
  BY CountIsNat DEF Export, Bookkeeping, rows, ExchangeInv, BytesInv
<1>2. /\ BytesInv'
      /\ \A l, k : Stored(l, k) <=> Stored(l, k)'
      /\ \A x : LiveDataset(x)' <=> LiveDataset(x)
  BY <1>1, BookkeepingArchive DEF ExchangeInv
<1>3. Genuine(ExportOf(d)) /\ document' = ExportOf(d)
  BY ExportIsGenuine DEF Export
<1>4. UNCHANGED <<store, written, reused>>
  BY <1>1 DEF Bookkeeping, rows
<1>5. document' # Nothing => Genuine(document)'
  BY <1>3, <1>4 DEF Genuine, Stored
<1>6. DocumentInv'
  BY <1>1, <1>4, <1>5 DEF ExchangeInv, DocumentInv, Genuine, Stored
<1>7. QED
  BY <1>1, <1>2, <1>6 DEF ExchangeInv, LinksInv, TagInv

LEMMA BeginImportExchange ==
    ASSUME ExchangeInv, NEW d \in Datasets, NEW choice \in [Minutes -> Snapshots \union {Nothing}],
           NEW rewrites \in BOOLEAN, BeginImport(d, choice, rewrites)
    PROVE  ExchangeInv'
<1> DEFINE n == [pc |-> "commit", dataset |-> d, doc |-> document, existing |-> choice,
                 missing |-> (document.terms \intersect terms) \ TermsOf(d),
                 rewrites |-> rewrites, seen |-> datasets[d]]
<1>1. Bookkeeping /\ UNCHANGED <<terms, tag, links, document>> /\ import' = n
  BY CountIsNat DEF BeginImport, Bookkeeping, rows, ExchangeInv, BytesInv
<1>2. /\ BytesInv'
      /\ \A l, k : Stored(l, k) <=> Stored(l, k)'
      /\ \A x : LiveDataset(x)' <=> LiveDataset(x)
  BY <1>1, BookkeepingArchive DEF ExchangeInv
<1>3. Genuine(document) /\ document \in Document /\ document # Nothing
  BY DEF BeginImport, ExchangeInv, DocumentInv, Genuine
<1>4. datasets[d] \in DatasetRow /\ n.missing \subseteq Terms
  BY DEF ExchangeInv, BytesInv, TypeInv, TypeOK, LinksInv
<1>5. n \in Import
  BY <1>3, <1>4 DEF Import
<1>6. UNCHANGED <<store, written, reused>>
  BY <1>1 DEF Bookkeeping, rows
<1>7. DocumentInv'
  BY <1>1, <1>3, <1>5, <1>6 DEF DocumentInv, Genuine, Stored
<1>8. QED
  BY <1>1, <1>2, <1>7 DEF ExchangeInv, LinksInv, TagInv

LEMMA FailImportExchange ==
    ASSUME ExchangeInv, import' = IdleImport, UNCHANGED <<vars, terms, tag, links, document>>
    PROVE  ExchangeInv'
<1>1. Bookkeeping
  BY DEF Bookkeeping, rows, vars, ExchangeInv, BytesInv, TypeInv, TypeOK
<1>2. /\ BytesInv'
      /\ \A x : LiveDataset(x)' <=> LiveDataset(x)
  BY <1>1, BookkeepingArchive DEF ExchangeInv
<1>3. import'.pc = "idle" /\ import' \in Import
  BY IdleImportType DEF IdleImport
<1>4. DocumentInv'
  BY <1>1, <1>3 DEF ExchangeInv, DocumentInv, Genuine, Stored, Bookkeeping, rows
<1>5. QED
  BY <1>2, <1>4 DEF ExchangeInv, LinksInv, TagInv

\* What an import commits: the rows it adds have ids nobody has used, and repeat
\* references of its document; what was there stays as it was.
ImportAdds(d) ==
    /\ d \in Datasets
    /\ datasets' \in [Datasets -> DatasetRow]
    /\ \A x \in Datasets : x # d => datasets'[x] = datasets[x]
    /\ LiveDataset(d) => LiveDataset(d)'
    /\ LiveDataset(d)' => datasets'[d].slug # Nothing
    /\ issues' \in [Snapshots -> IssueRow]
    /\ \A s \in Snapshots :
          \/ issues'[s] = issues[s]
          \/ /\ Unused(s)
             /\ \E r \in import.doc.refs :
                   issues'[s] = [presence |-> "live", dataset |-> d, loc |-> r.loc, sum |-> r.sum]
             /\ LiveDataset(d)'
    /\ import.missing # {} => LiveDataset(d)'
    /\ import.missing \subseteq terms
    /\ links' = links \union ({d} \X import.missing)
    /\ UNCHANGED <<files, store, job, requests, crashes, written, reused, terms, tag, document>>

LEMMA CommitImportAdds ==
    ASSUME ExchangeInv, NEW id \in [NewMinutes -> Snapshots],
           NEW ref \in [NewMinutes -> Refs], CommitImport(id, ref)
    PROVE  import' = IdleImport /\ \E d : d = import.dataset /\ ImportAdds(d)
<1>0. PICK d : d = import.dataset
  OBVIOUS
<1>1. /\ import.pc = "commit" /\ ~ImportRefused(id)
      /\ datasets' = [datasets EXCEPT ![d] = ImportedRow(id)]
      /\ issues' = [s \in Snapshots |->
                       IF \E m \in NewMinutes : id[m] = s
                       THEN BuildSnapshot(ref[CHOOSE m \in NewMinutes : id[m] = s])
                       ELSE issues[s]]
      /\ links' = links \union ({d} \X import.missing)
      /\ \A m \in NewMinutes : Unused(id[m]) /\ ref[m] \in RefsAt(m)
      /\ UNCHANGED <<files, store, job, requests, crashes, written, reused, terms, tag, document>>
      /\ import' = IdleImport
  BY <1>0 DEF CommitImport
<1>2. /\ TypeOK /\ d \in Datasets /\ import \in Import /\ import.doc \in Document
      /\ import.seen \in DatasetRow
  BY <1>0, <1>1 DEF ExchangeInv, BytesInv, TypeInv, DocumentInv, Genuine, Import
<1>3. RestoredLast(id) \in Snapshots \union {Nothing}
  <2>1. import.doc.last \in Minutes \union {Nothing}
    BY <1>2 DEF Document
  <2>2. import.existing \in [Minutes -> Snapshots \union {Nothing}]
    BY <1>2 DEF Import
  <2>3. import.seen.last \in Snapshots \union {Nothing}
    BY <1>2 DEF DatasetRow
  <2>4. QED
    BY <2>1, <2>2, <2>3 DEF RestoredLast
<1>4. NextVersion(d) \in Nat
  BY <1>2 DEF TypeOK, DatasetRow, NextVersion
<1>5. /\ ImportedRow(id) \in DatasetRow
      /\ LiveDataset(d) => ImportedRow(id).presence = "live"
      /\ Creates => ImportedRow(id).presence = "live"
      /\ ~Creates => /\ ImportedRow(id).presence = datasets[d].presence
                     /\ ImportedRow(id).slug = datasets[d].slug
      /\ Creates => ImportedRow(id).slug \in Slugs
  <2>1. CASE Creates
    <3>1. /\ ImportedRow(id).presence = "live" /\ ImportedRow(id).slug = import.doc.slug
          /\ ImportedRow(id) \in DatasetRow
      BY <1>2, <1>3, <2>1 DEF ImportedRow, DatasetRow, Document, Presence
    <3>2. QED
      BY <1>2, <2>1, <3>1 DEF Document
  <2>2. CASE ~Creates
    BY <1>0, <1>2, <1>3, <1>4, <2>2 DEF ImportedRow, DatasetRow, TypeOK, LiveDataset
  <2>3. QED
    BY <2>1, <2>2
<1>6. /\ datasets'[d] = ImportedRow(id) /\ datasets' \in [Datasets -> DatasetRow]
      /\ \A x \in Datasets : x # d => datasets'[x] = datasets[x]
  BY <1>1, <1>2, <1>5 DEF TypeOK
<1>7. /\ LiveDataset(d) => LiveDataset(d)'
      /\ Creates => datasets'[d].presence = "live"
      /\ LiveDataset(d)' => datasets'[d].slug # Nothing
  BY <1>2, <1>5, <1>6, ConstantsAssumption DEF LiveDataset, TypeOK
<1>8. /\ NewMinutes # {} => LiveDataset(d)'
      /\ import.missing # {} => LiveDataset(d)'
      /\ import.missing \subseteq terms
  <2>1. /\ ~Creates /\ NewMinutes \union import.missing # {} => LiveDataset(d)
        /\ import.missing \subseteq terms
    BY <1>0, <1>1 DEF ImportRefused
  <2>2. Creates => LiveDataset(d)'
    BY <1>2, <1>7 DEF LiveDataset
  <2>3. QED
    BY <1>7, <2>1, <2>2
<1>9. ASSUME NEW s \in Snapshots
      PROVE  /\ issues'[s] \in IssueRow
             /\ \/ issues'[s] = issues[s]
                \/ /\ Unused(s)
                   /\ \E r \in import.doc.refs :
                         issues'[s] = [presence |-> "live", dataset |-> d, loc |-> r.loc, sum |-> r.sum]
                   /\ LiveDataset(d)'
  <2>1. CASE \E m \in NewMinutes : id[m] = s
    <3> DEFINE m == CHOOSE m \in NewMinutes : id[m] = s
    <3>1. m \in NewMinutes /\ id[m] = s
      BY <2>1
    <3> HIDE DEF m
    <3>2. issues'[s] = BuildSnapshot(ref[m])
      BY <1>1, <2>1 DEF m
    <3>3. Unused(s) /\ ref[m] \in import.doc.refs /\ LiveDataset(d)'
      BY <1>1, <1>8, <3>1 DEF RefsAt, Refs
    <3>4. issues'[s] = [presence |-> "live", dataset |-> d, loc |-> ref[m].loc, sum |-> ref[m].sum]
      BY <1>0, <3>2 DEF BuildSnapshot
    <3>5. ref[m].loc \in Locations /\ ref[m].sum \in Content
      BY <1>2, <3>3 DEF Document, Ref
    <3>6. QED
      BY <1>2, <3>3, <3>4, <3>5 DEF IssueRow, Presence
  <2>2. CASE ~\E m \in NewMinutes : id[m] = s
    BY <1>1, <1>2, <2>2 DEF TypeOK
  <2>3. QED
    BY <2>1, <2>2
<1>10. issues' \in [Snapshots -> IssueRow]
  BY <1>1, <1>9
<1>11. ImportAdds(d)
  BY <1>1, <1>2, <1>6, <1>7, <1>8, <1>9, <1>10 DEF ImportAdds
<1>12. QED
  BY <1>0, <1>1, <1>11

LEMMA ImportExchange ==
    ASSUME ExchangeInv, import.pc = "commit", NEW d, ImportAdds(d), import' = IdleImport
    PROVE  ExchangeInv'
<1>0. /\ TypeInv /\ TypeOK /\ d \in Datasets
      /\ \A r \in import.doc.refs : Stored(r.loc, r.sum) /\ r.loc \in Locations /\ r.sum \in Content
      /\ UNCHANGED <<files, store, job, requests, crashes, written, reused, terms, tag, document>>
  <2>1. TypeInv /\ TypeOK /\ Genuine(import.doc)
    BY DEF ExchangeInv, BytesInv, TypeInv, DocumentInv
  <2>2. import.doc.refs \subseteq Ref /\ \A r \in import.doc.refs : Stored(r.loc, r.sum)
    BY <2>1 DEF Genuine, Document
  <2>3. QED
    BY <2>1, <2>2 DEF Ref, ImportAdds
<1>1. datasets' \in [Datasets -> DatasetRow]
  BY DEF ImportAdds
<1>2. /\ \A x : LiveDataset(x) => LiveDataset(x)'
      /\ \A x \in Datasets : LiveDataset(x)' => datasets'[x].slug # Nothing
  BY <1>0 DEF ImportAdds, TypeOK, LiveDataset
<1>3. /\ \A s : LiveIssue(s) => LiveIssue(s)'
      /\ \A s \in Snapshots : LiveIssue(s)' =>
            \/ LiveIssue(s) /\ issues'[s] = issues[s]
            \/ /\ issues'[s].dataset = d /\ LiveDataset(d)'
               /\ issues'[s].loc \in Locations /\ issues'[s].sum \in Content
               /\ Stored(issues'[s].loc, issues'[s].sum)
  BY <1>0 DEF ImportAdds, LiveIssue, Unused
<1>4. issues' \in [Snapshots -> IssueRow]
  BY DEF ImportAdds
<1>5. \A s \in Snapshots : LiveIssue(s)' => /\ issues'[s].dataset \in Datasets
                                            /\ datasets'[issues'[s].dataset].presence = "live"
                                            /\ issues'[s].loc # Nothing
                                            /\ issues'[s].sum # Nothing
  <2>1. Nothing \notin Locations /\ Nothing \notin Content
    BY ConstantsAssumption
  <2>2. ASSUME NEW s \in Snapshots, LiveIssue(s)', LiveIssue(s), issues'[s] = issues[s]
        PROVE  /\ issues'[s].dataset \in Datasets
               /\ datasets'[issues'[s].dataset].presence = "live"
               /\ issues'[s].loc # Nothing /\ issues'[s].sum # Nothing
    BY <1>0, <1>2, <2>2 DEF TypeOK, LiveDataset
  <2>3. ASSUME NEW s \in Snapshots, issues'[s].dataset = d, LiveDataset(d)',
               issues'[s].loc \in Locations, issues'[s].sum \in Content
        PROVE  /\ issues'[s].dataset \in Datasets
               /\ datasets'[issues'[s].dataset].presence = "live"
               /\ issues'[s].loc # Nothing /\ issues'[s].sum # Nothing
    BY <1>0, <2>1, <2>3 DEF LiveDataset
  <2>4. QED
    BY <1>3, <2>2, <2>3
<1>6. TypeInv'
  <2>1. \A f \in Files : LiveFile(f)' => /\ LiveIssue(files[f].snap)'
                                         /\ files'[f].loc # Nothing
                                         /\ files'[f].sum # Nothing
    BY <1>0, <1>3 DEF TypeOK, LiveFile, LiveIssue
  <2>2. QED
    BY <1>0, <1>1, <1>2, <1>4, <1>5, <2>1 DEF TypeInv, TypeOK, LiveFile, LiveIssue, LiveDataset, JobComplete
<1>7. BytesInv'
  <2>1. /\ BytesInv
        /\ \A f \in Files : LiveFile(f)' => LiveFile(f) /\ files'[f] = files[f]
        /\ \A w \in Workers : Uploaded(job'[w]) => job'[w] = job[w]
    BY <1>0 DEF ExchangeInv, LiveFile
  <2>2. QED
    BY <1>0, <1>3, <1>6, <2>1, BytesKept
<1>8. LinksInv'
  <2>1. /\ links' = links \union ({d} \X import.missing) /\ terms' = terms
        /\ import.missing # {} => LiveDataset(d)'
        /\ import.missing \subseteq terms
    BY DEF ImportAdds
  <2>2. QED
    BY <1>0, <1>2, <2>1 DEF ExchangeInv, LinksInv
<1>9. DocumentInv'
  <2>1. import'.pc = "idle" /\ import' \in Import
    BY IdleImportType DEF IdleImport
  <2>2. QED
    BY <1>0, <2>1 DEF ExchangeInv, DocumentInv, Genuine, Stored
<1>10. QED
  BY <1>0, <1>7, <1>8, <1>9 DEF ExchangeInv, TagInv

(***************************************************************************)
(* Every step                                                              *)
(***************************************************************************)

IngestStep == [IngestNext]_<<exchangeAll, ingestVars>>

LEMMA ArchivalSteps ==
    ASSUME ExchangeInv, ArchiveStep \/ Ingest \/ Tick \/ UNCHANGED exchangeAll
    PROVE  Archival
<1>1. TypeOK /\ LinksInv
  BY DEF ExchangeInv, BytesInv, TypeInv
<1>2. CASE ArchiveStep
  <2>1. [Next]_vars /\ UNCHANGED exchangeVars
        /\ links' = {l \in links : datasets'[l[1]].presence = "live"}
    BY <1>2 DEF ArchiveStep
  <2>2. QED
    BY <1>1, <2>1 DEF Archival, LinksInv, LiveDataset
<1>3. ASSUME NEW w \in Workers, NEW p \in Pushes, NEW d \in Datasets, NEW s \in Snapshots,
             IngestWebhook(w, p, d, s)
      PROVE  Archival
  <2>1. Request(w) /\ UNCHANGED <<datasets, links, exchangeVars>>
    BY <1>3, IngestIsRequest DEF IngestWebhook
  <2>2. [Next]_vars
    BY <2>1 DEF Next
  <2>3. QED
    BY <1>1, <2>1, <2>2 DEF Archival, LinksInv, LiveDataset
<1>4. CASE UNCHANGED exchangeAll
  BY <1>1, <1>4 DEF exchangeAll, Archival, vars, LinksInv, LiveDataset
<1>5. QED
  BY <1>2, <1>3, <1>4 DEF Ingest, Tick

LEMMA ExchangeStep == ExchangeInv /\ IngestStep => ExchangeInv'
<1> SUFFICES ASSUME ExchangeInv, IngestStep PROVE ExchangeInv'
  OBVIOUS
<1>1. CASE ArchiveStep \/ Ingest \/ Tick \/ UNCHANGED exchangeAll
  BY <1>1, ArchivalSteps, ArchivalExchange
<1>2. CASE Taxonomy
  BY <1>2, RemovalsExchange, TagsExchange DEF Taxonomy
<1>3. ASSUME NEW c \in Curators, CommitAssign(c) \/ FailAssign(c)
      PROVE  ExchangeInv'
  BY <1>3, TagsExchange
<1>4. CASE Exchange
  <2>1. ASSUME NEW d \in Datasets, Export(d)
        PROVE  ExchangeInv'
    BY <2>1, ExportExchange
  <2>2. ASSUME NEW d \in Datasets, NEW choice \in [Minutes -> Snapshots \union {Nothing}],
               NEW rewrites \in BOOLEAN, BeginImport(d, choice, rewrites)
        PROVE  ExchangeInv'
    BY <2>2, BeginImportExchange
  <2>3. ASSUME NEW id \in [NewMinutes -> Snapshots], FailImport(id)
        PROVE  ExchangeInv'
    BY <2>3, FailImportExchange DEF FailImport
  <2>4. ASSUME NEW id \in [NewMinutes -> Snapshots], NEW ref \in [NewMinutes -> Refs],
               CommitImport(id, ref)
        PROVE  ExchangeInv'
    <3>1. import.pc = "commit" /\ import' = IdleImport /\ \E d : ImportAdds(d)
      BY <2>4, CommitImportAdds DEF CommitImport
    <3>2. QED
      BY <3>1, ImportExchange
  <2>5. QED
    BY <1>4, <2>1, <2>2, <2>3, <2>4 DEF Exchange
<1>5. QED
  BY <1>1, <1>2, <1>3, <1>4 DEF IngestStep, IngestNext, ExchangeNext

LEMMA ExchangeInitially == IngestInit => ExchangeInv
<1> SUFFICES ASSUME IngestInit PROVE ExchangeInv
  OBVIOUS
<1>1. Init /\ TypeInv
  BY TypeInit DEF IngestInit, ExchangeInit
<1>2. BytesInv
  BY <1>1 DEF Init, BytesInv, NoIssue, NoFile, IdleJob, LiveIssue, LiveFile, Uploaded
<1>3. LinksInv /\ TagInv /\ DocumentInv
  BY IdleTagType, IdleImportType DEF IngestInit, ExchangeInit, LinksInv, TagInv, DocumentInv,
     IdleTag, IdleImport
<1>4. QED
  BY <1>2, <1>3 DEF ExchangeInv

LEMMA ExchangeAlways == IngestSpec => []ExchangeInv
<1>1. IngestInit /\ [][IngestNext]_<<exchangeAll, ingestVars>> => []ExchangeInv
  BY ExchangeInitially, ExchangeStep, PTL DEF IngestStep
<1>2. QED
  BY <1>1 DEF IngestSpec

(***************************************************************************)
(* What is true of every history                                           *)
(***************************************************************************)

\* Imports, assignments and pushes keep the types and the foreign keys of all rows.
THEOREM IngestTypeCorrect == IngestSpec => []IngestTypeOK
<1> DEFINE Origins == clock \in Nat /\ origin \in [Snapshots -> Pushes \union {Nothing}]
<1>1. IngestInit => Origins
  BY DEF IngestInit
<1>2. Origins /\ [IngestNext]_<<exchangeAll, ingestVars>> => Origins'
  BY DEF IngestNext, KeepOrigin, Ingest, IngestWebhook, Tick, ingestVars
<1>3. ExchangeInv /\ Origins => IngestTypeOK
  BY DEF ExchangeInv, BytesInv, TypeInv, LinksInv, TagInv, DocumentInv, Genuine,
         IngestTypeOK, ExchangeTypeOK
<1>4. QED
  BY <1>1, <1>2, <1>3, ExchangeAlways, PTL DEF IngestSpec

\* Imported rows repeat references to bytes that were stored: beside imports, too, a
\* row describes the bytes at its location unless that was used again.
THEOREM ImportsKeepBytes == IngestSpec => []BytesIntact
<1>1. ExchangeInv => BytesIntact
  BY DEF ExchangeInv, BytesInv, BytesIntact, Stored
<1>2. QED
  BY <1>1, ExchangeAlways, PTL

(***************************************************************************)
(* What an import does                                                     *)
(***************************************************************************)

\* Every minute of the document is in the dataset when the import commits, and so
\* is what was there before.
LEMMA ImportRows ==
    ASSUME ExchangeInv, NEW id \in [NewMinutes -> Snapshots],
           NEW ref \in [NewMinutes -> Refs], CommitImport(id, ref),
           NEW d, d = import.dataset
    PROVE  /\ \A s : s \in IssuesOf(d) => s \in IssuesOf(d)' /\ issues'[s] = issues[s]
           /\ \A m \in NewMinutes : id[m] \in IssuesOf(d)' /\ issues'[id[m]].loc[2] = m
<1>1. \A s : s \in IssuesOf(d) => s \in IssuesOf(d)' /\ issues'[s] = issues[s]
  <2>1. ImportAdds(d)
    BY CommitImportAdds
  <2>2. QED
    BY <2>1 DEF ImportAdds, IssuesOf, LiveIssue, Unused
<1>2. ASSUME NEW m \in NewMinutes
      PROVE  id[m] \in IssuesOf(d)' /\ issues'[id[m]].loc[2] = m
  <2>1. id[m] \in Snapshots /\ \A n \in NewMinutes : id[n] = id[m] => n = m
    BY DEF CommitImport
  <2>2. (CHOOSE n \in NewMinutes : id[n] = id[m]) = m
    BY <2>1
  <2>3. issues'[id[m]] = BuildSnapshot(ref[m])
    BY <2>1, <2>2 DEF CommitImport
  <2>4. ref[m].loc[2] = m
    BY DEF CommitImport, RefsAt
  <2>5. QED
    BY <2>1, <2>3, <2>4 DEF BuildSnapshot, IssuesOf, LiveIssue
<1>3. QED
  BY <1>1, <1>2

\* A minute of the document that is not new has an issue already.
LEMMA ExistingRows ==
    ASSUME ExchangeInv, import.pc = "commit", ImportUndisturbed,
           NEW m \in Minutes, RefsAt(m) # {}, m \notin NewMinutes
    PROVE  /\ import.existing[m] \in IssuesOf(import.dataset)
           /\ MinuteOf(import.existing[m]) = m
BY DEF NewMinutes, ImportUndisturbed, ExistingBy

\* The last an import leaves is the one it has restored.
LEMMA RestoredRow ==
    ASSUME ExchangeInv, NEW id \in [NewMinutes -> Snapshots],
           NEW ref \in [NewMinutes -> Refs], CommitImport(id, ref), ImportUndisturbed,
           NEW d, d = import.dataset
    PROVE  datasets'[d].last = RestoredLast(id)
<1>1. /\ d \in Datasets /\ datasets'[d] = ImportedRow(id)
      /\ datasets[d] \in DatasetRow /\ datasets[d] = import.seen
  BY DEF CommitImport, ExchangeInv, DocumentInv, BytesInv, TypeInv, TypeOK, ImportUndisturbed
<1>2. QED
  BY <1>1 DEF ImportedRow, DatasetRow

LEMMA MinutesAreMinutes ==
    ASSUME ExchangeInv, import.pc = "commit"
    PROVE  /\ \A r \in Refs : r.loc[2] \in Minutes
           /\ import.doc.last # Nothing => import.doc.last \in Minutes /\ RefsAt(import.doc.last) # {}
<1>1. Genuine(import.doc) /\ Refs = import.doc.refs
  BY DEF ExchangeInv, DocumentInv, Refs
<1>2. \A r \in Refs : r.loc \in Locations
  BY <1>1 DEF Genuine, Document, Ref
<1>3. \A r \in Refs : r.loc[2] \in Minutes
  BY <1>2 DEF Locations
<1>4. QED
  BY <1>1, <1>3 DEF Genuine, Document, RefsAt

LEMMA CarriesDocument ==
    ASSUME ExchangeInv, NEW id \in [NewMinutes -> Snapshots],
           NEW ref \in [NewMinutes -> Refs], CommitImport(id, ref), ImportUndisturbed,
           NEW d, d = import.dataset
    PROVE  /\ {r.loc[2] : r \in Refs} \subseteq MinutesOf(d)'
           /\ import.doc.last # Nothing => LastMinute(d)' = import.doc.last
           /\ import.doc.terms \intersect terms \subseteq TermsOf(d)'
           /\ IssuesOf(d) \subseteq IssuesOf(d)'
<1>0. import.pc = "commit"
  BY DEF CommitImport
<1>1. /\ \A s : s \in IssuesOf(d) => s \in IssuesOf(d)' /\ issues'[s] = issues[s]
      /\ \A m \in NewMinutes : id[m] \in IssuesOf(d)' /\ issues'[id[m]].loc[2] = m
  BY ImportRows
<1>2. ASSUME NEW m \in Minutes, RefsAt(m) # {}, m \notin NewMinutes
      PROVE  /\ import.existing[m] \in IssuesOf(d)'
             /\ issues'[import.existing[m]].loc[2] = m
  BY <1>0, <1>1, <1>2, ExistingRows DEF MinuteOf
<1>3. ASSUME NEW r \in Refs PROVE r.loc[2] \in MinutesOf(d)'
  <2>1. PICK m : m = r.loc[2]
    OBVIOUS
  <2>2. m \in Minutes /\ RefsAt(m) # {}
    BY <1>0, <2>1, MinutesAreMinutes DEF RefsAt
  <2>3. \E s \in IssuesOf(d)' : issues'[s].loc[2] = m
    BY <1>1, <1>2, <2>2
  <2>4. QED
    BY <2>1, <2>3 DEF MinutesOf, MinuteOf
<1>4. ASSUME import.doc.last # Nothing PROVE LastMinute(d)' = import.doc.last
  <2>1. PICK m : m = import.doc.last
    OBVIOUS
  <2>2. m \in Minutes /\ RefsAt(m) # {} /\ m # Nothing
    BY <1>0, <1>4, <2>1, MinutesAreMinutes
  <2>3. RestoredLast(id) = IF m \in NewMinutes THEN id[m] ELSE import.existing[m]
    BY <2>1, <2>2 DEF RestoredLast
  <2>4. RestoredLast(id) \in IssuesOf(d)' /\ issues'[RestoredLast(id)].loc[2] = m
    BY <1>1, <1>2, <2>2, <2>3
  <2>5. datasets'[d].last = RestoredLast(id)
    BY RestoredRow
  <2>6. QED
    BY <2>1, <2>4, <2>5 DEF LastMinute, MinuteOf
<1>5. import.doc.terms \intersect terms \subseteq TermsOf(d)'
  <2>1. /\ links' = links \union ({d} \X import.missing) /\ terms' = terms
        /\ import.missing = (import.doc.terms \intersect terms) \ TermsOf(d)
    BY DEF CommitImport, ImportUndisturbed
  <2>2. QED
    BY <2>1 DEF TermsOf
<1>6. QED
  BY <1>1, <1>3, <1>4, <1>5

\* An import leaves the dataset with everything its document says, last included.
THEOREM ImportsCarryDocument == IngestSpec => ImportCarriesDocument
<1>1. ExchangeInv => [Imported /\ ImportUndisturbed =>
          \A d \in {import.dataset} :
             /\ {r.loc[2] : r \in Refs} \subseteq MinutesOf(d)'
             /\ import.doc.last # Nothing => LastMinute(d)' = import.doc.last
             /\ import.doc.terms \intersect terms \subseteq TermsOf(d)'
             /\ IssuesOf(d) \subseteq IssuesOf(d)']_<<catalogue, import>>
  BY CarriesDocument DEF Imported
<1>2. QED
  BY <1>1, ExchangeAlways, PTL DEF ImportCarriesDocument

LEMMA SaysWhatIsThere ==
    ASSUME ExchangeInv, NEW id \in [NewMinutes -> Snapshots],
           NEW ref \in [NewMinutes -> Refs], CommitImport(id, ref), ImportUndisturbed,
           ~import.rewrites, NEW d, d = import.dataset, LiveDataset(d),
           OneIssuePerMinute(d), import.doc = ExportOf(d)
    PROVE  UNCHANGED catalogue
<1>1. /\ TypeOK /\ d \in Datasets /\ import.pc = "commit"
      /\ datasets[d] = import.seen /\ datasets[d] \in DatasetRow
      /\ datasets[d].presence = "live"
  BY DEF ExchangeInv, BytesInv, TypeInv, TypeOK, CommitImport, ImportUndisturbed, DocumentInv,
         LiveDataset
<1>2. /\ Refs = {[loc |-> issues[s].loc, sum |-> issues[s].sum] : s \in IssuesOf(d)}
      /\ import.doc.last = LastMinute(d) /\ import.doc.terms = TermsOf(d)
  BY <1>1 DEF Refs, ExportOf
<1>3. NewMinutes = {}
  <2>1. SUFFICES ASSUME NEW m \in Minutes, RefsAt(m) # {} PROVE import.existing[m] # Nothing
    BY DEF NewMinutes
  <2>2. PICK r \in Refs : r.loc[2] = m
    BY <2>1 DEF RefsAt
  <2>3. PICK s \in IssuesOf(d) : r = [loc |-> issues[s].loc, sum |-> issues[s].sum]
    BY <1>2
  <2>4. m \in MinutesOf(d)
    BY <2>2, <2>3 DEF MinutesOf, MinuteOf
  <2>5. import.existing[m] \in IssuesOf(d)
    BY <2>4 DEF ImportUndisturbed, ExistingBy
  <2>6. QED
    BY <2>5, ConstantsAssumption DEF IssuesOf
<1>4. issues' = issues
  <2>1. issues' = [s \in Snapshots |-> issues[s]]
    BY <1>3 DEF CommitImport
  <2>2. QED
    BY <1>1, <2>1 DEF TypeOK
<1>5. links' = links
  <2>1. import.missing = {}
    BY <1>2 DEF ImportUndisturbed
  <2>2. QED
    BY <2>1 DEF CommitImport
<1>6. RestoredLast(id) = datasets[d].last
  <2>1. PICK m : m = LastMinute(d)
    OBVIOUS
  <2>2. CASE m = Nothing
    BY <1>1, <1>2, <2>1, <2>2 DEF RestoredLast
  <2>3. CASE m # Nothing
    <3>1. datasets[d].last \in IssuesOf(d) /\ MinuteOf(datasets[d].last) = m
      BY <2>1, <2>3 DEF LastMinute
    <3>2. m \in Minutes /\ RefsAt(m) # {} /\ m \notin NewMinutes
      BY <1>1, <1>2, <1>3, <2>1, <2>3, MinutesAreMinutes
    <3>3. import.existing[m] \in IssuesOf(d) /\ MinuteOf(import.existing[m]) = m
      BY <1>1, <3>2, ExistingRows
    <3>4. import.existing[m] = datasets[d].last
      BY <3>1, <3>3 DEF OneIssuePerMinute
    <3>5. RestoredLast(id) = import.existing[m]
      BY <1>2, <2>1, <2>3, <3>2 DEF RestoredLast
    <3>6. QED
      BY <3>4, <3>5
  <2>4. QED
    BY <2>2, <2>3
<1>7. datasets' = datasets
  <2>1. ImportedRow(id) = datasets[d]
    BY <1>1, <1>6 DEF ImportedRow, Creates
  <2>2. datasets' = [datasets EXCEPT ![d] = datasets[d]]
    BY <2>1 DEF CommitImport
  <2>3. QED
    BY <1>1, <2>2 DEF TypeOK
<1>8. QED
  BY <1>4, <1>5, <1>7 DEF catalogue

\* Importing what is already there changes nothing, unless a minute has two issues.
THEOREM ReimportsAreNoOps == IngestSpec => ReimportIsNoOp
<1>1. ASSUME ExchangeInv, Imported, ImportUndisturbed, ~import.rewrites, NEW d \in Datasets,
             d = import.dataset, LiveDataset(d), OneIssuePerMinute(d), import.doc = ExportOf(d)
      PROVE  UNCHANGED catalogue
  BY <1>1, SaysWhatIsThere DEF Imported
<1>2. ExchangeInv => [Imported /\ ImportUndisturbed /\ ~import.rewrites =>
          \A d \in Datasets :
             /\ d = import.dataset /\ LiveDataset(d) /\ OneIssuePerMinute(d)
             /\ import.doc = ExportOf(d)
             => UNCHANGED catalogue]_catalogue
  BY <1>1
<1>3. QED
  BY <1>2, ExchangeAlways, PTL DEF ReimportIsNoOp

(***************************************************************************)
(* The pointer beside imports                                              *)
(***************************************************************************)

\* What an import has read to restore the pointer from: issues of its dataset, as
\* far as they are still there.  A dataset that is not in use has no pointer.
PointerInv ==
    /\ OwnInv
    /\ \A d \in Datasets : datasets[d].presence = "new" => datasets[d].last = Nothing
    /\ import.pc = "commit" =>
          /\ import.seen.last # Nothing => Knows(import.seen.last, import.dataset)
          /\ \A m \in Minutes :
                import.existing[m] # Nothing => Knows(import.existing[m], import.dataset)

LEMMA UnusedRowsHaveNoLast ==
    ASSUME OwnInv, [Next]_vars, NEW d \in Datasets,
           datasets[d].presence = "new" => datasets[d].last = Nothing
    PROVE  datasets'[d].presence = "new" => datasets'[d].last = Nothing
<1>0. TypeInv /\ TypeOK
  BY DEF OwnInv, TypeInv
<1>1. ASSUME NEW x \in Datasets, NEW slug \in Slugs, CreateDataset(x, slug) \/ UpdateDataset(x, slug)
      PROVE  datasets'[d].presence = "new" => datasets'[d] = datasets[d]
  <2>1. CASE CreateDataset(x, slug)
    BY <1>0, <2>1 DEF CreateDataset, TypeOK
  <2>2. CASE UpdateDataset(x, slug)
    <3>1. datasets'[x].presence = "live"
      BY <1>0, <2>2 DEF UpdateDataset, LiveDataset, TypeOK, DatasetRow
    <3>2. x # d => datasets'[d] = datasets[d]
      BY <1>0, <2>2 DEF UpdateDataset, TypeOK
    <3>3. QED
      BY <3>1, <3>2
  <2>3. QED
    BY <1>1, <2>1, <2>2
<1>2. ASSUME NEW x \in Datasets, DeleteDataset(x)
      PROVE  datasets'[d].presence = "new" => datasets'[d] = datasets[d]
  BY <1>0, <1>2 DEF DeleteDataset, NoDataset, TypeOK
<1>3. ASSUME NEW w \in Workers, Commit(w)
      PROVE  datasets'[d].presence = "new" => datasets'[d] = datasets[d]
  <2>1. /\ job[w].dataset \in Datasets /\ job[w].snap \in Snapshots /\ ~Refused(job[w])
    BY <1>0, <1>3 DEF Commit, CommitAdd, CommitSetLast, CommitDelete, CommitAddFile,
                      CommitDeleteFile, Finish, TypeInv, JobComplete
  <2>2. \/ datasets' = datasets
        \/ /\ LiveDataset(job[w].dataset)
           /\ \E t \in Snapshots \union {Nothing} : datasets' = PointedTo(job[w].dataset, t)
    BY <1>3, <2>1 DEF Commit, CommitAdd, CommitSetLast, CommitDelete, CommitAddFile,
                      CommitDeleteFile, Refused, RowLost
  <2>3. ASSUME LiveDataset(job[w].dataset), NEW t \in Snapshots \union {Nothing},
               datasets' = PointedTo(job[w].dataset, t)
        PROVE  datasets'[d].presence = "new" => datasets'[d] = datasets[d]
    <3>1. d # job[w].dataset => datasets'[d] = datasets[d]
      BY <1>0, <2>1, <2>3 DEF PointedTo, TypeOK
    <3>2. datasets'[d].presence = datasets[d].presence
      BY <1>0, <2>1, <2>3, PointedToType
    <3>3. QED
      BY <2>3, <3>1, <3>2 DEF LiveDataset
  <2>4. QED
    BY <2>2, <2>3
<1>4. ASSUME NEW w \in Workers, Request(w)
      PROVE  datasets' = datasets
  BY <1>0, <1>4, RequestStarts DEF Start
<1>5. datasets'[d].presence = "new" => datasets'[d] = datasets[d]
  BY <1>1, <1>2, <1>3, <1>4 DEF Next, Catalogue, vars, PutBytes, DropBytes, Fail, Crash
<1>6. QED
  BY <1>5

\* The invariant of the archive does not depend on more than its own variables.
LEMMA OwnOfRows ==
    ASSUME OwnInv, TypeInv', UNCHANGED <<datasets, issues, job>>
    PROVE  OwnInv'
BY OwnKept DEF LiveDataset

LEMMA ImportPointer ==
    ASSUME ExchangeInv, ExchangeInv', PointerInv,
           NEW id \in [NewMinutes -> Snapshots], NEW ref \in [NewMinutes -> Refs],
           CommitImport(id, ref)
    PROVE  PointerInv'
<1>0. PICK d : d = import.dataset /\ ImportAdds(d)
  BY CommitImportAdds
<1>1. /\ TypeInv /\ TypeInv' /\ TypeOK /\ OwnInv /\ import.pc = "commit" /\ d \in Datasets
      /\ import \in Import /\ job' = job
      /\ \A s : Knows(s, d) => s \in Snapshots
  BY <1>0 DEF ExchangeInv, BytesInv, TypeInv, DocumentInv, PointerInv, CommitImport, Knows, ImportAdds
<1>2. \A s \in Snapshots :
         \/ issues'[s] = issues[s]
         \/ /\ issues[s].presence = "new" /\ (\A w \in Workers : job[w].snap # s)
            /\ issues'[s].presence = "live" /\ issues'[s].dataset = d
  BY <1>0 DEF ImportAdds, Unused
<1>3. /\ datasets'[d] = ImportedRow(id)
      /\ \A x \in Datasets : x # d => datasets'[x] = datasets[x]
  BY <1>0, <1>1 DEF CommitImport, TypeOK
<1>4. \/ RestoredLast(id) = Nothing
      \/ /\ RestoredLast(id) \in Snapshots /\ issues'[RestoredLast(id)].presence # "new"
         /\ issues'[RestoredLast(id)].presence = "live" => issues'[RestoredLast(id)].dataset = d
  <2>1. \A s : Knows(s, d) => /\ s \in Snapshots /\ issues'[s].presence # "new"
                              /\ issues'[s].presence = "live" => issues'[s].dataset = d
    BY <1>2 DEF Knows, LiveIssue
  <2>2. import.seen.last # Nothing => Knows(import.seen.last, d)
    BY <1>0, <1>1 DEF PointerInv
  <2>3. \A m \in Minutes : import.existing[m] # Nothing => Knows(import.existing[m], d)
    BY <1>0, <1>1 DEF PointerInv
  <2>4. \A m \in NewMinutes : id[m] \in Snapshots /\ issues'[id[m]].presence = "live"
                                                   /\ issues'[id[m]].dataset = d
    BY <1>0, ImportRows DEF IssuesOf, LiveIssue
  <2>5. import.doc.last # Nothing => import.doc.last \in Minutes
    BY <1>1, MinutesAreMinutes
  <2>6. QED
    BY <2>1, <2>2, <2>3, <2>4, <2>5 DEF RestoredLast
<1>5. /\ datasets'[d].last \in {datasets[d].last, RestoredLast(id)}
      /\ datasets[d].presence # "live" => datasets'[d].last = RestoredLast(id)
                                          \/ datasets'[d] = datasets[d]
  <2>1. CASE Creates
    BY <1>3, <2>1 DEF ImportedRow
  <2>2. CASE ~Creates
    <3>1. \/ ImportedRow(id).last = RestoredLast(id)
          \/ ImportedRow(id) = datasets[d]
          \/ import.rewrites /\ ImportedRow(id).last = datasets[d].last
      BY <1>0, <1>1, <2>2 DEF ImportedRow, TypeOK, DatasetRow
    <3>2. import.rewrites => LiveDataset(d)
      BY <1>0, <2>2 DEF CommitImport, ImportRefused, RowLost
    <3>3. QED
      BY <1>1, <1>3, <3>1, <3>2 DEF LiveDataset
  <2>3. QED
    BY <2>1, <2>2
<1>6. \A x \in Datasets : datasets[x].last \in Snapshots \union {Nothing}
  BY <1>1 DEF TypeOK, DatasetRow
<1>7. LastIsOwn'
  <2>1. SUFFICES ASSUME NEW x \in Datasets, datasets'[x].presence = "live",
                        datasets'[x].last \in Snapshots,
                        issues'[datasets'[x].last].presence = "live"
                 PROVE  issues'[datasets'[x].last].dataset = x
    BY DEF LastIsOwn, LiveDataset, LiveIssue
  <2>2. CASE x = d /\ datasets'[x].last = RestoredLast(id)
    BY <1>4, <2>1, <2>2, ConstantsAssumption
  <2>3. CASE datasets'[x].last = datasets[x].last /\ datasets[x].presence = "live"
    <3>1. issues[datasets[x].last].presence # "new"
      BY <1>1, <2>1, <2>3, ConstantsAssumption DEF OwnInv
    <3>2. issues'[datasets[x].last] = issues[datasets[x].last]
      BY <1>2, <2>1, <2>3, <3>1
    <3>3. QED
      BY <1>1, <2>1, <2>3, <3>2 DEF OwnInv, LastIsOwn, LiveDataset, LiveIssue
  <2>4. QED
    BY <1>3, <1>5, <2>1, <2>2, <2>3
<1>8. \A s \in Snapshots : issues'[s].presence = "new" => issues'[s].dataset = Nothing
  BY <1>1, <1>2 DEF OwnInv
<1>9. \A x \in Datasets :
         datasets'[x].last # Nothing => issues'[datasets'[x].last].presence # "new"
  <2>1. \A x \in Datasets : datasets[x].last # Nothing => issues'[datasets[x].last].presence # "new"
    BY <1>1, <1>2, <1>6 DEF OwnInv
  <2>2. QED
    BY <1>3, <1>4, <1>5, <2>1
<1>10. \A w \in Workers : Adding(job[w]) => issues'[job[w].snap].presence = "new"
  BY <1>1, <1>2 DEF OwnInv, Adding, TypeInv, JobComplete
<1>11. \A w \in Workers : Pointing(job[w]) =>
          /\ issues'[job[w].snap].presence # "new"
          /\ issues'[job[w].snap].presence = "live" => issues'[job[w].snap].dataset = job[w].dataset
  BY <1>1, <1>2 DEF OwnInv, Pointing, TypeInv, JobComplete, LiveIssue
<1>12. OwnInv'
  BY <1>1, <1>7, <1>8, <1>9, <1>10, <1>11 DEF OwnInv, LiveIssue, Adding, Pointing
<1>13. \A x \in Datasets : datasets'[x].presence = "new" => datasets'[x].last = Nothing
  <2>1. datasets'[d].presence = "new" => datasets'[d] = datasets[d]
    <3>1. CASE Creates
      BY <1>3, <3>1 DEF ImportedRow
    <3>2. CASE ~Creates
      <4>1. RestoredLast(id) # import.seen.last \/ import.rewrites => LiveDataset(d)
        BY <1>0, <3>2 DEF CommitImport, ImportRefused, RowLost
      <4>2. QED
        BY <1>0, <1>1, <1>3, <3>2, <4>1 DEF ImportedRow, LiveDataset, TypeOK, DatasetRow
    <3>3. QED
      BY <3>1, <3>2
  <2>2. QED
    BY <1>3, <2>1 DEF PointerInv
<1>14. import'.pc = "idle"
  BY DEF CommitImport, IdleImport
<1>15. QED
  BY <1>12, <1>13, <1>14 DEF PointerInv

LEMMA PointerStep == ExchangeInv /\ ExchangeInv' /\ PointerInv /\ IngestStep => PointerInv'
<1> SUFFICES ASSUME ExchangeInv, ExchangeInv', PointerInv, IngestStep PROVE PointerInv'
  OBVIOUS
<1>1. TypeInv /\ TypeInv' /\ TypeOK /\ OwnInv
  BY DEF ExchangeInv, BytesInv, PointerInv, TypeInv
<1>2. CASE Archival
  <2>1. OwnInv' /\ import' = import /\ \A s, d : Knows(s, d) => Knows(s, d)'
    BY <1>1, <1>2, OwnStep, KnowledgeKept DEF Archival, exchangeVars
  <2>2. \A d \in Datasets : datasets'[d].presence = "new" => datasets'[d].last = Nothing
    BY <1>1, <1>2, UnusedRowsHaveNoLast DEF Archival, PointerInv
  <2>3. import.pc = "commit" /\ import.seen.last # Nothing => Knows(import.seen.last, import.dataset)'
    BY <2>1 DEF PointerInv, Knows, LiveIssue
  <2>4. ASSUME import.pc = "commit", NEW m \in Minutes, import.existing[m] # Nothing
        PROVE  Knows(import.existing[m], import.dataset)'
    BY <2>1, <2>4 DEF PointerInv, Knows, LiveIssue
  <2>5. QED
    BY <2>1, <2>2, <2>3, <2>4 DEF PointerInv
<1>3. ASSUME UNCHANGED <<datasets, issues, job>>, UNCHANGED import \/ import'.pc = "idle"
      PROVE  PointerInv'
  BY <1>1, <1>3, OwnOfRows DEF PointerInv, Knows, LiveIssue
<1>4. ASSUME NEW d \in Datasets, NEW choice \in [Minutes -> Snapshots \union {Nothing}],
             NEW rewrites \in BOOLEAN, BeginImport(d, choice, rewrites)
      PROVE  PointerInv'
  <2>1. /\ UNCHANGED <<datasets, issues, job>> /\ ExistingBy(d, choice)
        /\ import'.seen = datasets[d] /\ import'.existing = choice /\ import'.dataset = d
    BY <1>4 DEF BeginImport, rows
  <2>2. datasets[d].last # Nothing => Knows(datasets[d].last, d)
    <3>1. datasets[d].last \in Snapshots \union {Nothing}
      BY <1>1 DEF TypeOK, DatasetRow
    <3>2. datasets[d].last # Nothing => LiveDataset(d)
      <4>1. datasets[d].presence # "new" \/ datasets[d].last = Nothing
        BY DEF PointerInv
      <4>2. QED
        BY <1>4, <4>1 DEF BeginImport, Target, LiveDataset
    <3>3. QED
      BY <1>1, <3>1, <3>2 DEF OwnInv, LastIsOwn, Knows
  <2>3. ASSUME NEW m \in Minutes, choice[m] # Nothing
        PROVE  Knows(choice[m], d)
    BY <2>1, <2>3 DEF ExistingBy, IssuesOf, LiveIssue, Knows
  <2>4. OwnInv'
    BY <1>1, <2>1, OwnOfRows
  <2>5. QED
    BY <2>1, <2>2, <2>3, <2>4 DEF PointerInv, Knows, LiveIssue
<1>5. CASE Taxonomy \/ \E c \in Curators : CommitAssign(c) \/ FailAssign(c)
  BY <1>3, <1>5 DEF Taxonomy, RemoveTerm, Unassign, Assign, CommitAssign, FailAssign, rows, vars,
                    exchangeVars
<1>6. CASE Exchange
  <2>1. ASSUME NEW d \in Datasets, Export(d)
        PROVE  PointerInv'
    BY <1>3, <2>1 DEF Export, rows
  <2>2. ASSUME NEW id \in [NewMinutes -> Snapshots], FailImport(id)
        PROVE  PointerInv'
    BY <1>3, <2>2 DEF FailImport, vars, IdleImport
  <2>3. ASSUME NEW id \in [NewMinutes -> Snapshots], NEW ref \in [NewMinutes -> Refs],
               CommitImport(id, ref)
        PROVE  PointerInv'
    BY <2>3, ImportPointer
  <2>4. QED
    BY <1>4, <1>6, <2>1, <2>2, <2>3 DEF Exchange
<1>7. CASE ArchiveStep \/ Ingest \/ Tick \/ UNCHANGED exchangeAll
  BY <1>2, <1>7, ArchivalSteps
<1>8. QED
  BY <1>5, <1>6, <1>7 DEF IngestStep, IngestNext, ExchangeNext

\* An import does not lead "last" into another dataset, whatever was uploaded,
\* pointed to or deleted between its look and its commit.
THEOREM ImportsKeepLastOwn == IngestSpec => []LastIsOwn
<1>1. IngestInit => PointerInv
  BY OwnInit DEF IngestInit, ExchangeInit, Init, NoDataset, IdleImport, PointerInv
<1>2. PointerInv => LastIsOwn
  BY DEF PointerInv, OwnInv
<1>3. ExchangeInv /\ ExchangeInv' /\ PointerInv /\ [IngestNext]_<<exchangeAll, ingestVars>>
         => PointerInv'
  BY PointerStep DEF IngestStep
<1>4. QED
  BY <1>1, <1>2, <1>3, ExchangeAlways, PTL DEF IngestSpec

=============================================================================
