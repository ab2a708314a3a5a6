--------------------------- MODULE DatasetExchange ---------------------------
(***************************************************************************)
(* Categories, and the export and import of datasets, on top of the        *)
(* archive.                                                                *)
(*                                                                         *)
(* A category is a term of the cms plugin; dataset_term rows link it to    *)
(* datasets.  Assigning reads, then commits, so other requests come in     *)
(* between.  An export is a document that names no row by its id; an       *)
(* import reads what is there and adds, in one transaction, what the       *)
(* document has more.  Documents are those this installation exported, at  *)
(* any earlier time; fields without a model are the same in all of them.   *)
(***************************************************************************)
EXTENDS DatasetArchive

CONSTANTS
    Terms,       \* category terms, named by their slugs
    Curators     \* a curator has one request at a time

ASSUME ExchangeConstantsAssumption == Nothing \notin Minutes \union Terms

VARIABLES
    terms,    \* terms that exist
    links,    \* dataset_term rows
    tag,      \* the assignment each curator is making
    document, \* the export somebody keeps, or Nothing
    import    \* the import that is running

catalogue    == <<datasets, issues, links>>
rows         == <<datasets, issues, files, store, job, crashes, written, reused>>
exchangeVars == <<terms, tag, document, import>>

\* Assignments, exports and imports count as requests of the archive.
Count == requests < MaxRequests /\ requests' = requests + 1

(***************************************************************************)
(* Categories                                                              *)
(***************************************************************************)
Tag == [pc: {"idle", "commit"}, datasets: SUBSET Datasets, term: Terms \union {Nothing},
        missing: SUBSET Datasets]
IdleTag == [pc |-> "idle", datasets |-> {}, term |-> Nothing, missing |-> {}]

Linked(t) == {d \in Datasets : <<d, t>> \in links}

\* junction.exists for every dataset of the request
Missing(ds, t) == ds \ Linked(t)

\* assign_category has looked the dataset up; bulk_assign_category takes any ids.
Assign(c, ds, t) ==
    /\ tag[c].pc = "idle"
    /\ t \in terms
    /\ Count
    /\ tag' = [tag EXCEPT ![c] = [pc |-> "commit", datasets |-> ds, term |-> t,
                                  missing |-> Missing(ds, t)]]
    /\ UNCHANGED <<rows, terms, links, document, import>>

\* A link is unique and names rows that exist.
TagRefused(c) ==
    \E d \in tag[c].missing :
       \/ ~LiveDataset(d)
       \/ tag[c].term \notin terms
       \/ <<d, tag[c].term>> \in links

CommitAssign(c) ==
    /\ tag[c].pc = "commit"
    /\ ~TagRefused(c)
    /\ links' = links \union (tag[c].missing \X {tag[c].term})
    /\ tag' = [tag EXCEPT ![c] = IdleTag]
    /\ UNCHANGED <<vars, terms, document, import>>

FailAssign(c) ==
    /\ tag[c].pc = "commit"
    /\ TagRefused(c)
    /\ tag' = [tag EXCEPT ![c] = IdleTag]
    /\ UNCHANGED <<vars, terms, links, document, import>>

\* Removing a link that is not there changes nothing.
Unassign(d, t) ==
    /\ LiveDataset(d)
    /\ <<d, t>> \in links
    /\ links' = links \ {<<d, t>>}
    /\ UNCHANGED <<vars, exchangeVars>>

\* The cms plugin deletes a term; the links cascade.
RemoveTerm(t) ==
    /\ t \in terms
    /\ terms' = terms \ {t}
    /\ links' = {l \in links : l[2] # t}
    /\ UNCHANGED <<vars, tag, document, import>>

(***************************************************************************)
(* Export                                                                  *)
(***************************************************************************)
MinuteOf(s)   == issues[s].loc[2]
IssuesOf(d)   == {s \in Snapshots : LiveIssue(s) /\ issues[s].dataset = d}
MinutesOf(d)  == {MinuteOf(s) : s \in IssuesOf(d)}
TermsOf(d)    == {t \in terms : <<d, t>> \in links}

\* _resolve_last_taken_at: nothing if the issue is gone.
LastMinute(d) == IF datasets[d].last \in IssuesOf(d) THEN MinuteOf(datasets[d].last) ELSE Nothing

Ref      == [loc: Locations, sum: Content]
Document == [slug: Slugs, refs: SUBSET Ref, last: Minutes \union {Nothing}, terms: SUBSET Terms]

ExportOf(d) == [slug  |-> datasets[d].slug,
                refs  |-> {[loc |-> issues[s].loc, sum |-> issues[s].sum] : s \in IssuesOf(d)},
                last  |-> LastMinute(d),
                terms |-> TermsOf(d)]

Export(d) ==
    /\ LiveDataset(d)
    /\ Count
    /\ document' = ExportOf(d)
    /\ UNCHANGED <<rows, terms, tag, links, import>>

(***************************************************************************)
(* Import                                                                  *)
(***************************************************************************)
\* existing: the issue the import takes for each minute, missing: the terms it
\* will link, rewrites: a field differs from the row, which is then updated.
Import == [pc: {"idle", "commit"}, dataset: Datasets \union {Nothing}, doc: Document \union {Nothing},
           existing: [Minutes -> Snapshots \union {Nothing}], missing: SUBSET Terms,
           rewrites: BOOLEAN, seen: DatasetRow]
IdleImport == [pc |-> "idle", dataset |-> Nothing, doc |-> Nothing,
               existing |-> [m \in Minutes |-> Nothing], missing |-> {},
               rewrites |-> FALSE, seen |-> NoDataset("new")]

\* find_by_natural_key, or the row that is about to be added
Target(d, slug) == IF SlugTaken(slug) THEN LiveDataset(d) /\ datasets[d].slug = slug
                   ELSE datasets[d].presence = "new"

\* The map by taken_at keeps one of several issues of a minute.
ExistingBy(d, choice) ==
    \A m \in Minutes :
       IF m \in MinutesOf(d) THEN choice[m] \in IssuesOf(d) /\ MinuteOf(choice[m]) = m
                             ELSE choice[m] = Nothing

\* Terms that are unknown are reported and skipped.
BeginImport(d, choice, rewrites) ==
    /\ import.pc = "idle"
    /\ document # Nothing
    /\ Target(d, document.slug)
    /\ ExistingBy(d, choice)
    /\ Count
    /\ import' = [pc |-> "commit", dataset |-> d, doc |-> document, existing |-> choice,
                  missing |-> (document.terms \intersect terms) \ TermsOf(d),
                  rewrites |-> rewrites, seen |-> datasets[d]]
    /\ UNCHANGED <<rows, terms, tag, links, document>>

Refs       == IF import.pc = "commit" THEN import.doc.refs ELSE {}
RefsAt(m)  == {r \in Refs : r.loc[2] = m}
WrongNewMinutes == {m \in Minutes : RefsAt(m) # {}}

NewMinutes == {m \in Minutes : RefsAt(m) # {} /\ import.existing[m] = Nothing}
Creates    == import.seen.presence = "new"

Unused(s) == issues[s].presence = "new" /\ \A w \in Workers : job[w].snap # s

BuildSnapshot(r) == [presence |-> "live", dataset |-> import.dataset, loc |-> r.loc, sum |-> r.sum]

WrongRestoredLastOfNew(id) ==
    IF import.doc.last \in NewMinutes THEN id[import.doc.last] ELSE import.seen.last

\* What "last" becomes: set_last_snapshot is called only if a reference has the
\* minute of the document's last.
RestoredLast(id) ==
    LET m == import.doc.last IN
    IF m = Nothing \/ (m # Nothing /\ RefsAt(m) = {}) THEN import.seen.last
    ELSE IF m \in NewMinutes THEN id[m] ELSE import.existing[m]

\* The rows that are added need their dataset and their terms.
ImportRefused(id) ==
    \/ Creates /\ (SlugTaken(import.doc.slug) \/ datasets[import.dataset].presence # "new")
    \/ ~Creates /\ NewMinutes \union import.missing # {} /\ ~LiveDataset(import.dataset)
    \/ ~Creates /\ (import.rewrites \/ RestoredLast(id) # import.seen.last)
                /\ RowLost([dataset |-> import.dataset, seen |-> import.seen])
    \/ \E t \in import.missing : t \notin terms \/ <<import.dataset, t>> \in links

\* A created row is inserted and then updated with its last.
ImportedRow(id) ==
    LET row == datasets[import.dataset]
        new == [presence |-> "live", slug |-> import.doc.slug, last |-> RestoredLast(id),
                ver |-> IF ~RowVersioned THEN 0 ELSE IF RestoredLast(id) = Nothing THEN 1 ELSE 2]
    IN  IF Creates THEN new
        ELSE IF RestoredLast(id) # import.seen.last
        THEN [row EXCEPT !.last = RestoredLast(id), !.ver = NextVersion(import.dataset)]
        ELSE IF import.rewrites THEN [row EXCEPT !.ver = NextVersion(import.dataset)]
        ELSE row

CommitImport(id, ref) ==
    /\ import.pc = "commit"
    /\ \A m \in NewMinutes : Unused(id[m]) /\ ref[m] \in RefsAt(m)
    /\ \A m, n \in NewMinutes : id[m] = id[n] => m = n
    /\ ~ImportRefused(id)
    /\ datasets' = [datasets EXCEPT ![import.dataset] = ImportedRow(id)]
    /\ issues' = [s \in Snapshots |->
                     IF \E m \in NewMinutes : id[m] = s
                     THEN BuildSnapshot(ref[CHOOSE m \in NewMinutes : id[m] = s])
                     ELSE issues[s]]
    /\ links' = links \union ({import.dataset} \X import.missing)
    /\ import' = IdleImport
    /\ UNCHANGED <<files, store, job, requests, crashes, written, reused,
                   terms, tag, document>>

FailImport(id) ==
    /\ import.pc = "commit"
    /\ ImportRefused(id)
    /\ import' = IdleImport
    /\ UNCHANGED <<vars, terms, tag, links, document>>

(***************************************************************************)
(* Specification                                                           *)
(***************************************************************************)
ExchangeInit ==
    /\ Init
    /\ terms = Terms
    /\ links = {}
    /\ tag = [c \in Curators |-> IdleTag]
    /\ document = Nothing
    /\ import = IdleImport

WrongArchiveStep == Next /\ UNCHANGED <<links, exchangeVars>>

\* The links of a deleted dataset cascade.
ArchiveStep ==
    /\ Next
    /\ links' = {l \in links : datasets'[l[1]].presence = "live"}
    /\ UNCHANGED exchangeVars

Taxonomy ==
    \E t \in Terms :
       \/ RemoveTerm(t)
       \/ \E d \in Datasets : Unassign(d, t)
       \/ \E c \in Curators, ds \in SUBSET Datasets \ {{}} : Assign(c, ds, t)

Exchange ==
    \/ \E d \in Datasets :
          \/ Export(d)
          \/ \E choice \in [Minutes -> Snapshots \union {Nothing}], rewrites \in BOOLEAN :
                BeginImport(d, choice, rewrites)
    \/ \E id \in [NewMinutes -> Snapshots] :
          \/ FailImport(id)
          \/ \E ref \in [NewMinutes -> Refs] : CommitImport(id, ref)

ExchangeNext ==
    \/ ArchiveStep
    \/ Taxonomy
    \/ \E c \in Curators : CommitAssign(c) \/ FailAssign(c)
    \/ Exchange

ExchangeSpec == ExchangeInit /\ [][ExchangeNext]_<<vars, links, exchangeVars>>

(***************************************************************************)
(* Properties                                                              *)
(***************************************************************************)
\* Every variable has its type, and the links name rows that exist.
ExchangeTypeOK ==
    /\ TypeOK
    /\ terms \subseteq Terms
    /\ links \subseteq Datasets \X terms
    /\ \A l \in links : LiveDataset(l[1])
    /\ tag \in [Curators -> Tag]
    /\ document \in Document \union {Nothing}
    /\ import \in Import
    /\ import.pc = "commit" => import.dataset \in Datasets /\ import.doc # Nothing

\* What the import read is still so.
ImportUndisturbed ==
    /\ ExistingBy(import.dataset, import.existing)
    /\ datasets[import.dataset] = import.seen
    /\ import.missing = (import.doc.terms \intersect terms) \ TermsOf(import.dataset)

Imported == \E id \in [NewMinutes -> Snapshots] :
               \E ref \in [NewMinutes -> Refs] : CommitImport(id, ref)

OneIssuePerMinute(d) == \A s, t \in IssuesOf(d) : MinuteOf(s) = MinuteOf(t) => s = t

\* Importing a document that says what is already there changes nothing, if no
\* minute has two issues.
ReimportIsNoOp ==
    [][Imported /\ ImportUndisturbed /\ ~import.rewrites =>
          \A d \in Datasets :
             /\ d = import.dataset /\ LiveDataset(d) /\ OneIssuePerMinute(d)
             /\ import.doc = ExportOf(d)
             => UNCHANGED catalogue]_catalogue

\* After an import the dataset has an issue for every minute of the document, its
\* last has the minute of the document's last, every category that exists is
\* linked, and it has kept the issues it had.
ImportCarriesDocument ==
    [][Imported /\ ImportUndisturbed =>
          \A d \in {import.dataset} :
             /\ {r.loc[2] : r \in Refs} \subseteq MinutesOf(d)'
             /\ import.doc.last # Nothing => LastMinute(d)' = import.doc.last
             /\ import.doc.terms \intersect terms \subseteq TermsOf(d)'
             /\ IssuesOf(d) \subseteq IssuesOf(d)']_<<catalogue, import>>
=============================================================================
