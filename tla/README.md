# Verification of the dataset plugin

TLA+ models of the `dataset` plugin, TLC configurations that check them on small
instances, and TLAPS proofs of theorems about them for every instance.  Paths below
are relative to the repository.

    tlc -workers 2 -config access_versioned.cfg MCDatasetAccess
    tlapm DatasetAccessProofs.tla

`PROJECT.json` lists the components, the runs, the faulty variants that show a
property can fail, the source lines behind each definition, the findings, the
hazards of the code and the theorems.

## 1. The system

The plugin sells access to *datasets*.  A dataset is a catalogue row and a growing
series of *issues* (snapshots), each a data file with optional companion files; a
pointer `last` names the issue that is served by default.  Users gain access
through plans, invoice line items and one-time orders.

| Component | State | Operations |
|---|---|---|
| Access service `services/dataset_access_service.py` | `dataset_membership` (one row per user and dataset), `dataset_access_log` (append-only) | grant, restore, grace revoke, revoke, expiry sweep |
| Grace scheduler `services/scheduler.py` | none | one sweep per call of an external cron job |
| Event wiring and handlers `__init__.py`, `handlers/` | none | subscription events, line item activate / reverse / restore, `invoice.paid` |
| Plan links `repositories/dataset_plan_repository.py` | `dataset_plan` | link and unlink, by the catalogue service |
| Catalogue and archive service `services/dataset_service.py` | `dataset` (slug, `last`), `dataset_snapshot` | create, update, delete; add snapshot, set last, delete snapshot |
| Companion files `services/snapshot_file_service.py` | `dataset_snapshot_file` | attach, delete, list, zip |
| Storage backends `services/storage/` | files under `var`, or S3 objects | put, put member, open, stream, delete |
| Orders `services/dataset_order_service.py` | invoices of the core | create a one-time order |
| Entitlement `services/dataset_entitlement_service.py` | none | active plans joined with plan links |
| Read API, metering, preview `routes.py`, `services/dataset_preview.py` | the caller's token balance | read, download, preview |
| Webhook ingest `routes.py` | none | signed delivery, then add snapshot |
| Taxonomy `services/dataset_taxonomy_service.py` | `dataset_term` | assign, unassign, in bulk |
| Data exchange `services/data_exchange/` | none | export, import of rows and metadata |
| Entity page bridge, vendor mode, listings, configuration, demo data | none or external | see section 7 |

How they interact.  Listeners on the core's event bus call the access service with a
fresh session; the line item handler and the `invoice.paid` listener do the same.  The
access service commits each row and each audit entry on its own.  Catalogue, archive
and file requests flush within one transaction that the route commits at its end, but
they write to the store in the middle of it.  Membership rows, issues and files hang
off the dataset row by cascading foreign keys; `last` is a bare UUID without one.

What is hard here:

* several requests and the cron process work on the same rows, each with reads that
  are some time older than its write;
* SQLAlchemy writes only the attributes that differ from what the session has read,
  so two interleaved updates can leave a mixture of both;
* a membership transition is two commits, an upload or a deletion is a change to the
  store and a commit: a crash or a refused commit can fall between the two;
* event delivery is outside: events may be late, repeated or out of order;
* a grace period ends only if somebody calls the scheduler;
* the location of bytes is composed of things that are not unique over time (slug,
  minute).

What makes each component correct:

* access: status and expiry belong together, every status is explained by the audit
  trail, live access ends only by expiry or refund, grace ends;
* archive: rows describe the bytes at their location, `last` names an issue of its own
  dataset, deletion clears it exactly if it names the deleted issue;
* orders: access says what was last done about a member's orders, whatever the two grants
  of an order and a dying request do in between;
* read API: an answer has the bytes its rows promise, fails only by a deletion, and costs
  exactly what was begun;
* webhook: a push gives one issue, however often it is delivered (it does not, section 4);
* taxonomy: a link names a dataset and a category that exist;
  exchange: an import carries its document, and a second one changes nothing;
* preview: a page is the window of the whole file, wherever its chunks end, and costs no
  more reading than it needs;
* plan links: at most one per dataset (see section 4).

## 2. Modules

| Module | Content |
|---|---|
| `AccessLifecycle` | abstract: what a member may rely on (open, grace with a last day, closed) |
| `DatasetAccess` | the access service, its handlers, the scheduler, the audit log |
| `MCDatasetAccess` | model values and symmetry for TLC |
| `DatasetAccessProofs` | theorems about `DatasetAccess` |
| `IssueSeries` | abstract: a series of issues per dataset with a `last` pointer |
| `DatasetArchive` | catalogue, issues, companion files and the store |
| `MCDatasetArchive` | model values and symmetry for TLC |
| `DatasetArchiveProofs` | theorems about `DatasetArchive` |
| `DatasetAccessSoloProofs` | what holds of `DatasetAccess` with one worker, the refinement among it |
| `DatasetOrders`, `MCDatasetOrders`, `DatasetOrdersProofs` | orders on top of `DatasetAccess` |
| `DatasetReadApi`, `MCDatasetReadApi`, `DatasetReadApiProofs` | the read API and its metering on top of `DatasetArchive` |
| `DatasetExchange` | categories, export and import on top of `DatasetArchive` |
| `DatasetIngest`, `MCDatasetIngest`, `DatasetIngestProofs` | the webhook on top of `DatasetExchange`; theorems about both |
| `DatasetPreview`, `MCDatasetPreview`, `DatasetPreviewProofs` | the lazy reader of rows, on its own |
| `Positions`, `PositionsProofs` | sets of positions in a sequence: counting, the k-th one, the subsequence found there; facts about them |

Two stacks, then, in which each module EXTENDS the one below and adds its variables:
`DatasetOrders` over `DatasetAccess`, and `DatasetReadApi` as well as `DatasetIngest` over
`DatasetExchange` over `DatasetArchive`.  A step of a lower module is a step of the upper
one, so readers, curators and pushes race with uploads, deletions and crashes.

Operators named `Wrong...` are slips the code could have; no action uses them.  Each
is put in the place of a definition to show that a property notices it.

### DatasetAccess

`membership`, `planLinks`, `datasets` and `accessLog` are the tables; `clock` counts
days.  `job[w]` is what worker `w` (a request, an event listener or the cron process)
is doing: `todo` are the members still to be handled, `seen` the row as the session
read it.  A transition has three steps, as in `dataset_membership_repository.py:22-45`
and `dataset_access_service.py:47-102`:

1. `Find` reads the row;
2. `Commit` inserts it or updates the attributes that differ (`Written`), unless the
   database refuses (`Refused`: the dataset is gone, the unique key is taken, the version
   moved on);
3. `Log` commits the audit entry.

A plan event repeats this for every linked dataset; a database error (`Fail`) or a crash
(`Crash`) loses the rest.  `RevokeExpiredGraceAccess` lists the due rows once, and the
list has already loaded the first of them; the commit of the first revoke expires the
session, so later rows are read again, though their status is not looked at.

The environment delivers any event at any time, in any order, any number of times: what
the core sends is not in this repository.  `planLinks` may hold any links at first.

### DatasetArchive

`datasets`, `issues` and `files` are the tables, `store` the bytes at each location.  A
request first reads its rows (`AddSnapshot`, `DeleteSnapshot`, ...), then changes the
store (`PutBytes`, `DropBytes`), then commits one transaction (`Commit...`) or has it
refused (`Fail`).  The order is the code's: an upload writes bytes before the row
(`dataset_service.py:213-230`), a deletion removes bytes before the row (`:255-256`), and
neither undoes the store when the transaction is rolled back.  Catalogue requests touch
the database only and are one step.  A row goes from "new" over "live" to "gone" and its
id is not used again (ids are random UUIDs).

A location is (slug, minute, name).  Category and extension are two more components that
are chosen by the client; they are left out, as they only make collisions rarer.  Bytes
carry the dataset they were uploaded for, so that a property can tell whose they are.
`written` and `reused` are history: they let `BytesIntact` speak of locations that were
used once.

### DatasetOrders

`invoice` are the invoices with a dataset line, `duty[w]` is the step that worker `w` takes
next for the invoice it captures.  `CreateOrder` commits a pending invoice
(`dataset_order_service.py:50-118`, `routes.py:904`).  A free order goes on with
`CaptureFree` in the same request, a funded one is captured by a provider at any later time
(`CapturePayment`).  A capture marks the invoice paid and then grants twice, through the
line item handler (`ActivateOrderLine`) and through `invoice.paid` (`AnnouncePaid`); each
grant is a job of `DatasetAccess` with its own commits.  The request may die between any two
steps (`Abandon`, `CrashRequest`); an error of a grant ends it or is caught by the core
(`FailJob` allows both).  `Refund` and `ReverseRefund` reach the handler of lines.  What the
core does around these calls is external.

### DatasetReadApi

`read[u]` is the request of user `u`: `Begin` (the dataset row, with its `last` as read then),
`CheckEntitlement`, `ResolveIssue`, for the data call `Meter` and its commit, then
`StreamMetered`, `StreamResolved` or `BuildArchive`, as in `routes.py:1066-1308`.  `Meter`'s
commit expires the session, so the issue row is loaded again there and nowhere else.
A stream whose bytes are missing breaks off, after its headers were sent; a preview and a zip
are built first and fail whole.  Requests keep `locs` and `sums`, what their rows say about
their bytes, so that a property can compare them with the bytes sent.  Who is entitled is
the subject of `DatasetAccess`: the check comes out either way here.

### DatasetExchange and DatasetIngest

`links` are the `dataset_term` rows, `tag[c]` the assignment of curator `c` between its look
(`Assign`, for one dataset or in bulk) and its commit, which one row that the database
refuses refuses as a whole.  `document` is an export somebody keeps; it names datasets by
slug, issues by minute and categories by slug, never by id.  `BeginImport` is what
`_import_row` reads, `CommitImport` its transaction: the row is found or created, missing
categories and issues are added, `last` is set if a reference has the minute of the
document's `last`.  `rewrites` says whether one of the fields without a model differs.
An import adds rows, not bytes; documents are those this installation exported at an earlier
time, so their locations are its own.

`Pushes` are what a pipeline has signed.  `IngestWebhook` accepts one whenever its stamp is
within `Tolerance` of the clock, on either side (`routes.py:1518-1530`), and starts an upload
like any other.  Nothing records that it was seen; `origin` is history, the push each issue
came from.

### DatasetPreview

One request reads `file` in chunks of `chunk` bytes through the generator `_iter_lines`: a
chunk is pulled only when a line is asked for and none is buffered (`PullChunk`), decoded by
itself, and appended to `buffer`.  `_read_page` is a machine with the phases header, skip,
collect, peek and parse; each call of `next()` is `NextLine`.  `NextPage` is a client that
follows `has_more`.  Bytes are a plain byte, newline, carriage return and the two halves of a
wide character: what the reader can tell apart.  Delimiters and quotes are left out.  The
reference for the properties is `Lines`, which splits the whole file at once.  `Decode` and
`Lines` say what they say of sequences by sets of positions (where characters start, where
newlines are), which is what can be reasoned about for files of any size.

### Row versions

Every table has a `version` column (`migrations/versions/20260701_1000_dataset_tables.py:36`)
but the base class that would make SQLAlchemy check it is in the core, outside this
repository.  `RowVersioned` says whether an UPDATE or DELETE is refused when the version
moved on.  The run of two workers on memberships checks them (`GraceHasExpiry` fails otherwise),
`archive_concurrent` does not; what holds of memberships either way is proved for both values,
and each theorem that needs one says so.

## 3. Runs

| Run | Instance | Question |
|---|---|---|
| `access_versioned` | 1 user, 1 dataset, 1 plan, 2 workers, 3 events, 1 crash, 2 days, versioned, with fairness | foreign keys (`TypeOK`); no status without an explanation in the audit trail (`AuditExplainsStatus`); no audit entry ahead of its row (`AuditNeverLeads`); a row has an expiry exactly while in grace (`GraceHasExpiry`); no subscription event ends live access (`SubscriptionEventsNeverRevoke`); a due grace period ends (`GraceRunsOut`) |
| `access_sequential` | 1 user, 1 dataset, 1 plan, 1 worker, 2 invoices, 4 events, 1 crash, 2 days, no or 2 trailing days | types and references of orders (`OrdersTypeOK`); newest audit entry agrees with the row (`NewestAuditAgrees`); refinement of `AccessLifecycle` (`ImplementsLifecycle`) |
| `access_orders` | 1 user, 1 dataset, no plan, 1 worker, 2 invoices, 6 events, 1 crash | access says what was last done about either of two orders (`AccessFollowsOrders`) |
| `access_scheduler_race` | 2 datasets, 2 workers, versioned | **violated**: the scheduler takes access away only from expired grace (`SchedulerRevokesOnlyExpired`) |
| `access_revoked_grace` | 1 worker | **violated**: revoked access does not return as grace (`RevokedNeverEntersGrace`) |
| `archive_concurrent` | 2 datasets, 3 issues, 2 files, 2 workers, 2 slugs, 1 minute, 5 requests, 1 crash, not versioned | foreign keys (`TypeOK`); rows describe their bytes (`BytesIntact`); `last` stays within its dataset (`LastIsOwn`) |
| `archive_versioned` | 2 datasets on 1 slug, 2 issues, 2 workers, 2 minutes, 1 category, 1 curator, 1 push, 4 requests, versioned | foreign keys (`IngestTypeOK`); a delete clears only a pointer to the issue it deletes (`DeleteClearsOwnLast`); a second import changes nothing (`ReimportIsNoOp`); an import carries its document (`ImportCarriesDocument`) |
| `ingest_replay` | 1 dataset, 2 issues, 1 worker, 1 push, 2 requests | **violated**: no two issues come from one push (`PushAcceptedOnce`) |
| `archive_sequential` | 2 datasets, 2 issues, 1 file, 1 worker, 2 slugs, 4 requests, 1 crash, 1 reader with 1 request that can or cannot pay | types (`ReadTypeOK`); answers have the promised bytes (`ServedAsPromised`), fail by deletion only (`FailureMeansDeletion`), cost what was begun (`ChargedForBytesOnly`); refinement of `IssueSeries` (`ImplementsSeries`) |
| `archive_dangling_last` | 1 dataset, 2 issues, 2 workers, versioned | **violated**: `last` always names an existing issue (`LastResolves`) |
| `archive_slug_reuse` | 2 datasets, 1 worker | **violated**: a download never serves another dataset's bytes (`ServesOwnBytes`) |
| `preview_pages` | every file of 0, 4, 5 and 6 bytes, chunks of 2 and 3, offsets and limits missing, negative, inside and beyond the bounds, at most 2 rows a page | a page is its window (`PageIsWindow`), a torn character spoils only itself (`TearingKeepsRows`), no chunk too many (`PullsNoMoreThanNeeded`), work bounded by the file (`WorkBoundedByFile`), pages tile the file (`PagesTile`), only a line that is shown fails a request (`FailsOnlyOnShownLine`) |

Bounds.  `MaxEvents`, `MaxRequests`, `MaxCrashes` and `MaxClock` bound the counters that
would make the state space infinite.  Two workers and three events are what the races
need: every conflict here is between one read and one write that commits in between, and a
third event sets the scene (a grant before a cancellation meets a renewal).  Five archive
requests are an add on each side, a rename, a deletion and one that races it.  One minute
and one blob in `archive_concurrent` make every collision of locations happen.
`access_scheduler_race` has two datasets because the scheduler treats its first row unlike
the others.  A paid order takes two events: with six in `access_orders` both orders are paid
in full and two are left to refund one of them while the other stays paid, and to take that
back (`WrongRefundSparesOther` goes unnoticed with four).  In `archive_versioned` a
slug is taken by one dataset after the other, so that a document is imported over another
dataset than it was exported from.  An import that finds some issues of its document and adds
others takes five requests (two uploads, an export, a deletion and the import) and is not in
the run; `ImportsCarryDocument` covers it.
One request of one reader is enough, since a reader changes nothing but its own balance, and
the archive does up to four requests and a crash around it.  Six bytes hold four lines, more
than a header, a window and its look-ahead; chunks of two and three bytes end inside
characters, at newlines and at the end of the file.
The theorems of section 5 remove the bounds for the invariants.

All configurations say `CHECK_DEADLOCK FALSE`: once the bounded events or requests are
used up the system is idle, as it is between requests.

Fairness (`FairSpec` in `DatasetAccess`, used by `access_versioned`): time passes; a worker that has
begun a job goes on with it (weakly fair `JobStep`), until it ends, fails or crashes; the
scheduler is called again and again.  The last is an assumption on the deployment, which
`services/scheduler.py:1-8` states ("Wiring into a live cron is a DevOps concern").  No
event is assumed to arrive.  `GraceRunsOut` speaks of periods that end within `MaxClock`,
as later days never come in the instance.

## 4. Findings

* `access_scheduler_race`: the sweep revokes rows it listed earlier without looking again.
  A renewal in between is undone.  Row versions protect only the first row of the list.
* `access_revoked_grace`: cancel and payment-failed handlers write GRACE over any status, so
  a cancellation that follows a refund gives access back for the trailing days.
* `archive_dangling_last`: a `set_last` that commits while the same issue is being deleted
  leaves `last` naming a deleted issue, also with versioned rows, because the delete does
  not write the dataset row when its stale copy names another issue.
* `archive_slug_reuse`: slugs can change and be used again, while locations keep the slug of
  the upload; two datasets then share a file.
* `ingest_replay`: a push that is delivered again within the tolerance is accepted again.
  `routes.py:1493-1495` calls the time stamp of a replay stale, which it is only later; the
  issue is added twice and `last` moves twice.

Observations that no run decides, because no text promises otherwise, because the disagreement
is one of wording, or because it is plain from a few lines of the code:

* An issue that arrives late becomes `last` whatever its `taken_at`
  (`dataset_service.py:232`).
* A crash between the two commits of a transition leaves a status without an audit entry (the
  case `unlogged` in `AuditExplainsStatus`).
* `line_item_handler.py:13-15` and `one_time_payment_handler.py:3-6` say that one-time purchases
  carry no line item.  `create_one_time_order` adds a CUSTOM line with the plugin's tag: both
  handlers grant, two audit entries are written, and the line counts as recurring (monthly).
* The refund of one of two paid orders of a dataset closes access (`AccessFollowsOrders` says
  so: what was done last decides).  A link that changes between activation and cancellation
  leaves access active that no event of the plan touches again.
* The invoice of a free order stays pending if the request dies between its commit and the
  capture (`routes.py:904-914`); nothing takes it up again.
* Undecodable bytes never crash the preview, as `dataset_preview.py:15-17` says; a carriage
  return inside a line, which decodes well, makes the csv reader raise
  (`FailsOnlyOnShownLine`).  A wide character on a chunk boundary is replaced
  (`TearingKeepsRows`).
* A deletion that crashes, or is refused, after it removed the bytes leaves a row without
  them (`reused` in `BytesIntact`); deleting the issue again removes the row.
* Two concurrent `set_tariff_plan_link` requests that both read no link leave two of them,
  where `dataset_service.py:156-157` says exactly one.
* An import adds rows without bytes.  After the deletion of an issue and the import of an older
  export the row is back and its download breaks off; a location it names may meanwhile be
  another issue's.  If a minute has two issues, an import may move `last` between them
  (`ReimportIsNoOp` asks for one).
* A metered call is charged before the first byte, so a deletion in between costs tokens for an
  answer that breaks off (`ChargedForBytesOnly` and `FailureMeansDeletion` say when).
* The catalogue is paged by title, which is not unique (`dataset_repository.py:96`): equal titles
  may be ordered differently for two pages.
* An activation grants one dataset after the other, where `dataset_access_service.py:138` says
  "every dataset the plan unlocks".  If the commit for one is refused, because the dataset is
  being deleted or another request inserts the member's first row, the datasets still to come
  are not granted and nothing repeats the event (`Fail`).
* A second issue with the same `taken_at`, or a repeated upload, overwrites the first one's bytes,
  whose checksum and size stay (`reused` in `BytesIntact`).
* The second of two simultaneous assignments of a category fails (`TagRefused`), though
  `dataset_taxonomy_service.py:41` calls assigning idempotent.
* `bulk_assign_category` takes ids it has not looked up: an unknown one is a database error
  (`TagRefused`), not an answer about the dataset.

## 5. Proofs

The theorems hold for all sets of users, datasets, issues, files and workers and all
bounds, for all files, chunk sizes and queries; the only assumptions are
`ConstantsAssumption` in each module (NULLs are not values, the end of a generator is no
text, bounds are natural numbers, chunks are not empty, `RowVersioned` is a Boolean) and
those named here.

`DatasetAccessProofs`:

| Theorem | Statement | Inductive invariant |
|---|---|---|
| `TypeCorrect` | `Spec => []TypeOK` | `TypeOK`: the foreign keys are inductive because a commit or an audit entry on a deleted dataset is refused |
| `AuditTrailExplains` | `Spec => []AuditExplainsStatus` | `AuditInv`: also needs that a row a worker has read stays until its dataset goes (`SeenRowStays`), or a partial UPDATE could write into nothing |
| `AuditTrailFollows` | `Spec => []AuditNeverLeads` | `AuditInv` |
| `EventsNeverRevoke` | `Spec => SubscriptionEventsNeverRevoke` | `TriggerInv`: a job that revokes was started by a refund or the scheduler |
| `VersionedGrace` | with `RowVersioned = TRUE`, `Spec => []GraceHasExpiry` | `GraceInv`: a row that was read is either unchanged or has a newer version (`FreshOrBehind`) |

`DatasetArchiveProofs`:

| Theorem | Statement | Inductive invariant |
|---|---|---|
| `TypeCorrect` | `Spec => []TypeOK` | `TypeInv`: jobs under way name the rows and location they work on |
| `UploadsIntact` | `Spec => []BytesIntact` | `BytesInv`: an upload that waits for its commit has its bytes in the store, at a location in `written`; a location nobody knows may be written freely |
| `LastStaysOwn` | `Spec => []LastIsOwn` | `OwnInv`: what `last` or a job refers to is never inserted again, and two uploads never insert the same row |
| `VersionedDelete` | with `RowVersioned = TRUE`, `Spec => DeleteClearsOwnLast` | `SeenInv`: a version that is still current vouches for the pointer read with it |
| `SoloArchive` | with at most one worker, `Spec => ImplementsSeries` | `SoloInv`: what a deletion or `set_last` has read is still true, or its dataset is gone |

`DatasetAccessSoloProofs`, with at most one worker (`OneWorker`):

| Theorem | Statement | Inductive invariant |
|---|---|---|
| `NewestEntryTells` | `Spec => []NewestAuditAgrees` | `NewestInv`: what the one worker has read or written of a row is what the row says, unless its dataset is gone (`KnowsRow`), so the log lags only behind the row being worked on |
| `SoloAccess` | `Spec => ImplementsLifecycle` | `LifeInv`: `NewestInv`, the bound of the clock, and that a job that revokes was started by a refund or found its member expired |

`DatasetOrdersProofs`:

| Theorem | Statement | Inductive invariant |
|---|---|---|
| `OrdersTypeCorrect` | `OrdersSpec => []OrdersTypeOK` | itself |
| `OrdersImplementAccess` | `OrdersSpec => Spec` | a step of an order is a step of the access service or leaves its variables alone, so all theorems on `DatasetAccess` hold here |
| `OrdersDecideAccess` | with `OneWorker`, `OrdersSpec => []AccessFollowsOrders`, for any number of orders | `FollowInv`: relates the row, the job that is about to change it, the duty that is about to start one, and `lastWord` |

`DatasetReadApiProofs`:

| Theorem | Statement | Inductive invariant |
|---|---|---|
| `ReadsImplementArchive` | `ReadSpec => Spec` | reading changes no variable of the archive |
| `ReadTypeCorrect` | `ReadSpec => []ReadTypeOK` | `ReadsInv` |
| `ReadsServeAsPromised` | `ReadSpec => []ServedAsPromised` | `ReadsInv`: what a request holds are rows that were live (`Sourced`), and a row once seen keeps its location, checksum and dataset while the bytes at a location used once stay until it is deleted from (`KnowledgeKept`, `BytesStay` of `DatasetArchiveProofs`) |
| `ReadsFailByDeletion` | `ReadSpec => []FailureMeansDeletion` | `ReadsInv` (`Excused`) |
| `ReadsChargeForBytes` | `ReadSpec => []ChargedForBytesOnly` | `ReadsInv` (`Paid`): the balance of a request at each of its steps |

`DatasetIngestProofs`, for `DatasetExchange` and `DatasetIngest` together:

| Theorem | Statement | Inductive invariant |
|---|---|---|
| `IngestTypeCorrect` | `IngestSpec => []IngestTypeOK` | `ExchangeInv`: links go with their dataset and their term |
| `ImportsCarryDocument`, `ReimportsAreNoOps` | `IngestSpec => ImportCarriesDocument`, `IngestSpec => ReimportIsNoOp` | `DocumentInv` of `ExchangeInv`: a document, kept or being imported, was exported from rows, so its `last` is among its references, and their checksums are what was stored |
| `ImportsKeepBytes` | `IngestSpec => []BytesIntact` | `BytesInv` of `ExchangeInv`, which needs the documents to be genuine |
| `ImportsKeepLastOwn` | `IngestSpec => []LastIsOwn` | `PointerInv`: `OwnInv` also for what an import has read |

`DatasetPreviewProofs`:

| Theorem | Statement | Inductive invariant |
|---|---|---|
| `PreviewTypeCorrect` | `Spec => []TypeOK` | `IInv` |
| `PagesAreWindows` | `Spec => []PageIsWindow` | `IInv`: the header, the rows and has_more are lines of `Seen`, and how many lines were asked for says which (`Paging`) |
| `TornCharactersStayLocal` | `Spec => []TearingKeepsRows` | `IInv`, then `Seen` and the decoded file are compared line by line with the bytes (`SeenAndFile`), hence any window of them (`WindowsAlike`) |
| `ReaderPullsLittle` | `Spec => []PullsNoMoreThanNeeded` | itself, with `Reading`: a buffer without a newline means that the newlines pulled so far are lines that were asked for |
| `WorkIsBounded` | `Spec => []WorkBoundedByFile` | `IInv`: at most three lines are asked for beyond the last one |
| `PagesTileFile` | `Spec => []PagesTile` | `IInv`: the pages before this one are the lines up to its offset (`Collected`); where a chunk tears a character the rows are the same up to that character (`WindowsAlike`) |
| `FailureIsShown` | `Spec => []FailsOnlyOnShownLine` | `IInv`, then `UnparsableByBytes`: whether a line parses depends on its bytes, not on how they were cut |

The argument about the reader: what it sees is one fixed text, `Seen`, the chunks of the file
decoded each by itself.  Decoding is picking: `Starts` are the places where a character
starts, so a chunk that is decoded by itself is a part of `Seen` (`ChunkOfText`), and a line of
`Seen` is picked from the bytes of the same line (`LineOfText`).  The buffer is always the part
of `Seen` between the end of the line that was asked for last and what the pulled bytes
contain (`Reading`).  `NextLineStep` then says that each call of `next()` yields the next line of
`Seen`, wherever chunks end, and that there is none only behind the last one.  TLC has
checked `IInv` as an invariant of all files of up to five bytes and chunks of one to three.

`PositionsProofs` holds what this rests on.  The induction theorems of the library take an
operator as a parameter, which the provers cannot instantiate; induction over a set of
numbers needs none: `Least` follows from the well-foundedness of strict inclusion on finite
sets, and `SetInduction` from `Least`.  With it, facts about `Count`, `Nth` and `Pick` are proved
for sequences of any length (`CountStretch`, `PickStretch`: a part of a picked sequence is picked
from a part; `PickTwice`: picking from what was picked).

The proofs have one step per action.  In both core modules a lemma reduces every request or
event to one form (`EventIsHandle`, `RequestStarts`), so that most steps are about one
change of `job`.  `SoloArchive` shows that each step is one of `Publish`, `PointLast`,
`Withdraw`, `Drop`, or leaves the abstract state alone (`SeriesStep`).

Model-checked only: liveness (`GraceRunsOut`: fairness is beyond the prover).  The violated
properties are counterexamples by nature.

## 6. What could come next

1. Two concurrent `set_tariff_plan_link` requests as steps of their own in `DatasetAccess`,
   with subscriptions as the source of plan events.
2. A second store, once something in the plugin writes to S3.
3. Vendor mode: ownership of datasets in `DatasetArchive`.

## 7. Not modelled

* Authentication, permissions, serialisation, paging, prices and taxes, logging.
* Published events: they change no state in this repository.
* Listings (catalogue, issues, files, categories, my datasets) and meta: projections of rows,
  without an effect.
* The S3 backend and the choice of backend: all writes of the plugin go to the local store, and
  only rows from elsewhere could name S3.
* The join of active plans with plan links: the plans are in another plugin; the read API takes
  its answer as open.
* Imports of documents from other installations, dry runs, and rows other than datasets.
* Entity page bridge: it calls a cms service that is not here.  Vendor routes: the catalogue
  operations again, behind an owner check.
* `plugin_config.py`, `marketplace_listings.py`, `populate_db.py`: static text and start-up data.
