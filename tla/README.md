# Verification of Kalanjiyam

Kalanjiyam is a multi-tenant platform for digitising books: it imports scans, reads them
with OCR services, lets people proofread the pages, indexes them for search and describes
them for archives. A Flask web application, several Celery workers and command-line tools
work on the same PostgreSQL rows, Redis keys, S3 objects and OpenSearch indices, and
coordinate through them without a common lock.

This directory holds TLA+ specifications of that concurrent core. TLC checks each of them on
small instances; TLAPS proves the most important properties for all values of the constants.

| file | what it is |
| --- | --- |
| `BatchOcr.tla`, `PageRevisions.tla`, `DocumentStore.tla`, `SearchIndex.tla`, `PageTasks.tla`, `TaskTray.tla`, `ArchivalExtract.tla` | the specifications, one per component; `TaskTray` is on top of `PageTasks` |
| `VersionTracks.tla` | the abstract specification that `PageRevisions` implements |
| `MC*.tla`, `<Module>_<run>.cfg` | instances for TLC |
| `BatchOcrProofs.tla`, `PageRevisionsProofs.tla`, `DocumentStoreProofs.tla`, `SearchIndexProofs.tla`, `SearchRepairProofs.tla`, `PageTasksProofs.tla`, `TaskTrayProofs.tla`, `ArchivalExtractProofs.tla` | theorems and proofs |
| `PROJECT.json` | components, runs, mutants, the source lines of every definition, findings, hazards, theorems |

To check a run: `tlc -config BatchOcr_faults.cfg MCBatchOcr`. To check the proofs:
`tlapm BatchOcrProofs.tla`. A definition named `X_Y` above a definition `X` is a mutant: `X`
as a plausible bug would have it. Replacing the body of `X` by it makes a property fail;
`PROJECT.json` says which one.

## 1. Inventory

Paths are relative to `src/kalanjiyam` unless they begin with `cli.py`.

### Batch OCR pipeline (`tasks/s3_batch.py`, `models/batch.py`, `cli.py`)

*State.* A `BatchJob` has `BatchItem`s (documents), an item `BatchOcrChunk`s, a chunk
`BatchOcrPage`s, each row with a status; the chunk has a heartbeat, which is its worker's
lease of 15 minutes. *Operations.* `process_s3_batch_item` downloads and renders a document
and cuts it into chunks, `process_s3_batch_ocr_chunk` claims a chunk by an UPDATE and reads
it page by page, the worker that closes a document's last chunk finalizes the document and
then the job. `batch-ocr`, `batch-cancel` and `batch-retry` are run by an operator at any
time. *Interactions.* Celery messages through Redis, which delivers at least once: messages
are acknowledged late, and again after `visibility_timeout`. *Hard.* Two workers on a chunk,
workers that die between commits, leases that lapse under a live worker, cancellation and
retry of what runs, the last of several finishing chunks. *Correct when* a chunk is worked on
once at a time, a page marked COMPLETED has its text, no work is lost but by the events known
to lose it, cancelled work stops as soon as its worker looks, every job and document that lost
nothing gets its verdict.

### Page revisions (`utils/revisions.py`, `views/proofing/page.py`, `models/proofing.py`)

*State.* A page has version tracks (`PageVersion`: main, a personal track per user, machine
tracks), each with a counter, and `Revision` rows. *Operations.* `add_revision` compares the
version the caller read, bumps the counter in one commit and inserts the revision in a second
one; the editor is opened, submitted, refused and submitted again; a published save is
mirrored to the personal track; OCR tasks and search-and-replace save to the machine track.
*Hard.* Everything between the two commits and between the two reads of the editor.
*Correct when* no accepted save replaces text its author has not seen, no save is refused
without cause, counters and revisions agree.

### Revision documents and OCR cache (`utils/document_storage.py`, `utils/ocr_cache.py`)

*State.* One S3 object per track, a fallback column per revision, Redis entries: an envelope
of bounding boxes per page, a document per revision, a stampede lock. *Operations.* Saving,
loading with coalescing, invalidating, `reconcile-storage`. *Hard.* A slow reader that fills
the cache after the save that emptied it, locks that expire, S3 outages, a reconciler that
dies half-way. *Correct when* a saved document is somewhere, a read is not older than what
was saved before it, and everybody is answered.

### Search index (`tasks/search_index.py`, `search/indexer.py`, `search/admin_ops.py`, `models/search.py`)

*State.* An alias per organization on numbered store indices, their documents,
`SearchIndexJob` rows. *Operations.* Rebuild (fill a new store, swap the alias, delete the old
ones), sync (compare and repair), drop; best-effort hook tasks for edited pages and moved or
deleted projects; starting and cancelling jobs from dashboards and the command line. *Hard.*
Overlapping and redelivered jobs on one alias, errors read as empty answers, edits during a
rebuild. *Correct when* search is not down and does not see a store under construction as
long as the numbers of stores in use are not given again, a rebuild (or a sync of an index on one
store) repairs everything, and only a job whose process was killed blocks its scope.

### Page tasks, runs of a project and quotas (`tasks/ocr.py`, `tasks/translation.py`, `utils/quotas.py`, `views/proofing/project.py`, `views/proofing/page.py`)

*State.* Revisions, version counters and boxes of the pages, `Translation` rows, per run a
`BatchItem` with a `BatchOcrPage` per page, Celery's results, a Redis note of the run under
way, the credits an organization has used. *Operations.* A POST starts a run of a project: one
task per page; a task looks whether the page is done and paid for, calls its engine, saves,
charges and books the page; the editor does the same for the open page in a request; the
status page forgets a run that is over. *Interactions.* Tasks save with `add_revision`; a
multi-batch calls the same functions page after page. *Hard.* Tasks delivered again after any
commit, workers that count completed pages in concurrent transactions, checks and charges an
engine call apart, an item that is found by the name of its kind. *Correct when* a page booked
as done has its text, a run is closed only when it is, nobody is charged for nothing.

### Task list and multi-batch (`utils/user_tasks.py`, `views/proofing/multi_batch.py`, `run_multi_batch_operation` in `tasks/s3_batch.py`)

*State.* A Redis hash of entries per user, the multi-batch's state in Redis, its job and item
in the database. *Operations.* Every page of the site polls the list: it asks Celery and the
database about the open entries and writes the answers back; the user cancels an entry; the
multi-batch task plans what a document lacks, does it page by page and closes item and job.
*Hard.* Reads and writes of polls, cancellations and tasks that pass each other; results that
expire. *Correct when* the list tells the truth, its entries come to an end, and a batch
without errors has left nothing to do.

### Archival description extraction (`tasks/archival_extract.py`, `utils/archival_description.py`, `models/archival.py`)

*State.* A Redis lock with a time to live, `MetadataExtractionRun` rows with a row per window
of the text and the extracted fields. *Operations.* The task takes the lock or drops its
request, chooses the best track of each page, reads window after window, takes over the
answers of the run before where the text is the same, commits the fields and then the status
that shows them. *Hard.* A lock that lapses under a live run and is deleted without being
compared, workers that die between commits, requests delivered again. *Correct when* runs of a
project do not overlap, what is shown is complete and about the text it names, it does not go
back, and a request dropped because a run is under way is followed by the end of a run.

### Not modelled yet

- *Rate limits* (`utils/rate_limit.py`): the check-then-act of the quotas on rows of a log.
- The *curated layer* of the archival description and its write-down to the project's columns
  (`utils/archival_description.py`, `views/proofing/project.py`): the boxes of a form that is
  saved while runs end.

### Not to be modelled

OCR and translation engines, image processing, document formats and text utilities compute
data from data; storage and service clients are seen by the modelled parts as an answer or an
exception; access rules and search queries are predicates over one request; accounts,
administration forms and the reading pages change one row in one transaction; metrics are
write-only. `PROJECT.json` lists all of them with their files and the reason.

## 2. The modules and the code

An action is what one commit, one Redis command, one S3 call or one OpenSearch request makes
visible. Reads and writes between two such points that do no I/O are one step, unless a write
rests on a status that was read before and overwrites what others may have committed since: there
look and write are two steps. Every other process can act between two steps. `PROJECT.json` maps each definition to the lines it stands
for.

**BatchOcr.** `job`, `item`, `chunk`, `page` are the status columns (a chunk or job that is
FAILED with the error "Cancelled by user" is CANCELLED here, since the code tells them apart
by it), `fresh` says that a heartbeat is younger than the lease, `saved` which version tracks
have a page's text, `queue` the copies of each message, `pc`/`msg`/`at` a worker's step,
message and page. `PrepTake` to `PrepDispatch` are the preparation, `ChunkTake` the
idempotency guard, `Claim`/`ClaimRefused` the claim UPDATE, `PageStop` to `PageDone` the loop
over the pages, with its look at the cancellation (`PageLook`) apart from the start of the page
(`PageStart`); `Finish` to `JudgeJob` are the finalization, in which `FinalizeItem` and
`FinalizeJob` read the statuses and `SealItem` and `JudgeJob` commit the verdicts. `PrepFails`,
`NoOcrTarget`, `OcrFails`, `WorkFails` are the error paths. Two of the three calls of `self.retry`
do not retry as they look: that of the preparation cannot be sent (section 6), so `PrepFails` ends
with the message gone, and that of a refused claim gives up after `MaxRetries`. `Cancel` and
`Retry*` are the operator's commands, the latter with one step for each of its commits. `Crash` (a
worker, whose message comes back), `ChildKilled` (the pool child, whose message is acknowledged),
`Redeliver` and `LeaseLapses` are the environment. Three variables are history: `contested`,
chunks whose running worker lost its claim (lapsed lease and second claim, or an operator's reset);
`lost`, documents and chunks that one of the four losing events has hit (a preparation that raises,
a claim refused after the last retry, a killed child, a death at the verdicts); `unaware`, workers
whose last look at the job came before its cancellation.

**PageRevisions.** `version` and `revs` are a track's counter and rows. A text is represented
by the newest version of main whose text it takes in (`base`), which is what the conflict
rules are about. `Open` and `Load` are the edit page's GET, `Submit` its POST; `AddRevision`
(`Save`, `Refused`, `Insert`) is `add_revision` up to its two commits, for every writer;
`Answer` (`MirrorRead`, `ShowConflict`, `Reply`) is what the POST does after it, the second
save to the personal track included. `TaskStart` and `ReplaceStart` begin the saves of an OCR
task and of search-and-replace; `Crash` ends any writer's process. `moved` and `lost` are
history: tracks saved to since a writer read the version, and versions whose writer died.

**DocumentStore.** One track of one page. A document is named by its revision; `object` is the
revision whose document the S3 object holds, `column` the revisions with a fallback document.
`Bump` to `Invalidate` are a save (the two commits of `add_revision`, then
`save_revision_document`), `Reconcile*` the command, `ReadTrack` to `Release` a read through
`coalesce_cache_fetch`. `stored`, `lost` and `floor` are history.

**SearchIndex.** The pages' indices of the organizations; a project has one page. `stores`,
`alias`, `docs` and `shadow` are the cluster (`shadow`: an index that has an alias's name,
which OpenSearch makes when a document is written through a missing alias), `rev` and
`groups` the database, `job` and `queue` the jobs and tasks, `wk` what a worker does. The
tasks share the actions of the operations they share in the code (`Ensure`, `NextVersion`,
`CreateStore`, `SwapRead`, `SwapAlias`). `StartJob` and `CliJob` commit a job's row, `Dispatch` sends
its task; in between `starter` names the process that has yet to do so, which may die
(`StarterDies`) or find no queue (`DispatchFails`). `RunNow` is a command with `--now`: it is a
worker without a message. `Crash` is a worker's death, `Killed` that of a pool child or of such a
command. Four variables are history: `dropped` (organizations whose index was dropped), `reused`
(those where a store was made under a number another task still fills, shows or is about to
delete), `stranded` (jobs whose process was killed or could not dispatch) and `solo` (the worker
that has acted alone since it took up an organization).

**VersionTracks** is what `add_revision` promises its callers: a track is a counter that hands
out numbers one by one, each of which is later shown as a revision or lost with its holder.
`PageRevisions!SavesAreTickets` is this specification under the mapping `counter` = the rows
of `version`, `shown` = the versions in `revs`, `held` = those of savers between their two
commits.

**PageTasks.** `revs`, `ver`, `boxes`, `trans` are the pages' rows, `items` the BatchItems,
each with its job, its pages' rows (`row`), Celery's results (`res`) and a multi-batch's state
in Redis (`redis`); `slot` is the note of the run under way. `PostCheck`, `PostRun`, `PostKey`
are the three steps of the POST that starts a run, `StatusPoll` the status page. A task is
`Receive`, `ResolveOcr`/`ResolveTranslation`, `Call`, `Bump` and `InsertRevision` (the two
commits of `add_revision`), `ReadCredit` and `Pay` (the charge), `CountPages` and `BookPage`
(the flushed row, the count in the same transaction, the commit). `EditorAsks` to `EditorLog`
are the editor's request, in its own order: it pays first. `DeliverAgain` and `Crash` are the
environment.

**TaskTray** EXTENDS PageTasks: its steps are those of PageTasks with the list unchanged, and
its own. `PollRead`, `PollAsk`, `PollWrite` are `get_user_tasks`, `CancelRead` to
`CancelWrite` are `cancel_user_task`, `GrowOld` is what expires; `ReceiveMulti` to `CloseJob`
are the multi-batch task, whose pages go through PageTasks' steps (`NextPage` and `Ends`).

**ArchivalExtract.** `lock` is the Redis key, `runs` the run rows with their windows' rows,
`act` what a worker is at. `Take`, `Refuse`, `TakeBlind` are the three outcomes of the SET,
`ResolveTracks` to `CloseRun` the commits of a run, `Release` and `ReleaseFails` its `finally`.
`LockLapses` is the time to live of a lock nobody works under, `Overrun` that of one whose run
takes longer. `Crash` is the death of a worker, whose request comes back, `Killed` that of its pool
child, whose message is acknowledged; both leave the lock. `left` says that the lock is that of a
task which is over, `asked` what became of each request, of a refused one the outcome of the
next run that ends (`Settle`). `unguarded` is history: whether a run ever went on without the lock
being its own.

The components meet at a few points. `TaskTray` and `PageTasks` are composed, because the list
is about the tasks' results and the multi-batch calls their functions. The others have an
abstract step for what they meet: a page the batch pipeline completes is two saves of a machine
track (`SaveEngineTrack`, `SaveDefaultTrack`), a save stores a document (DocumentStore begins
with `add_revision`'s commits) and enqueues a hook task (`SearchIndex!EditPage`), a completed
document asks for metadata extraction (`AskExtraction`). PageTasks has `add_revision`'s two
commits again, without the editor's texts, since there crashes between them matter for the
books.

## 3. What the runs check

| run | instance | shows |
| --- | --- | --- |
| `BatchOcr_faults` | 1 document, 1 chunk of 2 pages, 2 workers, 1 retry per message, 1 death of a worker or child, 1 redelivery | types; `ExclusiveChunk`: the claim keeps a second worker out while the lease is kept; `CompletedChunkIsWhole`; `DurableBeforeDone`; `NoLostChunk`: nothing but the four losing events leaves a chunk without work ahead |
| `BatchOcr_operator` | 1 document, 1 chunk of 1 page, 2 workers, 1 death, 1 cancel, 1 `batch-retry` with or without `--force` | `CancelIsFinal`: only a verdict whose look came before the cancellation overwrites it; `NoPageAfterCancel`: at most one page per worker starts after it; `CompletedPageKept` |
| `BatchOcr_documents` | 2 documents, 1 chunk each, 2 workers, 1 retry per message, 1 death | `TerminalJobIsDone`: on the first attempt no verdict over an open document |
| `BatchOcr_liveness` | 1 document, 2 chunks, 2 workers, 1 retry per message, 1 cancel, no death | `OpenJobIsAttended`: the last chunk's worker leaves no verdict to another that has already looked; `JobEnds` (unless a message was lost), `CompletedDocumentAsks` under fairness |
| `PageRevisions_saves` | one user in 2 tabs, 1 OCR task, 1 search-and-replace, 1 accepted save each, 1 crash | `SavesAreTickets`: the implementation of VersionTracks; drafts rest on published text, refusals are the overtaken saves, a refused edit gets through |
| `DocumentStore_runs` | a track of 2 revisions, 1 more saved, 2 readers, the reconciler, boxes of an old revision in the cache or none, 1 fault | types; `DocumentIsStored`, `ReadsKeepUp`, `LocksAreTheirHolders`, `ReadsEnd` |
| `SearchIndex_jobs` | 2 organizations, 1 project, 1 job, 2 workers, 1 change, 1 fault | types; `SearchStaysUp`, `BuildsAreHidden` (both up to a number given again while in use), `LoneJobRepairs`, `ActiveJobHasTask` |
| `PageTasks_runs` | 2 pages, 2 workers, 1 request that starts runs of OCR or translation, 1 editor request, 2 items, 2 credits, 1 event | types; `FirstRunIsDone`, `CompletedPageHasText`, `ChargesAreForSavedWork` |
| `TaskTray_runs` | 2 pages, 1 worker, a run of enhanced OCR or a multi-batch, 2 events | `CompletedEntryIsOver`, `SuccessHasText`, `CompletedBatchIsRead`, `RunEntryEnds` |
| `ArchivalExtract_runs` | 2 workers, 2 requests, one with force, 2 windows, 1 edit, 2 faults | types; `RunsAreAlone`, `UsableRunIsWhole`, `ShownTextNeverGoesBack`, `RefusedRequestIsCovered` |

Two more runs show, each with a counterexample, that the code does not keep what its comments
or documents say (section 6): `PageRevisions_overwrite` and `DocumentStore_stale`.

*Bounds and why they are enough.* Every bound is a constant whose name begins with `Max`. All
mechanisms under test are between pairs: two workers at a chunk, two savers of a track, a
reader and a saver, two tasks at an alias. The exception is known: a store number that is given
again does its harm with three or four workers. `SearchStaysUp` and `BuildsAreHidden` except it
(`reused`), two workers and one fault are enough to reach the exception, and the theorems of
section 4 hold for any number of workers. What a fault does depends on where it falls, and TLC
tries every place. Two pages are needed for a chunk that fails in part, two chunks for "the
last one finalizes", two documents for the job's verdict, two organizations for a moved
project, one job for a redelivered one beside itself (a second worker takes the copy). In
PageTasks the second page makes two tasks count against each other and the second item is the
editor's or the second run's; two credits are one fewer than tasks and editor can ask for. In
TaskTray the interleaved parties are the poll, the cancellation and one worker. In
ArchivalExtract a second request is what meets the lock, the third of three overlapping runs
only repeats what the second does to the first. A redelivery stands for any number, since the
guards do not count. `MaxRetries` is three in the code; the model needs the last retry and one
before it. Workers are symmetric in runs without liveness. The runs may stop (`CHECK_DEADLOCK FALSE`): when all messages are worked
off and the budgets are spent there is nothing left to do; the same holds for editors that have
made all their edits.

*Fairness.* BatchOcr: a worker with a task goes on with it (weak), the broker hands every
waiting message out again and again (strong: a message is taken off the queue and may come
back), heartbeats grow old (weak), a command that was started ends (weak). The error paths share the
fairness of the steps they replace, so a task ends in either way. No crash, cancel,
redelivery or retry has to happen. PageRevisions: a request that was accepted is worked off
(weak), a user with an open page submits it sooner or later (strong, since the page is
reloaded in between). DocumentStore: a request goes on (weak), which includes the follower's
`wait_timeout`: it is measured by the clock. Nothing is assumed about savers or leaders, and
no property needs S3 to come back. TaskTray: a worker takes what the broker has and goes on with
it, somebody has a page of the site open, which polls (weak), and a cancellation that was begun
is carried through. ArchivalExtract: workers likewise; a key with a time to live lapses (weak);
the broker delivers what was not acknowledged (strong, since a lock may come and go in between).
No edit, request, crash or overrun has to happen.

## 4. What is proved

TLAPS proves each of these for any set of processes, documents, chunks, pages and tracks and
any values of the bounds.

- **BatchOcrProofs**: `TypeOK`, `ExclusiveChunk`, `CompletedChunkIsWhole`,
  `DurableBeforeDone`, `CancelIsFinal`, `NoPageAfterCancel`, `CompletedPageKept`. The
  inductive invariant is `TypeOK /\ ClaimInv /\ ProgressInv /\ DurableInv /\ AwareInv`.
  `ExclusiveChunk` alone is not inductive: that a second claim finds the chunk taken needs `ClaimInv`
  (a chunk with an undisturbed worker is IN_PROGRESS and fresh). `CompletedChunkIsWhole` needs
  `ProgressInv`: the pages a worker has passed are finished, and `Finish` looks for failed
  ones. `DurableBeforeDone` needs that a worker on the way from one track to the other has
  stored the first. `CancelIsFinal` and `NoPageAfterCancel` need `AwareInv`: under a cancelled job
  every worker between a look and the write that rests on it looked before the cancellation, so no
  look after it leads to a write. `WorkIsNotLost` is `NoLostChunk`, which is stated for jobs that
  were never cancelled. Its invariant (`LostInv` in `SparedInv`) follows a chunk from its row to its
  message, to the worker that takes it and back into the queue by a retry or a crash, or into the
  history `lost`. `VerdictIsOverAll` is `TerminalJobIsDone`, stated for first attempts (nothing
  delivered twice, no `batch-retry`). `DoneInv` counts messages: a document's preparation is in the
  queue or in one worker's hands, once, and never beside a task of its chunks (`OnceInv`), so nobody
  can reopen a document, or a job, behind the worker that gives the verdict, between its look and
  its commit included. A second delivery breaks exactly that (section 6). `JobIsNotAbandoned` is
  `OpenJobIsAttended`, for first attempts too. Its invariant (`EndInv`) asks for a worker at the
  closing of every open document whose chunks have all ended, for one at the job's verdict when all
  documents have, and for the preparation of a document whose chunks are not made yet, each unless
  the document is in `lost`; two finishing chunks cannot each leave the document to the other, since
  each commits its own status before it looks. A preparation that raises, a claim refused after the
  last retry, a killed pool child and a death at the verdicts are therefore the only events that
  leave a job open for ever, and they do (section 6).
- **PageRevisionsProofs**: `TypeOK`, `DraftsRestOnPublishedText`, `ConflictsAreReal`, and
  four that no run checks: `VersionHasRevision` and `VersionsAreUnique`, of which `SavesAreTickets`
  is the stronger form, `StaleSaveIsRefused` and `StatusOfNewestSave`. The invariant is
  `TypeOK /\ TokenInv /\ TicketInv /\ VersionHasRevision /\ BaseInv`: a version is a ticket,
  which one writer holds or one revision has; and the token of a writer is the counter unless
  the track moved. `Implementation` is the refinement, `Spec => SavesAreTickets`: an accepted
  save takes a ticket, its second commit shows it, a crash loses those the writer held, and every
  other step leaves counters, revisions and holders alone. That a ticket is shown by its own
  holder rests on `TicketInv`.
- **DocumentStoreProofs**: `TypeOK`, `DocumentIsStored`, `LocksAreTheirHolders`, `ReadsKeepUp`.
  The invariant adds to the types that bumps without a row are covered by savers on their way
  (`TicketInv`, by cardinality), that a reconciler's current revision still has its column (`SaveInv`) and
  that only stored documents are listed for clearing (`PushInv`). `ReadsKeepUp` adds that the
  object, the cache entries and what a reader holds are not older than what was stored when the
  revision they are asked for was made.
- **SearchIndexProofs**: `ActiveJobHasTask`. It is not inductive: a worker that has only to
  acknowledge a job's message is "on it" and then gone. `TaskInv` therefore asks for the process
  that is to dispatch the job, a message, or a worker that is not yet at the acknowledgement, and
  every end of a job changes its status in the step that goes there. The jobs in `stranded` are the
  exception, and the proof shows that no step but the death of such a process or worker's child, or
  a command's failing dispatch, makes one. The whole type invariant is not needed, only which fields
  the rows and workers have (`Shape`).
- **SearchRepairProofs**: `TypeOK`, `LoneJobRepairs`, `SearchStaysUp`, `BuildsAreHidden`. The types
  say what a worker's notes are at each of its steps, since the actions share the record.
  `LoneJobRepairs` follows a job that is alone (`solo`) through the whole of its work: what its new
  store, or its list of pages to repair, has yet to receive is exactly what its notes still name; or
  it is a sync of an alias on several stores, which it leaves as it was (`InVain`).
  `SearchHasNoDowntime` (`SearchStaysUp`) and `BuildsStayHidden` (`BuildsAreHidden`) rest on `Tidy`:
  in an organization that is neither dropped nor in `reused`, a store is made by one task only and
  is not live while it is, and what a task is about to delete is neither live nor being made. Both
  properties make these two exceptions, and need them: section 6 has the steps by which a reused
  number takes an index down. `NumbersAreNotReused` says how an operator avoids the second one: as
  long as no two tasks replace the stores of one organization at a time (`OneReplaces`), whatever
  else runs and fails, no number in use is given out again.
- **PageTasksProofs**: `TypeOK`, `CompletedPageHasText`, `FirstRunIsDone`,
  `ChargesAreForSavedWork`, of the runs and the editor (a multi-batch is TaskTray's). The types
  carry that messages and workers are about pages their run was started for. `TextIsThere` adds
  the workers that have saved and not yet booked: their revision is there, and revisions are only
  appended. `FirstRunBooks` says that a run's total is the number of pages asked for and,
  between counting and booking (`CountIsTrue`), that a worker about to close the first run of a
  kind has only its own page left. A task books on the first run only while there is no second,
  so the page is one of its own: `CountedTrue`. `Charges` is not
  about the counter alone, which loses updates: whatever a payment has read, plus everyone who is
  still to pay, is at most the bot's revisions and the editor's requests. No set of processes
  has to be finite: those who are to pay are, because each step adds at most one.
- **TaskTrayProofs**, about the composition with PageTasks: `CompletedEntryIsOver` and
  `CompletedBatchIsRead`. Neither is inductive. A poll writes what it learned steps ago, so the
  invariant (`PollFits`) is about what it is going to write, and rests on an action property of
  the items, proved for every step of both modules: results are only ever filled in, and a success
  stays (`Evolves`). `CompletedBatchIsRead` needs `Reading`: a multi-batch without an error has
  every unread page on its list or in its hands, also when it was delivered again and planned anew
  beside its first run; a page that was read stays read because version counters only grow.
  The other three need a second invariant on top of it, `TextInv`: `TypeOK` (`TrayTypeCorrect`),
  `SuccessHasText` (`SuccessesHaveText`) and `ChargesAreForSavedWork`
  (`OnlySavedWorkIsChargedInBatches`). It says of everyone at work, run or multi-batch, what is in
  his hands (`HandsHold`): past the save, the bot's text is on the track of his page. A result
  becomes SUCCESS only in the step that ends a page in hand, and texts are never removed,
  so whether the books are right does not matter for it. The charges are the argument of
  PageTasksProofs again, whose lemmas are about one worker's step and are used as they are; what
  is new are steps that drop work, where fewer are left to pay. `CompletedPageHasText` and
  `FirstRunIsDone` stay theorems about runs and the editor: with a multi-batch they are false,
  since its translations can be booked on an OCR run (section 6).
- **ArchivalExtractProofs**: `TypeOK`, `RunsAreAlone`, `UsableRunIsWhole`,
  `ShownTextNeverGoesBack`. `TypeOK` needs `RunInv` (a worker's run is a row). `RunsAreAlone`
  follows from `GuardInv`: as long as no run went on without its lock, a busy worker's request is
  in the lock. `UsableRunIsWhole` needs `WholeInv`, which speaks of the run under way as well: up to
  the window a worker has reached every window has its outcome, those of the run before are
  whole, and what was read from it is what its rows say. `ShownTextNeverGoesBack` needs that
  the tracks a run resolved are not newer than the text (`TextInv`) and that a lone run resolved
  tracks not older than those of any run before it (`LaterInv`); that a latest run exists among
  the usable ones is well-foundedness of the numbers.

The only assumptions are the named `ConstantsAssumption`s (sets of processes are disjoint,
bounds are natural numbers, every chunk has a document, and in BatchOcr the name `JobRow`, by
which a retry's write to the job is told from those to its documents, is no document). Each proof has one step per action
and, under it, one per conjunct the action can disturb; conjuncts that read only unchanged
variables are dealt with once, by a frame lemma.

Every invariant and action property of the passing runs is stated by a theorem. Only
model-checked are the liveness properties `JobEnds`, `CompletedDocumentAsks`,
`RefusedEditGetsThrough`, `ReadsEnd`, `RunEntryEnds` and `RefusedRequestIsCovered`: they rest on
fairness and so on ENABLED, which the prover cannot treat. No theorem about a property of a run has
a condition of its own: the exceptions are in the properties, as histories that name the events
(`contested`, `lost`, `unaware`, `reused`, `stranded`, `dropped`, `solo`, `unguarded`) or as bounds
that are not yet used up (`NeverCancelled`, `FirstAttempt`), and section 6 says what happens in them.

## 5. Abstractions

- *BatchOcr.* Both engines' calls of a page are one step that succeeds or fails. Downloading,
  rendering and file checks are steps of the preparation without content. Metrics, progress
  and errors' texts are left out. A task that was cancelled or refused out of retries and its second
  delivery share a delivery tag, so giving up the one acknowledges the other: `Crash` need not bring
  back a message of what is in `lost`. The FAILED branch of the preparation's error path
  (`s3_batch.py:438`) is reached only after retries that cannot be sent, and is left out with them.
- *PageRevisions.* Texts are their bases; `?version=` of tracks other than main and the
  user's own, drafts in the browser and translation tracks (which are saved to like machine
  tracks) are left out.
- *DocumentStore.* One track; the lock and cache of single documents, expiry of entries (a
  miss, which every read meets at first) and Redis outages (every helper then misses) are left
  out.
- *SearchIndex.* The projects' indices go through the same steps as the pages'; a write is
  visible at once (no refresh interval); reindexing one project as a job is the hook's steps;
  `search-index init` and `drop` without a job are left out. `start_job`'s look for an active job
  and its commit are one step; two active jobs of a scope come from `CliJob`.
- *PageTasks and TaskTray.* Killed pool children are not among the faults: a worker's death has its
  task delivered again.
- *PageTasks.* One project, one engine and one language pair, credits of the organization only
  (a user's own are the same steps on another row). A multi-batch's bookkeeping writes of one
  transaction are one step. Errors of the database are crashes.
- *TaskTray.* One document per multi-batch; entries of one task without pages (project creation,
  DOCX) are left out, since their state is Celery's answer; revoking reaches every worker that has
  not begun the task, as the broker delivers it to all that are connected. Polls, cancellations,
  crashes and expiries share one budget.
- *ArchivalExtract.* The text has a fixed number of windows; the hash of a window is its version.
  Whether a request forces is a constant of the request. The reduction of the answers to fields,
  the curated layer and the write-down to the project's columns are left out.

## 6. Where the code does not do what it says

Shown by runs:

- A page opened between the two commits of a save shows the old text with the new version; its
  edit replaces the new text without a conflict (`PageRevisions_overwrite`).
- A read between the commit of a revision and the upload of its document can leave the old
  boxes in the cache under the new revision, where every later read takes them for current
  (`DocumentStore_stale`).

Met while modelling, without a run of their own; the hazards in `PROJECT.json` give the lines.

In the batch pipeline:

- A worker whose lease lapsed closes a chunk that another worker has claimed since: the guard of
  the finishing UPDATE looks at the status, which is IN_PROGRESS for both. The comment there
  promises not to overwrite a stale-worker reclaim.
- A preparation that raises is never retried. `self.retry` (`s3_batch.py:437`) gets the document as
  a keyword argument beside the positional ones of the message, which is a TypeError when the
  retry is sent; Celery rejects the message. The document stays PENDING, its job open, until
  `batch-retry`.
- A chunk task that is refused by a live lease gives up after three retries:
  `max_retries=None` (`s3_batch.py:505`) means the task's own limit (`s3_batch.py:448`), not none. If
  the worker with the lease dies after that, nothing comes back for the chunk.
- The worker that closes the last document reads the job, then its documents, and commits its
  verdict without comparing (`s3_batch.py:217-228`): a `batch-cancel` committed in between is
  overwritten by COMPLETED. A worker that has looked at the cancellation (`s3_batch.py:566`) and not
  yet started the page reads that one page after it. `CancelIsFinal` and `NoPageAfterCancel` say
  that this is all.
- A worker that dies between closing the last chunk and finalizing the document leaves the
  document open for ever: the redelivered task returns at the idempotency guard, and
  `batch-retry` finds nothing to send. So does a pool child that is killed at any point, since its
  message is acknowledged (`task_reject_on_worker_lost` is not set). `JobIsNotAbandoned` shows that
  these, the failing preparation and the refused claim are the only such events. It speaks of
  documents that have chunks: one without pages gets none, so no last one closes it.
- A preparation that runs while the job is cancelled or its document retried acts on the
  status it read at the start: it reopens a cancelled or completed document, and so does one that
  is delivered twice, also of a job that is over.
- The error path of a chunk writes PENDING or FAILED whatever the status is by then.
- After that, a `batch-retry` reopens the job but not such a document, which is not FAILED: the
  chunks that were dropped under the cancelled job stay PENDING with nobody to read them.
- While `batch-retry` walks over several documents, the first one it re-sent can close the job
  over those still to be reopened.

In saves and documents:

- Revisions can be inserted in the other order than their versions were given; "latest" is by
  insertion.
- Search-and-replace passes a counter that belongs to no track, and is refused on every page
  that has a machine track.
- After an S3 outage the object of a track, an older document, hides the newer one in the
  column; and the reconciler pushes columns in no particular order, so that an older document
  can end up in the object.

In the index:

- A failed lookup of the alias is taken for an index without stores: a single edit then makes
  an empty store and swaps the live alias to it, until a sync or rebuild repairs it.
- Four rebuilds of an organization started on the command line, which does not look for a running
  job, and three workers can leave it without an index, against the docstring of `rebuild_org`
  ("with no search downtime"): two rebuilds that overlap retire the same store and both delete it
  by name; in between the number is given again to the store of a fourth, which goes live. (With
  `Jobs` of four members, three workers and `MaxFaults = 0`, TLC finds it as a violation of
  `SearchStaysUp` when the exception for `reused` is taken out of `Unsafe`.) Four workers can make a
  search see a build: two that looked up one number make its store in turn, each after one of two
  others that retired it has deleted it, and the first shows what the second is filling. The root is that `_next_version` counts from the stores that exist, so a number
  is given again as soon as its store is deleted: as `SearchHasNoDowntime` shows, numbers that are
  not given again while a task holds them are all it takes.
- Overlapping tasks can leave an alias on two stores. Every write through it is refused then; a sync
  counts the refusals (`indexer.py:674`) and ends COMPLETED without having repaired anything, until a
  rebuild.
- A job's row is committed before its task is dispatched (`admin_ops.py:91`, `cli.py:1282`): a
  request or command that dies in between leaves a PENDING job that nobody works on, and
  `start_job` refuses its scope from then on. A command that cannot reach the queue or is killed
  while it runs the job itself (`--now`), and a killed pool child, do the same.
- Edits and moves indexed during a rebuild go to the store the swap retires; a removed
  project's document can come back with the new store.
- A redelivered rebuild that fails erases the mark of a cancelled job, and the first run, cut
  short by that mark, swaps its half-written store in. A rebuild cancelled during its last
  organization ends COMPLETED. `start_job` looks and inserts in two steps.

In page tasks, the task list and multi-batches:

- A run's item is found by the name of its kind: the pages of a second run count for the
  first. Two tasks that book the last two pages at once do not see each other's row, and
  nobody closes the run.
- A multi-batch that only translates has no item of the name its tasks look for, so they book
  their pages on the newest item of the project, of whatever kind: an OCR run started meanwhile gets
  pages booked as COMPLETED, and is closed, for translations. (On TaskTray with `Kinds = {"ocr"}`,
  `Plans = {{"translation"}}` and `MaxItems = 2`, TLC finds it as a violation of
  `CompletedPageHasText`.)
- A translation that dies after its row was committed and before its revision is booked as done
  by the next delivery, without a text. A page whose boxes were committed before its text counts
  as read for a multi-batch.
- The slot of a project is given up at the first page that fails, while the others still run,
  and two POSTs at once both find it free.
- The credit limit is overrun by as many pages as workers have passed the check.
- A poll that began before a cancellation writes the entry back as running.

In the archival extraction:

- A run that takes longer than the lock lives (90 minutes; the broker waits three hours before it
  delivers again) has its lock taken by the next and then deletes that one's.
- A lock whose delete failed, or whose task's pool child was killed, stays for up to 90 minutes, and
  every request in that time is dropped as "already running" with nothing running
  (`archival_extract.py:122`). `RefusedRequestIsCovered` promises the end of a run to all others.
- A window whose answer was reused is stored without it, so the run after the next asks again.
- A description form that is saved after a run ended turns boxes nobody touched into curated
  values, since they are compared with the view of the moment and not with the one the form was
  rendered with. The metadata form and the write-down save the same columns without looking at
  each other.

## 7. Plan

In this order:

1. The **curated layer** of the archival description: form, fields and write-down as three
   writers, on top of ArchivalExtract; its property is that a value nobody typed is never curated,
   under the condition the code needs for it.
2. **Rate limits** on the rows of their log, with PageTasks' requests.
