------------------------------ MODULE BatchOcr ------------------------------
(***************************************************************************)
(* The batch OCR pipeline: kalanjiyam/tasks/s3_batch.py and the operator's *)
(* commands batch-ocr, batch-cancel and batch-retry of cli.py.             *)
(*                                                                         *)
(* One BatchJob owns BatchItems (documents); preparing an item renders its *)
(* pages and cuts them into BatchOcrChunks; Celery workers OCR the chunks  *)
(* page by page.  All of them share the database rows and a Redis broker   *)
(* that delivers each message at least once.                               *)
(*                                                                         *)
(* Grain: an action is what one commit of the code makes visible.  Where   *)
(* the code reads a status, and decides on it a commit that overwrites     *)
(* what others may have written since, the look and the write are steps    *)
(* of their own (PageLook and PageStart, FinalizeItem and SealItem,        *)
(* FinalizeJob and JudgeJob).                                              *)
(***************************************************************************)
EXTENDS Integers, FiniteSets

CONSTANTS
    Items,          \* BatchItem rows of the job
    Chunks,         \* BatchOcrChunk rows the items are cut into
    ItemOf,         \* the item of a chunk
    PageCount,      \* pages per chunk (BATCH_OCR_CHUNK_SIZE)
    Workers,        \* Celery worker processes
    MaxRetries,     \* max_retries of both tasks
    Forces,         \* values of --force the operator may give to batch-retry
    MaxCrashes,     \* bound: workers and pool children that die
    MaxDups,        \* bound: messages delivered again after visibility_timeout
    MaxCancels,     \* bound: batch-cancel commands
    MaxRetryCmds    \* bound: batch-retry commands

JobRow == "job"     \* the BatchJob row, beside the BatchItem rows

ASSUME ConstantsAssumption ==
    /\ JobRow \notin Items
    /\ ItemOf \in [Chunks -> Items]
    /\ PageCount \in Nat \ {0}
    /\ MaxRetries \in Nat \ {0}
    /\ Forces \subseteq BOOLEAN
    /\ {MaxCrashes, MaxDups, MaxCancels, MaxRetryCmds} \subseteq Nat

VARIABLES
    job,        \* BatchJob.status; CANCELLED is FAILED 'Cancelled by user'
    item,       \* BatchItem.status
    project,    \* BatchItem.project_id is set
    chunk,      \* BatchOcrChunk.status; CANCELLED as for job, NONE is no row
    fresh,      \* BatchOcrChunk.heartbeat_at is within CHUNK_LEASE_TIMEOUT
    page,       \* BatchOcrPage.status
    saved,      \* the version tracks that hold a revision of the page's text
    asked,      \* extract_archival_metadata was dispatched for the item
    queue,      \* copies of each message in the broker
    pc, msg, at,\* a worker's step, the message it runs and its page
    cli,        \* progress of a running batch-retry
    budget,     \* what is left of the bounds
    contested,  \* history: chunks whose running worker lost its claim
    lost,       \* history: items and chunks a message or verdict of which was lost
    unaware     \* history: workers whose last look at the job preceded its cancellation

rows == <<job, item, project, chunk, fresh, page, saved, asked>>
workers == <<pc, msg, at>>
histories == <<contested, lost, unaware>>
vars == <<rows, queue, workers, cli, budget, histories>>

Pages == 1 .. PageCount
ChunksOf(i) == {c \in Chunks : ItemOf[c] = i}

JobStatus == {"PENDING", "IN_PROGRESS", "COMPLETED", "FAILED", "CANCELLED"}
ItemStatus == {"PENDING", "IN_PROGRESS", "DOWNLOADED", "IMAGES_EXTRACTED",
               "COMPLETED", "FAILED"}
ChunkStatus == {"NONE", "PENDING", "IN_PROGRESS", "COMPLETED", "FAILED", "CANCELLED"}
PageStatus == {"PENDING", "IN_PROGRESS", "COMPLETED", "FAILED"}
Terminal == {"COMPLETED", "FAILED", "CANCELLED"}
Tracks == {"ocr", "role:p1"}

(* A Celery message: the task, its argument, the force kwarg, request.retries *)
ItemMsg == [task : {"item"}, id : Items, force : BOOLEAN, tries : {0}]
ChunkMsg == [task : {"chunk"}, id : Chunks, force : BOOLEAN, tries : 0 .. MaxRetries]
Message == ItemMsg \cup ChunkMsg
NoMsg == [task |-> "none"]

NewItemMsg(i, f) == [task |-> "item", id |-> i, force |-> f, tries |-> 0]
NewChunkMsg(c, f) == [task |-> "chunk", id |-> c, force |-> f, tries |-> 0]

(* self.retry increments request.retries.                                   *)
Retried(m) == [m EXCEPT !.tries = @ + 1]

Sent(q, M) == [m \in Message |-> IF m \in M THEN q[m] + 1 ELSE q[m]]
Taken(q, m) == [q EXCEPT ![m] = @ - 1]

PrepSteps == {"render", "extract", "rows", "dispatch"}
(* The steps in which a worker works on the pages of its chunk.             *)
Working == {"page", "start", "ocr", "save", "mark"}
(* The steps from the end of a chunk to the end of its finalization.        *)
Verdicts == {"close", "seal", "sealfailed", "ask", "look", "judge", "judgefailed"}
Steps == {"idle", "claim"} \cup PrepSteps \cup Working \cup Verdicts
WorkersOn(c) == {w \in Workers : pc[w] \in Working /\ msg[w].id = c}

IdleCli == [on |-> FALSE, force |-> FALSE, todo |-> {}, left |-> {}, dirty |-> {}]

Init ==
    /\ job = "PENDING"
    /\ item = [i \in Items |-> "PENDING"]
    /\ project = [i \in Items |-> FALSE]
    /\ chunk = [c \in Chunks |-> "NONE"]
    /\ fresh = [c \in Chunks |-> FALSE]
    /\ page = [c \in Chunks |-> [n \in Pages |-> "PENDING"]]
    /\ saved = [c \in Chunks |-> [n \in Pages |-> {}]]
    /\ asked = [i \in Items |-> FALSE]
    /\ queue = [m \in Message |-> IF \E i \in Items : m = NewItemMsg(i, FALSE) THEN 1 ELSE 0]
    /\ pc = [w \in Workers |-> "idle"]
    /\ msg = [w \in Workers |-> NoMsg]
    /\ at = [w \in Workers |-> 0]
    /\ cli = IdleCli
    /\ budget = [crash |-> MaxCrashes, dup |-> MaxDups,
                 cancel |-> MaxCancels, retry |-> MaxRetryCmds]
    /\ contested = {}
    /\ lost = {}
    /\ unaware = {}

-----------------------------------------------------------------------------
(* Worker bookkeeping *)

Goto(w, l) == /\ pc' = [pc EXCEPT ![w] = l]
              /\ UNCHANGED <<msg, at>>

(* The task returns or raises: Celery acknowledges its message.             *)
Leave(w) == /\ pc' = [pc EXCEPT ![w] = "idle"]
            /\ msg' = [msg EXCEPT ![w] = NoMsg]
            /\ at' = [at EXCEPT ![w] = 0]

Running(w, l, task) == pc[w] = l /\ msg[w].task = task

-----------------------------------------------------------------------------
(* process_s3_batch_item: preparation *)

(* Status guard, then IN_PROGRESS; an item that has its project and chunks  *)
(* skips downloading and rendering.                                         *)
PrepTake(w, m) ==
    /\ pc[w] = "idle" /\ m.task = "item" /\ queue[m] > 0
    /\ queue' = Taken(queue, m)
    /\ \/ /\ item[m.id] \in Terminal
          /\ UNCHANGED <<rows, workers>>
       \/ /\ item[m.id] \notin Terminal
          /\ item' = [item EXCEPT ![m.id] = "IN_PROGRESS"]
          /\ pc' = [pc EXCEPT ![w] =
                IF project[m.id] /\ \E c \in ChunksOf(m.id) : chunk[c] # "NONE"
                THEN "extract" ELSE "render"]
          /\ msg' = [msg EXCEPT ![w] = m]
          /\ UNCHANGED <<job, project, chunk, fresh, page, saved, asked, at>>
    /\ UNCHANGED <<cli, budget, histories>>

(* Download, create or reuse the project, render and store the images.      *)
PrepRender(w) ==
    /\ Running(w, "render", "item")
    /\ item' = [item EXCEPT ![msg[w].id] = "DOWNLOADED"]
    /\ project' = [project EXCEPT ![msg[w].id] = TRUE]
    /\ Goto(w, "extract")
    /\ UNCHANGED <<job, chunk, fresh, page, saved, asked, queue, cli, budget, histories>>

(* Mutant: a status of the model's comment that no query looks for.         *)
PrepExtracted_OtherStatus(w) ==
    /\ Running(w, "extract", "item")
    /\ item' = [item EXCEPT ![msg[w].id] = "OCR_IN_PROGRESS"]
    /\ Goto(w, "rows")
    /\ UNCHANGED <<job, project, chunk, fresh, page, saved, asked, queue, cli, budget, histories>>

PrepExtracted(w) ==
    /\ Running(w, "extract", "item")
    /\ item' = [item EXCEPT ![msg[w].id] = "IMAGES_EXTRACTED"]
    /\ Goto(w, "rows")
    /\ UNCHANGED <<job, project, chunk, fresh, page, saved, asked, queue, cli, budget, histories>>

(* Chunk and page rows are created where there is none.                     *)
PrepRows(w) ==
    /\ Running(w, "rows", "item")
    /\ chunk' = [c \in Chunks |->
          IF ItemOf[c] = msg[w].id /\ chunk[c] = "NONE" THEN "PENDING" ELSE chunk[c]]
    /\ Goto(w, "dispatch")
    /\ UNCHANGED <<job, item, project, fresh, page, saved, asked, queue, cli, budget, histories>>

PrepDispatch(w) ==
    /\ Running(w, "dispatch", "item")
    /\ LET due == {c \in ChunksOf(msg[w].id) :
                      msg[w].force \/ chunk[c] \in {"PENDING", "FAILED", "CANCELLED"}}
       IN  queue' = Sent(queue, {NewChunkMsg(c, msg[w].force) : c \in due})
    /\ Leave(w)
    /\ UNCHANGED <<rows, cli, budget, histories>>

(* The except clause: the retry names as kwargs what the message already    *)
(* carries as positional arguments, so it cannot be sent and Celery rejects *)
(* the message: the item stays PENDING and nothing comes back for it.       *)
PrepFails(w) ==
    /\ pc[w] \in {"render", "extract", "rows"} /\ msg[w].task = "item"
    /\ item' = [item EXCEPT ![msg[w].id] = "PENDING"]
    /\ lost' = lost \cup {msg[w].id}
    /\ Leave(w)
    /\ UNCHANGED <<job, project, chunk, fresh, page, saved, asked, queue, cli, budget,
                   contested, unaware>>

-----------------------------------------------------------------------------
(* process_s3_batch_chunk *)

(* The idempotency guards: a chunk that is done, was cancelled or belongs   *)
(* to a cancelled job is dropped.                                           *)
ChunkTake(w, m) ==
    /\ pc[w] = "idle" /\ m.task = "chunk" /\ queue[m] > 0
    /\ queue' = Taken(queue, m)
    /\ LET drop == \/ ~m.force /\ chunk[m.id] = "COMPLETED"
                   \/ chunk[m.id] = "CANCELLED"
                   \/ job = "CANCELLED"
       IN  \/ drop /\ UNCHANGED workers
           \/ /\ ~drop
              /\ pc' = [pc EXCEPT ![w] = "claim"]
              /\ msg' = [msg EXCEPT ![w] = m]
              /\ UNCHANGED at
    /\ UNCHANGED <<rows, cli, budget, histories>>

(* Mutant: the claim does not look at the heartbeat.                        *)
Claimable_IgnoresLease(c, force) ==
    force \/ chunk[c] \in {"PENDING", "FAILED", "CANCELLED", "IN_PROGRESS"}

Claimable(c, force) ==
    \/ force
    \/ chunk[c] \in {"PENDING", "FAILED", "CANCELLED"}
    \/ chunk[c] = "IN_PROGRESS" /\ ~fresh[c]

(* The atomic UPDATE that claims the chunk.                                 *)
Claim(w) ==
    /\ Running(w, "claim", "chunk")
    /\ LET c == msg[w].id IN
       /\ Claimable(c, msg[w].force)
       /\ chunk' = [chunk EXCEPT ![c] = "IN_PROGRESS"]
       /\ fresh' = [fresh EXCEPT ![c] = TRUE]
       /\ contested' = IF msg[w].force /\ WorkersOn(c) # {}
                       THEN contested \cup {c} ELSE contested
    /\ pc' = [pc EXCEPT ![w] = "page"]
    /\ at' = [at EXCEPT ![w] = 1]
    /\ UNCHANGED <<job, item, project, page, saved, asked, queue, msg, cli, budget,
                   lost, unaware>>

(* Mutant: a refused claim returns without retrying.                        *)
ClaimRefused_Returns(w) ==
    /\ Running(w, "claim", "chunk")
    /\ ~Claimable(msg[w].id, msg[w].force)
    /\ Leave(w)
    /\ UNCHANGED <<rows, queue, cli, budget, histories>>

(* Nothing claimed: come back when the live lease should have ended, or     *)
(* return.  max_retries=None means the task's own limit: with its retries   *)
(* used up the message ends in MaxRetriesExceededError.                     *)
ClaimRefused(w) ==
    /\ Running(w, "claim", "chunk")
    /\ LET m == msg[w]
           leased == chunk[m.id] = "IN_PROGRESS"
       IN  /\ ~Claimable(m.id, m.force)
           /\ queue' = IF leased /\ m.tries < MaxRetries
                       THEN Sent(queue, {Retried(m)}) ELSE queue
           /\ lost' = IF leased /\ m.tries >= MaxRetries THEN lost \cup {m.id} ELSE lost
    /\ Leave(w)
    /\ UNCHANGED <<rows, cli, budget, contested, unaware>>

(* No OCR_SERVICE_URL: the chunk fails, unconditionally.                    *)
NoOcrTarget(w) ==
    /\ Running(w, "page", "chunk") /\ at[w] = 1
    /\ chunk' = [chunk EXCEPT ![msg[w].id] = "FAILED"]
    /\ Goto(w, "close")
    /\ UNCHANGED <<job, item, project, fresh, page, saved, asked, queue, cli, budget, histories>>

(* Mutant: only the chunk's own status is checked.                          *)
ChunkIsCancelled_OwnStatus(c) == chunk[c] # "IN_PROGRESS"

ChunkIsCancelled(c) == chunk[c] # "IN_PROGRESS" \/ job = "CANCELLED"

(* The top of the page loop stops for a cancelled or superseded chunk.      *)
PageStop(w) ==
    /\ Running(w, "page", "chunk") /\ at[w] \in Pages
    /\ ChunkIsCancelled(msg[w].id)
    /\ Leave(w)
    /\ UNCHANGED <<rows, queue, cli, budget, histories>>

PageLook(w) ==
    /\ Running(w, "page", "chunk") /\ at[w] \in Pages
    /\ ~ChunkIsCancelled(msg[w].id)
    /\ Goto(w, "start")
    /\ UNCHANGED <<rows, queue, cli, budget, histories>>

(* Mutant: completed pages are not skipped.                                 *)
PageStart_Redoes(w) ==
    /\ Running(w, "start", "chunk")
    /\ page' = [page EXCEPT ![msg[w].id][at[w]] = "IN_PROGRESS"]
    /\ unaware' = unaware \ {w}
    /\ Goto(w, "ocr")
    /\ UNCHANGED <<job, item, project, chunk, fresh, saved, asked, queue, cli, budget,
                   contested, lost>>

(* A completed page is skipped (unless forced), any other is started.       *)
PageStart(w) ==
    /\ Running(w, "start", "chunk")
    /\ LET c == msg[w].id  n == at[w] IN
       IF ~msg[w].force /\ page[c][n] = "COMPLETED"
       THEN /\ pc' = [pc EXCEPT ![w] = "page"]
            /\ at' = [at EXCEPT ![w] = n + 1]
            /\ UNCHANGED page
       ELSE /\ page' = [page EXCEPT ![c][n] = "IN_PROGRESS"]
            /\ pc' = [pc EXCEPT ![w] = "ocr"]
            /\ UNCHANGED at
    /\ unaware' = unaware \ {w}
    /\ UNCHANGED <<job, item, project, chunk, fresh, saved, asked, queue, msg,
                   cli, budget, contested, lost>>

(* Every OCR target failed: the page fails and the heartbeat is not touched.*)
OcrFails(w) ==
    /\ Running(w, "ocr", "chunk")
    /\ page' = [page EXCEPT ![msg[w].id][at[w]] = "FAILED"]
    /\ pc' = [pc EXCEPT ![w] = "page"]
    /\ at' = [at EXCEPT ![w] = @ + 1]
    /\ UNCHANGED <<job, item, project, chunk, fresh, saved, asked, queue, msg,
                   cli, budget, histories>>

(* Mutant: the page is marked done before the default track is saved.       *)
SaveEngineTrack_MarksEarly(w) ==
    /\ Running(w, "ocr", "chunk")
    /\ saved' = [saved EXCEPT ![msg[w].id][at[w]] = @ \cup {"ocr"}]
    /\ page' = [page EXCEPT ![msg[w].id][at[w]] = "COMPLETED"]
    /\ Goto(w, "save")
    /\ UNCHANGED <<job, item, project, chunk, fresh, asked, queue, cli, budget, histories>>

(* add_revision on the engine's own track.                                  *)
SaveEngineTrack(w) ==
    /\ Running(w, "ocr", "chunk")
    /\ saved' = [saved EXCEPT ![msg[w].id][at[w]] = @ \cup {"ocr"}]
    /\ Goto(w, "save")
    /\ UNCHANGED <<job, item, project, chunk, fresh, page, asked, queue, cli, budget, histories>>

(* add_revision on role:p1, the track the editor shows.                     *)
SaveDefaultTrack(w) ==
    /\ Running(w, "save", "chunk")
    /\ saved' = [saved EXCEPT ![msg[w].id][at[w]] = @ \cup {"role:p1"}]
    /\ Goto(w, "mark")
    /\ UNCHANGED <<job, item, project, chunk, fresh, page, asked, queue, cli, budget, histories>>

PageDone(w) ==
    /\ Running(w, "mark", "chunk")
    /\ page' = [page EXCEPT ![msg[w].id][at[w]] = "COMPLETED"]
    /\ fresh' = [fresh EXCEPT ![msg[w].id] = TRUE]
    /\ pc' = [pc EXCEPT ![w] = "page"]
    /\ at' = [at EXCEPT ![w] = @ + 1]
    /\ UNCHANGED <<job, item, project, chunk, saved, asked, queue, msg, cli, budget, histories>>

(* Mutant: the last attempt leaves the document to the chunks still to come.*)
WorkFails_NoVerdict(w) ==
    /\ pc[w] \in {"ocr", "save", "mark"} /\ msg[w].task = "chunk"
    /\ IF msg[w].tries < MaxRetries
       THEN /\ chunk' = [chunk EXCEPT ![msg[w].id] = "PENDING"]
            /\ queue' = Sent(queue, {Retried(msg[w])})
       ELSE chunk' = [chunk EXCEPT ![msg[w].id] = "FAILED"] /\ UNCHANGED queue
    /\ Leave(w)
    /\ UNCHANGED <<job, item, project, fresh, page, saved, asked, cli, budget, histories>>

(* The except clause: storage, parsing or EditError raised inside a page.   *)
WorkFails(w) ==
    /\ pc[w] \in {"ocr", "save", "mark"} /\ msg[w].task = "chunk"
    /\ \/ /\ msg[w].tries < MaxRetries
          /\ chunk' = [chunk EXCEPT ![msg[w].id] = "PENDING"]
          /\ queue' = Sent(queue, {Retried(msg[w])})
          /\ Leave(w)
       \/ /\ msg[w].tries >= MaxRetries
          /\ chunk' = [chunk EXCEPT ![msg[w].id] = "FAILED"]
          /\ Goto(w, "close")
          /\ UNCHANGED queue
    /\ UNCHANGED <<job, item, project, fresh, page, saved, asked, cli, budget, histories>>

HasFailedPage(c) == \E n \in Pages : page[c][n] = "FAILED"

(* Mutant: the failed pages are not looked for.                             *)
Finish_IgnoresFailures(w) ==
    /\ Running(w, "page", "chunk") /\ at[w] \notin Pages
    /\ IF chunk[msg[w].id] = "IN_PROGRESS"
       THEN chunk' = [chunk EXCEPT ![msg[w].id] = "COMPLETED"] /\ Goto(w, "close")
       ELSE Leave(w) /\ UNCHANGED chunk
    /\ UNCHANGED <<job, item, project, fresh, page, saved, asked, queue, cli, budget, histories>>

(* The guarded UPDATE after the last page.                                  *)
Finish(w) ==
    /\ Running(w, "page", "chunk") /\ at[w] \notin Pages
    /\ LET c == msg[w].id IN
       IF chunk[c] = "IN_PROGRESS"
       THEN /\ chunk' = [chunk EXCEPT ![c] =
                            IF HasFailedPage(c) THEN "FAILED" ELSE "COMPLETED"]
            /\ Goto(w, "close")
       ELSE Leave(w) /\ UNCHANGED chunk
    /\ UNCHANGED <<job, item, project, fresh, page, saved, asked, queue, cli, budget, histories>>

-----------------------------------------------------------------------------
(* Finalization *)

ItemOfTask(w) == ItemOf[msg[w].id]

(* Mutant: a document with a failed chunk gets no verdict.                  *)
FinalizeItem_OnlyCompleted(w) ==
    /\ Running(w, "close", "chunk")
    /\ IF \A c \in ChunksOf(ItemOfTask(w)) : chunk[c] \in {"NONE", "COMPLETED"}
       THEN Goto(w, "seal")
       ELSE Leave(w)
    /\ UNCHANGED <<rows, queue, cli, budget, histories>>

(* _finalize_batch_item_status reads the chunks: when every row is terminal *)
(* it decides the item's verdict, whatever its status was.                  *)
FinalizeItem(w) ==
    /\ Running(w, "close", "chunk")
    /\ LET existing == {c \in ChunksOf(ItemOfTask(w)) : chunk[c] # "NONE"} IN
       IF \A c \in existing : chunk[c] \in Terminal
       THEN Goto(w, IF \E c \in existing : chunk[c] = "COMPLETED"
                    THEN "seal" ELSE "sealfailed")
       ELSE Leave(w)
    /\ UNCHANGED <<rows, queue, cli, budget, histories>>

(* It gathers metrics, revisions and crops, then commits the verdict.       *)
SealItem(w) ==
    /\ pc[w] \in {"seal", "sealfailed"}
    /\ item' = [item EXCEPT ![ItemOfTask(w)] =
                    IF pc[w] = "seal" THEN "COMPLETED" ELSE "FAILED"]
    /\ Goto(w, "ask")
    /\ UNCHANGED <<job, project, chunk, fresh, page, saved, asked, queue, cli, budget, histories>>

(* Mutant: a document with a failed chunk is not sent on.                   *)
AskExtraction_WholeOnly(w) ==
    /\ Running(w, "ask", "chunk")
    /\ LET i == ItemOfTask(w) IN
       asked' = [asked EXCEPT ![i] = @ \/ \A c \in ChunksOf(i) : chunk[c] = "COMPLETED"]
    /\ Goto(w, "look")
    /\ UNCHANGED <<job, item, project, chunk, fresh, page, saved, queue, cli, budget, histories>>

(* A completed document is sent on to metadata extraction.                  *)
AskExtraction(w) ==
    /\ Running(w, "ask", "chunk")
    /\ LET i == ItemOfTask(w) IN asked' = [asked EXCEPT ![i] = @ \/ item[i] = "COMPLETED"]
    /\ Goto(w, "look")
    /\ UNCHANGED <<job, item, project, chunk, fresh, page, saved, queue, cli, budget, histories>>

(* Mutants: the terminal job is not left alone; one finished item is enough.*)
FinalizeJob_NoGuard(w) ==
    /\ pc[w] = "look"
    /\ IF \A i \in Items : item[i] \in Terminal THEN Goto(w, "judge") ELSE Leave(w)
    /\ UNCHANGED <<rows, queue, cli, budget, histories>>
FinalizeJob_AnyItem(w) ==
    /\ pc[w] = "look"
    /\ IF job \notin Terminal /\ \E i \in Items : item[i] = "COMPLETED"
       THEN Goto(w, "judge") ELSE Leave(w)
    /\ UNCHANGED <<rows, queue, cli, budget, histories>>

(* _finalize_batch_job_status reads the job and its items: a terminal job   *)
(* and one with an open item are left alone.                                *)
FinalizeJob(w) ==
    /\ pc[w] = "look"
    /\ IF job \notin Terminal /\ \A i \in Items : item[i] \in Terminal
       THEN Goto(w, IF \E i \in Items : item[i] = "COMPLETED"
                    THEN "judge" ELSE "judgefailed")
       ELSE Leave(w)
    /\ UNCHANGED <<rows, queue, cli, budget, histories>>

(* It commits the verdict over whatever the job is by now.  A cancelled job *)
(* keeps its error message: FAILED on it is still 'Cancelled by user'.      *)
JudgeJob(w) ==
    /\ pc[w] \in {"judge", "judgefailed"}
    /\ job' = IF pc[w] = "judge" THEN "COMPLETED"
              ELSE IF job = "CANCELLED" THEN "CANCELLED" ELSE "FAILED"
    /\ unaware' = unaware \ {w}
    /\ Leave(w)
    /\ UNCHANGED <<item, project, chunk, fresh, page, saved, asked, queue, cli, budget,
                   contested, lost>>

-----------------------------------------------------------------------------
(* The environment: time, crashes and redelivery *)

(* Fifteen minutes pass without a heartbeat.  Two targets tried twice with  *)
(* a 300 s timeout outlast the lease, so the worker may well be alive.      *)
LeaseLapses(c) ==
    /\ chunk[c] = "IN_PROGRESS" /\ fresh[c]
    /\ fresh' = [fresh EXCEPT ![c] = FALSE]
    /\ contested' = IF WorkersOn(c) # {} THEN contested \cup {c} ELSE contested
    /\ UNCHANGED <<job, item, project, chunk, page, saved, asked, queue, workers, cli, budget,
                   lost, unaware>>

(* The worker dies before it acknowledges: the broker delivers again, unless*)
(* a second delivery of the message, which has the same tag, was given up   *)
(* and acknowledged it.  A verdict that was under way is lost: the chunk is *)
(* done.                                                                    *)
Crash(w) ==
    /\ pc[w] # "idle" /\ budget.crash > 0
    /\ budget' = [budget EXCEPT !.crash = @ - 1]
    /\ \/ queue' = Sent(queue, {msg[w]})
       \/ msg[w].id \in lost /\ UNCHANGED queue
    /\ lost' = IF pc[w] \in Verdicts THEN lost \cup {msg[w].id} ELSE lost
    /\ unaware' = unaware \ {w}
    /\ Leave(w)
    /\ UNCHANGED <<rows, cli, contested>>

(* Only the pool child is killed: the worker's main process acknowledges    *)
(* the message (task_reject_on_worker_lost is not set).                     *)
ChildKilled(w) ==
    /\ pc[w] # "idle" /\ budget.crash > 0
    /\ budget' = [budget EXCEPT !.crash = @ - 1]
    /\ lost' = lost \cup {msg[w].id}
    /\ unaware' = unaware \ {w}
    /\ Leave(w)
    /\ UNCHANGED <<rows, queue, cli, contested>>

(* The message outlives visibility_timeout: a second worker gets it too.    *)
Redeliver(w) ==
    /\ pc[w] # "idle" /\ budget.dup > 0
    /\ budget' = [budget EXCEPT !.dup = @ - 1]
    /\ queue' = Sent(queue, {msg[w]})
    /\ UNCHANGED <<rows, workers, cli, histories>>

-----------------------------------------------------------------------------
(* The operator: cli.py batch-cancel and batch-retry *)

Cancel ==
    /\ job \in {"PENDING", "IN_PROGRESS"} /\ budget.cancel > 0
    /\ budget' = [budget EXCEPT !.cancel = @ - 1]
    /\ LET open == {i \in Items : item[i] \notin Terminal}
           cut == {c \in Chunks : ItemOf[c] \in open /\ chunk[c] \in {"PENDING", "IN_PROGRESS"}}
       IN  /\ job' = "CANCELLED"
           /\ item' = [i \in Items |-> IF i \in open THEN "FAILED" ELSE item[i]]
           /\ chunk' = [c \in Chunks |-> IF c \in cut THEN "CANCELLED" ELSE chunk[c]]
           /\ page' = [c \in Chunks |-> [n \in Pages |->
                 IF /\ ItemOf[c] \in open /\ chunk[c] # "NONE"
                    /\ page[c][n] \in {"PENDING", "IN_PROGRESS"}
                 THEN "FAILED" ELSE page[c][n]]]
           /\ contested' = contested \cup {c \in cut : WorkersOn(c) # {}}
    /\ unaware' = unaware \cup {w \in Workers : pc[w] \in {"start", "judge", "judgefailed"}}
    /\ UNCHANGED <<project, fresh, saved, asked, queue, workers, cli, lost>>

HasRows(i) == project[i] /\ \E c \in ChunksOf(i) : chunk[c] # "NONE"

(* The items batch-retry selects.                                           *)
Retryable(i, force) ==
    \/ force
    \/ item[i] \in {"FAILED", "PENDING", "IN_PROGRESS", "IMAGES_EXTRACTED"}
    \/ \E c \in ChunksOf(i) : chunk[c] # "NONE" /\ HasFailedPage(c)

RetryBegin(force) ==
    /\ ~cli.on /\ budget.retry > 0
    /\ budget' = [budget EXCEPT !.retry = @ - 1]
    /\ LET picked == {i \in Items : Retryable(i, force)} IN
       /\ picked # {}
       /\ cli' = [on |-> TRUE, force |-> force, todo |-> picked, left |-> {},
                  dirty |-> {JobRow}]
    /\ UNCHANGED <<rows, queue, workers, histories>>

(* A commit of the command writes the rows it has touched so far: the job   *)
(* (IN_PROGRESS, error cleared) and the items it has opened (item' = how).  *)
FlushJob == job' = IF JobRow \in cli.dirty THEN "IN_PROGRESS" ELSE job
FlushedItems == [i \in Items |-> IF i \in cli.dirty THEN "IN_PROGRESS" ELSE item[i]]

(* An item with chunks is opened: its chunks follow one commit at a time.   *)
RetryOpen(i) ==
    /\ cli.on /\ cli.left = {} /\ i \in cli.todo /\ HasRows(i)
    /\ cli' = [cli EXCEPT !.todo = @ \ {i}, !.dirty = @ \cup {i},
                          !.left = {c \in ChunksOf(i) : chunk[c] # "NONE"}]
    /\ UNCHANGED <<rows, queue, workers, budget, histories>>

(* An item without chunks goes back to preparation.                         *)
RetryPrepare(i) ==
    /\ cli.on /\ cli.left = {} /\ i \in cli.todo /\ ~HasRows(i)
    /\ FlushJob
    /\ item' = [FlushedItems EXCEPT ![i] = "PENDING"]
    /\ queue' = Sent(queue, {NewItemMsg(i, cli.force)})
    /\ cli' = [cli EXCEPT !.todo = @ \ {i}, !.dirty = {}]
    /\ UNCHANGED <<project, chunk, fresh, page, saved, asked, workers, budget, histories>>

(* Mutant: the chunk is reset but not sent.                                 *)
RetryChunk_SendsNothing(c) ==
    /\ cli.on /\ c \in cli.left
    /\ FlushJob
    /\ item' = FlushedItems
    /\ chunk' = [chunk EXCEPT ![c] = "PENDING"]
    /\ cli' = [cli EXCEPT !.left = @ \ {c}, !.dirty = {}]
    /\ contested' = contested \cup {c}
    /\ UNCHANGED <<project, fresh, page, saved, asked, queue, workers, budget, lost, unaware>>

(* A chunk to redo is reset with its unfinished pages, committed and sent;  *)
(* with --force the first commit also resets every page of the item.        *)
RetryChunk(c) ==
    /\ cli.on /\ c \in cli.left
    /\ \/ cli.force
       \/ chunk[c] \in {"FAILED", "CANCELLED", "PENDING", "IN_PROGRESS"}
       \/ HasFailedPage(c)
    /\ FlushJob
    /\ item' = FlushedItems
    /\ chunk' = [chunk EXCEPT ![c] = "PENDING"]
    /\ LET reset == IF cli.force /\ ItemOf[c] \in cli.dirty THEN ChunksOf(ItemOf[c]) ELSE {c}
       IN  /\ page' = [d \in Chunks |-> [n \in Pages |->
                 IF d \in reset /\ (cli.force \/ page[d][n] # "COMPLETED")
                 THEN "PENDING" ELSE page[d][n]]]
           /\ contested' = contested \cup {d \in reset : d # c \/ WorkersOn(d) # {}}
    /\ queue' = Sent(queue, {NewChunkMsg(c, cli.force)})
    /\ cli' = [cli EXCEPT !.left = @ \ {c}, !.dirty = {}]
    /\ UNCHANGED <<project, fresh, saved, asked, workers, budget, lost, unaware>>

RetrySkip(c) ==
    /\ cli.on /\ c \in cli.left
    /\ ~cli.force /\ chunk[c] \in {"COMPLETED", "NONE"} /\ ~HasFailedPage(c)
    /\ cli' = [cli EXCEPT !.left = @ \ {c}]
    /\ UNCHANGED <<rows, queue, workers, budget, histories>>

RetryEnd ==
    /\ cli.on /\ cli.todo = {} /\ cli.left = {}
    /\ FlushJob
    /\ item' = FlushedItems
    /\ cli' = IdleCli
    /\ UNCHANGED <<project, chunk, fresh, page, saved, asked, queue, workers, budget, histories>>

-----------------------------------------------------------------------------
WorkerStep(w) ==
    \/ PrepRender(w) \/ PrepExtracted(w) \/ PrepRows(w) \/ PrepDispatch(w)
    \/ Claim(w) \/ ClaimRefused(w)
    \/ PageStop(w) \/ PageLook(w) \/ PageStart(w)
    \/ SaveEngineTrack(w) \/ SaveDefaultTrack(w) \/ PageDone(w) \/ Finish(w)
    \/ FinalizeItem(w) \/ SealItem(w) \/ AskExtraction(w) \/ FinalizeJob(w) \/ JudgeJob(w)

WorkerFault(w) == PrepFails(w) \/ NoOcrTarget(w) \/ OcrFails(w) \/ WorkFails(w)

Receive(m) == \E w \in Workers : PrepTake(w, m) \/ ChunkTake(w, m)

RetryStep == \/ \E i \in Items : RetryOpen(i) \/ RetryPrepare(i)
             \/ \E c \in Chunks : RetryChunk(c) \/ RetrySkip(c)
             \/ RetryEnd

Next ==
    \/ \E m \in Message : Receive(m)
    \/ \E w \in Workers : WorkerStep(w) \/ WorkerFault(w)
    \/ \E w \in Workers : Crash(w) \/ ChildKilled(w) \/ Redeliver(w)
    \/ \E c \in Chunks : LeaseLapses(c)
    \/ Cancel
    \/ \E f \in Forces : RetryBegin(f)
    \/ RetryStep

Spec == Init /\ [][Next]_vars

(* A worker that runs a task goes on with it; the broker hands out every    *)
(* waiting message again and again until it is done; time passes; the       *)
(* operator's command runs to its end.  Nobody has to crash, cancel or      *)
(* retry.                                                                   *)
Fairness ==
    /\ \A w \in Workers : WF_vars(WorkerStep(w) \/ WorkerFault(w))
    /\ \A x \in Items \cup Chunks : SF_vars(\E m \in Message : m.id = x /\ Receive(m))
    /\ \A c \in Chunks : WF_vars(LeaseLapses(c))
    /\ WF_vars(RetryStep)

FairSpec == Spec /\ Fairness

-----------------------------------------------------------------------------
(* Properties *)

RowTypes ==
    /\ job \in JobStatus
    /\ item \in [Items -> ItemStatus]
    /\ project \in [Items -> BOOLEAN]
    /\ chunk \in [Chunks -> ChunkStatus]
    /\ fresh \in [Chunks -> BOOLEAN]
    /\ page \in [Chunks -> [Pages -> PageStatus]]
    /\ saved \in [Chunks -> [Pages -> SUBSET Tracks]]
    /\ asked \in [Items -> BOOLEAN]

WorkerTypes ==
    /\ pc \in [Workers -> Steps]
    /\ msg \in [Workers -> Message \cup {NoMsg}]
    /\ at \in [Workers -> 0 .. PageCount + 1]
    /\ \A w \in Workers :
          /\ pc[w] \in PrepSteps => msg[w] \in ItemMsg
          /\ pc[w] \in {"claim"} \cup Working \cup Verdicts => msg[w] \in ChunkMsg
          /\ pc[w] # "idle" => msg[w] \in Message
          /\ pc[w] \in {"start", "ocr", "save", "mark"} => at[w] \in Pages
          /\ pc[w] = "page" => at[w] \in 1 .. PageCount + 1

OtherTypes ==
    /\ queue \in [Message -> Nat]
    /\ cli \in [on : BOOLEAN, force : BOOLEAN, todo : SUBSET Items,
                left : SUBSET Chunks, dirty : SUBSET (Items \cup {JobRow})]
    /\ budget \in [crash : Nat, dup : Nat, cancel : Nat, retry : Nat]
    /\ contested \subseteq Chunks
    /\ lost \subseteq Items \cup Chunks
    /\ unaware \subseteq Workers

(* Every variable keeps the type its column, message or local has in the    *)
(* code; a worker in a step of a task runs a message of that task, and in a *)
(* step of a page it is at a page of its chunk.                             *)
TypeOK == RowTypes /\ WorkerTypes /\ OtherTypes

(* While its worker keeps its claim, a chunk is worked on by one worker:    *)
(* the claim UPDATE lets no redelivered message in beside a live lease.     *)
ExclusiveChunk ==
    \A c \in Chunks \ contested : \A v, w \in WorkersOn(c) : v = w

(* A chunk reported COMPLETED has no page that failed or was left undone:   *)
(* the idempotency skips, crashes and repeated attempts lose no page.       *)
CompletedChunkIsWhole ==
    \A c \in Chunks \ contested :
        chunk[c] = "COMPLETED" => \A n \in Pages : page[c][n] = "COMPLETED"

(* A page is COMPLETED only when both version tracks hold its revision, so  *)
(* a worker that dies between the commits never leaves a page that later    *)
(* attempts skip without its text.                                          *)
DurableBeforeDone ==
    \A c \in Chunks, n \in Pages : page[c][n] = "COMPLETED" => saved[c][n] = Tracks

Carried(c) ==
    \/ \E m \in ChunkMsg : m.id = c /\ queue[m] > 0
    \/ \E m \in ItemMsg : m.id = ItemOf[c] /\ queue[m] > 0
    \/ \E w \in Workers : /\ pc[w] \in {"claim"} \cup Working \cup PrepSteps
                          /\ \/ msg[w].task = "chunk" /\ msg[w].id = c
                             \/ msg[w].task = "item" /\ msg[w].id = ItemOf[c]

(* A message of the document or the chunk was lost, or its verdict: by a    *)
(* preparation that raised, by a claim refused until the retries were used  *)
(* up, with a killed pool child, with a worker that died while finalizing.  *)
Lost(c) == c \in lost \/ ItemOf[c] \in lost

(* batch-cancel has not run.                                                *)
NeverCancelled == budget.cancel = MaxCancels

(* Work is never lost without such an event: while the job has not been     *)
(* cancelled, a chunk that still has to be done is in a worker's hands or a *)
(* message for it will be delivered, through crashes, lapsed leases, refused*)
(* claims, failing pages and redeliveries; otherwise the operator is told,  *)
(* by an item that failed, or is retrying already.                          *)
NoLostChunk ==
    NeverCancelled =>
        \A c \in Chunks : chunk[c] \in {"PENDING", "IN_PROGRESS"} =>
            Carried(c) \/ Lost(c) \/ item[ItemOf[c]] = "FAILED" \/ cli.on

(* A cancelled job is reopened only by batch-retry, and only the verdict    *)
(* of a worker that had looked before batch-cancel committed is written     *)
(* over the cancellation: no worker that looks later, and no preparation    *)
(* still running, changes it.                                               *)
CancelIsFinal ==
    [][job = "CANCELLED" /\ job' # job =>
          \/ cli.on /\ job' = "IN_PROGRESS"
          \/ \E w \in unaware : pc[w] = "judge" /\ job' = "COMPLETED"]_vars

(* Once the job is cancelled, a worker starts at most the one page whose    *)
(* look at the cancellation came before it (it leaves unaware by that).     *)
NoPageAfterCancel ==
    [][\A c \in Chunks, n \in Pages :
          job = "CANCELLED" /\ page[c][n] # "IN_PROGRESS" /\ page'[c][n] = "IN_PROGRESS" =>
              \E w \in unaware \ unaware' : msg[w].id = c /\ at[w] = n]_vars

(* A completed page is redone only when the operator forces it.             *)
CompletedPageKept ==
    [][\A c \in Chunks \ contested', n \in Pages :
          page[c][n] = "COMPLETED" /\ page'[c][n] # "COMPLETED" =>
              cli.force \/ \E w \in WorkersOn(c) : msg[w].force]_vars

(* Nothing was delivered twice and batch-retry has not run.                 *)
FirstAttempt == budget.dup = MaxDups /\ budget.retry = MaxRetryCmds

(* On the first attempt, a job that was not cancelled and is over has no    *)
(* document still open (a second preparation or batch-retry may reopen one).*)
TerminalJobIsDone ==
    FirstAttempt /\ job \in {"COMPLETED", "FAILED"} => \A i \in Items : item[i] \in Terminal

(* A chunk that is not done is carried, or a worker is about to give its    *)
(* document a verdict.                                                      *)
Attended(i) ==
    \/ \E c \in ChunksOf(i) : chunk[c] \notin Terminal /\ Carried(c)
    \/ \E w \in Workers : pc[w] \in {"close", "seal", "sealfailed"} /\ ItemOfTask(w) = i

(* On the first attempt, a job that lost nothing and is not over is on its  *)
(* way to a verdict: for each open document (that has pages) there is work  *)
(* that ends in _finalize_batch_item_status, and when none is open, a       *)
(* worker is on its way through _finalize_batch_job_status.  The last       *)
(* chunk's worker cannot leave it to another that has already looked.       *)
OpenJobIsAttended ==
    FirstAttempt /\ job \notin Terminal =>
        /\ \A i \in Items : item[i] \notin Terminal /\ ChunksOf(i) # {} =>
              Attended(i) \/ i \in lost \/ \E c \in ChunksOf(i) : c \in lost
        /\ \/ \E i \in Items : item[i] \notin Terminal
           \/ \E w \in Workers : pc[w] \in {"ask", "look", "judge", "judgefailed"}
           \/ lost # {}
           \/ Items = {}

(* A document whose OCR completed is sent to metadata extraction, whichever *)
(* of its chunks finished last.                                             *)
CompletedDocumentAsks == \A i \in Items : item[i] = "COMPLETED" ~> asked[i]

(* Every job that loses no message gets its verdict: no combination of      *)
(* lapsed leases, failed pages and task retries leaves it open for ever.    *)
JobEnds == <>(job \in Terminal \/ lost # {})
=============================================================================
