--------------------------- MODULE BatchOcrProofs ---------------------------
(***************************************************************************)
(* Theorems about BatchOcr, for every set of documents, chunks and workers *)
(* and every bound: type correctness, the exclusiveness of a chunk's claim,*)
(* the order of a page's commits, what a cancellation stops, and that no   *)
(* chunk is lost.                                                          *)
(***************************************************************************)
EXTENDS BatchOcr, TLAPS

USE ConstantsAssumption DEF histories, Verdicts

-----------------------------------------------------------------------------
(* Messages and the broker *)

LEMMA MessageFields ==
    /\ \A m \in ItemMsg : /\ m.task = "item" /\ m.id \in Items /\ m.force \in BOOLEAN
                          /\ m.tries \in 0 .. MaxRetries
    /\ \A m \in ChunkMsg : /\ m.task = "chunk" /\ m.id \in Chunks /\ m.force \in BOOLEAN
                           /\ m.tries \in 0 .. MaxRetries
    /\ NoMsg.task = "none"
    /\ Message = ItemMsg \cup ChunkMsg
    BY DEF ItemMsg, ChunkMsg, NoMsg, Message

LEMMA SentType ==
    ASSUME NEW q \in [Message -> Nat], NEW M
    PROVE  Sent(q, M) \in [Message -> Nat]
    BY DEF Sent

LEMMA TakenType ==
    ASSUME NEW q \in [Message -> Nat], NEW m \in Message, q[m] > 0
    PROVE  Taken(q, m) \in [Message -> Nat]
    BY DEF Taken

-----------------------------------------------------------------------------
(* What a worker's bookkeeping preserves *)

PageSteps == {"ocr", "save", "mark"}

LEMMA LeaveTypes ==
    ASSUME WorkerTypes, NEW w \in Workers, Leave(w)
    PROVE  WorkerTypes'
    BY DEF WorkerTypes, Leave, Steps, PrepSteps, Working, Pages

LEMMA GotoTypes ==
    ASSUME WorkerTypes, NEW w \in Workers, NEW l \in Steps \ {"idle"}, Goto(w, l),
           pc[w] # "idle",
           l \in PrepSteps => pc[w] \in PrepSteps,
           l \in {"claim"} \cup Working \cup Verdicts =>
               pc[w] \in {"claim"} \cup Working \cup Verdicts,
           l \in PageSteps => pc[w] \in PageSteps,
           l = "start" => at[w] \in Pages,
           l # "page"
    PROVE  WorkerTypes'
    BY DEF WorkerTypes, Goto, Steps, PrepSteps, Working, Pages, PageSteps

LEMMA StayTypes == ASSUME WorkerTypes, UNCHANGED workers PROVE WorkerTypes'
    BY DEF WorkerTypes, workers

-----------------------------------------------------------------------------
(* One page of one chunk is written *)

LEMMA PageSet ==
    ASSUME NEW f \in [Chunks -> [Pages -> PageStatus]],
           NEW c \in Chunks, NEW a, NEW s, NEW d \in Chunks, NEW n \in Pages
    PROVE  [f EXCEPT ![c][a] = s][d][n] = IF d = c /\ n = a THEN s ELSE f[d][n]
    OBVIOUS

LEMMA PageSetType ==
    ASSUME NEW f \in [Chunks -> [Pages -> PageStatus]],
           NEW c \in Chunks, NEW a \in Pages, NEW s \in PageStatus
    PROVE  [f EXCEPT ![c][a] = s] \in [Chunks -> [Pages -> PageStatus]]
    OBVIOUS

LEMMA SavedSetType ==
    ASSUME NEW f \in [Chunks -> [Pages -> SUBSET Tracks]],
           NEW c \in Chunks, NEW a \in Pages, NEW s \in SUBSET Tracks
    PROVE  [f EXCEPT ![c][a] = s] \in [Chunks -> [Pages -> SUBSET Tracks]]
    OBVIOUS

-----------------------------------------------------------------------------
(* Every action keeps the types *)

LEMMA PrepTakeTypes ==
    ASSUME TypeOK, NEW w \in Workers, NEW m \in Message, PrepTake(w, m)
    PROVE  TypeOK'
<1>1. RowTypes'
    BY DEF TypeOK, PrepTake, RowTypes, ItemStatus, rows
<1>2. WorkerTypes'
    BY MessageFields DEF TypeOK, PrepTake, workers, WorkerTypes, Steps,
       PrepSteps, Working
<1>3. OtherTypes'
    BY TakenType DEF TypeOK, OtherTypes, PrepTake
<1> QED BY <1>1, <1>2, <1>3 DEF TypeOK

LEMMA PrepRenderTypes ==
    ASSUME TypeOK, NEW w \in Workers, PrepRender(w)
    PROVE  TypeOK'
<1>1. RowTypes'
    BY DEF TypeOK, PrepRender, RowTypes, ItemStatus
<1>2. WorkerTypes'
    BY GotoTypes DEF TypeOK, PrepRender, Running, Steps, PrepSteps, Working,
       PageSteps
<1>3. OtherTypes'
    BY DEF TypeOK, OtherTypes, PrepRender
<1> QED BY <1>1, <1>2, <1>3 DEF TypeOK

LEMMA PrepExtractedTypes ==
    ASSUME TypeOK, NEW w \in Workers, PrepExtracted(w)
    PROVE  TypeOK'
<1>1. RowTypes'
    BY DEF TypeOK, PrepExtracted, RowTypes, ItemStatus
<1>2. WorkerTypes'
    BY GotoTypes DEF TypeOK, PrepExtracted, Running, Steps, PrepSteps,
       Working, PageSteps
<1>3. OtherTypes'
    BY DEF TypeOK, OtherTypes, PrepExtracted
<1> QED BY <1>1, <1>2, <1>3 DEF TypeOK

LEMMA PrepRowsTypes ==
    ASSUME TypeOK, NEW w \in Workers, PrepRows(w)
    PROVE  TypeOK'
<1>1. RowTypes'
    BY DEF TypeOK, PrepRows, RowTypes, ChunkStatus
<1>2. WorkerTypes'
    BY GotoTypes DEF TypeOK, PrepRows, Running, Steps, PrepSteps, Working,
       PageSteps
<1>3. OtherTypes'
    BY DEF TypeOK, OtherTypes, PrepRows
<1> QED BY <1>1, <1>2, <1>3 DEF TypeOK

LEMMA PrepDispatchTypes ==
    ASSUME TypeOK, NEW w \in Workers, PrepDispatch(w)
    PROVE  TypeOK'
<1>1. RowTypes'
    BY DEF TypeOK, PrepDispatch, RowTypes, rows
<1>2. WorkerTypes'
    BY LeaveTypes DEF TypeOK, PrepDispatch
<1>3. OtherTypes'
    BY SentType DEF TypeOK, OtherTypes, PrepDispatch
<1> QED BY <1>1, <1>2, <1>3 DEF TypeOK

LEMMA PrepFailsTypes ==
    ASSUME TypeOK, NEW w \in Workers, PrepFails(w)
    PROVE  TypeOK'
<1>1. RowTypes'
    BY DEF TypeOK, PrepFails, RowTypes, ItemStatus
<1>2. WorkerTypes'
    BY LeaveTypes DEF TypeOK, PrepFails
<1>3. OtherTypes'
    BY MessageFields DEF TypeOK, WorkerTypes, OtherTypes, PrepFails, PrepSteps
<1> QED BY <1>1, <1>2, <1>3 DEF TypeOK

LEMMA ChunkTakeTypes ==
    ASSUME TypeOK, NEW w \in Workers, NEW m \in Message, ChunkTake(w, m)
    PROVE  TypeOK'
<1>1. RowTypes'
    BY DEF TypeOK, ChunkTake, RowTypes, rows
<1>2. WorkerTypes'
    BY MessageFields DEF TypeOK, ChunkTake, workers, WorkerTypes, Steps,
       PrepSteps
<1>3. OtherTypes'
    BY TakenType DEF TypeOK, OtherTypes, ChunkTake
<1> QED BY <1>1, <1>2, <1>3 DEF TypeOK

LEMMA ClaimTypes ==
    ASSUME TypeOK, NEW w \in Workers, Claim(w)
    PROVE  TypeOK'
<1>1. RowTypes'
    BY DEF TypeOK, Claim, RowTypes, ChunkStatus
<1>2. WorkerTypes'
    BY DEF TypeOK, Claim, WorkerTypes, Running, Steps, PrepSteps, Working
<1>3. OtherTypes'
    BY MessageFields DEF TypeOK, OtherTypes, Claim, WorkerTypes, Running
<1> QED BY <1>1, <1>2, <1>3 DEF TypeOK

LEMMA ClaimRefusedTypes ==
    ASSUME TypeOK, NEW w \in Workers, ClaimRefused(w)
    PROVE  TypeOK'
<1>1. RowTypes'
    BY DEF TypeOK, ClaimRefused, RowTypes, rows
<1>2. WorkerTypes'
    BY LeaveTypes DEF TypeOK, ClaimRefused
<1>3. OtherTypes'
    <2>1. msg[w].id \in Chunks
        BY MessageFields DEF TypeOK, WorkerTypes, ClaimRefused, Running
    <2>2. queue' \in [Message -> Nat] /\ lost' \subseteq lost \cup {msg[w].id}
        BY SentType DEF TypeOK, OtherTypes, ClaimRefused
    <2> QED BY <2>1, <2>2 DEF TypeOK, OtherTypes, ClaimRefused
<1> QED BY <1>1, <1>2, <1>3 DEF TypeOK

LEMMA NoOcrTargetTypes ==
    ASSUME TypeOK, NEW w \in Workers, NoOcrTarget(w)
    PROVE  TypeOK'
<1>1. RowTypes'
    BY DEF TypeOK, NoOcrTarget, RowTypes, ChunkStatus
<1>2. WorkerTypes'
    BY GotoTypes DEF TypeOK, NoOcrTarget, Running, Steps, PrepSteps, Working,
       PageSteps
<1>3. OtherTypes'
    BY DEF TypeOK, OtherTypes, NoOcrTarget
<1> QED BY <1>1, <1>2, <1>3 DEF TypeOK

LEMMA PageStopTypes ==
    ASSUME TypeOK, NEW w \in Workers, PageStop(w)
    PROVE  TypeOK'
<1>1. RowTypes'
    BY DEF TypeOK, PageStop, RowTypes, rows
<1>2. WorkerTypes'
    BY LeaveTypes DEF TypeOK, PageStop
<1>3. OtherTypes'
    BY DEF TypeOK, OtherTypes, PageStop
<1> QED BY <1>1, <1>2, <1>3 DEF TypeOK

LEMMA PageLookTypes ==
    ASSUME TypeOK, NEW w \in Workers, PageLook(w)
    PROVE  TypeOK'
<1>1. RowTypes'
    BY DEF TypeOK, PageLook, RowTypes, rows
<1>2. WorkerTypes'
    BY GotoTypes DEF TypeOK, PageLook, Running, Steps, PrepSteps, Working,
       PageSteps
<1>3. OtherTypes'
    BY DEF TypeOK, OtherTypes, PageLook
<1> QED BY <1>1, <1>2, <1>3 DEF TypeOK

LEMMA PageStartTypes ==
    ASSUME TypeOK, NEW w \in Workers, PageStart(w)
    PROVE  TypeOK'
<1>1. RowTypes'
    <2>1. msg[w].id \in Chunks /\ at[w] \in Pages
        BY MessageFields DEF TypeOK, PageStart, WorkerTypes, Running, Working
    <2>2. page' \in [Chunks -> [Pages -> PageStatus]]
        <3>1. \/ page' = page
              \/ page' = [page EXCEPT ![msg[w].id][at[w]] = "IN_PROGRESS"]
            BY DEF PageStart
        <3>2. page \in [Chunks -> [Pages -> PageStatus]] /\ "IN_PROGRESS" \in PageStatus
            BY DEF TypeOK, RowTypes, PageStatus
        <3>3. [page EXCEPT ![msg[w].id][at[w]] = "IN_PROGRESS"]
                  \in [Chunks -> [Pages -> PageStatus]]
            BY <2>1, <3>2, PageSetType
        <3> QED BY <3>1, <3>2, <3>3
    <2> QED BY <2>2 DEF TypeOK, RowTypes, PageStart
<1>2. WorkerTypes'
    BY DEF TypeOK, PageStart, WorkerTypes, Running, Steps, PrepSteps, Working,
       Pages
<1>3. OtherTypes'
    BY DEF TypeOK, OtherTypes, PageStart
<1> QED BY <1>1, <1>2, <1>3 DEF TypeOK

LEMMA OcrFailsTypes ==
    ASSUME TypeOK, NEW w \in Workers, OcrFails(w)
    PROVE  TypeOK'
<1>1. RowTypes'
    BY DEF TypeOK, OcrFails, RowTypes, PageStatus
<1>2. WorkerTypes'
    BY DEF TypeOK, OcrFails, WorkerTypes, Running, Steps, PrepSteps, Working,
       Pages
<1>3. OtherTypes'
    BY DEF TypeOK, OtherTypes, OcrFails
<1> QED BY <1>1, <1>2, <1>3 DEF TypeOK

LEMMA SaveEngineTrackTypes ==
    ASSUME TypeOK, NEW w \in Workers, SaveEngineTrack(w)
    PROVE  TypeOK'
<1>1. RowTypes'
    <2>1. PICK c \in Chunks, a \in Pages : c = msg[w].id /\ a = at[w]
        BY MessageFields DEF TypeOK, SaveEngineTrack, WorkerTypes, Running, Working
    <2>2. saved' = [saved EXCEPT ![c][a] = saved[c][a] \cup {"ocr"}]
        BY <2>1 DEF SaveEngineTrack
    <2>3. saved \in [Chunks -> [Pages -> SUBSET Tracks]]
        BY DEF TypeOK, RowTypes
    <2>4. saved[c][a] \cup {"ocr"} \in SUBSET Tracks
        BY <2>3 DEF Tracks
    <2>5. saved' \in [Chunks -> [Pages -> SUBSET Tracks]]
        BY <2>2, <2>3, <2>4, SavedSetType
    <2> QED BY <2>5 DEF TypeOK, RowTypes, SaveEngineTrack
<1>2. WorkerTypes'
    BY GotoTypes DEF TypeOK, SaveEngineTrack, Running, Steps, PrepSteps,
       Working, PageSteps
<1>3. OtherTypes'
    BY DEF TypeOK, OtherTypes, SaveEngineTrack
<1> QED BY <1>1, <1>2, <1>3 DEF TypeOK

LEMMA SaveDefaultTrackTypes ==
    ASSUME TypeOK, NEW w \in Workers, SaveDefaultTrack(w)
    PROVE  TypeOK'
<1>1. RowTypes'
    <2>1. PICK c \in Chunks, a \in Pages : c = msg[w].id /\ a = at[w]
        BY MessageFields DEF TypeOK, SaveDefaultTrack, WorkerTypes, Running, Working
    <2>2. saved' = [saved EXCEPT ![c][a] = saved[c][a] \cup {"role:p1"}]
        BY <2>1 DEF SaveDefaultTrack
    <2>3. saved \in [Chunks -> [Pages -> SUBSET Tracks]]
        BY DEF TypeOK, RowTypes
    <2>4. saved[c][a] \cup {"role:p1"} \in SUBSET Tracks
        BY <2>3 DEF Tracks
    <2>5. saved' \in [Chunks -> [Pages -> SUBSET Tracks]]
        BY <2>2, <2>3, <2>4, SavedSetType
    <2> QED BY <2>5 DEF TypeOK, RowTypes, SaveDefaultTrack
<1>2. WorkerTypes'
    BY GotoTypes DEF TypeOK, SaveDefaultTrack, Running, Steps, PrepSteps,
       Working, PageSteps
<1>3. OtherTypes'
    BY DEF TypeOK, OtherTypes, SaveDefaultTrack
<1> QED BY <1>1, <1>2, <1>3 DEF TypeOK

LEMMA PageDoneTypes ==
    ASSUME TypeOK, NEW w \in Workers, PageDone(w)
    PROVE  TypeOK'
<1>1. RowTypes'
    BY DEF TypeOK, PageDone, RowTypes, PageStatus
<1>2. WorkerTypes'
    BY DEF TypeOK, PageDone, WorkerTypes, Running, Steps, PrepSteps, Working,
       Pages
<1>3. OtherTypes'
    BY DEF TypeOK, OtherTypes, PageDone
<1> QED BY <1>1, <1>2, <1>3 DEF TypeOK

LEMMA WorkFailsTypes ==
    ASSUME TypeOK, NEW w \in Workers, WorkFails(w)
    PROVE  TypeOK'
<1>1. RowTypes'
    BY DEF TypeOK, WorkFails, RowTypes, ChunkStatus
<1>2. WorkerTypes'
    BY GotoTypes, LeaveTypes DEF TypeOK, WorkFails, Steps, PrepSteps, Working,
       PageSteps
<1>3. OtherTypes'
    BY SentType DEF TypeOK, OtherTypes, WorkFails
<1> QED BY <1>1, <1>2, <1>3 DEF TypeOK

LEMMA FinishTypes ==
    ASSUME TypeOK, NEW w \in Workers, Finish(w)
    PROVE  TypeOK'
<1>1. RowTypes'
    <2>1. chunk' \in [Chunks -> ChunkStatus]
        BY DEF TypeOK, RowTypes, Finish, ChunkStatus
    <2> QED BY <2>1 DEF TypeOK, RowTypes, Finish
<1>2. WorkerTypes'
    BY GotoTypes, LeaveTypes DEF TypeOK, Finish, Running, Steps, PrepSteps,
       Working, PageSteps
<1>3. OtherTypes'
    BY DEF TypeOK, OtherTypes, Finish
<1> QED BY <1>1, <1>2, <1>3 DEF TypeOK

LEMMA FinalizeItemTypes ==
    ASSUME TypeOK, NEW w \in Workers, FinalizeItem(w)
    PROVE  TypeOK'
<1>1. RowTypes'
    BY DEF TypeOK, FinalizeItem, RowTypes, rows
<1>2. WorkerTypes'
    BY GotoTypes, LeaveTypes DEF TypeOK, FinalizeItem, Running, Steps,
       PrepSteps, Working, PageSteps
<1>3. OtherTypes'
    BY DEF TypeOK, OtherTypes, FinalizeItem
<1> QED BY <1>1, <1>2, <1>3 DEF TypeOK

LEMMA SealItemTypes ==
    ASSUME TypeOK, NEW w \in Workers, SealItem(w)
    PROVE  TypeOK'
<1>1. RowTypes'
    BY DEF TypeOK, SealItem, RowTypes, ItemStatus
<1>2. WorkerTypes'
    BY GotoTypes DEF TypeOK, SealItem, Steps, PrepSteps, Working, PageSteps
<1>3. OtherTypes'
    BY DEF TypeOK, OtherTypes, SealItem
<1> QED BY <1>1, <1>2, <1>3 DEF TypeOK

LEMMA AskExtractionTypes ==
    ASSUME TypeOK, NEW w \in Workers, AskExtraction(w)
    PROVE  TypeOK'
<1>1. RowTypes'
    BY DEF TypeOK, AskExtraction, RowTypes
<1>2. WorkerTypes'
    BY GotoTypes DEF TypeOK, AskExtraction, Running, Steps, PrepSteps, Working, PageSteps
<1>3. OtherTypes'
    BY DEF TypeOK, OtherTypes, AskExtraction
<1> QED BY <1>1, <1>2, <1>3 DEF TypeOK

LEMMA FinalizeJobTypes ==
    ASSUME TypeOK, NEW w \in Workers, FinalizeJob(w)
    PROVE  TypeOK'
<1>1. RowTypes'
    BY DEF TypeOK, FinalizeJob, RowTypes, rows
<1>2. WorkerTypes'
    BY GotoTypes, LeaveTypes DEF TypeOK, FinalizeJob, Steps, PrepSteps, Working,
       PageSteps
<1>3. OtherTypes'
    BY DEF TypeOK, OtherTypes, FinalizeJob
<1> QED BY <1>1, <1>2, <1>3 DEF TypeOK

LEMMA JudgeJobTypes ==
    ASSUME TypeOK, NEW w \in Workers, JudgeJob(w)
    PROVE  TypeOK'
<1>1. RowTypes'
    BY DEF TypeOK, JudgeJob, RowTypes, JobStatus
<1>2. WorkerTypes'
    BY LeaveTypes DEF TypeOK, JudgeJob
<1>3. OtherTypes'
    BY DEF TypeOK, OtherTypes, JudgeJob
<1> QED BY <1>1, <1>2, <1>3 DEF TypeOK

LEMMA LeaseLapsesTypes ==
    ASSUME TypeOK, NEW c \in Chunks, LeaseLapses(c)
    PROVE  TypeOK'
<1>1. RowTypes'
    BY DEF TypeOK, LeaseLapses, RowTypes
<1>2. WorkerTypes'
    BY StayTypes DEF TypeOK, LeaseLapses
<1>3. OtherTypes'
    BY DEF TypeOK, OtherTypes, LeaseLapses
<1> QED BY <1>1, <1>2, <1>3 DEF TypeOK

LEMMA CrashTypes ==
    ASSUME TypeOK, NEW w \in Workers, Crash(w)
    PROVE  TypeOK'
<1>1. RowTypes'
    BY DEF TypeOK, Crash, RowTypes, rows
<1>2. WorkerTypes'
    BY LeaveTypes DEF TypeOK, Crash
<1>3. OtherTypes'
    <2>1. msg[w].id \in Items \cup Chunks
        BY MessageFields DEF TypeOK, WorkerTypes, Crash
    <2>2. queue' \in [Message -> Nat] /\ lost' \subseteq lost \cup {msg[w].id}
        BY SentType DEF TypeOK, OtherTypes, Crash
    <2> QED BY <2>1, <2>2 DEF TypeOK, OtherTypes, Crash
<1> QED BY <1>1, <1>2, <1>3 DEF TypeOK

LEMMA ChildKilledTypes ==
    ASSUME TypeOK, NEW w \in Workers, ChildKilled(w)
    PROVE  TypeOK'
<1>1. RowTypes'
    BY DEF TypeOK, ChildKilled, RowTypes, rows
<1>2. WorkerTypes'
    BY LeaveTypes DEF TypeOK, ChildKilled
<1>3. OtherTypes'
    <2>1. msg[w].id \in Items \cup Chunks
        BY MessageFields DEF TypeOK, WorkerTypes, ChildKilled
    <2> QED BY <2>1 DEF TypeOK, OtherTypes, ChildKilled
<1> QED BY <1>1, <1>2, <1>3 DEF TypeOK

LEMMA RedeliverTypes ==
    ASSUME TypeOK, NEW w \in Workers, Redeliver(w)
    PROVE  TypeOK'
<1>1. RowTypes'
    BY DEF TypeOK, Redeliver, RowTypes, rows
<1>2. WorkerTypes'
    BY StayTypes DEF TypeOK, Redeliver
<1>3. OtherTypes'
    BY SentType DEF TypeOK, OtherTypes, Redeliver
<1> QED BY <1>1, <1>2, <1>3 DEF TypeOK

LEMMA CancelTypes ==
    ASSUME TypeOK, Cancel
    PROVE  TypeOK'
<1>1. RowTypes'
    BY DEF TypeOK, Cancel, RowTypes, JobStatus, ItemStatus, ChunkStatus,
       PageStatus
<1>2. WorkerTypes'
    BY StayTypes DEF TypeOK, Cancel
<1>3. OtherTypes'
    BY DEF TypeOK, OtherTypes, Cancel
<1> QED BY <1>1, <1>2, <1>3 DEF TypeOK

LEMMA RetryBeginTypes ==
    ASSUME TypeOK, NEW f \in Forces, RetryBegin(f)
    PROVE  TypeOK'
<1>1. RowTypes'
    BY DEF TypeOK, RetryBegin, RowTypes, rows
<1>2. WorkerTypes'
    BY StayTypes DEF TypeOK, RetryBegin
<1>3. OtherTypes'
    BY DEF TypeOK, OtherTypes, RetryBegin
<1> QED BY <1>1, <1>2, <1>3 DEF TypeOK

LEMMA RetryOpenTypes ==
    ASSUME TypeOK, NEW i \in Items, RetryOpen(i)
    PROVE  TypeOK'
<1>1. RowTypes'
    BY DEF TypeOK, RetryOpen, RowTypes, rows
<1>2. WorkerTypes'
    BY StayTypes DEF TypeOK, RetryOpen
<1>3. OtherTypes'
    <2>1. cli' = [cli EXCEPT !.todo = @ \ {i}, !.dirty = @ \cup {i},
                             !.left = {c \in ChunksOf(i) : chunk[c] # "NONE"}]
        BY DEF RetryOpen
    <2>2. PICK L \in SUBSET Chunks : L = {c \in ChunksOf(i) : chunk[c] # "NONE"}
        BY DEF ChunksOf
    <2> DEFINE T == [on : BOOLEAN, force : BOOLEAN, todo : SUBSET Items,
                     left : SUBSET Chunks, dirty : SUBSET (Items \cup {JobRow})]
    <2>5. cli \in T
        BY DEF TypeOK, OtherTypes
    <2>6. cli' = [cli EXCEPT !.todo = cli.todo \ {i}, !.dirty = cli.dirty \cup {i}, !.left = L]
        BY <2>1, <2>2
    <2>3. cli' \in T
        BY <2>5, <2>6
    <2>4. UNCHANGED <<queue, budget, contested, lost, unaware>>
        BY DEF RetryOpen
    <2> QED BY <2>3, <2>4 DEF TypeOK, OtherTypes
<1> QED BY <1>1, <1>2, <1>3 DEF TypeOK

LEMMA RetryPrepareTypes ==
    ASSUME TypeOK, NEW i \in Items, RetryPrepare(i)
    PROVE  TypeOK'
<1>1. RowTypes'
    BY DEF TypeOK, RetryPrepare, RowTypes, JobStatus, ItemStatus, FlushJob,
       FlushedItems
<1>2. WorkerTypes'
    BY StayTypes DEF TypeOK, RetryPrepare
<1>3. OtherTypes'
    BY SentType DEF TypeOK, OtherTypes, RetryPrepare
<1> QED BY <1>1, <1>2, <1>3 DEF TypeOK

LEMMA RetryChunkTypes ==
    ASSUME TypeOK, NEW c \in Chunks, RetryChunk(c)
    PROVE  TypeOK'
<1>1. RowTypes'
    BY DEF TypeOK, RetryChunk, RowTypes, JobStatus, ItemStatus, ChunkStatus,
       PageStatus, FlushJob, FlushedItems
<1>2. WorkerTypes'
    BY StayTypes DEF TypeOK, RetryChunk
<1>3. OtherTypes'
    BY SentType DEF TypeOK, OtherTypes, RetryChunk, ChunksOf
<1> QED BY <1>1, <1>2, <1>3 DEF TypeOK

LEMMA RetrySkipTypes ==
    ASSUME TypeOK, NEW c \in Chunks, RetrySkip(c)
    PROVE  TypeOK'
<1>1. RowTypes'
    BY DEF TypeOK, RetrySkip, RowTypes, rows
<1>2. WorkerTypes'
    BY StayTypes DEF TypeOK, RetrySkip
<1>3. OtherTypes'
    BY DEF TypeOK, OtherTypes, RetrySkip
<1> QED BY <1>1, <1>2, <1>3 DEF TypeOK

LEMMA RetryEndTypes ==
    ASSUME TypeOK, RetryEnd
    PROVE  TypeOK'
<1>1. RowTypes'
    BY DEF TypeOK, RetryEnd, RowTypes, JobStatus, ItemStatus, FlushJob,
       FlushedItems
<1>2. WorkerTypes'
    BY StayTypes DEF TypeOK, RetryEnd
<1>3. OtherTypes'
    BY DEF TypeOK, OtherTypes, RetryEnd, IdleCli
<1> QED BY <1>1, <1>2, <1>3 DEF TypeOK


-----------------------------------------------------------------------------
(* Inductive invariants *)

(* A chunk whose claim is undisturbed is IN_PROGRESS under a fresh          *)
(* heartbeat for its only worker.                                           *)
ClaimInv ==
    \A c \in Chunks \ contested : \A w \in WorkersOn(c) :
        /\ chunk[c] = "IN_PROGRESS" /\ fresh[c]
        /\ \A v \in WorkersOn(c) : v = w

(* The pages that worker has passed are finished, the one it is at is not.  *)
ProgressInv ==
    \A c \in Chunks \ contested :
        /\ chunk[c] = "COMPLETED" => \A n \in Pages : page[c][n] = "COMPLETED"
        /\ \A w \in WorkersOn(c) :
              /\ \A n \in Pages : n < at[w] => page[c][n] \in {"COMPLETED", "FAILED"}
              /\ pc[w] \in PageSteps => page[c][at[w]] = "IN_PROGRESS"

(* A worker about to mark a page has stored both of its revisions.          *)
DurableInv ==
    /\ DurableBeforeDone
    /\ \A w \in Workers :
          /\ pc[w] = "save" => "ocr" \in saved[msg[w].id][at[w]]
          /\ pc[w] = "mark" => saved[msg[w].id][at[w]] = Tracks

-----------------------------------------------------------------------------
(* The claim of a chunk *)

Shrinks == \A c \in Chunks : WorkersOn(c)' \subseteq WorkersOn(c)

LEMMA LeaveShrinks ==
    ASSUME TypeOK, NEW w \in Workers, Leave(w)
    PROVE  \A c \in Chunks : WorkersOn(c)' = WorkersOn(c) \ {w}
    BY DEF TypeOK, WorkerTypes, Leave, WorkersOn, Working

LEMMA GotoShrinks ==
    ASSUME TypeOK, NEW w \in Workers, NEW l \in Steps \ Working, Goto(w, l)
    PROVE  \A c \in Chunks : WorkersOn(c)' = WorkersOn(c) \ {w}
    BY DEF TypeOK, WorkerTypes, Goto, WorkersOn, Working

LEMMA GotoKeeps ==
    ASSUME TypeOK, NEW w \in Workers, pc[w] \in Working, NEW l \in Working,
           pc' = [pc EXCEPT ![w] = l], UNCHANGED msg
    PROVE  Shrinks
    BY DEF TypeOK, WorkerTypes, WorkersOn, Working, Shrinks

LEMMA StayShrinks == ASSUME UNCHANGED workers PROVE Shrinks
    BY DEF workers, WorkersOn, Shrinks

LEMMA TakeShrinks ==
    ASSUME TypeOK, NEW w \in Workers, NEW m \in Message, PrepTake(w, m) \/ ChunkTake(w, m)
    PROVE  Shrinks
    BY DEF TypeOK, WorkerTypes, PrepTake, ChunkTake, workers, WorkersOn,
       Working, Shrinks

(* A step that adds no worker and leaves the chunks that still have one as  *)
(* they are keeps the claims.                                               *)
LEMMA ClaimKept ==
    ASSUME ClaimInv, Shrinks, contested \subseteq contested',
           \A c \in Chunks \ contested' : WorkersOn(c)' # {} =>
               chunk'[c] = chunk[c] /\ (fresh'[c] = fresh[c] \/ fresh'[c])
    PROVE  ClaimInv'
    BY DEF ClaimInv, Shrinks

LEMMA ClaimStep == TypeOK /\ ClaimInv /\ [Next]_vars => ClaimInv'
<1> SUFFICES ASSUME TypeOK, ClaimInv, [Next]_vars PROVE ClaimInv'
    OBVIOUS
<1> USE DEF Steps, Working, PrepSteps
<1>1. ASSUME NEW w \in Workers, NEW m \in Message, PrepTake(w, m)
      PROVE  ClaimInv'
    <2>1. Shrinks
        BY <1>1, TakeShrinks
    <2> QED BY <1>1, <2>1, ClaimKept DEF PrepTake, rows
<1>2. ASSUME NEW w \in Workers, PrepRender(w)
      PROVE  ClaimInv'
    <2>1. Shrinks
        BY <1>2, GotoShrinks DEF PrepRender, Shrinks
    <2> QED BY <1>2, <2>1, ClaimKept DEF PrepRender, rows
<1>3. ASSUME NEW w \in Workers, PrepExtracted(w)
      PROVE  ClaimInv'
    <2>1. Shrinks
        BY <1>3, GotoShrinks DEF PrepExtracted, Shrinks
    <2> QED BY <1>3, <2>1, ClaimKept DEF PrepExtracted, rows
<1>4. ASSUME NEW w \in Workers, PrepDispatch(w)
      PROVE  ClaimInv'
    <2>1. Shrinks
        BY <1>4, LeaveShrinks DEF PrepDispatch, Shrinks
    <2> QED BY <1>4, <2>1, ClaimKept DEF PrepDispatch, rows
<1>5. ASSUME NEW w \in Workers, PrepFails(w)
      PROVE  ClaimInv'
    <2>1. Shrinks
        BY <1>5, GotoShrinks, LeaveShrinks DEF PrepFails, Shrinks
    <2> QED BY <1>5, <2>1, ClaimKept DEF PrepFails, rows
<1>6. ASSUME NEW w \in Workers, NEW m \in Message, ChunkTake(w, m)
      PROVE  ClaimInv'
    <2>1. Shrinks
        BY <1>6, TakeShrinks
    <2> QED BY <1>6, <2>1, ClaimKept DEF ChunkTake, rows
<1>7. ASSUME NEW w \in Workers, ClaimRefused(w)
      PROVE  ClaimInv'
    <2>1. Shrinks
        BY <1>7, LeaveShrinks DEF ClaimRefused, Shrinks
    <2> QED BY <1>7, <2>1, ClaimKept DEF ClaimRefused, rows
<1>8. ASSUME NEW w \in Workers, PageStop(w)
      PROVE  ClaimInv'
    <2>1. Shrinks
        BY <1>8, LeaveShrinks DEF PageStop, Shrinks
    <2> QED BY <1>8, <2>1, ClaimKept DEF PageStop, rows
<1>9. ASSUME NEW w \in Workers, PageStart(w)
      PROVE  ClaimInv'
    <2>1. Shrinks
        <3>1. \E l \in {"page", "ocr"} : pc' = [pc EXCEPT ![w] = l]
            BY <1>9 DEF PageStart
        <3> QED BY <1>9, <3>1, GotoKeeps DEF PageStart, Running
    <2> QED BY <1>9, <2>1, ClaimKept DEF PageStart
<1>10. ASSUME NEW w \in Workers, OcrFails(w)
      PROVE  ClaimInv'
    <2>1. Shrinks
        BY <1>10, GotoKeeps DEF OcrFails, Goto, Running
    <2> QED BY <1>10, <2>1, ClaimKept DEF OcrFails, rows
<1>11. ASSUME NEW w \in Workers, SaveEngineTrack(w)
      PROVE  ClaimInv'
    <2>1. Shrinks
        BY <1>11, GotoKeeps DEF SaveEngineTrack, Goto, Running
    <2> QED BY <1>11, <2>1, ClaimKept DEF SaveEngineTrack, rows
<1>12. ASSUME NEW w \in Workers, SaveDefaultTrack(w)
      PROVE  ClaimInv'
    <2>1. Shrinks
        BY <1>12, GotoKeeps DEF SaveDefaultTrack, Goto, Running
    <2> QED BY <1>12, <2>1, ClaimKept DEF SaveDefaultTrack, rows
<1>13. ASSUME NEW w \in Workers, FinalizeItem(w)
      PROVE  ClaimInv'
    <2>1. Shrinks
        BY <1>13, GotoShrinks, LeaveShrinks DEF FinalizeItem, Shrinks
    <2> QED BY <1>13, <2>1, ClaimKept DEF FinalizeItem, rows
<1>14. ASSUME NEW w \in Workers, AskExtraction(w)
      PROVE  ClaimInv'
    <2>1. Shrinks
        BY <1>14, GotoShrinks DEF AskExtraction, Shrinks
    <2> QED BY <1>14, <2>1, ClaimKept DEF AskExtraction, rows
<1>15. ASSUME NEW w \in Workers, FinalizeJob(w)
      PROVE  ClaimInv'
    <2>1. Shrinks
        BY <1>15, GotoShrinks, LeaveShrinks DEF FinalizeJob, Shrinks
    <2> QED BY <1>15, <2>1, ClaimKept DEF FinalizeJob, rows
<1>16. ASSUME NEW w \in Workers, Crash(w)
      PROVE  ClaimInv'
    <2>1. Shrinks
        BY <1>16, LeaveShrinks DEF Crash, Shrinks
    <2> QED BY <1>16, <2>1, ClaimKept DEF Crash, rows
<1>17. ASSUME NEW w \in Workers, Redeliver(w)
      PROVE  ClaimInv'
    <2>1. Shrinks
        BY <1>17, StayShrinks DEF Redeliver
    <2> QED BY <1>17, <2>1, ClaimKept DEF Redeliver, rows
<1>18. ASSUME NEW f \in Forces, RetryBegin(f)
      PROVE  ClaimInv'
    <2>1. Shrinks
        BY <1>18, StayShrinks DEF RetryBegin
    <2> QED BY <1>18, <2>1, ClaimKept DEF RetryBegin, rows
<1>19. ASSUME NEW i \in Items, RetryOpen(i)
      PROVE  ClaimInv'
    <2>1. Shrinks
        BY <1>19, StayShrinks DEF RetryOpen
    <2> QED BY <1>19, <2>1, ClaimKept DEF RetryOpen, rows
<1>20. ASSUME NEW i \in Items, RetryPrepare(i)
      PROVE  ClaimInv'
    <2>1. Shrinks
        BY <1>20, StayShrinks DEF RetryPrepare
    <2> QED BY <1>20, <2>1, ClaimKept DEF RetryPrepare, rows
<1>21. ASSUME NEW c \in Chunks, RetrySkip(c)
      PROVE  ClaimInv'
    <2>1. Shrinks
        BY <1>21, StayShrinks DEF RetrySkip
    <2> QED BY <1>21, <2>1, ClaimKept DEF RetrySkip, rows
<1>22. ASSUME RetryEnd
      PROVE  ClaimInv'
    <2>1. Shrinks
        BY <1>22, StayShrinks DEF RetryEnd
    <2> QED BY <1>22, <2>1, ClaimKept DEF RetryEnd, rows
<1>23. ASSUME NEW w \in Workers, PrepRows(w)
      PROVE  ClaimInv'
    <2>1. Shrinks
        BY <1>23, GotoShrinks DEF PrepRows, Shrinks
    <2>2. \A c \in Chunks \ contested' : WorkersOn(c)' # {} => chunk'[c] = chunk[c]
        BY <1>23, <2>1 DEF PrepRows, ClaimInv, Shrinks
    <2> QED BY <1>23, <2>1, <2>2, ClaimKept DEF PrepRows
<1>24. ASSUME NEW w \in Workers, NoOcrTarget(w)
      PROVE  ClaimInv'
    <2>1. Shrinks
        BY <1>24, GotoShrinks DEF NoOcrTarget, Shrinks
    <2>2. \A c \in Chunks \ contested' : WorkersOn(c)' # {} => c # msg[w].id
        <3>1. \A c \in Chunks : WorkersOn(c)' = WorkersOn(c) \ {w}
            BY <1>24, GotoShrinks, LeaveShrinks DEF NoOcrTarget
        <3>2. w \in WorkersOn(msg[w].id) /\ contested' = contested
            BY <1>24 DEF NoOcrTarget, WorkersOn, Running
        <3> QED BY <3>1, <3>2 DEF ClaimInv
    <2>3. \A c \in Chunks : c # msg[w].id => chunk'[c] = chunk[c]
        BY <1>24 DEF NoOcrTarget, TypeOK, RowTypes
    <2> QED BY <1>24, <2>1, <2>2, <2>3, ClaimKept DEF NoOcrTarget
<1>25. ASSUME NEW w \in Workers, WorkFails(w)
      PROVE  ClaimInv'
    <2>1. Shrinks
        BY <1>25, GotoShrinks, LeaveShrinks DEF WorkFails, Shrinks
    <2>2. \A c \in Chunks \ contested' : WorkersOn(c)' # {} => c # msg[w].id
        <3>1. \A c \in Chunks : WorkersOn(c)' = WorkersOn(c) \ {w}
            BY <1>25, GotoShrinks, LeaveShrinks DEF WorkFails
        <3>2. w \in WorkersOn(msg[w].id) /\ contested' = contested
            BY <1>25 DEF WorkFails, WorkersOn, Running
        <3> QED BY <3>1, <3>2 DEF ClaimInv
    <2>3. \A c \in Chunks : c # msg[w].id => chunk'[c] = chunk[c]
        BY <1>25 DEF WorkFails, TypeOK, RowTypes
    <2> QED BY <1>25, <2>1, <2>2, <2>3, ClaimKept DEF WorkFails
<1>26. ASSUME NEW w \in Workers, Finish(w)
      PROVE  ClaimInv'
    <2>1. Shrinks
        BY <1>26, GotoShrinks, LeaveShrinks DEF Finish, Shrinks
    <2>2. \A c \in Chunks \ contested' : WorkersOn(c)' # {} => c # msg[w].id
        <3>1. \A c \in Chunks : WorkersOn(c)' = WorkersOn(c) \ {w}
            BY <1>26, GotoShrinks, LeaveShrinks DEF Finish
        <3>2. w \in WorkersOn(msg[w].id) /\ contested' = contested
            BY <1>26 DEF Finish, WorkersOn, Running
        <3> QED BY <3>1, <3>2 DEF ClaimInv
    <2>3. \A c \in Chunks : c # msg[w].id => chunk'[c] = chunk[c]
        BY <1>26 DEF Finish, TypeOK, RowTypes
    <2> QED BY <1>26, <2>1, <2>2, <2>3, ClaimKept DEF Finish
<1>27. ASSUME NEW w \in Workers, PageDone(w)
      PROVE  ClaimInv'
    <2>1. Shrinks
        BY <1>27, GotoKeeps DEF PageDone, Goto, Running
    <2>2. \A c \in Chunks : fresh'[c] = fresh[c] \/ fresh'[c]
        BY <1>27 DEF PageDone, TypeOK, RowTypes
    <2> QED BY <1>27, <2>1, <2>2, ClaimKept DEF PageDone
<1>28. ASSUME NEW c \in Chunks, LeaseLapses(c)
      PROVE  ClaimInv'
    <2>1. Shrinks
        BY <1>28, StayShrinks DEF LeaseLapses
    <2>2. \A d \in Chunks \ contested' : WorkersOn(d)' # {} => fresh'[d] = fresh[d]
        BY <1>28, <2>1 DEF LeaseLapses, Shrinks, TypeOK, RowTypes
    <2> QED BY <1>28, <2>1, <2>2, ClaimKept DEF LeaseLapses
<1>29. ASSUME Cancel
      PROVE  ClaimInv'
    <2>1. Shrinks
        BY <1>29, StayShrinks DEF Cancel
    <2>2. \A d \in Chunks \ contested' : WorkersOn(d)' # {} => chunk'[d] = chunk[d]
        BY <1>29, <2>1 DEF Cancel, Shrinks
    <2> QED BY <1>29, <2>1, <2>2, ClaimKept DEF Cancel
<1>30. ASSUME NEW c \in Chunks, RetryChunk(c)
      PROVE  ClaimInv'
    <2>1. Shrinks
        BY <1>30, StayShrinks DEF RetryChunk
    <2>2. \A d \in Chunks \ contested' : WorkersOn(d)' # {} => chunk'[d] = chunk[d]
        <3>1. WorkersOn(c) # {} => c \in contested'
            BY <1>30 DEF RetryChunk, ChunksOf
        <3>2. \A d \in Chunks : d # c => chunk'[d] = chunk[d]
            BY <1>30 DEF RetryChunk, TypeOK, RowTypes
        <3> QED BY <2>1, <3>1, <3>2 DEF Shrinks
    <2> QED BY <1>30, <2>1, <2>2, ClaimKept DEF RetryChunk
<1>31. ASSUME NEW w \in Workers, Claim(w)
      PROVE  ClaimInv'
    <2>1. pc' = [pc EXCEPT ![w] = "page"] /\ msg' = msg /\ pc[w] = "claim"
        BY <1>31 DEF Claim, Running
    <2>0. PICK c \in Chunks : c = msg[w].id
        BY <2>1, MessageFields DEF TypeOK, WorkerTypes
    <2>2. \A d \in Chunks : d # c => WorkersOn(d)' = WorkersOn(d)
        BY <2>1, <2>0 DEF WorkersOn, TypeOK, WorkerTypes
    <2>3. WorkersOn(c)' = WorkersOn(c) \cup {w}
        BY <2>1, <2>0 DEF WorkersOn, TypeOK, WorkerTypes
    <2>5. /\ chunk' = [chunk EXCEPT ![c] = "IN_PROGRESS"]
          /\ fresh' = [fresh EXCEPT ![c] = TRUE]
          /\ contested' = IF msg[w].force /\ WorkersOn(c) # {}
                          THEN contested \cup {c} ELSE contested
        BY <1>31, <2>0 DEF Claim
    <2>7. Claimable(c, msg[w].force)
        BY <1>31, <2>0 DEF Claim
    <2>8. c \notin contested' => WorkersOn(c) = {}
        <3>1. ASSUME c \notin contested', NEW v \in WorkersOn(c) PROVE FALSE
            <4>1. c \notin contested /\ ~msg[w].force
                BY <2>5, <3>1
            <4>2. chunk[c] = "IN_PROGRESS" /\ fresh[c]
                BY <3>1, <4>1 DEF ClaimInv
            <4> QED BY <2>7, <4>1, <4>2 DEF Claimable
        <3> QED BY <3>1
    <2>6. ASSUME NEW d \in Chunks \ contested', NEW v \in WorkersOn(d)'
          PROVE  chunk'[d] = "IN_PROGRESS" /\ fresh'[d] /\ \A u \in WorkersOn(d)' : u = v
        <3>1. CASE d = c
            <4>1. WorkersOn(c) = {}
                BY <2>8, <3>1
            <4>2. WorkersOn(d)' = {w}
                BY <2>3, <3>1, <4>1
            <4>3. chunk'[c] = "IN_PROGRESS" /\ fresh'[c]
                BY <2>5 DEF TypeOK, RowTypes
            <4> QED BY <3>1, <4>2, <4>3
        <3>2. CASE d # c
            BY <2>2, <2>5, <3>2 DEF ClaimInv, TypeOK, RowTypes
        <3> QED BY <3>1, <3>2
    <2> QED BY <2>6 DEF ClaimInv
<1>32. CASE UNCHANGED vars
    <2>1. Shrinks
        BY <1>32, StayShrinks DEF vars
    <2> QED BY <1>32, <2>1, ClaimKept DEF vars, rows
<1>33. ASSUME NEW w \in Workers, PageLook(w)
      PROVE  ClaimInv'
    <2>1. Shrinks
        BY <1>33, GotoKeeps DEF PageLook, Goto, Running
    <2> QED BY <1>33, <2>1, ClaimKept DEF PageLook, rows
<1>34. ASSUME NEW w \in Workers, SealItem(w)
      PROVE  ClaimInv'
    <2>1. Shrinks
        BY <1>34, GotoShrinks DEF SealItem, Shrinks
    <2> QED BY <1>34, <2>1, ClaimKept DEF SealItem, rows
<1>35. ASSUME NEW w \in Workers, JudgeJob(w)
      PROVE  ClaimInv'
    <2>1. Shrinks
        BY <1>35, LeaveShrinks DEF JudgeJob, Shrinks
    <2> QED BY <1>35, <2>1, ClaimKept DEF JudgeJob, rows
<1>36. ASSUME NEW w \in Workers, ChildKilled(w)
      PROVE  ClaimInv'
    <2>1. Shrinks
        BY <1>36, LeaveShrinks DEF ChildKilled, Shrinks
    <2> QED BY <1>36, <2>1, ClaimKept DEF ChildKilled, rows
<1> QED
    BY <1>1, <1>2, <1>3, <1>4, <1>5, <1>6, <1>7, <1>8, <1>9, <1>10, <1>11,
       <1>12, <1>13, <1>14, <1>15, <1>16, <1>17, <1>18, <1>19, <1>20, <1>21,
       <1>22, <1>23, <1>24, <1>25, <1>26, <1>27, <1>28, <1>29, <1>30, <1>31,
       <1>32, <1>33, <1>34, <1>35, <1>36
    DEF Next, Receive, WorkerStep, WorkerFault, RetryStep

-----------------------------------------------------------------------------
(* The pages of a chunk *)

(* A step after which every worker of a chunk was there before, at the same *)
(* page.                                                                    *)
Settles ==
    \A c \in Chunks : \A v \in WorkersOn(c)' :
        /\ v \in WorkersOn(c) /\ at'[v] = at[v]
        /\ pc'[v] \in PageSteps => pc[v] \in PageSteps

LEMMA LeaveSettles ==
    ASSUME TypeOK, NEW w \in Workers, Leave(w)
    PROVE  Settles
    BY DEF TypeOK, WorkerTypes, Leave, WorkersOn, Working, Settles

LEMMA GotoSettles ==
    ASSUME TypeOK, NEW w \in Workers, NEW l \in Steps \ Working, Goto(w, l)
    PROVE  Settles
    BY DEF TypeOK, WorkerTypes, Goto, WorkersOn, Working, Settles

LEMMA GotoPageSettles ==
    ASSUME TypeOK, NEW w \in Workers, NEW l \in PageSteps, pc[w] \in PageSteps, Goto(w, l)
    PROVE  Settles
    BY DEF TypeOK, WorkerTypes, Goto, WorkersOn, Working, PageSteps, Settles

LEMMA GotoLookSettles ==
    ASSUME TypeOK, NEW w \in Workers, pc[w] \in Working, Goto(w, "start")
    PROVE  Settles
    BY DEF TypeOK, WorkerTypes, Goto, WorkersOn, Working, PageSteps, Settles

LEMMA StaySettles == ASSUME UNCHANGED workers PROVE Settles
    BY DEF workers, WorkersOn, Settles

LEMMA TakeSettles ==
    ASSUME TypeOK, NEW w \in Workers, NEW m \in Message, PrepTake(w, m) \/ ChunkTake(w, m)
    PROVE  Settles
    BY DEF TypeOK, WorkerTypes, PrepTake, ChunkTake, workers, WorkersOn,
       Working, Settles

LEMMA EnterSettles ==
    ASSUME TypeOK, NEW w \in Workers, NEW k,
           pc' = [pc EXCEPT ![w] = "page"], at' = [at EXCEPT ![w] = k], msg' = msg
    PROVE  \A c \in Chunks : \A v \in WorkersOn(c)' :
               v = w \/ (v \in WorkersOn(c) /\ pc'[v] = pc[v] /\ at'[v] = at[v])
    BY DEF TypeOK, WorkerTypes, WorkersOn

LEMMA ProgressKept ==
    ASSUME ProgressInv, Settles, contested \subseteq contested',
           \A c \in Chunks \ contested' :
               /\ chunk'[c] = "COMPLETED" => chunk[c] = "COMPLETED"
               /\ chunk'[c] = "COMPLETED" \/ WorkersOn(c)' # {} => page'[c] = page[c]
    PROVE  ProgressInv'
    BY DEF ProgressInv, Settles

(* A worker moves on in the chunk it holds.                                 *)
LEMMA ProgressMoves ==
    ASSUME TypeOK, ClaimInv, ProgressInv,
           NEW w \in Workers, NEW l \in Working, NEW k, NEW c \in Chunks,
           pc[w] \in Working, msg[w].id = c,
           pc' = [pc EXCEPT ![w] = l], at' = [at EXCEPT ![w] = k],
           UNCHANGED <<msg, chunk, contested>>,
           \A d \in Chunks : d # c => page'[d] = page[d],
           c \notin contested =>
               /\ \A n \in Pages : n < k => page'[c][n] \in {"COMPLETED", "FAILED"}
               /\ l \in PageSteps => page'[c][k] = "IN_PROGRESS"
    PROVE  ProgressInv'
<1>1. \A d \in Chunks : WorkersOn(d)' = WorkersOn(d)
    BY DEF WorkersOn, TypeOK, WorkerTypes
<1>2. w \in WorkersOn(c)
    BY DEF WorkersOn
<1>3. \A v \in Workers : v # w => pc'[v] = pc[v] /\ at'[v] = at[v]
    BY DEF TypeOK, WorkerTypes
<1>4. pc'[w] = l /\ at'[w] = k
    BY DEF TypeOK, WorkerTypes
<1>5. ASSUME NEW d \in Chunks \ contested', d # c
      PROVE  /\ chunk'[d] = "COMPLETED" => \A n \in Pages : page'[d][n] = "COMPLETED"
             /\ \A v \in WorkersOn(d)' :
                   /\ \A n \in Pages : n < at'[v] => page'[d][n] \in {"COMPLETED", "FAILED"}
                   /\ pc'[v] \in PageSteps => page'[d][at'[v]] = "IN_PROGRESS"
    <2>1. \A v \in WorkersOn(d)' : v # w /\ v \in WorkersOn(d) /\ v \in Workers
        BY <1>1, <1>5 DEF WorkersOn
    <2> QED BY <1>3, <1>5, <2>1 DEF ProgressInv
<1>6. ASSUME c \notin contested'
      PROVE  /\ chunk'[c] # "COMPLETED"
             /\ \A v \in WorkersOn(c)' :
                   /\ \A n \in Pages : n < at'[v] => page'[c][n] \in {"COMPLETED", "FAILED"}
                   /\ pc'[v] \in PageSteps => page'[c][at'[v]] = "IN_PROGRESS"
    <2>1. c \in Chunks \ contested /\ chunk[c] = "IN_PROGRESS"
        BY <1>2, <1>6 DEF ClaimInv
    <2>2. \A v \in WorkersOn(c)' : v = w
        BY <1>1, <1>2, <2>1 DEF ClaimInv
    <2> QED BY <1>4, <2>1, <2>2
<1> QED BY <1>5, <1>6 DEF ProgressInv


LEMMA ProgressStep == TypeOK /\ ClaimInv /\ ProgressInv /\ [Next]_vars => ProgressInv'
<1> SUFFICES ASSUME TypeOK, ClaimInv, ProgressInv, [Next]_vars PROVE ProgressInv'
    OBVIOUS
<1> USE DEF Steps, Working, PrepSteps
<1>1. ASSUME NEW w \in Workers, NEW m \in Message, PrepTake(w, m)
      PROVE  ProgressInv'
    <2>1. Settles
        BY <1>1, TakeSettles
    <2> QED BY <1>1, <2>1, ProgressKept DEF PrepTake, rows
<1>2. ASSUME NEW w \in Workers, PrepRender(w)
      PROVE  ProgressInv'
    <2>1. Settles
        BY <1>2, GotoSettles DEF PrepRender
    <2> QED BY <1>2, <2>1, ProgressKept DEF PrepRender, rows
<1>3. ASSUME NEW w \in Workers, PrepExtracted(w)
      PROVE  ProgressInv'
    <2>1. Settles
        BY <1>3, GotoSettles DEF PrepExtracted
    <2> QED BY <1>3, <2>1, ProgressKept DEF PrepExtracted, rows
<1>4. ASSUME NEW w \in Workers, PrepRows(w)
      PROVE  ProgressInv'
    <2>1. Settles
        BY <1>4, GotoSettles DEF PrepRows
    <2>2. \A c \in Chunks : chunk'[c] = "COMPLETED" => chunk[c] = "COMPLETED"
        BY <1>4 DEF PrepRows, TypeOK, RowTypes
    <2> QED BY <1>4, <2>1, <2>2, ProgressKept DEF PrepRows, rows
<1>5. ASSUME NEW w \in Workers, PrepDispatch(w)
      PROVE  ProgressInv'
    <2>1. Settles
        BY <1>5, LeaveSettles DEF PrepDispatch
    <2> QED BY <1>5, <2>1, ProgressKept DEF PrepDispatch, rows
<1>6. ASSUME NEW w \in Workers, PrepFails(w)
      PROVE  ProgressInv'
    <2>1. Settles
        BY <1>6, LeaveSettles DEF PrepFails
    <2> QED BY <1>6, <2>1, ProgressKept DEF PrepFails, rows
<1>7. ASSUME NEW w \in Workers, NEW m \in Message, ChunkTake(w, m)
      PROVE  ProgressInv'
    <2>1. Settles
        BY <1>7, TakeSettles
    <2> QED BY <1>7, <2>1, ProgressKept DEF ChunkTake, rows
<1>8. ASSUME NEW w \in Workers, Claim(w)
      PROVE  ProgressInv'
    <2>1. PICK c \in Chunks : c = msg[w].id
        BY <1>8, MessageFields DEF Claim, Running, TypeOK, WorkerTypes
    <2>2. /\ pc[w] = "claim" /\ pc' = [pc EXCEPT ![w] = "page"] /\ msg' = msg /\ page' = page
          /\ at' = [at EXCEPT ![w] = 1] /\ chunk' = [chunk EXCEPT ![c] = "IN_PROGRESS"]
          /\ contested \subseteq contested'
        BY <1>8, <2>1 DEF Claim, Running
    <2>3. \A d \in Chunks : \A v \in WorkersOn(d)' :
              v = w \/ (v \in WorkersOn(d) /\ pc'[v] = pc[v] /\ at'[v] = at[v])
        BY <2>2, EnterSettles
    <2>4. pc'[w] = "page" /\ at'[w] = 1
        BY <2>2 DEF TypeOK, WorkerTypes
    <2>5. \A d \in Chunks : chunk'[d] = "COMPLETED" => chunk[d] = "COMPLETED"
        BY <2>2 DEF TypeOK, RowTypes
    <2>6. \A n \in Pages : ~(n < 1)
        BY DEF Pages
    <2>7. "page" \notin PageSteps
        BY DEF PageSteps
    <2> QED BY <2>2, <2>3, <2>4, <2>5, <2>6, <2>7 DEF ProgressInv
<1>9. ASSUME NEW w \in Workers, ClaimRefused(w)
      PROVE  ProgressInv'
    <2>1. Settles
        BY <1>9, LeaveSettles DEF ClaimRefused
    <2> QED BY <1>9, <2>1, ProgressKept DEF ClaimRefused, rows
<1>10. ASSUME NEW w \in Workers, NoOcrTarget(w)
      PROVE  ProgressInv'
    <2>1. Settles
        BY <1>10, GotoSettles DEF NoOcrTarget
    <2>2. \A c \in Chunks : chunk'[c] = "COMPLETED" => chunk[c] = "COMPLETED"
        BY <1>10 DEF NoOcrTarget, TypeOK, RowTypes
    <2> QED BY <1>10, <2>1, <2>2, ProgressKept DEF NoOcrTarget, rows
<1>11. ASSUME NEW w \in Workers, PageStop(w)
      PROVE  ProgressInv'
    <2>1. Settles
        BY <1>11, LeaveSettles DEF PageStop
    <2> QED BY <1>11, <2>1, ProgressKept DEF PageStop, rows
<1>12. ASSUME NEW w \in Workers, PageStart(w)
      PROVE  ProgressInv'
    <2>1. PICK c \in Chunks : c = msg[w].id
        BY <1>12, MessageFields DEF PageStart, Running, TypeOK, WorkerTypes
    <2>2. pc[w] \in Working /\ at[w] \in Pages /\ w \in WorkersOn(c)
        BY <1>12, <2>1 DEF PageStart, Running, WorkersOn, TypeOK, WorkerTypes
    <2>3. c \notin contested => \A n \in Pages : n < at[w] => page[c][n] \in {"COMPLETED", "FAILED"}
        BY <2>2 DEF ProgressInv
    <2>4. \A n \in Pages : n < at[w] + 1 => n < at[w] \/ n = at[w]
        BY <2>2 DEF Pages
    <2>5. CASE ~msg[w].force /\ page[c][at[w]] = "COMPLETED"
        <3>1. /\ pc' = [pc EXCEPT ![w] = "page"] /\ at' = [at EXCEPT ![w] = at[w] + 1]
              /\ page' = page /\ UNCHANGED <<msg, chunk, contested>>
            BY <1>12, <2>1, <2>5 DEF PageStart, Running, TypeOK, WorkerTypes
        <3>2. c \notin contested =>
                  \A n \in Pages : n < at[w] + 1 => page'[c][n] \in {"COMPLETED", "FAILED"}
            BY <2>3, <2>4, <2>5, <3>1
        <3>3. "page" \notin PageSteps
            BY DEF PageSteps
        <3> QED BY <2>1, <2>2, <3>1, <3>2, <3>3, ProgressMoves
    <2>6. CASE ~(~msg[w].force /\ page[c][at[w]] = "COMPLETED")
        <3>1. /\ pc' = [pc EXCEPT ![w] = "ocr"] /\ at' = [at EXCEPT ![w] = at[w]]
              /\ page' = [page EXCEPT ![c][at[w]] = "IN_PROGRESS"]
              /\ UNCHANGED <<msg, chunk, contested>>
            BY <1>12, <2>1, <2>6 DEF PageStart, Running, TypeOK, WorkerTypes
        <3>2. /\ \A d \in Chunks : d # c => page'[d] = page[d]
              /\ page'[c][at[w]] = "IN_PROGRESS"
              /\ \A n \in Pages : n # at[w] => page'[c][n] = page[c][n]
            BY <2>2, <3>1 DEF TypeOK, RowTypes
        <3>3. \A n \in Pages : n < at[w] => n # at[w]
            BY <2>2 DEF Pages
        <3>4. c \notin contested => \A n \in Pages : n < at[w] => page'[c][n] \in {"COMPLETED", "FAILED"}
            BY <2>3, <3>2, <3>3
        <3>5. msg[w].id = c /\ pc[w] \in Working /\ "ocr" \in Working
            BY <2>1, <2>2
        <3>6. \A d \in Chunks : d # c => page'[d] = page[d]
            BY <3>2
        <3>7. page'[c][at[w]] = "IN_PROGRESS"
            BY <3>2
        <3> HIDE DEF Working, Steps, PrepSteps
        <3> QED BY <3>1, <3>4, <3>5, <3>6, <3>7, ProgressMoves
    <2> QED BY <2>5, <2>6
<1>13. ASSUME NEW w \in Workers, OcrFails(w)
      PROVE  ProgressInv'
    <2>1. PICK c \in Chunks : c = msg[w].id
        BY <1>13, MessageFields DEF OcrFails, Running, TypeOK, WorkerTypes
    <2>2. pc[w] \in Working /\ at[w] \in Pages /\ w \in WorkersOn(c)
        BY <1>13, <2>1 DEF OcrFails, Running, WorkersOn, TypeOK, WorkerTypes
    <2>3. c \notin contested => \A n \in Pages : n < at[w] => page[c][n] \in {"COMPLETED", "FAILED"}
        BY <2>2 DEF ProgressInv
    <2>4. \A n \in Pages : n < at[w] + 1 => n < at[w] \/ n = at[w]
        BY <2>2 DEF Pages
    <2>5. /\ pc' = [pc EXCEPT ![w] = "page"] /\ at' = [at EXCEPT ![w] = at[w] + 1]
          /\ page' = [page EXCEPT ![c][at[w]] = "FAILED"] /\ UNCHANGED <<msg, chunk, contested>>
        BY <1>13, <2>1 DEF OcrFails
    <2>6. /\ \A d \in Chunks : d # c => page'[d] = page[d]
          /\ \A n \in Pages : page'[c][n] = IF n = at[w] THEN "FAILED" ELSE page[c][n]
        BY <2>2, <2>5 DEF TypeOK, RowTypes
    <2>7. c \notin contested =>
              \A n \in Pages : n < at[w] + 1 => page'[c][n] \in {"COMPLETED", "FAILED"}
        BY <2>3, <2>4, <2>6
    <2>8. "page" \notin PageSteps
        BY DEF PageSteps
    <2>9. msg[w].id = c /\ pc[w] \in Working /\ "page" \in Working
        BY <2>1, <2>2
    <2>10. \A d \in Chunks : d # c => page'[d] = page[d]
        BY <2>6
    <2> HIDE DEF Working, Steps, PrepSteps
    <2> QED BY <2>5, <2>7, <2>8, <2>9, <2>10, ProgressMoves
<1>14. ASSUME NEW w \in Workers, SaveEngineTrack(w)
      PROVE  ProgressInv'
    <2>1. Settles
        BY <1>14, GotoPageSettles DEF SaveEngineTrack, Running, PageSteps
    <2> QED BY <1>14, <2>1, ProgressKept DEF SaveEngineTrack, rows
<1>15. ASSUME NEW w \in Workers, SaveDefaultTrack(w)
      PROVE  ProgressInv'
    <2>1. Settles
        BY <1>15, GotoPageSettles DEF SaveDefaultTrack, Running, PageSteps
    <2> QED BY <1>15, <2>1, ProgressKept DEF SaveDefaultTrack, rows
<1>16. ASSUME NEW w \in Workers, PageDone(w)
      PROVE  ProgressInv'
    <2>1. PICK c \in Chunks : c = msg[w].id
        BY <1>16, MessageFields DEF PageDone, Running, TypeOK, WorkerTypes
    <2>2. pc[w] \in Working /\ at[w] \in Pages /\ w \in WorkersOn(c)
        BY <1>16, <2>1 DEF PageDone, Running, WorkersOn, TypeOK, WorkerTypes
    <2>3. c \notin contested => \A n \in Pages : n < at[w] => page[c][n] \in {"COMPLETED", "FAILED"}
        BY <2>2 DEF ProgressInv
    <2>4. \A n \in Pages : n < at[w] + 1 => n < at[w] \/ n = at[w]
        BY <2>2 DEF Pages
    <2>5. /\ pc' = [pc EXCEPT ![w] = "page"] /\ at' = [at EXCEPT ![w] = at[w] + 1]
          /\ page' = [page EXCEPT ![c][at[w]] = "COMPLETED"] /\ UNCHANGED <<msg, chunk, contested>>
        BY <1>16, <2>1 DEF PageDone
    <2>6. /\ \A d \in Chunks : d # c => page'[d] = page[d]
          /\ \A n \in Pages : page'[c][n] = IF n = at[w] THEN "COMPLETED" ELSE page[c][n]
        BY <2>2, <2>5 DEF TypeOK, RowTypes
    <2>7. c \notin contested =>
              \A n \in Pages : n < at[w] + 1 => page'[c][n] \in {"COMPLETED", "FAILED"}
        BY <2>3, <2>4, <2>6
    <2>8. "page" \notin PageSteps
        BY DEF PageSteps
    <2>9. msg[w].id = c /\ pc[w] \in Working /\ "page" \in Working
        BY <2>1, <2>2
    <2>10. \A d \in Chunks : d # c => page'[d] = page[d]
        BY <2>6
    <2> HIDE DEF Working, Steps, PrepSteps
    <2> QED BY <2>5, <2>7, <2>8, <2>9, <2>10, ProgressMoves
<1>17. ASSUME NEW w \in Workers, WorkFails(w)
      PROVE  ProgressInv'
    <2>1. Settles
        BY <1>17, GotoSettles, LeaveSettles DEF WorkFails
    <2>2. \A c \in Chunks : chunk'[c] = "COMPLETED" => chunk[c] = "COMPLETED"
        BY <1>17 DEF WorkFails, TypeOK, RowTypes
    <2> QED BY <1>17, <2>1, <2>2, ProgressKept DEF WorkFails, rows
<1>18. ASSUME NEW w \in Workers, Finish(w)
      PROVE  ProgressInv'
    <2>1. Settles
        BY <1>18, GotoSettles, LeaveSettles DEF Finish
    <2>2. PICK c \in Chunks : c = msg[w].id
        BY <1>18, MessageFields DEF Finish, Running, TypeOK, WorkerTypes
    <2>3. w \in WorkersOn(c) /\ \A n \in Pages : n < at[w]
        BY <1>18, <2>2 DEF Finish, Running, WorkersOn, TypeOK, WorkerTypes,
           Pages
    <2>4. \/ chunk' = chunk
          \/ chunk' = [chunk EXCEPT ![c] = IF HasFailedPage(c) THEN "FAILED" ELSE "COMPLETED"]
        BY <1>18, <2>2 DEF Finish
    <2>5. \A d \in Chunks : d # c => chunk'[d] = chunk[d]
        BY <2>4 DEF TypeOK, RowTypes
    <2>6. chunk'[c] = "COMPLETED" => chunk[c] = "COMPLETED" \/ ~HasFailedPage(c)
        BY <2>4 DEF TypeOK, RowTypes
    <2>7. ASSUME c \notin contested', chunk'[c] = "COMPLETED"
          PROVE  \A n \in Pages : page'[c][n] = "COMPLETED"
        BY <1>18, <2>3, <2>6, <2>7 DEF Finish, ProgressInv, HasFailedPage
    <2> QED BY <1>18, <2>1, <2>5, <2>7 DEF Finish, ProgressInv, Settles
<1>19. ASSUME NEW w \in Workers, FinalizeItem(w)
      PROVE  ProgressInv'
    <2>1. Settles
        BY <1>19, GotoSettles, LeaveSettles DEF FinalizeItem
    <2> QED BY <1>19, <2>1, ProgressKept DEF FinalizeItem, rows
<1>20. ASSUME NEW w \in Workers, AskExtraction(w)
      PROVE  ProgressInv'
    <2>1. Settles
        BY <1>20, GotoSettles DEF AskExtraction
    <2> QED BY <1>20, <2>1, ProgressKept DEF AskExtraction, rows
<1>21. ASSUME NEW w \in Workers, FinalizeJob(w)
      PROVE  ProgressInv'
    <2>1. Settles
        BY <1>21, GotoSettles, LeaveSettles DEF FinalizeJob
    <2> QED BY <1>21, <2>1, ProgressKept DEF FinalizeJob, rows
<1>22. ASSUME NEW w \in Workers, Crash(w)
      PROVE  ProgressInv'
    <2>1. Settles
        BY <1>22, LeaveSettles DEF Crash
    <2> QED BY <1>22, <2>1, ProgressKept DEF Crash, rows
<1>23. ASSUME NEW w \in Workers, Redeliver(w)
      PROVE  ProgressInv'
    <2>1. Settles
        BY <1>23, StaySettles DEF Redeliver
    <2> QED BY <1>23, <2>1, ProgressKept DEF Redeliver, rows
<1>24. ASSUME NEW c \in Chunks, LeaseLapses(c)
      PROVE  ProgressInv'
    <2>1. Settles
        BY <1>24, StaySettles DEF LeaseLapses
    <2> QED BY <1>24, <2>1, ProgressKept DEF LeaseLapses, rows
<1>25. ASSUME Cancel
      PROVE  ProgressInv'
    <2>1. Settles
        BY <1>25, StaySettles DEF Cancel
    <2>2. \A d \in Chunks : chunk'[d] = "COMPLETED" => chunk[d] = "COMPLETED"
        BY <1>25 DEF Cancel
    <2>3. ASSUME NEW d \in Chunks \ contested', chunk'[d] = "COMPLETED" \/ WorkersOn(d)' # {}
          PROVE  page'[d] = page[d]
        <3>1. CASE chunk'[d] = "COMPLETED"
            <4>1. \A n \in Pages : page[d][n] = "COMPLETED"
                BY <1>25, <2>2, <3>1 DEF ProgressInv, Cancel
            <4>2. \A n \in Pages : page'[d][n] = page[d][n]
                BY <1>25, <4>1 DEF Cancel
            <4>3. page'[d] \in [Pages -> PageStatus] /\ page[d] \in [Pages -> PageStatus]
                BY <1>25, CancelTypes DEF TypeOK, RowTypes
            <4> QED BY <4>2, <4>3
        <3>2. CASE WorkersOn(d)' # {}
            <4>1. WorkersOn(d) # {}
                BY <2>1, <3>2 DEF Settles
            <4>2. chunk[d] = "IN_PROGRESS"
                BY <1>25, <4>1 DEF ClaimInv, Cancel
            <4>3. item[ItemOf[d]] \in Terminal
                BY <1>25, <4>1, <4>2 DEF Cancel
            <4>4. \A n \in Pages : page'[d][n] = page[d][n]
                BY <1>25, <4>3 DEF Cancel
            <4>5. page'[d] \in [Pages -> PageStatus] /\ page[d] \in [Pages -> PageStatus]
                BY <1>25, CancelTypes DEF TypeOK, RowTypes
            <4> QED BY <4>4, <4>5
        <3> QED BY <2>3, <3>1, <3>2
    <2> QED BY <1>25, <2>1, <2>2, <2>3, ProgressKept DEF Cancel
<1>26. ASSUME NEW f \in Forces, RetryBegin(f)
      PROVE  ProgressInv'
    <2>1. Settles
        BY <1>26, StaySettles DEF RetryBegin
    <2> QED BY <1>26, <2>1, ProgressKept DEF RetryBegin, rows
<1>27. ASSUME NEW i \in Items, RetryOpen(i)
      PROVE  ProgressInv'
    <2>1. Settles
        BY <1>27, StaySettles DEF RetryOpen
    <2> QED BY <1>27, <2>1, ProgressKept DEF RetryOpen, rows
<1>28. ASSUME NEW i \in Items, RetryPrepare(i)
      PROVE  ProgressInv'
    <2>1. Settles
        BY <1>28, StaySettles DEF RetryPrepare
    <2> QED BY <1>28, <2>1, ProgressKept DEF RetryPrepare, rows
<1>29. ASSUME NEW c \in Chunks, RetryChunk(c)
      PROVE  ProgressInv'
    <2>1. Settles
        BY <1>29, StaySettles DEF RetryChunk
    <2>2. \A d \in Chunks : chunk'[d] = "COMPLETED" => d # c /\ chunk[d] = "COMPLETED"
        BY <1>29 DEF RetryChunk, TypeOK, RowTypes
    <2>3. WorkersOn(c)' # {} => c \in contested'
        BY <1>29, <2>1 DEF RetryChunk, Settles, ChunksOf
    <2>4. ASSUME NEW d \in Chunks \ contested', d # c
          PROVE  page'[d] = page[d]
        <3>1. \A n \in Pages : page'[d][n] = page[d][n]
            BY <1>29, <2>4 DEF RetryChunk
        <3>2. page'[d] \in [Pages -> PageStatus] /\ page[d] \in [Pages -> PageStatus]
            BY <1>29, RetryChunkTypes DEF TypeOK, RowTypes
        <3> QED BY <3>1, <3>2
    <2> QED BY <1>29, <2>1, <2>2, <2>3, <2>4, ProgressKept DEF RetryChunk
<1>30. ASSUME NEW c \in Chunks, RetrySkip(c)
      PROVE  ProgressInv'
    <2>1. Settles
        BY <1>30, StaySettles DEF RetrySkip
    <2> QED BY <1>30, <2>1, ProgressKept DEF RetrySkip, rows
<1>31. ASSUME RetryEnd
      PROVE  ProgressInv'
    <2>1. Settles
        BY <1>31, StaySettles DEF RetryEnd
    <2> QED BY <1>31, <2>1, ProgressKept DEF RetryEnd, rows
<1>32. CASE UNCHANGED vars
    <2>1. Settles
        BY <1>32, StaySettles DEF vars
    <2> QED BY <1>32, <2>1, ProgressKept DEF vars, rows
<1>33. ASSUME NEW w \in Workers, PageLook(w)
      PROVE  ProgressInv'
    <2>1. Settles
        BY <1>33, GotoLookSettles DEF PageLook, Running
    <2> QED BY <1>33, <2>1, ProgressKept DEF PageLook, rows
<1>34. ASSUME NEW w \in Workers, SealItem(w)
      PROVE  ProgressInv'
    <2>1. Settles
        BY <1>34, GotoSettles DEF SealItem
    <2> QED BY <1>34, <2>1, ProgressKept DEF SealItem, rows
<1>35. ASSUME NEW w \in Workers, JudgeJob(w)
      PROVE  ProgressInv'
    <2>1. Settles
        BY <1>35, LeaveSettles DEF JudgeJob
    <2> QED BY <1>35, <2>1, ProgressKept DEF JudgeJob, rows
<1>36. ASSUME NEW w \in Workers, ChildKilled(w)
      PROVE  ProgressInv'
    <2>1. Settles
        BY <1>36, LeaveSettles DEF ChildKilled
    <2> QED BY <1>36, <2>1, ProgressKept DEF ChildKilled, rows
<1> QED
    BY <1>1, <1>2, <1>3, <1>4, <1>5, <1>6, <1>7, <1>8, <1>9, <1>10, <1>11,
       <1>12, <1>13, <1>14, <1>15, <1>16, <1>17, <1>18, <1>19, <1>20, <1>21,
       <1>22, <1>23, <1>24, <1>25, <1>26, <1>27, <1>28, <1>29, <1>30, <1>31,
       <1>32, <1>33, <1>34, <1>35, <1>36
    DEF Next, Receive, WorkerStep, WorkerFault, RetryStep

-----------------------------------------------------------------------------
(* The revisions of a page *)

(* No worker comes to a step between the commits of a page.                 *)
Marks ==
    \A w \in Workers : pc'[w] \in {"save", "mark"} =>
        pc'[w] = pc[w] /\ msg'[w] = msg[w] /\ at'[w] = at[w]

LEMMA LeaveMarks == ASSUME TypeOK, NEW w \in Workers, Leave(w) PROVE Marks
    BY DEF TypeOK, WorkerTypes, Leave, Marks

LEMMA GotoMarks ==
    ASSUME TypeOK, NEW w \in Workers, NEW l \in Steps \ Working, Goto(w, l)
    PROVE  Marks
    BY DEF TypeOK, WorkerTypes, Goto, Working, Marks

LEMMA GotoLookMarks == ASSUME TypeOK, NEW w \in Workers, Goto(w, "start") PROVE Marks
    BY DEF TypeOK, WorkerTypes, Goto, Marks

LEMMA StayMarks == ASSUME UNCHANGED workers PROVE Marks
    BY DEF workers, Marks

LEMMA TakeMarks ==
    ASSUME TypeOK, NEW w \in Workers, NEW m \in Message, PrepTake(w, m) \/ ChunkTake(w, m)
    PROVE  Marks
    BY DEF TypeOK, WorkerTypes, PrepTake, ChunkTake, workers, Marks

LEMMA DurableKept ==
    ASSUME DurableInv, Marks, UNCHANGED saved,
           \A c \in Chunks, n \in Pages : page'[c][n] = "COMPLETED" => page[c][n] = "COMPLETED"
    PROVE  DurableInv'
    BY DEF DurableInv, DurableBeforeDone, Marks

(* A worker stores a revision of the page it is at and goes on to l.        *)
LEMMA SavedGrows ==
    ASSUME TypeOK, DurableInv, NEW w \in Workers, NEW c \in Chunks, c = msg[w].id,
           NEW l \in {"save", "mark"}, pc' = [pc EXCEPT ![w] = l], UNCHANGED <<msg, at, page>>,
           \A d \in Chunks, n \in Pages : saved[d][n] \subseteq saved'[d][n],
           saved' \in [Chunks -> [Pages -> SUBSET Tracks]],
           l = "save" => "ocr" \in saved'[c][at[w]],
           l = "mark" => saved'[c][at[w]] = Tracks
    PROVE  DurableInv'
<1>1. \A v \in Workers : v # w => pc'[v] = pc[v]
    BY DEF TypeOK, WorkerTypes
<1>2. pc'[w] = l
    BY DEF TypeOK, WorkerTypes
<1>3. \A d \in Chunks, n \in Pages : saved[d][n] = Tracks => saved'[d][n] = Tracks
    <2>1. SUFFICES ASSUME NEW d \in Chunks, NEW n \in Pages, saved[d][n] = Tracks
                   PROVE  saved'[d][n] = Tracks
        OBVIOUS
    <2>2. saved'[d][n] \subseteq Tracks
        OBVIOUS
    <2>3. saved[d][n] \subseteq saved'[d][n]
        OBVIOUS
    <2> QED BY <2>1, <2>2, <2>3
<1>4. DurableBeforeDone'
    BY <1>3 DEF DurableInv, DurableBeforeDone
<1>5. ASSUME NEW v \in Workers, v # w, pc'[v] \in {"save", "mark"}
      PROVE  /\ pc'[v] = "save" => "ocr" \in saved'[msg'[v].id][at'[v]]
             /\ pc'[v] = "mark" => saved'[msg'[v].id][at'[v]] = Tracks
    <2>1. pc[v] \in {"save", "mark"} /\ pc[v] = pc'[v]
        BY <1>1, <1>5
    <2>2. msg[v].id \in Chunks /\ at[v] \in Pages
        BY <2>1, MessageFields DEF TypeOK, WorkerTypes, Working
    <2> QED BY <1>3, <2>1, <2>2 DEF DurableInv
<1> QED BY <1>2, <1>4, <1>5 DEF DurableInv

LEMMA DurableStep == TypeOK /\ DurableInv /\ [Next]_vars => DurableInv'
<1> SUFFICES ASSUME TypeOK, DurableInv, [Next]_vars PROVE DurableInv'
    OBVIOUS
<1> USE DEF Steps, Working, PrepSteps
<1>1. ASSUME NEW w \in Workers, NEW m \in Message, PrepTake(w, m)
      PROVE  DurableInv'
    <2>1. Marks
        BY <1>1, TakeMarks
    <2> QED BY <1>1, <2>1, DurableKept DEF PrepTake, rows
<1>2. ASSUME NEW w \in Workers, PrepRender(w)
      PROVE  DurableInv'
    <2>1. Marks
        BY <1>2, GotoMarks DEF PrepRender
    <2> QED BY <1>2, <2>1, DurableKept DEF PrepRender, rows
<1>3. ASSUME NEW w \in Workers, PrepExtracted(w)
      PROVE  DurableInv'
    <2>1. Marks
        BY <1>3, GotoMarks DEF PrepExtracted
    <2> QED BY <1>3, <2>1, DurableKept DEF PrepExtracted, rows
<1>4. ASSUME NEW w \in Workers, PrepRows(w)
      PROVE  DurableInv'
    <2>1. Marks
        BY <1>4, GotoMarks DEF PrepRows
    <2> QED BY <1>4, <2>1, DurableKept DEF PrepRows, rows
<1>5. ASSUME NEW w \in Workers, PrepDispatch(w)
      PROVE  DurableInv'
    <2>1. Marks
        BY <1>5, LeaveMarks DEF PrepDispatch
    <2> QED BY <1>5, <2>1, DurableKept DEF PrepDispatch, rows
<1>6. ASSUME NEW w \in Workers, PrepFails(w)
      PROVE  DurableInv'
    <2>1. Marks
        BY <1>6, GotoMarks, LeaveMarks DEF PrepFails
    <2> QED BY <1>6, <2>1, DurableKept DEF PrepFails, rows
<1>7. ASSUME NEW w \in Workers, NEW m \in Message, ChunkTake(w, m)
      PROVE  DurableInv'
    <2>1. Marks
        BY <1>7, TakeMarks
    <2> QED BY <1>7, <2>1, DurableKept DEF ChunkTake, rows
<1>8. ASSUME NEW w \in Workers, Claim(w)
      PROVE  DurableInv'
    <2>1. Marks
        BY <1>8 DEF Claim, Running, Marks, TypeOK, WorkerTypes
    <2> QED BY <1>8, <2>1, DurableKept DEF Claim
<1>9. ASSUME NEW w \in Workers, ClaimRefused(w)
      PROVE  DurableInv'
    <2>1. Marks
        BY <1>9, LeaveMarks DEF ClaimRefused
    <2> QED BY <1>9, <2>1, DurableKept DEF ClaimRefused, rows
<1>10. ASSUME NEW w \in Workers, NoOcrTarget(w)
      PROVE  DurableInv'
    <2>1. Marks
        BY <1>10, GotoMarks DEF NoOcrTarget
    <2> QED BY <1>10, <2>1, DurableKept DEF NoOcrTarget, rows
<1>11. ASSUME NEW w \in Workers, PageStop(w)
      PROVE  DurableInv'
    <2>1. Marks
        BY <1>11, LeaveMarks DEF PageStop
    <2> QED BY <1>11, <2>1, DurableKept DEF PageStop, rows
<1>12. ASSUME NEW w \in Workers, PageStart(w)
      PROVE  DurableInv'
    <2>1. Marks
        BY <1>12 DEF PageStart, Running, Marks, TypeOK, WorkerTypes
    <2>2. PICK c \in Chunks : c = msg[w].id
        BY <1>12, MessageFields DEF PageStart, Running, TypeOK, WorkerTypes
    <2>3. page' = page \/ page' = [page EXCEPT ![c][at[w]] = "IN_PROGRESS"]
        BY <1>12, <2>2 DEF PageStart
    <2>4. \A d \in Chunks, n \in Pages : page'[d][n] = page[d][n] \/ page'[d][n] = "IN_PROGRESS"
        <3>1. page \in [Chunks -> [Pages -> PageStatus]]
            BY DEF TypeOK, RowTypes
        <3>2. ASSUME NEW d \in Chunks, NEW n \in Pages, page' # page
              PROVE  page'[d][n] = IF d = c /\ n = at[w] THEN "IN_PROGRESS" ELSE page[d][n]
            BY <2>3, <3>1, <3>2, PageSet
        <3> QED BY <3>2
    <2>5. \A d \in Chunks, n \in Pages : page'[d][n] = "COMPLETED" => page[d][n] = "COMPLETED"
        BY <2>4
    <2> QED BY <1>12, <2>1, <2>5, DurableKept DEF PageStart
<1>13. ASSUME NEW w \in Workers, OcrFails(w)
      PROVE  DurableInv'
    <2>1. Marks
        BY <1>13 DEF OcrFails, Running, Marks, TypeOK, WorkerTypes
    <2>2. PICK c \in Chunks : c = msg[w].id
        BY <1>13, MessageFields DEF OcrFails, Running, TypeOK, WorkerTypes
    <2>3. page' = page \/ page' = [page EXCEPT ![c][at[w]] = "FAILED"]
        BY <1>13, <2>2 DEF OcrFails
    <2>4. \A d \in Chunks, n \in Pages : page'[d][n] = page[d][n] \/ page'[d][n] = "FAILED"
        <3>1. page \in [Chunks -> [Pages -> PageStatus]]
            BY DEF TypeOK, RowTypes
        <3>2. ASSUME NEW d \in Chunks, NEW n \in Pages, page' # page
              PROVE  page'[d][n] = IF d = c /\ n = at[w] THEN "FAILED" ELSE page[d][n]
            BY <2>3, <3>1, <3>2, PageSet
        <3> QED BY <3>2
    <2>5. \A d \in Chunks, n \in Pages : page'[d][n] = "COMPLETED" => page[d][n] = "COMPLETED"
        BY <2>4
    <2> QED BY <1>13, <2>1, <2>5, DurableKept DEF OcrFails
<1>14. ASSUME NEW w \in Workers, SaveEngineTrack(w)
      PROVE  DurableInv'
    <2>1. PICK c \in Chunks : c = msg[w].id
        BY <1>14, MessageFields DEF SaveEngineTrack, Running, TypeOK,
           WorkerTypes
    <2>2. /\ saved' = [saved EXCEPT ![c][at[w]] = @ \cup {"ocr"}] /\ at[w] \in Pages
          /\ pc' = [pc EXCEPT ![w] = "save"] /\ UNCHANGED <<msg, at, page>>
        BY <1>14, <2>1 DEF SaveEngineTrack, Running, Goto, TypeOK, WorkerTypes
    <2>3. \A d \in Chunks, n \in Pages : saved[d][n] \subseteq saved'[d][n]
        BY <2>2 DEF TypeOK, RowTypes
    <2>4. saved'[c][at[w]] = saved[c][at[w]] \cup {"ocr"}
        BY <2>2 DEF TypeOK, RowTypes
    <2>5. "ocr" \in saved'[c][at[w]]
        BY <2>4
    <2>8. saved' \in [Chunks -> [Pages -> SUBSET Tracks]]
        BY <1>14, SaveEngineTrackTypes DEF TypeOK, RowTypes
    <2> QED BY <2>1, <2>2, <2>3, <2>5, <2>8, SavedGrows
<1>15. ASSUME NEW w \in Workers, SaveDefaultTrack(w)
      PROVE  DurableInv'
    <2>1. PICK c \in Chunks : c = msg[w].id
        BY <1>15, MessageFields DEF SaveDefaultTrack, Running, TypeOK,
           WorkerTypes
    <2>2. /\ saved' = [saved EXCEPT ![c][at[w]] = @ \cup {"role:p1"}] /\ at[w] \in Pages
          /\ pc' = [pc EXCEPT ![w] = "mark"] /\ UNCHANGED <<msg, at, page>>
        BY <1>15, <2>1 DEF SaveDefaultTrack, Running, Goto, TypeOK, WorkerTypes
    <2>3. \A d \in Chunks, n \in Pages : saved[d][n] \subseteq saved'[d][n]
        BY <2>2 DEF TypeOK, RowTypes
    <2>4. saved'[c][at[w]] = saved[c][at[w]] \cup {"role:p1"}
        BY <2>2 DEF TypeOK, RowTypes
    <2>5. "ocr" \in saved[c][at[w]]
        BY <1>15, <2>1 DEF SaveDefaultTrack, Running, DurableInv
    <2>6. saved[c][at[w]] \subseteq Tracks
        BY <2>2 DEF TypeOK, RowTypes
    <2>7. saved'[c][at[w]] = Tracks
        BY <2>4, <2>5, <2>6 DEF Tracks
    <2>8. saved' \in [Chunks -> [Pages -> SUBSET Tracks]]
        BY <1>15, SaveDefaultTrackTypes DEF TypeOK, RowTypes
    <2> QED BY <2>1, <2>2, <2>3, <2>7, <2>8, SavedGrows
<1>16. ASSUME NEW w \in Workers, PageDone(w)
      PROVE  DurableInv'
    <2>1. PICK c \in Chunks : c = msg[w].id
        BY <1>16, MessageFields DEF PageDone, Running, TypeOK, WorkerTypes
    <2>2. Marks
        BY <1>16 DEF PageDone, Running, Marks, TypeOK, WorkerTypes
    <2>3. page' = [page EXCEPT ![c][at[w]] = "COMPLETED"] /\ saved' = saved
        BY <1>16, <2>1 DEF PageDone
    <2>4. saved[c][at[w]] = Tracks
        BY <1>16, <2>1 DEF PageDone, Running, DurableInv
    <2>5. \A d \in Chunks, n \in Pages : page'[d][n] = "COMPLETED" =>
              page[d][n] = "COMPLETED" \/ saved[d][n] = Tracks
        BY <2>3, <2>4 DEF TypeOK, RowTypes
    <2> QED BY <2>2, <2>3, <2>5 DEF DurableInv, DurableBeforeDone, Marks
<1>17. ASSUME NEW w \in Workers, WorkFails(w)
      PROVE  DurableInv'
    <2>1. Marks
        BY <1>17, GotoMarks, LeaveMarks DEF WorkFails
    <2> QED BY <1>17, <2>1, DurableKept DEF WorkFails, rows
<1>18. ASSUME NEW w \in Workers, Finish(w)
      PROVE  DurableInv'
    <2>1. Marks
        BY <1>18, GotoMarks, LeaveMarks DEF Finish
    <2> QED BY <1>18, <2>1, DurableKept DEF Finish, rows
<1>19. ASSUME NEW w \in Workers, FinalizeItem(w)
      PROVE  DurableInv'
    <2>1. Marks
        BY <1>19, GotoMarks, LeaveMarks DEF FinalizeItem
    <2> QED BY <1>19, <2>1, DurableKept DEF FinalizeItem, rows
<1>20. ASSUME NEW w \in Workers, AskExtraction(w)
      PROVE  DurableInv'
    <2>1. Marks
        BY <1>20, GotoMarks DEF AskExtraction
    <2> QED BY <1>20, <2>1, DurableKept DEF AskExtraction, rows
<1>21. ASSUME NEW w \in Workers, FinalizeJob(w)
      PROVE  DurableInv'
    <2>1. Marks
        BY <1>21, GotoMarks, LeaveMarks DEF FinalizeJob
    <2> QED BY <1>21, <2>1, DurableKept DEF FinalizeJob, rows
<1>22. ASSUME NEW c \in Chunks, LeaseLapses(c)
      PROVE  DurableInv'
    <2>1. Marks
        BY <1>22, StayMarks DEF LeaseLapses
    <2> QED BY <1>22, <2>1, DurableKept DEF LeaseLapses, rows
<1>23. ASSUME NEW w \in Workers, Crash(w)
      PROVE  DurableInv'
    <2>1. Marks
        BY <1>23, LeaveMarks DEF Crash
    <2> QED BY <1>23, <2>1, DurableKept DEF Crash, rows
<1>24. ASSUME NEW w \in Workers, Redeliver(w)
      PROVE  DurableInv'
    <2>1. Marks
        BY <1>24, StayMarks DEF Redeliver
    <2> QED BY <1>24, <2>1, DurableKept DEF Redeliver, rows
<1>25. ASSUME Cancel
      PROVE  DurableInv'
    <2>1. Marks
        BY <1>25, StayMarks DEF Cancel
    <2>2. \A d \in Chunks, n \in Pages : page'[d][n] = "COMPLETED" => page[d][n] = "COMPLETED"
        BY <1>25 DEF Cancel
    <2> QED BY <1>25, <2>1, <2>2, DurableKept DEF Cancel
<1>26. ASSUME NEW f \in Forces, RetryBegin(f)
      PROVE  DurableInv'
    <2>1. Marks
        BY <1>26, StayMarks DEF RetryBegin
    <2> QED BY <1>26, <2>1, DurableKept DEF RetryBegin, rows
<1>27. ASSUME NEW i \in Items, RetryOpen(i)
      PROVE  DurableInv'
    <2>1. Marks
        BY <1>27, StayMarks DEF RetryOpen
    <2> QED BY <1>27, <2>1, DurableKept DEF RetryOpen, rows
<1>28. ASSUME NEW i \in Items, RetryPrepare(i)
      PROVE  DurableInv'
    <2>1. Marks
        BY <1>28, StayMarks DEF RetryPrepare
    <2> QED BY <1>28, <2>1, DurableKept DEF RetryPrepare, rows
<1>29. ASSUME NEW c \in Chunks, RetryChunk(c)
      PROVE  DurableInv'
    <2>1. Marks
        BY <1>29, StayMarks DEF RetryChunk
    <2>2. \A d \in Chunks, n \in Pages : page'[d][n] = "COMPLETED" => page[d][n] = "COMPLETED"
        BY <1>29 DEF RetryChunk
    <2> QED BY <1>29, <2>1, <2>2, DurableKept DEF RetryChunk
<1>30. ASSUME NEW c \in Chunks, RetrySkip(c)
      PROVE  DurableInv'
    <2>1. Marks
        BY <1>30, StayMarks DEF RetrySkip
    <2> QED BY <1>30, <2>1, DurableKept DEF RetrySkip, rows
<1>31. ASSUME RetryEnd
      PROVE  DurableInv'
    <2>1. Marks
        BY <1>31, StayMarks DEF RetryEnd
    <2> QED BY <1>31, <2>1, DurableKept DEF RetryEnd, rows
<1>32. CASE UNCHANGED vars
    <2>1. Marks
        BY <1>32, StayMarks DEF vars
    <2> QED BY <1>32, <2>1, DurableKept DEF vars, rows
<1>33. ASSUME NEW w \in Workers, PageLook(w)
      PROVE  DurableInv'
    <2>1. Marks
        BY <1>33, GotoLookMarks DEF PageLook
    <2> QED BY <1>33, <2>1, DurableKept DEF PageLook, rows
<1>34. ASSUME NEW w \in Workers, SealItem(w)
      PROVE  DurableInv'
    <2>1. Marks
        BY <1>34, GotoMarks DEF SealItem
    <2> QED BY <1>34, <2>1, DurableKept DEF SealItem, rows
<1>35. ASSUME NEW w \in Workers, JudgeJob(w)
      PROVE  DurableInv'
    <2>1. Marks
        BY <1>35, LeaveMarks DEF JudgeJob
    <2> QED BY <1>35, <2>1, DurableKept DEF JudgeJob, rows
<1>36. ASSUME NEW w \in Workers, ChildKilled(w)
      PROVE  DurableInv'
    <2>1. Marks
        BY <1>36, LeaveMarks DEF ChildKilled
    <2> QED BY <1>36, <2>1, DurableKept DEF ChildKilled, rows
<1> QED
    BY <1>1, <1>2, <1>3, <1>4, <1>5, <1>6, <1>7, <1>8, <1>9, <1>10, <1>11,
       <1>12, <1>13, <1>14, <1>15, <1>16, <1>17, <1>18, <1>19, <1>20, <1>21,
       <1>22, <1>23, <1>24, <1>25, <1>26, <1>27, <1>28, <1>29, <1>30, <1>31,
       <1>32, <1>33, <1>34, <1>35, <1>36
    DEF Next, Receive, WorkerStep, WorkerFault, RetryStep

-----------------------------------------------------------------------------
(* What a step may do to a completed page *)

PagesOnly(c, n, s) == \/ page' = page
                      \/ page' = [page EXCEPT ![c][n] = s]

LEMMA PageWritten ==
    ASSUME TypeOK, NEW b \in Chunks, NEW a \in Pages, NEW s, PagesOnly(b, a, s)
    PROVE  \A c \in Chunks, n \in Pages :
               page'[c][n] # page[c][n] => c = b /\ n = a /\ page'[c][n] = s
<1>1. page \in [Chunks -> [Pages -> PageStatus]]
    BY DEF TypeOK, RowTypes
<1>2. SUFFICES ASSUME NEW c \in Chunks, NEW n \in Pages, page'[c][n] # page[c][n]
               PROVE  c = b /\ n = a /\ page'[c][n] = s
    OBVIOUS
<1>3. page' = [page EXCEPT ![b][a] = s]
    BY <1>2 DEF PagesOnly
<1>4. page'[c][n] = IF c = b /\ n = a THEN s ELSE page[c][n]
    BY <1>1, <1>3, PageSet
<1> QED BY <1>2, <1>4

PageMoves ==
    \/ UNCHANGED page
    \/ \E w \in Workers : PageStart(w) \/ OcrFails(w) \/ PageDone(w)
    \/ Cancel
    \/ \E c \in Chunks : RetryChunk(c)

(* The steps that write a page.                                             *)
LEMMA PageWriters == [Next]_vars => PageMoves
<1> SUFFICES ASSUME [Next]_vars PROVE PageMoves
    OBVIOUS
<1>1. ASSUME NEW w \in Workers, NEW m \in Message, PrepTake(w, m) PROVE PageMoves
    BY <1>1 DEF PrepTake, rows, PageMoves
<1>2. ASSUME NEW w \in Workers, PrepRender(w) PROVE PageMoves
    BY <1>2 DEF PrepRender, rows, PageMoves
<1>3. ASSUME NEW w \in Workers, PrepExtracted(w) PROVE PageMoves
    BY <1>3 DEF PrepExtracted, rows, PageMoves
<1>4. ASSUME NEW w \in Workers, PrepRows(w) PROVE PageMoves
    BY <1>4 DEF PrepRows, rows, PageMoves
<1>5. ASSUME NEW w \in Workers, PrepDispatch(w) PROVE PageMoves
    BY <1>5 DEF PrepDispatch, rows, PageMoves
<1>6. ASSUME NEW w \in Workers, PrepFails(w) PROVE PageMoves
    BY <1>6 DEF PrepFails, rows, PageMoves
<1>7. ASSUME NEW w \in Workers, NEW m \in Message, ChunkTake(w, m) PROVE PageMoves
    BY <1>7 DEF ChunkTake, rows, PageMoves
<1>8. ASSUME NEW w \in Workers, Claim(w) PROVE PageMoves
    BY <1>8 DEF Claim, rows, PageMoves
<1>9. ASSUME NEW w \in Workers, ClaimRefused(w) PROVE PageMoves
    BY <1>9 DEF ClaimRefused, rows, PageMoves
<1>10. ASSUME NEW w \in Workers, NoOcrTarget(w) PROVE PageMoves
    BY <1>10 DEF NoOcrTarget, rows, PageMoves
<1>11. ASSUME NEW w \in Workers, PageStop(w) PROVE PageMoves
    BY <1>11 DEF PageStop, rows, PageMoves
<1>12. ASSUME NEW w \in Workers, PageLook(w) PROVE PageMoves
    BY <1>12 DEF PageLook, rows, PageMoves
<1>13. ASSUME NEW w \in Workers, SaveEngineTrack(w) PROVE PageMoves
    BY <1>13 DEF SaveEngineTrack, rows, PageMoves
<1>14. ASSUME NEW w \in Workers, SaveDefaultTrack(w) PROVE PageMoves
    BY <1>14 DEF SaveDefaultTrack, rows, PageMoves
<1>15. ASSUME NEW w \in Workers, WorkFails(w) PROVE PageMoves
    BY <1>15 DEF WorkFails, rows, PageMoves
<1>16. ASSUME NEW w \in Workers, Finish(w) PROVE PageMoves
    BY <1>16 DEF Finish, rows, PageMoves
<1>17. ASSUME NEW w \in Workers, FinalizeItem(w) PROVE PageMoves
    BY <1>17 DEF FinalizeItem, rows, PageMoves
<1>18. ASSUME NEW w \in Workers, SealItem(w) PROVE PageMoves
    BY <1>18 DEF SealItem, rows, PageMoves
<1>19. ASSUME NEW w \in Workers, AskExtraction(w) PROVE PageMoves
    BY <1>19 DEF AskExtraction, rows, PageMoves
<1>20. ASSUME NEW w \in Workers, FinalizeJob(w) PROVE PageMoves
    BY <1>20 DEF FinalizeJob, rows, PageMoves
<1>21. ASSUME NEW c \in Chunks, LeaseLapses(c) PROVE PageMoves
    BY <1>21 DEF LeaseLapses, rows, PageMoves
<1>22. ASSUME NEW w \in Workers, Crash(w) PROVE PageMoves
    BY <1>22 DEF Crash, rows, PageMoves
<1>23. ASSUME NEW w \in Workers, ChildKilled(w) PROVE PageMoves
    BY <1>23 DEF ChildKilled, rows, PageMoves
<1>24. ASSUME NEW w \in Workers, Redeliver(w) PROVE PageMoves
    BY <1>24 DEF Redeliver, rows, PageMoves
<1>25. ASSUME NEW f \in Forces, RetryBegin(f) PROVE PageMoves
    BY <1>25 DEF RetryBegin, rows, PageMoves
<1>26. ASSUME NEW i \in Items, RetryOpen(i) PROVE PageMoves
    BY <1>26 DEF RetryOpen, rows, PageMoves
<1>27. ASSUME NEW i \in Items, RetryPrepare(i) PROVE PageMoves
    BY <1>27 DEF RetryPrepare, rows, PageMoves
<1>28. ASSUME NEW c \in Chunks, RetrySkip(c) PROVE PageMoves
    BY <1>28 DEF RetrySkip, rows, PageMoves
<1>29. ASSUME RetryEnd PROVE PageMoves
    BY <1>29 DEF RetryEnd, rows, PageMoves
<1>30. ASSUME NEW w \in Workers, JudgeJob(w) PROVE PageMoves
    BY <1>30 DEF JudgeJob, rows, PageMoves
<1>31. ASSUME NEW w \in Workers, PageStart(w) PROVE PageMoves
    BY <1>31 DEF PageMoves
<1>32. ASSUME NEW w \in Workers, OcrFails(w) PROVE PageMoves
    BY <1>32 DEF PageMoves
<1>33. ASSUME NEW w \in Workers, PageDone(w) PROVE PageMoves
    BY <1>33 DEF PageMoves
<1>34. ASSUME Cancel PROVE PageMoves
    BY <1>34 DEF PageMoves
<1>35. ASSUME NEW c \in Chunks, RetryChunk(c) PROVE PageMoves
    BY <1>35 DEF PageMoves
<1>36. CASE UNCHANGED vars
    BY <1>36 DEF vars, rows, PageMoves
<1> QED
    BY <1>1, <1>2, <1>3, <1>4, <1>5, <1>6, <1>7, <1>8, <1>9, <1>10, <1>11,
       <1>12, <1>13, <1>14, <1>15, <1>16, <1>17, <1>18, <1>19, <1>20, <1>21,
       <1>22, <1>23, <1>24, <1>25, <1>26, <1>27, <1>28, <1>29, <1>30, <1>31,
       <1>32, <1>33, <1>34, <1>35, <1>36
    DEF Next, Receive, WorkerStep, WorkerFault, RetryStep

KeptStep ==
    \A c \in Chunks \ contested', n \in Pages :
        page[c][n] = "COMPLETED" /\ page'[c][n] # "COMPLETED" =>
            cli.force \/ \E w \in WorkersOn(c) : msg[w].force

LEMMA CompletedPageStep ==
    TypeOK /\ ProgressInv /\ [Next]_vars => KeptStep
<1> SUFFICES ASSUME TypeOK, ProgressInv, [Next]_vars PROVE KeptStep
    OBVIOUS
<1>1. CASE UNCHANGED page
    BY <1>1 DEF KeptStep
<1>2. ASSUME NEW w \in Workers, PageStart(w) PROVE KeptStep
    <2>1. PICK c \in Chunks : c = msg[w].id
        BY <1>2, MessageFields DEF PageStart, Running, TypeOK, WorkerTypes, Working
    <2>2. at[w] \in Pages /\ w \in WorkersOn(c)
        BY <1>2, <2>1 DEF PageStart, Running, WorkersOn, Working, TypeOK, WorkerTypes
    <2>3. CASE page' = page
        BY <2>3 DEF KeptStep
    <2>4. CASE page' # page
        <3>1. /\ PagesOnly(c, at[w], "IN_PROGRESS")
              /\ msg[w].force \/ page[c][at[w]] # "COMPLETED"
            BY <1>2, <2>1, <2>4 DEF PageStart, PagesOnly
        <3> QED BY <2>2, <3>1, PageWritten DEF KeptStep
    <2> QED BY <2>3, <2>4
<1>3. ASSUME NEW w \in Workers, OcrFails(w) PROVE KeptStep
    <2>1. PICK c \in Chunks : c = msg[w].id
        BY <1>3, MessageFields DEF OcrFails, Running, TypeOK, WorkerTypes,
           Working
    <2>2. at[w] \in Pages /\ w \in WorkersOn(c) /\ pc[w] \in PageSteps
        BY <1>3, <2>1 DEF OcrFails, Running, WorkersOn, Working, PageSteps,
           TypeOK, WorkerTypes
    <2>3. PagesOnly(c, at[w], "FAILED") /\ contested' = contested
        BY <1>3, <2>1 DEF OcrFails, PagesOnly
    <2>4. c \notin contested' => page[c][at[w]] # "COMPLETED"
        BY <2>2, <2>3 DEF ProgressInv
    <2> QED BY <2>2, <2>3, <2>4, PageWritten DEF KeptStep
<1>4. ASSUME NEW w \in Workers, PageDone(w) PROVE KeptStep
    <2>1. PICK c \in Chunks : c = msg[w].id
        BY <1>4, MessageFields DEF PageDone, Running, TypeOK, WorkerTypes,
           Working
    <2>2. at[w] \in Pages
        BY <1>4 DEF PageDone, Running, TypeOK, WorkerTypes
    <2>3. PagesOnly(c, at[w], "COMPLETED")
        BY <1>4, <2>1 DEF PageDone, PagesOnly
    <2> QED BY <2>1, <2>2, <2>3, PageWritten DEF KeptStep
<1>5. CASE Cancel
    <2>1. \A c \in Chunks, n \in Pages : page[c][n] = "COMPLETED" => page'[c][n] = page[c][n]
        BY <1>5 DEF Cancel
    <2> QED BY <2>1 DEF KeptStep
<1>6. ASSUME NEW c \in Chunks, RetryChunk(c) PROVE KeptStep
    <2>1. \A d \in Chunks, n \in Pages :
              page[d][n] = "COMPLETED" => page'[d][n] = page[d][n] \/ cli.force
        BY <1>6 DEF RetryChunk
    <2> QED BY <2>1 DEF KeptStep
<1> QED
    BY <1>1, <1>2, <1>3, <1>4, <1>5, <1>6, PageWriters DEF PageMoves

-----------------------------------------------------------------------------
(* Who writes the job *)

JobMoves ==
    \/ UNCHANGED job
    \/ Cancel
    \/ cli.on /\ job' = "IN_PROGRESS"
    \/ \E w \in Workers : JudgeJob(w)

(* The steps that write the job.                                            *)
LEMMA JobWriters == [Next]_vars => JobMoves
<1> SUFFICES ASSUME [Next]_vars PROVE JobMoves
    OBVIOUS
<1>1. ASSUME NEW w \in Workers, NEW m \in Message, PrepTake(w, m) PROVE JobMoves
    BY <1>1 DEF PrepTake, rows, JobMoves
<1>2. ASSUME NEW w \in Workers, PrepRender(w) PROVE JobMoves
    BY <1>2 DEF PrepRender, rows, JobMoves
<1>3. ASSUME NEW w \in Workers, PrepExtracted(w) PROVE JobMoves
    BY <1>3 DEF PrepExtracted, rows, JobMoves
<1>4. ASSUME NEW w \in Workers, PrepRows(w) PROVE JobMoves
    BY <1>4 DEF PrepRows, rows, JobMoves
<1>5. ASSUME NEW w \in Workers, PrepDispatch(w) PROVE JobMoves
    BY <1>5 DEF PrepDispatch, rows, JobMoves
<1>6. ASSUME NEW w \in Workers, PrepFails(w) PROVE JobMoves
    BY <1>6 DEF PrepFails, rows, JobMoves
<1>7. ASSUME NEW w \in Workers, NEW m \in Message, ChunkTake(w, m) PROVE JobMoves
    BY <1>7 DEF ChunkTake, rows, JobMoves
<1>8. ASSUME NEW w \in Workers, Claim(w) PROVE JobMoves
    BY <1>8 DEF Claim, rows, JobMoves
<1>9. ASSUME NEW w \in Workers, ClaimRefused(w) PROVE JobMoves
    BY <1>9 DEF ClaimRefused, rows, JobMoves
<1>10. ASSUME NEW w \in Workers, NoOcrTarget(w) PROVE JobMoves
    BY <1>10 DEF NoOcrTarget, rows, JobMoves
<1>11. ASSUME NEW w \in Workers, PageStop(w) PROVE JobMoves
    BY <1>11 DEF PageStop, rows, JobMoves
<1>12. ASSUME NEW w \in Workers, PageLook(w) PROVE JobMoves
    BY <1>12 DEF PageLook, rows, JobMoves
<1>13. ASSUME NEW w \in Workers, SaveEngineTrack(w) PROVE JobMoves
    BY <1>13 DEF SaveEngineTrack, rows, JobMoves
<1>14. ASSUME NEW w \in Workers, SaveDefaultTrack(w) PROVE JobMoves
    BY <1>14 DEF SaveDefaultTrack, rows, JobMoves
<1>15. ASSUME NEW w \in Workers, WorkFails(w) PROVE JobMoves
    BY <1>15 DEF WorkFails, rows, JobMoves
<1>16. ASSUME NEW w \in Workers, Finish(w) PROVE JobMoves
    BY <1>16 DEF Finish, rows, JobMoves
<1>17. ASSUME NEW w \in Workers, FinalizeItem(w) PROVE JobMoves
    BY <1>17 DEF FinalizeItem, rows, JobMoves
<1>18. ASSUME NEW w \in Workers, SealItem(w) PROVE JobMoves
    BY <1>18 DEF SealItem, rows, JobMoves
<1>19. ASSUME NEW w \in Workers, AskExtraction(w) PROVE JobMoves
    BY <1>19 DEF AskExtraction, rows, JobMoves
<1>20. ASSUME NEW w \in Workers, FinalizeJob(w) PROVE JobMoves
    BY <1>20 DEF FinalizeJob, rows, JobMoves
<1>21. ASSUME NEW c \in Chunks, LeaseLapses(c) PROVE JobMoves
    BY <1>21 DEF LeaseLapses, rows, JobMoves
<1>22. ASSUME NEW w \in Workers, Crash(w) PROVE JobMoves
    BY <1>22 DEF Crash, rows, JobMoves
<1>23. ASSUME NEW w \in Workers, ChildKilled(w) PROVE JobMoves
    BY <1>23 DEF ChildKilled, rows, JobMoves
<1>24. ASSUME NEW w \in Workers, Redeliver(w) PROVE JobMoves
    BY <1>24 DEF Redeliver, rows, JobMoves
<1>25. ASSUME NEW f \in Forces, RetryBegin(f) PROVE JobMoves
    BY <1>25 DEF RetryBegin, rows, JobMoves
<1>26. ASSUME NEW i \in Items, RetryOpen(i) PROVE JobMoves
    BY <1>26 DEF RetryOpen, rows, JobMoves
<1>27. ASSUME NEW w \in Workers, PageStart(w) PROVE JobMoves
    BY <1>27 DEF PageStart, rows, JobMoves
<1>28. ASSUME NEW w \in Workers, OcrFails(w) PROVE JobMoves
    BY <1>28 DEF OcrFails, rows, JobMoves
<1>29. ASSUME NEW w \in Workers, PageDone(w) PROVE JobMoves
    BY <1>29 DEF PageDone, rows, JobMoves
<1>30. ASSUME NEW c \in Chunks, RetrySkip(c) PROVE JobMoves
    BY <1>30 DEF RetrySkip, rows, JobMoves
<1>31. ASSUME NEW i \in Items, RetryPrepare(i) PROVE JobMoves
    BY <1>31 DEF RetryPrepare, FlushJob, JobMoves
<1>32. ASSUME NEW c \in Chunks, RetryChunk(c) PROVE JobMoves
    BY <1>32 DEF RetryChunk, FlushJob, JobMoves
<1>33. ASSUME RetryEnd PROVE JobMoves
    BY <1>33 DEF RetryEnd, FlushJob, JobMoves
<1>34. ASSUME Cancel PROVE JobMoves
    BY <1>34 DEF JobMoves
<1>35. ASSUME NEW w \in Workers, JudgeJob(w) PROVE JobMoves
    BY <1>35 DEF JobMoves
<1>36. CASE UNCHANGED vars
    BY <1>36 DEF vars, rows, JobMoves
<1> QED
    BY <1>1, <1>2, <1>3, <1>4, <1>5, <1>6, <1>7, <1>8, <1>9, <1>10, <1>11,
       <1>12, <1>13, <1>14, <1>15, <1>16, <1>17, <1>18, <1>19, <1>20, <1>21,
       <1>22, <1>23, <1>24, <1>25, <1>26, <1>27, <1>28, <1>29, <1>30, <1>31,
       <1>32, <1>33, <1>34, <1>35, <1>36
    DEF Next, Receive, WorkerStep, WorkerFault, RetryStep

-----------------------------------------------------------------------------
(* What a step may do to a cancelled job *)

(* The steps between a look at the job and what a worker commits on it.     *)
Looked == {"start", "judge", "judgefailed"}

(* A worker that may still act on a look from before the cancellation is    *)
(* known as unaware of it.                                                  *)
AwareInv == job = "CANCELLED" => \A w \in Workers : pc[w] \in Looked => w \in unaware

(* No worker comes to such a step, or is taken for aware while it is there. *)
Overlooks ==
    \A w \in Workers : pc'[w] \in Looked =>
        pc'[w] = pc[w] /\ (w \in unaware => w \in unaware')

LEMMA AwareKept ==
    ASSUME AwareInv, Overlooks, job' = "CANCELLED" => job = "CANCELLED"
    PROVE  AwareInv'
    BY DEF AwareInv, Overlooks

LEMMA MoveOverlooks ==
    ASSUME TypeOK, NEW w \in Workers, NEW l, l \notin Looked, pc' = [pc EXCEPT ![w] = l],
           unaware \ {w} \subseteq unaware'
    PROVE  Overlooks
    BY DEF TypeOK, WorkerTypes, Overlooks

LEMMA StayOverlooks ==
    ASSUME UNCHANGED pc, UNCHANGED unaware PROVE Overlooks
    BY DEF Overlooks

LEMMA AwareStep == TypeOK /\ AwareInv /\ [Next]_vars => AwareInv'
<1> SUFFICES ASSUME TypeOK, AwareInv, [Next]_vars PROVE AwareInv'
    OBVIOUS
<1> USE DEF Looked
<1>1. ASSUME NEW w \in Workers, PrepRender(w) PROVE AwareInv'
    BY <1>1, MoveOverlooks, AwareKept DEF PrepRender, rows, Goto
<1>2. ASSUME NEW w \in Workers, PrepExtracted(w) PROVE AwareInv'
    BY <1>2, MoveOverlooks, AwareKept DEF PrepExtracted, rows, Goto
<1>3. ASSUME NEW w \in Workers, PrepRows(w) PROVE AwareInv'
    BY <1>3, MoveOverlooks, AwareKept DEF PrepRows, rows, Goto
<1>4. ASSUME NEW w \in Workers, PrepDispatch(w) PROVE AwareInv'
    BY <1>4, MoveOverlooks, AwareKept DEF PrepDispatch, rows, Leave
<1>5. ASSUME NEW w \in Workers, PrepFails(w) PROVE AwareInv'
    BY <1>5, MoveOverlooks, AwareKept DEF PrepFails, rows, Leave
<1>6. ASSUME NEW w \in Workers, Claim(w) PROVE AwareInv'
    BY <1>6, MoveOverlooks, AwareKept DEF Claim, rows
<1>7. ASSUME NEW w \in Workers, ClaimRefused(w) PROVE AwareInv'
    BY <1>7, MoveOverlooks, AwareKept DEF ClaimRefused, rows, Leave
<1>8. ASSUME NEW w \in Workers, NoOcrTarget(w) PROVE AwareInv'
    BY <1>8, MoveOverlooks, AwareKept DEF NoOcrTarget, rows, Goto
<1>9. ASSUME NEW w \in Workers, PageStop(w) PROVE AwareInv'
    BY <1>9, MoveOverlooks, AwareKept DEF PageStop, rows, Leave
<1>10. ASSUME NEW w \in Workers, OcrFails(w) PROVE AwareInv'
    BY <1>10, MoveOverlooks, AwareKept DEF OcrFails, rows
<1>11. ASSUME NEW w \in Workers, SaveEngineTrack(w) PROVE AwareInv'
    BY <1>11, MoveOverlooks, AwareKept DEF SaveEngineTrack, rows, Goto
<1>12. ASSUME NEW w \in Workers, SaveDefaultTrack(w) PROVE AwareInv'
    BY <1>12, MoveOverlooks, AwareKept DEF SaveDefaultTrack, rows, Goto
<1>13. ASSUME NEW w \in Workers, PageDone(w) PROVE AwareInv'
    BY <1>13, MoveOverlooks, AwareKept DEF PageDone, rows
<1>14. ASSUME NEW w \in Workers, SealItem(w) PROVE AwareInv'
    BY <1>14, MoveOverlooks, AwareKept DEF SealItem, rows, Goto
<1>15. ASSUME NEW w \in Workers, AskExtraction(w) PROVE AwareInv'
    BY <1>15, MoveOverlooks, AwareKept DEF AskExtraction, rows, Goto
<1>16. ASSUME NEW w \in Workers, JudgeJob(w) PROVE AwareInv'
    BY <1>16, MoveOverlooks, AwareKept DEF JudgeJob, rows, Leave
<1>17. ASSUME NEW w \in Workers, Crash(w) PROVE AwareInv'
    BY <1>17, MoveOverlooks, AwareKept DEF Crash, rows, Leave
<1>18. ASSUME NEW w \in Workers, ChildKilled(w) PROVE AwareInv'
    BY <1>18, MoveOverlooks, AwareKept DEF ChildKilled, rows, Leave
<1>19. ASSUME NEW w \in Workers, PageStart(w) PROVE AwareInv'
    <2>1. \E l \in {"page", "ocr"} : pc' = [pc EXCEPT ![w] = l]
        BY <1>19 DEF PageStart
    <2> QED BY <1>19, <2>1, MoveOverlooks, AwareKept DEF PageStart, rows
<1>20. ASSUME NEW w \in Workers, WorkFails(w) PROVE AwareInv'
    <2>1. \E l \in {"idle", "close"} : pc' = [pc EXCEPT ![w] = l]
        BY <1>20 DEF WorkFails, Goto, Leave
    <2> QED BY <1>20, <2>1, MoveOverlooks, AwareKept DEF WorkFails, rows
<1>21. ASSUME NEW w \in Workers, Finish(w) PROVE AwareInv'
    <2>1. \E l \in {"idle", "close"} : pc' = [pc EXCEPT ![w] = l]
        BY <1>21 DEF Finish, Goto, Leave
    <2> QED BY <1>21, <2>1, MoveOverlooks, AwareKept DEF Finish, rows
<1>22. ASSUME NEW w \in Workers, FinalizeItem(w) PROVE AwareInv'
    <2>1. \E l \in {"idle", "seal", "sealfailed"} : pc' = [pc EXCEPT ![w] = l]
        BY <1>22 DEF FinalizeItem, Goto, Leave
    <2> QED BY <1>22, <2>1, MoveOverlooks, AwareKept DEF FinalizeItem, rows
<1>23. ASSUME NEW w \in Workers, NEW m \in Message, PrepTake(w, m) PROVE AwareInv'
    <2>1. pc' = pc \/ \E l \in Steps \ Looked : pc' = [pc EXCEPT ![w] = l]
        BY <1>23 DEF PrepTake, workers, Steps, PrepSteps, Working
    <2> QED BY <1>23, <2>1, MoveOverlooks, StayOverlooks, AwareKept DEF PrepTake, rows
<1>24. ASSUME NEW w \in Workers, NEW m \in Message, ChunkTake(w, m) PROVE AwareInv'
    <2>1. pc' = pc \/ \E l \in Steps \ Looked : pc' = [pc EXCEPT ![w] = l]
        BY <1>24 DEF ChunkTake, workers, Steps, PrepSteps, Working
    <2> QED BY <1>24, <2>1, MoveOverlooks, StayOverlooks, AwareKept DEF ChunkTake, rows
<1>25. ASSUME NEW c \in Chunks, LeaseLapses(c) PROVE AwareInv'
    BY <1>25, StayOverlooks, AwareKept DEF LeaseLapses, rows, workers, FlushJob
<1>26. ASSUME NEW w \in Workers, Redeliver(w) PROVE AwareInv'
    BY <1>26, StayOverlooks, AwareKept DEF Redeliver, rows, workers, FlushJob
<1>27. ASSUME NEW f \in Forces, RetryBegin(f) PROVE AwareInv'
    BY <1>27, StayOverlooks, AwareKept DEF RetryBegin, rows, workers, FlushJob
<1>28. ASSUME NEW i \in Items, RetryOpen(i) PROVE AwareInv'
    BY <1>28, StayOverlooks, AwareKept DEF RetryOpen, rows, workers, FlushJob
<1>29. ASSUME NEW i \in Items, RetryPrepare(i) PROVE AwareInv'
    BY <1>29, StayOverlooks, AwareKept DEF RetryPrepare, rows, workers, FlushJob
<1>30. ASSUME NEW c \in Chunks, RetrySkip(c) PROVE AwareInv'
    BY <1>30, StayOverlooks, AwareKept DEF RetrySkip, rows, workers, FlushJob
<1>31. ASSUME RetryEnd PROVE AwareInv'
    BY <1>31, StayOverlooks, AwareKept DEF RetryEnd, rows, workers, FlushJob
<1>32. ASSUME NEW c \in Chunks, RetryChunk(c) PROVE AwareInv'
    BY <1>32, StayOverlooks, AwareKept DEF RetryChunk, rows, workers, FlushJob
<1>33. ASSUME NEW w \in Workers, PageLook(w) PROVE AwareInv'
    BY <1>33 DEF PageLook, ChunkIsCancelled, rows, AwareInv
<1>34. ASSUME NEW w \in Workers, FinalizeJob(w) PROVE AwareInv'
    <2>1. CASE job \in Terminal
        <3>1. Leave(w)
            BY <1>34, <2>1 DEF FinalizeJob
        <3> QED BY <1>34, <3>1, MoveOverlooks, AwareKept DEF FinalizeJob, rows, Leave
    <2>2. CASE job \notin Terminal
        BY <1>34, <2>2 DEF FinalizeJob, rows, AwareInv, Terminal
    <2> QED BY <2>1, <2>2
<1>35. ASSUME Cancel PROVE AwareInv'
    BY <1>35 DEF Cancel, workers, AwareInv
<1>36. CASE UNCHANGED vars
    BY <1>36, StayOverlooks, AwareKept DEF vars, rows, workers
<1> QED
    BY <1>1, <1>2, <1>3, <1>4, <1>5, <1>6, <1>7, <1>8, <1>9, <1>10, <1>11,
       <1>12, <1>13, <1>14, <1>15, <1>16, <1>17, <1>18, <1>19, <1>20, <1>21,
       <1>22, <1>23, <1>24, <1>25, <1>26, <1>27, <1>28, <1>29, <1>30, <1>31,
       <1>32, <1>33, <1>34, <1>35, <1>36
    DEF Next, Receive, WorkerStep, WorkerFault, RetryStep

FinalStep ==
    job = "CANCELLED" /\ job' # job =>
        \/ cli.on /\ job' = "IN_PROGRESS"
        \/ \E w \in unaware : pc[w] = "judge" /\ job' = "COMPLETED"

LEMMA CancelledStays == AwareInv /\ [Next]_vars => FinalStep
<1> SUFFICES ASSUME AwareInv, [Next]_vars, job = "CANCELLED", job' # job PROVE FinalStep
    BY DEF FinalStep
<1>1. CASE cli.on /\ job' = "IN_PROGRESS"
    BY <1>1 DEF FinalStep
<1>2. ASSUME NEW w \in Workers, JudgeJob(w) PROVE FinalStep
    <2>1. pc[w] = "judge" /\ job' = "COMPLETED"
        BY <1>2 DEF JudgeJob
    <2>2. w \in unaware
        BY <2>1 DEF AwareInv, Looked
    <2> QED BY <2>1, <2>2 DEF FinalStep
<1>3. ~Cancel
    BY DEF Cancel
<1> QED BY <1>1, <1>2, <1>3, JobWriters DEF JobMoves

NoStartStep ==
    \A c \in Chunks, n \in Pages :
        job = "CANCELLED" /\ page[c][n] # "IN_PROGRESS" /\ page'[c][n] = "IN_PROGRESS" =>
            \E w \in unaware \ unaware' : msg[w].id = c /\ at[w] = n

LEMMA CancelledStartsNone == TypeOK /\ AwareInv /\ [Next]_vars => NoStartStep
<1> SUFFICES ASSUME TypeOK, AwareInv, [Next]_vars, job = "CANCELLED" PROVE NoStartStep
    BY DEF NoStartStep
<1>1. CASE UNCHANGED page
    BY <1>1 DEF NoStartStep
<1>2. ASSUME NEW w \in Workers, PageStart(w) PROVE NoStartStep
    <2>1. PICK c \in Chunks : c = msg[w].id
        BY <1>2, MessageFields DEF PageStart, Running, TypeOK, WorkerTypes, Working
    <2>2. at[w] \in Pages
        BY <1>2 DEF PageStart, Running, TypeOK, WorkerTypes
    <2>3. PagesOnly(c, at[w], "IN_PROGRESS")
        BY <1>2, <2>1 DEF PageStart, PagesOnly
    <2>4. w \in unaware \ unaware'
        BY <1>2 DEF PageStart, Running, AwareInv, Looked
    <2> QED BY <2>1, <2>2, <2>3, <2>4, PageWritten DEF NoStartStep
<1>3. ASSUME NEW w \in Workers, OcrFails(w) PROVE NoStartStep
    <2>1. PICK c \in Chunks : c = msg[w].id
        BY <1>3, MessageFields DEF OcrFails, Running, TypeOK, WorkerTypes, Working
    <2>2. at[w] \in Pages
        BY <1>3 DEF OcrFails, Running, TypeOK, WorkerTypes
    <2>3. PagesOnly(c, at[w], "FAILED")
        BY <1>3, <2>1 DEF OcrFails, PagesOnly
    <2> QED BY <2>1, <2>2, <2>3, PageWritten DEF NoStartStep
<1>4. ASSUME NEW w \in Workers, PageDone(w) PROVE NoStartStep
    <2>1. PICK c \in Chunks : c = msg[w].id
        BY <1>4, MessageFields DEF PageDone, Running, TypeOK, WorkerTypes, Working
    <2>2. at[w] \in Pages
        BY <1>4 DEF PageDone, Running, TypeOK, WorkerTypes
    <2>3. PagesOnly(c, at[w], "COMPLETED")
        BY <1>4, <2>1 DEF PageDone, PagesOnly
    <2> QED BY <2>1, <2>2, <2>3, PageWritten DEF NoStartStep
<1>5. ASSUME NEW c \in Chunks, RetryChunk(c) PROVE NoStartStep
    <2>1. \A d \in Chunks, n \in Pages : page'[d][n] \in {page[d][n], "PENDING"}
        BY <1>5 DEF RetryChunk
    <2> QED BY <2>1 DEF NoStartStep
<1>6. ~Cancel
    BY DEF Cancel
<1> QED BY <1>1, <1>2, <1>3, <1>4, <1>5, <1>6, PageWriters DEF PageMoves

-----------------------------------------------------------------------------
(* The theorems *)

IndInv == TypeOK /\ ClaimInv /\ ProgressInv /\ DurableInv /\ AwareInv

LEMMA InitInv == Init => IndInv
<1> SUFFICES ASSUME Init PROVE IndInv
    OBVIOUS
<1>1. RowTypes
    BY DEF Init, RowTypes, JobStatus, ItemStatus, ChunkStatus, PageStatus
<1>2. WorkerTypes
    BY DEF Init, WorkerTypes, Steps, PrepSteps, Working
<1>3. OtherTypes
    BY DEF Init, OtherTypes, IdleCli
<1>4. ClaimInv /\ ProgressInv
    BY DEF Init, ClaimInv, ProgressInv, WorkersOn, Working
<1>5. DurableInv
    BY DEF Init, DurableInv, DurableBeforeDone
<1>6. AwareInv
    BY DEF Init, AwareInv
<1> QED BY <1>1, <1>2, <1>3, <1>4, <1>5, <1>6 DEF IndInv, TypeOK

LEMMA TypeStep == TypeOK /\ [Next]_vars => TypeOK'
<1> SUFFICES ASSUME TypeOK, [Next]_vars PROVE TypeOK'
    OBVIOUS
<1>1. ASSUME NEW w \in Workers, NEW m \in Message, PrepTake(w, m) PROVE TypeOK'
    BY <1>1, PrepTakeTypes
<1>2. ASSUME NEW w \in Workers, PrepRender(w) PROVE TypeOK'
    BY <1>2, PrepRenderTypes
<1>3. ASSUME NEW w \in Workers, PrepExtracted(w) PROVE TypeOK'
    BY <1>3, PrepExtractedTypes
<1>4. ASSUME NEW w \in Workers, PrepRows(w) PROVE TypeOK'
    BY <1>4, PrepRowsTypes
<1>5. ASSUME NEW w \in Workers, PrepDispatch(w) PROVE TypeOK'
    BY <1>5, PrepDispatchTypes
<1>6. ASSUME NEW w \in Workers, PrepFails(w) PROVE TypeOK'
    BY <1>6, PrepFailsTypes
<1>7. ASSUME NEW w \in Workers, NEW m \in Message, ChunkTake(w, m) PROVE TypeOK'
    BY <1>7, ChunkTakeTypes
<1>8. ASSUME NEW w \in Workers, Claim(w) PROVE TypeOK'
    BY <1>8, ClaimTypes
<1>9. ASSUME NEW w \in Workers, ClaimRefused(w) PROVE TypeOK'
    BY <1>9, ClaimRefusedTypes
<1>10. ASSUME NEW w \in Workers, NoOcrTarget(w) PROVE TypeOK'
    BY <1>10, NoOcrTargetTypes
<1>11. ASSUME NEW w \in Workers, PageStop(w) PROVE TypeOK'
    BY <1>11, PageStopTypes
<1>12. ASSUME NEW w \in Workers, PageStart(w) PROVE TypeOK'
    BY <1>12, PageStartTypes
<1>13. ASSUME NEW w \in Workers, OcrFails(w) PROVE TypeOK'
    BY <1>13, OcrFailsTypes
<1>14. ASSUME NEW w \in Workers, SaveEngineTrack(w) PROVE TypeOK'
    BY <1>14, SaveEngineTrackTypes
<1>15. ASSUME NEW w \in Workers, SaveDefaultTrack(w) PROVE TypeOK'
    BY <1>15, SaveDefaultTrackTypes
<1>16. ASSUME NEW w \in Workers, PageDone(w) PROVE TypeOK'
    BY <1>16, PageDoneTypes
<1>17. ASSUME NEW w \in Workers, WorkFails(w) PROVE TypeOK'
    BY <1>17, WorkFailsTypes
<1>18. ASSUME NEW w \in Workers, Finish(w) PROVE TypeOK'
    BY <1>18, FinishTypes
<1>19. ASSUME NEW w \in Workers, FinalizeItem(w) PROVE TypeOK'
    BY <1>19, FinalizeItemTypes
<1>20. ASSUME NEW w \in Workers, AskExtraction(w) PROVE TypeOK'
    BY <1>20, AskExtractionTypes
<1>21. ASSUME NEW w \in Workers, FinalizeJob(w) PROVE TypeOK'
    BY <1>21, FinalizeJobTypes
<1>22. ASSUME NEW c \in Chunks, LeaseLapses(c) PROVE TypeOK'
    BY <1>22, LeaseLapsesTypes
<1>23. ASSUME NEW w \in Workers, Crash(w) PROVE TypeOK'
    BY <1>23, CrashTypes
<1>24. ASSUME NEW w \in Workers, Redeliver(w) PROVE TypeOK'
    BY <1>24, RedeliverTypes
<1>25. ASSUME Cancel PROVE TypeOK'
    BY <1>25, CancelTypes
<1>26. ASSUME NEW f \in Forces, RetryBegin(f) PROVE TypeOK'
    BY <1>26, RetryBeginTypes
<1>27. ASSUME NEW i \in Items, RetryOpen(i) PROVE TypeOK'
    BY <1>27, RetryOpenTypes
<1>28. ASSUME NEW i \in Items, RetryPrepare(i) PROVE TypeOK'
    BY <1>28, RetryPrepareTypes
<1>29. ASSUME NEW c \in Chunks, RetryChunk(c) PROVE TypeOK'
    BY <1>29, RetryChunkTypes
<1>30. ASSUME NEW c \in Chunks, RetrySkip(c) PROVE TypeOK'
    BY <1>30, RetrySkipTypes
<1>31. ASSUME RetryEnd PROVE TypeOK'
    BY <1>31, RetryEndTypes
<1>32. CASE UNCHANGED vars
    BY <1>32 DEF vars, rows, workers, TypeOK, RowTypes, WorkerTypes, OtherTypes
<1>33. ASSUME NEW w \in Workers, PageLook(w)
      PROVE  TypeOK'
    BY <1>33, PageLookTypes
<1>34. ASSUME NEW w \in Workers, SealItem(w)
      PROVE  TypeOK'
    BY <1>34, SealItemTypes
<1>35. ASSUME NEW w \in Workers, JudgeJob(w)
      PROVE  TypeOK'
    BY <1>35, JudgeJobTypes
<1>36. ASSUME NEW w \in Workers, ChildKilled(w)
      PROVE  TypeOK'
    BY <1>36, ChildKilledTypes
<1> QED
    BY <1>1, <1>2, <1>3, <1>4, <1>5, <1>6, <1>7, <1>8, <1>9, <1>10, <1>11,
       <1>12, <1>13, <1>14, <1>15, <1>16, <1>17, <1>18, <1>19, <1>20, <1>21,
       <1>22, <1>23, <1>24, <1>25, <1>26, <1>27, <1>28, <1>29, <1>30, <1>31,
       <1>32, <1>33, <1>34, <1>35, <1>36
    DEF Next, Receive, WorkerStep, WorkerFault, RetryStep

LEMMA NextInv == IndInv /\ [Next]_vars => IndInv'
    BY TypeStep, ClaimStep, ProgressStep, DurableStep, AwareStep DEF IndInv

(* The inductive invariant holds in every behaviour of the pipeline.        *)
THEOREM Invariance == Spec => []IndInv
    BY InitInv, NextInv, PTL DEF Spec

(* For every job, fleet of workers and bound on the faults, rows, workers   *)
(* and broker keep their types; in particular a worker that works on a page *)
(* always holds a message for a chunk that has such a page.                 *)
THEOREM TypeCorrect == Spec => []TypeOK
<1>1. IndInv => TypeOK
    BY DEF IndInv
<1> QED BY <1>1, Invariance, PTL

(* The claim of process_s3_batch_chunk keeps every two workers apart on a   *)
(* chunk whose claim was not taken from its worker.                         *)
THEOREM ChunkIsExclusive == Spec => []ExclusiveChunk
<1>1. IndInv => ExclusiveChunk
    BY DEF IndInv, ClaimInv, ExclusiveChunk
<1> QED BY <1>1, Invariance, PTL

(* The verdict of process_s3_batch_chunk is right: a chunk it reports       *)
(* COMPLETED has every page COMPLETED, however many attempts it took.       *)
THEOREM CompletedIsWhole == Spec => []CompletedChunkIsWhole
<1>1. IndInv => CompletedChunkIsWhole
    BY DEF IndInv, ProgressInv, CompletedChunkIsWhole
<1> QED BY <1>1, Invariance, PTL

(* The commits of a page are in the right order: no crash leaves a page     *)
(* that is COMPLETED without both of its revisions.                         *)
THEOREM TextIsDurable == Spec => []DurableBeforeDone
<1>1. IndInv => DurableBeforeDone
    BY DEF IndInv, DurableInv
<1> QED BY <1>1, Invariance, PTL

(* Only --force makes the pipeline read a completed page of an undisturbed  *)
(* chunk again.                                                             *)
THEOREM CompletedPageIsKept == Spec => CompletedPageKept
<1>1. IndInv /\ [Next]_vars => [KeptStep]_vars
    BY CompletedPageStep DEF IndInv
<1> QED BY <1>1, Invariance, PTL DEF Spec, CompletedPageKept, KeptStep

(* A cancelled job is written only by batch-retry and by workers whose look *)
(* came before the cancellation was committed.                              *)
THEOREM CancellationIsFinal == Spec => CancelIsFinal
<1>1. IndInv /\ [Next]_vars => [FinalStep]_vars
    BY CancelledStays DEF IndInv
<1> QED BY <1>1, Invariance, PTL DEF Spec, CancelIsFinal, FinalStep

(* Under a cancelled job a worker starts only the page it had looked for    *)
(* before, and looks again for the next.                                    *)
THEOREM CancellationStopsPages == Spec => NoPageAfterCancel
<1>1. IndInv /\ [Next]_vars => [NoStartStep]_vars
    BY CancelledStartsNone DEF IndInv
<1> QED BY <1>1, Invariance, PTL DEF Spec, NoPageAfterCancel, NoStartStep

-----------------------------------------------------------------------------
(* No chunk is lost before the operator cancels *)

(* Who has a chunk still to do: a message, or a worker that is to claim it; *)
(* and who has an item still to cut into chunks.                            *)
Offered(c) ==
    \/ \E m \in ChunkMsg : m.id = c /\ queue[m] > 0
    \/ \E w \in Workers : pc[w] = "claim" /\ msg[w].id = c
Prepared(i) ==
    \/ \E m \in ItemMsg : m.id = i /\ queue[m] > 0
    \/ \E w \in Workers : pc[w] \in PrepSteps /\ msg[w].id = i

(* The chunks of an item are created together, before anything is sent, and *)
(* an item is COMPLETED by one of its chunks.                               *)
RowsInv ==
    /\ \A c, d \in Chunks : ItemOf[c] = ItemOf[d] /\ chunk[c] = "NONE" => chunk[d] = "NONE"
    /\ \A m \in ChunkMsg : queue[m] > 0 => chunk[m.id] # "NONE"
    /\ \A w \in Workers :
          /\ pc[w] = "dispatch" => \A c \in ChunksOf(msg[w].id) : chunk[c] # "NONE"
          /\ pc[w] # "idle" /\ msg[w] \in ChunkMsg => chunk[msg[w].id] # "NONE"
    /\ \A c \in cli.left : chunk[c] # "NONE"
    /\ \A c \in Chunks : ItemOf[c] \in cli.dirty => chunk[c] # "NONE"
    /\ \A c \in Chunks : item[ItemOf[c]] = "COMPLETED" => chunk[c] # "NONE"

(* A chunk nobody has been offered yet is one that its item's preparation   *)
(* or a running batch-retry comes to, or its item has failed.               *)
Awaited(c) ==
    /\ item[ItemOf[c]] # "COMPLETED"
    /\ \/ c \in cli.left
       \/ /\ ItemOf[c] \notin cli.dirty
          /\ Prepared(ItemOf[c]) \/ item[ItemOf[c]] = "FAILED"

CarryInv ==
    /\ job # "CANCELLED"
    /\ cli.on \/ cli.left = {}
    /\ \A c \in Chunks : chunk[c] = "IN_PROGRESS" =>
          Offered(c) \/ WorkersOn(c) # {} \/ Lost(c)
    /\ \A c \in Chunks : chunk[c] = "PENDING" => Offered(c) \/ Awaited(c) \/ Lost(c)

(* The chunks under a COMPLETED verdict about to be committed do not wait   *)
(* for a preparation.                                                       *)
SealInv ==
    \A w \in Workers : pc[w] = "seal" => \A c \in ChunksOf(ItemOf[msg[w].id]) :
        chunk[c] # "NONE" /\ (chunk[c] = "PENDING" => Offered(c) \/ Lost(c))

LostInv == RowsInv /\ CarryInv /\ SealInv

LEMMA SealKept ==
    ASSUME SealInv,
           \A w \in Workers : pc'[w] = "seal" => pc[w] = "seal" /\ msg'[w] = msg[w],
           \A c \in Chunks : chunk[c] # "NONE" =>
               /\ chunk'[c] # "NONE"
               /\ chunk'[c] = "PENDING" =>
                     \/ Offered(c)' \/ Lost(c)'
                     \/ chunk[c] = "PENDING" /\ ~Offered(c) /\ ~Lost(c)
    PROVE  SealInv'
    BY DEF SealInv, ChunksOf

LEMMA OpenIsCarried ==
    ASSUME TypeOK, LostInv, NEW c \in Chunks, chunk[c] \in {"PENDING", "IN_PROGRESS"},
           ~cli.on, item[ItemOf[c]] # "FAILED", ~Lost(c)
    PROVE  Carried(c)
<1>1. Offered(c) => Carried(c)
    BY MessageFields DEF Offered, Carried, TypeOK, WorkerTypes
<1>2. WorkersOn(c) # {} => Carried(c)
    BY MessageFields DEF WorkersOn, Carried, TypeOK, WorkerTypes, Working
<1>3. Prepared(ItemOf[c]) => Carried(c)
    BY MessageFields DEF Prepared, Carried, TypeOK, WorkerTypes
<1> QED BY <1>1, <1>2, <1>3 DEF LostInv, CarryInv, Awaited

LEMMA LostImplies == TypeOK /\ LostInv => NoLostChunk
    BY OpenIsCarried DEF NoLostChunk

(* What a step does to the hands of its worker.                             *)
Hands(w, l) ==
    /\ pc'[w] = l /\ (l # "idle" => msg'[w] = msg[w])
    /\ \A v \in Workers \ {w} : pc'[v] = pc[v] /\ msg'[v] = msg[v]

LEMMA LeaveHands == ASSUME TypeOK, NEW w \in Workers, Leave(w) PROVE Hands(w, "idle")
    BY DEF TypeOK, WorkerTypes, Leave, Hands

LEMMA GotoHands ==
    ASSUME TypeOK, NEW w \in Workers, NEW l, pc' = [pc EXCEPT ![w] = l], UNCHANGED msg
    PROVE  Hands(w, l)
    BY DEF TypeOK, WorkerTypes, Hands

LEMMA MailSent ==
    ASSUME TypeOK, NEW M, queue' = Sent(queue, M), NEW m \in Message
    PROVE  queue'[m] > 0 <=> queue[m] > 0 \/ m \in M
    BY DEF TypeOK, OtherTypes, Sent

LEMMA MailTaken ==
    ASSUME TypeOK, NEW n \in Message, queue' = Taken(queue, n), NEW m \in Message
    PROVE  (queue'[m] > 0 => queue[m] > 0) /\ (m # n => queue'[m] = queue[m])
    BY DEF TypeOK, OtherTypes, Taken

LEMMA RetriedMessage ==
    \A m \in ChunkMsg : m.tries < MaxRetries => Retried(m) \in ChunkMsg /\ Retried(m).id = m.id
    BY DEF ChunkMsg, Retried

Open == {"PENDING", "IN_PROGRESS"}

(* A step of a worker that has a task loses nothing when messages only      *)
(* become more, rows that are reopened are offered, and what the worker     *)
(* lets go is offered again, done or failed.                                *)
LEMMA WorkerLosesNothing ==
    ASSUME TypeOK, LostInv, NEW w \in Workers, NEW l, Hands(w, l), pc[w] # "idle",
           NEW k, k = msg[w].id,
           job' # "CANCELLED", UNCHANGED cli, lost \subseteq lost',
           \A m \in Message : queue[m] > 0 => queue'[m] > 0,
           \A m \in ChunkMsg : queue'[m] > 0 => chunk[m.id] # "NONE",
           l = "dispatch" => pc[w] = "dispatch",
           l = "claim" => pc[w] = "claim",
           l = "seal" => \/ pc[w] = "seal"
                         \/ \A c \in ChunksOf(ItemOf[k]) : chunk'[c] \notin {"NONE", "PENDING"},
           \A c \in Chunks :
               \/ chunk'[c] = chunk[c]
               \/ /\ chunk[c] # "NONE" /\ chunk'[c] # "NONE"
                  /\ \/ chunk'[c] \notin Open
                     \/ Offered(c)'
                     \/ chunk'[c] = "IN_PROGRESS" /\ WorkersOn(c)' # {},
           pc[w] = "claim" /\ chunk'[k] \in Open =>
               \/ Offered(k)' \/ k \in lost'
               \/ chunk'[k] = "IN_PROGRESS" /\ WorkersOn(k)' # {},
           pc[w] \in Working /\ chunk'[k] = "IN_PROGRESS" =>
               l \in Working \/ Offered(k)' \/ k \in lost',
           \A i \in Items :
               \/ item'[i] = item[i]
               \/ item'[i] = "FAILED"
               \/ item'[i] # "COMPLETED" /\ (Prepared(i)' \/ i \in lost')
               \/ \A c \in ChunksOf(i) :
                     chunk[c] # "NONE" /\ (chunk'[c] = "PENDING" => Offered(c)' \/ Lost(c)'),
           pc[w] \in PrepSteps =>
               \/ Prepared(k)' \/ item'[k] = "FAILED" \/ k \in lost'
               \/ \A c \in ChunksOf(k) : chunk'[c] = "PENDING" => Offered(c)'
    PROVE  LostInv'
<1>1. RowsInv'
    <2>1. \A c \in Chunks : chunk'[c] = "NONE" <=> chunk[c] = "NONE"
        OBVIOUS
    <2>2. \A m \in ChunkMsg : m.id \in Chunks
        BY MessageFields
    <2>3. cli.left \subseteq Chunks
        BY DEF TypeOK, OtherTypes
    <2>4. \A v \in Workers :
             /\ pc'[v] = "dispatch" => pc[v] = "dispatch" /\ msg'[v] = msg[v]
             /\ pc'[v] # "idle" /\ msg'[v] \in ChunkMsg => pc[v] # "idle" /\ msg'[v] = msg[v]
        BY DEF Hands
    <2>5. \A v \in Workers :
             /\ pc'[v] = "dispatch" => \A c \in ChunksOf(msg'[v].id) : chunk'[c] # "NONE"
             /\ pc'[v] # "idle" /\ msg'[v] \in ChunkMsg => chunk'[msg'[v].id] # "NONE"
        BY <2>1, <2>2, <2>4 DEF LostInv, RowsInv, ChunksOf
    <2>6. \A c \in Chunks : item'[ItemOf[c]] = "COMPLETED" => chunk'[c] # "NONE"
        <3> SUFFICES ASSUME NEW c \in Chunks, item'[ItemOf[c]] = "COMPLETED"
                     PROVE  chunk[c] # "NONE"
            BY <2>1
        <3>1. ItemOf[c] \in Items /\ c \in ChunksOf(ItemOf[c])
            BY DEF ChunksOf
        <3> QED BY <3>1 DEF LostInv, RowsInv
    <2> QED BY <2>1, <2>2, <2>3, <2>5, <2>6 DEF LostInv, RowsInv, ChunksOf
<1>0. /\ \A c \in Chunks : Lost(c) => Lost(c)'
      /\ \A c \in Chunks : c \in lost' \/ ItemOf[c] \in lost' => Lost(c)'
    BY DEF Lost
<1>2. ASSUME NEW c \in Chunks, Offered(c), chunk'[c] \in Open
      PROVE  Offered(c)' \/ Lost(c)' \/ (chunk'[c] = "IN_PROGRESS" /\ WorkersOn(c)' # {})
    <2>1. CASE \E m \in ChunkMsg : m.id = c /\ queue[m] > 0
        BY <2>1, MessageFields DEF Offered
    <2>2. CASE \E v \in Workers : pc[v] = "claim" /\ msg[v].id = c
        <3>1. PICK v \in Workers : pc[v] = "claim" /\ msg[v].id = c
            BY <2>2
        <3>2. CASE v = w
            BY <1>0, <1>2, <3>1, <3>2
        <3>3. CASE v # w
            BY <3>1, <3>3 DEF Hands, Offered
        <3> QED BY <3>2, <3>3
    <2> QED BY <1>2, <2>1, <2>2 DEF Offered
<1>3. ASSUME NEW c \in Chunks, chunk'[c] = "IN_PROGRESS"
      PROVE  Offered(c)' \/ WorkersOn(c)' # {} \/ Lost(c)'
    <2>1. CASE chunk'[c] # chunk[c]
        BY <1>3, <2>1 DEF Open
    <2>2. CASE chunk'[c] = chunk[c] /\ WorkersOn(c) # {}
        <3>1. PICK v \in Workers : pc[v] \in Working /\ msg[v].id = c
            BY <2>2 DEF WorkersOn
        <3>2. CASE v # w \/ l \in Working
            <4>1. pc'[v] \in Working /\ msg'[v].id = c
                BY <3>1, <3>2 DEF Hands, Working
            <4> QED BY <4>1 DEF WorkersOn
        <3> QED BY <1>0, <1>3, <3>1, <3>2
    <2>3. CASE chunk'[c] = chunk[c] /\ Offered(c)
        BY <1>2, <1>3, <2>3 DEF Open
    <2> QED BY <1>0, <1>3, <2>1, <2>2, <2>3 DEF LostInv, CarryInv
<1>4. ASSUME NEW c \in Chunks, chunk'[c] = "PENDING", ~Offered(c)', ~Lost(c)'
      PROVE  Awaited(c)'
    <2>1. chunk[c] = "PENDING"
        BY <1>4 DEF Open
    <2>2. ~Offered(c)
        BY <1>2, <1>4 DEF Open
    <2>3. Awaited(c)
        BY <1>0, <1>4, <2>1, <2>2 DEF LostInv, CarryInv
    <2> DEFINE i == ItemOf[c]
    <2>4. i \in Items /\ c \in ChunksOf(i)
        BY DEF ChunksOf
    <2>10. i \notin lost'
        BY <1>0, <1>4
    <2>5. item'[i] = item[i] \/ item'[i] = "FAILED" \/ (item'[i] # "COMPLETED" /\ Prepared(i)')
        BY <1>4, <2>4, <2>10
    <2>6. item'[i] # "COMPLETED"
        BY <2>3, <2>5 DEF Awaited
    <2>7. Prepared(i) => Prepared(i)' \/ item'[i] = "FAILED"
        <3>1. CASE \E m \in ItemMsg : m.id = i /\ queue[m] > 0
            BY <3>1, MessageFields DEF Prepared
        <3>2. CASE \E v \in Workers : pc[v] \in PrepSteps /\ msg[v].id = i
            <4>1. PICK v \in Workers : pc[v] \in PrepSteps /\ msg[v].id = i
                BY <3>2
            <4>2. CASE v = w
                BY <1>4, <2>4, <2>10, <4>1, <4>2
            <4>3. CASE v # w
                BY <4>1, <4>3 DEF Hands, Prepared
            <4> QED BY <4>2, <4>3
        <3> QED BY <3>1, <3>2 DEF Prepared
    <2> HIDE DEF i
    <2>8. i \notin cli.dirty /\ (Prepared(i) \/ item[i] = "FAILED") =>
              Prepared(i)' \/ item'[i] = "FAILED"
        BY <2>5, <2>7
    <2>9. Awaited(c)' <=> /\ item'[i] # "COMPLETED"
                          /\ \/ c \in cli.left
                             \/ i \notin cli.dirty /\ (Prepared(i)' \/ item'[i] = "FAILED")
        BY DEF Awaited, i, Prepared
    <2> QED BY <2>3, <2>6, <2>8, <2>9 DEF Awaited, i
<1>5. SealInv'
    <2> SUFFICES ASSUME NEW v \in Workers, pc'[v] = "seal", NEW c \in ChunksOf(ItemOf[msg'[v].id])
                 PROVE  /\ chunk'[c] # "NONE"
                        /\ chunk'[c] = "PENDING" => Offered(c)' \/ Lost(c)'
        BY DEF SealInv
    <2>1. c \in Chunks /\ msg'[v] = msg[v]
        BY DEF Hands, ChunksOf
    <2>2. CASE pc[v] = "seal"
        <3>1. chunk[c] # "NONE" /\ (chunk[c] = "PENDING" => Offered(c) \/ Lost(c))
            BY <2>1, <2>2 DEF LostInv, SealInv
        <3> QED BY <1>0, <1>2, <2>1, <3>1 DEF Open
    <2>3. CASE pc[v] # "seal"
        BY <2>1, <2>3 DEF Hands
    <2> QED BY <2>2, <2>3
<1> QED BY <1>1, <1>3, <1>4, <1>5 DEF LostInv, CarryInv

(* The actions of a worker *)

LEMMA WorkerMail ==
    ASSUME TypeOK, LostInv, NEW M, M \subseteq Message, queue' = Sent(queue, M),
           \A m \in M \cap ChunkMsg : chunk[m.id] # "NONE"
    PROVE  /\ \A m \in Message : queue[m] > 0 => queue'[m] > 0
           /\ \A m \in ChunkMsg : queue'[m] > 0 => chunk[m.id] # "NONE"
<1>1. \A m \in Message : queue'[m] > 0 <=> queue[m] > 0 \/ m \in M
    BY MailSent
<1> QED BY <1>1, MessageFields DEF LostInv, RowsInv

LEMMA StayMail ==
    ASSUME TypeOK, LostInv, UNCHANGED queue
    PROVE  /\ \A m \in Message : queue[m] > 0 => queue'[m] > 0
           /\ \A m \in ChunkMsg : queue'[m] > 0 => chunk[m.id] # "NONE"
    BY DEF LostInv, RowsInv

LEMMA RenderLosesNothing ==
    ASSUME TypeOK, LostInv, NEW w \in Workers, PrepRender(w) PROVE LostInv'
<1> PICK k : k = msg[w].id
    OBVIOUS
<1>1. pc[w] = "render" /\ k \in Items
    BY MessageFields DEF TypeOK, WorkerTypes, PrepRender, Running, PrepSteps
<1>2. Hands(w, "extract") /\ UNCHANGED <<job, chunk, queue, cli, lost>>
    BY GotoHands DEF PrepRender, Goto
<1>3. item' = [item EXCEPT ![k] = "DOWNLOADED"]
    BY DEF PrepRender
<1>4. Prepared(k)'
    BY <1>2 DEF Hands, Prepared, PrepSteps
<1>5. \A i \in Items : item'[i] = item[i] \/ (item'[i] # "COMPLETED" /\ Prepared(i)')
    BY <1>3, <1>4 DEF TypeOK, RowTypes
<1> QED BY <1>1, <1>2, <1>4, <1>5, StayMail, WorkerLosesNothing
        DEF LostInv, CarryInv, Working, PrepSteps

LEMMA ExtractedLosesNothing ==
    ASSUME TypeOK, LostInv, NEW w \in Workers, PrepExtracted(w) PROVE LostInv'
<1> PICK k : k = msg[w].id
    OBVIOUS
<1>1. pc[w] = "extract" /\ k \in Items
    BY MessageFields DEF TypeOK, WorkerTypes, PrepExtracted, Running, PrepSteps
<1>2. Hands(w, "rows") /\ UNCHANGED <<job, chunk, queue, cli, lost>>
    BY GotoHands DEF PrepExtracted, Goto
<1>3. item' = [item EXCEPT ![k] = "IMAGES_EXTRACTED"]
    BY DEF PrepExtracted
<1>4. Prepared(k)'
    BY <1>2 DEF Hands, Prepared, PrepSteps
<1>5. \A i \in Items : item'[i] = item[i] \/ (item'[i] # "COMPLETED" /\ Prepared(i)')
    BY <1>3, <1>4 DEF TypeOK, RowTypes
<1> QED BY <1>1, <1>2, <1>4, <1>5, StayMail, WorkerLosesNothing
        DEF LostInv, CarryInv, Working, PrepSteps

LEMMA DispatchLosesNothing ==
    ASSUME TypeOK, LostInv, NEW w \in Workers, PrepDispatch(w) PROVE LostInv'
<1> PICK k, f : k = msg[w].id /\ f = msg[w].force
    OBVIOUS
<1> DEFINE due == {c \in ChunksOf(k) : f \/ chunk[c] \in {"PENDING", "FAILED", "CANCELLED"}}
           M == {NewChunkMsg(c, f) : c \in due}
<1>1. pc[w] = "dispatch" /\ k \in Items /\ f \in BOOLEAN
    BY MessageFields DEF TypeOK, WorkerTypes, PrepDispatch, Running, PrepSteps
<1>2. Hands(w, "idle") /\ UNCHANGED <<job, item, chunk, cli, lost>>
    BY LeaveHands DEF PrepDispatch, rows
<1>3. queue' = Sent(queue, M)
    BY DEF PrepDispatch
<1>4. \A c \in ChunksOf(k) : NewChunkMsg(c, f) \in ChunkMsg /\ NewChunkMsg(c, f).id = c
    BY <1>1 DEF NewChunkMsg, ChunkMsg, ChunksOf
<1>5. M \subseteq Message
    BY <1>4 DEF Message
<1>6. \A c \in ChunksOf(k) : chunk[c] # "NONE"
    BY <1>1 DEF LostInv, RowsInv
<1>7. \A m \in M \cap ChunkMsg : chunk[m.id] # "NONE"
    BY <1>4, <1>6
<1>8. ASSUME NEW c \in ChunksOf(k), chunk'[c] = "PENDING" PROVE Offered(c)'
    <2>1. NewChunkMsg(c, f) \in M
        BY <1>2, <1>8
    <2>2. queue'[NewChunkMsg(c, f)] > 0
        BY <1>3, <1>5, <2>1, MailSent
    <2> QED BY <1>4, <2>2 DEF Offered
<1> HIDE DEF M
<1> QED BY <1>1, <1>2, <1>3, <1>5, <1>7, <1>8, WorkerMail, WorkerLosesNothing
        DEF LostInv, CarryInv, Working, PrepSteps

LEMMA PrepFailsLosesNothing ==
    ASSUME TypeOK, LostInv, NEW w \in Workers, PrepFails(w) PROVE LostInv'
<1> PICK k : k = msg[w].id
    OBVIOUS
<1>1. pc[w] \in {"render", "extract", "rows"} /\ k \in Items
    BY MessageFields DEF TypeOK, WorkerTypes, PrepFails, PrepSteps
<1>2. Hands(w, "idle") /\ UNCHANGED <<job, chunk, queue, cli>>
    BY LeaveHands DEF PrepFails
<1>3. lost \subseteq lost' /\ k \in lost'
    BY DEF PrepFails
<1>4. item' = [item EXCEPT ![k] = "PENDING"]
    BY DEF PrepFails
<1>5. \A i \in Items : item'[i] = item[i] \/ (item'[i] # "COMPLETED" /\ i \in lost')
    BY <1>3, <1>4 DEF TypeOK, RowTypes
<1> QED BY <1>1, <1>2, <1>3, <1>5, StayMail, WorkerLosesNothing
        DEF LostInv, CarryInv, Working, PrepSteps

(* The chunk of a worker that runs a chunk task has its row.                *)
LEMMA TaskChunk ==
    ASSUME TypeOK, LostInv, NEW w \in Workers, pc[w] # "idle", msg[w].task = "chunk"
    PROVE  /\ msg[w] \in ChunkMsg /\ msg[w].id \in Chunks /\ chunk[msg[w].id] # "NONE"
           /\ pc[w] \notin PrepSteps
    BY MessageFields DEF TypeOK, WorkerTypes, LostInv, RowsInv

LEMMA ClaimLosesNothing ==
    ASSUME TypeOK, LostInv, NEW w \in Workers, Claim(w) PROVE LostInv'
<1> PICK k : k = msg[w].id
    OBVIOUS
<1>1. pc[w] = "claim" /\ k \in Chunks /\ chunk[k] # "NONE"
    BY TaskChunk DEF Claim, Running
<1>2. Hands(w, "page") /\ UNCHANGED <<job, item, queue, cli, lost>>
    BY GotoHands DEF Claim
<1>3. chunk' = [chunk EXCEPT ![k] = "IN_PROGRESS"]
    BY DEF Claim
<1>4. WorkersOn(k)' # {}
    BY <1>2 DEF Hands, WorkersOn, Working
<1>5. \A c \in Chunks : c # k => chunk'[c] = chunk[c]
    BY <1>3 DEF TypeOK, RowTypes
<1>6. chunk'[k] = "IN_PROGRESS"
    BY <1>1, <1>3 DEF TypeOK, RowTypes
<1>7. \A c \in Chunks : \/ chunk'[c] = chunk[c]
                        \/ /\ chunk[c] # "NONE" /\ chunk'[c] # "NONE"
                           /\ chunk'[c] = "IN_PROGRESS" /\ WorkersOn(c)' # {}
    BY <1>1, <1>4, <1>5, <1>6
<1> QED BY <1>1, <1>2, <1>4, <1>6, <1>7, StayMail, WorkerLosesNothing
        DEF LostInv, CarryInv, Working, PrepSteps

LEMMA RefusedLosesNothing ==
    ASSUME TypeOK, LostInv, NEW w \in Workers, ClaimRefused(w) PROVE LostInv'
<1> PICK k, m : k = msg[w].id /\ m = msg[w]
    OBVIOUS
<1>1. pc[w] = "claim" /\ k \in Chunks /\ chunk[k] # "NONE" /\ m \in ChunkMsg
    BY TaskChunk DEF ClaimRefused, Running
<1>2. Hands(w, "idle") /\ UNCHANGED <<job, item, chunk, cli>> /\ lost \subseteq lost'
    BY LeaveHands DEF ClaimRefused, rows
<1>3. chunk[k] # "PENDING"
    BY DEF ClaimRefused, Claimable
<1>5. /\ \A x \in Message : queue[x] > 0 => queue'[x] > 0
      /\ \A x \in ChunkMsg : queue'[x] > 0 => chunk[x.id] # "NONE"
      /\ chunk[k] = "IN_PROGRESS" => Offered(k)' \/ k \in lost'
    <2>1. CASE chunk[k] = "IN_PROGRESS" /\ m.tries < MaxRetries
        <3>1. queue' = Sent(queue, {Retried(m)})
            BY <2>1 DEF ClaimRefused
        <3>4. Retried(m) \in ChunkMsg /\ Retried(m).id = k
            BY <1>1, <2>1, RetriedMessage
        <3>2. /\ {Retried(m)} \subseteq Message
              /\ \A x \in {Retried(m)} \cap ChunkMsg : chunk[x.id] # "NONE"
            BY <1>1, <3>4, MessageFields
        <3>3. queue'[Retried(m)] > 0
            BY <3>1, <3>2, MailSent
        <3> QED BY <3>1, <3>2, <3>3, <3>4, WorkerMail DEF Offered
    <2>2. CASE chunk[k] = "IN_PROGRESS" /\ ~(m.tries < MaxRetries)
        <3>1. m.tries >= MaxRetries
            BY <1>1, <2>2, MessageFields
        <3>2. UNCHANGED queue /\ k \in lost'
            BY <2>2, <3>1 DEF ClaimRefused
        <3> QED BY <3>2, StayMail
    <2>3. CASE chunk[k] # "IN_PROGRESS"
        BY <2>3, StayMail DEF ClaimRefused
    <2> QED BY <2>1, <2>2, <2>3
<1> QED BY <1>1, <1>2, <1>3, <1>5, WorkerLosesNothing
        DEF LostInv, CarryInv, Working, PrepSteps, Open

LEMMA NoTargetLosesNothing ==
    ASSUME TypeOK, LostInv, NEW w \in Workers, NoOcrTarget(w) PROVE LostInv'
<1> PICK k : k = msg[w].id
    OBVIOUS
<1>1. pc[w] = "page" /\ k \in Chunks /\ chunk[k] # "NONE"
    BY TaskChunk DEF NoOcrTarget, Running
<1>2. Hands(w, "close") /\ UNCHANGED <<job, item, queue, cli, lost>>
    BY GotoHands DEF NoOcrTarget, Goto
<1>3. chunk' = [chunk EXCEPT ![k] = "FAILED"]
    BY DEF NoOcrTarget
<1>4. \A c \in Chunks : chunk'[c] = chunk[c] \/ (c = k /\ chunk'[c] = "FAILED")
    BY <1>3 DEF TypeOK, RowTypes
<1>5. chunk'[k] = "FAILED"
    BY <1>1, <1>3 DEF TypeOK, RowTypes
<1> QED BY <1>1, <1>2, <1>4, <1>5, StayMail, WorkerLosesNothing
        DEF LostInv, CarryInv, Working, PrepSteps, Open

LEMMA PageStopLosesNothing ==
    ASSUME TypeOK, LostInv, NEW w \in Workers, PageStop(w) PROVE LostInv'
<1> PICK k : k = msg[w].id
    OBVIOUS
<1>1. pc[w] = "page" /\ k \in Chunks /\ chunk[k] # "IN_PROGRESS"
    BY TaskChunk DEF PageStop, Running, ChunkIsCancelled, LostInv, CarryInv
<1>2. Hands(w, "idle") /\ UNCHANGED <<job, item, chunk, queue, cli, lost>>
    BY LeaveHands DEF PageStop, rows
<1> QED BY <1>1, <1>2, StayMail, WorkerLosesNothing DEF LostInv, CarryInv, Working, PrepSteps

LEMMA WorkingLosesNothing ==
    ASSUME TypeOK, LostInv, NEW w \in Workers, NEW l \in Working, pc[w] \in Working,
           pc' = [pc EXCEPT ![w] = l], UNCHANGED <<msg, job, item, chunk, queue, cli, lost>>
    PROVE  LostInv'
<1> PICK k : k = msg[w].id
    OBVIOUS
<1>1. Hands(w, l)
    BY GotoHands
<1> QED BY <1>1, StayMail, WorkerLosesNothing DEF LostInv, CarryInv, Working, PrepSteps

LEMMA PageLosesNothing ==
    ASSUME TypeOK, LostInv, NEW w \in Workers,
           \/ PageLook(w) \/ PageStart(w) \/ OcrFails(w)
           \/ SaveEngineTrack(w) \/ SaveDefaultTrack(w) \/ PageDone(w)
    PROVE  LostInv'
<1>0. CASE PageLook(w)
    BY <1>0, WorkingLosesNothing DEF PageLook, Running, Working, Goto, rows
<1>1. CASE PageStart(w)
    <2>1. pc[w] = "start" /\ UNCHANGED <<msg, job, item, chunk, queue, cli, lost>>
        BY <1>1 DEF PageStart, Running
    <2>2. pc' = [pc EXCEPT ![w] = "page"] \/ pc' = [pc EXCEPT ![w] = "ocr"]
        BY <1>1 DEF PageStart
    <2> QED BY <2>1, <2>2, WorkingLosesNothing DEF Working
<1>2. CASE OcrFails(w)
    BY <1>2, WorkingLosesNothing DEF OcrFails, Running, Working
<1>3. CASE SaveEngineTrack(w)
    BY <1>3, WorkingLosesNothing DEF SaveEngineTrack, Running, Working, Goto
<1>4. CASE SaveDefaultTrack(w)
    BY <1>4, WorkingLosesNothing DEF SaveDefaultTrack, Running, Working, Goto
<1>5. CASE PageDone(w)
    BY <1>5, WorkingLosesNothing DEF PageDone, Running, Working
<1> QED BY <1>0, <1>1, <1>2, <1>3, <1>4, <1>5

LEMMA WorkFailsLosesNothing ==
    ASSUME TypeOK, LostInv, NEW w \in Workers, WorkFails(w) PROVE LostInv'
<1> PICK k, m : k = msg[w].id /\ m = msg[w]
    OBVIOUS
<1>1. pc[w] \in {"ocr", "save", "mark"} /\ k \in Chunks /\ chunk[k] # "NONE" /\ m \in ChunkMsg
    BY TaskChunk DEF WorkFails
<1>2. UNCHANGED <<job, item, cli, lost>>
    BY DEF WorkFails
<1>3. CASE m.tries < MaxRetries
    <2>1. Hands(w, "idle") /\ chunk' = [chunk EXCEPT ![k] = "PENDING"]
          /\ queue' = Sent(queue, {Retried(m)})
        BY <1>1, <1>3, LeaveHands, MessageFields DEF WorkFails
    <2>2. Retried(m) \in ChunkMsg /\ Retried(m).id = k
        BY <1>1, <1>3, RetriedMessage
    <2>3. /\ {Retried(m)} \subseteq Message
          /\ \A x \in {Retried(m)} \cap ChunkMsg : chunk[x.id] # "NONE"
        BY <1>1, <2>2, MessageFields
    <2>4. /\ \A x \in Message : queue[x] > 0 => queue'[x] > 0
          /\ \A x \in ChunkMsg : queue'[x] > 0 => chunk[x.id] # "NONE"
        BY <2>1, <2>3, WorkerMail
    <2>5. Offered(k)'
        BY <2>1, <2>2, <2>3, MailSent DEF Offered
    <2>6. \A c \in Chunks : chunk'[c] = chunk[c] \/ (c = k /\ chunk'[c] = "PENDING")
        BY <2>1 DEF TypeOK, RowTypes
    <2>7. \A c \in Chunks :
             \/ chunk'[c] = chunk[c]
             \/ chunk[c] # "NONE" /\ chunk'[c] # "NONE" /\ Offered(c)'
        BY <1>1, <2>5, <2>6
    <2>8. job' # "CANCELLED" /\ pc[w] # "claim" /\ pc[w] \notin PrepSteps
        BY <1>1, <1>2 DEF LostInv, CarryInv, PrepSteps
    <2>9. Hands(w, "idle") /\ pc[w] # "idle" /\ k = msg[w].id /\ UNCHANGED cli
        BY <1>1, <1>2, <2>1
    <2>10. (\A i \in Items : item'[i] = item[i]) /\ lost \subseteq lost'
        BY <1>2
    <2> QED BY <2>4, <2>5, <2>7, <2>8, <2>9, <2>10, WorkerLosesNothing
<1>4. CASE m.tries >= MaxRetries
    <2>1. Hands(w, "close") /\ chunk' = [chunk EXCEPT ![k] = "FAILED"] /\ UNCHANGED queue
        BY <1>1, <1>4, GotoHands, MessageFields DEF WorkFails, Goto
    <2>2. \A c \in Chunks : chunk'[c] = chunk[c] \/ (c = k /\ chunk'[c] = "FAILED")
        BY <2>1 DEF TypeOK, RowTypes
    <2>3. chunk'[k] = "FAILED"
        BY <1>1, <2>1 DEF TypeOK, RowTypes
    <2> QED BY <1>1, <1>2, <2>1, <2>2, <2>3, StayMail, WorkerLosesNothing
            DEF LostInv, CarryInv, Working, PrepSteps, Open
<1> QED BY <1>1, <1>3, <1>4, MessageFields

LEMMA FinishLosesNothing ==
    ASSUME TypeOK, LostInv, NEW w \in Workers, Finish(w) PROVE LostInv'
<1> PICK k : k = msg[w].id
    OBVIOUS
<1>1. pc[w] = "page" /\ k \in Chunks /\ chunk[k] # "NONE"
    BY TaskChunk DEF Finish, Running
<1>2. UNCHANGED <<job, item, queue, cli, lost>>
    BY DEF Finish
<1>3. CASE chunk[k] = "IN_PROGRESS"
    <2>1. Hands(w, "close")
        BY <1>3, GotoHands DEF Finish, Goto
    <2>2. PICK s \in {"FAILED", "COMPLETED"} : chunk' = [chunk EXCEPT ![k] = s]
        BY <1>3 DEF Finish
    <2>3. \A c \in Chunks : chunk'[c] = chunk[c] \/ (c = k /\ chunk'[c] = s)
        BY <2>2 DEF TypeOK, RowTypes
    <2>4. chunk'[k] = s
        BY <1>1, <2>2 DEF TypeOK, RowTypes
    <2> QED BY <1>1, <1>2, <2>1, <2>3, <2>4, StayMail, WorkerLosesNothing
            DEF LostInv, CarryInv, Working, PrepSteps, Open
<1>4. CASE chunk[k] # "IN_PROGRESS"
    <2>1. Hands(w, "idle") /\ UNCHANGED chunk
        BY <1>4, LeaveHands DEF Finish
    <2> QED BY <1>1, <1>2, <1>4, <2>1, StayMail, WorkerLosesNothing
            DEF LostInv, CarryInv, Working, PrepSteps
<1> QED BY <1>3, <1>4

LEMMA FinalizeItemLosesNothing ==
    ASSUME TypeOK, LostInv, NEW w \in Workers, FinalizeItem(w) PROVE LostInv'
<1> PICK k, i : k = msg[w].id /\ i = ItemOf[k]
    OBVIOUS
<1>1. pc[w] = "close" /\ k \in Chunks /\ i \in Items /\ ItemOfTask(w) = i
    BY TaskChunk DEF FinalizeItem, Running, ItemOfTask
<1>2. UNCHANGED <<job, item, chunk, queue, cli, lost>>
    BY DEF FinalizeItem, rows
<1> DEFINE existing == {c \in ChunksOf(i) : chunk[c] # "NONE"}
<1>3. CASE (\A c \in existing : chunk[c] \in Terminal) /\ \E c \in existing : chunk[c] = "COMPLETED"
    <2>1. Hands(w, "seal")
        BY <1>1, <1>3, GotoHands DEF FinalizeItem, Goto
    <2>2. \A c \in ChunksOf(i) : chunk[c] # "NONE"
        BY <1>3 DEF ChunksOf, LostInv, RowsInv
    <2>3. \A c \in ChunksOf(ItemOf[k]) : chunk'[c] \notin {"NONE", "PENDING"}
        BY <1>2, <1>3, <2>2 DEF Terminal
    <2> QED BY <1>1, <1>2, <2>1, <2>3, StayMail, WorkerLosesNothing
            DEF LostInv, CarryInv, Working, PrepSteps
<1>4. CASE ~((\A c \in existing : chunk[c] \in Terminal) /\ \E c \in existing : chunk[c] = "COMPLETED")
    <2>1. PICK l \in {"sealfailed", "idle"} : Hands(w, l)
        BY <1>1, <1>4, GotoHands, LeaveHands DEF FinalizeItem, Goto
    <2> QED BY <1>1, <1>2, <2>1, StayMail, WorkerLosesNothing
            DEF LostInv, CarryInv, Working, PrepSteps
<1> QED BY <1>3, <1>4

LEMMA SealLosesNothing ==
    ASSUME TypeOK, LostInv, NEW w \in Workers, SealItem(w) PROVE LostInv'
<1> PICK k, i : k = msg[w].id /\ i = ItemOf[k]
    OBVIOUS
<1>1. pc[w] \in {"seal", "sealfailed"} /\ i \in Items /\ ItemOfTask(w) = i
    BY MessageFields DEF SealItem, ItemOfTask, TypeOK, WorkerTypes
<1>2. Hands(w, "ask") /\ UNCHANGED <<job, chunk, queue, cli, lost>>
    BY GotoHands DEF SealItem, Goto
<1>3. CASE pc[w] = "seal"
    <2>1. item' = [item EXCEPT ![i] = "COMPLETED"]
        BY <1>1, <1>3 DEF SealItem
    <2>2. ASSUME NEW c \in ChunksOf(i)
          PROVE  chunk[c] # "NONE" /\ (chunk'[c] = "PENDING" => Offered(c)' \/ Lost(c)')
        <3>1. chunk[c] # "NONE" /\ (chunk[c] = "PENDING" => Offered(c) \/ Lost(c))
            BY <1>3, <2>2 DEF LostInv, SealInv
        <3>2. Offered(c) => Offered(c)'
            BY <1>1, <1>2 DEF Offered, Hands
        <3>3. Lost(c) => Lost(c)'
            BY <1>2 DEF Lost
        <3> QED BY <1>2, <3>1, <3>2, <3>3
    <2>3. \A j \in Items : item'[j] = item[j] \/ j = i
        BY <2>1 DEF TypeOK, RowTypes
    <2>4. \A j \in Items : item'[j] = item[j]
             \/ \A c \in ChunksOf(j) :
                   chunk[c] # "NONE" /\ (chunk'[c] = "PENDING" => Offered(c)' \/ Lost(c)')
        BY <2>2, <2>3
    <2> QED BY <1>2, <1>3, <2>4, StayMail, WorkerLosesNothing
            DEF LostInv, CarryInv, Working, PrepSteps
<1>4. CASE pc[w] = "sealfailed"
    <2>1. item' = [item EXCEPT ![i] = "FAILED"]
        BY <1>1, <1>4 DEF SealItem
    <2>2. \A j \in Items : item'[j] = item[j] \/ item'[j] = "FAILED"
        BY <2>1 DEF TypeOK, RowTypes
    <2> QED BY <1>2, <1>4, <2>2, StayMail, WorkerLosesNothing
            DEF LostInv, CarryInv, Working, PrepSteps
<1> QED BY <1>1, <1>3, <1>4

LEMMA VerdictLosesNothing ==
    ASSUME TypeOK, LostInv, NEW w \in Workers,
           AskExtraction(w) \/ FinalizeJob(w) \/ JudgeJob(w)
    PROVE  LostInv'
<1> PICK k : k = msg[w].id
    OBVIOUS
<1>1. pc[w] \in {"ask", "look", "judge", "judgefailed"}
      /\ UNCHANGED <<item, chunk, queue, cli, lost>>
    BY DEF AskExtraction, FinalizeJob, JudgeJob, Running, rows
<1>2. job' # "CANCELLED"
    BY DEF AskExtraction, FinalizeJob, JudgeJob, LostInv, CarryInv, rows
<1>3. PICK l \in {"look", "judge", "judgefailed", "idle"} : Hands(w, l)
    BY GotoHands, LeaveHands DEF AskExtraction, FinalizeJob, JudgeJob, Goto
<1>4. /\ pc[w] # "idle" /\ pc[w] # "claim" /\ pc[w] \notin Working /\ pc[w] \notin PrepSteps
      /\ l # "dispatch" /\ l # "claim" /\ l # "seal"
    BY <1>1, <1>3 DEF Working, PrepSteps
<1> QED BY <1>1, <1>2, <1>3, <1>4, StayMail, WorkerLosesNothing

(* A message goes back or is lost with its worker.                          *)
LEMMA RepeatLosesNothing ==
    ASSUME TypeOK, LostInv, NEW w \in Workers, Crash(w) \/ ChildKilled(w) \/ Redeliver(w)
    PROVE  LostInv'
<1> PICK k, m : k = msg[w].id /\ m = msg[w]
    OBVIOUS
<1>1. pc[w] # "idle" /\ m \in Message /\ (m \in ChunkMsg => chunk[m.id] # "NONE")
    BY DEF Crash, ChildKilled, Redeliver, TypeOK, WorkerTypes, LostInv, RowsInv
<1>2. UNCHANGED <<job, item, chunk, cli>> /\ lost \subseteq lost'
    BY DEF Crash, ChildKilled, Redeliver, rows
<1>3. {m} \subseteq Message /\ \A x \in {m} \cap ChunkMsg : chunk[x.id] # "NONE"
    BY <1>1
<1>4. queue' = Sent(queue, {m}) \/ (UNCHANGED queue /\ k \in lost')
    BY <1>2 DEF Crash, ChildKilled, Redeliver
<1>5. /\ \A x \in Message : queue[x] > 0 => queue'[x] > 0
      /\ \A x \in ChunkMsg : queue'[x] > 0 => chunk[x.id] # "NONE"
    BY <1>3, <1>4, WorkerMail, StayMail
<1>6. queue'[m] > 0 \/ k \in lost'
    BY <1>1, <1>4, MailSent
<1>7. pc[w] \in {"claim"} \cup Working => Offered(k)' \/ k \in lost'
    BY <1>6 DEF Offered, TypeOK, WorkerTypes
<1>8. pc[w] \in PrepSteps => Prepared(k)' \/ k \in lost'
    BY <1>6 DEF Prepared, TypeOK, WorkerTypes
<1>9. PICK l : Hands(w, l) /\ l \in {"idle", pc[w]}
    BY LeaveHands DEF Crash, ChildKilled, Redeliver, workers, Hands
<1>10. job' # "CANCELLED" /\ UNCHANGED cli
    BY <1>2 DEF LostInv, CarryInv
<1>11. (\A c \in Chunks : chunk'[c] = chunk[c]) /\ (\A i \in Items : item'[i] = item[i])
    BY <1>2
<1>12. \A s \in {"dispatch", "claim", "seal"} : l = s => pc[w] = s
    BY <1>9
<1> QED BY <1>1, <1>2, <1>5, <1>7, <1>8, <1>9, <1>10, <1>11, <1>12, WorkerLosesNothing

-----------------------------------------------------------------------------
(* The operator, time, and what a worker receives *)

LEMMA CommandLosesNothing ==
    ASSUME TypeOK, LostInv, UNCHANGED <<pc, msg, lost>>, cli'.left \subseteq Chunks,
           job' # "CANCELLED", cli'.on \/ cli'.left = {},
           \A m \in Message : queue[m] > 0 => queue'[m] > 0,
           \A m \in ChunkMsg : queue'[m] > 0 => chunk[m.id] # "NONE",
           \A c \in Chunks : \/ chunk'[c] = chunk[c]
                            \/ /\ chunk[c] # "NONE" /\ chunk'[c] = "PENDING"
                               /\ Offered(c)',
           \A c \in cli'.left : chunk[c] # "NONE",
           \A c \in Chunks : ItemOf[c] \in cli'.dirty => chunk[c] # "NONE",
           \A i \in Items : item'[i] = "COMPLETED" => item[i] = "COMPLETED",
           \A c \in Chunks : chunk[c] = "PENDING" /\ Awaited(c) => Offered(c)' \/ Awaited(c)'
    PROVE  LostInv'
<1>1. \A c \in Chunks : chunk'[c] = "NONE" <=> chunk[c] = "NONE"
    OBVIOUS
<1>2. RowsInv'
    <2>1. \A m \in ChunkMsg : m.id \in Chunks
        BY MessageFields
    <2>2. \A w \in Workers :
             /\ pc'[w] = "dispatch" => \A c \in ChunksOf(msg'[w].id) : chunk'[c] # "NONE"
             /\ pc'[w] # "idle" /\ msg'[w] \in ChunkMsg => chunk'[msg'[w].id] # "NONE"
        BY <1>1, <2>1 DEF LostInv, RowsInv, ChunksOf
    <2>3. \A c \in Chunks : item'[ItemOf[c]] = "COMPLETED" => chunk'[c] # "NONE"
        BY <1>1 DEF LostInv, RowsInv
    <2> QED BY <1>1, <2>1, <2>2, <2>3 DEF LostInv, RowsInv, ChunksOf
<1>3. \A c \in Chunks : Offered(c) => Offered(c)'
    BY MessageFields DEF Offered
<1>4. \A c \in Chunks : WorkersOn(c)' = WorkersOn(c)
    BY DEF WorkersOn
<1>7. \A c \in Chunks : Lost(c)' <=> Lost(c)
    BY DEF Lost
<1>5. ASSUME NEW c \in Chunks, chunk'[c] = "IN_PROGRESS"
      PROVE  Offered(c)' \/ WorkersOn(c)' # {} \/ Lost(c)'
    BY <1>3, <1>4, <1>5, <1>7 DEF LostInv, CarryInv
<1>6. ASSUME NEW c \in Chunks, chunk'[c] = "PENDING"
      PROVE  Offered(c)' \/ Awaited(c)' \/ Lost(c)'
    BY <1>3, <1>6, <1>7 DEF LostInv, CarryInv
<1>8. SealInv'
    BY <1>1, <1>3, <1>7, SealKept DEF LostInv
<1> QED BY <1>2, <1>5, <1>6, <1>8 DEF LostInv, CarryInv

LEMMA StillPrepared ==
    ASSUME UNCHANGED <<pc, msg>>, \A m \in Message : queue[m] > 0 => queue'[m] > 0,
           NEW i \in Items, Prepared(i)
    PROVE  Prepared(i)'
    BY MessageFields DEF Prepared

LEMMA QuietLosesNothing ==
    ASSUME TypeOK, LostInv, UNCHANGED <<job, item, chunk, queue, workers, cli, lost>>
    PROVE  LostInv'
    BY DEF LostInv, RowsInv, CarryInv, SealInv, Offered, Prepared, Awaited, Lost, WorkersOn,
       workers

LEMMA BeginLosesNothing ==
    ASSUME TypeOK, LostInv, NEW f \in Forces, RetryBegin(f) PROVE LostInv'
<1>1. UNCHANGED <<job, item, chunk, queue, pc, msg, lost>> /\ ~cli.on /\ cli.left = {}
    BY DEF RetryBegin, rows, workers, LostInv, CarryInv
<1>2. cli'.on /\ cli'.left = {} /\ cli'.dirty = {JobRow}
    BY DEF RetryBegin
<1>3. \A c \in Chunks : ItemOf[c] \notin cli'.dirty
    BY <1>2
<1>4. \A c \in Chunks : Awaited(c) => Awaited(c)'
    BY <1>1, <1>3 DEF Awaited, Prepared
<1> QED BY <1>1, <1>2, <1>3, <1>4, StayMail, CommandLosesNothing DEF LostInv, CarryInv

LEMMA OpenLosesNothing ==
    ASSUME TypeOK, LostInv, NEW i \in Items, RetryOpen(i) PROVE LostInv'
<1>1. UNCHANGED <<job, item, chunk, queue, pc, msg, lost>> /\ cli.on /\ cli.left = {}
    BY DEF RetryOpen, rows, workers
<1>2. /\ cli'.on /\ cli'.left = {c \in ChunksOf(i) : chunk[c] # "NONE"}
      /\ cli'.dirty = cli.dirty \cup {i}
    BY <1>1 DEF RetryOpen, TypeOK, OtherTypes
<1>3. \A c \in ChunksOf(i) : chunk[c] # "NONE"
    BY DEF RetryOpen, HasRows, ChunksOf, LostInv, RowsInv
<1>4. cli'.left = ChunksOf(i)
    BY <1>2, <1>3
<1>5. \A c \in Chunks : ItemOf[c] \in cli'.dirty => chunk[c] # "NONE"
    BY <1>2, <1>3 DEF ChunksOf, LostInv, RowsInv
<1>6. ASSUME NEW c \in Chunks, Awaited(c) PROVE Awaited(c)'
    <2>1. CASE ItemOf[c] = i
        BY <1>1, <1>4, <1>6, <2>1 DEF Awaited, ChunksOf
    <2>2. CASE ItemOf[c] # i
        BY <1>1, <1>2, <1>6, <2>2 DEF Awaited, Prepared
    <2> QED BY <2>1, <2>2
<1> QED BY <1>1, <1>2, <1>3, <1>4, <1>5, <1>6, StayMail, CommandLosesNothing
        DEF LostInv, CarryInv, ChunksOf

LEMMA FlushedFacts ==
    ASSUME TypeOK, LostInv, FlushJob
    PROVE  /\ job' # "CANCELLED"
           /\ \A i \in Items : FlushedItems[i] = IF i \in cli.dirty THEN "IN_PROGRESS" ELSE item[i]
    BY DEF LostInv, CarryInv, FlushJob, FlushedItems

LEMMA PrepareLosesNothing ==
    ASSUME TypeOK, LostInv, NEW i \in Items, RetryPrepare(i) PROVE LostInv'
<1> PICK f \in BOOLEAN : f = cli.force
    BY DEF TypeOK, OtherTypes
<1> DEFINE n == NewItemMsg(i, f)
<1>1. UNCHANGED <<chunk, pc, msg, lost>> /\ cli.on /\ cli.left = {}
    BY DEF RetryPrepare, workers
<1>2. cli'.on /\ cli'.left = {} /\ cli'.dirty = {}
    BY <1>1 DEF RetryPrepare, TypeOK, OtherTypes
<1>3. n \in ItemMsg /\ n.id = i /\ n \notin ChunkMsg /\ n \in Message
    BY MessageFields DEF NewItemMsg, ItemMsg
<1>4. queue' = Sent(queue, {n})
    BY DEF RetryPrepare
<1> HIDE DEF n
<1>5. /\ \A m \in Message : queue[m] > 0 => queue'[m] > 0
      /\ \A m \in ChunkMsg : queue'[m] > 0 => chunk[m.id] # "NONE"
    <2>1. {n} \subseteq Message /\ \A x \in {n} \cap ChunkMsg : chunk[x.id] # "NONE"
        BY <1>3
    <2> QED BY <1>4, <2>1, WorkerMail
<1>6. Prepared(i)'
    BY <1>3, <1>4, MailSent DEF Prepared
<1>7. \A j \in Items : item'[j] = IF j = i THEN "PENDING"
                                 ELSE IF j \in cli.dirty THEN "IN_PROGRESS" ELSE item[j]
    BY FlushedFacts DEF RetryPrepare, FlushedItems
<1>8. job' # "CANCELLED"
    BY FlushedFacts DEF RetryPrepare
<1>9. ASSUME NEW c \in Chunks, Awaited(c) PROVE Awaited(c)'
    <2> PICK j \in Items : j = ItemOf[c]
        OBVIOUS
    <2>1. j \notin cli.dirty /\ item[j] # "COMPLETED" /\ (Prepared(j) \/ item[j] = "FAILED")
        BY <1>1, <1>9 DEF Awaited
    <2>2. Prepared(j) => Prepared(j)'
        BY <1>1, <1>5, StillPrepared
    <2>3. item'[j] # "COMPLETED" /\ (Prepared(j)' \/ item'[j] = "FAILED")
        BY <1>6, <1>7, <2>1, <2>2
    <2>4. j \notin cli'.dirty
        BY <1>2
    <2> QED BY <2>3, <2>4 DEF Awaited, Prepared
<1> QED BY <1>1, <1>2, <1>5, <1>7, <1>8, <1>9, CommandLosesNothing

LEMMA ResetLosesNothing ==
    ASSUME TypeOK, LostInv, NEW c \in Chunks, RetryChunk(c) PROVE LostInv'
<1> PICK f \in BOOLEAN : f = cli.force
    BY DEF TypeOK, OtherTypes
<1> DEFINE n == NewChunkMsg(c, f)
<1>1. UNCHANGED <<pc, msg, lost>> /\ cli.on /\ c \in cli.left /\ chunk[c] # "NONE"
    BY DEF RetryChunk, workers, LostInv, RowsInv
<1>2. cli'.on /\ cli'.left = cli.left \ {c} /\ cli'.dirty = {} /\ cli.left \subseteq Chunks
    BY <1>1 DEF RetryChunk, TypeOK, OtherTypes
<1>3. n \in ChunkMsg /\ n.id = c /\ n \in Message
    BY MessageFields DEF NewChunkMsg, ChunkMsg
<1>4. queue' = Sent(queue, {n})
    BY DEF RetryChunk
<1> HIDE DEF n
<1>5. /\ \A m \in Message : queue[m] > 0 => queue'[m] > 0
      /\ \A m \in ChunkMsg : queue'[m] > 0 => chunk[m.id] # "NONE"
    <2>1. {n} \subseteq Message /\ \A x \in {n} \cap ChunkMsg : chunk[x.id] # "NONE"
        BY <1>1, <1>3
    <2> QED BY <1>4, <2>1, WorkerMail
<1>6. Offered(c)'
    BY <1>3, <1>4, MailSent DEF Offered
<1>7. \A j \in Items : item'[j] = IF j \in cli.dirty THEN "IN_PROGRESS" ELSE item[j]
    BY FlushedFacts DEF RetryChunk
<1>8. job' # "CANCELLED"
    BY FlushedFacts DEF RetryChunk
<1>9. \A d \in Chunks : chunk'[d] = IF d = c THEN "PENDING" ELSE chunk[d]
    BY DEF RetryChunk, TypeOK, RowTypes
<1>10. ASSUME NEW d \in Chunks, Awaited(d) PROVE Offered(d)' \/ Awaited(d)'
    <2> PICK j \in Items : j = ItemOf[d]
        OBVIOUS
    <2>1. /\ item[j] # "COMPLETED"
          /\ d \in cli.left \/ (j \notin cli.dirty /\ (Prepared(j) \/ item[j] = "FAILED"))
        BY <1>10 DEF Awaited
    <2>2. Prepared(j) => Prepared(j)'
        BY <1>1, <1>5, StillPrepared
    <2>3. CASE d = c
        BY <1>6, <2>3
    <2>4. CASE d # c
        <3>1. d \in cli'.left \/ (j \notin cli'.dirty /\ (Prepared(j)' \/ item'[j] = "FAILED"))
            BY <1>2, <1>7, <2>1, <2>2, <2>4
        <3>2. item'[j] # "COMPLETED"
            BY <1>7, <2>1
        <3> QED BY <3>1, <3>2 DEF Awaited, Prepared
    <2> QED BY <2>3, <2>4
<1>11. \A d \in Chunks : \/ chunk'[d] = chunk[d]
                         \/ /\ chunk[d] # "NONE" /\ chunk'[d] = "PENDING"
                            /\ Offered(d)'
    BY <1>1, <1>6, <1>9
<1>12. \A d \in cli'.left : chunk[d] # "NONE"
    BY <1>2 DEF LostInv, RowsInv
<1> QED BY <1>1, <1>2, <1>5, <1>7, <1>8, <1>10, <1>11, <1>12, CommandLosesNothing

LEMMA SkipLosesNothing ==
    ASSUME TypeOK, LostInv, NEW c \in Chunks, RetrySkip(c) PROVE LostInv'
<1>1. UNCHANGED <<job, item, chunk, queue, pc, msg, lost>> /\ cli.on /\ chunk[c] # "PENDING"
    BY DEF RetrySkip, rows, workers
<1>2. /\ cli'.on /\ cli'.left = cli.left \ {c} /\ cli'.dirty = cli.dirty
      /\ cli.left \subseteq Chunks
    BY <1>1 DEF RetrySkip, TypeOK, OtherTypes
<1>3. \A d \in Chunks : chunk[d] = "PENDING" /\ Awaited(d) => Awaited(d)'
    BY <1>1, <1>2 DEF Awaited, Prepared
<1>4. \A d \in cli'.left : chunk[d] # "NONE"
    BY <1>2 DEF LostInv, RowsInv
<1>5. \A d \in Chunks : ItemOf[d] \in cli'.dirty => chunk[d] # "NONE"
    BY <1>2 DEF LostInv, RowsInv
<1> QED BY <1>1, <1>2, <1>3, <1>4, <1>5, StayMail, CommandLosesNothing DEF LostInv, CarryInv

LEMMA EndLosesNothing ==
    ASSUME TypeOK, LostInv, RetryEnd PROVE LostInv'
<1>1. UNCHANGED <<chunk, queue, pc, msg, lost>> /\ cli.left = {}
    BY DEF RetryEnd, workers
<1>2. cli'.left = {} /\ cli'.dirty = {}
    BY DEF RetryEnd, IdleCli
<1>3. \A j \in Items : item'[j] = IF j \in cli.dirty THEN "IN_PROGRESS" ELSE item[j]
    BY FlushedFacts DEF RetryEnd
<1>4. job' # "CANCELLED"
    BY FlushedFacts DEF RetryEnd
<1>5. ASSUME NEW c \in Chunks, Awaited(c) PROVE Awaited(c)'
    <2>1. ItemOf[c] \notin cli.dirty
        BY <1>1, <1>5 DEF Awaited
    <2> QED BY <1>1, <1>2, <1>3, <1>5, <2>1 DEF Awaited, Prepared
<1> QED BY <1>1, <1>2, <1>3, <1>4, <1>5, StayMail, CommandLosesNothing

LEMMA PrepTakeLosesNothing ==
    ASSUME TypeOK, LostInv, NEW w \in Workers, NEW m \in Message, PrepTake(w, m) PROVE LostInv'
<1>1. pc[w] = "idle" /\ m \in ItemMsg /\ m.id \in Items /\ UNCHANGED <<job, chunk, cli, lost>>
    BY MessageFields DEF PrepTake, rows
<1>2. \A x \in Message : (queue'[x] > 0 => queue[x] > 0) /\ (x # m => queue'[x] = queue[x])
    BY MailTaken DEF PrepTake
<1>3. \A x \in ChunkMsg : queue'[x] = queue[x]
    BY <1>1, <1>2, MessageFields
<1>4. CASE item[m.id] \in Terminal
    <2>1. UNCHANGED <<item, pc, msg>>
        BY <1>4 DEF PrepTake, rows, workers
    <2>2. \A i \in Items : Prepared(i) => Prepared(i)' \/ i = m.id
        BY <1>2, <2>1, MessageFields DEF Prepared
    <2>3. item[m.id] \in {"COMPLETED", "FAILED"}
        BY <1>1, <1>4 DEF TypeOK, RowTypes, ItemStatus, Terminal
    <2>4. \A c \in Chunks : Awaited(c) => Awaited(c)'
        BY <1>1, <2>1, <2>2, <2>3 DEF Awaited, Prepared
    <2>5. \A c \in Chunks : Offered(c)' = Offered(c) /\ WorkersOn(c)' = WorkersOn(c)
        BY <1>3, <2>1 DEF Offered, WorkersOn
    <2>6. RowsInv'
        BY <1>1, <1>3, <2>1 DEF LostInv, RowsInv
    <2>7. SealInv'
        BY <1>1, <2>1, <2>5, SealKept DEF LostInv, Lost
    <2> QED BY <1>1, <2>4, <2>5, <2>6, <2>7 DEF LostInv, CarryInv, Lost
<1>5. CASE item[m.id] \notin Terminal
    <2>1. item' = [item EXCEPT ![m.id] = "IN_PROGRESS"]
        BY <1>5 DEF PrepTake, rows
    <2>2. PICK l \in {"extract", "render"} : pc' = [pc EXCEPT ![w] = l]
        BY <1>5 DEF PrepTake, workers
    <2>3. msg' = [msg EXCEPT ![w] = m]
        BY <1>5 DEF PrepTake, workers
    <2>4. /\ pc'[w] = l /\ msg'[w] = m
          /\ \A v \in Workers \ {w} : pc'[v] = pc[v] /\ msg'[v] = msg[v]
        BY <2>2, <2>3 DEF TypeOK, WorkerTypes
    <2>5. Prepared(m.id)'
        BY <2>2, <2>4 DEF Prepared, PrepSteps
    <2>6. ASSUME NEW i \in Items, Prepared(i) PROVE Prepared(i)' \/ i = m.id
        <3>1. CASE \E x \in ItemMsg : x.id = i /\ queue[x] > 0
            BY <1>2, <3>1, MessageFields DEF Prepared
        <3>2. CASE \E v \in Workers : pc[v] \in PrepSteps /\ msg[v].id = i
            <4>1. PICK v \in Workers : pc[v] \in PrepSteps /\ msg[v].id = i
                BY <3>2
            <4>2. v # w
                BY <1>1, <4>1 DEF PrepSteps
            <4> QED BY <2>4, <4>1, <4>2 DEF Prepared
        <3> QED BY <2>6, <3>1, <3>2 DEF Prepared
    <2>7. \A i \in Items : item'[i] = item[i] \/ i = m.id
        BY <2>1 DEF TypeOK, RowTypes
    <2>8. item'[m.id] = "IN_PROGRESS"
        BY <1>1, <2>1 DEF TypeOK, RowTypes
    <2>9. ASSUME NEW c \in Chunks, Awaited(c) PROVE Awaited(c)'
        <3> PICK j \in Items : j = ItemOf[c]
            OBVIOUS
        <3>1. item'[j] # "COMPLETED"
            BY <2>7, <2>8, <2>9 DEF Awaited
        <3>2. Prepared(j) \/ item[j] = "FAILED" => Prepared(j)' \/ item'[j] = "FAILED"
            BY <2>5, <2>6, <2>7
        <3>3. c \in cli.left \/ (j \notin cli.dirty /\ (Prepared(j) \/ item[j] = "FAILED"))
            BY <2>9 DEF Awaited
        <3> QED BY <1>1, <3>1, <3>2, <3>3 DEF Awaited, Prepared
    <2>10. \A c \in Chunks : (Offered(c) => Offered(c)') /\ WorkersOn(c) \subseteq WorkersOn(c)'
        BY <1>1, <1>3, <2>4 DEF Offered, WorkersOn, Working
    <2>11. RowsInv'
        <3>1. \A v \in Workers :
                 /\ pc'[v] = "dispatch" => pc[v] = "dispatch" /\ msg'[v] = msg[v]
                 /\ pc'[v] # "idle" /\ msg'[v] \in ChunkMsg => pc[v] # "idle" /\ msg'[v] = msg[v]
            BY <1>1, <2>2, <2>4, MessageFields
        <3>2. \A v \in Workers :
                 /\ pc'[v] = "dispatch" => \A c \in ChunksOf(msg'[v].id) : chunk'[c] # "NONE"
                 /\ pc'[v] # "idle" /\ msg'[v] \in ChunkMsg => chunk'[msg'[v].id] # "NONE"
            BY <1>1, <3>1 DEF LostInv, RowsInv
        <3>3. \A c \in Chunks : item'[ItemOf[c]] = "COMPLETED" => chunk'[c] # "NONE"
            BY <1>1, <2>7, <2>8 DEF LostInv, RowsInv
        <3> QED BY <1>1, <1>3, <3>2, <3>3 DEF LostInv, RowsInv, ChunksOf
    <2>12. \A c \in Chunks : Lost(c)' <=> Lost(c)
        BY <1>1 DEF Lost
    <2>13. \A c \in Chunks : chunk'[c] = "IN_PROGRESS" =>
               Offered(c)' \/ WorkersOn(c)' # {} \/ Lost(c)'
        BY <1>1, <2>10, <2>12 DEF LostInv, CarryInv
    <2>14. \A c \in Chunks : chunk'[c] = "PENDING" => Offered(c)' \/ Awaited(c)' \/ Lost(c)'
        BY <1>1, <2>9, <2>10, <2>12 DEF LostInv, CarryInv
    <2>15. \A v \in Workers : pc'[v] = "seal" => pc[v] = "seal" /\ msg'[v] = msg[v]
        BY <2>2, <2>4
    <2>16. SealInv'
        BY <1>1, <2>10, <2>12, <2>15, SealKept DEF LostInv
    <2> QED BY <1>1, <2>11, <2>13, <2>14, <2>16 DEF LostInv, CarryInv
<1> QED BY <1>4, <1>5

LEMMA ChunkTakeLosesNothing ==
    ASSUME TypeOK, LostInv, NEW w \in Workers, NEW m \in Message, ChunkTake(w, m) PROVE LostInv'
<1>1. /\ pc[w] = "idle" /\ m \in ChunkMsg /\ m.id \in Chunks /\ chunk[m.id] # "NONE"
      /\ UNCHANGED <<job, item, chunk, cli, lost>>
    BY MessageFields DEF ChunkTake, rows, LostInv, RowsInv
<1>2. \A x \in Message : (queue'[x] > 0 => queue[x] > 0) /\ (x # m => queue'[x] = queue[x])
    BY MailTaken DEF ChunkTake
<1>3. \A x \in ItemMsg : queue'[x] = queue[x]
    BY <1>1, <1>2, MessageFields
<1>4. \A v \in Workers : pc[v] # "idle" => pc'[v] = pc[v] /\ msg'[v] = msg[v]
    BY <1>1 DEF ChunkTake, workers, TypeOK, WorkerTypes
<1>5. \A v \in Workers : pc'[v] # "idle" =>
          \/ pc'[v] = pc[v] /\ msg'[v] = msg[v]
          \/ pc'[v] = "claim" /\ msg'[v] = m
    BY <1>1 DEF ChunkTake, workers, TypeOK, WorkerTypes
<1>6. chunk[m.id] \in Open => Offered(m.id)'
    <2> SUFFICES ASSUME chunk[m.id] \in Open PROVE Offered(m.id)'
        OBVIOUS
    <2>1. pc'[w] = "claim" /\ msg'[w] = m
        BY <1>1 DEF ChunkTake, workers, TypeOK, WorkerTypes, Open, LostInv, CarryInv
    <2> QED BY <2>1 DEF Offered
<1>7. ASSUME NEW c \in Chunks, Offered(c), chunk[c] \in Open PROVE Offered(c)'
    <2>1. CASE c = m.id
        BY <1>6, <1>7, <2>1 DEF Offered
    <2>2. CASE c # m.id
        BY <1>2, <1>4, <1>7, <2>2, MessageFields DEF Offered
    <2> QED BY <2>1, <2>2
<1>8. \A c \in Chunks : WorkersOn(c) \subseteq WorkersOn(c)'
    BY <1>4 DEF WorkersOn, Working
<1>9. \A i \in Items : Prepared(i) => Prepared(i)'
    BY <1>3, <1>4 DEF Prepared, PrepSteps
<1>10. \A c \in Chunks : Awaited(c) => Awaited(c)'
    BY <1>1, <1>9 DEF Awaited, Prepared
<1>11. RowsInv'
    BY <1>1, <1>2, <1>5, MessageFields DEF LostInv, RowsInv
<1>12. \A c \in Chunks : Lost(c)' <=> Lost(c)
    BY <1>1 DEF Lost
<1>13. \A c \in Chunks : chunk'[c] = "IN_PROGRESS" =>
           Offered(c)' \/ WorkersOn(c)' # {} \/ Lost(c)'
    BY <1>1, <1>7, <1>8, <1>12 DEF LostInv, CarryInv, Open
<1>14. \A c \in Chunks : chunk'[c] = "PENDING" => Offered(c)' \/ Awaited(c)' \/ Lost(c)'
    BY <1>1, <1>7, <1>10, <1>12 DEF LostInv, CarryInv, Open
<1>15. SealInv'
    <2>1. \A v \in Workers : pc'[v] = "seal" => pc[v] = "seal" /\ msg'[v] = msg[v]
        BY <1>5
    <2> QED BY <1>1, <1>7, <1>12, <2>1, SealKept DEF LostInv, Open
<1> QED BY <1>1, <1>11, <1>13, <1>14, <1>15 DEF LostInv, CarryInv

LEMMA RowsLoseNothing ==
    ASSUME TypeOK, LostInv, NEW w \in Workers, PrepRows(w) PROVE LostInv'
<1> PICK k : k = msg[w].id
    OBVIOUS
<1>1. pc[w] = "rows" /\ msg[w] \in ItemMsg /\ k \in Items
    BY MessageFields DEF TypeOK, WorkerTypes, PrepRows, Running, PrepSteps
<1>2. Hands(w, "dispatch") /\ UNCHANGED <<job, item, queue, cli, lost>>
    BY GotoHands DEF PrepRows, Goto
<1>3. \A c \in Chunks : chunk'[c] =
          IF ItemOf[c] = k /\ chunk[c] = "NONE" THEN "PENDING" ELSE chunk[c]
    BY DEF PrepRows
<1>4. Prepared(k)'
    BY <1>2 DEF Hands, Prepared, PrepSteps
<1>5. \A i \in Items : Prepared(i) => Prepared(i)'
    BY <1>2, <1>4 DEF Hands, Prepared, PrepSteps
<1>6. \A c \in Chunks : Awaited(c) => Awaited(c)'
    BY <1>2, <1>5 DEF Awaited, Prepared
<1>7. \A c \in Chunks : (Offered(c) => Offered(c)') /\ WorkersOn(c) \subseteq WorkersOn(c)'
    BY <1>1, <1>2 DEF Hands, Offered, WorkersOn, Working
<1>8. ASSUME NEW c \in Chunks, ItemOf[c] = k, chunk[c] = "NONE" PROVE Awaited(c)'
    BY <1>2, <1>4, <1>8 DEF Awaited, Prepared, LostInv, RowsInv
<1>9. \A c \in Chunks : chunk[c] # "NONE" => chunk'[c] # "NONE"
    BY <1>3
<1>10. RowsInv'
    <2>1. \A c \in ChunksOf(k) : chunk'[c] # "NONE"
        BY <1>3 DEF ChunksOf
    <2>2. \A v \in Workers :
             /\ pc'[v] = "dispatch" => \A c \in ChunksOf(msg'[v].id) : chunk'[c] # "NONE"
             /\ pc'[v] # "idle" /\ msg'[v] \in ChunkMsg => chunk'[msg'[v].id] # "NONE"
        BY <1>1, <1>2, <1>9, <2>1, MessageFields DEF Hands, LostInv, RowsInv, ChunksOf
    <2>3. \A c, d \in Chunks : ItemOf[c] = ItemOf[d] /\ chunk'[c] = "NONE" => chunk'[d] = "NONE"
        BY <1>3 DEF LostInv, RowsInv
    <2>4. cli.left \subseteq Chunks
        BY DEF TypeOK, OtherTypes
    <2> QED BY <1>2, <1>9, <2>2, <2>3, <2>4, MessageFields DEF LostInv, RowsInv, ChunksOf
<1>11. \A c \in Chunks : Lost(c)' <=> Lost(c)
    BY <1>2 DEF Lost
<1>12. \A c \in Chunks : chunk'[c] = "IN_PROGRESS" =>
           Offered(c)' \/ WorkersOn(c)' # {} \/ Lost(c)'
    BY <1>3, <1>7, <1>11 DEF LostInv, CarryInv
<1>13. \A c \in Chunks : chunk'[c] = "PENDING" => Offered(c)' \/ Awaited(c)' \/ Lost(c)'
    BY <1>3, <1>6, <1>7, <1>8, <1>11 DEF LostInv, CarryInv
<1>14. SealInv'
    <2>1. \A v \in Workers : pc'[v] = "seal" => pc[v] = "seal" /\ msg'[v] = msg[v]
        BY <1>2 DEF Hands
    <2> QED BY <1>3, <1>7, <1>9, <1>11, <2>1, SealKept DEF LostInv
<1> QED BY <1>2, <1>10, <1>12, <1>13, <1>14 DEF LostInv, CarryInv

-----------------------------------------------------------------------------
(* The invariant of the executions in which the operator does not cancel,   *)
(* or does not retry: a job that is over then stays over.                   *)
Unretried == budget.retry = MaxRetryCmds

SparedInv ==
    /\ budget.cancel <= MaxCancels /\ budget.retry <= MaxRetryCmds
    /\ NeverCancelled => LostInv
    /\ Unretried => ~cli.on /\ (job \in Terminal \/ LostInv)

LEMMA SparedInit == Init => SparedInv
<1> SUFFICES ASSUME Init PROVE SparedInv
    OBVIOUS
<1>1. budget.cancel <= MaxCancels /\ job # "CANCELLED" /\ cli.left = {} /\ cli.dirty = {}
    BY DEF Init, IdleCli
<1>2. (\A c \in Chunks : chunk[c] = "NONE") /\ (\A w \in Workers : pc[w] = "idle")
    BY DEF Init
<1>3. \A i \in Items : item[i] = "PENDING"
    BY DEF Init
<1>4. \A m \in ChunkMsg : ~(queue[m] > 0)
    <2> SUFFICES ASSUME NEW m \in ChunkMsg PROVE queue[m] = 0
        OBVIOUS
    <2>1. m \in Message /\ \A i \in Items : m # NewItemMsg(i, FALSE)
        BY MessageFields DEF NewItemMsg
    <2> QED BY <2>1 DEF Init
<1>5. \A c \in Chunks : ItemOf[c] \in Items
    OBVIOUS
<1>6. RowsInv
    BY <1>1, <1>2, <1>3, <1>4, <1>5 DEF RowsInv
<1>7. LostInv
    BY <1>1, <1>2, <1>6 DEF LostInv, CarryInv, SealInv
<1>8. budget.retry <= MaxRetryCmds /\ ~cli.on
    BY DEF Init, IdleCli
<1> QED BY <1>1, <1>7, <1>8 DEF SparedInv

(* Every step but a cancellation loses nothing.                             *)
LEMMA StepLosesNothing ==
    ASSUME TypeOK, LostInv, [Next]_vars, ~Cancel PROVE LostInv'
<1>1. ASSUME NEW m \in Message, Receive(m) PROVE LostInv'
    BY <1>1, PrepTakeLosesNothing, ChunkTakeLosesNothing DEF Receive
<1>2. ASSUME NEW w \in Workers, WorkerStep(w) PROVE LostInv'
    BY <1>2, RenderLosesNothing, ExtractedLosesNothing, RowsLoseNothing, DispatchLosesNothing,
       ClaimLosesNothing, RefusedLosesNothing, PageStopLosesNothing, PageLosesNothing,
       FinishLosesNothing, FinalizeItemLosesNothing, SealLosesNothing, VerdictLosesNothing
       DEF WorkerStep
<1>3. ASSUME NEW w \in Workers, WorkerFault(w) PROVE LostInv'
    BY <1>3, PrepFailsLosesNothing, NoTargetLosesNothing, PageLosesNothing,
       WorkFailsLosesNothing DEF WorkerFault
<1>4. ASSUME NEW w \in Workers, Crash(w) \/ ChildKilled(w) \/ Redeliver(w) PROVE LostInv'
    BY <1>4, RepeatLosesNothing
<1>5. ASSUME NEW c \in Chunks, LeaseLapses(c) PROVE LostInv'
    BY <1>5, QuietLosesNothing DEF LeaseLapses
<1>6. ASSUME NEW f \in Forces, RetryBegin(f) PROVE LostInv'
    BY <1>6, BeginLosesNothing
<1>7. ASSUME RetryStep PROVE LostInv'
    BY <1>7, OpenLosesNothing, PrepareLosesNothing, ResetLosesNothing, SkipLosesNothing,
       EndLosesNothing DEF RetryStep
<1>8. ASSUME UNCHANGED vars PROVE LostInv'
    BY <1>8, QuietLosesNothing DEF vars, rows
<1> QED BY <1>1, <1>2, <1>3, <1>4, <1>5, <1>6, <1>7, <1>8 DEF Next

(* The operator's budgets are spent by the commands and by nothing else,    *)
(* and nothing else starts a batch-retry.                                   *)
Spends ==
    /\ \/ Cancel /\ budget'.cancel = budget.cancel - 1
       \/ ~Cancel /\ budget'.cancel = budget.cancel
    /\ \/ budget'.retry = budget.retry - 1
       \/ budget'.retry = budget.retry /\ (~cli.on => ~cli'.on)

LEMMA RetryRuns == RetryStep => cli.on /\ budget' = budget
<1>1. ASSUME NEW i \in Items, RetryOpen(i) \/ RetryPrepare(i) PROVE cli.on /\ budget' = budget
    BY <1>1 DEF RetryOpen, RetryPrepare
<1>2. ASSUME NEW c \in Chunks, RetryChunk(c) \/ RetrySkip(c) PROVE cli.on /\ budget' = budget
    BY <1>2 DEF RetryChunk, RetrySkip
<1>3. RetryEnd => cli.on /\ budget' = budget
    BY DEF RetryEnd
<1> QED BY <1>1, <1>2, <1>3 DEF RetryStep

LEMMA CommandSpends == ASSUME TypeOK, [Next]_vars PROVE Spends
<1>1. ASSUME Cancel PROVE Spends
    BY <1>1 DEF Cancel, TypeOK, OtherTypes, Spends
<1>2. ASSUME ~Cancel PROVE Spends
    <2> DEFINE Idle == budget' = budget /\ cli'.on = cli.on
    <2>1. Idle => Spends
        BY <1>2 DEF Spends
    <2> HIDE DEF Idle
    <2>2. ASSUME NEW m \in Message, Receive(m) PROVE Idle
        BY <2>2 DEF Receive, PrepTake, ChunkTake, Idle
    <2>3. ASSUME NEW w \in Workers, WorkerStep(w) PROVE Idle
        BY <2>3 DEF WorkerStep, PrepRender, PrepExtracted, PrepRows, PrepDispatch, Claim,
           ClaimRefused, PageStop, PageLook, PageStart, SaveEngineTrack, SaveDefaultTrack,
           PageDone, Finish, FinalizeItem, SealItem, AskExtraction, FinalizeJob, JudgeJob, Idle
    <2>4. ASSUME NEW w \in Workers, WorkerFault(w) PROVE Idle
        BY <2>4 DEF WorkerFault, PrepFails, NoOcrTarget, OcrFails, WorkFails, Idle
    <2>5. ASSUME NEW w \in Workers, Crash(w) \/ ChildKilled(w) \/ Redeliver(w) PROVE Spends
        BY <1>2, <2>5 DEF Crash, ChildKilled, Redeliver, TypeOK, OtherTypes, Spends
    <2>6. ASSUME NEW c \in Chunks, LeaseLapses(c) PROVE Idle
        BY <2>6 DEF LeaseLapses, Idle
    <2>7. ASSUME NEW f \in Forces, RetryBegin(f) PROVE Spends
        BY <1>2, <2>7 DEF RetryBegin, TypeOK, OtherTypes, Spends
    <2>8. ASSUME RetryStep PROVE Spends
        BY <1>2, <2>8, RetryRuns DEF Spends
    <2>9. ASSUME UNCHANGED vars PROVE Idle
        BY <2>9 DEF vars, Idle
    <2> QED BY <1>2, <2>1, <2>2, <2>3, <2>4, <2>5, <2>6, <2>7, <2>8, <2>9 DEF Next
<1> QED BY <1>1, <1>2

LEMMA OverStays ==
    ASSUME job \in Terminal, ~cli.on, [Next]_vars PROVE job' \in Terminal
<1>1. ~Cancel
    BY DEF Cancel, Terminal
<1>2. ASSUME NEW w \in Workers, JudgeJob(w) PROVE job' \in Terminal
    BY <1>2 DEF JudgeJob, Terminal
<1> QED BY <1>1, <1>2, JobWriters DEF JobMoves

LEMMA SparedStep == TypeOK /\ SparedInv /\ [Next]_vars => SparedInv'
<1> SUFFICES ASSUME TypeOK, SparedInv, [Next]_vars PROVE SparedInv'
    OBVIOUS
<1>1. {budget.cancel, budget.retry, MaxCancels, MaxRetryCmds} \subseteq Nat
    BY DEF TypeOK, OtherTypes
<1>2. budget'.cancel <= MaxCancels /\ budget'.retry <= MaxRetryCmds
    BY <1>1, CommandSpends DEF SparedInv, Spends
<1>3. ASSUME NeverCancelled' PROVE LostInv'
    <2>1. budget'.cancel = MaxCancels
        BY <1>3 DEF NeverCancelled
    <2>2. ~Cancel /\ budget.cancel = MaxCancels
        BY <1>1, <2>1, CommandSpends DEF SparedInv, Spends
    <2> QED BY <2>2, StepLosesNothing DEF SparedInv, NeverCancelled
<1>4. ASSUME Unretried' PROVE ~cli'.on /\ (job' \in Terminal \/ LostInv')
    <2>1. budget'.retry = MaxRetryCmds
        BY <1>4 DEF Unretried
    <2>2. Unretried /\ ~cli'.on /\ ~cli.on
        BY <1>1, <2>1, CommandSpends DEF SparedInv, Spends, Unretried
    <2>3. CASE job \in Terminal
        BY <2>2, <2>3, OverStays
    <2>4. CASE Cancel
        BY <2>2, <2>4 DEF Cancel, Terminal
    <2>5. CASE LostInv /\ ~Cancel
        BY <2>2, <2>5, StepLosesNothing
    <2> QED BY <2>2, <2>3, <2>4, <2>5 DEF SparedInv
<1> QED BY <1>2, <1>3, <1>4 DEF SparedInv, NeverCancelled, Unretried

(* As long as the operator has not cancelled, a chunk is lost only with the *)
(* message or the verdict that NoLostChunk names: however many workers die, *)
(* messages come twice, leases lapse and task retries overlap.              *)
THEOREM WorkIsNotLost == Spec => []NoLostChunk
<1>1. IndInv /\ SparedInv /\ [Next]_vars => SparedInv'
    BY SparedStep DEF IndInv
<1>2. IndInv /\ SparedInv => NoLostChunk
    BY LostImplies DEF IndInv, SparedInv, NoLostChunk
<1> QED BY <1>1, <1>2, SparedInit, Invariance, PTL DEF Spec

-----------------------------------------------------------------------------
(* A job is not closed over an open document                                *)

(* A task in a worker's hands, and the messages of a document's preparation *)
(* and of the reading of its chunks.                                        *)
InHand(w, M) == pc[w] # "idle" /\ msg[w] \in M
Held(M) == (\E m \in M : queue[m] > 0) \/ (\E w \in Workers : InHand(w, M))
PrepsOf(i) == {m \in ItemMsg : m.id = i}
ReadsOf(i) == {m \in ChunkMsg : ItemOf[m.id] = i}

(* There is one copy of the messages of M, in the queue or in one hand.     *)
Single(M) ==
    /\ \A m \in M : queue[m] <= 1
    /\ \A m, n \in M : queue[m] > 0 /\ queue[n] > 0 => m = n
    /\ \A v, w \in Workers : InHand(v, M) /\ InHand(w, M) => v = w
    /\ \A w \in Workers, m \in M : InHand(w, M) => ~(queue[m] > 0)

(* A document is prepared once, and before its chunks are read.             *)
OnceInv == \A i \in Items : /\ Single(PrepsOf(i))
                            /\ ~(Held(PrepsOf(i)) /\ Held(ReadsOf(i)))

(* A document in preparation is open, and a job that is over, or about to   *)
(* get its verdict, has none open.                                          *)
Judging == {"judge", "judgefailed"}
OpenInv == \A w \in Workers : pc[w] \in PrepSteps => item[msg[w].id] \notin Terminal
OverInv == job \in Terminal \/ (\E w \in Workers : pc[w] \in Judging) =>
               \A i \in Items : item[i] \in Terminal

DoneInv == OnceInv /\ OpenInv /\ OverInv

Keeps(M) == (Single(M) => Single(M)') /\ (Held(M)' => Held(M))

LEMMA KeptOnce ==
    ASSUME OnceInv, \A i \in Items : Keeps(PrepsOf(i)) /\ Keeps(ReadsOf(i))
    PROVE  OnceInv'
    BY DEF OnceInv, Keeps

LEMMA MessagesOf ==
    \A i \in Items : PrepsOf(i) \subseteq Message /\ ReadsOf(i) \subseteq Message
    BY DEF PrepsOf, ReadsOf, Message

(* Nothing is sent or received.                                             *)
LEMMA NoMail ==
    ASSUME OnceInv, UNCHANGED queue,
           \A v \in Workers : pc'[v] # "idle" => pc[v] # "idle" /\ msg'[v] = msg[v]
    PROVE  OnceInv'
<1>1. ASSUME NEW M PROVE Keeps(M)
    BY DEF Keeps, Single, Held, InHand
<1> QED BY <1>1, KeptOnce

(* A task gives its message back, as a retry or because its worker died.    *)
LEMMA GivenBack ==
    ASSUME TypeOK, OnceInv, NEW w \in Workers, pc[w] # "idle", Hands(w, "idle"),
           NEW n \in Message, queue' = Sent(queue, {n}),
           \A i \in Items : /\ n \in PrepsOf(i) <=> msg[w] \in PrepsOf(i)
                            /\ n \in ReadsOf(i) <=> msg[w] \in ReadsOf(i)
    PROVE  OnceInv'
<1>1. queue \in [Message -> Nat]
    BY DEF TypeOK, OtherTypes
<1>2. \A m \in Message : queue'[m] = IF m = n THEN queue[m] + 1 ELSE queue[m]
    BY <1>1 DEF Sent
<1>3. pc'[w] = "idle" /\ \A v \in Workers \ {w} : pc'[v] = pc[v] /\ msg'[v] = msg[v]
    BY DEF Hands
<1>4. ASSUME NEW M, M \subseteq Message, n \in M <=> msg[w] \in M PROVE Keeps(M)
    <2>1. \A v \in Workers : InHand(v, M)' => v # w /\ InHand(v, M)
        BY <1>3 DEF InHand
    <2>2. CASE n \notin M
        BY <1>2, <1>4, <2>1, <2>2 DEF Keeps, Single, Held
    <2>3. CASE n \in M
        <3>1. InHand(w, M)
            BY <1>4, <2>3 DEF InHand
        <3>2. Single(M) => Single(M)'
            <4> SUFFICES ASSUME Single(M) PROVE Single(M)'
                OBVIOUS
            <4>1. \A m \in M : queue[m] = 0
                BY <1>1, <1>4, <3>1 DEF Single
            <4>2. ASSUME NEW m \in M
                  PROVE  (m = n => queue'[m] = 1) /\ (m # n => queue'[m] = 0)
                <5>1. m \in Message /\ queue[m] = 0
                    BY <1>4, <4>1
                <5>2. m = n => queue'[m] = queue[m] + 1
                    BY <1>2, <5>1
                <5>3. m # n => queue'[m] = queue[m]
                    BY <1>2, <5>1
                <5> QED BY <5>1, <5>2, <5>3
            <4>3. \A v \in Workers : ~InHand(v, M)'
                BY <2>1, <3>1 DEF Single
            <4>4. ASSUME NEW m \in M PROVE queue'[m] <= 1 /\ (queue'[m] > 0 => m = n)
                <5>1. CASE m = n
                    <6>1. queue'[m] = 1
                        BY <4>2, <5>1
                    <6> QED BY <5>1, <6>1
                <5>2. CASE m # n
                    <6>1. queue'[m] = 0
                        BY <4>2, <5>2
                    <6> QED BY <6>1
                <5> QED BY <5>1, <5>2
            <4> QED BY <4>3, <4>4 DEF Single
        <3> QED BY <3>1, <3>2 DEF Keeps, Held
    <2> QED BY <2>2, <2>3
<1> QED BY <1>4, MessagesOf, KeptOnce

(* A message is received, and dropped by a guard or worked on.              *)
LEMMA TakenOver ==
    ASSUME TypeOK, OnceInv, NEW w \in Workers, pc[w] = "idle",
           NEW m \in Message, queue[m] > 0, queue' = Taken(queue, m),
           \A v \in Workers \ {w} : pc'[v] = pc[v] /\ msg'[v] = msg[v],
           pc'[w] = "idle" \/ msg'[w] = m
    PROVE  OnceInv'
<1>1. queue \in [Message -> Nat]
    BY DEF TypeOK, OtherTypes
<1>2. \A n \in Message : queue'[n] = IF n = m THEN queue[n] - 1 ELSE queue[n]
    BY <1>1 DEF Taken
<1>3. ASSUME NEW M, M \subseteq Message PROVE Keeps(M)
    <2>1. \A v \in Workers : InHand(v, M)' => InHand(v, M) \/ (v = w /\ m \in M)
        BY DEF InHand
    <2>2. CASE m \notin M
        BY <1>2, <1>3, <2>1, <2>2 DEF Keeps, Single, Held
    <2>3. CASE m \in M
        <3>1. Held(M)
            BY <2>3 DEF Held
        <3>2. Single(M) => Single(M)'
            <4> SUFFICES ASSUME Single(M) PROVE Single(M)'
                OBVIOUS
            <4>1. \A n \in M : queue'[n] = 0
                BY <1>1, <1>2, <1>3, <2>3 DEF Single
            <4>2. \A v \in Workers : InHand(v, M)' => v = w
                BY <2>1, <2>3 DEF Single
            <4> QED BY <4>1, <4>2 DEF Single
        <3> QED BY <3>1, <3>2 DEF Keeps
    <2> QED BY <2>2, <2>3
<1> QED BY <1>3, MessagesOf, KeptOnce

(* A preparation ends by sending the document's chunks.                     *)
LEMMA PrepDispatchDone ==
    ASSUME TypeOK, OnceInv, NEW w \in Workers, PrepDispatch(w) PROVE OnceInv'
<1> PICK k, f : k = msg[w].id /\ f = msg[w].force
    OBVIOUS
<1> DEFINE due == {c \in ChunksOf(k) : f \/ chunk[c] \in {"PENDING", "FAILED", "CANCELLED"}}
           M == {NewChunkMsg(c, f) : c \in due}
<1>1. pc[w] = "dispatch" /\ k \in Items /\ f \in BOOLEAN /\ InHand(w, PrepsOf(k))
    BY MessageFields
       DEF TypeOK, WorkerTypes, PrepDispatch, Running, PrepSteps, InHand, PrepsOf
<1>2. Hands(w, "idle") /\ queue' = Sent(queue, M)
    BY LeaveHands DEF PrepDispatch
<1>3. M \subseteq ReadsOf(k)
    BY <1>1 DEF NewChunkMsg, ChunkMsg, ChunksOf, ReadsOf
<1>4. \A m \in Message : m \notin M => queue'[m] = queue[m]
    <2> HIDE DEF M
    <2> QED BY <1>2 DEF Sent
<1> HIDE DEF M
<1>5. \A v \in Workers : pc'[v] # "idle" => v # w /\ pc[v] # "idle" /\ msg'[v] = msg[v]
    BY <1>2 DEF Hands
<1>6. ASSUME NEW L, L \subseteq Message, L \cap M = {} PROVE Keeps(L)
    BY <1>4, <1>5, <1>6 DEF Keeps, Single, Held, InHand
<1>7. \A i \in Items : /\ PrepsOf(i) \cap M = {}
                       /\ i # k => ReadsOf(i) \cap M = {}
    BY <1>3, MessageFields DEF PrepsOf, ReadsOf
<1>8. \A i \in Items : Keeps(PrepsOf(i)) /\ (i # k => Keeps(ReadsOf(i)))
    BY <1>6, <1>7, MessagesOf
<1>9. ~Held(PrepsOf(k))'
    <2>1. \A m \in PrepsOf(k) : ~(queue'[m] > 0)
        BY <1>1, <1>4, <1>7, MessagesOf DEF OnceInv, Single
    <2>2. \A v \in Workers : ~InHand(v, PrepsOf(k))'
        BY <1>1, <1>5 DEF OnceInv, Single, InHand
    <2> QED BY <2>1, <2>2 DEF Held
<1> QED BY <1>8, <1>9 DEF OnceInv, Keeps

(* What the rows of documents and job become.                               *)
LEMMA RowsStay ==
    ASSUME OpenInv, OverInv, UNCHANGED <<item, job>>,
           \A v \in Workers :
               /\ pc'[v] \in PrepSteps => pc[v] \in PrepSteps /\ msg'[v] = msg[v]
               /\ pc'[v] \in Judging => pc[v] \in Judging
    PROVE  OpenInv' /\ OverInv'
<1>1. OpenInv'
    BY DEF OpenInv
<1>2. OverInv'
    BY DEF OverInv
<1> QED BY <1>1, <1>2

LEMMA DocumentMoves ==
    ASSUME TypeOK, OpenInv, OverInv, NEW k \in Items, item[k] \notin Terminal,
           NEW s, s \notin Terminal, item' = [item EXCEPT ![k] = s], UNCHANGED job,
           \A v \in Workers :
               /\ pc'[v] \in PrepSteps => \/ pc[v] \in PrepSteps /\ msg'[v] = msg[v]
                                         \/ msg'[v].id = k
               /\ pc'[v] \in Judging => pc[v] \in Judging
    PROVE  OpenInv' /\ OverInv'
<1>1. \A i \in Items : item'[i] = IF i = k THEN s ELSE item[i]
    BY DEF TypeOK, RowTypes
<1>2. OverInv'
    BY DEF OverInv
<1>3. \A x : item'[x] = IF x = k THEN s ELSE item[x]
    BY DEF TypeOK, RowTypes
<1>4. OpenInv'
    BY <1>3 DEF OpenInv
<1> QED BY <1>2, <1>4

LEMMA DocumentCloses ==
    ASSUME TypeOK, OpenInv, OverInv, NEW k \in Items, NEW s \in Terminal,
           item' = [item EXCEPT ![k] = s], UNCHANGED job,
           \A v \in Workers :
               /\ pc'[v] \in PrepSteps =>
                      pc[v] \in PrepSteps /\ msg'[v] = msg[v] /\ msg[v].id # k
               /\ pc'[v] \in Judging => pc[v] \in Judging
    PROVE  OpenInv' /\ OverInv'
<1>1. \A i \in Items : item'[i] = IF i = k THEN s ELSE item[i]
    BY DEF TypeOK, RowTypes
<1>2. OverInv'
    BY <1>1 DEF OverInv
<1>3. \A v \in Workers : pc'[v] \in PrepSteps => item'[msg'[v].id] = item[msg[v].id]
    BY DEF TypeOK, RowTypes
<1>4. OpenInv'
    BY <1>3 DEF OpenInv
<1> QED BY <1>2, <1>4

LEMMA PrepTakeDone ==
    ASSUME TypeOK, DoneInv, NEW w \in Workers, NEW m \in Message, PrepTake(w, m) PROVE DoneInv'
<1>1. /\ pc[w] = "idle" /\ m \in ItemMsg /\ m.id \in Items /\ UNCHANGED job
      /\ queue[m] > 0 /\ queue' = Taken(queue, m)
    BY MessageFields DEF PrepTake, rows
<1>2. CASE item[m.id] \in Terminal
    <2>1. UNCHANGED <<item, pc, msg>>
        BY <1>2 DEF PrepTake, rows, workers
    <2> QED BY <1>1, <2>1, TakenOver, RowsStay DEF DoneInv
<1>3. CASE item[m.id] \notin Terminal
    <2>1. item' = [item EXCEPT ![m.id] = "IN_PROGRESS"] /\ msg' = [msg EXCEPT ![w] = m]
        BY <1>3 DEF PrepTake
    <2>2. PICK l \in {"extract", "render"} : pc' = [pc EXCEPT ![w] = l]
        BY <1>3 DEF PrepTake
    <2>3. /\ msg'[w] = m
          /\ \A v \in Workers \ {w} : pc'[v] = pc[v] /\ msg'[v] = msg[v]
        BY <2>1, <2>2 DEF TypeOK, WorkerTypes
    <2>4. OnceInv'
        BY <1>1, <2>3, TakenOver DEF DoneInv
    <2>5. "IN_PROGRESS" \notin Terminal
        BY DEF Terminal
    <2>6. \A v \in Workers :
              /\ pc'[v] \in PrepSteps => \/ pc[v] \in PrepSteps /\ msg'[v] = msg[v]
                                        \/ msg'[v].id = m.id
              /\ pc'[v] \in Judging => pc[v] \in Judging
        BY <2>2, <2>3 DEF Judging, TypeOK, WorkerTypes
    <2> QED BY <1>1, <1>3, <2>1, <2>4, <2>5, <2>6, DocumentMoves DEF DoneInv
<1> QED BY <1>2, <1>3

LEMMA PrepMovesDone ==
    ASSUME TypeOK, DoneInv, NEW w \in Workers, PrepRender(w) \/ PrepExtracted(w) PROVE DoneInv'
<1> PICK k : k = msg[w].id
    OBVIOUS
<1>1. pc[w] \in PrepSteps /\ k \in Items
    BY MessageFields DEF TypeOK, WorkerTypes, PrepRender, PrepExtracted, Running, PrepSteps
<1>2. PICK s \in {"DOWNLOADED", "IMAGES_EXTRACTED"} : item' = [item EXCEPT ![k] = s]
    BY DEF PrepRender, PrepExtracted
<1>3. PICK l \in {"extract", "rows"} : Hands(w, l)
    BY GotoHands DEF PrepRender, PrepExtracted, Goto
<1>4. UNCHANGED <<job, queue>>
    BY DEF PrepRender, PrepExtracted
<1>5. \A v \in Workers : /\ pc'[v] # "idle" => pc[v] # "idle" /\ msg'[v] = msg[v]
                         /\ pc'[v] \in PrepSteps => pc[v] \in PrepSteps /\ msg'[v] = msg[v]
                         /\ pc'[v] \in Judging => pc[v] \in Judging
    BY <1>1, <1>3 DEF Hands, PrepSteps, Judging
<1>6. item[k] \notin Terminal /\ s \notin Terminal
    BY <1>1 DEF DoneInv, OpenInv, Terminal
<1> QED BY <1>1, <1>2, <1>4, <1>5, <1>6, NoMail, DocumentMoves DEF DoneInv

(* A failed preparation drops its message: nobody else prepares the document.*)
LEMMA PrepFailsDone ==
    ASSUME TypeOK, DoneInv, NEW w \in Workers, PrepFails(w) PROVE DoneInv'
<1> PICK k : k = msg[w].id
    OBVIOUS
<1>1. pc[w] \in PrepSteps /\ pc[w] # "idle" /\ k \in Items
    BY MessageFields DEF TypeOK, WorkerTypes, PrepFails, PrepSteps
<1>2. /\ item' = [item EXCEPT ![k] = "PENDING"] /\ Hands(w, "idle")
      /\ UNCHANGED <<job, queue>>
    BY LeaveHands DEF PrepFails
<1>3. \A v \in Workers : /\ pc'[v] # "idle" => pc[v] # "idle" /\ msg'[v] = msg[v]
                         /\ pc'[v] \in PrepSteps => pc[v] \in PrepSteps /\ msg'[v] = msg[v]
                         /\ pc'[v] \in Judging => pc[v] \in Judging
    BY <1>2 DEF Hands, PrepSteps, Judging
<1>4. item[k] \notin Terminal /\ "PENDING" \notin Terminal
    BY <1>1 DEF DoneInv, OpenInv, Terminal
<1> QED BY <1>1, <1>2, <1>3, <1>4, NoMail, DocumentMoves DEF DoneInv

LEMMA ChunkTakeDone ==
    ASSUME TypeOK, DoneInv, NEW w \in Workers, NEW m \in Message, ChunkTake(w, m) PROVE DoneInv'
<1>1. /\ pc[w] = "idle" /\ UNCHANGED <<job, item>>
      /\ queue[m] > 0 /\ queue' = Taken(queue, m)
    BY DEF ChunkTake, rows
<1>2. \/ UNCHANGED <<pc, msg>>
      \/ pc' = [pc EXCEPT ![w] = "claim"] /\ msg' = [msg EXCEPT ![w] = m]
    BY DEF ChunkTake, workers
<1>3. \A v \in Workers \ {w} : pc'[v] = pc[v] /\ msg'[v] = msg[v]
    BY <1>2 DEF TypeOK, WorkerTypes
<1>4. pc'[w] \in {"idle", "claim"} /\ (pc'[w] = "idle" \/ msg'[w] = m)
    BY <1>1, <1>2 DEF TypeOK, WorkerTypes
<1>5. OnceInv'
    BY <1>1, <1>3, <1>4, TakenOver DEF DoneInv
<1>6. \A v \in Workers : /\ pc'[v] \in PrepSteps => pc[v] \in PrepSteps /\ msg'[v] = msg[v]
                         /\ pc'[v] \in Judging => pc[v] \in Judging
    BY <1>3, <1>4 DEF PrepSteps, Judging
<1> QED BY <1>1, <1>5, <1>6, RowsStay DEF DoneInv

(* A chunk's task that is tried again, or a worker that dies.               *)
LEMMA BackDone ==
    ASSUME TypeOK, DoneInv, NEW w \in Workers, pc[w] # "idle", Leave(w),
           UNCHANGED <<item, job>>, NEW n, queue' = Sent(queue, {n}),
           \/ n = msg[w]
           \/ msg[w] \in ChunkMsg /\ msg[w].tries < MaxRetries /\ n = Retried(msg[w])
    PROVE  DoneInv'
<1> PICK m : m = msg[w]
    OBVIOUS
<1>1. m \in Message /\ Hands(w, "idle")
    BY LeaveHands DEF TypeOK, WorkerTypes
<1>2. n = m \/ (m \in ChunkMsg /\ n \in ChunkMsg /\ n.id = m.id)
    BY RetriedMessage
<1>3. n \in Message /\ \A i \in Items :
          /\ n \in PrepsOf(i) <=> msg[w] \in PrepsOf(i)
          /\ n \in ReadsOf(i) <=> msg[w] \in ReadsOf(i)
    BY <1>1, <1>2, MessageFields DEF PrepsOf, ReadsOf
<1>4. OnceInv'
    BY <1>1, <1>3, GivenBack DEF DoneInv
<1>5. \A v \in Workers : /\ pc'[v] \in PrepSteps => pc[v] \in PrepSteps /\ msg'[v] = msg[v]
                         /\ pc'[v] \in Judging => pc[v] \in Judging
    BY <1>1 DEF Hands, PrepSteps, Judging
<1> QED BY <1>4, <1>5, RowsStay DEF DoneInv

(* A worker goes on, or ends its task, without a message or a verdict.      *)
LEMMA GoesOn ==
    ASSUME TypeOK, DoneInv, UNCHANGED <<item, job, queue>>, NEW w \in Workers,
           NEW l, Hands(w, l), pc[w] # "idle", l \in PrepSteps => pc[w] \in PrepSteps,
           l \notin Judging
    PROVE  DoneInv'
<1>1. \A v \in Workers : /\ pc'[v] # "idle" => pc[v] # "idle" /\ msg'[v] = msg[v]
                         /\ pc'[v] \in PrepSteps => pc[v] \in PrepSteps /\ msg'[v] = msg[v]
                         /\ pc'[v] \in Judging => pc[v] \in Judging
    BY DEF Hands, PrepSteps
<1> QED BY <1>1, NoMail, RowsStay DEF DoneInv

LEMMA WorkerGoesOn ==
    ASSUME TypeOK, DoneInv, NEW w \in Workers,
           \/ PrepRows(w) \/ Claim(w) \/ NoOcrTarget(w) \/ PageStop(w) \/ PageLook(w)
           \/ PageStart(w) \/ OcrFails(w) \/ SaveEngineTrack(w) \/ SaveDefaultTrack(w)
           \/ PageDone(w) \/ Finish(w) \/ FinalizeItem(w) \/ AskExtraction(w)
    PROVE  DoneInv'
<1> DEFINE Goals == Working \cup {"close", "seal", "sealfailed", "look"}
<1>1. UNCHANGED <<item, job, queue>> /\ pc[w] # "idle" /\ (PrepRows(w) => pc[w] \in PrepSteps)
    BY DEF PrepRows, Claim, NoOcrTarget, PageStop, PageLook, PageStart, OcrFails, SaveEngineTrack,
       SaveDefaultTrack, PageDone, Finish, FinalizeItem, AskExtraction, Running, PrepSteps, rows
<1>2. \/ Leave(w)
      \/ \E l \in Goals : pc' = [pc EXCEPT ![w] = l] /\ UNCHANGED msg
      \/ PrepRows(w) /\ pc' = [pc EXCEPT ![w] = "dispatch"] /\ UNCHANGED msg
    <2>1. CASE PrepRows(w) \/ Claim(w) \/ NoOcrTarget(w) \/ PageStop(w) \/ PageLook(w)
        BY <2>1 DEF PrepRows, Claim, NoOcrTarget, PageStop, PageLook, Goto, Working
    <2>2. CASE PageStart(w) \/ OcrFails(w) \/ SaveEngineTrack(w) \/ SaveDefaultTrack(w)
        BY <2>2 DEF PageStart, OcrFails, SaveEngineTrack, SaveDefaultTrack, Goto, Working
    <2>3. CASE PageDone(w) \/ Finish(w) \/ FinalizeItem(w) \/ AskExtraction(w)
        BY <2>3 DEF PageDone, Finish, FinalizeItem, AskExtraction, Goto, Working
    <2> QED BY <2>1, <2>2, <2>3
<1>3. CASE Leave(w)
    BY <1>1, <1>3, LeaveHands, GoesOn DEF PrepSteps, Judging
<1>4. ASSUME NEW l \in Goals, pc' = [pc EXCEPT ![w] = l] /\ UNCHANGED msg PROVE DoneInv'
    <2>1. Hands(w, l) /\ l \notin PrepSteps /\ l \notin Judging
        BY <1>4, GotoHands DEF PrepSteps, Working, Judging
    <2> QED BY <1>1, <2>1, GoesOn
<1>5. CASE PrepRows(w) /\ pc' = [pc EXCEPT ![w] = "dispatch"] /\ UNCHANGED msg
    <2>1. Hands(w, "dispatch") /\ "dispatch" \notin Judging
        BY <1>5, GotoHands DEF Judging
    <2> QED BY <1>1, <1>5, <2>1, GoesOn
<1> QED BY <1>2, <1>3, <1>4, <1>5

LEMMA RefusedDone ==
    ASSUME TypeOK, DoneInv, NEW w \in Workers, ClaimRefused(w) \/ WorkFails(w) PROVE DoneInv'
<1>1. /\ UNCHANGED <<item, job>> /\ pc[w] # "idle" /\ msg[w] \in ChunkMsg
    BY DEF ClaimRefused, WorkFails, Running, rows, TypeOK, WorkerTypes, Working
<1>2. \/ Leave(w) /\ msg[w].tries < MaxRetries /\ queue' = Sent(queue, {Retried(msg[w])})
      \/ Leave(w) /\ UNCHANGED queue
      \/ Goto(w, "close") /\ UNCHANGED queue
    BY DEF ClaimRefused, WorkFails
<1>3. CASE Leave(w) /\ msg[w].tries < MaxRetries /\ queue' = Sent(queue, {Retried(msg[w])})
    BY <1>1, <1>3, BackDone
<1>4. CASE Leave(w) /\ UNCHANGED queue
    BY <1>1, <1>4, LeaveHands, GoesOn DEF PrepSteps, Judging
<1>5. CASE Goto(w, "close") /\ UNCHANGED queue
    <2>1. Hands(w, "close") /\ "close" \notin PrepSteps /\ "close" \notin Judging
        BY <1>5, GotoHands DEF Goto, PrepSteps, Judging
    <2> QED BY <1>1, <1>5, <2>1, GoesOn
<1> QED BY <1>2, <1>3, <1>4, <1>5

(* A document gets its verdict from a chunk's task, so it is not prepared.  *)
LEMMA SealItemDone ==
    ASSUME TypeOK, DoneInv, NEW w \in Workers, SealItem(w) PROVE DoneInv'
<1> PICK k : k = ItemOfTask(w)
    OBVIOUS
<1>1. /\ pc[w] # "idle" /\ msg[w] \in ChunkMsg /\ k = ItemOf[msg[w].id] /\ k \in Items
      /\ UNCHANGED <<job, queue>> /\ Hands(w, "ask")
    BY MessageFields, GotoHands DEF SealItem, Verdicts, TypeOK, WorkerTypes, ItemOfTask, Goto
<1>2. PICK s \in {"COMPLETED", "FAILED"} : item' = [item EXCEPT ![k] = s]
    BY DEF SealItem
<1>3. ~Held(PrepsOf(k))
    BY <1>1 DEF DoneInv, OnceInv, Held, InHand, ReadsOf
<1>4. \A v \in Workers : /\ pc'[v] # "idle" => pc[v] # "idle" /\ msg'[v] = msg[v]
                         /\ pc'[v] \in PrepSteps => pc[v] \in PrepSteps /\ msg'[v] = msg[v]
                         /\ pc'[v] \in Judging => pc[v] \in Judging
    BY <1>1 DEF Hands, PrepSteps, Judging
<1>5. \A v \in Workers : pc[v] \in PrepSteps => msg[v].id # k
    BY <1>3 DEF Held, InHand, PrepsOf, PrepSteps, TypeOK, WorkerTypes
<1>6. s \in Terminal
    BY DEF Terminal
<1>7. \A v \in Workers :
          /\ pc'[v] \in PrepSteps => pc[v] \in PrepSteps /\ msg'[v] = msg[v] /\ msg[v].id # k
          /\ pc'[v] \in Judging => pc[v] \in Judging
    BY <1>4, <1>5
<1>8. OnceInv'
    BY <1>1, <1>4, NoMail DEF DoneInv
<1>9. OpenInv' /\ OverInv'
    BY <1>1, <1>2, <1>6, <1>7, DocumentCloses DEF DoneInv
<1> QED BY <1>8, <1>9 DEF DoneInv

(* The job gets its verdict when all documents are over, and they stay so   *)
(* between the look and the verdict.                                        *)
LEMMA FinalizeJobDone ==
    ASSUME TypeOK, DoneInv, NEW w \in Workers, FinalizeJob(w) \/ JudgeJob(w) PROVE DoneInv'
<1>1. /\ pc[w] # "idle" /\ pc[w] \notin PrepSteps /\ UNCHANGED <<item, queue>>
      /\ JudgeJob(w) => pc[w] \in Judging
      /\ FinalizeJob(w) => UNCHANGED job
    BY DEF FinalizeJob, JudgeJob, rows, PrepSteps, Judging
<1>2. PICK l \in {"judge", "judgefailed", "idle"} :
          Hands(w, l) /\ (l \in Judging => \A i \in Items : item[i] \in Terminal)
    <2>1. CASE Leave(w)
        BY <2>1, LeaveHands DEF Judging
    <2>2. CASE ~Leave(w)
        <3>1. PICK l \in Judging : Goto(w, l) /\ \A i \in Items : item[i] \in Terminal
            BY <2>2 DEF FinalizeJob, JudgeJob, Judging
        <3> QED BY <3>1, GotoHands DEF Goto, Judging
    <2> QED BY <2>1, <2>2
<1>3. \A v \in Workers : /\ pc'[v] # "idle" => pc[v] # "idle" /\ msg'[v] = msg[v]
                         /\ pc'[v] \in PrepSteps => pc'[v] = pc[v] /\ msg'[v] = msg[v]
                         /\ pc'[v] \in Judging => pc[v] \in Judging \/ l \in Judging
    BY <1>1, <1>2 DEF Hands, PrepSteps, Judging
<1>4. OnceInv'
    BY <1>1, <1>3, NoMail DEF DoneInv
<1>5. OverInv'
    BY <1>1, <1>2, <1>3 DEF DoneInv, OverInv
<1>6. OpenInv'
    BY <1>1, <1>3 DEF DoneInv, OpenInv
<1> QED BY <1>4, <1>5, <1>6 DEF DoneInv

LEMMA CrashDone ==
    ASSUME TypeOK, DoneInv, NEW w \in Workers, Crash(w) \/ ChildKilled(w) PROVE DoneInv'
<1>1. UNCHANGED <<item, job>> /\ pc[w] # "idle" /\ Leave(w)
    BY DEF Crash, ChildKilled, rows
<1>2. CASE UNCHANGED queue
    BY <1>1, <1>2, LeaveHands, GoesOn DEF PrepSteps, Judging
<1>3. CASE queue' = Sent(queue, {msg[w]})
    BY <1>1, <1>3, BackDone
<1> QED BY <1>2, <1>3 DEF Crash, ChildKilled

LEMMA StillDone ==
    ASSUME TypeOK, DoneInv, UNCHANGED <<item, job, queue, pc, msg>> PROVE DoneInv'
    BY NoMail, RowsStay DEF DoneInv

(* While nothing is delivered twice and no batch-retry runs, verdicts are   *)
(* about what is over, unless the operator cancels the job.                 *)
Unrepeated == budget.dup = MaxDups

SettledInv ==
    /\ budget.dup <= MaxDups
    /\ Unrepeated /\ Unretried =>
           DoneInv \/ (job = "CANCELLED" /\ \A w \in Workers : pc[w] \notin Judging)

LEMMA SettledInit == Init => SettledInv
<1> SUFFICES ASSUME Init PROVE SettledInv
    OBVIOUS
<1>1. /\ \A w \in Workers : pc[w] = "idle"
      /\ \A i \in Items : item[i] = "PENDING"
      /\ job \notin Terminal /\ budget.dup = MaxDups
    BY DEF Init, Terminal
<1>2. \A m \in Message : queue[m] = IF \E i \in Items : m = NewItemMsg(i, FALSE) THEN 1 ELSE 0
    BY DEF Init
<1>3. \A i \in Items : NewItemMsg(i, FALSE).id = i /\ NewItemMsg(i, FALSE).task = "item"
    BY DEF NewItemMsg
<1>4. ASSUME NEW i \in Items PROVE Single(PrepsOf(i)) /\ ~Held(ReadsOf(i))
    <2>1. ASSUME NEW m \in PrepsOf(i)
          PROVE  /\ m = NewItemMsg(i, FALSE) => queue[m] = 1
                 /\ m # NewItemMsg(i, FALSE) => queue[m] = 0
        <3>1. m \in Message /\ m.id = i
            BY <2>1, MessagesOf DEF PrepsOf
        <3>2. \A j \in Items : m = NewItemMsg(j, FALSE) => j = i
            BY <1>3, <3>1
        <3> QED BY <1>2, <3>1, <3>2
    <2>2. ASSUME NEW m \in ReadsOf(i) PROVE queue[m] = 0
        <3>1. m \in Message /\ m.task = "chunk"
            BY <2>2, MessageFields DEF ReadsOf
        <3> QED BY <1>2, <1>3, <3>1
    <2>3. \A w \in Workers : ~InHand(w, PrepsOf(i)) /\ ~InHand(w, ReadsOf(i))
        BY <1>1 DEF InHand
    <2>4. Single(PrepsOf(i))
        <3>1. ASSUME NEW m \in PrepsOf(i)
              PROVE  queue[m] <= 1 /\ (queue[m] > 0 => m = NewItemMsg(i, FALSE))
            <4>1. CASE m = NewItemMsg(i, FALSE)
                <5>1. queue[m] = 1
                    BY <2>1, <4>1
                <5> QED BY <4>1, <5>1
            <4>2. CASE m # NewItemMsg(i, FALSE)
                <5>1. queue[m] = 0
                    BY <2>1, <4>2
                <5> QED BY <5>1
            <4> QED BY <4>1, <4>2
        <3> QED BY <2>3, <3>1 DEF Single
    <2>5. ~Held(ReadsOf(i))
        BY <2>2, <2>3 DEF Held
    <2> QED BY <2>4, <2>5
<1>5. OnceInv
    BY <1>4 DEF OnceInv
<1>6. OpenInv /\ OverInv
    BY <1>1 DEF OpenInv, OverInv, PrepSteps, Judging
<1> QED BY <1>1, <1>5, <1>6 DEF SettledInv, DoneInv

LEMMA StepIsDone ==
    ASSUME TypeOK, DoneInv, [Next]_vars, ~Cancel, ~cli.on,
           \A w \in Workers : ~Redeliver(w), \A f \in Forces : ~RetryBegin(f)
    PROVE  DoneInv'
<1>1. ASSUME NEW m \in Message, Receive(m) PROVE DoneInv'
    BY <1>1, PrepTakeDone, ChunkTakeDone DEF Receive
<1>2. ASSUME NEW w \in Workers, PrepDispatch(w) PROVE DoneInv'
    <2>1. Hands(w, "idle") /\ UNCHANGED <<item, job>>
        BY <1>2, LeaveHands DEF PrepDispatch, rows
    <2>2. \A v \in Workers : /\ pc'[v] \in PrepSteps => pc[v] \in PrepSteps /\ msg'[v] = msg[v]
                             /\ pc'[v] \in Judging => pc[v] \in Judging
        BY <2>1 DEF Hands, PrepSteps, Judging
    <2> QED BY <1>2, <2>1, <2>2, PrepDispatchDone, RowsStay DEF DoneInv
<1>3. ASSUME NEW w \in Workers, WorkerStep(w) PROVE DoneInv'
    BY <1>2, <1>3, PrepMovesDone, WorkerGoesOn, RefusedDone, SealItemDone, FinalizeJobDone
       DEF WorkerStep
<1>4. ASSUME NEW w \in Workers, WorkerFault(w) PROVE DoneInv'
    BY <1>4, PrepFailsDone, WorkerGoesOn, RefusedDone DEF WorkerFault
<1>5. ASSUME NEW w \in Workers, Crash(w) \/ ChildKilled(w) PROVE DoneInv'
    BY <1>5, CrashDone
<1>6. ASSUME NEW c \in Chunks, LeaseLapses(c) PROVE DoneInv'
    BY <1>6, StillDone DEF LeaseLapses, workers
<1>7. ~RetryStep
    BY RetryRuns
<1>8. ASSUME UNCHANGED vars PROVE DoneInv'
    BY <1>8, StillDone DEF vars, rows, workers
<1> QED BY <1>1, <1>3, <1>4, <1>5, <1>6, <1>7, <1>8 DEF Next

(* Only a second delivery spends its budget.                                *)
LEMMA RepeatSpends ==
    ASSUME TypeOK, [Next]_vars
    PROVE  \/ budget'.dup = budget.dup /\ \A w \in Workers : ~Redeliver(w)
           \/ budget'.dup = budget.dup - 1
<1>1. ASSUME NEW w \in Workers, Redeliver(w) PROVE budget'.dup = budget.dup - 1
    BY <1>1 DEF Redeliver, TypeOK, OtherTypes
<1> DEFINE Same == budget'.dup = budget.dup
<1>2. ASSUME NEW m \in Message, Receive(m) PROVE Same
    BY <1>2 DEF Receive, PrepTake, ChunkTake
<1>3. ASSUME NEW w \in Workers, WorkerStep(w) PROVE Same
    BY <1>3 DEF WorkerStep, PrepRender, PrepExtracted, PrepRows, PrepDispatch, Claim,
       ClaimRefused, PageStop, PageLook, PageStart, SaveEngineTrack, SaveDefaultTrack, PageDone,
       Finish, FinalizeItem, SealItem, AskExtraction, FinalizeJob, JudgeJob
<1>4. ASSUME NEW w \in Workers, WorkerFault(w) PROVE Same
    BY <1>4 DEF WorkerFault, PrepFails, NoOcrTarget, OcrFails, WorkFails
<1>5. ASSUME NEW w \in Workers, Crash(w) \/ ChildKilled(w) PROVE Same
    BY <1>5 DEF Crash, ChildKilled, TypeOK, OtherTypes
<1>6. ASSUME NEW c \in Chunks, LeaseLapses(c) PROVE Same
    BY <1>6 DEF LeaseLapses
<1>7. ASSUME Cancel PROVE Same
    BY <1>7 DEF Cancel, TypeOK, OtherTypes
<1>8. ASSUME NEW f \in Forces, RetryBegin(f) PROVE Same
    BY <1>8 DEF RetryBegin, TypeOK, OtherTypes
<1>9. ASSUME RetryStep PROVE Same
    BY <1>9, RetryRuns
<1>10. ASSUME UNCHANGED vars PROVE Same
    BY <1>10 DEF vars
<1> HIDE DEF Same
<1>11. Same \/ \E w \in Workers : Redeliver(w)
    BY <1>2, <1>3, <1>4, <1>5, <1>6, <1>7, <1>8, <1>9, <1>10 DEF Next
<1> QED BY <1>1, <1>11 DEF Same

(* No worker looks at a job that is over and goes on to judge it.           *)
LEMMA OverIsNotJudged ==
    ASSUME TypeOK, job \in Terminal, [Next]_vars, NEW v \in Workers, pc'[v] \in Judging
    PROVE  pc[v] \in Judging
<1> DEFINE Moved == UNCHANGED pc \/ \E w \in Workers, l \in Steps \ Judging : pc' = [pc EXCEPT ![w] = l]
<1> USE DEF Judging, Verdicts, Working, PrepSteps, Steps
<1>1. ASSUME NEW w \in Workers, NEW m \in Message, PrepTake(w, m) \/ ChunkTake(w, m) PROVE Moved
    BY <1>1 DEF PrepTake, ChunkTake, workers
<1>2. ASSUME NEW w \in Workers,
             \/ PrepRender(w) \/ PrepExtracted(w) \/ PrepRows(w) \/ PrepDispatch(w) \/ PrepFails(w)
             \/ Claim(w) \/ ClaimRefused(w) \/ NoOcrTarget(w) \/ PageStop(w) \/ PageLook(w)
      PROVE  Moved
    BY <1>2 DEF PrepRender, PrepExtracted, PrepRows, PrepDispatch, PrepFails, Claim, ClaimRefused,
       NoOcrTarget, PageStop, PageLook, Goto, Leave
<1>3. ASSUME NEW w \in Workers,
             \/ PageStart(w) \/ OcrFails(w) \/ SaveEngineTrack(w) \/ SaveDefaultTrack(w)
             \/ PageDone(w) \/ WorkFails(w) \/ Finish(w)
      PROVE  Moved
    BY <1>3 DEF PageStart, OcrFails, SaveEngineTrack, SaveDefaultTrack, PageDone, WorkFails,
       Finish, Goto, Leave
<1>4. ASSUME NEW w \in Workers,
             \/ FinalizeItem(w) \/ SealItem(w) \/ AskExtraction(w) \/ FinalizeJob(w) \/ JudgeJob(w)
             \/ Crash(w) \/ ChildKilled(w) \/ Redeliver(w)
      PROVE  Moved
    BY <1>4 DEF FinalizeItem, SealItem, AskExtraction, FinalizeJob, JudgeJob, Crash, ChildKilled,
       Redeliver, workers, Goto, Leave
<1>5. ASSUME NEW c \in Chunks, LeaseLapses(c) \/ RetryChunk(c) \/ RetrySkip(c) PROVE Moved
    BY <1>5 DEF LeaseLapses, RetryChunk, RetrySkip, workers
<1>6. ASSUME NEW f \in Forces, RetryBegin(f) PROVE Moved
    BY <1>6 DEF RetryBegin, workers
<1>7. ASSUME NEW i \in Items, RetryOpen(i) \/ RetryPrepare(i) PROVE Moved
    BY <1>7 DEF RetryOpen, RetryPrepare, workers
<1>8. Cancel \/ RetryEnd \/ UNCHANGED vars => Moved
    BY DEF Cancel, RetryEnd, vars, workers
<1> HIDE DEF Moved
<1>9. Moved
    BY <1>1, <1>2, <1>3, <1>4, <1>5, <1>6, <1>7, <1>8
       DEF Next, Receive, WorkerStep, WorkerFault, RetryStep
<1> QED BY <1>9 DEF Moved, TypeOK, WorkerTypes

(* batch-cancel opens no document and sends nothing; it comes too late for  *)
(* a worker that is about to write a verdict.                               *)
LEMMA CancelSettles ==
    ASSUME TypeOK, DoneInv, Cancel
    PROVE  DoneInv' \/ (job' = "CANCELLED" /\ \A w \in Workers : pc'[w] \notin Judging)
<1>1. UNCHANGED <<queue, pc, msg>> /\ job' = "CANCELLED"
    BY DEF Cancel, workers
<1>2. CASE \A w \in Workers : pc[w] \notin Judging
    BY <1>1, <1>2
<1>3. CASE \E w \in Workers : pc[w] \in Judging
    <2>1. \A i \in Items : item[i] \in Terminal
        BY <1>3 DEF DoneInv, OverInv
    <2>2. UNCHANGED item
        BY <2>1 DEF Cancel, TypeOK, RowTypes
    <2>3. OnceInv'
        BY <1>1, NoMail DEF DoneInv
    <2>4. OpenInv' /\ OverInv'
        BY <1>1, <2>1, <2>2 DEF DoneInv, OpenInv, OverInv
    <2> QED BY <2>3, <2>4 DEF DoneInv
<1> QED BY <1>2, <1>3

LEMMA SettledStep == TypeOK /\ SparedInv /\ SettledInv /\ [Next]_vars => SettledInv'
<1> DEFINE Cut == job = "CANCELLED" /\ \A w \in Workers : pc[w] \notin Judging
<1> SUFFICES ASSUME TypeOK, SparedInv, SettledInv, [Next]_vars PROVE SettledInv'
    OBVIOUS
<1>1. {budget.dup, budget.retry, MaxDups, MaxRetryCmds} \subseteq Nat
    BY DEF TypeOK, OtherTypes
<1>2. budget'.dup <= MaxDups
    BY <1>1, RepeatSpends DEF SettledInv
<1>3. ASSUME Unrepeated', Unretried' PROVE DoneInv' \/ Cut'
    <2>1. budget'.dup = MaxDups /\ budget'.retry = MaxRetryCmds
        BY <1>3 DEF Unrepeated, Unretried
    <2>2. Unrepeated /\ \A w \in Workers : ~Redeliver(w)
        BY <1>1, <2>1, RepeatSpends DEF SettledInv, Unrepeated
    <2>3. Unretried /\ ~cli.on
        BY <1>1, <2>1, CommandSpends DEF SparedInv, Spends, Unretried
    <2>4. \A f \in Forces : ~RetryBegin(f)
        BY <1>1, <2>1, <2>3 DEF RetryBegin, Unretried, TypeOK, OtherTypes
    <2>5. CASE Cut
        <3>1. job \in Terminal /\ ~Cancel
            BY <2>5 DEF Cancel, Terminal
        <3>2. \A w \in Workers : ~JudgeJob(w)
            BY <2>5 DEF JudgeJob, Judging
        <3>3. job' = "CANCELLED"
            BY <2>3, <2>5, <3>1, <3>2, JobWriters DEF JobMoves
        <3> QED BY <2>5, <3>1, <3>3, OverIsNotJudged
    <2>6. CASE DoneInv /\ Cancel
        BY <2>6, CancelSettles
    <2>7. CASE DoneInv /\ ~Cancel
        BY <2>2, <2>3, <2>4, <2>7, StepIsDone
    <2> QED BY <2>2, <2>3, <2>5, <2>6, <2>7 DEF SettledInv
<1> QED BY <1>2, <1>3 DEF SettledInv, Unrepeated, Unretried

(* On the first attempt, a job is COMPLETED or FAILED only when all its     *)
(* documents are over: through crashes, lapsed leases, failures, batch-cancel*)
(* and the time between the looks and the commits of the two verdicts, no   *)
(* document is left open under the one of _finalize_batch_job_status.       *)
THEOREM VerdictIsOverAll == Spec => []TerminalJobIsDone
<1>1. IndInv /\ SparedInv /\ [Next]_vars => SparedInv'
    BY SparedStep DEF IndInv
<1>2. IndInv /\ SparedInv /\ SettledInv /\ [Next]_vars => SettledInv'
    BY SettledStep DEF IndInv
<1>3. SettledInv => TerminalJobIsDone
    <2> SUFFICES ASSUME SettledInv, Unrepeated, Unretried, job \in {"COMPLETED", "FAILED"}
                 PROVE  \A i \in Items : item[i] \in Terminal
        BY DEF TerminalJobIsDone, FirstAttempt, Unrepeated, Unretried
    <2> QED BY DEF SettledInv, DoneInv, OverInv, Terminal
<1> QED BY <1>1, <1>2, <1>3, SparedInit, SettledInit, Invariance, PTL DEF Spec
-----------------------------------------------------------------------------
(* A job that is not over is on its way to a verdict *)

Closing == {"close", "seal", "sealfailed"}
Ruling == {"ask", "look", "judge", "judgefailed"}
AtClose(i) == \E w \in Workers : pc[w] \in Closing /\ msg[w].id \in ChunksOf(i)
AtVerdict == \E w \in Workers : pc[w] \in Ruling
LostOf(i) == i \in lost \/ \E c \in ChunksOf(i) : c \in lost

(* Unless something of it was lost: an open document without chunks is being*)
(* prepared; one whose chunks are all over is about to get its verdict; and *)
(* so is a job whose documents are all over.                                *)
EndInv ==
    /\ \A i \in Items : item[i] \notin Terminal /\ ~LostOf(i) =>
          /\ \A c \in ChunksOf(i) : chunk[c] = "NONE" => Prepared(i)
          /\ ChunksOf(i) # {} /\ (\A c \in ChunksOf(i) : chunk[c] \in Terminal) => AtClose(i)
    /\ job \notin Terminal /\ Items # {} /\ (\A i \in Items : item[i] \in Terminal) =>
          AtVerdict \/ lost # {}

LEMMA EndInit == Init => EndInv
<1> SUFFICES ASSUME Init PROVE EndInv
    OBVIOUS
<1>1. \A i \in Items : item[i] = "PENDING" /\ queue[NewItemMsg(i, FALSE)] = 1
    <2> SUFFICES ASSUME NEW i \in Items PROVE item[i] = "PENDING" /\ queue[NewItemMsg(i, FALSE)] = 1
        OBVIOUS
    <2>1. NewItemMsg(i, FALSE) \in Message
        BY MessageFields DEF NewItemMsg, ItemMsg
    <2> QED BY <2>1 DEF Init
<1>2. \A i \in Items : Prepared(i)
    <2> SUFFICES ASSUME NEW i \in Items PROVE Prepared(i)
        OBVIOUS
    <2>1. NewItemMsg(i, FALSE) \in ItemMsg /\ NewItemMsg(i, FALSE).id = i
        BY MessageFields DEF NewItemMsg, ItemMsg
    <2>2. queue[NewItemMsg(i, FALSE)] = 1
        BY <1>1
    <2>3. queue[NewItemMsg(i, FALSE)] > 0
        BY <2>2
    <2> QED BY <2>1, <2>3 DEF Prepared
<1>3. \A c \in Chunks : chunk[c] = "NONE"
    BY DEF Init
<1> QED BY <1>1, <1>2, <1>3 DEF EndInv, ChunksOf, Terminal

LEMMA EndImplies ==
    ASSUME TypeOK, LostInv, EndInv, job \notin Terminal, ~cli.on PROVE OpenJobIsAttended
<1>1. ASSUME NEW i \in Items, item[i] \notin Terminal, ChunksOf(i) # {}, ~LostOf(i)
      PROVE  Attended(i)
    <2>1. CASE \A c \in ChunksOf(i) : chunk[c] \in Terminal
        <3>1. PICK w \in Workers : pc[w] \in Closing /\ msg[w].id \in ChunksOf(i)
            BY <1>1, <2>1 DEF EndInv, AtClose
        <3>2. ItemOfTask(w) = i
            BY <3>1, MessageFields DEF ItemOfTask, ChunksOf, TypeOK, WorkerTypes
        <3> QED BY <3>1, <3>2 DEF Attended, Closing
    <2>2. ASSUME NEW c \in ChunksOf(i), chunk[c] \notin Terminal PROVE Attended(i)
        <3>1. c \in Chunks /\ ItemOf[c] = i /\ item[i] # "FAILED"
            BY <1>1 DEF ChunksOf, Terminal
        <3>2. Prepared(i) => Carried(c)
            BY <3>1, MessageFields DEF Prepared, Carried, TypeOK, WorkerTypes
        <3>3. CASE chunk[c] = "NONE"
            BY <1>1, <2>2, <3>2, <3>3 DEF EndInv, Attended
        <3>4. CASE chunk[c] # "NONE"
            <4>1. chunk[c] \in {"PENDING", "IN_PROGRESS"}
                BY <2>2, <3>1, <3>4 DEF TypeOK, RowTypes, ChunkStatus, Terminal
            <4>2. ~Lost(c)
                BY <1>1, <3>1 DEF Lost, LostOf
            <4>3. Carried(c)
                BY <3>1, <4>1, <4>2, OpenIsCarried
            <4> QED BY <2>2, <4>3 DEF Attended
        <3> QED BY <3>3, <3>4
    <2> QED BY <2>1, <2>2
<1>2. (\E i \in Items : item[i] \notin Terminal) \/ AtVerdict \/ lost # {} \/ Items = {}
    BY DEF EndInv
<1> QED BY <1>1, <1>2 DEF OpenJobIsAttended, AtVerdict, Ruling, LostOf

(* What a step owes the documents and the job.                              *)
LEMMA EndKept ==
    ASSUME EndInv,
           \A c \in Chunks : chunk'[c] = "NONE" => chunk[c] = "NONE",
           \A c \in Chunks : chunk'[c] \in Terminal => chunk[c] \in Terminal \/ AtClose(ItemOf[c])',
           \A i \in Items : item'[i] \notin Terminal /\ ~LostOf(i)' =>
               /\ item[i] \notin Terminal
               /\ Prepared(i) => Prepared(i)' \/ \A c \in ChunksOf(i) : chunk'[c] # "NONE"
               /\ AtClose(i) => AtClose(i)' \/ \E c \in ChunksOf(i) : chunk'[c] \notin Terminal,
           \A i \in Items : item'[i] \in Terminal => item[i] \in Terminal \/ AtVerdict',
           job' \notin Terminal => job \notin Terminal,
           AtVerdict => AtVerdict' \/ job' \in Terminal \/ lost' # {}
                        \/ \E i \in Items : item'[i] \notin Terminal,
           lost \subseteq lost'
    PROVE  EndInv'
<1>1. ASSUME NEW i \in Items, item'[i] \notin Terminal, ~LostOf(i)'
      PROVE  item[i] \notin Terminal /\ ~LostOf(i)
    BY <1>1 DEF LostOf, ChunksOf
<1>2. ASSUME NEW i \in Items, item'[i] \notin Terminal, ~LostOf(i)',
             NEW c \in ChunksOf(i), chunk'[c] = "NONE"
      PROVE  Prepared(i)'
    BY <1>1, <1>2 DEF EndInv, ChunksOf
<1>3. ASSUME NEW i \in Items, item'[i] \notin Terminal, ~LostOf(i)', ChunksOf(i) # {},
             \A c \in ChunksOf(i) : chunk'[c] \in Terminal
      PROVE  AtClose(i)'
    <2>1. CASE \A c \in ChunksOf(i) : chunk[c] \in Terminal
        BY <1>1, <1>3, <2>1 DEF EndInv
    <2>2. ASSUME NEW c \in ChunksOf(i), chunk[c] \notin Terminal PROVE AtClose(i)'
        <3>1. AtClose(ItemOf[c])' /\ ItemOf[c] = i
            BY <1>3, <2>2 DEF ChunksOf
        <3> QED BY <3>1
    <2> QED BY <2>1, <2>2
<1>4. ASSUME job' \notin Terminal, Items # {}, \A i \in Items : item'[i] \in Terminal
      PROVE  AtVerdict' \/ lost' # {}
    BY <1>4 DEF EndInv
<1> QED BY <1>2, <1>3, <1>4 DEF EndInv, ChunksOf

LEMMA EndStays ==
    ASSUME EndInv, UNCHANGED <<item, job, chunk, queue, pc, msg, lost>> PROVE EndInv'
    BY DEF EndInv, Prepared, AtClose, AtVerdict, ChunksOf, LostOf

(* A step of a worker that has a chunk's task.                              *)
LEMMA ReaderEnds ==
    ASSUME TypeOK, EndInv, NEW w \in Workers, NEW l, Hands(w, l), pc[w] # "idle",
           msg[w] \in ChunkMsg, NEW k, k = msg[w].id, lost \subseteq lost',
           \A m \in ItemMsg : queue'[m] = queue[m],
           \A c \in Chunks : chunk'[c] = chunk[c] \/ (c = k /\ chunk'[c] # "NONE"),
           chunk'[k] \in Terminal => chunk[k] \in Terminal \/ l = "close",
           pc[w] \in Closing =>
               \/ l \in Closing \/ k \in lost' \/ item'[ItemOf[k]] \in Terminal
               \/ \E c \in ChunksOf(ItemOf[k]) : chunk'[c] \notin Terminal,
           \A i \in Items : item'[i] = item[i] \/ (item'[i] \in Terminal /\ l = "ask"),
           job' = job \/ job' \in Terminal,
           pc[w] \in Ruling =>
               \/ l \in Ruling \/ k \in lost' \/ job' \in Terminal
               \/ \E i \in Items : item'[i] \notin Terminal
    PROVE  EndInv'
<1>1. k \in Chunks /\ k \in ChunksOf(ItemOf[k]) /\ pc[w] \notin PrepSteps
    BY MessageFields DEF TypeOK, WorkerTypes, ChunksOf
<1>2. pc'[w] = l /\ (l # "idle" => msg'[w] = msg[w])
      /\ \A v \in Workers \ {w} : pc'[v] = pc[v] /\ msg'[v] = msg[v]
    BY DEF Hands
<1>3. \A i \in Items : Prepared(i) => Prepared(i)'
    BY <1>1, <1>2 DEF Prepared
<1>4. l \in Closing => AtClose(ItemOf[k])'
    BY <1>1, <1>2 DEF AtClose, ChunksOf, Closing
<1>5. ASSUME NEW i \in Items, AtClose(i), item'[i] \notin Terminal, ~LostOf(i)'
      PROVE  AtClose(i)' \/ \E c \in ChunksOf(i) : chunk'[c] \notin Terminal
    <2>1. PICK v \in Workers : pc[v] \in Closing /\ msg[v].id \in ChunksOf(i)
        BY <1>5 DEF AtClose
    <2>2. CASE v = w
        <3>1. i = ItemOf[k] /\ k \notin lost'
            BY <1>5, <2>1, <2>2 DEF ChunksOf, LostOf
        <3> QED BY <1>4, <1>5, <2>1, <2>2, <3>1
    <2>3. CASE v # w
        BY <1>2, <2>1, <2>3 DEF AtClose, ChunksOf
    <2> QED BY <2>2, <2>3
<1>6. l \in Ruling => AtVerdict'
    BY <1>2 DEF AtVerdict
<1>7. AtVerdict => AtVerdict' \/ job' \in Terminal \/ lost' # {}
                   \/ \E i \in Items : item'[i] \notin Terminal
    BY <1>2, <1>6 DEF AtVerdict
<1>8. l = "close" => AtClose(ItemOf[k])'
    BY <1>4 DEF Closing
<1>9. l = "ask" => AtVerdict'
    BY <1>6 DEF Ruling
<1> QED BY <1>1, <1>3, <1>5, <1>7, <1>8, <1>9, EndKept

(* A step of a worker that has a document's task.                           *)
LEMMA PreparerEnds ==
    ASSUME TypeOK, EndInv, NEW w \in Workers, NEW l, Hands(w, l), pc[w] # "idle",
           msg[w] \in ItemMsg, NEW k, k = msg[w].id, lost \subseteq lost',
           \A m \in ItemMsg : queue[m] > 0 => queue'[m] > 0,
           \A c \in Chunks : chunk'[c] = chunk[c] \/ chunk'[c] = "PENDING",
           Prepared(k)' \/ k \in lost' \/ \A c \in ChunksOf(k) : chunk'[c] # "NONE",
           \A i \in Items : \/ item'[i] \notin Terminal /\ item[i] \notin Terminal
                            \/ item'[i] = item[i],
           UNCHANGED job
    PROVE  EndInv'
<1>1. pc[w] \notin Closing /\ pc[w] \notin Ruling
    BY MessageFields DEF TypeOK, WorkerTypes, Closing, Ruling, Verdicts
<1>2. pc'[w] = l /\ \A v \in Workers \ {w} : pc'[v] = pc[v] /\ msg'[v] = msg[v]
    BY DEF Hands
<1>3. ASSUME NEW i \in Items, Prepared(i), ~LostOf(i)'
      PROVE  Prepared(i)' \/ \A c \in ChunksOf(i) : chunk'[c] # "NONE"
    <2>1. CASE \E m \in ItemMsg : m.id = i /\ queue[m] > 0
        BY <2>1 DEF Prepared
    <2>2. CASE \E v \in Workers : pc[v] \in PrepSteps /\ msg[v].id = i
        <3>1. PICK v \in Workers : pc[v] \in PrepSteps /\ msg[v].id = i
            BY <2>2
        <3>2. CASE v = w
            BY <1>3, <3>1, <3>2 DEF LostOf
        <3>3. CASE v # w
            BY <1>2, <3>1, <3>3 DEF Prepared
        <3> QED BY <3>2, <3>3
    <2> QED BY <1>3, <2>1, <2>2 DEF Prepared
<1>4. \A i \in Items : AtClose(i) => AtClose(i)'
    BY <1>1, <1>2 DEF AtClose, ChunksOf
<1>5. AtVerdict => AtVerdict'
    BY <1>1, <1>2 DEF AtVerdict
<1>6. \A c \in Chunks : /\ chunk'[c] = "NONE" => chunk[c] = "NONE"
                        /\ chunk'[c] \in Terminal => chunk[c] \in Terminal
    BY DEF Terminal
<1> QED BY <1>3, <1>4, <1>5, <1>6, EndKept

(* The actions *)

LEMMA PrepTakeEnds ==
    ASSUME TypeOK, EndInv, NEW w \in Workers, NEW m \in Message, PrepTake(w, m) PROVE EndInv'
<1>1. pc[w] = "idle" /\ m \in ItemMsg /\ m.id \in Items /\ UNCHANGED <<job, chunk, lost>>
    BY MessageFields DEF PrepTake, rows, histories
<1>2. \A x \in Message : x # m => queue'[x] = queue[x]
    BY MailTaken DEF PrepTake
<1>3. CASE item[m.id] \in Terminal
    <2>1. UNCHANGED <<item, pc, msg>>
        BY <1>3 DEF PrepTake, rows, workers
    <2>2. \A i \in Items : Prepared(i) => Prepared(i)' \/ i = m.id
        BY <1>2, <2>1, MessageFields DEF Prepared
    <2>3. \A i \in Items : AtClose(i)' = AtClose(i)
        BY <2>1 DEF AtClose, ChunksOf
    <2>4. AtVerdict' = AtVerdict
        BY <2>1 DEF AtVerdict
    <2> QED BY <1>1, <1>3, <2>1, <2>2, <2>3, <2>4, EndKept
<1>4. CASE item[m.id] \notin Terminal
    <2>1. item' = [item EXCEPT ![m.id] = "IN_PROGRESS"] /\ msg' = [msg EXCEPT ![w] = m]
        BY <1>4 DEF PrepTake, rows, workers
    <2>2. PICK l \in {"extract", "render"} : pc' = [pc EXCEPT ![w] = l]
        BY <1>4 DEF PrepTake
    <2>3. /\ pc'[w] = l /\ msg'[w] = m
          /\ \A v \in Workers \ {w} : pc'[v] = pc[v] /\ msg'[v] = msg[v]
        BY <2>1, <2>2 DEF TypeOK, WorkerTypes
    <2>4. Prepared(m.id)'
        BY <2>3 DEF Prepared, PrepSteps
    <2>5. ASSUME NEW i \in Items, Prepared(i), i # m.id PROVE Prepared(i)'
        <3>1. CASE \E x \in ItemMsg : x.id = i /\ queue[x] > 0
            BY <1>2, <2>5, <3>1, MessageFields DEF Prepared
        <3>2. CASE \E v \in Workers : pc[v] \in PrepSteps /\ msg[v].id = i
            BY <1>1, <2>3, <3>2 DEF Prepared, PrepSteps
        <3> QED BY <2>5, <3>1, <3>2 DEF Prepared
    <2>6. \A i \in Items : AtClose(i) => AtClose(i)'
        BY <1>1, <2>3 DEF AtClose, ChunksOf, Closing
    <2>7. AtVerdict => AtVerdict'
        BY <1>1, <2>3 DEF AtVerdict, Ruling
    <2>8. \A i \in Items : item'[i] = IF i = m.id THEN "IN_PROGRESS" ELSE item[i]
        BY <2>1 DEF TypeOK, RowTypes
    <2>9. \A i \in Items : item'[i] \in Terminal <=> item[i] \in Terminal
        BY <1>4, <2>8 DEF Terminal
    <2> QED BY <1>1, <2>4, <2>5, <2>6, <2>7, <2>9, EndKept
<1> QED BY <1>3, <1>4

LEMMA ChunkTakeEnds ==
    ASSUME TypeOK, EndInv, NEW w \in Workers, NEW m \in Message, ChunkTake(w, m) PROVE EndInv'
<1>1. pc[w] = "idle" /\ m \in ChunkMsg /\ UNCHANGED <<job, item, chunk, lost>>
    BY MessageFields DEF ChunkTake, rows, histories
<1>2. \A x \in Message : x # m => queue'[x] = queue[x]
    BY MailTaken DEF ChunkTake
<1>3. \A x \in ItemMsg : queue'[x] = queue[x]
    BY <1>1, <1>2, MessageFields
<1>4. \A v \in Workers : pc[v] # "idle" => pc'[v] = pc[v] /\ msg'[v] = msg[v]
    BY <1>1 DEF ChunkTake, workers, TypeOK, WorkerTypes
<1>5. \A i \in Items : (Prepared(i) => Prepared(i)') /\ (AtClose(i) => AtClose(i)')
    BY <1>3, <1>4 DEF Prepared, PrepSteps, AtClose, ChunksOf, Closing
<1>6. AtVerdict => AtVerdict'
    BY <1>4 DEF AtVerdict, Ruling
<1> QED BY <1>1, <1>5, <1>6, EndKept

LEMMA PrepEnds ==
    ASSUME TypeOK, OpenInv, EndInv, NEW w \in Workers,
           PrepRender(w) \/ PrepExtracted(w) \/ PrepRows(w)
    PROVE  EndInv'
<1> PICK k : k = msg[w].id
    OBVIOUS
<1>1. /\ pc[w] \in PrepSteps /\ msg[w] \in ItemMsg /\ k \in Items
      /\ UNCHANGED <<job, queue, lost>>
    BY MessageFields
       DEF TypeOK, WorkerTypes, PrepRender, PrepExtracted, PrepRows, Running, PrepSteps, histories
<1>2. PICK l \in PrepSteps : Hands(w, l)
    BY GotoHands DEF PrepRender, PrepExtracted, PrepRows, Goto, PrepSteps
<1>3. item[k] \notin Terminal
    BY <1>1 DEF OpenInv
<1>4. UNCHANGED item \/ \E s \in {"DOWNLOADED", "IMAGES_EXTRACTED"} : item' = [item EXCEPT ![k] = s]
    BY DEF PrepRender, PrepExtracted, PrepRows
<1>5. \A i \in Items : item'[i] = item[i] \/ (item'[i] \notin Terminal /\ item[i] \notin Terminal)
    BY <1>3, <1>4 DEF Terminal, TypeOK, RowTypes
<1>6. \A c \in Chunks : chunk'[c] = chunk[c] \/ chunk'[c] = "PENDING"
    BY DEF PrepRender, PrepExtracted, PrepRows
<1>7. Prepared(k)'
    BY <1>1, <1>2 DEF Hands, Prepared, PrepSteps
<1> QED BY <1>1, <1>2, <1>5, <1>6, <1>7, PreparerEnds DEF PrepSteps

LEMMA DispatchEnds ==
    ASSUME TypeOK, LostInv, EndInv, NEW w \in Workers, PrepDispatch(w) PROVE EndInv'
<1> PICK k : k = msg[w].id
    OBVIOUS
<1>1. pc[w] = "dispatch" /\ msg[w] \in ItemMsg /\ UNCHANGED <<job, item, chunk, lost>>
    BY DEF TypeOK, WorkerTypes, PrepDispatch, Running, PrepSteps, rows, histories
<1>2. Hands(w, "idle")
    BY LeaveHands DEF PrepDispatch
<1>3. \A m \in Message : queue[m] > 0 => queue'[m] > 0
    <2>1. PICK M : queue' = Sent(queue, M)
        BY DEF PrepDispatch
    <2> QED BY <2>1, MailSent
<1>4. \A c \in ChunksOf(k) : chunk'[c] # "NONE"
    BY <1>1 DEF LostInv, RowsInv
<1> QED BY <1>1, <1>2, <1>3, <1>4, MessageFields, PreparerEnds

LEMMA PrepFailsEnds ==
    ASSUME TypeOK, OpenInv, EndInv, NEW w \in Workers, PrepFails(w) PROVE EndInv'
<1> PICK k : k = msg[w].id
    OBVIOUS
<1>1. /\ pc[w] \in PrepSteps /\ pc[w] # "idle" /\ msg[w] \in ItemMsg /\ k \in Items
      /\ UNCHANGED <<job, chunk, queue>>
    BY MessageFields DEF TypeOK, WorkerTypes, PrepFails, PrepSteps
<1>2. /\ Hands(w, "idle") /\ item' = [item EXCEPT ![k] = "PENDING"]
      /\ lost \subseteq lost' /\ k \in lost'
    BY LeaveHands DEF PrepFails
<1>3. item[k] \notin Terminal
    BY <1>1 DEF OpenInv
<1>4. \A i \in Items : item'[i] = item[i] \/ (item'[i] \notin Terminal /\ item[i] \notin Terminal)
    BY <1>2, <1>3 DEF Terminal, TypeOK, RowTypes
<1> QED BY <1>1, <1>2, <1>4, PreparerEnds

(* The reading of a chunk, until it is over.                                *)
LEMMA ReadingEnds ==
    ASSUME TypeOK, EndInv, NEW w \in Workers,
           \/ Claim(w) \/ ClaimRefused(w) \/ NoOcrTarget(w) \/ PageStop(w) \/ PageLook(w)
           \/ PageStart(w) \/ OcrFails(w) \/ SaveEngineTrack(w) \/ SaveDefaultTrack(w)
           \/ PageDone(w) \/ WorkFails(w) \/ Finish(w)
    PROVE  EndInv'
<1> PICK k, m : k = msg[w].id /\ m = msg[w]
    OBVIOUS
<1>1. pc[w] \in {"claim"} \cup Working /\ UNCHANGED <<job, item>> /\ lost \subseteq lost'
    BY DEF Claim, ClaimRefused, NoOcrTarget, PageStop, PageLook, PageStart, OcrFails,
       SaveEngineTrack, SaveDefaultTrack, PageDone, WorkFails, Finish, Running, Working, rows,
       histories
<1>2. m \in ChunkMsg /\ k \in Chunks /\ pc[w] \notin {"idle"} \cup Closing \cup Ruling
    BY <1>1, MessageFields DEF TypeOK, WorkerTypes, Working, Closing, Ruling
<1>3. \/ UNCHANGED chunk
      \/ \E s \in {"IN_PROGRESS", "PENDING", "FAILED", "COMPLETED"} :
            chunk' = [chunk EXCEPT ![k] = s]
            /\ (s \in {"FAILED", "COMPLETED"} => Goto(w, "close"))
    BY DEF Claim, ClaimRefused, NoOcrTarget, PageStop, PageLook, PageStart, OcrFails,
       SaveEngineTrack, SaveDefaultTrack, PageDone, WorkFails, Finish, Running, Working, rows
<1>4. UNCHANGED queue \/ (m.tries < MaxRetries /\ queue' = Sent(queue, {Retried(m)}))
    BY DEF Claim, ClaimRefused, NoOcrTarget, PageStop, PageLook, PageStart, OcrFails,
       SaveEngineTrack, SaveDefaultTrack, PageDone, WorkFails, Finish, rows
<1>5. \A x \in ItemMsg : queue'[x] = queue[x]
    <2>1. CASE m.tries < MaxRetries /\ queue' = Sent(queue, {Retried(m)})
        <3>1. Retried(m) \in ChunkMsg
            BY <1>2, <2>1, RetriedMessage
        <3> QED BY <2>1, <3>1, MessageFields DEF Sent
    <2> QED BY <1>4, <2>1
<1>6. \E l : Hands(w, l)
    <2>1. \/ Leave(w)
          \/ \E l \in Working \cup {"close"} : pc' = [pc EXCEPT ![w] = l] /\ UNCHANGED msg
        BY DEF Claim, ClaimRefused, NoOcrTarget, PageStop, PageLook, PageStart, OcrFails,
           SaveEngineTrack, SaveDefaultTrack, PageDone, WorkFails, Finish, Goto, Working
    <2> QED BY <2>1, LeaveHands, GotoHands
<1>7. PICK l : Hands(w, l)
    BY <1>6
<1>8. \A c \in Chunks : chunk'[c] = chunk[c] \/ (c = k /\ chunk'[c] # "NONE")
    BY <1>3 DEF TypeOK, RowTypes
<1>9. chunk'[k] \in Terminal => chunk[k] \in Terminal \/ l = "close"
    <2>1. CASE UNCHANGED chunk
        BY <2>1
    <2>2. ASSUME NEW s \in {"IN_PROGRESS", "PENDING", "FAILED", "COMPLETED"},
                 chunk' = [chunk EXCEPT ![k] = s],
                 s \in {"FAILED", "COMPLETED"} => Goto(w, "close")
          PROVE  chunk'[k] \in Terminal => l = "close"
        <3>1. chunk'[k] = s
            BY <1>2, <2>2 DEF TypeOK, RowTypes
        <3>2. Goto(w, "close") => l = "close"
            BY <1>7, GotoHands DEF Goto, Hands
        <3> QED BY <2>2, <3>1, <3>2 DEF Terminal
    <2> QED BY <1>3, <2>1, <2>2
<1> QED BY <1>1, <1>2, <1>5, <1>7, <1>8, <1>9, ReaderEnds

LEMMA ItemVerdictEnds ==
    ASSUME TypeOK, EndInv, NEW w \in Workers, FinalizeItem(w) \/ SealItem(w) PROVE EndInv'
<1> PICK k, i : k = msg[w].id /\ i = ItemOf[k]
    OBVIOUS
<1>1. /\ pc[w] \in Closing /\ msg[w] \in ChunkMsg /\ k \in Chunks /\ i \in Items
      /\ ItemOfTask(w) = i /\ UNCHANGED <<job, chunk, queue, lost>>
      /\ pc[w] # "idle" /\ pc[w] \notin Ruling
    BY MessageFields
       DEF FinalizeItem, SealItem, Running, TypeOK, WorkerTypes, ItemOfTask, Closing, Ruling,
           Verdicts, rows, histories
<1>2. CASE SealItem(w)
    <2>1. Hands(w, "ask") /\ "ask" \in Ruling
        BY <1>2, GotoHands DEF SealItem, Goto, Ruling
    <2>2. \E s \in {"COMPLETED", "FAILED"} : item' = [item EXCEPT ![i] = s]
        BY <1>1, <1>2 DEF SealItem
    <2>3. item'[i] \in Terminal /\ \A j \in Items : item'[j] = item[j] \/ item'[j] \in Terminal
        BY <1>1, <2>2 DEF Terminal, TypeOK, RowTypes
    <2> QED BY <1>1, <2>1, <2>3, ReaderEnds
<1>3. CASE \E l \in {"seal", "sealfailed"} : Goto(w, l) /\ UNCHANGED item
    <2>1. PICK l \in {"seal", "sealfailed"} : Hands(w, l) /\ UNCHANGED item
        BY <1>3, GotoHands DEF Goto
    <2>2. l \in Closing
        BY DEF Closing
    <2> QED BY <1>1, <2>1, <2>2, ReaderEnds
<1>4. CASE Leave(w) /\ UNCHANGED item /\ \E c \in ChunksOf(i) : chunk[c] \notin Terminal
    <2>1. Hands(w, "idle")
        BY <1>4, LeaveHands
    <2> QED BY <1>1, <1>4, <2>1, ReaderEnds
<1> QED BY <1>1, <1>2, <1>3, <1>4 DEF FinalizeItem, rows

LEMMA JobVerdictEnds ==
    ASSUME TypeOK, EndInv, NEW w \in Workers, AskExtraction(w) \/ FinalizeJob(w) \/ JudgeJob(w)
    PROVE  EndInv'
<1> PICK k : k = msg[w].id
    OBVIOUS
<1>1. /\ pc[w] \in Ruling /\ msg[w] \in ChunkMsg /\ k \in Chunks
      /\ UNCHANGED <<item, chunk, queue, lost>> /\ pc[w] # "idle" /\ pc[w] \notin Closing
    BY MessageFields
       DEF AskExtraction, FinalizeJob, JudgeJob, Running, TypeOK, WorkerTypes, Closing, Ruling,
           Verdicts, rows, histories
<1>2. CASE UNCHANGED job /\ \E l \in {"look", "judge", "judgefailed"} : Goto(w, l)
    <2>1. PICK l \in {"look", "judge", "judgefailed"} : Hands(w, l)
        BY <1>2, GotoHands DEF Goto
    <2>2. l \in Ruling
        BY DEF Ruling
    <2> QED BY <1>1, <1>2, <2>1, <2>2, ReaderEnds
<1>3. CASE Leave(w)
    <2>1. Hands(w, "idle")
        BY <1>3, LeaveHands
    <2>2. ~AskExtraction(w)
        BY <2>1 DEF AskExtraction, Goto, Hands, TypeOK, WorkerTypes
    <2>3. CASE FinalizeJob(w)
        <3>1. UNCHANGED job
            BY <2>3 DEF FinalizeJob, rows
        <3>2. ~\E l \in {"judge", "judgefailed"} : Goto(w, l)
            BY <2>1 DEF Goto, Hands, TypeOK, WorkerTypes
        <3>3. job \in Terminal \/ \E i \in Items : item[i] \notin Terminal
            BY <2>3, <3>2 DEF FinalizeJob
        <3> QED BY <1>1, <2>1, <3>1, <3>3, ReaderEnds
    <2>4. CASE JudgeJob(w)
        <3>1. job' \in Terminal
            BY <2>4 DEF JudgeJob, Terminal
        <3> QED BY <1>1, <2>1, <3>1, ReaderEnds
    <2> QED BY <2>2, <2>3, <2>4
<1> QED BY <1>2, <1>3 DEF AskExtraction, FinalizeJob, JudgeJob, rows

(* A task that is killed is delivered again, or counts as lost.             *)
LEMMA CrashEnds ==
    ASSUME TypeOK, EndInv, NEW w \in Workers, Crash(w) \/ ChildKilled(w) PROVE EndInv'
<1> PICK k, m : k = msg[w].id /\ m = msg[w]
    OBVIOUS
<1>1. /\ pc[w] # "idle" /\ m \in Message /\ Hands(w, "idle")
      /\ UNCHANGED <<job, item, chunk>> /\ lost \subseteq lost'
    BY LeaveHands DEF Crash, ChildKilled, rows, TypeOK, WorkerTypes
<1>2. queue' = Sent(queue, {m}) \/ (UNCHANGED queue /\ k \in lost')
    BY DEF Crash, ChildKilled
<1>3. pc[w] \in Closing \cup Ruling => k \in lost'
    BY DEF Crash, ChildKilled, Closing, Ruling, Verdicts
<1>4. \A x \in Message : queue[x] > 0 => queue'[x] > 0
    BY <1>1, <1>2, MailSent
<1>5. CASE m \in ChunkMsg
    <2>1. \A x \in ItemMsg : queue'[x] = queue[x]
        BY <1>1, <1>2, <1>5, MessageFields DEF Sent
    <2> QED BY <1>1, <1>3, <1>5, <2>1, ReaderEnds
<1>6. CASE m \in ItemMsg
    <2>1. Prepared(k)' \/ k \in lost'
        BY <1>1, <1>2, <1>6, MailSent DEF Prepared
    <2> QED BY <1>1, <1>4, <1>6, <2>1, MessageFields, PreparerEnds
<1> QED BY <1>1, <1>5, <1>6 DEF Message

AttendInv == Unrepeated /\ Unretried => job \in Terminal \/ EndInv

LEMMA StepEnds ==
    ASSUME TypeOK, LostInv, OpenInv, EndInv, [Next]_vars, ~Cancel, ~cli.on,
           \A w \in Workers : ~Redeliver(w), \A f \in Forces : ~RetryBegin(f)
    PROVE  EndInv'
<1>1. ASSUME NEW m \in Message, Receive(m) PROVE EndInv'
    BY <1>1, PrepTakeEnds, ChunkTakeEnds DEF Receive
<1>2. ASSUME NEW w \in Workers, WorkerStep(w) PROVE EndInv'
    BY <1>2, PrepEnds, DispatchEnds, ReadingEnds, ItemVerdictEnds, JobVerdictEnds
       DEF WorkerStep
<1>3. ASSUME NEW w \in Workers, WorkerFault(w) PROVE EndInv'
    BY <1>3, PrepFailsEnds, ReadingEnds DEF WorkerFault
<1>4. ASSUME NEW w \in Workers, Crash(w) \/ ChildKilled(w) PROVE EndInv'
    BY <1>4, CrashEnds
<1>5. ASSUME NEW c \in Chunks, LeaseLapses(c) PROVE EndInv'
    BY <1>5, EndStays DEF LeaseLapses, workers
<1>6. ~RetryStep
    BY RetryRuns
<1>7. ASSUME UNCHANGED vars PROVE EndInv'
    BY <1>7, EndStays DEF vars, rows, workers, histories
<1> QED BY <1>1, <1>2, <1>3, <1>4, <1>5, <1>6, <1>7 DEF Next

(* A job nobody has delivered a message of twice, or retried, changes by    *)
(* steps that do neither.                                                   *)
LEMMA PlainStep ==
    ASSUME TypeOK, SparedInv, SettledInv, [Next]_vars, Unrepeated', Unretried'
    PROVE  /\ Unrepeated /\ Unretried /\ ~cli.on
           /\ (\A w \in Workers : ~Redeliver(w)) /\ (\A f \in Forces : ~RetryBegin(f))
<1>1. {budget.dup, budget.retry, MaxDups, MaxRetryCmds} \subseteq Nat
    BY DEF TypeOK, OtherTypes
<1>2. budget'.dup = MaxDups /\ budget'.retry = MaxRetryCmds
    BY DEF Unrepeated, Unretried
<1>3. Unrepeated /\ \A w \in Workers : ~Redeliver(w)
    BY <1>1, <1>2, RepeatSpends DEF SettledInv, Unrepeated
<1>4. Unretried /\ ~cli.on
    BY <1>1, <1>2, CommandSpends DEF SparedInv, Spends, Unretried
<1>5. \A f \in Forces : ~RetryBegin(f)
    BY <1>1, <1>2, <1>4 DEF RetryBegin, Unretried, TypeOK, OtherTypes
<1> QED BY <1>3, <1>4, <1>5

LEMMA AttendStep == TypeOK /\ SparedInv /\ SettledInv /\ AttendInv /\ [Next]_vars => AttendInv'
<1> SUFFICES ASSUME TypeOK, SparedInv, SettledInv, AttendInv, [Next]_vars,
                    Unrepeated', Unretried'
             PROVE  job' \in Terminal \/ EndInv'
    BY DEF AttendInv
<1>1. /\ Unrepeated /\ Unretried /\ ~cli.on
      /\ (\A w \in Workers : ~Redeliver(w)) /\ (\A f \in Forces : ~RetryBegin(f))
    BY PlainStep
<1>2. CASE job \in Terminal
    BY <1>1, <1>2, OverStays
<1>3. CASE Cancel
    BY <1>3 DEF Cancel, Terminal
<1>4. CASE job \notin Terminal /\ ~Cancel
    <2>1. LostInv /\ OpenInv /\ EndInv
        BY <1>1, <1>4 DEF SparedInv, SettledInv, AttendInv, DoneInv, Terminal
    <2> QED BY <1>1, <1>4, <2>1, StepEnds
<1> QED BY <1>2, <1>3, <1>4

(* On the first attempt, a job that is not over and lost nothing has        *)
(* somebody who will close it: the raising preparation, the refused claim   *)
(* out of retries, the killed child and the worker that dies from the last  *)
(* write to a chunk to the verdicts are the only events that can leave a    *)
(* job open for ever, and a document only when it is the one they hit.      *)
THEOREM JobIsNotAbandoned == Spec => []OpenJobIsAttended
<1>1. IndInv /\ SparedInv /\ [Next]_vars => SparedInv'
    BY SparedStep DEF IndInv
<1>2. IndInv /\ SparedInv /\ SettledInv /\ [Next]_vars => SettledInv'
    BY SettledStep DEF IndInv
<1>3. IndInv /\ SparedInv /\ SettledInv /\ AttendInv /\ [Next]_vars => AttendInv'
    BY AttendStep DEF IndInv
<1>4. IndInv /\ SparedInv /\ AttendInv => OpenJobIsAttended
    <2> SUFFICES ASSUME TypeOK, SparedInv, AttendInv, Unrepeated, Unretried, job \notin Terminal
                 PROVE  OpenJobIsAttended
        BY DEF IndInv, Unrepeated, Unretried, OpenJobIsAttended, FirstAttempt
    <2> QED BY EndImplies DEF SparedInv, AttendInv
<1>5. Init => AttendInv
    BY EndInit DEF AttendInv
<1> QED BY <1>1, <1>2, <1>3, <1>4, <1>5, SparedInit, SettledInit, Invariance, PTL DEF Spec
=============================================================================
