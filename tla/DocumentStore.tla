----------------------------- MODULE DocumentStore -----------------------------
(***************************************************************************)
(* The documents of a page's revisions: save_revision_document,            *)
(* load_revision_document, load_page_ocr and reconcile_db_to_storage of    *)
(* kalanjiyam/utils/document_storage.py, with the Redis cache and the      *)
(* stampede locks of kalanjiyam/utils/ocr_cache.py.                        *)
(*                                                                         *)
(* One version track of one page.  All its revisions share one object in   *)
(* S3 (its key is made of the track's tag); a document that cannot be put  *)
(* there goes to the column of its revision, and reconcile-storage moves   *)
(* it to S3 later.  A document is named by the revision it belongs to.     *)
(***************************************************************************)
EXTENDS Integers

CONSTANTS
    Savers,         \* processes that save revisions of the track
    Reconciler,     \* the process of cli.py reconcile-storage
    Readers,        \* requests that load the page's bounding boxes
    None,           \* no cached entry, no lock holder
    MaxRevs,        \* bound: revisions of the track
    MaxFaults       \* bound: outages of S3 and processes that die

ASSUME ConstantsAssumption ==
    /\ Reconciler \notin Savers
    /\ None \notin Readers
    /\ MaxRevs \in Nat \ {0, 1} /\ MaxFaults \in Nat

VARIABLES
    version,    \* PageVersion.version
    rows,       \* Revision rows; revision ids are 1 .. rows
    object,     \* the revision whose document the S3 object holds; 0: no object
    column,     \* revisions whose Revision.document is not null
    up,         \* S3 answers
    boxes,      \* Redis: the envelope ocr:cache:bboxes:...
    docs,       \* Redis: ocr:cache:rev:<id> of a revision; 0: no entry
    lock,       \* Redis: lock:stampede:bboxes:..., its holder
    wpc,        \* a writer's step
    mine,       \* the revision it stores
    todo,       \* revisions the reconciler has still to push
    pushed,     \* revisions it pushed since its transaction began
    pc,         \* a reader's step
    seen,       \* the track's row and its latest revision as it read them
    doc,        \* what it has fetched; 0: nothing
    stale,      \* it has read an envelope that does not match and will delete it
    leads,      \* it holds a token of the lock
    stored,     \* history: revisions whose document was put into S3
    lost,       \* history: revisions whose saver died
    floor,      \* history: the object's content when a revision was inserted
    outages,    \* outages so far
    crashes     \* processes that died

store == <<version, rows, object, column, up>>
redis == <<boxes, docs, lock>>
writers == <<wpc, mine, todo, pushed>>
readers == <<pc, seen, doc, stale, leads>>
history == <<stored, lost, floor, outages, crashes>>
vars == <<store, redis, writers, readers, history>>

Writers == Savers \cup {Reconciler}
Revs == 1 .. MaxRevs
Envelope == [version : Nat, rev : Revs, doc : Revs]

NoRow == [version |-> 0, rev |-> 0, column |-> FALSE]

(* A track with two revisions.  A slow reader of the first may have left    *)
(* its boxes in the cache after the second was saved.                       *)
Init ==
    /\ version = 2 /\ rows = 2 /\ object = 2 /\ column = {} /\ up = TRUE
    /\ boxes \in {None, [version |-> 1, rev |-> 1, doc |-> 1]}
    /\ docs = [n \in Revs |-> 0]
    /\ lock = None
    /\ wpc = [w \in Writers |-> "idle"]
    /\ mine = [w \in Writers |-> 0]
    /\ todo = {} /\ pushed = {}
    /\ pc = [r \in Readers |-> "idle"]
    /\ seen = [r \in Readers |-> NoRow]
    /\ doc = [r \in Readers |-> 0]
    /\ stale = [r \in Readers |-> FALSE]
    /\ leads = [r \in Readers |-> FALSE]
    /\ stored = {1, 2} /\ lost = {}
    /\ floor = [n \in Revs |-> IF n = 2 THEN 1 ELSE 0]
    /\ outages = 0 /\ crashes = 0

-----------------------------------------------------------------------------
(* add_revision *)

(* Mutant: the counter stays.                                               *)
Bump_Not(s) ==
    /\ wpc[s] = "idle" /\ version < MaxRevs
    /\ wpc' = [wpc EXCEPT ![s] = "insert"]
    /\ UNCHANGED <<store, redis, mine, todo, pushed, readers, history>>

(* Its first commit bumps the track's counter.                              *)
Bump(s) ==
    /\ wpc[s] = "idle" /\ version < MaxRevs
    /\ version' = version + 1
    /\ wpc' = [wpc EXCEPT ![s] = "insert"]
    /\ UNCHANGED <<rows, object, column, up, redis, mine, todo, pushed, readers, history>>

(* Its second commit inserts the revision.                                  *)
InsertRow(s) ==
    /\ wpc[s] = "insert"
    /\ rows' = rows + 1
    /\ mine' = [mine EXCEPT ![s] = rows + 1]
    /\ floor' = [floor EXCEPT ![rows + 1] = object]
    /\ wpc' = [wpc EXCEPT ![s] = "upload"]
    /\ UNCHANGED <<version, object, column, up, redis, todo, pushed, readers,
                   stored, lost, outages, crashes>>

-----------------------------------------------------------------------------
(* save_revision_document, called by add_revision and by the reconciler *)

AfterSave(w) == IF w = Reconciler THEN "push" ELSE "idle"

(* The object of the track's tag is overwritten.                            *)
Upload(w) ==
    /\ wpc[w] = "upload" /\ up
    /\ object' = mine[w]
    /\ stored' = stored \cup {mine[w]}
    /\ wpc' = [wpc EXCEPT ![w] = "cache"]
    /\ UNCHANGED <<version, rows, column, up, redis, mine, todo, pushed, readers,
                   lost, floor, outages, crashes>>

(* Mutant: the failure is logged, no more.                                  *)
UploadFails_Logs(w) ==
    /\ wpc[w] = "upload" /\ ~up
    /\ wpc' = [wpc EXCEPT ![w] = AfterSave(w)]
    /\ UNCHANGED <<store, redis, mine, todo, pushed, readers, history>>

(* S3 does not answer: the document goes to the revision's column.  The     *)
(* reconciler's revision has it there already.                              *)
UploadFails(w) ==
    /\ wpc[w] = "upload" /\ ~up
    /\ column' = column \cup {mine[w]}
    /\ wpc' = [wpc EXCEPT ![w] = AfterSave(w)]
    /\ UNCHANGED <<version, rows, object, up, redis, mine, todo, pushed, readers, history>>

(* set_cached_revision_document.                                            *)
CacheDocument(w) ==
    /\ wpc[w] = "cache"
    /\ docs' = [docs EXCEPT ![mine[w]] = mine[w]]
    /\ wpc' = [wpc EXCEPT ![w] = "invalidate"]
    /\ UNCHANGED <<store, boxes, lock, mine, todo, pushed, readers, history>>

(* invalidate_page_ocr_cache; the reconciler notes the column to be cleared.*)
Invalidate(w) ==
    /\ wpc[w] = "invalidate"
    /\ boxes' = None
    /\ wpc' = [wpc EXCEPT ![w] = AfterSave(w)]
    /\ pushed' = IF w = Reconciler THEN pushed \cup {mine[w]} ELSE pushed
    /\ UNCHANGED <<store, docs, lock, mine, todo, readers, history>>

-----------------------------------------------------------------------------
(* reconcile_db_to_storage *)

(* S3 is healthy: the revisions with a document in their column are listed. *)
ReconcileStart ==
    /\ wpc[Reconciler] = "idle" /\ up /\ column # {}
    /\ todo' = column
    /\ wpc' = [wpc EXCEPT ![Reconciler] = "push"]
    /\ UNCHANGED <<store, redis, mine, pushed, readers, history>>

(* They are pushed in no particular order.                                  *)
ReconcileNext ==
    /\ wpc[Reconciler] = "push"
    /\ \E n \in todo :
          /\ mine' = [mine EXCEPT ![Reconciler] = n]
          /\ todo' = todo \ {n}
    /\ wpc' = [wpc EXCEPT ![Reconciler] = "upload"]
    /\ UNCHANGED <<store, redis, pushed, readers, history>>

(* One commit clears the columns of those that reached S3.                  *)
ReconcileCommit ==
    /\ wpc[Reconciler] = "push" /\ todo = {}
    /\ column' = column \ pushed
    /\ pushed' = {}
    /\ wpc' = [wpc EXCEPT ![Reconciler] = "idle"]
    /\ UNCHANGED <<version, rows, object, up, redis, mine, todo, readers, history>>

-----------------------------------------------------------------------------
(* load_page_ocr: the rows are read *)

Goto(r, l) == pc' = [pc EXCEPT ![r] = l]

(* page.versions; their counters are read before their revisions.           *)
ReadTrack(r) ==
    /\ pc[r] = "idle"
    /\ seen' = [seen EXCEPT ![r].version = version]
    /\ Goto(r, "row")
    /\ UNCHANGED <<store, redis, writers, doc, stale, leads, history>>

(* track.revisions[-1], with its document column.                           *)
ReadRow(r) ==
    /\ pc[r] = "row"
    /\ seen' = [seen EXCEPT ![r].rev = rows, ![r].column = rows \in column]
    /\ Goto(r, "check")
    /\ UNCHANGED <<store, redis, writers, doc, stale, leads, history>>

-----------------------------------------------------------------------------
(* coalesce_cache_fetch *)

(* Mutant: an envelope is valid for every later revision.                   *)
Valid_IgnoresRevision(e, s) == e # None /\ e.rev <= s.rev

(* get_cached_page_bboxes: the version and revision of an envelope are      *)
(* compared with the reader's.                                              *)
Valid(e, s) == e # None /\ e.version = s.version /\ e.rev = s.rev

(* A GET at step l: a hit is returned, an envelope that does not match will *)
(* be deleted, and after a miss the reader goes on to step m.               *)
Get(r, l, m) ==
    /\ pc[r] = l /\ ~stale[r]
    /\ IF Valid(boxes, seen[r])
       THEN /\ doc' = [doc EXCEPT ![r] = boxes.doc]
            /\ Goto(r, "release")
            /\ UNCHANGED stale
       ELSE /\ stale' = [stale EXCEPT ![r] = boxes # None]
            /\ Goto(r, m)
            /\ UNCHANGED doc
    /\ UNCHANGED <<store, redis, writers, seen, leads, history>>

Check(r) == Get(r, "check", "lock")
CheckAgain(r) == Get(r, "again", "document")
Poll(r) == Get(r, "wait", "wait")

(* The DELETE that follows a stale GET.                                     *)
Evict(r) ==
    /\ stale[r]
    /\ boxes' = None
    /\ stale' = [stale EXCEPT ![r] = FALSE]
    /\ UNCHANGED <<store, docs, lock, writers, pc, seen, doc, leads, history>>

(* acquire_stampede_lock: SET NX.  The leader checks again, others wait.    *)
Lock(r) ==
    /\ pc[r] = "lock" /\ ~stale[r]
    /\ IF lock = None
       THEN /\ lock' = r
            /\ leads' = [leads EXCEPT ![r] = TRUE]
            /\ Goto(r, "again")
       ELSE /\ Goto(r, "wait")
            /\ UNCHANGED <<lock, leads>>
    /\ UNCHANGED <<store, boxes, docs, writers, seen, doc, stale, history>>

(* Mutant: a follower waits until the leader has filled the cache.          *)
WaitTimeout_Never(r) == FALSE /\ UNCHANGED vars

(* After wait_timeout the follower fetches itself.                          *)
WaitTimeout(r) ==
    /\ pc[r] = "wait" /\ ~stale[r]
    /\ Goto(r, "document")
    /\ UNCHANGED <<store, redis, writers, seen, doc, stale, leads, history>>

(* load_revision_document: a document cached under the revision's id is     *)
(* taken as it is.                                                          *)
GetDocument(r) ==
    /\ pc[r] = "document" /\ ~stale[r]
    /\ doc' = [doc EXCEPT ![r] = docs[seen[r].rev]]
    /\ Goto(r, IF docs[seen[r].rev] # 0 THEN "put" ELSE "fetch")
    /\ UNCHANGED <<store, redis, writers, seen, stale, leads, history>>

(* Otherwise the object of the tag is fetched, or the column as it was read.*)
FetchDocument(r) ==
    /\ pc[r] = "fetch"
    /\ doc' = [doc EXCEPT ![r] = IF up /\ object # 0 THEN object
                                 ELSE IF seen[r].column THEN seen[r].rev ELSE 0]
    /\ Goto(r, "cache")
    /\ UNCHANGED <<store, redis, writers, seen, stale, leads, history>>

(* What was fetched is cached for the revision.                             *)
PutDocument(r) ==
    /\ pc[r] = "cache"
    /\ docs' = IF doc[r] # 0 THEN [docs EXCEPT ![seen[r].rev] = doc[r]] ELSE docs
    /\ Goto(r, "put")
    /\ UNCHANGED <<store, boxes, lock, writers, seen, doc, stale, leads, history>>

(* The boxes derived from it are cached in their envelope.                  *)
PutBoxes(r) ==
    /\ pc[r] = "put"
    /\ boxes' = IF doc[r] = 0 THEN boxes
                ELSE [version |-> seen[r].version, rev |-> seen[r].rev, doc |-> doc[r]]
    /\ Goto(r, "release")
    /\ UNCHANGED <<store, docs, lock, writers, seen, doc, stale, leads, history>>

(* The request is over.                                                     *)
Return(r) ==
    /\ seen' = [seen EXCEPT ![r] = NoRow]
    /\ doc' = [doc EXCEPT ![r] = 0]
    /\ leads' = [leads EXCEPT ![r] = FALSE]

(* Mutant: the lock is deleted without comparing its token.                 *)
Release_AnyToken(r) ==
    /\ pc[r] = "release"
    /\ lock' = IF leads[r] THEN None ELSE lock
    /\ Return(r)
    /\ Goto(r, "done")
    /\ UNCHANGED <<store, boxes, docs, writers, stale, history>>

(* release_stampede_lock compares the token and deletes in one script.      *)
Release(r) ==
    /\ pc[r] = "release"
    /\ lock' = IF leads[r] /\ lock = r THEN None ELSE lock
    /\ Return(r)
    /\ Goto(r, "done")
    /\ UNCHANGED <<store, boxes, docs, writers, stale, history>>

-----------------------------------------------------------------------------
(* The environment *)

(* lock_ttl has passed, whether the holder still works or not.              *)
LockExpires ==
    /\ lock # None
    /\ lock' = None
    /\ UNCHANGED <<store, boxes, docs, writers, readers, history>>

Outage ==
    /\ up /\ outages + crashes < MaxFaults
    /\ up' = FALSE
    /\ outages' = outages + 1
    /\ UNCHANGED <<version, rows, object, column, redis, writers, readers,
                   stored, lost, floor, crashes>>

Recovery ==
    /\ ~up
    /\ up' = TRUE
    /\ UNCHANGED <<version, rows, object, column, redis, writers, readers, history>>

(* A process dies.  Its open transaction is rolled back, its locks stay.    *)
WriterCrash(w) ==
    /\ wpc[w] # "idle" /\ outages + crashes < MaxFaults
    /\ crashes' = crashes + 1
    /\ wpc' = [wpc EXCEPT ![w] = "idle"]
    /\ lost' = IF w \in Savers /\ wpc[w] = "upload" THEN lost \cup {mine[w]} ELSE lost
    /\ todo' = IF w = Reconciler THEN {} ELSE todo
    /\ pushed' = IF w = Reconciler THEN {} ELSE pushed
    /\ UNCHANGED <<store, redis, mine, readers, stored, floor, outages>>

ReaderCrash(r) ==
    /\ pc[r] \notin {"idle", "done"} /\ outages + crashes < MaxFaults
    /\ crashes' = crashes + 1
    /\ Goto(r, "done")
    /\ Return(r)
    /\ stale' = [stale EXCEPT ![r] = FALSE]
    /\ UNCHANGED <<store, redis, writers, stored, lost, floor, outages>>

-----------------------------------------------------------------------------
SaveDocument(w) == Upload(w) \/ UploadFails(w) \/ CacheDocument(w) \/ Invalidate(w)
Reconcile == ReconcileStart \/ ReconcileNext \/ ReconcileCommit
ReadRows(r) == ReadTrack(r) \/ ReadRow(r)
Coalesce(r) ==
    \/ Check(r) \/ CheckAgain(r) \/ Poll(r) \/ Evict(r) \/ Lock(r) \/ WaitTimeout(r)
    \/ GetDocument(r) \/ FetchDocument(r) \/ PutDocument(r) \/ PutBoxes(r) \/ Release(r)

Next ==
    \/ \E s \in Savers : Bump(s) \/ InsertRow(s)
    \/ \E w \in Writers : SaveDocument(w) \/ WriterCrash(w)
    \/ Reconcile
    \/ \E r \in Readers : ReadRows(r) \/ Coalesce(r) \/ ReaderCrash(r)
    \/ LockExpires \/ Outage \/ Recovery

Spec == Init /\ [][Next]_vars

(* A request is worked off to its end; wait_timeout is measured by the clock*)
(* and needs no cached entry.                                               *)
FairSpec == Spec /\ \A r \in Readers : WF_vars(ReadRow(r) \/ Coalesce(r))

-----------------------------------------------------------------------------
(* Properties *)

(* The rows, cache entries and locals keep their types.                     *)
TypeOK ==
    /\ version \in 0 .. MaxRevs /\ rows \in 0 .. version /\ object \in 0 .. rows
    /\ column \subseteq 1 .. rows /\ up \in BOOLEAN
    /\ boxes \in Envelope \cup {None}
    /\ docs \in [Revs -> 0 .. MaxRevs]
    /\ lock \in Readers \cup {None}
    /\ wpc \in [Writers -> {"idle", "insert", "push", "upload", "cache", "invalidate"}]
    /\ mine \in [Writers -> 0 .. MaxRevs]
    /\ todo \subseteq column /\ pushed \subseteq column
    /\ pc \in [Readers -> {"idle", "row", "check", "lock", "again", "wait", "document",
                           "fetch", "cache", "put", "release", "done"}]
    /\ seen \in [Readers -> [version : 0 .. MaxRevs, rev : 0 .. MaxRevs, column : BOOLEAN]]
    /\ doc \in [Readers -> 0 .. MaxRevs]
    /\ stale \in [Readers -> BOOLEAN]
    /\ leads \in [Readers -> BOOLEAN]
    /\ stored \subseteq Revs /\ lost \subseteq Revs
    /\ floor \in [Revs -> 0 .. MaxRevs]
    /\ outages \in Nat /\ crashes \in Nat

(* A leader that is slower than the lock's time to live never takes the     *)
(* lock from the reader that leads by then: only an expiry or the holder's  *)
(* own release frees a lock.                                                *)
LocksAreTheirHolders ==
    [][lock # None /\ lock' # lock =>
          lock' = None /\ (pc'[lock] = "done" \/ pc' = pc)]_vars

(* A document whose save is over is in S3 or in its column, through outages,*)
(* failed uploads and reconciliations that die half-way; only the death of  *)
(* its own saver loses it.                                                  *)
DocumentIsStored ==
    \A n \in 1 .. rows :
        \/ n \in stored \cup column \cup lost
        \/ \E s \in Savers : wpc[s] = "upload" /\ mine[s] = n

(* While no document has come back from a column and saves do not overlap,  *)
(* a reader is never served a text older than the one that was stored when  *)
(* the revision it asks for was made.                                       *)
ReadsKeepUp ==
    outages = 0 /\ (\A s, t \in Savers : s = t) =>
        \A r \in Readers : pc[r] = "release" /\ doc[r] # 0 => doc[r] >= floor[seen[r].rev]

(* Every read is answered or dies with its process: a dead or slow leader   *)
(* holds up nobody for ever.  (A reader reads once.)                        *)
ReadsEnd == <>[](\A r \in Readers : pc[r] \in {"idle", "done"})

-----------------------------------------------------------------------------
(* What the docs say, and the code does not keep *)

(* "If a revision changes in the database, stale keys are automatically     *)
(* evicted on read": when no save is under way, an envelope that passes     *)
(* the check holds the boxes of the latest revision.                        *)
StaleBoxesAreEvicted ==
    (\A w \in Writers : wpc[w] = "idle") /\ rows \notin lost =>
        (Valid(boxes, [version |-> version, rev |-> rows]) => boxes.doc = rows)
=============================================================================
