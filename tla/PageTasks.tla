----------------------------- MODULE PageTasks -----------------------------
(* The page tasks a proofing project is worked on with: OCR, enhanced OCR   *)
(* and translation of single pages (kalanjiyam/tasks/ocr.py,                *)
(* tasks/translation.py), started for a whole project from its page         *)
(* (views/proofing/project.py), for one page from the editor                *)
(* (views/proofing/page.py), or by a multi-batch operation (TaskTray).      *)
(* Workers run the tasks, save revisions by the bot, charge the quota       *)
(* (utils/quotas.py) and keep the books of the run they belong to           *)
(* (models/batch.py: one BatchItem per run, one BatchOcrPage per page).     *)
(* Celery acknowledges a task after it has run, so a task may be delivered  *)
(* again after a crash, or while it still runs.  One project, one engine    *)
(* and one language pair.                                                   *)
EXTENDS Naturals, Sequences, FiniteSets

CONSTANTS
  PageCount,   \* pages of the project
  Workers,     \* Celery workers
  Editors,     \* requests of the page editor
  Posts,       \* requests that start a run of the project
  Kinds,       \* the kinds of work that are asked for, a subset of Work
  Limit,       \* credits the organization has, of each sort
  MaxItems,    \* bound: batch items ever created
  MaxEvents    \* bound: crashes, repeated deliveries, failed engine calls,
               \* edits, editor requests and cancellations, all together

Work   == {"ocr", "enhanced", "translation"}
Pages  == 1..PageCount
Actors == Workers \cup Editors

ASSUME ConstantsAssumption ==
  /\ PageCount \in Nat \ {0} /\ MaxItems \in Nat /\ Limit \in Nat
  /\ MaxEvents \in Nat
  /\ Kinds \subseteq Work
  /\ Workers \cap Editors = {}

VARIABLES
  revs,     \* page -> its revisions, oldest first: the track and whether the bot wrote it
  ver,      \* page -> track -> PageVersion.version, 0 while the track is not there
  boxes,    \* the pages with ocr_bounding_boxes
  trans,    \* Translation rows: <<page, number of the revision translated>>
  items,    \* BatchItems by id, each with its job, its BatchOcrPage rows and its results
  mail,     \* task messages in the broker: <<item, page>>, page 0 for a multi-batch
  revoked,  \* worker -> the messages it was told to revoke
  used,     \* credits used, by sort
  act,      \* what each worker and each editor request is doing
  slot,     \* Redis: kind -> the run shown as under way, 0 for none
  posts,    \* what each request that starts a run is doing
  spent     \* how many events of each sort there were

vars == <<revs, ver, boxes, trans, items, mail, revoked, used, act, slot, posts, spent>>

Tracks  == Work \cup {"edit"}
Sorts   == {"ocr", "translation"}
SortOf(k) == IF k = "translation" THEN "translation" ELSE "ocr"

Idle == [pc |-> "idle", item |-> 0, kind |-> "-", page |-> 0, pv |-> 0, src |-> 0,
         seen |-> 0, book |-> 0, close |-> FALSE, todo |-> {}, errs |-> 0]

Init ==
  /\ revs = [p \in Pages |-> <<>>]
  /\ ver = [p \in Pages |-> [t \in Tracks |-> 0]]
  /\ boxes = {} /\ trans = {} /\ items = <<>> /\ mail = {}
  /\ revoked = [w \in Workers |-> {}]
  /\ used = [s \in Sorts |-> 0]
  /\ act = [a \in Actors |-> Idle]
  /\ slot = [k \in Kinds |-> 0]
  /\ posts = [r \in Posts |-> [pc |-> "idle", kind |-> "-", item |-> 0]]
  /\ spent = [faults |-> 0, edits |-> 0, cancels |-> 0]

Spend(what) ==
  /\ spent.faults + spent.edits + spent.cancels < MaxEvents
  /\ spent' = [spent EXCEPT ![what] = @ + 1]

Written(p, t, bot) == \E i \in DOMAIN revs[p] : revs[p][i] = [track |-> t, bot |-> bot]
Edited(p)          == \E i \in DOMAIN revs[p] : ~revs[p][i].bot
\* The bot did this page before.
Done_ByTrack(p, k) == ver[p][k] # 0
Done(p, k)         == ver[p][k] # 0 /\ Written(p, k, TRUE)
HasCredit(k)       == used[SortOf(k)] < Limit

----------------------------------------------------------------------------
(* Runs of a project.                                                       *)

\* run_ocr_for_project and its siblings: OCR leaves out the pages a person
\* wrote on, translation takes the pages that have text.
PagesFor(k) == {p \in Pages : IF k = "translation" THEN revs[p] # <<>> ELSE ~Edited(p)}

NewItem(k, P, total) ==
  [kind |-> k, total |-> total, status |-> "IN_PROGRESS", job |-> "IN_PROGRESS",
   row |-> [p \in Pages |-> IF p \in P THEN "PENDING" ELSE "none"],
   res |-> [p \in Pages |-> IF p \in P THEN "PENDING" ELSE "none"],
   redis |-> "none", plan |-> {}]

Results(i)   == {items[i].res[p] : p \in Pages} \ {"none"}
AllSuccess(i) == Results(i) = {"SUCCESS"}

\* The POST looks the kind up in Redis: a run whose tasks have not all
\* succeeded is shown instead of starting another, one that has is forgotten.
PostCheck(r, k) ==
  /\ posts[r].pc = "idle" /\ Len(items) < MaxItems
  /\ slot[k] # 0 => AllSuccess(slot[k])
  /\ slot' = [slot EXCEPT ![k] = 0]
  /\ posts' = [posts EXCEPT ![r] = [pc |-> "run", kind |-> k, item |-> 0]]
  /\ UNCHANGED <<revs, ver, boxes, trans, items, mail, revoked, used, act, spent>>

\* Job, item and page rows are one commit, then the group of tasks is sent.
PostRun(r) ==
  LET k == posts[r].kind
      P == PagesFor(k)
      i == Len(items) + 1
  IN /\ posts[r].pc = "run"
     /\ IF P = {}
        THEN posts' = [posts EXCEPT ![r].pc = "idle"] /\ UNCHANGED <<items, mail>>
        ELSE /\ i <= MaxItems
             /\ items' = Append(items, NewItem(k, P, Cardinality(P)))
             /\ mail' = mail \cup ({i} \X P)
             /\ posts' = [posts EXCEPT ![r].pc = "key", ![r].item = i]
     /\ UNCHANGED <<revs, ver, boxes, trans, revoked, used, act, slot, spent>>

PostKey(r) ==
  /\ posts[r].pc = "key"
  /\ slot' = [slot EXCEPT ![posts[r].kind] = posts[r].item]
  /\ posts' = [posts EXCEPT ![r].pc = "idle"]
  /\ UNCHANGED <<revs, ver, boxes, trans, items, mail, revoked, used, act, spent>>

\* The status page forgets the run once every task succeeded, or as soon as
\* one has failed or was revoked, whatever the others do.
StatusPoll(k) ==
  /\ slot[k] # 0
  /\ AllSuccess(slot[k]) \/ Results(slot[k]) \cap {"FAILURE", "REVOKED"} # {}
  /\ slot' = [slot EXCEPT ![k] = 0]
  /\ UNCHANGED <<revs, ver, boxes, trans, items, mail, revoked, used, act, posts, spent>>

----------------------------------------------------------------------------
(* The page task.  Its steps are the commits and calls of the code, in its  *)
(* order; a multi-batch worker takes the same steps page after page.        *)

Go(a, pc) == act' = [act EXCEPT ![a].pc = pc]

\* Celery does not replace a stored success.
Stored(old, new) == IF old = "SUCCESS" THEN old ELSE new

\* The task returns or raises: its result is stored and the worker is free.
\* A multi-batch notes the outcome, rewrites its state in Redis and goes on.
Ends(a, outcome) ==
  LET i == act[a].item
  IN IF items[i].kind = "multi"
     THEN /\ items' = [items EXCEPT ![i].redis = "IN_PROGRESS"]
          /\ act' = [act EXCEPT ![a].pc = "next",
                                ![a].errs = @ + IF outcome = "SUCCESS" THEN 0 ELSE 1]
     ELSE /\ items' = [items EXCEPT ![i].res[act[a].page] = Stored(@, outcome)]
          /\ act' = [act EXCEPT ![a] = Idle]

Receive(w, m) ==
  /\ act[w].pc = "idle" /\ m \in mail /\ m \notin revoked[w]
  /\ items[m[1]].kind # "multi"
  /\ mail' = mail \ {m}
  /\ act' = [act EXCEPT ![w] = [Idle EXCEPT !.pc = "resolve", !.item = m[1],
                                  !.kind = items[m[1]].kind, !.page = m[2]]]
  /\ UNCHANGED <<revs, ver, boxes, trans, items, revoked, used, slot, posts, spent>>

\* OCR: the version of the track, then whether the bot already wrote on it; a
\* page it did is only booked.  The quota is looked at before the call, by
\* enhanced OCR after it.
ResolveOcr(w) ==
  LET p == act[w].page  k == act[w].kind
  IN /\ act[w].pc = "resolve" /\ k # "translation"
     /\ \/ /\ Done(p, k)
           /\ Go(w, "count") /\ UNCHANGED items
        \/ /\ ~Done(p, k)
           /\ k = "enhanced" \/ HasCredit(k)
           /\ act' = [act EXCEPT ![w].pc = "call", ![w].pv = ver[p][k]]
           /\ UNCHANGED items
        \/ /\ ~Done(p, k)
           /\ k = "ocr" /\ ~HasCredit(k)
           /\ Ends(w, "FAILURE")
     /\ UNCHANGED <<revs, ver, boxes, trans, mail, revoked, used, slot, posts, spent>>

\* Translation: the newest revision of the page, of whatever track, and
\* whether it was translated before.
ResolveTranslation(w) ==
  LET p == act[w].page
      s == Len(revs[p])
  IN /\ act[w].pc = "resolve" /\ act[w].kind = "translation"
     /\ \/ /\ <<p, s>> \in trans
           /\ Go(w, "count") /\ UNCHANGED items
        \/ /\ s # 0 /\ <<p, s>> \notin trans /\ HasCredit("translation")
           /\ act' = [act EXCEPT ![w].pc = "call", ![w].src = s]
           /\ UNCHANGED items
        \/ /\ <<p, s>> \notin trans
           /\ s = 0 \/ ~HasCredit("translation")
           /\ Ends(w, "FAILURE")
     /\ UNCHANGED <<revs, ver, boxes, trans, mail, revoked, used, slot, posts, spent>>

\* The engine answers.  OCR commits the boxes of the page before it saves the
\* text; translation reads the version of its track only now.
Call(w) ==
  LET p == act[w].page  k == act[w].kind
  IN /\ act[w].pc = "call"
     /\ IF k = "enhanced" /\ ~HasCredit(k)
        THEN Ends(w, "FAILURE") /\ UNCHANGED boxes
        ELSE /\ act' = [act EXCEPT ![w].pc = "bump",
                          ![w].pv = IF k = "translation" THEN ver[p][k] ELSE @]
             /\ boxes' = IF k = "translation" THEN boxes ELSE boxes \cup {p}
             /\ UNCHANGED items
     /\ UNCHANGED <<revs, ver, trans, mail, revoked, used, slot, posts, spent>>

\* The engine fails: an OCR task raises, a translation task returns normally
\* and leaves nothing behind.
CallFails(w) ==
  /\ act[w].pc = "call" /\ Spend("faults")
  /\ Ends(w, IF act[w].kind = "translation" THEN "SUCCESS" ELSE "FAILURE")
  /\ UNCHANGED <<revs, ver, boxes, trans, mail, revoked, used, slot, posts>>

\* add_revision: the version moves by a compare and swap and is committed,
\* with it the Translation row the task had added to the session.
Bump(a) ==
  LET p == act[a].page  k == act[a].kind
  IN /\ act[a].pc = "bump"
     /\ IF ver[p][k] = act[a].pv
        THEN /\ ver' = [ver EXCEPT ![p][k] = @ + 1]
             /\ trans' = IF a \in Workers /\ k = "translation"
                         THEN trans \cup {<<p, act[a].src>>} ELSE trans
             /\ Go(a, "insert") /\ UNCHANGED items
        ELSE /\ IF a \in Workers THEN Ends(a, "FAILURE")
                ELSE act' = [act EXCEPT ![a] = Idle] /\ UNCHANGED items
             /\ UNCHANGED <<ver, trans>>
     /\ UNCHANGED <<revs, boxes, mail, revoked, used, slot, posts, spent>>

\* ... then the revision is inserted, in a transaction of its own.  The
\* editor's OCR is the user's revision, everything else is the bot's.
InsertRevision(a) ==
  LET p == act[a].page  k == act[a].kind
      bot == a \in Workers \/ k = "translation"
  IN /\ act[a].pc = "insert"
     /\ revs' = [revs EXCEPT ![p] = Append(@, [track |-> k, bot |-> bot])]
     /\ Go(a, IF a \in Workers THEN "credit" ELSE "log")
     /\ UNCHANGED <<ver, boxes, trans, items, mail, revoked, used, slot, posts, spent>>

\* consume_*_credit_for_project reads the counter, adds one and commits.
ReadCredit(a) ==
  /\ act[a].pc = "credit"
  /\ act' = [act EXCEPT ![a].pc = "pay", ![a].seen = used[SortOf(act[a].kind)]]
  /\ UNCHANGED <<revs, ver, boxes, trans, items, mail, revoked, used, slot, posts, spent>>

Pay_Twice(a) ==
  /\ act[a].pc = "pay"
  /\ used' = [used EXCEPT ![SortOf(act[a].kind)] = act[a].seen + 2]
  /\ Go(a, IF a \in Workers THEN "count" ELSE "version")
  /\ UNCHANGED <<revs, ver, boxes, trans, items, mail, revoked, slot, posts, spent>>
Pay(a) ==
  /\ act[a].pc = "pay"
  /\ used' = [used EXCEPT ![SortOf(act[a].kind)] = act[a].seen + 1]
  /\ Go(a, IF a \in Workers THEN "count" ELSE "version")
  /\ UNCHANGED <<revs, ver, boxes, trans, items, mail, revoked, slot, posts, spent>>

\* The item a page is booked on: the project's newest of the task's kind,
\* else its newest of any kind.
OfKind(k)     == {i \in DOMAIN items : items[i].kind = k}
NewestOf(S)   == CHOOSE i \in S : \A j \in S : j <= i
BookedOn(k)   == IF OfKind(k) # {} THEN NewestOf(OfKind(k)) ELSE NewestOf(DOMAIN items)
Completed_Listed(i) == {p \in Pages : items[i].row[p] # "none"}
Completed(i)  == {p \in Pages : items[i].row[p] = "COMPLETED"}

\* The page's row is flushed as COMPLETED and the completed rows are counted
\* in that transaction: of the others, only those committed.
CountPages(w) ==
  LET i == BookedOn(act[w].kind)
  IN /\ act[w].pc = "count"
     /\ act' = [act EXCEPT ![w].pc = "book", ![w].book = i,
          ![w].close = Cardinality(Completed(i) \cup {act[w].page}) >= items[i].total]
     /\ UNCHANGED <<revs, ver, boxes, trans, items, mail, revoked, used, slot, posts, spent>>

\* The commit: the row, and the item and its job when the count was reached;
\* the job of a multi-batch is left to its own task.
Booked_Done(it, p, close) == [it EXCEPT !.row[p] = "DONE"]
Booked(it, p, close) ==
  [it EXCEPT !.row[p] = "COMPLETED",
             !.status = IF close THEN "COMPLETED" ELSE @,
             !.job = IF close /\ it.kind # "multi" THEN "COMPLETED" ELSE @]

BookPage(w) ==
  LET i == act[w].item  b == act[w].book  p == act[w].page
      booked == [items EXCEPT ![b] = Booked(@, p, act[w].close)]
  IN /\ act[w].pc = "book"
     /\ IF items[i].kind = "multi"
        THEN /\ items' = [booked EXCEPT ![i].redis = "IN_PROGRESS"]
             /\ Go(w, "next")
        ELSE /\ items' = [booked EXCEPT ![i].res[p] = "SUCCESS"]
             /\ act' = [act EXCEPT ![w] = Idle]
     /\ UNCHANGED <<revs, ver, boxes, trans, mail, revoked, used, slot, posts, spent>>

----------------------------------------------------------------------------
(* The editor: edits by hand, and OCR or translation of the open page.      *)

\* Saving in the editor (PageRevisions has its details).
EditPage(p) ==
  /\ Spend("edits")
  /\ ver' = [ver EXCEPT ![p]["edit"] = @ + 1]
  /\ revs' = [revs EXCEPT ![p] = Append(@, [track |-> "edit", bot |-> FALSE])]
  /\ UNCHANGED <<boxes, trans, items, mail, revoked, used, act, slot, posts>>

\* The request checks the quota, calls the engine, and pays before it has
\* read the version it is going to save on.
EditorAsks(e, p, k) ==
  /\ act[e].pc = "idle" /\ HasCredit(k) /\ Spend("edits")
  /\ act' = [act EXCEPT ![e] = [Idle EXCEPT !.pc = "credit", !.kind = k, !.page = p]]
  /\ UNCHANGED <<revs, ver, boxes, trans, items, mail, revoked, used, slot, posts>>

EditorVersion(e) ==
  /\ act[e].pc = "version"
  /\ act' = [act EXCEPT ![e].pc = "bump", ![e].pv = ver[act[e].page][act[e].kind]]
  /\ UNCHANGED <<revs, ver, boxes, trans, items, mail, revoked, used, slot, posts, spent>>

\* Its books are an item of their own, kept per project and completed by
\* every page; enhanced OCR keeps none.
Single(k) == IF k = "translation" THEN "single translation" ELSE "single ocr"

EditorLog(e) ==
  LET S == OfKind(Single(act[e].kind))
  IN /\ act[e].pc = "log"
     /\ IF act[e].kind = "enhanced" THEN UNCHANGED items
        ELSE IF S = {}
        THEN items' = Append(items, Booked(NewItem(Single(act[e].kind), {}, PageCount),
                                           act[e].page, TRUE))
        ELSE items' = [items EXCEPT ![NewestOf(S)] = Booked(@, act[e].page, TRUE)]
     /\ act' = [act EXCEPT ![e] = Idle]
     /\ UNCHANGED <<revs, ver, boxes, trans, mail, revoked, used, slot, posts, spent>>

----------------------------------------------------------------------------
(* Celery: a task is acknowledged after it ran (task_acks_late).            *)

Running(w) == <<act[w].item, IF act[w].item # 0 /\ items[act[w].item].kind = "multi"
                             THEN 0 ELSE act[w].page>>

\* The visibility timeout passes while the task still runs.
DeliverAgain(w) ==
  /\ act[w].pc # "idle" /\ Running(w) \notin mail /\ Spend("faults")
  /\ mail' = mail \cup {Running(w)}
  /\ UNCHANGED <<revs, ver, boxes, trans, items, revoked, used, act, slot, posts>>

\* A worker dies: its task is delivered again, what it was told is forgotten.
Crash(w) ==
  /\ act[w].pc # "idle" /\ Spend("faults")
  /\ mail' = mail \cup {Running(w)}
  /\ act' = [act EXCEPT ![w] = Idle]
  /\ revoked' = [revoked EXCEPT ![w] = {}]
  /\ UNCHANGED <<revs, ver, boxes, trans, items, used, slot, posts>>

----------------------------------------------------------------------------
TaskStep(w) ==
  \/ ResolveOcr(w) \/ ResolveTranslation(w) \/ Call(w) \/ CallFails(w)
  \/ CountPages(w) \/ BookPage(w)
SaveStep(a) == Bump(a) \/ InsertRevision(a) \/ ReadCredit(a) \/ Pay(a)
EditorStep(e) == EditorVersion(e) \/ EditorLog(e)

Step ==
  \/ \E r \in Posts : (\E k \in Kinds : PostCheck(r, k)) \/ PostRun(r)
  \/ \E k \in Kinds : StatusPoll(k)
  \/ \E w \in Workers : (\E m \in mail : Receive(w, m)) \/ TaskStep(w)
  \/ \E a \in Actors : SaveStep(a)
  \/ \E p \in Pages : EditPage(p)
  \/ \E e \in Editors : (\E p \in Pages, k \in Kinds : EditorAsks(e, p, k)) \/ EditorStep(e)
  \/ \E w \in Workers : DeliverAgain(w) \/ Crash(w)

Next == Step \/ \E r \in Posts : PostKey(r)

Spec == Init /\ [][Next]_vars

----------------------------------------------------------------------------
(* Properties.                                                              *)

Statuses == {"PENDING", "IN_PROGRESS", "COMPLETED", "COMPLETED_WITH_ERRORS", "SKIPPED", "CANCELLED"}
ItemKinds == Work \cup {"multi"} \cup {Single(k) : k \in Work}

\* The type of every variable.
TypeOK ==
  /\ revs \in [Pages -> Seq([track : Tracks, bot : BOOLEAN])]
  /\ ver \in [Pages -> [Tracks -> Nat]]
  /\ boxes \subseteq Pages
  /\ trans \subseteq Pages \X Nat
  /\ items \in Seq([kind : ItemKinds, total : Nat, status : Statuses, job : Statuses,
                    row : [Pages -> {"none", "PENDING", "COMPLETED"}],
                    res : [Pages -> {"none", "PENDING", "SUCCESS", "FAILURE", "REVOKED"}],
                    redis : Statuses \cup {"none"}, plan : SUBSET Work])
  /\ mail \subseteq Nat \X Nat
  /\ revoked \in [Workers -> SUBSET (Nat \X Nat)]
  /\ used \in [Sorts -> Nat]
  /\ DOMAIN act = Actors
  /\ slot \in [Kinds -> Nat]
  /\ posts \in [Posts -> [pc : {"idle", "run", "key"}, kind : Kinds \cup {"-"}, item : Nat]]

\* tasks/ocr.py, "Update status if all pages completed": the first run of a
\* kind that a project has is COMPLETED only when every page it was started
\* for is, also while a second run takes over its bookings.  (Of the second
\* it is not true: it counts the pages of the first as its own.)
FirstRunIsDone ==
  \A i \in DOMAIN items :
    /\ items[i].kind \in Work /\ items[i].status = "COMPLETED"
    /\ (\A j \in OfKind(items[i].kind) : i <= j)
    => \A p \in Pages : items[i].res[p] # "none" => items[i].row[p] = "COMPLETED"

\* A page booked as COMPLETED on an OCR run has a text by the bot on the
\* track of that engine, whatever crashed or was delivered twice on the way.
CompletedPageHasText ==
  \A i \in DOMAIN items, p \in Pages :
    items[i].kind \in {"ocr", "enhanced"} /\ items[i].row[p] = "COMPLETED"
    => Written(p, items[i].kind, TRUE)

\* Background work is paid for after it is saved: the organization is never
\* charged for more than the revisions the bot saved, apart from the editor,
\* which pays first.
BotRevisions(s) ==
  Cardinality({x \in UNION {{p} \X DOMAIN revs[p] : p \in Pages} :
    /\ revs[x[1]][x[2]].bot
    /\ SortOf(revs[x[1]][x[2]].track) = s})
ChargesAreForSavedWork ==
  \A s \in Sorts : used[s] <= BotRevisions(s) + spent.edits
=============================================================================
