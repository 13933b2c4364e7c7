------------------------------ MODULE TaskTray ------------------------------
(* The user's list of background tasks (kalanjiyam/utils/user_tasks.py) and *)
(* the multi-batch operation (tasks/s3_batch.py, run_multi_batch_operation; *)
(* views/proofing/multi_batch.py), on top of the page tasks they watch and  *)
(* drive (PageTasks).  The list is a Redis hash: the pages of the site poll *)
(* it, each poll asks Celery and the database about the entries not known   *)
(* to be over and writes back what it learned; the user can cancel an       *)
(* entry.  Redis commands are atomic, what lies between two of them is not. *)
EXTENDS PageTasks

CONSTANT Plans   \* what a multi-batch may be asked for: sets of "ocr", "translation"

ASSUME PlansAssumption == Plans \subseteq SUBSET {"ocr", "translation"}

VARIABLES
  tray,     \* item -> its entry in the list
  age,      \* item -> 0 fresh, 1 older than an hour, 2 than a day
  poll,     \* the poll under way: what it read and what it will write
  cancel    \* the cancellation under way

watch    == <<tray, age, poll, cancel>>
trayVars == <<vars, watch>>

Items   == 1..MaxItems
Open    == {"pending", "running"}
Quiet   == [pc |-> "idle", saw |-> <<>>, found |-> <<>>]
Nothing == [pc |-> "idle", item |-> 0]

TrayInit ==
  /\ Init
  /\ tray = [i \in Items |-> "none"]
  /\ age = [i \in Items |-> 0]
  /\ poll = Quiet /\ cancel = Nothing

----------------------------------------------------------------------------
(* Entries.                                                                 *)

\* The POST that started a run notes it in Redis and adds it to the list.
AddRun(r) ==
  /\ PostKey(r)
  /\ tray' = [tray EXCEPT ![posts[r].item] = "pending"]
  /\ UNCHANGED <<age, poll, cancel>>

\* The POST of a multi-batch: job and item, the task, the entry.
StartMulti(plan) ==
  LET i == Len(items) + 1
  IN /\ i <= MaxItems
     /\ items' = Append(items, [NewItem("multi", {}, PageCount) EXCEPT
                                  !.status = "PENDING", !.plan = plan])
     /\ mail' = mail \cup {<<i, 0>>}
     /\ tray' = [tray EXCEPT ![i] = "pending"]
     /\ UNCHANGED <<revs, ver, boxes, trans, revoked, used, act, slot, posts, spent>>
     /\ UNCHANGED <<age, poll, cancel>>

\* An hour makes an entry stale; a day takes the group's results, the note of
\* the run and the state of a multi-batch out of Redis.
GrowOld(i) ==
  /\ tray[i] # "none" /\ age[i] < 2
  /\ age' = [age EXCEPT ![i] = @ + 1]
  /\ IF age[i] = 1
     THEN /\ items' = [items EXCEPT ![i].redis = "none"]
          /\ slot' = [k \in Kinds |-> IF slot[k] = i THEN 0 ELSE slot[k]]
     ELSE UNCHANGED <<items, slot>>
  /\ UNCHANGED <<revs, ver, boxes, trans, mail, revoked, used, act, posts, spent>>
  /\ UNCHANGED <<tray, poll, cancel>>

----------------------------------------------------------------------------
(* Polling: get_user_tasks.                                                 *)

Verdict(some) == IF some THEN "completed" ELSE "failed"

\* A group: over when every task succeeded, or every task is ready, or after
\* an hour; then completed if any task succeeded.
AskGroup_Any(i) ==
  IF "SUCCESS" \in Results(i) \/ "PENDING" \notin Results(i) \/ age[i] >= 1
  THEN Verdict("SUCCESS" \in Results(i)) ELSE "same"
AskGroup_All(i) == IF AllSuccess(i) THEN "completed" ELSE "same"
AskGroup(i) ==
  IF AllSuccess(i) \/ "PENDING" \notin Results(i) \/ age[i] >= 1
  THEN Verdict("SUCCESS" \in Results(i)) ELSE "same"

\* Its results expired: the project's newest item of that kind is asked.
AskRows(i) ==
  LET b == BookedOn(items[i].kind)
      n == Cardinality(Completed(b))
  IN IF items[b].status = "COMPLETED" \/ n >= items[b].total THEN "completed"
     ELSE IF n > 0 THEN "same"
     ELSE "completed"

\* A multi-batch: its state in Redis, and the job in the database when that
\* says nothing it knows.
AskMulti(i) ==
  IF items[i].redis \in {"COMPLETED", "COMPLETED_WITH_ERRORS"} THEN "completed"
  ELSE IF items[i].redis = "IN_PROGRESS" THEN "running"
  ELSE IF items[i].job \in {"COMPLETED", "COMPLETED_WITH_ERRORS"} THEN "completed"
  ELSE IF items[i].status \in {"COMPLETED", "SKIPPED"} THEN "running"
  ELSE "same"

Ask(i) == IF items[i].kind = "multi" THEN AskMulti(i)
          ELSE IF age[i] < 2 THEN AskGroup(i) ELSE AskRows(i)

PollRead ==
  /\ poll.pc = "idle" /\ \E i \in Items : tray[i] \in Open
  /\ poll' = [pc |-> "ask", saw |-> tray, found |-> <<>>]
  /\ UNCHANGED vars /\ UNCHANGED <<tray, age, cancel>>

PollAsk ==
  /\ poll.pc = "ask"
  /\ poll' = [pc |-> "write", saw |-> <<>>,
       found |-> [i \in Items |-> IF poll.saw[i] \in Open THEN Ask(i) ELSE "same"]]
  /\ UNCHANGED vars /\ UNCHANGED <<tray, age, cancel>>

\* One HSET of the entries that changed, over whatever is there by now.
PollWrite ==
  /\ poll.pc = "write"
  /\ tray' = [i \in Items |-> IF poll.found[i] = "same" THEN tray[i] ELSE poll.found[i]]
  /\ poll' = Quiet
  /\ UNCHANGED vars /\ UNCHANGED <<age, cancel>>

----------------------------------------------------------------------------
(* Cancelling: cancel_user_task.                                            *)

CancelRead(i) ==
  /\ cancel.pc = "idle" /\ tray[i] \in Open /\ Spend("cancels")
  /\ cancel' = [pc |-> "revoke", item |-> i]
  /\ UNCHANGED <<revs, ver, boxes, trans, items, mail, revoked, used, act, slot, posts>>
  /\ UNCHANGED <<tray, age, poll>>

\* revoke(terminate=True) is broadcast: a worker that runs one of the tasks
\* kills it, one that gets it later drops it.
Messages(i) == {i} \X (0..PageCount)
CancelRevoke ==
  LET i == cancel.item
      killed == {w \in Workers : act[w].pc # "idle" /\ act[w].item = i}
      pages == {act[w].page : w \in killed}
  IN /\ cancel.pc = "revoke"
     /\ revoked' = [w \in Workers |-> revoked[w] \cup Messages(i)]
     /\ act' = [a \in Actors |-> IF a \in killed THEN Idle ELSE act[a]]
     /\ items' = IF items[i].kind = "multi" THEN items
                 ELSE [items EXCEPT ![i].res = [p \in Pages |->
                         IF p \in pages THEN Stored(@[p], "REVOKED") ELSE @[p]]]
     /\ cancel' = [cancel EXCEPT !.pc = IF items[i].kind = "multi" THEN "state" ELSE "write"]
     /\ UNCHANGED <<revs, ver, boxes, trans, mail, used, slot, posts, spent>>
     /\ UNCHANGED <<tray, age, poll>>

\* A multi-batch: its state in Redis, if it has one, and its job.
CancelState ==
  LET i == cancel.item
  IN /\ cancel.pc = "state"
     /\ items' = [items EXCEPT ![i].redis = IF @ = "none" THEN @ ELSE "CANCELLED",
                               ![i].job = "CANCELLED"]
     /\ cancel' = [cancel EXCEPT !.pc = "write"]
     /\ UNCHANGED <<revs, ver, boxes, trans, mail, revoked, used, act, slot, posts, spent>>
     /\ UNCHANGED <<tray, age, poll>>

CancelWrite ==
  /\ cancel.pc = "write"
  /\ tray' = [tray EXCEPT ![cancel.item] = "cancelled"]
  /\ cancel' = Nothing
  /\ UNCHANGED vars /\ UNCHANGED <<age, poll>>

\* A worker drops a message it was told to revoke.
Discard(w, m) ==
  /\ act[w].pc = "idle" /\ m \in mail \cap revoked[w]
  /\ mail' = mail \ {m}
  /\ items' = IF m[2] = 0 THEN items
              ELSE [items EXCEPT ![m[1]].res[m[2]] = Stored(@, "REVOKED")]
  /\ UNCHANGED <<revs, ver, boxes, trans, revoked, used, act, slot, posts, spent>>
  /\ UNCHANGED watch

----------------------------------------------------------------------------
(* The multi-batch task, for one document.                                  *)

\* The job goes back to IN_PROGRESS, whatever it was.
ReceiveMulti(w, m) ==
  /\ act[w].pc = "idle" /\ m \in mail /\ m \notin revoked[w]
  /\ items[m[1]].kind = "multi"
  /\ mail' = mail \ {m}
  /\ items' = [items EXCEPT ![m[1]].job = "IN_PROGRESS"]
  /\ act' = [act EXCEPT ![w] = [Idle EXCEPT !.pc = "plan", !.item = m[1]]]
  /\ UNCHANGED <<revs, ver, boxes, trans, revoked, used, slot, posts, spent>>
  /\ UNCHANGED watch

\* A page was read if it has boxes or a track of any OCR; it was translated
\* if it has a translation or its track.
Needs(p, k) ==
  IF k = "ocr" THEN p \notin boxes /\ ver[p]["ocr"] = 0 /\ ver[p]["enhanced"] = 0
  ELSE ver[p][k] = 0 /\ \A t \in trans : t[1] # p
ToDo(plan) == {t \in plan \X Pages : Needs(t[2], t[1])}

PlanMulti(w) ==
  LET i == act[w].item
      todo == ToDo(items[i].plan)
  IN /\ act[w].pc = "plan"
     /\ items' = [items EXCEPT ![i].status = "IN_PROGRESS", ![i].redis = "IN_PROGRESS"]
     /\ act' = [act EXCEPT ![w].todo = todo,
                           ![w].pc = IF todo = {} THEN "skip" ELSE "next"]
     /\ UNCHANGED <<revs, ver, boxes, trans, mail, revoked, used, slot, posts, spent>>
     /\ UNCHANGED watch

\* All pages are read before one is translated, both in the pages' order.
Before(t, u) == IF t[1] = u[1] THEN t[2] < u[2] ELSE t[1] = "ocr"

\* The next page, through the page task's own steps.
NextPage(w) ==
  /\ act[w].pc = "next"
  /\ \E t \in act[w].todo :
       /\ \A u \in act[w].todo : ~Before(u, t)
       /\ act' = [act EXCEPT ![w] = [Idle EXCEPT
            !.pc = "resolve", !.item = act[w].item, !.errs = act[w].errs,
            !.kind = t[1], !.page = t[2], !.todo = act[w].todo \ {t}]]
  /\ UNCHANGED <<revs, ver, boxes, trans, items, mail, revoked, used, slot, posts, spent>>
  /\ UNCHANGED watch

Final_Plain(errs) == "COMPLETED"
Final(errs) == IF errs > 0 THEN "COMPLETED_WITH_ERRORS" ELSE "COMPLETED"

\* The document's status, in the database and in Redis ...
CloseDocument(w) ==
  LET i == act[w].item
  IN /\ act[w].pc \in {"skip", "next"} /\ act[w].todo = {}
     /\ items' = [items EXCEPT ![i].redis = "IN_PROGRESS",
          ![i].status = IF act[w].pc = "skip" THEN "SKIPPED" ELSE Final(act[w].errs)]
     /\ Go(w, "report")
     /\ UNCHANGED <<revs, ver, boxes, trans, mail, revoked, used, slot, posts, spent>>
     /\ UNCHANGED watch

\* ... the final state in Redis ...
ReportMulti(w) ==
  /\ act[w].pc = "report"
  /\ items' = [items EXCEPT ![act[w].item].redis = Final(act[w].errs)]
  /\ Go(w, "job")
  /\ UNCHANGED <<revs, ver, boxes, trans, mail, revoked, used, slot, posts, spent>>
  /\ UNCHANGED watch

\* ... and the job, whatever its status has become.
CloseJob(w) ==
  /\ act[w].pc = "job"
  /\ items' = [items EXCEPT ![act[w].item].job = Final(act[w].errs)]
  /\ act' = [act EXCEPT ![w] = Idle]
  /\ UNCHANGED <<revs, ver, boxes, trans, mail, revoked, used, slot, posts, spent>>
  /\ UNCHANGED watch

----------------------------------------------------------------------------
MultiStep(w) ==
  PlanMulti(w) \/ NextPage(w) \/ CloseDocument(w) \/ ReportMulti(w) \/ CloseJob(w)
TakeMessage(w) ==
  \E m \in mail : (Receive(w, m) /\ UNCHANGED watch) \/ ReceiveMulti(w, m) \/ Discard(w, m)
PollStep   == PollRead \/ PollAsk \/ PollWrite
CancelStep == CancelRevoke \/ CancelState \/ CancelWrite

TrayNext ==
  \/ Step /\ UNCHANGED watch
  \/ \E r \in Posts : AddRun(r)
  \/ \E plan \in Plans : StartMulti(plan)
  \/ \E i \in Items : GrowOld(i) \/ CancelRead(i)
  \/ PollStep \/ CancelStep
  \/ \E w \in Workers : MultiStep(w)
  \/ \E w \in Workers, m \in mail : ReceiveMulti(w, m) \/ Discard(w, m)

TraySpec == TrayInit /\ [][TrayNext]_trayVars

\* Workers take messages and finish what they took; a page of the site that
\* shows the list keeps polling; a request to cancel is carried through.
TrayFairSpec ==
  /\ TraySpec
  /\ \A w \in Workers :
       /\ WF_trayVars(((TaskStep(w) \/ SaveStep(w)) /\ UNCHANGED watch) \/ MultiStep(w))
       /\ WF_trayVars(TakeMessage(w))
  /\ WF_trayVars(PollStep) /\ WF_trayVars(CancelStep)

----------------------------------------------------------------------------
(* Properties.                                                              *)

\* The list says completed of a run only when all its tasks are over and one
\* of them succeeded, or after an hour: a poll writes what it learned much
\* later, but nothing it learned can have become untrue.
CompletedEntryIsOver ==
  \A i \in DOMAIN items :
    items[i].kind \in Work /\ tray[i] = "completed" /\ age[i] = 0
    => "SUCCESS" \in Results(i) /\ "PENDING" \notin Results(i)

\* A success is one, also for the list: an OCR task of a run whose result is
\* SUCCESS has the bot's text on its page's track, whatever was cancelled,
\* killed, delivered again or read by a multi-batch in between.
SuccessHasText ==
  \A i \in DOMAIN items, p \in Pages :
    items[i].kind \in {"ocr", "enhanced"} /\ items[i].res[p] = "SUCCESS"
    => Written(p, items[i].kind, TRUE)

\* A multi-batch that read pages and is COMPLETED, without errors, left no
\* page that it would still have to read, in spite of crashes, failed calls
\* and tasks delivered twice.
CompletedBatchIsRead ==
  \A i \in DOMAIN items :
    items[i].kind = "multi" /\ items[i].job = "COMPLETED" /\ "ocr" \in items[i].plan
    => \A p \in Pages : ~Needs(p, "ocr")

\* An entry of a run does not stay open while the list is polled, unless its
\* results were gone before anyone looked.
RunEntryEnds ==
  \A i \in Items :
    (i \in DOMAIN items /\ items[i].kind \in Work /\ tray[i] \in Open)
      ~> (tray[i] \notin Open \/ age[i] = 2)
=============================================================================
