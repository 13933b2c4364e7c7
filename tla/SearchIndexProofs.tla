-------------------------- MODULE SearchIndexProofs --------------------------
(***************************************************************************)
(* Who blocks a scope of the index is seen to: as long as a job counts as  *)
(* active there is a process that is to start it, a message for it or a    *)
(* worker on it, unless its starter or the process that ran it was killed  *)
(* or could not reach the queue; for any number of jobs, workers,          *)
(* organizations, cancellations, crashes and redeliveries.                 *)
(***************************************************************************)
EXTENDS SearchIndex, TLAPS

(* Workers and job rows have the fields that matter here.                   *)
Shape ==
    /\ DOMAIN wk = Workers
    /\ \A w \in Workers : {"pc", "task"} \subseteq DOMAIN wk[w]
    /\ DOMAIN job = Jobs
    /\ \A j \in Jobs : "status" \in DOMAIN job[j]
    /\ queue \subseteq Tasks
    /\ \A w \in Workers : wk[w].pc # "idle" => wk[w].task \in Tasks
    /\ DOMAIN starter = Jobs

OnIt(j, w) == wk[w].task = JobTask(j) /\ wk[w].pc \notin {"idle", "ack"}

(* A worker that only has to acknowledge its message does not count: it     *)
(* gives the task up without a look at the job.                             *)
SeenTo(j) == ToStart(j) \/ JobTask(j) \in queue \/ \E w \in Workers : OnIt(j, w)

TaskInv == \A j \in Jobs \ stranded : job[j].status \in Active => SeenTo(j)

IndInv == Shape /\ TaskInv

LEMMA InitInv == Init => IndInv
    BY DEF Init, IndInv, Shape, TaskInv, Idle, Active

LEMMA TasksOf == \A t \in Tasks : t.kind = "job" => t.of \in Jobs /\ t = JobTask(t.of)
    BY DEF Tasks, JobTasks, HookTasks, JobTask

(* A worker goes on with its task, whatever it does to the index.           *)
KeepsTask(w) ==
    /\ DOMAIN wk' = Workers /\ \A v \in Workers : v # w => wk'[v] = wk[v]
    /\ DOMAIN wk'[w] = DOMAIN wk[w] /\ wk'[w].task = wk[w].task
    /\ IsJob(w) => wk'[w].pc \notin {"idle", "ack"}

LEMMA GoesOn ==
    ASSUME IndInv, NEW w \in Workers, wk[w].pc # "idle",
           queue \subseteq queue', queue' \subseteq Tasks, UNCHANGED <<job, starter, stranded>>,
           KeepsTask(w)
    PROVE  IndInv'
<1>1. Shape'
    BY DEF IndInv, Shape, KeepsTask
<1>2. \A j \in Jobs, v \in Workers : OnIt(j, v) => OnIt(j, v)'
    BY DEF IndInv, Shape, OnIt, IsJob, JobTasks, JobTask, KeepsTask
<1>3. TaskInv'
    BY <1>2 DEF IndInv, TaskInv, SeenTo, ToStart
<1> QED BY <1>1, <1>3 DEF IndInv

(* The task is over, and with it its job.                                   *)
LEMMA IsOver ==
    ASSUME IndInv, NEW w \in Workers, wk[w].pc # "idle", UNCHANGED <<queue, starter, stranded>>,
           Over(w), NEW s, "status" \in DOMAIN s, s.status \notin Active,
           IF IsJob(w) THEN job' = [job EXCEPT ![wk[w].task.of] = s] ELSE UNCHANGED job
    PROVE  IndInv'
<1>1. wk' = [wk EXCEPT ![w] = [Idle EXCEPT !.pc = "ack", !.task = wk[w].task]]
    BY DEF Over, Go
<1>2. Shape'
    BY <1>1 DEF IndInv, Shape, Idle
<1>3. ASSUME NEW j \in Jobs \ stranded, job'[j].status \in Active
      PROVE  SeenTo(j)'
    <2>1. wk[w].task # JobTask(j) /\ job'[j] = job[j]
        <3>1. CASE IsJob(w)
            <4>1. PICK i \in Jobs : wk[w].task = JobTask(i)
                BY <3>1 DEF IsJob, JobTasks, JobTask
            <4>2. job' = [job EXCEPT ![i] = s]
                BY <3>1, <4>1 DEF JobTask
            <4>3. i # j
                BY <1>3, <4>2 DEF IndInv, Shape
            <4> QED BY <4>1, <4>2, <4>3 DEF IndInv, Shape, JobTask
        <3>2. CASE ~IsJob(w)
            BY <3>2 DEF IsJob, JobTasks, JobTask
        <3> QED BY <3>1, <3>2
    <2>2. ToStart(j) \/ JobTask(j) \in queue \/ \E v \in Workers : OnIt(j, v) /\ v # w
        BY <1>3, <2>1 DEF IndInv, TaskInv, SeenTo, OnIt
    <2>3. \A v \in Workers : v # w => wk'[v] = wk[v]
        BY <1>1 DEF IndInv, Shape
    <2> QED BY <2>2, <2>3 DEF SeenTo, ToStart, OnIt
<1>4. TaskInv'
    BY <1>3 DEF TaskInv
<1> QED BY <1>2, <1>4 DEF IndInv

LEMMA FailedIsOver ==
    ASSUME IndInv, NEW w \in Workers, wk[w].pc # "idle", UNCHANGED <<queue, starter, stranded>>,
           EndFailed(w)
    PROVE  IndInv'
<1> DEFINE s == [job[wk[w].task.of] EXCEPT !.status = "FAILED", !.cancel = FALSE]
<1>1. IF IsJob(w) THEN job' = [job EXCEPT ![wk[w].task.of] = s] ELSE UNCHANGED job
    BY DEF EndFailed
<1>2. Over(w)
    BY DEF EndFailed
<1>3. CASE IsJob(w)
    <2>1. wk[w].task.of \in Jobs
        BY <1>3 DEF IsJob, JobTasks
    <2>2. "status" \in DOMAIN s /\ s.status = "FAILED"
        BY <2>1 DEF IndInv, Shape
    <2> HIDE DEF s
    <2> QED BY <1>1, <1>2, <2>2, IsOver DEF Active
<1>4. CASE ~IsJob(w)
    <2>1. "status" \in DOMAIN [status |-> "FAILED"] /\ [status |-> "FAILED"].status \notin Active
        BY DEF Active
    <2> QED BY <1>1, <1>2, <1>4, <2>1, IsOver
<1> QED BY <1>3, <1>4

LEMMA JobIsOver ==
    ASSUME IndInv, NEW w \in Workers, wk[w].pc # "idle", UNCHANGED <<queue, starter, stranded>>,
           Over(w), IsJob(w), NEW st \in Terminal, SetStatus(w, st)
    PROVE  IndInv'
<1> DEFINE s == [job[wk[w].task.of] EXCEPT !.status = st]
<1>1. job' = [job EXCEPT ![wk[w].task.of] = s]
    BY DEF SetStatus
<1>2. wk[w].task.of \in Jobs
    BY DEF IsJob, JobTasks
<1>3. "status" \in DOMAIN s /\ s.status = st
    BY <1>2 DEF IndInv, Shape
<1> HIDE DEF s
<1> QED BY <1>1, <1>3, IsOver DEF Active, Terminal

(* Requests add messages and leave active jobs active.                      *)
LEMMA RequestStep == IndInv /\ Requests => IndInv'
<1> SUFFICES ASSUME IndInv, Requests PROVE IndInv'
    OBVIOUS
<1>a. queue \subseteq queue' /\ queue' \subseteq Tasks /\ UNCHANGED <<job, starter, stranded>>
      => (UNCHANGED wk => IndInv')
    BY DEF IndInv, Shape, TaskInv, SeenTo, ToStart, OnIt
<1>1. ASSUME NEW p \in Projects,
             EditPage(p) \/ DeleteProject(p)
             \/ \E o \in Orgs : AddToGroup(p, o) \/ RemoveFromGroup(p, o)
      PROVE  IndInv'
    BY <1>a, <1>1 DEF EditPage, DeleteProject, AddToGroup, RemoveFromGroup, Enqueue, IndInv, Shape,
         Tasks, HookTasks, Move, past
<1>2. ASSUME NEW j \in Jobs, CancelJob(j) PROVE IndInv'
    <2>1. UNCHANGED <<queue, starter, stranded, wk>> /\ DOMAIN job' = Jobs
          /\ \A i \in Jobs : DOMAIN job'[i] = DOMAIN job[i] /\ job'[i].status = job[i].status
        BY <1>2 DEF CancelJob, IndInv, Shape, past
    <2> QED BY <2>1 DEF IndInv, Shape, TaskInv, SeenTo, ToStart, OnIt
<1>3. ASSUME NEW j \in Jobs, NEW t, NEW s, StartJob(j, t, s) \/ CliJob(j, t, s) PROVE IndInv'
    <2>1. PICK who \in {"dashboard", "command"} : NewJob(j, t, s, who)
        BY <1>3 DEF StartJob, CliJob
    <2>2. /\ DOMAIN job' = Jobs /\ "status" \in DOMAIN job'[j]
          /\ DOMAIN starter' = Jobs /\ starter'[j] = who
          /\ \A i \in Jobs : i # j => job'[i] = job[i] /\ starter'[i] = starter[i]
          /\ UNCHANGED <<wk, queue, stranded>>
        BY <2>1 DEF NewJob, IndInv, Shape, past
    <2>3. Shape'
        BY <2>2 DEF IndInv, Shape
    <2>4. TaskInv'
        BY <2>2 DEF IndInv, TaskInv, SeenTo, ToStart, OnIt
    <2> QED BY <2>3, <2>4 DEF IndInv
<1>4. ASSUME NEW j \in Jobs, Dispatch(j) PROVE IndInv'
    <2>1. /\ UNCHANGED <<wk, job, stranded>>
          /\ queue' = queue \cup {JobTask(j)} /\ starter' = [starter EXCEPT ![j] = "gone"]
        BY <1>4 DEF Dispatch, db, past
    <2>2. JobTask(j) \in Tasks
        BY DEF JobTask, Tasks, JobTasks
    <2>3. Shape'
        BY <2>1, <2>2 DEF IndInv, Shape
    <2>4. TaskInv'
        BY <2>1 DEF IndInv, Shape, TaskInv, SeenTo, ToStart, OnIt
    <2> QED BY <2>3, <2>4 DEF IndInv
<1>5. ASSUME NEW j \in Jobs, DispatchFails(j) \/ StarterDies(j) PROVE IndInv'
    <2>1. UNCHANGED <<wk, queue>> /\ starter' = [starter EXCEPT ![j] = "gone"]
        BY <1>5 DEF DispatchFails, StarterDies
    <2>2. /\ DOMAIN job' = Jobs /\ \A i \in Jobs : DOMAIN job'[i] = DOMAIN job[i]
          /\ \A i \in Jobs : i # j => job'[i] = job[i]
          /\ stranded \subseteq stranded' /\ (j \in stranded' \/ job'[j].status = "FAILED")
        <3>1. CASE UNCHANGED job /\ stranded' = stranded \cup {j}
            BY <3>1 DEF IndInv, Shape
        <3>2. CASE job' = [job EXCEPT ![j].status = "FAILED", ![j].cancel = FALSE] /\ UNCHANGED stranded
            BY <3>2 DEF IndInv, Shape
        <3> QED BY <1>5, <3>1, <3>2 DEF DispatchFails, StarterDies, db
    <2>3. Shape'
        BY <2>1, <2>2 DEF IndInv, Shape
    <2>4. TaskInv'
        BY <2>1, <2>2 DEF IndInv, Shape, TaskInv, SeenTo, ToStart, OnIt, Active
    <2> QED BY <2>3, <2>4 DEF IndInv
<1> QED BY <1>1, <1>2, <1>3, <1>4, <1>5 DEF Requests

(* A task that begins: its job is in progress and has a worker on it.       *)
LEMMA BeginStep ==
    ASSUME IndInv, NEW w \in Workers, NEW t \in Tasks, Begin(w, t), UNCHANGED stranded,
           queue' \subseteq Tasks, queue \subseteq queue' \cup {t}, DOMAIN starter' = Jobs,
           \A j \in Jobs : JobTask(j) # t => starter'[j] = starter[j]
    PROVE  IndInv'
<1>1. /\ wk[w].pc = "idle"
      /\ Go(w, [Idle EXCEPT !.task = t, !.pc = IF t.kind = "job" THEN "targets" ELSE t.kind,
                            !.of = IF t.kind = "job" THEN Nobody ELSE t.of])
      /\ job' = IF t.kind = "job" THEN [job EXCEPT ![t.of].status = "IN_PROGRESS"] ELSE job
    BY DEF Begin
<1>t. t.kind = "job" => t.of \in Jobs /\ t = JobTask(t.of)
    BY TasksOf
<1>2. /\ DOMAIN wk' = Workers /\ {"pc", "task"} \subseteq DOMAIN wk'[w] /\ wk'[w].task = t
      /\ t.kind = "job" => wk'[w].pc = "targets"
      /\ \A v \in Workers : v # w => wk'[v] = wk[v]
    BY <1>1 DEF Go, Idle, IndInv, Shape
<1>3. /\ DOMAIN job' = Jobs /\ \A j \in Jobs : DOMAIN job'[j] = DOMAIN job[j]
      /\ \A j \in Jobs : JobTask(j) # t => job'[j] = job[j]
    <2>1. CASE t.kind = "job"
        <3>1. job' = [job EXCEPT ![t.of].status = "IN_PROGRESS"]
            BY <1>1, <2>1
        <3> QED BY <1>t, <2>1, <3>1 DEF IndInv, Shape
    <2>2. CASE t.kind # "job"
        BY <1>1, <2>2 DEF IndInv, Shape
    <2> QED BY <2>1, <2>2
<1>4. Shape'
    BY <1>1, <1>2, <1>3, <1>t DEF IndInv, Shape
<1>5. ASSUME NEW j \in Jobs \ stranded, job'[j].status \in Active
      PROVE  SeenTo(j)'
    <2>1. CASE t = JobTask(j)
        BY <1>2, <2>1 DEF SeenTo, OnIt, JobTask
    <2>2. CASE t # JobTask(j)
        <3>1. SeenTo(j)
            BY <1>3, <1>5, <2>2 DEF IndInv, TaskInv
        <3> QED BY <1>1, <1>2, <2>2, <3>1 DEF SeenTo, ToStart, OnIt
    <2> QED BY <2>1, <2>2
<1>6. TaskInv'
    BY <1>5 DEF TaskInv
<1> QED BY <1>4, <1>6 DEF IndInv

LEMMA TakeStep == ASSUME IndInv, NEW w \in Workers, Take(w) \/ RunNow(w) PROVE IndInv'
<1>1. CASE Take(w)
    <2>1. PICK t \in queue : Begin(w, t) /\ queue' = queue \ {t}
        BY <1>1 DEF Take
    <2>2. UNCHANGED <<starter, stranded>>
        BY <1>1 DEF Take, past
    <2> QED BY <2>1, <2>2, BeginStep DEF IndInv, Shape
<1>2. CASE RunNow(w)
    <2>1. PICK j \in Jobs : Begin(w, JobTask(j)) /\ starter' = [starter EXCEPT ![j] = "now"]
        BY <1>2 DEF RunNow
    <2>2. UNCHANGED <<queue, stranded>>
        BY <1>2 DEF RunNow, past
    <2>3. JobTask(j) \in Tasks
        BY DEF JobTask, Tasks, JobTasks
    <2>4. DOMAIN starter' = Jobs /\ \A i \in Jobs : JobTask(i) # JobTask(j) => starter'[i] = starter[i]
        BY <2>1 DEF IndInv, Shape
    <2> QED BY <2>1, <2>2, <2>3, <2>4, BeginStep DEF IndInv, Shape
<1> QED BY <1>1, <1>2

(* A worker that changes its notes keeps its task.                          *)
LEMMA LifecycleKeeps ==
    ASSUME IndInv, NEW w \in Workers,
           \/ Ensure(w) \/ NextVersion(w) \/ CreateStore(w)
           \/ SwapRead(w) \/ SwapAlias(w) \/ ListStores(w) \/ DeleteStore(w)
    PROVE  KeepsTask(w)
<1> USE DEF IndInv, Shape, KeepsTask, Go, GoTo
<1>1. IsJob(w) => Ensured(w) = "expect"
    <2>1. IsJob(w) => wk[w].task.kind = "job"
        BY DEF IsJob, JobTasks
    <2> QED BY <2>1 DEF Ensured
<1>2. CASE Ensure(w)
    BY <1>1, <1>2 DEF Ensure
<1>3. CASE NextVersion(w)
    BY <1>3 DEF NextVersion
<1>7. CASE SwapRead(w)
    BY <1>7 DEF SwapRead
<1>8. CASE ListStores(w)
    BY <1>8 DEF ListStores
<1>4. CASE CreateStore(w)
    BY <1>4 DEF CreateStore
<1>5. CASE SwapAlias(w)
    BY <1>1, <1>5 DEF SwapAlias
<1>6. CASE DeleteStore(w)
    BY <1>6 DEF DeleteStore
<1> QED BY <1>2, <1>3, <1>4, <1>5, <1>6, <1>7, <1>8

LEMMA OperationKeeps ==
    ASSUME IndInv, NEW w \in Workers,
           \/ Rebuild(w) \/ Sync(w)
           \/ PageStart(w) \/ ProjectStart(w) \/ ClearStore(w) \/ ReadPage(w)
    PROVE  KeepsTask(w)
<1> USE DEF IndInv, Shape, KeepsTask, Go, GoTo
<1>1. CASE BuildProject(w)
    BY <1>1 DEF BuildProject
<1>2. CASE BuildEnds(w) \/ BuildStays(w) \/ BuildGoes(w)
    BY <1>2 DEF BuildEnds, BuildStays, BuildGoes
<1>3. CASE Expect(w) \/ Scan(w) \/ DeleteOrphans(w)
    <2>1. CASE Expect(w)
        BY <2>1 DEF Expect
    <2>2. CASE Scan(w)
        <3> DEFINE Drift == {e[1] : e \in Missing(w) \cup Stale(w)}
        <3>1. \/ wk' = [wk EXCEPT ![w] = [wk[w] EXCEPT !.pc = "next"]]
              \/ wk' = [wk EXCEPT ![w] = [wk[w] EXCEPT !.pc = "update", !.old = Orphaned(w),
                                                       !.todo = Drift]]
            BY <2>2 DEF Scan
        <3> HIDE DEF Drift
        <3> QED BY <3>1
    <2>3. CASE DeleteOrphans(w)
        BY <2>3 DEF DeleteOrphans
    <2> QED BY <1>3, <2>1, <2>2, <2>3
<1>4. CASE Update(w)
    <2>1. CASE wk[w].todo = {}
        BY <1>4, <2>1 DEF Update
    <2>2. CASE wk[w].todo # {}
        <3>1. PICK p \in wk[w].todo :
                wk' = [wk EXCEPT ![w] =
                         [wk[w] EXCEPT !.todo = @ \ {p}, !.of = p,
                                       !.pc = IF groups[p] = {} \/ rev[p] = 0 THEN "update"
                                              ELSE "write",
                                       !.doc = [rev |-> rev[p], groups |-> groups[p]]]]
            BY <1>4, <2>2, Zenon DEF Update
        <3> DEFINE pc == IF groups[p] = {} \/ rev[p] = 0 THEN "update" ELSE "write"
                   todo == wk[w].todo \ {p}
                   doc == [rev |-> rev[p], groups |-> groups[p]]
        <3>2. wk' = [wk EXCEPT ![w] = [wk[w] EXCEPT !.todo = todo, !.of = p, !.pc = pc,
                                                    !.doc = doc]]
            BY <3>1
        <3>3. pc \in {"update", "write"}
            OBVIOUS
        <3> HIDE DEF pc, todo, doc
        <3> QED BY <3>2, <3>3
    <2> QED BY <2>1, <2>2
<1>5. CASE PageStart(w)
    <2> DEFINE orgs == groups[wk[w].of]
               doc == [rev |-> rev[wk[w].of], groups |-> groups[wk[w].of]]
    <2>1. wk' = [wk EXCEPT ![w] = [wk[w] EXCEPT !.pc = "next", !.orgs = orgs, !.doc = doc]]
        BY <1>5 DEF PageStart
    <2> HIDE DEF orgs, doc
    <2> QED BY <2>1
<1>8. CASE ReadPage(w)
    <2> DEFINE pc == IF rev[wk[w].of] = 0 THEN "next" ELSE "write"
    <2>1. wk' = [wk EXCEPT ![w] = [wk[w] EXCEPT !.pc = pc, !.doc.rev = rev[wk[w].of]]]
        BY <1>8 DEF ReadPage
    <2>2. pc \in {"next", "write"}
        OBVIOUS
    <2> HIDE DEF pc
    <2> QED BY <2>1, <2>2
<1>6. CASE ProjectStart(w)
    BY <1>6 DEF ProjectStart
<1>7. CASE ClearStore(w)
    <2>1. CASE wk[w].old = {}
        BY <1>7, <2>1 DEF ClearStore
    <2>2. CASE wk[w].old # {}
        <3>1. PICK s \in wk[w].old : wk' = [wk EXCEPT ![w] = [wk[w] EXCEPT !.old = @ \ {s}]]
            BY <1>7, <2>2 DEF ClearStore
        <3>2. wk[w].pc = "clear"
            BY <1>7 DEF ClearStore
        <3> QED BY <3>1, <3>2
    <2> QED BY <2>1, <2>2
<1> QED BY <1>1, <1>2, <1>3, <1>4, <1>5, <1>6, <1>7, <1>8 DEF Rebuild, Sync

LEMMA WorkStep == ASSUME IndInv, NEW w \in Workers, Work(w) PROVE IndInv'
<1>q. queue \subseteq Tasks
    BY DEF IndInv, Shape
<1>1. CASE Take(w) \/ RunNow(w)
    BY <1>1, TakeStep
<1>2. CASE Targets(w) \/ NextOrg(w)
    <2>1. wk[w].pc # "idle" /\ UNCHANGED <<queue, job, starter, stranded>>
        <3>1. CASE Targets(w)
            BY <3>1 DEF Targets, db, past
        <3>2. CASE NextOrg(w)
            BY <3>2 DEF NextOrg, db
        <3> QED BY <1>2, <3>1, <3>2
    <2>2. KeepsTask(w)
        <3> USE DEF KeepsTask, IndInv, Shape, Go
        <3>1. CASE Targets(w)
            <4> DEFINE orgs == IF job[wk[w].task.of].scope = All
                               THEN UNION {groups[p] : p \in Projects}
                               ELSE {job[wk[w].task.of].scope}
            <4>1. wk' = [wk EXCEPT ![w] = [wk[w] EXCEPT !.pc = "next", !.orgs = orgs]]
                BY <3>1 DEF Targets
            <4> HIDE DEF orgs
            <4> QED BY <4>1
        <3>2. CASE NextOrg(w)
            <4>1. PICK o \in wk[w].orgs :
                    wk' = [wk EXCEPT ![w] = [wk[w] EXCEPT !.pc = First(w), !.org = o,
                                                      !.orgs = @ \ {o},
                                                      !.ver = 0, !.old = {}, !.todo = {}]]
                BY <3>2, Zenon DEF NextOrg
            <4>2. First(w) \in {"version", "list", "ensure"}
                BY DEF First
            <4> QED BY <4>1, <4>2
        <3> QED BY <1>2, <3>1, <3>2
    <2> QED BY <1>q, <2>1, <2>2, GoesOn
<1>3. CASE EndCancelled(w)
    BY <1>3, JobIsOver DEF EndCancelled, Runs, Terminal, past
<1>4. CASE EndTask(w)
    <2>1. CASE IsJob(w)
        BY <1>4, <2>1, JobIsOver DEF EndTask, Terminal, past
    <2>2. CASE ~IsJob(w)
        <3>1. "status" \in DOMAIN [status |-> "FAILED"] /\ [status |-> "FAILED"].status \notin Active
            BY DEF Active
        <3> QED BY <1>4, <2>2, <3>1, IsOver DEF EndTask, past
    <2> QED BY <2>1, <2>2
<1>5. CASE Ack(w)
    <2>1. /\ UNCHANGED <<queue, job, starter, stranded>> /\ wk[w].pc = "ack"
          /\ wk' = [wk EXCEPT ![w] = Idle]
        BY <1>5 DEF Ack, Go, db, past
    <2>2. Shape'
        BY <2>1 DEF IndInv, Shape, Idle
    <2>3. TaskInv'
        BY <2>1 DEF IndInv, Shape, TaskInv, SeenTo, ToStart, OnIt
    <2> QED BY <2>2, <2>3 DEF IndInv
<1>6. CASE CreateFails(w) \/ SwapFails(w)
    BY <1>6, FailedIsOver DEF CreateFails, SwapFails, past
<1>7. CASE Lifecycle(w) /\ ~CreateFails(w) /\ ~SwapFails(w)
    <2>1. wk[w].pc # "idle" /\ UNCHANGED <<queue, job, starter, stranded>>
        BY <1>7 DEF Lifecycle, Ensure, NextVersion, CreateStore, SwapRead, SwapAlias,
             ListStores, DeleteStore, db, past
    <2>2. KeepsTask(w)
        BY <1>7, LifecycleKeeps DEF Lifecycle
    <2> QED BY <1>q, <2>1, <2>2, GoesOn
<1>8. CASE Rebuild(w) \/ Sync(w) \/ (Hooks(w) /\ ~WritePage(w))
    <2>1. wk[w].pc # "idle" /\ UNCHANGED <<queue, job, starter, stranded>>
        <3>1. CASE Rebuild(w)
            BY <3>1 DEF Rebuild, BuildProject, BuildEnds, BuildStays, BuildGoes, db, past
        <3>2. CASE Sync(w)
            <4>1. wk[w].pc # "idle" /\ UNCHANGED <<db, queue, starter, past>>
                BY <3>2, Zenon DEF Sync, Expect, Scan, Update, DeleteOrphans
            <4> QED BY <4>1 DEF db, past
        <3>3. CASE Hooks(w) /\ ~WritePage(w)
            BY <3>3 DEF Hooks, PageStart, ProjectStart, ClearStore, ReadPage, db, past
        <3> QED BY <1>8, <3>1, <3>2, <3>3
    <2>2. KeepsTask(w)
        BY <1>8, OperationKeeps DEF Hooks
    <2> QED BY <1>q, <2>1, <2>2, GoesOn
<1>9. CASE WritePage(w)
    <2>1. wk[w].pc # "idle" /\ UNCHANGED <<queue, starter, stranded>>
        BY <1>9 DEF WritePage, past
    <2>2. CASE EndFailed(w)
        BY <2>1, <2>2, FailedIsOver
    <2>3. CASE ~EndFailed(w)
        <3>1. UNCHANGED job /\ KeepsTask(w)
            BY <1>9, <2>3 DEF WritePage, GoTo, Go, KeepsTask, IndInv, Shape
        <3> QED BY <1>q, <2>1, <3>1, GoesOn
    <2> QED BY <2>2, <2>3
<1> QED BY <1>1, <1>2, <1>3, <1>4, <1>5, <1>6, <1>7, <1>8, <1>9 DEF Work

LEMMA FaultStep == ASSUME IndInv, NEW w \in Workers, Faults(w) PROVE IndInv'
<1>q. queue \subseteq Tasks
    BY DEF IndInv, Shape
<1>1. CASE BulkWriteFails(w) \/ LookupFails(w)
    <2>1. wk[w].pc # "idle" /\ UNCHANGED <<queue, job, starter, stranded>>
        BY <1>1 DEF BulkWriteFails, LookupFails, db, past
    <2>2. CASE BulkWriteFails(w)
        <3>1. KeepsTask(w)
            BY <2>2 DEF BulkWriteFails, KeepsTask, IndInv, Shape
        <3> QED BY <1>q, <2>1, <3>1, GoesOn
    <2>3. CASE LookupFails(w)
        <3>1. KeepsTask(w)
            BY <2>3 DEF LookupFails, KeepsTask, IndInv, Shape
        <3> QED BY <1>q, <2>1, <3>1, GoesOn
    <2> QED BY <1>1, <2>2, <2>3
<1>2. CASE Raise(w)
    BY <1>2, FailedIsOver DEF Raise, past
<1>3. CASE Crash(w)
    <2>1. /\ queue' = queue \cup {wk[w].task} /\ UNCHANGED <<job, starter, stranded>>
          /\ wk[w].pc # "idle" /\ wk' = [wk EXCEPT ![w] = Idle]
        BY <1>3 DEF Crash, db, past
    <2>2. Shape'
        BY <2>1 DEF IndInv, Shape, Idle
    <2>3. TaskInv'
        BY <2>1 DEF IndInv, Shape, TaskInv, SeenTo, ToStart, OnIt
    <2> QED BY <2>2, <2>3 DEF IndInv
<1>4. CASE Killed(w)
    <2>1. /\ UNCHANGED <<queue, job, starter>> /\ wk' = [wk EXCEPT ![w] = Idle]
          /\ stranded' = stranded \cup {j \in Jobs : wk[w].task = JobTask(j)}
        BY <1>4 DEF Killed, db
    <2>2. Shape'
        BY <2>1 DEF IndInv, Shape, Idle
    <2>3. TaskInv'
        BY <2>1 DEF IndInv, Shape, TaskInv, SeenTo, ToStart, OnIt
    <2> QED BY <2>2, <2>3 DEF IndInv
<1>5. CASE Redeliver(w)
    <2>1. /\ queue' = queue \cup {wk[w].task} /\ UNCHANGED <<wk, job, starter, stranded>>
          /\ wk[w].pc # "idle"
        BY <1>5 DEF Redeliver, db, past
    <2> QED BY <2>1 DEF IndInv, Shape, TaskInv, SeenTo, ToStart, OnIt
<1> QED BY <1>1, <1>2, <1>3, <1>4, <1>5 DEF Faults

(* ActiveJobHasTask: who blocks a scope in start_job will be ended by       *)
(* somebody, unless the process that committed its row or ran it was killed *)
(* or its command could not reach the queue.                                *)
THEOREM NoJobIsStranded == Spec => []ActiveJobHasTask
<1>1. IndInv /\ [Next]_vars => IndInv'
    <2> SUFFICES ASSUME IndInv, [Next]_vars PROVE IndInv'
        OBVIOUS
    <2>1. CASE UNCHANGED vars
        BY <2>1 DEF vars, db, past, IndInv, Shape, TaskInv, SeenTo, ToStart, OnIt
    <2> QED BY <2>1, RequestStep, WorkStep, FaultStep DEF Next
<1>2. IndInv => ActiveJobHasTask
    BY DEF IndInv, TaskInv, SeenTo, OnIt, ActiveJobHasTask
<1> QED BY <1>1, <1>2, InitInv, PTL DEF Spec
=============================================================================
