------------------------------ MODULE SearchIndex ------------------------------
(***************************************************************************)
(* The full-text index: the jobs and hook tasks of                         *)
(* kalanjiyam/tasks/search_index.py, the index operations of               *)
(* kalanjiyam/search/indexer.py they run, and the dashboards and commands  *)
(* that start and cancel them (kalanjiyam/search/admin_ops.py, cli.py).    *)
(*                                                                         *)
(* Every organization has an alias, which searches and hook tasks use, on  *)
(* store indices that are numbered; a rebuild fills a new store and swaps  *)
(* the alias.  A project has one page.  Pages and projects have indices of *)
(* their own that go through the same steps: the model has the pages'.     *)
(***************************************************************************)
EXTENDS Integers, FiniteSets, FiniteSetsExt

CONSTANTS
    Orgs, Projects, Workers,
    Jobs,           \* SearchIndexJob rows
    Home,           \* the organization all projects belong to at first
    All,            \* the scope of a job for all organizations
    Nobody,
    MaxVersions,    \* bound: numbers of an organization's stores
    MaxChanges,     \* bound: edits, changes of membership and deletions
    MaxFaults       \* bound: exceptions, failed writes, deaths, redeliveries

ASSUME ConstantsAssumption ==
    /\ IsFiniteSet(Orgs) /\ Home \in Orgs /\ All \notin Orgs
    /\ Nobody \notin Workers
    /\ MaxVersions \in Nat \ {0}
    /\ MaxChanges \in Nat /\ MaxFaults \in Nat

VARIABLES
    rev,        \* DB: the latest revision of the project's page; 0: no project
    groups,     \* DB: the organizations a project belongs to
    job,        \* DB: the SearchIndexJob rows
    queue,      \* the search_index queue
    starter,    \* the process that made a job's row, while it has to start the
                \* job: a request of a dashboard, a command; "now": it runs it
    stores,     \* OpenSearch: the numbers of an organization's stores
    alias,      \* OpenSearch: the stores its alias points at
    docs,       \* OpenSearch: the documents of a store
    shadow,     \* OpenSearch: organizations with an index named like the alias
    wk,         \* what a worker does
    changes,    \* changes of the database so far
    faults,     \* faults so far
    dropped,    \* history: organizations some task began to drop
    reused,     \* history: those with a store made again under a number that
                \* another task fills, shows or is about to delete
    stranded,   \* history: jobs left by a process or dispatch that failed
    solo        \* history: the worker that has acted alone since its rebuild
                \* or sync took up an organization

db == <<rev, groups, job>>
cluster == <<stores, alias, docs, shadow>>
past == <<dropped, reused, stranded>>
vars == <<db, queue, starter, cluster, wk, changes, faults, past, solo>>

Versions == 1 .. MaxVersions
Entry == [rev : 0 .. MaxChanges + 1, groups : SUBSET Orgs]
Blank == [rev |-> 0, groups |-> {}]
NoDocs == [p \in Projects |-> Blank]

JobTasks == [kind : {"job"}, of : Jobs]
HookTasks == [kind : {"page", "project", "removal"}, of : Projects]
Tasks == JobTasks \cup HookTasks
JobTask(j) == [kind |-> "job", of |-> j]

Terminal == {"COMPLETED", "FAILED", "CANCELLED"}
Active == {"PENDING", "IN_PROGRESS"}

(* A worker, or a command that runs a job itself: the task it runs, the     *)
(* organizations ahead, the one it is at, the number of its new store; old: *)
(* stores to be deleted or cleared, or orphans; todo: projects still to be  *)
(* written, or what the database expects; of, doc: the project whose page   *)
(* it is about to write, and what.                                          *)
Idle == [pc |-> "idle", task |-> Nobody, orgs |-> {}, org |-> Nobody, ver |-> 0,
         old |-> {}, todo |-> {}, of |-> Nobody, doc |-> Blank]

Members(o) == {p \in Projects : o \in groups[p]}

Init ==
    /\ rev = [p \in Projects |-> 1]
    /\ groups = [p \in Projects |-> {Home}]
    /\ job = [j \in Jobs |-> [type |-> "NONE", scope |-> All, status |-> "NONE",
                              cancel |-> FALSE]]
    /\ queue = {} /\ starter = [j \in Jobs |-> "gone"]
    /\ stores = [o \in Orgs |-> IF o = Home THEN {1} ELSE {}]
    /\ alias = stores
    /\ docs = [o \in Orgs |-> [v \in Versions |->
                  IF o = Home /\ v = 1
                  THEN [p \in Projects |-> [rev |-> 1, groups |-> {Home}]]
                  ELSE NoDocs]]
    /\ shadow = {}
    /\ wk = [w \in Workers |-> Idle]
    /\ changes = 0 /\ faults = 0
    /\ dropped = {} /\ reused = {} /\ stranded = {} /\ solo = Nobody

-----------------------------------------------------------------------------
(* Requests: the edits with their hooks, and the dashboards *)

Enqueue(k, p) == queue' = queue \cup {[kind |-> k, of |-> p]}

Change(p) ==
    /\ rev[p] # 0 /\ changes < MaxChanges
    /\ changes' = changes + 1
    /\ solo' = Nobody

(* add_revision enqueues the page.                                          *)
EditPage(p) ==
    /\ Change(p)
    /\ rev' = [rev EXCEPT ![p] = @ + 1]
    /\ Enqueue("page", p)
    /\ UNCHANGED <<groups, job, cluster, wk, faults, starter, past>>

Move(p, gs) ==
    /\ Change(p)
    /\ groups' = [groups EXCEPT ![p] = gs]

AddToGroup(p, o) ==
    /\ o \notin groups[p]
    /\ Move(p, groups[p] \cup {o})
    /\ Enqueue("project", p)
    /\ UNCHANGED <<rev, job, cluster, wk, faults, starter, past>>

RemoveFromGroup(p, o) ==
    /\ o \in groups[p]
    /\ Move(p, groups[p] \ {o})
    /\ Enqueue("project", p)
    /\ UNCHANGED <<rev, job, cluster, wk, faults, starter, past>>

DeleteProject(p) ==
    /\ Move(p, {})
    /\ rev' = [rev EXCEPT ![p] = 0]
    /\ Enqueue("removal", p)
    /\ UNCHANGED <<job, cluster, wk, faults, starter, past>>

Fault == faults < MaxFaults /\ faults' = faults + 1

(* The row is committed, PENDING, before its task is dispatched.            *)
NewJob(j, t, s, who) ==
    /\ job[j].status = "NONE"
    /\ job' = [job EXCEPT ![j] = [type |-> t, scope |-> s, status |-> "PENDING", cancel |-> FALSE]]
    /\ starter' = [starter EXCEPT ![j] = who]
    /\ UNCHANGED <<rev, groups, queue, cluster, wk, changes, faults, past, solo>>

(* start_job refuses a scope with an active job; cli.py does not look.      *)
StartJob(j, t, s) ==
    /\ ~\E i \in Jobs : job[i].scope = s /\ job[i].status \in Active
    /\ NewJob(j, t, s, "dashboard")

CliJob(j, t, s) == t # "DROP" /\ NewJob(j, t, s, "command")

ToStart(j) == starter[j] \in {"dashboard", "command"}

Dispatch(j) ==
    /\ ToStart(j)
    /\ queue' = queue \cup {JobTask(j)}
    /\ starter' = [starter EXCEPT ![j] = "gone"]
    /\ UNCHANGED <<db, cluster, wk, changes, faults, past, solo>>

(* The queue cannot be reached: start_job fails the job, and its message    *)
(* replaces the mark; cli.py has no handler.                                *)
DispatchFails(j) ==
    /\ Fault /\ ToStart(j)
    /\ starter' = [starter EXCEPT ![j] = "gone"]
    /\ \/ /\ starter[j] = "dashboard"
          /\ job' = [job EXCEPT ![j].status = "FAILED", ![j].cancel = FALSE]
          /\ UNCHANGED stranded
       \/ /\ starter[j] = "command"
          /\ stranded' = stranded \cup {j}
          /\ UNCHANGED job
    /\ UNCHANGED <<rev, groups, queue, cluster, wk, changes, dropped, reused, solo>>

(* The process dies between its commit and the dispatch.                    *)
StarterDies(j) ==
    /\ Fault /\ ToStart(j)
    /\ starter' = [starter EXCEPT ![j] = "gone"]
    /\ stranded' = stranded \cup {j}
    /\ UNCHANGED <<db, queue, cluster, wk, changes, dropped, reused, solo>>

(* cancel_job only leaves a mark, which may be there already.               *)
CancelJob(j) ==
    /\ job[j].status \in Active /\ ~job[j].cancel
    /\ job' = [job EXCEPT ![j].cancel = TRUE]
    /\ UNCHANGED <<rev, groups, queue, cluster, wk, changes, faults, starter, past, solo>>

-----------------------------------------------------------------------------
(* Workers *)

IsJob(w) == wk[w].task \in JobTasks
Runs(w, t) == IsJob(w) /\ job[wk[w].task.of].type = t
Cancelled(w) == job[wk[w].task.of].cancel

Go(w, r) ==
    /\ wk' = [wk EXCEPT ![w] = r]
    /\ solo' = IF solo = w THEN w ELSE Nobody
GoTo(w, l) == Go(w, [wk[w] EXCEPT !.pc = l])

Over(w) == Go(w, [Idle EXCEPT !.pc = "ack", !.task = wk[w].task])

SetStatus(w, s) == job' = [job EXCEPT ![wk[w].task.of].status = s]

(* A task begins; _start_job looks at no status.                            *)
Begin(w, t) ==
    /\ wk[w].pc = "idle"
    /\ Go(w, [Idle EXCEPT !.task = t, !.pc = IF t.kind = "job" THEN "targets" ELSE t.kind,
                          !.of = IF t.kind = "job" THEN Nobody ELSE t.of])
    /\ job' = IF t.kind = "job" THEN [job EXCEPT ![t.of].status = "IN_PROGRESS"] ELSE job

Take(w) ==
    /\ \E t \in queue : Begin(w, t) /\ queue' = queue \ {t}
    /\ UNCHANGED <<rev, groups, cluster, changes, faults, starter, past>>

(* search-index rebuild and sync with --now: no message is sent.            *)
RunNow(w) ==
    /\ \E j \in Jobs :
          /\ starter[j] = "command" /\ Begin(w, JobTask(j))
          /\ starter' = [starter EXCEPT ![j] = "now"]
    /\ UNCHANGED <<rev, groups, queue, cluster, changes, faults, past>>

RunsNow(w) == IsJob(w) /\ starter[wk[w].task.of] = "now"

(* _target_group_ids                                                        *)
Targets(w) ==
    /\ wk[w].pc = "targets"
    /\ LET s == job[wk[w].task.of].scope
       IN Go(w, [wk[w] EXCEPT !.pc = "next",
                              !.orgs = IF s = All THEN UNION {groups[p] : p \in Projects}
                                       ELSE {s}])
    /\ UNCHANGED <<db, queue, cluster, changes, faults, starter, past>>

First(w) == IF Runs(w, "REBUILD") THEN "version" ELSE IF Runs(w, "DROP") THEN "list" ELSE "ensure"

(* Mutant: a status no reader of the row knows.                             *)
EndCancelled_OtherStatus(w) ==
    /\ wk[w].pc = "next" /\ wk[w].orgs # {}
    /\ (Runs(w, "REBUILD") \/ Runs(w, "SYNC")) /\ Cancelled(w)
    /\ SetStatus(w, "CANCELED")
    /\ Over(w)
    /\ UNCHANGED <<rev, groups, queue, cluster, changes, faults, starter, past>>

(* The loop over the organizations; rebuild and sync look for the mark.     *)
NextOrg(w) ==
    /\ wk[w].pc = "next" /\ wk[w].orgs # {}
    /\ Runs(w, "REBUILD") \/ Runs(w, "SYNC") => ~Cancelled(w)
    /\ \E o \in wk[w].orgs :
          /\ wk' = [wk EXCEPT ![w] = [wk[w] EXCEPT !.pc = First(w), !.org = o, !.orgs = @ \ {o},
                                                   !.ver = 0, !.old = {}, !.todo = {}]]
          /\ dropped' = IF Runs(w, "DROP") THEN dropped \cup {o} ELSE dropped
    /\ solo' = IF Runs(w, "REBUILD") \/ Runs(w, "SYNC") THEN w ELSE Nobody
    /\ UNCHANGED <<db, queue, cluster, changes, faults, starter, reused, stranded>>

EndCancelled(w) ==
    /\ wk[w].pc = "next" /\ wk[w].orgs # {}
    /\ (Runs(w, "REBUILD") \/ Runs(w, "SYNC")) /\ Cancelled(w)
    /\ SetStatus(w, "CANCELLED")
    /\ Over(w)
    /\ UNCHANGED <<rev, groups, queue, cluster, changes, faults, starter, past>>

EndTask(w) ==
    /\ wk[w].pc = "next" /\ wk[w].orgs = {}
    /\ IF IsJob(w) THEN SetStatus(w, "COMPLETED") ELSE UNCHANGED job
    /\ Over(w)
    /\ UNCHANGED <<rev, groups, queue, cluster, changes, faults, starter, past>>

(* The message is acknowledged after the task.                              *)
Ack(w) ==
    /\ wk[w].pc = "ack"
    /\ Go(w, Idle)
    /\ UNCHANGED <<db, queue, cluster, changes, faults, starter, past>>

(* An exception fails a job and replaces its message, the mark; the task is *)
(* over either way.                                                         *)
EndFailed(w) ==
    /\ job' = IF IsJob(w)
              THEN [job EXCEPT ![wk[w].task.of].status = "FAILED",
                               ![wk[w].task.of].cancel = FALSE]
              ELSE job
    /\ Over(w)

-----------------------------------------------------------------------------
(* create_store_index, swap_alias and ensure_org_indices *)

(* What comes after ensure_org_indices.                                     *)
Ensured(w) ==
    CASE IsJob(w) -> "expect"
      [] wk[w].task.kind = "project" -> "read"
      [] wk[w].task.kind = "page" -> "write"

Ensure(w) ==
    /\ wk[w].pc = "ensure"
    /\ GoTo(w, IF alias[wk[w].org] = {} THEN "version" ELSE Ensured(w))
    /\ UNCHANGED <<db, queue, cluster, changes, faults, starter, past>>

(* _next_version                                                            *)
NextVersion(w) ==
    /\ wk[w].pc = "version"
    /\ LET v == Max(stores[wk[w].org] \cup {0}) + 1
       IN v <= MaxVersions /\ Go(w, [wk[w] EXCEPT !.pc = "create", !.ver = v])
    /\ UNCHANGED <<db, queue, cluster, changes, faults, starter, past>>

(* The steps of a task that has made a store and not yet shown it.          *)
Making == {"build", "built", "swapread", "swap"}

(* No task fills store n of o or is about to show it, and none has retired  *)
(* it and is about to delete it.                                            *)
Unused(o, n) ==
    \A w \in Workers :
        /\ ~(wk[w].pc \in Making /\ wk[w].org = o /\ wk[w].ver = n)
        /\ wk[w].pc \in {"swap", "delete"} => <<o, n>> \notin wk[w].old

(* Mutant: a store that exists is taken as the new one.                     *)
CreateStore_Reuses(w) ==
    /\ wk[w].pc = "create"
    /\ stores' = [stores EXCEPT ![wk[w].org] = @ \cup {wk[w].ver}]
    /\ Go(w, IF Runs(w, "REBUILD")
             THEN [wk[w] EXCEPT !.pc = "build", !.todo = Members(wk[w].org)]
             ELSE [wk[w] EXCEPT !.pc = "swapread"])
    /\ UNCHANGED <<db, queue, alias, docs, shadow, changes, faults, starter, past>>

(* Two tasks may have chosen the same number: the second one fails.  A      *)
(* rebuild lists the organization's projects next.                          *)
CreateStore(w) ==
    /\ wk[w].pc = "create" /\ wk[w].ver \notin stores[wk[w].org]
    /\ stores' = [stores EXCEPT ![wk[w].org] = @ \cup {wk[w].ver}]
    /\ docs' = [docs EXCEPT ![wk[w].org][wk[w].ver] = NoDocs]
    /\ Go(w, IF Runs(w, "REBUILD")
             THEN [wk[w] EXCEPT !.pc = "build", !.todo = Members(wk[w].org)]
             ELSE [wk[w] EXCEPT !.pc = "swapread"])
    /\ reused' = IF Unused(wk[w].org, wk[w].ver) THEN reused ELSE reused \cup {wk[w].org}
    /\ UNCHANGED <<db, queue, alias, shadow, changes, faults, starter, dropped, stranded>>

CreateFails(w) ==
    /\ wk[w].pc = "create" /\ wk[w].ver \in stores[wk[w].org]
    /\ EndFailed(w)
    /\ UNCHANGED <<rev, groups, queue, cluster, changes, faults, starter, past>>

(* Mutant: the old stores lose the alias in a request of their own.         *)
SwapRead_Removes(w) ==
    /\ wk[w].pc = "swapread"
    /\ alias' = [alias EXCEPT ![wk[w].org] = {}]
    /\ Go(w, [wk[w] EXCEPT !.pc = "swap",
                           !.old = {<<wk[w].org, v>> : v \in alias[wk[w].org] \ {wk[w].ver}}])
    /\ UNCHANGED <<db, queue, stores, docs, shadow, changes, faults, starter, past>>

SwapRead(w) ==
    /\ wk[w].pc = "swapread"
    /\ Go(w, [wk[w] EXCEPT !.pc = "swap",
                           !.old = {<<wk[w].org, v>> : v \in alias[wk[w].org] \ {wk[w].ver}}])
    /\ UNCHANGED <<db, queue, cluster, changes, faults, starter, past>>

(* update_aliases takes effect at once.  It fails when one of its stores is *)
(* gone or an index has the alias's name, and passes over a store that has  *)
(* lost the alias.                                                          *)
CanSwap(w) ==
    /\ wk[w].org \notin shadow
    /\ wk[w].ver \in stores[wk[w].org]
    /\ \A s \in wk[w].old : s[2] \in stores[s[1]]

SwapAlias(w) ==
    /\ wk[w].pc = "swap" /\ CanSwap(w)
    /\ alias' = [alias EXCEPT ![wk[w].org] = (@ \ {s[2] : s \in wk[w].old}) \cup {wk[w].ver}]
    /\ GoTo(w, IF Runs(w, "REBUILD") THEN "delete" ELSE Ensured(w))
    /\ UNCHANGED <<db, queue, stores, docs, shadow, changes, faults, starter, past>>

SwapFails(w) ==
    /\ wk[w].pc = "swap" /\ ~CanSwap(w)
    /\ EndFailed(w)
    /\ UNCHANGED <<rev, groups, queue, cluster, changes, faults, starter, past>>

RemoveStore(o, v) ==
    /\ stores' = [stores EXCEPT ![o] = @ \ {v}]
    /\ alias' = [alias EXCEPT ![o] = @ \ {v}]
    /\ docs' = [docs EXCEPT ![o][v] = NoDocs]

-----------------------------------------------------------------------------
(* rebuild_org and index_org *)

(* A document written to store v of o; OpenSearch makes the index if there  *)
(* is none.                                                                 *)
WriteStore(o, v, p, d) ==
    /\ stores' = [stores EXCEPT ![o] = @ \cup {v}]
    /\ docs' = [docs EXCEPT ![o][v][p] = d]

(* The next project, as it is by now, is written to the new store unless    *)
(* the job has been cancelled.  Projects without group or page are skipped; *)
(* a write may fail and is counted only.                                    *)
BuildProject(w) ==
    /\ wk[w].pc = "build" /\ ~Cancelled(w)
    /\ \E p \in wk[w].todo :
          /\ Go(w, [wk[w] EXCEPT !.todo = @ \ {p}])
          /\ IF groups[p] = {} \/ rev[p] = 0 THEN UNCHANGED <<stores, docs>>
             ELSE WriteStore(wk[w].org, wk[w].ver, p, [rev |-> rev[p], groups |-> groups[p]])
    /\ UNCHANGED <<db, queue, alias, shadow, changes, faults, starter, past>>

(* index_org ends when nothing is left or the job has been cancelled; what  *)
(* it has not written stays in todo.                                        *)
BuildEnds(w) ==
    /\ wk[w].pc = "build" /\ (wk[w].todo = {} \/ Cancelled(w))
    /\ GoTo(w, "built")
    /\ UNCHANGED <<db, queue, cluster, changes, faults, starter, past>>

(* rebuild_org looks for the mark once more: a cancelled build is deleted.  *)
BuildStays(w) ==
    /\ wk[w].pc = "built" /\ ~Cancelled(w)
    /\ GoTo(w, "swapread")
    /\ UNCHANGED <<db, queue, cluster, changes, faults, starter, past>>

BuildGoes(w) ==
    /\ wk[w].pc = "built" /\ Cancelled(w)
    /\ RemoveStore(wk[w].org, wk[w].ver)
    /\ GoTo(w, "next")
    /\ UNCHANGED <<db, queue, shadow, changes, faults, starter, past>>

(* The stores the alias has left are deleted; so are those of drop_index.   *)
DeleteStore(w) ==
    /\ wk[w].pc = "delete"
    /\ IF wk[w].old = {} THEN GoTo(w, "next") /\ UNCHANGED <<stores, alias, docs>>
       ELSE \E s \in wk[w].old :
               /\ RemoveStore(s[1], s[2])
               /\ Go(w, [wk[w] EXCEPT !.old = @ \ {s}])
    /\ UNCHANGED <<db, queue, shadow, changes, faults, starter, past>>

(* drop_org_indices lists the stores, those being built too.                *)
ListStores(w) ==
    /\ wk[w].pc = "list"
    /\ Go(w, [wk[w] EXCEPT !.pc = "delete", !.old = {<<wk[w].org, v>> : v \in stores[wk[w].org]}])
    /\ UNCHANGED <<db, queue, cluster, changes, faults, starter, past>>

-----------------------------------------------------------------------------
(* sync_org *)

(* Tasks that overlapped may have left an alias on several stores.          *)
Doubled(o) == Cardinality(alias[o]) > 1

(* A write through the alias of o: refused while it is doubled; without a   *)
(* store, OpenSearch makes an index of the alias's name.                    *)
WriteAlias(o, p, d) ==
    /\ docs' = [docs EXCEPT ![o] = [v \in Versions |->
                   IF alias[o] = {v} THEN [@[v] EXCEPT ![p] = d] ELSE @[v]]]
    /\ shadow' = IF alias[o] = {} THEN shadow \cup {o} ELSE shadow

Indexed(o, p) == {docs[o][v][p].rev : v \in alias[o]} \ {0}

(* index_drift: what the database expects, then what the alias has.  A scan *)
(* without an index ends the organization's sync without an error.          *)
Expect(w) ==
    /\ wk[w].pc = "expect"
    /\ Go(w, [wk[w] EXCEPT !.pc = "scan", !.todo = {<<p, rev[p]>> : p \in Members(wk[w].org)}])
    /\ UNCHANGED <<db, queue, cluster, changes, faults, starter, past>>

(* Pages to be written: those without a document, or with one of another    *)
(* revision.                                                                *)
Missing(w) == {e \in wk[w].todo : Indexed(wk[w].org, e[1]) = {}}
Stale(w) == {e \in wk[w].todo : Indexed(wk[w].org, e[1]) \notin {{}, {e[2]}}}

(* Mutant: only pages that no longer exist are orphans.                     *)
Orphaned_Deleted(w) == {p \in Projects : Indexed(wk[w].org, p) # {} /\ rev[p] = 0}

(* Indexed pages the database does not expect here.                        *)
Orphaned(w) ==
    {p \in Projects : Indexed(wk[w].org, p) # {} /\ \A e \in wk[w].todo : e[1] # p}

Scan(w) ==
    /\ wk[w].pc = "scan"
    /\ IF alias[wk[w].org] = {} /\ wk[w].org \notin shadow THEN GoTo(w, "next")
       ELSE Go(w, [wk[w] EXCEPT !.pc = "update", !.old = Orphaned(w),
                                !.todo = {e[1] : e \in Missing(w) \cup Stale(w)}])
    /\ UNCHANGED <<db, queue, cluster, changes, faults, starter, past>>

(* A drifted page is read again and sent.                                   *)
Update(w) ==
    /\ wk[w].pc = "update"
    /\ IF wk[w].todo = {} THEN GoTo(w, "orphans")
       ELSE \E p \in wk[w].todo :
               Go(w, [wk[w] EXCEPT !.todo = @ \ {p}, !.of = p,
                                   !.pc = IF groups[p] = {} \/ rev[p] = 0 THEN "update"
                                          ELSE "write",
                                   !.doc = [rev |-> rev[p], groups |-> groups[p]]])
    /\ UNCHANGED <<db, queue, cluster, changes, faults, starter, past>>

(* Orphans are deleted through the alias, whatever store it has by now.     *)
DeleteOrphans(w) ==
    /\ wk[w].pc = "orphans"
    /\ docs' = [docs EXCEPT ![wk[w].org] = [v \in Versions |->
                   IF v \in alias[wk[w].org]
                   THEN [p \in Projects |-> IF p \in wk[w].old THEN Blank ELSE @[v][p]]
                   ELSE @[v]]]
    /\ GoTo(w, "next")
    /\ UNCHANGED <<db, queue, stores, alias, shadow, changes, faults, starter, past>>

-----------------------------------------------------------------------------
(* index_page, index_project and delete_project_docs *)

(* page.revisions[-1] is read before the indices are looked at.             *)
PageStart(w) ==
    /\ wk[w].pc = "page"
    /\ LET p == wk[w].of
       IN Go(w, [wk[w] EXCEPT !.pc = "next", !.orgs = groups[p],
                              !.doc = [rev |-> rev[p], groups |-> groups[p]]])
    /\ UNCHANGED <<db, queue, cluster, changes, faults, starter, past>>

(* The project's groups, and the stores under the aliases of all others.    *)
ProjectStart(w) ==
    /\ wk[w].pc \in {"project", "removal"}
    /\ LET keep == IF wk[w].pc = "project" THEN groups[wk[w].of] ELSE {}
       IN Go(w, [wk[w] EXCEPT !.pc = "clear", !.orgs = keep, !.doc.groups = keep,
                              !.old = UNION {{<<o, v>> : v \in alias[o]} : o \in Orgs \ keep}])
    /\ UNCHANGED <<db, queue, cluster, changes, faults, starter, past>>

ClearStore(w) ==
    /\ wk[w].pc = "clear"
    /\ IF wk[w].old = {} THEN GoTo(w, "next") /\ UNCHANGED docs
       ELSE \E s \in wk[w].old :
               /\ docs' = [docs EXCEPT ![s[1]][s[2]][wk[w].of] = Blank]
               /\ Go(w, [wk[w] EXCEPT !.old = @ \ {s}])
    /\ UNCHANGED <<db, queue, stores, alias, shadow, changes, faults, starter, past>>

(* index_project reads the page when its organization's turn has come.      *)
ReadPage(w) ==
    /\ wk[w].pc = "read"
    /\ Go(w, [wk[w] EXCEPT !.pc = IF rev[wk[w].of] = 0 THEN "next" ELSE "write",
                           !.doc.rev = rev[wk[w].of]])
    /\ UNCHANGED <<db, queue, cluster, changes, faults, starter, past>>

(* The bulk request or client.index.  A refused write is counted in a bulk  *)
(* and raised by client.index.                                              *)
WritePage(w) ==
    /\ wk[w].pc = "write"
    /\ WriteAlias(wk[w].org, wk[w].of, wk[w].doc)
    /\ IF wk[w].task.kind = "page" /\ Doubled(wk[w].org)
       THEN EndFailed(w)
       ELSE /\ GoTo(w, IF IsJob(w) THEN "update" ELSE "next")
            /\ UNCHANGED job
    /\ UNCHANGED <<rev, groups, queue, stores, alias, changes, faults, starter, past>>

-----------------------------------------------------------------------------
(* Faults *)

(* A document of a bulk request is refused: it is counted, no more.         *)
BulkWriteFails(w) ==
    /\ Fault
    /\ \/ /\ wk[w].pc = "build"
          /\ \E p \in wk[w].todo : wk' = [wk EXCEPT ![w].todo = @ \ {p}]
       \/ /\ wk[w].pc = "write" /\ wk[w].task.kind # "page"
          /\ wk' = [wk EXCEPT ![w].pc = IF IsJob(w) THEN "update" ELSE "next"]
    /\ solo' = Nobody
    /\ UNCHANGED <<db, queue, cluster, changes, starter, past>>

(* A call of the cluster raises.  Only index_org has the new store deleted. *)
Raise(w) ==
    /\ Fault
    /\ wk[w].pc \in {"create", "swapread", "swap", "delete", "list", "write", "build"}
    /\ EndFailed(w)
    /\ IF wk[w].pc = "build" THEN RemoveStore(wk[w].org, wk[w].ver)
       ELSE UNCHANGED <<stores, alias, docs>>
    /\ UNCHANGED <<rev, groups, queue, shadow, changes, starter, past>>

(* A lookup of the cluster raises, and the code goes on as if it had found  *)
(* nothing.                                                                 *)
LookupFails(w) ==
    /\ Fault
    /\ wk[w].pc \in {"ensure", "version", "swapread"}
    /\ wk' = [wk EXCEPT ![w] =
                 CASE @.pc = "ensure" -> [@ EXCEPT !.pc = "version"]
                   [] @.pc = "version" -> [@ EXCEPT !.pc = "create", !.ver = 1]
                   [] @.pc = "swapread" -> [@ EXCEPT !.pc = "swap", !.old = {}]]
    /\ solo' = Nobody
    /\ UNCHANGED <<db, queue, cluster, changes, starter, past>>

(* Mutant: messages are acknowledged when they are taken.                   *)
Crash_AckedEarly(w) ==
    /\ Fault
    /\ wk[w].pc # "idle"
    /\ wk' = [wk EXCEPT ![w] = Idle]
    /\ solo' = Nobody
    /\ UNCHANGED <<db, queue, cluster, changes, starter, past>>

(* A worker dies; its message comes back.                                   *)
Crash(w) ==
    /\ Fault
    /\ wk[w].pc # "idle" /\ ~RunsNow(w)
    /\ queue' = queue \cup {wk[w].task}
    /\ wk' = [wk EXCEPT ![w] = Idle]
    /\ solo' = Nobody
    /\ UNCHANGED <<db, cluster, changes, starter, past>>

(* The pool child that runs a task is killed: Celery acknowledges the       *)
(* message, as task_reject_on_worker_lost is unset.  Or the command that    *)
(* runs a job itself is.                                                    *)
Killed(w) ==
    /\ Fault
    /\ wk[w].pc \notin {"idle", "ack"}
    /\ wk' = [wk EXCEPT ![w] = Idle]
    /\ solo' = Nobody
    /\ stranded' = stranded \cup {j \in Jobs : wk[w].task = JobTask(j)}
    /\ UNCHANGED <<db, queue, cluster, changes, starter, dropped, reused>>

(* The visibility timeout passes while the task still runs.                 *)
Redeliver(w) ==
    /\ Fault
    /\ wk[w].pc # "idle" /\ ~RunsNow(w)
    /\ queue' = queue \cup {wk[w].task}
    /\ UNCHANGED <<db, cluster, wk, changes, starter, past, solo>>

-----------------------------------------------------------------------------
Requests ==
    \/ \E p \in Projects :
          \/ EditPage(p) \/ DeleteProject(p)
          \/ \E o \in Orgs : AddToGroup(p, o) \/ RemoveFromGroup(p, o)
    \/ \E j \in Jobs :
          \/ \E t \in {"REBUILD", "SYNC"}, s \in Orgs \cup {All} :
                StartJob(j, t, s) \/ CliJob(j, t, s)
          \/ \E o \in Orgs : StartJob(j, "DROP", o)
          \/ Dispatch(j) \/ DispatchFails(j) \/ StarterDies(j) \/ CancelJob(j)

Lifecycle(w) ==
    \/ Ensure(w) \/ NextVersion(w) \/ CreateStore(w) \/ CreateFails(w)
    \/ SwapRead(w) \/ SwapAlias(w) \/ SwapFails(w)
    \/ ListStores(w) \/ DeleteStore(w)
Rebuild(w) == BuildProject(w) \/ BuildEnds(w) \/ BuildStays(w) \/ BuildGoes(w)
Sync(w) == Expect(w) \/ Scan(w) \/ Update(w) \/ DeleteOrphans(w)
Hooks(w) ==
    \/ PageStart(w) \/ ProjectStart(w) \/ ClearStore(w) \/ ReadPage(w) \/ WritePage(w)
Work(w) ==
    \/ Take(w) \/ RunNow(w) \/ Targets(w) \/ NextOrg(w) \/ EndCancelled(w) \/ EndTask(w) \/ Ack(w)
    \/ Lifecycle(w) \/ Rebuild(w) \/ Sync(w) \/ Hooks(w)
Faults(w) ==
    \/ BulkWriteFails(w) \/ Raise(w) \/ LookupFails(w) \/ Crash(w) \/ Killed(w) \/ Redeliver(w)

Next == Requests \/ \E w \in Workers : Work(w) \/ Faults(w)

Spec == Init /\ [][Next]_vars

-----------------------------------------------------------------------------
(* Properties *)

(* The steps of a worker.                                                   *)
Steps ==
    {"idle", "ack", "targets", "next", "page", "project", "removal", "clear", "read", "write",
     "ensure", "version", "create", "build", "built", "swapread", "swap", "delete", "list",
     "expect", "scan", "update", "orphans"}

(* The rows, indices, messages and workers keep their types, and an alias   *)
(* points at stores that exist.                                             *)
TypeOK ==
    /\ rev \in [Projects -> 0 .. MaxChanges + 1]
    /\ groups \in [Projects -> SUBSET Orgs]
    /\ job \in [Jobs -> [type : {"NONE", "REBUILD", "SYNC", "DROP"}, scope : Orgs \cup {All},
                         status : {"NONE"} \cup Active \cup Terminal, cancel : BOOLEAN]]
    /\ queue \subseteq Tasks
    /\ starter \in [Jobs -> {"gone", "dashboard", "command", "now"}]
    /\ stores \in [Orgs -> SUBSET Versions]
    /\ alias \in [Orgs -> SUBSET Versions] /\ \A o \in Orgs : alias[o] \subseteq stores[o]
    /\ docs \in [Orgs -> [Versions -> [Projects -> Entry]]]
    /\ shadow \subseteq Orgs
    /\ dropped \subseteq Orgs /\ reused \subseteq Orgs /\ stranded \subseteq Jobs
    /\ wk \in [Workers -> [pc : Steps, task : Tasks \cup {Nobody}, orgs : SUBSET Orgs,
                           org : Orgs \cup {Nobody}, ver : {0} \cup Versions,
                           old : SUBSET ((Orgs \X Versions) \cup Projects),
                           todo : SUBSET (Projects \cup (Projects \X (0 .. MaxChanges + 1))),
                           of : Projects \cup {Nobody}, doc : Entry]]
    /\ changes \in Nat /\ faults \in Nat
    /\ solo \in Workers \cup {Nobody}

(* Where tasks may step on each other's stores: organizations that are      *)
(* dropped, or with a store made under a number that was still in use.      *)
Unsafe == dropped \cup reused

(* Search has no downtime: rebuilds, syncs and hook tasks that overlap,     *)
(* fail, are cancelled or run twice do not leave an organization without a  *)
(* store under its alias, unless somebody drops it or _next_version has     *)
(* given out a number again that another task still works with.             *)
SearchStaysUp ==
    [][\A o \in Orgs \ Unsafe : alias[o] # {} => alias'[o] # {}]_vars

(* Half-written documents are not visible: no search sees a store while a   *)
(* rebuild fills it, whatever stores other jobs make, swap and delete, with *)
(* the same two exceptions.                                                 *)
BuildsAreHidden ==
    \A w \in Workers :
        /\ wk[w].pc \in Making
        /\ Runs(w, "REBUILD") /\ wk[w].org \notin Unsafe
        => wk[w].ver \notin alias[wk[w].org]

InSync(o) ==
    \E v \in Versions :
        /\ alias[o] = {v}
        /\ \A p \in Projects : docs[o][v][p].rev = IF p \in Members(o) THEN rev[p] ELSE 0

(* The safety net: a rebuild of an organization during which nothing else   *)
(* happens leaves the index as the database has it, whatever lost, late and *)
(* overtaking hook tasks did to it before.  So does a sync, but not where   *)
(* the alias is on several stores: all its writes are refused there, and    *)
(* counted only.                                                            *)
LoneJobRepairs ==
    \A w \in Workers :
        /\ solo = w
        /\ \/ /\ wk[w].pc = "next" /\ Runs(w, "SYNC") /\ wk[w].org # Nobody
              /\ ~Doubled(wk[w].org)
           \/ wk[w].pc = "delete" /\ Runs(w, "REBUILD") /\ wk[w].old = {}
        => InSync(wk[w].org)

(* A job that is not over has somebody who will see to it, through crashes  *)
(* and redeliveries: the process that is to start it, a message in the      *)
(* queue or a worker on it; otherwise start_job would refuse its scope for  *)
(* ever.  That is so unless the process that started it or that ran it was  *)
(* killed, or a command could not reach the queue.                          *)
ActiveJobHasTask ==
    \A j \in Jobs \ stranded : job[j].status \in Active =>
        \/ ToStart(j)
        \/ JobTask(j) \in queue \cup {wk[w].task : w \in Workers}
=============================================================================
