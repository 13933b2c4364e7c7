-------------------------- MODULE SearchRepairProofs --------------------------
(***************************************************************************)
(* The types of the index, its jobs and its workers, and the safety net:   *)
(* a rebuild or a sync during which nothing else happens leaves the index  *)
(* of its organization as the database has it (a sync unless its alias is  *)
(* on several stores), for any number of workers, jobs, projects,          *)
(* organizations, stores and earlier faults.  And where nobody drops the   *)
(* index and no store is made again under a number somebody still holds,   *)
(* search has no downtime and sees no store that is being filled.          *)
(***************************************************************************)
EXTENDS SearchIndex, FiniteSetTheorems, WellFoundedInduction, TLAPS



Revisions == 0 .. MaxChanges + 1
Stored == Orgs \X Versions

JobType ==
    [type : {"NONE", "REBUILD", "SYNC", "DROP"}, scope : Orgs \cup {All},
     status : {"NONE"} \cup Active \cup Terminal, cancel : BOOLEAN]

WorkerType ==
    [pc : Steps, task : Tasks \cup {Nobody}, orgs : SUBSET Orgs,
     org : Orgs \cup {Nobody}, ver : {0} \cup Versions,
     old : SUBSET (Stored \cup Projects),
     todo : SUBSET (Projects \cup (Projects \X Revisions)),
     of : Projects \cup {Nobody}, doc : Entry]

AtStore == {"create", "build", "built", "swapread", "swap"}
AtOrg == AtStore \cup {"version", "list", "ensure", "delete", "expect", "scan", "update",
                       "orphans", "read", "write"}

(* What a worker's notes hold at its steps: an organization while it works  *)
(* on one, the number of a store once it is chosen, a project for a hook.   *)
Sound(x) ==
    /\ x \in WorkerType
    /\ x.pc # "idle" => x.task \in Tasks
    /\ x.pc = "targets" => x.task \in JobTasks /\ x.org = Nobody
    /\ x.pc \in AtOrg => x.org \in Orgs
    /\ x.pc \in AtStore => x.ver \in Versions
    /\ x.pc = "scan" => x.todo \subseteq Projects \X Revisions
    /\ x.pc \notin {"scan", "next"} => x.todo \subseteq Projects
    /\ x.pc \notin {"idle", "ack"} /\ x.task \in HookTasks => x.of \in Projects
    /\ x.pc \in {"read", "write"} => x.of \in Projects
    /\ x.pc \in {"clear", "read"} => x.task \in HookTasks
    /\ x.pc \in {"page", "project", "removal"} => x.task \in HookTasks /\ x.task.kind = x.pc
    /\ x.pc # "idle" /\ x.task \in HookTasks /\ x.task.kind = "removal" =>
          x.orgs = {} /\ x.pc \in {"removal", "clear", "next", "ack"}

DbOK ==
    /\ changes \in 0 .. MaxChanges
    /\ rev \in [Projects -> 0 .. changes + 1]
    /\ groups \in [Projects -> SUBSET Orgs]
    /\ \A p \in Projects : rev[p] = 0 => groups[p] = {}

IndexOK ==
    /\ stores \in [Orgs -> SUBSET Versions]
    /\ alias \in [Orgs -> SUBSET Versions] /\ \A o \in Orgs : alias[o] \subseteq stores[o]
    /\ docs \in [Orgs -> [Versions -> [Projects -> Entry]]]
    /\ shadow \subseteq Orgs

JobsOK ==
    /\ job \in [Jobs -> JobType] /\ queue \subseteq Tasks
    /\ starter \in [Jobs -> {"gone", "dashboard", "command", "now"}]
WorkersOK == wk \in [Workers -> WorkerType] /\ \A w \in Workers : Sound(wk[w])
HistoryOK ==
    /\ dropped \subseteq Orgs /\ reused \subseteq Orgs /\ stranded \subseteq Jobs
    /\ faults \in Nat /\ solo \in Workers \cup {Nobody}

Types == DbOK /\ IndexOK /\ JobsOK /\ WorkersOK /\ HistoryOK

LEMMA TypesImply == Types => TypeOK
<1> SUFFICES ASSUME Types PROVE TypeOK
    OBVIOUS
<1>1. wk \in [Workers -> WorkerType]
    BY DEF Types, WorkersOK
<1>2. rev \in [Projects -> 0 .. MaxChanges + 1] /\ changes \in Nat
    <2>1. 0 .. changes + 1 \subseteq 0 .. MaxChanges + 1
        BY ConstantsAssumption DEF Types, DbOK
    <2> QED BY <2>1, ConstantsAssumption DEF Types, DbOK
<1> QED BY <1>1, <1>2 DEF Types, DbOK, IndexOK, JobsOK, HistoryOK, TypeOK, WorkerType, JobType,
           Revisions, Stored

LEMMA Kinds ==
    /\ \A t \in Tasks : t \in JobTasks \/ t \in HookTasks
    /\ \A t \in JobTasks : t.kind = "job" /\ t.of \in Jobs /\ t \notin HookTasks
    /\ \A t \in HookTasks : t.kind \in {"page", "project", "removal"} /\ t.of \in Projects
                            /\ t \notin JobTasks
    BY DEF Tasks, JobTasks, HookTasks

LEMMA IdleIsSound == Idle \in WorkerType /\ Sound(Idle)
<1>1. Blank \in Entry
    BY ConstantsAssumption DEF Blank, Entry
<1>2. Idle \in WorkerType
    BY <1>1 DEF Idle, WorkerType, Steps
<1>3. Idle.pc = "idle" /\ Idle.todo = {}
    BY DEF Idle
<1> QED BY <1>2, <1>3 DEF Sound, AtStore, AtOrg

LEMMA InitTypes == Init => Types
<1> SUFFICES ASSUME Init PROVE Types
    OBVIOUS
<1> USE ConstantsAssumption DEF Init
<1>1. DbOK /\ JobsOK /\ HistoryOK
    BY DEF DbOK, JobsOK, HistoryOK, JobType
<1>2. Blank \in Entry /\ [rev |-> 1, groups |-> {Home}] \in Entry /\ NoDocs \in [Projects -> Entry]
    BY DEF Blank, Entry, NoDocs
<1>3. IndexOK
    <2>1. 1 \in Versions
        BY DEF Versions
    <2>2. stores \in [Orgs -> SUBSET Versions]
        BY <2>1
    <2>3. docs \in [Orgs -> [Versions -> [Projects -> Entry]]]
        BY <1>2
    <2> QED BY <2>2, <2>3 DEF IndexOK
<1>4. WorkersOK
    <2>1. wk = [w \in Workers |-> Idle]
        OBVIOUS
    <2> QED BY <2>1, IdleIsSound DEF WorkersOK
<1> QED BY <1>1, <1>3, <1>4 DEF Types

(* The greatest of a set of bounded numbers.                                *)
LEMMA Greatest ==
    ASSUME NEW n \in Nat, NEW S \in SUBSET (0 .. n), S # {}
    PROVE  Max(S) \in S /\ \A j \in S : j <= Max(S)
<1> DEFINE T == {n - i : i \in S}
<1>1. \A i \in S : i \in Nat /\ n - i \in Nat /\ n - i \in T
    OBVIOUS
<1>2. T \subseteq Nat /\ T # {}
    BY <1>1
<1>3. PICK x \in T : \A y \in T : ~(<<y, x>> \in OpToRel(<, Nat))
    <2> HIDE DEF T
    <2> QED BY <1>2, NatLessThanWellFounded, WFMin
<1>4. \A y \in T : ~(y < x)
    BY <1>2, <1>3 DEF OpToRel
<1>5. PICK k \in S : x = n - k
    OBVIOUS
<1> HIDE DEF T
<1>6. \A j \in S : k >= j
    BY <1>1, <1>4, <1>5
<1>7. Max(S) \in S /\ \A j \in S : Max(S) >= j
    BY <1>6 DEF Max
<1> QED BY <1>1, <1>7

LEMMA NewNumber ==
    ASSUME NEW S \in SUBSET Versions
    PROVE  /\ Max(S \cup {0}) \in Nat /\ Max(S \cup {0}) + 1 \notin S
           /\ Max(S \cup {0}) + 1 <= MaxVersions => Max(S \cup {0}) + 1 \in Versions
<1>1. S \cup {0} \subseteq 0 .. MaxVersions /\ MaxVersions \in Nat
    BY ConstantsAssumption DEF Versions
<1>2. Max(S \cup {0}) \in S \cup {0} /\ \A j \in S \cup {0} : j <= Max(S \cup {0})
    BY <1>1, Greatest
<1>3. PICK m : m = Max(S \cup {0})
    OBVIOUS
<1>4. m \in S \cup {0} /\ \A j \in S \cup {0} : j <= m
    BY <1>2, <1>3
<1>5. m \in Nat /\ m + 1 \notin S /\ (m + 1 <= MaxVersions => m + 1 \in Versions)
    BY <1>1, <1>4 DEF Versions
<1> QED BY <1>3, <1>5

-----------------------------------------------------------------------------
(* What the steps of a worker do to its notes *)

Moves(w, x) == Sound(x) /\ wk' = [wk EXCEPT ![w] = x]

LEMMA MovesKeep ==
    ASSUME WorkersOK, NEW w \in Workers, NEW x, Moves(w, x)
    PROVE  /\ WorkersOK' /\ wk'[w] = x /\ \A v \in Workers : v # w => wk'[v] = wk[v]
<1>1. x \in WorkerType
    BY DEF Moves, Sound
<1>2. wk' = [wk EXCEPT ![w] = x] /\ wk \in [Workers -> WorkerType]
    BY DEF WorkersOK, Moves
<1>3. wk' \in [Workers -> WorkerType] /\ wk'[w] = x /\ \A v \in Workers : v # w => wk'[v] = wk[v]
    BY <1>1, <1>2
<1> QED BY <1>3 DEF WorkersOK, Moves

(* The notes a step takes.                                                  *)
Notes(x, pc, task, orgs, org, ver, old, todo, of, doc) ==
    /\ x \in WorkerType
    /\ x.pc = pc /\ x.task = task /\ x.orgs = orgs /\ x.org = org /\ x.ver = ver
    /\ x.old = old /\ x.todo = todo /\ x.of = of /\ x.doc = doc

LEMMA NotePc ==
    ASSUME NEW x \in WorkerType, NEW a \in Steps
    PROVE  Notes([x EXCEPT !.pc = a],
                 a, x.task, x.orgs, x.org, x.ver, x.old, x.todo, x.of, x.doc)
    BY DEF WorkerType, Notes

LEMMA NoteOrgs ==
    ASSUME NEW x \in WorkerType, NEW a \in Steps, NEW os \in SUBSET Orgs
    PROVE  Notes([x EXCEPT !.pc = a, !.orgs = os],
                 a, x.task, os, x.org, x.ver, x.old, x.todo, x.of, x.doc)
    BY DEF WorkerType, Notes

LEMMA NoteOrg ==
    ASSUME NEW x \in WorkerType, NEW a \in Steps, NEW o \in Orgs
    PROVE  Notes([x EXCEPT !.pc = a, !.org = o, !.orgs = @ \ {o},
                           !.ver = 0, !.old = {}, !.todo = {}],
                 a, x.task, x.orgs \ {o}, o, 0, {}, {}, x.of, x.doc)
    BY DEF WorkerType, Notes

LEMMA NoteTask ==
    ASSUME NEW x \in WorkerType, NEW a \in Steps, NEW t \in Tasks,
           NEW p \in Projects \cup {Nobody}
    PROVE  Notes([x EXCEPT !.task = t, !.pc = a, !.of = p],
                 a, t, x.orgs, x.org, x.ver, x.old, x.todo, p, x.doc)
    BY DEF WorkerType, Notes

LEMMA NoteAck ==
    ASSUME NEW x \in WorkerType, NEW a \in Steps, NEW t \in Tasks
    PROVE  Notes([x EXCEPT !.pc = a, !.task = t],
                 a, t, x.orgs, x.org, x.ver, x.old, x.todo, x.of, x.doc)
    BY DEF WorkerType, Notes

LEMMA NoteVer ==
    ASSUME NEW x \in WorkerType, NEW a \in Steps, NEW v \in Versions
    PROVE  Notes([x EXCEPT !.pc = a, !.ver = v],
                 a, x.task, x.orgs, x.org, v, x.old, x.todo, x.of, x.doc)
    BY DEF WorkerType, Notes

LEMMA NotePcTodo ==
    ASSUME NEW x \in WorkerType, NEW a \in Steps,
           NEW d \in SUBSET (Projects \cup (Projects \X Revisions))
    PROVE  Notes([x EXCEPT !.pc = a, !.todo = d],
                 a, x.task, x.orgs, x.org, x.ver, x.old, d, x.of, x.doc)
    BY DEF WorkerType, Notes

LEMMA NotePcOld ==
    ASSUME NEW x \in WorkerType, NEW a \in Steps, NEW s \in SUBSET (Stored \cup Projects)
    PROVE  Notes([x EXCEPT !.pc = a, !.old = s],
                 a, x.task, x.orgs, x.org, x.ver, s, x.todo, x.of, x.doc)
    BY DEF WorkerType, Notes

LEMMA NoteTodo ==
    ASSUME NEW x \in WorkerType, NEW d \in SUBSET (Projects \cup (Projects \X Revisions))
    PROVE  Notes([x EXCEPT !.todo = d],
                 x.pc, x.task, x.orgs, x.org, x.ver, x.old, d, x.of, x.doc)
    BY DEF WorkerType, Notes

LEMMA NoteOld ==
    ASSUME NEW x \in WorkerType, NEW s \in SUBSET (Stored \cup Projects)
    PROVE  Notes([x EXCEPT !.old = s],
                 x.pc, x.task, x.orgs, x.org, x.ver, s, x.todo, x.of, x.doc)
    BY DEF WorkerType, Notes

LEMMA NoteDrift ==
    ASSUME NEW x \in WorkerType, NEW a \in Steps,
           NEW s \in SUBSET (Stored \cup Projects),
           NEW d \in SUBSET (Projects \cup (Projects \X Revisions))
    PROVE  Notes([x EXCEPT !.pc = a, !.old = s, !.todo = d],
                 a, x.task, x.orgs, x.org, x.ver, s, d, x.of, x.doc)
    BY DEF WorkerType, Notes

LEMMA NotePage ==
    ASSUME NEW x \in WorkerType, NEW a \in Steps, NEW p \in Projects, NEW e \in Entry
    PROVE  Notes([x EXCEPT !.todo = @ \ {p}, !.of = p, !.pc = a, !.doc = e],
                 a, x.task, x.orgs, x.org, x.ver, x.old, x.todo \ {p}, p, e)
    BY DEF WorkerType, Notes

LEMMA NoteHook ==
    ASSUME NEW x \in WorkerType, NEW a \in Steps, NEW os \in SUBSET Orgs, NEW e \in Entry
    PROVE  Notes([x EXCEPT !.pc = a, !.orgs = os, !.doc = e],
                 a, x.task, os, x.org, x.ver, x.old, x.todo, x.of, e)
    BY DEF WorkerType, Notes

LEMMA NoteDoc ==
    ASSUME NEW x \in WorkerType, NEW a \in Steps, NEW n \in Revisions
    PROVE  Notes([x EXCEPT !.pc = a, !.doc.rev = n],
                 a, x.task, x.orgs, x.org, x.ver, x.old, x.todo, x.of, [x.doc EXCEPT !.rev = n])
    BY DEF WorkerType, Notes, Entry, Revisions

LEMMA NoteKeep ==
    ASSUME NEW x \in WorkerType, NEW a \in Steps, NEW os \in SUBSET Orgs,
           NEW s \in SUBSET (Stored \cup Projects)
    PROVE  Notes([x EXCEPT !.pc = a, !.orgs = os, !.doc.groups = os, !.old = s],
                 a, x.task, os, x.org, x.ver, s, x.todo, x.of, [x.doc EXCEPT !.groups = os])
    BY DEF WorkerType, Notes, Entry

LEMMA WorkerIsSound ==
    ASSUME Types, NEW w \in Workers PROVE Sound(wk[w]) /\ wk[w] \in WorkerType
    BY DEF Types, WorkersOK

LEMMA BeginMoves ==
    ASSUME NEW w \in Workers, NEW t \in Tasks, Begin(w, t)
    PROVE  \E x : /\ Moves(w, x) /\ x.task = t
                  /\ x.pc \in {"targets", "page", "project", "removal"} /\ x.org = Nobody
<1>1. wk' = [wk EXCEPT ![w] =
                [Idle EXCEPT !.task = t, !.pc = IF t.kind = "job" THEN "targets" ELSE t.kind,
                             !.of = IF t.kind = "job" THEN Nobody ELSE t.of]]
    BY DEF Begin, Go
<1>2. t \in Tasks
    OBVIOUS
<1> DEFINE pc == IF t.kind = "job" THEN "targets" ELSE t.kind
           of == IF t.kind = "job" THEN Nobody ELSE t.of
           z == [Idle EXCEPT !.task = t, !.pc = pc, !.of = of]
<1>3. pc \in {"targets", "page", "project", "removal"}
    BY <1>2, Kinds
<1>4. of \in Projects \cup {Nobody} /\ (t \in HookTasks => of \in Projects /\ pc = t.kind)
      /\ (t \in JobTasks => pc = "targets")
    BY <1>2, Kinds
<1> HIDE DEF pc, of
<1>5. z \in WorkerType /\ z.task = t /\ z.pc = pc /\ z.of = of /\ z.todo = {} /\ z.orgs = {}
      /\ z.org = Nobody
    <2>1. pc \in Steps
        BY <1>3 DEF Steps
    <2>2. Idle.todo = {} /\ Idle.orgs = {} /\ Idle.org = Nobody
        BY DEF Idle
    <2>3. Notes([Idle EXCEPT !.task = t, !.pc = pc, !.of = of],
                pc, t, Idle.orgs, Idle.org, Idle.ver, Idle.old, Idle.todo, of, Idle.doc)
        BY IdleIsSound, <1>2, <1>4, <2>1, NoteTask
    <2> QED BY <2>2, <2>3 DEF Notes
<1> HIDE DEF z
<1>6. Sound(z)
    BY <1>2, <1>3, <1>4, <1>5, Kinds DEF Sound, AtOrg, AtStore
<1>7. Moves(w, z)
    BY <1>1, <1>6 DEF z, pc, of, Moves
<1> QED BY <1>3, <1>5, <1>7

(* The task comes from the queue, or is the job a command runs itself.      *)
LEMMA TakeMoves ==
    ASSUME Types, NEW w \in Workers, Take(w) \/ RunNow(w)
    PROVE  \E x : /\ Moves(w, x) /\ x.task \in Tasks
                  /\ \/ x.task \in queue
                     \/ \E j \in Jobs : x.task = JobTask(j) /\ starter[j] = "command"
                  /\ x.pc \in {"targets", "page", "project", "removal"} /\ x.org = Nobody
<1>1. CASE Take(w)
    <2>1. PICK t \in queue : Begin(w, t)
        BY <1>1 DEF Take
    <2>2. t \in Tasks
        BY DEF Types, JobsOK
    <2> QED BY <2>1, <2>2, BeginMoves
<1>2. CASE RunNow(w)
    <2>1. PICK j \in Jobs : starter[j] = "command" /\ Begin(w, JobTask(j))
        BY <1>2 DEF RunNow
    <2>2. JobTask(j) \in Tasks
        BY DEF JobTask, Tasks, JobTasks
    <2> QED BY <2>1, <2>2, BeginMoves
<1> QED BY <1>1, <1>2

LEMMA TargetsMoves ==
    ASSUME Types, NEW w \in Workers, Targets(w)
    PROVE  \E x : Moves(w, x) /\ x.pc = "next" /\ x.task = wk[w].task /\ x.org = Nobody
<1> DEFINE y == wk[w]
           s == job[y.task.of].scope
           os == IF s = All THEN UNION {groups[p] : p \in Projects} ELSE {s}
           z == [y EXCEPT !.pc = "next", !.orgs = os]
<1>0. Sound(y) /\ y \in WorkerType
    BY WorkerIsSound
<1>1. y.pc = "targets" /\ wk' = [wk EXCEPT ![w] = z]
    BY DEF Targets, Go
<1>2. y.task \in JobTasks /\ y.task.of \in Jobs /\ y.org = Nobody
    BY <1>0, <1>1, Kinds DEF Sound
<1>3. os \in SUBSET Orgs
    <2>1. s \in Orgs \cup {All}
        BY <1>2 DEF Types, JobsOK, JobType
    <2> QED BY <2>1 DEF Types, DbOK
<1> HIDE DEF s, os
<1>4. Notes(z, "next", y.task, os, y.org, y.ver, y.old, y.todo, y.of, y.doc)
    <2> HIDE DEF y
    <2>1. "next" \in Steps
        BY DEF Steps
    <2> QED BY <1>0, <1>3, <2>1, NoteOrgs
<1> HIDE DEF z
<1>5. Sound(z)
    BY <1>0, <1>1, <1>2, <1>4, Kinds DEF Notes, Sound, AtOrg, AtStore
<1> QED BY <1>1, <1>2, <1>4, <1>5 DEF Moves, Notes

LEMMA NextOrgMoves ==
    ASSUME Types, NEW w \in Workers, NextOrg(w)
    PROVE  \E x : /\ Moves(w, x) /\ x.pc = First(w) /\ x.task = wk[w].task
                  /\ x.org \in wk[w].orgs
<1> DEFINE y == wk[w]
<1>0. Sound(y) /\ y \in WorkerType
    BY WorkerIsSound
<1>1. PICK o \in y.orgs :
         wk' = [wk EXCEPT ![w] = [y EXCEPT !.pc = First(w), !.org = o, !.orgs = @ \ {o},
                                           !.ver = 0, !.old = {}, !.todo = {}]]
    BY DEF NextOrg
<1>2. o \in Orgs /\ y.pc = "next"
    BY <1>0 DEF NextOrg, WorkerType
<1>3. First(w) \in {"version", "list", "ensure"}
    BY DEF First
<1> DEFINE z == [y EXCEPT !.pc = First(w), !.org = o, !.orgs = @ \ {o},
                          !.ver = 0, !.old = {}, !.todo = {}]
<1>4. Notes(z, First(w), y.task, y.orgs \ {o}, o, 0, {}, {}, y.of, y.doc)
    <2> HIDE DEF y
    <2>1. PICK s \in Steps : s = First(w)
        BY <1>3 DEF Steps
    <2>2. Notes([y EXCEPT !.pc = s, !.org = o, !.orgs = @ \ {o},
                          !.ver = 0, !.old = {}, !.todo = {}],
                s, y.task, y.orgs \ {o}, o, 0, {}, {}, y.of, y.doc)
        BY <1>0, <1>2, NoteOrg
    <2> QED BY <2>1, <2>2
<1>5. wk' = [wk EXCEPT ![w] = z]
    BY <1>1
<1> HIDE DEF z
<1>6. ~(y.task \in HookTasks /\ y.task.kind = "removal")
    BY <1>0, <1>1, <1>2 DEF Sound
<1>7. Sound(z)
    BY <1>0, <1>2, <1>3, <1>4, <1>6 DEF Notes, Sound, AtOrg, AtStore
<1> QED BY <1>1, <1>4, <1>5, <1>7 DEF Moves, Notes

LEMMA AckMoves == ASSUME NEW w \in Workers, Ack(w) PROVE Moves(w, Idle)
    BY IdleIsSound DEF Ack, Go, Moves

LEMMA OverMoves ==
    ASSUME Types, NEW w \in Workers, wk[w].pc # "idle", Over(w)
    PROVE  \E x : Moves(w, x) /\ x.pc = "ack" /\ x.task = wk[w].task
<1> DEFINE y == wk[w]
           z == [Idle EXCEPT !.pc = "ack", !.task = y.task]
<1>0. Sound(y) /\ y \in WorkerType /\ y.task \in Tasks
    BY WorkerIsSound DEF Sound
<1>1. wk' = [wk EXCEPT ![w] = z]
    BY DEF Over, Go
<1>2. Idle.todo = {} /\ Idle.orgs = {}
    BY DEF Idle
<1>3. Notes(z, "ack", y.task, Idle.orgs, Idle.org, Idle.ver, Idle.old, Idle.todo, Idle.of, Idle.doc)
    <2> HIDE DEF y
    <2>1. "ack" \in Steps
        BY DEF Steps
    <2> QED BY IdleIsSound, <1>0, <2>1, NoteAck
<1> HIDE DEF z
<1>4. Sound(z)
    BY <1>0, <1>2, <1>3 DEF Notes, Sound, AtOrg, AtStore
<1> QED BY <1>1, <1>3, <1>4 DEF Moves, Notes

(* A worker goes on with its task at step l.                                *)
Goes(w, l, orgs, org, ver, old, todo, of, doc) ==
    \E x : Moves(w, x) /\ Notes(x, l, wk[w].task, orgs, org, ver, old, todo, of, doc)
GoesTo(w, l) ==
    Goes(w, l, wk[w].orgs, wk[w].org, wk[w].ver, wk[w].old, wk[w].todo, wk[w].of, wk[w].doc)

LEMMA PcMoves ==
    ASSUME Types, NEW w \in Workers, NEW a \in (AtOrg \ {"scan"}) \cup {"next"}, GoTo(w, a),
           wk[w].pc \in AtOrg \cup {"clear"},
           a = "next" \/ wk[w].pc \in AtOrg \ {"scan"},
           a \in AtStore => wk[w].pc \in AtStore,
           a \in {"read", "write"} => wk[w].task \in HookTasks
    PROVE  GoesTo(w, a)
<1> DEFINE y == wk[w]
           z == [y EXCEPT !.pc = a]
<1>0. Sound(y) /\ y \in WorkerType
    BY WorkerIsSound
<1>1. wk' = [wk EXCEPT ![w] = z]
    BY DEF Go, GoTo
<1>2. a \in Steps
    BY DEF AtOrg, AtStore, Steps
<1>3. Notes(z, a, y.task, y.orgs, y.org, y.ver, y.old, y.todo, y.of, y.doc)
    <2> HIDE DEF y
    <2> QED BY <1>0, <1>2, NotePc
<1> HIDE DEF z
<1>4. Sound(z)
    <2> HIDE DEF y
    <2>1. /\ y.pc \in AtOrg \cup {"clear"}
          /\ a = "next" \/ y.pc \in AtOrg \ {"scan"}
          /\ a \in AtStore => y.pc \in AtStore
          /\ a \in {"read", "write"} => y.task \in HookTasks
        BY DEF y
    <2> QED BY <1>0, <1>3, <2>1 DEF Notes, Sound, AtOrg, AtStore
<1> QED BY <1>1, <1>3, <1>4 DEF GoesTo, Goes, Moves

(* create_store_index, swap_alias and the deletion of stores                *)

LEMMA VersionMoves ==
    ASSUME Types, NEW w \in Workers, NextVersion(w)
    PROVE  \E v \in Versions :
              /\ v \notin stores[wk[w].org]
              /\ Goes(w, "create", wk[w].orgs, wk[w].org, v, wk[w].old, wk[w].todo, wk[w].of,
                      wk[w].doc)
<1> DEFINE y == wk[w]
<1>0. Sound(y) /\ y \in WorkerType /\ y.pc = "version" /\ y.org \in Orgs
    BY WorkerIsSound DEF NextVersion, Sound, AtOrg
<1>1. PICK v \in Versions :
         v \notin stores[y.org] /\ wk' = [wk EXCEPT ![w] = [y EXCEPT !.pc = "create", !.ver = v]]
    <2>1. stores[y.org] \in SUBSET Versions
        BY <1>0 DEF Types, IndexOK
    <2>2. PICK v : v = Max(stores[y.org] \cup {0}) + 1
        OBVIOUS
    <2>3. v <= MaxVersions /\ wk' = [wk EXCEPT ![w] = [y EXCEPT !.pc = "create", !.ver = v]]
        BY <2>2 DEF NextVersion, Go
    <2> QED BY <2>1, <2>2, <2>3, NewNumber
<1> DEFINE z == [y EXCEPT !.pc = "create", !.ver = v]
<1>2. "create" \in Steps
    BY DEF Steps
<1>3. Notes(z, "create", y.task, y.orgs, y.org, v, y.old, y.todo, y.of, y.doc)
    <2> HIDE DEF y
    <2> QED BY <1>0, <1>2, NoteVer
<1> HIDE DEF z
<1>4. Sound(z)
    <2> HIDE DEF y
    <2> QED BY <1>0, <1>3 DEF Notes, Sound, AtOrg, AtStore
<1> QED BY <1>1, <1>3, <1>4 DEF Goes, Moves, z

LEMMA CreateMoves ==
    ASSUME Types, NEW w \in Workers, CreateStore(w)
    PROVE  IF Runs(w, "REBUILD")
           THEN Goes(w, "build", wk[w].orgs, wk[w].org, wk[w].ver, wk[w].old, Members(wk[w].org),
                     wk[w].of, wk[w].doc)
           ELSE GoesTo(w, "swapread")
<1> DEFINE y == wk[w]
<1>0. Sound(y) /\ y \in WorkerType /\ y.pc = "create"
    BY WorkerIsSound DEF CreateStore
<1>1. CASE Runs(w, "REBUILD")
    <2> DEFINE m == Members(y.org)
               z == [y EXCEPT !.pc = "build", !.todo = m]
    <2>1. wk' = [wk EXCEPT ![w] = z]
        BY <1>1 DEF CreateStore, Go
    <2>2. "build" \in Steps /\ m \subseteq Projects
        BY DEF Steps, Members
    <2>3. Notes(z, "build", y.task, y.orgs, y.org, y.ver, y.old, m, y.of, y.doc)
        <3> HIDE DEF y, m
        <3> QED BY <1>0, <2>2, NotePcTodo
    <2> HIDE DEF z
    <2>4. Sound(z)
        <3> HIDE DEF y, m
        <3> QED BY <1>0, <2>2, <2>3 DEF Notes, Sound, AtOrg, AtStore
    <2> QED BY <1>1, <2>1, <2>3, <2>4 DEF Goes, Moves
<1>2. CASE ~Runs(w, "REBUILD")
    <2>1. GoTo(w, "swapread")
        BY <1>2 DEF CreateStore, GoTo
    <2> QED BY <1>0, <1>2, <2>1, PcMoves DEF AtOrg, AtStore
<1> QED BY <1>1, <1>2

LEMMA SwapReadMoves ==
    ASSUME Types, NEW w \in Workers, SwapRead(w)
    PROVE  Goes(w, "swap", wk[w].orgs, wk[w].org, wk[w].ver,
                {<<wk[w].org, v>> : v \in alias[wk[w].org] \ {wk[w].ver}}, wk[w].todo, wk[w].of,
                wk[w].doc)
<1> DEFINE y == wk[w]
           s == {<<y.org, v>> : v \in alias[y.org] \ {y.ver}}
           z == [y EXCEPT !.pc = "swap", !.old = s]
<1>0. Sound(y) /\ y \in WorkerType /\ y.pc = "swapread" /\ y.org \in Orgs
    BY WorkerIsSound DEF SwapRead, Sound, AtOrg, AtStore
<1>1. wk' = [wk EXCEPT ![w] = z]
    BY DEF SwapRead, Go
<1>2. "swap" \in Steps /\ s \subseteq Stored
    BY <1>0 DEF Steps, Stored, Types, IndexOK
<1>3. Notes(z, "swap", y.task, y.orgs, y.org, y.ver, s, y.todo, y.of, y.doc)
    <2> HIDE DEF y, s
    <2> QED BY <1>0, <1>2, NotePcOld
<1> HIDE DEF z
<1>4. Sound(z)
    <2> HIDE DEF y, s
    <2> QED BY <1>0, <1>3 DEF Notes, Sound, AtOrg, AtStore
<1> QED BY <1>1, <1>3, <1>4 DEF Goes, Moves

LEMMA ListMoves ==
    ASSUME Types, NEW w \in Workers, ListStores(w)
    PROVE  Goes(w, "delete", wk[w].orgs, wk[w].org, wk[w].ver,
                {<<wk[w].org, v>> : v \in stores[wk[w].org]}, wk[w].todo, wk[w].of, wk[w].doc)
<1> DEFINE y == wk[w]
           s == {<<y.org, v>> : v \in stores[y.org]}
           z == [y EXCEPT !.pc = "delete", !.old = s]
<1>0. Sound(y) /\ y \in WorkerType /\ y.pc = "list" /\ y.org \in Orgs
    BY WorkerIsSound DEF ListStores, Sound, AtOrg, AtStore
<1>1. wk' = [wk EXCEPT ![w] = z]
    BY DEF ListStores, Go
<1>2. "delete" \in Steps /\ s \subseteq Stored
    BY <1>0 DEF Steps, Stored, Types, IndexOK
<1>3. Notes(z, "delete", y.task, y.orgs, y.org, y.ver, s, y.todo, y.of, y.doc)
    <2> HIDE DEF y, s
    <2> QED BY <1>0, <1>2, NotePcOld
<1> HIDE DEF z
<1>4. Sound(z)
    <2> HIDE DEF y, s
    <2> QED BY <1>0, <1>3 DEF Notes, Sound, AtOrg, AtStore
<1> QED BY <1>1, <1>3, <1>4 DEF Goes, Moves

LEMMA DeleteMoves ==
    ASSUME Types, NEW w \in Workers, DeleteStore(w) \/ ClearStore(w)
    PROVE  \/ wk[w].old = {} /\ GoesTo(w, "next")
           \/ \E s \in wk[w].old : Goes(w, wk[w].pc, wk[w].orgs, wk[w].org, wk[w].ver,
                                        wk[w].old \ {s}, wk[w].todo, wk[w].of, wk[w].doc)
<1> DEFINE y == wk[w]
<1>0. Sound(y) /\ y \in WorkerType /\ y.pc \in {"delete", "clear"}
    BY WorkerIsSound DEF DeleteStore, ClearStore
<1>1. CASE y.old = {}
    <2>1. GoTo(w, "next")
        BY <1>1 DEF DeleteStore, ClearStore
    <2> QED BY <1>0, <1>1, <2>1, PcMoves DEF AtOrg, AtStore
<1>2. CASE y.old # {}
    <2>1. PICK s \in y.old : wk' = [wk EXCEPT ![w] = [y EXCEPT !.old = @ \ {s}]]
        BY <1>2 DEF DeleteStore, ClearStore, Go
    <2> DEFINE o == y.old \ {s}
               z == [y EXCEPT !.old = o]
    <2>2. wk' = [wk EXCEPT ![w] = z]
        BY <2>1
    <2>3. o \in SUBSET (Stored \cup Projects)
        BY <1>0 DEF WorkerType
    <2>4. Notes(z, y.pc, y.task, y.orgs, y.org, y.ver, o, y.todo, y.of, y.doc)
        <3> HIDE DEF y, o
        <3> QED BY <1>0, <2>3, NoteOld
    <2> HIDE DEF z
    <2>5. Sound(z)
        <3> HIDE DEF y, o
        <3> QED BY <1>0, <2>4 DEF Notes, Sound, AtOrg, AtStore
    <2> QED BY <2>2, <2>4, <2>5 DEF Goes, Moves
<1> QED BY <1>1, <1>2

-----------------------------------------------------------------------------
(* rebuild_org and sync_org *)

LEMMA BuildMoves ==
    ASSUME Types, NEW w \in Workers, wk[w].pc = "build", NEW p \in wk[w].todo,
           wk' = [wk EXCEPT ![w] = [wk[w] EXCEPT !.todo = @ \ {p}]]
    PROVE  Goes(w, "build", wk[w].orgs, wk[w].org, wk[w].ver, wk[w].old, wk[w].todo \ {p},
                wk[w].of, wk[w].doc)
<1> DEFINE y == wk[w]
           d == y.todo \ {p}
           z == [y EXCEPT !.todo = d]
<1>0. Sound(y) /\ y \in WorkerType /\ y.pc = "build"
    BY WorkerIsSound
<1>1. wk' = [wk EXCEPT ![w] = z]
    OBVIOUS
<1>2. d \in SUBSET (Projects \cup (Projects \X Revisions)) /\ d \subseteq y.todo
    BY <1>0 DEF WorkerType
<1>3. Notes(z, y.pc, y.task, y.orgs, y.org, y.ver, y.old, d, y.of, y.doc)
    <2> HIDE DEF y, d
    <2> QED BY <1>0, <1>2, NoteTodo
<1> HIDE DEF z
<1>4. Sound(z)
    <2> HIDE DEF y, d
    <2> QED BY <1>0, <1>2, <1>3 DEF Notes, Sound, AtOrg, AtStore
<1> QED BY <1>0, <1>1, <1>3, <1>4 DEF Goes, Moves

LEMMA ExpectMoves ==
    ASSUME Types, NEW w \in Workers, Expect(w)
    PROVE  Goes(w, "scan", wk[w].orgs, wk[w].org, wk[w].ver, wk[w].old,
                {<<p, rev[p]>> : p \in Members(wk[w].org)}, wk[w].of, wk[w].doc)
<1> DEFINE y == wk[w]
           d == {<<p, rev[p]>> : p \in Members(y.org)}
           z == [y EXCEPT !.pc = "scan", !.todo = d]
<1>0. Sound(y) /\ y \in WorkerType /\ y.pc = "expect"
    BY WorkerIsSound DEF Expect
<1>1. wk' = [wk EXCEPT ![w] = z]
    BY DEF Expect, Go
<1>2. "scan" \in Steps /\ d \subseteq Projects \X Revisions
    <2>1. \A p \in Projects : rev[p] \in Revisions
        BY ConstantsAssumption DEF Types, DbOK, Revisions
    <2> QED BY <2>1 DEF Steps, Members
<1>3. Notes(z, "scan", y.task, y.orgs, y.org, y.ver, y.old, d, y.of, y.doc)
    <2> HIDE DEF y, d
    <2> QED BY <1>0, <1>2, NotePcTodo
<1> HIDE DEF z
<1>4. Sound(z)
    <2> HIDE DEF y, d
    <2> QED BY <1>0, <1>2, <1>3 DEF Notes, Sound, AtOrg, AtStore
<1> QED BY <1>1, <1>3, <1>4 DEF Goes, Moves

LEMMA ScanMoves ==
    ASSUME Types, NEW w \in Workers, Scan(w)
    PROVE  IF alias[wk[w].org] = {} /\ wk[w].org \notin shadow
           THEN GoesTo(w, "next")
           ELSE Goes(w, "update", wk[w].orgs, wk[w].org, wk[w].ver, Orphaned(w),
                     {e[1] : e \in Missing(w) \cup Stale(w)}, wk[w].of, wk[w].doc)
<1> DEFINE y == wk[w]
<1>0. Sound(y) /\ y \in WorkerType /\ y.pc = "scan"
    BY WorkerIsSound DEF Scan
<1>1. CASE alias[y.org] = {} /\ y.org \notin shadow
    <2>1. GoTo(w, "next")
        BY <1>1 DEF Scan
    <2> QED BY <1>0, <1>1, <2>1, PcMoves DEF AtOrg, AtStore
<1>2. CASE ~(alias[y.org] = {} /\ y.org \notin shadow)
    <2> DEFINE s == Orphaned(w)
               d == {e[1] : e \in Missing(w) \cup Stale(w)}
               z == [y EXCEPT !.pc = "update", !.old = s, !.todo = d]
    <2>1. wk' = [wk EXCEPT ![w] = z]
        BY <1>2 DEF Scan, Go
    <2>2. "update" \in Steps /\ s \subseteq Projects /\ d \subseteq Projects
        <3>1. y.todo \subseteq Projects \X Revisions
            BY <1>0 DEF Sound
        <3>2. Missing(w) \subseteq y.todo /\ Stale(w) \subseteq y.todo
            BY DEF Missing, Stale
        <3>3. \A e \in Missing(w) \cup Stale(w) : e[1] \in Projects
            BY <3>1, <3>2
        <3>4. s \subseteq Projects
            BY DEF Orphaned
        <3> QED BY <3>3, <3>4 DEF Steps
    <2>3. Notes(z, "update", y.task, y.orgs, y.org, y.ver, s, d, y.of, y.doc)
        <3> HIDE DEF y, s, d
        <3> QED BY <1>0, <2>2, NoteDrift
    <2> HIDE DEF z
    <2>4. Sound(z)
        <3> HIDE DEF y, s, d
        <3> QED BY <1>0, <2>2, <2>3 DEF Notes, Sound, AtOrg, AtStore
    <2> QED BY <1>2, <2>1, <2>3, <2>4 DEF Goes, Moves
<1> QED BY <1>1, <1>2

LEMMA UpdateMoves ==
    ASSUME Types, NEW w \in Workers, Update(w)
    PROVE  \/ wk[w].todo = {} /\ GoesTo(w, "orphans")
           \/ \E p \in wk[w].todo :
                 /\ p \in Projects
                 /\ Goes(w, IF groups[p] = {} \/ rev[p] = 0 THEN "update" ELSE "write",
                         wk[w].orgs, wk[w].org, wk[w].ver, wk[w].old, wk[w].todo \ {p}, p,
                         [rev |-> rev[p], groups |-> groups[p]])
<1> DEFINE y == wk[w]
<1>0. Sound(y) /\ y \in WorkerType /\ y.pc = "update"
    BY WorkerIsSound DEF Update
<1>1. CASE y.todo = {}
    <2>1. GoTo(w, "orphans")
        BY <1>1 DEF Update
    <2> QED BY <1>0, <1>1, <2>1, PcMoves DEF AtOrg, AtStore
<1>2. CASE y.todo # {}
    <2>1. PICK p \in y.todo :
             wk' = [wk EXCEPT ![w] =
                      [y EXCEPT !.todo = @ \ {p}, !.of = p,
                                !.pc = IF groups[p] = {} \/ rev[p] = 0 THEN "update" ELSE "write",
                                !.doc = [rev |-> rev[p], groups |-> groups[p]]]]
        BY <1>2 DEF Update, Go
    <2> DEFINE a == IF groups[p] = {} \/ rev[p] = 0 THEN "update" ELSE "write"
               e == [rev |-> rev[p], groups |-> groups[p]]
               z == [y EXCEPT !.todo = @ \ {p}, !.of = p, !.pc = a, !.doc = e]
    <2>2. wk' = [wk EXCEPT ![w] = z]
        BY <2>1
    <2>3. a \in {"update", "write"} /\ a \in Steps
        BY DEF Steps
    <2>4. p \in Projects
        BY <1>0 DEF Sound
    <2>5. e \in Entry
        BY <2>4, ConstantsAssumption DEF Types, DbOK, Entry
    <2>6. Notes(z, a, y.task, y.orgs, y.org, y.ver, y.old, y.todo \ {p}, p, e)
        <3> HIDE DEF y, a, e
        <3> QED BY <1>0, <2>3, <2>4, <2>5, NotePage
    <2> HIDE DEF z
    <2>7. Sound(z)
        <3> HIDE DEF y, a, e
        <3> QED BY <1>0, <2>3, <2>4, <2>6 DEF Notes, Sound, AtOrg, AtStore
    <2> QED BY <2>2, <2>4, <2>6, <2>7 DEF Goes, Moves
<1> QED BY <1>1, <1>2

-----------------------------------------------------------------------------
(* The hook tasks *)

LEMMA HookMoves ==
    ASSUME Types, NEW w \in Workers, PageStart(w) \/ ProjectStart(w) \/ ReadPage(w)
    PROVE  /\ wk[w].task \in HookTasks
           /\ \E x : Moves(w, x) /\ x.task = wk[w].task
<1> DEFINE y == wk[w]
<1>0. Sound(y) /\ y \in WorkerType
    BY WorkerIsSound
<1>1. \A p \in Projects : rev[p] \in Revisions /\ groups[p] \in SUBSET Orgs
    BY ConstantsAssumption DEF Types, DbOK, Revisions
<1>2. CASE PageStart(w)
    <2> DEFINE os == groups[y.of]
               e == [rev |-> rev[y.of], groups |-> groups[y.of]]
               z == [y EXCEPT !.pc = "next", !.orgs = os, !.doc = e]
    <2>1. wk' = [wk EXCEPT ![w] = z] /\ y.pc = "page"
        BY <1>2 DEF PageStart, Go
    <2>2. y.of \in Projects /\ y.task.kind = "page" /\ y.task \in HookTasks
        BY <1>0, <2>1 DEF Sound
    <2>3. os \in SUBSET Orgs /\ e \in Entry /\ "next" \in Steps
        BY <1>1, <2>2 DEF Entry, Revisions, Steps
    <2>4. Notes(z, "next", y.task, os, y.org, y.ver, y.old, y.todo, y.of, e)
        <3> HIDE DEF y, os, e
        <3> QED BY <1>0, <2>3, NoteHook
    <2> HIDE DEF z
    <2>5. Sound(z)
        <3> HIDE DEF y, os, e
        <3> QED BY <1>0, <2>1, <2>2, <2>4 DEF Notes, Sound, AtOrg, AtStore
    <2> QED BY <2>1, <2>2, <2>4, <2>5 DEF Moves, Notes
<1>3. CASE ProjectStart(w)
    <2> DEFINE keep == IF y.pc = "project" THEN groups[y.of] ELSE {}
               s == UNION {{<<o, v>> : v \in alias[o]} : o \in Orgs \ keep}
               z == [y EXCEPT !.pc = "clear", !.orgs = keep, !.doc.groups = keep, !.old = s]
    <2>1. wk' = [wk EXCEPT ![w] = z] /\ y.pc \in {"project", "removal"}
        BY <1>3 DEF ProjectStart, Go
    <2>2. y.of \in Projects /\ y.task.kind = y.pc /\ y.task \in HookTasks
        BY <1>0, <2>1 DEF Sound
    <2>3. keep \in SUBSET Orgs /\ "clear" \in Steps /\ (y.pc = "removal" => keep = {})
        BY <1>1, <2>2 DEF Steps
    <2>4. s \in SUBSET (Stored \cup Projects)
        BY DEF Types, IndexOK, Stored
    <2>5. Notes(z, "clear", y.task, keep, y.org, y.ver, s, y.todo, y.of,
                [y.doc EXCEPT !.groups = keep])
        <3> HIDE DEF y, keep, s
        <3> QED BY <1>0, <2>3, <2>4, NoteKeep
    <2> HIDE DEF z
    <2>6. Sound(z)
        <3> HIDE DEF y, keep, s
        <3> QED BY <1>0, <2>1, <2>2, <2>3, <2>5 DEF Notes, Sound, AtOrg, AtStore
    <2> QED BY <2>1, <2>2, <2>5, <2>6 DEF Moves, Notes
<1>4. CASE ReadPage(w)
    <2> DEFINE n == rev[y.of]
               a == IF rev[y.of] = 0 THEN "next" ELSE "write"
               z == [y EXCEPT !.pc = a, !.doc.rev = n]
    <2>1. wk' = [wk EXCEPT ![w] = z] /\ y.pc = "read"
        BY <1>4 DEF ReadPage, Go
    <2>2. y.of \in Projects /\ y.task \in HookTasks
        BY <1>0, <2>1 DEF Sound
    <2>3. n \in Revisions /\ a \in {"next", "write"} /\ a \in Steps
        BY <1>1, <2>2 DEF Steps
    <2>4. Notes(z, a, y.task, y.orgs, y.org, y.ver, y.old, y.todo, y.of, [y.doc EXCEPT !.rev = n])
        <3> HIDE DEF y, n, a
        <3> QED BY <1>0, <2>3, NoteDoc
    <2> HIDE DEF z
    <2>5. Sound(z)
        <3> HIDE DEF y, n, a
        <3> QED BY <1>0, <2>1, <2>2, <2>3, <2>4 DEF Notes, Sound, AtOrg, AtStore
    <2> QED BY <2>1, <2>2, <2>4, <2>5 DEF Moves, Notes
<1> QED BY <1>2, <1>3, <1>4

(* The steps that only go to another step.                                  *)
LEMMA EnsuredSteps ==
    ASSUME NEW w \in Workers, Sound(wk[w]), wk[w].pc \in AtOrg
    PROVE  /\ Ensured(w) \in {"expect", "read", "write"}
           /\ Ensured(w) = "expect" <=> IsJob(w)
           /\ Ensured(w) \in {"read", "write"} => wk[w].task \in HookTasks
<1>1. wk[w].task \in Tasks
    BY DEF Sound, AtOrg, AtStore
<1>2. CASE wk[w].task \in JobTasks
    <2>1. IsJob(w)
        BY <1>2 DEF IsJob
    <2>2. Ensured(w) = "expect"
        BY <1>2, <2>1, Kinds DEF Ensured
    <2> QED BY <2>1, <2>2
<1>3. CASE wk[w].task \in HookTasks
    <2>1. ~IsJob(w) /\ wk[w].task.kind \in {"page", "project"}
        BY <1>3, Kinds DEF IsJob, Sound, AtOrg, AtStore
    <2>2. Ensured(w) \in {"read", "write"}
        BY <2>1 DEF Ensured
    <2> QED BY <1>3, <2>1, <2>2
<1> QED BY <1>1, <1>2, <1>3, Kinds

LEMMA EnsureMoves ==
    ASSUME Types, NEW w \in Workers, Ensure(w)
    PROVE  GoesTo(w, IF alias[wk[w].org] = {} THEN "version" ELSE Ensured(w))
<1>1. Sound(wk[w]) /\ wk[w].pc = "ensure" /\ wk[w].pc \in AtOrg \ {"scan"}
    BY WorkerIsSound DEF Ensure, AtOrg
<1>2. PICK a : a = IF alias[wk[w].org] = {} THEN "version" ELSE Ensured(w)
    OBVIOUS
<1>3. a \in {"version", "expect", "read", "write"}
      /\ (a \in {"read", "write"} => wk[w].task \in HookTasks)
    BY <1>1, <1>2, EnsuredSteps
<1>4. GoTo(w, a)
    BY <1>2 DEF Ensure
<1>5. a \in (AtOrg \ {"scan"}) \cup {"next"} /\ a \notin AtStore
    BY <1>3 DEF AtOrg, AtStore
<1>6. GoesTo(w, a)
    BY <1>1, <1>3, <1>4, <1>5, PcMoves
<1> QED BY <1>2, <1>6

LEMMA SwapMoves ==
    ASSUME Types, NEW w \in Workers, SwapAlias(w)
    PROVE  GoesTo(w, IF Runs(w, "REBUILD") THEN "delete" ELSE Ensured(w))
<1>1. Sound(wk[w]) /\ wk[w].pc = "swap" /\ wk[w].pc \in AtOrg \ {"scan"}
    BY WorkerIsSound DEF SwapAlias, AtOrg, AtStore
<1>2. PICK a : a = IF Runs(w, "REBUILD") THEN "delete" ELSE Ensured(w)
    OBVIOUS
<1>3. a \in {"delete", "expect", "read", "write"}
      /\ (a \in {"read", "write"} => wk[w].task \in HookTasks)
    BY <1>1, <1>2, EnsuredSteps
<1>4. GoTo(w, a)
    BY <1>2 DEF SwapAlias
<1>5. a \in (AtOrg \ {"scan"}) \cup {"next"} /\ a \notin AtStore
    BY <1>3 DEF AtOrg, AtStore
<1>6. GoesTo(w, a)
    BY <1>1, <1>3, <1>4, <1>5, PcMoves
<1> QED BY <1>2, <1>6

LEMMA RebuildMoves ==
    ASSUME Types, NEW w \in Workers
    PROVE  /\ BuildEnds(w) => GoesTo(w, "built")
           /\ BuildStays(w) => GoesTo(w, "swapread")
           /\ BuildGoes(w) => GoesTo(w, "next")
           /\ DeleteOrphans(w) => GoesTo(w, "next")
<1>1. CASE BuildEnds(w)
    <2>1. GoesTo(w, "built")
        BY <1>1, PcMoves DEF BuildEnds, AtOrg, AtStore
    <2> QED BY <1>1, <2>1 DEF BuildEnds, BuildStays, BuildGoes, DeleteOrphans
<1>2. CASE BuildStays(w)
    <2>1. GoesTo(w, "swapread")
        BY <1>2, PcMoves DEF BuildStays, AtOrg, AtStore
    <2> QED BY <1>2, <2>1 DEF BuildEnds, BuildStays, BuildGoes, DeleteOrphans
<1>3. CASE BuildGoes(w) \/ DeleteOrphans(w)
    <2>1. GoesTo(w, "next")
        BY <1>3, PcMoves DEF BuildGoes, DeleteOrphans, AtOrg, AtStore
    <2> QED BY <1>3, <2>1 DEF BuildEnds, BuildStays, BuildGoes, DeleteOrphans
<1> QED BY <1>1, <1>2, <1>3

LEMMA WriteMoves ==
    ASSUME Types, NEW w \in Workers, WritePage(w)
    PROVE  \/ EndFailed(w)
           \/ GoesTo(w, IF IsJob(w) THEN "update" ELSE "next")
<1>1. CASE ~EndFailed(w)
    <2>1. PICK a \in {"update", "next"} : a = IF IsJob(w) THEN "update" ELSE "next"
        OBVIOUS
    <2>2. GoTo(w, a) /\ wk[w].pc = "write"
        BY <1>1, <2>1 DEF WritePage
    <2>3. GoesTo(w, a)
        BY <2>2, PcMoves DEF AtOrg, AtStore
    <2> QED BY <2>1, <2>3
<1> QED BY <1>1

LEMMA FaultMoves ==
    ASSUME Types, NEW w \in Workers,
           BulkWriteFails(w) \/ LookupFails(w) \/ Crash(w) \/ Killed(w)
    PROVE  \E x : Moves(w, x) /\ (x = Idle \/ x.task = wk[w].task) /\ wk[w].pc # "idle"
<1> DEFINE y == wk[w]
<1>0. Sound(y) /\ y \in WorkerType
    BY WorkerIsSound
<1>1. CASE BulkWriteFails(w)
    <2>1. CASE y.pc = "build"
        <3>1. PICK p \in y.todo : wk' = [wk EXCEPT ![w] = [wk[w] EXCEPT !.todo = @ \ {p}]]
            BY <1>1, <2>1 DEF BulkWriteFails
        <3>2. \E x : Moves(w, x) /\ x.task = y.task
            BY <2>1, <3>1, BuildMoves DEF Goes, Notes
        <3> QED BY <2>1, <3>2
    <2>2. CASE y.pc # "build"
        <3>1. PICK a \in {"update", "next"} : wk' = [wk EXCEPT ![w] = [y EXCEPT !.pc = a]]
            BY <1>1, <2>2 DEF BulkWriteFails
        <3>2. y.pc = "write"
            BY <1>1, <2>2 DEF BulkWriteFails
        <3> DEFINE z == [y EXCEPT !.pc = a]
        <3>3. Notes(z, a, y.task, y.orgs, y.org, y.ver, y.old, y.todo, y.of, y.doc)
            <4> HIDE DEF y
            <4>1. a \in Steps
                BY DEF Steps
            <4> QED BY <1>0, <4>1, NotePc
        <3> HIDE DEF z
        <3>4. Sound(z)
            <4> HIDE DEF y
            <4> QED BY <1>0, <3>2, <3>3 DEF Notes, Sound, AtOrg, AtStore
        <3>5. Moves(w, z)
            BY <3>1, <3>4 DEF Moves, z
        <3> QED BY <3>2, <3>3, <3>5 DEF Notes
    <2> QED BY <2>1, <2>2
<1>2. CASE LookupFails(w)
    <2> DEFINE A == [y EXCEPT !.pc = "version"]
               B == [y EXCEPT !.pc = "create", !.ver = 1]
               C == [y EXCEPT !.pc = "swap", !.old = {}]
    <2>1. {"version", "create", "swap"} \subseteq Steps /\ 1 \in Versions
        BY ConstantsAssumption DEF Steps, Versions
    <2>2. /\ Notes(A, "version", y.task, y.orgs, y.org, y.ver, y.old, y.todo, y.of, y.doc)
          /\ Notes(B, "create", y.task, y.orgs, y.org, 1, y.old, y.todo, y.of, y.doc)
          /\ Notes(C, "swap", y.task, y.orgs, y.org, y.ver, {}, y.todo, y.of, y.doc)
        <3> HIDE DEF y
        <3>1. "version" \in Steps /\ "create" \in Steps /\ "swap" \in Steps
            BY <2>1
        <3>2. Notes(A, "version", y.task, y.orgs, y.org, y.ver, y.old, y.todo, y.of, y.doc)
            BY <1>0, <3>1, NotePc
        <3>3. Notes(B, "create", y.task, y.orgs, y.org, 1, y.old, y.todo, y.of, y.doc)
            BY <1>0, <2>1, <3>1, NoteVer
        <3>4. {} \in SUBSET (Stored \cup Projects)
            OBVIOUS
        <3>5. Notes(C, "swap", y.task, y.orgs, y.org, y.ver, {}, y.todo, y.of, y.doc)
            BY <1>0, <3>1, <3>4, NotePcOld
        <3> QED BY <3>2, <3>3, <3>5
    <2>3. \/ y.pc = "ensure" /\ wk' = [wk EXCEPT ![w] = A]
          \/ y.pc = "version" /\ wk' = [wk EXCEPT ![w] = B]
          \/ y.pc = "swapread" /\ wk' = [wk EXCEPT ![w] = C]
        BY <1>2 DEF LookupFails
    <2> HIDE DEF A, B, C
    <2>4. /\ y.pc = "ensure" => Sound(A)
          /\ y.pc = "version" => Sound(B)
          /\ y.pc = "swapread" => Sound(C)
        <3> HIDE DEF y
        <3>1. y.pc = "ensure" => Sound(A)
            BY <1>0, <2>2 DEF Notes, Sound, AtOrg, AtStore
        <3>2. y.pc = "version" => Sound(B)
            BY <1>0, <2>1, <2>2 DEF Notes, Sound, AtOrg, AtStore
        <3>3. y.pc = "swapread" => Sound(C)
            BY <1>0, <2>2 DEF Notes, Sound, AtOrg, AtStore
        <3> QED BY <3>1, <3>2, <3>3
    <2>5. A.task = y.task /\ B.task = y.task /\ C.task = y.task /\ y.pc # "idle"
        BY <2>2, <2>3 DEF Notes
    <2> QED BY <2>3, <2>4, <2>5 DEF Moves
<1>3. CASE Crash(w) \/ Killed(w)
    BY <1>3, IdleIsSound DEF Crash, Killed, Moves
<1> QED BY <1>1, <1>2, <1>3

-----------------------------------------------------------------------------
(* The types are kept *)

LEMMA WorkMoves ==
    ASSUME Types, NEW w \in Workers, Work(w) \/ Raise(w)
    PROVE  \E x : Moves(w, x) /\ (Take(w) \/ RunNow(w) \/ x = Idle \/ x.task = wk[w].task)
<1>1. ASSUME wk[w].pc # "idle", Over(w)
      PROVE  \E x : Moves(w, x) /\ x.task = wk[w].task
    BY <1>1, OverMoves
<1>2. CASE Take(w) \/ RunNow(w) \/ Targets(w) \/ NextOrg(w) \/ Ack(w)
    BY <1>2, TakeMoves, TargetsMoves, NextOrgMoves, AckMoves
<1>3. CASE EndCancelled(w) \/ EndTask(w) \/ CreateFails(w) \/ SwapFails(w) \/ Raise(w)
    <2>1. Over(w) /\ wk[w].pc # "idle"
        BY <1>3 DEF EndCancelled, EndTask, CreateFails, SwapFails, Raise, EndFailed
    <2> QED BY <1>1, <2>1
<1>4. CASE Lifecycle(w) /\ ~CreateFails(w) /\ ~SwapFails(w)
    <2>1. CASE Ensure(w) \/ NextVersion(w) \/ CreateStore(w)
        BY <2>1, EnsureMoves, VersionMoves, CreateMoves DEF Goes, GoesTo, Notes
    <2>2. CASE SwapRead(w) \/ SwapAlias(w) \/ ListStores(w) \/ DeleteStore(w)
        BY <2>2, SwapReadMoves, SwapMoves, ListMoves, DeleteMoves DEF Goes, GoesTo, Notes
    <2> QED BY <1>4, <2>1, <2>2 DEF Lifecycle
<1>5. CASE Rebuild(w)
    <2>1. CASE BuildProject(w)
        <3>1. PICK p \in wk[w].todo : wk' = [wk EXCEPT ![w] = [wk[w] EXCEPT !.todo = @ \ {p}]]
            BY <2>1 DEF BuildProject, Go
        <3> QED BY <2>1, <3>1, BuildMoves DEF BuildProject, Goes, Notes
    <2> QED BY <1>5, <2>1, RebuildMoves DEF Rebuild, Goes, GoesTo, Notes
<1>6. CASE Sync(w)
    <2>1. CASE Expect(w)
        BY <2>1, ExpectMoves DEF Goes, Notes
    <2>2. CASE Scan(w)
        BY <2>2, ScanMoves DEF Goes, GoesTo, Notes
    <2>3. CASE Update(w)
        BY <2>3, UpdateMoves DEF Goes, GoesTo, Notes
    <2>4. CASE DeleteOrphans(w)
        BY <2>4, RebuildMoves DEF Goes, GoesTo, Notes
    <2> QED BY <1>6, <2>1, <2>2, <2>3, <2>4 DEF Sync
<1>7. CASE Hooks(w)
    <2>1. CASE WritePage(w)
        <3>1. wk[w].pc # "idle"
            BY <2>1 DEF WritePage
        <3>2. CASE EndFailed(w)
            BY <1>1, <3>1, <3>2 DEF EndFailed
        <3> QED BY <2>1, <3>2, WriteMoves DEF Goes, GoesTo, Notes
    <2>2. CASE ClearStore(w)
        BY <2>2, DeleteMoves DEF Goes, GoesTo, Notes
    <2> QED BY <1>7, <2>1, <2>2, HookMoves DEF Hooks
<1> QED BY <1>2, <1>3, <1>4, <1>5, <1>6, <1>7 DEF Work

LEMMA IndexFrame == ASSUME IndexOK, UNCHANGED cluster PROVE IndexOK'
    BY DEF IndexOK, cluster

(* Stores that are made, written and removed.                               *)
LEMMA StoreMade ==
    ASSUME IndexOK, NEW o \in Orgs, NEW v \in Versions, UNCHANGED <<alias, shadow>>,
           stores' = [stores EXCEPT ![o] = @ \cup {v}],
           NEW d \in [Projects -> Entry], docs' = [docs EXCEPT ![o][v] = d]
    PROVE  IndexOK'
    BY DEF IndexOK

LEMMA StoreWritten ==
    ASSUME IndexOK, NEW o \in Orgs, NEW v \in Versions, NEW p \in Projects, NEW e \in Entry,
           WriteStore(o, v, p, e), UNCHANGED <<alias, shadow>>
    PROVE  IndexOK'
<1> DEFINE d == [docs[o][v] EXCEPT ![p] = e]
<1>1. d \in [Projects -> Entry]
    BY DEF IndexOK
<1>2. docs' = [docs EXCEPT ![o][v] = d]
    BY DEF WriteStore
<1> HIDE DEF d
<1> QED BY <1>1, <1>2, StoreMade DEF WriteStore

LEMMA StoreRemoved ==
    ASSUME IndexOK, NEW o, NEW v, RemoveStore(o, v), UNCHANGED shadow
    PROVE  IndexOK'
<1>1. NoDocs \in [Projects -> Entry]
    BY ConstantsAssumption DEF NoDocs, Blank, Entry
<1> QED BY <1>1 DEF IndexOK, RemoveStore

LEMMA AliasWritten ==
    ASSUME IndexOK, NEW o \in Orgs, NEW p \in Projects, NEW e \in Entry,
           WriteAlias(o, p, e), UNCHANGED <<stores, alias>>
    PROVE  IndexOK'
<1> DEFINE D == [v \in Versions |-> IF alias[o] = {v} THEN [docs[o][v] EXCEPT ![p] = e]
                                     ELSE docs[o][v]]
<1>1. D \in [Versions -> [Projects -> Entry]]
    BY DEF IndexOK
<1>2. docs' = [docs EXCEPT ![o] = D]
    BY DEF WriteAlias
<1> HIDE DEF D
<1>3. shadow' \subseteq Orgs
    BY DEF IndexOK, WriteAlias
<1> QED BY <1>1, <1>2, <1>3 DEF IndexOK

LEMMA Cleared ==
    ASSUME IndexOK, NEW o, NEW v, NEW p, docs' = [docs EXCEPT ![o][v][p] = Blank],
           UNCHANGED <<stores, alias, shadow>>
    PROVE  IndexOK'
<1>1. Blank \in Entry
    BY ConstantsAssumption DEF Blank, Entry
<1> QED BY <1>1 DEF IndexOK

LEMMA OrphansDeleted ==
    ASSUME IndexOK, NEW w \in Workers, DeleteOrphans(w), wk[w].org \in Orgs
    PROVE  IndexOK'
<1> DEFINE o == wk[w].org
           D == [v \in Versions |->
                   IF v \in alias[o]
                   THEN [p \in Projects |-> IF p \in wk[w].old THEN Blank ELSE docs[o][v][p]]
                   ELSE docs[o][v]]
<1>0. Blank \in Entry
    BY ConstantsAssumption DEF Blank, Entry
<1>1. D \in [Versions -> [Projects -> Entry]]
    BY <1>0 DEF IndexOK
<1>2. docs' = [docs EXCEPT ![o] = D]
    BY DEF DeleteOrphans
<1> HIDE DEF D
<1> QED BY <1>1, <1>2 DEF IndexOK, DeleteOrphans

LEMMA WorkIndex ==
    ASSUME Types, NEW w \in Workers, Work(w) \/ Raise(w)
    PROVE  IndexOK'
<1>0. IndexOK /\ Sound(wk[w])
    BY WorkerIsSound DEF Types
<1>1. CASE UNCHANGED cluster
    BY <1>0, <1>1, IndexFrame
<1>2. CASE CreateStore(w)
    <2>1. NoDocs \in [Projects -> Entry]
        BY ConstantsAssumption DEF NoDocs, Blank, Entry
    <2>2. wk[w].org \in Orgs /\ wk[w].ver \in Versions
        BY <1>0, <1>2 DEF CreateStore, Sound, AtOrg, AtStore
    <2> QED BY <1>0, <1>2, <2>1, <2>2, StoreMade DEF CreateStore
<1>3. CASE SwapAlias(w)
    <2>1. wk[w].org \in Orgs /\ wk[w].ver \in Versions /\ wk[w].ver \in stores[wk[w].org]
        BY <1>0, <1>3 DEF SwapAlias, CanSwap, Sound, AtOrg, AtStore
    <2>2. PICK S : alias' = [alias EXCEPT ![wk[w].org] = (@ \ S) \cup {wk[w].ver}]
        BY <1>3 DEF SwapAlias
    <2> QED BY <1>0, <1>3, <2>1, <2>2 DEF SwapAlias, IndexOK
<1>4. CASE BuildProject(w)
    <2>1. wk[w].org \in Orgs /\ wk[w].ver \in Versions /\ wk[w].todo \subseteq Projects
        BY <1>0, <1>4 DEF BuildProject, Sound, AtOrg, AtStore
    <2>2. \A p \in Projects : [rev |-> rev[p], groups |-> groups[p]] \in Entry
        BY ConstantsAssumption DEF Types, DbOK, Entry
    <2>3. PICK p \in wk[w].todo :
             IF groups[p] = {} \/ rev[p] = 0 THEN UNCHANGED <<stores, docs>>
             ELSE WriteStore(wk[w].org, wk[w].ver, p, [rev |-> rev[p], groups |-> groups[p]])
        BY <1>4 DEF BuildProject
    <2>4. CASE UNCHANGED <<stores, docs>>
        BY <1>0, <1>4, <2>4, IndexFrame DEF BuildProject, cluster
    <2>5. CASE WriteStore(wk[w].org, wk[w].ver, p, [rev |-> rev[p], groups |-> groups[p]])
        BY <1>0, <1>4, <2>1, <2>2, <2>5, StoreWritten DEF BuildProject
    <2> QED BY <2>3, <2>4, <2>5
<1>5. CASE BuildGoes(w) \/ DeleteStore(w) \/ Raise(w)
    <2>1. UNCHANGED cluster \/ (UNCHANGED shadow /\ \E o, v : RemoveStore(o, v))
        BY <1>5 DEF BuildGoes, DeleteStore, Raise, cluster
    <2> QED BY <1>0, <1>1, <2>1, StoreRemoved
<1>6. CASE DeleteOrphans(w)
    <2>1. wk[w].org \in Orgs
        BY <1>0, <1>6 DEF DeleteOrphans, Sound, AtOrg, AtStore
    <2> QED BY <1>0, <1>6, <2>1, OrphansDeleted
<1>7. CASE ClearStore(w)
    <2>1. UNCHANGED docs \/ \E s \in wk[w].old : docs' = [docs EXCEPT ![s[1]][s[2]][wk[w].of] = Blank]
        BY <1>7 DEF ClearStore
    <2>2. UNCHANGED <<stores, alias, shadow>>
        BY <1>7 DEF ClearStore
    <2> QED BY <1>0, <1>1, <2>1, <2>2, Cleared DEF cluster
<1>8. CASE WritePage(w)
    <2>1. wk[w].org \in Orgs /\ wk[w].of \in Projects /\ wk[w].doc \in Entry
        BY <1>0, <1>8 DEF WritePage, Sound, AtOrg, AtStore, WorkerType
    <2> QED BY <1>0, <1>8, <2>1, AliasWritten DEF WritePage
<1>9. UNCHANGED cluster
      \/ CreateStore(w) \/ SwapAlias(w) \/ BuildProject(w) \/ BuildGoes(w) \/ DeleteStore(w)
      \/ Raise(w) \/ DeleteOrphans(w) \/ ClearStore(w) \/ WritePage(w)
    BY DEF Work, Lifecycle, Rebuild, Sync, Hooks, Take, RunNow, Targets, NextOrg, EndCancelled,
           EndTask, Ack, Ensure, NextVersion, CreateFails, SwapRead, SwapFails, ListStores, BuildEnds,
           BuildStays, Expect, Scan, Update, PageStart, ProjectStart, ReadPage
<1> QED BY <1>1, <1>2, <1>3, <1>4, <1>5, <1>6, <1>7, <1>8, <1>9

LEMMA StatusWritten ==
    ASSUME NEW x \in JobType, NEW s \in {"NONE"} \cup Active \cup Terminal
    PROVE  /\ [x EXCEPT !.status = s] \in JobType
           /\ [x EXCEPT !.cancel = TRUE] \in JobType
           /\ [x EXCEPT !.status = s, !.cancel = FALSE] \in JobType
    BY DEF JobType

LEMMA JobWritten ==
    ASSUME JobsOK, NEW j, NEW s, j \in Jobs => s \in JobType, job' = [job EXCEPT ![j] = s],
           queue' \subseteq Tasks,
           starter' \in [Jobs -> {"gone", "dashboard", "command", "now"}]
    PROVE  JobsOK'
    BY DEF JobsOK

LEMMA WorkJobs ==
    ASSUME Types, NEW w \in Workers, Work(w) \/ Raise(w)
    PROVE  JobsOK'
<1>0. JobsOK /\ Sound(wk[w])
    BY WorkerIsSound DEF Types
<1>1. CASE UNCHANGED <<job, queue, starter>>
    BY <1>0, <1>1 DEF JobsOK
<1>2. ASSUME NEW s \in {"NONE"} \cup Active \cup Terminal, SetStatus(w, s),
             UNCHANGED <<queue, starter>>
      PROVE  JobsOK'
    <2> DEFINE j == wk[w].task.of
               x == [job[j] EXCEPT !.status = s]
    <2>1. job' = [job EXCEPT ![j] = x]
        BY <1>2 DEF SetStatus
    <2>2. j \in Jobs => x \in JobType
        BY <1>0, StatusWritten DEF JobsOK
    <2> HIDE DEF j, x
    <2> QED BY <1>0, <1>2, <2>1, <2>2, JobWritten DEF JobsOK
<1>3. ASSUME EndFailed(w), UNCHANGED <<queue, starter>> PROVE JobsOK'
    <2> DEFINE j == wk[w].task.of
               x == [job[j] EXCEPT !.status = "FAILED", !.cancel = FALSE]
    <2>1. job' = [job EXCEPT ![j] = x] \/ UNCHANGED job
        BY <1>3 DEF EndFailed
    <2>2. j \in Jobs => x \in JobType
        <3>1. "FAILED" \in {"NONE"} \cup Active \cup Terminal
            BY DEF Terminal
        <3> QED BY <1>0, <3>1, StatusWritten DEF JobsOK
    <2> HIDE DEF j, x
    <2> QED BY <1>0, <1>3, <2>1, <2>2, JobWritten DEF JobsOK
<1>4. CASE Take(w) \/ RunNow(w)
    <2>1. PICK t :
             job' = IF t.kind = "job" THEN [job EXCEPT ![t.of].status = "IN_PROGRESS"] ELSE job
        BY <1>4 DEF Take, RunNow, Begin
    <2> DEFINE x == [job[t.of] EXCEPT !.status = "IN_PROGRESS"]
    <2>2. job' = [job EXCEPT ![t.of] = x] \/ UNCHANGED job
        BY <2>1
    <2>3. t.of \in Jobs => x \in JobType
        <3>1. "IN_PROGRESS" \in {"NONE"} \cup Active \cup Terminal
            BY DEF Active
        <3> QED BY <1>0, <3>1, StatusWritten DEF JobsOK
    <2>4. /\ queue' \subseteq Tasks
          /\ starter' \in [Jobs -> {"gone", "dashboard", "command", "now"}]
        BY <1>0, <1>4 DEF Take, RunNow, JobsOK
    <2> HIDE DEF x
    <2> QED BY <1>0, <2>2, <2>3, <2>4, JobWritten DEF JobsOK
<1>5. CASE EndCancelled(w) \/ EndTask(w)
    BY <1>1, <1>2, <1>5 DEF EndCancelled, EndTask, Terminal
<1>6. CASE CreateFails(w) \/ SwapFails(w) \/ WritePage(w) \/ Raise(w)
    BY <1>1, <1>3, <1>6 DEF CreateFails, SwapFails, WritePage, Raise
<1>7. UNCHANGED <<job, queue, starter>>
      \/ Take(w) \/ RunNow(w) \/ EndCancelled(w) \/ EndTask(w) \/ CreateFails(w) \/ SwapFails(w)
      \/ WritePage(w) \/ Raise(w)
    BY DEF db, Work, Lifecycle, Rebuild, Sync, Hooks, Targets, NextOrg, Ack, Ensure, NextVersion,
           CreateStore, SwapRead, SwapAlias, ListStores, DeleteStore, BuildProject, BuildEnds,
           BuildStays, BuildGoes, Expect, Scan, Update, DeleteOrphans, PageStart, ProjectStart,
           ClearStore, ReadPage
<1> QED BY <1>1, <1>4, <1>5, <1>6, <1>7

LEMMA WorkTypes ==
    ASSUME Types, NEW w \in Workers, Work(w) \/ Faults(w)
    PROVE  Types'
<1>0. Types
    OBVIOUS
<1>1. ASSUME Work(w) \/ Raise(w) PROVE Types'
    <2>1. DbOK'
        <3>1. UNCHANGED <<rev, groups, changes>>
            BY <1>1 DEF db, Work, Lifecycle, Rebuild, Sync, Hooks, Take, RunNow, Targets, NextOrg,
               EndCancelled, EndTask, Ack, Ensure, NextVersion, CreateStore, CreateFails,
               SwapRead, SwapAlias, SwapFails, ListStores, DeleteStore, BuildProject, BuildEnds,
               BuildStays, BuildGoes, Expect, Scan, Update, DeleteOrphans, PageStart,
               ProjectStart, ClearStore, ReadPage, WritePage, Raise
        <3> QED BY <3>1 DEF Types, DbOK
    <2>2. WorkersOK'
        BY <1>1, WorkMoves, MovesKeep DEF Types
    <2>3. HistoryOK'
        <3>1. solo' \in Workers \cup {Nobody}
            BY <1>1 DEF Types, HistoryOK, db, Work, Lifecycle, Rebuild, Sync, Hooks, Take,
               RunNow, Targets,
               NextOrg, EndCancelled, EndTask, Ack, Ensure, NextVersion, CreateStore, CreateFails,
               SwapRead, SwapAlias, SwapFails, ListStores, DeleteStore, BuildProject, BuildEnds,
               BuildStays, BuildGoes, Expect, Scan, Update, DeleteOrphans, PageStart,
               ProjectStart, ClearStore, ReadPage, WritePage, Raise, EndFailed, Over, GoTo, Go, Begin
        <3>2. faults' \in Nat
            <4>1. CASE Work(w)
                <5>1. UNCHANGED faults
                    BY <4>1 DEF Work, Lifecycle, Rebuild, Sync, Hooks, Take, RunNow, Targets, NextOrg,
                       EndCancelled, EndTask, Ack, Ensure, NextVersion, CreateStore, CreateFails,
                       SwapRead, SwapAlias, SwapFails, ListStores, DeleteStore, BuildProject,
                       BuildEnds, BuildStays, BuildGoes, Expect, Scan, Update, DeleteOrphans,
                       PageStart, ProjectStart, ClearStore, ReadPage, WritePage
                <5> QED BY <5>1 DEF Types, HistoryOK
            <4>2. CASE Raise(w)
                BY <4>2 DEF Raise, Fault, Types, HistoryOK
            <4> QED BY <1>1, <4>1, <4>2
        <3>3. CASE NextOrg(w)
            <4>1. PICK o \in wk[w].orgs : dropped' \in {dropped, dropped \cup {o}}
                BY <3>3 DEF NextOrg
            <4>2. wk[w].orgs \subseteq Orgs /\ UNCHANGED <<reused, stranded>>
                BY <3>3, WorkerIsSound DEF WorkerType, NextOrg
            <4> QED BY <3>1, <3>2, <4>1, <4>2 DEF Types, HistoryOK
        <3>5. CASE CreateStore(w)
            <4>1. wk[w].org \in Orgs
                BY <3>5, WorkerIsSound DEF CreateStore, Sound, AtOrg, AtStore
            <4>2. reused' \in {reused, reused \cup {wk[w].org}} /\ UNCHANGED <<dropped, stranded>>
                BY <3>5 DEF CreateStore
            <4> QED BY <3>1, <3>2, <4>1, <4>2 DEF Types, HistoryOK
        <3>4. CASE ~NextOrg(w) /\ ~CreateStore(w)
            <4>1. UNCHANGED <<dropped, reused, stranded>>
                BY <1>1, <3>4 DEF db, past, Work, Lifecycle, Rebuild, Sync, Hooks, Take, RunNow, Targets,
                   EndCancelled, EndTask, Ack, Ensure, NextVersion, CreateStore, CreateFails,
                   SwapRead, SwapAlias, SwapFails, ListStores, DeleteStore, BuildProject, BuildEnds,
                   BuildStays, BuildGoes, Expect, Scan, Update, DeleteOrphans, PageStart,
                   ProjectStart, ClearStore, ReadPage, WritePage, Raise
            <4> QED BY <3>1, <3>2, <4>1 DEF Types, HistoryOK
        <3> QED BY <3>3, <3>4, <3>5
    <2>4. IndexOK' /\ JobsOK'
        BY <1>1, WorkIndex, WorkJobs
    <2> QED BY <2>1, <2>2, <2>3, <2>4 DEF Types
<1>2. CASE BulkWriteFails(w) \/ LookupFails(w) \/ Crash(w) \/ Killed(w) \/ Redeliver(w)
    <2>1. UNCHANGED <<rev, groups, job, starter, changes, dropped, reused>> /\ UNCHANGED cluster
        BY <1>2 DEF BulkWriteFails, LookupFails, Crash, Killed, Redeliver, db, past
    <2>2. faults' \in Nat /\ solo' \in Workers \cup {Nobody} /\ stranded' \subseteq Jobs
        BY <1>2 DEF BulkWriteFails, LookupFails, Crash, Killed, Redeliver, Fault, past, Types,
           HistoryOK
    <2>3. queue' \subseteq Tasks
        <3>1. wk[w].pc # "idle" => wk[w].task \in Tasks
            BY WorkerIsSound DEF Sound
        <3> QED BY <1>2, <3>1 DEF BulkWriteFails, LookupFails, Crash, Killed, Redeliver, Types,
                JobsOK
    <2>4. WorkersOK'
        <3>1. CASE Redeliver(w)
            BY <3>1 DEF Redeliver, Types, WorkersOK
        <3> QED BY <1>2, <3>1, FaultMoves, MovesKeep DEF Types
    <2>5. IndexOK'
        BY <2>1, IndexFrame DEF Types
    <2> QED BY <2>1, <2>2, <2>3, <2>4, <2>5 DEF Types, DbOK, JobsOK, HistoryOK
<1> QED BY <1>1, <1>2 DEF Faults

LEMMA RequestTypes == ASSUME Types, Requests PROVE Types'
<1>1. UNCHANGED <<wk, dropped, reused>> /\ UNCHANGED cluster /\ solo' \in {solo, Nobody}
    BY DEF Requests, EditPage, DeleteProject, AddToGroup, RemoveFromGroup, Move, Change,
           StartJob, CliJob, NewJob, Dispatch, DispatchFails, StarterDies, CancelJob, past
<1>2. WorkersOK' /\ IndexOK'
    BY <1>1, IndexFrame DEF Types, WorkersOK
<1>3. ASSUME NEW p \in Projects,
             EditPage(p) \/ DeleteProject(p)
             \/ \E o \in Orgs : AddToGroup(p, o) \/ RemoveFromGroup(p, o)
      PROVE  Types'
    <2>1. /\ changes < MaxChanges /\ changes' = changes + 1 /\ rev[p] # 0
          /\ UNCHANGED <<faults, job, starter, stranded>>
        BY <1>3 DEF EditPage, DeleteProject, AddToGroup, RemoveFromGroup, Move, Change, past
    <2>2. queue' \subseteq Tasks
        <3>1. \E k \in {"page", "project", "removal"} : queue' = queue \cup {[kind |-> k, of |-> p]}
            BY <1>3 DEF EditPage, DeleteProject, AddToGroup, RemoveFromGroup, Enqueue
        <3> QED BY <3>1 DEF Types, JobsOK, Tasks, HookTasks
    <2>3. changes \in Nat /\ MaxChanges \in Nat
        BY ConstantsAssumption DEF Types, DbOK
    <2>4. DbOK'
        <3>1. CASE EditPage(p)
            BY <2>1, <2>3, <3>1 DEF EditPage, Types, DbOK
        <3>2. CASE DeleteProject(p)
            BY <2>1, <2>3, <3>2 DEF DeleteProject, Move, Types, DbOK
        <3>3. ASSUME NEW o \in Orgs, AddToGroup(p, o) \/ RemoveFromGroup(p, o) PROVE DbOK'
            BY <2>1, <2>3, <3>3 DEF AddToGroup, RemoveFromGroup, Move, Types, DbOK
        <3> QED BY <1>3, <3>1, <3>2, <3>3
    <2> QED BY <1>1, <1>2, <2>1, <2>2, <2>4 DEF Types, JobsOK, HistoryOK
<1>4. ASSUME NEW j \in Jobs,
             \/ \E t \in {"REBUILD", "SYNC", "DROP"}, s \in Orgs \cup {All} :
                   StartJob(j, t, s) \/ CliJob(j, t, s)
             \/ Dispatch(j) \/ DispatchFails(j) \/ StarterDies(j) \/ CancelJob(j)
      PROVE  Types'
    <2>1. UNCHANGED <<rev, groups, changes>> /\ faults' \in Nat /\ stranded' \subseteq Jobs
        BY <1>4 DEF StartJob, CliJob, NewJob, Dispatch, DispatchFails, StarterDies, CancelJob, Fault,
           db, past, Types, HistoryOK
    <2>2. queue' \subseteq Tasks
        <3>1. JobTask(j) \in Tasks
            BY DEF JobTask, Tasks, JobTasks
        <3> QED BY <1>4, <3>1 DEF StartJob, CliJob, NewJob, Dispatch, DispatchFails, StarterDies,
                CancelJob, Types, JobsOK
    <2>3. starter' \in [Jobs -> {"gone", "dashboard", "command", "now"}]
        BY <1>4 DEF StartJob, CliJob, NewJob, Dispatch, DispatchFails, StarterDies, CancelJob, Types,
           JobsOK
    <2>4. PICK x : x \in JobType /\ job' = [job EXCEPT ![j] = x]
        <3>0. job \in [Jobs -> JobType]
            BY DEF Types, JobsOK
        <3>1. CASE CancelJob(j)
            <4> DEFINE x == [job[j] EXCEPT !.cancel = TRUE]
            <4>1. x \in JobType
                BY <3>0 DEF JobType
            <4>2. job' = [job EXCEPT ![j] = x]
                BY <3>1 DEF CancelJob
            <4> QED BY <4>1, <4>2
        <3>2. ASSUME NEW t \in {"REBUILD", "SYNC", "DROP"}, NEW s \in Orgs \cup {All},
                     StartJob(j, t, s) \/ CliJob(j, t, s)
              PROVE  \E x : x \in JobType /\ job' = [job EXCEPT ![j] = x]
            <4>1. job' = [job EXCEPT ![j] =
                             [type |-> t, scope |-> s, status |-> "PENDING", cancel |-> FALSE]]
                BY <3>2 DEF StartJob, CliJob, NewJob
            <4>2. [type |-> t, scope |-> s, status |-> "PENDING", cancel |-> FALSE] \in JobType
                BY DEF JobType, Active, Terminal
            <4> QED BY <4>1, <4>2
        <3>3. CASE DispatchFails(j) /\ ~UNCHANGED job
            <4> DEFINE x == [job[j] EXCEPT !.status = "FAILED", !.cancel = FALSE]
            <4>1. x \in JobType
                BY <3>0 DEF JobType, Terminal
            <4>2. job' = [job EXCEPT ![j] = x]
                BY <3>3 DEF DispatchFails
            <4> QED BY <4>1, <4>2
        <3>4. CASE UNCHANGED job
            BY <3>0, <3>4
        <3> QED BY <1>4, <3>1, <3>2, <3>3, <3>4 DEF Dispatch, StarterDies, db
    <2>5. JobsOK'
        BY <2>2, <2>3, <2>4, JobWritten DEF Types
    <2> QED BY <1>1, <1>2, <2>1, <2>5 DEF Types, DbOK, HistoryOK
<1> QED BY <1>3, <1>4 DEF Requests

LEMMA TypesStep == Types /\ [Next]_vars => Types'
<1> SUFFICES ASSUME Types, [Next]_vars PROVE Types'
    OBVIOUS
<1>1. CASE UNCHANGED vars
    BY <1>1, IndexFrame DEF vars, db, past, Types, DbOK, JobsOK, WorkersOK, HistoryOK
<1> QED BY <1>1, WorkTypes, RequestTypes DEF Next

LEMMA TypesInvariance == Spec => []Types
    BY InitTypes, TypesStep, PTL DEF Spec

(* Rows, indices, messages and the notes of the workers keep their types,   *)
(* and an alias never points at a store that is gone: whatever index_org,   *)
(* swap_alias, drop_org_indices and the hook tasks do at the same time.     *)
THEOREM TypesAreKept == Spec => []TypeOK
    BY TypesInvariance, TypesImply, PTL

-----------------------------------------------------------------------------
(* The safety net *)

(* A job that is to be started, queued or worked on keeps its type: rows    *)
(* are made once.  No worker is on a job that is still to be started.       *)
Started ==
    /\ \A t \in JobTasks :
          t \in queue \/ (\E w \in Workers : wk[w].pc # "idle" /\ wk[w].task = t)
          => job[t.of].status # "NONE" /\ ~ToStart(t.of)
    /\ \A j \in Jobs : ToStart(j) => job[j].status # "NONE"

(* What an index says of a project is what the database has.                *)
RightFor(p, o, v) == docs[o][v][p].rev = IF p \in Members(o) THEN rev[p] ELSE 0
Right(o, v) == \A p \in Projects : RightFor(p, o, v)

(* A rebuild nobody interferes with: the new store has every project that   *)
(* is not ahead, and all of them before it is swapped in; then it is the    *)
(* alias's only one.                                                        *)
RebuildOf(x) ==
    /\ x.pc # "list"
    /\ x.pc \in {"build", "built"} => \A p \in Projects \ x.todo : RightFor(p, x.org, x.ver)
    /\ x.pc = "build" => x.todo \subseteq Members(x.org)
    /\ x.pc = "built" => x.todo = {} \/ job[x.task.of].cancel
    /\ x.pc \in {"swapread", "swap", "delete"} => Right(x.org, x.ver)
    /\ x.pc = "swap" => x.old = {<<x.org, v>> : v \in alias[x.org] \ {x.ver}}
    /\ x.pc = "delete" =>
          /\ x.ver \in Versions /\ alias[x.org] = {x.ver}
          /\ \A s \in x.old : s[1] = x.org /\ s[2] # x.ver

(* A sync nobody interferes with: the alias has one store, which is right   *)
(* but for the projects ahead and the orphans.                              *)
SyncSteps ==
    {"ack", "targets", "next", "ensure", "version", "create", "swapread", "swap", "expect",
     "scan", "update", "write", "orphans"}

SyncOf(x) ==
    /\ x.pc \in SyncSteps
    /\ x.pc = "next" /\ x.org # Nobody => InSync(x.org)
    /\ x.pc = "ensure" => alias[x.org] = {} \/ \E v \in Versions : alias[x.org] = {v}
    /\ x.pc \in {"version", "create", "swapread", "swap"} => alias[x.org] = {}
    /\ x.pc = "swap" => x.old = {}
    /\ x.pc \in {"expect", "scan", "update", "write", "orphans"} =>
          \E v \in Versions : alias[x.org] = {v}
    /\ x.pc = "scan" => x.todo = {<<p, rev[p]>> : p \in Members(x.org)}
    /\ x.pc \in {"update", "write", "orphans"} =>
          /\ x.todo \subseteq Members(x.org)
          /\ \A p \in x.old : p \notin Members(x.org)
          /\ \A v \in alias[x.org], p \in Projects :
                \/ p \in x.todo \/ p \in x.old \/ (x.pc = "write" /\ p = x.of)
                \/ RightFor(p, x.org, v)
    /\ x.pc = "write" => x.of \in Members(x.org) /\ x.doc.rev = rev[x.of]
    /\ x.pc = "orphans" => x.todo = {}

(* Where the alias is doubled, a sync goes its way without changing that.   *)
InVain(x) ==
    /\ x.org \in Orgs /\ Doubled(x.org)
    /\ x.pc \in {"next", "ensure", "expect", "scan", "update", "write", "orphans"}

LoneInv ==
    \A w \in Workers : solo = w /\ wk[w].pc # "idle" =>
        /\ Runs(w, "REBUILD") => RebuildOf(wk[w])
        /\ Runs(w, "SYNC") => SyncOf(wk[w]) \/ InVain(wk[w])

LEMMA LoneImplies == Types /\ LoneInv => LoneJobRepairs
<1> SUFFICES ASSUME Types, LoneInv, NEW w \in Workers, solo = w,
                    \/ /\ wk[w].pc = "next" /\ Runs(w, "SYNC") /\ wk[w].org # Nobody
                       /\ ~Doubled(wk[w].org)
                    \/ wk[w].pc = "delete" /\ Runs(w, "REBUILD") /\ wk[w].old = {}
             PROVE  InSync(wk[w].org)
    BY DEF LoneJobRepairs
<1>1. CASE /\ wk[w].pc = "next" /\ Runs(w, "SYNC") /\ wk[w].org # Nobody
           /\ ~Doubled(wk[w].org)
    BY <1>1 DEF LoneInv, SyncOf, InVain
<1>2. CASE wk[w].pc = "delete" /\ Runs(w, "REBUILD") /\ wk[w].old = {}
    BY <1>2 DEF LoneInv, RebuildOf, InSync, Right, RightFor
<1> QED BY <1>1, <1>2

-----------------------------------------------------------------------------
(* Started *)

(* No step of a worker makes a row new, or changes what a job is.           *)
LEMMA JobsGoOn ==
    ASSUME Types, NEW w \in Workers, Work(w) \/ Faults(w), NEW j \in Jobs
    PROVE  /\ job'[j].type = job[j].type
           /\ job[j].status # "NONE" => job'[j].status # "NONE"
           /\ wk[w].pc = "idle" => job'[j].status # "NONE" \/ job'[j] = job[j]
<1>0. job[j] \in JobType /\ job \in [Jobs -> JobType]
    BY DEF Types, JobsOK
<1>1. CASE UNCHANGED job
    BY <1>1
<1>2. ASSUME NEW s \in {"IN_PROGRESS", "COMPLETED", "CANCELLED"}, NEW i,
             job' = [job EXCEPT ![i].status = s]
      PROVE  job'[j].type = job[j].type /\ (job'[j].status # "NONE" \/ job'[j] = job[j])
    BY <1>0, <1>2 DEF JobType
<1>3. ASSUME NEW i, job' = [job EXCEPT ![i].status = "FAILED", ![i].cancel = FALSE]
      PROVE  job'[j].type = job[j].type /\ (job'[j].status # "NONE" \/ job'[j] = job[j])
    BY <1>0, <1>3 DEF JobType
<1>4. CASE EndCancelled(w) \/ EndTask(w)
    <2>1. UNCHANGED job \/ \E s \in {"COMPLETED", "CANCELLED"}, i \in {wk[w].task.of} :
              job' = [job EXCEPT ![i].status = s]
        BY <1>4 DEF EndCancelled, EndTask, SetStatus
    <2> QED BY <1>1, <1>2, <2>1
<1>7. CASE Take(w) \/ RunNow(w)
    <2>1. PICK t : job' = IF t.kind = "job" THEN [job EXCEPT ![t.of].status = "IN_PROGRESS"] ELSE job
        BY <1>7 DEF Take, RunNow, Begin
    <2> QED BY <1>1, <1>2, <2>1
<1>5. CASE EndFailed(w)
    BY <1>1, <1>3, <1>5 DEF EndFailed
<1>6. UNCHANGED job \/ Take(w) \/ RunNow(w) \/ EndCancelled(w) \/ EndTask(w) \/ EndFailed(w)
    BY DEF db, Work, Lifecycle, Rebuild, Sync, Hooks, Targets, NextOrg, Ack, Ensure, NextVersion,
           CreateStore, SwapRead, SwapAlias, ListStores, DeleteStore, BuildProject, BuildEnds,
           BuildStays, BuildGoes, Expect, Scan, Update, DeleteOrphans, PageStart, ProjectStart,
           ClearStore, ReadPage, CreateFails, SwapFails, WritePage, Faults, BulkWriteFails, Raise,
           LookupFails, Crash, Killed, Redeliver
<1> QED BY <1>1, <1>4, <1>5, <1>6, <1>7

LEMMA StartersGo ==
    ASSUME NEW w \in Workers, Work(w) \/ Faults(w), Types, NEW j \in Jobs, ToStart(j)'
    PROVE  ToStart(j)
<1>1. CASE RunNow(w)
    <2>1. PICK i \in Jobs : starter' = [starter EXCEPT ![i] = "now"]
        BY <1>1 DEF RunNow
    <2> QED BY <2>1 DEF ToStart, Types, JobsOK
<1>2. CASE ~RunNow(w)
    <2>1. UNCHANGED starter
        BY <1>2 DEF Work, Lifecycle, Rebuild, Sync, Hooks, Take, Targets, NextOrg, EndCancelled,
           EndTask, Ack, Ensure, NextVersion, CreateStore, CreateFails, SwapRead, SwapAlias,
           SwapFails, ListStores, DeleteStore, BuildProject, BuildEnds, BuildStays, BuildGoes,
           Expect, Scan, Update, DeleteOrphans, PageStart, ProjectStart, ClearStore, ReadPage,
           WritePage, Faults, BulkWriteFails, Raise, LookupFails, Crash, Killed, Redeliver
    <2> QED BY <2>1 DEF ToStart
<1> QED BY <1>1, <1>2

(* A worker takes up nothing but a message or a job a command runs itself.  *)
LEMMA TaskIsKnown ==
    ASSUME Types, NEW w \in Workers, Work(w) \/ Faults(w), ~RunNow(w), NEW t,
           t \in queue' \/ \E v \in Workers : wk'[v].pc # "idle" /\ wk'[v].task = t
    PROVE  t \in queue \/ \E v \in Workers : wk[v].pc # "idle" /\ wk[v].task = t
<1>1. CASE Redeliver(w)
    BY <1>1 DEF Redeliver
<1>2. CASE ~Redeliver(w)
    <2>1. PICK x : Moves(w, x) /\ (Take(w) \/ x = Idle \/ x.task = wk[w].task)
        BY <1>2, WorkMoves, FaultMoves DEF Faults
    <2>2. wk'[w] = x /\ \A v \in Workers : v # w => wk'[v] = wk[v]
        BY <2>1, MovesKeep DEF Types
    <2>3. CASE Take(w)
        <3>1. PICK y \in queue : Begin(w, y) /\ queue' = queue \ {y}
            BY <2>3 DEF Take
        <3>2. PICK z : Moves(w, z) /\ z.task = y
            BY <3>1, BeginMoves DEF Types, JobsOK
        <3>3. wk'[w] = z
            BY <3>2, MovesKeep DEF Types
        <3> QED BY <2>2, <3>1, <3>2, <3>3
    <2>4. CASE ~Take(w)
        <3>1. wk[w].pc # "idle"
            BY <1>2, <2>4 DEF Work, Lifecycle, Rebuild, Sync, Hooks, Targets, NextOrg, Ack,
               EndCancelled, EndTask, Ensure, NextVersion, CreateStore, CreateFails, SwapRead,
               SwapAlias, SwapFails, ListStores, DeleteStore, BuildProject, BuildEnds,
               BuildStays, BuildGoes, Expect, Scan, Update, DeleteOrphans, PageStart,
               ProjectStart, ClearStore, ReadPage, WritePage, Faults, BulkWriteFails, Raise,
               LookupFails, Crash, Killed
        <3>2. queue' \subseteq queue \cup {wk[w].task}
            BY <1>2, <2>4 DEF db, Work, Lifecycle, Rebuild, Sync, Hooks, Targets, NextOrg, Ack,
               EndCancelled, EndTask, Ensure, NextVersion, CreateStore, CreateFails, SwapRead,
               SwapAlias, SwapFails, ListStores, DeleteStore, BuildProject, BuildEnds,
               BuildStays, BuildGoes, Expect, Scan, Update, DeleteOrphans, PageStart,
               ProjectStart, ClearStore, ReadPage, WritePage, Faults, BulkWriteFails, Raise,
               LookupFails, Crash, Killed
        <3> QED BY <2>1, <2>2, <2>4, <3>1, <3>2 DEF Idle
    <2> QED BY <2>3, <2>4
<1> QED BY <1>1, <1>2

LEMMA StartedWorks ==
    ASSUME Types, Started, NEW w \in Workers, Work(w) \/ Faults(w)
    PROVE  Started'
<1>0. \A t \in JobTasks : t.of \in Jobs /\ t = JobTask(t.of)
    BY Kinds DEF JobTask, JobTasks
<1>1. ASSUME NEW t \in JobTasks,
             t \in queue' \/ \E v \in Workers : wk'[v].pc # "idle" /\ wk'[v].task = t
      PROVE  job'[t.of].status # "NONE" /\ ~ToStart(t.of)'
    <2>1. CASE t \in queue \/ \E v \in Workers : wk[v].pc # "idle" /\ wk[v].task = t
        <3>1. job[t.of].status # "NONE" /\ ~ToStart(t.of)
            BY <2>1 DEF Started
        <3>2. t.of \in Jobs
            BY <1>0
        <3> QED BY <3>1, <3>2, JobsGoOn, StartersGo
    <2>2. CASE ~(t \in queue \/ \E v \in Workers : wk[v].pc # "idle" /\ wk[v].task = t)
        <3>1. RunNow(w)
            BY <1>1, <2>2, TaskIsKnown
        <3>2. PICK j \in Jobs : /\ starter[j] = "command" /\ Begin(w, JobTask(j))
                               /\ starter' = [starter EXCEPT ![j] = "now"]
            BY <3>1 DEF RunNow
        <3>3. JobTask(j) \in Tasks
            BY DEF JobTask, Tasks, JobTasks
        <3>4. PICK x : Moves(w, x) /\ x.task = JobTask(j)
            BY <3>2, <3>3, BeginMoves
        <3>5. wk'[w] = x /\ \A v \in Workers : v # w => wk'[v] = wk[v]
            BY <3>4, MovesKeep DEF Types
        <3>6. t = JobTask(j) /\ t.of = j
            BY <1>0, <1>1, <2>2, <3>1, <3>4, <3>5 DEF RunNow, JobTask
        <3>7. ~ToStart(j)'
            BY <3>2 DEF ToStart, Types, JobsOK
        <3>8. job[j].status # "NONE"
            BY <3>2 DEF Started, ToStart
        <3> QED BY <3>6, <3>7, <3>8, JobsGoOn
    <2> QED BY <2>1, <2>2
<1>2. ASSUME NEW j \in Jobs, ToStart(j)' PROVE job'[j].status # "NONE"
    <2>1. job[j].status # "NONE"
        BY <1>2, StartersGo DEF Started
    <2> QED BY <2>1, JobsGoOn
<1> QED BY <1>1, <1>2 DEF Started

(* A failed dispatch takes the mark from a job that is still to be started. *)
LEMMA StartedRequests ==
    ASSUME Types, Started, Requests
    PROVE  /\ Started'
           /\ \A j \in Jobs : job[j].status # "NONE" =>
                 job'[j].type = job[j].type /\ (job[j].cancel => job'[j].cancel \/ ToStart(j))
<1>0. /\ job \in [Jobs -> JobType] /\ UNCHANGED wk
      /\ starter \in [Jobs -> {"gone", "dashboard", "command", "now"}]
    BY DEF Types, JobsOK, Requests, EditPage, DeleteProject, AddToGroup, RemoveFromGroup, StartJob,
           CliJob, NewJob, Dispatch, DispatchFails, StarterDies, CancelJob
<1> DEFINE Same == \A j \in Jobs : job[j].status # "NONE" =>
                      job'[j].type = job[j].type /\ (job[j].cancel => job'[j].cancel \/ ToStart(j))
<1>k. \A t \in JobTasks : t.of \in Jobs /\ t = JobTask(t.of)
    BY Kinds DEF JobTask, JobTasks
<1>1. ASSUME NEW p \in Projects,
             EditPage(p) \/ DeleteProject(p)
             \/ \E o \in Orgs : AddToGroup(p, o) \/ RemoveFromGroup(p, o)
      PROVE  Started' /\ Same
    <2>1. \E k \in {"page", "project", "removal"} : queue' = queue \cup {[kind |-> k, of |-> p]}
        BY <1>1 DEF EditPage, DeleteProject, AddToGroup, RemoveFromGroup, Enqueue
    <2>2. UNCHANGED <<job, starter>>
        BY <1>1 DEF EditPage, DeleteProject, AddToGroup, RemoveFromGroup
    <2>3. queue' \cap JobTasks = queue \cap JobTasks
        BY <2>1 DEF JobTasks
    <2> QED BY <1>0, <2>2, <2>3 DEF Started, ToStart
<1>2. ASSUME NEW j \in Jobs, CancelJob(j) PROVE Started' /\ Same
    <2>1. /\ UNCHANGED <<queue, starter>>
          /\ \A i \in Jobs : job'[i].type = job[i].type /\ job'[i].status = job[i].status
                             /\ (job[i].cancel => job'[i].cancel)
        BY <1>0, <1>2 DEF CancelJob, JobType
    <2> QED BY <1>0, <1>k, <2>1 DEF Started, ToStart
<1>3. ASSUME NEW j \in Jobs, NEW t, NEW s, StartJob(j, t, s) \/ CliJob(j, t, s)
      PROVE  Started' /\ Same
    <2>1. PICK a : NewJob(j, t, s, a)
        BY <1>3 DEF StartJob, CliJob
    <2>2. /\ job[j].status = "NONE" /\ job'[j].status # "NONE" /\ UNCHANGED queue
          /\ \A i \in Jobs : i # j => job'[i] = job[i] /\ starter'[i] = starter[i]
        BY <1>0, <2>1 DEF NewJob
    <2>3. JobTask(j) \notin queue /\ \A v \in Workers : wk[v].pc # "idle" => wk[v].task # JobTask(j)
        BY <2>2 DEF Started, JobTask, JobTasks
    <2> QED BY <1>0, <1>k, <2>2, <2>3 DEF Started, ToStart
<1>4. ASSUME NEW j \in Jobs, Dispatch(j) \/ DispatchFails(j) \/ StarterDies(j)
      PROVE  Started' /\ Same
    <2>1. /\ ToStart(j) /\ starter' = [starter EXCEPT ![j] = "gone"]
          /\ queue' \subseteq queue \cup {JobTask(j)}
        BY <1>4 DEF Dispatch, DispatchFails, StarterDies
    <2>2. UNCHANGED job \/ job' = [job EXCEPT ![j].status = "FAILED", ![j].cancel = FALSE]
        BY <1>4 DEF Dispatch, DispatchFails, StarterDies, db
    <2>3. \A i \in Jobs : /\ job[i].status # "NONE" => job'[i].status # "NONE"
                          /\ job'[i].type = job[i].type
                          /\ i # j => job'[i] = job[i]
        BY <1>0, <2>2 DEF JobType
    <2>4. \A i \in Jobs : /\ i # j => starter'[i] = starter[i]
                          /\ ~ToStart(j)'
        BY <1>0, <2>1 DEF ToStart
    <2>5. JobTask(j).of = j
        BY DEF JobTask
    <2>6. Same
        BY <2>1, <2>3
    <2>7. Started'
        <3>1. ASSUME NEW u \in JobTasks,
                     u \in queue' \/ \E v \in Workers : wk'[v].pc # "idle" /\ wk'[v].task = u
              PROVE  job'[u.of].status # "NONE" /\ ~ToStart(u.of)'
            <4>1. CASE u.of = j
                BY <2>1, <2>3, <2>4, <4>1 DEF Started
            <4>2. CASE u.of # j
                BY <1>0, <1>k, <2>1, <2>3, <2>4, <2>5, <3>1, <4>2 DEF Started, ToStart
            <4> QED BY <4>1, <4>2
        <3>2. ASSUME NEW i \in Jobs, ToStart(i)' PROVE job'[i].status # "NONE"
            BY <2>3, <2>4, <3>2 DEF Started, ToStart
        <3> QED BY <3>1, <3>2 DEF Started
    <2> QED BY <2>6, <2>7
<1> QED BY <1>1, <1>2, <1>3, <1>4 DEF Requests

-----------------------------------------------------------------------------
(* A rebuild, step by step *)

(* The notes z after a step, where nobody else has acted.                   *)
After(w, z) == Moves(w, z) /\ z.task = wk[w].task

LEMMA RebuildTrivial ==
    ASSUME NEW x, x.pc \notin {"list", "build", "built", "swapread", "swap", "delete"}
    PROVE  RebuildOf(x)'
    BY DEF RebuildOf

LEMMA MembersExist ==
    ASSUME Types, NEW o, NEW p \in Members(o)
    PROVE  p \in Projects /\ groups[p] # {} /\ rev[p] # 0
    BY DEF Types, DbOK, Members

LEMMA RebuildCreate ==
    ASSUME Types, NEW w \in Workers, CreateStore(w), Runs(w, "REBUILD")
    PROVE  \E x : After(w, x) /\ RebuildOf(x)'
<1> DEFINE y == wk[w]
<1>0. Sound(y) /\ y.pc = "create" /\ y.org \in Orgs /\ y.ver \in Versions
    BY WorkerIsSound DEF CreateStore, Sound, AtOrg, AtStore
<1>1. PICK x : /\ Moves(w, x)
               /\ Notes(x, "build", y.task, y.orgs, y.org, y.ver, y.old, Members(y.org), y.of, y.doc)
    BY CreateMoves DEF Goes
<1>2. docs' = [docs EXCEPT ![y.org][y.ver] = NoDocs] /\ UNCHANGED <<rev, groups>>
    BY DEF CreateStore, db
<1>3. \A p \in Projects : docs'[y.org][y.ver][p].rev = 0
    BY <1>0, <1>2 DEF Types, IndexOK, NoDocs, Blank
<1>4. x.pc = "build" /\ x.todo = Members(y.org) /\ x.org = y.org /\ x.ver = y.ver /\ x.task = y.task
    BY <1>1 DEF Notes
<1> HIDE DEF y
<1>5. RebuildOf(x)'
    BY <1>2, <1>3, <1>4 DEF RebuildOf, RightFor, Members
<1> QED BY <1>1, <1>4, <1>5 DEF After, y

LEMMA RebuildBuild ==
    ASSUME Types, NEW w \in Workers, BuildProject(w), RebuildOf(wk[w])
    PROVE  \E x : After(w, x) /\ RebuildOf(x)'
<1> DEFINE y == wk[w]
<1>0. Sound(y) /\ y.pc = "build" /\ y.org \in Orgs /\ y.ver \in Versions
    BY WorkerIsSound DEF BuildProject, Sound, AtOrg, AtStore
<1>1. PICK p \in y.todo :
         /\ wk' = [wk EXCEPT ![w] = [wk[w] EXCEPT !.todo = @ \ {p}]]
         /\ IF groups[p] = {} \/ rev[p] = 0 THEN UNCHANGED <<stores, docs>>
            ELSE WriteStore(y.org, y.ver, p, [rev |-> rev[p], groups |-> groups[p]])
    BY DEF BuildProject, Go
<1>2. PICK x : /\ Moves(w, x)
               /\ Notes(x, "build", y.task, y.orgs, y.org, y.ver, y.old, y.todo \ {p}, y.of, y.doc)
    BY <1>0, <1>1, BuildMoves DEF Goes
<1>3. x.pc = "build" /\ x.todo = y.todo \ {p} /\ x.org = y.org /\ x.ver = y.ver /\ x.task = y.task
    BY <1>2 DEF Notes
<1>4. /\ y.todo \subseteq Members(y.org)
      /\ \A q \in Projects \ y.todo : RightFor(q, y.org, y.ver)
    BY <1>0 DEF RebuildOf
<1>5. docs' = [docs EXCEPT ![y.org][y.ver][p] = [rev |-> rev[p], groups |-> groups[p]]]
    BY <1>1, <1>4, MembersExist DEF WriteStore
<1>6. UNCHANGED <<rev, groups>>
    BY DEF BuildProject, db
<1>7. \A q \in Projects : docs'[y.org][y.ver][q].rev = IF q = p THEN rev[p]
                                                       ELSE docs[y.org][y.ver][q].rev
    BY <1>0, <1>5 DEF Types, IndexOK
<1>8. p \in Members(y.org) /\ p \in Projects
    BY <1>4, MembersExist
<1> HIDE DEF y
<1>9. Members(x.org)' = Members(y.org)
    BY <1>3, <1>6 DEF Members
<1>10. RebuildOf(x)'
    <2>1. \A q \in Projects \ x.todo :
             docs'[x.org][x.ver][q].rev = IF q \in Members(x.org)' THEN rev'[q] ELSE 0
        BY <1>3, <1>4, <1>6, <1>7, <1>8, <1>9 DEF RightFor
    <2> QED BY <1>3, <1>4, <1>9, <2>1 DEF RebuildOf, RightFor
<1> QED BY <1>2, <1>3, <1>10 DEF After, y

LEMMA RebuildBuilt ==
    ASSUME Types, NEW w \in Workers, BuildEnds(w) \/ BuildStays(w), RebuildOf(wk[w])
    PROVE  \E x : After(w, x) /\ RebuildOf(x)'
<1> DEFINE y == wk[w]
           a == IF BuildEnds(w) THEN "built" ELSE "swapread"
<1>1. PICK x : Moves(w, x) /\ Notes(x, a, y.task, y.orgs, y.org, y.ver, y.old, y.todo, y.of, y.doc)
    BY RebuildMoves DEF Goes, GoesTo
<1>2. x.pc = a /\ x.todo = y.todo /\ x.org = y.org /\ x.ver = y.ver /\ x.task = y.task
    BY <1>1 DEF Notes
<1>3. UNCHANGED <<rev, groups, job, alias, docs>>
    BY DEF BuildEnds, BuildStays, db, cluster
<1>4. \A q \in Projects \ y.todo : RightFor(q, y.org, y.ver)
    BY DEF BuildEnds, BuildStays, RebuildOf
<1>5. IF BuildEnds(w) THEN y.todo = {} \/ job[y.task.of].cancel ELSE y.todo = {}
    BY DEF BuildEnds, BuildStays, RebuildOf, Cancelled
<1> HIDE DEF y
<1>6. RebuildOf(x)'
    BY <1>2, <1>3, <1>4, <1>5 DEF RebuildOf, Right, RightFor, Members
<1> QED BY <1>1, <1>2, <1>6 DEF After, y

LEMMA RebuildSwapRead ==
    ASSUME Types, NEW w \in Workers, SwapRead(w), RebuildOf(wk[w])
    PROVE  \E x : After(w, x) /\ RebuildOf(x)'
<1> DEFINE y == wk[w]
           s == {<<y.org, v>> : v \in alias[y.org] \ {y.ver}}
<1>1. PICK x : Moves(w, x) /\ Notes(x, "swap", y.task, y.orgs, y.org, y.ver, s, y.todo, y.of, y.doc)
    BY SwapReadMoves DEF Goes
<1>2. x.pc = "swap" /\ x.old = s /\ x.org = y.org /\ x.ver = y.ver /\ x.task = y.task
    BY <1>1 DEF Notes
<1>3. UNCHANGED <<rev, groups, job, alias, docs>>
    BY DEF SwapRead, db, cluster
<1>4. Right(y.org, y.ver)
    BY DEF SwapRead, RebuildOf
<1>5. x.old = {<<x.org, v>> : v \in alias'[x.org] \ {x.ver}}
    BY <1>2, <1>3
<1> HIDE DEF y, s
<1>6. RebuildOf(x)'
    BY <1>2, <1>3, <1>4, <1>5 DEF RebuildOf, Right, RightFor, Members
<1> QED BY <1>1, <1>2, <1>6 DEF After, y

LEMMA RebuildSwap ==
    ASSUME Types, NEW w \in Workers, SwapAlias(w), RebuildOf(wk[w]), Runs(w, "REBUILD")
    PROVE  \E x : After(w, x) /\ RebuildOf(x)'
<1> DEFINE y == wk[w]
<1>0. Sound(y) /\ y.pc = "swap" /\ y.org \in Orgs /\ y.ver \in Versions
    BY WorkerIsSound DEF SwapAlias, Sound, AtOrg, AtStore
<1>1. PICK x : /\ Moves(w, x)
               /\ Notes(x, "delete", y.task, y.orgs, y.org, y.ver, y.old, y.todo, y.of, y.doc)
    BY SwapMoves DEF Goes, GoesTo
<1>2. x.pc = "delete" /\ x.old = y.old /\ x.org = y.org /\ x.ver = y.ver /\ x.task = y.task
    BY <1>1 DEF Notes
<1>3. UNCHANGED <<rev, groups, job, docs>>
    BY DEF SwapAlias, db
<1>4. Right(y.org, y.ver) /\ y.old = {<<y.org, v>> : v \in alias[y.org] \ {y.ver}}
    BY <1>0 DEF RebuildOf
<1>5. alias'[y.org] = (alias[y.org] \ {t[2] : t \in y.old}) \cup {y.ver}
    BY <1>0 DEF SwapAlias, Types, IndexOK
<1>6. \A v : v \in alias[y.org] \ {y.ver} => v \in {t[2] : t \in y.old}
    <2> SUFFICES ASSUME NEW v \in alias[y.org] \ {y.ver} PROVE v \in {t[2] : t \in y.old}
        OBVIOUS
    <2>1. <<y.org, v>> \in y.old /\ <<y.org, v>>[2] = v
        BY <1>4
    <2> HIDE DEF y
    <2> QED BY <2>1
<1>7. alias'[y.org] = {y.ver}
    BY <1>5, <1>6
<1>8. \A t \in y.old : t[1] = y.org /\ t[2] # y.ver
    BY <1>4
<1> HIDE DEF y
<1>9. RebuildOf(x)'
    BY <1>0, <1>2, <1>3, <1>4, <1>7, <1>8 DEF RebuildOf, Right, RightFor, Members
<1> QED BY <1>1, <1>2, <1>9 DEF After, y

LEMMA RebuildDelete ==
    ASSUME Types, NEW w \in Workers, DeleteStore(w), RebuildOf(wk[w])
    PROVE  \E x : After(w, x) /\ RebuildOf(x)'
<1> DEFINE y == wk[w]
<1>0. Sound(y) /\ y.pc = "delete" /\ y.org \in Orgs
    BY WorkerIsSound DEF DeleteStore, Sound, AtOrg, AtStore
<1>1. CASE y.old = {}
    <2>1. GoTo(w, "next")
        BY <1>1 DEF DeleteStore
    <2>2. PICK x : Moves(w, x) /\ x.pc = "next" /\ x.task = y.task
        BY <1>0, <2>1, PcMoves DEF GoesTo, Goes, Notes, AtOrg, AtStore
    <2> QED BY <2>2, RebuildTrivial DEF After
<1>2. CASE y.old # {}
    <2>1. PICK t \in y.old :
             /\ RemoveStore(t[1], t[2])
             /\ wk' = [wk EXCEPT ![w] = [y EXCEPT !.old = @ \ {t}]]
        BY <1>2 DEF DeleteStore, Go
    <2> DEFINE o == y.old \ {t}
               z == [y EXCEPT !.old = o]
    <2>2. Notes(z, y.pc, y.task, y.orgs, y.org, y.ver, o, y.todo, y.of, y.doc)
        <3>1. o \in SUBSET (Stored \cup Projects) /\ y \in WorkerType
            BY <1>0, WorkerIsSound DEF WorkerType
        <3> HIDE DEF y, o
        <3> QED BY <3>1, NoteOld
    <2>3. wk' = [wk EXCEPT ![w] = z]
        BY <2>1
    <2> HIDE DEF z
    <2>4. Sound(z)
        <3> HIDE DEF y
        <3> QED BY <1>0, <2>2 DEF Notes, Sound, AtOrg, AtStore
    <2>5. z.pc = "delete" /\ z.old = o /\ z.org = y.org /\ z.ver = y.ver /\ z.task = y.task
        BY <1>0, <2>2 DEF Notes
    <2>6. /\ Right(y.org, y.ver) /\ y.ver \in Versions /\ alias[y.org] = {y.ver}
          /\ \A u \in y.old : u[1] = y.org /\ u[2] # y.ver
        BY <1>0 DEF RebuildOf
    <2>7. alias'[y.org] = {y.ver} /\ docs'[y.org][y.ver] = docs[y.org][y.ver]
        BY <1>0, <2>1, <2>6 DEF RemoveStore, Types, IndexOK
    <2>8. UNCHANGED <<rev, groups>>
        BY DEF DeleteStore, db
    <2>9. PICK x : x = z
        OBVIOUS
    <2>10. x.pc = "delete" /\ x.old = o /\ x.org = y.org /\ x.ver = y.ver
        BY <2>5, <2>9
    <2>11. After(w, x)
        BY <2>3, <2>4, <2>5, <2>9 DEF After, Moves
    <2> HIDE DEF y
    <2>12. RebuildOf(x)'
        BY <2>6, <2>7, <2>8, <2>10 DEF RebuildOf, Right, RightFor, Members
    <2> QED BY <2>11, <2>12
<1> QED BY <1>1, <1>2

-----------------------------------------------------------------------------
(* A sync, step by step *)

LEMMA SyncTrivial ==
    ASSUME NEW x, x.pc \in {"ack", "targets"} \/ (x.pc = "next" /\ x.org = Nobody)
    PROVE  SyncOf(x)'
    BY DEF SyncOf, SyncSteps

LEMMA JobStep ==
    ASSUME NEW w \in Workers, Runs(w, "SYNC")
    PROVE  /\ IsJob(w) /\ ~Runs(w, "REBUILD") /\ ~Runs(w, "DROP")
           /\ wk[w].task.kind = "job" /\ Ensured(w) = "expect" /\ First(w) = "ensure"
<1>1. IsJob(w) /\ ~Runs(w, "REBUILD") /\ ~Runs(w, "DROP")
    BY DEF Runs
<1> QED BY <1>1, Kinds DEF IsJob, Ensured, First

LEMMA SyncNextOrg ==
    ASSUME Types, NEW w \in Workers, NextOrg(w), Runs(w, "SYNC")
    PROVE  \E x : After(w, x) /\ (SyncOf(x)' \/ InVain(x)')
<1>1. PICK x : Moves(w, x) /\ x.pc = First(w) /\ x.task = wk[w].task /\ x.org \in wk[w].orgs
    BY NextOrgMoves
<1>2. x.org \in Orgs /\ x.pc = "ensure"
    BY <1>1, JobStep, WorkerIsSound DEF WorkerType
<1>4. alias[x.org] \in SUBSET Versions /\ IsFiniteSet(alias[x.org])
    <2>1. alias[x.org] \in SUBSET Versions
        BY <1>2 DEF Types, IndexOK
    <2>2. IsFiniteSet(Versions)
        BY ConstantsAssumption, FS_Interval DEF Versions
    <2> QED BY <2>1, <2>2, FS_Subset
<1>5. Cardinality(alias[x.org]) \in Nat
    BY <1>4, FS_CardinalityType
<1>6. Doubled(x.org) \/ alias[x.org] = {} \/ \E v \in Versions : alias[x.org] = {v}
    <2>1. CASE Cardinality(alias[x.org]) = 0
        BY <1>4, <2>1, FS_EmptySet
    <2>2. CASE Cardinality(alias[x.org]) = 1
        <3>1. PICK v : alias[x.org] = {v}
            BY <1>4, <2>2, FS_Singleton
        <3> QED BY <1>4, <3>1
    <2>3. CASE Cardinality(alias[x.org]) > 1
        BY <2>3 DEF Doubled
    <2> QED BY <1>5, <2>1, <2>2, <2>3
<1>7. UNCHANGED alias
    BY DEF NextOrg, cluster
<1>8. SyncOf(x)' \/ InVain(x)'
    BY <1>2, <1>6, <1>7 DEF SyncOf, SyncSteps, InVain, Doubled
<1> QED BY <1>1, <1>8 DEF After

(* ensure_org_indices and the creation of a first store.                    *)
LEMMA SyncEnsure ==
    ASSUME Types, NEW w \in Workers, Runs(w, "SYNC"), SyncOf(wk[w]),
           Ensure(w) \/ NextVersion(w) \/ CreateStore(w) \/ SwapRead(w) \/ SwapAlias(w)
    PROVE  \E x : After(w, x) /\ SyncOf(x)'
<1> DEFINE y == wk[w]
<1>0. /\ Sound(y) /\ y.pc \in {"ensure", "version", "create", "swapread", "swap"} /\ y.org \in Orgs
      /\ y.pc = "swap" => y.ver \in Versions
    BY WorkerIsSound DEF Ensure, NextVersion, CreateStore, SwapRead, SwapAlias, Sound, AtOrg, AtStore
<1>1. /\ y.pc = "ensure" => alias[y.org] = {} \/ \E v \in Versions : alias[y.org] = {v}
      /\ y.pc # "ensure" => alias[y.org] = {}
      /\ y.pc = "swap" => y.old = {}
    BY <1>0 DEF SyncOf
<1>2. CASE Ensure(w)
    <2>1. PICK a : a = IF alias[y.org] = {} THEN "version" ELSE "expect"
        OBVIOUS
    <2>2. PICK x : Moves(w, x) /\ x.pc = a /\ x.org = y.org /\ x.task = y.task
        BY <1>2, <2>1, EnsureMoves, JobStep DEF GoesTo, Goes, Notes
    <2>3. y.pc = "ensure" /\ UNCHANGED alias
        BY <1>2 DEF Ensure, cluster
    <2>4. SyncOf(x)'
        BY <1>1, <2>1, <2>2, <2>3 DEF SyncOf, SyncSteps
    <2> QED BY <2>2, <2>4 DEF After
<1>3. CASE NextVersion(w)
    <2>1. PICK x : Moves(w, x) /\ x.pc = "create" /\ x.org = y.org /\ x.task = y.task
        BY <1>3, VersionMoves DEF Goes, Notes
    <2>2. y.pc = "version" /\ UNCHANGED alias
        BY <1>3 DEF NextVersion, cluster
    <2>3. SyncOf(x)'
        BY <1>1, <2>1, <2>2 DEF SyncOf, SyncSteps
    <2> QED BY <2>1, <2>3 DEF After
<1>4. CASE CreateStore(w)
    <2>1. PICK x : Moves(w, x) /\ x.pc = "swapread" /\ x.org = y.org /\ x.task = y.task
        BY <1>4, CreateMoves, JobStep DEF GoesTo, Goes, Notes
    <2>2. y.pc = "create" /\ UNCHANGED alias
        BY <1>4 DEF CreateStore
    <2>3. SyncOf(x)'
        BY <1>1, <2>1, <2>2 DEF SyncOf, SyncSteps
    <2> QED BY <2>1, <2>3 DEF After
<1>5. CASE SwapRead(w)
    <2>1. PICK x : /\ Moves(w, x) /\ x.pc = "swap" /\ x.org = y.org /\ x.task = y.task
                   /\ x.old = {<<y.org, v>> : v \in alias[y.org] \ {y.ver}}
        BY <1>5, SwapReadMoves DEF Goes, Notes
    <2>2. y.pc = "swapread" /\ UNCHANGED alias
        BY <1>5 DEF SwapRead, cluster
    <2>3. x.old = {}
        BY <1>1, <2>1, <2>2
    <2>4. SyncOf(x)'
        BY <1>1, <2>1, <2>2, <2>3 DEF SyncOf, SyncSteps
    <2> QED BY <2>1, <2>4 DEF After
<1>6. CASE SwapAlias(w)
    <2>1. PICK x : Moves(w, x) /\ x.pc = "expect" /\ x.org = y.org /\ x.task = y.task
        BY <1>6, SwapMoves, JobStep DEF GoesTo, Goes, Notes
    <2>2. y.pc = "swap" /\ alias'[y.org] = (alias[y.org] \ {t[2] : t \in y.old}) \cup {y.ver}
        BY <1>0, <1>6 DEF SwapAlias, Types, IndexOK
    <2>3. alias'[x.org] = {y.ver} /\ y.ver \in Versions
        BY <1>0, <1>1, <2>1, <2>2
    <2>4. SyncOf(x)'
        BY <2>1, <2>3 DEF SyncOf, SyncSteps
    <2> QED BY <2>1, <2>4 DEF After
<1> QED BY <1>2, <1>3, <1>4, <1>5, <1>6

(* index_drift                                                              *)
LEMMA SyncExpect ==
    ASSUME Types, NEW w \in Workers, SyncOf(wk[w]), Expect(w)
    PROVE  \E x : After(w, x) /\ SyncOf(x)'
<1> DEFINE y == wk[w]
           d == {<<p, rev[p]>> : p \in Members(y.org)}
<1>1. PICK x : Moves(w, x) /\ Notes(x, "scan", y.task, y.orgs, y.org, y.ver, y.old, d, y.of, y.doc)
    BY ExpectMoves DEF Goes
<1>2. x.pc = "scan" /\ x.org = y.org /\ x.task = y.task /\ x.todo = d
    BY <1>1 DEF Notes
<1>3. \E v \in Versions : alias[x.org] = {v}
    BY <1>2 DEF Expect, SyncOf
<1>4. UNCHANGED <<rev, groups, alias>>
    BY DEF Expect, db, cluster
<1>5. x.todo = {<<p, rev[p]>> : p \in Members(x.org)}
    BY <1>2
<1> HIDE DEF y, d
<1>6. Members(x.org)' = Members(x.org)
    BY <1>4 DEF Members
<1>7. x.todo = {<<p, rev'[p]>> : p \in Members(x.org)'}
    BY <1>4, <1>5, <1>6
<1>8. SyncOf(x)'
    BY <1>2, <1>3, <1>4, <1>7 DEF SyncOf, SyncSteps
<1> QED BY <1>1, <1>2, <1>8 DEF After, y

(* What the scan finds is what is wrong.                                    *)
LEMMA ScanFinds ==
    ASSUME Types, NEW w \in Workers, NEW o \in Orgs, o = wk[w].org, NEW v \in Versions,
           alias[o] = {v}, wk[w].todo = {<<p, rev[p]>> : p \in Members(o)}
    PROVE  /\ {e[1] : e \in Missing(w) \cup Stale(w)} \subseteq Members(o)
           /\ \A p \in Orphaned(w) : p \notin Members(o)
           /\ \A p \in Projects :
                 \/ p \in {e[1] : e \in Missing(w) \cup Stale(w)} \/ p \in Orphaned(w)
                 \/ RightFor(p, o, v)
<1> DEFINE d == {e[1] : e \in Missing(w) \cup Stale(w)}
<1>1. \A e \in wk[w].todo : e[1] \in Members(o)
    OBVIOUS
<1>2. d \subseteq Members(o)
    BY <1>1 DEF Missing, Stale
<1>3. \A p \in Members(o) : <<p, rev[p]>> \in wk[w].todo /\ <<p, rev[p]>>[1] = p
    OBVIOUS
<1>4. \A p \in Orphaned(w) : p \notin Members(o)
    BY <1>3 DEF Orphaned
<1>5. \A p \in Projects : Indexed(o, p) = {docs[o][v][p].rev} \ {0}
    BY DEF Indexed
<1>6. ASSUME NEW p \in Projects, p \notin d, p \notin Orphaned(w) PROVE RightFor(p, o, v)
    <2>1. CASE p \in Members(o)
        <3> DEFINE e == <<p, rev[p]>>
        <3>1. e \in wk[w].todo /\ e[1] = p /\ e[2] = rev[p]
            BY <2>1
        <3>2. e \notin Missing(w) /\ e \notin Stale(w)
            BY <1>6, <3>1
        <3> HIDE DEF e
        <3>3. Indexed(o, p) = {rev[p]}
            BY <3>1, <3>2 DEF Missing, Stale
        <3>4. docs[o][v][p].rev = rev[p]
            BY <1>5, <3>3
        <3> QED BY <2>1, <3>4 DEF RightFor
    <2>2. CASE p \notin Members(o)
        <3>1. \A e \in wk[w].todo : e[1] # p
            BY <1>1, <2>2
        <3>2. Indexed(o, p) = {}
            BY <1>6, <3>1 DEF Orphaned
        <3>3. docs[o][v][p].rev = 0
            BY <1>5, <3>2
        <3> QED BY <2>2, <3>3 DEF RightFor
    <2> QED BY <2>1, <2>2
<1> HIDE DEF d
<1>7. \A p \in Projects : p \in d \/ p \in Orphaned(w) \/ RightFor(p, o, v)
    BY <1>6
<1> QED BY <1>2, <1>4, <1>7 DEF d

LEMMA SyncScan ==
    ASSUME Types, NEW w \in Workers, SyncOf(wk[w]), Scan(w)
    PROVE  \E x : After(w, x) /\ SyncOf(x)'
<1> DEFINE y == wk[w]
           s == Orphaned(w)
           d == {e[1] : e \in Missing(w) \cup Stale(w)}
<1>0. Sound(y) /\ y.pc = "scan" /\ y.org \in Orgs
    BY WorkerIsSound DEF Scan, Sound, AtOrg
<1>1. /\ y.todo = {<<p, rev[p]>> : p \in Members(y.org)}
      /\ \E v \in Versions : alias[y.org] = {v}
    BY <1>0 DEF SyncOf
<1>2. PICK v \in Versions : alias[y.org] = {v}
    BY <1>1
<1>3. PICK x : Moves(w, x) /\ Notes(x, "update", y.task, y.orgs, y.org, y.ver, s, d, y.of, y.doc)
    BY <1>2, ScanMoves DEF Goes
<1>4. x.pc = "update" /\ x.org = y.org /\ x.task = y.task /\ x.todo = d /\ x.old = s
    BY <1>3 DEF Notes
<1>5. /\ d \subseteq Members(y.org) /\ \A p \in s : p \notin Members(y.org)
      /\ \A p \in Projects : p \in d \/ p \in s \/ RightFor(p, y.org, v)
    BY <1>0, <1>1, <1>2, ScanFinds
<1>6. UNCHANGED <<rev, groups, alias, docs>>
    BY DEF Scan, db, cluster
<1> HIDE DEF y, s, d
<1>7. Members(x.org)' = Members(x.org)
    BY <1>6 DEF Members
<1>8. \A p \in Projects : RightFor(p, x.org, v)' <=> RightFor(p, x.org, v)
    BY <1>6, <1>7 DEF RightFor
<1>9. SyncOf(x)'
    BY <1>2, <1>4, <1>5, <1>6, <1>7, <1>8 DEF SyncOf, SyncSteps
<1> QED BY <1>3, <1>4, <1>9 DEF After, y

(* The loop over the drifted pages                                          *)
LEMMA SyncUpdate ==
    ASSUME Types, NEW w \in Workers, SyncOf(wk[w]), Update(w)
    PROVE  \E x : After(w, x) /\ SyncOf(x)'
<1> DEFINE y == wk[w]
<1>0. Sound(y) /\ y.pc = "update" /\ y.org \in Orgs
    BY WorkerIsSound DEF Update, Sound, AtOrg
<1>1. /\ y.todo \subseteq Members(y.org) /\ \A p \in y.old : p \notin Members(y.org)
      /\ \A u \in alias[y.org], p \in Projects :
            p \in y.todo \/ p \in y.old \/ RightFor(p, y.org, u)
    BY <1>0 DEF SyncOf
<1>2. PICK v \in Versions : alias[y.org] = {v}
    BY <1>0 DEF SyncOf
<1>3. UNCHANGED <<rev, groups, alias, docs>>
    BY DEF Update, db, cluster
<1>4. CASE y.todo = {}
    <2>1. PICK x : /\ Moves(w, x)
                   /\ Notes(x, "orphans", y.task, y.orgs, y.org, y.ver, y.old, y.todo, y.of, y.doc)
        BY <1>4, UpdateMoves DEF GoesTo, Goes
    <2>2. x.pc = "orphans" /\ x.org = y.org /\ x.task = y.task /\ x.todo = {} /\ x.old = y.old
        BY <1>4, <2>1 DEF Notes
    <2> HIDE DEF y
    <2>3. \A p \in Projects : RightFor(p, x.org, v)' <=> RightFor(p, x.org, v)
        BY <1>3 DEF RightFor, Members
    <2>4. Members(x.org)' = Members(x.org)
        BY <1>3 DEF Members
    <2>5. SyncOf(x)'
        BY <1>1, <1>2, <1>3, <1>4, <2>2, <2>3, <2>4 DEF SyncOf, SyncSteps
    <2> QED BY <2>1, <2>2, <2>5 DEF After, y
<1>5. CASE y.todo # {}
    <2>1. PICK p \in y.todo :
             /\ p \in Projects
             /\ Goes(w, IF groups[p] = {} \/ rev[p] = 0 THEN "update" ELSE "write",
                     y.orgs, y.org, y.ver, y.old, y.todo \ {p}, p,
                     [rev |-> rev[p], groups |-> groups[p]])
        BY <1>5, UpdateMoves
    <2>2. p \in Members(y.org) /\ groups[p] # {} /\ rev[p] # 0
        BY <1>1, <2>1, MembersExist
    <2>3. PICK x : /\ Moves(w, x)
                   /\ Notes(x, "write", y.task, y.orgs, y.org, y.ver, y.old, y.todo \ {p}, p,
                            [rev |-> rev[p], groups |-> groups[p]])
        BY <2>1, <2>2 DEF Goes
    <2>4. x.pc = "write" /\ x.org = y.org /\ x.task = y.task /\ x.todo = y.todo \ {p} /\ x.old = y.old
          /\ x.of = p /\ x.doc.rev = rev[p]
        BY <2>3 DEF Notes
    <2> HIDE DEF y
    <2>5. \A q \in Projects : RightFor(q, x.org, v)' <=> RightFor(q, x.org, v)
        BY <1>3 DEF RightFor, Members
    <2>6. Members(x.org)' = Members(x.org)
        BY <1>3 DEF Members
    <2>7. \A q \in Projects : \/ q \in x.todo \/ q \in x.old \/ q = x.of \/ RightFor(q, x.org, v)'
        BY <1>1, <1>2, <2>4, <2>5
    <2>8. SyncOf(x)'
        BY <1>1, <1>2, <1>3, <2>2, <2>4, <2>6, <2>7 DEF SyncOf, SyncSteps
    <2> QED BY <2>3, <2>4, <2>8 DEF After, y
<1> QED BY <1>4, <1>5

LEMMA SyncWrite ==
    ASSUME Types, NEW w \in Workers, Runs(w, "SYNC"), SyncOf(wk[w]), WritePage(w)
    PROVE  \E x : After(w, x) /\ SyncOf(x)'
<1> DEFINE y == wk[w]
<1>0. Sound(y) /\ y.pc = "write" /\ y.org \in Orgs /\ y.of \in Projects
    BY WorkerIsSound DEF WritePage, Sound, AtOrg
<1>1. CASE EndFailed(w)
    <2>1. PICK x : Moves(w, x) /\ x.pc = "ack" /\ x.task = wk[w].task
        BY <1>0, <1>1, OverMoves DEF EndFailed
    <2> QED BY <2>1, SyncTrivial DEF After
<1>2. CASE ~EndFailed(w)
    <2>1. PICK x : /\ Moves(w, x)
                   /\ Notes(x, "update", y.task, y.orgs, y.org, y.ver, y.old, y.todo, y.of, y.doc)
        BY <1>2, WriteMoves, JobStep DEF GoesTo, Goes
    <2>2. x.pc = "update" /\ x.org = y.org /\ x.task = y.task /\ x.todo = y.todo /\ x.old = y.old
        BY <2>1 DEF Notes
    <2>3. /\ y.todo \subseteq Members(y.org) /\ \A p \in y.old : p \notin Members(y.org)
          /\ \A u \in alias[y.org], p \in Projects :
                p \in y.todo \/ p \in y.old \/ p = y.of \/ RightFor(p, y.org, u)
          /\ y.of \in Members(y.org) /\ y.doc.rev = rev[y.of]
        BY <1>0 DEF SyncOf
    <2>4. PICK v \in Versions : alias[y.org] = {v}
        BY <1>0 DEF SyncOf
    <2>5. UNCHANGED <<rev, groups, alias>>
        BY DEF WritePage
    <2> DEFINE D == [u \in Versions |-> IF alias[y.org] = {u} THEN [docs[y.org][u] EXCEPT ![y.of] = y.doc]
                                         ELSE docs[y.org][u]]
    <2>6. docs' = [docs EXCEPT ![y.org] = D]
        BY DEF WritePage, WriteAlias
    <2>7. docs'[y.org] = D
        <3> HIDE DEF D
        <3> QED BY <1>0, <2>6 DEF Types, IndexOK
    <2>8. D[v] = [docs[y.org][v] EXCEPT ![y.of] = y.doc]
        BY <2>4
    <2>9. \A p \in Projects : docs'[y.org][v][p].rev = IF p = y.of THEN rev[y.of] ELSE docs[y.org][v][p].rev
        <3> HIDE DEF D
        <3> QED BY <1>0, <2>3, <2>7, <2>8 DEF Types, IndexOK
    <2> HIDE DEF y, D
    <2>10. Members(x.org)' = Members(y.org)
        BY <2>2, <2>5 DEF Members
    <2>11. \A p \in Projects : p \in x.todo \/ p \in x.old \/ RightFor(p, x.org, v)'
        BY <2>2, <2>3, <2>4, <2>5, <2>9, <2>10 DEF RightFor
    <2>12. SyncOf(x)'
        BY <2>2, <2>3, <2>4, <2>5, <2>10, <2>11 DEF SyncOf, SyncSteps
    <2> QED BY <2>1, <2>2, <2>12 DEF After, y
<1> QED BY <1>1, <1>2

LEMMA SyncOrphans ==
    ASSUME Types, NEW w \in Workers, SyncOf(wk[w]), DeleteOrphans(w)
    PROVE  \E x : After(w, x) /\ SyncOf(x)'
<1> DEFINE y == wk[w]
<1>0. Sound(y) /\ y.pc = "orphans" /\ y.org \in Orgs
    BY WorkerIsSound DEF DeleteOrphans, Sound, AtOrg
<1>1. PICK x : Moves(w, x) /\ x.pc = "next" /\ x.org = y.org /\ x.task = y.task
    BY RebuildMoves DEF GoesTo, Goes, Notes
<1>2. /\ \A p \in y.old : p \notin Members(y.org)
      /\ \A u \in alias[y.org], p \in Projects : p \in y.old \/ RightFor(p, y.org, u)
    BY <1>0 DEF SyncOf
<1>3. PICK v \in Versions : alias[y.org] = {v}
    BY <1>0 DEF SyncOf
<1>4. UNCHANGED <<rev, groups, alias>>
    BY DEF DeleteOrphans, db
<1> DEFINE B == [p \in Projects |-> IF p \in y.old THEN Blank ELSE docs[y.org][v][p]]
           D == [u \in Versions |->
                   IF u \in alias[y.org]
                   THEN [p \in Projects |-> IF p \in y.old THEN Blank ELSE docs[y.org][u][p]]
                   ELSE docs[y.org][u]]
<1>5. docs' = [docs EXCEPT ![y.org] = D]
    BY DEF DeleteOrphans
<1>6. docs'[y.org] = D
    <2> HIDE DEF D
    <2> QED BY <1>0, <1>5 DEF Types, IndexOK
<1>7. D[v] = B
    BY <1>3
<1>8. \A p \in Projects : docs'[y.org][v][p].rev = IF p \in y.old THEN 0 ELSE docs[y.org][v][p].rev
    <2>1. \A p \in Projects : B[p].rev = IF p \in y.old THEN 0 ELSE docs[y.org][v][p].rev
        BY DEF Blank
    <2> HIDE DEF D, B
    <2> QED BY <1>6, <1>7, <2>1
<1> HIDE DEF y, D, B
<1>9. Members(x.org)' = Members(y.org)
    BY <1>1, <1>4 DEF Members
<1>10. \A p \in Projects : RightFor(p, x.org, v)'
    BY <1>1, <1>2, <1>3, <1>4, <1>8, <1>9 DEF RightFor
<1>11. InSync(x.org)'
    BY <1>1, <1>3, <1>4, <1>10 DEF InSync, RightFor
<1>12. SyncOf(x)'
    BY <1>1, <1>11 DEF SyncOf, SyncSteps
<1> QED BY <1>1, <1>12 DEF After, y

-----------------------------------------------------------------------------
(* Together *)

HeldBy(w) ==
    /\ Runs(w, "REBUILD") => RebuildOf(wk[w])
    /\ Runs(w, "SYNC") => SyncOf(wk[w]) \/ InVain(wk[w])

LEMMA LoneAfter ==
    ASSUME Types, NEW w \in Workers, NEW x, After(w, x), job'[x.task.of].type = job[x.task.of].type,
           solo' \in {w, Nobody},
           Runs(w, "REBUILD") => RebuildOf(x)', Runs(w, "SYNC") => SyncOf(x)' \/ InVain(x)'
    PROVE  LoneInv'
<1>1. wk'[w] = x
    BY MovesKeep DEF After, Types
<1>2. \A v \in Workers : solo' = v => v = w
    BY ConstantsAssumption
<1>3. Runs(w, "REBUILD")' => RebuildOf(wk[w])'
    <2>1. Runs(w, "REBUILD")' => Runs(w, "REBUILD")
        BY <1>1 DEF After, Runs, IsJob
    <2>2. RebuildOf(x)' => RebuildOf(wk[w])'
        BY <1>1 DEF RebuildOf, Right, RightFor, Members
    <2> QED BY <2>1, <2>2
<1>4. Runs(w, "SYNC")' => SyncOf(wk[w])' \/ InVain(wk[w])'
    <2>1. Runs(w, "SYNC")' => Runs(w, "SYNC")
        BY <1>1 DEF After, Runs, IsJob
    <2>2. SyncOf(x)' => SyncOf(wk[w])'
        BY <1>1 DEF SyncOf, InSync, RightFor, Members
    <2>3. InVain(x)' => InVain(wk[w])'
        BY <1>1 DEF InVain, Doubled
    <2> QED BY <2>1, <2>2, <2>3
<1> QED BY <1>2, <1>3, <1>4 DEF LoneInv

LEMMA LoneNone == ASSUME Types, solo' = Nobody PROVE LoneInv'
    BY ConstantsAssumption DEF LoneInv

(* Who is alone was so before, or takes up an organization.                 *)
LEMMA WhoIsAlone ==
    ASSUME Types, NEW w \in Workers, Work(w) \/ Faults(w), ~Redeliver(w)
    PROVE  /\ solo' \in {w, Nobody}
           /\ solo' = w => solo = w \/ NextOrg(w)
           /\ solo' = w => Work(w) \/ Raise(w)
<1>0. w # Nobody
    BY ConstantsAssumption
<1>1. CASE NextOrg(w)
    <2>1. solo' \in {w, Nobody}
        BY <1>1 DEF NextOrg
    <2> QED BY <1>0, <1>1, <2>1 DEF Work
<1>2. CASE (Work(w) /\ ~NextOrg(w)) \/ Raise(w)
    <2>1. solo' = IF solo = w THEN w ELSE Nobody
        BY <1>2 DEF Work, Lifecycle, Rebuild, Sync, Hooks, Take, RunNow, Begin, Targets,
           EndCancelled, EndTask, Ack, Ensure, NextVersion, CreateStore, CreateFails,
           SwapRead, SwapAlias, SwapFails, ListStores, DeleteStore, BuildProject, BuildEnds,
           BuildStays, BuildGoes, Expect, Scan, Update, DeleteOrphans, PageStart,
           ProjectStart, ClearStore, ReadPage, WritePage, Raise, EndFailed, Over, GoTo, Go
    <2> QED BY <1>0, <1>2, <2>1
<1>3. CASE BulkWriteFails(w) \/ LookupFails(w) \/ Crash(w) \/ Killed(w)
    BY <1>0, <1>3 DEF BulkWriteFails, LookupFails, Crash, Killed
<1> QED BY <1>1, <1>2, <1>3 DEF Faults

LEMMA RebuildAlone ==
    ASSUME Types, NEW w \in Workers, Work(w) \/ Raise(w), wk[w].pc # "idle", ~Ack(w),
           Runs(w, "REBUILD"), NextOrg(w) \/ RebuildOf(wk[w])
    PROVE  \E x : After(w, x) /\ RebuildOf(x)'
<1>0. Sound(wk[w]) /\ IsJob(w) /\ wk[w].task \notin HookTasks
    BY WorkerIsSound, Kinds DEF Runs, IsJob
<1>1. CASE NextOrg(w)
    <2>1. PICK x : Moves(w, x) /\ x.pc = First(w) /\ x.task = wk[w].task
        BY <1>1, NextOrgMoves
    <2>2. x.pc = "version"
        BY <2>1 DEF First
    <2> QED BY <2>1, <2>2, RebuildTrivial DEF After
<1>2. CASE EndCancelled(w) \/ EndTask(w) \/ CreateFails(w) \/ SwapFails(w) \/ Raise(w)
           \/ EndFailed(w)
    <2>1. Over(w)
        BY <1>2 DEF EndCancelled, EndTask, CreateFails, SwapFails, Raise, EndFailed
    <2>2. PICK x : Moves(w, x) /\ x.pc = "ack" /\ x.task = wk[w].task
        BY <2>1, OverMoves
    <2> QED BY <2>2, RebuildTrivial DEF After
<1>3. CASE Targets(w)
    BY <1>3, TargetsMoves, RebuildTrivial DEF After
<1>4. CASE Lifecycle(w) /\ ~CreateFails(w) /\ ~SwapFails(w) /\ ~NextOrg(w)
    <2>1. CASE Ensure(w)
        <3>1. PICK a : a = IF alias[wk[w].org] = {} THEN "version" ELSE Ensured(w)
            OBVIOUS
        <3>2. a \in {"version", "expect"}
            BY <1>0, <2>1, <3>1, EnsuredSteps DEF Ensure, AtOrg
        <3>3. PICK x : Moves(w, x) /\ x.pc = a /\ x.task = wk[w].task
            BY <2>1, <3>1, EnsureMoves DEF GoesTo, Goes, Notes
        <3> QED BY <3>2, <3>3, RebuildTrivial DEF After
    <2>2. CASE NextVersion(w)
        <3>1. PICK x : Moves(w, x) /\ x.pc = "create" /\ x.task = wk[w].task
            BY <2>2, VersionMoves DEF Goes, Notes
        <3> QED BY <3>1, RebuildTrivial DEF After
    <2>3. ~ListStores(w)
        BY <1>4 DEF ListStores, RebuildOf, NextOrg
    <2> QED BY <1>4, <2>1, <2>2, <2>3, RebuildCreate, RebuildSwapRead, RebuildSwap, RebuildDelete
            DEF Lifecycle
<1>5. CASE Rebuild(w) /\ ~NextOrg(w)
    <2>1. CASE BuildGoes(w)
        <3>1. PICK x : Moves(w, x) /\ x.pc = "next" /\ x.task = wk[w].task
            BY <2>1, RebuildMoves DEF GoesTo, Goes, Notes
        <3> QED BY <3>1, RebuildTrivial DEF After
    <2> QED BY <1>5, <2>1, RebuildBuild, RebuildBuilt DEF Rebuild
<1>6. CASE Sync(w)
    <2>1. CASE Expect(w)
        <3>1. PICK x : Moves(w, x) /\ x.pc = "scan" /\ x.task = wk[w].task
            BY <2>1, ExpectMoves DEF Goes, Notes
        <3> QED BY <3>1, RebuildTrivial DEF After
    <2>2. CASE Scan(w)
        <3>1. PICK x : Moves(w, x) /\ x.pc \in {"next", "update"} /\ x.task = wk[w].task
            BY <2>2, ScanMoves DEF GoesTo, Goes, Notes
        <3> QED BY <3>1, RebuildTrivial DEF After
    <2>3. CASE Update(w)
        <3>1. PICK x : Moves(w, x) /\ x.pc \in {"orphans", "update", "write"} /\ x.task = wk[w].task
            BY <2>3, UpdateMoves DEF GoesTo, Goes, Notes
        <3> QED BY <3>1, RebuildTrivial DEF After
    <2>4. CASE DeleteOrphans(w)
        <3>1. PICK x : Moves(w, x) /\ x.pc = "next" /\ x.task = wk[w].task
            BY <2>4, RebuildMoves DEF GoesTo, Goes, Notes
        <3> QED BY <3>1, RebuildTrivial DEF After
    <2> QED BY <1>6, <2>1, <2>2, <2>3, <2>4 DEF Sync
<1>7. CASE Hooks(w) /\ ~EndFailed(w)
    <2>1. ~PageStart(w) /\ ~ProjectStart(w) /\ ~ReadPage(w)
        BY <1>0, HookMoves
    <2>2. ~ClearStore(w)
        BY <1>0 DEF ClearStore, Sound
    <2>3. GoesTo(w, "update")
        BY <1>0, <1>7, <2>1, <2>2, WriteMoves DEF Hooks
    <2>4. PICK x : Moves(w, x) /\ x.pc = "update" /\ x.task = wk[w].task
        BY <2>3 DEF GoesTo, Goes, Notes
    <2> QED BY <2>4, RebuildTrivial DEF After
<1>8. ~Take(w) /\ ~RunNow(w)
    BY DEF Take, RunNow, Begin
<1> QED BY <1>1, <1>2, <1>3, <1>4, <1>5, <1>6, <1>7, <1>8 DEF Work

(* A sync of a doubled alias gets to its end without touching the alias.    *)
LEMMA VainSteps ==
    ASSUME Types, NEW w \in Workers, Runs(w, "SYNC"), InVain(wk[w]), UNCHANGED alias,
           NEW x, Moves(w, x), x.task = wk[w].task,
           \/ x.pc = "ack"
           \/ x.org = wk[w].org /\ x.pc \in {"next", "ensure", "expect", "scan", "update", "write", "orphans"}
    PROVE  After(w, x) /\ (SyncOf(x)' \/ InVain(x)')
<1>1. CASE x.pc = "ack"
    BY <1>1, SyncTrivial DEF After
<1>2. CASE x.org = wk[w].org /\ x.pc # "ack"
    BY <1>2 DEF After, InVain, Doubled
<1> QED BY <1>1, <1>2

LEMMA SyncInVain ==
    ASSUME Types, NEW w \in Workers, Work(w) \/ Raise(w), Runs(w, "SYNC"), InVain(wk[w]), ~NextOrg(w)
    PROVE  \E x : After(w, x) /\ (SyncOf(x)' \/ InVain(x)')
<1>0. /\ alias[wk[w].org] # {} /\ First(w) = "ensure" /\ Ensured(w) = "expect" /\ IsJob(w)
      /\ wk[w].pc \in {"next", "ensure", "expect", "scan", "update", "write", "orphans"}
    BY JobStep, FS_EmptySet DEF InVain, Doubled
<1>1. CASE EndCancelled(w) \/ EndTask(w) \/ Raise(w) \/ (WritePage(w) /\ EndFailed(w))
    <2>1. Over(w) /\ UNCHANGED alias
        BY <1>0, <1>1 DEF EndCancelled, EndTask, Raise, EndFailed, WritePage, cluster
    <2>2. PICK x : Moves(w, x) /\ x.pc = "ack" /\ x.task = wk[w].task
        BY <1>0, <2>1, OverMoves
    <2> QED BY <2>1, <2>2, VainSteps
<1>2. CASE Ensure(w)
    <2>1. UNCHANGED alias
        BY <1>2 DEF Ensure, cluster
    <2>2. PICK x : Moves(w, x) /\ x.pc = "expect" /\ x.task = wk[w].task /\ x.org = wk[w].org
        BY <1>0, <1>2, EnsureMoves DEF GoesTo, Goes, Notes
    <2> QED BY <2>1, <2>2, VainSteps
<1>3. CASE Expect(w)
    <2>1. UNCHANGED alias
        BY <1>3 DEF Expect, cluster
    <2>2. PICK x : Moves(w, x) /\ x.pc = "scan" /\ x.task = wk[w].task /\ x.org = wk[w].org
        BY <1>3, ExpectMoves DEF Goes, Notes
    <2> QED BY <2>1, <2>2, VainSteps
<1>4. CASE Scan(w)
    <2>1. UNCHANGED alias
        BY <1>4 DEF Scan, cluster
    <2>2. PICK x : Moves(w, x) /\ x.pc = "update" /\ x.task = wk[w].task /\ x.org = wk[w].org
        BY <1>0, <1>4, ScanMoves DEF Goes, Notes
    <2> QED BY <2>1, <2>2, VainSteps
<1>5. CASE Update(w)
    <2>1. UNCHANGED alias
        BY <1>5 DEF Update, cluster
    <2>2. PICK x : /\ Moves(w, x) /\ x.task = wk[w].task /\ x.org = wk[w].org
                   /\ x.pc \in {"orphans", "update", "write"}
        BY <1>5, UpdateMoves DEF GoesTo, Goes, Notes
    <2> QED BY <2>1, <2>2, VainSteps
<1>6. CASE DeleteOrphans(w)
    <2>1. UNCHANGED alias
        BY <1>6 DEF DeleteOrphans
    <2>2. PICK x : Moves(w, x) /\ x.pc = "next" /\ x.task = wk[w].task /\ x.org = wk[w].org
        BY <1>6, RebuildMoves DEF GoesTo, Goes, Notes
    <2> QED BY <2>1, <2>2, VainSteps
<1>7. CASE WritePage(w) /\ ~EndFailed(w)
    <2>1. UNCHANGED alias
        BY <1>7 DEF WritePage
    <2>2. PICK x : Moves(w, x) /\ x.pc = "update" /\ x.task = wk[w].task /\ x.org = wk[w].org
        BY <1>0, <1>7, WriteMoves DEF GoesTo, Goes, Notes
    <2> QED BY <2>1, <2>2, VainSteps
<1>8. /\ ~Take(w) /\ ~RunNow(w) /\ ~Targets(w) /\ ~Ack(w)
      /\ ~NextVersion(w) /\ ~CreateStore(w) /\ ~CreateFails(w) /\ ~SwapRead(w) /\ ~SwapAlias(w)
      /\ ~SwapFails(w) /\ ~ListStores(w) /\ ~DeleteStore(w) /\ ~Rebuild(w)
      /\ ~PageStart(w) /\ ~ProjectStart(w) /\ ~ClearStore(w) /\ ~ReadPage(w)
    BY <1>0 DEF Take, RunNow, Begin, Targets, Ack, NextVersion, CreateStore, CreateFails, SwapRead,
       SwapAlias, SwapFails, ListStores, DeleteStore, Rebuild, BuildProject, BuildEnds, BuildStays,
       BuildGoes, PageStart, ProjectStart, ClearStore, ReadPage
<1> QED BY <1>1, <1>2, <1>3, <1>4, <1>5, <1>6, <1>7, <1>8 DEF Work, Lifecycle, Sync, Hooks

LEMMA SyncAlone ==
    ASSUME Types, NEW w \in Workers, Work(w) \/ Raise(w), wk[w].pc # "idle", ~Ack(w),
           Runs(w, "SYNC"), NextOrg(w) \/ SyncOf(wk[w]) \/ InVain(wk[w])
    PROVE  \E x : After(w, x) /\ (SyncOf(x)' \/ InVain(x)')
<1>1. CASE NextOrg(w)
    BY <1>1, SyncNextOrg
<1>9. CASE InVain(wk[w]) /\ ~NextOrg(w)
    BY <1>9, SyncInVain
<1>2. CASE EndCancelled(w) \/ EndTask(w) \/ CreateFails(w) \/ SwapFails(w) \/ Raise(w)
    <2>1. Over(w)
        BY <1>2 DEF EndCancelled, EndTask, CreateFails, SwapFails, Raise, EndFailed
    <2>2. PICK x : Moves(w, x) /\ x.pc = "ack" /\ x.task = wk[w].task
        BY <2>1, OverMoves
    <2> QED BY <2>2, SyncTrivial DEF After
<1>3. CASE Targets(w)
    BY <1>3, TargetsMoves, SyncTrivial DEF After
<1>4. ASSUME SyncOf(wk[w])
      PROVE  /\ ~ListStores(w) /\ ~DeleteStore(w) /\ ~Rebuild(w)
             /\ ~PageStart(w) /\ ~ProjectStart(w) /\ ~ClearStore(w) /\ ~ReadPage(w)
    BY <1>4 DEF SyncOf, SyncSteps, ListStores, DeleteStore, Rebuild, BuildProject, BuildEnds,
       BuildStays, BuildGoes, PageStart, ProjectStart, ClearStore, ReadPage
<1>5. CASE SyncOf(wk[w]) /\ Lifecycle(w) /\ ~CreateFails(w) /\ ~SwapFails(w)
    BY <1>4, <1>5, SyncEnsure DEF Lifecycle
<1>6. CASE SyncOf(wk[w]) /\ Sync(w)
    BY <1>6, SyncExpect, SyncScan, SyncUpdate, SyncOrphans DEF Sync
<1>7. CASE SyncOf(wk[w]) /\ Hooks(w)
    BY <1>4, <1>7, SyncWrite DEF Hooks
<1>8. ~Take(w) /\ ~RunNow(w)
    BY DEF Take, RunNow, Begin
<1> QED BY <1>1, <1>2, <1>3, <1>4, <1>5, <1>6, <1>7, <1>8, <1>9 DEF Work

LEMMA LoneWorks ==
    ASSUME Types, LoneInv, NEW w \in Workers, Work(w) \/ Faults(w), ~Redeliver(w)
    PROVE  LoneInv'
<1>1. CASE solo' # w
    BY <1>1, WhoIsAlone, LoneNone
<1>2. CASE solo' = w
    <2>1. (solo = w \/ NextOrg(w)) /\ (Work(w) \/ Raise(w))
        BY <1>2, WhoIsAlone
    <2>2. CASE Take(w) \/ RunNow(w)
        <3>1. PICK x : Moves(w, x) /\ x.pc \in {"targets", "page", "project", "removal"} /\ x.org = Nobody
            BY <2>2, TakeMoves
        <3>2. wk'[w] = x /\ Sound(x)
            BY <3>1, MovesKeep DEF Types, Moves
        <3>3. \A v \in Workers : solo' = v => v = w
            BY <1>2
        <3>4. RebuildOf(x)'
            BY <3>1, RebuildTrivial
        <3>5. Runs(w, "SYNC")' => x.pc = "targets"
            BY <3>1, <3>2, Kinds DEF Runs, IsJob, Sound
        <3>6. Runs(w, "SYNC")' => SyncOf(x)'
            BY <3>5, SyncTrivial
        <3>7. (RebuildOf(x)' => RebuildOf(wk[w])') /\ (SyncOf(x)' => SyncOf(wk[w])')
            BY <3>2 DEF RebuildOf, SyncOf, InSync, Right, RightFor, Members
        <3> QED BY <3>3, <3>4, <3>6, <3>7 DEF LoneInv
    <2>3. CASE Ack(w)
        <3>1. wk'[w] = Idle
            BY <2>3, AckMoves, MovesKeep DEF Types
        <3> QED BY <1>2, <3>1 DEF LoneInv, Idle
    <2>4. CASE ~Take(w) /\ ~RunNow(w) /\ ~Ack(w)
        <3>1. wk[w].pc # "idle"
            BY <2>1, <2>4 DEF db, Work, Lifecycle, Rebuild, Sync, Hooks, Targets, NextOrg,
               EndCancelled, EndTask, Ensure, NextVersion, CreateStore, CreateFails, SwapRead,
               SwapAlias, SwapFails, ListStores, DeleteStore, BuildProject, BuildEnds,
               BuildStays, BuildGoes, Expect, Scan, Update, DeleteOrphans, PageStart,
               ProjectStart, ClearStore, ReadPage, WritePage, Raise
        <3>2. NextOrg(w) \/ HeldBy(w)
            BY <2>1, <3>1 DEF LoneInv, HeldBy
        <3>3. Sound(wk[w]) /\ wk[w].task \in Tasks
            BY <3>1, WorkerIsSound DEF Sound
        <3>4. IsJob(w) => wk[w].task.of \in Jobs
            BY Kinds DEF IsJob
        <3>5. IsJob(w) => job'[wk[w].task.of].type = job[wk[w].task.of].type
            BY <2>1, <3>4, JobsGoOn DEF Faults
        <3>6. CASE Runs(w, "REBUILD")
            <4>1. PICK x : After(w, x) /\ RebuildOf(x)'
                BY <2>1, <2>4, <3>1, <3>2, <3>6, RebuildAlone DEF HeldBy
            <4>2. ~Runs(w, "SYNC")
                BY <3>6 DEF Runs
            <4> QED BY <1>2, <3>5, <3>6, <4>1, <4>2, LoneAfter DEF After, Runs
        <3>7. CASE Runs(w, "SYNC")
            <4>1. PICK x : After(w, x) /\ (SyncOf(x)' \/ InVain(x)')
                BY <2>1, <2>4, <3>1, <3>2, <3>7, SyncAlone DEF HeldBy
            <4>2. ~Runs(w, "REBUILD")
                BY <3>7 DEF Runs
            <4> QED BY <1>2, <3>5, <3>7, <4>1, <4>2, LoneAfter DEF After, Runs
        <3>8. CASE ~Runs(w, "REBUILD") /\ ~Runs(w, "SYNC")
            <4>1. PICK x : Moves(w, x) /\ (x = Idle \/ x.task = wk[w].task)
                BY <2>1, <2>4, WorkMoves
            <4>2. wk'[w] = x
                BY <4>1, MovesKeep DEF Types
            <4>3. CASE x = Idle
                BY <1>2, <4>2, <4>3 DEF LoneInv, Idle
            <4>4. CASE x.task = wk[w].task
                <5>1. ~Runs(w, "REBUILD")' /\ ~Runs(w, "SYNC")'
                    BY <3>5, <3>8, <4>2, <4>4 DEF Runs, IsJob
                <5> QED BY <1>2, <5>1 DEF LoneInv
            <4> QED BY <4>1, <4>3, <4>4
        <3> QED BY <3>6, <3>7, <3>8
    <2> QED BY <2>2, <2>3, <2>4
<1> QED BY <1>1, <1>2

(* A step that touches neither the index nor the database nor a worker, and *)
(* takes back no mark, changes nothing for who is alone.                    *)
LEMMA LoneFrame ==
    ASSUME Types, Started, LoneInv, UNCHANGED <<rev, groups, alias, docs, wk, solo>>,
           \A j \in Jobs : job[j].status # "NONE" =>
               job'[j].type = job[j].type /\ (job[j].cancel => job'[j].cancel \/ ToStart(j))
    PROVE  LoneInv'
<1> SUFFICES ASSUME NEW w \in Workers, solo = w, wk[w].pc # "idle", IsJob(w)
             PROVE  /\ Runs(w, "REBUILD")' => RebuildOf(wk[w])'
                    /\ Runs(w, "SYNC")' => SyncOf(wk[w])' \/ InVain(wk[w])'
    BY DEF LoneInv, Runs, IsJob
<1>1. /\ wk[w].task.of \in Jobs /\ job[wk[w].task.of].status # "NONE"
      /\ ~ToStart(wk[w].task.of)
    BY Kinds DEF IsJob, Started
<1>2. /\ job'[wk[w].task.of].type = job[wk[w].task.of].type
      /\ job[wk[w].task.of].cancel => job'[wk[w].task.of].cancel
    BY <1>1
<1>3. /\ Runs(w, "REBUILD")' => RebuildOf(wk[w])
      /\ Runs(w, "SYNC")' => SyncOf(wk[w]) \/ InVain(wk[w])
    BY <1>2 DEF LoneInv, Runs, IsJob
<1>4. RebuildOf(wk[w]) => RebuildOf(wk[w])'
    <2>1. PICK x : x = wk[w] /\ x = wk'[w]
        OBVIOUS
    <2>2. \A o, v : \A p \in Projects : RightFor(p, o, v)' <=> RightFor(p, o, v)
        BY DEF RightFor, Members
    <2>3. \A o, v : Right(o, v)' <=> Right(o, v)
        BY <2>2 DEF Right
    <2>4. job[x.task.of].cancel => job'[x.task.of].cancel
        BY <1>2, <2>1
    <2>5. RebuildOf(x) => RebuildOf(x)'
        <3> SUFFICES ASSUME RebuildOf(x) PROVE RebuildOf(x)'
            OBVIOUS
        <3>1. /\ x.pc # "list"
              /\ x.pc \in {"build", "built"} => \A p \in Projects \ x.todo : RightFor(p, x.org, x.ver)'
              /\ x.pc = "built" => x.todo = {} \/ job'[x.task.of].cancel
              /\ x.pc \in {"swapread", "swap", "delete"} => Right(x.org, x.ver)'
            BY <2>2, <2>3, <2>4 DEF RebuildOf
        <3>2. x.pc = "build" => x.todo \subseteq Members(x.org)'
            BY DEF RebuildOf, Members
        <3>3. x.pc = "swap" => x.old = {<<x.org, v>> : v \in alias'[x.org] \ {x.ver}}
            BY DEF RebuildOf
        <3>4. x.pc = "delete" =>
                 /\ x.ver \in Versions /\ alias'[x.org] = {x.ver}
                 /\ \A s \in x.old : s[1] = x.org /\ s[2] # x.ver
            BY DEF RebuildOf
        <3> QED BY <3>1, <3>2, <3>3, <3>4 DEF RebuildOf
    <2>6. RebuildOf(x)' => RebuildOf(wk[w])'
        BY <2>1 DEF RebuildOf, Right, RightFor, Members
    <2> QED BY <2>1, <2>5, <2>6
<1>5. SyncOf(wk[w]) => SyncOf(wk[w])'
    BY DEF SyncOf, InSync, RightFor, Members
<1>6. InVain(wk[w]) => InVain(wk[w])'
    BY DEF InVain, Doubled
<1> QED BY <1>3, <1>4, <1>5, <1>6

LEMMA LoneStep == Types /\ Started /\ LoneInv /\ [Next]_vars => LoneInv' /\ Started'
<1> SUFFICES ASSUME Types, Started, LoneInv, [Next]_vars PROVE LoneInv' /\ Started'
    OBVIOUS
<1>1. CASE UNCHANGED vars
    <2>1. UNCHANGED <<rev, groups, job, queue, starter, alias, docs, wk, solo>>
        BY <1>1 DEF vars, db, cluster
    <2> QED BY <2>1, LoneFrame DEF Started, ToStart
<1>2. CASE Requests
    <2>1. CASE solo' = Nobody
        BY <1>2, <2>1, LoneNone, StartedRequests
    <2>2. CASE solo' # Nobody
        <3>1. UNCHANGED <<rev, groups, alias, docs, wk, solo>>
            BY <1>2, <2>2 DEF Requests, EditPage, DeleteProject, AddToGroup, RemoveFromGroup, Move,
               Change, StartJob, CliJob, NewJob, Dispatch, DispatchFails, StarterDies, CancelJob, db,
               cluster
        <3> QED BY <1>2, <3>1, LoneFrame, StartedRequests
    <2> QED BY <2>1, <2>2
<1>3. ASSUME NEW w \in Workers, Work(w) \/ Faults(w) PROVE LoneInv' /\ Started'
    <2>1. CASE Redeliver(w)
        <3>1. UNCHANGED <<rev, groups, job, alias, docs, wk, solo>>
            BY <2>1 DEF Redeliver, db, cluster
        <3> QED BY <1>3, <3>1, LoneFrame, StartedWorks
    <2> QED BY <1>3, <2>1, LoneWorks, StartedWorks
<1> QED BY <1>1, <1>2, <1>3 DEF Next

LEMMA LoneInit == Init => LoneInv /\ Started
    BY ConstantsAssumption DEF Init, LoneInv, Started, ToStart, Idle

(* A rebuild that gets through an organization while nothing is edited and  *)
(* no other task acts leaves its index as the database has it, whatever the *)
(* index was like before, an alias on several stores included: create_store *)
(* _index, index_org and swap_alias miss no project.  So does a sync, with  *)
(* index_drift and its writes, wherever the alias is not doubled; where it  *)
(* is, the writes of sync_org are refused and nothing is claimed.           *)
THEOREM LoneJobsRepair == Spec => []LoneJobRepairs
<1>1. Init => Types /\ Started /\ LoneInv
    BY InitTypes, LoneInit
<1>2. Types /\ Started /\ LoneInv /\ [Next]_vars => (Types /\ Started /\ LoneInv)'
    BY TypesStep, LoneStep
<1>3. Types /\ Started /\ LoneInv => LoneJobRepairs
    BY LoneImplies
<1> QED BY <1>1, <1>2, <1>3, PTL DEF Spec


-----------------------------------------------------------------------------
(* Search without downtime *)

(* No two tasks replace the stores of an organization at a time.            *)
OneReplaces ==
    \A v, w \in Workers :
        v # w /\ wk[v].org = wk[w].org /\ wk[w].pc = "create"
        => wk[v].pc \notin Making \cup {"delete"}

(* What each worker knows is its own: drops are announced, a worker deletes *)
(* stores of the organization it is at; a store that is being made is not   *)
(* live, nor is one that is about to be deleted; a number is in one hand.   *)
DropsAreKnown == \A w \in Workers : wk[w].pc = "list" => wk[w].org \in dropped
OldIsOwn ==
    \A w \in Workers : wk[w].pc \in {"swap", "delete"} =>
        wk[w].old \subseteq {wk[w].org} \X Versions
NewIsHidden ==
    \A w \in Workers : wk[w].pc \in Making /\ wk[w].org \notin Unsafe =>
        wk[w].ver \notin alias[wk[w].org]
OldIsRetired ==
    \A w \in Workers : wk[w].pc = "delete" /\ wk[w].org \notin Unsafe =>
        \A s \in wk[w].old : s[2] \notin alias[wk[w].org]
OneMaker ==
    \A v, w \in Workers :
        v # w /\ wk[v].pc \in Making /\ wk[w].pc \in Making /\ wk[v].org = wk[w].org
              /\ wk[w].org \notin Unsafe
        => wk[v].ver # wk[w].ver
NewIsSafe ==
    \A v, w \in Workers :
        wk[v].pc \in {"swap", "delete"} /\ wk[w].pc \in Making /\ wk[v].org = wk[w].org
              /\ wk[w].org \notin Unsafe
        => <<wk[w].org, wk[w].ver>> \notin wk[v].old

Tidy == DropsAreKnown /\ OldIsOwn /\ NewIsHidden /\ OldIsRetired /\ OneMaker /\ NewIsSafe

TidyVars == <<wk, alias, dropped, reused>>

(* The worker's notes after a step by which it takes up no store.           *)
Lighter(x, y) ==
    /\ x.pc # "list" \/ x.org \in dropped'
    /\ x.pc \in Making => y.pc \in Making /\ x.org = y.org /\ x.ver = y.ver
    /\ x.pc \in {"swap", "delete"} =>
          /\ x.org = y.org /\ y.pc \in Making \cup {"delete"}
          /\ x.old = {} \/ (x.pc = y.pc /\ x.old \subseteq y.old)

Others(w) == \A v \in Workers : v # w => wk'[v] = wk[v]
Spared ==
    /\ dropped \subseteq dropped' /\ Unsafe \subseteq Unsafe'
    /\ \A o \in Orgs \ Unsafe : alias'[o] = alias[o]

LEMMA LighterKeeps ==
    ASSUME Types, Tidy, NEW w \in Workers, Others(w), Lighter(wk'[w], wk[w]), Spared
    PROVE  Tidy'
<1>0. \A v \in Workers : Lighter(wk'[v], wk[v])
    <2> SUFFICES ASSUME NEW v \in Workers, v # w PROVE Lighter(wk[v], wk[v])
        BY DEF Others
    <2> QED BY DEF Lighter, Spared, Tidy, DropsAreKnown, Making
<1>1. \A v \in Workers : wk'[v].pc \in Making \cup {"swap", "delete"} => wk'[v].org \in Orgs
    <2> SUFFICES ASSUME NEW v \in Workers, wk'[v].pc \in Making \cup {"swap", "delete"}
                 PROVE  wk'[v].org \in Orgs
        OBVIOUS
    <2>1. Sound(wk[v])
        BY WorkerIsSound
    <2> QED BY <1>0, <2>1 DEF Lighter, Sound, AtOrg, AtStore, Making
<1>2. DropsAreKnown'
    BY <1>0 DEF Lighter, DropsAreKnown
<1>3. OldIsOwn'
    BY <1>0 DEF Lighter, Tidy, OldIsOwn
<1>4. NewIsHidden'
    BY <1>0, <1>1 DEF Lighter, Tidy, NewIsHidden, Spared
<1>5. OldIsRetired'
    BY <1>0, <1>1 DEF Lighter, Tidy, OldIsRetired, Spared
<1>6. OneMaker'
    BY <1>0 DEF Lighter, Tidy, OneMaker, Spared
<1>7. NewIsSafe'
    BY <1>0 DEF Lighter, Tidy, NewIsSafe, Spared
<1> QED BY <1>2, <1>3, <1>4, <1>5, <1>6, <1>7 DEF Tidy

LEMMA StillTidy == ASSUME Tidy, UNCHANGED TidyVars PROVE Tidy'
    BY DEF TidyVars, Tidy, DropsAreKnown, OldIsOwn, NewIsHidden, OldIsRetired, OneMaker,
       NewIsSafe, Unsafe

LEMMA TidyInit == Init => Tidy
    BY DEF Init, Idle, Making, Tidy, DropsAreKnown, OldIsOwn, NewIsHidden, OldIsRetired, OneMaker,
       NewIsSafe, Unsafe

LEMMA WorkerGoes ==
    ASSUME Types, NEW w \in Workers, NEW l, NEW orgs, NEW org, NEW ver, NEW old, NEW todo,
           NEW of, NEW doc, Goes(w, l, orgs, org, ver, old, todo, of, doc)
    PROVE  /\ Others(w) /\ Sound(wk'[w])
           /\ wk'[w].pc = l /\ wk'[w].org = org /\ wk'[w].ver = ver /\ wk'[w].old = old
<1>1. PICK x : Moves(w, x) /\ Notes(x, l, wk[w].task, orgs, org, ver, old, todo, of, doc)
    BY DEF Goes
<1>2. wk'[w] = x /\ Others(w)
    BY <1>1, MovesKeep DEF Types, Others
<1> QED BY <1>1, <1>2 DEF Notes, Moves

LEMMA WorkerGoesTo ==
    ASSUME Types, NEW w \in Workers, NEW l, GoesTo(w, l)
    PROVE  /\ Others(w) /\ Sound(wk'[w]) /\ wk'[w].pc = l /\ wk'[w].org = wk[w].org
           /\ wk'[w].ver = wk[w].ver /\ wk'[w].old = wk[w].old
    BY WorkerGoes DEF GoesTo

(* A new store is nobody else's.                                            *)
LEMMA CreateTidy ==
    ASSUME Types, Tidy, NEW w \in Workers, CreateStore(w)
    PROVE  Tidy' /\ Spared
<1>1. /\ wk[w].pc = "create" /\ wk[w].ver \notin stores[wk[w].org] /\ UNCHANGED <<alias, dropped>>
      /\ reused' = IF Unused(wk[w].org, wk[w].ver) THEN reused ELSE reused \cup {wk[w].org}
    BY DEF CreateStore
<1>2. wk[w].org \in Orgs
    BY <1>1, WorkerIsSound DEF Sound, AtOrg, AtStore
<1>3. /\ Others(w) /\ wk'[w].pc \in {"build", "swapread"} /\ wk'[w].org = wk[w].org
      /\ wk'[w].ver = wk[w].ver
    BY CreateMoves, WorkerGoes, WorkerGoesTo
<1>4. Unused(wk[w].org, wk[w].ver) \/ wk[w].org \in Unsafe'
    BY <1>1 DEF Unsafe
<1>9. Unsafe \subseteq Unsafe'
    BY <1>1 DEF Unsafe
<1>5. DropsAreKnown' /\ OldIsOwn' /\ OldIsRetired'
    BY <1>1, <1>3, <1>9 DEF Others, Tidy, DropsAreKnown, OldIsOwn, OldIsRetired
<1>6. NewIsHidden'
    <2>1. wk[w].ver \notin alias[wk[w].org]
        BY <1>1, <1>2 DEF Types, IndexOK
    <2> QED BY <1>1, <1>3, <1>9, <2>1 DEF Others, Tidy, NewIsHidden
<1>7. OneMaker'
    BY <1>1, <1>3, <1>4, <1>9 DEF Others, Unused, Tidy, OneMaker
<1>8. NewIsSafe'
    BY <1>1, <1>3, <1>4, <1>9 DEF Others, Unused, Tidy, NewIsSafe
<1> QED BY <1>1, <1>5, <1>6, <1>7, <1>8, <1>9 DEF Tidy, Spared

(* update_aliases: what is shown was nobody else's, and what is retired by  *)
(* it stays hidden.                                                         *)
LEMMA SwapReadTidy ==
    ASSUME Types, Tidy, NEW w \in Workers, SwapRead(w)
    PROVE  Tidy'
<1> DEFINE o == wk[w].org
           s == {<<o, v>> : v \in alias[o] \ {wk[w].ver}}
<1>1. wk[w].pc = "swapread" /\ UNCHANGED <<alias, dropped, reused>>
    BY DEF SwapRead, cluster, past
<1>2. /\ Others(w) /\ wk'[w].pc = "swap" /\ wk'[w].org = o /\ wk'[w].ver = wk[w].ver
      /\ wk'[w].old = s
    <2>1. Goes(w, "swap", wk[w].orgs, o, wk[w].ver, s, wk[w].todo, wk[w].of, wk[w].doc)
        BY SwapReadMoves
    <2> HIDE DEF o, s
    <2> QED BY <2>1, WorkerGoes
<1>3. DropsAreKnown' /\ OldIsRetired'
    BY <1>1, <1>2 DEF Others, Tidy, DropsAreKnown, OldIsRetired, Unsafe
<1>4. OldIsOwn'
    <2>1. s \subseteq {o} \X Versions
        <3>1. o \in Orgs
            BY <1>1, WorkerIsSound DEF Sound, AtOrg, AtStore, Making
        <3> QED BY <3>1 DEF Types, IndexOK
    <2> QED BY <1>1, <1>2, <2>1 DEF Others, Tidy, OldIsOwn
<1>5. NewIsHidden' /\ OneMaker'
    BY <1>1, <1>2 DEF Others, Tidy, NewIsHidden, OneMaker, Making, Unsafe
<1>6. NewIsSafe'
    <2> SUFFICES ASSUME NEW v \in Workers, NEW u \in Workers,
                        wk'[v].pc \in {"swap", "delete"}, wk'[u].pc \in Making,
                        wk'[v].org = wk'[u].org, wk'[u].org \notin Unsafe
                 PROVE  <<wk'[u].org, wk'[u].ver>> \notin wk'[v].old
        BY <1>1 DEF NewIsSafe, Unsafe
    <2>1. wk[u].pc \in Making /\ wk[u].org = wk'[u].org /\ wk[u].ver = wk'[u].ver
        BY <1>1, <1>2 DEF Others, AtStore, Making
    <2>2. CASE v = w
        <3>1. wk[u].ver \notin alias[o] \/ u = w
            BY <1>2, <2>1, <2>2 DEF Tidy, NewIsHidden, Unsafe
        <3> QED BY <1>2, <2>1, <2>2, <3>1
    <2>3. CASE v # w
        BY <1>2, <2>1, <2>3 DEF Others, Tidy, NewIsSafe, Unsafe
    <2> QED BY <2>2, <2>3
<1> QED BY <1>3, <1>4, <1>5, <1>6 DEF Tidy

LEMMA SwapAliasTidy ==
    ASSUME Types, Tidy, NEW w \in Workers, SwapAlias(w)
    PROVE  Tidy' /\ (wk[w].org \notin Unsafe => alias'[wk[w].org] # {})
                 /\ \A o \in Orgs : o # wk[w].org => alias'[o] = alias[o]
<1> DEFINE o == wk[w].org
           n == wk[w].ver
<1>1. wk[w].pc = "swap" /\ UNCHANGED <<dropped, reused>> /\ o \in Orgs
    BY WorkerIsSound DEF SwapAlias, Sound, AtOrg, AtStore, Making, past
<1>2. /\ alias'[o] = (alias[o] \ {s[2] : s \in wk[w].old}) \cup {n}
      /\ \A p \in Orgs : p # o => alias'[p] = alias[p]
    BY <1>1 DEF SwapAlias, Types, IndexOK, past
<1>3. /\ Others(w) /\ wk'[w].org = o /\ wk'[w].old = wk[w].old
      /\ wk'[w].pc = (IF Runs(w, "REBUILD") THEN "delete" ELSE Ensured(w))
    BY SwapMoves, WorkerGoesTo
<1>4. wk'[w].pc \in {"delete", "expect", "read", "write"}
    BY <1>1, <1>3, WorkerIsSound, EnsuredSteps DEF AtOrg, AtStore, Making
<1>5. wk[w].pc \in Making /\ wk'[w].pc \notin Making \cup {"list", "swap"}
    BY <1>1, <1>4 DEF AtStore, Making
<1>6. \A v \in Workers : wk'[v].pc \in Making =>
          v # w /\ wk'[v] = wk[v] /\ wk[v].org \in Orgs
    BY <1>3, <1>5, WorkerIsSound DEF Others, Sound, AtOrg, AtStore, Making
<1>7. DropsAreKnown' /\ OldIsOwn'
    BY <1>1, <1>3, <1>5 DEF Others, Tidy, DropsAreKnown, OldIsOwn
<1>8. NewIsHidden'
    <2> SUFFICES ASSUME NEW v \in Workers, wk'[v].pc \in Making, wk'[v].org \notin Unsafe
                 PROVE  wk'[v].ver \notin alias'[wk'[v].org]
        BY <1>1 DEF NewIsHidden, Unsafe
    <2>1. wk[v].ver \notin alias[wk[v].org]
        BY <1>6 DEF Tidy, NewIsHidden, Unsafe
    <2>2. wk[v].org = o => wk[v].ver # n
        BY <1>5, <1>6 DEF Tidy, OneMaker, Unsafe
    <2> QED BY <1>2, <1>6, <2>1, <2>2
<1>9. OldIsRetired'
    <2> SUFFICES ASSUME NEW v \in Workers, wk'[v].pc = "delete", wk'[v].org \notin Unsafe,
                        NEW s \in wk'[v].old
                 PROVE  s[2] \notin alias'[wk'[v].org]
        BY <1>1 DEF OldIsRetired, Unsafe
    <2>1. wk[v].pc \in {"swap", "delete"} /\ wk[v].org = wk'[v].org /\ s \in wk[v].old
          /\ wk[v].org \in Orgs
        BY <1>1, <1>3, WorkerIsSound DEF Others, Sound, AtOrg, AtStore, Making
    <2>2. wk[v].org = o => s[2] # n
        <3> SUFFICES ASSUME wk[v].org = o, s[2] = n PROVE FALSE
            OBVIOUS
        <3>1. s \in {o} \X Versions
            BY <2>1 DEF Tidy, OldIsOwn
        <3>2. <<o, n>> \notin wk[v].old
            BY <1>1, <1>5, <2>1 DEF Tidy, NewIsSafe, Unsafe
        <3> QED BY <2>1, <3>1, <3>2
    <2>3. CASE v = w
        BY <1>2, <2>1, <2>2, <2>3
    <2>4. CASE v # w
        <3>1. wk[v].pc = "delete" /\ s[2] \notin alias[wk[v].org]
            BY <1>3, <2>1, <2>4 DEF Others, Tidy, OldIsRetired, Unsafe
        <3> QED BY <1>2, <2>1, <2>2, <3>1
    <2> QED BY <2>3, <2>4
<1>10. OneMaker'
    BY <1>1, <1>6 DEF Tidy, OneMaker, Unsafe
<1>11. NewIsSafe'
    <2>1. \A v \in Workers : wk'[v].pc \in {"swap", "delete"} =>
             wk[v].pc \in {"swap", "delete"} /\ wk'[v].org = wk[v].org /\ wk'[v].old = wk[v].old
        BY <1>1, <1>3 DEF Others
    <2> QED BY <1>1, <1>6, <2>1 DEF Tidy, NewIsSafe, Unsafe
<1> QED BY <1>2, <1>7, <1>8, <1>9, <1>10, <1>11 DEF Tidy

(* drop_org_indices lists stores of an organization that is being dropped.  *)
LEMMA ListTidy ==
    ASSUME Types, Tidy, NEW w \in Workers, ListStores(w)
    PROVE  Tidy'
<1> DEFINE o == wk[w].org
           s == {<<o, v>> : v \in stores[o]}
<1>1. wk[w].pc = "list" /\ UNCHANGED <<alias, dropped, reused>> /\ o \in dropped
    BY DEF ListStores, cluster, Tidy, DropsAreKnown, past
<1>2. Others(w) /\ wk'[w].pc = "delete" /\ wk'[w].org = o /\ wk'[w].old = s
    <2>1. Goes(w, "delete", wk[w].orgs, o, wk[w].ver, s, wk[w].todo, wk[w].of, wk[w].doc)
        BY ListMoves
    <2> HIDE DEF o, s
    <2> QED BY <2>1, WorkerGoes
<1>3. s \subseteq {o} \X Versions
    <2>1. o \in Orgs
        BY <1>1, WorkerIsSound DEF Sound, AtOrg
    <2> QED BY <2>1 DEF Types, IndexOK
<1>4. OldIsOwn'
    BY <1>1, <1>2, <1>3 DEF Others, Tidy, OldIsOwn
<1>5. DropsAreKnown' /\ NewIsHidden' /\ OldIsRetired' /\ OneMaker'
    BY <1>1, <1>2 DEF Others, Making, Tidy, DropsAreKnown, NewIsHidden, OldIsRetired, OneMaker, Unsafe
<1>6. NewIsSafe'
    BY <1>1, <1>2 DEF Others, Making, Tidy, NewIsSafe, Unsafe
<1> QED BY <1>4, <1>5, <1>6 DEF Tidy

(* The other steps of a worker take up no store, and stores they delete are *)
(* not live.                                                                *)
LEMMA RemovedIsSpared ==
    ASSUME Types, NEW o, NEW n, RemoveStore(o, n), UNCHANGED <<dropped, reused>>,
           o \in Orgs \ Unsafe => n \notin alias[o]
    PROVE  Spared
    BY DEF RemoveStore, Spared, Types, IndexOK, Unsafe

LEMMA TasksAreLight ==
    ASSUME Types, NEW w \in Workers,
           Take(w) \/ RunNow(w) \/ Targets(w) \/ NextOrg(w) \/ EndCancelled(w) \/ EndTask(w) \/ Ack(w)
    PROVE  Others(w) /\ Lighter(wk'[w], wk[w]) /\ Spared
<1>1. CASE Take(w) \/ RunNow(w)
    <2>1. PICK x : Moves(w, x) /\ x.pc \in {"targets", "page", "project", "removal"}
        BY <1>1, TakeMoves
    <2>2. wk'[w] = x /\ Others(w)
        BY <2>1, MovesKeep DEF Types, Others
    <2> QED BY <1>1, <2>1, <2>2 DEF Take, RunNow, cluster, Spared, Lighter, Making, past, Unsafe
<1>2. CASE Targets(w)
    <2>1. PICK x : Moves(w, x) /\ x.pc = "next"
        BY <1>2, TargetsMoves
    <2>2. wk'[w] = x /\ Others(w)
        BY <2>1, MovesKeep DEF Types, Others
    <2> QED BY <1>2, <2>1, <2>2 DEF Targets, cluster, Spared, Lighter, Making, past, Unsafe
<1>3. CASE NextOrg(w)
    <2>1. PICK o \in wk[w].orgs :
             /\ wk' = [wk EXCEPT ![w] = [wk[w] EXCEPT !.pc = First(w), !.org = o, !.orgs = @ \ {o},
                                                      !.ver = 0, !.old = {}, !.todo = {}]]
             /\ dropped' = IF Runs(w, "DROP") THEN dropped \cup {o} ELSE dropped
        BY <1>3 DEF NextOrg, past
    <2>2. wk[w] \in WorkerType /\ wk \in [Workers -> WorkerType]
        BY WorkerIsSound DEF Types, WorkersOK
    <2>3. Others(w) /\ wk'[w].pc = First(w) /\ wk'[w].org = o
        BY <2>1, <2>2 DEF Others, WorkerType
    <2>4. First(w) \in {"version", "list", "ensure"} /\ (First(w) = "list" => Runs(w, "DROP"))
        BY DEF First
    <2>5. UNCHANGED <<alias, reused>>
        BY <1>3 DEF NextOrg, cluster, past
    <2> QED BY <2>1, <2>3, <2>4, <2>5 DEF Spared, Lighter, Making, Unsafe
<1>4. CASE EndCancelled(w) \/ EndTask(w)
    <2>1. Over(w) /\ wk[w].pc # "idle" /\ UNCHANGED <<alias, dropped, reused>>
        BY <1>4 DEF EndCancelled, EndTask, cluster, past
    <2>2. PICK x : Moves(w, x) /\ x.pc = "ack"
        BY <2>1, OverMoves
    <2>3. wk'[w] = x /\ Others(w)
        BY <2>2, MovesKeep DEF Types, Others
    <2> QED BY <2>1, <2>2, <2>3 DEF Spared, Lighter, Making, Unsafe
<1>5. CASE Ack(w)
    <2>1. wk'[w] = Idle /\ Others(w)
        BY <1>5, AckMoves, MovesKeep DEF Types, Others
    <2> QED BY <1>5, <2>1 DEF Idle, Ack, cluster, Spared, Lighter, Making, past, Unsafe
<1> QED BY <1>1, <1>2, <1>3, <1>4, <1>5

LEMMA FailuresAreLight ==
    ASSUME Types, Tidy, NEW w \in Workers, CreateFails(w) \/ SwapFails(w) \/ Raise(w)
    PROVE  Others(w) /\ Lighter(wk'[w], wk[w]) /\ Spared
<1>1. Over(w) /\ wk[w].pc # "idle" /\ UNCHANGED <<dropped, reused>>
    BY DEF CreateFails, SwapFails, Raise, EndFailed, past
<1>2. PICK x : Moves(w, x) /\ x.pc = "ack"
    BY <1>1, OverMoves
<1>3. wk'[w] = x /\ Others(w)
    BY <1>2, MovesKeep DEF Types, Others
<1>4. Spared
    <2>1. CASE UNCHANGED alias
        BY <1>1, <2>1 DEF Spared, Unsafe
    <2>2. CASE ~UNCHANGED alias
        <3>1. wk[w].pc = "build" /\ RemoveStore(wk[w].org, wk[w].ver)
            BY <2>2 DEF CreateFails, SwapFails, Raise, cluster, past
        <3>2. wk[w].org \notin Unsafe => wk[w].ver \notin alias[wk[w].org]
            BY <3>1 DEF Making, Tidy, NewIsHidden, Unsafe
        <3> QED BY <1>1, <3>1, <3>2, RemovedIsSpared
    <2> QED BY <2>1, <2>2
<1> QED BY <1>2, <1>3, <1>4 DEF Lighter, Making

LEMMA StoresAreLight ==
    ASSUME Types, Tidy, NEW w \in Workers, Ensure(w) \/ NextVersion(w) \/ DeleteStore(w) \/ Rebuild(w)
    PROVE  Others(w) /\ Lighter(wk'[w], wk[w]) /\ Spared
<1>0. Sound(wk[w]) /\ wk[w] \in WorkerType
    BY WorkerIsSound
<1>1. CASE Ensure(w)
    <2>1. wk[w].pc \in AtOrg /\ UNCHANGED <<alias, dropped, reused>>
        BY <1>1 DEF Ensure, AtOrg, cluster, past
    <2>2. Others(w) /\ wk'[w].pc \in {"version", "expect", "read", "write"}
        BY <1>0, <1>1, <2>1, EnsureMoves, EnsuredSteps, WorkerGoesTo
    <2> QED BY <2>1, <2>2 DEF Spared, Lighter, Making, Unsafe
<1>2. CASE NextVersion(w)
    <2>1. UNCHANGED <<alias, dropped, reused>>
        BY <1>2 DEF NextVersion, cluster, past
    <2>2. PICK x : Moves(w, x) /\ x.pc = "create"
        BY <1>2, VersionMoves DEF Goes, Notes
    <2>3. Others(w) /\ wk'[w].pc = "create"
        BY <2>2, MovesKeep DEF Types, Others
    <2> QED BY <2>1, <2>3 DEF Spared, Lighter, Making, Unsafe
<1>3. CASE DeleteStore(w)
    <2>1. wk[w].pc = "delete" /\ UNCHANGED <<dropped, reused>>
        BY <1>3 DEF DeleteStore, past
    <2>2. CASE wk[w].old = {}
        <3>1. GoTo(w, "next") /\ UNCHANGED alias
            BY <1>3, <2>2 DEF DeleteStore, past
        <3>2. GoesTo(w, "next")
            BY <1>3, <2>2, DeleteMoves
        <3> QED BY <2>1, <3>1, <3>2, WorkerGoesTo DEF Spared, Lighter, Making, Unsafe
    <2>3. CASE wk[w].old # {}
        <3>1. PICK s \in wk[w].old :
                 RemoveStore(s[1], s[2]) /\ wk' = [wk EXCEPT ![w] = [wk[w] EXCEPT !.old = @ \ {s}]]
            BY <1>3, <2>3 DEF DeleteStore, Go, past
        <3>2. s[1] = wk[w].org
            BY <2>1 DEF Tidy, OldIsOwn
        <3>3. Spared
            <4>1. wk[w].org \notin Unsafe => s[2] \notin alias[wk[w].org]
                BY <2>1 DEF Tidy, OldIsRetired, Unsafe
            <4> QED BY <2>1, <3>1, <3>2, <4>1, RemovedIsSpared
        <3>4. wk \in [Workers -> WorkerType]
            BY DEF Types, WorkersOK
        <3>5. /\ Others(w) /\ wk'[w].pc = "delete" /\ wk'[w].org = wk[w].org
              /\ wk'[w].old \subseteq wk[w].old
            BY <1>0, <2>1, <3>1, <3>4 DEF Others, WorkerType
        <3> QED BY <2>1, <3>3, <3>5 DEF Lighter, Making
    <2> QED BY <2>2, <2>3
<1>4. CASE BuildProject(w)
    <2>1. PICK p \in wk[w].todo : wk' = [wk EXCEPT ![w] = [wk[w] EXCEPT !.todo = @ \ {p}]]
        BY <1>4 DEF BuildProject, Go, past
    <2>2. wk[w].pc = "build" /\ UNCHANGED <<alias, dropped, reused>>
        BY <1>4 DEF BuildProject, past
    <2>3. /\ Others(w) /\ wk'[w].pc = "build" /\ wk'[w].org = wk[w].org /\ wk'[w].ver = wk[w].ver
        <3>1. PICK x : /\ Moves(w, x) /\ x.pc = "build" /\ x.org = wk[w].org
                       /\ x.ver = wk[w].ver
            BY <2>1, <2>2, BuildMoves DEF Goes, Notes
        <3> QED BY <3>1, MovesKeep DEF Types, Others
    <2> QED BY <2>2, <2>3 DEF Spared, Lighter, Making, Unsafe
<1>5. CASE BuildEnds(w) \/ BuildStays(w)
    <2>1. wk[w].pc \in Making /\ UNCHANGED <<alias, dropped, reused>>
        BY <1>5 DEF BuildEnds, BuildStays, AtStore, Making, cluster, past
    <2>2. /\ Others(w) /\ wk'[w].pc \in {"built", "swapread"} /\ wk'[w].org = wk[w].org
          /\ wk'[w].ver = wk[w].ver
        BY <1>5, RebuildMoves, WorkerGoesTo
    <2> QED BY <2>1, <2>2 DEF Spared, Lighter, Making, Unsafe
<1>6. CASE BuildGoes(w)
    <2>1. wk[w].pc = "built" /\ UNCHANGED <<dropped, reused>> /\ RemoveStore(wk[w].org, wk[w].ver)
        BY <1>6 DEF BuildGoes, past
    <2>2. Spared
        <3>1. wk[w].org \notin Unsafe => wk[w].ver \notin alias[wk[w].org]
            BY <2>1 DEF Making, Tidy, NewIsHidden, Unsafe
        <3> QED BY <2>1, <3>1, RemovedIsSpared
    <2>3. Others(w) /\ wk'[w].pc = "next"
        BY <1>6, RebuildMoves, WorkerGoesTo
    <2> QED BY <2>2, <2>3 DEF Lighter, Making
<1> QED BY <1>1, <1>2, <1>3, <1>4, <1>5, <1>6 DEF Rebuild

LEMMA WritesAreLight ==
    ASSUME Types, NEW w \in Workers, Sync(w) \/ Hooks(w)
    PROVE  Others(w) /\ Lighter(wk'[w], wk[w]) /\ Spared
<1>0. Sound(wk[w]) /\ wk[w] \in WorkerType /\ wk \in [Workers -> WorkerType]
    BY WorkerIsSound DEF Types, WorkersOK
<1>1. UNCHANGED <<alias, dropped, reused>>
    BY DEF Sync, Hooks, Expect, Scan, Update, DeleteOrphans, PageStart, ProjectStart, ClearStore,
       ReadPage, WritePage, cluster, past
<1>2. ASSUME Others(w), wk'[w].pc \notin Making \cup {"list", "swap", "delete"}
      PROVE  Others(w) /\ Lighter(wk'[w], wk[w]) /\ Spared
    BY <1>1, <1>2 DEF Spared, Lighter, Unsafe
<1>3. CASE Expect(w)
    <2>1. Others(w) /\ wk'[w].pc = "scan"
        <3>1. PICK x : Moves(w, x) /\ x.pc = "scan"
            BY <1>3, ExpectMoves DEF Goes, Notes
        <3> QED BY <3>1, MovesKeep DEF Types, Others
    <2> QED BY <1>2, <2>1 DEF Making
<1>4. CASE Scan(w)
    <2>1. Others(w) /\ wk'[w].pc \in {"next", "update"}
        <3>1. PICK x : Moves(w, x) /\ x.pc \in {"next", "update"}
            BY <1>4, ScanMoves DEF Goes, GoesTo, Notes
        <3> QED BY <3>1, MovesKeep DEF Types, Others
    <2> QED BY <1>2, <2>1 DEF Making
<1>5. CASE Update(w)
    <2>1. Others(w) /\ wk'[w].pc \in {"orphans", "update", "write"}
        <3>1. PICK x : Moves(w, x) /\ x.pc \in {"orphans", "update", "write"}
            BY <1>5, UpdateMoves DEF Goes, GoesTo, Notes
        <3> QED BY <3>1, MovesKeep DEF Types, Others
    <2> QED BY <1>2, <2>1 DEF Making
<1>6. CASE DeleteOrphans(w)
    <2>1. Others(w) /\ wk'[w].pc = "next"
        BY <1>6, RebuildMoves, WorkerGoesTo
    <2> QED BY <1>2, <2>1 DEF Making
<1>7. CASE PageStart(w) \/ ProjectStart(w) \/ ReadPage(w)
    <2>1. Others(w)
        BY <1>7, HookMoves, MovesKeep DEF Types, Others
    <2>2. wk'[w].pc \in {"next", "clear", "write"}
        <3>1. CASE PageStart(w)
            BY <1>0, <3>1 DEF PageStart, Go, WorkerType
        <3>2. CASE ReadPage(w)
            BY <1>0, <3>2 DEF ReadPage, Go, WorkerType
        <3>3. CASE ProjectStart(w)
            <4>1. PICK os, s : wk' = [wk EXCEPT ![w] = [wk[w] EXCEPT !.pc = "clear", !.orgs = os,
                                                                     !.doc.groups = os, !.old = s]]
                BY <3>3 DEF ProjectStart, Go
            <4> QED BY <1>0, <4>1 DEF WorkerType
        <3> QED BY <1>7, <3>1, <3>2, <3>3
    <2> QED BY <1>2, <2>1, <2>2 DEF Making
<1>8. CASE ClearStore(w)
    <2>1. Others(w) /\ wk'[w].pc \in {"next", "clear"}
        <3>1. wk[w].pc = "clear"
            BY <1>8 DEF ClearStore
        <3>2. PICK x : Moves(w, x) /\ x.pc \in {"next", "clear"}
            BY <1>8, <3>1, DeleteMoves DEF Goes, GoesTo, Notes
        <3> QED BY <3>2, MovesKeep DEF Types, Others
    <2> QED BY <1>2, <2>1 DEF Making
<1>9. CASE WritePage(w)
    <2>1. CASE EndFailed(w)
        <3>1. wk[w].pc # "idle" /\ Over(w)
            BY <1>9, <2>1 DEF WritePage, EndFailed
        <3>2. PICK x : Moves(w, x) /\ x.pc = "ack"
            BY <3>1, OverMoves
        <3>3. Others(w) /\ wk'[w].pc = "ack"
            BY <3>2, MovesKeep DEF Types, Others
        <3> QED BY <1>2, <3>3 DEF Making
    <2>2. CASE ~EndFailed(w)
        <3>1. Others(w) /\ wk'[w].pc \in {"update", "next"}
            BY <1>9, <2>2, WriteMoves, WorkerGoesTo
        <3> QED BY <1>2, <3>1 DEF Making
    <2> QED BY <2>1, <2>2
<1> QED BY <1>3, <1>4, <1>5, <1>6, <1>7, <1>8, <1>9 DEF Sync, Hooks

LEMMA FaultsAreLight ==
    ASSUME Types, NEW w \in Workers, BulkWriteFails(w) \/ LookupFails(w) \/ Crash(w) \/ Killed(w)
    PROVE  Others(w) /\ Lighter(wk'[w], wk[w]) /\ Spared
<1>0. wk[w] \in WorkerType /\ wk \in [Workers -> WorkerType]
    BY WorkerIsSound DEF Types, WorkersOK
<1>1. UNCHANGED <<alias, dropped, reused>> /\ Others(w)
    <2>1. PICK x : Moves(w, x)
        BY FaultMoves
    <2> QED BY <2>1, MovesKeep DEF BulkWriteFails, LookupFails, Crash, Killed, cluster, Types,
           Others, past
<1>2. CASE BulkWriteFails(w)
    <2>1. CASE wk[w].pc = "build"
        <3>1. PICK p \in wk[w].todo : wk' = [wk EXCEPT ![w] = [wk[w] EXCEPT !.todo = @ \ {p}]]
            BY <1>2, <2>1 DEF BulkWriteFails, past
        <3>2. wk'[w].pc = "build" /\ wk'[w].org = wk[w].org /\ wk'[w].ver = wk[w].ver
            BY <1>0, <2>1, <3>1 DEF WorkerType
        <3> QED BY <1>1, <2>1, <3>2 DEF Spared, Lighter, Making, Unsafe
    <2>2. CASE wk[w].pc # "build"
        <3>1. PICK a \in {"update", "next"} : wk' = [wk EXCEPT ![w] = [wk[w] EXCEPT !.pc = a]]
            BY <1>2, <2>2 DEF BulkWriteFails, past
        <3>2. wk'[w].pc \in {"update", "next"}
            BY <1>0, <3>1 DEF WorkerType
        <3> QED BY <1>1, <3>2 DEF Spared, Lighter, Making, Unsafe
    <2> QED BY <2>1, <2>2
<1>3. CASE LookupFails(w)
    <2>1. \/ wk[w].pc = "ensure" /\ wk' = [wk EXCEPT ![w] = [wk[w] EXCEPT !.pc = "version"]]
          \/ wk[w].pc = "version"
             /\ wk' = [wk EXCEPT ![w] = [wk[w] EXCEPT !.pc = "create", !.ver = 1]]
          \/ wk[w].pc = "swapread"
             /\ wk' = [wk EXCEPT ![w] = [wk[w] EXCEPT !.pc = "swap", !.old = {}]]
        BY <1>3 DEF LookupFails
    <2>2. \/ wk'[w].pc \in {"version", "create"}
          \/ /\ wk[w].pc = "swapread" /\ wk'[w].pc = "swap" /\ wk'[w].org = wk[w].org
             /\ wk'[w].ver = wk[w].ver /\ wk'[w].old = {}
        <3>1. CASE wk[w].pc = "ensure"
            BY <1>0, <2>1, <3>1 DEF WorkerType
        <3>2. CASE wk[w].pc = "version"
            BY <1>0, <2>1, <3>2 DEF WorkerType
        <3>3. CASE wk[w].pc = "swapread"
            <4>1. wk' = [wk EXCEPT ![w] = [wk[w] EXCEPT !.pc = "swap", !.old = {}]]
                BY <2>1, <3>3
            <4>2. wk'[w] = [wk[w] EXCEPT !.pc = "swap", !.old = {}]
                BY <1>0, <4>1
            <4> QED BY <1>0, <3>3, <4>2 DEF WorkerType
        <3> QED BY <2>1, <3>1, <3>2, <3>3
    <2> QED BY <1>1, <2>2 DEF Spared, Lighter, Making, Unsafe
<1>4. CASE Crash(w) \/ Killed(w)
    <2>1. wk'[w] = Idle
        BY <1>0, <1>4 DEF Crash, Killed
    <2> QED BY <1>1, <2>1 DEF Idle, Spared, Lighter, Making, Unsafe
<1> QED BY <1>2, <1>3, <1>4

StayUp == \A o \in Orgs \ Unsafe : alias[o] # {} => alias'[o] # {}

LEMMA SparedStaysUp == Spared => StayUp
    BY DEF Spared, StayUp, Unsafe

LEMMA TidyStep == Types /\ Tidy /\ [Next]_vars => Tidy' /\ StayUp
<1> SUFFICES ASSUME Types, Tidy, [Next]_vars PROVE Tidy' /\ StayUp
    OBVIOUS
<1>1. ASSUME UNCHANGED TidyVars PROVE Tidy' /\ StayUp
    BY <1>1, StillTidy DEF TidyVars, StayUp, Unsafe
<1>2. ASSUME NEW w \in Workers, Others(w), Lighter(wk'[w], wk[w]), Spared PROVE Tidy' /\ StayUp
    BY <1>2, LighterKeeps, SparedStaysUp
<1>3. CASE UNCHANGED vars
    BY <1>1, <1>3 DEF vars, cluster, TidyVars, past, Unsafe
<1>4. CASE Requests
    BY <1>1, <1>4 DEF Requests, EditPage, DeleteProject, AddToGroup, RemoveFromGroup, Move, StartJob,
       CliJob, NewJob, Dispatch, DispatchFails, StarterDies, CancelJob, db, cluster, TidyVars,
       past, Unsafe
<1>5. ASSUME NEW w \in Workers, Work(w) PROVE Tidy' /\ StayUp
    <2>1. CASE Lifecycle(w)
        <3>1. CASE Ensure(w) \/ NextVersion(w) \/ DeleteStore(w)
            BY <1>2, <3>1, StoresAreLight
        <3>2. CASE CreateFails(w) \/ SwapFails(w)
            BY <1>2, <3>2, FailuresAreLight
        <3>3. CASE CreateStore(w)
            BY <3>3, CreateTidy, SparedStaysUp
        <3>4. CASE SwapRead(w)
            BY <3>4, SwapReadTidy DEF SwapRead, cluster, StayUp, past, Unsafe
        <3>5. CASE SwapAlias(w)
            BY <3>5, SwapAliasTidy DEF StayUp, Unsafe
        <3>6. CASE ListStores(w)
            BY <3>6, ListTidy DEF ListStores, cluster, StayUp, past, Unsafe
        <3> QED BY <2>1, <3>1, <3>2, <3>3, <3>4, <3>5, <3>6 DEF Lifecycle
    <2>2. CASE Rebuild(w)
        BY <1>2, <2>2, StoresAreLight
    <2>3. CASE Sync(w) \/ Hooks(w)
        BY <1>2, <2>3, WritesAreLight
    <2> QED BY <1>2, <1>5, <2>1, <2>2, <2>3, TasksAreLight DEF Work
<1>6. ASSUME NEW w \in Workers, Faults(w) PROVE Tidy' /\ StayUp
    <2>1. CASE Redeliver(w)
        BY <1>1, <2>1 DEF Redeliver, cluster, TidyVars, past, Unsafe
    <2>2. CASE Raise(w)
        BY <1>2, <2>2, FailuresAreLight
    <2>3. CASE BulkWriteFails(w) \/ LookupFails(w) \/ Crash(w) \/ Killed(w)
        BY <1>2, <2>3, FaultsAreLight
    <2> QED BY <1>6, <2>1, <2>2, <2>3 DEF Faults
<1> QED BY <1>3, <1>4, <1>5, <1>6 DEF Next

LEMMA TidyImplies == Tidy => BuildsAreHidden
    BY DEF Tidy, NewIsHidden, Making, BuildsAreHidden, Unsafe

(* Search has no downtime, with any number of workers, jobs and faults:     *)
(* rebuilds, syncs and hook tasks may overlap, but for organizations that   *)
(* somebody drops or whose store a task has made under a number another one *)
(* still works with.                                                        *)
THEOREM SearchHasNoDowntime == Spec => SearchStaysUp
<1>1. Init => Types /\ Tidy
    BY InitTypes, TidyInit
<1>2. Types /\ Tidy /\ [Next]_vars => (Types /\ Tidy)' /\ [StayUp]_vars
    <2>1. CASE UNCHANGED vars
        BY <2>1, TypesStep, StillTidy DEF vars, cluster, past, TidyVars
    <2> QED BY <2>1, TypesStep, TidyStep
<1>3. SearchStaysUp <=> [][StayUp]_vars
    BY DEF SearchStaysUp, StayUp
<1> QED BY <1>1, <1>2, <1>3, PTL DEF Spec

(* No search sees a store while a rebuild fills it, with the same two       *)
(* exceptions.                                                              *)
THEOREM BuildsStayHidden == Spec => []BuildsAreHidden
<1>1. Init => Types /\ Tidy
    BY InitTypes, TidyInit
<1>2. Types /\ Tidy /\ [Next]_vars => (Types /\ Tidy)'
    <2>1. CASE UNCHANGED vars
        BY <2>1, TypesStep, StillTidy DEF vars, cluster, past, TidyVars
    <2> QED BY <2>1, TypesStep, TidyStep
<1>3. Tidy => BuildsAreHidden
    BY TidyImplies
<1> QED BY <1>1, <1>2, <1>3, PTL DEF Spec

LEMMA AloneIsFresh ==
    ASSUME Tidy, OneReplaces, NEW w \in Workers, CreateStore(w)
    PROVE  UNCHANGED reused
<1>1. wk[w].pc = "create" /\ (Unused(wk[w].org, wk[w].ver) => UNCHANGED reused)
    BY DEF CreateStore
<1>2. SUFFICES ASSUME NEW v \in Workers
               PROVE  /\ ~(wk[v].pc \in Making /\ wk[v].org = wk[w].org /\ wk[v].ver = wk[w].ver)
                      /\ wk[v].pc \in {"swap", "delete"} => <<wk[w].org, wk[w].ver>> \notin wk[v].old
    BY <1>1 DEF Unused
<1>3. wk[v].org = wk[w].org => wk[v].pc \notin Making \cup {"delete"}
    BY <1>1 DEF OneReplaces, Making
<1>4. wk[v].pc \in {"swap", "delete"} => \A s \in wk[v].old : s[1] = wk[v].org
    BY DEF Tidy, OldIsOwn
<1> QED BY <1>3, <1>4 DEF Making

(* The second exception cannot arise while no two tasks replace the stores  *)
(* of an organization at a time, whatever else goes on and fails: a number  *)
(* _next_version gives out is then nobody else's.                           *)
THEOREM NumbersAreNotReused == Spec /\ []OneReplaces => [](reused = {})
<1>1. Init => Types /\ Tidy /\ reused = {}
    BY InitTypes, TidyInit DEF Init
<1>2. (Types /\ Tidy /\ reused = {}) /\ OneReplaces /\ [Next]_vars => (Types /\ Tidy /\ reused = {})'
    <2>1. CASE UNCHANGED vars
        BY <2>1, TypesStep, StillTidy DEF vars, cluster, past, TidyVars
    <2>2. ASSUME Next, ~\E w \in Workers : CreateStore(w) PROVE UNCHANGED reused
        <3>1. CASE Requests
            BY <3>1 DEF Requests, EditPage, DeleteProject, AddToGroup, RemoveFromGroup, StartJob,
               CliJob, NewJob, Dispatch, DispatchFails, StarterDies, CancelJob, past
        <3>2. ASSUME NEW w \in Workers, Work(w), ~CreateStore(w) PROVE UNCHANGED reused
            BY <3>2 DEF past, Work, Lifecycle, Rebuild, Sync, Hooks, Take, RunNow, Targets, NextOrg,
               EndCancelled, EndTask, Ack, Ensure, NextVersion, CreateFails, SwapRead, SwapAlias,
               SwapFails, ListStores, DeleteStore, BuildProject, BuildEnds, BuildStays, BuildGoes,
               Expect, Scan, Update, DeleteOrphans, PageStart, ProjectStart, ClearStore, ReadPage,
               WritePage
        <3>3. ASSUME NEW w \in Workers, Faults(w) PROVE UNCHANGED reused
            BY <3>3 DEF past, Faults, BulkWriteFails, Raise, LookupFails, Crash, Killed, Redeliver
        <3> QED BY <2>2, <3>1, <3>2, <3>3 DEF Next
    <2> QED BY <2>1, <2>2, TypesStep, TidyStep, AloneIsFresh
<1> QED BY <1>1, <1>2, PTL DEF Spec
=============================================================================
