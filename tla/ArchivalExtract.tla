-------------------------- MODULE ArchivalExtract --------------------------
(* The archival description of a project                                    *)
(* (kalanjiyam/tasks/archival_extract.py, utils/archival_description.py):   *)
(* a task reads the whole text in windows, asks the extraction service about *)
(* each, and reduces the answers into a description.  A Redis lock is to    *)
(* keep two runs of a project apart, the answers of the last run are used   *)
(* again where the text has not changed, and every commit may be the last:  *)
(* workers die, the lock lapses after 90 minutes, the broker delivers an    *)
(* unacknowledged task again after three hours.  One project, whose windows *)
(* are the same in every run; the version of a window's text stands for its *)
(* hash.                                                                    *)
EXTENDS Naturals, Sequences, FiniteSets

CONSTANTS
  Workers,      \* Celery workers of the metadata queue
  Requests,     \* extractions asked for
  Forced,       \* those of them that ask for every window anew
  None,         \* no request: the lock is free
  WindowCount,  \* windows the text of the project is read in
  MaxEdits,     \* bound: edits of the text
  MaxFaults     \* bound: crashes, overruns, repeated deliveries, failures of
                \* Redis, of the service and of the database, all together

Windows == 1..WindowCount

ASSUME ConstantsAssumption ==
  /\ WindowCount \in Nat \ {0} /\ MaxEdits \in Nat /\ MaxFaults \in Nat
  /\ None \notin Requests /\ Forced \subseteq Requests

VARIABLES
  text,       \* window -> version of its text, the first being 1
  asked,      \* request -> what became of it, also of one that was refused:
              \* the outcome of the next run that ends, or "lost"
  mail,       \* requests in the broker
  unacked,    \* requests whose worker died; the broker has them still
  lock,       \* the Redis lock: the request that set it, or None
  left,       \* whether the lock is that of a task that is over
  runs,       \* MetadataExtractionRun rows by id, with their windows and fields
  act,        \* what each worker is doing
  unguarded,  \* whether a run ever went on without the lock being its own
  spent       \* edits and faults so far

vars == <<text, asked, mail, unacked, lock, left, runs, act, unguarded, spent>>

Nothing  == [n \in Windows |-> 0]
NoAnswer == [hash |-> 0, raw |-> 0]

Idle == [pc |-> "idle", req |-> None, locked |-> FALSE, run |-> 0, next |-> 0,
         tracks |-> Nothing, prev |-> [n \in Windows |-> NoAnswer],
         read |-> Nothing, failed |-> 0]

Init ==
  /\ text = [n \in Windows |-> 1]
  /\ asked = [r \in Requests |-> "new"]
  /\ mail = {} /\ unacked = {} /\ lock = None /\ left = FALSE /\ runs = <<>>
  /\ act = [w \in Workers |-> Idle]
  /\ unguarded = FALSE
  /\ spent = [edits |-> 0, faults |-> 0]

Fault == spent.faults < MaxFaults /\ spent' = [spent EXCEPT !.faults = @ + 1]
Busy(w) == act[w].pc # "idle"
Go(w, pc) == act' = [act EXCEPT ![w].pc = pc]

----------------------------------------------------------------------------
(* Users: proofreading goes on, a moderator asks for an extraction.         *)

EditText(n) ==
  /\ spent.edits < MaxEdits
  /\ spent' = [spent EXCEPT !.edits = @ + 1]
  /\ text' = [text EXCEPT ![n] = @ + 1]
  /\ UNCHANGED <<asked, mail, unacked, lock, left, runs, act, unguarded>>

Ask(r) ==
  /\ asked[r] = "new"
  /\ asked' = [asked EXCEPT ![r] = "sent"]
  /\ mail' = mail \cup {r}
  /\ UNCHANGED <<text, unacked, lock, left, runs, act, unguarded, spent>>

----------------------------------------------------------------------------
(* The lock.                                                                *)

Started(r, locked) == [Idle EXCEPT !.pc = "tracks", !.req = r, !.locked = locked]

\* SET nx ex: the lock is taken if nobody has it ...
Take_NoNx(w, r) ==
  /\ ~Busy(w) /\ r \in mail
  /\ lock' = r /\ left' = FALSE /\ mail' = mail \ {r}
  /\ act' = [act EXCEPT ![w] = Started(r, TRUE)]
  /\ UNCHANGED <<text, asked, unacked, runs, unguarded, spent>>
Take(w, r) ==
  /\ ~Busy(w) /\ r \in mail
  /\ lock = None
  /\ lock' = r /\ left' = FALSE /\ mail' = mail \ {r}
  /\ act' = [act EXCEPT ![w] = Started(r, TRUE)]
  /\ UNCHANGED <<text, asked, unacked, runs, unguarded, spent>>

\* ... the request is dropped if somebody does, or did: nobody may be at work
\* behind a lock that was left ...
Refuse_Deletes(w, r) ==
  /\ ~Busy(w) /\ r \in mail
  /\ lock # None
  /\ lock' = None /\ left' = FALSE /\ mail' = mail \ {r}
  /\ asked' = [asked EXCEPT ![r] = IF left THEN "lost" ELSE "refused"]
  /\ UNCHANGED <<text, unacked, runs, act, unguarded, spent>>
Refuse(w, r) ==
  /\ ~Busy(w) /\ r \in mail
  /\ lock # None
  /\ mail' = mail \ {r}
  /\ asked' = [asked EXCEPT ![r] = IF left THEN "lost" ELSE "refused"]
  /\ UNCHANGED <<text, unacked, lock, left, runs, act, unguarded, spent>>

\* ... and without an answer of Redis the task runs without it.
TakeBlind(w, r) ==
  /\ ~Busy(w) /\ r \in mail /\ Fault
  /\ mail' = mail \ {r}
  /\ act' = [act EXCEPT ![w] = Started(r, FALSE)]
  /\ unguarded' = TRUE
  /\ UNCHANGED <<text, asked, unacked, lock, left, runs>>

\* latest_run: the newest run worth showing, 0 for none.
Usable   == {"COMPLETED", "PARTIAL"}
Finished == {i \in DOMAIN runs : runs[i].status \in Usable}
LatestRun == IF Finished = {} THEN 0 ELSE CHOOSE i \in Finished : \A j \in Finished : j <= i

\* What the task of w leaves for its request, and for those refused so far.
Outcome(w) == IF act[w].run \in Finished THEN "described" ELSE "failed"
Settle(w, what) ==
  asked' = [r \in Requests |-> IF r = act[w].req \/ asked[r] = "refused" THEN what ELSE asked[r]]

Holds(w) == Busy(w) /\ act[w].locked /\ act[w].req = lock

\* The end of the task, whatever its outcome: the lock is deleted if this
\* task took it, whoever has it now.
Release(w) ==
  /\ act[w].pc = "release"
  /\ IF act[w].locked THEN lock' = None /\ left' = FALSE ELSE UNCHANGED <<lock, left>>
  /\ Settle(w, Outcome(w))
  /\ act' = [act EXCEPT ![w] = Idle]
  /\ UNCHANGED <<text, mail, unacked, runs, unguarded, spent>>

ReleaseFails(w) ==
  /\ act[w].pc = "release" /\ act[w].locked /\ Fault
  /\ left' = (left \/ Holds(w))
  /\ Settle(w, Outcome(w))
  /\ act' = [act EXCEPT ![w] = Idle]
  /\ UNCHANGED <<text, mail, unacked, lock, runs, unguarded>>

\* The lock lapses: it was left behind, or its run takes more than 90 minutes.
LockLapses_Never == lock # lock /\ UNCHANGED vars
LockLapses ==
  /\ lock # None /\ \A w \in Workers : ~Holds(w)
  /\ lock' = None /\ left' = FALSE
  /\ UNCHANGED <<text, asked, mail, unacked, runs, act, unguarded, spent>>

Overrun(w) ==
  /\ lock # None /\ Holds(w) /\ Fault
  /\ lock' = None /\ left' = FALSE
  /\ unguarded' = TRUE
  /\ UNCHANGED <<text, asked, mail, unacked, runs, act>>

----------------------------------------------------------------------------
(* The run.  Its steps are the commits of the code, in its order.           *)

\* The best track of every page is chosen once; the text is read from those
\* revisions.
ResolveTracks(w) ==
  /\ act[w].pc = "tracks"
  /\ act' = [act EXCEPT ![w].pc = "open", ![w].tracks = text]
  /\ UNCHANGED <<text, asked, mail, unacked, lock, left, runs, unguarded, spent>>

NewRun == [status |-> "IN_PROGRESS", row |-> [n \in Windows |-> "none"],
           hash |-> Nothing, raw |-> Nothing, fields |-> Nothing]

OpenRun(w) ==
  /\ act[w].pc = "open"
  /\ runs' = Append(runs, NewRun)
  /\ act' = [act EXCEPT ![w].pc = "previous", ![w].run = Len(runs) + 1]
  /\ UNCHANGED <<text, asked, mail, unacked, lock, left, unguarded, spent>>

\* Answers that may be used again: those the latest run asked for itself.  A
\* window it took over from its predecessor is SKIPPED and has none.
Previous(r) ==
  [n \in Windows |->
     IF r \notin Forced /\ LatestRun # 0 /\ runs[LatestRun].row[n] = "COMPLETED"
     THEN [hash |-> runs[LatestRun].hash[n], raw |-> runs[LatestRun].raw[n]]
     ELSE NoAnswer]

ReadPrevious(w) ==
  /\ act[w].pc = "previous"
  /\ act' = [act EXCEPT ![w].pc = "window", ![w].prev = Previous(act[w].req),
                        ![w].next = 1, ![w].read = Nothing]
  /\ UNCHANGED <<text, asked, mail, unacked, lock, left, runs, unguarded, spent>>

\* The window's row is committed before the service is asked.
OpenWindow(w) ==
  LET n == act[w].next
  IN /\ act[w].pc = "window" /\ n \in Windows
     /\ runs' = [runs EXCEPT ![act[w].run].row[n] = "IN_PROGRESS",
                             ![act[w].run].hash[n] = act[w].tracks[n]]
     /\ Go(w, "answer")
     /\ UNCHANGED <<text, asked, mail, unacked, lock, left, unguarded, spent>>

Reusable_AnyHash(w, n) == act[w].prev[n].raw # 0
Reusable(w, n) == act[w].prev[n].raw # 0 /\ act[w].prev[n].hash = act[w].tracks[n]

\* The row is SKIPPED with the old answer, or COMPLETED with the answer of
\* the service, and the answer goes into the reduction.
Reads(w, n, answer) ==
  act' = [act EXCEPT ![w].pc = "window", ![w].next = n + 1, ![w].read[n] = answer]

ReuseAnswer(w) ==
  LET n == act[w].next
  IN /\ act[w].pc = "answer" /\ Reusable(w, n)
     /\ runs' = [runs EXCEPT ![act[w].run].row[n] = "SKIPPED"]
     /\ Reads(w, n, act[w].prev[n].raw)
     /\ UNCHANGED <<text, asked, mail, unacked, lock, left, unguarded, spent>>

AskService(w) ==
  LET n == act[w].next
  IN /\ act[w].pc = "answer" /\ ~Reusable(w, n)
     /\ runs' = [runs EXCEPT ![act[w].run].row[n] = "COMPLETED",
                             ![act[w].run].raw[n] = act[w].tracks[n]]
     /\ Reads(w, n, act[w].tracks[n])
     /\ UNCHANGED <<text, asked, mail, unacked, lock, left, unguarded, spent>>

\* The service refuses, or its answer is of no use: the window is FAILED and
\* the run goes on.
ServiceFails(w) ==
  LET n == act[w].next
  IN /\ act[w].pc = "answer" /\ ~Reusable(w, n) /\ Fault
     /\ runs' = [runs EXCEPT ![act[w].run].row[n] = "FAILED"]
     /\ act' = [act EXCEPT ![w].pc = "window", ![w].next = n + 1, ![w].failed = @ + 1]
     /\ UNCHANGED <<text, asked, mail, unacked, lock, left, unguarded>>

AllRead(w) == act[w].pc = "window" /\ act[w].next = WindowCount + 1

\* No window gave anything: the run is FAILED.
GiveUp(w) ==
  /\ AllRead(w) /\ act[w].read = Nothing
  /\ runs' = [runs EXCEPT ![act[w].run].status = "FAILED"]
  /\ Go(w, "release")
  /\ UNCHANGED <<text, asked, mail, unacked, lock, left, unguarded, spent>>

\* The fields are committed first, the status that shows them after that.
Verdict_Ok(w) == IF act[w].failed = 0 THEN "ok" ELSE "partial"
Verdict(w) == IF act[w].failed = 0 THEN "COMPLETED" ELSE "PARTIAL"

SaveFields_WithStatus(w) ==
  /\ AllRead(w) /\ act[w].read # Nothing
  /\ runs' = [runs EXCEPT ![act[w].run].status = Verdict(w)]
  /\ Go(w, "close")
  /\ UNCHANGED <<text, asked, mail, unacked, lock, left, unguarded, spent>>
SaveFields(w) ==
  /\ AllRead(w) /\ act[w].read # Nothing
  /\ runs' = [runs EXCEPT ![act[w].run].fields = act[w].read]
  /\ Go(w, "close")
  /\ UNCHANGED <<text, asked, mail, unacked, lock, left, unguarded, spent>>

CloseRun(w) ==
  /\ act[w].pc = "close"
  /\ runs' = [runs EXCEPT ![act[w].run].status = Verdict(w)]
  /\ Go(w, "release")
  /\ UNCHANGED <<text, asked, mail, unacked, lock, left, unguarded, spent>>

\* Anything else that goes wrong ends the task; the run's row stays as it is.
RunRaises(w) ==
  /\ Busy(w) /\ act[w].pc # "release" /\ Fault
  /\ Go(w, "release")
  /\ UNCHANGED <<text, asked, mail, unacked, lock, left, runs, unguarded>>

----------------------------------------------------------------------------
(* Workers and broker.                                                      *)

\* The worker dies with its task not acknowledged; the lock stays behind.
Crash(w) ==
  /\ Busy(w) /\ Fault
  /\ unacked' = unacked \cup {act[w].req}
  /\ act' = [act EXCEPT ![w] = Idle]
  /\ UNCHANGED <<text, asked, mail, lock, left, runs, unguarded>>

\* The pool child that runs the task is killed: Celery acknowledges the
\* message, as task_reject_on_worker_lost is unset, and the lock stays behind.
Killed(w) ==
  /\ Busy(w) /\ Fault
  /\ left' = (left \/ Holds(w))
  /\ Settle(w, "lost")
  /\ act' = [act EXCEPT ![w] = Idle]
  /\ UNCHANGED <<text, mail, unacked, lock, runs, unguarded>>

\* The visibility timeout is twice the life of the lock: by then it lapsed.
Redeliver(r) ==
  /\ r \in unacked /\ lock # r
  /\ unacked' = unacked \ {r}
  /\ mail' = mail \cup {r}
  /\ UNCHANGED <<text, asked, lock, left, runs, act, unguarded, spent>>

DeliverAgain(w) ==
  /\ Busy(w) /\ lock # act[w].req /\ Fault
  /\ mail' = mail \cup {act[w].req}
  /\ UNCHANGED <<text, asked, unacked, lock, left, runs, act, unguarded>>

----------------------------------------------------------------------------
RunStep(w) ==
  \/ ResolveTracks(w) \/ OpenRun(w) \/ ReadPrevious(w) \/ OpenWindow(w)
  \/ ReuseAnswer(w) \/ AskService(w) \/ GiveUp(w) \/ SaveFields(w) \/ CloseRun(w)
  \/ Release(w)

Next ==
  \/ \E n \in Windows : EditText(n)
  \/ \E r \in Requests : Ask(r)
  \/ \E w \in Workers, r \in Requests : Take(w, r) \/ Refuse(w, r) \/ TakeBlind(w, r)
  \/ \E w \in Workers : RunStep(w)
  \/ \E w \in Workers : ReleaseFails(w) \/ ServiceFails(w) \/ RunRaises(w)
  \/ LockLapses
  \/ \E w \in Workers : Overrun(w) \/ Crash(w) \/ Killed(w) \/ DeliverAgain(w)
  \/ \E r \in Requests : Redeliver(r)

Spec == Init /\ [][Next]_vars

\* A worker that is up takes what is in the broker and goes on with it, a key
\* with a time to live lapses, and the broker delivers what was not
\* acknowledged.  Nothing is assumed of users and failures.
FairSpec ==
  /\ Spec
  /\ \A w \in Workers : WF_vars(RunStep(w))
  /\ \A w \in Workers : WF_vars(\E r \in Requests : Take(w, r) \/ Refuse(w, r))
  /\ WF_vars(LockLapses)
  /\ \A r \in Requests : SF_vars(Redeliver(r))

----------------------------------------------------------------------------
(* Properties.                                                              *)

RunStatus == {"IN_PROGRESS", "COMPLETED", "PARTIAL", "FAILED"}
RowStatus == {"none", "IN_PROGRESS", "COMPLETED", "SKIPPED", "FAILED"}
Steps     == {"idle", "tracks", "open", "previous", "window", "answer", "close", "release"}

RunType == [status : RunStatus, row : [Windows -> RowStatus],
            hash : [Windows -> Nat], raw : [Windows -> Nat], fields : [Windows -> Nat]]
ActType == [pc : Steps, req : Requests \cup {None}, locked : BOOLEAN, run : Nat, next : Nat,
            tracks : [Windows -> Nat], prev : [Windows -> [hash : Nat, raw : Nat]],
            read : [Windows -> Nat], failed : Nat]

\* The type of every variable.
TypeOK ==
  /\ text \in [Windows -> Nat \ {0}]
  /\ asked \in [Requests -> {"new", "sent", "refused", "described", "failed", "lost"}]
  /\ mail \subseteq Requests /\ unacked \subseteq Requests
  /\ lock \in Requests \cup {None} /\ left \in BOOLEAN
  /\ runs \in Seq(RunType)
  /\ act \in [Workers -> ActType]
  /\ \A w \in Workers : Busy(w) => act[w].req \in Requests
  /\ unguarded \in BOOLEAN
  /\ spent \in [edits : Nat, faults : Nat]

\* "A Redis lock so two runs cannot overlap", as far as it goes: as long as
\* no run outlived its lock and Redis always answered, there is one run at a
\* time, in spite of crashes, refusals, failing deletes and redeliveries.
RunsAreAlone ==
  ~unguarded => \A v, w \in Workers : Busy(v) /\ Busy(w) => v = w

\* A run that is shown has its description: it is about every window that is
\* not FAILED, and each answer in it is about the text its window row names,
\* whether the service gave it in this run or in one before.
UsableRunIsWhole ==
  \A i \in Finished : \A n \in Windows :
    /\ runs[i].fields[n] = IF runs[i].row[n] \in {"COMPLETED", "SKIPPED"}
                           THEN runs[i].hash[n] ELSE 0
    /\ runs[i].row[n] = "FAILED" => runs[i].status = "PARTIAL"
    /\ runs[i].row[n] \in {"COMPLETED", "SKIPPED", "FAILED"}

\* The description on the project's page never goes back: of a window that
\* both describe, the next one never shows an older text.
ShownTextNeverGoesBack ==
  [][~unguarded' /\ LatestRun # 0 =>
       \A n \in Windows :
         LET old == runs[LatestRun].fields[n]
             new == runs'[LatestRun'].fields[n]
         IN old # 0 /\ new # 0 => old <= new]_vars

\* "Archival extraction already running": a request that is dropped because
\* of another task's lock is followed by the end of a run, in a description
\* or in a failure that is reported, although the task that had the lock may
\* die and its message may be dropped in its turn.  It is "lost" only where
\* the lock is that of a task already over (its delete failed, or its child
\* was killed), so that nothing is running, or where a child is killed later.
\* One end settles all that were refused before it, and nothing but an outcome
\* takes a request out of Refused: none stays there.
Refused == {r \in Requests : asked[r] = "refused"}
RefusedRequestIsCovered == Refused # {} ~> Refused = {}
=============================================================================
