----------------------- MODULE ArchivalExtractProofs -----------------------
(* The runs of the archival extraction: one at a time as long as the lock   *)
(* is their own, and every run that is shown is whole, for any number of    *)
(* workers, requests, windows, edits and faults.                            *)
EXTENDS ArchivalExtract, WellFoundedInduction, TLAPS

HasRun(w) == act[w].pc \in {"previous", "window", "answer", "close"}
Reading(w) == act[w].pc \in {"window", "answer", "close"}

(* A worker's run has a row, its window is one of the text.                 *)
RunInv ==
  /\ \A w \in Workers : HasRun(w) => act[w].run \in DOMAIN runs
  /\ \A w \in Workers : act[w].pc = "answer" => act[w].next \in Windows

TypeInv == TypeOK /\ RunInv

(* The part of TypeOK that the runs and the workers do not appear in.       *)
OtherTypes ==
  /\ text \in [Windows -> Nat \ {0}]
  /\ asked \in [Requests -> {"new", "sent", "refused", "described", "failed", "lost"}]
  /\ mail \subseteq Requests /\ unacked \subseteq Requests
  /\ lock \in Requests \cup {None} /\ left \in BOOLEAN
  /\ unguarded \in BOOLEAN
  /\ spent \in [edits : Nat, faults : Nat]

WorkerTypes ==
  /\ act \in [Workers -> ActType]
  /\ \A w \in Workers : Busy(w) => act[w].req \in Requests

RunTypes == runs \in Seq(RunType)

LEMMA IdleType == Idle \in ActType
  BY DEF Idle, ActType, Steps, Nothing, NoAnswer

LEMMA StartedType ==
  ASSUME NEW r \in Requests, NEW b \in BOOLEAN
  PROVE  Started(r, b) \in ActType /\ Started(r, b).pc = "tracks" /\ Started(r, b).req = r
  BY IdleType DEF Started, Idle, ActType, Steps, Nothing, NoAnswer

LEMMA FaultType ==
  ASSUME spent \in [edits : Nat, faults : Nat], Fault
  PROVE  spent' \in [edits : Nat, faults : Nat]
  BY DEF Fault

LEMMA OtherTypesStep == OtherTypes /\ WorkerTypes /\ [Next]_vars => OtherTypes'
<1> SUFFICES ASSUME OtherTypes, WorkerTypes, [Next]_vars PROVE OtherTypes'
  OBVIOUS
<1> USE ConstantsAssumption DEF OtherTypes, WorkerTypes
<1>1. ASSUME NEW n \in Windows, EditText(n) PROVE OtherTypes'
  BY <1>1 DEF EditText
<1>2. ASSUME NEW r \in Requests, Ask(r) PROVE OtherTypes'
  BY <1>2 DEF Ask
<1>3. ASSUME NEW w \in Workers, NEW r \in Requests, Take(w, r) \/ Refuse(w, r) \/ TakeBlind(w, r)
      PROVE OtherTypes'
  BY <1>3, FaultType DEF Take, Refuse, TakeBlind
<1>4. ASSUME NEW w \in Workers, Release(w) \/ ReleaseFails(w) PROVE OtherTypes'
  <2>1. left' \in BOOLEAN /\ lock' \in Requests \cup {None}
    BY <1>4 DEF Release, ReleaseFails, Holds, Busy
  <2>2. asked' \in [Requests -> {"new", "sent", "refused", "described", "failed", "lost"}]
    BY <1>4 DEF Release, ReleaseFails, Settle, Outcome
  <2> QED BY <1>4, <2>1, <2>2, FaultType DEF Release, ReleaseFails
<1>5. ASSUME NEW w \in Workers, RunStep(w), ~Release(w) PROVE OtherTypes'
  BY <1>5 DEF RunStep, ResolveTracks, OpenRun, ReadPrevious, OpenWindow, ReuseAnswer, AskService,
              GiveUp, SaveFields, CloseRun
<1>6. ASSUME NEW w \in Workers, ServiceFails(w) \/ RunRaises(w) PROVE OtherTypes'
  BY <1>6, FaultType DEF ServiceFails, RunRaises
<1>7. CASE LockLapses
  BY <1>7 DEF LockLapses
<1>8. ASSUME NEW w \in Workers, Overrun(w) \/ Crash(w) \/ Killed(w) \/ DeliverAgain(w) PROVE OtherTypes'
  <2>1. CASE Killed(w)
    <3>1. left' \in BOOLEAN
      BY <2>1 DEF Killed, Holds, Busy
    <3>2. asked' \in [Requests -> {"new", "sent", "refused", "described", "failed", "lost"}]
      BY <2>1 DEF Killed, Settle
    <3> QED BY <2>1, <3>1, <3>2, FaultType DEF Killed
  <2> QED BY <1>8, <2>1, FaultType DEF Overrun, Crash, DeliverAgain
<1>9. ASSUME NEW r \in Requests, Redeliver(r) PROVE OtherTypes'
  BY <1>9 DEF Redeliver
<1>10. CASE UNCHANGED vars
  BY <1>10 DEF vars
<1> QED BY <1>1, <1>2, <1>3, <1>4, <1>5, <1>6, <1>7, <1>8, <1>9, <1>10 DEF Next

(* A row that is written again is a row.                                    *)
LEMMA RunWritten ==
  ASSUME NEW s \in Seq(RunType), NEW i \in DOMAIN s, NEW x \in RunType
  PROVE  /\ [s EXCEPT ![i] = x] \in Seq(RunType)
         /\ DOMAIN [s EXCEPT ![i] = x] = DOMAIN s
         /\ [s EXCEPT ![i] = x][i] = x
         /\ \A j \in DOMAIN s : j # i => [s EXCEPT ![i] = x][j] = s[j]
  OBVIOUS

(* The run that is shown is the newest one worth it.                        *)
LEMMA Largest ==
  ASSUME NEW n \in Nat, NEW S \in SUBSET (1..n), S # {}
  PROVE  \E i \in S : \A j \in S : j <= i
<1> DEFINE T == {n - i : i \in S}
<1>1. T \subseteq Nat /\ T # {}
  <2>1. \A i \in S : i \in Nat /\ n - i \in Nat
    OBVIOUS
  <2> QED BY <2>1
<1>2. PICK x \in T : \A y \in T : ~(<<y, x>> \in OpToRel(<, Nat))
  <2> HIDE DEF T
  <2> QED BY <1>1, NatLessThanWellFounded, WFMin
<1>3. \A y \in T : ~(y < x)
  BY <1>1, <1>2 DEF OpToRel
<1>4. PICK i \in S : x = n - i
  OBVIOUS
<1>5. \A j \in S : n - j \in T
  OBVIOUS
<1>6. \A j \in S : j \in Nat /\ ~(n - j < n - i)
  BY <1>3, <1>4, <1>5
<1> HIDE DEF T
<1>7. \A j \in S : j <= i
  BY <1>6
<1> QED BY <1>7

LEMMA LatestIsShown ==
  ASSUME RunTypes
  PROVE  /\ Finished = {} => LatestRun = 0
         /\ Finished # {} => LatestRun \in Finished /\ \A j \in Finished : j <= LatestRun
<1>1. Finished \in SUBSET (1..Len(runs)) /\ Len(runs) \in Nat
  BY DEF Finished, RunTypes
<1>2. Finished # {} => \E i \in Finished : \A j \in Finished : j <= i
  BY <1>1, Largest
<1> QED BY <1>2 DEF LatestRun

LEMMA PreviousType ==
  ASSUME RunTypes, NEW r \in Requests
  PROVE  Previous(r) \in [Windows -> [hash : Nat, raw : Nat]]
<1>1. LatestRun # 0 => runs[LatestRun] \in RunType
  BY LatestIsShown DEF Finished, RunTypes
<1> QED BY <1>1 DEF Previous, RunType, NoAnswer

(* What the steps of a worker do to the runs and the workers, as seen from  *)
(* the types: it leaves its run alone or goes on with it.                   *)
WorkInv == WorkerTypes /\ RunTypes /\ RunInv

LEMMA TypeInvParts == TypeInv <=> OtherTypes /\ WorkInv
  BY DEF TypeInv, TypeOK, OtherTypes, WorkInv, WorkerTypes, RunTypes

(* A worker that is given something to do, ends it or dies has no run.      *)
LEMMA LeavesRun ==
  ASSUME WorkInv, UNCHANGED runs, NEW w \in Workers, NEW a \in ActType,
         act' = [act EXCEPT ![w] = a], a.pc \in {"idle", "tracks", "open", "release"},
         a.pc # "idle" => a.req \in Requests
  PROVE  WorkInv'
<1>1. WorkerTypes'
  BY DEF WorkInv, WorkerTypes, Busy
<1>2. RunTypes' /\ RunInv'
  BY DEF WorkInv, WorkerTypes, RunTypes, RunInv, HasRun
<1> QED BY <1>1, <1>2 DEF WorkInv

(* A worker that goes on with its run writes it, and nobody else's.         *)
LEMMA WritesRun ==
  ASSUME WorkInv, NEW w \in Workers, HasRun(w), NEW x \in RunType, NEW a \in ActType,
         runs' = [runs EXCEPT ![act[w].run] = x],
         act' = [act EXCEPT ![w] = a], a.run = act[w].run, a.req = act[w].req,
         a.pc = "answer" => a.next \in Windows
  PROVE  WorkInv'
<1>1. act[w].run \in DOMAIN runs
  BY DEF WorkInv, RunInv
<1>2. RunTypes' /\ DOMAIN runs' = DOMAIN runs
  BY <1>1, RunWritten DEF WorkInv, RunTypes
<1>3. act[w].req \in Requests
  BY DEF WorkInv, WorkerTypes, HasRun, Busy
<1>4. WorkerTypes'
  BY <1>3 DEF WorkInv, WorkerTypes, Busy
<1>5. RunInv'
  BY <1>1, <1>2 DEF WorkInv, WorkerTypes, RunInv, HasRun
<1> QED BY <1>2, <1>4, <1>5 DEF WorkInv

(* The new run.                                                             *)
LEMMA OpenOn ==
  ASSUME NEW a \in ActType, NEW i \in Nat
  PROVE  LET b == [a EXCEPT !.pc = "previous", !.run = i]
         IN  b \in ActType /\ b.pc = "previous" /\ b.req = a.req /\ b.run = i
  BY DEF ActType, Steps

(* The next window.                                                         *)
LEMMA StepOn ==
  ASSUME NEW a \in ActType, NEW answer \in Nat
  PROVE  LET n == a.next
             read == [a EXCEPT !.pc = "window", !.next = n + 1, !.read[n] = answer]
             none == [a EXCEPT !.pc = "window", !.next = n + 1, !.failed = @ + 1]
         IN /\ read \in ActType /\ read.pc = "window" /\ read.run = a.run /\ read.req = a.req
            /\ none \in ActType /\ none.pc = "window" /\ none.run = a.run /\ none.req = a.req
<1>1. a.next + 1 \in Nat /\ a.failed + 1 \in Nat
  BY DEF ActType
<1>2. [a.read EXCEPT ![a.next] = answer] \in [Windows -> Nat]
  BY DEF ActType
<1> QED BY <1>1, <1>2 DEF ActType, Steps

LEMMA WorkStep == OtherTypes /\ WorkInv /\ [Next]_vars => WorkInv'
<1> SUFFICES ASSUME OtherTypes, WorkInv, [Next]_vars PROVE WorkInv'
  OBVIOUS
<1>a. \A w \in Workers : act[w] \in ActType
  BY DEF WorkInv, WorkerTypes
<1>b. \A w \in Workers : HasRun(w) => runs[act[w].run] \in RunType
  BY DEF WorkInv, RunTypes, RunInv
<1>1. ASSUME NEW n \in Windows, EditText(n) PROVE WorkInv'
  BY <1>1 DEF EditText, WorkInv, WorkerTypes, RunTypes, RunInv, HasRun, Busy
<1>2. ASSUME NEW r \in Requests, Ask(r) \/ Redeliver(r) PROVE WorkInv'
  BY <1>2 DEF Ask, Redeliver, WorkInv, WorkerTypes, RunTypes, RunInv, HasRun, Busy
<1>3. ASSUME NEW w \in Workers, NEW r \in Requests, Take(w, r) \/ TakeBlind(w, r)
      PROVE WorkInv'
  <2>1. PICK b \in BOOLEAN : act' = [act EXCEPT ![w] = Started(r, b)] /\ UNCHANGED runs
    BY <1>3 DEF Take, TakeBlind
  <2> QED BY <2>1, StartedType, LeavesRun
<1>4. ASSUME NEW w \in Workers, NEW r \in Requests, Refuse(w, r) PROVE WorkInv'
  BY <1>4 DEF Refuse, WorkInv, WorkerTypes, RunTypes, RunInv, HasRun, Busy
<1>5. ASSUME NEW w \in Workers, Release(w) \/ ReleaseFails(w) \/ Crash(w) \/ Killed(w) PROVE WorkInv'
  <2>1. act' = [act EXCEPT ![w] = Idle] /\ UNCHANGED runs
    BY <1>5 DEF Release, ReleaseFails, Crash, Killed
  <2> QED BY <2>1, IdleType, LeavesRun DEF Idle
<1>6. CASE LockLapses
  BY <1>6 DEF LockLapses, WorkInv, WorkerTypes, RunTypes, RunInv, HasRun, Busy
<1>7. ASSUME NEW w \in Workers, Overrun(w) \/ DeliverAgain(w) PROVE WorkInv'
  BY <1>7 DEF Overrun, DeliverAgain, WorkInv, WorkerTypes, RunTypes, RunInv, HasRun, Busy
<1>8. ASSUME NEW w \in Workers, ResolveTracks(w) PROVE WorkInv'
  <2> DEFINE a == [act[w] EXCEPT !.pc = "open", !.tracks = text]
  <2>1. a \in ActType /\ a.pc = "open" /\ a.req = act[w].req
    BY <1>a DEF OtherTypes, ActType, Steps
  <2>2. act' = [act EXCEPT ![w] = a] /\ UNCHANGED runs
    BY <1>8 DEF ResolveTracks
  <2>3. act[w].req \in Requests
    BY <1>8 DEF ResolveTracks, WorkInv, WorkerTypes, Busy
  <2> HIDE DEF a
  <2> QED BY <2>1, <2>2, <2>3, LeavesRun
<1>9. ASSUME NEW w \in Workers, RunRaises(w) PROVE WorkInv'
  <2> DEFINE a == [act[w] EXCEPT !.pc = "release"]
  <2>1. a \in ActType /\ a.pc = "release" /\ a.req = act[w].req
    BY <1>a DEF ActType, Steps
  <2>2. act' = [act EXCEPT ![w] = a] /\ UNCHANGED runs
    BY <1>9 DEF RunRaises, Go
  <2>3. act[w].req \in Requests
    BY <1>9 DEF RunRaises, WorkInv, WorkerTypes, Busy
  <2> HIDE DEF a
  <2> QED BY <2>1, <2>2, <2>3, LeavesRun
<1>10. ASSUME NEW w \in Workers, OpenRun(w) PROVE WorkInv'
  <2> DEFINE a == [act[w] EXCEPT !.pc = "previous", !.run = Len(runs) + 1]
  <2>0. runs \in Seq(RunType) /\ Len(runs) \in Nat
    BY DEF WorkInv, RunTypes
  <2>i. Len(runs) + 1 \in Nat
    BY <2>0
  <2>1. a \in ActType /\ a.pc = "previous" /\ a.req = act[w].req /\ a.run = Len(runs) + 1
    BY <1>a, <2>i, OpenOn
  <2>2. act' = [act EXCEPT ![w] = a]
    BY <1>10 DEF OpenRun
  <2>3. act[w].req \in Requests
    BY <1>10 DEF OpenRun, WorkInv, WorkerTypes, Busy
  <2>4. NewRun \in RunType
    BY DEF NewRun, RunType, RunStatus, RowStatus, Nothing
  <2>5. runs' \in Seq(RunType) /\ DOMAIN runs' = 1 .. Len(runs) + 1
    BY <1>10, <2>0, <2>4 DEF OpenRun
  <2> HIDE DEF a
  <2>6. WorkerTypes'
    BY <2>1, <2>2, <2>3 DEF WorkInv, WorkerTypes, Busy
  <2>7. RunInv'
    BY <2>0, <2>1, <2>2, <2>5 DEF WorkInv, WorkerTypes, RunInv, HasRun
  <2> QED BY <2>5, <2>6, <2>7 DEF WorkInv, RunTypes
<1>11. ASSUME NEW w \in Workers, ReadPrevious(w) PROVE WorkInv'
  <2> DEFINE a == [act[w] EXCEPT !.pc = "window", !.prev = Previous(act[w].req),
                                 !.next = 1, !.read = Nothing]
  <2>0. act[w].req \in Requests /\ HasRun(w)
    BY <1>11 DEF ReadPrevious, HasRun, WorkInv, WorkerTypes, Busy
  <2>1. Previous(act[w].req) \in [Windows -> [hash : Nat, raw : Nat]]
    BY <2>0, PreviousType DEF WorkInv
  <2>2. a \in ActType /\ a.pc = "window" /\ a.req = act[w].req /\ a.run = act[w].run
    BY <1>a, <2>1 DEF ActType, Steps, Nothing
  <2>3. act' = [act EXCEPT ![w] = a] /\ UNCHANGED runs
    BY <1>11 DEF ReadPrevious
  <2> HIDE DEF a
  <2>4. WorkerTypes'
    BY <2>0, <2>2, <2>3 DEF WorkInv, WorkerTypes, Busy
  <2>5. RunInv'
    BY <2>0, <2>2, <2>3 DEF WorkInv, WorkerTypes, RunInv, HasRun
  <2> QED BY <2>3, <2>4, <2>5 DEF WorkInv, RunTypes
<1>12. ASSUME NEW w \in Workers,
              OpenWindow(w) \/ ReuseAnswer(w) \/ AskService(w) \/ ServiceFails(w)
              \/ GiveUp(w) \/ SaveFields(w) \/ CloseRun(w)
       PROVE  WorkInv'
  <2>0. HasRun(w)
    BY <1>12 DEF HasRun, OpenWindow, ReuseAnswer, AskService, ServiceFails, GiveUp, SaveFields,
                 CloseRun, AllRead
  <2>1. PICK x \in RunType, a \in ActType :
          /\ runs' = [runs EXCEPT ![act[w].run] = x] /\ act' = [act EXCEPT ![w] = a]
          /\ a.run = act[w].run /\ a.req = act[w].req
          /\ a.pc = "answer" => a.next \in Windows
    <3> DEFINE n == act[w].next
               i == act[w].run
    <3>0. act[w] \in ActType /\ runs[i] \in RunType /\ (act[w].pc = "answer" => n \in Windows)
      BY <1>a, <1>b, <2>0 DEF WorkInv, RunInv
    <3>1. CASE OpenWindow(w)
      <4> DEFINE x == [runs[i] EXCEPT !.row[n] = "IN_PROGRESS", !.hash[n] = act[w].tracks[n]]
                 a == [act[w] EXCEPT !.pc = "answer"]
      <4>1. n \in Windows
        BY <3>1 DEF OpenWindow
      <4>2. x \in RunType
        BY <3>0, <4>1 DEF RunType, ActType, RowStatus
      <4>3. a \in ActType /\ a.run = i /\ a.req = act[w].req /\ a.next \in Windows
        BY <3>0, <4>1 DEF ActType, Steps
      <4>4. runs' = [runs EXCEPT ![i] = x] /\ act' = [act EXCEPT ![w] = a]
        BY <3>1 DEF OpenWindow, Go
      <4> QED BY <4>2, <4>3, <4>4
    <3>2. CASE ReuseAnswer(w) \/ AskService(w)
      <4>1. n \in Windows
        BY <3>0, <3>2 DEF ReuseAnswer, AskService
      <4>2. PICK answer \in Nat : Reads(w, n, answer)
        BY <3>0, <3>2, <4>1 DEF ReuseAnswer, AskService, ActType
      <4> DEFINE a == [act[w] EXCEPT !.pc = "window", !.next = n + 1, !.read[n] = answer]
      <4>3. a \in ActType /\ a.pc = "window" /\ a.run = i /\ a.req = act[w].req
        BY <3>0, StepOn
      <4>4. act' = [act EXCEPT ![w] = a]
        BY <4>2 DEF Reads
      <4>5. CASE ReuseAnswer(w)
        <5> DEFINE x == [runs[i] EXCEPT !.row[n] = "SKIPPED"]
        <5>1. x \in RunType /\ runs' = [runs EXCEPT ![i] = x]
          BY <3>0, <4>5 DEF RunType, RowStatus, ReuseAnswer
        <5> QED BY <4>3, <4>4, <5>1
      <4>6. CASE AskService(w)
        <5> DEFINE x == [runs[i] EXCEPT !.row[n] = "COMPLETED", !.raw[n] = act[w].tracks[n]]
        <5>1. x \in RunType /\ runs' = [runs EXCEPT ![i] = x]
          BY <3>0, <4>1, <4>6 DEF RunType, RowStatus, AskService, ActType
        <5> QED BY <4>3, <4>4, <5>1
      <4> QED BY <3>2, <4>5, <4>6
    <3>3. CASE ServiceFails(w)
      <4> DEFINE x == [runs[i] EXCEPT !.row[n] = "FAILED"]
                 a == [act[w] EXCEPT !.pc = "window", !.next = n + 1, !.failed = @ + 1]
      <4>1. x \in RunType
        BY <3>0 DEF RunType, RowStatus
      <4>2. a \in ActType /\ a.pc = "window" /\ a.run = i /\ a.req = act[w].req
        BY <3>0, StepOn
      <4>3. runs' = [runs EXCEPT ![i] = x] /\ act' = [act EXCEPT ![w] = a]
        BY <3>3 DEF ServiceFails
      <4> QED BY <4>1, <4>2, <4>3
    <3>4. CASE GiveUp(w) \/ CloseRun(w)
      <4> DEFINE a == [act[w] EXCEPT !.pc = "release"]
      <4>1. PICK s \in RunStatus : runs' = [runs EXCEPT ![i] = [runs[i] EXCEPT !.status = s]]
        BY <3>4 DEF GiveUp, CloseRun, Verdict, RunStatus
      <4>2. [runs[i] EXCEPT !.status = s] \in RunType
        BY <3>0 DEF RunType
      <4>3. a \in ActType /\ a.pc = "release" /\ a.run = i /\ a.req = act[w].req
        BY <3>0 DEF ActType, Steps
      <4>4. act' = [act EXCEPT ![w] = a]
        BY <3>4 DEF GiveUp, CloseRun, Go
      <4> QED BY <4>1, <4>2, <4>3, <4>4
    <3>5. CASE SaveFields(w)
      <4> DEFINE x == [runs[i] EXCEPT !.fields = act[w].read]
                 a == [act[w] EXCEPT !.pc = "close"]
      <4>1. x \in RunType
        BY <3>0 DEF RunType, ActType
      <4>2. a \in ActType /\ a.pc = "close" /\ a.run = i /\ a.req = act[w].req
        BY <3>0 DEF ActType, Steps
      <4>3. runs' = [runs EXCEPT ![i] = x] /\ act' = [act EXCEPT ![w] = a]
        BY <3>5 DEF SaveFields, Go
      <4> QED BY <4>1, <4>2, <4>3
    <3> QED BY <1>12, <3>1, <3>2, <3>3, <3>4, <3>5
  <2> QED BY <2>0, <2>1, WritesRun
<1>13. CASE UNCHANGED vars
  BY <1>13 DEF vars, WorkInv, WorkerTypes, RunTypes, RunInv, HasRun, Busy
<1> QED BY <1>1, <1>2, <1>3, <1>4, <1>5, <1>6, <1>7, <1>8, <1>9, <1>10, <1>11, <1>12, <1>13
        DEF Next, RunStep

LEMMA InitTypes == Init => TypeInv
<1> SUFFICES ASSUME Init PROVE TypeInv
  OBVIOUS
<1>1. \A w \in Workers : act[w] = Idle
  BY DEF Init
<1>2. act \in [Workers -> ActType]
  BY IdleType DEF Init
<1>3. OtherTypes
  <2>1. text \in [Windows -> Nat \ {0}] /\ asked \in [Requests -> {"new", "sent", "refused", "described", "failed", "lost"}]
    BY DEF Init
  <2>2. mail \subseteq Requests /\ unacked \subseteq Requests /\ lock \in Requests \cup {None}
       /\ left \in BOOLEAN
    BY DEF Init
  <2>3. unguarded \in BOOLEAN /\ spent \in [edits : Nat, faults : Nat]
    BY DEF Init
  <2> QED BY <2>1, <2>2, <2>3 DEF OtherTypes
<1>4. RunTypes
  BY DEF Init, RunTypes
<1>5. WorkerTypes /\ RunInv
  BY <1>1, <1>2 DEF WorkerTypes, RunInv, Busy, HasRun, Idle
<1> QED BY <1>3, <1>4, <1>5, TypeInvParts DEF WorkInv

LEMMA TypeInvStep == TypeInv /\ [Next]_vars => TypeInv'
<1> SUFFICES ASSUME TypeInv, [Next]_vars PROVE TypeInv'
  OBVIOUS
<1>1. OtherTypes' /\ WorkInv'
  BY TypeInvParts, OtherTypesStep, WorkStep DEF WorkInv
<1>2. (OtherTypes /\ WorkInv)' => TypeInv'
  BY DEF TypeInv, TypeOK, OtherTypes, WorkInv, WorkerTypes, RunTypes
<1> QED BY <1>1, <1>2

LEMMA TypeInvariance == Spec => []TypeInv
  BY InitTypes, TypeInvStep, PTL DEF Spec

(* TypeOK: the type of every variable, in every state.                      *)
THEOREM TypeCorrect == Spec => []TypeOK
<1>1. TypeInv => TypeOK
  BY DEF TypeInv
<1> QED BY <1>1, TypeInvariance, PTL

----------------------------------------------------------------------------
(* One run at a time.  As long as nobody goes on without the lock, who is   *)
(* busy has it.                                                             *)
GuardInv ==
  ~unguarded =>
    /\ \A w \in Workers : Busy(w) => act[w].locked /\ lock = act[w].req
    /\ \A v, w \in Workers : Busy(v) /\ Busy(w) => v = w

(* A step of a run keeps the lock as it is, and the worker busy with it.    *)
KeepsLock ==
  /\ UNCHANGED <<lock, unguarded>>
  /\ \A w \in Workers :
       /\ Busy(w)' = Busy(w)
       /\ act'[w].req = act[w].req /\ act'[w].locked = act[w].locked

LEMMA RunStepKeepsLock ==
  ASSUME WorkInv, NEW w \in Workers,
         (RunStep(w) /\ ~Release(w)) \/ ServiceFails(w) \/ RunRaises(w)
  PROVE  KeepsLock
<1>a. act \in [Workers -> ActType]
  BY DEF WorkInv, WorkerTypes
<1>b. /\ UNCHANGED <<lock, unguarded>>
      /\ act[w].pc # "idle"
      /\ \A v \in Workers : v # w => act'[v] = act[v]
      /\ act'[w].pc # "idle" /\ act'[w].req = act[w].req /\ act'[w].locked = act[w].locked
  <2> USE <1>a DEF ActType
  <2>1. CASE ResolveTracks(w)
    BY <2>1 DEF ResolveTracks
  <2>2. CASE OpenRun(w) \/ ReadPrevious(w)
    BY <2>2 DEF OpenRun, ReadPrevious
  <2>3. CASE OpenWindow(w) \/ SaveFields(w) \/ GiveUp(w) \/ CloseRun(w)
    BY <2>3 DEF OpenWindow, SaveFields, GiveUp, CloseRun, AllRead, Go
  <2>4. CASE RunRaises(w)
    BY <2>4 DEF RunRaises, Go, Busy
  <2>5. CASE ReuseAnswer(w) \/ AskService(w)
    <3>1. UNCHANGED <<lock, unguarded>> /\ act[w].pc # "idle"
      BY <2>5 DEF ReuseAnswer, AskService
    <3>2. PICK n, x : Reads(w, n, x)
      BY <2>5 DEF ReuseAnswer, AskService
    <3>3. /\ \A v \in Workers : v # w => act'[v] = act[v]
          /\ act'[w].pc = "window" /\ act'[w].req = act[w].req /\ act'[w].locked = act[w].locked
      BY <3>2 DEF Reads
    <3> QED BY <3>1, <3>3
  <2>6. CASE ServiceFails(w)
    BY <2>6 DEF ServiceFails
  <2> QED BY <2>1, <2>2, <2>3, <2>4, <2>5, <2>6 DEF RunStep
<1> QED BY <1>b DEF KeepsLock, Busy

LEMMA GuardStep == TypeInv /\ GuardInv /\ [Next]_vars => GuardInv'
<1> SUFFICES ASSUME TypeInv, GuardInv, [Next]_vars PROVE GuardInv'
  OBVIOUS
<1>t. WorkInv /\ OtherTypes
  BY TypeInvParts
<1>a. act \in [Workers -> ActType] /\ None \notin Requests
      /\ \A w \in Workers : Busy(w) => act[w].req \in Requests
  BY <1>t, ConstantsAssumption DEF WorkInv, WorkerTypes
<1>k. KeepsLock => GuardInv'
  BY DEF KeepsLock, GuardInv
<1>1. ASSUME NEW n \in Windows, EditText(n) PROVE GuardInv'
  BY <1>1 DEF EditText, GuardInv, Busy
<1>2. ASSUME NEW r \in Requests, Ask(r) \/ Redeliver(r) PROVE GuardInv'
  BY <1>2 DEF Ask, Redeliver, GuardInv, Busy
<1>3. ASSUME NEW w \in Workers, NEW r \in Requests, Take(w, r) PROVE GuardInv'
  <2>1. ~unguarded => \A v \in Workers : ~Busy(v)
    BY <1>3, <1>a DEF Take, GuardInv
  <2>2. /\ \A v \in Workers : v # w => act'[v] = act[v]
        /\ act'[w].req = r /\ act'[w].locked = TRUE /\ lock' = r /\ unguarded' = unguarded
    BY <1>3, <1>a DEF Take, Started, Idle
  <2> QED BY <2>1, <2>2 DEF GuardInv, Busy
<1>4. ASSUME NEW w \in Workers, NEW r \in Requests, Refuse(w, r) PROVE GuardInv'
  BY <1>4 DEF Refuse, GuardInv, Busy
<1>5. ASSUME NEW w \in Workers, NEW r \in Requests, TakeBlind(w, r) PROVE GuardInv'
  BY <1>5 DEF TakeBlind, GuardInv
<1>6. ASSUME NEW w \in Workers, Release(w) \/ ReleaseFails(w) \/ Crash(w) \/ Killed(w) PROVE GuardInv'
  <2>1. ~unguarded => \A v \in Workers : v # w => ~Busy(v)
    BY <1>6 DEF Release, ReleaseFails, Crash, Killed, GuardInv, Busy
  <2>2. act' = [act EXCEPT ![w] = Idle] /\ unguarded' = unguarded
    BY <1>6 DEF Release, ReleaseFails, Crash, Killed
  <2>3. \A v \in Workers : v # w => act'[v] = act[v]
    BY <1>a, <2>2
  <2>4. ~Busy(w)'
    BY <1>a, <2>2 DEF Busy, Idle
  <2> QED BY <2>1, <2>2, <2>3, <2>4 DEF GuardInv, Busy
<1>7. CASE LockLapses
  <2>1. ~unguarded => \A v \in Workers : ~Busy(v)
    BY <1>7 DEF LockLapses, GuardInv, Holds
  <2> QED BY <1>7, <2>1 DEF LockLapses, GuardInv, Busy
<1>8. ASSUME NEW w \in Workers, RunStep(w) \/ ServiceFails(w) \/ RunRaises(w) PROVE GuardInv'
  BY <1>8, <1>6, <1>t, <1>k, RunStepKeepsLock
<1>9. ASSUME NEW w \in Workers, DeliverAgain(w) PROVE GuardInv'
  BY <1>9 DEF DeliverAgain, GuardInv, Busy
<1>10. ASSUME NEW w \in Workers, Overrun(w) PROVE GuardInv'
  BY <1>10 DEF Overrun, GuardInv
<1>11. CASE UNCHANGED vars
  BY <1>11 DEF vars, GuardInv, Busy
<1> QED BY <1>1, <1>2, <1>3, <1>4, <1>5, <1>6, <1>7, <1>8, <1>9, <1>10, <1>11 DEF Next

(* RunsAreAlone: without an overrun or a silent Redis there is one run at a *)
(* time.                                                                    *)
THEOREM OneRunAtATime == Spec => []RunsAreAlone
<1>1. Init => GuardInv
  BY DEF Init, GuardInv, Busy, Idle
<1>2. TypeInv /\ GuardInv /\ [Next]_vars => GuardInv'
  BY GuardStep
<1>3. GuardInv => RunsAreAlone
  BY DEF GuardInv, RunsAreAlone
<1>4. Spec => []TypeInv
  BY TypeInvariance
<1> QED BY <1>1, <1>2, <1>3, <1>4, PTL DEF Spec

----------------------------------------------------------------------------
(* The run that is shown is whole.                                          *)

(* What has been read of the run so far: its rows up to the next window     *)
(* have their outcome, and the answers are about the text in the rows.      *)
ReadSoFar(a, x) ==
  /\ \A n \in Windows : n < a.next =>
       /\ x.row[n] \in {"COMPLETED", "SKIPPED", "FAILED"}
       /\ x.hash[n] = a.tracks[n]
       /\ a.read[n] = IF x.row[n] = "FAILED" THEN 0 ELSE x.hash[n]
       /\ x.row[n] = "FAILED" => a.failed # 0
  /\ \A n \in Windows : ~(n < a.next) => a.read[n] = 0
  /\ a.pc = "answer" => x.hash[a.next] = a.tracks[a.next] /\ x.row[a.next] = "IN_PROGRESS"
  /\ a.pc = "close" => a.next = WindowCount + 1 /\ x.fields = a.read

\* Answers are about the text the row names ...
Answers(x) == \A n \in Windows : x.row[n] = "COMPLETED" => x.raw[n] = x.hash[n]
\* ... and so are those that may be used again.
Again(a) == \A n \in Windows : a.prev[n].raw # 0 => a.prev[n].raw = a.prev[n].hash

Whole(x) ==
  \A n \in Windows :
    /\ x.fields[n] = IF x.row[n] \in {"COMPLETED", "SKIPPED"} THEN x.hash[n] ELSE 0
    /\ x.row[n] = "FAILED" => x.status = "PARTIAL"
    /\ x.row[n] \in {"COMPLETED", "SKIPPED", "FAILED"}

RowOK(x) == Answers(x) /\ (x.status \in Usable => Whole(x))

(* No two workers write one row, and the row is open as long as one does.   *)
OwnInv ==
  /\ \A v, w \in Workers : HasRun(v) /\ HasRun(w) /\ v # w => act[v].run # act[w].run
  /\ \A w \in Workers : HasRun(w) => runs[act[w].run].status = "IN_PROGRESS"
RowInv == \A i \in DOMAIN runs : RowOK(runs[i])
ReadInv ==
  \A w \in Workers : Reading(w) => Again(act[w]) /\ ReadSoFar(act[w], runs[act[w].run])

WholeInv == OwnInv /\ RowInv /\ ReadInv

(* Steps that write no run, of workers that have none afterwards.           *)
LEMMA WholeWithoutRun ==
  ASSUME WorkInv, WholeInv, UNCHANGED runs,
         \A w \in Workers : act'[w] = act[w] \/ ~HasRun(w)'
  PROVE  WholeInv'
<1>1. OwnInv'
  BY DEF WholeInv, OwnInv, HasRun
<1>2. RowInv'
  BY DEF WholeInv, RowInv
<1>3. ReadInv'
  BY DEF WholeInv, ReadInv, HasRun, Reading
<1> QED BY <1>1, <1>2, <1>3 DEF WholeInv

(* Steps that write the worker's own row.                                   *)
LEMMA WholeWithRun ==
  ASSUME WorkInv, WholeInv, NEW w \in Workers, HasRun(w), NEW x \in RunType, NEW a \in ActType,
         runs' = [runs EXCEPT ![act[w].run] = x], act' = [act EXCEPT ![w] = a],
         a.run = act[w].run, RowOK(x),
         x.status = "IN_PROGRESS" \/ a.pc = "release",
         a.pc \in {"window", "answer", "close"} => Again(a) /\ ReadSoFar(a, x)
  PROVE  WholeInv'
<1>1. /\ act[w].run \in DOMAIN runs /\ runs \in Seq(RunType) /\ act \in [Workers -> ActType]
      /\ \A v \in Workers : HasRun(v) => act[v].run \in DOMAIN runs
  BY DEF WorkInv, WorkerTypes, RunTypes, RunInv
<1>2. /\ DOMAIN runs' = DOMAIN runs /\ runs'[act[w].run] = x
      /\ \A j \in DOMAIN runs : j # act[w].run => runs'[j] = runs[j]
  BY <1>1, RunWritten
<1>3. act'[w] = a /\ \A v \in Workers : v # w => act'[v] = act[v]
  BY <1>1
<1>4. \A v \in Workers : v # w /\ HasRun(v) => runs'[act[v].run] = runs[act[v].run]
  BY <1>1, <1>2 DEF WholeInv, OwnInv
<1>5. OwnInv'
  BY <1>1, <1>2, <1>3, <1>4 DEF WholeInv, OwnInv, HasRun
<1>6. RowInv'
  BY <1>2 DEF WholeInv, RowInv
<1>7. ReadInv'
  BY <1>2, <1>3, <1>4 DEF WholeInv, ReadInv, Reading, HasRun
<1> QED BY <1>5, <1>6, <1>7 DEF WholeInv

(* The windows up to the next one, when the next one has its outcome.       *)
LEMMA OneMore ==
  ASSUME NEW a \in ActType, NEW x \in RunType, NEW row \in {"COMPLETED", "SKIPPED", "FAILED"},
         NEW raw \in [Windows -> Nat],
         ReadSoFar(a, x), a.pc = "answer", a.next \in Windows,
         NEW b \in ActType, b.pc = "window", b.next = a.next + 1, b.tracks = a.tracks,
         b.read = [a.read EXCEPT ![a.next] = IF row = "FAILED" THEN 0 ELSE a.tracks[a.next]],
         b.failed = a.failed \/ b.failed = a.failed + 1,
         row = "FAILED" => b.failed = a.failed + 1
  PROVE  ReadSoFar(b, [x EXCEPT !.row[a.next] = row, !.raw = raw])
<1> DEFINE y == [x EXCEPT !.row[a.next] = row, !.raw = raw]
<1>1. /\ y.hash = x.hash /\ y.row[a.next] = row
      /\ \A n \in Windows : n # a.next => y.row[n] = x.row[n]
  BY DEF RunType
<1>2. /\ a.next \in Nat /\ a.failed \in Nat /\ a.read \in [Windows -> Nat]
      /\ \A n \in Windows : n \in Nat
  <2>1. \A n \in Windows : n \in Nat
    BY DEF Windows
  <2> QED BY <2>1 DEF ActType
<1> HIDE DEF y
<1>3. ASSUME NEW n \in Windows, n < b.next
      PROVE  /\ y.row[n] \in {"COMPLETED", "SKIPPED", "FAILED"}
             /\ y.hash[n] = b.tracks[n]
             /\ b.read[n] = IF y.row[n] = "FAILED" THEN 0 ELSE y.hash[n]
             /\ y.row[n] = "FAILED" => b.failed # 0
  <2>1. CASE n = a.next
    BY <1>1, <1>2, <2>1 DEF ReadSoFar
  <2>2. CASE n # a.next
    <3>1. n < a.next
      BY <1>2, <1>3, <2>2
    <3> QED BY <1>1, <1>2, <2>2, <3>1 DEF ReadSoFar
  <2> QED BY <2>1, <2>2
<1>4. ASSUME NEW n \in Windows, ~(n < b.next) PROVE b.read[n] = 0
  <2>1. n # a.next /\ ~(n < a.next)
    BY <1>2, <1>4
  <2> QED BY <1>2, <2>1 DEF ReadSoFar
<1>5. ReadSoFar(b, y)
  BY <1>3, <1>4 DEF ReadSoFar
<1> QED BY <1>5 DEF y

LEMMA RunStepWhole ==
  ASSUME TypeInv, WholeInv, NEW w \in Workers,
         OpenWindow(w) \/ ReuseAnswer(w) \/ AskService(w) \/ ServiceFails(w)
         \/ GiveUp(w) \/ SaveFields(w) \/ CloseRun(w)
  PROVE  WholeInv'
<1> DEFINE n == act[w].next
           i == act[w].run
           x == runs[i]
<1>0. HasRun(w) /\ Reading(w)
  BY DEF HasRun, Reading, OpenWindow, ReuseAnswer, AskService, ServiceFails, GiveUp, SaveFields,
         CloseRun, AllRead
<1>1. /\ WorkInv /\ act[w] \in ActType /\ x \in RunType /\ i \in DOMAIN runs
      /\ act[w].pc = "answer" => n \in Windows
  BY <1>0, TypeInvParts DEF WorkInv, WorkerTypes, RunTypes, RunInv
<1>2. /\ x.status = "IN_PROGRESS" /\ RowOK(x)
      /\ Again(act[w]) /\ ReadSoFar(act[w], x)
  BY <1>0, <1>1 DEF WholeInv, OwnInv, RowInv, ReadInv
<1>3. CASE OpenWindow(w)
  <2> DEFINE y == [x EXCEPT !.row[n] = "IN_PROGRESS", !.hash[n] = act[w].tracks[n]]
             a == [act[w] EXCEPT !.pc = "answer"]
  <2>1. n \in Windows /\ act[w].pc = "window"
    BY <1>3 DEF OpenWindow
  <2>2. y \in RunType /\ a \in ActType /\ a.run = i
    BY <1>1, <2>1 DEF RunType, ActType, RowStatus, Steps
  <2>3. runs' = [runs EXCEPT ![i] = y] /\ act' = [act EXCEPT ![w] = a]
    BY <1>3 DEF OpenWindow, Go
  <2>4. /\ y.status = "IN_PROGRESS" /\ y.raw = x.raw
        /\ y.row[n] = "IN_PROGRESS" /\ y.hash[n] = act[w].tracks[n]
        /\ \A m \in Windows : m # n => y.row[m] = x.row[m] /\ y.hash[m] = x.hash[m]
    BY <1>1, <1>2, <2>1 DEF RunType
  <2>5. /\ a.next = n /\ a.tracks = act[w].tracks /\ a.read = act[w].read
        /\ a.failed = act[w].failed /\ a.prev = act[w].prev /\ a.pc = "answer"
    BY <1>1 DEF ActType
  <2> HIDE DEF y, a
  <2>6. RowOK(y)
    BY <1>2, <2>4 DEF RowOK, Answers, Usable
  <2>7. Again(a)
    BY <1>2, <2>5 DEF Again
  <2>8. ReadSoFar(a, y)
    <3>1. n \in Nat /\ Windows \subseteq Nat
      BY <2>1 DEF Windows
    <3>2. ReadSoFar(act[w], x)
      BY <1>2
    <3> HIDE DEF n, x
    <3>3. ASSUME NEW m \in Windows, m < n
          PROVE  /\ y.row[m] = x.row[m] /\ y.hash[m] = x.hash[m]
                 /\ x.row[m] \in {"COMPLETED", "SKIPPED", "FAILED"}
                 /\ x.hash[m] = act[w].tracks[m]
                 /\ act[w].read[m] = IF x.row[m] = "FAILED" THEN 0 ELSE x.hash[m]
                 /\ x.row[m] = "FAILED" => act[w].failed # 0
      <4>1. m # n
        BY <3>1, <3>3
      <4>2. m < act[w].next
        BY <3>3 DEF n
      <4> QED BY <2>4, <3>2, <4>1, <4>2 DEF ReadSoFar
    <3>4. \A m \in Windows : ~(m < n) => act[w].read[m] = 0
      BY <3>2 DEF ReadSoFar, n
    <3> QED BY <2>4, <2>5, <3>3, <3>4 DEF ReadSoFar
  <2> QED BY <1>0, <1>1, <2>2, <2>3, <2>4, <2>6, <2>7, <2>8, WholeWithRun
<1>4. CASE ReuseAnswer(w) \/ AskService(w)
  <2>1. n \in Windows /\ act[w].pc = "answer"
    BY <1>1, <1>4 DEF ReuseAnswer, AskService
  <2>t. act[w].tracks[n] \in Nat /\ x.raw \in [Windows -> Nat]
    BY <1>1, <2>1 DEF ActType, RunType
  <2> DEFINE a == [act[w] EXCEPT !.pc = "window", !.next = n + 1, !.read[n] = act[w].tracks[n]]
  <2>2. act' = [act EXCEPT ![w] = a]
    <3>1. CASE ReuseAnswer(w)
      <4>1. act[w].prev[n].raw = act[w].tracks[n]
        BY <1>2, <2>1, <3>1 DEF ReuseAnswer, Reusable, Again
      <4> QED BY <3>1, <4>1 DEF ReuseAnswer, Reads
    <3>2. CASE AskService(w)
      BY <3>2 DEF AskService, Reads
    <3> QED BY <1>4, <3>1, <3>2
  <2>3. PICK row \in {"COMPLETED", "SKIPPED"}, raw \in [Windows -> Nat] :
          /\ runs' = [runs EXCEPT ![i] = [x EXCEPT !.row[n] = row, !.raw = raw]]
          /\ row = "COMPLETED" => raw[n] = act[w].tracks[n]
          /\ \A m \in Windows : m # n => raw[m] = x.raw[m]
    <3>1. CASE ReuseAnswer(w)
      <4>1. runs' = [runs EXCEPT ![i] = [x EXCEPT !.row[n] = "SKIPPED", !.raw = x.raw]]
        BY <1>1, <3>1 DEF ReuseAnswer, RunType
      <4> QED BY <2>t, <4>1
    <3>2. CASE AskService(w)
      <4> DEFINE raw == [x.raw EXCEPT ![n] = act[w].tracks[n]]
      <4>1. runs' = [runs EXCEPT ![i] = [x EXCEPT !.row[n] = "COMPLETED", !.raw = raw]]
        BY <1>1, <3>2 DEF AskService, RunType
      <4>2. raw \in [Windows -> Nat] /\ raw[n] = act[w].tracks[n]
            /\ \A m \in Windows : m # n => raw[m] = x.raw[m]
        BY <2>t, <2>1
      <4> QED BY <4>1, <4>2
    <3> QED BY <1>4, <3>1, <3>2
  <2> DEFINE y == [x EXCEPT !.row[n] = row, !.raw = raw]
  <2>4. a \in ActType /\ a.run = i /\ a.pc = "window"
    BY <1>1, <2>t, StepOn
  <2>5. /\ a.next = n + 1 /\ a.tracks = act[w].tracks /\ a.failed = act[w].failed
        /\ a.read = [act[w].read EXCEPT ![n] = act[w].tracks[n]] /\ a.prev = act[w].prev
    BY <1>1 DEF ActType
  <2>6. /\ y \in RunType /\ y.status = "IN_PROGRESS" /\ y.hash = x.hash /\ y.raw = raw
        /\ y.row[n] = row /\ \A m \in Windows : m # n => y.row[m] = x.row[m]
    BY <1>1, <1>2, <2>1 DEF RunType, RowStatus
  <2> HIDE DEF a
  <2>7. ReadSoFar(a, y)
    BY <1>1, <1>2, <2>1, <2>4, <2>5, OneMore
  <2>8. runs' = [runs EXCEPT ![i] = y]
    BY <2>3
  <2> HIDE DEF y
  <2>9. RowOK(y)
    <3>1. x.hash[n] = act[w].tracks[n]
      BY <1>2, <2>1 DEF ReadSoFar
    <3> QED BY <1>2, <2>3, <2>6, <3>1 DEF RowOK, Answers, Usable
  <2>10. Again(a)
    BY <1>2, <2>5 DEF Again
  <2> QED BY <1>0, <1>1, <2>2, <2>4, <2>6, <2>7, <2>8, <2>9, <2>10, WholeWithRun
<1>5. CASE ServiceFails(w)
  <2>1. n \in Windows /\ act[w].pc = "answer"
    BY <1>1, <1>5 DEF ServiceFails
  <2> DEFINE y == [x EXCEPT !.row[n] = "FAILED", !.raw = x.raw]
             a == [act[w] EXCEPT !.pc = "window", !.next = n + 1, !.failed = @ + 1]
  <2>2. a \in ActType /\ a.run = i /\ a.pc = "window"
    BY <1>1, StepOn
  <2>3. /\ a.next = n + 1 /\ a.tracks = act[w].tracks /\ a.failed = act[w].failed + 1
        /\ a.read = act[w].read /\ a.prev = act[w].prev
    BY <1>1 DEF ActType
  <2>4. a.read = [act[w].read EXCEPT ![n] = 0]
    <3>1. act[w].read[n] = 0 /\ act[w].read \in [Windows -> Nat]
      BY <1>1, <1>2, <2>1 DEF ReadSoFar, ActType, Windows
    <3> QED BY <2>3, <3>1
  <2>5. /\ y \in RunType /\ y.status = "IN_PROGRESS" /\ y.hash = x.hash /\ y.raw = x.raw
        /\ y.row[n] = "FAILED" /\ \A m \in Windows : m # n => y.row[m] = x.row[m]
        /\ x.raw \in [Windows -> Nat]
    BY <1>1, <1>2, <2>1 DEF RunType, RowStatus
  <2>6. runs' = [runs EXCEPT ![i] = y] /\ act' = [act EXCEPT ![w] = a]
    BY <1>1, <1>5 DEF ServiceFails, RunType
  <2> HIDE DEF a
  <2>7. ReadSoFar(a, y)
    BY <1>1, <1>2, <2>1, <2>2, <2>3, <2>4, <2>5, OneMore
  <2> HIDE DEF y
  <2>8. RowOK(y)
    BY <1>2, <2>5 DEF RowOK, Answers, Usable
  <2>9. Again(a)
    BY <1>2, <2>3 DEF Again
  <2> QED BY <1>0, <1>1, <2>2, <2>5, <2>6, <2>7, <2>8, <2>9, WholeWithRun
<1>6. CASE GiveUp(w)
  <2> DEFINE y == [x EXCEPT !.status = "FAILED"]
             a == [act[w] EXCEPT !.pc = "release"]
  <2>1. runs' = [runs EXCEPT ![i] = y] /\ act' = [act EXCEPT ![w] = a]
    BY <1>6 DEF GiveUp, Go
  <2>2. y \in RunType /\ y.status = "FAILED" /\ y.row = x.row /\ y.raw = x.raw /\ y.hash = x.hash
    BY <1>1 DEF RunType, RunStatus
  <2>3. a \in ActType /\ a.run = i /\ a.pc = "release"
    BY <1>1 DEF ActType, Steps
  <2> HIDE DEF y, a
  <2>4. RowOK(y)
    BY <1>2, <2>2 DEF RowOK, Answers, Usable
  <2> QED BY <1>0, <1>1, <2>1, <2>2, <2>3, <2>4, WholeWithRun
<1>7. CASE SaveFields(w)
  <2> DEFINE y == [x EXCEPT !.fields = act[w].read]
             a == [act[w] EXCEPT !.pc = "close"]
  <2>1. runs' = [runs EXCEPT ![i] = y] /\ act' = [act EXCEPT ![w] = a]
    BY <1>7 DEF SaveFields, Go
  <2>2. /\ y \in RunType /\ y.status = "IN_PROGRESS" /\ y.fields = act[w].read
        /\ y.row = x.row /\ y.raw = x.raw /\ y.hash = x.hash
    BY <1>1, <1>2 DEF RunType, ActType
  <2>3. /\ a \in ActType /\ a.run = i /\ a.pc = "close" /\ a.next = n /\ a.read = act[w].read
        /\ a.tracks = act[w].tracks /\ a.failed = act[w].failed /\ a.prev = act[w].prev
    BY <1>1 DEF ActType, Steps
  <2>4. n = WindowCount + 1
    BY <1>7 DEF SaveFields, AllRead
  <2> HIDE DEF y, a
  <2>5. RowOK(y)
    BY <1>2, <2>2 DEF RowOK, Answers, Usable
  <2>6. Again(a) /\ ReadSoFar(a, y)
    BY <1>2, <2>2, <2>3, <2>4 DEF Again, ReadSoFar
  <2> QED BY <1>0, <1>1, <2>1, <2>2, <2>3, <2>5, <2>6, WholeWithRun
<1>8. CASE CloseRun(w)
  <2> DEFINE y == [x EXCEPT !.status = Verdict(w)]
             a == [act[w] EXCEPT !.pc = "release"]
  <2>1. runs' = [runs EXCEPT ![i] = y] /\ act' = [act EXCEPT ![w] = a]
    BY <1>8 DEF CloseRun, Go
  <2>2. /\ y \in RunType /\ y.status = Verdict(w) /\ y.fields = x.fields
        /\ y.row = x.row /\ y.raw = x.raw /\ y.hash = x.hash
    BY <1>1 DEF RunType, RunStatus, Verdict
  <2>3. a \in ActType /\ a.run = i /\ a.pc = "release"
    BY <1>1 DEF ActType, Steps
  <2>4. act[w].pc = "close" /\ n = WindowCount + 1 /\ x.fields = act[w].read
    BY <1>2, <1>8 DEF CloseRun, ReadSoFar
  <2>5. \A m \in Windows : m < n
    BY <2>4, ConstantsAssumption DEF Windows
  <2> HIDE DEF y, a
  <2>6. Whole(y)
    <3>1. ASSUME NEW m \in Windows
          PROVE  /\ x.row[m] \in {"COMPLETED", "SKIPPED", "FAILED"}
                 /\ x.fields[m] = IF x.row[m] = "FAILED" THEN 0 ELSE x.hash[m]
                 /\ x.row[m] = "FAILED" => act[w].failed # 0
      BY <1>2, <2>4, <2>5 DEF ReadSoFar
    <3> QED BY <2>2, <3>1 DEF Whole, Verdict
  <2>7. RowOK(y)
    BY <1>2, <2>2, <2>6 DEF RowOK, Answers
  <2> QED BY <1>0, <1>1, <2>1, <2>2, <2>3, <2>7, WholeWithRun
<1> QED BY <1>3, <1>4, <1>5, <1>6, <1>7, <1>8

LEMMA ReadPreviousWhole ==
  ASSUME TypeInv, WholeInv, NEW w \in Workers, ReadPrevious(w)
  PROVE  WholeInv'
<1> DEFINE a == [act[w] EXCEPT !.pc = "window", !.prev = Previous(act[w].req),
                               !.next = 1, !.read = Nothing]
<1>1. /\ WorkInv /\ act[w] \in ActType /\ act \in [Workers -> ActType] /\ act[w].pc = "previous"
  BY TypeInvParts DEF WorkInv, WorkerTypes, ReadPrevious
<1>2. act' = [act EXCEPT ![w] = a] /\ UNCHANGED runs
  BY DEF ReadPrevious
<1>3. /\ a.run = act[w].run /\ a.pc = "window" /\ a.next = 1 /\ a.read = Nothing
      /\ a.prev = Previous(act[w].req)
  BY <1>1 DEF ActType
<1> HIDE DEF a
<1>4. Again(a)
  <2>1. LatestRun # 0 => LatestRun \in DOMAIN runs
    BY <1>1, LatestIsShown DEF Finished, WorkInv
  <2>2. LatestRun # 0 => Answers(runs[LatestRun])
    BY <2>1 DEF WholeInv, RowInv, RowOK
  <2> QED BY <1>3, <2>2 DEF Again, Previous, NoAnswer, Answers
<1>5. \A x : ReadSoFar(a, x)
  <2>1. \A n \in Windows : ~(n < 1)
    BY DEF Windows
  <2> QED BY <1>3, <2>1 DEF ReadSoFar, Nothing
<1>6. act'[w] = a /\ \A v \in Workers : v # w => act'[v] = act[v]
  BY <1>1, <1>2
<1>7. OwnInv' /\ RowInv'
  BY <1>1, <1>2, <1>3, <1>6 DEF WholeInv, OwnInv, RowInv, HasRun
<1>8. ReadInv'
  BY <1>2, <1>4, <1>5, <1>6 DEF WholeInv, ReadInv, Reading
<1> QED BY <1>7, <1>8 DEF WholeInv

LEMMA OpenRunWhole ==
  ASSUME TypeInv, WholeInv, NEW w \in Workers, OpenRun(w)
  PROVE  WholeInv'
<1> DEFINE i == Len(runs) + 1
<1>1. /\ WorkInv /\ act \in [Workers -> ActType] /\ runs \in Seq(RunType)
      /\ act[w] \in ActType /\ Len(runs) \in Nat
  BY TypeInvParts DEF WorkInv, WorkerTypes, RunTypes
<1>2. /\ DOMAIN runs' = 1..i /\ runs'[i] = NewRun /\ DOMAIN runs = 1..Len(runs)
      /\ \A j \in DOMAIN runs : runs'[j] = runs[j] /\ j # i
  <2>1. NewRun \in RunType
    BY DEF NewRun, RunType, RunStatus, RowStatus, Nothing
  <2> QED BY <1>1, <2>1 DEF OpenRun
<1>3. act'[w].pc = "previous" /\ act'[w].run = i /\ \A v \in Workers : v # w => act'[v] = act[v]
  BY <1>1 DEF OpenRun, ActType
<1>4. \A v \in Workers : HasRun(v) => act[v].run \in DOMAIN runs
  BY <1>1 DEF WorkInv, RunInv
<1> HIDE DEF i
<1>5. OwnInv'
  BY <1>2, <1>3, <1>4 DEF WholeInv, OwnInv, HasRun, NewRun
<1>6. RowInv'
  <2>1. RowOK(NewRun)
    BY DEF RowOK, NewRun, Answers, Usable
  <2>2. \A j \in DOMAIN runs' : j = i \/ j \in DOMAIN runs
    BY <1>1, <1>2 DEF i
  <2> QED BY <1>2, <2>1, <2>2 DEF WholeInv, RowInv
<1>7. ReadInv'
  BY <1>2, <1>3, <1>4 DEF WholeInv, ReadInv, Reading, HasRun
<1> QED BY <1>5, <1>6, <1>7 DEF WholeInv

LEMMA WholeStep == TypeInv /\ WholeInv /\ [Next]_vars => WholeInv'
<1> SUFFICES ASSUME TypeInv, WholeInv, [Next]_vars PROVE WholeInv'
  OBVIOUS
<1>t. WorkInv /\ act \in [Workers -> ActType]
  BY TypeInvParts DEF WorkInv, WorkerTypes
<1>1. CASE UNCHANGED <<runs, act>>
  BY <1>1, <1>t, WholeWithoutRun
<1>2. ASSUME NEW w \in Workers, NEW r \in Requests, Take(w, r) \/ TakeBlind(w, r)
      PROVE WholeInv'
  <2>1. UNCHANGED runs /\ act'[w].pc = "tracks" /\ \A v \in Workers : v # w => act'[v] = act[v]
    BY <1>t, <1>2, StartedType DEF Take, TakeBlind
  <2> QED BY <1>t, <2>1, WholeWithoutRun DEF HasRun
<1>3. ASSUME NEW w \in Workers, Release(w) \/ ReleaseFails(w) \/ Crash(w) \/ Killed(w) PROVE WholeInv'
  <2>1. UNCHANGED runs /\ act'[w].pc = "idle" /\ \A v \in Workers : v # w => act'[v] = act[v]
    BY <1>t, <1>3 DEF Release, ReleaseFails, Crash, Killed, Idle
  <2> QED BY <1>t, <2>1, WholeWithoutRun DEF HasRun
<1>4. ASSUME NEW w \in Workers, ResolveTracks(w) \/ RunRaises(w) PROVE WholeInv'
  <2>1. UNCHANGED runs /\ \A v \in Workers : v # w => act'[v] = act[v]
    BY <1>t, <1>4 DEF ResolveTracks, RunRaises, Go
  <2>2. act'[w].pc \in {"open", "release"}
    BY <1>t, <1>4 DEF ResolveTracks, RunRaises, Go, ActType
  <2> QED BY <1>t, <2>1, <2>2, WholeWithoutRun DEF HasRun
<1>5. ASSUME NEW w \in Workers, RunStep(w) \/ ServiceFails(w) PROVE WholeInv'
  BY <1>5, <1>3, <1>4, OpenRunWhole, ReadPreviousWhole, RunStepWhole DEF RunStep
<1>6. CASE \/ \E n \in Windows : EditText(n)
           \/ \E r \in Requests : Ask(r) \/ Redeliver(r)
           \/ \E w \in Workers, r \in Requests : Refuse(w, r)
           \/ LockLapses \/ \E w \in Workers : Overrun(w) \/ DeliverAgain(w)
           \/ UNCHANGED vars
  BY <1>1, <1>6 DEF EditText, Ask, Redeliver, Refuse, LockLapses, Overrun, DeliverAgain, vars
<1> QED BY <1>2, <1>3, <1>4, <1>5, <1>6 DEF Next

(* UsableRunIsWhole: every run that may be shown has read each window or    *)
(* failed it, and its fields are the answers about the text in its rows.    *)
THEOREM ShownRunsAreWhole == Spec => []UsableRunIsWhole
<1>1. Init => WholeInv
  BY DEF Init, WholeInv, OwnInv, RowInv, ReadInv, HasRun, Reading, Idle
<1>2. TypeInv /\ WholeInv /\ [Next]_vars => WholeInv'
  BY WholeStep
<1>3. WholeInv => UsableRunIsWhole
  BY DEF WholeInv, RowInv, RowOK, Whole, UsableRunIsWhole, Finished
<1> QED BY <1>1, <1>2, <1>3, TypeInvariance, PTL DEF Spec

----------------------------------------------------------------------------
(* The text that is shown never goes back.                                  *)

HasTracks(w) == act[w].pc \in {"open", "previous", "window", "answer", "close"}

(* Nothing was read that was not written before, and as long as runs are    *)
(* alone, whoever has chosen its tracks did so after the runs that are      *)
(* shown had chosen theirs.                                                 *)
TextInv ==
  /\ \A i \in DOMAIN runs : \A n \in Windows : runs[i].hash[n] <= text[n]
  /\ \A w \in Workers : HasTracks(w) => \A n \in Windows : act[w].tracks[n] <= text[n]
LaterInv ==
  ~unguarded =>
    \A w \in Workers : HasTracks(w) =>
      \A i \in Finished : \A n \in Windows : runs[i].fields[n] <= act[w].tracks[n]

ShowInv == TypeInv /\ GuardInv /\ WholeInv /\ TextInv /\ LaterInv

(* The runs worth showing and their fields stay, but when a run is closed.  *)
ShownKept ==
  /\ Finished' = Finished
  /\ \A i \in Finished : i \in DOMAIN runs /\ runs'[i].fields = runs[i].fields

LEMMA UnshownWritten ==
  ASSUME WorkInv, WholeInv, NEW w \in Workers, HasRun(w), NEW x \in RunType,
         runs' = [runs EXCEPT ![act[w].run] = x], x.status \notin Usable
  PROVE  ShownKept
<1>1. act[w].run \in DOMAIN runs /\ runs \in Seq(RunType) /\ act[w].run \notin Finished
  BY DEF WorkInv, RunTypes, RunInv, WholeInv, OwnInv, Finished, Usable
<1>2. /\ DOMAIN runs' = DOMAIN runs /\ runs'[act[w].run] = x
      /\ \A j \in DOMAIN runs : j # act[w].run => runs'[j] = runs[j]
  BY <1>1, RunWritten
<1>3. \A j \in DOMAIN runs : runs'[j].status \in Usable <=> runs[j].status \in Usable
  BY <1>1, <1>2 DEF Finished
<1> QED BY <1>1, <1>2, <1>3 DEF ShownKept, Finished

LEMMA OnlyCloseShows ==
  ASSUME TypeInv, WholeInv, [Next]_vars, \A w \in Workers : ~CloseRun(w)
  PROVE  ShownKept
<1>t. WorkInv /\ runs \in Seq(RunType) /\ Len(runs) \in Nat
  BY TypeInvParts DEF WorkInv, RunTypes
<1>0. ASSUME NEW w \in Workers, HasRun(w)
      PROVE  /\ runs[act[w].run] \in RunType /\ runs[act[w].run].status \notin Usable
  BY <1>0, <1>t DEF WorkInv, RunInv, WholeInv, OwnInv, Usable
<1>1. CASE UNCHANGED runs
  BY <1>1 DEF ShownKept, Finished
<1>2. ASSUME NEW w \in Workers, OpenRun(w) PROVE ShownKept
  <2>1. NewRun \in RunType /\ NewRun.status \notin Usable
    BY DEF NewRun, RunType, RunStatus, RowStatus, Nothing, Usable
  <2>2. /\ DOMAIN runs' = 1..(Len(runs) + 1) /\ runs'[Len(runs) + 1] = NewRun
        /\ DOMAIN runs = 1..Len(runs)
        /\ \A j \in DOMAIN runs : runs'[j] = runs[j]
    BY <1>t, <1>2, <2>1 DEF OpenRun
  <2>3. \A j \in DOMAIN runs' : j \in DOMAIN runs \/ j = Len(runs) + 1
    BY <1>t, <2>2
  <2>4. DOMAIN runs \subseteq DOMAIN runs'
    BY <1>t, <2>2
  <2> QED BY <2>1, <2>2, <2>3, <2>4 DEF ShownKept, Finished
<1>3. ASSUME NEW w \in Workers,
             OpenWindow(w) \/ ReuseAnswer(w) \/ AskService(w) \/ ServiceFails(w)
             \/ GiveUp(w) \/ SaveFields(w)
      PROVE  ShownKept
  <2> DEFINE n == act[w].next
             i == act[w].run
             x == runs[i]
  <2>1. HasRun(w)
    BY <1>3 DEF HasRun, OpenWindow, ReuseAnswer, AskService, ServiceFails, GiveUp, SaveFields,
                AllRead
  <2>2. /\ x \in RunType /\ x.status \notin Usable /\ act[w] \in ActType
        /\ act[w].pc = "answer" => n \in Windows
    BY <1>0, <1>t, <2>1 DEF WorkInv, WorkerTypes, RunInv
  <2>3. PICK y \in RunType : runs' = [runs EXCEPT ![i] = y] /\ y.status \notin Usable
    <3>1. CASE OpenWindow(w)
      <4> DEFINE y == [x EXCEPT !.row[n] = "IN_PROGRESS", !.hash[n] = act[w].tracks[n]]
      <4>1. y \in RunType /\ y.status = x.status
        BY <2>2, <3>1 DEF OpenWindow, RunType, ActType, RowStatus
      <4>2. runs' = [runs EXCEPT ![i] = y]
        BY <3>1 DEF OpenWindow
      <4> QED BY <2>2, <4>1, <4>2
    <3>2. CASE ReuseAnswer(w)
      <4> DEFINE y == [x EXCEPT !.row[n] = "SKIPPED"]
      <4>1. y \in RunType /\ y.status = x.status
        BY <2>2 DEF RunType, RowStatus
      <4>2. runs' = [runs EXCEPT ![i] = y]
        BY <3>2 DEF ReuseAnswer
      <4> QED BY <2>2, <4>1, <4>2
    <3>3. CASE AskService(w)
      <4> DEFINE y == [x EXCEPT !.row[n] = "COMPLETED", !.raw[n] = act[w].tracks[n]]
      <4>1. y \in RunType /\ y.status = x.status
        BY <2>2, <3>3 DEF AskService, RunType, ActType, RowStatus
      <4>2. runs' = [runs EXCEPT ![i] = y]
        BY <3>3 DEF AskService
      <4> QED BY <2>2, <4>1, <4>2
    <3>4. CASE ServiceFails(w)
      <4> DEFINE y == [x EXCEPT !.row[n] = "FAILED"]
      <4>1. y \in RunType /\ y.status = x.status
        BY <2>2 DEF RunType, RowStatus
      <4>2. runs' = [runs EXCEPT ![i] = y]
        BY <3>4 DEF ServiceFails
      <4> QED BY <2>2, <4>1, <4>2
    <3>5. CASE GiveUp(w)
      <4> DEFINE y == [x EXCEPT !.status = "FAILED"]
      <4>1. y \in RunType /\ y.status = "FAILED"
        BY <2>2 DEF RunType, RunStatus
      <4>2. runs' = [runs EXCEPT ![i] = y]
        BY <3>5 DEF GiveUp
      <4> QED BY <4>1, <4>2 DEF Usable
    <3>6. CASE SaveFields(w)
      <4> DEFINE y == [x EXCEPT !.fields = act[w].read]
      <4>1. y \in RunType /\ y.status = x.status
        BY <2>2 DEF RunType, ActType
      <4>2. runs' = [runs EXCEPT ![i] = y]
        BY <3>6 DEF SaveFields
      <4> QED BY <2>2, <4>1, <4>2
    <3> QED BY <1>3, <3>1, <3>2, <3>3, <3>4, <3>5, <3>6
  <2> QED BY <1>t, <2>1, <2>3, UnshownWritten
<1>4. ASSUME NEW w \in Workers,
             ResolveTracks(w) \/ ReadPrevious(w) \/ Release(w) \/ ReleaseFails(w) \/ RunRaises(w)
             \/ Overrun(w) \/ Crash(w) \/ Killed(w) \/ DeliverAgain(w)
      PROVE  ShownKept
  BY <1>1, <1>4 DEF ResolveTracks, ReadPrevious, Release, ReleaseFails, RunRaises, Overrun, Crash,
                    Killed, DeliverAgain
<1>5. CASE \/ \E n \in Windows : EditText(n)
           \/ \E r \in Requests : Ask(r) \/ Redeliver(r)
           \/ \E w \in Workers, r \in Requests : Take(w, r) \/ Refuse(w, r) \/ TakeBlind(w, r)
           \/ LockLapses \/ UNCHANGED vars
  BY <1>1, <1>5 DEF EditText, Ask, Redeliver, Take, Refuse, TakeBlind, LockLapses, vars
<1> QED BY <1>2, <1>3, <1>4, <1>5 DEF Next, RunStep

(* A hash is written when the row of a window is opened ...                 *)
LEMMA HashesKept ==
  ASSUME WorkInv, [Next]_vars, \A w \in Workers : ~OpenWindow(w)
  PROVE  \A i \in DOMAIN runs' :
           \/ i \in DOMAIN runs /\ runs'[i].hash = runs[i].hash
           \/ runs'[i].hash = Nothing
<1>t. runs \in Seq(RunType) /\ Len(runs) \in Nat
  BY DEF WorkInv, RunTypes
<1>1. CASE UNCHANGED runs
  BY <1>1
<1>2. ASSUME NEW w \in Workers, OpenRun(w)
      PROVE  \A i \in DOMAIN runs' : (i \in DOMAIN runs /\ runs'[i] = runs[i]) \/ runs'[i] = NewRun
  <2>1. NewRun \in RunType
    BY DEF NewRun, RunType, RunStatus, RowStatus, Nothing
  <2> QED BY <1>t, <1>2, <2>1 DEF OpenRun
<1>3. ASSUME NEW w \in Workers,
             ReuseAnswer(w) \/ AskService(w) \/ ServiceFails(w) \/ GiveUp(w) \/ SaveFields(w)
             \/ CloseRun(w)
      PROVE  \A i \in DOMAIN runs' : i \in DOMAIN runs /\ runs'[i].hash = runs[i].hash
  <2> USE <1>t DEF RunType
  <2>1. CASE ReuseAnswer(w)
    BY <2>1 DEF ReuseAnswer
  <2>2. CASE AskService(w)
    BY <2>2 DEF AskService
  <2>3. CASE ServiceFails(w)
    BY <2>3 DEF ServiceFails
  <2>4. CASE GiveUp(w)
    BY <2>4 DEF GiveUp
  <2>5. CASE SaveFields(w)
    BY <2>5 DEF SaveFields
  <2>6. CASE CloseRun(w)
    BY <2>6 DEF CloseRun
  <2> QED BY <1>3, <2>1, <2>2, <2>3, <2>4, <2>5, <2>6
<1>4. ASSUME NEW w \in Workers,
             ResolveTracks(w) \/ ReadPrevious(w) \/ Release(w) \/ ReleaseFails(w) \/ RunRaises(w)
             \/ Overrun(w) \/ Crash(w) \/ Killed(w) \/ DeliverAgain(w)
      PROVE  UNCHANGED runs
  BY <1>4 DEF ResolveTracks, ReadPrevious, Release, ReleaseFails, RunRaises, Overrun, Crash,
              Killed, DeliverAgain
<1>5. CASE \/ \E n \in Windows : EditText(n)
           \/ \E r \in Requests : Ask(r) \/ Redeliver(r)
           \/ \E w \in Workers, r \in Requests : Take(w, r) \/ Refuse(w, r) \/ TakeBlind(w, r)
           \/ LockLapses \/ UNCHANGED vars
  BY <1>1, <1>5 DEF EditText, Ask, Redeliver, Take, Refuse, TakeBlind, LockLapses, vars
<1> QED BY <1>1, <1>2, <1>3, <1>4, <1>5 DEF Next, RunStep, NewRun

(* ... and the tracks are chosen once.                                      *)
LEMMA TracksKept ==
  ASSUME WorkInv, [Next]_vars, NEW v \in Workers, HasTracks(v)'
  PROVE  \/ HasTracks(v) /\ act'[v].tracks = act[v].tracks
         \/ ResolveTracks(v) /\ act'[v].tracks = text /\ UNCHANGED <<text, runs>>
<1>t. act \in [Workers -> ActType]
  BY DEF WorkInv, WorkerTypes
<1>1. CASE UNCHANGED act
  BY <1>1 DEF HasTracks
<1>2. ASSUME NEW w \in Workers, ResolveTracks(w)
      PROVE  \/ HasTracks(v) /\ act'[v].tracks = act[v].tracks
             \/ ResolveTracks(v) /\ act'[v].tracks = text /\ UNCHANGED <<text, runs>>
  BY <1>t, <1>2 DEF ResolveTracks, HasTracks, ActType
<1>3. ASSUME NEW w \in Workers,
             OpenRun(w) \/ ReadPrevious(w) \/ OpenWindow(w) \/ ReuseAnswer(w) \/ AskService(w)
             \/ ServiceFails(w) \/ GiveUp(w) \/ SaveFields(w) \/ CloseRun(w) \/ RunRaises(w)
      PROVE  HasTracks(v) /\ act'[v].tracks = act[v].tracks
  <2>1. CASE v # w
    BY <1>t, <1>3, <2>1 DEF OpenRun, ReadPrevious, OpenWindow, ReuseAnswer, AskService,
         ServiceFails, GiveUp, SaveFields, CloseRun, RunRaises, Reads, Go, HasTracks
  <2>2. CASE v = w
    <3>1. act'[w].tracks = act[w].tracks
      <4> USE <1>t DEF ActType
      <4>1. CASE OpenRun(w)
        BY <4>1 DEF OpenRun
      <4>2. CASE ReadPrevious(w)
        BY <4>2 DEF ReadPrevious
      <4>3. CASE OpenWindow(w) \/ GiveUp(w) \/ SaveFields(w) \/ CloseRun(w) \/ RunRaises(w)
        BY <4>3 DEF OpenWindow, GiveUp, SaveFields, CloseRun, RunRaises, Go
      <4>4. CASE ReuseAnswer(w) \/ AskService(w)
        BY <4>4 DEF ReuseAnswer, AskService, Reads
      <4>5. CASE ServiceFails(w)
        BY <4>5 DEF ServiceFails
      <4> QED BY <1>3, <4>1, <4>2, <4>3, <4>4, <4>5
    <3>2. HasTracks(w) \/ act'[w].pc = "release"
      BY <1>t, <1>3 DEF OpenRun, ReadPrevious, OpenWindow, ReuseAnswer, AskService,
           ServiceFails, GiveUp, SaveFields, CloseRun, RunRaises, AllRead, Go, HasTracks, ActType
    <3> QED BY <2>2, <3>1, <3>2 DEF HasTracks
  <2> QED BY <2>1, <2>2
<1>4. ASSUME NEW w \in Workers, Release(w) \/ ReleaseFails(w) \/ Crash(w) \/ Killed(w)
      PROVE  HasTracks(v) /\ act'[v] = act[v]
  BY <1>t, <1>4 DEF Release, ReleaseFails, Crash, Killed, Idle, HasTracks
<1>5. ASSUME NEW w \in Workers, NEW r \in Requests, Take(w, r) \/ TakeBlind(w, r)
      PROVE  HasTracks(v) /\ act'[v] = act[v]
  BY <1>t, <1>5, StartedType DEF Take, TakeBlind, HasTracks
<1>6. CASE \/ \E n \in Windows : EditText(n)
           \/ \E r \in Requests : Ask(r) \/ Redeliver(r)
           \/ \E w \in Workers, r \in Requests : Refuse(w, r)
           \/ LockLapses \/ \E w \in Workers : Overrun(w) \/ DeliverAgain(w)
           \/ UNCHANGED vars
  BY <1>1, <1>6 DEF EditText, Ask, Redeliver, Refuse, LockLapses, Overrun, DeliverAgain, vars
<1> QED BY <1>2, <1>3, <1>4, <1>5, <1>6 DEF Next, RunStep

LEMMA TextGrows ==
  ASSUME OtherTypes, [Next]_vars
  PROVE  \A n \in Windows : text[n] \in Nat /\ text'[n] \in Nat /\ text[n] <= text'[n]
<1>1. ASSUME NEW n \in Windows, EditText(n)
      PROVE  \A m \in Windows : text[m] \in Nat /\ text'[m] \in Nat /\ text[m] <= text'[m]
  BY <1>1 DEF EditText, OtherTypes
<1>2. UNCHANGED text \/ \E n \in Windows : EditText(n)
  BY DEF Next, vars, Ask, Take, Refuse, TakeBlind, RunStep, ResolveTracks, OpenRun, ReadPrevious,
         OpenWindow, ReuseAnswer, AskService, GiveUp, SaveFields, CloseRun, Release, ReleaseFails,
         ServiceFails, RunRaises, LockLapses, Overrun, Crash, Killed, DeliverAgain, Redeliver
<1>3. \A n \in Windows : text[n] \in Nat /\ text[n] <= text[n]
  BY DEF OtherTypes
<1> QED BY <1>1, <1>2, <1>3

LEMMA TextStep == TypeInv /\ TextInv /\ [Next]_vars => TextInv'
<1> SUFFICES ASSUME TypeInv, TextInv, [Next]_vars PROVE TextInv'
  OBVIOUS
<1>t. /\ WorkInv /\ OtherTypes /\ act \in [Workers -> ActType] /\ runs \in Seq(RunType)
      /\ WorkInv' /\ act' \in [Workers -> ActType] /\ runs' \in Seq(RunType)
  BY TypeInvParts, WorkStep DEF WorkInv, WorkerTypes, RunTypes
<1>g. \A n \in Windows : text[n] \in Nat /\ text'[n] \in Nat /\ text[n] <= text'[n]
  BY <1>t, TextGrows
<1>1. ASSUME NEW i \in DOMAIN runs', NEW n \in Windows PROVE runs'[i].hash[n] <= text'[n]
  <2>1. \A j \in DOMAIN runs : runs[j].hash[n] \in Nat /\ runs[j].hash[n] <= text[n]
    <3>1. \A j \in DOMAIN runs : runs[j] \in RunType
      BY <1>t
    <3> QED BY <3>1 DEF TextInv, RunType
  <2>2. \A v \in Workers : HasTracks(v) => act[v].tracks[n] \in Nat /\ act[v].tracks[n] <= text[n]
    BY <1>t DEF TextInv, ActType
  <2>3. CASE \A w \in Workers : ~OpenWindow(w)
    <3>1. \/ i \in DOMAIN runs /\ runs'[i].hash = runs[i].hash
          \/ runs'[i].hash = Nothing
      BY <1>t, <2>3, HashesKept
    <3>2. CASE i \in DOMAIN runs /\ runs'[i].hash[n] = runs[i].hash[n]
      BY <1>g, <2>1, <3>2
    <3>3. CASE runs'[i].hash[n] = 0
      BY <1>g, <3>3
    <3> QED BY <3>1, <3>2, <3>3 DEF Nothing
  <2>4. ASSUME NEW w \in Workers, OpenWindow(w) PROVE runs'[i].hash[n] <= text'[n]
    <3>1. HasTracks(w)
      BY <2>4 DEF OpenWindow, HasTracks
    <3>2. i \in DOMAIN runs /\ (runs'[i].hash[n] = runs[i].hash[n] \/ runs'[i].hash[n] = act[w].tracks[n])
      <4> DEFINE k == act[w].run
                 m == act[w].next
      <4>1. k \in DOMAIN runs /\ runs[k] \in RunType /\ m \in Windows
        BY <1>t, <2>4 DEF OpenWindow, WorkInv, RunInv, HasRun
      <4>2. runs' = [runs EXCEPT ![k] = [runs[k] EXCEPT !.row[m] = "IN_PROGRESS",
                                                        !.hash[m] = act[w].tracks[m]]]
        BY <2>4 DEF OpenWindow
      <4> HIDE DEF k, m
      <4>3. /\ i \in DOMAIN runs /\ (i # k => runs'[i] = runs[i])
            /\ runs'[k] = [runs[k] EXCEPT !.row[m] = "IN_PROGRESS", !.hash[m] = act[w].tracks[m]]
        BY <1>t, <4>1, <4>2
      <4>4. runs'[k].hash = [runs[k].hash EXCEPT ![m] = act[w].tracks[m]]
        BY <4>1, <4>3 DEF RunType
      <4>5. runs'[k].hash[n] = runs[k].hash[n] \/ runs'[k].hash[n] = act[w].tracks[n]
        BY <4>1, <4>4 DEF RunType
      <4> QED BY <4>3, <4>5
    <3>3. CASE runs'[i].hash[n] = runs[i].hash[n]
      BY <1>g, <2>1, <3>2, <3>3
    <3>4. CASE runs'[i].hash[n] = act[w].tracks[n]
      BY <1>g, <2>2, <3>1, <3>4
    <3> QED BY <3>2, <3>3, <3>4
  <2> QED BY <2>3, <2>4
<1>2. ASSUME NEW v \in Workers, HasTracks(v)', NEW n \in Windows
      PROVE  act'[v].tracks[n] <= text'[n]
  <2>1. CASE HasTracks(v) /\ act'[v].tracks = act[v].tracks
    <3>1. act[v].tracks[n] \in Nat /\ act[v].tracks[n] <= text[n]
      BY <1>t, <2>1 DEF TextInv, ActType
    <3> QED BY <1>g, <2>1, <3>1
  <2>2. CASE act'[v].tracks = text
    BY <1>g, <2>2
  <2> QED BY <1>t, <1>2, <2>1, <2>2, TracksKept
<1> QED BY <1>1, <1>2 DEF TextInv

(* What a run shows is about the text its rows name.                        *)
LEMMA FieldsAreHashes ==
  ASSUME TypeInv, WholeInv, NEW i \in Finished, NEW n \in Windows
  PROVE  /\ runs[i].fields[n] \in Nat /\ runs[i].hash[n] \in Nat
         /\ runs[i].fields[n] <= runs[i].hash[n]
<1>1. i \in DOMAIN runs /\ runs[i] \in RunType
  BY TypeInvParts DEF Finished, WorkInv, RunTypes
<1>2. runs[i].fields[n] = runs[i].hash[n] \/ runs[i].fields[n] = 0
  BY <1>1 DEF WholeInv, RowInv, RowOK, Whole, Finished
<1>3. runs[i].fields[n] \in Nat /\ runs[i].hash[n] \in Nat
  BY <1>1 DEF RunType
<1> QED BY <1>2, <1>3

LEMMA LaterStep == ShowInv /\ [Next]_vars => LaterInv'
<1> SUFFICES ASSUME ShowInv, [Next]_vars, ~unguarded',
                    NEW v \in Workers, HasTracks(v)',
                    NEW i \in Finished', NEW n \in Windows
             PROVE  runs'[i].fields[n] <= act'[v].tracks[n]
  BY DEF LaterInv
<1>t. WorkInv /\ OtherTypes /\ TypeInv /\ WholeInv /\ act \in [Workers -> ActType]
  BY TypeInvParts DEF ShowInv, WorkInv, WorkerTypes
<1>u. ~unguarded
  BY DEF Next, vars, EditText, Ask, Take, Refuse, TakeBlind, RunStep, ResolveTracks, OpenRun,
         ReadPrevious, OpenWindow, ReuseAnswer, AskService, GiveUp, SaveFields, CloseRun, Release,
         ReleaseFails, ServiceFails, RunRaises, LockLapses, Overrun, Crash, Killed, DeliverAgain, Redeliver
<1>1. \/ HasTracks(v) /\ act'[v].tracks = act[v].tracks
      \/ ResolveTracks(v) /\ act'[v].tracks = text /\ UNCHANGED <<text, runs>>
  BY <1>t, TracksKept
<1>2. CASE ResolveTracks(v) /\ act'[v].tracks = text /\ UNCHANGED <<text, runs>>
  <2>1. i \in Finished /\ i \in DOMAIN runs /\ runs'[i] = runs[i]
    BY <1>2 DEF Finished
  <2>2. runs[i].hash[n] <= text[n]
    BY <2>1 DEF ShowInv, TextInv
  <2>3. text[n] \in Nat
    BY <1>t DEF OtherTypes
  <2>4. /\ runs[i].fields[n] \in Nat /\ runs[i].hash[n] \in Nat
        /\ runs[i].fields[n] <= runs[i].hash[n]
    BY <1>t, <2>1, FieldsAreHashes
  <2> QED BY <1>2, <2>1, <2>2, <2>3, <2>4
<1>3. CASE HasTracks(v) /\ act'[v].tracks = act[v].tracks
  <2>1. \A w \in Workers : ~CloseRun(w)
    <3> SUFFICES ASSUME NEW w \in Workers, CloseRun(w) PROVE FALSE
      OBVIOUS
    <3>1. v = w
      BY <1>u, <1>3 DEF ShowInv, GuardInv, Busy, HasTracks, CloseRun
    <3>2. act'[w].pc = "release"
      BY <1>t DEF CloseRun, Go, ActType
    <3> QED BY <3>1, <3>2 DEF HasTracks
  <2>2. i \in Finished /\ runs'[i].fields = runs[i].fields
    BY <1>t, <2>1, OnlyCloseShows DEF ShownKept
  <2> QED BY <1>u, <1>3, <2>2 DEF ShowInv, LaterInv
<1> QED BY <1>1, <1>2, <1>3

LEMMA ShownStep ==
  ASSUME ShowInv, [Next]_vars, ~unguarded', LatestRun # 0, NEW n \in Windows,
         runs[LatestRun].fields[n] # 0, runs'[LatestRun'].fields[n] # 0
  PROVE  runs[LatestRun].fields[n] <= runs'[LatestRun'].fields[n]
<1>t. /\ WorkInv /\ TypeInv /\ WholeInv /\ runs \in Seq(RunType) /\ act \in [Workers -> ActType]
      /\ WorkInv' /\ RunTypes'
  BY TypeInvParts, WorkStep DEF ShowInv, WorkInv, WorkerTypes, RunTypes
<1>u. ~unguarded
  BY DEF Next, vars, EditText, Ask, Take, Refuse, TakeBlind, RunStep, ResolveTracks, OpenRun,
         ReadPrevious, OpenWindow, ReuseAnswer, AskService, GiveUp, SaveFields, CloseRun, Release,
         ReleaseFails, ServiceFails, RunRaises, LockLapses, Overrun, Crash, Killed, DeliverAgain, Redeliver
<1>1. LatestRun \in Finished /\ \A j \in Finished : j <= LatestRun /\ j \in Nat
  BY <1>t, LatestIsShown DEF RunTypes, Finished
<1>2. runs[LatestRun].fields[n] \in Nat
  BY <1>t, <1>1, FieldsAreHashes
<1>3. CASE \A w \in Workers : ~CloseRun(w)
  <2>1. ShownKept
    BY <1>t, <1>3, OnlyCloseShows
  <2>2. LatestRun' = LatestRun
    BY <2>1 DEF ShownKept, LatestRun
  <2> QED BY <1>1, <1>2, <2>1, <2>2 DEF ShownKept
<1>4. ASSUME NEW w \in Workers, CloseRun(w)
      PROVE  runs[LatestRun].fields[n] <= runs'[LatestRun'].fields[n]
  <2> DEFINE i == act[w].run
             x == runs[i]
  <2>1. HasRun(w) /\ Reading(w) /\ HasTracks(w) /\ act[w].pc = "close"
    BY <1>4 DEF CloseRun, HasRun, Reading, HasTracks
  <2>2. i \in DOMAIN runs /\ i \in Nat /\ x \in RunType /\ act[w] \in ActType
    BY <1>t, <2>1 DEF WorkInv, RunInv
  <2>3. /\ DOMAIN runs' = DOMAIN runs
        /\ \A j \in DOMAIN runs : j # i => runs'[j] = runs[j]
        /\ runs'[i].fields = x.fields /\ runs'[i].status \in Usable
    BY <1>t, <1>4, <2>2 DEF CloseRun, RunType, Verdict, Usable
  <2> HIDE DEF i, x
  <2>4. Finished' = Finished \cup {i}
    BY <2>2, <2>3 DEF Finished
  <2>5. LatestRun' \in Finished' /\ \A j \in Finished' : j <= LatestRun'
    <3>1. Finished' # {}
      BY <2>4
    <3>2. Finished' \in SUBSET (1..Len(runs')) /\ Len(runs') \in Nat
      BY <1>t DEF Finished, RunTypes
    <3>3. \E k \in Finished' : \A j \in Finished' : j <= k
      BY <3>1, <3>2, Largest
    <3> QED BY <3>1, <3>3 DEF LatestRun
  <2>6. CASE LatestRun' = i
    <3>1. x.fields = act[w].read
      BY <1>t, <2>1 DEF WholeInv, ReadInv, ReadSoFar, x, i
    <3>2. x.fields[n] = 0 \/ x.fields[n] = act[w].tracks[n]
      BY <1>t, <2>1, <3>1 DEF WholeInv, ReadInv, ReadSoFar, x, i
    <3>3. runs[LatestRun].fields[n] <= act[w].tracks[n]
      BY <1>1, <1>u, <2>1 DEF ShowInv, LaterInv
    <3> QED BY <2>3, <2>6, <3>2, <3>3
  <2>7. CASE LatestRun' # i
    <3>1. LatestRun' \in Finished /\ LatestRun' \in Nat
      BY <1>1, <2>4, <2>5, <2>7
    <3>2. LatestRun' = LatestRun
      BY <1>1, <2>4, <2>5, <3>1
    <3>3. runs'[LatestRun] = runs[LatestRun]
      BY <1>1, <2>3, <2>7, <3>2 DEF Finished
    <3> QED BY <1>2, <3>2, <3>3
  <2> QED BY <2>6, <2>7
<1> QED BY <1>3, <1>4

(* ShownTextNeverGoesBack: as long as no run outlived its lock, a window    *)
(* that two descriptions show one after the other is never shown older.     *)
THEOREM ShownTextIsMonotone == Spec => ShownTextNeverGoesBack
<1>1. Init => ShowInv
  <2> SUFFICES ASSUME Init PROVE ShowInv
    OBVIOUS
  <2>1. TypeInv
    BY InitTypes
  <2>2. GuardInv /\ WholeInv /\ TextInv /\ LaterInv
    BY DEF Init, GuardInv, WholeInv, OwnInv, RowInv, ReadInv, TextInv, LaterInv, HasRun, Reading,
           HasTracks, Busy, Idle
  <2> QED BY <2>1, <2>2 DEF ShowInv
<1>2. ShowInv /\ [Next]_vars => ShowInv'
  BY TypeInvStep, GuardStep, WholeStep, TextStep, LaterStep DEF ShowInv
<1>3. ShowInv /\ [Next]_vars =>
        [~unguarded' /\ LatestRun # 0 =>
           \A n \in Windows :
             LET old == runs[LatestRun].fields[n]
                 new == runs'[LatestRun'].fields[n]
             IN old # 0 /\ new # 0 => old <= new]_vars
  BY ShownStep
<1> QED BY <1>1, <1>2, <1>3, PTL DEF Spec, ShownTextNeverGoesBack
=============================================================================
