-------------------------- MODULE PageRevisionsProofs --------------------------
(***************************************************************************)
(* The optimistic locking of page saves, proved for any number of tabs,    *)
(* users, tasks, saves and crashes.                                        *)
(***************************************************************************)
EXTENDS PageRevisions, TLAPS

(* A writer that is about to save knows whether its track moved since it    *)
(* read the version: the history agrees with the counter.                   *)
TokenInv ==
    \A w \in Editors \cup Tasks : pc[w] \in {"load", "open", "save", "msave"} =>
        /\ token[w] <= version[track[w]]
        /\ <<w, track[w]>> \in moved <=> token[w] # version[track[w]]

InsertSteps == {"insert", "minsert"}

(* A version is a ticket: its revision is inserted, or one writer holds it. *)
RevisionsHaveTickets ==
    \A t \in Tracks : \A k \in 1 .. Len(revs[t]) :
        1 <= revs[t][k].ver /\ revs[t][k].ver <= version[t]
HoldersHaveTickets ==
    \A w \in Writers : pc[w] \in InsertSteps =>
        token[w] + 1 <= version[track[w]] /\ ~Inserted(track[w], token[w] + 1)
HoldersDiffer ==
    \A v, w \in Writers :
        pc[v] \in InsertSteps /\ pc[w] \in InsertSteps /\ track[v] = track[w]
            /\ token[v] = token[w] => v = w
TicketInv ==
    RevisionsHaveTickets /\ VersionsAreUnique /\ HoldersHaveTickets /\ HoldersDiffer

(* Whatever a writer or a revision takes in of main has been inserted there.*)
Published(n) == n = 0 \/ Inserted(Main, n)
BaseInv ==
    /\ \A w \in Writers : Published(base[w])
    /\ \A t \in Tracks : \A k \in 1 .. Len(revs[t]) : Published(revs[t][k].base)

IndInv == TypeOK /\ TokenInv /\ TicketInv /\ VersionHasRevision /\ BaseInv

-----------------------------------------------------------------------------
(* Types *)

LEMMA TrackNames ==
    /\ Main \in Tracks /\ Machine \in Tracks
    /\ \A e \in Editors : Draft(e) \in Tracks
    BY DEF Tracks

LEMMA LatestType ==
    ASSUME TypeOK, NEW t \in Tracks PROVE Latest(t) \in Nat
<1>1. revs[t] \in Seq(Revision)
    BY DEF TypeOK
<1>2. CASE revs[t] = <<>>
    BY <1>2 DEF Latest
<1>3. CASE revs[t] # <<>>
    <2>1. Len(revs[t]) \in 1 .. Len(revs[t])
        BY <1>1, <1>3
    <2>2. revs[t][Len(revs[t])] \in Revision
        BY <1>1, <2>1
    <2> QED BY <1>3, <2>2 DEF Latest, Revision
<1> QED BY <1>2, <1>3

LEMMA ShownType ==
    ASSUME TypeOK, NEW t \in Tracks PROVE Shown(t) \in Nat
    BY LatestType, TrackNames DEF Shown, Newer

LEMMA ReadType ==
    ASSUME TypeOK, NEW w \in Writers, NEW t \in Tracks, ReadVersion(w, t)
    PROVE  /\ token' \in [Writers -> Nat] /\ track' \in [Writers -> Tracks]
           /\ moved' \subseteq Writers \X Tracks
           /\ token'[w] = version[t] /\ track'[w] = t
           /\ \A v \in Writers : v # w => token'[v] = token[v] /\ track'[v] = track[v]
    BY DEF ReadVersion, TypeOK

LEMMA OpenTypes == ASSUME TypeOK, NEW e \in Editors, Open(e) PROVE TypeOK'
<1>1. e \in Writers
    BY DEF Writers
<1>2. Open(e) /\ ReadVersion(e, Main)
    BY DEF Open
<1>4. /\ token' \in [Writers -> Nat] /\ track' \in [Writers -> Tracks]
      /\ moved' \subseteq Writers \X Tracks
      /\ track'[e] = Main /\ \A v \in Writers : v # e => track'[v] = track[v]
    BY <1>1, <1>2, ReadType, TrackNames
<1> QED BY <1>1, <1>2, <1>4 DEF Open, Goto, TypeOK, Steps

LEMMA LoadTypes == ASSUME TypeOK, NEW e \in Editors, Load(e) PROVE TypeOK'
<1>1. e \in Writers
    BY DEF Writers
<1>2. base' \in [Writers -> Nat]
    <2>1. PICK t \in {Main, Draft(e)} : base' = [base EXCEPT ![e] = Shown(t)]
        BY DEF Load
    <2>2. Shown(t) \in Nat
        BY <2>1, ShownType, TrackNames
    <2> QED BY <2>1, <2>2 DEF TypeOK
<1>3. from' \in [Writers -> {"load", "draft", "reply"}]
    BY <1>1 DEF Load, TypeOK
<1> QED BY <1>1, <1>2, <1>3 DEF Load, Goto, TypeOK, Steps

LEMMA SubmitTypes == ASSUME TypeOK, NEW e \in Editors, Submit(e) PROVE TypeOK'
<1>1. e \in Writers
    BY DEF Writers
<1>2. /\ token' \in [Writers -> Nat] /\ track' \in [Writers -> Tracks]
      /\ moved' \subseteq Writers \X Tracks
      /\ \A v \in Writers : v # e => track'[v] = track[v]
    <2>1. CASE UNCHANGED <<track, token, moved>>
        BY <2>1 DEF TypeOK
    <2>2. CASE ReadVersion(e, Draft(e))
        BY <1>1, <2>2, ReadType, TrackNames
    <2> QED BY <2>1, <2>2 DEF Submit
<1> QED BY <1>1, <1>2 DEF Submit, Goto, TypeOK, Steps

LEMMA MirrorReadTypes == ASSUME TypeOK, NEW e \in Editors, MirrorRead(e) PROVE TypeOK'
<1>1. e \in Writers
    BY DEF Writers
<1>2. MirrorRead(e) /\ ReadVersion(e, Draft(e))
    BY DEF MirrorRead
<1>4. /\ token' \in [Writers -> Nat] /\ track' \in [Writers -> Tracks]
      /\ moved' \subseteq Writers \X Tracks
      /\ track'[e] = Draft(e) /\ \A v \in Writers : v # e => track'[v] = track[v]
    BY <1>1, <1>2, ReadType, TrackNames
<1> QED BY <1>1, <1>2, <1>4 DEF MirrorRead, Goto, TypeOK, Steps

LEMMA ShowConflictTypes == ASSUME TypeOK, NEW e \in Editors, ShowConflict(e) PROVE TypeOK'
<1>1. e \in Writers
    BY DEF Writers
<1>2. base' \in [Writers -> Nat]
    BY <1>1, LatestType DEF ShowConflict, TypeOK, Newer
<1>3. from' \in [Writers -> {"load", "draft", "reply"}]
    BY <1>1 DEF ShowConflict, TypeOK
<1> QED BY <1>1, <1>2, <1>3 DEF ShowConflict, Goto, TypeOK, Steps

LEMMA ReplyTypes == ASSUME TypeOK, NEW e \in Editors, Reply(e) PROVE TypeOK'
<1>1. e \in Writers
    BY DEF Writers
<1>2. Reply(e) /\ ReadVersion(e, Main)
    BY DEF Reply
<1>3. base' \in [Writers -> Nat]
    BY <1>1, ShownType, TrackNames DEF Reply, TypeOK, Newer
<1>4. /\ token' \in [Writers -> Nat] /\ track' \in [Writers -> Tracks]
      /\ moved' \subseteq Writers \X Tracks
      /\ track'[e] = Main /\ \A v \in Writers : v # e => track'[v] = track[v]
    BY <1>1, <1>2, ReadType, TrackNames
<1> QED BY <1>1, <1>2, <1>3, <1>4 DEF Reply, Goto, TypeOK, Steps

LEMMA TaskStartTypes == ASSUME TypeOK, NEW k \in Tasks, TaskStart(k) PROVE TypeOK'
<1>1. k \in Writers
    BY DEF Writers
<1>2. TaskStart(k) /\ ReadVersion(k, Machine)
    BY DEF TaskStart
<1>4. /\ token' \in [Writers -> Nat] /\ track' \in [Writers -> Tracks]
      /\ moved' \subseteq Writers \X Tracks
      /\ track'[k] = Machine /\ \A v \in Writers : v # k => track'[v] = track[v]
    BY <1>1, <1>2, ReadType, TrackNames
<1> QED BY <1>1, <1>2, <1>4 DEF TaskStart, Goto, TypeOK, Steps

LEMMA ReplaceStartTypes == ASSUME TypeOK, NEW k \in Replacers, ReplaceStart(k) PROVE TypeOK'
<1>1. k \in Writers
    BY DEF Writers
<1> QED BY <1>1, TrackNames DEF ReplaceStart, Goto, TypeOK, Steps

LEMMA SaveTypes == ASSUME TypeOK, NEW w \in Writers, Save(w) PROVE TypeOK'
<1>1. track[w] \in Tracks /\ token[w] + 1 \in Nat
    BY DEF TypeOK
<1>2. version' \in [Tracks -> Nat] /\ status' \in [track : Tracks, ver : Nat]
    BY <1>1 DEF Save, TypeOK
<1>3. edits' \in [Writers -> Nat]
    BY DEF Save, TypeOK
<1>4. behind' \subseteq Tracks
    BY TrackNames DEF Save, TypeOK, Existing
<1>5. moved' \subseteq Writers \X Tracks
    BY <1>1 DEF Save, TypeOK
<1>6. pc' \in [Writers -> Steps]
    BY DEF Save, TypeOK, Goto, Steps
<1> QED BY <1>2, <1>3, <1>4, <1>5, <1>6 DEF Save, TypeOK, Goto

LEMMA RefusedTypes == ASSUME TypeOK, NEW w \in Writers, Refused(w) PROVE TypeOK'
    BY DEF Refused, Goto, TypeOK, Steps

LEMMA TakesInType == ASSUME TypeOK, NEW w \in Writers PROVE TakesIn(w) \in Nat
    BY DEF TakesIn, TypeOK

LEMMA InsertTypes == ASSUME TypeOK, NEW w \in Writers, Insert(w) PROVE TypeOK'
<1>0. TakesIn(w) \in Nat
    BY TakesInType
<1>1. track[w] \in Tracks /\ token[w] + 1 \in Nat /\ TakesIn(w) \in Nat
    BY <1>0 DEF TypeOK
<1>2. [ver |-> token[w] + 1, base |-> TakesIn(w)] \in Revision
    BY <1>1 DEF Revision
<1>3. revs' \in [Tracks -> Seq(Revision)]
    <2>1. Append(revs[track[w]], [ver |-> token[w] + 1, base |-> TakesIn(w)]) \in Seq(Revision)
        BY <1>1, <1>2 DEF TypeOK
    <2> QED BY <1>1, <2>1 DEF Insert, TypeOK
<1>4. base' \in [Writers -> Nat]
    BY <1>1 DEF Insert, TypeOK
<1>5. from' \in [Writers -> {"load", "draft", "reply"}]
    BY DEF Insert, TypeOK
<1>6. AfterInsert(w) \in {"closed", "mirror", "reply"}
    BY DEF AfterInsert
<1>7. AfterInsert(w) # "closed" => w \in Editors
    BY DEF AfterInsert
<1>8. pc' = [pc EXCEPT ![w] = AfterInsert(w)]
    BY DEF Insert, Goto
<1>9. pc' \in [Writers -> Steps]
    BY <1>6, <1>8 DEF TypeOK, Steps
<1> QED BY <1>3, <1>4, <1>5, <1>6, <1>7, <1>8, <1>9 DEF Insert, TypeOK

LEMMA CrashTypes == ASSUME TypeOK, NEW w \in Writers, Crash(w) PROVE TypeOK'
<1>1. lost' \subseteq Tracks \X Nat
    BY DEF Crash, TypeOK
<1> QED BY <1>1 DEF Crash, Goto, TypeOK, Steps

LEMMA TypeStep == TypeOK /\ [Next]_vars => TypeOK'
<1> SUFFICES ASSUME TypeOK, [Next]_vars PROVE TypeOK'
    OBVIOUS
<1>1. ASSUME NEW e \in Editors, Open(e) \/ Load(e) \/ Submit(e) \/ Answer(e) PROVE TypeOK'
    BY <1>1, OpenTypes, LoadTypes, SubmitTypes, MirrorReadTypes, ShowConflictTypes,
       ReplyTypes DEF Answer
<1>2. ASSUME NEW w \in Writers, AddRevision(w) \/ Crash(w) PROVE TypeOK'
    BY <1>2, SaveTypes, RefusedTypes, InsertTypes, CrashTypes DEF AddRevision
<1>3. CASE UNCHANGED vars
    BY <1>3 DEF vars, TypeOK
<1> QED BY <1>1, <1>2, <1>3, TaskStartTypes, ReplaceStartTypes DEF Next

-----------------------------------------------------------------------------
(* Versions as tickets *)

(* The steps that touch neither the counters nor the rows nor a writer that *)
(* is between its commits.                                                  *)
Quiet ==
    /\ UNCHANGED <<version, revs>>
    /\ lost \subseteq lost'
    /\ \A w \in Writers :
          \/ pc'[w] = pc[w] /\ track'[w] = track[w] /\ token'[w] = token[w]
          \/ pc[w] \notin InsertSteps /\ pc'[w] \notin InsertSteps
          \/ pc[w] \in InsertSteps /\ pc'[w] \notin InsertSteps
                /\ <<track[w], token[w] + 1>> \in lost'

LEMMA QuietKeepsTickets ==
    ASSUME TypeOK, TicketInv, VersionHasRevision, Quiet
    PROVE  TicketInv' /\ VersionHasRevision'
<1>1. \A t, n : Inserted(t, n)' <=> Inserted(t, n)
    BY DEF Inserted, Quiet
<1>2. \A w \in Writers : pc'[w] \in InsertSteps =>
          pc[w] \in InsertSteps /\ track'[w] = track[w] /\ token'[w] = token[w]
    BY DEF Quiet
<1>3. RevisionsHaveTickets' /\ VersionsAreUnique'
    BY DEF Quiet, TicketInv, RevisionsHaveTickets, VersionsAreUnique
<1>4. HoldersHaveTickets'
    BY <1>1, <1>2 DEF Quiet, TicketInv, HoldersHaveTickets
<1>5. HoldersDiffer'
    BY <1>2 DEF TicketInv, HoldersDiffer
<1>6. ASSUME NEW t \in Tracks, NEW n \in 1 .. version[t]
      PROVE  Inserted(t, n)' \/ <<t, n>> \in lost' \/ \E w \in Writers : Inserting(w, t, n)'
    <2>1. CASE Inserted(t, n) \/ <<t, n>> \in lost
        BY <1>1, <2>1 DEF Quiet
    <2>2. ASSUME NEW w \in Writers, Inserting(w, t, n)
          PROVE  <<t, n>> \in lost' \/ Inserting(w, t, n)'
        BY <2>2 DEF Quiet, Inserting, InsertSteps
    <2> QED BY <2>1, <2>2 DEF VersionHasRevision
<1> QED BY <1>3, <1>4, <1>5, <1>6 DEF TicketInv, VersionHasRevision, Quiet

LEMMA SaveTickets ==
    ASSUME TypeOK, TicketInv, VersionHasRevision, NEW w \in Writers, Save(w)
    PROVE  TicketInv' /\ VersionHasRevision'
<1> DEFINE t0 == track[w]
           n0 == token[w] + 1
<1>1. /\ t0 \in Tracks /\ token[w] \in Nat /\ version[t0] = token[w]
      /\ version' = [version EXCEPT ![t0] = n0] /\ revs' = revs /\ lost' = lost
      /\ token' = token /\ track' = track
    BY DEF Save, TypeOK
<1>2. /\ pc[w] \in {"save", "msave"} /\ pc'[w] \in InsertSteps
      /\ \A v \in Writers : v # w => pc'[v] = pc[v]
    BY DEF Save, Goto, TypeOK, InsertSteps
<1>3. /\ \A t \in Tracks :
            version[t] \in Nat /\ version'[t] \in Nat /\ version[t] <= version'[t]
      /\ version'[t0] = n0 /\ \A t \in Tracks : t # t0 => version'[t] = version[t]
    BY <1>1 DEF TypeOK
<1>4. \A t, n : Inserted(t, n)' <=> Inserted(t, n)
    BY <1>1 DEF Inserted
<1>5. RevisionsHaveTickets'
    <2>1. ASSUME NEW t \in Tracks, NEW k \in 1 .. Len(revs[t])
          PROVE  1 <= revs[t][k].ver /\ revs[t][k].ver <= version'[t]
        <3>0. revs[t] \in Seq(Revision)
            BY DEF TypeOK
        <3>4. revs[t][k] \in Revision
            BY <3>0
        <3>1. revs[t][k].ver \in Nat
            BY <3>4 DEF Revision
        <3>2. 1 <= revs[t][k].ver /\ revs[t][k].ver <= version[t]
            BY DEF TicketInv, RevisionsHaveTickets
        <3> QED BY <1>3, <3>1, <3>2
    <2> QED BY <1>1, <2>1 DEF RevisionsHaveTickets
<1>6. VersionsAreUnique'
    BY <1>1 DEF TicketInv, VersionsAreUnique
<1>7. ~Inserted(t0, n0)
    BY <1>1, <1>3 DEF Inserted, TicketInv, RevisionsHaveTickets
<1>8. HoldersHaveTickets'
    <2>1. ASSUME NEW v \in Writers, pc'[v] \in InsertSteps
          PROVE  token[v] + 1 <= version'[track[v]] /\ ~Inserted(track[v], token[v] + 1)
        <3>1. CASE v = w
            BY <1>1, <1>3, <1>7, <3>1
        <3>2. CASE v # w
            <4>1. token[v] + 1 <= version[track[v]] /\ ~Inserted(track[v], token[v] + 1)
                BY <1>2, <2>1, <3>2 DEF TicketInv, HoldersHaveTickets
            <4>2. track[v] \in Tracks /\ token[v] \in Nat
                BY DEF TypeOK
            <4>3. version[track[v]] <= version'[track[v]]
                BY <1>3, <4>2
            <4>4. version[track[v]] \in Nat /\ version'[track[v]] \in Nat
                BY <1>3, <4>2
            <4> QED BY <4>1, <4>2, <4>3, <4>4
        <3> QED BY <3>1, <3>2
    <2> QED BY <1>1, <1>4, <2>1 DEF HoldersHaveTickets
<1>9. HoldersDiffer'
    <2>1. ASSUME NEW v \in Writers, v # w, pc[v] \in InsertSteps, track[v] = t0
          PROVE  token[v] # token[w]
        <3>1. token[v] + 1 <= version[t0] /\ token[v] \in Nat
            BY <2>1 DEF TicketInv, HoldersHaveTickets, TypeOK
        <3> QED BY <1>1, <3>1
    <2>2. ASSUME NEW u \in Writers, NEW v \in Writers, pc'[u] \in InsertSteps,
                 pc'[v] \in InsertSteps, track[u] = track[v], token[u] = token[v]
          PROVE  u = v
        <3>1. CASE u = w \/ v = w
            BY <1>2, <2>1, <2>2, <3>1
        <3>2. CASE u # w /\ v # w
            BY <1>2, <2>2, <3>2 DEF TicketInv, HoldersDiffer
        <3> QED BY <3>1, <3>2
    <2> QED BY <1>1, <2>2 DEF HoldersDiffer
<1>10. ASSUME NEW t \in Tracks, NEW n \in 1 .. version'[t]
       PROVE  Inserted(t, n)' \/ <<t, n>> \in lost' \/ \E v \in Writers : Inserting(v, t, n)'
    <2>1. CASE t = t0 /\ n = n0
        BY <1>1, <1>2, <2>1 DEF Inserting, InsertSteps
    <2>2. CASE ~(t = t0 /\ n = n0)
        <3>1. n \in 1 .. version[t]
            BY <1>1, <1>3, <2>2
        <3>2. CASE Inserted(t, n) \/ <<t, n>> \in lost
            BY <1>1, <1>4, <3>2
        <3>3. ASSUME NEW v \in Writers, Inserting(v, t, n)
              PROVE  Inserting(v, t, n)'
            <4>1. v # w
                BY <1>2, <3>3 DEF Inserting
            <4> QED BY <1>1, <1>2, <3>3, <4>1 DEF Inserting
        <3> QED BY <3>1, <3>2, <3>3 DEF VersionHasRevision
    <2> QED BY <2>1, <2>2
<1> QED BY <1>5, <1>6, <1>8, <1>9, <1>10 DEF TicketInv, VersionHasRevision

(* What the second commit adds to the rows.                                 *)
LEMMA InsertedRow ==
    ASSUME TypeOK, NEW w \in Writers, Insert(w)
    PROVE  /\ track[w] \in Tracks /\ Len(revs[track[w]]) \in Nat
           /\ \A t \in Tracks : t # track[w] => revs'[t] = revs[t]
           /\ Len(revs'[track[w]]) = Len(revs[track[w]]) + 1
           /\ \A k \in 1 .. Len(revs[track[w]]) : revs'[track[w]][k] = revs[track[w]][k]
           /\ revs'[track[w]][Len(revs[track[w]]) + 1].ver = token[w] + 1
           /\ revs'[track[w]][Len(revs[track[w]]) + 1].base = TakesIn(w)
<1> DEFINE t0 == track[w]
           r0 == [ver |-> token[w] + 1, base |-> TakesIn(w)]
<1>0. TakesIn(w) \in Nat
    BY TakesInType
<1>1. t0 \in Tracks /\ token[w] + 1 \in Nat
    BY DEF TypeOK
<1>2. r0 \in Revision /\ r0.ver = token[w] + 1 /\ r0.base = TakesIn(w)
    BY <1>0, <1>1 DEF Revision
<1>3. revs[t0] \in Seq(Revision) /\ revs \in [Tracks -> Seq(Revision)]
    BY <1>1 DEF TypeOK
<1>4. revs' = [revs EXCEPT ![t0] = Append(revs[t0], r0)]
    BY DEF Insert
<1> HIDE DEF r0
<1>5. revs'[t0] = Append(revs[t0], r0) /\ \A t \in Tracks : t # t0 => revs'[t] = revs[t]
    BY <1>1, <1>3, <1>4
<1>6. /\ Len(revs[t0]) \in Nat
      /\ Len(revs'[t0]) = Len(revs[t0]) + 1
      /\ \A k \in 1 .. Len(revs[t0]) : revs'[t0][k] = revs[t0][k]
      /\ revs'[t0][Len(revs[t0]) + 1] = r0
    BY <1>2, <1>3, <1>5
<1> QED BY <1>1, <1>2, <1>5, <1>6

LEMMA InsertedGrows ==
    ASSUME TypeOK, NEW w \in Writers, Insert(w), NEW t \in Tracks, NEW n
    PROVE  Inserted(t, n)' <=> Inserted(t, n) \/ (t = track[w] /\ n = token[w] + 1)
<1> DEFINE t0 == track[w]
<1>1. /\ t0 \in Tracks /\ Len(revs[t0]) \in Nat
      /\ \A u \in Tracks : u # t0 => revs'[u] = revs[u]
      /\ Len(revs'[t0]) = Len(revs[t0]) + 1
      /\ \A k \in 1 .. Len(revs[t0]) : revs'[t0][k] = revs[t0][k]
      /\ revs'[t0][Len(revs[t0]) + 1].ver = token[w] + 1
    BY InsertedRow
<1>2. CASE t # t0
    BY <1>1, <1>2 DEF Inserted
<1>3. CASE t = t0
    <2>1. 1 .. Len(revs'[t0]) = 1 .. Len(revs[t0]) \cup {Len(revs[t0]) + 1}
        BY <1>1
    <2> QED BY <1>1, <1>3, <2>1 DEF Inserted
<1> QED BY <1>2, <1>3

LEMMA InsertTickets ==
    ASSUME TypeOK, TicketInv, VersionHasRevision, NEW w \in Writers, Insert(w)
    PROVE  TicketInv' /\ VersionHasRevision'
<1> DEFINE t0 == track[w]
           n0 == token[w] + 1
<1>1. /\ t0 \in Tracks /\ Len(revs[t0]) \in Nat
      /\ \A u \in Tracks : u # t0 => revs'[u] = revs[u]
      /\ Len(revs'[t0]) = Len(revs[t0]) + 1
      /\ \A k \in 1 .. Len(revs[t0]) : revs'[t0][k] = revs[t0][k]
      /\ revs'[t0][Len(revs[t0]) + 1].ver = n0
    BY InsertedRow
<1>2. /\ pc[w] \in InsertSteps /\ pc'[w] \notin InsertSteps
      /\ \A v \in Writers : v # w => pc'[v] = pc[v]
      /\ version' = version /\ lost' = lost /\ token' = token /\ track' = track
    BY DEF Insert, AfterInsert, Goto, TypeOK, InsertSteps
<1>3. n0 <= version[t0] /\ ~Inserted(t0, n0) /\ 1 <= n0 /\ n0 \in Nat
    BY <1>2 DEF TicketInv, HoldersHaveTickets, TypeOK
<1>4. 1 .. Len(revs'[t0]) = 1 .. Len(revs[t0]) \cup {Len(revs[t0]) + 1}
    BY <1>1
<1>5. RevisionsHaveTickets'
    <2>1. ASSUME NEW t \in Tracks, NEW k \in 1 .. Len(revs'[t])
          PROVE  1 <= revs'[t][k].ver /\ revs'[t][k].ver <= version[t]
        <3>1. CASE t # t0 \/ k \in 1 .. Len(revs[t0])
            BY <1>1, <2>1, <3>1 DEF TicketInv, RevisionsHaveTickets
        <3>2. CASE t = t0 /\ k = Len(revs[t0]) + 1
            BY <1>1, <1>3, <3>2
        <3> QED BY <1>4, <2>1, <3>1, <3>2
    <2> QED BY <1>2, <2>1 DEF RevisionsHaveTickets
<1>6. \A k \in 1 .. Len(revs[t0]) : revs[t0][k].ver # n0
    BY <1>3 DEF Inserted
<1>7. VersionsAreUnique'
    <2>1. ASSUME NEW t \in Tracks, NEW j \in 1 .. Len(revs'[t]), NEW k \in 1 .. Len(revs'[t]),
                 revs'[t][j].ver = revs'[t][k].ver
          PROVE  j = k
        <3>1. CASE t # t0
            BY <1>1, <2>1, <3>1 DEF TicketInv, VersionsAreUnique
        <3>2. CASE t = t0
            <4>1. CASE j \in 1 .. Len(revs[t0]) /\ k \in 1 .. Len(revs[t0])
                BY <1>1, <2>1, <3>2, <4>1 DEF TicketInv, VersionsAreUnique
            <4>2. CASE j = Len(revs[t0]) + 1 \/ k = Len(revs[t0]) + 1
                BY <1>1, <1>4, <1>6, <2>1, <3>2, <4>2
            <4> QED BY <1>4, <3>2, <4>1, <4>2
        <3> QED BY <3>1, <3>2
    <2> QED BY <2>1 DEF VersionsAreUnique
<1>8. HoldersHaveTickets'
    <2>1. ASSUME NEW v \in Writers, pc'[v] \in InsertSteps
          PROVE  token[v] + 1 <= version[track[v]] /\ ~Inserted(track[v], token[v] + 1)'
        <3>1. v # w /\ pc[v] \in InsertSteps
            BY <1>2, <2>1
        <3>2. token[v] + 1 <= version[track[v]] /\ ~Inserted(track[v], token[v] + 1)
            BY <3>1 DEF TicketInv, HoldersHaveTickets
        <3>3. ~(track[v] = t0 /\ token[v] + 1 = n0)
            <4>1. token[v] \in Nat /\ token[w] \in Nat
                BY DEF TypeOK
            <4> QED BY <1>2, <3>1, <4>1 DEF TicketInv, HoldersDiffer
        <3>4. track[v] \in Tracks
            BY DEF TypeOK
        <3>5. Inserted(track[v], token[v] + 1)' <=>
                 Inserted(track[v], token[v] + 1)
                     \/ (track[v] = track[w] /\ token[v] + 1 = token[w] + 1)
            BY <1>2, <3>4, InsertedGrows
        <3> QED BY <3>2, <3>3, <3>5
    <2> QED BY <1>2, <2>1 DEF HoldersHaveTickets
<1>9. HoldersDiffer'
    BY <1>2 DEF TicketInv, HoldersDiffer
<1>10. ASSUME NEW t \in Tracks, NEW n \in 1 .. version[t]
       PROVE  Inserted(t, n)' \/ <<t, n>> \in lost' \/ \E v \in Writers : Inserting(v, t, n)'
    <2>1. CASE Inserted(t, n) \/ <<t, n>> \in lost
        BY <1>2, <2>1, InsertedGrows
    <2>2. ASSUME NEW v \in Writers, Inserting(v, t, n)
          PROVE  Inserted(t, n)' \/ Inserting(v, t, n)'
        <3>1. CASE v = w
            BY <2>2, <3>1, InsertedGrows DEF Inserting
        <3>2. CASE v # w
            BY <1>2, <2>2, <3>2 DEF Inserting
        <3> QED BY <3>1, <3>2
    <2> QED BY <2>1, <2>2 DEF VersionHasRevision
<1> QED BY <1>2, <1>5, <1>7, <1>8, <1>9, <1>10 DEF TicketInv, VersionHasRevision

-----------------------------------------------------------------------------
(* Published text *)

LEMMA LatestPublished ==
    ASSUME TypeOK, BaseInv, NEW t \in Tracks PROVE Published(Latest(t))
<1>1. CASE revs[t] = <<>>
    BY <1>1 DEF Latest, Published
<1>2. CASE revs[t] # <<>>
    <2>1. revs[t] \in Seq(Revision)
        BY DEF TypeOK
    <2>2. Len(revs[t]) \in 1 .. Len(revs[t])
        BY <1>2, <2>1
    <2> QED BY <1>2, <2>2 DEF Latest, BaseInv
<1> QED BY <1>1, <1>2

LEMMA ShownPublished ==
    ASSUME TypeOK, BaseInv, NEW t \in Tracks PROVE Published(Shown(t))
    BY LatestPublished, TrackNames DEF Shown, Newer

(* A step that inserts nothing keeps BaseInv when what it sets is published.*)
LEMMA BaseKept ==
    ASSUME TypeOK, BaseInv, UNCHANGED revs, NEW w \in Writers, NEW n, Published(n),
           base' = base \/ base' = [base EXCEPT ![w] = n]
    PROVE  BaseInv'
<1>1. \A m : Published(m)' <=> Published(m)
    BY DEF Published, Inserted
<1>2. \A v \in Writers : Published(base'[v])
    BY DEF BaseInv, TypeOK
<1> QED BY <1>1, <1>2 DEF BaseInv

LEMMA InsertBase ==
    ASSUME TypeOK, BaseInv, NEW w \in Writers, Insert(w) PROVE BaseInv'
<1> DEFINE t0 == track[w]
<1>0. PICK m : m = TakesIn(w)
    OBVIOUS
<1>1. /\ t0 \in Tracks /\ Len(revs[t0]) \in Nat
      /\ \A u \in Tracks : u # t0 => revs'[u] = revs[u]
      /\ Len(revs'[t0]) = Len(revs[t0]) + 1
      /\ \A k \in 1 .. Len(revs[t0]) : revs'[t0][k] = revs[t0][k]
      /\ revs'[t0][Len(revs[t0]) + 1].base = m
    BY <1>0, InsertedRow
<1>2. \A n : Published(n) => Published(n)'
    BY InsertedGrows, TrackNames DEF Published
<1>3. Published(m)'
    <2>1. CASE t0 = Main
        <3>1. m = token[w] + 1
            BY <1>0, <2>1 DEF TakesIn
        <3>2. Inserted(Main, m)'
            BY <2>1, <3>1, InsertedGrows, TrackNames
        <3> QED BY <3>2 DEF Published
    <2>2. CASE t0 # Main
        BY <1>0, <1>2, <2>2 DEF TakesIn, BaseInv
    <2> QED BY <2>1, <2>2
<1>4. base' = [base EXCEPT ![w] = m]
    BY <1>0 DEF Insert
<1>5. ASSUME NEW v \in Writers PROVE Published(base[v])'
    <2>1. base'[v] = IF v = w THEN m ELSE base[v]
        BY <1>4 DEF TypeOK
    <2> QED BY <1>2, <1>3, <2>1 DEF BaseInv
<1>6. ASSUME NEW t \in Tracks, NEW k \in 1 .. Len(revs'[t])
      PROVE  Published(revs[t][k].base)'
    <2>1. CASE t # t0 \/ k \in 1 .. Len(revs[t0])
        BY <1>1, <1>2, <1>6, <2>1 DEF BaseInv
    <2>2. CASE t = t0 /\ k = Len(revs[t0]) + 1
        BY <1>1, <1>3, <2>2
    <2> QED BY <1>1, <2>1, <2>2
<1> QED BY <1>5, <1>6 DEF BaseInv

-----------------------------------------------------------------------------
(* Tokens *)

(* A step that bumps no counter and lets only w read one.                   *)
LEMMA TokenKept ==
    ASSUME TypeOK, TokenInv, UNCHANGED version, NEW w \in Writers, track'[w] \in Tracks,
           \A v \in Writers : v # w => pc'[v] = pc[v] /\ token'[v] = token[v]
                                         /\ track'[v] = track[v],
           \A v \in Writers : v # w =>
               \A t \in Tracks : <<v, t>> \in moved' <=> <<v, t>> \in moved,
           \/ pc'[w] \notin {"load", "open", "save", "msave"}
           \/ w \in Replacers
           \/ token'[w] = version[track'[w]] /\ <<w, track'[w]>> \notin moved'
           \/ pc[w] \in {"load", "open", "save", "msave"} /\ token'[w] = token[w]
                 /\ track'[w] = track[w] /\ moved' = moved
    PROVE  TokenInv'
<1>1. \A t \in Tracks : version[t] \in Nat
    BY DEF TypeOK
<1>2. \A v \in Writers : track[v] \in Tracks
    BY DEF TypeOK
<1>3. ASSUME NEW v \in Editors \cup Tasks, pc'[v] \in {"load", "open", "save", "msave"}
      PROVE  /\ token'[v] <= version[track'[v]]
             /\ <<v, track'[v]>> \in moved' <=> token'[v] # version[track'[v]]
    <2>1. CASE v # w
        BY <1>2, <1>3, <2>1 DEF TokenInv, Writers
    <2>2. CASE v = w
        <3>1. v \notin Replacers
            BY ConstantsAssumption
        <3>2. CASE token'[w] = version[track'[w]] /\ <<w, track'[w]>> \notin moved'
            <4>1. token'[w] <= version[track'[w]]
                BY <3>2, <1>1
            <4> QED BY <2>2, <3>2, <4>1
        <3>3. CASE pc[w] \in {"load", "open", "save", "msave"} /\ token'[w] = token[w]
                      /\ track'[w] = track[w] /\ moved' = moved
            BY <2>2, <3>3 DEF TokenInv
        <3> QED BY <1>3, <2>2, <3>1, <3>2, <3>3
    <2> QED BY <2>1, <2>2
<1> QED BY <1>3 DEF TokenInv

LEMMA SaveTokens ==
    ASSUME TypeOK, TokenInv, NEW w \in Writers, Save(w) PROVE TokenInv'
<1>1. /\ track[w] \in Tracks /\ version[track[w]] \in Nat /\ track' = track /\ token' = token
      /\ version' = [version EXCEPT ![track[w]] = version[track[w]] + 1]
      /\ moved' = moved \cup {<<v, track[w]>> : v \in Writers \ {w}}
      /\ pc'[w] \in InsertSteps /\ \A v \in Writers : v # w => pc'[v] = pc[v]
    BY DEF Save, Goto, TypeOK, InsertSteps
<1>2. ASSUME NEW v \in Editors \cup Tasks, pc'[v] \in {"load", "open", "save", "msave"}
      PROVE  /\ token[v] <= version'[track[v]]
             /\ <<v, track[v]>> \in moved' <=> token[v] # version'[track[v]]
    <2>1. v \in Writers /\ v # w
        BY <1>1, <1>2 DEF Writers, InsertSteps
    <2>2. /\ token[v] <= version[track[v]]
          /\ <<v, track[v]>> \in moved <=> token[v] # version[track[v]]
        BY <1>1, <1>2, <2>1 DEF TokenInv
    <2>3. track[v] \in Tracks /\ token[v] \in Nat /\ version[track[v]] \in Nat
        BY <2>1 DEF TypeOK
    <2>4. CASE track[v] = track[w]
        <3>1. version'[track[v]] = version[track[v]] + 1
            BY <1>1, <2>4 DEF TypeOK
        <3>2. <<v, track[v]>> \in moved'
            BY <1>1, <2>1, <2>4
        <3> QED BY <2>2, <2>3, <3>1, <3>2
    <2>5. CASE track[v] # track[w]
        <3>1. version'[track[v]] = version[track[v]]
            BY <1>1, <2>3, <2>5 DEF TypeOK
        <3>2. <<v, track[v]>> \in moved' <=> <<v, track[v]>> \in moved
            BY <1>1, <2>5
        <3> QED BY <2>2, <3>1, <3>2
    <2> QED BY <2>4, <2>5
<1> QED BY <1>1, <1>2 DEF TokenInv

LEMMA TokenStep == TypeOK /\ TokenInv /\ [Next]_vars => TokenInv'
<1> SUFFICES ASSUME TypeOK, TokenInv, [Next]_vars PROVE TokenInv'
    OBVIOUS
<1>0. TypeOK'
    BY TypeStep
<1>1. \A w \in Writers : track'[w] \in Tracks
    BY <1>0 DEF TypeOK
<1>2. Editors \subseteq Writers /\ Tasks \subseteq Writers /\ Replacers \subseteq Writers
    BY DEF Writers
<1>3. ASSUME NEW w \in Writers, NEW t \in Tracks, ReadVersion(w, t), UNCHANGED version,
             NEW l, Goto(w, l)
      PROVE  TokenInv'
    <2>1. token'[w] = version[t] /\ track'[w] = t /\ <<w, t>> \notin moved'
        BY <1>3 DEF ReadVersion, TypeOK
    <2> QED BY <1>1, <1>3, <2>1, TokenKept DEF ReadVersion, Goto, TypeOK
<1>4. ASSUME NEW w \in Writers, UNCHANGED <<version, token, track, moved>>, NEW l, Goto(w, l),
             \/ l \notin {"load", "open", "save", "msave"}
             \/ pc[w] \in {"load", "open", "save", "msave"}
      PROVE  TokenInv'
    BY <1>1, <1>4, TokenKept DEF Goto, TypeOK
<1>5. ASSUME NEW e \in Editors, Open(e) PROVE TokenInv'
    BY <1>2, <1>3, <1>5, TrackNames DEF Open
<1>6. ASSUME NEW e \in Editors, Load(e) PROVE TokenInv'
    BY <1>2, <1>4, <1>6 DEF Load
<1>7. ASSUME NEW e \in Editors, Submit(e) PROVE TokenInv'
    BY <1>2, <1>3, <1>4, <1>7, TrackNames DEF Submit
<1>8. ASSUME NEW e \in Editors, MirrorRead(e) PROVE TokenInv'
    BY <1>2, <1>3, <1>8, TrackNames DEF MirrorRead
<1>9. ASSUME NEW e \in Editors, ShowConflict(e) PROVE TokenInv'
    BY <1>2, <1>4, <1>9 DEF ShowConflict
<1>10. ASSUME NEW e \in Editors, Reply(e) PROVE TokenInv'
    BY <1>2, <1>3, <1>10, TrackNames DEF Reply
<1>11. ASSUME NEW k \in Tasks, TaskStart(k) PROVE TokenInv'
    BY <1>2, <1>3, <1>11, TrackNames DEF TaskStart
<1>12. ASSUME NEW k \in Replacers, ReplaceStart(k) PROVE TokenInv'
    BY <1>1, <1>2, <1>12, TokenKept DEF ReplaceStart, Goto, TypeOK
<1>13. ASSUME NEW w \in Writers, Refused(w) PROVE TokenInv'
    BY <1>4, <1>13 DEF Refused
<1>14. ASSUME NEW w \in Writers, Insert(w) PROVE TokenInv'
    BY <1>4, <1>14 DEF Insert, AfterInsert
<1>15. ASSUME NEW w \in Writers, Crash(w) PROVE TokenInv'
    BY <1>4, <1>15 DEF Crash
<1>16. CASE UNCHANGED vars
    BY <1>16 DEF vars, TokenInv
<1> QED
    BY <1>5, <1>6, <1>7, <1>8, <1>9, <1>10, <1>11, <1>12, <1>13, <1>14, <1>15, <1>16,
       SaveTokens
    DEF Next, Answer, AddRevision

-----------------------------------------------------------------------------
LEMMA TicketStep ==
    TypeOK /\ TicketInv /\ VersionHasRevision /\ [Next]_vars
        => TicketInv' /\ VersionHasRevision'
<1> SUFFICES ASSUME TypeOK, TicketInv, VersionHasRevision, [Next]_vars
             PROVE  TicketInv' /\ VersionHasRevision'
    OBVIOUS
<1>1. Editors \subseteq Writers /\ Tasks \subseteq Writers /\ Replacers \subseteq Writers
    BY DEF Writers
<1>2. ASSUME NEW w \in Writers, pc[w] \notin InsertSteps, NEW l, l \notin InsertSteps,
             Goto(w, l), UNCHANGED <<version, revs, lost>>,
             \A v \in Writers : v # w => token'[v] = token[v] /\ track'[v] = track[v]
      PROVE  Quiet
    BY <1>2 DEF Quiet, Goto, TypeOK
<1>3. ASSUME NEW e \in Editors, Open(e) \/ Load(e) \/ Submit(e) \/ Answer(e) PROVE Quiet
    <2>1. e \in Writers /\ pc[e] \notin InsertSteps /\ UNCHANGED <<version, revs, lost>>
        BY <1>1, <1>3 DEF Open, Load, Submit, Answer, MirrorRead, ShowConflict, Reply, InsertSteps
    <2>2. \A v \in Writers : v # e => token'[v] = token[v] /\ track'[v] = track[v]
        BY <1>3 DEF Open, Load, Submit, Answer, MirrorRead, ShowConflict, Reply, ReadVersion, TypeOK
    <2>3. \E l : l \notin InsertSteps /\ Goto(e, l)
        BY <1>3 DEF Open, Load, Submit, Answer, MirrorRead, ShowConflict, Reply, InsertSteps
    <2> QED BY <1>2, <2>1, <2>2, <2>3
<1>4. ASSUME NEW k \in Tasks, TaskStart(k) PROVE Quiet
    BY <1>1, <1>2, <1>4 DEF TaskStart, ReadVersion, InsertSteps, TypeOK
<1>5. ASSUME NEW k \in Replacers, ReplaceStart(k) PROVE Quiet
    BY <1>1, <1>2, <1>5 DEF ReplaceStart, InsertSteps, TypeOK
<1>6. ASSUME NEW w \in Writers, Refused(w) PROVE Quiet
    BY <1>2, <1>6 DEF Refused, InsertSteps
<1>7. ASSUME NEW w \in Writers, Crash(w) PROVE Quiet
    BY <1>7 DEF Crash, Goto, Quiet, InsertSteps, TypeOK
<1>8. ASSUME UNCHANGED vars PROVE Quiet
    <2>1. UNCHANGED <<version, revs, lost, pc, track, token>>
        BY <1>8 DEF vars
    <2> QED BY <2>1 DEF Quiet
<1>9. ASSUME Quiet PROVE TicketInv' /\ VersionHasRevision'
    BY <1>9, QuietKeepsTickets
<1> QED
    BY <1>3, <1>4, <1>5, <1>6, <1>7, <1>8, <1>9, SaveTickets, InsertTickets
    DEF Next, AddRevision

LEMMA BaseStep == TypeOK /\ BaseInv /\ [Next]_vars => BaseInv'
<1> SUFFICES ASSUME TypeOK, BaseInv, [Next]_vars PROVE BaseInv'
    OBVIOUS
<1>1. Editors \subseteq Writers /\ Tasks \subseteq Writers /\ Replacers \subseteq Writers
    BY DEF Writers
<1>2. ASSUME UNCHANGED <<revs, base>> PROVE BaseInv'
    BY <1>2 DEF BaseInv, Published, Inserted
<1>3. ASSUME NEW e \in Editors, Load(e) PROVE BaseInv'
    <2>1. PICK t \in {Main, Draft(e)} : base' = [base EXCEPT ![e] = Shown(t)]
        BY <1>3 DEF Load
    <2>2. Published(Shown(t)) /\ UNCHANGED revs
        BY <1>3, <2>1, ShownPublished, TrackNames DEF Load
    <2> QED BY <1>1, <2>1, <2>2, BaseKept
<1>4. ASSUME NEW e \in Editors, ShowConflict(e) PROVE BaseInv'
    <2>1. PICK n : n = Newer(base[e], Latest(track[e]))
        OBVIOUS
    <2>2. Published(Latest(track[e])) /\ Published(base[e])
        BY <1>1, LatestPublished DEF BaseInv, TypeOK
    <2>3. Published(n)
        BY <2>1, <2>2 DEF Newer
    <2>4. base' = [base EXCEPT ![e] = n] /\ UNCHANGED revs
        BY <1>4, <2>1 DEF ShowConflict
    <2> QED BY <1>1, <2>3, <2>4, BaseKept
<1>5. ASSUME NEW e \in Editors, Reply(e) PROVE BaseInv'
    <2>1. PICK n : n = IF from[e] = "draft" THEN Newer(base[e], Shown(Draft(e))) ELSE base[e]
        OBVIOUS
    <2>2. Published(Shown(Draft(e))) /\ Published(base[e])
        BY <1>1, ShownPublished, TrackNames DEF BaseInv
    <2>3. Published(n)
        BY <2>1, <2>2 DEF Newer
    <2>4. base' = [base EXCEPT ![e] = n] /\ UNCHANGED revs
        BY <1>5, <2>1 DEF Reply
    <2> QED BY <1>1, <2>3, <2>4, BaseKept
<1>6. ASSUME NEW e \in Editors, Open(e) \/ Submit(e) \/ MirrorRead(e) PROVE BaseInv'
    BY <1>2, <1>6 DEF Open, Submit, MirrorRead
<1>7. ASSUME NEW w \in Writers, Save(w) \/ Refused(w) \/ Crash(w) PROVE BaseInv'
    BY <1>2, <1>7 DEF Save, Refused, Crash
<1>8. CASE UNCHANGED vars
    BY <1>2, <1>8 DEF vars
<1> QED
    BY <1>2, <1>3, <1>4, <1>5, <1>6, <1>7, <1>8, InsertBase
    DEF Next, Answer, AddRevision, TaskStart, ReplaceStart

-----------------------------------------------------------------------------
(* The theorems *)

LEMMA InitInv == Init => IndInv
<1> SUFFICES ASSUME Init PROVE IndInv
    OBVIOUS
<1>1. TypeOK
    BY TrackNames DEF Init, TypeOK, Steps, NoSave
<1>2. \A t \in Tracks : Len(revs[t]) = 0 /\ version[t] = 0
    BY DEF Init
<1>5. \A w \in Writers : pc[w] = "closed"
    BY DEF Init
<1>6. TokenInv
    BY <1>5 DEF TokenInv, Writers
<1>7. HoldersHaveTickets /\ HoldersDiffer
    BY <1>5 DEF HoldersHaveTickets, HoldersDiffer, InsertSteps
<1>8. RevisionsHaveTickets /\ VersionsAreUnique
    BY <1>2 DEF RevisionsHaveTickets, VersionsAreUnique
<1>3. TokenInv /\ TicketInv
    BY <1>6, <1>7, <1>8 DEF TicketInv
<1>4. VersionHasRevision /\ BaseInv
    BY <1>2 DEF Init, VersionHasRevision, BaseInv, Published
<1> QED BY <1>1, <1>3, <1>4 DEF IndInv

(* The inductive invariant: tokens, tickets and published text together.    *)
THEOREM Invariance == Spec => []IndInv
<1>1. IndInv /\ [Next]_vars => IndInv'
    BY TypeStep, TokenStep, TicketStep, BaseStep DEF IndInv
<1> QED BY InitInv, <1>1, PTL DEF Spec

(* Rows, form fields and locals keep their types.                           *)
THEOREM TypeCorrect == Spec => []TypeOK
<1>1. IndInv => TypeOK
    BY DEF IndInv
<1> QED BY Invariance, <1>1, PTL

(* No two accepted saves of a track get the same version.                   *)
THEOREM UniqueVersions == Spec => []VersionsAreUnique
<1>1. IndInv => VersionsAreUnique
    BY DEF IndInv, TicketInv
<1> QED BY Invariance, <1>1, PTL

(* A version without a revision is one whose writer is under way or died.   *)
THEOREM VersionsHaveRevisions == Spec => []VersionHasRevision
<1>1. IndInv => VersionHasRevision
    BY DEF IndInv
<1> QED BY Invariance, <1>1, PTL

(* A personal snapshot never takes in text that was not published.          *)
THEOREM DraftsArePublished == Spec => []DraftsRestOnPublishedText
<1>1. IndInv => DraftsRestOnPublishedText
    BY TrackNames DEF IndInv, BaseInv, Published, DraftsRestOnPublishedText
<1> QED BY Invariance, <1>1, PTL

(* add_revision raises EditError only for a real conflict.                  *)
THEOREM NoSpuriousConflict == Spec => ConflictsAreReal
<1>1. IndInv /\ [Next]_vars =>
          [\A w \in Editors \cup Tasks : Refused(w) => <<w, track[w]>> \in moved]_vars
    BY DEF IndInv, TokenInv, Refused
<1> QED BY Invariance, <1>1, PTL DEF Spec, ConflictsAreReal

(* add_revision accepts no save that another one has overtaken.             *)
THEOREM NoStaleSave == Spec => StaleSaveIsRefused
<1>1. IndInv /\ [Next]_vars =>
          [\A w \in Editors \cup Tasks : Save(w) => <<w, track[w]>> \notin moved]_vars
    BY DEF IndInv, TokenInv, Save
<1> QED BY Invariance, <1>1, PTL DEF Spec, StaleSaveIsRefused

(* Counter and status change together, so the page's status is the newest   *)
(* save's.                                                                  *)
THEOREM StatusFollowsSaves == Spec => []StatusOfNewestSave
<1>1. Init => StatusOfNewestSave
    BY DEF Init, StatusOfNewestSave, NoSave, Tracks
<1>2. TypeOK /\ StatusOfNewestSave /\ [Next]_vars => StatusOfNewestSave'
    <2> SUFFICES ASSUME TypeOK, StatusOfNewestSave, [Next]_vars
                 PROVE  StatusOfNewestSave'
        OBVIOUS
    <2>1. ASSUME NEW w \in Writers, Save(w) PROVE StatusOfNewestSave'
        BY <2>1 DEF Save, StatusOfNewestSave, TypeOK
    <2>2. ASSUME UNCHANGED <<version, status>> PROVE StatusOfNewestSave'
        BY <2>2 DEF StatusOfNewestSave
    <2>3. ASSUME NEW e \in Editors, Open(e) \/ Load(e) \/ Submit(e) \/ Answer(e)
          PROVE  UNCHANGED <<version, status>>
        BY <2>3 DEF Open, Load, Submit, Answer, MirrorRead, ShowConflict, Reply
    <2>4. ASSUME NEW w, TaskStart(w) \/ ReplaceStart(w) \/ Refused(w) \/ Insert(w) \/ Crash(w)
          PROVE  UNCHANGED <<version, status>>
        BY <2>4 DEF TaskStart, ReplaceStart, Refused, Insert, Crash
    <2> QED BY <2>1, <2>2, <2>3, <2>4 DEF Next, AddRevision, vars
<1>3. IndInv => TypeOK
    BY DEF IndInv
<1> QED BY Invariance, <1>1, <1>2, <1>3, PTL DEF Spec

-----------------------------------------------------------------------------
(* PageRevisions implements VersionTracks *)

(* Nobody takes up, shows or gives up a number.                             *)
Idle ==
    /\ UNCHANGED <<version, revs>>
    /\ \A w \in Writers :
          \/ pc[w] \notin InsertSteps /\ pc'[w] \notin InsertSteps
          \/ /\ pc[w] \in InsertSteps /\ pc'[w] \in InsertSteps
             /\ track'[w] = track[w] /\ token'[w] = token[w]

HeldBy == [t \in Tracks |-> Held(t)]
ShownOf == [t \in Tracks |-> Shows(t)]

LEMMA IdleStutters == ASSUME Idle PROVE UNCHANGED <<version, HeldBy, ShownOf>>
<1>1. ASSUME NEW t \in Tracks PROVE Held(t)' = Held(t)
    BY DEF Idle, Held, InsertSteps
<1>2. ASSUME NEW t \in Tracks PROVE Shows(t)' = Shows(t)
    BY DEF Idle, Shows
<1> QED BY <1>1, <1>2 DEF HeldBy, ShownOf, Idle

(* Who else holds a number of w's track holds another one.                  *)
LEMMA GivesUp ==
    ASSUME TypeOK, TicketInv, NEW w \in Writers, pc[w] \in InsertSteps,
           pc'[w] \notin InsertSteps, UNCHANGED <<track, token>>,
           \A v \in Writers : v # w => pc'[v] = pc[v]
    PROVE  /\ track[w] \in Tracks /\ token[w] + 1 \in Held(track[w])
           /\ HeldBy' = [HeldBy EXCEPT ![track[w]] = @ \ {token[w] + 1}]
<1> DEFINE t0 == track[w]
           n0 == token[w] + 1
<1>1. t0 \in Tracks /\ n0 \in Held(t0)
    BY DEF TypeOK, Held, InsertSteps
<1>2. ASSUME NEW t \in Tracks, t # t0 PROVE Held(t)' = Held(t)
    BY <1>2 DEF Held, InsertSteps
<1>3. ASSUME NEW v \in Writers, v # w, pc[v] \in InsertSteps, track[v] = t0
      PROVE  token[v] + 1 # n0
    BY <1>3 DEF TicketInv, HoldersDiffer, TypeOK
<1>4. Held(t0)' = Held(t0) \ {n0}
    <2>1. ASSUME NEW n \in Held(t0)' PROVE n \in Held(t0) \ {n0}
        BY <1>3, <2>1 DEF Held, InsertSteps
    <2>2. ASSUME NEW n \in Held(t0), n # n0 PROVE n \in Held(t0)'
        BY <2>2 DEF Held, InsertSteps
    <2> QED BY <2>1, <2>2
<1> QED BY <1>1, <1>2, <1>4 DEF HeldBy

LEMMA SaveTakes ==
    ASSUME TypeOK, NEW w \in Writers, Save(w) PROVE VT!Take(track[w])
<1> DEFINE t0 == track[w]
           n0 == token[w] + 1
<1>1. /\ t0 \in Tracks /\ token[w] \in Nat /\ version[t0] = token[w]
      /\ version' = [version EXCEPT ![t0] = n0]
      /\ revs' = revs /\ token' = token /\ track' = track
    BY DEF Save, TypeOK
<1>2. /\ pc[w] \notin InsertSteps /\ pc'[w] \in InsertSteps
      /\ \A v \in Writers : v # w => pc'[v] = pc[v]
    BY DEF Save, Goto, TypeOK, InsertSteps
<1>3. ASSUME NEW t \in Tracks, t # t0 PROVE Held(t)' = Held(t)
    BY <1>1, <1>2, <1>3 DEF Held, InsertSteps
<1>4. Held(t0)' = Held(t0) \cup {n0}
    BY <1>1, <1>2 DEF Held, InsertSteps
<1>5. HeldBy' = [HeldBy EXCEPT ![t0] = @ \cup {version[t0] + 1}]
    BY <1>1, <1>3, <1>4 DEF HeldBy
<1>6. ShownOf' = ShownOf
    BY <1>1 DEF ShownOf, Shows
<1> QED BY <1>1, <1>5, <1>6 DEF VT!Take, HeldBy, ShownOf

LEMMA InsertShows ==
    ASSUME TypeOK, TicketInv, NEW w \in Writers, Insert(w)
    PROVE  VT!Show(track[w], token[w] + 1)
<1> DEFINE t0 == track[w]
           n0 == token[w] + 1
<1>1. /\ pc[w] \in InsertSteps /\ pc'[w] \notin InsertSteps
      /\ \A v \in Writers : v # w => pc'[v] = pc[v]
      /\ UNCHANGED <<version, track, token>>
    BY DEF Insert, AfterInsert, Goto, TypeOK, InsertSteps
<1>2. /\ t0 \in Tracks /\ n0 \in Held(t0)
      /\ HeldBy' = [HeldBy EXCEPT ![t0] = @ \ {n0}]
    BY <1>1, GivesUp
<1>3. /\ Len(revs[t0]) \in Nat
      /\ \A t \in Tracks : t # t0 => revs'[t] = revs[t]
      /\ Len(revs'[t0]) = Len(revs[t0]) + 1
      /\ \A k \in 1 .. Len(revs[t0]) : revs'[t0][k] = revs[t0][k]
      /\ revs'[t0][Len(revs[t0]) + 1].ver = n0
    BY InsertedRow
<1>4. ASSUME NEW t \in Tracks, t # t0 PROVE Shows(t)' = Shows(t)
    BY <1>3, <1>4 DEF Shows
<1>5. Shows(t0)' = Shows(t0) \cup {n0}
    <2>1. 1 .. Len(revs'[t0]) = 1 .. Len(revs[t0]) \cup {Len(revs[t0]) + 1}
        BY <1>3
    <2>2. Shows(t0)' = {revs'[t0][k].ver : k \in 1 .. Len(revs'[t0])}
        BY <1>1 DEF Shows
    <2>3. ASSUME NEW n \in Shows(t0)' PROVE n \in Shows(t0) \cup {n0}
        <3>1. PICK k \in 1 .. Len(revs'[t0]) : n = revs'[t0][k].ver
            BY <2>2, <2>3
        <3> QED BY <1>3, <2>1, <3>1 DEF Shows
    <2>4. ASSUME NEW n \in Shows(t0) PROVE n \in Shows(t0)'
        <3>1. PICK k \in 1 .. Len(revs[t0]) : n = revs[t0][k].ver
            BY <2>4 DEF Shows
        <3>2. k \in 1 .. Len(revs'[t0]) /\ n = revs'[t0][k].ver
            BY <1>3, <2>1, <3>1
        <3> QED BY <2>2, <3>2
    <2>5. n0 \in Shows(t0)'
        BY <1>3, <2>1, <2>2
    <2> QED BY <2>3, <2>4, <2>5
<1>6. ShownOf' = [ShownOf EXCEPT ![t0] = @ \cup {n0}]
    <2>1. ShownOf' = [t \in Tracks |-> Shows(t)']
        BY DEF ShownOf
    <2>2. \A t \in Tracks : Shows(t)' = IF t = t0 THEN Shows(t0) \cup {n0} ELSE Shows(t)
        BY <1>1, <1>4, <1>5
    <2> QED BY <1>2, <2>1, <2>2 DEF ShownOf
<1> QED BY <1>1, <1>2, <1>6 DEF VT!Show, HeldBy, ShownOf

LEMMA CrashLoses ==
    ASSUME TypeOK, TicketInv, NEW w \in Writers, Crash(w), pc[w] \in InsertSteps
    PROVE  VT!Lose(track[w], token[w] + 1)
<1>1. /\ pc'[w] \notin InsertSteps /\ UNCHANGED <<version, revs, track, token>>
      /\ \A v \in Writers : v # w => pc'[v] = pc[v]
    BY DEF Crash, Goto, TypeOK, InsertSteps
<1>2. /\ track[w] \in Tracks /\ token[w] + 1 \in Held(track[w])
      /\ HeldBy' = [HeldBy EXCEPT ![track[w]] = @ \ {token[w] + 1}]
    BY <1>1, GivesUp
<1>3. ShownOf' = ShownOf
    BY <1>1 DEF ShownOf, Shows
<1> QED BY <1>1, <1>2, <1>3 DEF VT!Lose, HeldBy, ShownOf

LEMMA StepImplements ==
    TypeOK /\ TicketInv /\ [Next]_vars => [VT!Next]_(VT!vars)
<1> SUFFICES ASSUME TypeOK, TicketInv, [Next]_vars PROVE [VT!Next]_(VT!vars)
    OBVIOUS
<1>1. Editors \subseteq Writers /\ Tasks \subseteq Writers /\ Replacers \subseteq Writers
    BY DEF Writers
<1>2. ASSUME NEW w \in Writers, pc[w] \notin InsertSteps, NEW l, l \notin InsertSteps,
             Goto(w, l), UNCHANGED <<version, revs>>,
             \A v \in Writers : v # w => token'[v] = token[v] /\ track'[v] = track[v]
      PROVE  Idle
    BY <1>2 DEF Idle, Goto, TypeOK
<1>3. ASSUME NEW e \in Editors, Open(e) \/ Load(e) \/ Submit(e) \/ Answer(e) PROVE Idle
    <2>1. e \in Writers /\ pc[e] \notin InsertSteps /\ UNCHANGED <<version, revs>>
        BY <1>1, <1>3 DEF Open, Load, Submit, Answer, MirrorRead, ShowConflict, Reply, InsertSteps
    <2>2. \A v \in Writers : v # e => token'[v] = token[v] /\ track'[v] = track[v]
        BY <1>3 DEF Open, Load, Submit, Answer, MirrorRead, ShowConflict, Reply, ReadVersion, TypeOK
    <2>3. \E l : l \notin InsertSteps /\ Goto(e, l)
        BY <1>3 DEF Open, Load, Submit, Answer, MirrorRead, ShowConflict, Reply, InsertSteps
    <2> QED BY <1>2, <2>1, <2>2, <2>3
<1>4. ASSUME NEW k \in Tasks, TaskStart(k) PROVE Idle
    BY <1>1, <1>2, <1>4 DEF TaskStart, ReadVersion, InsertSteps, TypeOK
<1>5. ASSUME NEW k \in Replacers, ReplaceStart(k) PROVE Idle
    BY <1>1, <1>2, <1>5 DEF ReplaceStart, InsertSteps, TypeOK
<1>6. ASSUME NEW w \in Writers, Refused(w) PROVE Idle
    BY <1>2, <1>6 DEF Refused, InsertSteps
<1>7. ASSUME NEW w \in Writers, Crash(w), pc[w] \notin InsertSteps PROVE Idle
    BY <1>7 DEF Crash, Goto, Idle, InsertSteps, TypeOK
<1>8. ASSUME UNCHANGED vars PROVE Idle
    <2>1. UNCHANGED <<version, revs, pc, track, token>>
        BY <1>8 DEF vars
    <2> QED BY <2>1 DEF Idle
<1>9. ASSUME Idle PROVE UNCHANGED VT!vars
    BY <1>9, IdleStutters DEF VT!vars, HeldBy, ShownOf
<1>10. ASSUME NEW w \in Writers, Save(w) PROVE VT!Next
    BY <1>10, SaveTakes DEF VT!Next, TypeOK
<1>11. ASSUME NEW w \in Writers, Insert(w) PROVE VT!Next
    <2>1. VT!Show(track[w], token[w] + 1) /\ track[w] \in Tracks
        BY <1>11, InsertShows DEF TypeOK
    <2> QED BY <2>1 DEF VT!Next, VT!Show
<1>12. ASSUME NEW w \in Writers, Crash(w), pc[w] \in InsertSteps PROVE VT!Next
    <2>1. VT!Lose(track[w], token[w] + 1) /\ track[w] \in Tracks
        BY <1>12, CrashLoses DEF TypeOK
    <2> QED BY <2>1 DEF VT!Next, VT!Lose
<1> QED
    BY <1>3, <1>4, <1>5, <1>6, <1>7, <1>8, <1>9, <1>10, <1>11, <1>12
    DEF Next, AddRevision

(* The two-commit saves implement the tickets of VersionTracks.             *)
THEOREM Implementation == Spec => SavesAreTickets
<1>1. Init => VT!Init
    <2> SUFFICES ASSUME Init PROVE VT!Init
        OBVIOUS
    <2>1. \A t \in Tracks : Held(t) = {} /\ Shows(t) = {}
        BY DEF Init, Held, Shows
    <2> QED BY <2>1 DEF Init, VT!Init
<1>2. IndInv => TypeOK /\ TicketInv
    BY DEF IndInv
<1> QED BY Invariance, StepImplements, <1>1, <1>2, PTL DEF Spec, SavesAreTickets, VT!Spec
=============================================================================
