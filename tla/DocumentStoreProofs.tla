-------------------------- MODULE DocumentStoreProofs --------------------------
(***************************************************************************)
(* No document is lost by the fallback and its reconciliation, and no lock *)
(* is freed by a reader that lost it, for any number of processes,         *)
(* revisions and faults.                                                   *)
(***************************************************************************)
EXTENDS DocumentStore, FiniteSetTheorems, TLAPS

Inserting == {s \in Savers : wpc[s] = "insert"}
Saving(w) == wpc[w] \in {"upload", "cache", "invalidate"}

(* Every bump of the counter is matched by a row, a saver on the way to one *)
(* or one that died.                                                        *)
TicketInv ==
    /\ 1 <= rows
    /\ IsFiniteSet(Inserting) /\ rows + Cardinality(Inserting) <= version

(* Writers work on rows that exist, the reconciler on one whose column is   *)
(* not yet cleared.                                                         *)
SaveInv ==
    /\ \A w \in Writers : Saving(w) => mine[w] \in 1 .. rows
    /\ Saving(Reconciler) => mine[Reconciler] \in column

(* Only columns whose documents are in S3 will be cleared.                  *)
PushInv ==
    /\ pushed \subseteq stored
    /\ wpc[Reconciler] \in {"cache", "invalidate"} => mine[Reconciler] \in stored

(* A reader that has read its rows asks for a revision.                     *)
ReaderInv ==
    \A r \in Readers : pc[r] \notin {"idle", "row", "done"} => seen[r].rev \in Revs

IndInv == TypeOK /\ TicketInv /\ SaveInv /\ PushInv /\ DocumentIsStored /\ ReaderInv

(* The part of TypeOK a reader's step can disturb.                          *)
ReaderTypes ==
    /\ boxes \in Envelope \cup {None}
    /\ docs \in [Revs -> 0 .. MaxRevs]
    /\ lock \in Readers \cup {None}
    /\ pc \in [Readers -> {"idle", "row", "check", "lock", "again", "wait", "document",
                           "fetch", "cache", "put", "release", "done"}]
    /\ seen \in [Readers -> [version : 0 .. MaxRevs, rev : 0 .. MaxRevs, column : BOOLEAN]]
    /\ doc \in [Readers -> 0 .. MaxRevs]
    /\ stale \in [Readers -> BOOLEAN]
    /\ leads \in [Readers -> BOOLEAN]

ReaderVars == <<pc, seen, doc, stale, leads>>
StoreVars == <<version, rows, object, column, wpc, mine, todo, pushed, stored, lost>>

LEMMA InitInv == Init => IndInv
<1> SUFFICES ASSUME Init PROVE IndInv
    OBVIOUS
<1> USE ConstantsAssumption DEF Init
<1>0. 1 \in Revs /\ 2 \in Revs /\ 2 \in 0 .. MaxRevs
    BY DEF Revs
<1>1. TypeOK
    <2>1. boxes \in Envelope \cup {None}
        BY <1>0 DEF Envelope
    <2>2. stored \subseteq Revs /\ floor \in [Revs -> 0 .. MaxRevs]
        BY <1>0 DEF Revs
    <2>3. seen \in [Readers -> [version : 0 .. MaxRevs, rev : 0 .. MaxRevs, column : BOOLEAN]]
        BY DEF NoRow
    <2> QED BY <1>0, <2>1, <2>2, <2>3 DEF TypeOK, Writers, Revs
<1>2. TicketInv
    <2>1. Inserting = {}
        BY DEF Inserting, Writers
    <2> QED BY <2>1, FS_EmptySet DEF TicketInv
<1>3. SaveInv /\ PushInv
    BY DEF SaveInv, PushInv, Saving, Writers
<1>4. DocumentIsStored /\ ReaderInv
    BY DEF DocumentIsStored, ReaderInv
<1> QED BY <1>1, <1>2, <1>3, <1>4 DEF IndInv

LEMMA Bounds ==
    ASSUME IndInv
    PROVE  /\ rows \in Nat /\ version \in Nat /\ MaxRevs \in Nat
           /\ 1 <= rows /\ rows <= version /\ version <= MaxRevs
           /\ 1 .. rows \subseteq Revs /\ rows \in Revs
           /\ object \in 0 .. MaxRevs
    BY ConstantsAssumption DEF IndInv, TypeOK, TicketInv, Revs

-----------------------------------------------------------------------------
(* Readers: nothing of the store changes *)

(* The parts that speak of the store and its writers are functions of it.   *)
LEMMA StoreFrame ==
    ASSUME IndInv, UNCHANGED StoreVars
    PROVE  (TicketInv /\ SaveInv /\ PushInv /\ DocumentIsStored)'
<1>1. Inserting' = Inserting /\ rows' = rows /\ version' = version
    BY DEF StoreVars, Inserting
<1>2. TicketInv'
    BY <1>1 DEF IndInv, TicketInv
<1>3. (SaveInv /\ PushInv)'
    BY DEF IndInv, SaveInv, PushInv, Saving, StoreVars
<1>4. DocumentIsStored'
    BY DEF IndInv, DocumentIsStored, StoreVars
<1> QED BY <1>2, <1>3, <1>4

(* What a reader has seen, with a row read into it, is of its type.         *)
LEMMA RowType ==
    ASSUME NEW V, NEW R, NEW C, NEW x \in [version : V, rev : R, column : C],
           NEW n \in R, NEW c \in C
    PROVE  /\ [[x EXCEPT !.rev = n] EXCEPT !.column = c] \in [version : V, rev : R, column : C]
           /\ [[x EXCEPT !.rev = n] EXCEPT !.column = c].rev = n
    OBVIOUS

LEMMA ReaderSteps ==
    ASSUME IndInv, NEW r \in Readers, ReadRows(r) \/ Coalesce(r) \/ ReaderCrash(r)
    PROVE  IndInv'
<1> USE DEF store, redis, writers, history
<1>1. UNCHANGED StoreVars
    BY DEF StoreVars, ReadRows, ReadTrack, ReadRow, Coalesce, Check, CheckAgain, Poll, Get,
       Evict, Lock, WaitTimeout, GetDocument, FetchDocument, PutDocument, PutBoxes, Release,
       ReaderCrash
<1>2. (TicketInv /\ SaveInv /\ PushInv /\ DocumentIsStored)'
    BY <1>1, StoreFrame
<1>3. TypeOK /\ ReaderInv
    BY DEF IndInv
<1>4. UNCHANGED <<up, floor, outages>> /\ crashes' \in Nat
    BY <1>3 DEF TypeOK, ReadRows, ReadTrack, ReadRow, Coalesce, Check, CheckAgain, Poll, Get,
       Evict, Lock, WaitTimeout, GetDocument, FetchDocument, PutDocument, PutBoxes, Release,
       ReaderCrash
<1>5. version \in 0 .. MaxRevs /\ rows \in Revs /\ object \in 0 .. MaxRevs
    BY Bounds
<1>6. \A x : Valid(boxes, x) => boxes.doc \in 0 .. MaxRevs
    BY <1>3, ConstantsAssumption DEF TypeOK, Valid, Envelope, Revs
<1>7. (ReaderTypes /\ ReaderInv)'
    <2>1. /\ ReaderTypes /\ ReaderInv
          /\ Revs \subseteq 0 .. MaxRevs /\ 0 \in 0 .. MaxRevs /\ Revs = (0 .. MaxRevs) \ {0}
          /\ 0 .. MaxRevs \subseteq Nat
        BY <1>3, ConstantsAssumption DEF TypeOK, ReaderTypes, Revs
    <2> USE <2>1 DEF ReaderTypes, ReaderInv
    <2>2. CASE ReadTrack(r)
        BY <2>2, <1>5 DEF ReadTrack, Goto
    <2>3. CASE ReadRow(r)
        <3> DEFINE row == [[seen[r] EXCEPT !.rev = rows] EXCEPT !.column = rows \in column]
        <3>1. seen[r] \in [version : 0 .. MaxRevs, rev : 0 .. MaxRevs, column : BOOLEAN]
            OBVIOUS
        <3>2. rows \in 0 .. MaxRevs /\ (rows \in column) \in BOOLEAN
            BY <1>5
        <3>3. /\ row \in [version : 0 .. MaxRevs, rev : 0 .. MaxRevs, column : BOOLEAN]
              /\ row.rev \in Revs
            BY <3>1, <3>2, <1>5, RowType
        <3>4. seen' = [seen EXCEPT ![r] = row]
            BY <2>3 DEF ReadRow
        <3> HIDE DEF row
        <3> QED BY <2>3, <3>3, <3>4 DEF ReadRow, Goto
    <2>4. ASSUME NEW l \in {"check", "again", "wait"}, NEW m \in {"lock", "document", "wait"},
                 Get(r, l, m)
          PROVE  (ReaderTypes /\ ReaderInv)'
        <3>1. pc[r] = l /\ UNCHANGED <<boxes, docs, lock, seen, leads>>
            BY <2>4 DEF Get
        <3>2. PICK k \in {"release", m} : pc' = [pc EXCEPT ![r] = k]
            BY <2>4 DEF Get, Goto
        <3>3. doc' \in [Readers -> 0 .. MaxRevs]
            <4>1. CASE Valid(boxes, seen[r])
                BY <1>6, <2>4, <4>1 DEF Get
            <4>2. CASE ~Valid(boxes, seen[r])
                BY <2>4, <4>2 DEF Get
            <4> QED BY <4>1, <4>2
        <3>4. stale' \in [Readers -> BOOLEAN]
            BY <2>4 DEF Get
        <3>5. ReaderTypes'
            BY <3>1, <3>2, <3>3, <3>4
        <3> QED BY <3>1, <3>2, <3>5
    <2>5. CASE Check(r) \/ CheckAgain(r) \/ Poll(r)
        BY <2>4, <2>5 DEF Check, CheckAgain, Poll
    <2>6. CASE Evict(r)
        BY <2>6 DEF Evict
    <2>7. CASE Lock(r)
        BY <2>7 DEF Lock, Goto
    <2>8. CASE WaitTimeout(r)
        BY <2>8 DEF WaitTimeout, Goto
    <2>9. CASE GetDocument(r)
        BY <2>9 DEF GetDocument, Goto
    <2>10. CASE FetchDocument(r)
        <3>1. seen[r].rev \in 0 .. MaxRevs
            OBVIOUS
        <3>2. \E d \in 0 .. MaxRevs : doc' = [doc EXCEPT ![r] = d]
            BY <2>10, <1>5, <3>1 DEF FetchDocument
        <3> QED BY <2>10, <3>2 DEF FetchDocument, Goto
    <2>11. CASE PutDocument(r)
        BY <2>11 DEF PutDocument, Goto
    <2>12. CASE PutBoxes(r)
        <3>1. doc[r] # 0 => doc[r] \in Revs
            OBVIOUS
        <3>2. seen[r].version \in Nat
            OBVIOUS
        <3>3. seen[r].rev \in Revs
            BY <2>12 DEF PutBoxes
        <3> QED BY <3>1, <3>2, <3>3, <2>12 DEF PutBoxes, Goto, Envelope
    <2>13. CASE Release(r)
        BY <2>13 DEF Release, Return, Goto, NoRow
    <2>14. CASE ReaderCrash(r)
        BY <2>14 DEF ReaderCrash, Return, Goto, NoRow
    <2> QED
        BY <2>2, <2>3, <2>5, <2>6, <2>7, <2>8, <2>9, <2>10, <2>11, <2>12, <2>13, <2>14
           DEF ReadRows, Coalesce
<1>8. TypeOK'
    BY <1>1, <1>3, <1>4, <1>7 DEF TypeOK, ReaderTypes, StoreVars
<1> QED BY <1>2, <1>7, <1>8 DEF IndInv

LEMMA EnvironmentSteps ==
    ASSUME IndInv, LockExpires \/ Outage \/ Recovery
    PROVE  IndInv'
<1> USE DEF store, redis, writers, readers, history, LockExpires, Outage, Recovery
<1>1. (TicketInv /\ SaveInv /\ PushInv /\ DocumentIsStored)'
    <2>1. UNCHANGED StoreVars
        BY DEF StoreVars
    <2> QED BY <2>1, StoreFrame
<1>2. TypeOK'
    <2>1. UNCHANGED <<version, rows, object, column, boxes, docs, writers, readers, stored, lost,
                      floor, crashes>>
        OBVIOUS
    <2>2. lock' \in Readers \cup {None} /\ outages' \in Nat
        BY DEF IndInv, TypeOK
    <2>3. up' = up \/ up' = FALSE \/ up' = TRUE
        OBVIOUS
    <2>4. up' \in BOOLEAN
        BY <2>3 DEF IndInv, TypeOK
    <2> QED BY <2>1, <2>2, <2>4 DEF IndInv, TypeOK
<1>3. ReaderInv'
    BY DEF IndInv, ReaderInv
<1> QED BY <1>1, <1>2, <1>3 DEF IndInv

-----------------------------------------------------------------------------
(* Writers *)

LEMMA ReaderFrame ==
    ASSUME IndInv, UNCHANGED ReaderVars PROVE ReaderInv'
    BY DEF IndInv, ReaderInv, ReaderVars

(* The tickets stand while nobody bumps, inserts or dies.                   *)
LEMMA TicketFrame ==
    ASSUME IndInv, Inserting' = Inserting, UNCHANGED <<version, rows>> PROVE TicketInv'
    BY DEF IndInv, TicketInv

LEMMA BumpStep == ASSUME IndInv, NEW s \in Savers, Bump(s) PROVE IndInv'
<1> USE DEF Bump, redis, readers, history
<1>1. s \in Writers /\ s # Reconciler
    BY ConstantsAssumption DEF Writers
<1>2. TypeOK'
    BY <1>1, ConstantsAssumption DEF IndInv, TypeOK
<1>3. TicketInv'
    <2>1. Inserting' = Inserting \cup {s} /\ s \notin Inserting
        BY <1>1 DEF IndInv, TypeOK, Inserting, Writers
    <2>2. IsFiniteSet(Inserting') /\ Cardinality(Inserting') = Cardinality(Inserting) + 1
        BY <2>1, FS_AddElement DEF IndInv, TicketInv
    <2>3. Cardinality(Inserting) \in Nat
        BY FS_CardinalityType DEF IndInv, TicketInv
    <2> QED BY <2>2, <2>3 DEF IndInv, TicketInv, TypeOK
<1>4. (SaveInv /\ PushInv)'
    BY <1>1 DEF IndInv, TypeOK, SaveInv, PushInv, Saving
<1>5. DocumentIsStored'
    BY <1>1 DEF IndInv, TypeOK, DocumentIsStored
<1>6. ReaderInv'
    BY ReaderFrame DEF ReaderVars
<1> QED BY <1>2, <1>3, <1>4, <1>5, <1>6 DEF IndInv

LEMMA InsertStep == ASSUME IndInv, NEW s \in Savers, InsertRow(s) PROVE IndInv'
<1> USE DEF InsertRow, redis, readers
<1>1. s \in Writers /\ s # Reconciler
    BY ConstantsAssumption DEF Writers
<1>2. /\ Inserting' = Inserting \ {s} /\ IsFiniteSet(Inserting')
      /\ Cardinality(Inserting') = Cardinality(Inserting) - 1
      /\ Cardinality(Inserting') \in Nat
    <2>1. Inserting' = Inserting \ {s} /\ s \in Inserting
        BY <1>1 DEF IndInv, TypeOK, Inserting, Writers
    <2>2. IsFiniteSet(Inserting') /\ Cardinality(Inserting') = Cardinality(Inserting) - 1
        BY <2>1, FS_RemoveElement DEF IndInv, TicketInv
    <2> QED BY <2>1, <2>2, FS_CardinalityType
<1>3. rows + 1 <= version /\ rows + 1 + Cardinality(Inserting') <= version
    <2>1. Cardinality(Inserting) \in Nat
        BY FS_CardinalityType DEF IndInv, TicketInv
    <2>2. rows + Cardinality(Inserting) <= version
        BY DEF IndInv, TicketInv
    <2> QED BY <1>2, <2>1, <2>2, Bounds
<1>4. TypeOK'
    <2>1. rows + 1 \in Revs /\ rows + 1 \in 0 .. version /\ rows + 1 \in 0 .. MaxRevs
        BY <1>3, Bounds DEF Revs
    <2>2. object \in 0 .. rows + 1 /\ column \subseteq 1 .. rows + 1
        BY Bounds DEF IndInv, TypeOK
    <2>3. mine' \in [Writers -> 0 .. MaxRevs] /\ floor' \in [Revs -> 0 .. MaxRevs]
        BY <1>1, <2>1, Bounds DEF IndInv, TypeOK
    <2> QED BY <1>1, <2>1, <2>2, <2>3 DEF IndInv, TypeOK
<1>5. TicketInv'
    BY <1>2, <1>3, Bounds DEF TicketInv
<1>6. (SaveInv /\ PushInv)'
    BY <1>1 DEF IndInv, TypeOK, SaveInv, PushInv, Saving
<1>7. DocumentIsStored'
    <2> SUFFICES ASSUME NEW n \in 1 .. rows'
                 PROVE  \/ n \in stored \cup column \cup lost
                        \/ \E t \in Savers : wpc'[t] = "upload" /\ mine'[t] = n
        BY DEF DocumentIsStored
    <2>1. CASE n = rows + 1
        BY <1>1, <2>1 DEF IndInv, TypeOK
    <2>2. CASE n \in 1 .. rows
        BY <1>1, <2>2 DEF IndInv, TypeOK, DocumentIsStored
    <2> QED BY <2>1, <2>2 DEF IndInv, TypeOK
<1>8. ReaderInv'
    BY ReaderFrame DEF ReaderVars
<1> QED BY <1>4, <1>5, <1>6, <1>7, <1>8 DEF IndInv

LEMMA SaveSteps == ASSUME IndInv, NEW w \in Writers, SaveDocument(w) PROVE IndInv'
<1> USE DEF redis, readers, history, store, AfterSave
<1>1. /\ Inserting' = Inserting /\ UNCHANGED <<version, rows>> /\ UNCHANGED ReaderVars
      /\ mine[w] \in 1 .. rows
    BY DEF IndInv, TypeOK, SaveInv, Saving, Inserting, ReaderVars, SaveDocument, Upload,
       UploadFails, CacheDocument, Invalidate, Writers
<1>2. TicketInv' /\ ReaderInv'
    BY <1>1, TicketFrame, ReaderFrame
<1>3. mine[w] \in Revs
    BY <1>1, Bounds
<1>4. CASE Upload(w)
    <2>1. (TypeOK /\ SaveInv)'
        BY <1>1, <1>3, <1>4 DEF IndInv, TypeOK, SaveInv, Saving, Upload
    <2>2. (PushInv /\ DocumentIsStored)'
        BY <1>4 DEF IndInv, TypeOK, PushInv, DocumentIsStored, Upload
    <2> QED BY <1>2, <2>1, <2>2 DEF IndInv
<1>5. CASE UploadFails(w)
    <2>1. (TypeOK /\ SaveInv)'
        <3>1. column' = column \cup {mine[w]} /\ UNCHANGED <<mine, todo, pushed, up>>
            BY <1>5 DEF UploadFails
        <3>2. wpc' \in [Writers -> {"idle", "insert", "push", "upload", "cache", "invalidate"}]
            BY <1>5 DEF IndInv, TypeOK, UploadFails
        <3>3. \A v \in Writers : Saving(v)' => Saving(v)
            BY <1>5 DEF IndInv, TypeOK, Saving, UploadFails
        <3>4. SaveInv'
            BY <1>1, <3>1, <3>3, ConstantsAssumption DEF IndInv, SaveInv, Writers
        <3>5. TypeOK'
            BY <1>1, <1>5, <3>1, <3>2 DEF IndInv, TypeOK, UploadFails
        <3> QED BY <3>4, <3>5
    <2>2. (PushInv /\ DocumentIsStored)'
        BY <1>5 DEF IndInv, TypeOK, PushInv, DocumentIsStored, UploadFails
    <2> QED BY <1>2, <2>1, <2>2 DEF IndInv
<1>6. CASE CacheDocument(w)
    <2>1. (TypeOK /\ SaveInv)'
        BY <1>3, <1>6 DEF IndInv, TypeOK, SaveInv, Saving, CacheDocument
    <2>2. (PushInv /\ DocumentIsStored)'
        BY <1>6 DEF IndInv, TypeOK, PushInv, DocumentIsStored, CacheDocument
    <2> QED BY <1>2, <2>1, <2>2 DEF IndInv
<1>7. CASE Invalidate(w)
    <2>1. /\ wpc' \in [Writers -> {"idle", "insert", "push", "upload", "cache", "invalidate"}]
          /\ \A v \in Writers : wpc'[v] \in {"upload", "cache", "invalidate"} => wpc'[v] = wpc[v]
          /\ \A v \in Writers : wpc[v] = "upload" => wpc'[v] = "upload"
        BY <1>7 DEF IndInv, TypeOK, Invalidate
    <2>2. pushed' \subseteq column /\ pushed' \subseteq stored
        BY <1>7 DEF IndInv, TypeOK, SaveInv, PushInv, Saving, Invalidate
    <2>3. UNCHANGED <<version, rows, object, column, up, docs, lock, mine, todo, stored, lost>>
        BY <1>7 DEF Invalidate
    <2>4. (TypeOK /\ SaveInv)'
        BY <1>7, <2>1, <2>2, <2>3, ConstantsAssumption
           DEF IndInv, TypeOK, SaveInv, Saving, Invalidate, Writers
    <2>5. (PushInv /\ DocumentIsStored)'
        BY <2>1, <2>2, <2>3, ConstantsAssumption
           DEF IndInv, PushInv, DocumentIsStored, Writers
    <2> QED BY <1>2, <2>4, <2>5 DEF IndInv
<1> QED BY <1>4, <1>5, <1>6, <1>7 DEF SaveDocument

LEMMA ReconcileSteps == ASSUME IndInv, Reconcile PROVE IndInv'
<1> USE ConstantsAssumption DEF redis, readers, history, store
<1>1. /\ Inserting' = Inserting /\ UNCHANGED <<version, rows>> /\ UNCHANGED ReaderVars
    BY DEF IndInv, TypeOK, Inserting, ReaderVars, Reconcile, ReconcileStart, ReconcileNext,
       ReconcileCommit, Writers
<1>2. TicketInv' /\ ReaderInv'
    BY <1>1, TicketFrame, ReaderFrame
<1>3. CASE ReconcileStart
    BY <1>2, <1>3 DEF IndInv, TypeOK, SaveInv, PushInv, Saving, DocumentIsStored,
       ReconcileStart, Writers
<1>4. CASE ReconcileNext
    <2>1. PICK n \in todo : mine' = [mine EXCEPT ![Reconciler] = n] /\ todo' = todo \ {n}
        BY <1>4 DEF ReconcileNext
    <2>2. n \in 1 .. rows /\ n \in column
        BY DEF IndInv, TypeOK
    <2>3. (TypeOK /\ SaveInv)'
        BY <1>4, <2>1, <2>2 DEF IndInv, TypeOK, SaveInv, Saving, ReconcileNext, Writers
    <2>4. (PushInv /\ DocumentIsStored)'
        BY <1>4, <2>1 DEF IndInv, TypeOK, PushInv, DocumentIsStored, ReconcileNext, Writers
    <2> QED BY <1>2, <2>3, <2>4 DEF IndInv
<1>5. CASE ReconcileCommit
    <2>1. (TypeOK /\ SaveInv)'
        BY <1>5 DEF IndInv, TypeOK, SaveInv, Saving, ReconcileCommit, Writers
    <2>2. (PushInv /\ DocumentIsStored)'
        BY <1>5 DEF IndInv, TypeOK, PushInv, DocumentIsStored, ReconcileCommit, Writers
    <2> QED BY <1>2, <2>1, <2>2 DEF IndInv
<1> QED BY <1>3, <1>4, <1>5 DEF Reconcile

LEMMA CrashStep == ASSUME IndInv, NEW w \in Writers, WriterCrash(w) PROVE IndInv'
<1> USE ConstantsAssumption DEF WriterCrash, redis, readers, store
<1>1. TypeOK'
    <2>1. wpc' \in [Writers -> {"idle", "insert", "push", "upload", "cache", "invalidate"}]
        BY DEF IndInv, TypeOK
    <2>2. lost' \subseteq Revs
        BY Bounds DEF IndInv, TypeOK, SaveInv, Saving
    <2>3. todo' \subseteq column /\ pushed' \subseteq column
        BY DEF IndInv, TypeOK
    <2>4. crashes' \in Nat
        BY DEF IndInv, TypeOK
    <2> QED BY <2>1, <2>2, <2>3, <2>4 DEF IndInv, TypeOK
<1>2. TicketInv'
    <2>1. Inserting' = Inserting \ {w}
        BY DEF IndInv, TypeOK, Inserting, Writers
    <2>2. IsFiniteSet(Inserting') /\ Cardinality(Inserting') <= Cardinality(Inserting)
        BY <2>1, FS_Subset DEF IndInv, TicketInv
    <2>3. Cardinality(Inserting) \in Nat /\ Cardinality(Inserting') \in Nat
        BY <2>2, FS_CardinalityType DEF IndInv, TicketInv
    <2> QED BY <2>2, <2>3 DEF IndInv, TicketInv, TypeOK
<1>3. (SaveInv /\ PushInv)'
    <2>1. \A v \in Writers : wpc'[v] # "idle" => wpc'[v] = wpc[v]
        BY DEF IndInv, TypeOK
    <2>2. pushed' \subseteq pushed /\ UNCHANGED <<rows, column, mine, stored>>
        OBVIOUS
    <2>3. Reconciler \in Writers
        BY DEF Writers
    <2> QED BY <2>1, <2>2, <2>3 DEF IndInv, SaveInv, PushInv, Saving
<1>4. DocumentIsStored'
    BY DEF IndInv, TypeOK, DocumentIsStored, Writers
<1>5. ReaderInv'
    BY ReaderFrame DEF ReaderVars
<1> QED BY <1>1, <1>2, <1>3, <1>4, <1>5 DEF IndInv

LEMMA StepInv == IndInv /\ [Next]_vars => IndInv'
<1> SUFFICES ASSUME IndInv, [Next]_vars PROVE IndInv'
    OBVIOUS
<1>1. CASE Next
    BY <1>1, BumpStep, InsertStep, SaveSteps, CrashStep, ReconcileSteps, ReaderSteps,
       EnvironmentSteps DEF Next
<1>2. CASE UNCHANGED vars
    <2> USE <1>2 DEF vars, store, redis, writers, readers, history
    <2>1. UNCHANGED StoreVars /\ UNCHANGED ReaderVars
        BY DEF StoreVars, ReaderVars
    <2>2. TypeOK'
        BY DEF IndInv, TypeOK
    <2> QED BY <2>1, <2>2, StoreFrame, ReaderFrame DEF IndInv
<1> QED BY <1>1, <1>2

(* The inductive invariant holds in every state of every behaviour, for all *)
(* values of the constants.                                                 *)
THEOREM Invariance == Spec => []IndInv
    BY InitInv, StepInv, PTL DEF Spec

(* The rows, cache entries and locals of any number of savers and readers  *)
(* keep their types; in particular a track never has more revisions than   *)
(* its counter says.                                                        *)
THEOREM TypesAreKept == Spec => []TypeOK
<1>1. IndInv => TypeOK
    BY DEF IndInv
<1> QED BY <1>1, Invariance, PTL

(* A document whose save is over is in S3 or in its column unless its saver *)
(* died: save_revision_document and reconcile_db_to_storage lose none.      *)
THEOREM DocumentsAreStored == Spec => []DocumentIsStored
<1>1. IndInv => DocumentIsStored
    BY DEF IndInv
<1> QED BY <1>1, Invariance, PTL

(* Only an expiry or the holder's own release frees a stampede lock:        *)
(* release_stampede_lock by a leader that lost it is harmless.              *)
THEOREM LocksAreSafe == Spec => LocksAreTheirHolders
<1>1. ASSUME IndInv, [Next]_vars, lock # None, lock' # lock
      PROVE  lock' = None /\ (pc'[lock] = "done" \/ pc' = pc)
    <2> USE <1>1 DEF store, redis, writers, readers, history
    <2>1. lock \in Readers /\ pc \in [Readers -> {"idle", "row", "check", "lock", "again",
              "wait", "document", "fetch", "cache", "put", "release", "done"}]
        BY DEF IndInv, TypeOK
    <2>2. LockExpires \/ \E r \in Readers : Release(r)
        BY DEF vars, Next, Bump, InsertRow, SaveDocument, Upload, UploadFails, CacheDocument,
           Invalidate, WriterCrash, Reconcile, ReconcileStart, ReconcileNext, ReconcileCommit,
           ReadRows, ReadTrack, ReadRow, Coalesce, Check, CheckAgain, Poll, Get, Evict, Lock,
           WaitTimeout, GetDocument, FetchDocument, PutDocument, PutBoxes, ReaderCrash,
           Outage, Recovery
    <2>3. CASE LockExpires
        BY <2>3 DEF LockExpires
    <2>4. ASSUME NEW r \in Readers, Release(r) PROVE lock' = None /\ pc'[lock] = "done"
        BY <2>1, <2>4 DEF Release, Goto
    <2> QED BY <2>2, <2>3, <2>4
<1>2. IndInv /\ [Next]_vars
        => [lock # None /\ lock' # lock =>
              lock' = None /\ (pc'[lock] = "done" \/ pc' = pc)]_vars
    BY <1>1
<1> QED BY <1>2, Invariance, PTL DEF Spec, LocksAreTheirHolders
-----------------------------------------------------------------------------
(* Reads keep up with the saves: one saver and no outage *)

(* The premise of ReadsKeepUp.                                              *)
Calm == outages = 0 /\ \A s, t \in Savers : s = t

(* Nothing has gone to a column, so that only a saver puts documents into   *)
(* the object, and it stores the latest revision.                           *)
SaverIsAlone ==
    /\ up /\ column = {} /\ wpc[Reconciler] = "idle"
    /\ \A s \in Savers : Saving(s) => mine[s] = rows

(* The object and every cached copy are as new as the object was when the   *)
(* revision they stand for was made.                                        *)
CopiesKeepUp ==
    /\ \A n \in 1 .. rows : floor[n] <= object
    /\ \A n \in 1 .. rows : docs[n] # 0 => docs[n] >= floor[n]
    /\ \A n \in Revs : n > rows => docs[n] = 0
    /\ boxes # None => boxes.rev \in 1 .. rows /\ boxes.doc >= floor[boxes.rev]

(* And so is what a reader holds.                                           *)
ReadersKeepUp ==
    \A r \in Readers :
        /\ pc[r] \notin {"idle", "row", "done"} => seen[r].rev \in 1 .. rows
        /\ pc[r] \in {"cache", "put", "release"} /\ doc[r] # 0 => doc[r] >= floor[seen[r].rev]

FreshInv == Calm => SaverIsAlone /\ CopiesKeepUp /\ ReadersKeepUp

LEMMA FreshInit == Init => FreshInv
<1> SUFFICES ASSUME Init, Calm PROVE SaverIsAlone /\ CopiesKeepUp /\ ReadersKeepUp
    BY DEF FreshInv
<1> USE ConstantsAssumption DEF Init
<1>1. SaverIsAlone
    BY DEF SaverIsAlone, Saving, Writers
<1>2. CopiesKeepUp
    BY DEF CopiesKeepUp, Revs
<1>3. ReadersKeepUp
    BY DEF ReadersKeepUp
<1> QED BY <1>1, <1>2, <1>3

(* What a reader's step has of the facts above.                             *)
LEMMA FreshReader ==
    ASSUME IndInv, SaverIsAlone, CopiesKeepUp, ReadersKeepUp,
           NEW r \in Readers, ReadRows(r) \/ Coalesce(r) \/ ReaderCrash(r)
    PROVE  (SaverIsAlone /\ CopiesKeepUp /\ ReadersKeepUp)'
<1> USE DEF store, redis, writers, history
<1>1. UNCHANGED <<version, rows, object, column, up, wpc, mine, floor>>
    BY DEF ReadRows, ReadTrack, ReadRow, Coalesce, Check, CheckAgain, Poll, Get,
       Evict, Lock, WaitTimeout, GetDocument, FetchDocument, PutDocument, PutBoxes, Release,
       ReaderCrash
<1>2. SaverIsAlone'
    BY <1>1 DEF SaverIsAlone, Saving
<1>3. /\ TypeOK /\ rows \in Nat /\ MaxRevs \in Nat /\ rows \in 1 .. rows /\ rows <= MaxRevs
      /\ 1 .. rows \subseteq Revs /\ object \in 0 .. MaxRevs
    BY Bounds DEF IndInv
<1>4. /\ pc \in [Readers -> {"idle", "row", "check", "lock", "again",
                    "wait", "document", "fetch", "cache", "put", "release", "done"}]
      /\ doc \in [Readers -> 0 .. MaxRevs]
      /\ seen \in [Readers -> [version : 0 .. MaxRevs, rev : 0 .. MaxRevs, column : BOOLEAN]]
      /\ docs \in [Revs -> 0 .. MaxRevs] /\ floor \in [Revs -> 0 .. MaxRevs]
      /\ 0 .. MaxRevs \subseteq Nat
      /\ \A n \in 1 .. rows : floor[n] \in Nat
    BY <1>3 DEF TypeOK
<1>5. (CopiesKeepUp /\ ReadersKeepUp)'
    <2> USE <1>1, <1>3, <1>4 DEF CopiesKeepUp, ReadersKeepUp
    <2>2. CASE ReadTrack(r)
        BY <2>2 DEF ReadTrack, Goto
    <2>3. CASE ReadRow(r)
        <3>1. seen'[r].rev = rows /\ \A q \in Readers : q # r => seen'[q] = seen[q]
            BY <2>3 DEF ReadRow
        <3> QED BY <2>3, <3>1 DEF ReadRow, Goto
    <2>4. ASSUME NEW l \in {"check", "again", "wait"}, NEW m \in {"lock", "document", "wait"},
                 Get(r, l, m)
          PROVE  (CopiesKeepUp /\ ReadersKeepUp)'
        BY <2>4 DEF Get, Goto, Valid
    <2>5. CASE Check(r) \/ CheckAgain(r) \/ Poll(r)
        BY <2>4, <2>5 DEF Check, CheckAgain, Poll
    <2>6. CASE Evict(r)
        BY <2>6 DEF Evict
    <2>7. CASE Lock(r)
        BY <2>7 DEF Lock, Goto
    <2>8. CASE WaitTimeout(r)
        BY <2>8 DEF WaitTimeout, Goto
    <2>9. CASE GetDocument(r)
        BY <2>9 DEF GetDocument, Goto
    <2>10. CASE FetchDocument(r)
        <3>1. doc' = [doc EXCEPT ![r] = IF object # 0 THEN object
                                        ELSE IF seen[r].column THEN seen[r].rev ELSE 0]
            BY <2>10 DEF FetchDocument, SaverIsAlone
        <3>2. seen[r].rev \in 1 .. rows /\ floor[seen[r].rev] <= object
            BY <2>10 DEF FetchDocument
        <3>3. doc'[r] # 0 => doc'[r] >= floor[seen[r].rev]
            BY <3>1, <3>2
        <3> QED BY <2>10, <3>1, <3>2, <3>3 DEF FetchDocument, Goto
    <2>11. CASE PutDocument(r)
        <3>1. seen[r].rev \in 1 .. rows /\ (doc[r] # 0 => doc[r] >= floor[seen[r].rev])
            BY <2>11 DEF PutDocument
        <3>2. CopiesKeepUp'
            BY <2>11, <3>1 DEF PutDocument
        <3> QED BY <2>11, <3>2 DEF PutDocument, Goto
    <2>12. CASE PutBoxes(r)
        <3>1. seen[r].rev \in 1 .. rows /\ (doc[r] # 0 => doc[r] >= floor[seen[r].rev])
            BY <2>12 DEF PutBoxes
        <3>2. CopiesKeepUp'
            BY <2>12, <3>1 DEF PutBoxes
        <3> QED BY <2>12, <3>2 DEF PutBoxes, Goto
    <2>13. CASE Release(r)
        BY <2>13 DEF Release, Return, Goto
    <2>14. CASE ReaderCrash(r)
        BY <2>14 DEF ReaderCrash, Return, Goto
    <2> QED
        BY <2>2, <2>3, <2>5, <2>6, <2>7, <2>8, <2>9, <2>10, <2>11, <2>12, <2>13, <2>14
           DEF ReadRows, Coalesce
<1> QED BY <1>2, <1>5

LEMMA FreshInsert ==
    ASSUME IndInv, SaverIsAlone, CopiesKeepUp, ReadersKeepUp,
           \A s, t \in Savers : s = t, NEW s \in Savers, InsertRow(s)
    PROVE  (SaverIsAlone /\ CopiesKeepUp /\ ReadersKeepUp)'
<1> USE DEF InsertRow, redis, readers
<1>1. s \in Writers /\ s # Reconciler /\ \A t \in Savers : t = s
    BY ConstantsAssumption DEF Writers
<1>2. /\ rows \in Nat /\ rows' = rows + 1 /\ rows + 1 \in Revs /\ object \in Nat
      /\ floor \in [Revs -> 0 .. MaxRevs] /\ MaxRevs \in Nat
      /\ 1 .. rows' = (1 .. rows) \cup {rows + 1} /\ 1 .. rows \subseteq Revs
    <2>1. Cardinality(Inserting) \in Nat /\ Cardinality(Inserting) # 0
        <3>1. s \in Inserting
            BY DEF Inserting
        <3> QED BY <3>1, FS_CardinalityType, FS_EmptySet DEF IndInv, TicketInv
    <2>2. rows + Cardinality(Inserting) <= version
        BY DEF IndInv, TicketInv
    <2>3. rows + 1 <= MaxRevs /\ rows \in Nat /\ MaxRevs \in Nat /\ 1 .. rows \subseteq Revs
        BY <2>1, <2>2, Bounds
    <2>4. rows' = rows + 1
        OBVIOUS
    <2>5. rows + 1 \in Revs /\ 1 .. rows' = (1 .. rows) \cup {rows + 1}
        BY <2>3, <2>4 DEF Revs
    <2>6. floor \in [Revs -> 0 .. MaxRevs] /\ object \in Nat
        BY <2>3, Bounds DEF IndInv, TypeOK
    <2> QED BY <2>3, <2>4, <2>5, <2>6
<1>3. SaverIsAlone'
    BY <1>1, <1>2 DEF SaverIsAlone, Saving, IndInv, TypeOK
<1>4. floor'[rows + 1] = object /\ \A n \in 1 .. rows : floor'[n] = floor[n]
    BY <1>2
<1>5. CopiesKeepUp'
    <2> USE <1>2, <1>4
    <2>1. UNCHANGED <<object, docs, boxes>> /\ docs[rows + 1] = 0
        BY DEF CopiesKeepUp, Revs
    <2>2. \A n \in 1 .. rows' : floor'[n] <= object
        BY DEF CopiesKeepUp
    <2>3. \A n \in 1 .. rows' : docs[n] # 0 => docs[n] >= floor'[n]
        BY <2>1 DEF CopiesKeepUp
    <2>4. \A n \in Revs : n > rows' => docs[n] = 0
        BY DEF CopiesKeepUp, Revs
    <2>5. boxes # None => boxes.rev \in 1 .. rows' /\ boxes.doc >= floor'[boxes.rev]
        BY DEF CopiesKeepUp
    <2> QED BY <2>1, <2>2, <2>3, <2>4, <2>5 DEF CopiesKeepUp
<1>6. ReadersKeepUp'
    BY <1>2, <1>4 DEF ReadersKeepUp
<1> QED BY <1>3, <1>5, <1>6

LEMMA FreshWriter ==
    ASSUME IndInv, SaverIsAlone, CopiesKeepUp, ReadersKeepUp,
           NEW w \in Writers, SaveDocument(w) \/ WriterCrash(w)
    PROVE  (SaverIsAlone /\ CopiesKeepUp /\ ReadersKeepUp)'
<1> USE DEF redis, readers, history, store
<1>1. w \in Savers
    BY DEF SaverIsAlone, Writers, SaveDocument, Upload, UploadFails, CacheDocument, Invalidate,
       WriterCrash
<1>2. /\ rows \in Nat /\ rows \in 1 .. rows /\ 1 .. rows \subseteq Revs /\ Revs \subseteq Nat
      /\ object \in 0 .. rows /\ docs \in [Revs -> 0 .. MaxRevs]
      /\ floor \in [Revs -> 0 .. MaxRevs] /\ MaxRevs \in Nat
      /\ wpc \in [Writers -> {"idle", "insert", "push", "upload", "cache", "invalidate"}]
      /\ mine \in [Writers -> 0 .. MaxRevs]
      /\ \A n \in 1 .. rows : floor[n] \in Nat
    <2>1. /\ rows \in Nat /\ rows \in 1 .. rows /\ 1 .. rows \subseteq Revs /\ MaxRevs \in Nat
          /\ Revs \subseteq Nat
        BY Bounds DEF Revs
    <2>2. /\ object \in 0 .. rows /\ docs \in [Revs -> 0 .. MaxRevs]
          /\ floor \in [Revs -> 0 .. MaxRevs]
          /\ wpc \in [Writers -> {"idle", "insert", "push", "upload", "cache", "invalidate"}]
          /\ mine \in [Writers -> 0 .. MaxRevs]
        BY DEF IndInv, TypeOK
    <2>3. \A n \in 1 .. rows : floor[n] \in Nat
        BY <2>1, <2>2
    <2> QED BY <2>1, <2>2, <2>3
<1>3. w # Reconciler /\ Reconciler \in Writers
    BY <1>1, ConstantsAssumption DEF Writers
<1>4. UNCHANGED <<rows, floor>> /\ UNCHANGED ReaderVars
    BY DEF SaveDocument, Upload, UploadFails, CacheDocument, Invalidate, WriterCrash, ReaderVars
<1>5. ReadersKeepUp'
    BY <1>4 DEF ReadersKeepUp, ReaderVars
<1>6. CASE Upload(w)
    <2>1. object' = rows /\ UNCHANGED <<docs, boxes, mine, up, column>>
        BY <1>1, <1>6 DEF Upload, SaverIsAlone, Saving
    <2>2. SaverIsAlone'
        BY <1>2, <1>3, <1>4, <1>6, <2>1 DEF Upload, SaverIsAlone, Saving, Writers
    <2>3. \A n \in 1 .. rows : floor[n] <= rows
        BY <1>2 DEF CopiesKeepUp
    <2>4. CopiesKeepUp'
        BY <1>2, <1>4, <2>1, <2>3 DEF CopiesKeepUp
    <2> QED BY <1>5, <2>2, <2>4
<1>7. CASE UploadFails(w)
    BY <1>7 DEF UploadFails, SaverIsAlone
<1>8. CASE CacheDocument(w)
    <2>1. docs' = [docs EXCEPT ![rows] = rows] /\ UNCHANGED <<object, boxes, mine, up, column>>
        BY <1>1, <1>8 DEF CacheDocument, SaverIsAlone, Saving
    <2>2. SaverIsAlone'
        BY <1>2, <1>3, <1>4, <1>8, <2>1 DEF CacheDocument, SaverIsAlone, Saving, Writers
    <2>3. floor[rows] <= rows
        BY <1>2 DEF CopiesKeepUp
    <2>4. CopiesKeepUp'
        BY <1>2, <1>4, <2>1, <2>3 DEF CopiesKeepUp
    <2> QED BY <1>5, <2>2, <2>4
<1>9. CASE Invalidate(w)
    <2>1. boxes' = None /\ UNCHANGED <<object, docs, mine, up, column>>
        BY <1>9 DEF Invalidate
    <2>2. SaverIsAlone'
        BY <1>2, <1>3, <1>4, <1>9, <2>1 DEF Invalidate, SaverIsAlone, Saving, Writers, AfterSave
    <2>3. CopiesKeepUp'
        BY <1>2, <1>4, <2>1 DEF CopiesKeepUp
    <2> QED BY <1>5, <2>2, <2>3
<1>10. CASE WriterCrash(w)
    <2>1. UNCHANGED <<object, docs, boxes, mine, up, column>>
        BY <1>10 DEF WriterCrash
    <2>2. SaverIsAlone'
        BY <1>2, <1>3, <1>4, <1>10, <2>1 DEF WriterCrash, SaverIsAlone, Saving, Writers
    <2>3. CopiesKeepUp'
        BY <1>2, <1>4, <2>1 DEF CopiesKeepUp
    <2> QED BY <1>5, <2>2, <2>3
<1> QED BY <1>6, <1>7, <1>8, <1>9, <1>10 DEF SaveDocument

LEMMA FreshStep == IndInv /\ FreshInv /\ [Next]_vars => FreshInv'
<1> SUFFICES ASSUME IndInv, FreshInv, [Next]_vars, Calm'
             PROVE  (SaverIsAlone /\ CopiesKeepUp /\ ReadersKeepUp)'
    BY DEF FreshInv
<1> USE DEF store, redis, writers, readers, history
<1>1. outages \in Nat
    BY DEF IndInv, TypeOK
<1>2. \A s, t \in Savers : s = t
    BY DEF Calm
<1>3. ASSUME UNCHANGED <<rows, object, column, up, boxes, docs, wpc, mine, pc, seen, doc, floor>>,
             Calm
      PROVE  (SaverIsAlone /\ CopiesKeepUp /\ ReadersKeepUp)'
    BY <1>3 DEF FreshInv, SaverIsAlone, CopiesKeepUp, ReadersKeepUp, Saving
<1>4. CASE UNCHANGED vars
    BY <1>3, <1>4 DEF vars, Calm
<1>5. ASSUME NEW s \in Savers, Bump(s) \/ InsertRow(s)
      PROVE  (SaverIsAlone /\ CopiesKeepUp /\ ReadersKeepUp)'
    <2>1. Calm
        BY <1>5 DEF Calm, Bump, InsertRow
    <2>2. SaverIsAlone /\ CopiesKeepUp /\ ReadersKeepUp
        BY <2>1 DEF FreshInv
    <2>3. CASE Bump(s)
        <3>1. s # Reconciler /\ wpc' = [wpc EXCEPT ![s] = "insert"]
              /\ UNCHANGED <<rows, object, column, up, boxes, docs, mine, pc, seen, doc, floor>>
            BY <2>3, ConstantsAssumption DEF Bump
        <3>2. SaverIsAlone'
            BY <2>2, <3>1 DEF SaverIsAlone, Saving, IndInv, TypeOK, Writers
        <3> QED BY <2>2, <3>1, <3>2 DEF CopiesKeepUp, ReadersKeepUp
    <2>4. CASE InsertRow(s)
        BY <1>2, <2>2, <2>4, FreshInsert
    <2> QED BY <1>5, <2>3, <2>4
<1>6. ASSUME NEW w \in Writers, SaveDocument(w) \/ WriterCrash(w)
      PROVE  (SaverIsAlone /\ CopiesKeepUp /\ ReadersKeepUp)'
    <2>1. Calm
        BY <1>6 DEF Calm, SaveDocument, Upload, UploadFails, CacheDocument, Invalidate, WriterCrash
    <2> QED BY <1>6, <2>1, FreshWriter DEF FreshInv
<1>7. ~Reconcile
    <2>1. Reconcile => Calm
        BY DEF Calm, Reconcile, ReconcileStart, ReconcileNext, ReconcileCommit
    <2> QED BY <2>1 DEF FreshInv, SaverIsAlone, Reconcile, ReconcileStart, ReconcileNext,
               ReconcileCommit
<1>8. ASSUME NEW r \in Readers, ReadRows(r) \/ Coalesce(r) \/ ReaderCrash(r)
      PROVE  (SaverIsAlone /\ CopiesKeepUp /\ ReadersKeepUp)'
    <2>1. Calm
        BY <1>8 DEF Calm, ReadRows, ReadTrack, ReadRow, Coalesce, Check, CheckAgain, Poll, Get,
           Evict, Lock, WaitTimeout, GetDocument, FetchDocument, PutDocument, PutBoxes, Release,
           ReaderCrash
    <2> QED BY <1>8, <2>1, FreshReader DEF FreshInv
<1>9. CASE LockExpires
    BY <1>3, <1>9 DEF LockExpires, Calm
<1>10. ~Outage
    BY <1>1 DEF Outage, Calm
<1>11. CASE Recovery
    <2>1. Calm /\ up
        BY <1>11 DEF Recovery, Calm, FreshInv, SaverIsAlone
    <2> QED BY <1>11, <2>1 DEF Recovery
<1> QED BY <1>4, <1>5, <1>6, <1>7, <1>8, <1>9, <1>10, <1>11 DEF Next

(* While S3 has not failed and one process saves, no reader is served a     *)
(* text older than the one stored when the revision it asks for was made:   *)
(* load_revision_document and coalesce_cache_fetch, whatever expires, dies  *)
(* or is interleaved, and for any number of readers.                        *)
THEOREM ReadsAreFresh == Spec => []ReadsKeepUp
<1>1. IndInv /\ FreshInv => ReadsKeepUp
    BY DEF ReadsKeepUp, FreshInv, Calm, ReadersKeepUp
<1>2. IndInv /\ FreshInv /\ [Next]_vars => FreshInv'
    BY FreshStep
<1>3. Spec => []FreshInv
    BY <1>2, FreshInit, Invariance, PTL DEF Spec
<1> QED BY <1>1, <1>3, Invariance, PTL
=============================================================================
