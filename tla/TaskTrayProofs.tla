-------------------------- MODULE TaskTrayProofs --------------------------
(* What the list of tasks says of a run is true, a multi-batch that is      *)
(* closed without errors read every page, a success has its text and no     *)
(* more is charged than was saved, for any number of pages, workers,        *)
(* editors, requests, items and events.                                     *)
EXTENDS TaskTray, PageTasksProofs

ItemsFit ==
  /\ items \in Seq(ItemType)
  /\ \A i \in DOMAIN items : items[i].kind \in Work => i \in Items

VersionsFit == ver \in [Pages -> [Tracks -> Nat]]

(* Every worker and every editor request has a record of this shape.        *)
Record(x) == DOMAIN x = Fields /\ x.errs \in Nat /\ x.close \in BOOLEAN
RecordsFit == DOMAIN act = Actors /\ \A a \in Actors : Record(act[a])

(* A multi-batch that has had no error still has every unread page ahead of *)
(* it: on its list, or in its hands and not yet through the engine.         *)
Reading(x) ==
  /\ x.pc \notin {"idle", "plan"} /\ x.errs = 0
  /\ items[x.item].kind = "multi" /\ "ocr" \in items[x.item].plan
  => \A p \in Pages : Needs(p, "ocr") =>
       \/ <<"ocr", p>> \in x.todo
       \/ x.page = p /\ x.kind = "ocr" /\ x.pc \in {"resolve", "call"}

WorkerFits(x) ==
  /\ x.pc # "idle" => x.item \in DOMAIN items
  /\ x.pc \in MultiSteps => items[x.item].kind = "multi"
  /\ x.pc \in {"skip", "report", "job"} => x.todo = {}
  /\ Reading(x)

WorkersFit == \A w \in Workers : WorkerFits(act[w])

MailFits == \A m \in mail : m[1] \in DOMAIN items

PostFits(x) ==
  /\ DOMAIN x = {"pc", "kind", "item"}
  /\ x.pc = "run" => x.kind \in Kinds
  /\ x.pc = "key" => x.item \in DOMAIN items
PostsFit == DOMAIN posts = Posts /\ \A r \in Posts : PostFits(posts[r])

(* All tasks of a run are over and one of them succeeded.                   *)
Over(i) == "SUCCESS" \in Results(i) /\ "PENDING" \notin Results(i)

(* What the list says of item i, or is about to say, when it says v.        *)
Says(i, v) ==
  /\ i \in DOMAIN items
  /\ items[i].kind \in Work /\ v = "completed" /\ age[i] = 0 => Over(i)

TrayFits ==
  /\ DOMAIN tray = Items /\ age \in [Items -> Nat]
  /\ \A i \in Items : tray[i] \notin {"none", "cancelled"} => Says(i, tray[i])

PollFits ==
  /\ poll.pc = "ask" => \A i \in Items : poll.saw[i] \in Open => i \in DOMAIN items
  /\ poll.pc = "write" => \A i \in Items : poll.found[i] # "same" => Says(i, poll.found[i])

TrayInv ==
  /\ ItemsFit /\ VersionsFit /\ RecordsFit /\ WorkersFit /\ MailFits /\ PostsFit
  /\ TrayFits /\ PollFits /\ CompletedBatchIsRead
LEMMA InitTray == TrayInit => TrayInv
<1> SUFFICES ASSUME TrayInit PROVE TrayInv
  OBVIOUS
<1> USE ConstantsAssumption DEF TrayInit, Init
<1>1. ItemsFit /\ VersionsFit /\ MailFits /\ CompletedBatchIsRead
  BY DEF ItemsFit, VersionsFit, MailFits, CompletedBatchIsRead
<1>2. Record(Idle) /\ Idle.pc = "idle"
  BY DEF Idle, Record, Fields
<1>3. RecordsFit /\ WorkersFit
  BY <1>2 DEF RecordsFit, WorkersFit, WorkerFits, Reading, MultiSteps, Actors
<1>4. PostsFit
  BY DEF PostsFit, PostFits
<1>5. TrayFits /\ PollFits
  BY DEF TrayFits, PollFits, Quiet
<1> QED BY <1>1, <1>3, <1>4, <1>5 DEF TrayInv

----------------------------------------------------------------------------
(* What a step may do to the items.                                         *)

(* Results are only ever filled in, and a success stays.                    *)
Evolves(x, y) ==
  /\ y.kind = x.kind /\ y.plan = x.plan
  /\ \A p \in Pages : \/ y.res[p] = x.res[p]
                      \/ x.res[p] # "SUCCESS" /\ y.res[p] \notin {"none", "PENDING"}

ItemsEvolve ==
  /\ items' \in Seq(ItemType) /\ DOMAIN items \subseteq DOMAIN items'
  /\ \A i \in DOMAIN items : Evolves(items[i], items'[i])
  /\ \A i \in DOMAIN items' \ DOMAIN items :
       /\ items'[i].kind \in Work => i \in Items
       /\ items'[i].kind = "multi" => items'[i].job # "COMPLETED"

JobsStay == \A i \in DOMAIN items :
  items'[i].kind = "multi" /\ items'[i].job = "COMPLETED" => items[i].job = "COMPLETED"

LEMMA ItemsUnchanged ==
  ASSUME ItemsFit, UNCHANGED items
  PROVE  ItemsEvolve /\ JobsStay
  BY DEF ItemsFit, ItemsEvolve, JobsStay, Evolves

(* One item is written again.                                               *)
LEMMA OneRewritten ==
  ASSUME ItemsFit, NEW i, NEW x, i \in DOMAIN items => x \in ItemType /\ Evolves(items[i], x),
         items' = [items EXCEPT ![i] = x]
  PROVE  /\ ItemsEvolve /\ DOMAIN items' = DOMAIN items
         /\ \A j \in DOMAIN items : items'[j] = IF j = i THEN x ELSE items[j]
<1>1. items \in Seq(ItemType)
  BY DEF ItemsFit
<1>2. /\ DOMAIN items' = DOMAIN items
      /\ \A j \in DOMAIN items : items'[j] = IF j = i THEN x ELSE items[j]
  OBVIOUS
<1>3. items' \in Seq(ItemType)
  <2>1. PICK n \in Nat : items \in [1 .. n -> ItemType]
    BY <1>1
  <2>2. items' \in [1 .. n -> ItemType]
    BY <2>1
  <2> HIDE DEF ItemType
  <2>3. [1 .. n -> ItemType] \subseteq Seq(ItemType)
    OBVIOUS
  <2> QED BY <2>2, <2>3
<1>4. \A j \in DOMAIN items : Evolves(items[j], items'[j])
  BY <1>2 DEF Evolves
<1> QED BY <1>2, <1>3, <1>4 DEF ItemsEvolve

LEMMA OneAdded ==
  ASSUME ItemsFit, NEW x \in ItemType, items' = Append(items, x),
         x.kind \in Work => Len(items) + 1 \in Items,
         x.kind = "multi" => x.job # "COMPLETED"
  PROVE  ItemsEvolve /\ JobsStay /\ DOMAIN items' = DOMAIN items \cup {Len(items) + 1}
<1>1. items \in Seq(ItemType)
  BY DEF ItemsFit
<1>2. /\ items' \in Seq(ItemType) /\ DOMAIN items' = DOMAIN items \cup {Len(items) + 1}
      /\ items'[Len(items) + 1] = x /\ Len(items) + 1 \notin DOMAIN items
      /\ \A j \in DOMAIN items : items'[j] = items[j]
  BY <1>1, ItemAdded
<1> QED BY <1>2 DEF ItemsEvolve, JobsStay, Evolves

(* The new form of an item, whatever page the writer thinks of.             *)
LEMMA ResultWritten ==
  ASSUME NEW x \in ItemType, NEW p, NEW o \in {"SUCCESS", "FAILURE", "REVOKED"},
         NEW y, y = [x EXCEPT !.res[p] = Stored(@, o)]
  PROVE  y \in ItemType /\ Evolves(x, y) /\ y.job = x.job
<1>1. y = [x EXCEPT !.res = [x.res EXCEPT ![p] = Stored(x.res[p], o)]]
  OBVIOUS
<1>2. Stored(x.res[p], o) = IF x.res[p] = "SUCCESS" THEN x.res[p] ELSE o
  BY DEF Stored
<1> DEFINE r == [x.res EXCEPT ![p] = Stored(x.res[p], o)]
<1>3. x.res \in [Pages -> {"none", "PENDING", "SUCCESS", "FAILURE", "REVOKED"}]
  BY DEF ItemType
<1>4. r \in [Pages -> {"none", "PENDING", "SUCCESS", "FAILURE", "REVOKED"}]
  BY <1>2, <1>3
<1>5. \A q \in Pages : r[q] = x.res[q] \/ (x.res[q] # "SUCCESS" /\ r[q] = o)
  BY <1>2, <1>3
<1> HIDE DEF r
<1>6. y = [x EXCEPT !.res = r]
  BY <1>1 DEF r
<1>7. y \in ItemType /\ y.kind = x.kind /\ y.plan = x.plan /\ y.job = x.job /\ y.res = r
  BY <1>4, <1>6 DEF ItemType
<1> QED BY <1>5, <1>7 DEF Evolves

LEMMA StateWritten ==
  ASSUME NEW x \in ItemType, NEW v \in Statuses \cup {"none"}, NEW s \in Statuses
  PROVE  /\ [x EXCEPT !.redis = v] \in ItemType /\ Evolves(x, [x EXCEPT !.redis = v])
         /\ [x EXCEPT !.job = s] \in ItemType /\ Evolves(x, [x EXCEPT !.job = s])
         /\ [x EXCEPT !.status = s] \in ItemType /\ Evolves(x, [x EXCEPT !.status = s])
         /\ [x EXCEPT !.redis = v].job = x.job /\ [x EXCEPT !.status = s].job = x.job
         /\ [x EXCEPT !.job = s].job = s
  BY DEF ItemType, Evolves

LEMMA BookingKeeps ==
  ASSUME NEW x \in ItemType, NEW p, NEW close \in BOOLEAN
  PROVE  /\ Booked(x, p, close) \in ItemType /\ Evolves(x, Booked(x, p, close))
         /\ x.kind = "multi" => Booked(x, p, close).job = x.job
<1> DEFINE r == [x.row EXCEPT ![p] = "COMPLETED"]
<1>1. x.row \in [Pages -> {"none", "PENDING", "COMPLETED"}]
  BY DEF ItemType
<1>2. r \in [Pages -> {"none", "PENDING", "COMPLETED"}]
  BY <1>1
<1>3. Booked(x, p, close) =
        [x EXCEPT !.row = r, !.status = IF close THEN "COMPLETED" ELSE @,
                  !.job = IF close /\ x.kind # "multi" THEN "COMPLETED" ELSE @]
  BY DEF Booked
<1> HIDE DEF r
<1> QED BY <1>2, <1>3 DEF ItemType, Statuses, Evolves

LEMMA EndsKeepsItems ==
  ASSUME ItemsFit, NEW a, NEW o \in {"SUCCESS", "FAILURE"}, Ends(a, o)
  PROVE  ItemsEvolve /\ JobsStay
<1> DEFINE i == act[a].item
<1>1. CASE items[i].kind = "multi"
  <2> DEFINE y == [items[i] EXCEPT !.redis = "IN_PROGRESS"]
  <2>1. items' = [items EXCEPT ![i] = y]
    BY <1>1 DEF Ends
  <2>2. i \in DOMAIN items => y \in ItemType /\ Evolves(items[i], y) /\ y.job = items[i].job
    <3> HIDE DEF i
    <3>1. "IN_PROGRESS" \in Statuses /\ (i \in DOMAIN items => items[i] \in ItemType)
      BY DEF ItemsFit, Statuses
    <3> QED BY <3>1, StateWritten
  <2> HIDE DEF y, i
  <2> QED BY <2>1, <2>2, OneRewritten DEF JobsStay
<1>2. CASE items[i].kind # "multi"
  <2> DEFINE p == act[a].page
             y == [items[i] EXCEPT !.res[p] = Stored(@, o)]
  <2>1. items' = [items EXCEPT ![i] = y]
    BY <1>2 DEF Ends
  <2>2. i \in DOMAIN items => y \in ItemType /\ Evolves(items[i], y) /\ y.job = items[i].job
    <3> HIDE DEF p
    <3>1. i \in DOMAIN items => items[i] \in ItemType
      BY DEF ItemsFit
    <3> QED BY <3>1, ResultWritten
  <2> HIDE DEF y, i
  <2> QED BY <2>1, <2>2, OneRewritten DEF JobsStay
<1> QED BY <1>1, <1>2

LEMMA PostRunKeepsItems ==
  ASSUME ItemsFit, PostsFit, NEW r \in Posts, PostRun(r)
  PROVE  ItemsEvolve /\ JobsStay /\ (items' # items => Len(items) + 1 \in DOMAIN items')
<1> DEFINE P == PagesFor(posts[r].kind)  k == posts[r].kind
<1>1. CASE P = {}
  BY <1>1, ItemsUnchanged DEF PostRun
<1>2. CASE P # {}
  <2>1. k \in Work /\ P \in SUBSET Pages
    BY ConstantsAssumption DEF PostRun, PostsFit, PostFits, PagesFor
  <2> DEFINE x == NewItem(k, P, Cardinality(P))
  <2>2. /\ items' = Append(items, x) /\ Len(items) + 1 <= MaxItems
    BY <1>2 DEF PostRun
  <2>3. Len(items) + 1 \in Items
    BY <2>2, ConstantsAssumption DEF Items, ItemsFit
  <2> HIDE DEF P, k
  <2>4. x \in ItemType /\ x.kind = k /\ k # "multi"
    <3>1. Cardinality(P) \in Nat /\ k \in ItemKinds \ {"multi"}
      BY <2>1, PagesAreFinite, KindFacts
    <3>2. x.kind = k
      BY DEF NewItem
    <3> QED BY <2>1, <3>1, <3>2, NewItemType
  <2> HIDE DEF x
  <2> QED BY <2>2, <2>3, <2>4, OneAdded
<1> QED BY <1>1, <1>2

LEMMA EditorLogKeepsItems ==
  ASSUME ItemsFit, NEW e \in Editors, EditorLog(e)
  PROVE  ItemsEvolve /\ JobsStay
<1> DEFINE k == Single(act[e].kind)  p == act[e].page  S == OfKind(k)
<1>1. k \in ItemKinds \ Work /\ k # "multi"
  BY DEF Single, ItemKinds, Work
<1>2. CASE act[e].kind = "enhanced"
  BY <1>2, ItemsUnchanged DEF EditorLog
<1>3. CASE act[e].kind # "enhanced" /\ S = {}
  <2> DEFINE x == Booked(NewItem(k, {}, PageCount), p, TRUE)
  <2>1. items' = Append(items, x)
    BY <1>3 DEF EditorLog
  <2> HIDE DEF k, p
  <2>2. NewItem(k, {}, PageCount) \in ItemType /\ NewItem(k, {}, PageCount).kind = k
    <3>1. NewItem(k, {}, PageCount).kind = k
      BY DEF NewItem
    <3> QED BY <1>1, <3>1, ConstantsAssumption, NewItemType
  <2>3. x \in ItemType /\ x.kind = k
    BY <2>2, BookingKeeps DEF Evolves
  <2> HIDE DEF x
  <2> QED BY <1>1, <2>1, <2>3, OneAdded
<1>4. CASE act[e].kind # "enhanced" /\ S # {}
  <2> DEFINE i == NewestOf(S)  x == Booked(items[i], p, TRUE)
  <2>1. items' = [items EXCEPT ![i] = x]
    BY <1>4 DEF EditorLog
  <2>2. i \in DOMAIN items => /\ x \in ItemType /\ Evolves(items[i], x)
                              /\ items[i].kind = "multi" => x.job = items[i].job
    <3> HIDE DEF i, p
    <3>1. i \in DOMAIN items => items[i] \in ItemType
      BY DEF ItemsFit
    <3> QED BY <3>1, BookingKeeps
  <2> HIDE DEF i, x
  <2> QED BY <2>1, <2>2, OneRewritten DEF JobsStay, Evolves
<1> QED BY <1>2, <1>3, <1>4

(* A booking writes two items, or one item twice.                           *)
LEMMA TwoSteps ==
  ASSUME NEW x, NEW y, NEW z, Evolves(x, y), Evolves(y, z)
  PROVE  Evolves(x, z)
  BY DEF Evolves

LEMMA BookPageKeepsItems ==
  ASSUME ItemsFit, RecordsFit, NEW w \in Workers, BookPage(w)
  PROVE  ItemsEvolve /\ JobsStay
<1> DEFINE i == act[w].item  b == act[w].book  p == act[w].page  c == act[w].close
           s == [items EXCEPT ![b] = Booked(@, p, c)]
           y == IF items[i].kind = "multi" THEN [s[i] EXCEPT !.redis = "IN_PROGRESS"]
                ELSE [s[i] EXCEPT !.res[p] = "SUCCESS"]
<1>1. items' = [s EXCEPT ![i] = y]
  BY DEF BookPage
<1>2. c \in BOOLEAN
  BY DEF RecordsFit, Record, Actors
<1> HIDE DEF i, b, p, c
<1>3. \A j \in DOMAIN items : /\ s[j] \in ItemType /\ Evolves(items[j], s[j])
                              /\ s[j].kind = "multi" => s[j].job = items[j].job
  <2> SUFFICES ASSUME NEW j \in DOMAIN items
               PROVE  /\ s[j] \in ItemType /\ Evolves(items[j], s[j])
                      /\ s[j].kind = "multi" => s[j].job = items[j].job
    OBVIOUS
  <2>1. items[j] \in ItemType
    BY DEF ItemsFit
  <2>2. s[j] = IF j = b THEN Booked(items[j], p, c) ELSE items[j]
    OBVIOUS
  <2>3. Evolves(items[j], items[j])
    BY DEF Evolves
  <2> QED BY <1>2, <2>1, <2>2, <2>3, BookingKeeps DEF Evolves
<1>4. DOMAIN s = DOMAIN items
  OBVIOUS
<1> HIDE DEF s
<1>5. ASSUME NEW j \in DOMAIN items, j = i
      PROVE  y \in ItemType /\ Evolves(s[j], y) /\ y.job = s[j].job
  <2>1. s[i] \in ItemType
    BY <1>3, <1>5
  <2>2. CASE items[i].kind = "multi"
    BY <1>5, <2>1, <2>2 DEF ItemType, Evolves, Statuses
  <2>3. CASE items[i].kind # "multi"
    <3> DEFINE r == [s[i].res EXCEPT ![p] = "SUCCESS"]
    <3>1. s[i].res \in [Pages -> {"none", "PENDING", "SUCCESS", "FAILURE", "REVOKED"}]
      BY <2>1 DEF ItemType
    <3>2. r \in [Pages -> {"none", "PENDING", "SUCCESS", "FAILURE", "REVOKED"}]
      BY <3>1
    <3>3. \A q \in Pages : r[q] = s[i].res[q] \/ (s[i].res[q] # "SUCCESS" /\ r[q] = "SUCCESS")
      BY <3>1
    <3>4. y = [s[i] EXCEPT !.res = r]
      BY <2>3
    <3> HIDE DEF r, y
    <3> QED BY <1>5, <2>1, <3>2, <3>3, <3>4 DEF ItemType, Evolves
  <2> QED BY <2>2, <2>3
<1> HIDE DEF y
<1>6. /\ DOMAIN items' = DOMAIN items
      /\ \A j \in DOMAIN items : items'[j] = IF j = i THEN y ELSE s[j]
  BY <1>1, <1>4
<1>7. \A j \in DOMAIN items : /\ items'[j] \in ItemType /\ Evolves(items[j], items'[j])
                              /\ items'[j].kind = "multi" => items'[j].job = items[j].job
  <2> SUFFICES ASSUME NEW j \in DOMAIN items
               PROVE  /\ items'[j] \in ItemType /\ Evolves(items[j], items'[j])
                      /\ items'[j].kind = "multi" => items'[j].job = items[j].job
    OBVIOUS
  <2>1. CASE j = i
    <3>1. Evolves(items[j], y) /\ y.kind = s[j].kind
      BY <1>3, <1>5, <2>1, TwoSteps DEF Evolves
    <3> QED BY <1>3, <1>5, <1>6, <2>1, <3>1
  <2>2. CASE j # i
    BY <1>3, <1>6, <2>2
  <2> QED BY <2>1, <2>2
<1>8. items' \in Seq(ItemType)
  <2>1. PICK n \in Nat : items \in [1 .. n -> ItemType]
    BY DEF ItemsFit
  <2> HIDE DEF ItemType
  <2>2. DOMAIN items' = 1 .. n /\ items' = [j \in DOMAIN items' |-> items'[j]]
    BY <1>1, <1>6, <2>1
  <2>3. items' \in [1 .. n -> ItemType]
    BY <1>6, <1>7, <2>1, <2>2
  <2>4. [1 .. n -> ItemType] \subseteq Seq(ItemType)
    OBVIOUS
  <2> QED BY <2>3, <2>4
<1> QED BY <1>6, <1>7, <1>8 DEF ItemsEvolve, JobsStay

(* The tray's own actions.                                                  *)
LEMMA StartMultiKeepsItems ==
  ASSUME ItemsFit, NEW plan \in Plans, StartMulti(plan)
  PROVE  ItemsEvolve /\ JobsStay /\ Len(items) + 1 \in DOMAIN items' /\ Len(items) + 1 \in Items
<1> DEFINE x == [NewItem("multi", {}, PageCount) EXCEPT !.status = "PENDING", !.plan = plan]
<1>1. items' = Append(items, x) /\ Len(items) + 1 <= MaxItems
  BY DEF StartMulti
<1>2. plan \in SUBSET Work
  BY PlansAssumption DEF Work
<1>3. x \in ItemType /\ x.kind = "multi" /\ x.job = "IN_PROGRESS"
  BY <1>2, ConstantsAssumption DEF NewItem, ItemType, Statuses, ItemKinds
<1>4. "multi" \notin Work /\ Len(items) + 1 \in Items
  BY <1>1, ConstantsAssumption DEF Work, Items, ItemsFit
<1> HIDE DEF x
<1> QED BY <1>1, <1>3, <1>4, OneAdded

LEMMA AgeKeepsItems ==
  ASSUME ItemsFit, NEW i \in Items, GrowOld(i)
  PROVE  ItemsEvolve /\ JobsStay
<1> DEFINE y == [items[i] EXCEPT !.redis = "none"]
<1>1. UNCHANGED items \/ items' = [items EXCEPT ![i] = y]
  BY DEF GrowOld
<1>2. i \in DOMAIN items => y \in ItemType /\ Evolves(items[i], y) /\ y.job = items[i].job
  <2>1. (i \in DOMAIN items => items[i] \in ItemType) /\ Statuses # {}
    BY DEF ItemsFit, Statuses
  <2> QED BY <2>1, StateWritten
<1> HIDE DEF y
<1> QED BY <1>1, <1>2, OneRewritten, ItemsUnchanged DEF JobsStay

LEMMA RevokeKeepsItems ==
  ASSUME ItemsFit, CancelRevoke
  PROVE  ItemsEvolve /\ JobsStay
<1> DEFINE i == cancel.item
           pages == {act[w].page : w \in {w \in Workers : act[w].pc # "idle" /\ act[w].item = i}}
           r == [p \in Pages |-> IF p \in pages THEN Stored(items[i].res[p], "REVOKED")
                                 ELSE items[i].res[p]]
           y == [items[i] EXCEPT !.res = r]
<1>1. UNCHANGED items \/ items' = [items EXCEPT ![i] = y]
  BY DEF CancelRevoke
<1> HIDE DEF i, pages
<1>2. ASSUME i \in DOMAIN items PROVE y \in ItemType /\ Evolves(items[i], y) /\ y.job = items[i].job
  <2>1. items[i] \in ItemType
    BY <1>2 DEF ItemsFit
  <2>2. items[i].res \in [Pages -> {"none", "PENDING", "SUCCESS", "FAILURE", "REVOKED"}]
    BY <2>1 DEF ItemType
  <2>3. r \in [Pages -> {"none", "PENDING", "SUCCESS", "FAILURE", "REVOKED"}]
    BY <2>2 DEF Stored
  <2>4. \A p \in Pages : r[p] = items[i].res[p] \/ (items[i].res[p] # "SUCCESS" /\ r[p] = "REVOKED")
    BY <2>2 DEF Stored
  <2> HIDE DEF r
  <2> QED BY <2>1, <2>3, <2>4 DEF ItemType, Evolves
<1> HIDE DEF y
<1> QED BY <1>1, <1>2, OneRewritten, ItemsUnchanged DEF JobsStay

LEMMA CancelStateKeepsItems ==
  ASSUME ItemsFit, CancelState
  PROVE  ItemsEvolve /\ JobsStay
<1> DEFINE i == cancel.item
           v == IF items[i].redis = "none" THEN items[i].redis ELSE "CANCELLED"
           x == [items[i] EXCEPT !.redis = v]
           y == [x EXCEPT !.job = "CANCELLED"]
<1>1. items' = [items EXCEPT ![i] = y]
  BY DEF CancelState
<1> HIDE DEF i
<1>2. ASSUME i \in DOMAIN items PROVE y \in ItemType /\ Evolves(items[i], y) /\ y.job = "CANCELLED"
  <2>1. items[i] \in ItemType /\ "CANCELLED" \in Statuses
    BY <1>2 DEF ItemsFit, Statuses
  <2>2. v \in Statuses \cup {"none"}
    BY <2>1
  <2> HIDE DEF v
  <2>3. x \in ItemType /\ Evolves(items[i], x)
    BY <2>1, <2>2, StateWritten
  <2> HIDE DEF x
  <2>4. y \in ItemType /\ Evolves(x, y) /\ y.job = "CANCELLED"
    BY <2>1, <2>3, StateWritten
  <2> QED BY <2>3, <2>4, TwoSteps
<1> HIDE DEF y
<1> QED BY <1>1, <1>2, OneRewritten DEF JobsStay

LEMMA DiscardKeepsItems ==
  ASSUME ItemsFit, NEW w, NEW m, Discard(w, m)
  PROVE  ItemsEvolve /\ JobsStay
<1> DEFINE i == m[1]  p == m[2]  y == [items[i] EXCEPT !.res[p] = Stored(@, "REVOKED")]
<1>1. UNCHANGED items \/ items' = [items EXCEPT ![i] = y]
  BY DEF Discard
<1> HIDE DEF i, p
<1>2. i \in DOMAIN items => y \in ItemType /\ Evolves(items[i], y) /\ y.job = items[i].job
  <2>1. i \in DOMAIN items => items[i] \in ItemType
    BY DEF ItemsFit
  <2> QED BY <2>1, ResultWritten
<1> HIDE DEF y
<1> QED BY <1>1, <1>2, OneRewritten, ItemsUnchanged DEF JobsStay

(* The steps of a multi-batch move its states, and the last one its job.    *)
LEMMA StatesMove ==
  ASSUME ItemsFit, NEW i, NEW v \in Statuses, NEW s \in Statuses,
         \/ items' = [items EXCEPT ![i].redis = v]
         \/ items' = [items EXCEPT ![i].redis = v, ![i].status = s]
         \/ items' = [items EXCEPT ![i].status = s, ![i].redis = v]
  PROVE  ItemsEvolve /\ JobsStay
<1>1. PICK y : /\ items' = [items EXCEPT ![i] = y]
               /\ \/ y = [items[i] EXCEPT !.redis = v]
                  \/ y = [[items[i] EXCEPT !.redis = v] EXCEPT !.status = s]
                  \/ y = [[items[i] EXCEPT !.status = s] EXCEPT !.redis = v]
  <2>1. CASE items' = [items EXCEPT ![i].redis = v]
    BY <2>1
  <2>2. CASE items' = [items EXCEPT ![i].redis = v, ![i].status = s]
    <3>1. items' = [items EXCEPT ![i] = [[items[i] EXCEPT !.redis = v] EXCEPT !.status = s]]
      BY <2>2
    <3> QED BY <3>1
  <2>3. CASE items' = [items EXCEPT ![i].status = s, ![i].redis = v]
    <3>1. items' = [items EXCEPT ![i] = [[items[i] EXCEPT !.status = s] EXCEPT !.redis = v]]
      BY <2>3
    <3> QED BY <3>1
  <2> QED BY <2>1, <2>2, <2>3
<1>2. ASSUME i \in DOMAIN items PROVE y \in ItemType /\ Evolves(items[i], y) /\ y.job = items[i].job
  <2>1. items[i] \in ItemType
    BY <1>2 DEF ItemsFit
  <2> DEFINE x == items[i]
  <2>2. /\ [x EXCEPT !.redis = v] \in ItemType /\ Evolves(x, [x EXCEPT !.redis = v])
        /\ [x EXCEPT !.status = s] \in ItemType /\ Evolves(x, [x EXCEPT !.status = s])
        /\ [x EXCEPT !.redis = v].job = x.job /\ [x EXCEPT !.status = s].job = x.job
    <3> HIDE DEF x
    <3> QED BY <2>1, StateWritten DEF x
  <2> HIDE DEF x
  <2> DEFINE a == [x EXCEPT !.redis = v]  b == [x EXCEPT !.status = s]
  <2>3. /\ a \in ItemType /\ Evolves(x, a) /\ a.job = x.job
        /\ b \in ItemType /\ Evolves(x, b) /\ b.job = x.job
    BY <2>2
  <2>4. y = a \/ y = [a EXCEPT !.status = s] \/ y = [b EXCEPT !.redis = v]
    BY <1>1 DEF x
  <2> HIDE DEF a, b
  <2>5. CASE y = a
    BY <2>3, <2>5 DEF x
  <2>6. CASE y = [a EXCEPT !.status = s]
    <3>1. y \in ItemType /\ Evolves(a, y) /\ y.job = a.job
      BY <2>3, <2>6, StateWritten
    <3> QED BY <2>3, <3>1, TwoSteps DEF x
  <2>7. CASE y = [b EXCEPT !.redis = v]
    <3>1. y \in ItemType /\ Evolves(b, y) /\ y.job = b.job
      BY <2>3, <2>7, StateWritten
    <3> QED BY <2>3, <3>1, TwoSteps DEF x
  <2> QED BY <2>4, <2>5, <2>6, <2>7
<1> QED BY <1>1, <1>2, OneRewritten DEF JobsStay

LEMMA JobMoves ==
  ASSUME ItemsFit, NEW i, NEW s \in Statuses, items' = [items EXCEPT ![i].job = s]
  PROVE  /\ ItemsEvolve /\ DOMAIN items' = DOMAIN items
         /\ \A j \in DOMAIN items : items'[j].job = IF j = i THEN s ELSE items[j].job
<1> DEFINE y == [items[i] EXCEPT !.job = s]
<1>1. items' = [items EXCEPT ![i] = y]
  OBVIOUS
<1>2. i \in DOMAIN items => y \in ItemType /\ Evolves(items[i], y) /\ y.job = s
  <2>1. i \in DOMAIN items => items[i] \in ItemType
    BY DEF ItemsFit
  <2> QED BY <2>1, StateWritten
<1> HIDE DEF y
<1> QED BY <1>1, <1>2, OneRewritten

LEMMA MultiKeepsItems ==
  ASSUME ItemsFit, RecordsFit, NEW w \in Workers,
         \/ \E m \in mail : ReceiveMulti(w, m)
         \/ PlanMulti(w) \/ CloseDocument(w) \/ ReportMulti(w)
  PROVE  ItemsEvolve /\ JobsStay
<1>1. ASSUME NEW m \in mail, ReceiveMulti(w, m) PROVE ItemsEvolve /\ JobsStay
  <2> DEFINE i == m[1]
  <2>1. items' = [items EXCEPT ![i].job = "IN_PROGRESS"] /\ "IN_PROGRESS" \in Statuses
    BY <1>1 DEF ReceiveMulti, Statuses
  <2> HIDE DEF i
  <2>2. ItemsEvolve /\ \A j \in DOMAIN items :
          items'[j].job = IF j = i THEN "IN_PROGRESS" ELSE items[j].job
    BY <2>1, JobMoves
  <2> QED BY <2>2 DEF JobsStay
<1>2. CASE PlanMulti(w)
  <2> DEFINE i == act[w].item
  <2>1. /\ items' = [items EXCEPT ![i].status = "IN_PROGRESS", ![i].redis = "IN_PROGRESS"]
        /\ "IN_PROGRESS" \in Statuses
    BY <1>2 DEF PlanMulti, Statuses
  <2> HIDE DEF i
  <2> QED BY <2>1, StatesMove
<1>3. Final(act[w].errs) \in Statuses /\ "SKIPPED" \in Statuses /\ "IN_PROGRESS" \in Statuses
  BY DEF Final, Statuses
<1>4. CASE CloseDocument(w)
  <2> DEFINE i == act[w].item
             s == IF act[w].pc = "skip" THEN "SKIPPED" ELSE Final(act[w].errs)
  <2>1. items' = [items EXCEPT ![i].redis = "IN_PROGRESS", ![i].status = s]
    BY <1>4 DEF CloseDocument
  <2>2. s \in Statuses
    BY <1>3
  <2> HIDE DEF i, s
  <2> QED BY <1>3, <2>1, <2>2, StatesMove
<1>5. CASE ReportMulti(w)
  <2> DEFINE i == act[w].item  v == Final(act[w].errs)
  <2>1. items' = [items EXCEPT ![i].redis = v]
    BY <1>5 DEF ReportMulti
  <2>2. v \in Statuses
    BY <1>3
  <2> HIDE DEF i, v
  <2> QED BY <2>1, <2>2, StatesMove
<1> QED BY <1>1, <1>2, <1>4, <1>5

LEMMA CloseJobKeepsItems ==
  ASSUME ItemsFit, RecordsFit, NEW w \in Workers, CloseJob(w)
  PROVE  /\ ItemsEvolve
         /\ \A i \in DOMAIN items : items'[i].job = "COMPLETED"
              => items[i].job = "COMPLETED" \/ (i = act[w].item /\ act[w].errs = 0)
<1> DEFINE i == act[w].item  s == Final(act[w].errs)
<1>1. items' = [items EXCEPT ![i].job = s]
  BY DEF CloseJob
<1>2. s \in Statuses /\ (s = "COMPLETED" => act[w].errs = 0)
  BY DEF Final, Statuses, RecordsFit, Record, Actors
<1> HIDE DEF i, s
<1>3. /\ ItemsEvolve /\ DOMAIN items' = DOMAIN items
      /\ \A j \in DOMAIN items : items'[j].job = IF j = i THEN s ELSE items[j].job
  BY <1>1, <1>2, JobMoves
<1> QED BY <1>2, <1>3 DEF i

----------------------------------------------------------------------------
(* The versions and the boxes of the pages.                                 *)

NeedsLess == \A p \in Pages : Needs(p, "ocr")' => Needs(p, "ocr")

LEMMA VersionUp ==
  ASSUME VersionsFit, NEW p, NEW k, ver' = [ver EXCEPT ![p][k] = @ + 1], UNCHANGED boxes
  PROVE  VersionsFit' /\ NeedsLess
<1>1. \A q \in Pages, t \in Tracks : ver[q][t] \in Nat
  BY DEF VersionsFit
<1>2. DOMAIN ver' = Pages /\ \A q \in Pages : DOMAIN ver'[q] = Tracks
  BY DEF VersionsFit
<1>3. \A q \in Pages, t \in Tracks : ver'[q][t] = ver[q][t] \/ ver'[q][t] = ver[q][t] + 1
  BY DEF VersionsFit
<1>4. \A q \in Pages : ver'[q] \in [Tracks -> Nat]
  <2> SUFFICES ASSUME NEW q \in Pages PROVE ver'[q] \in [Tracks -> Nat]
    OBVIOUS
  <2>1. \A t \in Tracks : ver'[q][t] \in Nat
    BY <1>1, <1>3
  <2>2. ver'[q] = [t \in Tracks |-> ver'[q][t]]
    <3>1. ver[q] \in [Tracks -> Nat]
      BY DEF VersionsFit
    <3>2. ver'[q] = IF q = p THEN [ver[q] EXCEPT ![k] = @ + 1] ELSE ver[q]
      BY DEF VersionsFit
    <3> QED BY <3>1, <3>2
  <2> QED BY <2>1, <2>2
<1>5. ver' = [q \in Pages |-> ver'[q]]
  BY DEF VersionsFit
<1>6. VersionsFit'
  BY <1>4, <1>5 DEF VersionsFit
<1>7. "ocr" \in Tracks /\ "enhanced" \in Tracks
  BY DEF Tracks, Work
<1>8. NeedsLess
  BY <1>1, <1>3, <1>7 DEF NeedsLess, Needs
<1> QED BY <1>6, <1>8

LEMMA VersionsStay ==
  ASSUME VersionsFit, [TrayNext]_trayVars
  PROVE  VersionsFit' /\ NeedsLess
<1>1. CASE UNCHANGED <<ver, boxes>>
  BY <1>1 DEF VersionsFit, NeedsLess, Needs
<1>2. ASSUME NEW a \in Actors, Bump(a), ~UNCHANGED ver PROVE VersionsFit' /\ NeedsLess
  <2> DEFINE p == act[a].page  k == act[a].kind
  <2>1. ver' = [ver EXCEPT ![p][k] = @ + 1] /\ UNCHANGED boxes
    BY <1>2 DEF Bump
  <2> HIDE DEF p, k
  <2> QED BY <2>1, VersionUp
<1>3. ASSUME NEW p \in Pages, EditPage(p) PROVE VersionsFit' /\ NeedsLess
  BY <1>3, VersionUp DEF EditPage
<1>4. ASSUME NEW w \in Workers, Call(w) PROVE VersionsFit' /\ NeedsLess
  <2>1. UNCHANGED ver /\ boxes \subseteq boxes'
    BY <1>4 DEF Call
  <2> QED BY <2>1 DEF VersionsFit, NeedsLess, Needs
<1>5. ASSUME NEW a \in Actors, SaveStep(a) PROVE VersionsFit' /\ NeedsLess
  <2>1. Bump(a) \/ UNCHANGED <<ver, boxes>>
    BY <1>5 DEF SaveStep, InsertRevision, ReadCredit, Pay
  <2>2. Bump(a) => UNCHANGED boxes
    BY DEF Bump
  <2> QED BY <1>1, <1>2, <2>1, <2>2
<1>6. ASSUME NEW w \in Workers, TaskStep(w) PROVE Call(w) \/ UNCHANGED <<ver, boxes>>
  BY <1>6 DEF TaskStep, ResolveOcr, ResolveTranslation, CallFails, CountPages, BookPage
<1>7. ASSUME Step PROVE VersionsFit' /\ NeedsLess
  <2>1. ASSUME \/ \E r \in Posts, k \in Kinds : PostCheck(r, k)
               \/ \E r \in Posts : PostRun(r)
               \/ \E k \in Kinds : StatusPoll(k)
               \/ \E w \in Workers, m \in mail : Receive(w, m)
               \/ \E w \in Workers : DeliverAgain(w) \/ Crash(w)
               \/ \E e \in Editors, p \in Pages, k \in Kinds : EditorAsks(e, p, k)
               \/ \E e \in Editors : EditorStep(e)
        PROVE  UNCHANGED <<ver, boxes>>
    BY <2>1 DEF PostCheck, PostRun, StatusPoll, Receive, DeliverAgain, Crash, EditorAsks,
                EditorStep, EditorVersion, EditorLog
  <2> QED BY <1>1, <1>3, <1>4, <1>5, <1>6, <1>7, <2>1 DEF Step
<1>8. ASSUME TrayNext, ~Step PROVE UNCHANGED <<ver, boxes>>
  <2>1. ASSUME NEW w \in Workers, MultiStep(w) PROVE UNCHANGED <<ver, boxes>>
    BY <2>1 DEF MultiStep, PlanMulti, NextPage, CloseDocument, ReportMulti, CloseJob
  <2>2. ASSUME PollStep \/ CancelStep PROVE UNCHANGED <<ver, boxes>>
    BY <2>2 DEF PollStep, CancelStep, PollRead, PollAsk, PollWrite, CancelRevoke, CancelState,
                CancelWrite, vars
  <2>3. ASSUME \/ \E r \in Posts : AddRun(r)
               \/ \E plan \in Plans : StartMulti(plan)
               \/ \E i \in Items : GrowOld(i) \/ CancelRead(i)
               \/ \E w \in Workers, m \in mail : ReceiveMulti(w, m) \/ Discard(w, m)
        PROVE  UNCHANGED <<ver, boxes>>
    BY <2>3 DEF AddRun, PostKey, StartMulti, GrowOld, CancelRead, ReceiveMulti, Discard
  <2> QED BY <1>8, <2>1, <2>2, <2>3 DEF TrayNext
<1> QED BY <1>1, <1>7, <1>8 DEF trayVars, vars

----------------------------------------------------------------------------
(* The items through every step.                                            *)

LEMMA StepKeepsItems ==
  ASSUME ItemsFit, RecordsFit, PostsFit, [TrayNext]_trayVars
  PROVE  ItemsEvolve /\ (JobsStay \/ \E w \in Workers : CloseJob(w))
<1>1. CASE UNCHANGED items
  BY <1>1, ItemsUnchanged
<1>2. ASSUME NEW w \in Workers, TaskStep(w) PROVE ItemsEvolve /\ JobsStay
  <2>1. \/ UNCHANGED items \/ BookPage(w)
        \/ \E o \in {"SUCCESS", "FAILURE"} : Ends(w, o)
    BY <1>2 DEF TaskStep, ResolveOcr, ResolveTranslation, Call, CallFails, CountPages
  <2> QED BY <2>1, ItemsUnchanged, BookPageKeepsItems, EndsKeepsItems
<1>3. ASSUME NEW a \in Actors, SaveStep(a) PROVE ItemsEvolve /\ JobsStay
  <2>1. UNCHANGED items \/ Ends(a, "FAILURE")
    BY <1>3 DEF SaveStep, Bump, InsertRevision, ReadCredit, Pay
  <2> QED BY <2>1, ItemsUnchanged, EndsKeepsItems
<1>4. ASSUME Step PROVE ItemsEvolve /\ JobsStay
  <2>1. ASSUME \/ \E r \in Posts, k \in Kinds : PostCheck(r, k)
               \/ \E k \in Kinds : StatusPoll(k)
               \/ \E w \in Workers, m \in mail : Receive(w, m)
               \/ \E p \in Pages : EditPage(p)
               \/ \E w \in Workers : DeliverAgain(w) \/ Crash(w)
               \/ \E e \in Editors, p \in Pages, k \in Kinds : EditorAsks(e, p, k)
               \/ \E e \in Editors : EditorVersion(e)
        PROVE  UNCHANGED items
    BY <2>1 DEF PostCheck, StatusPoll, Receive, EditPage, DeliverAgain, Crash, EditorAsks,
                EditorVersion
  <2> QED BY <1>2, <1>3, <1>4, <2>1, ItemsUnchanged, PostRunKeepsItems, EditorLogKeepsItems
          DEF Step, EditorStep
<1>5. ASSUME NEW w \in Workers, MultiStep(w) PROVE ItemsEvolve /\ (JobsStay \/ CloseJob(w))
  <2>1. NextPage(w) => UNCHANGED items
    BY DEF NextPage
  <2> QED BY <1>5, <2>1, ItemsUnchanged, MultiKeepsItems, CloseJobKeepsItems DEF MultiStep
<1>6. ASSUME PollStep \/ CancelStep PROVE ItemsEvolve /\ JobsStay
  <2>1. PollRead \/ PollAsk \/ PollWrite \/ CancelWrite => UNCHANGED items
    BY DEF PollRead, PollAsk, PollWrite, CancelWrite, vars
  <2> QED BY <1>6, <2>1, ItemsUnchanged, RevokeKeepsItems, CancelStateKeepsItems
          DEF PollStep, CancelStep
<1>7. ASSUME \/ \E r \in Posts : AddRun(r)
             \/ \E i \in Items : CancelRead(i)
      PROVE  UNCHANGED items
  BY <1>7 DEF AddRun, PostKey, CancelRead
<1>8. ASSUME NEW w \in Workers, NEW m \in mail, ReceiveMulti(w, m) \/ Discard(w, m)
      PROVE  ItemsEvolve /\ JobsStay
  BY <1>8, MultiKeepsItems, DiscardKeepsItems
<1>9. ASSUME UNCHANGED trayVars PROVE UNCHANGED items
  BY <1>9 DEF trayVars, vars
<1> QED BY <1>1, <1>4, <1>5, <1>6, <1>7, <1>8, <1>9, StartMultiKeepsItems, AgeKeepsItems
        DEF TrayNext

LEMMA ItemsStillFit ==
  ASSUME ItemsFit, ItemsEvolve
  PROVE  ItemsFit'
  BY DEF ItemsFit, ItemsEvolve, Evolves, Items

LEMMA OverStays ==
  ASSUME ItemsFit, ItemsEvolve, NEW i \in DOMAIN items, Over(i)
  PROVE  Over(i)'
<1>1. Evolves(items[i], items'[i]) /\ i \in DOMAIN items'
  BY DEF ItemsEvolve
<1>2. \A p \in Pages : items'[i].res[p] = "PENDING" => items[i].res[p] = "PENDING"
  BY <1>1 DEF Evolves
<1>3. \A p \in Pages : items[i].res[p] = "SUCCESS" => items'[i].res[p] = "SUCCESS"
  BY <1>1 DEF Evolves
<1> QED BY <1>2, <1>3 DEF Over, Results

LEMMA SaysStays ==
  ASSUME ItemsFit, ItemsEvolve, NEW i, NEW v, Says(i, v), age'[i] = 0 => age[i] = 0
  PROVE  Says(i, v)'
<1>1. i \in DOMAIN items /\ i \in DOMAIN items' /\ items'[i].kind = items[i].kind
  BY DEF Says, ItemsEvolve, Evolves
<1> QED BY <1>1, OverStays DEF Says

LEMMA BatchStaysRead ==
  ASSUME TrayInv, ItemsEvolve, NeedsLess, [TrayNext]_trayVars,
         JobsStay \/ \E w \in Workers : CloseJob(w)
  PROVE  CompletedBatchIsRead'
<1> SUFFICES ASSUME NEW i \in DOMAIN items', items'[i].kind = "multi", items'[i].job = "COMPLETED",
                    "ocr" \in items'[i].plan, NEW p \in Pages
             PROVE  ~Needs(p, "ocr")'
  BY DEF CompletedBatchIsRead
<1>1. i \in DOMAIN items /\ items[i].kind = "multi" /\ "ocr" \in items[i].plan
  BY DEF ItemsEvolve, Evolves
<1>2. CASE items[i].job = "COMPLETED"
  BY <1>1, <1>2 DEF TrayInv, CompletedBatchIsRead, NeedsLess
<1>3. CASE items[i].job # "COMPLETED"
  <2>1. PICK w \in Workers : CloseJob(w)
    BY <1>1, <1>3 DEF JobsStay
  <2>2. i = act[w].item /\ act[w].errs = 0
    BY <1>1, <1>3, <2>1, CloseJobKeepsItems DEF TrayInv
  <2>3. act[w].pc = "job" /\ WorkerFits(act[w])
    BY <2>1 DEF CloseJob, TrayInv, WorkersFit
  <2>4. ~Needs(p, "ocr")
    BY <1>1, <2>2, <2>3 DEF WorkerFits, Reading
  <2> QED BY <2>4 DEF NeedsLess
<1> QED BY <1>2, <1>3

----------------------------------------------------------------------------
(* The messages and the requests that start runs.                           *)

LEMMA MailCases ==
  ASSUME [TrayNext]_trayVars
  PROVE  \/ mail' \subseteq mail
         \/ \E w \in Workers : DeliverAgain(w) \/ Crash(w)
         \/ \E r \in Posts : PostRun(r)
         \/ \E plan \in Plans : StartMulti(plan)
<1>1. ASSUME Step PROVE mail' \subseteq mail \/ (\E r \in Posts : PostRun(r))
                        \/ (\E w \in Workers : DeliverAgain(w) \/ Crash(w))
  <2>1. ASSUME \/ \E r \in Posts, k \in Kinds : PostCheck(r, k)
               \/ \E k \in Kinds : StatusPoll(k)
               \/ \E w \in Workers, m \in mail : Receive(w, m)
               \/ \E w \in Workers : TaskStep(w)
        PROVE  mail' \subseteq mail
    BY <2>1 DEF PostCheck, StatusPoll, Receive, TaskStep, ResolveOcr, ResolveTranslation, Call,
                CallFails, CountPages, BookPage
  <2>2. ASSUME \/ \E a \in Actors : SaveStep(a)
               \/ \E p \in Pages : EditPage(p)
               \/ \E e \in Editors, p \in Pages, k \in Kinds : EditorAsks(e, p, k)
               \/ \E e \in Editors : EditorStep(e)
        PROVE  mail' \subseteq mail
    BY <2>2 DEF SaveStep, Bump, InsertRevision, ReadCredit, Pay, EditPage, EditorAsks, EditorStep,
                EditorVersion, EditorLog
  <2> QED BY <1>1, <2>1, <2>2 DEF Step
<1>2. ASSUME TrayNext, ~Step PROVE mail' \subseteq mail \/ \E plan \in Plans : StartMulti(plan)
  <2>1. ASSUME NEW w \in Workers, MultiStep(w) PROVE mail' \subseteq mail
    BY <2>1 DEF MultiStep, PlanMulti, NextPage, CloseDocument, ReportMulti, CloseJob
  <2>2. ASSUME PollStep \/ CancelStep PROVE mail' \subseteq mail
    BY <2>2 DEF PollStep, CancelStep, PollRead, PollAsk, PollWrite, CancelRevoke, CancelState,
                CancelWrite, vars
  <2>3. ASSUME \/ \E r \in Posts : AddRun(r)
               \/ \E i \in Items : GrowOld(i) \/ CancelRead(i)
               \/ \E w \in Workers, m \in mail : ReceiveMulti(w, m) \/ Discard(w, m)
        PROVE  mail' \subseteq mail
    BY <2>3 DEF AddRun, PostKey, GrowOld, CancelRead, ReceiveMulti, Discard
  <2> QED BY <1>2, <2>1, <2>2, <2>3 DEF TrayNext
<1>3. ASSUME UNCHANGED trayVars PROVE mail' \subseteq mail
  BY <1>3 DEF trayVars, vars
<1> QED BY <1>1, <1>2, <1>3

LEMMA MailStillFits ==
  ASSUME TrayInv, ItemsEvolve, [TrayNext]_trayVars
  PROVE  MailFits'
<1>1. DOMAIN items \subseteq DOMAIN items'
  BY DEF ItemsEvolve
<1>2. ASSUME mail' \subseteq mail PROVE MailFits'
  BY <1>1, <1>2 DEF TrayInv, MailFits
<1>3. ASSUME NEW w \in Workers, DeliverAgain(w) \/ Crash(w) PROVE MailFits'
  <2>1. mail' = mail \cup {Running(w)} /\ act[w].pc # "idle"
    BY <1>3 DEF DeliverAgain, Crash
  <2>2. Running(w)[1] = act[w].item /\ act[w].item \in DOMAIN items
    BY <2>1 DEF Running, TrayInv, WorkersFit, WorkerFits
  <2> HIDE DEF Running
  <2> QED BY <1>1, <2>1, <2>2 DEF TrayInv, MailFits
<1>4. ASSUME NEW r \in Posts, PostRun(r) PROVE MailFits'
  <2>1. UNCHANGED mail \/ (items' # items
          /\ mail' = mail \cup ({Len(items) + 1} \X PagesFor(posts[r].kind)))
    <3>1. CASE PagesFor(posts[r].kind) = {}
      BY <1>4, <3>1 DEF PostRun
    <3>2. CASE PagesFor(posts[r].kind) # {}
      <4> DEFINE x == NewItem(posts[r].kind, PagesFor(posts[r].kind),
                              Cardinality(PagesFor(posts[r].kind)))
      <4>1. /\ items' = Append(items, x)
            /\ mail' = mail \cup ({Len(items) + 1} \X PagesFor(posts[r].kind))
        BY <1>4, <3>2 DEF PostRun
      <4> HIDE DEF x
      <4>2. items \in Seq(ItemType) /\ items' \in Seq(ItemType)
        BY DEF TrayInv, ItemsFit, ItemsEvolve
      <4>3. Len(items) \in Nat /\ Len(items') = Len(items) + 1
        BY <4>1, <4>2
      <4> QED BY <4>1, <4>3
    <3> QED BY <3>1, <3>2
  <2>2. items' # items => Len(items) + 1 \in DOMAIN items'
    BY <1>4, PostRunKeepsItems DEF TrayInv
  <2> QED BY <1>1, <2>1, <2>2 DEF TrayInv, MailFits
<1>5. ASSUME NEW plan \in Plans, StartMulti(plan) PROVE MailFits'
  <2>1. mail' = mail \cup {<<Len(items) + 1, 0>>}
    BY <1>5 DEF StartMulti
  <2>2. Len(items) + 1 \in DOMAIN items'
    BY <1>5, StartMultiKeepsItems DEF TrayInv
  <2> QED BY <1>1, <2>1, <2>2 DEF TrayInv, MailFits
<1> QED BY <1>2, <1>3, <1>4, <1>5, MailCases

LEMMA OnePostMoves ==
  ASSUME PostsFit, DOMAIN items \subseteq DOMAIN items', NEW r \in Posts, DOMAIN posts' = Posts,
         \A q \in Posts : q # r => posts'[q] = posts[q], PostFits(posts[r])'
  PROVE  PostsFit'
  BY DEF PostsFit, PostFits

LEMMA PostsStillFit ==
  ASSUME TrayInv, ItemsEvolve, [TrayNext]_trayVars
  PROVE  PostsFit'
<1>1. DOMAIN items \subseteq DOMAIN items' /\ PostsFit
  BY DEF ItemsEvolve, TrayInv
<1>2. CASE UNCHANGED posts
  BY <1>1, <1>2 DEF PostsFit, PostFits
<1>3. ASSUME NEW r \in Posts, NEW k \in Kinds, PostCheck(r, k) PROVE PostsFit'
  <2>1. /\ DOMAIN posts' = Posts /\ \A q \in Posts : q # r => posts'[q] = posts[q]
        /\ posts'[r] = [pc |-> "run", kind |-> k, item |-> 0]
    BY <1>1, <1>3 DEF PostCheck, PostsFit
  <2>2. PostFits(posts[r])'
    BY <2>1 DEF PostFits
  <2> QED BY <1>1, <2>1, <2>2, OnePostMoves
<1>4. ASSUME NEW r \in Posts, PostRun(r) PROVE PostsFit'
  <2> DEFINE P == PagesFor(posts[r].kind)
  <2>1. PostFits(posts[r]) /\ DOMAIN posts = Posts
    BY <1>1 DEF PostsFit
  <2>2. CASE P = {}
    <3>1. /\ DOMAIN posts' = Posts /\ \A q \in Posts : q # r => posts'[q] = posts[q]
          /\ posts'[r] = [posts[r] EXCEPT !.pc = "idle"]
      BY <1>4, <2>1, <2>2 DEF PostRun
    <3>2. PostFits(posts[r])'
      BY <2>1, <3>1 DEF PostFits
    <3> QED BY <1>1, <3>1, <3>2, OnePostMoves
  <2>3. CASE P # {}
    <3> DEFINE i == Len(items) + 1  x == NewItem(posts[r].kind, P, Cardinality(P))
    <3>1. /\ DOMAIN posts' = Posts /\ \A q \in Posts : q # r => posts'[q] = posts[q]
          /\ posts'[r] = [posts[r] EXCEPT !.pc = "key", !.item = i]
          /\ items' = Append(items, x)
      BY <1>4, <2>1, <2>3 DEF PostRun
    <3> HIDE DEF x
    <3>2. items' # items
      <4>1. items \in Seq(ItemType) /\ items' \in Seq(ItemType)
        BY DEF TrayInv, ItemsFit, ItemsEvolve
      <4>2. Len(items) \in Nat /\ Len(items') = Len(items) + 1
        BY <3>1, <4>1
      <4> QED BY <4>2
    <3>3. i \in DOMAIN items'
      BY <1>4, <3>2, PostRunKeepsItems DEF TrayInv
    <3> HIDE DEF i
    <3>4. posts'[r].pc = "key" /\ posts'[r].item = i /\ DOMAIN posts'[r] = {"pc", "kind", "item"}
      BY <2>1, <3>1 DEF PostFits
    <3>5. PostFits(posts[r])'
      BY <3>3, <3>4 DEF PostFits
    <3> QED BY <1>1, <3>1, <3>5, OnePostMoves
  <2> QED BY <2>2, <2>3
<1>5. ASSUME NEW r \in Posts, AddRun(r) PROVE PostsFit'
  <2>1. PostFits(posts[r]) /\ DOMAIN posts = Posts
    BY <1>1 DEF PostsFit
  <2>2. /\ DOMAIN posts' = Posts /\ \A q \in Posts : q # r => posts'[q] = posts[q]
        /\ posts'[r] = [posts[r] EXCEPT !.pc = "idle"]
    BY <1>5, <2>1 DEF AddRun, PostKey
  <2>3. PostFits(posts[r])'
    BY <2>1, <2>2 DEF PostFits
  <2> QED BY <1>1, <2>2, <2>3, OnePostMoves
<1>6. ASSUME Step, ~UNCHANGED posts
      PROVE  \E r \in Posts : (\E k \in Kinds : PostCheck(r, k)) \/ PostRun(r)
  <2>1. ASSUME \/ \E k \in Kinds : StatusPoll(k)
               \/ \E w \in Workers, m \in mail : Receive(w, m)
               \/ \E w \in Workers : TaskStep(w)
               \/ \E w \in Workers : DeliverAgain(w) \/ Crash(w)
        PROVE  UNCHANGED posts
    BY <2>1 DEF StatusPoll, Receive, TaskStep, ResolveOcr, ResolveTranslation, Call,
                CallFails, CountPages, BookPage, DeliverAgain, Crash
  <2>2. ASSUME \/ \E a \in Actors : SaveStep(a)
               \/ \E p \in Pages : EditPage(p)
               \/ \E e \in Editors, p \in Pages, k \in Kinds : EditorAsks(e, p, k)
               \/ \E e \in Editors : EditorStep(e)
        PROVE  UNCHANGED posts
    BY <2>2 DEF SaveStep, Bump, InsertRevision, ReadCredit, Pay, EditPage, EditorAsks, EditorStep,
                EditorVersion, EditorLog
  <2> QED BY <1>6, <2>1, <2>2 DEF Step
<1>7. ASSUME TrayNext, ~Step, ~UNCHANGED posts PROVE \E r \in Posts : AddRun(r)
  <2>1. ASSUME NEW w \in Workers, MultiStep(w) PROVE UNCHANGED posts
    BY <2>1 DEF MultiStep, PlanMulti, NextPage, CloseDocument, ReportMulti, CloseJob
  <2>2. ASSUME PollStep \/ CancelStep PROVE UNCHANGED posts
    BY <2>2 DEF PollStep, CancelStep, PollRead, PollAsk, PollWrite, CancelRevoke, CancelState,
                CancelWrite, vars
  <2>3. ASSUME \/ \E plan \in Plans : StartMulti(plan)
               \/ \E i \in Items : GrowOld(i) \/ CancelRead(i)
               \/ \E w \in Workers, m \in mail : ReceiveMulti(w, m) \/ Discard(w, m)
        PROVE  UNCHANGED posts
    BY <2>3 DEF StartMulti, GrowOld, CancelRead, ReceiveMulti, Discard
  <2> QED BY <1>7, <2>1, <2>2, <2>3 DEF TrayNext
<1> QED BY <1>2, <1>3, <1>4, <1>5, <1>6, <1>7 DEF trayVars, vars

----------------------------------------------------------------------------
(* The list and the poll.                                                   *)

LEMMA AskedIsTrue ==
  ASSUME TrayInv, NEW i \in DOMAIN items
  PROVE  Says(i, Ask(i))
<1> SUFFICES ASSUME items[i].kind \in Work, Ask(i) = "completed", age[i] = 0 PROVE Over(i)
  BY DEF Says
<1>1. Ask(i) = AskGroup(i)
  BY DEF Ask, Work
<1> QED BY <1>1 DEF AskGroup, Verdict, AllSuccess, Over

LEMMA WatchStays ==
  ASSUME TrayInv, ItemsEvolve, UNCHANGED <<tray, poll>>, age' \in [Items -> Nat],
         \A i \in Items : age'[i] = 0 => age[i] = 0
  PROVE  TrayFits' /\ PollFits'
<1>1. DOMAIN items \subseteq DOMAIN items' /\ ItemsFit /\ TrayFits /\ PollFits
  BY DEF ItemsEvolve, TrayInv
<1>2. \A i \in Items : tray[i] \notin {"none", "cancelled"} => Says(i, tray[i])'
  <2> SUFFICES ASSUME NEW i \in Items, tray[i] \notin {"none", "cancelled"} PROVE Says(i, tray[i])'
    OBVIOUS
  <2>1. PICK v : v = tray[i]
    OBVIOUS
  <2>2. Says(i, v)
    BY <1>1, <2>1 DEF TrayFits
  <2>3. Says(i, v)'
    BY <1>1, <2>2, SaysStays
  <2> QED BY <2>1, <2>3 DEF Says
<1>3. poll.pc = "write" => \A i \in Items : poll.found[i] # "same" => Says(i, poll.found[i])'
  <2> SUFFICES ASSUME poll.pc = "write", NEW i \in Items, poll.found[i] # "same"
               PROVE  Says(i, poll.found[i])'
    OBVIOUS
  <2>1. PICK v : v = poll.found[i]
    OBVIOUS
  <2>2. Says(i, v)
    BY <1>1, <2>1 DEF PollFits
  <2>3. Says(i, v)'
    BY <1>1, <2>2, SaysStays
  <2> QED BY <2>1, <2>3 DEF Says
<1> QED BY <1>1, <1>2, <1>3 DEF TrayFits, PollFits

(* An entry is written that does not say completed.                         *)
LEMMA EntryIsWritten ==
  ASSUME TrayInv, ItemsEvolve, NEW n, NEW v \in {"pending", "cancelled"},
         tray' = [tray EXCEPT ![n] = v], v = "pending" => n \in DOMAIN items',
         UNCHANGED <<age, poll>>
  PROVE  TrayFits' /\ PollFits'
<1>1. TrayFits /\ PollFits /\ ItemsFit /\ DOMAIN items \subseteq DOMAIN items'
  BY DEF TrayInv, ItemsEvolve
<1>2. \A i \in Items : tray'[i] = IF i = n THEN v ELSE tray[i]
  BY <1>1 DEF TrayFits
<1>3. ASSUME NEW i \in Items, tray'[i] \notin {"none", "cancelled"} PROVE Says(i, tray[i])'
  <2>1. CASE i = n
    BY <1>2, <1>3, <2>1 DEF Says
  <2>2. CASE i # n
    <3>1. PICK u : u = tray[i]
      OBVIOUS
    <3>2. Says(i, u) /\ tray'[i] = u
      BY <1>1, <1>2, <1>3, <2>2, <3>1 DEF TrayFits
    <3>3. Says(i, u)'
      BY <1>1, <3>2, SaysStays
    <3> QED BY <3>2, <3>3 DEF Says
  <2> QED BY <2>1, <2>2
<1>4. poll.pc = "write" => \A i \in Items : poll.found[i] # "same" => Says(i, poll.found[i])'
  <2> SUFFICES ASSUME poll.pc = "write", NEW i \in Items, poll.found[i] # "same"
               PROVE  Says(i, poll.found[i])'
    OBVIOUS
  <2>1. PICK u : u = poll.found[i]
    OBVIOUS
  <2>2. Says(i, u)
    BY <1>1, <2>1 DEF PollFits
  <2>3. Says(i, u)'
    BY <1>1, <2>2, SaysStays
  <2> QED BY <2>1, <2>3 DEF Says
<1>5. DOMAIN tray' = Items /\ age' \in [Items -> Nat]
  BY <1>1 DEF TrayFits
<1> QED BY <1>1, <1>3, <1>4, <1>5 DEF TrayFits, PollFits

LEMMA PollStays ==
  ASSUME TrayInv, ItemsEvolve, PollStep
  PROVE  TrayFits' /\ PollFits'
<1>1. /\ TrayFits /\ PollFits /\ UNCHANGED <<items, age>>
      /\ \A i, v : Says(i, v)' <=> Says(i, v)
  BY DEF TrayInv, PollStep, PollRead, PollAsk, PollWrite, vars, Says, Over, Results
<1>2. CASE PollRead
  BY <1>1, <1>2 DEF PollRead, TrayFits, PollFits, Says, Open
<1>3. CASE PollAsk
  <2>1. ASSUME NEW i \in Items, poll.saw[i] \in Open PROVE Says(i, Ask(i))
    BY <1>1, <1>3, <2>1, AskedIsTrue DEF PollAsk, PollFits
  <2>2. \A i \in Items : poll'.found[i] = IF poll.saw[i] \in Open THEN Ask(i) ELSE "same"
    BY <1>3 DEF PollAsk
  <2>3. poll'.pc = "write" /\ UNCHANGED <<tray, age, items>>
    BY <1>1, <1>3 DEF PollAsk
  <2>4. ASSUME NEW i \in Items, poll'.found[i] # "same" PROVE Says(i, poll.found[i])'
    <3>1. Says(i, Ask(i)) /\ poll'.found[i] = Ask(i)
      BY <2>1, <2>2, <2>4
    <3>2. Says(i, poll'.found[i])
      BY <3>1
    <3> QED BY <2>3, <3>2 DEF Says, Over, Results
  <2>5. TrayFits'
    BY <1>1, <2>3 DEF TrayFits, Says, Over, Results
  <2> QED BY <2>3, <2>4, <2>5 DEF PollFits
<1>4. CASE PollWrite
  <2>1. \A i \in Items : tray'[i] = IF poll.found[i] = "same" THEN tray[i] ELSE poll.found[i]
    BY <1>4 DEF PollWrite
  <2>2. DOMAIN tray' = Items /\ poll'.pc = "idle"
    BY <1>4 DEF PollWrite, Quiet
  <2>3. ASSUME NEW i \in Items, tray'[i] \notin {"none", "cancelled"} PROVE Says(i, tray[i])'
    <3>1. Says(i, tray'[i])
      BY <1>1, <1>4, <2>1, <2>3 DEF PollWrite, TrayFits, PollFits
    <3> QED BY <1>1, <3>1 DEF Says, Over, Results
  <2> QED BY <1>1, <2>2, <2>3 DEF TrayFits, PollFits
<1> QED BY <1>2, <1>3, <1>4 DEF PollStep

LEMMA ListStillFits ==
  ASSUME TrayInv, ItemsEvolve, [TrayNext]_trayVars
  PROVE  TrayFits' /\ PollFits'
<1>1. age \in [Items -> Nat]
  BY DEF TrayInv, TrayFits
<1>2. ASSUME UNCHANGED <<tray, age, poll>> PROVE TrayFits' /\ PollFits'
  BY <1>1, <1>2, WatchStays
<1>3. ASSUME NEW r \in Posts, AddRun(r) PROVE TrayFits' /\ PollFits'
  <2>1. posts[r].item \in DOMAIN items /\ DOMAIN items \subseteq DOMAIN items'
    BY <1>3 DEF AddRun, PostKey, TrayInv, PostsFit, PostFits, ItemsEvolve
  <2> DEFINE n == posts[r].item
  <2>2. tray' = [tray EXCEPT ![n] = "pending"] /\ UNCHANGED <<age, poll>> /\ n \in DOMAIN items'
    BY <1>3, <2>1 DEF AddRun
  <2> HIDE DEF n
  <2> QED BY <2>2, EntryIsWritten
<1>4. ASSUME NEW plan \in Plans, StartMulti(plan) PROVE TrayFits' /\ PollFits'
  <2> DEFINE n == Len(items) + 1
  <2>1. tray' = [tray EXCEPT ![n] = "pending"] /\ UNCHANGED <<age, poll>>
    BY <1>4 DEF StartMulti
  <2>2. n \in DOMAIN items'
    BY <1>4, StartMultiKeepsItems DEF TrayInv
  <2> HIDE DEF n
  <2> QED BY <2>1, <2>2, EntryIsWritten
<1>5. ASSUME NEW i \in Items, GrowOld(i) PROVE TrayFits' /\ PollFits'
  <2>1. age' = [age EXCEPT ![i] = @ + 1] /\ UNCHANGED <<tray, poll>>
    BY <1>5 DEF GrowOld
  <2>2. age' \in [Items -> Nat] /\ \A j \in Items : age'[j] = 0 => age[j] = 0
    BY <1>1, <2>1
  <2> QED BY <2>1, <2>2, WatchStays
<1>6. CASE CancelStep
  <2>1. CASE CancelWrite
    <3> DEFINE n == cancel.item
    <3>1. tray' = [tray EXCEPT ![n] = "cancelled"] /\ UNCHANGED <<age, poll>>
      BY <2>1 DEF CancelWrite
    <3> HIDE DEF n
    <3> QED BY <3>1, EntryIsWritten
  <2>2. CASE CancelRevoke \/ CancelState
    BY <1>2, <2>2 DEF CancelRevoke, CancelState
  <2> QED BY <1>6, <2>1, <2>2 DEF CancelStep
<1>7. ASSUME \/ Step /\ UNCHANGED watch
             \/ \E i \in Items : CancelRead(i)
             \/ \E w \in Workers : MultiStep(w)
             \/ \E w \in Workers, m \in mail : ReceiveMulti(w, m) \/ Discard(w, m)
      PROVE  UNCHANGED <<tray, age, poll>>
  BY <1>7 DEF watch, CancelRead, MultiStep, PlanMulti, NextPage, CloseDocument, ReportMulti,
              CloseJob, ReceiveMulti, Discard
<1> QED BY <1>2, <1>3, <1>4, <1>5, <1>6, <1>7, PollStays DEF TrayNext, trayVars, watch

----------------------------------------------------------------------------
(* The workers and the editor requests.                                     *)

PageSteps == {"resolve", "call", "bump", "insert", "credit", "pay", "count", "book"}

LEMMA OneActs ==
  ASSUME TrayInv, ItemsEvolve, NeedsLess, NEW a \in Actors, DOMAIN act' = Actors,
         \A b \in Actors : b # a => act'[b] = act[b],
         Record(act[a])', a \in Workers => WorkerFits(act[a])'
  PROVE  RecordsFit' /\ WorkersFit'
<1>1. RecordsFit /\ WorkersFit
  BY DEF TrayInv
<1>2. RecordsFit'
  BY <1>1 DEF RecordsFit, Record
<1>3. ASSUME NEW w \in Workers, w # a PROVE WorkerFits(act[w])'
  <2>1. act'[w] = act[w] /\ WorkerFits(act[w])
    BY <1>1, <1>3 DEF WorkersFit, Actors
  <2> QED BY <2>1 DEF WorkerFits, Reading, MultiSteps, ItemsEvolve, Evolves, NeedsLess
<1> QED BY <1>2, <1>3 DEF WorkersFit

LEMMA NobodyActs ==
  ASSUME TrayInv, ItemsEvolve, NeedsLess, UNCHANGED act
  PROVE  RecordsFit' /\ WorkersFit'
<1>1. RecordsFit /\ WorkersFit
  BY DEF TrayInv
<1>2. ASSUME NEW w \in Workers PROVE WorkerFits(act[w])'
  <2>1. act'[w] = act[w] /\ WorkerFits(act[w])
    BY <1>1 DEF WorkersFit
  <2> QED BY <2>1 DEF WorkerFits, Reading, MultiSteps, ItemsEvolve, Evolves, NeedsLess
<1> QED BY <1>1, <1>2 DEF RecordsFit, Record, WorkersFit

LEMMA RestFits ==
  /\ Record(Idle)
  /\ \A w : act'[w] = Idle => WorkerFits(act[w])'
  BY DEF Record, Idle, Fields, WorkerFits, Reading, MultiSteps

(* A page task goes from one of its steps to the next.                      *)
LEMMA PageGoesOn ==
  ASSUME TrayInv, ItemsEvolve, NeedsLess, NEW w \in Workers,
         act[w].pc \in PageSteps, act'[w].pc \in PageSteps,
         act'[w].item = act[w].item, act'[w].errs = act[w].errs, act'[w].todo = act[w].todo,
         act'[w].page = act[w].page, act'[w].kind = act[w].kind,
         \/ act'[w].pc = "call"
         \/ act[w].pc \notin {"resolve", "call"}
         \/ act[w].kind # "ocr"
         \/ \A p \in Pages : p = act[w].page => ~Needs(p, "ocr")'
  PROVE  WorkerFits(act[w])'
<1>1. /\ act[w].item \in DOMAIN items /\ Reading(act[w])
      /\ items'[act[w].item].kind = items[act[w].item].kind
      /\ items'[act[w].item].plan = items[act[w].item].plan
      /\ act[w].item \in DOMAIN items'
  BY DEF TrayInv, WorkersFit, WorkerFits, PageSteps, ItemsEvolve, Evolves
<1>2. Reading(act[w])'
  <2> SUFFICES ASSUME act[w].errs = 0, items[act[w].item].kind = "multi",
                      "ocr" \in items[act[w].item].plan, NEW p \in Pages, Needs(p, "ocr")'
               PROVE  \/ <<"ocr", p>> \in act[w].todo
                      \/ /\ act[w].page = p /\ act[w].kind = "ocr"
                         /\ act'[w].pc \in {"resolve", "call"}
    BY <1>1 DEF Reading
  <2>1. Needs(p, "ocr") /\ act[w].pc \notin {"idle", "plan"}
    BY DEF NeedsLess, PageSteps
  <2>2. \/ <<"ocr", p>> \in act[w].todo
        \/ act[w].page = p /\ act[w].kind = "ocr" /\ act[w].pc \in {"resolve", "call"}
    BY <1>1, <2>1 DEF Reading
  <2> QED BY <2>2
<1> QED BY <1>1, <1>2 DEF WorkerFits, PageSteps, MultiSteps

(* It ends: a multi-batch goes on to its next page.                         *)
LEMMA TaskEnds ==
  ASSUME TrayInv, ItemsEvolve, NeedsLess, NEW w \in Workers, act[w].pc \in PageSteps,
         NEW o \in {"SUCCESS", "FAILURE"}, Ends(w, o),
         o = "SUCCESS" => act[w].kind # "ocr" \/ act[w].pc \notin {"resolve", "call"}
  PROVE  RecordsFit' /\ WorkersFit'
<1> DEFINE x == act[w]
<1>1. /\ RecordsFit /\ Record(x) /\ WorkerFits(x) /\ w \in Actors
  BY DEF TrayInv, RecordsFit, WorkersFit, Actors
<1>2. CASE items[x.item].kind # "multi"
  <2>1. /\ DOMAIN act' = Actors /\ act'[w] = Idle
        /\ \A b \in Actors : b # w => act'[b] = act[b]
    BY <1>1, <1>2 DEF Ends, RecordsFit
  <2> QED BY <1>1, <2>1, RestFits, OneActs DEF Record
<1>3. CASE items[x.item].kind = "multi"
  <2> DEFINE n == IF o = "SUCCESS" THEN 0 ELSE 1
  <2>a. act' = [act EXCEPT ![w].pc = "next", ![w].errs = @ + n]
    BY <1>3 DEF Ends
  <2>b. n = IF o = "SUCCESS" THEN 0 ELSE 1
    OBVIOUS
  <2> HIDE DEF n
  <2>1. DOMAIN act' = Actors /\ \A b \in Actors : b # w => act'[b] = act[b]
    BY <1>1, <2>a DEF RecordsFit
  <2>2. /\ DOMAIN act'[w] = Fields /\ act'[w].pc = "next" /\ act'[w].item = x.item
        /\ act'[w].todo = x.todo /\ act'[w].close = x.close /\ act'[w].errs \in Nat
        /\ act'[w].errs = IF o = "SUCCESS" THEN x.errs ELSE x.errs + 1
    <3>1. w \in DOMAIN act
      BY <1>1 DEF RecordsFit
    <3>2. act'[w] = [act[w] EXCEPT !.pc = "next", !.errs = @ + n]
      BY <2>a, <3>1
    <3>3. /\ DOMAIN act'[w] = Fields /\ act'[w].pc = "next" /\ act'[w].item = x.item
          /\ act'[w].todo = x.todo /\ act'[w].close = x.close /\ act'[w].errs = x.errs + n
      BY <1>1, <3>2 DEF Record, Fields
    <3> QED BY <1>1, <2>b, <3>3 DEF Record
  <2>3. Record(x)'
    BY <1>1, <2>2 DEF Record
  <2>4. x.item \in DOMAIN items /\ x.item \in DOMAIN items' /\ items'[x.item].kind = "multi"
        /\ items'[x.item].plan = items[x.item].plan
    BY <1>1, <1>3 DEF WorkerFits, PageSteps, ItemsEvolve, Evolves
  <2>5. Reading(x)'
    <3>1. CASE o = "FAILURE"
      BY <1>1, <2>2, <3>1 DEF Reading, Record
    <3>2. CASE o = "SUCCESS"
      BY <1>1, <1>3, <2>2, <2>4, <3>2 DEF Reading, WorkerFits, NeedsLess, PageSteps
    <3> QED BY <3>1, <3>2
  <2>6. WorkerFits(x)'
    BY <2>2, <2>4, <2>5 DEF WorkerFits
  <2> QED BY <1>1, <2>1, <2>3, <2>6, OneActs
<1> QED BY <1>2, <1>3

(* Record y stands for the same task as record x.                           *)
SameTask(x, y) ==
  /\ DOMAIN y = Fields /\ y.close \in BOOLEAN
  /\ y.item = x.item /\ y.errs = x.errs /\ y.todo = x.todo
  /\ y.page = x.page /\ y.kind = x.kind

(* One record moves on, a worker's within its page task.                    *)
LEMMA ActorGoesOn ==
  ASSUME TrayInv, ItemsEvolve, NeedsLess, NEW a \in Actors, NEW y, act' = [act EXCEPT ![a] = y],
         SameTask(act[a], y),
         a \in Workers =>
           /\ act[a].pc \in PageSteps /\ y.pc \in PageSteps
           /\ \/ y.pc = "call"
              \/ act[a].pc \notin {"resolve", "call"}
              \/ act[a].kind # "ocr"
              \/ \A p \in Pages : p = act[a].page => ~Needs(p, "ocr")'
  PROVE  RecordsFit' /\ WorkersFit'
<1>1. RecordsFit /\ Record(act[a]) /\ DOMAIN act = Actors
  BY DEF TrayInv, RecordsFit
<1>2. DOMAIN act' = Actors /\ act'[a] = y /\ \A b \in Actors : b # a => act'[b] = act[b]
  BY <1>1
<1>3. Record(act[a])'
  BY <1>1, <1>2 DEF Record, SameTask
<1>4. a \in Workers => WorkerFits(act[a])'
  BY <1>2, PageGoesOn DEF SameTask
<1> QED BY <1>2, <1>3, <1>4, OneActs

(* The steps of a worker in a page task.                                    *)
LEMMA TaskStepFits ==
  ASSUME TrayInv, ItemsEvolve, NeedsLess, NEW w \in Workers, TaskStep(w)
  PROVE  RecordsFit' /\ WorkersFit'
<1> DEFINE x == act[w]
<1>1. /\ RecordsFit /\ Record(x) /\ WorkerFits(x) /\ w \in Actors /\ DOMAIN act = Actors
  BY DEF TrayInv, RecordsFit, WorkersFit, Actors
<1>3. ASSUME NEW o \in {"SUCCESS", "FAILURE"}, Ends(w, o), x.pc \in PageSteps,
             o = "SUCCESS" => x.kind # "ocr" \/ x.pc \notin {"resolve", "call"}
      PROVE  RecordsFit' /\ WorkersFit'
  BY <1>3, TaskEnds
<1>4. CASE ResolveOcr(w)
  <2>1. x.pc = "resolve"
    BY <1>4 DEF ResolveOcr
  <2>2. CASE Done(x.page, x.kind) /\ Go(w, "count")
    <3> DEFINE y == [x EXCEPT !.pc = "count"]
    <3>1. act' = [act EXCEPT ![w] = y]
      BY <2>2 DEF Go
    <3>2. x.kind = "ocr" => \A p \in Pages : p = x.page => ~Needs(p, "ocr")'
      BY <2>2 DEF Done, Needs, NeedsLess
    <3>3. SameTask(x, y) /\ y.pc = "count"
      BY <1>1 DEF Record, Fields, SameTask
    <3> HIDE DEF y
    <3> QED BY <1>1, ActorGoesOn, <2>1, <3>1, <3>2, <3>3 DEF PageSteps
  <2>3. CASE act' = [act EXCEPT ![w].pc = "call", ![w].pv = ver[x.page][x.kind]]
    <3> DEFINE v == ver[x.page][x.kind]
               y == [[x EXCEPT !.pc = "call"] EXCEPT !.pv = v]
    <3>1. act' = [act EXCEPT ![w] = y]
      BY <1>1, <2>3
    <3> HIDE DEF v
    <3>2. SameTask(x, y) /\ y.pc = "call"
      BY <1>1 DEF Record, Fields, SameTask
    <3> HIDE DEF y
    <3> QED BY <1>1, ActorGoesOn, <2>1, <3>1, <3>2 DEF PageSteps
  <2>4. CASE Ends(w, "FAILURE")
    BY <1>3, <2>1, <2>4 DEF PageSteps
  <2> QED BY <1>4, <2>2, <2>3, <2>4 DEF ResolveOcr
<1>5. CASE ResolveTranslation(w)
  <2>1. x.pc = "resolve" /\ x.kind = "translation"
    BY <1>5 DEF ResolveTranslation
  <2>2. CASE Go(w, "count")
    <3> DEFINE y == [x EXCEPT !.pc = "count"]
    <3>1. act' = [act EXCEPT ![w] = y]
      BY <2>2 DEF Go
    <3>2. SameTask(x, y) /\ y.pc = "count"
      BY <1>1 DEF Record, Fields, SameTask
    <3> HIDE DEF y
    <3> QED BY <1>1, ActorGoesOn, <2>1, <3>1, <3>2 DEF PageSteps
  <2>3. CASE act' = [act EXCEPT ![w].pc = "call", ![w].src = Len(revs[x.page])]
    <3> DEFINE v == Len(revs[x.page])
               y == [[x EXCEPT !.pc = "call"] EXCEPT !.src = v]
    <3>1. act' = [act EXCEPT ![w] = y]
      BY <1>1, <2>3
    <3> HIDE DEF v
    <3>2. SameTask(x, y) /\ y.pc = "call"
      BY <1>1 DEF Record, Fields, SameTask
    <3> HIDE DEF y
    <3> QED BY <1>1, ActorGoesOn, <2>1, <3>1, <3>2 DEF PageSteps
  <2>4. CASE Ends(w, "FAILURE")
    BY <1>3, <2>1, <2>4 DEF PageSteps
  <2> QED BY <1>5, <2>2, <2>3, <2>4 DEF ResolveTranslation
<1>6. CASE Call(w)
  <2>1. x.pc = "call"
    BY <1>6 DEF Call
  <2>2. CASE Ends(w, "FAILURE")
    BY <1>3, <2>1, <2>2 DEF PageSteps
  <2>3. CASE ~Ends(w, "FAILURE")
    <3> DEFINE v == IF x.kind = "translation" THEN ver[x.page][x.kind] ELSE x.pv
               y == [[x EXCEPT !.pc = "bump"] EXCEPT !.pv = v]
    <3>1. act' = [act EXCEPT ![w] = y]
      <4>1. act' = [act EXCEPT ![w].pc = "bump",
                               ![w].pv = IF x.kind = "translation" THEN ver[x.page][x.kind] ELSE @]
        BY <1>6, <2>3 DEF Call
      <4> QED BY <1>1, <4>1 DEF Record, Fields
    <3>2. x.kind = "ocr" => \A p \in Pages : p = x.page => ~Needs(p, "ocr")'
      BY <1>6, <2>3 DEF Call, Needs
    <3> HIDE DEF v
    <3>3. SameTask(x, y) /\ y.pc = "bump"
      BY <1>1 DEF Record, Fields, SameTask
    <3> HIDE DEF y
    <3> QED BY <1>1, ActorGoesOn, <2>1, <3>1, <3>2, <3>3 DEF PageSteps
  <2> QED BY <2>2, <2>3
<1>7. CASE CallFails(w)
  <2>1. x.pc = "call" /\ \/ x.kind = "translation" /\ Ends(w, "SUCCESS")
                         \/ Ends(w, "FAILURE")
    BY <1>7 DEF CallFails
  <2> QED BY <1>3, <2>1 DEF PageSteps
<1>8. CASE CountPages(w)
  <2> DEFINE b == BookedOn(x.kind)
             c == Cardinality(Completed(b) \cup {x.page}) >= items[b].total
             y == [[[x EXCEPT !.pc = "book"] EXCEPT !.book = b] EXCEPT !.close = c]
  <2>1. x.pc = "count" /\ act' = [act EXCEPT ![w] = y]
    <3>1. x.pc = "count" /\ act' = [act EXCEPT ![w].pc = "book", ![w].book = b, ![w].close = c]
      BY <1>8 DEF CountPages
    <3> HIDE DEF b, c
    <3> QED BY <1>1, <3>1
  <2>2. c \in BOOLEAN
    OBVIOUS
  <2> HIDE DEF b, c
  <2>3. SameTask(x, y) /\ y.pc = "book"
    BY <1>1, <2>2 DEF Record, Fields, SameTask
  <2> HIDE DEF y
  <2> QED BY <1>1, ActorGoesOn, <2>1, <2>3 DEF PageSteps
<1>9. CASE BookPage(w)
  <2>1. x.pc = "book"
    BY <1>9 DEF BookPage
  <2>2. CASE items[x.item].kind # "multi"
    <3>1. /\ DOMAIN act' = Actors /\ act'[w] = Idle
          /\ \A b \in Actors : b # w => act'[b] = act[b]
      BY <1>1, <1>9, <2>2 DEF BookPage
    <3> QED BY <1>1, <3>1, RestFits, OneActs DEF Record
  <2>3. CASE items[x.item].kind = "multi"
    <3> DEFINE y == [x EXCEPT !.pc = "next"]
    <3>1. act' = [act EXCEPT ![w] = y]
      BY <1>9, <2>3 DEF BookPage, Go
    <3>2. /\ DOMAIN act' = Actors /\ act'[w] = y
          /\ \A b \in Actors : b # w => act'[b] = act[b]
      <4> HIDE DEF y
      <4> QED BY <1>1, <3>1
    <3>3. /\ DOMAIN y = Fields /\ y.close \in BOOLEAN /\ y.pc = "next"
          /\ y.item = x.item /\ y.errs = x.errs /\ y.todo = x.todo
      BY <1>1 DEF Record, Fields
    <3> HIDE DEF y
    <3>4. Record(act[w])'
      BY <1>1, <3>2, <3>3 DEF Record
    <3>5. x.item \in DOMAIN items /\ x.item \in DOMAIN items' /\ items'[x.item].kind = "multi"
          /\ items'[x.item].plan = items[x.item].plan
      BY <1>1, <2>1, <2>3 DEF WorkerFits, ItemsEvolve, Evolves
    <3>6. Reading(x)'
      BY <1>1, <2>1, <2>3, <3>2, <3>3, <3>5 DEF Reading, WorkerFits, NeedsLess
    <3>7. WorkerFits(act[w])'
      BY <3>2, <3>3, <3>5, <3>6 DEF WorkerFits
    <3> QED BY <1>1, <3>2, <3>4, <3>7, OneActs
  <2> QED BY <2>2, <2>3
<1> QED BY <1>4, <1>5, <1>6, <1>7, <1>8, <1>9 DEF TaskStep

(* A save, by a worker or by an editor request.                             *)
LEMMA SaveStepFits ==
  ASSUME TrayInv, ItemsEvolve, NeedsLess, NEW a \in Actors, SaveStep(a)
  PROVE  RecordsFit' /\ WorkersFit'
<1> DEFINE x == act[a]
<1>1. /\ RecordsFit /\ Record(x) /\ DOMAIN act = Actors
  BY DEF TrayInv, RecordsFit
<1>2. ASSUME NEW v, act' = [act EXCEPT ![a].pc = v], x.pc \in {"bump", "insert", "credit", "pay"},
             a \in Workers => v \in PageSteps
      PROVE  RecordsFit' /\ WorkersFit'
  <2> DEFINE y == [x EXCEPT !.pc = v]
  <2>1. act' = [act EXCEPT ![a] = y]
    BY <1>2
  <2>2. SameTask(x, y) /\ y.pc = v
    BY <1>1 DEF Record, Fields, SameTask
  <2> HIDE DEF y
  <2>3. x.pc \in PageSteps /\ x.pc \notin {"resolve", "call"}
    BY <1>2 DEF PageSteps
  <2> QED BY <1>2, <2>1, <2>2, <2>3, ActorGoesOn
<1>3. CASE Bump(a)
  <2>1. x.pc = "bump"
    BY <1>3 DEF Bump
  <2>2. CASE Go(a, "insert")
    BY <1>2, <2>1, <2>2 DEF Go, PageSteps
  <2>3. CASE a \in Workers /\ Ends(a, "FAILURE")
    BY <2>1, <2>3, TaskEnds DEF PageSteps
  <2>4. CASE a \notin Workers /\ act' = [act EXCEPT ![a] = Idle]
    <3>1. DOMAIN act' = Actors /\ act'[a] = Idle /\ \A b \in Actors : b # a => act'[b] = act[b]
      BY <1>1, <2>4
    <3> QED BY <2>4, <3>1, RestFits, OneActs DEF Record
  <2> QED BY <1>3, <2>2, <2>3, <2>4 DEF Bump
<1>4. CASE InsertRevision(a)
  <2>1. x.pc = "insert" /\ Go(a, IF a \in Workers THEN "credit" ELSE "log")
    BY <1>4 DEF InsertRevision
  <2> QED BY <1>2, <2>1 DEF Go, PageSteps
<1>5. CASE Pay(a)
  <2>1. x.pc = "pay" /\ Go(a, IF a \in Workers THEN "count" ELSE "version")
    BY <1>5 DEF Pay
  <2> QED BY <1>2, <2>1 DEF Go, PageSteps
<1>6. CASE ReadCredit(a)
  <2> DEFINE v == used[SortOf(x.kind)]
             y == [[x EXCEPT !.pc = "pay"] EXCEPT !.seen = v]
  <2>1. x.pc = "credit" /\ act' = [act EXCEPT ![a] = y]
    <3>1. x.pc = "credit" /\ act' = [act EXCEPT ![a].pc = "pay", ![a].seen = v]
      BY <1>6 DEF ReadCredit
    <3> HIDE DEF v
    <3> QED BY <1>1, <3>1
  <2> HIDE DEF v
  <2>2. SameTask(x, y) /\ y.pc = "pay"
    BY <1>1 DEF Record, Fields, SameTask
  <2> HIDE DEF y
  <2> QED BY <2>1, <2>2, ActorGoesOn DEF PageSteps
<1> QED BY <1>3, <1>4, <1>5, <1>6 DEF SaveStep

(* The editor's own steps, and a message taken by a worker.                 *)
LEMMA EditorFits ==
  ASSUME TrayInv, ItemsEvolve, NeedsLess, NEW e \in Editors,
         EditorStep(e) \/ \E p \in Pages, k \in Kinds : EditorAsks(e, p, k)
  PROVE  RecordsFit' /\ WorkersFit'
<1>1. /\ e \in Actors /\ e \notin Workers /\ DOMAIN act = Actors /\ Record(act[e])
  BY ConstantsAssumption DEF TrayInv, RecordsFit, Actors
<1>2. PICK y : act' = [act EXCEPT ![e] = y] /\ Record(y)
  <2>1. CASE EditorVersion(e)
    <3> DEFINE v == ver[act[e].page][act[e].kind]  x == act[e]
               y == [[x EXCEPT !.pc = "bump"] EXCEPT !.pv = v]
    <3>1. act' = [act EXCEPT ![e] = y]
      <4>1. act' = [act EXCEPT ![e].pc = "bump", ![e].pv = v]
        BY <2>1 DEF EditorVersion
      <4> HIDE DEF v
      <4> QED BY <1>1, <4>1
    <3> HIDE DEF v
    <3>2. Record(y)
      BY <1>1 DEF Record, Fields
    <3> QED BY <3>1, <3>2
  <2>2. CASE EditorLog(e)
    BY <2>2, RestFits DEF EditorLog
  <2>3. ASSUME NEW p \in Pages, NEW k \in Kinds, EditorAsks(e, p, k)
        PROVE  \E y : act' = [act EXCEPT ![e] = y] /\ Record(y)
    <3> DEFINE y == [Idle EXCEPT !.pc = "credit", !.kind = k, !.page = p]
    <3>1. act' = [act EXCEPT ![e] = y]
      BY <2>3 DEF EditorAsks
    <3>2. Record(y)
      BY DEF Idle, Record, Fields
    <3> QED BY <3>1, <3>2
  <2> QED BY <2>1, <2>2, <2>3 DEF EditorStep
<1>3. DOMAIN act' = Actors /\ act'[e] = y /\ \A b \in Actors : b # e => act'[b] = act[b]
  BY <1>1, <1>2
<1>4. Record(act[e])'
  BY <1>2, <1>3 DEF Record
<1> QED BY <1>1, <1>3, <1>4, OneActs

LEMMA ReceiveFits ==
  ASSUME TrayInv, ItemsEvolve, NeedsLess, NEW w \in Workers, NEW m \in mail,
         Receive(w, m) \/ ReceiveMulti(w, m)
  PROVE  RecordsFit' /\ WorkersFit'
<1>1. /\ w \in Actors /\ DOMAIN act = Actors /\ m[1] \in DOMAIN items /\ m[1] \in DOMAIN items'
      /\ items'[m[1]].kind = items[m[1]].kind
  BY DEF TrayInv, RecordsFit, Actors, MailFits, ItemsEvolve, Evolves
<1>2. CASE Receive(w, m)
  <2> DEFINE k == items[m[1]].kind  i == m[1]  p == m[2]
             y == [Idle EXCEPT !.pc = "resolve", !.item = i, !.kind = k, !.page = p]
  <2>1. act' = [act EXCEPT ![w] = y] /\ k # "multi"
    BY <1>2 DEF Receive
  <2>2. items'[i].kind # "multi" /\ i \in DOMAIN items'
    BY <1>1, <2>1
  <2> HIDE DEF k, i, p
  <2>3. Record(y) /\ y.pc = "resolve" /\ y.item = i
    BY DEF Idle, Record, Fields
  <2> HIDE DEF y
  <2>4. DOMAIN act' = Actors /\ act'[w] = y /\ \A b \in Actors : b # w => act'[b] = act[b]
    BY <1>1, <2>1
  <2>5. Record(act[w])' /\ WorkerFits(act[w])'
    BY <2>2, <2>3, <2>4 DEF Record, WorkerFits, Reading, MultiSteps
  <2> QED BY <1>1, <2>4, <2>5, OneActs
<1>3. CASE ReceiveMulti(w, m)
  <2> DEFINE i == m[1]
             y == [Idle EXCEPT !.pc = "plan", !.item = i]
  <2>1. act' = [act EXCEPT ![w] = y]
    BY <1>3 DEF ReceiveMulti
  <2>2. items'[i].kind = "multi" /\ i \in DOMAIN items'
    BY <1>1, <1>3 DEF ReceiveMulti
  <2> HIDE DEF i
  <2>3. Record(y) /\ y.pc = "plan" /\ y.item = i
    BY DEF Idle, Record, Fields
  <2> HIDE DEF y
  <2>4. DOMAIN act' = Actors /\ act'[w] = y /\ \A b \in Actors : b # w => act'[b] = act[b]
    BY <1>1, <2>1
  <2>5. Record(act[w])' /\ WorkerFits(act[w])'
    BY <2>2, <2>3, <2>4 DEF Record, WorkerFits, Reading, MultiSteps
  <2> QED BY <1>1, <2>4, <2>5, OneActs
<1> QED BY <1>2, <1>3

(* The steps of a multi-batch between its pages.                            *)
LEMMA MultiStepFits ==
  ASSUME TrayInv, ItemsEvolve, NeedsLess, NEW w \in Workers, MultiStep(w)
  PROVE  RecordsFit' /\ WorkersFit'
<1> DEFINE x == act[w]
<1>1. /\ Record(x) /\ WorkerFits(x) /\ w \in Actors /\ DOMAIN act = Actors
  BY DEF TrayInv, RecordsFit, WorkersFit, Actors
<1>2. x.pc \in MultiSteps
  BY DEF MultiStep, PlanMulti, NextPage, CloseDocument, ReportMulti, CloseJob, MultiSteps
<1>3. /\ x.item \in DOMAIN items /\ x.item \in DOMAIN items'
      /\ items[x.item].kind = "multi" /\ items'[x.item].kind = "multi"
      /\ items'[x.item].plan = items[x.item].plan
  BY <1>1, <1>2 DEF WorkerFits, MultiSteps, ItemsEvolve, Evolves
<1>4. ASSUME NEW y, act' = [act EXCEPT ![w] = y], Record(y), y.item = x.item,
             y.pc \in {"skip", "report", "job"} => y.todo = {},
             "ocr" \in items[x.item].plan /\ y.pc # "plan" /\ y.errs = 0
             => \A p \in Pages : Needs(p, "ocr") =>
                  \/ <<"ocr", p>> \in y.todo
                  \/ y.page = p /\ y.kind = "ocr" /\ y.pc \in {"resolve", "call"}
      PROVE  RecordsFit' /\ WorkersFit'
  <2>1. DOMAIN act' = Actors /\ act'[w] = y /\ \A b \in Actors : b # w => act'[b] = act[b]
    BY <1>1, <1>4
  <2>2. Record(act[w])'
    BY <1>4, <2>1 DEF Record
  <2>3. Reading(act[w])'
    BY <1>3, <1>4, <2>1 DEF Reading, NeedsLess
  <2>4. WorkerFits(act[w])'
    BY <1>3, <1>4, <2>1, <2>3 DEF WorkerFits
  <2> QED BY <1>1, <2>1, <2>2, <2>4, OneActs
<1>5. CASE PlanMulti(w)
  <2> DEFINE todo == ToDo(items[x.item].plan)
             v == IF todo = {} THEN "skip" ELSE "next"
             y == [[x EXCEPT !.todo = todo] EXCEPT !.pc = v]
  <2>1. act' = [act EXCEPT ![w] = y]
    <3>1. act' = [act EXCEPT ![w].todo = todo, ![w].pc = v]
      BY <1>5 DEF PlanMulti
    <3> HIDE DEF todo, v
    <3> QED BY <1>1, <3>1
  <2>2. "ocr" \in items[x.item].plan => \A p \in Pages : Needs(p, "ocr") => <<"ocr", p>> \in todo
    BY DEF ToDo
  <2>3. v \in {"skip", "next"} /\ (v = "skip" => todo = {})
    OBVIOUS
  <2> HIDE DEF todo, v
  <2>4. Record(y) /\ y.item = x.item /\ y.todo = todo /\ y.pc = v
    BY <1>1 DEF Record, Fields
  <2> HIDE DEF y
  <2> QED BY <1>4, <2>1, <2>2, <2>3, <2>4
<1>6. CASE NextPage(w)
  <2>1. PICK t \in x.todo :
          act' = [act EXCEPT ![w] = [Idle EXCEPT
                    !.pc = "resolve", !.item = x.item, !.errs = x.errs,
                    !.kind = t[1], !.page = t[2], !.todo = x.todo \ {t}]]
    BY <1>6 DEF NextPage
  <2> DEFINE k == t[1]  p == t[2]  rest == x.todo \ {t}
             y == [Idle EXCEPT !.pc = "resolve", !.item = x.item, !.errs = x.errs,
                     !.kind = k, !.page = p, !.todo = rest]
  <2>2. act' = [act EXCEPT ![w] = y]
    BY <2>1
  <2>3. \A q : <<"ocr", q>> \in x.todo => <<"ocr", q>> \in rest \/ (k = "ocr" /\ p = q)
    OBVIOUS
  <2> HIDE DEF k, p, rest
  <2>4. /\ Record(y) /\ y.item = x.item /\ y.todo = rest /\ y.pc = "resolve" /\ y.errs = x.errs
        /\ y.kind = k /\ y.page = p
    BY <1>1 DEF Idle, Record, Fields
  <2> HIDE DEF y
  <2>5. x.pc = "next" /\ Reading(x)
    BY <1>1, <1>6 DEF NextPage, WorkerFits
  <2>6. "ocr" \in items[x.item].plan /\ x.errs = 0
        => \A q \in Pages : Needs(q, "ocr") => <<"ocr", q>> \in x.todo
    BY <1>3, <2>5 DEF Reading
  <2> QED BY <1>4, <2>2, <2>3, <2>4, <2>6
<1>7. ASSUME NEW v \in {"report", "job"}, Go(w, v), x.pc \in {"skip", "next", "report"}, x.todo = {}
      PROVE  RecordsFit' /\ WorkersFit'
  <2> DEFINE y == [x EXCEPT !.pc = v]
  <2>1. act' = [act EXCEPT ![w] = y]
    BY <1>7 DEF Go
  <2>2. /\ Record(y) /\ y.item = x.item /\ y.todo = x.todo /\ y.pc = v /\ y.errs = x.errs
    BY <1>1 DEF Record, Fields
  <2> HIDE DEF y
  <2>3. "ocr" \in items[x.item].plan /\ x.errs = 0 => \A q \in Pages : ~Needs(q, "ocr")
    BY <1>1, <1>3, <1>7 DEF WorkerFits, Reading
  <2> QED BY <1>4, <1>7, <2>1, <2>2, <2>3
<1>8. CASE CloseDocument(w)
  BY <1>7, <1>8 DEF CloseDocument
<1>9. CASE ReportMulti(w)
  BY <1>1, <1>7, <1>9 DEF ReportMulti, WorkerFits
<1>10. CASE CloseJob(w)
  <2>1. DOMAIN act' = Actors /\ act'[w] = Idle /\ \A b \in Actors : b # w => act'[b] = act[b]
    BY <1>1, <1>10 DEF CloseJob
  <2> QED BY <1>1, <2>1, RestFits, OneActs DEF Record
<1> QED BY <1>5, <1>6, <1>8, <1>9, <1>10 DEF MultiStep

(* Some of the workers are stopped.                                         *)
LEMMA WorkersStopped ==
  ASSUME TrayInv, ItemsEvolve, NeedsLess, NEW S \in SUBSET Actors,
         act' = [a \in Actors |-> IF a \in S THEN Idle ELSE act[a]]
  PROVE  RecordsFit' /\ WorkersFit'
<1>1. RecordsFit /\ WorkersFit
  BY DEF TrayInv
<1>2. RecordsFit'
  BY <1>1, RestFits DEF RecordsFit, Record
<1>3. ASSUME NEW w \in Workers PROVE WorkerFits(act[w])'
  <2>1. CASE act'[w] = Idle
    BY <2>1, RestFits
  <2>2. CASE act'[w] = act[w]
    <3>1. WorkerFits(act[w])
      BY <1>1 DEF WorkersFit
    <3> QED BY <2>2, <3>1 DEF WorkerFits, Reading, MultiSteps, ItemsEvolve, Evolves, NeedsLess
  <2> QED BY <2>1, <2>2 DEF Actors
<1> QED BY <1>2, <1>3 DEF WorkersFit

LEMMA ActorsStillFit ==
  ASSUME TrayInv, ItemsEvolve, NeedsLess, [TrayNext]_trayVars
  PROVE  RecordsFit' /\ WorkersFit'
<1>1. CASE UNCHANGED act
  BY <1>1, NobodyActs
<1>2. ASSUME NEW w \in Workers, Crash(w) PROVE RecordsFit' /\ WorkersFit'
  <2>1. act' = [act EXCEPT ![w] = Idle] /\ DOMAIN act = Actors /\ w \in Actors
    BY <1>2 DEF Crash, TrayInv, RecordsFit, Actors
  <2>2. DOMAIN act' = Actors /\ act'[w] = Idle /\ \A b \in Actors : b # w => act'[b] = act[b]
    BY <2>1
  <2> QED BY <2>1, <2>2, RestFits, OneActs DEF Record
<1>3. CASE CancelRevoke
  <2> DEFINE S == {w \in Workers : act[w].pc # "idle" /\ act[w].item = cancel.item}
  <2>1. act' = [a \in Actors |-> IF a \in S THEN Idle ELSE act[a]]
    BY <1>3 DEF CancelRevoke
  <2>2. S \in SUBSET Actors
    BY DEF Actors
  <2> HIDE DEF S
  <2> QED BY <2>1, <2>2, WorkersStopped
<1>4. ASSUME Step PROVE RecordsFit' /\ WorkersFit'
  <2>1. ASSUME \/ \E r \in Posts : (\E k \in Kinds : PostCheck(r, k)) \/ PostRun(r)
               \/ \E k \in Kinds : StatusPoll(k)
               \/ \E p \in Pages : EditPage(p)
               \/ \E w \in Workers : DeliverAgain(w)
        PROVE  UNCHANGED act
    BY <2>1 DEF PostCheck, PostRun, StatusPoll, EditPage, DeliverAgain
  <2> QED BY <1>1, <1>2, <1>4, <2>1, ReceiveFits, TaskStepFits, SaveStepFits, EditorFits DEF Step
<1>5. ASSUME \/ \E r \in Posts : AddRun(r)
             \/ \E plan \in Plans : StartMulti(plan)
             \/ \E i \in Items : GrowOld(i) \/ CancelRead(i)
             \/ PollStep \/ CancelState \/ CancelWrite
             \/ \E w \in Workers, m \in mail : Discard(w, m)
      PROVE  UNCHANGED act
  BY <1>5 DEF AddRun, PostKey, StartMulti, GrowOld, CancelRead, PollStep, PollRead, PollAsk,
              PollWrite, CancelState, CancelWrite, Discard, vars
<1> QED BY <1>1, <1>3, <1>4, <1>5, MultiStepFits, ReceiveFits
        DEF TrayNext, CancelStep, trayVars, vars

----------------------------------------------------------------------------
LEMMA StepKeepsTrayInv ==
  ASSUME TrayInv, [TrayNext]_trayVars
  PROVE  TrayInv'
<1>1. ItemsFit /\ RecordsFit /\ PostsFit /\ VersionsFit
  BY DEF TrayInv
<1>2. ItemsEvolve /\ (JobsStay \/ \E w \in Workers : CloseJob(w))
  BY <1>1, StepKeepsItems
<1>3. VersionsFit' /\ NeedsLess
  BY <1>1, VersionsStay
<1>4. ItemsFit'
  BY <1>1, <1>2, ItemsStillFit
<1>5. RecordsFit' /\ WorkersFit'
  BY <1>2, <1>3, ActorsStillFit
<1>6. MailFits' /\ PostsFit'
  BY <1>2, MailStillFits, PostsStillFit
<1>7. TrayFits' /\ PollFits'
  BY <1>2, ListStillFits
<1>8. CompletedBatchIsRead'
  BY <1>2, <1>3, BatchStaysRead
<1> QED BY <1>3, <1>4, <1>5, <1>6, <1>7, <1>8 DEF TrayInv

LEMMA TrayInvIsKept == TraySpec => []TrayInv
<1>1. TrayInv /\ [TrayNext]_trayVars => TrayInv'
  BY StepKeepsTrayInv
<1> QED BY <1>1, InitTray, PTL DEF TraySpec

(* The list says completed of a run only when all its tasks are over and    *)
(* one of them succeeded, or after an hour (get_user_tasks), however late   *)
(* a poll writes what it learned.                                           *)
THEOREM CompletedEntriesAreOver == TraySpec => []CompletedEntryIsOver
<1>1. TrayInv => CompletedEntryIsOver
  BY DEF TrayInv, ItemsFit, TrayFits, Says, Over, CompletedEntryIsOver
<1> QED BY <1>1, TrayInvIsKept, PTL

(* A multi-batch for OCR whose job is COMPLETED left no page unread, though *)
(* its task may have crashed, run twice or been cancelled on the way.       *)
THEOREM CompletedBatchesAreRead == TraySpec => []CompletedBatchIsRead
<1>1. TrayInv => CompletedBatchIsRead
  BY DEF TrayInv
<1> QED BY <1>1, TrayInvIsKept, PTL
----------------------------------------------------------------------------
(* Texts and charges, while multi-batches run and tasks are revoked.        *)

Paid == {"credit", "pay", "count", "book"}   \* the steps after the revision is saved
Kept(x) == x.pc \in Paid /\ x.kind \in TextKinds => Written(x.page, x.kind, TRUE)

Hand(x) ==
  /\ x.src \in Nat /\ x.seen \in Nat
  /\ Holding(x) => x.page \in Pages /\ x.kind \in Work

WorkerHand(x) ==
  /\ x.pc # "idle" => items[x.item].kind \in Work \cup {"multi"}
  /\ Holding(x) /\ items[x.item].kind # "multi" => x.kind = items[x.item].kind
  /\ x.todo \subseteq Work \X Pages
  /\ Kept(x)

HandsHold ==
  /\ \A a \in Actors : Hand(act[a])
  /\ \A w \in Workers : WorkerHand(act[w])

MailHolds == \A m \in mail :
  /\ items[m[1]].kind \in Work \cup {"multi"}
  /\ items[m[1]].kind # "multi" => m[2] \in Pages

CancelFits == cancel \in [pc : {"idle", "revoke", "state", "write"}, item : Nat]

TextInv ==
  /\ OtherTypes /\ HandsHold /\ MailHolds /\ CancelFits /\ Charges /\ SuccessHasText

LEMMA InitText == TrayInit => TextInv
<1> SUFFICES ASSUME TrayInit PROVE TextInv
  OBVIOUS
<1>1. Init /\ items = <<>> /\ mail = {}
  BY DEF TrayInit, Init
<1>2. OtherTypes /\ Charges
  BY <1>1, InitTypes, InitCharges DEF Types
<1>3. Hand(Idle) /\ WorkerHand(Idle)
  BY DEF Idle, Hand, WorkerHand, Holding, Kept, Paid
<1>4. HandsHold
  BY <1>1, <1>3 DEF Init, HandsHold, Actors
<1>5. MailHolds /\ SuccessHasText
  BY <1>1 DEF MailHolds, SuccessHasText
<1>6. CancelFits
  BY DEF TrayInit, Nothing, CancelFits
<1> QED BY <1>2, <1>4, <1>5, <1>6 DEF TextInv

LEMMA HandsAreFit == TrayInv /\ TextInv => HandsFit /\ Len(items) \in Nat
  BY DEF TrayInv, TextInv, RecordsFit, Record, ItemsFit, HandsHold, Hand, HandsFit

LEMMA KindsPart ==
  /\ "multi" \notin Work /\ TextKinds \subseteq Work /\ "translation" \notin TextKinds
  /\ TextKinds = {"ocr", "enhanced"}
  /\ \A k \in Work : Single(k) \notin Work \cup {"multi"}
  BY DEF TextKinds, Work, Single

(* The list's own steps, and those of multi-batches: no page is read,       *)
(* written or paid for by them.                                             *)
TrayOwn ==
  \/ \E plan \in Plans : StartMulti(plan)
  \/ \E i \in Items : GrowOld(i) \/ CancelRead(i)
  \/ CancelRevoke \/ CancelState
  \/ \E w \in Workers : MultiStep(w)
  \/ \E w \in Workers, m \in mail : ReceiveMulti(w, m) \/ Discard(w, m)

LEMMA StepsPart ==
  ASSUME [TrayNext]_trayVars
  PROVE  ([Next]_vars /\ UNCHANGED cancel) \/ (UNCHANGED vars) \/ TrayOwn
<1>1. ASSUME PollStep \/ CancelWrite PROVE UNCHANGED vars
  BY <1>1 DEF PollStep, PollRead, PollAsk, PollWrite, CancelWrite
<1>2. ASSUME Step /\ UNCHANGED watch PROVE [Next]_vars /\ UNCHANGED cancel
  BY <1>2 DEF Next, watch
<1>3. ASSUME NEW r \in Posts, AddRun(r) PROVE [Next]_vars /\ UNCHANGED cancel
  BY <1>3 DEF AddRun, Next
<1>4. ASSUME UNCHANGED trayVars PROVE UNCHANGED vars
  BY <1>4 DEF trayVars
<1> QED BY <1>1, <1>2, <1>3, <1>4 DEF TrayNext, CancelStep, TrayOwn

LEMMA OwnStepsLeave ==
  ASSUME TrayOwn
  PROVE  UNCHANGED <<revs, ver, boxes, trans, used, posts>>
  BY DEF TrayOwn, StartMulti, GrowOld, CancelRead, CancelRevoke, CancelState, MultiStep,
         PlanMulti, NextPage, CloseDocument, ReportMulti, CloseJob, ReceiveMulti, Discard

TextsGrow == \A p \in Pages : \A k : Written(p, k, TRUE) => Written(p, k, TRUE)'

LEMMA TextsStay ==
  ASSUME TrayInv, TextInv, [TrayNext]_trayVars
  PROVE  TextsGrow
<1> USE DEF TextsGrow
<1>1. CASE [Next]_vars
  BY <1>1, HandsAreFit, WrittenStays DEF TextInv
<1>2. CASE UNCHANGED revs
  BY <1>2 DEF Written
<1> QED BY <1>1, <1>2, StepsPart, OwnStepsLeave DEF vars

----------------------------------------------------------------------------
(* The hands of the workers and the requests.                               *)

LEMMA HandStays ==
  ASSUME TrayInv, TextInv, ItemsEvolve, TextsGrow, NEW a \in Actors, act'[a] = act[a]
  PROVE  Hand(act[a])' /\ (a \in Workers => WorkerHand(act[a])')
<1>1. Hand(act[a]) /\ (a \in Workers => WorkerHand(act[a]) /\ WorkerFits(act[a]))
  BY DEF TextInv, HandsHold, TrayInv, WorkersFit
<1>2. Hand(act[a])'
  BY <1>1 DEF Hand, Holding
<1>3. ASSUME a \in Workers PROVE WorkerHand(act[a])'
  <2>1. Kept(act[a])'
    BY <1>1, <1>3 DEF WorkerHand, Kept, Hand, Holding, TextsGrow, Paid, MultiSteps
  <2> QED BY <1>1, <1>3, <2>1 DEF WorkerHand, WorkerFits, Holding, ItemsEvolve, Evolves
<1> QED BY <1>2, <1>3

(* One has record y now.                                                    *)
WorkerMay(y) ==
  /\ y.pc # "idle" => /\ y.item \in DOMAIN items
                      /\ items[y.item].kind \in Work \cup {"multi"}
                      /\ Holding(y) /\ items[y.item].kind # "multi" => y.kind = items[y.item].kind
  /\ y.todo \subseteq Work \X Pages
  /\ y.pc \in Paid /\ y.kind \in TextKinds
     => \A p \in Pages : \A k : p = y.page /\ k = y.kind => Written(p, k, TRUE)'

LEMMA OneHandMoves ==
  ASSUME TrayInv, TextInv, ItemsEvolve, TextsGrow, NEW a \in Actors, NEW y,
         act' = [act EXCEPT ![a] = y], Hand(y), a \in Workers => WorkerMay(y)
  PROVE  HandsHold'
<1>1. act'[a] = y /\ \A b \in Actors : b # a => act'[b] = act[b]
  BY DEF TrayInv, RecordsFit
<1>2. Hand(act[a])'
  BY <1>1 DEF Hand, Holding
<1>3. ASSUME a \in Workers PROVE WorkerHand(act[a])'
  <2>1. Kept(act[a])'
    BY <1>1, <1>3 DEF WorkerMay, Kept, Hand, Holding, Paid, MultiSteps
  <2> QED BY <1>1, <1>3, <2>1 DEF WorkerHand, WorkerMay, Holding, ItemsEvolve, Evolves
<1>4. ASSUME NEW b \in Actors, b # a PROVE Hand(act[b])' /\ (b \in Workers => WorkerHand(act[b])')
  BY <1>1, <1>4, HandStays
<1> QED BY <1>2, <1>3, <1>4 DEF HandsHold, Actors

LEMMA IdleHand ==
  /\ Hand(Idle) /\ \A a : act'[a] = Idle => Hand(act[a])' /\ WorkerHand(act[a])'
  /\ WorkerMay(Idle)
<1>1. Idle.pc = "idle" /\ Idle.src = 0 /\ Idle.seen = 0 /\ Idle.todo = {}
  BY DEF Idle
<1>2. Hand(Idle) /\ WorkerMay(Idle)
  BY <1>1 DEF Hand, WorkerMay, Holding, Paid
<1>3. ASSUME NEW a, act'[a] = Idle PROVE Hand(act[a])' /\ WorkerHand(act[a])'
  <2>1. Hand(act[a])'
    BY <1>1, <1>3 DEF Hand, Holding
  <2>2. Kept(act[a])'
    BY <1>1, <1>3 DEF Kept, Paid
  <2>3. (act[a].todo \subseteq Work \X Pages)'
    BY <1>1, <1>3
  <2> QED BY <1>1, <1>3, <2>1, <2>2, <2>3 DEF WorkerHand, Holding
<1> QED BY <1>2, <1>3

LEMMA SomeRest ==
  ASSUME TrayInv, TextInv, ItemsEvolve, TextsGrow, NEW S \in SUBSET Actors,
         act' = [a \in Actors |-> IF a \in S THEN Idle ELSE act[a]]
  PROVE  HandsHold'
<1>1. ASSUME NEW a \in Actors PROVE Hand(act[a])' /\ (a \in Workers => WorkerHand(act[a])')
  BY IdleHand, HandStays
<1> QED BY <1>1 DEF HandsHold, Actors

LEMMA NobodyMoves ==
  ASSUME TrayInv, TextInv, ItemsEvolve, TextsGrow, UNCHANGED act
  PROVE  HandsHold'
  BY HandStays DEF HandsHold, Actors

LEMMA OneRests ==
  ASSUME TrayInv, TextInv, ItemsEvolve, TextsGrow, NEW a \in Actors, act' = [act EXCEPT ![a] = Idle]
  PROVE  HandsHold'
  BY IdleHand, OneHandMoves

(* A page task goes on, with the same page in hand.                         *)
SameWork(x, y) ==
  /\ y.item = x.item /\ y.kind = x.kind /\ y.page = x.page /\ y.todo = x.todo
  /\ y.src \in Nat /\ y.seen \in Nat

LEMMA HandGoesOn ==
  ASSUME TrayInv, TextInv, ItemsEvolve, TextsGrow, NEW a \in Actors, NEW y,
         act' = [act EXCEPT ![a] = y], Holding(act[a]), SameWork(act[a], y),
         a \in Workers /\ y.pc \in Paid /\ act[a].kind \in TextKinds
           => \/ act[a].pc \in Paid
              \/ \A p \in Pages : \A k :
                   p = act[a].page /\ k = act[a].kind => Written(p, k, TRUE)'
  PROVE  HandsHold'
<1>1. Hand(act[a]) /\ (a \in Workers => WorkerHand(act[a]) /\ WorkerFits(act[a]))
  BY DEF TextInv, HandsHold, TrayInv, WorkersFit
<1>2. Hand(y)
  BY <1>1 DEF Hand, SameWork, Holding
<1>3. ASSUME a \in Workers PROVE WorkerMay(y)
  <2>1. y.pc \in Paid /\ y.kind \in TextKinds
        => \A p \in Pages : \A k : p = y.page /\ k = y.kind => Written(p, k, TRUE)'
    BY <1>1, <1>3 DEF SameWork, WorkerHand, Kept, TextsGrow
  <2> QED BY <1>1, <1>3, <2>1 DEF WorkerMay, SameWork, WorkerHand, WorkerFits, Holding
<1> QED BY <1>2, <1>3, OneHandMoves

(* A multi-batch goes from page to page.                                    *)
LEMMA MultiGoesOn ==
  ASSUME TrayInv, TextInv, ItemsEvolve, TextsGrow, NEW w \in Workers, NEW y,
         act' = [act EXCEPT ![w] = y], act[w].pc # "idle", items[act[w].item].kind = "multi",
         y.pc \in MultiSteps \cup {"resolve"}, y.item = act[w].item, y.src \in Nat, y.seen \in Nat,
         y.todo \subseteq Work \X Pages,
         y.pc = "resolve" => <<y.kind, y.page>> \in Work \X Pages
  PROVE  HandsHold'
<1>1. w \in Actors /\ act[w].item \in DOMAIN items
  BY DEF TrayInv, WorkersFit, WorkerFits, Actors
<1>2. Hand(y)
  BY DEF Hand, Holding
<1>3. WorkerMay(y)
  BY <1>1 DEF WorkerMay, Paid, MultiSteps
<1> QED BY <1>1, <1>2, <1>3, OneHandMoves

LEMMA EndingHolds ==
  ASSUME TrayInv, TextInv, ItemsEvolve, TextsGrow, NEW w \in Workers, Holding(act[w]), NEW o, Ends(w, o)
  PROVE  HandsHold'
<1> DEFINE x == act[w]
<1>1. /\ w \in Actors /\ Hand(x) /\ WorkerHand(x) /\ Record(x)
  BY DEF TextInv, HandsHold, TrayInv, RecordsFit, Actors
<1>2. CASE items[x.item].kind # "multi"
  <2>1. act' = [act EXCEPT ![w] = Idle]
    BY <1>2 DEF Ends
  <2> QED BY <1>1, <2>1, OneRests
<1>3. CASE items[x.item].kind = "multi"
  <2> DEFINE n == x.errs + IF o = "SUCCESS" THEN 0 ELSE 1
             y == [[x EXCEPT !.pc = "next"] EXCEPT !.errs = n]
  <2>1. act' = [act EXCEPT ![w] = y]
    <3>1. act' = [act EXCEPT ![w].pc = "next", ![w].errs = @ + IF o = "SUCCESS" THEN 0 ELSE 1]
      BY <1>3 DEF Ends
    <3>2. y = [x EXCEPT !.pc = "next", !.errs = @ + IF o = "SUCCESS" THEN 0 ELSE 1]
      BY <1>1 DEF Record, Fields
    <3> QED BY <1>1, <3>1, <3>2
  <2> HIDE DEF n
  <2>2. /\ y.pc = "next" /\ y.item = x.item /\ y.src = x.src /\ y.seen = x.seen /\ y.todo = x.todo
    BY <1>1 DEF Record, Fields
  <2> HIDE DEF y
  <2>3. x.pc # "idle"
    BY DEF Holding
  <2>4. y.src \in Nat /\ y.seen \in Nat /\ y.todo \subseteq Work \X Pages
    BY <1>1, <2>2 DEF Hand, WorkerHand
  <2> QED BY <1>3, <2>1, <2>2, <2>3, <2>4, MultiGoesOn DEF MultiSteps
<1> QED BY <1>2, <1>3

LEMMA TaskStepHolds ==
  ASSUME TrayInv, TextInv, ItemsEvolve, TextsGrow, NEW w \in Workers, TaskStep(w)
  PROVE  HandsHold'
<1> DEFINE x == act[w]
<1>1. /\ w \in Actors /\ Hand(x) /\ WorkerHand(x) /\ Record(x) /\ DOMAIN act = Actors
  BY DEF TextInv, HandsHold, TrayInv, RecordsFit, Actors
<1>2. Holding(x)
  BY DEF TaskStep, ResolveOcr, ResolveTranslation, Call, CallFails, CountPages, BookPage,
         Holding, MultiSteps
<1>3. ASSUME NEW o, Ends(w, o) PROVE HandsHold'
  BY <1>2, <1>3, EndingHolds
<1>4. CASE Go(w, "count") /\ (x.kind \in TextKinds => Written(x.page, x.kind, TRUE))
  <2> DEFINE y == [x EXCEPT !.pc = "count"]
  <2>1. act' = [act EXCEPT ![w] = y]
    BY <1>4 DEF Go
  <2>2. SameWork(x, y)
    BY <1>1 DEF Record, Fields, SameWork, Hand
  <2> HIDE DEF y
  <2>3. x.kind \in TextKinds
        => \A p \in Pages : \A k : p = x.page /\ k = x.kind => Written(p, k, TRUE)'
    BY <1>4 DEF TextsGrow
  <2> QED BY <1>1, <1>2, <2>1, <2>2, <2>3, HandGoesOn
<1>5. ASSUME NEW v, act' = [act EXCEPT ![w].pc = "call", ![w].pv = v] PROVE HandsHold'
  <2> DEFINE y == [[x EXCEPT !.pc = "call"] EXCEPT !.pv = v]
  <2>1. act' = [act EXCEPT ![w] = y]
    BY <1>1, <1>5
  <2>2. SameWork(x, y) /\ y.pc = "call"
    BY <1>1 DEF Record, Fields, SameWork, Hand
  <2> HIDE DEF y
  <2> QED BY <1>1, <1>2, <2>1, <2>2, HandGoesOn DEF Paid
<1>6. ASSUME NEW v \in Nat, act' = [act EXCEPT ![w].pc = "call", ![w].src = v] PROVE HandsHold'
  <2> DEFINE y == [[x EXCEPT !.pc = "call"] EXCEPT !.src = v]
  <2>1. act' = [act EXCEPT ![w] = y]
    BY <1>1, <1>6
  <2>2. SameWork(x, y) /\ y.pc = "call"
    BY <1>1 DEF Record, Fields, SameWork, Hand
  <2> HIDE DEF y
  <2> QED BY <1>1, <1>2, <2>1, <2>2, HandGoesOn DEF Paid
<1>7. CASE ResolveOcr(w)
  <2> DEFINE v == ver[x.page][x.kind]
  <2>1. \/ Done(x.page, x.kind) /\ Go(w, "count")
        \/ act' = [act EXCEPT ![w].pc = "call", ![w].pv = v]
        \/ Ends(w, "FAILURE")
    BY <1>7 DEF ResolveOcr
  <2>2. Done(x.page, x.kind) => Written(x.page, x.kind, TRUE)
    BY DEF Done
  <2> HIDE DEF v
  <2> QED BY <1>3, <1>4, <1>5, <2>1, <2>2
<1>8. CASE ResolveTranslation(w)
  <2> DEFINE v == Len(revs[x.page])
  <2>1. \/ Go(w, "count")
        \/ act' = [act EXCEPT ![w].pc = "call", ![w].src = v]
        \/ Ends(w, "FAILURE")
    BY <1>8 DEF ResolveTranslation
  <2>2. x.kind \notin TextKinds /\ v \in Nat
    <3>1. x.kind = "translation" /\ x.page \in Pages
      BY <1>1, <1>2, <1>8 DEF ResolveTranslation, Hand
    <3>2. revs[x.page] \in Seq(RevisionType)
      BY <3>1 DEF TextInv, OtherTypes
    <3> QED BY <3>1, <3>2, KindsPart
  <2> HIDE DEF v
  <2> QED BY <1>3, <1>4, <1>6, <2>1, <2>2
<1>9. CASE Call(w) /\ ~Ends(w, "FAILURE")
  <2> DEFINE v == IF x.kind = "translation" THEN ver[x.page][x.kind] ELSE x.pv
             y == [[x EXCEPT !.pc = "bump"] EXCEPT !.pv = v]
  <2>1. act' = [act EXCEPT ![w] = y]
    <3>1. act' = [act EXCEPT ![w].pc = "bump",
                             ![w].pv = IF x.kind = "translation" THEN ver[x.page][x.kind] ELSE @]
      BY <1>9 DEF Call
    <3> QED BY <1>1, <3>1 DEF Record, Fields
  <2> HIDE DEF v
  <2>2. SameWork(x, y) /\ y.pc = "bump"
    BY <1>1 DEF Record, Fields, SameWork, Hand
  <2> HIDE DEF y
  <2> QED BY <1>1, <1>2, <2>1, <2>2, HandGoesOn DEF Paid
<1>10. CASE CallFails(w)
  <2> DEFINE o == IF act[w].kind = "translation" THEN "SUCCESS" ELSE "FAILURE"
  <2>1. Ends(w, o)
    BY <1>10 DEF CallFails
  <2> HIDE DEF o
  <2> QED BY <1>3, <2>1
<1>11. CASE CountPages(w)
  <2> DEFINE b == BookedOn(x.kind)
             c == Cardinality(Completed(b) \cup {x.page}) >= items[b].total
             y == [[[x EXCEPT !.pc = "book"] EXCEPT !.book = b] EXCEPT !.close = c]
  <2>1. x.pc = "count" /\ act' = [act EXCEPT ![w] = y]
    <3>1. x.pc = "count" /\ act' = [act EXCEPT ![w].pc = "book", ![w].book = b, ![w].close = c]
      BY <1>11 DEF CountPages
    <3> HIDE DEF b, c
    <3> QED BY <1>1, <3>1
  <2> HIDE DEF b, c
  <2>2. SameWork(x, y)
    BY <1>1 DEF Record, Fields, SameWork, Hand
  <2> HIDE DEF y
  <2> QED BY <1>1, <1>2, <2>1, <2>2, HandGoesOn DEF Paid
<1>12. CASE BookPage(w)
  <2>1. CASE items[x.item].kind # "multi"
    BY <1>1, <1>12, <2>1, OneRests DEF BookPage
  <2>2. CASE items[x.item].kind = "multi"
    <3> DEFINE y == [x EXCEPT !.pc = "next"]
    <3>1. act' = [act EXCEPT ![w] = y]
      BY <1>12, <2>2 DEF BookPage, Go
    <3>2. /\ y.pc = "next" /\ y.item = x.item /\ y.src = x.src /\ y.seen = x.seen /\ y.todo = x.todo
      BY <1>1 DEF Record, Fields
    <3> HIDE DEF y
    <3>3. x.pc # "idle"
      BY <1>2 DEF Holding
    <3>4. y.src \in Nat /\ y.seen \in Nat /\ y.todo \subseteq Work \X Pages
      BY <1>1, <3>2 DEF Hand, WorkerHand
    <3> QED BY <2>2, <3>1, <3>2, <3>3, <3>4, MultiGoesOn DEF MultiSteps
  <2> QED BY <2>1, <2>2
<1>13. CASE Call(w) /\ Ends(w, "FAILURE")
  BY <1>3, <1>13
<1> QED BY <1>7, <1>8, <1>9, <1>10, <1>11, <1>12, <1>13 DEF TaskStep

LEMMA InsertedIsWritten ==
  ASSUME TextInv, NEW w \in Workers, InsertRevision(w), act[w].page \in Pages
  PROVE  \A p \in Pages : \A k : p = act[w].page /\ k = act[w].kind => Written(p, k, TRUE)'
<1> DEFINE q == act[w].page  x == [track |-> act[w].kind, bot |-> TRUE]
<1>1. revs' = [revs EXCEPT ![q] = Append(@, x)]
  BY DEF InsertRevision
<1>2. revs[q] \in Seq(RevisionType) /\ DOMAIN revs = Pages
  BY DEF TextInv, OtherTypes
<1> DEFINE n == Len(revs[q]) + 1
<1>3. revs'[q] = Append(revs[q], x)
  BY <1>1, <1>2
<1>4. n \in DOMAIN revs'[q] /\ revs'[q][n] = x
  BY <1>2, <1>3
<1> HIDE DEF n
<1> SUFFICES ASSUME NEW p \in Pages, NEW k, p = q, k = act[w].kind
             PROVE  \E i \in DOMAIN revs'[p] : revs'[p][i] = [track |-> k, bot |-> TRUE]
  BY DEF Written
<1> QED BY <1>4

LEMMA SaveStepHolds ==
  ASSUME TrayInv, TextInv, ItemsEvolve, TextsGrow, NEW a \in Actors, SaveStep(a)
  PROVE  HandsHold'
<1> DEFINE x == act[a]
<1>1. /\ Hand(x) /\ Record(x) /\ DOMAIN act = Actors
  BY DEF TextInv, HandsHold, TrayInv, RecordsFit
<1>2. Holding(x)
  BY DEF SaveStep, Bump, InsertRevision, ReadCredit, Pay, Holding, MultiSteps
<1>3. ASSUME NEW v, act' = [act EXCEPT ![a].pc = v],
             a \in Workers /\ v \in Paid =>
                \/ x.pc \in Paid
                \/ \A p \in Pages : \A k : p = x.page /\ k = x.kind => Written(p, k, TRUE)'
      PROVE  HandsHold'
  <2> DEFINE y == [x EXCEPT !.pc = v]
  <2>1. act' = [act EXCEPT ![a] = y]
    BY <1>3
  <2>2. SameWork(x, y) /\ y.pc = v
    BY <1>1 DEF Record, Fields, SameWork, Hand
  <2> HIDE DEF y
  <2> QED BY <1>2, <1>3, <2>1, <2>2, HandGoesOn
<1>4. CASE Bump(a)
  <2>1. CASE Go(a, "insert")
    BY <1>3, <2>1 DEF Go, Paid
  <2>2. CASE a \in Workers /\ Ends(a, "FAILURE")
    BY <1>2, <2>2, EndingHolds
  <2>3. CASE act' = [act EXCEPT ![a] = Idle]
    BY <2>3, OneRests
  <2> QED BY <1>4, <2>1, <2>2, <2>3 DEF Bump
<1>5. CASE InsertRevision(a)
  <2>1. CASE a \in Workers
    <3>1. Go(a, "credit") /\ x.page \in Pages
      BY <1>1, <1>2, <1>5, <2>1 DEF InsertRevision, Hand
    <3> QED BY <1>3, <1>5, <2>1, <3>1, InsertedIsWritten DEF Go
  <2>2. CASE a \notin Workers
    BY <1>3, <1>5, <2>2 DEF InsertRevision, Go
  <2> QED BY <2>1, <2>2
<1>6. CASE ReadCredit(a)
  <2> DEFINE v == used[SortOf(x.kind)]
             y == [[x EXCEPT !.pc = "pay"] EXCEPT !.seen = v]
  <2>1. x.pc = "credit" /\ act' = [act EXCEPT ![a] = y]
    <3>1. x.pc = "credit" /\ act' = [act EXCEPT ![a].pc = "pay", ![a].seen = v]
      BY <1>6 DEF ReadCredit
    <3> HIDE DEF v
    <3> QED BY <1>1, <3>1
  <2>2. v \in Nat
    BY <1>1, <1>2, KindFacts DEF TextInv, OtherTypes, Hand
  <2> HIDE DEF v
  <2>3. SameWork(x, y)
    BY <1>1, <2>2 DEF Record, Fields, SameWork, Hand
  <2> HIDE DEF y
  <2> QED BY <1>2, <2>1, <2>3, HandGoesOn DEF Paid
<1>7. CASE Pay(a)
  BY <1>3, <1>7 DEF Pay, Go, Paid
<1> QED BY <1>4, <1>5, <1>6, <1>7 DEF SaveStep

LEMMA EditorStepHolds ==
  ASSUME TrayInv, TextInv, ItemsEvolve, TextsGrow, NEW e \in Editors,
         EditorStep(e) \/ \E p \in Pages, k \in Kinds : EditorAsks(e, p, k)
  PROVE  HandsHold'
<1> DEFINE x == act[e]
<1>1. e \in Actors /\ e \notin Workers /\ Hand(x) /\ Record(x) /\ DOMAIN act = Actors
  BY ConstantsAssumption DEF TextInv, HandsHold, TrayInv, RecordsFit, Actors
<1>2. CASE EditorVersion(e)
  <2> DEFINE v == ver[x.page][x.kind]  y == [[x EXCEPT !.pc = "bump"] EXCEPT !.pv = v]
  <2>1. act' = [act EXCEPT ![e] = y] /\ Holding(x)
    <3>1. act' = [act EXCEPT ![e].pc = "bump", ![e].pv = v] /\ x.pc = "version"
      BY <1>2 DEF EditorVersion
    <3> HIDE DEF v
    <3> QED BY <1>1, <3>1 DEF Holding, MultiSteps
  <2> HIDE DEF v
  <2>2. SameWork(x, y)
    BY <1>1 DEF Record, Fields, SameWork, Hand
  <2> HIDE DEF y
  <2> QED BY <1>1, <2>1, <2>2, HandGoesOn
<1>3. CASE EditorLog(e)
  BY <1>1, <1>3, OneRests DEF EditorLog
<1>4. ASSUME NEW p \in Pages, NEW k \in Kinds, EditorAsks(e, p, k) PROVE HandsHold'
  <2> DEFINE y == [Idle EXCEPT !.pc = "credit", !.kind = k, !.page = p]
  <2>1. act' = [act EXCEPT ![e] = y]
    BY <1>4 DEF EditorAsks
  <2>2. k \in Work
    BY ConstantsAssumption
  <2>3. Hand(y)
    BY <2>2 DEF Idle, Hand
  <2> HIDE DEF y
  <2> QED BY <1>1, <2>1, <2>3, OneHandMoves
<1> QED BY <1>2, <1>3, <1>4 DEF EditorStep

LEMMA ReceiveHolds ==
  ASSUME TrayInv, TextInv, ItemsEvolve, TextsGrow, NEW w \in Workers, NEW m \in mail,
         Receive(w, m) \/ ReceiveMulti(w, m)
  PROVE  HandsHold'
<1>1. /\ w \in Actors /\ m[1] \in DOMAIN items /\ items[m[1]].kind \in Work \cup {"multi"}
      /\ items[m[1]].kind # "multi" => m[2] \in Pages
  BY DEF TrayInv, TextInv, MailFits, MailHolds, Actors
<1>2. CASE Receive(w, m)
  <2> DEFINE i == m[1]  k == items[i].kind  p == m[2]
             y == [Idle EXCEPT !.pc = "resolve", !.item = i, !.kind = k, !.page = p]
  <2>1. act' = [act EXCEPT ![w] = y] /\ k # "multi"
    BY <1>2 DEF Receive
  <2>2. k \in Work /\ p \in Pages /\ i \in DOMAIN items /\ k = items[i].kind
    BY <1>1, <2>1
  <2> HIDE DEF k, i, p
  <2>3. /\ y.pc = "resolve" /\ y.item = i /\ y.kind = k /\ y.page = p /\ y.src = 0 /\ y.seen = 0
        /\ y.todo = {}
    BY DEF Idle
  <2> HIDE DEF y
  <2>4. Hand(y) /\ WorkerMay(y)
    BY <2>2, <2>3 DEF Hand, WorkerMay, Paid
  <2> QED BY <1>1, <2>1, <2>4, OneHandMoves
<1>3. CASE ReceiveMulti(w, m)
  <2> DEFINE i == m[1]  y == [Idle EXCEPT !.pc = "plan", !.item = i]
  <2>1. act' = [act EXCEPT ![w] = y] /\ items[i].kind = "multi" /\ i \in DOMAIN items
    BY <1>1, <1>3 DEF ReceiveMulti
  <2> HIDE DEF i
  <2>3. y.pc = "plan" /\ y.item = i /\ y.src = 0 /\ y.seen = 0 /\ y.todo = {}
    BY DEF Idle
  <2> HIDE DEF y
  <2>4. Hand(y) /\ WorkerMay(y)
    BY <2>1, <2>3 DEF Hand, WorkerMay, Paid, Holding, MultiSteps
  <2> QED BY <1>1, <2>1, <2>4, OneHandMoves
<1> QED BY <1>2, <1>3

LEMMA MultiStepHolds ==
  ASSUME TrayInv, TextInv, ItemsEvolve, TextsGrow, NEW w \in Workers, MultiStep(w)
  PROVE  HandsHold'
<1> DEFINE x == act[w]
<1>1. /\ w \in Actors /\ Hand(x) /\ WorkerHand(x) /\ Record(x) /\ WorkerFits(x) /\ ItemsFit
  BY DEF TextInv, HandsHold, TrayInv, RecordsFit, WorkersFit, Actors
<1>2. /\ x.pc \in MultiSteps /\ x.pc # "idle" /\ items[x.item].kind = "multi"
      /\ x.item \in DOMAIN items
  <2>1. x.pc \in MultiSteps
    BY DEF MultiStep, PlanMulti, NextPage, CloseDocument, ReportMulti, CloseJob, MultiSteps
  <2> QED BY <1>1, <2>1 DEF MultiSteps, WorkerFits
<1>3. ASSUME NEW v \in MultiSteps, Go(w, v) PROVE HandsHold'
  <2> DEFINE y == [x EXCEPT !.pc = v]
  <2>1. act' = [act EXCEPT ![w] = y]
    BY <1>3 DEF Go
  <2>2. /\ y.pc = v /\ y.item = x.item /\ y.src = x.src /\ y.seen = x.seen /\ y.todo = x.todo
    BY <1>1 DEF Record, Fields
  <2> HIDE DEF y
  <2>3. y.src \in Nat /\ y.seen \in Nat /\ y.todo \subseteq Work \X Pages
    BY <1>1, <2>2 DEF Hand, WorkerHand
  <2> QED BY <1>2, <2>1, <2>2, <2>3, MultiGoesOn DEF MultiSteps
<1>4. CASE PlanMulti(w)
  <2> DEFINE todo == ToDo(items[x.item].plan)  v == IF todo = {} THEN "skip" ELSE "next"
             y == [[x EXCEPT !.todo = todo] EXCEPT !.pc = v]
  <2>1. act' = [act EXCEPT ![w] = y]
    <3>1. act' = [act EXCEPT ![w].todo = todo, ![w].pc = v]
      BY <1>4 DEF PlanMulti
    <3> HIDE DEF todo, v
    <3> QED BY <1>1, <3>1
  <2>2. todo \subseteq Work \X Pages
    <3>1. items[x.item].plan \subseteq Work
      <4>1. items[x.item] \in ItemType
        BY <1>1, <1>2 DEF ItemsFit
      <4> QED BY <4>1 DEF ItemType
    <3> QED BY <3>1 DEF ToDo
  <2>3. v \in MultiSteps
    BY DEF MultiSteps
  <2> HIDE DEF todo, v
  <2>4. y.pc = v /\ y.item = x.item /\ y.src = x.src /\ y.seen = x.seen /\ y.todo = todo
    BY <1>1 DEF Record, Fields
  <2> HIDE DEF y
  <2>5. y.src \in Nat /\ y.seen \in Nat
    BY <1>1, <2>4 DEF Hand
  <2>6. v # "resolve"
    BY <2>3 DEF MultiSteps
  <2> QED BY <1>2, <2>1, <2>2, <2>3, <2>4, <2>5, <2>6, MultiGoesOn
<1>5. CASE NextPage(w)
  <2>1. PICK t \in x.todo :
          act' = [act EXCEPT ![w] = [Idle EXCEPT
                    !.pc = "resolve", !.item = x.item, !.errs = x.errs,
                    !.kind = t[1], !.page = t[2], !.todo = x.todo \ {t}]]
    BY <1>5 DEF NextPage
  <2> DEFINE k == t[1]  p == t[2]  rest == x.todo \ {t}
             y == [Idle EXCEPT !.pc = "resolve", !.item = x.item, !.errs = x.errs,
                     !.kind = k, !.page = p, !.todo = rest]
  <2>2. act' = [act EXCEPT ![w] = y]
    BY <2>1
  <2>3. rest \subseteq Work \X Pages /\ <<k, p>> \in Work \X Pages
    <3>1. x.todo \subseteq Work \X Pages
      BY <1>1 DEF WorkerHand
    <3> QED BY <3>1
  <2> HIDE DEF k, p, rest
  <2>4. /\ y.pc = "resolve" /\ y.item = x.item /\ y.src = 0 /\ y.seen = 0 /\ y.todo = rest
        /\ y.kind = k /\ y.page = p
    BY DEF Idle
  <2> HIDE DEF y
  <2>5. /\ y.src \in Nat /\ y.seen \in Nat /\ y.todo \subseteq Work \X Pages
        /\ <<y.kind, y.page>> \in Work \X Pages /\ y.pc \in MultiSteps \cup {"resolve"}
    BY <2>3, <2>4
  <2> QED BY <1>2, <2>2, <2>4, <2>5, MultiGoesOn
<1>6. CASE CloseDocument(w) \/ ReportMulti(w)
  BY <1>3, <1>6 DEF CloseDocument, ReportMulti, MultiSteps
<1>7. CASE CloseJob(w)
  BY <1>1, <1>7, OneRests DEF CloseJob
<1> QED BY <1>4, <1>5, <1>6, <1>7 DEF MultiStep

LEMMA HandsStillHold ==
  ASSUME TrayInv, TextInv, ItemsEvolve, TextsGrow, [TrayNext]_trayVars
  PROVE  HandsHold'
<1>1. CASE UNCHANGED act
  BY <1>1, NobodyMoves
<1>2. ASSUME NEW w \in Workers, Crash(w) PROVE HandsHold'
  BY <1>2, OneRests DEF Crash, Actors
<1>3. CASE CancelRevoke
  <2> DEFINE S == {w \in Workers : act[w].pc # "idle" /\ act[w].item = cancel.item}
  <2>1. act' = [a \in Actors |-> IF a \in S THEN Idle ELSE act[a]]
    BY <1>3 DEF CancelRevoke
  <2>2. S \in SUBSET Actors
    BY DEF Actors
  <2> HIDE DEF S
  <2> QED BY <2>1, <2>2, SomeRest
<1>4. ASSUME Step PROVE HandsHold'
  <2>1. ASSUME \/ \E r \in Posts : (\E k \in Kinds : PostCheck(r, k)) \/ PostRun(r)
               \/ \E k \in Kinds : StatusPoll(k)
               \/ \E p \in Pages : EditPage(p)
               \/ \E w \in Workers : DeliverAgain(w)
        PROVE  UNCHANGED act
    BY <2>1 DEF PostCheck, PostRun, StatusPoll, EditPage, DeliverAgain
  <2> QED BY <1>1, <1>2, <1>4, <2>1, ReceiveHolds, TaskStepHolds, SaveStepHolds, EditorStepHolds
          DEF Step
<1>5. ASSUME \/ \E r \in Posts : AddRun(r)
             \/ \E plan \in Plans : StartMulti(plan)
             \/ \E i \in Items : GrowOld(i) \/ CancelRead(i)
             \/ PollStep \/ CancelState \/ CancelWrite
             \/ \E w \in Workers, m \in mail : Discard(w, m)
      PROVE  UNCHANGED act
  BY <1>5 DEF AddRun, PostKey, StartMulti, GrowOld, CancelRead, PollStep, PollRead, PollAsk,
              PollWrite, CancelState, CancelWrite, Discard, vars
<1> QED BY <1>1, <1>3, <1>4, <1>5, MultiStepHolds, ReceiveHolds
        DEF TrayNext, CancelStep, trayVars, vars

----------------------------------------------------------------------------
(* The messages.                                                            *)

LEMMA RunIsAdded ==
  ASSUME ItemsFit, PostsFit, NEW r \in Posts, PostRun(r)
  PROVE  \/ UNCHANGED <<items, mail>>
         \/ \E k \in Work, P \in SUBSET Pages :
              /\ items' = Append(items, NewItem(k, P, Cardinality(P)))
              /\ mail' = mail \cup ({Len(items) + 1} \X P)
<1>1. CASE PagesFor(posts[r].kind) = {}
  BY <1>1 DEF PostRun
<1>2. CASE PagesFor(posts[r].kind) # {}
  <2>1. posts[r].kind \in Work /\ PagesFor(posts[r].kind) \in SUBSET Pages
    BY ConstantsAssumption DEF PostRun, PostsFit, PostFits, PagesFor
  <2> QED BY <1>2, <2>1 DEF PostRun
<1> QED BY <1>1, <1>2

LEMMA MailStillHolds ==
  ASSUME TrayInv, TextInv, ItemsEvolve, [TrayNext]_trayVars
  PROVE  MailHolds' /\ mail' \subseteq Nat \X Nat
<1>1. /\ mail \subseteq Nat \X Nat /\ items \in Seq(ItemType) /\ Len(items) \in Nat
      /\ DOMAIN items = 1 .. Len(items) /\ Pages \subseteq Nat
      /\ ItemsFit /\ PostsFit
  BY DEF TextInv, OtherTypes, TrayInv, ItemsFit, Pages
<1>2. \A m \in mail : /\ items'[m[1]].kind \in Work \cup {"multi"}
                      /\ items'[m[1]].kind # "multi" => m[2] \in Pages
  BY DEF TextInv, MailHolds, TrayInv, MailFits, ItemsEvolve, Evolves
<1>3. ASSUME mail' \subseteq mail PROVE MailHolds' /\ mail' \subseteq Nat \X Nat
  <2>1. MailHolds'
    BY <1>2, <1>3 DEF MailHolds
  <2> QED BY <1>1, <1>3, <2>1
<1>4. ASSUME NEW M, mail' = mail \cup M, M \subseteq Nat \X Nat,
             \A m \in M : /\ items'[m[1]].kind \in Work \cup {"multi"}
                          /\ items'[m[1]].kind # "multi" => m[2] \in Pages
      PROVE  MailHolds' /\ mail' \subseteq Nat \X Nat
  <2>1. MailHolds'
    BY <1>2, <1>4 DEF MailHolds
  <2> QED BY <1>1, <1>4, <2>1
<1>5. ASSUME NEW w \in Workers, DeliverAgain(w) \/ Crash(w)
      PROVE  MailHolds' /\ mail' \subseteq Nat \X Nat
  <2> DEFINE i == act[w].item
             q == IF i # 0 /\ items[i].kind = "multi" THEN 0 ELSE act[w].page
  <2>1. mail' = mail \cup {<<i, q>>} /\ act[w].pc # "idle" /\ w \in Actors
    BY <1>5 DEF DeliverAgain, Crash, Running, Actors
  <2>2. /\ i \in DOMAIN items /\ items'[i].kind = items[i].kind
        /\ items[i].kind \in Work \cup {"multi"}
        /\ act[w].pc \in MultiSteps => items[i].kind = "multi"
    BY <2>1 DEF TrayInv, WorkersFit, WorkerFits, ItemsEvolve, Evolves, TextInv, HandsHold, WorkerHand
  <2>3. i \in Nat /\ i # 0
    BY <1>1, <2>2
  <2>4. items[i].kind # "multi" => q \in Pages
    BY <2>1, <2>2 DEF TextInv, HandsHold, Hand, Holding
  <2>5. q \in Nat
    BY <1>1, <2>3, <2>4
  <2> HIDE DEF i, q
  <2> DEFINE M == {<<i, q>>}
  <2>6. mail' = mail \cup M /\ M \subseteq Nat \X Nat
    BY <2>1, <2>3, <2>5
  <2>7. \A m \in M : m[1] = i /\ m[2] = q
    OBVIOUS
  <2> HIDE DEF M
  <2> QED BY <1>4, <2>2, <2>4, <2>6, <2>7
<1>6. ASSUME NEW r \in Posts, PostRun(r) PROVE MailHolds' /\ mail' \subseteq Nat \X Nat
  <2>1. CASE UNCHANGED mail
    BY <1>3, <2>1
  <2>2. ASSUME NEW k \in Work, NEW P \in SUBSET Pages,
               items' = Append(items, NewItem(k, P, Cardinality(P))),
               mail' = mail \cup ({Len(items) + 1} \X P)
        PROVE  MailHolds' /\ mail' \subseteq Nat \X Nat
    <3> DEFINE x == NewItem(k, P, Cardinality(P))  M == {Len(items) + 1} \X P
    <3>1. x.kind = k
      BY DEF NewItem
    <3> HIDE DEF x
    <3>2. items'[Len(items) + 1].kind = k
      BY <1>1, <2>2, <3>1 DEF x
    <3>3. M \subseteq Nat \X Nat /\ \A m \in M : m[1] = Len(items) + 1 /\ m[2] \in Pages
      <4> DEFINE n == Len(items) + 1
      <4>1. n \in Nat /\ P \subseteq Pages /\ P \subseteq Nat
        BY <1>1
      <4> HIDE DEF n
      <4>2. {n} \X P \subseteq Nat \X Nat /\ \A m \in {n} \X P : m[1] = n /\ m[2] \in Pages
        BY <4>1
      <4> QED BY <4>2 DEF n
    <3>4. mail' = mail \cup M
      BY <2>2
    <3> HIDE DEF M
    <3> QED BY <1>4, <3>2, <3>3, <3>4
  <2> QED BY <1>1, <1>6, <2>1, <2>2, RunIsAdded
<1>7. ASSUME NEW plan \in Plans, StartMulti(plan) PROVE MailHolds' /\ mail' \subseteq Nat \X Nat
  <2> DEFINE x == [NewItem("multi", {}, PageCount) EXCEPT !.status = "PENDING", !.plan = plan]
             M == {<<Len(items) + 1, 0>>}
  <2>1. items' = Append(items, x) /\ mail' = mail \cup M
    BY <1>7 DEF StartMulti
  <2>2. x.kind = "multi"
    BY DEF NewItem
  <2> HIDE DEF x
  <2>3. items'[Len(items) + 1].kind = "multi"
    BY <1>1, <2>1, <2>2
  <2>4. M \subseteq Nat \X Nat /\ \A m \in M : m[1] = Len(items) + 1
    BY <1>1
  <2> HIDE DEF M
  <2> QED BY <1>4, <2>1, <2>3, <2>4
<1> QED BY <1>3, <1>5, <1>6, <1>7, MailCases

----------------------------------------------------------------------------
(* The results of the tasks.                                                *)

(* No task of OCR has become a success.                                     *)
NoNewSuccess ==
  \A i \in DOMAIN items', p \in Pages :
    items'[i].kind \in TextKinds /\ items'[i].res[p] = "SUCCESS"
    => i \in DOMAIN items /\ items[i].res[p] = "SUCCESS"

LEMMA OneItemQuiet ==
  ASSUME NEW i, NEW y, items' = [items EXCEPT ![i] = y],
         i \in DOMAIN items => \A p \in Pages :
           y.kind \in TextKinds /\ y.res[p] = "SUCCESS" => items[i].res[p] = "SUCCESS"
  PROVE  NoNewSuccess
  BY DEF NoNewSuccess

LEMMA SameResultsQuiet ==
  ASSUME NEW i, NEW y, items' = [items EXCEPT ![i] = y], i \in DOMAIN items => y.res = items[i].res
  PROVE  NoNewSuccess
  BY OneItemQuiet

LEMMA AddedQuiet ==
  ASSUME ItemsFit, NEW x, items' = Append(items, x),
         \A p \in Pages : x.kind \notin TextKinds \/ x.res[p] # "SUCCESS"
  PROVE  NoNewSuccess
<1>1. items \in Seq(ItemType)
  BY DEF ItemsFit
<1>2. /\ DOMAIN items' = DOMAIN items \cup {Len(items) + 1}
      /\ items'[Len(items) + 1] = x
      /\ \A j \in DOMAIN items : items'[j] = items[j]
  BY <1>1
<1> QED BY <1>2 DEF NoNewSuccess

LEMMA StoredQuiet ==
  ASSUME ItemsFit, NEW i, NEW q, NEW o, o # "SUCCESS" \/ items[i].kind \notin TextKinds,
         items' = [items EXCEPT ![i].res[q] = Stored(@, o)]
  PROVE  NoNewSuccess
<1> DEFINE y == [items[i] EXCEPT !.res[q] = Stored(@, o)]
<1>1. items' = [items EXCEPT ![i] = y]
  OBVIOUS
<1>2. ASSUME i \in DOMAIN items, NEW p \in Pages, y.kind \in TextKinds, y.res[p] = "SUCCESS"
      PROVE  items[i].res[p] = "SUCCESS"
  <2>1. items[i] \in ItemType
    BY <1>2 DEF ItemsFit
  <2>2. items[i].res \in [Pages -> {"none", "PENDING", "SUCCESS", "FAILURE", "REVOKED"}]
    BY <2>1 DEF ItemType
  <2>3. y.kind = items[i].kind /\ y.res[p] = IF p = q THEN Stored(items[i].res[p], o) ELSE items[i].res[p]
    BY <2>1, <2>2 DEF ItemType
  <2> HIDE DEF y
  <2> QED BY <1>2, <2>3 DEF Stored
<1> HIDE DEF y
<1> QED BY <1>1, <1>2, OneItemQuiet

LEMMA EndsQuiet ==
  ASSUME ItemsFit, NEW a, NEW o, Ends(a, o),
         items[act[a].item].kind # "multi" =>
           o # "SUCCESS" \/ items[act[a].item].kind \notin TextKinds
  PROVE  NoNewSuccess
<1> DEFINE i == act[a].item  q == act[a].page
<1>1. CASE items[i].kind = "multi"
  <2> DEFINE y == [items[i] EXCEPT !.redis = "IN_PROGRESS"]
  <2>1. items' = [items EXCEPT ![i] = y]
    BY <1>1 DEF Ends
  <2>2. i \in DOMAIN items => y.res = items[i].res
    BY DEF ItemsFit, ItemType
  <2> HIDE DEF y, i
  <2> QED BY <2>1, <2>2, SameResultsQuiet
<1>2. CASE items[i].kind # "multi"
  <2>1. items' = [items EXCEPT ![i].res[q] = Stored(@, o)]
    BY <1>2 DEF Ends
  <2>2. o # "SUCCESS" \/ items[i].kind \notin TextKinds
    BY <1>2
  <2> HIDE DEF i, q
  <2> QED BY <2>1, <2>2, StoredQuiet
<1> QED BY <1>1, <1>2

(* A booking is a success of the task in hand.                              *)
LEMMA BookingSucceeds ==
  ASSUME ItemsFit, NEW w, BookPage(w)
  PROVE  \A i \in DOMAIN items', p \in Pages :
           items'[i].res[p] = "SUCCESS"
           => /\ i \in DOMAIN items
              /\ \/ items[i].res[p] = "SUCCESS"
                 \/ i = act[w].item /\ p = act[w].page /\ items[i].kind # "multi"
<1> DEFINE i == act[w].item  b == act[w].book  p == act[w].page  c == act[w].close
           s == [items EXCEPT ![b] = Booked(@, p, c)]
           y == IF items[i].kind = "multi" THEN [s[i] EXCEPT !.redis = "IN_PROGRESS"]
                ELSE [s[i] EXCEPT !.res[p] = "SUCCESS"]
<1>1. items' = [s EXCEPT ![i] = y]
  BY DEF BookPage
<1> HIDE DEF i, b, p, c
<1>2. DOMAIN s = DOMAIN items /\ \A j \in DOMAIN items : s[j].res = items[j].res
                                 /\ s[j].res \in [Pages -> {"none", "PENDING", "SUCCESS", "FAILURE", "REVOKED"}]
                                 /\ DOMAIN s[j] = DOMAIN items[j] /\ "res" \in DOMAIN items[j]
  <2>1. ASSUME NEW j \in DOMAIN items
        PROVE  /\ Booked(items[j], p, c).res = items[j].res
               /\ DOMAIN Booked(items[j], p, c) = DOMAIN items[j] /\ "res" \in DOMAIN items[j]
               /\ items[j].res \in [Pages -> {"none", "PENDING", "SUCCESS", "FAILURE", "REVOKED"}]
    <3>1. items[j] \in ItemType
      BY DEF ItemsFit
    <3> QED BY <3>1 DEF ItemType, Booked
  <2>2. DOMAIN s = DOMAIN items /\ \A j \in DOMAIN items :
          s[j] = IF j = b THEN Booked(items[j], p, c) ELSE items[j]
    OBVIOUS
  <2> HIDE DEF s
  <2> QED BY <2>1, <2>2
<1> HIDE DEF s
<1>3. ASSUME i \in DOMAIN items, NEW q \in Pages, y.res[q] = "SUCCESS"
      PROVE  items[i].res[q] = "SUCCESS" \/ (q = p /\ items[i].kind # "multi")
  <2>1. /\ s[i].res = items[i].res /\ DOMAIN s[i] = DOMAIN items[i] /\ "res" \in DOMAIN s[i]
        /\ s[i].res \in [Pages -> {"none", "PENDING", "SUCCESS", "FAILURE", "REVOKED"}]
    BY <1>2, <1>3
  <2>2. CASE items[i].kind = "multi"
    BY <1>3, <2>1, <2>2
  <2>3. CASE items[i].kind # "multi"
    <3>1. y.res = [s[i].res EXCEPT ![p] = "SUCCESS"]
      BY <2>1, <2>3
    <3> QED BY <1>3, <2>1, <2>3, <3>1
  <2> QED BY <2>2, <2>3
<1> HIDE DEF y
<1>4. DOMAIN items' = DOMAIN items /\ \A j \in DOMAIN items : items'[j] = IF j = i THEN y ELSE s[j]
  BY <1>1, <1>2
<1>5. \A j \in DOMAIN items', q \in Pages :
        items'[j].res[q] = "SUCCESS"
        => /\ j \in DOMAIN items
           /\ \/ items[j].res[q] = "SUCCESS"
              \/ j = i /\ q = p /\ items[j].kind # "multi"
  <2> SUFFICES ASSUME NEW j \in DOMAIN items, NEW q \in Pages, items'[j].res[q] = "SUCCESS"
               PROVE  items[j].res[q] = "SUCCESS" \/ (j = i /\ q = p /\ items[j].kind # "multi")
    BY <1>4
  <2>1. CASE j = i
    BY <1>3, <1>4, <2>1
  <2>2. CASE j # i
    BY <1>2, <1>4, <2>2
  <2> QED BY <2>1, <2>2
<1> QED BY <1>5 DEF i, p

LEMMA EditorLogQuiet ==
  ASSUME TrayInv, TextInv, NEW e \in Editors, EditorLog(e)
  PROVE  NoNewSuccess
<1> DEFINE k == Single(act[e].kind)  p == act[e].page  S == OfKind(k)
<1>1. k \notin TextKinds /\ ItemsFit
  BY DEF Single, TextKinds, Work, TrayInv
<1>2. CASE act[e].kind = "enhanced"
  BY <1>2 DEF EditorLog, NoNewSuccess
<1>3. CASE act[e].kind # "enhanced" /\ S = {}
  <2> DEFINE x == Booked(NewItem(k, {}, PageCount), p, TRUE)
  <2>1. items' = Append(items, x)
    BY <1>3 DEF EditorLog
  <2>2. x.kind = k
    BY DEF Booked, NewItem
  <2> HIDE DEF x, k
  <2> QED BY <1>1, <2>1, <2>2, AddedQuiet
<1>4. CASE act[e].kind # "enhanced" /\ S # {}
  <2> DEFINE i == NewestOf(S)  y == Booked(items[i], p, TRUE)
  <2>1. items' = [items EXCEPT ![i] = y]
    BY <1>4 DEF EditorLog
  <2> HIDE DEF i, p
  <2>2. i \in DOMAIN items => y.res = items[i].res
    BY <1>1 DEF ItemsFit, ItemType, Booked
  <2> HIDE DEF y
  <2> QED BY <2>1, <2>2, SameResultsQuiet
<1> QED BY <1>2, <1>3, <1>4

LEMMA PostRunQuiet ==
  ASSUME TrayInv, NEW r \in Posts, PostRun(r)
  PROVE  NoNewSuccess
<1>1. ItemsFit /\ PostsFit
  BY DEF TrayInv
<1>2. ASSUME NEW k \in Work, NEW P \in SUBSET Pages,
             items' = Append(items, NewItem(k, P, Cardinality(P)))
      PROVE  NoNewSuccess
  <2> DEFINE x == NewItem(k, P, Cardinality(P))
  <2>1. \A p \in Pages : x.res[p] # "SUCCESS"
    BY DEF NewItem
  <2> HIDE DEF x
  <2> QED BY <1>1, <1>2, <2>1, AddedQuiet DEF x
<1> QED BY <1>1, <1>2, RunIsAdded DEF NoNewSuccess

LEMMA OwnStepsQuiet ==
  ASSUME TrayInv, TrayOwn
  PROVE  NoNewSuccess
<1>1. ItemsFit /\ \A i \in DOMAIN items : items[i] \in ItemType
  BY DEF TrayInv, ItemsFit
<1>2. ASSUME NEW i, NEW u, NEW v, NEW s,
             \/ items' = [items EXCEPT ![i].redis = u]
             \/ items' = [items EXCEPT ![i].job = v]
             \/ items' = [items EXCEPT ![i].redis = u, ![i].job = v]
             \/ items' = [items EXCEPT ![i].status = s, ![i].redis = u]
             \/ items' = [items EXCEPT ![i].redis = u, ![i].status = s]
      PROVE  NoNewSuccess
  <2>1. PICK y : /\ items' = [items EXCEPT ![i] = y]
                 /\ \/ y = [items[i] EXCEPT !.redis = u]
                    \/ y = [items[i] EXCEPT !.job = v]
                    \/ y = [[items[i] EXCEPT !.redis = u] EXCEPT !.job = v]
                    \/ y = [[items[i] EXCEPT !.status = s] EXCEPT !.redis = u]
                    \/ y = [[items[i] EXCEPT !.redis = u] EXCEPT !.status = s]
    <3>1. CASE items' = [items EXCEPT ![i].redis = u]
      BY <3>1
    <3>2. CASE items' = [items EXCEPT ![i].job = v]
      BY <3>2
    <3>3. CASE items' = [items EXCEPT ![i].redis = u, ![i].job = v]
      <4>1. items' = [items EXCEPT ![i] = [[items[i] EXCEPT !.redis = u] EXCEPT !.job = v]]
        BY <3>3
      <4> QED BY <4>1
    <3>4. CASE items' = [items EXCEPT ![i].status = s, ![i].redis = u]
      <4>1. items' = [items EXCEPT ![i] = [[items[i] EXCEPT !.status = s] EXCEPT !.redis = u]]
        BY <3>4
      <4> QED BY <4>1
    <3>5. CASE items' = [items EXCEPT ![i].redis = u, ![i].status = s]
      <4>1. items' = [items EXCEPT ![i] = [[items[i] EXCEPT !.redis = u] EXCEPT !.status = s]]
        BY <3>5
      <4> QED BY <4>1
    <3> QED BY <1>2, <3>1, <3>2, <3>3, <3>4, <3>5
  <2>2. i \in DOMAIN items => y.res = items[i].res
    BY <1>1, <2>1 DEF ItemType
  <2> QED BY <2>1, <2>2, SameResultsQuiet
<1>3. CASE UNCHANGED items
  BY <1>3 DEF NoNewSuccess
<1>4. ASSUME NEW plan \in Plans, StartMulti(plan) PROVE NoNewSuccess
  <2> DEFINE x == [NewItem("multi", {}, PageCount) EXCEPT !.status = "PENDING", !.plan = plan]
  <2>1. items' = Append(items, x)
    BY <1>4 DEF StartMulti
  <2>2. x.kind = "multi" /\ "multi" \notin TextKinds
    BY KindsPart DEF NewItem
  <2> HIDE DEF x
  <2> QED BY <1>1, <2>1, <2>2, AddedQuiet
<1>5. ASSUME NEW i \in Items, GrowOld(i) \/ CancelRead(i) PROVE NoNewSuccess
  BY <1>2, <1>3, <1>5 DEF GrowOld, CancelRead
<1>6. CASE CancelRevoke
  <2> DEFINE i == cancel.item
             pages == {act[w].page : w \in {w \in Workers : act[w].pc # "idle" /\ act[w].item = i}}
             y == [items[i] EXCEPT !.res = [p \in Pages |->
                     IF p \in pages THEN Stored(items[i].res[p], "REVOKED") ELSE items[i].res[p]]]
  <2>1. UNCHANGED items \/ items' = [items EXCEPT ![i] = y]
    BY <1>6 DEF CancelRevoke
  <2> HIDE DEF i, pages
  <2>2. ASSUME i \in DOMAIN items, NEW p \in Pages, y.res[p] = "SUCCESS"
        PROVE  items[i].res[p] = "SUCCESS"
    BY <1>1, <2>2 DEF ItemType, Stored
  <2> HIDE DEF y
  <2> QED BY <1>3, <2>1, <2>2, OneItemQuiet
<1>7. CASE CancelState
  <2> DEFINE i == cancel.item  u == IF items[i].redis = "none" THEN items[i].redis ELSE "CANCELLED"
  <2>1. items' = [items EXCEPT ![i].redis = u, ![i].job = "CANCELLED"]
    BY <1>7 DEF CancelState
  <2> HIDE DEF i, u
  <2> QED BY <1>2, <2>1
<1>8. ASSUME NEW w \in Workers, NEW m \in mail, ReceiveMulti(w, m) PROVE NoNewSuccess
  <2> DEFINE i == m[1]
  <2>1. items' = [items EXCEPT ![i].job = "IN_PROGRESS"]
    BY <1>8 DEF ReceiveMulti
  <2> HIDE DEF i
  <2> QED BY <1>2, <2>1
<1>9. ASSUME NEW w \in Workers, NEW m \in mail, Discard(w, m) PROVE NoNewSuccess
  <2> DEFINE i == m[1]  p == m[2]
  <2>1. UNCHANGED items \/ items' = [items EXCEPT ![i].res[p] = Stored(@, "REVOKED")]
    BY <1>9 DEF Discard
  <2> DEFINE o == "REVOKED"
  <2>2. o # "SUCCESS"
    OBVIOUS
  <2>3. UNCHANGED items \/ items' = [items EXCEPT ![i].res[p] = Stored(@, o)]
    BY <2>1
  <2> HIDE DEF i, p, o
  <2>4. ASSUME items' = [items EXCEPT ![i].res[p] = Stored(@, o)] PROVE NoNewSuccess
    <3>1. ItemsFit /\ (o # "SUCCESS" \/ items[i].kind \notin TextKinds)
      BY <1>1, <2>2
    <3> QED BY <2>4, <3>1, StoredQuiet
  <2> QED BY <1>3, <2>3, <2>4
<1>10. ASSUME NEW w \in Workers, MultiStep(w) PROVE NoNewSuccess
  <2> DEFINE i == act[w].item  f == Final(act[w].errs)
             s == IF act[w].pc = "skip" THEN "SKIPPED" ELSE Final(act[w].errs)
  <2>1. \/ UNCHANGED items
        \/ items' = [items EXCEPT ![i].status = "IN_PROGRESS", ![i].redis = "IN_PROGRESS"]
        \/ items' = [items EXCEPT ![i].redis = "IN_PROGRESS", ![i].status = s]
        \/ items' = [items EXCEPT ![i].redis = f]
        \/ items' = [items EXCEPT ![i].job = f]
    BY <1>10 DEF MultiStep, PlanMulti, NextPage, CloseDocument, ReportMulti, CloseJob
  <2> HIDE DEF i, f, s
  <2> QED BY <1>2, <1>3, <2>1
<1> QED BY <1>4, <1>5, <1>6, <1>7, <1>8, <1>9, <1>10 DEF TrayOwn

(* A task of OCR becomes a success only when the page it saved is booked.   *)
LEMMA SuccessSteps ==
  ASSUME TrayInv, TextInv, [TrayNext]_trayVars
  PROVE  NoNewSuccess \/ \E w \in Workers : BookPage(w)
<1>1. ItemsFit
  BY DEF TrayInv
<1>2. ASSUME UNCHANGED items PROVE NoNewSuccess
  BY <1>2 DEF NoNewSuccess
<1>3. ASSUME NEW a \in Actors, Ends(a, "FAILURE") PROVE NoNewSuccess
  <2> DEFINE o == "FAILURE"
  <2>1. o # "SUCCESS" /\ Ends(a, o)
    BY <1>3
  <2> HIDE DEF o
  <2> QED BY <1>1, <2>1, EndsQuiet
<1>4. ASSUME NEW w \in Workers, CallFails(w) PROVE NoNewSuccess
  <2>1. CASE act[w].kind # "translation"
    BY <1>3, <1>4, <2>1 DEF CallFails, Actors
  <2>2. CASE act[w].kind = "translation"
    <3>1. Ends(w, "SUCCESS") /\ Holding(act[w])
      BY <1>4, <2>2 DEF CallFails, Holding, MultiSteps
    <3>2. items[act[w].item].kind # "multi" => items[act[w].item].kind \notin TextKinds
      BY <2>2, <3>1, KindsPart DEF TextInv, HandsHold, WorkerHand
    <3> QED BY <1>1, <3>1, <3>2, EndsQuiet
  <2> QED BY <2>1, <2>2
<1>5. ASSUME NEW w \in Workers, TaskStep(w), ~BookPage(w) PROVE NoNewSuccess
  <2>1. w \in Actors /\ (UNCHANGED items \/ Ends(w, "FAILURE") \/ CallFails(w))
    BY <1>5 DEF Actors, TaskStep, ResolveOcr, ResolveTranslation, Call, CountPages
  <2> QED BY <1>2, <1>3, <1>4, <2>1
<1>6. ASSUME NEW a \in Actors, SaveStep(a) PROVE NoNewSuccess
  <2>1. UNCHANGED items \/ Ends(a, "FAILURE")
    BY <1>6 DEF SaveStep, Bump, InsertRevision, ReadCredit, Pay
  <2> QED BY <1>2, <1>3, <2>1
<1>7. ASSUME \/ \E r \in Posts, k \in Kinds : PostCheck(r, k)
             \/ \E r \in Posts : PostKey(r)
             \/ \E k \in Kinds : StatusPoll(k)
             \/ \E w \in Workers, m \in mail : Receive(w, m)
             \/ \E p \in Pages : EditPage(p)
             \/ \E w \in Workers : DeliverAgain(w) \/ Crash(w)
             \/ \E e \in Editors, p \in Pages, k \in Kinds : EditorAsks(e, p, k)
             \/ \E e \in Editors : EditorVersion(e)
      PROVE  UNCHANGED items
  BY <1>7 DEF PostCheck, PostKey, StatusPoll, Receive, EditPage, DeliverAgain, Crash, EditorAsks,
              EditorVersion
<1>8. ASSUME [Next]_vars PROVE NoNewSuccess \/ \E w \in Workers : BookPage(w)
  BY <1>2, <1>5, <1>6, <1>7, <1>8, PostRunQuiet, EditorLogQuiet DEF Next, Step, EditorStep, vars
<1> QED BY <1>2, <1>8, OwnStepsQuiet, StepsPart DEF vars

LEMMA SuccessStillHasText ==
  ASSUME TrayInv, TextInv, ItemsEvolve, TextsGrow, [TrayNext]_trayVars
  PROVE  SuccessHasText'
<1>1. ItemsFit
  BY DEF TrayInv
<1>2. \A i \in DOMAIN items : items'[i].kind = items[i].kind
  BY DEF ItemsEvolve, Evolves
<1> SUFFICES ASSUME NEW i \in DOMAIN items', NEW p \in Pages,
                    items'[i].kind \in TextKinds, items'[i].res[p] = "SUCCESS"
             PROVE  \A k : k = items'[i].kind => Written(p, k, TRUE)'
  BY KindsPart DEF SuccessHasText
<1>3. ASSUME i \in DOMAIN items, items[i].res[p] = "SUCCESS"
      PROVE  \A k : k = items'[i].kind => Written(p, k, TRUE)'
  <2>1. \A k : k = items[i].kind => Written(p, k, TRUE)
    BY <1>2, <1>3, KindsPart DEF TextInv, SuccessHasText
  <2> QED BY <1>2, <1>3, <2>1 DEF TextsGrow
<1>4. CASE NoNewSuccess
  BY <1>3, <1>4 DEF NoNewSuccess
<1>5. ASSUME NEW w \in Workers, BookPage(w)
      PROVE  \A k : k = items'[i].kind => Written(p, k, TRUE)'
  <2>1. CASE i \in DOMAIN items /\ items[i].res[p] = "SUCCESS"
    BY <1>3, <2>1
  <2>2. CASE i \in DOMAIN items /\ i = act[w].item /\ p = act[w].page /\ items[i].kind # "multi"
    <3>1. act[w].pc = "book" /\ act[w].pc \in Paid /\ Holding(act[w])
      BY <1>5 DEF BookPage, Paid, Holding, MultiSteps
    <3>2. WorkerHand(act[w])
      BY DEF TextInv, HandsHold
    <3>3. act[w].kind = items[i].kind /\ act[w].kind \in TextKinds
      BY <1>2, <2>2, <3>1, <3>2 DEF WorkerHand
    <3>4. \A k : k = items[i].kind => Written(p, k, TRUE)
      BY <2>2, <3>1, <3>2, <3>3 DEF WorkerHand, Kept
    <3> QED BY <1>2, <2>2, <3>4 DEF TextsGrow
  <2> QED BY <1>1, <1>5, <2>1, <2>2, BookingSucceeds
<1> QED BY <1>4, <1>5, SuccessSteps

----------------------------------------------------------------------------
(* The other variables, and the charges.                                    *)

LEMMA OthersStillFit ==
  ASSUME TrayInv, TextInv, ItemsEvolve, [TrayNext]_trayVars
  PROVE  OtherTypes'
<1>1. OtherTypes /\ HandsFit /\ Len(items) \in Nat /\ mail' \subseteq Nat \X Nat
  BY HandsAreFit, MailStillHolds DEF TextInv
<1>2. CASE [Next]_vars
  BY <1>1, <1>2, OthersKeepTheirTypes
<1>3. CASE UNCHANGED vars
  BY <1>2, <1>3
<1>4. CASE TrayOwn
  <2>1. UNCHANGED <<revs, ver, boxes, trans, used, posts>>
    BY <1>4, OwnStepsLeave
  <2>2. slot' \in [Kinds -> Nat]
    <3>1. UNCHANGED slot \/ \E i \in Items : slot' = [k \in Kinds |-> IF slot[k] = i THEN 0 ELSE slot[k]]
      BY <1>4 DEF TrayOwn, StartMulti, GrowOld, CancelRead, CancelRevoke, CancelState, MultiStep,
             PlanMulti, NextPage, CloseDocument, ReportMulti, CloseJob, ReceiveMulti, Discard
    <3> QED BY <1>1, <3>1 DEF OtherTypes
  <2>3. revoked' \in [Workers -> SUBSET (Nat \X Nat)]
    <3>1. revoked \in [Workers -> SUBSET (Nat \X Nat)]
      BY <1>1 DEF OtherTypes
    <3>2. CASE CancelRevoke
      <4> DEFINE M == Messages(cancel.item)
      <4>1. revoked' = [w \in Workers |-> revoked[w] \cup M]
        BY <3>2 DEF CancelRevoke
      <4>2. M \in SUBSET (Nat \X Nat)
        <5>1. cancel.item \in Nat
          BY DEF TextInv, CancelFits
        <5>2. 0 .. PageCount \subseteq Nat
          OBVIOUS
        <5> DEFINE R == 0 .. PageCount
        <5> HIDE DEF R
        <5>3. {cancel.item} \X R \subseteq Nat \X Nat
          BY <5>1, <5>2 DEF R
        <5> QED BY <5>3 DEF Messages, R
      <4> HIDE DEF M
      <4>3. \A w \in Workers : revoked[w] \cup M \in SUBSET (Nat \X Nat)
        <5> DEFINE T == Nat \X Nat
        <5> HIDE DEF T
        <5>1. revoked \in [Workers -> SUBSET T] /\ M \in SUBSET T
          BY <3>1, <4>2 DEF T
        <5>2. \A w \in Workers : revoked[w] \cup M \in SUBSET T
          BY <5>1
        <5> QED BY <5>2 DEF T
      <4> QED BY <4>1, <4>3
    <3>3. ~CancelRevoke => UNCHANGED revoked
      BY <1>4 DEF TrayOwn, StartMulti, GrowOld, CancelRead, CancelState, MultiStep,
             PlanMulti, NextPage, CloseDocument, ReportMulti, CloseJob, ReceiveMulti, Discard
    <3> QED BY <3>1, <3>2, <3>3
  <2> QED BY <1>1, <2>1, <2>2, <2>3 DEF OtherTypes
<1> QED BY <1>2, <1>3, <1>4, StepsPart

LEMMA CancelStillFits ==
  ASSUME TrayInv, TextInv, [TrayNext]_trayVars
  PROVE  CancelFits'
<1>1. cancel \in [pc : {"idle", "revoke", "state", "write"}, item : Nat] /\ Items \subseteq Nat
  BY DEF TextInv, CancelFits, Items
<1>2. ASSUME NEW i \in Items, CancelRead(i) PROVE CancelFits'
  BY <1>1, <1>2 DEF CancelRead, CancelFits
<1>3. ASSUME CancelStep PROVE CancelFits'
  BY <1>1, <1>3 DEF CancelStep, CancelRevoke, CancelState, CancelWrite, Nothing, CancelFits
<1>4. CASE UNCHANGED cancel
  BY <1>1, <1>4 DEF CancelFits
<1>5. ASSUME \/ Step /\ UNCHANGED watch
             \/ \E r \in Posts : AddRun(r)
             \/ \E plan \in Plans : StartMulti(plan)
             \/ \E i \in Items : GrowOld(i)
             \/ PollStep
             \/ \E w \in Workers : MultiStep(w)
             \/ \E w \in Workers, m \in mail : ReceiveMulti(w, m) \/ Discard(w, m)
             \/ UNCHANGED trayVars
      PROVE  UNCHANGED cancel
  BY <1>5 DEF watch, trayVars, AddRun, StartMulti, GrowOld, PollStep, PollRead, PollAsk, PollWrite,
              MultiStep, PlanMulti, NextPage, CloseDocument, ReportMulti, CloseJob, ReceiveMulti,
              Discard
<1> QED BY <1>2, <1>3, <1>4, <1>5 DEF TrayNext

(* Nobody comes to pay by the list's own steps or a multi-batch's.          *)
LEMMA OwnStepsPayNothing ==
  ASSUME TrayInv, TrayOwn, NEW a \in Actors
  PROVE  act'[a] = act[a] \/ act'[a].pc \notin Paying
<1>1. DOMAIN act = Actors /\ DOMAIN act[a] = Fields
  BY DEF TrayInv, RecordsFit, Record
<1>2. Idle.pc = "idle" /\ DOMAIN Idle = Fields
  BY DEF Idle, Fields
<1>3. ASSUME NEW w \in Workers, NEW y, act' = [act EXCEPT ![w] = y], y.pc \notin Paying
      PROVE  act'[a] = act[a] \/ act'[a].pc \notin Paying
  BY <1>1, <1>3
<1>4. ASSUME NEW w \in Workers, NEW m \in mail, ReceiveMulti(w, m)
      PROVE  act'[a] = act[a] \/ act'[a].pc \notin Paying
  <2> DEFINE i == m[1]  y == [Idle EXCEPT !.pc = "plan", !.item = i]
  <2>1. act' = [act EXCEPT ![w] = y]
    BY <1>4 DEF ReceiveMulti
  <2>2. y.pc \notin Paying
    BY DEF Idle, Paying
  <2> HIDE DEF y
  <2> QED BY <1>3, <2>1, <2>2
<1>5. ASSUME NEW w \in Workers, MultiStep(w)
      PROVE  act'[a] = act[a] \/ act'[a].pc \notin Paying
  <2>1. ASSUME NEW v \in MultiSteps, Go(w, v) PROVE act'[a] = act[a] \/ act'[a].pc \notin Paying
    BY <1>1, <2>1 DEF Go, MultiSteps, Paying, Fields
  <2>2. CASE PlanMulti(w)
    <3> DEFINE todo == ToDo(items[act[w].item].plan)  v == IF todo = {} THEN "skip" ELSE "next"
    <3>1. act' = [act EXCEPT ![w].todo = todo, ![w].pc = v]
      BY <2>2 DEF PlanMulti
    <3>2. v \notin Paying
      BY DEF Paying
    <3> HIDE DEF todo, v
    <3> QED BY <1>1, <3>1, <3>2 DEF Fields
  <2>3. CASE NextPage(w)
    <3>1. PICK t \in act[w].todo :
            act' = [act EXCEPT ![w] = [Idle EXCEPT
                      !.pc = "resolve", !.item = act[w].item, !.errs = act[w].errs,
                      !.kind = t[1], !.page = t[2], !.todo = act[w].todo \ {t}]]
      BY <2>3 DEF NextPage
    <3> DEFINE y == [Idle EXCEPT
                      !.pc = "resolve", !.item = act[w].item, !.errs = act[w].errs,
                      !.kind = t[1], !.page = t[2], !.todo = act[w].todo \ {t}]
    <3>2. act' = [act EXCEPT ![w] = y]
      BY <3>1
    <3>3. y.pc \notin Paying
      BY DEF Idle, Paying
    <3> HIDE DEF y
    <3> QED BY <1>1, <3>2, <3>3
  <2>4. CASE CloseDocument(w) \/ ReportMulti(w)
    BY <2>1, <2>4 DEF CloseDocument, ReportMulti, MultiSteps
  <2>5. CASE CloseJob(w)
    BY <1>2, <1>3, <2>5 DEF CloseJob, Paying
  <2> QED BY <1>5, <2>2, <2>3, <2>4, <2>5 DEF MultiStep
<1>6. CASE CancelRevoke
  BY <1>2, <1>6 DEF CancelRevoke, Paying
<1>7. ASSUME \/ \E plan \in Plans : StartMulti(plan)
             \/ \E i \in Items : GrowOld(i) \/ CancelRead(i)
             \/ CancelState
             \/ \E w \in Workers, m \in mail : Discard(w, m)
      PROVE  UNCHANGED act
  BY <1>7 DEF StartMulti, GrowOld, CancelRead, CancelState, Discard
<1> QED BY <1>4, <1>5, <1>6, <1>7 DEF TrayOwn

LEMMA ChargesStay ==
  ASSUME TrayInv, TextInv, [TrayNext]_trayVars
  PROVE  Charges'
<1>1. /\ OtherTypes /\ HandsFit /\ Charges /\ \A a \in Actors : act[a].seen \in Nat
      /\ used \in [Sorts -> Nat]
  BY HandsAreFit DEF TextInv, HandsFit, OtherTypes
<1>2. CASE [Next]_vars
  <2>1. \A s \in Sorts : Covered(s)'
    BY <1>1, <1>2, StaysCovered
  <2>2. spent' \in [{"faults", "edits", "cancels"} -> Nat]
    BY <1>1, <1>2, SpentGrows
  <2> QED BY <2>1, <2>2 DEF Charges
<1>3. CASE TrayOwn
  <2>1. UNCHANGED revs /\ UNCHANGED used
    BY <1>3, OwnStepsLeave
  <2>2. /\ spent' \in [{"faults", "edits", "cancels"} -> Nat]
        /\ spent.edits \in Nat /\ spent'.edits = spent.edits
    <3>1. UNCHANGED spent \/ Spend("cancels")
      BY <1>3 DEF TrayOwn, StartMulti, GrowOld, CancelRead, CancelRevoke, CancelState, MultiStep,
             PlanMulti, NextPage, CloseDocument, ReportMulti, CloseJob, ReceiveMulti, Discard
    <3>2. spent \in [{"faults", "edits", "cancels"} -> Nat]
      BY <1>1 DEF Charges
    <3>3. UNCHANGED spent \/ spent' = [spent EXCEPT !["cancels"] = @ + 1]
      BY <3>1 DEF Spend
    <3> QED BY <3>2, <3>3
  <2>3. ASSUME NEW s \in Sorts PROVE Covered(s)'
    <3>1. Covered(s) /\ IsFiniteSet(BotSet(s)) /\ Cardinality(BotSet(s)) \in Nat
      BY <1>1, FS_CardinalityType DEF Charges, Covered
    <3>2. BotSet(s)' = BotSet(s)
      BY <2>1 DEF BotSet, SortOf
    <3>3. \A a \in Actors : act'[a] = act[a] \/ act'[a].pc \notin Paying
      BY <1>3, OwnStepsPayNothing
    <3>4. \A a \in Actors : Payer(act'[a], s) =>
            /\ Payer(act[a], s)
            /\ act'[a].pc = "pay" => \/ act[a].pc = "pay" /\ act'[a].seen = act[a].seen
                                     \/ act'[a].seen = used[s]
      BY <3>3 DEF Payer
    <3>5. used[s] \in Nat /\ used'[s] = used[s] /\ \A a \in Actors : act[a].seen \in Nat
      BY <1>1, <2>1
    <3>6. spent'.edits \in Nat /\ spent.edits <= spent'.edits /\ spent.edits \in Nat
      BY <2>2
    <3>7. /\ IsFiniteSet(BotSet(s)') /\ Cardinality(BotSet(s)') \in Nat
          /\ Cardinality(BotSet(s)) <= Cardinality(BotSet(s)')
      BY <3>1, <3>2
    <3> QED BY <3>1, <3>4, <3>5, <3>6, <3>7, NobodyElsePays
  <2> QED BY <2>2, <2>3 DEF Charges
<1> QED BY <1>2, <1>3, StepsPart DEF vars

LEMMA StepKeepsTextInv ==
  ASSUME TrayInv, TextInv, [TrayNext]_trayVars
  PROVE  TextInv'
<1>1. ItemsEvolve
  BY StepKeepsItems DEF TrayInv
<1>2. TextsGrow
  BY TextsStay
<1> QED BY <1>1, <1>2, OthersStillFit, HandsStillHold, MailStillHolds, CancelStillFits,
           ChargesStay, SuccessStillHasText DEF TextInv

LEMMA TextInvIsKept == TraySpec => [](TrayInv /\ TextInv)
<1>1. TrayInv /\ TextInv /\ [TrayNext]_trayVars => TrayInv' /\ TextInv'
  BY StepKeepsTrayInv, StepKeepsTextInv
<1> QED BY <1>1, InitTray, InitText, PTL DEF TraySpec

(* The types of PageTasks's variables, also while multi-batches run on      *)
(* them, entries are cancelled and tasks revoked.                           *)
THEOREM TrayTypeCorrect == TraySpec => []TypeOK
<1>1. TrayInv /\ TextInv => TypeOK
  BY DEF TrayInv, TextInv, ItemsFit, ItemType, RecordsFit, OtherTypes, RevisionType, TypeOK
<1> QED BY <1>1, TextInvIsKept, PTL

(* An OCR task whose result is SUCCESS has the bot's text on its page's     *)
(* track, whatever was cancelled, killed, delivered again or read by a      *)
(* multi-batch in between.                                                  *)
THEOREM SuccessesHaveText == TraySpec => []SuccessHasText
<1>1. TextInv => SuccessHasText
  BY DEF TextInv
<1> QED BY <1>1, TextInvIsKept, PTL

(* The organization is not charged for more than was saved either when the  *)
(* pages are a multi-batch's, or its tasks are revoked between the save and *)
(* the charge or between the two halves of a charge.                        *)
THEOREM OnlySavedWorkIsChargedInBatches == TraySpec => []ChargesAreForSavedWork
<1>1. TextInv => ChargesAreForSavedWork
  <2> SUFFICES ASSUME TextInv, NEW s \in Sorts PROVE used[s] <= BotRevisions(s) + spent.edits
    BY DEF ChargesAreForSavedWork
  <2>1. BotRevisions(s) = Cardinality(BotSet(s))
    BY DEF BotRevisions, BotSet
  <2>2. /\ Cardinality(Unpaid(s)) \in Nat /\ Cardinality(BotSet(s)) \in Nat
        /\ used[s] \in Nat /\ spent.edits \in Nat
        /\ used[s] + Cardinality(Unpaid(s)) <= Cardinality(BotSet(s)) + spent.edits
    BY FS_CardinalityType DEF TextInv, Charges, Covered, Covers, OtherTypes
  <2> QED BY <2>1, <2>2
<1> QED BY <1>1, TextInvIsKept, PTL
=============================================================================
