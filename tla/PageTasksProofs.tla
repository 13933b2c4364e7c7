------------------------- MODULE PageTasksProofs -------------------------
(* The books of the page tasks are true, for any number of pages, workers,  *)
(* editors, requests and events: a page that is booked as done has its text,*)
(* the first run of a kind is closed only when all its pages are done, and  *)
(* the organization is charged for no more than was saved.                  *)
EXTENDS PageTasks, FiniteSetTheorems, WellFoundedInduction, TLAPS

ItemType ==
  [kind : ItemKinds, total : Nat, status : Statuses, job : Statuses,
   row : [Pages -> {"none", "PENDING", "COMPLETED"}],
   res : [Pages -> {"none", "PENDING", "SUCCESS", "FAILURE", "REVOKED"}],
   redis : Statuses \cup {"none"}, plan : SUBSET Work]

RevisionType == [track : Tracks, bot : BOOLEAN]

WorkerSteps == {"idle", "resolve", "call", "bump", "insert", "credit", "pay", "count", "book"}
EditorSteps == {"idle", "credit", "pay", "version", "bump", "insert", "log"}

ActType ==
  [pc : WorkerSteps \cup EditorSteps, item : Nat, kind : Work \cup {"-"}, page : Pages \cup {0},
   pv : Nat, src : Nat, seen : Nat, book : Nat, close : BOOLEAN, todo : {{}}, errs : Nat]

(* The types of what neither the items nor the tasks are in.                *)
OtherTypes ==
  /\ revs \in [Pages -> Seq(RevisionType)]
  /\ ver \in [Pages -> [Tracks -> Nat]]
  /\ boxes \subseteq Pages
  /\ trans \subseteq Pages \X Nat
  /\ mail \subseteq Nat \X Nat
  /\ revoked \in [Workers -> SUBSET (Nat \X Nat)]
  /\ used \in [Sorts -> Nat]
  /\ slot \in [Kinds -> Nat]
  /\ posts \in [Posts -> [pc : {"idle", "run", "key"}, kind : Kinds \cup {"-"}, item : Nat]]
  /\ \A r \in Posts : posts[r].pc # "idle" => posts[r].kind \in Kinds

ItemTypes == items \in Seq(ItemType) /\ \A i \in DOMAIN items : items[i].kind # "multi"

(* The pages a run was started for.                                         *)
Asked(i)   == {p \in Pages : items[i].res[p] # "none"}
Asks(i, p) == i \in DOMAIN items /\ items[i].kind \in Work /\ p \in Asked(i)

(* Messages and workers are about pages a run was started for.              *)
TaskTypes ==
  /\ act \in [Actors -> ActType]
  /\ \A m \in mail : Asks(m[1], m[2])
  /\ \A w \in Workers :
       /\ act[w].pc \in WorkerSteps
       /\ act[w].pc # "idle" => /\ Asks(act[w].item, act[w].page)
                                /\ act[w].kind = items[act[w].item].kind
       /\ act[w].pc = "book" => act[w].book \in OfKind(act[w].kind)
  /\ \A e \in Editors :
       /\ act[e].pc \in EditorSteps
       /\ act[e].pc # "idle" => act[e].page \in Pages /\ act[e].kind \in Kinds

Types == OtherTypes /\ ItemTypes /\ TaskTypes

(* What is true of the workers' and the requests' records also while        *)
(* multi-batches run (TaskTrayProofs): whoever is at a step of a page has a  *)
(* page in hand.                                                            *)
Fields == {"pc", "item", "kind", "page", "pv", "src", "seen", "book", "close", "todo", "errs"}
MultiSteps == {"plan", "next", "skip", "report", "job"}
Holding(x) == x.pc \notin MultiSteps \cup {"idle"}

HandsFit ==
  /\ DOMAIN act = Actors
  /\ \A a \in Actors :
       /\ DOMAIN act[a] = Fields /\ act[a].src \in Nat /\ act[a].seen \in Nat
       /\ Holding(act[a]) => act[a].page \in Pages /\ act[a].kind \in Work

LEMMA TypesAreTypeOK == Types => TypeOK
  BY DEF Types, OtherTypes, ItemTypes, ItemType, RevisionType, TaskTypes, TypeOK

LEMMA KindFacts ==
  ASSUME NEW k \in Work
  PROVE  /\ k \in Tracks /\ k \in ItemKinds /\ k # "multi" /\ SortOf(k) \in Sorts
         /\ Single(k) \in ItemKinds \ Work /\ Single(k) # "multi"
  BY DEF Work, Tracks, ItemKinds, SortOf, Sorts, Single

LEMMA TypesFit == Types => OtherTypes /\ HandsFit /\ Len(items) \in Nat
<1> SUFFICES ASSUME Types PROVE HandsFit /\ Len(items) \in Nat
  BY DEF Types
<1>1. Len(items) \in Nat
  BY DEF Types, ItemTypes
<1>2. \A a \in Actors : DOMAIN act[a] = Fields /\ act[a].src \in Nat /\ act[a].seen \in Nat
  <2>1. \A a \in Actors : act[a] \in ActType
    BY DEF Types, TaskTypes
  <2>2. \A x \in ActType : DOMAIN x = Fields /\ x.src \in Nat /\ x.seen \in Nat
    BY DEF ActType, Fields
  <2> QED BY <2>1, <2>2
<1>3. \A w \in Workers : act[w].pc # "idle" => act[w].page \in Pages /\ act[w].kind \in Work
  BY DEF Types, TaskTypes, Asks, Asked
<1>4. \A e \in Editors : act[e].pc # "idle" => act[e].page \in Pages /\ act[e].kind \in Work
  BY ConstantsAssumption DEF Types, TaskTypes
<1>5. DOMAIN act = Actors
  BY DEF Types, TaskTypes
<1> QED BY <1>1, <1>2, <1>3, <1>4, <1>5 DEF HandsFit, Holding, Actors

LEMMA InitTypes == Init => Types
<1> SUFFICES ASSUME Init PROVE Types
  OBVIOUS
<1> USE ConstantsAssumption DEF Init
<1>1. OtherTypes
  BY DEF OtherTypes
<1>2. ItemTypes
  BY DEF ItemTypes
<1>3. Idle \in ActType /\ Idle.pc = "idle"
  BY DEF Idle, ActType, WorkerSteps, EditorSteps
<1>4. TaskTypes
  BY <1>3 DEF TaskTypes, Actors, WorkerSteps, EditorSteps
<1> QED BY <1>1, <1>2, <1>4 DEF Types

(* The last of some numbers that are bounded.                               *)
LEMMA LastOne ==
  ASSUME NEW n \in Nat, NEW S \in SUBSET (1 .. n), S # {}
  PROVE  NewestOf(S) \in S /\ \A j \in S : j <= NewestOf(S)
<1> DEFINE T == {n - i : i \in S}
<1>1. \A i \in S : i \in Nat /\ n - i \in Nat /\ n - i \in T
  OBVIOUS
<1>2. T \subseteq Nat /\ T # {}
  BY <1>1
<1>3. PICK x \in T : \A y \in T : ~(<<y, x>> \in OpToRel(<, Nat))
  <2> HIDE DEF T
  <2> QED BY <1>2, NatLessThanWellFounded, WFMin
<1>4. \A y \in T : ~(y < x)
  BY <1>2, <1>3 DEF OpToRel
<1>5. PICK k \in S : x = n - k
  OBVIOUS
<1> HIDE DEF T
<1>6. \A j \in S : ~(n - j < n - k)
  BY <1>1, <1>4, <1>5
<1>7. \A j \in S : j <= k
  BY <1>1, <1>6
<1> QED BY <1>7 DEF NewestOf

----------------------------------------------------------------------------
(* What the steps do to the items.                                          *)

StartsRun == \E k \in Kinds, P \in SUBSET Pages :
  items' = Append(items, NewItem(k, P, Cardinality(P)))

Answers == \E i \in DOMAIN items, o \in {"SUCCESS", "FAILURE"} : \E p \in Asked(i) :
  items' = [items EXCEPT ![i].res[p] = Stored(@, o)]

Books(w) == LET i == act[w].item  b == act[w].book  p == act[w].page
  IN items' = [[items EXCEPT ![b] = Booked(@, p, act[w].close)] EXCEPT ![i].res[p] = "SUCCESS"]

(* The editor's item and its one page.                                      *)
Logs == \E k \in Kinds, p \in Pages :
  \/ items' = Append(items, Booked(NewItem(Single(k), {}, PageCount), p, TRUE))
  \/ \E i \in OfKind(Single(k)) : items' = [items EXCEPT ![i] = Booked(@, p, TRUE)]

LEMMA EndsAnswers ==
  ASSUME Types, NEW w \in Workers, act[w].pc # "idle", NEW o \in {"SUCCESS", "FAILURE"}, Ends(w, o)
  PROVE  Answers /\ act' = [act EXCEPT ![w] = Idle]
<1>1. Asks(act[w].item, act[w].page) /\ items[act[w].item].kind # "multi"
  BY DEF Types, TaskTypes, ItemTypes, Asks
<1> QED BY <1>1 DEF Ends, Answers, Asks

LEMMA ItemCases ==
  ASSUME Types, [Next]_vars
  PROVE  \/ UNCHANGED items
         \/ StartsRun \/ Answers \/ Logs
         \/ \E w \in Workers : act[w].pc = "book" /\ BookPage(w) /\ Books(w)
<1> USE ConstantsAssumption
<1>1. ASSUME NEW r \in Posts, PostRun(r) PROVE UNCHANGED items \/ StartsRun
  <2>1. CASE PagesFor(posts[r].kind) = {}
    BY <1>1, <2>1 DEF PostRun
  <2>2. CASE PagesFor(posts[r].kind) # {}
    <3>1. PagesFor(posts[r].kind) \subseteq Pages
      BY DEF PagesFor
    <3>2. posts[r].kind \in Kinds
      BY <1>1 DEF PostRun, Types, OtherTypes
    <3> QED BY <1>1, <2>2, <3>1, <3>2 DEF PostRun, StartsRun
  <2> QED BY <2>1, <2>2
<1>2. ASSUME NEW w \in Workers, TaskStep(w), ~BookPage(w) PROVE UNCHANGED items \/ Answers
  <2>1. CASE ResolveOcr(w)
    <3>1. UNCHANGED items \/ (act[w].pc # "idle" /\ Ends(w, "FAILURE"))
      BY <2>1 DEF ResolveOcr
    <3> QED BY <3>1, EndsAnswers
  <2>2. CASE ResolveTranslation(w)
    <3>1. UNCHANGED items \/ (act[w].pc # "idle" /\ Ends(w, "FAILURE"))
      BY <2>2 DEF ResolveTranslation
    <3> QED BY <3>1, EndsAnswers
  <2>3. CASE Call(w)
    <3>1. UNCHANGED items \/ (act[w].pc # "idle" /\ Ends(w, "FAILURE"))
      BY <2>3 DEF Call
    <3> QED BY <3>1, EndsAnswers
  <2>4. CASE CallFails(w)
    <3>1. act[w].pc # "idle" /\ \E o \in {"SUCCESS", "FAILURE"} : Ends(w, o)
      BY <2>4 DEF CallFails
    <3> QED BY <3>1, EndsAnswers
  <2>5. CASE CountPages(w)
    BY <2>5 DEF CountPages
  <2> QED BY <1>2, <2>1, <2>2, <2>3, <2>4, <2>5 DEF TaskStep
<1>3. ASSUME NEW a \in Actors, SaveStep(a) PROVE UNCHANGED items \/ Answers
  <2>1. CASE Bump(a)
    <3>1. UNCHANGED items \/ (a \in Workers /\ act[a].pc # "idle" /\ Ends(a, "FAILURE"))
      BY <2>1 DEF Bump
    <3> QED BY <3>1, EndsAnswers
  <2>2. CASE InsertRevision(a) \/ ReadCredit(a) \/ Pay(a)
    BY <2>2 DEF InsertRevision, ReadCredit, Pay
  <2> QED BY <1>3, <2>1, <2>2 DEF SaveStep
<1>4. ASSUME NEW w \in Workers, BookPage(w) PROVE act[w].pc = "book" /\ Books(w)
  <2>1. items[act[w].item].kind # "multi"
    BY <1>4 DEF BookPage, Types, TaskTypes, ItemTypes, Asks
  <2> QED BY <1>4, <2>1 DEF BookPage, Books
<1>5. ASSUME NEW e \in Editors, EditorLog(e) PROVE UNCHANGED items \/ Logs
  <2>1. act[e].page \in Pages /\ act[e].kind \in Kinds
    BY <1>5 DEF EditorLog, Types, TaskTypes
  <2>2. CASE act[e].kind = "enhanced"
    BY <1>5, <2>2 DEF EditorLog
  <2>3. CASE OfKind(Single(act[e].kind)) = {} /\ act[e].kind # "enhanced"
    BY <1>5, <2>1, <2>3 DEF EditorLog, Logs
  <2>4. CASE OfKind(Single(act[e].kind)) # {} /\ act[e].kind # "enhanced"
    <3> DEFINE S == OfKind(Single(act[e].kind))
    <3>1. S \subseteq 1 .. Len(items)
      BY DEF OfKind, Types, ItemTypes
    <3>2. NewestOf(S) \in S
      <4>1. Len(items) \in Nat /\ S # {} /\ S \in SUBSET (1 .. Len(items))
        BY <2>4, <3>1 DEF Types, ItemTypes
      <4> HIDE DEF S
      <4> QED BY <4>1, LastOne
    <3> QED BY <1>5, <2>1, <2>4, <3>2 DEF EditorLog, Logs
  <2> QED BY <2>2, <2>3, <2>4
<1>6. ASSUME \/ \E r \in Posts, k \in Kinds : PostCheck(r, k)
             \/ \E r \in Posts : PostKey(r)
             \/ \E k \in Kinds : StatusPoll(k)
             \/ \E w \in Workers, m \in mail : Receive(w, m)
             \/ \E w \in Workers : DeliverAgain(w) \/ Crash(w)
             \/ \E p \in Pages : EditPage(p)
             \/ \E e \in Editors, p \in Pages, k \in Kinds : EditorAsks(e, p, k)
             \/ \E e \in Editors : EditorVersion(e)
      PROVE  UNCHANGED items
  BY <1>6 DEF PostCheck, PostKey, StatusPoll, Receive, DeliverAgain, Crash, EditPage, EditorAsks,
              EditorVersion
<1> QED BY <1>1, <1>2, <1>3, <1>4, <1>5, <1>6 DEF Next, Step, EditorStep, vars, TaskStep

(* The pages a run was started for stay the same, and so does its kind.     *)
ItemsKept ==
  /\ DOMAIN items \subseteq DOMAIN items'
  /\ \A i \in DOMAIN items :
       items'[i].kind = items[i].kind /\ items'[i].total = items[i].total /\ Asked(i)' = Asked(i)

LEMMA NewItemType ==
  ASSUME NEW k \in ItemKinds \ {"multi"}, NEW P \in SUBSET Pages, NEW n \in Nat
  PROVE  NewItem(k, P, n) \in ItemType
  BY DEF NewItem, ItemType, Statuses

LEMMA PagesAreFinite == IsFiniteSet(Pages) /\ \A P \in SUBSET Pages : IsFiniteSet(P) /\ Cardinality(P) \in Nat
<1>1. IsFiniteSet(Pages)
  BY ConstantsAssumption, FS_Interval DEF Pages
<1> QED BY <1>1, FS_Subset, FS_CardinalityType

LEMMA BookedType ==
  ASSUME NEW x \in ItemType, NEW p \in Pages, NEW close \in BOOLEAN
  PROVE  /\ Booked(x, p, close) \in ItemType
         /\ \A f \in {"kind", "total", "res"} : Booked(x, p, close)[f] = x[f]
         /\ Booked(x, p, close).row = [x.row EXCEPT ![p] = "COMPLETED"]
         /\ Booked(x, p, close).status = IF close THEN "COMPLETED" ELSE x.status
  BY DEF Booked, ItemType, Statuses

(* A row of items that is written again, or added.                          *)
LEMMA ItemWritten ==
  ASSUME NEW s \in Seq(ItemType), NEW i \in DOMAIN s, NEW x \in ItemType
  PROVE  /\ [s EXCEPT ![i] = x] \in Seq(ItemType)
         /\ DOMAIN [s EXCEPT ![i] = x] = DOMAIN s
         /\ [s EXCEPT ![i] = x][i] = x
         /\ \A j \in DOMAIN s : j # i => [s EXCEPT ![i] = x][j] = s[j]
  OBVIOUS

LEMMA ItemAdded ==
  ASSUME NEW s \in Seq(ItemType), NEW x \in ItemType
  PROVE  /\ Append(s, x) \in Seq(ItemType)
         /\ DOMAIN Append(s, x) = DOMAIN s \cup {Len(s) + 1}
         /\ Len(s) + 1 \notin DOMAIN s
         /\ Append(s, x)[Len(s) + 1] = x
         /\ \A j \in DOMAIN s : Append(s, x)[j] = s[j]
  OBVIOUS

LEMMA RunStarted ==
  ASSUME ItemTypes, StartsRun
  PROVE  /\ ItemTypes' /\ ItemsKept
         /\ \A j \in DOMAIN items : items'[j] = items[j]
         /\ \E k \in Kinds, P \in SUBSET Pages :
              /\ DOMAIN items' = DOMAIN items \cup {Len(items) + 1}
              /\ Len(items) + 1 \notin DOMAIN items
              /\ items'[Len(items) + 1] = NewItem(k, P, Cardinality(P))
<1>1. PICK k \in Kinds, P \in SUBSET Pages : items' = Append(items, NewItem(k, P, Cardinality(P)))
  BY DEF StartsRun
<1>2. NewItem(k, P, Cardinality(P)) \in ItemType
  BY ConstantsAssumption, KindFacts, NewItemType, PagesAreFinite
<1>3. NewItem(k, P, Cardinality(P)).kind # "multi"
  BY ConstantsAssumption, KindFacts DEF NewItem
<1>4. /\ items' \in Seq(ItemType) /\ DOMAIN items' = DOMAIN items \cup {Len(items) + 1}
      /\ Len(items) + 1 \notin DOMAIN items
      /\ items'[Len(items) + 1] = NewItem(k, P, Cardinality(P))
      /\ \A j \in DOMAIN items : items'[j] = items[j]
  BY <1>1, <1>2, ItemAdded DEF ItemTypes
<1>5. ItemTypes' /\ ItemsKept
  BY <1>3, <1>4 DEF ItemTypes, ItemsKept, Asked
<1> QED BY <1>4, <1>5

LEMMA ResultNoted ==
  ASSUME ItemTypes, Answers
  PROVE  /\ ItemTypes' /\ ItemsKept
         /\ DOMAIN items' = DOMAIN items
         /\ \A j \in DOMAIN items : items'[j].row = items[j].row /\ items'[j].status = items[j].status
<1>1. PICK i \in DOMAIN items, o \in {"SUCCESS", "FAILURE"} : \E p \in Asked(i) :
        items' = [items EXCEPT ![i].res[p] = Stored(@, o)]
  BY DEF Answers
<1>2. PICK p \in Asked(i) : items' = [items EXCEPT ![i].res[p] = Stored(@, o)]
  BY <1>1
<1> DEFINE x == [items[i] EXCEPT !.res[p] = Stored(@, o)]
<1>3. items[i] \in ItemType /\ items[i].kind # "multi" /\ p \in Pages /\ items[i].res[p] # "none"
  BY <1>2 DEF ItemTypes, Asked
<1>4. Stored(items[i].res[p], o) \in {"SUCCESS", "FAILURE"}
  BY DEF Stored
<1>5. /\ x \in ItemType
      /\ \A f \in {"kind", "total", "row", "status"} : x[f] = items[i][f]
      /\ x.res = [items[i].res EXCEPT ![p] = Stored(items[i].res[p], o)]
  BY <1>3, <1>4 DEF ItemType
<1>6. items' = [items EXCEPT ![i] = x]
  BY <1>2
<1>7. {q \in Pages : x.res[q] # "none"} = Asked(i)
  BY <1>3, <1>4, <1>5 DEF Asked, ItemType
<1> HIDE DEF x
<1>8. /\ items' \in Seq(ItemType) /\ DOMAIN items' = DOMAIN items /\ items'[i] = x
      /\ \A j \in DOMAIN items : j # i => items'[j] = items[j]
  BY <1>5, <1>6, ItemWritten DEF ItemTypes
<1>9. \A j \in DOMAIN items :
        /\ \A f \in {"kind", "total", "row", "status"} : items'[j][f] = items[j][f]
        /\ Asked(j)' = Asked(j)
  BY <1>5, <1>7, <1>8 DEF Asked
<1> QED BY <1>8, <1>9 DEF ItemTypes, ItemsKept

LEMMA PageLogged ==
  ASSUME ItemTypes, Logs
  PROVE  /\ ItemTypes' /\ ItemsKept
         /\ \A j \in DOMAIN items : items[j].kind \in Work => items'[j] = items[j]
         /\ \A j \in DOMAIN items' \ DOMAIN items : items'[j].kind \notin Work
<1>1. PICK k \in Kinds, p \in Pages :
        \/ items' = Append(items, Booked(NewItem(Single(k), {}, PageCount), p, TRUE))
        \/ \E i \in OfKind(Single(k)) : items' = [items EXCEPT ![i] = Booked(@, p, TRUE)]
  BY DEF Logs
<1>2. Single(k) \in ItemKinds \ Work /\ Single(k) # "multi"
  BY ConstantsAssumption, KindFacts
<1>3. CASE items' = Append(items, Booked(NewItem(Single(k), {}, PageCount), p, TRUE))
  <2> DEFINE x == Booked(NewItem(Single(k), {}, PageCount), p, TRUE)
  <2>1. NewItem(Single(k), {}, PageCount) \in ItemType
    BY <1>2, ConstantsAssumption, NewItemType
  <2>2. x \in ItemType /\ x.kind = Single(k)
    BY <2>1, BookedType DEF NewItem
  <2>3. items' = Append(items, x)
    BY <1>3
  <2> HIDE DEF x
  <2>4. /\ items' \in Seq(ItemType) /\ DOMAIN items' = DOMAIN items \cup {Len(items) + 1}
        /\ items'[Len(items) + 1] = x /\ Len(items) + 1 \notin DOMAIN items
        /\ \A j \in DOMAIN items : items'[j] = items[j]
    BY <2>2, <2>3, ItemAdded DEF ItemTypes
  <2> QED BY <1>2, <2>2, <2>4 DEF ItemTypes, ItemsKept, Asked
<1>4. CASE \E i \in OfKind(Single(k)) : items' = [items EXCEPT ![i] = Booked(@, p, TRUE)]
  <2>1. PICK i \in OfKind(Single(k)) : items' = [items EXCEPT ![i] = Booked(items[i], p, TRUE)]
    BY <1>4
  <2>2. i \in DOMAIN items /\ items[i].kind = Single(k) /\ items[i] \in ItemType
    BY DEF OfKind, ItemTypes
  <2> DEFINE x == Booked(items[i], p, TRUE)
  <2>3. x \in ItemType /\ \A f \in {"kind", "total", "res"} : x[f] = items[i][f]
    BY <2>2, BookedType
  <2> HIDE DEF x
  <2>4. /\ items' \in Seq(ItemType) /\ DOMAIN items' = DOMAIN items /\ items'[i] = x
        /\ \A j \in DOMAIN items : j # i => items'[j] = items[j]
    BY <2>1, <2>2, <2>3, ItemWritten DEF ItemTypes, x
  <2>5. \A j \in DOMAIN items : \A f \in {"kind", "total", "res"} : items'[j][f] = items[j][f]
    BY <2>3, <2>4
  <2> QED BY <1>2, <2>2, <2>4, <2>5 DEF ItemTypes, ItemsKept, Asked
<1> QED BY <1>1, <1>3, <1>4
LEMMA PageIsBooked ==
  ASSUME Types, NEW w \in Workers, act[w].pc = "book", Books(w)
  PROVE  /\ ItemTypes' /\ ItemsKept
         /\ DOMAIN items' = DOMAIN items
         /\ \A j \in DOMAIN items : \A q \in Pages :
              items'[j].row[q] = IF j = act[w].book /\ q = act[w].page THEN "COMPLETED"
                                 ELSE items[j].row[q]
         /\ \A j \in DOMAIN items :
              items'[j].status = IF j = act[w].book /\ act[w].close THEN "COMPLETED"
                                 ELSE items[j].status
<1> DEFINE i == act[w].item  b == act[w].book  p == act[w].page
           y == Booked(items[b], p, act[w].close)
           s == [items EXCEPT ![b] = y]
           x == [s[i] EXCEPT !.res[p] = "SUCCESS"]
<1>1. /\ i \in DOMAIN items /\ b \in DOMAIN items /\ p \in Asked(i) /\ p \in Pages
      /\ act[w].close \in BOOLEAN
  BY DEF Types, TaskTypes, Asks, Asked, OfKind, Actors, ActType
<1>2. /\ items \in Seq(ItemType)
      /\ \A j \in DOMAIN items : items[j] \in ItemType /\ items[j].kind # "multi"
  BY DEF Types, ItemTypes
<1>a. /\ Booked(items[b], p, act[w].close) \in ItemType
      /\ \A f \in {"kind", "total", "res"} : Booked(items[b], p, act[w].close)[f] = items[b][f]
      /\ Booked(items[b], p, act[w].close).row = [items[b].row EXCEPT ![p] = "COMPLETED"]
      /\ Booked(items[b], p, act[w].close).status
           = IF act[w].close THEN "COMPLETED" ELSE items[b].status
  <2> DEFINE it == items[b]  pp == p  c == act[w].close
  <2>1. it \in ItemType /\ pp \in Pages /\ c \in BOOLEAN
    BY <1>1, <1>2
  <2> HIDE DEF it, pp, c
  <2>2. /\ Booked(it, pp, c) \in ItemType
        /\ \A f \in {"kind", "total", "res"} : Booked(it, pp, c)[f] = it[f]
        /\ Booked(it, pp, c).row = [it.row EXCEPT ![pp] = "COMPLETED"]
        /\ Booked(it, pp, c).status = IF c THEN "COMPLETED" ELSE it.status
    BY <2>1, BookedType
  <2> QED BY <2>2 DEF it, pp, c
<1>3. /\ y \in ItemType /\ \A f \in {"kind", "total", "res"} : y[f] = items[b][f]
      /\ y.row = [items[b].row EXCEPT ![p] = "COMPLETED"]
      /\ y.status = IF act[w].close THEN "COMPLETED" ELSE items[b].status
  BY <1>a
<1>4. items' = [s EXCEPT ![i].res[p] = "SUCCESS"]
  BY DEF Books
<1> HIDE DEF y
<1>5. /\ s \in Seq(ItemType) /\ DOMAIN s = DOMAIN items /\ s[b] = y
      /\ \A j \in DOMAIN items : j # b => s[j] = items[j]
  BY <1>1, <1>2, <1>3, ItemWritten
<1>6. items' = [s EXCEPT ![i] = x]
  BY <1>4
<1> HIDE DEF s
<1>7. s[i] \in ItemType
  BY <1>1, <1>5
<1>8. /\ x \in ItemType /\ \A f \in {"kind", "total", "row", "status"} : x[f] = s[i][f]
      /\ x.res = [s[i].res EXCEPT ![p] = "SUCCESS"]
  BY <1>7 DEF ItemType
<1> HIDE DEF x
<1>9. /\ items' \in Seq(ItemType) /\ DOMAIN items' = DOMAIN items /\ items'[i] = x
      /\ \A j \in DOMAIN items : j # i => items'[j] = s[j]
  BY <1>1, <1>5, <1>6, <1>8, ItemWritten
<1>10. \A j \in DOMAIN items :
         /\ items'[j].kind = items[j].kind /\ items'[j].total = items[j].total
         /\ items'[j].row = s[j].row /\ items'[j].status = s[j].status
         /\ items'[j].res = IF j = i THEN [s[i].res EXCEPT ![p] = "SUCCESS"] ELSE s[j].res
         /\ s[j].res = items[j].res
  BY <1>3, <1>5, <1>8, <1>9
<1>11. \A j \in DOMAIN items : Asked(j)' = Asked(j)
  <2> SUFFICES ASSUME NEW j \in DOMAIN items, NEW q \in Pages
               PROVE  items'[j].res[q] # "none" <=> items[j].res[q] # "none"
    BY DEF Asked
  <2>1. items[j].res \in [Pages -> {"none", "PENDING", "SUCCESS", "FAILURE", "REVOKED"}]
    BY <1>2 DEF ItemType
  <2> QED BY <1>1, <1>10, <2>1 DEF Asked
<1>12. \A j \in DOMAIN items : \A q \in Pages :
         items'[j].row[q] = IF j = b /\ q = p THEN "COMPLETED" ELSE items[j].row[q]
  <2> SUFFICES ASSUME NEW j \in DOMAIN items, NEW q \in Pages
               PROVE  s[j].row[q] = IF j = b /\ q = p THEN "COMPLETED" ELSE items[j].row[q]
    BY <1>10
  <2>1. items[j].row \in [Pages -> {"none", "PENDING", "COMPLETED"}]
    BY <1>2 DEF ItemType
  <2> QED BY <1>3, <1>5, <2>1
<1>13. \A j \in DOMAIN items :
         items'[j].status = IF j = b /\ act[w].close THEN "COMPLETED" ELSE items[j].status
  BY <1>3, <1>5, <1>10
<1>14. ItemTypes' /\ ItemsKept
  BY <1>2, <1>9, <1>10, <1>11 DEF ItemTypes, ItemsKept
<1> QED BY <1>9, <1>12, <1>13, <1>14

LEMMA ItemsAreKept ==
  ASSUME Types, [Next]_vars
  PROVE  ItemTypes' /\ ItemsKept
<1>1. CASE UNCHANGED items
  BY <1>1 DEF Types, ItemTypes, ItemsKept, Asked
<1>2. CASE ~UNCHANGED items
  BY <1>2, ItemCases, RunStarted, ResultNoted, PageLogged, PageIsBooked DEF Types
<1> QED BY <1>1, <1>2

LEMMA AsksStay ==
  ASSUME ItemsKept
  PROVE  /\ \A i, p : Asks(i, p) => Asks(i, p)' /\ items'[i].kind = items[i].kind
         /\ \A k : OfKind(k) \subseteq OfKind(k)'
  BY DEF ItemsKept, Asks, OfKind
----------------------------------------------------------------------------
(* What the steps do to the tasks.                                          *)

(* An actor whose record is x goes on with it.                              *)
ActorMoves(a, x) ==
  /\ act' = [act EXCEPT ![a] = x]
  /\ x \in ActType
  /\ a \in Workers =>
       /\ x.pc \in WorkerSteps
       /\ x.pc # "idle" => Asks(x.item, x.page) /\ x.kind = items[x.item].kind
       /\ x.pc = "book" => x.book \in OfKind(x.kind)
  /\ a \in Editors =>
       /\ x.pc \in EditorSteps
       /\ x.pc # "idle" => x.page \in Pages /\ x.kind \in Kinds

(* A step of a task that keeps its run, its page and its kind.              *)
TaskGoesOn(a, x) ==
  /\ x \in ActType /\ x.pc # "idle" /\ act[a].pc # "idle"
  /\ x.item = act[a].item /\ x.page = act[a].page /\ x.kind = act[a].kind

LEMMA GoesOnMoves ==
  ASSUME Types, NEW a \in Actors, NEW x, TaskGoesOn(a, x), act' = [act EXCEPT ![a] = x],
         a \in Workers => x.pc \in WorkerSteps,
         a \in Workers /\ x.pc = "book" => x.book \in OfKind(x.kind),
         a \in Editors => x.pc \in EditorSteps
  PROVE  ActorMoves(a, x)
  BY DEF ActorMoves, TaskGoesOn, Types, TaskTypes

LEMMA IdleMoves ==
  ASSUME NEW a \in Actors, act' = [act EXCEPT ![a] = Idle]
  PROVE  ActorMoves(a, Idle)
  BY DEF ActorMoves, Idle, ActType, WorkerSteps, EditorSteps

LEMMA TasksStay ==
  ASSUME Types, ItemsKept, UNCHANGED act \/ \E a \in Actors : \E x : ActorMoves(a, x),
         \A m \in mail' : Asks(m[1], m[2])'
  PROVE  TaskTypes'
<1> USE AsksStay, ConstantsAssumption
<1>1. CASE UNCHANGED act
  <2>1. act' \in [Actors -> ActType]
    BY <1>1 DEF Types, TaskTypes
  <2>2. ASSUME NEW w \in Workers
        PROVE  /\ act'[w].pc \in WorkerSteps
               /\ act'[w].pc # "idle" => /\ Asks(act[w].item, act[w].page)'
                                         /\ act'[w].kind = items'[act'[w].item].kind
               /\ act'[w].pc = "book" => act'[w].book \in OfKind(act[w].kind)'
    BY <1>1 DEF Types, TaskTypes
  <2> QED BY <1>1, <2>1, <2>2 DEF Types, TaskTypes
<1>2. ASSUME NEW a \in Actors, NEW x, ActorMoves(a, x) PROVE TaskTypes'
  <2>1. /\ act' \in [Actors -> ActType] /\ act'[a] = x
        /\ \A c \in Actors : c # a => act'[c] = act[c]
    BY <1>2 DEF ActorMoves, Types, TaskTypes
  <2>2. ASSUME NEW w \in Workers
        PROVE  /\ act'[w].pc \in WorkerSteps
               /\ act'[w].pc # "idle" => /\ Asks(act[w].item, act[w].page)'
                                         /\ act'[w].kind = items'[act'[w].item].kind
               /\ act'[w].pc = "book" => (act[w].book \in OfKind(act[w].kind))'
    <3>1. PICK y : y = act'[w]
      OBVIOUS
    <3>2. y.pc \in WorkerSteps
      BY <1>2, <2>1, <3>1 DEF ActorMoves, Types, TaskTypes, Actors
    <3>3. ASSUME y.pc # "idle"
          PROVE  Asks(y.item, y.page) /\ y.kind = items[y.item].kind
      BY <1>2, <2>1, <3>1, <3>3 DEF ActorMoves, Types, TaskTypes, Actors
    <3>4. ASSUME y.pc = "book" PROVE y.book \in OfKind(y.kind)
      BY <1>2, <2>1, <3>1, <3>4 DEF ActorMoves, Types, TaskTypes, Actors
    <3>5. y.pc # "idle" => Asks(y.item, y.page)' /\ y.kind = items'[y.item].kind
      BY <3>3
    <3>6. y.pc = "book" => y.book \in OfKind(y.kind)'
      BY <3>4
    <3> QED BY <3>1, <3>2, <3>5, <3>6
  <2>3. ASSUME NEW e \in Editors
        PROVE  /\ act'[e].pc \in EditorSteps
               /\ act'[e].pc # "idle" => act'[e].page \in Pages /\ act'[e].kind \in Kinds
    <3>1. CASE e = a
      BY <1>2, <2>1, <3>1 DEF ActorMoves
    <3>2. CASE e # a
      BY <2>1, <3>2 DEF Types, TaskTypes, Actors
    <3> QED BY <3>1, <3>2
  <2>4. \A m \in mail' : Asks(m[1], m[2])'
    OBVIOUS
  <2> QED BY <2>1, <2>2, <2>3, <2>4 DEF TaskTypes
<1> QED BY <1>1, <1>2

LEMMA MessagesAskForPages ==
  ASSUME Types, ItemsKept, [Next]_vars
  PROVE  mail' \subseteq Nat \X Nat /\ \A m \in mail' : Asks(m[1], m[2])'
<1>0. mail \subseteq Nat \X Nat /\ \A m \in mail : Asks(m[1], m[2])'
  BY AsksStay DEF Types, OtherTypes, TaskTypes
<1>1. ASSUME NEW r \in Posts, PostRun(r)
      PROVE  mail' \subseteq Nat \X Nat /\ \A m \in mail' : Asks(m[1], m[2])'
  <2>1. CASE PagesFor(posts[r].kind) = {}
    BY <1>0, <1>1, <2>1 DEF PostRun
  <2>2. CASE PagesFor(posts[r].kind) # {}
    <3>0. PICK i : i = Len(items) + 1
      OBVIOUS
    <3> DEFINE k == posts[r].kind  P == PagesFor(k)  n == NewItem(k, P, Cardinality(P))
    <3>1. /\ items' = Append(items, n) /\ mail' = mail \cup ({i} \X P)
      BY <1>1, <2>2, <3>0 DEF PostRun
    <3>2. P \subseteq Pages /\ k \in Kinds
      BY <1>1 DEF PagesFor, PostRun, Types, OtherTypes
    <3>3. n.kind = k /\ n \in ItemType /\ \A p \in P : n.res[p] = "PENDING"
      <4>1. k \in ItemKinds \ {"multi"} /\ Cardinality(P) \in Nat
        BY <3>2, KindFacts, ConstantsAssumption, PagesAreFinite
      <4>2. n \in ItemType
        BY <3>2, <4>1, NewItemType
      <4> QED BY <3>2, <4>2 DEF NewItem
    <3> HIDE DEF n
    <3>4. items'[i] = n /\ i \in DOMAIN items' /\ i \in Nat
      BY <3>0, <3>1, <3>3, ItemAdded DEF Types, ItemTypes
    <3>5. ASSUME NEW p \in P PROVE Asks(i, p)'
      BY <3>2, <3>3, <3>4, <3>5, ConstantsAssumption DEF Asks, Asked
    <3>6. P \subseteq Nat
      BY <3>2, ConstantsAssumption DEF Pages
    <3> HIDE DEF P
    <3> QED BY <1>0, <3>1, <3>4, <3>5, <3>6
  <2> QED BY <2>1, <2>2
<1>2. ASSUME NEW w \in Workers, DeliverAgain(w) \/ Crash(w)
      PROVE  mail' \subseteq Nat \X Nat /\ \A m \in mail' : Asks(m[1], m[2])'
  <2>0. PICK i, p : i = act[w].item /\ p = act[w].page
    OBVIOUS
  <2>1. Asks(i, p) /\ items[i].kind # "multi"
    BY <1>2, <2>0 DEF DeliverAgain, Crash, Types, TaskTypes, ItemTypes, Asks
  <2>2. i \in Nat /\ p \in Nat
    BY <2>0, ConstantsAssumption DEF Types, TaskTypes, Actors, ActType, Pages
  <2>3. Running(w) = <<i, p>>
    BY <2>0, <2>1 DEF Running
  <2>4. mail' = mail \cup {<<i, p>>}
    BY <1>2, <2>3 DEF DeliverAgain, Crash
  <2>5. Asks(i, p)'
    BY <2>1, AsksStay
  <2> QED BY <1>0, <2>2, <2>4, <2>5
<1>3. CASE mail' \subseteq mail
  BY <1>0, <1>3
<1>4. ASSUME \/ UNCHANGED vars
             \/ \E r \in Posts, k \in Kinds : PostCheck(r, k)
             \/ \E r \in Posts : PostKey(r)
             \/ \E k \in Kinds : StatusPoll(k)
             \/ \E w \in Workers, m \in mail : Receive(w, m)
             \/ \E w \in Workers : TaskStep(w)
             \/ \E a \in Actors : SaveStep(a)
             \/ \E p \in Pages : EditPage(p)
             \/ \E e \in Editors, p \in Pages, k \in Kinds : EditorAsks(e, p, k)
             \/ \E e \in Editors : EditorStep(e)
      PROVE  mail' \subseteq mail
  <2>1. ASSUME NEW w \in Workers, TaskStep(w) PROVE mail' \subseteq mail
    BY <2>1 DEF TaskStep, ResolveOcr, ResolveTranslation, Call, CallFails, CountPages, BookPage
  <2>2. ASSUME NEW a \in Actors, SaveStep(a) PROVE mail' \subseteq mail
    BY <2>2 DEF SaveStep, Bump, InsertRevision, ReadCredit, Pay
  <2> QED BY <1>4, <2>1, <2>2 DEF vars, PostCheck, PostKey, StatusPoll, Receive, EditPage,
                EditorAsks, EditorStep, EditorVersion, EditorLog
<1> QED BY <1>1, <1>2, <1>3, <1>4 DEF Next, Step
LEMMA TaskMoves ==
  ASSUME Types, [Next]_vars
  PROVE  UNCHANGED act \/ \E a \in Actors : \E x : ActorMoves(a, x)
<1> USE ConstantsAssumption
<1>0. /\ Workers \subseteq Actors /\ Editors \subseteq Actors
      /\ \A a \in Actors : act[a] \in ActType
      /\ \A p \in Pages : \A k \in Tracks : ver[p][k] \in Nat
      /\ \A w \in Workers : act[w].pc # "idle" => act[w].page \in Pages /\ act[w].kind \in Work
      /\ \A e \in Editors : act[e].pc # "idle" => act[e].page \in Pages /\ act[e].kind \in Work
  <2>1. Workers \subseteq Actors /\ Editors \subseteq Actors /\ Workers \cap Editors = {}
    BY DEF Actors
  <2>2. \A a \in Actors : act[a] \in ActType
    BY DEF Types, TaskTypes
  <2>3. \A p \in Pages : \A k \in Tracks : ver[p][k] \in Nat
    BY DEF Types, OtherTypes
  <2>4. \A w \in Workers : act[w].pc # "idle" => act[w].page \in Pages /\ act[w].kind \in Work
    BY DEF Types, TaskTypes, Asks, Asked
  <2>5. \A e \in Editors : act[e].pc # "idle" => act[e].page \in Pages /\ act[e].kind \in Work
    BY DEF Types, TaskTypes
  <2> QED BY <2>1, <2>2, <2>3, <2>4, <2>5
<1> DEFINE Moves == UNCHANGED act \/ \E a \in Actors : \E x : ActorMoves(a, x)
<1>1. ASSUME NEW w \in Workers, NEW m \in mail, Receive(w, m) PROVE Moves
  <2> DEFINE x == [Idle EXCEPT !.pc = "resolve", !.item = m[1], !.kind = items[m[1]].kind,
                                !.page = m[2]]
  <2>1. Asks(m[1], m[2]) /\ m[1] \in Nat
    BY DEF Types, TaskTypes, OtherTypes
  <2>2. x \in ActType
    BY <2>1 DEF Asks, Asked, Idle, ActType, WorkerSteps
  <2>3. act' = [act EXCEPT ![w] = x]
    BY <1>1 DEF Receive
  <2>4. x.pc = "resolve" /\ x.item = m[1] /\ x.page = m[2] /\ x.kind = items[m[1]].kind
    BY DEF Idle
  <2> HIDE DEF x
  <2>5. ActorMoves(w, x)
    BY <2>1, <2>2, <2>3, <2>4 DEF ActorMoves, WorkerSteps
  <2> QED BY <1>0, <2>5
<1>2. ASSUME NEW a \in Actors, NEW x, TaskGoesOn(a, x), act' = [act EXCEPT ![a] = x],
             a \in Workers => x.pc \in WorkerSteps \ {"book"},
             a \in Editors => x.pc \in EditorSteps
      PROVE  Moves
  BY <1>2, GoesOnMoves
<1>3. ASSUME NEW a \in Actors, act' = [act EXCEPT ![a] = Idle] PROVE Moves
  BY <1>3, IdleMoves
<1>4. ASSUME NEW w \in Workers, act[w].pc # "idle", \E o \in {"SUCCESS", "FAILURE"} : Ends(w, o)
      PROVE  Moves
  BY <1>0, <1>3, <1>4, EndsAnswers
<1>5. ASSUME NEW a \in Actors, act[a].pc # "idle",
             NEW pc \in WorkerSteps \cup EditorSteps, pc # "idle", Go(a, pc),
             a \in Workers => pc \in WorkerSteps \ {"book"},
             a \in Editors => pc \in EditorSteps
      PROVE  Moves
  <2> DEFINE x == [act[a] EXCEPT !.pc = pc]
  <2>1. TaskGoesOn(a, x) /\ x.pc = pc
    BY <1>0, <1>5 DEF TaskGoesOn, ActType
  <2>2. act' = [act EXCEPT ![a] = x]
    BY <1>5 DEF Go
  <2> HIDE DEF x
  <2> QED BY <1>2, <1>5, <2>1, <2>2
<1>6. ASSUME NEW a \in Actors, act[a].pc # "idle",
             NEW pc \in WorkerSteps \cup EditorSteps, pc # "idle", NEW n \in Nat,
             \/ act' = [act EXCEPT ![a].pc = pc, ![a].pv = n]
             \/ act' = [act EXCEPT ![a].pc = pc, ![a].src = n]
             \/ act' = [act EXCEPT ![a].pc = pc, ![a].seen = n],
             a \in Workers => pc \in WorkerSteps \ {"book"},
             a \in Editors => pc \in EditorSteps
      PROVE  Moves
  <2>1. \E x : TaskGoesOn(a, x) /\ x.pc = pc /\ act' = [act EXCEPT ![a] = x]
    <3>1. CASE act' = [act EXCEPT ![a].pc = pc, ![a].pv = n]
      <4> DEFINE x == [act[a] EXCEPT !.pc = pc, !.pv = n]
      <4>1. TaskGoesOn(a, x) /\ x.pc = pc
        BY <1>0, <1>6 DEF TaskGoesOn, ActType
      <4>2. act' = [act EXCEPT ![a] = x]
        BY <3>1
      <4> HIDE DEF x
      <4> QED BY <4>1, <4>2
    <3>2. CASE act' = [act EXCEPT ![a].pc = pc, ![a].src = n]
      <4> DEFINE x == [act[a] EXCEPT !.pc = pc, !.src = n]
      <4>1. TaskGoesOn(a, x) /\ x.pc = pc
        BY <1>0, <1>6 DEF TaskGoesOn, ActType
      <4>2. act' = [act EXCEPT ![a] = x]
        BY <3>2
      <4> HIDE DEF x
      <4> QED BY <4>1, <4>2
    <3>3. CASE act' = [act EXCEPT ![a].pc = pc, ![a].seen = n]
      <4> DEFINE x == [act[a] EXCEPT !.pc = pc, !.seen = n]
      <4>1. TaskGoesOn(a, x) /\ x.pc = pc
        BY <1>0, <1>6 DEF TaskGoesOn, ActType
      <4>2. act' = [act EXCEPT ![a] = x]
        BY <3>3
      <4> HIDE DEF x
      <4> QED BY <4>1, <4>2
    <3> QED BY <1>6, <3>1, <3>2, <3>3
  <2> QED BY <1>2, <1>6, <2>1
<1>7. ASSUME NEW w \in Workers, CountPages(w) PROVE Moves
  <2> DEFINE i == BookedOn(act[w].kind)
             c == Cardinality(Completed(i) \cup {act[w].page}) >= items[i].total
             x == [act[w] EXCEPT !.pc = "book", !.book = i, !.close = c]
  <2>1. act' = [act EXCEPT ![w] = x] /\ act[w].pc = "count"
    BY <1>7 DEF CountPages
  <2>2. i \in OfKind(act[w].kind) /\ i \in Nat
    <3>1. Asks(act[w].item, act[w].page) /\ act[w].kind = items[act[w].item].kind
      BY <2>1 DEF Types, TaskTypes
    <3>2. act[w].item \in OfKind(act[w].kind)
      BY <3>1 DEF Asks, OfKind
    <3> DEFINE S == OfKind(act[w].kind)
    <3>3. S \in SUBSET (1 .. Len(items)) /\ S # {} /\ Len(items) \in Nat
      BY <3>2 DEF OfKind, Types, ItemTypes
    <3>4. i = NewestOf(S)
      BY <3>3 DEF BookedOn
    <3> HIDE DEF S
    <3>5. NewestOf(S) \in S
      BY <3>3, LastOne
    <3> QED BY <3>3, <3>4, <3>5 DEF S
  <2>3. c \in BOOLEAN
    OBVIOUS
  <2> HIDE DEF i, c
  <2>4. TaskGoesOn(w, x) /\ x.pc = "book" /\ x.book = i
    BY <1>0, <2>1, <2>2, <2>3 DEF TaskGoesOn, ActType, WorkerSteps
  <2> HIDE DEF x
  <2>5. x.book \in OfKind(x.kind)
    BY <2>2, <2>4 DEF TaskGoesOn
  <2>6. ActorMoves(w, x)
    BY <1>0, <2>1, <2>4, <2>5, GoesOnMoves DEF WorkerSteps
  <2> QED BY <1>0, <2>6
<1> USE DEF WorkerSteps, EditorSteps
<1>8. ASSUME NEW w \in Workers, TaskStep(w) PROVE Moves
  <2>0. w \in Actors /\ w \notin Editors
    BY <1>0
  <2>1. CASE ResolveOcr(w)
    <3>1. act[w].pc = "resolve" /\ act[w].page \in Pages /\ act[w].kind \in Tracks
      BY <1>0, <2>1 DEF ResolveOcr, Tracks
    <3>2. \/ Go(w, "count")
          \/ act' = [act EXCEPT ![w].pc = "call", ![w].pv = ver[act[w].page][act[w].kind]]
          \/ Ends(w, "FAILURE")
      BY <2>1 DEF ResolveOcr
    <3>3. ver[act[w].page][act[w].kind] \in Nat
      BY <1>0, <3>1
    <3>4. CASE Go(w, "count")
      BY <1>5, <2>0, <3>1, <3>4
    <3>5. CASE act' = [act EXCEPT ![w].pc = "call", ![w].pv = ver[act[w].page][act[w].kind]]
      <4>1. PICK n \in Nat : act' = [act EXCEPT ![w].pc = "call", ![w].pv = n]
        BY <3>3, <3>5
      <4>2. "call" \in WorkerSteps \ {"book"}
        OBVIOUS
      <4> HIDE DEF Moves, WorkerSteps, EditorSteps
      <4> QED BY <1>6, <2>0, <3>1, <4>1, <4>2
    <3> QED BY <1>4, <3>1, <3>2, <3>4, <3>5
  <2>2. CASE ResolveTranslation(w)
    <3>1. act[w].pc = "resolve" /\ act[w].page \in Pages
      BY <1>0, <2>2 DEF ResolveTranslation
    <3>2. \/ Go(w, "count")
          \/ act' = [act EXCEPT ![w].pc = "call", ![w].src = Len(revs[act[w].page])]
          \/ Ends(w, "FAILURE")
      BY <2>2 DEF ResolveTranslation
    <3>3. Len(revs[act[w].page]) \in Nat
      BY <3>1 DEF Types, OtherTypes
    <3>4. CASE Go(w, "count")
      BY <1>5, <2>0, <3>1, <3>4
    <3>5. CASE act' = [act EXCEPT ![w].pc = "call", ![w].src = Len(revs[act[w].page])]
      <4>1. PICK n \in Nat : act' = [act EXCEPT ![w].pc = "call", ![w].src = n]
        BY <3>3, <3>5
      <4>2. "call" \in WorkerSteps \ {"book"}
        OBVIOUS
      <4> HIDE DEF Moves, WorkerSteps, EditorSteps
      <4> QED BY <1>6, <2>0, <3>1, <4>1, <4>2
    <3> QED BY <1>4, <3>1, <3>2, <3>4, <3>5
  <2>3. CASE Call(w)
    <3>1. act[w].pc = "call" /\ act[w].page \in Pages /\ act[w].kind \in Tracks
      BY <1>0, <2>3 DEF Call, Tracks
    <3> DEFINE n == IF act[w].kind = "translation" THEN ver[act[w].page][act[w].kind]
                    ELSE act[w].pv
    <3>2. \/ act' = [act EXCEPT ![w].pc = "bump", ![w].pv = n]
          \/ Ends(w, "FAILURE")
      BY <2>3 DEF Call
    <3>3. n \in Nat
      BY <1>0, <2>0, <3>1 DEF ActType
    <3> HIDE DEF n
    <3> QED BY <1>4, <1>6, <2>0, <3>1, <3>2, <3>3
  <2>4. CASE CallFails(w)
    <3>1. act[w].pc = "call" /\ \E o \in {"SUCCESS", "FAILURE"} : Ends(w, o)
      BY <2>4 DEF CallFails
    <3> QED BY <1>4, <3>1
  <2>5. CASE BookPage(w)
    <3>1. act[w].pc = "book" /\ items[act[w].item].kind # "multi"
      BY <2>5 DEF BookPage, Types, TaskTypes, ItemTypes, Asks
    <3>2. act' = [act EXCEPT ![w] = Idle]
      BY <2>5, <3>1 DEF BookPage
    <3> QED BY <1>3, <2>0, <3>2
  <2> QED BY <1>7, <1>8, <2>1, <2>2, <2>3, <2>4, <2>5 DEF TaskStep
<1>9. ASSUME NEW a \in Actors, SaveStep(a) PROVE Moves
  <2>1. a \in Workers \/ a \in Editors
    BY DEF Actors
  <2>2. CASE Bump(a)
    <3>1. act[a].pc = "bump"
      BY <2>2 DEF Bump
    <3>2. \/ Go(a, "insert") \/ act' = [act EXCEPT ![a] = Idle]
          \/ a \in Workers /\ Ends(a, "FAILURE")
      BY <2>2 DEF Bump
    <3> QED BY <1>3, <1>4, <1>5, <3>1, <3>2
  <2>3. CASE InsertRevision(a)
    <3>1. act[a].pc = "insert" /\ Go(a, IF a \in Workers THEN "credit" ELSE "log")
      BY <2>3 DEF InsertRevision
    <3>2. \/ a \in Workers /\ a \notin Editors /\ Go(a, "credit")
          \/ a \in Editors /\ a \notin Workers /\ Go(a, "log")
      BY <2>1, <3>1
    <3> QED BY <1>5, <3>1, <3>2
  <2>4. CASE ReadCredit(a)
    <3>1. /\ act[a].pc = "credit"
          /\ act' = [act EXCEPT ![a].pc = "pay", ![a].seen = used[SortOf(act[a].kind)]]
      BY <2>4 DEF ReadCredit
    <3>2. used[SortOf(act[a].kind)] \in Nat
      BY <1>0, <2>1, <3>1, KindFacts DEF Types, OtherTypes
    <3> QED BY <1>6, <3>1, <3>2
  <2>5. CASE Pay(a)
    <3>1. act[a].pc = "pay" /\ Go(a, IF a \in Workers THEN "count" ELSE "version")
      BY <2>5 DEF Pay
    <3>2. \/ a \in Workers /\ a \notin Editors /\ Go(a, "count")
          \/ a \in Editors /\ a \notin Workers /\ Go(a, "version")
      BY <2>1, <3>1
    <3> QED BY <1>5, <3>1, <3>2
  <2> QED BY <1>9, <2>2, <2>3, <2>4, <2>5 DEF SaveStep
<1>10. ASSUME NEW e \in Editors, NEW p \in Pages, NEW k \in Kinds, EditorAsks(e, p, k) PROVE Moves
  <2> DEFINE x == [Idle EXCEPT !.pc = "credit", !.kind = k, !.page = p]
  <2>1. x \in ActType /\ x.pc = "credit" /\ x.page = p /\ x.kind = k
    BY DEF Idle, ActType
  <2>2. act' = [act EXCEPT ![e] = x]
    BY <1>10 DEF EditorAsks
  <2> HIDE DEF x
  <2>3. e \in Actors /\ e \notin Workers
    BY <1>0
  <2>4. ActorMoves(e, x)
    BY <2>1, <2>2, <2>3 DEF ActorMoves
  <2> QED BY <2>3, <2>4
<1>11. ASSUME NEW e \in Editors, EditorStep(e) PROVE Moves
  <2>0. e \in Actors /\ e \notin Workers
    BY <1>0
  <2>1. CASE EditorVersion(e)
    <3>1. /\ act[e].pc = "version" /\ act[e].page \in Pages /\ act[e].kind \in Tracks
          /\ act' = [act EXCEPT ![e].pc = "bump", ![e].pv = ver[act[e].page][act[e].kind]]
      BY <1>0, <2>1 DEF EditorVersion, Tracks
    <3> QED BY <1>0, <1>6, <2>0, <3>1
  <2>2. CASE EditorLog(e)
    BY <1>3, <2>0, <2>2 DEF EditorLog
  <2> QED BY <1>11, <2>1, <2>2 DEF EditorStep
<1>12. ASSUME NEW w \in Workers, DeliverAgain(w) \/ Crash(w) PROVE Moves
  BY <1>0, <1>3, <1>12 DEF DeliverAgain, Crash
<1>13. ASSUME \/ UNCHANGED vars
              \/ \E r \in Posts, k \in Kinds : PostCheck(r, k)
              \/ \E r \in Posts : PostKey(r) \/ PostRun(r)
              \/ \E k \in Kinds : StatusPoll(k)
              \/ \E p \in Pages : EditPage(p)
       PROVE  UNCHANGED act
  BY <1>13 DEF vars, PostCheck, PostKey, PostRun, StatusPoll, EditPage
<1> QED BY <1>1, <1>8, <1>9, <1>10, <1>11, <1>12, <1>13 DEF Next, Step
LEMMA EntryWritten ==
  ASSUME NEW S, NEW T, NEW f \in [S -> T], NEW i, NEW t \in T
  PROVE  [f EXCEPT ![i] = t] \in [S -> T]
  OBVIOUS

LEMMA EntryAppended ==
  ASSUME NEW S, NEW T, NEW f \in [S -> Seq(T)], NEW i \in S, NEW t \in T
  PROVE  [f EXCEPT ![i] = Append(@, t)] \in [S -> Seq(T)]
<1>1. Append(f[i], t) \in Seq(T)
  OBVIOUS
<1> QED BY <1>1, EntryWritten

LEMMA OthersKeepTheirTypes ==
  ASSUME OtherTypes, HandsFit, Len(items) \in Nat, [Next]_vars, mail' \subseteq Nat \X Nat
  PROVE  OtherTypes'
<1> USE ConstantsAssumption DEF OtherTypes
<1>0. /\ OtherTypes /\ Workers \subseteq Actors
      /\ \A a \in Actors : act[a].src \in Nat /\ act[a].seen \in Nat
      /\ \A a \in Actors : Holding(act[a]) => /\ act[a].page \in Pages
                                               /\ act[a].kind \in Work
                                               /\ SortOf(act[a].kind) \in Sorts
  BY KindFacts DEF HandsFit, Actors
<1> USE DEF Holding, MultiSteps
<1>1. ASSUME NEW r \in Posts, NEW k \in Kinds, PostCheck(r, k) PROVE OtherTypes'
  BY <1>0, <1>1 DEF PostCheck
<1>2. ASSUME NEW r \in Posts, PostRun(r) PROVE OtherTypes'
  <2>1. Len(items) + 1 \in Nat
    OBVIOUS
  <2>2. /\ posts' \in [Posts -> [pc : {"idle", "run", "key"}, kind : Kinds \cup {"-"}, item : Nat]]
        /\ \A q \in Posts : posts'[q].pc # "idle" => posts'[q].kind \in Kinds
    <3>1. CASE posts' = [posts EXCEPT ![r].pc = "idle"]
      BY <1>0, <3>1
    <3>2. CASE posts' = [posts EXCEPT ![r].pc = "key", ![r].item = Len(items) + 1]
      BY <1>0, <1>2, <2>1, <3>2 DEF PostRun
    <3> QED BY <1>2, <3>1, <3>2 DEF PostRun
  <2> QED BY <1>0, <1>2, <2>2 DEF PostRun
<1>3. ASSUME NEW r \in Posts, PostKey(r) PROVE OtherTypes'
  BY <1>0, <1>3 DEF PostKey
<1>4. ASSUME NEW k \in Kinds, StatusPoll(k) PROVE OtherTypes'
  BY <1>0, <1>4 DEF StatusPoll
<1>5. ASSUME NEW w \in Workers, TaskStep(w) PROVE OtherTypes'
  <2>1. boxes' \subseteq Pages
    <3>1. UNCHANGED boxes \/ Call(w)
      BY <1>5 DEF TaskStep, ResolveOcr, ResolveTranslation, CallFails, CountPages, BookPage
    <3>2. ASSUME Call(w) PROVE boxes' \subseteq boxes \cup {act[w].page} /\ act[w].page \in Pages
      BY <1>0, <3>2 DEF Call
    <3>3. boxes \subseteq Pages
      BY <1>0
    <3> QED BY <3>1, <3>2, <3>3
  <2>2. UNCHANGED <<revs, ver, trans, mail, revoked, used, slot, posts>>
    BY <1>5 DEF TaskStep, ResolveOcr, ResolveTranslation, Call, CallFails, CountPages, BookPage
  <2> QED BY <1>0, <2>1, <2>2
<1>6. ASSUME NEW a \in Actors, SaveStep(a) PROVE OtherTypes'
  <2> DEFINE p == act[a].page  k == act[a].kind
  <2>1. CASE Bump(a)
    <3>1. p \in Pages /\ k \in Tracks /\ act[a].src \in Nat
      BY <1>0, <2>1 DEF Bump, Tracks
    <3>2. \/ UNCHANGED ver \/ ver' = [ver EXCEPT ![p][k] = @ + 1]
      BY <2>1 DEF Bump
    <3>3. ver' \in [Pages -> [Tracks -> Nat]]
      <4>1. ver \in [Pages -> [Tracks -> Nat]] /\ ver[p][k] + 1 \in Nat
        BY <1>0, <3>1
      <4>2. [ver[p] EXCEPT ![k] = @ + 1] \in [Tracks -> Nat]
        BY <3>1, <4>1
      <4>3. UNCHANGED ver \/ ver' = [ver EXCEPT ![p] = [ver[p] EXCEPT ![k] = @ + 1]]
        BY <3>2
      <4> DEFINE f == [ver[p] EXCEPT ![k] = @ + 1]
      <4> HIDE DEF f
      <4>4. CASE ver' = [ver EXCEPT ![p] = f]
        BY <4>1, <4>2, <4>4, EntryWritten DEF f
      <4> QED BY <4>1, <4>3, <4>4 DEF f
    <3>4. trans' \subseteq trans \cup {<<p, act[a].src>>}
      BY <2>1 DEF Bump
    <3>5. trans' \subseteq Pages \X Nat
      BY <1>0, <3>1, <3>4
    <3>6. UNCHANGED <<revs, boxes, mail, revoked, used, slot, posts>>
      BY <2>1 DEF Bump
    <3> QED BY <1>0, <3>3, <3>5, <3>6
  <2>2. CASE InsertRevision(a)
    <3>1. p \in Pages /\ k \in Tracks
      BY <1>0, <2>2 DEF InsertRevision, Tracks
    <3>2. revs' \in [Pages -> Seq(RevisionType)]
      <4> DEFINE x == [track |-> k, bot |-> a \in Workers \/ k = "translation"]
      <4>1. revs \in [Pages -> Seq(RevisionType)]
        BY <1>0
      <4>2. x \in RevisionType
        BY <3>1 DEF RevisionType
      <4>3. revs' = [revs EXCEPT ![p] = Append(@, x)]
        BY <2>2 DEF InsertRevision
      <4> HIDE DEF x
      <4> QED BY <3>1, <4>1, <4>2, <4>3, EntryAppended
    <3>3. UNCHANGED <<ver, boxes, trans, mail, revoked, used, slot, posts>>
      BY <2>2 DEF InsertRevision
    <3> QED BY <1>0, <3>2, <3>3
  <2>3. CASE ReadCredit(a)
    BY <1>0, <2>3 DEF ReadCredit
  <2>4. CASE Pay(a)
    <3>1. used' = [used EXCEPT ![SortOf(k)] = act[a].seen + 1] /\ act[a].seen \in Nat
      BY <1>0, <2>4 DEF Pay
    <3>2. used' \in [Sorts -> Nat]
      <4>1. used \in [Sorts -> Nat] /\ act[a].seen + 1 \in Nat
        BY <1>0, <3>1
      <4> QED BY <3>1, <4>1, EntryWritten
    <3> QED BY <1>0, <2>4, <3>2 DEF Pay
  <2> QED BY <1>6, <2>1, <2>2, <2>3, <2>4 DEF SaveStep
<1>7. ASSUME NEW p \in Pages, EditPage(p) PROVE OtherTypes'
  <2>1. "edit" \in Tracks
    BY DEF Tracks
  <2>2. ver' \in [Pages -> [Tracks -> Nat]]
    BY <1>0, <1>7, <2>1 DEF EditPage
  <2>3. revs' \in [Pages -> Seq(RevisionType)]
    <3>1. revs \in [Pages -> Seq(RevisionType)]
      BY <1>0
    <3>2. [track |-> "edit", bot |-> FALSE] \in RevisionType
      BY <2>1 DEF RevisionType
    <3>3. revs' = [revs EXCEPT ![p] = Append(@, [track |-> "edit", bot |-> FALSE])]
      BY <1>7 DEF EditPage
    <3> QED BY <3>1, <3>2, <3>3, EntryAppended
  <2> QED BY <1>0, <1>7, <2>2, <2>3 DEF EditPage
<1>8. ASSUME NEW w \in Workers, DeliverAgain(w) \/ Crash(w) PROVE OtherTypes'
  <2>1. revoked' \in [Workers -> SUBSET (Nat \X Nat)]
    BY <1>0, <1>8 DEF DeliverAgain, Crash
  <2> QED BY <1>0, <1>8, <2>1 DEF DeliverAgain, Crash
<1>9. ASSUME \/ UNCHANGED vars
             \/ \E w \in Workers, m \in mail : Receive(w, m)
             \/ \E e \in Editors, p \in Pages, k \in Kinds : EditorAsks(e, p, k)
             \/ \E e \in Editors : EditorStep(e)
      PROVE  OtherTypes'
  <2>1. UNCHANGED <<revs, ver, boxes, trans, revoked, used, slot, posts>>
    BY <1>9 DEF vars, Receive, EditorAsks, EditorStep, EditorVersion, EditorLog
  <2> QED BY <1>0, <2>1
<1> QED BY <1>1, <1>2, <1>3, <1>4, <1>5, <1>6, <1>7, <1>8, <1>9 DEF Next, Step

LEMMA NextTypes ==
  ASSUME Types, [Next]_vars
  PROVE  Types' /\ ItemsKept
  BY ItemsAreKept, MessagesAskForPages, OthersKeepTheirTypes, TaskMoves, TasksStay, TypesFit DEF Types

(* Every variable keeps its type.                                           *)
THEOREM TypeCorrect == Spec => []TypeOK
<1>1. Init => Types
  BY InitTypes
<1>2. Types /\ [Next]_vars => Types'
  BY NextTypes
<1>3. Types => TypeOK
  BY TypesAreTypeOK
<1> QED BY <1>1, <1>2, <1>3, PTL DEF Spec
----------------------------------------------------------------------------
(* The text of a page that is booked as done.                               *)

(* How a worker comes to a step after its revision is saved.                *)
Advances(w, y) ==
  /\ y.page = act[w].page /\ y.kind = act[w].kind /\ y.item = act[w].item
  /\ \/ act[w].pc = "resolve" /\ y.pc = "count" /\ Done(act[w].page, act[w].kind)
     \/ act[w].pc = "resolve" /\ y.pc = "count" /\ act[w].kind = "translation"
     \/ InsertRevision(w) /\ y.pc = "credit"
     \/ act[w].pc \in {"credit", "pay"} /\ y.pc \in {"pay", "count"}
     \/ CountPages(w) /\ y.pc = "book"

LEMMA WorkerCases ==
  ASSUME Types, [Next]_vars, NEW w \in Workers
  PROVE  \/ act'[w] = act[w]
         \/ act'[w].pc \in {"idle", "resolve", "call", "bump", "insert"}
         \/ Advances(w, act'[w])
<1> USE ConstantsAssumption
<1> DEFINE Goal == \/ act'[w] = act[w]
                   \/ act'[w].pc \in {"idle", "resolve", "call", "bump", "insert"}
                   \/ Advances(w, act'[w])
<1>0. /\ w \in Actors /\ w \notin Editors /\ DOMAIN act = Actors
      /\ act[w] \in ActType /\ Idle.pc = "idle"
  BY DEF Actors, Types, TaskTypes, Idle
<1>1. ASSUME NEW a \in Actors, NEW o \in {"SUCCESS", "FAILURE"}, a \in Workers,
             act[a].pc # "idle", Ends(a, o)
      PROVE  Goal
  <2>1. act' = [act EXCEPT ![a] = Idle]
    BY <1>1, EndsAnswers
  <2> QED BY <1>0, <2>1
<1>2. ASSUME NEW a \in Actors, act' = [act EXCEPT ![a] = Idle] PROVE Goal
  BY <1>0, <1>2
<1>3. ASSUME NEW a \in Actors, a # w, NEW y, act' = [act EXCEPT ![a] = y] PROVE Goal
  BY <1>3
<1>4. ASSUME TaskStep(w) PROVE Goal
  <2>1. CASE ResolveOcr(w)
    <3>1. CASE Done(act[w].page, act[w].kind) /\ Go(w, "count")
      BY <1>0, <2>1, <3>1 DEF ResolveOcr, Go, Advances, ActType
    <3>2. CASE act' = [act EXCEPT ![w].pc = "call", ![w].pv = ver[act[w].page][act[w].kind]]
      BY <1>0, <3>2 DEF ActType
    <3>3. CASE Ends(w, "FAILURE")
      BY <1>0, <1>1, <2>1, <3>3 DEF ResolveOcr
    <3> QED BY <2>1, <3>1, <3>2, <3>3 DEF ResolveOcr
  <2>2. CASE ResolveTranslation(w)
    <3>1. CASE Go(w, "count")
      BY <1>0, <2>2, <3>1 DEF ResolveTranslation, Go, Advances, ActType
    <3>2. CASE act' = [act EXCEPT ![w].pc = "call", ![w].src = Len(revs[act[w].page])]
      BY <1>0, <3>2 DEF ActType
    <3>3. CASE Ends(w, "FAILURE")
      BY <1>0, <1>1, <2>2, <3>3 DEF ResolveTranslation
    <3> QED BY <2>2, <3>1, <3>2, <3>3 DEF ResolveTranslation
  <2>3. CASE Call(w)
    <3>1. CASE Ends(w, "FAILURE")
      BY <1>0, <1>1, <2>3, <3>1 DEF Call
    <3>2. CASE ~Ends(w, "FAILURE")
      <4>1. \E n : act' = [act EXCEPT ![w].pc = "bump", ![w].pv = n]
        BY <2>3, <3>2 DEF Call
      <4> QED BY <1>0, <4>1 DEF ActType
    <3> QED BY <3>1, <3>2
  <2>4. CASE CallFails(w)
    <3>1. act[w].pc = "call" /\ \E o \in {"SUCCESS", "FAILURE"} : Ends(w, o)
      BY <2>4 DEF CallFails
    <3> QED BY <1>0, <1>1, <3>1
  <2>5. CASE CountPages(w)
    BY <1>0, <2>5 DEF CountPages, Advances, ActType
  <2>6. CASE BookPage(w)
    <3>1. items[act[w].item].kind # "multi"
      BY <2>6 DEF BookPage, Types, TaskTypes, ItemTypes, Asks
    <3>2. act' = [act EXCEPT ![w] = Idle]
      BY <2>6, <3>1 DEF BookPage
    <3> QED BY <1>0, <1>2, <3>2
  <2> QED BY <1>4, <2>1, <2>2, <2>3, <2>4, <2>5, <2>6 DEF TaskStep
<1>5. ASSUME SaveStep(w) PROVE Goal
  <2>1. CASE Bump(w)
    <3>1. \/ Go(w, "insert") \/ act' = [act EXCEPT ![w] = Idle] \/ Ends(w, "FAILURE")
      BY <2>1 DEF Bump
    <3>2. ASSUME Go(w, "insert") PROVE Goal
      BY <1>0, <3>2 DEF Go, ActType
    <3>3. act[w].pc # "idle"
      BY <2>1 DEF Bump
    <3> QED BY <1>0, <1>1, <1>2, <3>1, <3>2, <3>3
  <2>2. CASE InsertRevision(w)
    <3>1. Go(w, "credit")
      BY <2>2 DEF InsertRevision
    <3> QED BY <1>0, <2>2, <3>1 DEF Go, Advances, ActType
  <2>3. CASE ReadCredit(w)
    BY <1>0, <2>3 DEF ReadCredit, Advances, ActType
  <2>4. CASE Pay(w)
    <3>1. Go(w, "count") /\ act[w].pc = "pay"
      BY <2>4 DEF Pay
    <3> QED BY <1>0, <3>1 DEF Go, Advances, ActType
  <2> QED BY <1>5, <2>1, <2>2, <2>3, <2>4 DEF SaveStep
<1>7. ASSUME NEW m \in mail, Receive(w, m) PROVE Goal
  BY <1>0, <1>7 DEF Receive, Idle
<1>8. ASSUME DeliverAgain(w) \/ Crash(w) PROVE Goal
  BY <1>0, <1>2, <1>8 DEF DeliverAgain, Crash
<1>9. ASSUME NEW a \in Actors, a # w,
             \/ a \in Workers /\ (TaskStep(a) \/ (\E m \in mail : Receive(a, m))
                                  \/ DeliverAgain(a) \/ Crash(a))
             \/ SaveStep(a)
             \/ a \in Editors /\ (EditorStep(a) \/ \E p \in Pages, k \in Kinds : EditorAsks(a, p, k))
      PROVE  act'[w] = act[w]
  <2>0. \A y : act' = [act EXCEPT ![a] = y] => act'[w] = act[w]
    BY <1>0, <1>9
  <2>1. ASSUME NEW o, Ends(a, o) PROVE act'[w] = act[w]
    <3>1. \E y : act' = [act EXCEPT ![a] = y]
      BY <2>1 DEF Ends
    <3> QED BY <2>0, <3>1
  <2>2. ASSUME NEW pc, Go(a, pc) PROVE act'[w] = act[w]
    <3>1. \E y : act' = [act EXCEPT ![a] = y]
      BY <2>2 DEF Go
    <3> QED BY <2>0, <3>1
  <2>3. ASSUME a \in Workers, TaskStep(a) PROVE act'[w] = act[w]
    <3>1. CASE \/ \E o : Ends(a, o)
               \/ \E pc : Go(a, pc)
      BY <2>1, <2>2, <3>1
    <3>2. CASE \E y : act' = [act EXCEPT ![a] = y]
      BY <2>0, <3>2
    <3>3. CASE ResolveOcr(a)
      BY <3>1, <3>2, <3>3 DEF ResolveOcr
    <3>4. CASE ResolveTranslation(a)
      BY <3>1, <3>2, <3>4 DEF ResolveTranslation
    <3>5. CASE Call(a)
      BY <3>1, <3>2, <3>5 DEF Call
    <3>6. CASE CallFails(a)
      BY <3>1, <3>6 DEF CallFails
    <3>7. CASE CountPages(a)
      BY <3>2, <3>7 DEF CountPages
    <3>8. CASE BookPage(a)
      BY <3>1, <3>2, <3>8 DEF BookPage
    <3> QED BY <2>3, <3>3, <3>4, <3>5, <3>6, <3>7, <3>8 DEF TaskStep
  <2>4. ASSUME SaveStep(a) PROVE act'[w] = act[w]
    <3>1. CASE \/ \E o : Ends(a, o)
               \/ \E pc : Go(a, pc)
      BY <2>1, <2>2, <3>1
    <3>2. CASE \E y : act' = [act EXCEPT ![a] = y]
      BY <2>0, <3>2
    <3>3. CASE Bump(a)
      BY <3>1, <3>2, <3>3 DEF Bump
    <3>4. CASE InsertRevision(a) \/ Pay(a)
      BY <3>1, <3>4 DEF InsertRevision, Pay
    <3>5. CASE ReadCredit(a)
      BY <3>2, <3>5 DEF ReadCredit
    <3> QED BY <2>4, <3>3, <3>4, <3>5 DEF SaveStep
  <2>5. ASSUME \/ \E m \in mail : Receive(a, m)
               \/ DeliverAgain(a) \/ Crash(a) \/ EditorStep(a)
               \/ \E p \in Pages, k \in Kinds : EditorAsks(a, p, k)
        PROVE  act'[w] = act[w]
    <3>1. UNCHANGED act \/ \E y : act' = [act EXCEPT ![a] = y]
      BY <2>5 DEF Receive, DeliverAgain, Crash, EditorStep, EditorVersion, EditorLog, EditorAsks
    <3> QED BY <2>0, <3>1
  <2> QED BY <1>9, <2>3, <2>4, <2>5
<1>10. ASSUME \/ UNCHANGED vars
              \/ \E r \in Posts, k \in Kinds : PostCheck(r, k)
              \/ \E r \in Posts : PostKey(r) \/ PostRun(r)
              \/ \E k \in Kinds : StatusPoll(k)
              \/ \E p \in Pages : EditPage(p)
       PROVE  act' = act
  BY <1>10 DEF vars, PostCheck, PostKey, PostRun, StatusPoll, EditPage
<1>11. \A a : a \in Workers \/ a \in Editors <=> a \in Actors
  BY DEF Actors
<1> HIDE DEF Goal
<1>12. act'[w] = act[w] => Goal
  BY DEF Goal
<1>13. Goal
  BY <1>0, <1>4, <1>5, <1>7, <1>8, <1>9, <1>10, <1>11, <1>12 DEF Next, Step
<1> QED BY <1>13 DEF Goal

LEMMA RevisionSteps ==
  ASSUME HandsFit, [Next]_vars
  PROVE  UNCHANGED revs \/ \E q \in Pages, x \in RevisionType : revs' = [revs EXCEPT ![q] = Append(@, x)]
<1> USE ConstantsAssumption
<1>1. ASSUME NEW a \in Actors, InsertRevision(a)
      PROVE  \E q \in Pages, x \in RevisionType : revs' = [revs EXCEPT ![q] = Append(@, x)]
  <2>1. act[a].page \in Pages /\ act[a].kind \in Work
    BY <1>1 DEF InsertRevision, HandsFit, Holding, MultiSteps
  <2>2. [track |-> act[a].kind, bot |-> a \in Workers \/ act[a].kind = "translation"] \in RevisionType
    BY <2>1 DEF RevisionType, Tracks
  <2> QED BY <1>1, <2>1, <2>2 DEF InsertRevision
<1>2. ASSUME NEW q \in Pages, EditPage(q)
      PROVE  \E x \in RevisionType : revs' = [revs EXCEPT ![q] = Append(@, x)]
  <2>1. [track |-> "edit", bot |-> FALSE] \in RevisionType
    BY DEF RevisionType, Tracks
  <2> QED BY <1>2, <2>1 DEF EditPage
<1>3. ASSUME NEW w \in Workers, TaskStep(w) PROVE UNCHANGED revs
  BY <1>3 DEF TaskStep, ResolveOcr, ResolveTranslation, Call, CallFails, CountPages, BookPage
<1>4. ASSUME NEW a \in Actors, SaveStep(a), ~InsertRevision(a) PROVE UNCHANGED revs
  BY <1>4 DEF SaveStep, Bump, ReadCredit, Pay
<1>5. ASSUME \/ UNCHANGED vars
             \/ \E r \in Posts, k \in Kinds : PostCheck(r, k)
             \/ \E r \in Posts : PostKey(r) \/ PostRun(r)
             \/ \E k \in Kinds : StatusPoll(k)
             \/ \E w \in Workers, m \in mail : Receive(w, m)
             \/ \E w \in Workers : DeliverAgain(w) \/ Crash(w)
             \/ \E e \in Editors, q \in Pages, k \in Kinds : EditorAsks(e, q, k)
             \/ \E e \in Editors : EditorStep(e)
      PROVE  UNCHANGED revs
  BY <1>5 DEF vars, PostCheck, PostKey, PostRun, StatusPoll, Receive, DeliverAgain, Crash,
              EditorAsks, EditorStep, EditorVersion, EditorLog
<1> QED BY <1>1, <1>2, <1>3, <1>4, <1>5 DEF Next, Step

LEMMA TextStays ==
  ASSUME OtherTypes, HandsFit, [Next]_vars, NEW p \in Pages
  PROVE  /\ DOMAIN revs[p] \subseteq DOMAIN revs'[p]
         /\ \A i \in DOMAIN revs[p] : revs'[p][i] = revs[p][i]
<1> USE ConstantsAssumption
<1>1. revs[p] \in Seq(RevisionType)
  BY DEF OtherTypes
<1>2. UNCHANGED revs \/ \E q \in Pages, x \in RevisionType : revs' = [revs EXCEPT ![q] = Append(@, x)]
  BY RevisionSteps
<1>3. CASE UNCHANGED revs
  BY <1>3
<1>4. ASSUME NEW q \in Pages, NEW x \in RevisionType, revs' = [revs EXCEPT ![q] = Append(@, x)]
      PROVE  /\ DOMAIN revs[p] \subseteq DOMAIN revs'[p]
             /\ \A i \in DOMAIN revs[p] : revs'[p][i] = revs[p][i]
  <2>1. revs'[p] = IF p = q THEN Append(revs[p], x) ELSE revs[p]
    BY <1>4 DEF OtherTypes
  <2> QED BY <1>1, <2>1
<1> QED BY <1>2, <1>3, <1>4

LEMMA WrittenStays ==
  ASSUME OtherTypes, HandsFit, [Next]_vars
  PROVE  \A p \in Pages : \A k : Written(p, k, TRUE) => Written(p, k, TRUE)'
<1> SUFFICES ASSUME NEW p \in Pages, NEW k, Written(p, k, TRUE) PROVE Written(p, k, TRUE)'
  OBVIOUS
<1> QED BY TextStays DEF Written
(* What a step makes of the item of a run.                                  *)
NewRun(i) ==
  /\ i \notin DOMAIN items
  /\ items'[i].total = Cardinality(Asked(i)') /\ items'[i].status # "COMPLETED"
  /\ \A p \in Pages : items'[i].row[p] # "COMPLETED"
SameBooks(i) ==
  /\ i \in DOMAIN items
  /\ items'[i].row = items[i].row /\ items'[i].status = items[i].status
PageBookedOn(i, w) ==
  /\ i \in DOMAIN items /\ act[w].pc = "book" /\ act[w].book = i
  /\ \A q \in Pages : items'[i].row[q] = IF q = act[w].page THEN "COMPLETED" ELSE items[i].row[q]
  /\ items'[i].status = IF act[w].close THEN "COMPLETED" ELSE items[i].status

LEMMA RunCases ==
  ASSUME Types, [Next]_vars, NEW i \in DOMAIN items', items'[i].kind \in Work
  PROVE  NewRun(i) \/ SameBooks(i) \/ \E w \in Workers : PageBookedOn(i, w)
<1>1. CASE UNCHANGED items
  BY <1>1 DEF SameBooks
<1>2. CASE StartsRun
  <2>1. PICK k \in Kinds, P \in SUBSET Pages :
          /\ DOMAIN items' = DOMAIN items \cup {Len(items) + 1}
          /\ Len(items) + 1 \notin DOMAIN items
          /\ items'[Len(items) + 1] = NewItem(k, P, Cardinality(P))
    BY <1>2, RunStarted DEF Types
  <2>2. \A j \in DOMAIN items : items'[j] = items[j]
    BY <1>2, RunStarted DEF Types
  <2>3. CASE i \in DOMAIN items
    BY <2>2, <2>3 DEF SameBooks
  <2>4. CASE i \notin DOMAIN items
    <3>1. items'[i] = NewItem(k, P, Cardinality(P))
      BY <2>1, <2>4
    <3>2. {p \in Pages : NewItem(k, P, Cardinality(P)).res[p] # "none"} = P
      BY DEF NewItem
    <3>3. Asked(i)' = P
      BY <3>1, <3>2 DEF Asked
    <3>4. /\ NewItem(k, P, Cardinality(P)).total = Cardinality(P)
          /\ NewItem(k, P, Cardinality(P)).status # "COMPLETED"
          /\ \A p \in Pages : NewItem(k, P, Cardinality(P)).row[p] # "COMPLETED"
      BY DEF NewItem
    <3> QED BY <2>4, <3>1, <3>3, <3>4 DEF NewRun
  <2> QED BY <2>3, <2>4
<1>3. CASE Answers
  BY <1>3, ResultNoted DEF SameBooks, Types
<1>4. CASE Logs
  <2>1. /\ \A j \in DOMAIN items : items[j].kind \in Work => items'[j] = items[j]
        /\ \A j \in DOMAIN items' \ DOMAIN items : items'[j].kind \notin Work
        /\ ItemsKept
    BY <1>4, PageLogged DEF Types
  <2> QED BY <2>1 DEF SameBooks, ItemsKept
<1>5. ASSUME NEW w \in Workers, act[w].pc = "book", Books(w)
      PROVE  SameBooks(i) \/ PageBookedOn(i, w)
  <2>1. /\ DOMAIN items' = DOMAIN items
        /\ \A q \in Pages :
             items'[i].row[q] = IF i = act[w].book /\ q = act[w].page THEN "COMPLETED"
                                ELSE items[i].row[q]
        /\ items'[i].status = IF i = act[w].book /\ act[w].close THEN "COMPLETED"
                               ELSE items[i].status
    BY <1>5, PageIsBooked
  <2>2. CASE i = act[w].book
    BY <1>5, <2>1, <2>2 DEF PageBookedOn
  <2>3. CASE i # act[w].book
    <3>1. items[i] \in ItemType /\ items'[i] \in ItemType
      BY <1>5, <2>1, PageIsBooked DEF Types, ItemTypes
    <3>2. items'[i].row = items[i].row
      BY <2>1, <2>3, <3>1 DEF ItemType
    <3> QED BY <2>1, <2>3, <3>2 DEF SameBooks
  <2> QED BY <2>2, <2>3
<1> QED BY <1>1, <1>2, <1>3, <1>4, <1>5, ItemCases

TextKinds == Work \ {"translation"}

(* A task that has saved, and a page that is booked, has its text.          *)
TextIsThere ==
  /\ \A w \in Workers :
       act[w].pc \in {"credit", "pay", "count", "book"} /\ act[w].kind \in TextKinds
       => Written(act[w].page, act[w].kind, TRUE)
  /\ \A i \in DOMAIN items, p \in Pages :
       items[i].kind \in TextKinds /\ items[i].row[p] = "COMPLETED"
       => Written(p, items[i].kind, TRUE)

LEMMA SavedTaskHasText ==
  ASSUME Types, [Next]_vars, TextIsThere, NEW w \in Workers,
         act'[w].pc \in {"credit", "pay", "count", "book"}, act'[w].kind \in TextKinds
  PROVE  Written(act[w].page, act[w].kind, TRUE)'
<1>1. PICK y, p, k : y = act'[w] /\ p = y.page /\ k = y.kind
  OBVIOUS
<1>2. SUFFICES Written(p, k, TRUE)'
  BY <1>1
<1>3. p \in Pages
  BY <1>1, NextTypes DEF Types, TaskTypes, Asks, Asked
<1>4. CASE act'[w] = act[w]
  BY <1>1, <1>3, <1>4, WrittenStays, TypesFit DEF TextIsThere
<1>5. CASE Advances(w, act'[w])
  <2>1. act[w].page = p /\ act[w].kind = k
    BY <1>1, <1>5 DEF Advances
  <2>2. CASE Done(act[w].page, act[w].kind)
    BY <1>3, <2>1, <2>2, WrittenStays, TypesFit DEF Done
  <2>3. CASE act[w].pc \in {"credit", "pay"} \/ CountPages(w)
    BY <1>1, <1>3, <2>1, <2>3, WrittenStays, TypesFit DEF TextIsThere, CountPages
  <2>4. CASE InsertRevision(w)
    <3>1. /\ revs[p] \in Seq(RevisionType) /\ p \in DOMAIN revs
      BY <1>3 DEF Types, OtherTypes
    <3>2. revs'[p] = Append(revs[p], [track |-> k, bot |-> TRUE])
      BY <2>1, <2>4, <3>1 DEF InsertRevision
    <3>3. Len(revs[p]) + 1 \in DOMAIN revs'[p]
      BY <3>1, <3>2
    <3>4. revs'[p][Len(revs[p]) + 1] = [track |-> k, bot |-> TRUE]
      BY <3>1, <3>2
    <3> QED BY <3>3, <3>4 DEF Written
  <2> QED BY <1>1, <1>5, <2>2, <2>3, <2>4 DEF Advances, TextKinds
<1> QED BY <1>4, <1>5, WorkerCases

LEMMA TextStaysThere ==
  ASSUME Types, [Next]_vars, TextIsThere
  PROVE  TextIsThere'
<1>1. ASSUME NEW i \in DOMAIN items', NEW p \in Pages, items'[i].kind \in TextKinds,
             items'[i].row[p] = "COMPLETED"
      PROVE  Written(p, items[i].kind, TRUE)'
  <2>1. NewRun(i) \/ SameBooks(i) \/ \E w \in Workers : PageBookedOn(i, w)
    BY <1>1, RunCases DEF TextKinds
  <2>2. i \in DOMAIN items => items'[i].kind = items[i].kind
    BY NextTypes DEF ItemsKept
  <2>3. PICK k : k = items'[i].kind
    OBVIOUS
  <2>4. CASE i \in DOMAIN items /\ items[i].row[p] = "COMPLETED"
    BY <1>1, <2>2, <2>3, <2>4, WrittenStays, TypesFit DEF TextIsThere
  <2>5. ASSUME NEW w \in Workers, PageBookedOn(i, w), p = act[w].page
        PROVE  Written(p, items[i].kind, TRUE)'
    <3>1. act[w].kind = k /\ act[w].pc = "book"
      BY <2>2, <2>3, <2>5 DEF PageBookedOn, Types, TaskTypes, OfKind
    <3>2. Written(p, k, TRUE)
      BY <1>1, <2>3, <2>5, <3>1 DEF TextIsThere
    <3> QED BY <2>3, <3>2, WrittenStays, TypesFit
  <2> QED BY <1>1, <2>1, <2>4, <2>5 DEF NewRun, SameBooks, PageBookedOn
<1>2. ASSUME NEW w \in Workers, act'[w].pc \in {"credit", "pay", "count", "book"},
             act'[w].kind \in TextKinds
      PROVE  Written(act[w].page, act[w].kind, TRUE)'
  BY <1>2, SavedTaskHasText
<1> QED BY <1>1, <1>2 DEF TextIsThere

(* A page booked as COMPLETED on an OCR run has a text by the bot on the    *)
(* track of that engine.                                                    *)
THEOREM BookedPagesHaveText == Spec => []CompletedPageHasText
<1>1. Init => Types /\ TextIsThere
  <2> SUFFICES ASSUME Init PROVE TextIsThere
    BY InitTypes
  <2>1. DOMAIN items = {}
    BY DEF Init
  <2>2. \A w \in Workers : act[w].pc = "idle"
    BY DEF Init, Actors, Idle
  <2> QED BY <2>1, <2>2 DEF TextIsThere
<1>2. Types /\ TextIsThere /\ [Next]_vars => Types' /\ TextIsThere'
  BY NextTypes, TextStaysThere
<1>3. TextIsThere => CompletedPageHasText
  BY DEF TextIsThere, CompletedPageHasText, TextKinds, Work
<1> QED BY <1>1, <1>2, <1>3, PTL DEF Spec
----------------------------------------------------------------------------
(* The first run of a kind.                                                 *)

First(i) == i \in DOMAIN items /\ items[i].kind \in Work /\ \A j \in OfKind(items[i].kind) : i <= j

(* What a worker that has counted may do to the first run.                  *)
CountIsTrue(w) ==
  act[w].pc = "book" /\ First(act[w].book) =>
    /\ act[w].page \in Asked(act[w].book)
    /\ act[w].close => Asked(act[w].book) \subseteq Completed(act[w].book) \cup {act[w].page}

FirstRunBooks ==
  /\ \A i \in DOMAIN items : items[i].kind \in Work => items[i].total = Cardinality(Asked(i))
  /\ \A i : First(i) =>
       /\ Completed(i) \subseteq Asked(i)
       /\ items[i].status = "COMPLETED" => Asked(i) \subseteq Completed(i)
  /\ \A w \in Workers : CountIsTrue(w)

LEMMA FirstWasFirst ==
  ASSUME ItemsKept, NEW i \in DOMAIN items, First(i)'
  PROVE  First(i)
BY DEF ItemsKept, First, OfKind

LEMMA CompletedStays ==
  ASSUME Types, [Next]_vars, NEW i \in DOMAIN items, items[i].kind \in Work
  PROVE  Completed(i) \subseteq Completed(i)'
<1>1. i \in DOMAIN items' /\ items'[i].kind \in Work
  BY NextTypes DEF ItemsKept
<1>2. SameBooks(i) \/ \E w \in Workers : PageBookedOn(i, w)
  BY <1>1, RunCases DEF NewRun
<1> QED BY <1>2 DEF SameBooks, PageBookedOn, Completed

(* The count of a page on the first run of its kind.                        *)
LEMMA CountedTrue ==
  ASSUME Types, FirstRunBooks, NEW w \in Workers, CountPages(w), First(BookedOn(act[w].kind))
  PROVE  LET i == BookedOn(act[w].kind)
         IN  /\ act[w].page \in Asked(i)
             /\ act'[w].close => Asked(i) \subseteq Completed(i) \cup {act[w].page}
<1> DEFINE i == BookedOn(act[w].kind)  C == Completed(i) \cup {act[w].page}
<1>1. /\ Asks(act[w].item, act[w].page) /\ act[w].kind = items[act[w].item].kind
      /\ act[w].kind \in Work
  BY DEF CountPages, Types, TaskTypes, Asks
<1>2. act[w].item \in OfKind(act[w].kind) /\ OfKind(act[w].kind) \in SUBSET (1 .. Len(items))
      /\ Len(items) \in Nat
  BY <1>1 DEF Asks, OfKind, Types, ItemTypes
<1>3. i \in OfKind(act[w].kind) /\ \A j \in OfKind(act[w].kind) : j <= i
  <2> DEFINE S == OfKind(act[w].kind)
  <2>1. S # {} /\ S \in SUBSET (1 .. Len(items)) /\ Len(items) \in Nat
    BY <1>2
  <2>2. i = NewestOf(S)
    BY <2>1 DEF BookedOn
  <2> HIDE DEF i, S
  <2>3. i \in S /\ \A j \in S : j <= i
    BY <2>1, <2>2, LastOne
  <2> QED BY <2>3 DEF S
<1> HIDE DEF i
<1>4. First(i) /\ items[i].kind = act[w].kind
  BY <1>3 DEF i, OfKind
<1>5. i = act[w].item
  BY <1>2, <1>3, <1>4 DEF First
<1>6. act[w].page \in Asked(i)
  BY <1>1, <1>5 DEF Asks
<1>7. ASSUME act'[w].close PROVE Asked(i) \subseteq C
  <2>1. Cardinality(C) >= items[i].total
    BY <1>7 DEF CountPages, Types, TaskTypes, Actors, ActType, i
  <2>2. C \subseteq Asked(i) /\ items[i].total = Cardinality(Asked(i))
    BY <1>4, <1>6 DEF FirstRunBooks, First
  <2>3. IsFiniteSet(Asked(i)) /\ Cardinality(Asked(i)) \in Nat /\ Cardinality(C) \in Nat
    BY <2>2, PagesAreFinite DEF Asked
  <2> HIDE DEF C
  <2>4. Cardinality(C) <= Cardinality(Asked(i))
    BY <2>2, <2>3, FS_Subset
  <2>5. Cardinality(C) = Cardinality(Asked(i))
    BY <2>1, <2>2, <2>3, <2>4
  <2> QED BY <2>2, <2>3, <2>5, FS_Subset
<1> QED BY <1>6, <1>7 DEF i

LEMMA CountStaysTrue ==
  ASSUME Types, FirstRunBooks, [Next]_vars, NEW w \in Workers
  PROVE  CountIsTrue(w)'
<1>1. SUFFICES ASSUME act'[w].pc = "book", First(act[w].book)'
               PROVE  /\ (act[w].page \in Asked(act[w].book))'
                      /\ act'[w].close =>
                           (Asked(act[w].book) \subseteq Completed(act[w].book) \cup {act[w].page})'
  BY DEF CountIsTrue
<1>2. PICK b, p : b = act'[w].book /\ p = act'[w].page
  OBVIOUS
<1>3. First(b)'
  BY <1>1, <1>2
<1>4. b \in DOMAIN items /\ act[w].page = p
      /\ (First(b) => p \in Asked(b) /\ (act'[w].close => Asked(b) \subseteq Completed(b) \cup {p}))
  <2>1. CASE act'[w] = act[w]
    BY <1>1, <1>2, <2>1 DEF FirstRunBooks, CountIsTrue, Types, TaskTypes, OfKind
  <2>2. CASE Advances(w, act'[w])
    <3>1. CountPages(w) /\ act[w].page = p
      BY <1>1, <1>2, <2>2 DEF Advances
    <3>2. act'[w].book = BookedOn(act[w].kind)
      BY <3>1 DEF CountPages, Types, TaskTypes, Actors, ActType
    <3>3. b \in DOMAIN items
      <4>1. UNCHANGED items
        BY <3>1 DEF CountPages
      <4> QED BY <1>3, <4>1 DEF First
    <3> QED BY <1>2, <3>1, <3>2, <3>3, CountedTrue
  <2> QED BY <1>1, <2>1, <2>2, WorkerCases
<1>5. First(b) /\ Asked(b)' = Asked(b) /\ Completed(b) \subseteq Completed(b)'
  BY <1>3, <1>4, NextTypes, FirstWasFirst, CompletedStays DEF ItemsKept, First
<1>6. p \in Asked(b)' /\ (act'[w].close => Asked(b)' \subseteq Completed(b)' \cup {p})
  BY <1>4, <1>5
<1> QED BY <1>2, <1>6

LEMMA BooksStayTrue ==
  ASSUME Types, FirstRunBooks, [Next]_vars
  PROVE  FirstRunBooks'
<1>0. Types' /\ ItemsKept
  BY NextTypes
<1>1. ASSUME NEW i \in DOMAIN items', items'[i].kind \in Work
      PROVE  items'[i].total = Cardinality(Asked(i)')
  <2>1. CASE i \in DOMAIN items
    <3>1. items'[i].total = items[i].total /\ items'[i].kind = items[i].kind /\ Asked(i)' = Asked(i)
      BY <1>0, <2>1 DEF ItemsKept
    <3> QED BY <1>1, <2>1, <3>1 DEF FirstRunBooks
  <2>2. CASE i \notin DOMAIN items
    BY <1>1, <2>2, RunCases DEF NewRun, SameBooks, PageBookedOn
  <2> QED BY <2>1, <2>2
<1>2. ASSUME NEW i, First(i)'
      PROVE  /\ (Completed(i) \subseteq Asked(i))'
             /\ items'[i].status = "COMPLETED" => (Asked(i) \subseteq Completed(i))'
  <2>1. i \in DOMAIN items' /\ items'[i].kind \in Work
    BY <1>2 DEF First
  <2>2. CASE NewRun(i)
    BY <2>2 DEF NewRun, Completed
  <2>3. ASSUME i \in DOMAIN items
        PROVE  /\ First(i) /\ Asked(i)' = Asked(i) /\ Completed(i) \subseteq Completed(i)'
               /\ Completed(i) \subseteq Asked(i)
               /\ items[i].status = "COMPLETED" => Asked(i) \subseteq Completed(i)
    BY <1>0, <1>2, <2>3, FirstWasFirst, CompletedStays DEF FirstRunBooks, ItemsKept, First
  <2>4. CASE SameBooks(i)
    <3>1. Completed(i)' = Completed(i)
      BY <2>4 DEF SameBooks, Completed
    <3> QED BY <2>3, <2>4, <3>1 DEF SameBooks
  <2>5. ASSUME NEW w \in Workers, PageBookedOn(i, w)
        PROVE  /\ (Completed(i) \subseteq Asked(i))'
               /\ items'[i].status = "COMPLETED" => (Asked(i) \subseteq Completed(i))'
    <3>1. CountIsTrue(w) /\ First(i) /\ act[w].book = i /\ act[w].pc = "book"
      BY <2>3, <2>5 DEF PageBookedOn, FirstRunBooks
    <3>2. /\ act[w].page \in Asked(i)
          /\ act[w].close => Asked(i) \subseteq Completed(i) \cup {act[w].page}
      BY <3>1 DEF CountIsTrue
    <3>3. Completed(i)' = Completed(i) \cup {act[w].page}
      BY <2>5, <3>2 DEF PageBookedOn, Completed, Asked
    <3>4. items'[i].status = IF act[w].close THEN "COMPLETED" ELSE items[i].status
      BY <2>5 DEF PageBookedOn
    <3>5. Asked(i)' = Asked(i) /\ Completed(i) \subseteq Asked(i)
          /\ (items[i].status = "COMPLETED" => Asked(i) \subseteq Completed(i))
      BY <2>3, <2>5 DEF PageBookedOn
    <3>6. /\ Completed(i)' \subseteq Asked(i)'
          /\ items'[i].status = "COMPLETED" => Asked(i)' \subseteq Completed(i)'
      BY <3>2, <3>3, <3>4, <3>5
    <3> QED BY <3>6
  <2> QED BY <2>1, <2>2, <2>4, <2>5, RunCases
<1>3. \A w \in Workers : CountIsTrue(w)'
  BY CountStaysTrue
<1> QED BY <1>1, <1>2, <1>3 DEF FirstRunBooks

(* The first run of a kind that a project has is COMPLETED only when every  *)
(* page it was started for is.                                              *)
THEOREM FirstRunIsClosedWhenDone == Spec => []FirstRunIsDone
<1>1. Init => Types /\ FirstRunBooks
  <2> SUFFICES ASSUME Init PROVE FirstRunBooks
    BY InitTypes
  <2>1. DOMAIN items = {}
    BY DEF Init
  <2>2. \A w \in Workers : act[w].pc = "idle"
    BY DEF Init, Actors, Idle
  <2> QED BY <2>1, <2>2 DEF FirstRunBooks, First, CountIsTrue
<1>2. Types /\ FirstRunBooks /\ [Next]_vars => Types' /\ FirstRunBooks'
  BY NextTypes, BooksStayTrue
<1>3. FirstRunBooks => FirstRunIsDone
  BY DEF FirstRunBooks, FirstRunIsDone, First, Asked, Completed
<1> QED BY <1>1, <1>2, <1>3, PTL DEF Spec
----------------------------------------------------------------------------
(* What the organization is charged.  A payment writes what was read before *)
(* and one more, so a charge can get lost; what is kept is that whatever    *)
(* was read, with all that is still to be paid, is covered by saved work.   *)

BotSet(s) ==
  {x \in UNION {{p} \X DOMAIN revs[p] : p \in Pages} :
    /\ revs[x[1]][x[2]].bot
    /\ SortOf(revs[x[1]][x[2]].track) = s}

Paying == {"credit", "pay"}
Unpaid(s) == {a \in Actors : act[a].pc \in Paying /\ SortOf(act[a].kind) = s}
Covers(s, n) == n + Cardinality(Unpaid(s)) <= Cardinality(BotSet(s)) + spent.edits

Covered(s) ==
  /\ IsFiniteSet(BotSet(s)) /\ IsFiniteSet(Unpaid(s))
  /\ Covers(s, used[s])
  /\ \A a \in Unpaid(s) : act[a].pc = "pay" => Covers(s, act[a].seen)

Charges ==
  /\ spent \in [{"faults", "edits", "cancels"} -> Nat]
  /\ \A s \in Sorts : Covered(s)

LEMMA InitCharges == Init => Charges
<1> SUFFICES ASSUME Init PROVE Charges
  OBVIOUS
<1>1. spent \in [{"faults", "edits", "cancels"} -> Nat] /\ spent.edits = 0
  BY DEF Init
<1>2. ASSUME NEW s \in Sorts PROVE Covered(s)
  <2>1. \A p \in Pages : DOMAIN revs[p] = {}
    BY DEF Init
  <2>2. BotSet(s) = {}
    BY <2>1 DEF BotSet
  <2>3. \A a \in Actors : act[a].pc = "idle"
    BY DEF Init, Idle
  <2>4. Unpaid(s) = {}
    BY <2>3 DEF Unpaid, Paying
  <2>5. used[s] = 0
    BY DEF Init
  <2> QED BY <1>1, <2>2, <2>4, <2>5, FS_EmptySet DEF Covered, Covers
<1> QED BY <1>1, <1>2 DEF Charges

(* The revisions of the bot only become more, and one more with each save.  *)
LEMMA BotSetGrows ==
  ASSUME OtherTypes, HandsFit, [Next]_vars, NEW s \in Sorts, IsFiniteSet(BotSet(s))
  PROVE  /\ IsFiniteSet(BotSet(s)') /\ Cardinality(BotSet(s)) \in Nat
         /\ Cardinality(BotSet(s)') \in Nat
         /\ Cardinality(BotSet(s)) <= Cardinality(BotSet(s)')
         /\ (\E w \in Workers : InsertRevision(w) /\ SortOf(act[w].kind) = s)
              => Cardinality(BotSet(s)') = Cardinality(BotSet(s)) + 1
<1> DEFINE New == BotSet(s)'
<1>1. New = {x \in UNION {{p} \X DOMAIN revs'[p] : p \in Pages} :
               revs'[x[1]][x[2]].bot /\ SortOf(revs'[x[1]][x[2]].track) = s}
  BY DEF BotSet, SortOf
<1>2. Cardinality(BotSet(s)) \in Nat
  BY FS_CardinalityType
<1>3. CASE UNCHANGED revs
  <2>1. New = BotSet(s)
    BY <1>1, <1>3 DEF BotSet
  <2>2. ~\E w \in Workers : InsertRevision(w)
    <3> SUFFICES ASSUME NEW w \in Workers, InsertRevision(w) PROVE FALSE
      OBVIOUS
    <3>1. act[w].page \in Pages /\ revs[act[w].page] \in Seq(RevisionType)
          /\ act[w].page \in DOMAIN revs
      BY DEF InsertRevision, OtherTypes, HandsFit, Holding, MultiSteps, Actors
    <3>2. revs'[act[w].page] = Append(revs[act[w].page],
                                [track |-> act[w].kind, bot |-> w \in Workers \/ act[w].kind = "translation"])
      BY <3>1 DEF InsertRevision
    <3>3. Len(revs'[act[w].page]) = Len(revs[act[w].page]) + 1 /\ Len(revs[act[w].page]) \in Nat
      BY <3>1, <3>2
    <3> QED BY <1>3, <3>3
  <2> QED BY <1>2, <2>1, <2>2
<1>4. ASSUME NEW q \in Pages, NEW x \in RevisionType, revs' = [revs EXCEPT ![q] = Append(@, x)]
      PROVE  /\ IsFiniteSet(New) /\ Cardinality(New) \in Nat
             /\ Cardinality(BotSet(s)) <= Cardinality(New)
             /\ x.bot /\ SortOf(x.track) = s => Cardinality(New) = Cardinality(BotSet(s)) + 1
  <2> DEFINE z == <<q, Len(revs[q]) + 1>>
  <2>1. revs \in [Pages -> Seq(RevisionType)]
    BY DEF OtherTypes
  <2>2. /\ \A p \in Pages : p # q => revs'[p] = revs[p]
        /\ revs'[q] = Append(revs[q], x) /\ revs[q] \in Seq(RevisionType)
    BY <1>4, <2>1
  <2>3. /\ DOMAIN revs'[q] = DOMAIN revs[q] \cup {Len(revs[q]) + 1}
        /\ Len(revs[q]) + 1 \notin DOMAIN revs[q]
        /\ revs'[q][Len(revs[q]) + 1] = x
        /\ \A i \in DOMAIN revs[q] : revs'[q][i] = revs[q][i]
    BY <2>2
  <2>4. z \notin BotSet(s)
    BY <2>3 DEF BotSet
  <2>5. New = BotSet(s) \cup (IF x.bot /\ SortOf(x.track) = s THEN {z} ELSE {})
    <3> DEFINE Added == IF x.bot /\ SortOf(x.track) = s THEN {z} ELSE {}
               BotRow(p, i) == revs[p][i].bot /\ SortOf(revs[p][i].track) = s
               NewRow(p, i) == revs'[p][i].bot /\ SortOf(revs'[p][i].track) = s
    <3>1. \A y : y \in BotSet(s) <=> \E p \in Pages : \E i \in DOMAIN revs[p] : y = <<p, i>> /\ BotRow(p, i)
      BY DEF BotSet
    <3>2. \A y : y \in New <=> \E p \in Pages : \E i \in DOMAIN revs'[p] : y = <<p, i>> /\ NewRow(p, i)
      BY <1>1
    <3>3. \A p \in Pages : \A i \in DOMAIN revs[p] :
            i \in DOMAIN revs'[p] /\ (NewRow(p, i) <=> BotRow(p, i))
      BY <2>2, <2>3
    <3>4. \A p \in Pages : \A i \in DOMAIN revs'[p] : i \in DOMAIN revs[p] \/ <<p, i>> = z
      BY <2>2, <2>3
    <3>5. z \in Added => x.bot /\ SortOf(x.track) = s
      OBVIOUS
    <3>6. z \in New <=> z \in Added
      <4>1. NewRow(q, Len(revs[q]) + 1) <=> x.bot /\ SortOf(x.track) = s
        BY <2>3
      <4>2. Len(revs[q]) + 1 \in DOMAIN revs'[q]
        BY <2>3
      <4> HIDE DEF NewRow
      <4> QED BY <3>2, <4>1, <4>2
    <3>7. \A y : y # z => (y \in New <=> y \in BotSet(s))
      <4> HIDE DEF NewRow, BotRow, New, z
      <4> QED BY <3>1, <3>2, <3>3, <3>4
    <3>8. Added \subseteq {z}
      OBVIOUS
    <3> HIDE DEF Added, New, z
    <3> QED BY <2>4, <3>6, <3>7, <3>8 DEF Added
  <2> HIDE DEF z, New
  <2>6. CASE x.bot /\ SortOf(x.track) = s
    <3>1. New = BotSet(s) \cup {z}
      BY <2>5, <2>6
    <3>2. IsFiniteSet(New) /\ Cardinality(New) = Cardinality(BotSet(s)) + 1
      BY <2>4, <3>1, FS_AddElement
    <3> QED BY <1>2, <3>2
  <2>7. CASE ~(x.bot /\ SortOf(x.track) = s)
    <3>1. New = BotSet(s)
      BY <2>5, <2>7
    <3> QED BY <1>2, <2>7, <3>1
  <2> QED BY <2>6, <2>7
<1>5. ASSUME NEW w \in Workers, InsertRevision(w)
      PROVE  \E q \in Pages, x \in RevisionType :
               /\ revs' = [revs EXCEPT ![q] = Append(@, x)]
               /\ x.bot /\ x.track = act[w].kind
  <2>1. act[w].page \in Pages /\ act[w].kind \in Work
    BY <1>5 DEF InsertRevision, HandsFit, Holding, MultiSteps, Actors
  <2> DEFINE x == [track |-> act[w].kind, bot |-> w \in Workers \/ act[w].kind = "translation"]
  <2>2. x \in RevisionType /\ x.bot /\ x.track = act[w].kind
    BY <2>1 DEF RevisionType, Tracks
  <2>3. revs' = [revs EXCEPT ![act[w].page] = Append(@, x)]
    BY <1>5 DEF InsertRevision
  <2> HIDE DEF x
  <2> QED BY <2>1, <2>2, <2>3
<1> HIDE DEF New
<1>6. CASE \E w \in Workers : InsertRevision(w) /\ SortOf(act[w].kind) = s
  <2>1. PICK w \in Workers : InsertRevision(w) /\ SortOf(act[w].kind) = s
    BY <1>6
  <2>2. PICK q \in Pages, x \in RevisionType :
          revs' = [revs EXCEPT ![q] = Append(@, x)] /\ x.bot /\ x.track = act[w].kind
    BY <1>5, <2>1
  <2> QED BY <1>2, <1>4, <2>1, <2>2 DEF New
<1>7. CASE ~\E w \in Workers : InsertRevision(w) /\ SortOf(act[w].kind) = s
  BY <1>2, <1>3, <1>4, <1>7, RevisionSteps DEF New
<1> QED BY <1>6, <1>7
(* The steps, by what they do to those who are to pay.                      *)
LEMMA PaySteps ==
  ASSUME HandsFit, [Next]_vars
  PROVE  \/ UNCHANGED <<act, used>>
         \/ UNCHANGED used /\ \E a \in Actors : \E y : y.pc \notin Paying /\ act' = [act EXCEPT ![a] = y]
         \/ \E a \in Actors : ReadCredit(a) \/ Pay(a)
         \/ \E w \in Workers : InsertRevision(w)
         \/ \E e \in Editors, p \in Pages, k \in Kinds : EditorAsks(e, p, k)
<1> USE ConstantsAssumption DEF Paying
<1> DEFINE Leaves(a) == \E y : y.pc \notin Paying /\ act' = [act EXCEPT ![a] = y]
<1>0. /\ \A w \in Workers : w \in Actors /\ w \notin Editors
      /\ \A e \in Editors : e \in Actors /\ e \notin Workers
      /\ \A a \in Actors : a \in Workers \/ a \in Editors
      /\ DOMAIN act = Actors /\ \A a \in Actors : DOMAIN act[a] = Fields
      /\ Idle.pc = "idle"
  BY DEF Actors, HandsFit, Idle
<1>1. ASSUME NEW a \in Actors, act' = [act EXCEPT ![a] = Idle] PROVE Leaves(a)
  BY <1>0, <1>1
<1>2. ASSUME NEW a \in Actors, NEW pc, pc \notin Paying, Go(a, pc) PROVE Leaves(a)
  <2> DEFINE y == [act[a] EXCEPT !.pc = pc]
  <2>1. y.pc = pc /\ act' = [act EXCEPT ![a] = y]
    BY <1>0, <1>2 DEF Go, Fields
  <2> HIDE DEF y
  <2> QED BY <1>2, <2>1
<1>3. ASSUME NEW w \in Workers, NEW o, Ends(w, o) PROVE Leaves(w)
  <2>1. CASE items[act[w].item].kind # "multi"
    BY <1>0, <1>1, <1>3, <2>1 DEF Ends
  <2>2. CASE items[act[w].item].kind = "multi"
    <3> DEFINE n == IF o = "SUCCESS" THEN 0 ELSE 1
               y == [[act[w] EXCEPT !.pc = "next"] EXCEPT !.errs = @ + n]
    <3>1. act' = [act EXCEPT ![w].pc = "next", ![w].errs = @ + n]
      BY <1>3, <2>2 DEF Ends
    <3> HIDE DEF n
    <3>2. act' = [act EXCEPT ![w] = y] /\ y.pc = "next"
      BY <1>0, <3>1 DEF Fields
    <3> HIDE DEF y
    <3> QED BY <3>2
  <2> QED BY <2>1, <2>2
<1> HIDE DEF Leaves
<1>5. ASSUME NEW w \in Workers, TaskStep(w) PROVE UNCHANGED used /\ Leaves(w)
  <2>0. w \in Actors
    BY <1>0
  <2>1. UNCHANGED used
    BY <1>5 DEF TaskStep, ResolveOcr, ResolveTranslation, Call, CallFails, CountPages, BookPage
  <2>2. CASE ResolveOcr(w)
    <3>1. act[w].pc = "resolve"
      BY <2>2 DEF ResolveOcr
    <3>2. \/ Go(w, "count") \/ Ends(w, "FAILURE")
          \/ \E n : act' = [act EXCEPT ![w].pc = "call", ![w].pv = n]
      BY <2>2 DEF ResolveOcr
    <3>3. ASSUME \E n : act' = [act EXCEPT ![w].pc = "call", ![w].pv = n] PROVE Leaves(w)
      <4>1. PICK n : act' = [act EXCEPT ![w].pc = "call", ![w].pv = n]
        BY <3>3
      <4> DEFINE y == [act[w] EXCEPT !.pc = "call", !.pv = n]
      <4>2. act' = [act EXCEPT ![w] = y]
        BY <4>1
      <4>3. y.pc = "call"
        BY <1>0, <2>0 DEF Fields
      <4> HIDE DEF y
      <4> QED BY <4>2, <4>3 DEF Leaves
    <3> QED BY <1>2, <1>3, <2>0, <2>1, <3>1, <3>2, <3>3
  <2>3. CASE ResolveTranslation(w)
    <3>1. act[w].pc = "resolve"
      BY <2>3 DEF ResolveTranslation
    <3>2. \/ Go(w, "count") \/ Ends(w, "FAILURE")
          \/ \E n : act' = [act EXCEPT ![w].pc = "call", ![w].src = n]
      BY <2>3 DEF ResolveTranslation
    <3>3. ASSUME \E n : act' = [act EXCEPT ![w].pc = "call", ![w].src = n] PROVE Leaves(w)
      <4>1. PICK n : act' = [act EXCEPT ![w].pc = "call", ![w].src = n]
        BY <3>3
      <4> DEFINE y == [act[w] EXCEPT !.pc = "call", !.src = n]
      <4>2. act' = [act EXCEPT ![w] = y]
        BY <4>1
      <4>3. y.pc = "call"
        BY <1>0, <2>0 DEF Fields
      <4> HIDE DEF y
      <4> QED BY <4>2, <4>3 DEF Leaves
    <3> QED BY <1>2, <1>3, <2>0, <2>1, <3>1, <3>2, <3>3
  <2>4. CASE Call(w)
    <3>1. act[w].pc = "call"
      BY <2>4 DEF Call
    <3>2. Ends(w, "FAILURE") \/ \E n : act' = [act EXCEPT ![w].pc = "bump", ![w].pv = n]
      BY <2>4 DEF Call
    <3>3. ASSUME \E n : act' = [act EXCEPT ![w].pc = "bump", ![w].pv = n] PROVE Leaves(w)
      <4>1. PICK n : act' = [act EXCEPT ![w].pc = "bump", ![w].pv = n]
        BY <3>3
      <4> DEFINE y == [act[w] EXCEPT !.pc = "bump", !.pv = n]
      <4>2. act' = [act EXCEPT ![w] = y]
        BY <4>1
      <4>3. y.pc = "bump"
        BY <1>0, <2>0 DEF Fields
      <4> HIDE DEF y
      <4> QED BY <4>2, <4>3 DEF Leaves
    <3> QED BY <1>3, <2>1, <3>1, <3>2, <3>3
  <2>5. CASE CallFails(w)
    <3>1. \E o : Ends(w, o)
      BY <2>5 DEF CallFails
    <3> QED BY <1>3, <2>1, <3>1
  <2>6. CASE CountPages(w)
    <3>1. Leaves(w)
      <4>1. PICK n, c : act' = [act EXCEPT ![w].pc = "book", ![w].book = n, ![w].close = c]
        BY <2>6 DEF CountPages
      <4> DEFINE y == [act[w] EXCEPT !.pc = "book", !.book = n, !.close = c]
      <4>2. act' = [act EXCEPT ![w] = y]
        BY <4>1
      <4>3. y.pc = "book"
        BY <1>0, <2>0 DEF Fields
      <4> HIDE DEF y
      <4> QED BY <4>2, <4>3 DEF Leaves
    <3> QED BY <2>1, <3>1
  <2>7. CASE BookPage(w)
    <3>1. Go(w, "next") \/ act' = [act EXCEPT ![w] = Idle]
      BY <2>7 DEF BookPage
    <3> QED BY <1>1, <1>2, <2>0, <2>1, <3>1
  <2> QED BY <1>5, <2>1, <2>2, <2>3, <2>4, <2>5, <2>6, <2>7 DEF TaskStep
<1>6. ASSUME NEW a \in Actors, Bump(a) PROVE UNCHANGED used /\ Leaves(a)
  <2>1. UNCHANGED used /\ act[a].pc = "bump"
    BY <1>6 DEF Bump
  <2>2. \/ Go(a, "insert") \/ act' = [act EXCEPT ![a] = Idle]
        \/ a \in Workers /\ Ends(a, "FAILURE")
    BY <1>6 DEF Bump
  <2> QED BY <1>1, <1>2, <1>3, <2>1, <2>2
<1>7. ASSUME NEW e \in Editors, InsertRevision(e) PROVE UNCHANGED used /\ Leaves(e)
  <2>1. UNCHANGED used /\ Go(e, "log")
    BY <1>0, <1>7 DEF InsertRevision
  <2> QED BY <1>0, <1>2, <2>1
<1>8. ASSUME NEW w \in Workers, NEW m \in mail, Receive(w, m) PROVE UNCHANGED used /\ Leaves(w)
  <2> DEFINE y == [Idle EXCEPT !.pc = "resolve", !.item = m[1], !.kind = items[m[1]].kind,
                                !.page = m[2]]
  <2>1. act' = [act EXCEPT ![w] = y] /\ UNCHANGED used
    BY <1>8 DEF Receive
  <2>2. y.pc = "resolve"
    BY DEF Idle
  <2> HIDE DEF y
  <2> QED BY <2>1, <2>2 DEF Leaves
<1>9. ASSUME NEW e \in Editors, EditorStep(e) PROVE UNCHANGED used /\ Leaves(e)
  <2>1. CASE EditorVersion(e)
    <3>1. UNCHANGED used
      BY <2>1 DEF EditorVersion
    <3>2. Leaves(e)
      <4>1. PICK n : act' = [act EXCEPT ![e].pc = "bump", ![e].pv = n]
        BY <2>1 DEF EditorVersion
      <4> DEFINE y == [act[e] EXCEPT !.pc = "bump", !.pv = n]
      <4>2. act' = [act EXCEPT ![e] = y]
        BY <4>1
      <4>3. y.pc = "bump"
        BY <1>0, <1>9 DEF Fields
      <4> HIDE DEF y
      <4> QED BY <4>2, <4>3 DEF Leaves
    <3> QED BY <3>1, <3>2
  <2>2. CASE EditorLog(e)
    BY <1>0, <1>1, <2>2 DEF EditorLog
  <2> QED BY <1>9, <2>1, <2>2 DEF EditorStep
<1>10. ASSUME NEW w \in Workers, Crash(w) PROVE UNCHANGED used /\ Leaves(w)
  BY <1>0, <1>1, <1>10 DEF Crash
<1>11. ASSUME \/ UNCHANGED vars
              \/ \E r \in Posts, k \in Kinds : PostCheck(r, k)
              \/ \E r \in Posts : PostKey(r) \/ PostRun(r)
              \/ \E k \in Kinds : StatusPoll(k)
              \/ \E p \in Pages : EditPage(p)
              \/ \E w \in Workers : DeliverAgain(w)
       PROVE  UNCHANGED <<act, used>>
  BY <1>11 DEF vars, PostCheck, PostKey, PostRun, StatusPoll, EditPage, DeliverAgain
<1> HIDE DEF Paying
<1>12. \/ UNCHANGED <<act, used>>
       \/ UNCHANGED used /\ \E a \in Actors : Leaves(a)
       \/ \E a \in Actors : ReadCredit(a) \/ Pay(a)
       \/ \E w \in Workers : InsertRevision(w)
       \/ \E e \in Editors, p \in Pages, k \in Kinds : EditorAsks(e, p, k)
  BY <1>0, <1>5, <1>6, <1>7, <1>8, <1>9, <1>10, <1>11 DEF Next, Step, SaveStep
<1> QED BY <1>12 DEF Leaves

LEMMA SpentGrows ==
  ASSUME Charges, [Next]_vars
  PROVE  /\ spent' \in [{"faults", "edits", "cancels"} -> Nat]
         /\ spent.edits \in Nat /\ spent'.edits \in Nat /\ spent.edits <= spent'.edits
         /\ (\E e \in Editors, p \in Pages, k \in Kinds : EditorAsks(e, p, k))
              => spent'.edits = spent.edits + 1
<1> USE DEF Charges
<1>1. ASSUME NEW what \in {"faults", "edits"}, Spend(what)
      PROVE  /\ spent' \in [{"faults", "edits", "cancels"} -> Nat]
             /\ spent'.edits = IF what = "edits" THEN spent.edits + 1 ELSE spent.edits
  BY <1>1 DEF Spend
<1>2. UNCHANGED spent \/ \E what \in {"faults", "edits"} : Spend(what)
  <2>1. ASSUME NEW w \in Workers, TaskStep(w) PROVE UNCHANGED spent \/ Spend("faults")
    BY <2>1 DEF TaskStep, ResolveOcr, ResolveTranslation, Call, CallFails, CountPages, BookPage
  <2>2. ASSUME NEW a \in Actors, SaveStep(a) PROVE UNCHANGED spent
    BY <2>2 DEF SaveStep, Bump, InsertRevision, ReadCredit, Pay
  <2>3. ASSUME \/ UNCHANGED vars
               \/ \E r \in Posts, k \in Kinds : PostCheck(r, k)
               \/ \E r \in Posts : PostKey(r) \/ PostRun(r)
               \/ \E k \in Kinds : StatusPoll(k)
               \/ \E w \in Workers, m \in mail : Receive(w, m)
               \/ \E e \in Editors : EditorStep(e)
        PROVE  UNCHANGED spent
    BY <2>3 DEF vars, PostCheck, PostKey, PostRun, StatusPoll, Receive, EditorStep, EditorVersion,
                EditorLog
  <2>4. ASSUME \/ \E w \in Workers : DeliverAgain(w) \/ Crash(w)
               \/ \E e \in Editors, p \in Pages, k \in Kinds : EditorAsks(e, p, k)
               \/ \E p \in Pages : EditPage(p)
        PROVE  Spend("faults") \/ Spend("edits")
    BY <2>4 DEF DeliverAgain, Crash, EditorAsks, EditPage
  <2> QED BY <2>1, <2>2, <2>3, <2>4 DEF Next, Step
<1>3. ASSUME NEW e \in Editors, NEW p \in Pages, NEW k \in Kinds, EditorAsks(e, p, k)
      PROVE  Spend("edits")
  BY <1>3 DEF EditorAsks
<1> QED BY <1>1, <1>2, <1>3
Payer(x, s) == x.pc \in Paying /\ SortOf(x.kind) = s

(* No one is to pay who was not, and what is read is what is there.         *)
LEMMA NobodyElsePays ==
  ASSUME NEW s \in Sorts,
         Covered(s), used[s] \in Nat, \A a \in Actors : act[a].seen \in Nat,
         IsFiniteSet(BotSet(s)'),
         Cardinality(BotSet(s)) \in Nat, Cardinality(BotSet(s)') \in Nat,
         Cardinality(BotSet(s)) <= Cardinality(BotSet(s)'),
         spent.edits \in Nat, spent'.edits \in Nat, spent.edits <= spent'.edits,
         used'[s] = used[s],
         \A a \in Actors : Payer(act'[a], s) =>
           /\ Payer(act[a], s)
           /\ act'[a].pc = "pay" => \/ act[a].pc = "pay" /\ act'[a].seen = act[a].seen
                                    \/ act'[a].seen = used[s]
  PROVE  Covered(s)'
<1> DEFINE n == Cardinality(Unpaid(s))  b == Cardinality(BotSet(s))
           b2 == Cardinality(BotSet(s)')
<1>0. /\ Covered(s) /\ IsFiniteSet(Unpaid(s)) /\ IsFiniteSet(BotSet(s)) /\ n \in Nat
      /\ used[s] \in Nat
      /\ \A a \in Actors : act[a].seen \in Nat
  BY FS_CardinalityType DEF Covered
<1>1. /\ IsFiniteSet(BotSet(s)') /\ b \in Nat /\ b2 \in Nat /\ b <= b2
      /\ spent.edits \in Nat /\ spent'.edits \in Nat /\ spent.edits <= spent'.edits
  OBVIOUS
<1>3. \A a \in Actors : a \in Unpaid(s) <=> Payer(act[a], s)
  BY DEF Unpaid, Payer
<1>4. /\ Unpaid(s)' \subseteq Actors
      /\ \A a \in Actors : a \in Unpaid(s)' <=> Payer(act'[a], s)
  BY DEF Unpaid, Payer, SortOf
<1> HIDE DEF n, b, b2
<1>5. ASSUME /\ IsFiniteSet(Unpaid(s)')
             /\ used'[s] + Cardinality(Unpaid(s)') <= b2 + spent'.edits
             /\ \A a \in Unpaid(s)' : act'[a].pc = "pay" =>
                  act'[a].seen + Cardinality(Unpaid(s)') <= b2 + spent'.edits
      PROVE  Covered(s)'
  <2>1. Cardinality(BotSet(s))' = b2 /\ Cardinality(Unpaid(s))' = Cardinality(Unpaid(s)')
    BY DEF b2
  <2> QED BY <1>1, <1>5, <2>1 DEF Covered, Covers
<1> QED
  <2>1. Unpaid(s)' \subseteq Unpaid(s)
    BY <1>3, <1>4
  <2>2. /\ IsFiniteSet(Unpaid(s)') /\ Cardinality(Unpaid(s)') \in Nat
        /\ Cardinality(Unpaid(s)') <= n
    BY <1>0, <2>1, FS_Subset, FS_CardinalityType DEF n
  <2>3. used[s] + n <= b + spent.edits
    BY <1>0 DEF Covered, Covers, n, b
  <2>4. ASSUME NEW a \in Unpaid(s)', act'[a].pc = "pay"
        PROVE  act'[a].seen + Cardinality(Unpaid(s)') <= b2 + spent'.edits
    <3>1. a \in Actors /\ a \in Unpaid(s)
      BY <1>4, <2>1
    <3>2. CASE act'[a].seen = used[s]
      BY <1>0, <1>1, <2>2, <2>3, <3>2
    <3>3. CASE act[a].pc = "pay" /\ act'[a].seen = act[a].seen
      <4>1. act[a].seen + n <= b + spent.edits /\ act[a].seen \in Nat
        BY <1>0, <3>1, <3>3 DEF Covered, Covers, n, b
      <4> QED BY <1>0, <1>1, <2>2, <3>3, <4>1
    <3> QED BY <1>4, <2>4, <3>1, <3>2, <3>3
  <2>5. used'[s] + Cardinality(Unpaid(s)') <= b2 + spent'.edits
    BY <1>0, <1>1, <2>2, <2>3
  <2> QED BY <1>5, <2>2, <2>4, <2>5

LEMMA StaysCovered ==
  ASSUME OtherTypes, HandsFit, [Next]_vars, Charges, NEW s \in Sorts
  PROVE  Covered(s)'
<1> DEFINE n == Cardinality(Unpaid(s))  b == Cardinality(BotSet(s))
           b2 == Cardinality(BotSet(s)')
<1>0. /\ Covered(s) /\ IsFiniteSet(Unpaid(s)) /\ IsFiniteSet(BotSet(s)) /\ n \in Nat
      /\ used[s] \in Nat
      /\ \A a \in Actors : act[a].seen \in Nat
  BY FS_CardinalityType DEF Charges, Covered, OtherTypes, HandsFit
<1>1. /\ IsFiniteSet(BotSet(s)') /\ b \in Nat /\ b2 \in Nat /\ b <= b2
      /\ spent.edits \in Nat /\ spent'.edits \in Nat /\ spent.edits <= spent'.edits
  BY <1>0, BotSetGrows, SpentGrows
<1>3. \A a \in Actors : a \in Unpaid(s) <=> Payer(act[a], s)
  BY DEF Unpaid, Payer
<1>4. /\ Unpaid(s)' \subseteq Actors
      /\ \A a \in Actors : a \in Unpaid(s)' <=> Payer(act'[a], s)
  BY DEF Unpaid, Payer, SortOf
<1> HIDE DEF n, b, b2
<1>5. ASSUME /\ IsFiniteSet(Unpaid(s)')
             /\ used'[s] + Cardinality(Unpaid(s)') <= b2 + spent'.edits
             /\ \A a \in Unpaid(s)' : act'[a].pc = "pay" =>
                  act'[a].seen + Cardinality(Unpaid(s)') <= b2 + spent'.edits
      PROVE  Covered(s)'
  <2>1. Cardinality(BotSet(s))' = b2 /\ Cardinality(Unpaid(s))' = Cardinality(Unpaid(s)')
    BY DEF b2
  <2> QED BY <1>1, <1>5, <2>1 DEF Covered, Covers
<1>6. ASSUME \A a \in Actors : Payer(act'[a], s) =>
               /\ Payer(act[a], s)
               /\ act'[a].pc = "pay" => \/ act[a].pc = "pay" /\ act'[a].seen = act[a].seen
                                        \/ act'[a].seen = used[s],
             used'[s] = used[s]
      PROVE  Covered(s)'
  BY <1>0, <1>1, <1>6, NobodyElsePays DEF b, b2
(* One more is to pay, for a save or an edit more.                          *)
<1>7. ASSUME NEW a \in Actors, act'[a].pc = "credit",
             \A c \in Actors : c # a => act'[c] = act[c],
             used'[s] = used[s], b2 + spent'.edits >= b + spent.edits + 1
      PROVE  Covered(s)'
  <2>1. Unpaid(s)' \subseteq Unpaid(s) \cup {a}
    BY <1>3, <1>4, <1>7
  <2>2. /\ IsFiniteSet(Unpaid(s) \cup {a})
        /\ Cardinality(Unpaid(s) \cup {a}) \in Nat /\ Cardinality(Unpaid(s) \cup {a}) <= n + 1
    <3>1. /\ IsFiniteSet(Unpaid(s) \cup {a})
          /\ Cardinality(Unpaid(s) \cup {a}) = IF a \in Unpaid(s) THEN n ELSE n + 1
      BY <1>0, FS_AddElement DEF n
    <3> QED BY <1>0, <3>1
  <2>3. /\ IsFiniteSet(Unpaid(s)') /\ Cardinality(Unpaid(s)') \in Nat
        /\ Cardinality(Unpaid(s)') <= Cardinality(Unpaid(s) \cup {a})
    BY <2>1, <2>2, FS_Subset, FS_CardinalityType
  <2>4. used[s] + n <= b + spent.edits
    BY <1>0 DEF Covered, Covers, n, b
  <2>5. ASSUME NEW c \in Unpaid(s)', act'[c].pc = "pay"
        PROVE  act'[c].seen + Cardinality(Unpaid(s)') <= b2 + spent'.edits
    <3>1. c \in Actors /\ c # a /\ c \in Unpaid(s) /\ act'[c] = act[c]
      BY <1>4, <1>7, <2>1, <2>5
    <3>2. act[c].seen + n <= b + spent.edits /\ act[c].seen \in Nat
      BY <1>0, <2>5, <3>1 DEF Covered, Covers, n, b
    <3> QED BY <1>0, <1>1, <1>7, <2>2, <2>3, <3>1, <3>2
  <2>6. used'[s] + Cardinality(Unpaid(s)') <= b2 + spent'.edits
    BY <1>0, <1>1, <1>7, <2>2, <2>3, <2>4
  <2> QED BY <1>5, <2>3, <2>5, <2>6
<1>8. CASE UNCHANGED <<act, used>>
  BY <1>6, <1>8
<1>9. ASSUME NEW a \in Actors, NEW y, y.pc \notin Paying, act' = [act EXCEPT ![a] = y], UNCHANGED used
      PROVE  Covered(s)'
  <2>1. act'[a] = y /\ \A c \in Actors : c # a => act'[c] = act[c]
    BY <1>9 DEF HandsFit
  <2> QED BY <1>6, <1>9, <2>1 DEF Payer
<1>10. ASSUME NEW a \in Actors, ReadCredit(a) PROVE Covered(s)'
  <2>1. /\ act'[a].pc = "pay" /\ act'[a].kind = act[a].kind
        /\ act'[a].seen = used[SortOf(act[a].kind)]
        /\ \A c \in Actors : c # a => act'[c] = act[c]
        /\ act[a].pc = "credit" /\ used' = used
    BY <1>0, <1>10 DEF ReadCredit, HandsFit, Fields
  <2> QED BY <1>6, <2>1 DEF Paying, Payer
<1>11. ASSUME NEW a \in Actors, Pay(a) PROVE Covered(s)'
  <2>1. /\ act'[a].pc \notin Paying /\ act[a].pc = "pay"
        /\ \A c \in Actors : c # a => act'[c] = act[c]
        /\ used' = [used EXCEPT ![SortOf(act[a].kind)] = act[a].seen + 1]
    <3>1. Go(a, "count") \/ Go(a, "version")
      BY <1>11 DEF Pay
    <3>2. act'[a].pc \notin Paying /\ \A c \in Actors : c # a => act'[c] = act[c]
      BY <1>0, <3>1 DEF Go, HandsFit, Fields, Paying
    <3> QED BY <1>11, <3>2 DEF Pay
  <2>2. CASE SortOf(act[a].kind) # s
    <3>1. used'[s] = used[s]
      BY <2>1, <2>2 DEF OtherTypes
    <3> QED BY <1>6, <2>1, <2>2, <3>1 DEF Payer
  <2>3. CASE SortOf(act[a].kind) = s
    <3>1. used'[s] = act[a].seen + 1 /\ a \in Unpaid(s)
      BY <1>3, <2>1, <2>3 DEF OtherTypes, Paying, Payer
    <3>2. Unpaid(s)' = Unpaid(s) \ {a}
      <4>1. Unpaid(s) \subseteq Actors
        BY DEF Unpaid
      <4> QED BY <1>3, <1>4, <2>1, <4>1 DEF Payer
    <3>3. IsFiniteSet(Unpaid(s)') /\ Cardinality(Unpaid(s)') = n - 1
      BY <1>0, <3>1, <3>2, FS_RemoveElement DEF n
    <3>4. act[a].seen + n <= b + spent.edits /\ act[a].seen \in Nat
      BY <1>0, <2>1, <3>1 DEF Covered, Covers, n, b
    <3>5. ASSUME NEW c \in Unpaid(s)', act'[c].pc = "pay"
          PROVE  act'[c].seen + Cardinality(Unpaid(s)') <= b2 + spent'.edits
      <4>1. c \in Actors /\ c # a /\ c \in Unpaid(s) /\ act'[c] = act[c]
        BY <1>4, <2>1, <3>2
      <4>2. act[c].seen + n <= b + spent.edits /\ act[c].seen \in Nat
        BY <1>0, <3>5, <4>1 DEF Covered, Covers, n, b
      <4> QED BY <1>0, <1>1, <3>3, <4>1, <4>2
    <3>6. used'[s] + Cardinality(Unpaid(s)') <= b2 + spent'.edits
      BY <1>0, <1>1, <3>1, <3>3, <3>4
    <3> QED BY <1>5, <3>3, <3>5, <3>6
  <2> QED BY <2>2, <2>3
<1>12. ASSUME NEW w \in Workers, InsertRevision(w) PROVE Covered(s)'
  <2>1. w \in Actors
    BY DEF Actors
  <2>2. /\ act'[w].pc = "credit" /\ act'[w].kind = act[w].kind /\ used' = used
        /\ \A c \in Actors : c # w => act'[c] = act[c]
    BY <1>0, <1>12, <2>1 DEF InsertRevision, Go, HandsFit, Fields
  <2>3. CASE SortOf(act[w].kind) = s
    <3>1. b2 = b + 1
      BY <1>0, <1>12, <2>3, BotSetGrows DEF b, b2
    <3>2. b2 + spent'.edits >= b + spent.edits + 1
      BY <1>1, <3>1
    <3> QED BY <1>7, <2>1, <2>2, <3>2
  <2>4. CASE SortOf(act[w].kind) # s
    BY <1>6, <2>2, <2>4 DEF Payer
  <2> QED BY <2>3, <2>4
<1>13. ASSUME NEW e \in Editors, NEW p \in Pages, NEW k \in Kinds, EditorAsks(e, p, k)
       PROVE  Covered(s)'
  <2>1. e \in Actors
    BY DEF Actors
  <2>2. /\ act'[e].pc = "credit" /\ used' = used
        /\ \A c \in Actors : c # e => act'[c] = act[c]
    BY <1>13, <2>1 DEF EditorAsks, Idle, HandsFit
  <2>3. spent'.edits = spent.edits + 1
    BY <1>13, SpentGrows
  <2>4. b2 + spent'.edits >= b + spent.edits + 1
    BY <1>1, <2>3
  <2> QED BY <1>7, <2>1, <2>2, <2>4
<1> QED BY <1>8, <1>9, <1>10, <1>11, <1>12, <1>13, PaySteps

(* The organization is never charged for more than the revisions the bot    *)
(* saved, apart from the editor, which pays first.                          *)
THEOREM OnlySavedWorkIsCharged == Spec => []ChargesAreForSavedWork
<1>1. Init => Types /\ Charges
  BY InitTypes, InitCharges
<1>2. Types /\ Charges /\ [Next]_vars => Types' /\ Charges'
  BY NextTypes, StaysCovered, SpentGrows, TypesFit DEF Charges
<1>3. Types /\ Charges => ChargesAreForSavedWork
  <2> SUFFICES ASSUME Types, Charges, NEW s \in Sorts
               PROVE  used[s] <= BotRevisions(s) + spent.edits
    BY DEF ChargesAreForSavedWork
  <2>1. BotRevisions(s) = Cardinality(BotSet(s))
    BY DEF BotRevisions, BotSet
  <2>2. /\ Cardinality(Unpaid(s)) \in Nat /\ Cardinality(BotSet(s)) \in Nat
        /\ used[s] \in Nat /\ spent.edits \in Nat
        /\ used[s] + Cardinality(Unpaid(s)) <= Cardinality(BotSet(s)) + spent.edits
    BY FS_CardinalityType DEF Charges, Covered, Covers, Types, OtherTypes
  <2> QED BY <2>1, <2>2
<1> QED BY <1>1, <1>2, <1>3, PTL DEF Spec
=============================================================================
