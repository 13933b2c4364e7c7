----------------------------- MODULE PageRevisions -----------------------------
(***************************************************************************)
(* Saving a page: add_revision of kalanjiyam/utils/revisions.py, the page  *)
(* editor that calls it (edit and edit_post of views/proofing/page.py) and *)
(* the machine writers (OCR tasks, search-and-replace).                    *)
(*                                                                         *)
(* A page has version tracks (PageVersion rows).  A save bumps the track's *)
(* counter in one commit and inserts the Revision row in a second one; the *)
(* editor gets the counter and the text it edits in two separate reads.    *)
(* Requests run concurrently in several web and Celery processes.          *)
(***************************************************************************)
EXTENDS Integers, Sequences

CONSTANTS
    Editors,        \* browser tabs with the page open
    Users,          \* registered users
    Guest,          \* the user of a tab that is not logged in
    UserOf,         \* the user of a tab
    Tasks,          \* OCR task runs, which save to role:p1
    Replacers,      \* search-and-replace requests, which save to role:p1
    MaxEdits,       \* bound: accepted saves per writer
    MaxCrashes      \* bound: processes that die

ASSUME ConstantsAssumption ==
    /\ Guest \notin Users
    /\ UserOf \in [Editors -> Users \cup {Guest}]
    /\ Editors \cap (Tasks \cup Replacers) = {} /\ Tasks \cap Replacers = {}
    /\ MaxEdits \in Nat /\ MaxCrashes \in Nat

VARIABLES
    version,    \* PageVersion.version of a track; 0 is no row
    revs,       \* Revision rows of a track in the order of Revision.created
    status,     \* the save that set Page.status_id last
    pc,         \* a writer's step
    track,      \* the track it saves to
    token,      \* the version it last read: form.version or expected_version
    base,       \* the newest version of main whose text is in what it saves
    from,       \* how an editor's text got on its screen
    edits,      \* accepted saves per writer
    behind,     \* the drafts with an older PageVersion.updated_at than main
    moved,      \* history: <<w, t>> when t was saved to after w read its version
    lost,       \* history: <<t, n>> when the writer of version n died
    crashes     \* processes that died

vars == <<version, revs, status, pc, track, token, base, from, edits,
          behind, moved, lost, crashes>>

Writers == Editors \cup Tasks \cup Replacers
Main == <<"main">>
Machine == <<"role:p1">>
Draft(e) == <<"user", UserOf[e]>>
Tracks == {Main, Machine} \cup {Draft(e) : e \in Editors}

(* A Revision row: the version its save was given, and the version of main  *)
(* that its text takes in.                                                  *)
Revision == [ver : Nat, base : Nat]
NoSave == [track |-> Main, ver |-> 0]

Steps == {"closed", "load", "open", "save", "insert", "mirror", "msave", "minsert",
          "conflict", "reply"}

Existing == {Draft(e) : e \in {f \in Editors : version[Draft(f)] > 0}}
Newer(m, n) == IF m > n THEN m ELSE n

(* revisions[-1], by Revision.created: the newest text a reader of t sees.  *)
Latest(t) == IF revs[t] = <<>> THEN 0 ELSE revs[t][Len(revs[t])].base

Init ==
    /\ version = [t \in Tracks |-> 0]
    /\ revs = [t \in Tracks |-> <<>>]
    /\ status = NoSave
    /\ pc = [w \in Writers |-> "closed"]
    /\ track = [w \in Writers |-> Main]
    /\ token = [w \in Writers |-> 0]
    /\ base = [w \in Writers |-> 0]
    /\ from = [w \in Writers |-> "load"]
    /\ edits = [w \in Writers |-> 0]
    /\ behind = {}
    /\ moved = {}
    /\ lost = {}
    /\ crashes = 0

(* What is seen when track t is shown: a draft that is older than main comes*)
(* with main's latest revision, as a conflict.                              *)
Shown(t) == IF t \in behind THEN Newer(Latest(t), Latest(Main)) ELSE Latest(t)

Goto(w, l) == pc' = [pc EXCEPT ![w] = l]

(* w reads the version counter of track t.                                  *)
ReadVersion(w, t) ==
    /\ token' = [token EXCEPT ![w] = version[t]]
    /\ track' = [track EXCEPT ![w] = t]
    /\ moved' = moved \ {<<w, t>>}

-----------------------------------------------------------------------------
(* edit: the page is opened *)

(* resolve_version_keys and the target record: the counter of main is read. *)
Open(e) ==
    /\ pc[e] \in {"closed", "open"} /\ edits[e] < MaxEdits
    /\ ReadVersion(e, Main)
    /\ Goto(e, "load")
    /\ UNCHANGED <<version, revs, status, base, from, edits, behind, lost,
                   crashes>>

(* Then the latest revision of the active track: main, or the user's own    *)
(* draft (by ?version= or because it is newer).                             *)
Load(e) ==
    /\ pc[e] = "load"
    /\ \E t \in {Main, Draft(e)} :
          /\ t = Main \/ (UserOf[e] # Guest /\ version[t] > 0)
          /\ base' = [base EXCEPT ![e] = Shown(t)]
          /\ from' = [from EXCEPT ![e] = IF t = Main THEN "load" ELSE "draft"]
    /\ Goto(e, "open")
    /\ UNCHANGED <<version, revs, status, track, token, edits, behind, moved,
                   lost, crashes>>

-----------------------------------------------------------------------------
(* edit_post: the page is submitted *)

(* Merged with main, the version is the one in the form; otherwise the      *)
(* user's track is saved to, at the version it has now.                     *)
Submit(e) ==
    /\ pc[e] = "open" /\ edits[e] < MaxEdits
    /\ \/ UNCHANGED <<track, token, moved>>
       \/ UserOf[e] # Guest /\ ReadVersion(e, Draft(e))
    /\ Goto(e, "save")
    /\ UNCHANGED <<version, revs, status, base, from, edits, behind, lost,
                   crashes>>

(* Mutant: the counter is bumped without comparing it.                      *)
Save_Unchecked(w) ==
    /\ pc[w] \in {"save", "msave"}
    /\ version' = [version EXCEPT ![track[w]] = token[w] + 1]
    /\ status' = [track |-> track[w], ver |-> token[w] + 1]
    /\ edits' = [edits EXCEPT ![w] = IF pc[w] = "save" THEN @ + 1 ELSE @]
    /\ behind' = IF track[w] = Main THEN Existing ELSE behind \ {track[w]}
    /\ moved' = moved \cup {<<v, track[w]>> : v \in Writers \ {w}}
    /\ Goto(w, IF pc[w] = "save" THEN "insert" ELSE "minsert")
    /\ UNCHANGED <<revs, track, token, base, from, lost, crashes>>

(* add_revision, first commit: the row is created, or bumped by the UPDATE  *)
(* that compares its version, and the page's status is set.                 *)
Save(w) ==
    /\ pc[w] \in {"save", "msave"} /\ version[track[w]] = token[w]
    /\ version' = [version EXCEPT ![track[w]] = token[w] + 1]
    /\ status' = [track |-> track[w], ver |-> token[w] + 1]
    /\ edits' = [edits EXCEPT ![w] = IF pc[w] = "save" THEN @ + 1 ELSE @]
    /\ behind' = IF track[w] = Main THEN Existing ELSE behind \ {track[w]}
    /\ moved' = moved \cup {<<v, track[w]>> : v \in Writers \ {w}}
    /\ Goto(w, IF pc[w] = "save" THEN "insert" ELSE "minsert")
    /\ UNCHANGED <<revs, track, token, base, from, lost, crashes>>

(* Mutant: a refused task goes on as a submitted page does.                 *)
Refused_Answers(w) ==
    /\ pc[w] \in {"save", "msave"} /\ version[track[w]] # token[w]
    /\ Goto(w, IF pc[w] = "save" THEN "conflict" ELSE "reply")
    /\ UNCHANGED <<version, revs, status, track, token, base, from, edits,
                   behind, moved, lost, crashes>>

(* EditError: the editor shows the conflict, a failed dual save is only a   *)
(* warning, a task or a replacement ends.                                   *)
Refused(w) ==
    /\ pc[w] \in {"save", "msave"} /\ version[track[w]] # token[w]
    /\ Goto(w, IF w \notin Editors THEN "closed"
               ELSE IF pc[w] = "save" THEN "conflict" ELSE "reply")
    /\ UNCHANGED <<version, revs, status, track, token, base, from, edits,
                   behind, moved, lost, crashes>>

(* What an inserted revision of w takes in.                                 *)
TakesIn(w) == IF track[w] = Main THEN token[w] + 1 ELSE base[w]

(* A registered user's merged save goes on to the user's own track.         *)
AfterInsert(w) ==
    IF w \notin Editors THEN "closed"
    ELSE IF pc[w] = "insert" /\ track[w] = Main /\ UserOf[w] # Guest THEN "mirror"
    ELSE "reply"

(* add_revision, second commit: the revision row.                           *)
Insert(w) ==
    /\ pc[w] \in {"insert", "minsert"}
    /\ revs' = [revs EXCEPT ![track[w]] =
                   Append(@, [ver |-> token[w] + 1, base |-> TakesIn(w)])]
    /\ base' = [base EXCEPT ![w] = TakesIn(w)]
    /\ from' = [from EXCEPT ![w] =
                   IF track[w] = Main \/ pc[w] = "minsert" THEN "reply" ELSE "draft"]
    /\ Goto(w, AfterInsert(w))
    /\ UNCHANGED <<version, status, track, token, edits, behind, moved, lost,
                   crashes>>

(* Mutant: the version the page was submitted with is used again.           *)
MirrorRead_Reuses(e) ==
    /\ pc[e] = "mirror"
    /\ track' = [track EXCEPT ![e] = Draft(e)]
    /\ Goto(e, "msave")
    /\ UNCHANGED <<version, revs, status, token, base, from, edits, behind,
                   moved, lost, crashes>>

(* Mutant: the personal snapshot is saved before the revision of main.      *)
MirrorRead_First(e) ==
    LET d == Draft(e) IN
    /\ pc[e] = "insert" /\ track[e] = Main /\ UserOf[e] # Guest
    /\ version' = [version EXCEPT ![d] = @ + 1]
    /\ revs' = [revs EXCEPT ![d] = Append(@, [ver |-> version[d] + 1, base |-> TakesIn(e)])]
    /\ Goto(e, "reply")
    /\ UNCHANGED <<status, track, token, base, from, edits, behind, moved, lost, crashes>>

(* Dual save: the counter of the user's track is read afresh.               *)
MirrorRead(e) ==
    /\ pc[e] = "mirror"
    /\ ReadVersion(e, Draft(e))
    /\ Goto(e, "msave")
    /\ UNCHANGED <<version, revs, status, base, from, edits, behind, lost,
                   crashes>>

(* The conflicting revision is shown to be incorporated.                    *)
ShowConflict(e) ==
    /\ pc[e] = "conflict"
    /\ base' = [base EXCEPT ![e] = Newer(@, Latest(track[e]))]
    /\ from' = [from EXCEPT ![e] = IF track[e] = Main THEN "reply" ELSE "draft"]
    /\ Goto(e, "reply")
    /\ UNCHANGED <<version, revs, status, track, token, edits, behind, moved,
                   lost, crashes>>

(* Mutant: the form keeps the version it was submitted with.                *)
Reply_KeepsVersion(e) ==
    /\ pc[e] = "reply"
    /\ track' = [track EXCEPT ![e] = Main]
    /\ Goto(e, "open")
    /\ UNCHANGED <<version, revs, status, token, base, from, edits, behind,
                   moved, lost, crashes>>

(* Every answer carries the version main has by then; after a private save  *)
(* it also shows a conflict with newer edits of main.                       *)
Reply(e) ==
    /\ pc[e] = "reply"
    /\ ReadVersion(e, Main)
    /\ base' = [base EXCEPT ![e] = IF from[e] = "draft" THEN Newer(@, Shown(Draft(e))) ELSE @]
    /\ Goto(e, "open")
    /\ UNCHANGED <<version, revs, status, from, edits, behind, lost,
                   crashes>>

-----------------------------------------------------------------------------
(* Machine writers *)

(* A task reads the counter of its track and saves.                         *)
TaskStart(k) ==
    /\ pc[k] = "closed" /\ edits[k] < MaxEdits
    /\ ReadVersion(k, Machine)
    /\ Goto(k, "save")
    /\ UNCHANGED <<version, revs, status, base, from, edits, behind, lost,
                   crashes>>

(* confirm_changes saves with Page.version, which nothing ever increments.  *)
ReplaceStart(k) ==
    /\ pc[k] = "closed" /\ edits[k] < MaxEdits
    /\ token' = [token EXCEPT ![k] = 0]
    /\ track' = [track EXCEPT ![k] = Machine]
    /\ moved' = moved \ {<<k, Machine>>}
    /\ Goto(k, "save")
    /\ UNCHANGED <<version, revs, status, base, from, edits, behind, lost,
                   crashes>>

(* The process dies; between the two commits its revision is lost.          *)
Crash(w) ==
    /\ pc[w] \notin {"closed", "load", "open"} /\ crashes < MaxCrashes
    /\ crashes' = crashes + 1
    /\ lost' = IF pc[w] \in {"insert", "minsert"}
               THEN lost \cup {<<track[w], token[w] + 1>>} ELSE lost
    /\ Goto(w, "closed")
    /\ UNCHANGED <<version, revs, status, track, token, base, from, edits, behind,
                   moved>>

-----------------------------------------------------------------------------
AddRevision(w) == Save(w) \/ Refused(w) \/ Insert(w)
Answer(e) == MirrorRead(e) \/ ShowConflict(e) \/ Reply(e)

Next ==
    \/ \E e \in Editors : Open(e) \/ Load(e) \/ Submit(e) \/ Answer(e)
    \/ \E k \in Tasks : TaskStart(k)
    \/ \E k \in Replacers : ReplaceStart(k)
    \/ \E w \in Writers : AddRevision(w) \/ Crash(w)

Spec == Init /\ [][Next]_vars

(* A request that was accepted by the server is worked off, and a user whose*)
(* page is open submits it sooner or later.                                 *)
FairSpec ==
    /\ Spec
    /\ \A w \in Writers : WF_vars(AddRevision(w))
    /\ \A e \in Editors : WF_vars(Answer(e) \/ Load(e)) /\ SF_vars(Submit(e))

-----------------------------------------------------------------------------
(* Properties *)

(* The rows, form fields and locals keep their types, and a writer's track  *)
(* is the one its step saves to.                                            *)
TypeOK ==
    /\ version \in [Tracks -> Nat]
    /\ revs \in [Tracks -> Seq(Revision)]
    /\ status \in [track : Tracks, ver : Nat]
    /\ pc \in [Writers -> Steps]
    /\ track \in [Writers -> Tracks]
    /\ token \in [Writers -> Nat]
    /\ base \in [Writers -> Nat]
    /\ from \in [Writers -> {"load", "draft", "reply"}]
    /\ edits \in [Writers -> Nat]
    /\ behind \subseteq Tracks
    /\ moved \subseteq Writers \X Tracks
    /\ lost \subseteq Tracks \X Nat
    /\ crashes \in Nat
    /\ \A w \in Writers :
          /\ pc[w] \in {"load", "open"} => w \in Editors /\ track[w] = Main
          /\ pc[w] \in {"mirror", "msave", "minsert", "conflict", "reply"} => w \in Editors

Inserting(w, t, n) == pc[w] \in {"insert", "minsert"} /\ track[w] = t /\ token[w] + 1 = n
Inserted(t, n) == \E k \in 1 .. Len(revs[t]) : revs[t][k].ver = n

(* Two accepted saves of a track never get the same version, whoever made   *)
(* them and however their two commits interleave.                           *)
VersionsAreUnique ==
    \A t \in Tracks : \A j, k \in 1 .. Len(revs[t]) :
        revs[t][j].ver = revs[t][k].ver => j = k

(* Every version a track counts has its revision, unless its writer is      *)
(* between its two commits or died there.                                   *)
VersionHasRevision ==
    \A t \in Tracks : \A n \in 1 .. version[t] :
        Inserted(t, n) \/ <<t, n>> \in lost \/ \E w \in Writers : Inserting(w, t, n)

(* A save is refused only when someone else saved to the track after the    *)
(* writer read its version: no spurious EditError, the dual save included.  *)
ConflictsAreReal ==
    [][\A w \in Editors \cup Tasks : Refused(w) => <<w, track[w]>> \in moved]_vars

(* A save that is accepted was not overtaken since its version was read.    *)
StaleSaveIsRefused ==
    [][\A w \in Editors \cup Tasks : Save(w) => <<w, track[w]>> \notin moved]_vars

(* What a personal track takes in of main is a revision of main that exists:*)
(* a crash never leaves a snapshot of text that was not published.          *)
DraftsRestOnPublishedText ==
    \A e \in Editors : \A k \in 1 .. Len(revs[Draft(e)]) :
        LET n == revs[Draft(e)][k].base IN n = 0 \/ Inserted(Main, n)

(* The page's status is the one of a save nobody has saved over: counter    *)
(* and status change together.                                              *)
StatusOfNewestSave == status.ver = version[status.track]

(* A user whose edit was refused gets it in by submitting it again, unless  *)
(* the request dies with its process.                                       *)
RefusedEditGetsThrough ==
    \A e \in Editors : \A n \in 0 .. MaxEdits - 1 :
        (pc[e] = "conflict" /\ edits[e] = n) ~> (edits[e] > n \/ pc[e] = "closed")

-----------------------------------------------------------------------------
(* What a save promises *)

Held(t) == {token[w] + 1 : w \in {v \in Writers :
               pc[v] \in {"insert", "minsert"} /\ track[v] = t}}
Shows(t) == {revs[t][k].ver : k \in 1 .. Len(revs[t])}

VT == INSTANCE VersionTracks WITH
          counter <- version,
          held <- [t \in Tracks |-> Held(t)],
          shown <- [t \in Tracks |-> Shows(t)]

(* The two commits of every save, with all that comes between them, are a   *)
(* number taken alone and shown or lost once: the version tracks as         *)
(* add_revision's callers may think of them.                                *)
SavesAreTickets == VT!Spec

-----------------------------------------------------------------------------
(* What the docs say, and the code does not keep *)

Accepted(e) == pc[e] = "save" /\ pc'[e] = "insert" /\ track[e] = Main

(* "Concurrent conflicts trigger the Git-style Conflict Resolver": a merged *)
(* save that is accepted never replaces a newer text of main that the saved *)
(* one does not take in.  The text may have been opened, answered by an     *)
(* earlier submit, or loaded from the user's draft.                         *)
NoUnseenOverwrite ==
    [][\A e \in Editors : Accepted(e) =>
          base[e] = version[Main] \/ <<Main, version[Main]>> \in lost]_vars
=============================================================================
