----------------------------- MODULE VersionTracks -----------------------------
(***************************************************************************)
(* What add_revision (kalanjiyam/utils/revisions.py) promises of a page's  *)
(* version tracks: an accepted save takes the next number of its track at  *)
(* once, alone, and later shows it as a revision or loses it.  Numbers are *)
(* never skipped, shared or taken back; revisions need not appear in the   *)
(* order of their numbers.  PageRevisions implements it.                   *)
(***************************************************************************)
EXTENDS Integers

CONSTANT Tracks

VARIABLES
    counter,    \* the last number taken of a track
    held,       \* numbers that were taken and are not shown yet
    shown       \* numbers that have a revision

vars == <<counter, held, shown>>

Init ==
    /\ counter = [t \in Tracks |-> 0]
    /\ held = [t \in Tracks |-> {}]
    /\ shown = [t \in Tracks |-> {}]

Take(t) ==
    /\ counter' = [counter EXCEPT ![t] = @ + 1]
    /\ held' = [held EXCEPT ![t] = @ \cup {counter[t] + 1}]
    /\ UNCHANGED shown

Show(t, n) ==
    /\ n \in held[t]
    /\ held' = [held EXCEPT ![t] = @ \ {n}]
    /\ shown' = [shown EXCEPT ![t] = @ \cup {n}]
    /\ UNCHANGED counter

(* The process that holds the number dies.                                  *)
Lose(t, n) ==
    /\ n \in held[t]
    /\ held' = [held EXCEPT ![t] = @ \ {n}]
    /\ UNCHANGED <<counter, shown>>

Next == \E t \in Tracks :
    Take(t) \/ \E n \in held[t] : Show(t, n) \/ Lose(t, n)

Spec == Init /\ [][Next]_vars
=============================================================================
