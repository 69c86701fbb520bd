---------------------------- MODULE CapsuleBoard ----------------------------
(***************************************************************************)
(* What the home screen promises, without requests, pages, buttons and     *)
(* replies: a list of capsules that names none twice and calls none opened *)
(* before it is, a table that is redrawn after every change of the list,   *)
(* and a detail screen for capsules the list calls opened.  HomeList is    *)
(* shown to implement this specification.                                  *)
(***************************************************************************)
EXTENDS Integers, Sequences

VARIABLES
    opened,        \* the capsules that have opened
    listed,        \* the list
    shown,         \* the table
    stale,         \* the table is to be redrawn
    detail,        \* the capsule on the detail screen, 0 for none
    running        \* the process has not been stopped by a trap

boardVars == <<opened, listed, shown, stale, detail, running>>

\* A list names no capsule twice and calls opened only what has opened.
Truthful(s, open) ==
    /\ \A m, n \in DOMAIN s : s[m].id = s[n].id => m = n
    /\ \A n \in DOMAIN s : s[n].isOpened => s[n].id \in open

Init ==
    /\ opened = {} /\ listed = <<>> /\ shown = <<>>
    /\ stale = FALSE /\ detail = 0 /\ running = TRUE

\* A deadline passes.
CapsuleOpens ==
    /\ opened \subseteq opened'
    /\ UNCHANGED <<listed, shown, stale, detail, running>>

\* The list changes to any truthful one, and the table has to follow.
Relist ==
    /\ running
    /\ Truthful(listed', opened) /\ stale' = TRUE
    /\ UNCHANGED <<opened, shown, detail, running>>

Redraw ==
    /\ running /\ stale
    /\ shown' = listed /\ stale' = FALSE
    /\ UNCHANGED <<opened, listed, detail, running>>

\* One row is drawn again on its own.
RedrawRow(n) ==
    /\ running /\ n \in DOMAIN listed
    /\ shown' = [shown EXCEPT ![n] = listed[n]]
    /\ UNCHANGED <<opened, listed, stale, detail, running>>

ShowDetail(n) ==
    /\ running /\ detail = 0
    /\ n \in DOMAIN listed /\ listed[n].isOpened
    /\ detail' = listed[n].id
    /\ UNCHANGED <<opened, listed, shown, stale, running>>

CloseDetail ==
    /\ detail' = 0
    /\ UNCHANGED <<opened, listed, shown, stale, running>>

\* A row that has gone from the list is touched before the table has followed.
Stop ==
    /\ running /\ stale
    /\ Len(shown) > Len(listed)
    /\ running' = FALSE
    /\ UNCHANGED <<opened, listed, shown, stale, detail>>

Restart ==
    /\ listed' = <<>> /\ shown' = <<>> /\ stale' = FALSE
    /\ detail' = 0 /\ running' = TRUE
    /\ UNCHANGED opened

Next ==
    \/ CapsuleOpens \/ Relist \/ Redraw \/ CloseDetail \/ Stop \/ Restart
    \/ \E n \in DOMAIN shown : RedrawRow(n) \/ ShowDetail(n)

Safety == Init /\ [][Next]_boardVars

\* Redrawing is what the board is sure to do.
Spec == Safety /\ WF_boardVars(Redraw)
=============================================================================
