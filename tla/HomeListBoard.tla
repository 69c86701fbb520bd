---------------------------- MODULE HomeListBoard ----------------------------
(* The home screen implements the board: the refinement mapping. *)
EXTENDS HomeList

Board == INSTANCE CapsuleBoard WITH
    listed <- filtered, shown <- rows, stale <- reloadPending,
    running <- screen # "trapped"

\* Whatever the order in which pages, fetches, deletions and logouts complete,
\* the home screen behaves like the board: each step of HomeViewController, the
\* preview service and the deletion alert is a step of the board or leaves it
\* alone, and reloadData keeps the board's promise to redraw.
ImplementsBoard == Board!Spec
=============================================================================
