---------------------------- MODULE MCHomeList ----------------------------
(***************************************************************************)
(* Values for the constants of HomeList.  Capsule 2 has another tag than   *)
(* the others; capsules 1 and 2 have the same title rank, so that a sort   *)
(* may leave them in either order.                                         *)
(***************************************************************************)
EXTENDS HomeListBoard, TLC

MCTags == {"family", "friend"}
MCTagOf == [i \in Ids |-> IF i = 2 THEN "friend" ELSE "family"]
MCCreatedDate == [i \in Ids |-> NumCapsules - i]
MCDeadlineDate == [i \in Ids |-> i]
MCTitle == [i \in Ids |-> IF i <= 2 THEN 1 ELSE 2]
MCCreatedOrTitle == {CreatedDate, Title}
SlotSymmetry == Permutations(Slots)
=============================================================================
