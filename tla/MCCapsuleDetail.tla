-------------------------- MODULE MCCapsuleDetail --------------------------
(* A capsule without images, or with three of which one has a bad URL. *)
EXTENDS CapsuleDetail

CONSTANTS a, b, bad

MCUrls == {a, b, bad}
MCLists == {<<>>, <<a, bad, b>>}
=============================================================================
