------------------------- MODULE MCCapsuleCreation -------------------------
(* CapsuleCreation with one tag: the code treats all tags alike. *)
EXTENDS CapsuleCreation

OneTag == {"family"}
=============================================================================
