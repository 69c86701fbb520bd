--------------------------- MODULE MCPreviewLoops ---------------------------
(***************************************************************************)
(* All small lists as inputs of the loops.                                 *)
(***************************************************************************)
EXTENDS PreviewLoops, SequencesExt

CONSTANTS MaxLeft, MaxRight    \* bounds on the length of the two lists

MCTagOf == <<"family", "family", "friend">>
MCCreatedDate == <<1, 3, 2>>
MCDeadlineDate == <<1, 2, 2>>
MCTitle == <<2, 1, 3>>
MCTags == {"family", "friend"}
MCLeftInputs == BoundedSeq(Preview, MaxLeft)
MCRightInputs == BoundedSeq(Preview, MaxRight)
=============================================================================
