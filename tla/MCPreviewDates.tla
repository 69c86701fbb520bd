--------------------------- MODULE MCPreviewDates ---------------------------
(* A device three hours west of Seoul, with days of four hours. *)
EXTENDS PreviewDates

MCOffset == -3
=============================================================================
