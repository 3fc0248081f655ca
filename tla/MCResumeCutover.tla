--------------------------- MODULE MCResumeCutover ---------------------------
(* Instances of ResumeCutover for TLC. *)
EXTENDS ResumeCutover
=============================================================================
