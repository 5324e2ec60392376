--------------------------- MODULE MCAutoTrainRun ---------------------------
(* AutoTrainRun for TLC. *)
EXTENDS AutoTrainRun

=============================================================================
