-------------------------- MODULE MCScoringSchedule --------------------------
(* ScoringSchedule for TLC: model values for its workers and versions.     *)
EXTENDS ScoringSchedule

CONSTANTS v1, w1, w2

=============================================================================
