---------------------------- MODULE MCMlJobQueue ----------------------------
(* MlJobQueue for TLC.  No symmetry: the runs check liveness. *)
EXTENDS MlJobQueue

=============================================================================
