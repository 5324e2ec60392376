---------------------------- MODULE MCImproveLoop ----------------------------
(* ImproveLoop for TLC: loops, workers and job ids are interchangeable.    *)
EXTENDS ImproveLoop, TLC

Alike == Permutations(Loop) \cup Permutations(Worker) \cup Permutations(Job)

=============================================================================
