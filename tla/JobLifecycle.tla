---------------------------- MODULE JobLifecycle ----------------------------
(***************************************************************************)
(* What the job queue promises to those who submit jobs, without workers,  *)
(* leases, attempt rows or races: each job is in one of the statuses of    *)
(* domain/ml_jobs.py and moves only as below.  Several jobs may move in    *)
(* one step, because one recovery pass settles every abandoned job.        *)
(***************************************************************************)
EXTENDS Naturals

CONSTANTS Jobs, MaxTries

VARIABLES status, tries

lifeVars == <<status, tries>>

LifeStatuses == {"absent", "queued", "running", "completed", "failed", "cancelled"}

Init ==
    /\ status = [j \in Jobs |-> "absent"]
    /\ tries = [j \in Jobs |-> 0]

Moves(j, from, to) == status[j] \in from /\ status'[j] \in to

(* Starting is the only move that counts, and it is counted at most         *)
(* MaxTries times.                                                          *)
Start(j) ==
    /\ Moves(j, {"queued"}, {"running"})
    /\ tries[j] < MaxTries /\ tries'[j] = tries[j] + 1

Uncounted(j) ==
    /\ tries'[j] = tries[j]
    /\ \/ status'[j] = status[j]
       \/ Moves(j, {"absent"}, {"queued"})
       \/ Moves(j, {"queued"}, {"cancelled"})
       \/ Moves(j, {"queued"}, {"failed"}) /\ tries[j] = MaxTries
       \/ Moves(j, {"running"}, {"queued", "completed", "failed", "cancelled"})
       \/ Moves(j, {"completed", "failed"}, {"queued"})

Next ==
    /\ status' \in [Jobs -> LifeStatuses]
    /\ tries' \in [Jobs -> 0 .. MaxTries]
    /\ \A j \in Jobs : Start(j) \/ Uncounted(j)

Spec == Init /\ [][Next]_lifeVars
=============================================================================
