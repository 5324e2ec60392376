------------------------------ MODULE MlJobRow ------------------------------
(***************************************************************************)
(* One row of the `ml_jobs` table, the `ml_job_attempts` rows of that job, *)
(* and what each function of app/services/ml_job_service.py does to them.  *)
(* There are no variables here: the modules that run the queue             *)
(* (MlJobQueue) and one training run (AutoTrainRun) share this algebra.    *)
(*                                                                         *)
(* A row keeps the columns the control flow reads or that say where the    *)
(* job stands:                                                             *)
(*   status    ml_jobs.status; "absent" before the row is inserted         *)
(*   attempts  ml_jobs.attempts, the number of claims so far               *)
(*   cancel    cancel_requested_at is set                                  *)
(*   done      completed_at is set                                         *)
(*   due       available_at <= now                                         *)
(*   lease     what recover_abandoned_jobs sees in lease_expires_at, or in *)
(*             heartbeat_at / started_at when the lease is null: "none",   *)
(*             "fresh", or "expired"                                       *)
(* Timestamps, priority, payload and the reason text are left out.         *)
(***************************************************************************)
EXTENDS Naturals

CONSTANT MaxAttempts    \* ml_jobs.max_attempts (DEFAULT_MAX_ATTEMPTS = 3)

(* _max_attempts() never returns less than one. *)
ASSUME MaxAttemptsAssumption == MaxAttempts \in Nat \ {0}

Statuses == {"absent", "queued", "running", "completed", "failed", "cancelled"}
Settled == {"completed", "failed", "cancelled"}
Leases == {"none", "fresh", "expired"}

Row == [status : Statuses, attempts : 0 .. MaxAttempts, cancel : BOOLEAN,
        done : BOOLEAN, due : BOOLEAN, lease : Leases]

AbsentRow == [status |-> "absent", attempts |-> 0, cancel |-> FALSE,
              done |-> FALSE, due |-> FALSE, lease |-> "none"]

-----------------------------------------------------------------------------
(* What each function assigns to the row it holds. *)

(* create_ml_job; `due` is FALSE when available_at lies in the future. *)
InsertedRow(due) == [AbsentRow EXCEPT !.status = "queued", !.due = due]

(* Wrong: the claim counted twice, once in the UPDATE and once in Python. *)
ClaimedRowTwice(r) ==
    [r EXCEPT !.status = "running", !.attempts = @ + 2, !.lease = "fresh"]

(* claim_next_queued_job, a row with attempts left. *)
ClaimedRow(r) ==
    [r EXCEPT !.status = "running", !.attempts = @ + 1, !.lease = "fresh"]

(* claim_next_queued_job, "max attempts exhausted before claim". *)
ExhaustedRow(r) == [r EXCEPT !.status = "failed", !.done = TRUE, !.lease = "none"]

CompletedRow(r) == [r EXCEPT !.status = "completed", !.done = TRUE, !.lease = "none"]

(* _fail_job_terminally *)
FailedRow(r) == [r EXCEPT !.status = "failed", !.done = TRUE, !.lease = "none"]

(* _mark_job_cancelled *)
CancelledRow(r) == [r EXCEPT !.status = "cancelled", !.done = TRUE, !.lease = "none"]

(* Wrong: requeue_job without its "cannot be requeued" refusal. *)
RequeueableAlways(r) == TRUE

(* Wrong: requeue_job leaving completed_at, or starting the count again. *)
RequeuedRowDone(r) == [r EXCEPT !.status = "queued", !.due = TRUE, !.lease = "none"]
RequeuedRowAfresh(r) ==
    [r EXCEPT !.status = "queued", !.attempts = 0, !.done = FALSE, !.due = TRUE,
              !.lease = "none"]

(* requeue_job on a row it does not refuse: a queued one is only made due. *)
Requeueable(r) == r.status # "cancelled" /\ ~r.cancel
RequeuedRow(r) ==
    IF r.status = "queued" /\ ~r.done
    THEN [r EXCEPT !.due = TRUE]
    ELSE [r EXCEPT !.status = "queued", !.done = FALSE, !.due = TRUE, !.lease = "none"]

(* Wrong: the retry gives the attempt back. *)
RetriedRowRefunded(r) ==
    [r EXCEPT !.status = "queued", !.attempts = @ - 1, !.done = FALSE, !.due = TRUE,
              !.lease = "none"]

(* _apply_failure: cancelled after a cancel request, else retried, else failed. *)
RetriedRow(r) ==
    [r EXCEPT !.status = "queued", !.done = FALSE, !.due = TRUE, !.lease = "none"]
AfterFailure(r) ==
    IF r.cancel THEN CancelledRow(r)
    ELSE IF r.attempts < MaxAttempts THEN RetriedRow(r)
    ELSE FailedRow(r)

(* request_job_cancellation; the caller holds the row FOR UPDATE. *)
CancelRequestedRow(r) ==
    CASE r.status = "queued"  -> [CancelledRow(r) EXCEPT !.cancel = TRUE]
      [] r.status = "running" -> [r EXCEPT !.cancel = TRUE]
      [] OTHER -> r

(* Wrong: a flush that names every column. *)
OrmWriteAll(now, loaded, changed) == changed

(* The UPDATE a session flushes: it names only the columns that differ from *)
(* what the session loaded, so the others keep what the table holds now.    *)
OrmWrite(now, loaded, changed) ==
    [c \in DOMAIN now |-> IF changed[c] = loaded[c] THEN now[c] ELSE changed[c]]

-----------------------------------------------------------------------------
(* The attempts of one job: the outcome of each claim, "none" where no row  *)
(* exists yet.                                                              *)

Outcomes == {"none", "running", "completed", "failed", "retried", "cancelled"}
Ledger == [1 .. MaxAttempts -> Outcomes]
NoAttempts == [n \in 1 .. MaxAttempts |-> "none"]

(* _start_attempt: INSERT ... ON CONFLICT DO NOTHING. *)
StartAttempt(ledger, n) ==
    IF ledger[n] = "none" THEN [ledger EXCEPT ![n] = "running"] ELSE ledger

(* Wrong: the UPDATE without `outcome = 'running'`. *)
EndAttemptAnyway(ledger, n, outcome) == [ledger EXCEPT ![n] = outcome]

(* _end_attempt: UPDATE ... WHERE attempt = n AND outcome = 'running'. *)
EndAttempt(ledger, n, outcome) ==
    [m \in DOMAIN ledger |-> IF m = n /\ ledger[m] = "running" THEN outcome ELSE ledger[m]]

(* _end_attempt_after_failure: the outcome follows from the row it left. *)
FailureOutcome(r) ==
    CASE r.status = "cancelled" -> "cancelled"
      [] r.status = "queued"    -> "retried"
      [] OTHER -> "failed"
=============================================================================
