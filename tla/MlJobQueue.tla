----------------------------- MODULE MlJobQueue -----------------------------
(***************************************************************************)
(* The durable job queue: `ml_jobs` and `ml_job_attempts` in PostgreSQL,   *)
(* the API that inserts, cancels and resumes jobs, and the workers         *)
(* (`dclab worker run`, or the thread dispatcher's claim loop) that        *)
(* recover, claim and execute them (app/services/ml_job_service.py).       *)
(*                                                                         *)
(* The grain is the database transaction, with one exception that matters: *)
(* execute_job reads the row without a lock (`db.get`), decides, and       *)
(* flushes later.  HandlerEnds is that read and SaveOutcome that flush;    *)
(* everything another session commits in between is unknown to the worker. *)
(*                                                                         *)
(* What the handler does is another module's business (AutoTrainRun for a  *)
(* training run): here it ends with one of the outcomes execute_job tells  *)
(* apart.                                                                  *)
(***************************************************************************)
EXTENDS MlJobRow

CONSTANTS
    Jobs,         \* the rows that may be inserted
    TrainJobs,    \* those whose handler is labs.auto_train
    Workers,      \* the worker processes
    NoJob,        \* what an idle worker holds
    LateWorkers   \* may a lease expire while its worker still runs the job?

ASSUME JobsAssumption == TrainJobs \subseteq Jobs
ASSUME LateWorkersAssumption == LateWorkers \in BOOLEAN

ASSUME NoJobAssumption == NoJob \notin Jobs

VARIABLES
    rows,     \* ml_jobs
    ledger,   \* ml_job_attempts, by job and attempt number
    worker    \* what each worker process is doing

vars == <<rows, ledger, worker>>

(* How a handler can end, as execute_job tells it apart.                    *)
(*   finished  a training run COMPLETED or SKIPPED; any other handler's     *)
(*             return                                                       *)
(*   parked    a training run waiting for input, no explicit target         *)
(*   resume    waiting or in progress with an explicit target               *)
(*   stopped   a training run that recorded its own failure                 *)
(*   refused   a failure the handler recorded as deterministic              *)
(*   raised    an exception; UnknownJobHandlerError too                     *)
(*   told      RunCancelledError, raised at a heartbeat                     *)
Endings == {"finished", "parked", "resume", "stopped", "refused", "raised", "told"}
EndingsOf(j) ==
    IF j \in TrainJobs
    THEN {"finished", "parked", "resume", "stopped", "refused", "raised"}
    ELSE {"finished", "refused", "raised"}

(* A worker's place in its loop, the job it claimed, the attempt number it  *)
(* claimed, how the handler ended and the row it loaded then.               *)
Worker == [pc : {"recover", "claim", "handler", "stopping", "saving"},
           job : Jobs \cup {NoJob}, attempt : 0 .. MaxAttempts,
           ending : Endings, loaded : Row]
Idle == [pc |-> "recover", job |-> NoJob, attempt |-> 0,
         ending |-> "finished", loaded |-> AbsentRow]

TypeOK ==
    /\ rows \in [Jobs -> Row]
    /\ ledger \in [Jobs -> Ledger]
    /\ worker \in [Workers -> Worker]

Init ==
    /\ rows = [j \in Jobs |-> AbsentRow]
    /\ ledger = [j \in Jobs |-> NoAttempts]
    /\ worker = [w \in Workers |-> Idle]

-----------------------------------------------------------------------------
(* The API. *)

(* create_ml_job: the row is inserted once; a second call returns it. *)
Create(j, due) ==
    /\ rows[j].status = "absent"
    /\ rows' = [rows EXCEPT ![j] = InsertedRow(due)]
    /\ UNCHANGED <<ledger, worker>>

(* request_job_cancellation under the caller's FOR UPDATE. *)
Cancel(j) ==
    /\ rows[j].status \in {"queued", "running"}
    /\ rows' = [rows EXCEPT ![j] = CancelRequestedRow(@)]
    /\ UNCHANGED <<ledger, worker>>

(* _resume_auto_train_job: a confirmed run's job, not running, is requeued. *)
Resume(j) ==
    /\ j \in TrainJobs
    /\ rows[j].status \notin {"absent", "running"}
    /\ Requeueable(rows[j])
    /\ rows' = [rows EXCEPT ![j] = RequeuedRow(@)]
    /\ UNCHANGED <<ledger, worker>>

-----------------------------------------------------------------------------
(* Time. *)

BecomeDue(j) ==
    /\ rows[j].status = "queued" /\ ~rows[j].due
    /\ rows' = [rows EXCEPT ![j].due = TRUE]
    /\ UNCHANGED <<ledger, worker>>

(* Worker w is inside execute_job. *)
Executing(w) == worker[w].pc \in {"handler", "stopping", "saving"}

(* Worker w is executing the claim that the row of j names. *)
Holds(w, j) ==
    /\ Executing(w) /\ worker[w].job = j
    /\ worker[w].attempt = rows[j].attempts

(* The heartbeat timeout passes.  Without LateWorkers it does so only after *)
(* the claim's worker is gone.                                              *)
ExpireLease(j) ==
    /\ rows[j].status = "running" /\ rows[j].lease # "expired"
    /\ LateWorkers \/ \A w \in Workers : ~Holds(w, j)
    /\ rows' = [rows EXCEPT ![j].lease = "expired"]
    /\ UNCHANGED <<ledger, worker>>

-----------------------------------------------------------------------------
(* A worker: process_next_job. *)

(* Wrong: every running row is taken for abandoned; or recovery passes over *)
(* the rows whose cancellation is pending.                                  *)
AbandonedWhenRunning(j) == rows[j].status = "running"
AbandonedUncancelled(j) ==
    rows[j].status = "running" /\ rows[j].lease = "expired" /\ ~rows[j].cancel

Abandoned(j) == rows[j].status = "running" /\ rows[j].lease = "expired"

(* Wrong: recovery leaves the attempt open. *)
RecoverRowsOnly(w) ==
    /\ worker[w].pc = "recover"
    /\ rows' = [j \in Jobs |-> IF Abandoned(j) THEN AfterFailure(rows[j]) ELSE rows[j]]
    /\ worker' = [worker EXCEPT ![w].pc = "claim"]
    /\ UNCHANGED ledger

(* recover_abandoned_jobs, all of them, and its commit. *)
Recover(w) ==
    /\ worker[w].pc = "recover"
    /\ rows' = [j \in Jobs |-> IF Abandoned(j) THEN AfterFailure(rows[j]) ELSE rows[j]]
    /\ ledger' = [j \in Jobs |->
         IF Abandoned(j)
         THEN EndAttempt(ledger[j], rows[j].attempts, FailureOutcome(AfterFailure(rows[j])))
         ELSE ledger[j]]
    /\ worker' = [worker EXCEPT ![w].pc = "claim"]

(* Wrong: the claim selects on available_at alone. *)
ClaimableWhenDue(j) == rows[j].due /\ rows[j].status \notin {"absent", "running"}

Claimable(j) == rows[j].status = "queued" /\ rows[j].due

(* claim_next_queued_job with attempts left, and the commit that releases   *)
(* the row.  Which due row SKIP LOCKED leaves to this worker is open.       *)
Claim(w, j) ==
    /\ worker[w].pc = "claim"
    /\ Claimable(j) /\ rows[j].attempts < MaxAttempts
    /\ rows' = [rows EXCEPT ![j] = ClaimedRow(@)]
    /\ ledger' = [ledger EXCEPT ![j] = StartAttempt(@, rows[j].attempts + 1)]
    /\ worker' = [worker EXCEPT ![w] =
         [Idle EXCEPT !.pc = "handler", !.job = j, !.attempt = rows[j].attempts + 1]]

(* claim_next_queued_job on a row without attempts left: None is returned. *)
ClaimExhausted(w, j) ==
    /\ worker[w].pc = "claim"
    /\ Claimable(j) /\ rows[j].attempts >= MaxAttempts
    /\ rows' = [rows EXCEPT ![j] = ExhaustedRow(@)]
    /\ worker' = [worker EXCEPT ![w] = Idle]
    /\ UNCHANGED ledger

(* No due row, or SKIP LOCKED skipped every one: the API may hold them.     *)
ClaimNothing(w) ==
    /\ worker[w].pc = "claim"
    /\ worker' = [worker EXCEPT ![w] = Idle]
    /\ UNCHANGED <<rows, ledger>>

(* commit_job_heartbeat: extends the lease of a running row, whoever        *)
(* claimed it, and tells the worker of a cancel request on that row only.   *)
(* A training run stops then, unless its final test began.                  *)
Heartbeat(w) ==
    LET j == worker[w].job
        beating == rows[j].status = "running"
    IN /\ worker[w].pc = "handler"
       /\ rows' = IF beating THEN [rows EXCEPT ![j].lease = "fresh"] ELSE rows
       /\ \/ /\ beating /\ rows[j].cancel => j \in TrainJobs
             /\ worker' = worker
          \/ /\ beating /\ rows[j].cancel
             /\ worker' = [worker EXCEPT ![w].pc = "stopping", ![w].ending = "told"]
       /\ UNCHANGED ledger

(* The handler returned or raised; execute_job reads the row, unlocked. *)
HandlerEnds(w, ending) ==
    /\ worker[w].pc = "handler"
    /\ ending \in EndingsOf(worker[w].job)
    /\ worker' = [worker EXCEPT ![w].pc = "saving", ![w].ending = ending,
                                ![w].loaded = rows[worker[w].job]]
    /\ UNCHANGED <<rows, ledger>>

(* RunCancelledError: the rollback, then the same unlocked read. *)
HandlerStops(w) ==
    /\ worker[w].pc = "stopping"
    /\ worker' = [worker EXCEPT ![w].pc = "saving", ![w].loaded = rows[worker[w].job]]
    /\ UNCHANGED <<rows, ledger>>

(* What execute_job makes of the row it loaded: the row it flushes and the  *)
(* outcome it gives the attempt.  A training run that did not finish is     *)
(* cancelled when the loaded row says so.                                   *)
CancelSeen(j, r, ending) ==
    \/ ending = "told"
    \/ j \in TrainJobs /\ ending # "raised" /\ r.status = "cancelled"
    \/ j \in TrainJobs /\ ending \in {"parked", "resume", "stopped", "refused"} /\ r.cancel

EndedRow(j, r, ending) ==
    IF CancelSeen(j, r, ending) THEN CancelledRow(r)
    ELSE CASE ending \in {"finished", "parked", "resume"} -> CompletedRow(r)
           [] ending = "refused" -> FailedRow(r)
           [] OTHER -> AfterFailure(r)

EndedOutcome(j, r, ending) ==
    LET ended == EndedRow(j, r, ending)
    IN IF ended.status = "completed" THEN "completed" ELSE FailureOutcome(ended)

(* The branches "waiting and explicit" and "in progress and explicit"       *)
(* complete the job and requeue it before the one commit.                   *)
RequeuesItself(j, r, ending) == ending = "resume" /\ ~CancelSeen(j, r, ending)

SavedRow(j, now, loaded, ending) ==
    LET ended == EndedRow(j, loaded, ending)
        saved == OrmWrite(now, loaded, ended)
    IN IF RequeuesItself(j, loaded, ending)
       THEN OrmWrite(saved, ended, RequeuedRow(ended))
       ELSE saved

(* The flushes and the commit at the end of execute_job. *)
SaveOutcome(w) ==
    LET j == worker[w].job
        loaded == worker[w].loaded
        ending == worker[w].ending
    IN /\ worker[w].pc = "saving"
       /\ rows' = [rows EXCEPT ![j] = SavedRow(j, @, loaded, ending)]
       /\ ledger' = [ledger EXCEPT ![j] =
            EndAttempt(@, loaded.attempts, EndedOutcome(j, loaded, ending))]
       /\ worker' = [worker EXCEPT ![w] = Idle]

(* The process dies, or an error outside the handler (a lost connection, a  *)
(* deadlock victim) ends this pass: nothing more of it is written.  Before  *)
(* the claim there is nothing to lose, the pass is only late.               *)
Crash(w) ==
    /\ Executing(w)
    /\ worker' = [worker EXCEPT ![w] = Idle]
    /\ UNCHANGED <<rows, ledger>>

-----------------------------------------------------------------------------
WorkerStep(w) ==
    \/ Recover(w)
    \/ \E j \in Jobs : Claim(w, j)
    \/ \E j \in Jobs : ClaimExhausted(w, j)
    \/ ClaimNothing(w)
    \/ \E ending \in Endings : HandlerEnds(w, ending)
    \/ HandlerStops(w)
    \/ SaveOutcome(w)

Next ==
    \/ \E j \in Jobs, due \in BOOLEAN : Create(j, due)
    \/ \E j \in Jobs : Cancel(j)
    \/ \E j \in Jobs : Resume(j)
    \/ \E j \in Jobs : BecomeDue(j)
    \/ \E j \in Jobs : ExpireLease(j)
    \/ \E w \in Workers : WorkerStep(w)
    \/ \E w \in Workers : Heartbeat(w)
    \/ \E w \in Workers : Crash(w)

Spec == Init /\ [][Next]_vars

(* The worker loop goes on for ever, catches every exception of a pass and  *)
(* starts again after a crash (the supervisor restarts the container); a    *)
(* handler ends; clocks advance.  Claims take due rows in the order of      *)
(* available_at, and a requeued row goes to the end of that order: a due    *)
(* row is passed over only finitely often, hence the strong fairness.  The  *)
(* API, heartbeats and crashes are under no obligation.                     *)
Fairness ==
    /\ \A w \in Workers : WF_vars(WorkerStep(w))
    /\ \A j \in Jobs :
         /\ WF_vars(BecomeDue(j)) /\ WF_vars(ExpireLease(j))
         /\ SF_vars(\E w \in Workers : Claim(w, j) \/ ClaimExhausted(w, j))

FairSpec == Spec /\ Fairness

-----------------------------------------------------------------------------
(* What holds whatever the workers do, late ones included. *)

(* "One row per claim": the attempts numbered 1 .. ml_jobs.attempts exist   *)
(* and no other, although every end of a job flushes a row it read earlier. *)
OneAttemptPerClaim ==
    \A j \in Jobs : \A n \in 1 .. MaxAttempts :
        ledger[j][n] # "none" <=> n <= rows[j].attempts

(* "A finished attempt is final": the UPDATEs of late and of recovering     *)
(* workers never reach it, so the database trigger has nothing to refuse.   *)
FinishedAttemptsAreFinal ==
    [][\A j \in Jobs : \A n \in 1 .. MaxAttempts :
         ledger[j][n] \notin {"none", "running"} => ledger'[j][n] = ledger[j][n]]_vars

(* A worker only ever holds a claim the row has counted. *)
ClaimsAreCounted ==
    \A w \in Workers : worker[w].job \in Jobs =>
        worker[w].attempt \in 1 .. rows[worker[w].job].attempts

(* The attempts column never goes back, whoever flushes. *)
AttemptsNeverGoBack ==
    [][\A j \in Jobs : rows[j].attempts <= rows'[j].attempts]_vars

(* Every job that was queued settles: a lost worker's lease expires and     *)
(* recovery retries or fails the row; retries are bounded by MaxAttempts.   *)
JobsSettle ==
    \A j \in Jobs :
        rows[j].status \in {"queued", "running"} ~> rows[j].status \in Settled

(* Once cancellation was requested the job settles for good: nothing the    *)
(* API or a worker does later brings it back for ever.                      *)
CancelSettlesForGood ==
    \A j \in Jobs : rows[j].cancel ~> [](rows[j].status \in Settled)

-----------------------------------------------------------------------------
(* What holds when no lease expires under a live worker. *)

Busy(w, j) == Executing(w) /\ worker[w].job = j

(* No two workers run one job, under any claim numbers. *)
OneWorkerPerJob ==
    \A j \in Jobs : \A v, w \in Workers : Busy(v, j) /\ Busy(w, j) => v = w

(* The open attempt is the last one, and is open exactly while the row runs. *)
OpenIsRun(attempts, r) ==
    \A n \in 1 .. MaxAttempts :
        attempts[n] = "running" <=> r.status = "running" /\ n = r.attempts
OpenAttemptIsTheRun == \A j \in Jobs : OpenIsRun(ledger[j], rows[j])

(* No row mixes the columns of two writers: completed_at is set exactly     *)
(* when the job is settled and a lease exactly while it runs.               *)
Whole(r) ==
    /\ r.done <=> r.status \in Settled
    /\ r.lease # "none" <=> r.status = "running"
RowsAreWhole == \A j \in Jobs : Whole(rows[j])

(* A completed or failed job leaves that state only by the API's resume,    *)
(* never by what a worker writes.                                           *)
Reopens(j) == rows[j].status \in {"completed", "failed"} /\ rows'[j].status # rows[j].status
OnlyResumeReopens ==
    [][\A j \in Jobs : Reopens(j) =>
         rows'[j].status = "queued" /\ worker' = worker /\ ledger' = ledger]_vars

(* "Failed or abandoned after a cancel request: never retried." *)
CancelRequestedNeverRetried ==
    [][\A j \in Jobs :
         rows[j].status = "running" /\ rows[j].cancel => rows'[j].status # "queued"]_vars

-----------------------------------------------------------------------------
(* The promise to those who submit jobs. *)

statusOf == [j \in Jobs |-> rows[j].status]
attemptsOf == [j \in Jobs |-> rows[j].attempts]

Lifecycle == INSTANCE JobLifecycle
    WITH MaxTries <- MaxAttempts, status <- statusOf, tries <- attemptsOf

(* The queue implements JobLifecycle: no job skips a status, cancelled is   *)
(* the end, and only a claim counts as a try.                               *)
ImplementsLifecycle == Lifecycle!Spec

-----------------------------------------------------------------------------
(* What the proofs of MlJobQueueProofs carry along. *)

(* A worker inside execute_job holds a job of the queue. *)
HoldersHaveJobs == \A w \in Workers : Executing(w) => worker[w].job \in Jobs

(* A row nobody inserted was never claimed. *)
AbsentRowsAreUnclaimed ==
    \A j \in Jobs : rows[j].status = "absent" => rows[j].attempts = 0

AlwaysInv ==
    /\ TypeOK /\ HoldersHaveJobs /\ AbsentRowsAreUnclaimed
    /\ OneAttemptPerClaim /\ ClaimsAreCounted

(* Without late workers the row of a job somebody executes is running under *)
(* that claim, and the copy read before the flush says the same.            *)
ExecutedRowsRun ==
    \A w \in Workers : Executing(w) =>
        LET row == rows[worker[w].job]
        IN /\ row.status = "running" /\ row.lease = "fresh"
           /\ row.attempts = worker[w].attempt

LoadedRowsRun ==
    \A w \in Workers : worker[w].pc = "saving" =>
        /\ worker[w].loaded.status = "running" /\ worker[w].loaded.lease = "fresh"
        /\ worker[w].loaded.attempts = worker[w].attempt
        /\ ~worker[w].loaded.done

TimelyInv ==
    /\ AlwaysInv
    /\ ExecutedRowsRun /\ LoadedRowsRun
    /\ OneWorkerPerJob /\ RowsAreWhole /\ OpenAttemptIsTheRun
=============================================================================
