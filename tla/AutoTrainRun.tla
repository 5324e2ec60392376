---------------------------- MODULE AutoTrainRun ----------------------------
(***************************************************************************)
(* One training run from its submission to its end, across the four tables *)
(* that follow it and the three parties that write them:                   *)
(*                                                                         *)
(*   tables   ml_jobs, ml_job_attempts     row, ledger                     *)
(*            client_lab_uploads           upload                          *)
(*            execution_requests           request                         *)
(*            experiments                  evidence                        *)
(*            split_plans                  splits                          *)
(*   parties  the worker that claimed the job: execute_job around          *)
(*            run_auto_train_job; the API process that answers a question  *)
(*            of the run (confirm_execution_target, _split); the API       *)
(*            process that cancels it (cancel_experiment)                  *)
(*                                                                         *)
(* Every action is one committed transaction or one read that a later      *)
(* transaction acts on.  Leases are timely, so that one worker at a time   *)
(* executes the job (OneWorkerPerJob of MlJobQueue) and one worker variable*)
(* is enough.  A run that branches from another, a pinned final run and an *)
(* upload without an execution request are left out; all attempts of a run *)
(* that resolve a target resolve the same one.                             *)
(***************************************************************************)
EXTENDS MlJobRow

CONSTANT MaxCrashes     \* deaths of a worker or of an answering API process

ASSUME MaxCrashesAssumption == MaxCrashes \in Nat

VARIABLES
    input,     \* what the file and the run plan are like; it never changes
    splits,    \* who stored the first split plan of this dataset, target and task
    row,       \* the job
    ledger,    \* its attempts
    upload,    \* pipeline_status, explicit target, unresolved target in the log
    request,   \* the execution request: the question asked and the answer
    evidence,  \* the experiment, its lock and its test looks
    worker,    \* the worker, when it executes the job
    confirm,   \* "marked" between the two transactions of a confirmation
    crashes

vars == <<input, splits, row, ledger, upload, request, evidence, worker, confirm, crashes>>
tables == <<row, ledger, upload, request, evidence>>

Questions == {"target", "split"}

(* The questions the run may raise, whether it is simple tabular, and       *)
(* whether its lineage can carry a split plan (a published source dataset   *)
(* of its project, with row provenance).                                    *)
Input == [asks : SUBSET Questions, simple : BOOLEAN, carried : BOOLEAN]

(* pipeline_status; "working" is any of the stages in between. *)
Stages == {"queued", "working", "needs_input", "completed", "skipped", "failed", "cancelled"}

Upload == [stage : Stages, explicit : BOOLEAN, unresolved : BOOLEAN]
Request == [status : {"running", "needs_input"}, asked : Questions \cup {"nothing"},
            kept : BOOLEAN]
Evidence == [status : {"open", "completed", "skipped", "failed", "cancelled"},
             locked : BOOLEAN, looks : 0 .. MaxAttempts]

(* The places of run_auto_train_job at which something can come between.    *)
Checkpoints == {"loading", "target", "split", "planning", "training"}
Halting == {"park_target", "park_split", "ask_target", "ask_split"}
InHandler == {"start", "evaluating", "scored", "finalizing", "ended"} \cup Checkpoints \cup Halting
Executing == InHandler \cup {"stopping", "saving"}

Worker == [pc : {"recover", "claim"} \cup Executing, attempt : 0 .. MaxAttempts,
           usable : BOOLEAN, kept : BOOLEAN, ending : {"returned", "raised", "told"},
           loaded : Row, seen : Upload]

TypeOK ==
    /\ input \in Input
    /\ splits \in {"none", "own", "other"}
    /\ row \in Row
    /\ ledger \in Ledger
    /\ upload \in Upload
    /\ request \in Request
    /\ evidence \in Evidence
    /\ worker \in Worker
    /\ confirm \in {"idle", "marked"}
    /\ crashes \in 0 .. MaxCrashes

NoUpload == [stage |-> "queued", explicit |-> FALSE, unresolved |-> FALSE]
IdleWorker == [pc |-> "recover", attempt |-> 0, usable |-> FALSE, kept |-> FALSE,
               ending |-> "returned", loaded |-> AbsentRow, seen |-> NoUpload]

Init ==
    /\ input \in Input
    /\ splits = "none"
    /\ row = AbsentRow
    /\ ledger = NoAttempts
    /\ \E explicit \in BOOLEAN : upload = [NoUpload EXCEPT !.explicit = explicit]
    /\ request = [status |-> "running", asked |-> "nothing", kept |-> FALSE]
    /\ evidence = [status |-> "open", locked |-> FALSE, looks |-> 0]
    /\ worker = IdleWorker
    /\ confirm = "idle"
    /\ crashes = 0

(* What a handler's normal return means to execute_job, from the upload it  *)
(* reads then: a run that waits, or whose log still says that the target is *)
(* unresolved, is parked, and resumed at once if an explicit target is set. *)
Waiting(u) == u.stage = "needs_input" \/ u.unresolved
EndingOf(u) ==
    IF u.explicit /\ (Waiting(u) \/ u.stage = "working") THEN "resume"
    ELSE IF u.stage \in {"completed", "skipped"} THEN "finished"
    ELSE IF Waiting(u) THEN "parked" ELSE "stopped"

Ending == IF worker.ending = "returned" THEN EndingOf(worker.seen) ELSE worker.ending

(* The queue this run goes through: its one job and its one worker.         *)
QueuePc == IF worker.pc \in InHandler THEN "handler" ELSE worker.pc
QueueWorker ==
    [pc |-> QueuePc,
     job |-> IF worker.pc \in Executing THEN "run" ELSE "none",
     attempt |-> worker.attempt,
     ending |-> IF worker.pc \in {"stopping", "saving"} THEN Ending ELSE "finished",
     loaded |-> worker.loaded]

Queue == INSTANCE MlJobQueue WITH
    Jobs <- {"run"}, TrainJobs <- {"run"}, Workers <- {"worker"}, NoJob <- "none",
    LateWorkers <- FALSE,
    rows <- [j \in {"run"} |-> row], ledger <- [j \in {"run"} |-> ledger],
    worker <- [w \in {"worker"} |-> QueueWorker]

-----------------------------------------------------------------------------
(* record_run_cancelled: upload and experiment follow the cancelled job.    *)

(* Wrong: the evidence lock is not looked at. *)
RelabellableAlways(e) == TRUE

Relabellable(e) == ~e.locked

RecordCancelled ==
    IF Relabellable(evidence)
    THEN /\ upload' = [upload EXCEPT !.stage = "cancelled"]
         /\ evidence' = [evidence EXCEPT !.status = "cancelled"]
    ELSE UNCHANGED <<upload, evidence>>

(* A worker's transaction that may have cancelled the job. *)
RecordIfCancelled ==
    IF row'.status = "cancelled" THEN RecordCancelled ELSE UNCHANGED <<upload, evidence>>

-----------------------------------------------------------------------------
(* The API. *)

(* The upload, its request and its job are inserted together. *)
Submit ==
    /\ row.status = "absent"
    /\ row' = InsertedRow(TRUE)
    /\ UNCHANGED <<input, splits, ledger, upload, request, evidence, worker, confirm, crashes>>

(* cancel_experiment, under the job's FOR UPDATE. *)
CancelRun ==
    /\ row.status \in {"queued", "running"} /\ ~row.cancel
    /\ ~evidence.locked /\ evidence.status \notin {"completed", "cancelled"}
    /\ row' = CancelRequestedRow(row)
    /\ RecordIfCancelled
    /\ UNCHANGED <<input, splits, ledger, request, worker, confirm, crashes>>

(* confirm_execution_target and confirm_execution_split up to their first   *)
(* commit.  While the job runs there is only this one transaction; else     *)
(* _mark(ANALYZING) commits it and the job is requeued in a second one.     *)
Confirm(question) ==
    /\ confirm = "idle"
    /\ request.status = "needs_input" /\ request.asked = question
    /\ row.status # "cancelled" /\ ~row.cancel
    /\ request' = [request EXCEPT !.status = "running", !.asked = "nothing",
                                  !.kept = @ \/ question = "split"]
    /\ upload' = [upload EXCEPT
         !.explicit = @ \/ question = "target",
         !.stage = IF row.status = "running" THEN @ ELSE "working"]
    /\ confirm' = IF row.status = "running" THEN "idle" ELSE "marked"
    /\ UNCHANGED <<input, splits, row, ledger, evidence, worker, crashes>>

(* Wrong: the requeue does not ask whether the job was cancelled meanwhile. *)
ResumeAnyway ==
    /\ confirm = "marked"
    /\ row' = IF row.status # "running" THEN RequeuedRow(row) ELSE row
    /\ confirm' = "idle"
    /\ UNCHANGED <<input, splits, ledger, upload, request, evidence, worker, crashes>>

(* _resume_auto_train_job and the second commit; requeue_job raises for a   *)
(* cancelled job and this transaction is rolled back.                       *)
ResumeConfirmed ==
    /\ confirm = "marked"
    /\ row' = IF row.status # "running" /\ Requeueable(row) THEN RequeuedRow(row) ELSE row
    /\ confirm' = "idle"
    /\ UNCHANGED <<input, splits, ledger, upload, request, evidence, worker, crashes>>

(* The API process dies, or the second transaction fails. *)
ConfirmDies ==
    /\ confirm = "marked" /\ crashes < MaxCrashes
    /\ confirm' = "idle"
    /\ crashes' = crashes + 1
    /\ UNCHANGED <<input, splits, worker, tables>>

(* Another run stores a split plan of the same dataset, target and task;    *)
(* the rows are immutable, so only the first of them makes a difference.    *)
OtherRunSplits ==
    /\ splits = "none" /\ splits' = "other"
    /\ UNCHANGED <<input, row, ledger, upload, request, evidence, worker, confirm, crashes>>

-----------------------------------------------------------------------------
(* The worker around the handler: process_next_job. *)

ExpireLease ==
    /\ row.status = "running" /\ row.lease = "fresh" /\ worker.pc \notin Executing
    /\ row' = [row EXCEPT !.lease = "expired"]
    /\ UNCHANGED <<input, splits, ledger, upload, request, evidence, worker, confirm, crashes>>

(* Wrong: recovery passes over a job whose cancellation is pending. *)
AbandonedUncancelled == row.status = "running" /\ row.lease = "expired" /\ ~row.cancel

Abandoned == row.status = "running" /\ row.lease = "expired"

(* Wrong: recovery cancels the job and leaves the run as it is. *)
RecoverJobOnly ==
    /\ worker.pc = "recover"
    /\ IF Abandoned
       THEN /\ row' = AfterFailure(row)
            /\ ledger' = EndAttempt(ledger, row.attempts, FailureOutcome(row'))
       ELSE UNCHANGED <<row, ledger>>
    /\ worker' = [worker EXCEPT !.pc = "claim"]
    /\ UNCHANGED <<input, splits, upload, request, evidence, confirm, crashes>>

(* recover_abandoned_jobs *)
Recover ==
    /\ worker.pc = "recover"
    /\ IF Abandoned
       THEN /\ row' = AfterFailure(row)
            /\ ledger' = EndAttempt(ledger, row.attempts, FailureOutcome(row'))
            /\ RecordIfCancelled
       ELSE UNCHANGED <<row, ledger, upload, evidence>>
    /\ worker' = [worker EXCEPT !.pc = "claim"]
    /\ UNCHANGED <<input, splits, request, confirm, crashes>>

Claim ==
    /\ worker.pc = "claim" /\ row.status = "queued" /\ row.attempts < MaxAttempts
    /\ row' = ClaimedRow(row)
    /\ ledger' = StartAttempt(ledger, row.attempts + 1)
    /\ worker' = [IdleWorker EXCEPT !.pc = "start", !.attempt = row.attempts + 1]
    /\ UNCHANGED <<input, splits, upload, request, evidence, confirm, crashes>>

(* "max attempts exhausted before claim": the job fails, the upload is not  *)
(* told.                                                                    *)
ClaimExhausted ==
    /\ worker.pc = "claim" /\ row.status = "queued" /\ row.attempts >= MaxAttempts
    /\ row' = ExhaustedRow(row)
    /\ worker' = IdleWorker
    /\ UNCHANGED <<input, splits, ledger, upload, request, evidence, confirm, crashes>>

(* No due job, or the API holds its row (SKIP LOCKED). *)
ClaimNothing ==
    /\ worker.pc = "claim"
    /\ worker' = IdleWorker
    /\ UNCHANGED <<input, splits, confirm, crashes, tables>>

-----------------------------------------------------------------------------
(* The handler: run_auto_train_job. *)

Goto(pc) == worker' = [worker EXCEPT !.pc = pc]
RowStays == UNCHANGED <<input, splits, row, ledger, confirm, crashes>>

(* A file that is not simple tabular is skipped, before any stage. *)
Skip ==
    /\ worker.pc = "start" /\ ~input.simple
    /\ upload' = [upload EXCEPT !.stage = "skipped"]
    /\ evidence' = [evidence EXCEPT !.status = "skipped"]
    /\ Goto("ended") /\ RowStays /\ UNCHANGED request

(* ctx.stage(INGESTING) *)
Begin ==
    /\ worker.pc = "start" /\ input.simple
    /\ upload' = [upload EXCEPT !.stage = "working"]
    /\ Goto("loading") /\ RowStays /\ UNCHANGED <<request, evidence>>

(* start_decision_points, once per attempt: the plan is validated again, and *)
(* with it whether a person answered the split question is read.  A failed  *)
(* read, a plan no longer accepted, AI switched off or no policy snapshot   *)
(* leave the attempt without a usable plan.                                 *)
LoadPlan ==
    /\ worker.pc = "loading"
    /\ \E usable \in BOOLEAN :
         worker' = [worker EXCEPT !.pc = "target", !.usable = usable, !.kept = request.kept]
    /\ RowStays /\ UNCHANGED <<upload, request, evidence>>

(* run_target_resolution reads the explicit target afresh; without one the  *)
(* plan or the selection may name the target in one attempt and not in      *)
(* another.                                                                 *)
ResolveTarget ==
    /\ worker.pc = "target"
    /\ \/ Goto("split")
       \/ "target" \in input.asks /\ ~upload.explicit /\ Goto("park_target")
    /\ RowStays /\ UNCHANGED <<upload, request, evidence>>

(* partition_source: a run that is locked or whose lineage cannot carry a   *)
(* split plan keeps its own split.                                          *)
HasSource == input.carried /\ ~evidence.locked
PlanExists == HasSource /\ splits # "none"

(* Wrong: a run whose target was given by a person is not asked anything.   *)
MustAskSplitUnlessExplicit ==
    "split" \in input.asks /\ worker.usable /\ ~worker.kept /\ ~PlanExists /\ ~upload.explicit

(* resolve_split_point: a usable plan's valid change of the split is a      *)
(* person's call, unless one answered already or a split plan exists,       *)
(* whoever stored it.  Without a usable plan there is nothing to ask.       *)
MustAskSplit ==
    "split" \in input.asks /\ worker.usable /\ ~worker.kept /\ ~PlanExists
SplitPoint ==
    /\ worker.pc = "split"
    /\ Goto(IF MustAskSplit THEN "park_split" ELSE "planning")
    /\ RowStays /\ UNCHANGED <<upload, request, evidence>>

(* The two commits of a stage that stops for input: first the upload ...    *)
Park(question) ==
    /\ worker.pc = IF question = "target" THEN "park_target" ELSE "park_split"
    /\ upload' = [upload EXCEPT !.stage = "needs_input", !.unresolved = question = "target"]
    /\ Goto(IF question = "target" THEN "ask_target" ELSE "ask_split")
    /\ RowStays /\ UNCHANGED <<request, evidence>>

(* Wrong: the stage halts without parking the request. *)
AskNobody(question) ==
    /\ worker.pc = IF question = "target" THEN "ask_target" ELSE "ask_split"
    /\ Goto("ended") /\ RowStays /\ UNCHANGED <<upload, request, evidence>>

(* ... then mark_execution_needs_input, the commit and StageHalt.           *)
Ask(question) ==
    /\ worker.pc = IF question = "target" THEN "ask_target" ELSE "ask_split"
    /\ request' = [request EXCEPT !.status = "needs_input", !.asked = question]
    /\ Goto("ended") /\ RowStays /\ UNCHANGED <<upload, evidence>>

(* run_split_plan inserts the split plan or finds it; a run without a       *)
(* source, or whose plan cannot be persisted, goes on with its own split.   *)
StorePlan ==
    /\ worker.pc = "planning"
    /\ \/ HasSource /\ splits' = IF splits = "none" THEN "own" ELSE splits
       \/ UNCHANGED splits
    /\ Goto("training")
    /\ UNCHANGED <<input, row, ledger, upload, request, evidence, confirm, crashes>>

(* The last heartbeat, at ctx.stage(EVALUATING): nobody asked for a stop.   *)
Evaluate ==
    /\ worker.pc = "training" /\ ~evidence.locked /\ ~row.cancel
    /\ Goto("evaluating") /\ RowStays /\ UNCHANGED <<upload, request, evidence>>

(* Wrong: training goes on to the final report by itself. *)
FinalTestIsTheEnd ==
    /\ worker.pc = "evaluating"
    /\ evidence' = [evidence EXCEPT !.looks = @ + 1, !.status = "completed"]
    /\ Goto("finalizing") /\ RowStays /\ UNCHANGED <<upload, request>>

(* "final_test_started": the holdout is scored.  From here on the heartbeat *)
(* swallows a cancellation (cancellable = False).                           *)
FinalTest ==
    /\ worker.pc = "evaluating"
    /\ evidence' = [evidence EXCEPT !.looks = @ + 1, !.status = "open"]
    /\ Goto("scored") /\ RowStays /\ UNCHANGED <<upload, request>>

(* run_persistence: COMPLETED, the lineage and the lock in one transaction. *)
LockEvidence ==
    /\ worker.pc = "scored"
    /\ evidence' = [evidence EXCEPT !.status = "completed", !.locked = TRUE]
    /\ Goto("finalizing") /\ RowStays /\ UNCHANGED <<upload, request>>

(* A later attempt finds the evidence locked and reuses it. *)
ReuseLocked ==
    /\ worker.pc = "training" /\ evidence.locked /\ evidence.status = "completed"
    /\ Goto("finalizing") /\ RowStays /\ UNCHANGED <<upload, request, evidence>>

(* run_finalize *)
Finalize ==
    /\ worker.pc = "finalizing"
    /\ upload' = [upload EXCEPT !.stage = "completed", !.unresolved = FALSE]
    /\ evidence' = [evidence EXCEPT !.status = "completed"]
    /\ Goto("ended") /\ RowStays /\ UNCHANGED request

(* ctx.fail: an expected failure, an exception that run_auto_train_job      *)
(* caught, or locked evidence of a run that is not COMPLETED.  The log      *)
(* keeps its target, loses an unresolved one to a failure that reports      *)
(* another, and gets one when a declared target is not resolved.            *)
FailRun ==
    /\ worker.pc \in (Checkpoints \cup Halting \cup {"evaluating", "scored", "finalizing"})
    /\ \E unresolved \in BOOLEAN :
         /\ unresolved => upload.unresolved \/ worker.pc = "target"
         /\ upload' = [upload EXCEPT !.stage = "failed", !.unresolved = unresolved]
    /\ evidence' = [evidence EXCEPT !.status = "failed"]
    /\ Goto("ended") /\ RowStays /\ UNCHANGED request

(* An exception outside the try, or in ctx.fail itself: nothing is marked.  *)
Raise ==
    /\ worker.pc \in InHandler \ {"ended"}
    /\ worker' = [worker EXCEPT !.pc = "ended", !.ending = "raised"]
    /\ RowStays /\ UNCHANGED <<upload, request, evidence>>

(* RunCancelledError at a checkpoint. *)
Told ==
    /\ worker.pc \in Checkpoints /\ row.cancel
    /\ worker' = [worker EXCEPT !.pc = "stopping", !.ending = "told"]
    /\ RowStays /\ UNCHANGED <<upload, request, evidence>>

-----------------------------------------------------------------------------
(* execute_job after the handler. *)

(* The unlocked reads of the job and of the upload. *)
ReadOutcome ==
    /\ worker.pc \in {"ended", "stopping"}
    /\ worker' = [worker EXCEPT !.pc = "saving", !.loaded = row, !.seen = upload]
    /\ UNCHANGED <<input, splits, confirm, crashes, tables>>

(* The decision on what was read, the flushes and the commit. *)
SaveOutcome ==
    /\ worker.pc = "saving"
    /\ row' = Queue!SavedRow("run", row, worker.loaded, Ending)
    /\ ledger' = EndAttempt(ledger, worker.loaded.attempts,
                            Queue!EndedOutcome("run", worker.loaded, Ending))
    /\ RecordIfCancelled
    /\ worker' = IdleWorker
    /\ UNCHANGED <<input, splits, request, confirm, crashes>>

(* The worker dies: what it committed stays, the rest is rolled back. *)
WorkerDies ==
    /\ worker.pc \in Executing /\ crashes < MaxCrashes
    /\ worker' = IdleWorker
    /\ crashes' = crashes + 1
    /\ UNCHANGED <<input, splits, confirm, tables>>

-----------------------------------------------------------------------------
HandlerStep ==
    \/ Skip \/ Begin \/ LoadPlan \/ ResolveTarget \/ SplitPoint
    \/ \E question \in Questions : Park(question) \/ Ask(question)
    \/ StorePlan \/ Evaluate \/ FinalTest \/ LockEvidence \/ ReuseLocked \/ Finalize
    \/ FailRun \/ Raise

WorkerStep ==
    \/ Recover \/ Claim \/ ClaimExhausted \/ ClaimNothing
    \/ HandlerStep
    \/ ReadOutcome \/ SaveOutcome

Next ==
    \/ Submit
    \/ CancelRun
    \/ \E question \in Questions : Confirm(question)
    \/ ResumeConfirmed
    \/ ConfirmDies
    \/ OtherRunSplits
    \/ ExpireLease
    \/ WorkerStep
    \/ Told
    \/ WorkerDies

Spec == Init /\ [][Next]_vars

(* As in MlJobQueue: the worker loop goes on and is restarted, a handler    *)
(* ends, clocks advance and a due job is passed over finitely often.  No    *)
(* person has to answer, to cancel or to submit.                            *)
Fairness == WF_vars(WorkerStep) /\ WF_vars(ExpireLease) /\ SF_vars(Claim \/ ClaimExhausted)

FairSpec == Spec /\ Fairness

-----------------------------------------------------------------------------
(* The queue's view of this run is a behaviour of MlJobQueue: the handler,  *)
(* its halts and its failures end in the ways the queue knows, and nothing  *)
(* the run or a confirmation does touches the job in another way.           *)
ImplementsQueue == Queue!Spec

(* "A cancelled run never has locked evidence", whoever cancels it: the     *)
(* API, a recovering worker, a worker told at a checkpoint, or one that     *)
(* finds the request when it saves the outcome.                             *)
NeverCancelledWithEvidence ==
    evidence.locked => upload.stage # "cancelled" /\ evidence.status # "cancelled"

(* Job and run are cancelled together, except that a run whose evidence was *)
(* locked keeps it when its job is cancelled.                               *)
CancelledTogether ==
    /\ upload.stage = "cancelled" => row.status = "cancelled"
    /\ row.status = "cancelled" => upload.stage = "cancelled" \/ evidence.locked

(* "Nothing is split until a person confirms", as far as the code keeps it: *)
(* however often the run was interrupted, parked and put back, and however  *)
(* old the answer its attempt read, this run stores the first split plan or *)
(* scores the holdout only with its split question answered or dismissed.   *)
(* What dismisses it is an attempt whose plan is not usable and a split     *)
(* plan that exists already, and nothing else.                              *)
SplitsOrScores ==
    \/ splits # "own" /\ splits' = "own"
    \/ evidence'.looks > evidence.looks
SplitSettled ==
    \/ "split" \notin input.asks \/ request.kept
    \/ ~worker.usable
    \/ PlanExists
NothingSplitUnconfirmed == [][SplitsOrScores => SplitSettled]_vars

(* A job that rests while its upload waits for input has asked its question *)
(* or has got an answer: no run waits for something nobody was asked.       *)
Answered == upload.explicit \/ request.kept
RestingMeansAsking ==
    row.status = "completed" /\ upload.stage = "needs_input" =>
        request.status = "needs_input" \/ Answered

(* A run reads completed only with locked and scored evidence, whether it   *)
(* got a split plan or kept its own split; so does an experiment ("no       *)
(* reader ever sees a completed run without its lock").                     *)
CompletedHasEvidence ==
    upload.stage = "completed" \/ evidence.status = "completed" =>
        evidence.locked /\ evidence.looks > 0

(* A submitted run does not occupy the queue for ever, although a waiting   *)
(* run with an explicit target puts itself back.                            *)
RunSettles == row.status \in {"queued", "running"} ~> row.status \in Settled

-----------------------------------------------------------------------------
(* What the source says and the code does not keep. *)

(* "Supply the missing target and resume the original execution once": an   *)
(* answered run does not rest unresumed.                                    *)
AnsweredRunsAreResumed ==
    row.status = "completed" /\ upload.stage = "needs_input" =>
        request.status = "needs_input"

(* The same promise across a failure between the two transactions of a      *)
(* confirmation: a run that reads as working has a job that is not over.    *)
(* The code does not keep it (README, Disagreements).                       *)
ConfirmationIsWhole ==
    confirm = "idle" /\ upload.stage = "working" => row.status # "completed"

(* "Park the control-plane request in needs_input.  Does not fail the run." *)
(* A run that only ever parked for its split, and whose question is still   *)
(* open, does not have a failed job: not kept either.                        *)
ParkedRunsDoNotFail ==
    input.asks = {"split"} /\ request.status = "needs_input" /\ row.status = "failed" =>
        \E n \in 1 .. MaxAttempts : ledger[n] # "completed"

(* "The run stops at needs_input before run_holdout_lock; nothing is split  *)
(* until a person answers": not while the question is open.  Not kept: an   *)
(* attempt that comes back without a usable plan, or after another run's    *)
(* split plan, goes past the question its predecessor asked.                *)
SplitWaitsForAnswer ==
    [][SplitsOrScores => ~(request.status = "needs_input" /\ request.asked = "split")]_vars

-----------------------------------------------------------------------------
(* What the proofs of AutoTrainRunProofs carry along. *)

(* The row of a job that is executed is running. *)
ExecutedRowRuns == worker.pc \in Executing => row.status = "running"

(* A job that was never submitted was never attempted, and an attempt       *)
(* before its test has one look to spare.                                   *)
BeforeTest == {"start", "evaluating"} \cup Checkpoints \cup Halting
LooksAreAttempts ==
    /\ row.status = "absent" => row.attempts = 0
    /\ evidence.looks <= row.attempts
    /\ worker.pc \in BeforeTest => evidence.looks < row.attempts

(* How far the handler is says what was answered, scored and locked. *)
StagesInOrder ==
    /\ worker.kept => request.kept
    /\ worker.pc \in {"planning", "training", "evaluating"} => SplitSettled
    /\ worker.pc \in {"evaluating", "scored"} => ~evidence.locked
    /\ worker.pc \in {"scored", "finalizing"} => evidence.looks > 0
    /\ worker.pc = "finalizing" => evidence.locked
    /\ evidence.locked => evidence.looks > 0

(* A handler that returned from a stop for input has asked. *)
HaltsHaveAsked ==
    worker.pc \in {"ended", "saving"} /\ worker.ending = "returned"
        /\ upload.stage = "needs_input" => request.status = "needs_input" \/ Answered

(* Before its end a handler has not raised; one that is told to stop was.   *)
EndingsAgree ==
    /\ worker.pc \in BeforeTest \cup {"scored", "finalizing"} => worker.ending = "returned"
    /\ worker.pc = "stopping" => worker.ending = "told"

RunInv ==
    /\ TypeOK /\ ExecutedRowRuns /\ LooksAreAttempts /\ StagesInOrder
    /\ HaltsHaveAsked /\ EndingsAgree
    /\ NeverCancelledWithEvidence /\ CancelledTogether /\ CompletedHasEvidence
    /\ RestingMeansAsking
=============================================================================
