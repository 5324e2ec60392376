# DCLab: a TLA+ model of the durable core

DCLab is an application that trains, evaluates and serves tabular models for
workspaces of people and agents. A FastAPI process (`src/apps/api/app`) takes
requests and writes PostgreSQL; worker processes (`dclab worker run`, or a
thread of the API) claim jobs from the same database and run them; ticks in the
worker send notifications, start scheduled scoring, meter usage and retrain.
Everything that has to survive a crash is a row, and everything that has to be
exclusive is a row lock, an advisory lock or a unique key. This project models
that part: who may change which row, in which order, and what happens when a
process dies or comes late.

## Inventory

| Component | State | Operations | Interacts through | Hard behaviour |
|---|---|---|---|---|
| Durable job queue (`services/ml_job_service.py`) | `ml_jobs`, `ml_job_attempts` | create, cancel, requeue, recover, claim, heartbeat, execute, complete, fail or retry | row locks, `SKIP LOCKED`, leases | crashes, late workers, stale reads, retries |
| Auto-train run (`services/auto_train_service.py`, `auto_train/`) | `client_lab_uploads.pipeline_status` and log, `experiments` | stages, park for input, persist, cancel, fail | commits per stage, job heartbeat | crash between commits, parking races |
| Execution requests (`services/execution_request_service.py`) | `execution_requests.status` | submit, confirm target, confirm split, cancel | requeues the job | commit in the middle of a handler, lost wake-up |
| Evidence lock (`services/evidence_lock_service.py`, `db/evidence_lock.py`) | lock columns, triggers | lock, read | transaction of persistence | second look at the test set |
| Run capacity (`ensure_run_capacity`, `services/usage_service.py`) | counts of active jobs | admit | advisory lock `ml-runs:<workspace>` | lock released before the insert |
| LLM budget (`agents/gateway/budget.py`, `ledger.py`, `service.py`) | counters, invocations, `agent_runs` | reserve, call, settle, release, reconcile | counter rows locked in one order | double release, late finalize, crash |
| Agent harness (`agents/harness`) | `agent_runs` | start, steps, end, sweep | budget release | dead processes |
| Notification outbox (`services/notification_service.py`) | `notification_outbox`, endpoints | enqueue, claim, send, finish, retry, breaker | lease and token | duplicate delivery, late result |
| Scoring schedules (`services/scoring_schedule_service.py`) | schedules, runs per slot | save, tick | row lock, unique slot | slot handled twice or lost |
| Batch prediction (`services/batch_prediction_service.py`) | `batch_predictions` | create, run, sync | its job | row and job out of step |
| Improve loop (`services/improve`) | `improve_runs`, `improve_iterations` | start, step, record an error, cancel, accept, keep | jobs it arms itself, terminal hooks of the queue, advisory lock | lost continuation, late step, double try, two looks |
| Retraining (`services/retrain_service.py`) | requests, policies | start, compare, tick | advisory lock | two open retrains |
| Project refs and releases (`services/project_ref_service.py`, `model_release_service.py`) | versioned refs | propose, move | compare-and-set | stale versions |
| Decision records, proposals | append-only records | propose, review | unique keys | double review |
| Usage metering | daily records | tick | try-lock | double counting |
| Sessions and tokens | `auth_sessions`, tokens | issue, touch, revoke | row writes | session cap under concurrency |
| AI governance | policies, switches, incidents | publish, switch | versions | stale policy |
| Training engine, simulator, storage, read models, API routes, web application, client packages, demos | none shared, or read-only | | | not a matter of interleaving |

What makes each of the stateful ones correct, in one line each: a job is run by
one worker at a time and settles; a run's upload, job and request agree after
every crash; the final test set is looked at once; a budget counter's
`reserved` is the sum of the live holds and `spent` the sum of what was called;
a notification is delivered at least once and recorded once; a slot is handled
once; a loop never has two live tries; a ref moves from the version its
proposer saw.

## Modules

| Module | What it is |
|---|---|
| `MlJobRow` | The algebra of one `ml_jobs` row and of its attempts: what each function assigns. No variables. |
| `MlJobQueue` | The queue: API, clock, workers, crashes. One action per transaction, except `execute_job`. |
| `JobLifecycle` | The abstract promise: the statuses a job moves through and how often it is started. |
| `AutoTrainRun` | One training run: its job, upload, execution request and experiment, the worker that runs it, the person who answers and the person who cancels. Instantiates `MlJobQueue` as its abstract specification. |
| `LlmBudget` | The LLM gateway's money: counters, agent runs and their holds, invocation rows, the calls made on a hold and whoever ends an abandoned run. |
| `BudgetBook` | The abstract promise of the budget: a hold is opened once, spent in parts and closed once, and `reserved` moves with nothing else. |
| `Amounts` | Sums of micro-dollars, without recursion. |
| `NotificationOutbox` | The delivery side of the outbox: workers, leases and tokens, caps, the delivery log and an endpoint's breaker. |
| `ScoringSchedule` | A weekly schedule: workers, the person who saves it, the uploads it looks for. |
| `ImproveLoop` | The improve loop: its row, its tries, its final runs, the jobs that step it, workers that may be late, hooks that may be lost, people. |
| `MCMlJobQueue`, `MCAutoTrainRun`, `MCLlmBudget`, `MCNotificationOutbox`, `MCScoringSchedule`, `MCImproveLoop` | The six for TLC. |
| `MlJobRowProofs` | Lemmas about the row algebra. |
| `MlJobQueueProofs` | Proofs about the queue that need no assumption about leases. |
| `MlJobQueueTimelyProofs` | Proofs for the case that no lease expires under a live worker, and the refinement of `JobLifecycle`. |
| `AutoTrainRunProofs` | Proofs about the training run, and that it treats its job as `MlJobQueue` says. |
| `ScoringScheduleProofs` | Proofs about the scoring schedule. |
| `NotificationOutboxProofs` | Proofs about the outbox, for any workers, rows, caps and number of faults. |
| `LlmBudgetProofs` | Lemmas about sums, proofs about the budget, for any runs, calls, counters and amounts, and the refinement of `BudgetBook`. |
| `ImproveLoopProofs` | Proofs about the improve loop, for any loops, workers, jobs, tries and faults. |

### The queue

`rows[j]` is the row of job `j`, with the columns the control flow reads
(`status`, `attempts`, `cancel`, `done`, `due`, `lease`); `ledger[j][n]` is the
outcome of the attempt row with number `n`; `worker[w]` is a worker's place in
`process_next_job`, with the claim it took and the row it loaded.

| Action | Code |
|---|---|
| `Create` | `create_ml_job`, `create_auto_train_job` |
| `Cancel` | `request_job_cancellation`, whose callers hold the row `FOR UPDATE` |
| `Resume` | `_resume_auto_train_job` and `requeue_job` after a confirmation |
| `BecomeDue`, `ExpireLease` | the clock passes `available_at`, the lease |
| `Recover` | `recover_abandoned_jobs` and the commit of `process_next_job` |
| `Claim`, `ClaimExhausted`, `ClaimNothing` | `claim_next_queued_job` and its commit |
| `Heartbeat` | `commit_job_heartbeat`, from the handler, on its own connection |
| `HandlerEnds`, `HandlerStops` | the handler returns, raises or is told to stop; `execute_job` reads the row without a lock |
| `SaveOutcome` | the rest of `execute_job`: the decision on the loaded row, the flush of the changed columns (`OrmWrite`) and the commit |
| `Crash` | the process dies, or an error ends the pass outside the handler |

The read and the flush of `execute_job` are two actions because nothing locks
the row in between; that is where the queue is hard. The session's flush names
only the columns that differ from what it loaded, which `OrmWrite` states and
several properties rest on: with a flush of whole rows they fail (see the
mutants).

A handler ends in one of the ways `execute_job` tells apart (`Endings`); what
it did to get there is not the queue's matter. `runner` and `job_id`, the test
hooks of `process_next_job`, are left out. The ending of a training run whose
upload says `CANCELLED` is covered by the row that says so.

### The training run

`AutoTrainRun` follows one run through the tables that record it. Nothing in the
database ties these rows together; what keeps them consistent is the order of
commits in three processes.

| Variable | Code |
|---|---|
| `row`, `ledger` | the run's `ml_jobs` row and its attempts, as in `MlJobRow` |
| `upload` | `client_lab_uploads`: `pipeline_status` (`stage`, the stages in between as `"working"`), whether an explicit target is set, whether the log says that the target is unresolved |
| `request` | `execution_requests`: status, the question asked, whether the kept split was answered |
| `evidence` | the experiment's status, its lock and its test looks |
| `splits` | `split_plans` of the run's dataset, target and task: none yet, or who stored the first, this run or another one |
| `worker` | where the worker is in `execute_job` and in the handler, what the attempt found at its start (whether the run plan is `usable`, whether the kept split was answered), how it ended, the copies it saves from |
| `confirm` | an answering API process between its two transactions |
| `input` | which questions this file and plan may raise, whether it is simple tabular, and whether its lineage can carry a split plan; fixed |

| Action | Code |
|---|---|
| `Submit` | `start_experiment` |
| `CancelRun` | `cancel_experiment`, `record_run_cancelled` |
| `Confirm`, `ResumeConfirmed`, `ConfirmDies` | `confirm_execution_target`, `confirm_execution_split` up to the commit of `_mark`; `_resume_auto_train_job` and the second commit; a failure in between |
| `OtherRunSplits` | another run of the dataset stores a split plan |
| `ExpireLease`, `Recover`, `Claim`, `ClaimExhausted`, `ClaimNothing` | as in the queue, with `_record_cancelled_run` |
| `Skip`, `Begin`, `LoadPlan`, `ResolveTarget`, `SplitPoint`, `StorePlan`, `Evaluate` | the stages of `run_auto_train_job` up to the last heartbeat |
| `Park`, `Ask` | the two commits of a stage that stops for input |
| `FinalTest`, `LockEvidence`, `ReuseLocked`, `Finalize` | `run_training`'s final test, `run_persistence`, a later attempt's reuse of locked evidence, `run_finalize` |
| `FailRun`, `Raise`, `Told` | `ctx.fail`, an exception that marks nothing, `RunCancelledError` at a checkpoint |
| `ReadOutcome`, `SaveOutcome` | `execute_job` after the handler: the unlocked reads of job and upload, then the decision, the flush and the commit |
| `WorkerDies` | the process dies; what it committed stays |

`Recover`, `CancelRun` and `SaveOutcome` are one transaction for job and run, as
in the code: `record_run_cancelled` runs in the transaction that cancels the
job. A job is executed by one worker at a time; that is what `MlJobQueue` proves
when leases are timely, and it is why one worker variable is enough.

Every attempt decides again what there is to ask. `LoadPlan` validates the run plan
anew, and a failed read, AI switched off, no policy snapshot or a plan that is no
longer accepted leave the attempt without a usable one; a target that a plan or the
selection names in one attempt may be missing in the next. The split question is
raised (`MustAskSplit`) by an attempt with a usable plan whose valid change of the
split nobody answered, unless a split plan of the dataset, target and task exists,
whoever stored it. `StorePlan` stores the split plan or finds it; a run without a
published source dataset and row provenance, one that is locked, and one whose plan
cannot be persisted go on with their own split and train, lock and complete like
the others. `FailRun` covers every `ctx.fail`: what it reports may keep an
unresolved target in the log, take it out, or put one in when a declared target is
not resolved.

Left out: that the attempts of a run may resolve different targets, a run that branches from another one, a pinned final run, an upload
without an execution request, the ending "refused" (a pinned final run that did
not reproduce its probe; the queue module covers it), refusals for lack of
capacity, the edit of a run plan while it is parked, the plan's answers other than
target and split, and everything the stages compute.

### The LLM budget

A gateway call is paid from a hold: an agent run's, or a reservation without a
run. Money is in `workspace_llm_budgets` (`counter`), the hold in
`agent_runs.held_micros` (`held`), the calls in `llm_invocations` (`ledger`).
Nobody writes a list of holds: `reserved` is right only if each release, settle
and period change frees exactly what is left of a hold, whoever comes first.

| Action | Code |
|---|---|
| `Start`, `Reserve`, `ReserveRefused`, `Finish` | the owner of a run or of a batch up to its end (`_Execution`, `budget.reserve`) |
| `Release`, `ReleaseFails`, `MarkReleased` | `GatewayService.release`: the transaction (`_end_run`), its failure, the note in the process |
| `LookAtRun`, `EndLookedAt`, `LeaveUnheld` | `release_run` from the row: the unlocked look at the run's counters, then the transaction |
| `Ask`, `ServeCached`, `InsertPending` | `_prepare` under the hold's advisory lock: the check, then the commit of a row |
| `Answer`, `ClaimRetry`, `RaiseEstimate` | the provider's answer and the second attempt, checked again |
| `Finalize`, `Settle`, `WriteFails` | the two transactions of `_finish`, either of which may fail |
| `Reconcile` | `reconcile_stale_pending` |
| `NextPeriod`, `Crash` | a new month; a process dies with its calls |

Left out: alerts, the counters' call counts, prices and seals, the 24-hour
expiry, redaction, limits, routing and switches (a call they refuse is one not
made). The second look of `_end_run` when no counter was found is one step with
the transaction, under whose lock the code takes it. `reconcile_stale_pending`
has no caller in the application; it is modelled as its docstring intends, at
any time, also while the call is under way.

### The notification outbox

| Variable | Code |
|---|---|
| `row` | `notification_outbox`: status, attempts, whether its lease has ended, its token |
| `endpoint` | `webhook_endpoints`: enabled, failures in a row, whether it is paused |
| `log` | `webhook_deliveries`: the outcomes of every webhook |
| `worker` | a worker between two transactions, with its claim and the answer |
| `received`, `fault` | history: what the receiver has, and what disturbed the sending |

`ClaimNext`, `Refuse`, `Send` and `Finish` are `claim_next`, the checks that
write a result at once, the checks that pass with the network call, and the last
transaction (`_finish`, with the log and the breaker). `LeaseEnds`, `GrowOld` and
`PauseEnds` are time; `Toggle` is a person who turns the endpoint off and on;
`Crash` is also a row that raises.

Left out: who gets a row (the rows start as inserted), the kill switch, the
tick's budgets and round robin, back-off times (a waiting row may be claimed at
any later time), the change of the UTC day, rendering, signatures and transport.
The three skipped statuses are one. The check of the cap and the commit before
the send are one step.

### The scoring schedule

`schedule` and `lock` are the row and its lock, `runs` the append-only
`scoring_schedule_runs`, a slot at most once. A worker holds the lock from
`Claim` over `Handle` to `Queue` or `Finish`; `Refuse` and `Raise` roll back and
lose it, and `RecordAgain` takes it again. `Save` is a person, with a clock that
may be behind a worker's. `BeginUpload` and `CommitUpload` are the ends of an
upload's transaction: a dataset's `created_at` is the beginning, and it can be
read after the end. A tick reads its moment once, so `Claim` may take any
earlier one.

Left out: the first save, History entries, the reads, uploads by a service
token and the file the model was trained on (files that never count). Roles, the
model in use and its approval are not variables: each read of them has any
answer, at the choice of the file and again in `create_batch_prediction`.

### The improve loop

A loop trains one try after the other and asks a person which to accept. Nothing
runs for as long as a loop lives: each step is a job (`labs.improve`) that arms
the next one, and only the job in `continuation_job_id` may step the loop.

| Variable | Code |
|---|---|
| `loop` | `improve_runs`: status, incumbent (0 is the start), continuation, `step_errors`, the cancel request, whether the test set was consulted, whether the wall budget or the wait is over |
| `try` | `improve_iterations` by plan index, with the job of the probe |
| `final` | the accepted try, `final_attempts`, the job of the final run and its look |
| `job`, `owed` | the step jobs, and those that failed for good and whose hook has not run |
| `worker` | before the first transaction of a step, before the second, or done |
| `inRow` | history: steps that raised in a row |

| Action | Code |
|---|---|
| `Claim`, `HandlerFails`, `Recover`, `Return`, `Crash` | the queue and its workers; `Recover` of a job whose worker lives is a late worker |
| `Hook`, `LoseHook` | `_after_terminal` with `on_job_terminal` for a failed step job, and its loss |
| `Miss` | `_locked` refuses a stale job |
| `Step` | the first transaction of `step`: `StepWaiting`, `StepFinalizing`, `StepRunning` (`_evaluate`, `stop_reason`, `_stop`) |
| `Propose` | the second: `_propose` with `branch_experiment`, its quota and its refusals |
| `StepRaises` | the rollback and `_record_step_error` |
| `Start`, `CancelLoop`, `Accept`, `Keep` | `start_improve_run`, `cancel_improve_run`, `accept_improve_run` |
| `Probe`, `FinalRun`, `Look`, `CancelProbe`, `CancelFinal`, `TimePasses` | the training jobs, the beginning of the final test, `cancel_experiment`, time |

A finished job's id is used again once nothing refers to it (`Fresh`): that keeps
the instance finite and `Job` bounds only the jobs that exist at a time. A probe's
terminal hook only pulls the next step forward; as a queued job may be claimed at
any time, it is not a variable. The look belongs to a final run; how often its
attempts score the test set is `AutoTrainRun`'s matter.

Left out: how evidence is weighed (every verdict and every stop that evidence
allows is a choice), the quotas, budgets but the wall, the one live loop and the
comparisons per split plan, iteration 0, a final run whose row is missing, tokens
and roles (authority has any answer in each transaction), the reads. A try that
could not be compared counts as rejected. The arm of `_propose` for a plan
without a next try is left out: `ProposeReady` (proved) says it is never taken.
Training jobs are not late here.

## Runs

| Run | Instance | Shows |
|---|---|---|
| `queue_timely` | a training job and another one, 2 workers, 3 attempts, no late worker, `FairSpec` | types, exclusive execution, the open attempt, whole rows, refinement of `JobLifecycle`, what may reopen a job |
| `queue_late` | 1 training job, 2 workers, 3 attempts, late workers, `FairSpec` | one attempt row per claim, finished attempts stay final, every job still settles, a cancelled one for good |
| `queue_cancel_race` | 1 job, 2 workers | violation: a cancel request that is retried |
| `run_safe` | 1 run, 3 attempts, 2 crashes, `FairSpec` | evidence, cancellation and questions agree after every commit; only an answer, an unusable plan or an existing split plan lets the run split; the run treats its job as `MlJobQueue` says; the job settles |
| `run_answer_lost` | 2 attempts, no crash | violation: an answer that nobody resumes |
| `budget` | a turn with two calls and a batch, a month's and a run's counter, one new month, releases that may fail, `FairSpec` | `reserved` is what live holds have left, `spent` what was settled, calls under way fit their hold, only late charges exceed a limit, refinement of `BudgetBook`, a turn's hold is freed |
| `outbox` | 2 emails to one person under a cap of 1, a webhook, 2 workers, 2 attempts, 1 fault, `FairSpec` | a worker keeps its row until its lease ends, duplicates need a fault, row, log and receiver agree, the caps hold, every row ends |
| `schedule` | 2 workers, 2 files, weeks of two points, 1 crash or exception, `FairSpec` | slots are recorded once, forward and without silence, files are queued once and forward, what is due is handled |
| `schedule_file_lost` | 1 worker, 2 files | violation: a file that is never new |
| `improve_safe` | 1 loop, 2 tries, 2 final runs, 2 workers, 3 jobs at a time, 2 attempts each, late workers and lost hooks | a loop trains one model at a time and no try twice, the test set is used once and truly reported, a cancel holds, what waits can be accepted, the triggers accept every update |
| `improve_ends` | 1 loop, 1 try, a worker that may die or be late, steps that raise, 2 errors, 2 failures of a try, errors nobody records, `FairSpec` | a loop is never forgotten, every loop ends |
| `improve_errors` | 3 errors allowed, steps that raise | violation: three errors in a row and the loop goes on |

Bounds. Two workers are what a race needs. Three attempts are the program's
default (`DEFAULT_MAX_ATTEMPTS`), enough for a retry, a retry of the retry and
the exhausted claim. A second job matters where a worker chooses or a recovery
pass settles several rows. In the queue nothing else is bounded: resumes,
cancels, heartbeats and crashes may happen at any time, and the state space is
finite. In `AutoTrainRun`, `MaxCrashes` bounds the deaths of the worker and of
the answering API process together; two let a first one leave something half
done and a second one interrupt its repair. Expiry, cancellation, answers,
failures and exceptions in the handler are not bounded.

In `LlmBudget`, one hold with two calls and two attempts each is what the checks
of a hold race over, a second hold on the same counter shows what one must not
take from the other; estimates of 2 and worst cases of 1 let both calls, or one
with its retry, just fit, and limits of 3 and 2 refuse the batch beside the
turn. All counters exist beforehand (see the disagreements), and no call costs
more than its worst case (`Overrun = 0`). In `NotificationOutbox`, `Faults` counts
deaths under a claim, leases that end under a worker and lost answers; one is
enough for a second delivery. Old rows, pauses, toggles and leases left behind
are not bounded. Two attempts are a retry and the last; a breaker that opens at
the first failure pauses between them. Test deliveries (`Ping`), which are tried
once, are not in the instance. In `ScoringSchedule`, a clock to 3 with weeks of
two points has the slots 1 and 3, or 2, so a week that is handled, one that is missed
and one skipped for a later one; a clock one behind lets a save plan a slot
that was handled. Saves, refusals and uploads are not bounded but by the files.

In `ImproveLoop`, with two tries a try is accepted above another one, and with two
final runs one fails and the accepted try is chosen again. Two late workers with
two attempts of a job may be in the same step, one job further, or both. `Job`
bounds the step jobs that exist at a time: three where two workers may hold an old
one each, since with two the second of two steps could not arm another job and the
race would be cut off. `improve_safe` pays for this with one error and one failure
of a try, each of which ends the loop; `improve_ends`, where the fairness forbids
symmetry, has one worker, one try and one final run, two errors and two failures.
The proofs have no such limits. `MaxLive` matters with two loops only, which the
runs do not have: the workspace's cap (`WithinCap`) is proved, not run.
Cancels, errors, time, recoveries and lost hooks are not bounded.

Fairness, in the `FairSpec`s only. The worker loop goes on for ever: it catches
every exception of a pass and the supervisor restarts a dead process, so each
worker's pass is weakly fair. Clocks advance. Claims take due rows in the order
of priority, `available_at` and `queued_at`, and a requeued row goes to the end
of that order; with equal priorities a due row is passed over finitely often
only, which is the strong fairness of the claim. Nobody has to call the API, to
beat, to answer, to cancel or to crash. A handler is assumed to end.

In `LlmBudget` an owner and its calls go on as long as their process lives (a
call ends by its timeout), and a run whose owner died, has no reservation or has
left is looked at and ended: by its job's recovery, by the sweep of idle turns,
or by the owner itself. In `NotificationOutbox` workers go on ticking, and leases,
pauses and ages come to their end. In `ScoringSchedule` workers go on ticking;
besides, the other worker's short time under the row lock does not fall on the
gap of a rollback every time (strong fairness of `RecordAgain` with the row
unlocked): two workers that are refused week after week could otherwise skip
each other's record for ever, which needs them in step for ever.
In `ImproveLoop` workers go on, a queued job is claimed (strongly: recoveries and
drops come in between), hooks run, time passes, and a step is not killed or lost
every time it is tried (strong fairness of `Step`); a final run ends at last
because its job has `max_attempts`. A person never has to come, and a step may
raise as often as it likes.

`ImplementsQueue` is checked as a property of `run_safe`, and proved. Every place of the
handler maps to the queue's one `"handler"`, and the way the handler ended, with
the upload `execute_job` read, maps to one of the queue's endings (`QueueWorker`,
`EndingOf`). What the run does to its job is thereby something the queue module
allows, and what it does to the other tables is a stutter. Evaluated with a
requeue that does not ask whether the job was cancelled, it fails (see the
mutants).

### Disagreements

The code disagrees with its own words in ten places. Four have a violation run,
with the quotes and lines under "findings" in `PROJECT.json`:

- A cancel request committed between `execute_job`'s unlocked read and its flush
  is kept on the row but the job is retried (`queue_cancel_race`). The next
  failure or checkpoint still honours it: `CancelSettlesForGood` holds.
- An answer that arrives after the run parked and before its job was saved finds
  the job running, does not requeue it, and is not seen by the worker
  (`run_answer_lost`).
- A file whose upload began before a queued run and committed after it is never
  new: a dataset's `created_at` is the beginning of its transaction
  (`schedule_file_lost`).
- A step's first transaction resets the error count, so a second transaction that
  raises every time never stops the loop (`improve_errors`). Its wall budget does:
  `LoopsEnd` holds all the same.

The others are not kept as runs. TLC finds each from the configuration named:

- The answer and the requeue of a confirmation are two transactions
  (`execution_request_service.py:719`); a process that dies in between leaves a
  run that reads as working and whose job is over (`ConfirmationIsWhole`, in
  `MCAutoTrainRun_answer_lost.cfg` with `MaxCrashes = 1`).
- A waiting run with an explicit target is requeued whatever it waits for
  (`ml_job_service.py:707`), until it has no attempt left and fails with its
  question open (`ParkedRunsDoNotFail`, in the same file with `MaxAttempts = 1`).
- ADR 0008 says of a split that needs confirmation that "the run stops at
  `needs_input` **before** `run_holdout_lock`; nothing is split until a person
  answers" (`docs/adr/0008-hybrid-ai-decision-model.md:312`). A waiting run with an
  explicit target comes back by itself, and if its plan is then not usable
  (`decision_points.py:256-274`) or, as the ADR wants, another run's split plan
  dismisses the change (`plan_points.py:174`), it splits, scores the holdout and
  completes with the question open (`SplitWaitsForAnswer`, as a PROPERTY in the same
  file). The request still waits then, and an answer puts the completed run back
  into the queue.
  `NothingSplitUnconfirmed` is what is left of the promise: nothing else lets a run
  past its question.
- A release that fails is logged and not repeated (`gateway/service.py:501`);
  nobody ends the run of a job that completed, and its hold stays
  (`HoldsAreFreed`, in `MCLlmBudget.cfg` with `Turn = {}` and `Failing = {turn}`).
  In the `budget` run the owner of the hold is a turn, which the sweep ends.
- The hook of a step job that failed for good is the only one who arms the next
  (`loop_handler.py:525`). If it is lost, the loop stays live without a job, and
  its split plan has a live loop, until a person cancels it (`NeverStranded`, in
  `MCImproveLoop_safe.cfg`, where hooks are lost).
- Three step errors end a loop that is finalizing, whether or not its final run
  has begun the final test (`loop_handler.py:138`); the look is not recorded and
  the final run is not asked to stop (`LookRecorded`, in
  `MCImproveLoop_errors.cfg`). Errors of a loop that waits or finalizes are never
  reset, so the three need not be in a row.

Also not a run: with `Existing = {month}` in
`MCLlmBudget.cfg` TLC finds `ReservedIsHeld` violated: an ender looks up a run's
counters before the run's first reservation creates the last of them, and frees
the hold from those it found only. A counter that was there before keeps its
right sum then, too (`FoundCountersAreExact`). Two workers that send to one person at the
cap each count the other's row, and both emails are skipped although fewer than
the cap were sent (`domain/notifications.py` says that the cap was reached).
After a breaker's pause two workers may both try the endpoint that one delivery
was to try. A call whose row was finalized and whose settle failed is never
charged to `spent`. Reservations without a run stay when their owner dies.

More that the models reach and the code does not rule out: a worker whose lease
expired may complete a job that was requeued and cancelled meanwhile; a cancel
request after the final test stays on the job, and a later failure before the
lock cancels the run, although a comment in `auto_train/context.py` wants it
recorded; a run that failed between its final test
and its lock scores the holdout again on its next attempt (the proofs bound the
looks by the attempts, `LooksAreAttempts`); an interrupted attempt that read the
plan before the split was answered asks again; and `ClaimExhausted` fails the
job while the upload keeps its last stage.

## Proofs

`MlJobRowProofs` states what each assignment keeps of a row, what `OrmWrite`
leaves of the stored row when the flushed copy is stale, and what the two
statements on the attempts do. The next three rest on it.

`MlJobQueueProofs` proves for any numbers of jobs, workers and attempts, late
workers included: the types (`TypeCorrect`; `attempts` within
`0 .. MaxAttempts` says that no job is claimed more often than that), one
attempt row per claim (`OneAttemptPerClaimHolds`), that claims in use are
counted (`ClaimsAreCountedHolds`), that finished attempts
are final (`FinishedAttemptsStayFinal`) and that the number of attempts never
goes back (`AttemptsStay`). The invariant is `AlwaysInv`: the
ledger statement is not inductive alone, because a flush writes a row that was
computed from an older copy; one needs that a flush keeps the stored `attempts`
(`SavedRowKeepsAttempts`), that a row nobody inserted was never claimed, and
that a worker holds a claim the row has counted.

`MlJobQueueTimelyProofs` assumes `~LateWorkers`, which says that a lease
expires only when the claim's worker is gone. Its invariant `TimelyInv` adds
that the row of a job somebody executes is running under that worker's claim
with a fresh lease, and that the copy the worker loaded says the same
(`ExecutedRowsRun`, `LoadedRowsRun`). From it follow exclusive execution, the
open attempt, whole rows, `OnlyResumeReopens` and the refinement of
`JobLifecycle`.

`AutoTrainRunProofs` proves the types and the safety properties of `run_safe`, four
invariants and the action property `NothingSplitUnconfirmed`, for any bounds on attempts
and crashes. They are not inductive alone: that a split is stored and scored only when
its question is settled rests on what an attempt read many steps earlier, and that only locked runs read completed rests on how far the
handler is. `RunInv` adds, in parts that are proved one by one:

- `ExecutedRowRuns`: the row of a job that is executed is running, so neither
  an answer nor a cancel request requeues or settles it (`ExecutedStep`);
- `StagesInOrder`: each place of the handler says what was answered or dismissed,
  scored and locked by then, preserved because no step of any party takes an answer,
  a split plan, a look or a lock back (`NothingUnlearned`, `SettledStays`); with it
  `SplitStep` proves the action property;
- `HaltsHaveAsked`: a handler that returned from a halt has asked, which is what
  carries `RestingMeansAsking` over the unlocked read in `execute_job`;
- `LooksAreAttempts`, `EndingsAgree`: the test looks are among the attempts;
  only a handler that returned is saved as finished or parked.

It also proves `ImplementsQueue` (`RunImplementsQueue`). `QueueStep` takes the
run's actions one by one: each is one action of `MlJobQueue` for its only job
and its only worker (`Told` is the queue's `Heartbeat`, `ReadOutcome` its
`HandlerEnds` or `HandlerStops`), and the handler's own steps, a confirmation's
first transaction and its death are stutters. `RunInv` is not enough for the
guards: `ViewInv` adds that nobody is asked before the job is inserted, that an
inserted job is due, that the lease of an executed job is fresh, and that a
handler that ended was not told to stop.

`ScoringScheduleProofs` proves the types, the two invariants and `WeeksGoForward` for
any number of workers, files and versions, any length of the week and of the
catch-up. `SlotFacts` is the arithmetic of the code's slots: the slot of a moment
is the last one at the schedule's point of the week that is not after it. The
invariant `ScheduleInv` says what is relied on across the gaps:

- `RunsAreBehind`: no recorded slot is after the planned one, so a slot that is
  due is free or the planned slot itself. A save keeps it because its clock is at
  most one point behind the worker's (`Lag \in {0, 1}`); this is what the
  proof needs of the clocks, and all it needs;
- `QueuedFilesAreOld` and `PickIsNew`: a picked file came after every queued one,
  and stays so up to the commit, because `since` and the runs change only under
  the row lock;
- `HolderIsDue`: the schedule is still due for the worker that has the lock.

Each step is proved from `MoveKeeps` (a worker moves, the rows stay),
`RecordKeeps` and `AdvanceKeeps` (the two ways the rows change in a tick) or
`RestKeeps` (no worker moves).

`NotificationOutboxProofs` proves the types and the four invariants of `outbox`. A worker knows
of its row only what the claim told it, and the row may be taken from it once
its lease ends. `OutboxInv` says what the four places of one message (the row,
the worker at it, the log, the receiver) know of each other:

- `KeepsLease`: a worker that is in time has the row's token, so the result of
  any other claim is refused by the token and touches nothing;
- `RowIsCalm`: of a row that nothing disturbed, the message was received at most
  once, and then it is sent or its worker is about to say so;
- `RowIsTrue`: what is called sent, or about to be, was received; what was
  received and not lost is in the log, or about to be.

A step moves one worker at one row. `RowStays` and `OthersStay` carry everything
about the other rows, so each action is proved for the row it is about. The caps
need a second invariant, `RoomIsKept`: not the emails that are sent count but
those that are sent or whose answer will decide (`Speaks`), because a worker
checks the cap before it sends and writes after; its proof counts with the
theorems about finite sets.

`LlmBudgetProofs` proves the types, the four invariants of `budget` and that the tables
implement `BudgetBook`, for any finite sets of holds and calls, any counters and
all amounts. Nothing in the tables is a list of holds, so everything is about
sums over what one hold or one call contributes. Its first part has the facts
used of `Total`: it is a natural number, splits at an element, moves by as much
as one element moves, covers each element and grows with all. The
invariant has three layers, each proved above the one before:

- `RecordsInv`: which places of an owner, its hold, its calls and their rows go
  together; no row is dated after the counter it is charged to; an ender found
  every counter that was there beforehand (`EnderIsWhole`).
- `MoneyInv`: for each counter, `reserved` covers what the holds have left and is
  equal to it if enders always find the counter (`AlwaysFound`); `spent` is the
  sum of the charges in the counter's period; `spent + reserved` exceeds the
  limit by charges that came after their release only. A step that frees a part
  of one hold, from whoever it comes, is `HoldFrees`; the subtraction in the code
  stops at zero (`Less`), and that it never has to is part of what is proved.
- `CallsInv`: the calls of a hold together take no more than it holds, and a call
  between its check and its commit has room for what it asks, because at most
  one call of a hold is there at a time (the advisory lock).

Some theorems have a hypothesis on the constants. `CallsAlwaysFit` assumes
`Overrun = 0`: with a provider that reports more than the worst case the calls do
exceed their hold, and the code charges what was reported.
`OnlyLateChargesExceedAlways` assumes `HardStop`, without which the code does not
refuse anything. `ReservedIsHeldAlways` and `TablesKeepTheBook` assume
`CountersExist`, that the counters of a run are there before its first
reservation. That is not so for the first run charged to a new counter (see the
disagreements: without it the property is false), so `FoundCountersAreExact`
states what holds in every case: no counter ever shows less than its holds have
left, and every counter that was there before its runs shows exactly that.
`TypeCorrect` and `SpentIsSettledAlways` need no hypothesis.

The refinement maps a hold to `"new"`, `"open"` or `"closed"`, what it has left,
and the counters' `reserved`. `StepInBook` takes the actions one by one: a
reservation opens, a settle before the release spends, the first end of a hold
closes it, the end of a run that never held anything waives it, and every
later release, late settle, period change, crash or write of a row is a stutter.
`ImproveLoopProofs` proves the six invariants and the action property of the
`improve` runs, the types and the workspace's cap, for any sets of loops, workers and jobs, any numbers of tries,
errors, attempts and final runs, and any faults. The inductive invariant `Inv` has
four parts beside the types:

- `LoopsSound`: what a loop's three rows know of each other. Training nobody asked
  to stop belongs to the live try, there is at most one, and only a running loop has
  it; a try has one probe more than failures only while it is live or done; an
  incumbent and a chosen try are accepted; the look, `consulted` and the status
  agree; a loop that waits has an attempt left.
- `JobsSound`: a live loop has a continuation that is a job of its own, a queued job
  has an attempt left, and a worker that is done holds no loop's continuation. That
  is why a late worker's `complete_job`, which writes whatever became of the job,
  cannot end the job a loop waits for.
- `ProposeReady`: a step whose second transaction may still go on finds what its
  first one left, because every other step of the loop has taken its continuation
  away (`MayStep` of the old job fails). Without it `OneTraining` and
  `NoProbeTwice` are not inductive: `_propose` does not look at the probe again.
- `WithinCap`, with the theorems about finite sets.

Every step changes the rows of one loop, or jobs and workers only. `Rearmed`,
`Finished`, `Touched` and `Elsewhere` carry the invariant through the four ways it
does so (a loop is armed, is finished, changes its rows only, does not change);
what is left of each action is a statement about one loop's rows (`HaltedSound`,
`EndSound`, `WaitSound`, `GoingSound`, `SettledSound`, `ProposedRow`). `Carried` has
the hypothesis that no hook is lost; with lost hooks the property is false (see
the disagreements). All other theorems hold with every fault. `OneTraining` and
the others do not assume that workers are in time.

The prover expands an `@` inside an inner `EXCEPT` of an outer one's `@` wrongly, so
`ImproveLoop` writes `[f EXCEPT ![l] = [f[l] EXCEPT !.x = @ + 1]]`.

The constants' assumptions are `MaxAttempts \in Nat \ {0}` (`_max_attempts`
never returns less than one), `MaxCrashes \in Nat`, that training jobs are jobs,
that `LateWorkers` is a Boolean, and that `NoJob` is no job; for the schedule
`NumberAssumption`; for the outbox `RowAssumption` (emails and hooks are
different rows, and there are finitely many emails, since they are counted) and
`NumberAssumption`; for the budget `HoldAssumption` and `AmountAssumption` (types)
and `FiniteAssumption` (finitely many holds and calls, since they are summed);
for the improve loop `ImproveAssumption` (finitely many loops, since they are
counted, `NoJob` is no job, the limits are positive).
Nothing assumes finitely many jobs, workers, files or counters.

Every invariant, every action property and all three refinements that the
passing runs check (`ImplementsLifecycle`, `ImplementsQueue`, `ImplementsBook`)
are proved, under the hypotheses named above. Only model-checked: the liveness
properties (`JobsSettle`, `CancelSettlesForGood`, `RunSettles`, `HoldsAreFreed`,
`RowsSettle`, `DueIsHandled`, `LoopsEnd`; fairness and `ENABLED` are out of the proof system's
reach), and the counterexamples of the violation runs. Only proved, and not among the
runs: the types of all modules but the queue's, `ClaimsAreCounted`,
`AttemptsNeverGoBack`, `WithinCap`, and the inductive invariants with their parts.

## What is not modelled

- Of the queue: `ensure_run_capacity`; the per-job commits inside
  `recover_abandoned_jobs` (`_record_cancelled_run`); what
  `_sync_batch_prediction`, `_notify_terminal` and `_after_terminal` do to other
  tables; the priority order (any due row may be taken, which allows more
  behaviours). A crash before the claim is only a late pass. A deadlock victim
  is a crash of the pass.
- Of the training run, the budget, the outbox, the schedule and the improve loop:
  see "Left out" above.
- The components marked `not_modelled` in `PROJECT.json`, each with its reason.

## Plan

The queue, the training run, the budget, the outbox, the schedule and the improve
loop are done. Worth doing next, in this order:

1. `RunCapacity`: admission under the advisory lock, with the callers that
   commit early.
2. `ProjectRefs`, `BatchPrediction`, `Sessions`: compare-and-set moves, a row in
   step with its job, the session cap.
3. `ImproveLoop` composed with `JobLifecycle`: its step jobs and its probes are jobs of
   the queue, and so far it states what the queue does to them itself.

Proofs still worth writing about what exists: what `FoundCountersAreExact` leaves
open, namely by how much a new counter can be off; `CancelRequestedNeverRetried`
restricted to cancels seen at the read; and that a job cancelled after its run
was locked never changes the evidence, as an action property of `AutoTrainRun`.
