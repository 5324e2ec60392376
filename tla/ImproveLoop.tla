----------------------------- MODULE ImproveLoop -----------------------------
(***************************************************************************)
(* The improve loop: app/services/improve/service.py and loop_handler.py,  *)
(* with what the job queue (ml_job_service.py) does to its jobs.           *)
(*                                                                         *)
(*   tables   improve_runs          loop, final                            *)
(*            improve_iterations    try                                    *)
(*            ml_jobs               job (labs.improve); the jobs of probes *)
(*                                  and final runs are in try and final    *)
(*   parties  workers that step a loop, the queue that recovers their jobs,*)
(*            training workers, and the people who accept and cancel.      *)
(*                                                                         *)
(* A loop advances by steps, each of them a job that the step before armed.*)
(* Only the job the loop names as its continuation may step it.  A step is *)
(* one transaction, or two when it starts a probe (`step', `propose'), and *)
(* its worker may be late: the queue gives a running job up at any time,   *)
(* whether its worker lives or not.  Every action is one transaction.      *)
(*                                                                         *)
(* Abstracted: verdicts, stop rules that weigh evidence, authority and the *)
(* answers of branch_experiment are choices; a job's available_at is left  *)
(* out (it may be claimed early, and a step that comes early re-arms); a   *)
(* try has one entry for its first attempt and its repetition; iteration 0 *)
(* (recorded, never live) is left out.  Leases of training jobs are timely.*)
(***************************************************************************)
EXTENDS Naturals, FiniteSets

CONSTANTS
    Loop, Worker,
    Job, NoJob,      \* the jobs that may exist at a time; a finished one is used again
    Tries,           \* the retraining tries of a plan are 1 .. Tries, in order
    MaxLive,         \* MAX_LIVE_IMPROVE_RUNS_PER_WORKSPACE
    MaxStepErrors,   \* MAX_STEP_ERRORS
    MaxFailures,     \* MAX_FAILURES_PER_TRY
    MaxFinal,        \* MAX_FINAL_ATTEMPTS
    MaxAttempts,     \* a job's max_attempts
    Faults           \* what may go wrong

ASSUME ImproveAssumption ==
    /\ IsFiniteSet(Loop)
    /\ NoJob \notin Job
    /\ {MaxStepErrors, MaxFailures, MaxFinal, MaxAttempts} \subseteq Nat \ {0}
    /\ {Tries, MaxLive} \subseteq Nat
    /\ Faults \subseteq {"raise",      \* a step raises
                        "unrecorded", \* and its error cannot be recorded either
                        "death",      \* a worker dies
                        "late",       \* the queue gives up the job of a living worker
                        "lost_hook"}  \* a process dies between a commit and its hook

VARIABLES
    loop,     \* status, incumbent (0: the start), continuation, errors, ...
    try,      \* the tries of every loop, with the job of the probe
    final,    \* attempts, the accepted try, the job and the look of the final run
    job,      \* the labs.improve jobs
    owed,     \* failed jobs whose terminal hook has not run yet
    worker,   \* where every worker is, with the job it claimed
    inRow     \* history: how many steps of the loop raised in a row

vars == <<loop, try, final, job, owed, worker, inRow>>

-----------------------------------------------------------------------------
Terminal == {"completed", "failed", "cancelled"}
Live == {"queued", "running", "waiting", "finalizing"}
Capped == {"queued", "running", "finalizing"}
Status == {"none"} \cup Live \cup Terminal

Try == 1 .. Tries
Active == {"queued", "running"}
JobState == {"none", "completed", "failed", "cancelled"} \cup Active

LoopRow == [status : Status, incumbent : 0 .. Tries, cont : Job \cup {NoJob},
            errors : 0 .. MaxStepErrors, cancel : BOOLEAN, consulted : BOOLEAN,
            overdue : BOOLEAN]
TryStatus == {"open", "planned", "running", "accepted", "rejected", "failed", "cancelled"}
TryRow == [status : TryStatus, fails : 0 .. MaxFailures, probes : 0 .. MaxFailures,
           job : JobState, cancel : BOOLEAN]
FinalRow == [attempts : 0 .. MaxFinal, chosen : 0 .. Tries, job : JobState, cancel : BOOLEAN,
             looked : BOOLEAN, looks : 0 .. MaxFinal]
StepJob == [loop : Loop, status : {"free", "queued", "running", "ended", "failed"},
            attempts : 0 .. MaxAttempts]

NewLoop == [status |-> "none", incumbent |-> 0, cont |-> NoJob, errors |-> 0,
            cancel |-> FALSE, consulted |-> FALSE, overdue |-> FALSE]
NewTry == [status |-> "open", fails |-> 0, probes |-> 0, job |-> "none", cancel |-> FALSE]
NoFinal == [attempts |-> 0, chosen |-> 0, job |-> "none", cancel |-> FALSE,
            looked |-> FALSE, looks |-> 0]

Init ==
    /\ loop = [l \in Loop |-> NewLoop]
    /\ try = [l \in Loop |-> [t \in Try |-> NewTry]]
    /\ final = [l \in Loop |-> NoFinal]
    /\ job \in [Job -> [loop : Loop, status : {"free"}, attempts : {0}]]
    /\ owed = {}
    /\ worker = [w \in Worker |-> [pc |-> "idle", job |-> NoJob]]
    /\ inRow = [l \in Loop |-> 0]

-----------------------------------------------------------------------------
(* request_job_cancellation, for the job of a probe or a final run.        *)
Asked(r) == [r EXCEPT !.job = IF @ = "queued" THEN "cancelled" ELSE @,
                      !.cancel = @ \/ r.job = "running"]

LiveTry(r) == r.status \in {"planned", "running"}

(* Wrong: a stop leaves the probe alone. *)
HaltedOnly(ts) == [t \in Try |-> IF LiveTry(ts[t]) THEN [ts[t] EXCEPT !.status = "cancelled"]
                                 ELSE ts[t]]

(* cancel_live_iteration: a stop cancels the live try and its probe.       *)
Halted(ts) == [t \in Try |-> IF LiveTry(ts[t]) THEN [Asked(ts[t]) EXCEPT !.status = "cancelled"]
                             ELSE ts[t]]

(* The id of a new job: one that nobody knows.                              *)
Fresh == {j \in Job : /\ job[j].status \notin Active
                      /\ j \notin owed
                      /\ \A l \in Loop : loop[l].cont # j
                      /\ \A w \in Worker : worker[w].job # j}

(* _drop_continuation: a queued earlier one is cancelled, unless it is the *)
(* job of the step.                                                        *)
Dropped(l, keep) ==
    [j \in Job |-> IF j = loop[l].cont /\ j # keep /\ job[j].status = "queued"
                   THEN [job[j] EXCEPT !.status = "ended"] ELSE job[j]]

(* arm: the row becomes r, with a new continuation.                        *)
Arm(l, keep, r) ==
    \E n \in Fresh :
        /\ job' = [Dropped(l, keep) EXCEPT ![n] = [loop |-> l, status |-> "queued", attempts |-> 0]]
        /\ loop' = [loop EXCEPT ![l] = [r EXCEPT !.cont = n]]

(* finish                                                                  *)
Finish(l, keep, r, status, ts) ==
    /\ job' = Dropped(l, keep)
    /\ loop' = [loop EXCEPT ![l] = [r EXCEPT !.status = status, !.cont = NoJob]]
    /\ try' = [try EXCEPT ![l] = Halted(ts)]

(* wait_for_person                                                         *)
WaitForPerson(l, keep, r, ts) ==
    /\ Arm(l, keep, [r EXCEPT !.status = "waiting", !.overdue = FALSE])
    /\ try' = [try EXCEPT ![l] = Halted(ts)]

-----------------------------------------------------------------------------
(* The queue and its workers.                                              *)

Claim(w, j) ==
    /\ worker[w].pc = "idle"
    /\ job[j].status = "queued"
    /\ job' = [job EXCEPT ![j].status = "running", ![j].attempts = @ + 1]
    /\ worker' = [worker EXCEPT ![w] = [pc |-> "step", job |-> j]]
    /\ UNCHANGED <<loop, try, final, owed, inRow>>

(* _apply_failure: again, or failed for good.                              *)
Failure(j) ==
    IF job[j].attempts < MaxAttempts
    THEN job' = [job EXCEPT ![j].status = "queued"] /\ owed' = owed
    ELSE job' = [job EXCEPT ![j].status = "failed"] /\ owed' = owed \cup {j}

(* The handler did not return: the error could not be recorded either.     *)
HandlerFails(w) ==
    /\ "unrecorded" \in Faults
    /\ worker[w].pc \in {"step", "propose"}
    /\ Failure(worker[w].job)
    /\ worker' = [worker EXCEPT ![w] = [pc |-> "idle", job |-> NoJob]]
    /\ UNCHANGED <<loop, try, final, inRow>>

(* recover_abandoned_jobs                                                  *)
Recover(j) ==
    /\ job[j].status = "running"
    /\ "late" \in Faults \/ \A w \in Worker : worker[w].job # j
    /\ Failure(j)
    /\ UNCHANGED <<loop, try, final, worker, inRow>>

(* complete_job, whatever became of the job meanwhile.                     *)
Return(w) ==
    /\ worker[w].pc = "done"
    /\ job' = [job EXCEPT ![worker[w].job].status = "ended"]
    /\ worker' = [worker EXCEPT ![w] = [pc |-> "idle", job |-> NoJob]]
    /\ UNCHANGED <<loop, try, final, owed, inRow>>

Crash(w) ==
    /\ "death" \in Faults
    /\ worker[w].pc # "idle"
    /\ worker' = [worker EXCEPT ![w] = [pc |-> "idle", job |-> NoJob]]
    /\ UNCHANGED <<loop, try, final, job, owed, inRow>>

More(n) == IF n < MaxStepErrors THEN n + 1 ELSE n

(* Wrong: only a loop that is queued or running is armed again. *)
HeardByRunning(l, j) ==
    job[j].status = "failed" /\ loop[l].cont = j /\ loop[l].status \in {"queued", "running"}

(* on_job_terminal, for a step job that failed for good.                   *)
Heard(l, j) == job[j].status = "failed" /\ loop[l].cont = j /\ loop[l].status \in Live

Hook(j) ==
    /\ j \in owed
    /\ owed' = owed \ {j}
    /\ LET l == job[j].loop
           r == [loop[l] EXCEPT !.errors = More(@)]
       IN  IF Heard(l, j)
           THEN IF r.errors >= MaxStepErrors /\ r.status \in {"queued", "running"}
                THEN Finish(l, NoJob, r, "failed", try[l])
                ELSE Arm(l, NoJob, r) /\ UNCHANGED try
           ELSE UNCHANGED <<loop, try, job>>
    /\ UNCHANGED <<final, worker, inRow>>

LoseHook(j) ==
    /\ "lost_hook" \in Faults
    /\ j \in owed
    /\ owed' = owed \ {j}
    /\ UNCHANGED <<loop, try, final, job, worker, inRow>>

-----------------------------------------------------------------------------
(* A step.                                                                 *)

(* Wrong: any job of the loop may step it. *)
MayStepAnyJob(w, l) ==
    /\ worker[w].job # NoJob
    /\ job[worker[w].job].loop = l
    /\ loop[l].status \in Live

(* _locked                                                                 *)
MayStep(w, l) ==
    /\ worker[w].job # NoJob
    /\ job[worker[w].job].loop = l
    /\ loop[l].cont = worker[w].job
    /\ loop[l].status \in Live

At(w, pc) == worker[w].pc = pc
Goes(w, pc) == worker' = [worker EXCEPT ![w].pc = pc]

(* A stale job does nothing.                                               *)
Miss(w) ==
    /\ At(w, "step") \/ At(w, "propose")
    /\ \A l \in Loop : MayStep(w, l) => At(w, "propose") /\ loop[l].status # "running"
    /\ Goes(w, "done")
    /\ UNCHANGED <<loop, try, final, job, owed, inRow>>

(* _record_step_error, after what the step did was rolled back.            *)
StepRaises(w, l) ==
    /\ "raise" \in Faults
    /\ At(w, "step") \/ At(w, "propose")
    /\ MayStep(w, l)
    /\ LET r == [loop[l] EXCEPT !.errors = More(@)]
       IN  IF r.errors >= MaxStepErrors
           THEN Finish(l, worker[w].job, r, "failed", try[l])
           ELSE Arm(l, worker[w].job, r) /\ UNCHANGED try
    /\ inRow' = [inRow EXCEPT ![l] = More(@)]
    /\ Goes(w, "done")
    /\ UNCHANGED <<final, owed>>

Succeeds(w, l) == Goes(w, "done") /\ inRow' = [inRow EXCEPT ![l] = 0]

(* Wrong: the wait does not expire. *)
StepWaitingForever(w, l) ==
    /\ loop[l].status = "waiting"
    /\ Arm(l, worker[w].job, loop[l])
    /\ UNCHANGED try
    /\ Succeeds(w, l)

(* _waiting                                                                *)
StepWaiting(w, l) ==
    /\ loop[l].status = "waiting"
    /\ IF loop[l].overdue THEN Finish(l, worker[w].job, loop[l], "completed", try[l])
       ELSE Arm(l, worker[w].job, loop[l]) /\ UNCHANGED try
    /\ Succeeds(w, l)

(* Wrong: a final run that failed after its final test is no look. *)
LookedIfCompleted(f) == f.job = "completed"

(* _finalizing: the final run has ended.                                   *)
Looked(f) == f.looked

(* Wrong: a person's cancel is not looked at. *)
AfterFinalUncancelled(r, f) ==
    CASE Looked(f) -> "completed"
      [] ~Looked(f) /\ f.attempts >= MaxFinal -> "failed"
      [] OTHER -> "waiting"

(* Wrong: one attempt more. *)
AfterFinalOnceMore(r, f) ==
    CASE Looked(f) -> "completed"
      [] ~Looked(f) /\ r.cancel -> "cancelled"
      [] ~Looked(f) /\ ~r.cancel /\ f.attempts > MaxFinal -> "failed"
      [] OTHER -> "waiting"

AfterFinal(r, f) ==
    CASE Looked(f) -> "completed"
      [] ~Looked(f) /\ r.cancel -> "cancelled"
      [] ~Looked(f) /\ ~r.cancel /\ f.attempts >= MaxFinal -> "failed"
      [] OTHER -> "waiting"

StepFinalizing(w, l) ==
    LET keep == worker[w].job
        after == AfterFinal(loop[l], final[l])
        r == [loop[l] EXCEPT !.consulted = @ \/ Looked(final[l])]
    IN  /\ loop[l].status = "finalizing"
        /\ \/ /\ final[l].job \in Active
              /\ Arm(l, keep, loop[l])
              /\ UNCHANGED try
           \/ /\ final[l].job \notin Active
              /\ IF after = "waiting" THEN WaitForPerson(l, keep, r, try[l])
                 ELSE Finish(l, keep, r, after, try[l])
        /\ Succeeds(w, l)

(* next_try: the first planned try that is not done.                       *)
Done == {"accepted", "rejected", "cancelled"}
NextTry(ts) == {t \in Try : /\ ts[t].status \notin Done
                            /\ \A u \in 1 .. t - 1 : ts[u].status \in Done}
FailedTwice(ts) == \E t \in NextTry(ts) : ts[t].fails >= MaxFailures

(* The incumbent the accepted try i was branched from.                     *)
Base(ts, i) == {b \in 0 .. Tries :
    /\ b # 0 => ts[b].status = "accepted" /\ b < i
    /\ \A u \in Try : ts[u].status = "accepted" /\ u < i => u <= b}

(* _settle: the try t with an ended probe gets the verdict v.              *)
Verdicts(state) == CASE state = "completed" -> {"accepted", "rejected"}
                     [] state = "cancelled" -> {"cancelled"}
                     [] OTHER -> {"failed"}
Settled(r, v) == [r EXCEPT !.status = v, !.fails = IF v = "failed" THEN @ + 1 ELSE @]

(* stop_reason and _stop, when the rows have become r and ts.              *)
StopOrPropose(w, l, r, ts) ==
    LET keep == worker[w].job
    IN  \/ /\ FailedTwice(ts)
           /\ Finish(l, keep, r, "failed", ts)
           /\ Succeeds(w, l)
        \/ /\ ~FailedTwice(ts)     \* blocking_finding
           /\ \E i \in Base(ts, r.incumbent) :
                  Finish(l, keep, [r EXCEPT !.incumbent = i], "completed", ts)
           /\ Succeeds(w, l)
        \/ /\ ~FailedTwice(ts)     \* goal_met .. proposer_exhausted
           /\ IF r.incumbent # 0 THEN WaitForPerson(l, keep, r, ts)
              ELSE Finish(l, keep, r, "completed", ts)
           /\ Succeeds(w, l)
        \/ /\ ~FailedTwice(ts)
           /\ NextTry(ts) # {}
           /\ ~r.overdue
           /\ loop' = [loop EXCEPT ![l] = r]
           /\ try' = [try EXCEPT ![l] = ts]
           /\ Goes(w, "propose")
           /\ UNCHANGED <<job, inRow>>

(* The probe of the live try still runs.                                   *)
StepProbing(w, l, r) ==
    /\ IF ~r.overdue THEN Arm(l, worker[w].job, r) /\ UNCHANGED try
       ELSE IF r.incumbent # 0 THEN WaitForPerson(l, worker[w].job, r, try[l])
       ELSE Finish(l, worker[w].job, r, "completed", try[l])
    /\ Succeeds(w, l)

(* step and _evaluate, for a loop that is queued or running.               *)
StepRunning(w, l) ==
    LET r == [loop[l] EXCEPT !.status = "running", !.errors = 0]
        probing == {t \in Try : try[l][t].status = "running"}
    IN  /\ loop[l].status \in {"queued", "running"}
        /\ \/ /\ Finish(l, worker[w].job, r, "cancelled", try[l])     \* authority_revoked
              /\ Succeeds(w, l)
           \/ /\ probing = {}
              /\ StopOrPropose(w, l, r, try[l])
           \/ \E t \in probing :
              /\ try[l][t].job \in Active
              /\ StepProbing(w, l, r)
           \/ \E t \in probing : \E v \in Verdicts(try[l][t].job) :
              /\ try[l][t].job \notin Active
              /\ StopOrPropose(w, l, IF v = "accepted" THEN [r EXCEPT !.incumbent = t] ELSE r,
                               [try[l] EXCEPT ![t] = Settled(@, v)])

Step(w, l) ==
    /\ At(w, "step")
    /\ MayStep(w, l)
    /\ StepWaiting(w, l) \/ StepFinalizing(w, l) \/ StepRunning(w, l)
    /\ UNCHANGED <<final, owed>>

(* _propose: the live try that a quota refused, or the next one.  Phase 1  *)
(* left one of them, and no probe that runs (ProposeReady).                *)
ToPropose(ts) == IF \E t \in Try : LiveTry(ts[t]) THEN {t \in Try : LiveTry(ts[t])} ELSE NextTry(ts)

Planned(r) == [r EXCEPT !.status = "planned", !.job = "none", !.cancel = FALSE]
Probed(r) == [r EXCEPT !.status = "running", !.job = "queued", !.probes = @ + 1]

Propose(w, l) ==
    /\ At(w, "propose")
    /\ MayStep(w, l)
    /\ loop[l].status = "running"
    /\ \/ Finish(l, worker[w].job, loop[l], "cancelled", try[l])    \* authority_revoked
       \/ \E t \in ToPropose(try[l]) :
          \* a probe was created, a quota refused it, or branch_experiment did
          /\ \E r \in LET planned == Planned(try[l][t])
                      IN  {Probed(planned), planned, Settled(planned, "failed")} :
                 try' = [try EXCEPT ![l] = [@ EXCEPT ![t] = r]]
          /\ Arm(l, worker[w].job, loop[l])
    /\ Succeeds(w, l)
    /\ UNCHANGED <<final, owed>>

-----------------------------------------------------------------------------
(* People, time and training.                                              *)

CappedLoops == {l \in Loop : loop[l].status \in Capped}

(* Under the advisory lock ml-runs:<workspace>.                            *)
Room(l) == Cardinality(CappedLoops \ {l}) < MaxLive

(* start_improve_run                                                       *)
Start(l) ==
    /\ loop[l].status = "none"
    /\ Room(l)
    /\ Arm(l, NoJob, [loop[l] EXCEPT !.status = "queued"])
    /\ UNCHANGED <<try, final, owed, worker, inRow>>

(* cancel_improve_run                                                      *)
CancelLoop(l) ==
    /\ loop[l].status \in Live
    /\ LET r == [loop[l] EXCEPT !.cancel = TRUE]
       IN  IF r.status = "finalizing"
           THEN /\ loop' = [loop EXCEPT ![l] = r]
                /\ final' = [final EXCEPT ![l] = Asked(@)]
                /\ UNCHANGED <<try, job>>
           ELSE Finish(l, NoJob, r, "cancelled", try[l]) /\ UNCHANGED final
    /\ UNCHANGED <<owed, worker, inRow>>

(* Wrong: another try may be accepted for the next final run. *)
AcceptAny(l, t) ==
    /\ loop[l].status = "waiting"
    /\ Room(l)
    /\ final[l].attempts < MaxFinal
    /\ try[l][t].status = "accepted"
    /\ final' = [final EXCEPT ![l] =
           [final[l] EXCEPT !.attempts = @ + 1, !.chosen = t, !.job = "queued",
                            !.cancel = FALSE, !.looked = FALSE]]
    /\ Arm(l, NoJob, [loop[l] EXCEPT !.status = "finalizing", !.incumbent = t, !.overdue = FALSE])
    /\ UNCHANGED <<try, owed, worker, inRow>>

(* accept_improve_run, of the try t                                        *)
Accept(l, t) ==
    /\ loop[l].status = "waiting"
    /\ Room(l)
    /\ final[l].chosen \in {0, t}
    /\ final[l].attempts < MaxFinal
    /\ try[l][t].status = "accepted"
    /\ final' = [final EXCEPT ![l] =
           [final[l] EXCEPT !.attempts = @ + 1, !.chosen = t, !.job = "queued",
                            !.cancel = FALSE, !.looked = FALSE]]
    /\ Arm(l, NoJob, [loop[l] EXCEPT !.status = "finalizing", !.incumbent = t, !.overdue = FALSE])
    /\ UNCHANGED <<try, owed, worker, inRow>>

(* accept_improve_run, keep_current                                        *)
Keep(l) ==
    /\ loop[l].status = "waiting"
    /\ Finish(l, NoJob, [loop[l] EXCEPT !.incumbent = 0], "completed", try[l])
    /\ UNCHANGED <<final, owed, worker, inRow>>

(* The wall budget is used up, or the wait has expired.                    *)
TimePasses(l) ==
    /\ loop[l].status \in {"running", "waiting"}
    /\ ~loop[l].overdue
    /\ loop' = [loop EXCEPT ![l] = [@ EXCEPT !.overdue = TRUE]]
    /\ UNCHANGED <<try, final, job, owed, worker, inRow>>

(* What the queue does with a training job: it starts, and completes,      *)
(* fails, is tried again or, once asked, is cancelled.                     *)
Trained(r) ==
    CASE r.job = "queued" -> {"running"}
      [] r.job = "running" /\ r.cancel -> {"completed", "cancelled"}
      [] r.job = "running" /\ ~r.cancel -> {"completed", "failed", "queued"}
      [] OTHER -> {}

Probe(l, t) ==
    /\ \E s \in Trained(try[l][t]) :
           try' = [try EXCEPT ![l] = [try[l] EXCEPT ![t] = [try[l][t] EXCEPT !.job = s]]]
    /\ UNCHANGED <<loop, final, job, owed, worker, inRow>>

(* The final test of the final run starts.                                 *)
Look(l) ==
    /\ final[l].job = "running"
    /\ ~final[l].looked
    /\ final' = [final EXCEPT ![l] = [final[l] EXCEPT !.looked = TRUE, !.looks = @ + 1]]
    /\ UNCHANGED <<loop, try, job, owed, worker, inRow>>

FinalRun(l) ==
    /\ \E s \in Trained(final[l]) :
           /\ s = "completed" => final[l].looked
           /\ final' = [final EXCEPT ![l] = [@ EXCEPT !.job = s]]
    /\ UNCHANGED <<loop, try, job, owed, worker, inRow>>

(* cancel_experiment, of a probe or of the final run.                      *)
CancelProbe(l, t) ==
    /\ try[l][t].job \in Active
    /\ ~try[l][t].cancel
    /\ try' = [try EXCEPT ![l] = [try[l] EXCEPT ![t] = Asked(@)]]
    /\ UNCHANGED <<loop, final, job, owed, worker, inRow>>

CancelFinal(l) ==
    /\ final[l].job \in Active
    /\ ~final[l].cancel
    /\ final' = [final EXCEPT ![l] = Asked(@)]
    /\ UNCHANGED <<loop, try, job, owed, worker, inRow>>

-----------------------------------------------------------------------------
Works(w) ==
    \/ Miss(w) \/ Return(w) \/ Crash(w) \/ HandlerFails(w)
    \/ \E j \in Job : Claim(w, j)
    \/ \E l \in Loop : Step(w, l) \/ Propose(w, l) \/ StepRaises(w, l)

Queue(j) == Recover(j) \/ Hook(j) \/ LoseHook(j)

Outside(l) ==
    \/ Start(l) \/ CancelLoop(l) \/ Keep(l) \/ TimePasses(l)
    \/ Look(l) \/ FinalRun(l) \/ CancelFinal(l)
    \/ \E t \in Try : Accept(l, t) \/ Probe(l, t) \/ CancelProbe(l, t)

Next == (\E w \in Worker : Works(w)) \/ (\E j \in Job : Queue(j)) \/ (\E l \in Loop : Outside(l))

Spec == Init /\ [][Next]_vars

(* Workers go on: a job that is queued again and again is claimed, a step  *)
(* is not killed or lost every time, hooks run and time passes.  A final    *)
(* run is not tried again forever (its job's max_attempts).                *)
Fairness ==
    /\ \A j \in Job : /\ SF_vars(\E w \in Worker : Claim(w, j))
                      /\ WF_vars(Recover(j))
                      /\ WF_vars(Hook(j))
    /\ \A w \in Worker : WF_vars(Works(w))
    /\ \A l \in Loop : /\ SF_vars(\E w \in Worker : Step(w, l))
                       /\ WF_vars(TimePasses(l))
                       /\ WF_vars(FinalRun(l))
                       /\ SF_vars(FinalRun(l) /\ final[l]'.job \notin Active)

FairSpec == Spec /\ Fairness

-----------------------------------------------------------------------------
TypeOK ==
    /\ loop \in [Loop -> LoopRow]
    /\ try \in [Loop -> [Try -> TryRow]]
    /\ final \in [Loop -> FinalRow]
    /\ job \in [Job -> StepJob]
    /\ owed \subseteq Job
    /\ worker \in [Worker -> [pc : {"idle", "step", "propose", "done"}, job : Job \cup {NoJob}]]
    /\ inRow \in [Loop -> 0 .. MaxStepErrors]

(* A live loop is not forgotten: its continuation will run, or failed for  *)
(* good and its hook has yet to arm another one.                           *)
NeverStranded ==
    \A l \in Loop : loop[l].status \in Live =>
        \E j \in Job : /\ loop[l].cont = j
                       /\ job[j].loop = l
                       /\ \/ job[j].status \in Active
                          \/ job[j].status = "failed" /\ j \in owed

(* Training that nobody asked to stop; 0 is the final run.                 *)
Wanted(l) ==
    {t \in Try : try[l][t].job \in Active /\ ~try[l][t].cancel}
        \cup {t \in {0} : final[l].job \in Active /\ ~final[l].cancel}

(* A loop trains one model at a time, whichever workers step it, and only  *)
(* a loop that runs trains a probe: every stop asks the probe to stop.     *)
OneTraining ==
    \A l \in Loop :
        /\ \A t, u \in Wanted(l) : t = u
        /\ loop[l].status # "running" => Wanted(l) \subseteq {0}

(* A try is trained again only after its training failed or was refused.   *)
NoProbeTwice == \A l \in Loop, t \in Try : try[l][t].probes <= try[l][t].fails + 1

(* The test set is used once for a loop, for a try a person accepted, and  *)
(* a loop that ends says so truly, unless its steps failed.                *)
TestSetOnce ==
    \A l \in Loop :
        /\ final[l].looks <= 1
        /\ final[l].looks = 1 => try[l][final[l].chosen].status = "accepted"
        /\ loop[l].status \in {"completed", "cancelled"} =>
               (loop[l].consulted <=> final[l].looks = 1)

(* What a person cancelled stays cancelled: it never waits for a person    *)
(* again, and completes only because the test set had been used.           *)
CancelHolds ==
    \A l \in Loop : loop[l].cancel =>
        \/ loop[l].status \in {"finalizing", "cancelled", "failed"}
        \/ loop[l].status = "completed" /\ loop[l].consulted

(* A loop waits for a person only with something to accept: an accepted    *)
(* try, the one chosen before if there was one, and an attempt left.       *)
WaitingCanBeAccepted ==
    \A l \in Loop : loop[l].status = "waiting" =>
        /\ final[l].attempts < MaxFinal
        /\ \E t \in Try : try[l][t].status = "accepted" /\ final[l].chosen \in {0, t}

(* The workspace's cap holds, also when a loop that waited runs again.     *)
WithinCap == Cardinality(CappedLoops) <= MaxLive

(* No step attempts an update that the triggers of the tables refuse:      *)
(* guard_improve_run_update and guard_improve_iteration_update.            *)
Transition ==
    {<<"none", "queued">>}
        \cup {"queued"} \X ({"running"} \cup Terminal)
        \cup {"running"} \X ({"waiting"} \cup Terminal)
        \cup {"waiting"} \X ({"finalizing"} \cup Terminal)
        \cup {"finalizing"} \X ({"waiting"} \cup Terminal)

RunAccepted(l) ==
    /\ loop[l]'.status # loop[l].status => <<loop[l].status, loop[l]'.status>> \in Transition
    /\ loop[l].status \in Terminal => loop[l]' = loop[l]
    /\ final[l].chosen # 0 => final[l]'.chosen = final[l].chosen
    /\ loop[l].consulted => loop[l]'.consulted
    /\ final[l]'.attempts \in {final[l].attempts, final[l].attempts + 1}

TryAccepted(l, t) ==
    try[l][t].status \in Done => try[l]'[t].status = try[l][t].status

TriggersAccept == [][\A l \in Loop : RunAccepted(l) /\ \A t \in Try : TryAccepted(l, t)]_vars

(* Every loop ends, whatever workers and people do.                        *)
LoopsEnd == \A l \in Loop : loop[l].status \in Live ~> loop[l].status \in Terminal

(* "a step error re-arms the loop; three in a row stop it"                 *)
ErrorsInRowStop == \A l \in Loop : inRow[l] >= MaxStepErrors => loop[l].status \in Terminal

(* A loop whose final run had begun the final test ends with the look      *)
(* recorded: promised, but not kept when its steps fail (README).          *)
LookRecorded ==
    \A l \in Loop : loop[l].status \in Terminal /\ final[l].looked => loop[l].consulted

=============================================================================
