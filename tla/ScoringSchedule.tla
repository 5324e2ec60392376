--------------------------- MODULE ScoringSchedule ---------------------------
(***************************************************************************)
(* Weekly scheduled scoring of one project:                                *)
(* app/services/scoring_schedule_service.py, with the part of              *)
(* create_batch_prediction that can refuse and the uploads it reads.       *)
(*                                                                         *)
(*   tables   scoring_schedules       schedule, lock                       *)
(*            scoring_schedule_runs   runs (append-only, one per slot),    *)
(*                                    with the prediction of a queued one  *)
(*            datasets                begun, stored                        *)
(*   parties  worker processes (the tick), people who save the schedule,   *)
(*            upload files and score by hand.                              *)
(*                                                                         *)
(* A worker holds the row lock of the schedule from the claim to its       *)
(* commit or rollback; only the schedule and its runs are safe under it.   *)
(* Time is a clock that counts the points that slots can be at; a week has *)
(* Week of them.  An upload gets its created_at when its transaction       *)
(* begins and can be read when it commits.  Roles, the model in use and    *)
(* its approval can change at any time: each read of them has any answer.  *)
(***************************************************************************)
EXTENDS Integers

CONSTANTS
    Worker,
    Files,      \* uploads considered, numbered in the order of their created_at
    Version,    \* model versions
    Week,       \* WEEK
    CatchUp,    \* CATCH_UP
    Lag,        \* how far the clock of a save may be behind a worker's: at
                \* most from one point to the one before
    MaxTime,    \* the end of the time considered
    Faults      \* crashes and unexpected exceptions considered

ASSUME NumberAssumption ==
    /\ {Week, MaxTime} \subseteq Nat \ {0}
    /\ {Files, CatchUp, Faults} \subseteq Nat
    /\ Lag \in {0, 1}

VARIABLES
    clock,
    schedule,   \* enabled, at (its point in the week), next_planned_for,
                \* last_planned_for (none or one)
    lock,       \* the worker that holds the row lock
    runs,       \* slot -> none or one run
    worker,     \* where every worker is in its tick
    begun,      \* how many uploads have begun
    stored,     \* the uploads that have committed
    since,      \* how many had begun when the last queued run was written
    scored,     \* the files that a model version scored
    fresh,      \* history: uploads that committed after the last queued run
    faults      \* history: how many faults there were

rows == <<schedule, runs>>
files == <<begun, stored, since, scored, fresh>>
vars == <<clock, rows, lock, worker, files, faults>>

Slot == 1 - Week .. MaxTime
File == 1 .. Files

(* "skipped" stands for the other outcomes: the role, no model, no         *)
(* approval, a missed slot, a scoring that could not be queued.            *)
Outcome == {"queued", "no_new_file", "skipped"}

Run == [outcome : Outcome, file : SUBSET File]

Idle == [pc |-> "idle", moment |-> 0, file |-> {}, version |-> {}]

-----------------------------------------------------------------------------
SlotAtOrBefore(moment, at) == moment - ((moment - at) % Week)

NextSlotAfter(moment, at) == SlotAtOrBefore(moment, at) + Week

SlotOf(w) == SlotAtOrBefore(worker[w].moment, schedule.at)

SlotTaken(slot) == runs[slot] # {}

Advanced(slot) == [schedule EXCEPT !.last = {slot}, !.next = slot + Week]

Due(moment) == schedule.enabled /\ schedule.next <= moment

(* Wrong: also files from before the last queued run. *)
EveryFile == stored

(* _new_scoring_files: created after the last queued run.                  *)
NewScoringFiles == {f \in stored : since < f}

InRuns(f) == \E s \in Slot : \E run \in runs[s] : run.outcome = "queued" /\ run.file = {f}

(* _newest_new_file: none or one.                                          *)
NewestNewFile(version) ==
    LET candidates == {f \in NewScoringFiles : <<f, version>> \notin scored /\ ~InRuns(f)}
    IN  {f \in candidates : \A g \in candidates : g <= f}

-----------------------------------------------------------------------------
Init ==
    /\ clock = 0
    /\ \E at \in 0 .. Week - 1 :
        schedule = [enabled |-> TRUE, at |-> at, next |-> NextSlotAfter(0, at), last |-> {}]
    /\ lock = {}
    /\ runs = [s \in Slot |-> {}]
    /\ worker = [w \in Worker |-> Idle]
    /\ begun = 0
    /\ stored = {}
    /\ since = 0
    /\ scored = {}
    /\ fresh = {}
    /\ faults = 0

-----------------------------------------------------------------------------
(* Time, files and people.                                                 *)
Pass ==
    /\ clock < MaxTime
    /\ clock' = clock + 1
    /\ UNCHANGED <<rows, lock, worker, files, faults>>

(* Wrong: a save that leaves it on keeps the next slot. *)
SavedKeepsNext(enabled, at, now) ==
    [schedule EXCEPT !.enabled = enabled, !.at = at,
                     !.next = IF schedule.enabled THEN @ ELSE NextSlotAfter(now, at)]

Saved(enabled, at, now) ==
    [schedule EXCEPT !.enabled = enabled, !.at = at, !.next = NextSlotAfter(now, at)]

(* save_schedule: waits for the row lock; the person saving may score.     *)
Save ==
    /\ lock = {}
    /\ \E enabled \in BOOLEAN, at \in 0 .. Week - 1, now \in clock - Lag .. clock :
        schedule' = Saved(enabled, at, now)
    /\ UNCHANGED <<clock, runs, lock, worker, files, faults>>

(* A person's upload for scoring: one transaction, from its created_at to  *)
(* its commit.                                                             *)
BeginUpload ==
    /\ begun < Files
    /\ begun' = begun + 1
    /\ UNCHANGED <<clock, rows, lock, worker, stored, since, scored, fresh, faults>>

CommitUpload(f) ==
    /\ f \in (1 .. begun) \ stored
    /\ stored' = stored \cup {f}
    /\ fresh' = fresh \cup {f}
    /\ UNCHANGED <<clock, rows, lock, worker, begun, since, scored, faults>>

ScoreByHand(f, version) ==
    /\ f \in stored
    /\ scored' = scored \cup {<<f, version>>}
    /\ UNCHANGED <<clock, rows, lock, worker, begun, stored, since, fresh, faults>>

-----------------------------------------------------------------------------
(* The tick reads its moment once, before the schedules that it handles    *)
(* first; so a claim may be of any earlier moment.  SKIP LOCKED.           *)
Claim(w) ==
    /\ worker[w].pc = "idle"
    /\ lock = {}
    /\ \E moment \in 0 .. clock :
        /\ Due(moment)
        /\ worker' = [worker EXCEPT ![w] = [Idle EXCEPT !.pc = "claimed", !.moment = moment]]
    /\ lock' = {w}
    /\ UNCHANGED <<clock, rows, files, faults>>

(* The run and the advance, committed: the end of the lock.                *)
Record(w, outcome, file) ==
    /\ runs' = [runs EXCEPT ![SlotOf(w)] = {[outcome |-> outcome, file |-> file]}]
    /\ schedule' = Advanced(SlotOf(w))
    /\ lock' = {}

(* _finish                                                                 *)
Finish(w, outcome) ==
    /\ Record(w, outcome, {})
    /\ worker' = [worker EXCEPT ![w] = Idle]

(* Wrong: a slot handled already needs nothing. *)
OnlyUnlock(w) ==
    /\ worker' = [worker EXCEPT ![w] = Idle]
    /\ lock' = {}
    /\ UNCHANGED rows

OnlyAdvance(w) ==
    /\ schedule' = Advanced(SlotOf(w))
    /\ worker' = [worker EXCEPT ![w] = Idle]
    /\ lock' = {}
    /\ UNCHANGED runs

Missed(w) == worker[w].moment - SlotOf(w) > CatchUp

Pick(w, f, version) ==
    /\ worker' = [worker EXCEPT ![w].pc = "picked", ![w].file = {f}, ![w].version = {version}]
    /\ UNCHANGED <<rows, lock>>

(* _handle up to the choice of the file: the person may not score, there   *)
(* is no model or no approval, or a version is approved.                   *)
Handle(w) ==
    /\ worker[w].pc = "claimed"
    /\ IF SlotTaken(SlotOf(w)) THEN OnlyAdvance(w)
       ELSE IF Missed(w) THEN Finish(w, "skipped")
       ELSE \/ Finish(w, "skipped")
            \/ \E version \in Version :
                   IF NewestNewFile(version) = {} THEN Finish(w, "no_new_file")
                   ELSE \E f \in NewestNewFile(version) : Pick(w, f, version)
    /\ UNCHANGED <<clock, files, faults>>

(* Out of the lock, with the moment of the tick.                           *)
Left(w, pc) == [Idle EXCEPT !.pc = pc, !.moment = worker[w].moment]

(* create_batch_prediction with log_run, its checks passed: prediction,    *)
(* job, run and advance in one commit.                                     *)
Queue(w) ==
    /\ worker[w].pc = "picked"
    /\ Record(w, "queued", worker[w].file)
    /\ worker' = [worker EXCEPT ![w] = Left(w, "queued")]
    /\ scored' = scored \cup worker[w].file \X worker[w].version
    /\ since' = begun
    /\ fresh' = {}
    /\ UNCHANGED <<clock, begun, stored, faults>>

(* The job is dispatched after the commit.                                 *)
Dispatch(w) ==
    /\ worker[w].pc = "queued"
    /\ worker' = [worker EXCEPT ![w] = Idle]
    /\ UNCHANGED <<clock, rows, lock, files, faults>>

(* Wrong: the advance is committed before the prediction. *)
AdvancedFirst(w) == Advanced(SlotOf(w))

(* What a rollback leaves of the advance of log_run. *)
RolledBack(w) == schedule

Refused(w) ==
    /\ worker' = [worker EXCEPT ![w] = Left(w, "refused")]
    /\ lock' = lock \ {w}
    /\ UNCHANGED <<clock, runs, files>>

(* create_batch_prediction refuses (the role; the quota, the approval, the *)
(* file), which ends the row lock with the rollback.                       *)
Refuse(w) ==
    /\ worker[w].pc = "picked"
    /\ Refused(w)
    /\ schedule' = RolledBack(w)
    /\ UNCHANGED faults

(* Anything else raises in _handle, also after the commit.                 *)
Raise(w) ==
    /\ worker[w].pc \in {"claimed", "picked", "queued"}
    /\ faults < Faults
    /\ faults' = faults + 1
    /\ Refused(w)
    /\ UNCHANGED schedule

(* Wrong: records without looking whether it is still due. *)
DueBefore(w) == schedule.enabled

StillDue(w) == Due(worker[w].moment)

(* _record_after_rollback, in one transaction: SKIP LOCKED, and nothing    *)
(* when another worker or a person changed the schedule.                   *)
RecordAgain(w) ==
    /\ worker[w].pc = "refused"
    /\ IF lock # {} \/ ~StillDue(w)
       THEN /\ worker' = [worker EXCEPT ![w] = Idle]
            /\ UNCHANGED <<rows, lock>>
       ELSE IF SlotTaken(SlotOf(w)) THEN OnlyAdvance(w)
       ELSE Finish(w, "skipped")
    /\ UNCHANGED <<clock, files, faults>>

(* The process dies (and is started again): the database rolls back.       *)
Crash(w) ==
    /\ worker[w].pc # "idle"
    /\ faults < Faults
    /\ faults' = faults + 1
    /\ worker' = [worker EXCEPT ![w] = Idle]
    /\ lock' = lock \ {w}
    /\ UNCHANGED <<clock, rows, files>>

-----------------------------------------------------------------------------
Tick(w) == Claim(w) \/ Handle(w) \/ Queue(w) \/ Dispatch(w) \/ Refuse(w) \/ RecordAgain(w)

Next ==
    \/ Pass \/ Save \/ BeginUpload
    \/ \E f \in File : CommitUpload(f) \/ \E version \in Version : ScoreByHand(f, version)
    \/ \E w \in Worker : Tick(w) \/ Raise(w) \/ Crash(w)

Spec == Init /\ [][Next]_vars

(* Workers go on ticking (the kill switch is off), and the other worker's  *)
(* moments under the lock do not fall on the gap of a rollback for ever.   *)
Fairness ==
    \A w \in Worker : WF_vars(Tick(w)) /\ SF_vars(RecordAgain(w) /\ lock = {})

FairSpec == Spec /\ Fairness

-----------------------------------------------------------------------------
RowsTyped ==
    /\ schedule \in [enabled : BOOLEAN, at : 0 .. Week - 1, next : 0 .. MaxTime + Week,
                    last : SUBSET Slot]
    /\ schedule.next % Week = schedule.at
    /\ runs \in [Slot -> SUBSET Run]

WorkersTyped ==
    /\ worker \in [Worker -> [pc : {"idle", "claimed", "picked", "queued", "refused"}, moment : Slot,
                              file : SUBSET File, version : SUBSET Version]]
    /\ lock = {} \/ \E w \in Worker : lock = {w}
    /\ \A w \in Worker : lock = {w} <=> worker[w].pc \in {"claimed", "picked"}

FilesTyped ==
    /\ begun \in 0 .. Files /\ stored \subseteq 1 .. begun /\ since \in 0 .. begun
    /\ scored \subseteq File \X Version

TypeOK ==
    /\ clock \in 0 .. MaxTime /\ faults \in 0 .. Faults
    /\ RowsTyped /\ WorkersTyped /\ FilesTyped

(* A slot is recorded once and for good, not before its time and not       *)
(* before the slot that a save or the last run planned (a save never       *)
(* catches up on past weeks), whichever workers and saves meet in the gap  *)
(* of a rollback.                                                          *)
WeeksGoForward ==
    [][\A s \in Slot : runs'[s] # runs[s] =>
           runs[s] = {} /\ schedule.next <= s /\ s <= clock]_vars

(* No week goes by in silence: the slot that the schedule has as its last  *)
(* is recorded, though a worker died or could not queue it.                *)
WeeksAreRecorded == \A s \in schedule.last : runs[s] # {}

(* A file is queued once, and never after a file that came later.          *)
FilesGoForward ==
    \A s, t \in Slot : \A r1 \in runs[s], r2 \in runs[t] :
        s < t /\ r1.outcome = "queued" /\ r2.outcome = "queued" =>
            \A f \in r1.file, g \in r2.file : f < g

(* What is due is handled, or put off by a person who saves.               *)
DueIsHandled == Due(clock) ~> ~Due(clock)

(* "no new file was uploaded for scoring by a person since the last run":  *)
(* not said while a file whose upload ended after the last queued run was  *)
(* never scored.                                                           *)
NoNewFileIsTrue ==
    [][\A s \in Slot : \A run \in runs'[s] \ runs[s] :
           run.outcome = "no_new_file" =>
               \A f \in fresh : \E version \in Version : <<f, version>> \in scored]_vars

=============================================================================
