------------------------- MODULE AutoTrainRunProofs -------------------------
(***************************************************************************)
(* Proofs about AutoTrainRun for every bound on attempts and on crashes.   *)
(* RunInv is inductive: how far the handler is says what was answered,     *)
(* scored and locked, and that carries the five safety properties.  With   *)
(* ViewInv every step of the run is one of MlJobQueue or none of the job.  *)
(***************************************************************************)
EXTENDS AutoTrainRun, MlJobRowProofs

-----------------------------------------------------------------------------
(* The queue's operators, as this module's instance of it names them, are   *)
(* those of MlJobRow.                                                       *)
LEMMA QueueAlgebra ==
    ASSUME NEW r, NEW now, NEW loaded, NEW changed
    PROVE  /\ Queue!CompletedRow(r) = CompletedRow(r)
           /\ Queue!CancelledRow(r) = CancelledRow(r)
           /\ Queue!FailedRow(r) = FailedRow(r)
           /\ Queue!AfterFailure(r) = AfterFailure(r)
           /\ Queue!RequeuedRow(r) = RequeuedRow(r)
           /\ Queue!OrmWrite(now, loaded, changed) = OrmWrite(now, loaded, changed)
           /\ Queue!FailureOutcome(r) = FailureOutcome(r)
<1>1. /\ Queue!CompletedRow(r) = CompletedRow(r)
      /\ Queue!CancelledRow(r) = CancelledRow(r)
      /\ Queue!FailedRow(r) = FailedRow(r)
      /\ Queue!RetriedRow(r) = RetriedRow(r)
      /\ Queue!RequeuedRow(r) = RequeuedRow(r)
  BY DEF Queue!CompletedRow, CompletedRow, Queue!CancelledRow, CancelledRow, Queue!FailedRow,
         FailedRow, Queue!RetriedRow, RetriedRow, Queue!RequeuedRow, RequeuedRow
<1>2. Queue!AfterFailure(r) = AfterFailure(r)
  BY <1>1 DEF Queue!AfterFailure, AfterFailure
<1>3. Queue!OrmWrite(now, loaded, changed) = OrmWrite(now, loaded, changed)
  BY DEF Queue!OrmWrite, OrmWrite
<1>4. Queue!FailureOutcome(r) = FailureOutcome(r)
  BY DEF Queue!FailureOutcome, FailureOutcome
<1> QED
  BY <1>1, <1>2, <1>3, <1>4

(* What execute_job leaves of the row of a running job: the stored number   *)
(* of attempts, and "completed" only after a run that finished or parked.   *)
LEMMA SavedRowOfRun ==
    ASSUME NEW now \in Row, now.status = "running", NEW loaded \in Row, NEW ending
    PROVE  LET saved == Queue!SavedRow("run", now, loaded, ending)
           IN /\ saved \in Row
              /\ saved.attempts = now.attempts
              /\ saved.status = "completed" => ending \in {"finished", "parked"}
              /\ saved.status # "absent"
<1> DEFINE ended == Queue!EndedRow("run", loaded, ending)
           saved == OrmWrite(now, loaded, ended)
           again == OrmWrite(saved, ended, RequeuedRow(ended))
<1>1. /\ ended \in Row /\ ended.attempts = loaded.attempts /\ ended.status # "absent"
      /\ ended.status = "completed" => ending \in {"finished", "parked", "resume"}
      /\ Queue!RequeuesItself("run", loaded, ending) =>
           ending = "resume" /\ ended.status = "completed"
      /\ ended.status = "completed" /\ ending = "resume" =>
           Queue!RequeuesItself("run", loaded, ending)
  <2>1. /\ CompletedRow(loaded) \in Row /\ CancelledRow(loaded) \in Row
        /\ FailedRow(loaded) \in Row /\ AfterFailure(loaded) \in Row
    BY RowTypes
  <2>2. ended \in {CompletedRow(loaded), CancelledRow(loaded), FailedRow(loaded),
                   AfterFailure(loaded)}
    BY QueueAlgebra DEF Queue!EndedRow
  <2>3. ended.attempts = loaded.attempts /\ ended.status # "absent"
    BY <2>2, RowAttempts, RowPresent
  <2>4. ended.status = "completed" => ending \in {"finished", "parked", "resume"}
    BY QueueAlgebra, RowPresent DEF Queue!EndedRow
  <2>5. Queue!RequeuesItself("run", loaded, ending) =>
          ending = "resume" /\ ended.status = "completed"
    BY QueueAlgebra, RowPresent DEF Queue!EndedRow, Queue!RequeuesItself
  <2>6. ended.status = "completed" /\ ending = "resume" =>
          Queue!RequeuesItself("run", loaded, ending)
    <3>1. Queue!CancelledRow(loaded).status = "cancelled"
      BY QueueAlgebra, RowPresent
    <3> QED
      BY <3>1 DEF Queue!EndedRow, Queue!RequeuesItself
  <2> QED
    BY <2>1, <2>2, <2>3, <2>4, <2>5, <2>6
<1>2. /\ RequeuedRow(ended) \in Row /\ RequeuedRow(ended).attempts = ended.attempts
      /\ RequeuedRow(ended).status = "queued"
  BY <1>1, RowTypes, RowAttempts, RowPresent
<1>3. Queue!SavedRow("run", now, loaded, ending) =
        IF Queue!RequeuesItself("run", loaded, ending) THEN again ELSE saved
  BY QueueAlgebra DEF Queue!SavedRow
<1> HIDE DEF ended
<1>4. /\ saved \in Row /\ saved.attempts = now.attempts
      /\ saved.status \in {ended.status, "running"}
  BY <1>1, OrmWriteRow
<1> HIDE DEF saved
<1>5. /\ again \in Row /\ again.attempts = saved.attempts
      /\ ended.status # "queued" => again.status = "queued"
  BY <1>1, <1>2, <1>4, OrmWriteRow
<1> HIDE DEF again
<1>6. CASE Queue!RequeuesItself("run", loaded, ending)
  BY <1>1, <1>3, <1>4, <1>5, <1>6
<1>7. CASE ~Queue!RequeuesItself("run", loaded, ending)
  <2>1. saved.status = "completed" => ended.status = "completed"
    BY <1>4
  <2> QED
    BY <1>1, <1>3, <1>4, <1>7, <2>1
<1> QED
  BY <1>6, <1>7

(* The outcome it gives the attempt is a final one. *)
LEMMA EndedOutcomeFinal ==
    ASSUME NEW loaded, NEW ending
    PROVE  Queue!EndedOutcome("run", loaded, ending) \in Outcomes \ {"none", "running"}
  BY QueueAlgebra DEF Queue!EndedOutcome, FailureOutcome, Outcomes

(* A failure recorded on a row is a final outcome too. *)
LEMMA FailureOutcomeFinal ==
    ASSUME NEW r
    PROVE  FailureOutcome(r) \in Outcomes \ {"none", "running"}
  BY DEF FailureOutcome, Outcomes

-----------------------------------------------------------------------------
(* Types. *)

(* record_run_cancelled leaves an upload and an evidence. *)
LEMMA RecordTypes ==
    ASSUME TypeOK, RecordIfCancelled
    PROVE  upload' \in Upload /\ evidence' \in Evidence
<1>1. CASE RecordCancelled
  <2>1. CASE Relabellable(evidence)
    BY <1>1, <2>1 DEF RecordCancelled, TypeOK, Upload, Evidence, Stages
  <2>2. CASE ~Relabellable(evidence)
    BY <1>1, <2>2 DEF RecordCancelled, TypeOK
  <2> QED
    BY <2>1, <2>2
<1>2. CASE UNCHANGED <<upload, evidence>>
  BY <1>2 DEF TypeOK
<1> QED
  BY <1>1, <1>2 DEF RecordIfCancelled

(* A handler step writes uploads, requests, evidence and the worker's place *)
(* of their types; a test look is one of the attempts.                      *)
LEMMA HandlerTypes ==
    ASSUME TypeOK, LooksAreAttempts, HandlerStep \/ Told
    PROVE  TypeOK'
<1> USE DEF TypeOK
<1>0. MaxAttempts \in Nat
  BY MaxAttemptsAssumption
<1>1. CASE Skip
  BY <1>1 DEF Skip, Goto, RowStays, Upload, Evidence, Worker, Stages, Executing, InHandler
<1>2. CASE Begin
  BY <1>2 DEF Begin, Goto, RowStays, Upload, Worker, Stages, Executing, InHandler, Checkpoints
<1>3. CASE LoadPlan
  BY <1>3 DEF LoadPlan, RowStays, Request, Worker, Executing, InHandler, Checkpoints
<1>4. CASE ResolveTarget
  BY <1>4 DEF ResolveTarget, Goto, RowStays, Worker, Executing, InHandler, Checkpoints, Halting
<1>5. CASE SplitPoint
  BY <1>5 DEF SplitPoint, Goto, RowStays, Worker, Executing, InHandler, Checkpoints, Halting
<1>6. ASSUME NEW q \in Questions, Park(q) PROVE TypeOK'
  <2>1. (q = "target") \in BOOLEAN
    OBVIOUS
  <2> QED
    BY <1>6, <2>1 DEF Park, Goto, RowStays, Upload, Stages, Worker, Executing, InHandler, Halting
<1>7. ASSUME NEW q \in Questions, Ask(q) PROVE TypeOK'
  BY <1>7 DEF Ask, Goto, RowStays, Request, Worker, Executing, InHandler
<1>8. CASE StorePlan
  BY <1>8 DEF StorePlan, Goto, Worker, Executing, InHandler, Checkpoints
<1>9. CASE Evaluate
  BY <1>9 DEF Evaluate, Goto, RowStays, Worker, Executing, InHandler
<1>10. CASE FinalTest
  <2>1. evidence.looks + 1 \in 0 .. MaxAttempts
    BY <1>0, <1>10 DEF FinalTest, LooksAreAttempts, BeforeTest, Row, Evidence
  <2> QED
    BY <1>10, <2>1 DEF FinalTest, Goto, RowStays, Evidence, Worker, Executing, InHandler
<1>11. CASE LockEvidence
  BY <1>11 DEF LockEvidence, Goto, RowStays, Evidence, Worker, Executing, InHandler
<1>12. CASE ReuseLocked
  BY <1>12 DEF ReuseLocked, Goto, RowStays, Worker, Executing, InHandler
<1>13. CASE Finalize
  BY <1>13 DEF Finalize, Goto, RowStays, Upload, Stages, Evidence, Worker, Executing, InHandler
<1>14. CASE FailRun
  <2>1. PICK unresolved \in BOOLEAN :
          upload' = [upload EXCEPT !.stage = "failed", !.unresolved = unresolved]
    BY <1>14 DEF FailRun
  <2>2. upload' \in Upload
    BY <2>1 DEF Upload, Stages
  <2> QED
    BY <1>14, <2>2 DEF FailRun, Goto, RowStays, Evidence, Worker, Executing, InHandler
<1>15. CASE Raise
  BY <1>15 DEF Raise, RowStays, Worker, Executing, InHandler
<1>16. CASE Told
  BY <1>16 DEF Told, RowStays, Worker, Executing
<1> QED
  BY <1>1, <1>2, <1>3, <1>4, <1>5, <1>6, <1>7, <1>8, <1>9, <1>10, <1>11, <1>12, <1>13, <1>14,
     <1>15, <1>16 DEF HandlerStep

(* Every step keeps the types. *)
LEMMA TypeStep ==
    ASSUME TypeOK, LooksAreAttempts, ExecutedRowRuns, [Next]_vars
    PROVE  TypeOK'
<1> USE DEF TypeOK
<1>0. MaxAttempts \in Nat \ {0} /\ MaxCrashes \in Nat
  BY MaxAttemptsAssumption, MaxCrashesAssumption
<1>i. IdleWorker \in Worker
  BY <1>0, RowTypes DEF IdleWorker, NoUpload, Worker, Upload, Stages
<1>1. CASE Submit
  BY <1>1, RowTypes DEF Submit
<1>2. CASE CancelRun
  BY <1>2, RowTypes, RecordTypes DEF CancelRun
<1>3. ASSUME NEW q \in Questions, Confirm(q) PROVE TypeOK'
  <2>1. request' \in Request
    BY <1>3 DEF Confirm, Request
  <2>2. upload' \in Upload
    BY <1>3 DEF Confirm, Upload, Stages
  <2> QED
    BY <1>3, <2>1, <2>2 DEF Confirm
<1>4. CASE ResumeConfirmed
  BY <1>4, RowTypes DEF ResumeConfirmed
<1>5. CASE ConfirmDies
  BY <1>0, <1>5 DEF ConfirmDies, tables
<1>o. CASE OtherRunSplits
  BY <1>o DEF OtherRunSplits
<1>6. CASE ExpireLease
  <2>1. row' \in Row
    BY <1>6 DEF ExpireLease, Row, Leases
  <2> QED
    BY <1>6, <2>1 DEF ExpireLease
<1>7. CASE Recover
  <2>1. row' \in Row /\ ledger' \in Ledger
    BY <1>7, RowTypes, EndAttemptKeepsRows, FailureOutcomeFinal DEF Recover
  <2>2. upload' \in Upload /\ evidence' \in Evidence
    BY <1>7, RecordTypes DEF Recover
  <2>3. worker' \in Worker
    BY <1>7 DEF Recover, Worker
  <2> QED
    BY <1>7, <2>1, <2>2, <2>3 DEF Recover
<1>8. CASE Claim
  <2>1. row.attempts + 1 \in 1 .. MaxAttempts /\ row.attempts + 1 \in 0 .. MaxAttempts
    BY <1>0, <1>8 DEF Claim, Row
  <2>2. row' \in Row /\ ledger' \in Ledger
    BY <1>8, <2>1, RowTypes, StartAttemptAddsRow DEF Claim
  <2>3. worker' \in Worker
    BY <1>8, <1>i, <2>1 DEF Claim, Worker, Executing, InHandler
  <2> QED
    BY <1>8, <2>2, <2>3 DEF Claim
<1>9. CASE ClaimExhausted
  BY <1>9, <1>i, RowTypes DEF ClaimExhausted
<1>10. CASE ClaimNothing
  BY <1>10, <1>i DEF ClaimNothing, tables
<1>11. CASE HandlerStep \/ Told
  BY <1>11, HandlerTypes
<1>12. CASE ReadOutcome
  BY <1>12 DEF ReadOutcome, tables, Worker, Executing
<1>13. CASE SaveOutcome
  <2>1. worker.loaded \in Row /\ row.status = "running"
    BY <1>13 DEF SaveOutcome, Worker, ExecutedRowRuns, Executing
  <2>2. row' \in Row
    BY <1>13, <2>1, SavedRowOfRun DEF SaveOutcome
  <2>3. ledger' \in Ledger
    BY <1>13, EndAttemptKeepsRows, EndedOutcomeFinal DEF SaveOutcome
  <2>4. upload' \in Upload /\ evidence' \in Evidence
    BY <1>13, RecordTypes DEF SaveOutcome
  <2> QED
    BY <1>13, <1>i, <2>2, <2>3, <2>4 DEF SaveOutcome
<1>14. CASE WorkerDies
  BY <1>0, <1>14, <1>i DEF WorkerDies, tables
<1>15. CASE UNCHANGED vars
  BY <1>15 DEF vars
<1> QED
  BY <1>1, <1>2, <1>3, <1>4, <1>5, <1>o, <1>6, <1>7, <1>8, <1>9, <1>10, <1>11, <1>12, <1>13, <1>14,
     <1>15 DEF Next, WorkerStep

-----------------------------------------------------------------------------
(* The queue side: the executed row and the looks. *)

(* The handler runs inside execute_job and does not touch the job's row.    *)
LEMMA HandlerFrame ==
    ASSUME HandlerStep \/ Told
    PROVE  worker.pc \in Executing /\ row' = row
  BY DEF HandlerStep, Told, Skip, Begin, LoadPlan, ResolveTarget, SplitPoint, Park, Ask, StorePlan,
         Evaluate, FinalTest, LockEvidence, ReuseLocked, Finalize, FailRun, Raise, RowStays,
         Executing, InHandler, Checkpoints, Halting

(* Nobody but its worker ends the claim of a job that is executed. *)
LEMMA ExecutedStep ==
    ASSUME TypeOK, ExecutedRowRuns, [Next]_vars
    PROVE  ExecutedRowRuns'
<1> USE DEF ExecutedRowRuns
<1>w. worker \in Worker /\ row \in Row
  BY DEF TypeOK
<1>1. CASE Submit
  BY <1>1 DEF Submit
<1>2. CASE CancelRun
  BY <1>2, <1>w DEF CancelRun, CancelRequestedRow, Row
<1>3. ASSUME NEW q \in Questions, Confirm(q) PROVE ExecutedRowRuns'
  BY <1>3 DEF Confirm
<1>4. CASE ResumeConfirmed
  BY <1>4 DEF ResumeConfirmed
<1>5. CASE ConfirmDies \/ OtherRunSplits
  BY <1>5 DEF ConfirmDies, OtherRunSplits, tables
<1>6. CASE ExpireLease
  BY <1>6 DEF ExpireLease
<1>7. CASE Recover
  BY <1>7, <1>w DEF Recover, Worker, Executing, InHandler, Checkpoints, Halting
<1>8. CASE Claim
  BY <1>8, <1>w, RowPresent DEF Claim
<1>9. CASE ClaimExhausted \/ ClaimNothing \/ SaveOutcome \/ WorkerDies
  BY <1>9 DEF ClaimExhausted, ClaimNothing, SaveOutcome, WorkerDies, IdleWorker, Executing,
              InHandler, Checkpoints, Halting
<1>10. CASE HandlerStep \/ Told
  BY <1>10, HandlerFrame
<1>11. CASE ReadOutcome
  BY <1>11 DEF ReadOutcome, tables, Executing, InHandler
<1>12. CASE UNCHANGED vars
  BY <1>12 DEF vars
<1> QED
  BY <1>1, <1>2, <1>3, <1>4, <1>5, <1>6, <1>7, <1>8, <1>9, <1>10, <1>11, <1>12
     DEF Next, WorkerStep

(* Every attempt looks at the holdout at most once. *)
LEMMA LooksStep ==
    ASSUME TypeOK, ExecutedRowRuns, LooksAreAttempts, [Next]_vars
    PROVE  LooksAreAttempts'
<1> USE DEF LooksAreAttempts
<1>w. /\ worker \in Worker /\ row \in Row /\ evidence.looks \in Nat /\ row.attempts \in Nat
      /\ evidence \in Evidence
  BY MaxAttemptsAssumption DEF TypeOK, Evidence, Row
<1>r. RecordIfCancelled => evidence'.looks = evidence.looks
  BY <1>w DEF RecordIfCancelled, RecordCancelled, Evidence
<1>b. BeforeTest \subseteq Executing
  BY DEF BeforeTest, Executing, InHandler
<1>1. CASE Submit
  BY <1>1, <1>w, <1>b DEF Submit, InsertedRow, AbsentRow, Row, ExecutedRowRuns
<1>2. CASE CancelRun
  BY <1>2, <1>w, <1>r, RowAttempts, RowPresent DEF CancelRun
<1>3. ASSUME NEW q \in Questions, Confirm(q) PROVE LooksAreAttempts'
  BY <1>3 DEF Confirm
<1>4. CASE ResumeConfirmed
  BY <1>4, <1>w, RowAttempts, RowPresent DEF ResumeConfirmed
<1>5. CASE ConfirmDies \/ OtherRunSplits
  BY <1>5 DEF ConfirmDies, OtherRunSplits, tables
<1>6. CASE ExpireLease
  BY <1>6, <1>w DEF ExpireLease, Row
<1>7. CASE Recover
  BY <1>7, <1>w, <1>r, RowAttempts, RowPresent
     DEF Recover, Worker, BeforeTest, Checkpoints, Halting
<1>8. CASE Claim
  BY <1>8, <1>w, RowAttempts, RowPresent DEF Claim
<1>9. CASE ClaimExhausted \/ ClaimNothing \/ WorkerDies
  BY <1>9, <1>w, RowAttempts, RowPresent
     DEF ClaimExhausted, ClaimNothing, WorkerDies, tables, IdleWorker, BeforeTest, Checkpoints, Halting
<1>10. CASE FinalTest
  BY <1>10, <1>w DEF FinalTest, Goto, RowStays, Evidence, Worker, BeforeTest, Checkpoints, Halting
<1>11. CASE (HandlerStep /\ ~FinalTest) \/ Told
  <2>1. row' = row /\ evidence'.looks = evidence.looks
    BY <1>11, <1>w
       DEF HandlerStep, Told, Skip, Begin, LoadPlan, ResolveTarget, SplitPoint, Park, Ask, StorePlan,
           Evaluate, LockEvidence, ReuseLocked, Finalize, FailRun, Raise, RowStays, Evidence
  <2>2. worker'.pc \in BeforeTest => worker.pc \in BeforeTest
    BY <1>11, <1>w
       DEF HandlerStep, Told, Skip, Begin, LoadPlan, ResolveTarget, SplitPoint, Park, Ask, StorePlan,
           Evaluate, LockEvidence, ReuseLocked, Finalize, FailRun, Raise, Goto, Worker, BeforeTest,
           Checkpoints, Halting
  <2> QED
    BY <2>1, <2>2
<1>12. CASE ReadOutcome
  BY <1>12, <1>w DEF ReadOutcome, tables, Worker, BeforeTest, Checkpoints, Halting
<1>13. CASE SaveOutcome
  <2>1. worker.loaded \in Row /\ row.status = "running"
    BY <1>13, <1>w DEF SaveOutcome, Worker, ExecutedRowRuns, Executing
  <2> QED
    BY <1>13, <1>w, <1>r, <2>1, SavedRowOfRun
       DEF SaveOutcome, IdleWorker, BeforeTest, Checkpoints, Halting
<1>14. CASE UNCHANGED vars
  BY <1>14 DEF vars
<1> QED
  BY <1>1, <1>2, <1>3, <1>4, <1>5, <1>6, <1>7, <1>8, <1>9, <1>10, <1>11, <1>12, <1>13, <1>14
     DEF Next, WorkerStep

-----------------------------------------------------------------------------
(* How far the handler is. *)

(* An answer, the split plan, a test look and a lock are never taken back.  *)
LEMMA NothingUnlearned ==
    ASSUME TypeOK, [Next]_vars
    PROVE  /\ input' = input
           /\ upload.explicit => upload'.explicit
           /\ request.kept => request'.kept
           /\ splits # "none" => splits' # "none"
           /\ evidence.locked => evidence'.locked
           /\ evidence.looks > 0 => evidence'.looks > 0
<1> DEFINE Kept == /\ upload.explicit => upload'.explicit
                   /\ request.kept => request'.kept
                   /\ splits # "none" => splits' # "none"
                   /\ evidence.locked => evidence'.locked
                   /\ evidence.looks > 0 => evidence'.looks > 0
<1>w. /\ upload \in Upload /\ request \in Request /\ evidence \in Evidence
      /\ evidence.looks \in Nat
  BY MaxAttemptsAssumption DEF TypeOK, Evidence
<1>r. RecordIfCancelled /\ request' = request /\ splits' = splits => Kept
  BY <1>w DEF RecordIfCancelled, RecordCancelled, Upload, Evidence
<1>1. CASE Submit \/ ResumeConfirmed \/ ConfirmDies \/ OtherRunSplits \/ ExpireLease \/ Claim
           \/ ClaimExhausted \/ ClaimNothing \/ ReadOutcome \/ WorkerDies
  BY <1>1 DEF Submit, ResumeConfirmed, ConfirmDies, OtherRunSplits, ExpireLease, Claim,
              ClaimExhausted, ClaimNothing, ReadOutcome, WorkerDies, tables
<1>2. CASE CancelRun \/ Recover \/ SaveOutcome
  BY <1>2, <1>r DEF CancelRun, Recover, SaveOutcome
<1>3. ASSUME NEW q \in Questions, Confirm(q) PROVE input' = input /\ Kept
  BY <1>3, <1>w DEF Confirm, Upload, Request
<1>4. CASE HandlerStep \/ Told
  <2>1. input' = input
    BY <1>4 DEF HandlerStep, Told, Skip, Begin, LoadPlan, ResolveTarget, SplitPoint, Park, Ask,
                StorePlan, Evaluate, FinalTest, LockEvidence, ReuseLocked, Finalize, FailRun,
                Raise, RowStays
  <2>2. upload.explicit => upload'.explicit
    BY <1>4, <1>w
       DEF HandlerStep, Told, Skip, Begin, LoadPlan, ResolveTarget, SplitPoint, Park, Ask,
           StorePlan, Evaluate, FinalTest, LockEvidence, ReuseLocked, Finalize, FailRun, Raise, Upload
  <2>3. request.kept => request'.kept
    BY <1>4, <1>w
       DEF HandlerStep, Told, Skip, Begin, LoadPlan, ResolveTarget, SplitPoint, Park, Ask,
           StorePlan, Evaluate, FinalTest, LockEvidence, ReuseLocked, Finalize, FailRun, Raise, Request
  <2>o. splits # "none" => splits' # "none"
    BY <1>4
       DEF HandlerStep, Told, Skip, Begin, LoadPlan, ResolveTarget, SplitPoint, Park, Ask,
           StorePlan, Evaluate, FinalTest, LockEvidence, ReuseLocked, Finalize, FailRun, Raise,
           RowStays
  <2>4. /\ evidence.locked => evidence'.locked
        /\ evidence.looks > 0 => evidence'.looks > 0
    <3>1. CASE FinalTest
      BY <1>w, <3>1 DEF FinalTest, Evidence
    <3>2. CASE ~FinalTest
      BY <1>4, <1>w, <3>2
         DEF HandlerStep, Told, Skip, Begin, LoadPlan, ResolveTarget, SplitPoint, Park, Ask,
             StorePlan, Evaluate, LockEvidence, ReuseLocked, Finalize, FailRun, Raise, Evidence
    <3> QED
      BY <3>1, <3>2
  <2> QED
    BY <2>1, <2>2, <2>3, <2>o, <2>4
<1>5. CASE UNCHANGED vars
  BY <1>5 DEF vars
<1> QED
  BY <1>1, <1>2, <1>3, <1>4, <1>5 DEF Next, WorkerStep

(* A step outside the handler leaves the worker where it was, or puts it at *)
(* a place of which nothing is claimed, and touches no stage of evidence.   *)
LEMMA OutsideHandler ==
    ASSUME TypeOK, [Next]_vars, ~(HandlerStep \/ Told)
    PROVE  /\ evidence'.locked = evidence.locked /\ evidence'.looks = evidence.looks
           /\ splits' = splits \/ splits' = "other"
           /\ worker'.kept => worker.kept
           /\ \/ worker' = worker
              \/ worker'.pc \in {"recover", "claim"}
              \/ worker'.pc = "start" /\ worker'.ending = "returned"
              \/ /\ worker'.pc = "saving" /\ worker'.ending = worker.ending
                 /\ worker.pc \in {"ended", "stopping"} /\ tables' = tables
<1>w. worker \in Worker /\ evidence \in Evidence
  BY DEF TypeOK
<1>r. RecordIfCancelled => /\ evidence'.locked = evidence.locked
                           /\ evidence'.looks = evidence.looks
  BY <1>w DEF RecordIfCancelled, RecordCancelled, Evidence
<1>1. CASE Submit \/ CancelRun \/ ResumeConfirmed \/ ConfirmDies \/ OtherRunSplits \/ ExpireLease
  BY <1>1, <1>r
     DEF Submit, CancelRun, ResumeConfirmed, ConfirmDies, OtherRunSplits, ExpireLease, tables
<1>2. ASSUME NEW q \in Questions, Confirm(q)
      PROVE  evidence' = evidence /\ worker' = worker /\ splits' = splits
  BY <1>2 DEF Confirm
<1>3. CASE Recover
  BY <1>3, <1>r, <1>w DEF Recover, Worker
<1>4. CASE Claim
  BY <1>4 DEF Claim, IdleWorker
<1>5. CASE ClaimExhausted \/ ClaimNothing \/ SaveOutcome \/ WorkerDies
  BY <1>5, <1>r DEF ClaimExhausted, ClaimNothing, SaveOutcome, WorkerDies, tables, IdleWorker
<1>6. CASE ReadOutcome
  BY <1>6, <1>w DEF ReadOutcome, tables, Worker
<1>7. CASE UNCHANGED vars
  BY <1>7 DEF vars
<1> QED
  BY <1>1, <1>2, <1>3, <1>4, <1>5, <1>6, <1>7 DEF Next, WorkerStep

(* A split question that was settled for an attempt stays settled for it,   *)
(* unless the attempt ends or locks the evidence.                           *)
LEMMA SettledStays ==
    ASSUME TypeOK, [Next]_vars, SplitSettled,
           worker'.usable = worker.usable, evidence'.locked = evidence.locked
    PROVE  SplitSettled'
<1>1. /\ input' = input
      /\ request.kept => request'.kept
      /\ splits # "none" => splits' # "none"
  BY NothingUnlearned
<1> QED
  BY <1>1 DEF SplitSettled, PlanExists, HasSource

(* Each stage of the handler leaves what the next one rests on, and no step *)
(* of anybody else takes it away.                                           *)
LEMMA StagesStep ==
    ASSUME TypeOK, StagesInOrder, EndingsAgree, [Next]_vars
    PROVE  StagesInOrder' /\ EndingsAgree'
<1> DEFINE Same == worker'.usable = worker.usable /\ evidence'.locked = evidence.locked
<1> USE DEF StagesInOrder, EndingsAgree, BeforeTest, Checkpoints, Halting
<1>w. /\ worker \in Worker /\ evidence \in Evidence /\ request \in Request
      /\ evidence.looks \in Nat
  BY MaxAttemptsAssumption DEF TypeOK, Evidence
<1>k. SplitSettled /\ Same => SplitSettled'
  BY SettledStays
<1>u. /\ request.kept => request'.kept
      /\ evidence.looks > 0 => evidence'.looks > 0
  BY NothingUnlearned
<1>1. CASE ~(HandlerStep \/ Told)
  <2>1. EndingsAgree'
    BY <1>1, OutsideHandler
  <2>2. StagesInOrder'
    BY <1>1, <1>k, <1>u, OutsideHandler
  <2> QED
    BY <2>1, <2>2
<1>2. CASE Skip \/ Begin
  BY <1>2, <1>w, <1>u DEF Skip, Begin, Goto, Worker, Evidence
<1>3. CASE LoadPlan
  BY <1>3, <1>w DEF LoadPlan, RowStays, Worker
<1>4. CASE ResolveTarget
  BY <1>4, <1>w DEF ResolveTarget, Goto, Worker
<1>5. CASE SplitPoint
  <2>1. worker'.pc = "planning" => SplitSettled
    BY <1>5, <1>w DEF SplitPoint, MustAskSplit, Goto, Worker, SplitSettled
  <2> QED
    BY <1>5, <1>k, <1>w, <2>1 DEF SplitPoint, Goto, Worker
<1>6. ASSUME NEW q \in Questions, Park(q) \/ Ask(q)
      PROVE  StagesInOrder' /\ EndingsAgree'
  BY <1>6, <1>w, <1>u DEF Park, Ask, Goto, Worker
<1>7. CASE StorePlan
  BY <1>7, <1>k, <1>w DEF StorePlan, Goto, Worker
<1>8. CASE Evaluate \/ ReuseLocked
  BY <1>8, <1>k, <1>w DEF Evaluate, ReuseLocked, Goto, Worker
<1>9. CASE FinalTest
  BY <1>9, <1>w DEF FinalTest, Goto, Worker, Evidence
<1>10. CASE LockEvidence
  BY <1>10, <1>w DEF LockEvidence, Goto, Worker, Evidence
<1>11. CASE Finalize \/ FailRun
  BY <1>11, <1>w DEF Finalize, FailRun, Goto, Worker, Evidence
<1>12. CASE Raise
  BY <1>12, <1>w DEF Raise, Worker
<1>13. CASE Told
  BY <1>13, <1>w DEF Told, Worker
<1> HIDE DEF StagesInOrder, EndingsAgree, BeforeTest, Checkpoints, Halting
<1> QED
  BY <1>1, <1>2, <1>3, <1>4, <1>5, <1>6, <1>7, <1>8, <1>9, <1>10, <1>11, <1>12, <1>13
     DEF HandlerStep

-----------------------------------------------------------------------------
(* The safety properties. *)

(* What a transaction that may cancel the job leaves of the run, when the   *)
(* job is not cancelled yet.                                                *)
LEMMA RecordKeepsTogether ==
    ASSUME TypeOK, NeverCancelledWithEvidence, CancelledTogether,
           row.status # "cancelled", RecordIfCancelled
    PROVE  NeverCancelledWithEvidence' /\ CancelledTogether'
<1>w. upload \in Upload /\ evidence \in Evidence
  BY DEF TypeOK
<1> QED
  BY <1>w DEF RecordIfCancelled, RecordCancelled, Relabellable, NeverCancelledWithEvidence,
              CancelledTogether, Upload, Evidence

(* Job and run stay together through every transaction of every party.      *)
LEMMA CancelledStep ==
    ASSUME TypeOK, ExecutedRowRuns, StagesInOrder, NeverCancelledWithEvidence, CancelledTogether,
           [Next]_vars
    PROVE  NeverCancelledWithEvidence' /\ CancelledTogether'
<1> DEFINE Both == NeverCancelledWithEvidence /\ CancelledTogether
<1>w. /\ row \in Row /\ upload \in Upload /\ evidence \in Evidence /\ worker \in Worker
  BY DEF TypeOK
<1>1. CASE Submit
  BY <1>1 DEF Submit, InsertedRow, AbsentRow, NeverCancelledWithEvidence, CancelledTogether
<1>2. CASE CancelRun
  BY <1>2, RecordKeepsTogether DEF CancelRun
<1>3. ASSUME NEW q \in Questions, Confirm(q) PROVE Both'
  BY <1>3, <1>w DEF Confirm, Upload, NeverCancelledWithEvidence, CancelledTogether
<1>4. CASE ResumeConfirmed
  BY <1>4, <1>w, RowPresent
     DEF ResumeConfirmed, Requeueable, NeverCancelledWithEvidence, CancelledTogether
<1>5. CASE ConfirmDies \/ OtherRunSplits \/ ClaimNothing \/ ReadOutcome \/ WorkerDies
  BY <1>5 DEF ConfirmDies, OtherRunSplits, ClaimNothing, ReadOutcome, WorkerDies, tables,
              NeverCancelledWithEvidence, CancelledTogether
<1>6. CASE ExpireLease
  BY <1>6, <1>w DEF ExpireLease, Row, NeverCancelledWithEvidence, CancelledTogether
<1>7. CASE Recover
  <2>1. CASE Abandoned
    BY <1>7, <2>1, RecordKeepsTogether DEF Recover, Abandoned
  <2>2. CASE ~Abandoned
    BY <1>7, <2>2 DEF Recover, NeverCancelledWithEvidence, CancelledTogether
  <2> QED
    BY <2>1, <2>2
<1>8. CASE Claim \/ ClaimExhausted
  BY <1>8, <1>w, RowPresent DEF Claim, ClaimExhausted, NeverCancelledWithEvidence, CancelledTogether
<1>9. CASE HandlerStep \/ Told
  <2>1. row.status = "running" /\ row' = row
    BY <1>9, HandlerFrame DEF ExecutedRowRuns
  <2>2. upload.stage # "cancelled" /\ upload'.stage # "cancelled"
    <3>1. upload.stage # "cancelled"
      BY <2>1 DEF CancelledTogether
    <3> QED
      BY <1>9, <1>w, <3>1
         DEF HandlerStep, Told, Skip, Begin, LoadPlan, ResolveTarget, SplitPoint, Park, Ask,
             StorePlan, Evaluate, FinalTest, LockEvidence, ReuseLocked, Finalize, FailRun, Raise,
             Upload
  <2>3. CancelledTogether'
    BY <2>1, <2>2 DEF CancelledTogether
  <2>4. evidence'.status = "cancelled" =>
          evidence.status = "cancelled" /\ evidence'.locked = evidence.locked
    BY <1>9, <1>w
       DEF HandlerStep, Told, Skip, Begin, LoadPlan, ResolveTarget, SplitPoint, Park, Ask,
           StorePlan, Evaluate, FinalTest, LockEvidence, ReuseLocked, Finalize, FailRun, Raise,
           Evidence
  <2> QED
    BY <2>2, <2>3, <2>4 DEF NeverCancelledWithEvidence
<1>10. CASE SaveOutcome
  BY <1>10, RecordKeepsTogether DEF SaveOutcome, ExecutedRowRuns, Executing
<1>11. CASE UNCHANGED vars
  BY <1>11 DEF vars, NeverCancelledWithEvidence, CancelledTogether
<1> QED
  BY <1>1, <1>2, <1>3, <1>4, <1>5, <1>6, <1>7, <1>8, <1>9, <1>10, <1>11 DEF Next, WorkerStep

(* Only StorePlan stores this run's plan and only FinalTest looks, and both *)
(* are stages whose attempt has settled its split question.                 *)
LEMMA SplitStep ==
    ASSUME TypeOK, StagesInOrder, [Next]_vars, SplitsOrScores
    PROVE  SplitSettled
<1>w. evidence \in Evidence /\ evidence.looks \in Nat
  BY MaxAttemptsAssumption DEF TypeOK, Evidence
<1>1. CASE ~(HandlerStep \/ Told)
  BY <1>1, <1>w, OutsideHandler DEF SplitsOrScores
<1>2. CASE StorePlan \/ FinalTest
  BY <1>2 DEF StorePlan, FinalTest, StagesInOrder
<1>3. CASE (HandlerStep \/ Told) /\ ~StorePlan /\ ~FinalTest
  <2>1. splits' = splits /\ evidence'.looks = evidence.looks
    BY <1>3, <1>w
       DEF HandlerStep, Told, Skip, Begin, LoadPlan, ResolveTarget, SplitPoint, Park, Ask, Evaluate,
           LockEvidence, ReuseLocked, Finalize, FailRun, Raise, RowStays, Evidence
  <2> QED
    BY <1>w, <2>1 DEF SplitsOrScores
<1> QED
  BY <1>1, <1>2, <1>3

(* Nothing reads completed before it is locked. *)
LEMMA EvidenceStep ==
    ASSUME TypeOK, StagesInOrder, CompletedHasEvidence, [Next]_vars
    PROVE  CompletedHasEvidence'
<1> DEFINE Locked == evidence.locked /\ evidence.looks > 0
<1>w. /\ upload \in Upload /\ evidence \in Evidence /\ worker \in Worker
      /\ evidence.looks \in Nat
  BY MaxAttemptsAssumption DEF TypeOK, Evidence
<1>2. Locked => Locked'
  BY NothingUnlearned
<1>4. evidence'.status = "completed" =>
        evidence.status = "completed" \/ Locked \/ LockEvidence
  <2>1. CASE HandlerStep \/ Told
    BY <2>1, <1>w
       DEF HandlerStep, Told, Skip, Begin, LoadPlan, ResolveTarget, SplitPoint, Park, Ask, StorePlan,
           Evaluate, FinalTest, ReuseLocked, Finalize, FailRun, Raise, Evidence, StagesInOrder
  <2>2. CASE ~(HandlerStep \/ Told)
    BY <2>2, <1>w
       DEF Next, WorkerStep, vars, tables, Submit, CancelRun, Confirm, ResumeConfirmed, ConfirmDies,
           OtherRunSplits, ExpireLease, Recover, Claim, ClaimExhausted, ClaimNothing, ReadOutcome, SaveOutcome,
           WorkerDies, RecordIfCancelled, RecordCancelled, Evidence
  <2> QED
    BY <2>1, <2>2
<1>5. upload'.stage = "completed" => upload.stage = "completed" \/ Locked
  <2>1. CASE HandlerStep \/ Told
    BY <2>1, <1>w
       DEF HandlerStep, Told, Skip, Begin, LoadPlan, ResolveTarget, SplitPoint, Park, Ask, StorePlan,
           Evaluate, FinalTest, LockEvidence, ReuseLocked, Finalize, FailRun, Raise, Upload,
           StagesInOrder
  <2>2. CASE ~(HandlerStep \/ Told)
    BY <2>2, <1>w
       DEF Next, WorkerStep, vars, tables, Submit, CancelRun, Confirm, ResumeConfirmed, ConfirmDies,
           OtherRunSplits, ExpireLease, Recover, Claim, ClaimExhausted, ClaimNothing, ReadOutcome, SaveOutcome,
           WorkerDies, RecordIfCancelled, RecordCancelled, Upload
  <2> QED
    BY <2>1, <2>2
<1>6. LockEvidence => Locked'
  BY <1>w DEF LockEvidence, StagesInOrder, Evidence
<1> QED
  BY <1>2, <1>4, <1>5, <1>6 DEF CompletedHasEvidence

(* The question of a waiting run stays open until it is answered.           *)
LEMMA AskedStep ==
    ASSUME TypeOK, [Next]_vars,
           request.status = "needs_input" \/ Answered
    PROVE  request'.status = "needs_input" \/ Answered'
<1>w. upload \in Upload /\ request \in Request
  BY DEF TypeOK
<1>1. Answered => Answered'
  BY NothingUnlearned DEF Answered
<1>2. CASE Submit \/ CancelRun \/ ResumeConfirmed \/ ConfirmDies \/ OtherRunSplits \/ ExpireLease
           \/ Recover \/ Claim \/ ClaimExhausted \/ ClaimNothing \/ ReadOutcome \/ SaveOutcome
           \/ WorkerDies
  <2>1. request' = request
    BY <1>2 DEF Submit, CancelRun, ResumeConfirmed, ConfirmDies, OtherRunSplits, ExpireLease, Recover,
                Claim, ClaimExhausted, ClaimNothing, ReadOutcome, SaveOutcome, WorkerDies, tables
  <2> QED
    BY <1>1, <2>1
<1>3. ASSUME NEW q \in Questions, Confirm(q) PROVE Answered'
  BY <1>3, <1>w DEF Confirm, Questions, Answered, Upload, Request
<1>4. CASE HandlerStep \/ Told
  <2>1. request.status = "needs_input" => request'.status = "needs_input"
    BY <1>4, <1>w
       DEF HandlerStep, Told, Skip, Begin, LoadPlan, ResolveTarget, SplitPoint, Park, Ask, StorePlan,
           Evaluate, FinalTest, LockEvidence, ReuseLocked, Finalize, FailRun, Raise, Request
  <2> QED
    BY <1>1, <2>1
<1>5. CASE UNCHANGED vars
  BY <1>1, <1>5 DEF vars
<1> QED
  BY <1>1, <1>2, <1>3, <1>4, <1>5 DEF Next, WorkerStep

(* A handler that halts for input has asked by the time it returns.         *)
LEMMA HaltsStep ==
    ASSUME TypeOK, ExecutedRowRuns, EndingsAgree, HaltsHaveAsked, [Next]_vars
    PROVE  HaltsHaveAsked'
<1>w. upload \in Upload /\ request \in Request /\ worker \in Worker
  BY DEF TypeOK
<1> SUFFICES ASSUME worker'.pc \in {"ended", "saving"}, worker'.ending = "returned",
                    upload'.stage = "needs_input"
             PROVE  request'.status = "needs_input" \/ Answered'
  BY DEF HaltsHaveAsked
<1>1. CASE HandlerStep \/ Told
  <2>1. PICK q \in Questions : Ask(q)
    <3>1. CASE Skip \/ Finalize \/ FailRun
      <4>1. upload'.stage \in {"skipped", "completed", "failed"}
        BY <1>w, <3>1 DEF Skip, Finalize, FailRun, Upload
      <4> QED
        BY <4>1
    <3>2. CASE \/ Begin \/ LoadPlan \/ ResolveTarget \/ SplitPoint \/ StorePlan \/ Evaluate
               \/ FinalTest \/ LockEvidence \/ ReuseLocked \/ \E q \in Questions : Park(q)
      <4>1. worker'.pc \in {"loading", "target", "park_target", "split", "park_split", "planning",
                            "training", "evaluating", "scored", "finalizing", "ask_target",
                            "ask_split"}
        BY <1>w, <3>2
           DEF Begin, LoadPlan, ResolveTarget, SplitPoint, StorePlan, Evaluate, FinalTest,
               LockEvidence, ReuseLocked, Park, Goto, Worker
      <4> QED
        BY <4>1
    <3>3. CASE Raise \/ Told
      <4>1. worker'.ending \in {"raised", "told"}
        BY <1>w, <3>3 DEF Raise, Told, Worker
      <4> QED
        BY <4>1
    <3> QED
      BY <1>1, <3>1, <3>2, <3>3 DEF HandlerStep
  <2> QED
    BY <2>1, <1>w DEF Ask, Request
<1>2. CASE ~(HandlerStep \/ Told)
  <2>1. worker.pc \in {"ended", "saving"} /\ worker.ending = "returned"
    BY <1>2, OutsideHandler DEF EndingsAgree
  <2>2. upload.stage = "needs_input"
    <3>1. row.status = "running"
      BY <2>1 DEF ExecutedRowRuns, Executing, InHandler
    <3> QED
      BY <1>2, <1>w, <2>1, <3>1
         DEF Next, WorkerStep, vars, tables, Submit, CancelRun, Confirm, ResumeConfirmed, ConfirmDies,
             OtherRunSplits, ExpireLease, Recover, Claim, ClaimExhausted, ClaimNothing, ReadOutcome, SaveOutcome,
             WorkerDies, RecordIfCancelled, RecordCancelled, Upload
  <2> QED
    BY <2>1, <2>2, AskedStep DEF HaltsHaveAsked
<1> QED
  BY <1>1, <1>2

(* A job comes to rest as completed only through execute_job, for a handler *)
(* that returned, and a run comes to wait only while its job runs.          *)
LEMMA RestingStep ==
    ASSUME TypeOK, ExecutedRowRuns, HaltsHaveAsked, RestingMeansAsking, [Next]_vars
    PROVE  RestingMeansAsking'
<1>w. upload \in Upload /\ request \in Request /\ worker \in Worker /\ row \in Row
  BY DEF TypeOK
<1> SUFFICES ASSUME row'.status = "completed", upload'.stage = "needs_input"
             PROVE  request'.status = "needs_input" \/ Answered'
  BY DEF RestingMeansAsking
<1>1. CASE SaveOutcome
  <2>1. row.status = "running" /\ worker.loaded \in Row /\ worker.pc = "saving"
    BY <1>1, <1>w DEF SaveOutcome, ExecutedRowRuns, Executing, Worker
  <2>2. Ending \in {"finished", "parked"}
    BY <1>1, <2>1, <1>w, SavedRowOfRun DEF SaveOutcome
  <2>3. worker.ending = "returned"
    BY <2>2, <1>w DEF Ending, Worker
  <2>4. upload.stage = "needs_input"
    BY <1>1, <1>w DEF SaveOutcome, RecordIfCancelled
  <2> QED
    BY <2>1, <2>3, <2>4, AskedStep DEF HaltsHaveAsked
<1>2. CASE HandlerStep \/ Told
  BY <1>2, HandlerFrame DEF ExecutedRowRuns
<1>3. CASE ~(HandlerStep \/ Told) /\ ~SaveOutcome
  <2>1. row.status = "completed"
    <3>1. CASE Submit \/ CancelRun
      BY <1>w, <3>1 DEF Submit, CancelRun, InsertedRow, AbsentRow, CancelRequestedRow, CancelledRow,
                        Row
    <3>2. CASE ResumeConfirmed \/ Recover \/ Claim \/ ClaimExhausted
      BY <1>w, <3>2, RowPresent DEF ResumeConfirmed, Recover, Claim, ClaimExhausted
    <3>3. CASE ExpireLease
      BY <1>w, <3>3 DEF ExpireLease, Row
    <3>4. CASE ConfirmDies \/ OtherRunSplits \/ ClaimNothing \/ ReadOutcome \/ WorkerDies
               \/ UNCHANGED vars
      BY <3>4 DEF ConfirmDies, OtherRunSplits, ClaimNothing, ReadOutcome, WorkerDies, tables, vars
    <3>5. ASSUME NEW q \in Questions, Confirm(q) PROVE row' = row
      BY <3>5 DEF Confirm
    <3> QED
      BY <1>3, <3>1, <3>2, <3>3, <3>4, <3>5 DEF Next, WorkerStep
  <2>2. upload.stage = "needs_input"
    BY <1>3, <1>w
       DEF Next, WorkerStep, vars, tables, Submit, CancelRun, Confirm, ResumeConfirmed, ConfirmDies,
           OtherRunSplits, ExpireLease, Recover, Claim, ClaimExhausted, ClaimNothing, ReadOutcome,
           WorkerDies, RecordIfCancelled, RecordCancelled, Upload
  <2> QED
    BY <2>1, <2>2, AskedStep DEF RestingMeansAsking
<1> QED
  BY <1>1, <1>2, <1>3

-----------------------------------------------------------------------------
(* The theorems. *)

(* A run that was not submitted yet satisfies the invariant. *)
LEMMA RunInvInit == Init => RunInv
<1> SUFFICES ASSUME Init PROVE RunInv
  OBVIOUS
<1> USE DEF Init
<1>1. TypeOK
  <2>0. AbsentRow \in Row
    BY MaxAttemptsAssumption DEF AbsentRow, Row, Statuses, Leases
  <2>1. IdleWorker \in Worker
    BY <2>0, MaxAttemptsAssumption DEF IdleWorker, NoUpload, Worker, Upload, Stages
  <2>2. upload \in Upload /\ request \in Request
    BY DEF NoUpload, Upload, Stages, Request
  <2>3. evidence \in Evidence /\ crashes \in 0 .. MaxCrashes
    BY MaxAttemptsAssumption, MaxCrashesAssumption DEF Evidence
  <2>4. row \in Row /\ ledger \in Ledger /\ splits \in {"none", "own", "other"}
    BY <2>0 DEF NoAttempts, Ledger, Outcomes
  <2> QED
    BY <2>1, <2>2, <2>3, <2>4 DEF TypeOK
<1>2. /\ ExecutedRowRuns /\ LooksAreAttempts /\ StagesInOrder /\ HaltsHaveAsked /\ EndingsAgree
  BY DEF IdleWorker, AbsentRow, ExecutedRowRuns, LooksAreAttempts, StagesInOrder, HaltsHaveAsked,
         EndingsAgree, Executing, InHandler, BeforeTest, Checkpoints, Halting
<1>3. /\ NeverCancelledWithEvidence /\ CancelledTogether /\ CompletedHasEvidence
      /\ RestingMeansAsking
  BY DEF AbsentRow, NoUpload, NeverCancelledWithEvidence, CancelledTogether,
         CompletedHasEvidence, RestingMeansAsking
<1> QED
  BY <1>1, <1>2, <1>3 DEF RunInv

(* Every committed step of every party keeps it. *)
LEMMA RunInvStep == RunInv /\ [Next]_vars => RunInv'
  BY TypeStep, ExecutedStep, LooksStep, StagesStep, CancelledStep, EvidenceStep, HaltsStep,
     RestingStep DEF RunInv

(* The invariant of a training run holds in every behaviour. *)
THEOREM RunInvariant == Spec => []RunInv
  BY RunInvInit, RunInvStep, PTL DEF Spec

(* Every table and every variable of a run has its type: in particular no   *)
(* run counts more test looks than its job has attempts.                    *)
THEOREM RunTypes == Spec => []TypeOK
<1>1. RunInv => TypeOK
  BY DEF RunInv
<1> QED
  BY <1>1, RunInvariant, PTL

(* "A cancelled run never has locked evidence", whoever cancels it.         *)
THEOREM CancelledWithoutEvidence == Spec => []NeverCancelledWithEvidence
<1>1. RunInv => NeverCancelledWithEvidence
  BY DEF RunInv
<1> QED
  BY <1>1, RunInvariant, PTL

(* Job and run are cancelled together. *)
THEOREM JobAndRunCancelledTogether == Spec => []CancelledTogether
<1>1. RunInv => CancelledTogether
  BY DEF RunInv
<1> QED
  BY <1>1, RunInvariant, PTL

(* However often a run is interrupted and put back, it stores the first     *)
(* split plan or scores the holdout only in an attempt whose split question *)
(* was answered, is not raised by a usable plan, or is dismissed by a split *)
(* plan that exists.                                                        *)
THEOREM SplitOnlyConfirmed == Spec => NothingSplitUnconfirmed
<1>1. RunInv /\ [Next]_vars => [SplitsOrScores => SplitSettled]_vars
  BY SplitStep DEF RunInv
<1> QED
  BY <1>1, RunInvariant, PTL DEF Spec, NothingSplitUnconfirmed

(* A run or an experiment that reads completed has locked evidence that was *)
(* scored, with a split plan or without.                                    *)
THEOREM CompletedIsLocked == Spec => []CompletedHasEvidence
<1>1. RunInv => CompletedHasEvidence
  BY DEF RunInv
<1> QED
  BY <1>1, RunInvariant, PTL

(* A run whose job rests while it waits for input has asked its question.   *)
THEOREM RestingRunsAsk == Spec => []RestingMeansAsking
<1>1. RunInv => RestingMeansAsking
  BY DEF RunInv
<1> QED
  BY <1>1, RunInvariant, PTL

-----------------------------------------------------------------------------
(* The queue's view of the run. *)

(* What the queue asks of the run besides RunInv: nobody is asked before    *)
(* the job is inserted, an inserted job is due, the lease of an executed    *)
(* job is fresh, and only a heartbeat's cancellation reads as "told".       *)
SubmittedFirst ==
    row.status = "absent" => request.status = "running" /\ confirm = "idle"
SubmittedIsDue == row.status # "absent" => row.due
ExecutedLeaseIsFresh == worker.pc \in Executing => row.lease = "fresh"
OnlyStoppedWereTold == worker.pc = "ended" => worker.ending # "told"

ViewInv == RunInv /\ SubmittedFirst /\ SubmittedIsDue /\ ExecutedLeaseIsFresh /\ OnlyStoppedWereTold

(* No function of the job service takes back that a job is due. *)
LEMMA RowsStayDue ==
    ASSUME NEW r \in Row
    PROVE  /\ AfterFailure(r).due \in {r.due, TRUE}
           /\ ClaimedRow(r).due = r.due
           /\ ExhaustedRow(r).due = r.due
           /\ CancelRequestedRow(r).due = r.due
           /\ CompletedRow(r).due = r.due
           /\ FailedRow(r).due = r.due
           /\ CancelledRow(r).due = r.due
           /\ RequeuedRow(r).due
  BY DEF Row, AfterFailure, RetriedRow, FailedRow, CancelledRow, ClaimedRow, ExhaustedRow,
         CancelRequestedRow, CompletedRow, RequeuedRow

(* Nor does the flush of execute_job, whatever copy it was computed from.   *)
LEMMA SavedRowStaysDue ==
    ASSUME NEW now \in Row, NEW loaded \in Row, NEW ending, now.due
    PROVE  Queue!SavedRow("run", now, loaded, ending).due
<1> DEFINE ended == Queue!EndedRow("run", loaded, ending)
           saved == OrmWrite(now, loaded, ended)
           again == OrmWrite(saved, ended, RequeuedRow(ended))
<1>1. ended \in {CompletedRow(loaded), CancelledRow(loaded), FailedRow(loaded),
                 AfterFailure(loaded)}
  BY QueueAlgebra DEF Queue!EndedRow
<1>2. ended \in Row /\ ended.due \in {loaded.due, TRUE}
  BY <1>1, RowTypes, RowsStayDue
<1>3. Queue!SavedRow("run", now, loaded, ending) =
        IF Queue!RequeuesItself("run", loaded, ending) THEN again ELSE saved
  BY QueueAlgebra DEF Queue!SavedRow
<1> HIDE DEF ended
<1>4. saved \in Row /\ saved.due
  BY <1>2, OrmWriteRow DEF OrmWrite, Row
<1>5. RequeuedRow(ended) \in Row /\ RequeuedRow(ended).due
  BY <1>2, RowTypes, RowsStayDue
<1> HIDE DEF saved
<1>6. again.due
  BY <1>2, <1>4, <1>5 DEF OrmWrite, Row
<1> QED
  BY <1>3, <1>4, <1>6

(* The view's conditions hold before the run is submitted ...              *)
LEMMA ViewInit == Init => ViewInv
  BY RunInvInit DEF Init, ViewInv, SubmittedFirst, SubmittedIsDue, ExecutedLeaseIsFresh,
     OnlyStoppedWereTold, AbsentRow, IdleWorker, Executing, InHandler, Checkpoints, Halting

(* ... and no step of any party breaks them.                               *)
LEMMA ViewStep == ViewInv /\ [Next]_vars => ViewInv'
<1> SUFFICES ASSUME ViewInv, [Next]_vars PROVE ViewInv'
  OBVIOUS
<1> DEFINE View == SubmittedFirst /\ SubmittedIsDue /\ ExecutedLeaseIsFresh /\ OnlyStoppedWereTold
<1> USE DEF SubmittedFirst, SubmittedIsDue, ExecutedLeaseIsFresh, OnlyStoppedWereTold
<1>r. RunInv /\ RunInv' /\ View
  BY RunInvStep DEF ViewInv
<1> SUFFICES View'
  BY <1>r DEF ViewInv
<1>w. /\ worker \in Worker /\ row \in Row /\ request \in Request
      /\ worker.loaded \in Row
  BY <1>r DEF RunInv, TypeOK, Worker
<1>x. worker.pc \in Executing => row.status = "running"
  BY <1>r DEF RunInv, ExecutedRowRuns
<1>1. CASE Submit
  BY <1>1, <1>r, <1>x DEF Submit, InsertedRow, AbsentRow
<1>2. CASE CancelRun
  BY <1>2, <1>r, <1>w, <1>x DEF CancelRun, CancelRequestedRow, CancelledRow, Row
<1>3. ASSUME NEW q \in Questions, Confirm(q) PROVE View'
  BY <1>3, <1>r, <1>w DEF Confirm, Request
<1>4. CASE ResumeConfirmed
  <2>1. row.status # "absent"
    BY <1>4, <1>r DEF ResumeConfirmed
  <2>2. row' = row \/ (row.status # "running" /\ row' = RequeuedRow(row))
    BY <1>4 DEF ResumeConfirmed
  <2>3. row'.status # "absent" /\ row'.due
    BY <2>1, <2>2, <1>r, <1>w, RowsStayDue, RowPresent
  <2>4. UNCHANGED <<request, worker>>
    BY <1>4 DEF ResumeConfirmed
  <2>5. worker.pc \in Executing => row' = row
    BY <2>2, <1>x
  <2> QED
    BY <2>3, <2>4, <2>5, <1>r
<1>5. CASE ConfirmDies \/ OtherRunSplits
  BY <1>5, <1>r DEF ConfirmDies, OtherRunSplits, tables
<1>6. CASE ExpireLease
  BY <1>6, <1>r, <1>w DEF ExpireLease, Row
<1>7. CASE Recover
  <2>1. worker' = [worker EXCEPT !.pc = "claim"] /\ UNCHANGED <<request, confirm>>
    BY <1>7 DEF Recover
  <2>2. row' = row \/ (row.status = "running" /\ row' = AfterFailure(row))
    BY <1>7 DEF Recover, Abandoned
  <2>3. /\ row'.status = "absent" => row.status = "absent"
        /\ row'.status # "absent" => row'.due
    BY <2>2, <1>r, <1>w, RowsStayDue, RowPresent
  <2> QED
    BY <2>1, <2>3, <1>r, <1>w DEF Worker, Executing, InHandler, Checkpoints, Halting
<1>8. CASE Claim
  BY <1>8, <1>r, <1>w, RowsStayDue, RowPresent
     DEF Claim, ClaimedRow, IdleWorker, Row
<1>9. CASE ClaimExhausted
  BY <1>9, <1>r, <1>w, RowsStayDue, RowPresent
     DEF ClaimExhausted, IdleWorker, Executing, InHandler, Checkpoints, Halting
<1>10. CASE ClaimNothing \/ WorkerDies
  BY <1>10, <1>r DEF ClaimNothing, WorkerDies, tables, IdleWorker, Executing, InHandler,
     Checkpoints, Halting
<1>11. CASE HandlerStep \/ Told
  <2>1. worker.pc \in Executing /\ row.status = "running"
    BY <1>11, <1>x, HandlerFrame
  <2>2. row' = row /\ confirm' = confirm
    BY <1>11 DEF HandlerStep, Told, Skip, Begin, LoadPlan, ResolveTarget, SplitPoint, Park, Ask,
       StorePlan, Evaluate, FinalTest, LockEvidence, ReuseLocked, Finalize, FailRun, Raise, RowStays
  <2>3. OnlyStoppedWereTold'
    BY <1>11, <1>r, <1>w DEF RunInv, EndingsAgree, BeforeTest, HandlerStep, Told, Skip, Begin,
       LoadPlan, ResolveTarget, SplitPoint, Park, Ask, StorePlan, Evaluate, FinalTest,
       LockEvidence, ReuseLocked, Finalize, FailRun, Raise, RowStays, Goto, Worker, Checkpoints,
       Halting
  <2> QED
    BY <2>1, <2>2, <2>3, <1>r
<1>12. CASE ReadOutcome
  BY <1>12, <1>r, <1>w DEF ReadOutcome, tables, Worker, Executing, InHandler
<1>13. CASE SaveOutcome
  <2>1. row.status = "running" /\ row.due
    BY <1>13, <1>x, <1>r DEF SaveOutcome, Executing
  <2>2. row' = Queue!SavedRow("run", row, worker.loaded, Ending) /\ worker' = IdleWorker
    BY <1>13 DEF SaveOutcome
  <2>3. row'.status # "absent" /\ row'.due
    BY <2>1, <2>2, <1>w, SavedRowOfRun, SavedRowStaysDue
  <2> QED
    BY <2>2, <2>3 DEF IdleWorker, Executing, InHandler, Checkpoints, Halting
<1>14. CASE UNCHANGED vars
  BY <1>14, <1>r DEF vars
<1> HIDE DEF View
<1> QED
  BY <1>1, <1>2, <1>3, <1>4, <1>5, <1>6, <1>7, <1>8, <1>9, <1>10, <1>11, <1>12, <1>13, <1>14
     DEF Next, WorkerStep
(* The queue's row functions, as the instance names them, once more.        *)
LEMMA QueueSteps ==
    ASSUME NEW r, NEW due, NEW n, NEW outcome, NEW attempts
    PROVE  /\ Queue!InsertedRow(due) = InsertedRow(due)
           /\ Queue!ClaimedRow(r) = ClaimedRow(r)
           /\ Queue!ExhaustedRow(r) = ExhaustedRow(r)
           /\ Queue!CancelRequestedRow(r) = CancelRequestedRow(r)
           /\ Queue!Requeueable(r) = Requeueable(r)
           /\ Queue!StartAttempt(attempts, n) = StartAttempt(attempts, n)
           /\ Queue!EndAttempt(attempts, n, outcome) = EndAttempt(attempts, n, outcome)
  BY DEF Queue!InsertedRow, Queue!AbsentRow, InsertedRow, AbsentRow, Queue!ClaimedRow, ClaimedRow,
     Queue!ExhaustedRow, ExhaustedRow, Queue!CancelRequestedRow, CancelRequestedRow,
     Queue!CancelledRow, CancelledRow, Queue!Requeueable, Requeueable, Queue!StartAttempt,
     StartAttempt, Queue!EndAttempt, EndAttempt

(* What the queue's worker is doing follows from the place of the run's.    *)
LEMMA WorkerView ==
    /\ QueueWorker.pc = QueuePc
    /\ QueueWorker.attempt = worker.attempt /\ QueueWorker.loaded = worker.loaded
    /\ worker.pc \in InHandler => QueuePc = "handler" /\ QueueWorker.job = "run"
                                 /\ QueueWorker.ending = "finished"
    /\ worker.pc \in {"stopping", "saving"} =>
         QueuePc = worker.pc /\ QueueWorker.job = "run" /\ QueueWorker.ending = Ending
    /\ worker.pc \in {"recover", "claim"} =>
         QueuePc = worker.pc /\ QueueWorker.job = "none" /\ QueueWorker.ending = "finished"
  BY DEF QueueWorker, QueuePc, Executing, InHandler, Checkpoints, Halting

(* It is a record of these five fields and no other. *)
LEMMA QueueRecord ==
    QueueWorker = [pc |-> QueueWorker.pc, job |-> QueueWorker.job, attempt |-> QueueWorker.attempt,
                   ending |-> QueueWorker.ending, loaded |-> QueueWorker.loaded]
  BY DEF QueueWorker

(* A record that lies in the set of exactly one record is that record.      *)
LEMMA OneWorkerRecord ==
    ASSUME NEW pc, NEW job, NEW attempt, NEW ending, NEW loaded,
           NEW r \in [pc : {pc}, job : {job}, attempt : {attempt}, ending : {ending},
                      loaded : {loaded}]
    PROVE  r = [pc |-> pc, job |-> job, attempt |-> attempt, ending |-> ending,
                loaded |-> loaded]
  OBVIOUS

(* It moves only with the run's worker.                                     *)
LEMMA ViewUnchanged ==
    ASSUME worker' = worker
    PROVE  QueueWorker' = QueueWorker
  BY DEF QueueWorker, QueuePc, Ending, EndingOf, Waiting

(* An empty run is an empty queue.                                         *)
LEMMA QueueInit == Init => Queue!Init
  BY DEF QueueWorker, QueuePc, IdleWorker, Queue!Idle, Executing, InHandler, Checkpoints, Halting,
     Init, Queue!Init, Queue!AbsentRow, AbsentRow, Queue!NoAttempts, NoAttempts

(* One action of the run, one action of the queue, or a stutter of it.     *)
LEMMA QueueStep == ViewInv /\ [Next]_vars => [Queue!Next]_(Queue!vars)
<1> SUFFICES ASSUME ViewInv, [Next]_vars PROVE [Queue!Next]_(Queue!vars)
  OBVIOUS
<1> DEFINE Done == Queue!Next \/ UNCHANGED Queue!vars
<1> SUFFICES Done
  OBVIOUS
<1>w. /\ worker \in Worker /\ row \in Row /\ RunInv
      /\ SubmittedFirst /\ SubmittedIsDue /\ ExecutedLeaseIsFresh /\ OnlyStoppedWereTold
      /\ ExecutedRowRuns /\ EndingsAgree
  BY DEF ViewInv, RunInv, TypeOK
<1>0. ASSUME UNCHANGED <<row, ledger, worker>> PROVE Done
  BY <1>0, ViewUnchanged DEF Queue!vars
<1>1. CASE Submit
  <2>1. UNCHANGED QueueWorker
    BY <1>1, ViewUnchanged DEF Submit
  <2>2. Queue!Create("run", TRUE)
    BY <1>1, <2>1, QueueSteps DEF Submit, Queue!Create
  <2> QED
    BY <2>2 DEF Queue!Next
<1>2. CASE CancelRun
  <2>1. UNCHANGED QueueWorker
    BY <1>2, ViewUnchanged DEF CancelRun
  <2>2. Queue!Cancel("run")
    BY <1>2, <2>1, QueueSteps DEF CancelRun, Queue!Cancel
  <2> QED
    BY <2>2 DEF Queue!Next
<1>3. ASSUME NEW q \in Questions, Confirm(q) PROVE Done
  BY <1>3, <1>0 DEF Confirm
<1>4. CASE ResumeConfirmed
  <2>1. CASE row.status # "running" /\ Requeueable(row)
    <3>1. UNCHANGED QueueWorker
      BY <1>4, ViewUnchanged DEF ResumeConfirmed
    <3>2. row.status # "absent"
      BY <1>4, <1>w DEF ResumeConfirmed, SubmittedFirst
    <3>3. Queue!Resume("run")
      BY <1>4, <2>1, <3>1, <3>2, QueueSteps, QueueAlgebra DEF ResumeConfirmed, Queue!Resume
    <3> QED
      BY <3>3 DEF Queue!Next
  <2>2. CASE ~(row.status # "running" /\ Requeueable(row))
    BY <1>4, <2>2, <1>0 DEF ResumeConfirmed
  <2> QED
    BY <2>1, <2>2
<1>5. CASE ConfirmDies \/ OtherRunSplits
  BY <1>5, <1>0 DEF ConfirmDies, OtherRunSplits, tables
<1>6. CASE ExpireLease
  <2>1. UNCHANGED QueueWorker
    BY <1>6, ViewUnchanged DEF ExpireLease
  <2>2. QueueWorker.pc \notin {"handler", "stopping", "saving"}
    BY <1>6, <1>w, WorkerView DEF ExpireLease, Worker
  <2>3. Queue!ExpireLease("run")
    BY <1>6, <2>1, <2>2 DEF ExpireLease, Queue!ExpireLease, Queue!Holds, Queue!Executing
  <2> QED
    BY <2>3 DEF Queue!Next
<1>7. CASE Recover
  <2>1. /\ QueueWorker.pc = "recover"
        /\ QueueWorker' = [QueueWorker EXCEPT !.pc = "claim"]
    BY <1>7, <1>w DEF Recover, QueueWorker, QueuePc, Worker, Executing, InHandler, Checkpoints,
       Halting
  <2>2. Queue!Abandoned("run") <=> Abandoned
    BY DEF Queue!Abandoned, Abandoned
  <2>3. /\ row' = IF Abandoned THEN AfterFailure(row) ELSE row
        /\ ledger' = IF Abandoned
                     THEN EndAttempt(ledger, row.attempts, FailureOutcome(AfterFailure(row)))
                     ELSE ledger
    BY <1>7 DEF Recover
  <2>4. Queue!Recover("worker")
    BY <2>1, <2>2, <2>3, QueueSteps, QueueAlgebra DEF Queue!Recover
  <2> QED
    BY <2>4 DEF Queue!Next, Queue!WorkerStep
<1>8. CASE Claim
  <2>1. /\ QueueWorker.pc = "claim"
        /\ QueueWorker' = [Queue!Idle EXCEPT !.pc = "handler", !.job = "run",
                                             !.attempt = row.attempts + 1]
    <3>1. worker' = [IdleWorker EXCEPT !.pc = "start", !.attempt = row.attempts + 1]
      BY <1>8 DEF Claim
    <3>2. /\ worker'.pc = "start" /\ worker'.attempt = row.attempts + 1
          /\ worker'.loaded = AbsentRow
      BY <3>1 DEF IdleWorker
    <3>3. QueueWorker' = [pc |-> "handler", job |-> "run", attempt |-> row.attempts + 1,
                          ending |-> "finished", loaded |-> AbsentRow]
      BY <3>2 DEF QueueWorker, QueuePc, Executing, InHandler
    <3>4. [Queue!Idle EXCEPT !.pc = "handler", !.job = "run", !.attempt = row.attempts + 1] =
            [pc |-> "handler", job |-> "run", attempt |-> row.attempts + 1,
             ending |-> "finished", loaded |-> AbsentRow]
      <4>1. Queue!Idle = [pc |-> "recover", job |-> "none", attempt |-> 0,
                          ending |-> "finished", loaded |-> AbsentRow]
        BY DEF Queue!Idle, Queue!AbsentRow, AbsentRow
      <4>2. [Queue!Idle EXCEPT !.pc = "handler", !.job = "run", !.attempt = row.attempts + 1]
              \in [pc : {"handler"}, job : {"run"}, attempt : {row.attempts + 1},
                   ending : {"finished"}, loaded : {AbsentRow}]
        BY <4>1
      <4> QED
        BY <4>2, OneWorkerRecord
    <3>5. QueueWorker.pc = "claim"
      BY <1>8, WorkerView DEF Claim
    <3> QED
      BY <3>3, <3>4, <3>5
  <2>2. row.due
    BY <1>8, <1>w DEF Claim, SubmittedIsDue
  <2>3. Queue!Claim("worker", "run")
    BY <1>8, <2>1, <2>2, QueueSteps DEF Claim, Queue!Claim, Queue!Claimable
  <2> QED
    BY <2>3 DEF Queue!Next, Queue!WorkerStep
<1>9. CASE ClaimExhausted
  <2>1. QueueWorker.pc = "claim" /\ QueueWorker' = Queue!Idle
    BY <1>9 DEF ClaimExhausted, QueueWorker, QueuePc, Executing, InHandler, Checkpoints, Halting,
       IdleWorker, Queue!Idle, Queue!AbsentRow, AbsentRow
  <2>2. row.due
    BY <1>9, <1>w DEF ClaimExhausted, SubmittedIsDue
  <2>3. Queue!ClaimExhausted("worker", "run")
    BY <1>9, <2>1, <2>2, QueueSteps DEF ClaimExhausted, Queue!ClaimExhausted, Queue!Claimable
  <2> QED
    BY <2>3 DEF Queue!Next, Queue!WorkerStep
<1>10. CASE ClaimNothing
  <2>1. QueueWorker.pc = "claim" /\ QueueWorker' = Queue!Idle
    BY <1>10 DEF ClaimNothing, QueueWorker, QueuePc, Executing, InHandler, Checkpoints, Halting,
       IdleWorker, Queue!Idle, Queue!AbsentRow, AbsentRow
  <2>2. Queue!ClaimNothing("worker")
    BY <1>10, <2>1 DEF ClaimNothing, tables, Queue!ClaimNothing
  <2> QED
    BY <2>2 DEF Queue!Next, Queue!WorkerStep
<1>11. CASE HandlerStep
  <2>1. /\ worker.pc \in InHandler /\ worker'.pc \in InHandler
        /\ worker'.attempt = worker.attempt /\ worker'.loaded = worker.loaded
        /\ UNCHANGED <<row, ledger>>
    BY <1>11, <1>w DEF HandlerStep, Skip, Begin, LoadPlan, ResolveTarget, SplitPoint, Park, Ask,
       StorePlan, Evaluate, FinalTest, LockEvidence, ReuseLocked, Finalize, FailRun, Raise,
       RowStays, Goto, Worker, InHandler, Checkpoints, Halting
  <2>2. QueueWorker' = QueueWorker
    BY <2>1 DEF QueueWorker, QueuePc, Executing, InHandler, Checkpoints, Halting
  <2> QED
    BY <2>1, <2>2 DEF Queue!vars
<1>12. CASE Told
  <2>1. /\ QueueWorker.pc = "handler" /\ QueueWorker.job = "run"
        /\ QueueWorker' = [QueueWorker EXCEPT !.pc = "stopping", !.ending = "told"]
    <3>1. worker.pc \in InHandler
      BY <1>12 DEF Told, InHandler
    <3>2. /\ worker'.pc = "stopping" /\ worker'.ending = "told"
          /\ worker'.attempt = worker.attempt /\ worker'.loaded = worker.loaded
      BY <1>12, <1>w DEF Told, Worker
    <3>3. QueueWorker' = [pc |-> "stopping", job |-> "run", attempt |-> worker.attempt,
                          ending |-> "told", loaded |-> worker.loaded]
      BY <3>2 DEF QueueWorker, QueuePc, Ending, Executing, InHandler, Checkpoints, Halting
    <3>4. QueueWorker.pc = "handler" /\ QueueWorker.job = "run"
      BY <3>1, WorkerView
    <3>5. [QueueWorker EXCEPT !.pc = "stopping", !.ending = "told"] = QueueWorker'
      <4>1. [QueueWorker EXCEPT !.pc = "stopping", !.ending = "told"]
              \in [pc : {"stopping"}, job : {"run"}, attempt : {worker.attempt},
                   ending : {"told"}, loaded : {worker.loaded}]
        BY <3>4, WorkerView, QueueRecord
      <4> QED
        BY <4>1, OneWorkerRecord, <3>3
    <3> QED
      BY <3>4, <3>5
  <2>2. /\ row.status = "running" /\ row.cancel /\ row' = row /\ ledger' = ledger
        /\ row = [row EXCEPT !.lease = "fresh"]
    BY <1>12, <1>w DEF Told, RowStays, ExecutedRowRuns, ExecutedLeaseIsFresh, Executing, InHandler,
       Row
  <2>3. Queue!Heartbeat("worker")
    BY <2>1, <2>2 DEF Queue!Heartbeat
  <2> QED
    BY <2>3 DEF Queue!Next
<1>13. CASE ReadOutcome
  <2>0. /\ worker' = [worker EXCEPT !.pc = "saving", !.loaded = row, !.seen = upload]
        /\ UNCHANGED <<row, ledger>>
    BY <1>13 DEF ReadOutcome, tables
  <2>1. CASE worker.pc = "ended"
    <3>1. /\ QueueWorker.pc = "handler" /\ QueueWorker.job = "run"
          /\ QueueWorker' = [QueueWorker EXCEPT !.pc = "saving", !.ending = Ending',
                                                !.loaded = row]
      <4>1. worker.pc \in InHandler
        BY <2>1 DEF InHandler
      <4>2. /\ worker'.pc = "saving" /\ worker'.attempt = worker.attempt /\ worker'.loaded = row
        BY <2>0, <1>w DEF Worker
      <4>3. QueueWorker' = [pc |-> "saving", job |-> "run", attempt |-> worker.attempt,
                            ending |-> Ending', loaded |-> row]
        BY <4>2 DEF QueueWorker, QueuePc, Executing, InHandler, Checkpoints, Halting
      <4>4. QueueWorker.pc = "handler" /\ QueueWorker.job = "run"
        BY <4>1, WorkerView
      <4>5. [QueueWorker EXCEPT !.pc = "saving", !.ending = Ending', !.loaded = row] = QueueWorker'
        <5>1. [QueueWorker EXCEPT !.pc = "saving", !.ending = Ending', !.loaded = row]
                \in [pc : {"saving"}, job : {"run"}, attempt : {worker.attempt},
                     ending : {Ending'}, loaded : {row}]
          BY <4>4, WorkerView, QueueRecord
        <5> QED
          BY <5>1, OneWorkerRecord, <4>3
      <4> QED
        BY <4>4, <4>5
    <3>2. Ending' \in {"finished", "parked", "resume", "stopped", "raised"}
      BY <2>0, <2>1, <1>w DEF Ending, EndingOf, OnlyStoppedWereTold, Worker
    <3>3. Ending' \in Queue!EndingsOf("run") /\ Ending' \in Queue!Endings
      BY <3>2 DEF Queue!EndingsOf, Queue!Endings
    <3>4. Queue!HandlerEnds("worker", Ending')
      BY <2>0, <3>1, <3>3 DEF Queue!HandlerEnds
    <3> QED
      BY <3>3, <3>4 DEF Queue!Next, Queue!WorkerStep
  <2>2. CASE worker.pc = "stopping"
    <3>1. /\ QueueWorker.pc = "stopping" /\ QueueWorker.job = "run"
          /\ QueueWorker' = [QueueWorker EXCEPT !.pc = "saving", !.loaded = row]
      <4>1. Ending = "told" /\ Ending' = "told"
        BY <2>0, <2>2, <1>w DEF Ending, EndingsAgree, Worker
      <4>2. /\ worker'.pc = "saving" /\ worker'.attempt = worker.attempt /\ worker'.loaded = row
        BY <2>0, <1>w DEF Worker
      <4>3. QueueWorker' = [pc |-> "saving", job |-> "run", attempt |-> worker.attempt,
                            ending |-> "told", loaded |-> row]
        BY <4>1, <4>2 DEF QueueWorker, QueuePc, Executing, InHandler, Checkpoints, Halting
      <4>4. QueueWorker.pc = "stopping" /\ QueueWorker.job = "run" /\ QueueWorker.ending = "told"
        BY <2>2, <4>1, WorkerView
      <4>5. [QueueWorker EXCEPT !.pc = "saving", !.loaded = row] = QueueWorker'
        <5>1. [QueueWorker EXCEPT !.pc = "saving", !.loaded = row]
                \in [pc : {"saving"}, job : {"run"}, attempt : {worker.attempt},
                     ending : {"told"}, loaded : {row}]
          BY <4>4, WorkerView, QueueRecord
        <5> QED
          BY <5>1, OneWorkerRecord, <4>3
      <4> QED
        BY <4>4, <4>5
    <3>2. Queue!HandlerStops("worker")
      BY <2>0, <3>1 DEF Queue!HandlerStops
    <3> QED
      BY <3>2 DEF Queue!Next, Queue!WorkerStep
  <2> QED
    BY <1>13, <2>1, <2>2 DEF ReadOutcome
<1>14. CASE SaveOutcome
  <2>1. /\ QueueWorker.pc = "saving" /\ QueueWorker.job = "run"
        /\ QueueWorker.loaded = worker.loaded /\ QueueWorker.ending = Ending
        /\ QueueWorker' = Queue!Idle
    BY <1>14, <1>w DEF SaveOutcome, QueueWorker, QueuePc, Executing, InHandler, Checkpoints,
       Halting, IdleWorker, Queue!Idle, Queue!AbsentRow, AbsentRow
  <2>2. /\ row' = Queue!SavedRow("run", row, worker.loaded, Ending)
        /\ ledger' = EndAttempt(ledger, worker.loaded.attempts,
                                Queue!EndedOutcome("run", worker.loaded, Ending))
    BY <1>14 DEF SaveOutcome
  <2> DEFINE saved == Queue!SavedRow("run", row, worker.loaded, Ending)
             outcome == Queue!EndedOutcome("run", worker.loaded, Ending)
  <2>3. /\ [j \in {"run"} |-> row'] = [[j \in {"run"} |-> row] EXCEPT !["run"] = saved]
        /\ [j \in {"run"} |-> ledger'] =
             [[j \in {"run"} |-> ledger] EXCEPT !["run"] =
                Queue!EndAttempt(ledger, worker.loaded.attempts, outcome)]
    <3> HIDE DEF saved, outcome
    <3> QED
      BY <2>2, QueueSteps DEF saved, outcome
  <2>4. [w \in {"worker"} |-> QueueWorker'] =
          [[w \in {"worker"} |-> QueueWorker] EXCEPT !["worker"] = Queue!Idle]
    BY <2>1
  <2>5. Queue!SaveOutcome("worker")
    BY <2>1, <2>3, <2>4 DEF Queue!SaveOutcome
  <2> QED
    BY <2>5 DEF Queue!Next, Queue!WorkerStep
<1>15. CASE WorkerDies
  <2>1. /\ QueueWorker.pc \in {"handler", "stopping", "saving"}
        /\ QueueWorker' = Queue!Idle
    BY <1>15 DEF WorkerDies, QueueWorker, QueuePc, Executing, InHandler, Checkpoints, Halting,
       IdleWorker, Queue!Idle, Queue!AbsentRow, AbsentRow
  <2>2. Queue!Crash("worker")
    BY <1>15, <2>1 DEF WorkerDies, tables, Queue!Crash, Queue!Executing
  <2> QED
    BY <2>2 DEF Queue!Next
<1>16. CASE UNCHANGED vars
  BY <1>16, <1>0 DEF vars
<1> HIDE DEF Done
<1> QED
  BY <1>1, <1>2, <1>3, <1>4, <1>5, <1>6, <1>7, <1>8, <1>9, <1>10, <1>11, <1>12, <1>13, <1>14,
     <1>15, <1>16 DEF Next, WorkerStep
(* A run is a job of the queue: every step of its handler, of a             *)
(* confirmation and of a cancellation is one that MlJobQueue allows its     *)
(* only job and its only worker, so what is proved of the queue holds here. *)
THEOREM RunImplementsQueue == Spec => ImplementsQueue
  BY ViewInit, ViewStep, QueueInit, QueueStep, PTL DEF Spec, ImplementsQueue, Queue!Spec
=============================================================================
