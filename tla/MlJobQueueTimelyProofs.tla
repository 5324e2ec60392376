----------------------- MODULE MlJobQueueTimelyProofs -----------------------
(***************************************************************************)
(* What MlJobQueue guarantees when no lease expires under a live worker:   *)
(* one worker per job, rows no two writers mixed, one open attempt per     *)
(* run, and terminal states that workers never leave.                      *)
(***************************************************************************)
EXTENDS MlJobQueueProofs

-----------------------------------------------------------------------------
(* The row algebra keeps whole rows whole. *)
LEMMA WholeRows ==
    ASSUME NEW r \in Row
    PROVE  /\ \A due \in BOOLEAN : Whole(InsertedRow(due))
           /\ Whole(r) /\ r.status = "queued" =>
                /\ Whole(ClaimedRow(r)) /\ ClaimedRow(r).lease = "fresh"
           /\ Whole(ExhaustedRow(r))
           /\ Whole(CompletedRow(r))
           /\ Whole(FailedRow(r))
           /\ Whole(CancelledRow(r))
           /\ Whole(r) => Whole(RequeuedRow(r))
           /\ Whole(AfterFailure(r))
           /\ Whole(r) => Whole(CancelRequestedRow(r))
<1>1. \A due \in BOOLEAN : Whole(InsertedRow(due))
  BY DEF Whole, InsertedRow, AbsentRow, Settled
<1>2. Whole(r) /\ r.status = "queued" =>
        Whole(ClaimedRow(r)) /\ ClaimedRow(r).lease = "fresh"
  BY DEF Whole, ClaimedRow, Row, Settled
<1>3. /\ Whole(ExhaustedRow(r)) /\ Whole(CompletedRow(r))
      /\ Whole(FailedRow(r)) /\ Whole(CancelledRow(r)) /\ Whole(RetriedRow(r))
  BY DEF Whole, ExhaustedRow, CompletedRow, FailedRow, CancelledRow, RetriedRow, Row, Settled
<1>4. Whole(r) => Whole(RequeuedRow(r))
  BY DEF Whole, RequeuedRow, Row, Settled
<1>5. Whole(AfterFailure(r))
  BY <1>3 DEF AfterFailure
<1>6. Whole(r) => Whole(CancelRequestedRow(r))
  BY DEF Whole, CancelRequestedRow, CancelledRow, Row, Settled
<1> QED
  BY <1>1, <1>2, <1>3, <1>4, <1>5, <1>6

(* A worker that read its own running row and flushes over its own running  *)
(* row leaves a whole row that no longer runs.                              *)
LEMMA SavedRowEndsRun ==
    ASSUME NEW j, NEW now \in Row, NEW loaded \in Row, NEW ending \in Endings,
           now.status = "running", now.lease = "fresh", ~now.done,
           loaded.status = "running", loaded.lease = "fresh", ~loaded.done
    PROVE  /\ Whole(SavedRow(j, now, loaded, ending))
           /\ SavedRow(j, now, loaded, ending).status # "running"
<1> DEFINE ended == EndedRow(j, loaded, ending)
           saved == OrmWrite(now, loaded, ended)
           again == OrmWrite(saved, ended, RequeuedRow(ended))
<1>1. /\ ended \in Row /\ Whole(ended)
      /\ ended.status \in {"queued", "completed", "failed", "cancelled"}
  BY RowTypes, RowPresent, WholeRows DEF EndedRow
<1>2. /\ RequeuedRow(ended) \in Row /\ Whole(RequeuedRow(ended))
      /\ RequeuedRow(ended).status = "queued"
  BY <1>1, RowTypes, RowPresent, WholeRows
<1> HIDE DEF ended
<1>3. saved \in Row /\ saved.status = ended.status /\ saved.lease = "none"
  BY <1>1, OrmWriteRow DEF Whole
<1>4. saved.done = ended.done
  BY <1>1, OrmWriteRow DEF Row
<1>5. Whole(saved) /\ saved.status # "running"
  BY <1>1, <1>3, <1>4 DEF Whole, Settled
<1> HIDE DEF saved
<1>6. /\ again \in Row /\ again.status = "queued" /\ again.lease = "none"
      /\ again.done = RequeuedRow(ended).done
  BY <1>1, <1>2, <1>3, <1>4, OrmWriteRow DEF Whole, Row
<1>7. Whole(again) /\ again.status # "running"
  BY <1>2, <1>6 DEF Whole, Settled
<1> QED
  BY <1>5, <1>7 DEF SavedRow, ended, saved

(* Closing the attempt of a run that ends leaves no open attempt. *)
LEMMA ClosedWithRun ==
    ASSUME NEW l \in Ledger, NEW r \in Row, NEW after \in Row, OpenIsRun(l, r),
           NEW outcome \in Outcomes \ {"none", "running"}, after.status # "running"
    PROVE  OpenIsRun(EndAttempt(l, r.attempts, outcome), after)
  BY EndAttemptKeepsRows DEF OpenIsRun

-----------------------------------------------------------------------------
(* The empty tables satisfy the invariant.                                  *)
LEMMA TimelyInit == Init => TimelyInv
<1> SUFFICES ASSUME Init PROVE TimelyInv
  OBVIOUS
<1> USE IdleType DEF Init
<1>1. AlwaysInv
  BY AlwaysInit
<1>2. \A w \in Workers : ~Executing(w)
  BY DEF Executing
<1>3. ExecutedRowsRun /\ LoadedRowsRun /\ OneWorkerPerJob
  BY <1>2 DEF ExecutedRowsRun, LoadedRowsRun, OneWorkerPerJob, Busy, Executing
<1>4. RowsAreWhole
  BY DEF RowsAreWhole, Whole, AbsentRow, Settled
<1>5. OpenAttemptIsTheRun
  BY DEF OpenAttemptIsTheRun, OpenIsRun, AbsentRow, NoAttempts
<1> QED
  BY <1>1, <1>3, <1>4, <1>5 DEF TimelyInv

(* Writing one row nobody executes, or one that goes on running under the   *)
(* same lease and claim.                                                    *)
LEMMA TimelyRowWritten ==
    ASSUME TimelyInv, AlwaysInv', NEW j \in Jobs, NEW row \in Row, Whole(row),
           row.attempts = rows[j].attempts,
           row.status = "running" <=> rows[j].status = "running",
           rows[j].status = "running" =>
               \/ row.lease = rows[j].lease
               \/ row.lease = "fresh"
               \/ \A w \in Workers : ~Busy(w, j),
           rows' = [rows EXCEPT ![j] = row], UNCHANGED <<ledger, worker>>
    PROVE  TimelyInv'
<1>0. /\ rows \in [Jobs -> Row] /\ worker \in [Workers -> Worker]
      /\ HoldersHaveJobs
  BY DEF TimelyInv, AlwaysInv, TypeOK
<1>1. /\ rows'[j] = row
      /\ \A i \in Jobs : i # j => rows'[i] = rows[i]
  BY <1>0
<1>2. ExecutedRowsRun'
  <2> SUFFICES ASSUME NEW w \in Workers, Executing(w)
               PROVE  /\ rows'[worker[w].job].status = "running"
                      /\ rows'[worker[w].job].lease = "fresh"
                      /\ rows'[worker[w].job].attempts = worker[w].attempt
    BY DEF ExecutedRowsRun, Executing
  <2>1. /\ worker[w].job \in Jobs /\ rows[worker[w].job].status = "running"
        /\ rows[worker[w].job].lease = "fresh"
        /\ rows[worker[w].job].attempts = worker[w].attempt
    BY <1>0 DEF HoldersHaveJobs, TimelyInv, ExecutedRowsRun
  <2>2. Busy(w, worker[w].job)
    BY DEF Busy
  <2> QED
    BY <1>1, <2>1, <2>2
<1>3. LoadedRowsRun' /\ OneWorkerPerJob'
  BY DEF TimelyInv, LoadedRowsRun, OneWorkerPerJob, Busy, Executing
<1>4. RowsAreWhole'
  BY <1>1 DEF TimelyInv, RowsAreWhole
<1>5. OpenAttemptIsTheRun'
  <2>1. \A i \in Jobs : ledger'[i] = ledger[i]
    OBVIOUS
  <2> QED
    BY <1>1, <2>1 DEF TimelyInv, OpenAttemptIsTheRun, OpenIsRun
<1> QED
  BY <1>2, <1>3, <1>4, <1>5 DEF TimelyInv

(* It looks at the three variables only.                                    *)
LEMMA TimelyStutter == TimelyInv /\ UNCHANGED vars => TimelyInv'
<1> SUFFICES ASSUME TimelyInv, UNCHANGED vars PROVE TimelyInv'
  OBVIOUS
<1>1. AlwaysInv'
  BY AlwaysStutter DEF TimelyInv
<1>2. /\ ExecutedRowsRun' /\ LoadedRowsRun' /\ OneWorkerPerJob'
      /\ RowsAreWhole' /\ OpenAttemptIsTheRun'
  BY DEF vars, TimelyInv, ExecutedRowsRun, LoadedRowsRun, OneWorkerPerJob, Busy, Executing,
     RowsAreWhole, OpenAttemptIsTheRun, OpenIsRun
<1> QED
  BY <1>1, <1>2 DEF TimelyInv

(* Without late workers every step preserves it: a row somebody executes is *)
(* written by that worker, by a cancel request or by a heartbeat only.      *)
LEMMA TimelyStep ==
    ASSUME ~LateWorkers, TimelyInv, [Next]_vars
    PROVE  TimelyInv'
<1>0. /\ MaxAttempts \in Nat /\ AlwaysInv
      /\ rows \in [Jobs -> Row] /\ ledger \in [Jobs -> Ledger]
      /\ worker \in [Workers -> Worker] /\ HoldersHaveJobs
      /\ ExecutedRowsRun /\ LoadedRowsRun /\ OneWorkerPerJob /\ RowsAreWhole
      /\ OpenAttemptIsTheRun
  BY IdleType DEF TimelyInv, AlwaysInv, TypeOK
<1>1. AlwaysInv'
  BY AlwaysStep DEF TimelyInv
<1>a. \A j \in Jobs : Whole(rows[j]) /\ OpenIsRun(ledger[j], rows[j])
  BY <1>0 DEF RowsAreWhole, OpenAttemptIsTheRun
<1>2. ASSUME NEW j \in Jobs, NEW due \in BOOLEAN, Create(j, due) PROVE TimelyInv'
  <2> DEFINE row == InsertedRow(due)
  <2>1. row \in Row /\ Whole(row)
    BY <1>0, RowTypes, WholeRows
  <2>2. row.status = "queued" /\ row.attempts = 0
    BY DEF InsertedRow, AbsentRow
  <2>3. rows[j].attempts = 0 /\ rows[j].status = "absent"
    BY <1>0, <1>2 DEF Create, AlwaysInv, AbsentRowsAreUnclaimed
  <2>4. rows' = [rows EXCEPT ![j] = row] /\ UNCHANGED <<ledger, worker>>
    BY <1>2 DEF Create
  <2> HIDE DEF row
  <2> QED
    BY <1>1, <2>1, <2>2, <2>3, <2>4, TimelyRowWritten
<1>3. ASSUME NEW j \in Jobs, Cancel(j) PROVE TimelyInv'
  <2> DEFINE row == CancelRequestedRow(rows[j])
  <2>1. row \in Row /\ Whole(row) /\ row.attempts = rows[j].attempts
    BY <1>0, <1>a, RowTypes, RowAttempts, WholeRows
  <2>2. /\ row.status = "running" <=> rows[j].status = "running"
        /\ rows[j].status = "running" => row.lease = rows[j].lease
    BY <1>0 DEF CancelRequestedRow, CancelledRow, Row
  <2>3. rows' = [rows EXCEPT ![j] = row] /\ UNCHANGED <<ledger, worker>>
    BY <1>3 DEF Cancel
  <2> HIDE DEF row
  <2> QED
    BY <1>1, <2>1, <2>2, <2>3, TimelyRowWritten
<1>4. ASSUME NEW j \in Jobs, Resume(j) PROVE TimelyInv'
  <2> DEFINE row == RequeuedRow(rows[j])
  <2>1. row \in Row /\ Whole(row) /\ row.attempts = rows[j].attempts /\ row.status = "queued"
    BY <1>0, <1>a, RowTypes, RowAttempts, RowPresent, WholeRows
  <2>2. rows[j].status # "running"
    BY <1>4 DEF Resume
  <2>3. rows' = [rows EXCEPT ![j] = row] /\ UNCHANGED <<ledger, worker>>
    BY <1>4 DEF Resume
  <2> HIDE DEF row
  <2> QED
    BY <1>1, <2>1, <2>2, <2>3, TimelyRowWritten
<1>5. ASSUME NEW j \in Jobs, BecomeDue(j) PROVE TimelyInv'
  <2> DEFINE row == [rows[j] EXCEPT !.due = TRUE]
  <2>1. /\ row \in Row /\ row.attempts = rows[j].attempts
        /\ row.status = rows[j].status /\ row.lease = rows[j].lease
        /\ row.done = rows[j].done
    BY <1>0 DEF Row
  <2>2. Whole(row)
    BY <1>a, <2>1 DEF Whole
  <2>3. rows' = [rows EXCEPT ![j] = row] /\ UNCHANGED <<ledger, worker>>
    BY <1>5 DEF BecomeDue
  <2> HIDE DEF row
  <2> QED
    BY <1>1, <2>1, <2>2, <2>3, TimelyRowWritten
<1>6. ASSUME NEW j \in Jobs, ExpireLease(j) PROVE TimelyInv'
  <2> DEFINE row == [rows[j] EXCEPT !.lease = "expired"]
  <2>1. /\ row \in Row /\ row.attempts = rows[j].attempts
        /\ row.status = rows[j].status /\ row.lease = "expired"
        /\ row.done = rows[j].done /\ rows[j].status = "running"
    BY <1>0, <1>6 DEF ExpireLease, Row, Leases
  <2>2. Whole(row)
    BY <1>a, <2>1 DEF Whole
  <2>3. \A w \in Workers : ~Busy(w, j)
    BY <1>0, <1>6 DEF ExpireLease, Holds, Busy, ExecutedRowsRun
  <2>4. rows' = [rows EXCEPT ![j] = row] /\ UNCHANGED <<ledger, worker>>
    BY <1>6 DEF ExpireLease
  <2> HIDE DEF row
  <2> QED
    BY <1>1, <2>1, <2>2, <2>3, <2>4, TimelyRowWritten
<1>7. ASSUME NEW w \in Workers, Recover(w) PROVE TimelyInv'
  <2>1. \A v \in Workers :
          /\ worker'[v].job = worker[v].job /\ worker'[v].attempt = worker[v].attempt
          /\ worker'[v].loaded = worker[v].loaded
          /\ Executing(v)' <=> Executing(v)
          /\ worker'[v].pc = "saving" <=> worker[v].pc = "saving"
    BY <1>0, <1>7 DEF Recover, Worker, Executing
  <2>2. \A v \in Workers : Executing(v) => ~Abandoned(worker[v].job)
    BY <1>0 DEF ExecutedRowsRun, Abandoned
  <2>3. ExecutedRowsRun' /\ LoadedRowsRun' /\ OneWorkerPerJob'
    <3>1. \A v \in Workers : Executing(v) => rows'[worker[v].job] = rows[worker[v].job]
      BY <1>0, <1>7, <2>2 DEF Recover, HoldersHaveJobs
    <3>2. ExecutedRowsRun'
      BY <1>0, <2>1, <3>1 DEF ExecutedRowsRun
    <3>3. LoadedRowsRun'
      BY <1>0, <2>1 DEF LoadedRowsRun
    <3>4. OneWorkerPerJob'
      BY <1>0, <2>1 DEF OneWorkerPerJob, Busy
    <3> QED
      BY <3>2, <3>3, <3>4
  <2>4. \A j \in Jobs : Whole(rows'[j]) /\ OpenIsRun(ledger'[j], rows'[j])
    <3> TAKE j \in Jobs
    <3>1. CASE Abandoned(j)
      <4> DEFINE after == AfterFailure(rows[j])
                 outcome == FailureOutcome(after)
      <4>1. /\ rows'[j] = after
            /\ ledger'[j] = EndAttempt(ledger[j], rows[j].attempts, outcome)
        BY <1>7, <3>1 DEF Recover
      <4>2. /\ after \in Row /\ Whole(after) /\ after.status # "running"
            /\ outcome \in Outcomes \ {"none", "running"}
        BY <1>0, RowTypes, RowPresent, WholeRows, FinalOutcomes
      <4> HIDE DEF after, outcome
      <4> QED
        BY <1>0, <1>a, <4>1, <4>2, ClosedWithRun
    <3>2. CASE ~Abandoned(j)
      BY <1>7, <1>a, <3>2 DEF Recover
    <3> QED
      BY <3>1, <3>2
  <2> QED
    BY <1>1, <2>3, <2>4 DEF TimelyInv, RowsAreWhole, OpenAttemptIsTheRun
<1>8. ASSUME NEW w \in Workers, NEW j \in Jobs, Claim(w, j) PROVE TimelyInv'
  <2> DEFINE n == rows[j].attempts + 1
             row == ClaimedRow(rows[j])
             started == StartAttempt(ledger[j], n)
  <2>1. rows[j] \in Row /\ n \in 1 .. MaxAttempts /\ rows[j].status = "queued"
    BY <1>0, <1>8 DEF Claim, Claimable, Row
  <2>2. /\ row \in Row /\ row.attempts = n /\ row.status = "running"
        /\ row.lease = "fresh" /\ Whole(row)
    BY <1>a, <1>8, <2>1, RowTypes, RowAttempts, RowPresent, WholeRows DEF Claim
  <2>3. OpenIsRun(started, row)
    <3> SUFFICES ASSUME NEW m \in 1 .. MaxAttempts
                 PROVE  started[m] = "running" <=> m = n
      BY <2>2 DEF OpenIsRun
    <3>1. started[m] = IF m = n /\ ledger[j][m] = "none" THEN "running" ELSE ledger[j][m]
      BY <1>0, <2>1, StartAttemptAddsRow
    <3>2. ledger[j][m] # "running"
      BY <1>a, <2>1 DEF OpenIsRun
    <3>3. m = n => ledger[j][m] = "none"
      BY <1>0, <2>1 DEF AlwaysInv, OneAttemptPerClaim, Row
    <3> QED
      BY <3>1, <3>2, <3>3
  <2>4. \A v \in Workers : ~Busy(v, j)
    BY <1>0, <2>1 DEF Busy, ExecutedRowsRun
  <2>5. /\ rows' = [rows EXCEPT ![j] = row] /\ ledger' = [ledger EXCEPT ![j] = started]
        /\ worker' = [worker EXCEPT ![w] =
                        [Idle EXCEPT !.pc = "handler", !.job = j, !.attempt = n]]
    BY <1>8 DEF Claim
  <2>6. /\ worker'[w].pc = "handler" /\ worker'[w].job = j /\ worker'[w].attempt = n
        /\ \A v \in Workers : v # w => worker'[v] = worker[v]
    BY <1>0, <2>5, IdleType DEF Worker, Idle
  <2> HIDE DEF row, started, n
  <2>7. \A i \in Jobs : /\ i # j => rows'[i] = rows[i] /\ ledger'[i] = ledger[i]
                        /\ i = j => rows'[i] = row /\ ledger'[i] = started
    BY <1>0, <2>5
  <2>8. ExecutedRowsRun'
    BY <1>0, <2>2, <2>4, <2>6, <2>7 DEF ExecutedRowsRun, Executing, Busy, HoldersHaveJobs
  <2>9. LoadedRowsRun'
    BY <1>0, <2>6 DEF LoadedRowsRun
  <2>10. OneWorkerPerJob'
    BY <1>0, <2>4, <2>6 DEF OneWorkerPerJob, Busy, Executing
  <2>11. RowsAreWhole' /\ OpenAttemptIsTheRun'
    BY <1>a, <2>2, <2>3, <2>7 DEF RowsAreWhole, OpenAttemptIsTheRun
  <2> QED
    BY <1>1, <2>8, <2>9, <2>10, <2>11 DEF TimelyInv
<1>9. ASSUME NEW w \in Workers, NEW next \in Worker, worker' = [worker EXCEPT ![w] = next],
             next.pc \in {"recover", "claim"},
             \A v \in Workers : v # w /\ Executing(v) =>
                 rows'[worker[v].job] = rows[worker[v].job],
             \A j \in Jobs : Whole(rows'[j]) /\ OpenIsRun(ledger'[j], rows'[j])
      PROVE  TimelyInv'
  <2>1. /\ worker'[w] = next
        /\ \A v \in Workers : v # w => worker'[v] = worker[v]
    BY <1>0, <1>9
  <2>2. \A v \in Workers : Executing(v)' <=> v # w /\ Executing(v)
    BY <1>9, <2>1 DEF Executing
  <2>3. ExecutedRowsRun'
    BY <1>0, <1>9, <2>1, <2>2 DEF ExecutedRowsRun
  <2>4. LoadedRowsRun'
    BY <1>0, <1>9, <2>1 DEF LoadedRowsRun
  <2>5. OneWorkerPerJob'
    BY <1>0, <2>1, <2>2 DEF OneWorkerPerJob, Busy
  <2> QED
    BY <1>1, <1>9, <2>3, <2>4, <2>5 DEF TimelyInv, RowsAreWhole, OpenAttemptIsTheRun
<1>10. ASSUME NEW w \in Workers, NEW j \in Jobs, ClaimExhausted(w, j) PROVE TimelyInv'
  <2> DEFINE row == ExhaustedRow(rows[j])
  <2>1. row \in Row /\ Whole(row) /\ row.status # "running" /\ rows[j].status # "running"
    BY <1>0, <1>10, RowTypes, RowPresent, WholeRows DEF ClaimExhausted, Claimable
  <2>2. /\ rows' = [rows EXCEPT ![j] = row] /\ UNCHANGED ledger
        /\ worker' = [worker EXCEPT ![w] = Idle]
    BY <1>10 DEF ClaimExhausted
  <2> HIDE DEF row
  <2>3. \A v \in Workers : Executing(v) => worker[v].job # j
    BY <1>0, <2>1 DEF ExecutedRowsRun
  <2>4. \A v \in Workers : Executing(v) => rows'[worker[v].job] = rows[worker[v].job]
    BY <1>0, <2>2, <2>3 DEF HoldersHaveJobs
  <2>5. \A i \in Jobs : Whole(rows'[i]) /\ OpenIsRun(ledger'[i], rows'[i])
    BY <1>0, <1>a, <2>1, <2>2 DEF OpenIsRun
  <2> QED
    BY <1>9, <2>2, <2>4, <2>5, IdleType
<1>11. ASSUME NEW w \in Workers, ClaimNothing(w) \/ Crash(w) PROVE TimelyInv'
  <2>1. /\ worker' = [worker EXCEPT ![w] = Idle]
        /\ rows' = rows /\ ledger' = ledger
    BY <1>11 DEF ClaimNothing, Crash
  <2> QED
    BY <1>9, <1>a, <2>1, IdleType
<1>12. ASSUME NEW w \in Workers, Heartbeat(w) PROVE TimelyInv'
  <2> DEFINE j == worker[w].job
             row == [rows[j] EXCEPT !.lease = "fresh"]
  <2>1. /\ Executing(w) /\ j \in Jobs /\ rows[j].status = "running"
        /\ rows[j].lease = "fresh"
    BY <1>0, <1>12 DEF Heartbeat, Executing, HoldersHaveJobs, ExecutedRowsRun
  <2>2. rows' = rows /\ ledger' = ledger
    <3>1. rows' = [rows EXCEPT ![j].lease = "fresh"] /\ ledger' = ledger
      BY <1>12, <2>1 DEF Heartbeat
    <3>2. row = rows[j]
      BY <1>0, <2>1 DEF Row
    <3> QED
      BY <1>0, <2>1, <3>1, <3>2
  <2>3. \A v \in Workers :
          /\ worker'[v].job = worker[v].job /\ worker'[v].attempt = worker[v].attempt
          /\ worker'[v].loaded = worker[v].loaded
          /\ Executing(v)' <=> Executing(v)
          /\ worker'[v].pc = "saving" <=> worker[v].pc = "saving"
    BY <1>0, <1>12 DEF Heartbeat, Worker, Executing
  <2>4. ExecutedRowsRun' /\ LoadedRowsRun'
    BY <1>0, <2>2, <2>3 DEF ExecutedRowsRun, LoadedRowsRun
  <2>5. OneWorkerPerJob'
    BY <1>0, <2>3 DEF OneWorkerPerJob, Busy
  <2> QED
    BY <1>1, <1>a, <2>2, <2>4, <2>5 DEF TimelyInv, RowsAreWhole, OpenAttemptIsTheRun
<1>13. ASSUME NEW w \in Workers, NEW ending \in Endings, HandlerEnds(w, ending) \/ HandlerStops(w)
       PROVE  TimelyInv'
  <2>1. Executing(w) /\ worker[w].job \in Jobs
    BY <1>0, <1>13 DEF HandlerEnds, HandlerStops, Executing, HoldersHaveJobs
  <2>2. /\ worker'[w].pc = "saving" /\ worker'[w].job = worker[w].job
        /\ worker'[w].attempt = worker[w].attempt
        /\ worker'[w].loaded = rows[worker[w].job]
        /\ \A v \in Workers : v # w => worker'[v] = worker[v]
        /\ rows' = rows /\ ledger' = ledger
    BY <1>0, <1>13 DEF HandlerEnds, HandlerStops, Worker
  <2>3. \A v \in Workers : Executing(v)' <=> Executing(v)
    BY <2>1, <2>2 DEF Executing
  <2>4. ExecutedRowsRun'
    BY <1>0, <2>2, <2>3 DEF ExecutedRowsRun
  <2>5. ~rows[worker[w].job].done
    BY <1>0, <1>a, <2>1 DEF ExecutedRowsRun, Whole, Settled
  <2>6. LoadedRowsRun'
    BY <1>0, <2>1, <2>2, <2>5 DEF LoadedRowsRun, ExecutedRowsRun
  <2>7. OneWorkerPerJob'
    BY <1>0, <2>2, <2>3 DEF OneWorkerPerJob, Busy
  <2> QED
    BY <1>1, <1>a, <2>2, <2>4, <2>6, <2>7 DEF TimelyInv, RowsAreWhole, OpenAttemptIsTheRun
<1>14. ASSUME NEW w \in Workers, SaveOutcome(w) PROVE TimelyInv'
  <2> DEFINE j == worker[w].job
             loaded == worker[w].loaded
             ending == worker[w].ending
             row == SavedRow(j, rows[j], loaded, ending)
             outcome == EndedOutcome(j, loaded, ending)
  <2>1. Executing(w) /\ j \in Jobs
    BY <1>0, <1>14 DEF SaveOutcome, Executing, HoldersHaveJobs
  <2>2. rows[j] \in Row /\ loaded \in Row /\ ending \in Endings /\ ledger[j] \in Ledger
    BY <1>0, <2>1 DEF Worker
  <2>3. /\ rows' = [rows EXCEPT ![j] = row]
        /\ ledger' = [ledger EXCEPT ![j] = EndAttempt(ledger[j], loaded.attempts, outcome)]
        /\ worker' = [worker EXCEPT ![w] = Idle]
    BY <1>14 DEF SaveOutcome
  <2>4. /\ rows[j].status = "running" /\ rows[j].lease = "fresh" /\ ~rows[j].done
        /\ loaded.status = "running" /\ loaded.lease = "fresh" /\ ~loaded.done
        /\ loaded.attempts = rows[j].attempts
    BY <1>0, <1>14, <1>a, <2>1 DEF SaveOutcome, ExecutedRowsRun, LoadedRowsRun, Whole, Settled
  <2>5. row \in Row /\ Whole(row) /\ row.status # "running"
    BY <2>2, <2>4, SavedRowKeepsAttempts, SavedRowEndsRun
  <2>6. OpenIsRun(EndAttempt(ledger[j], loaded.attempts, outcome), row)
    BY <1>a, <2>1, <2>2, <2>4, <2>5, FinalOutcomes, ClosedWithRun
  <2> HIDE DEF row, outcome
  <2>7. \A v \in Workers : v # w /\ Executing(v) => worker[v].job # j
    BY <1>0, <2>1 DEF OneWorkerPerJob, Busy
  <2> HIDE DEF j
  <2>8. \A v \in Workers : v # w /\ Executing(v) =>
          rows'[worker[v].job] = rows[worker[v].job]
    BY <1>0, <2>3, <2>7 DEF HoldersHaveJobs
  <2>9. \A i \in Jobs : Whole(rows'[i]) /\ OpenIsRun(ledger'[i], rows'[i])
    BY <1>0, <1>a, <2>1, <2>3, <2>5, <2>6
  <2> QED
    BY <1>9, <2>3, <2>8, <2>9, IdleType
<1> QED
  BY <1>2, <1>3, <1>4, <1>5, <1>6, <1>7, <1>8, <1>10, <1>11, <1>12, <1>13, <1>14,
     TimelyStutter DEF Next, WorkerStep, Endings

(* Hence it always holds.                                                   *)
LEMMA TimelyInductive == ~LateWorkers => (Spec => []TimelyInv)
<1> SUFFICES ASSUME ~LateWorkers PROVE Spec => []TimelyInv
  OBVIOUS
<1>1. TimelyInv /\ [Next]_vars => TimelyInv'
  BY TimelyStep
<1> QED
  BY <1>1, TimelyInit, PTL DEF Spec

-----------------------------------------------------------------------------
(* The theorems. *)

(* No two workers execute one job: the claim's FOR UPDATE SKIP LOCKED and   *)
(* the lease check of recovery exclude it, for any number of either.        *)
THEOREM OneWorkerPerJobHolds == ~LateWorkers => (Spec => []OneWorkerPerJob)
<1>1. TimelyInv => OneWorkerPerJob
  BY DEF TimelyInv
<1> QED
  BY <1>1, TimelyInductive, PTL

(* The open attempt row is the running claim and there is no other.         *)
THEOREM OpenAttemptIsTheRunHolds == ~LateWorkers => (Spec => []OpenAttemptIsTheRun)
<1>1. TimelyInv => OpenAttemptIsTheRun
  BY DEF TimelyInv
<1> QED
  BY <1>1, TimelyInductive, PTL

(* completed_at and lease_expires_at agree with the status in every row,    *)
(* although a flush names only the columns the worker changed.              *)
THEOREM RowsAreWholeHolds == ~LateWorkers => (Spec => []RowsAreWhole)
<1>1. TimelyInv => RowsAreWhole
  BY DEF TimelyInv
<1> QED
  BY <1>1, TimelyInductive, PTL

(* How one step moves one job. *)
LEMMA LegalMove ==
    ASSUME TimelyInv, [Next]_vars, NEW j \in Jobs
    PROVE  \/ /\ rows[j].status = "queued" /\ rows'[j].status = "running"
              /\ rows[j].attempts < MaxAttempts /\ rows'[j].attempts = rows[j].attempts + 1
           \/ /\ rows'[j].attempts = rows[j].attempts
              /\ \/ rows'[j].status = rows[j].status
                 \/ rows[j].status = "absent" /\ rows'[j].status = "queued"
                 \/ rows[j].status = "queued" /\ rows'[j].status = "cancelled"
                 \/ /\ rows[j].status = "queued" /\ rows'[j].status = "failed"
                    /\ rows[j].attempts = MaxAttempts
                 \/ /\ rows[j].status = "running"
                    /\ rows'[j].status \in {"queued", "completed", "failed", "cancelled"}
                 \/ /\ rows[j].status \in {"completed", "failed"} /\ rows'[j].status = "queued"
                    /\ UNCHANGED <<worker, ledger>>
<1> DEFINE Stay(r) == r.attempts = rows[j].attempts /\ r.status = rows[j].status
<1>0. /\ MaxAttempts \in Nat /\ rows \in [Jobs -> Row] /\ worker \in [Workers -> Worker]
      /\ rows[j] \in Row /\ rows[j].attempts \in 0 .. MaxAttempts
  BY IdleType DEF TimelyInv, AlwaysInv, TypeOK, Row
<1>1. ASSUME NEW i \in Jobs, NEW due \in BOOLEAN, Create(i, due)
      PROVE  \/ Stay(rows'[j])
             \/ /\ rows[j].status = "absent" /\ rows'[j].status = "queued"
                /\ rows'[j].attempts = rows[j].attempts
  <2>1. InsertedRow(due).status = "queued" /\ InsertedRow(due).attempts = 0
    BY DEF InsertedRow, AbsentRow
  <2>2. rows[i].status = "absent" /\ rows[i].attempts = 0
    BY <1>1 DEF Create, TimelyInv, AlwaysInv, AbsentRowsAreUnclaimed
  <2> QED
    BY <1>0, <1>1, <2>1, <2>2 DEF Create
<1>2. ASSUME NEW i \in Jobs, Cancel(i)
      PROVE  \/ Stay(rows'[j])
             \/ /\ rows[j].status = "queued" /\ rows'[j].status = "cancelled"
                /\ rows'[j].attempts = rows[j].attempts
  <2>1. /\ rows[i].status = "queued" => CancelRequestedRow(rows[i]).status = "cancelled"
        /\ rows[i].status = "running" => CancelRequestedRow(rows[i]).status = "running"
        /\ CancelRequestedRow(rows[i]).attempts = rows[i].attempts
    BY <1>0, RowAttempts DEF CancelRequestedRow, CancelledRow, Row
  <2> QED
    BY <1>0, <1>2, <2>1 DEF Cancel
<1>3. ASSUME NEW i \in Jobs, Resume(i)
      PROVE  \/ Stay(rows'[j])
             \/ /\ rows[j].status \in {"completed", "failed"} /\ rows'[j].status = "queued"
                /\ rows'[j].attempts = rows[j].attempts /\ UNCHANGED <<worker, ledger>>
  <2>1. /\ RequeuedRow(rows[i]).status = "queued"
        /\ RequeuedRow(rows[i]).attempts = rows[i].attempts
    BY <1>0, RowPresent, RowAttempts
  <2>2. rows[i].status \in {"queued", "completed", "failed"}
    BY <1>0, <1>3 DEF Resume, Requeueable, Row, Statuses
  <2> QED
    BY <1>0, <1>3, <2>1, <2>2 DEF Resume
<1>4. ASSUME NEW i \in Jobs, BecomeDue(i) \/ ExpireLease(i) PROVE Stay(rows'[j])
  BY <1>0, <1>4 DEF BecomeDue, ExpireLease, Row
<1>5. ASSUME NEW w \in Workers, Recover(w)
      PROVE  \/ Stay(rows'[j])
             \/ /\ rows[j].status = "running" /\ rows'[j].attempts = rows[j].attempts
                /\ rows'[j].status \in {"queued", "failed", "cancelled"}
  <2>1. /\ AfterFailure(rows[j]).status \in {"queued", "failed", "cancelled"}
        /\ AfterFailure(rows[j]).attempts = rows[j].attempts
    BY <1>0, RowPresent, RowAttempts
  <2> QED
    BY <1>5, <2>1 DEF Recover, Abandoned
<1>6. ASSUME NEW w \in Workers, NEW i \in Jobs, Claim(w, i)
      PROVE  \/ Stay(rows'[j])
             \/ /\ rows[j].status = "queued" /\ rows'[j].status = "running"
                /\ rows[j].attempts < MaxAttempts /\ rows'[j].attempts = rows[j].attempts + 1
  BY <1>0, <1>6, RowPresent, RowAttempts DEF Claim, Claimable
<1>7. ASSUME NEW w \in Workers, NEW i \in Jobs, ClaimExhausted(w, i)
      PROVE  \/ Stay(rows'[j])
             \/ /\ rows[j].status = "queued" /\ rows'[j].status = "failed"
                /\ rows[j].attempts = MaxAttempts /\ rows'[j].attempts = rows[j].attempts
  <2>1. CASE i = j
    <3>1. rows[j].status = "queued" /\ rows[j].attempts = MaxAttempts
      BY <1>0, <1>7, <2>1 DEF ClaimExhausted, Claimable
    <3>2. rows'[j] = ExhaustedRow(rows[j])
      BY <1>0, <1>7, <2>1 DEF ClaimExhausted
    <3> QED
      BY <1>0, <3>1, <3>2, RowPresent, RowAttempts
  <2>2. CASE i # j
    BY <1>0, <1>7, <2>2 DEF ClaimExhausted
  <2> QED
    BY <2>1, <2>2
<1>8. ASSUME NEW w \in Workers, Heartbeat(w) PROVE Stay(rows'[j])
  BY <1>0, <1>8 DEF Heartbeat, Row
<1>9. ASSUME NEW w \in Workers, SaveOutcome(w)
      PROVE  \/ Stay(rows'[j])
             \/ /\ rows[j].status = "running" /\ rows'[j].attempts = rows[j].attempts
                /\ rows'[j].status \in {"queued", "completed", "failed", "cancelled"}
  <2> DEFINE i == worker[w].job
             row == SavedRow(i, rows[i], worker[w].loaded, worker[w].ending)
  <2>1. /\ i \in Jobs /\ rows[i] \in Row /\ rows[i].status = "running"
        /\ worker[w].loaded \in Row /\ worker[w].ending \in Endings
    BY <1>0, <1>9
       DEF SaveOutcome, TimelyInv, AlwaysInv, HoldersHaveJobs, ExecutedRowsRun, Executing, Worker
  <2>2. /\ rows[i].lease = "fresh" /\ ~rows[i].done
        /\ worker[w].loaded.status = "running" /\ worker[w].loaded.lease = "fresh"
        /\ ~worker[w].loaded.done
    BY <1>0, <1>9, <2>1
       DEF SaveOutcome, TimelyInv, ExecutedRowsRun, LoadedRowsRun, RowsAreWhole, Whole, Settled,
           Executing
  <2>3. /\ row \in Row /\ row.attempts = rows[i].attempts
        /\ row.status # "running" /\ row.status # "absent"
    BY <2>1, <2>2, SavedRowKeepsAttempts, SavedRowEndsRun
  <2>4. row.status \in {"queued", "completed", "failed", "cancelled"}
    <3> HIDE DEF row
    <3> QED
      BY <2>3 DEF Row, Statuses
  <2>5. rows' = [rows EXCEPT ![i] = row]
    BY <1>9 DEF SaveOutcome
  <2> HIDE DEF row
  <2> QED
    BY <1>0, <2>1, <2>3, <2>4, <2>5
<1>10. ASSUME UNCHANGED rows PROVE Stay(rows'[j])
  BY <1>10
<1>11. \/ UNCHANGED rows
       \/ \E i \in Jobs : \/ \E due \in BOOLEAN : Create(i, due)
                          \/ Cancel(i) \/ Resume(i) \/ BecomeDue(i) \/ ExpireLease(i)
                          \/ \E w \in Workers : Claim(w, i) \/ ClaimExhausted(w, i)
       \/ \E w \in Workers : Recover(w) \/ Heartbeat(w) \/ SaveOutcome(w)
  BY DEF Next, vars, WorkerStep, ClaimNothing, HandlerEnds, HandlerStops, Crash
<1> QED
  BY <1>1, <1>2, <1>3, <1>4, <1>5, <1>6, <1>7, <1>8, <1>9, <1>10, <1>11

(* A completed or failed job is reopened by the API's resume only: no       *)
(* worker's flush and no recovery takes it back.                            *)
THEOREM OnlyResumeReopensHolds == ~LateWorkers => (Spec => OnlyResumeReopens)
<1>1. TimelyInv /\ [Next]_vars =>
        [\A j \in Jobs : Reopens(j) =>
           rows'[j].status = "queued" /\ worker' = worker /\ ledger' = ledger]_vars
  BY LegalMove DEF Reopens
<1> QED
  BY <1>1, TimelyInductive, PTL DEF Spec, OnlyResumeReopens

(* The queue implements the life cycle that JobLifecycle promises.          *)
THEOREM ImplementsLifecycleHolds == ~LateWorkers => (Spec => ImplementsLifecycle)
<1>1. Init => Lifecycle!Init
  BY DEF Init, Lifecycle!Init, statusOf, attemptsOf, AbsentRow
<1>2. TimelyInv /\ TimelyInv' /\ [Next]_vars => [Lifecycle!Next]_(Lifecycle!lifeVars)
  <2> SUFFICES ASSUME TimelyInv, TimelyInv', [Next]_vars PROVE Lifecycle!Next
    OBVIOUS
  <2>1. /\ MaxAttempts \in Nat /\ rows \in [Jobs -> Row] /\ rows' \in [Jobs -> Row]
    BY IdleType DEF TimelyInv, AlwaysInv, TypeOK
  <2>2. /\ statusOf' \in [Jobs -> Lifecycle!LifeStatuses]
        /\ attemptsOf' \in [Jobs -> 0 .. MaxAttempts]
    BY <2>1 DEF statusOf, attemptsOf, Lifecycle!LifeStatuses, Row, Statuses
  <2>3. \A j \in Jobs : /\ statusOf[j] = rows[j].status /\ statusOf'[j] = rows'[j].status
                        /\ attemptsOf[j] = rows[j].attempts
                        /\ attemptsOf'[j] = rows'[j].attempts
    BY DEF statusOf, attemptsOf
  <2>4. \A j \in Jobs : Lifecycle!Start(j) \/ Lifecycle!Uncounted(j)
    <3> TAKE j \in Jobs
    <3> QED
      BY <2>3, LegalMove DEF Lifecycle!Start, Lifecycle!Uncounted, Lifecycle!Moves
  <2> QED
    BY <2>2, <2>4 DEF Lifecycle!Next
<1> QED
  BY <1>1, <1>2, TimelyInductive, PTL DEF Spec, ImplementsLifecycle, Lifecycle!Spec
=============================================================================
