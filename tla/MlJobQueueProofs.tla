-------------------------- MODULE MlJobQueueProofs --------------------------
(***************************************************************************)
(* Proofs about MlJobQueue for every set of jobs and workers and every     *)
(* bound on attempts.  AlwaysInv needs nothing; TimelyInv needs that no    *)
(* lease expires under a live worker.                                      *)
(***************************************************************************)
EXTENDS MlJobQueue, MlJobRowProofs

-----------------------------------------------------------------------------
(* What execute_job writes. *)

(* What execute_job flushes keeps the stored number of attempts, even when  *)
(* the copy it was computed from is older.                                  *)
LEMMA SavedRowKeepsAttempts ==
    ASSUME NEW j, NEW now \in Row, NEW loaded \in Row, NEW ending \in Endings
    PROVE  /\ SavedRow(j, now, loaded, ending) \in Row
           /\ SavedRow(j, now, loaded, ending).attempts = now.attempts
           /\ now.status # "absent" => SavedRow(j, now, loaded, ending).status # "absent"
<1> DEFINE ended == EndedRow(j, loaded, ending)
           saved == OrmWrite(now, loaded, ended)
<1>1. ended \in Row /\ ended.attempts = loaded.attempts /\ ended.status # "absent"
  BY RowTypes, RowAttempts, RowPresent DEF EndedRow
<1>2. /\ RequeuedRow(ended) \in Row /\ RequeuedRow(ended).attempts = ended.attempts
      /\ RequeuedRow(ended).status # "absent"
  BY <1>1, RowTypes, RowAttempts, RowPresent
<1> HIDE DEF ended
<1>3. /\ saved \in Row /\ saved.attempts = now.attempts
      /\ now.status # "absent" => saved.status # "absent"
  BY <1>1, OrmWriteRow
<1> HIDE DEF saved
<1>4. /\ OrmWrite(saved, ended, RequeuedRow(ended)) \in Row
      /\ OrmWrite(saved, ended, RequeuedRow(ended)).attempts = saved.attempts
      /\ saved.status # "absent" => OrmWrite(saved, ended, RequeuedRow(ended)).status # "absent"
  BY <1>1, <1>2, <1>3, OrmWriteRow
<1> QED
  BY <1>1, <1>3, <1>4 DEF SavedRow, ended, saved

(* The outcomes execute_job and recovery record are those of a finished     *)
(* attempt.                                                                 *)
LEMMA FinalOutcomes ==
    ASSUME NEW j, NEW r, NEW ending
    PROVE  /\ FailureOutcome(r) \in Outcomes \ {"none", "running"}
           /\ EndedOutcome(j, r, ending) \in Outcomes \ {"none", "running"}
  BY DEF FailureOutcome, EndedOutcome, Outcomes

-----------------------------------------------------------------------------
(* The invariant that needs no assumption. *)

(* A worker between two jobs, and one that takes a job, are workers.        *)
LEMMA IdleType ==
    /\ MaxAttempts \in Nat /\ MaxAttempts >= 1
    /\ AbsentRow \in Row
    /\ Idle \in Worker /\ Idle.job = NoJob /\ Idle.pc = "recover"
<1>1. MaxAttempts \in Nat /\ MaxAttempts >= 1
  BY MaxAttemptsAssumption
<1>2. AbsentRow \in Row
  BY <1>1 DEF AbsentRow, Row, Statuses, Leases
<1> QED
  BY <1>1, <1>2 DEF Idle, Worker, Endings

(* The empty tables satisfy the invariant.                                  *)
LEMMA AlwaysInit == Init => AlwaysInv
<1> SUFFICES ASSUME Init PROVE AlwaysInv
  OBVIOUS
<1> USE IdleType DEF Init
<1>1. NoAttempts \in Ledger
  BY DEF NoAttempts, Ledger, Outcomes
<1>2. TypeOK
  BY <1>1 DEF TypeOK
<1>3. HoldersHaveJobs
  BY DEF HoldersHaveJobs, Executing
<1>4. OneAttemptPerClaim
  BY DEF OneAttemptPerClaim, NoAttempts, AbsentRow
<1>5. ClaimsAreCounted
  BY NoJobAssumption DEF ClaimsAreCounted
<1>6. AbsentRowsAreUnclaimed
  BY DEF AbsentRowsAreUnclaimed, AbsentRow
<1> QED
  BY <1>2, <1>3, <1>4, <1>5, <1>6 DEF AlwaysInv

(* An action that writes one row, keeps its attempts and leaves the ledger  *)
(* and the workers alone preserves the invariant.                           *)
LEMMA OneRowWritten ==
    ASSUME AlwaysInv, NEW j \in Jobs, NEW row \in Row,
           row.attempts = rows[j].attempts, row.status # "absent",
           rows' = [rows EXCEPT ![j] = row], UNCHANGED <<ledger, worker>>
    PROVE  AlwaysInv'
<1> USE DEF AlwaysInv
<1>1. TypeOK' /\ HoldersHaveJobs' /\ AbsentRowsAreUnclaimed'
  BY DEF TypeOK, HoldersHaveJobs, Executing, AbsentRowsAreUnclaimed
<1>2. \A i \in Jobs : rows'[i].attempts = rows[i].attempts
  BY DEF TypeOK
<1>3. OneAttemptPerClaim' /\ ClaimsAreCounted'
  BY <1>2 DEF OneAttemptPerClaim, ClaimsAreCounted
<1> QED
  BY <1>1, <1>3

(* So does one that only moves workers, each keeping its claim, dropping it *)
(* or reading a row.                                                        *)
LEMMA OneWorkerMoved ==
    ASSUME AlwaysInv, NEW w \in Workers, NEW next \in Worker,
           worker' = [worker EXCEPT ![w] = next], UNCHANGED <<rows, ledger>>,
           \/ next.job = NoJob /\ next.pc \in {"recover", "claim"}
           \/ /\ next.job = worker[w].job /\ next.attempt = worker[w].attempt
              /\ Executing(w)
    PROVE  AlwaysInv'
<1> USE DEF AlwaysInv
<1>1. TypeOK' /\ AbsentRowsAreUnclaimed' /\ OneAttemptPerClaim'
  BY DEF TypeOK, AbsentRowsAreUnclaimed, OneAttemptPerClaim
<1>2. HoldersHaveJobs'
  BY DEF TypeOK, HoldersHaveJobs, Executing
<1>3. ClaimsAreCounted'
  BY NoJobAssumption DEF TypeOK, ClaimsAreCounted
<1> QED
  BY <1>1, <1>2, <1>3

(* It looks at the three variables only.                                    *)
LEMMA AlwaysStutter == AlwaysInv /\ UNCHANGED vars => AlwaysInv'
  BY DEF vars, AlwaysInv, TypeOK, HoldersHaveJobs, Executing, AbsentRowsAreUnclaimed,
     OneAttemptPerClaim, ClaimsAreCounted

(* Every step of the API, of time and of the workers preserves it.          *)
LEMMA AlwaysStep == AlwaysInv /\ [Next]_vars => AlwaysInv'
<1> SUFFICES ASSUME AlwaysInv, [Next]_vars PROVE AlwaysInv'
  OBVIOUS
<1>0. /\ MaxAttempts \in Nat /\ MaxAttempts >= 1
      /\ rows \in [Jobs -> Row] /\ ledger \in [Jobs -> Ledger]
      /\ worker \in [Workers -> Worker]
  BY IdleType DEF AlwaysInv, TypeOK
<1>2. ASSUME NEW j \in Jobs, NEW due \in BOOLEAN, Create(j, due) PROVE AlwaysInv'
  <2>1. InsertedRow(due) \in Row
    BY <1>0, RowTypes
  <2>2. rows[j].attempts = 0
    BY <1>2 DEF Create, AlwaysInv, AbsentRowsAreUnclaimed
  <2>3. InsertedRow(due).attempts = 0 /\ InsertedRow(due).status = "queued"
    BY DEF InsertedRow, AbsentRow
  <2> QED
    BY <1>2, <2>1, <2>2, <2>3, OneRowWritten DEF Create
<1>3. ASSUME NEW j \in Jobs, Cancel(j) PROVE AlwaysInv'
  <2> DEFINE row == CancelRequestedRow(rows[j])
  <2>0. rows[j] \in Row /\ rows[j].status # "absent"
    BY <1>0, <1>3 DEF Cancel
  <2>1. row \in Row /\ row.attempts = rows[j].attempts /\ row.status # "absent"
    BY <2>0, RowTypes, RowAttempts, RowPresent
  <2>2. rows' = [rows EXCEPT ![j] = row] /\ UNCHANGED <<ledger, worker>>
    BY <1>3 DEF Cancel
  <2> QED
    BY <2>1, <2>2, OneRowWritten
<1>4. ASSUME NEW j \in Jobs, Resume(j) PROVE AlwaysInv'
  <2> DEFINE row == RequeuedRow(rows[j])
  <2>0. rows[j] \in Row
    BY <1>0
  <2>1. row \in Row /\ row.attempts = rows[j].attempts /\ row.status # "absent"
    BY <2>0, RowTypes, RowAttempts, RowPresent
  <2>2. rows' = [rows EXCEPT ![j] = row] /\ UNCHANGED <<ledger, worker>>
    BY <1>4 DEF Resume
  <2> QED
    BY <2>1, <2>2, OneRowWritten
<1>5. ASSUME NEW j \in Jobs, BecomeDue(j) PROVE AlwaysInv'
  <2> DEFINE row == [rows[j] EXCEPT !.due = TRUE]
  <2>1. row \in Row /\ row.attempts = rows[j].attempts /\ row.status = "queued"
    BY <1>0, <1>5 DEF BecomeDue, Row
  <2> QED
    BY <1>0, <1>5, <2>1, OneRowWritten DEF BecomeDue
<1>6. ASSUME NEW j \in Jobs, ExpireLease(j) PROVE AlwaysInv'
  <2> DEFINE row == [rows[j] EXCEPT !.lease = "expired"]
  <2>1. row \in Row /\ row.attempts = rows[j].attempts /\ row.status = "running"
    BY <1>0, <1>6 DEF ExpireLease, Row, Leases
  <2> QED
    BY <1>0, <1>6, <2>1, OneRowWritten DEF ExpireLease
<1>7. ASSUME NEW w \in Workers, Recover(w) PROVE AlwaysInv'
  <2>1. \A j \in Jobs : /\ rows'[j] \in Row /\ rows'[j].attempts = rows[j].attempts
                        /\ rows'[j].status = "absent" => rows[j].status = "absent"
    <3> TAKE j \in Jobs
    <3>1. rows[j] \in Row
      BY <1>0
    <3>2. rows'[j] = rows[j] \/ rows'[j] = AfterFailure(rows[j])
      BY <1>7 DEF Recover
    <3>3. /\ AfterFailure(rows[j]) \in Row /\ AfterFailure(rows[j]).status # "absent"
          /\ AfterFailure(rows[j]).attempts = rows[j].attempts
      BY <3>1, RowTypes, RowAttempts, RowPresent
    <3> QED
      BY <3>1, <3>2, <3>3
  <2>2. \A j \in Jobs :
          /\ ledger'[j] \in Ledger
          /\ \A n \in 1 .. MaxAttempts : ledger'[j][n] # "none" <=> ledger[j][n] # "none"
    <3> SUFFICES ASSUME NEW j \in Jobs
                 PROVE  /\ ledger'[j] \in Ledger
                        /\ \A n \in 1 .. MaxAttempts :
                             ledger'[j][n] # "none" <=> ledger[j][n] # "none"
      OBVIOUS
    <3> DEFINE outcome == FailureOutcome(AfterFailure(rows[j]))
    <3>1. ledger[j] \in Ledger /\ outcome \in Outcomes \ {"none", "running"}
      BY <1>0, FinalOutcomes
    <3>2. \/ ledger'[j] = ledger[j]
          \/ ledger'[j] = EndAttempt(ledger[j], rows[j].attempts, outcome)
      BY <1>7 DEF Recover
    <3> HIDE DEF outcome
    <3> QED
      BY <3>1, <3>2, EndAttemptKeepsRows
  <2>3. rows' \in [Jobs -> Row] /\ ledger' \in [Jobs -> Ledger]
    <3>1. /\ rows' = [j \in Jobs |-> rows'[j]]
          /\ ledger' = [j \in Jobs |-> ledger'[j]]
      BY <1>7, Zenon DEF Recover
    <3> QED
      BY <2>1, <2>2, <3>1
  <2>4. worker' \in [Workers -> Worker] /\ HoldersHaveJobs'
    BY <1>0, <1>7 DEF Recover, Worker, AlwaysInv, HoldersHaveJobs, Executing
  <2>5. AbsentRowsAreUnclaimed'
    BY <2>1 DEF AlwaysInv, AbsentRowsAreUnclaimed
  <2>6. OneAttemptPerClaim'
    BY <2>1, <2>2 DEF AlwaysInv, OneAttemptPerClaim
  <2>7. \A v \in Workers : /\ worker'[v].job = worker[v].job
                           /\ worker'[v].attempt = worker[v].attempt
    BY <1>0, <1>7 DEF Recover, Worker
  <2>8. ClaimsAreCounted'
    BY <2>1, <2>7 DEF AlwaysInv, ClaimsAreCounted
  <2> QED
    BY <2>3, <2>4, <2>5, <2>6, <2>8 DEF AlwaysInv, TypeOK
<1>8. ASSUME NEW w \in Workers, NEW j \in Jobs, Claim(w, j) PROVE AlwaysInv'
  <2> DEFINE n == rows[j].attempts + 1
  <2>1. rows[j] \in Row /\ n \in 1 .. MaxAttempts
    BY <1>0, <1>8 DEF Claim, Row
  <2>2. /\ ClaimedRow(rows[j]) \in Row /\ ClaimedRow(rows[j]).attempts = n
        /\ ClaimedRow(rows[j]).status = "running"
    BY <1>8, <2>1, RowTypes, RowAttempts, RowPresent DEF Claim
  <2>3. ledger[j] \in Ledger /\ StartAttempt(ledger[j], n) \in Ledger
    BY <1>0, <2>1 DEF StartAttempt, Ledger, Outcomes
  <2>4. [Idle EXCEPT !.pc = "handler", !.job = j, !.attempt = n] \in Worker
    <3>1. n \in 0 .. MaxAttempts
      BY <1>0, <2>1
    <3> HIDE DEF n
    <3>2. ASSUME NEW wk \in Worker
          PROVE  [wk EXCEPT !.pc = "handler", !.job = j, !.attempt = n] \in Worker
      BY <3>1 DEF Worker
    <3> QED
      BY <3>2, IdleType
  <2>5. TypeOK'
    BY <1>0, <1>8, <2>2, <2>3, <2>4 DEF Claim, TypeOK
  <2>6. HoldersHaveJobs'
    BY <1>0, <1>8, IdleType DEF Claim, AlwaysInv, HoldersHaveJobs, Executing, Worker
  <2>7. AbsentRowsAreUnclaimed'
    BY <1>0, <1>8, <2>2 DEF Claim, AlwaysInv, AbsentRowsAreUnclaimed
  <2>8. OneAttemptPerClaim'
    <3> SUFFICES ASSUME NEW i \in Jobs, NEW m \in 1 .. MaxAttempts
                 PROVE  ledger'[i][m] # "none" <=> m <= rows'[i].attempts
      BY DEF OneAttemptPerClaim
    <3>1. CASE i = j
      <4>1. ledger'[i] = StartAttempt(ledger[j], n) /\ rows'[i].attempts = n
        BY <1>0, <1>8, <2>2, <3>1 DEF Claim
      <4>2. ledger'[i][m] # "none" <=> ledger[j][m] # "none" \/ m = n
        <5> HIDE DEF n
        <5> QED
          BY <2>1, <2>3, <4>1, StartAttemptAddsRow
      <4>3. ledger[j][m] # "none" <=> m <= rows[j].attempts
        BY DEF AlwaysInv, OneAttemptPerClaim
      <4> QED
        BY <2>1, <4>1, <4>2, <4>3 DEF Row
    <3>2. CASE i # j
      BY <1>0, <1>8, <3>2 DEF Claim, AlwaysInv, OneAttemptPerClaim
    <3> QED
      BY <3>1, <3>2
  <2>9. ClaimsAreCounted'
    <3> SUFFICES ASSUME NEW v \in Workers, worker'[v].job \in Jobs
                 PROVE  worker'[v].attempt \in 1 .. rows'[worker'[v].job].attempts
      BY DEF ClaimsAreCounted
    <3>1. CASE v = w
      BY <1>0, <1>8, <2>1, <2>2, <2>4, <3>1, IdleType DEF Claim, Worker
    <3>2. CASE v # w
      <4>1. worker'[v] = worker[v]
        BY <1>0, <1>8, <3>2 DEF Claim
      <4>2. \A i \in Jobs : rows[i].attempts <= rows'[i].attempts
        BY <1>0, <1>8, <2>1, <2>2 DEF Claim, Row
      <4>3. worker[v].attempt \in 1 .. rows[worker[v].job].attempts
        BY <4>1 DEF AlwaysInv, ClaimsAreCounted
      <4>4. \A i \in Jobs : rows[i].attempts \in Nat
        BY <1>0 DEF Row
      <4> QED
        BY <1>0, <1>8, <2>1, <2>2, <4>1, <4>2, <4>3, <4>4 DEF Claim, Row
    <3> QED
      BY <3>1, <3>2
  <2> QED
    BY <2>5, <2>6, <2>7, <2>8, <2>9 DEF AlwaysInv
<1>9. ASSUME NEW w \in Workers, NEW j \in Jobs, ClaimExhausted(w, j) PROVE AlwaysInv'
  <2>0. rows[j] \in Row
    BY <1>0
  <2>1. /\ ExhaustedRow(rows[j]) \in Row /\ ExhaustedRow(rows[j]).status # "absent"
        /\ ExhaustedRow(rows[j]).attempts = rows[j].attempts
    BY <2>0, RowTypes, RowAttempts, RowPresent
  <2>2. TypeOK' /\ HoldersHaveJobs' /\ AbsentRowsAreUnclaimed'
    BY <1>0, <1>9, <2>1, IdleType
       DEF ClaimExhausted, AlwaysInv, TypeOK, HoldersHaveJobs, Executing, AbsentRowsAreUnclaimed
  <2>3. \A i \in Jobs : rows'[i].attempts = rows[i].attempts
    BY <1>0, <1>9, <2>1 DEF ClaimExhausted
  <2>4. OneAttemptPerClaim'
    BY <1>9, <2>3 DEF ClaimExhausted, AlwaysInv, OneAttemptPerClaim
  <2>5. ClaimsAreCounted'
    BY <1>0, <1>9, <2>3, IdleType, NoJobAssumption DEF ClaimExhausted, AlwaysInv, ClaimsAreCounted
  <2> QED
    BY <2>2, <2>4, <2>5 DEF AlwaysInv
<1>10. ASSUME NEW w \in Workers, ClaimNothing(w) \/ Crash(w) PROVE AlwaysInv'
  BY <1>0, <1>10, IdleType, OneWorkerMoved DEF ClaimNothing, Crash
<1>11. ASSUME NEW w \in Workers, Heartbeat(w) PROVE AlwaysInv'
  <2> DEFINE j == worker[w].job
  <2>1. Executing(w) /\ j \in Jobs
    BY <1>11 DEF Heartbeat, Executing, AlwaysInv, HoldersHaveJobs
  <2>2. CASE rows[j].status = "running"
    <3> DEFINE row == [rows[j] EXCEPT !.lease = "fresh"]
    <3>1. row \in Row /\ row.attempts = rows[j].attempts /\ row.status = "running"
      BY <1>0, <2>1, <2>2 DEF Row, Leases
    <3>2. rows' = [rows EXCEPT ![j] = row] /\ UNCHANGED ledger
      BY <1>0, <1>11, <2>1, <2>2 DEF Heartbeat
    <3>3. \A i \in Jobs : /\ rows'[i] \in Row /\ rows'[i].attempts = rows[i].attempts
                          /\ (rows'[i].status = "absent" => rows[i].status = "absent")
      BY <1>0, <3>1, <3>2
    <3>4. \A v \in Workers :
            /\ worker'[v] \in Worker /\ worker'[v].job = worker[v].job
            /\ worker'[v].attempt = worker[v].attempt
            /\ (worker'[v].pc = worker[v].pc \/ v = w)
      BY <1>0, <1>11 DEF Heartbeat, Worker, Endings
    <3>5. rows' \in [Jobs -> Row] /\ worker' \in [Workers -> Worker]
      <4>1. worker' = [v \in Workers |-> worker'[v]] /\ rows' = [i \in Jobs |-> rows'[i]]
        BY <1>0, <1>11, <3>2 DEF Heartbeat
      <4> QED
        BY <3>3, <3>4, <4>1
    <3>6. HoldersHaveJobs' /\ AbsentRowsAreUnclaimed' /\ ClaimsAreCounted'
      BY <2>1, <3>3, <3>4
         DEF AlwaysInv, HoldersHaveJobs, AbsentRowsAreUnclaimed, ClaimsAreCounted, Executing
    <3>7. OneAttemptPerClaim'
      BY <3>2, <3>3 DEF AlwaysInv, OneAttemptPerClaim
    <3> QED
      BY <1>0, <3>2, <3>5, <3>6, <3>7 DEF AlwaysInv, TypeOK
  <2>3. CASE rows[j].status # "running"
    BY <1>11, <2>3, AlwaysStutter DEF Heartbeat, vars
  <2> QED
    BY <2>2, <2>3
<1>12. ASSUME NEW w \in Workers, NEW ending \in Endings, HandlerEnds(w, ending)
       PROVE  AlwaysInv'
  <2>1. Executing(w) /\ worker[w].job \in Jobs
    BY <1>12 DEF HandlerEnds, Executing, AlwaysInv, HoldersHaveJobs
  <2> DEFINE next == [worker[w] EXCEPT !.pc = "saving", !.ending = ending,
                                       !.loaded = rows[worker[w].job]]
  <2>2. /\ next \in Worker /\ next.job = worker[w].job
        /\ next.attempt = worker[w].attempt
    BY <1>0, <2>1 DEF Worker
  <2>3. worker' = [worker EXCEPT ![w] = next] /\ UNCHANGED <<rows, ledger>>
    BY <1>12 DEF HandlerEnds
  <2> HIDE DEF next
  <2> QED
    BY <2>1, <2>2, <2>3, OneWorkerMoved
<1>13. ASSUME NEW w \in Workers, HandlerStops(w) PROVE AlwaysInv'
  <2>1. Executing(w) /\ worker[w].job \in Jobs
    BY <1>13 DEF HandlerStops, Executing, AlwaysInv, HoldersHaveJobs
  <2> DEFINE next == [worker[w] EXCEPT !.pc = "saving", !.loaded = rows[worker[w].job]]
  <2>2. /\ next \in Worker /\ next.job = worker[w].job
        /\ next.attempt = worker[w].attempt
    BY <1>0, <2>1 DEF Worker
  <2>3. worker' = [worker EXCEPT ![w] = next] /\ UNCHANGED <<rows, ledger>>
    BY <1>13 DEF HandlerStops
  <2> HIDE DEF next
  <2> QED
    BY <2>1, <2>2, <2>3, OneWorkerMoved
<1>14. ASSUME NEW w \in Workers, SaveOutcome(w) PROVE AlwaysInv'
  <2> DEFINE j == worker[w].job
             loaded == worker[w].loaded
             ending == worker[w].ending
             row == SavedRow(j, rows[j], loaded, ending)
             outcome == EndedOutcome(j, loaded, ending)
             attempts == EndAttempt(ledger[j], loaded.attempts, outcome)
  <2>1. j \in Jobs
    BY <1>14 DEF SaveOutcome, Executing, AlwaysInv, HoldersHaveJobs
  <2>2. rows[j] \in Row /\ loaded \in Row /\ ending \in Endings /\ ledger[j] \in Ledger
    BY <1>0, <2>1 DEF Worker
  <2>3. /\ rows' = [rows EXCEPT ![j] = row]
        /\ ledger' = [ledger EXCEPT ![j] = attempts]
        /\ worker' = [worker EXCEPT ![w] = Idle]
    BY <1>14 DEF SaveOutcome
  <2>4. /\ row \in Row /\ row.attempts = rows[j].attempts
        /\ (rows[j].status # "absent" => row.status # "absent")
    BY <2>2, SavedRowKeepsAttempts
  <2>5. /\ attempts \in Ledger
        /\ \A m \in 1 .. MaxAttempts : attempts[m] # "none" <=> ledger[j][m] # "none"
    BY <2>2, FinalOutcomes, EndAttemptKeepsRows
  <2> HIDE DEF j, row, attempts
  <2>6. TypeOK' /\ HoldersHaveJobs' /\ AbsentRowsAreUnclaimed'
    BY <1>0, <2>1, <2>3, <2>4, <2>5, IdleType
       DEF AlwaysInv, TypeOK, HoldersHaveJobs, Executing, AbsentRowsAreUnclaimed
  <2>7. \A i \in Jobs : rows'[i].attempts = rows[i].attempts
    BY <1>0, <2>1, <2>3, <2>4
  <2>8. OneAttemptPerClaim'
    BY <1>0, <2>1, <2>3, <2>5, <2>7 DEF AlwaysInv, OneAttemptPerClaim
  <2>9. ClaimsAreCounted'
    BY <1>0, <2>3, <2>7, IdleType, NoJobAssumption DEF AlwaysInv, ClaimsAreCounted
  <2> QED
    BY <2>6, <2>8, <2>9 DEF AlwaysInv
<1> QED
  BY <1>2, <1>3, <1>4, <1>5, <1>6, <1>7, <1>8, <1>9, <1>10, <1>11, <1>12, <1>13, <1>14,
     AlwaysStutter DEF Next, WorkerStep

(* Whatever late workers, crashes and cancel requests do, the tables keep   *)
(* their types: in particular no job is claimed more than MaxAttempts times. *)
THEOREM TypeCorrect == Spec => []TypeOK
<1>1. AlwaysInv => TypeOK
  BY DEF AlwaysInv
<1> QED
  BY <1>1, AlwaysInit, AlwaysStep, PTL DEF Spec

(* ml_job_attempts has one row per claim: exactly the numbers 1 .. attempts, *)
(* for any number of workers flushing rows they read earlier.               *)
THEOREM OneAttemptPerClaimHolds == Spec => []OneAttemptPerClaim
<1>1. AlwaysInv => OneAttemptPerClaim
  BY DEF AlwaysInv
<1> QED
  BY <1>1, AlwaysInit, AlwaysStep, PTL DEF Spec

(* A claim adds one to attempts and is known by that number: no flush of an *)
(* older copy takes the count back while a worker still acts on the claim.  *)
THEOREM ClaimsAreCountedHolds == Spec => []ClaimsAreCounted
<1>1. AlwaysInv => ClaimsAreCounted
  BY DEF AlwaysInv
<1> QED
  BY <1>1, AlwaysInit, AlwaysStep, PTL DEF Spec

(* A finished attempt is final: no step of any worker changes its outcome.  *)
LEMMA FinishedStep ==
    ASSUME AlwaysInv, [Next]_vars, NEW j \in Jobs, NEW n \in 1 .. MaxAttempts,
           ledger[j][n] \notin {"none", "running"}
    PROVE  ledger'[j][n] = ledger[j][n]
<1>0. ledger \in [Jobs -> Ledger] /\ rows \in [Jobs -> Row] /\ worker \in [Workers -> Worker]
  BY DEF AlwaysInv, TypeOK
<1>1. ASSUME NEW w \in Workers, Recover(w) PROVE ledger'[j][n] = ledger[j][n]
  <2>1. \/ ledger'[j] = ledger[j]
        \/ ledger'[j] = EndAttempt(ledger[j], rows[j].attempts, FailureOutcome(AfterFailure(rows[j])))
    BY <1>1 DEF Recover
  <2> QED
    BY <1>0, <2>1, FinalOutcomes, EndAttemptKeepsRows
<1>2. ASSUME NEW w \in Workers, NEW i \in Jobs, Claim(w, i) PROVE ledger'[j][n] = ledger[j][n]
  <2>1. ledger'[j] = ledger[j] \/ ledger'[j] = StartAttempt(ledger[j], rows[j].attempts + 1)
    BY <1>0, <1>2 DEF Claim
  <2> QED
    BY <1>0, <2>1 DEF StartAttempt, Ledger
<1>3. ASSUME NEW w \in Workers, SaveOutcome(w) PROVE ledger'[j][n] = ledger[j][n]
  <2> DEFINE i == worker[w].job
             outcome == EndedOutcome(i, worker[w].loaded, worker[w].ending)
  <2>1. \/ ledger'[j] = ledger[j]
        \/ ledger'[j] = EndAttempt(ledger[j], worker[w].loaded.attempts, outcome)
    BY <1>0, <1>3 DEF SaveOutcome
  <2>2. outcome \in Outcomes \ {"none", "running"}
    BY FinalOutcomes
  <2> HIDE DEF outcome
  <2> QED
    BY <1>0, <2>1, <2>2, EndAttemptKeepsRows
<1>4. \/ UNCHANGED ledger
      \/ \E w \in Workers : Recover(w) \/ SaveOutcome(w) \/ \E i \in Jobs : Claim(w, i)
  BY DEF Next, vars, Create, Cancel, Resume, BecomeDue, ExpireLease, WorkerStep,
     ClaimExhausted, ClaimNothing, HandlerEnds, HandlerStops, Heartbeat, Crash
<1> QED
  BY <1>1, <1>2, <1>3, <1>4

(* The UPDATE of _end_attempt reaches open rows only, so no late or         *)
(* recovering worker rewrites the history of a job.                         *)
THEOREM FinishedAttemptsStayFinal == Spec => FinishedAttemptsAreFinal
<1>1. AlwaysInv /\ [Next]_vars =>
        [\A j \in Jobs : \A n \in 1 .. MaxAttempts :
           ledger[j][n] \notin {"none", "running"} => ledger'[j][n] = ledger[j][n]]_vars
  BY FinishedStep
<1> QED
  BY <1>1, AlwaysInit, AlwaysStep, PTL DEF Spec, FinishedAttemptsAreFinal

(* No step takes an attempt back: a claim adds one, and a worker that       *)
(* flushes an older copy of the row leaves the stored number alone.         *)
LEMMA AttemptsStep ==
    ASSUME AlwaysInv, [Next]_vars, NEW j \in Jobs
    PROVE  rows[j].attempts <= rows'[j].attempts
<1> DEFINE Kept == rows[j].attempts <= rows'[j].attempts
<1>0. /\ rows \in [Jobs -> Row] /\ worker \in [Workers -> Worker]
      /\ rows[j] \in Row /\ rows[j].attempts \in Nat
  BY IdleType DEF AlwaysInv, TypeOK, Row
<1>1. ASSUME NEW i \in Jobs, NEW r, rows' = [rows EXCEPT ![i] = r],
             r.attempts = rows[i].attempts \/ r.attempts = rows[i].attempts + 1
      PROVE  Kept
  BY <1>0, <1>1
<1>2. ASSUME NEW i \in Jobs, NEW due \in BOOLEAN, Create(i, due) PROVE Kept
  BY <1>0, <1>2, <1>1 DEF Create, InsertedRow, AbsentRow, AlwaysInv, AbsentRowsAreUnclaimed
<1>3. ASSUME NEW i \in Jobs, Cancel(i) PROVE Kept
  BY <1>0, <1>3, <1>1, RowAttempts DEF Cancel
<1>4. ASSUME NEW i \in Jobs, Resume(i) PROVE Kept
  BY <1>0, <1>4, <1>1, RowAttempts DEF Resume
<1>5. ASSUME NEW i \in Jobs, BecomeDue(i) \/ ExpireLease(i) PROVE Kept
  BY <1>0, <1>5 DEF BecomeDue, ExpireLease, Row
<1>6. ASSUME NEW w \in Workers, Recover(w) PROVE Kept
  BY <1>0, <1>6, RowAttempts DEF Recover
<1>7. ASSUME NEW w \in Workers, NEW i \in Jobs, Claim(w, i) \/ ClaimExhausted(w, i) PROVE Kept
  BY <1>0, <1>7, <1>1, RowAttempts DEF Claim, ClaimExhausted
<1>8. ASSUME NEW w \in Workers, Heartbeat(w) PROVE Kept
  BY <1>0, <1>8 DEF Heartbeat, Row
<1>9. ASSUME NEW w \in Workers, SaveOutcome(w) PROVE Kept
  <2>1. worker[w].job \in Jobs
    BY <1>9 DEF SaveOutcome, Executing, AlwaysInv, HoldersHaveJobs
  <2>2. rows[worker[w].job] \in Row /\ worker[w].loaded \in Row /\ worker[w].ending \in Endings
    BY <1>0, <2>1 DEF Worker
  <2> DEFINE i == worker[w].job
             row == SavedRow(i, rows[i], worker[w].loaded, worker[w].ending)
  <2>3. rows' = [rows EXCEPT ![i] = row]
    BY <1>9 DEF SaveOutcome
  <2>4. row.attempts = rows[i].attempts
    BY <2>2, SavedRowKeepsAttempts
  <2> HIDE DEF i, row
  <2> QED
    BY <1>1, <2>1, <2>3, <2>4 DEF i
<1>10. CASE UNCHANGED rows
  BY <1>0, <1>10
<1>11. ASSUME NEW w \in Workers,
              ClaimNothing(w) \/ HandlerStops(w) \/ Crash(w)
                \/ \E ending \in Endings : HandlerEnds(w, ending)
       PROVE  UNCHANGED rows
  BY <1>11 DEF ClaimNothing, HandlerStops, Crash, HandlerEnds
<1> HIDE DEF Kept
<1> QED
  BY <1>2, <1>3, <1>4, <1>5, <1>6, <1>7, <1>8, <1>9, <1>10, <1>11
     DEF Next, WorkerStep, vars, Kept

(* The attempts column never goes back, whoever flushes: not even a worker  *)
(* whose job was recovered and claimed again under it.                      *)
THEOREM AttemptsStay == Spec => AttemptsNeverGoBack
<1>1. AlwaysInv /\ [Next]_vars =>
        [\A j \in Jobs : rows[j].attempts <= rows'[j].attempts]_vars
  BY AttemptsStep
<1> QED
  BY <1>1, AlwaysInit, AlwaysStep, PTL DEF Spec, AttemptsNeverGoBack
=============================================================================
