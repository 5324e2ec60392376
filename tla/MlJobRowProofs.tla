--------------------------- MODULE MlJobRowProofs ---------------------------
(***************************************************************************)
(* Lemmas about the row algebra of MlJobRow, for every bound on attempts:  *)
(* what the assignments of ml_job_service.py keep of a row, what a flush   *)
(* of a stale copy leaves of the stored one, and what the two statements   *)
(* on ml_job_attempts do to the ledger.  The proofs of the queue and of a  *)
(* training run both rest on them.                                         *)
(***************************************************************************)
EXTENDS MlJobRow, TLAPS

-----------------------------------------------------------------------------
(* A flush yields a row whose every column is either the flushed or the     *)
(* stored one.                                                              *)
LEMMA OrmWriteRow ==
    ASSUME NEW now \in Row, NEW loaded \in Row, NEW changed \in Row
    PROVE  LET written == OrmWrite(now, loaded, changed)
               pick(old, new, stored) == IF new = old THEN stored ELSE new
           IN /\ written \in Row
              /\ written.status = pick(loaded.status, changed.status, now.status)
              /\ written.attempts = pick(loaded.attempts, changed.attempts, now.attempts)
              /\ written.done = pick(loaded.done, changed.done, now.done)
              /\ written.lease = pick(loaded.lease, changed.lease, now.lease)
  BY DEF OrmWrite, Row

(* Every assignment of ml_job_service.py keeps a row a row. *)
LEMMA RowTypes ==
    ASSUME NEW r \in Row
    PROVE  /\ AbsentRow \in Row
           /\ \A due \in BOOLEAN : InsertedRow(due) \in Row
           /\ r.attempts < MaxAttempts => ClaimedRow(r) \in Row
           /\ ExhaustedRow(r) \in Row
           /\ CompletedRow(r) \in Row
           /\ FailedRow(r) \in Row
           /\ CancelledRow(r) \in Row
           /\ RequeuedRow(r) \in Row
           /\ AfterFailure(r) \in Row
           /\ CancelRequestedRow(r) \in Row
<1> USE DEF Row, Statuses, Leases
<1>0. MaxAttempts \in Nat /\ MaxAttempts >= 1
  BY MaxAttemptsAssumption
<1>a. AbsentRow \in Row
  BY <1>0 DEF AbsentRow
<1>1. ASSUME NEW due \in BOOLEAN PROVE InsertedRow(due) \in Row
  BY <1>a DEF InsertedRow
<1>2. ASSUME r.attempts < MaxAttempts PROVE ClaimedRow(r) \in Row
  <2>1. r.attempts + 1 \in 0 .. MaxAttempts
    BY <1>0, <1>2
  <2> QED
    BY <2>1 DEF ClaimedRow
<1>3. ExhaustedRow(r) \in Row /\ CompletedRow(r) \in Row
  BY DEF ExhaustedRow, CompletedRow
<1>4. FailedRow(r) \in Row /\ CancelledRow(r) \in Row
  BY DEF FailedRow, CancelledRow
<1>5. RequeuedRow(r) \in Row
  BY DEF RequeuedRow
<1>6. RetriedRow(r) \in Row
  BY DEF RetriedRow
<1>7. CancelRequestedRow(r) \in Row
  BY DEF CancelRequestedRow, CancelledRow
<1> HIDE DEF Row
<1>8. AfterFailure(r) \in Row
  BY <1>4, <1>6 DEF AfterFailure
<1> QED
  BY <1>a, <1>1, <1>2, <1>3, <1>4, <1>5, <1>7, <1>8

(* None of them but the claim touches the number of attempts. *)
LEMMA RowAttempts ==
    ASSUME NEW r \in Row
    PROVE  /\ ClaimedRow(r).attempts = r.attempts + 1
           /\ ExhaustedRow(r).attempts = r.attempts
           /\ CompletedRow(r).attempts = r.attempts
           /\ FailedRow(r).attempts = r.attempts
           /\ CancelledRow(r).attempts = r.attempts
           /\ RequeuedRow(r).attempts = r.attempts
           /\ AfterFailure(r).attempts = r.attempts
           /\ CancelRequestedRow(r).attempts = r.attempts
<1>1. /\ ClaimedRow(r).attempts = r.attempts + 1
      /\ ExhaustedRow(r).attempts = r.attempts
      /\ CompletedRow(r).attempts = r.attempts
      /\ FailedRow(r).attempts = r.attempts
      /\ CancelledRow(r).attempts = r.attempts
      /\ RetriedRow(r).attempts = r.attempts
  BY DEF Row, ClaimedRow, ExhaustedRow, CompletedRow, FailedRow, CancelledRow, RetriedRow
<1>2. RequeuedRow(r).attempts = r.attempts
  BY DEF Row, RequeuedRow
<1>3. AfterFailure(r).attempts = r.attempts
  BY <1>1 DEF AfterFailure
<1>4. CancelRequestedRow(r).attempts = r.attempts
  BY DEF Row, CancelRequestedRow, CancelledRow
<1> QED
  BY <1>1, <1>2, <1>3, <1>4

(* None of them makes a row absent again.                                   *)
LEMMA RowPresent ==
    ASSUME NEW r \in Row
    PROVE  /\ ClaimedRow(r).status = "running"
           /\ ExhaustedRow(r).status = "failed"
           /\ CompletedRow(r).status = "completed"
           /\ FailedRow(r).status = "failed"
           /\ CancelledRow(r).status = "cancelled"
           /\ RequeuedRow(r).status = "queued"
           /\ AfterFailure(r).status \in {"queued", "failed", "cancelled"}
           /\ r.status # "absent" => CancelRequestedRow(r).status # "absent"
<1>1. /\ ClaimedRow(r).status = "running"
      /\ ExhaustedRow(r).status = "failed"
      /\ CompletedRow(r).status = "completed"
      /\ FailedRow(r).status = "failed"
      /\ CancelledRow(r).status = "cancelled"
      /\ RetriedRow(r).status = "queued"
  BY DEF Row, ClaimedRow, ExhaustedRow, CompletedRow, FailedRow, CancelledRow, RetriedRow
<1>2. RequeuedRow(r).status = "queued"
  BY DEF Row, RequeuedRow
<1>3. AfterFailure(r).status \in {"queued", "failed", "cancelled"}
  BY <1>1 DEF AfterFailure
<1>4. r.status # "absent" => CancelRequestedRow(r).status # "absent"
  BY DEF Row, CancelRequestedRow, CancelledRow
<1> QED
  BY <1>1, <1>2, <1>3, <1>4

(* Attempt rows: a start adds the row of one number, an end closes at most  *)
(* one open row and removes none.                                           *)
LEMMA StartAttemptAddsRow ==
    ASSUME NEW l \in Ledger, NEW n \in 1 .. MaxAttempts, NEW m \in 1 .. MaxAttempts
    PROVE  /\ StartAttempt(l, n) \in Ledger
           /\ StartAttempt(l, n)[m] # "none" <=> l[m] # "none" \/ m = n
           /\ StartAttempt(l, n)[m] = IF m = n /\ l[m] = "none" THEN "running" ELSE l[m]
  BY DEF Ledger, Outcomes, StartAttempt

(* _end_attempt neither adds nor removes an attempt row. *)
LEMMA EndAttemptKeepsRows ==
    ASSUME NEW l \in Ledger, NEW n, NEW outcome \in Outcomes \ {"none", "running"}
    PROVE  /\ EndAttempt(l, n, outcome) \in Ledger
           /\ \A m \in 1 .. MaxAttempts :
                /\ EndAttempt(l, n, outcome)[m] # "none" <=> l[m] # "none"
                /\ l[m] # "running" => EndAttempt(l, n, outcome)[m] = l[m]
                /\ EndAttempt(l, n, outcome)[m] = "running" <=> l[m] = "running" /\ m # n
  BY DEF Ledger, Outcomes, EndAttempt
=============================================================================
