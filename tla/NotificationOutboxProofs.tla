---------------------- MODULE NotificationOutboxProofs ----------------------
(***************************************************************************)
(* Proofs about NotificationOutbox for any number of workers, rows,        *)
(* workspaces and endpoints, any caps and any number of faults.  OutboxInv *)
(* is inductive: what the worker of a claim, the row, the log and the      *)
(* receiver each know of one message.                                      *)
(***************************************************************************)
EXTENDS NotificationOutbox, FiniteSetTheorems, TLAPS

-----------------------------------------------------------------------------
(* A worker has one claim or none, and an answer once it has sent.         *)
ClaimIsWhole(w) ==
    /\ worker[w].pc = "idle" => worker[w].claim = {}
    /\ worker[w].pc # "idle" => \E r \in Row : worker[w].claim = {r}
    /\ worker[w].pc = "answered" => \E a \in Attempted \cup {"defer"} : worker[w].answer = {a}

(* Until its lease ends the worker has the token of the row.               *)
KeepsLease(w, r) == At(w, r) /\ ~worker[w].late => Held(w, r) /\ ~row[r].lapsed

Answered(w, r, a) == At(w, r) /\ worker[w].pc = "answered" /\ worker[w].answer = {a}

(* A message that arrived is one that a worker is about to call sent.      *)
Sending(r) == \E w \in Worker : Answered(w, r, "ok")

(* A row that nothing disturbed: its worker is in time, and its message    *)
(* was received once, if it is sent or about to be.                        *)
RowIsCalm(r) ==
    fault[r] = "none" =>
        /\ \A w \in Worker : At(w, r) => ~worker[w].late
        /\ received[r] > 0 => received[r] = 1 /\ (row[r].status = "sent" \/ Sending(r))

(* What is called sent, or about to be, was received; what was received    *)
(* and is not lost is in the log, or about to be.                          *)
RowIsTrue(r) ==
    /\ row[r].status = "sent" \/ Sending(r) => received[r] > 0
    /\ r \in Hook => /\ row[r].status = "sent" => TRUE \in log[r]
                     /\ received[r] > 0 /\ fault[r] # "lost" => TRUE \in log[r] \/ Sending(r)

(* Emails that are sent, and those whose answer will decide.               *)
Speaks(e) ==
    \/ row[e].status = "sent"
    \/ \E w \in Worker : At(w, e) /\ Held(w, e) /\ worker[w].pc = "answered"

Spoken(among) == {e \in among : Speaks(e)}

RoomIsKept ==
    /\ \A p \in Place : Cardinality(Spoken(MailsOf(p))) <= PlaceCap
    /\ Cardinality(Spoken(Email)) <= DayCap

ClaimInv ==
    /\ TypeOK
    /\ \A w \in Worker : ClaimIsWhole(w) /\ \A r \in Row : KeepsLease(w, r)

OutboxInv == ClaimInv /\ \A r \in Row : RowIsCalm(r) /\ RowIsTrue(r)

-----------------------------------------------------------------------------
(* What a step keeps of one row.                                           *)
Kept(r) == RowIsCalm(r)' /\ RowIsTrue(r)' /\ \A w \in Worker : KeepsLease(w, r)'

LEMMA KeptIsInv ==
    ASSUME TypeOK', \A w \in Worker : ClaimIsWhole(w)', \A r \in Row : Kept(r)
    PROVE  OutboxInv'
BY DEF OutboxInv, ClaimInv, Kept

(* A row that a step leaves alone, with the workers that are at it.        *)
LEMMA RowStays ==
    ASSUME OutboxInv, NEW r \in Row,
           row'[r] = row[r], received'[r] = received[r], fault'[r] = fault[r],
           r \in Hook => log'[r] = log[r],
           \A w \in Worker : /\ At(w, r)' <=> At(w, r)
                             /\ At(w, r) => worker'[w] = worker[w]
    PROVE  Kept(r)
<1>1. \A w \in Worker, a \in {"ok"} : Answered(w, r, a)' <=> Answered(w, r, a)
  BY DEF Answered, At
<1>2. Sending(r)' <=> Sending(r)
  BY <1>1 DEF Sending
<1>3. RowIsCalm(r)' /\ RowIsTrue(r)'
  BY <1>2 DEF OutboxInv, RowIsCalm, RowIsTrue
<1>4. \A w \in Worker : KeepsLease(w, r)'
  BY DEF OutboxInv, ClaimInv, KeepsLease, Held, At
<1> QED
  BY <1>3, <1>4 DEF Kept

(* One worker moves, with its claim on one row at most.                    *)
Moves(w, r, next) ==
    /\ worker' = [worker EXCEPT ![w] = next]
    /\ worker[w].claim \in {{}, {r}}
    /\ next.claim \in {{}, {r}}

WorkerRow == [pc : {"idle", "claimed", "answered"}, claim : SUBSET Row,
              answer : SUBSET (Attempted \cup {"defer"}), late : BOOLEAN]

LEMMA OthersStay ==
    ASSUME OutboxInv, NEW w \in Worker, NEW r \in Row, NEW next, Moves(w, r, next),
           NEW q \in Row, q # r, row'[q] = row[q], received'[q] = received[q],
           fault'[q] = fault[q], q \in Hook => log'[q] = log[q]
    PROVE  Kept(q)
<1>1. worker \in [Worker -> WorkerRow]
  BY DEF OutboxInv, ClaimInv, TypeOK, WorkerRow
<1>2. \A u \in Worker : worker'[u] = IF u = w THEN next ELSE worker[u]
  BY <1>1 DEF Moves
<1>3. ~At(w, q) /\ ~At(w, q)'
  BY <1>2 DEF Moves, At
<1>4. \A u \in Worker : (At(u, q)' <=> At(u, q)) /\ (At(u, q) => worker'[u] = worker[u])
  BY <1>2, <1>3 DEF At
<1> QED
  BY <1>4, RowStays

LEMMA MoversAreWhole ==
    ASSUME OutboxInv, NEW w \in Worker, NEW r \in Row, NEW next \in WorkerRow, Moves(w, r, next),
           next.pc = "idle" <=> next.claim = {},
           next.pc = "answered" => \E a \in Attempted \cup {"defer"} : next.answer = {a}
    PROVE  /\ worker' \in [Worker -> WorkerRow]
           /\ \A u \in Worker : ClaimIsWhole(u)'
<1>1. worker \in [Worker -> WorkerRow]
  BY DEF OutboxInv, ClaimInv, TypeOK, WorkerRow
<1>2. \A u \in Worker : worker'[u] = IF u = w THEN next ELSE worker[u]
  BY <1>1 DEF Moves
<1>3. worker' \in [Worker -> WorkerRow]
  BY <1>1, <1>2 DEF Moves
<1>4. ASSUME NEW u \in Worker PROVE ClaimIsWhole(u)'
  <2>1. CASE u = w
    BY <2>1, <1>2 DEF Moves, ClaimIsWhole
  <2>2. CASE u # w
    BY <2>2, <1>2 DEF OutboxInv, ClaimInv, ClaimIsWhole
  <2> QED
    BY <2>1, <2>2
<1> QED
  BY <1>3, <1>4

LEMMA IdleIsWhole == Idle \in WorkerRow /\ Idle.pc = "idle" /\ Idle.claim = {}
BY DEF Idle, WorkerRow

(* Two workers in time are never at one row.                               *)
LEMMA OneInTime ==
    ASSUME OutboxInv, NEW r \in Row, NEW u \in Worker, NEW w \in Worker, At(u, r), At(w, r),
           ~worker[u].late, ~worker[w].late
    PROVE  u = w
BY DEF OutboxInv, ClaimInv, KeepsLease, Held

LEMMA ClaimsAre ==
    ASSUME OutboxInv, NEW w \in Worker, NEW r \in worker[w].claim
    PROVE  r \in Row /\ At(w, r) /\ worker[w].claim = {r} /\ worker[w] \in WorkerRow
BY DEF OutboxInv, ClaimInv, ClaimIsWhole, At, TypeOK, WorkerRow

(* The rows that the statements write are rows.                            *)
LEMMA WrittenRows ==
    ASSUME TypeOK, NEW r \in Row
    PROVE  /\ row[r] \in OutboxRow
           /\ [row[r] EXCEPT !.lapsed = TRUE] \in OutboxRow
           /\ [row[r] EXCEPT !.lapsed = TRUE].status = row[r].status
           /\ [row[r] EXCEPT !.lapsed = TRUE].token = row[r].token
           /\ [row[r] EXCEPT !.lapsed = TRUE].lapsed = TRUE
           /\ Expired(r) \in OutboxRow /\ Expired(r).token = {} /\ Expired(r).status = "dead"
           /\ \A w \in Worker :
                 /\ Claimed(r, w) \in OutboxRow /\ Claimed(r, w).status = "sending"
                 /\ Claimed(r, w).token = {w} /\ ~Claimed(r, w).lapsed
<1>1. row[r] \in OutboxRow
  BY DEF TypeOK
<1>2. {"dead", "sending"} \subseteq DueStatuses \cup Terminal
  BY DEF DueStatuses, Terminal
<1> QED
  BY <1>1, <1>2 DEF OutboxRow, Expired, Claimed

-----------------------------------------------------------------------------
(* Faults and time.                                                        *)
LEMMA DisturbTypes ==
    ASSUME TypeOK, NEW r \in Row, NEW worst \in {"late", "lost"}, Disturb(r, worst)
    PROVE  /\ faults' \in 0 .. Faults /\ fault' \in [Row -> {"none", "late", "lost"}]
           /\ \A q \in Row : q # r => fault'[q] = fault[q]
           /\ fault'[r] = IF fault[r] = "lost" THEN "lost" ELSE worst
<1>1. faults' \in 0 .. Faults
  BY NumberAssumption DEF TypeOK, Disturb
<1> QED
  BY <1>1 DEF TypeOK, Disturb

(* Only a row that somebody is sending is disturbed by the end of a lease. *)
LEMMA LeaseEndsKeeps ==
    ASSUME OutboxInv, NEW r \in Row, LeaseEnds(r)
    PROVE  OutboxInv'
<1>1. TypeOK /\ worker \in [Worker -> WorkerRow]
  BY DEF OutboxInv, ClaimInv, TypeOK, WorkerRow
<1>2. /\ row[r].status = "sending" /\ row' = [row EXCEPT ![r].lapsed = TRUE]
      /\ UNCHANGED <<endpoint, log, old, received>>
  BY DEF LeaseEnds
<1>3. \A w \in Worker : worker'[w] = IF At(w, r) THEN [worker[w] EXCEPT !.late = TRUE]
                                    ELSE worker[w]
  BY DEF LeaseEnds
<1>4. worker' \in [Worker -> WorkerRow]
  <2>1. ASSUME NEW w \in Worker PROVE [worker[w] EXCEPT !.late = TRUE] \in WorkerRow
    <3>1. worker[w] \in WorkerRow
      BY <1>1
    <3> QED
      BY <3>1 DEF WorkerRow
  <2> QED
    BY <1>1, <2>1 DEF LeaseEnds
<1>5. /\ \A q \in Row : row'[q] = IF q = r THEN [row[r] EXCEPT !.lapsed = TRUE] ELSE row[q]
      /\ row' \in [Row -> OutboxRow]
  BY <1>1, <1>2, WrittenRows DEF TypeOK
<1>6. /\ faults' \in 0 .. Faults /\ fault' \in [Row -> {"none", "late", "lost"}]
      /\ \A q \in Row : q # r => fault'[q] = fault[q]
      /\ fault'[r] = "lost" <=> fault[r] = "lost"
      /\ fault'[r] = "none" => fault[r] = "none" /\ \A w \in Worker : ~At(w, r)
  <2>1. CASE \E w \in Worker : At(w, r)
    BY <1>1, <2>1, DisturbTypes DEF LeaseEnds
  <2>2. CASE ~\E w \in Worker : At(w, r)
    BY <1>1, <2>2 DEF LeaseEnds, TypeOK
  <2> QED
    BY <2>1, <2>2
<1>7. TypeOK'
  BY <1>1, <1>2, <1>4, <1>5, <1>6 DEF TypeOK, WorkerRow, OutboxRow
<1>8. ASSUME NEW w \in Worker
      PROVE  /\ worker'[w].pc = worker[w].pc /\ worker'[w].claim = worker[w].claim
             /\ worker'[w].answer = worker[w].answer /\ (At(w, r) => worker'[w].late)
  BY <1>1, <1>3 DEF WorkerRow
<1>9. \A w \in Worker : ClaimIsWhole(w)'
  BY <1>8 DEF OutboxInv, ClaimInv, ClaimIsWhole
<1>10. ASSUME NEW q \in Row, q # r PROVE Kept(q)
  <2>1. \A w \in Worker : (At(w, q)' <=> At(w, q)) /\ (At(w, q) => worker'[w] = worker[w])
    BY <1>3, <1>8, <1>10 DEF At
  <2> QED
    BY <1>2, <1>5, <1>6, <1>10, <2>1, RowStays
<1>11. Kept(r)
  <2>1. /\ row'[r].status = "sending" /\ row'[r].token = row[r].token
    BY <1>1, <1>2, <1>5, WrittenRows
  <2>2. Sending(r)' <=> Sending(r)
    BY <1>8 DEF Sending, Answered, At
  <2>3. RowIsTrue(r)'
    BY <1>2, <1>6, <2>1, <2>2 DEF OutboxInv, RowIsTrue
  <2>4. RowIsCalm(r)'
    <3> SUFFICES ASSUME fault'[r] = "none"
                 PROVE  /\ \A w \in Worker : At(w, r)' => ~worker'[w].late
                        /\ received'[r] > 0 =>
                               received'[r] = 1 /\ (row'[r].status = "sent" \/ Sending(r)')
      BY DEF RowIsCalm, At, Sending, Answered
    <3>1. fault[r] = "none" /\ \A w \in Worker : ~At(w, r)
      BY <1>6
    <3>2. \A w \in Worker : At(w, r)' <=> At(w, r)
      BY <1>8 DEF At
    <3>3. received'[r] = received[r] /\ row[r].status = "sending"
      BY <1>2
    <3>4. received[r] > 0 => received[r] = 1 /\ Sending(r)
      BY <3>1, <3>3 DEF OutboxInv, RowIsCalm
    <3> QED
      BY <2>2, <3>1, <3>2, <3>3, <3>4
  <2>5. \A w \in Worker : KeepsLease(w, r)'
    BY <1>8 DEF KeepsLease, At
  <2> QED
    BY <2>3, <2>4, <2>5 DEF Kept
<1> QED
  BY <1>7, <1>9, <1>10, <1>11, KeptIsInv

(* Steps that touch neither rows nor workers.                              *)
LEMMA SurroundingsKeep ==
    ASSUME OutboxInv, UNCHANGED <<row, log, worker, received, fault, faults>>,
           old' \in BOOLEAN,
           endpoint' \in [Endpoint -> [on : BOOLEAN, failures : 0 .. BreakerFailures, paused : BOOLEAN]]
    PROVE  OutboxInv'
<1>1. TypeOK' /\ \A w \in Worker : ClaimIsWhole(w)'
  BY DEF OutboxInv, ClaimInv, TypeOK, ClaimIsWhole
<1>2. \A r \in Row : Kept(r)
  BY RowStays DEF At
<1> QED
  BY <1>1, <1>2, KeptIsInv

LEMMA TimeAndPeopleKeep ==
    ASSUME OutboxInv, GrowOld \/ (\E e \in Endpoint : PauseEnds(e) \/ Toggle(e)) \/ UNCHANGED vars
    PROVE  OutboxInv'
<1>1. UNCHANGED <<row, log, worker, received, fault, faults>> /\ old' \in BOOLEAN
  BY DEF GrowOld, PauseEnds, Toggle, vars, OutboxInv, ClaimInv, TypeOK
<1>2. endpoint' \in [Endpoint -> [on : BOOLEAN, failures : 0 .. BreakerFailures, paused : BOOLEAN]]
  <2> DEFINE EndpointRow == [on : BOOLEAN, failures : 0 .. BreakerFailures, paused : BOOLEAN]
  <2>1. endpoint \in [Endpoint -> EndpointRow]
    BY DEF OutboxInv, ClaimInv, TypeOK
  <2>2. CASE UNCHANGED endpoint
    BY <2>1, <2>2
  <2>3. ASSUME NEW e \in Endpoint, NEW next, endpoint' = [endpoint EXCEPT ![e] = next],
               next \in EndpointRow
        PROVE  endpoint' \in [Endpoint -> EndpointRow]
    BY <2>1, <2>3
  <2>4. ASSUME NEW e \in Endpoint
        PROVE  /\ [endpoint[e] EXCEPT !.paused = FALSE] \in EndpointRow
               /\ [endpoint[e] EXCEPT !.on = FALSE] \in EndpointRow
               /\ [on |-> TRUE, failures |-> 0, paused |-> FALSE] \in EndpointRow
    <3>1. endpoint[e] \in EndpointRow /\ 0 \in 0 .. BreakerFailures
      BY <2>1, NumberAssumption
    <3> QED
      BY <3>1
  <2>5. ASSUME NEW e \in Endpoint, PauseEnds(e) PROVE endpoint' \in [Endpoint -> EndpointRow]
    <3>1. endpoint' = [endpoint EXCEPT ![e] = [endpoint[e] EXCEPT !.paused = FALSE]]
      BY <2>1, <2>5 DEF PauseEnds
    <3> QED
      BY <2>3, <2>4, <3>1
  <2>6. ASSUME NEW e \in Endpoint, Toggle(e) PROVE endpoint' \in [Endpoint -> EndpointRow]
    <3>1. endpoint' = [endpoint EXCEPT ![e] =
             IF endpoint[e].on THEN [endpoint[e] EXCEPT !.on = FALSE]
             ELSE [on |-> TRUE, failures |-> 0, paused |-> FALSE]]
      BY <2>1, <2>6 DEF Toggle
    <3> QED
      BY <2>3, <2>4, <3>1
  <2> QED
    BY <2>2, <2>5, <2>6 DEF GrowOld, vars
<1> QED
  BY <1>1, <1>2, SurroundingsKeep

-----------------------------------------------------------------------------
(* The tick.  Nobody in time is at a row that can be claimed.              *)
LEMMA ClaimableIsFree ==
    ASSUME OutboxInv, NEW r \in Row, Claimable(r)
    PROVE  /\ row[r].status \notin Terminal
           /\ \A w \in Worker : At(w, r) => worker[w].late
           /\ fault[r] = "none" => (\A w \in Worker : ~At(w, r)) /\ received[r] = 0
<1>1. row[r].status \notin Terminal /\ (row[r].status = "sending" => row[r].lapsed)
  BY DEF Claimable, DueStatuses, Terminal
<1>2. \A w \in Worker : At(w, r) => worker[w].late
  BY <1>1 DEF OutboxInv, ClaimInv, KeepsLease, Held
<1>3. ASSUME fault[r] = "none"
      PROVE  (\A w \in Worker : ~At(w, r)) /\ received[r] = 0
  <2>1. \A w \in Worker : ~At(w, r)
    BY <1>2, <1>3 DEF OutboxInv, RowIsCalm
  <2>2. ~(received[r] > 0)
    BY <1>1, <1>3, <2>1 DEF OutboxInv, RowIsCalm, Sending, Answered, Terminal
  <2>3. received[r] \in 0 .. 2
    BY DEF OutboxInv, ClaimInv, TypeOK
  <2> QED
    BY <2>1, <2>2, <2>3
<1> QED
  BY <1>1, <1>2, <1>3

LEMMA ExpireKeeps ==
    ASSUME OutboxInv, NEW gone \in SUBSET {r \in Row : Claimable(r)},
           row' = [r \in Row |-> IF r \in gone THEN Expired(r) ELSE row[r]],
           UNCHANGED <<worker, endpoint, log, old, received, fault, faults>>
    PROVE  OutboxInv'
<1>1. TypeOK' /\ \A w \in Worker : ClaimIsWhole(w)'
  <2>1. \A r \in Row : /\ Expired(r) \in OutboxRow /\ Expired(r).token = {}
                      /\ Expired(r).status = "dead"
    BY WrittenRows DEF OutboxInv, ClaimInv
  <2>2. row' \in [Row -> OutboxRow] /\ \A r \in Row : (row'[r].token # {}) <=> (row'[r].status = "sending")
    BY <2>1 DEF OutboxInv, ClaimInv, TypeOK
  <2> QED
    BY <2>2 DEF OutboxInv, ClaimInv, TypeOK, ClaimIsWhole
<1>2. ASSUME NEW r \in Row PROVE Kept(r)
  <2>1. CASE r \notin gone
    BY <2>1, RowStays DEF At
  <2>2. CASE r \in gone
    <3>1. /\ row'[r].status = "dead" /\ (Sending(r)' <=> Sending(r))
          /\ \A w \in Worker : At(w, r)' <=> At(w, r)
      BY <2>2, WrittenRows DEF OutboxInv, ClaimInv, Sending, Answered, At
    <3>2. /\ \A w \in Worker : At(w, r) => worker[w].late
          /\ fault[r] = "none" => (\A w \in Worker : ~At(w, r)) /\ received[r] = 0
      BY <2>2, ClaimableIsFree
    <3>3. RowIsCalm(r)' /\ \A w \in Worker : KeepsLease(w, r)'
      BY <3>1, <3>2 DEF RowIsCalm, KeepsLease
    <3>4. RowIsTrue(r)'
      BY <3>1 DEF OutboxInv, RowIsTrue
    <3> QED
      BY <3>3, <3>4 DEF Kept
  <2> QED
    BY <2>1, <2>2
<1> QED
  BY <1>1, <1>2, KeptIsInv

LEMMA ClaimKeeps ==
    ASSUME OutboxInv, NEW w \in Worker, NEW r \in Row, Claimable(r), worker[w].pc = "idle",
           row' = [row EXCEPT ![r] = Claimed(r, w)],
           worker' = [worker EXCEPT ![w] = [Idle EXCEPT !.pc = "claimed", !.claim = {r}]],
           UNCHANGED <<endpoint, log, old, received, fault, faults>>
    PROVE  OutboxInv'
<1> DEFINE next == [Idle EXCEPT !.pc = "claimed", !.claim = {r}]
<1>1. /\ next \in WorkerRow /\ next.pc = "claimed" /\ next.claim = {r} /\ ~next.late
  BY DEF Idle, WorkerRow
<1> HIDE DEF next
<1>2. worker[w].claim = {} /\ TypeOK
  BY DEF OutboxInv, ClaimInv, ClaimIsWhole
<1>3. Moves(w, r, next)
  BY <1>1, <1>2 DEF Moves, next
<1>4. worker' \in [Worker -> WorkerRow] /\ \A u \in Worker : ClaimIsWhole(u)'
  BY <1>1, <1>3, MoversAreWhole
<1>5. /\ Claimed(r, w) \in OutboxRow /\ Claimed(r, w).status = "sending"
      /\ Claimed(r, w).token = {w} /\ ~Claimed(r, w).lapsed
  BY <1>2, WrittenRows
<1>6. /\ \A q \in Row : row'[q] = IF q = r THEN Claimed(r, w) ELSE row[q]
      /\ row' \in [Row -> OutboxRow]
  BY <1>2, <1>5 DEF TypeOK
<1>7. TypeOK'
  BY <1>2, <1>4, <1>5, <1>6 DEF TypeOK, WorkerRow
<1>8. \A q \in Row : q # r => Kept(q)
  BY <1>3, <1>6, OthersStay
<1>9. Kept(r)
  <2>1. \A u \in Worker : worker'[u] = IF u = w THEN next ELSE worker[u]
    BY <1>2 DEF TypeOK, next
  <2>2. ~At(w, r) /\ At(w, r)' /\ \A u \in Worker : u # w => (At(u, r)' <=> At(u, r))
    BY <1>1, <1>2, <2>1 DEF At
  <2>3. Sending(r)' <=> Sending(r)
    BY <1>1, <2>1, <2>2 DEF Sending, Answered
  <2>4. /\ \A u \in Worker : At(u, r) => worker[u].late
        /\ fault[r] = "none" => (\A u \in Worker : ~At(u, r)) /\ received[r] = 0
    BY ClaimableIsFree
  <2>5. RowIsCalm(r)'
    <3> SUFFICES ASSUME fault[r] = "none"
                 PROVE  (\A u \in Worker : At(u, r)' => ~worker'[u].late) /\ ~(received[r] > 0)
      BY DEF RowIsCalm
    <3>1. \A u \in Worker : ~At(u, r)
      BY <2>4
    <3>2. \A u \in Worker : At(u, r)' => ~worker'[u].late
      BY <1>1, <2>1, <2>2, <3>1, Zenon
    <3>3. received[r] = 0
      BY <2>4
    <3> QED
      BY <3>2, <3>3
  <2>6. RowIsTrue(r)'
    BY <1>5, <1>6, <2>3 DEF OutboxInv, RowIsTrue
  <2>7. \A u \in Worker : KeepsLease(u, r)'
    BY <1>5, <1>6, <2>1, <2>2, <2>4 DEF KeepsLease, Held
  <2> QED
    BY <2>5, <2>6, <2>7 DEF Kept
<1> QED
  BY <1>4, <1>7, <1>8, <1>9, KeptIsInv

Verdicts == Attempted \cup {"defer", "skip", "unconfigured", "disabled"}

LEMMA ResultRows ==
    ASSUME TypeOK, NEW r \in Row, row[r].status = "sending", NEW verdict \in Verdicts
    PROVE  /\ Result(r, verdict) \in OutboxRow /\ Result(r, verdict).token = {}
           /\ Result(r, verdict).status # "sending"
           /\ Result(r, verdict).status = "sent" <=> verdict = "ok"
<1> DEFINE attempts == IF verdict = "disabled" \/ row[r].attempts = MaxAttempts
                       THEN row[r].attempts ELSE row[r].attempts + 1
           free == [row[r] EXCEPT !.token = {}, !.lapsed = FALSE]
           tried == [free EXCEPT !.attempts = attempts]
<1>1. row[r] \in OutboxRow /\ MaxAttempts \in Nat
  BY NumberAssumption DEF TypeOK
<1>2. attempts \in 0 .. MaxAttempts
  BY <1>1 DEF OutboxRow
<1> HIDE DEF attempts
<1>3. free \in OutboxRow /\ free.token = {}
  BY <1>1 DEF OutboxRow
<1> HIDE DEF free
<1>4. tried \in OutboxRow /\ tried.token = {}
  BY <1>2, <1>3 DEF OutboxRow
<1> HIDE DEF tried
<1>5. /\ verdict = "defer" => Result(r, verdict) = [free EXCEPT !.status = "pending"]
      /\ verdict = "skip" => Result(r, verdict) = [free EXCEPT !.status = "skipped"]
      /\ verdict = "ok" => Result(r, verdict) = [tried EXCEPT !.status = "sent"]
      /\ verdict \notin {"defer", "skip", "ok"} =>
            Result(r, verdict) \in {[tried EXCEPT !.status = "dead"], [tried EXCEPT !.status = "failed"]}
  BY DEF Result, attempts, free, tried
<1>6. \A status \in {"pending", "skipped", "sent", "dead", "failed"} :
        /\ [free EXCEPT !.status = status] \in OutboxRow
        /\ [free EXCEPT !.status = status].status = status
        /\ [free EXCEPT !.status = status].token = {}
        /\ [tried EXCEPT !.status = status] \in OutboxRow
        /\ [tried EXCEPT !.status = status].status = status
        /\ [tried EXCEPT !.status = status].token = {}
  BY <1>3, <1>4 DEF OutboxRow, DueStatuses, Terminal
<1>7. CASE verdict = "defer"
  BY <1>5, <1>6, <1>7
<1>8. CASE verdict = "skip"
  BY <1>5, <1>6, <1>8
<1>9. CASE verdict = "ok"
  BY <1>5, <1>6, <1>9
<1>10. CASE verdict \notin {"defer", "skip", "ok"}
  <2>1. \/ Result(r, verdict) = [tried EXCEPT !.status = "dead"]
        \/ Result(r, verdict) = [tried EXCEPT !.status = "failed"]
    BY <1>5, <1>10
  <2> QED
    BY <1>6, <1>10, <2>1
<1> QED
  BY <1>7, <1>8, <1>9, <1>10

(* A result: written while the claim is held, and then the worker is idle. *)
LEMMA ResultKeeps ==
    ASSUME OutboxInv, NEW w \in Worker, NEW r \in worker[w].claim, NEW verdict \in Verdicts,
           Answered(w, r, "ok") <=> verdict = "ok",
           row' = [row EXCEPT ![r] = HeldResult(w, r, verdict)],
           worker' = [worker EXCEPT ![w] = Idle],
           log' \in [Hook -> SUBSET BOOLEAN], \A h \in Hook \ {r} : log'[h] = log[h],
           r \in Hook => log[r] \subseteq log'[r] /\ (verdict = "ok" => TRUE \in log'[r]),
           endpoint' \in [Endpoint -> [on : BOOLEAN, failures : 0 .. BreakerFailures, paused : BOOLEAN]],
           UNCHANGED <<old, received, fault, faults>>
    PROVE  OutboxInv'
<1>1. r \in Row /\ At(w, r) /\ worker[w].claim = {r} /\ TypeOK
  BY ClaimsAre DEF OutboxInv, ClaimInv
<1>2. Moves(w, r, Idle)
  BY <1>1, IdleIsWhole DEF Moves
<1>3. worker' \in [Worker -> WorkerRow] /\ \A u \in Worker : ClaimIsWhole(u)'
  BY <1>1, <1>2, IdleIsWhole, MoversAreWhole
<1>4. /\ \A q \in Row : q # r => row'[q] = row[q]
      /\ row'[r] = IF Held(w, r) THEN Result(r, verdict) ELSE row[r]
      /\ row' \in [Row -> OutboxRow]
      /\ \A q \in Row : (row'[q].token # {}) <=> (row'[q].status = "sending")
  <2>1. Held(w, r) => /\ Result(r, verdict) \in OutboxRow /\ Result(r, verdict).token = {}
                      /\ Result(r, verdict).status # "sending"
    BY <1>1, ResultRows DEF Held
  <2> QED
    BY <1>1, <2>1 DEF HeldResult, TypeOK
<1>5. TypeOK'
  BY <1>1, <1>3, <1>4 DEF TypeOK, WorkerRow
<1>6. ASSUME NEW q \in Row, q # r PROVE Kept(q)
  BY <1>1, <1>2, <1>4, <1>6, OthersStay
<1>7. /\ row'[r].status = "sent" <=> row[r].status = "sent" \/ (Held(w, r) /\ verdict = "ok")
  BY <1>1, <1>4, ResultRows DEF Held
<1>8. /\ ~At(w, r)'
      /\ \A u \in Worker : u # w => (At(u, r)' <=> At(u, r)) /\ worker'[u] = worker[u]
  BY <1>1, IdleIsWhole DEF At, TypeOK
<1>9. Sending(r) <=> Sending(r)' \/ verdict = "ok"
  BY <1>8 DEF Sending, Answered
<1>10. RowIsTrue(r)'
  BY <1>1, <1>7, <1>9 DEF OutboxInv, RowIsTrue
<1>11. ASSUME fault[r] = "none"
       PROVE  /\ \A u \in Worker : At(u, r)' => ~worker'[u].late
              /\ received[r] > 0 => received[r] = 1 /\ row'[r].status = "sent"
  <2>1. /\ \A u \in Worker : At(u, r) => ~worker[u].late
        /\ received[r] > 0 => received[r] = 1 /\ (row[r].status = "sent" \/ Sending(r))
    BY <1>1, <1>11 DEF OutboxInv, RowIsCalm
  <2>2. Held(w, r)
    BY <1>1, <2>1 DEF OutboxInv, ClaimInv, KeepsLease
  <2>3. Sending(r) => verdict = "ok"
    BY <1>1, <2>1, OneInTime DEF Sending, Answered
  <2>4. \A u \in Worker : At(u, r)' => ~worker'[u].late
    BY <1>8, <2>1
  <2>5. received[r] > 0 => received[r] = 1 /\ row'[r].status = "sent"
    BY <1>7, <2>1, <2>2, <2>3
  <2> QED
    BY <2>4, <2>5
<1>12. RowIsCalm(r)'
  BY <1>11 DEF RowIsCalm
<1>13. ASSUME NEW u \in Worker PROVE KeepsLease(u, r)'
  <2> SUFFICES ASSUME At(u, r)', ~worker'[u].late PROVE Held(u, r)' /\ ~row'[r].lapsed
    BY DEF KeepsLease
  <2>1. u # w /\ At(u, r) /\ ~worker[u].late
    BY <1>8
  <2>2. Held(u, r) /\ ~row[r].lapsed
    BY <1>1, <2>1 DEF OutboxInv, ClaimInv, KeepsLease
  <2>3. row'[r] = row[r]
    BY <1>4, <2>1, <2>2 DEF Held
  <2> QED
    BY <2>2, <2>3 DEF Held
<1>14. Kept(r)
  BY <1>10, <1>12, <1>13 DEF Kept
<1> QED
  BY <1>3, <1>5, <1>6, <1>14, KeptIsInv

LEMMA RefuseKeeps ==
    ASSUME OutboxInv, NEW w \in Worker, NEW r \in worker[w].claim, Refuse(w, r)
    PROVE  OutboxInv'
<1>1. PICK verdict \in Refusals(r) : row' = [row EXCEPT ![r] = HeldResult(w, r, verdict)]
  BY DEF Refuse
<1>2. verdict \in Verdicts /\ verdict # "ok"
  BY DEF Refusals, Verdicts, Attempted
<1>3. /\ worker' = [worker EXCEPT ![w] = Idle] /\ worker[w].pc = "claimed"
      /\ UNCHANGED <<endpoint, log, old, received, fault, faults>>
  BY DEF Refuse
<1>4. /\ log' \in [Hook -> SUBSET BOOLEAN]
      /\ endpoint' \in [Endpoint -> [on : BOOLEAN, failures : 0 .. BreakerFailures, paused : BOOLEAN]]
  BY <1>3 DEF OutboxInv, ClaimInv, TypeOK
<1>5. ~Answered(w, r, "ok")
  BY <1>3 DEF Answered
<1> QED
  BY <1>1, <1>2, <1>3, <1>4, <1>5, ResultKeeps

LEMMA BreakerTypes ==
    ASSUME NEW e, e \in [on : BOOLEAN, failures : 0 .. BreakerFailures, paused : BOOLEAN],
           NEW failed \in BOOLEAN
    PROVE  Breaker(e, failed) \in [on : BOOLEAN, failures : 0 .. BreakerFailures, paused : BOOLEAN]
<1> DEFINE n == IF e.failures < BreakerFailures THEN e.failures + 1 ELSE e.failures
<1>1. BreakerFailures \in Nat /\ 0 \in 0 .. BreakerFailures
  BY NumberAssumption
<1>2. n \in 0 .. BreakerFailures /\ (n >= BreakerFailures) \in BOOLEAN
  BY <1>1
<1>3. Breaker(e, failed) = IF ~failed THEN [e EXCEPT !.failures = 0, !.paused = FALSE]
                           ELSE [e EXCEPT !.failures = n, !.paused = e.paused \/ n >= BreakerFailures]
  BY DEF Breaker
<1> HIDE DEF n
<1>4. (e.paused \/ n >= BreakerFailures) \in BOOLEAN
  OBVIOUS
<1>5. CASE failed
  BY <1>2, <1>3, <1>4, <1>5
<1>6. CASE ~failed
  BY <1>1, <1>3, <1>6
<1> QED
  BY <1>5, <1>6

LEMMA FinishKeeps ==
    ASSUME OutboxInv, NEW w \in Worker, NEW r \in worker[w].claim, Finish(w, r)
    PROVE  OutboxInv'
<1>1. PICK answer \in worker[w].answer :
        /\ row' = [row EXCEPT ![r] = HeldResult(w, r, answer)]
        /\ Logged(w, r, answer)
        /\ IF r \in Hook /\ answer \in Attempted
           THEN endpoint' = [endpoint EXCEPT ![EndpointOf[r]] = Breaker(@, answer # "ok")]
           ELSE UNCHANGED endpoint
  BY DEF Finish
<1>2. /\ worker[w].pc = "answered" /\ worker' = [worker EXCEPT ![w] = Idle]
      /\ UNCHANGED <<old, received, fault, faults>>
  BY DEF Finish
<1>3. r \in Row /\ At(w, r) /\ TypeOK /\ worker[w] \in WorkerRow /\ ClaimIsWhole(w)
  BY ClaimsAre DEF OutboxInv, ClaimInv
<1>4. answer \in Attempted \cup {"defer"} /\ worker[w].answer = {answer}
  BY <1>2, <1>3 DEF ClaimIsWhole
<1>5. answer \in Verdicts /\ (Answered(w, r, "ok") <=> answer = "ok")
  BY <1>2, <1>3, <1>4 DEF Answered, Verdicts
<1>6. /\ log' \in [Hook -> SUBSET BOOLEAN] /\ \A h \in Hook \ {r} : log'[h] = log[h]
      /\ r \in Hook => log[r] \subseteq log'[r] /\ (answer = "ok" => TRUE \in log'[r])
  <2>1. log \in [Hook -> SUBSET BOOLEAN]
    BY <1>3 DEF TypeOK
  <2>2. CASE UNCHANGED log /\ ~(r \in Hook /\ answer = "ok")
    BY <2>1, <2>2
  <2>3. ASSUME NEW delivered \in BOOLEAN, delivered = (answer = "ok"), r \in Hook,
               log' = [log EXCEPT ![r] = @ \cup {delivered}]
        PROVE  /\ log' \in [Hook -> SUBSET BOOLEAN] /\ \A h \in Hook \ {r} : log'[h] = log[h]
               /\ log[r] \subseteq log'[r] /\ (answer = "ok" => TRUE \in log'[r])
    BY <2>1, <2>3
  <2>4. \/ UNCHANGED log /\ ~(r \in Hook /\ answer = "ok")
        \/ r \in Hook /\ log' = [log EXCEPT ![r] = @ \cup {answer = "ok"}]
    BY <1>1, Zenon DEF Logged, Attempted
  <2> QED
    BY <2>2, <2>3, <2>4
<1>7. endpoint' \in [Endpoint -> [on : BOOLEAN, failures : 0 .. BreakerFailures, paused : BOOLEAN]]
  <2>1. CASE r \in Hook /\ answer \in Attempted
    <3>1. EndpointOf[r] \in Endpoint /\ (answer # "ok") \in BOOLEAN
      BY <2>1, RowAssumption
    <3>2. Breaker(endpoint[EndpointOf[r]], answer # "ok")
             \in [on : BOOLEAN, failures : 0 .. BreakerFailures, paused : BOOLEAN]
      BY <1>3, <3>1, BreakerTypes DEF TypeOK
    <3>3. endpoint' = [endpoint EXCEPT ![EndpointOf[r]] =
                          Breaker(endpoint[EndpointOf[r]], answer # "ok")]
      BY <1>1, <2>1
    <3> QED
      BY <1>3, <3>1, <3>2, <3>3 DEF TypeOK
  <2>2. CASE ~(r \in Hook /\ answer \in Attempted)
    BY <1>1, <1>3, <2>2 DEF TypeOK
  <2> QED
    BY <2>1, <2>2
<1> QED
  BY <1>1, <1>2, <1>5, <1>6, <1>7, ResultKeeps

(* A message that arrives is answered "ok", or its row counts as lost.     *)
LEMMA SendKeeps ==
    ASSUME OutboxInv, NEW w \in Worker, NEW r \in worker[w].claim,
           NEW answer \in Answers(r), NEW arrives \in BOOLEAN, Send(w, r, answer, arrives)
    PROVE  OutboxInv'
<1> DEFINE next == [worker[w] EXCEPT !.pc = "answered", !.answer = {answer}]
<1>1. /\ r \in Row /\ At(w, r) /\ worker[w].claim = {r} /\ TypeOK
      /\ worker[w] \in WorkerRow /\ answer \in Attempted \cup {"defer"}
  BY ClaimsAre DEF OutboxInv, ClaimInv, Answers, Attempted
<1>2. /\ worker[w].pc = "claimed" /\ (answer = "ok" => arrives)
      /\ received' = [received EXCEPT ![r] = IF arrives /\ @ < 2 THEN @ + 1 ELSE @]
      /\ IF arrives /\ answer # "ok" THEN Disturb(r, "lost") ELSE UNCHANGED <<fault, faults>>
      /\ UNCHANGED <<row, endpoint, log, old>>
  BY DEF Send
<1>3. /\ next \in WorkerRow /\ next.pc = "answered" /\ next.answer = {answer}
      /\ next.claim = {r} /\ next.late = worker[w].late
  BY <1>1 DEF WorkerRow
<1>4. worker' = [worker EXCEPT ![w] = next]
  BY <1>1 DEF Send, TypeOK
<1> HIDE DEF next
<1>5. Moves(w, r, next)
  BY <1>1, <1>3, <1>4 DEF Moves
<1>6. worker' \in [Worker -> WorkerRow] /\ \A u \in Worker : ClaimIsWhole(u)'
  BY <1>1, <1>3, <1>5, MoversAreWhole
<1>7. /\ received' \in [Row -> 0 .. 2] /\ \A q \in Row : q # r => received'[q] = received[q]
      /\ arrives => received'[r] > 0
      /\ arrives /\ ~(received[r] > 0) => received'[r] = 1
      /\ ~arrives => received'[r] = received[r]
      /\ received[r] \in 0 .. 2
  BY <1>1, <1>2 DEF TypeOK
<1>8. /\ faults' \in 0 .. Faults /\ fault' \in [Row -> {"none", "late", "lost"}]
      /\ \A q \in Row : q # r => fault'[q] = fault[q]
      /\ IF arrives /\ answer # "ok" THEN fault'[r] = "lost" ELSE fault'[r] = fault[r]
  BY <1>1, <1>2, DisturbTypes DEF TypeOK
<1>9. TypeOK'
  BY <1>1, <1>2, <1>6, <1>7, <1>8 DEF TypeOK, WorkerRow
<1>10. ASSUME NEW q \in Row, q # r PROVE Kept(q)
  BY <1>1, <1>2, <1>5, <1>7, <1>8, <1>10, OthersStay
<1>11. \A u \in Worker : /\ At(u, r)' <=> At(u, r)
                         /\ u # w => worker'[u] = worker[u]
                         /\ worker'[u].late = worker[u].late
  BY <1>1, <1>3, <1>4 DEF At, TypeOK
<1>12. worker'[w] = next
  BY <1>1, <1>4 DEF TypeOK
<1>13. ~Answered(w, r, "ok") /\ (Answered(w, r, "ok")' <=> answer = "ok")
  BY <1>1, <1>2, <1>3, <1>11, <1>12 DEF Answered
<1>14. Sending(r)' <=> Sending(r) \/ answer = "ok"
  <2>1. \A u \in Worker : u # w => (Answered(u, r, "ok")' <=> Answered(u, r, "ok"))
    BY <1>11 DEF Answered
  <2> QED
    BY <1>13, <2>1 DEF Sending
<1>15. \A u \in Worker : KeepsLease(u, r)'
  BY <1>1, <1>2, <1>11 DEF OutboxInv, ClaimInv, KeepsLease, Held
<1>16. RowIsTrue(r)'
  <2>1. RowIsTrue(r)
    BY <1>1 DEF OutboxInv
  <2>2. CASE arrives
    BY <1>2, <1>7, <1>8, <1>14, <2>1, <2>2 DEF RowIsTrue
  <2>3. CASE ~arrives
    BY <1>2, <1>7, <1>8, <1>14, <2>1, <2>3 DEF RowIsTrue
  <2> QED
    BY <2>2, <2>3
<1>17. ASSUME fault'[r] = "none"
       PROVE  /\ \A u \in Worker : At(u, r)' => ~worker'[u].late
              /\ received'[r] > 0 => received'[r] = 1 /\ (row[r].status = "sent" \/ Sending(r)')
  <2>1. /\ \A u \in Worker : At(u, r) => ~worker[u].late
        /\ received[r] > 0 => (row[r].status = "sent" \/ Sending(r))
    BY <1>1, <1>8, <1>17 DEF OutboxInv, RowIsCalm
  <2>2. Held(w, r) /\ row[r].status # "sent"
    BY <1>1, <2>1 DEF OutboxInv, ClaimInv, KeepsLease, Held
  <2>3. ~Sending(r)
    BY <1>1, <1>13, <2>1, OneInTime DEF Sending, Answered
  <2>4. ~(received[r] > 0)
    BY <2>1, <2>2, <2>3
  <2>5. \A u \in Worker : At(u, r)' => ~worker'[u].late
    BY <1>11, <2>1
  <2>6. received'[r] > 0 => received'[r] = 1 /\ Sending(r)'
    BY <1>7, <1>8, <1>14, <1>17, <2>4
  <2> QED
    BY <2>5, <2>6
<1>18. Kept(r)
  BY <1>2, <1>15, <1>16, <1>17 DEF Kept, RowIsCalm
<1> QED
  BY <1>6, <1>9, <1>10, <1>18, KeptIsInv

LEMMA CrashKeeps ==
    ASSUME OutboxInv, NEW w \in Worker, NEW r \in worker[w].claim, Crash(w, r)
    PROVE  OutboxInv'
<1>1. /\ r \in Row /\ At(w, r) /\ worker[w].claim = {r} /\ TypeOK
  BY ClaimsAre DEF OutboxInv, ClaimInv
<1>2. /\ worker' = [worker EXCEPT ![w] = Idle] /\ Disturb(r, "lost")
      /\ UNCHANGED <<row, endpoint, log, old, received>>
  BY DEF Crash
<1>3. Moves(w, r, Idle)
  BY <1>1, <1>2, IdleIsWhole DEF Moves
<1>4. worker' \in [Worker -> WorkerRow] /\ \A u \in Worker : ClaimIsWhole(u)'
  BY <1>1, <1>3, IdleIsWhole, MoversAreWhole
<1>5. /\ faults' \in 0 .. Faults /\ fault' \in [Row -> {"none", "late", "lost"}]
      /\ \A q \in Row : q # r => fault'[q] = fault[q]
      /\ fault'[r] = "lost"
  BY <1>1, <1>2, DisturbTypes
<1>6. TypeOK'
  BY <1>1, <1>2, <1>4, <1>5 DEF TypeOK, WorkerRow
<1>7. ASSUME NEW q \in Row, q # r PROVE Kept(q)
  BY <1>1, <1>2, <1>3, <1>5, <1>7, OthersStay
<1>8. /\ ~At(w, r)'
      /\ \A u \in Worker : u # w => (At(u, r)' <=> At(u, r)) /\ worker'[u] = worker[u]
  BY <1>1, <1>2, IdleIsWhole DEF At, TypeOK
<1>9. Sending(r)' => Sending(r)
  BY <1>8 DEF Sending, Answered
<1>10. RowIsTrue(r)' /\ RowIsCalm(r)'
  BY <1>1, <1>2, <1>5, <1>9 DEF OutboxInv, RowIsTrue, RowIsCalm
<1>11. \A u \in Worker : KeepsLease(u, r)'
  BY <1>1, <1>2, <1>8 DEF OutboxInv, ClaimInv, KeepsLease, Held
<1> QED
  BY <1>4, <1>6, <1>7, <1>10, <1>11, KeptIsInv DEF Kept

LEMMA ClaimNextKeeps ==
    ASSUME OutboxInv, NEW w \in Worker, ClaimNext(w)
    PROVE  OutboxInv'
<1>1. worker[w].pc = "idle" /\ UNCHANGED <<endpoint, log, old, received, fault, faults>>
  BY DEF ClaimNext
<1>2. CASE old
  BY <1>1, <1>2, ExpireKeeps DEF ClaimNext
<1>3. CASE ~old
  BY <1>1, <1>3, ClaimKeeps DEF ClaimNext
<1> QED
  BY <1>2, <1>3

LEMMA NextKeeps == OutboxInv /\ [Next]_vars => OutboxInv'
<1> SUFFICES ASSUME OutboxInv, [Next]_vars PROVE OutboxInv'
  OBVIOUS
<1>1. CASE \E r \in Row : LeaseEnds(r)
  BY <1>1, LeaseEndsKeeps
<1>2. CASE GrowOld \/ (\E e \in Endpoint : PauseEnds(e) \/ Toggle(e)) \/ UNCHANGED vars
  BY <1>2, TimeAndPeopleKeep
<1>3. ASSUME NEW w \in Worker, Tick(w) PROVE OutboxInv'
  BY <1>3, ClaimNextKeeps, RefuseKeeps, SendKeeps, FinishKeeps DEF Tick
<1>4. ASSUME NEW w \in Worker, NEW r \in worker[w].claim, Crash(w, r) PROVE OutboxInv'
  BY <1>4, CrashKeeps
<1> QED
  BY <1>1, <1>2, <1>3, <1>4 DEF Next

LEMMA InitEstablishes == Init => OutboxInv
<1> SUFFICES ASSUME Init PROVE OutboxInv
  OBVIOUS
<1>1. 0 \in 0 .. MaxAttempts /\ 0 \in 0 .. BreakerFailures /\ 0 \in 0 .. Faults
  BY NumberAssumption
<1>2. /\ \A r \in Row : row[r] = [status |-> "pending", attempts |-> 0, lapsed |-> FALSE, token |-> {}]
      /\ row \in [Row -> OutboxRow]
  BY <1>1 DEF Init, OutboxRow, DueStatuses
<1>3. \A w \in Worker : worker[w] = Idle
  BY DEF Init
<1>4. \A w \in Worker : ClaimIsWhole(w) /\ \A r \in Row : ~At(w, r)
  BY <1>3 DEF Idle, ClaimIsWhole, At
<1>5. worker \in [Worker -> WorkerRow]
  BY IdleIsWhole DEF Init
<1>6. endpoint \in [Endpoint -> [on : BOOLEAN, failures : 0 .. BreakerFailures, paused : BOOLEAN]]
  BY <1>1 DEF Init
<1>7. TypeOK
  <2>1. \A r \in Row : row[r].token = {} /\ row[r].status = "pending"
    BY <1>2
  <2>2. /\ received \in [Row -> 0 .. 2] /\ fault \in [Row -> {"none", "late", "lost"}]
        /\ old \in BOOLEAN /\ faults \in 0 .. Faults
    <3>1. 0 \in 0 .. 2
      OBVIOUS
    <3> QED
      BY <1>1, <3>1 DEF Init
  <2>3. log \in [Hook -> SUBSET BOOLEAN]
    BY DEF Init
  <2> QED
    BY <1>2, <1>5, <1>6, <2>1, <2>2, <2>3 DEF TypeOK, WorkerRow
<1>8. \A r \in Row : RowIsCalm(r) /\ RowIsTrue(r)
  <2>1. \A r \in Row : received[r] = 0 /\ row[r].status = "pending"
    BY <1>2 DEF Init
  <2>2. \A r \in Row : ~Sending(r)
    BY <1>4 DEF Sending, Answered
  <2>3. ~(0 > 0)
    OBVIOUS
  <2> QED
    BY <1>4, <2>1, <2>2, <2>3 DEF RowIsCalm, RowIsTrue
<1> QED
  BY <1>4, <1>7, <1>8 DEF OutboxInv, ClaimInv, KeepsLease

LEMMA OutboxInvHolds == Spec => []OutboxInv
BY InitEstablishes, NextKeeps, PTL DEF Spec

-----------------------------------------------------------------------------
(* The caps.  A cap counts the emails that are being sent, so the one that *)
(* a worker sends now is the only one that its check did not see.          *)
LEMMA EmailsAreRows == Email \subseteq Row /\ IsFiniteSet(Email)
BY RowAssumption DEF Row

LEMMA SpokenIsFinite ==
    ASSUME NEW among \in SUBSET Email
    PROVE  IsFiniteSet(Spoken(among)) /\ Cardinality(Spoken(among)) \in Nat
<1>1. Spoken(among) \subseteq Email
  BY DEF Spoken
<1> QED
  BY <1>1, EmailsAreRows, FS_Subset, FS_CardinalityType

(* Only a send makes an email speak, and only its own.                     *)
LEMMA OnlySendSpeaks ==
    ASSUME OutboxInv, [Next]_vars, NEW e \in Email, ~Speaks(e), Speaks(e)'
    PROVE  \E w \in Worker : \E answer \in Answers(e), arrives \in BOOLEAN :
               e \in worker[w].claim /\ Send(w, e, answer, arrives)
<1> USE DEF Speaks
<1>0. e \in Row /\ TypeOK /\ row[e].status # "sent"
  BY EmailsAreRows DEF OutboxInv, ClaimInv
<1>1. CASE \E r \in Row : LeaseEnds(r)
  <2>1. PICK r \in Row : LeaseEnds(r)
    BY <1>1
  <2>2. /\ row' = [row EXCEPT ![r].lapsed = TRUE]
        /\ worker' = [w \in Worker |-> IF At(w, r) THEN [worker[w] EXCEPT !.late = TRUE]
                                       ELSE worker[w]]
    BY <2>1 DEF LeaseEnds
  <2>3. row'[e].status = row[e].status /\ row'[e].token = row[e].token
    BY <1>0, <2>2, WrittenRows DEF TypeOK
  <2>4. \A w \in Worker : worker'[w].pc = worker[w].pc /\ worker'[w].claim = worker[w].claim
    BY <1>0, <2>2 DEF TypeOK
  <2> QED
    BY <1>0, <2>3, <2>4 DEF At, Held
<1>2. CASE GrowOld \/ (\E e2 \in Endpoint : PauseEnds(e2) \/ Toggle(e2)) \/ UNCHANGED vars
  BY <1>0, <1>2 DEF GrowOld, PauseEnds, Toggle, vars, At, Held
<1>3. ASSUME NEW w \in Worker, NEW next, worker' = [worker EXCEPT ![w] = next],
             next.pc # "answered" \/ next.claim # {e},
             \/ row'[e] = row[e]
             \/ row'[e].token = {} /\ row'[e].status # "sent"
             \/ row'[e].token = {w} /\ row'[e].status # "sent"
      PROVE  FALSE
  <2>1. \A u \in Worker : worker'[u] = IF u = w THEN next ELSE worker[u]
    BY <1>0, <1>3 DEF TypeOK
  <2>2. PICK u \in Worker : At(u, e)' /\ Held(u, e)' /\ worker'[u].pc = "answered"
    BY <1>0, <1>3
  <2>3. u # w /\ worker'[u] = worker[u]
    BY <1>3, <2>1, <2>2 DEF At
  <2> QED
    BY <1>0, <1>3, <2>2, <2>3 DEF At, Held
<1>4. ASSUME NEW w \in Worker, ClaimNext(w) PROVE FALSE
  <2>1. worker[w].claim = {} /\ worker[w].pc = "idle"
    BY <1>4 DEF ClaimNext, OutboxInv, ClaimInv, ClaimIsWhole
  <2>2. CASE old
    <3>1. PICK gone \in SUBSET {r \in Row : Claimable(r)} :
             row' = [r \in Row |-> IF r \in gone THEN Expired(r) ELSE row[r]]
      BY <1>4, <2>2 DEF ClaimNext
    <3>2. UNCHANGED worker /\ row'[e] \in {Expired(e), row[e]}
      BY <1>0, <1>4, <2>2, <3>1 DEF ClaimNext
    <3>3. Expired(e).token = {} /\ Expired(e).status = "dead"
      BY <1>0, WrittenRows
    <3> QED
      BY <1>0, <3>2, <3>3 DEF At, Held
  <2>3. CASE ~old
    <3>1. PICK r \in Row :
            /\ row' = [row EXCEPT ![r] = Claimed(r, w)]
            /\ worker' = [worker EXCEPT ![w] = [Idle EXCEPT !.pc = "claimed", !.claim = {r}]]
      BY <1>4, <2>3 DEF ClaimNext
    <3>2. [Idle EXCEPT !.pc = "claimed", !.claim = {r}].pc = "claimed"
      BY DEF Idle
    <3>3. row'[e] = row[e] \/ (row'[e].token = {w} /\ row'[e].status # "sent")
      <4>1. row' = [row EXCEPT ![r] = Claimed(r, w)] /\ row \in [Row -> OutboxRow]
        BY <1>0, <3>1 DEF TypeOK
      <4>2. Claimed(e, w).token = {w} /\ Claimed(e, w).status # "sent"
        BY <1>0, WrittenRows
      <4> QED
        BY <1>0, <4>1, <4>2
    <3> QED
      BY <1>3, <3>1, <3>2, <3>3
  <2> QED
    BY <2>2, <2>3
<1>5. ASSUME NEW w \in Worker, NEW r \in worker[w].claim, NEW verdict \in Verdicts,
             worker[w].pc # "idle", Answered(w, r, "ok") <=> verdict = "ok",
             row' = [row EXCEPT ![r] = HeldResult(w, r, verdict)], worker' = [worker EXCEPT ![w] = Idle]
      PROVE  FALSE
  <2>1. r \in Row /\ At(w, r)
    BY <1>5, ClaimsAre
  <2>2. CASE row'[e] = row[e]
    BY <1>3, <1>5, <2>2, IdleIsWhole
  <2>3. CASE row'[e] # row[e]
    <3>1. r = e /\ Held(w, e) /\ row'[e] = Result(e, verdict)
      BY <1>0, <1>5, <2>1, <2>3 DEF HeldResult, TypeOK
    <3>2. row'[e].token = {} /\ (row'[e].status = "sent" <=> verdict = "ok")
      BY <1>0, <3>1, ResultRows DEF Held
    <3>3. verdict # "ok"
      BY <1>0, <1>5, <2>1, <3>1 DEF Answered
    <3> QED
      BY <1>3, <1>5, <3>2, <3>3, IdleIsWhole
  <2> QED
    BY <2>2, <2>3
<1>6. ASSUME NEW w \in Worker, NEW r \in worker[w].claim, Refuse(w, r) PROVE FALSE
  <2>1. PICK verdict \in Refusals(r) : row' = [row EXCEPT ![r] = HeldResult(w, r, verdict)]
    BY <1>6 DEF Refuse
  <2>2. verdict \in Verdicts /\ verdict # "ok"
    BY DEF Refusals, Verdicts, Attempted
  <2>3. worker' = [worker EXCEPT ![w] = Idle] /\ worker[w].pc = "claimed"
    BY <1>6 DEF Refuse
  <2>4. ~Answered(w, r, "ok")
    BY <2>3 DEF Answered
  <2> QED
    BY <1>5, <2>1, <2>2, <2>3, <2>4
<1>7. ASSUME NEW w \in Worker, NEW r \in worker[w].claim, Finish(w, r) PROVE FALSE
  <2>1. PICK answer \in worker[w].answer : row' = [row EXCEPT ![r] = HeldResult(w, r, answer)]
    BY <1>7 DEF Finish
  <2>2. worker' = [worker EXCEPT ![w] = Idle] /\ worker[w].pc = "answered"
    BY <1>7 DEF Finish
  <2>3. At(w, r) /\ worker[w].answer = {answer} /\ answer \in Attempted \cup {"defer"}
    BY <2>1, <2>2, ClaimsAre DEF OutboxInv, ClaimInv, ClaimIsWhole
  <2>4. answer \in Verdicts /\ (Answered(w, r, "ok") <=> answer = "ok")
    BY <2>2, <2>3 DEF Verdicts, Answered
  <2> QED
    BY <1>5, <2>1, <2>2, <2>4
<1>8. ASSUME NEW w \in Worker, NEW r \in worker[w].claim, Crash(w, r) PROVE FALSE
  <2>1. worker' = [worker EXCEPT ![w] = Idle] /\ row' = row
    BY <1>8 DEF Crash
  <2> QED
    BY <1>3, <2>1, IdleIsWhole
<1>9. ASSUME NEW w \in Worker, NEW r \in worker[w].claim, NEW answer \in Answers(r),
             NEW arrives \in BOOLEAN, Send(w, r, answer, arrives)
      PROVE  r = e
  <2> DEFINE next == [worker[w] EXCEPT !.pc = "answered", !.answer = {answer}]
  <2>1. worker' = [worker EXCEPT ![w] = next] /\ row' = row
    BY <1>0, <1>9 DEF Send, TypeOK
  <2>2. next.claim = {r}
    BY <1>9, ClaimsAre DEF WorkerRow
  <2> HIDE DEF next
  <2>3. SUFFICES ASSUME r # e PROVE FALSE
    OBVIOUS
  <2> QED
    BY <1>3, <2>1, <2>2, <2>3
<1>10. ASSUME NEW w \in Worker, Tick(w)
       PROVE  \E answer \in Answers(e), arrives \in BOOLEAN :
                  e \in worker[w].claim /\ Send(w, e, answer, arrives)
  BY <1>4, <1>6, <1>7, <1>9, <1>10 DEF Tick
<1> QED
  BY <1>1, <1>2, <1>8, <1>10 DEF Next

(* One cap, of one person in a workspace or in all.                        *)
LEMMA CapStays ==
    ASSUME OutboxInv, [Next]_vars, NEW among \in SUBSET Email, NEW cap \in Nat,
           \A e \in among : AtTheCap(e) \/ ~(SentToday(e, among) >= cap),
           Cardinality(Spoken(among)) <= cap
    PROVE  Cardinality(Spoken(among)') <= cap
<1>1. /\ IsFiniteSet(Spoken(among)) /\ Cardinality(Spoken(among)) \in Nat
      /\ IsFiniteSet(Spoken(among)') /\ Cardinality(Spoken(among)') \in Nat
  <2>1. Spoken(among) \subseteq Email /\ Spoken(among)' \subseteq Email
    BY DEF Spoken
  <2> QED
    BY <2>1, EmailsAreRows, FS_Subset, FS_CardinalityType
<1>2. CASE Spoken(among)' \subseteq Spoken(among)
  <2>1. Cardinality(Spoken(among)') <= Cardinality(Spoken(among))
    BY <1>1, <1>2, FS_Subset
  <2> QED
    BY <1>1, <2>1
<1>3. ASSUME NEW e \in among, ~Speaks(e), Speaks(e)' PROVE Cardinality(Spoken(among)') <= cap
  <2> DEFINE others == {f \in among \ {e} : row[f].status \in {"sent", "sending"}}
  <2>1. PICK w \in Worker : \E answer \in Answers(e), arrives \in BOOLEAN :
               e \in worker[w].claim /\ Send(w, e, answer, arrives)
    BY <1>3, OnlySendSpeaks
  <2>2. MaySend(e) /\ e \in Email
    BY <2>1 DEF Send
  <2>3. ~(Cardinality(others) >= cap)
    BY <2>2 DEF MaySend, SentToday
  <2>4. others \subseteq Email
    OBVIOUS
  <2> HIDE DEF others
  <2>5. IsFiniteSet(others) /\ Cardinality(others) \in Nat
    BY <2>4, EmailsAreRows, FS_Subset, FS_CardinalityType
  <2>6. ASSUME NEW f \in among, Speaks(f)', f # e PROVE f \in others
    <3>1. Speaks(f)
      <4> SUFFICES ASSUME ~Speaks(f) PROVE FALSE
        OBVIOUS
      <4>1. PICK u \in Worker : \E answer \in Answers(f), arrives \in BOOLEAN :
                   f \in worker[u].claim /\ Send(u, f, answer, arrives)
        BY <2>6, OnlySendSpeaks
      <4>2. worker[w].pc = "claimed" /\ worker'[w].pc = "answered"
        BY <2>1 DEF Send, OutboxInv, ClaimInv, TypeOK
      <4>3. u = w
        BY <4>1, <4>2 DEF Send, OutboxInv, ClaimInv, TypeOK
      <4>4. e \in worker[w].claim /\ f \in worker[w].claim
        BY <2>1, <4>1, <4>3
      <4> QED
        BY <2>6, <4>4, ClaimsAre
    <3> QED
      BY <2>6, <3>1 DEF Speaks, Held, others
  <2>7. Spoken(among)' \subseteq others \cup {e}
    BY <2>6 DEF Spoken
  <2>8. IsFiniteSet(others \cup {e}) /\ Cardinality(others \cup {e}) <= Cardinality(others) + 1
        /\ Cardinality(others \cup {e}) \in Nat
    <3>1. /\ IsFiniteSet(others \cup {e})
          /\ Cardinality(others \cup {e}) = IF e \in others THEN Cardinality(others)
                                             ELSE Cardinality(others) + 1
      BY <2>5, FS_AddElement
    <3> QED
      BY <2>5, <3>1
  <2>9. Cardinality(Spoken(among)') <= Cardinality(others \cup {e})
    BY <2>7, <2>8, FS_Subset
  <2> QED
    BY <1>1, <2>3, <2>5, <2>8, <2>9
<1> QED
  BY <1>2, <1>3 DEF Spoken

LEMMA RoomStays == OutboxInv /\ RoomIsKept /\ [Next]_vars => RoomIsKept'
<1> SUFFICES ASSUME OutboxInv, RoomIsKept, [Next]_vars PROVE RoomIsKept'
  OBVIOUS
<1>1. PlaceCap \in Nat /\ DayCap \in Nat
  BY NumberAssumption
<1>2. ASSUME NEW p \in Place PROVE Cardinality(Spoken(MailsOf(p))') <= PlaceCap
  <2>1. MailsOf(p) \in SUBSET Email
    BY DEF MailsOf
  <2>2. \A e \in MailsOf(p) : AtTheCap(e) \/ ~(SentToday(e, MailsOf(p)) >= PlaceCap)
    BY DEF AtTheCap, MailsOf
  <2>3. Cardinality(Spoken(MailsOf(p))) <= PlaceCap
    BY DEF RoomIsKept
  <2> QED
    BY <1>1, <2>1, <2>2, <2>3, CapStays
<1>3. Cardinality(Spoken(Email)') <= DayCap
  <2>1. \A e \in Email : AtTheCap(e) \/ ~(SentToday(e, Email) >= DayCap)
    BY DEF AtTheCap
  <2>2. Cardinality(Spoken(Email)) <= DayCap
    BY DEF RoomIsKept
  <2> QED
    BY <1>1, <2>1, <2>2, CapStays
<1> QED
  BY <1>2, <1>3 DEF RoomIsKept

LEMMA RoomAtFirst == Init => RoomIsKept
<1> SUFFICES ASSUME Init PROVE RoomIsKept
  OBVIOUS
<1>1. \A e \in Email : ~Speaks(e)
  BY EmailsAreRows DEF Init, Speaks, At, Idle
<1>2. \A among \in SUBSET Email : Spoken(among) = {}
  BY <1>1 DEF Spoken
<1>3. \A p \in Place : MailsOf(p) \in SUBSET Email
  BY DEF MailsOf
<1>4. Cardinality({}) <= PlaceCap /\ Cardinality({}) <= DayCap
  BY NumberAssumption, FS_EmptySet
<1> QED
  BY <1>2, <1>3, <1>4 DEF RoomIsKept

-----------------------------------------------------------------------------
(* Every variable keeps its type; a row has a token exactly while it is    *)
(* being sent, and is tried MAX_ATTEMPTS times at most.                    *)
THEOREM TypeCorrect == Spec => []TypeOK
<1>1. OutboxInv => TypeOK
  BY DEF OutboxInv, ClaimInv
<1> QED
  BY <1>1, OutboxInvHolds, PTL

(* Until its lease ends a worker keeps the row it claimed, whatever the    *)
(* results of earlier claims that come late.                               *)
THEOREM LeasesKeepClaims == Spec => []LeaseKeepsClaim
<1>1. OutboxInv => LeaseKeepsClaim
  BY DEF OutboxInv, ClaimInv, KeepsLease, LeaseKeepsClaim
<1> QED
  BY <1>1, OutboxInvHolds, PTL

(* A message reaches its receiver twice only after a fault.                *)
THEOREM NoDuplicateWithoutFault == Spec => []DuplicatesComeFromFaults
<1>1. OutboxInv => DuplicatesComeFromFaults
  <2> SUFFICES ASSUME OutboxInv, NEW r \in Row, received[r] > 1, fault[r] = "none" PROVE FALSE
    BY DEF DuplicatesComeFromFaults, OutboxInv, ClaimInv, TypeOK
  <2>1. received[r] \in 0 .. 2
    BY DEF OutboxInv, ClaimInv, TypeOK
  <2>2. received[r] > 0 => received[r] = 1
    BY DEF OutboxInv, RowIsCalm
  <2> QED
    BY <2>1, <2>2
<1> QED
  BY <1>1, OutboxInvHolds, PTL

(* Row, log and receiver agree on what was sent.                           *)
THEOREM RecordsMatch == Spec => []RecordsMatchDeliveries
<1>1. OutboxInv => RecordsMatchDeliveries
  <2> SUFFICES ASSUME OutboxInv, NEW r \in Row
               PROVE  /\ row[r].status = "sent" => received[r] > 0
                      /\ r \in Hook /\ row[r].status = "sent" => TRUE \in log[r]
                      /\ received[r] > 0 /\ Unattended(r) =>
                             /\ fault[r] = "none" => row[r].status = "sent"
                             /\ r \in Hook /\ fault[r] # "lost" => TRUE \in log[r]
    BY DEF RecordsMatchDeliveries
  <2>1. RowIsCalm(r) /\ RowIsTrue(r)
    BY DEF OutboxInv
  <2>2. Unattended(r) => ~Sending(r)
    BY DEF Unattended, Sending, Answered
  <2> QED
    BY <2>1, <2>2 DEF RowIsCalm, RowIsTrue
<1> QED
  BY <1>1, OutboxInvHolds, PTL

(* The caps of a person hold, whichever workers send at the same time.     *)
THEOREM CapsAreKept == Spec => []CapsHold
<1>1. ASSUME NEW among \in SUBSET Email, NEW cap \in Nat, Cardinality(Spoken(among)) <= cap
      PROVE  SentOf(among) <= cap
  <2> DEFINE sent == {e \in among : row[e].status = "sent"}
  <2>1. sent \subseteq Spoken(among)
    BY DEF Spoken, Speaks
  <2> HIDE DEF sent
  <2>2. IsFiniteSet(Spoken(among)) /\ Cardinality(Spoken(among)) \in Nat
    BY SpokenIsFinite
  <2>3. Cardinality(sent) \in Nat /\ Cardinality(sent) <= Cardinality(Spoken(among))
    BY <2>1, <2>2, FS_Subset, FS_CardinalityType
  <2> QED
    BY <1>1, <2>2, <2>3 DEF SentOf, sent
<1>2. RoomIsKept => CapsHold
  <2> SUFFICES ASSUME RoomIsKept PROVE CapsHold
    OBVIOUS
  <2>1. \A p \in Place : SentOf(MailsOf(p)) <= PlaceCap
    BY <1>1, NumberAssumption DEF RoomIsKept, MailsOf
  <2>2. SentOf(Email) <= DayCap
    BY <1>1, NumberAssumption DEF RoomIsKept
  <2> QED
    BY <2>1, <2>2 DEF CapsHold
<1> QED
  BY <1>2, RoomAtFirst, RoomStays, OutboxInvHolds, PTL DEF Spec

=============================================================================
