-------------------------- MODULE ImproveLoopProofs --------------------------
(***************************************************************************)
(* Proofs about ImproveLoop.  The inductive invariant has four parts: the  *)
(* rows of a loop agree with each other (LoopSound), its continuation and  *)
(* the jobs agree (JobsSound), a step between its two transactions finds   *)
(* what the first one left (ProposeReady), and the cap.                    *)
(***************************************************************************)
EXTENDS ImproveLoop, FiniteSetTheorems, TLAPS

(* The tries of a loop: only the live one trains and was not asked to      *)
(* stop, and there is one live try at most.                                *)
TrySound(ts) ==
    /\ ts \in [Try -> TryRow]
    /\ \A t \in Try :
        /\ ts[t].job \in Active /\ ~ts[t].cancel => ts[t].status = "running"
        /\ ts[t].job = "queued" => ~ts[t].cancel
        /\ ts[t].status = "running" => ts[t].job # "none"
        /\ LiveTry(ts[t]) => ts[t].fails < MaxFailures
        /\ ts[t].probes <= ts[t].fails + 1
        /\ ts[t].status \in {"open", "planned", "failed"} => ts[t].probes <= ts[t].fails
    /\ \A t, u \in Try : LiveTry(ts[t]) /\ LiveTry(ts[u]) => t = u

(* The row of a loop, against its tries.                                   *)
RunSound(r, ts) ==
    /\ r \in LoopRow
    /\ (\E t \in Try : LiveTry(ts[t])) => r.status = "running"
    /\ r.incumbent # 0 => ts[r.incumbent].status = "accepted"
    /\ r.status \in {"none", "queued"} => r.incumbent = 0
    /\ r.consulted => r.status = "completed"
    /\ r.cancel => \/ r.status \in {"finalizing", "cancelled", "failed"}
                   \/ r.status = "completed" /\ r.consulted

(* The final run of a loop, against both.                                  *)
FinalSound(r, ts, f) ==
    /\ f \in FinalRow
    /\ f.looks = IF f.looked THEN 1 ELSE 0
    /\ f.chosen # 0 => ts[f.chosen].status = "accepted"
    /\ f.job \in Active => r.status \in {"finalizing", "failed"}
    /\ f.job \in Active \/ f.looked => f.chosen # 0
    /\ f.looked => r.status \in {"finalizing", "failed", "completed"}
    /\ r.status = "completed" => (r.consulted <=> f.looked)
    /\ r.status = "finalizing" => f.chosen # 0
    /\ r.status = "waiting" =>
           /\ f.attempts < MaxFinal
           /\ \E t \in Try : ts[t].status = "accepted" /\ f.chosen \in {0, t}
    /\ r.status \in {"none", "queued", "running"} => f.attempts = 0 /\ f.chosen = 0

Sound(r, ts, f) == TrySound(ts) /\ RunSound(r, ts) /\ FinalSound(r, ts, f)

LoopsSound == \A l \in Loop : Sound(loop[l], try[l], final[l])

(* Jobs, continuations and workers.                                        *)
JobsSound ==
    /\ \A l \in Loop : loop[l].status \in Live => \E j \in Job : loop[l].cont = j /\ job[j].loop = l
    /\ \A l \in Loop : loop[l].status \notin Live => loop[l].cont = NoJob
    /\ \A j \in Job : job[j].status = "queued" => job[j].attempts < MaxAttempts
    /\ \A w \in Worker : worker[w].pc = "idle" <=> worker[w].job = NoJob
    /\ \A w \in Worker : worker[w].pc = "done" => \A l \in Loop : loop[l].cont # worker[w].job
    /\ "lost_hook" \notin Faults => NeverStranded

Ready(r, ts) ==
    /\ r.status = "running"
    /\ \A t \in Try : ts[t].status # "running"
    /\ ~FailedTwice(ts)
    /\ (\E t \in Try : LiveTry(ts[t])) \/ NextTry(ts) # {}

(* A step whose second transaction still may step the loop finds what its  *)
(* first one left: no probe runs, and there is a try to propose.           *)
ProposeReady ==
    \A w \in Worker, l \in Loop : At(w, "propose") /\ MayStep(w, l) => Ready(loop[l], try[l])

Inv == TypeOK /\ LoopsSound /\ JobsSound /\ ProposeReady /\ WithinCap


(* What the triggers of the tables ask of one loop whose rows become r, ts *)
(* and f.                                                                  *)
Follows(l, r, ts, f) ==
    /\ loop[l].status \in Terminal => r = loop[l]
    /\ r.status # loop[l].status => <<loop[l].status, r.status>> \in Transition
    /\ final[l].chosen # 0 => f.chosen = final[l].chosen
    /\ loop[l].consulted => r.consulted
    /\ f.attempts \in {final[l].attempts, final[l].attempts + 1}
    /\ \A t \in Try : try[l][t].status \in Done => ts[t].status = try[l][t].status

Accepted == \A l \in Loop : RunAccepted(l) /\ \A t \in Try : TryAccepted(l, t)

Rows(l, r, ts, f) ==
    /\ loop' = [loop EXCEPT ![l] = r]
    /\ try' = [try EXCEPT ![l] = ts]
    /\ final' = [final EXCEPT ![l] = f]

MayHold(l, r) == r.status \in Capped => loop[l].status \in Capped \/ Room(l)

RowsOK == /\ loop \in [Loop -> LoopRow]
          /\ try \in [Loop -> [Try -> TryRow]]
          /\ final \in [Loop -> FinalRow]

-----------------------------------------------------------------------------
(* The cap.                                                                *)

LEMMA CappedFinite == IsFiniteSet(CappedLoops) /\ Cardinality(CappedLoops) \in Nat
<1>1. IsFiniteSet(CappedLoops)
  BY FS_Subset, ImproveAssumption DEF ImproveAssumption, CappedLoops
<1> QED BY <1>1, FS_CardinalityType

(* Only l is added, and only when there is room for it.                    *)
LEMMA CapHolds ==
    ASSUME WithinCap, NEW l \in Loop, NEW S \in SUBSET Loop,
           S \subseteq CappedLoops \cup {l},
           l \in S => l \in CappedLoops \/ Room(l)
    PROVE  Cardinality(S) <= MaxLive
<1> MaxLive \in Nat
  BY ImproveAssumption DEF ImproveAssumption
<1>1. CASE S \subseteq CappedLoops
  <2>1. Cardinality(S) <= Cardinality(CappedLoops) /\ Cardinality(S) \in Nat
    BY <1>1, CappedFinite, FS_Subset, FS_CardinalityType
  <2> QED BY <2>1, CappedFinite DEF WithinCap
<1>2. CASE ~(S \subseteq CappedLoops)
  <2> DEFINE T == CappedLoops \ {l}
  <2>1. l \in S /\ l \notin CappedLoops /\ Room(l) /\ S \subseteq T \cup {l}
    BY <1>2
  <2>2. IsFiniteSet(T) /\ Cardinality(T) \in Nat /\ Cardinality(T) < MaxLive
    BY <2>1, CappedFinite, FS_Subset, FS_CardinalityType DEF Room
  <2>3. IsFiniteSet(T \cup {l}) /\ Cardinality(T \cup {l}) = Cardinality(T) + 1
    <3> l \notin T
      OBVIOUS
    <3> HIDE DEF T
    <3> QED BY <2>2, FS_AddElement
  <2>4. Cardinality(S) <= Cardinality(T \cup {l}) /\ Cardinality(S) \in Nat
    <3> HIDE DEF T
    <3> QED BY <2>1, <2>3, FS_Subset, FS_CardinalityType
  <2> HIDE DEF T
  <2> QED BY <2>2, <2>3, <2>4
<1> QED BY <1>1, <1>2

-----------------------------------------------------------------------------
(* The rows of one loop change.                                            *)

LEMMA RowsMove ==
    ASSUME RowsOK, LoopsSound, WithinCap,
           NEW l \in Loop, NEW r, NEW ts, NEW f,
           Rows(l, r, ts, f), Sound(r, ts, f), Follows(l, r, ts, f), MayHold(l, r)
    PROVE  RowsOK' /\ LoopsSound' /\ WithinCap' /\ Accepted
<1>1. /\ loop'[l] = r /\ try'[l] = ts /\ final'[l] = f
      /\ \A m \in Loop \ {l} : /\ loop'[m] = loop[m]
                               /\ try'[m] = try[m]
                               /\ final'[m] = final[m]
  BY DEF Rows, RowsOK
<1>2. r \in LoopRow /\ ts \in [Try -> TryRow] /\ f \in FinalRow
  BY DEF Sound, TrySound, RunSound, FinalSound
<1>3. RowsOK'
  BY <1>2 DEF Rows, RowsOK
<1>4. LoopsSound'
  <2> SUFFICES ASSUME NEW m \in Loop PROVE Sound(loop'[m], try'[m], final'[m])
    BY DEF LoopsSound
  <2>1. CASE m = l
    BY <2>1, <1>1
  <2>2. CASE m # l
    BY <2>2, <1>1 DEF LoopsSound
  <2> QED BY <2>1, <2>2
<1>5. WithinCap'
  <2> DEFINE S == {m \in Loop : loop'[m].status \in Capped}
  <2>1. S \subseteq CappedLoops \cup {l}
    BY <1>1 DEF CappedLoops
  <2>2. l \in S => l \in CappedLoops \/ Room(l)
    BY <1>1 DEF CappedLoops, MayHold
  <2>3. S \in SUBSET Loop
    OBVIOUS
  <2>4. Cardinality(S) <= MaxLive
    <3> HIDE DEF S
    <3> QED BY <2>1, <2>2, <2>3, CapHolds
  <2> QED BY <2>4 DEF WithinCap, CappedLoops
<1>6. Accepted
  <2> SUFFICES ASSUME NEW m \in Loop
               PROVE  RunAccepted(m) /\ \A t \in Try : TryAccepted(m, t)
    BY DEF Accepted
  <2>1. CASE m = l
    BY <2>1, <1>1 DEF Follows, RunAccepted, TryAccepted
  <2>2. CASE m # l
    BY <2>2, <1>1 DEF RunAccepted, TryAccepted
  <2> QED BY <2>1, <2>2
<1> QED BY <1>3, <1>4, <1>5, <1>6

-----------------------------------------------------------------------------
(* The jobs, when a loop is armed again or ends.                           *)

JobsOK ==
    /\ job \in [Job -> StepJob]
    /\ owed \subseteq Job
    /\ worker \in [Worker -> [pc : {"idle", "step", "propose", "done"}, job : Job \cup {NoJob}]]

(* The worker of the step, if there is one, goes on.                       *)
Moves(l, pc) == worker' = worker \/ \E w \in Worker : MayStep(w, l) /\ Goes(w, pc)

(* A hook that ran is the one of the continuation.                         *)
OwedMoves(l) == owed' \subseteq owed /\ owed \subseteq owed' \cup {loop[l].cont}

(* Who may step another loop between its transactions could do so before.  *)
OthersPropose(l) ==
    \A w \in Worker, m \in Loop : At(w, "propose")' /\ MayStep(w, m)' =>
        m # l /\ At(w, "propose") /\ MayStep(w, m)

(* NeverStranded, of one loop.                                             *)
Continued(l) ==
    loop[l].status \in Live =>
        \E j \in Job : /\ loop[l].cont = j
                       /\ job[j].loop = l
                       /\ job[j].status \in Active \/ (job[j].status = "failed" /\ j \in owed)

LEMMA MovedWorkers ==
    ASSUME JobsOK, NEW l \in Loop, NEW pc \in {"propose", "done"}, Moves(l, pc),
           \A w \in Worker : worker[w].pc = "idle" <=> worker[w].job = NoJob
    PROVE  /\ \A w \in Worker : worker'[w].job = worker[w].job
           /\ \A w \in Worker : \/ worker'[w].pc = worker[w].pc
                                \/ worker'[w].pc = pc /\ MayStep(w, l)
           /\ worker' \in [Worker -> [pc : {"idle", "step", "propose", "done"},
                                      job : Job \cup {NoJob}]]
           /\ \A w \in Worker : worker'[w].pc = "idle" <=> worker'[w].job = NoJob
<1>1. CASE worker' = worker
  BY <1>1 DEF JobsOK
<1>2. ASSUME NEW v \in Worker, MayStep(v, l), Goes(v, pc)
      PROVE  /\ \A w \in Worker : worker'[w].job = worker[w].job
             /\ \A w \in Worker : \/ worker'[w].pc = worker[w].pc
                                  \/ worker'[w].pc = pc /\ MayStep(w, l)
             /\ worker' \in [Worker -> [pc : {"idle", "step", "propose", "done"},
                                        job : Job \cup {NoJob}]]
             /\ \A w \in Worker : worker'[w].pc = "idle" <=> worker'[w].job = NoJob
  <2>1. worker' = [worker EXCEPT ![v] = [worker[v] EXCEPT !.pc = pc]]
    BY <1>2 DEF Goes
  <2>2. [worker[v] EXCEPT !.pc = pc] \in [pc : {"idle", "step", "propose", "done"},
                                          job : Job \cup {NoJob}]
    BY DEF JobsOK
  <2>3. \A w \in Worker : worker'[w] = IF w = v THEN [worker[v] EXCEPT !.pc = pc] ELSE worker[w]
    BY <2>1 DEF JobsOK
  <2>4. /\ [worker[v] EXCEPT !.pc = pc].pc = pc
        /\ [worker[v] EXCEPT !.pc = pc].job = worker[v].job
    BY DEF JobsOK
  <2>5. worker[v].job # NoJob
    BY <1>2 DEF MayStep
  <2>6. worker' \in [Worker -> [pc : {"idle", "step", "propose", "done"},
                                job : Job \cup {NoJob}]]
    BY <2>1, <2>2 DEF JobsOK
  <2>7. ASSUME NEW w \in Worker
        PROVE  /\ worker'[w].job = worker[w].job
               /\ worker'[w].pc = worker[w].pc \/ (worker'[w].pc = pc /\ MayStep(w, l))
               /\ worker'[w].pc = "idle" <=> worker'[w].job = NoJob
    <3>1. CASE w = v
      BY <3>1, <2>3, <2>4, <2>5, <1>2
    <3>2. CASE w # v
      BY <3>2, <2>3
    <3> QED BY <3>1, <3>2
  <2> QED BY <2>6, <2>7
<1> QED BY <1>1, <1>2 DEF Moves

(* The jobs move: job' differs only in the old continuation of l and in    *)
(* its new one, which nobody knows yet.                                    *)
LEMMA JobsMove ==
    ASSUME JobsOK, JobsSound, NEW l \in Loop, NEW r,
           \A m \in Loop \ {l} : loop'[m] = loop[m],
           loop'[l] = r,
           Moves(l, "done"), OwedMoves(l),
           job' \in [Job -> StepJob],
           \A j \in Job : j # loop[l].cont /\ j # r.cont => job'[j] = job[j],
           \A j \in Job : job'[j].loop # job[j].loop => j = r.cont,
           \A j \in Job : job'[j].status = "queued" => job'[j].attempts < MaxAttempts,
           r.status \in Live =>
               r.cont \in Fresh /\ job'[r.cont].loop = l /\ job'[r.cont].status = "queued",
           r.status \notin Live => r.cont = NoJob
    PROVE  JobsOK' /\ JobsSound' /\ OthersPropose(l)
<1> NoJob \notin Job
  BY ImproveAssumption DEF ImproveAssumption
<1>1. /\ \A w \in Worker : worker'[w].job = worker[w].job
      /\ \A w \in Worker : \/ worker'[w].pc = worker[w].pc
                           \/ worker'[w].pc = "done" /\ MayStep(w, l)
      /\ worker' \in [Worker -> [pc : {"idle", "step", "propose", "done"},
                                 job : Job \cup {NoJob}]]
      /\ \A w \in Worker : worker'[w].pc = "idle" <=> worker'[w].job = NoJob
  BY MovedWorkers DEF JobsSound
<1>2. JobsOK'
  BY <1>1 DEF JobsOK, OwedMoves
<1>3. r.cont = NoJob \/ r.cont \in Fresh
  OBVIOUS
<1>4. ASSUME NEW m \in Loop, m # l, NEW j \in Job, loop[m].cont = j, job[j].loop = m
      PROVE  j # loop[l].cont /\ j # r.cont
  <2>1. loop[l].status \in Live => job[loop[l].cont].loop = l
    BY DEF JobsSound
  <2>2. loop[l].status \notin Live => loop[l].cont = NoJob
    BY DEF JobsSound
  <2>3. j # r.cont
    BY <1>3, <1>4 DEF Fresh
  <2> QED BY <2>1, <2>2, <2>3, <1>4
<1>5. ASSUME NEW m \in Loop
      PROVE  /\ loop'[m].status \in Live =>
                    \E j \in Job : loop'[m].cont = j /\ job'[j].loop = m
             /\ loop'[m].status \notin Live => loop'[m].cont = NoJob
  <2>1. CASE m = l
    BY <2>1 DEF Fresh
  <2>2. CASE m # l
    BY <2>2, <1>4 DEF JobsSound
  <2> QED BY <2>1, <2>2
<1>6. ASSUME NEW w \in Worker, worker'[w].pc = "done", NEW m \in Loop
      PROVE  loop'[m].cont # worker'[w].job
  <2>1. worker[w].job \in Job \cup {NoJob}
    BY DEF JobsOK
  <2>2. worker[w].job # NoJob
    BY <1>1, <1>6
  <2>3. CASE m = l
    BY <2>1, <2>2, <2>3, <1>1, <1>3 DEF Fresh
  <2>4. CASE m # l /\ worker[w].pc = "done"
    BY <2>4, <1>1 DEF JobsSound
  <2>5. CASE m # l /\ MayStep(w, l)
    <3>1. job[worker[w].job].loop = l
      BY <2>5 DEF MayStep
    <3>2. loop[m].cont = NoJob \/ job[loop[m].cont].loop = m
      BY DEF JobsSound
    <3> QED BY <2>5, <3>1, <3>2, <2>2, <1>1
  <2> QED BY <2>3, <2>4, <2>5, <1>1, <1>6
<1>7. ASSUME "lost_hook" \notin Faults, NEW m \in Loop
      PROVE  Continued(m)'
  <2>1. Continued(m)
    BY <1>7 DEF JobsSound, NeverStranded, Continued
  <2>2. CASE m = l
    BY <2>2 DEF Continued, Fresh, Active
  <2>3. CASE m # l
    <3> SUFFICES ASSUME loop[m].status \in Live
                 PROVE  Continued(m)'
      BY <2>3 DEF Continued
    <3>1. PICK j \in Job : /\ loop[m].cont = j
                           /\ job[j].loop = m
                           /\ job[j].status \in Active \/ (job[j].status = "failed" /\ j \in owed)
      BY <2>1 DEF Continued
    <3>2. j # loop[l].cont /\ j # r.cont
      BY <3>1, <2>3, <1>4
    <3>3. job'[j] = job[j] /\ loop'[m] = loop[m] /\ (j \in owed => j \in owed')
      BY <3>2, <2>3 DEF OwedMoves
    <3> QED BY <3>1, <3>3 DEF Continued
  <2> QED BY <2>2, <2>3
<1>8. JobsSound'
  BY <1>1, <1>5, <1>6, <1>7 DEF JobsSound, NeverStranded, Continued
<1>9. OthersPropose(l)
  <2> SUFFICES ASSUME NEW w \in Worker, NEW m \in Loop, At(w, "propose")', MayStep(w, m)'
               PROVE  m # l /\ At(w, "propose") /\ MayStep(w, m)
    BY DEF OthersPropose
  <2>1. At(w, "propose")
    BY <1>1 DEF At
  <2>2. worker[w].job \in Job /\ worker'[w].job = worker[w].job
    BY <1>1 DEF MayStep, JobsOK
  <2>3. m # l
    BY <2>2, <1>3 DEF MayStep, Fresh
  <2>4. worker[w].job # r.cont
    BY <2>2, <1>3 DEF Fresh
  <2> QED BY <2>1, <2>2, <2>3, <2>4 DEF MayStep
<1> QED BY <1>2, <1>8, <1>9

-----------------------------------------------------------------------------
(* arm and finish keep the invariant, when the rows they write are sound.  *)

LEMMA TypeParts ==
    TypeOK <=> RowsOK /\ JobsOK /\ inRow \in [Loop -> 0 .. MaxStepErrors]
BY DEF TypeOK, RowsOK, JobsOK

LEMMA TypePartsNext ==
    TypeOK' <=> RowsOK' /\ JobsOK' /\ (inRow \in [Loop -> 0 .. MaxStepErrors])'
BY DEF TypeOK, RowsOK, JobsOK

LEMMA Continuation ==
    ASSUME NEW l \in Loop, NEW r, NEW ts, NEW f, NEW n \in Job \cup {NoJob},
           Sound(r, ts, f), Follows(l, r, ts, f), MayHold(l, r), loop[l].status \notin Terminal
    PROVE  LET q == [r EXCEPT !.cont = n]
           IN  /\ Sound(q, ts, f) /\ Follows(l, q, ts, f) /\ MayHold(l, q)
               /\ q.status = r.status /\ q.cont = n /\ q \in LoopRow
<1> DEFINE q == [r EXCEPT !.cont = n]
<1>1. r \in LoopRow
  BY DEF Sound, RunSound
<1>2. /\ q \in LoopRow
      /\ q.status = r.status /\ q.incumbent = r.incumbent /\ q.cancel = r.cancel
      /\ q.consulted = r.consulted /\ q.cont = n
  BY <1>1 DEF LoopRow
<1> HIDE DEF q
<1>3. RunSound(q, ts)
  BY <1>2 DEF Sound, RunSound
<1>4. FinalSound(q, ts, f)
  BY <1>2 DEF Sound, FinalSound
<1>5. Sound(q, ts, f)
  BY <1>3, <1>4 DEF Sound
<1>6. Follows(l, q, ts, f)
  BY <1>2 DEF Follows
<1>7. MayHold(l, q)
  BY <1>2 DEF MayHold
<1> QED BY <1>2, <1>5, <1>6, <1>7 DEF q

LEMMA OthersReady ==
    ASSUME ProposeReady, NEW l \in Loop, OthersPropose(l),
           \A m \in Loop \ {l} : loop'[m] = loop[m] /\ try'[m] = try[m]
    PROVE  ProposeReady'
<1> SUFFICES ASSUME NEW w \in Worker, NEW m \in Loop, At(w, "propose")', MayStep(w, m)'
             PROVE  Ready(loop'[m], try'[m])
  BY DEF ProposeReady
<1>1. m # l /\ At(w, "propose") /\ MayStep(w, m)
  BY DEF OthersPropose
<1> QED BY <1>1 DEF ProposeReady

LEMMA Rearmed ==
    ASSUME Inv, NEW l \in Loop, NEW keep, NEW r, NEW ts, NEW f,
           Arm(l, keep, r),
           try' = [try EXCEPT ![l] = ts],
           final' = [final EXCEPT ![l] = f],
           Sound(r, ts, f), Follows(l, r, ts, f), MayHold(l, r),
           r.status \in Live, loop[l].status \notin Terminal,
           Moves(l, "done"), OwedMoves(l), inRow' \in [Loop -> 0 .. MaxStepErrors]
    PROVE  Inv' /\ Accepted
<1> RowsOK /\ JobsOK /\ LoopsSound /\ JobsSound /\ ProposeReady /\ WithinCap
  BY TypeParts DEF Inv
<1>1. PICK n \in Fresh :
          /\ job' = [Dropped(l, keep) EXCEPT ![n] = [loop |-> l, status |-> "queued",
                                                      attempts |-> 0]]
          /\ loop' = [loop EXCEPT ![l] = [r EXCEPT !.cont = n]]
  BY DEF Arm
<1> DEFINE q == [r EXCEPT !.cont = n]
<1> n \in Job
  BY <1>1 DEF Fresh
<1>2. /\ Sound(q, ts, f) /\ Follows(l, q, ts, f) /\ MayHold(l, q)
      /\ q.status = r.status /\ q.cont = n /\ q \in LoopRow
  BY Continuation
<1>3. Rows(l, q, ts, f)
  BY <1>1 DEF Rows
<1> HIDE DEF q
<1>4. RowsOK' /\ LoopsSound' /\ WithinCap' /\ Accepted
  BY <1>2, <1>3, RowsMove
<1>5. /\ loop'[l] = q
      /\ \A m \in Loop \ {l} : loop'[m] = loop[m] /\ try'[m] = try[m]
  BY <1>3 DEF Rows, RowsOK
<1>6. Dropped(l, keep) \in [Job -> StepJob]
  <2>1. ASSUME NEW j \in Job PROVE [job[j] EXCEPT !.status = "ended"] \in StepJob
    BY DEF JobsOK, StepJob
  <2> QED BY <2>1 DEF Dropped, JobsOK
<1>7. \A j \in Job : Dropped(l, keep)[j] = [job[j] EXCEPT !.status = "ended"]
                     \/ Dropped(l, keep)[j] = job[j]
  BY DEF Dropped
<1>8. \A j \in Job : j # loop[l].cont => Dropped(l, keep)[j] = job[j]
  BY DEF Dropped
<1>9. [loop |-> l, status |-> "queued", attempts |-> 0] \in StepJob
  BY ImproveAssumption DEF ImproveAssumption, StepJob
<1>10. \A j \in Job : job'[j] = IF j = n THEN [loop |-> l, status |-> "queued", attempts |-> 0]
                                ELSE Dropped(l, keep)[j]
  BY <1>1, <1>6
<1>11. job' \in [Job -> StepJob]
  BY <1>1, <1>6, <1>9
<1>12. \A j \in Job : /\ Dropped(l, keep)[j].loop = job[j].loop
                      /\ Dropped(l, keep)[j].status = "queued" =>
                             Dropped(l, keep)[j] = job[j]
  BY <1>7 DEF JobsOK, StepJob
<1>13. \A j \in Job : job'[j].status = "queued" => job'[j].attempts < MaxAttempts
  BY <1>10, <1>12, ImproveAssumption DEF ImproveAssumption, JobsSound
<1>14. JobsOK' /\ JobsSound' /\ OthersPropose(l)
  <2>1. \A j \in Job : j # loop[l].cont /\ j # q.cont => job'[j] = job[j]
    BY <1>2, <1>8, <1>10
  <2>2. \A j \in Job : job'[j].loop # job[j].loop => j = q.cont
    BY <1>2, <1>10, <1>12
  <2>3. q.status \in Live /\ q.cont \in Fresh /\ job'[q.cont].loop = l
        /\ job'[q.cont].status = "queued"
    BY <1>1, <1>2, <1>10
  <2> QED BY <1>5, <1>11, <1>13, <2>1, <2>2, <2>3, JobsMove
<1>15. ProposeReady'
  BY <1>5, <1>14, OthersReady
<1>16. TypeOK'
  BY <1>4, <1>14, TypePartsNext
<1> QED BY <1>4, <1>14, <1>15, <1>16 DEF Inv

LEMMA Finished ==
    ASSUME Inv, NEW l \in Loop, NEW keep, NEW r, NEW s \in Terminal, NEW ts, NEW f,
           Finish(l, keep, r, s, ts),
           final' = [final EXCEPT ![l] = f],
           r \in LoopRow,
           Sound([r EXCEPT !.status = s], Halted(ts), f),
           Follows(l, [r EXCEPT !.status = s], Halted(ts), f),
           loop[l].status \notin Terminal,
           Moves(l, "done"), OwedMoves(l), inRow' \in [Loop -> 0 .. MaxStepErrors]
    PROVE  Inv' /\ Accepted
<1> RowsOK /\ JobsOK /\ LoopsSound /\ JobsSound /\ ProposeReady /\ WithinCap
  BY TypeParts DEF Inv
<1> DEFINE p == [r EXCEPT !.status = s]
           q == [p EXCEPT !.cont = NoJob]
<1>1. p \in LoopRow /\ p.status = s
  BY DEF LoopRow, Status
<1>2. /\ job' = Dropped(l, keep)
      /\ loop' = [loop EXCEPT ![l] = q]
      /\ try' = [try EXCEPT ![l] = Halted(ts)]
  BY DEF Finish
<1> Sound(p, Halted(ts), f) /\ Follows(l, p, Halted(ts), f)
  OBVIOUS
<1> HIDE DEF p
<1>3. MayHold(l, p)
  BY <1>1 DEF MayHold, Terminal, Capped
<1>4. /\ Sound(q, Halted(ts), f) /\ Follows(l, q, Halted(ts), f) /\ MayHold(l, q)
      /\ q.status = s /\ q.cont = NoJob /\ q \in LoopRow
  BY <1>1, <1>3, Continuation
<1> HIDE DEF q
<1>5. RowsOK' /\ LoopsSound' /\ WithinCap' /\ Accepted
  <2>1. Rows(l, q, Halted(ts), f)
    BY <1>2 DEF Rows
  <2> QED BY <2>1, <1>4, RowsMove
<1>6. /\ loop'[l] = q
      /\ \A m \in Loop \ {l} : loop'[m] = loop[m] /\ try'[m] = try[m]
  BY <1>2 DEF RowsOK
<1>7. job' \in [Job -> StepJob]
  <2>1. ASSUME NEW j \in Job PROVE [job[j] EXCEPT !.status = "ended"] \in StepJob
    BY DEF JobsOK, StepJob
  <2> QED BY <2>1, <1>2 DEF Dropped, JobsOK
<1>8. \A j \in Job : job'[j] = [job[j] EXCEPT !.status = "ended"] \/ job'[j] = job[j]
  BY <1>2 DEF Dropped
<1>9. \A j \in Job : j # loop[l].cont => job'[j] = job[j]
  BY <1>2 DEF Dropped
<1>10. \A j \in Job : job'[j].loop = job[j].loop
                      /\ (job'[j].status = "queued" => job'[j] = job[j])
  BY <1>8 DEF JobsOK, StepJob
<1>11. JobsOK' /\ JobsSound' /\ OthersPropose(l)
  <2>1. q.status \notin Live
    BY <1>4 DEF Live, Terminal
  <2>2. \A j \in Job : job'[j].status = "queued" => job'[j].attempts < MaxAttempts
    BY <1>10 DEF JobsSound
  <2> QED BY <1>4, <1>6, <1>7, <1>9, <1>10, <2>1, <2>2, JobsMove
<1>12. ProposeReady'
  BY <1>6, <1>11, OthersReady
<1>13. TypeOK'
  BY <1>5, <1>11, TypePartsNext
<1> QED BY <1>5, <1>11, <1>12, <1>13 DEF Inv

(* Neither: the rows change, the loop keeps its continuation, and a step   *)
(* may go on to its second transaction.                                    *)
LEMMA Touched ==
    ASSUME Inv, NEW l \in Loop, NEW r, NEW ts, NEW f,
           Rows(l, r, ts, f), Sound(r, ts, f), Follows(l, r, ts, f), MayHold(l, r),
           r.cont = loop[l].cont, r.status \in Live <=> loop[l].status \in Live,
           UNCHANGED <<job, owed>>, Moves(l, "propose"),
           inRow' \in [Loop -> 0 .. MaxStepErrors],
           \/ Ready(r, ts)
           \/ worker' = worker /\ (Ready(loop[l], try[l]) => Ready(r, ts))
    PROVE  Inv' /\ Accepted
<1> RowsOK /\ JobsOK /\ LoopsSound /\ JobsSound /\ ProposeReady /\ WithinCap
  BY TypeParts DEF Inv
<1>1. RowsOK' /\ LoopsSound' /\ WithinCap' /\ Accepted
  BY RowsMove
<1>2. /\ \A w \in Worker : worker'[w].job = worker[w].job
      /\ \A w \in Worker : \/ worker'[w].pc = worker[w].pc
                           \/ worker'[w].pc = "propose" /\ MayStep(w, l)
      /\ worker' \in [Worker -> [pc : {"idle", "step", "propose", "done"},
                                 job : Job \cup {NoJob}]]
      /\ \A w \in Worker : worker'[w].pc = "idle" <=> worker'[w].job = NoJob
  BY MovedWorkers DEF JobsSound
<1>3. JobsOK'
  BY <1>2 DEF JobsOK
<1>4. /\ loop'[l] = r /\ try'[l] = ts
      /\ \A m \in Loop \ {l} : loop'[m] = loop[m] /\ try'[m] = try[m]
  BY DEF Rows, RowsOK
<1>5. \A m \in Loop : /\ loop'[m].cont = loop[m].cont
                      /\ loop'[m].status \in Live <=> loop[m].status \in Live
  BY <1>4
<1>6. JobsSound'
  <2>1. "lost_hook" \notin Faults => NeverStranded'
    BY <1>5 DEF JobsSound, NeverStranded
  <2>2. \A w \in Worker : worker'[w].pc = "done" =>
            \A m \in Loop : loop'[m].cont # worker'[w].job
    BY <1>2, <1>5 DEF JobsSound
  <2> QED BY <1>2, <1>5, <2>1, <2>2 DEF JobsSound
<1>7. ProposeReady'
  <2> SUFFICES ASSUME NEW w \in Worker, NEW m \in Loop, At(w, "propose")', MayStep(w, m)'
               PROVE  Ready(loop'[m], try'[m])
    BY DEF ProposeReady
  <2>1. MayStep(w, m)
    BY <1>2, <1>5 DEF MayStep
  <2>2. CASE m = l /\ Ready(r, ts)
    BY <2>2, <1>4
  <2>3. CASE m = l /\ worker' = worker /\ (Ready(loop[l], try[l]) => Ready(r, ts))
    <3>1. At(w, "propose")
      BY <2>3 DEF At
    <3> QED BY <2>1, <2>3, <3>1, <1>4 DEF ProposeReady
  <2>4. CASE m # l
    <3>1. At(w, "propose")
      <4>1. worker[w].job \in Job /\ loop[m].cont = worker[w].job /\ job[worker[w].job].loop = m
        BY <2>1 DEF MayStep, JobsOK
      <4>2. ~MayStep(w, l)
        BY <2>4, <4>1 DEF MayStep
      <4> QED BY <4>2, <1>2 DEF At
    <3> QED BY <2>1, <2>4, <3>1, <1>4 DEF ProposeReady
  <2> QED BY <2>2, <2>3, <2>4
<1>8. TypeOK'
  BY <1>1, <1>3, TypePartsNext
<1> QED BY <1>1, <1>6, <1>7, <1>8 DEF Inv

(* The rows stay: the queue moves a job, or a worker goes elsewhere.       *)
LEMMA Elsewhere ==
    ASSUME Inv, UNCHANGED <<loop, try, final, inRow>>, JobsOK', JobsSound',
           \A w \in Worker, l \in Loop : At(w, "propose")' /\ MayStep(w, l)' =>
               At(w, "propose") /\ MayStep(w, l)
    PROVE  Inv' /\ Accepted
<1>1. Accepted
  BY DEF Accepted, RunAccepted, TryAccepted, Inv, TypeOK, FinalRow
<1>2. ProposeReady'
  <2> SUFFICES ASSUME NEW w \in Worker, NEW l \in Loop, At(w, "propose")', MayStep(w, l)'
               PROVE  Ready(loop'[l], try'[l])
    BY DEF ProposeReady
  <2> QED BY DEF Inv, ProposeReady
<1>3. RowsOK' /\ (inRow \in [Loop -> 0 .. MaxStepErrors])'
  BY DEF Inv, TypeOK, RowsOK
<1>4. LoopsSound'
  BY DEF Inv, LoopsSound
<1>5. WithinCap'
  BY DEF Inv, WithinCap, CappedLoops
<1> QED BY <1>1, <1>2, <1>3, <1>4, <1>5, TypePartsNext DEF Inv

-----------------------------------------------------------------------------
(* What the operators on rows do.                                          *)

LEMMA AskedTry ==
    ASSUME NEW r \in TryRow
    PROVE  /\ Asked(r) \in TryRow
           /\ Asked(r).status = r.status
           /\ Asked(r).fails = r.fails
           /\ Asked(r).probes = r.probes
           /\ Asked(r).job # "queued"
           /\ Asked(r).job \in Active => Asked(r).cancel
           /\ Asked(r).job = "none" => r.job = "none"
<1>1. /\ Asked(r).job = IF r.job = "queued" THEN "cancelled" ELSE r.job
      /\ Asked(r).cancel = (r.cancel \/ r.job = "running")
      /\ Asked(r).status = r.status
      /\ Asked(r).fails = r.fails
      /\ Asked(r).probes = r.probes
  BY DEF Asked, TryRow
<1>2. (r.cancel \/ r.job = "running") \in BOOLEAN
  BY DEF TryRow
<1>3. (IF r.job = "queued" THEN "cancelled" ELSE r.job) \in JobState
  BY DEF TryRow, JobState
<1>4. Asked(r) \in TryRow
  BY <1>2, <1>3 DEF Asked, TryRow
<1> QED BY <1>1, <1>4 DEF Active

LEMMA AskedFinal ==
    ASSUME NEW f \in FinalRow
    PROVE  /\ Asked(f) \in FinalRow
           /\ Asked(f).attempts = f.attempts
           /\ Asked(f).chosen = f.chosen
           /\ Asked(f).looked = f.looked
           /\ Asked(f).looks = f.looks
           /\ Asked(f).job \in Active => f.job \in Active
<1>1. /\ Asked(f).job = IF f.job = "queued" THEN "cancelled" ELSE f.job
      /\ Asked(f).attempts = f.attempts
      /\ Asked(f).chosen = f.chosen
      /\ Asked(f).looked = f.looked
      /\ Asked(f).looks = f.looks
  BY DEF Asked, FinalRow
<1>2. (f.cancel \/ f.job = "running") \in BOOLEAN
  BY DEF FinalRow
<1>3. (IF f.job = "queued" THEN "cancelled" ELSE f.job) \in JobState
  BY DEF FinalRow, JobState
<1>4. Asked(f) \in FinalRow
  BY <1>2, <1>3 DEF Asked, FinalRow
<1> QED BY <1>1, <1>4 DEF Active

(* A stop leaves no live try, and training only where it was asked to end. *)
LEMMA HaltedSound ==
    ASSUME NEW ts, TrySound(ts)
    PROVE  /\ TrySound(Halted(ts))
           /\ \A t \in Try : /\ ~LiveTry(Halted(ts)[t])
                             /\ Halted(ts)[t].status = "accepted" <=> ts[t].status = "accepted"
                             /\ ts[t].status \in Done => Halted(ts)[t].status = ts[t].status
<1> DEFINE hs == Halted(ts)
<1>1. ASSUME NEW t \in Try
      PROVE  /\ hs[t] \in TryRow
             /\ ~LiveTry(hs[t])
             /\ hs[t].status = "accepted" <=> ts[t].status = "accepted"
             /\ ts[t].status \in Done => hs[t].status = ts[t].status
             /\ hs[t].job \in Active => hs[t].cancel
             /\ hs[t].job # "queued"
             /\ hs[t].status # "running"
             /\ hs[t].probes <= hs[t].fails + 1
             /\ hs[t].status \in {"open", "planned", "failed"} => hs[t].probes <= hs[t].fails
  <2>1. ts[t] \in TryRow
    BY DEF TrySound
  <2>2. CASE LiveTry(ts[t])
    <3> DEFINE a == Asked(ts[t])
               c == [a EXCEPT !.status = "cancelled"]
    <3>1. hs[t] = c
      BY <2>2 DEF Halted
    <3>2. /\ a \in TryRow /\ a.job # "queued" /\ (a.job \in Active => a.cancel)
          /\ a.fails = ts[t].fails /\ a.probes = ts[t].probes
      BY <2>1, AskedTry
    <3> HIDE DEF a
    <3>3. /\ c \in TryRow /\ c.status = "cancelled" /\ c.job = a.job /\ c.cancel = a.cancel
          /\ c.fails = a.fails /\ c.probes = a.probes
      BY <3>2 DEF TryRow, TryStatus
    <3> HIDE DEF c
    <3>4. ts[t].probes <= ts[t].fails + 1
      BY DEF TrySound
    <3> QED BY <3>1, <3>2, <3>3, <3>4, <2>2 DEF LiveTry, Done
  <2>3. CASE ~LiveTry(ts[t])
    <3>1. hs[t] = ts[t]
      BY <2>3 DEF Halted
    <3>2. ts[t].status # "running" /\ ts[t].status # "planned"
      BY <2>3 DEF LiveTry
    <3>3. ts[t].job \in Active => ts[t].cancel
      BY <3>2 DEF TrySound
    <3>4. ts[t].job # "queued"
      BY <3>3 DEF TrySound, Active
    <3> HIDE DEF hs
    <3> QED BY <2>1, <2>3, <3>1, <3>2, <3>3, <3>4 DEF TrySound
  <2> QED BY <2>2, <2>3
<1>2. hs \in [Try -> TryRow]
  <2>1. \A t \in Try : (IF LiveTry(ts[t]) THEN [Asked(ts[t]) EXCEPT !.status = "cancelled"]
                        ELSE ts[t]) \in TryRow
    BY <1>1 DEF Halted
  <2> QED BY <2>1 DEF Halted
<1> HIDE DEF hs
<1>3. TrySound(hs)
  BY <1>1, <1>2 DEF TrySound
<1> QED BY <1>1, <1>3 DEF hs

(* A final run that is over, of a loop that may still end in any way.      *)
(* Whoever ends it leaves sound rows.                                      *)
LEMMA EndSound ==
    ASSUME NEW ts, NEW r \in LoopRow, NEW f \in FinalRow, NEW s \in Terminal,
           TrySound(ts),
           r.incumbent # 0 => ts[r.incumbent].status = "accepted",
           r.consulted => s = "completed",
           r.cancel => s \in {"cancelled", "failed"} \/ (s = "completed" /\ r.consulted),
           f.looks = IF f.looked THEN 1 ELSE 0,
           f.chosen # 0 => ts[f.chosen].status = "accepted",
           f.job \in Active => s = "failed",
           f.job \in Active \/ f.looked => f.chosen # 0,
           f.looked => s \in {"failed", "completed"},
           s = "completed" => (r.consulted <=> f.looked)
    PROVE  Sound([r EXCEPT !.status = s], Halted(ts), f)
<1> DEFINE hs == Halted(ts)
           p == [r EXCEPT !.status = s]
<1>1. /\ TrySound(hs)
      /\ \A t \in Try : /\ ~LiveTry(hs[t])
                        /\ hs[t].status = "accepted" <=> ts[t].status = "accepted"
  BY HaltedSound
<1>2. /\ p \in LoopRow /\ p.status = s /\ p.incumbent = r.incumbent
      /\ p.consulted = r.consulted /\ p.cancel = r.cancel
  BY DEF LoopRow, Status
<1>3. r.incumbent \in {0} \cup Try /\ f.chosen \in {0} \cup Try
  BY ImproveAssumption DEF ImproveAssumption, LoopRow, FinalRow, Try
<1> HIDE DEF hs, p
<1>4. RunSound(p, hs)
  BY <1>1, <1>2, <1>3 DEF RunSound, Terminal
<1>5. FinalSound(p, hs, f)
  BY <1>1, <1>2, <1>3 DEF FinalSound, Terminal
<1> QED BY <1>1, <1>4, <1>5 DEF Sound, hs, p

(* What a loop that waits for a person needs.                              *)
LEMMA WaitSound ==
    ASSUME NEW ts, NEW r \in LoopRow, NEW f \in FinalRow,
           TrySound(ts),
           r.incumbent # 0 => ts[r.incumbent].status = "accepted",
           ~r.consulted, ~r.cancel, f.looks = 0, ~f.looked, f.job \notin Active,
           f.chosen # 0 => ts[f.chosen].status = "accepted",
           f.attempts < MaxFinal,
           f.chosen # 0 \/ r.incumbent # 0
    PROVE  Sound([r EXCEPT !.status = "waiting", !.overdue = FALSE], Halted(ts), f)
<1> DEFINE hs == Halted(ts)
           p == [r EXCEPT !.status = "waiting", !.overdue = FALSE]
<1>1. /\ TrySound(hs)
      /\ \A t \in Try : /\ ~LiveTry(hs[t])
                        /\ hs[t].status = "accepted" <=> ts[t].status = "accepted"
  BY HaltedSound
<1>2. /\ p \in LoopRow /\ p.status = "waiting" /\ p.incumbent = r.incumbent
      /\ p.consulted = r.consulted /\ p.cancel = r.cancel
  BY DEF LoopRow, Status, Live
<1>3. r.incumbent \in {0} \cup Try /\ f.chosen \in {0} \cup Try
  BY ImproveAssumption DEF ImproveAssumption, LoopRow, FinalRow, Try
<1> HIDE DEF hs, p
<1>4. RunSound(p, hs)
  BY <1>1, <1>2, <1>3 DEF RunSound
<1>5. \E t \in Try : hs[t].status = "accepted" /\ f.chosen \in {0, t}
  <2>1. CASE f.chosen # 0
    BY <2>1, <1>1, <1>3
  <2>2. CASE f.chosen = 0
    BY <2>2, <1>1, <1>3
  <2> QED BY <2>1, <2>2
<1>6. FinalSound(p, hs, f)
  BY <1>1, <1>2, <1>3, <1>5 DEF FinalSound
<1> QED BY <1>1, <1>4, <1>6 DEF Sound, hs, p

(* The rows of a loop that runs, in the middle of a step.                  *)
Going(r, ts, f) ==
    /\ TrySound(ts)
    /\ r \in LoopRow /\ r.status = "running" /\ ~r.consulted /\ ~r.cancel
    /\ r.incumbent # 0 => ts[r.incumbent].status = "accepted"
    /\ f \in FinalRow /\ f.attempts = 0 /\ f.chosen = 0 /\ f.job \notin Active
    /\ ~f.looked /\ f.looks = 0

LEMMA GoingSound ==
    ASSUME NEW r, NEW ts, NEW f, Going(r, ts, f)
    PROVE  /\ Sound(r, ts, f)
           /\ \A s \in Terminal : Sound([r EXCEPT !.status = s], Halted(ts), f)
           /\ r.incumbent # 0 =>
                  Sound([r EXCEPT !.status = "waiting", !.overdue = FALSE], Halted(ts), f)
<1>1. Sound(r, ts, f)
  BY DEF Going, Sound, RunSound, FinalSound
<1>2. ASSUME NEW s \in Terminal
      PROVE  Sound([r EXCEPT !.status = s], Halted(ts), f)
  BY EndSound DEF Going
<1>3. ASSUME r.incumbent # 0
      PROVE  Sound([r EXCEPT !.status = "waiting", !.overdue = FALSE], Halted(ts), f)
  <2>1. f.attempts < MaxFinal
    BY ImproveAssumption DEF ImproveAssumption, Going
  <2> QED BY <1>3, <2>1, WaitSound DEF Going
<1> QED BY <1>1, <1>2, <1>3

(* A loop that is queued or running is Going, once a step has begun.       *)
Begun(r) == [r EXCEPT !.status = "running", !.errors = 0]

LEMMA Begins ==
    ASSUME NEW r, NEW ts, NEW f, Sound(r, ts, f), r.status \in {"queued", "running"}
    PROVE  /\ Going(Begun(r), ts, f)
           /\ Begun(r).cont = r.cont
           /\ Begun(r).incumbent = r.incumbent
           /\ r.status = "queued" =>
                  r.incumbent = 0 /\ \A t \in Try : ts[t].status # "running"
<1> DEFINE q == Begun(r)
<1>0. r \in LoopRow
  BY DEF Sound, RunSound
<1>1. /\ q \in LoopRow /\ q.status = "running" /\ q.incumbent = r.incumbent
      /\ q.consulted = r.consulted /\ q.cancel = r.cancel /\ q.cont = r.cont
  <2>1. 0 \in 0 .. MaxStepErrors
    BY ImproveAssumption DEF ImproveAssumption
  <2>2. "running" \in Status
    BY DEF Status, Live
  <2> QED BY <1>0, <2>1, <2>2 DEF LoopRow, Begun
<1> HIDE DEF q
<1>2. ~r.consulted /\ ~r.cancel
  BY DEF Sound, RunSound
<1>3. /\ f \in FinalRow /\ f.attempts = 0 /\ f.chosen = 0 /\ f.job \notin Active
      /\ ~f.looked /\ f.looks = 0
  BY DEF Sound, FinalSound
<1>4. r.status = "queued" => r.incumbent = 0 /\ \A t \in Try : ts[t].status # "running"
  BY DEF Sound, RunSound, LiveTry
<1>5. Going(q, ts, f)
  BY <1>1, <1>2, <1>3 DEF Going, Sound, RunSound
<1> QED BY <1>1, <1>4, <1>5 DEF q

(* A loop that runs follows its rows, whichever way it goes.               *)
LEMMA GoingFollows ==
    ASSUME Inv, NEW l \in Loop, loop[l].status \in {"queued", "running"},
           NEW r, NEW ts, Going(r, ts, final[l]),
           \A t \in Try : try[l][t].status \in Done => ts[t].status = try[l][t].status
    PROVE  /\ Follows(l, r, ts, final[l])
           /\ \A s \in Terminal : Follows(l, [r EXCEPT !.status = s], Halted(ts), final[l])
           /\ loop[l].status = "running" =>
                  Follows(l, [r EXCEPT !.status = "waiting", !.overdue = FALSE],
                          Halted(ts), final[l])
<1>1. ~loop[l].consulted /\ loop[l].status \notin Terminal
  BY DEF Inv, LoopsSound, Sound, RunSound, Terminal
<1>2. r.status = "running" /\ r \in LoopRow /\ TrySound(ts)
  BY DEF Going
<1>3. \A t \in Try : try[l][t].status \in Done => Halted(ts)[t].status = try[l][t].status
  BY <1>2, HaltedSound
<1>4. final[l].attempts \in {final[l].attempts, final[l].attempts + 1}
  OBVIOUS
<1>5. Follows(l, r, ts, final[l])
  BY <1>1, <1>2, <1>4 DEF Follows, Transition
<1>6. ASSUME NEW s \in Terminal
      PROVE  Follows(l, [r EXCEPT !.status = s], Halted(ts), final[l])
  <2> DEFINE p == [r EXCEPT !.status = s]
  <2>1. p.status = s
    BY <1>2 DEF LoopRow
  <2> HIDE DEF p
  <2>2. Follows(l, p, Halted(ts), final[l])
    BY <2>1, <1>1, <1>3, <1>4 DEF Follows, Transition
  <2> QED BY <2>2 DEF p
<1>7. ASSUME loop[l].status = "running"
      PROVE  Follows(l, [r EXCEPT !.status = "waiting", !.overdue = FALSE], Halted(ts), final[l])
  <2> DEFINE p == [r EXCEPT !.status = "waiting", !.overdue = FALSE]
  <2>1. p.status = "waiting"
    BY <1>2 DEF LoopRow
  <2> HIDE DEF p
  <2>2. Follows(l, p, Halted(ts), final[l])
    BY <2>1, <1>1, <1>3, <1>4, <1>7 DEF Follows, Transition
  <2> QED BY <2>2 DEF p
<1> QED BY <1>5, <1>6, <1>7

-----------------------------------------------------------------------------
(* The queue and its workers.                                              *)

(* The queue moves the job j; no loop is stranded by it.                   *)
LEMMA QueueMoves ==
    ASSUME Inv, NEW j \in Job, UNCHANGED <<loop, try, final, inRow>>,
           NEW q \in StepJob, job' = [job EXCEPT ![j] = q],
           q.loop = job[j].loop,
           q.status = "queued" => q.attempts < MaxAttempts,
           owed \subseteq owed', owed' \subseteq owed \cup {j},
           \/ q.status \in Active
           \/ q.status = "failed" /\ j \in owed'
           \/ \A l \in Loop : loop[l].cont # j,
           worker' \in [Worker -> [pc : {"idle", "step", "propose", "done"},
                                   job : Job \cup {NoJob}]],
           \A w \in Worker : worker'[w].pc = "idle" <=> worker'[w].job = NoJob,
           \A w \in Worker : worker'[w].pc \in {"propose", "done"} => worker'[w] = worker[w]
    PROVE  Inv' /\ Accepted
<1> JobsOK /\ JobsSound
  BY TypeParts DEF Inv
<1>1. /\ \A i \in Job : job'[i] = IF i = j THEN q ELSE job[i]
      /\ \A i \in Job : job'[i].loop = job[i].loop
  BY DEF JobsOK
<1>2. JobsOK'
  BY DEF JobsOK
<1>3. ASSUME NEW w \in Worker, NEW l \in Loop, At(w, "propose")', MayStep(w, l)'
      PROVE  At(w, "propose") /\ MayStep(w, l)
  <2>1. worker'[w] = worker[w]
    BY <1>3 DEF At
  <2> QED BY <1>1, <1>2, <1>3, <2>1 DEF At, MayStep, JobsOK
<1>4. ASSUME "lost_hook" \notin Faults, NEW l \in Loop, loop[l].status \in Live
      PROVE  \E i \in Job : /\ loop[l].cont = i
                            /\ job'[i].loop = l
                            /\ \/ job'[i].status \in Active
                               \/ job'[i].status = "failed" /\ i \in owed'
  <2>1. PICK i \in Job : /\ loop[l].cont = i
                         /\ job[i].loop = l
                         /\ \/ job[i].status \in Active
                            \/ job[i].status = "failed" /\ i \in owed
    BY <1>4 DEF JobsSound, NeverStranded
  <2>2. CASE i = j
    BY <2>1, <2>2, <1>1
  <2>3. CASE i # j
    BY <2>1, <2>3, <1>1
  <2> QED BY <2>2, <2>3
<1>5. "lost_hook" \notin Faults => NeverStranded'
  BY <1>4 DEF NeverStranded
<1>6. \A i \in Job : job'[i].status = "queued" => job'[i].attempts < MaxAttempts
  BY <1>1 DEF JobsSound
<1>7. \A l \in Loop : loop[l].status \in Live =>
          \E i \in Job : loop[l].cont = i /\ job'[i].loop = l
  BY <1>1 DEF JobsSound
<1>8. JobsSound'
  BY <1>5, <1>6, <1>7 DEF JobsSound
<1> QED BY <1>2, <1>3, <1>8, Elsewhere

LEMMA FailureMoves ==
    ASSUME Inv, NEW j \in Job, Failure(j), UNCHANGED <<loop, try, final, inRow>>,
           worker' \in [Worker -> [pc : {"idle", "step", "propose", "done"},
                                   job : Job \cup {NoJob}]],
           \A w \in Worker : worker'[w].pc = "idle" <=> worker'[w].job = NoJob,
           \A w \in Worker : worker'[w].pc \in {"propose", "done"} => worker'[w] = worker[w]
    PROVE  Inv' /\ Accepted
<1>0. job[j] \in StepJob
  BY DEF Inv, TypeOK
<1>1. CASE job[j].attempts < MaxAttempts
  <2> DEFINE q == [job[j] EXCEPT !.status = "queued"]
  <2>1. job' = [job EXCEPT ![j] = q] /\ owed' = owed
    BY <1>1 DEF Failure
  <2>2. /\ q \in StepJob /\ q.loop = job[j].loop /\ q.status = "queued"
        /\ q.attempts < MaxAttempts
    BY <1>0, <1>1 DEF StepJob
  <2>3. q.status \in Active
    BY <2>2 DEF Active
  <2> HIDE DEF q
  <2> QED BY <2>1, <2>2, <2>3, QueueMoves
<1>2. CASE ~(job[j].attempts < MaxAttempts)
  <2> DEFINE q == [job[j] EXCEPT !.status = "failed"]
  <2>1. job' = [job EXCEPT ![j] = q] /\ owed' = owed \cup {j}
    BY <1>2 DEF Failure
  <2>2. q \in StepJob /\ q.loop = job[j].loop /\ q.status = "failed"
    BY <1>0 DEF StepJob
  <2> HIDE DEF q
  <2> QED BY <2>1, <2>2, QueueMoves
<1> QED BY <1>1, <1>2

(* A worker lets its job go.                                               *)
LEMMA WorkerIdle ==
    ASSUME Inv, NEW w \in Worker,
           worker' = [worker EXCEPT ![w] = [pc |-> "idle", job |-> NoJob]]
    PROVE  /\ worker' \in [Worker -> [pc : {"idle", "step", "propose", "done"},
                                      job : Job \cup {NoJob}]]
           /\ \A v \in Worker : worker'[v].pc = "idle" <=> worker'[v].job = NoJob
           /\ \A v \in Worker : worker'[v].pc \in {"propose", "done"} => worker'[v] = worker[v]
<1>1. \A v \in Worker : worker'[v] = IF v = w THEN [pc |-> "idle", job |-> NoJob] ELSE worker[v]
  BY DEF Inv, TypeOK
<1>2. worker' \in [Worker -> [pc : {"idle", "step", "propose", "done"}, job : Job \cup {NoJob}]]
  BY DEF Inv, TypeOK
<1> QED BY <1>1, <1>2 DEF Inv, JobsSound

LEMMA ClaimStep ==
    ASSUME Inv, NEW w \in Worker, NEW j \in Job, Claim(w, j)
    PROVE  Inv' /\ Accepted
<1> DEFINE q == [job[j] EXCEPT !.status = "running", !.attempts = @ + 1]
<1>1. job[j] \in StepJob /\ job[j].attempts < MaxAttempts
  BY DEF Claim, Inv, TypeOK, JobsSound
<1>2. /\ q.loop = job[j].loop /\ q.status = "running" /\ q.attempts = job[j].attempts + 1
  BY <1>1 DEF StepJob
<1>3. job[j].attempts + 1 \in 0 .. MaxAttempts
  BY <1>1, ImproveAssumption DEF ImproveAssumption, StepJob
<1>4. q \in StepJob
  BY <1>1, <1>3 DEF StepJob
<1>5. job' = [job EXCEPT ![j] = q]
  BY DEF Claim
<1>6. \A v \in Worker : worker'[v] = IF v = w THEN [pc |-> "step", job |-> j] ELSE worker[v]
  BY DEF Claim, Inv, TypeOK
<1>7. worker' \in [Worker -> [pc : {"idle", "step", "propose", "done"}, job : Job \cup {NoJob}]]
  BY DEF Claim, Inv, TypeOK
<1>8. /\ \A v \in Worker : worker'[v].pc = "idle" <=> worker'[v].job = NoJob
      /\ \A v \in Worker : worker'[v].pc \in {"propose", "done"} => worker'[v] = worker[v]
  BY <1>6, ImproveAssumption DEF ImproveAssumption, Inv, JobsSound
<1>9. q.status \in Active
  BY <1>2 DEF Active
<1>10. UNCHANGED <<loop, try, final, inRow>> /\ owed' = owed
  BY DEF Claim
<1> HIDE DEF q
<1> QED BY <1>2, <1>4, <1>5, <1>7, <1>8, <1>9, <1>10, QueueMoves

LEMMA HandlerFailsStep ==
    ASSUME Inv, NEW w \in Worker, HandlerFails(w)
    PROVE  Inv' /\ Accepted
<1>1. worker[w].job \in Job
  BY DEF HandlerFails, Inv, TypeOK, JobsSound
<1>2. /\ Failure(worker[w].job) /\ UNCHANGED <<loop, try, final, inRow>>
      /\ worker' = [worker EXCEPT ![w] = [pc |-> "idle", job |-> NoJob]]
  BY DEF HandlerFails
<1> QED BY <1>1, <1>2, WorkerIdle, FailureMoves

LEMMA RecoverStep ==
    ASSUME Inv, NEW j \in Job, Recover(j)
    PROVE  Inv' /\ Accepted
<1>1. Failure(j) /\ UNCHANGED <<loop, try, final, inRow>> /\ worker' = worker
  BY DEF Recover
<1>2. /\ worker \in [Worker -> [pc : {"idle", "step", "propose", "done"},
                                job : Job \cup {NoJob}]]
      /\ \A w \in Worker : worker[w].pc = "idle" <=> worker[w].job = NoJob
  BY DEF Inv, TypeOK, JobsSound
<1> QED BY <1>1, <1>2, FailureMoves

LEMMA ReturnStep ==
    ASSUME Inv, NEW w \in Worker, Return(w)
    PROVE  Inv' /\ Accepted
<1> DEFINE j == worker[w].job
           q == [job[j] EXCEPT !.status = "ended"]
<1>1. j \in Job
  BY DEF Return, Inv, TypeOK, JobsSound
<1>2. job[j] \in StepJob
  BY <1>1 DEF Inv, TypeOK
<1>3. q \in StepJob /\ q.loop = job[j].loop /\ q.status = "ended"
  BY <1>2 DEF StepJob
<1>4. \A l \in Loop : loop[l].cont # j
  BY DEF Return, Inv, JobsSound
<1>5. /\ job' = [job EXCEPT ![j] = q] /\ owed' = owed
      /\ UNCHANGED <<loop, try, final, inRow>>
      /\ worker' = [worker EXCEPT ![w] = [pc |-> "idle", job |-> NoJob]]
  BY DEF Return
<1> HIDE DEF j, q
<1> QED BY <1>1, <1>3, <1>4, <1>5, WorkerIdle, QueueMoves

LEMMA CrashStep ==
    ASSUME Inv, NEW w \in Worker, Crash(w)
    PROVE  Inv' /\ Accepted
<1>1. /\ UNCHANGED <<loop, try, final, job, owed, inRow>>
      /\ worker' = [worker EXCEPT ![w] = [pc |-> "idle", job |-> NoJob]]
  BY DEF Crash
<1>2. /\ worker' \in [Worker -> [pc : {"idle", "step", "propose", "done"},
                                 job : Job \cup {NoJob}]]
      /\ \A v \in Worker : worker'[v].pc = "idle" <=> worker'[v].job = NoJob
      /\ \A v \in Worker : worker'[v].pc \in {"propose", "done"} => worker'[v] = worker[v]
  BY <1>1, WorkerIdle
<1>3. JobsOK'
  BY <1>1, <1>2 DEF JobsOK, Inv, TypeOK
<1>4. JobsSound'
  BY <1>1, <1>2 DEF JobsSound, Inv, NeverStranded
<1>5. ASSUME NEW v \in Worker, NEW l \in Loop, At(v, "propose")', MayStep(v, l)'
      PROVE  At(v, "propose") /\ MayStep(v, l)
  <2>1. worker'[v] = worker[v]
    BY <1>2, <1>5 DEF At
  <2> QED BY <1>1, <1>5, <2>1 DEF At, MayStep
<1> QED BY <1>1, <1>3, <1>4, <1>5, Elsewhere

LEMMA MissStep ==
    ASSUME Inv, NEW w \in Worker, Miss(w)
    PROVE  Inv' /\ Accepted
<1>1. ASSUME NEW l \in Loop PROVE loop[l].cont # worker[w].job
  <2>1. worker[w].job # NoJob
    BY DEF Miss, At, Inv, JobsSound
  <2>2. SUFFICES ASSUME loop[l].cont = worker[w].job PROVE FALSE
    OBVIOUS
  <2>3. MayStep(w, l)
    BY <2>1, <2>2 DEF MayStep, Inv, JobsSound
  <2> QED BY <2>3 DEF Miss, Inv, ProposeReady, Ready
<1>2. /\ UNCHANGED <<loop, try, final, job, owed, inRow>>
      /\ worker' = [worker EXCEPT ![w] = [worker[w] EXCEPT !.pc = "done"]]
      /\ worker[w].pc # "idle"
  BY DEF Miss, Goes, At
<1>3. worker[w] \in [pc : {"idle", "step", "propose", "done"}, job : Job \cup {NoJob}]
  BY DEF Inv, TypeOK
<1>4. /\ [worker[w] EXCEPT !.pc = "done"] \in [pc : {"idle", "step", "propose", "done"},
                                               job : Job \cup {NoJob}]
      /\ [worker[w] EXCEPT !.pc = "done"].pc = "done"
      /\ [worker[w] EXCEPT !.pc = "done"].job = worker[w].job
  BY <1>3
<1>5. \A v \in Worker : worker'[v] = IF v = w THEN [worker[w] EXCEPT !.pc = "done"] ELSE worker[v]
  BY <1>2 DEF Inv, TypeOK
<1>6. JobsOK'
  BY <1>2, <1>4 DEF JobsOK, Inv, TypeOK
<1>7. /\ \A v \in Worker : worker'[v].pc = "idle" <=> worker'[v].job = NoJob
      /\ \A v \in Worker : worker'[v].pc = "done" =>
             \A l \in Loop : loop[l].cont # worker'[v].job
      /\ \A v \in Worker : worker'[v].pc = "propose" => worker'[v] = worker[v]
  BY <1>1, <1>2, <1>4, <1>5 DEF Inv, JobsSound
<1>8. JobsSound'
  BY <1>2, <1>7 DEF JobsSound, Inv, NeverStranded
<1>9. ASSUME NEW v \in Worker, NEW l \in Loop, At(v, "propose")', MayStep(v, l)'
      PROVE  At(v, "propose") /\ MayStep(v, l)
  <2>1. worker'[v] = worker[v]
    BY <1>7, <1>9 DEF At
  <2> QED BY <1>2, <1>9, <2>1 DEF At, MayStep
<1> QED BY <1>2, <1>6, <1>8, <1>9, Elsewhere

LEMMA LoseHookStep ==
    ASSUME Inv, NEW j \in Job, LoseHook(j)
    PROVE  Inv' /\ Accepted
<1>1. /\ UNCHANGED <<loop, try, final, job, worker, inRow>>
      /\ owed' \subseteq owed /\ "lost_hook" \in Faults
  BY DEF LoseHook
<1>2. JobsOK'
  BY <1>1 DEF JobsOK, Inv, TypeOK
<1>3. JobsSound'
  BY <1>1 DEF JobsSound, Inv
<1>4. ASSUME NEW w \in Worker, NEW l \in Loop, At(w, "propose")', MayStep(w, l)'
      PROVE  At(w, "propose") /\ MayStep(w, l)
  BY <1>1, <1>4 DEF At, MayStep
<1> QED BY <1>1, <1>2, <1>3, <1>4, Elsewhere

-----------------------------------------------------------------------------
(* Steps of a loop that is armed again as it is, or ends.                  *)

LEMMA SameRows ==
    ASSUME Inv, NEW l \in Loop
    PROVE  /\ loop = [loop EXCEPT ![l] = loop[l]]
           /\ try = [try EXCEPT ![l] = try[l]]
           /\ final = [final EXCEPT ![l] = final[l]]
           /\ loop[l] \in LoopRow /\ try[l] \in [Try -> TryRow] /\ final[l] \in FinalRow
           /\ Sound(loop[l], try[l], final[l])
BY DEF Inv, TypeOK, LoopsSound

LEMMA StepMoves ==
    ASSUME Inv, NEW l \in Loop, NEW w \in Worker, MayStep(w, l), Goes(w, "done")
    PROVE  Moves(l, "done")
BY DEF Moves

LEMMA InRowMoves ==
    ASSUME Inv, NEW l \in Loop,
           \/ inRow' = inRow
           \/ inRow' = [inRow EXCEPT ![l] = 0]
           \/ inRow' = [inRow EXCEPT ![l] = More(@)]
    PROVE  inRow' \in [Loop -> 0 .. MaxStepErrors]
<1>1. 0 \in 0 .. MaxStepErrors /\ More(inRow[l]) \in 0 .. MaxStepErrors
  BY ImproveAssumption DEF ImproveAssumption, More, Inv, TypeOK
<1> QED BY <1>1 DEF Inv, TypeOK

LEMMA LiveRow ==
    ASSUME Inv, NEW l \in Loop, loop[l].status \in Live
    PROVE  ~loop[l].consulted /\ loop[l].status \notin Terminal
BY DEF Inv, LoopsSound, Sound, RunSound, Live, Terminal

(* A row that differs in its errors, its deadline or its continuation.     *)
LEMMA AsItIs ==
    ASSUME Inv, NEW l \in Loop, loop[l].status \in Live, NEW r \in LoopRow,
           r.status = loop[l].status, r.incumbent = loop[l].incumbent,
           r.consulted = loop[l].consulted, r.cancel = loop[l].cancel
    PROVE  /\ Sound(r, try[l], final[l])
           /\ Follows(l, r, try[l], final[l])
           /\ MayHold(l, r)
<1>1. Sound(loop[l], try[l], final[l])
  BY SameRows
<1>2. Sound(r, try[l], final[l])
  BY <1>1 DEF Sound, RunSound, FinalSound
<1>3. Follows(l, r, try[l], final[l])
  BY LiveRow DEF Follows
<1> QED BY <1>2, <1>3 DEF MayHold

LEMMA EndFollows ==
    ASSUME Inv, NEW l \in Loop, loop[l].status \in Live, NEW r \in LoopRow, NEW s \in Terminal
    PROVE  Follows(l, [r EXCEPT !.status = s], Halted(try[l]), final[l])
<1> DEFINE p == [r EXCEPT !.status = s]
<1>1. p.status = s
  BY DEF LoopRow
<1>2. \A t \in Try : try[l][t].status \in Done => Halted(try[l])[t].status = try[l][t].status
  BY SameRows, HaltedSound DEF Sound
<1>3. <<loop[l].status, s>> \in Transition
  BY DEF Transition, Live
<1> HIDE DEF p
<1>4. Follows(l, p, Halted(try[l]), final[l])
  BY <1>1, <1>2, <1>3, LiveRow DEF Follows
<1> QED BY <1>4 DEF p

LEMMA FailedSound ==
    ASSUME Inv, NEW l \in Loop, loop[l].status \in Live, NEW r \in LoopRow,
           r.incumbent = loop[l].incumbent,
           r.consulted = loop[l].consulted, r.cancel = loop[l].cancel
    PROVE  Sound([r EXCEPT !.status = "failed"], Halted(try[l]), final[l])
<1>1. Sound(loop[l], try[l], final[l])
  BY SameRows
<1>2. ~r.consulted
  BY LiveRow
<1>3. "failed" \in Terminal
  BY DEF Terminal
<1>4. TrySound(try[l]) /\ final[l] \in FinalRow
  BY <1>1 DEF Sound, FinalSound
<1>5. /\ r.incumbent # 0 => try[l][r.incumbent].status = "accepted"
      /\ final[l].looks = IF final[l].looked THEN 1 ELSE 0
      /\ final[l].chosen # 0 => try[l][final[l].chosen].status = "accepted"
      /\ final[l].job \in Active \/ final[l].looked => final[l].chosen # 0
  BY <1>1 DEF Sound, RunSound, FinalSound
<1> QED BY <1>2, <1>3, <1>4, <1>5, EndSound

LEMMA Raised ==
    ASSUME NEW r \in LoopRow
    PROVE  LET q == [r EXCEPT !.errors = More(@)]
           IN  /\ q \in LoopRow
               /\ q.status = r.status /\ q.incumbent = r.incumbent
               /\ q.consulted = r.consulted /\ q.cancel = r.cancel
<1>1. More(r.errors) \in 0 .. MaxStepErrors
  BY ImproveAssumption DEF ImproveAssumption, More, LoopRow
<1> QED BY <1>1 DEF LoopRow

(* _record_step_error and on_job_terminal.                                 *)
LEMMA ErrorMoves ==
    ASSUME Inv, NEW l \in Loop, loop[l].status \in Live, NEW keep, NEW r,
           r = [loop[l] EXCEPT !.errors = More(@)],
           \/ Finish(l, keep, r, "failed", try[l])
           \/ Arm(l, keep, r) /\ UNCHANGED try,
           UNCHANGED final,
           Moves(l, "done"), OwedMoves(l), inRow' \in [Loop -> 0 .. MaxStepErrors]
    PROVE  Inv' /\ Accepted
<1>1. /\ r \in LoopRow /\ r.status = loop[l].status /\ r.incumbent = loop[l].incumbent
      /\ r.consulted = loop[l].consulted /\ r.cancel = loop[l].cancel
  BY Raised, SameRows
<1>2. final' = [final EXCEPT ![l] = final[l]]
  BY SameRows
<1>3. loop[l].status \notin Terminal
  BY LiveRow
<1>4. CASE Finish(l, keep, r, "failed", try[l])
  <2>1. "failed" \in Terminal
    BY DEF Terminal
  <2>2. /\ Sound([r EXCEPT !.status = "failed"], Halted(try[l]), final[l])
        /\ Follows(l, [r EXCEPT !.status = "failed"], Halted(try[l]), final[l])
    BY <1>1, <2>1, FailedSound, EndFollows
  <2> QED BY <1>1, <1>2, <1>3, <1>4, <2>1, <2>2, Finished
<1>5. CASE Arm(l, keep, r) /\ UNCHANGED try
  <2>1. Sound(r, try[l], final[l]) /\ Follows(l, r, try[l], final[l]) /\ MayHold(l, r)
    BY <1>1, AsItIs
  <2>2. try' = [try EXCEPT ![l] = try[l]]
    BY <1>5, SameRows
  <2> QED BY <1>1, <1>2, <1>3, <1>5, <2>1, <2>2, Rearmed
<1> QED BY <1>4, <1>5

LEMMA StepRaisesStep ==
    ASSUME Inv, NEW w \in Worker, NEW l \in Loop, StepRaises(w, l)
    PROVE  Inv' /\ Accepted
<1> DEFINE r == [loop[l] EXCEPT !.errors = More(@)]
<1>1. \/ Finish(l, worker[w].job, r, "failed", try[l])
      \/ Arm(l, worker[w].job, r) /\ UNCHANGED try
  BY DEF StepRaises
<1>2. UNCHANGED final /\ loop[l].status \in Live
  BY DEF StepRaises, MayStep
<1>3. Moves(l, "done") /\ OwedMoves(l)
  BY DEF StepRaises, Moves, OwedMoves
<1>4. inRow' \in [Loop -> 0 .. MaxStepErrors]
  BY InRowMoves DEF StepRaises
<1> QED BY <1>1, <1>2, <1>3, <1>4, ErrorMoves

LEMMA HookStep ==
    ASSUME Inv, NEW j \in Job, Hook(j)
    PROVE  Inv' /\ Accepted
<1> DEFINE l == job[j].loop
           r == [loop[l] EXCEPT !.errors = More(@)]
<1>1. l \in Loop
  BY DEF Inv, TypeOK, StepJob
<1>2. /\ owed' = owed \ {j} /\ UNCHANGED <<final, worker, inRow>>
      /\ inRow' \in [Loop -> 0 .. MaxStepErrors]
  BY DEF Hook, Inv, TypeOK
<1>3. CASE Heard(l, j)
  <2>1. \/ Finish(l, NoJob, r, "failed", try[l])
        \/ Arm(l, NoJob, r) /\ UNCHANGED try
    BY <1>3 DEF Hook
  <2>2. Moves(l, "done") /\ OwedMoves(l) /\ loop[l].status \in Live
    BY <1>2, <1>3 DEF Moves, OwedMoves, Heard
  <2> HIDE DEF l
  <2> QED BY <1>1, <1>2, <2>1, <2>2, ErrorMoves
<1>4. CASE ~Heard(l, j)
  <2>1. UNCHANGED <<loop, try, job>>
    BY <1>4 DEF Hook
  <2>2. JobsOK'
    BY <1>2, <2>1 DEF JobsOK, Inv, TypeOK
  <2>3. "lost_hook" \notin Faults => NeverStranded'
    <3> SUFFICES ASSUME "lost_hook" \notin Faults, NEW m \in Loop, loop[m].status \in Live
                 PROVE  \E i \in Job : /\ loop[m].cont = i
                                       /\ job[i].loop = m
                                       /\ \/ job[i].status \in Active
                                          \/ job[i].status = "failed" /\ i \in owed'
      BY <2>1 DEF NeverStranded
    <3>1. PICK i \in Job : /\ loop[m].cont = i
                           /\ job[i].loop = m
                           /\ \/ job[i].status \in Active
                              \/ job[i].status = "failed" /\ i \in owed
      BY DEF Inv, JobsSound, NeverStranded
    <3>2. CASE i = j
      BY <3>1, <3>2, <1>4 DEF Heard
    <3>3. CASE i # j
      BY <3>1, <3>3, <1>2
    <3> QED BY <3>2, <3>3
  <2>4. JobsSound'
    BY <1>2, <2>1, <2>3 DEF JobsSound, Inv
  <2>5. ASSUME NEW w \in Worker, NEW m \in Loop, At(w, "propose")', MayStep(w, m)'
        PROVE  At(w, "propose") /\ MayStep(w, m)
    BY <1>2, <2>1, <2>5 DEF At, MayStep
  <2> QED BY <1>2, <2>1, <2>2, <2>4, <2>5, Elsewhere
<1> QED BY <1>3, <1>4

LEMMA StepWaitingStep ==
    ASSUME Inv, NEW w \in Worker, NEW l \in Loop, MayStep(w, l), StepWaiting(w, l),
           UNCHANGED <<final, owed>>
    PROVE  Inv' /\ Accepted
<1>1. /\ Moves(l, "done") /\ OwedMoves(l) /\ loop[l].status = "waiting"
      /\ loop[l].status \in Live
  BY DEF StepWaiting, Succeeds, Moves, OwedMoves, MayStep
<1>2. inRow' \in [Loop -> 0 .. MaxStepErrors]
  BY InRowMoves DEF StepWaiting, Succeeds
<1>3. /\ final' = [final EXCEPT ![l] = final[l]] /\ loop[l] \in LoopRow
      /\ loop[l].status \notin Terminal
  BY <1>1, SameRows, LiveRow
<1>4. CASE loop[l].overdue
  <2>1. Finish(l, worker[w].job, loop[l], "completed", try[l])
    BY <1>4 DEF StepWaiting
  <2>2. "completed" \in Terminal
    BY DEF Terminal
  <2>3. TrySound(try[l]) /\ final[l] \in FinalRow
    BY SameRows DEF Sound, FinalSound
  <2>4. /\ ~loop[l].consulted /\ ~loop[l].cancel
        /\ ~final[l].looked /\ final[l].looks = 0 /\ final[l].job \notin Active
        /\ final[l].chosen # 0 => try[l][final[l].chosen].status = "accepted"
        /\ loop[l].incumbent # 0 => try[l][loop[l].incumbent].status = "accepted"
    BY <1>1, SameRows DEF Sound, RunSound, FinalSound
  <2>5. Sound([loop[l] EXCEPT !.status = "completed"], Halted(try[l]), final[l])
    BY <1>3, <2>2, <2>3, <2>4, EndSound
  <2>6. Follows(l, [loop[l] EXCEPT !.status = "completed"], Halted(try[l]), final[l])
    BY <1>1, <1>3, <2>2, EndFollows
  <2> QED BY <1>1, <1>2, <1>3, <2>1, <2>2, <2>5, <2>6, Finished
<1>5. CASE ~loop[l].overdue
  <2>1. Arm(l, worker[w].job, loop[l]) /\ try' = [try EXCEPT ![l] = try[l]]
    BY <1>5, SameRows DEF StepWaiting
  <2>2. /\ Sound(loop[l], try[l], final[l]) /\ Follows(l, loop[l], try[l], final[l])
        /\ MayHold(l, loop[l])
    BY <1>1, <1>3, AsItIs
  <2> QED BY <1>1, <1>2, <1>3, <2>1, <2>2, Rearmed
<1> QED BY <1>4, <1>5

LEMMA StepFinalizingStep ==
    ASSUME Inv, NEW w \in Worker, NEW l \in Loop, MayStep(w, l), StepFinalizing(w, l),
           UNCHANGED <<final, owed>>
    PROVE  Inv' /\ Accepted
<1> DEFINE keep == worker[w].job
           f == final[l]
           after == AfterFinal(loop[l], f)
           r == [loop[l] EXCEPT !.consulted = @ \/ Looked(f)]
<1>1. /\ Moves(l, "done") /\ OwedMoves(l) /\ loop[l].status = "finalizing"
      /\ loop[l].status \in Live
  BY DEF StepFinalizing, Succeeds, Moves, OwedMoves, MayStep
<1>2. inRow' \in [Loop -> 0 .. MaxStepErrors]
  BY InRowMoves DEF StepFinalizing, Succeeds
<1>3. /\ final' = [final EXCEPT ![l] = f] /\ loop[l] \in LoopRow
      /\ loop[l].status \notin Terminal /\ ~loop[l].consulted
  BY <1>1, SameRows, LiveRow
<1>4. /\ TrySound(try[l]) /\ f \in FinalRow
      /\ f.looks = IF f.looked THEN 1 ELSE 0
      /\ f.chosen # 0 /\ try[l][f.chosen].status = "accepted"
      /\ loop[l].incumbent # 0 => try[l][loop[l].incumbent].status = "accepted"
  BY <1>1, SameRows DEF Sound, RunSound, FinalSound
<1>5. CASE f.job \in Active /\ Arm(l, keep, loop[l]) /\ UNCHANGED try
  <2>1. try' = [try EXCEPT ![l] = try[l]]
    BY <1>5, SameRows
  <2>2. /\ Sound(loop[l], try[l], final[l]) /\ Follows(l, loop[l], try[l], final[l])
        /\ MayHold(l, loop[l])
    BY <1>1, <1>3, AsItIs
  <2> QED BY <1>1, <1>2, <1>3, <1>5, <2>1, <2>2, Rearmed
<1>6. CASE f.job \notin Active
           /\ IF after = "waiting" THEN WaitForPerson(l, keep, r, try[l])
              ELSE Finish(l, keep, r, after, try[l])
  <2>1. f.looked \in BOOLEAN /\ (loop[l].consulted \/ Looked(f)) \in BOOLEAN
    BY <1>4 DEF FinalRow, Looked
  <2>2. /\ r \in LoopRow /\ r.incumbent = loop[l].incumbent /\ r.cancel = loop[l].cancel
        /\ r.status = loop[l].status /\ r.consulted = (loop[l].consulted \/ Looked(f))
    BY <1>3, <2>1 DEF LoopRow
  <2>3. r.consulted = f.looked
    BY <1>3, <2>1, <2>2 DEF Looked
  <2>4. \/ after = "completed" /\ f.looked
        \/ after = "cancelled" /\ ~f.looked /\ loop[l].cancel
        \/ after = "failed" /\ ~f.looked /\ ~loop[l].cancel
        \/ after = "waiting" /\ ~f.looked /\ ~loop[l].cancel /\ ~(f.attempts >= MaxFinal)
    BY <2>1 DEF AfterFinal, Looked
  <2> HIDE DEF r, after
  <2>5. CASE after = "waiting"
    <3> DEFINE p == [r EXCEPT !.status = "waiting", !.overdue = FALSE]
    <3>1. Arm(l, keep, p) /\ try' = [try EXCEPT ![l] = Halted(try[l])]
      BY <1>6, <2>5 DEF WaitForPerson
    <3>2. f.attempts < MaxFinal
      BY <1>4, <2>4, <2>5, ImproveAssumption DEF ImproveAssumption, FinalRow
    <3>3. Sound(p, Halted(try[l]), f)
      BY <1>4, <1>6, <2>2, <2>3, <2>4, <2>5, <3>2, WaitSound
    <3>4. p.status = "waiting"
      BY <2>2 DEF LoopRow
    <3>5. \A t \in Try : try[l][t].status \in Done =>
              Halted(try[l])[t].status = try[l][t].status
      BY <1>4, HaltedSound
    <3> HIDE DEF p
    <3>6. Follows(l, p, Halted(try[l]), f) /\ MayHold(l, p) /\ p.status \in Live
      BY <1>1, <1>3, <3>4, <3>5 DEF Follows, Transition, MayHold, Capped, Live
    <3> HIDE DEF keep, f
    <3> QED BY <1>1, <1>2, <1>3, <3>1, <3>3, <3>6, Rearmed
  <2>6. CASE after # "waiting"
    <3>1. Finish(l, keep, r, after, try[l])
      BY <1>6, <2>6
    <3>2. after \in Terminal
      BY <2>4, <2>6 DEF Terminal
    <3>3. Sound([r EXCEPT !.status = after], Halted(try[l]), f)
      BY <1>4, <1>6, <2>2, <2>3, <2>4, <2>6, <3>2, EndSound
    <3>4. Follows(l, [r EXCEPT !.status = after], Halted(try[l]), f)
      BY <1>1, <2>2, <3>2, EndFollows
    <3> HIDE DEF keep, f
    <3> QED BY <1>1, <1>2, <1>3, <2>2, <3>1, <3>2, <3>3, <3>4, Finished
  <2> QED BY <2>5, <2>6
<1> QED BY <1>5, <1>6 DEF StepFinalizing

-----------------------------------------------------------------------------
(* Steps of a loop that runs.                                              *)

(* One try becomes q.                                                      *)
LEMMA TryMoves ==
    ASSUME NEW ts, TrySound(ts), NEW t \in Try, NEW q \in TryRow,
           q.job \in Active /\ ~q.cancel => q.status = "running",
           q.job = "queued" => ~q.cancel,
           q.status = "running" => q.job # "none",
           LiveTry(q) => q.fails < MaxFailures,
           q.probes <= q.fails + 1,
           q.status \in {"open", "planned", "failed"} => q.probes <= q.fails,
           LiveTry(q) => \A u \in Try : LiveTry(ts[u]) => u = t
    PROVE  TrySound([ts EXCEPT ![t] = q])
<1> DEFINE us == [ts EXCEPT ![t] = q]
<1>1. /\ us \in [Try -> TryRow]
      /\ \A u \in Try : us[u] = IF u = t THEN q ELSE ts[u]
  BY DEF TrySound
<1> HIDE DEF us
<1>2. ASSUME NEW u \in Try
      PROVE  /\ us[u].job \in Active /\ ~us[u].cancel => us[u].status = "running"
             /\ us[u].job = "queued" => ~us[u].cancel
             /\ us[u].status = "running" => us[u].job # "none"
             /\ LiveTry(us[u]) => us[u].fails < MaxFailures
             /\ us[u].probes <= us[u].fails + 1
             /\ us[u].status \in {"open", "planned", "failed"} => us[u].probes <= us[u].fails
  <2>1. CASE u = t
    BY <2>1, <1>1
  <2>2. CASE u # t
    BY <2>2, <1>1 DEF TrySound
  <2> QED BY <2>1, <2>2
<1>3. ASSUME NEW u \in Try, NEW v \in Try, LiveTry(us[u]), LiveTry(us[v])
      PROVE  u = v
  BY <1>1, <1>3 DEF TrySound
<1> QED BY <1>1, <1>2, <1>3 DEF TrySound, us

LEMMA SettledRow ==
    ASSUME NEW r \in TryRow, NEW v \in TryStatus, r.fails < MaxFailures
    PROVE  /\ Settled(r, v) \in TryRow
           /\ Settled(r, v).status = v
           /\ Settled(r, v).job = r.job
           /\ Settled(r, v).cancel = r.cancel
           /\ Settled(r, v).probes = r.probes
           /\ Settled(r, v).fails = IF v = "failed" THEN r.fails + 1 ELSE r.fails
<1>1. (IF v = "failed" THEN r.fails + 1 ELSE r.fails) \in 0 .. MaxFailures
  BY ImproveAssumption DEF ImproveAssumption, TryRow
<1> QED BY <1>1 DEF Settled, TryRow

(* _settle keeps the tries sound, and leaves no probe that runs.           *)
SettledTries(ts, t, v) == [ts EXCEPT ![t] = Settled(@, v)]

LEMMA SettledSound ==
    ASSUME NEW ts, TrySound(ts), NEW t \in Try, ts[t].status = "running",
           ts[t].job \notin Active, NEW v \in Verdicts(ts[t].job)
    PROVE  LET us == SettledTries(ts, t, v)
           IN  /\ TrySound(us)
               /\ us[t].status = v
               /\ \A u \in Try : us[u].status # "running"
               /\ \A u \in Try : ts[u].status \in Done => us[u].status = ts[u].status
               /\ \A u \in Try : ts[u].status = "accepted" => us[u].status = "accepted"
<1> DEFINE q == Settled(ts[t], v)
           us == [ts EXCEPT ![t] = q]
<1>1. v \in {"accepted", "rejected", "cancelled", "failed"}
  BY DEF Verdicts
<1>2. /\ ts[t] \in TryRow /\ ts[t].fails < MaxFailures /\ ts[t].probes <= ts[t].fails + 1
      /\ \A u \in Try : ts[u].status = "running" => u = t
  BY DEF TrySound, LiveTry
<1>3. v \in TryStatus
  BY <1>1 DEF TryStatus
<1>4. /\ q \in TryRow /\ q.status = v /\ q.job = ts[t].job /\ q.probes = ts[t].probes
      /\ q.fails = IF v = "failed" THEN ts[t].fails + 1 ELSE ts[t].fails
  BY <1>2, <1>3, SettledRow
<1> HIDE DEF q
<1>5. /\ q.job \notin Active /\ q.job # "queued" /\ ~LiveTry(q)
      /\ q.status \notin {"running", "open", "planned"}
  BY <1>1, <1>4 DEF Active, LiveTry
<1>6. q.probes <= q.fails + 1 /\ (q.status = "failed" => q.probes <= q.fails)
  BY <1>2, <1>4 DEF TryRow
<1>7. TrySound(us)
  BY <1>4, <1>5, <1>6, TryMoves
<1>8. \A u \in Try : us[u] = IF u = t THEN q ELSE ts[u]
  BY DEF TrySound
<1>9. SettledTries(ts, t, v) = us
  BY DEF SettledTries, q
<1> HIDE DEF us
<1> QED BY <1>1, <1>2, <1>4, <1>7, <1>8, <1>9 DEF Done

(* A step of a loop that runs ends it, lets it wait for a person or arms   *)
(* it again.                                                               *)
LEMMA GoingEnds ==
    ASSUME Inv, NEW w \in Worker, NEW l \in Loop, MayStep(w, l),
           loop[l].status \in {"queued", "running"},
           NEW r, NEW ts, Going(r, ts, final[l]),
           \A t \in Try : try[l][t].status \in Done => ts[t].status = try[l][t].status,
           r.incumbent # 0 => loop[l].status = "running",
           UNCHANGED <<final, owed>>, Succeeds(w, l), NEW keep,
           \/ \E s \in Terminal : Finish(l, keep, r, s, ts)
           \/ r.incumbent # 0 /\ WaitForPerson(l, keep, r, ts)
           \/ Arm(l, keep, r) /\ try' = [try EXCEPT ![l] = ts]
    PROVE  Inv' /\ Accepted
<1> DEFINE f == final[l]
<1>1. Moves(l, "done") /\ OwedMoves(l)
  BY DEF Succeeds, Moves, OwedMoves
<1>2. inRow' \in [Loop -> 0 .. MaxStepErrors]
  BY InRowMoves DEF Succeeds
<1>3. final' = [final EXCEPT ![l] = f] /\ loop[l].status \notin Terminal
  BY SameRows DEF Terminal
<1>4. r \in LoopRow /\ r.status = "running"
  BY DEF Going
<1>5. /\ Sound(r, ts, f)
      /\ \A s \in Terminal : Sound([r EXCEPT !.status = s], Halted(ts), f)
      /\ r.incumbent # 0 =>
             Sound([r EXCEPT !.status = "waiting", !.overdue = FALSE], Halted(ts), f)
  BY GoingSound
<1>6. /\ Follows(l, r, ts, f)
      /\ \A s \in Terminal : Follows(l, [r EXCEPT !.status = s], Halted(ts), f)
      /\ loop[l].status = "running" =>
             Follows(l, [r EXCEPT !.status = "waiting", !.overdue = FALSE], Halted(ts), f)
  BY GoingFollows
<1> HIDE DEF f
<1>7. ASSUME NEW s \in Terminal, Finish(l, keep, r, s, ts)
      PROVE  Inv' /\ Accepted
  BY <1>1, <1>2, <1>3, <1>4, <1>5, <1>6, <1>7, Finished
<1>8. ASSUME r.incumbent # 0, WaitForPerson(l, keep, r, ts)
      PROVE  Inv' /\ Accepted
  <2> DEFINE p == [r EXCEPT !.status = "waiting", !.overdue = FALSE]
  <2>1. Arm(l, keep, p) /\ try' = [try EXCEPT ![l] = Halted(ts)]
    BY <1>8 DEF WaitForPerson
  <2>2. Sound(p, Halted(ts), f) /\ Follows(l, p, Halted(ts), f)
    BY <1>5, <1>6, <1>8
  <2>3. p.status = "waiting"
    BY <1>4 DEF LoopRow
  <2> HIDE DEF p
  <2>4. MayHold(l, p) /\ p.status \in Live
    BY <2>3 DEF MayHold, Capped, Live
  <2> QED BY <1>1, <1>2, <1>3, <2>1, <2>2, <2>4, Rearmed
<1>9. ASSUME Arm(l, keep, r), try' = [try EXCEPT ![l] = ts]
      PROVE  Inv' /\ Accepted
  <2>1. MayHold(l, r) /\ r.status \in Live
    BY <1>4 DEF MayHold, Capped, Live
  <2> QED BY <1>1, <1>2, <1>3, <1>5, <1>6, <1>9, <2>1, Rearmed
<1> QED BY <1>7, <1>8, <1>9

LEMMA StopOrProposeStep ==
    ASSUME Inv, NEW w \in Worker, NEW l \in Loop, MayStep(w, l),
           loop[l].status \in {"queued", "running"},
           NEW r, NEW ts, Going(r, ts, final[l]), r.cont = loop[l].cont,
           \A t \in Try : try[l][t].status \in Done => ts[t].status = try[l][t].status,
           \A t \in Try : ts[t].status # "running",
           r.incumbent # 0 => loop[l].status = "running",
           UNCHANGED <<final, owed>>, StopOrPropose(w, l, r, ts)
    PROVE  Inv' /\ Accepted
<1> DEFINE keep == worker[w].job
<1>0. {"failed", "completed"} \subseteq Terminal
  BY DEF Terminal
<1>1. CASE Finish(l, keep, r, "failed", ts) /\ Succeeds(w, l)
  BY <1>0, <1>1, GoingEnds
<1>2. ASSUME NEW i \in Base(ts, r.incumbent),
             Finish(l, keep, [r EXCEPT !.incumbent = i], "completed", ts), Succeeds(w, l)
      PROVE  Inv' /\ Accepted
  <2> DEFINE q == [r EXCEPT !.incumbent = i]
  <2>1. i \in 0 .. Tries /\ (i # 0 => ts[i].status = "accepted")
    BY DEF Base
  <2>2. /\ q \in LoopRow /\ q.status = r.status /\ q.consulted = r.consulted
        /\ q.cancel = r.cancel /\ q.incumbent = i
    BY <2>1 DEF Going, LoopRow
  <2>3. Finish(l, keep, q, "completed", ts)
    BY <1>2
  <2> HIDE DEF q
  <2>4. Going(q, ts, final[l])
    BY <2>1, <2>2 DEF Going
  <2>5. q.incumbent # 0 => loop[l].status = "running"
    <3>1. CASE loop[l].status = "queued"
      <4>1. r.incumbent = 0
        BY <3>1
      <4>2. \A u \in Try : ts[u].status = "accepted" /\ u < 0 => u <= i
        BY <4>1 DEF Base
      <4>3. i # 0 => i < 0
        BY <4>1 DEF Base
      <4> QED BY <2>1, <2>2, <4>3, ImproveAssumption DEF ImproveAssumption
    <3> QED BY <3>1
  <2> QED BY <1>0, <1>2, <2>3, <2>4, <2>5, GoingEnds
<1>3. CASE /\ IF r.incumbent # 0 THEN WaitForPerson(l, keep, r, ts)
              ELSE Finish(l, keep, r, "completed", ts)
           /\ Succeeds(w, l)
  BY <1>0, <1>3, GoingEnds
<1>4. CASE /\ ~FailedTwice(ts)
           /\ NextTry(ts) # {}
           /\ loop' = [loop EXCEPT ![l] = r]
           /\ try' = [try EXCEPT ![l] = ts]
           /\ Goes(w, "propose")
           /\ UNCHANGED <<job, inRow>>
  <2>1. Ready(r, ts)
    BY <1>4 DEF Ready, Going
  <2>2. Rows(l, r, ts, final[l])
    BY <1>4, SameRows DEF Rows
  <2>3. Sound(r, ts, final[l]) /\ Follows(l, r, ts, final[l])
    BY GoingSound, GoingFollows
  <2>4. MayHold(l, r) /\ (r.status \in Live <=> loop[l].status \in Live)
    BY DEF Going, MayHold, Capped, Live
  <2>5. Moves(l, "propose") /\ inRow' \in [Loop -> 0 .. MaxStepErrors]
    BY <1>4, InRowMoves DEF Moves
  <2>6. UNCHANGED <<job, owed>>
    BY <1>4
  <2> QED BY <2>1, <2>2, <2>3, <2>4, <2>5, <2>6, Touched
<1> HIDE DEF keep
<1> QED BY <1>1, <1>2, <1>3, <1>4 DEF StopOrPropose, keep

LEMMA StepRunningStep ==
    ASSUME Inv, NEW w \in Worker, NEW l \in Loop, MayStep(w, l), StepRunning(w, l),
           UNCHANGED <<final, owed>>
    PROVE  Inv' /\ Accepted
<1> DEFINE keep == worker[w].job
           r == Begun(loop[l])
           probing == {t \in Try : try[l][t].status = "running"}
<1>1. loop[l].status \in {"queued", "running"}
  BY DEF StepRunning
<1>2. /\ Going(r, try[l], final[l])
      /\ r.cont = loop[l].cont /\ r.incumbent = loop[l].incumbent
      /\ loop[l].status = "queued" =>
             loop[l].incumbent = 0 /\ \A t \in Try : try[l][t].status # "running"
  BY <1>1, SameRows, Begins
<1>3. \/ Finish(l, keep, r, "cancelled", try[l]) /\ Succeeds(w, l)
      \/ probing = {} /\ StopOrPropose(w, l, r, try[l])
      \/ \E t \in probing : StepProbing(w, l, r)
      \/ \E t \in probing : \E v \in Verdicts(try[l][t].job) :
            /\ try[l][t].job \notin Active
            /\ StopOrPropose(w, l, IF v = "accepted" THEN [r EXCEPT !.incumbent = t] ELSE r,
                             [try[l] EXCEPT ![t] = Settled(@, v)])
  BY DEF StepRunning, Begun
<1> HIDE DEF r
<1>4. r.incumbent # 0 => loop[l].status = "running"
  BY <1>1, <1>2
<1>5. {"cancelled", "completed"} \subseteq Terminal
  BY DEF Terminal
<1>6. CASE Finish(l, keep, r, "cancelled", try[l]) /\ Succeeds(w, l)
  BY <1>1, <1>2, <1>4, <1>5, <1>6, GoingEnds
<1>7. CASE probing = {} /\ StopOrPropose(w, l, r, try[l])
  <2>1. \A t \in Try : try[l][t].status # "running"
    BY <1>7
  <2> QED BY <1>1, <1>2, <1>4, <1>7, <2>1, StopOrProposeStep
<1>8. CASE StepProbing(w, l, r)
  <2>1. \/ Finish(l, keep, r, "completed", try[l])
        \/ r.incumbent # 0 /\ WaitForPerson(l, keep, r, try[l])
        \/ Arm(l, keep, r) /\ UNCHANGED try
    BY <1>8 DEF StepProbing
  <2>2. UNCHANGED try => try' = [try EXCEPT ![l] = try[l]]
    BY SameRows
  <2>3. Succeeds(w, l)
    BY <1>8 DEF StepProbing
  <2>4. \/ \E s \in Terminal : Finish(l, keep, r, s, try[l])
        \/ r.incumbent # 0 /\ WaitForPerson(l, keep, r, try[l])
        \/ Arm(l, keep, r) /\ try' = [try EXCEPT ![l] = try[l]]
    BY <1>5, <2>1, <2>2
  <2> HIDE DEF keep
  <2> QED BY <1>1, <1>2, <1>4, <2>3, <2>4, GoingEnds
<1>9. ASSUME NEW t \in probing, NEW v \in Verdicts(try[l][t].job), try[l][t].job \notin Active,
             StopOrPropose(w, l, IF v = "accepted" THEN [r EXCEPT !.incumbent = t] ELSE r,
                           [try[l] EXCEPT ![t] = Settled(@, v)])
      PROVE  Inv' /\ Accepted
  <2> DEFINE us == SettledTries(try[l], t, v)
             q == IF v = "accepted" THEN [r EXCEPT !.incumbent = t] ELSE r
  <2>1. t \in Try /\ try[l][t].status = "running" /\ TrySound(try[l])
    BY <1>2 DEF Going
  <2>2. /\ TrySound(us)
        /\ us[t].status = v
        /\ \A u \in Try : us[u].status # "running"
        /\ \A u \in Try : try[l][u].status \in Done => us[u].status = try[l][u].status
        /\ \A u \in Try : try[l][u].status = "accepted" => us[u].status = "accepted"
    BY <1>9, <2>1, SettledSound
  <2>3. StopOrPropose(w, l, q, us)
    BY <1>9 DEF SettledTries
  <2>4. loop[l].status = "running"
    BY <1>1, <1>2, <2>1
  <2> HIDE DEF us
  <2>5. Going(q, us, final[l]) /\ q.cont = loop[l].cont
    <3>1. CASE v = "accepted"
      <4>1. t \in 0 .. Tries
        BY <2>1, ImproveAssumption DEF ImproveAssumption, Try
      <4>2. r \in LoopRow
        BY <1>2 DEF Going
      <4>3. /\ q \in LoopRow /\ q.status = r.status /\ q.consulted = r.consulted
            /\ q.cancel = r.cancel /\ q.incumbent = t /\ q.cont = r.cont
        BY <3>1, <4>1, <4>2 DEF LoopRow
      <4> QED BY <3>1, <4>3, <2>2, <1>2 DEF Going
    <3>2. CASE v # "accepted"
      <4>1. q = r
        BY <3>2
      <4>2. r.incumbent \in {0} \cup Try
        BY <1>2, ImproveAssumption DEF ImproveAssumption, Going, LoopRow, Try
      <4> QED BY <4>1, <4>2, <2>2, <1>2 DEF Going
    <3> QED BY <3>1, <3>2
  <2> HIDE DEF q
  <2> QED BY <1>1, <2>2, <2>3, <2>4, <2>5, StopOrProposeStep
<1> QED BY <1>3, <1>6, <1>7, <1>8, <1>9

LEMMA StepStep ==
    ASSUME Inv, NEW w \in Worker, NEW l \in Loop, Step(w, l)
    PROVE  Inv' /\ Accepted
<1>1. /\ MayStep(w, l) /\ UNCHANGED <<final, owed>>
      /\ StepWaiting(w, l) \/ StepFinalizing(w, l) \/ StepRunning(w, l)
  BY DEF Step
<1> QED BY <1>1, StepWaitingStep, StepFinalizingStep, StepRunningStep

(* The second transaction: a sound row for the try it proposes.            *)
LEMMA ProposedRow ==
    ASSUME NEW ts, TrySound(ts), NEW t \in Try,
           ts[t].status \in {"open", "planned", "failed"}, ts[t].fails < MaxFailures,
           \A u \in Try : LiveTry(ts[u]) => u = t,
           NEW q \in {Probed(Planned(ts[t])), Planned(ts[t]), Settled(Planned(ts[t]), "failed")}
    PROVE  TrySound([ts EXCEPT ![t] = q])
<1> DEFINE p == Planned(ts[t])
<1>1. ts[t] \in TryRow /\ ts[t].probes <= ts[t].fails
  BY DEF TrySound
<1>2. /\ p \in TryRow /\ p.status = "planned" /\ p.job = "none" /\ p.cancel = FALSE
      /\ p.fails = ts[t].fails /\ p.probes = ts[t].probes
  BY <1>1 DEF Planned, TryRow, TryStatus, JobState
<1> HIDE DEF p
<1>3. p.probes <= p.fails /\ p.fails < MaxFailures
  BY <1>1, <1>2
<1>4. p.probes \in Nat /\ p.fails \in Nat /\ MaxFailures \in Nat
  BY <1>2, ImproveAssumption DEF ImproveAssumption, TryRow
<1>5. CASE q = Probed(p)
  <2>1. p.probes + 1 \in 0 .. MaxFailures
    BY <1>3, <1>4
  <2>2. /\ q \in TryRow /\ q.status = "running" /\ q.job = "queued" /\ q.cancel = FALSE
        /\ q.fails = p.fails /\ q.probes = p.probes + 1
    BY <1>2, <1>5, <2>1 DEF Probed, TryRow, TryStatus, JobState, Active
  <2>3. q.probes <= q.fails + 1 /\ q.fails < MaxFailures
    BY <1>3, <1>4, <2>2
  <2> QED BY <2>2, <2>3, TryMoves
<1>6. CASE q = p
  <2>1. p.job \notin Active /\ p.probes <= p.fails + 1
    BY <1>2, <1>3, <1>4 DEF Active
  <2> QED BY <1>2, <1>3, <1>6, <2>1, TryMoves
<1>7. CASE q = Settled(p, "failed")
  <2>1. "failed" \in TryStatus
    BY DEF TryStatus
  <2>2. /\ q \in TryRow /\ q.status = "failed" /\ q.job = "none" /\ q.cancel = FALSE
        /\ q.probes = p.probes /\ q.fails = p.fails + 1
    BY <1>2, <1>3, <1>7, <2>1, SettledRow
  <2>3. q.job \notin Active /\ ~LiveTry(q) /\ q.probes <= q.fails + 1 /\ q.probes <= q.fails
    BY <1>3, <1>4, <2>2 DEF Active, LiveTry
  <2> QED BY <2>2, <2>3, TryMoves
<1> QED BY <1>5, <1>6, <1>7 DEF p

LEMMA ProposeStep ==
    ASSUME Inv, NEW w \in Worker, NEW l \in Loop, Propose(w, l)
    PROVE  Inv' /\ Accepted
<1> DEFINE keep == worker[w].job
           r == loop[l]
<1>1. /\ MayStep(w, l) /\ r.status = "running" /\ Succeeds(w, l)
      /\ UNCHANGED <<final, owed>>
  BY DEF Propose
<1>2. Sound(r, try[l], final[l])
  BY SameRows
<1>3. r \in LoopRow /\ TrySound(try[l])
  BY <1>2 DEF Sound, RunSound
<1>4. ASSUME NEW ts, TrySound(ts), \A t \in Try : try[l][t].status \in Done =>
                                                      ts[t].status = try[l][t].status
      PROVE  Going(r, ts, final[l])
  <2>1. ~r.consulted /\ ~r.cancel
    BY <1>1, <1>2 DEF Sound, RunSound
  <2>2. /\ final[l] \in FinalRow /\ final[l].attempts = 0 /\ final[l].chosen = 0
        /\ final[l].job \notin Active /\ ~final[l].looked /\ final[l].looks = 0
    BY <1>1, <1>2 DEF Sound, FinalSound
  <2>3. r.incumbent # 0 => ts[r.incumbent].status = "accepted"
    <3>1. r.incumbent \in {0} \cup Try
      BY <1>3, ImproveAssumption DEF ImproveAssumption, LoopRow, Try
    <3>2. r.incumbent # 0 => try[l][r.incumbent].status = "accepted"
      BY <1>2 DEF Sound, RunSound
    <3> QED BY <3>1, <3>2, <1>4 DEF Done
  <2> QED BY <1>1, <1>3, <1>4, <2>1, <2>2, <2>3 DEF Going
<1>5. CASE Finish(l, keep, r, "cancelled", try[l])
  <2>1. Going(r, try[l], final[l]) /\ "cancelled" \in Terminal
    BY <1>3, <1>4 DEF Terminal
  <2> HIDE DEF keep
  <2> QED BY <1>1, <1>5, <2>1, GoingEnds
<1>6. ASSUME NEW t \in ToPropose(try[l]),
             NEW q \in {Probed(Planned(try[l][t])), Planned(try[l][t]),
                        Settled(Planned(try[l][t]), "failed")},
             try' = [try EXCEPT ![l] = [@ EXCEPT ![t] = q]],
             Arm(l, keep, r)
      PROVE  Inv' /\ Accepted
  <2> DEFINE ts == [try[l] EXCEPT ![t] = q]
  <2>1. Ready(r, try[l])
    BY <1>1 DEF Propose, Inv, ProposeReady
  <2>2. t \in Try
    BY DEF ToPropose, NextTry
  <2>3. try[l][t].status \in TryStatus
    BY <2>2, <1>3 DEF TrySound, TryRow
  <2>4. /\ try[l][t].status \in {"open", "planned", "failed"}
        /\ try[l][t].fails < MaxFailures
        /\ \A u \in Try : LiveTry(try[l][u]) => u = t
    <3>1. CASE \E u \in Try : LiveTry(try[l][u])
      <4>1. LiveTry(try[l][t])
        BY <3>1 DEF ToPropose
      <4>2. try[l][t].status = "planned"
        BY <4>1, <2>1, <2>2 DEF Ready, LiveTry
      <4> QED BY <4>1, <4>2, <2>2, <1>3 DEF TrySound
    <3>2. CASE ~\E u \in Try : LiveTry(try[l][u])
      <4>1. t \in NextTry(try[l])
        BY <3>2 DEF ToPropose
      <4>2. ~(try[l][t].fails >= MaxFailures)
        BY <4>1, <2>1 DEF Ready, FailedTwice
      <4>3. try[l][t].fails < MaxFailures
        BY <4>2, <2>2, <1>3, ImproveAssumption DEF ImproveAssumption, TrySound, TryRow
      <4>4. try[l][t].status \in {"open", "planned", "failed"}
        BY <4>1, <3>2, <2>2, <2>3 DEF NextTry, Done, LiveTry, TryStatus
      <4> QED BY <4>3, <4>4, <3>2
    <3> QED BY <3>1, <3>2
  <2>5. TrySound(ts)
    BY <1>3, <2>2, <2>4, ProposedRow
  <2>6. \A u \in Try : try[l][u].status \in Done => ts[u].status = try[l][u].status
    <3>1. \A u \in Try : ts[u] = IF u = t THEN q ELSE try[l][u]
      BY <1>3 DEF TrySound
    <3> HIDE DEF ts
    <3> QED BY <3>1, <2>4 DEF Done
  <2>7. try' = [try EXCEPT ![l] = ts]
    BY <1>6
  <2> HIDE DEF ts, keep
  <2>8. Going(r, ts, final[l])
    BY <1>4, <2>5, <2>6
  <2>9. Arm(l, keep, r)
    BY <1>6 DEF keep
  <2>10. /\ r.incumbent # 0 => loop[l].status = "running"
         /\ loop[l].status \in {"queued", "running"}
    BY <1>1
  <2>11. /\ MayStep(w, l) /\ Succeeds(w, l) /\ UNCHANGED <<final, owed>>
    BY <1>1
  <2> HIDE DEF r
  <2> QED BY <2>6, <2>7, <2>8, <2>9, <2>10, <2>11, GoingEnds
<1> QED BY <1>5, <1>6 DEF Propose

-----------------------------------------------------------------------------
(* People, time and training.                                              *)

LEMMA StartStep ==
    ASSUME Inv, NEW l \in Loop, Start(l)
    PROVE  Inv' /\ Accepted
<1> DEFINE r == [loop[l] EXCEPT !.status = "queued"]
<1>1. /\ loop[l].status = "none" /\ Room(l) /\ Arm(l, NoJob, r)
      /\ UNCHANGED <<try, final, owed, worker, inRow>>
  BY DEF Start
<1>2. /\ Sound(loop[l], try[l], final[l]) /\ loop[l] \in LoopRow
      /\ try' = [try EXCEPT ![l] = try[l]] /\ final' = [final EXCEPT ![l] = final[l]]
  BY <1>1, SameRows
<1>3. /\ r \in LoopRow /\ r.status = "queued" /\ r.incumbent = loop[l].incumbent
      /\ r.consulted = loop[l].consulted /\ r.cancel = loop[l].cancel
  BY <1>2 DEF LoopRow, Status, Live
<1> HIDE DEF r
<1>4. RunSound(r, try[l])
  BY <1>1, <1>2, <1>3 DEF Sound, RunSound
<1>5. FinalSound(r, try[l], final[l])
  BY <1>1, <1>2, <1>3 DEF Sound, FinalSound
<1>6. Sound(r, try[l], final[l])
  BY <1>2, <1>4, <1>5 DEF Sound
<1>7. Follows(l, r, try[l], final[l])
  BY <1>1, <1>3 DEF Follows, Transition, Terminal
<1>8. MayHold(l, r) /\ r.status \in Live /\ loop[l].status \notin Terminal
  BY <1>1, <1>3 DEF MayHold, Live, Terminal
<1>9. Moves(l, "done") /\ OwedMoves(l) /\ inRow' \in [Loop -> 0 .. MaxStepErrors]
  BY <1>1, InRowMoves DEF Moves, OwedMoves
<1> QED BY <1>1, <1>2, <1>6, <1>7, <1>8, <1>9, Rearmed

LEMMA AcceptStep ==
    ASSUME Inv, NEW l \in Loop, NEW t \in Try, Accept(l, t)
    PROVE  Inv' /\ Accepted
<1> DEFINE r == [loop[l] EXCEPT !.status = "finalizing", !.incumbent = t, !.overdue = FALSE]
           f == [final[l] EXCEPT !.attempts = @ + 1, !.chosen = t, !.job = "queued",
                                 !.cancel = FALSE, !.looked = FALSE]
<1>0. /\ Arm(l, NoJob, r)
      /\ final' = [final EXCEPT ![l] = f]
  <2>1. Arm(l, NoJob, r)
    BY DEF Accept
  <2>2. final' = [final EXCEPT ![l] = f]
    BY DEF Accept
  <2> QED BY <2>1, <2>2
<1> HIDE DEF r, f
<1>1. /\ loop[l].status = "waiting" /\ Room(l) /\ Arm(l, NoJob, r)
      /\ final[l].chosen \in {0, t} /\ final[l].attempts < MaxFinal
      /\ try[l][t].status = "accepted"
      /\ final' = [final EXCEPT ![l] = f]
      /\ UNCHANGED <<try, owed, worker, inRow>>
  BY <1>0 DEF Accept
<1>2. /\ Sound(loop[l], try[l], final[l]) /\ loop[l] \in LoopRow /\ final[l] \in FinalRow
      /\ try' = [try EXCEPT ![l] = try[l]]
  BY <1>1, SameRows
<1>3. t \in 0 .. Tries
  BY ImproveAssumption DEF ImproveAssumption, Try
<1>4. /\ r \in LoopRow /\ r.status = "finalizing" /\ r.incumbent = t
      /\ r.consulted = loop[l].consulted /\ r.cancel = loop[l].cancel
  BY <1>2, <1>3 DEF r, LoopRow, Status, Live
<1>5. final[l].attempts + 1 \in 0 .. MaxFinal
  BY <1>1, <1>2, ImproveAssumption DEF ImproveAssumption, FinalRow
<1>6. /\ f \in FinalRow /\ f.attempts = final[l].attempts + 1 /\ f.chosen = t
      /\ f.looked = FALSE /\ f.looks = final[l].looks
  BY <1>2, <1>3, <1>5 DEF f, FinalRow, JobState, Active
<1>7. RunSound(r, try[l])
  BY <1>1, <1>2, <1>4 DEF Sound, RunSound
<1>8. t # 0
  BY DEF Try
<1>9. final[l].looks = 0
  BY <1>1, <1>2 DEF Sound, FinalSound
<1>10. FinalSound(r, try[l], f)
  BY <1>1, <1>4, <1>6, <1>8, <1>9 DEF FinalSound
<1>11. Sound(r, try[l], f)
  BY <1>2, <1>7, <1>10 DEF Sound
<1>12. Follows(l, r, try[l], f)
  BY <1>1, <1>4, <1>6 DEF Follows, Transition, Terminal
<1>13. MayHold(l, r) /\ r.status \in Live /\ loop[l].status \notin Terminal
  BY <1>1, <1>4 DEF MayHold, Live, Terminal
<1>14. Moves(l, "done") /\ OwedMoves(l) /\ inRow' \in [Loop -> 0 .. MaxStepErrors]
  BY <1>1, InRowMoves DEF Moves, OwedMoves
<1> QED BY <1>1, <1>2, <1>11, <1>12, <1>13, <1>14, Rearmed

(* A person ends a loop that has no final run.                             *)
LEMMA EndedByPerson ==
    ASSUME Inv, NEW l \in Loop, loop[l].status \in Live, loop[l].status # "finalizing",
           NEW r \in LoopRow, NEW s \in Terminal,
           r.consulted = loop[l].consulted, r.incumbent \in {0, loop[l].incumbent},
           r.cancel => s = "cancelled",
           Finish(l, NoJob, r, s, try[l]), UNCHANGED <<final, owed, worker, inRow>>
    PROVE  Inv' /\ Accepted
<1>1. /\ Sound(loop[l], try[l], final[l]) /\ final' = [final EXCEPT ![l] = final[l]]
      /\ ~loop[l].consulted /\ loop[l].status \notin Terminal
  BY SameRows, LiveRow
<1>2. loop[l].status \notin {"finalizing", "failed", "completed"}
  BY DEF Live
<1>3. /\ TrySound(try[l]) /\ final[l] \in FinalRow
      /\ ~final[l].looked /\ final[l].looks = 0 /\ final[l].job \notin Active
      /\ final[l].chosen # 0 => try[l][final[l].chosen].status = "accepted"
      /\ r.incumbent # 0 => try[l][r.incumbent].status = "accepted"
  BY <1>1, <1>2 DEF Sound, RunSound, FinalSound
<1>4. Sound([r EXCEPT !.status = s], Halted(try[l]), final[l])
  BY <1>1, <1>3, EndSound
<1>5. Follows(l, [r EXCEPT !.status = s], Halted(try[l]), final[l])
  BY EndFollows
<1>6. Moves(l, "done") /\ OwedMoves(l) /\ inRow' \in [Loop -> 0 .. MaxStepErrors]
  BY InRowMoves DEF Moves, OwedMoves
<1> QED BY <1>1, <1>4, <1>5, <1>6, Finished

LEMMA CancelLoopStep ==
    ASSUME Inv, NEW l \in Loop, CancelLoop(l)
    PROVE  Inv' /\ Accepted
<1> DEFINE r == [loop[l] EXCEPT !.cancel = TRUE]
<1>1. loop[l].status \in Live /\ UNCHANGED <<owed, worker, inRow>>
  BY DEF CancelLoop
<1>2. /\ Sound(loop[l], try[l], final[l]) /\ loop[l] \in LoopRow
  BY SameRows
<1>3. /\ r \in LoopRow /\ r.status = loop[l].status /\ r.incumbent = loop[l].incumbent
      /\ r.consulted = loop[l].consulted /\ r.cancel = TRUE /\ r.cont = loop[l].cont
  BY <1>2 DEF LoopRow
<1>4. CASE loop[l].status = "finalizing"
  <2> DEFINE f == Asked(final[l])
  <2>1. /\ loop' = [loop EXCEPT ![l] = r] /\ final' = [final EXCEPT ![l] = f]
        /\ UNCHANGED <<try, job>>
    BY <1>3, <1>4 DEF CancelLoop
  <2>2. Rows(l, r, try[l], f)
    BY <2>1, SameRows DEF Rows
  <2>3. /\ f \in FinalRow /\ f.attempts = final[l].attempts /\ f.chosen = final[l].chosen
        /\ f.looked = final[l].looked /\ f.looks = final[l].looks
    BY SameRows, AskedFinal
  <2> HIDE DEF r, f
  <2>4. RunSound(r, try[l])
    BY <1>2, <1>3, <1>4 DEF Sound, RunSound
  <2>5. FinalSound(r, try[l], f)
    BY <1>2, <1>3, <1>4, <2>3 DEF Sound, FinalSound
  <2>6. Sound(r, try[l], f)
    BY <1>2, <2>4, <2>5 DEF Sound
  <2>7. Follows(l, r, try[l], f)
    BY <1>1, <1>3, <2>3, LiveRow DEF Follows
  <2>8. MayHold(l, r) /\ (r.status \in Live <=> loop[l].status \in Live)
    BY <1>3 DEF MayHold
  <2>9. Moves(l, "propose") /\ inRow' \in [Loop -> 0 .. MaxStepErrors]
    BY <1>1, InRowMoves DEF Moves
  <2>10. worker' = worker /\ (Ready(loop[l], try[l]) => Ready(r, try[l]))
    BY <1>1, <1>3 DEF Ready
  <2> QED BY <1>1, <1>3, <2>1, <2>2, <2>6, <2>7, <2>8, <2>9, <2>10, Touched
<1>5. CASE loop[l].status # "finalizing"
  <2>1. Finish(l, NoJob, r, "cancelled", try[l]) /\ UNCHANGED final
    BY <1>3, <1>5 DEF CancelLoop
  <2>2. "cancelled" \in Terminal
    BY DEF Terminal
  <2> HIDE DEF r
  <2> QED BY <1>1, <1>3, <1>5, <2>1, <2>2, EndedByPerson
<1> QED BY <1>4, <1>5

LEMMA KeepStep ==
    ASSUME Inv, NEW l \in Loop, Keep(l)
    PROVE  Inv' /\ Accepted
<1> DEFINE r == [loop[l] EXCEPT !.incumbent = 0]
<1>1. /\ loop[l].status = "waiting" /\ loop[l].status \in Live
      /\ Finish(l, NoJob, r, "completed", try[l])
      /\ UNCHANGED <<final, owed, worker, inRow>>
  BY DEF Keep, Live
<1>2. 0 \in 0 .. Tries /\ "completed" \in Terminal
  BY ImproveAssumption DEF ImproveAssumption, Terminal
<1>3. /\ r \in LoopRow /\ r.consulted = loop[l].consulted /\ r.cancel = loop[l].cancel
      /\ r.incumbent = 0
  BY <1>2, SameRows DEF LoopRow
<1>4. ~loop[l].cancel
  BY <1>1, SameRows DEF Sound, RunSound
<1> HIDE DEF r
<1> QED BY <1>1, <1>2, <1>3, <1>4, EndedByPerson

LEMMA TimePassesStep ==
    ASSUME Inv, NEW l \in Loop, TimePasses(l)
    PROVE  Inv' /\ Accepted
<1> DEFINE r == [loop[l] EXCEPT !.overdue = TRUE]
<1>1. /\ loop[l].status \in Live
      /\ loop' = [loop EXCEPT ![l] = r]
      /\ UNCHANGED <<try, final, job, owed, worker, inRow>>
  BY DEF TimePasses, Live
<1>2. /\ r \in LoopRow /\ r.status = loop[l].status /\ r.incumbent = loop[l].incumbent
      /\ r.consulted = loop[l].consulted /\ r.cancel = loop[l].cancel /\ r.cont = loop[l].cont
  BY SameRows DEF LoopRow
<1>3. Rows(l, r, try[l], final[l])
  BY <1>1, SameRows DEF Rows
<1> HIDE DEF r
<1>4. Sound(r, try[l], final[l]) /\ Follows(l, r, try[l], final[l]) /\ MayHold(l, r)
  BY <1>1, <1>2, AsItIs
<1>5. /\ Moves(l, "propose") /\ inRow' \in [Loop -> 0 .. MaxStepErrors]
      /\ worker' = worker /\ (Ready(loop[l], try[l]) => Ready(r, try[l]))
  BY <1>1, <1>2, InRowMoves DEF Moves, Ready
<1> QED BY <1>1, <1>2, <1>3, <1>4, <1>5, Touched

(* The queue and a cancel move the probe of the try t; what the loop reads *)
(* of its tries, their verdicts and failures, stays.                       *)
LEMMA TryTouched ==
    ASSUME Inv, NEW l \in Loop, NEW t \in Try, NEW q \in TryRow,
           q.status = try[l][t].status, q.fails = try[l][t].fails,
           q.probes = try[l][t].probes,
           q.job \in Active => try[l][t].job \in Active,
           try[l][t].cancel => q.cancel,
           q.job = "queued" => ~q.cancel,
           q.job # "none",
           try' = [try EXCEPT ![l] = [try[l] EXCEPT ![t] = q]],
           UNCHANGED <<loop, final, job, owed, worker, inRow>>
    PROVE  Inv' /\ Accepted
<1> DEFINE ts == try[l]
           us == [ts EXCEPT ![t] = q]
<1>1. Sound(loop[l], ts, final[l])
  BY SameRows
<1>2. TrySound(ts)
  BY <1>1 DEF Sound
<1>3. TrySound(us)
  <2>1. q.job \in Active /\ ~q.cancel => q.status = "running"
    BY <1>2 DEF TrySound
  <2>2. /\ LiveTry(q) => q.fails < MaxFailures
        /\ q.probes <= q.fails + 1
        /\ q.status \in {"open", "planned", "failed"} => q.probes <= q.fails
        /\ LiveTry(q) => \A u \in Try : LiveTry(ts[u]) => u = t
    BY <1>2 DEF TrySound, LiveTry
  <2> HIDE DEF ts
  <2> QED BY <1>2, <2>1, <2>2, TryMoves
<1>4. \A u \in Try : us[u].status = ts[u].status /\ us[u].fails = ts[u].fails
  BY <1>2 DEF TrySound
<1>5. Rows(l, loop[l], us, final[l])
  BY SameRows DEF Rows
<1>6. loop[l].incumbent \in {0} \cup Try /\ final[l].chosen \in {0} \cup Try
  BY SameRows, ImproveAssumption DEF ImproveAssumption, LoopRow, FinalRow, Try
<1> HIDE DEF us
<1>7. RunSound(loop[l], us)
  BY <1>1, <1>4, <1>6 DEF Sound, RunSound, LiveTry
<1>8. FinalSound(loop[l], us, final[l])
  BY <1>1, <1>4, <1>6 DEF Sound, FinalSound
<1>9. Sound(loop[l], us, final[l])
  BY <1>3, <1>7, <1>8 DEF Sound
<1>10. Follows(l, loop[l], us, final[l]) /\ MayHold(l, loop[l])
  BY <1>4 DEF Follows, MayHold
<1>11. NextTry(us) = NextTry(ts)
  <2>1. \A u \in Try : \A v \in 1 .. u - 1 : v \in Try
    BY ImproveAssumption DEF ImproveAssumption, Try
  <2> QED BY <1>4, <2>1 DEF NextTry
<1>12. Ready(loop[l], ts) => Ready(loop[l], us)
  <2>1. FailedTwice(us) => FailedTwice(ts)
    BY <1>4, <1>11 DEF FailedTwice, NextTry
  <2> QED BY <1>4, <1>11, <2>1 DEF Ready, LiveTry
<1>13. Moves(l, "propose") /\ inRow' \in [Loop -> 0 .. MaxStepErrors]
  BY InRowMoves DEF Moves
<1> QED BY <1>5, <1>9, <1>10, <1>12, <1>13, Touched

(* The final run moves.                                                    *)
LEMMA FinalTouched ==
    ASSUME Inv, NEW l \in Loop, NEW f \in FinalRow,
           f.attempts = final[l].attempts, f.chosen = final[l].chosen,
           f.job \in Active => final[l].job \in Active,
           final[l].looked => f.looked,
           f.looked => final[l].looked \/ final[l].job \in Active,
           f.looks = IF f.looked THEN 1 ELSE 0,
           final' = [final EXCEPT ![l] = f],
           UNCHANGED <<loop, try, job, owed, worker, inRow>>
    PROVE  Inv' /\ Accepted
<1>1. Sound(loop[l], try[l], final[l])
  BY SameRows
<1>2. FinalSound(loop[l], try[l], f)
  BY <1>1 DEF Sound, FinalSound
<1>3. Sound(loop[l], try[l], f)
  BY <1>1, <1>2 DEF Sound
<1>4. Rows(l, loop[l], try[l], f)
  BY SameRows DEF Rows
<1>5. Follows(l, loop[l], try[l], f) /\ MayHold(l, loop[l])
  BY DEF Follows, MayHold
<1>6. Moves(l, "propose") /\ inRow' \in [Loop -> 0 .. MaxStepErrors]
  BY InRowMoves DEF Moves
<1> QED BY <1>3, <1>4, <1>5, <1>6, Touched

LEMMA ProbeStep ==
    ASSUME Inv, NEW l \in Loop, NEW t \in Try, Probe(l, t)
    PROVE  Inv' /\ Accepted
<1> DEFINE r == try[l][t]
<1>1. PICK s \in Trained(r) : try' = [try EXCEPT ![l] = [try[l] EXCEPT ![t] =
                                                         [r EXCEPT !.job = s]]]
  BY DEF Probe
<1>2. UNCHANGED <<loop, final, job, owed, worker, inRow>>
  BY DEF Probe
<1>3. r \in TryRow
  BY DEF Inv, TypeOK
<1>4. /\ r.job \in Active /\ s \in {"running", "completed", "cancelled", "failed", "queued"}
      /\ s = "queued" => ~r.cancel
  BY DEF Trained, Active
<1> DEFINE q == [r EXCEPT !.job = s]
<1>5. /\ q \in TryRow /\ q.job = s /\ q.status = r.status /\ q.fails = r.fails
      /\ q.probes = r.probes /\ q.cancel = r.cancel
  BY <1>3, <1>4 DEF TryRow, JobState, Active
<1>6. try' = [try EXCEPT ![l] = [try[l] EXCEPT ![t] = q]]
  BY <1>1
<1> HIDE DEF q
<1> QED BY <1>2, <1>4, <1>5, <1>6, TryTouched

LEMMA CancelProbeStep ==
    ASSUME Inv, NEW l \in Loop, NEW t \in Try, CancelProbe(l, t)
    PROVE  Inv' /\ Accepted
<1> DEFINE r == try[l][t]
           q == Asked(r)
<1>1. /\ try' = [try EXCEPT ![l] = [try[l] EXCEPT ![t] = q]]
      /\ r.job \in Active /\ ~r.cancel
      /\ UNCHANGED <<loop, final, job, owed, worker, inRow>>
  BY DEF CancelProbe
<1>2. r \in TryRow
  BY DEF Inv, TypeOK
<1>3. /\ q \in TryRow /\ q.status = r.status /\ q.fails = r.fails /\ q.probes = r.probes
      /\ q.job # "queued"
      /\ q.job = "none" => r.job = "none"
  BY <1>2, AskedTry
<1>4. q.job # "none"
  BY <1>1, <1>3 DEF Active
<1> HIDE DEF q
<1> QED BY <1>1, <1>3, <1>4, TryTouched

LEMMA FinalRowFacts ==
    ASSUME Inv, NEW l \in Loop
    PROVE  /\ final[l] \in FinalRow
           /\ final[l].looks = IF final[l].looked THEN 1 ELSE 0
           /\ final[l].job \in Active => final[l].chosen # 0
BY SameRows DEF Sound, FinalSound

LEMMA LookStep ==
    ASSUME Inv, NEW l \in Loop, Look(l)
    PROVE  Inv' /\ Accepted
<1> DEFINE f == [final[l] EXCEPT !.looked = TRUE, !.looks = @ + 1]
<1>1. /\ final' = [final EXCEPT ![l] = f]
      /\ final[l].job = "running" /\ ~final[l].looked
      /\ UNCHANGED <<loop, try, job, owed, worker, inRow>>
  BY DEF Look
<1>2. final[l] \in FinalRow /\ final[l].looks = 0
  BY <1>1, FinalRowFacts
<1>3. final[l].looks + 1 = 1 /\ final[l].looks + 1 \in 0 .. MaxFinal
  BY <1>2, ImproveAssumption DEF ImproveAssumption
<1>4. /\ f \in FinalRow /\ f.looked = TRUE /\ f.looks = final[l].looks + 1
      /\ f.attempts = final[l].attempts /\ f.chosen = final[l].chosen /\ f.job = final[l].job
  BY <1>2, <1>3 DEF FinalRow
<1> HIDE DEF f
<1>5. f.looks = IF f.looked THEN 1 ELSE 0
  BY <1>3, <1>4
<1>6. final[l].job \in Active
  BY <1>1 DEF Active
<1> QED BY <1>1, <1>4, <1>5, <1>6, FinalTouched

LEMMA FinalRunStep ==
    ASSUME Inv, NEW l \in Loop, FinalRun(l)
    PROVE  Inv' /\ Accepted
<1>1. PICK s \in Trained(final[l]) : final' = [final EXCEPT ![l] = [@ EXCEPT !.job = s]]
  BY DEF FinalRun
<1>2. UNCHANGED <<loop, try, job, owed, worker, inRow>>
  BY DEF FinalRun
<1> DEFINE f == [final[l] EXCEPT !.job = s]
<1>3. final[l] \in FinalRow /\ final[l].looks = IF final[l].looked THEN 1 ELSE 0
  BY FinalRowFacts
<1>4. /\ final[l].job \in Active
      /\ s \in {"running", "completed", "cancelled", "failed", "queued"}
  BY DEF Trained, Active
<1>5. /\ f \in FinalRow /\ f.looked = final[l].looked /\ f.looks = final[l].looks
      /\ f.attempts = final[l].attempts /\ f.chosen = final[l].chosen
  BY <1>3, <1>4 DEF FinalRow, JobState, Active
<1>6. final' = [final EXCEPT ![l] = f]
  BY <1>1
<1> HIDE DEF f
<1> QED BY <1>2, <1>3, <1>4, <1>5, <1>6, FinalTouched

LEMMA CancelFinalStep ==
    ASSUME Inv, NEW l \in Loop, CancelFinal(l)
    PROVE  Inv' /\ Accepted
<1> DEFINE f == Asked(final[l])
<1>1. /\ final' = [final EXCEPT ![l] = f]
      /\ UNCHANGED <<loop, try, job, owed, worker, inRow>>
  BY DEF CancelFinal
<1>2. final[l] \in FinalRow /\ final[l].looks = IF final[l].looked THEN 1 ELSE 0
  BY FinalRowFacts
<1>3. /\ f \in FinalRow /\ f.attempts = final[l].attempts /\ f.chosen = final[l].chosen
      /\ f.looked = final[l].looked /\ f.looks = final[l].looks
      /\ f.job \in Active => final[l].job \in Active
  BY <1>2, AskedFinal
<1> HIDE DEF f
<1> QED BY <1>1, <1>2, <1>3, FinalTouched

-----------------------------------------------------------------------------
(* The invariant.                                                          *)

LEMMA InvInit == Init => Inv
<1> SUFFICES ASSUME Init PROVE Inv
  OBVIOUS
<1>1. /\ {MaxStepErrors, MaxFailures, MaxFinal, MaxAttempts, Tries, MaxLive} \subseteq Nat
      /\ 0 \in 0 .. MaxStepErrors /\ 0 \in 0 .. MaxFailures /\ 0 \in 0 .. MaxFinal
      /\ 0 \in 0 .. MaxAttempts /\ 0 \in 0 .. Tries
  BY ImproveAssumption DEF ImproveAssumption
<1>2. NewLoop \in LoopRow
  BY <1>1 DEF NewLoop, LoopRow, Status
<1>3. NewTry \in TryRow
  BY <1>1 DEF NewTry, TryRow, TryStatus, JobState
<1>4. NoFinal \in FinalRow
  BY <1>1 DEF NoFinal, FinalRow, JobState
<1>5. job \in [Job -> StepJob] /\ \A j \in Job : job[j].status = "free"
  <2>1. [loop : Loop, status : {"free"}, attempts : {0}] \subseteq StepJob
    BY <1>1 DEF StepJob
  <2> QED BY <2>1 DEF Init
<1>6. /\ \A l \in Loop : loop[l] = NewLoop /\ final[l] = NoFinal
      /\ \A l \in Loop, t \in Try : try[l][t] = NewTry
      /\ \A w \in Worker : worker[w].pc = "idle" /\ worker[w].job = NoJob
  BY DEF Init
<1>7. TypeOK
  <2>1. loop \in [Loop -> LoopRow] /\ final \in [Loop -> FinalRow]
    BY <1>2, <1>4 DEF Init
  <2>2. try \in [Loop -> [Try -> TryRow]]
    BY <1>3 DEF Init
  <2>3. /\ worker \in [Worker -> [pc : {"idle", "step", "propose", "done"},
                                  job : Job \cup {NoJob}]]
        /\ owed \subseteq Job /\ inRow \in [Loop -> 0 .. MaxStepErrors]
    BY <1>1 DEF Init
  <2> QED BY <1>5, <2>1, <2>2, <2>3 DEF TypeOK
<1>8. LoopsSound
  <2> SUFFICES ASSUME NEW l \in Loop PROVE Sound(loop[l], try[l], final[l])
    BY DEF LoopsSound
  <2>1. TrySound(try[l])
    BY <1>1, <1>6, <1>7 DEF TrySound, NewTry, TypeOK, Active, LiveTry
  <2>2. RunSound(loop[l], try[l])
    <3>1. loop[l] \in LoopRow
      BY <1>2, <1>6
    <3>2. \A t \in Try : ~LiveTry(try[l][t])
      BY <1>6 DEF NewTry, LiveTry
    <3>3. loop[l].incumbent = 0 /\ loop[l].consulted = FALSE /\ loop[l].cancel = FALSE
      BY <1>6 DEF NewLoop
    <3> QED BY <3>1, <3>2, <3>3 DEF RunSound
  <2>3. FinalSound(loop[l], try[l], final[l])
    BY <1>4, <1>6 DEF FinalSound, NewLoop, NoFinal, Active
  <2> QED BY <2>1, <2>2, <2>3 DEF Sound
<1>9. JobsSound
  BY <1>5, <1>6 DEF JobsSound, NeverStranded, NewLoop, Live
<1>10. ProposeReady
  BY <1>6 DEF ProposeReady, At
<1>11. WithinCap
  <2>1. CappedLoops = {}
    BY <1>6 DEF CappedLoops, NewLoop, Capped
  <2> QED BY <1>1, <2>1, FS_EmptySet DEF WithinCap
<1> QED BY <1>7, <1>8, <1>9, <1>10, <1>11 DEF Inv

LEMMA InvNext == Inv /\ [Next]_vars => Inv' /\ [Accepted]_vars
<1> SUFFICES ASSUME Inv, [Next]_vars PROVE Inv' /\ [Accepted]_vars
  OBVIOUS
<1>1. ASSUME NEW w \in Worker, Works(w) PROVE Inv' /\ Accepted
  BY <1>1, MissStep, ReturnStep, CrashStep, HandlerFailsStep, ClaimStep, StepStep, ProposeStep,
     StepRaisesStep DEF Works
<1>2. ASSUME NEW j \in Job, Queue(j) PROVE Inv' /\ Accepted
  BY <1>2, RecoverStep, HookStep, LoseHookStep DEF Queue
<1>3. ASSUME NEW l \in Loop, Outside(l) PROVE Inv' /\ Accepted
  BY <1>3, StartStep, CancelLoopStep, KeepStep, TimePassesStep, LookStep, FinalRunStep,
     CancelFinalStep, AcceptStep, ProbeStep, CancelProbeStep DEF Outside
<1>4. CASE UNCHANGED vars
  BY <1>4 DEF vars, Inv, TypeOK, LoopsSound, JobsSound, NeverStranded, ProposeReady, At, MayStep,
              WithinCap, CappedLoops
<1>5. CASE Next
  <2>1. Inv' /\ Accepted
    BY <1>1, <1>2, <1>3, <1>5 DEF Next
  <2> QED BY <2>1
<1> QED BY <1>4, <1>5

(* The rows of a loop, its tries, its final run and its jobs agree in every *)
(* state.                                                                  *)
THEOREM Invariant == Spec => []Inv
<1>1. Inv /\ [Next]_vars => Inv'
  BY InvNext
<1> QED BY InvInit, <1>1, PTL DEF Spec

(* The rows are always what the tables may hold.                           *)
THEOREM TypeCorrect == Spec => []TypeOK
<1>1. Inv => TypeOK
  BY DEF Inv
<1> QED BY <1>1, Invariant, PTL

(* If no hook is lost, every live loop has a job that will step it, or one *)
(* that failed and whose hook will arm another: whatever the workers, the  *)
(* queue and the people do.                                                *)
THEOREM Carried == "lost_hook" \notin Faults => (Spec => []NeverStranded)
<1> SUFFICES ASSUME "lost_hook" \notin Faults PROVE Spec => []NeverStranded
  OBVIOUS
<1>1. Inv => NeverStranded
  BY DEF Inv, JobsSound
<1> QED BY <1>1, Invariant, PTL

(* One model at a time: late workers and stale jobs never start a second   *)
(* probe, and no stop leaves one that was not asked to end.                *)
THEOREM TrainsOne == Spec => []OneTraining
<1>1. Inv => OneTraining
  <2> SUFFICES ASSUME Inv, NEW l \in Loop
               PROVE  /\ \A t, u \in Wanted(l) : t = u
                      /\ loop[l].status # "running" => Wanted(l) \subseteq {0}
    BY DEF OneTraining
  <2>1. Sound(loop[l], try[l], final[l])
    BY SameRows
  <2>2. \A t \in Wanted(l) : \/ t = 0 /\ loop[l].status \in {"finalizing", "failed"}
                             \/ t \in Try /\ LiveTry(try[l][t]) /\ loop[l].status = "running"
    BY <2>1 DEF Wanted, Sound, TrySound, RunSound, FinalSound, LiveTry
  <2> QED BY <2>1, <2>2 DEF Sound, TrySound
<1> QED BY <1>1, Invariant, PTL

(* No try is trained again unless it failed.                               *)
THEOREM ProbesOnce == Spec => []NoProbeTwice
<1>1. Inv => NoProbeTwice
  BY DEF Inv, LoopsSound, Sound, TrySound, NoProbeTwice
<1> QED BY <1>1, Invariant, PTL

(* The test set is looked at once for a loop, for a try a person accepted, *)
(* and what the loop says of it when it ends is true.                      *)
THEOREM LooksOnce == Spec => []TestSetOnce
<1>1. Inv => TestSetOnce
  <2> SUFFICES ASSUME Inv, NEW l \in Loop
               PROVE  /\ final[l].looks <= 1
                      /\ final[l].looks = 1 => try[l][final[l].chosen].status = "accepted"
                      /\ loop[l].status \in {"completed", "cancelled"} =>
                             (loop[l].consulted <=> final[l].looks = 1)
    BY DEF TestSetOnce
  <2>1. Sound(loop[l], try[l], final[l])
    BY SameRows
  <2>2. final[l].looked \in BOOLEAN /\ (final[l].looks = 1 <=> final[l].looked)
    BY <2>1 DEF Sound, FinalSound, FinalRow
  <2>3. final[l].looks <= 1
    BY <2>1 DEF Sound, FinalSound
  <2>4. final[l].looked => try[l][final[l].chosen].status = "accepted"
    BY <2>1 DEF Sound, FinalSound
  <2>5. CASE loop[l].status = "completed"
    BY <2>1, <2>2, <2>3, <2>4, <2>5 DEF Sound, FinalSound
  <2>6. CASE loop[l].status = "cancelled"
    <3>1. ~loop[l].consulted /\ ~final[l].looked
      BY <2>1, <2>6 DEF Sound, RunSound, FinalSound
    <3> QED BY <2>2, <2>3, <2>4, <3>1
  <2> QED BY <2>2, <2>3, <2>4, <2>5, <2>6
<1> QED BY <1>1, Invariant, PTL

(* What a person cancelled never waits for a person again, and completes   *)
(* only if the test set had been used.                                     *)
THEOREM StaysCancelled == Spec => []CancelHolds
<1>1. Inv => CancelHolds
  BY DEF Inv, LoopsSound, Sound, RunSound, CancelHolds
<1> QED BY <1>1, Invariant, PTL

(* A loop that waits can be accepted.                                      *)
THEOREM Acceptable == Spec => []WaitingCanBeAccepted
<1>1. Inv => WaitingCanBeAccepted
  BY DEF Inv, LoopsSound, Sound, FinalSound, WaitingCanBeAccepted
<1> QED BY <1>1, Invariant, PTL

(* The cap of the workspace holds.                                         *)
THEOREM CapKept == Spec => []WithinCap
<1>1. Inv => WithinCap
  BY DEF Inv
<1> QED BY <1>1, Invariant, PTL

(* No step writes what the triggers of the tables refuse.                  *)
THEOREM Accepts == Spec => TriggersAccept
<1>1. Inv /\ [Next]_vars =>
          [\A l \in Loop : RunAccepted(l) /\ \A t \in Try : TryAccepted(l, t)]_vars
  BY InvNext DEF Accepted
<1> QED BY <1>1, Invariant, PTL DEF Spec, TriggersAccept

=============================================================================
