------------------------ MODULE ScoringScheduleProofs ------------------------
(***************************************************************************)
(* Proofs about ScoringSchedule for any number of workers, files and       *)
(* versions, any length of the week and of the catch-up.  ScheduleInv is   *)
(* inductive: what the holder of the row lock has checked still holds when *)
(* it writes, since everything it relies on changes only under the lock.   *)
(***************************************************************************)
EXTENDS ScoringSchedule, TLAPS

-----------------------------------------------------------------------------
(* Rows: a recorded slot is past, and not after the slot that is planned.  *)
RunsAreBehind == \A s \in Slot : runs[s] # {} => s <= clock /\ s <= schedule.next

(* Queued files had begun when the last run was queued. *)
QueuedFilesAreOld ==
    \A s \in Slot : \A run \in runs[s] :
        run.outcome = "queued" => \A f \in run.file : f <= since

RowsInv == WeeksAreRecorded /\ FilesGoForward /\ RunsAreBehind /\ QueuedFilesAreOld

(* Workers: what the tick of w relies on at each point of its way.         *)
MomentPasses(w) == worker[w].moment \in 0 .. clock

HolderIsDue(w) == worker[w].pc \in {"claimed", "picked"} => schedule.next <= worker[w].moment

PickIsNew(w) ==
    worker[w].pc = "picked" =>
        /\ runs[SlotOf(w)] = {}
        /\ worker[w].file \subseteq stored
        /\ \A f \in worker[w].file : since < f

WorkerInv(w) == MomentPasses(w) /\ HolderIsDue(w) /\ PickIsNew(w)

ScheduleInv == TypeOK /\ RowsInv /\ \A w \in Worker : WorkerInv(w)

-----------------------------------------------------------------------------
(* Arithmetic of weeks.                                                    *)
LEMMA WeekIsPositive == Week \in Nat \ {0} /\ MaxTime \in Nat \ {0}
BY NumberAssumption

LEMMA ModIsUnique ==
    ASSUME NEW n \in Int, NEW r \in 0 .. Week - 1, NEW k \in Int, n = (Week * k) + r
    PROVE  n % Week = r
BY WeekIsPositive

LEMMA ModSplits ==
    ASSUME NEW n \in Int
    PROVE  n % Week \in 0 .. Week - 1 /\ \E k \in Int : n = (Week * k) + (n % Week)
<1>1. n % Week \in 0 .. Week - 1 /\ n \div Week \in Int
  BY WeekIsPositive
<1>2. n = (Week * (n \div Week)) + (n % Week)
  BY WeekIsPositive
<1> QED
  BY <1>1, <1>2

(* The slot of a moment: the last point at "at" that is not after it.      *)
LEMMA SlotFacts ==
    ASSUME NEW moment \in Int, NEW at \in 0 .. Week - 1
    PROVE  LET slot == SlotAtOrBefore(moment, at)
           IN  /\ slot \in Int /\ slot <= moment /\ moment < slot + Week
               /\ slot % Week = at /\ (slot + Week) % Week = at
               /\ \A n \in Int : n % Week = at /\ n <= moment => n <= slot
<1> DEFINE past == (moment - at) % Week
           slot == moment - past
<1>0. Week \in Nat \ {0} /\ at \in Int /\ moment - at \in Int
  BY WeekIsPositive
<1>1. past \in 0 .. Week - 1 /\ \E k \in Int : moment - at = (Week * k) + past
  <2> DEFINE gap == moment - at
  <2> HIDE DEF gap
  <2>1. gap \in Int
    BY <1>0 DEF gap
  <2>2. gap % Week \in 0 .. Week - 1 /\ \E k \in Int : gap = (Week * k) + (gap % Week)
    BY <2>1, ModSplits
  <2> QED
    BY <2>2 DEF gap
<1>2. PICK k \in Int : moment - at = (Week * k) + past
  BY <1>1
<1> HIDE DEF past
<1>3. slot = (Week * k) + at /\ slot + Week = (Week * (k + 1)) + at
  BY <1>0, <1>1, <1>2
<1>4. slot \in Int /\ slot <= moment /\ moment < slot + Week
  BY <1>0, <1>1
<1>5. slot % Week = at /\ (slot + Week) % Week = at
  <2>1. slot + Week \in Int /\ k + 1 \in Int
    BY <1>0, <1>4
  <2> HIDE DEF slot
  <2> QED
    BY <1>3, <1>4, <2>1, ModIsUnique
<1>6. ASSUME NEW n \in Int, n % Week = at, n <= moment PROVE n <= slot
  <2>1. PICK j \in Int : n = (Week * j) + at
    BY <1>6, ModSplits
  <2>2. SUFFICES ASSUME j >= k + 1 PROVE FALSE
    BY <1>0, <1>3, <2>1, j <= k => Week * j <= Week * k
  <2>3. Week * j >= Week * (k + 1)
    BY <1>0, <2>2
  <2> QED
    BY <1>0, <1>1, <1>2, <1>6, <2>1, <2>3
<1>7. slot = SlotAtOrBefore(moment, at)
  BY DEF SlotAtOrBefore, past
<1> HIDE DEF slot
<1> QED
  BY <1>4, <1>5, <1>6, <1>7

-----------------------------------------------------------------------------
(* The slot that a worker handles when the schedule is due at its moment.  *)
LEMMA DueSlot ==
    ASSUME ScheduleInv, NEW w \in Worker, schedule.next <= worker[w].moment
    PROVE  /\ SlotOf(w) \in Slot /\ schedule.next <= SlotOf(w) /\ SlotOf(w) <= clock
           /\ SlotOf(w) + Week \in 0 .. MaxTime + Week
           /\ (SlotOf(w) + Week) % Week = schedule.at
<1> DEFINE slot == SlotOf(w)
<1>1. /\ worker[w].moment \in 0 .. clock /\ clock \in 0 .. MaxTime
      /\ schedule.next \in Int /\ schedule.at \in 0 .. Week - 1
      /\ schedule.next % Week = schedule.at
  BY DEF ScheduleInv, TypeOK, RowsTyped, WorkerInv, MomentPasses
<1>2. /\ slot \in Int /\ slot <= worker[w].moment /\ worker[w].moment < slot + Week
      /\ (slot + Week) % Week = schedule.at
      /\ schedule.next <= slot
  BY <1>1, WeekIsPositive, SlotFacts DEF SlotOf
<1> HIDE DEF slot
<1>3. slot \in Slot /\ slot <= clock /\ slot + Week \in 0 .. MaxTime + Week
  BY <1>1, <1>2, WeekIsPositive DEF Slot
<1> QED
  BY <1>2, <1>3 DEF slot

(* One slot of runs is written, as WeeksGoForward says.                    *)
WeekStep ==
    \A s \in Slot : runs'[s] # runs[s] => runs[s] = {} /\ schedule.next <= s /\ s <= clock

(* Recording a free slot that is due: at once the run and the advance.     *)
LEMMA RecordKeeps ==
    ASSUME ScheduleInv, NEW w \in Worker, schedule.next <= worker[w].moment, ~SlotTaken(SlotOf(w)),
           NEW outcome \in Outcome, NEW file \in SUBSET File, Record(w, outcome, file),
           clock' = clock, since' \in Nat, since <= since',
           outcome = "queued" => \A f \in file : since < f /\ f <= since'
    PROVE  RowsTyped' /\ RowsInv' /\ WeekStep
<1> DEFINE slot == SlotOf(w)
           run == [outcome |-> outcome, file |-> file]
<1>1. /\ slot \in Slot /\ schedule.next <= slot /\ slot <= clock /\ slot \in Int
      /\ slot + Week \in 0 .. MaxTime + Week /\ (slot + Week) % Week = schedule.at
      /\ slot <= slot + Week /\ runs[slot] = {}
  BY DueSlot, WeekIsPositive DEF Slot, SlotTaken
<1>2. /\ schedule' = [schedule EXCEPT !.last = {slot}, !.next = slot + Week]
      /\ runs' = [runs EXCEPT ![slot] = {run}]
  BY DEF Record, Advanced
<1>3. run \in Run /\ run.outcome = outcome /\ run.file = file
  BY DEF Run
<1>4. RowsTyped /\ RowsInv /\ since \in Nat /\ clock \in Nat /\ schedule.next \in Nat
      /\ schedule.at \in 0 .. Week - 1
  BY DEF ScheduleInv, TypeOK, FilesTyped, RowsTyped
<1> HIDE DEF slot, run
<1>5. RowsTyped'
  BY <1>1, <1>2, <1>3, <1>4 DEF RowsTyped
<1>6. \A s \in Slot : runs'[s] = IF s = slot THEN {run} ELSE runs[s]
  BY <1>1, <1>2, <1>4 DEF RowsTyped
<1>7. schedule'.next = slot + Week /\ schedule'.last = {slot}
  BY <1>1, <1>2, <1>4 DEF RowsTyped
<1>8. \A s \in Slot : runs[s] # {} => s <= clock /\ s < slot
  BY <1>1, <1>4 DEF RowsInv, RunsAreBehind, Slot
<1>9. WeeksAreRecorded'
  BY <1>1, <1>6, <1>7 DEF WeeksAreRecorded
<1>10. RunsAreBehind'
  BY <1>1, <1>4, <1>6, <1>7, <1>8 DEF RunsAreBehind, Slot
<1>11. QueuedFilesAreOld'
  <2> SUFFICES ASSUME NEW s \in Slot, NEW r \in runs'[s], r.outcome = "queued", NEW f \in r.file
               PROVE  f <= since'
    BY DEF QueuedFilesAreOld
  <2>1. CASE s = slot
    BY <2>1, <1>3, <1>6
  <2>2. CASE s # slot
    <3>1. r \in runs[s] /\ f <= since /\ f \in File
      BY <2>2, <1>4, <1>6 DEF RowsInv, QueuedFilesAreOld, RowsTyped, Run
    <3> QED
      BY <3>1, <1>4 DEF File
  <2> QED
    BY <2>1, <2>2
<1>12. FilesGoForward'
  <2> SUFFICES ASSUME NEW s \in Slot, NEW t \in Slot, NEW r1 \in runs'[s], NEW r2 \in runs'[t],
                      s < t, r1.outcome = "queued", r2.outcome = "queued",
                      NEW f \in r1.file, NEW g \in r2.file
               PROVE  f < g
    BY DEF FilesGoForward
  <2>1. CASE s = slot
    BY <2>1, <1>1, <1>6, <1>8 DEF Slot
  <2>2. CASE s # slot /\ t = slot
    <3>1. r1 \in runs[s] /\ f <= since /\ f \in File
      BY <2>2, <1>4, <1>6 DEF RowsInv, QueuedFilesAreOld, RowsTyped, Run
    <3>2. r2 = run /\ since < g /\ g \in File
      BY <2>2, <1>3, <1>6
    <3> QED
      BY <3>1, <3>2, <1>4 DEF File
  <2>3. CASE s # slot /\ t # slot
    BY <2>3, <1>4, <1>6 DEF RowsInv, FilesGoForward
  <2> QED
    BY <2>1, <2>2, <2>3
<1>13. WeekStep
  BY <1>1, <1>6 DEF WeekStep
<1> QED
  BY <1>5, <1>9, <1>10, <1>11, <1>12, <1>13 DEF RowsInv

(* Advancing past a slot that was recorded already.                        *)
LEMMA AdvanceKeeps ==
    ASSUME ScheduleInv, NEW w \in Worker, schedule.next <= worker[w].moment, SlotTaken(SlotOf(w)),
           schedule' = Advanced(SlotOf(w)), runs' = runs, clock' = clock, since' = since
    PROVE  RowsTyped' /\ RowsInv'
<1> DEFINE slot == SlotOf(w)
<1>1. /\ slot \in Slot /\ schedule.next <= slot /\ slot <= clock /\ slot \in Int
      /\ slot + Week \in 0 .. MaxTime + Week /\ (slot + Week) % Week = schedule.at
      /\ slot <= slot + Week /\ runs[slot] # {}
  BY DueSlot, WeekIsPositive DEF Slot, SlotTaken
<1>2. schedule' = [schedule EXCEPT !.last = {slot}, !.next = slot + Week]
  BY DEF Advanced
<1>3. RowsTyped /\ RowsInv
  BY DEF ScheduleInv, TypeOK
<1> HIDE DEF slot
<1>4. RowsTyped'
  BY <1>1, <1>2, <1>3 DEF RowsTyped
<1>5. schedule'.next = slot + Week /\ schedule'.last = {slot} /\ schedule.next \in Int
  BY <1>1, <1>2, <1>3 DEF RowsTyped
<1>6. WeeksAreRecorded'
  BY <1>1, <1>5 DEF WeeksAreRecorded
<1>7. RunsAreBehind'
  BY <1>1, <1>3, <1>5, WeekIsPositive DEF RowsInv, RunsAreBehind, Slot
<1>8. FilesGoForward' /\ QueuedFilesAreOld'
  BY <1>3 DEF RowsInv, FilesGoForward, QueuedFilesAreOld
<1> QED
  BY <1>4, <1>6, <1>7, <1>8 DEF RowsInv

-----------------------------------------------------------------------------
(* What a step leaves alone keeps its part of the invariant.               *)
LEMMA RowsStay ==
    ASSUME ScheduleInv, UNCHANGED <<clock, schedule, runs, since>>
    PROVE  RowsTyped' /\ RowsInv' /\ WeekStep
BY DEF ScheduleInv, TypeOK, RowsTyped, RowsInv, WeeksAreRecorded, FilesGoForward,
       RunsAreBehind, QueuedFilesAreOld, WeekStep

WorkerRow == [pc : {"idle", "claimed", "picked", "queued", "refused"}, moment : Slot,
              file : SUBSET File, version : SUBSET Version]

(* One worker goes on to "row", with or without the row lock.              *)
Moves(w, row) ==
    /\ row \in WorkerRow /\ row.moment \in 0 .. clock
    /\ worker' = [worker EXCEPT ![w] = row]
    /\ lock' = IF row.pc \in {"claimed", "picked"} THEN {w} ELSE lock \ {w}

LEMMA MoveKeepsTypes ==
    ASSUME ScheduleInv, NEW w \in Worker, NEW row, Moves(w, row),
           row.pc \in {"claimed", "picked"} => lock \subseteq {w}
    PROVE  WorkersTyped'
<1>1. WorkersTyped
  BY DEF ScheduleInv, TypeOK
<1>2. /\ worker' \in [Worker -> WorkerRow]
      /\ \A u \in Worker : worker'[u] = IF u = w THEN row ELSE worker[u]
  BY <1>1 DEF Moves, WorkersTyped, WorkerRow
<1>3. lock = {} \/ \E u \in Worker : lock = {u}
  BY <1>1 DEF WorkersTyped
<1>4. lock' = {} \/ \E u \in Worker : lock' = {u}
  BY <1>3 DEF Moves
<1>5. \A u \in Worker : lock' = {u} <=> worker'[u].pc \in {"claimed", "picked"}
  BY <1>1, <1>2, <1>3 DEF Moves, WorkersTyped
<1> QED
  BY <1>2, <1>4, <1>5 DEF WorkersTyped, WorkerRow

(* The rows stay: the others rely on what they relied on.                  *)
LEMMA MoveKeepsWorkers ==
    ASSUME ScheduleInv, NEW w \in Worker, NEW row, Moves(w, row),
           UNCHANGED <<clock, schedule, runs, since, stored>>,
           row.pc \in {"claimed", "picked"} => schedule.next <= row.moment,
           row.pc = "picked" =>
               /\ runs[SlotAtOrBefore(row.moment, schedule.at)] = {}
               /\ row.file \subseteq stored
               /\ \A f \in row.file : since < f
    PROVE  \A u \in Worker : WorkerInv(u)'
<1> SUFFICES ASSUME NEW u \in Worker PROVE WorkerInv(u)'
  OBVIOUS
<1>1. worker'[u] = IF u = w THEN row ELSE worker[u]
  BY DEF Moves, ScheduleInv, TypeOK, WorkersTyped
<1>2. MomentPasses(u)' /\ HolderIsDue(u)' /\ PickIsNew(u)'
  <2>1. CASE u = w
    BY <2>1, <1>1 DEF Moves, MomentPasses, HolderIsDue, PickIsNew, SlotOf
  <2>2. CASE u # w
    BY <2>2, <1>1 DEF ScheduleInv, WorkerInv, MomentPasses, HolderIsDue, PickIsNew, SlotOf
  <2> QED
    BY <2>1, <2>2
<1> QED
  BY <1>2 DEF WorkerInv

(* The rows change under the lock, and the lock is given up: no worker has *)
(* anything left to rely on but its moment.                                *)
LEMMA ReleaseKeepsWorkers ==
    ASSUME ScheduleInv, NEW w \in Worker, NEW row, Moves(w, row), clock' = clock,
           lock \subseteq {w}, row.pc \notin {"claimed", "picked"}
    PROVE  \A u \in Worker : WorkerInv(u)'
<1> SUFFICES ASSUME NEW u \in Worker PROVE WorkerInv(u)'
  OBVIOUS
<1>1. worker'[u] = IF u = w THEN row ELSE worker[u]
  BY DEF Moves, ScheduleInv, TypeOK, WorkersTyped
<1>2. worker'[u].pc \notin {"claimed", "picked"}
  BY <1>1 DEF ScheduleInv, TypeOK, WorkersTyped
<1>3. MomentPasses(u)'
  BY <1>1 DEF Moves, ScheduleInv, WorkerInv, MomentPasses
<1> QED
  BY <1>2, <1>3 DEF WorkerInv, HolderIsDue, PickIsNew

(* The rows that a worker goes on to are rows.                             *)
LEMMA RowsOfWorkers ==
    ASSUME ScheduleInv, NEW w \in Worker
    PROVE  /\ worker[w] \in WorkerRow /\ worker[w].moment \in 0 .. clock
           /\ Idle \in WorkerRow /\ Idle.pc = "idle" /\ Idle.moment \in 0 .. clock
           /\ \A pc \in {"queued", "refused"} :
                 /\ Left(w, pc) \in WorkerRow /\ Left(w, pc).pc = pc
                 /\ Left(w, pc).moment \in 0 .. clock
<1>1. worker[w] \in WorkerRow /\ worker[w].moment \in 0 .. clock /\ clock \in 0 .. MaxTime
  BY DEF ScheduleInv, TypeOK, WorkersTyped, WorkerRow, WorkerInv, MomentPasses
<1>2. 0 \in Slot /\ Idle \in WorkerRow /\ Idle.pc = "idle" /\ Idle.moment \in 0 .. clock
  BY <1>1, WeekIsPositive DEF Idle, WorkerRow, Slot
<1> QED
  BY <1>1, <1>2 DEF Left, Idle, WorkerRow

(* A holder has the lock, and the others have not.                         *)
LEMMA Alone ==
    ASSUME ScheduleInv, NEW w \in Worker
    PROVE  /\ worker[w].pc \in {"claimed", "picked"} => lock = {w}
           /\ worker[w].pc \notin {"claimed", "picked"} => lock \ {w} = lock
BY DEF ScheduleInv, TypeOK, WorkersTyped

-----------------------------------------------------------------------------
(* Every step keeps the invariant, and writes runs as WeekStep says.       *)
Kept == ScheduleInv' /\ WeekStep

(* A worker moves on; the rows and the files stay.                         *)
LEMMA MoveKeeps ==
    ASSUME ScheduleInv, NEW w \in Worker, NEW row, Moves(w, row),
           UNCHANGED <<clock, rows, files>>, faults' \in 0 .. Faults,
           row.pc \in {"claimed", "picked"} =>
               lock \subseteq {w} /\ schedule.next <= row.moment,
           row.pc = "picked" =>
               /\ runs[SlotAtOrBefore(row.moment, schedule.at)] = {}
               /\ row.file \subseteq stored
               /\ \A f \in row.file : since < f
    PROVE  Kept
<1>1. UNCHANGED <<clock, schedule, runs, begun, since, stored, scored>>
  BY DEF rows, files
<1>2. RowsTyped' /\ RowsInv' /\ WeekStep
  BY <1>1, RowsStay
<1>3. WorkersTyped' /\ \A u \in Worker : WorkerInv(u)'
  BY <1>1, MoveKeepsTypes, MoveKeepsWorkers
<1>4. FilesTyped' /\ clock' \in 0 .. MaxTime
  BY <1>1 DEF ScheduleInv, TypeOK, FilesTyped
<1> QED
  BY <1>2, <1>3, <1>4 DEF Kept, ScheduleInv, TypeOK

(* Nothing of the workers moves.                                           *)
LEMMA RestKeeps ==
    ASSUME ScheduleInv, UNCHANGED <<worker, lock, faults>>, clock' \in 0 .. MaxTime, clock <= clock',
           runs' = runs, since' = since, stored \subseteq stored', FilesTyped',
           \/ schedule' = schedule
           \/ lock = {} /\ RowsTyped' /\ RowsInv'
    PROVE  Kept
<1>1. WorkersTyped' /\ faults' \in 0 .. Faults
  BY DEF ScheduleInv, TypeOK, WorkersTyped
<1>2. RowsTyped' /\ RowsInv'
  <2>1. CASE schedule' = schedule
    <3>1. RowsTyped' /\ WeeksAreRecorded' /\ FilesGoForward' /\ QueuedFilesAreOld'
      BY <2>1 DEF ScheduleInv, TypeOK, RowsTyped, RowsInv, WeeksAreRecorded, FilesGoForward,
                  QueuedFilesAreOld
    <3>2. RunsAreBehind'
      BY <2>1 DEF ScheduleInv, TypeOK, RowsInv, RunsAreBehind, Slot
    <3> QED
      BY <3>1, <3>2 DEF RowsInv
  <2> QED
    BY <2>1
<1>3. ASSUME NEW u \in Worker PROVE WorkerInv(u)'
  <2>1. MomentPasses(u)'
    BY DEF ScheduleInv, TypeOK, WorkerInv, MomentPasses
  <2>2. CASE schedule' = schedule
    BY <2>1, <2>2 DEF ScheduleInv, WorkerInv, HolderIsDue, PickIsNew, SlotOf
  <2>3. CASE lock = {}
    <3>1. worker'[u].pc \notin {"claimed", "picked"}
      BY <2>3, Alone
    <3> QED
      BY <2>1, <3>1 DEF WorkerInv, HolderIsDue, PickIsNew
  <2> QED
    BY <2>2, <2>3
<1>4. WeekStep
  BY DEF WeekStep
<1> QED
  BY <1>1, <1>2, <1>3, <1>4 DEF Kept, ScheduleInv, TypeOK

LEMMA PassKeeps == ScheduleInv /\ Pass => Kept
<1> SUFFICES ASSUME ScheduleInv, Pass PROVE Kept
  OBVIOUS
<1>1. clock' \in 0 .. MaxTime /\ clock <= clock'
  BY WeekIsPositive DEF Pass, ScheduleInv, TypeOK
<1>2. /\ UNCHANGED <<runs, worker, lock, faults, begun, stored, since, scored>>
      /\ schedule' = schedule /\ stored \subseteq stored'
  BY DEF Pass, rows, files
<1>3. FilesTyped'
  BY <1>2 DEF ScheduleInv, TypeOK, FilesTyped
<1> QED
  BY <1>1, <1>2, <1>3, RestKeeps

(* A save plans a slot after every point of its own clock: after the point *)
(* before the worker's, so never before a slot that was recorded.          *)
LEMMA SaveKeeps == ScheduleInv /\ Save => Kept
<1> SUFFICES ASSUME ScheduleInv, Save PROVE Kept
  OBVIOUS
<1>1. /\ lock = {}
      /\ UNCHANGED <<clock, runs, lock, worker, faults, begun, stored, since, scored>>
  BY DEF Save, files
<1>2. PICK enabled \in BOOLEAN, at \in 0 .. Week - 1, now \in clock - Lag .. clock :
         schedule' = Saved(enabled, at, now)
  BY DEF Save
<1>3. /\ RowsTyped /\ RowsInv /\ clock \in 0 .. MaxTime
      /\ FilesTyped' /\ now \in Int /\ clock - 1 <= now /\ now <= clock
  BY <1>1, NumberAssumption DEF ScheduleInv, TypeOK, FilesTyped
<1> DEFINE next == NextSlotAfter(now, at)
<1>4. next \in Int /\ now < next /\ next <= now + Week /\ next % Week = at
  BY <1>3, SlotFacts, WeekIsPositive DEF NextSlotAfter
<1> HIDE DEF next
<1>5. next \in 0 .. MaxTime + Week /\ clock <= next
  BY <1>3, <1>4, WeekIsPositive
<1>6. /\ schedule' = [schedule EXCEPT !.enabled = enabled, !.at = at, !.next = next]
      /\ schedule'.next = next /\ schedule'.last = schedule.last
  BY <1>2, <1>3 DEF Saved, next, RowsTyped
<1>7. RowsTyped'
  BY <1>1, <1>3, <1>4, <1>5, <1>6 DEF RowsTyped
<1>8. RowsInv'
  <2>1. WeeksAreRecorded' /\ FilesGoForward' /\ QueuedFilesAreOld'
    BY <1>1, <1>3, <1>6 DEF RowsInv, WeeksAreRecorded, FilesGoForward, QueuedFilesAreOld
  <2>2. RunsAreBehind'
    BY <1>1, <1>3, <1>4, <1>5, <1>6 DEF RowsInv, RunsAreBehind, Slot
  <2> QED
    BY <2>1, <2>2 DEF RowsInv
<1> QED
  BY <1>1, <1>3, <1>7, <1>8, RestKeeps

LEMMA UploadsKeep ==
    ASSUME ScheduleInv, BeginUpload \/ \E f \in File : CommitUpload(f)
    PROVE  Kept
<1>1. /\ UNCHANGED <<clock, runs, lock, worker, faults, since>>
      /\ schedule' = schedule /\ stored \subseteq stored'
  BY DEF BeginUpload, CommitUpload, rows
<1>2. FilesTyped'
  <2>1. FilesTyped /\ Files \in Nat
    BY NumberAssumption DEF ScheduleInv, TypeOK
  <2>2. CASE BeginUpload
    BY <2>1, <2>2 DEF BeginUpload, FilesTyped
  <2>3. CASE \E f \in File : CommitUpload(f)
    BY <2>1, <2>3 DEF CommitUpload, FilesTyped
  <2> QED
    BY <2>2, <2>3
<1>3. clock' \in 0 .. MaxTime /\ clock <= clock'
  BY <1>1 DEF ScheduleInv, TypeOK
<1> QED
  BY <1>1, <1>2, <1>3, RestKeeps

LEMMA ScoreByHandKeeps ==
    ASSUME ScheduleInv, NEW f \in File, NEW version \in Version, ScoreByHand(f, version)
    PROVE  Kept
<1>1. /\ UNCHANGED <<clock, runs, lock, worker, faults, begun, stored, since>>
      /\ schedule' = schedule /\ stored \subseteq stored'
  BY DEF ScoreByHand, rows
<1>2. FilesTyped'
  BY <1>1 DEF ScoreByHand, ScheduleInv, TypeOK, FilesTyped
<1>3. clock' \in 0 .. MaxTime /\ clock <= clock'
  BY <1>1 DEF ScheduleInv, TypeOK
<1> QED
  BY <1>1, <1>2, <1>3, RestKeeps

-----------------------------------------------------------------------------
(* The steps of a tick.                                                    *)
LEMMA ClaimKeeps ==
    ASSUME ScheduleInv, NEW w \in Worker, Claim(w)
    PROVE  Kept
<1>1. PICK moment \in 0 .. clock :
         /\ Due(moment)
         /\ worker' = [worker EXCEPT ![w] = [Idle EXCEPT !.pc = "claimed", !.moment = moment]]
  BY DEF Claim
<1> DEFINE row == [Idle EXCEPT !.pc = "claimed", !.moment = moment]
<1>2. clock \in 0 .. MaxTime /\ moment \in Slot
  BY WeekIsPositive DEF ScheduleInv, TypeOK, Slot
<1>3. row \in WorkerRow /\ row.pc = "claimed" /\ row.moment = moment
  BY <1>2, RowsOfWorkers DEF WorkerRow, Idle
<1>4. lock = {} /\ lock' = {w} /\ UNCHANGED <<clock, rows, files, faults>>
  BY DEF Claim
<1>5. worker' = [worker EXCEPT ![w] = row] /\ schedule.next <= row.moment
  BY <1>1, <1>3 DEF Due
<1> HIDE DEF row
<1>6. Moves(w, row)
  BY <1>3, <1>4, <1>5 DEF Moves
<1>7. faults' \in 0 .. Faults
  BY <1>4 DEF ScheduleInv, TypeOK
<1> QED
  BY <1>3, <1>4, <1>5, <1>6, <1>7, MoveKeeps

(* The end of a tick under the lock, with its outcome or without.          *)
LEMMA RecordEnds ==
    ASSUME ScheduleInv, NEW w \in Worker, lock \subseteq {w},
           schedule.next <= worker[w].moment, ~SlotTaken(SlotOf(w)),
           NEW outcome \in Outcome, NEW file \in SUBSET File, Record(w, outcome, file),
           NEW row, Moves(w, row), row.pc \notin {"claimed", "picked"},
           UNCHANGED <<clock, begun, stored, faults>>, FilesTyped', since <= since',
           outcome = "queued" => \A f \in file : since < f /\ f <= since'
    PROVE  Kept
<1>1. since' \in Nat /\ clock' \in 0 .. MaxTime /\ faults' \in 0 .. Faults
  BY DEF FilesTyped, ScheduleInv, TypeOK
<1>2. RowsTyped' /\ RowsInv' /\ WeekStep
  BY <1>1, RecordKeeps
<1>3. WorkersTyped' /\ \A u \in Worker : WorkerInv(u)'
  BY MoveKeepsTypes, ReleaseKeepsWorkers
<1> QED
  BY <1>1, <1>2, <1>3 DEF Kept, ScheduleInv, TypeOK

LEMMA TickEnds ==
    ASSUME ScheduleInv, NEW w \in Worker, lock \subseteq {w},
           schedule.next <= worker[w].moment, UNCHANGED <<clock, files, faults>>,
           \/ SlotTaken(SlotOf(w)) /\ OnlyAdvance(w)
           \/ ~SlotTaken(SlotOf(w)) /\ \E outcome \in {"skipped", "no_new_file"} : Finish(w, outcome)
    PROVE  Kept
<1>1. /\ UNCHANGED <<begun, stored, since, scored>> /\ FilesTyped'
      /\ clock' \in 0 .. MaxTime /\ faults' \in 0 .. Faults /\ since <= since'
  BY DEF files, ScheduleInv, TypeOK, FilesTyped
<1>2. /\ Moves(w, Idle) /\ Idle.pc \notin {"claimed", "picked"}
  <2>1. worker' = [worker EXCEPT ![w] = Idle] /\ lock' = {}
    BY DEF OnlyAdvance, Finish, Record
  <2> QED
    BY <2>1, RowsOfWorkers DEF Moves
<1>3. CASE SlotTaken(SlotOf(w)) /\ OnlyAdvance(w)
  <2>1. RowsTyped' /\ RowsInv' /\ WeekStep
    BY <1>1, <1>3, AdvanceKeeps DEF OnlyAdvance, WeekStep
  <2>2. WorkersTyped' /\ \A u \in Worker : WorkerInv(u)'
    BY <1>2, MoveKeepsTypes, ReleaseKeepsWorkers
  <2> QED
    BY <1>1, <2>1, <2>2 DEF Kept, ScheduleInv, TypeOK
<1>4. ASSUME NEW outcome \in {"skipped", "no_new_file"}, Finish(w, outcome), ~SlotTaken(SlotOf(w))
      PROVE  Kept
  <2>1. outcome \in Outcome /\ outcome # "queued" /\ {} \in SUBSET File /\ Record(w, outcome, {})
    BY <1>4 DEF Outcome, Finish
  <2> QED
    BY <1>1, <1>2, <1>4, <2>1, RecordEnds
<1> QED
  BY <1>3, <1>4

(* The file that is picked was not there when the last run was queued.     *)
LEMMA PickKeeps ==
    ASSUME ScheduleInv, NEW w \in Worker, worker[w].pc = "claimed", ~SlotTaken(SlotOf(w)),
           NEW version \in Version, NEW f \in NewestNewFile(version), Pick(w, f, version),
           UNCHANGED <<clock, files, faults>>
    PROVE  Kept
<1> DEFINE row == [worker[w] EXCEPT !.pc = "picked", !.file = {f}, !.version = {version}]
<1>1. worker[w] \in WorkerRow /\ worker[w].moment \in 0 .. clock /\ lock = {w}
  BY RowsOfWorkers, Alone
<1>2. f \in stored /\ since < f /\ f \in File
  <2>1. f \in stored /\ since < f
    BY DEF NewestNewFile, NewScoringFiles
  <2>2. FilesTyped /\ Files \in Nat
    BY NumberAssumption DEF ScheduleInv, TypeOK
  <2> QED
    BY <2>1, <2>2 DEF FilesTyped, File
<1>3. /\ row \in WorkerRow /\ row.pc = "picked" /\ row.moment = worker[w].moment
      /\ row.file = {f}
  BY <1>1, <1>2 DEF WorkerRow
<1>4. worker' = [worker EXCEPT ![w] = row] /\ UNCHANGED <<rows, lock>>
  BY <1>1 DEF Pick, ScheduleInv, TypeOK, WorkersTyped
<1> HIDE DEF row
<1>5. Moves(w, row)
  BY <1>1, <1>3, <1>4 DEF Moves
<1>6. schedule.next <= row.moment /\ runs[SlotAtOrBefore(row.moment, schedule.at)] = {}
  BY <1>3 DEF ScheduleInv, WorkerInv, HolderIsDue, SlotTaken, SlotOf
<1>7. UNCHANGED <<clock, rows, files>> /\ faults' \in 0 .. Faults
  BY <1>4 DEF ScheduleInv, TypeOK
<1> QED
  BY <1>1, <1>2, <1>3, <1>5, <1>6, <1>7, MoveKeeps

LEMMA HandleKeeps ==
    ASSUME ScheduleInv, NEW w \in Worker, Handle(w)
    PROVE  Kept
<1>1. /\ worker[w].pc = "claimed" /\ lock \subseteq {w}
      /\ schedule.next <= worker[w].moment /\ UNCHANGED <<clock, files, faults>>
  BY Alone DEF Handle, ScheduleInv, WorkerInv, HolderIsDue
<1>2. CASE \/ SlotTaken(SlotOf(w)) /\ OnlyAdvance(w)
           \/ ~SlotTaken(SlotOf(w)) /\ \E outcome \in {"skipped", "no_new_file"} : Finish(w, outcome)
  BY <1>1, <1>2, TickEnds
<1>3. CASE /\ ~SlotTaken(SlotOf(w))
           /\ \E version \in Version : \E f \in NewestNewFile(version) : Pick(w, f, version)
  BY <1>1, <1>3, PickKeeps
<1> QED
  BY <1>2, <1>3 DEF Handle

LEMMA QueueKeeps ==
    ASSUME ScheduleInv, NEW w \in Worker, Queue(w)
    PROVE  Kept
<1> DEFINE file == worker[w].file
<1>1. /\ worker[w].pc = "picked" /\ lock = {w} /\ schedule.next <= worker[w].moment
      /\ ~SlotTaken(SlotOf(w)) /\ file \subseteq stored /\ \A f \in file : since < f
  BY Alone DEF Queue, ScheduleInv, WorkerInv, HolderIsDue, PickIsNew, SlotTaken
<1>2. /\ Record(w, "queued", file) /\ since' = begun
      /\ UNCHANGED <<clock, begun, stored, faults>>
  BY DEF Queue
<1>3. FilesTyped /\ worker[w] \in WorkerRow /\ Files \in Nat
  BY RowsOfWorkers, NumberAssumption DEF ScheduleInv, TypeOK
<1>4. file \in SUBSET File /\ "queued" \in Outcome
  BY <1>3 DEF WorkerRow, Outcome
<1>5. FilesTyped'
  BY <1>3 DEF Queue, FilesTyped, WorkerRow
<1>6. since <= since' /\ \A f \in file : f <= since'
  <2>1. begun \in Nat /\ since \in 0 .. begun /\ \A f \in stored : f \in 1 .. begun
    BY <1>3 DEF FilesTyped
  <2>2. since <= begun /\ \A f \in stored : f <= begun
    BY <2>1
  <2> QED
    BY <1>1, <1>2, <2>2
<1>7. Moves(w, Left(w, "queued")) /\ Left(w, "queued").pc \notin {"claimed", "picked"}
  <2>1. lock' = {} /\ worker' = [worker EXCEPT ![w] = Left(w, "queued")]
    BY DEF Queue, Record
  <2> QED
    BY <1>1, <2>1, RowsOfWorkers DEF Moves
<1> HIDE DEF file
<1> QED
  BY <1>1, <1>2, <1>4, <1>5, <1>6, <1>7, RecordEnds

(* A worker lets go of what it had, and nothing else changes.              *)
LEMMA LeaveKeeps ==
    ASSUME ScheduleInv, NEW w \in Worker, faults' \in 0 .. Faults,
           NEW row \in {Idle, Left(w, "refused")}, worker' = [worker EXCEPT ![w] = row],
           lock' = lock \ {w}, UNCHANGED <<clock, rows, files>>
    PROVE  Kept
<1>1. row.pc \notin {"claimed", "picked"} /\ row \in WorkerRow /\ row.moment \in 0 .. clock
  BY RowsOfWorkers
<1>2. Moves(w, row)
  BY <1>1 DEF Moves
<1> QED
  BY <1>1, <1>2, MoveKeeps

LEMMA LeavingKeeps ==
    ASSUME ScheduleInv, NEW w \in Worker, Dispatch(w) \/ Refuse(w) \/ Raise(w) \/ Crash(w)
    PROVE  Kept
<1>1. faults \in 0 .. Faults /\ Faults \in Nat
  BY NumberAssumption DEF ScheduleInv, TypeOK
<1>2. CASE Dispatch(w)
  BY <1>1, <1>2, Alone, LeaveKeeps DEF Dispatch
<1>3. CASE Refuse(w) \/ Raise(w)
  <2>1. /\ worker' = [worker EXCEPT ![w] = Left(w, "refused")] /\ lock' = lock \ {w}
        /\ UNCHANGED <<clock, rows, files>>
    BY <1>3 DEF Refuse, Raise, Refused, RolledBack, rows
  <2>2. faults' \in 0 .. Faults
    BY <1>1, <1>3 DEF Refuse, Raise
  <2> QED
    BY <2>1, <2>2, LeaveKeeps
<1>4. CASE Crash(w)
  <2>1. /\ worker' = [worker EXCEPT ![w] = Idle] /\ lock' = lock \ {w}
        /\ UNCHANGED <<clock, rows, files>>
    BY <1>4 DEF Crash
  <2>2. faults' \in 0 .. Faults
    BY <1>1, <1>4 DEF Crash
  <2> QED
    BY <2>1, <2>2, LeaveKeeps
<1> QED
  BY <1>2, <1>3, <1>4

(* After a rollback the moment of the tick counts only if the schedule is  *)
(* due at it again.                                                        *)
LEMMA RecordAgainKeeps ==
    ASSUME ScheduleInv, NEW w \in Worker, RecordAgain(w)
    PROVE  Kept
<1>1. worker[w].pc = "refused" /\ UNCHANGED <<clock, files, faults>> /\ faults \in 0 .. Faults
  BY DEF RecordAgain, ScheduleInv, TypeOK
<1>2. CASE lock # {} \/ ~StillDue(w)
  BY <1>1, <1>2, Alone, LeaveKeeps DEF RecordAgain
<1>3. CASE lock = {} /\ StillDue(w)
  <2>1. schedule.next <= worker[w].moment /\ lock \subseteq {w}
    BY <1>3 DEF StillDue, Due
  <2> QED
    BY <1>1, <1>3, <2>1, TickEnds DEF RecordAgain
<1> QED
  BY <1>2, <1>3

-----------------------------------------------------------------------------
LEMMA InitEstablishes == Init => ScheduleInv
<1> SUFFICES ASSUME Init PROVE ScheduleInv
  OBVIOUS
<1>1. PICK at \in 0 .. Week - 1 :
         schedule = [enabled |-> TRUE, at |-> at, next |-> NextSlotAfter(0, at), last |-> {}]
  BY DEF Init
<1>2. /\ clock = 0 /\ lock = {} /\ runs = [s \in Slot |-> {}] /\ worker = [w \in Worker |-> Idle]
      /\ begun = 0 /\ stored = {} /\ since = 0 /\ scored = {} /\ faults = 0
  BY DEF Init
<1>3. NextSlotAfter(0, at) \in 0 .. MaxTime + Week /\ NextSlotAfter(0, at) % Week = at
  <2> DEFINE slot == SlotAtOrBefore(0, at)
  <2>1. slot \in Int /\ slot <= 0 /\ 0 < slot + Week /\ (slot + Week) % Week = at
    BY SlotFacts
  <2> HIDE DEF slot
  <2>2. slot + Week \in 0 .. MaxTime + Week
    BY <2>1, WeekIsPositive
  <2> QED
    BY <2>1, <2>2 DEF NextSlotAfter, slot
<1>4. RowsTyped
  BY <1>1, <1>2, <1>3 DEF RowsTyped
<1>5. Idle \in WorkerRow /\ Idle.pc = "idle" /\ Idle.moment = 0
  <2>1. 0 \in Slot
    BY WeekIsPositive DEF Slot
  <2> QED
    BY <2>1 DEF Idle, WorkerRow
<1>6. \A w \in Worker : worker[w] = Idle
  BY <1>2
<1>7. WorkersTyped
  BY <1>2, <1>5, <1>6 DEF WorkersTyped, WorkerRow
<1>8. FilesTyped /\ clock \in 0 .. MaxTime /\ faults \in 0 .. Faults
  BY <1>2, NumberAssumption DEF FilesTyped
<1>9. RowsInv
  BY <1>1, <1>2 DEF RowsInv, WeeksAreRecorded, FilesGoForward, RunsAreBehind, QueuedFilesAreOld
<1>10. \A w \in Worker : WorkerInv(w)
  <2>1. 0 \in 0 .. clock
    BY <1>2
  <2> QED
    BY <1>5, <1>6, <2>1 DEF WorkerInv, MomentPasses, HolderIsDue, PickIsNew
<1> QED
  BY <1>4, <1>7, <1>8, <1>9, <1>10 DEF ScheduleInv, TypeOK

LEMMA NextKeeps == ScheduleInv /\ [Next]_vars => Kept
<1> SUFFICES ASSUME ScheduleInv, [Next]_vars PROVE Kept
  OBVIOUS
<1>1. CASE Pass \/ Save
  BY <1>1, PassKeeps, SaveKeeps
<1>2. CASE BeginUpload \/ \E f \in File : CommitUpload(f)
  BY <1>2, UploadsKeep
<1>3. CASE \E f \in File, version \in Version : ScoreByHand(f, version)
  BY <1>3, ScoreByHandKeeps
<1>4. ASSUME NEW w \in Worker, Tick(w) \/ Raise(w) \/ Crash(w) PROVE Kept
  BY <1>4, ClaimKeeps, HandleKeeps, QueueKeeps, LeavingKeeps, RecordAgainKeeps DEF Tick
<1>5. CASE UNCHANGED vars
  <2>1. UNCHANGED <<worker, lock, faults, runs, schedule, clock, begun, stored, since, scored>>
    BY <1>5 DEF vars, rows, files
  <2>2. /\ schedule' = schedule /\ clock' \in 0 .. MaxTime /\ clock <= clock'
        /\ stored \subseteq stored' /\ FilesTyped'
    BY <2>1 DEF ScheduleInv, TypeOK, FilesTyped
  <2> QED
    BY <2>1, <2>2, RestKeeps
<1> QED
  BY <1>1, <1>2, <1>3, <1>4, <1>5 DEF Next

LEMMA ScheduleInvHolds == Spec => []ScheduleInv
<1>1. ScheduleInv /\ [Next]_vars => ScheduleInv'
  BY NextKeeps DEF Kept
<1> QED
  BY InitEstablishes, <1>1, PTL DEF Spec

-----------------------------------------------------------------------------
(* Every variable keeps its type; a worker has the row lock exactly from   *)
(* its claim to the end of its transaction, and the slot that is planned   *)
(* is at the schedule's point of the week.                                 *)
THEOREM TypeCorrect == Spec => []TypeOK
<1>1. ScheduleInv => TypeOK
  BY DEF ScheduleInv
<1> QED
  BY <1>1, ScheduleInvHolds, PTL

(* No week goes by in silence: the slot that the schedule has as its last  *)
(* is in scoring_schedule_runs, whatever crashed or was rolled back.       *)
THEOREM WeeksRecorded == Spec => []WeeksAreRecorded
<1>1. ScheduleInv => WeeksAreRecorded
  BY DEF ScheduleInv, RowsInv
<1> QED
  BY <1>1, ScheduleInvHolds, PTL

(* The files of the queued runs go up with their slots: no file is queued  *)
(* twice, and none after one that came later.                              *)
THEOREM FilesForward == Spec => []FilesGoForward
<1>1. ScheduleInv => FilesGoForward
  BY DEF ScheduleInv, RowsInv
<1> QED
  BY <1>1, ScheduleInvHolds, PTL

(* A slot is recorded once and for good, when its time has come, and never *)
(* before the slot that the last run or a save planned.                    *)
THEOREM WeeksForward == Spec => WeeksGoForward
<1>1. ScheduleInv /\ [Next]_vars =>
        [\A s \in Slot : runs'[s] # runs[s] =>
            runs[s] = {} /\ schedule.next <= s /\ s <= clock]_vars
  BY NextKeeps DEF Kept, WeekStep
<1> QED
  BY <1>1, ScheduleInvHolds, PTL DEF Spec, WeeksGoForward
=============================================================================
