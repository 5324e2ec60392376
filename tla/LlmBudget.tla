------------------------------ MODULE LlmBudget ------------------------------
(***************************************************************************)
(* The money side of the LLM gateway: app/agents/gateway (budget.py,       *)
(* ledger.py, service.py) and the agent runs that hold a budget            *)
(* (app/agents/harness/service.py).                                        *)
(*                                                                         *)
(*   tables   workspace_llm_budgets        counter, made                   *)
(*            agent_runs                   run, held                       *)
(*            llm_invocations              ledger                          *)
(*   parties  the owner of a hold (the process that executes an agent run, *)
(*            or one assistant-less batch), the gateway calls made on it,  *)
(*            and whoever ends an abandoned run from its row: the terminal *)
(*            sync of its job, a later attempt of the job, the sweep of    *)
(*            idle turns.                                                  *)
(*                                                                         *)
(* Every action is one committed transaction, or one read that a later     *)
(* transaction acts on.  All transactions on a hold lock its counters in   *)
(* one order first, so each is one step.  Names of models, prices, tokens, *)
(* redaction, routing, kill switches and rate limits are left out: a call  *)
(* that they refuse is a call that is not made.                            *)
(***************************************************************************)
EXTENDS Amounts

CONSTANTS
    Run,         \* agent runs: the hold of a run has the run's name
    Turn,        \* those that are thread turns; the others have a job
    Loose,       \* reservations without a run
    Call, HoldOf,        \* gateway calls, and the hold each one is made on
    Counter, CountersOf, \* counter rows, and those each hold is for
    Existing,    \* the counter rows that exist already
    Rolling,     \* counters with a period (month); the others cap one run
    Limit,       \* of every counter
    HardStop,    \* refuse beyond the limit
    Estimates,   \* amounts that may be asked for a hold
    Worst,       \* possible worst cases of one attempt of a call
    Overrun,     \* how far the reported usage may exceed the worst case
    Failing,     \* holds whose owner may fail to release
    Periods      \* period changes considered

Hold == Run \cup Loose

ASSUME HoldAssumption ==
    /\ Turn \subseteq Run
    /\ Run \cap Loose = {}
    /\ HoldOf \in [Call -> Hold]
    /\ CountersOf \in [Hold -> SUBSET Counter]
    /\ Existing \subseteq Counter
    /\ Rolling \subseteq Counter
    /\ Failing \subseteq Hold

ASSUME AmountAssumption ==
    /\ Limit \in [Counter -> Nat]
    /\ HardStop \in BOOLEAN
    /\ Estimates \subseteq Nat
    /\ Worst \subseteq Nat
    /\ Overrun \in Nat
    /\ Periods \in Nat

ASSUME FiniteAssumption == IsFiniteSet(Hold) /\ IsFiniteSet(Call)

VARIABLES
    today,     \* the current period
    counter,   \* spent, reserved and the period they are for
    made,      \* the counter rows that exist
    run,       \* status of every agent run; "ended" has its budget_released_at
    held,      \* agent_runs.held_micros; of a loose hold the sealed reservation
    marked,    \* reservations this process knows as released (_RELEASED)
    owner,     \* where the owner of every hold is
    ledger,    \* the llm_invocations row of every call
    caller,    \* where every call is
    ender,     \* the counters that an ender of a run looked up: none or one set
    loose      \* history: whether a loose hold is on its counters

tables == <<counter, made, run, held, ledger>>
vars == <<today, counter, made, run, held, marked, owner, ledger, caller, ender, loose>>

-----------------------------------------------------------------------------
(* Rows.                                                                   *)

CounterRow == [spent : Nat, reserved : Nat, since : 0 .. Periods]

(* completed_at is NULL while a row is pending.  `freed' and `at' are      *)
(* history: what the settle took from the hold, and in which period.       *)
Invocation == [state : {"none", "pending", "done"}, worst : Nat, cost : Nat,
               settled : BOOLEAN, freed : Nat, at : 0 .. Periods]

NoInvocation == [state |-> "none", worst |-> 0, cost |-> 0, settled |-> FALSE,
                 freed |-> 0, at |-> 0]

(* Where a call is: before the gateway, between the check of the hold and  *)
(* the commit of its pending row, with the provider, between the check for *)
(* its second attempt and the commit of the raised estimate, answered,     *)
(* with its row final, and returned.  `paid' is outcome.cost_micros.       *)
Asking == {"asking", "reasking"}
InGateway == Asking \cup {"inflight", "answered", "finalized"}
Caller == [pc : {"idle", "over"} \cup InGateway, worst : Nat, paid : Nat, attempt : 0 .. 2]

(* An owner is "idle" while its run is queued, "held" while it may call    *)
(* the gateway, "unheld" when it has to end a run without a reservation.   *)
Working == {"started", "held", "unheld", "ending", "marking"}
Owner == Working \cup {"idle", "gone", "dead"}

CallsOn(h) == {c \in Call : HoldOf[c] = h}

(* sum(cost_micros) of the settled rows of a hold (_settled_micros,        *)
(* _run_settled_micros).                                                   *)
Settled(h) == Total([c \in CallsOn(h) |-> IF ledger[c].settled THEN ledger[c].cost ELSE 0])

IsReleased(h) == h \in marked \/ (h \in Run /\ run[h] = "ended")

(* Wrong: a released hold still has something to free. *)
RemainingHoldEvenReleased(h) == Less(held[h], Settled(h))

(* remaining_hold: what is still on the counters.                          *)
RemainingHold(h) == IF IsReleased(h) THEN 0 ELSE Less(held[h], Settled(h))

(* What a row takes from the room of its hold.                             *)
Use(row) == IF row.state = "pending" THEN row.worst ELSE row.cost

AvailableHold(h, others) ==
    IF IsReleased(h) THEN 0
    ELSE Less(held[h], Total([c \in others |-> Use(ledger[c])]))

(* Wrong: nothing is locked between the check and the commit. *)
UnlockedAlways(h) == TRUE

(* The advisory lock of a hold, from the check to the commit.              *)
Unlocked(h) == \A c \in CallsOn(h) : caller[c].pc \notin Asking

Rolled(row, c) == IF c \in Rolling THEN [row EXCEPT !.since = today,
                                        !.spent = IF row.since < today THEN 0 ELSE @]
                  ELSE row

-----------------------------------------------------------------------------
Init ==
    /\ today = 0
    /\ counter = [c \in Counter |-> [spent |-> 0, reserved |-> 0, since |-> 0]]
    /\ made = Existing
    /\ run = [r \in Run |-> "queued"]
    /\ held = [h \in Hold |-> 0]
    /\ marked = {}
    /\ owner = [h \in Hold |-> IF h \in Run THEN "idle" ELSE "started"]
    /\ ledger = [c \in Call |-> NoInvocation]
    /\ caller = [c \in Call |-> [pc |-> "idle", worst |-> 0, paid |-> 0, attempt |-> 0]]
    /\ ender = [r \in Run |-> {}]
    /\ loose = [h \in Loose |-> "new"]

NextPeriod ==
    /\ today < Periods
    /\ today' = today + 1
    /\ UNCHANGED <<counter, made, run, held, marked, owner, ledger, caller, ender, loose>>

At(h, pc) == owner' = [owner EXCEPT ![h] = pc]
CallAt(c, pc) == caller' = [caller EXCEPT ![c].pc = pc]

-----------------------------------------------------------------------------
(* The owner: _lifecycle and _finish of a run, complete of a legacy call   *)
(* or one batch.                                                           *)

Start(r) ==
    /\ owner[r] = "idle"
    /\ IF run[r] = "queued"
       THEN run' = [run EXCEPT ![r] = "running"] /\ At(r, "started")
       ELSE At(r, "gone") /\ UNCHANGED run
    /\ UNCHANGED <<today, counter, made, held, marked, ledger, caller, ender, loose>>

(* Wrong: other holds are not counted. *)
FitsSpent(c, estimate) ==
    LET row == Rolled(counter[c], c)
        needed == IF c \in Rolling THEN row.spent + estimate ELSE estimate
    IN  ~HardStop \/ needed <= Limit[c]

(* A period counter refuses what does not fit next to everything spent and *)
(* reserved, a run counter what is too large by itself.                    *)
Fits(c, estimate) ==
    LET row == Rolled(counter[c], c)
        needed == IF c \in Rolling THEN row.spent + row.reserved + estimate ELSE estimate
    IN  ~HardStop \/ needed <= Limit[c]

Reserved(row, estimate) == [row EXCEPT !.reserved = @ + estimate]

(* A run takes its hold only when it is live and has none.                 *)
MayHold(h) == h \in Run => (held[h] = 0 /\ run[h] # "ended")

Reserve(h, estimate) ==
    /\ owner[h] = "started"
    /\ \A c \in CountersOf[h] : Fits(c, estimate)
    /\ MayHold(h)
    /\ counter' = [c \in Counter |-> IF c \in CountersOf[h]
                                     THEN Reserved(Rolled(counter[c], c), estimate)
                                     ELSE counter[c]]
    /\ made' = made \cup CountersOf[h]
    /\ held' = [held EXCEPT ![h] = estimate]
    /\ loose' = [g \in Loose |-> IF g = h THEN "held" ELSE loose[g]]
    /\ At(h, "held")
    /\ UNCHANGED <<today, run, marked, ledger, caller, ender>>

(* Refused or failed: the transaction is rolled back.                      *)
ReserveRefused(h, estimate) ==
    /\ owner[h] = "started"
    /\ (\E c \in CountersOf[h] : ~Fits(c, estimate)) \/ ~MayHold(h)
    /\ At(h, IF h \in Run THEN "unheld" ELSE "gone")
    /\ UNCHANGED <<today, counter, made, run, held, marked, ledger, caller, ender, loose>>

Finish(h) ==
    /\ owner[h] = "held"
    /\ \A c \in CallsOn(h) : caller[c].pc \in {"idle", "over"}
    /\ At(h, "ending")
    /\ UNCHANGED <<today, counter, made, run, held, marked, ledger, caller, ender, loose>>

(* Take what is left of a hold from the counters in `rows'.                *)
FreedFrom(rows, left) ==
    counter' = [c \in Counter |-> IF c \in rows
                                  THEN [counter[c] EXCEPT !.reserved = Less(@, left)]
                                  ELSE counter[c]]

(* Wrong: the hold is freed although the run ended before. *)
EndRunAgain(r, rows) ==
    /\ run' = [run EXCEPT ![r] = "ended"]
    /\ FreedFrom(rows, Less(held[r], Settled(r)))

(* The one live -> terminal step of a run.  When it already ended, nothing *)
(* is freed.                                                               *)
EndRun(r, rows) ==
    IF run[r] = "ended" THEN UNCHANGED <<run, counter>>
    ELSE /\ run' = [run EXCEPT ![r] = "ended"]
         /\ FreedFrom(rows, Less(held[r], Settled(r)))

Release(h) ==
    /\ owner[h] = "ending"
    /\ IF h \in Run THEN EndRun(h, CountersOf[h]) /\ UNCHANGED loose
       ELSE /\ FreedFrom(CountersOf[h], RemainingHold(h))
            /\ loose' = [loose EXCEPT ![h] = "freed"]
            /\ UNCHANGED run
    /\ At(h, "marking")
    /\ UNCHANGED <<today, made, held, marked, ledger, caller, ender>>

(* A release that fails (a lock timeout, say) is logged and not repeated.  *)
ReleaseFails(h) ==
    /\ owner[h] = "ending"
    /\ h \in Failing
    /\ At(h, "gone")
    /\ UNCHANGED <<today, counter, made, run, held, marked, ledger, caller, ender, loose>>

MarkReleased(h) ==
    /\ owner[h] = "marking"
    /\ marked' = marked \cup {h}
    /\ At(h, "gone")
    /\ UNCHANGED <<today, counter, made, run, held, ledger, caller, ender, loose>>

(* The process of an owner dies with the calls it makes.                   *)
Crash(h) ==
    /\ owner[h] \in Working
    /\ At(h, "dead")
    /\ caller' = [c \in Call |-> IF HoldOf[c] = h /\ caller[c].pc \in InGateway
                                 THEN [caller[c] EXCEPT !.pc = "over"] ELSE caller[c]]
    /\ UNCHANGED <<today, counter, made, run, held, marked, ledger, ender, loose>>

-----------------------------------------------------------------------------
(* Ending a run from its row (release_run): an unlocked look at the run    *)
(* and its counters, then the transaction that ends it.                    *)

(* Wrong: nobody ends the turns of a dead process. *)
MayBeEndedByItsJob(r) == r \notin Turn /\ owner[r] # "gone"

(* Who looks: the owner that has no reservation; the sweep of idle turns;  *)
(* the sync of a job that failed, which it does when its worker is dead or *)
(* late, not when the worker returned.                                     *)
MayBeEnded(r) == r \in Turn \/ owner[r] # "gone"

LookAtRun(r) ==
    /\ ender[r] = {}
    /\ run[r] # "ended"
    /\ MayBeEnded(r)
    /\ ender' = [ender EXCEPT ![r] = {CountersOf[r] \cap made}]
    /\ UNCHANGED <<today, counter, made, run, held, marked, owner, ledger, caller, loose>>

(* With no counter found the counters are derived again under the lock.    *)
EndLookedAt(r) ==
    /\ \E found \in ender[r] :
           EndRun(r, IF found = {} THEN CountersOf[r] \cap made ELSE found)
    /\ ender' = [ender EXCEPT ![r] = {}]
    /\ UNCHANGED <<today, made, held, marked, owner, ledger, caller, loose>>

(* The owner without a reservation finds its run ended.                    *)
LeaveUnheld(r) ==
    /\ owner[r] = "unheld"
    /\ run[r] = "ended"
    /\ At(r, "gone")
    /\ UNCHANGED <<today, counter, made, run, held, marked, ledger, caller, ender, loose>>

-----------------------------------------------------------------------------
(* A gateway call.                                                         *)

(* _prepare up to the check: the worst case has to fit the free part of    *)
(* the hold.  From here to the commit the hold is locked.                  *)
Ask(c, worst) ==
    LET h == HoldOf[c] IN
    /\ owner[h] = "held"
    /\ caller[c].pc = "idle"
    /\ Unlocked(h)
    /\ caller' = [caller EXCEPT ![c] =
           IF worst > AvailableHold(h, CallsOn(h)) THEN [@ EXCEPT !.pc = "over"]
           ELSE [@ EXCEPT !.pc = "asking", !.worst = worst]]
    /\ UNCHANGED <<today, tables, marked, owner, ender, loose>>

(* A cached answer is a finished row without cost.                         *)
ServeCached(c) ==
    /\ caller[c].pc = "asking"
    /\ ledger' = [ledger EXCEPT ![c].state = "done", ![c].settled = TRUE]
    /\ CallAt(c, "over")
    /\ UNCHANGED <<today, counter, made, run, held, marked, owner, ender, loose>>

InsertPending(c) ==
    /\ caller[c].pc = "asking"
    /\ ledger' = [ledger EXCEPT ![c].state = "pending", ![c].worst = caller[c].worst]
    /\ caller' = [caller EXCEPT ![c].pc = "inflight", ![c].attempt = 1]
    /\ UNCHANGED <<today, counter, made, run, held, marked, owner, ender, loose>>

(* The provider answers.  A first answer that does not validate is asked   *)
(* for again when what was paid and another worst case fit the hold.       *)
Answer(c, cost) ==
    /\ caller[c].pc = "inflight"
    /\ cost <= caller[c].worst + Overrun
    /\ caller' = [caller EXCEPT ![c].pc = "answered", ![c].paid = @ + cost]
    /\ UNCHANGED <<today, tables, marked, owner, ender, loose>>

ClaimRetry(c) ==
    LET h == HoldOf[c] IN
    /\ caller[c].pc = "answered"
    /\ caller[c].attempt = 1
    /\ Unlocked(h)
    /\ caller[c].paid + caller[c].worst <= AvailableHold(h, CallsOn(h) \ {c})
    /\ CallAt(c, "reasking")
    /\ UNCHANGED <<today, tables, marked, owner, ender, loose>>

RaiseEstimate(c) ==
    /\ caller[c].pc = "reasking"
    /\ ledger' = [ledger EXCEPT ![c].worst = IF ledger[c].state = "pending"
                                             THEN caller[c].paid + caller[c].worst ELSE @]
    /\ caller' = [caller EXCEPT ![c].pc = "inflight", ![c].attempt = 2]
    /\ UNCHANGED <<today, counter, made, run, held, marked, owner, ender, loose>>

(* Wrong: a row that was reconciled is written again. *)
FinalizeAnyRow(c) ==
    /\ caller[c].pc = "answered"
    /\ ledger' = [ledger EXCEPT ![c].state = "done", ![c].cost = caller[c].paid]
    /\ CallAt(c, "finalized")
    /\ UNCHANGED <<today, counter, made, run, held, marked, owner, ender, loose>>

(* The first transaction of _finish; a row that is no longer pending       *)
(* refuses it, and the call ends without a settle.                         *)
Finalize(c) ==
    /\ caller[c].pc = "answered"
    /\ IF ledger[c].state = "pending"
       THEN /\ ledger' = [ledger EXCEPT ![c].state = "done", ![c].cost = caller[c].paid]
            /\ CallAt(c, "finalized")
       ELSE CallAt(c, "over") /\ UNCHANGED ledger
    /\ UNCHANGED <<today, counter, made, run, held, marked, owner, ender, loose>>

(* Wrong: what a call cost is freed, whatever its hold has left. *)
ChargedInFull(row, cost, freed) == [row EXCEPT !.spent = @ + cost, !.reserved = @ - cost]

Charged(row, cost, freed) == [row EXCEPT !.spent = @ + cost, !.reserved = Less(@, freed)]

(* The second one: settle charges the row and frees that part of the hold. *)
Settle(c) ==
    LET h == HoldOf[c]
        row == ledger[c]
        freed == Least(row.cost, RemainingHold(h))
    IN
    /\ caller[c].pc = "finalized"
    /\ CallAt(c, "over")
    /\ IF row.settled THEN UNCHANGED <<counter, ledger>>
       ELSE /\ counter' = [k \in Counter |-> IF k \in CountersOf[h]
                                             THEN Charged(Rolled(counter[k], k), row.cost, freed)
                                             ELSE counter[k]]
            /\ ledger' = [ledger EXCEPT ![c].settled = TRUE, ![c].freed = freed, ![c].at = today]
    /\ UNCHANGED <<today, made, run, held, marked, owner, ender, loose>>

(* Either transaction can fail; the call returns all the same.             *)
WriteFails(c) ==
    /\ caller[c].pc \in {"answered", "finalized"}
    /\ CallAt(c, "over")
    /\ UNCHANGED <<today, tables, marked, owner, ender, loose>>

(* reconcile_stale_pending, by a job that the age of the row alone tells   *)
(* that its process died.                                                  *)
Reconcile(c) ==
    /\ ledger[c].state = "pending"
    /\ ledger' = [ledger EXCEPT ![c].state = "done", ![c].cost = 0, ![c].settled = TRUE]
    /\ UNCHANGED <<today, counter, made, run, held, marked, owner, caller, ender, loose>>

-----------------------------------------------------------------------------
OwnerStep(h) ==
    \/ \E estimate \in Estimates : Reserve(h, estimate) \/ ReserveRefused(h, estimate)
    \/ Finish(h) \/ Release(h) \/ ReleaseFails(h) \/ MarkReleased(h)

CallStep(c) ==
    \/ ServeCached(c) \/ InsertPending(c)
    \/ \E cost \in 0 .. (caller[c].worst + Overrun) : Answer(c, cost)
    \/ RaiseEstimate(c)
    \/ Finalize(c) \/ Settle(c) \/ WriteFails(c)

Next ==
    \/ NextPeriod
    \/ \E r \in Run : Start(r) \/ LookAtRun(r) \/ EndLookedAt(r) \/ LeaveUnheld(r)
    \/ \E h \in Hold : OwnerStep(h) \/ Crash(h)
    \/ \E c \in Call :
        \/ \E worst \in Worst : Ask(c, worst)
        \/ ClaimRetry(c) \/ CallStep(c) \/ Reconcile(c)

Spec == Init /\ [][Next]_vars

(* An owner and its calls go on as long as their process lives (a call is  *)
(* bounded by its timeout).  An owner that is dead or has no reservation   *)
(* has its run ended: by the job's recovery, the sweep, or itself.         *)
Fairness ==
    /\ \A h \in Hold : WF_vars(OwnerStep(h))
    /\ \A c \in Call : WF_vars(CallStep(c))
    /\ \A r \in Run : WF_vars(owner[r] \in {"dead", "unheld", "gone"} /\ LookAtRun(r))
    /\ \A r \in Run : WF_vars(EndLookedAt(r))

FairSpec == Spec /\ Fairness

-----------------------------------------------------------------------------
TypeOK ==
    /\ today \in 0 .. Periods
    /\ counter \in [Counter -> CounterRow]
    /\ made \subseteq Counter
    /\ run \in [Run -> {"queued", "running", "ended"}]
    /\ held \in [Hold -> Nat]
    /\ marked \subseteq Hold
    /\ owner \in [Hold -> Owner]
    /\ ledger \in [Call -> Invocation]
    /\ caller \in [Call -> Caller]
    /\ ender \in [Run -> SUBSET SUBSET Counter]
    /\ loose \in [Loose -> {"new", "held", "freed"}]

-----------------------------------------------------------------------------
Sum(S, Value(_)) == Total([x \in S |-> Value(x)])

IsHeld(h) == IF h \in Run THEN held[h] > 0 /\ run[h] # "ended" ELSE loose[h] = "held"

Left(h) == IF IsHeld(h) THEN Less(held[h], Settled(h)) ELSE 0

(* What a counter shows as reserved is what the unreleased holds on it     *)
(* still have left: no release, settle, period change or crash, in any     *)
(* order, leaks a part of a hold or frees it twice.                        *)
ReservedIsHeld ==
    \A c \in Counter :
        counter[c].reserved = Sum({h \in Hold : c \in CountersOf[h]}, Left)

(* The settled calls that a counter has in its period.                     *)
SettledOn(c) == {k \in Call : /\ c \in CountersOf[HoldOf[k]]
                              /\ ledger[k].settled
                              /\ c \in Rolling => ledger[k].at = counter[c].since}

(* What a counter shows as spent is the cost of the settled calls of its   *)
(* period: a call is charged once, also when its hold was released or its  *)
(* row reconciled before it returned.                                      *)
SpentIsSettled ==
    \A c \in Counter :
        counter[c].spent = Sum(SettledOn(c), LAMBDA k : ledger[k].cost)

(* The calls of one hold, those under way at their worst case, never ask   *)
(* for more than the hold, although they check it at the same time.        *)
CallsFitTheirHold ==
    \A h \in Hold : Sum(CallsOn(h), LAMBDA c : Use(ledger[c])) <= held[h]

(* Under a hard stop a period goes beyond its limit by nothing but calls   *)
(* that were charged after their hold was released.                        *)
OnlyLateChargesExceed ==
    \A c \in Rolling :
        counter[c].spent + counter[c].reserved <=
            Limit[c] + Sum(SettledOn(c), LAMBDA k : Less(ledger[k].cost, ledger[k].freed))

(* No budget stays held by an agent run for ever: whatever dies, the run   *)
(* ends, and its hold with it.                                             *)
HoldsAreFreed == \A r \in Run : held[r] > 0 ~> run[r] = "ended"

(* The tables keep the promise of BudgetBook.                              *)
Book == INSTANCE BudgetBook WITH
    stage <- [h \in Hold |->
                 IF IsHeld(h) THEN "open"
                 ELSE IF (IF h \in Run THEN run[h] = "ended" ELSE loose[h] = "freed")
                      THEN "closed" ELSE "new"],
    left <- [h \in Hold |-> Left(h)],
    reserved <- [c \in Counter |-> counter[c].reserved]

ImplementsBook == Book!Spec

=============================================================================
