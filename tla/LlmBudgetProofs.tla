--------------------------- MODULE LlmBudgetProofs ---------------------------
(***************************************************************************)
(* What LlmBudget keeps, proved for every set of runs, calls and counters  *)
(* and for all amounts.                                                    *)
(*                                                                         *)
(* The inductive invariant has three layers.  RecordsInv says where the    *)
(* parties and the rows can be together: a call is in the gateway only     *)
(* while the owner of its hold waits for it, and no row is dated after the *)
(* counters it is charged to.  MoneyInv, above it, relates every counter   *)
(* to the holds and the settled rows: what is reserved covers what the     *)
(* holds have left, what is spent is what was settled, and the two exceed  *)
(* the limit by late charges only.  CallsInv bounds the calls of a hold.   *)
(***************************************************************************)
EXTENDS LlmBudget, FiniteSetTheorems, TLAPS

-----------------------------------------------------------------------------
(* Sums: a sum is a natural number, follows the change of one summand,     *)
(* grows with its summands, and zeros do not count.                        *)

(* n units of x. *)
LEMMA UnitsOfOne ==
    ASSUME NEW x, NEW n \in Nat
    PROVE  IsFiniteSet({x} \X (1 .. n)) /\ Cardinality({x} \X (1 .. n)) = n
<1>1. IsFiniteSet(1 .. n) /\ Cardinality(1 .. n) = n
  BY FS_Interval
<1>2. IsFiniteSet({x}) /\ Cardinality({x}) = 1
  BY FS_Singleton
<1> QED
  BY <1>1, <1>2, FS_Product

(* A sum over a finite set is a natural number. *)
LEMMA TotalType ==
    ASSUME NEW S, IsFiniteSet(S), NEW f \in [S -> Nat]
    PROVE  IsFiniteSet(Units(f)) /\ Total(f) \in Nat
<1> DEFINE parts == {{x} \X (1 .. f[x]) : x \in S}
           part == [x \in S |-> {x} \X (1 .. f[x])]
<1>1. part \in Surjection(S, parts)
  BY DEF Surjection
<1>2. IsFiniteSet(parts)
  BY <1>1, FS_Surjection
<1>3. \A p \in parts : IsFiniteSet(p)
  <2> SUFFICES ASSUME NEW x \in S PROVE IsFiniteSet({x} \X (1 .. f[x]))
    OBVIOUS
  <2>1. f[x] \in Nat
    OBVIOUS
  <2> QED
    BY <2>1, UnitsOfOne
<1>4. Units(f) = UNION parts
  BY DEF Units
<1>5. IsFiniteSet(Units(f))
  BY <1>2, <1>3, <1>4, FS_UNION
<1> QED
  BY <1>5, FS_CardinalityType DEF Total

(* One summand apart. *)
LEMMA TotalSplits ==
    ASSUME NEW S, IsFiniteSet(S), NEW f \in [S -> Nat], NEW x \in S
    PROVE  LET others == [y \in S \ {x} |-> f[y]]
           IN  Total(others) \in Nat /\ Total(f) = Total(others) + f[x]
<1> DEFINE others == [y \in S \ {x} |-> f[y]]
           own == {x} \X (1 .. f[x])
<1>1. IsFiniteSet(S \ {x}) /\ others \in [S \ {x} -> Nat]
  BY FS_Difference
<1>2. IsFiniteSet(Units(others)) /\ Total(others) \in Nat
  BY <1>1, TotalType
<1>3. IsFiniteSet(own) /\ Cardinality(own) = f[x]
  BY UnitsOfOne
<1>4. Units(f) = Units(others) \cup own
  BY DEF Units
<1>5. Units(others) \cap own = {}
  BY DEF Units
<1>6. Cardinality({}) = 0
  BY FS_EmptySet
<1>7. Cardinality(Units(others) \cup own)
        = Cardinality(Units(others)) + Cardinality(own) - Cardinality(Units(others) \cap own)
  <2> HIDE DEF own, others
  <2> QED
    BY <1>2, <1>3, FS_Union
<1>8. Total(f) = Total(others) + f[x] - 0
  <2> HIDE DEF own, others
  <2> QED
    BY <1>3, <1>4, <1>5, <1>6, <1>7 DEF Total
<1>9. f[x] \in Nat
  OBVIOUS
<1> QED
  BY <1>2, <1>8, <1>9

(* A sum moves by what one summand moves. *)
LEMMA TotalMoves ==
    ASSUME NEW S, IsFiniteSet(S), NEW f \in [S -> Nat], NEW g \in [S -> Nat],
           NEW x \in S, \A y \in S \ {x} : f[y] = g[y]
    PROVE  Total(g) + f[x] = Total(f) + g[x]
<1> DEFINE restF == [y \in S \ {x} |-> f[y]]
           restG == [y \in S \ {x} |-> g[y]]
<1>1. restF = restG
  OBVIOUS
<1>2. Total(restF) \in Nat /\ Total(f) = Total(restF) + f[x]
  BY TotalSplits
<1>3. Total(restG) \in Nat /\ Total(g) = Total(restG) + g[x]
  BY TotalSplits
<1> QED
  BY <1>1, <1>2, <1>3

(* No sum is smaller than one of its summands. *)
LEMMA TotalCovers ==
    ASSUME NEW S, IsFiniteSet(S), NEW f \in [S -> Nat], NEW x \in S
    PROVE  f[x] <= Total(f)
<1> DEFINE others == [y \in S \ {x} |-> f[y]]
<1>1. Total(others) \in Nat /\ Total(f) = Total(others) + f[x]
  BY TotalSplits
<1> QED
  BY <1>1

(* A sum grows with its summands. *)
LEMMA TotalGrows ==
    ASSUME NEW S, IsFiniteSet(S), NEW f \in [S -> Nat], NEW g \in [S -> Nat],
           \A x \in S : f[x] <= g[x]
    PROVE  Total(f) <= Total(g)
<1>1. IsFiniteSet(Units(g))
  BY TotalType
<1>2. Units(f) \subseteq Units(g)
  <2> SUFFICES ASSUME NEW x \in S, NEW n \in 1 .. f[x] PROVE n \in 1 .. g[x]
    BY DEF Units
  <2> QED
    OBVIOUS
<1> QED
  BY <1>1, <1>2, FS_Subset DEF Total

(* What is zero does not count, whether it is summed or not. *)
LEMMA TotalIgnoresZeros ==
    ASSUME NEW S, NEW f \in [S -> Nat], NEW T, NEW g \in [T -> Nat],
           \A x \in S \cap T : f[x] = g[x],
           \A x \in S \ T : f[x] = 0,
           \A x \in T \ S : g[x] = 0
    PROVE  Total(f) = Total(g)
<1>1. Units(f) \subseteq Units(g)
  <2> SUFFICES ASSUME NEW x \in S, NEW n \in 1 .. f[x] PROVE x \in T /\ n \in 1 .. g[x]
    BY DEF Units
  <2> QED
    OBVIOUS
<1>2. Units(g) \subseteq Units(f)
  <2> SUFFICES ASSUME NEW x \in T, NEW n \in 1 .. g[x] PROVE x \in S /\ n \in 1 .. f[x]
    BY DEF Units
  <2> QED
    OBVIOUS
<1>3. Units(f) = Units(g)
  BY <1>1, <1>2
<1> QED
  BY <1>3 DEF Total

LEMMA TotalOfZeros ==
    ASSUME NEW S, NEW f \in [S -> Nat], \A x \in S : f[x] = 0
    PROVE  Total(f) = 0
<1>1. Units(f) = {}
  BY DEF Units
<1> QED
  BY <1>1, FS_EmptySet DEF Total

-----------------------------------------------------------------------------
(* Counters that an ender finds.                                           *)

(* Whoever ends a run finds this counter: it is there from the beginning,  *)
(* or no run is charged to it.  An ender misses a counter that the run's   *)
(* first reservation is just creating (release_run in budget.py).          *)
AlwaysFound(k) == \A r \in Run : k \in CountersOf[r] => k \in Existing

CountersExist == \A r \in Run : CountersOf[r] \subseteq Existing

-----------------------------------------------------------------------------
(* Owners, holds, calls and rows.                                          *)

Closed(h) == IF h \in Run THEN run[h] = "ended" ELSE loose[h] = "freed"

HoldIsWhole(h) ==
    /\ owner[h] \in {"idle", "started"} => held[h] = 0
    /\ h \in Loose /\ owner[h] = "started" => loose[h] = "new"
    /\ h \in Loose /\ owner[h] \in {"held", "ending"} => loose[h] = "held"
    /\ owner[h] = "marking" => Closed(h)
    /\ h \in marked => owner[h] = "gone" /\ Closed(h)

CallIsWhole(c) ==
    /\ caller[c].pc \in InGateway => owner[HoldOf[c]] = "held"
    /\ owner[HoldOf[c]] \in {"idle", "started"} => caller[c].pc = "idle"
    /\ caller[c].pc \in {"idle", "asking"} => ledger[c] = NoInvocation /\ caller[c].paid = 0
    /\ caller[c].pc = "finalized" => ledger[c].state = "done"
    /\ ledger[c].state # "done" => ~ledger[c].settled /\ ledger[c].cost = 0

DatesAreOrdered ==
    /\ \A k \in Counter : counter[k].since <= today
    /\ \A c \in Call : \A k \in CountersOf[HoldOf[c]] \cap Rolling :
           ledger[c].at <= counter[k].since

(* What an ender of a run found: all counters that were there before.      *)
EnderIsWhole(r) ==
    /\ CountersOf[r] \cap Existing \subseteq made
    /\ \A found \in ender[r] : /\ found \subseteq CountersOf[r]
                               /\ CountersOf[r] \cap Existing \subseteq found

RecordsInv ==
    /\ TypeOK
    /\ \A h \in Hold : HoldIsWhole(h)
    /\ \A c \in Call : CallIsWhole(c)
    /\ DatesAreOrdered
    /\ \A r \in Run : EnderIsWhole(r)

-----------------------------------------------------------------------------
(* Counters.                                                               *)

HoldsOn(k) == {h \in Hold : k \in CountersOf[h]}

Lefts(k) == [h \in HoldsOn(k) |-> Left(h)]

ReservedCovers(k) ==
    /\ Total(Lefts(k)) <= counter[k].reserved
    /\ AlwaysFound(k) => counter[k].reserved = Total(Lefts(k))

(* What a call is charged on a counter in its period, and how much of it   *)
(* its hold did not pay.                                                   *)
Paid(c) == IF ledger[c].settled THEN ledger[c].cost ELSE 0

Counts(k, c, day) == k \in CountersOf[HoldOf[c]] /\ (k \in Rolling => ledger[c].at = day)

ChargesOf(k, day) == [c \in Call |-> IF Counts(k, c, day) THEN Paid(c) ELSE 0]

LateChargesOf(k, day) ==
    [c \in Call |-> IF Counts(k, c, day) THEN Less(Paid(c), ledger[c].freed) ELSE 0]

LimitIsKept(k) ==
    HardStop /\ k \in Rolling =>
        counter[k].spent + counter[k].reserved <=
            Limit[k] + Total(LateChargesOf(k, counter[k].since))

MoneyInv ==
    \A k \in Counter :
        ReservedCovers(k) /\ counter[k].spent = Total(ChargesOf(k, counter[k].since)) /\ LimitIsKept(k)

-----------------------------------------------------------------------------
(* Calls of one hold.                                                      *)

Uses(h) == [c \in CallsOn(h) |-> Use(ledger[c])]

UsesOfOthers(c) == [d \in CallsOn(HoldOf[c]) \ {c} |-> Use(ledger[d])]

(* A call that asks has room for what it asks for.                         *)
HasRoom(c) ==
    caller[c].pc \in Asking =>
        Total(UsesOfOthers(c)) + caller[c].paid + caller[c].worst <= held[HoldOf[c]]

(* What a call costs in the end is within the estimate its row takes.      *)
KeepsItsEstimate(c) ==
    ledger[c].state = "pending" =>
        /\ caller[c].pc = "inflight" => caller[c].paid + caller[c].worst <= ledger[c].worst
        /\ caller[c].pc = "answered" => caller[c].paid <= ledger[c].worst

CallsInv ==
    /\ \A h \in Hold : Total(Uses(h)) <= held[h]
    /\ \A c \in Call : HasRoom(c) /\ KeepsItsEstimate(c)
    /\ \A c \in Call : \A d \in CallsOn(HoldOf[c]) :
           caller[c].pc \in Asking /\ caller[d].pc \in Asking => c = d

BudgetInv == RecordsInv /\ MoneyInv /\ CallsInv

-----------------------------------------------------------------------------
(* Types.                                                                  *)

LEMMA HoldsAreFinite ==
    /\ \A h \in Hold : IsFiniteSet(CallsOn(h)) /\ CallsOn(h) \subseteq Call
    /\ \A k \in Counter : IsFiniteSet(HoldsOn(k)) /\ HoldsOn(k) \subseteq Hold
    /\ \A c \in Call : HoldOf[c] \in Hold /\ c \in CallsOn(HoldOf[c])
    /\ \A h \in Hold : CountersOf[h] \subseteq Counter
<1>1. \A h \in Hold : CallsOn(h) \in SUBSET Call
  BY DEF CallsOn
<1>2. \A k \in Counter : HoldsOn(k) \in SUBSET Hold
  BY DEF HoldsOn
<1>3. \A h \in Hold : IsFiniteSet(CallsOn(h))
  BY <1>1, FiniteAssumption, FS_Subset
<1>4. \A k \in Counter : IsFiniteSet(HoldsOn(k))
  BY <1>2, FiniteAssumption, FS_Subset
<1> QED
  BY <1>1, <1>2, <1>3, <1>4, HoldAssumption DEF CallsOn

LEMMA LessType == \A a, b \in Nat : Less(a, b) \in Nat /\ Less(a, b) <= a /\ Least(a, b) \in Nat
  BY DEF Less, Least

LEMMA SettledType ==
    ASSUME TypeOK, NEW h \in Hold
    PROVE  Settled(h) \in Nat /\ Less(held[h], Settled(h)) \in Nat /\ Left(h) \in Nat
           /\ RemainingHold(h) \in Nat
<1> DEFINE paid == [c \in CallsOn(h) |-> IF ledger[c].settled THEN ledger[c].cost ELSE 0]
<1>1. \A c \in CallsOn(h) : c \in Call
  BY HoldsAreFinite
<1>2. \A c \in Call : ledger[c].cost \in Nat
  BY DEF TypeOK, Invocation
<1>3. paid \in [CallsOn(h) -> Nat]
  BY <1>1, <1>2
<1>4. Settled(h) \in Nat
  BY <1>3, HoldsAreFinite, TotalType DEF Settled
<1>5. held[h] \in Nat
  BY DEF TypeOK
<1> QED
  BY <1>4, <1>5, LessType DEF Left, RemainingHold

LEMMA RolledType ==
    ASSUME TypeOK, NEW k \in Counter
    PROVE  /\ Rolled(counter[k], k) \in CounterRow
           /\ Rolled(counter[k], k).reserved = counter[k].reserved
           /\ k \notin Rolling => Rolled(counter[k], k) = counter[k]
           /\ k \in Rolling => /\ Rolled(counter[k], k).since = today
                             /\ Rolled(counter[k], k).spent =
                                    IF counter[k].since < today THEN 0 ELSE counter[k].spent
<1>1. counter[k] \in CounterRow /\ today \in 0 .. Periods
  BY DEF TypeOK
<1> QED
  BY <1>1 DEF CounterRow, Rolled

(* Freeing a part of a hold leaves counters counters.                      *)
LEMMA FreedType ==
    ASSUME TypeOK, NEW rows, NEW left \in Nat, FreedFrom(rows, left)
    PROVE  counter' \in [Counter -> CounterRow]
<1>1. ASSUME NEW k \in Counter PROVE [counter[k] EXCEPT !.reserved = Less(@, left)] \in CounterRow
  <2>1. counter[k] \in CounterRow
    BY DEF TypeOK
  <2>2. Less(counter[k].reserved, left) \in Nat
    BY <2>1, LessType DEF CounterRow
  <2> QED
    BY <2>1, <2>2 DEF CounterRow
<1> QED
  BY <1>1 DEF FreedFrom, TypeOK

LEMMA EndRunType ==
    ASSUME TypeOK, NEW r \in Run, NEW rows, EndRun(r, rows)
    PROVE  /\ counter' \in [Counter -> CounterRow]
           /\ run' \in [Run -> {"queued", "running", "ended"}]
<1>1. r \in Hold
  BY DEF Hold
<1>2. Less(held[r], Settled(r)) \in Nat
  BY <1>1, SettledType
<1>3. CASE run[r] = "ended"
  BY <1>3 DEF EndRun, TypeOK
<1>4. CASE run[r] # "ended"
  BY <1>2, <1>4, FreedType DEF EndRun, TypeOK
<1> QED
  BY <1>3, <1>4

LEMMA TypeStays == TypeOK /\ [Next]_vars => TypeOK'
<1> SUFFICES ASSUME TypeOK, [Next]_vars PROVE TypeOK'
  OBVIOUS
<1> USE DEF tables
<1>a. Run \subseteq Hold /\ Loose \subseteq Hold
  BY DEF Hold
<1>1. CASE NextPeriod
  BY <1>1, AmountAssumption DEF NextPeriod, TypeOK, CounterRow
<1>2. ASSUME NEW r \in Run, Start(r) PROVE TypeOK'
  BY <1>a, <1>2 DEF Start, At, TypeOK, Owner, Working
<1>3. ASSUME NEW r \in Run, LookAtRun(r) PROVE TypeOK'
  BY <1>3 DEF LookAtRun, TypeOK
<1>4. ASSUME NEW r \in Run, EndLookedAt(r) PROVE TypeOK'
  <2>1. /\ counter' \in [Counter -> CounterRow]
        /\ run' \in [Run -> {"queued", "running", "ended"}]
    BY <1>4, EndRunType DEF EndLookedAt
  <2> QED
    BY <1>4, <2>1 DEF EndLookedAt, TypeOK
<1>5. ASSUME NEW r \in Run, LeaveUnheld(r) PROVE TypeOK'
  BY <1>a, <1>5 DEF LeaveUnheld, At, TypeOK, Owner, Working
<1>6. ASSUME NEW h \in Hold, NEW estimate \in Estimates, Reserve(h, estimate) PROVE TypeOK'
  <2>1. estimate \in Nat
    BY AmountAssumption
  <2>2. ASSUME NEW k \in Counter
        PROVE  Reserved(Rolled(counter[k], k), estimate) \in CounterRow
    <3>1. Rolled(counter[k], k) \in CounterRow
      BY RolledType
    <3> QED
      BY <2>1, <3>1 DEF Reserved, CounterRow
  <2>3. counter' \in [Counter -> CounterRow]
    BY <1>6, <2>2 DEF Reserve, TypeOK
  <2>4. made' \subseteq Counter
    BY <1>6, HoldsAreFinite DEF Reserve, TypeOK
  <2>5. owner' \in [Hold -> Owner]
    BY <1>6 DEF Reserve, At, TypeOK, Owner, Working
  <2> QED
    BY <1>6, <2>1, <2>3, <2>4, <2>5 DEF Reserve, TypeOK
<1>7. ASSUME NEW h \in Hold, NEW estimate \in Estimates, ReserveRefused(h, estimate) PROVE TypeOK'
  BY <1>7 DEF ReserveRefused, At, TypeOK, Owner, Working
<1>8. ASSUME NEW h \in Hold, Finish(h) PROVE TypeOK'
  BY <1>8 DEF Finish, At, TypeOK, Owner, Working
<1>9. ASSUME NEW h \in Hold, Release(h) PROVE TypeOK'
  <2>1. owner' \in [Hold -> Owner]
    BY <1>9 DEF Release, At, TypeOK, Owner, Working
  <2>2. CASE h \in Run
    <3>1. /\ counter' \in [Counter -> CounterRow]
          /\ run' \in [Run -> {"queued", "running", "ended"}]
      BY <1>9, <2>2, EndRunType DEF Release
    <3> QED
      BY <1>9, <2>1, <2>2, <3>1 DEF Release, TypeOK
  <2>3. CASE h \notin Run
    <3>1. counter' \in [Counter -> CounterRow]
      BY <1>9, <2>3, SettledType, FreedType DEF Release
    <3> QED
      BY <1>9, <2>1, <2>3, <3>1 DEF Release, TypeOK
  <2> QED
    BY <2>2, <2>3
<1>10. ASSUME NEW h \in Hold, ReleaseFails(h) PROVE TypeOK'
  BY <1>10 DEF ReleaseFails, At, TypeOK, Owner, Working
<1>11. ASSUME NEW h \in Hold, MarkReleased(h) PROVE TypeOK'
  BY <1>11 DEF MarkReleased, At, TypeOK, Owner, Working
<1>12. ASSUME NEW h \in Hold, Crash(h) PROVE TypeOK'
  <2>1. ASSUME NEW c \in Call
        PROVE  /\ caller[c] \in Caller
               /\ [caller[c] EXCEPT !.pc = "over"] \in Caller
    <3>1. caller[c] \in Caller
      BY DEF TypeOK
    <3> QED
      BY <3>1 DEF Caller
  <2>2. caller' \in [Call -> Caller]
    BY <1>12, <2>1 DEF Crash
  <2>3. "dead" \in Owner /\ owner \in [Hold -> Owner]
    BY DEF Owner, TypeOK
  <2>4. owner' \in [Hold -> Owner]
    BY <1>12, <2>3 DEF Crash, At
  <2> QED
    BY <1>12, <2>2, <2>4 DEF Crash, TypeOK
<1>13. ASSUME NEW c \in Call, NEW worst \in Worst, Ask(c, worst) PROVE TypeOK'
  <2>1. worst \in Nat /\ caller[c] \in Caller
    BY AmountAssumption DEF TypeOK
  <2> QED
    BY <1>13, <2>1 DEF Ask, TypeOK, Caller, InGateway, Asking
<1>14. ASSUME NEW c \in Call, ServeCached(c) PROVE TypeOK'
  <2>0. ledger[c] \in Invocation
    BY DEF TypeOK
  <2>1. [ledger[c] EXCEPT !.state = "done", !.settled = TRUE] \in Invocation
    BY <2>0 DEF Invocation
  <2>2. ledger' \in [Call -> Invocation]
    BY <1>14, <2>1 DEF ServeCached, TypeOK
  <2>3. caller' \in [Call -> Caller]
    BY <1>14 DEF ServeCached, CallAt, TypeOK, Caller
  <2> QED
    BY <1>14, <2>2, <2>3 DEF ServeCached, TypeOK
<1>15. ASSUME NEW c \in Call, InsertPending(c) PROVE TypeOK'
  <2>1. caller[c] \in Caller /\ ledger[c] \in Invocation
    BY DEF TypeOK
  <2>2. [ledger[c] EXCEPT !.state = "pending", !.worst = caller[c].worst] \in Invocation
    BY <2>1 DEF Caller, Invocation
  <2>3. ledger' \in [Call -> Invocation]
    BY <1>15, <2>2 DEF InsertPending, TypeOK
  <2>4. [caller[c] EXCEPT !.pc = "inflight", !.attempt = 1] \in Caller
    <3>1. "inflight" \in InGateway /\ 1 \in 0 .. 2
      BY DEF InGateway
    <3> QED
      BY <2>1, <3>1 DEF Caller
  <2>5. caller' \in [Call -> Caller]
    BY <1>15, <2>4 DEF InsertPending, TypeOK
  <2> QED
    BY <1>15, <2>3, <2>5 DEF InsertPending, TypeOK
<1>16. ASSUME NEW c \in Call, NEW cost \in 0 .. (caller[c].worst + Overrun), Answer(c, cost)
       PROVE TypeOK'
  <2>1. caller[c] \in Caller /\ cost \in Nat
    BY AmountAssumption DEF TypeOK, Caller
  <2>2. [caller[c] EXCEPT !.pc = "answered", !.paid = @ + cost] \in Caller
    <3>1. caller[c].paid + cost \in Nat
      BY <2>1 DEF Caller
    <3> QED
      BY <2>1, <3>1 DEF Caller, InGateway
  <2>3. caller' \in [Call -> Caller]
    BY <1>16, <2>2 DEF Answer, TypeOK
  <2> QED
    BY <1>16, <2>3 DEF Answer, TypeOK
<1>17. ASSUME NEW c \in Call, ClaimRetry(c) PROVE TypeOK'
  BY <1>17 DEF ClaimRetry, CallAt, TypeOK, Caller, InGateway, Asking
<1>18. ASSUME NEW c \in Call, RaiseEstimate(c) PROVE TypeOK'
  <2>1. caller[c] \in Caller /\ ledger[c] \in Invocation
    BY DEF TypeOK
  <2>2. ASSUME NEW worst \in Nat PROVE [ledger[c] EXCEPT !.worst = worst] \in Invocation
    BY <2>1 DEF Invocation
  <2>3. ledger' \in [Call -> Invocation]
    <3> DEFINE worst == IF ledger[c].state = "pending" THEN caller[c].paid + caller[c].worst
                        ELSE ledger[c].worst
    <3>1. worst \in Nat
      BY <2>1 DEF Caller, Invocation
    <3>2. ledger' = [ledger EXCEPT ![c] = [ledger[c] EXCEPT !.worst = worst]]
      BY <1>18 DEF RaiseEstimate
    <3> HIDE DEF worst
    <3> QED
      BY <2>2, <3>1, <3>2 DEF TypeOK
  <2>4. [caller[c] EXCEPT !.pc = "inflight", !.attempt = 2] \in Caller
    <3>1. "inflight" \in InGateway /\ 2 \in 0 .. 2
      BY DEF InGateway
    <3> QED
      BY <2>1, <3>1 DEF Caller
  <2>5. caller' \in [Call -> Caller]
    BY <1>18, <2>4 DEF RaiseEstimate, TypeOK
  <2> QED
    BY <1>18, <2>3, <2>5 DEF RaiseEstimate, TypeOK
<1>19. ASSUME NEW c \in Call, Finalize(c) PROVE TypeOK'
  <2>1. caller[c] \in Caller /\ ledger[c] \in Invocation
    BY DEF TypeOK
  <2>2. [ledger[c] EXCEPT !.state = "done", !.cost = caller[c].paid] \in Invocation
    BY <2>1 DEF Caller, Invocation
  <2>3. ledger' \in [Call -> Invocation]
    BY <1>19, <2>2 DEF Finalize, TypeOK
  <2>4. caller' \in [Call -> Caller]
    BY <1>19, <2>1 DEF Finalize, CallAt, TypeOK, Caller, InGateway
  <2> QED
    BY <1>19, <2>3, <2>4 DEF Finalize, TypeOK
<1>20. ASSUME NEW c \in Call, Settle(c) PROVE TypeOK'
  <2> DEFINE h == HoldOf[c]
             freed == Least(ledger[c].cost, RemainingHold(h))
  <2>1. h \in Hold /\ ledger[c] \in Invocation /\ today \in 0 .. Periods
    BY HoldsAreFinite DEF TypeOK
  <2>2. freed \in Nat /\ ledger[c].cost \in Nat
    BY <2>1, SettledType, LessType DEF Invocation
  <2>3. caller' \in [Call -> Caller]
    BY <1>20 DEF Settle, CallAt, TypeOK, Caller
  <2>4. ASSUME NEW k \in Counter
        PROVE  Charged(Rolled(counter[k], k), ledger[c].cost, freed) \in CounterRow
    <3> DEFINE rolled == Rolled(counter[k], k)
    <3> HIDE DEF freed, rolled
    <3>1. rolled \in CounterRow
      BY RolledType DEF rolled
    <3>2. /\ Less(rolled.reserved, freed) \in Nat
          /\ rolled.spent + ledger[c].cost \in Nat
      <4>1. rolled.reserved \in Nat /\ rolled.spent \in Nat
        BY <3>1 DEF CounterRow
      <4>2. ledger[c].cost \in Nat
        BY <2>2
      <4>3. freed \in Nat
        BY <2>2
      <4>4. Less(rolled.reserved, freed) \in Nat
        BY <4>1, <4>3, LessType
      <4> QED
        BY <4>1, <4>2, <4>4
    <3>3. Charged(rolled, ledger[c].cost, freed) \in CounterRow
      BY <3>1, <3>2 DEF Charged, CounterRow
    <3> QED
      BY <3>3 DEF rolled
  <2>5. counter' \in [Counter -> CounterRow]
    BY <1>20, <2>4 DEF Settle, TypeOK
  <2>6. ledger' \in [Call -> Invocation]
    <3>1. [ledger[c] EXCEPT !.settled = TRUE, !.freed = freed, !.at = today] \in Invocation
      <4> HIDE DEF freed
      <4> QED
        BY <2>1, <2>2 DEF Invocation
    <3> QED
      BY <1>20, <3>1 DEF Settle, TypeOK
  <2> QED
    BY <1>20, <2>3, <2>5, <2>6 DEF Settle, TypeOK
<1>21. ASSUME NEW c \in Call, WriteFails(c) PROVE TypeOK'
  BY <1>21 DEF WriteFails, CallAt, TypeOK, Caller
<1>22. ASSUME NEW c \in Call, Reconcile(c) PROVE TypeOK'
  <2>1. ledger[c] \in Invocation
    BY DEF TypeOK
  <2> QED
    BY <1>22, <2>1 DEF Reconcile, TypeOK, Invocation
<1>23. CASE UNCHANGED vars
  BY <1>23 DEF vars, TypeOK
<1> QED
  BY <1>1, <1>2, <1>3, <1>4, <1>5, <1>6, <1>7, <1>8, <1>9, <1>10, <1>11, <1>12, <1>13, <1>14,
     <1>15, <1>16, <1>17, <1>18, <1>19, <1>20, <1>21, <1>22, <1>23
  DEF Next, OwnerStep, CallStep

-----------------------------------------------------------------------------
(* Records: the parties and the rows stay together.                        *)

LEMMA HoldsStayWhole ==
    ASSUME RecordsInv, [Next]_vars, NEW h \in Hold
    PROVE  HoldIsWhole(h)'
<1> USE DEF tables
<1>a. TypeOK /\ HoldIsWhole(h)
  BY DEF RecordsInv
<1>b. Run \subseteq Hold /\ Run \cap Loose = {} /\ (h \notin Run => h \in Loose)
  BY HoldAssumption DEF Hold
<1> USE <1>a, <1>b DEF At, TypeOK, HoldIsWhole, Closed
<1>1. CASE UNCHANGED <<run, held, marked, owner, loose>>
  BY <1>1
<1>2. ASSUME NEW r \in Run, Start(r) PROVE HoldIsWhole(h)'
  BY <1>2 DEF Start
<1>3. ASSUME NEW r \in Run, EndLookedAt(r) PROVE HoldIsWhole(h)'
  BY <1>3 DEF EndLookedAt, EndRun
<1>4. ASSUME NEW r \in Run, LeaveUnheld(r) PROVE HoldIsWhole(h)'
  BY <1>4 DEF LeaveUnheld
<1>5. ASSUME NEW g \in Hold, NEW estimate \in Estimates, Reserve(g, estimate) PROVE HoldIsWhole(h)'
  BY <1>5 DEF Reserve
<1>6. ASSUME NEW g \in Hold, NEW estimate \in Estimates, ReserveRefused(g, estimate)
      PROVE  HoldIsWhole(h)'
  BY <1>6 DEF ReserveRefused
<1>7. ASSUME NEW g \in Hold, Finish(g) PROVE HoldIsWhole(h)'
  BY <1>7 DEF Finish
<1>8. ASSUME NEW g \in Hold, Release(g) PROVE HoldIsWhole(h)'
  BY <1>8 DEF Release, EndRun
<1>9. ASSUME NEW g \in Hold, ReleaseFails(g) PROVE HoldIsWhole(h)'
  BY <1>9 DEF ReleaseFails
<1>10. ASSUME NEW g \in Hold, MarkReleased(g) PROVE HoldIsWhole(h)'
  BY <1>10 DEF MarkReleased
<1>11. ASSUME NEW g \in Hold, Crash(g) PROVE HoldIsWhole(h)'
  BY <1>11 DEF Crash, Working
<1>12. ASSUME NextPeriod \/ \E r \in Run : LookAtRun(r)
       PROVE  UNCHANGED <<run, held, marked, owner, loose>>
  BY <1>12 DEF NextPeriod, LookAtRun
<1>13. ASSUME NEW c \in Call, \/ \E worst \in Worst : Ask(c, worst)
                              \/ ClaimRetry(c) \/ CallStep(c) \/ Reconcile(c)
       PROVE  UNCHANGED <<run, held, marked, owner, loose>>
  BY <1>13 DEF Ask, ClaimRetry, CallStep, Reconcile, ServeCached, InsertPending, Answer,
     RaiseEstimate, Finalize, Settle, WriteFails
<1> QED
  BY <1>1, <1>2, <1>3, <1>4, <1>5, <1>6, <1>7, <1>8, <1>9, <1>10, <1>11, <1>12, <1>13
  DEF Next, OwnerStep, vars

LEMMA CallsStayWhole ==
    ASSUME RecordsInv, [Next]_vars, NEW c \in Call
    PROVE  CallIsWhole(c)'
<1> USE DEF tables
<1>a. /\ TypeOK /\ CallIsWhole(c) /\ HoldOf[c] \in Hold /\ Run \subseteq Hold
      /\ caller[c] \in Caller /\ ledger[c] \in Invocation
  BY HoldsAreFinite DEF RecordsInv, TypeOK, Hold
<1> USE <1>a DEF At, CallAt, CallIsWhole, InGateway, Asking
<1>0. ASSUME owner' = owner, ledger'[c] = ledger[c], caller'[c] = caller[c] PROVE CallIsWhole(c)'
  BY <1>0
<1>1. CASE UNCHANGED <<owner, ledger, caller>>
  BY <1>1
<1>2. ASSUME NEW r \in Run, Start(r) \/ LeaveUnheld(r) PROVE CallIsWhole(c)'
  BY <1>2 DEF Start, LeaveUnheld, TypeOK
<1>3. ASSUME NEW h \in Hold, NEW estimate \in Estimates,
             Reserve(h, estimate) \/ ReserveRefused(h, estimate)
      PROVE  CallIsWhole(c)'
  BY <1>3 DEF Reserve, ReserveRefused, TypeOK
<1>4. ASSUME NEW h \in Hold, Finish(h) PROVE CallIsWhole(c)'
  BY <1>4 DEF Finish, TypeOK, CallsOn
<1>5. ASSUME NEW h \in Hold, Release(h) \/ ReleaseFails(h) \/ MarkReleased(h)
      PROVE  CallIsWhole(c)'
  BY <1>5 DEF Release, ReleaseFails, MarkReleased, TypeOK
<1>6. ASSUME NEW h \in Hold, Crash(h) PROVE CallIsWhole(c)'
  BY <1>6 DEF Crash, TypeOK, Working
<1>7. ASSUME NEW d \in Call, NEW worst \in Worst, Ask(d, worst) PROVE CallIsWhole(c)'
  BY <1>7 DEF Ask, TypeOK
<1>8. ASSUME NEW d \in Call, ServeCached(d) PROVE CallIsWhole(c)'
  BY <1>8 DEF ServeCached, TypeOK, Invocation
<1>9. ASSUME NEW d \in Call, InsertPending(d) PROVE CallIsWhole(c)'
  <2>1. CASE d # c
    BY <1>9, <1>0, <2>1 DEF InsertPending, TypeOK
  <2>2. CASE d = c
    <3>1. /\ caller'[c].pc = "inflight" /\ owner' = owner /\ owner[HoldOf[c]] = "held"
          /\ ledger'[c].state = "pending" /\ ledger'[c].settled = ledger[c].settled
          /\ ledger'[c].cost = ledger[c].cost
      BY <1>9, <2>2 DEF InsertPending, TypeOK, Caller, Invocation
    <3> QED
      BY <1>9, <2>2, <3>1 DEF InsertPending, NoInvocation
  <2> QED
    BY <2>1, <2>2
<1>10. ASSUME NEW d \in Call, NEW cost \in 0 .. (caller[d].worst + Overrun), Answer(d, cost)
       PROVE CallIsWhole(c)'
  <2>1. CASE d # c
    BY <1>10, <1>0, <2>1 DEF Answer, TypeOK
  <2>2. CASE d = c
    <3>1. caller'[c].pc = "answered" /\ UNCHANGED <<owner, ledger>> /\ owner[HoldOf[c]] = "held"
      BY <1>10, <2>2 DEF Answer, TypeOK, Caller
    <3> QED
      BY <3>1
  <2> QED
    BY <2>1, <2>2
<1>11. ASSUME NEW d \in Call, ClaimRetry(d) \/ WriteFails(d) PROVE CallIsWhole(c)'
  <2>1. CASE d # c
    BY <1>11, <1>0, <2>1 DEF ClaimRetry, WriteFails, TypeOK
  <2>2. CASE d = c
    <3>1. /\ caller[c].pc \in InGateway /\ caller'[c].pc \in {"reasking", "over"}
          /\ UNCHANGED <<owner, ledger>>
      BY <1>11, <2>2 DEF ClaimRetry, WriteFails, TypeOK, Caller
    <3> QED
      BY <3>1
  <2> QED
    BY <2>1, <2>2
<1>12. ASSUME NEW d \in Call, RaiseEstimate(d) PROVE CallIsWhole(c)'
  <2>1. CASE d # c
    BY <1>12, <1>0, <2>1 DEF RaiseEstimate, TypeOK
  <2>2. CASE d = c
    <3>1. /\ caller[c].pc \in InGateway /\ caller'[c].pc = "inflight" /\ owner' = owner
          /\ ledger'[c].state = ledger[c].state /\ ledger'[c].settled = ledger[c].settled
          /\ ledger'[c].cost = ledger[c].cost
      BY <1>12, <2>2 DEF RaiseEstimate, TypeOK, Caller, Invocation
    <3> QED
      BY <3>1
  <2> QED
    BY <2>1, <2>2
<1>13. ASSUME NEW d \in Call, Finalize(d) PROVE CallIsWhole(c)'
  <2>1. CASE d # c
    BY <1>13, <1>0, <2>1 DEF Finalize, TypeOK
  <2>2. CASE d = c
    <3>1. caller[c].pc = "answered" /\ owner' = owner
      BY <1>13, <2>2 DEF Finalize
    <3>2. CASE ledger[c].state = "pending"
      <4>1. caller'[c].pc = "finalized" /\ ledger'[c].state = "done"
        BY <1>13, <2>2, <3>2 DEF Finalize, TypeOK, Caller, Invocation
      <4> QED
        BY <3>1, <4>1
    <3>3. CASE ledger[c].state # "pending"
      <4>1. caller'[c].pc = "over" /\ ledger' = ledger
        BY <1>13, <2>2, <3>3 DEF Finalize, TypeOK, Caller
      <4> QED
        BY <3>1, <4>1
    <3> QED
      BY <3>2, <3>3
  <2> QED
    BY <2>1, <2>2
<1>14. ASSUME NEW d \in Call, Settle(d) PROVE CallIsWhole(c)'
  <2>1. CASE d # c
    BY <1>14, <1>0, <2>1 DEF Settle, TypeOK
  <2>2. CASE d = c
    <3>1. /\ caller[c].pc = "finalized" /\ caller'[c].pc = "over" /\ owner' = owner
          /\ ledger'[c].state = ledger[c].state
      BY <1>14, <2>2 DEF Settle, TypeOK, Caller, Invocation
    <3> QED
      BY <3>1
  <2> QED
    BY <2>1, <2>2
<1>15. ASSUME NEW d \in Call, Reconcile(d) PROVE CallIsWhole(c)'
  <2>1. CASE d # c
    BY <1>15, <1>0, <2>1 DEF Reconcile, TypeOK
  <2>2. CASE d = c
    <3>1. /\ caller[c].pc \notin {"idle", "asking"}
          /\ caller' = caller /\ owner' = owner /\ ledger'[c].state = "done"
      BY <1>15, <2>2 DEF Reconcile, TypeOK, Invocation, NoInvocation
    <3> QED
      BY <3>1
  <2> QED
    BY <2>1, <2>2
<1>16. ASSUME NextPeriod \/ \E r \in Run : LookAtRun(r) \/ EndLookedAt(r)
       PROVE  UNCHANGED <<owner, ledger, caller>>
  BY <1>16 DEF NextPeriod, LookAtRun, EndLookedAt
<1> QED
  BY <1>1, <1>2, <1>3, <1>4, <1>5, <1>6, <1>7, <1>8, <1>9, <1>10, <1>11, <1>12, <1>13, <1>14,
     <1>15, <1>16
  DEF Next, OwnerStep, CallStep, vars

LEMMA EndersStayWhole ==
    ASSUME RecordsInv, [Next]_vars, NEW r \in Run
    PROVE  EnderIsWhole(r)'
<1> USE DEF tables
<1>a. TypeOK /\ EnderIsWhole(r)
  BY DEF RecordsInv
<1> USE <1>a DEF TypeOK, EnderIsWhole
<1>1. CASE made \subseteq made' /\ ender' = ender
  BY <1>1
<1>2. ASSUME NEW q \in Run, LookAtRun(q) PROVE EnderIsWhole(r)'
  BY <1>2 DEF LookAtRun
<1>3. ASSUME NEW q \in Run, EndLookedAt(q) PROVE EnderIsWhole(r)'
  BY <1>3 DEF EndLookedAt
<1>4. ASSUME \/ NextPeriod
             \/ \E q \in Run : Start(q) \/ LeaveUnheld(q)
             \/ \E h \in Hold : OwnerStep(h) \/ Crash(h)
       PROVE  made \subseteq made' /\ ender' = ender
  BY <1>4 DEF NextPeriod, Start, LeaveUnheld, OwnerStep, Reserve, ReserveRefused, Finish, Release,
     ReleaseFails, MarkReleased, Crash
<1>5. ASSUME NEW c \in Call, \/ \E worst \in Worst : Ask(c, worst)
                             \/ ClaimRetry(c) \/ CallStep(c) \/ Reconcile(c)
       PROVE  made \subseteq made' /\ ender' = ender
  BY <1>5 DEF Ask, ClaimRetry, CallStep, Reconcile, ServeCached, InsertPending, Answer,
     RaiseEstimate, Finalize, Settle, WriteFails
<1> QED
  BY <1>1, <1>2, <1>3, <1>4, <1>5 DEF Next, vars

(* A step that only frees something changes no date. *)
LEMMA FreeingKeepsDates ==
    ASSUME NEW rows, NEW left, FreedFrom(rows, left), NEW k \in Counter, counter[k] \in CounterRow
    PROVE  counter'[k].since = counter[k].since /\ counter'[k].spent = counter[k].spent
  BY DEF FreedFrom, CounterRow

LEMMA DatesStay == RecordsInv /\ [Next]_vars => DatesAreOrdered'
<1> SUFFICES ASSUME RecordsInv, [Next]_vars PROVE DatesAreOrdered'
  OBVIOUS
<1> USE DEF tables
<1>a. TypeOK /\ DatesAreOrdered /\ \A c \in Call : CallIsWhole(c)
  BY DEF RecordsInv
<1>b. /\ \A k \in Counter : counter[k] \in CounterRow /\ counter[k].since \in Nat
      /\ \A c \in Call : ledger[c] \in Invocation /\ ledger[c].at \in Nat
      /\ \A c \in Call : CountersOf[HoldOf[c]] \subseteq Counter
      /\ today \in Nat
  BY <1>a, HoldsAreFinite, AmountAssumption DEF TypeOK, CounterRow, Invocation
<1>1. ASSUME today' >= today, today' \in Nat,
             \A k \in Counter : counter'[k].since = counter[k].since,
             \A c \in Call : ledger'[c].at = ledger[c].at
      PROVE  DatesAreOrdered'
  BY <1>a, <1>b, <1>1 DEF DatesAreOrdered
<1>2. CASE NextPeriod
  BY <1>1, <1>2, <1>b DEF NextPeriod
<1>3. CASE UNCHANGED <<today, counter, ledger>>
  BY <1>1, <1>3, <1>b
<1>4. ASSUME NEW r \in Run, EndLookedAt(r) PROVE DatesAreOrdered'
  <2>1. \A k \in Counter : counter'[k].since = counter[k].since
    BY <1>4, <1>b, FreeingKeepsDates DEF EndLookedAt, EndRun
  <2> QED
    BY <1>1, <1>4, <1>b, <2>1 DEF EndLookedAt
<1>5. ASSUME NEW h \in Hold, Release(h) PROVE DatesAreOrdered'
  <2>1. \A k \in Counter : counter'[k].since = counter[k].since
    BY <1>5, <1>b, FreeingKeepsDates DEF Release, EndRun
  <2> QED
    BY <1>1, <1>5, <1>b, <2>1 DEF Release
<1>6. ASSUME NEW h \in Hold, NEW estimate \in Estimates, Reserve(h, estimate) PROVE DatesAreOrdered'
  <2>1. ASSUME NEW k \in Counter
        PROVE  counter'[k].since \in {counter[k].since, today}
    <3>1. Reserved(Rolled(counter[k], k), estimate).since = Rolled(counter[k], k).since
      BY <1>a, RolledType DEF Reserved, CounterRow
    <3> QED
      BY <1>6, <1>a, <3>1, RolledType DEF Reserve
  <2>2. today' = today /\ ledger' = ledger
    BY <1>6 DEF Reserve
  <2> QED
    BY <1>a, <1>b, <2>1, <2>2 DEF DatesAreOrdered
<1>7. ASSUME NEW d \in Call, Settle(d) PROVE DatesAreOrdered'
  <2>1. CASE ledger[d].settled
    BY <1>7, <2>1, <1>3 DEF Settle
  <2>2. CASE ~ledger[d].settled
    <3> DEFINE freed == Least(ledger[d].cost, RemainingHold(HoldOf[d]))
    <3>1. ASSUME NEW k \in Counter
          PROVE  counter'[k].since =
                     IF k \in CountersOf[HoldOf[d]] \cap Rolling THEN today ELSE counter[k].since
      <4>1. Charged(Rolled(counter[k], k), ledger[d].cost, freed).since = Rolled(counter[k], k).since
        BY <1>a, RolledType DEF Charged, CounterRow
      <4>2. counter'[k] = IF k \in CountersOf[HoldOf[d]]
                          THEN Charged(Rolled(counter[k], k), ledger[d].cost, freed)
                          ELSE counter[k]
        BY <1>7, <2>2 DEF Settle
      <4> QED
        BY <1>a, <4>1, <4>2, RolledType
    <3>2. \A c \in Call : ledger'[c].at = IF c = d THEN today ELSE ledger[c].at
      BY <1>7, <1>a, <1>b, <2>2 DEF Settle, TypeOK, Invocation
    <3>3. today' = today
      BY <1>7 DEF Settle
    <3> QED
      BY <1>a, <1>b, <3>1, <3>2, <3>3 DEF DatesAreOrdered
  <2> QED
    BY <2>1, <2>2
<1>8. ASSUME NEW d \in Call,
             ServeCached(d) \/ InsertPending(d) \/ RaiseEstimate(d) \/ Finalize(d) \/ Reconcile(d)
      PROVE  DatesAreOrdered'
  <2>1. \A c \in Call : ledger'[c].at = ledger[c].at
    BY <1>8, <1>a, <1>b
    DEF ServeCached, InsertPending, RaiseEstimate, Finalize, Reconcile, TypeOK, Invocation
  <2>2. UNCHANGED <<today, counter>>
    BY <1>8 DEF ServeCached, InsertPending, RaiseEstimate, Finalize, Reconcile
  <2> QED
    BY <1>1, <1>b, <2>1, <2>2
<1>9. ASSUME \/ \E r \in Run : Start(r) \/ LookAtRun(r) \/ LeaveUnheld(r)
             \/ \E h \in Hold : \/ \E estimate \in Estimates : ReserveRefused(h, estimate)
                                \/ Finish(h) \/ ReleaseFails(h) \/ MarkReleased(h) \/ Crash(h)
             \/ \E c \in Call : \/ \E worst \in Worst : Ask(c, worst)
                                \/ ClaimRetry(c) \/ WriteFails(c)
                                \/ \E cost \in 0 .. (caller[c].worst + Overrun) : Answer(c, cost)
      PROVE  UNCHANGED <<today, counter, ledger>>
  BY <1>9 DEF Start, LookAtRun, LeaveUnheld, ReserveRefused, Finish, ReleaseFails, MarkReleased,
     Crash, Ask, ClaimRetry, WriteFails, Answer
<1> QED
  BY <1>2, <1>3, <1>4, <1>5, <1>6, <1>7, <1>8, <1>9 DEF Next, OwnerStep, CallStep, vars

LEMMA RecordsStay == RecordsInv /\ [Next]_vars => RecordsInv'
<1> SUFFICES ASSUME RecordsInv, [Next]_vars PROVE RecordsInv'
  OBVIOUS
<1>1. TypeOK'
  BY TypeStays DEF RecordsInv
<1>2. \A h \in Hold : HoldIsWhole(h)'
  BY HoldsStayWhole
<1>3. \A c \in Call : CallIsWhole(c)'
  BY CallsStayWhole
<1>4. DatesAreOrdered'
  BY DatesStay
<1>5. \A r \in Run : EnderIsWhole(r)'
  BY EndersStayWhole
<1> QED
  BY <1>1, <1>2, <1>3, <1>4, <1>5 DEF RecordsInv

LEMMA RecordsAtFirst == Init => RecordsInv
<1> SUFFICES ASSUME Init PROVE RecordsInv
  OBVIOUS
<1>1. TypeOK
  BY HoldAssumption, AmountAssumption
  DEF Init, TypeOK, CounterRow, Owner, Working, Invocation, NoInvocation, Caller, Hold
<1>2. ASSUME NEW h \in Hold PROVE HoldIsWhole(h)
  BY HoldAssumption DEF Init, HoldIsWhole, Closed, Hold
<1>3. ASSUME NEW c \in Call PROVE CallIsWhole(c)
  BY DEF Init, CallIsWhole, NoInvocation, InGateway, Asking
<1>4. DatesAreOrdered
  BY HoldsAreFinite DEF Init, DatesAreOrdered, NoInvocation
<1>5. ASSUME NEW r \in Run PROVE EnderIsWhole(r)
  BY DEF Init, EnderIsWhole
<1> QED
  BY <1>1, <1>2, <1>3, <1>4, <1>5 DEF RecordsInv

-----------------------------------------------------------------------------
(* Money on the counters.                                                  *)

MoneyIsNatural ==
    /\ \A k \in Counter : Lefts(k) \in [HoldsOn(k) -> Nat] /\ Total(Lefts(k)) \in Nat
    /\ \A c \in Call : Paid(c) \in Nat /\ ledger[c].freed \in Nat /\ ledger[c].cost \in Nat
    /\ \A k \in Counter, day \in Nat :
           /\ ChargesOf(k, day) \in [Call -> Nat] /\ LateChargesOf(k, day) \in [Call -> Nat]
           /\ Total(ChargesOf(k, day)) \in Nat /\ Total(LateChargesOf(k, day)) \in Nat
    /\ \A k \in Counter : /\ counter[k].spent \in Nat /\ counter[k].reserved \in Nat
                          /\ counter[k].since \in Nat /\ Limit[k] \in Nat
    /\ today \in Nat

LEMMA MoneyTypes == TypeOK => MoneyIsNatural
<1> SUFFICES ASSUME TypeOK PROVE MoneyIsNatural
  OBVIOUS
<1>1. \A h \in Hold : Left(h) \in Nat
  BY SettledType
<1>2. \A k \in Counter : Lefts(k) \in [HoldsOn(k) -> Nat]
  BY <1>1, HoldsAreFinite DEF Lefts
<1>3. \A k \in Counter : Total(Lefts(k)) \in Nat
  BY <1>2, HoldsAreFinite, TotalType
<1>4. \A c \in Call : Paid(c) \in Nat /\ ledger[c].freed \in Nat /\ ledger[c].cost \in Nat
  BY DEF TypeOK, Invocation, Paid
<1>5. \A c \in Call : Less(Paid(c), ledger[c].freed) \in Nat
  BY <1>4, LessType
<1>6. \A k \in Counter, day \in Nat :
          ChargesOf(k, day) \in [Call -> Nat] /\ LateChargesOf(k, day) \in [Call -> Nat]
  BY <1>4, <1>5 DEF ChargesOf, LateChargesOf
<1>7. \A k \in Counter, day \in Nat :
          Total(ChargesOf(k, day)) \in Nat /\ Total(LateChargesOf(k, day)) \in Nat
  BY <1>6, FiniteAssumption, TotalType
<1>8. \A k \in Counter : /\ counter[k].spent \in Nat /\ counter[k].reserved \in Nat
                         /\ counter[k].since \in Nat /\ Limit[k] \in Nat
  BY AmountAssumption DEF TypeOK, CounterRow
<1>9. today \in Nat
  BY AmountAssumption DEF TypeOK
<1> QED
  BY <1>2, <1>3, <1>4, <1>6, <1>7, <1>8, <1>9 DEF MoneyIsNatural

LEMMA MoneyTypesAfter == TypeOK' => MoneyIsNatural'
  BY MoneyTypes, PTL

(* What a hold has left depends on its own state and on what its calls     *)
(* were charged.                                                           *)
LEMMA LeftStays ==
    ASSUME NEW h \in Hold, held'[h] = held[h], IsHeld(h)' = IsHeld(h),
           \A c \in CallsOn(h) : Paid(c)' = Paid(c)
    PROVE  Left(h)' = Left(h)
<1>1. Settled(h)' = Settled(h)
  <2>1. [c \in CallsOn(h) |-> IF ledger'[c].settled THEN ledger'[c].cost ELSE 0]
        = [c \in CallsOn(h) |-> IF ledger[c].settled THEN ledger[c].cost ELSE 0]
    BY DEF Paid
  <2>2. CallsOn(h)' = CallsOn(h)
    BY DEF CallsOn
  <2> QED
    BY <2>1, <2>2 DEF Settled
<1> QED
  BY <1>1 DEF Left

(* While an owner may settle or release, what remaining_hold says is what  *)
(* the counters still have of the hold.                                    *)
LEMMA RemainingIsLeft ==
    ASSUME RecordsInv, NEW h \in Hold,
           owner[h] = "held" \/ (owner[h] = "ending" /\ h \notin Run)
    PROVE  RemainingHold(h) = Left(h)
<1>1. HoldIsWhole(h) /\ held[h] \in Nat /\ Settled(h) \in Nat
  BY SettledType DEF RecordsInv, TypeOK
<1>2. h \notin marked
  BY <1>1 DEF HoldIsWhole
<1>3. CASE h \in Run
  BY <1>1, <1>2, <1>3 DEF RemainingHold, IsReleased, Left, IsHeld, Less
<1>4. CASE h \notin Run
  <2>1. loose[h] = "held"
    BY <1>1, <1>4 DEF HoldIsWhole, Hold
  <2> QED
    BY <1>2, <1>4, <2>1 DEF RemainingHold, IsReleased, Left, IsHeld
<1> QED
  BY <1>3, <1>4

LEMMA LeftType == TypeOK => \A h \in Hold : Left(h) \in Nat
  BY SettledType

LEMMA LeftTypeAfter == TypeOK' => (\A h \in Hold : Left(h) \in Nat)'
  BY LeftType, PTL

(* When one hold moves, the sums of its counters move with it.             *)
LEMMA LeftsMove ==
    ASSUME TypeOK, TypeOK', NEW h \in Hold, \A g \in Hold \ {h} : Left(g)' = Left(g),
           NEW k \in Counter
    PROVE  /\ k \in CountersOf[h] => /\ Total(Lefts(k))' + Left(h) = Total(Lefts(k)) + Left(h)'
                                     /\ Left(h) <= Total(Lefts(k))
           /\ k \notin CountersOf[h] => Total(Lefts(k))' = Total(Lefts(k))
<1> DEFINE old == Lefts(k)
           new == [g \in HoldsOn(k) |-> Left(g)']
<1>1. Lefts(k)' = new
  BY DEF Lefts, HoldsOn
<1>2. \A g \in Hold : Left(g) \in Nat /\ Left(g)' \in Nat
  <2>1. \A g \in Hold : Left(g) \in Nat
    BY SettledType
  <2>2. \A g \in Hold : Left(g)' \in Nat
    BY LeftTypeAfter
  <2> QED
    BY <2>1, <2>2
<1>3. old \in [HoldsOn(k) -> Nat] /\ new \in [HoldsOn(k) -> Nat] /\ IsFiniteSet(HoldsOn(k))
  BY <1>2, HoldsAreFinite DEF Lefts
<1>4. CASE k \in CountersOf[h]
  <2>1. h \in HoldsOn(k) /\ old[h] = Left(h) /\ new[h] = Left(h)'
    BY <1>4 DEF HoldsOn, Lefts
  <2>2. \A g \in HoldsOn(k) \ {h} : old[g] = new[g]
    BY HoldsAreFinite DEF Lefts
  <2>3. Total(new) + old[h] = Total(old) + new[h]
    <3> HIDE DEF new, old
    <3> QED
      BY <1>3, <2>1, <2>2, TotalMoves
  <2>4. old[h] <= Total(old)
    <3> HIDE DEF new, old
    <3> QED
      BY <1>3, <2>1, TotalCovers
  <2>5. Total(Lefts(k))' = Total(new)
    BY <1>1 DEF Total
  <2> QED
    BY <1>4, <2>1, <2>3, <2>4, <2>5
<1>5. CASE k \notin CountersOf[h]
  <2>1. new = old
    BY <1>5, HoldsAreFinite DEF HoldsOn, Lefts
  <2>2. Total(Lefts(k))' = Total(new)
    BY <1>1 DEF Total
  <2> QED
    BY <1>5, <2>1, <2>2
<1> QED
  BY <1>4, <1>5

(* Steps that move no money. *)
LEMMA MoneyStays ==
    ASSUME RecordsInv, MoneyInv, counter' = counter,
           \A h \in Hold : Left(h)' = Left(h),
           \A c \in Call : /\ Paid(c)' = Paid(c)
                           /\ ledger'[c].at = ledger[c].at /\ ledger'[c].freed = ledger[c].freed
    PROVE  MoneyInv'
<1> SUFFICES ASSUME NEW k \in Counter
             PROVE  /\ ReservedCovers(k)' /\ LimitIsKept(k)'
                    /\ counter'[k].spent = Total(ChargesOf(k, counter[k].since))'
  BY DEF MoneyInv
<1>1. Lefts(k)' = Lefts(k)
  BY HoldsAreFinite DEF Lefts, HoldsOn
<1>2. /\ ChargesOf(k, counter[k].since)' = ChargesOf(k, counter[k].since)
      /\ LateChargesOf(k, counter[k].since)' = LateChargesOf(k, counter[k].since)
  BY DEF ChargesOf, LateChargesOf, Counts
<1>3. /\ Total(Lefts(k))' = Total(Lefts(k))
      /\ Total(ChargesOf(k, counter[k].since))' = Total(ChargesOf(k, counter[k].since))
      /\ Total(LateChargesOf(k, counter[k].since))' = Total(LateChargesOf(k, counter[k].since))
  BY <1>1, <1>2 DEF Total
<1>4. ReservedCovers(k) /\ LimitIsKept(k) /\ counter[k].spent = Total(ChargesOf(k, counter[k].since))
  BY DEF MoneyInv
<1> QED
  BY <1>3, <1>4 DEF ReservedCovers, LimitIsKept, AlwaysFound

(* Steps that free a part of one hold, from the counters in `rows'.        *)
LEMMA HoldFrees ==
    ASSUME RecordsInv, TypeOK', MoneyInv, NEW h \in Hold, NEW rows \in SUBSET CountersOf[h],
           \A i \in CountersOf[h] : AlwaysFound(i) => i \in rows,
           NEW amount \in Nat, amount <= Left(h), Left(h)' = Left(h) - amount,
           \A g \in Hold \ {h} : Left(g)' = Left(g),
           NEW k \in Counter,
           counter'[k].reserved = IF k \in rows THEN Less(counter[k].reserved, amount)
                                  ELSE counter[k].reserved
    PROVE  /\ ReservedCovers(k)'
           /\ counter'[k].reserved = IF k \in rows THEN counter[k].reserved - amount
                                     ELSE counter[k].reserved
<1>1. TypeOK /\ ReservedCovers(k)
  BY DEF RecordsInv, MoneyInv
<1>2. Left(h) \in Nat /\ Total(Lefts(k)) \in Nat /\ counter[k].reserved \in Nat
  BY <1>1, MoneyTypes, LeftType DEF MoneyIsNatural
<1>3. Total(Lefts(k))' \in Nat
  BY MoneyTypesAfter DEF MoneyIsNatural
<1>4. CASE k \in CountersOf[h]
  <2>1. /\ Total(Lefts(k))' + Left(h) = Total(Lefts(k)) + Left(h)'
        /\ Left(h) <= Total(Lefts(k))
    BY <1>1, <1>4, LeftsMove
  <2>2. Total(Lefts(k)) <= counter[k].reserved
    BY <1>1 DEF ReservedCovers
  <2>3. Less(counter[k].reserved, amount) = counter[k].reserved - amount
    <3>1. amount <= counter[k].reserved
      BY <1>2, <2>1, <2>2
    <3> QED
      BY <3>1, <1>2 DEF Less
  <2>4. Total(Lefts(k))' = Total(Lefts(k)) - amount
    BY <1>2, <1>3, <2>1
  <2>5. AlwaysFound(k) => counter[k].reserved = Total(Lefts(k))
    BY <1>1 DEF ReservedCovers
  <2> QED
    BY <1>2, <1>4, <2>2, <2>3, <2>4, <2>5 DEF ReservedCovers, AlwaysFound
<1>5. CASE k \notin CountersOf[h]
  <2>1. Total(Lefts(k))' = Total(Lefts(k))
    BY <1>1, <1>5, LeftsMove
  <2> QED
    BY <1>1, <1>5, <2>1 DEF ReservedCovers, AlwaysFound
<1> QED
  BY <1>4, <1>5

(* The same for an amount taken from every counter of the hold.           *)
LEMMA HoldFreesAll ==
    ASSUME RecordsInv, TypeOK', MoneyInv, NEW h \in Hold,
           NEW amount \in Nat, amount <= Left(h), Left(h)' = Left(h) - amount,
           \A g \in Hold \ {h} : Left(g)' = Left(g),
           NEW k \in Counter, k \in CountersOf[h],
           counter'[k].reserved = Less(counter[k].reserved, amount)
    PROVE  ReservedCovers(k)' /\ counter'[k].reserved = counter[k].reserved - amount
<1>1. CountersOf[h] \in SUBSET CountersOf[h] /\ (\A i \in CountersOf[h] : i \in CountersOf[h])
  OBVIOUS
<1>2. counter'[k].reserved = IF k \in CountersOf[h] THEN Less(counter[k].reserved, amount)
                             ELSE counter[k].reserved
  OBVIOUS
<1>3. /\ ReservedCovers(k)'
      /\ counter'[k].reserved = IF k \in CountersOf[h] THEN counter[k].reserved - amount
                                ELSE counter[k].reserved
  BY <1>1, <1>2, HoldFrees
<1> QED
  BY <1>3

LEMMA FreeingKeepsMoney ==
    ASSUME RecordsInv, TypeOK', MoneyInv, NEW h \in Hold, NEW rows \in SUBSET CountersOf[h],
           \A i \in CountersOf[h] : AlwaysFound(i) => i \in rows,
           NEW amount \in Nat, amount <= Left(h), Left(h)' = Left(h) - amount,
           \A g \in Hold \ {h} : Left(g)' = Left(g),
           FreedFrom(rows, amount), ledger' = ledger
    PROVE  MoneyInv'
<1>a. \A k \in Counter : counter[k] \in CounterRow
  BY DEF RecordsInv, TypeOK
<1> SUFFICES ASSUME NEW k \in Counter
             PROVE  /\ ReservedCovers(k)' /\ LimitIsKept(k)'
                    /\ counter'[k].spent = Total(ChargesOf(k, counter[k].since))'
  BY DEF MoneyInv
<1>1. /\ counter'[k].since = counter[k].since /\ counter'[k].spent = counter[k].spent
      /\ counter'[k].reserved = IF k \in rows THEN Less(counter[k].reserved, amount)
                                ELSE counter[k].reserved
  BY <1>a DEF FreedFrom, CounterRow
<1>2. /\ ReservedCovers(k)'
      /\ counter'[k].reserved = IF k \in rows THEN counter[k].reserved - amount
                                ELSE counter[k].reserved
  BY <1>1, HoldFrees
<1>3. /\ ChargesOf(k, counter[k].since)' = ChargesOf(k, counter[k].since)
      /\ LateChargesOf(k, counter[k].since)' = LateChargesOf(k, counter[k].since)
  BY <1>1 DEF ChargesOf, LateChargesOf, Counts, Paid
<1>4. /\ Total(ChargesOf(k, counter[k].since))' = Total(ChargesOf(k, counter[k].since))
      /\ Total(LateChargesOf(k, counter[k].since))' = Total(LateChargesOf(k, counter[k].since))
  BY <1>3 DEF Total
<1>5. LimitIsKept(k) /\ counter[k].spent = Total(ChargesOf(k, counter[k].since))
  BY DEF MoneyInv
<1>6. /\ counter[k].spent \in Nat /\ counter[k].reserved \in Nat /\ Limit[k] \in Nat
      /\ counter[k].since \in Nat /\ Total(LateChargesOf(k, counter[k].since)) \in Nat
  BY MoneyTypes DEF RecordsInv, MoneyIsNatural
<1>7. counter'[k].reserved <= counter[k].reserved
  BY <1>2, <1>6
<1>8. counter'[k].reserved \in Nat
  BY MoneyTypesAfter DEF MoneyIsNatural
<1>9. LimitIsKept(k)'
  <2> DEFINE late == Total(LateChargesOf(k, counter[k].since))
  <2>1. late' = late /\ late \in Nat
    BY <1>4, <1>6
  <2>2. HardStop /\ k \in Rolling => counter[k].spent + counter[k].reserved <= Limit[k] + late
    BY <1>5 DEF LimitIsKept
  <2>3. HardStop /\ k \in Rolling => counter'[k].spent + counter'[k].reserved <= Limit[k] + late'
    <3> HIDE DEF late
    <3> QED
      BY <1>1, <1>6, <1>7, <1>8, <2>1, <2>2
  <2> QED
    BY <2>3 DEF LimitIsKept
<1> QED
  BY <1>1, <1>2, <1>4, <1>5, <1>9

(* A counter that is rolled into the current period starts without charges *)
(* and, under a hard stop, within its limit.                               *)
LEMMA RollingKeepsMoney ==
    ASSUME RecordsInv, MoneyInv, NEW k \in Counter
    PROVE  LET rolled == Rolled(counter[k], k) IN
           /\ rolled.spent = Total(ChargesOf(k, rolled.since))
           /\ HardStop /\ k \in Rolling =>
                  rolled.spent + rolled.reserved <= Limit[k] + Total(LateChargesOf(k, rolled.since))
<1> DEFINE rolled == Rolled(counter[k], k)
           since == counter[k].since
<1>1. TypeOK /\ DatesAreOrdered
  BY DEF RecordsInv
<1>2. /\ LimitIsKept(k) /\ counter[k].spent = Total(ChargesOf(k, since))
  BY DEF MoneyInv
<1>3. /\ rolled.reserved = counter[k].reserved
      /\ k \notin Rolling => rolled = counter[k]
      /\ k \in Rolling => /\ rolled.since = today
                          /\ rolled.spent = IF since < today THEN 0 ELSE counter[k].spent
  BY <1>1, RolledType
<1>4. /\ since \in Nat /\ today \in Nat /\ counter[k].spent \in Nat /\ counter[k].reserved \in Nat
      /\ Limit[k] \in Nat /\ \A c \in Call : Paid(c) \in Nat /\ ledger[c].freed \in Nat
      /\ ChargesOf(k, since) \in [Call -> Nat] /\ LateChargesOf(k, since) \in [Call -> Nat]
      /\ ChargesOf(k, today) \in [Call -> Nat] /\ LateChargesOf(k, today) \in [Call -> Nat]
      /\ Total(LateChargesOf(k, since)) \in Nat
  BY <1>1, MoneyTypes DEF MoneyIsNatural
<1>5. CASE k \notin Rolling
  BY <1>2, <1>3, <1>5
<1>6. CASE k \in Rolling /\ ~(since < today)
  <2>1. since = today
    BY <1>1, <1>4, <1>6 DEF DatesAreOrdered
  <2> QED
    BY <1>2, <1>3, <1>6, <2>1 DEF LimitIsKept
<1>7. CASE k \in Rolling /\ since < today
  <2>1. \A c \in Call : ~Counts(k, c, today)
    <3> SUFFICES ASSUME NEW c \in Call, Counts(k, c, today) PROVE FALSE
      OBVIOUS
    <3>1. ledger[c].at = today /\ k \in CountersOf[HoldOf[c]] \cap Rolling
      BY <1>7 DEF Counts
    <3>2. ledger[c].at <= since
      BY <1>1, <3>1 DEF DatesAreOrdered
    <3> QED
      BY <1>4, <1>7, <3>1, <3>2
  <2>2. Total(ChargesOf(k, today)) = 0
    <3>1. \A c \in Call : ChargesOf(k, today)[c] = 0
      BY <2>1 DEF ChargesOf
    <3> QED
      BY <1>4, <3>1, TotalOfZeros
  <2>3. Total(LateChargesOf(k, today)) = 0
    <3>1. \A c \in Call : LateChargesOf(k, today)[c] = 0
      BY <2>1 DEF LateChargesOf
    <3> QED
      BY <1>4, <3>1, TotalOfZeros
  <2>4. Total(LateChargesOf(k, since)) <= Total(ChargesOf(k, since))
    <3>1. \A c \in Call : LateChargesOf(k, since)[c] <= ChargesOf(k, since)[c]
      <4> SUFFICES ASSUME NEW c \in Call PROVE LateChargesOf(k, since)[c] <= ChargesOf(k, since)[c]
        OBVIOUS
      <4>1. Paid(c) \in Nat /\ ledger[c].freed \in Nat
        BY <1>4
      <4>2. Less(Paid(c), ledger[c].freed) <= Paid(c)
        BY <4>1, LessType
      <4>3. CASE Counts(k, c, since)
        BY <4>2, <4>3 DEF LateChargesOf, ChargesOf
      <4>4. CASE ~Counts(k, c, since)
        BY <4>4 DEF LateChargesOf, ChargesOf
      <4> QED
        BY <4>3, <4>4
    <3> HIDE DEF since
    <3> QED
      BY <1>4, <3>1, FiniteAssumption, TotalGrows
  <2>5. HardStop => counter[k].reserved <= Limit[k]
    <3>1. HardStop => counter[k].spent + counter[k].reserved
                        <= Limit[k] + Total(LateChargesOf(k, since))
      BY <1>2, <1>7 DEF LimitIsKept
    <3>2. Total(LateChargesOf(k, since)) <= counter[k].spent
      BY <1>2, <2>4
    <3> HIDE DEF since
    <3> QED
      BY <1>4, <3>1, <3>2
  <2>6. rolled.since = today /\ rolled.spent = 0 /\ rolled.reserved = counter[k].reserved
    BY <1>3, <1>7
  <2> HIDE DEF rolled
  <2>7. HardStop => 0 + counter[k].reserved <= Limit[k] + 0
    BY <1>4, <2>5
  <2>8. /\ rolled.spent = Total(ChargesOf(k, rolled.since))
        /\ HardStop => rolled.spent + rolled.reserved
                         <= Limit[k] + Total(LateChargesOf(k, rolled.since))
    BY <2>2, <2>3, <2>6, <2>7
  <2> QED
    BY <2>8 DEF rolled
<1> QED
  BY <1>5, <1>6, <1>7

(* An ending run frees all that its hold has left.                         *)
LEMMA EndRunMovesHold ==
    ASSUME RecordsInv, NEW r \in Run, NEW rows, EndRun(r, rows), run[r] # "ended",
           held' = held, ledger' = ledger, loose' = loose
    PROVE  /\ FreedFrom(rows, Left(r)) /\ run' = [run EXCEPT ![r] = "ended"]
           /\ Left(r) \in Nat /\ Left(r)' = 0
           /\ \A g \in Hold \ {r} : Left(g)' = Left(g) /\ IsHeld(g)' = IsHeld(g)
<1>a. TypeOK /\ r \in Hold /\ Run \cap Loose = {}
  BY HoldAssumption DEF RecordsInv, Hold
<1> DEFINE amount == Less(held[r], Settled(r))
<1>1. run' = [run EXCEPT ![r] = "ended"] /\ FreedFrom(rows, amount)
  BY DEF EndRun
<1>2. amount = Left(r) /\ amount \in Nat
  <2>1. held[r] \in Nat /\ Settled(r) \in Nat /\ amount \in Nat
    BY <1>a, SettledType DEF TypeOK
  <2>2. held[r] = 0 => amount = 0
    BY <2>1 DEF Less
  <2> QED
    BY <2>1, <2>2 DEF Left, IsHeld
<1>3. Left(r)' = 0
  BY <1>a, <1>1 DEF Left, IsHeld, TypeOK
<1>4. \A g \in Hold \ {r} : IsHeld(g)' = IsHeld(g)
  BY <1>a, <1>1 DEF IsHeld, TypeOK
<1>5. \A c \in Call : Paid(c)' = Paid(c)
  BY DEF Paid
<1>6. \A g \in Hold \ {r} : Left(g)' = Left(g)
  BY <1>4, <1>5, LeftStays, HoldsAreFinite
<1> QED
  BY <1>1, <1>2, <1>3, <1>4, <1>6

LEMMA EndRunKeepsMoney ==
    ASSUME RecordsInv, TypeOK', MoneyInv, NEW r \in Run, NEW rows \in SUBSET CountersOf[r],
           \A i \in CountersOf[r] : AlwaysFound(i) => i \in rows,
           EndRun(r, rows), held' = held, ledger' = ledger, loose' = loose
    PROVE  MoneyInv'
<1>1. CASE run[r] = "ended"
  <2>1. run' = run /\ counter' = counter
    BY <1>1 DEF EndRun
  <2>2. \A h \in Hold : IsHeld(h)' = IsHeld(h)
    BY <2>1 DEF IsHeld
  <2>3. \A c \in Call : Paid(c)' = Paid(c)
    BY DEF Paid
  <2>4. \A h \in Hold : Left(h)' = Left(h)
    BY <2>2, <2>3, LeftStays, HoldsAreFinite
  <2> QED
    BY <2>1, <2>3, <2>4, MoneyStays
<1>2. CASE run[r] # "ended"
  <2>1. /\ FreedFrom(rows, Left(r)) /\ Left(r) \in Nat /\ Left(r)' = 0
        /\ \A g \in Hold \ {r} : Left(g)' = Left(g)
    BY <1>2, EndRunMovesHold
  <2>2. Left(r) <= Left(r) /\ Left(r)' = Left(r) - Left(r) /\ r \in Hold
    BY <2>1 DEF Hold
  <2> QED
    BY <2>1, <2>2, FreeingKeepsMoney
<1> QED
  BY <1>1, <1>2

(* So does the owner of a hold without a run.                              *)
LEMMA ReleaseMovesHold ==
    ASSUME RecordsInv, NEW h \in Hold, Release(h), h \notin Run
    PROVE  /\ FreedFrom(CountersOf[h], Left(h)) /\ loose' = [loose EXCEPT ![h] = "freed"]
           /\ UNCHANGED <<run, held, ledger>>
           /\ Left(h) \in Nat /\ Left(h)' = 0 /\ h \in Loose /\ loose[h] = "held"
           /\ \A g \in Hold \ {h} : Left(g)' = Left(g) /\ IsHeld(g)' = IsHeld(g)
<1>a. TypeOK /\ HoldIsWhole(h) /\ h \in Loose /\ Run \cap Loose = {}
  BY HoldAssumption DEF RecordsInv, Hold
<1>1. RemainingHold(h) = Left(h) /\ Left(h) \in Nat
  BY <1>a, RemainingIsLeft, SettledType DEF Release
<1>2. /\ loose' = [loose EXCEPT ![h] = "freed"] /\ UNCHANGED <<run, held, ledger>>
      /\ FreedFrom(CountersOf[h], Left(h)) /\ loose[h] = "held"
  BY <1>a, <1>1 DEF Release, HoldIsWhole
<1>3. Left(h)' = 0
  BY <1>a, <1>2 DEF Left, IsHeld, TypeOK
<1>4. \A g \in Hold \ {h} : IsHeld(g)' = IsHeld(g)
  BY <1>a, <1>2 DEF IsHeld, TypeOK, Hold
<1>5. \A c \in Call : Paid(c)' = Paid(c)
  BY <1>2 DEF Paid
<1>6. \A g \in Hold \ {h} : Left(g)' = Left(g)
  BY <1>2, <1>4, <1>5, LeftStays, HoldsAreFinite
<1> QED
  BY <1>a, <1>1, <1>2, <1>3, <1>4, <1>6

LEMMA ReleaseKeepsMoney ==
    ASSUME RecordsInv, TypeOK', MoneyInv, NEW h \in Hold, Release(h)
    PROVE  MoneyInv'
<1>1. CASE h \in Run
  BY <1>1, EndRunKeepsMoney DEF Release
<1>2. CASE h \notin Run
  <2>1. /\ FreedFrom(CountersOf[h], Left(h)) /\ ledger' = ledger
        /\ Left(h) \in Nat /\ Left(h)' = 0
        /\ \A g \in Hold \ {h} : Left(g)' = Left(g)
    BY <1>2, ReleaseMovesHold
  <2>2. Left(h) <= Left(h) /\ Left(h)' = Left(h) - Left(h)
    BY <2>1
  <2> QED
    BY <2>1, <2>2, FreeingKeepsMoney
<1> QED
  BY <1>1, <1>2

(* A hold that is not taken yet has no charged calls.                      *)
LEMMA NewHoldIsEmpty ==
    ASSUME RecordsInv, NEW h \in Hold, owner[h] = "started"
    PROVE  Settled(h) = 0 /\ held[h] = 0 /\ Left(h) = 0 /\ (h \notin Run => loose[h] = "new")
<1>1. HoldIsWhole(h)
  BY DEF RecordsInv
<1>2. held[h] = 0 /\ (h \notin Run => loose[h] = "new")
  BY <1>1 DEF HoldIsWhole, Hold
<1>3. ASSUME NEW c \in CallsOn(h) PROVE ~ledger[c].settled
  <2>1. CallIsWhole(c) /\ HoldOf[c] = h
    BY HoldsAreFinite DEF RecordsInv, CallsOn
  <2> QED
    BY <2>1 DEF CallIsWhole, NoInvocation
<1>4. Settled(h) = 0
  <2> DEFINE paid == [c \in CallsOn(h) |-> IF ledger[c].settled THEN ledger[c].cost ELSE 0]
  <2>1. paid \in [CallsOn(h) -> Nat] /\ \A c \in CallsOn(h) : paid[c] = 0
    BY <1>3
  <2>2. Total(paid) = 0
    BY <2>1, TotalOfZeros
  <2> QED
    BY <2>2 DEF Settled
<1>5. Left(h) = 0
  BY <1>2, <1>4 DEF Left, IsHeld
<1> QED
  BY <1>2, <1>4, <1>5

(* A reservation puts its estimate on its counters.                        *)
LEMMA ReserveMovesHold ==
    ASSUME RecordsInv, NEW h \in Hold, NEW estimate \in Estimates, Reserve(h, estimate)
    PROVE  /\ Left(h) = 0 /\ Left(h)' = estimate
           /\ \A g \in Hold \ {h} : Left(g)' = Left(g) /\ IsHeld(g)' = IsHeld(g)
           /\ \A k \in Counter :
                  counter'[k].reserved = IF k \in CountersOf[h] THEN counter[k].reserved + estimate
                                         ELSE counter[k].reserved
<1>a. TypeOK /\ estimate \in Nat /\ Run \cap Loose = {}
  BY AmountAssumption, HoldAssumption DEF RecordsInv
<1>b. Settled(h) = 0 /\ Left(h) = 0 /\ held[h] = 0
  BY NewHoldIsEmpty DEF Reserve
<1>c. /\ held' = [held EXCEPT ![h] = estimate] /\ ledger' = ledger /\ run' = run
      /\ loose' = [g \in Loose |-> IF g = h THEN "held" ELSE loose[g]]
      /\ MayHold(h)
  BY DEF Reserve
<1>1. Left(h)' = estimate
  <2>1. Settled(h)' = Settled(h)
    BY <1>c DEF Settled, CallsOn
  <2>2. Less(estimate, 0) = estimate
    BY <1>a DEF Less
  <2>3. held'[h] = estimate
    BY <1>a, <1>c DEF TypeOK
  <2>4. CASE h \in Run
    BY <1>a, <1>b, <1>c, <2>1, <2>2, <2>3, <2>4 DEF Left, IsHeld, MayHold
  <2>5. CASE h \notin Run
    BY <1>a, <1>b, <1>c, <2>1, <2>2, <2>3, <2>5 DEF Left, IsHeld, Hold
  <2> QED
    BY <2>4, <2>5
<1>2. \A g \in Hold \ {h} : Left(g)' = Left(g) /\ IsHeld(g)' = IsHeld(g)
  <2>1. \A g \in Hold \ {h} : held'[g] = held[g]
    BY <1>a, <1>c DEF TypeOK
  <2>2. \A g \in Hold \ {h} : IsHeld(g)' = IsHeld(g)
    BY <1>c, <2>1 DEF IsHeld, Hold
  <2>3. \A c \in Call : Paid(c)' = Paid(c)
    BY <1>c DEF Paid
  <2> QED
    BY <2>1, <2>2, <2>3, LeftStays, HoldsAreFinite
<1>3. ASSUME NEW k \in Counter
      PROVE  counter'[k].reserved = IF k \in CountersOf[h] THEN counter[k].reserved + estimate
                                    ELSE counter[k].reserved
  <2> DEFINE rolled == Rolled(counter[k], k)
  <2>1. rolled \in CounterRow /\ rolled.reserved = counter[k].reserved
    BY <1>a, RolledType
  <2>2. counter'[k] = IF k \in CountersOf[h] THEN Reserved(rolled, estimate) ELSE counter[k]
    BY DEF Reserve
  <2> HIDE DEF rolled
  <2> QED
    BY <2>1, <2>2 DEF Reserved, CounterRow
<1> QED
  BY <1>b, <1>1, <1>2, <1>3

LEMMA ReserveKeepsMoney ==
    ASSUME RecordsInv, TypeOK', MoneyInv, NEW h \in Hold, NEW estimate \in Estimates,
           Reserve(h, estimate)
    PROVE  MoneyInv'
<1>a. TypeOK /\ estimate \in Nat
  BY AmountAssumption DEF RecordsInv
<1>b. Left(h) = 0
  BY ReserveMovesHold
<1>c. ledger' = ledger
  BY DEF Reserve
<1>1. Left(h)' = estimate
  BY ReserveMovesHold
<1>2. \A g \in Hold \ {h} : Left(g)' = Left(g)
  BY ReserveMovesHold
<1> SUFFICES ASSUME NEW k \in Counter
             PROVE  /\ ReservedCovers(k)' /\ LimitIsKept(k)'
                    /\ counter'[k].spent = Total(ChargesOf(k, counter[k].since))'
  BY DEF MoneyInv
<1> DEFINE rolled == Rolled(counter[k], k)
<1>3. /\ ReservedCovers(k) /\ LimitIsKept(k)
      /\ counter[k].spent = Total(ChargesOf(k, counter[k].since))
  BY DEF MoneyInv
<1>4. Total(Lefts(k)) \in Nat /\ counter[k].reserved \in Nat
  BY <1>a, MoneyTypes DEF MoneyIsNatural
<1>5. /\ Total(Lefts(k))' \in Nat /\ Total(LateChargesOf(k, counter[k].since))' \in Nat
      /\ Limit[k] \in Nat
  <2>1. MoneyIsNatural'
    BY MoneyTypesAfter
  <2>2. counter'[k].since \in Nat /\ Limit[k] \in Nat
    BY <2>1 DEF MoneyIsNatural
  <2> QED
    BY <2>1, <2>2 DEF MoneyIsNatural
<1>6. CASE k \in CountersOf[h]
  <2>1. counter'[k] = Reserved(rolled, estimate)
    BY <1>6 DEF Reserve
  <2>2. rolled \in CounterRow /\ rolled.reserved = counter[k].reserved
    BY <1>a, RolledType
  <2>3. /\ counter'[k].reserved = counter[k].reserved + estimate
        /\ counter'[k].spent = rolled.spent /\ counter'[k].since = rolled.since
    <3> HIDE DEF rolled
    <3> QED
      BY <2>1, <2>2 DEF Reserved, CounterRow
  <2>4. ReservedCovers(k)'
    <3>1. Total(Lefts(k))' + Left(h) = Total(Lefts(k)) + Left(h)'
      BY <1>a, <1>2, <1>6, LeftsMove
    <3>2. Total(Lefts(k))' = Total(Lefts(k)) + estimate
      BY <1>1, <1>b, <1>4, <1>5, <3>1
    <3>3. /\ Total(Lefts(k)) <= counter[k].reserved
          /\ AlwaysFound(k) => counter[k].reserved = Total(Lefts(k))
      BY <1>3 DEF ReservedCovers
    <3> QED
      BY <1>a, <1>4, <2>3, <3>2, <3>3 DEF ReservedCovers, AlwaysFound
  <2>5. Total(ChargesOf(k, counter[k].since))' = Total(ChargesOf(k, rolled.since))
    <3>1. ChargesOf(k, counter[k].since)' = ChargesOf(k, rolled.since)
      BY <1>c, <2>3 DEF ChargesOf, Counts, Paid
    <3> QED
      BY <3>1 DEF Total
  <2>6. rolled.spent = Total(ChargesOf(k, rolled.since))
    BY RollingKeepsMoney
  <2>7. LimitIsKept(k)'
    <3>1. HardStop /\ k \in Rolling =>
              counter'[k].spent + counter'[k].reserved <= Limit[k]
      <4>1. Fits(k, estimate)
        BY <1>6 DEF Reserve
      <4>2. HardStop /\ k \in Rolling => rolled.spent + rolled.reserved + estimate <= Limit[k]
        BY <4>1 DEF Fits
      <4>3. rolled.spent \in Nat
        BY <2>2 DEF CounterRow
      <4> HIDE DEF rolled
      <4> QED
        BY <1>a, <1>4, <1>5, <2>2, <2>3, <4>2, <4>3
    <3>2. counter'[k].spent \in Nat /\ counter'[k].reserved \in Nat
      BY MoneyTypesAfter DEF MoneyIsNatural
    <3> DEFINE late == Total(LateChargesOf(k, counter[k].since))
    <3>3. late' \in Nat
      BY <1>5
    <3>4. HardStop /\ k \in Rolling =>
              counter'[k].spent + counter'[k].reserved <= Limit[k] + late'
      <4> HIDE DEF late
      <4> QED
        BY <1>5, <3>1, <3>2, <3>3
    <3> QED
      BY <3>4 DEF LimitIsKept
  <2> QED
    BY <2>3, <2>4, <2>5, <2>6, <2>7
<1>7. CASE k \notin CountersOf[h]
  <2>1. counter'[k] = counter[k]
    BY <1>7 DEF Reserve
  <2>2. Total(Lefts(k))' = Total(Lefts(k))
    BY <1>a, <1>2, <1>7, LeftsMove
  <2>3. /\ ChargesOf(k, counter[k].since)' = ChargesOf(k, counter[k].since)
        /\ LateChargesOf(k, counter[k].since)' = LateChargesOf(k, counter[k].since)
    BY <1>c, <2>1 DEF ChargesOf, LateChargesOf, Counts, Paid
  <2>4. /\ Total(ChargesOf(k, counter[k].since))' = Total(ChargesOf(k, counter[k].since))
        /\ Total(LateChargesOf(k, counter[k].since))' = Total(LateChargesOf(k, counter[k].since))
    BY <2>3 DEF Total
  <2> QED
    BY <1>3, <2>1, <2>2, <2>4 DEF ReservedCovers, LimitIsKept, AlwaysFound
<1> QED
  BY <1>6, <1>7

(* What a settle charges comes out of what its hold has left.              *)
LEMMA SettleMovesHold ==
    ASSUME RecordsInv, NEW c \in Call, Settle(c), ~ledger[c].settled
    PROVE  LET h == HoldOf[c]
               freed == Least(ledger[c].cost, Left(h))
           IN  /\ RemainingHold(h) = Left(h)
               /\ freed \in Nat /\ freed <= Left(h) /\ freed <= ledger[c].cost
               /\ Left(h)' = Left(h) - freed
               /\ \A g \in Hold \ {h} : Left(g)' = Left(g)
               /\ \A d \in Call :
                      IF d = c THEN Paid(c) = 0 /\ Paid(c)' = ledger[c].cost
                                    /\ ledger'[c].at = today /\ ledger'[c].freed = freed
                      ELSE Paid(d)' = Paid(d)
                           /\ ledger'[d].at = ledger[d].at /\ ledger'[d].freed = ledger[d].freed
<1> DEFINE h == HoldOf[c]
           cost == ledger[c].cost
           freed == Least(cost, Left(h))
           old == [d \in CallsOn(h) |-> Paid(d)]
           new == [d \in CallsOn(h) |-> Paid(d)']
<1>a. TypeOK /\ CallIsWhole(c) /\ h \in Hold /\ c \in CallsOn(h) /\ CallsOn(h) \subseteq Call
      /\ IsFiniteSet(CallsOn(h))
  BY HoldsAreFinite DEF RecordsInv
<1>b. held' = held /\ run' = run /\ loose' = loose
  BY DEF Settle
<1>1. RemainingHold(h) = Left(h)
  <2>1. owner[h] = "held"
    BY <1>a DEF CallIsWhole, Settle, InGateway
  <2> QED
    BY <1>a, <2>1, RemainingIsLeft
<1>2. cost \in Nat /\ Left(h) \in Nat /\ held[h] \in Nat /\ Settled(h) \in Nat
  BY <1>a, SettledType DEF TypeOK, Invocation
<1>3. freed \in Nat /\ freed <= Left(h) /\ freed <= cost
  BY <1>2 DEF Least
<1>4. ledger' = [ledger EXCEPT ![c].settled = TRUE, ![c].freed = freed, ![c].at = today]
  BY <1>1 DEF Settle
<1>5. ASSUME NEW d \in Call
      PROVE  IF d = c THEN Paid(c) = 0 /\ Paid(c)' = cost
                           /\ ledger'[c].at = today /\ ledger'[c].freed = freed
             ELSE Paid(d)' = Paid(d)
                  /\ ledger'[d].at = ledger[d].at /\ ledger'[d].freed = ledger[d].freed
  <2> HIDE DEF freed
  <2> QED
    BY <1>a, <1>4 DEF Paid, TypeOK, Invocation
<1>6. Settled(h)' = Settled(h) + cost
  <2>1. old \in [CallsOn(h) -> Nat] /\ new \in [CallsOn(h) -> Nat]
    BY <1>a, <1>2, <1>5, MoneyTypes DEF MoneyIsNatural
  <2>2. \A d \in CallsOn(h) \ {c} : old[d] = new[d]
    BY <1>a, <1>5
  <2>3. old[c] = 0 /\ new[c] = cost
    BY <1>a, <1>5
  <2>4. Settled(h) = Total(old)
    BY DEF Settled, Paid
  <2>5. Settled(h)' = Total(new)
    BY DEF Settled, Paid, CallsOn
  <2>6. Total(new) + old[c] = Total(old) + new[c]
    <3> HIDE DEF old, new, h
    <3> QED
      BY <1>a, <2>1, <2>2, TotalMoves
  <2>7. Total(new) \in Nat
    <3> HIDE DEF new, h
    <3> QED
      BY <1>a, <2>1, TotalType
  <2> HIDE DEF old, new
  <2> QED
    BY <1>2, <2>3, <2>4, <2>5, <2>6, <2>7
<1>7. Left(h)' = Left(h) - freed
  <2>1. IsHeld(h)' = IsHeld(h)
    BY <1>b DEF IsHeld
  <2>2. CASE ~IsHeld(h)
    <3>1. Left(h) = 0 /\ Left(h)' = 0
      BY <2>1, <2>2 DEF Left
    <3> QED
      BY <1>3, <3>1
  <2>3. CASE IsHeld(h)
    <3>1. Left(h) = Less(held[h], Settled(h)) /\ Left(h)' = Less(held[h], Settled(h) + cost)
      BY <1>b, <1>6, <2>1, <2>3 DEF Left
    <3> HIDE DEF h, cost
    <3> QED
      BY <1>2, <3>1 DEF Less, Least
  <2> QED
    BY <2>2, <2>3
<1>8. \A g \in Hold \ {h} : Left(g)' = Left(g)
  <2>1. \A g \in Hold \ {h} : IsHeld(g)' = IsHeld(g)
    BY <1>b DEF IsHeld
  <2>2. \A g \in Hold \ {h} : \A d \in CallsOn(g) : Paid(d)' = Paid(d)
    BY <1>5, HoldsAreFinite DEF CallsOn
  <2> QED
    BY <1>b, <2>1, <2>2, LeftStays
<1> QED
  BY <1>1, <1>3, <1>5, <1>7, <1>8

LEMMA SettleKeepsMoney ==
    ASSUME RecordsInv, TypeOK', MoneyInv, NEW c \in Call, Settle(c)
    PROVE  MoneyInv'
<1>a. TypeOK
  BY DEF RecordsInv
<1>b. held' = held /\ run' = run /\ loose' = loose
  BY DEF Settle
<1>1. CASE ledger[c].settled
  <2>1. counter' = counter /\ ledger' = ledger
    BY <1>1 DEF Settle
  <2>2. \A d \in Call : Paid(d)' = Paid(d)
    BY <2>1 DEF Paid
  <2>3. \A h \in Hold : IsHeld(h)' = IsHeld(h)
    BY <1>b DEF IsHeld
  <2>4. \A h \in Hold : Left(h)' = Left(h)
    BY <1>b, <2>2, <2>3, LeftStays, HoldsAreFinite
  <2> QED
    BY <2>1, <2>2, <2>4, MoneyStays
<1>2. CASE ~ledger[c].settled
  <2> DEFINE h == HoldOf[c]
             cost == ledger[c].cost
             freed == Least(cost, Left(h))
  <2>1. /\ RemainingHold(h) = Left(h)
        /\ freed \in Nat /\ freed <= Left(h) /\ freed <= cost
        /\ Left(h)' = Left(h) - freed
        /\ \A g \in Hold \ {h} : Left(g)' = Left(g)
    BY <1>2, SettleMovesHold
  <2>2. \A d \in Call :
            IF d = c THEN Paid(c) = 0 /\ Paid(c)' = cost
                          /\ ledger'[c].at = today /\ ledger'[c].freed = freed
            ELSE Paid(d)' = Paid(d)
                 /\ ledger'[d].at = ledger[d].at /\ ledger'[d].freed = ledger[d].freed
    BY <1>2, SettleMovesHold
  <2>3. h \in Hold /\ cost \in Nat /\ today \in Nat
    BY <1>a, HoldsAreFinite, MoneyTypes DEF MoneyIsNatural
  <2>4. \A k \in Counter :
            counter'[k] = IF k \in CountersOf[h] THEN Charged(Rolled(counter[k], k), cost, freed)
                          ELSE counter[k]
    BY <1>2, <2>1 DEF Settle
  <2> SUFFICES ASSUME NEW k \in Counter
               PROVE  /\ ReservedCovers(k)' /\ LimitIsKept(k)'
                      /\ counter'[k].spent = Total(ChargesOf(k, counter[k].since))'
    BY DEF MoneyInv
  <2> DEFINE rolled == Rolled(counter[k], k)
             counts(d) == /\ k \in CountersOf[HoldOf[d]]
                          /\ k \in Rolling => ledger'[d].at = counter'[k].since
             charges == [d \in Call |-> IF counts(d) THEN Paid(d)' ELSE 0]
             late == [d \in Call |-> IF counts(d) THEN Less(Paid(d)', ledger'[d].freed) ELSE 0]
  <2>5. /\ Total(ChargesOf(k, counter[k].since))' = Total(charges)
        /\ Total(LateChargesOf(k, counter[k].since))' = Total(late)
    BY DEF ChargesOf, LateChargesOf, Total, Counts
  <2>6. CASE k \notin CountersOf[h]
    <3>1. counter'[k] = counter[k]
      BY <2>4, <2>6
    <3>2. ReservedCovers(k)'
      <4>1. Total(Lefts(k))' = Total(Lefts(k))
        BY <1>a, <2>1, <2>3, <2>6, LeftsMove
      <4> QED
        BY <3>1, <4>1 DEF MoneyInv, ReservedCovers, AlwaysFound
    <3>3. /\ charges = ChargesOf(k, counter[k].since)
          /\ late = LateChargesOf(k, counter[k].since)
      BY <2>2, <2>6, <3>1 DEF ChargesOf, LateChargesOf, Counts
    <3> QED
      BY <2>5, <3>1, <3>2, <3>3 DEF MoneyInv, LimitIsKept
  <2>7. CASE k \in CountersOf[h]
    <3>1. rolled \in CounterRow /\ rolled.reserved = counter[k].reserved
          /\ (k \in Rolling => rolled.since = today)
      BY <1>a, RolledType
    <3>2. /\ counter'[k].reserved = Less(counter[k].reserved, freed)
          /\ counter'[k].spent = rolled.spent + cost /\ counter'[k].since = rolled.since
      <4>1. counter'[k] = Charged(rolled, cost, freed)
        BY <2>4, <2>7
      <4> HIDE DEF rolled, cost, freed
      <4> QED
        BY <3>1, <4>1 DEF Charged, CounterRow
    <3>3. /\ ReservedCovers(k)'
          /\ counter'[k].reserved = counter[k].reserved - freed
      <4>1. /\ freed \in Nat /\ freed <= Left(h) /\ Left(h)' = Left(h) - freed
            /\ \A g \in Hold \ {h} : Left(g)' = Left(g)
        BY <2>1
      <4>2. h \in Hold /\ k \in CountersOf[h]
        BY <2>3, <2>7
      <4>3. counter'[k].reserved = Less(counter[k].reserved, freed)
        BY <3>2
      <4> HIDE DEF freed, h
      <4> QED
        BY <4>1, <4>2, <4>3, HoldFreesAll
    <3> DEFINE oldCharges == ChargesOf(k, rolled.since)
               oldLate == LateChargesOf(k, rolled.since)
    <3>4. /\ oldCharges[c] = 0 /\ charges[c] = cost
          /\ oldLate[c] = 0 /\ late[c] = cost - freed
      <4>1. counts(c)
        BY <2>2, <2>7, <3>1, <3>2
      <4>2. Paid(c) = 0 /\ Paid(c)' = cost /\ ledger'[c].freed = freed
        BY <2>2
      <4>3. Less(cost, freed) = cost - freed
        <5> HIDE DEF freed, cost
        <5> QED
          BY <2>1, <2>3 DEF Less
      <4>4. ledger[c].freed \in Nat
        BY <1>a, MoneyTypes DEF MoneyIsNatural
      <4>5. Less(0, ledger[c].freed) = 0
        BY <4>4 DEF Less
      <4> HIDE DEF freed, cost
      <4> QED
        BY <4>1, <4>2, <4>3, <4>5 DEF ChargesOf, LateChargesOf
    <3>5. \A d \in Call \ {c} : oldCharges[d] = charges[d] /\ oldLate[d] = late[d]
      BY <2>2, <3>2 DEF ChargesOf, LateChargesOf, Counts
    <3>6. /\ oldCharges \in [Call -> Nat] /\ oldLate \in [Call -> Nat]
          /\ Total(oldCharges) \in Nat /\ Total(oldLate) \in Nat
      <4>1. rolled.since \in Nat
        BY <3>1, AmountAssumption DEF CounterRow
      <4> HIDE DEF rolled
      <4> QED
        BY <1>a, <4>1, MoneyTypes DEF MoneyIsNatural
    <3>7. charges \in [Call -> Nat] /\ late \in [Call -> Nat]
      <4>1. cost - freed \in Nat
        BY <2>1, <2>3
      <4> HIDE DEF freed, cost, oldCharges, oldLate
      <4>2. \A d \in Call : charges[d] \in Nat /\ late[d] \in Nat
        BY <2>3, <3>4, <3>5, <3>6, <4>1
      <4> QED
        BY <4>2
    <3>8. Total(charges) = Total(oldCharges) + cost /\ Total(late) = Total(oldLate) + (cost - freed)
      <4> HIDE DEF charges, late, oldCharges, oldLate, cost, freed
      <4>1. /\ Total(charges) + oldCharges[c] = Total(oldCharges) + charges[c]
            /\ Total(late) + oldLate[c] = Total(oldLate) + late[c]
        BY <3>5, <3>6, <3>7, FiniteAssumption, TotalMoves
      <4>2. Total(charges) \in Nat /\ Total(late) \in Nat
        BY <3>7, FiniteAssumption, TotalType
      <4> QED
        BY <2>1, <2>3, <3>4, <3>6, <4>1, <4>2
    <3>9. /\ rolled.spent = Total(oldCharges)
          /\ HardStop /\ k \in Rolling =>
                 rolled.spent + rolled.reserved <= Limit[k] + Total(oldLate)
      BY RollingKeepsMoney
    <3>10. counter'[k].spent = Total(charges)
      BY <3>2, <3>8, <3>9
    <3>11. HardStop /\ k \in Rolling =>
               counter'[k].spent + counter'[k].reserved <= Limit[k] + Total(late)
      <4>1. rolled.spent \in Nat /\ counter[k].reserved \in Nat /\ Limit[k] \in Nat
        BY <3>1, AmountAssumption DEF CounterRow
      <4> HIDE DEF charges, late, oldCharges, oldLate, cost, freed, rolled
      <4> QED
        BY <2>1, <2>3, <3>1, <3>2, <3>3, <3>6, <3>8, <3>9, <4>1
    <3> QED
      BY <2>5, <3>3, <3>10, <3>11 DEF LimitIsKept
  <2> QED
    BY <2>6, <2>7
<1> QED
  BY <1>1, <1>2

(* Rows that are written before they are settled move no money.            *)
LEMMA RowStepsPayNothing ==
    ASSUME RecordsInv, NEW c \in Call, \/ ServeCached(c) \/ InsertPending(c) \/ RaiseEstimate(c)
                                       \/ Finalize(c) \/ Reconcile(c),
           NEW d \in Call
    PROVE  Paid(d)' = Paid(d) /\ ledger'[d].at = ledger[d].at /\ ledger'[d].freed = ledger[d].freed
<1>a. TypeOK /\ CallIsWhole(c) /\ ledger[c] \in Invocation
  BY DEF RecordsInv, TypeOK
<1>1. CASE ledger'[d] = ledger[d]
  BY <1>1 DEF Paid
<1>2. CASE d # c
  <2>1. ledger'[d] = ledger[d]
    BY <1>a, <1>2
    DEF ServeCached, InsertPending, RaiseEstimate, Finalize, Reconcile, TypeOK
  <2> QED
    BY <1>1, <2>1
<1>3. CASE d = c
  <2>1. ledger'[c].at = ledger[c].at /\ ledger'[c].freed = ledger[c].freed
    BY <1>a
    DEF ServeCached, InsertPending, RaiseEstimate, Finalize, Reconcile, TypeOK, Invocation
  <2>2. ASSUME ServeCached(c) PROVE Paid(c)' = Paid(c)
    <3>1. ledger[c].cost = 0 /\ ledger'[c].cost = ledger[c].cost
      BY <2>2, <1>a DEF ServeCached, CallIsWhole, NoInvocation, TypeOK, Invocation
    <3> QED
      BY <3>1 DEF Paid
  <2>3. ASSUME InsertPending(c) \/ RaiseEstimate(c) PROVE Paid(c)' = Paid(c)
    <3>1. ledger'[c].cost = ledger[c].cost /\ ledger'[c].settled = ledger[c].settled
      BY <2>3, <1>a DEF InsertPending, RaiseEstimate, TypeOK, Invocation
    <3> QED
      BY <3>1 DEF Paid
  <2>4. ASSUME Finalize(c) PROVE Paid(c)' = Paid(c)
    <3>1. CASE ledger[c].state = "pending"
      <4>1. ~ledger[c].settled /\ ledger'[c].settled = ledger[c].settled
        BY <2>4, <3>1, <1>a DEF Finalize, CallIsWhole, TypeOK, Invocation
      <4> QED
        BY <4>1 DEF Paid
    <3>2. CASE ledger[c].state # "pending"
      BY <1>1, <1>3, <2>4, <3>2 DEF Finalize
    <3> QED
      BY <3>1, <3>2
  <2>5. ASSUME Reconcile(c) PROVE Paid(c)' = Paid(c)
    <3>1. ~ledger[c].settled /\ ledger'[c].cost = 0
      BY <2>5, <1>a DEF Reconcile, CallIsWhole, TypeOK, Invocation
    <3> QED
      BY <3>1 DEF Paid
  <2> QED
    BY <1>3, <2>1, <2>2, <2>3, <2>4, <2>5
<1> QED
  BY <1>2, <1>3

LEMMA MoneyStep == RecordsInv /\ MoneyInv /\ [Next]_vars => MoneyInv'
<1> SUFFICES ASSUME RecordsInv, MoneyInv, [Next]_vars PROVE MoneyInv'
  OBVIOUS
<1> USE DEF tables
<1>a. TypeOK /\ TypeOK' /\ Run \subseteq Hold /\ Run \cap Loose = {}
  BY TypeStays, HoldAssumption DEF RecordsInv, Hold
<1>0. ASSUME counter' = counter, held' = held, \A h \in Hold : IsHeld(h)' = IsHeld(h),
             \A c \in Call : /\ Paid(c)' = Paid(c)
                             /\ ledger'[c].at = ledger[c].at /\ ledger'[c].freed = ledger[c].freed
      PROVE  MoneyInv'
  <2>1. \A h \in Hold : Left(h)' = Left(h)
    BY <1>0, LeftStays, HoldsAreFinite
  <2> QED
    BY <1>0, <2>1, MoneyStays
<1>1. CASE UNCHANGED <<counter, held, run, loose, ledger>>
  <2>1. \A h \in Hold : IsHeld(h)' = IsHeld(h)
    BY <1>1 DEF IsHeld
  <2>2. \A c \in Call : /\ Paid(c)' = Paid(c)
                        /\ ledger'[c].at = ledger[c].at /\ ledger'[c].freed = ledger[c].freed
    BY <1>1 DEF Paid
  <2> QED
    BY <1>0, <1>1, <2>1, <2>2
<1>2. ASSUME NEW r \in Run, Start(r) PROVE MoneyInv'
  <2>1. \A h \in Hold : IsHeld(h)' = IsHeld(h)
    BY <1>2, <1>a DEF Start, IsHeld, TypeOK
  <2>2. \A c \in Call : /\ Paid(c)' = Paid(c)
                        /\ ledger'[c].at = ledger[c].at /\ ledger'[c].freed = ledger[c].freed
    BY <1>2 DEF Start, Paid
  <2>3. counter' = counter /\ held' = held
    BY <1>2 DEF Start
  <2> QED
    BY <1>0, <2>1, <2>2, <2>3
<1>3. ASSUME NEW r \in Run, EndLookedAt(r) PROVE MoneyInv'
  <2>1. PICK found \in ender[r] : EndRun(r, IF found = {} THEN CountersOf[r] \cap made ELSE found)
    BY <1>3 DEF EndLookedAt
  <2> DEFINE rows == IF found = {} THEN CountersOf[r] \cap made ELSE found
  <2>2. EnderIsWhole(r)
    BY DEF RecordsInv
  <2>3. /\ rows \in SUBSET CountersOf[r]
        /\ \A i \in CountersOf[r] : AlwaysFound(i) => i \in rows
    BY <2>1, <2>2 DEF EnderIsWhole, AlwaysFound
  <2>4. held' = held /\ ledger' = ledger /\ loose' = loose /\ EndRun(r, rows)
    BY <1>3, <2>1 DEF EndLookedAt
  <2> HIDE DEF rows
  <2> QED
    BY <1>a, <2>3, <2>4, EndRunKeepsMoney
<1>4. ASSUME NEW h \in Hold, NEW estimate \in Estimates, Reserve(h, estimate) PROVE MoneyInv'
  BY <1>4, <1>a, ReserveKeepsMoney
<1>5. ASSUME NEW h \in Hold, Release(h) PROVE MoneyInv'
  BY <1>5, <1>a, ReleaseKeepsMoney
<1>6. ASSUME NEW c \in Call, Settle(c) PROVE MoneyInv'
  BY <1>6, <1>a, SettleKeepsMoney
<1>7. ASSUME NEW c \in Call, \/ ServeCached(c) \/ InsertPending(c) \/ RaiseEstimate(c)
                             \/ Finalize(c) \/ Reconcile(c)
      PROVE  MoneyInv'
  <2>1. counter' = counter /\ held' = held /\ run' = run /\ loose' = loose
    BY <1>7 DEF ServeCached, InsertPending, RaiseEstimate, Finalize, Reconcile
  <2>2. \A h \in Hold : IsHeld(h)' = IsHeld(h)
    BY <2>1 DEF IsHeld
  <2>3. \A d \in Call : /\ Paid(d)' = Paid(d)
                        /\ ledger'[d].at = ledger[d].at /\ ledger'[d].freed = ledger[d].freed
    BY <1>7, RowStepsPayNothing
  <2> QED
    BY <1>0, <2>1, <2>2, <2>3
<1>8. ASSUME \/ NextPeriod
             \/ \E r \in Run : LookAtRun(r) \/ LeaveUnheld(r)
             \/ \E h \in Hold : \/ \E estimate \in Estimates : ReserveRefused(h, estimate)
                                \/ Finish(h) \/ ReleaseFails(h) \/ MarkReleased(h) \/ Crash(h)
             \/ \E c \in Call : \/ \E worst \in Worst : Ask(c, worst)
                                \/ ClaimRetry(c) \/ WriteFails(c)
                                \/ \E cost \in 0 .. (caller[c].worst + Overrun) : Answer(c, cost)
      PROVE  UNCHANGED <<counter, held, run, loose, ledger>>
  BY <1>8 DEF NextPeriod, LookAtRun, LeaveUnheld, ReserveRefused, Finish, ReleaseFails, MarkReleased,
     Crash, Ask, ClaimRetry, WriteFails, Answer
<1> QED
  BY <1>1, <1>2, <1>3, <1>4, <1>5, <1>6, <1>7, <1>8 DEF Next, OwnerStep, CallStep, vars

-----------------------------------------------------------------------------
(* The calls of a hold.                                                    *)

UsesAreNatural ==
    /\ \A c \in Call : Use(ledger[c]) \in Nat
    /\ \A h \in Hold : Total(Uses(h)) \in Nat
    /\ \A c \in Call : /\ Total(UsesOfOthers(c)) \in Nat
                       /\ Total(Uses(HoldOf[c])) = Total(UsesOfOthers(c)) + Use(ledger[c])

LEMMA UsesType == TypeOK => UsesAreNatural
<1> SUFFICES ASSUME TypeOK PROVE UsesAreNatural
  OBVIOUS
<1>1. \A c \in Call : Use(ledger[c]) \in Nat
  BY DEF TypeOK, Invocation, Use
<1>2. \A h \in Hold : Uses(h) \in [CallsOn(h) -> Nat] /\ IsFiniteSet(CallsOn(h))
  BY <1>1, HoldsAreFinite DEF Uses
<1>3. \A h \in Hold : Total(Uses(h)) \in Nat
  BY <1>2, TotalType
<1>4. ASSUME NEW c \in Call
      PROVE  /\ Total(UsesOfOthers(c)) \in Nat
             /\ Total(Uses(HoldOf[c])) = Total(UsesOfOthers(c)) + Use(ledger[c])
  <2> DEFINE all == Uses(HoldOf[c])
             others == [d \in CallsOn(HoldOf[c]) \ {c} |-> all[d]]
  <2>1. HoldOf[c] \in Hold /\ c \in CallsOn(HoldOf[c])
    BY HoldsAreFinite
  <2>2. others = UsesOfOthers(c) /\ all[c] = Use(ledger[c])
    BY <2>1 DEF Uses, UsesOfOthers
  <2>3. Total(others) \in Nat /\ Total(all) = Total(others) + all[c]
    <3> HIDE DEF all
    <3> QED
      BY <1>2, <2>1, TotalSplits DEF all
  <2> QED
    BY <2>2, <2>3
<1> QED
  BY <1>1, <1>3, <1>4 DEF UsesAreNatural

LEMMA UsesTypeAfter == TypeOK' => UsesAreNatural'
  BY UsesType, PTL

(* The calls of a set that take no more than before do so together.        *)
LEMMA UsesShrink ==
    ASSUME TypeOK, TypeOK', NEW S \in SUBSET Call,
           \A d \in S : Use(ledger'[d]) <= Use(ledger[d])
    PROVE  Total([d \in S |-> Use(ledger'[d])]) <= Total([d \in S |-> Use(ledger[d])])
<1> DEFINE old == [d \in S |-> Use(ledger[d])]
           new == [d \in S |-> Use(ledger'[d])]
<1>1. \A d \in S : Use(ledger[d]) \in Nat
  BY UsesType DEF UsesAreNatural
<1>2. \A d \in S : Use(ledger'[d]) \in Nat
  BY UsesTypeAfter DEF UsesAreNatural
<1>3. old \in [S -> Nat] /\ new \in [S -> Nat] /\ \A d \in S : new[d] <= old[d]
  BY <1>1, <1>2
<1>4. IsFiniteSet(S)
  BY FiniteAssumption, FS_Subset
<1> HIDE DEF old, new
<1>5. Total(new) <= Total(old)
  BY <1>3, <1>4, TotalGrows
<1> QED
  BY <1>5 DEF old, new

LEMMA OthersShrink ==
    ASSUME TypeOK, TypeOK', NEW c \in Call,
           \A d \in CallsOn(HoldOf[c]) \ {c} : Use(ledger'[d]) <= Use(ledger[d])
    PROVE  Total(UsesOfOthers(c))' <= Total(UsesOfOthers(c))
<1>1. CallsOn(HoldOf[c]) \ {c} \in SUBSET Call
  BY DEF CallsOn
<1>2. Total([d \in CallsOn(HoldOf[c]) \ {c} |-> Use(ledger'[d])])
        <= Total([d \in CallsOn(HoldOf[c]) \ {c} |-> Use(ledger[d])])
  BY <1>1, UsesShrink
<1>3. Total(UsesOfOthers(c))' = Total([d \in CallsOn(HoldOf[c]) \ {c} |-> Use(ledger'[d])])
  BY DEF UsesOfOthers, CallsOn, Use, Total
<1> QED
  BY <1>2, <1>3 DEF UsesOfOthers

LEMMA AllShrink ==
    ASSUME TypeOK, TypeOK', NEW h \in Hold,
           \A d \in CallsOn(h) : Use(ledger'[d]) <= Use(ledger[d])
    PROVE  Total(Uses(h))' <= Total(Uses(h))
<1>1. CallsOn(h) \in SUBSET Call
  BY DEF CallsOn
<1>2. Total([d \in CallsOn(h) |-> Use(ledger'[d])]) <= Total([d \in CallsOn(h) |-> Use(ledger[d])])
  BY <1>1, UsesShrink
<1>3. Total(Uses(h))' = Total([d \in CallsOn(h) |-> Use(ledger'[d])])
  BY DEF Uses, CallsOn, Use, Total
<1> QED
  BY <1>2, <1>3 DEF Uses

(* Steps in which no call asks and none takes more than it did.            *)
LEMMA CallsStay ==
    ASSUME TypeOK, TypeOK', CallsInv,
           \A h \in Hold : held[h] <= held'[h],
           \A c \in Call : /\ Use(ledger'[c]) <= Use(ledger[c])
                           /\ caller'[c].pc \in Asking => caller'[c] = caller[c]
                           /\ KeepsItsEstimate(c)'
    PROVE  CallsInv'
<1>a. /\ \A h \in Hold : held[h] \in Nat /\ held'[h] \in Nat
      /\ \A c \in Call : caller[c] \in Caller /\ HoldOf[c] \in Hold
  BY HoldsAreFinite DEF TypeOK
<1>1. ASSUME NEW h \in Hold PROVE Total(Uses(h))' <= held'[h]
  <2>1. Total(Uses(h))' <= Total(Uses(h))
    BY AllShrink, HoldsAreFinite
  <2>2. Total(Uses(h))' \in Nat /\ Total(Uses(h)) \in Nat
    BY UsesType, UsesTypeAfter DEF UsesAreNatural
  <2>3. Total(Uses(h)) <= held[h]
    BY DEF CallsInv
  <2> QED
    BY <1>a, <2>1, <2>2, <2>3
<1>2. ASSUME NEW c \in Call, caller'[c].pc \in Asking
      PROVE  Total(UsesOfOthers(c))' + caller'[c].paid + caller'[c].worst <= held'[HoldOf[c]]
  <2>1. Total(UsesOfOthers(c))' <= Total(UsesOfOthers(c))
    BY OthersShrink, HoldsAreFinite
  <2>2. Total(UsesOfOthers(c))' \in Nat /\ Total(UsesOfOthers(c)) \in Nat
    BY UsesType, UsesTypeAfter DEF UsesAreNatural
  <2>3. caller'[c] = caller[c]
    BY <1>2
  <2>4. Total(UsesOfOthers(c)) + caller[c].paid + caller[c].worst <= held[HoldOf[c]]
    BY <1>2, <2>3 DEF CallsInv, HasRoom
  <2>5. caller[c].paid \in Nat /\ caller[c].worst \in Nat
    BY <1>a DEF Caller
  <2> QED
    BY <1>a, <2>1, <2>2, <2>3, <2>4, <2>5
<1>3. ASSUME NEW c \in Call, NEW d \in CallsOn(HoldOf[c]),
             caller'[c].pc \in Asking, caller'[d].pc \in Asking
      PROVE  c = d
  <2>1. d \in Call
    BY DEF CallsOn
  <2> QED
    BY <1>3, <2>1 DEF CallsInv
<1> QED
  BY <1>1, <1>2, <1>3 DEF CallsInv, HasRoom, CallsOn

(* A call that has been granted its worst case commits it.                 *)
LEMMA GrantedCallTakes ==
    ASSUME TypeOK, TypeOK', CallsInv, NEW c \in Call, held' = held,
           caller[c].pc \in Asking, caller'[c].pc \notin Asking,
           Use(ledger'[c]) <= caller[c].paid + caller[c].worst,
           \A d \in Call \ {c} : caller'[d] = caller[d] /\ ledger'[d] = ledger[d],
           KeepsItsEstimate(c)'
    PROVE  CallsInv'
<1>a. /\ \A h \in Hold : held[h] \in Nat
      /\ \A d \in Call : caller[d] \in Caller /\ HoldOf[d] \in Hold /\ d \in CallsOn(HoldOf[d])
      /\ \A d \in Call : Use(ledger[d]) \in Nat
      /\ \A d \in Call : caller[d].paid \in Nat /\ caller[d].worst \in Nat
  BY HoldsAreFinite, UsesType DEF UsesAreNatural, TypeOK, Caller
<1>b. \A d \in Call \ {c} : Use(ledger'[d]) <= Use(ledger[d])
  BY <1>a
<1>c. Total(UsesOfOthers(c)) + caller[c].paid + caller[c].worst <= held[HoldOf[c]]
  BY DEF CallsInv, HasRoom
<1>1. ASSUME NEW h \in Hold PROVE Total(Uses(h))' <= held'[h]
  <2>1. CASE h = HoldOf[c]
    <3>1. Total(UsesOfOthers(c))' <= Total(UsesOfOthers(c))
      BY <1>b, OthersShrink, HoldsAreFinite
    <3>2. /\ Total(UsesOfOthers(c)) \in Nat /\ Total(UsesOfOthers(c))' \in Nat
          /\ Use(ledger'[c]) \in Nat
          /\ Total(Uses(h))' = Total(UsesOfOthers(c))' + Use(ledger'[c])
      BY <2>1, UsesType, UsesTypeAfter DEF UsesAreNatural
    <3> QED
      BY <1>a, <1>c, <2>1, <3>1, <3>2
  <2>2. CASE h # HoldOf[c]
    <3>1. \A d \in CallsOn(h) : d \in Call \ {c}
      BY <2>2 DEF CallsOn
    <3>2. Total(Uses(h))' <= Total(Uses(h))
      BY <1>b, <3>1, AllShrink
    <3>3. Total(Uses(h))' \in Nat /\ Total(Uses(h)) \in Nat /\ Total(Uses(h)) <= held[h]
      BY UsesType, UsesTypeAfter DEF UsesAreNatural, CallsInv
    <3> QED
      BY <1>a, <3>2, <3>3
  <2> QED
    BY <2>1, <2>2
<1>2. ASSUME NEW d \in Call, caller'[d].pc \in Asking
      PROVE  Total(UsesOfOthers(d))' + caller'[d].paid + caller'[d].worst <= held'[HoldOf[d]]
  <2>1. d # c /\ caller'[d] = caller[d]
    BY <1>2
  <2>2. c \notin CallsOn(HoldOf[d])
    BY <1>2, <2>1, <1>a DEF CallsInv, CallsOn
  <2>3. Total(UsesOfOthers(d))' <= Total(UsesOfOthers(d))
    BY <1>b, <2>2, OthersShrink, HoldsAreFinite
  <2>4. Total(UsesOfOthers(d))' \in Nat /\ Total(UsesOfOthers(d)) \in Nat
    BY UsesType, UsesTypeAfter DEF UsesAreNatural
  <2>5. Total(UsesOfOthers(d)) + caller[d].paid + caller[d].worst <= held[HoldOf[d]]
    BY <1>2, <2>1 DEF CallsInv, HasRoom
  <2> QED
    BY <1>a, <2>1, <2>3, <2>4, <2>5
<1>3. \A d \in Call : KeepsItsEstimate(d)'
  BY DEF CallsInv, KeepsItsEstimate
<1>4. ASSUME NEW d \in Call, NEW e \in CallsOn(HoldOf[d]),
             caller'[d].pc \in Asking, caller'[e].pc \in Asking
      PROVE  d = e
  <2>1. e \in Call /\ d # c /\ e # c
    BY <1>4 DEF CallsOn
  <2> QED
    BY <1>4, <2>1 DEF CallsInv
<1> QED
  BY <1>1, <1>2, <1>3, <1>4 DEF CallsInv, HasRoom, CallsOn

(* A call asks alone on its hold, and for no more than is free.            *)
LEMMA AskingIsAlone ==
    ASSUME TypeOK, TypeOK', CallsInv, NEW c \in Call, held' = held, ledger' = ledger,
           Unlocked(HoldOf[c]),
           Total(UsesOfOthers(c)) + caller'[c].paid + caller'[c].worst <= held[HoldOf[c]],
           \A d \in Call \ {c} : caller'[d] = caller[d],
           KeepsItsEstimate(c)'
    PROVE  CallsInv'
<1>1. \A h \in Hold : Total(Uses(h))' = Total(Uses(h))
  BY DEF Uses, CallsOn, Use, Total
<1>2. \A d \in Call : Total(UsesOfOthers(d))' = Total(UsesOfOthers(d))
  BY DEF UsesOfOthers, CallsOn, Use, Total
<1>3. \A d \in Call : KeepsItsEstimate(d)'
  BY DEF CallsInv, KeepsItsEstimate
<1>4. ASSUME NEW d \in Call PROVE HasRoom(d)'
  <2>1. CASE d = c
    BY <1>2, <2>1 DEF HasRoom
  <2>2. CASE d # c
    BY <1>2, <2>2 DEF HasRoom, CallsInv
  <2> QED
    BY <2>1, <2>2
<1>5. ASSUME NEW d \in Call, NEW e \in CallsOn(HoldOf[d]),
             caller'[d].pc \in Asking, caller'[e].pc \in Asking
      PROVE  d = e
  <2>1. e \in Call /\ HoldOf[e] = HoldOf[d]
    BY DEF CallsOn
  <2>2. \A f \in Call \ {c} : HoldOf[f] = HoldOf[c] => caller'[f].pc \notin Asking
    BY DEF Unlocked, CallsOn
  <2>3. d # c /\ e # c => d = e
    BY <1>5, <2>1 DEF CallsInv
  <2> QED
    BY <1>5, <2>1, <2>2, <2>3
<1> QED
  BY <1>1, <1>3, <1>4, <1>5 DEF CallsInv, CallsOn

(* What a step with the call c does to the others.                         *)
LEMMA CallStepsAreLocal ==
    ASSUME TypeOK, NEW c \in Call,
           \/ \E worst \in Worst : Ask(c, worst)
           \/ ClaimRetry(c) \/ CallStep(c) \/ Reconcile(c)
    PROVE  /\ held' = held
           /\ \A d \in Call \ {c} : caller'[d] = caller[d] /\ ledger'[d] = ledger[d]
<1> USE DEF TypeOK, tables, CallAt
<1>1. CASE (\E worst \in Worst : Ask(c, worst)) \/ ClaimRetry(c) \/ Reconcile(c)
  BY <1>1 DEF Ask, ClaimRetry, Reconcile
<1>2. CASE ServeCached(c) \/ InsertPending(c) \/ RaiseEstimate(c) \/ WriteFails(c)
  BY <1>2 DEF ServeCached, InsertPending, RaiseEstimate, WriteFails
<1>3. CASE \E cost \in 0 .. (caller[c].worst + Overrun) : Answer(c, cost)
  BY <1>3 DEF Answer
<1>4. CASE Finalize(c)
  BY <1>4 DEF Finalize
<1>5. CASE Settle(c)
  BY <1>5 DEF Settle
<1> QED
  BY <1>1, <1>2, <1>3, <1>4, <1>5 DEF CallStep

(* What is free of a hold.                                                 *)
LEMMA AvailableFits ==
    ASSUME TypeOK, NEW h \in Hold, NEW amount \in Nat, NEW others \in SUBSET CallsOn(h),
           Total([c \in others |-> Use(ledger[c])]) \in Nat,
           Total([c \in others |-> Use(ledger[c])]) <= held[h],
           amount <= AvailableHold(h, others)
    PROVE  Total([c \in others |-> Use(ledger[c])]) + amount <= held[h]
<1> DEFINE used == Total([c \in others |-> Use(ledger[c])])
<1>1. held[h] \in Nat /\ used \in Nat /\ used <= held[h]
  BY DEF TypeOK
<1>2. AvailableHold(h, others) = 0 \/ AvailableHold(h, others) = Less(held[h], used)
  BY DEF AvailableHold
<1> HIDE DEF used
<1>3. used + amount <= held[h]
  BY <1>1, <1>2 DEF Less
<1> QED
  BY <1>3 DEF used

LEMMA CallsStep ==
    ASSUME Overrun = 0, RecordsInv, CallsInv, [Next]_vars
    PROVE  CallsInv'
<1> USE DEF tables
<1>a. TypeOK /\ TypeOK'
  BY TypeStays DEF RecordsInv
<1>b. /\ \A c \in Call : /\ CallIsWhole(c) /\ HasRoom(c) /\ KeepsItsEstimate(c)
                         /\ ledger[c] \in Invocation /\ caller[c] \in Caller
                         /\ HoldOf[c] \in Hold /\ Use(ledger[c]) \in Nat
                         /\ caller[c].paid \in Nat /\ caller[c].worst \in Nat
                         /\ ledger[c].worst \in Nat
      /\ \A h \in Hold : held[h] \in Nat /\ HoldIsWhole(h)
  BY <1>a, HoldsAreFinite, UsesType DEF UsesAreNatural, RecordsInv, CallsInv, TypeOK, Caller, Invocation
<1>0. ASSUME NEW c \in Call, held' = held,
             \A d \in Call \ {c} : caller'[d] = caller[d] /\ ledger'[d] = ledger[d],
             Use(ledger'[c]) <= Use(ledger[c]),
             caller'[c].pc \in Asking => caller'[c] = caller[c],
             KeepsItsEstimate(c)'
      PROVE  CallsInv'
  <2>1. \A h \in Hold : held[h] <= held'[h]
    BY <1>0, <1>b
  <2>2. ASSUME NEW d \in Call
        PROVE  /\ Use(ledger'[d]) <= Use(ledger[d])
               /\ caller'[d].pc \in Asking => caller'[d] = caller[d]
               /\ KeepsItsEstimate(d)'
    <3>1. CASE d = c
      BY <1>0, <3>1
    <3>2. CASE d # c
      BY <1>0, <1>b, <3>2 DEF KeepsItsEstimate
    <3> QED
      BY <3>1, <3>2
  <2> QED
    BY <1>a, <2>1, <2>2, CallsStay
<1>1. ASSUME ledger' = ledger, \A h \in Hold : held[h] <= held'[h],
             \A c \in Call : caller'[c] = caller[c] \/ caller'[c].pc = "over"
      PROVE  CallsInv'
  <2>1. ASSUME NEW c \in Call
        PROVE  /\ Use(ledger'[c]) <= Use(ledger[c])
               /\ caller'[c].pc \in Asking => caller'[c] = caller[c]
               /\ KeepsItsEstimate(c)'
    <3>1. Use(ledger'[c]) <= Use(ledger[c])
      BY <1>1, <1>b
    <3>2. caller'[c].pc \in Asking => caller'[c] = caller[c]
      BY <1>1 DEF Asking
    <3>3. KeepsItsEstimate(c)'
      BY <1>1, <1>b DEF KeepsItsEstimate
    <3> QED
      BY <3>1, <3>2, <3>3
  <2> QED
    BY <1>1, <1>a, <2>1, CallsStay
<1>2. ASSUME NEW h \in Hold, NEW estimate \in Estimates, Reserve(h, estimate) PROVE CallsInv'
  <2>1. held' = [held EXCEPT ![h] = estimate] /\ ledger' = ledger /\ caller' = caller
    BY <1>2 DEF Reserve
  <2>2. held[h] = 0 /\ estimate \in Nat
    BY <1>2, <1>b, AmountAssumption DEF Reserve, HoldIsWhole
  <2>3. \A g \in Hold : held[g] <= held'[g]
    BY <1>a, <1>b, <2>1, <2>2 DEF TypeOK
  <2> QED
    BY <1>1, <2>1, <2>3
<1>3. ASSUME \/ NextPeriod \/ UNCHANGED vars
             \/ \E r \in Run : Start(r) \/ LookAtRun(r) \/ EndLookedAt(r) \/ LeaveUnheld(r)
             \/ \E h \in Hold : \/ \E estimate \in Estimates : ReserveRefused(h, estimate)
                                \/ Finish(h) \/ Release(h) \/ ReleaseFails(h) \/ MarkReleased(h)
      PROVE  CallsInv'
  <2>1. held' = held /\ ledger' = ledger /\ caller' = caller
    BY <1>3 DEF NextPeriod, vars, Start, LookAtRun, EndLookedAt, LeaveUnheld, ReserveRefused, Finish,
       Release, ReleaseFails, MarkReleased
  <2> QED
    BY <1>1, <1>b, <2>1
<1>4. ASSUME NEW h \in Hold, Crash(h) PROVE CallsInv'
  <2>1. held' = held /\ ledger' = ledger
    BY <1>4 DEF Crash
  <2>2. \A c \in Call : caller'[c] = caller[c] \/ caller'[c].pc = "over"
    BY <1>4, <1>b DEF Crash, Caller
  <2> QED
    BY <1>1, <1>b, <2>1, <2>2
<1>5. ASSUME NEW c \in Call, NEW worst \in Worst, Ask(c, worst) PROVE CallsInv'
  <2> DEFINE h == HoldOf[c]
  <2>1. held' = held /\ ledger' = ledger /\ \A d \in Call \ {c} : caller'[d] = caller[d]
    BY <1>5, <1>a DEF Ask, TypeOK
  <2>2. CASE worst > AvailableHold(h, CallsOn(h))
    <3>1. caller'[c].pc = "over"
      BY <1>5, <1>a, <1>b, <2>2 DEF Ask, TypeOK, Caller
    <3> QED
      BY <1>1, <1>b, <2>1, <3>1
  <2>3. CASE ~(worst > AvailableHold(h, CallsOn(h)))
    <3>1. /\ caller'[c].pc = "asking" /\ caller'[c].worst = worst
          /\ caller'[c].paid = caller[c].paid /\ caller[c].pc = "idle" /\ Unlocked(h)
      BY <1>5, <1>a, <1>b, <2>3 DEF Ask, TypeOK, Caller
    <3>2. caller[c].paid = 0 /\ ledger[c] = NoInvocation
      BY <1>b, <3>1 DEF CallIsWhole
    <3>3. worst \in Nat /\ held[h] \in Nat
      BY <1>b, AmountAssumption
    <3>4. Total(Uses(h)) \in Nat /\ Total(Uses(h)) <= held[h] /\ Total(UsesOfOthers(c)) \in Nat
          /\ Total(Uses(h)) = Total(UsesOfOthers(c)) + Use(ledger[c])
      BY <1>a, <1>b, UsesType DEF UsesAreNatural, CallsInv
    <3>5. AvailableHold(h, CallsOn(h)) \in Nat
      <4>1. AvailableHold(h, CallsOn(h)) \in {0, Less(held[h], Total(Uses(h)))}
        BY DEF AvailableHold, Uses
      <4> QED
        BY <3>3, <3>4, <4>1, LessType
    <3>6. worst <= AvailableHold(h, CallsOn(h))
      BY <2>3, <3>3, <3>5
    <3>7. Total(Uses(h)) + worst <= held[h]
      BY <1>a, <1>b, <3>3, <3>4, <3>6, AvailableFits DEF Uses
    <3>8. Use(ledger[c]) = 0
      BY <3>2 DEF Use, NoInvocation
    <3>9. Total(UsesOfOthers(c)) + caller'[c].paid + caller'[c].worst <= held[HoldOf[c]]
      BY <3>1, <3>2, <3>3, <3>4, <3>7, <3>8
    <3>10. KeepsItsEstimate(c)'
      BY <2>1, <3>2 DEF KeepsItsEstimate, NoInvocation
    <3> QED
      BY <1>a, <2>1, <3>1, <3>9, <3>10, AskingIsAlone
  <2> QED
    BY <2>2, <2>3
<1>6. ASSUME NEW c \in Call, ClaimRetry(c) PROVE CallsInv'
  <2> DEFINE h == HoldOf[c]
             amount == caller[c].paid + caller[c].worst
  <2>1. /\ held' = held /\ ledger' = ledger /\ \A d \in Call \ {c} : caller'[d] = caller[d]
        /\ caller'[c].pc = "reasking" /\ caller'[c].worst = caller[c].worst
        /\ caller'[c].paid = caller[c].paid /\ Unlocked(h)
        /\ amount <= AvailableHold(h, CallsOn(h) \ {c})
    BY <1>6, <1>a, <1>b DEF ClaimRetry, CallAt, TypeOK, Caller
  <2>2. /\ Total(Uses(h)) \in Nat /\ Total(Uses(h)) <= held[h] /\ Total(UsesOfOthers(c)) \in Nat
        /\ Total(Uses(h)) = Total(UsesOfOthers(c)) + Use(ledger[c])
    BY <1>a, <1>b, UsesType DEF UsesAreNatural, CallsInv
  <2>3. Total(UsesOfOthers(c)) <= held[h]
    BY <1>b, <2>2
  <2>4. Total(UsesOfOthers(c)) + amount <= held[h]
    <3>1. amount \in Nat
      BY <1>b
    <3> HIDE DEF amount
    <3> QED
      BY <1>a, <1>b, <2>1, <2>2, <2>3, <3>1, AvailableFits DEF UsesOfOthers
  <2>5. Total(UsesOfOthers(c)) + caller'[c].paid + caller'[c].worst <= held[HoldOf[c]]
    BY <1>b, <2>1, <2>2, <2>4
  <2>6. KeepsItsEstimate(c)'
    BY <2>1 DEF KeepsItsEstimate
  <2> QED
    BY <1>a, <2>1, <2>5, <2>6, AskingIsAlone
<1>7. ASSUME NEW c \in Call, InsertPending(c) \/ RaiseEstimate(c) PROVE CallsInv'
  <2> DEFINE amount == caller[c].paid + caller[c].worst
  <2>1. held' = held /\ \A d \in Call \ {c} : caller'[d] = caller[d] /\ ledger'[d] = ledger[d]
    BY <1>7, <1>a, CallStepsAreLocal DEF CallStep
  <2>2. /\ caller[c].pc \in Asking /\ caller'[c].pc = "inflight"
        /\ caller'[c].paid = caller[c].paid /\ caller'[c].worst = caller[c].worst
    BY <1>7, <1>a, <1>b DEF InsertPending, RaiseEstimate, Asking, TypeOK, Caller
  <2>3. CASE ledger'[c].state = "pending"
    <3>1. ledger'[c].worst = amount
      <4>1. CASE InsertPending(c)
        <5>1. caller[c].paid = 0
          BY <1>b, <4>1 DEF InsertPending, CallIsWhole
        <5>2. ledger'[c].worst = caller[c].worst
          BY <1>a, <1>b, <4>1 DEF InsertPending, TypeOK, Invocation
        <5> QED
          BY <1>b, <5>1, <5>2
      <4>2. CASE RaiseEstimate(c)
        <5>1. ledger[c].state = "pending"
          BY <1>a, <1>b, <2>3, <4>2 DEF RaiseEstimate, TypeOK, Invocation
        <5> QED
          BY <1>a, <1>b, <4>2, <5>1 DEF RaiseEstimate, TypeOK, Invocation
      <4> QED
        BY <1>7, <4>1, <4>2
    <3>2. Use(ledger'[c]) <= amount
      BY <1>b, <2>3, <3>1 DEF Use
    <3>3. KeepsItsEstimate(c)'
      BY <1>b, <2>2, <3>1 DEF KeepsItsEstimate
    <3> QED
      BY <1>a, <2>1, <2>2, <3>2, <3>3, GrantedCallTakes DEF Asking
  <2>4. CASE ledger'[c].state # "pending"
    <3>1. ledger'[c] = ledger[c]
      <4>1. RaiseEstimate(c)
        BY <1>7, <1>a, <1>b, <2>4 DEF InsertPending, TypeOK, Invocation
      <4>2. ledger[c].state # "pending"
        BY <1>a, <1>b, <2>4, <4>1 DEF RaiseEstimate, TypeOK, Invocation
      <4> QED
        BY <1>a, <1>b, <4>1, <4>2 DEF RaiseEstimate, TypeOK, Invocation
    <3>2. Use(ledger'[c]) <= Use(ledger[c]) /\ KeepsItsEstimate(c)'
      BY <1>b, <2>4, <3>1 DEF KeepsItsEstimate
    <3> QED
      BY <1>0, <2>1, <2>2, <3>2 DEF Asking
  <2> QED
    BY <2>3, <2>4
<1>8. ASSUME NEW c \in Call, NEW cost \in 0 .. (caller[c].worst + Overrun), Answer(c, cost)
      PROVE  CallsInv'
  <2>1. held' = held /\ \A d \in Call \ {c} : caller'[d] = caller[d] /\ ledger'[d] = ledger[d]
    BY <1>8, <1>a, CallStepsAreLocal DEF CallStep
  <2>2. /\ caller[c].pc = "inflight" /\ caller'[c].pc = "answered" /\ ledger' = ledger
        /\ caller'[c].paid = caller[c].paid + cost
    BY <1>8, <1>a, <1>b DEF Answer, TypeOK, Caller
  <2>3. cost \in Nat /\ cost <= caller[c].worst
    BY <1>8, <1>b
  <2>4. ledger[c].state = "pending" => caller[c].paid + caller[c].worst <= ledger[c].worst
    BY <1>b, <2>2 DEF KeepsItsEstimate
  <2>5. ledger[c].state = "pending" => caller'[c].paid <= ledger[c].worst
    BY <1>b, <2>2, <2>3, <2>4
  <2>6. KeepsItsEstimate(c)'
    BY <2>2, <2>5 DEF KeepsItsEstimate
  <2>7. Use(ledger'[c]) <= Use(ledger[c])
    BY <1>b, <2>2
  <2> QED
    BY <1>0, <2>1, <2>2, <2>6, <2>7 DEF Asking
<1>9. ASSUME NEW c \in Call, ServeCached(c) \/ Finalize(c) \/ Settle(c) \/ WriteFails(c) \/ Reconcile(c)
      PROVE  CallsInv'
  <2>1. held' = held /\ \A d \in Call \ {c} : caller'[d] = caller[d] /\ ledger'[d] = ledger[d]
    BY <1>9, <1>a, CallStepsAreLocal DEF CallStep
  <2>2. CASE ServeCached(c)
    <3>1. /\ caller'[c].pc = "over" /\ ledger'[c].state = "done" /\ ledger'[c].cost = 0
      BY <1>a, <1>b, <2>2
      DEF ServeCached, CallAt, CallIsWhole, NoInvocation, TypeOK, Caller, Invocation
    <3>2. Use(ledger'[c]) <= Use(ledger[c]) /\ KeepsItsEstimate(c)'
      BY <1>b, <3>1 DEF Use, KeepsItsEstimate
    <3> QED
      BY <1>0, <2>1, <3>1, <3>2 DEF Asking
  <2>3. CASE Finalize(c) /\ ledger[c].state = "pending"
    <3>1. /\ caller[c].pc = "answered" /\ caller'[c].pc = "finalized"
          /\ ledger'[c].state = "done" /\ ledger'[c].cost = caller[c].paid
      BY <1>a, <1>b, <2>3 DEF Finalize, CallAt, TypeOK, Caller, Invocation
    <3>2. caller[c].paid <= ledger[c].worst
      BY <1>b, <2>3, <3>1 DEF KeepsItsEstimate
    <3>3. Use(ledger'[c]) <= Use(ledger[c]) /\ KeepsItsEstimate(c)'
      BY <2>3, <3>1, <3>2 DEF Use, KeepsItsEstimate
    <3> QED
      BY <1>0, <2>1, <3>1, <3>3 DEF Asking
  <2>4. CASE (Finalize(c) /\ ledger[c].state # "pending") \/ WriteFails(c)
    <3>1. caller'[c].pc = "over" /\ ledger' = ledger
      BY <1>a, <1>b, <2>4 DEF Finalize, WriteFails, CallAt, TypeOK, Caller
    <3> QED
      BY <1>1, <1>b, <2>1, <3>1
  <2>5. CASE Settle(c)
    <3>1. /\ caller'[c].pc = "over" /\ ledger'[c].state = ledger[c].state
          /\ ledger'[c].worst = ledger[c].worst /\ ledger'[c].cost = ledger[c].cost
      BY <1>a, <1>b, <2>5 DEF Settle, CallAt, TypeOK, Caller, Invocation
    <3>2. Use(ledger'[c]) = Use(ledger[c]) /\ KeepsItsEstimate(c)'
      BY <3>1 DEF Use, KeepsItsEstimate
    <3> QED
      BY <1>0, <1>b, <2>1, <3>1, <3>2 DEF Asking
  <2>6. CASE Reconcile(c)
    <3>1. caller' = caller /\ ledger'[c].state = "done" /\ ledger'[c].cost = 0
      BY <1>a, <1>b, <2>6 DEF Reconcile, TypeOK, Invocation
    <3>2. Use(ledger'[c]) <= Use(ledger[c]) /\ KeepsItsEstimate(c)'
      BY <1>b, <3>1 DEF Use, KeepsItsEstimate
    <3> QED
      BY <1>0, <2>1, <3>1, <3>2
  <2> QED
    BY <1>9, <2>2, <2>3, <2>4, <2>5, <2>6
<1> QED
  BY <1>2, <1>3, <1>4, <1>5, <1>6, <1>7, <1>8, <1>9 DEF Next, OwnerStep, CallStep

LEMMA MoneyAtFirst == Init => MoneyInv
<1> SUFFICES ASSUME Init, NEW k \in Counter
             PROVE  /\ ReservedCovers(k) /\ LimitIsKept(k)
                    /\ counter[k].spent = Total(ChargesOf(k, counter[k].since))
  BY DEF MoneyInv
<1>a. RecordsInv /\ TypeOK /\ MoneyIsNatural
  BY RecordsAtFirst, MoneyTypes DEF RecordsInv
<1>1. counter[k].spent = 0 /\ counter[k].reserved = 0 /\ counter[k].since = 0
  BY DEF Init
<1>2. Total(Lefts(k)) = 0
  <2>1. \A h \in Hold : Left(h) = 0
    BY DEF Init, Left, IsHeld, Hold
  <2>2. \A h \in HoldsOn(k) : Lefts(k)[h] = 0
    BY <2>1, HoldsAreFinite DEF Lefts
  <2> QED
    BY <1>a, <2>2, TotalOfZeros DEF MoneyIsNatural
<1>3. Total(ChargesOf(k, 0)) = 0
  <2>1. \A c \in Call : ChargesOf(k, 0)[c] = 0
    BY DEF Init, ChargesOf, Paid, NoInvocation
  <2> QED
    BY <1>a, <2>1, TotalOfZeros DEF MoneyIsNatural
<1>4. Total(LateChargesOf(k, 0)) \in Nat /\ Limit[k] \in Nat
  BY <1>a DEF MoneyIsNatural
<1> QED
  BY <1>1, <1>2, <1>3, <1>4 DEF ReservedCovers, LimitIsKept

LEMMA CallsAtFirst == Init => CallsInv
<1> SUFFICES ASSUME Init PROVE CallsInv
  OBVIOUS
<1>a. TypeOK
  BY RecordsAtFirst DEF RecordsInv
<1>1. ASSUME NEW h \in Hold PROVE Total(Uses(h)) <= held[h]
  <2>1. \A c \in CallsOn(h) : Use(ledger[c]) = 0
    BY HoldsAreFinite DEF Init, Use, NoInvocation
  <2>2. Uses(h) \in [CallsOn(h) -> Nat] /\ \A c \in CallsOn(h) : Uses(h)[c] = 0
    BY <2>1 DEF Uses
  <2>3. Total(Uses(h)) = 0 /\ held[h] = 0
    BY <2>2, TotalOfZeros DEF Init
  <2> QED
    BY <2>3
<1>2. \A c \in Call : caller[c].pc = "idle" /\ ledger[c].state = "none"
  BY DEF Init, NoInvocation
<1> QED
  BY <1>1, <1>2 DEF CallsInv, HasRoom, KeepsItsEstimate, Asking, CallsOn

-----------------------------------------------------------------------------
(* Every variable keeps its type: no amount of money becomes negative.     *)
THEOREM TypeCorrect == Spec => []TypeOK
<1>1. Init => TypeOK
  BY RecordsAtFirst DEF RecordsInv
<1> QED
  BY <1>1, TypeStays, PTL DEF Spec

LEMMA MoneyInvHolds == Spec => [](RecordsInv /\ MoneyInv)
<1>1. Init => RecordsInv /\ MoneyInv
  BY RecordsAtFirst, MoneyAtFirst
<1>2. RecordsInv /\ MoneyInv /\ [Next]_vars => (RecordsInv /\ MoneyInv)'
  BY RecordsStay, MoneyStep
<1> QED
  BY <1>1, <1>2, PTL DEF Spec

(* A counter that was there before the runs that are charged to it shows   *)
(* as reserved exactly what the holds on it have left, and no counter      *)
(* shows less: what an ender misses is only ever left on a new counter.    *)
THEOREM FoundCountersAreExact ==
    Spec => [](\A k \in Counter :
                  /\ Total(Lefts(k)) <= counter[k].reserved
                  /\ AlwaysFound(k) => counter[k].reserved = Total(Lefts(k)))
<1>1. MoneyInv =>
        \A k \in Counter : /\ Total(Lefts(k)) <= counter[k].reserved
                           /\ AlwaysFound(k) => counter[k].reserved = Total(Lefts(k))
  BY DEF MoneyInv, ReservedCovers
<1> QED
  BY <1>1, MoneyInvHolds, PTL

(* With all counters there before the runs, the ledger of reservations is  *)
(* exact as a whole: nothing leaks and nothing is freed twice.             *)
THEOREM ReservedIsHeldAlways == CountersExist => (Spec => []ReservedIsHeld)
<1> SUFFICES ASSUME CountersExist PROVE Spec => []ReservedIsHeld
  OBVIOUS
<1>1. \A k \in Counter : AlwaysFound(k)
  BY DEF CountersExist, AlwaysFound
<1>2. MoneyInv => ReservedIsHeld
  BY <1>1 DEF MoneyInv, ReservedCovers, ReservedIsHeld, Sum, Lefts, HoldsOn
<1> QED
  BY <1>2, MoneyInvHolds, PTL

(* What a counter shows as spent is the cost of the calls that were        *)
(* settled on it in its period, each of them once.                         *)
THEOREM SpentIsSettledAlways == Spec => []SpentIsSettled
<1>1. RecordsInv /\ MoneyInv => SpentIsSettled
  <2> SUFFICES ASSUME RecordsInv, MoneyInv, NEW k \in Counter
               PROVE  counter[k].spent = Total([c \in SettledOn(k) |-> ledger[c].cost])
    BY DEF SpentIsSettled, Sum
  <2> DEFINE since == counter[k].since
             costs == [c \in SettledOn(k) |-> ledger[c].cost]
  <2>1. MoneyIsNatural /\ SettledOn(k) \subseteq Call
    BY MoneyTypes DEF RecordsInv, SettledOn
  <2>2. costs \in [SettledOn(k) -> Nat] /\ ChargesOf(k, since) \in [Call -> Nat]
    BY <2>1 DEF MoneyIsNatural
  <2>3. \A c \in SettledOn(k) : costs[c] = ChargesOf(k, since)[c]
    BY <2>1 DEF SettledOn, ChargesOf, Counts, Paid
  <2>4. \A c \in Call \ SettledOn(k) : ChargesOf(k, since)[c] = 0
    BY DEF SettledOn, ChargesOf, Counts, Paid
  <2>5. Total(costs) = Total(ChargesOf(k, since))
    <3> HIDE DEF costs, since
    <3> QED
      BY <2>1, <2>2, <2>3, <2>4, TotalIgnoresZeros
  <2> QED
    BY <2>5 DEF MoneyInv
<1> QED
  BY <1>1, MoneyInvHolds, PTL

(* Under a hard stop nothing but charges that come after the release of    *)
(* their hold brings a period beyond its limit.                            *)
THEOREM OnlyLateChargesExceedAlways == HardStop => (Spec => []OnlyLateChargesExceed)
<1> SUFFICES ASSUME HardStop PROVE Spec => []OnlyLateChargesExceed
  OBVIOUS
<1>1. RecordsInv /\ MoneyInv => OnlyLateChargesExceed
  <2> SUFFICES ASSUME RecordsInv, MoneyInv, NEW k \in Rolling
               PROVE  counter[k].spent + counter[k].reserved <=
                          Limit[k] + Total([c \in SettledOn(k) |-> Less(ledger[c].cost, ledger[c].freed)])
    BY DEF OnlyLateChargesExceed, Sum
  <2> DEFINE since == counter[k].since
             late == [c \in SettledOn(k) |-> Less(ledger[c].cost, ledger[c].freed)]
  <2>a. k \in Counter
    BY HoldAssumption
  <2>1. MoneyIsNatural /\ SettledOn(k) \subseteq Call
    BY MoneyTypes DEF RecordsInv, SettledOn
  <2>2. late \in [SettledOn(k) -> Nat] /\ LateChargesOf(k, since) \in [Call -> Nat]
    <3>1. \A c \in SettledOn(k) : Less(ledger[c].cost, ledger[c].freed) \in Nat
      BY <2>1, LessType DEF MoneyIsNatural
    <3>2. LateChargesOf(k, since) \in [Call -> Nat]
      BY <2>a, <2>1 DEF MoneyIsNatural
    <3> QED
      BY <3>1, <3>2
  <2>3. \A c \in SettledOn(k) : late[c] = LateChargesOf(k, since)[c]
    BY <2>1 DEF SettledOn, LateChargesOf, Counts, Paid
  <2>4. \A c \in Call \ SettledOn(k) : LateChargesOf(k, since)[c] = 0
    <3>1. \A c \in Call : Less(0, ledger[c].freed) = 0
      BY <2>1 DEF MoneyIsNatural, Less
    <3> QED
      BY <3>1 DEF SettledOn, LateChargesOf, Counts, Paid
  <2>5. Total(late) = Total(LateChargesOf(k, since))
    <3> HIDE DEF late, since
    <3> QED
      BY <2>1, <2>2, <2>3, <2>4, TotalIgnoresZeros
  <2> QED
    BY <2>a, <2>5 DEF MoneyInv, LimitIsKept
<1> QED
  BY <1>1, MoneyInvHolds, PTL

(* The calls of one hold never take more than the hold, as long as no      *)
(* provider reports more than the worst case of a call.                    *)
THEOREM CallsAlwaysFit == Overrun = 0 => (Spec => []CallsFitTheirHold)
<1> SUFFICES ASSUME Overrun = 0 PROVE Spec => []CallsFitTheirHold
  OBVIOUS
<1>1. Init => RecordsInv /\ CallsInv
  BY RecordsAtFirst, CallsAtFirst
<1>2. RecordsInv /\ CallsInv /\ [Next]_vars => (RecordsInv /\ CallsInv)'
  BY RecordsStay, CallsStep
<1>3. RecordsInv /\ CallsInv => CallsFitTheirHold
  BY DEF CallsInv, CallsFitTheirHold, Sum, Uses
<1> QED
  BY <1>1, <1>2, <1>3, PTL DEF Spec

-----------------------------------------------------------------------------
(* The tables keep the book: every step of LlmBudget opens, spends from,   *)
(* closes or waives one hold of BudgetBook, or leaves the book as it is.   *)

Stage == [h \in Hold |-> IF IsHeld(h) THEN "open" ELSE IF Closed(h) THEN "closed" ELSE "new"]

Amount == [h \in Hold |-> Left(h)]

Held == [k \in Counter |-> counter[k].reserved]

LEMMA BookStays ==
    ASSUME \A h \in Hold : Left(h)' = Left(h) /\ IsHeld(h)' = IsHeld(h) /\ Closed(h)' = Closed(h),
           \A k \in Counter : counter'[k].reserved = counter[k].reserved
    PROVE  UNCHANGED Book!book
<1>1. Stage' = Stage /\ Amount' = Amount /\ Held' = Held
  BY DEF Stage, Amount, Held
<1> QED
  BY <1>1 DEF Book!book, Stage, Amount, Held, Closed

LEMMA BookOpens ==
    ASSUME NEW h \in Hold, NEW estimate \in Estimates,
           ~IsHeld(h), ~Closed(h), IsHeld(h)', Left(h)' = estimate,
           \A g \in Hold \ {h} : Left(g)' = Left(g) /\ IsHeld(g)' = IsHeld(g) /\ Closed(g)' = Closed(g),
           \A k \in Counter :
               counter'[k].reserved = IF k \in CountersOf[h] THEN counter[k].reserved + estimate
                                      ELSE counter[k].reserved
    PROVE  Book!Next
<1>1. Stage[h] = "new" /\ Stage' = [Stage EXCEPT ![h] = "open"]
  BY DEF Stage
<1>2. Amount' = [Amount EXCEPT ![h] = estimate]
  BY DEF Amount
<1>3. Held' = [k \in Counter |-> IF k \in CountersOf[h] THEN Held[k] + estimate ELSE Held[k]]
  BY DEF Held
<1>4. Book!Open(h, estimate)
  BY <1>1, <1>2, <1>3 DEF Book!Open, Book!On, Stage, Amount, Held, Closed
<1> QED
  BY <1>4 DEF Book!Next

(* In both a part of what is left of a hold goes from its counters.         *)
Frees(h, amount) ==
    /\ amount <= Left(h)
    /\ Left(h)' = Left(h) - amount
    /\ \A g \in Hold \ {h} : Left(g)' = Left(g)
    /\ \A k \in Counter : counter'[k].reserved = IF k \in CountersOf[h]
                                                 THEN counter[k].reserved - amount
                                                 ELSE counter[k].reserved

LEMMA FreesInBook ==
    ASSUME NEW h \in Hold, NEW amount, Frees(h, amount)
    PROVE  /\ amount <= Amount[h]
           /\ Amount' = [Amount EXCEPT ![h] = @ - amount]
           /\ Held' = [k \in Counter |-> IF k \in CountersOf[h] THEN Held[k] - amount ELSE Held[k]]
<1>1. amount <= Amount[h]
  BY DEF Amount, Frees
<1>2. Amount' = [Amount EXCEPT ![h] = @ - amount]
  BY DEF Amount, Frees
<1>3. Held' = [k \in Counter |-> IF k \in CountersOf[h] THEN Held[k] - amount ELSE Held[k]]
  BY DEF Held, Frees
<1> QED
  BY <1>1, <1>2, <1>3

LEMMA BookSpends ==
    ASSUME NEW h \in Hold, NEW amount \in 0 .. Left(h), IsHeld(h), Frees(h, amount),
           \A g \in Hold : IsHeld(g)' = IsHeld(g) /\ Closed(g)' = Closed(g)
    PROVE  Book!Next
<1>1. Stage[h] = "open" /\ Stage' = Stage
  BY DEF Stage
<1>2. Book!Spend(h, amount)
  BY <1>1, FreesInBook DEF Book!Spend, Book!Free, Book!On, Stage, Amount, Held, Closed
<1>3. amount \in 0 .. Amount[h]
  BY DEF Amount
<1> QED
  BY <1>2, <1>3 DEF Book!Next, Amount

LEMMA BookCloses ==
    ASSUME NEW h \in Hold, IsHeld(h), Frees(h, Left(h)), ~IsHeld(h)', Closed(h)',
           \A g \in Hold \ {h} : IsHeld(g)' = IsHeld(g) /\ Closed(g)' = Closed(g)
    PROVE  Book!Next
<1>1. Stage[h] = "open" /\ Stage' = [Stage EXCEPT ![h] = "closed"]
  BY DEF Stage
<1>2. Amount[h] = Left(h)
  BY DEF Amount
<1>3. /\ Amount[h] <= Amount[h]
      /\ Amount' = [Amount EXCEPT ![h] = @ - Amount[h]]
      /\ Held' = [k \in Counter |-> IF k \in CountersOf[h] THEN Held[k] - Amount[h] ELSE Held[k]]
  BY <1>2, FreesInBook
<1>4. Book!Close(h)
  BY <1>1, <1>3 DEF Book!Close, Book!Free, Book!On, Stage, Amount, Held, Closed
<1> QED
  BY <1>4 DEF Book!Next

LEMMA BookWaives ==
    ASSUME NEW h \in Hold, ~IsHeld(h), ~Closed(h), ~IsHeld(h)', Closed(h)',
           \A g \in Hold : Left(g)' = Left(g),
           \A g \in Hold \ {h} : IsHeld(g)' = IsHeld(g) /\ Closed(g)' = Closed(g),
           \A k \in Counter : counter'[k].reserved = counter[k].reserved
    PROVE  Book!Next
<1>1. Stage[h] = "new" /\ Stage' = [Stage EXCEPT ![h] = "closed"] /\ Amount' = Amount /\ Held' = Held
  BY DEF Stage, Amount, Held
<1>2. Book!Waive(h)
  BY <1>1 DEF Book!Waive, Stage, Amount, Held, Closed
<1> QED
  BY <1>2 DEF Book!Next

LEMMA HoldFreesInBook ==
    ASSUME RecordsInv, TypeOK', MoneyInv, NEW h \in Hold,
           NEW amount \in Nat, amount <= Left(h), Left(h)' = Left(h) - amount,
           \A g \in Hold \ {h} : Left(g)' = Left(g),
           \A k \in Counter :
               counter'[k].reserved = IF k \in CountersOf[h] THEN Less(counter[k].reserved, amount)
                                      ELSE counter[k].reserved
    PROVE  Frees(h, amount)
<1>1. CountersOf[h] \in SUBSET CountersOf[h] /\ (\A i \in CountersOf[h] : i \in CountersOf[h])
  OBVIOUS
<1>2. \A k \in Counter :
          counter'[k].reserved = IF k \in CountersOf[h] THEN counter[k].reserved - amount
                                 ELSE counter[k].reserved
  BY <1>1, HoldFrees
<1> QED
  BY <1>2 DEF Frees

LEMMA FreedFromReserved ==
    ASSUME TypeOK, NEW rows, NEW amount, FreedFrom(rows, amount), NEW k \in Counter
    PROVE  counter'[k].reserved = IF k \in rows THEN Less(counter[k].reserved, amount)
                                  ELSE counter[k].reserved
  BY DEF FreedFrom, TypeOK, CounterRow

LEMMA EndRunInBook ==
    ASSUME RecordsInv, TypeOK', MoneyInv, NEW r \in Run, EndRun(r, CountersOf[r]),
           held' = held, ledger' = ledger, loose' = loose
    PROVE  [Book!Next]_Book!book
<1>a. TypeOK /\ r \in Hold /\ Run \cap Loose = {}
  BY HoldAssumption DEF RecordsInv, Hold
<1>1. CASE run[r] = "ended"
  <2>1. run' = run /\ counter' = counter
    BY <1>1 DEF EndRun
  <2>2. \A h \in Hold : IsHeld(h)' = IsHeld(h) /\ Closed(h)' = Closed(h)
    BY <2>1 DEF IsHeld, Closed
  <2>3. \A c \in Call : Paid(c)' = Paid(c)
    BY DEF Paid
  <2>4. \A h \in Hold : Left(h)' = Left(h)
    BY <2>2, <2>3, LeftStays, HoldsAreFinite
  <2> QED
    BY <2>1, <2>2, <2>4, BookStays
<1>2. CASE run[r] # "ended"
  <2>1. /\ FreedFrom(CountersOf[r], Left(r)) /\ run' = [run EXCEPT ![r] = "ended"]
        /\ Left(r) \in Nat /\ Left(r)' = 0
        /\ \A g \in Hold \ {r} : Left(g)' = Left(g) /\ IsHeld(g)' = IsHeld(g)
    BY <1>2, EndRunMovesHold
  <2>2. ~Closed(r) /\ Closed(r)' /\ ~IsHeld(r)'
    BY <1>2, <1>a, <2>1 DEF Closed, IsHeld, TypeOK
  <2>3. \A g \in Hold \ {r} : Closed(g)' = Closed(g)
    BY <1>a, <2>1 DEF Closed, TypeOK
  <2>4. Left(r) <= Left(r) /\ Left(r)' = Left(r) - Left(r)
    BY <2>1
  <2>5. Frees(r, Left(r))
    BY <1>a, <2>1, <2>4, FreedFromReserved, HoldFreesInBook
  <2>6. CASE IsHeld(r)
    BY <1>a, <2>1, <2>2, <2>3, <2>5, <2>6, BookCloses
  <2>7. CASE ~IsHeld(r)
    <3>1. Left(r) = 0
      BY <2>7 DEF Left
    <3>2. \A g \in Hold : Left(g)' = Left(g)
      BY <2>1, <3>1
    <3>3. \A k \in Counter : counter'[k].reserved = counter[k].reserved
      <4>1. \A k \in Counter : counter[k].reserved \in Nat
        BY <1>a, MoneyTypes DEF MoneyIsNatural
      <4> QED
        BY <2>5, <3>1, <4>1 DEF Frees
    <3> QED
      BY <1>a, <2>1, <2>2, <2>3, <2>7, <3>2, <3>3, BookWaives
  <2> QED
    BY <2>6, <2>7
<1> QED
  BY <1>1, <1>2

LEMMA ReleaseInBook ==
    ASSUME RecordsInv, TypeOK', MoneyInv, NEW h \in Hold, Release(h)
    PROVE  [Book!Next]_Book!book
<1>1. CASE h \in Run
  BY <1>1, EndRunInBook DEF Release
<1>2. CASE h \notin Run
  <2>a. TypeOK
    BY DEF RecordsInv
  <2>1. /\ FreedFrom(CountersOf[h], Left(h)) /\ loose' = [loose EXCEPT ![h] = "freed"] /\ run' = run
        /\ Left(h) \in Nat /\ Left(h)' = 0 /\ h \in Loose /\ loose[h] = "held"
        /\ \A g \in Hold \ {h} : Left(g)' = Left(g) /\ IsHeld(g)' = IsHeld(g)
    BY <1>2, ReleaseMovesHold
  <2>2. IsHeld(h) /\ ~IsHeld(h)' /\ Closed(h)'
    BY <1>2, <2>a, <2>1 DEF IsHeld, Closed, TypeOK
  <2>3. \A g \in Hold \ {h} : Closed(g)' = Closed(g)
    BY <2>a, <2>1 DEF Closed, TypeOK, Hold
  <2>4. Left(h) <= Left(h) /\ Left(h)' = Left(h) - Left(h)
    BY <2>1
  <2>5. Frees(h, Left(h))
    BY <2>a, <2>1, <2>4, FreedFromReserved, HoldFreesInBook
  <2> QED
    BY <2>1, <2>2, <2>3, <2>5, BookCloses
<1> QED
  BY <1>1, <1>2

LEMMA ReserveInBook ==
    ASSUME RecordsInv, NEW h \in Hold, NEW estimate \in Estimates, Reserve(h, estimate)
    PROVE  [Book!Next]_Book!book
<1>a. TypeOK /\ estimate \in Nat /\ Run \cap Loose = {}
  BY AmountAssumption, HoldAssumption DEF RecordsInv
<1>1. /\ Left(h) = 0 /\ Left(h)' = estimate
      /\ \A g \in Hold \ {h} : Left(g)' = Left(g) /\ IsHeld(g)' = IsHeld(g)
      /\ \A k \in Counter :
             counter'[k].reserved = IF k \in CountersOf[h] THEN counter[k].reserved + estimate
                                    ELSE counter[k].reserved
  BY ReserveMovesHold
<1>2. held[h] = 0 /\ (h \notin Run => loose[h] = "new")
  BY NewHoldIsEmpty DEF Reserve
<1>3. /\ held' = [held EXCEPT ![h] = estimate] /\ run' = run /\ MayHold(h)
      /\ loose' = [g \in Loose |-> IF g = h THEN "held" ELSE loose[g]]
  BY DEF Reserve
<1>4. ~IsHeld(h) /\ ~Closed(h)
  BY <1>2, <1>3 DEF IsHeld, Closed, MayHold
<1>5. \A g \in Hold \ {h} : Closed(g)' = Closed(g)
  BY <1>3 DEF Closed, Hold
<1>6. CASE h \in Run /\ estimate = 0
  <2>1. ~IsHeld(h)'
    BY <1>a, <1>3, <1>6 DEF IsHeld, TypeOK
  <2>2. ~Closed(h)'
    BY <1>3, <1>6 DEF Closed, MayHold
  <2>3. \A k \in Counter : counter'[k].reserved = counter[k].reserved
    <3>1. \A k \in Counter : counter[k].reserved \in Nat
      BY <1>a, MoneyTypes DEF MoneyIsNatural
    <3> QED
      BY <1>1, <1>6, <3>1
  <2>4. \A g \in Hold : Left(g)' = Left(g) /\ IsHeld(g)' = IsHeld(g) /\ Closed(g)' = Closed(g)
    <3>1. Left(h)' = Left(h)
      BY <1>1, <1>6
    <3>2. IsHeld(h)' = IsHeld(h)
      BY <1>4, <2>1 DEF IsHeld
    <3>3. Closed(h)' = Closed(h)
      BY <1>4, <2>2 DEF Closed
    <3> QED
      BY <1>1, <1>5, <3>1, <3>2, <3>3
  <2> QED
    BY <2>3, <2>4, BookStays
<1>7. CASE h \notin Run \/ estimate # 0
  <2>1. IsHeld(h)'
    <3>1. held'[h] = estimate
      BY <1>a, <1>3 DEF TypeOK
    <3>2. h \notin Run => loose'[h] = "held"
      BY <1>3 DEF Hold
    <3>3. h \in Run => estimate > 0 /\ run'[h] # "ended"
      BY <1>a, <1>3, <1>7 DEF MayHold
    <3> QED
      BY <3>1, <3>2, <3>3 DEF IsHeld
  <2> QED
    BY <1>1, <1>4, <1>5, <2>1, BookOpens
<1> QED
  BY <1>a, <1>6, <1>7

LEMMA SettleInBook ==
    ASSUME RecordsInv, TypeOK', MoneyInv, NEW c \in Call, Settle(c)
    PROVE  [Book!Next]_Book!book
<1>a. TypeOK /\ held' = held /\ run' = run /\ loose' = loose
  BY DEF RecordsInv, Settle
<1>b. \A h \in Hold : IsHeld(h)' = IsHeld(h) /\ Closed(h)' = Closed(h)
  BY <1>a DEF IsHeld, Closed
<1>1. CASE ledger[c].settled
  <2>1. counter' = counter /\ ledger' = ledger
    BY <1>1 DEF Settle
  <2>2. \A d \in Call : Paid(d)' = Paid(d)
    BY <2>1 DEF Paid
  <2>3. \A h \in Hold : Left(h)' = Left(h)
    BY <1>a, <1>b, <2>2, LeftStays, HoldsAreFinite
  <2> QED
    BY <1>b, <2>1, <2>3, BookStays
<1>2. CASE ~ledger[c].settled
  <2> DEFINE h == HoldOf[c]
             cost == ledger[c].cost
             freed == Least(cost, Left(h))
  <2>1. /\ RemainingHold(h) = Left(h)
        /\ freed \in Nat /\ freed <= Left(h)
        /\ Left(h)' = Left(h) - freed
        /\ \A g \in Hold \ {h} : Left(g)' = Left(g)
    BY <1>2, SettleMovesHold
  <2>2. h \in Hold /\ Left(h) \in Nat
    BY <1>a, HoldsAreFinite, LeftType
  <2>3. \A k \in Counter :
            counter'[k] = IF k \in CountersOf[h] THEN Charged(Rolled(counter[k], k), cost, freed)
                          ELSE counter[k]
    BY <1>2, <2>1 DEF Settle
  <2>4. ASSUME NEW k \in Counter
        PROVE  counter'[k].reserved = IF k \in CountersOf[h] THEN Less(counter[k].reserved, freed)
                                      ELSE counter[k].reserved
    <3> DEFINE rolled == Rolled(counter[k], k)
    <3>1. rolled \in CounterRow /\ rolled.reserved = counter[k].reserved
      BY <1>a, RolledType
    <3>2. counter'[k] = IF k \in CountersOf[h] THEN Charged(rolled, cost, freed) ELSE counter[k]
      BY <2>3
    <3> HIDE DEF rolled, h, cost, freed
    <3> QED
      BY <3>1, <3>2 DEF Charged, CounterRow
  <2> HIDE DEF h, freed
  <2>5. Frees(h, freed)
    BY <2>1, <2>2, <2>4, HoldFreesInBook
  <2>6. CASE IsHeld(h)
    <3>1. freed \in 0 .. Left(h)
      BY <2>1, <2>2
    <3> QED
      BY <1>b, <2>2, <2>5, <2>6, <3>1, BookSpends
  <2>7. CASE ~IsHeld(h)
    <3>1. Left(h) = 0 /\ freed = 0
      BY <2>1, <2>7 DEF Left
    <3>2. \A g \in Hold : Left(g)' = Left(g)
      BY <2>1, <3>1
    <3>3. \A k \in Counter : counter'[k].reserved = counter[k].reserved
      <4>1. \A k \in Counter : counter[k].reserved \in Nat
        BY <1>a, MoneyTypes DEF MoneyIsNatural
      <4> QED
        BY <2>5, <3>1, <4>1 DEF Frees
    <3> QED
      BY <1>b, <3>2, <3>3, BookStays
  <2> QED
    BY <2>6, <2>7
<1> QED
  BY <1>1, <1>2

LEMMA StepInBook ==
    ASSUME CountersExist, RecordsInv, MoneyInv, [Next]_vars
    PROVE  [Book!Next]_Book!book
<1> USE DEF tables
<1>a. TypeOK /\ TypeOK' /\ Run \subseteq Hold
  BY TypeStays DEF RecordsInv, Hold
<1>1. ASSUME counter' = counter, held' = held, loose' = loose,
             \A r \in Run : (run'[r] = "ended") = (run[r] = "ended"),
             \A c \in Call : Paid(c)' = Paid(c)
      PROVE  UNCHANGED Book!book
  <2>1. \A h \in Hold : IsHeld(h)' = IsHeld(h) /\ Closed(h)' = Closed(h)
    BY <1>1 DEF IsHeld, Closed
  <2>2. \A h \in Hold : Left(h)' = Left(h)
    BY <1>1, <2>1, LeftStays, HoldsAreFinite
  <2> QED
    BY <1>1, <2>1, <2>2, BookStays
<1>2. ASSUME NEW r \in Run, Start(r) PROVE UNCHANGED Book!book
  <2>1. \A q \in Run : (run'[q] = "ended") = (run[q] = "ended")
    BY <1>2, <1>a DEF Start, TypeOK
  <2>2. /\ counter' = counter /\ held' = held /\ loose' = loose
        /\ \A c \in Call : Paid(c)' = Paid(c)
    BY <1>2 DEF Start, Paid
  <2> QED
    BY <1>1, <2>1, <2>2
<1>3. ASSUME NEW r \in Run, EndLookedAt(r) PROVE [Book!Next]_Book!book
  <2>1. PICK found \in ender[r] : EndRun(r, IF found = {} THEN CountersOf[r] \cap made ELSE found)
    BY <1>3 DEF EndLookedAt
  <2>2. EnderIsWhole(r)
    BY DEF RecordsInv
  <2>3. (IF found = {} THEN CountersOf[r] \cap made ELSE found) = CountersOf[r]
    BY <2>1, <2>2 DEF EnderIsWhole, CountersExist
  <2>4. EndRun(r, CountersOf[r])
    BY <2>1, <2>3
  <2>5. held' = held /\ ledger' = ledger /\ loose' = loose
    BY <1>3 DEF EndLookedAt
  <2> QED
    BY <1>a, <2>4, <2>5, EndRunInBook
<1>4. ASSUME NEW h \in Hold, NEW estimate \in Estimates, Reserve(h, estimate)
      PROVE  [Book!Next]_Book!book
  BY <1>4, ReserveInBook
<1>5. ASSUME NEW h \in Hold, Release(h) PROVE [Book!Next]_Book!book
  BY <1>5, <1>a, ReleaseInBook
<1>6. ASSUME NEW c \in Call, Settle(c) PROVE [Book!Next]_Book!book
  BY <1>6, <1>a, SettleInBook
<1>7. ASSUME NEW c \in Call, \/ ServeCached(c) \/ InsertPending(c) \/ RaiseEstimate(c)
                             \/ Finalize(c) \/ Reconcile(c)
      PROVE  UNCHANGED Book!book
  <2>1. counter' = counter /\ held' = held /\ run' = run /\ loose' = loose
    BY <1>7 DEF ServeCached, InsertPending, RaiseEstimate, Finalize, Reconcile
  <2>2. \A d \in Call : Paid(d)' = Paid(d)
    BY <1>7, <1>a, RowStepsPayNothing
  <2> QED
    BY <1>1, <2>1, <2>2
<1>8. CASE UNCHANGED <<counter, held, run, loose, ledger>>
  <2>1. \A c \in Call : Paid(c)' = Paid(c)
    BY <1>8 DEF Paid
  <2> QED
    BY <1>1, <1>8, <2>1
<1>9. ASSUME \/ NextPeriod
             \/ \E r \in Run : LookAtRun(r) \/ LeaveUnheld(r)
             \/ \E h \in Hold : \/ \E estimate \in Estimates : ReserveRefused(h, estimate)
                                \/ Finish(h) \/ ReleaseFails(h) \/ MarkReleased(h) \/ Crash(h)
             \/ \E c \in Call : \/ \E worst \in Worst : Ask(c, worst)
                                \/ ClaimRetry(c) \/ WriteFails(c)
                                \/ \E cost \in 0 .. (caller[c].worst + Overrun) : Answer(c, cost)
      PROVE  UNCHANGED <<counter, held, run, loose, ledger>>
  BY <1>9 DEF NextPeriod, LookAtRun, LeaveUnheld, ReserveRefused, Finish, ReleaseFails, MarkReleased,
     Crash, Ask, ClaimRetry, WriteFails, Answer
<1> QED
  BY <1>2, <1>3, <1>4, <1>5, <1>6, <1>7, <1>8, <1>9 DEF Next, OwnerStep, CallStep, vars

LEMMA BookAtFirst == Init => Book!Init
<1> SUFFICES ASSUME Init PROVE Book!Init
  OBVIOUS
<1>1. \A h \in Hold : ~IsHeld(h) /\ ~Closed(h)
  BY DEF Init, IsHeld, Closed, Hold
<1>2. Stage = [h \in Hold |-> "new"]
  BY <1>1 DEF Stage
<1>3. Amount = [h \in Hold |-> 0]
  BY <1>1 DEF Amount, Left
<1>4. Held = [k \in Counter |-> 0]
  BY DEF Init, Held
<1> QED
  BY <1>2, <1>3, <1>4 DEF Book!Init, Stage, Amount, Held, Closed

(* The tables implement BudgetBook: a hold is put on its counters once,    *)
(* taken from them in parts, and what is left freed once.                  *)
THEOREM TablesKeepTheBook == CountersExist => (Spec => ImplementsBook)
<1> SUFFICES ASSUME CountersExist PROVE Spec => ImplementsBook
  OBVIOUS
<1>1. RecordsInv /\ MoneyInv /\ [Next]_vars => [Book!Next]_Book!book
  BY StepInBook
<1> QED
  BY <1>1, BookAtFirst, MoneyInvHolds, PTL DEF Spec, ImplementsBook, Book!Spec

=============================================================================
