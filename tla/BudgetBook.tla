----------------------------- MODULE BudgetBook -----------------------------
(***************************************************************************)
(* What the LLM budget promises.  A hold is opened once with an amount on  *)
(* every counter it is for, parts of it are spent, and what is left is     *)
(* freed once when it closes.  `reserved' of a counter moves with the      *)
(* holds on it and with nothing else.                                      *)
(***************************************************************************)
EXTENDS Amounts

CONSTANTS Hold, Counter, CountersOf,
          Estimates     \* the amounts a hold may be opened with

VARIABLES stage,      \* of every hold
          left,       \* what is still held
          reserved    \* the total of every counter

book == <<stage, left, reserved>>

On(h, c) == c \in CountersOf[h]

Init ==
    /\ stage = [h \in Hold |-> "new"]
    /\ left = [h \in Hold |-> 0]
    /\ reserved = [c \in Counter |-> 0]

Open(h, amount) ==
    /\ stage[h] = "new"
    /\ stage' = [stage EXCEPT ![h] = "open"]
    /\ left' = [left EXCEPT ![h] = amount]
    /\ reserved' = [c \in Counter |-> IF On(h, c) THEN reserved[c] + amount ELSE reserved[c]]

Free(h, amount) ==
    /\ stage[h] = "open"
    /\ amount <= left[h]
    /\ left' = [left EXCEPT ![h] = @ - amount]
    /\ reserved' = [c \in Counter |-> IF On(h, c) THEN reserved[c] - amount ELSE reserved[c]]

Spend(h, amount) == Free(h, amount) /\ UNCHANGED stage

Close(h) == Free(h, left[h]) /\ stage' = [stage EXCEPT ![h] = "closed"]

(* A run that ends without ever having held anything.                      *)
Waive(h) ==
    /\ stage[h] = "new"
    /\ stage' = [stage EXCEPT ![h] = "closed"]
    /\ UNCHANGED <<left, reserved>>

Next ==
    \E h \in Hold :
        \/ \E amount \in Estimates : Open(h, amount)
        \/ \E amount \in 0 .. left[h] : Spend(h, amount)
        \/ Close(h)
        \/ Waive(h)

Spec == Init /\ [][Next]_book

=============================================================================
