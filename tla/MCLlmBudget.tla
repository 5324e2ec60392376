----------------------------- MODULE MCLlmBudget -----------------------------
(* LlmBudget for TLC.  A turn makes calls, two at a time, and a batch      *)
(* without a run holds a budget beside it; both are on the counter of the  *)
(* month, and the turn is also on the counter that caps one run.           *)
EXTENDS LlmBudget

CONSTANTS turn, batch, c1, c2, c3, month, cap

MCHoldOf == [c \in Call |-> IF c = c3 THEN batch ELSE turn]
MCCountersOf == [h \in Hold |-> IF h = batch THEN {month} ELSE {month, cap}]
MCLimit == [c \in Counter |-> IF c = month THEN 3 ELSE 2]

=============================================================================
