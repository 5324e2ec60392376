\* A turn with two calls and a loose batch, a new period, failing releases.
SPECIFICATION FairSpec
CONSTANTS
    turn = turn
    batch = batch
    c1 = c1
    c2 = c2
    c3 = c3
    month = month
    cap = cap
    Run = {turn}
    Turn = {turn}
    Loose = {batch}
    Call = {c1, c2}
    HoldOf <- MCHoldOf
    Counter = {month, cap}
    CountersOf <- MCCountersOf
    Existing = {month, cap}
    Rolling = {month}
    Limit <- MCLimit
    HardStop = TRUE
    Estimates = {2}
    Worst = {1}
    Overrun = 0
    Failing = {turn, batch}
    Periods = 1
INVARIANT ReservedIsHeld
INVARIANT SpentIsSettled
INVARIANT CallsFitTheirHold
INVARIANT OnlyLateChargesExceed
PROPERTY ImplementsBook
PROPERTY HoldsAreFreed
CHECK_DEADLOCK FALSE
