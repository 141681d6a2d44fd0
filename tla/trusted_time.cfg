\* Two threads that may both set the clock, restarts, a budget that runs out.
CONSTANTS
    Thread = {t1, t2}
    NoAnchor = NoAnchor
    Boot = 1
    MaxRoundTrip = 2
    MaxOffline = 1
    MaxTick = 6
SPECIFICATION Spec
SYMMETRY ThreadSymmetry
INVARIANTS ClockAccurate OfflineBudgetKept OverrunStaysLocked
