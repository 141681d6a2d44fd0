\* Refreshing over time, with one key id: fresh, due for refresh, or expired.
CONSTANTS
    Thread = {t1, t2}
    NoThread = NoThread
    KeyId = {k1}
    Material = {m1}
    NoKey = NoKey
    MaxPrevious = 1
    Lead = 1
    Skew = 1
    Lifetime <- MCLifetime
    MaxTime = 3
SPECIFICATION LiveSpec
INVARIANTS NoRedundantFetch
PROPERTIES RefreshReturns RefreshLockReleased
