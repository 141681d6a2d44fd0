\* Key changes: more ids than the ring holds, rebinding, two requests in flight.
CONSTANTS
    Thread = {t1, t2}
    NoThread = NoThread
    KeyId = {k1, k2, k3, k4}
    Material = {m1, m2}
    NoKey = NoKey
    MaxPrevious = 2
    Lead = 1
    Skew = 1
    Lifetime = {2}
    MaxTime = 1
SPECIFICATION Spec
SYMMETRY KeySymmetry
INVARIANTS InFlightKeyFound
PROPERTIES NoRebind
