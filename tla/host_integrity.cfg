\* Two processes, of one release or of two, one of them with two threads.
CONSTANTS
    t1 = t1  t2 = t2  t3 = t3  p1 = p1  p2 = p2
    Writer = {t1, t2, t3}
    Reader = {p1, p2}
    Owner <- MCOwner
    Release = {r1, r2}
    Options <- MCOptions
    Package <- MCPackage
    Blob <- Policy
    Absent = Absent
    Empty = Empty
    Torn = Torn
SPECIFICATION Spec
SYMMETRY HostSymmetry
INVARIANTS StoreKeepsLast CommitsAlone PolicyInStep EvidenceEnforced
