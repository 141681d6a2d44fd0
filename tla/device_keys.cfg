\* Two threads of one process and a second process; three keys.
\* The first process may have set device_id.
CONSTANTS
    t1 = t1
    t2 = t2
    t3 = t3
    p1 = p1
    p2 = p2
    Thread = {t1, t2, t3}
    Process = {p1, p2}
    ProcessOf <- TwoProcesses
    MayName = {p1}
    NoThread = NoThread
    Key = {k1, k2, k3}
    NoKey = NoKey
SPECIFICATION Spec
SYMMETRY KeySymmetry
INVARIANTS KeyMaterialKept FirstStartAgrees CommitsDoNotOverlap DeviceInStep 
PROPERTIES ImplementsRegister
