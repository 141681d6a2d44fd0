\* Three threads and three requests, so that a lost answer leaves an orphan.
CONSTANTS
    Thread = {t1, t2, t3}
    Request = {r1, r2, r3}
    NoRequest = NoRequest
SPECIFICATION DebugSpec
SYMMETRY Symmetry
INVARIANTS CredentialsKept ErasedAfterTold OutcomesAgree
