\* Every operation class; two grants; requests that respect their timeout or not.
CONSTANTS
    Operation <- OperationClass
    Policy <- ResolveRequestPolicy
    RequestTime <- MCRequestTime
    Oversleep <- MCOversleep
    Grant = {g1, g2}
    NoGrant = NoGrant
SPECIFICATION OperationsSpec
SYMMETRY GrantSymmetry
INVARIANTS DeadlineKept GivesUpOnlyWhenLate PolicyAllowsRetries EffectsAccounted
