CONSTANTS
    apply = apply
    restore = restore
    stale = stale
    balanced = balanced
    boost = boost
    other = other
    Transactions <- MCTransactions
    Schemes <- MCSchemes
    Prior <- MCPrior
    Requested <- MCRequested
    Operation <- MCOperation
    Unadmitted <- MCUnadmitted
SPECIFICATION Spec
INVARIANTS
    VerdictFollowsObservation
    ReceiptCertifiesRequested
    SuccessShownIsDurable
    GateAgreesWithRecovery
    OverlookedOnlyIfOutrun
PROPERTIES
    FollowsLifecycle
    CallReturns
