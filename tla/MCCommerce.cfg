CONSTANTS
    first = first
    second = second
    c1 = c1
    c2 = c2
    Workers <- MCTwoWorkers
    Subscriptions <- MCOneSubscription
    Commands <- MCOneCommand
    Kinds <- MCKinds
    StripeAdapter = TRUE
    GracePeriod = 1
    Period = 1
    MaxTime = 2
    MaxRevision = 2
    MaxVersion = 12
    MaxLosses = 1
SPECIFICATION Spec
CHECK_DEADLOCK FALSE
SYMMETRY MCSymmetry
INVARIANTS
    SettledUnlessOvertaken
    GraceIsNotCutShort
    PremiumWasPaid
    
