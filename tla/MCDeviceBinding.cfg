CONSTANTS
    c1 = c1
    c2 = c2
    c3 = c3
    pc1 = pc1
    pc2 = pc2
    b1 = b1
    b2 = b2
    b3 = b3
    e1 = e1
    Commands <- MCThreeCommands
    Kinds <- MCKinds
    PCs <- MCPCs
    Bindings <- MCThreeBindings
    Exceptions <- MCException
    MaxEntitlements = 1
    Overlap = FALSE
    MaxInterventions = 1
    Cooldown = 1
    Validity = 1
    Freshness = 0
    MaxTime = 1
    MaxVersion = 4
    MaxBase = 2
SPECIFICATION Spec
CHECK_DEADLOCK FALSE
SYMMETRY MCSymmetry
INVARIANTS
    OneActivePC
    ExceptionOnce
PROPERTIES
    ReplacementWaits
    NeverStranded
    StaleOnlyIfReconciled
