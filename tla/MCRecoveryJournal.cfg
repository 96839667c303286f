CONSTANTS
    d1 = d1
    d2 = d2
    Docs <- MCDocs
    MaxPreferences = 2
    MaxRotations = 1
    MaxRestores = 1
SPECIFICATION Spec
INVARIANTS
    AckedDurable
    LocksOnlyOnLossOrTornRotation
PROPERTIES
    ProtectedLogGrows
    ChainedOnProtectedHead
