SPECIFICATION BoundedSpec
CONSTANTS
    Stores = {a, b}
    Postures = {p1, p2}
    Receipts = {r1, r2}
    NoReceipt = none
    Faults <- EveryFault
SYMMETRY Interchangeable
INVARIANTS
    JournalReplays
    TransitionsAreGranted
    ProjectionIsProtected
    LagIsRepairable
PROPERTIES
    TransitionsActOnWhatWasShown
    StartsCurrent
