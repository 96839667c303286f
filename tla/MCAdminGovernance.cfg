CONSTANTS
    m1 = m1
    m2 = m2
    m3 = m3
    r1 = r1
    d1 = d1
    s1 = s1
    s2 = s2
    Members <- MCMembers
    Founders <- MCFounders
    Functions <- MCFunctions
    Requests <- MCRequests
    Delegations <- MCDelegations
    Slots <- MCSlots
    Window = 1
    Validity = 1
    MaxTime = 1
    MaxCommands = 3
SPECIFICATION Spec
CHECK_DEADLOCK FALSE
SYMMETRY MCSymmetry
PROPERTIES
    TwoPeople
    PreviewedIsCurrent
