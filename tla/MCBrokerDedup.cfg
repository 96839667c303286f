CONSTANTS
    observe = observe
    activate = activate
    logon1 = logon1
    logon2 = logon2
    Identities <- MCIdentities
    Observations <- MCObservations
    early = early
    late = late
    Times <- MCTimes
    Principals <- MCPrincipals
    CounterLimit = 2
    MaxSessions = 3
SYMMETRY MCSymmetry
SPECIFICATION Spec
INVARIANTS
    TypeOK
    ReplayOnlyAfterFailure
PROPERTIES
    CounterAdmitsOneRequest
    FollowsLedger
    AnswersAreGenuine
