SPECIFICATION Spec
CONSTANTS
    Invitations = {i1, i2}
    Recipients = {r1, r2}
    Commands = {c1, c2, c3, c4}
    Deployments <- MCBoth
    Validity = 2
    FirstReminder = 1
    FinalReminder = 1
    MaxTime = 2
    MaxSecrets = 4
    MaxFailures = 1
SYMMETRY Interchangeable
INVARIANTS
    SeatsAreLimited
    LastLetterOpens
