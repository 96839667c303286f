SPECIFICATION Spec
CONSTANTS
    Invitations = {i1, i2}
    Recipients = {r1, r2}
    Commands = {c1, c2, c3}
    Deployments <- MCSchema
    Validity = 2
    FirstReminder = 1
    FinalReminder = 1
    MaxTime = 2
    MaxSecrets = 3
    MaxFailures = 0
PROPERTIES
    RevocationEnds
