SPECIFICATION Spec
CONSTANTS
    Replicas = {p1, p2}
    Tags = {t1}
    SharedIds = TRUE
    Expectations = {"good"}
    MaxFaults = 0
INVARIANT InstalledIsComplete
