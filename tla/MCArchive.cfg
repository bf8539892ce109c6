SPECIFICATION FairSpec
CONSTANTS
    Replicas = {p1, p2}
    Tags = {t1, t2}
    SharedIds = FALSE
    Expectations = {"none", "good"}
    MaxFaults = 1
INVARIANTS TypeOK InstalledIsComplete TemporariesRemoved IdentityTrue
PROPERTIES InstallVerified LateReplicaReady
CHECK_DEADLOCK FALSE
