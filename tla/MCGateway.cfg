SPECIFICATION FairSpec
CONSTANTS
    Requests = {r1, r2, r3}
    MaxSessions = 2
    MaxQueue = 1
    Faults = {"panic", "signal"}
INVARIANTS TypeOK SlotsMatchStages BrowsersBounded
PROPERTIES ImplementsBrowsers FailureReported TrackedSessionsDrained NoRequestCutOff ShutdownExits RequestsAnswered
