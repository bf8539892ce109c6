SPECIFICATION Spec
CONSTANTS
    Requests = {r1, r2}
    MaxSessions = 1
    MaxQueue = 1
    Faults = {"panic"}
INVARIANT SessionLimitHolds
