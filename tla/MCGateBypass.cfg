SPECIFICATION Spec
CONSTANTS
    Requests = {r1, r2, r3}
    MaxSessions = 1
    MaxQueue = 1
PROPERTY QueueNotBypassed
