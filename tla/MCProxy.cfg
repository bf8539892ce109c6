SPECIFICATION FairSpec
CONSTANTS
    MaxFrames = 2
    Window = 1
    PeerCodes = {1000}
INVARIANTS TypeOK NothingLost CloseIsLast CloseCodesTrue
PROPERTY StopEndsSession
