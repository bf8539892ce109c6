SPECIFICATION FairSpec
CONSTANTS
    Requests = {r1, r2, r3, r4}
    MaxSessions = 1
    MaxQueue = 2
INVARIANTS TypeOK SlotConservation QueueAccounting NoIdleSlot WaitListOK
PROPERTIES ImplementsSlotQueue SlotsComeBack QueueMoves ShutdownWakesQueue
