CONSTANTS
    s1 = s1
    r1 = r1
    r2 = r2
    t1 = t1
    NoSession = NoSession
    NoTarget = NoTarget
    Session = {s1}
    Room = {r1, r2}
    Target = {t1}
    RoomOf <- MCRoomOf
    TargetOf <- MCTargetOf
    DeleteAfterSubmit = {s1}
    MaxSegments = 1
    MaxAttempts = 2
    MaxRuns = 2
    Configs <- Dropped
SPECIFICATION FairRunSpec
CHECK_DEADLOCK FALSE
PROPERTIES
    DrainEnds
    ShutdownEnds
    RemovedRoomsAreNotServed
    RunImplementsDurableState
