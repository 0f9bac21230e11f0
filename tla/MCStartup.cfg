CONSTANTS
    s1 = s1
    r1 = r1
    t1 = t1
    NoSession = NoSession
    NoTarget = NoTarget
    Session = {s1}
    Room = {r1}
    Target = {}
    RoomOf <- MCRoomOf
    TargetOf <- MCLocalOnly
    DeleteAfterSubmit = {}
    MaxSegments = 2
    MaxAttempts = 0
    AtomicRename = TRUE
SPECIFICATION FairCommitSpec
INVARIANTS
    UndisturbedFilesRaiseNoAlarm
PROPERTIES
    ImplementsDurableState
    StartupEnds
