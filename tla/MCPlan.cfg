CONSTANTS
    s1 = s1
    r1 = r1
    r2 = r2
    t1 = t1
    NoSession = NoSession
    NoTarget = NoTarget
    Session = {s1}
    Room = {r1, r2}
    Target = {t1}
    RoomOf <- MCRoomOf
    TargetOf <- MCTargetOf
    DeleteAfterSubmit = {}
    MaxSegments = 1
    MaxAttempts = 1
    MaxRuns = 2
    Configs <- OutputChanged
SPECIFICATION RunSpec
CHECK_DEADLOCK FALSE
INVARIANT RecordingsWithPlanAreServed
