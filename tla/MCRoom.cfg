CONSTANTS
    s1 = s1
    s2 = s2
    s3 = s3
    r1 = r1
    r2 = r2
    NoSession = NoSession
    NoTarget = NoTarget
    Session = {s1, s2, s3}
    Room = {r1, r2}
    Target = {}
    RoomOf <- MCRoomOf
    TargetOf <- MCTargetOf
    DeleteAfterSubmit = {}
    MaxSegments = 1
    MaxAttempts = 0
    Grace = 4
    BaseBackoff = 1
    MaxBackoff = 3
    PollInterval = 1
    TheRoom = r1
SPECIFICATION FairRoomSpec
INVARIANTS
    TransitionsAreAccepted
    AuditRefusesOrHeals
PROPERTIES
    ShortBreaksDoNotEndASession
    EndedBroadcastIsClosed
