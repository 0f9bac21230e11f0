CONSTANTS
    s1 = s1
    s2 = s2
    r1 = r1
    t1 = t1
    NoSession = NoSession
    NoTarget = NoTarget
    Session = {s1}
    Room = {r1}
    Target = {t1}
    RoomOf <- MCRoomOf
    TargetOf <- MCTargetOf
    DeleteAfterSubmit = {s1}
    MaxSegments = 2
    MaxAttempts = 2
SPECIFICATION Spec
INVARIANTS
    TypeOK
    ClosureTellsTheTruth
    SubmissionCoversSession
    NoBlindRetry
    AttemptHistoriesMatch
    AlarmsMeanDamage
    NothingWaitsSilently
    AdviceIsAccepted
PROPERTIES
    HistoryIsAppendOnly
