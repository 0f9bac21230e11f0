CONSTANTS
    s1 = s1
    r1 = r1
    t1 = t1
    NoSession = NoSession
    NoTarget = NoTarget
    Session = {s1}
    Room = {r1}
    Target = {t1}
    RoomOf <- MCRoomOf
    TargetOf <- MCTargetOf
    DeleteAfterSubmit = {s1}
    MaxSegments = 1
    MaxAttempts = 1
    AtomicRename = FALSE
SPECIFICATION CommitSpec
INVARIANTS
    ReadyIsTheChosenFile
    RecordingSurvives
    DisposedIsGone
    ConflictsAreReportedExactly
PROPERTIES
    ForeignFileSurvives
