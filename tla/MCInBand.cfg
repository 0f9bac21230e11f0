CONSTANTS
    a1 = a1
    a2 = a2
    v1 = v1
    v2 = v2
    v3 = v3
    NoHeader = NoHeader
    AvcHeader = {v1, v2, v3}
    AacHeader = {a1, a2}
    LengthSize <- MCLengthSize
    Time = {0, 1}
    GroupGap = 1
    HistoryLimit = 1
    DuplicateThreshold = 1
    Confirmations = 2
    SizeLimit = 2
    MinSize = 1
    MaxGroup = 2
    MaxHeld = 3
    MaxTime = 15
    JumpThreshold = 3
    AudioFrame = 1
    VideoFrame = 2
SPECIFICATION MCSpec
INVARIANT SegmentsPlayAlone
SYMMETRY MCSymmetry
