SPECIFICATION FairSpec
CONSTANTS
    c1 = c1
    q1 = q1
    n1 = n1
    ToolCalls = {c1}
    Resources = {q1}
    Cancels = {n1}
    CancelOf <- MCCancelOf
    Lf = Lf
    BadByte = BadByte
    HardByte = HardByte
    OtherByte = OtherByte
    Streams <- MCStreams
    MaxFrame = 3
    MaxRead = 2
    FramePieces = 2
    PipeSize = 1
    ParseError = ParseError
    Nobody = Nobody
INVARIANTS ReaderExact WholeFrames AbandonedAreSignalled 
PROPERTIES AnswersArrive SessionEnds
CHECK_DEADLOCK FALSE
