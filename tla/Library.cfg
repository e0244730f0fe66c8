SPECIFICATION LibrarySpec
CONSTANTS
    d1 = d1
    d2 = d2
    d3 = d3
    a1 = a1
    a2 = a2
    Messages <- MCMessages
    Instances = {d1, d2, d3}
    Stations = {a1, a2}
    CacheSize = 2
    ShortTime = 1
    LongTime = 2
    AddressFile <- MCAddressFile
    Bytes = {b1, b2}
    NoByte = NoByte
    BufferLength = 3
    IndexRange = 6
    LastKey = 3
    Payloads = {1}
    Chunk = 2
    MaxNodes = 4
    Years = {1900, 1999, 2024, 2099}
    Days = {1, 28, 29, 31}
    Times <- MCTimes
    Spans = {1, 60, 1441, 527039}
    MaxAdditions = 3
    Frames <- MCFrames
    This_Station = 3
    InputBufferSize = 5
    Masks = {1, 128, 170, 255}
INVARIANTS
    RoundTrip
    AnswersAsTold
    KeysFound
    CalendarAdvances
    FramesProtected
PROPERTIES
    StaticKept
    FifoIsQueue
CHECK_DEADLOCK FALSE
