SPECIFICATION DeviceServerSpec
CONSTANTS
    All = All
    MAX_APDU = 100
    MAX_ANALOG_OUTPUTS = 2
    MAX_ANALOG_VALUES = 1
    MAX_BINARY_OUTPUTS = 1
    MAX_BINARY_VALUES = 2
    MAX_MULTISTATE_OUTPUTS = 1
    MAX_LIGHTING_OUTPUTS = 1
    MAX_ANALOG_INPUTS = 1
    MAX_BINARY_INPUTS = 1
    MAX_MULTISTATE_INPUTS = 1
    MAX_LIFE_SAFETY_POINTS = 1
    NUMBER_OF_STATES = 2
    Files <- MCFiles
    MAX_LOAD_CONTROLS = 2
    DayLength = 5
    MAX_TREND_LOGS = 1
    TL_MAX_ENTRIES = 3
    SequenceRange = 32
    DefaultInterval = 2
    Added = {"lo", "file", "bi_write"}
    RevisionRange = 2
    Requests <- MCRequests
    FileWrites <- MCFileWrites
    Readings = {10}
    Started = 7
    LastTime <- MCLastTime
    Asks <- MCAsks
    MostRecords = 3
    RangeCounts <- MCCounts
    Lag = 1000
INVARIANTS
    ReadsAgree
    LogReadsTrue
    FoundByName
PROPERTIES
    CommandsObeyed
    WrittenIsRead
    ShedEnds
CHECK_DEADLOCK FALSE
