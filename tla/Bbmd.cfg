\* Three devices and a table with room for two; a grace period of four seconds
\* against loops that are up to a second late and a second of travel.
CONSTANTS
    Devices = {c, d, e}
    NoDevice = NoDevice
    MaxEntries = 2
    TimeToLive = 1
    Grace = 4
    Port = 47808
    MaxLag = 1
    MaxDelay = 1
    MaxFaults = 2
SPECIFICATION FairSpec
INVARIANTS OneEntryEach
PROPERTIES RenewedNeverDropped ComesBack
