\* Minutes of two seconds, passes of one and of three seconds.
CONSTANTS
    Minutes = {0, 1, 3}
    SecondsPerMinute = 2
    Elapsed = {1, 3}
SPECIFICATION FairSpec
INVARIANTS DisabledAsGranted
PROPERTIES TimedDisableEnds
