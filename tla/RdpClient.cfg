SPECIFICATION Spec
CONSTANTS
    Channels = 2
    SendMax = 1
    Timeout = 2
    Retries = 2
    Pause = 3
    Messages = 12
INVARIANTS PatchedMeansTried ChecksOnJoinedChannel
PROPERTIES ClientEnds
