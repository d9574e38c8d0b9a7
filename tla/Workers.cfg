SPECIFICATION PoolSpec
CONSTANTS
    File <- MCFile
    Addresses <- MCAddresses
    Asked <- MCAsked
    Nproc <- MCNproc
    Nofile <- MCNofile
    Slack = 1
    Spare = 1
    ReadMax = 2
    PipeSize = 3
    Others = 2
INVARIANTS PoolBounded
PROPERTIES PoolEnds
