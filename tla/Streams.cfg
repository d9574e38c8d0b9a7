CONSTANTS
    Servers <- AllServers
    OddBytes = {10, 65, 255}
    MaxSegment = 2
    IsHeartbleed = FALSE
SPECIFICATION Spec
INVARIANTS FragmentsDoNotMatter CommandsInTurn CertificateAccounted
PROPERTIES DetectedByFirstMatch
