SPECIFICATION FairSpec
CONSTANTS
  Buffers = {b1, b2}
  Capacity = 2
  MaxResponses = 1
  MaxPackets = 3
  MaxBatch = 1
  FlushRounds = 1
  ArpLinks = {"ethernet", "vlan"}
PROPERTIES WaitForBufferEnds
