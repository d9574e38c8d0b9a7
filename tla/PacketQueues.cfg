SPECIFICATION FairSpec
CONSTANTS
  Buffers = {b1, b2, b3}
  Capacity = 3
  MaxResponses = 2
  MaxPackets = 3
  MaxBatch = 2
  FlushRounds = 2
  ArpLinks = {"ethernet"}
INVARIANTS BuffersConserved NoRingEverFull
PROPERTIES QueuedPacketsSent WaitForBufferEnds
