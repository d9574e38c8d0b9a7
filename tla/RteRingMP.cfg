SPECIFICATION FairSpec
CONSTANTS
  Producers = {p1, p2}
  Consumers = {c1, c2}
  Objects = {a, b}
  Garbage = garbage
  Size = 4
  IdxMod = 16
  Bursts = {2}
  StartIdx = 13
  MaxReserved = 3
INVARIANTS OwnersDisjoint
PROPERTIES RefusalsJustified ImplementsFifo CallsFinish
