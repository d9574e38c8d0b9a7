SPECIFICATION Spec
CONSTANTS
  Size = 4
  IdxMod = 8
  Objects = {a, b}
  Garbage = garbage
  Bursts = {1, 2}
  WaterMarks = {0, 2}
  StartIdx = 6
INVARIANTS SlotsExclusive
PROPERTIES ImplementsFifo
