SPECIFICATION Spec
CONSTANTS
  Entries = {e1, e2, e3}
  Off = off
  SlotCount = 3
  Delays = {2, 4}
  Jitter = 1
  MaxTime = 6
INVARIANTS Inv
PROPERTIES AllDueRemoved ImplementsTimers
