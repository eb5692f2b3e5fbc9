SPECIFICATION Spec
CONSTANTS
  Endpoints = {e1}
  Readers = {r1, r2}
  Data = {x, y}
  Cap = 3
  NumChans = 2
  FirstUser = 1
  MaxPacket = 2
  None = None
SYMMETRY Symmetry
CHECK_DEADLOCK FALSE
INVARIANTS RingAligned NoLostWakeup
PROPERTIES ImplementsFifo
