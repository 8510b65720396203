SPECIFICATION LiveSpec
CONSTANTS
  v1 = v1  v2 = v2
  Viewers = {v1, v2}
  RingSize = 3
  PendingLimit = 3
  InputLimit = 2
  Reads = {1, 2, 3}
  MaxOut = 4
  MaxTyped = 3
  MaxVisits = 1
CHECK_DEADLOCK FALSE
INVARIANTS TypeOK OutputWhole ReplayRecent NoLostSignal InputWhole
PROPERTY ExitTold
