SPECIFICATION Spec
CONSTANTS
  x = x
  t = t
  p = p
  a = a
  b = b
  None = None
  Envelopes = {x, t, p}
  Edits = {x}
  Poison = {p}
  Garbled = {p}
  Mortal = {p}
  Chunks = {a, b}
  ChunksOf <- Points
  MaxAttempts = 2
  MaxFaults = 1
  MaxCrashes = 1
INVARIANTS TypeOK WrittenNotLost RecordsWhole PendingBacked AsideForCause
PROPERTY SpoolEmptied
