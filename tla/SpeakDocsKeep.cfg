\* Two documents that share a part, one kept: every preparation races with an eviction.
CONSTANTS
  a = a
  b = b
  one = one
  both = both
  Keys = {a, b}
  Callers = {c1}
  Workers = {w1}
  MaxAttempts = 2
  MaxFired = 1
  Docs = {one, both}
  Parts <- Sharing
  Batches <- SharingLists
  Preparations = {p1}
  MaxDocs = 1
  None = None
SPECIFICATION DocsSpec
INVARIANTS DocsTypeOK NoneQueuedForTheGone
PROPERTIES KeptWorkStays
