SPECIFICATION Spec
CONSTANTS
  f = f  g = g  d = d  u = u  v = v
  None = None
  Torn = Torn
  Facts = {f, g}
  Docs = {d}
  Vals = {u, v}
  MaxLines = 3
  PowerLoss = TRUE
SYMMETRY Symmetry
INVARIANTS
  IndexIsLog
  FactsOnce
  CommittedStay
PROPERTY ImplementsStore
