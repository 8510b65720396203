SPECIFICATION Spec
CONSTANTS
  f = f  g = g  d = d  u = u  v = v
  None = None
  Torn = Torn
  Facts = {f, g}
  Docs = {d}
  Vals = {u, v}
  MaxLines = 2
  PowerLoss = FALSE
INVARIANT Reopens
