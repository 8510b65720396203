SPECIFICATION Spec
CONSTANTS
  e1 = e1  e2 = e2
  c1 = c1  c2 = c2
  w1 = w1  w2 = w2  w3 = w3  w4 = w4
  None = None
  Home <- HomeTwo
  Tools = {"speak", "stop"}
  Engines = {e1, e2}
  Calls = {c1, c2}
  Workers = {w1, w2, w3, w4}
  Parts = 1
  MaxSessions = 2
  MaxCrashes = 0
INVARIANT NobodyTalksOver
