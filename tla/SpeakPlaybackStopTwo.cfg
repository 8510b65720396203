SPECIFICATION AnsweringSpec
CONSTANTS
  e1 = e1  e2 = e2
  c1 = c1  c2 = c2
  w1 = w1  w2 = w2  w3 = w3  w4 = w4
  None = None
  Home <- HomeOne
  Tools <- AllTools
  Engines = {e1}
  Calls = {c1, c2}
  Workers = {w1, w2}
  Parts = 2
  MaxSessions = 1
  MaxCrashes = 0
PROPERTY StopReturns
