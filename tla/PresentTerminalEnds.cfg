\* One session, three connections.
SPECIFICATION LiveSpec
CONSTANTS
  key = key
  None = None
  Keys = {key}
  MaxSessions = 1
  MaxConns = 3
  KeyOf <- OneKey
  Workers = {1}
  MaxFlips = 1
CHECK_DEADLOCK FALSE
INVARIANTS IdleTimer NothingForgotten KillLeavesNothing
PROPERTIES LeftAloneEnds OffEndsAll
