\* A refresher and a command, one repo, one hook.
SPECIFICATION CleanAtFirst
CONSTANTS
  web = web  p1 = p1  p2 = p2
  a = a  b = b
  h1 = h1
  clean = clean  dirty = dirty
  None = None
  Procs = {web, p1}
  Webs = {web}
  Repos = {a}
  Runs <- AllOrAnother
  Prints = {clean, dirty}
  Hooks = {h1}
  MaxChanges = 1
  MaxDeaths = 1
  MaxFaults = 1
  MaxKicks = 1
CHECK_DEADLOCK FALSE
INVARIANTS ExclusiveUnlessRobbed StaleShows
PROPERTY CaughtUp
