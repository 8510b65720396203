\* Liveness: two clips, one worker, one fetch, two attempts.
CONSTANTS
  a = a
  b = b
  Keys = {a, b}
  Callers = {c1}
  Workers = {w1}
  MaxAttempts = 2
  MaxFired = 1
  Batches <- TwoClips
  None = None
SPECIFICATION FairSpec
PROPERTIES FetchAnswered RetriesEnd
