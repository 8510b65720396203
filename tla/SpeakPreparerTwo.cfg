\* Two clips, two workers, two fetches, three attempts.
CONSTANTS
  a = a
  b = b
  Keys = {a, b}
  Callers = {c1, c2}
  Workers = {w1, w2}
  MaxAttempts = 3
  MaxFired = 1
  Batches <- TwoClips
  None = None
SPECIFICATION Spec
SYMMETRY Symmetry
INVARIANTS JobsSound OneSynthesis WorkConserving NobodyStranded
PROPERTIES ImplementsClips
