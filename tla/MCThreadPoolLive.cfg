\* Two calls, concurrent or nested, two workers; no symmetry, for liveness.
SPECIFICATION FairSpec
CONSTANTS
  Calls = {c1, c2}
  Workers = {w1, w2}
  Zero = p0
  None = None
PROPERTIES
  EveryCallReturns
