SPECIFICATION Spec
CONSTANTS
  r1 = r1
  r2 = r2
  Runners = {r1, r2}
  MayMix = TRUE
INVARIANT RecordedIsApplied
SYMMETRY Symmetry
