SPECIFICATION Spec
CONSTANTS
  r1 = r1
  r2 = r2
  r3 = r3
  Runners = {r1, r2, r3}
  MayMix = FALSE
INVARIANTS TypeOK HistoryIsPrefix ChangelogMatchesSchema
PROPERTIES SuccessIsComplete
SYMMETRY Symmetry
