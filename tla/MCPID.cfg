SPECIFICATION Spec
CONSTANTS
  NaN = NaN
  Tunings <- MCTunings
  Inputs <- MCInputs
  Setpoints <- MCSetpoints
  Limits <- MCLimits
  Garbage <- MCGarbage
  DefaultMax = 2
  ClockMod = 3
  POnE = FALSE
INVARIANTS TypeOK SumWithinLimits
PROPERTIES LeavesLimitAtOnce NeverFrozen KeepsContract
