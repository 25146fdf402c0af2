SPECIFICATION Spec
CONSTANTS
  NaN = NaN
  HeatMax = 2
  BoostMax = 1
  SetTemps <- SafetySetTemps
  Temps <- SafetyTemps
  LSHTemps <- SafetyLSHTemps
  PMins = {0, 1}
  Ages = {0, 61}
  Uninit <- SafetyUninit
  InitRows <- SafetyRows
INVARIANTS TypeOK ControllerMatchesState PublishedRowIsSafe CutOffReachesRow
PROPERTIES RowFollowsDecisions
