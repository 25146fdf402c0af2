SPECIFICATION Spec
CONSTANTS
  NaN = NaN
  HeatMax = 1
  BoostMax = 1
  SetTemps <- DecisionSetTemps
  Temps <- DecisionTemps
  LSHTemps = {150}
  PMins = {0}
  Ages = {60, 61}
  Uninit = {0}
  InitRows <- DecisionRows
PROPERTIES IdleWhenHot
