SPECIFICATION Spec
CONSTANTS
  HeatMax = 1
  BoostMax = 1
  PMins = {2}
  InitRows <- MCRows
  Junk = {}
INVARIANTS TypeOK SilenceReachesRow
PROPERTIES SilentCoolerStopsHeater SilentHeaterStopsCooler
