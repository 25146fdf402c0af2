SPECIFICATION Spec
CONSTANTS
  timer = timer
  rpc = rpc
  up = up
  None = None
  Down = Down
  Timers <- MCTimers
  Workers <- MCWorkers
  Requests <- MCRequests
  Faults = {"lost"}
PROPERTIES ReadsEnd
