SPECIFICATION Spec
CONSTANTS
  Powers = {5}
  Reports <- LiveReports
  UninitStatus = {0}
  Faults = {"silent"}
PROPERTIES StallIsRecovered
