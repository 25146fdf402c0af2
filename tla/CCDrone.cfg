SPECIFICATION Spec
CONSTANTS
  Powers <- MCPowers
  Reports <- MCReports
  UninitStatus = {0, 1}
  Faults = {"silent", "garbled", "lost"}
INVARIANTS TypeOK
PROPERTIES SwitchesAreSpaced PowerWithinReport SwitchObeyed ModeRestored
