SPECIFICATION Spec
CONSTANTS
  Powers <- MCPowers
  Modes <- MCModes
  UninitPW = {7}
  UninitMode = {0, 1}
  Faults = {"garbled", "lost", "unheard"}
INVARIANTS TypeOK
PROPERTIES SwitchedOnAtRowPower HeaterObeysRow FuseTurnsHeaterOff
