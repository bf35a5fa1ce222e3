SPECIFICATION Spec
CONSTANTS
  None = None
  Off = Off
  Consumer = {ui, bot}
  Spawner = ui
  Cli = {c1, c2}
  Value = {v1, v2, v3}
  Faults = FALSE
SYMMETRY Symmetric
PROPERTIES SuccessIsComplete ImplementsGeneration
