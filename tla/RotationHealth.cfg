SPECIFICATION Spec
CONSTANTS
  None = None
  Off = Off
  Consumer = {ui, bot}
  Spawner = ui
  Cli = {c1}
  Value = {v1, v2}
  Faults = FALSE
PROPERTIES HealthFailureRollsBack
