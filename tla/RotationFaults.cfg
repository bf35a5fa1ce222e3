SPECIFICATION Spec
CONSTANTS
  None = None
  Off = Off
  Consumer = {ui, bot}
  Spawner = ui
  Cli = {c1}
  Value = {v1, v2}
  Faults = TRUE
SYMMETRY Symmetric
INVARIANTS TypeOK OneGeneration RunningIsTracked
PROPERTIES NoSupersededCopy FailureIsTruthful
