SPECIFICATION FairSpec
CONSTANTS
  None = None
  Off = Off
  Consumer = {ui}
  Spawner = ui
  Cli = {c1, c2}
  Value = {v1, v2}
  Faults = FALSE
PROPERTIES CommandsFinish
