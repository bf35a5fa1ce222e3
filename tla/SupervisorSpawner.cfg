SPECIFICATION Spec
CONSTANTS
  ui = ui
  bot = bot
  mem = mem
  None = None
  Key = {ui, mem}
  BridgeKey = {ui}
  GuardedKey = {ui}
  RelayKey = {}
  Cli = {c1, c2}
  Pid = {p1, p2, p3}
  Plans <- SpawnerPlans
SYMMETRY Symmetric
INVARIANTS TypeOK LiveIsTracked OneLivePerKey StartOwnsBridgeRecord
PROPERTIES StartAnswersTruly StopEndsProcess
