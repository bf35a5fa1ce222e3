SPECIFICATION FairSpec
CONSTANTS
  ui = ui
  bot = bot
  mem = mem
  None = None
  Key = {mem}
  BridgeKey = {}
  GuardedKey = {}
  RelayKey = {}
  Cli = {c1, c2}
  Pid = {p1, p2}
  Plans <- ContendingPlans
PROPERTIES CommandsFinish
