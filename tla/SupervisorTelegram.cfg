SPECIFICATION Spec
CONSTANTS
  ui = ui
  bot = bot
  mem = mem
  None = None
  Key = {bot}
  BridgeKey = {bot}
  GuardedKey = {}
  RelayKey = {bot}
  Cli = {c1, c2}
  Pid = {p1, p2, p3, p4}
  Plans <- TelegramPlans
SYMMETRY Symmetric
INVARIANTS LiveIsTracked 
