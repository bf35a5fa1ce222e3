SPECIFICATION Spec
CONSTANTS
  bot = bot
  spawner = spawner
  Module <- TwoModules
  Bundle <- OneBundle
  Needs <- BotNeedsSpawner
  Hooked <- Bots
  MaxCommit = 2
  Deepen = 1
  MaxKills = 1
  MaxChanges = 1
CHECK_DEADLOCK FALSE
INVARIANTS
  TypeOK
  UpdateReplacesRunningCode
  UpdateIsComplete
  RecordsAreLoadable
  EntriesFollowCommands
