SPECIFICATION Spec
CONSTANTS
  bot = bot
  spawner = spawner
  Module <- TwoModules
  Bundle <- OneBundle
  Needs <- BotNeedsSpawner
  Hooked <- Bots
  MaxCommit = 2
  Deepen = 1
  MaxKills = 0
  MaxChanges = 1
CHECK_DEADLOCK FALSE
PROPERTY ResumeRerunsFailedStep
