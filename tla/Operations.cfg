SPECIFICATION Spec
CONSTANTS
  x = x
  y = y
  v = v
  w = w
  None = None
  Part = {"release_gate", "release_truth", "revoke_all", "setup", "repair_guide", "security_audit", "trace_health", "telegram_profiles", "module_graph", "autostart", "process_logs"}
  Train <- XY
  Ref <- Tags
  Evidence <- Evidences
  GateCode <- GateCodes
  WaiverMaxDays = 1
  MaxDay = 1
  MaxEdits = 1
  MaxCommits = 2
  MaxCaptures = 1
  MaxWaivers = 1
  Canonical <- Blessed
  Direct <- Blessed
  RuntimeModule <- Bots
  CriticalRuntime <- Bots
  VoiceModule = "voice module"
  PrivateSource <- Voices
  NoCommit = None
  MaxReleaseEdits = 1
  Mission <- XY
  NoMission = None
  EnvName <- BotEnv
  MaxEvents = 2
  MaxRevokes = 2
  MaxRevokeKills = 1
  MaxSpawns = 1
  Provider <- Providers
  SetupAsk <- SetupAsks
  Unnamed = None
  MaxSetups = 4
  MaxSetupKills = 1
  MaxDamages = 2
  MaxRepairs = 7
  MaxPin = 2
  MaxMishaps = 2
  MaxFollowed = 8
  Family <- VW
  TraceRef <- XY
  NoTrace = None
  GroupLimit = 1
  EdgeLimit = 1
  MissingCardLimit = 1
  HighCardLimit = 1
  MaxBuilderEvents = 2
  NamedProfile <- VW
  ProfileCaller <- XY
  MaxPort = 3
  MaxProfileCommands = 3
  MaxProfileKills = 1
  GraphSize = 3
  Bot = 2
  StartTarget <- StartTargets
  StarterTarget = "telegram-starter"
  NoTarget = None
  MaxSwitches = 3
  MaxSwitchKills = 1
  Logger <- XY
  MaxLog = 3
  MaxEntries = 4
  MaxOutput = 1
  MaxLogKills = 1
  MaxRedactions = 1
SYMMETRY Interchangeable
CHECK_DEADLOCK FALSE
INVARIANTS
  OperationsTypeOK
  PermitsOnlyVerified
  VerdictIsTrue
  SuccessHasRevoked
  SettledOrPending
  AdviceIsSound
  TraceReportIsTrue
  ProfilesStayWhole
  OrderServesNeeds
  AutostartAnswersTrue
  NewestEntryIsKept
