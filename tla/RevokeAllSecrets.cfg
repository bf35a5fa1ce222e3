SPECIFICATION Spec
CONSTANTS
  x = x
  y = y
  v = v
  w = w
  None = None
  Part = {"secret_store"}
  Profile <- OneProfile
  Caller <- XY
  MaxSeconds = 2
  MaxCommands = 3
  MaxDeaths = 1
  Target <- VW
  Host <- Hosts
  SshCaller <- XY
  HostKey <- HostKeys
  NoHost = None
  NoKey = None
  MaxKeyChanges = 2
  MaxEdits = 3
  MaxTrusts = 2
  MaxFollowed = 3
  Smoke <- XY
  Machine <- Machines
  Nowhere = None
  Checker <- XY
  MissionId <- Missions
  NoMissionYet = None
  MaxChecks = 3
  BrowserUser <- XY
  ProofTtl = 0
  MaxNow = 2
  MaxBrowses = 2
  SecretId <- SecretIds
  SecretValue <- VW
  NoSecret = None
  StoreCaller <- XY
  DefaultHome = TRUE
  MaxInvocations = 3
  MaxStoreKills = 1
SYMMETRY Interchangeable
CHECK_DEADLOCK FALSE
INVARIANTS
  RevokeAllRemovesSecrets
