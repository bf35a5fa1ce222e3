SPECIFICATION Spec
CONSTANTS
  x = x
  y = y
  v = v
  w = w
  None = None
  Part = {"access_level", "access_guide", "ssh_targets", "sandbox_smokes", "mission_smokes", "browser_use", "secret_store"}
  Profile <- OneProfile
  Caller <- XY
  MaxSeconds = 2
  MaxCommands = 3
  MaxDeaths = 1
  Target <- VW
  Host <- Hosts
  SshCaller <- XY
  HostKey <- HostKeys
  NoHost = None
  NoKey = None
  MaxKeyChanges = 2
  MaxTrusts = 2
  MaxEdits = 3
  MaxFollowed = 3
  Smoke <- XY
  Machine <- Machines
  Nowhere = None
  Checker <- XY
  MissionId <- Missions
  NoMissionYet = None
  MaxChecks = 3
  BrowserUser <- XY
  ProofTtl = 0
  MaxNow = 2
  MaxBrowses = 2
  SecretId <- SecretIds
  SecretValue <- VW
  NoSecret = None
  StoreCaller <- XY
  DefaultHome = TRUE
  MaxInvocations = 3
  MaxStoreKills = 1
SYMMETRY Interchangeable
CHECK_DEADLOCK FALSE
INVARIANTS
  LocalTypeOK
  SwitchSticks
  StatusMatchesServices
  NextLeadsToLevel5
  LoginMeetsTrustedKey
  SmokesAnswerTrue
  BrowserReportsHold
  SecretStaysAsSettled
