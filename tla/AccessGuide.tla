----------------------------- MODULE AccessGuide -----------------------------
(***************************************************************************)
(* `spark access`: what it reads of the machine, the lane it recommends,   *)
(* the state of Level 5 it reports and the next command it names; and a    *)
(* user who runs the command it names, asks again, and so on.              *)
(*                                                                         *)
(* AccessLevel has the interleavings that lead to the states this module   *)
(* starts from: an enable or a disable killed between two files leaves     *)
(* keys in some of them, one killed before its audit event leaves files    *)
(* and event at odds.                                                      *)
(***************************************************************************)
EXTENDS Naturals, FiniteSets

CONSTANT MaxFollowed     \* commands the user runs

ASSUME GuideAssumption == MaxFollowed \in Nat

Goal == {"none", "docker", "ssh", "modal"}

VARIABLES
  want,       \* the level and the goal asked for
  keyFiles,   \* env files with the Level 5 keys: "none", "some", "all"
  audited,    \* the audit log ends with a configure event
  services,   \* the expected ones: "stopped", "stale", "mixed", "current"
  process,    \* the keys in the caller's own environment
  workspace,  \* "absent", "ready", "unwritable"
  backends,   \* what the docker, modal and SSH checks find
  followed

guide_vars == <<want, keyFiles, audited, services, process, workspace, backends, followed>>

Asked == [level : {4, 5}, goal : Goal]
Backends == [docker : {"absent", "cli", "ready"}, modal : BOOLEAN, ssh : {"none", "added", "trusted"}]

GuideInit ==
  /\ want \in Asked
  /\ keyFiles \in {"none", "some", "all"} /\ audited \in BOOLEAN
  /\ services \in {"stopped", "stale", "mixed", "current"}
  /\ process \in {"none", "some", "all"}
  /\ workspace \in {"absent", "ready", "unwritable"}
  /\ backends \in Backends
  /\ followed = 0

-----------------------------------------------------------------------------
(* The state of Level 5 (access_lane_payload).                             *)

HighAgency == want.level = 5
Level5Configured == keyFiles = "all"
ProcessActive == process = "all"
ServiceActive == Level5Configured /\ audited /\ services = "current"
ServiceState ==
  IF ~Level5Configured THEN "blocked"
  ELSE IF ~audited \/ services = "stopped" THEN "restart_required"
  ELSE IF services = "current" THEN "active" ELSE "partial"
Enabled == ProcessActive \/ ServiceActive
RestartRequired == Level5Configured /\ ~Enabled

ActivationState ==
  IF ProcessActive /\ Level5Configured THEN "active"
  ELSE IF ServiceActive THEN "active_for_services"
  ELSE IF ProcessActive THEN "session_only"
  ELSE IF Level5Configured /\ ServiceState = "partial" THEN "partial"
  ELSE IF RestartRequired THEN "restart_required"
  ELSE IF process # "none" \/ keyFiles # "none" THEN "partial"
  ELSE "blocked"

EffectiveLevel == IF HighAgency /\ Enabled THEN 5 ELSE 4
FullSandbox == HighAgency /\ Enabled

FullPermissionProof ==
  /\ HighAgency /\ EffectiveLevel = 5
  /\ Enabled /\ Level5Configured
  /\ ~RestartRequired /\ FullSandbox

-----------------------------------------------------------------------------
(* The lanes, the one recommended and the next command.                    *)

Level5Setup == "spark access setup --level 5 --enable-high-agency"
Level5Status == "spark access status --level 5"
Restart == "spark restart"

Lane == {"spark_workspace", "docker", "ssh", "modal"} \cup (IF HighAgency THEN {"level5_operator"} ELSE {})
Available(lane) ==
  CASE lane = "spark_workspace" -> TRUE
    [] lane = "docker" -> backends.docker = "ready"
    [] lane = "ssh" -> backends.ssh = "trusted"
    [] lane = "modal" -> backends.modal
    [] lane = "level5_operator" -> Enabled

Preferred ==
  IF HighAgency /\ Enabled THEN "level5_operator"
  ELSE IF want.goal = "modal" /\ backends.modal THEN "modal"
  ELSE IF want.goal = "ssh" /\ backends.ssh # "none" THEN "ssh"
  ELSE IF want.goal = "docker" /\ backends.docker = "ready" THEN "docker"
  ELSE "spark_workspace"
Recommended == IF Available(Preferred) THEN Preferred ELSE "spark_workspace"

LaneAction(lane) ==
  CASE lane = "spark_workspace" -> "spark access setup"
    [] lane = "docker" -> IF backends.docker = "ready" THEN "spark access setup --with docker"
                                                       ELSE "spark sandbox docker doctor"
    [] lane = "ssh" -> IF backends.ssh = "none" THEN "spark sandbox ssh add" ELSE "spark sandbox ssh list"
    [] lane = "modal" -> "spark sandbox modal doctor"

NextAction_SetupFirst ==
  IF HighAgency /\ ActivationState \in {"session_only", "partial", "blocked"} THEN Level5Setup
  ELSE IF HighAgency /\ RestartRequired THEN Restart
  ELSE IF HighAgency THEN Level5Status
  ELSE LaneAction(Recommended)

NextAction ==
  IF HighAgency /\ RestartRequired THEN Restart
  ELSE IF HighAgency /\ ActivationState = "session_only" THEN Level5Setup
  ELSE IF HighAgency /\ ActivationState \in {"active", "active_for_services"} THEN Level5Status
  ELSE IF HighAgency THEN Level5Setup
  ELSE LaneAction(Recommended)

(* What the lane of Level 5 and the guide name, each on its own.           *)
OperatorAction ==
  CASE ActivationState \in {"active", "active_for_services"} -> Level5Status
    [] ActivationState = "restart_required" -> Restart
    [] OTHER -> Level5Setup

GuideSteps ==
  [safe_workspace |-> workspace = "ready", mission_control |-> workspace = "ready",
   whole_computer |->
     CASE ActivationState = "active" \/ ActivationState = "active_for_services" -> Level5Status
       [] ActivationState = "session_only" -> Level5Setup
       [] ActivationState = "restart_required" -> Restart
       [] OTHER -> Level5Setup]

-----------------------------------------------------------------------------
(* Running the command that was named.                                     *)

(* ensure_level4_workspace and probe_workspace_writable.                   *)
EnsureWorkspace == workspace' = IF workspace = "absent" THEN "ready" ELSE workspace

(* persist_level5_guardrails, and a new moment the services are older than.*)
EnableLevel5 ==
  /\ NextAction = Level5Setup
  /\ keyFiles' = "all" /\ audited' = TRUE
  /\ services' = IF services = "stopped" THEN services ELSE "stale"
  /\ EnsureWorkspace

RestartServices ==
  /\ NextAction = Restart
  /\ services' = "current"
  /\ UNCHANGED <<keyFiles, audited, workspace>>

SetUpWorkspace ==
  /\ NextAction \in {"spark access setup", "spark access setup --with docker"}
  /\ EnsureWorkspace
  /\ UNCHANGED <<keyFiles, audited, services>>

LookOnly ==
  /\ NextAction \in {Level5Status, "spark sandbox ssh list", "spark sandbox modal doctor"}
  /\ UNCHANGED <<keyFiles, audited, services, workspace>>

FollowNext ==
  /\ followed < MaxFollowed
  /\ followed' = followed + 1
  /\ EnableLevel5 \/ RestartServices \/ SetUpWorkspace \/ LookOnly
  /\ UNCHANGED <<want, process, backends>>

GuideNext == FollowNext

GuideSpec == GuideInit /\ [][GuideNext]_guide_vars

-----------------------------------------------------------------------------
GuideTypeOK ==
  /\ want \in Asked /\ backends \in Backends
  /\ keyFiles \in {"none", "some", "all"} /\ audited \in BOOLEAN
  /\ services \in {"stopped", "stale", "mixed", "current"}
  /\ process \in {"none", "some", "all"}
  /\ workspace \in {"absent", "ready", "unwritable"}
  /\ followed \in 0..MaxFollowed

(* Who asks for Level 5 and runs each command `spark access` names next    *)
(* has the full permission proof after two of them, whatever was half      *)
(* done before; and from then on is told so.  Not after an enable that     *)
(* was killed before its audit event: then the files say configured, no    *)
(* start is ever late enough, and the next command is a restart for good.  *)
(* The guide and the lane name that same command, unless the state is      *)
(* partial: of running services that are older they say to set up again.   *)
EnableWasCut == Level5Configured /\ ~audited /\ ~ProcessActive
NextLeadsToLevel5 ==
  HighAgency =>
    /\ followed >= 2 /\ ~EnableWasCut => FullPermissionProof /\ NextAction = Level5Status
    /\ ActivationState # "partial" => OperatorAction = NextAction /\ GuideSteps.whole_computer = NextAction

-----------------------------------------------------------------------------
(* The inductive invariant behind the theorem: how far the user has come   *)
(* with each command followed.                                             *)
GuideIInv ==
  /\ GuideTypeOK
  /\ HighAgency =>
       \/ EnableWasCut
       \/ Level5Configured /\ Enabled
       \/ Level5Configured /\ audited /\ followed <= 1
       \/ ~Level5Configured /\ followed = 0

=============================================================================
