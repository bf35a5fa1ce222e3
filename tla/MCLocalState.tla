---------------------------- MODULE MCLocalState ----------------------------
(***************************************************************************)
(* One instance of each of the parts that guard the machine and its        *)
(* secrets, keep a state of their own and share no file: the access level  *)
(* and its guide, the SSH targets, the smokes of sandboxes and missions,   *)
(* browser use and the secret store.  A behaviour is one of a part chosen  *)
(* at the start; the others stay in one initial state.                     *)
(***************************************************************************)
EXTENDS AccessLevel, AccessGuide, SshTargets, SandboxSmoke, MissionSmoke, BrowserUse, SecretStore

CONSTANTS Part, x, y, v, w, None

Parts ==
  {"access_level", "access_guide", "ssh_targets", "sandbox_smokes", "mission_smokes", "browser_use",
   "secret_store"}
ASSUME PartAssumption == Part \subseteq Parts

VARIABLE part

XY == {x, y}     \* invocations
VW == {v, w}     \* targets and values
Interchangeable == Permutations(XY) \cup Permutations(VW)

OneProfile == {"p"}
Hosts == {"h", "g"}
HostKeys == {"k", "l"}
SecretIds == {"i", "j"}
Machines == {"m", "n"}
Missions == 1..3

(* The initial states, up to the names of host keys and up to states that  *)
(* are reached from these; parts that do not move have one.                *)
Elsewhere(p, state) == part = p \/ state
Init ==
  /\ part \in Part
  /\ AccessInit /\ Elsewhere("access_level", level5[Bot] = "off")
  /\ SshInit /\ \A h \in Host : hostKey[h] = "k"
  /\ SmokeInit /\ machine = "m"
  /\ MissionSmokeInit
  /\ BrowserInit
  /\ StoreInit /\ legacy["j"] = None /\ Elsewhere("secret_store", index = Nothing)
  /\ \/ part = "access_guide"
     \/ /\ want = [level |-> 5, goal |-> "none"] /\ keyFiles = "none" /\ audited = FALSE
        /\ services = "stopped" /\ process = "none" /\ workspace = "absent"
        /\ backends = [docker |-> "absent", modal |-> FALSE, ssh |-> "none"]
  /\ GuideInit

OtherPartsStay ==
  /\ UNCHANGED part
  /\ IF part = "access_level" THEN TRUE ELSE UNCHANGED access_vars
  /\ IF part = "access_guide" THEN TRUE ELSE UNCHANGED guide_vars
  /\ IF part = "ssh_targets" THEN TRUE ELSE UNCHANGED ssh_vars
  /\ IF part = "sandbox_smokes" THEN TRUE ELSE UNCHANGED smoke_vars
  /\ IF part = "mission_smokes" THEN TRUE ELSE UNCHANGED mission_smoke_vars
  /\ IF part = "browser_use" THEN TRUE ELSE UNCHANGED browser_vars
  /\ IF part = "secret_store" THEN TRUE ELSE UNCHANGED store_vars

AccessMoves == part = "access_level" /\ AccessNext /\ OtherPartsStay
GuideMoves == part = "access_guide" /\ GuideNext /\ OtherPartsStay
SshMoves == part = "ssh_targets" /\ SshNext /\ OtherPartsStay
SmokeMoves == part = "sandbox_smokes" /\ SmokeNext /\ OtherPartsStay
MissionSmokeMoves == part = "mission_smokes" /\ MissionSmokeNext /\ OtherPartsStay
BrowserMoves == part = "browser_use" /\ BrowserNext /\ OtherPartsStay
StoreMoves == part = "secret_store" /\ StoreNext /\ OtherPartsStay

Next ==
  \/ AccessMoves \/ GuideMoves \/ SshMoves \/ SmokeMoves
  \/ MissionSmokeMoves \/ BrowserMoves \/ StoreMoves

vars == <<part, access_vars, guide_vars, ssh_vars, smoke_vars, mission_smoke_vars,
          browser_vars, store_vars>>
Spec == Init /\ [][Next]_vars

(* Each variable of the part that moves has its type; the others have an   *)
(* initial value of theirs.                                                *)
LocalTypeOK ==
  CASE part = "access_level" -> AccessTypeOK
    [] part = "access_guide" -> GuideTypeOK
    [] part = "ssh_targets" -> SshTypeOK
    [] part = "sandbox_smokes" -> SmokeTypeOK
    [] part = "mission_smokes" -> MissionSmokeTypeOK
    [] part = "browser_use" -> BrowserTypeOK
    [] part = "secret_store" -> StoreTypeOK

(* What a smoke answers is so, of a sandbox and of the mission lane.       *)
SmokesAnswerTrue ==
  /\ part = "sandbox_smokes" => OkSmokeIsOver
  /\ part = "mission_smokes" => PreflightIsTrue

=============================================================================
