---------------------------- MODULE MCOperations ----------------------------
(***************************************************************************)
(* One instance of each of the parts that release, set up, run, watch and  *)
(* revoke an installation, keep a state of their own and share no file:    *)
(* the release gate, the release truth, revoke-all, setup, the repair      *)
(* guide, the security audit, the trace health, the Telegram profiles, the *)
(* module graph, autostart and the process logs.  A behaviour is one of a  *)
(* part chosen at the start; the others stay in one initial state.         *)
(***************************************************************************)
EXTENDS ReleaseGate, ReleaseTruth, RevokeAll, SetupFlow, RepairGuide, SecurityAudit, TraceHealth,
        TelegramProfiles, ModuleGraph, Autostart, ProcessLog

CONSTANTS Part, x, y, v, w, None

Parts ==
  {"release_gate", "release_truth", "revoke_all", "setup", "repair_guide", "security_audit",
   "trace_health", "telegram_profiles", "module_graph", "autostart", "process_logs"}
ASSUME PartAssumption == Part \subseteq Parts

VARIABLE part

XY == {x, y}     \* trains, missions, traces and invocations
VW == {v, w}     \* profiles and producers
Interchangeable == Permutations(XY) \cup Permutations(VW)

Tags == {"tag"}
BotEnv == {"bot"}
GateCodes == {1}
Blessed == {"bot module", "voice module"}
Bots == {"bot module"}
Voices == {"voice module"}
StartTargets == {"telegram-starter", "spawner-ui"}
Evidences == {1, 2}
Providers == {"zai", "openai"}
Names(mission) == [chat |-> None, builder |-> None, mission |-> mission]
SetupAsks ==
  {[bundle |-> "starter", resume |-> FALSE, default |-> "zai", agent |-> None, named |-> Names(None),
    given |-> {"token", "api key"}, unattended |-> FALSE],
   [bundle |-> "voice", resume |-> TRUE, default |-> "openai", agent |-> None, named |-> Names("zai"),
    given |-> {"token"}, unattended |-> FALSE],
   [bundle |-> "starter", resume |-> FALSE, default |-> None, agent |-> "openai", named |-> Names("zai"),
    given |-> {}, unattended |-> FALSE],
   [bundle |-> "starter", resume |-> FALSE, default |-> None, agent |-> "openai", named |-> Names(None),
    given |-> {}, unattended |-> FALSE],
   [bundle |-> "starter", resume |-> FALSE, default |-> None, agent |-> None, named |-> Names(None),
    given |-> {}, unattended |-> TRUE]}

(* The initial states, up to the names of evidence versions and up to      *)
(* states that are reached from these; parts that do not move have one.    *)
(* No module needs itself here.                                            *)
Elsewhere(p, state) == part = p \/ state
Init ==
  /\ part \in Part
  /\ GateInit /\ tree.evid = 1
  /\ \/ part = "release_truth"
     \/ pins = Everywhere(R30) /\ traces = "clean" /\ site = [f \in SiteFile |-> "before"]
  /\ TruthInit
  /\ RevokeInit /\ spawnerUp /\ customMcp /\ Elsewhere("revoke_all", bridgeKey = {SpawnerEnv})
  /\ SetupInit /\ RepairInit
  /\ AuditInit /\ Elsewhere("security_audit", place = SetUpPlace(FALSE, FALSE, {}))
  /\ TraceInit /\ ProfileInit
  /\ AutostartInit /\ Elsewhere("autostart", os = "darwin")
  /\ LogInit
  /\ GraphInit /\ (\A m \in Installed : m \notin needs[m])
  /\ Elsewhere("module_graph", \A m \in Installed : needs[m] = {})

OthersStay ==
  /\ UNCHANGED part
  /\ IF part = "release_gate" THEN TRUE ELSE UNCHANGED gate_vars
  /\ IF part = "release_truth" THEN TRUE ELSE UNCHANGED truth_vars
  /\ IF part = "revoke_all" THEN TRUE ELSE UNCHANGED revoke_vars
  /\ IF part = "setup" THEN TRUE ELSE UNCHANGED setup_vars
  /\ IF part = "repair_guide" THEN TRUE ELSE UNCHANGED repair_vars
  /\ IF part = "security_audit" THEN TRUE ELSE UNCHANGED audit_vars
  /\ IF part = "trace_health" THEN TRUE ELSE UNCHANGED trace_vars
  /\ IF part = "telegram_profiles" THEN TRUE ELSE UNCHANGED profile_vars
  /\ IF part = "module_graph" THEN TRUE ELSE UNCHANGED graph_vars
  /\ IF part = "autostart" THEN TRUE ELSE UNCHANGED autostart_vars
  /\ IF part = "process_logs" THEN TRUE ELSE UNCHANGED log_vars

GateMoves == part = "release_gate" /\ GateNext /\ OthersStay
TruthMoves == part = "release_truth" /\ TruthNext /\ OthersStay
RevokeMoves == part = "revoke_all" /\ RevokeNext /\ OthersStay
SetupMoves == part = "setup" /\ SetupNext /\ OthersStay
RepairMoves == part = "repair_guide" /\ RepairNext /\ OthersStay
AuditMoves == part = "security_audit" /\ AuditNext /\ OthersStay
TraceMoves == part = "trace_health" /\ TraceNext /\ OthersStay
ProfileMoves == part = "telegram_profiles" /\ ProfileNext /\ OthersStay
GraphMoves == part = "module_graph" /\ GraphNext /\ OthersStay
AutostartMoves == part = "autostart" /\ AutostartNext /\ OthersStay
LogMoves == part = "process_logs" /\ LogNext /\ OthersStay

Next ==
  \/ GateMoves \/ TruthMoves \/ RevokeMoves \/ SetupMoves \/ RepairMoves \/ AuditMoves \/ TraceMoves
  \/ ProfileMoves \/ GraphMoves \/ AutostartMoves \/ LogMoves

vars == <<part, gate_vars, truth_vars, revoke_vars, setup_vars, repair_vars, audit_vars,
          trace_vars, profile_vars, graph_vars, autostart_vars, log_vars>>
Spec == Init /\ [][Next]_vars

(* Each variable of the part that moves has its type; the others have an   *)
(* initial value of theirs.                                                *)
OperationsTypeOK ==
  CASE part = "release_gate" -> GateTypeOK
    [] part = "release_truth" -> TruthTypeOK
    [] part = "revoke_all" -> RevokeTypeOK
    [] part = "setup" -> SetupTypeOK
    [] part = "repair_guide" -> RepairTypeOK
    [] part = "security_audit" -> AuditTypeOK
    [] part = "trace_health" -> TraceTypeOK
    [] part = "telegram_profiles" -> ProfileTypeOK
    [] part = "autostart" -> AutostartTypeOK
    [] part = "process_logs" -> LogTypeOK
    [] part = "module_graph" -> GraphTypeOK

(* What status, verify, fix and the security audit say is consistent, and  *)
(* following it makes an installation right.                               *)
AdviceIsSound ==
  /\ part = "repair_guide" => GuideIsSound
  /\ part = "security_audit" => AuditIsSound

=============================================================================
