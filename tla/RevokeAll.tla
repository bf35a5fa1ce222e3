------------------------------ MODULE RevokeAll ------------------------------
(***************************************************************************)
(* `spark security revoke-all` apart from the secrets (SecretStore): it    *)
(* stops the processes, gives the generated env files new control keys,    *)
(* forbids custom MCP configs and pauses the missions in the three files   *)
(* and the marker that Spawner keeps, then reports a verdict.  A step that *)
(* fails is noted and the next one runs.  Spawner, unless it was stopped,  *)
(* goes on writing its files, and can be started again at any time; the    *)
(* invocation may be killed between two files.                             *)
(*                                                                         *)
(* A mission event is one that can be paused, a pause, or any other: a     *)
(* terminal one, or one the command does not list and treats alike.        *)
(* mission-control.json lists the newest event first.                      *)
(***************************************************************************)
EXTENDS Naturals, Sequences, Functions

CONSTANTS
  Mission, NoMission,
  EnvName,                        \* generated env files other than Spawner's
  MaxEvents, MaxRevokes, MaxRevokeKills, MaxSpawns   \* bounds

ASSUME RevokeAssumption ==
  /\ NoMission \notin Mission /\ "spawner-ui.env" \notin EnvName
  /\ MaxEvents \in Nat /\ MaxRevokes \in Nat /\ MaxRevokeKills \in Nat /\ MaxSpawns \in Nat

Pausable == {"task_progress"}
MissionEvent == Pausable \cup {"mission_paused", "other"}
SpawnerEnv == "spawner-ui.env"
EnvFiles == EnvName \cup {SpawnerEnv}

VARIABLES
  spawnerUp,    \* whether a Spawner process runs
  recent,       \* mission-control.json: <<mission, event>>, newest first
  active,       \* active-mission.json: the mission it says is neither completed
                \* nor paused, if any
  results,      \* mission-provider-results.json: missions with a worker that runs
  marker,       \* security-revoke-all.json: new missions are paused
  controlKey,   \* generation of the control keys in each env file, 0 for none
  bridgeKey,    \* env files that hold the bridge key
  customMcp,    \* custom MCP configs are allowed
  revoke,       \* the revoke-all that runs
  verdict,      \* whether the last one reported success, and what it had to work on
  revokes, revokeKills, spawns, writes

revoke_vars == <<spawnerUp, recent, active, results, marker, controlKey, bridgeKey, customMcp,
                 revoke, verdict, revokes, revokeKills, spawns, writes>>

spawner_state == <<recent, active, results>>
env_state == <<controlKey, bridgeKey, customMcp>>

NotRevoking == [at |-> "idle"]
NoVerdict == [ok |-> FALSE]

RevokeInit ==
  /\ spawnerUp \in BOOLEAN
  /\ recent = <<>> /\ active = NoMission /\ results = {}
  /\ marker = FALSE
  /\ \E holders \in SUBSET EnvName :
       /\ controlKey = [f \in EnvFiles |-> IF f \in holders THEN 1 ELSE 0]
       /\ bridgeKey = holders \cup {SpawnerEnv}
  /\ customMcp \in BOOLEAN
  /\ revoke = NotRevoking /\ verdict = NoVerdict /\ revokes = 0 /\ revokeKills = 0 /\ spawns = 0
  /\ writes = 0

-----------------------------------------------------------------------------
(* Spawner, which runs missions and writes its files one by one.           *)

SpawnerWrites ==
  /\ spawnerUp /\ writes < MaxEvents /\ writes' = writes + 1
  /\ \E m \in Mission :
       \/ /\ \E e \in MissionEvent : recent' = << <<m, e>> >> \o recent
          /\ UNCHANGED <<active, results>>
       \/ active' \in {m, NoMission} /\ UNCHANGED <<recent, results>>
       \/ results' \in {results \cup {m}, results \ {m}} /\ UNCHANGED <<recent, active>>
  /\ verdict' = NoVerdict
  /\ UNCHANGED <<spawnerUp, marker, env_state, revoke, revokes, revokeKills, spawns>>

StartSpawner ==
  /\ ~spawnerUp /\ spawns < MaxSpawns
  /\ spawnerUp' = TRUE /\ spawns' = spawns + 1
  /\ revoke' = IF revoke = NotRevoking THEN revoke ELSE [revoke EXCEPT !.stopped = FALSE]
  /\ verdict' = NoVerdict
  /\ UNCHANGED <<spawner_state, marker, env_state, revokes, revokeKills, writes>>

-----------------------------------------------------------------------------
(* execute_security_revoke_all.                                            *)

Go(step, failed) == revoke' = [revoke EXCEPT !.at = step, !.failed = @ \/ failed]

(* The steps' results, whatever cmd_autostart_uninstall and cmd_stop       *)
(* return: capture_revoke_all_step counts only an exception as a failure,  *)
(* and neither step decides the verdict.                                   *)
StopProcesses ==
  /\ revoke = NotRevoking /\ revokes < MaxRevokes
  /\ revokes' = revokes + 1
  /\ spawnerUp' \in {spawnerUp, FALSE}
  /\ revoke' = [at |-> "keys", failed |-> FALSE, stopped |-> ~spawnerUp', sawAll |-> TRUE,
                left |-> EnvFiles, key |-> revokes + 2]
  /\ verdict' = NoVerdict
  /\ UNCHANGED <<spawner_state, marker, env_state, revokeKills, spawns, writes>>

(* rotate_revoke_all_env_keys: one new value for all files, for the keys a *)
(* file has and, in Spawner's, those it needs; the bridge key goes.        *)
NewKey_Fresh(f, key) == IF f = SpawnerEnv THEN key + 1 ELSE IF controlKey[f] # 0 THEN key ELSE 0
NewKey(f, key) == IF controlKey[f] # 0 \/ f = SpawnerEnv THEN key ELSE 0

RotateFile ==
  /\ revoke.at = "keys" /\ revoke.left # {}
  /\ LET f == CHOOSE x \in revoke.left : TRUE
     IN \E written \in BOOLEAN :
          /\ IF written
               THEN /\ controlKey' = [controlKey EXCEPT ![f] = NewKey(f, revoke.key)]
                    /\ bridgeKey' = bridgeKey \ {f}
               ELSE UNCHANGED <<controlKey, bridgeKey>>
          /\ revoke' = [revoke EXCEPT !.left = @ \ {f}, !.failed = @ \/ ~written]
  /\ UNCHANGED <<spawnerUp, spawner_state, marker, customMcp, verdict, revokes, revokeKills, spawns, writes>>

DisableMcp ==
  /\ revoke.at = "keys" /\ revoke.left = {}
  /\ \E written \in BOOLEAN :
       /\ customMcp' = (customMcp /\ ~written)
       /\ Go("recent", ~written)
  /\ UNCHANGED <<spawnerUp, spawner_state, marker, controlKey, bridgeKey, verdict, revokes, revokeKills, spawns, writes>>

(* latest_mission_events: the event of a mission's first entry, none for a *)
(* mission without one.                                                    *)
LatestEvent_Oldest(m) ==
  {recent[k][2] : k \in {k \in DOMAIN recent : /\ recent[k][1] = m
                                               /\ \A j \in (k + 1)..Len(recent) : recent[j][1] # m}}

LatestEvent(m) ==
  {recent[k][2] : k \in {k \in DOMAIN recent : /\ recent[k][1] = m
                                               /\ \A j \in 1..(k - 1) : recent[j][1] # m}}

ToPause == {m \in Mission : LatestEvent(m) \cap Pausable # {}}

(* One entry for each mission to pause, in some order.                     *)
PauseEntries ==
  {[k \in DOMAIN order |-> <<order[k], "mission_paused">>] :
     order \in {o \in UNION {[1..n -> ToPause] : n \in 0..Len(recent)} :
                  IsInjective(o) /\ Range(o) = ToPause}}
(* A file that cannot be read counts as empty, and is not a failure.       *)
PauseRecent ==
  /\ revoke.at = "recent"
  /\ \E readable, written \in BOOLEAN :
       /\ readable \/ ~written
       /\ IF written THEN \E pauses \in PauseEntries : recent' = pauses \o recent ELSE recent' = recent
       /\ revoke' = [revoke EXCEPT !.at = "active", !.sawAll = @ /\ readable,
                       !.failed = @ \/ (readable /\ ToPause # {} /\ ~written)]
  /\ UNCHANGED <<spawnerUp, active, results, marker, env_state, verdict, revokes, revokeKills, spawns, writes>>

PauseActive ==
  /\ revoke.at = "active"
  /\ \E readable, written \in BOOLEAN :
       /\ written => readable
       /\ active' = IF written THEN NoMission ELSE active
       /\ revoke' = [revoke EXCEPT !.at = "results", !.sawAll = @ /\ readable,
                       !.failed = @ \/ (readable /\ active # NoMission /\ ~written)]
  /\ UNCHANGED <<spawnerUp, recent, results, marker, env_state, verdict, revokes, revokeKills, spawns, writes>>

CancelResults ==
  /\ revoke.at = "results"
  /\ \E readable, written \in BOOLEAN :
       /\ written => readable
       /\ results' = IF written THEN {} ELSE results
       /\ revoke' = [revoke EXCEPT !.at = "marker", !.sawAll = @ /\ readable,
                       !.failed = @ \/ (readable /\ results # {} /\ ~written)]
  /\ UNCHANGED <<spawnerUp, recent, active, marker, env_state, verdict, revokes, revokeKills, spawns, writes>>

WriteMarker ==
  /\ revoke.at = "marker"
  /\ \E written \in BOOLEAN : marker' = (marker \/ written) /\ Go("bundle", ~written)
  /\ UNCHANGED <<spawnerUp, spawner_state, env_state, verdict, revokes, revokeKills, spawns, writes>>

(* The support bundle and the verdict: every critical action succeeded.    *)
VerdictOk(failed, bundle) == ~failed /\ bundle

ReportVerdict ==
  /\ revoke.at = "bundle"
  /\ \E bundle \in BOOLEAN :
       verdict' = IF VerdictOk(revoke.failed, bundle)
                  THEN [ok |-> TRUE, stopped |-> revoke.stopped, sawAll |-> revoke.sawAll, key |-> revoke.key]
                  ELSE NoVerdict
  /\ revoke' = NotRevoking
  /\ UNCHANGED <<spawnerUp, spawner_state, marker, env_state, revokes, revokeKills, spawns, writes>>

KillRevoke ==
  /\ revoke # NotRevoking /\ revokeKills < MaxRevokeKills
  /\ revoke' = NotRevoking /\ revokeKills' = revokeKills + 1
  /\ UNCHANGED <<spawnerUp, spawner_state, marker, env_state, verdict, revokes, spawns, writes>>

RevokeNext ==
  \/ SpawnerWrites \/ StartSpawner
  \/ StopProcesses \/ RotateFile \/ DisableMcp \/ PauseRecent \/ PauseActive \/ CancelResults
  \/ WriteMarker \/ ReportVerdict \/ KillRevoke

RevokeSpec == RevokeInit /\ [][RevokeNext]_revoke_vars

-----------------------------------------------------------------------------
(* What should hold.                                                       *)

RevokeTypeOK ==
  /\ recent \in Seq(Mission \X MissionEvent)
  /\ active \in Mission \cup {NoMission} /\ results \subseteq Mission
  /\ controlKey \in [EnvFiles -> 0..(revokes + 1)] /\ bridgeKey \subseteq EnvFiles

Quiescent(m) == LatestEvent(m) \cap Pausable = {} /\ m \notin results /\ active # m

(* A revoke-all that reports success, with Spawner down from its stop step *)
(* on and its files readable, has left no mission going in any of the      *)
(* three files, the marker set, custom MCP off, no bridge key, and the same*)
(* new control keys in every env file that has any - also when earlier     *)
(* attempts failed or were killed between two files.                       *)
SuccessHasRevoked ==
  verdict.ok /\ verdict.stopped /\ verdict.sawAll =>
    /\ \A m \in Mission : Quiescent(m)
    /\ marker /\ ~customMcp /\ bridgeKey = {}
    /\ \A f \in EnvFiles : controlKey[f] \in {0, verdict.key}

-----------------------------------------------------------------------------
(* Why it holds: an attempt that has not failed has done its part on every *)
(* file behind it, and nobody but a Spawner that runs undoes it.           *)

Revoking ==
  [at : {"keys", "recent", "active", "results", "marker", "bundle"}, failed : BOOLEAN,
   stopped : BOOLEAN, sawAll : BOOLEAN, left : SUBSET EnvFiles, key : {revokes + 1}]
Reported == [ok : {TRUE}, stopped : BOOLEAN, sawAll : BOOLEAN, key : {revokes + 1}]

AttemptsAreTyped ==
  /\ revokes \in Nat
  /\ revoke \in {NotRevoking} \cup Revoking
  /\ verdict \in {NoVerdict} \cup Reported
  /\ spawnerUp \in BOOLEAN /\ marker \in BOOLEAN /\ customMcp \in BOOLEAN

(* A verdict is the last thing of an attempt, and the next one erases it.  *)
VerdictIsLast == revoke # NotRevoking => verdict = NoVerdict

StoppedStaysStopped == revoke # NotRevoking /\ revoke.stopped => ~spawnerUp

KeysAreReplaced ==
  revoke # NotRevoking /\ ~revoke.failed =>
    /\ \A f \in EnvFiles \ revoke.left : controlKey[f] \in {0, revoke.key} /\ f \notin bridgeKey
    /\ revoke.at # "keys" => revoke.left = {} /\ ~customMcp

MissionsArePaused ==
  revoke # NotRevoking /\ ~revoke.failed /\ revoke.stopped /\ revoke.sawAll =>
    /\ revoke.at \in {"active", "results", "marker", "bundle"} => ToPause = {}
    /\ revoke.at \in {"results", "marker", "bundle"} => active = NoMission
    /\ revoke.at \in {"marker", "bundle"} => results = {}

MarkerIsSet == revoke # NotRevoking /\ ~revoke.failed /\ revoke.at = "bundle" => marker

RevokeIInv ==
  /\ AttemptsAreTyped /\ RevokeTypeOK
  /\ VerdictIsLast /\ StoppedStaysStopped /\ KeysAreReplaced /\ MissionsArePaused /\ MarkerIsSet
  /\ SuccessHasRevoked

=============================================================================
