------------------------------ MODULE SetupFlow ------------------------------
(***************************************************************************)
(* `spark setup` and `spark onboard`: the plan, the configuration that is  *)
(* collected and saved in setup.json before anything is installed, the     *)
(* installation, the secrets, the modules' env files, and the record of a  *)
(* setup that stopped.  A step may raise SystemExit (the setup stops and   *)
(* says so) or the invocation may end without it: killed, interrupted or   *)
(* by another exception.                                                   *)
(*                                                                         *)
(* One invocation runs at a time.  Commands that install a module are one  *)
(* step, and so are the processes; both have modules of their own, as have *)
(* the Telegram profiles, which setup carries over.                        *)
(***************************************************************************)
EXTENDS Naturals

CONSTANTS
  Provider,        \* LLM providers, but "not_configured"
  SetupAsk,        \* the command lines: records, see SetupInit
  Unnamed,         \* a role or bundle nobody named; no file
  MaxSetups, MaxSetupKills

Role == {"chat", "builder", "mission"}     \* builder stands for memory too
ConfiguredModule == {"gateway", "spawner"}
ModulesOf(bundle) == ConfiguredModule \cup (IF bundle = "voice" THEN {"voice"} ELSE {})

(* telegram.bot_token, the key of a provider, and the generated secrets.   *)
SetupSecret == {"token", "api key", "generated"}
Required == {"token"}

Roles == [Role -> Provider \cup {"not_configured"}]
Configuration == [bundle : {"starter", "voice"}, roles : Roles, keys : SUBSET SetupSecret]
PendingSetup == [kind : {"pending", "paused"}, bundle : {"starter", "voice", Unnamed}]
CommandLine ==
  [bundle : {"starter", "voice"}, resume : BOOLEAN, default : Provider \cup {Unnamed},
   agent : Provider \cup {Unnamed}, named : [Role -> Provider \cup {Unnamed}],
   given : SUBSET SetupSecret, unattended : BOOLEAN]

ASSUME SetupAssumption ==
  /\ SetupAsk \subseteq CommandLine /\ "not_configured" \notin Provider
  /\ Unnamed \notin Provider \cup {"not_configured", "starter", "voice"}
  /\ Unnamed \notin Roles /\ Unnamed \notin Configuration /\ Unnamed \notin PendingSetup
  /\ MaxSetups \in Nat /\ MaxSetupKills \in Nat

VARIABLES
  setup,       \* setup.json
  pending,     \* setup.pending.json
  stored,      \* secrets in a backend
  registered,  \* modules in installed.json
  envs,        \* the env file of each module: the roles it was written with
  run,         \* the invocation
  unsettled,   \* a setup stopped or ended early since the last complete one,
               \* other than by a pause that found everything settled
  torn,        \* one ended without SystemExit since then
  split,       \* the last complete one split the roles, see SplitsRoles
  setups, setupKills

setup_vars == <<setup, pending, stored, registered, envs, run, unsettled, torn, split, setups, setupKills>>
files == <<setup, pending, stored, registered, envs>>

NotSettingUp == [at |-> "none"]

SetupInit ==
  /\ setup = Unnamed /\ pending = Unnamed
  /\ stored = {} /\ registered = {} /\ envs = [m \in ConfiguredModule |-> Unnamed]
  /\ run = NotSettingUp /\ unsettled = FALSE /\ torn = FALSE /\ split = FALSE
  /\ setups = 0 /\ setupKills = 0

-----------------------------------------------------------------------------
(* Who plays which role: what the command line names, else what setup.json *)
(* names.                                                                  *)

ResolveProvider(ask, recorded) ==
  IF ask.default # Unnamed THEN ask.default
  ELSE IF recorded # Unnamed THEN recorded.roles["chat"]
  ELSE "not_configured"

ResolveRoles(ask, recorded) ==
  LET provider == ResolveProvider(ask, recorded)
      default == IF provider = "not_configured" /\ ask.agent = Unnamed /\ ask.named["chat"] # Unnamed
                 THEN ask.named["chat"] ELSE provider
  IN [r \in Role |->
        IF ask.named[r] # Unnamed THEN ask.named[r]
        ELSE IF r # "mission" /\ ask.agent # Unnamed THEN ask.agent
        ELSE default]

(* A command line that says who chats, names no default and leaves a role  *)
(* to it: before and after setup.json is saved its default is not the same.*)
SplitsRoles(ask) ==
  /\ ask.default = Unnamed /\ (ask.agent # Unnamed \/ ask.named["chat"] # Unnamed)
  /\ \E r \in Role : ask.named[r] = Unnamed /\ (r = "mission" \/ ask.agent = Unnamed)

-----------------------------------------------------------------------------
(* How an invocation begins and ends.                                      *)

AtStep(step) == run.at = step
GoTo(step) == run' = [run EXCEPT !.at = step]

BeginWith(ask, bundle) ==
  run' = [at |-> "plan", ask |-> ask, bundle |-> bundle, new |-> Unnamed, values |-> {},
          existed |-> setup # Unnamed /\ registered # {}, left |-> {}]

ResumedBundle(bundle) ==
  IF bundle = "starter" /\ pending # Unnamed /\ pending.bundle # Unnamed
  THEN pending.bundle ELSE bundle

RunSetup ==
  /\ AtStep("none") /\ setups < MaxSetups
  /\ setups' = setups + 1
  /\ \E ask \in SetupAsk :
       BeginWith(ask, IF ask.resume THEN ResumedBundle(ask.bundle) ELSE ask.bundle)
  /\ UNCHANGED <<files, unsettled, torn, split, setupKills>>

(* `spark onboard` asks for nothing but what is on record.                 *)
SetupNeeded == pending # Unnamed \/ setup = Unnamed \/ registered = {}
OnboardBundle ==
  IF pending # Unnamed /\ pending.bundle # Unnamed THEN pending.bundle
  ELSE IF setup # Unnamed THEN setup.bundle
  ELSE "starter"
NothingNamed ==
  [bundle |-> "starter", resume |-> TRUE, default |-> Unnamed, agent |-> Unnamed,
   named |-> [r \in Role |-> Unnamed], given |-> {}, unattended |-> FALSE]

Onboard ==
  /\ AtStep("none") /\ setups < MaxSetups
  /\ setups' = setups + 1
  /\ IF SetupNeeded THEN BeginWith(NothingNamed, ResumedBundle(OnboardBundle))
     ELSE run' = [at |-> "onboarding"]
  /\ UNCHANGED <<files, unsettled, torn, split, setupKills>>

(* An upgrade by the installer, which asked nothing, may pause instead, if *)
(* what stops it is that no secret backend is allowed.                     *)
CanPause(backend) ==
  /\ backend /\ run.ask.unattended /\ run.ask.given = {}
  /\ run.existed

PendingRecord(backend) ==
  [kind |-> IF CanPause(backend) THEN "paused" ELSE "pending",
   bundle |-> IF run.new # Unnamed THEN run.new.bundle ELSE Unnamed]

Stop_NotRecorded(backend) == run' = NotSettingUp /\ UNCHANGED <<pending, unsettled>>
Stop(backend) ==
  /\ run' = NotSettingUp
  /\ pending' = PendingRecord(backend)
  /\ unsettled' = (unsettled \/ ~CanPause(backend))

(* SystemExit in a step of setup; and in the start that onboard makes.     *)
StopSetup ==
  /\ \/ ~AtStep("none") /\ ~AtStep("onboarding") /\ Stop(FALSE)
     \/ AtStep("store") /\ run.values \ stored # {} /\ Stop(TRUE)
     \/ AtStep("onboarding") /\ run' = NotSettingUp /\ UNCHANGED <<pending, unsettled>>
  /\ UNCHANGED <<setup, stored, registered, envs, torn, split, setups, setupKills>>

(* A kill, Ctrl-C, or an exception that is no SystemExit.                  *)
EndEarly ==
  /\ ~AtStep("none") /\ setupKills < MaxSetupKills
  /\ setupKills' = setupKills + 1
  /\ run' = NotSettingUp
  /\ unsettled' = TRUE /\ torn' = TRUE
  /\ UNCHANGED <<files, split, setups>>

-----------------------------------------------------------------------------
(* The steps of a setup.                                                   *)

ResolvePlan ==
  /\ AtStep("plan") /\ GoTo("collect")
  /\ UNCHANGED <<files, unsettled, torn, split, setups, setupKills>>

(* What the command line gives, what is stored, and what is generated; the *)
(* keys an earlier setup.json lists stay listed.                           *)
Collected == run.ask.given \cup (stored \cap Required) \cup {"generated"}
PreservedKeys == IF setup = Unnamed THEN {} ELSE setup.keys

CollectConfiguration ==
  /\ AtStep("collect") /\ Required \subseteq Collected
  /\ run' = [run EXCEPT
               !.at = "save", !.values = Collected,
               !.new = [bundle |-> run.bundle, roles |-> ResolveRoles(run.ask, setup),
                        keys |-> PreservedKeys \cup Collected]]
  /\ UNCHANGED <<files, unsettled, torn, split, setups, setupKills>>

(* Once the tokens that are new have been validated.                       *)
SaveConfiguration ==
  /\ AtStep("save") /\ GoTo("install")
  /\ setup' = run.new
  /\ UNCHANGED <<pending, stored, registered, envs, unsettled, torn, split, setups, setupKills>>

InstallBundle ==
  /\ AtStep("install") /\ GoTo("store")
  /\ registered' = registered \cup ModulesOf(run.bundle)
  /\ UNCHANGED <<setup, pending, stored, envs, unsettled, torn, split, setups, setupKills>>

StoreSecret ==
  /\ AtStep("store")
  /\ \E s \in run.values \ stored : stored' = stored \cup {s}
  /\ UNCHANGED <<setup, pending, registered, envs, run, unsettled, torn, split, setups, setupKills>>

(* build_module_envs resolves the roles once more, from the setup.json     *)
(* that was just saved.                                                    *)
SecretsFirst == run.values \subseteq stored

PlanModuleEnvs ==
  /\ AtStep("store") /\ SecretsFirst
  /\ run' = [run EXCEPT !.at = "envs", !.left = ConfiguredModule,
                        !.new.roles = ResolveRoles(run.ask, setup)]
  /\ UNCHANGED <<files, unsettled, torn, split, setups, setupKills>>

WriteEnv ==
  /\ AtStep("envs")
  /\ \E m \in run.left :
       /\ envs' = [envs EXCEPT ![m] = run.new.roles]
       /\ run' = [run EXCEPT !.left = @ \ {m}]
  /\ UNCHANGED <<setup, pending, stored, registered, unsettled, torn, split, setups, setupKills>>

ClearPending == AtStep("envs") /\ run.left = {} /\ pending' = Unnamed

Complete ==
  /\ ClearPending
  /\ GoTo("start")
  /\ unsettled' = FALSE /\ torn' = FALSE /\ split' = SplitsRoles(run.ask)
  /\ UNCHANGED <<setup, stored, registered, envs, setups, setupKills>>

(* Autostart or start has returned, whatever it returned.                  *)
StartRuntime ==
  /\ AtStep("start") \/ AtStep("onboarding")
  /\ run' = NotSettingUp
  /\ UNCHANGED <<files, unsettled, torn, split, setups, setupKills>>

(* `spark secrets set`, between setups.                                    *)
SetToken ==
  /\ AtStep("none") /\ "token" \notin stored
  /\ stored' = stored \cup {"token"}
  /\ UNCHANGED <<setup, pending, registered, envs, run, unsettled, torn, split, setups, setupKills>>

SetupNext ==
  \/ SetToken
  \/ RunSetup \/ Onboard \/ StopSetup \/ EndEarly
  \/ ResolvePlan \/ CollectConfiguration \/ SaveConfiguration \/ InstallBundle
  \/ StoreSecret \/ PlanModuleEnvs \/ WriteEnv \/ Complete \/ StartRuntime

SetupSpec == SetupInit /\ [][SetupNext]_setup_vars

-----------------------------------------------------------------------------
SetupTypeOK ==
  /\ setup = Unnamed \/ setup \in Configuration
  /\ pending = Unnamed \/ pending \in PendingSetup
  /\ stored \subseteq SetupSecret /\ registered \subseteq ConfiguredModule \cup {"voice"}
  /\ envs \in [ConfiguredModule -> Roles \cup {Unnamed}]
  /\ {unsettled, torn, split} \subseteq BOOLEAN
  /\ setups \in 0..MaxSetups /\ setupKills \in 0..MaxSetupKills

(* Between setups, setup.json describes what is there, its modules, the    *)
(* secrets they require and the roles in their env files, or a pending     *)
(* record says that a setup is to be resumed: so `spark onboard` starts    *)
(* nothing half configured, whatever step stopped, unless a setup ended    *)
(* without SystemExit since the last complete one.  The roles differ only  *)
(* after a command line that splits them (SplitsRoles), and are then still *)
(* the same in all env files.  An upgrade that pauses, when what it found  *)
(* was settled, keeps its word "Existing runtime: can keep running": the   *)
(* env files are as one setup wrote them, and the modules and required     *)
(* secrets they need are there.                                            *)
Agrees ==
  /\ ModulesOf(setup.bundle) \subseteq registered
  /\ Required \subseteq stored
  /\ envs["gateway"] = envs["spawner"] /\ (split \/ envs["spawner"] = setup.roles)
PausedRuns ==
  /\ pending.kind = "paused"
  /\ envs["gateway"] = envs["spawner"] /\ envs["gateway"] # Unnamed
  /\ ConfiguredModule \subseteq registered /\ Required \subseteq stored
SettledOrPending ==
  /\ AtStep("none") \/ AtStep("onboarding") =>
       torn \/ pending # Unnamed \/ setup = Unnamed \/ Agrees
  /\ AtStep("none") /\ pending # Unnamed /\ ~unsettled => PausedRuns

-----------------------------------------------------------------------------
(* Why it holds: up to the save of setup.json the files are as they were   *)
(* found, and from there each step completes what is configured; the only  *)
(* setup that stops without being unsettled, or torn, or the last word, is *)
(* the one that pauses before it has written an env file.                  *)

Stepping ==
  [at : {"plan", "collect", "save", "install", "store", "envs", "start"}, ask : CommandLine,
   bundle : {"starter", "voice"}, new : Configuration \cup {Unnamed}, values : SUBSET SetupSecret,
   existed : BOOLEAN, left : SUBSET ConfiguredModule]

BeforeSave == AtStep("none") \/ AtStep("onboarding") \/ AtStep("plan") \/ AtStep("collect") \/ AtStep("save")
Installing == AtStep("install") \/ AtStep("store")

(* What the steps of this setup have done so far. *)
StepsDone ==
  /\ ~AtStep("none") /\ ~AtStep("onboarding") /\ ~AtStep("plan") /\ ~AtStep("collect") =>
       /\ run.new # Unnamed /\ run.new.bundle = run.bundle /\ Required \subseteq run.values
       /\ ~SplitsRoles(run.ask) => ResolveRoles(run.ask, run.new) = run.new.roles
  /\ Installing \/ AtStep("envs") => setup # Unnamed /\ setup.bundle = run.bundle
  /\ Installing => setup = run.new
  /\ AtStep("store") \/ AtStep("envs") => ModulesOf(run.bundle) \subseteq registered
  /\ AtStep("envs") =>
       /\ run.values \subseteq stored
       /\ ~SplitsRoles(run.ask) => run.new.roles = setup.roles
       /\ \A m \in ConfiguredModule \ run.left : envs[m] = run.new.roles

SetupSettled == torn \/ pending # Unnamed \/ setup = Unnamed \/ Agrees
SettledBeforeSave ==
  /\ BeforeSave => SetupSettled
  /\ AtStep("start") => setup # Unnamed /\ Agrees

EnvsAreThere ==
  /\ envs["gateway"] = envs["spawner"] /\ envs["gateway"] # Unnamed
  /\ ConfiguredModule \subseteq registered /\ Required \subseteq stored

PausesAreSettled ==
  ~unsettled =>
    /\ pending # Unnamed => pending.kind = "paused"
    /\ BeforeSave => (setup = Unnamed /\ pending = Unnamed) \/ EnvsAreThere
    /\ run \in Stepping /\ BeforeSave /\ run.existed => setup # Unnamed
    /\ (Installing /\ run.existed) \/ AtStep("start") => EnvsAreThere

SetupIInv ==
  /\ SetupTypeOK /\ run \in {NotSettingUp, [at |-> "onboarding"]} \cup Stepping
  /\ StepsDone /\ SettledBeforeSave /\ PausesAreSettled

=============================================================================
