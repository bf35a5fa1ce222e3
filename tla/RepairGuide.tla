----------------------------- MODULE RepairGuide -----------------------------
(***************************************************************************)
(* What `spark status`, `spark providers status`, `spark verify --deep`    *)
(* and `spark fix telegram` find wrong with an installation, the commands  *)
(* they name for it, and what those commands do.  Each of the four reads   *)
(* installed.json, setup.json, the modules' env files, pids.json and the   *)
(* processes for itself and decides for itself what is wrong.              *)
(*                                                                         *)
(* "builder" stands for the Builder with its memory and researcher         *)
(* modules, and one LLM role for all of them.  A module's own health check *)
(* passes when the module is configured; the bot's also asks Telegram.     *)
(* A command runs to its end, the setups that stop are SetupFlow's.        *)
(***************************************************************************)
EXTENDS Naturals, FiniteSets

CONSTANTS MaxDamages, MaxRepairs

ASSUME RepairAssumption == MaxDamages \in Nat /\ MaxRepairs \in Nat

Starter == {"bot", "spawner", "builder"}

VARIABLES
  here,       \* the installation: a record, see Fresh
  damages     \* how often it was damaged

repair_vars == <<here, damages>>

Fresh ==
  [installed |-> {},       \* modules in installed.json
   orphan |-> "none",      \* a clone without a manifest: of a module that is needed, or not
   recorded |-> FALSE,     \* setup.json names the bundle
   keys |-> {},            \* secret_keys of setup.json
   token |-> "absent",     \* the bot's token in the store: "absent", "rejected", "good"
   llm |-> "none",         \* "none", "keyless" (no auth recorded), "key", "codex"
   signedIn |-> FALSE,     \* the Codex CLI
   external |-> FALSE,     \* telegram_ingress_mode
   profile |-> "none",     \* Telegram profiles: "none", "autostart", "manual"
   env |-> {},             \* modules with a generated env file
   builderRef |-> FALSE,   \* the bot's names the installed Builder
   relay |-> FALSE,        \* Spawner's names a mission provider
   leaks |-> {},           \* plaintext secrets in "logs", and the token in the bot's "config"
   alive |-> {},           \* tracked processes that live
   answers |-> TRUE]       \* Spawner's, when it lives

-----------------------------------------------------------------------------
(* What the surfaces find.                                                 *)

Failing(checks) == {c \in DOMAIN checks : ~checks[c]}

(* A profile counts as startable when its env file shows the token.        *)
Expected(d) ==
  {m \in d.installed : \/ m = "spawner"
                       \/ m = "bot" /\ d.profile = "none" /\ ~d.external
                       \/ m = "bot" /\ d.profile = "autostart" /\ "config" \in d.leaks}
AllRunning_Any(d) == Expected(d) = {} \/ Expected(d) \cap d.alive # {}
AllRunning(d) == Expected(d) \subseteq d.alive

Healthy(d, m) ==
  CASE m = "spawner" -> "spawner" \in d.alive /\ d.answers
    [] m = "bot" -> d.external \/ ("bot" \in d.env /\ d.token = "good")
    [] m = "builder" -> "builder" \in d.env
Unhealthy(d) == {m \in d.installed : ~Healthy(d, m)}

(* The auth mode of setup.json, else what a stored key implies.            *)
EffectiveAuth(d, keys) == IF d.llm = "keyless" /\ "api_key" \in keys THEN "key" ELSE d.llm
RolesReady(d, keys) == EffectiveAuth(d, keys) \in {"key", "codex"}

(* Only the state of `providers status` has the Codex CLI's sign-in.       *)
ProvidersReady(d) ==
  /\ RolesReady(d, d.keys)
  /\ EffectiveAuth(d, d.keys) = "codex" => d.signedIn

StatusFails(d) ==
  IF d.installed = {} THEN {"installed"}
  ELSE Failing([modules |-> Unhealthy(d) = {},
                orphans |-> d.orphan = "none",
                bundle |-> d.recorded => Starter \subseteq d.installed,
                llm |-> RolesReady(d, d.keys),
                processes |-> d.recorded => AllRunning(d)])

SurfaceClean(d) == d.leaks = {}
RefsCurrent(d) == "builder" \in d.installed /\ "bot" \in d.env /\ d.builderRef
MemorySmoke(d) == "builder" \in d.installed /\ (d.recorded \/ "bot" \in d.env)

InstallationChecks(d) ==
  [starter_bundle |-> Starter \subseteq d.installed,
   module_health |-> d.installed # {} /\ Unhealthy(d) = {},
   llm_roles |-> ProvidersReady(d)]
WiringChecks(d) ==
  [telegram_long_polling_security |->
     {"token", "admins"} \subseteq d.keys /\ "bot" \in d.env /\ ~d.external /\ "config" \notin d.leaks,
   secret_surface |-> SurfaceClean(d),
   builder_memory_bridge |-> {"bot", "builder"} \subseteq d.env,
   builder_runtime_source |-> RefsCurrent(d)]
RuntimeChecks(d) ==
  [builder_memory_direct_smoke |-> MemorySmoke(d),
   spawner_mission_relay |-> "spawner" \in d.env /\ d.relay,
   runtime_processes |-> Expected(d) # {} /\ AllRunning(d)]
QuickFails(d) ==
  Failing(InstallationChecks(d)) \cup Failing(WiringChecks(d))
  \cup (Failing(RuntimeChecks(d)) \ {"builder_memory_direct_smoke"})
VerifyFails(d) ==
  Failing(InstallationChecks(d)) \cup Failing(WiringChecks(d)) \cup Failing(RuntimeChecks(d))

BotIsHealthy(d) == "bot" \in d.installed /\ Healthy(d, "bot")
TelegramFails(d) ==
  Failing([starter_installed |-> d.installed # {},
           telegram_module_health |-> BotIsHealthy(d),
           bot_token |-> "token" \in d.keys /\ ("bot" \in d.installed => d.external \/ d.token # "rejected"),
           admin_allowlist |-> "admins" \in d.keys,
           builder_bridge |-> "bot" \in d.env,
           builder_memory_roots |-> "builder" \in d.env,
           llm_roles |-> RolesReady(d, {}),
           telegram_process |-> "bot" \in d.alive])

(* `spark fix` with another target.                                        *)
FixFails(d) ==
  Failing([spawner |-> "spawner" \in d.installed \ Unhealthy(d) /\ ProvidersReady(d),
           providers |-> ProvidersReady(d),
           memory |-> QuickFails(d) = {},
           live |-> StatusFails(d) = {},
           update |-> d.installed # {}])

StatusOk(d) == StatusFails(d) = {}
VerifyOk(d) == VerifyFails(d) = {}
TelegramOk(d) == TelegramFails(d) = {}

-----------------------------------------------------------------------------
(* What they name.  Where a check's repair only looks, what it shows.      *)

StatusRepairs(d) ==
  LET fails == StatusFails(d) IN
  UNION {IF "installed" \in fails \/ "bundle" \in fails THEN {"setup"} ELSE {},
         IF "orphans" \in fails THEN {"fix_modules_clean", "setup"} ELSE {},
         IF "llm" \in fails THEN {"setup_llm_provider"} ELSE {},
         IF "processes" \in fails THEN {"start"} ELSE {},
         IF "spawner" \in Unhealthy(d) \ d.alive THEN {"start"} ELSE {},
         IF d.installed \ d.env # {} THEN {"setup"} ELSE {}}

ProvidersRepairs(d) ==
  IF ProvidersReady(d) THEN {}
  ELSE IF EffectiveAuth(d, d.keys) = "codex" THEN {"codex_login"} ELSE {"setup_llm_provider"}

TelegramRepairs(d) ==
  LET fails == TelegramFails(d) IN
  UNION {IF fails \cap {"starter_installed", "admin_allowlist", "builder_bridge", "builder_memory_roots"} # {}
         THEN {"setup"} ELSE {},
         IF "telegram_module_health" \in fails THEN StatusRepairs(d) ELSE {},
         IF "bot_token" \in fails THEN {"telegram_connect"} ELSE {},
         IF "llm_roles" \in fails THEN {"setup_llm_provider"} ELSE {},
         IF "telegram_process" \in fails THEN {"restart"} ELSE {}}

SecretRepairs(d) == IF d.leaks = {} THEN {} ELSE {"fix_secrets_redact_logs", "setup"}

(* `spark verify` prints the hints of status, and names `fix telegram`.    *)
VerifyRepairs(d) ==
  LET fails == VerifyFails(d) IN
  UNION {StatusRepairs(d), ProvidersRepairs(d), TelegramRepairs(d), SecretRepairs(d),
         IF fails \cap {"starter_bundle", "telegram_long_polling_security", "builder_memory_bridge",
                        "builder_memory_direct_smoke"} # {} THEN {"setup"} ELSE {},
         IF "builder_runtime_source" \in fails THEN {"update_builder"} ELSE {},
         IF "spawner_mission_relay" \in fails THEN {"setup_llm_provider"} ELSE {},
         IF "runtime_processes" \in fails THEN {"start"} ELSE {}}

-----------------------------------------------------------------------------
(* What the commands do.                                                   *)

CanRun(d, m) ==
  /\ m \in d.installed \cap d.env
  /\ m = "bot" => d.token = "good" /\ ~d.external
ByDefault(d) == {m \in {"bot", "spawner"} : CanRun(d, m) /\ (m = "bot" => d.profile # "manual")}
StartAll(d) ==
  [d EXCEPT !.alive = @ \cup ByDefault(d), !.answers = @ \/ "spawner" \notin d.alive]
StopAll(d) == [d EXCEPT !.alive = {}]
RestartAll(d) == StartAll(StopAll(d))

(* A setup asks for a token or key it does not find in the store, writes   *)
(* every env file without secrets, and starts what does not run.  Ingress  *)
(* is external only if this command line says so.                          *)
SetUp(d, llm, external) ==
  LET telegram == {"token", "admins"}
      token == IF external THEN "absent" ELSE IF d.token = "absent" THEN "good" ELSE d.token
      kept == IF external THEN d.keys \ telegram ELSE d.keys \cup telegram
  IN StartAll([d EXCEPT
       !.installed = Starter, !.recorded = TRUE, !.llm = llm, !.token = token,
       !.keys = kept \cup (IF llm = "key" THEN {"api_key"} ELSE {}),
       !.external = external, !.profile = IF external THEN "none" ELSE @,
       !.env = Starter, !.builderRef = TRUE, !.relay = llm # "none",
       !.leaks = @ \ {"config"},
       !.orphan = IF @ = "needed" THEN "none" ELSE @])

(* The token and the profile, but not the list of keys.                    *)
ConnectBot(d) ==
  IF ~({"bot", "spawner"} \subseteq d.installed) THEN d
  ELSE RestartAll([d EXCEPT !.token = "good", !.profile = IF @ = "manual" THEN @ ELSE "autostart"])

(* Processes keep their logs open: the command asks to stop them first.    *)
RedactLogs(d) ==
  IF d.alive = {} THEN [d EXCEPT !.leaks = @ \ {"logs"}]
  ELSE StartAll([StopAll(d) EXCEPT !.leaks = @ \ {"logs"}])

(* The references, in an env file that exists.                             *)
UpdateBuilder(d) ==
  IF "builder" \in d.installed /\ "bot" \in d.env THEN [d EXCEPT !.builderRef = TRUE] ELSE d

CleanClones(d) == [d EXCEPT !.orphan = "none"]

After(d, command) ==
  CASE command = "setup" -> SetUp(d, d.llm, FALSE)
    [] command = "setup_llm_provider" -> SetUp(d, "key", FALSE)
    [] command = "setup_external_ingress" -> SetUp(d, d.llm, TRUE)
    [] command = "start" -> StartAll(d)
    [] command = "restart" -> RestartAll(d)
    [] command = "stop" -> StopAll(d)
    [] command = "telegram_connect" -> ConnectBot(d)
    [] command = "fix_modules_clean" -> CleanClones(d)
    [] command = "fix_secrets_redact_logs" -> RedactLogs(d)
    [] command = "update_builder" -> UpdateBuilder(d)
    [] command = "codex_login" -> [d EXCEPT !.signedIn = TRUE]

UserCommands ==
  {"setup", "setup_llm_provider", "setup_external_ingress", "start", "restart", "stop",
   "telegram_connect", "fix_modules_clean", "fix_secrets_redact_logs", "update_builder",
   "codex_login"}

-----------------------------------------------------------------------------
(* A setup may choose Codex, or a provider whose key is not given.  Keys   *)
(* that an earlier setup listed stay in the list.                          *)
ChooseSetup ==
  /\ \E llm \in {"key", "keyless", "codex"}, external \in BOOLEAN :
       here' = [SetUp(here, llm, external) EXCEPT !.signedIn = (llm = "codex") \/ @]
  /\ UNCHANGED damages

RunCommand ==
  /\ \E command \in UserCommands : here' = After(here, command)
  /\ UNCHANGED damages

(* Installs, uninstalls and everything that happens without Spark.         *)
Damaged(d) ==
  UNION {{[d EXCEPT !.alive = @ \ {m}] : m \in d.alive},
         {[d EXCEPT !.answers = FALSE] : m \in d.alive \cap {"spawner"}},
         {[d EXCEPT !.installed = @ \ {m}, !.alive = @ \ {m}] : m \in d.installed},
         {[d EXCEPT !.installed = @ \cup {m}, !.builderRef = @ /\ m # "builder"] : m \in Starter},
         {[d EXCEPT !.env = @ \ {m}] : m \in d.env},
         {[d EXCEPT !.leaks = @ \cup {l}] : l \in {"logs"} \cup (IF "bot" \in d.env THEN {"config"} ELSE {})},
         {[d EXCEPT !.token = t] : t \in IF d.token = "good" THEN {"rejected", "absent"} ELSE {}},
         {[d EXCEPT !.orphan = o] : o \in {"other"} \cup (IF Starter \subseteq d.installed THEN {} ELSE {"needed"})},
         {[d EXCEPT !.signedIn = FALSE]},
         {[d EXCEPT !.profile = "manual"] : p \in {d.profile} \ {"none"}}}

SufferDamage ==
  /\ damages < MaxDamages /\ damages' = damages + 1
  /\ here' \in Damaged(here) \ {here}

RepairInit == here = Fresh /\ damages = 0
RepairNext == ChooseSetup \/ RunCommand \/ SufferDamage

RepairSpec == RepairInit /\ [][RepairNext]_repair_vars

-----------------------------------------------------------------------------
Installation ==
  [installed : SUBSET Starter, orphan : {"none", "needed", "other"}, recorded : BOOLEAN,
   keys : SUBSET {"token", "admins", "api_key"}, token : {"absent", "rejected", "good"},
   llm : {"none", "keyless", "key", "codex"}, signedIn : BOOLEAN, external : BOOLEAN,
   profile : {"none", "autostart", "manual"}, env : SUBSET Starter, builderRef : BOOLEAN, relay : BOOLEAN,
   leaks : SUBSET {"logs", "config"}, alive : SUBSET {"bot", "spawner"}, answers : BOOLEAN]
RepairTypeOK ==
  /\ here \in Installation /\ here.alive \subseteq here.installed
  /\ damages \in 0..MaxDamages

(* What `spark verify --deep` passes no other surface calls broken: status *)
(* and `spark fix` find nothing but a clone of a module that is not        *)
(* needed, and `fix telegram` nothing but roles whose key only the list of *)
(* an earlier setup has, and the process of a profile, which verify does   *)
(* not expect.                                                             *)
VerdictsAgree ==
  VerifyOk(here) =>
    /\ StatusFails(here) \subseteq {"orphans"}
    /\ FixFails(here) \subseteq (IF here.orphan = "none" THEN {} ELSE {"live"})
    /\ TelegramFails(here) \subseteq
         (IF here.llm = "keyless" THEN {"llm_roles"} ELSE {})
         \cup (IF here.profile = "none" THEN {} ELSE {"telegram_process"})

Passes(surface, d) ==
  \/ surface = "verify" /\ VerifyOk(d)
  \/ surface = "status" /\ StatusOk(d)
  \/ surface = "telegram" /\ TelegramOk(d)
Guide(surface, d) == IF surface = "telegram" THEN TelegramRepairs(d) ELSE VerifyRepairs(d)

(* Where a user may be who runs, again and again, what a surface names.    *)
NextByGuide(surface, places) == UNION {{After(d, c) : c \in Guide(surface, d)} : d \in places}
ByGuide(surface) ==
  LET Followed[n \in 0..MaxRepairs] == IF n = 0 THEN {here} ELSE NextByGuide(surface, Followed[n - 1])
  IN Followed
CanBeMade(surface) == \E n \in 0..MaxRepairs : \E d \in ByGuide(surface)[n] : Passes(surface, d)

(* Whatever verify, `fix telegram` and status find wrong, a user who runs  *)
(* what they name, at most MaxRepairs commands, can make it right; but for *)
(* a Spawner that lives and does not answer, for a token deleted from the  *)
(* store that setup.json still lists, and for a manual profile's process.  *)
Hung == "spawner" \in here.alive /\ ~here.answers
TokenLost == "token" \in here.keys /\ here.token = "absent"
NoDeadEnd ==
  ~Hung /\ ~TokenLost =>
    /\ CanBeMade("verify") /\ CanBeMade("status")
    /\ here.profile = "manual" \/ CanBeMade("telegram")

(* The commands that judge an installation agree about a sound one, and    *)
(* lead out of an unsound one.  Of a machine where nothing was ever        *)
(* installed they all say no more than `spark setup`.                      *)
GuideIsSound == here = Fresh \/ (VerdictsAgree /\ NoDeadEnd)

=============================================================================
