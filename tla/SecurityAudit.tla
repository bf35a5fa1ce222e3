--------------------------- MODULE SecurityAudit ---------------------------
(***************************************************************************)
(* What `spark security audit` and `spark live verify` find wrong with an  *)
(* installation that was set up, the commands they name for it, and the    *)
(* strict runtime guard, which refuses to start a module that has drifted  *)
(* from its registry pin.                                                  *)
(*                                                                         *)
(* "builder" stands for the modules without a process, "spawner" and "bot" *)
(* for those with one; the bot's own tree stays at its pin.  The commits   *)
(* of a module are numbered, and one number is the pin of all of them.  A  *)
(* command runs to its end, and what it starts comes up.  What a shell's   *)
(* environment says, every command of the user sees.                       *)
(***************************************************************************)
EXTENDS Naturals, FiniteSets

CONSTANTS MaxPin, MaxMishaps, MaxFollowed

ASSUME AuditAssumption == MaxPin \in Nat \ {0} /\ MaxMishaps \in Nat /\ MaxFollowed \in Nat

Supervised == {"bot", "spawner"}
Audited == {"builder", "spawner"}

VARIABLES
  place,     \* the installation and its environment: a record, see SetUpPlace
  mishaps    \* what went wrong with it so far

audit_vars == <<place, mishaps>>

(* git is "repo", a repository whose index git cannot read ("broken"), or  *)
(* "none" in an image that was built without it.  stamp is registry_commit *)
(* of installed.json.                                                      *)
PinnedTree(pin) == [head |-> pin, edit |-> "none", git |-> "repo", stamp |-> pin, managed |-> TRUE]

SetUpPlace(hosted, chained, stale) ==
  [tree |-> [m \in Audited |-> PinnedTree(1)], pin |-> 1,
   staleLocks |-> stale,      \* commits whose lockfile does not match the manifest
   chained |-> chained,       \* the bot's manifest names the spawner
   hosted |-> hosted,         \* SPARK_LIVE_CONTAINER
   strict |-> hosted,         \* SPARK_STRICT_RUNTIME_PINS
   bind |-> "loopback",       \* SPARK_SPAWNER_HOST: or "wildcard", "lan"
   allowed |-> FALSE,         \* SPARK_ALLOWED_HOSTS, with both API keys
   external |-> FALSE, profile |-> FALSE, pending |-> FALSE,
   record |-> [p \in Supervised |-> "live"],     \* in pids.json: or "none", "stale"
   logless |-> {},            \* processes whose log file is gone
   polling |-> "alone",       \* the bot's token: or "shared" by two profiles, polled "elsewhere"
   conflict |-> FALSE]        \* the end of the bot's log tells of it

-----------------------------------------------------------------------------
(* The checks.                                                             *)

Reds(checks) == {c \in DOMAIN checks : ~checks[c]}

(* git status of a broken index fails: for the audit and the guard that is *)
(* an empty answer, for the update a change.                               *)
ShortStatus(t) == t.git = "repo" /\ t.edit # "none"
UpdateSeesDirty(t) == t.git # "repo" \/ t.edit # "none"

OnRecord_HeadOnly(s, t) == IF t.git = "none" THEN t.stamp = s.pin ELSE t.head = s.pin
OnRecord(s, t) == IF t.git = "none" THEN t.stamp = s.pin ELSE t.head = s.pin /\ ~ShortStatus(t)
SupplyChainOk(s, t) == t.managed /\ OnRecord(s, t)

(* The dependency checks read the manifests and lockfiles of the commit    *)
(* that is checked out.                                                    *)
LockfilesOk(s, t) == t.head \in s.staleLocks => t.edit = "locks"

ExpectedUp(s) == {"spawner"} \cup (IF s.profile \/ s.external THEN {} ELSE {"bot"})
RuntimeOk(s) == \A p \in ExpectedUp(s) : s.record[p] = "live"

(* Whether SPARK_ALLOWED_HOSTS and both API keys are set and pass.         *)
WellGuarded(s) == s.allowed
LocallyExposed(s) == s.bind # "loopback" \/ s.allowed
PubliclyBound(s) == s.bind = "wildcard" \/ s.allowed

HostedReds(s) ==
  Reds([hosted_api_keys |-> PubliclyBound(s) => WellGuarded(s),
        hosted_strict_runtime_pins |-> s.hosted \/ PubliclyBound(s) => s.strict])

ExposureReds(s) ==
  Reds([control_surface |-> LocallyExposed(s) => WellGuarded(s),
        telegram_polling |-> s.external \/ (s.polling # "shared" /\ ~s.conflict),
        process_registry |-> \A p \in Supervised : s.record[p] # "stale"])

ModuleReds(s) ==
  Reds([module_supply_chain |-> \A m \in Audited : SupplyChainOk(s, s.tree[m]),
        dependency_lock_integrity |-> \A m \in Audited : LockfilesOk(s, s.tree[m])])

RuntimeReds(s) ==
  Reds([pending_setup_state |-> ~s.pending,
        autostart_runtime |-> s.profile => RuntimeOk(s),
        audit_visibility |-> \A p \in s.logless : s.record[p] = "none",
        runtime_health |-> RuntimeOk(s)])

LocalReds(s) == ExposureReds(s) \cup ModuleReds(s) \cup RuntimeReds(s)
AuditReds(s) == LocalReds(s) \cup (IF s.hosted \/ s.allowed THEN HostedReds(s) ELSE {})
AuditOk(s) == AuditReds(s) = {}

(* runtime_supply_chain_warnings: the spawner's, the only tree here that   *)
(* runs and can drift.  A tree outside Spark's home is none of its         *)
(* business, and what installed.json records it does not read.             *)
Drifted(s) ==
  LET t == s.tree["spawner"] IN
  t.managed /\ (t.git = "none" \/ t.head # s.pin \/ ShortStatus(t))
GuardAdmits(s) == s.strict => ~Drifted(s)

-----------------------------------------------------------------------------
(* The commands.                                                           *)

CanPoll(s) == ~s.external

(* start_module notes the start in the log first, also of a process that   *)
(* runs already.                                                           *)
Launch(s, processes) ==
  [s EXCEPT !.record = [p \in Supervised |->
              IF p \in processes /\ (p = "bot" => CanPoll(s)) THEN "live" ELSE s.record[p]],
            !.logless = @ \ processes]
Halt(s, processes) ==
  [s EXCEPT !.record = [p \in Supervised |-> IF p \in processes THEN "none" ELSE s.record[p]]]

LiveTarget(s) == IF s.external THEN {"spawner"} ELSE Supervised
WithDependents(s, processes) ==
  processes \cup (IF s.chained /\ "spawner" \in processes THEN {"bot"} ELSE {})

Start(s, processes) == IF GuardAdmits(s) THEN Launch(s, processes) ELSE s

(* The guard comes before the stop. *)
LiveRestart(s) ==
  LET all == WithDependents(s, LiveTarget(s)) IN
  IF GuardAdmits(s) THEN Launch(Halt(s, all), all) ELSE s

(* The login service does not have the shell's environment (under WSL,     *)
(* where the command starts the modules itself, it has); a container has   *)
(* no login service.                                                       *)
AutostartNow(s) == IF s.hosted THEN s ELSE Launch(s, Supervised)

(* Without a flag on this command line ingress is local.  Every module is  *)
(* stamped with the pin, also one whose tree was not touched.              *)
ResumeSetup(s) ==
  AutostartNow([s EXCEPT !.external = FALSE, !.pending = FALSE,
                         !.tree = [m \in Audited |-> [s.tree[m] EXCEPT !.stamp = s.pin]]])

(* spark update --skip-dirty, the builder first.  A head beyond the pin is *)
(* a rollback, which fails, and a failure ends the update.  (With          *)
(* SPARK_AUTOSTART set it ends with a `live restart`, a command here.)     *)
UpdateOne(s, m) ==
  LET t == s.tree[m]
      moved == [t EXCEPT !.stamp = s.pin, !.head = IF t.managed THEN s.pin ELSE @]
  IN Halt([s EXCEPT !.tree[m] = moved], {m} \cap Supervised)
Skips(s, m) == s.tree[m].managed /\ UpdateSeesDirty(s.tree[m])
Refuses(s, m) == s.tree[m].managed /\ ~Skips(s, m) /\ s.tree[m].head > s.pin
UpdateClean(s) ==
  LET first == IF Skips(s, "builder") \/ Refuses(s, "builder") THEN s ELSE UpdateOne(s, "builder")
  IN IF Refuses(s, "builder") \/ Skips(s, "spawner") \/ Refuses(s, "spawner") THEN first
     ELSE UpdateOne(first, "spawner")

(* spark uninstall --force, and spark install. *)
Reinstall(s, m) == Halt([s EXCEPT !.tree[m] = PinnedTree(s.pin)], {m} \cap Supervised)

DropEdits(s) ==
  [s EXCEPT !.tree = [m \in Audited |->
     IF s.tree[m].git = "repo" THEN [s.tree[m] EXCEPT !.edit = "none"] ELSE s.tree[m]]]
WriteLocks(s) ==
  [s EXCEPT !.tree = [m \in Audited |->
     IF LockfilesOk(s, s.tree[m]) THEN s.tree[m] ELSE [s.tree[m] EXCEPT !.edit = "locks"]]]

(* The tail of 200 lines moves on when the bot writes.                     *)
BotWrites(s) ==
  IF s.record["bot"] = "live" THEN [s EXCEPT !.conflict = (s.polling # "alone"), !.logless = @ \ {"bot"}]
  ELSE s

Ran(s, command) ==
  CASE command = "live_restart" -> LiveRestart(s)
    [] command = "live_start" -> Start(s, LiveTarget(s))
    [] command = "start" -> Start(s, Supervised)
    [] command = "stop_telegram_starter" -> Halt(s, Supervised)
    [] command = "autostart_on_now" -> AutostartNow(s)
    [] command = "setup_resume" -> ResumeSetup(s)
    [] command = "update_skip_dirty" -> UpdateClean(s)
    [] command = "reinstall_builder" -> Reinstall(s, "builder")
    [] command = "reinstall_spawner" -> Reinstall(s, "spawner")
    [] command = "review_edits" -> DropEdits(s)
    [] command = "regenerate_lockfiles" -> WriteLocks(s)
    [] command = "one_poller" -> [s EXCEPT !.polling = "alone"]
    [] command = "go_on" -> BotWrites(s)
    [] command = "bind_to_localhost" -> [s EXCEPT !.bind = "loopback", !.allowed = FALSE]
    [] command = "allow_hosts" -> [s EXCEPT !.allowed = TRUE]
    [] command = "strict_pins" -> [s EXCEPT !.strict = TRUE]

(* The repair each check names.  "spark live status" names a start.        *)
Named ==
  [control_surface |-> {"bind_to_localhost", "allow_hosts"},
   telegram_polling |-> {"one_poller", "go_on"},
   process_registry |-> {"live_restart", "stop_telegram_starter", "live_start"},
   pending_setup_state |-> {"setup_resume"},
   autostart_runtime |-> {"autostart_on_now"},
   module_supply_chain |-> {"update_skip_dirty", "review_edits", "reinstall_builder", "reinstall_spawner"},
   dependency_lock_integrity |-> {"regenerate_lockfiles"},
   audit_visibility |-> {"live_restart"},
   runtime_health |-> {"start"},
   hosted_api_keys |-> {"allow_hosts"},
   hosted_strict_runtime_pins |-> {"strict_pins"}]
AuditRepairs(s) == UNION {Named[c] : c \in AuditReds(s)}

AuditCommands == UNION {Named[c] : c \in DOMAIN Named}

-----------------------------------------------------------------------------
RunAudited ==
  /\ \E command \in AuditCommands : place' = Ran(place, command)
  /\ UNCHANGED mishaps

(* A setup that stops, for external ingress or with a named profile; a CLI *)
(* upgrade that moves the pins; and what happens without Spark.            *)
Mishap(s) ==
  UNION {{[s EXCEPT !.record[p] = "stale"] : p \in {q \in Supervised : s.record[q] = "live"}},
         {[s EXCEPT !.logless = @ \cup {p}] : p \in Supervised},
         {[s EXCEPT !.pending = TRUE], [s EXCEPT !.external = TRUE, !.profile = FALSE],
          [s EXCEPT !.profile = ~s.external], [s EXCEPT !.strict = TRUE],
          [s EXCEPT !.conflict = s.record["bot"] = "live", !.polling = "elsewhere"]},
         {[s EXCEPT !.polling = "shared"] : p \in IF s.profile THEN {1} ELSE {}},
         {[s EXCEPT !.bind = b] : b \in {"wildcard", "lan"}},
         {[s EXCEPT !.pin = c] : c \in 1..MaxPin},
         {[s EXCEPT !.tree[m].edit = "code"] : m \in Audited},
         {[s EXCEPT !.tree[m].git = g] : g \in {"broken", "none"}, m \in Audited},
         {[s EXCEPT !.tree[m].managed = FALSE] : m \in Audited}}

SufferMishap ==
  /\ mishaps < MaxMishaps /\ mishaps' = mishaps + 1
  /\ place' \in Mishap(place) \ {place}

AuditInit ==
  /\ \E hosted, chained \in BOOLEAN, stale \in SUBSET {MaxPin} : place = SetUpPlace(hosted, chained, stale)
  /\ mishaps = 0

AuditNext == RunAudited \/ SufferMishap

AuditSpec == AuditInit /\ [][AuditNext]_audit_vars

-----------------------------------------------------------------------------
AuditedTree ==
  [head : 1..MaxPin, edit : {"none", "code", "locks"}, git : {"repo", "broken", "none"},
   stamp : 1..MaxPin, managed : BOOLEAN]
Place ==
  [tree : [Audited -> AuditedTree], pin : 1..MaxPin, staleLocks : SUBSET {MaxPin}, chained : BOOLEAN,
   hosted : BOOLEAN, strict : BOOLEAN, bind : {"loopback", "wildcard", "lan"}, allowed : BOOLEAN,
   external : BOOLEAN, profile : BOOLEAN, pending : BOOLEAN, record : [Supervised -> {"none", "stale", "live"}],
   logless : SUBSET Supervised, polling : {"alone", "shared", "elsewhere"}, conflict : BOOLEAN]
AuditTypeOK == place \in Place /\ mishaps \in 0..MaxMishaps

(* An installation that the audit passes can be restarted under the strict *)
(* guard, unless it was installed without git: the audit takes the commit  *)
(* on record for such a module's code, the guard does not.  And what       *)
(* `live verify` passes, the audit calls exposed only for an address of a  *)
(* network other than the wildcard.                                        *)
AuditMeetsGuard ==
  /\ AuditOk(place) => GuardAdmits([place EXCEPT !.strict = TRUE]) \/ place.tree["spawner"].git = "none"
  /\ HostedReds(place) = {} /\ "control_surface" \in ExposureReds(place) => place.bind = "lan"

(* Where a user may be who runs, again and again, what the audit names.    *)
NextByAudit(places) == UNION {{Ran(s, c) : c \in AuditRepairs(s)} : s \in places}
ByAudit ==
  LET Followed[n \in 0..MaxFollowed] == IF n = 0 THEN {place} ELSE NextByAudit(Followed[n - 1])
  IN Followed

(* Whatever the audit finds, a user who runs what it names, at most        *)
(* MaxFollowed commands, can make it right; but for a pin whose commit has *)
(* a stale lockfile, which only an edit of the installed tree mends; for a *)
(* tree without git that the strict guard does not start although its      *)
(* record is right; for the lost log of a bot that stayed on record when   *)
(* ingress became external, which `live restart` does not restart; and for *)
(* the conflict in the log of a profile's bot that is stopped, which no    *)
(* check expects to run.                                                   *)
DeadEnd(s) ==
  \/ s.pin \in s.staleLocks
  \/ s.external /\ "bot" \in s.logless /\ s.record["bot"] # "none"
  \/ s.conflict /\ s.profile /\ s.record["bot"] # "live"
  \/ s.strict /\ s.tree["spawner"].git = "none"
AuditLeadsOut == ~DeadEnd(place) => \E n \in 0..MaxFollowed : \E s \in ByAudit[n] : AuditOk(s)

AuditIsSound == AuditMeetsGuard /\ AuditLeadsOut

=============================================================================
