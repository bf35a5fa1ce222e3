# A TLA+ verification of spark-cli

`spark` is a command-line program that installs modules (git clones with a
`spark.toml`), keeps their secrets, and starts, stops, updates and repairs their
runtime processes. There is no daemon: every `spark …` command is a short-lived
process, several can run at once (a user, an autostart unit, a Telegram
operator's recovery command), and they meet in files under `~/.spark`, in two
file locks, in the system keychain and in the operating system's process table.
That is where the difficult behaviour is, and what this project models.

Paths below are relative to the repository; `cli.py` and
`managed_secret_runtime.py` are in `src/spark_cli/`.

## Inventory

For each part: its state, what it does, what is hard about it, what makes it
correct. `PROJECT.json` lists the same parts with their status, and every hazard
at its line with the properties that are about it.

### Processes and modules

**Process supervisor** (`cli.py` 18061–18963, `managed_secret_runtime.py` 243–294).
State: `pids.json`, one record per process key (a module, or
`spark-telegram-bot:<profile>`); the registry lock; the bridge rotation lock; the
processes and the ports they listen on. Start, stop, and the sequences that
restart, update and uninstall expand to. Hard: the registry lock is free for the
whole readiness wait, so a failed start cleans up in a registry it read long ago;
`os.kill(pid, 0)` accepts zombies and reused pids; a stale process can answer the
readiness probe; launchers hand over to another process; commands are killed
half-way. Correct: no running module is forgotten or runs twice, a bridge consumer
is not disturbed while it starts, a stop stops, every command ends.

**Module graph** (`cli.py` 17944–18070, 18782–18962). Which modules a start, stop or restart acts
on, and in which order; a pure function of the manifests. Correct: exactly what is
needed, every dependency first, cycles and absent modules refused.

**Module lifecycle** (`cli.py` 5422–6366, 20339–20505). `installed.json`,
`install_progress.json`, the checkouts. Install, bundle install, `--resume`,
update, uninstall, fix. Hard: a failure or kill between two effects; starts by other
invocations in between. Correct: an update that ends well has replaced the running
code and built it; records name what can be loaded; a resume does what is missing.

**Module sources** (`cli.py` 932–1333): pinned clone, resume of a partial one,
update by shallow fetch with a rollback guard.

**Process logs** (`cli.py` 19724–19827, 12582–12616, 14407–14446): append and in-place compaction
under a lock, against a process that appends without one.

**Autostart** (`cli.py` 19131–19714, 15358–15466): systemd, launchd, scheduled tasks,
startup scripts and run keys, by helpers that may fail. Correct: what `on`, `off`
and the audit of `fix autostart` answer is true of the next login.

### Secrets and keys

**Secret store** (`cli.py` 1494–1796): an index that names a backend for each secret,
the keychain, `secrets.json`; no lock. Correct: a secret that was stored or deleted
undisturbed stays so until it is next touched.

**Bridge key rotation** (`managed_secret_runtime.py` 126–189, 281–355, 397–606;
`bridge_key.py`; `cli.py` 20250–20278). The managed secret, its staged copy, keys in
older env files, the consumers and the key each was launched with. Hard: every call
can raise half-way, the rollback included; starts and stops race it. Correct: all
running consumers use the same, managed key; the outcome says what was left behind.

**Revoke-all** (`cli.py` 11938–12409): processes, secrets, control keys, MCP, missions
in three files and a marker, each step with its own verdict. Correct: "ok" means
revoked.

### Configuration

**Setup and onboarding** (`cli.py` 3055–3138, 4568–4688, 7914–8121): plan, configuration saved before
anything is installed, installation, secrets, env files, a pending record when it
stops, resume. Correct: settled or pending, never half configured unnoticed.

**Telegram profiles** (`cli.py` 4735–5077, 6502–6568, 19607–19623): `setup.json`, one env file per
profile, Spawner's relay list; no lock.

**Provider selection** (part of setup): which provider each role gets.

**Access levels** (`sandbox/access.py`): the guardrail keys of Level 5 in several env
files, an audit log, the services; and `spark access`, which says what is active and
what to run next. Correct: a level that was switched stays switched, the status is
right about the running services, its advice leads where the user wanted to go.

**Sandboxes** (`sandbox/ssh.py`, `docker.py`, `modal.py`): SSH targets with pinned keys;
smokes with timeouts and remote remains. **Browser use** (`cli.py` 6669–7612):
sessions of an external browser, a proof with a time to live, receipts. **Mission
smoke** (`cli.py` 17212–17413): a mission started at Spawner and polled on its board.

### Judging and releasing

**Status, providers, verify, fix** (`cli.py` 11469–11538, 15034–16774): four commands that each decide
for themselves what is wrong and what to run. Correct: they agree on a sound
installation and lead out of an unsound one.

**Security audit, strict runtime guard, hosted verification** (`cli.py` 12619–13662,
17025–17602): what `security audit` and `live verify` find wrong, the repair each
finding names, and the guard of the starts, which under `SPARK_STRICT_RUNTIME_PINS`
refuses a module that drifted from its pin. Correct: what the audit passes, the guard
starts; what the audit names leads to an installation it passes.

**System map** (`system_map.py`): reports over the event database of Builder, statement
by statement while Builder records.

**Release gate** (`release_gate.py`) and **release truth** (`cli.py` 8363–10802,
`r30_merged_source_truth.py`): a captured verdict that later permits pushes; a check
that reads a dozen sources one after the other while they move.

### Without a model

**Approval policy, command authority classifiers, prompt, URL and provider transport
policy** (`security/`, `runtime_policy.py`): pure functions from a string to a verdict,
without state; a model would repeat their patterns. **Installer scripts and
images**: shell, outside the Python program.

## Plan

| # | modules | status |
|---|---------|--------|
| 1 | `ProcessSupervisor` | checked, proved |
| 2 | `SecretBackends`, `BridgeGeneration`, `BridgeRotation` | checked, refinement proved |
| 3 | `SecretStore` | checked, proved |
| 4 | `ModuleGraph` | checked, proved |
| 5 | `ModuleSource`, `ModuleLifecycle` | checked, proved |
| 6 | `TelegramProfiles`, `SetupFlow` | checked, proved |
| 7 | `RevokeAll`, `ProcessLog`, `Autostart` | checked, proved |
| 8 | `AccessLevel`, `AccessGuide`, `SshTargets`, `SandboxSmoke`, `MissionSmoke`, `BrowserUse` | checked, proved |
| 9 | `ReleaseGate`, `ReleaseTruth`, `RepairGuide`, `SecurityAudit`, `TraceHealth` | checked, proved |
| 10 | the compositions `local_state` and `operations` (`MCLocalState`, `MCOperations`) | proved |

A module that is proved about has no RECURSIVE operator: what the code computes by a loop
or a recursion is a recursive function over a number (`ByGuide` and `ByAudit` over the
commands followed, `RowByRow` over the rows of the trace topology) or, in `ModuleGraph`,
a machine with one action per step of the loop.

## The modules

### ProcessSupervisor

One action is one step of a command between two points where somebody else can
interfere. The model knows several `Cli`, each with a work list `todo` (`start`,
`stop` by `spark stop`, `remove` by uninstall or update; restart is a `stop` and
a `start`).

| model | code |
|-------|------|
| `registry` | `pids.json`, the pid per process key |
| `st`, `keyOf`, `parent` | the processes: live, sent SIGKILL, zombie of a running command, gone, pid given to a foreign program |
| `port` | who listens on a module's port |
| `pidLock`, `rotLock` | `pid_file_lock`, `process_log_lock(BRIDGE_ROTATION_LOCK_PATH)`: flocks, freed by the kernel when the holder dies |
| `launched`, `runtime`, `ok` | the `Popen` object, `discover_runtime_pid`'s answer, the returned value |
| `TakeRotationLock`, `NoRotationLock`, `Return`, `Finish`, `LockTimeout`, `Crash` | the life of a command |
| `BeginStop`, `KillTracked`, `PopRecord` | `_stop_tracked_process_key_unlocked`, `stop_module` |
| `BeginStart` … `DropOwnRecord` | `_start_module_unlocked`, in its order |
| `ProcessExits`, `Listens`, `HandsOver`, `PidReused`, `ReapEarlierChild` | the operating system and `subprocess` |

`untracked` is a history variable: the processes that come to exist outside the
registry's protocol, namely a child whose command was killed between `Popen` and
`save_pids`, and a process a launcher forked and nobody adopted yet. The code
cannot know them, and the properties exclude exactly them. A process handed over
by a Telegram launcher leaves that set when the registry takes it.

### SecretBackends

The slot of one secret: index entry, keychain copy, file copy. Each operation is
the set of slots it can leave, apart for calls that return (`Stored`, `Replaced`,
`Restored`) and calls that raise or are cut short (`StoreCut`, `PurgeCut`,
`ReplaceCut`, `RestoreCut`). A keychain write that raises may have taken effect.

### BridgeRotation

`rotate_managed_bridge_api_key` statement by statement, with starts and stops of
the consumers by other invocations. All of them hold the rotation lock, and
`ProcessSupervisor`'s theorem `StartUndisturbed` says that nobody touches a
consumer's record while it is being started; so a launch with its readiness wait
is one step here (`Launch`, with every way it can end), and so is a stop. What is
added is the key: `ResolveKey` reads the secret, and `Launch`, a later step, uses
what was read.

| model | code |
|-------|------|
| `stable`, `pending` | slots of `spark.bridge_api_key` and `.pending` |
| `legacy` | bridge keys in generated env files |
| `tracked`, `proc` | the registry and the last process of each consumer, with the key in its environment |
| `rot` | the function's locals (`promotion_attempted`, `consumers_stopped`, `rollback_failed`, the captured generation, the snapshot) |
| `report` | the message the rotation ends with |
| `XRaises` | the call in step X raises, its work done in part |
| `RollbackStop` … `Report` | the `except BaseException` branch |

### BridgeGeneration

The abstract protocol: there is one current key; a consumer joins with it; it
changes only while nobody uses it. `BridgeRotation` implements it with `key <-
ManagedKey` and the supervised live consumers as users.

### ModuleSource and ModuleLifecycle

`ModuleSource` has the checkout of one module: an operation is the set of results git,
the network, a signature check or a full disk can leave, and `Name_Cut` what a kill
leaves. Commits are positions on one line of history, with the window of the shallow
fetch. `ModuleLifecycle` extends it: one lifecycle command at a time (`op`), step by
step over `installed.json` (`record`), `install_progress.json`, the checkouts (`tree`)
and the processes (`proc`), killed anywhere, while other invocations start and stop
modules in one step each (their detail is `ProcessSupervisor`'s).

### SecretStore

Several secrets and invocations over `secrets_index.json`, `secrets.json`, the keychain
and its legacy account. A load and the save that follows it are two steps. `asSaid`
ties it to `SecretBackends`: a store that had the secret for itself leaves a slot the
rotation's model knows, ended or killed.

### The other parts

| module | state (code) | actions (code) |
|--------|--------------|----------------|
| `ModuleGraph` | `needs` (manifests), `profiled` (a bot of which only profiles run), `asked`, `answer`; of the loop in progress `at`, `todo`, `starts`, `requested`, `stack`, `found`, `selected`, `path`, `ordered` | `Ask`, then each step of the closures (`CollectStop`, `CollectStart`, `CollectDone`), of the depth-first sort (`VisitNext`, `VisitNeeded`, `Visited`) and of the loop of `resolve_restart_modules` (`RestartNext`, `StartResolved`, `RestartAllResolved`) |
| `SetupFlow` | `setup` (`setup.json`), `pending`, installed modules, stored secrets, env files, the plan in progress | the steps of `cmd_setup`, stops by SystemExit, kills, `onboard` |
| `TelegramProfiles` | `setupProfiles`, `profilePort` (env files), `relayPorts` (Spawner's env) | `connect`, `autostart profile`, setup; load, save and env writes apart |
| `AccessLevel` | `level5` (keys per env file), `audit` (its log), `service` (what each started with) | enable, disable, setup, connect and start as sequences of file operations |
| `AccessGuide` | env files, audit, services and backends as `spark access` reads them | a user who runs the command named next |
| `SshTargets` | records, `known_hosts`, the keys of the hosts; what each invocation has loaded (`calls`) | add, remove, trust, login, each with its load and its saves apart, killed anywhere; a host changes its key |
| `SandboxSmoke` | the smoke's stage and what it left on a machine, in the cloud, in Docker | each connection; timeout, loss, kill, an address that moves |
| `MissionSmoke` | `lane` (one per check), `board` (Spawner's) | preflight, start, poll; Spawner takes, completes, loses, forgets |
| `BrowserUse` | the proof of the last probe, its screenshot, receipts and pictures per session, open sessions | install, probe, open, screenshot, task, status; each step may fail, the close unnoticed |
| `RevokeAll` | missions in three files, marker, control and bridge keys, MCP | the steps in order; Spawner writes meanwhile |
| `ProcessLog` | the lines of one log, the log lock | append, compaction (two writes), the process's writes, redaction |
| `Autostart` | `entry` (unit, plist, task, script, run key), `os` | on and off, helper by helper; status and the audit are operators |
| `RepairGuide` | one installation (`here`) | damages; the commands that status, providers, verify and fix name |
| `SecurityAudit` | one installation and its environment (`place`): trees, pin, records, logs, exposure | mishaps; the commands the audit names |
| `TraceHealth` | Builder's events, the report being compiled | each statement, and last the queue and its cards up to their limits; Builder records in between |
| `ReleaseGate` | `tree` (work tree), `captures`, waivers, refs, the day | edit, commit, capture (begin, end, kill), push |
| `ReleaseTruth` | checkouts, records, pins, tags, packet, installers, site; what was read | one action per collector; the world moves in between |

A definition named `Name_Variant` (`TakeLock_Unlocked`, `Shown_Visible`) is a faulty variant of the
definition that follows it: a dropped guard, a missing reset, an order swapped. No
specification uses them; they serve to confirm that a property notices the fault.

`MCLocalState` and `MCOperations` put one instance of each of those parts side by side. A
behaviour is one of a single part, chosen at the start (`part`), and the others stay
where they are: the parts share no file, so their interleavings say nothing new, while
one run shows that all of them hold. Parts that do interact are composed for real:
`ModuleLifecycle` with `ModuleSource`, `BridgeRotation` with `SecretBackends`, and the
interface facts are stated on both sides (`StartUndisturbed` for the rotation, `asSaid`
for the slots).

## Runs

| run | instance | shows |
|-----|----------|-------|
| `spawner` | 2 commands, the Spawner and one plain module, 3 pids, start of one or both; about 1.6 million states | type invariant, `LiveIsTracked`, `OneLivePerKey`, `StartOwnsBridgeRecord`, `StartAnswersTruly`, `StopEndsProcess` |
| `telegram` | 2 commands, one Telegram profile, 4 pids; about 206 000 states | the same tracking with the relay port cleared and the launcher handing over |
| `supervisor_fair` | 2 commands contending for both locks; about 120 000 states | `CommandsFinish` |
| `rotation_race` | 2 commands, Spawner and a profile, 3 values, no faults; about 457 000 states | `SuccessIsComplete`, and the refinement `ImplementsGeneration` |
| `rotation_faults` | 1 command at a time, 2 values, every call may raise, crashes; about 1.05 million states | type invariant, `OneGeneration`, `RunningIsTracked`, `NoSupersededCopy`, `FailureIsTruthful` |
| `rotation_fair` | 2 commands, 1 consumer, no faults; about 71 000 states | `CommandsFinish` |
| `rotation_health` | 1 command, no faults | violates `HealthFailureRollsBack` |
| `lifecycle` | 2 modules, the bot needing the Spawner; 3 commits, a history window of 1, one kill, one change of pin or tree; about 1.86 million states | type invariant, `UpdateReplacesRunningCode`, `UpdateIsComplete`, `RecordsAreLoadable`, `EntriesFollowCommands` |
| `lifecycle_resume` | the same without kills | violates `ResumeRerunsFailedStep` |
| `local_state` | 7 parts; about 1.12 million states | type invariant and one property or two per part, below |
| `operations` | 11 parts; about 1.62 million states | type invariant and one property per part, below |
| `revoke_all_secrets` | the secret store alone | violates `RevokeAllRemovesSecrets` |

`StartAnswersTruly` is of each of the three ways in which a start of the Spawner succeeds. "Ready"
means that no stale listener answered; the other two, not ready with boot warnings allowed and
already running, ask no port, and only say that the record names a process that is there: the
start's own child, or the one it found. `EntriesFollowCommands` says that an install or setup enters
its modules all or none and none before its commands have run on its checkout, unless they were
left out on purpose (`--skip-install-commands`, a setup of an installed module, a resume).
`RecordsAreLoadable` identifies the one way to a record that cannot be loaded: an uninstall killed
while it removes the clone.

What `local_state` and `operations` show:

| property | says |
|----------|------|
| `SwitchSticks` | a Level 5 that was disabled (enabled) undisturbed stays off (on) in every env file through later setups, connects and kills |
| `StatusMatchesServices` | after such an enable, the status is right about what the running services started with |
| `NextLeadsToLevel5` | who runs what `spark access` names next has Level 5 after two commands, from any half-done state but one |
| `LoginMeetsTrustedKey` | a login meets a key that a trust scanned at that host, and the one of the record where the trust was undisturbed; such a record stays trusted through adds, removes and trusts of others that overlap |
| `SmokesAnswerTrue` | a sandbox smoke that says ok ran whole on one machine and left nothing; a mission preflight that says ok has a completed mission of its kind on the board, its own if it ran alone |
| `BrowserReportsHold` | "ready" has a passed proof in time, with its picture; a successful action finds its own receipt; no session stays open but one whose close failed or whose command was killed |
| `SecretStaysAsSettled` | a secret stored or deleted undisturbed stays so whatever happens to others |
| `PermitsOnlyVerified` | a permitted push is of the tree that was verified, each red gate waived by name and in time |
| `VerdictIsTrue` | a green release check means one source for what the premises cover, and a converged release is green |
| `SuccessHasRevoked` | a revoke-all that says ok, with Spawner down, left no mission going, no bridge key, no MCP, one control key |
| `SettledOrPending` | after any stop, `setup.json` agrees with modules, secrets and env files (but for a split of the roles, see below), or a pending record exists |
| `AdviceIsSound` | status, providers, verify and fix agree on a sound installation, and some command one of them names leads on from an unsound one; what the security audit passes, the strict guard starts and hosted verification agrees with; who follows the audit gets an installation it passes; the listed dead ends excepted |
| `TraceReportIsTrue` | open families are flagged, and have a card unless rows of as many events took them all; lost traces ranked, the topology whole, although read statement by statement |
| `ProfilesStayWhole` | a profile connected alone keeps port, env file, relay and autostart choice |
| `OrderServesNeeds` | start, stop and restart act on exactly what they must (a cascading restart without a bot of which only profiles run), in an order that respects every need, or refuse |
| `AutostartAnswersTrue` | what `on`, `off` and the audit answer is true of the next login |
| `NewestEntryIsKept` | the newest entry of the CLI survives appends, compactions and kills |

### Bounds

Every bound is a constant of the configuration, guarded in an action. Two invocations
are every pairwise race; in the supervisor the locks make a third wait like the
second, and elsewhere the properties speak of a command that ran alone and of a later
one. Two keys are a bridge consumer and one that is not (its operations skip the
rotation lock). Pids are handed out once each: three allow a process, its replacement
and a racing copy; the telegram run has a fourth for the hand-over. When pids run out
only `SpawnFails` is left, which a real `Popen` can do too. Three values are the old
key, a legacy key that differs, and the candidate. The fault run has one invocation
because a rotation excludes the others through the lock.

| part | bounds |
|------|--------|
| lifecycle | bundle of Spawner then bot, so that a failure at the second finds the first done; `MaxCommit` 2 and `Deepen` 1 reach a pin outside the window; 1 kill, 1 change |
| access level | 3 commands, clock of 2 seconds (an event before, in and after the second of the audit), 1 kill, one profile beside Spawner and bot |
| access guide | 3 commands followed: the property asks for two |
| SSH | 2 targets that may share a host, 2 hosts, 2 keys, 2 changes of key, 2 trusts, 3 adds or removes (`MaxEdits`): enough to add both targets and touch one while something else is in progress |
| smokes | 2 sandbox smokes, 2 machines; 3 mission checks of 3 missions, so that an earlier, an own and a foreign mission meet |
| browser | 2 users, 2 commands, clock of 2 with a time to live of 0 |
| secret store | 2 ids, 2 values, 3 invocations of which 2 at once, 1 kill |
| release gate | 1 day, 1 edit, 2 commits, 1 capture, 1 waiver, 2 trains, `WaiverMaxDays` 1 |
| release truth | 2 modules, 1 change during the release check from every converged or diverged start |
| revoke-all | 2 missions, 2 events, 2 attempts, 1 kill, 1 start of Spawner |
| setup | 4 setups of 4 kinds, 1 kill |
| repair guide | 2 damages, and at most 7 commands followed: enough from any installation, however damaged (`GuideLeadsOut`) |
| security audit | 2 pins, 2 mishaps from a local or hosted setup, at most 8 commands followed: enough from any (`AuditLeadsAndAgrees`); also checked with 3 mishaps (272 000 states) |
| trace health | 2 families, 2 traces, 2 events, group, edge and card limits of 1 so that all are reached (in the code 12, 24 and 6 or 4) |
| profiles | 2 profiles, ports up to 3, 3 commands, 1 kill |
| graph | all graphs of 3 modules with an absent name: the smallest with a cycle beside a path; one of them is the bot |
| autostart | 3 switches, 1 kill, 5 systems, 2 targets |
| logs | 2 loggers, a limit of 3 lines, 4 entries, 1 line of output, 1 kill, 1 redaction |

`MaxLog` has to be at least `MaxOutput + 2`: a compaction window that holds less than
the newest entry and what the process wrote after it would lose it, and the real
limit (10 MiB, an entry at most 64 KiB) is larger by far.

Invocations, pids, values, targets, missions, traces and producers are
interchangeable, and the safety runs use symmetry over them; the fair runs do not.
Deadlock is checked in the runs of the supervisor and of the rotation: an idle
invocation can always begin a command. The other runs say `CHECK_DEADLOCK FALSE`,
because a bounded number of commands, kills or changes is used up and nothing is left
to do; and in `lifecycle` an uninstall that was killed leaves a record that cannot be
loaded, after which every command of the code refuses.

### Fairness

Weak fairness of each invocation's own steps, `WF_vars(CliStep(c))`, and nothing of the
operating system, of other users or of crashes. Each loop of the code has a deadline
(lock waits 30 s, readiness, five seconds after SIGTERM), and the guards contain the
timeout alternatives, so an invocation that is not killed always has a step to take.
Neither a process exiting nor the lock becoming free is assumed. `rotation_fair` has
no faults and one consumer because the temporal check is costly; a fault only leads
to the rollback that a failed start leads to as well. The later modules state no
fairness: their commands are straight-line sequences without a wait for each other.

## Divergences

Three runs end in a violation, each of what the repository says about itself.

### A health failure that is not rolled back (`rotation_health`)

`README.md` line 69 says of a rotation that "A failed health check rolls the
generation and consumer set back." When the consumer that fails its check
was launched by the rotation and its process is still alive, the rollback
terminates it, but the rotating process is its parent and has not waited for it:
it is a zombie, and `os.kill(pid, 0)` succeeds. `stop_live_bridge_consumers`
returns `False` (`managed_secret_runtime.py` 314), the consumers are taken to be
in an uncertain state (565), the old generation is not restored (569) and the
snapshot not restarted (583). `rotation_health` finds it without any fault: the
new key stays promoted and the consumers stopped. The command does report the
failure ("consumer state is uncertain"), and `OneGeneration` holds throughout. The
behaviour is POSIX only.

### A resume that skips a failed step (`lifecycle_resume`)

`docs/design/spark-installer-design-v1.md` line 196 promises that each step is resumable.
`record_install_failure` (`cli.py` 5877) keeps `install_commands` among the completed
steps when an earlier attempt completed them. When a second attempt runs them again and
they fail, a third with `--resume` skips them and records the module as installed.

### A revoke-all that leaves a secret (`revoke_all_secrets`)

`delete_revoke_all_secrets` (`cli.py` 12175) lists an id as deleted whatever
`delete_secret` returned; a failed keychain call makes it return `False`. The command
reports success with the value still fetchable.

### Others, not runs

Met while modelling, each visible in the model as a premise of a property or a named
exception. Line numbers are of `cli.py` unless said otherwise.

*Lifecycle.* A pin further back than the 50 commits `update_module_source` fetches is
checked out with neither the refusal nor the note of 1171, although the help (21425)
and a test promise a refusal of rollbacks. `update --continue` says that modules without
changes are skipped, but stops and rebuilds them. A start between the stop and the
removal of an uninstall leaves a process of a module no record names (20480). A
`post_uninstall` hook runs in the removed clone and ends the command before `setup.json`
is updated. `install` of an existing clone does not look at the pin.
A setup that fails after its modules are recorded, in the extras of the memory sidecar (7987), the
runtime configuration (7988) or the start, leaves them recorded. An uninstall killed while it removes
the clone leaves a record whose module cannot be loaded: every command that loads the installed
modules refuses, uninstall included, and no command leads out.

*Secrets.* A copy left in the other backend after a backend change is never looked for.
On the default home a delete reports failure when one of the two accounts is absent
although the value is gone. Stores of one secret, or of two, at the same time lose one of
them. `spark secrets delete` and setup's `ensure_managed_bridge_api_key` change the
bridge key without the rotation lock.

*Revoke-all.* The verdict leaves out the steps that stop processes, autostart and
Telegram sessions (12407). `capture_revoke_all_step` catches `Exception`, not
`SystemExit`, so a step can end the command before any secret is deleted. An unreadable
mission file counts as empty. A Spawner that was not stopped goes on writing; kinds of
mission events that are not listed are not paused.

*Setup.* `--agent-llm-provider X` alone on a fresh install records the mission role as not
configured, while Spawner's env file gets X: roles are resolved twice, the second time
from the file just saved. A setup that pauses or is killed the first time says that the
existing runtime can keep running although no env file was written. One that stops
before it configures records no bundle, so a resume continues with the default one. A
kill, Ctrl-C or I/O error leaves `setup.json` saved and no pending record. `secret_keys`
keeps names of a stopped setup that were never stored. A rerun without flags keeps the
provider and resets the model and the split of roles. The wait for the first message
can be answered by an old event of the same session code.

*Profiles.* Commands that overlap lose each other's changes of `setup.json` (4965, 5039,
19618). Reconnecting with the same token skips its validation and drops the bot's name.
Spawner's env file has an old relay URL until the next setup.

*Access.* When running services are older than an enable, `next` says `spark restart`, the
guide and the lane say to rerun setup; who follows the guide goes round in circles. An
enable killed before its audit event asks for a restart for good. After a disable the
status says level 4 while services still run with full access. A setup or connect that
overlaps a disable brings the keys back. One active service of the bot stands for all
its profiles, and a record of a dead process counts.

*Sandboxes.* Adds, removes and trusts of SSH targets load all records and save all records without a
lock (`sandbox/ssh.py` 358–374, 393–397, 483–542): of two that overlap the later save takes the
other's change back, so that a record may be lost, or a removed or untrusted one come back. Two SSH targets of one host share a line of `known_hosts`; a trust killed
between its files leaves them at odds. A smoke that times out may leave a directory on
the machine although it reports that cleanup was requested; Modal's `finally` does not
run when the script is killed; a Docker container outlives a timed-out client.

*Browser.* A close that exits nonzero is ignored (6933, 7058): the session stays open behind the
same verdict. A screenshot response that cannot be decoded raises an error nobody catches:
no verdict, and an older "ready" stands. A close that times out replaces the answer.
"ready" survives the removal of the package until its time to live ends; "failed" never
expires. Two probes share a session; two actions of one URL in one second share session,
receipt and picture.

*Mission smoke.* The docstring (17304) speaks of a unique marker, but it is constant per
kind: an earlier completed mission on the board lets later checks pass on a lane that no
longer works. A mission that timed out goes on. Two checks within a second share a
request id.

*Autostart.* On Windows an older Startup script beside a working task is reported stale,
and the repair the report names never removes it; a failed `schtasks` leaves an older
task beside its fallback; a failed deletion of the run key is ignored. On WSL, `off`
answers success when it cannot find the profile. A systemd unit that is there and not
enabled counts as installed. The audit compares command texts verbatim.

*Status, verify, fix.* `telegram_profile_has_startable_token` (3847) looks for a token in the
generated env file, which connect and setup strip, so with profiles only `fix telegram`
notices a bot that does not run. `connect` and `secrets set` never add to `secret_keys`, and
a delete never removes from it, so `fix telegram` can go on reporting a missing token, and
a deleted one leaves verify and status without a repair. A hung Spawner gets no restart
from verify. Verify's repair of an installation with external ingress turns it into
local polling. `spark restart` never starts a profile that is not for autostart.

*Security audit.* A module whose directory has no git passes by the commit on its record,
which a setup restamps without touching the tree, while the strict guard, which hosted
verification requires, refuses to start it. A git index that cannot be read counts as
clean for audit and guard (12822) and as dirty for `update` (1209). A lockfile that does
not match at the pinned commit can only be mended by an edit that the supply-chain check
then rejects. `live restart`, the repair for a lost log, leaves out a bot that is still
on record when ingress became external. A polling conflict at the end of the log of a
profile's bot that is stopped keeps the audit red. `autostart on --now`, a repair too,
starts the modules in the environment of the login service, outside the shell's strict
mode. Hosted verification takes only the two wildcard addresses for public, the local
audit every address that is not loopback.

*System map.* The four cards of open events go to the rows with the most events before it is asked
whether they were resolved (`system_map.py` 4780), so that families that are settled may leave an
open one without a card; the flag of the report is raised all the same. The repair queue keeps one bucket per component and event type, the largest,
so a smaller one that still loses traces can hide. Severity variants of one family are
counted more than once in the number of open ones, and the queue item of open families
counts resolved ones too.

*Release.* The hook hashes the work tree while a push sends commits; the diff of an
existing ref hides a pin changed in between. A capture killed between its file and the
link leaves the older verdict in force. In the R30 check an empty list of families is
taken for a missing one and blocks a clean summary; details called publish blockers are
superseded by merged truth (`r30_merged_source_truth.py` 195); missing manifests let the
patch check pass vacuously; the registry is read three times.

*Module graph.* The help of `spark restart --cascade` (21458) says "Also restart running modules that
depend on the target". `resolve_restart_modules` (18060) takes the names from
`resolve_stop_module_names`, which answers in process keys: for the bot those on record, which are
only `spark-telegram-bot:<profile>` where just profiles run (18026–18034). The filter
`if name in installed_modules` (18063) drops them, so `restart --cascade spawner-ui` stops such a bot
and does not start it. `OrderServesNeeds` names this exception, and
`test_resolve_restart_modules_starts_dependents_stopped_with_dependency` (`tests/test_cli.py` 8673) has
the bot on record under its plain key. A cycle of dependencies makes `stop --cascade` refuse as well.

*Logs.* In-place compaction loses what the process wrote between the read and the
truncation; a kill between the two writes duplicates lines; a redaction replaces the
file without the lock.

## Proofs

The theorems hold for every finite or infinite set of keys, invocations, pids,
plans, values, modules, secrets, profiles, targets, missions and rows (the
access level's profiles are finitely many), and every bound, but that who follows advice is
given enough commands (`MaxRepairs` at least 7, `MaxFollowed` at least 8). They assume only the
named assumptions on constants, which the code justifies: sets of names are nested as the module names are, and what stands for
nothing (`None`, `NoSecret`, `NoHost`, `Unnamed`, ...) is neither a value nor the name of a
backend. TLC evaluates
them on every run. Each inductive invariant was checked by TLC, as an invariant of
the run of its module, before it was proved. Each is proved by one lemma per action.

An induction over the naturals is the search for a least counterexample, by `WFMin` and
`NatLessThanWellFounded` of the library (`LeastIsThere`, `EarliestIsThere`, `NewestIsThere`).
That a recursive function is one (`FollowingIsThere`, `AuditedIsThere`, `PassIsThere`) comes
from its definition as a choice, given a function that meets its equation.

`ProcessSupervisorProofs`. The properties are not inductive: that a start may
drop its record depends on who held which lock since the record was written.
`IInv` adds
- `WorkInv`: a busy command has a current operation;
- `LockInv`: who holds which lock at which step;
- `ReferenceInv`: records and ports name processes launched for their key;
- `StopInv`, `StartInv`: what a stop or start in progress knows, chiefly
  `NoRecordOfLive`: from its check to its save, the holder of the registry lock
  has seen that the record names no live process, and nobody can change that.

`IInvAlways` has one lemma per action. From it: `TypeCorrect`, `NothingForgotten`
(`LiveIsTracked`), `StartUndisturbed` (`StartOwnsBridgeRecord`), `NoSecondCopy`
(`OneLivePerKey`, because the record is a function of the key and the save is in
the critical section of the check), `StopIsEffective` (the action property
`StopEndsProcess`) and `StartsAnswerTruly` (`StartAnswersTruly`), which takes two more
inductions: a port is held only by a process that runs (`PortInv`), and up to its
verification a start's own child is there, if only as a zombie, so that its pid is
nobody else's (`ChildInv`).

`BridgeRotationProofs`. `IInv` is `TypeOK`, `OneGeneration` and, for each
invocation, `CliInv`: what it was asked (`JobOK`), that it holds the lock while it
works (`LockOK`), that a resolved key is still the managed one (`LaunchOK`), that
only consumers still to be stopped serve (`HaltOK`), that nobody serves while the
key or the env files change (`QuietOK`), and that the captured generation can be
put back (`CaptureOK`). Two lemmas carry the case analysis: `HolderStep`, for
the lock's holder, and `OutsiderStep`, for steps without the lock, which are
harmless: they start nothing and leave the secret alone. From it: `TypeCorrect`,
`SameGeneration` (`OneGeneration`), `RunningStaysTracked` (`RunningIsTracked`, by
an induction of its own on top of `IInv`) and `RotationImplements`, the whole refinement
`Spec => ImplementsGeneration`, where each step is a join, a leave, a change of key
with nobody using it, or a stutter. What a rotation reports needs, on top of `IInv`, what
it has achieved at each step: `ProgressInv` says it of one on its way to success
(`ReplacingOK`: which copies are written and removed, which env files are scrubbed, which
consumers are back) and of one that rolls back (`RestoringOK`). `RotationSuccess`
(`SuccessIsComplete`), `RotationLeavesNoCopy` (`NoSupersededCopy`) and `RotationFailure`
(`FailureIsTruthful`) follow.

`ModuleLifecycleProofs`. `IInv` says how far the command in progress has come. `InstallInv`: what
is fetched stays, the modules behind the current one have had their commands run, and until the
last of these has, what is recorded is what was recorded at the beginning. `UpdateInv`: the modules behind the current one are checked
out, built and recorded, and their processes run that checkout; the current one has
done the steps before its own. A process that is started after a pull runs the new
checkout, and one started before is stopped after it, which is why the property
survives starts at any moment. From it: `LifecycleTypeCorrect` (`TypeOK`), `RecordsStayLoadable`,
`EntriesComeAfterCommands` (`EntriesFollowCommands`), `UpdateReplacesCode`, `UpdateCompletes`. `Without` is a set of
possible results, so that nothing recursive is needed.

`LocalStateProofs`. `SecretStaysAsSettled` is about ids nobody is working on, and
the danger is in the copies that other invocations have loaded. `StoreIInv` therefore
has `SettledIsUntouched` (whoever runs works on other ids, and the copies of the
index and of secrets.json it will write back have the settled id as it is),
`LoneInvocation` (an invocation marked alone is the only one) and
`LoneStoreIsOnItsWay` (the slot of a store that runs alone is, step by step, one of
the prefixes that `SecretBackends` names, which `BridgeRotation` relies on). Three lemmas
carry the actions: `BeginSecretStep`, `InvocationGoesOn` and `EndsWithStep`; `SecretsStaySettled`.
The same module proves that the composition adds nothing: an initial state of `MCLocalState`
is one of each part, and a step is a step of one part and leaves the variables of the
others alone, so a behaviour of the composition is one of each part
(`PartsKeepTheirSpecs`). What is proved of a part is therefore so of the run:
`LocalStateTypeCorrect` (`LocalTypeOK`) and `SmokesAnswerTruly` (`SmokesAnswerTrue`).

`OperationsProofs`. For `RevokeAll`, `RevokeIInv` says that an attempt that has not failed
has done its part on every file behind it (`KeysAreReplaced`, `MissionsArePaused`,
`MarkerIsSet`), that Spawner stays down after the stop step (`StoppedStaysStopped`), and
that a verdict is the last thing of an attempt; `SuccessMeansRevoked` follows
(`SuccessHasRevoked`). For `ProcessLog`, `LogIInv` follows an entry through the
steps of its writer (`EntryIsKept`: in the file, in the tail that compaction keeps, and
in the prefix that is left when the file is cut), under the lock that keeps other writers
out; `NewestEntryStays` (`NewestEntryIsKept`). For `Autostart`, `AutostartIInv` says for each
system what a command has written or removed when it comes to each of its steps, and
that a system without a desktop has no desktop entry (`SystemHasNoDesktop`), on which the
removal relies; `AutostartAnswers` (`AutostartAnswersTrue`). For `ModuleGraph`, `GraphIInv`
says that what a closure has seen or still has to see is reached, and closed up to what is
on the stack (`CollectInv`); that the modules in order come after all they need of the
selected ones, while the path of the sort goes from each module to one it needs (`SortOK`), so
that an end of the sort is an order and a module met twice on the path a cycle; and which
loop is about what (`LoopInv`, `RestartInv`). `OrderIsServed` (`OrderServesNeeds`) is of every graph of
any size, the ones with cycles and absent modules included, and says of a cascading restart what the code
does: a bot whose profiles alone run is not among what is started.

`SetupProofs`. `ProfileIInv` adds to `ProfilesStayWhole` that of two commands that overlap
neither is alone and nothing is settled while they run (`AloneIsAlone`), and that the
snapshot a lone command will write back is current (`AloneIsCurrent`);
`SettledProfilesStayWhole`. For `SetupFlow`, `SetupIInv` says what a setup has done at each
step (`StepsDone`), that up to its save the files are as it found them
(`SettledBeforeSave`), and that a setup of a machine that runs can pause only with the
env files of one setup in place (`PausesAreSettled`); `SetupsSettle` (`SettledOrPending`).
The proof found the one command line that is an exception (`SplitsRoles`): it names who
chats or a provider for the agent's roles, no default, and leaves a role to the default.
`resolve_llm_roles` then answers differently before `setup.json` is saved and after, when
the env files are written, so that a role's provider in the env files is not that of
`setup.json`. No document says otherwise; the property says that even then all env files
agree among themselves, and `split` remembers such a setup.

The same module proves the advice. For `RepairGuide`, an invariant of what damages and
commands can make of an installation (`Good`, `Kept`) gives `VerdictsOfTheSurfacesAgree`, and
`GuideLeadsOut` follows what is named, repair by repair: from each installation, each
repair that is still needed is named by the surface or by one it names, does its part and undoes
no other. For `SecurityAudit`, `AuditedIsAdmitted` compares what the audit, the strict guard
and hosted verification look at, and `AuditLeadsAndAgrees` follows the audit as
`GuideLeadsOut` does the guide. `AdviceIsAlwaysSound` (`AdviceIsSound`) is both together. The
composition `MCOperations` adds nothing either (`OperationsKeepTheirSpecs`, as for
`MCLocalState`), and so `OperationsTypeCorrect` (`OperationsTypeOK`) follows from the inductive
invariants of its eleven parts.

`MachineProofs`. `SshIInv` adds to `LoginMeetsTrustedKey` that every key written, or still to be
written by an invocation in progress, was scanned (`ScannedOnly`), and that the
known_hosts line of a settled target is its key, with nobody about to change it
(`SettledLines`, `AloneInv`), whatever is loaded and not yet saved having the settled records as they are (`Spares`); `LoginsMeetTrustedKeys`. For `AccessLevel`, `AccessIInv` says
that what an invocation still has to do is a part of its command in the command's order
(`CallersOK`: what it writes or records it read in the step before), that at most one
runs alone, that a lone switch has still to come to each env file that is not as it is to
leave it (`SwitchIsOnItsWay`), and that after it whoever runs has read what it left
(`AfterDisable`, `AfterEnable`); `SwitchesStick` and `StatusIsRight`. A step over every profile is a
sequence of one step for each, hence the assumption that there are finitely many. For
`BrowserUse`, `BrowserIInv` says that two invocations of one session are not alone
(`AloneInSession`), that a lone probe sees the page it opened and a lone action leaves its
receipt and picture (`ProbeSeesPage`, `ActionLeavesFiles`), and that an open session belongs to an
invocation on its way to close it, or to one that was killed or whose close failed;
`BrowserReportsAreTrue`. For `AccessGuide`, `GuideIInv` says how far a user of Level 5 has come
with each command followed, and which commands cannot undo it; `GuideReachesLevel5`
(`NextLeadsToLevel5`). For `MissionSmoke`, `MissionSmokeIInv` says that the board shows a lone
check no mission of its kind but its own (`AloneOnBoard`); `PreflightsAreTrue`
(`PreflightIsTrue`). For `SandboxSmoke`, `SmokeIInv` relates a client to what it has
elsewhere: backends leave alone what is another's (`BackendOK`), a shell that is still
linked does the client's step (`ShellOK`), and while the client is there its files are on
one machine at most (`FilesOK`); `OkSmokesAreOver` (`OkSmokeIsOver`). The last two are the
conjuncts of `SmokesAnswerTrue`.

`ReleaseProofs`. `GateIInv` types the captures and says that no failed gate drops out of a
capture's table (`NoRowDropped`); `GatePermitsOnlyVerified` (`PermitsOnlyVerified`). The bound of
`WaiverMaxDays` holds although waivers may be rewritten after the capture, because it is
counted from the capture's day. For `ReleaseTruth`, `TruthIInv` says, at each step of the
check, that every source it has read of a module is among those the pin has been seen
with (`SeenArePins`), that a file of the site it has accepted is that of R30 unless it
was rolled back (`AcceptedIsDeployed`), and that nothing has failed in an untouched world
in which everything has converged (`NothingFailsConverged`); `GreenIsTrueOfTheWorld` (`VerdictIsTrue`).
For `TraceHealth`, `TraceIInv` says that later events are younger, and that of a family
nothing was recorded of since the report began, each statement read so far is still so
(`ReadOfFamily`), because what the queries select of a family depends on its own events
alone (`SourcesOfFamily`, `SameSource`); and that the rows the report has listed count no more events
than there are. `OpenFamiliesStayFlagged` and `LostTracesStayRanked` are the
first two conjuncts of `TraceReportIsTrue`. The third, that the topology is whole, needs
`TopologyIInv`: a parent is recorded before its children or lost for good
(`ParentsAreEarlier`), the groups count the rows there were at the begin (`TracedUpTo`), and
the topology is that of the rows up to some moment between begin and now. The code computes the topology of all
traces in one pass over the rows; `PassAgreesWithQueries` says that this is what
separate queries for each trace would give, for any rows.
`ReportComesOutTrue` (`TraceReportIsTrue`).

Model-checked only: `CommandsFinish`, in `ProcessSupervisor` and in `BridgeRotation`. Liveness under
fairness is out of the prover's reach, as is `ENABLED`. The three properties that a run
violates have no theorem, of course.

## What is not modelled

- *Pure functions of strings*: approval policy (`security/approval.py`), the command
  authority classifiers, prompt, URL and provider transport policy. They have no state;
  their decisions are their patterns, which the tests list.
- *Shell*: installer scripts, container images.
- *Reports that only count or print what they read*: support bundle, drift sentinel, the
  capability, memory, voice and authority views of the system map, the specialization loop check, guide and onboarding texts, the provider
  catalogue, parsing and formatting of arguments and of JSON.
- *Windows process control* (`taskkill`, process groups, `msvcrt` locks); `Autostart` does
  have Windows.
- Hosted mode and the refusal of a missing module where they end a command before any
  effect; retries with another interpreter.
- In `ProcessSupervisor`: ports used by programs unknown to Spark, except a reused pid.
- In `BridgeRotation`: reuse of pids (the supervisor has it), a child lost in a crash
  between `Popen` and `save_pids` (`untracked`), a keychain read that fails while a start
  resolves its key, a key taken from the invoker's own environment when nothing is
  managed, env files of modules no longer installed, and the writers of the key that
  take no lock. `OneGeneration` is a statement about starts, stops and rotations only.
- In `ModuleLifecycle`: capability and trust scans before an install, modules that are
  plain directories, two lifecycle commands at once, the modules that `setup.json` names
  (no command of the module reads them).
- In `SetupFlow`: prompts, preflight, the wait for the first message.
- In `RevokeAll`: webhooks at Telegram, the support bundle it writes.
- In `RepairGuide`: repairs that are not a command, the voice check, dependency and
  runtime version hints, `live status` and `doctor`'s wording.
- In `SecurityAudit`: checks of one fact no command of Spark changes (file permissions,
  endpoints, the user, mounts and capabilities of a container), the secret surface
  (`RepairGuide` has it), Python requirements, a tree of the bot that drifts.
- In `TraceHealth`: two events in one second, the row limits of the queries (those of the
  groups and of the cards are there), producers of other repositories, whose items get no
  missing-trace card, joins with the audits of Spawner and Telegram, samples.
- In `ReleaseTruth`: a registry pulled between its reads; `release_branch_published` is
  taken to be false. In `ReleaseGate`: what a single gate of a capture looks at.
- In `Autostart`: the texts of units and scripts (a plain command is assumed), `--now`.
- In `SandboxSmoke` and `SshTargets`: redaction of outputs, argument vectors.
