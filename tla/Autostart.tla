------------------------------ MODULE Autostart ------------------------------
(***************************************************************************)
(* `spark autostart on` and `off` on each operating system: the files and  *)
(* registrations they leave, which of them start Spark at the next login,  *)
(* and what the commands answer.  A helper (systemctl, launchctl,          *)
(* schtasks, reg) may fail at every call, and a command may be killed      *)
(* between two of them, after which either command is run again.           *)
(*                                                                         *)
(* Linux's unit counts for a login only while it is enabled.               *)
(***************************************************************************)
EXTENDS Naturals, Sequences

CONSTANTS
  StartTarget, NoTarget,    \* what `autostart on` is told to start
  StarterTarget,            \* telegram-starter, which it starts by default
  MaxSwitches, MaxSwitchKills   \* bounds

ASSUME AutostartAssumption ==
  NoTarget \notin StartTarget /\ StarterTarget \in StartTarget /\ MaxSwitches \in Nat /\ MaxSwitchKills \in Nat

VARIABLES
  os,         \* the operating system, with systemd's scope
  entry,      \* what each file and registration starts, NoTarget if absent
  unitEnabled,\* whether systemd has the unit enabled
  switching,  \* the command that runs: steps left, failures, target
  answered,   \* what the last command that ended has answered
  switches, switchKills

autostart_vars == <<os, entry, unitEnabled, switching, answered, switches, switchKills>>

System == {"linux_user", "linux_system", "darwin", "win32", "wsl"}
Entry == {"unit", "xdg", "plist", "task", "script", "run_key", "wsl_script"}
NotSwitching == [cmd |-> "none", todo |-> <<>>]
NoAnswer == [cmd |-> "none"]

AutostartInit ==
  /\ os \in System
  /\ entry = [e \in Entry |-> NoTarget] /\ unitEnabled = FALSE
  /\ switching = NotSwitching /\ answered = NoAnswer /\ switches = 0 /\ switchKills = 0

(* The steps of cmd_autostart_install: <<what happens, to which entry>>.   *)
(* "write" cannot fail short of an exception, "must" fails the command,    *)
(* and schtasks failing brings in the Windows fallback.                    *)
InstallSteps ==
  CASE os = "linux_user"   -> << <<"write", "unit">>, <<"write", "xdg">>, <<"must", "reload">>, <<"must", "enable">> >>
    [] os = "linux_system" -> << <<"write", "unit">>, <<"must", "reload">>, <<"must", "enable">> >>
    [] os = "darwin"       -> << <<"write", "plist">>, <<"must", "bootstrap">>, <<"must", "enable_label">> >>
    [] os = "win32"        -> << <<"register", "task">> >>
    [] os = "wsl"          -> << <<"write_or_fail", "wsl_script">> >>

FallbackSteps == << <<"write", "script">>, <<"try", "run_key">> >>

(* The steps of cmd_autostart_uninstall.                                   *)
UninstallSteps_UnitOnly ==
  << <<"must", "disable">>, <<"remove", "unit">>, <<"may", "reload">> >>

UninstallSteps ==
  CASE os \in {"linux_user", "linux_system"} ->
         << <<"must", "disable">>, <<"remove", "unit">>, <<"remove", "xdg">>, <<"may", "reload">> >>
    [] os = "darwin" -> << <<"remove", "plist">> >>
    [] os = "win32"  -> << <<"unregister", "task">>, <<"remove", "script">>, <<"drop", "run_key">> >>
    [] os = "wsl"    -> << <<"remove_if_found", "wsl_script">> >>

Switch(cmd, target, steps) ==
  /\ switching = NotSwitching /\ switches < MaxSwitches
  /\ switches' = switches + 1
  /\ switching' = [cmd |-> cmd, target |-> target, todo |-> steps, failed |-> FALSE, lost |-> FALSE]
  /\ answered' = NoAnswer
  /\ UNCHANGED <<os, entry, unitEnabled, switchKills>>

TurnOn == \E t \in StartTarget : Switch("on", t, InstallSteps)
TurnOff == Switch("off", NoTarget, UninstallSteps)

-----------------------------------------------------------------------------

Due(kinds) == switching.todo # <<>> /\ Head(switching.todo)[1] \in kinds
About == Head(switching.todo)[2]
Set(e, target) == entry' = [entry EXCEPT ![e] = target]
Advance(failed, more) ==
  /\ switching' = [switching EXCEPT !.todo = more \o Tail(@), !.failed = @ \/ failed]
  /\ UNCHANGED <<os, answered, switches, switchKills>>

WriteEntry ==
  /\ Due({"write"})
  /\ Set(About, switching.target) /\ Advance(FALSE, <<>>)
  /\ UNCHANGED unitEnabled

RemoveEntry ==
  /\ Due({"remove"})
  /\ Set(About, NoTarget) /\ Advance(FALSE, <<>>)
  /\ UNCHANGED unitEnabled

(* systemctl and launchctl: a failure is counted and the command goes on.  *)
CallHelper ==
  /\ Due({"must", "may"})
  /\ \E works \in BOOLEAN :
       /\ unitEnabled' = CASE works /\ About = "enable" -> TRUE
                           [] works /\ About = "disable" -> FALSE
                           [] OTHER -> unitEnabled
       /\ Advance(~works /\ Due({"must"}), <<>>)
  /\ UNCHANGED entry

(* schtasks; where it fails to create a task the older one stays.          *)
CallScheduler ==
  /\ Due({"register", "unregister"})
  /\ \E works \in BOOLEAN :
       IF works THEN Set("task", switching.target) /\ Advance(FALSE, <<>>)
       ELSE /\ UNCHANGED entry
            /\ IF Due({"register"}) THEN Advance(FALSE, FallbackSteps) ELSE Advance(TRUE, <<>>)
  /\ UNCHANGED unitEnabled

(* reg: `on` goes on without the run key, `off` ignores the answer.        *)
CallReg ==
  /\ Due({"try", "drop"})
  /\ \E works \in BOOLEAN :
       /\ IF works THEN Set("run_key", switching.target) ELSE UNCHANGED entry
       /\ Advance(FALSE, <<>>)
  /\ UNCHANGED unitEnabled

(* WSL: where the Windows profile cannot be found there is nothing to do;  *)
(* `on` fails then and `off` does not.                                     *)
ReachWindows ==
  /\ Due({"write_or_fail", "remove_if_found"})
  /\ \E found \in BOOLEAN :
       /\ IF found THEN Set("wsl_script", switching.target) ELSE UNCHANGED entry
       /\ switching' = [switching EXCEPT !.todo = Tail(@), !.lost = ~found,
                          !.failed = ~found /\ Due({"write_or_fail"})]
  /\ UNCHANGED <<os, unitEnabled, answered, switches, switchKills>>

EndSwitch ==
  /\ switching # NotSwitching /\ switching.todo = <<>>
  /\ answered' = [cmd |-> switching.cmd, ok |-> ~switching.failed, target |-> switching.target,
                  lost |-> switching.lost]
  /\ switching' = NotSwitching
  /\ UNCHANGED <<os, entry, unitEnabled, switches, switchKills>>

KillSwitch ==
  /\ switching # NotSwitching /\ switchKills < MaxSwitchKills
  /\ switching' = NotSwitching /\ switchKills' = switchKills + 1
  /\ UNCHANGED <<os, entry, unitEnabled, answered, switches>>

AutostartNext ==
  \/ TurnOn \/ TurnOff
  \/ WriteEntry \/ RemoveEntry \/ CallHelper \/ CallScheduler \/ CallReg \/ ReachWindows
  \/ EndSwitch \/ KillSwitch

AutostartSpec == AutostartInit /\ [][AutostartNext]_autostart_vars

-----------------------------------------------------------------------------

AutostartTypeOK ==
  /\ os \in System /\ entry \in [Entry -> StartTarget \cup {NoTarget}] /\ unitEnabled \in BOOLEAN

(* What `autostart status` and `fix autostart` look at: the files, and by  *)
(* a helper, that may not answer, the task, the run key and where Windows  *)
(* has the script.                                                         *)
Hooks ==
  CASE os \in {"linux_user", "linux_system"} -> {"unit", "xdg"}
    [] os = "darwin" -> {"plist"}
    [] os = "win32"  -> {"task", "script", "run_key"}
    [] os = "wsl"    -> {"wsl_script"}
Queried == {"task", "run_key"}
Found(reached) == {e \in Hooks : entry[e] # NoTarget /\ (e \in Queried \cup {"wsl_script"} => reached)}

(* Of the files, not of what a helper found: that they hold the command of *)
(* the starter, in a directory that is private.                            *)
StaleHooks(reached, private) ==
  {e \in Found(reached) \ Queried : entry[e] # StarterTarget \/ ~private}
HookIsCurrent(reached, private) == Found(reached) # {} /\ StaleHooks(reached, private) = {}

(* What the next login starts; the run key only names the script.          *)
AtLogin ==
  {entry[e] : e \in {x \in Entry \ {"run_key"} : x = "unit" => unitEnabled}} \ {NoTarget}

(* Whatever earlier commands left, failed or killed half-way: an `on` that *)
(* answers success has the next login start its target - and on systems    *)
(* other than Windows nothing else; an `off` that does has it start        *)
(* nothing, unless it could not find the Windows profile from WSL.         *)
AnswersAreTrue ==
  answered.cmd # "none" /\ answered.ok =>
    IF answered.cmd = "on"
      THEN answered.target \in AtLogin /\ (os # "win32" => AtLogin = {answered.target})
      ELSE answered.lost \/ AtLogin = {}

(* The repair `fix autostart` names does repair: after an `on` of the      *)
(* starter that answers success the audit finds it current - unless on     *)
(* Windows an older Startup script stayed beside the task - and after one  *)
(* of another target it does not, where it reads a file.  After an `off`   *)
(* nothing is found but the run key.                                       *)
AuditAgrees ==
  answered.cmd # "none" /\ answered.ok =>
    IF answered.cmd = "on"
      THEN /\ Found(TRUE) # {}
           /\ os # "win32" \/ entry["script"] \in {NoTarget, StarterTarget} =>
                (answered.target = StarterTarget => HookIsCurrent(TRUE, TRUE))
           /\ os # "win32" /\ answered.target # StarterTarget => ~HookIsCurrent(TRUE, TRUE)
      ELSE answered.lost \/ Found(TRUE) \subseteq {"run_key"}

AutostartAnswersTrue == AnswersAreTrue /\ AuditAgrees

-----------------------------------------------------------------------------
(* The inductive invariant behind the theorem: what a command has already  *)
(* written or removed at each of its steps.                                *)
To(todo) == switching.todo = todo

SystemHasNoDesktop == os = "linux_system" => entry["xdg"] = NoTarget
LinuxWritten(target) == entry["unit"] = target /\ (os = "linux_user" => entry["xdg"] = target)
StartupGone == (switching.failed \/ entry["task"] = NoTarget) /\ entry["script"] = NoTarget

OnLinux(target) ==
  /\ os \in {"linux_user", "linux_system"}
  /\ \/ To(InstallSteps)
     \/ /\ os = "linux_user" /\ entry["unit"] = target
        /\ To(<< <<"write", "xdg">>, <<"must", "reload">>, <<"must", "enable">> >>)
     \/ /\ LinuxWritten(target)
        /\ \/ To(<< <<"must", "reload">>, <<"must", "enable">> >>)
           \/ To(<< <<"must", "enable">> >>)
           \/ To(<<>>) /\ (switching.failed \/ unitEnabled)

OnDarwin(target) ==
  /\ os = "darwin"
  /\ \/ To(InstallSteps)
     \/ /\ entry["plist"] = target
        /\ \/ To(<< <<"must", "bootstrap">>, <<"must", "enable_label">> >>)
           \/ To(<< <<"must", "enable_label">> >>)
           \/ To(<<>>)

OnWindows(target) ==
  /\ os = "win32"
  /\ \/ To(InstallSteps) \/ To(FallbackSteps)
     \/ entry["script"] = target /\ To(<< <<"try", "run_key">> >>)
     \/ target \in {entry["task"], entry["script"]} /\ To(<<>>)

OnWsl(target) ==
  /\ os = "wsl"
  /\ \/ To(InstallSteps)
     \/ To(<<>>) /\ (switching.failed \/ entry["wsl_script"] = target)

OffLinux ==
  /\ os \in {"linux_user", "linux_system"}
  /\ \/ To(UninstallSteps)
     \/ To(<< <<"remove", "unit">>, <<"remove", "xdg">>, <<"may", "reload">> >>)
     \/ entry["unit"] = NoTarget /\ To(<< <<"remove", "xdg">>, <<"may", "reload">> >>)
     \/ /\ entry["unit"] = NoTarget /\ entry["xdg"] = NoTarget
        /\ To(<< <<"may", "reload">> >>) \/ To(<<>>)

OffDarwin ==
  os = "darwin" /\ (To(UninstallSteps) \/ (To(<<>>) /\ entry["plist"] = NoTarget))

OffWindows ==
  /\ os = "win32"
  /\ \/ To(UninstallSteps)
     \/ /\ switching.failed \/ entry["task"] = NoTarget
        /\ To(<< <<"remove", "script">>, <<"drop", "run_key">> >>)
     \/ StartupGone /\ (To(<< <<"drop", "run_key">> >>) \/ To(<<>>))

OffWsl ==
  /\ os = "wsl"
  /\ \/ To(UninstallSteps)
     \/ To(<<>>) /\ (switching.lost \/ entry["wsl_script"] = NoTarget)

SwitchRecord ==
  /\ switching = [cmd |-> switching.cmd, target |-> switching.target, todo |-> switching.todo,
                  failed |-> switching.failed, lost |-> switching.lost]
  /\ switching.failed \in BOOLEAN /\ switching.lost \in BOOLEAN

SwitchOnItsWay ==
  LET target == switching.target IN
  /\ answered = NoAnswer /\ SwitchRecord
  /\ \/ /\ switching.cmd = "on" /\ target \in StartTarget
        /\ OnLinux(target) \/ OnDarwin(target) \/ OnWindows(target) \/ OnWsl(target)
     \/ /\ switching.cmd = "off" /\ target = NoTarget
        /\ OffLinux \/ OffDarwin \/ OffWindows \/ OffWsl

AutostartIInv ==
  /\ AutostartTypeOK /\ AutostartAnswersTrue /\ SystemHasNoDesktop
  /\ \A e \in Entry \ Hooks : entry[e] = NoTarget
  /\ switching # NotSwitching => SwitchOnItsWay

=============================================================================
