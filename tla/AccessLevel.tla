----------------------------- MODULE AccessLevel -----------------------------
(***************************************************************************)
(* Level 5 (whole-computer access): the guardrail keys LEVEL5_ENV in the   *)
(* generated env files of Spawner, the Telegram bot and its profiles, the  *)
(* audit log of enables and disables, and the services, which read the env *)
(* files when they start.  `spark access setup --level 5` and              *)
(* `disable-level5` write the files one by one and the audit event last;   *)
(* `spark setup` and `spark telegram connect` rewrite the same files, with *)
(* no lock between any of them; each can be killed between two files.      *)
(*                                                                         *)
(* A command is the sequence of its file operations; a level read earlier  *)
(* and written later is in reg.  The audit log has whole seconds.          *)
(***************************************************************************)
EXTENDS Naturals, Sequences, SequencesExt

CONSTANTS
  Profile,                             \* named Telegram profiles
  Caller,                              \* invocations of the CLI
  MaxSeconds, MaxCommands, MaxDeaths   \* bounds

ASSUME AccessAssumption ==
  /\ IsFiniteSet(Profile) /\ {"spawner-ui", "spark-telegram-bot"} \cap Profile = {}
  /\ MaxSeconds \in Nat /\ MaxCommands \in Nat /\ MaxDeaths \in Nat

VARIABLES
  level5,    \* env file -> "absent", or whether it has the keys: "on", "off"
  profiles,  \* setup.json: the profiles it names
  audit,     \* second of the last configure and disable event, 0 if none
  service,   \* running services: the level they read, when they were recorded
  caller,    \* what each invocation still has to do
  second,
  intent,    \* history: what the last enable or disable that ran alone said
  commands, deaths

access_vars == <<level5, profiles, audit, service, caller, second, intent, commands, deaths>>

Spawner == "spawner-ui"
Bot == "spark-telegram-bot"
EnvFile == {Spawner, Bot} \cup Profile
BotService == {Bot} \cup Profile
NotRunning == [level |-> "none", at |-> 0, alone |-> TRUE]
NoCommand == [cmd |-> "none", todo |-> <<>>, reg |-> "off", alone |-> TRUE]

Keys(f) == IF level5[f] = "on" THEN "on" ELSE "off"
Existing == {p \in Profile : level5[p] # "absent"}

(* _latest_level5_configure_timestamp: a disable in the same second wins.  *)
ConfiguredByAudit == audit.configured # 0 /\ audit.disabled < audit.configured

AccessInit ==
  /\ level5 \in {[f \in EnvFile |-> "absent"],
                 [f \in EnvFile |-> IF f \in Profile THEN "absent" ELSE "off"]}
  /\ profiles = {} /\ audit = [configured |-> 0, disabled |-> 0]
  /\ service = [s \in EnvFile |-> NotRunning]
  /\ caller = [c \in Caller |-> NoCommand]
  /\ second = 1 /\ intent = "unsure" /\ commands = 0 /\ deaths = 0

-----------------------------------------------------------------------------
(* The commands as sequences of steps <<operation, file>>.                 *)

(* persist_level5_guardrails, disable_level5_guardrails                    *)
EnableSteps == << <<"set", Spawner>>, <<"each", "set">>, <<"audit", "configured">> >>
DisableSteps_NoProfiles ==
  << <<"clear", Spawner>>, <<"clear", Bot>>, <<"audit", "disabled">> >>

DisableSteps == << <<"clear", Spawner>>, <<"each", "clear">>, <<"audit", "disabled">> >>

(* write_setup_runtime_config: each file of the bundle, then the profiles. *)
SetupSteps == << <<"preserve", Spawner>>, <<"write", Spawner>>,
                 <<"preserve", Bot>>, <<"write", Bot>>, <<"refresh", Bot>> >>

(* configure_telegram_profile: the profile is a copy of the bot's env; the *)
(* relay URL is added to Spawner's env; setup.json comes last.             *)
ConnectSteps(p) == << <<"read", Bot>>, <<"write", p>>,
                      <<"read", Spawner>>, <<"write", Spawner>>, <<"name", p>> >>

(* module_runtime_env: a profile's env lies over the bot's.                *)
StartSteps(s) ==
  IF s \in Profile THEN << <<"read", Bot>>, <<"overlay", s>>, <<"record", s>> >>
                   ELSE << <<"read", s>>, <<"record", s>> >>

Begin(c, cmd, steps) ==
  /\ caller[c].cmd = "none" /\ commands < MaxCommands
  /\ LET others == {d \in Caller \ {c} : caller[d].cmd # "none"}
     IN caller' = [d \in Caller |->
          IF d = c THEN [NoCommand EXCEPT !.cmd = cmd, !.todo = steps, !.alone = (others = {})]
          ELSE IF d \in others THEN [caller[d] EXCEPT !.alone = FALSE] ELSE caller[d]]
  /\ commands' = commands + 1
  /\ intent' = IF cmd \in {"enable", "disable"} THEN "unsure" ELSE intent
  /\ UNCHANGED <<level5, profiles, audit, service, second, deaths>>

Enable(c) == Begin(c, "enable", EnableSteps)
Disable(c) == Begin(c, "disable", DisableSteps)
Setup(c) == Begin(c, "setup", SetupSteps)
Connect(c) == \E p \in Profile : Begin(c, "connect", ConnectSteps(p))
StartService(c) ==
  \E s \in EnvFile : /\ service[s] = NotRunning
                     /\ s \in Profile => s \in profiles
                     /\ level5[s] # "absent"
                     /\ Begin(c, "start", StartSteps(s))

-----------------------------------------------------------------------------
(* One step of a command.                                                  *)

Doing(c, operation) == caller[c].todo # <<>> /\ Head(caller[c].todo)[1] = operation
Operand(c) == Head(caller[c].todo)[2]

(* The next steps of c, with what it read; a command with none is done.    *)
Continue(c, todo, reg) ==
  caller' = [caller EXCEPT ![c] =
    IF todo = <<>> THEN NoCommand ELSE [@ EXCEPT !.todo = todo, !.reg = reg]]
GoOnWith(c, reg) == Continue(c, Tail(caller[c].todo), reg)
StepDone(c) == GoOnWith(c, caller[c].reg)

WriteLevel(f, value) == level5' = [level5 EXCEPT ![f] = value]

SetKeys(c) ==
  /\ Doing(c, "set")
  /\ WriteLevel(Operand(c), "on") /\ StepDone(c)
  /\ UNCHANGED <<profiles, audit, service, second, intent, commands, deaths>>

(* _remove_env_keys leaves a missing file missing.                         *)
ClearKeys(c) ==
  /\ Doing(c, "clear")
  /\ level5' = [level5 EXCEPT ![Operand(c)] = IF @ = "absent" THEN @ ELSE "off"]
  /\ StepDone(c)
  /\ UNCHANGED <<profiles, audit, service, second, intent, commands, deaths>>

(* level5_telegram_env_paths: the profile files that exist at this moment. *)
EachTelegramFile(c) ==
  /\ Doing(c, "each")
  /\ LET files == <<Bot>> \o SetToSeq(Existing)
     IN Continue(c, [i \in DOMAIN files |-> <<Operand(c), files[i]>>] \o Tail(caller[c].todo), caller[c].reg)
  /\ UNCHANGED <<level5, profiles, audit, service, second, intent, commands, deaths>>

(* write_audit_event, and the command ends.                                *)
WriteAudit(c) ==
  /\ Doing(c, "audit")
  /\ audit' = [audit EXCEPT ![Operand(c)] = second]
  /\ intent' = IF caller[c].alone THEN caller[c].cmd ELSE intent
  /\ StepDone(c)
  /\ UNCHANGED <<level5, profiles, service, second, commands, deaths>>

(* should_preserve_level5_guardrails                                       *)
Preserves(f) == level5[f] = "on" \/ ConfiguredByAudit

PreserveKeys(c) ==
  /\ Doing(c, "preserve")
  /\ GoOnWith(c, IF Preserves(Operand(c)) THEN "on" ELSE "off")
  /\ UNCHANGED <<level5, profiles, audit, service, second, intent, commands, deaths>>

(* refresh_telegram_profile_envs                                           *)
RefreshProfiles(c) ==
  /\ Doing(c, "refresh")
  /\ LET files == SetToSeq(profiles)
     IN Continue(c, [i \in DOMAIN files |-> <<"write", files[i]>>], Keys(Bot))
  /\ UNCHANGED <<level5, profiles, audit, service, second, intent, commands, deaths>>

ReadKeys(c) ==
  /\ Doing(c, "read")
  /\ GoOnWith(c, Keys(Operand(c)))
  /\ UNCHANGED <<level5, profiles, audit, service, second, intent, commands, deaths>>

OverlayKeys(c) ==
  /\ Doing(c, "overlay")
  /\ GoOnWith(c, IF Keys(Operand(c)) = "on" THEN "on" ELSE caller[c].reg)
  /\ UNCHANGED <<level5, profiles, audit, service, second, intent, commands, deaths>>

WriteKeys(c) ==
  /\ Doing(c, "write")
  /\ WriteLevel(Operand(c), caller[c].reg) /\ StepDone(c)
  /\ UNCHANGED <<profiles, audit, service, second, intent, commands, deaths>>

NameProfile(c) ==
  /\ Doing(c, "name")
  /\ profiles' = profiles \cup {Operand(c)} /\ StepDone(c)
  /\ UNCHANGED <<level5, audit, service, second, intent, commands, deaths>>

(* pids.json gets the record, with the time, once the process is ready.    *)
RecordService(c) ==
  /\ Doing(c, "record")
  /\ service' = [service EXCEPT ![Operand(c)] =
       [level |-> caller[c].reg, at |-> second, alone |-> caller[c].alone]]
  /\ StepDone(c)
  /\ UNCHANGED <<level5, profiles, audit, second, intent, commands, deaths>>

StopService(s) ==
  /\ service[s] # NotRunning
  /\ service' = [service EXCEPT ![s] = NotRunning]
  /\ UNCHANGED <<level5, profiles, audit, caller, second, intent, commands, deaths>>

Die(c) ==
  /\ caller[c].cmd # "none" /\ deaths < MaxDeaths
  /\ caller' = [caller EXCEPT ![c] = NoCommand]
  /\ deaths' = deaths + 1
  /\ UNCHANGED <<level5, profiles, audit, service, second, intent, commands>>

ASecond ==
  /\ second < MaxSeconds
  /\ second' = second + 1
  /\ UNCHANGED <<level5, profiles, audit, service, caller, intent, commands, deaths>>

AccessNext ==
  \/ \E c \in Caller :
       \/ Enable(c) \/ Disable(c) \/ Setup(c) \/ Connect(c) \/ StartService(c)
       \/ SetKeys(c) \/ ClearKeys(c) \/ EachTelegramFile(c) \/ WriteAudit(c)
       \/ PreserveKeys(c) \/ RefreshProfiles(c) \/ ReadKeys(c) \/ OverlayKeys(c)
       \/ WriteKeys(c) \/ NameProfile(c) \/ RecordService(c) \/ Die(c)
  \/ \E s \in EnvFile : StopService(s)
  \/ ASecond

AccessSpec == AccessInit /\ [][AccessNext]_access_vars

-----------------------------------------------------------------------------
(* What `spark access status --level 5` reports.                           *)

Configured == \A f \in EnvFile : IF f \in Profile THEN level5[f] # "off" ELSE level5[f] = "on"

Counted_Any(s) == service[s] # NotRunning
Counted(s) == service[s] # NotRunning /\ service[s].at >= audit.configured

(* level5_service_guardrail_state: any Telegram service stands for all.    *)
ServicesActive ==
  /\ Configured /\ ConfiguredByAudit
  /\ Counted(Spawner) /\ \E s \in BotService : Counted(s)

-----------------------------------------------------------------------------
(* What should hold.                                                       *)

AccessTypeOK ==
  /\ level5 \in [EnvFile -> {"absent", "on", "off"}]
  /\ profiles \subseteq Profile
  /\ audit \in [configured : 0..second, disabled : 0..second]
  /\ service \in [EnvFile -> [level : {"none", "on", "off"}, at : 0..second, alone : BOOLEAN]]
  /\ intent \in {"unsure", "enable", "disable"}

(* Once a disable has run to its end with no other command beside it, no   *)
(* later setup or connect brings the keys back to any file: only an enable *)
(* does (should_preserve_level5_guardrails, refresh_telegram_profile_envs).*)
(* Once an enable has, every env file there is keeps the keys through      *)
(* setups and new profiles, killed ones too, until a disable begins.       *)
SwitchSticks ==
  /\ intent = "disable" => ~ConfiguredByAudit /\ \A f \in EnvFile : level5[f] # "on"
  /\ intent = "enable" => Configured

(* After such an enable the status is right about services that started    *)
(* with no other command beside them and not in the second of the enable:  *)
(* those it counts run with the keys, and when each was started since, it  *)
(* says full access is active.                                             *)
StatusMatchesServices ==
  intent = "enable" /\ audit.disabled < audit.configured =>
    /\ ServicesActive => \A s \in EnvFile :
         Counted(s) /\ service[s].alone /\ service[s].at # audit.configured => service[s].level = "on"
    /\ (\A s \in EnvFile : s \notin Profile => service[s].at > audit.configured) => ServicesActive

-----------------------------------------------------------------------------
(* What the steps preserve, and what both properties follow from.          *)

StepsOf(cmd) ==
  CASE cmd = "enable"  -> ({"set"} \X EnvFile) \cup {<<"each", "set">>, <<"audit", "configured">>}
    [] cmd = "disable" -> ({"clear"} \X EnvFile) \cup {<<"each", "clear">>, <<"audit", "disabled">>}
    [] cmd = "setup"   -> ({"preserve"} \X {Spawner, Bot}) \cup ({"write", "refresh"} \X EnvFile)
    [] cmd = "connect" -> ({"read"} \X {Spawner, Bot}) \cup ({"write"} \X EnvFile) \cup ({"name"} \X Profile)
    [] cmd = "start"   -> ({"read"} \X {Spawner, Bot}) \cup ({"overlay", "record"} \X EnvFile)
    [] OTHER           -> {}

(* What is written or recorded was read in the step before, or written in  *)
(* it too; nothing follows an audit event.                                 *)
UsesLevel == {"write", "overlay", "record"}
InOrder(todo) ==
  \A i \in 2..Len(todo) :
    /\ todo[i - 1][1] # "audit"
    /\ todo[i][1] \in UsesLevel => todo[i - 1][1] \in {"preserve", "read", "write", "overlay"}

Underway(c) == caller[c].cmd # "none"
CallersOK ==
  /\ DOMAIN caller = Caller
  /\ \A c \in Caller :
       \/ caller[c] = NoCommand
       \/ \E cmd \in {"enable", "disable", "setup", "connect", "start"} :
            /\ caller[c] \in [cmd : {cmd}, todo : Seq(StepsOf(cmd)) \ {<<>>}, reg : {"on", "off"}, alone : BOOLEAN]
            /\ InOrder(caller[c].todo)

AloneIsAlone == \A c, d \in Caller : Underway(c) /\ Underway(d) /\ c # d => ~caller[c].alone

(* A switch that runs alone has still to come to each file that is not as  *)
(* it is to leave it.                                                      *)
StillDue(todo, operation, f) ==
  \E i \in DOMAIN todo : todo[i] = <<operation, f>> \/ (f # Spawner /\ todo[i] = <<"each", operation>>)
SwitchIsOnItsWay ==
  \A c \in Caller : caller[c].alone =>
    /\ caller[c].cmd = "disable" =>
         \A f \in EnvFile : level5[f] = "on" => StillDue(caller[c].todo, "clear", f)
    /\ caller[c].cmd = "enable" =>
         \A f \in EnvFile : (IF f \in Profile THEN level5[f] = "off" ELSE level5[f] # "on") =>
            StillDue(caller[c].todo, "set", f)

(* After a switch that ran alone, whoever runs has read what it left.      *)
AfterDisable ==
  intent = "disable" =>
    /\ ~ConfiguredByAudit /\ \A f \in EnvFile : level5[f] # "on"
    /\ \A c \in Caller : caller[c].reg = "off"
AfterEnable ==
  intent = "enable" =>
    /\ Configured
    /\ \A c \in Caller : caller[c].todo # <<>> /\ Head(caller[c].todo)[1] \in UsesLevel => caller[c].reg = "on"
    /\ \A s \in EnvFile : service[s].at > audit.configured => service[s].level = "on"

AccessIInv ==
  /\ AccessTypeOK /\ second \in Nat
  /\ CallersOK /\ AloneIsAlone /\ SwitchIsOnItsWay
  /\ intent # "unsure" => \A c \in Caller : caller[c].cmd \notin {"enable", "disable"}
  /\ AfterDisable /\ AfterEnable

=============================================================================
