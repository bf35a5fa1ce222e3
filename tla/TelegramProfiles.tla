-------------------------- MODULE TelegramProfiles --------------------------
(***************************************************************************)
(* Named Telegram profiles: setup.json says which there are, their relay   *)
(* port, whether they start at login and the bot they belong to; each has  *)
(* a generated env file with its port, and Spawner's env file lists the    *)
(* ports it relays to.  `spark telegram connect`, `spark autostart         *)
(* profile` and `spark setup` load setup.json, and much later replace it   *)
(* as a whole, with no lock; each may be killed between two files.         *)
(*                                                                         *)
(* Ports count from the first one a profile gets, 8789; 0 is none, and in  *)
(* Spawner's list the relay of the bot without profiles (8788).            *)
(***************************************************************************)
EXTENDS Naturals

CONSTANTS
  NamedProfile, ProfileCaller,
  MaxPort, MaxProfileCommands, MaxProfileKills   \* bounds

ASSUME ProfileAssumption == MaxPort \in Nat /\ MaxProfileCommands \in Nat /\ MaxProfileKills \in Nat

VARIABLES
  setupProfiles,  \* setup.json: port and autostart of each profile
  profilePort,    \* TELEGRAM_RELAY_PORT in each profile's env file
  relayPorts,     \* MISSION_CONTROL_WEBHOOK_URLS in Spawner's env file
  editing,        \* what each running command has loaded and where it is
  settledProfiles,\* history: profiles whose last connect ran alone, and since
                  \* then no two commands overlapped
  autoPorted,     \* history: of those, the ones that got the next free port
  choice,         \* history: the last autostart choice made for each of those
  profileCommands, profileKills

profile_vars == <<setupProfiles, profilePort, relayPorts, editing, settledProfiles, autoPorted,
                  choice, profileCommands, profileKills>>

profile_files == <<setupProfiles, profilePort, relayPorts>>
profile_history == <<settledProfiles, autoPorted, choice>>

Port == 1..MaxPort
NotConnected == [port |-> 0, auto |-> TRUE]
Idling == [at |-> "idle"]
Connected(setup) == {p \in NamedProfile : setup[p].port # 0}

ProfileInit ==
  /\ setupProfiles = [p \in NamedProfile |-> NotConnected]
  /\ profilePort = [p \in NamedProfile |-> 0]
  /\ relayPorts = {0}
  /\ editing = [c \in ProfileCaller |-> Idling]
  /\ settledProfiles = {} /\ autoPorted = {} /\ choice = [p \in NamedProfile |-> TRUE]
  /\ profileCommands = 0 /\ profileKills = 0

-----------------------------------------------------------------------------

Editors == {c \in ProfileCaller : editing[c] # Idling}

(* A command begins and loads setup.json; overlapping another, it settles  *)
(* nothing and neither does the other.                                     *)
BeginEdit(c, edit, touched) ==
  /\ editing[c] = Idling /\ profileCommands < MaxProfileCommands
  /\ profileCommands' = profileCommands + 1
  /\ editing' = [d \in ProfileCaller |->
       IF d = c THEN edit
       ELSE IF d \in Editors THEN [editing[d] EXCEPT !.alone = FALSE] ELSE editing[d]]
  /\ settledProfiles' = IF Editors = {} THEN settledProfiles \ touched ELSE {}
  /\ UNCHANGED <<profile_files, autoPorted, choice, profileKills>>

OnTo(c, step) == editing' = [editing EXCEPT ![c].at = step]
Done(c) == editing' = [editing EXCEPT ![c] = Idling]

(* next_telegram_profile_relay_port: a port the profile itself had is      *)
(* taken too.                                                              *)
NextPort(setup) ==
  LET free == Port \ {setup[p].port : p \in NamedProfile}
  IN {n \in free : \A m \in free : n <= m}

(* configure_telegram_profile, with --telegram-relay-port or without.      *)
BeginConnect(c, p) ==
  \E next \in BOOLEAN : \E port \in IF next THEN NextPort(setupProfiles) ELSE Port :
    BeginEdit(c, [at |-> "env", profile |-> p, port |-> port, next |-> next, loaded |-> {},
                  snapshot |-> setupProfiles, alone |-> Editors = {}], {p})

WriteProfileEnv(c) ==
  LET e == editing[c] IN
  /\ e.at = "env"
  /\ profilePort' = [profilePort EXCEPT ![e.profile] = e.port]
  /\ OnTo(c, "readUrls")
  /\ UNCHANGED <<setupProfiles, relayPorts, profile_history, profileCommands, profileKills>>

(* append_spawner_webhook_url reads the file and writes it.                *)
ReadRelayUrls(c) ==
  /\ editing[c].at = "readUrls"
  /\ editing' = [editing EXCEPT ![c].at = "writeUrls", ![c].loaded = relayPorts]
  /\ UNCHANGED <<profile_files, profile_history, profileCommands, profileKills>>

WriteRelayUrls(c) ==
  LET e == editing[c] IN
  /\ e.at = "writeUrls"
  /\ relayPorts' = e.loaded \cup {e.port}
  /\ OnTo(c, "saveConnected")
  /\ UNCHANGED <<setupProfiles, profilePort, profile_history, profileCommands, profileKills>>

(* --autostart, --no-autostart, or what the loaded record said.            *)
SaveConnected(c) ==
  LET e == editing[c] IN
  /\ e.at = "saveConnected"
  /\ \E auto \in {e.snapshot[e.profile].auto} \cup BOOLEAN :
       /\ setupProfiles' = [e.snapshot EXCEPT ![e.profile] = [port |-> e.port, auto |-> auto]]
       /\ IF e.alone
            THEN /\ settledProfiles' = settledProfiles \cup {e.profile}
                 /\ autoPorted' = IF e.next THEN autoPorted \cup {e.profile} ELSE autoPorted \ {e.profile}
                 /\ choice' = [choice EXCEPT ![e.profile] = auto]
            ELSE UNCHANGED profile_history
  /\ Done(c)
  /\ UNCHANGED <<profilePort, relayPorts, profileCommands, profileKills>>

(* cmd_autostart_profile.                                                  *)
BeginChoose(c, p) ==
  /\ p \in Connected(setupProfiles)
  /\ \E auto \in BOOLEAN :
       BeginEdit(c, [at |-> "saveChoice", profile |-> p, auto |-> auto,
                     snapshot |-> setupProfiles, alone |-> Editors = {}], {})

SaveChoice(c) ==
  LET e == editing[c] IN
  /\ e.at = "saveChoice"
  /\ setupProfiles' = [e.snapshot EXCEPT ![e.profile].auto = e.auto]
  /\ choice' = IF e.alone THEN [choice EXCEPT ![e.profile] = e.auto] ELSE choice
  /\ Done(c)
  /\ UNCHANGED <<profilePort, relayPorts, settledProfiles, autoPorted, profileCommands, profileKills>>

-----------------------------------------------------------------------------
(* spark setup: it keeps the profiles of the setup.json it loaded, or with *)
(* an external ingress none; Spawner's list is built anew, and the env     *)
(* files of the profiles are refreshed.                                    *)

BeginSetup(c) ==
  \E external \in BOOLEAN :
    BeginEdit(c, [at |-> "saveSetup", external |-> external, loaded |-> {},
                  ports |-> [p \in NamedProfile |-> 0],
                  snapshot |-> setupProfiles, alone |-> Editors = {}],
              IF external THEN NamedProfile ELSE {})

KeptProfiles_None(e) == [p \in NamedProfile |-> NotConnected]
KeptProfiles(e) == IF e.external THEN [p \in NamedProfile |-> NotConnected] ELSE e.snapshot

SaveSetup(c) ==
  LET e == editing[c] IN
  /\ e.at = "saveSetup"
  /\ setupProfiles' = KeptProfiles(e)
  /\ OnTo(c, "plan")
  /\ UNCHANGED <<profilePort, relayPorts, profile_history, profileCommands, profileKills>>

(* telegram_profile_webhook_urls: the profiles' URLs, or the default one.  *)
PlanEnvs(c) ==
  LET ports == {setupProfiles[p].port : p \in Connected(setupProfiles)} IN
  /\ editing[c].at = "plan"
  /\ editing' = [editing EXCEPT ![c].at = "writeSpawner",
                                ![c].loaded = IF ports = {} THEN {0} ELSE ports]
  /\ UNCHANGED <<profile_files, profile_history, profileCommands, profileKills>>

WriteSpawnerEnv(c) ==
  /\ editing[c].at = "writeSpawner"
  /\ relayPorts' = editing[c].loaded
  /\ OnTo(c, "loadRefresh")
  /\ UNCHANGED <<setupProfiles, profilePort, profile_history, profileCommands, profileKills>>

(* refresh_telegram_profile_envs loads setup.json once more.               *)
LoadRefresh(c) ==
  /\ editing[c].at = "loadRefresh"
  /\ editing' = [editing EXCEPT ![c].at = "refresh", ![c].loaded = Connected(setupProfiles),
                                ![c].ports = [p \in NamedProfile |-> setupProfiles[p].port]]
  /\ UNCHANGED <<profile_files, profile_history, profileCommands, profileKills>>

RefreshProfile(c) ==
  LET e == editing[c] IN
  /\ e.at = "refresh" /\ e.loaded # {}
  /\ \E p \in e.loaded :
       /\ profilePort' = [profilePort EXCEPT ![p] = e.ports[p]]
       /\ editing' = [editing EXCEPT ![c].loaded = @ \ {p}]
  /\ UNCHANGED <<setupProfiles, relayPorts, profile_history, profileCommands, profileKills>>

EndSetup(c) ==
  /\ editing[c].at = "refresh" /\ editing[c].loaded = {}
  /\ Done(c)
  /\ UNCHANGED <<profile_files, profile_history, profileCommands, profileKills>>

KillEdit(c) ==
  /\ c \in Editors /\ profileKills < MaxProfileKills
  /\ profileKills' = profileKills + 1
  /\ Done(c)
  /\ UNCHANGED <<profile_files, profile_history, profileCommands>>

ProfileNext ==
  \E c \in ProfileCaller :
    \/ \E p \in NamedProfile : BeginConnect(c, p) \/ BeginChoose(c, p)
    \/ WriteProfileEnv(c) \/ ReadRelayUrls(c) \/ WriteRelayUrls(c) \/ SaveConnected(c) \/ SaveChoice(c)
    \/ BeginSetup(c) \/ SaveSetup(c) \/ PlanEnvs(c) \/ WriteSpawnerEnv(c) \/ LoadRefresh(c)
    \/ RefreshProfile(c) \/ EndSetup(c) \/ KillEdit(c)

ProfileSpec == ProfileInit /\ [][ProfileNext]_profile_vars

-----------------------------------------------------------------------------
(* What should hold.                                                       *)

ProfileTypeOK ==
  /\ setupProfiles \in [NamedProfile -> [port : Port \cup {0}, auto : BOOLEAN]]
  /\ profilePort \in [NamedProfile -> Port \cup {0}]
  /\ relayPorts \subseteq Port \cup {0}
  /\ settledProfiles \subseteq NamedProfile

(* A profile that was connected by a command running alone stays whole     *)
(* while commands run one at a time, setups and killed ones included:      *)
(* setup.json names it, its env file has the port recorded there, Spawner  *)
(* relays to that port, it starts at login or not as last chosen, and no   *)
(* two such profiles that were given the next free port share one.         *)
ProfilesStayWhole ==
  /\ \A p \in settledProfiles :
       /\ setupProfiles[p].port # 0
       /\ profilePort[p] = setupProfiles[p].port
       /\ setupProfiles[p].port \in relayPorts
       /\ setupProfiles[p].auto = choice[p]
  /\ \A p, q \in settledProfiles \cap autoPorted :
       p # q => setupProfiles[p].port # setupProfiles[q].port

-----------------------------------------------------------------------------
(* Why it holds: a command that runs alone works on the files as they are, *)
(* and a profile that it is about to replace is settled no more.           *)

PortRecords == [NamedProfile -> [port : Port \cup {0}, auto : BOOLEAN]]
Connecting ==
  [at : {"env", "readUrls", "writeUrls", "saveConnected"}, profile : NamedProfile, port : Port,
   next : BOOLEAN, loaded : SUBSET (Port \cup {0}), snapshot : PortRecords, alone : BOOLEAN]
Choosing ==
  [at : {"saveChoice"}, profile : NamedProfile, auto : BOOLEAN, snapshot : PortRecords, alone : BOOLEAN]
SettingUp ==
  [at : {"saveSetup", "plan", "writeSpawner", "loadRefresh", "refresh"}, external : BOOLEAN,
   loaded : (SUBSET (Port \cup {0})) \cup (SUBSET NamedProfile), ports : [NamedProfile -> Port \cup {0}],
   snapshot : PortRecords, alone : BOOLEAN]

EditsAreTyped ==
  /\ editing = [c \in ProfileCaller |-> editing[c]]
  /\ \A c \in ProfileCaller :
       /\ editing[c] \in {Idling} \cup Connecting \cup Choosing \cup SettingUp
       /\ editing[c].at = "writeSpawner" => editing[c].loaded \subseteq Port \cup {0}
       /\ editing[c].at = "refresh" => editing[c].loaded \subseteq NamedProfile
  /\ choice \in [NamedProfile -> BOOLEAN] /\ autoPorted \subseteq NamedProfile

(* Of two commands that overlap neither is alone, and nothing is settled   *)
(* while one of them runs.                                                 *)
AloneIsAlone ==
  \A c \in Editors : IF editing[c].alone THEN Editors = {c} ELSE settledProfiles = {}

ConnectIsCurrent(e) ==
  /\ e.snapshot = setupProfiles /\ e.profile \notin settledProfiles
  /\ e.next => \A p \in NamedProfile : setupProfiles[p].port # e.port
  /\ e.at # "env" => profilePort[e.profile] = e.port
  /\ e.at = "writeUrls" => e.loaded = relayPorts
  /\ e.at = "saveConnected" => e.port \in relayPorts

SetupIsCurrent(e) ==
  /\ e.at = "saveSetup" => e.snapshot = setupProfiles /\ (e.external => settledProfiles = {})
  /\ e.at = "writeSpawner" => \A p \in Connected(setupProfiles) : setupProfiles[p].port \in e.loaded
  /\ e.at = "refresh" => \A p \in NamedProfile : e.ports[p] = setupProfiles[p].port

AloneIsCurrent ==
  \A c \in ProfileCaller :
    editing[c] # Idling /\ editing[c].alone =>
      /\ editing[c] \in Connecting => ConnectIsCurrent(editing[c])
      /\ editing[c] \in Choosing => editing[c].snapshot = setupProfiles
      /\ editing[c] \in SettingUp => SetupIsCurrent(editing[c])

ProfileIInv == EditsAreTyped /\ ProfileTypeOK /\ AloneIsAlone /\ AloneIsCurrent /\ ProfilesStayWhole

=============================================================================
