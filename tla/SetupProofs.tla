---------------------------- MODULE SetupProofs ----------------------------
(***************************************************************************)
(* Proofs about setup.json and what is generated from it, and about what   *)
(* is said of an installation: the Telegram profiles, for any profiles,    *)
(* any number of commands that may overlap, and any bounds; setup and      *)
(* onboarding, for any providers and command lines; that the surfaces      *)
(* agree and that following what they or the security audit name makes an  *)
(* installation right, for any number of damages and mishaps; and that the *)
(* parts side by side keep their types.                                    *)
(***************************************************************************)
EXTENDS MCOperations, ReleaseProofs, OperationsProofs, TLAPS

-----------------------------------------------------------------------------
(* Telegram profiles.                                                      *)

LEMMA PortFacts == /\ 0 \notin Port /\ Port \subseteq Nat
                   /\ NotConnected \in [port : Port \cup {0}, auto : BOOLEAN] /\ NotConnected.port = 0
BY ProfileAssumption DEF Port, NotConnected

LEMMA EditFacts ==
  ASSUME EditsAreTyped, NEW c \in ProfileCaller
  PROVE  /\ editing[c] = Idling <=> editing[c].at = "idle"
         /\ editing[c].at \in {"env", "readUrls", "writeUrls", "saveConnected"} <=> editing[c] \in Connecting
         /\ editing[c].at = "saveChoice" <=> editing[c] \in Choosing
         /\ editing[c].at \in {"saveSetup", "plan", "writeSpawner", "loadRefresh", "refresh"}
              <=> editing[c] \in SettingUp
         /\ editing[c] # Idling => c \in Editors
<1>1. Idling.at = "idle"
  BY DEF Idling
<1>2. editing[c] = Idling \/ editing[c] \in Connecting \/ editing[c] \in Choosing \/ editing[c] \in SettingUp
  BY DEF EditsAreTyped
<1>3. editing[c] \in Connecting => editing[c].at \in {"env", "readUrls", "writeUrls", "saveConnected"}
  BY DEF Connecting
<1>4. editing[c] \in Choosing => editing[c].at = "saveChoice"
  BY DEF Choosing
<1>5. editing[c] \in SettingUp
        => editing[c].at \in {"saveSetup", "plan", "writeSpawner", "loadRefresh", "refresh"}
  BY DEF SettingUp
<1>6. c \in Editors <=> editing[c] # Idling
  BY DEF Editors
<1> QED BY <1>1, <1>2, <1>3, <1>4, <1>5, <1>6

(* What a command knows of itself does not change when another one moves. *)
LEMMA AloneHasTheFiles ==
  ASSUME AloneIsAlone, NEW c \in ProfileCaller, editing[c] # Idling, editing[c].alone,
         NEW d \in ProfileCaller, editing[d] # Idling
  PROVE  d = c
<1>1. c \in Editors /\ d \in Editors
  BY DEF Editors
<1>2. Editors = {c}
  BY <1>1 DEF AloneIsAlone
<1> QED BY <1>1, <1>2

LEMMA ProfileInitInv == ProfileInit => ProfileIInv
<1> SUFFICES ASSUME ProfileInit PROVE ProfileIInv
  OBVIOUS
<1>1. \A c \in ProfileCaller : editing[c] = Idling /\ editing[c].at = "idle"
  BY DEF ProfileInit, Idling
<1>2. EditsAreTyped
  <2>1. editing = [c \in ProfileCaller |-> editing[c]]
    BY DEF ProfileInit
  <2> QED BY <1>1, <2>1 DEF ProfileInit, EditsAreTyped
<1>3. ProfileTypeOK
  BY PortFacts DEF ProfileInit, ProfileTypeOK
<1>4. AloneIsAlone /\ AloneIsCurrent
  BY <1>1 DEF AloneIsAlone, AloneIsCurrent, Editors
<1>5. ProfilesStayWhole
  BY DEF ProfileInit, ProfilesStayWhole
<1> QED BY <1>2, <1>3, <1>4, <1>5 DEF ProfileIInv

-----------------------------------------------------------------------------
(* A command begins.                                                       *)

LEMMA BeginEditStep ==
  ASSUME ProfileIInv, NEW c \in ProfileCaller, NEW edit, NEW touched, BeginEdit(c, edit, touched),
         edit # Idling, edit \in Connecting \cup Choosing \cup SettingUp,
         edit.at \in {"env", "saveChoice", "saveSetup"},
         edit.alone = (Editors = {}), edit.snapshot = setupProfiles,
         edit \in Connecting => /\ edit.at = "env" /\ touched = {edit.profile}
                                /\ edit.next => edit.port \in NextPort(setupProfiles),
         edit \in SettingUp => edit.at = "saveSetup" /\ (edit.external => touched = NamedProfile)
  PROVE  ProfileIInv'
<1>1. /\ editing[c] = Idling
      /\ editing' = [d \in ProfileCaller |->
           IF d = c THEN edit
           ELSE IF d \in Editors THEN [editing[d] EXCEPT !.alone = FALSE] ELSE editing[d]]
      /\ settledProfiles' = IF Editors = {} THEN settledProfiles \ touched ELSE {}
      /\ UNCHANGED <<setupProfiles, profilePort, relayPorts, autoPorted, choice>>
  BY DEF BeginEdit, profile_files
<1>2. c \notin Editors
  BY <1>1 DEF Editors
<1>3. editing'[c] = edit
  BY <1>1
<1>4. ASSUME NEW d \in ProfileCaller, d # c, editing[d] # Idling
      PROVE  /\ editing'[d] # Idling /\ editing'[d].alone = FALSE
             /\ editing'[d].at = editing[d].at
             /\ editing'[d] \in Connecting \cup Choosing \cup SettingUp
             /\ editing[d].at = "writeSpawner" => editing'[d].loaded \subseteq Port \cup {0}
             /\ editing[d].at = "refresh" => editing'[d].loaded \subseteq NamedProfile
  <2>1. editing'[d] = [editing[d] EXCEPT !.alone = FALSE]
    BY <1>1, <1>4 DEF Editors
  <2>2. editing[d] \in Connecting \cup Choosing \cup SettingUp /\ editing[d].at # "idle"
    BY <1>4, EditFacts DEF ProfileIInv, EditsAreTyped
  <2>3. CASE editing[d] \in Connecting
    BY <2>1, <2>3 DEF Connecting, Idling
  <2>4. CASE editing[d] \in Choosing
    BY <2>1, <2>4 DEF Choosing, Idling
  <2>5. CASE editing[d] \in SettingUp
    <3>1. editing'[d] \in SettingUp /\ editing'[d].alone = FALSE /\ editing'[d].at = editing[d].at
          /\ editing'[d].loaded = editing[d].loaded
      BY <2>1, <2>5 DEF SettingUp
    <3>2. Idling.at = "idle"
      BY DEF Idling
    <3> QED BY <2>2, <3>1, <3>2 DEF ProfileIInv, EditsAreTyped
  <2> QED BY <2>2, <2>3, <2>4, <2>5
<1>5. ASSUME NEW d \in ProfileCaller, d # c, editing[d] = Idling
      PROVE  editing'[d] = Idling
  BY <1>1, <1>5 DEF Editors
<1>6. EditsAreTyped'
  <2>1. editing' = [d \in ProfileCaller |-> editing'[d]]
    BY <1>1
  <2>2. Idling.at = "idle"
    BY DEF Idling
  <2>3. ASSUME NEW d \in ProfileCaller
        PROVE  /\ editing'[d] \in {Idling} \cup Connecting \cup Choosing \cup SettingUp
               /\ editing'[d].at = "writeSpawner" => editing'[d].loaded \subseteq Port \cup {0}
               /\ editing'[d].at = "refresh" => editing'[d].loaded \subseteq NamedProfile
    BY <1>3, <1>4, <1>5, <2>2
  <2> QED BY <1>1, <2>1, <2>3 DEF ProfileIInv, EditsAreTyped
<1>7. ProfileTypeOK' /\ ProfilesStayWhole'
  <2>1. settledProfiles' \subseteq settledProfiles
    BY <1>1
  <2> QED BY <1>1, <2>1 DEF ProfileIInv, ProfileTypeOK, ProfilesStayWhole
<1>8. AloneIsAlone'
  <2>1. Editors' = Editors \cup {c}
    BY <1>3, <1>4, <1>5 DEF Editors
  <2>2. CASE Editors = {}
    BY <1>3, <2>1, <2>2 DEF AloneIsAlone
  <2>3. CASE Editors # {}
    <3>1. settledProfiles' = {}
      BY <1>1, <2>3
    <3>2. ASSUME NEW d \in Editors' PROVE ~editing'[d].alone
      <4>1. d \in ProfileCaller /\ editing'[d] # Idling
        BY DEF Editors
      <4> QED BY <1>3, <1>4, <1>5, <2>3, <4>1
    <3> QED BY <3>1, <3>2 DEF AloneIsAlone
  <2> QED BY <2>2, <2>3
<1>9. AloneIsCurrent'
  <2> SUFFICES ASSUME NEW d \in ProfileCaller, editing'[d] # Idling, editing'[d].alone
               PROVE  /\ editing'[d] \in Connecting => ConnectIsCurrent(editing[d])'
                      /\ editing'[d] \in Choosing => editing'[d].snapshot = setupProfiles'
                      /\ editing'[d] \in SettingUp => SetupIsCurrent(editing[d])'
    BY DEF AloneIsCurrent
  <2>1. d = c /\ editing'[d] = edit
    BY <1>3, <1>4, <1>5
  <2>2. Editors = {}
    BY <2>1
  <2>3. settledProfiles' = settledProfiles \ touched
    BY <1>1, <2>2
  <2>4. ASSUME edit \in Connecting PROVE ConnectIsCurrent(edit)'
    <3>1. edit.next => \A p \in NamedProfile : setupProfiles[p].port # edit.port
      BY <2>4 DEF NextPort
    <3> QED BY <1>1, <2>3, <2>4, <3>1 DEF ConnectIsCurrent
  <2>5. ASSUME edit \in SettingUp PROVE SetupIsCurrent(edit)'
    BY <1>1, <2>3, <2>5 DEF SetupIsCurrent, ProfileIInv, ProfileTypeOK
  <2> QED BY <1>1, <2>1, <2>4, <2>5 DEF ConnectIsCurrent, SetupIsCurrent
<1> QED BY <1>6, <1>7, <1>8, <1>9 DEF ProfileIInv

LEMMA BeginConnectStep ==
  ASSUME ProfileIInv, NEW c \in ProfileCaller, NEW p \in NamedProfile, BeginConnect(c, p)
  PROVE  ProfileIInv'
<1>0. PICK next \in BOOLEAN : \E port \in IF next THEN NextPort(setupProfiles) ELSE Port :
        BeginEdit(c, [at |-> "env", profile |-> p, port |-> port, next |-> next, loaded |-> {},
                      snapshot |-> setupProfiles, alone |-> Editors = {}], {p})
  BY DEF BeginConnect
<1>1. PICK port \in IF next THEN NextPort(setupProfiles) ELSE Port :
        BeginEdit(c, [at |-> "env", profile |-> p, port |-> port, next |-> next, loaded |-> {},
                      snapshot |-> setupProfiles, alone |-> Editors = {}], {p})
  BY <1>0
<1> DEFINE e == [at |-> "env", profile |-> p, port |-> port, next |-> next, loaded |-> {},
                 snapshot |-> setupProfiles, alone |-> Editors = {}]
<1>2. port \in Port /\ (next => port \in NextPort(setupProfiles))
  BY DEF NextPort
<1>3. setupProfiles \in PortRecords
  BY DEF ProfileIInv, ProfileTypeOK, PortRecords
<1>4. e \in Connecting
  BY <1>2, <1>3 DEF Connecting
<1>5. e.at = "env" /\ e.profile = p /\ e.port = port /\ e.next = next /\ e.snapshot = setupProfiles
      /\ e.alone = (Editors = {})
  OBVIOUS
<1>6. BeginEdit(c, e, {p})
  BY <1>1
<1> HIDE DEF e
<1>7. e # Idling /\ e \notin SettingUp
  BY <1>5 DEF Idling, SettingUp
<1> QED BY <1>2, <1>4, <1>5, <1>6, <1>7, BeginEditStep

LEMMA BeginChooseStep ==
  ASSUME ProfileIInv, NEW c \in ProfileCaller, NEW p \in NamedProfile, BeginChoose(c, p)
  PROVE  ProfileIInv'
<1>1. PICK auto \in BOOLEAN :
        BeginEdit(c, [at |-> "saveChoice", profile |-> p, auto |-> auto,
                      snapshot |-> setupProfiles, alone |-> Editors = {}], {})
  BY DEF BeginChoose
<1> DEFINE e == [at |-> "saveChoice", profile |-> p, auto |-> auto,
                 snapshot |-> setupProfiles, alone |-> Editors = {}]
<1>2. setupProfiles \in PortRecords
  BY DEF ProfileIInv, ProfileTypeOK, PortRecords
<1>3. e \in Choosing
  BY <1>2 DEF Choosing
<1>4. e.at = "saveChoice" /\ e.snapshot = setupProfiles /\ e.alone = (Editors = {})
  OBVIOUS
<1>5. BeginEdit(c, e, {})
  BY <1>1
<1> HIDE DEF e
<1>6. e # Idling /\ e \notin SettingUp /\ e \notin Connecting
  BY <1>4 DEF Idling, SettingUp, Connecting
<1> QED BY <1>3, <1>4, <1>5, <1>6, BeginEditStep

LEMMA BeginSetupStep ==
  ASSUME ProfileIInv, NEW c \in ProfileCaller, BeginSetup(c)
  PROVE  ProfileIInv'
<1>1. PICK external \in BOOLEAN :
        BeginEdit(c, [at |-> "saveSetup", external |-> external, loaded |-> {},
                      ports |-> [p \in NamedProfile |-> 0],
                      snapshot |-> setupProfiles, alone |-> Editors = {}],
                  IF external THEN NamedProfile ELSE {})
  BY DEF BeginSetup
<1> DEFINE e == [at |-> "saveSetup", external |-> external, loaded |-> {},
                 ports |-> [p \in NamedProfile |-> 0],
                 snapshot |-> setupProfiles, alone |-> Editors = {}]
           touched == IF external THEN NamedProfile ELSE {}
<1>2. setupProfiles \in PortRecords
  BY DEF ProfileIInv, ProfileTypeOK, PortRecords
<1>3. e \in SettingUp
  BY <1>2 DEF SettingUp
<1>4. e.at = "saveSetup" /\ e.snapshot = setupProfiles /\ e.alone = (Editors = {}) /\ e.external = external
      /\ (external => touched = NamedProfile)
  OBVIOUS
<1>5. BeginEdit(c, e, touched)
  BY <1>1
<1> HIDE DEF e, touched
<1>6. e # Idling /\ e \notin Choosing /\ e \notin Connecting
  BY <1>4 DEF Idling, Choosing, Connecting
<1> QED BY <1>3, <1>4, <1>5, <1>6, BeginEditStep

-----------------------------------------------------------------------------
(* A command goes on, or ends.                                             *)

LEMMA EditGoesOn ==
  ASSUME ProfileIInv, NEW c \in ProfileCaller, editing[c] # Idling,
         NEW e, e \in Connecting \cup Choosing \cup SettingUp, e.alone = editing[c].alone,
         e.at = "writeSpawner" => e.loaded \subseteq Port \cup {0},
         e.at = "refresh" => e.loaded \subseteq NamedProfile,
         editing' = [editing EXCEPT ![c] = e],
         UNCHANGED <<settledProfiles, autoPorted, choice>>,
         e.alone => /\ e \in Connecting => ConnectIsCurrent(e)'
                    /\ e \in Choosing => e.snapshot = setupProfiles'
                    /\ e \in SettingUp => SetupIsCurrent(e)'
  PROVE  EditsAreTyped' /\ AloneIsAlone' /\ AloneIsCurrent'
<1>1. editing'[c] = e /\ \A d \in ProfileCaller : d # c => editing'[d] = editing[d]
  BY DEF ProfileIInv, EditsAreTyped
<1>2. e # Idling
  <2>1. Idling.at = "idle"
    BY DEF Idling
  <2> QED BY <2>1 DEF Connecting, Choosing, SettingUp
<1>3. EditsAreTyped'
  <2>1. editing' = [d \in ProfileCaller |-> editing'[d]]
    BY DEF ProfileIInv, EditsAreTyped
  <2>2. ASSUME NEW d \in ProfileCaller
        PROVE  /\ editing'[d] \in {Idling} \cup Connecting \cup Choosing \cup SettingUp
               /\ editing'[d].at = "writeSpawner" => editing'[d].loaded \subseteq Port \cup {0}
               /\ editing'[d].at = "refresh" => editing'[d].loaded \subseteq NamedProfile
    BY <1>1 DEF ProfileIInv, EditsAreTyped
  <2> QED BY <2>1, <2>2 DEF ProfileIInv, EditsAreTyped
<1>4. Editors' = Editors /\ c \in Editors
  BY <1>1, <1>2 DEF Editors
<1>5. AloneIsAlone'
  <2>1. ASSUME NEW d \in Editors PROVE editing'[d].alone = editing[d].alone
    BY <1>1 DEF Editors
  <2> QED BY <1>4, <2>1 DEF ProfileIInv, AloneIsAlone
<1>6. AloneIsCurrent'
  <2> SUFFICES ASSUME NEW d \in ProfileCaller, editing'[d] # Idling, editing'[d].alone
               PROVE  /\ editing'[d] \in Connecting => ConnectIsCurrent(editing[d])'
                      /\ editing'[d] \in Choosing => editing'[d].snapshot = setupProfiles'
                      /\ editing'[d] \in SettingUp => SetupIsCurrent(editing[d])'
    BY DEF AloneIsCurrent
  <2>1. d \in Editors' /\ c \in Editors'
    BY <1>1, <1>2 DEF Editors
  <2>2. d = c
    BY <1>5, <2>1 DEF AloneIsAlone
  <2> QED BY <1>1, <2>2 DEF ConnectIsCurrent, SetupIsCurrent
<1> QED BY <1>3, <1>5, <1>6

LEMMA EditEnds ==
  ASSUME ProfileIInv, NEW c \in ProfileCaller, editing[c] # Idling,
         editing' = [editing EXCEPT ![c] = Idling],
         ~editing[c].alone => settledProfiles' = settledProfiles,
         choice' \in [NamedProfile -> BOOLEAN], autoPorted' \subseteq NamedProfile
  PROVE  EditsAreTyped' /\ AloneIsAlone' /\ AloneIsCurrent'
<1>1. editing'[c] = Idling /\ \A d \in ProfileCaller : d # c => editing'[d] = editing[d]
  BY DEF ProfileIInv, EditsAreTyped
<1>2. EditsAreTyped'
  <2>1. editing' = [d \in ProfileCaller |-> editing'[d]]
    BY DEF ProfileIInv, EditsAreTyped
  <2>2. Idling.at = "idle"
    BY DEF Idling
  <2>3. ASSUME NEW d \in ProfileCaller
        PROVE  /\ editing'[d] \in {Idling} \cup Connecting \cup Choosing \cup SettingUp
               /\ editing'[d].at = "writeSpawner" => editing'[d].loaded \subseteq Port \cup {0}
               /\ editing'[d].at = "refresh" => editing'[d].loaded \subseteq NamedProfile
    BY <1>1, <2>2 DEF ProfileIInv, EditsAreTyped
  <2> QED BY <2>1, <2>3 DEF EditsAreTyped
<1>3. ASSUME NEW d \in ProfileCaller, editing'[d] # Idling
      PROVE  ~editing'[d].alone /\ settledProfiles' = {}
  <2>1. d # c /\ c \in Editors /\ d \in Editors /\ editing'[d] = editing[d]
    BY <1>1, <1>3 DEF Editors
  <2>2. ~editing[c].alone /\ ~editing[d].alone
    BY <2>1 DEF ProfileIInv, AloneIsAlone
  <2>3. settledProfiles = {}
    BY <2>1, <2>2 DEF ProfileIInv, AloneIsAlone
  <2> QED BY <2>1, <2>2, <2>3
<1> QED BY <1>2, <1>3 DEF AloneIsAlone, AloneIsCurrent, Editors

LEMMA WriteProfileEnvStep ==
  ASSUME ProfileIInv, NEW c \in ProfileCaller, WriteProfileEnv(c)
  PROVE  ProfileIInv'
<1>0. PICK e : e = [editing[c] EXCEPT !.at = "readUrls"]
  OBVIOUS
<1>1. /\ editing[c].at = "env"
      /\ profilePort' = [profilePort EXCEPT ![editing[c].profile] = editing[c].port]
      /\ editing' = [editing EXCEPT ![c].at = "readUrls"]
      /\ UNCHANGED <<setupProfiles, relayPorts, settledProfiles, autoPorted, choice>>
  BY DEF WriteProfileEnv, OnTo, profile_history
<1>2. editing[c] \in Connecting /\ editing[c] # Idling
  BY <1>1, EditFacts DEF ProfileIInv
<1>3. /\ e \in Connecting /\ e.at = "readUrls" /\ e.profile = editing[c].profile /\ e.port = editing[c].port
      /\ e.next = editing[c].next /\ e.snapshot = editing[c].snapshot /\ e.alone = editing[c].alone
  BY <1>0, <1>2 DEF Connecting
<1>4. editing' = [editing EXCEPT ![c] = e]
  BY <1>0, <1>1
<1>5. e.profile \in NamedProfile /\ e.port \in Port
  BY <1>3 DEF Connecting
<1>6. e.alone => ConnectIsCurrent(editing[c])
  BY <1>2, <1>3 DEF ProfileIInv, AloneIsCurrent
<1>7. e.alone => ConnectIsCurrent(e)'
  <2>1. profilePort'[e.profile] = e.port
    BY <1>1, <1>3, <1>5 DEF ProfileIInv, ProfileTypeOK
  <2> QED BY <1>1, <1>3, <1>6, <2>1 DEF ConnectIsCurrent
<1>8. EditsAreTyped' /\ AloneIsAlone' /\ AloneIsCurrent'
  <2>1. e \notin Choosing /\ e \notin SettingUp
    BY <1>3 DEF Choosing, SettingUp
  <2> QED BY <1>1, <1>2, <1>3, <1>4, <1>7, <2>1, EditGoesOn
<1>9. ProfileTypeOK'
  BY <1>1, <1>3, <1>5 DEF ProfileIInv, ProfileTypeOK
<1>10. ProfilesStayWhole'
  <2>1. e.profile \notin settledProfiles
    <3>1. CASE e.alone
      BY <1>3, <1>6, <3>1 DEF ConnectIsCurrent
    <3>2. CASE ~e.alone
      BY <1>2, <1>3, <3>2, EditFacts DEF ProfileIInv, AloneIsAlone
    <3> QED BY <3>1, <3>2
  <2>2. \A p \in settledProfiles : p \in NamedProfile /\ profilePort'[p] = profilePort[p]
    BY <1>1, <1>3, <2>1 DEF ProfileIInv, ProfileTypeOK
  <2> QED BY <1>1, <2>2 DEF ProfileIInv, ProfilesStayWhole
<1> QED BY <1>8, <1>9, <1>10 DEF ProfileIInv

LEMMA ReadRelayUrlsStep ==
  ASSUME ProfileIInv, NEW c \in ProfileCaller, ReadRelayUrls(c)
  PROVE  ProfileIInv'
<1>0. PICK e : e = [editing[c] EXCEPT !.at = "writeUrls", !.loaded = relayPorts]
  OBVIOUS
<1>1. /\ editing[c].at = "readUrls"
      /\ editing' = [editing EXCEPT ![c].at = "writeUrls", ![c].loaded = relayPorts]
      /\ UNCHANGED <<setupProfiles, profilePort, relayPorts, settledProfiles, autoPorted, choice>>
  BY DEF ReadRelayUrls, profile_history, profile_files
<1>2. editing[c] \in Connecting /\ editing[c] # Idling /\ relayPorts \subseteq Port \cup {0}
  BY <1>1, EditFacts DEF ProfileIInv, ProfileTypeOK
<1>3. /\ e \in Connecting /\ e.at = "writeUrls" /\ e.profile = editing[c].profile /\ e.port = editing[c].port
      /\ e.next = editing[c].next /\ e.snapshot = editing[c].snapshot /\ e.alone = editing[c].alone
      /\ e.loaded = relayPorts
  BY <1>0, <1>2 DEF Connecting
<1>4. editing' = [editing EXCEPT ![c] = e]
  <2>1. c \in DOMAIN editing
    BY DEF ProfileIInv, EditsAreTyped
  <2> QED BY <1>0, <1>1, <2>1
<1>5. e.alone => ConnectIsCurrent(editing[c])
  BY <1>2, <1>3 DEF ProfileIInv, AloneIsCurrent
<1>6. e.alone => ConnectIsCurrent(e)'
  BY <1>1, <1>3, <1>5 DEF ConnectIsCurrent
<1>7. EditsAreTyped' /\ AloneIsAlone' /\ AloneIsCurrent'
  <2>1. e \notin Choosing /\ e \notin SettingUp
    BY <1>3 DEF Choosing, SettingUp
  <2> QED BY <1>1, <1>2, <1>3, <1>4, <1>6, <2>1, EditGoesOn
<1>8. ProfileTypeOK' /\ ProfilesStayWhole'
  BY <1>1 DEF ProfileIInv, ProfileTypeOK, ProfilesStayWhole
<1> QED BY <1>7, <1>8 DEF ProfileIInv

LEMMA WriteRelayUrlsStep ==
  ASSUME ProfileIInv, NEW c \in ProfileCaller, WriteRelayUrls(c)
  PROVE  ProfileIInv'
<1>0. PICK e : e = [editing[c] EXCEPT !.at = "saveConnected"]
  OBVIOUS
<1>1. /\ editing[c].at = "writeUrls" /\ relayPorts' = editing[c].loaded \cup {editing[c].port}
      /\ editing' = [editing EXCEPT ![c].at = "saveConnected"]
      /\ UNCHANGED <<setupProfiles, profilePort, settledProfiles, autoPorted, choice>>
  BY DEF WriteRelayUrls, OnTo, profile_history
<1>2. editing[c] \in Connecting /\ editing[c] # Idling
  BY <1>1, EditFacts DEF ProfileIInv
<1>3. /\ e \in Connecting /\ e.at = "saveConnected" /\ e.profile = editing[c].profile /\ e.port = editing[c].port
      /\ e.next = editing[c].next /\ e.snapshot = editing[c].snapshot /\ e.alone = editing[c].alone
  BY <1>0, <1>2 DEF Connecting
<1>4. editing' = [editing EXCEPT ![c] = e]
  BY <1>0, <1>1
<1>5. e.alone => ConnectIsCurrent(editing[c]) /\ relayPorts \subseteq relayPorts'
  <2>1. e.alone => ConnectIsCurrent(editing[c])
    BY <1>2, <1>3 DEF ProfileIInv, AloneIsCurrent
  <2> QED BY <1>1, <2>1 DEF ConnectIsCurrent
<1>6. e.alone => ConnectIsCurrent(e)'
  BY <1>1, <1>3, <1>5 DEF ConnectIsCurrent
<1>7. EditsAreTyped' /\ AloneIsAlone' /\ AloneIsCurrent'
  <2>1. e \notin Choosing /\ e \notin SettingUp
    BY <1>3 DEF Choosing, SettingUp
  <2> QED BY <1>1, <1>2, <1>3, <1>4, <1>6, <2>1, EditGoesOn
<1>8. ProfileTypeOK'
  BY <1>1, <1>2 DEF ProfileIInv, ProfileTypeOK, Connecting
<1>9. ProfilesStayWhole'
  <2>1. CASE e.alone
    BY <1>1, <1>5, <2>1 DEF ProfileIInv, ProfilesStayWhole
  <2>2. CASE ~e.alone
    <3>1. settledProfiles = {}
      BY <1>2, <1>3, <2>2, EditFacts DEF ProfileIInv, AloneIsAlone
    <3> QED BY <1>1, <3>1 DEF ProfilesStayWhole
  <2> QED BY <2>1, <2>2
<1> QED BY <1>7, <1>8, <1>9 DEF ProfileIInv

(* setup.json is replaced as a whole by the loaded one, with the change. *)
LEMMA SaveConnectedStep ==
  ASSUME ProfileIInv, NEW c \in ProfileCaller, SaveConnected(c)
  PROVE  ProfileIInv'
<1>0. PICK e : e = editing[c]
  OBVIOUS
<1>1. /\ e.at = "saveConnected" /\ editing' = [editing EXCEPT ![c] = Idling]
      /\ UNCHANGED <<profilePort, relayPorts>>
  BY <1>0 DEF SaveConnected, Done
<1>2. PICK auto \in {e.snapshot[e.profile].auto} \cup BOOLEAN :
        /\ setupProfiles' = [e.snapshot EXCEPT ![e.profile] = [port |-> e.port, auto |-> auto]]
        /\ IF e.alone
             THEN /\ settledProfiles' = settledProfiles \cup {e.profile}
                  /\ autoPorted' = IF e.next THEN autoPorted \cup {e.profile} ELSE autoPorted \ {e.profile}
                  /\ choice' = [choice EXCEPT ![e.profile] = auto]
             ELSE UNCHANGED profile_history
  BY <1>0 DEF SaveConnected
<1>3. e \in Connecting /\ e # Idling /\ c \in Editors
  BY <1>0, <1>1, EditFacts DEF ProfileIInv
<1>4. /\ e.snapshot \in [NamedProfile -> [port : Port \cup {0}, auto : BOOLEAN]]
      /\ e.profile \in NamedProfile /\ e.port \in Port /\ e.alone \in BOOLEAN
  BY <1>3 DEF Connecting, PortRecords
<1>5. auto \in BOOLEAN
  BY <1>4
<1>6. ~e.alone => settledProfiles' = {} /\ settledProfiles = {}
  BY <1>0, <1>2, <1>3 DEF ProfileIInv, AloneIsAlone, profile_history
<1>7. choice' \in [NamedProfile -> BOOLEAN] /\ autoPorted' \subseteq NamedProfile
      /\ settledProfiles' \subseteq NamedProfile
  <2>1. choice \in [NamedProfile -> BOOLEAN] /\ autoPorted \subseteq NamedProfile
        /\ settledProfiles \subseteq NamedProfile
    BY DEF ProfileIInv, EditsAreTyped, ProfileTypeOK
  <2>2. CASE e.alone
    BY <1>2, <1>4, <1>5, <2>1, <2>2
  <2>3. CASE ~e.alone
    BY <1>2, <2>1, <2>3 DEF profile_history
  <2> QED BY <1>4, <2>2, <2>3
<1>8. EditsAreTyped' /\ AloneIsAlone' /\ AloneIsCurrent'
  BY <1>0, <1>1, <1>3, <1>6, <1>7, EditEnds
<1>9. /\ setupProfiles' \in [NamedProfile -> [port : Port \cup {0}, auto : BOOLEAN]]
      /\ setupProfiles'[e.profile] = [port |-> e.port, auto |-> auto]
      /\ \A p \in NamedProfile : p # e.profile => setupProfiles'[p] = e.snapshot[p]
  <2>1. [port |-> e.port, auto |-> auto] \in [port : Port \cup {0}, auto : BOOLEAN]
    BY <1>4, <1>5
  <2> QED BY <1>2, <1>4, <2>1
<1>10. ProfileTypeOK'
  BY <1>1, <1>7, <1>9 DEF ProfileIInv, ProfileTypeOK
<1>11. ProfilesStayWhole'
  <2>1. CASE ~e.alone
    BY <1>6, <2>1 DEF ProfilesStayWhole
  <2>2. CASE e.alone
    <3>1. ConnectIsCurrent(e)
      BY <1>0, <1>3, <2>2 DEF ProfileIInv, AloneIsCurrent
    <3>2. /\ settledProfiles' = settledProfiles \cup {e.profile}
          /\ autoPorted' = IF e.next THEN autoPorted \cup {e.profile} ELSE autoPorted \ {e.profile}
          /\ choice' = [choice EXCEPT ![e.profile] = auto]
      BY <1>2, <2>2
    <3>3. ASSUME NEW p \in settledProfiles, p # e.profile
          PROVE  setupProfiles'[p] = setupProfiles[p] /\ choice'[p] = choice[p] /\ p \in NamedProfile
      BY <1>9, <3>1, <3>2 DEF ConnectIsCurrent, ProfileIInv, EditsAreTyped, ProfileTypeOK
    <3>4. /\ setupProfiles'[e.profile].port = e.port /\ setupProfiles'[e.profile].auto = choice'[e.profile]
          /\ profilePort'[e.profile] = e.port /\ e.port \in relayPorts' /\ e.port # 0
      BY <1>1, <1>4, <1>9, <3>1, <3>2, PortFacts DEF ConnectIsCurrent, ProfileIInv, EditsAreTyped
    <3>5. ASSUME NEW p \in settledProfiles'
          PROVE  /\ setupProfiles'[p].port # 0 /\ profilePort'[p] = setupProfiles'[p].port
                 /\ setupProfiles'[p].port \in relayPorts' /\ setupProfiles'[p].auto = choice'[p]
      <4>1. CASE p = e.profile
        BY <3>4, <4>1
      <4>2. CASE p # e.profile
        BY <1>1, <3>2, <3>3, <4>2 DEF ProfileIInv, ProfilesStayWhole
      <4> QED BY <4>1, <4>2
    <3>6. ASSUME NEW p \in settledProfiles' \cap autoPorted', p # e.profile
          PROVE  p \in settledProfiles \cap autoPorted /\ setupProfiles'[p] = setupProfiles[p]
      BY <3>2, <3>3, <3>6
    <3>7. ASSUME NEW p \in settledProfiles' \cap autoPorted', NEW q \in settledProfiles' \cap autoPorted', p # q
          PROVE  setupProfiles'[p].port # setupProfiles'[q].port
      <4>1. CASE p # e.profile /\ q # e.profile
        BY <3>6, <3>7, <4>1 DEF ProfileIInv, ProfilesStayWhole
      <4>2. CASE p = e.profile \/ q = e.profile
        <5>1. e.next
          BY <3>2, <4>2
        <5>2. \A r \in NamedProfile : setupProfiles[r].port # e.port
          BY <3>1, <5>1 DEF ConnectIsCurrent
        <5> QED BY <3>3, <3>4, <3>6, <3>7, <4>2, <5>2
      <4> QED BY <4>1, <4>2
    <3> QED BY <3>5, <3>7 DEF ProfilesStayWhole
  <2> QED BY <1>4, <2>1, <2>2
<1> QED BY <1>8, <1>10, <1>11 DEF ProfileIInv

LEMMA SaveChoiceStep ==
  ASSUME ProfileIInv, NEW c \in ProfileCaller, SaveChoice(c)
  PROVE  ProfileIInv'
<1>0. PICK e : e = editing[c]
  OBVIOUS
<1>1. /\ e.at = "saveChoice" /\ editing' = [editing EXCEPT ![c] = Idling]
      /\ setupProfiles' = [e.snapshot EXCEPT ![e.profile].auto = e.auto]
      /\ choice' = IF e.alone THEN [choice EXCEPT ![e.profile] = e.auto] ELSE choice
      /\ UNCHANGED <<profilePort, relayPorts, settledProfiles, autoPorted>>
  BY <1>0 DEF SaveChoice, Done
<1>2. e \in Choosing /\ e # Idling /\ c \in Editors
  BY <1>0, <1>1, EditFacts DEF ProfileIInv
<1>3. /\ e.snapshot \in [NamedProfile -> [port : Port \cup {0}, auto : BOOLEAN]]
      /\ e.profile \in NamedProfile /\ e.auto \in BOOLEAN /\ e.alone \in BOOLEAN
  BY <1>2 DEF Choosing, PortRecords
<1>4. choice' \in [NamedProfile -> BOOLEAN]
  BY <1>1, <1>3 DEF ProfileIInv, EditsAreTyped
<1>5. EditsAreTyped' /\ AloneIsAlone' /\ AloneIsCurrent'
  <2>1. autoPorted' \subseteq NamedProfile
    BY <1>1 DEF ProfileIInv, EditsAreTyped
  <2> QED BY <1>0, <1>1, <1>2, <1>4, <2>1, EditEnds
<1>6. /\ setupProfiles' \in [NamedProfile -> [port : Port \cup {0}, auto : BOOLEAN]]
      /\ setupProfiles'[e.profile].port = e.snapshot[e.profile].port
      /\ setupProfiles'[e.profile].auto = e.auto
      /\ \A p \in NamedProfile : p # e.profile => setupProfiles'[p] = e.snapshot[p]
  <2> DEFINE new == [e.snapshot[e.profile] EXCEPT !.auto = e.auto]
  <2>1. new \in [port : Port \cup {0}, auto : BOOLEAN] /\ new.port = e.snapshot[e.profile].port /\ new.auto = e.auto
    BY <1>3
  <2>2. setupProfiles' = [e.snapshot EXCEPT ![e.profile] = new]
    BY <1>1
  <2> HIDE DEF new
  <2> QED BY <1>3, <2>1, <2>2
<1>7. ProfileTypeOK'
  BY <1>1, <1>6 DEF ProfileIInv, ProfileTypeOK
<1>8. ProfilesStayWhole'
  <2>1. CASE ~e.alone
    <3>1. settledProfiles' = {}
      BY <1>0, <1>1, <1>2, <2>1 DEF ProfileIInv, AloneIsAlone
    <3> QED BY <3>1 DEF ProfilesStayWhole
  <2>2. CASE e.alone
    <3>1. e.snapshot = setupProfiles
      BY <1>0, <1>2, <2>2 DEF ProfileIInv, AloneIsCurrent
    <3>2. ASSUME NEW p \in settledProfiles
          PROVE  /\ setupProfiles'[p].port = setupProfiles[p].port
                 /\ setupProfiles[p].auto = choice[p] => setupProfiles'[p].auto = choice'[p]
      <4>1. p \in NamedProfile
        BY DEF ProfileIInv, ProfileTypeOK
      <4> QED BY <1>1, <1>3, <1>6, <2>2, <3>1, <4>1 DEF ProfileIInv, EditsAreTyped
    <3> QED BY <1>1, <3>2 DEF ProfileIInv, ProfilesStayWhole
  <2> QED BY <1>3, <2>1, <2>2
<1> QED BY <1>5, <1>7, <1>8 DEF ProfileIInv

-----------------------------------------------------------------------------
(* A setup saves the profiles it keeps and writes the env files from them. *)

LEMMA SaveSetupStep ==
  ASSUME ProfileIInv, NEW c \in ProfileCaller, SaveSetup(c)
  PROVE  ProfileIInv'
<1>0. PICK e : e = [editing[c] EXCEPT !.at = "plan"]
  OBVIOUS
<1>1. /\ editing[c].at = "saveSetup" /\ setupProfiles' = KeptProfiles(editing[c])
      /\ editing' = [editing EXCEPT ![c].at = "plan"]
      /\ UNCHANGED <<profilePort, relayPorts, settledProfiles, autoPorted, choice>>
  BY DEF SaveSetup, OnTo, profile_history
<1>2. editing[c] \in SettingUp /\ editing[c] # Idling /\ c \in Editors
  BY <1>1, EditFacts DEF ProfileIInv
<1>3. e \in SettingUp /\ e.at = "plan" /\ e.alone = editing[c].alone
  BY <1>0, <1>2 DEF SettingUp
<1>4. editing' = [editing EXCEPT ![c] = e]
  BY <1>0, <1>1
<1>5. EditsAreTyped' /\ AloneIsAlone' /\ AloneIsCurrent'
  <2>1. e \notin Choosing /\ e \notin Connecting /\ SetupIsCurrent(e)'
    BY <1>3 DEF Choosing, Connecting, SetupIsCurrent
  <2> QED BY <1>1, <1>2, <1>3, <1>4, <2>1, EditGoesOn
<1>6. setupProfiles' \in PortRecords
  BY <1>1, <1>2, PortFacts DEF KeptProfiles, SettingUp, PortRecords
<1>7. ProfileTypeOK'
  BY <1>1, <1>6 DEF ProfileIInv, ProfileTypeOK, PortRecords
<1>8. setupProfiles' = setupProfiles \/ settledProfiles = {}
  <2>1. CASE editing[c].alone
    <3>1. SetupIsCurrent(editing[c])
      BY <1>2, <2>1 DEF ProfileIInv, AloneIsCurrent
    <3> QED BY <1>1, <3>1 DEF SetupIsCurrent, KeptProfiles
  <2>2. CASE ~editing[c].alone
    BY <1>2, <2>2 DEF ProfileIInv, AloneIsAlone
  <2> QED BY <2>1, <2>2
<1>9. ProfilesStayWhole'
  BY <1>1, <1>8 DEF ProfileIInv, ProfilesStayWhole
<1> QED BY <1>5, <1>7, <1>9 DEF ProfileIInv

LEMMA PlanEnvsStep ==
  ASSUME ProfileIInv, NEW c \in ProfileCaller, PlanEnvs(c)
  PROVE  ProfileIInv'
<1> DEFINE ports == {setupProfiles[p].port : p \in Connected(setupProfiles)}
           planned == IF ports = {} THEN {0} ELSE ports
<1>0. PICK e : e = [editing[c] EXCEPT !.at = "writeSpawner", !.loaded = planned]
  OBVIOUS
<1>1. /\ editing[c].at = "plan"
      /\ editing' = [editing EXCEPT ![c].at = "writeSpawner", ![c].loaded = planned]
      /\ UNCHANGED <<setupProfiles, profilePort, relayPorts, settledProfiles, autoPorted, choice>>
  BY DEF PlanEnvs, profile_history, profile_files
<1>2. editing[c] \in SettingUp /\ editing[c] # Idling
  BY <1>1, EditFacts DEF ProfileIInv
<1>3. planned \subseteq Port \cup {0} /\ \A p \in Connected(setupProfiles) : setupProfiles[p].port \in planned
  <2>1. \A p \in Connected(setupProfiles) : setupProfiles[p].port \in ports
    OBVIOUS
  <2>2. ASSUME NEW p \in Connected(setupProfiles) PROVE setupProfiles[p].port \in Port \cup {0}
    BY DEF Connected, ProfileIInv, ProfileTypeOK
  <2>3. ports \subseteq Port \cup {0}
    BY <2>2
  <2> HIDE DEF ports
  <2> QED BY <2>1, <2>3
<1> HIDE DEF planned
<1>4. e \in SettingUp /\ e.at = "writeSpawner" /\ e.alone = editing[c].alone /\ e.loaded = planned
  BY <1>0, <1>2, <1>3 DEF SettingUp
<1>5. editing' = [editing EXCEPT ![c] = e]
  BY <1>0, <1>1
<1>6. EditsAreTyped' /\ AloneIsAlone' /\ AloneIsCurrent'
  <2>1. e \notin Choosing /\ e \notin Connecting
    BY <1>4 DEF Choosing, Connecting
  <2>2. SetupIsCurrent(e)'
    BY <1>1, <1>3, <1>4 DEF SetupIsCurrent, Connected
  <2> QED BY <1>1, <1>2, <1>3, <1>4, <1>5, <2>1, <2>2, EditGoesOn
<1>7. ProfileTypeOK' /\ ProfilesStayWhole'
  BY <1>1 DEF ProfileIInv, ProfileTypeOK, ProfilesStayWhole
<1> QED BY <1>6, <1>7 DEF ProfileIInv

LEMMA WriteSpawnerEnvStep ==
  ASSUME ProfileIInv, NEW c \in ProfileCaller, WriteSpawnerEnv(c)
  PROVE  ProfileIInv'
<1>0. PICK e : e = [editing[c] EXCEPT !.at = "loadRefresh"]
  OBVIOUS
<1>1. /\ editing[c].at = "writeSpawner" /\ relayPorts' = editing[c].loaded
      /\ editing' = [editing EXCEPT ![c].at = "loadRefresh"]
      /\ UNCHANGED <<setupProfiles, profilePort, settledProfiles, autoPorted, choice>>
  BY DEF WriteSpawnerEnv, OnTo, profile_history
<1>2. editing[c] \in SettingUp /\ editing[c] # Idling /\ c \in Editors
  BY <1>1, EditFacts DEF ProfileIInv
<1>3. e \in SettingUp /\ e.at = "loadRefresh" /\ e.alone = editing[c].alone
  BY <1>0, <1>2 DEF SettingUp
<1>4. editing' = [editing EXCEPT ![c] = e]
  BY <1>0, <1>1
<1>5. EditsAreTyped' /\ AloneIsAlone' /\ AloneIsCurrent'
  <2>1. e \notin Choosing /\ e \notin Connecting /\ SetupIsCurrent(e)'
    BY <1>3 DEF Choosing, Connecting, SetupIsCurrent
  <2> QED BY <1>1, <1>2, <1>3, <1>4, <2>1, EditGoesOn
<1>6. ProfileTypeOK'
  BY <1>1 DEF ProfileIInv, ProfileTypeOK, EditsAreTyped
<1>7. ProfilesStayWhole'
  <2>1. CASE editing[c].alone
    <3>1. SetupIsCurrent(editing[c])
      BY <1>2, <2>1 DEF ProfileIInv, AloneIsCurrent
    <3>2. ASSUME NEW p \in settledProfiles PROVE setupProfiles[p].port \in relayPorts'
      <4>1. p \in Connected(setupProfiles)
        BY DEF ProfileIInv, ProfileTypeOK, ProfilesStayWhole, Connected
      <4> QED BY <1>1, <3>1, <4>1 DEF SetupIsCurrent
    <3> QED BY <1>1, <3>2 DEF ProfileIInv, ProfilesStayWhole
  <2>2. CASE ~editing[c].alone
    <3>1. settledProfiles' = {}
      BY <1>1, <1>2, <2>2 DEF ProfileIInv, AloneIsAlone
    <3> QED BY <3>1 DEF ProfilesStayWhole
  <2> QED BY <2>1, <2>2
<1> QED BY <1>5, <1>6, <1>7 DEF ProfileIInv

LEMMA LoadRefreshStep ==
  ASSUME ProfileIInv, NEW c \in ProfileCaller, LoadRefresh(c)
  PROVE  ProfileIInv'
<1> DEFINE ports == [p \in NamedProfile |-> setupProfiles[p].port]
<1>0. PICK e : e = [editing[c] EXCEPT !.at = "refresh", !.loaded = Connected(setupProfiles), !.ports = ports]
  OBVIOUS
<1>1. /\ editing[c].at = "loadRefresh"
      /\ editing' = [editing EXCEPT ![c].at = "refresh", ![c].loaded = Connected(setupProfiles),
                                    ![c].ports = ports]
      /\ UNCHANGED <<setupProfiles, profilePort, relayPorts, settledProfiles, autoPorted, choice>>
  BY DEF LoadRefresh, profile_history, profile_files
<1>2. editing[c] \in SettingUp /\ editing[c] # Idling
  BY <1>1, EditFacts DEF ProfileIInv
<1>3. /\ ports \in [NamedProfile -> Port \cup {0}] /\ Connected(setupProfiles) \subseteq NamedProfile
      /\ \A p \in NamedProfile : ports[p] = setupProfiles[p].port
  BY DEF Connected, ProfileIInv, ProfileTypeOK
<1> HIDE DEF ports
<1>4. e \in SettingUp /\ e.at = "refresh" /\ e.alone = editing[c].alone /\ e.ports = ports
      /\ e.loaded = Connected(setupProfiles)
  <2>1. PICK connected : connected = Connected(setupProfiles) /\ connected \subseteq NamedProfile
    BY <1>3
  <2>2. e = [editing[c] EXCEPT !.at = "refresh", !.loaded = connected, !.ports = ports]
    BY <1>0, <2>1
  <2>3. e \in SettingUp /\ e.at = "refresh" /\ e.alone = editing[c].alone /\ e.ports = ports
        /\ e.loaded = connected
    <3>1. /\ e.at = "refresh" /\ e.alone = editing[c].alone /\ e.ports = ports /\ e.loaded = connected
          /\ e.external = editing[c].external /\ e.snapshot = editing[c].snapshot
      BY <1>2, <2>2 DEF SettingUp
    <3>2. ports \in [NamedProfile -> Port \cup {0}]
      BY <1>3
    <3>3. connected \in (SUBSET (Port \cup {0})) \cup (SUBSET NamedProfile)
      BY <2>1
    <3>4. e = [at |-> "refresh", external |-> editing[c].external, loaded |-> connected, ports |-> ports,
               snapshot |-> editing[c].snapshot, alone |-> editing[c].alone]
      BY <1>2, <2>2 DEF SettingUp
    <3> QED BY <1>2, <3>1, <3>2, <3>3, <3>4 DEF SettingUp
  <2> QED BY <2>1, <2>3
<1>5. editing' = [editing EXCEPT ![c] = e]
  BY <1>0, <1>1
<1>6. EditsAreTyped' /\ AloneIsAlone' /\ AloneIsCurrent'
  <2>1. e \notin Choosing /\ e \notin Connecting
    BY <1>4 DEF Choosing, Connecting
  <2>2. SetupIsCurrent(e)'
    BY <1>1, <1>3, <1>4 DEF SetupIsCurrent
  <2> QED BY <1>1, <1>2, <1>3, <1>4, <1>5, <2>1, <2>2, EditGoesOn, ZenonT(30)
<1>7. ProfileTypeOK' /\ ProfilesStayWhole'
  BY <1>1 DEF ProfileIInv, ProfileTypeOK, ProfilesStayWhole
<1> QED BY <1>6, <1>7 DEF ProfileIInv

LEMMA RefreshProfileStep ==
  ASSUME ProfileIInv, NEW c \in ProfileCaller, RefreshProfile(c)
  PROVE  ProfileIInv'
<1>1. /\ editing[c].at = "refresh"
      /\ UNCHANGED <<setupProfiles, relayPorts, settledProfiles, autoPorted, choice>>
  BY DEF RefreshProfile, profile_history
<1>2. PICK p \in editing[c].loaded :
        /\ profilePort' = [profilePort EXCEPT ![p] = editing[c].ports[p]]
        /\ editing' = [editing EXCEPT ![c].loaded = @ \ {p}]
  BY DEF RefreshProfile
<1>0. PICK e : e = [editing[c] EXCEPT !.loaded = @ \ {p}]
  OBVIOUS
<1>3. editing[c] \in SettingUp /\ editing[c] # Idling /\ c \in Editors /\ editing[c].loaded \subseteq NamedProfile
  BY <1>1, EditFacts DEF ProfileIInv, EditsAreTyped
<1>4. /\ e \in SettingUp /\ e.at = "refresh" /\ e.alone = editing[c].alone /\ e.ports = editing[c].ports
      /\ e.loaded \subseteq NamedProfile
  <2>1. editing[c].loaded \ {p} \subseteq NamedProfile
    BY <1>3
  <2> QED BY <1>0, <1>1, <1>3, <2>1 DEF SettingUp
<1>5. editing' = [editing EXCEPT ![c] = e]
  BY <1>0, <1>2
<1>6. EditsAreTyped' /\ AloneIsAlone' /\ AloneIsCurrent'
  <2>1. e \notin Choosing /\ e \notin Connecting
    BY <1>4 DEF Choosing, Connecting
  <2>2. e.alone => SetupIsCurrent(e)'
    <3>1. e.alone => SetupIsCurrent(editing[c])
      BY <1>3, <1>4 DEF ProfileIInv, AloneIsCurrent
    <3> QED BY <1>1, <1>4, <3>1 DEF SetupIsCurrent
  <2> QED BY <1>1, <1>3, <1>4, <1>5, <2>1, <2>2, EditGoesOn
<1>7. p \in NamedProfile /\ editing[c].ports[p] \in Port \cup {0}
  BY <1>2, <1>3 DEF SettingUp
<1>8. ProfileTypeOK'
  BY <1>1, <1>2, <1>7 DEF ProfileIInv, ProfileTypeOK
<1>9. ProfilesStayWhole'
  <2>1. CASE editing[c].alone
    <3>1. editing[c].ports[p] = setupProfiles[p].port
      BY <1>1, <1>3, <1>7, <2>1 DEF ProfileIInv, AloneIsCurrent, SetupIsCurrent
    <3>2. ASSUME NEW q \in settledProfiles PROVE profilePort'[q] = setupProfiles[q].port
      BY <1>2, <3>1 DEF ProfileIInv, ProfileTypeOK, ProfilesStayWhole
    <3> QED BY <1>1, <3>2 DEF ProfileIInv, ProfilesStayWhole
  <2>2. CASE ~editing[c].alone
    <3>1. settledProfiles' = {}
      BY <1>1, <1>3, <2>2 DEF ProfileIInv, AloneIsAlone
    <3> QED BY <3>1 DEF ProfilesStayWhole
  <2> QED BY <2>1, <2>2
<1> QED BY <1>6, <1>8, <1>9 DEF ProfileIInv

LEMMA EndEditStep ==
  ASSUME ProfileIInv, NEW c \in ProfileCaller, EndSetup(c) \/ KillEdit(c)
  PROVE  ProfileIInv'
<1>1. /\ editing[c].at = "refresh" \/ c \in Editors
      /\ editing' = [editing EXCEPT ![c] = Idling]
      /\ UNCHANGED <<setupProfiles, profilePort, relayPorts, settledProfiles, autoPorted, choice>>
  BY DEF EndSetup, KillEdit, Done, profile_history, profile_files
<1>2. editing[c] # Idling
  BY <1>1, EditFacts DEF ProfileIInv, Editors
<1>3. EditsAreTyped' /\ AloneIsAlone' /\ AloneIsCurrent'
  <2>1. choice' \in [NamedProfile -> BOOLEAN] /\ autoPorted' \subseteq NamedProfile
    BY <1>1 DEF ProfileIInv, EditsAreTyped
  <2> QED BY <1>1, <1>2, <2>1, EditEnds
<1>4. ProfileTypeOK' /\ ProfilesStayWhole'
  BY <1>1 DEF ProfileIInv, ProfileTypeOK, ProfilesStayWhole
<1> QED BY <1>3, <1>4 DEF ProfileIInv

LEMMA ProfileNextInv == ProfileIInv /\ [ProfileNext]_profile_vars => ProfileIInv'
<1> SUFFICES ASSUME ProfileIInv, [ProfileNext]_profile_vars PROVE ProfileIInv'
  OBVIOUS
<1>1. CASE ProfileNext
  BY <1>1, BeginConnectStep, BeginChooseStep, BeginSetupStep, WriteProfileEnvStep, ReadRelayUrlsStep,
     WriteRelayUrlsStep, SaveConnectedStep, SaveChoiceStep, SaveSetupStep, PlanEnvsStep,
     WriteSpawnerEnvStep, LoadRefreshStep, RefreshProfileStep, EndEditStep DEF ProfileNext
<1>2. CASE UNCHANGED profile_vars
  <2>1. UNCHANGED <<setupProfiles, profilePort, relayPorts, editing, settledProfiles, autoPorted, choice>>
    BY <1>2 DEF profile_vars
  <2>2. EditsAreTyped' /\ ProfileTypeOK'
    BY <2>1 DEF ProfileIInv, EditsAreTyped, ProfileTypeOK
  <2>3. AloneIsAlone' /\ ProfilesStayWhole'
    BY <2>1 DEF ProfileIInv, AloneIsAlone, Editors, ProfilesStayWhole
  <2>4. AloneIsCurrent'
    BY <2>1 DEF ProfileIInv, AloneIsCurrent, ConnectIsCurrent, SetupIsCurrent, Connected
  <2> QED BY <2>2, <2>3, <2>4 DEF ProfileIInv
<1> QED BY <1>1, <1>2

(* The inductive invariant holds in every reachable state. *)
LEMMA ProfilesInductive == ProfileSpec => []ProfileIInv
BY ProfileInitInv, ProfileNextInv, PTL DEF ProfileSpec

(* A profile that was connected by a command that ran alone stays whole    *)
(* while commands run one at a time: for any profiles, callers and ports.  *)
THEOREM SettledProfilesStayWhole == ProfileSpec => []ProfilesStayWhole
<1>1. ProfileIInv => ProfilesStayWhole
  BY DEF ProfileIInv
<1> QED BY <1>1, ProfilesInductive, PTL

-----------------------------------------------------------------------------
(* Setup and onboarding.                                                   *)

LEMMA RunFacts ==
  ASSUME SetupIInv
  PROVE  /\ AtStep("none") => run = NotSettingUp
         /\ ~AtStep("none") /\ ~AtStep("onboarding") => run \in Stepping
         /\ run \in Stepping => ~AtStep("none") /\ ~AtStep("onboarding")
BY DEF SetupIInv, Stepping, NotSettingUp, AtStep

(* Roles are resolved to roles; and a second time, from what the first     *)
(* time has saved, to the same, unless the command line splits them.       *)
LEMMA RolesAreRoles ==
  ASSUME NEW ask \in CommandLine, NEW recorded, recorded = Unnamed \/ recorded \in Configuration
  PROVE  ResolveRoles(ask, recorded) \in Roles
<1>1. ask.default \in Provider \cup {Unnamed} /\ ask.agent \in Provider \cup {Unnamed}
  BY DEF CommandLine
<1>2. \A r \in Role : ask.named[r] \in Provider \cup {Unnamed}
  BY DEF CommandLine
<1>3. recorded # Unnamed => recorded.roles["chat"] \in Provider \cup {"not_configured"}
  BY DEF Configuration, Roles, Role
<1>4. ResolveProvider(ask, recorded) \in Provider \cup {"not_configured"}
  BY <1>1, <1>3 DEF ResolveProvider
<1> QED BY <1>1, <1>2, <1>4 DEF ResolveRoles, Roles, Role

LEMMA RolesStayResolved ==
  ASSUME NEW ask \in CommandLine, NEW recorded, recorded = Unnamed \/ recorded \in Configuration,
         NEW saved, saved # Unnamed, saved.roles = ResolveRoles(ask, recorded), ~SplitsRoles(ask)
  PROVE  ResolveRoles(ask, saved) = saved.roles
<1>1. PICK p : p = ResolveProvider(ask, recorded)
  OBVIOUS
<1>2. PICK q : q = ResolveProvider(ask, saved)
  OBVIOUS
<1>3. CASE ask.default # Unnamed
  <2>1. p = ask.default /\ q = ask.default
    BY <1>1, <1>2, <1>3 DEF ResolveProvider
  <2> QED BY <1>1, <1>2, <2>1 DEF ResolveRoles
<1>4. CASE ask.default = Unnamed /\ ask.agent = Unnamed /\ ask.named["chat"] = Unnamed
  <2>1. saved.roles = [r \in Role |-> IF ask.named[r] # Unnamed THEN ask.named[r] ELSE p]
    BY <1>1, <1>4 DEF ResolveRoles
  <2>2. q = p
    BY <1>2, <1>4, <2>1 DEF ResolveProvider, Role
  <2> QED BY <1>2, <1>4, <2>1, <2>2 DEF ResolveRoles
<1>5. CASE ask.default = Unnamed /\ (ask.agent # Unnamed \/ ask.named["chat"] # Unnamed)
  <2>1. \A r \in Role : ask.named[r] # Unnamed \/ (r # "mission" /\ ask.agent # Unnamed)
    BY <1>5 DEF SplitsRoles
  <2> QED BY <2>1 DEF ResolveRoles
<1> QED BY <1>3, <1>4, <1>5

LEMMA FilesAsTheyWere ==
  ASSUME UNCHANGED <<setup, pending, stored, registered, envs, torn, split>>
  PROVE  /\ SetupSettled => SetupSettled'
         /\ Agrees => Agrees'
         /\ EnvsAreThere => EnvsAreThere'
BY DEF SetupSettled, Agrees, EnvsAreThere

LEMMA SetupInitInv == SetupInit => SetupIInv
<1> SUFFICES ASSUME SetupInit PROVE SetupIInv
  OBVIOUS
<1>1. run = NotSettingUp /\ run.at = "none" /\ run \notin Stepping
  BY DEF SetupInit, NotSettingUp, Stepping
<1>2. SetupTypeOK
  <2>1. {unsettled, torn, split} \subseteq BOOLEAN
    BY DEF SetupInit
  <2>2. setups \in 0..MaxSetups /\ setupKills \in 0..MaxSetupKills
    BY SetupAssumption DEF SetupInit
  <2>3. envs \in [ConfiguredModule -> Roles \cup {Unnamed}]
    BY DEF SetupInit
  <2> QED BY <2>1, <2>2, <2>3 DEF SetupInit, SetupTypeOK
<1>3. StepsDone /\ SettledBeforeSave /\ PausesAreSettled
  BY <1>1 DEF SetupInit, StepsDone, SettledBeforeSave, PausesAreSettled, SetupSettled, AtStep, Installing
<1> QED BY <1>1, <1>2, <1>3 DEF SetupIInv

(* A setup begins, or onboard does. *)
LEMMA BeginWithStep ==
  ASSUME SetupIInv, AtStep("none"), NEW ask \in CommandLine, NEW bundle \in {"starter", "voice"},
         BeginWith(ask, bundle), SetupTypeOK', UNCHANGED <<files, unsettled, torn, split>>
  PROVE  SetupIInv'
<1>1. run' \in Stepping
  BY DEF BeginWith, Stepping
<1>2. run'.at = "plan" /\ run'.existed = (setup # Unnamed /\ registered # {})
  BY DEF BeginWith
<1>3. SetupSettled' /\ (EnvsAreThere => EnvsAreThere')
  BY FilesAsTheyWere DEF SetupIInv, SettledBeforeSave, BeforeSave, files
<1>4. StepsDone' /\ SettledBeforeSave'
  BY <1>2, <1>3 DEF StepsDone, SettledBeforeSave, AtStep, Installing
<1>5. PausesAreSettled'
  BY <1>2, <1>3 DEF SetupIInv, PausesAreSettled, BeforeSave, AtStep, Installing, files
<1> QED BY <1>1, <1>4, <1>5 DEF SetupIInv

LEMMA BundlesAreBundles ==
  ASSUME SetupIInv, NEW bundle \in {"starter", "voice"}
  PROVE  ResumedBundle(bundle) \in {"starter", "voice"} /\ OnboardBundle \in {"starter", "voice"}
<1>1. pending # Unnamed => pending.bundle \in {"starter", "voice", Unnamed}
  BY DEF SetupIInv, SetupTypeOK, PendingSetup
<1>2. setup # Unnamed => setup.bundle \in {"starter", "voice"}
  BY DEF SetupIInv, SetupTypeOK, Configuration
<1> QED BY <1>1, <1>2 DEF ResumedBundle, OnboardBundle

LEMMA BeginsAreTyped ==
  ASSUME SetupIInv, setups < MaxSetups, setups' = setups + 1, UNCHANGED <<files, unsettled, torn, split, setupKills>>
  PROVE  SetupTypeOK'
<1>1. setups' \in 0..MaxSetups
  BY SetupAssumption DEF SetupIInv, SetupTypeOK
<1> QED BY <1>1 DEF SetupIInv, SetupTypeOK, files

LEMMA RunSetupStep ==
  ASSUME SetupIInv, RunSetup
  PROVE  SetupIInv'
<1>1. PICK ask \in SetupAsk :
        BeginWith(ask, IF ask.resume THEN ResumedBundle(ask.bundle) ELSE ask.bundle)
  BY DEF RunSetup
<1>2. ask \in CommandLine /\ ask.bundle \in {"starter", "voice"}
  BY <1>1, SetupAssumption DEF CommandLine
<1>3. PICK bundle : bundle = IF ask.resume THEN ResumedBundle(ask.bundle) ELSE ask.bundle
  OBVIOUS
<1>4. bundle \in {"starter", "voice"}
  BY <1>2, <1>3, BundlesAreBundles
<1>5. AtStep("none") /\ SetupTypeOK' /\ UNCHANGED <<files, unsettled, torn, split>>
  BY BeginsAreTyped DEF RunSetup
<1> QED BY <1>1, <1>2, <1>3, <1>4, <1>5, BeginWithStep

LEMMA OnboardStep ==
  ASSUME SetupIInv, Onboard
  PROVE  SetupIInv'
<1>1. AtStep("none") /\ SetupTypeOK' /\ UNCHANGED <<files, unsettled, torn, split>>
  BY BeginsAreTyped DEF Onboard
<1>2. CASE SetupNeeded
  <2>1. BeginWith(NothingNamed, ResumedBundle(OnboardBundle))
    BY <1>2 DEF Onboard
  <2>2. NothingNamed \in CommandLine
    BY DEF NothingNamed, CommandLine
  <2>3. OnboardBundle \in {"starter", "voice"}
    BY BundlesAreBundles
  <2>4. ResumedBundle(OnboardBundle) \in {"starter", "voice"}
    BY <2>3, BundlesAreBundles
  <2> QED BY <1>1, <2>1, <2>2, <2>4, BeginWithStep
<1>3. CASE ~SetupNeeded
  <2>1. run' = [at |-> "onboarding"]
    BY <1>3 DEF Onboard
  <2>2. run'.at = "onboarding" /\ run' \notin Stepping
    BY <2>1 DEF Stepping
  <2>3. SetupSettled' /\ (EnvsAreThere => EnvsAreThere')
    BY <1>1, FilesAsTheyWere DEF SetupIInv, SettledBeforeSave, BeforeSave, files
  <2>4. StepsDone' /\ SettledBeforeSave'
    BY <2>2, <2>3 DEF StepsDone, SettledBeforeSave, AtStep, Installing
  <2>5. PausesAreSettled'
    BY <1>1, <2>2, <2>3 DEF SetupIInv, PausesAreSettled, BeforeSave, AtStep, Installing, files
  <2> QED BY <1>1, <2>1, <2>4, <2>5 DEF SetupIInv
<1> QED BY <1>2, <1>3

(* An invocation ends. *)
LEMMA RunEnds ==
  ASSUME run' = NotSettingUp, SetupTypeOK', SetupSettled',
         ~unsettled' => /\ pending' # Unnamed => pending'.kind = "paused"
                        /\ (setup' = Unnamed /\ pending' = Unnamed) \/ EnvsAreThere'
  PROVE  SetupIInv'
<1>1. run'.at = "none" /\ run' \notin Stepping
  BY DEF NotSettingUp, Stepping
<1>2. StepsDone' /\ SettledBeforeSave'
  BY <1>1 DEF StepsDone, SettledBeforeSave, AtStep, Installing
<1>3. PausesAreSettled'
  BY <1>1 DEF PausesAreSettled, BeforeSave, AtStep, Installing
<1> QED BY <1>2, <1>3 DEF SetupIInv

LEMMA PendingIsRecorded ==
  ASSUME SetupIInv, ~AtStep("none"), ~AtStep("onboarding"), NEW backend \in BOOLEAN
  PROVE  /\ PendingRecord(backend) \in PendingSetup /\ PendingRecord(backend) # Unnamed
         /\ CanPause(backend) => PendingRecord(backend).kind = "paused"
<1>1. run \in Stepping
  BY RunFacts
<1>2. run.new # Unnamed => run.new.bundle \in {"starter", "voice"}
  BY <1>1 DEF Stepping, Configuration
<1>3. PendingRecord(backend) \in PendingSetup
  BY <1>2 DEF PendingRecord, PendingSetup
<1> QED BY <1>3, SetupAssumption DEF PendingRecord

LEMMA StopStep ==
  ASSUME SetupIInv, ~AtStep("none"), ~AtStep("onboarding"), NEW backend \in BOOLEAN, Stop(backend),
         backend => AtStep("store"), UNCHANGED <<setup, stored, registered, envs, torn, split, setups, setupKills>>
  PROVE  SetupIInv'
<1>1. /\ run' = NotSettingUp /\ pending' = PendingRecord(backend)
      /\ unsettled' = (unsettled \/ ~CanPause(backend))
  BY DEF Stop
<1>2. pending' # Unnamed /\ pending' \in PendingSetup /\ (CanPause(backend) => pending'.kind = "paused")
  BY <1>1, PendingIsRecorded
<1>3. unsettled' \in BOOLEAN
  BY <1>1 DEF CanPause
<1>4. SetupTypeOK'
  BY <1>2, <1>3 DEF SetupIInv, SetupTypeOK
<1>5. SetupSettled'
  BY <1>2 DEF SetupSettled
<1>6. ASSUME ~unsettled'
      PROVE  pending'.kind = "paused" /\ EnvsAreThere'
  <2>1. ~unsettled /\ CanPause(backend)
    BY <1>1, <1>6
  <2>2. AtStep("store") /\ run.existed
    BY <2>1 DEF CanPause
  <2>3. EnvsAreThere
    BY <2>1, <2>2 DEF SetupIInv, PausesAreSettled, Installing
  <2> QED BY <1>2, <2>1, <2>3 DEF EnvsAreThere
<1> QED BY <1>1, <1>2, <1>4, <1>5, <1>6, RunEnds

LEMMA StopSetupStep ==
  ASSUME SetupIInv, StopSetup
  PROVE  SetupIInv'
<1>1. CASE ~AtStep("none") /\ ~AtStep("onboarding") /\ Stop(FALSE)
  BY <1>1, StopStep DEF StopSetup
<1>2. CASE AtStep("store") /\ Stop(TRUE)
  <2>1. ~AtStep("none") /\ ~AtStep("onboarding")
    BY <1>2 DEF AtStep
  <2> QED BY <1>2, <2>1, StopStep DEF StopSetup
<1>3. CASE AtStep("onboarding") /\ run' = NotSettingUp /\ UNCHANGED <<pending, unsettled>>
  <2>1. UNCHANGED <<setup, pending, stored, registered, envs, unsettled, torn, split, setups, setupKills>>
    BY <1>3 DEF StopSetup
  <2>2. SetupTypeOK'
    BY <2>1 DEF SetupIInv, SetupTypeOK
  <2>3. BeforeSave
    BY <1>3 DEF BeforeSave
  <2>4. SetupSettled' /\ (EnvsAreThere => EnvsAreThere')
    BY <2>1, <2>3, FilesAsTheyWere DEF SetupIInv, SettledBeforeSave
  <2> QED BY <1>3, <2>1, <2>2, <2>3, <2>4, RunEnds DEF SetupIInv, PausesAreSettled
<1> QED BY <1>1, <1>2, <1>3 DEF StopSetup

LEMMA EndEarlyStep ==
  ASSUME SetupIInv, EndEarly
  PROVE  SetupIInv'
<1>1. run' = NotSettingUp /\ torn' = TRUE /\ unsettled' = TRUE
  BY DEF EndEarly
<1>2. setupKills' \in 0..MaxSetupKills
  BY SetupAssumption DEF EndEarly, SetupIInv, SetupTypeOK
<1>3. SetupTypeOK'
  BY <1>1, <1>2 DEF EndEarly, SetupIInv, SetupTypeOK, files
<1> QED BY <1>1, <1>3, RunEnds DEF SetupSettled

-----------------------------------------------------------------------------
(* The steps of a setup.                                                   *)

LEMMA ResolvePlanStep ==
  ASSUME SetupIInv, ResolvePlan
  PROVE  SetupIInv'
<1>1. run \in Stepping /\ run.at = "plan" /\ run' = [run EXCEPT !.at = "collect"]
  BY RunFacts DEF ResolvePlan, AtStep, GoTo
<1>2. UNCHANGED <<files, unsettled, torn, split, setups, setupKills>>
  BY DEF ResolvePlan
<1>3. run' \in Stepping /\ run'.at = "collect" /\ run'.existed = run.existed
  BY <1>1 DEF Stepping
<1>4. SetupTypeOK'
  BY <1>2 DEF SetupIInv, SetupTypeOK, files
<1>5. SetupSettled' /\ (EnvsAreThere => EnvsAreThere')
  BY <1>1, <1>2, FilesAsTheyWere DEF SetupIInv, SettledBeforeSave, BeforeSave, AtStep, files
<1>6. StepsDone' /\ SettledBeforeSave'
  BY <1>3, <1>5 DEF StepsDone, SettledBeforeSave, AtStep, Installing
<1>7. PausesAreSettled'
  BY <1>1, <1>2, <1>3, <1>5 DEF SetupIInv, PausesAreSettled, BeforeSave, AtStep, Installing, files
<1> QED BY <1>3, <1>4, <1>6, <1>7 DEF SetupIInv

LEMMA CollectConfigurationStep ==
  ASSUME SetupIInv, CollectConfiguration
  PROVE  SetupIInv'
<1>1. run \in Stepping /\ run.at = "collect" /\ Required \subseteq Collected
  BY RunFacts DEF CollectConfiguration, AtStep
<1>2. PICK new : new = [bundle |-> run.bundle, roles |-> ResolveRoles(run.ask, setup),
                        keys |-> PreservedKeys \cup Collected]
  OBVIOUS
<1>3. run' = [run EXCEPT !.at = "save", !.values = Collected, !.new = new]
  BY <1>2 DEF CollectConfiguration
<1>4. UNCHANGED <<files, unsettled, torn, split, setups, setupKills>>
  BY DEF CollectConfiguration
<1>5. run.ask \in CommandLine /\ run.bundle \in {"starter", "voice"} /\ run.ask.given \subseteq SetupSecret
  BY <1>1 DEF Stepping, CommandLine
<1>6. setup = Unnamed \/ setup \in Configuration
  BY DEF SetupIInv, SetupTypeOK
<1>7. Collected \subseteq SetupSecret
  BY <1>5 DEF Collected, SetupIInv, SetupTypeOK, SetupSecret
<1>8. PreservedKeys \subseteq SetupSecret
  BY <1>6 DEF PreservedKeys, Configuration
<1>9. new \in Configuration
  BY <1>2, <1>5, <1>6, <1>7, <1>8, RolesAreRoles DEF Configuration
<1>10. new # Unnamed /\ new.bundle = run.bundle /\ new.roles = ResolveRoles(run.ask, setup)
  BY <1>2, <1>9, SetupAssumption
<1>11. ~SplitsRoles(run.ask) => ResolveRoles(run.ask, new) = new.roles
  BY <1>5, <1>6, <1>10, RolesStayResolved
<1>12. run' \in Stepping
  BY <1>1, <1>3, <1>7, <1>9 DEF Stepping
<1>13. /\ run'.at = "save" /\ run'.existed = run.existed /\ run'.new = new /\ run'.values = Collected
       /\ run'.ask = run.ask /\ run'.bundle = run.bundle
  BY <1>1, <1>3 DEF Stepping
<1>14. SetupTypeOK'
  BY <1>4 DEF SetupIInv, SetupTypeOK, files
<1>15. SetupSettled' /\ (EnvsAreThere => EnvsAreThere')
  BY <1>1, <1>4, FilesAsTheyWere DEF SetupIInv, SettledBeforeSave, BeforeSave, AtStep, files
<1>16. StepsDone'
  <2>1. /\ run'.new # Unnamed /\ run'.new.bundle = run'.bundle /\ Required \subseteq run'.values
        /\ ~SplitsRoles(run'.ask) => ResolveRoles(run'.ask, run'.new) = run'.new.roles
    BY <1>1, <1>10, <1>11, <1>13
  <2> QED BY <1>13, <2>1 DEF StepsDone, AtStep, Installing
<1>17. SettledBeforeSave'
  BY <1>13, <1>15 DEF SettledBeforeSave, AtStep
<1>18. PausesAreSettled'
  BY <1>1, <1>4, <1>13, <1>15 DEF SetupIInv, PausesAreSettled, BeforeSave, AtStep, Installing, files
<1> QED BY <1>12, <1>14, <1>16, <1>17, <1>18 DEF SetupIInv

LEMMA SaveConfigurationStep ==
  ASSUME SetupIInv, SaveConfiguration
  PROVE  SetupIInv'
<1>1. run \in Stepping /\ run.at = "save" /\ run' = [run EXCEPT !.at = "install"] /\ setup' = run.new
  BY RunFacts DEF SaveConfiguration, AtStep, GoTo
<1>2. UNCHANGED <<pending, stored, registered, envs, unsettled, torn, split, setups, setupKills>>
  BY DEF SaveConfiguration
<1>3. run' \in Stepping
  BY <1>1 DEF Stepping
<1>4. /\ run'.at = "install" /\ run'.existed = run.existed /\ run'.new = run.new /\ run'.values = run.values
      /\ run'.ask = run.ask /\ run'.bundle = run.bundle
  BY <1>1 DEF Stepping
<1>5. /\ run.new # Unnamed /\ run.new.bundle = run.bundle /\ Required \subseteq run.values
      /\ ~SplitsRoles(run.ask) => ResolveRoles(run.ask, run.new) = run.new.roles
  BY <1>1 DEF SetupIInv, StepsDone, AtStep
<1>6. run.new \in Configuration
  BY <1>1, <1>5 DEF Stepping
<1>7. SetupTypeOK'
  BY <1>1, <1>2, <1>6 DEF SetupIInv, SetupTypeOK
<1>8. StepsDone'
  <2>1. /\ run'.new # Unnamed /\ run'.new.bundle = run'.bundle /\ Required \subseteq run'.values
        /\ ~SplitsRoles(run'.ask) => ResolveRoles(run'.ask, run'.new) = run'.new.roles
        /\ setup' # Unnamed /\ setup'.bundle = run'.bundle /\ setup' = run'.new
    BY <1>1, <1>4, <1>5
  <2> QED BY <1>4, <2>1 DEF StepsDone, AtStep, Installing
<1>9. SettledBeforeSave'
  BY <1>4 DEF SettledBeforeSave, BeforeSave, AtStep
<1>10. PausesAreSettled'
  <2>1. ASSUME ~unsettled'
        PROVE  /\ pending' # Unnamed => pending'.kind = "paused"
               /\ run'.existed => EnvsAreThere'
    <3>1. /\ pending # Unnamed => pending.kind = "paused"
          /\ (setup = Unnamed /\ pending = Unnamed) \/ EnvsAreThere
          /\ run.existed => setup # Unnamed
      BY <1>1, <1>2, <2>1 DEF SetupIInv, PausesAreSettled, BeforeSave, AtStep
    <3> QED BY <1>2, <1>4, <3>1 DEF EnvsAreThere
  <2> QED BY <1>4, <2>1 DEF PausesAreSettled, BeforeSave, AtStep, Installing
<1> QED BY <1>3, <1>7, <1>8, <1>9, <1>10 DEF SetupIInv

LEMMA InstallBundleStep ==
  ASSUME SetupIInv, InstallBundle
  PROVE  SetupIInv'
<1>1. /\ run \in Stepping /\ run.at = "install" /\ run' = [run EXCEPT !.at = "store"]
      /\ registered' = registered \cup ModulesOf(run.bundle)
  BY RunFacts DEF InstallBundle, AtStep, GoTo
<1>2. UNCHANGED <<setup, pending, stored, envs, unsettled, torn, split, setups, setupKills>>
  BY DEF InstallBundle
<1>3. run' \in Stepping
  BY <1>1 DEF Stepping
<1>4. /\ run'.at = "store" /\ run'.existed = run.existed /\ run'.new = run.new /\ run'.values = run.values
      /\ run'.ask = run.ask /\ run'.bundle = run.bundle
  BY <1>1 DEF Stepping
<1>5. SetupTypeOK'
  BY <1>1, <1>2 DEF SetupIInv, SetupTypeOK, ModulesOf
<1>6. StepsDone'
  <2>1. /\ run.new # Unnamed /\ run.new.bundle = run.bundle /\ Required \subseteq run.values
        /\ ~SplitsRoles(run.ask) => ResolveRoles(run.ask, run.new) = run.new.roles
        /\ setup # Unnamed /\ setup.bundle = run.bundle /\ setup = run.new
    BY <1>1 DEF SetupIInv, StepsDone, AtStep, Installing
  <2>2. /\ run'.new # Unnamed /\ run'.new.bundle = run'.bundle /\ Required \subseteq run'.values
        /\ ~SplitsRoles(run'.ask) => ResolveRoles(run'.ask, run'.new) = run'.new.roles
        /\ setup' # Unnamed /\ setup'.bundle = run'.bundle /\ setup' = run'.new
        /\ ModulesOf(run'.bundle) \subseteq registered'
    BY <1>1, <1>2, <1>4, <2>1
  <2> QED BY <1>4, <2>2 DEF StepsDone, AtStep, Installing
<1>7. SettledBeforeSave'
  BY <1>4 DEF SettledBeforeSave, BeforeSave, AtStep
<1>8. PausesAreSettled'
  <2>1. EnvsAreThere => EnvsAreThere'
    BY <1>1, <1>2 DEF EnvsAreThere
  <2> QED BY <1>1, <1>2, <1>4, <2>1 DEF SetupIInv, PausesAreSettled, BeforeSave, AtStep, Installing
<1> QED BY <1>3, <1>5, <1>6, <1>7, <1>8 DEF SetupIInv

LEMMA StoreSecretStep ==
  ASSUME SetupIInv, StoreSecret
  PROVE  SetupIInv'
<1>1. run \in Stepping /\ run.at = "store" /\ run.values \subseteq SetupSecret
  BY RunFacts DEF StoreSecret, AtStep, Stepping
<1>2. PICK s \in run.values : stored' = stored \cup {s}
  BY DEF StoreSecret
<1>3. UNCHANGED <<setup, pending, registered, envs, run, unsettled, torn, split, setups, setupKills>>
  BY DEF StoreSecret
<1>4. SetupTypeOK'
  BY <1>1, <1>2, <1>3 DEF SetupIInv, SetupTypeOK
<1>5. EnvsAreThere => EnvsAreThere'
  BY <1>2, <1>3 DEF EnvsAreThere
<1>6. StepsDone'
  BY <1>1, <1>3 DEF SetupIInv, StepsDone, AtStep, Installing
<1>7. SettledBeforeSave'
  BY <1>1, <1>3 DEF SettledBeforeSave, BeforeSave, AtStep
<1>8. PausesAreSettled'
  BY <1>1, <1>3, <1>5 DEF SetupIInv, PausesAreSettled, BeforeSave, AtStep, Installing
<1> QED BY <1>1, <1>3, <1>4, <1>6, <1>7, <1>8 DEF SetupIInv

LEMMA PlanModuleEnvsStep ==
  ASSUME SetupIInv, PlanModuleEnvs
  PROVE  SetupIInv'
<1>1. run \in Stepping /\ run.at = "store" /\ run.values \subseteq stored
  BY RunFacts DEF PlanModuleEnvs, AtStep, SecretsFirst
<1>2. UNCHANGED <<files, unsettled, torn, split, setups, setupKills>>
  BY DEF PlanModuleEnvs
<1>3. /\ run.new # Unnamed /\ run.new.bundle = run.bundle /\ Required \subseteq run.values
      /\ ~SplitsRoles(run.ask) => ResolveRoles(run.ask, run.new) = run.new.roles
      /\ setup # Unnamed /\ setup.bundle = run.bundle /\ setup = run.new
      /\ ModulesOf(run.bundle) \subseteq registered
  BY <1>1 DEF SetupIInv, StepsDone, AtStep, Installing
<1>4. run.ask \in CommandLine /\ run.new \in Configuration
  BY <1>1, <1>3 DEF Stepping
<1>5. PICK roles \in Roles : roles = ResolveRoles(run.ask, setup)
  BY <1>3, <1>4, RolesAreRoles
<1>6. PICK new : new = [run.new EXCEPT !.roles = roles]
  OBVIOUS
<1>7. new \in Configuration /\ new.bundle = run.new.bundle /\ new.roles = roles
  BY <1>4, <1>5, <1>6 DEF Configuration
<1>8. run' = [run EXCEPT !.at = "envs", !.left = ConfiguredModule, !.new = new]
  BY <1>1, <1>5, <1>6 DEF PlanModuleEnvs, Stepping
<1>9. run' \in Stepping
  BY <1>1, <1>7, <1>8 DEF Stepping
<1>10. /\ run'.at = "envs" /\ run'.existed = run.existed /\ run'.new = new /\ run'.values = run.values
       /\ run'.ask = run.ask /\ run'.bundle = run.bundle /\ run'.left = ConfiguredModule
  BY <1>1, <1>8 DEF Stepping
<1>11. SetupTypeOK'
  BY <1>2 DEF SetupIInv, SetupTypeOK, files
<1>12. StepsDone'
  <2>1. new # Unnamed
    BY <1>7, SetupAssumption
  <2>2. ~SplitsRoles(run.ask) => new.roles = setup.roles
    BY <1>3, <1>5, <1>7
  <2>3. ~SplitsRoles(run.ask) => ResolveRoles(run.ask, new) = new.roles
    BY <1>3, <1>4, <1>5, <1>7, <2>1, RolesStayResolved
  <2>4. /\ run'.new # Unnamed /\ run'.new.bundle = run'.bundle /\ Required \subseteq run'.values
        /\ ~SplitsRoles(run'.ask) => ResolveRoles(run'.ask, run'.new) = run'.new.roles
        /\ setup' # Unnamed /\ setup'.bundle = run'.bundle
        /\ ModulesOf(run'.bundle) \subseteq registered'
        /\ run'.values \subseteq stored'
        /\ ~SplitsRoles(run'.ask) => run'.new.roles = setup'.roles
        /\ ConfiguredModule \ run'.left = {}
    BY <1>1, <1>2, <1>3, <1>7, <1>10, <2>1, <2>2, <2>3 DEF files
  <2> QED BY <1>10, <2>4 DEF StepsDone, AtStep, Installing
<1>13. SettledBeforeSave'
  BY <1>10 DEF SettledBeforeSave, BeforeSave, AtStep
<1>14. PausesAreSettled'
  BY <1>1, <1>2, <1>10 DEF SetupIInv, PausesAreSettled, BeforeSave, AtStep, Installing, files
<1> QED BY <1>9, <1>11, <1>12, <1>13, <1>14 DEF SetupIInv

LEMMA WriteEnvStep ==
  ASSUME SetupIInv, WriteEnv
  PROVE  SetupIInv'
<1>1. run \in Stepping /\ run.at = "envs"
  BY RunFacts DEF WriteEnv, AtStep
<1>2. PICK m \in run.left : /\ envs' = [envs EXCEPT ![m] = run.new.roles]
                            /\ run' = [run EXCEPT !.left = @ \ {m}]
  BY <1>1 DEF WriteEnv
<1>3. UNCHANGED <<setup, pending, stored, registered, unsettled, torn, split, setups, setupKills>>
  BY <1>1 DEF WriteEnv
<1>4. /\ run.new # Unnamed /\ run.new.bundle = run.bundle /\ Required \subseteq run.values
      /\ ~SplitsRoles(run.ask) => ResolveRoles(run.ask, run.new) = run.new.roles
      /\ setup # Unnamed /\ setup.bundle = run.bundle
      /\ ModulesOf(run.bundle) \subseteq registered
      /\ run.values \subseteq stored
      /\ ~SplitsRoles(run.ask) => run.new.roles = setup.roles
      /\ \A d \in ConfiguredModule \ run.left : envs[d] = run.new.roles
  BY <1>1 DEF SetupIInv, StepsDone, AtStep
<1>5. run.new.roles \in Roles /\ run.left \subseteq ConfiguredModule
  BY <1>1, <1>4 DEF Stepping, Configuration
<1>6. run' \in Stepping
  BY <1>1, <1>2 DEF Stepping
<1>7. /\ run'.at = "envs" /\ run'.existed = run.existed /\ run'.new = run.new /\ run'.values = run.values
      /\ run'.ask = run.ask /\ run'.bundle = run.bundle /\ run'.left = run.left \ {m}
  BY <1>1, <1>2 DEF Stepping
<1>8. envs' \in [ConfiguredModule -> Roles \cup {Unnamed}]
  BY <1>2, <1>5 DEF SetupIInv, SetupTypeOK
<1>9. SetupTypeOK'
  BY <1>3, <1>8 DEF SetupIInv, SetupTypeOK
<1>10. \A d \in ConfiguredModule \ run'.left : envs'[d] = run'.new.roles
  BY <1>2, <1>4, <1>5, <1>7 DEF SetupIInv, SetupTypeOK
<1>11. StepsDone'
  <2>1. /\ run'.new # Unnamed /\ run'.new.bundle = run'.bundle /\ Required \subseteq run'.values
        /\ ~SplitsRoles(run'.ask) => ResolveRoles(run'.ask, run'.new) = run'.new.roles
        /\ setup' # Unnamed /\ setup'.bundle = run'.bundle
        /\ ModulesOf(run'.bundle) \subseteq registered'
        /\ run'.values \subseteq stored'
        /\ ~SplitsRoles(run'.ask) => run'.new.roles = setup'.roles
    BY <1>3, <1>4, <1>7
  <2> QED BY <1>7, <1>10, <2>1 DEF StepsDone, AtStep, Installing
<1>12. SettledBeforeSave'
  BY <1>7 DEF SettledBeforeSave, BeforeSave, AtStep
<1>13. PausesAreSettled'
  BY <1>1, <1>3, <1>7 DEF SetupIInv, PausesAreSettled, BeforeSave, AtStep, Installing
<1> QED BY <1>6, <1>9, <1>11, <1>12, <1>13 DEF SetupIInv

LEMMA CompleteStep ==
  ASSUME SetupIInv, Complete
  PROVE  SetupIInv'
<1>1. /\ run \in Stepping /\ run.at = "envs" /\ run.left = {} /\ pending' = Unnamed
      /\ run' = [run EXCEPT !.at = "start"]
  BY RunFacts DEF Complete, ClearPending, AtStep, GoTo
<1>2. /\ unsettled' = FALSE /\ torn' = FALSE /\ split' = SplitsRoles(run.ask)
      /\ UNCHANGED <<setup, stored, registered, envs, setups, setupKills>>
  BY DEF Complete
<1>3. run' \in Stepping
  BY <1>1 DEF Stepping
<1>4. /\ run'.at = "start" /\ run'.existed = run.existed /\ run'.new = run.new /\ run'.values = run.values
      /\ run'.ask = run.ask /\ run'.bundle = run.bundle
  BY <1>1 DEF Stepping
<1>5. /\ run.new # Unnamed /\ run.new.bundle = run.bundle /\ Required \subseteq run.values
      /\ ~SplitsRoles(run.ask) => ResolveRoles(run.ask, run.new) = run.new.roles
      /\ setup # Unnamed /\ setup.bundle = run.bundle
      /\ ModulesOf(run.bundle) \subseteq registered
      /\ run.values \subseteq stored
      /\ ~SplitsRoles(run.ask) => run.new.roles = setup.roles
      /\ \A d \in ConfiguredModule : envs[d] = run.new.roles
  BY <1>1 DEF SetupIInv, StepsDone, AtStep
<1>6. envs["gateway"] = run.new.roles /\ envs["spawner"] = run.new.roles
  BY <1>5 DEF ConfiguredModule
<1>7. run.new.roles # Unnamed
  <2>1. run.new.roles \in Roles
    BY <1>1, <1>5 DEF Stepping, Configuration
  <2> QED BY <2>1, SetupAssumption
<1>8. SetupTypeOK'
  <2>1. split' \in BOOLEAN
    BY <1>2 DEF SplitsRoles
  <2> QED BY <1>1, <1>2, <2>1 DEF SetupIInv, SetupTypeOK
<1>9. Agrees'
  BY <1>2, <1>5, <1>6 DEF Agrees
<1>10. EnvsAreThere'
  BY <1>2, <1>5, <1>6, <1>7 DEF EnvsAreThere, ModulesOf
<1>11. StepsDone'
  <2>1. /\ run'.new # Unnamed /\ run'.new.bundle = run'.bundle /\ Required \subseteq run'.values
        /\ ~SplitsRoles(run'.ask) => ResolveRoles(run'.ask, run'.new) = run'.new.roles
    BY <1>4, <1>5
  <2> QED BY <1>4, <2>1 DEF StepsDone, AtStep, Installing
<1>12. SettledBeforeSave'
  BY <1>2, <1>4, <1>5, <1>9 DEF SettledBeforeSave, BeforeSave, AtStep
<1>13. PausesAreSettled'
  BY <1>1, <1>4, <1>10 DEF PausesAreSettled, BeforeSave, AtStep, Installing
<1> QED BY <1>3, <1>8, <1>11, <1>12, <1>13 DEF SetupIInv

LEMMA StartRuntimeStep ==
  ASSUME SetupIInv, StartRuntime
  PROVE  SetupIInv'
<1>1. AtStep("start") \/ AtStep("onboarding")
  BY DEF StartRuntime
<1>2. run' = NotSettingUp /\ UNCHANGED <<files, unsettled, torn, split, setups, setupKills>>
  BY DEF StartRuntime
<1>3. SetupTypeOK'
  BY <1>2 DEF SetupIInv, SetupTypeOK, files
<1>4. SetupSettled
  BY <1>1 DEF SetupIInv, SettledBeforeSave, BeforeSave, SetupSettled
<1>5. SetupSettled' /\ (EnvsAreThere => EnvsAreThere')
  BY <1>2, <1>4, FilesAsTheyWere DEF files
<1>6. ~unsettled => /\ pending # Unnamed => pending.kind = "paused"
                    /\ (setup = Unnamed /\ pending = Unnamed) \/ EnvsAreThere
  BY <1>1 DEF SetupIInv, PausesAreSettled, BeforeSave
<1> QED BY <1>2, <1>3, <1>5, <1>6, RunEnds DEF files

LEMMA SetTokenStep ==
  ASSUME SetupIInv, SetToken
  PROVE  SetupIInv'
<1>1. AtStep("none") /\ stored' = stored \cup {"token"}
  BY DEF SetToken
<1>2. UNCHANGED <<setup, pending, registered, envs, run, unsettled, torn, split, setups, setupKills>>
  BY DEF SetToken
<1>3. run' = NotSettingUp
  BY <1>1, <1>2, RunFacts
<1>4. SetupTypeOK'
  BY <1>1, <1>2 DEF SetupIInv, SetupTypeOK, SetupSecret
<1>5. SetupSettled /\ BeforeSave
  BY <1>1 DEF SetupIInv, SettledBeforeSave, BeforeSave
<1>6. SetupSettled' /\ (EnvsAreThere => EnvsAreThere')
  BY <1>1, <1>2, <1>5 DEF SetupSettled, Agrees, EnvsAreThere
<1> QED BY <1>2, <1>3, <1>4, <1>5, <1>6, RunEnds DEF SetupIInv, PausesAreSettled

LEMMA SetupNextInv == SetupIInv /\ [SetupNext]_setup_vars => SetupIInv'
<1> SUFFICES ASSUME SetupIInv, [SetupNext]_setup_vars PROVE SetupIInv'
  OBVIOUS
<1>1. CASE SetupNext
  BY <1>1, SetTokenStep, RunSetupStep, OnboardStep, StopSetupStep, EndEarlyStep, ResolvePlanStep,
     CollectConfigurationStep, SaveConfigurationStep, InstallBundleStep, StoreSecretStep,
     PlanModuleEnvsStep, WriteEnvStep, CompleteStep, StartRuntimeStep DEF SetupNext
<1>2. CASE UNCHANGED setup_vars
  <2>1. UNCHANGED <<setup, pending, stored, registered, envs, run, unsettled, torn, split, setups, setupKills>>
    BY <1>2 DEF setup_vars
  <2>2. SetupTypeOK' /\ (run \in {NotSettingUp, [at |-> "onboarding"]} \cup Stepping)'
    BY <2>1 DEF SetupIInv, SetupTypeOK
  <2>3. StepsDone'
    BY <2>1 DEF SetupIInv, StepsDone, AtStep, Installing
  <2>4. SettledBeforeSave'
    BY <2>1 DEF SetupIInv, SettledBeforeSave, BeforeSave, SetupSettled, Agrees, AtStep
  <2>5. PausesAreSettled'
    BY <2>1 DEF SetupIInv, PausesAreSettled, BeforeSave, EnvsAreThere, Installing, AtStep
  <2> QED BY <2>2, <2>3, <2>4, <2>5 DEF SetupIInv
<1> QED BY <1>1, <1>2

(* The inductive invariant holds in every reachable state. *)
LEMMA SetupInductive == SetupSpec => []SetupIInv
BY SetupInitInv, SetupNextInv, PTL DEF SetupSpec

(* Between setups, setup.json describes what is there or a pending record  *)
(* says that a setup is to be resumed, and an upgrade that pauses leaves a *)
(* runtime that can keep running: for any providers and command lines,     *)
(* whatever stops.                                                         *)
THEOREM SetupsSettle == SetupSpec => []SettledOrPending
<1>1. SetupIInv => SettledOrPending
  <2> SUFFICES ASSUME SetupIInv PROVE SettledOrPending
    OBVIOUS
  <2>1. AtStep("none") \/ AtStep("onboarding") => SetupSettled
    BY DEF SetupIInv, SettledBeforeSave, BeforeSave
  <2>2. AtStep("none") /\ pending # Unnamed /\ ~unsettled => pending.kind = "paused" /\ EnvsAreThere
    BY DEF SetupIInv, PausesAreSettled, BeforeSave
  <2> QED BY <2>1, <2>2 DEF SettledOrPending, SetupSettled, PausedRuns, EnvsAreThere
<1> QED BY <1>1, SetupInductive, PTL

-----------------------------------------------------------------------------
(* What the surfaces say of an installation, and what they name.          *)

(* Installations that differ in their processes only.                      *)
Alike(d, e) ==
  /\ e \in Installation
  /\ e.installed = d.installed /\ e.orphan = d.orphan /\ e.recorded = d.recorded /\ e.keys = d.keys
  /\ e.token = d.token /\ e.llm = d.llm /\ e.signedIn = d.signedIn /\ e.external = d.external
  /\ e.profile = d.profile /\ e.env = d.env /\ e.builderRef = d.builderRef /\ e.relay = d.relay
  /\ e.leaks = d.leaks

LEMMA StartFields ==
  ASSUME NEW d \in Installation
  PROVE  /\ Alike(d, StartAll(d)) /\ StartAll(d).alive = d.alive \cup ByDefault(d)
         /\ StartAll(d).answers = (d.answers \/ "spawner" \notin d.alive)
<1>1. ByDefault(d) \subseteq {"bot", "spawner"}
  BY DEF ByDefault
<1> QED BY <1>1 DEF StartAll, Alike, Installation

LEMMA StopFields ==
  ASSUME NEW d \in Installation
  PROVE  Alike(d, StopAll(d)) /\ StopAll(d).alive = {} /\ StopAll(d).answers = d.answers
BY DEF StopAll, Alike, Installation

LEMMA AlikeRun ==
  ASSUME NEW d \in Installation, NEW e, Alike(d, e)
  PROVE  ByDefault(e) = ByDefault(d)
BY DEF Alike, ByDefault, CanRun

LEMMA RestartFields ==
  ASSUME NEW d \in Installation
  PROVE  Alike(d, RestartAll(d)) /\ RestartAll(d).alive = ByDefault(d) /\ RestartAll(d).answers = TRUE
<1>1. PICK s : s = StopAll(d)
  OBVIOUS
<1>2. s \in Installation /\ Alike(d, s) /\ s.alive = {} /\ ByDefault(s) = ByDefault(d)
  BY <1>1, StopFields, AlikeRun DEF Alike
<1>3. PICK r : r = StartAll(s)
  OBVIOUS
<1>4. Alike(s, r) /\ r.alive = s.alive \cup ByDefault(s) /\ r.answers = (s.answers \/ "spawner" \notin s.alive)
  BY <1>2, <1>3, StartFields
<1>5. r.alive = ByDefault(d) /\ r.answers = TRUE
  BY <1>2, <1>4
<1>6. Alike(d, r)
  BY <1>2, <1>4 DEF Alike
<1>7. RestartAll(d) = r
  BY <1>1, <1>3 DEF RestartAll
<1> QED BY <1>5, <1>6, <1>7

(* What a setup leaves, of the installation it found. *)
SetUpLeaves(d, llm, external, s) ==
  /\ s \in Installation
  /\ s.installed = Starter /\ s.orphan = (IF d.orphan = "needed" THEN "none" ELSE d.orphan)
  /\ s.recorded = TRUE
  /\ s.keys = (IF external THEN d.keys \ {"token", "admins"} ELSE d.keys \cup {"token", "admins"})
              \cup (IF llm = "key" THEN {"api_key"} ELSE {})
  /\ s.token = (IF external THEN "absent" ELSE IF d.token = "absent" THEN "good" ELSE d.token)
  /\ s.llm = llm /\ s.signedIn = d.signedIn
  /\ s.external = external /\ s.profile = (IF external THEN "none" ELSE d.profile) /\ s.env = Starter
  /\ s.builderRef = TRUE /\ s.relay = (llm # "none") /\ s.leaks = d.leaks \ {"config"}
  /\ s.alive = d.alive \cup ByDefault(s) /\ s.answers = (d.answers \/ "spawner" \notin d.alive)

LEMMA SetUpFields ==
  ASSUME NEW d \in Installation, NEW llm \in {"none", "keyless", "key", "codex"}, NEW external \in BOOLEAN
  PROVE  SetUpLeaves(d, llm, external, SetUp(d, llm, external))
<1>s. PICK s : s = SetUp(d, llm, external)
  OBVIOUS
<1>1. PICK token, keys, profile, orphan, relay, leaks :
        /\ token = (IF external THEN "absent" ELSE IF d.token = "absent" THEN "good" ELSE d.token)
        /\ keys = (IF external THEN d.keys \ {"token", "admins"} ELSE d.keys \cup {"token", "admins"})
                  \cup (IF llm = "key" THEN {"api_key"} ELSE {})
        /\ profile = (IF external THEN "none" ELSE d.profile)
        /\ orphan = (IF d.orphan = "needed" THEN "none" ELSE d.orphan)
        /\ relay = (llm # "none") /\ leaks = d.leaks \ {"config"}
  OBVIOUS
<1>2. /\ token \in {"absent", "rejected", "good"} /\ keys \in SUBSET {"token", "admins", "api_key"}
      /\ profile \in {"none", "autostart", "manual"} /\ orphan \in {"none", "needed", "other"}
      /\ relay \in BOOLEAN /\ leaks \in SUBSET {"logs", "config"} /\ Starter \in SUBSET Starter
  BY <1>1 DEF Installation
<1>3. PICK e : e = [d EXCEPT !.installed = Starter, !.recorded = TRUE, !.llm = llm, !.token = token, !.keys = keys,
                             !.external = external, !.profile = profile, !.env = Starter, !.builderRef = TRUE,
                             !.relay = relay, !.leaks = leaks, !.orphan = orphan]
  OBVIOUS
<1>4. s = StartAll(e)
  BY <1>s, <1>1, <1>3 DEF SetUp
<1>5. d \in [installed : SUBSET Starter, orphan : {"none", "needed", "other"}, recorded : BOOLEAN,
   keys : SUBSET {"token", "admins", "api_key"}, token : {"absent", "rejected", "good"},
   llm : {"none", "keyless", "key", "codex"}, signedIn : BOOLEAN, external : BOOLEAN,
   profile : {"none", "autostart", "manual"}, env : SUBSET Starter, builderRef : BOOLEAN, relay : BOOLEAN,
   leaks : SUBSET {"logs", "config"}, alive : SUBSET {"bot", "spawner"}, answers : BOOLEAN]
  BY DEF Installation
<1>6. e = [installed |-> Starter, orphan |-> orphan, recorded |-> TRUE, keys |-> keys, token |-> token, llm |-> llm,
           signedIn |-> d.signedIn, external |-> external, profile |-> profile, env |-> Starter, builderRef |-> TRUE,
           relay |-> relay, leaks |-> leaks, alive |-> d.alive, answers |-> d.answers]
  BY <1>3, <1>5
<1>7. /\ e \in Installation
      /\ e.installed = Starter /\ e.orphan = orphan /\ e.recorded = TRUE /\ e.keys = keys /\ e.token = token
      /\ e.llm = llm /\ e.signedIn = d.signedIn /\ e.external = external /\ e.profile = profile /\ e.env = Starter
      /\ e.builderRef = TRUE /\ e.relay = relay /\ e.leaks = leaks /\ e.alive = d.alive /\ e.answers = d.answers
  BY <1>2, <1>5, <1>6 DEF Installation
<1>8. Alike(e, s) /\ s.alive = d.alive \cup ByDefault(e) /\ s.answers = (d.answers \/ "spawner" \notin d.alive)
  BY <1>4, <1>7, StartFields
<1>9. ByDefault(s) = ByDefault(e)
  BY <1>7, <1>8, AlikeRun
<1> QED BY <1>s, <1>1, <1>7, <1>8, <1>9 DEF Alike, SetUpLeaves

Sound(d) == d \in Installation /\ d.alive \subseteq d.installed

LEMMA ByDefaultInstalled ==
  ASSUME NEW d PROVE ByDefault(d) \subseteq d.installed /\ ByDefault(d) \subseteq {"bot", "spawner"}
BY DEF ByDefault, CanRun

LEMMA SetUpSound ==
  ASSUME NEW d, Sound(d), NEW llm \in {"none", "keyless", "key", "codex"}, NEW external \in BOOLEAN
  PROVE  Sound(SetUp(d, llm, external))
<1>1. PICK s : s = SetUp(d, llm, external)
  OBVIOUS
<1>2. d \in Installation /\ d.alive \subseteq {"bot", "spawner"}
  BY DEF Sound, Installation
<1>a. SetUpLeaves(d, llm, external, SetUp(d, llm, external))
  BY <1>2, SetUpFields
<1>3. s \in Installation /\ s.installed = Starter /\ s.alive = d.alive \cup ByDefault(s)
  BY <1>1, <1>a DEF SetUpLeaves
<1>4. s.alive \subseteq s.installed
  BY <1>2, <1>3, ByDefaultInstalled DEF Starter
<1> QED BY <1>1, <1>3, <1>4 DEF Sound

LEMMA StartSound ==
  ASSUME NEW d, Sound(d)
  PROVE  Sound(StartAll(d)) /\ Sound(StopAll(d)) /\ Sound(RestartAll(d))
<1>1. d \in Installation /\ d.alive \subseteq d.installed
  BY DEF Sound
<1>2. Alike(d, StartAll(d)) /\ StartAll(d).alive = d.alive \cup ByDefault(d)
  BY <1>1, StartFields
<1>3. Alike(d, StopAll(d)) /\ StopAll(d).alive = {}
  BY <1>1, StopFields
<1>4. Alike(d, RestartAll(d)) /\ RestartAll(d).alive = ByDefault(d)
  BY <1>1, RestartFields
<1>5. ByDefault(d) \subseteq d.installed
  BY ByDefaultInstalled
<1> QED BY <1>1, <1>2, <1>3, <1>4, <1>5 DEF Sound, Alike

LEMMA ConnectSound ==
  ASSUME NEW d, Sound(d) PROVE Sound(ConnectBot(d))
<1>1. d \in [installed : SUBSET Starter, orphan : {"none", "needed", "other"}, recorded : BOOLEAN,
   keys : SUBSET {"token", "admins", "api_key"}, token : {"absent", "rejected", "good"},
   llm : {"none", "keyless", "key", "codex"}, signedIn : BOOLEAN, external : BOOLEAN,
   profile : {"none", "autostart", "manual"}, env : SUBSET Starter, builderRef : BOOLEAN, relay : BOOLEAN,
   leaks : SUBSET {"logs", "config"}, alive : SUBSET {"bot", "spawner"}, answers : BOOLEAN]
  BY DEF Sound, Installation
<1>2. PICK p \in {"none", "autostart", "manual"} : p = IF d.profile = "manual" THEN d.profile ELSE "autostart"
  BY <1>1
<1>3. PICK e : e = [d EXCEPT !.token = "good", !.profile = p]
  OBVIOUS
<1>4. ConnectBot(d) = d \/ ConnectBot(d) = RestartAll(e)
  BY <1>2, <1>3 DEF ConnectBot
<1>5. e \in Installation /\ e.alive = d.alive /\ e.installed = d.installed
  BY <1>1, <1>3 DEF Installation
<1>6. Sound(e)
  BY <1>5 DEF Sound
<1> QED BY <1>4, <1>6, StartSound

LEMMA RedactSound ==
  ASSUME NEW d, Sound(d) PROVE Sound(RedactLogs(d))
<1>1. PICK s : s = StopAll(d) /\ Sound(s)
  BY StartSound
<1>2. PICK e : e = [d EXCEPT !.leaks = @ \ {"logs"}]
  OBVIOUS
<1>3. PICK f : f = [s EXCEPT !.leaks = @ \ {"logs"}]
  OBVIOUS
<1>4. Sound(e)
  BY <1>2 DEF Sound, Installation
<1>5. Sound(f)
  BY <1>1, <1>3 DEF Sound, Installation
<1>6. RedactLogs(d) = e \/ RedactLogs(d) = StartAll(f)
  BY <1>1, <1>2, <1>3 DEF RedactLogs
<1> QED BY <1>4, <1>5, <1>6, StartSound

LEMMA AfterSound ==
  ASSUME NEW d, Sound(d), NEW command \in UserCommands PROVE Sound(After(d, command))
<1>1. d.llm \in {"none", "keyless", "key", "codex"}
  BY DEF Sound, Installation
<1>2. CASE command = "setup"
  BY <1>1, <1>2, SetUpSound DEF After
<1>3. CASE command = "setup_llm_provider"
  BY <1>3, SetUpSound DEF After
<1>4. CASE command = "setup_external_ingress"
  BY <1>1, <1>4, SetUpSound DEF After
<1>5. CASE command \in {"start", "restart", "stop"}
  BY <1>5, StartSound DEF After
<1>6. CASE command = "telegram_connect"
  BY <1>6, ConnectSound DEF After
<1>7. CASE command = "fix_modules_clean"
  <2>1. Sound(CleanClones(d))
    BY DEF Sound, CleanClones, Installation
  <2> QED BY <1>7, <2>1 DEF After
<1>8. CASE command = "fix_secrets_redact_logs"
  BY <1>8, RedactSound DEF After
<1>9. CASE command = "update_builder"
  <2>1. Sound([d EXCEPT !.builderRef = TRUE])
    BY DEF Sound, Installation
  <2>2. Sound(UpdateBuilder(d))
    BY <2>1 DEF UpdateBuilder
  <2> QED BY <1>9, <2>2 DEF After
<1>10. CASE command = "codex_login"
  <2>1. Sound([d EXCEPT !.signedIn = TRUE])
    BY DEF Sound, Installation
  <2> QED BY <1>10, <2>1 DEF After
<1> QED BY <1>2, <1>3, <1>4, <1>5, <1>6, <1>7, <1>8, <1>9, <1>10 DEF UserCommands

(* What damage may do. *)
DamageIs(d, e) ==
  \/ \E m \in d.alive : e = [d EXCEPT !.alive = @ \ {m}]
  \/ e = [d EXCEPT !.answers = FALSE]
  \/ \E m \in d.installed : e = [d EXCEPT !.installed = @ \ {m}, !.alive = @ \ {m}]
  \/ \E m \in Starter : e = [d EXCEPT !.installed = @ \cup {m}, !.builderRef = @ /\ m # "builder"]
  \/ \E m \in d.env : e = [d EXCEPT !.env = @ \ {m}]
  \/ \E l \in {"logs", "config"} : e = [d EXCEPT !.leaks = @ \cup {l}]
  \/ \E t \in {"rejected", "absent"} : e = [d EXCEPT !.token = t]
  \/ \E o \in {"other", "needed"} : e = [d EXCEPT !.orphan = o]
  \/ e = [d EXCEPT !.signedIn = FALSE]
  \/ e = [d EXCEPT !.profile = "manual"]

LEMMA DamageCases ==
  ASSUME NEW d, NEW e \in Damaged(d)
  PROVE  DamageIs(d, e)
<1>1. PICK D1, D2, D3, D4, D5, D6, D7, D8, D9, D10 :
        /\ D1 = {[d EXCEPT !.alive = @ \ {m}] : m \in d.alive}
        /\ D2 = {[d EXCEPT !.answers = FALSE] : m \in d.alive \cap {"spawner"}}
        /\ D3 = {[d EXCEPT !.installed = @ \ {m}, !.alive = @ \ {m}] : m \in d.installed}
        /\ D4 = {[d EXCEPT !.installed = @ \cup {m}, !.builderRef = @ /\ m # "builder"] : m \in Starter}
        /\ D5 = {[d EXCEPT !.env = @ \ {m}] : m \in d.env}
        /\ D6 = {[d EXCEPT !.leaks = @ \cup {l}] :
                     l \in {"logs"} \cup (IF "bot" \in d.env THEN {"config"} ELSE {})}
        /\ D7 = {[d EXCEPT !.token = t] : t \in IF d.token = "good" THEN {"rejected", "absent"} ELSE {}}
        /\ D8 = {[d EXCEPT !.orphan = o] :
                     o \in {"other"} \cup (IF Starter \subseteq d.installed THEN {} ELSE {"needed"})}
        /\ D9 = {[d EXCEPT !.signedIn = FALSE]}
        /\ D10 = {[d EXCEPT !.profile = "manual"] : p \in {d.profile} \ {"none"}}
  OBVIOUS
<1>2. e \in UNION {D1, D2, D3, D4, D5, D6, D7, D8, D9, D10}
  BY <1>1 DEF Damaged
<1>3. e \in D1 \/ e \in D2 \/ e \in D3 \/ e \in D4 \/ e \in D5 \/ e \in D6 \/ e \in D7 \/ e \in D8
      \/ e \in D9 \/ e \in D10
  BY <1>2
<1>4. e \in D6 => \E l \in {"logs", "config"} : e = [d EXCEPT !.leaks = @ \cup {l}]
  BY <1>1
<1>5. e \in D7 => \E t \in {"rejected", "absent"} : e = [d EXCEPT !.token = t]
  BY <1>1
<1>6. e \in D8 => \E o \in {"other", "needed"} : e = [d EXCEPT !.orphan = o]
  BY <1>1
<1> QED BY <1>1, <1>3, <1>4, <1>5, <1>6, Zenon DEF DamageIs

LEMMA DamagedSound ==
  ASSUME NEW d, Sound(d), NEW e \in Damaged(d) PROVE Sound(e)
<1>1. d \in [installed : SUBSET Starter, orphan : {"none", "needed", "other"}, recorded : BOOLEAN,
   keys : SUBSET {"token", "admins", "api_key"}, token : {"absent", "rejected", "good"},
   llm : {"none", "keyless", "key", "codex"}, signedIn : BOOLEAN, external : BOOLEAN,
   profile : {"none", "autostart", "manual"}, env : SUBSET Starter, builderRef : BOOLEAN, relay : BOOLEAN,
   leaks : SUBSET {"logs", "config"}, alive : SUBSET {"bot", "spawner"}, answers : BOOLEAN]
  BY DEF Sound, Installation
<1>2. d.alive \subseteq d.installed
  BY DEF Sound
<1>3. ASSUME NEW m \in d.alive, e = [d EXCEPT !.alive = @ \ {m}] PROVE Sound(e)
  BY <1>1, <1>2, <1>3 DEF Sound, Installation
<1>4. ASSUME e = [d EXCEPT !.answers = FALSE] PROVE Sound(e)
  BY <1>1, <1>2, <1>4 DEF Sound, Installation
<1>5. ASSUME NEW m \in d.installed, e = [d EXCEPT !.installed = @ \ {m}, !.alive = @ \ {m}] PROVE Sound(e)
  <2>1. PICK installed, alive : installed = d.installed \ {m} /\ alive = d.alive \ {m}
    OBVIOUS
  <2>2. installed \in SUBSET Starter /\ alive \in SUBSET {"bot", "spawner"} /\ alive \subseteq installed
    BY <1>1, <1>2, <2>1
  <2>3. e = [d EXCEPT !.installed = installed, !.alive = alive]
    BY <1>5, <2>1
  <2> QED BY <1>1, <2>2, <2>3 DEF Sound, Installation
<1>6. ASSUME NEW m \in Starter, e = [d EXCEPT !.installed = @ \cup {m}, !.builderRef = @ /\ m # "builder"] PROVE Sound(e)
  <2>1. PICK installed : installed = d.installed \cup {m}
    OBVIOUS
  <2>2. PICK b \in BOOLEAN : b = (d.builderRef /\ m # "builder")
    OBVIOUS
  <2>3. installed \in SUBSET Starter /\ d.alive \subseteq installed
    BY <1>1, <1>2, <2>1
  <2>4. e = [d EXCEPT !.installed = installed, !.builderRef = b]
    BY <1>6, <2>1, <2>2
  <2> QED BY <1>1, <2>3, <2>4 DEF Sound, Installation
<1>7. ASSUME NEW m \in d.env, e = [d EXCEPT !.env = @ \ {m}] PROVE Sound(e)
  BY <1>1, <1>2, <1>7 DEF Sound, Installation
<1>8. ASSUME NEW l \in {"logs", "config"}, e = [d EXCEPT !.leaks = @ \cup {l}] PROVE Sound(e)
  BY <1>1, <1>2, <1>8 DEF Sound, Installation
<1>9. ASSUME NEW t \in {"rejected", "absent"}, e = [d EXCEPT !.token = t] PROVE Sound(e)
  BY <1>1, <1>2, <1>9 DEF Sound, Installation
<1>10. ASSUME NEW o \in {"other", "needed"}, e = [d EXCEPT !.orphan = o] PROVE Sound(e)
  BY <1>1, <1>2, <1>10 DEF Sound, Installation
<1>11. ASSUME e = [d EXCEPT !.signedIn = FALSE] PROVE Sound(e)
  BY <1>1, <1>2, <1>11 DEF Sound, Installation
<1>12. ASSUME e = [d EXCEPT !.profile = "manual"] PROVE Sound(e)
  BY <1>1, <1>2, <1>12 DEF Sound, Installation
<1>13. DamageIs(d, e)
  BY DamageCases
<1> QED BY <1>3, <1>4, <1>5, <1>6, <1>7, <1>8, <1>9, <1>10, <1>11, <1>12, <1>13 DEF DamageIs

LEMMA FreshSound == Sound(Fresh)
BY DEF Sound, Fresh, Installation

LEMMA ChosenSound ==
  ASSUME NEW d, Sound(d), NEW llm \in {"key", "keyless", "codex"}, NEW external \in BOOLEAN
  PROVE  Sound([SetUp(d, llm, external) EXCEPT !.signedIn = (llm = "codex") \/ @])
<1>1. PICK s : s = SetUp(d, llm, external) /\ Sound(s)
  BY SetUpSound
<1>2. PICK b \in BOOLEAN : b = ((llm = "codex") \/ s.signedIn)
  OBVIOUS
<1>3. PICK e : e = [s EXCEPT !.signedIn = b]
  OBVIOUS
<1>4. Sound(e)
  BY <1>1, <1>3 DEF Sound, Installation
<1>5. [SetUp(d, llm, external) EXCEPT !.signedIn = (llm = "codex") \/ @] = e
  BY <1>1, <1>2, <1>3
<1> QED BY <1>4, <1>5

LEMMA RepairInductive == RepairSpec => []RepairTypeOK
<1>1. RepairInit => RepairTypeOK
  BY FreshSound, RepairAssumption DEF RepairInit, RepairTypeOK, Sound
<1>2. RepairTypeOK /\ [RepairNext]_repair_vars => RepairTypeOK'
  <2> SUFFICES ASSUME RepairTypeOK, [RepairNext]_repair_vars PROVE RepairTypeOK'
    OBVIOUS
  <2>1. Sound(here) /\ damages \in 0..MaxDamages
    BY DEF RepairTypeOK, Sound
  <2>2. SUFFICES Sound(here') /\ damages' \in 0..MaxDamages
    BY DEF RepairTypeOK, Sound
  <2>3. CASE ChooseSetup
    BY <2>1, <2>3, ChosenSound DEF ChooseSetup
  <2>4. CASE RunCommand
    BY <2>1, <2>4, AfterSound DEF RunCommand
  <2>5. CASE SufferDamage
    <3>1. Sound(here')
      BY <2>1, <2>5, DamagedSound DEF SufferDamage
    <3>2. damages' \in 0..MaxDamages
      BY <2>1, <2>5, RepairAssumption DEF SufferDamage
    <3> QED BY <3>1, <3>2
  <2>6. CASE UNCHANGED repair_vars
    BY <2>1, <2>6 DEF repair_vars
  <2> QED BY <2>3, <2>4, <2>5, <2>6 DEF RepairNext
<1> QED BY <1>1, <1>2, PTL DEF RepairSpec

(* What `verify --deep` passes. *)
Verified(d) ==
  /\ Starter \subseteq d.installed
  /\ d.installed # {} /\ Unhealthy(d) = {}
  /\ ProvidersReady(d)
  /\ {"token", "admins"} \subseteq d.keys /\ "bot" \in d.env /\ ~d.external /\ "config" \notin d.leaks
  /\ SurfaceClean(d) /\ {"bot", "builder"} \subseteq d.env /\ RefsCurrent(d) /\ MemorySmoke(d)
  /\ "spawner" \in d.env /\ d.relay
  /\ Expected(d) # {} /\ AllRunning(d)

LEMMA VerifyMeans ==
  ASSUME NEW d, VerifyOk(d)
  PROVE  Verified(d)
<1>1. /\ Failing(InstallationChecks(d)) = {} /\ Failing(WiringChecks(d)) = {} /\ Failing(RuntimeChecks(d)) = {}
  BY DEF VerifyOk, VerifyFails
<1>2. PICK a, b, c : a = InstallationChecks(d) /\ b = WiringChecks(d) /\ c = RuntimeChecks(d)
  OBVIOUS
<1>3. /\ \A row \in {"starter_bundle", "module_health", "llm_roles"} : a[row]
      /\ \A row \in {"telegram_long_polling_security", "secret_surface", "builder_memory_bridge",
                   "builder_runtime_source"} : b[row]
      /\ \A row \in {"builder_memory_direct_smoke", "spawner_mission_relay", "runtime_processes"} : c[row]
  <2>1. /\ DOMAIN a = {"starter_bundle", "module_health", "llm_roles"}
        /\ DOMAIN b = {"telegram_long_polling_security", "secret_surface", "builder_memory_bridge",
                       "builder_runtime_source"}
        /\ DOMAIN c = {"builder_memory_direct_smoke", "spawner_mission_relay", "runtime_processes"}
    BY <1>2 DEF InstallationChecks, WiringChecks, RuntimeChecks
  <2> QED BY <1>1, <1>2, <2>1 DEF Failing
<1>4. /\ Starter \subseteq d.installed /\ d.installed # {} /\ Unhealthy(d) = {} /\ ProvidersReady(d)
  BY <1>2, <1>3 DEF InstallationChecks
<1>5. /\ {"token", "admins"} \subseteq d.keys /\ "bot" \in d.env /\ ~d.external /\ "config" \notin d.leaks
      /\ SurfaceClean(d) /\ {"bot", "builder"} \subseteq d.env /\ RefsCurrent(d)
  BY <1>2, <1>3 DEF WiringChecks
<1>6. MemorySmoke(d) /\ "spawner" \in d.env /\ d.relay /\ Expected(d) # {} /\ AllRunning(d)
  BY <1>2, <1>3 DEF RuntimeChecks
<1> QED BY <1>4, <1>5, <1>6 DEF Verified

LEMMA StatusOfVerified ==
  ASSUME NEW d, Sound(d), Verified(d)
  PROVE  StatusFails(d) \subseteq {"orphans"} /\ (d.orphan = "none" => StatusFails(d) = {})
<1>1. RolesReady(d, d.keys)
  BY DEF Verified, ProvidersReady
<1>2. PICK s : s = [modules |-> Unhealthy(d) = {}, orphans |-> d.orphan = "none",
                    bundle |-> d.recorded => Starter \subseteq d.installed,
                    llm |-> RolesReady(d, d.keys), processes |-> d.recorded => AllRunning(d)]
  OBVIOUS
<1>3. DOMAIN s = {"modules", "orphans", "bundle", "llm", "processes"}
  BY <1>2
<1>4. s.modules /\ s.bundle /\ s.llm /\ s.processes /\ (d.orphan = "none" => s.orphans)
  BY <1>1, <1>2 DEF Verified
<1>5. StatusFails(d) = Failing(s)
  BY <1>2 DEF StatusFails, Verified
<1> QED BY <1>3, <1>4, <1>5 DEF Failing

LEMMA FixOfVerified ==
  ASSUME NEW d, Sound(d), VerifyOk(d), Verified(d)
  PROVE  FixFails(d) \subseteq (IF d.orphan = "none" THEN {} ELSE {"live"})
<1>1. PICK s : s = [spawner |-> "spawner" \in d.installed \ Unhealthy(d) /\ ProvidersReady(d),
                    providers |-> ProvidersReady(d), memory |-> QuickFails(d) = {},
                    live |-> StatusFails(d) = {}, update |-> d.installed # {}]
  OBVIOUS
<1>2. DOMAIN s = {"spawner", "providers", "memory", "live", "update"}
  BY <1>1
<1>3. QuickFails(d) = {}
  BY DEF QuickFails, VerifyOk, VerifyFails
<1>4. s.spawner /\ s.providers /\ s.memory /\ s.update /\ (d.orphan = "none" => s.live)
  BY <1>1, <1>3, StatusOfVerified DEF Verified, Starter
<1>5. FixFails(d) = Failing(s)
  BY <1>1 DEF FixFails
<1> QED BY <1>2, <1>4, <1>5 DEF Failing

LEMMA TelegramOfVerified ==
  ASSUME NEW d, Sound(d), Verified(d)
  PROVE  TelegramFails(d) \subseteq (IF d.llm = "keyless" THEN {"llm_roles"} ELSE {})
                                   \cup (IF d.profile = "none" THEN {} ELSE {"telegram_process"})
<1>1. PICK s : s = [starter_installed |-> d.installed # {}, telegram_module_health |-> BotIsHealthy(d),
           bot_token |-> "token" \in d.keys /\ ("bot" \in d.installed => d.external \/ d.token # "rejected"),
           admin_allowlist |-> "admins" \in d.keys, builder_bridge |-> "bot" \in d.env,
           builder_memory_roots |-> "builder" \in d.env, llm_roles |-> RolesReady(d, {}),
           telegram_process |-> "bot" \in d.alive]
  OBVIOUS
<1>2. DOMAIN s = {"starter_installed", "telegram_module_health", "bot_token", "admin_allowlist", "builder_bridge",
                  "builder_memory_roots", "llm_roles", "telegram_process"}
  BY <1>1
<1>3. "bot" \in d.installed /\ Healthy(d, "bot")
  BY DEF Verified, Starter, Unhealthy
<1>4. d.token = "good" /\ BotIsHealthy(d)
  BY <1>3 DEF Healthy, Verified, BotIsHealthy
<1>5. d.llm # "keyless" => RolesReady(d, {})
  BY DEF Verified, ProvidersReady, RolesReady, EffectiveAuth
<1>6. d.profile = "none" => "bot" \in d.alive
  BY <1>3 DEF Verified, Expected, AllRunning
<1>7. /\ s.starter_installed /\ s.telegram_module_health /\ s.bot_token /\ s.admin_allowlist /\ s.builder_bridge
      /\ s.builder_memory_roots /\ (d.llm # "keyless" => s.llm_roles) /\ (d.profile = "none" => s.telegram_process)
  BY <1>1, <1>3, <1>4, <1>5, <1>6 DEF Verified
<1>8. TelegramFails(d) = Failing(s)
  BY <1>1 DEF TelegramFails
<1> QED BY <1>2, <1>7, <1>8 DEF Failing

(* Installations of their types the surfaces agree on. *)
LEMMA TypedAgree == RepairTypeOK => VerdictsAgree
<1> SUFFICES ASSUME RepairTypeOK, VerifyOk(here)
             PROVE  /\ StatusFails(here) \subseteq {"orphans"}
                    /\ FixFails(here) \subseteq (IF here.orphan = "none" THEN {} ELSE {"live"})
                    /\ TelegramFails(here) \subseteq
                         (IF here.llm = "keyless" THEN {"llm_roles"} ELSE {})
                         \cup (IF here.profile = "none" THEN {} ELSE {"telegram_process"})
  BY DEF VerdictsAgree
<1>1. Sound(here) /\ Verified(here)
  BY VerifyMeans DEF Sound, RepairTypeOK
<1> QED BY <1>1, StatusOfVerified, FixOfVerified, TelegramOfVerified

(* An installation that `verify` passes the other surfaces pass too, but   *)
(* for what they alone look at: an orphaned clone, a role without a key of *)
(* its own, and the bot's process where a profile has taken its place.     *)
THEOREM VerdictsOfTheSurfacesAgree == RepairSpec => []VerdictsAgree
BY TypedAgree, RepairInductive, PTL

LEMMA VerifiedIsOk ==
  ASSUME NEW d, Verified(d)
  PROVE  VerifyOk(d)
<1>1. PICK a, b, c : a = InstallationChecks(d) /\ b = WiringChecks(d) /\ c = RuntimeChecks(d)
  OBVIOUS
<1>2. /\ DOMAIN a = {"starter_bundle", "module_health", "llm_roles"}
      /\ DOMAIN b = {"telegram_long_polling_security", "secret_surface", "builder_memory_bridge",
                     "builder_runtime_source"}
      /\ DOMAIN c = {"builder_memory_direct_smoke", "spawner_mission_relay", "runtime_processes"}
  BY <1>1 DEF InstallationChecks, WiringChecks, RuntimeChecks
<1>3. a.starter_bundle /\ a.module_health /\ a.llm_roles
  BY <1>1 DEF InstallationChecks, Verified
<1>4. b.telegram_long_polling_security /\ b.secret_surface /\ b.builder_memory_bridge /\ b.builder_runtime_source
  BY <1>1 DEF WiringChecks, Verified
<1>5. c.builder_memory_direct_smoke /\ c.spawner_mission_relay /\ c.runtime_processes
  BY <1>1 DEF RuntimeChecks, Verified
<1>6. Failing(a) = {} /\ Failing(b) = {} /\ Failing(c) = {}
  BY <1>2, <1>3, <1>4, <1>5 DEF Failing
<1> QED BY <1>1, <1>6 DEF VerifyOk, VerifyFails

LEMMA FailsVerify ==
  ASSUME NEW d
  PROVE  /\ ~(Starter \subseteq d.installed) => "starter_bundle" \in VerifyFails(d)
         /\ ~({"token", "admins"} \subseteq d.keys /\ "bot" \in d.env /\ ~d.external /\ "config" \notin d.leaks)
              => "telegram_long_polling_security" \in VerifyFails(d)
         /\ ~({"bot", "builder"} \subseteq d.env) => "builder_memory_bridge" \in VerifyFails(d)
         /\ ~RefsCurrent(d) => "builder_runtime_source" \in VerifyFails(d)
         /\ ~("spawner" \in d.env /\ d.relay) => "spawner_mission_relay" \in VerifyFails(d)
         /\ ~(Expected(d) # {} /\ AllRunning(d)) => "runtime_processes" \in VerifyFails(d)
<1>1. PICK a, b, c : a = InstallationChecks(d) /\ b = WiringChecks(d) /\ c = RuntimeChecks(d)
  OBVIOUS
<1>2. Failing(a) \subseteq VerifyFails(d) /\ Failing(b) \subseteq VerifyFails(d) /\ Failing(c) \subseteq VerifyFails(d)
  BY <1>1 DEF VerifyFails
<1>3. ~(Starter \subseteq d.installed) => "starter_bundle" \in Failing(a)
  BY <1>1 DEF InstallationChecks, Failing
<1>4. /\ ~({"token", "admins"} \subseteq d.keys /\ "bot" \in d.env /\ ~d.external /\ "config" \notin d.leaks)
           => "telegram_long_polling_security" \in Failing(b)
      /\ ~({"bot", "builder"} \subseteq d.env) => "builder_memory_bridge" \in Failing(b)
      /\ ~RefsCurrent(d) => "builder_runtime_source" \in Failing(b)
  BY <1>1 DEF WiringChecks, Failing
<1>5. /\ ~("spawner" \in d.env /\ d.relay) => "spawner_mission_relay" \in Failing(c)
      /\ ~(Expected(d) # {} /\ AllRunning(d)) => "runtime_processes" \in Failing(c)
  BY <1>1 DEF RuntimeChecks, Failing
<1> QED BY <1>2, <1>3, <1>4, <1>5

(* What verify names, for what it finds. *)
LEMMA VerifyNames ==
  ASSUME NEW d
  PROVE  LET named == VerifyRepairs(d) IN
         /\ "setup" \in named \/ (Starter \subseteq d.installed /\ {"bot", "builder"} \subseteq d.env)
         /\ "setup" \in named \/ ({"token", "admins"} \subseteq d.keys /\ "bot" \in d.env /\ ~d.external)
         /\ "setup" \in named \/ d.leaks = {}
         /\ "logs" \in d.leaks => "fix_secrets_redact_logs" \in named
         /\ ~ProvidersReady(d) => (IF EffectiveAuth(d, d.keys) = "codex" THEN "codex_login" ELSE "setup_llm_provider") \in named
         /\ ~RefsCurrent(d) => "update_builder" \in named
         /\ ~("spawner" \in d.env /\ d.relay) => "setup_llm_provider" \in named
         /\ ~(Expected(d) # {} /\ AllRunning(d)) => "start" \in named
         /\ StatusRepairs(d) \subseteq named /\ TelegramRepairs(d) \subseteq named
<1>1. PICK p, s, f : p = ProvidersRepairs(d) /\ s = SecretRepairs(d) /\ f = VerifyFails(d)
  OBVIOUS
<1>2. PICK q, u, r, t :
        /\ q = (IF f \cap {"starter_bundle", "telegram_long_polling_security", "builder_memory_bridge",
                           "builder_memory_direct_smoke"} # {} THEN {"setup"} ELSE {})
        /\ u = (IF "builder_runtime_source" \in f THEN {"update_builder"} ELSE {})
        /\ r = (IF "spawner_mission_relay" \in f THEN {"setup_llm_provider"} ELSE {})
        /\ t = (IF "runtime_processes" \in f THEN {"start"} ELSE {})
  OBVIOUS
<1>3. VerifyRepairs(d) = UNION {StatusRepairs(d), p, TelegramRepairs(d), s, q, u, r, t}
  BY <1>1, <1>2 DEF VerifyRepairs
<1>4. /\ StatusRepairs(d) \subseteq VerifyRepairs(d) /\ TelegramRepairs(d) \subseteq VerifyRepairs(d)
      /\ p \subseteq VerifyRepairs(d) /\ s \subseteq VerifyRepairs(d) /\ q \subseteq VerifyRepairs(d)
      /\ u \subseteq VerifyRepairs(d) /\ r \subseteq VerifyRepairs(d) /\ t \subseteq VerifyRepairs(d)
  BY <1>3
<1>6. d.leaks # {} => "setup" \in s /\ "fix_secrets_redact_logs" \in s
  BY <1>1 DEF SecretRepairs
<1>7. ~ProvidersReady(d) => (IF EffectiveAuth(d, d.keys) = "codex" THEN "codex_login" ELSE "setup_llm_provider") \in p
  BY <1>1 DEF ProvidersRepairs
<1>8. ~(Starter \subseteq d.installed) \/ ~({"bot", "builder"} \subseteq d.env)
      \/ ~({"token", "admins"} \subseteq d.keys /\ "bot" \in d.env /\ ~d.external /\ "config" \notin d.leaks)
      => "setup" \in q
  BY <1>1, <1>2, FailsVerify
<1>9. /\ ~RefsCurrent(d) => "update_builder" \in u
      /\ ~("spawner" \in d.env /\ d.relay) => "setup_llm_provider" \in r
      /\ ~(Expected(d) # {} /\ AllRunning(d)) => "start" \in t
  BY <1>1, <1>2, FailsVerify
<1> QED BY <1>4, <1>6, <1>7, <1>8, <1>9

(* An installation the guides lead out of. *)
Good(d) ==
  /\ Sound(d) /\ ("spawner" \in d.alive => d.answers) /\ ("token" \in d.keys => d.token # "absent")

LEMMA SetUpIsGood ==
  ASSUME NEW d, Good(d), NEW llm \in {"none", "keyless", "key", "codex"}
  PROVE  Good(SetUp(d, llm, FALSE)) /\ SetUpLeaves(d, llm, FALSE, SetUp(d, llm, FALSE))
<1>1. Sound(d) /\ d \in Installation
  BY DEF Good, Sound
<1>2. PICK s : s = SetUp(d, llm, FALSE)
  OBVIOUS
<1>3. SetUpLeaves(d, llm, FALSE, s) /\ Sound(s)
  BY <1>1, <1>2, SetUpFields, SetUpSound
<1>4. "spawner" \in s.alive => s.answers
  BY <1>3 DEF SetUpLeaves, Good
<1>5. s.token # "absent"
  BY <1>3 DEF SetUpLeaves
<1> QED BY <1>2, <1>3, <1>4, <1>5 DEF Good

(* A setup makes right what it can. *)
LEMMA SetUpVerifies ==
  ASSUME NEW d, Good(d), "logs" \notin d.leaks, d.token # "rejected", NEW llm, NEW s, SetUpLeaves(d, llm, FALSE, s),
         \/ llm = d.llm /\ ProvidersReady(d)
         \/ llm = "key"
  PROVE  Verified(s)
<1>0. d.leaks \subseteq {"logs", "config"} /\ d.token \in {"absent", "good", "rejected"} /\ d.alive \subseteq {"bot", "spawner"}
  BY DEF Good, Sound, Installation
<1>1. Starter = {"bot", "spawner", "builder"} /\ s.installed = Starter /\ s.env = Starter /\ s.token = "good"
      /\ s.external = FALSE
  BY <1>0 DEF SetUpLeaves, Starter
<1>2. "spawner" \in s.alive /\ s.answers
  <2>1. "spawner" \in ByDefault(s)
    BY <1>1 DEF ByDefault, CanRun
  <2> QED BY <2>1 DEF SetUpLeaves, Good
<1>3. Unhealthy(s) = {}
  BY <1>1, <1>2 DEF Unhealthy, Healthy
<1>4. ProvidersReady(s) /\ s.relay
  <2>1. s.keys = d.keys \cup {"token", "admins"} \cup (IF llm = "key" THEN {"api_key"} ELSE {}) /\ s.llm = llm
        /\ s.signedIn = d.signedIn /\ s.relay = (llm # "none")
    BY DEF SetUpLeaves
  <2>2. CASE llm = "key"
    BY <2>1, <2>2 DEF ProvidersReady, RolesReady, EffectiveAuth
  <2>3. CASE llm = d.llm /\ ProvidersReady(d)
    <3>1. d.llm = "keyless" => "api_key" \in s.keys
      BY <2>1, <2>3 DEF ProvidersReady, RolesReady, EffectiveAuth
    <3> QED BY <2>1, <2>3, <3>1 DEF ProvidersReady, RolesReady, EffectiveAuth
  <2> QED BY <2>2, <2>3
<1>5. s.leaks = {} /\ {"token", "admins"} \subseteq s.keys /\ s.recorded /\ s.builderRef
  BY <1>0 DEF SetUpLeaves
<1>6. Expected(s) # {} /\ AllRunning(s)
  <2>1. "spawner" \in Expected(s)
    BY <1>1 DEF Expected
  <2>2. s.profile = "none" => "bot" \in s.alive
    <3>1. s.profile = "none" => "bot" \in ByDefault(s)
      BY <1>1 DEF ByDefault, CanRun
    <3> QED BY <3>1 DEF SetUpLeaves
  <2>3. Expected(s) \subseteq s.alive
    BY <1>2, <1>5, <2>2 DEF Expected
  <2> QED BY <2>1, <2>3 DEF AllRunning
<1> QED BY <1>1, <1>3, <1>4, <1>5, <1>6 DEF Verified, SurfaceClean, RefsCurrent, MemorySmoke

(* At most one command of those verify names. *)
OneNamed(d, e) == e = d \/ \E c \in VerifyRepairs(d) : e = After(d, c)

LEMMA ProvidersCanBeMade ==
  ASSUME NEW d, Good(d)
  PROVE  \E e : OneNamed(d, e) /\ Good(e) /\ ProvidersReady(e)
<1>1. CASE ProvidersReady(d)
  BY <1>1 DEF OneNamed
<1>2. CASE ~ProvidersReady(d) /\ EffectiveAuth(d, d.keys) = "codex"
  <2>1. PICK e : e = [d EXCEPT !.signedIn = TRUE]
    OBVIOUS
  <2>2. Good(e) /\ e.llm = d.llm /\ e.keys = d.keys /\ e.signedIn = TRUE
    BY <2>1 DEF Good, Sound, Installation
  <2>3. ProvidersReady(e)
    BY <1>2, <2>2 DEF ProvidersReady, RolesReady, EffectiveAuth
  <2>4. After(d, "codex_login") = e
    BY <2>1 DEF After
  <2>5. "codex_login" \in VerifyRepairs(d)
    BY <1>2, VerifyNames
  <2> QED BY <2>2, <2>3, <2>4, <2>5 DEF OneNamed
<1>3. CASE ~ProvidersReady(d) /\ EffectiveAuth(d, d.keys) # "codex"
  <2>1. PICK e : e = SetUp(d, "key", FALSE) /\ Good(e) /\ SetUpLeaves(d, "key", FALSE, e)
    BY SetUpIsGood
  <2>2. ProvidersReady(e)
    BY <2>1 DEF SetUpLeaves, ProvidersReady, RolesReady, EffectiveAuth
  <2>3. After(d, "setup_llm_provider") = e
    BY <2>1 DEF After
  <2>4. "setup_llm_provider" \in VerifyRepairs(d)
    BY <1>3, VerifyNames
  <2> QED BY <2>1, <2>2, <2>3, <2>4 DEF OneNamed
<1> QED BY <1>1, <1>2, <1>3

LEMMA LogsCanBeRedacted ==
  ASSUME NEW d, Good(d), ProvidersReady(d)
  PROVE  \E e : OneNamed(d, e) /\ Good(e) /\ ProvidersReady(e) /\ "logs" \notin e.leaks
<1>1. CASE "logs" \notin d.leaks
  BY <1>1 DEF OneNamed
<1>2. CASE "logs" \in d.leaks
  <2>1. PICK e : e = RedactLogs(d)
    OBVIOUS
  <2>2. d \in Installation /\ Sound(e)
    BY <2>1, RedactSound DEF Good, Sound
  <2>3. /\ e.keys = d.keys /\ e.token = d.token /\ e.llm = d.llm /\ e.signedIn = d.signedIn
        /\ "logs" \notin e.leaks /\ ("spawner" \in e.alive => e.answers)
    <3>1. CASE d.alive = {}
      <4>1. e = [d EXCEPT !.leaks = @ \ {"logs"}]
        BY <2>1, <3>1 DEF RedactLogs
      <4> QED BY <2>2, <3>1, <4>1 DEF Installation
    <3>2. CASE d.alive # {}
      <4>1. PICK s : s = StopAll(d) /\ s \in Installation /\ Alike(d, s) /\ s.alive = {}
        BY <2>2, StopFields DEF Alike
      <4>2. PICK f : f = [s EXCEPT !.leaks = @ \ {"logs"}]
        OBVIOUS
      <4>3. /\ f \in Installation /\ f.leaks = s.leaks \ {"logs"} /\ f.keys = s.keys /\ f.token = s.token
            /\ f.llm = s.llm /\ f.signedIn = s.signedIn /\ f.alive = {}
        BY <4>1, <4>2 DEF Installation
      <4>4. e = StartAll(f)
        BY <2>1, <3>2, <4>1, <4>2 DEF RedactLogs
      <4>5. Alike(f, e) /\ e.answers = (f.answers \/ "spawner" \notin f.alive)
        BY <4>3, <4>4, StartFields
      <4> QED BY <4>1, <4>3, <4>5 DEF Alike
    <3> QED BY <3>1, <3>2
  <2>4. Good(e)
    BY <2>2, <2>3 DEF Good
  <2>5. ProvidersReady(e)
    BY <2>3 DEF ProvidersReady, RolesReady, EffectiveAuth
  <2>6. After(d, "fix_secrets_redact_logs") = e
    BY <2>1 DEF After
  <2>7. "fix_secrets_redact_logs" \in VerifyRepairs(d)
    BY <1>2, VerifyNames
  <2> QED BY <2>3, <2>4, <2>5, <2>6, <2>7 DEF OneNamed
<1> QED BY <1>1, <1>2

(* A token that Telegram rejects is replaced once the bot is installed and *)
(* gets its updates here.                                                  *)
LEMMA BotCanBeInstalled ==
  ASSUME NEW d, Good(d), ProvidersReady(d), "logs" \notin d.leaks
  PROVE  \E e : /\ OneNamed(d, e) /\ Good(e) /\ ProvidersReady(e) /\ "logs" \notin e.leaks
                /\ e.token = "rejected" => {"bot", "spawner"} \subseteq e.installed /\ ~e.external
<1>1. CASE d.token # "rejected" \/ ({"bot", "spawner"} \subseteq d.installed /\ ~d.external)
  BY <1>1 DEF OneNamed
<1>2. CASE ~({"bot", "spawner"} \subseteq d.installed /\ ~d.external)
  <2>1. "setup" \in VerifyRepairs(d)
    BY <1>2, VerifyNames DEF Starter
  <2>2. d.llm \in {"none", "keyless", "key", "codex"}
    BY DEF Good, Sound, Installation
  <2>3. PICK e : e = SetUp(d, d.llm, FALSE) /\ Good(e) /\ SetUpLeaves(d, d.llm, FALSE, e)
    BY <2>2, SetUpIsGood
  <2>4. ProvidersReady(e)
    BY <2>3 DEF SetUpLeaves, ProvidersReady, RolesReady, EffectiveAuth
  <2>5. After(d, "setup") = e
    BY <2>3 DEF After
  <2>6. "logs" \notin e.leaks /\ {"bot", "spawner"} \subseteq e.installed /\ ~e.external
    BY <2>3 DEF SetUpLeaves, Starter
  <2> QED BY <2>1, <2>3, <2>4, <2>5, <2>6 DEF OneNamed
<1> QED BY <1>1, <1>2

(* Connecting gives the bot a token and a profile, and starts what can run. *)
LEMMA ConnectFields ==
  ASSUME NEW d \in Installation, {"bot", "spawner"} \subseteq d.installed
  PROVE  LET e == ConnectBot(d) IN
         /\ e \in Installation /\ e.token = "good" /\ e.installed = d.installed /\ e.orphan = d.orphan
         /\ e.recorded = d.recorded /\ e.keys = d.keys /\ e.llm = d.llm /\ e.signedIn = d.signedIn
         /\ e.external = d.external /\ e.env = d.env /\ e.builderRef = d.builderRef /\ e.relay = d.relay
         /\ e.leaks = d.leaks /\ e.profile = (IF d.profile = "manual" THEN "manual" ELSE "autostart")
         /\ e.alive = ByDefault(e) /\ e.answers = TRUE
<1>1. d \in [installed : SUBSET Starter, orphan : {"none", "needed", "other"}, recorded : BOOLEAN,
   keys : SUBSET {"token", "admins", "api_key"}, token : {"absent", "rejected", "good"},
   llm : {"none", "keyless", "key", "codex"}, signedIn : BOOLEAN, external : BOOLEAN,
   profile : {"none", "autostart", "manual"}, env : SUBSET Starter, builderRef : BOOLEAN, relay : BOOLEAN,
   leaks : SUBSET {"logs", "config"}, alive : SUBSET {"bot", "spawner"}, answers : BOOLEAN]
  BY DEF Installation
<1>2. PICK p \in {"none", "autostart", "manual"} : p = IF d.profile = "manual" THEN "manual" ELSE "autostart"
  OBVIOUS
<1>3. PICK f : f = [d EXCEPT !.token = "good", !.profile = p]
  OBVIOUS
<1>4. PICK e : e = RestartAll(f)
  OBVIOUS
<1>5. ConnectBot(d) = e
  BY <1>2, <1>3, <1>4 DEF ConnectBot
<1>6. /\ f \in Installation /\ f.token = "good" /\ f.profile = p /\ f.installed = d.installed /\ f.orphan = d.orphan
      /\ f.recorded = d.recorded /\ f.keys = d.keys /\ f.llm = d.llm /\ f.signedIn = d.signedIn
      /\ f.external = d.external /\ f.env = d.env /\ f.builderRef = d.builderRef /\ f.relay = d.relay
      /\ f.leaks = d.leaks
  BY <1>1, <1>3 DEF Installation
<1>7. Alike(f, e) /\ e.alive = ByDefault(f) /\ e.answers = TRUE
  BY <1>4, <1>6, RestartFields
<1>8. ByDefault(e) = ByDefault(f)
  BY <1>6, <1>7, AlikeRun
<1> QED BY <1>2, <1>5, <1>6, <1>7, <1>8 DEF Alike

LEMMA TokenCanBeReplaced ==
  ASSUME NEW d, Good(d), ProvidersReady(d), "logs" \notin d.leaks,
         d.token = "rejected" => {"bot", "spawner"} \subseteq d.installed /\ ~d.external
  PROVE  \E e : /\ OneNamed(d, e) /\ Good(e) /\ ProvidersReady(e) /\ "logs" \notin e.leaks
                /\ e.token # "rejected"
<1>1. CASE d.token # "rejected"
  BY <1>1 DEF OneNamed
<1>2. CASE d.token = "rejected"
  <2>1. {"bot", "spawner"} \subseteq d.installed /\ ~d.external /\ d \in Installation
    BY <1>2 DEF Good, Sound
  <2>2. PICK e : e = ConnectBot(d)
    OBVIOUS
  <2>3. Sound(e)
    BY <2>2, ConnectSound DEF Good
  <2>4. /\ e.token = "good" /\ e.keys = d.keys /\ e.llm = d.llm /\ e.signedIn = d.signedIn /\ e.leaks = d.leaks
        /\ e.answers = TRUE
    BY <2>1, <2>2, ConnectFields
  <2>5. Good(e) /\ ProvidersReady(e)
    BY <2>3, <2>4 DEF Good, ProvidersReady, RolesReady, EffectiveAuth
  <2>6. "telegram_connect" \in TelegramRepairs(d)
    <3>1. PICK s : s = [starter_installed |-> d.installed # {}, telegram_module_health |-> BotIsHealthy(d),
             bot_token |-> "token" \in d.keys /\ ("bot" \in d.installed => d.external \/ d.token # "rejected"),
             admin_allowlist |-> "admins" \in d.keys, builder_bridge |-> "bot" \in d.env,
             builder_memory_roots |-> "builder" \in d.env, llm_roles |-> RolesReady(d, {}),
             telegram_process |-> "bot" \in d.alive]
      OBVIOUS
    <3>2. "bot_token" \in Failing(s)
      BY <1>2, <2>1, <3>1 DEF Failing
    <3>3. "bot_token" \in TelegramFails(d)
      BY <3>1, <3>2 DEF TelegramFails
    <3> QED BY <3>3 DEF TelegramRepairs
  <2>7. "telegram_connect" \in VerifyRepairs(d)
    BY <2>6, VerifyNames
  <2>8. After(d, "telegram_connect") = e
    BY <2>2 DEF After
  <2> QED BY <2>4, <2>5, <2>7, <2>8 DEF OneNamed
<1> QED BY <1>1, <1>2

(* What a setup would make right is made right by one; what is left is the *)
(* Builder's reference and processes.                                      *)
LEMMA SetUpIsNamed ==
  ASSUME NEW d, Good(d), ProvidersReady(d), "logs" \notin d.leaks, d.token # "rejected"
  PROVE  \E e : /\ OneNamed(d, e) /\ Good(e) /\ ProvidersReady(e) /\ e.leaks = {} /\ e.token = "good" /\ e.relay
                /\ Starter \subseteq e.installed /\ Starter \subseteq e.env /\ {"token", "admins"} \subseteq e.keys
                /\ ~e.external /\ RefsCurrent(e)
<1>0. d.leaks \subseteq {"logs", "config"} /\ d.token \in {"absent", "good", "rejected"}
      /\ d.llm \in {"none", "keyless", "key", "codex"}
  BY DEF Good, Sound, Installation
<1>1. ASSUME NEW llm \in {d.llm, "key"}, NEW command \in VerifyRepairs(d), After(d, command) = SetUp(d, llm, FALSE)
      PROVE  \E e : /\ OneNamed(d, e) /\ Good(e) /\ ProvidersReady(e) /\ e.leaks = {} /\ e.token = "good" /\ e.relay
                    /\ Starter \subseteq e.installed /\ Starter \subseteq e.env /\ {"token", "admins"} \subseteq e.keys
                    /\ ~e.external /\ RefsCurrent(e)
  <2>0. llm \in {"none", "keyless", "key", "codex"}
    BY <1>0
  <2>1. PICK e : e = SetUp(d, llm, FALSE) /\ Good(e) /\ SetUpLeaves(d, llm, FALSE, e)
    BY <2>0, SetUpIsGood
  <2>2. Verified(e)
    BY <2>1, SetUpVerifies
  <2>3. OneNamed(d, e)
    BY <1>1, <2>1 DEF OneNamed
  <2>4. e.token = "good" /\ Starter \subseteq e.env
    BY <1>0, <2>1 DEF SetUpLeaves
  <2>5. e.leaks = {} /\ e.relay /\ Starter \subseteq e.installed /\ {"token", "admins"} \subseteq e.keys /\ ~e.external
        /\ RefsCurrent(e) /\ ProvidersReady(e)
    BY <2>2 DEF Verified, SurfaceClean
  <2> QED BY <2>1, <2>3, <2>4, <2>5
<1>2. CASE "setup" \in VerifyRepairs(d)
  <2>1. After(d, "setup") = SetUp(d, d.llm, FALSE)
    BY DEF After
  <2> QED BY <1>1, <1>2, <2>1
<1>3. CASE "setup_llm_provider" \in VerifyRepairs(d)
  <2>1. After(d, "setup_llm_provider") = SetUp(d, "key", FALSE)
    BY DEF After
  <2> QED BY <1>1, <1>3, <2>1
<1>4. CASE "setup" \notin VerifyRepairs(d) /\ "setup_llm_provider" \notin VerifyRepairs(d)
  <2>1. /\ Starter \subseteq d.installed /\ {"bot", "builder"} \subseteq d.env /\ {"token", "admins"} \subseteq d.keys
        /\ ~d.external /\ d.leaks = {} /\ "spawner" \in d.env /\ d.relay
    <3>1. Starter \subseteq d.installed /\ {"bot", "builder"} \subseteq d.env
      BY <1>4, VerifyNames
    <3>2. {"token", "admins"} \subseteq d.keys /\ ~d.external /\ d.leaks = {}
      BY <1>4, VerifyNames
    <3>3. "spawner" \in d.env /\ d.relay
      BY <1>4, VerifyNames
    <3> QED BY <3>1, <3>2, <3>3
  <2>2. d.token = "good" /\ Starter \subseteq d.env
    BY <1>0, <2>1 DEF Good, Starter
  <2>3. CASE RefsCurrent(d)
    BY <2>1, <2>2, <2>3 DEF OneNamed
  <2>4. CASE ~RefsCurrent(d)
    <3>1. PICK e : e = [d EXCEPT !.builderRef = TRUE]
      OBVIOUS
    <3>2. d \in Installation
      BY DEF Good, Sound
    <3>3. /\ e \in Installation /\ e.builderRef = TRUE /\ e.installed = d.installed /\ e.env = d.env /\ e.keys = d.keys
          /\ e.external = d.external /\ e.leaks = d.leaks /\ e.relay = d.relay /\ e.token = d.token /\ e.llm = d.llm
          /\ e.signedIn = d.signedIn /\ e.alive = d.alive /\ e.answers = d.answers
      BY <3>1, <3>2 DEF Installation
    <3>4. Good(e)
      BY <3>3 DEF Good, Sound
    <3>5. ProvidersReady(e)
      BY <3>3 DEF ProvidersReady, RolesReady, EffectiveAuth
    <3>6. RefsCurrent(e)
      BY <2>1, <3>3 DEF RefsCurrent, Starter
    <3>7. After(d, "update_builder") = e
      BY <2>1, <3>1 DEF After, UpdateBuilder, Starter
    <3>8. OneNamed(d, e)
      BY <2>4, <3>7, VerifyNames DEF OneNamed
    <3> QED BY <2>1, <2>2, <3>3, <3>4, <3>5, <3>6, <3>8
  <2> QED BY <2>3, <2>4
<1> QED BY <1>2, <1>3, <1>4

LEMMA ProcessesCanBeStarted ==
  ASSUME NEW d, Good(d), ProvidersReady(d), d.leaks = {}, d.token = "good", d.relay, Starter \subseteq d.installed,
         Starter \subseteq d.env, {"token", "admins"} \subseteq d.keys, ~d.external, RefsCurrent(d)
  PROVE  \E e : OneNamed(d, e) /\ Good(e) /\ Verified(e)
<1>1. Starter = {"bot", "spawner", "builder"} /\ d \in Installation /\ d.alive \subseteq {"bot", "spawner"}
      /\ d.installed = Starter
  BY DEF Starter, Good, Sound, Installation
<1>2. ASSUME NEW e, Good(e), ProvidersReady(e), e.leaks = {}, e.token = "good", e.relay, e.installed = Starter,
             Starter \subseteq e.env, {"token", "admins"} \subseteq e.keys, ~e.external, RefsCurrent(e),
             Expected(e) # {}, AllRunning(e)
      PROVE  Verified(e)
  <2>1. "spawner" \in Expected(e)
    BY <1>1, <1>2 DEF Expected
  <2>2. "spawner" \in e.alive /\ e.answers
    BY <1>2, <2>1 DEF AllRunning, Good
  <2>3. Unhealthy(e) = {}
    BY <1>1, <1>2, <2>2 DEF Unhealthy, Healthy
  <2> QED BY <1>1, <1>2, <2>3 DEF Verified, SurfaceClean, MemorySmoke
<1>3. CASE Expected(d) # {} /\ AllRunning(d)
  <2>1. Verified(d)
    BY <1>1, <1>2, <1>3
  <2> QED BY <2>1 DEF OneNamed
<1>4. CASE ~(Expected(d) # {} /\ AllRunning(d))
  <2>1. PICK e : e = StartAll(d)
    OBVIOUS
  <2>2. Sound(e)
    BY <2>1, StartSound DEF Good
  <2>3. Alike(d, e) /\ e.alive = d.alive \cup ByDefault(d) /\ e.answers = (d.answers \/ "spawner" \notin d.alive)
    BY <1>1, <2>1, StartFields
  <2>4. Good(e)
    BY <2>2, <2>3 DEF Good, Alike
  <2>5. ProvidersReady(e) /\ RefsCurrent(e)
    BY <2>3 DEF ProvidersReady, RolesReady, EffectiveAuth, RefsCurrent, Alike
  <2>6. "spawner" \in Expected(e)
    BY <1>1, <2>3 DEF Expected, Alike
  <2>7. "spawner" \in ByDefault(d) /\ (d.profile = "none" => "bot" \in ByDefault(d))
    BY <1>1 DEF ByDefault, CanRun
  <2>8. e.profile = d.profile /\ e.leaks = {}
    BY <2>3 DEF Alike
  <2>9. AllRunning(e)
    BY <2>3, <2>7, <2>8 DEF AllRunning, Expected
  <2>10. Verified(e)
    BY <1>1, <1>2, <2>3, <2>4, <2>5, <2>6, <2>9 DEF Alike
  <2>11. After(d, "start") = e
    BY <2>1 DEF After
  <2>12. "start" \in VerifyRepairs(d)
    BY <1>4, VerifyNames
  <2> QED BY <2>4, <2>10, <2>11, <2>12 DEF OneNamed
<1> QED BY <1>3, <1>4

LEMMA ClonesCanBeCleaned ==
  ASSUME NEW d, Good(d), Verified(d)
  PROVE  \E e : OneNamed(d, e) /\ StatusOk(e)
<1>1. Sound(d) /\ d \in Installation
  BY DEF Good, Sound
<1>2. CASE d.orphan = "none"
  <2>1. StatusOk(d)
    BY <1>1, <1>2, StatusOfVerified DEF StatusOk
  <2> QED BY <2>1 DEF OneNamed
<1>3. CASE d.orphan # "none"
  <2>1. PICK e : e = CleanClones(d)
    OBVIOUS
  <2>2. /\ e \in Installation /\ e.orphan = "none" /\ e.installed = d.installed /\ e.recorded = d.recorded
        /\ e.keys = d.keys /\ e.token = d.token /\ e.llm = d.llm /\ e.signedIn = d.signedIn /\ e.external = d.external
        /\ e.profile = d.profile /\ e.env = d.env /\ e.builderRef = d.builderRef /\ e.relay = d.relay
        /\ e.leaks = d.leaks /\ e.alive = d.alive /\ e.answers = d.answers
    BY <1>1, <2>1 DEF CleanClones, Installation
  <2>3. Sound(e)
    BY <1>1, <2>2 DEF Sound
  <2>4. Unhealthy(e) = Unhealthy(d)
    BY <2>2 DEF Unhealthy, Healthy
  <2>5. Expected(e) = Expected(d)
    BY <2>2 DEF Expected
  <2>6. ProvidersReady(e) = ProvidersReady(d) /\ RefsCurrent(e) = RefsCurrent(d) /\ MemorySmoke(e) = MemorySmoke(d)
    BY <2>2 DEF ProvidersReady, RolesReady, EffectiveAuth, RefsCurrent, MemorySmoke
  <2>7. Verified(e)
    BY <2>2, <2>4, <2>5, <2>6 DEF Verified, AllRunning, SurfaceClean
  <2>8. StatusOk(e)
    BY <2>2, <2>3, <2>7, StatusOfVerified DEF StatusOk
  <2>9. "fix_modules_clean" \in StatusRepairs(d)
    <3>1. PICK s : s = [modules |-> Unhealthy(d) = {}, orphans |-> d.orphan = "none",
                        bundle |-> d.recorded => Starter \subseteq d.installed,
                        llm |-> RolesReady(d, d.keys), processes |-> d.recorded => AllRunning(d)]
      OBVIOUS
    <3>2. "orphans" \in Failing(s)
      BY <1>3, <3>1 DEF Failing
    <3>3. "orphans" \in StatusFails(d)
      BY <3>1, <3>2 DEF StatusFails, Verified
    <3> QED BY <3>3 DEF StatusRepairs
  <2>10. "fix_modules_clean" \in VerifyRepairs(d)
    BY <2>9, VerifyNames
  <2>11. After(d, "fix_modules_clean") = e
    BY <2>1 DEF After
  <2> QED BY <2>8, <2>10, <2>11 DEF OneNamed
<1> QED BY <1>2, <1>3

(* What ByGuide computes. *)
LEMMA FollowingIsThere ==
  ASSUME NEW surface, NEW n \in Nat
  PROVE  \E F : F = [k \in 0..n |-> IF k = 0 THEN {here} ELSE NextByGuide(surface, F[k - 1])]
<1> DEFINE IsFollowed(m, F) == F = [k \in 0..m |-> IF k = 0 THEN {here} ELSE NextByGuide(surface, F[k - 1])]
           Missing == {m \in Nat : ~\E F : IsFollowed(m, F)}
<1>1. SUFFICES ASSUME n \in Missing PROVE FALSE
  OBVIOUS
<1>2. Missing \subseteq Nat /\ Missing # {}
  BY <1>1
<1> HIDE DEF Missing
<1>3. PICK m \in Missing : \A b \in Missing : m <= b
  BY <1>2, LeastIsThere
<1>4. m \in Nat /\ ~\E F : IsFollowed(m, F)
  BY <1>3 DEF Missing
<1>5. CASE m = 0
  <2>1. PICK F : F = [k \in 0..0 |-> {here}]
    OBVIOUS
  <2>2. IsFollowed(0, F)
    BY <2>1
  <2> QED BY <1>4, <1>5, <2>2
<1>6. CASE m # 0
  <2>1. m - 1 \in Nat /\ m - 1 \notin Missing
    BY <1>3, <1>4, <1>6
  <2>2. PICK G : IsFollowed(m - 1, G)
    BY <2>1 DEF Missing
  <2>3. PICK F : F = [k \in 0..m |-> IF k = m THEN NextByGuide(surface, G[m - 1]) ELSE G[k]]
    OBVIOUS
  <2>4. \A k \in 0..m : F[k] = IF k = 0 THEN {here} ELSE NextByGuide(surface, F[k - 1])
    <3> SUFFICES ASSUME NEW k \in 0..m PROVE F[k] = IF k = 0 THEN {here} ELSE NextByGuide(surface, F[k - 1])
      OBVIOUS
    <3>1. CASE k = m
      <4>1. F[k - 1] = G[m - 1] /\ F[k] = NextByGuide(surface, G[m - 1])
        BY <1>4, <1>6, <2>3, <3>1
      <4> QED BY <1>6, <3>1, <4>1
    <3>2. CASE k # m
      <4>1. k \in 0..(m - 1) /\ F[k] = G[k]
        BY <1>4, <2>3, <3>2
      <4>2. CASE k = 0
        BY <2>1, <2>2, <4>1, <4>2
      <4>3. CASE k # 0
        <5>1. k - 1 \in 0..m /\ k - 1 # m /\ F[k - 1] = G[k - 1]
          BY <1>4, <2>3, <4>1, <4>3
        <5>2. G[k] = NextByGuide(surface, G[k - 1])
          BY <2>2, <4>1, <4>3
        <5> QED BY <4>1, <4>3, <5>1, <5>2
      <4> QED BY <4>2, <4>3
    <3> QED BY <3>1, <3>2
  <2>5. F = [k \in 0..m |-> F[k]]
    BY <2>3
  <2>6. IsFollowed(m, F)
    BY <2>4, <2>5
  <2> QED BY <1>4, <2>6
<1> QED BY <1>5, <1>6

LEMMA FollowedStepByStep ==
  ASSUME NEW surface
  PROVE  /\ ByGuide(surface)[0] = {here}
         /\ \A n \in 1..MaxRepairs : ByGuide(surface)[n] = NextByGuide(surface, ByGuide(surface)[n - 1])
<1>1. MaxRepairs \in Nat
  BY RepairAssumption
<1>2. \E F : F = [n \in 0..MaxRepairs |-> IF n = 0 THEN {here} ELSE NextByGuide(surface, F[n - 1])]
  BY <1>1, FollowingIsThere, ZenonT(30)
<1>3. PICK G : G = ByGuide(surface)
  OBVIOUS
<1>4. G = [n \in 0..MaxRepairs |-> IF n = 0 THEN {here} ELSE NextByGuide(surface, G[n - 1])]
  BY <1>2, <1>3 DEF ByGuide
<1>5. \A n \in 0..MaxRepairs : G[n] = IF n = 0 THEN {here} ELSE NextByGuide(surface, G[n - 1])
  BY <1>4
<1>6. 0 \in 0..MaxRepairs /\ \A n \in 1..MaxRepairs : n \in 0..MaxRepairs /\ n # 0
  BY <1>1
<1> QED BY <1>3, <1>5, <1>6

(* A user who follows a surface can be here within n commands.             *)
WithinCommands(surface, n, d) == \E k \in 0..MaxRepairs : k <= n /\ d \in ByGuide(surface)[k]

LEMMA HereWithin ==
  ASSUME NEW surface PROVE WithinCommands(surface, 0, here)
BY FollowedStepByStep, RepairAssumption DEF WithinCommands

LEMMA OneMoreCommand ==
  ASSUME NEW surface, NEW n \in Nat, n < MaxRepairs, NEW d, WithinCommands(surface, n, d),
         NEW e, e = d \/ \E c \in Guide(surface, d) : e = After(d, c)
  PROVE  WithinCommands(surface, n + 1, e)
<1>1. PICK k \in 0..MaxRepairs : k <= n /\ d \in ByGuide(surface)[k]
  BY DEF WithinCommands
<1>2. MaxRepairs \in Nat
  BY RepairAssumption
<1>3. CASE e = d
  BY <1>1, <1>3 DEF WithinCommands
<1>4. CASE \E c \in Guide(surface, d) : e = After(d, c)
  <2>1. e \in NextByGuide(surface, ByGuide(surface)[k])
    BY <1>1, <1>4 DEF NextByGuide
  <2>2. k + 1 \in 1..MaxRepairs /\ (k + 1) - 1 = k /\ k + 1 <= n + 1
    BY <1>1, <1>2
  <2>3. ByGuide(surface)[k + 1] = NextByGuide(surface, ByGuide(surface)[k])
    BY <2>2, FollowedStepByStep
  <2> QED BY <2>1, <2>2, <2>3 DEF WithinCommands
<1> QED BY <1>3, <1>4

LEMMA PassesIsMade ==
  ASSUME NEW surface, NEW n, NEW d, WithinCommands(surface, n, d), Passes(surface, d)
  PROVE  CanBeMade(surface)
BY DEF WithinCommands, CanBeMade

(* Whatever verify finds, what it names leads to what it and status pass.  *)
LEMMA VerifyLeadsOut ==
  ASSUME Good(here), MaxRepairs >= 7
  PROVE  CanBeMade("verify") /\ CanBeMade("status")
<1>1. MaxRepairs \in Nat
  BY RepairAssumption
<1>2. ASSUME NEW surface \in {"verify", "status"}
      PROVE  \E d, e : /\ WithinCommands(surface, 6, d) /\ Verified(d)
                       /\ WithinCommands(surface, 7, e) /\ StatusOk(e)
  <2>0. ASSUME NEW n \in Nat, n < 7, NEW d, WithinCommands(surface, n, d), NEW e, OneNamed(d, e)
        PROVE  WithinCommands(surface, n + 1, e)
    <3>1. VerifyRepairs(d) = Guide(surface, d)
      BY <1>2 DEF Guide
    <3>2. n < MaxRepairs
      BY <1>1, <2>0
    <3> QED BY <2>0, <3>1, <3>2, OneMoreCommand DEF OneNamed
  <2>1. WithinCommands(surface, 0, here)
    BY HereWithin
  <2>2. PICK d1 : OneNamed(here, d1) /\ Good(d1) /\ ProvidersReady(d1)
    BY ProvidersCanBeMade
  <2>3. WithinCommands(surface, 1, d1)
    BY <2>0, <2>1, <2>2
  <2>4. PICK d2 : OneNamed(d1, d2) /\ Good(d2) /\ ProvidersReady(d2) /\ "logs" \notin d2.leaks
    BY <2>2, LogsCanBeRedacted
  <2>5. WithinCommands(surface, 2, d2)
    BY <2>0, <2>3, <2>4
  <2>6. PICK d3 : /\ OneNamed(d2, d3) /\ Good(d3) /\ ProvidersReady(d3) /\ "logs" \notin d3.leaks
                  /\ d3.token = "rejected" => {"bot", "spawner"} \subseteq d3.installed /\ ~d3.external
    BY <2>4, BotCanBeInstalled, Zenon
  <2>7. WithinCommands(surface, 3, d3)
    BY <2>0, <2>5, <2>6
  <2>8. PICK d4 : OneNamed(d3, d4) /\ Good(d4) /\ ProvidersReady(d4) /\ "logs" \notin d4.leaks /\ d4.token # "rejected"
    BY <2>6, TokenCanBeReplaced
  <2>9. WithinCommands(surface, 4, d4)
    BY <2>0, <2>7, <2>8
  <2>10. PICK d5 : /\ OneNamed(d4, d5) /\ Good(d5) /\ ProvidersReady(d5) /\ d5.leaks = {} /\ d5.token = "good" /\ d5.relay
                   /\ Starter \subseteq d5.installed /\ Starter \subseteq d5.env /\ {"token", "admins"} \subseteq d5.keys
                   /\ ~d5.external /\ RefsCurrent(d5)
    BY <2>8, SetUpIsNamed
  <2>11. WithinCommands(surface, 5, d5)
    BY <2>0, <2>9, <2>10
  <2>12. PICK d6 : OneNamed(d5, d6) /\ Good(d6) /\ Verified(d6)
    BY <2>10, ProcessesCanBeStarted
  <2>13. WithinCommands(surface, 6, d6)
    BY <2>0, <2>11, <2>12
  <2>14. PICK d7 : OneNamed(d6, d7) /\ StatusOk(d7)
    BY <2>12, ClonesCanBeCleaned
  <2>15. WithinCommands(surface, 7, d7)
    BY <2>0, <2>13, <2>14
  <2> QED BY <2>12, <2>13, <2>14, <2>15
<1>3. CanBeMade("verify")
  <2>1. PICK d : WithinCommands("verify", 6, d) /\ Verified(d)
    BY <1>2
  <2>2. Passes("verify", d)
    BY <2>1, VerifiedIsOk DEF Passes
  <2> QED BY <2>1, <2>2, PassesIsMade
<1>4. CanBeMade("status")
  <2>1. PICK e : WithinCommands("status", 7, e) /\ StatusOk(e)
    BY <1>2
  <2>2. Passes("status", e)
    BY <2>1 DEF Passes
  <2> QED BY <2>1, <2>2, PassesIsMade
<1> QED BY <1>3, <1>4

(* What fix telegram finds, and names. *)
LEMMA FailsTelegram ==
  ASSUME NEW d
  PROVE  /\ d.installed = {} => "starter_installed" \in TelegramFails(d)
         /\ ~BotIsHealthy(d) => "telegram_module_health" \in TelegramFails(d)
         /\ ~("token" \in d.keys /\ ("bot" \in d.installed => d.external \/ d.token # "rejected"))
              => "bot_token" \in TelegramFails(d)
         /\ "admins" \notin d.keys => "admin_allowlist" \in TelegramFails(d)
         /\ "bot" \notin d.env => "builder_bridge" \in TelegramFails(d)
         /\ "builder" \notin d.env => "builder_memory_roots" \in TelegramFails(d)
         /\ ~RolesReady(d, {}) => "llm_roles" \in TelegramFails(d)
         /\ "bot" \notin d.alive => "telegram_process" \in TelegramFails(d)
<1>1. PICK s : s = [starter_installed |-> d.installed # {}, telegram_module_health |-> BotIsHealthy(d),
           bot_token |-> "token" \in d.keys /\ ("bot" \in d.installed => d.external \/ d.token # "rejected"),
           admin_allowlist |-> "admins" \in d.keys, builder_bridge |-> "bot" \in d.env,
           builder_memory_roots |-> "builder" \in d.env, llm_roles |-> RolesReady(d, {}),
           telegram_process |-> "bot" \in d.alive]
  OBVIOUS
<1>2. TelegramFails(d) = Failing(s)
  BY <1>1 DEF TelegramFails
<1> QED BY <1>1, <1>2 DEF Failing

LEMMA TelegramNames ==
  ASSUME NEW d
  PROVE  LET named == TelegramRepairs(d) IN
         /\ "setup" \in named
            \/ (d.installed # {} /\ "admins" \in d.keys /\ {"bot", "builder"} \subseteq d.env)
         /\ BotIsHealthy(d) \/ StatusRepairs(d) \subseteq named
         /\ "telegram_connect" \in named
            \/ ("token" \in d.keys /\ ("bot" \in d.installed => d.external \/ d.token # "rejected"))
         /\ "setup_llm_provider" \in named \/ RolesReady(d, {})
         /\ "restart" \in named \/ "bot" \in d.alive
<1>1. PICK f : f = TelegramFails(d)
  OBVIOUS
<1>2. PICK s, h, t, l, p :
        /\ s = (IF f \cap {"starter_installed", "admin_allowlist", "builder_bridge", "builder_memory_roots"} # {}
                THEN {"setup"} ELSE {})
        /\ h = (IF "telegram_module_health" \in f THEN StatusRepairs(d) ELSE {})
        /\ t = (IF "bot_token" \in f THEN {"telegram_connect"} ELSE {})
        /\ l = (IF "llm_roles" \in f THEN {"setup_llm_provider"} ELSE {})
        /\ p = (IF "telegram_process" \in f THEN {"restart"} ELSE {})
  OBVIOUS
<1>3. TelegramRepairs(d) = UNION {s, h, t, l, p}
  BY <1>1, <1>2 DEF TelegramRepairs
<1>4. /\ s \subseteq TelegramRepairs(d) /\ h \subseteq TelegramRepairs(d) /\ t \subseteq TelegramRepairs(d)
      /\ l \subseteq TelegramRepairs(d) /\ p \subseteq TelegramRepairs(d)
  BY <1>3
<1>5. "setup" \in s \/ (d.installed # {} /\ "admins" \in d.keys /\ {"bot", "builder"} \subseteq d.env)
  BY <1>1, <1>2, FailsTelegram
<1>6. BotIsHealthy(d) \/ StatusRepairs(d) \subseteq h
  BY <1>1, <1>2, FailsTelegram
<1>7. /\ "telegram_connect" \in t
         \/ ("token" \in d.keys /\ ("bot" \in d.installed => d.external \/ d.token # "rejected"))
      /\ "setup_llm_provider" \in l \/ RolesReady(d, {})
      /\ "restart" \in p \/ "bot" \in d.alive
  BY <1>1, <1>2, FailsTelegram
<1> QED BY <1>4, <1>5, <1>6, <1>7

(* What keeps Telegram's checks together: the admins are on record of a    *)
(* setup for local ingress only.                                           *)
Kept(d) == "admins" \in d.keys => "token" \in d.keys /\ d.recorded /\ ~d.external

(* What `fix telegram` passes. *)
LEMMA TelegramMeans ==
  ASSUME NEW d, d.installed # {}, "bot" \in d.installed, "bot" \in d.env, "builder" \in d.env, d.token = "good",
         {"token", "admins"} \subseteq d.keys, RolesReady(d, {}), "bot" \in d.alive
  PROVE  TelegramOk(d)
<1>1. PICK s : s = [starter_installed |-> d.installed # {}, telegram_module_health |-> BotIsHealthy(d),
           bot_token |-> "token" \in d.keys /\ ("bot" \in d.installed => d.external \/ d.token # "rejected"),
           admin_allowlist |-> "admins" \in d.keys, builder_bridge |-> "bot" \in d.env,
           builder_memory_roots |-> "builder" \in d.env, llm_roles |-> RolesReady(d, {}),
           telegram_process |-> "bot" \in d.alive]
  OBVIOUS
<1>2. BotIsHealthy(d)
  BY DEF BotIsHealthy, Healthy
<1>3. DOMAIN s = {"starter_installed", "telegram_module_health", "bot_token", "admin_allowlist", "builder_bridge",
                  "builder_memory_roots", "llm_roles", "telegram_process"}
  BY <1>1
<1>4. /\ s.starter_installed /\ s.telegram_module_health /\ s.bot_token /\ s.admin_allowlist /\ s.builder_bridge
      /\ s.builder_memory_roots /\ s.llm_roles /\ s.telegram_process
  BY <1>1, <1>2
<1>5. Failing(s) = {}
  BY <1>3, <1>4 DEF Failing
<1> QED BY <1>1, <1>5 DEF TelegramOk, TelegramFails

OneForTelegram(d, e) == e = d \/ \E c \in TelegramRepairs(d) : e = After(d, c)

(* All but the token and the process. *)
Wired(d) ==
  /\ Good(d) /\ d.profile # "manual" /\ {"bot", "spawner"} \subseteq d.installed /\ {"bot", "builder"} \subseteq d.env
  /\ ~d.external /\ {"token", "admins"} \subseteq d.keys /\ RolesReady(d, {})

LEMMA TelegramCanBeSetUp ==
  ASSUME NEW d, Good(d), Kept(d), d.profile # "manual"
  PROVE  \E e : OneForTelegram(d, e) /\ (Wired(e) \/ TelegramOk(e))
<1>0. /\ d.token \in {"absent", "good", "rejected"} /\ d.llm \in {"none", "keyless", "key", "codex"}
      /\ d \in Installation
  BY DEF Good, Sound, Installation
<1>1. ASSUME NEW llm \in {d.llm, "key"}, NEW command \in TelegramRepairs(d), After(d, command) = SetUp(d, llm, FALSE),
             llm \in {"key", "codex"}
      PROVE  \E e : OneForTelegram(d, e) /\ (Wired(e) \/ TelegramOk(e))
  <2>1. PICK e : e = SetUp(d, llm, FALSE) /\ Good(e) /\ SetUpLeaves(d, llm, FALSE, e)
    BY <1>1, SetUpIsGood
  <2>2. RolesReady(e, {})
    BY <1>1, <2>1 DEF SetUpLeaves, RolesReady, EffectiveAuth
  <2>3. Wired(e)
    BY <2>1, <2>2 DEF Wired, SetUpLeaves, Starter
  <2> QED BY <1>1, <2>1, <2>3 DEF OneForTelegram
<1>2. CASE ~RolesReady(d, {})
  <2>1. "setup_llm_provider" \in TelegramRepairs(d)
    BY <1>2, TelegramNames
  <2>2. After(d, "setup_llm_provider") = SetUp(d, "key", FALSE)
    BY DEF After
  <2> QED BY <1>1, <2>1, <2>2
<1>3. CASE RolesReady(d, {}) /\ "setup" \in TelegramRepairs(d)
  <2>1. After(d, "setup") = SetUp(d, d.llm, FALSE)
    BY DEF After
  <2>2. d.llm \in {"key", "codex"}
    BY <1>3 DEF RolesReady, EffectiveAuth
  <2> QED BY <1>1, <1>3, <2>1, <2>2
<1>4. CASE RolesReady(d, {}) /\ "setup" \notin TelegramRepairs(d)
  <2>1. d.installed # {} /\ "admins" \in d.keys /\ {"bot", "builder"} \subseteq d.env
    BY <1>4, TelegramNames
  <2>2. "token" \in d.keys /\ d.recorded /\ ~d.external /\ d.token # "absent"
    BY <2>1 DEF Kept, Good
  <2>3. "setup" \in StatusRepairs(d) \/ {"bot", "spawner"} \subseteq d.installed
    <3>1. CASE ~({"bot", "spawner"} \subseteq d.installed)
      <4>1. PICK s : s = [modules |-> Unhealthy(d) = {}, orphans |-> d.orphan = "none",
                          bundle |-> d.recorded => Starter \subseteq d.installed,
                          llm |-> RolesReady(d, d.keys), processes |-> d.recorded => AllRunning(d)]
        OBVIOUS
      <4>2. "bundle" \in Failing(s)
        BY <2>2, <3>1, <4>1 DEF Failing, Starter
      <4>3. "bundle" \in StatusFails(d)
        BY <2>1, <4>1, <4>2 DEF StatusFails
      <4> QED BY <4>3 DEF StatusRepairs
    <3> QED BY <3>1
  <2>4. CASE BotIsHealthy(d)
    <3>1. "bot" \in d.installed /\ d.token = "good"
      BY <2>2, <2>4 DEF BotIsHealthy, Healthy
    <3>2. CASE "bot" \in d.alive
      <4>1. TelegramOk(d)
        BY <1>4, <2>1, <2>2, <3>1, <3>2, TelegramMeans
      <4> QED BY <4>1 DEF OneForTelegram
    <3>3. CASE "bot" \notin d.alive
      <4>1. PICK e : e = RestartAll(d)
        OBVIOUS
      <4>2. Alike(d, e) /\ e.alive = ByDefault(d)
        BY <1>0, <4>1, RestartFields
      <4>3. "bot" \in ByDefault(d)
        BY <2>1, <2>2, <3>1 DEF ByDefault, CanRun
      <4>4. e.token = "good" /\ RolesReady(e, {})
        BY <1>4, <3>1, <4>2 DEF Alike, RolesReady, EffectiveAuth
      <4>5. TelegramOk(e)
        BY <2>1, <2>2, <3>1, <4>2, <4>3, <4>4, TelegramMeans DEF Alike
      <4>6. "restart" \in TelegramRepairs(d)
        BY <3>3, TelegramNames
      <4>7. After(d, "restart") = e
        BY <4>1 DEF After
      <4> QED BY <4>5, <4>6, <4>7 DEF OneForTelegram
    <3> QED BY <3>2, <3>3
  <2>5. CASE ~BotIsHealthy(d)
    <3>1. {"bot", "spawner"} \subseteq d.installed
      BY <1>4, <2>3, <2>5, TelegramNames
    <3>2. Wired(d)
      BY <1>4, <2>1, <2>2, <3>1 DEF Wired
    <3> QED BY <3>2 DEF OneForTelegram
  <2> QED BY <2>4, <2>5
<1> QED BY <1>2, <1>3, <1>4

LEMMA BotCanBeConnected ==
  ASSUME NEW d, Wired(d)
  PROVE  \E e : OneForTelegram(d, e) /\ TelegramOk(e)
<1>0. /\ d.token \in {"good", "rejected"} /\ d \in Installation
  BY DEF Wired, Good, Sound, Installation
<1>1. CASE d.token = "good" /\ "bot" \in d.alive
  <2>1. TelegramOk(d)
    BY <1>1, TelegramMeans DEF Wired
  <2> QED BY <2>1 DEF OneForTelegram
<1>2. CASE d.token = "good" /\ "bot" \notin d.alive
  <2>1. PICK e : e = RestartAll(d)
    OBVIOUS
  <2>2. Alike(d, e) /\ e.alive = ByDefault(d)
    BY <1>0, <2>1, RestartFields
  <2>3. "bot" \in ByDefault(d)
    BY <1>2 DEF ByDefault, CanRun, Wired
  <2>4. e.token = "good" /\ RolesReady(e, {})
    BY <1>2, <2>2 DEF Alike, RolesReady, EffectiveAuth, Wired
  <2>5. TelegramOk(e)
    BY <2>2, <2>3, <2>4, TelegramMeans DEF Alike, Wired
  <2>6. "restart" \in TelegramRepairs(d)
    BY <1>2, TelegramNames
  <2>7. After(d, "restart") = e
    BY <2>1 DEF After
  <2> QED BY <2>5, <2>6, <2>7 DEF OneForTelegram
<1>3. CASE d.token = "rejected"
  <2>1. PICK e : e = ConnectBot(d)
    OBVIOUS
  <2>2. /\ e.token = "good" /\ e.installed = d.installed /\ e.keys = d.keys /\ e.llm = d.llm /\ e.env = d.env
        /\ e.external = d.external /\ e.alive = ByDefault(e) /\ e.profile = "autostart"
    BY <1>0, <2>1, ConnectFields DEF Wired
  <2>3. "bot" \in ByDefault(e)
    BY <2>2 DEF ByDefault, CanRun, Wired
  <2>4. RolesReady(e, {})
    BY <2>2 DEF RolesReady, EffectiveAuth, Wired
  <2>5. TelegramOk(e)
    BY <2>2, <2>3, <2>4, TelegramMeans DEF Wired
  <2>6. "telegram_connect" \in TelegramRepairs(d)
    BY <1>3, TelegramNames DEF Wired
  <2>7. After(d, "telegram_connect") = e
    BY <2>1 DEF After
  <2> QED BY <2>5, <2>6, <2>7 DEF OneForTelegram
<1> QED BY <1>0, <1>1, <1>2, <1>3

LEMMA TelegramLeadsOut ==
  ASSUME Good(here), Kept(here), here.profile # "manual", MaxRepairs >= 7
  PROVE  CanBeMade("telegram")
<1>1. MaxRepairs \in Nat /\ 0 < MaxRepairs /\ 1 < MaxRepairs
  BY RepairAssumption
<1>2. ASSUME NEW n \in Nat, n < MaxRepairs, NEW d, WithinCommands("telegram", n, d), NEW e, OneForTelegram(d, e)
      PROVE  WithinCommands("telegram", n + 1, e)
  BY <1>2, OneMoreCommand DEF OneForTelegram, Guide
<1>3. WithinCommands("telegram", 0, here)
  BY HereWithin
<1>4. PICK d : OneForTelegram(here, d) /\ (Wired(d) \/ TelegramOk(d))
  BY TelegramCanBeSetUp
<1>5. WithinCommands("telegram", 1, d)
  BY <1>1, <1>2, <1>3, <1>4
<1>6. PICK e : OneForTelegram(d, e) /\ TelegramOk(e)
  BY <1>4, BotCanBeConnected DEF OneForTelegram
<1>7. WithinCommands("telegram", 2, e)
  BY <1>1, <1>2, <1>5, <1>6
<1> QED BY <1>6, <1>7, PassesIsMade DEF Passes

SameRecord(d, e) == e.keys = d.keys /\ e.recorded = d.recorded /\ e.external = d.external

LEMMA SetUpKeeps ==
  ASSUME NEW d \in Installation, NEW llm \in {"none", "keyless", "key", "codex"}, NEW external \in BOOLEAN
  PROVE  Kept(SetUp(d, llm, external))
<1>1. PICK s : s = SetUp(d, llm, external) /\ SetUpLeaves(d, llm, external, s)
  BY SetUpFields
<1>2. CASE external
  <2>1. "admins" \notin s.keys
    BY <1>1, <1>2 DEF SetUpLeaves
  <2> QED BY <1>1, <2>1 DEF Kept
<1>3. CASE ~external
  <2>1. "token" \in s.keys /\ s.recorded /\ ~s.external
    BY <1>1, <1>3 DEF SetUpLeaves
  <2> QED BY <1>1, <2>1 DEF Kept
<1> QED BY <1>2, <1>3

LEMMA AfterKeeps ==
  ASSUME NEW d \in Installation, Kept(d), NEW command \in UserCommands
  PROVE  Kept(After(d, command))
<1>0. d.llm \in {"none", "keyless", "key", "codex"}
  BY DEF Installation
<1>1. CASE command = "setup"
  BY <1>0, <1>1, SetUpKeeps DEF After
<1>2. CASE command = "setup_llm_provider"
  BY <1>2, SetUpKeeps DEF After
<1>3. CASE command = "setup_external_ingress"
  BY <1>0, <1>3, SetUpKeeps DEF After
<1>4. ASSUME SameRecord(d, After(d, command)) PROVE Kept(After(d, command))
  BY <1>4 DEF Kept, SameRecord
<1>5. CASE command \in {"start", "stop", "restart"}
  <2>1. SameRecord(d, StartAll(d)) /\ SameRecord(d, StopAll(d)) /\ SameRecord(d, RestartAll(d))
    BY StartFields, StopFields, RestartFields, ZenonT(30) DEF SameRecord, Alike
  <2>2. SameRecord(d, After(d, command))
    BY <1>5, <2>1 DEF After
  <2> QED BY <1>4, <2>2
<1>6. CASE command = "telegram_connect"
  <2>1. SameRecord(d, ConnectBot(d))
    <3>1. CASE {"bot", "spawner"} \subseteq d.installed
      BY <3>1, ConnectFields DEF SameRecord
    <3>2. CASE ~({"bot", "spawner"} \subseteq d.installed)
      BY <3>2 DEF SameRecord, ConnectBot
    <3> QED BY <3>1, <3>2
  <2>2. SameRecord(d, After(d, command))
    BY <1>6, <2>1 DEF After
  <2> QED BY <1>4, <2>2
<1>7. CASE command = "fix_secrets_redact_logs"
  <2>1. PICK s : s = StopAll(d) /\ s \in Installation /\ SameRecord(d, s)
    BY StopFields DEF SameRecord, Alike
  <2>2. PICK e : e = [d EXCEPT !.leaks = @ \ {"logs"}]
    OBVIOUS
  <2>3. PICK f : f = [s EXCEPT !.leaks = @ \ {"logs"}]
    OBVIOUS
  <2>4. SameRecord(d, e)
    BY <2>2 DEF SameRecord, Installation
  <2>5. f \in Installation /\ SameRecord(d, f)
    BY <2>1, <2>3 DEF SameRecord, Installation
  <2>6. SameRecord(d, StartAll(f))
    BY <2>5, StartFields DEF SameRecord, Alike
  <2>7. RedactLogs(d) = e \/ RedactLogs(d) = StartAll(f)
    BY <2>1, <2>2, <2>3 DEF RedactLogs
  <2>8. SameRecord(d, After(d, command))
    BY <1>7, <2>4, <2>6, <2>7 DEF After
  <2> QED BY <1>4, <2>8
<1>8. CASE command \in {"fix_modules_clean", "update_builder", "codex_login"}
  <2>1. SameRecord(d, CleanClones(d))
    BY DEF CleanClones, SameRecord, Installation
  <2>2. SameRecord(d, UpdateBuilder(d))
    BY DEF UpdateBuilder, SameRecord, Installation
  <2>3. SameRecord(d, [d EXCEPT !.signedIn = TRUE])
    BY DEF SameRecord, Installation
  <2>4. SameRecord(d, After(d, command))
    BY <1>8, <2>1, <2>2, <2>3 DEF After
  <2> QED BY <1>4, <2>4
<1> QED BY <1>1, <1>2, <1>3, <1>5, <1>6, <1>7, <1>8 DEF UserCommands

LEMMA DamageKeeps ==
  ASSUME NEW d \in Installation, NEW e \in Damaged(d)
  PROVE  SameRecord(d, e)
<1>1. ASSUME NEW m, e = [d EXCEPT !.alive = @ \ {m}] PROVE SameRecord(d, e)
  BY <1>1 DEF SameRecord, Installation
<1>2. ASSUME e = [d EXCEPT !.answers = FALSE] PROVE SameRecord(d, e)
  BY <1>2 DEF SameRecord, Installation
<1>3. ASSUME NEW m, e = [d EXCEPT !.installed = @ \ {m}, !.alive = @ \ {m}] PROVE SameRecord(d, e)
  BY <1>3 DEF SameRecord, Installation
<1>4. ASSUME NEW m, e = [d EXCEPT !.installed = @ \cup {m}, !.builderRef = @ /\ m # "builder"] PROVE SameRecord(d, e)
  <2>1. PICK installed : installed = d.installed \cup {m}
    OBVIOUS
  <2>2. PICK b \in BOOLEAN : b = (d.builderRef /\ m # "builder")
    OBVIOUS
  <2>3. e = [d EXCEPT !.installed = installed, !.builderRef = b]
    BY <1>4, <2>1, <2>2
  <2> QED BY <2>3 DEF SameRecord, Installation
<1>5. ASSUME NEW m, e = [d EXCEPT !.env = @ \ {m}] PROVE SameRecord(d, e)
  BY <1>5 DEF SameRecord, Installation
<1>6. ASSUME NEW l, e = [d EXCEPT !.leaks = @ \cup {l}] PROVE SameRecord(d, e)
  BY <1>6 DEF SameRecord, Installation
<1>7. ASSUME NEW t, e = [d EXCEPT !.token = t] PROVE SameRecord(d, e)
  BY <1>7 DEF SameRecord, Installation
<1>8. ASSUME NEW o, e = [d EXCEPT !.orphan = o] PROVE SameRecord(d, e)
  BY <1>8 DEF SameRecord, Installation
<1>9. ASSUME e = [d EXCEPT !.signedIn = FALSE] PROVE SameRecord(d, e)
  BY <1>9 DEF SameRecord, Installation
<1>10. ASSUME e = [d EXCEPT !.profile = "manual"] PROVE SameRecord(d, e)
  BY <1>10 DEF SameRecord, Installation
<1>11. DamageIs(d, e)
  BY DamageCases
<1> QED BY <1>1, <1>2, <1>3, <1>4, <1>5, <1>6, <1>7, <1>8, <1>9, <1>10, <1>11 DEF DamageIs

LEMMA KeptInductive == RepairSpec => [](RepairTypeOK /\ Kept(here))
<1>1. RepairInit => Kept(here)
  BY DEF RepairInit, Fresh, Kept
<1>2. RepairTypeOK /\ Kept(here) /\ [RepairNext]_repair_vars => Kept(here)'
  <2> SUFFICES ASSUME RepairTypeOK, Kept(here), [RepairNext]_repair_vars PROVE Kept(here')
    BY DEF Kept
  <2>1. here \in Installation /\ Sound(here)
    BY DEF RepairTypeOK, Sound
  <2>2. CASE ChooseSetup
    <3>1. PICK llm \in {"key", "keyless", "codex"}, external \in BOOLEAN :
            here' = [SetUp(here, llm, external) EXCEPT !.signedIn = (llm = "codex") \/ @]
      BY <2>2 DEF ChooseSetup
    <3>2. PICK s : s = SetUp(here, llm, external) /\ Kept(s) /\ Sound(s)
      BY <2>1, SetUpKeeps, SetUpSound
    <3>3. here'.keys = s.keys /\ here'.recorded = s.recorded /\ here'.external = s.external
      BY <3>1, <3>2 DEF Sound, Installation
    <3> QED BY <3>2, <3>3 DEF Kept
  <2>3. CASE RunCommand
    BY <2>1, <2>3, AfterKeeps DEF RunCommand
  <2>4. CASE SufferDamage
    <3>1. SameRecord(here, here')
      BY <2>1, <2>4, DamageKeeps DEF SufferDamage
    <3> QED BY <3>1 DEF SameRecord, Kept
  <2>5. CASE UNCHANGED repair_vars
    BY <2>5 DEF repair_vars, Kept
  <2> QED BY <2>2, <2>3, <2>4, <2>5 DEF RepairNext
<1> QED BY <1>1, <1>2, RepairInductive, PTL DEF RepairSpec

(* From an installation whose processes are not hung and whose token is    *)
(* not lost, whatever and however much was damaged, seven commands that    *)
(* `verify` names lead to one that it and `status` pass, and, without a    *)
(* profile started by hand, seven that `fix telegram` names lead to one    *)
(* that it passes.                                                         *)
THEOREM GuideLeadsOut == ASSUME MaxRepairs >= 7 PROVE RepairSpec => []GuideIsSound
<1>1. RepairTypeOK /\ Kept(here) => NoDeadEnd
  <2> SUFFICES ASSUME RepairTypeOK, Kept(here), ~Hung, ~TokenLost
               PROVE  /\ CanBeMade("verify") /\ CanBeMade("status")
                      /\ here.profile = "manual" \/ CanBeMade("telegram")
    BY DEF NoDeadEnd
  <2>1. Good(here)
    BY DEF Good, Sound, RepairTypeOK, Hung, TokenLost
  <2> QED BY <2>1, VerifyLeadsOut, TelegramLeadsOut
<1>2. RepairTypeOK /\ Kept(here) => GuideIsSound
  BY <1>1, TypedAgree DEF GuideIsSound
<1> QED BY <1>2, KeptInductive, PTL

-----------------------------------------------------------------------------
(* The security audit, and the strict guard.                              *)

LEMMA PinnedTyped ==
  ASSUME NEW pin \in 1..MaxPin PROVE PinnedTree(pin) \in AuditedTree
BY DEF PinnedTree, AuditedTree

LEMMA LaunchTyped ==
  ASSUME NEW s \in Place, NEW processes
  PROVE  Launch(s, processes) \in Place /\ Halt(s, processes) \in Place
<1>1. s.record \in [Supervised -> {"none", "stale", "live"}] /\ s.logless \in SUBSET Supervised
  BY DEF Place
<1>2. PICK r, h, l :
        /\ r = [p \in Supervised |->
                  IF p \in processes /\ (p = "bot" => CanPoll(s)) THEN "live" ELSE s.record[p]]
        /\ h = [p \in Supervised |-> IF p \in processes THEN "none" ELSE s.record[p]]
        /\ l = s.logless \ processes
  OBVIOUS
<1>3. /\ r \in [Supervised -> {"none", "stale", "live"}] /\ h \in [Supervised -> {"none", "stale", "live"}]
      /\ l \in SUBSET Supervised
  BY <1>1, <1>2
<1>4. Launch(s, processes) = [s EXCEPT !.record = r, !.logless = l] /\ Halt(s, processes) = [s EXCEPT !.record = h]
  BY <1>2 DEF Launch, Halt
<1> QED BY <1>3, <1>4, ZenonT(30) DEF Place

LEMMA TreeTyped ==
  ASSUME NEW s \in Place, NEW trees \in [Audited -> AuditedTree]
  PROVE  [s EXCEPT !.tree = trees] \in Place
BY DEF Place

LEMMA StartTyped ==
  ASSUME NEW s \in Place, NEW processes
  PROVE  Start(s, processes) \in Place /\ LiveRestart(s) \in Place /\ AutostartNow(s) \in Place
<1>1. Start(s, processes) \in Place
  BY LaunchTyped DEF Start
<1>2. AutostartNow(s) \in Place
  BY LaunchTyped DEF AutostartNow
<1>3. LiveRestart(s) \in Place
  <2>1. PICK all : all = WithDependents(s, LiveTarget(s))
    OBVIOUS
  <2>2. PICK h \in Place : h = Halt(s, all)
    BY LaunchTyped
  <2>3. Launch(h, all) \in Place
    BY <2>2, LaunchTyped
  <2> QED BY <2>1, <2>2, <2>3 DEF LiveRestart
<1> QED BY <1>1, <1>2, <1>3

LEMMA ResumeTyped ==
  ASSUME NEW s \in Place
  PROVE  ResumeSetup(s) \in Place
<1>1. PICK trees : trees = [m \in Audited |-> [s.tree[m] EXCEPT !.stamp = s.pin]]
  OBVIOUS
<1>2. trees \in [Audited -> AuditedTree]
  BY <1>1, SMTT(30) DEF Place, AuditedTree
<1>3. PICK e : e = [s EXCEPT !.external = FALSE, !.pending = FALSE, !.tree = trees]
  OBVIOUS
<1>4. e \in Place
  BY <1>2, <1>3 DEF Place
<1>5. ResumeSetup(s) = AutostartNow(e)
  BY <1>1, <1>3 DEF ResumeSetup
<1> QED BY <1>4, <1>5, StartTyped

LEMMA UpdateOneTyped ==
  ASSUME NEW s \in Place, NEW m \in Audited
  PROVE  UpdateOne(s, m) \in Place /\ Reinstall(s, m) \in Place
<1>1. s.tree \in [Audited -> AuditedTree] /\ s.pin \in 1..MaxPin
  BY DEF Place
<1>2. s.tree[m] \in AuditedTree
  BY <1>1
<1>3. PICK h \in 1..MaxPin : h = IF s.tree[m].managed THEN s.pin ELSE s.tree[m].head
  BY <1>1, <1>2 DEF AuditedTree
<1>4. PICK moved : moved = [s.tree[m] EXCEPT !.stamp = s.pin, !.head = h]
  OBVIOUS
<1>5. moved \in AuditedTree
  BY <1>1, <1>2, <1>4 DEF AuditedTree
<1>6. PICK u, r : u = [s EXCEPT !.tree[m] = moved] /\ r = [s EXCEPT !.tree[m] = PinnedTree(s.pin)]
  OBVIOUS
<1>7. [s.tree EXCEPT ![m] = moved] \in [Audited -> AuditedTree]
      /\ [s.tree EXCEPT ![m] = PinnedTree(s.pin)] \in [Audited -> AuditedTree]
  BY <1>1, <1>5, PinnedTyped
<1>8. u \in Place /\ r \in Place
  BY <1>6, <1>7, TreeTyped
<1>9. UpdateOne(s, m) = Halt(u, {m} \cap Supervised) /\ Reinstall(s, m) = Halt(r, {m} \cap Supervised)
  BY <1>3, <1>4, <1>6 DEF UpdateOne, Reinstall
<1> QED BY <1>8, <1>9, LaunchTyped

LEMMA UpdateTyped ==
  ASSUME NEW s \in Place
  PROVE  UpdateClean(s) \in Place
<1>1. PICK first \in Place :
        first = IF Skips(s, "builder") \/ Refuses(s, "builder") THEN s ELSE UpdateOne(s, "builder")
  BY UpdateOneTyped DEF Audited
<1>2. UpdateOne(first, "spawner") \in Place
  BY UpdateOneTyped DEF Audited
<1> QED BY <1>1, <1>2 DEF UpdateClean

LEMMA EditsTyped ==
  ASSUME NEW s \in Place
  PROVE  DropEdits(s) \in Place /\ WriteLocks(s) \in Place
<1>1. PICK d, written : /\ d = [m \in Audited |-> IF s.tree[m].git = "repo" THEN [s.tree[m] EXCEPT !.edit = "none"] ELSE s.tree[m]]
                  /\ written = [m \in Audited |-> IF LockfilesOk(s, s.tree[m]) THEN s.tree[m] ELSE [s.tree[m] EXCEPT !.edit = "locks"]]
  OBVIOUS
<1>2. \A m \in Audited : s.tree[m] \in AuditedTree
  BY DEF Place
<1>3. \A m \in Audited : d[m] \in AuditedTree
  BY <1>1, <1>2 DEF AuditedTree
<1>4. \A m \in Audited : written[m] \in AuditedTree
  BY <1>1, <1>2 DEF AuditedTree
<1>5. d \in [Audited -> AuditedTree] /\ written \in [Audited -> AuditedTree]
  BY <1>1, <1>3, <1>4
<1>6. DropEdits(s) = [s EXCEPT !.tree = d] /\ WriteLocks(s) = [s EXCEPT !.tree = written]
  BY <1>1 DEF DropEdits, WriteLocks
<1> QED BY <1>5, <1>6, TreeTyped

LEMMA BotWritesTyped ==
  ASSUME NEW s \in Place
  PROVE  BotWrites(s) \in Place
<1>1. PICK c \in BOOLEAN : c = (s.polling # "alone")
  OBVIOUS
<1>2. [s EXCEPT !.conflict = c, !.logless = @ \ {"bot"}] \in Place
  BY DEF Place
<1> QED BY <1>1, <1>2 DEF BotWrites

LEMMA AuditCommandsAre ==
  AuditCommands \subseteq
    {"bind_to_localhost", "allow_hosts", "one_poller", "go_on", "live_restart", "stop_telegram_starter",
     "live_start", "setup_resume", "autostart_on_now", "update_skip_dirty", "review_edits", "reinstall_builder",
     "reinstall_spawner", "regenerate_lockfiles", "start", "strict_pins"}
<1>1. \A c \in DOMAIN Named : Named[c] \subseteq
    {"bind_to_localhost", "allow_hosts", "one_poller", "go_on", "live_restart", "stop_telegram_starter",
     "live_start", "setup_resume", "autostart_on_now", "update_skip_dirty", "review_edits", "reinstall_builder",
     "reinstall_spawner", "regenerate_lockfiles", "start", "strict_pins"}
  BY DEF Named
<1> QED BY <1>1 DEF AuditCommands

LEMMA RanTyped ==
  ASSUME NEW s \in Place, NEW command \in AuditCommands
  PROVE  Ran(s, command) \in Place
<1>1. CASE command \in {"live_restart", "live_start", "start", "autostart_on_now"}
  BY <1>1, StartTyped DEF Ran
<1>2. CASE command = "stop_telegram_starter"
  BY <1>2, LaunchTyped DEF Ran
<1>3. CASE command = "setup_resume"
  BY <1>3, ResumeTyped DEF Ran
<1>4. CASE command = "update_skip_dirty"
  BY <1>4, UpdateTyped DEF Ran
<1>5. CASE command = "reinstall_builder"
  BY <1>5, UpdateOneTyped DEF Ran, Audited
<1>6. CASE command = "reinstall_spawner"
  BY <1>6, UpdateOneTyped DEF Ran, Audited
<1>7. CASE command \in {"review_edits", "regenerate_lockfiles"}
  BY <1>7, EditsTyped DEF Ran
<1>8. CASE command = "go_on"
  BY <1>8, BotWritesTyped DEF Ran
<1>9. CASE command = "one_poller"
  <2>1. [s EXCEPT !.polling = "alone"] \in Place
    BY DEF Place
  <2> QED BY <1>9, <2>1 DEF Ran
<1>10. CASE command = "bind_to_localhost"
  <2>1. [s EXCEPT !.bind = "loopback", !.allowed = FALSE] \in Place
    BY DEF Place
  <2> QED BY <1>10, <2>1 DEF Ran
<1>11. CASE command = "allow_hosts"
  <2>1. [s EXCEPT !.allowed = TRUE] \in Place
    BY DEF Place
  <2> QED BY <1>11, <2>1 DEF Ran
<1>12. CASE command = "strict_pins"
  <2>1. [s EXCEPT !.strict = TRUE] \in Place
    BY DEF Place
  <2> QED BY <1>12, <2>1 DEF Ran
<1> QED BY <1>1, <1>2, <1>3, <1>4, <1>5, <1>6, <1>7, <1>8, <1>9, <1>10, <1>11, <1>12, AuditCommandsAre

(* What a mishap is. *)
MishapIs(s, e) ==
  \/ \E p \in Supervised : e = [s EXCEPT !.record = [s.record EXCEPT ![p] = "stale"]]
  \/ \E p \in Supervised : e = [s EXCEPT !.logless = @ \cup {p}]
  \/ e = [s EXCEPT !.pending = TRUE]
  \/ e = [s EXCEPT !.external = TRUE, !.profile = FALSE]
  \/ e = [s EXCEPT !.profile = (s.external = FALSE)]
  \/ e = [s EXCEPT !.strict = TRUE]
  \/ e = [s EXCEPT !.conflict = (s.record["bot"] = "live"), !.polling = "elsewhere"]
  \/ e = [s EXCEPT !.polling = "shared"]
  \/ \E b \in {"wildcard", "lan"} : e = [s EXCEPT !.bind = b]
  \/ \E c \in 1..MaxPin : e = [s EXCEPT !.pin = c]
  \/ \E m \in Audited, t \in AuditedTree : e = [s EXCEPT !.tree = [s.tree EXCEPT ![m] = t]]

LEMMA MishapCases ==
  ASSUME NEW s \in Place, NEW e \in Mishap(s)
  PROVE  MishapIs(s, e)
<1>m1. PICK M1 : M1 = {[s EXCEPT !.record[p] = "stale"] : p \in {q \in Supervised : s.record[q] = "live"}}
  OBVIOUS
<1>m2. PICK M2 : M2 = {[s EXCEPT !.logless = @ \cup {p}] : p \in Supervised}
  OBVIOUS
<1>m3. PICK M3 : M3 = {[s EXCEPT !.pending = TRUE], [s EXCEPT !.external = TRUE, !.profile = FALSE],
                       [s EXCEPT !.profile = ~s.external], [s EXCEPT !.strict = TRUE],
                       [s EXCEPT !.conflict = s.record["bot"] = "live", !.polling = "elsewhere"]}
  OBVIOUS
<1>m4. PICK M4 : M4 = {[s EXCEPT !.polling = "shared"] : p \in IF s.profile THEN {1} ELSE {}}
  OBVIOUS
<1>m5. PICK M5 : M5 = {[s EXCEPT !.bind = b] : b \in {"wildcard", "lan"}}
  OBVIOUS
<1>m6. PICK M6 : M6 = {[s EXCEPT !.pin = c] : c \in 1..MaxPin}
  OBVIOUS
<1>m7. PICK M7 : M7 = {[s EXCEPT !.tree[m].edit = "code"] : m \in Audited}
  OBVIOUS
<1> DEFINE M8 == {[s EXCEPT !.tree[m].git = g] : g \in {"broken", "none"}, m \in Audited}
<1>m9. PICK M9 : M9 = {[s EXCEPT !.tree[m].managed = FALSE] : m \in Audited}
  OBVIOUS
<1>2. e \in UNION {M1, M2, M3, M4, M5, M6, M7, M8, M9}
  BY <1>m1, <1>m2, <1>m3, <1>m4, <1>m5, <1>m6, <1>m7, <1>m9 DEF Mishap
<1> HIDE DEF M8
<1>3. e \in M1 \/ e \in M2 \/ e \in M3 \/ e \in M4 \/ e \in M5 \/ e \in M6 \/ e \in M7 \/ e \in M8 \/ e \in M9
  BY <1>2
<1>4. CASE e \in M1
  <2>1. PICK p \in Supervised : e = [s EXCEPT !.record[p] = "stale"]
    BY <1>m1, <1>4
  <2>2. e = [s EXCEPT !.record = [s.record EXCEPT ![p] = "stale"]]
    BY <2>1
  <2> QED BY <2>2 DEF MishapIs
<1>5. CASE e \in M2
  BY <1>m2, <1>5 DEF MishapIs
<1>6. CASE e \in M3
  <2>1. s.external \in BOOLEAN
    BY DEF Place
  <2>2. e = [s EXCEPT !.profile = ~s.external] => e = [s EXCEPT !.profile = (s.external = FALSE)]
    <3>1. (~s.external) = (s.external = FALSE)
      BY <2>1
    <3> QED BY <3>1
  <2>3. \/ e = [s EXCEPT !.pending = TRUE]
        \/ e = [s EXCEPT !.external = TRUE, !.profile = FALSE]
        \/ e = [s EXCEPT !.profile = ~s.external]
        \/ e = [s EXCEPT !.strict = TRUE]
        \/ e = [s EXCEPT !.conflict = (s.record["bot"] = "live"), !.polling = "elsewhere"]
    BY <1>m3, <1>6
  <2> QED BY <2>2, <2>3 DEF MishapIs
<1>7. CASE e \in M4
  <2>1. e = [s EXCEPT !.polling = "shared"]
    BY <1>m4, <1>7
  <2> QED BY <2>1 DEF MishapIs
<1>8. CASE e \in M5
  BY <1>m5, <1>8 DEF MishapIs
<1>9. CASE e \in M6
  BY <1>m6, <1>9 DEF MishapIs
<1>10. CASE e \in M7 \cup M8 \cup M9
  <2>1. PICK m \in Audited :
           \/ e = [s EXCEPT !.tree[m].edit = "code"]
           \/ \E g \in {"broken", "none"} : e = [s EXCEPT !.tree[m].git = g]
           \/ e = [s EXCEPT !.tree[m].managed = FALSE]
    <3>1. e \in M7 => \E m \in Audited : e = [s EXCEPT !.tree[m].edit = "code"]
      BY <1>m7
    <3>2. e \in M8 => \E m \in Audited : \E g \in {"broken", "none"} : e = [s EXCEPT !.tree[m].git = g]
      BY DEF M8
    <3>3. e \in M9 => \E m \in Audited : e = [s EXCEPT !.tree[m].managed = FALSE]
      BY <1>m9
    <3>4. e \in M7 \/ e \in M8 \/ e \in M9
      BY <1>10
    <3> QED BY <3>1, <3>2, <3>3, <3>4, Zenon
  <2>2. s.tree[m] \in AuditedTree
    BY DEF Place
  <2>3. PICK t : /\ e = [s EXCEPT !.tree[m] = t]
                 /\ \/ t = [s.tree[m] EXCEPT !.edit = "code"]
                    \/ \E g \in {"broken", "none"} : t = [s.tree[m] EXCEPT !.git = g]
                    \/ t = [s.tree[m] EXCEPT !.managed = FALSE]
    BY <2>1
  <2>4. t \in AuditedTree
    BY <2>2, <2>3 DEF AuditedTree
  <2>5. e = [s EXCEPT !.tree = [s.tree EXCEPT ![m] = t]]
    BY <2>3
  <2> QED BY <2>4, <2>5 DEF MishapIs
<1> QED BY <1>3, <1>4, <1>5, <1>6, <1>7, <1>8, <1>9, <1>10

LEMMA MishapTyped ==
  ASSUME NEW s \in Place, NEW e \in Mishap(s)
  PROVE  e \in Place
<1>1. ASSUME NEW p \in Supervised, e = [s EXCEPT !.record = [s.record EXCEPT ![p] = "stale"]] PROVE e \in Place
  <2>1. [s.record EXCEPT ![p] = "stale"] \in [Supervised -> {"none", "stale", "live"}]
    BY DEF Place
  <2> QED BY <1>1, <2>1 DEF Place
<1>2. ASSUME NEW p \in Supervised, e = [s EXCEPT !.logless = @ \cup {p}] PROVE e \in Place
  BY <1>2 DEF Place
<1>3. ASSUME \/ e = [s EXCEPT !.pending = TRUE]
             \/ e = [s EXCEPT !.external = TRUE, !.profile = FALSE]
             \/ e = [s EXCEPT !.strict = TRUE]
             \/ e = [s EXCEPT !.polling = "shared"]
      PROVE  e \in Place
  <2>1. e = [s EXCEPT !.pending = TRUE] => e \in Place
    BY ZenonT(30) DEF Place
  <2>2. e = [s EXCEPT !.external = TRUE, !.profile = FALSE] => e \in Place
    BY ZenonT(30) DEF Place
  <2>3. e = [s EXCEPT !.strict = TRUE] => e \in Place
    BY ZenonT(30) DEF Place
  <2>4. e = [s EXCEPT !.polling = "shared"] => e \in Place
    BY DEF Place
  <2> QED BY <1>3, <2>1, <2>2, <2>3, <2>4
<1>4. ASSUME e = [s EXCEPT !.profile = (s.external = FALSE)] PROVE e \in Place
  <2>1. PICK b \in BOOLEAN : b = (s.external = FALSE)
    OBVIOUS
  <2>2. e = [s EXCEPT !.profile = b]
    BY <1>4, <2>1
  <2> QED BY <2>2 DEF Place
<1>5. ASSUME e = [s EXCEPT !.conflict = (s.record["bot"] = "live"), !.polling = "elsewhere"] PROVE e \in Place
  <2>1. PICK b \in BOOLEAN : b = (s.record["bot"] = "live")
    OBVIOUS
  <2>2. e = [s EXCEPT !.conflict = b, !.polling = "elsewhere"]
    BY <1>5, <2>1
  <2> QED BY <2>2 DEF Place
<1>6. ASSUME NEW b \in {"wildcard", "lan"}, e = [s EXCEPT !.bind = b] PROVE e \in Place
  BY <1>6 DEF Place
<1>7. ASSUME NEW c \in 1..MaxPin, e = [s EXCEPT !.pin = c] PROVE e \in Place
  BY <1>7 DEF Place
<1>8. ASSUME NEW m \in Audited, NEW t \in AuditedTree, e = [s EXCEPT !.tree = [s.tree EXCEPT ![m] = t]]
      PROVE  e \in Place
  <2>1. [s.tree EXCEPT ![m] = t] \in [Audited -> AuditedTree]
    BY DEF Place
  <2> QED BY <1>8, <2>1, TreeTyped
<1>9. MishapIs(s, e)
  BY MishapCases
<1> QED BY <1>1, <1>2, <1>3, <1>4, <1>5, <1>6, <1>7, <1>8, <1>9 DEF MishapIs

LEMMA SetUpPlaceTyped ==
  ASSUME NEW hosted \in BOOLEAN, NEW chained \in BOOLEAN, NEW stale \in SUBSET {MaxPin}
  PROVE  SetUpPlace(hosted, chained, stale) \in Place
<1>1. 1 \in 1..MaxPin /\ PinnedTree(1) \in AuditedTree
  BY AuditAssumption, PinnedTyped
<1> QED BY <1>1 DEF SetUpPlace, Place

LEMMA AuditInductive == AuditSpec => []AuditTypeOK
<1>1. AuditInit => AuditTypeOK
  BY SetUpPlaceTyped, AuditAssumption DEF AuditInit, AuditTypeOK
<1>2. AuditTypeOK /\ [AuditNext]_audit_vars => AuditTypeOK'
  <2>1. AuditTypeOK /\ RunAudited => AuditTypeOK'
    BY RanTyped DEF RunAudited, AuditTypeOK
  <2>2. AuditTypeOK /\ SufferMishap => AuditTypeOK'
    <3> SUFFICES ASSUME AuditTypeOK, SufferMishap PROVE AuditTypeOK'
      OBVIOUS
    <3>1. place' \in Place
      BY MishapTyped DEF SufferMishap, AuditTypeOK
    <3>2. mishaps' \in 0..MaxMishaps
      BY AuditAssumption DEF SufferMishap, AuditTypeOK
    <3> QED BY <3>1, <3>2 DEF AuditTypeOK
  <2>3. AuditTypeOK /\ UNCHANGED audit_vars => AuditTypeOK'
    BY DEF AuditTypeOK, audit_vars
  <2> QED BY <2>1, <2>2, <2>3 DEF AuditNext
<1> QED BY <1>1, <1>2, PTL DEF AuditSpec

LEMMA GuardOfAudited ==
  ASSUME NEW s \in Place, AuditOk(s)
  PROVE  GuardAdmits([s EXCEPT !.strict = TRUE]) \/ s.tree["spawner"].git = "none"
<1>1. PICK c : c = [module_supply_chain |-> \A m \in Audited : SupplyChainOk(s, s.tree[m]),
                    dependency_lock_integrity |-> \A m \in Audited : LockfilesOk(s, s.tree[m])]
  OBVIOUS
<1>2. Reds(c) = {}
  BY <1>1 DEF AuditOk, AuditReds, LocalReds, ModuleReds
<1>3. c.module_supply_chain
  BY <1>1, <1>2 DEF Reds
<1>4. SupplyChainOk(s, s.tree["spawner"])
  BY <1>1, <1>3 DEF Audited
<1>5. PICK e : e = [s EXCEPT !.strict = TRUE]
  OBVIOUS
<1>6. e.tree = s.tree /\ e.pin = s.pin
  BY <1>5 DEF Place
<1>7. Drifted(e) => s.tree["spawner"].git = "none"
  BY <1>4, <1>6 DEF Drifted, SupplyChainOk, OnRecord
<1> QED BY <1>5, <1>7 DEF GuardAdmits

LEMMA ExposureOfVerified ==
  ASSUME NEW s \in Place, HostedReds(s) = {}, "control_surface" \in ExposureReds(s)
  PROVE  s.bind = "lan"
<1>1. PICK h : h = [hosted_api_keys |-> PubliclyBound(s) => WellGuarded(s),
                    hosted_strict_runtime_pins |-> s.hosted \/ PubliclyBound(s) => s.strict]
  OBVIOUS
<1>2. PubliclyBound(s) => WellGuarded(s)
  <2>1. h.hosted_api_keys
    BY <1>1 DEF HostedReds, Reds
  <2> QED BY <1>1, <2>1
<1>3. PICK exposure : exposure = [control_surface |-> LocallyExposed(s) => WellGuarded(s),
        telegram_polling |-> s.external \/ (s.polling # "shared" /\ ~s.conflict),
        process_registry |-> \A p \in Supervised : s.record[p] # "stale"]
  OBVIOUS
<1>4. ~(LocallyExposed(s) => WellGuarded(s))
  <2>1. ~exposure.control_surface
    BY <1>3 DEF ExposureReds, Reds
  <2> QED BY <1>3, <2>1
<1> QED BY <1>2, <1>4 DEF LocallyExposed, PubliclyBound, WellGuarded, Place

(* An installation the audit passes is one the strict guard starts, unless *)
(* it was installed without git, and what live verify passes the audit     *)
(* calls exposed only for an address of another network: after any         *)
(* mishaps, for any pins.                                                  *)
THEOREM AuditedIsAdmitted == AuditSpec => []AuditMeetsGuard
<1>1. AuditTypeOK => AuditMeetsGuard
  BY GuardOfAudited, ExposureOfVerified DEF AuditTypeOK, AuditMeetsGuard
<1> QED BY <1>1, AuditInductive, PTL

(* What the audit looks for. *)
TreesOk(s) == \A m \in Audited : SupplyChainOk(s, s.tree[m]) /\ LockfilesOk(s, s.tree[m])
Shielded(s) == LocallyExposed(s) => WellGuarded(s)
PollsAlone(s) == s.external \/ (s.polling # "shared" /\ ~s.conflict)
NoneIsStale(s) == \A p \in Supervised : s.record[p] # "stale"
LogsAreThere(s) == \A p \in s.logless : s.record[p] = "none"
Hardened(s) == s.hosted \/ PubliclyBound(s) => s.strict

LEMMA AuditNames ==
  ASSUME NEW s
  PROVE  LET named == AuditRepairs(s) IN
         /\ PollsAlone(s) \/ {"one_poller", "go_on"} \subseteq named
         /\ NoneIsStale(s) \/ {"live_restart", "stop_telegram_starter"} \subseteq named
         /\ (\A m \in Audited : SupplyChainOk(s, s.tree[m]))
            \/ {"reinstall_builder", "reinstall_spawner"} \subseteq named
         /\ (\A m \in Audited : LockfilesOk(s, s.tree[m])) \/ "regenerate_lockfiles" \in named
         /\ Shielded(s) \/ "bind_to_localhost" \in named
         /\ ~s.pending \/ "setup_resume" \in named
         /\ LogsAreThere(s) \/ "live_restart" \in named
         /\ RuntimeOk(s) \/ "start" \in named
         /\ Hardened(s) \/ ~(s.hosted \/ s.allowed) \/ "strict_pins" \in named
<1>1. ASSUME NEW c \in AuditReds(s) PROVE Named[c] \subseteq AuditRepairs(s)
  BY DEF AuditRepairs
<1>2. ExposureReds(s) \cup ModuleReds(s) \cup RuntimeReds(s) \subseteq AuditReds(s)
  BY DEF AuditReds, LocalReds
<1>3. s.hosted \/ s.allowed => HostedReds(s) \subseteq AuditReds(s)
  BY DEF AuditReds
<1>4. /\ Shielded(s) \/ "control_surface" \in ExposureReds(s)
      /\ PollsAlone(s) \/ "telegram_polling" \in ExposureReds(s)
      /\ NoneIsStale(s) \/ "process_registry" \in ExposureReds(s)
  <2>1. PICK r : r = [control_surface |-> LocallyExposed(s) => WellGuarded(s),
                      telegram_polling |-> s.external \/ (s.polling # "shared" /\ ~s.conflict),
                      process_registry |-> \A p \in Supervised : s.record[p] # "stale"]
    OBVIOUS
  <2>2. ExposureReds(s) = Reds(r)
    BY <2>1 DEF ExposureReds
  <2> QED BY <2>1, <2>2 DEF Reds, Shielded, PollsAlone, NoneIsStale
<1>5. /\ (\A m \in Audited : SupplyChainOk(s, s.tree[m])) \/ "module_supply_chain" \in ModuleReds(s)
      /\ (\A m \in Audited : LockfilesOk(s, s.tree[m])) \/ "dependency_lock_integrity" \in ModuleReds(s)
  <2>1. PICK r : r = [module_supply_chain |-> \A m \in Audited : SupplyChainOk(s, s.tree[m]),
                      dependency_lock_integrity |-> \A m \in Audited : LockfilesOk(s, s.tree[m])]
    OBVIOUS
  <2>2. ModuleReds(s) = Reds(r)
    BY <2>1 DEF ModuleReds
  <2> QED BY <2>1, <2>2 DEF Reds
<1>6. /\ ~s.pending \/ "pending_setup_state" \in RuntimeReds(s)
      /\ LogsAreThere(s) \/ "audit_visibility" \in RuntimeReds(s)
      /\ RuntimeOk(s) \/ "runtime_health" \in RuntimeReds(s)
  <2>1. PICK r : r = [pending_setup_state |-> ~s.pending, autostart_runtime |-> s.profile => RuntimeOk(s),
                      audit_visibility |-> \A p \in s.logless : s.record[p] = "none",
                      runtime_health |-> RuntimeOk(s)]
    OBVIOUS
  <2>2. RuntimeReds(s) = Reds(r)
    BY <2>1 DEF RuntimeReds
  <2> QED BY <2>1, <2>2 DEF Reds, LogsAreThere
<1>7. Hardened(s) \/ "hosted_strict_runtime_pins" \in HostedReds(s)
  <2>1. PICK r : r = [hosted_api_keys |-> PubliclyBound(s) => WellGuarded(s),
                      hosted_strict_runtime_pins |-> s.hosted \/ PubliclyBound(s) => s.strict]
    OBVIOUS
  <2>2. HostedReds(s) = Reds(r)
    BY <2>1 DEF HostedReds
  <2> QED BY <2>1, <2>2 DEF Reds, Hardened
<1>8. /\ Named["control_surface"] = {"bind_to_localhost", "allow_hosts"}
      /\ Named["telegram_polling"] = {"one_poller", "go_on"}
      /\ Named["process_registry"] = {"live_restart", "stop_telegram_starter", "live_start"}
      /\ Named["module_supply_chain"] = {"update_skip_dirty", "review_edits", "reinstall_builder", "reinstall_spawner"}
      /\ Named["dependency_lock_integrity"] = {"regenerate_lockfiles"}
      /\ Named["pending_setup_state"] = {"setup_resume"}
      /\ Named["audit_visibility"] = {"live_restart"}
      /\ Named["runtime_health"] = {"start"}
      /\ Named["hosted_strict_runtime_pins"] = {"strict_pins"}
  BY DEF Named
<1>9. /\ PollsAlone(s) \/ {"one_poller", "go_on"} \subseteq AuditRepairs(s)
      /\ NoneIsStale(s) \/ {"live_restart", "stop_telegram_starter"} \subseteq AuditRepairs(s)
      /\ Shielded(s) \/ "bind_to_localhost" \in AuditRepairs(s)
  <2>1. ExposureReds(s) \subseteq AuditReds(s)
    BY <1>2
  <2> QED BY <1>1, <1>4, <1>8, <2>1
<1>10. /\ (\A m \in Audited : SupplyChainOk(s, s.tree[m]))
          \/ {"reinstall_builder", "reinstall_spawner"} \subseteq AuditRepairs(s)
       /\ (\A m \in Audited : LockfilesOk(s, s.tree[m])) \/ "regenerate_lockfiles" \in AuditRepairs(s)
  <2>1. ModuleReds(s) \subseteq AuditReds(s)
    BY <1>2
  <2>2. "module_supply_chain" \in ModuleReds(s)
        => {"reinstall_builder", "reinstall_spawner"} \subseteq AuditRepairs(s)
    BY <1>1, <1>8, <2>1
  <2>3. "dependency_lock_integrity" \in ModuleReds(s) => "regenerate_lockfiles" \in AuditRepairs(s)
    BY <1>1, <1>8, <2>1
  <2> QED BY <1>5, <2>2, <2>3
<1>11. /\ ~s.pending \/ "setup_resume" \in AuditRepairs(s)
       /\ LogsAreThere(s) \/ "live_restart" \in AuditRepairs(s)
       /\ RuntimeOk(s) \/ "start" \in AuditRepairs(s)
  <2>1. RuntimeReds(s) \subseteq AuditReds(s)
    BY <1>2
  <2> QED BY <1>1, <1>6, <1>8, <2>1
<1>12. Hardened(s) \/ ~(s.hosted \/ s.allowed) \/ "strict_pins" \in AuditRepairs(s)
  BY <1>1, <1>3, <1>7, <1>8
<1> QED BY <1>9, <1>10, <1>11, <1>12

LEMMA AuditPasses ==
  ASSUME NEW s \in Place, TreesOk(s), Shielded(s), PollsAlone(s), NoneIsStale(s), LogsAreThere(s), RuntimeOk(s),
         ~s.pending, s.hosted \/ s.allowed => Hardened(s)
  PROVE  AuditOk(s)
<1>1. ExposureReds(s) = {}
  <2>1. PICK r : r = [control_surface |-> LocallyExposed(s) => WellGuarded(s),
                      telegram_polling |-> s.external \/ (s.polling # "shared" /\ ~s.conflict),
                      process_registry |-> \A p \in Supervised : s.record[p] # "stale"]
    OBVIOUS
  <2>2. r.control_surface /\ r.telegram_polling /\ r.process_registry
    BY <2>1 DEF Shielded, PollsAlone, NoneIsStale
  <2>3. DOMAIN r = {"control_surface", "telegram_polling", "process_registry"}
    BY <2>1
  <2>4. Reds(r) = {}
    BY <2>2, <2>3 DEF Reds
  <2> QED BY <2>1, <2>4 DEF ExposureReds
<1>2. ModuleReds(s) = {}
  <2>1. PICK r : r = [module_supply_chain |-> \A m \in Audited : SupplyChainOk(s, s.tree[m]),
                      dependency_lock_integrity |-> \A m \in Audited : LockfilesOk(s, s.tree[m])]
    OBVIOUS
  <2>2. r.module_supply_chain /\ r.dependency_lock_integrity
    BY <2>1 DEF TreesOk
  <2>3. DOMAIN r = {"module_supply_chain", "dependency_lock_integrity"}
    BY <2>1
  <2>4. Reds(r) = {}
    BY <2>2, <2>3 DEF Reds
  <2> QED BY <2>1, <2>4 DEF ModuleReds
<1>3. RuntimeReds(s) = {}
  <2>1. PICK r : r = [pending_setup_state |-> ~s.pending, autostart_runtime |-> s.profile => RuntimeOk(s),
                      audit_visibility |-> \A p \in s.logless : s.record[p] = "none",
                      runtime_health |-> RuntimeOk(s)]
    OBVIOUS
  <2>2. r.pending_setup_state /\ r.autostart_runtime /\ r.audit_visibility /\ r.runtime_health
    BY <2>1 DEF LogsAreThere
  <2>3. DOMAIN r = {"pending_setup_state", "autostart_runtime", "audit_visibility", "runtime_health"}
    BY <2>1
  <2>4. Reds(r) = {}
    BY <2>2, <2>3 DEF Reds
  <2> QED BY <2>1, <2>4 DEF RuntimeReds
<1>4. s.hosted \/ s.allowed => HostedReds(s) = {}
  <2> SUFFICES ASSUME s.hosted \/ s.allowed PROVE HostedReds(s) = {}
    OBVIOUS
  <2>1. PICK r : r = [hosted_api_keys |-> PubliclyBound(s) => WellGuarded(s),
                      hosted_strict_runtime_pins |-> s.hosted \/ PubliclyBound(s) => s.strict]
    OBVIOUS
  <2>2. r.hosted_api_keys
    BY <2>1 DEF Shielded, PubliclyBound, LocallyExposed
  <2>3. r.hosted_strict_runtime_pins
    BY <2>1 DEF Hardened
  <2>4. DOMAIN r = {"hosted_api_keys", "hosted_strict_runtime_pins"}
    BY <2>1
  <2>5. Reds(r) = {}
    BY <2>2, <2>3, <2>4 DEF Reds
  <2> QED BY <2>1, <2>5 DEF HostedReds
<1> QED BY <1>1, <1>2, <1>3, <1>4 DEF AuditOk, AuditReds, LocalReds

(* Installations that differ in their trees, processes and logs only. *)
SameSettings(s, e) ==
  /\ e \in Place
  /\ e.pin = s.pin /\ e.staleLocks = s.staleLocks /\ e.chained = s.chained /\ e.hosted = s.hosted
  /\ e.strict = s.strict /\ e.bind = s.bind /\ e.allowed = s.allowed /\ e.external = s.external
  /\ e.profile = s.profile /\ e.pending = s.pending /\ e.polling = s.polling /\ e.conflict = s.conflict

LEMMA LaunchFields ==
  ASSUME NEW s \in Place, NEW processes
  PROVE  LET e == Launch(s, processes) IN
         /\ SameSettings(s, e) /\ e.tree = s.tree /\ e.logless = s.logless \ processes
         /\ e.record = [p \in Supervised |-> IF p \in processes /\ (p = "bot" => ~s.external) THEN "live"
                                             ELSE s.record[p]]
<1>1. PICK r, l : /\ r = [p \in Supervised |->
                            IF p \in processes /\ (p = "bot" => ~s.external) THEN "live" ELSE s.record[p]]
                  /\ l = s.logless \ processes
  OBVIOUS
<1>2. Launch(s, processes) = [s EXCEPT !.record = r, !.logless = l]
  BY <1>1 DEF Launch, CanPoll
<1>3. Launch(s, processes) \in Place
  BY LaunchTyped
<1> QED BY <1>1, <1>2, <1>3 DEF SameSettings, Place

LEMMA HaltFields ==
  ASSUME NEW s \in Place, NEW processes
  PROVE  LET e == Halt(s, processes) IN
         /\ SameSettings(s, e) /\ e.tree = s.tree /\ e.logless = s.logless
         /\ e.record = [p \in Supervised |-> IF p \in processes THEN "none" ELSE s.record[p]]
<1>1. PICK r : r = [p \in Supervised |-> IF p \in processes THEN "none" ELSE s.record[p]]
  OBVIOUS
<1>2. Halt(s, processes) = [s EXCEPT !.record = r]
  BY <1>1 DEF Halt
<1>3. Halt(s, processes) \in Place
  BY LaunchTyped
<1> QED BY <1>1, <1>2, <1>3 DEF SameSettings, Place

LEMMA TreeFields ==
  ASSUME NEW s \in Place, NEW trees \in [Audited -> AuditedTree]
  PROVE  LET e == [s EXCEPT !.tree = trees] IN
         SameSettings(s, e) /\ e.tree = trees /\ e.logless = s.logless /\ e.record = s.record
BY TreeTyped DEF SameSettings, Place

LEMMA ReinstallFields ==
  ASSUME NEW s \in Place, NEW m \in Audited
  PROVE  LET e == Reinstall(s, m) IN
         /\ SameSettings(s, e) /\ e.tree = [s.tree EXCEPT ![m] = PinnedTree(s.pin)] /\ e.logless = s.logless
         /\ e.record["bot"] = s.record["bot"]
<1>1. s.tree \in [Audited -> AuditedTree] /\ PinnedTree(s.pin) \in AuditedTree
  BY PinnedTyped DEF Place
<1>2. PICK trees \in [Audited -> AuditedTree] : trees = [s.tree EXCEPT ![m] = PinnedTree(s.pin)]
  BY <1>1
<1>3. PICK f : f = [s EXCEPT !.tree = trees]
  OBVIOUS
<1>4. SameSettings(s, f) /\ f.tree = trees /\ f.logless = s.logless /\ f.record = s.record
  BY <1>3, TreeFields
<1>5. f \in Place
  BY <1>4 DEF SameSettings
<1>6. PICK e : e = Halt(f, {m} \cap Supervised)
  OBVIOUS
<1>7. /\ SameSettings(f, e) /\ e.tree = f.tree /\ e.logless = f.logless
      /\ e.record = [p \in Supervised |-> IF p \in {m} \cap Supervised THEN "none" ELSE f.record[p]]
  BY <1>5, <1>6, HaltFields
<1>8. e.record["bot"] = f.record["bot"]
  BY <1>7 DEF Supervised, Audited
<1>9. SameSettings(s, e)
  BY <1>4, <1>7 DEF SameSettings
<1>10. Reinstall(s, m) = e
  BY <1>2, <1>3, <1>6 DEF Reinstall
<1> QED BY <1>2, <1>4, <1>7, <1>8, <1>9, <1>10

(* A place the audit leads out of. *)
CanBeLed(s) ==
  /\ s \in Place /\ ~DeadEnd(s) /\ (s.external => ~s.profile)

LEMMA LedMeans ==
  ASSUME NEW s
  PROVE  CanBeLed(s) <=>
           /\ s \in Place
           /\ s.pin \notin s.staleLocks
           /\ s.strict => s.tree["spawner"].git # "none"
           /\ s.external => ~s.profile /\ ("bot" \notin s.logless \/ s.record["bot"] = "none")
           /\ s.conflict /\ s.profile => s.record["bot"] = "live"
BY DEF CanBeLed, DeadEnd

(* At most one command of those the audit names. *)
OneAudited(s, e) == e = s \/ \E c \in AuditRepairs(s) : e = Ran(s, c)

LEMMA SetupCanBeResumed ==
  ASSUME NEW s, CanBeLed(s)
  PROVE  \E e : OneAudited(s, e) /\ CanBeLed(e) /\ ~e.pending /\ (e = s \/ ~e.external)
<1>0. s \in Place
  BY DEF CanBeLed
<1>1. CASE ~s.pending
  BY <1>1 DEF OneAudited
<1>2. CASE s.pending
  <2>1. PICK trees : trees = [m \in Audited |-> [s.tree[m] EXCEPT !.stamp = s.pin]]
    OBVIOUS
  <2>2. trees \in [Audited -> AuditedTree]
    <3>1. s.pin \in 1..MaxPin /\ \A m \in Audited : s.tree[m] \in AuditedTree
      BY <1>0 DEF Place
    <3>2. \A m \in Audited : [s.tree[m] EXCEPT !.stamp = s.pin] \in AuditedTree
      BY <3>1 DEF AuditedTree
    <3> QED BY <2>1, <3>2
  <2>3. trees["spawner"].git = s.tree["spawner"].git
    BY <1>0, <2>1 DEF Place, AuditedTree, Audited
  <2>4. PICK f : f = [s EXCEPT !.external = FALSE, !.pending = FALSE, !.tree = trees]
    OBVIOUS
  <2>5. /\ f \in Place /\ f.external = FALSE /\ f.pending = FALSE /\ f.tree = trees /\ f.pin = s.pin
        /\ f.staleLocks = s.staleLocks /\ f.strict = s.strict /\ f.conflict = s.conflict /\ f.profile = s.profile
        /\ f.record = s.record /\ f.hosted = s.hosted
    BY <1>0, <2>2, <2>4 DEF Place
  <2>6. CanBeLed(f)
    BY <2>3, <2>5, LedMeans
  <2>7. PICK e : e = AutostartNow(f)
    OBVIOUS
  <2>8. CanBeLed(e) /\ ~e.pending /\ ~e.external
    <3>1. CASE f.hosted
      BY <2>5, <2>6, <2>7, <3>1 DEF AutostartNow
    <3>2. CASE ~f.hosted
      <4>1. /\ SameSettings(f, e) /\ e.tree = f.tree
            /\ e.record = [p \in Supervised |-> IF p \in Supervised /\ (p = "bot" => ~f.external) THEN "live"
                                                ELSE f.record[p]]
        BY <2>5, <2>7, <3>2, LaunchFields DEF AutostartNow
      <4>2. e.record["bot"] = "live"
        BY <2>5, <4>1 DEF Supervised
      <4> QED BY <2>5, <2>6, <4>1, <4>2, LedMeans DEF SameSettings
    <3> QED BY <3>1, <3>2
  <2>9. Ran(s, "setup_resume") = e
    BY <2>1, <2>4, <2>7 DEF Ran, ResumeSetup
  <2>10. "setup_resume" \in AuditRepairs(s)
    BY <1>2, AuditNames
  <2> QED BY <2>8, <2>9, <2>10 DEF OneAudited
<1> QED BY <1>1, <1>2

(* A tree at its pin is what the audit wants, and stays led. *)
LEMMA PinnedIsFine ==
  ASSUME NEW s, CanBeLed(s)
  PROVE  SupplyChainOk(s, PinnedTree(s.pin)) /\ LockfilesOk(s, PinnedTree(s.pin))
<1>1. PICK t : t = PinnedTree(s.pin)
  OBVIOUS
<1>2. t.head = s.pin /\ t.edit = "none" /\ t.git = "repo" /\ t.managed
  BY <1>1 DEF PinnedTree
<1>3. SupplyChainOk(s, t)
  BY <1>2 DEF SupplyChainOk, OnRecord, ShortStatus
<1>4. LockfilesOk(s, t)
  BY <1>2, LedMeans DEF LockfilesOk
<1> QED BY <1>1, <1>3, <1>4

LEMMA ReinstalledIsLed ==
  ASSUME NEW s, CanBeLed(s), NEW m \in Audited, NEW e, e = Reinstall(s, m)
  PROVE  /\ CanBeLed(e) /\ e.tree = [s.tree EXCEPT ![m] = PinnedTree(s.pin)] /\ e.pin = s.pin
         /\ e.staleLocks = s.staleLocks /\ e.pending = s.pending /\ e.external = s.external
         /\ e.hosted = s.hosted
<1>1. s \in Place
  BY DEF CanBeLed
<1>2. /\ SameSettings(s, e) /\ e.tree = [s.tree EXCEPT ![m] = PinnedTree(s.pin)] /\ e.logless = s.logless
      /\ e.record["bot"] = s.record["bot"]
  BY <1>1, ReinstallFields
<1>3. PinnedTree(s.pin).git = "repo"
  BY DEF PinnedTree
<1>4. e.tree["spawner"].git = "repo" \/ e.tree["spawner"].git = s.tree["spawner"].git
  BY <1>1, <1>2, <1>3 DEF Place, Audited
<1>5. CanBeLed(e)
  BY <1>2, <1>4, LedMeans DEF SameSettings
<1> QED BY <1>2, <1>5 DEF SameSettings

(* The checks of a tree look at the pin, and at the stale lockfiles. *)
LEMMA SamePinSameChecks ==
  ASSUME NEW s, NEW e, e.pin = s.pin, e.staleLocks = s.staleLocks, NEW t
  PROVE  SupplyChainOk(e, t) = SupplyChainOk(s, t) /\ LockfilesOk(e, t) = LockfilesOk(s, t)
<1>1. OnRecord(e, t) = OnRecord(s, t)
  BY DEF OnRecord
<1> QED BY <1>1 DEF SupplyChainOk, LockfilesOk

(* A tree with a stale lockfile is not the pin's, so it has no git. *)
LEMMA StaleHasNoGit ==
  ASSUME NEW s, CanBeLed(s), NEW t, SupplyChainOk(s, t), ~LockfilesOk(s, t)
  PROVE  t.git = "none"
BY LedMeans DEF SupplyChainOk, OnRecord, LockfilesOk

LEMMA LockfilesCanBeWritten ==
  ASSUME NEW s, CanBeLed(s), \A m \in Audited : SupplyChainOk(s, s.tree[m])
  PROVE  \E e : OneAudited(s, e) /\ CanBeLed(e) /\ TreesOk(e) /\ e.pending = s.pending /\ e.external = s.external
<1>0. s \in Place
  BY DEF CanBeLed
<1>1. CASE \A m \in Audited : LockfilesOk(s, s.tree[m])
  BY <1>1 DEF OneAudited, TreesOk
<1>2. CASE ~\A m \in Audited : LockfilesOk(s, s.tree[m])
  <2>1. PICK trees : trees = [m \in Audited |-> IF LockfilesOk(s, s.tree[m]) THEN s.tree[m]
                                              ELSE [s.tree[m] EXCEPT !.edit = "locks"]]
    OBVIOUS
  <2>2. \A m \in Audited : s.tree[m] \in AuditedTree
    BY <1>0 DEF Place
  <2>3. ASSUME NEW m \in Audited
        PROVE  /\ trees[m] \in AuditedTree /\ trees[m].git = s.tree[m].git
               /\ SupplyChainOk(s, trees[m]) /\ LockfilesOk(s, trees[m])
    <3>1. CASE LockfilesOk(s, s.tree[m])
      <4>1. trees[m] = s.tree[m]
        BY <2>1, <3>1
      <4> QED BY <2>2, <3>1, <4>1
    <3>2. CASE ~LockfilesOk(s, s.tree[m])
      <4>1. PICK t : t = [s.tree[m] EXCEPT !.edit = "locks"]
        OBVIOUS
      <4>2. /\ t \in AuditedTree /\ t.git = s.tree[m].git /\ t.edit = "locks" /\ t.stamp = s.tree[m].stamp
            /\ t.managed = s.tree[m].managed
        BY <2>2, <4>1 DEF AuditedTree
      <4>3. trees[m] = t
        BY <2>1, <3>2, <4>1
      <4>4. s.tree[m].git = "none"
        BY <3>2, StaleHasNoGit
      <4>5. SupplyChainOk(s, t)
        BY <4>2, <4>4 DEF SupplyChainOk, OnRecord
      <4>6. LockfilesOk(s, t)
        BY <4>2 DEF LockfilesOk
      <4> QED BY <4>2, <4>3, <4>5, <4>6
    <3> QED BY <3>1, <3>2
  <2>4. trees \in [Audited -> AuditedTree]
    BY <2>1, <2>3
  <2>5. PICK e : e = [s EXCEPT !.tree = trees]
    OBVIOUS
  <2>6. SameSettings(s, e) /\ e.tree = trees /\ e.logless = s.logless /\ e.record = s.record
    BY <1>0, <2>4, <2>5, TreeFields
  <2>7. trees["spawner"].git = s.tree["spawner"].git
    BY <2>3 DEF Audited
  <2>8. CanBeLed(e)
    BY <2>6, <2>7, LedMeans DEF SameSettings
  <2>9. TreesOk(e)
    <3>1. e.pin = s.pin /\ e.staleLocks = s.staleLocks
      BY <2>6 DEF SameSettings
    <3> QED BY <2>3, <2>6, <3>1, SamePinSameChecks DEF TreesOk
  <2>10. Ran(s, "regenerate_lockfiles") = e
    BY <2>1, <2>5 DEF Ran, WriteLocks
  <2>11. "regenerate_lockfiles" \in AuditRepairs(s)
    BY <1>2, AuditNames
  <2> QED BY <2>6, <2>8, <2>9, <2>10, <2>11 DEF OneAudited, SameSettings
<1> QED BY <1>1, <1>2

LEMMA ReinstallIsNamed ==
  ASSUME NEW s, NEW m \in Audited, ~SupplyChainOk(s, s.tree[m])
  PROVE  OneAudited(s, Reinstall(s, m))
<1>1. {"reinstall_builder", "reinstall_spawner"} \subseteq AuditRepairs(s)
  BY AuditNames
<1>2. Ran(s, "reinstall_builder") = Reinstall(s, "builder") /\ Ran(s, "reinstall_spawner") = Reinstall(s, "spawner")
  BY DEF Ran
<1> QED BY <1>1, <1>2 DEF OneAudited, Audited

(* One command or two leave the trees right. *)
LEMMA TreesCanBeMade ==
  ASSUME NEW s, CanBeLed(s)
  PROVE  \E d, e : /\ OneAudited(s, d) /\ OneAudited(d, e) /\ CanBeLed(e) /\ TreesOk(e)
                   /\ e.pending = s.pending /\ e.external = s.external
<1>0. \A m \in Audited : s.tree[m] \in AuditedTree
  BY DEF CanBeLed, Place
<1>1. CASE \A m \in Audited : SupplyChainOk(s, s.tree[m])
  <2>1. OneAudited(s, s)
    BY DEF OneAudited
  <2> QED BY <1>1, <2>1, LockfilesCanBeWritten
<1>2. CASE ~\A m \in Audited : SupplyChainOk(s, s.tree[m])
  <2>1. PICK m \in Audited : ~SupplyChainOk(s, s.tree[m])
    BY <1>2
  <2>2. PICK d : d = Reinstall(s, m)
    OBVIOUS
  <2>3. /\ CanBeLed(d) /\ d.tree = [s.tree EXCEPT ![m] = PinnedTree(s.pin)] /\ d.pin = s.pin
        /\ d.staleLocks = s.staleLocks /\ d.pending = s.pending /\ d.external = s.external
    BY <2>2, ReinstalledIsLed
  <2>4. OneAudited(s, d)
    BY <2>1, <2>2, ReinstallIsNamed
  <2>5. CASE \A n \in Audited : SupplyChainOk(d, d.tree[n])
    <3>1. PICK e : OneAudited(d, e) /\ CanBeLed(e) /\ TreesOk(e) /\ e.pending = d.pending /\ e.external = d.external
      BY <2>3, <2>5, LockfilesCanBeWritten
    <3> QED BY <2>3, <2>4, <3>1
  <2>6. CASE ~\A n \in Audited : SupplyChainOk(d, d.tree[n])
    <3>1. PICK n \in Audited : ~SupplyChainOk(d, d.tree[n])
      BY <2>6
    <3>2. d.tree[m] = PinnedTree(d.pin)
      BY <2>3 DEF CanBeLed, Place
    <3>3. n # m
      BY <2>3, <3>1, <3>2, PinnedIsFine
    <3>4. PICK e : e = Reinstall(d, n)
      OBVIOUS
    <3>5. /\ CanBeLed(e) /\ e.tree = [d.tree EXCEPT ![n] = PinnedTree(d.pin)] /\ e.pin = d.pin
          /\ e.staleLocks = d.staleLocks /\ e.pending = d.pending /\ e.external = d.external
      BY <2>3, <3>4, ReinstalledIsLed
    <3>6. OneAudited(d, e)
      BY <3>1, <3>4, ReinstallIsNamed
    <3>7. \A k \in Audited : e.tree[k] = PinnedTree(e.pin)
      BY <2>3, <3>2, <3>3, <3>5 DEF CanBeLed, Place, Audited
    <3>8. TreesOk(e)
      BY <3>5, <3>7, PinnedIsFine DEF TreesOk
    <3> QED BY <2>3, <2>4, <3>5, <3>6, <3>8
  <2> QED BY <2>5, <2>6
<1> QED BY <1>1, <1>2

(* What is right so far, after the trees. *)
InOrder(s) == CanBeLed(s) /\ TreesOk(s) /\ ~s.pending

(* Installations of the same trees, processes and logs. *)
SameModules(s, e) ==
  /\ e \in Place
  /\ e.tree = s.tree /\ e.pin = s.pin /\ e.staleLocks = s.staleLocks /\ e.record = s.record
  /\ e.logless = s.logless /\ e.external = s.external /\ e.profile = s.profile /\ e.pending = s.pending

LEMMA TreesStayOk ==
  ASSUME NEW s, NEW e, TreesOk(s), e.tree = s.tree, e.pin = s.pin, e.staleLocks = s.staleLocks
  PROVE  TreesOk(e)
BY SamePinSameChecks DEF TreesOk

LEMMA PlaceCanBeShielded ==
  ASSUME NEW s, InOrder(s)
  PROVE  \E e : OneAudited(s, e) /\ InOrder(e) /\ Shielded(e)
<1>1. CASE Shielded(s)
  BY <1>1 DEF OneAudited
<1>2. CASE ~Shielded(s)
  <2>1. PICK e : e = [s EXCEPT !.bind = "loopback", !.allowed = FALSE]
    OBVIOUS
  <2>2. s \in Place
    BY DEF InOrder, CanBeLed
  <2>3. SameModules(s, e) /\ e.strict = s.strict /\ e.conflict = s.conflict /\ e.bind = "loopback" /\ e.allowed = FALSE
    BY <2>1, <2>2 DEF SameModules, Place
  <2>4. CanBeLed(e)
    BY <2>3, LedMeans DEF SameModules, InOrder
  <2>5. InOrder(e)
    BY <2>3, <2>4, TreesStayOk DEF SameModules, InOrder
  <2>6. Shielded(e)
    BY <2>3 DEF Shielded, LocallyExposed
  <2>7. Ran(s, "bind_to_localhost") = e
    BY <2>1 DEF Ran
  <2>8. "bind_to_localhost" \in AuditRepairs(s)
    BY <1>2, AuditNames
  <2> QED BY <2>5, <2>6, <2>7, <2>8 DEF OneAudited
<1> QED BY <1>1, <1>2

(* One poller is left of the token, or nothing asks. *)
AloneAtLast(s) == s.external \/ (s.polling # "shared" /\ (s.conflict => s.polling = "alone"))

LEMMA PollersCanBeOne ==
  ASSUME NEW s, InOrder(s), Shielded(s)
  PROVE  \E e : OneAudited(s, e) /\ InOrder(e) /\ Shielded(e) /\ AloneAtLast(e)
<1>1. CASE PollsAlone(s)
  BY <1>1 DEF OneAudited, PollsAlone, AloneAtLast
<1>2. CASE ~PollsAlone(s)
  <2>1. PICK e : e = [s EXCEPT !.polling = "alone"]
    OBVIOUS
  <2>2. s \in Place
    BY DEF InOrder, CanBeLed
  <2>3. /\ SameModules(s, e) /\ e.strict = s.strict /\ e.conflict = s.conflict /\ e.bind = s.bind
        /\ e.allowed = s.allowed /\ e.polling = "alone"
    BY <2>1, <2>2 DEF SameModules, Place
  <2>4. CanBeLed(e)
    BY <2>3, LedMeans DEF SameModules, InOrder
  <2>5. InOrder(e)
    BY <2>3, <2>4, TreesStayOk DEF SameModules, InOrder
  <2>6. Shielded(e)
    BY <2>3 DEF Shielded, LocallyExposed, WellGuarded
  <2>7. AloneAtLast(e)
    BY <2>3 DEF AloneAtLast
  <2>8. Ran(s, "one_poller") = e
    BY <2>1 DEF Ran
  <2>9. "one_poller" \in AuditRepairs(s)
    BY <1>2, AuditNames
  <2> QED BY <2>5, <2>6, <2>7, <2>8, <2>9 DEF OneAudited
<1> QED BY <1>1, <1>2

(* Trees that pass the audit the guard lets start. *)
LEMMA InOrderIsAdmitted ==
  ASSUME NEW s, CanBeLed(s), TreesOk(s)
  PROVE  GuardAdmits(s)
<1>1. PICK t : t = s.tree["spawner"]
  OBVIOUS
<1>2. SupplyChainOk(s, t)
  BY <1>1 DEF TreesOk, Audited
<1>3. s.strict => t.git # "none"
  BY <1>1, LedMeans
<1>4. s.strict => ~(t.managed /\ (t.git = "none" \/ t.head # s.pin \/ ShortStatus(t)))
  BY <1>2, <1>3 DEF SupplyChainOk, OnRecord
<1> QED BY <1>1, <1>4 DEF GuardAdmits, Drifted

Running(s) == NoneIsStale(s) /\ LogsAreThere(s) /\ RuntimeOk(s)

(* What a command about the processes leaves as it was. *)
LEMMA ProcessesOnly ==
  ASSUME NEW s, InOrder(s), Shielded(s), AloneAtLast(s), NEW e, SameSettings(s, e), e.tree = s.tree
  PROVE  Shielded(e) /\ AloneAtLast(e) /\ TreesOk(e) /\ ~e.pending /\ (CanBeLed(e) => InOrder(e))
<1>1. Shielded(e) /\ AloneAtLast(e) /\ ~e.pending
  BY DEF SameSettings, Shielded, AloneAtLast, InOrder, LocallyExposed, WellGuarded
<1>2. TreesOk(e)
  BY TreesStayOk DEF SameSettings, InOrder
<1> QED BY <1>1, <1>2 DEF InOrder

LEMMA LiveIsRunning ==
  ASSUME NEW e \in Place, \A p \in Supervised : e.record[p] = "live", e.logless = {}
  PROVE  Running(e)
<1>1. ExpectedUp(e) \subseteq Supervised
  BY DEF ExpectedUp, Supervised
<1> QED BY <1>1 DEF Running, NoneIsStale, LogsAreThere, RuntimeOk

LEMMA HereProcessesCanRun ==
  ASSUME NEW s, InOrder(s), Shielded(s), AloneAtLast(s), ~s.external
  PROVE  \E e : /\ OneAudited(s, e) /\ InOrder(e) /\ Shielded(e) /\ AloneAtLast(e) /\ Running(e) /\ ~e.external
                /\ (e.conflict => e.record["bot"] = "live")
<1>0. s \in Place /\ CanBeLed(s) /\ GuardAdmits(s)
  BY InOrderIsAdmitted DEF InOrder, CanBeLed
<1>1. ASSUME NEW e, SameSettings(s, e), e.tree = s.tree, \A p \in Supervised : e.record[p] = "live", e.logless = {}
      PROVE  /\ InOrder(e) /\ Shielded(e) /\ AloneAtLast(e) /\ Running(e) /\ ~e.external
             /\ (e.conflict => e.record["bot"] = "live")
  <2>1. e \in Place /\ e.record["bot"] = "live" /\ ~e.external
    BY <1>1 DEF SameSettings, Supervised
  <2>2. CanBeLed(e)
    BY <1>0, <1>1, <2>1, LedMeans DEF SameSettings
  <2> QED BY <1>1, <2>1, <2>2, ProcessesOnly, LiveIsRunning
<1>2. CASE Running(s)
  <2>1. s.conflict => s.record["bot"] = "live"
    <3>1. CASE s.profile
      BY <1>0, <3>1, LedMeans
    <3>2. CASE ~s.profile
      <4>1. "bot" \in ExpectedUp(s)
        BY <3>2 DEF ExpectedUp
      <4> QED BY <1>2, <4>1 DEF Running, RuntimeOk
    <3> QED BY <3>1, <3>2
  <2> QED BY <1>2, <2>1 DEF OneAudited
<1>3. CASE ~(NoneIsStale(s) /\ LogsAreThere(s))
  <2>1. PICK all : all = WithDependents(s, LiveTarget(s))
    OBVIOUS
  <2>2. all = Supervised
    BY <2>1 DEF WithDependents, LiveTarget, Supervised
  <2>3. PICK f : f = Halt(s, all)
    OBVIOUS
  <2>4. SameSettings(s, f) /\ f.tree = s.tree /\ f.logless = s.logless
    BY <1>0, <2>3, HaltFields
  <2>5. PICK e : e = Launch(f, all)
    OBVIOUS
  <2>6. /\ SameSettings(f, e) /\ e.tree = f.tree /\ e.logless = f.logless \ all
        /\ e.record = [p \in Supervised |-> IF p \in all /\ (p = "bot" => ~f.external) THEN "live" ELSE f.record[p]]
    <3>1. f \in Place
      BY <2>4 DEF SameSettings
    <3> QED BY <2>5, <3>1, LaunchFields
  <2>7. SameSettings(s, e) /\ e.tree = s.tree /\ ~f.external
    BY <2>4, <2>6 DEF SameSettings
  <2>8. (\A p \in Supervised : e.record[p] = "live") /\ e.logless = {}
    BY <1>0, <2>2, <2>4, <2>6, <2>7 DEF Place
  <2>9. Ran(s, "live_restart") = e
    BY <1>0, <2>1, <2>3, <2>5 DEF Ran, LiveRestart
  <2>10. "live_restart" \in AuditRepairs(s)
    BY <1>3, AuditNames
  <2> QED BY <1>1, <2>7, <2>8, <2>9, <2>10 DEF OneAudited
<1>4. CASE ~RuntimeOk(s)
  <2>1. PICK e : e = Launch(s, Supervised)
    OBVIOUS
  <2>2. /\ SameSettings(s, e) /\ e.tree = s.tree /\ e.logless = s.logless \ Supervised
        /\ e.record = [p \in Supervised |-> IF p \in Supervised /\ (p = "bot" => ~s.external) THEN "live"
                                            ELSE s.record[p]]
    BY <1>0, <2>1, LaunchFields
  <2>3. (\A p \in Supervised : e.record[p] = "live") /\ e.logless = {}
    BY <1>0, <2>2 DEF Place
  <2>4. Ran(s, "start") = e
    BY <1>0, <2>1 DEF Ran, Start
  <2>5. "start" \in AuditRepairs(s)
    BY <1>4, AuditNames
  <2> QED BY <1>1, <2>2, <2>3, <2>4, <2>5 DEF OneAudited
<1> QED BY <1>2, <1>3, <1>4 DEF Running

(* Under external ingress the bot does not run, and a stop comes first     *)
(* where its process is stale.                                             *)
LEMMA SpawnerCanRun ==
  ASSUME NEW s, InOrder(s), Shielded(s), AloneAtLast(s), s.external, NoneIsStale(s)
  PROVE  \E e : OneAudited(s, e) /\ InOrder(e) /\ Shielded(e) /\ AloneAtLast(e) /\ Running(e) /\ e.external
<1>0. s \in Place /\ CanBeLed(s) /\ GuardAdmits(s) /\ ~s.profile /\ ("bot" \notin s.logless \/ s.record["bot"] = "none")
  BY InOrderIsAdmitted, LedMeans DEF InOrder, CanBeLed
<1>1. ASSUME NEW e, SameSettings(s, e), e.tree = s.tree, e.record["spawner"] = "live",
             e.record["bot"] \in {"none", "live"}, "spawner" \notin e.logless,
             "bot" \notin e.logless \/ e.record["bot"] = "none"
      PROVE  InOrder(e) /\ Shielded(e) /\ AloneAtLast(e) /\ Running(e) /\ e.external
  <2>1. e \in Place /\ e.external /\ ~e.profile /\ e.pin = s.pin /\ e.staleLocks = s.staleLocks /\ e.strict = s.strict
    BY <1>0, <1>1 DEF SameSettings
  <2>2. CanBeLed(e)
    BY <1>0, <1>1, <2>1, LedMeans
  <2>3. ExpectedUp(e) = {"spawner"}
    BY <2>1 DEF ExpectedUp
  <2>4. e.logless \subseteq {"bot"}
    BY <1>1, <2>1 DEF Place, Supervised
  <2>5. Running(e)
    BY <1>1, <2>3, <2>4 DEF Running, RuntimeOk, NoneIsStale, LogsAreThere, Supervised
  <2> QED BY <1>1, <2>1, <2>2, <2>5, ProcessesOnly
<1>2. CASE Running(s)
  BY <1>2 DEF OneAudited
<1>3. CASE ~LogsAreThere(s)
  <2>1. PICK all : all = WithDependents(s, LiveTarget(s))
    OBVIOUS
  <2>2. "spawner" \in all /\ all \subseteq Supervised
    BY <2>1 DEF WithDependents, LiveTarget, Supervised
  <2>3. PICK f : f = Halt(s, all)
    OBVIOUS
  <2>4. /\ SameSettings(s, f) /\ f.tree = s.tree /\ f.logless = s.logless
        /\ f.record = [p \in Supervised |-> IF p \in all THEN "none" ELSE s.record[p]]
    BY <1>0, <2>3, HaltFields
  <2>5. PICK e : e = Launch(f, all)
    OBVIOUS
  <2>6. /\ SameSettings(f, e) /\ e.tree = f.tree /\ e.logless = f.logless \ all
        /\ e.record = [p \in Supervised |-> IF p \in all /\ (p = "bot" => ~f.external) THEN "live" ELSE f.record[p]]
    <3>1. f \in Place
      BY <2>4 DEF SameSettings
    <3> QED BY <2>5, <3>1, LaunchFields
  <2>7. SameSettings(s, e) /\ e.tree = s.tree /\ f.external
    BY <2>4, <2>6 DEF SameSettings
  <2>8. e.record["spawner"] = "live" /\ e.record["bot"] = (IF "bot" \in all THEN "none" ELSE s.record["bot"])
    BY <2>2, <2>4, <2>6, <2>7 DEF Supervised
  <2>9. s.record["bot"] \in {"none", "live"}
    BY <1>0 DEF Place, NoneIsStale, Supervised
  <2>10. Ran(s, "live_restart") = e
    BY <1>0, <2>1, <2>3, <2>5 DEF Ran, LiveRestart
  <2>11. "live_restart" \in AuditRepairs(s)
    BY <1>3, AuditNames
  <2>12. "spawner" \notin e.logless /\ ("bot" \notin e.logless \/ e.record["bot"] = "none")
    BY <1>0, <2>2, <2>4, <2>6, <2>8
  <2> QED BY <1>1, <2>7, <2>8, <2>9, <2>10, <2>11, <2>12 DEF OneAudited
<1>4. CASE ~RuntimeOk(s)
  <2>1. PICK e : e = Launch(s, Supervised)
    OBVIOUS
  <2>2. /\ SameSettings(s, e) /\ e.tree = s.tree /\ e.logless = s.logless \ Supervised
        /\ e.record = [p \in Supervised |-> IF p \in Supervised /\ (p = "bot" => ~s.external) THEN "live"
                                            ELSE s.record[p]]
    BY <1>0, <2>1, LaunchFields
  <2>3. e.record["spawner"] = "live" /\ e.record["bot"] = s.record["bot"] /\ e.logless = {}
    BY <1>0, <2>2 DEF Place, Supervised
  <2>4. s.record["bot"] \in {"none", "live"}
    BY <1>0 DEF Place, NoneIsStale, Supervised
  <2>5. Ran(s, "start") = e
    BY <1>0, <2>1 DEF Ran, Start
  <2>6. "start" \in AuditRepairs(s)
    BY <1>4, AuditNames
  <2> QED BY <1>1, <2>2, <2>3, <2>4, <2>5, <2>6 DEF OneAudited
<1> QED BY <1>2, <1>3, <1>4 DEF Running

LEMMA StaleCanBeStopped ==
  ASSUME NEW s, InOrder(s), Shielded(s), AloneAtLast(s), s.external
  PROVE  \E e : OneAudited(s, e) /\ InOrder(e) /\ Shielded(e) /\ AloneAtLast(e) /\ NoneIsStale(e) /\ e.external
<1>1. CASE NoneIsStale(s)
  BY <1>1 DEF OneAudited
<1>2. CASE ~NoneIsStale(s)
  <2>1. PICK e : e = Halt(s, Supervised)
    OBVIOUS
  <2>2. s \in Place /\ CanBeLed(s)
    BY DEF InOrder, CanBeLed
  <2>3. /\ SameSettings(s, e) /\ e.tree = s.tree /\ e.logless = s.logless
        /\ e.record = [p \in Supervised |-> IF p \in Supervised THEN "none" ELSE s.record[p]]
    BY <2>1, <2>2, HaltFields
  <2>4. NoneIsStale(e) /\ e.record["bot"] = "none" /\ e.external
    BY <2>3 DEF NoneIsStale, Supervised, SameSettings
  <2>5. CanBeLed(e)
    BY <2>2, <2>3, <2>4, LedMeans DEF SameSettings
  <2>6. Ran(s, "stop_telegram_starter") = e
    BY <2>1 DEF Ran
  <2>7. "stop_telegram_starter" \in AuditRepairs(s)
    BY <1>2, AuditNames
  <2> QED BY <2>3, <2>4, <2>5, <2>6, <2>7, ProcessesOnly DEF OneAudited
<1> QED BY <1>1, <1>2

(* The conflict scrolls out of the log when the bot, alone, writes on. *)
LEMMA ConflictIsForgotten ==
  ASSUME NEW s, InOrder(s), Shielded(s), AloneAtLast(s), Running(s),
         s.external \/ (s.conflict => s.record["bot"] = "live")
  PROVE  \E e : OneAudited(s, e) /\ InOrder(e) /\ Shielded(e) /\ PollsAlone(e) /\ Running(e)
<1>0. s \in Place
  BY DEF InOrder, CanBeLed
<1>1. CASE PollsAlone(s)
  BY <1>1 DEF OneAudited
<1>2. CASE ~PollsAlone(s)
  <2>1. ~s.external /\ s.polling = "alone" /\ s.conflict /\ s.record["bot"] = "live"
    BY <1>2 DEF PollsAlone, AloneAtLast
  <2>2. PICK e : e = [s EXCEPT !.conflict = FALSE, !.logless = @ \ {"bot"}]
    OBVIOUS
  <2>3. /\ e \in Place /\ e.tree = s.tree /\ e.pin = s.pin /\ e.staleLocks = s.staleLocks /\ e.record = s.record
        /\ e.logless = s.logless \ {"bot"} /\ e.external = s.external /\ e.profile = s.profile
        /\ e.pending = s.pending /\ e.strict = s.strict /\ e.conflict = FALSE /\ e.bind = s.bind
        /\ e.allowed = s.allowed /\ e.polling = s.polling
    BY <1>0, <2>2 DEF Place
  <2>4. CanBeLed(e)
    BY <2>1, <2>3, LedMeans DEF InOrder
  <2>5. InOrder(e)
    BY <2>3, <2>4, TreesStayOk DEF InOrder
  <2>6. Shielded(e) /\ PollsAlone(e)
    BY <2>1, <2>3 DEF Shielded, LocallyExposed, WellGuarded, PollsAlone
  <2>7. ExpectedUp(e) = ExpectedUp(s)
    BY <2>3 DEF ExpectedUp
  <2>8. Running(e)
    BY <2>3, <2>7 DEF Running, NoneIsStale, LogsAreThere, RuntimeOk
  <2>9. Ran(s, "go_on") = e
    <3>1. BotWrites(s) = [s EXCEPT !.conflict = (s.polling # "alone"), !.logless = @ \ {"bot"}]
      BY <2>1 DEF BotWrites
    <3>2. (s.polling # "alone") = FALSE
      BY <2>1
    <3>3. BotWrites(s) = e
      BY <2>2, <3>1, <3>2
    <3> QED BY <3>3 DEF Ran
  <2>10. "go_on" \in AuditRepairs(s)
    BY <1>2, AuditNames
  <2> QED BY <2>5, <2>6, <2>8, <2>9, <2>10 DEF OneAudited
<1> QED BY <1>1, <1>2

LEMMA PinsCanBeStrict ==
  ASSUME NEW s, InOrder(s), Shielded(s), PollsAlone(s), Running(s)
  PROVE  \E e : OneAudited(s, e) /\ AuditOk(e)
<1>0. s \in Place /\ TreesOk(s) /\ ~s.pending
  BY DEF InOrder, CanBeLed
<1>1. CASE Hardened(s) \/ ~(s.hosted \/ s.allowed)
  <2>1. AuditOk(s)
    BY <1>0, <1>1, AuditPasses DEF Running
  <2> QED BY <2>1 DEF OneAudited
<1>2. CASE ~(Hardened(s) \/ ~(s.hosted \/ s.allowed))
  <2>1. PICK e : e = [s EXCEPT !.strict = TRUE]
    OBVIOUS
  <2>2. SameModules(s, e) /\ e.strict = TRUE /\ e.conflict = s.conflict /\ e.bind = s.bind /\ e.allowed = s.allowed
        /\ e.polling = s.polling /\ e.hosted = s.hosted
    BY <1>0, <2>1 DEF SameModules, Place
  <2>3. TreesOk(e)
    BY <1>0, <2>2, TreesStayOk DEF SameModules
  <2>4. Shielded(e) /\ PollsAlone(e) /\ Hardened(e) /\ ~e.pending /\ e \in Place
    BY <1>0, <2>2 DEF SameModules, Shielded, LocallyExposed, WellGuarded, PollsAlone, Hardened
  <2>5. ExpectedUp(e) = ExpectedUp(s)
    BY <2>2 DEF ExpectedUp, SameModules
  <2>6. NoneIsStale(e) /\ LogsAreThere(e) /\ RuntimeOk(e)
    BY <2>2, <2>5 DEF Running, NoneIsStale, LogsAreThere, RuntimeOk, SameModules
  <2>7. AuditOk(e)
    BY <2>3, <2>4, <2>6, AuditPasses
  <2>8. Ran(s, "strict_pins") = e
    BY <2>1 DEF Ran
  <2>9. "strict_pins" \in AuditRepairs(s)
    BY <1>2, AuditNames
  <2> QED BY <2>7, <2>8, <2>9 DEF OneAudited
<1> QED BY <1>1, <1>2

LEMMA AuditedIsThere ==
  ASSUME NEW n \in Nat
  PROVE  \E F : F = [k \in 0..n |-> IF k = 0 THEN {place} ELSE NextByAudit(F[k - 1])]
<1> DEFINE IsFollowed(m, F) == F = [k \in 0..m |-> IF k = 0 THEN {place} ELSE NextByAudit(F[k - 1])]
           Missing == {m \in Nat : ~\E F : IsFollowed(m, F)}
<1>1. SUFFICES ASSUME n \in Missing PROVE FALSE
  OBVIOUS
<1>2. Missing \subseteq Nat /\ Missing # {}
  BY <1>1
<1> HIDE DEF Missing
<1>3. PICK m \in Missing : \A b \in Missing : m <= b
  BY <1>2, LeastIsThere
<1>4. m \in Nat /\ ~\E F : IsFollowed(m, F)
  BY <1>3 DEF Missing
<1>5. CASE m = 0
  <2>1. PICK F : F = [k \in 0..0 |-> {place}]
    OBVIOUS
  <2>2. IsFollowed(0, F)
    BY <2>1
  <2> QED BY <1>4, <1>5, <2>2
<1>6. CASE m # 0
  <2>1. m - 1 \in Nat /\ m - 1 \notin Missing
    BY <1>3, <1>4, <1>6
  <2>2. PICK G : IsFollowed(m - 1, G)
    BY <2>1 DEF Missing
  <2>3. PICK F : F = [k \in 0..m |-> IF k = m THEN NextByAudit(G[m - 1]) ELSE G[k]]
    OBVIOUS
  <2>4. \A k \in 0..m : F[k] = IF k = 0 THEN {place} ELSE NextByAudit(F[k - 1])
    <3> SUFFICES ASSUME NEW k \in 0..m PROVE F[k] = IF k = 0 THEN {place} ELSE NextByAudit(F[k - 1])
      OBVIOUS
    <3>1. CASE k = m
      <4>1. F[k - 1] = G[m - 1] /\ F[k] = NextByAudit(G[m - 1])
        BY <1>4, <1>6, <2>3, <3>1
      <4> QED BY <1>6, <3>1, <4>1
    <3>2. CASE k # m
      <4>1. k \in 0..(m - 1) /\ F[k] = G[k]
        BY <1>4, <2>3, <3>2
      <4>2. CASE k = 0
        BY <2>1, <2>2, <4>1, <4>2
      <4>3. CASE k # 0
        <5>1. k - 1 \in 0..m /\ k - 1 # m /\ F[k - 1] = G[k - 1]
          BY <1>4, <2>3, <4>1, <4>3
        <5>2. G[k] = NextByAudit(G[k - 1])
          BY <2>2, <4>1, <4>3
        <5> QED BY <4>1, <4>3, <5>1, <5>2
      <4> QED BY <4>2, <4>3
    <3> QED BY <3>1, <3>2
  <2>5. F = [k \in 0..m |-> F[k]]
    BY <2>3
  <2>6. IsFollowed(m, F)
    BY <2>4, <2>5
  <2> QED BY <1>4, <2>6
<1> QED BY <1>5, <1>6

LEMMA AuditedStepByStep ==
  /\ ByAudit[0] = {place}
  /\ \A n \in 1..MaxFollowed : ByAudit[n] = NextByAudit(ByAudit[n - 1])
<1>1. MaxFollowed \in Nat
  BY AuditAssumption
<1>2. \E F : F = [n \in 0..MaxFollowed |-> IF n = 0 THEN {place} ELSE NextByAudit(F[n - 1])]
  BY <1>1, AuditedIsThere
<1>3. PICK G : G = ByAudit
  OBVIOUS
<1>4. G = [n \in 0..MaxFollowed |-> IF n = 0 THEN {place} ELSE NextByAudit(G[n - 1])]
  BY <1>2, <1>3 DEF ByAudit
<1>5. \A n \in 0..MaxFollowed : G[n] = IF n = 0 THEN {place} ELSE NextByAudit(G[n - 1])
  BY <1>4
<1>6. 0 \in 0..MaxFollowed /\ \A n \in 1..MaxFollowed : n \in 0..MaxFollowed /\ n # 0
  BY <1>1
<1> QED BY <1>3, <1>5, <1>6

(* A user who follows the audit can be here within n commands. *)
WithinAudits(n, s) == \E k \in 0..MaxFollowed : k <= n /\ s \in ByAudit[k]

LEMMA OneMoreAudit ==
  ASSUME NEW n \in Nat, n < MaxFollowed, NEW s, WithinAudits(n, s), NEW e, OneAudited(s, e)
  PROVE  WithinAudits(n + 1, e)
<1>1. PICK k \in 0..MaxFollowed : k <= n /\ s \in ByAudit[k]
  BY DEF WithinAudits
<1>2. MaxFollowed \in Nat
  BY AuditAssumption
<1>3. CASE e = s
  BY <1>1, <1>3 DEF WithinAudits
<1>4. CASE \E c \in AuditRepairs(s) : e = Ran(s, c)
  <2>1. e \in NextByAudit(ByAudit[k])
    BY <1>1, <1>4 DEF NextByAudit
  <2>2. k + 1 \in 1..MaxFollowed /\ (k + 1) - 1 = k /\ k + 1 <= n + 1
    BY <1>1, <1>2
  <2>3. ByAudit[k + 1] = NextByAudit(ByAudit[k])
    BY <2>2, AuditedStepByStep
  <2> QED BY <2>1, <2>2, <2>3 DEF WithinAudits
<1> QED BY <1>3, <1>4 DEF OneAudited

LEMMA AuditLeads ==
  ASSUME CanBeLed(place), MaxFollowed >= 8
  PROVE  \E n \in 0..MaxFollowed : \E s \in ByAudit[n] : AuditOk(s)
<1>1. MaxFollowed \in Nat
  BY AuditAssumption
<1>2. ASSUME NEW n \in Nat, n < 8, NEW s, WithinAudits(n, s), NEW e, OneAudited(s, e)
      PROVE  WithinAudits(n + 1, e)
  BY <1>1, <1>2, OneMoreAudit
<1>3. WithinAudits(0, place)
  BY <1>1, AuditedStepByStep DEF WithinAudits
<1>4. PICK s1 : OneAudited(place, s1) /\ CanBeLed(s1) /\ ~s1.pending
  BY SetupCanBeResumed
<1>5. PICK s2, s3 : /\ OneAudited(s1, s2) /\ OneAudited(s2, s3) /\ CanBeLed(s3) /\ TreesOk(s3)
                    /\ s3.pending = s1.pending
  BY <1>4, TreesCanBeMade
<1>6. InOrder(s3)
  BY <1>4, <1>5 DEF InOrder
<1>7. PICK s4 : OneAudited(s3, s4) /\ InOrder(s4) /\ Shielded(s4)
  BY <1>6, PlaceCanBeShielded
<1>8. PICK s5 : OneAudited(s4, s5) /\ InOrder(s5) /\ Shielded(s5) /\ AloneAtLast(s5)
  BY <1>7, PollersCanBeOne
<1>9. WithinAudits(5, s5)
  <2>1. WithinAudits(1, s1)
    BY <1>2, <1>3, <1>4
  <2>2. WithinAudits(2, s2)
    BY <1>2, <1>5, <2>1
  <2>3. WithinAudits(3, s3)
    BY <1>2, <1>5, <2>2
  <2>4. WithinAudits(4, s4)
    BY <1>2, <1>7, <2>3
  <2> QED BY <1>2, <1>8, <2>4
<1>10. \E s7 : /\ WithinAudits(7, s7) /\ InOrder(s7) /\ Shielded(s7) /\ PollsAlone(s7) /\ Running(s7)
  <2>1. CASE s5.external
    <3>1. PICK s6 : OneAudited(s5, s6) /\ InOrder(s6) /\ Shielded(s6) /\ AloneAtLast(s6) /\ NoneIsStale(s6) /\ s6.external
      BY <1>8, <2>1, StaleCanBeStopped
    <3>2. PICK s7 : OneAudited(s6, s7) /\ InOrder(s7) /\ Shielded(s7) /\ AloneAtLast(s7) /\ Running(s7) /\ s7.external
      BY <3>1, SpawnerCanRun
    <3>3. WithinAudits(6, s6)
      BY <1>2, <1>9, <3>1
    <3>4. WithinAudits(7, s7)
      BY <1>2, <3>2, <3>3
    <3>5. PollsAlone(s7)
      BY <3>2 DEF PollsAlone
    <3> QED BY <3>2, <3>4, <3>5
  <2>2. CASE ~s5.external
    <3>1. PICK s6 : /\ OneAudited(s5, s6) /\ InOrder(s6) /\ Shielded(s6) /\ AloneAtLast(s6) /\ Running(s6)
                    /\ (s6.conflict => s6.record["bot"] = "live")
      BY <1>8, <2>2, HereProcessesCanRun
    <3>2. PICK s7 : OneAudited(s6, s7) /\ InOrder(s7) /\ Shielded(s7) /\ PollsAlone(s7) /\ Running(s7)
      BY <3>1, ConflictIsForgotten
    <3>3. WithinAudits(6, s6)
      BY <1>2, <1>9, <3>1
    <3>4. WithinAudits(7, s7)
      BY <1>2, <3>2, <3>3
    <3> QED BY <3>2, <3>4
  <2> QED BY <2>1, <2>2
<1>11. PICK s7 : WithinAudits(7, s7) /\ InOrder(s7) /\ Shielded(s7) /\ PollsAlone(s7) /\ Running(s7)
  BY <1>10
<1>12. PICK s8 : OneAudited(s7, s8) /\ AuditOk(s8)
  BY <1>11, PinsCanBeStrict
<1>13. WithinAudits(8, s8)
  BY <1>2, <1>11, <1>12
<1> QED BY <1>12, <1>13 DEF WithinAudits

(* A named profile is of a bot that polls here. *)
ProfileIsHere(s) == s.external => ~s.profile

SameProfile(s, e) == e.external = s.external /\ e.profile = s.profile

LEMMA ProfileStaysHere ==
  ASSUME NEW s \in Place, ProfileIsHere(s), NEW command \in AuditCommands
  PROVE  ProfileIsHere(Ran(s, command))
<1>1. ASSUME NEW e, SameProfile(s, e) PROVE ProfileIsHere(e)
  BY <1>1 DEF SameProfile, ProfileIsHere
<1>2. ASSUME NEW f \in Place, NEW processes
      PROVE  /\ SameProfile(f, Launch(f, processes)) /\ SameProfile(f, Halt(f, processes))
             /\ SameProfile(f, Start(f, processes)) /\ SameProfile(f, AutostartNow(f))
  <2>1. SameSettings(f, Launch(f, processes)) /\ SameSettings(f, Launch(f, Supervised))
    BY <1>2, LaunchFields
  <2>2. SameSettings(f, Halt(f, processes))
    BY <1>2, HaltFields
  <2>3. /\ SameProfile(f, Launch(f, processes)) /\ SameProfile(f, Halt(f, processes))
        /\ SameProfile(f, Launch(f, Supervised))
    BY <2>1, <2>2 DEF SameSettings, SameProfile
  <2> QED BY <2>3 DEF SameProfile, Start, AutostartNow
<1>3. ASSUME NEW f \in Place, NEW m \in Audited
      PROVE  SameProfile(f, Reinstall(f, m))
  BY ReinstallFields DEF SameSettings, SameProfile
<1>4. ASSUME NEW f \in Place, NEW m \in Audited
      PROVE  SameProfile(f, UpdateOne(f, m))
  <2>1. PICK t : t = [f.tree[m] EXCEPT !.stamp = f.pin, !.head = IF f.tree[m].managed THEN f.pin ELSE @]
    OBVIOUS
  <2>2. PICK u : u = [f EXCEPT !.tree[m] = t]
    OBVIOUS
  <2>3. SameProfile(f, u)
    BY <2>2 DEF SameProfile, Place
  <2>4. PICK r : r = [p \in Supervised |-> IF p \in {m} \cap Supervised THEN "none" ELSE u.record[p]]
    OBVIOUS
  <2>5. PICK h : h = [u EXCEPT !.record = r]
    OBVIOUS
  <2>6. SameProfile(u, h)
    BY <2>2, <2>5 DEF SameProfile, Place
  <2>7. UpdateOne(f, m) = h
    BY <2>1, <2>2, <2>4, <2>5 DEF UpdateOne, Halt
  <2> QED BY <2>3, <2>6, <2>7 DEF SameProfile
<1>5. SameProfile(s, LiveRestart(s))
  <2>1. PICK all : all = WithDependents(s, LiveTarget(s))
    OBVIOUS
  <2>2. PICK h \in Place : h = Halt(s, all) /\ SameProfile(s, h)
    BY <1>2, LaunchTyped
  <2>3. SameProfile(h, Launch(h, all))
    BY <1>2
  <2> QED BY <2>1, <2>2, <2>3 DEF LiveRestart, SameProfile
<1>6. ProfileIsHere(ResumeSetup(s))
  <2>1. PICK trees : trees = [m \in Audited |-> [s.tree[m] EXCEPT !.stamp = s.pin]]
    OBVIOUS
  <2>2. trees \in [Audited -> AuditedTree]
    <3>1. s.pin \in 1..MaxPin /\ \A m \in Audited : s.tree[m] \in AuditedTree
      BY DEF Place
    <3>2. \A m \in Audited : [s.tree[m] EXCEPT !.stamp = s.pin] \in AuditedTree
      BY <3>1 DEF AuditedTree
    <3> QED BY <2>1, <3>2
  <2>3. PICK f : f = [s EXCEPT !.external = FALSE, !.pending = FALSE, !.tree = trees]
    OBVIOUS
  <2>4. f \in Place /\ f.external = FALSE
    BY <2>2, <2>3 DEF Place
  <2>5. SameProfile(f, AutostartNow(f))
    BY <1>2, <2>4
  <2>6. ResumeSetup(s) = AutostartNow(f)
    BY <2>1, <2>3 DEF ResumeSetup
  <2> QED BY <2>4, <2>5, <2>6 DEF SameProfile, ProfileIsHere
<1>7. SameProfile(s, UpdateClean(s))
  <2>1. PICK first \in Place :
          first = IF Skips(s, "builder") \/ Refuses(s, "builder") THEN s ELSE UpdateOne(s, "builder")
    BY UpdateOneTyped DEF Audited
  <2>2. SameProfile(s, UpdateOne(s, "builder")) /\ SameProfile(first, UpdateOne(first, "spawner"))
    BY <1>4 DEF Audited
  <2>3. SameProfile(s, first)
    BY <2>1, <2>2 DEF SameProfile
  <2>4. UpdateClean(s) = first \/ UpdateClean(s) = UpdateOne(first, "spawner")
    BY <2>1 DEF UpdateClean
  <2> QED BY <2>2, <2>3, <2>4 DEF SameProfile
<1>8. SameProfile(s, DropEdits(s)) /\ SameProfile(s, WriteLocks(s))
  BY DEF SameProfile, DropEdits, WriteLocks, Place
<1>9. SameProfile(s, BotWrites(s))
  <2>1. PICK c \in BOOLEAN : c = (s.polling # "alone")
    OBVIOUS
  <2>2. SameProfile(s, [s EXCEPT !.conflict = c, !.logless = @ \ {"bot"}])
    BY DEF SameProfile, Place
  <2> QED BY <2>1, <2>2 DEF BotWrites, SameProfile
<1>10. /\ SameProfile(s, [s EXCEPT !.polling = "alone"])
       /\ SameProfile(s, [s EXCEPT !.bind = "loopback", !.allowed = FALSE])
       /\ SameProfile(s, [s EXCEPT !.allowed = TRUE])
       /\ SameProfile(s, [s EXCEPT !.strict = TRUE])
  BY DEF SameProfile, Place
<1>11. CASE command = "live_restart"
  BY <1>1, <1>5, <1>11 DEF Ran
<1>12. CASE command \in {"live_start", "start", "stop_telegram_starter", "autostart_on_now"}
  BY <1>1, <1>2, <1>12 DEF Ran
<1>13. CASE command = "setup_resume"
  BY <1>6, <1>13 DEF Ran
<1>14. CASE command \in {"update_skip_dirty", "review_edits", "regenerate_lockfiles", "go_on"}
  BY <1>1, <1>7, <1>8, <1>9, <1>14 DEF Ran
<1>15. CASE command \in {"reinstall_builder", "reinstall_spawner"}
  <2>1. SameProfile(s, Reinstall(s, "builder")) /\ SameProfile(s, Reinstall(s, "spawner"))
    BY <1>3 DEF Audited
  <2> QED BY <1>1, <1>15, <2>1 DEF Ran
<1>16. CASE command \in {"one_poller", "bind_to_localhost", "allow_hosts", "strict_pins"}
  BY <1>1, <1>10, <1>16 DEF Ran
<1> QED BY <1>11, <1>12, <1>13, <1>14, <1>15, <1>16, AuditCommandsAre

LEMMA MishapKeepsProfile ==
  ASSUME NEW s \in Place, ProfileIsHere(s), NEW e \in Mishap(s)
  PROVE  ProfileIsHere(e)
<1>1. ASSUME NEW b \in BOOLEAN, b = (s.external = FALSE), e = [s EXCEPT !.profile = b] PROVE ProfileIsHere(e)
  BY <1>1 DEF ProfileIsHere, Place
<1>2. ASSUME e = [s EXCEPT !.external = TRUE, !.profile = FALSE] PROVE ProfileIsHere(e)
  BY <1>2 DEF ProfileIsHere, Place
<1>3. ASSUME \/ \E r : e = [s EXCEPT !.record = r]
             \/ \E l : e = [s EXCEPT !.logless = l]
             \/ e = [s EXCEPT !.pending = TRUE] \/ e = [s EXCEPT !.strict = TRUE]
             \/ \E c : e = [s EXCEPT !.conflict = c, !.polling = "elsewhere"]
             \/ e = [s EXCEPT !.polling = "shared"]
             \/ \E b : e = [s EXCEPT !.bind = b]
             \/ \E c : e = [s EXCEPT !.pin = c]
             \/ \E trees : e = [s EXCEPT !.tree = trees]
      PROVE  ProfileIsHere(e)
  <2>1. SameProfile(s, e)
    BY <1>3 DEF SameProfile, Place
  <2> QED BY <2>1 DEF SameProfile, ProfileIsHere
<1>4. ASSUME e = [s EXCEPT !.conflict = (s.record["bot"] = "live"), !.polling = "elsewhere"]
      PROVE  ProfileIsHere(e)
  <2>1. PICK c : c = (s.record["bot"] = "live")
    OBVIOUS
  <2>2. e = [s EXCEPT !.conflict = c, !.polling = "elsewhere"]
    BY <1>4, <2>1
  <2> QED BY <1>3, <2>2
<1>5. ASSUME e = [s EXCEPT !.profile = (s.external = FALSE)]
      PROVE  ProfileIsHere(e)
  <2>1. PICK b \in BOOLEAN : b = (s.external = FALSE)
    OBVIOUS
  <2>2. e = [s EXCEPT !.profile = b]
    BY <1>5, <2>1
  <2> QED BY <1>1, <2>1, <2>2
<1>6. MishapIs(s, e)
  BY MishapCases
<1> QED BY <1>2, <1>3, <1>4, <1>5, <1>6 DEF MishapIs

(* What the audit finds is mended by eight commands of those it names, or  *)
(* is one of the dead ends, whatever and however much went wrong; and what *)
(* it passes the strict guard starts.                                      *)
THEOREM AuditLeadsAndAgrees == ASSUME MaxFollowed >= 8 PROVE AuditSpec => []AuditIsSound
<1>1. AuditInit => ProfileIsHere(place)
  BY DEF AuditInit, SetUpPlace, ProfileIsHere
<1>2. AuditTypeOK /\ ProfileIsHere(place) /\ [AuditNext]_audit_vars => ProfileIsHere(place)'
  <2> SUFFICES ASSUME AuditTypeOK, ProfileIsHere(place), [AuditNext]_audit_vars PROVE ProfileIsHere(place')
    BY DEF ProfileIsHere
  <2>1. place \in Place
    BY DEF AuditTypeOK
  <2>2. CASE RunAudited
    BY <2>1, <2>2, ProfileStaysHere DEF RunAudited
  <2>3. CASE SufferMishap
    BY <2>1, <2>3, MishapKeepsProfile DEF SufferMishap
  <2>4. CASE UNCHANGED audit_vars
    BY <2>4 DEF audit_vars, ProfileIsHere
  <2> QED BY <2>2, <2>3, <2>4 DEF AuditNext
<1>3. AuditTypeOK /\ ProfileIsHere(place) => AuditIsSound
  <2> SUFFICES ASSUME AuditTypeOK, ProfileIsHere(place) PROVE AuditMeetsGuard /\ AuditLeadsOut
    BY DEF AuditIsSound
  <2>1. AuditMeetsGuard
    BY GuardOfAudited, ExposureOfVerified DEF AuditTypeOK, AuditMeetsGuard
  <2>2. AuditLeadsOut
    BY AuditLeads DEF AuditLeadsOut, CanBeLed, AuditTypeOK, ProfileIsHere
  <2> QED BY <2>1, <2>2
<1> QED BY <1>1, <1>2, <1>3, AuditInductive, PTL DEF AuditSpec

-----------------------------------------------------------------------------
(* The parts side by side.                                                *)

LEMMA PartStays == Spec => [](part \in Parts)
<1>1. Init => part \in Parts
  BY PartAssumption DEF Init
<1>2. part \in Parts /\ [Next]_vars => (part \in Parts)'
  BY DEF Next, vars, GateMoves, TruthMoves, RevokeMoves, SetupMoves, RepairMoves, AuditMoves, TraceMoves,
         ProfileMoves, GraphMoves, AutostartMoves, LogMoves, OthersStay
<1> QED BY <1>1, <1>2, PTL DEF Spec

(* A behaviour of the parts side by side is a behaviour of each of them.   *)
THEOREM OperationsKeepTheirSpecs ==
  Spec => /\ GateSpec /\ TruthSpec /\ RevokeSpec /\ SetupSpec /\ RepairSpec /\ AuditSpec
          /\ TraceSpec /\ ProfileSpec /\ GraphSpec /\ AutostartSpec /\ LogSpec
<1>1. Init => /\ GateInit /\ TruthInit /\ RevokeInit /\ SetupInit /\ RepairInit /\ AuditInit
              /\ TraceInit /\ ProfileInit /\ GraphInit /\ AutostartInit /\ LogInit
  BY DEF Init
<1>2. [Next]_vars =>
        /\ [GateNext]_gate_vars /\ [TruthNext]_truth_vars /\ [RevokeNext]_revoke_vars /\ [SetupNext]_setup_vars
        /\ [RepairNext]_repair_vars /\ [AuditNext]_audit_vars /\ [TraceNext]_trace_vars
        /\ [ProfileNext]_profile_vars /\ [GraphNext]_graph_vars /\ [AutostartNext]_autostart_vars
        /\ [LogNext]_log_vars
  <2> SUFFICES ASSUME [Next]_vars
               PROVE  /\ [GateNext]_gate_vars /\ [TruthNext]_truth_vars /\ [RevokeNext]_revoke_vars
                      /\ [SetupNext]_setup_vars /\ [RepairNext]_repair_vars /\ [AuditNext]_audit_vars
                      /\ [TraceNext]_trace_vars /\ [ProfileNext]_profile_vars /\ [GraphNext]_graph_vars
                      /\ [AutostartNext]_autostart_vars /\ [LogNext]_log_vars
    OBVIOUS
  <2>1. CASE GateMoves
    BY <2>1 DEF GateMoves, OthersStay
  <2>2. CASE TruthMoves
    BY <2>2 DEF TruthMoves, OthersStay
  <2>3. CASE RevokeMoves
    BY <2>3 DEF RevokeMoves, OthersStay
  <2>4. CASE SetupMoves
    BY <2>4 DEF SetupMoves, OthersStay
  <2>5. CASE RepairMoves
    BY <2>5 DEF RepairMoves, OthersStay
  <2>6. CASE AuditMoves
    BY <2>6 DEF AuditMoves, OthersStay
  <2>7. CASE TraceMoves
    BY <2>7 DEF TraceMoves, OthersStay
  <2>8. CASE ProfileMoves
    BY <2>8 DEF ProfileMoves, OthersStay
  <2>9. CASE GraphMoves
    BY <2>9 DEF GraphMoves, OthersStay
  <2>10. CASE AutostartMoves
    BY <2>10 DEF AutostartMoves, OthersStay
  <2>11. CASE LogMoves
    BY <2>11 DEF LogMoves, OthersStay
  <2>12. CASE UNCHANGED vars
    BY <2>12 DEF vars
  <2> QED BY <2>1, <2>2, <2>3, <2>4, <2>5, <2>6, <2>7, <2>8, <2>9, <2>10, <2>11, <2>12 DEF Next
<1> QED BY <1>1, <1>2, PTL DEF Spec, GateSpec, TruthSpec, RevokeSpec, SetupSpec, RepairSpec, AuditSpec, TraceSpec,
                               ProfileSpec, GraphSpec, AutostartSpec, LogSpec

LEMMA TypesOfTheParts ==
  /\ GateIInv => GateTypeOK
  /\ TruthIInv => TruthTypeOK
  /\ RevokeIInv => RevokeTypeOK
  /\ SetupIInv => SetupTypeOK
  /\ ProfileIInv => ProfileTypeOK
  /\ GraphIInv => GraphTypeOK
  /\ AutostartIInv => AutostartTypeOK
  /\ LogIInv => LogTypeOK
<1>1. TruthIInv => TruthTypeOK
  BY DEF TruthIInv, WorldTyped
<1>2. (GateIInv => GateTypeOK) /\ (RevokeIInv => RevokeTypeOK) /\ (SetupIInv => SetupTypeOK)
  BY DEF GateIInv, RevokeIInv, SetupIInv
<1>3. (ProfileIInv => ProfileTypeOK) /\ (GraphIInv => GraphTypeOK)
  BY DEF ProfileIInv, GraphIInv
<1>4. (AutostartIInv => AutostartTypeOK) /\ (LogIInv => LogTypeOK)
  BY DEF AutostartIInv, LogIInv
<1> QED BY <1>1, <1>2, <1>3, <1>4

(* Whichever part moves keeps the types of its files and records: the      *)
(* gate's captures, the release's pins, the revoked keys, setup.json, the  *)
(* installation the guides and the audit look at, Builder's traces, the    *)
(* profiles, the start order, the login hooks and the logs; for any value  *)
(* of every constant.                                                      *)
THEOREM OperationsTypeCorrect == Spec => []OperationsTypeOK
<1>1. /\ part \in Parts /\ GateTypeOK /\ TruthTypeOK /\ RevokeTypeOK /\ SetupTypeOK /\ RepairTypeOK
      /\ AuditTypeOK /\ TraceTypeOK /\ ProfileTypeOK /\ GraphTypeOK /\ AutostartTypeOK /\ LogTypeOK
      => OperationsTypeOK
  BY DEF Parts, OperationsTypeOK
<1> QED BY <1>1, TypesOfTheParts, PartStays, OperationsKeepTheirSpecs, GateInductive, TruthInductive,
           RevokeInductive, SetupInductive, RepairInductive, AuditInductive, TraceTypeCorrect,
           ProfilesInductive, GraphIsKept, AutostartInductive, LogInductive, PTL

(* What the guides and the audit advise is sound: their verdicts agree,    *)
(* and from every installation but the dead ends, whatever and however     *)
(* much was damaged, seven commands that `verify` or `fix telegram` name,  *)
(* or eight that the audit names, lead to one that they pass.              *)
THEOREM AdviceIsAlwaysSound ==
  ASSUME MaxRepairs >= 7, MaxFollowed >= 8
  PROVE  Spec => []AdviceIsSound
<1>1. RepairSpec => []GuideIsSound
  BY GuideLeadsOut
<1>2. AuditSpec => []AuditIsSound
  BY AuditLeadsAndAgrees
<1>3. GuideIsSound /\ AuditIsSound => AdviceIsSound
  BY DEF AdviceIsSound
<1> QED BY <1>1, <1>2, <1>3, OperationsKeepTheirSpecs, PTL

=============================================================================
