----------------------------- MODULE SshTargets -----------------------------
(***************************************************************************)
(* SSH sandbox targets: ssh_targets.json holds the records, known_hosts    *)
(* the pinned keys by host alias, and `spark sandbox ssh trust` fills both *)
(* from one scan of the host.  Invocations add, remove, trust and log in   *)
(* with no lock: each loads the whole record file first and, but for a     *)
(* login, later replaces it whole, with what others saved between lost.    *)
(* Hosts change their keys; an invocation may be killed at any step.       *)
(*                                                                         *)
(* Two targets may name the same host, and then share its known_hosts line.*)
(***************************************************************************)
EXTENDS Naturals, FiniteSets

CONSTANTS
  Target, Host, SshCaller,
  HostKey,                    \* host keys, each with its own fingerprint
  MaxKeyChanges, MaxTrusts, MaxEdits    \* bounds; edits are adds and removes

ASSUME SshAssumption == MaxKeyChanges \in Nat /\ MaxTrusts \in Nat /\ MaxEdits \in Nat

CONSTANTS NoHost, NoKey
ASSUME SshNoneAssumption == NoHost \notin Host /\ NoKey \notin HostKey

VARIABLES
  hostKey,    \* the key each host presents
  targets,    \* ssh_targets.json: host of each target and trusted fingerprint
  knownHosts, \* known_hosts: the keys pinned for each host
  calls,      \* what each invocation has loaded and scanned
  login,      \* the last login a doctor or smoke probe made
  scanned,    \* history: <<host, key>> pairs a trust accepted
  settled,    \* history: targets whose last trust ended with no other
              \* invocation beside it, with no later trust of the same
              \* host and no later add or remove of the target begun
  keyChanges, trusts, edits

ssh_vars == <<hostKey, targets, knownHosts, calls, login, scanned, settled, keyChanges, trusts, edits>>

NoRecord == [host |-> NoHost, fingerprint |-> NoKey]
NoCall == [at |-> "idle"]
NoLogin == [host |-> NoHost, key |-> NoKey, trusted |-> NoKey, settled |-> FALSE]
Known == {t \in Target : targets[t].host # NoHost}
Trusted == {t \in Known : targets[t].fingerprint # NoKey}
Busy == {c \in SshCaller : calls[c] # NoCall}
SameHost(h) == {t \in Target : targets[t].host = h}

SshInit ==
  /\ hostKey \in [Host -> HostKey]
  /\ targets = [t \in Target |-> NoRecord]
  /\ knownHosts = [h \in Host |-> {}]
  /\ calls = [c \in SshCaller |-> NoCall]
  /\ login = NoLogin /\ scanned = {} /\ settled = {}
  /\ keyChanges = 0 /\ trusts = 0 /\ edits = 0

(* load_ssh_targets: an invocation of t that begins has no other beside it *)
(* or else neither it nor those is alone.                                  *)
Load(t, step) == [at |-> step, target |-> t, loaded |-> targets, alone |-> Busy = {}]
BeginCall(c, call) ==
  /\ calls[c] = NoCall
  /\ calls' = [d \in SshCaller |->
       IF d = c THEN call
       ELSE IF d \in Busy THEN [calls[d] EXCEPT !.alone = FALSE] ELSE calls[d]]
  /\ login' = NoLogin

-----------------------------------------------------------------------------
(* add_ssh_target and remove_ssh_target.  A changed record is not trusted  *)
(* until it is again; a removed one leaves its known_hosts line.           *)

NewRecord(h) == [host |-> h, fingerprint |-> NoKey]

BeginEdit(c, t, h) ==
  /\ edits < MaxEdits /\ edits' = edits + 1
  /\ BeginCall(c, [at |-> "edit", target |-> t, loaded |-> targets, alone |-> Busy = {}, to |-> h])
  /\ settled' = settled \ {t}
  /\ UNCHANGED <<hostKey, targets, knownHosts, scanned, keyChanges, trusts>>

LoadForAdd(c, t, h) == h \in Host /\ BeginEdit(c, t, h)
LoadForRemove(c, t) == t \in Known /\ BeginEdit(c, t, NoHost)

(* save_ssh_targets: the loaded records, with this one replaced.           *)
SaveEdited(c) ==
  /\ calls[c].at = "edit"
  /\ targets' = [calls[c].loaded EXCEPT ![calls[c].target] = NewRecord(calls[c].to)]
  /\ calls' = [calls EXCEPT ![c] = NoCall]
  /\ login' = NoLogin
  /\ UNCHANGED <<hostKey, knownHosts, scanned, settled, keyChanges, trusts, edits>>

-----------------------------------------------------------------------------
(* trust_ssh_target_host_key.                                              *)

LoadForTrust(c, t) ==
  /\ t \in Known /\ trusts < MaxTrusts /\ trusts' = trusts + 1
  /\ BeginCall(c, Load(t, "scan"))
  /\ settled' = settled \ SameHost(targets[t].host)
  /\ UNCHANGED <<hostKey, targets, knownHosts, scanned, keyChanges, edits>>

(* ssh-keyscan of the host in the loaded record; with --fingerprint the    *)
(* command ends unless the key is the expected one.                        *)
ScanHost(c) ==
  /\ calls[c].at = "scan"
  /\ LET h == calls[c].loaded[calls[c].target].host
     IN \E expected \in HostKey \cup {NoKey} :
          IF expected \in {NoKey, hostKey[h]}
            THEN /\ calls' = [calls EXCEPT ![c] =
                      [at |-> "read", target |-> @.target, loaded |-> @.loaded, alone |-> @.alone, key |-> hostKey[h]]]
                 /\ scanned' = scanned \cup {<<h, hostKey[h]>>}
            ELSE calls' = [calls EXCEPT ![c] = NoCall] /\ UNCHANGED scanned
  /\ login' = NoLogin
  /\ UNCHANGED <<hostKey, targets, knownHosts, settled, keyChanges, trusts, edits>>

(* The new known_hosts: the other lines as read here, one line for h.      *)
PinnedAlone_Appends(lines, h, k) == [lines EXCEPT ![h] = @ \cup {k}]
PinnedAlone(lines, h, k) == [lines EXCEPT ![h] = {k}]

ReadKnownHosts(c) ==
  /\ calls[c].at = "read"
  /\ calls' = [calls EXCEPT ![c] =
       [at |-> "pin", target |-> @.target, loaded |-> @.loaded, alone |-> @.alone, key |-> @.key,
        lines |-> PinnedAlone(knownHosts, @.loaded[@.target].host, @.key)]]
  /\ login' = NoLogin
  /\ UNCHANGED <<hostKey, targets, knownHosts, scanned, settled, keyChanges, trusts, edits>>

PinKey(c) ==
  /\ calls[c].at = "pin"
  /\ knownHosts' = calls[c].lines
  /\ calls' = [calls EXCEPT ![c] =
       [at |-> "save", target |-> @.target, loaded |-> @.loaded, alone |-> @.alone, key |-> @.key]]
  /\ login' = NoLogin
  /\ UNCHANGED <<hostKey, targets, scanned, settled, keyChanges, trusts, edits>>

(* The records loaded at the start are saved, with this one trusted: what  *)
(* others changed since is lost, and the record stays of one piece.        *)
TrustedRecords(c) ==
  [calls[c].loaded EXCEPT ![calls[c].target].fingerprint = calls[c].key]

SaveTrusted(c) ==
  /\ calls[c].at = "save"
  /\ targets' = TrustedRecords(c)
  /\ calls' = [calls EXCEPT ![c] = NoCall]
  /\ settled' = IF calls[c].alone THEN settled \cup {calls[c].target} ELSE settled
  /\ login' = NoLogin
  /\ UNCHANGED <<hostKey, knownHosts, scanned, keyChanges, trusts, edits>>

KillCall(c) ==
  /\ calls[c] # NoCall
  /\ calls' = [calls EXCEPT ![c] = NoCall]
  /\ login' = NoLogin
  /\ UNCHANGED <<hostKey, targets, knownHosts, scanned, settled, keyChanges, trusts, edits>>

-----------------------------------------------------------------------------

(* StrictHostKeyChecking=yes with Spark's own known_hosts.                 *)
AcceptsKey(h) == hostKey[h] \in knownHosts[h]

(* The remote probe of doctor, and smoke: only to a target that is trusted *)
(* in the records loaded.                                                  *)
LoadForLogin(c, t) ==
  /\ t \in Trusted /\ BeginCall(c, Load(t, "login"))
  /\ UNCHANGED <<hostKey, targets, knownHosts, scanned, settled, keyChanges, trusts, edits>>

Login(c) ==
  LET t == calls[c].target
      r == calls[c].loaded[t] IN
  /\ calls[c].at = "login" /\ calls' = [calls EXCEPT ![c] = NoCall]
  /\ login' = IF AcceptsKey(r.host)
                THEN [host |-> r.host, key |-> hostKey[r.host], trusted |-> r.fingerprint,
                      settled |-> t \in settled]
                ELSE NoLogin
  /\ UNCHANGED <<hostKey, targets, knownHosts, scanned, settled, keyChanges, trusts, edits>>

ChangeHostKey(h) ==
  /\ keyChanges < MaxKeyChanges
  /\ \E k \in HostKey \ {hostKey[h]} : hostKey' = [hostKey EXCEPT ![h] = k]
  /\ keyChanges' = keyChanges + 1
  /\ login' = NoLogin
  /\ UNCHANGED <<targets, knownHosts, calls, scanned, settled, trusts, edits>>

SshNext ==
  \/ \E c \in SshCaller :
       \/ \E t \in Target : \/ \E h \in Host : LoadForAdd(c, t, h)
                            \/ LoadForRemove(c, t) \/ LoadForTrust(c, t) \/ LoadForLogin(c, t)
       \/ SaveEdited(c) \/ Login(c) \/ KillCall(c)
       \/ ScanHost(c) \/ ReadKnownHosts(c) \/ PinKey(c) \/ SaveTrusted(c)
  \/ \E h \in Host : ChangeHostKey(h)

SshSpec == SshInit /\ [][SshNext]_ssh_vars

-----------------------------------------------------------------------------
(* What should hold.                                                       *)

SshTypeOK ==
  /\ hostKey \in [Host -> HostKey]
  /\ targets \in [Target -> [host : Host \cup {NoHost}, fingerprint : HostKey \cup {NoKey}]]
  /\ knownHosts \in [Host -> SUBSET HostKey]
  /\ scanned \subseteq Host \X HostKey /\ settled \subseteq Target

(* A record says trusted only of a key that a trust scanned at the very    *)
(* host the record names, whatever adds, removes and other trusts wrote    *)
(* between its load and its save (trust_ssh_target_host_key saves the      *)
(* record it loaded, not a mix of it with a newer one).                    *)
TrustNamesScannedHost ==
  \A t \in Trusted : <<targets[t].host, targets[t].fingerprint>> \in scanned

(* Trusted records name scanned keys; a target whose last trust ended      *)
(* undisturbed stays trusted, however many adds, removes and trusts of     *)
(* other targets overlap and are killed afterwards; and a login meets a    *)
(* key that a trust scanned at that host: the one the record names, for a  *)
(* target whose last trust ended undisturbed and whose host has not been   *)
(* trusted since under any name.                                           *)
LoginMeetsTrustedKey ==
  /\ TrustNamesScannedHost
  /\ settled \subseteq Trusted
  /\ login.host # NoHost =>
       /\ <<login.host, login.key>> \in scanned
       /\ login.settled => login.key = login.trusted

-----------------------------------------------------------------------------
(* What the steps preserve, and what the properties follow from.           *)

TargetRecord == [host : Host \cup {NoHost}, fingerprint : HostKey \cup {NoKey}]
HostOf(c) == calls[c].loaded[calls[c].target].host

Loading == [at : {"login", "scan"}, target : Target, loaded : [Target -> TargetRecord], alone : BOOLEAN]
Editing == [at : {"edit"}, target : Target, loaded : [Target -> TargetRecord], alone : BOOLEAN,
            to : Host \cup {NoHost}]
Scanned == [at : {"read", "save"}, target : Target, loaded : [Target -> TargetRecord],
            alone : BOOLEAN, key : HostKey]
Pinning == [at : {"pin"}, target : Target, loaded : [Target -> TargetRecord],
            alone : BOOLEAN, key : HostKey, lines : [Host -> SUBSET HostKey]]
Call == Loading \cup Editing \cup Scanned \cup Pinning

CallsOK ==
  /\ calls \in [SshCaller -> {NoCall} \cup Call]
  /\ \A c \in Busy : calls[c].at # "edit" => HostOf(c) \in Host

(* Whatever is, or may still be, written about a key was scanned. *)
WritesScanned(c) ==
  /\ \A t \in Target : LET r == calls[c].loaded[t] IN
       r.host # NoHost /\ r.fingerprint # NoKey => <<r.host, r.fingerprint>> \in scanned
  /\ calls[c].at \in {"read", "pin", "save"} => <<HostOf(c), calls[c].key>> \in scanned
  /\ calls[c].at = "pin" => \A h \in Host : \A k \in calls[c].lines[h] : <<h, k>> \in scanned
ScannedOnly ==
  /\ \A h \in Host : \A k \in knownHosts[h] : <<h, k>> \in scanned
  /\ \A c \in Busy : WritesScanned(c)

(* The known_hosts line of a settled target is the trusted key; every      *)
(* invocation that runs has loaded its record as it is, and none of those  *)
(* that will write is about to change it or the line.                      *)
Spares(c, t) ==
  /\ calls[c].loaded[t] = targets[t]
  /\ calls[c].at # "login" => calls[c].target # t
  /\ calls[c].at \in {"scan", "read", "pin", "save"} => targets[t].host # HostOf(c)
  /\ calls[c].at = "pin" => calls[c].lines[targets[t].host] = {targets[t].fingerprint}
SettledLines ==
  /\ \A t \in settled : targets[t].host \in Host /\ knownHosts[targets[t].host] = {targets[t].fingerprint}
  /\ \A c \in Busy, t \in settled : Spares(c, t)

(* One that still runs alone has loaded the records as they are and has    *)
(* what it pinned in known_hosts.                                          *)
KnowsFiles(c) ==
  /\ calls[c].alone => Busy = {c} /\ calls[c].loaded = targets
  /\ calls[c].at = "pin" => calls[c].lines[HostOf(c)] = {calls[c].key}
  /\ calls[c].at = "save" /\ calls[c].alone => knownHosts[HostOf(c)] = {calls[c].key}
AloneInv == \A c \in Busy : KnowsFiles(c)

SshIInv ==
  SshTypeOK /\ CallsOK /\ ScannedOnly /\ SettledLines /\ AloneInv /\ LoginMeetsTrustedKey

=============================================================================
