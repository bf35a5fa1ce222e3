---------------------------- MODULE MachineProofs ----------------------------
(***************************************************************************)
(* Proofs about parts that guard the machine and share no file: the SSH    *)
(* targets, the access level and its guide, browser use and the smokes of  *)
(* missions and sandboxes, whatever invocations, hosts, keys, sessions,    *)
(* missions and machines there are.                                        *)
(***************************************************************************)
EXTENDS SshTargets, AccessLevel, AccessGuide, SandboxSmoke, MissionSmoke, BrowserUse, FiniteSetTheorems, TLAPS

-----------------------------------------------------------------------------
(* SSH targets.                                                            *)

(* What an invocation may have loaded, by the step it is at. *)
LEMMA CallFacts ==
  ASSUME CallsOK, NEW c \in SshCaller
  PROVE  /\ c \in Busy <=> calls[c].at # "idle"
         /\ calls[c].at \in {"login", "scan"} => calls[c] \in Loading
         /\ calls[c].at = "edit" => calls[c] \in Editing
         /\ calls[c].at \in {"read", "save"} => calls[c] \in Scanned
         /\ calls[c].at = "pin" => calls[c] \in Pinning
         /\ c \in Busy => /\ calls[c] \in Call
                          /\ calls[c].at \in {"login", "edit", "scan", "read", "pin", "save"}
                          /\ calls[c].target \in Target
                          /\ calls[c].loaded \in [Target -> TargetRecord]
                          /\ calls[c].alone \in BOOLEAN
                          /\ calls[c].at # "edit" => HostOf(c) \in Host
                          /\ calls[c].at = "edit" => calls[c].to \in Host \cup {NoHost}
                          /\ calls[c].at \in {"read", "pin", "save"} => calls[c].key \in HostKey
                          /\ calls[c].at = "pin" => calls[c].lines \in [Host -> SUBSET HostKey]
<1>1. /\ \/ calls[c] = NoCall
         \/ calls[c] \in Loading \/ calls[c] \in Editing \/ calls[c] \in Scanned \/ calls[c] \in Pinning
      /\ c \in Busy /\ calls[c].at # "edit" => HostOf(c) \in Host
  BY DEF CallsOK, Call
<1>2. NoCall.at = "idle"
  BY DEF NoCall
<1>3. CASE calls[c] = NoCall
  BY <1>2, <1>3 DEF Busy
<1>4. CASE calls[c] \in Loading
  BY <1>1, <1>2, <1>4 DEF Loading, Busy, Call
<1>5. CASE calls[c] \in Editing
  BY <1>1, <1>2, <1>5 DEF Editing, Busy, Call
<1>6. CASE calls[c] \in Scanned
  BY <1>1, <1>2, <1>6 DEF Scanned, Busy, Call
<1>7. CASE calls[c] \in Pinning
  BY <1>1, <1>2, <1>7 DEF Pinning, Busy, Call
<1> QED BY <1>1, <1>3, <1>4, <1>5, <1>6, <1>7

(* Losing its solitude changes nothing else of an invocation.              *)
LEMMA NotAloneFacts ==
  ASSUME NEW r \in Call
  PROVE  LET q == [r EXCEPT !.alone = FALSE] IN
         /\ q \in Call
         /\ q.at = r.at /\ q.target = r.target /\ q.loaded = r.loaded /\ q.alone = FALSE
         /\ r.at = "edit" => q.to = r.to
         /\ r.at \in {"read", "pin", "save"} => q.key = r.key
         /\ r.at = "pin" => q.lines = r.lines
<1>1. CASE r \in Loading
  <2>1. [r EXCEPT !.alone = FALSE] \in Loading
    BY <1>1 DEF Loading
  <2> QED BY <1>1, <2>1 DEF Loading, Call
<1>2. CASE r \in Editing
  <2>1. [r EXCEPT !.alone = FALSE] \in Editing
    BY <1>2 DEF Editing
  <2> QED BY <1>2, <2>1 DEF Editing, Call
<1>3. CASE r \in Scanned
  <2>1. [r EXCEPT !.alone = FALSE] \in Scanned
    BY <1>3 DEF Scanned
  <2> QED BY <1>3, <2>1 DEF Scanned, Call
<1>4. CASE r \in Pinning
  <2>1. [r EXCEPT !.alone = FALSE] \in Pinning
    BY <1>4 DEF Pinning
  <2> QED BY <1>4, <2>1 DEF Pinning, Call
<1> QED BY <1>1, <1>2, <1>3, <1>4 DEF Call

LEMMA SshInitInv == SshInit => SshIInv
<1> SUFFICES ASSUME SshInit PROVE SshIInv
  OBVIOUS
<1>1. \A t \in Target : targets[t].host = NoHost /\ targets[t].fingerprint = NoKey
  BY DEF SshInit, NoRecord
<1>2. SshTypeOK
  BY DEF SshInit, SshTypeOK, NoRecord
<1>3. CallsOK /\ Busy = {}
  BY DEF SshInit, CallsOK, Busy
<1>4. ScannedOnly /\ SettledLines /\ AloneInv
  BY <1>3 DEF SshInit, ScannedOnly, SettledLines, AloneInv
<1>5. LoginMeetsTrustedKey
  BY <1>1 DEF SshInit, LoginMeetsTrustedKey, TrustNamesScannedHost, Trusted, Known, NoLogin
<1> QED BY <1>2, <1>3, <1>4, <1>5 DEF SshIInv

(* An invocation goes one step further: it stays busy with the same host,  *)
(* and nothing else about it or the others changes.                        *)
LEMMA GoOn ==
  ASSUME CallsOK, NEW c \in Busy, NEW r \in Scanned \cup Pinning, HostOf(c) \in Host,
         r.target = calls[c].target, r.loaded = calls[c].loaded,
         r.alone = calls[c].alone, calls' = [calls EXCEPT ![c] = r]
  PROVE  /\ CallsOK' /\ Busy' = Busy /\ calls'[c] = r
         /\ \A d \in SshCaller : d # c => calls'[d] = calls[d]
         /\ \A d \in SshCaller : HostOf(d)' = HostOf(d)
<1>1. c \in SshCaller
  BY DEF Busy
<1>2. calls \in [SshCaller -> {NoCall} \cup Call] /\ r \in Call
  BY DEF CallsOK, Call
<1>3. /\ calls' \in [SshCaller -> {NoCall} \cup Call]
      /\ calls'[c] = r /\ \A d \in SshCaller : d # c => calls'[d] = calls[d]
  BY <1>1, <1>2
<1>4. r # NoCall
  BY DEF Scanned, Pinning, NoCall
<1>5. Busy' = Busy
  BY <1>1, <1>3, <1>4 DEF Busy
<1>6. \A d \in SshCaller : HostOf(d)' = HostOf(d)
  BY <1>3 DEF HostOf
<1>7. CallsOK'
  <2>1. \A d \in Busy' : calls'[d].at # "edit" => HostOf(d)' \in Host
    BY <1>3, <1>5, <1>6 DEF CallsOK, Busy
  <2> QED BY <1>3, <2>1 DEF CallsOK
<1> QED BY <1>3, <1>5, <1>6, <1>7

(* An invocation ends, however it ends. *)
LEMMA GoAway ==
  ASSUME CallsOK, NEW c \in Busy, calls' = [calls EXCEPT ![c] = NoCall]
  PROVE  /\ CallsOK' /\ Busy' = Busy \ {c}
         /\ \A d \in Busy' : d \in Busy /\ calls'[d] = calls[d] /\ HostOf(d)' = HostOf(d)
<1>1. c \in SshCaller
  BY DEF Busy
<1>2. calls \in [SshCaller -> {NoCall} \cup Call]
  BY DEF CallsOK
<1>3. /\ calls' \in [SshCaller -> {NoCall} \cup Call]
      /\ calls'[c] = NoCall /\ \A d \in SshCaller : d # c => calls'[d] = calls[d]
  BY <1>1, <1>2
<1>4. Busy' = Busy \ {c}
  BY <1>3 DEF Busy
<1>5. \A d \in Busy' : d \in Busy /\ calls'[d] = calls[d] /\ HostOf(d)' = HostOf(d)
  BY <1>3, <1>4 DEF HostOf, Busy
<1>6. \A d \in Busy' : calls'[d].at # "edit" => HostOf(d)' \in Host
  BY <1>5 DEF CallsOK
<1> QED BY <1>3, <1>4, <1>5, <1>6 DEF CallsOK

(* Without a login reported only the records matter: a step that leaves    *)
(* them and what is settled alone loses no scan.                           *)
LEMMA SameRecords ==
  ASSUME LoginMeetsTrustedKey, login' = NoLogin, targets' = targets, settled' \subseteq settled,
         scanned \subseteq scanned'
  PROVE  LoginMeetsTrustedKey'
<1>1. Trusted' = Trusted
  BY DEF Trusted, Known
<1> QED BY <1>1 DEF NoLogin, LoginMeetsTrustedKey, TrustNamesScannedHost

(* An invocation begins, with the records as they are, and will not write  *)
(* about what stays settled; the others are no longer alone.               *)
LEMMA BeginCallStep ==
  ASSUME SshIInv, NEW c \in SshCaller, NEW r \in Loading \cup Editing, BeginCall(c, r),
         r.loaded = targets, r.alone = (Busy = {}), r.at # "edit" => targets[r.target].host \in Host,
         settled' \subseteq settled,
         r.at # "login" => r.target \notin settled',
         r.at = "scan" => \A t \in settled' : targets[t].host # targets[r.target].host,
         UNCHANGED <<hostKey, targets, knownHosts, scanned>>
  PROVE  SshIInv'
<1>1. /\ calls[c] = NoCall /\ login' = NoLogin /\ calls'[c] = r
      /\ \A d \in SshCaller : d # c =>
           calls'[d] = IF d \in Busy THEN [calls[d] EXCEPT !.alone = FALSE] ELSE calls[d]
  BY DEF BeginCall
<1>2. r \in Call /\ r.at \in {"login", "scan", "edit"}
  BY DEF Call, Loading, Editing
<1>3. ASSUME NEW d \in Busy
      PROVE  /\ calls'[d] \in Call /\ d # c /\ d \in SshCaller
             /\ calls'[d].at = calls[d].at /\ calls'[d].alone = FALSE
             /\ calls'[d].target = calls[d].target /\ calls'[d].loaded = calls[d].loaded
             /\ calls[d].at \in {"read", "pin", "save"} => calls'[d].key = calls[d].key
             /\ calls[d].at = "pin" => calls'[d].lines = calls[d].lines
  <2>1. calls[d] \in Call /\ d # c /\ d \in SshCaller
    BY <1>1 DEF SshIInv, CallsOK, Busy
  <2>2. calls'[d] = [calls[d] EXCEPT !.alone = FALSE]
    BY <1>1, <2>1
  <2> QED BY <2>1, <2>2, NotAloneFacts
<1>4. /\ calls' \in [SshCaller -> {NoCall} \cup Call]
      /\ Busy' = Busy \cup {c}
  <2>1. \A d \in SshCaller : d \notin Busy /\ d # c => calls'[d] = NoCall
    BY <1>1 DEF Busy
  <2>2. \A q \in Call : q # NoCall
    BY DEF Call, Loading, Editing, Scanned, Pinning, NoCall
  <2>3. \A d \in SshCaller :
          \/ d \notin Busy /\ d # c /\ calls'[d] = NoCall
          \/ d \in Busy \cup {c} /\ calls'[d] \in Call
    BY <1>1, <1>2, <1>3, <2>1
  <2>4. calls' = [d \in SshCaller |-> calls'[d]]
    BY DEF BeginCall
  <2>5. \A d \in Busy : d \in SshCaller
    BY DEF Busy
  <2> QED BY <2>2, <2>3, <2>4, <2>5 DEF Busy
<1>5. HostOf(c)' = targets[r.target].host /\ \A d \in Busy : HostOf(d)' = HostOf(d)
  BY <1>1, <1>3 DEF HostOf
<1>6. CallsOK'
  <2>1. \A d \in Busy' : calls'[d].at # "edit" => HostOf(d)' \in Host
    BY <1>1, <1>3, <1>4, <1>5 DEF SshIInv, CallsOK
  <2> QED BY <1>4, <2>1 DEF CallsOK
<1>7. SshTypeOK' /\ LoginMeetsTrustedKey'
  <2>1. SshTypeOK'
    BY DEF SshIInv, SshTypeOK
  <2> QED BY <1>1, <2>1, SameRecords DEF SshIInv
<1>8. ScannedOnly'
  <2>1. ASSUME NEW d \in Busy' PROVE WritesScanned(d)'
    <3>1. CASE d = c
      BY <1>1, <1>2, <3>1 DEF SshIInv, WritesScanned, LoginMeetsTrustedKey, TrustNamesScannedHost, Trusted, Known
    <3>2. CASE d \in Busy
      BY <1>3, <1>5, <3>2 DEF SshIInv, ScannedOnly, WritesScanned
    <3> QED BY <1>4, <3>1, <3>2
  <2> QED BY <2>1 DEF SshIInv, ScannedOnly
<1>9. SettledLines'
  <2>1. ASSUME NEW d \in Busy', NEW t \in settled' PROVE Spares(d, t)'
    <3>1. CASE d = c
      BY <1>1, <1>2, <1>5, <3>1 DEF Spares
    <3>2. CASE d \in Busy
      <4>1. Spares(d, t)
        BY <3>2 DEF SshIInv, SettledLines
      <4> QED BY <1>3, <1>5, <3>2, <4>1 DEF Spares
    <3> QED BY <1>4, <3>1, <3>2
  <2> QED BY <2>1 DEF SshIInv, SettledLines
<1>10. AloneInv'
  <2>1. ASSUME NEW d \in Busy' PROVE KnowsFiles(d)'
    <3>1. CASE d = c
      BY <1>1, <1>2, <1>4, <3>1 DEF KnowsFiles
    <3>2. CASE d \in Busy
      BY <1>3, <1>5, <3>2 DEF SshIInv, AloneInv, KnowsFiles
    <3> QED BY <1>4, <3>1, <3>2
  <2> QED BY <2>1 DEF AloneInv
<1> QED BY <1>6, <1>7, <1>8, <1>9, <1>10 DEF SshIInv

(* An add or a remove drops its target from what is settled, a trust the   *)
(* targets of its host; a login drops none.                                *)
LEMMA BeginEditStep ==
  ASSUME SshIInv, NEW c \in SshCaller, NEW t \in Target, NEW h \in Host \cup {NoHost}, BeginEdit(c, t, h)
  PROVE  SshIInv'
<1> DEFINE r == [at |-> "edit", target |-> t, loaded |-> targets, alone |-> Busy = {}, to |-> h]
<1>1. targets \in [Target -> TargetRecord]
  BY DEF SshIInv, SshTypeOK, TargetRecord
<1>2. r \in Editing /\ r.at = "edit" /\ r.loaded = targets /\ r.target = t /\ r.alone = (Busy = {})
  BY <1>1 DEF Editing
<1>3. BeginCall(c, r) /\ settled' = settled \ {t} /\ UNCHANGED <<hostKey, targets, knownHosts, scanned>>
  BY DEF BeginEdit
<1> HIDE DEF r
<1> QED BY <1>2, <1>3, BeginCallStep

LEMMA LoadForTrustStep ==
  ASSUME SshIInv, NEW c \in SshCaller, NEW t \in Target, LoadForTrust(c, t)
  PROVE  SshIInv'
<1>1. targets \in [Target -> TargetRecord] /\ targets[t].host \in Host
  BY DEF SshIInv, SshTypeOK, TargetRecord, LoadForTrust, Known
<1>2. /\ Load(t, "scan") \in Loading /\ Load(t, "scan").at = "scan" /\ Load(t, "scan").loaded = targets
      /\ Load(t, "scan").target = t /\ Load(t, "scan").alone = (Busy = {})
  BY <1>1 DEF Loading, Load
<1>3. /\ BeginCall(c, Load(t, "scan")) /\ settled' = settled \ SameHost(targets[t].host)
      /\ UNCHANGED <<hostKey, targets, knownHosts, scanned>>
  BY DEF LoadForTrust
<1>4. \A u \in settled' : u \in settled /\ u # t /\ targets[u].host # targets[t].host
  BY <1>3 DEF SshIInv, SshTypeOK, SameHost
<1> QED BY <1>1, <1>2, <1>3, <1>4, BeginCallStep

LEMMA LoadForLoginStep ==
  ASSUME SshIInv, NEW c \in SshCaller, NEW t \in Target, LoadForLogin(c, t)
  PROVE  SshIInv'
<1>1. targets \in [Target -> TargetRecord] /\ targets[t].host \in Host
  BY DEF SshIInv, SshTypeOK, TargetRecord, LoadForLogin, Trusted, Known
<1>2. /\ Load(t, "login") \in Loading /\ Load(t, "login").at = "login" /\ Load(t, "login").loaded = targets
      /\ Load(t, "login").target = t /\ Load(t, "login").alone = (Busy = {})
  BY <1>1 DEF Loading, Load
<1>3. /\ BeginCall(c, Load(t, "login")) /\ settled' = settled
      /\ UNCHANGED <<hostKey, targets, knownHosts, scanned>>
  BY DEF LoadForLogin
<1> QED BY <1>1, <1>2, <1>3, BeginCallStep

(* An invocation ends without having written: what it knew goes with it.   *)
LEMMA EndStep ==
  ASSUME SshIInv, NEW c \in Busy, calls' = [calls EXCEPT ![c] = NoCall],
         UNCHANGED <<hostKey, targets, knownHosts, scanned, settled>>
  PROVE  /\ SshTypeOK' /\ CallsOK' /\ ScannedOnly' /\ SettledLines' /\ AloneInv'
<1>1. /\ CallsOK' /\ Busy' = Busy \ {c}
      /\ \A d \in Busy' : d \in Busy /\ calls'[d] = calls[d] /\ HostOf(d)' = HostOf(d)
  BY GoAway DEF SshIInv
<1>2. SshTypeOK'
  BY DEF SshIInv, SshTypeOK
<1>3. ScannedOnly'
  BY <1>1 DEF SshIInv, ScannedOnly, WritesScanned
<1>4. SettledLines'
  BY <1>1 DEF SshIInv, SettledLines, Spares
<1>5. AloneInv'
  <2>1. ASSUME NEW d \in Busy' PROVE KnowsFiles(d)'
    BY <1>1 DEF SshIInv, AloneInv, KnowsFiles
  <2> QED BY <2>1 DEF AloneInv
<1> QED BY <1>1, <1>2, <1>3, <1>4, <1>5

LEMMA KillCallStep ==
  ASSUME SshIInv, NEW c \in SshCaller, KillCall(c)
  PROVE  SshIInv'
<1>1. /\ c \in Busy /\ calls' = [calls EXCEPT ![c] = NoCall] /\ login' = NoLogin
      /\ UNCHANGED <<hostKey, targets, knownHosts, scanned, settled>>
  BY DEF KillCall, Busy
<1> QED BY <1>1, EndStep, SameRecords DEF SshIInv

(* A scan that is not the expected key's ends the trust; one that is goes  *)
(* on with the key, which is on record as scanned.                         *)
LEMMA ScanHostStep ==
  ASSUME SshIInv, NEW c \in SshCaller, ScanHost(c)
  PROVE  SshIInv'
<1> DEFINE h == HostOf(c)
           r == [at |-> "read", target |-> calls[c].target, loaded |-> calls[c].loaded,
                 alone |-> calls[c].alone, key |-> hostKey[h]]
<1>1. calls[c].at = "scan" /\ UNCHANGED <<hostKey, targets, knownHosts, settled>> /\ login' = NoLogin
  BY DEF ScanHost
<1>2. c \in Busy /\ h \in Host /\ hostKey[h] \in HostKey /\ calls[c] \in Loading
  BY <1>1, CallFacts DEF SshIInv, SshTypeOK, CallsOK
<1>3. r \in Scanned /\ r.at = "read" /\ r.target = calls[c].target /\ r.loaded = calls[c].loaded
      /\ r.alone = calls[c].alone /\ r.key = hostKey[h]
  BY <1>2 DEF Loading, Scanned
<1>4. \/ calls' = [calls EXCEPT ![c] = r] /\ scanned' = scanned \cup {<<h, hostKey[h]>>}
      \/ calls' = [calls EXCEPT ![c] = NoCall] /\ UNCHANGED scanned
  BY <1>2 DEF ScanHost, HostOf
<1> HIDE DEF h, r
<1>5. CASE calls' = [calls EXCEPT ![c] = NoCall] /\ UNCHANGED scanned
  BY <1>1, <1>2, <1>5, EndStep, SameRecords DEF SshIInv
<1>6. CASE calls' = [calls EXCEPT ![c] = r] /\ scanned' = scanned \cup {<<h, hostKey[h]>>}
  <2>1. /\ CallsOK' /\ Busy' = Busy /\ calls'[c] = r
        /\ \A d \in SshCaller : d # c => calls'[d] = calls[d]
        /\ \A d \in SshCaller : HostOf(d)' = HostOf(d)
    BY <1>2, <1>3, <1>6, GoOn DEF SshIInv, h
  <2>2. SshTypeOK' /\ LoginMeetsTrustedKey'
    BY <1>1, <1>2, <1>6, SameRecords DEF SshIInv, SshTypeOK
  <2>3. ScannedOnly'
    <3>1. <<h, hostKey[h]>> \in scanned' /\ scanned \subseteq scanned'
      BY <1>6
    <3>2. \A k \in Host : \A x \in knownHosts'[k] : <<k, x>> \in scanned'
      BY <1>1, <3>1 DEF SshIInv, ScannedOnly
    <3>3. ASSUME NEW d \in Busy PROVE WritesScanned(d)'
      <4>1. CASE d = c
        BY <1>3, <2>1, <3>1, <4>1 DEF SshIInv, ScannedOnly, WritesScanned, h
      <4>2. CASE d # c
        BY <2>1, <3>1, <4>2 DEF SshIInv, ScannedOnly, WritesScanned, Busy
      <4> QED BY <4>1, <4>2
    <3> QED BY <2>1, <3>2, <3>3 DEF ScannedOnly
  <2>4. SettledLines'
    <3>1. ASSUME NEW d \in Busy, NEW t \in settled PROVE Spares(d, t)'
      BY <1>1, <1>3, <2>1 DEF SshIInv, SettledLines, Spares, Busy
    <3> QED BY <1>1, <2>1, <3>1 DEF SshIInv, SettledLines
  <2>5. AloneInv'
    <3>1. ASSUME NEW d \in Busy PROVE KnowsFiles(d)'
      BY <1>1, <1>3, <2>1 DEF SshIInv, AloneInv, KnowsFiles, Busy
    <3> QED BY <2>1, <3>1 DEF AloneInv
  <2> QED BY <2>1, <2>2, <2>3, <2>4, <2>5 DEF SshIInv
<1> QED BY <1>4, <1>5, <1>6

(* What is about to be written to known_hosts are the scanned lines as     *)
(* they stand, but for the host of the trust, which is no settled one's.   *)
LEMMA ReadKnownHostsStep ==
  ASSUME SshIInv, NEW c \in SshCaller, ReadKnownHosts(c)
  PROVE  SshIInv'
<1> DEFINE h == HostOf(c)
           lines == PinnedAlone(knownHosts, h, calls[c].key)
           r == [at |-> "pin", target |-> calls[c].target, loaded |-> calls[c].loaded,
                 alone |-> calls[c].alone, key |-> calls[c].key, lines |-> lines]
<1>1. calls[c].at = "read" /\ UNCHANGED <<hostKey, targets, knownHosts, scanned, settled>> /\ login' = NoLogin
  BY DEF ReadKnownHosts
<1>2. c \in Busy /\ h \in Host /\ calls[c].key \in HostKey /\ calls[c] \in Scanned
  BY <1>1, CallFacts DEF SshIInv
<1>3. lines \in [Host -> SUBSET HostKey] /\ lines[h] = {calls[c].key}
      /\ \A k \in Host : k # h => lines[k] = knownHosts[k]
  BY <1>2 DEF SshIInv, SshTypeOK, PinnedAlone
<1>4. calls' = [calls EXCEPT ![c] = r]
  BY <1>2 DEF ReadKnownHosts, HostOf, SshIInv, CallsOK
<1> HIDE DEF lines, h
<1>5. r \in Pinning /\ r.at = "pin" /\ r.target = calls[c].target /\ r.loaded = calls[c].loaded
      /\ r.alone = calls[c].alone /\ r.key = calls[c].key /\ r.lines = lines
  BY <1>2, <1>3 DEF Scanned, Pinning
<1> HIDE DEF r
<1>6. /\ CallsOK' /\ Busy' = Busy /\ calls'[c] = r
      /\ \A d \in SshCaller : d # c => calls'[d] = calls[d]
      /\ \A d \in SshCaller : HostOf(d)' = HostOf(d)
  BY <1>2, <1>4, <1>5, GoOn DEF SshIInv, h
<1>7. SshTypeOK' /\ LoginMeetsTrustedKey'
  BY <1>1, SameRecords DEF SshIInv, SshTypeOK
<1>8. ScannedOnly'
  <2>1. \A k \in Host : \A x \in knownHosts[k] : <<k, x>> \in scanned
    BY DEF SshIInv, ScannedOnly
  <2>2. <<h, calls[c].key>> \in scanned
    BY <1>1, <1>2 DEF SshIInv, ScannedOnly, WritesScanned, h
  <2>3. \A k \in Host : \A x \in lines[k] : <<k, x>> \in scanned
    BY <1>3, <2>1, <2>2
  <2>4. ASSUME NEW d \in Busy PROVE WritesScanned(d)'
    <3>1. CASE d = c
      BY <1>1, <1>2, <1>5, <1>6, <2>2, <2>3, <3>1 DEF SshIInv, ScannedOnly, WritesScanned, h
    <3>2. CASE d # c
      BY <1>1, <1>6, <3>2 DEF SshIInv, ScannedOnly, WritesScanned, Busy
    <3> QED BY <3>1, <3>2
  <2> QED BY <1>1, <1>6, <2>1, <2>4 DEF ScannedOnly
<1>9. SettledLines'
  <2>1. ASSUME NEW d \in Busy, NEW t \in settled PROVE Spares(d, t)'
    <3>1. targets[t].host \in Host /\ knownHosts[targets[t].host] = {targets[t].fingerprint} /\ Spares(d, t)
      BY DEF SshIInv, SettledLines
    <3>2. CASE d = c
      BY <1>1, <1>3, <1>5, <1>6, <3>1, <3>2 DEF Spares, h, Busy
    <3>3. CASE d # c
      BY <1>1, <1>6, <3>1, <3>3 DEF Spares, Busy
    <3> QED BY <3>2, <3>3
  <2> QED BY <1>1, <1>6, <2>1 DEF SshIInv, SettledLines
<1>10. AloneInv'
  <2>1. ASSUME NEW d \in Busy PROVE KnowsFiles(d)'
    BY <1>1, <1>3, <1>5, <1>6 DEF SshIInv, AloneInv, KnowsFiles, Busy, h
  <2> QED BY <1>6, <2>1 DEF AloneInv
<1> QED BY <1>6, <1>7, <1>8, <1>9, <1>10 DEF SshIInv

(* known_hosts becomes what this trust had read with its own line, and the *)
(* settled targets' lines are the same in it.                              *)
LEMMA PinKeyStep ==
  ASSUME SshIInv, NEW c \in SshCaller, PinKey(c)
  PROVE  SshIInv'
<1> DEFINE r == [at |-> "save", target |-> calls[c].target, loaded |-> calls[c].loaded,
                 alone |-> calls[c].alone, key |-> calls[c].key]
<1>1. calls[c].at = "pin" /\ UNCHANGED <<hostKey, targets, scanned, settled>> /\ login' = NoLogin
      /\ knownHosts' = calls[c].lines
  BY DEF PinKey
<1>2. c \in Busy /\ HostOf(c) \in Host /\ calls[c] \in Pinning
      /\ knownHosts' \in [Host -> SUBSET HostKey]
  BY <1>1, CallFacts DEF SshIInv, CallsOK
<1>3. calls' = [calls EXCEPT ![c] = r]
  BY <1>2 DEF PinKey, SshIInv, CallsOK
<1>4. r \in Scanned /\ r.at = "save" /\ r.target = calls[c].target /\ r.loaded = calls[c].loaded
      /\ r.alone = calls[c].alone /\ r.key = calls[c].key
  BY <1>2 DEF Scanned, Pinning
<1> HIDE DEF r
<1>5. /\ CallsOK' /\ Busy' = Busy /\ calls'[c] = r
      /\ \A d \in SshCaller : d # c => calls'[d] = calls[d]
      /\ \A d \in SshCaller : HostOf(d)' = HostOf(d)
  BY <1>2, <1>3, <1>4, GoOn DEF SshIInv
<1>6. SshTypeOK' /\ LoginMeetsTrustedKey'
  BY <1>1, <1>2, SameRecords DEF SshIInv, SshTypeOK
<1>7. ScannedOnly'
  <2>1. \A k \in Host : \A x \in knownHosts'[k] : <<k, x>> \in scanned
    BY <1>1, <1>2 DEF SshIInv, ScannedOnly, WritesScanned
  <2>2. ASSUME NEW d \in Busy PROVE WritesScanned(d)'
    BY <1>1, <1>4, <1>5 DEF SshIInv, ScannedOnly, WritesScanned, Busy
  <2> QED BY <1>1, <1>5, <2>1, <2>2 DEF ScannedOnly
<1>8. SettledLines'
  <2>1. ASSUME NEW d \in Busy, NEW t \in settled PROVE Spares(d, t)'
    BY <1>1, <1>4, <1>5 DEF SshIInv, SettledLines, Spares, Busy
  <2>2. \A t \in settled : targets[t].host \in Host /\ knownHosts'[targets[t].host] = {targets[t].fingerprint}
    BY <1>1, <1>2 DEF SshIInv, SettledLines, Spares
  <2> QED BY <1>1, <1>5, <2>1, <2>2 DEF SettledLines
<1>9. AloneInv'
  <2>1. ASSUME NEW d \in Busy PROVE KnowsFiles(d)'
    <3>1. CASE d = c
      BY <1>1, <1>2, <1>4, <1>5, <3>1 DEF SshIInv, AloneInv, KnowsFiles, Busy
    <3>2. CASE d # c
      BY <1>1, <1>2, <1>5, <3>2 DEF SshIInv, AloneInv, KnowsFiles, Busy
    <3> QED BY <3>1, <3>2
  <2> QED BY <1>5, <2>1 DEF AloneInv
<1> QED BY <1>5, <1>6, <1>7, <1>8, <1>9 DEF SshIInv

(* The records become those that this invocation had loaded, but for its   *)
(* own.  What is settled by others was loaded as it was, and stays; what   *)
(* this one settles ran beside nothing.                                    *)
LEMMA SaveStep ==
  ASSUME SshIInv, NEW c \in Busy, calls[c].at \in {"edit", "save"},
         calls' = [calls EXCEPT ![c] = NoCall], login' = NoLogin,
         UNCHANGED <<hostKey, knownHosts, scanned>>,
         NEW r \in TargetRecord, targets' = [calls[c].loaded EXCEPT ![calls[c].target] = r],
         r.host # NoHost /\ r.fingerprint # NoKey => <<r.host, r.fingerprint>> \in scanned,
         \/ settled' = settled
         \/ /\ settled' = settled \cup {calls[c].target} /\ calls[c].alone
            /\ r.host \in Host /\ r.fingerprint \in HostKey /\ knownHosts[r.host] = {r.fingerprint}
  PROVE  SshIInv'
<1> DEFINE tg == calls[c].target
           loaded == calls[c].loaded
<1>1. tg \in Target /\ loaded \in [Target -> TargetRecord] /\ c \in SshCaller
  BY CallFacts DEF SshIInv, Busy
<1>2. /\ CallsOK' /\ Busy' = Busy \ {c}
      /\ \A d \in Busy' : d \in Busy /\ calls'[d] = calls[d] /\ HostOf(d)' = HostOf(d)
  BY GoAway DEF SshIInv
<1>3. \A t \in Target : loaded[t].host # NoHost /\ loaded[t].fingerprint # NoKey =>
          <<loaded[t].host, loaded[t].fingerprint>> \in scanned
  BY DEF SshIInv, ScannedOnly, WritesScanned
<1>4. calls[c].alone => Busy = {c}
  BY DEF SshIInv, AloneInv, KnowsFiles
<1>5. \A t \in settled : /\ t \in Target /\ loaded[t] = targets[t] /\ t # tg
                         /\ targets[t].host \in Host /\ t \in Trusted
                         /\ knownHosts[targets[t].host] = {targets[t].fingerprint}
  BY DEF SshIInv, SettledLines, Spares, SshTypeOK, LoginMeetsTrustedKey
<1> HIDE DEF tg, loaded
<1>6. /\ targets' \in [Target -> TargetRecord] /\ targets'[tg] = r
      /\ \A t \in Target : t # tg => targets'[t] = loaded[t]
      /\ settled' \subseteq Target
  BY <1>1, <1>5 DEF tg, loaded
<1>7. SshTypeOK'
  BY <1>6 DEF SshIInv, SshTypeOK, TargetRecord
<1>8. ScannedOnly'
  BY <1>2 DEF SshIInv, ScannedOnly, WritesScanned
<1>9. \A t \in settled : targets'[t] = targets[t]
  BY <1>5, <1>6
<1>10. SettledLines' /\ settled' \subseteq Trusted'
  <2>1. CASE settled' = settled
    <3>1. \A d \in Busy', t \in settled : Spares(d, t)'
      BY <1>2, <1>9 DEF SshIInv, SettledLines, Spares
    <3>2. settled \subseteq Trusted'
      BY <1>5, <1>9 DEF Trusted, Known
    <3> QED BY <1>5, <1>9, <2>1, <3>1, <3>2 DEF SettledLines
  <2>2. CASE /\ settled' = settled \cup {tg} /\ calls[c].alone
             /\ r.host \in Host /\ r.fingerprint \in HostKey /\ knownHosts[r.host] = {r.fingerprint}
    <3>1. Busy' = {}
      BY <1>2, <1>4, <2>2
    <3>2. \A t \in settled' : /\ targets'[t].host \in Host
                              /\ knownHosts[targets'[t].host] = {targets'[t].fingerprint}
      BY <1>5, <1>6, <1>9, <2>2
    <3>3. settled' \subseteq Trusted'
      BY <1>1, <1>5, <1>6, <1>9, <2>2, SshNoneAssumption DEF Trusted, Known
    <3> QED BY <3>1, <3>2, <3>3 DEF SettledLines
  <2> QED BY <2>1, <2>2 DEF tg
<1>11. AloneInv'
  <2>1. ASSUME NEW d \in Busy' PROVE ~calls[d].alone
    BY <1>2, <2>1 DEF SshIInv, AloneInv, KnowsFiles
  <2>2. ASSUME NEW d \in Busy' PROVE KnowsFiles(d)'
    BY <1>2, <2>1, <2>2 DEF SshIInv, AloneInv, KnowsFiles
  <2> QED BY <2>2 DEF AloneInv
<1>12. LoginMeetsTrustedKey'
  BY <1>3, <1>6, <1>10 DEF LoginMeetsTrustedKey, TrustNamesScannedHost, Trusted, Known, NoLogin
<1> QED BY <1>2, <1>7, <1>8, <1>10, <1>11, <1>12 DEF SshIInv

LEMMA SaveEditedStep ==
  ASSUME SshIInv, NEW c \in SshCaller, SaveEdited(c)
  PROVE  SshIInv'
<1>1. c \in Busy /\ calls[c].to \in Host \cup {NoHost}
  BY CallFacts DEF SaveEdited, SshIInv
<1>2. NewRecord(calls[c].to) \in TargetRecord /\ NewRecord(calls[c].to).fingerprint = NoKey
  BY <1>1 DEF NewRecord, TargetRecord
<1> QED BY <1>1, <1>2, SaveStep DEF SaveEdited

LEMMA SaveTrustedStep ==
  ASSUME SshIInv, NEW c \in SshCaller, SaveTrusted(c)
  PROVE  SshIInv'
<1> DEFINE tg == calls[c].target
           r == [calls[c].loaded[tg] EXCEPT !.fingerprint = calls[c].key]
<1>1. calls[c].at = "save"
  BY DEF SaveTrusted
<1>2. /\ c \in Busy /\ tg \in Target /\ calls[c].loaded \in [Target -> TargetRecord]
      /\ HostOf(c) \in Host /\ calls[c].key \in HostKey
  BY <1>1, CallFacts DEF SshIInv
<1>3. r \in TargetRecord /\ r.host = HostOf(c) /\ r.fingerprint = calls[c].key
  BY <1>2 DEF TargetRecord, HostOf
<1>4. targets' = [calls[c].loaded EXCEPT ![tg] = r]
  BY <1>2 DEF SaveTrusted, TrustedRecords
<1>5. <<HostOf(c), calls[c].key>> \in scanned
  BY <1>1, <1>2 DEF SshIInv, ScannedOnly, WritesScanned
<1>6. calls[c].alone => knownHosts[HostOf(c)] = {calls[c].key}
  BY <1>1, <1>2 DEF SshIInv, AloneInv, KnowsFiles
<1>7. /\ calls' = [calls EXCEPT ![c] = NoCall] /\ login' = NoLogin
      /\ UNCHANGED <<hostKey, knownHosts, scanned>>
      /\ settled' = IF calls[c].alone THEN settled \cup {tg} ELSE settled
  BY DEF SaveTrusted
<1> HIDE DEF r
<1> QED BY <1>1, <1>2, <1>3, <1>4, <1>5, <1>6, <1>7, SaveStep

(* A login meets a key of the host's known_hosts line, which for a settled *)
(* target is the one its record, loaded as it still is, names.             *)
LEMMA LoginStep ==
  ASSUME SshIInv, NEW c \in SshCaller, Login(c)
  PROVE  SshIInv'
<1> DEFINE t == calls[c].target
           r == calls[c].loaded[t]
<1>1. /\ calls[c].at = "login" /\ calls' = [calls EXCEPT ![c] = NoCall]
      /\ UNCHANGED <<hostKey, targets, knownHosts, scanned, settled>>
  BY DEF Login
<1>2. c \in Busy /\ r.host \in Host
  BY <1>1, CallFacts DEF SshIInv, HostOf
<1>3. SshTypeOK' /\ CallsOK' /\ ScannedOnly' /\ SettledLines' /\ AloneInv'
  BY <1>1, <1>2, EndStep
<1>4. TrustNamesScannedHost' /\ settled' \subseteq Trusted'
  BY <1>1 DEF SshIInv, LoginMeetsTrustedKey, TrustNamesScannedHost, Trusted, Known
<1>5. CASE AcceptsKey(r.host)
  <2>1. /\ login'.host = r.host /\ login'.key = hostKey[r.host]
        /\ login'.trusted = r.fingerprint /\ login'.settled = (t \in settled)
    BY <1>5 DEF Login
  <2>2. hostKey[r.host] \in knownHosts[r.host]
    BY <1>5 DEF AcceptsKey
  <2>3. <<login'.host, login'.key>> \in scanned'
    BY <1>1, <1>2, <2>1, <2>2 DEF SshIInv, ScannedOnly
  <2>4. ASSUME t \in settled PROVE login'.key = login'.trusted
    <3>1. targets[t] = r /\ knownHosts[targets[t].host] = {targets[t].fingerprint}
      BY <1>2, <2>4 DEF SshIInv, SettledLines, Spares
    <3> QED BY <2>1, <2>2, <3>1
  <2> HIDE DEF t, r
  <2>5. login'.settled => login'.key = login'.trusted
    BY <2>1, <2>4
  <2>6. LoginMeetsTrustedKey'
    BY <1>4, <2>3, <2>5 DEF LoginMeetsTrustedKey
  <2> QED BY <1>3, <2>6 DEF SshIInv
<1>6. CASE ~AcceptsKey(r.host)
  <2>1. login' = NoLogin
    BY <1>6, Zenon DEF Login
  <2>2. login'.host = NoHost
    BY <2>1 DEF NoLogin
  <2>3. LoginMeetsTrustedKey'
    BY <1>4, <2>2 DEF LoginMeetsTrustedKey
  <2> QED BY <1>3, <2>3 DEF SshIInv
<1> QED BY <1>3, <1>5, <1>6 DEF SshIInv

(* Nothing that is kept depends on the keys hosts present.                 *)
LEMMA SameFiles ==
  ASSUME SshIInv, UNCHANGED <<targets, knownHosts, calls, scanned, settled>>, hostKey' \in [Host -> HostKey],
         login' \in {login, NoLogin}
  PROVE  SshIInv'
<1>1. SshTypeOK' /\ LoginMeetsTrustedKey'
  BY DEF SshIInv, SshTypeOK, LoginMeetsTrustedKey, TrustNamesScannedHost, Trusted, Known, NoLogin
<1>2. Busy' = Busy /\ \A c \in SshCaller : HostOf(c)' = HostOf(c)
  BY DEF Busy, HostOf
<1>3. CallsOK'
  BY <1>2 DEF SshIInv, CallsOK, Busy
<1>4. ScannedOnly' /\ SettledLines' /\ AloneInv'
  BY <1>2 DEF SshIInv, ScannedOnly, SettledLines, AloneInv, WritesScanned, Spares, KnowsFiles, Busy
<1> QED BY <1>1, <1>3, <1>4 DEF SshIInv

LEMMA ChangeHostKeyStep ==
  ASSUME SshIInv, NEW h \in Host, ChangeHostKey(h)
  PROVE  SshIInv'
<1>1. UNCHANGED <<targets, knownHosts, calls, scanned, settled>> /\ login' = NoLogin
      /\ hostKey' \in [Host -> HostKey]
  BY DEF SshIInv, SshTypeOK, ChangeHostKey
<1> QED BY <1>1, SameFiles

LEMMA SshNextInv == SshIInv /\ [SshNext]_ssh_vars => SshIInv'
<1> SUFFICES ASSUME SshIInv, [SshNext]_ssh_vars PROVE SshIInv'
  OBVIOUS
<1>1. CASE SshNext
  BY <1>1, BeginEditStep, SaveEditedStep, LoadForLoginStep, LoginStep, LoadForTrustStep, ScanHostStep,
     ReadKnownHostsStep, PinKeyStep, SaveTrustedStep, KillCallStep, ChangeHostKeyStep
  DEF SshNext, LoadForAdd, LoadForRemove
<1>2. CASE UNCHANGED ssh_vars
  BY <1>2, SameFiles DEF ssh_vars, SshIInv, SshTypeOK
<1> QED BY <1>1, <1>2

(* The inductive invariant holds in every reachable state. *)
LEMMA SshInductive == SshSpec => []SshIInv
BY SshInitInv, SshNextInv, PTL DEF SshSpec

(* A record never says trusted of a key that was not scanned at its host;  *)
(* a target whose last trust ended undisturbed is not untrusted by what    *)
(* others add, remove and trust, and a login to it meets the key trusted.  *)
THEOREM LoginsMeetTrustedKeys == SshSpec => []LoginMeetsTrustedKey
<1>1. SshIInv => LoginMeetsTrustedKey
  BY DEF SshIInv
<1> QED BY <1>1, SshInductive, PTL

-----------------------------------------------------------------------------
(* Access levels: what is in a sequence of steps.                          *)

LEMMA SetToSeqHasAll ==
  ASSUME NEW S, IsFiniteSet(S)
  PROVE  SetToSeq(S) \in Seq(S) /\ \A e \in S : \E i \in DOMAIN SetToSeq(S) : SetToSeq(S)[i] = e
<1> DEFINE n == Cardinality(S)
<1>1. n \in Nat /\ ExistsBijection(1..n, S)
  BY FS_CardinalityType
<1>2. \E f \in [1..n -> S] : IsInjective(f)
  BY <1>1 DEF ExistsBijection, Bijection, Injection
<1>3. PICK q : q = SetToSeq(S)
  OBVIOUS
<1>4. q \in [1..n -> S] /\ IsInjective(q)
  BY <1>2, <1>3 DEF SetToSeq
<1>5. q \in Injection(1..n, S)
  BY <1>4 DEF Injection
<1>6. Cardinality(1..n) = n
  BY <1>1, FS_Interval
<1> HIDE DEF n
<1>7. q \in Surjection(1..n, S)
  BY <1>5, <1>6, FS_Injection DEF n
<1>8. \A e \in S : \E i \in 1..n : q[i] = e
  BY <1>7 DEF Surjection
<1>9. q \in Seq(S) /\ DOMAIN q = 1..n
  BY <1>1, <1>4
<1> QED BY <1>3, <1>8, <1>9

LEMMA EnvFiles == Spawner \in EnvFile /\ Bot \in EnvFile /\ Spawner # Bot /\ Spawner \notin Profile /\ Bot \notin Profile
BY AccessAssumption DEF EnvFile, Spawner, Bot

LEMMA NoCommandFacts ==
  /\ NoCommand.cmd = "none" /\ NoCommand.todo = <<>> /\ NoCommand.reg = "off" /\ NoCommand.alone = TRUE
BY DEF NoCommand

(* Each step belongs to a kind of command and names a file it can name.    *)
LEMMA KindsOfSteps ==
  ASSUME NEW cmd, NEW step \in StepsOf(cmd)
  PROVE  /\ cmd \in {"enable", "disable", "setup", "connect", "start"}
         /\ step[1] = "set" => cmd = "enable" /\ step[2] \in EnvFile /\ step = <<"set", step[2]>>
         /\ step[1] = "clear" => cmd = "disable" /\ step[2] \in EnvFile /\ step = <<"clear", step[2]>>
         /\ step[1] = "each" => \/ cmd = "enable" /\ step = <<"each", "set">>
                                \/ cmd = "disable" /\ step = <<"each", "clear">>
         /\ step[1] = "audit" => \/ cmd = "enable" /\ step = <<"audit", "configured">>
                                 \/ cmd = "disable" /\ step = <<"audit", "disabled">>
         /\ step[1] \in {"preserve", "read", "overlay", "write", "record", "refresh"} =>
              cmd \in {"setup", "connect", "start"} /\ step[2] \in EnvFile
         /\ step[1] \in {"preserve", "read"} => step[2] \in {Spawner, Bot}
         /\ step[1] = "refresh" => cmd = "setup"
         /\ step[1] = "name" => cmd = "connect" /\ step[2] \in Profile
<1>1. CASE cmd = "enable"
  BY <1>1 DEF StepsOf
<1>2. CASE cmd = "disable"
  BY <1>2 DEF StepsOf
<1>3. CASE cmd = "setup"
  BY <1>3, EnvFiles DEF StepsOf
<1>4. CASE cmd = "connect"
  BY <1>4, EnvFiles DEF StepsOf
<1>5. CASE cmd = "start"
  BY <1>5, EnvFiles DEF StepsOf
<1>6. CASE cmd \notin {"enable", "disable", "setup", "connect", "start"}
  BY <1>6 DEF StepsOf
<1> QED BY <1>1, <1>2, <1>3, <1>4, <1>5, <1>6

(* A command with a step left. *)
LEMMA CallerFacts ==
  ASSUME CallersOK, NEW c \in Caller, caller[c].todo # <<>>
  PROVE  /\ caller[c].cmd \in {"enable", "disable", "setup", "connect", "start"}
         /\ caller[c].todo \in Seq(StepsOf(caller[c].cmd)) /\ InOrder(caller[c].todo)
         /\ caller[c].reg \in {"on", "off"} /\ caller[c].alone \in BOOLEAN
         /\ caller[c] \in [cmd : {caller[c].cmd}, todo : Seq(StepsOf(caller[c].cmd)),
                           reg : {"on", "off"}, alone : BOOLEAN]
         /\ Head(caller[c].todo) \in StepsOf(caller[c].cmd)
         /\ Tail(caller[c].todo) \in Seq(StepsOf(caller[c].cmd)) /\ InOrder(Tail(caller[c].todo))
         /\ Head(caller[c].todo)[1] = "audit" => Tail(caller[c].todo) = <<>>
         /\ Tail(caller[c].todo) # <<>> /\ Head(Tail(caller[c].todo))[1] \in UsesLevel =>
              Head(caller[c].todo)[1] \in {"preserve", "read", "write", "overlay"}
<1>1. PICK cmd \in {"enable", "disable", "setup", "connect", "start"} :
        /\ caller[c] \in [cmd : {cmd}, todo : Seq(StepsOf(cmd)) \ {<<>>}, reg : {"on", "off"}, alone : BOOLEAN]
        /\ InOrder(caller[c].todo)
  BY NoCommandFacts DEF CallersOK
<1>2. PICK todo : todo = caller[c].todo
  OBVIOUS
<1>3. /\ caller[c].cmd = cmd /\ todo \in Seq(StepsOf(cmd)) /\ todo # <<>> /\ InOrder(todo)
      /\ caller[c].reg \in {"on", "off"} /\ caller[c].alone \in BOOLEAN
      /\ caller[c] \in [cmd : {cmd}, todo : Seq(StepsOf(cmd)), reg : {"on", "off"}, alone : BOOLEAN]
  BY <1>1, <1>2
<1>4. /\ Head(todo) \in StepsOf(cmd) /\ Tail(todo) \in Seq(StepsOf(cmd))
      /\ Len(todo) \in Nat /\ Len(todo) >= 1 /\ Head(todo) = todo[1]
      /\ Len(Tail(todo)) = Len(todo) - 1 /\ \A i \in 1..(Len(todo) - 1) : Tail(todo)[i] = todo[i + 1]
  BY <1>3
<1>5. InOrder(Tail(todo))
  <2> SUFFICES ASSUME NEW i \in 2..Len(Tail(todo))
               PROVE  /\ Tail(todo)[i - 1][1] # "audit"
                      /\ Tail(todo)[i][1] \in UsesLevel =>
                           Tail(todo)[i - 1][1] \in {"preserve", "read", "write", "overlay"}
    BY DEF InOrder
  <2>1. Tail(todo)[i] = todo[i + 1] /\ Tail(todo)[i - 1] = todo[(i + 1) - 1] /\ i + 1 \in 2..Len(todo)
    BY <1>4
  <2> QED BY <1>3, <2>1 DEF InOrder
<1>6. Tail(todo) # <<>> => 2 \in 2..Len(todo) /\ todo[2 - 1] = Head(todo) /\ todo[2] = Head(Tail(todo))
  BY <1>3, <1>4
<1>7. /\ Head(todo)[1] = "audit" => Tail(todo) = <<>>
      /\ Tail(todo) # <<>> /\ Head(Tail(todo))[1] \in UsesLevel =>
           Head(todo)[1] \in {"preserve", "read", "write", "overlay"}
  BY <1>3, <1>6 DEF InOrder
<1> QED BY <1>2, <1>3, <1>4, <1>5, <1>7

LEMMA DueLater ==
  ASSUME NEW cmd, NEW todo \in Seq(StepsOf(cmd)), todo # <<>>, NEW operation, NEW f, StillDue(todo, operation, f)
  PROVE  \/ Head(todo) = <<operation, f>> \/ (f # Spawner /\ Head(todo) = <<"each", operation>>)
         \/ StillDue(Tail(todo), operation, f)
<1>1. PICK i \in DOMAIN todo : todo[i] = <<operation, f>> \/ (f # Spawner /\ todo[i] = <<"each", operation>>)
  BY DEF StillDue
<1>2. Head(todo) = todo[1] /\ i \in 1..Len(todo)
      /\ DOMAIN Tail(todo) = 1..(Len(todo) - 1) /\ \A j \in 1..(Len(todo) - 1) : Tail(todo)[j] = todo[j + 1]
  OBVIOUS
<1>3. CASE i = 1
  BY <1>1, <1>2, <1>3
<1>4. CASE i # 1
  <2>1. i - 1 \in DOMAIN Tail(todo) /\ Tail(todo)[i - 1] = todo[i]
    BY <1>2, <1>4
  <2> QED BY <1>1, <2>1 DEF StillDue
<1> QED BY <1>3, <1>4

-----------------------------------------------------------------------------
(* A step of a command.                                                    *)

LEMMA CommandGoesOn ==
  ASSUME AccessIInv, NEW c \in Caller, caller[c].todo # <<>>,
         NEW todo \in Seq(StepsOf(caller[c].cmd)), InOrder(todo), NEW reg \in {"on", "off"},
         Continue(c, todo, reg)
  PROVE  /\ CallersOK' /\ AloneIsAlone'
         /\ \A d \in Caller : d # c => caller'[d] = caller[d]
         /\ \A d \in Caller : caller'[d].cmd \in {"none", caller[d].cmd}
         /\ todo = <<>> => caller'[c] = NoCommand
         /\ todo # <<>> => /\ caller'[c].todo = todo /\ caller'[c].reg = reg
                           /\ caller'[c].cmd = caller[c].cmd /\ caller'[c].alone = caller[c].alone
<1>1. /\ CallersOK /\ AloneIsAlone
  BY DEF AccessIInv
<1>2. /\ DOMAIN caller = Caller
  BY <1>1 DEF CallersOK
<1>3. PICK goes : goes = IF todo = <<>> THEN NoCommand ELSE [caller[c] EXCEPT !.todo = todo, !.reg = reg]
  OBVIOUS
<1>4. caller' = [caller EXCEPT ![c] = goes]
  BY <1>3 DEF Continue
<1>5. DOMAIN caller' = Caller /\ caller'[c] = goes /\ \A d \in Caller : d # c => caller'[d] = caller[d]
  BY <1>2, <1>4
<1>6. /\ caller[c].cmd \in {"enable", "disable", "setup", "connect", "start"}
      /\ caller[c] \in [cmd : {caller[c].cmd}, todo : Seq(StepsOf(caller[c].cmd)),
                        reg : {"on", "off"}, alone : BOOLEAN]
  BY <1>1, CallerFacts
<1>7. CASE todo = <<>>
  <2>1. goes = NoCommand /\ goes.cmd = "none"
    BY <1>3, <1>7, NoCommandFacts
  <2>2. CallersOK'
    BY <1>1, <1>5, <2>1 DEF CallersOK
  <2>3. AloneIsAlone'
    BY <1>1, <1>5, <2>1 DEF AloneIsAlone, Underway
  <2> QED BY <1>5, <1>7, <2>1, <2>2, <2>3
<1>8. CASE todo # <<>>
  <2>1. goes = [caller[c] EXCEPT !.todo = todo, !.reg = reg]
    BY <1>3, <1>8
  <2>2. goes.todo = todo /\ goes.reg = reg /\ goes.cmd = caller[c].cmd /\ goes.alone = caller[c].alone
    BY <1>6, <2>1
  <2>3. goes \in [cmd : {caller[c].cmd}, todo : Seq(StepsOf(caller[c].cmd)) \ {<<>>},
                 reg : {"on", "off"}, alone : BOOLEAN]
    BY <1>6, <1>8, <2>1
  <2>4. CallersOK'
    BY <1>1, <1>5, <1>6, <2>2, <2>3 DEF CallersOK
  <2>5. AloneIsAlone'
    BY <1>1, <1>5, <1>6, <2>2 DEF AloneIsAlone, Underway
  <2> QED BY <1>5, <1>8, <2>2, <2>4, <2>5
<1> QED BY <1>7, <1>8

(* What is left to be shown of a step other than the audit event.          *)
LEMMA AccessGoesOn ==
  ASSUME AccessIInv, NEW c \in Caller, caller[c].todo # <<>>,
         NEW todo \in Seq(StepsOf(caller[c].cmd)), InOrder(todo), NEW reg \in {"on", "off"},
         Continue(c, todo, reg), AccessTypeOK', UNCHANGED <<second, intent, audit>>,
         caller[c].alone /\ caller[c].cmd = "disable" =>
           \A f \in EnvFile : level5'[f] = "on" => StillDue(todo, "clear", f),
         caller[c].alone /\ caller[c].cmd = "enable" =>
           \A f \in EnvFile : (IF f \in Profile THEN level5'[f] = "off" ELSE level5'[f] # "on") =>
             StillDue(todo, "set", f),
         intent = "disable" => reg = "off" /\ \A f \in EnvFile : level5'[f] # "on",
         intent = "enable" =>
           /\ Configured' /\ (todo # <<>> /\ Head(todo)[1] \in UsesLevel => reg = "on")
           /\ \A s \in EnvFile : service'[s].at > audit.configured => service'[s].level = "on"
  PROVE  AccessIInv'
<1>1. /\ CallersOK' /\ AloneIsAlone'
      /\ \A d \in Caller : d # c => caller'[d] = caller[d]
      /\ \A d \in Caller : caller'[d].cmd \in {"none", caller[d].cmd}
      /\ todo = <<>> => caller'[c] = NoCommand
      /\ todo # <<>> => /\ caller'[c].todo = todo /\ caller'[c].reg = reg
                        /\ caller'[c].cmd = caller[c].cmd /\ caller'[c].alone = caller[c].alone
  BY CommandGoesOn
<1>2. caller[c].cmd \in {"enable", "disable", "setup", "connect", "start"}
  BY CallerFacts DEF AccessIInv
<1>3. SwitchIsOnItsWay'
  <2> SUFFICES ASSUME NEW d \in Caller, caller'[d].alone
               PROVE  /\ caller'[d].cmd = "disable" =>
                           \A f \in EnvFile : level5'[f] = "on" => StillDue(caller'[d].todo, "clear", f)
                      /\ caller'[d].cmd = "enable" =>
                           \A f \in EnvFile : (IF f \in Profile THEN level5'[f] = "off" ELSE level5'[f] # "on") =>
                             StillDue(caller'[d].todo, "set", f)
    BY DEF SwitchIsOnItsWay, StillDue
  <2>1. CASE d = c
    BY <1>1, <2>1, NoCommandFacts
  <2>2. CASE d # c
    BY <1>1, <1>2, <2>2 DEF AccessIInv, AloneIsAlone, Underway
  <2> QED BY <2>1, <2>2
<1>4. (intent # "unsure" => \A d \in Caller : caller[d].cmd \notin {"enable", "disable"})'
  BY <1>1 DEF AccessIInv
<1>5. AfterDisable'
  <2> SUFFICES ASSUME intent = "disable" PROVE AfterDisable'
    BY DEF AfterDisable
  <2>1. ~ConfiguredByAudit /\ \A d \in Caller : caller[d].reg = "off"
    BY DEF AccessIInv, AfterDisable
  <2>2. \A d \in Caller : caller'[d].reg = "off"
    BY <1>1, <2>1, NoCommandFacts
  <2>3. ~ConfiguredByAudit'
    BY <2>1 DEF ConfiguredByAudit
  <2> QED BY <2>2, <2>3 DEF AfterDisable
<1>6. AfterEnable'
  <2> SUFFICES ASSUME intent = "enable" PROVE AfterEnable'
    BY DEF AfterEnable
  <2>1. \A d \in Caller : caller[d].todo # <<>> /\ Head(caller[d].todo)[1] \in UsesLevel => caller[d].reg = "on"
    BY DEF AccessIInv, AfterEnable
  <2>2. ASSUME NEW d \in Caller, caller'[d].todo # <<>>, Head(caller'[d].todo)[1] \in UsesLevel
        PROVE  caller'[d].reg = "on"
    BY <1>1, <2>1, <2>2, NoCommandFacts
  <2> QED BY <2>2 DEF AfterEnable
<1> QED BY <1>1, <1>3, <1>4, <1>5, <1>6 DEF AccessIInv

LEMMA TodoFacts ==
  ASSUME AccessIInv, NEW c \in Caller, NEW operation, Doing(c, operation)
  PROVE  /\ caller[c].todo # <<>> /\ Head(caller[c].todo)[1] = operation
         /\ Operand(c) = Head(caller[c].todo)[2]
BY DEF Doing, Operand

LEMMA SetKeysStep ==
  ASSUME AccessIInv, NEW c \in Caller, SetKeys(c)
  PROVE  AccessIInv'
<1>1. /\ WriteLevel(Operand(c), "on") /\ Continue(c, Tail(caller[c].todo), caller[c].reg)
      /\ UNCHANGED <<profiles, audit, service, second, intent>>
      /\ caller[c].todo # <<>> /\ Head(caller[c].todo)[1] = "set" /\ Operand(c) = Head(caller[c].todo)[2]
  BY TodoFacts DEF SetKeys, StepDone, GoOnWith
<1>2. /\ caller[c].cmd = "enable" /\ Operand(c) \in EnvFile /\ Head(caller[c].todo) = <<"set", Operand(c)>>
      /\ Tail(caller[c].todo) \in Seq(StepsOf(caller[c].cmd)) /\ InOrder(Tail(caller[c].todo))
      /\ caller[c].reg \in {"on", "off"} /\ caller[c].todo \in Seq(StepsOf(caller[c].cmd))
  BY <1>1, CallerFacts, KindsOfSteps DEF AccessIInv
<1>3. /\ DOMAIN level5 = EnvFile /\ level5' = [level5 EXCEPT ![Operand(c)] = "on"]
  BY <1>1 DEF WriteLevel, AccessIInv, AccessTypeOK
<1>4. AccessTypeOK'
  BY <1>1, <1>3 DEF AccessIInv, AccessTypeOK
<1>5. intent = "unsure"
  BY <1>2 DEF AccessIInv, AccessTypeOK
<1>6. ASSUME caller[c].alone, NEW f \in EnvFile, IF f \in Profile THEN level5'[f] = "off" ELSE level5'[f] # "on"
      PROVE  StillDue(Tail(caller[c].todo), "set", f)
  <2>1. f # Operand(c) /\ (IF f \in Profile THEN level5[f] = "off" ELSE level5[f] # "on")
    BY <1>3, <1>6
  <2>2. StillDue(caller[c].todo, "set", f)
    BY <1>2, <1>6, <2>1 DEF AccessIInv, SwitchIsOnItsWay
  <2> QED BY <1>1, <1>2, <2>1, <2>2, DueLater
<1> QED BY <1>1, <1>2, <1>4, <1>5, <1>6, AccessGoesOn

LEMMA ClearKeysStep ==
  ASSUME AccessIInv, NEW c \in Caller, ClearKeys(c)
  PROVE  AccessIInv'
<1>1. /\ level5' = [level5 EXCEPT ![Operand(c)] = IF @ = "absent" THEN @ ELSE "off"]
      /\ Continue(c, Tail(caller[c].todo), caller[c].reg)
      /\ UNCHANGED <<profiles, audit, service, second, intent>>
      /\ caller[c].todo # <<>> /\ Head(caller[c].todo)[1] = "clear" /\ Operand(c) = Head(caller[c].todo)[2]
  BY TodoFacts DEF ClearKeys, StepDone, GoOnWith
<1>2. /\ caller[c].cmd = "disable" /\ Operand(c) \in EnvFile /\ Head(caller[c].todo) = <<"clear", Operand(c)>>
      /\ Tail(caller[c].todo) \in Seq(StepsOf(caller[c].cmd)) /\ InOrder(Tail(caller[c].todo))
      /\ caller[c].reg \in {"on", "off"} /\ caller[c].todo \in Seq(StepsOf(caller[c].cmd))
  BY <1>1, CallerFacts, KindsOfSteps DEF AccessIInv
<1>3. DOMAIN level5 = EnvFile
  BY DEF AccessIInv, AccessTypeOK
<1>4. AccessTypeOK'
  BY <1>1, <1>2 DEF AccessIInv, AccessTypeOK
<1>5. intent = "unsure"
  BY <1>2 DEF AccessIInv, AccessTypeOK
<1>6. ASSUME caller[c].alone, NEW f \in EnvFile, level5'[f] = "on"
      PROVE  StillDue(Tail(caller[c].todo), "clear", f)
  <2>1. f # Operand(c) /\ level5[f] = "on"
    BY <1>1, <1>2, <1>3, <1>6
  <2>2. StillDue(caller[c].todo, "clear", f)
    BY <1>2, <1>6, <2>1 DEF AccessIInv, SwitchIsOnItsWay
  <2> QED BY <1>1, <1>2, <2>1, <2>2, DueLater
<1> QED BY <1>1, <1>2, <1>4, <1>5, <1>6, AccessGoesOn

LEMMA Concatenation ==
  ASSUME NEW S, NEW s \in Seq(S), NEW t \in Seq(S)
  PROVE  /\ s \o t \in Seq(S) /\ Len(s \o t) = Len(s) + Len(t)
         /\ Len(s) \in Nat /\ Len(t) \in Nat
         /\ \A i \in 1..Len(s) : (s \o t)[i] = s[i]
         /\ \A i \in 1..Len(t) : (s \o t)[Len(s) + i] = t[i]
OBVIOUS

(* The steps of one file each, in some order, and then what was left.      *)
LEMMA EachIsThere ==
  ASSUME NEW cmd, NEW operation, NEW files \in Seq(EnvFile), NEW rest \in Seq(StepsOf(cmd)),
         \A f \in EnvFile : <<operation, f>> \in StepsOf(cmd),
         operation \notin UsesLevel, operation # "audit", InOrder(rest), rest # <<>> => Head(rest)[1] \notin UsesLevel,
         NEW steps \in Seq(StepsOf(cmd)), DOMAIN steps = DOMAIN files,
         \A i \in DOMAIN files : steps[i] = <<operation, files[i]>>,
         NEW todo, todo = steps \o rest
  PROVE  /\ todo \in Seq(StepsOf(cmd)) /\ InOrder(todo)
         /\ \A i \in DOMAIN files : StillDue(todo, operation, files[i])
         /\ \A f : StillDue(rest, operation, f) => StillDue(todo, operation, f)
<1>1. /\ steps \in Seq(StepsOf(cmd)) /\ DOMAIN steps = DOMAIN files
      /\ \A i \in DOMAIN files : steps[i] = <<operation, files[i]>>
  OBVIOUS
<1>2. todo = steps \o rest
  OBVIOUS
<1>3. /\ todo \in Seq(StepsOf(cmd)) /\ Len(todo) = Len(steps) + Len(rest) /\ Len(steps) \in Nat /\ Len(rest) \in Nat
      /\ DOMAIN todo = 1..Len(todo) /\ DOMAIN steps = 1..Len(steps) /\ DOMAIN rest = 1..Len(rest)
      /\ \A i \in 1..Len(steps) : todo[i] = steps[i]
      /\ \A i \in 1..Len(rest) : todo[Len(steps) + i] = rest[i]
  <2>1. steps \in Seq(StepsOf(cmd)) /\ rest \in Seq(StepsOf(cmd))
    BY <1>1
  <2>2. /\ todo \in Seq(StepsOf(cmd)) /\ Len(todo) = Len(steps) + Len(rest)
        /\ Len(steps) \in Nat /\ Len(rest) \in Nat
    BY <2>1, <1>2, Concatenation
  <2>3. DOMAIN todo = 1..Len(todo) /\ DOMAIN steps = 1..Len(steps) /\ DOMAIN rest = 1..Len(rest)
    BY <2>1, <2>2
  <2>4. ASSUME NEW i \in 1..Len(steps) PROVE todo[i] = steps[i]
    <3>1. (steps \o rest)[i] = steps[i]
      BY <2>1, Concatenation
    <3> QED BY <3>1, <1>2
  <2>5. ASSUME NEW i \in 1..Len(rest) PROVE todo[Len(steps) + i] = rest[i]
    BY <2>1, <1>2, Concatenation
  <2> QED BY <2>2, <2>3, <2>4, <2>5
<1>4. InOrder(todo)
  <2> SUFFICES ASSUME NEW i \in 2..Len(todo)
               PROVE  /\ todo[i - 1][1] # "audit"
                      /\ todo[i][1] \in UsesLevel => todo[i - 1][1] \in {"preserve", "read", "write", "overlay"}
    BY DEF InOrder
  <2>1. CASE i <= Len(steps)
    <3>1. i \in DOMAIN files /\ i - 1 \in DOMAIN files
      BY <1>1, <1>3, <2>1
    <3>2. todo[i][1] = operation /\ todo[i - 1][1] = operation
      BY <1>1, <1>3, <3>1
    <3> QED BY <3>2
  <2>2. CASE i = Len(steps) + 1
    <3>1. i - 1 \in DOMAIN files /\ 1 \in 1..Len(rest) /\ i - 1 \in 1..Len(steps)
      BY <1>1, <1>3, <2>2
    <3>2. todo[i - 1][1] = operation
      <4>1. PICK j : j = i - 1
        OBVIOUS
      <4>2. todo[j] = steps[j] /\ steps[j] = <<operation, files[j]>>
        BY <1>1, <1>3, <3>1, <4>1
      <4> QED BY <4>1, <4>2
    <3>3. todo[i] = Head(rest) /\ rest # <<>>
      BY <1>3, <2>2, <3>1
    <3> QED BY <3>2, <3>3
  <2>3. CASE i > Len(steps) + 1
    <3>1. PICK j : j = i - Len(steps)
      OBVIOUS
    <3>2. j \in 2..Len(rest) /\ i = Len(steps) + j /\ i - 1 = Len(steps) + (j - 1) /\ j - 1 \in 1..Len(rest)
      BY <1>3, <2>3, <3>1
    <3>3. todo[i] = rest[j] /\ todo[i - 1] = rest[j - 1]
      BY <1>3, <3>2
    <3> QED BY <3>2, <3>3 DEF InOrder
  <2> QED BY <1>3, <2>1, <2>2, <2>3
<1>5. ASSUME NEW i \in DOMAIN files PROVE StillDue(todo, operation, files[i])
  <2>1. i \in DOMAIN todo /\ todo[i] = <<operation, files[i]>>
    BY <1>1, <1>3
  <2> QED BY <2>1 DEF StillDue
<1>6. ASSUME NEW f, StillDue(rest, operation, f) PROVE StillDue(todo, operation, f)
  <2>1. PICK i \in DOMAIN rest : rest[i] = <<operation, f>> \/ (f # Spawner /\ rest[i] = <<"each", operation>>)
    BY <1>6 DEF StillDue
  <2>2. Len(steps) + i \in DOMAIN todo /\ todo[Len(steps) + i] = rest[i]
    BY <1>3
  <2> QED BY <2>1, <2>2 DEF StillDue
<1> QED BY <1>3, <1>4, <1>5, <1>6

LEMMA EachTelegramFileStep ==
  ASSUME AccessIInv, NEW c \in Caller, EachTelegramFile(c)
  PROVE  AccessIInv'
<1>1. /\ caller[c].todo # <<>> /\ Head(caller[c].todo)[1] = "each" /\ Operand(c) = Head(caller[c].todo)[2]
      /\ UNCHANGED <<level5, profiles, audit, service, second, intent>>
  BY TodoFacts DEF EachTelegramFile
<1>2. PICK files : files = <<Bot>> \o SetToSeq(Existing)
  OBVIOUS
<1>3. PICK todo : todo = [i \in DOMAIN files |-> <<Operand(c), files[i]>>] \o Tail(caller[c].todo)
  OBVIOUS
<1>4. Continue(c, todo, caller[c].reg)
  BY <1>2, <1>3 DEF EachTelegramFile
<1>5. PICK cmd : cmd = caller[c].cmd
  OBVIOUS
<1>6. /\ (cmd = "enable" /\ Operand(c) = "set") \/ (cmd = "disable" /\ Operand(c) = "clear")
      /\ Head(caller[c].todo) = <<"each", Operand(c)>>
      /\ Tail(caller[c].todo) \in Seq(StepsOf(cmd)) /\ InOrder(Tail(caller[c].todo))
      /\ caller[c].reg \in {"on", "off"} /\ caller[c].todo \in Seq(StepsOf(cmd))
  <2>1. /\ Head(caller[c].todo) \in StepsOf(cmd)
        /\ Tail(caller[c].todo) \in Seq(StepsOf(cmd)) /\ InOrder(Tail(caller[c].todo))
        /\ caller[c].reg \in {"on", "off"} /\ caller[c].todo \in Seq(StepsOf(cmd))
    BY <1>1, <1>5, CallerFacts DEF AccessIInv
  <2>2. \/ cmd = "enable" /\ Head(caller[c].todo) = <<"each", "set">>
        \/ cmd = "disable" /\ Head(caller[c].todo) = <<"each", "clear">>
    BY <1>1, <2>1, KindsOfSteps
  <2>3. CASE cmd = "enable" /\ Head(caller[c].todo) = <<"each", "set">>
    <3>1. Operand(c) = "set"
      BY <1>1, <2>3
    <3> QED BY <2>1, <2>3, <3>1
  <2>4. CASE cmd = "disable" /\ Head(caller[c].todo) = <<"each", "clear">>
    <3>1. Operand(c) = "clear"
      BY <1>1, <2>4
    <3> QED BY <2>1, <2>4, <3>1
  <2> QED BY <2>2, <2>3, <2>4
<1>7. IsFiniteSet(Existing) /\ Existing \subseteq EnvFile
  BY AccessAssumption, FS_Subset DEF Existing, EnvFile
<1>8. /\ files \in Seq(EnvFile) /\ \E i \in DOMAIN files : files[i] = Bot
      /\ \A f \in Existing : \E i \in DOMAIN files : files[i] = f
  <2>1. PICK q : q = SetToSeq(Existing)
    OBVIOUS
  <2>2. q \in Seq(Existing) /\ \A f \in Existing : \E i \in DOMAIN q : q[i] = f
    BY <1>7, <2>1, SetToSeqHasAll
  <2>3. q \in Seq(EnvFile) /\ <<Bot>> \in Seq(EnvFile) /\ Len(<<Bot>>) = 1 /\ <<Bot>>[1] = Bot
    BY <1>7, <2>2, EnvFiles
  <2>4. /\ files \in Seq(EnvFile) /\ Len(files) = 1 + Len(q) /\ Len(q) \in Nat
        /\ \A i \in 1..Len(q) : files[1 + i] = q[i]
    <3>1. files = <<Bot>> \o q
      BY <1>2, <2>1
    <3> HIDE DEF Bot
    <3>2. \A i \in 1..Len(q) : (<<Bot>> \o q)[Len(<<Bot>>) + i] = q[i]
      BY <2>3, Concatenation
    <3>3. /\ <<Bot>> \o q \in Seq(EnvFile) /\ Len(<<Bot>> \o q) = Len(<<Bot>>) + Len(q) /\ Len(q) \in Nat
      BY <2>3, Concatenation
    <3> QED BY <3>1, <3>2, <3>3, <2>3
  <2>5. 1 \in DOMAIN files /\ files[1] = Bot
    <3>1. files = <<Bot>> \o q
      BY <1>2, <2>1
    <3>2. \A i \in 1..Len(<<Bot>>) : (<<Bot>> \o q)[i] = <<Bot>>[i]
      BY <2>3, Concatenation
    <3> QED BY <3>1, <3>2, <2>3, <2>4
  <2>6. ASSUME NEW f \in Existing PROVE \E i \in DOMAIN files : files[i] = f
    <3>1. PICK i \in 1..Len(q) : q[i] = f
      BY <2>2
    <3>2. 1 + i \in DOMAIN files /\ files[1 + i] = f
      BY <2>4, <3>1
    <3> QED BY <3>2
  <2> QED BY <2>4, <2>5, <2>6
<1>9. /\ todo \in Seq(StepsOf(cmd)) /\ InOrder(todo)
      /\ \A i \in DOMAIN files : StillDue(todo, Operand(c), files[i])
      /\ \A f : StillDue(Tail(caller[c].todo), Operand(c), f) => StillDue(todo, Operand(c), f)
  <2>1. \A f \in EnvFile : <<Operand(c), f>> \in StepsOf(cmd)
    BY <1>6 DEF StepsOf
  <2>2. Operand(c) \notin UsesLevel /\ Operand(c) # "audit"
    BY <1>6 DEF UsesLevel
  <2>3. Tail(caller[c].todo) # <<>> => Head(Tail(caller[c].todo))[1] \notin UsesLevel
    <3> SUFFICES ASSUME Tail(caller[c].todo) # <<>> PROVE Head(Tail(caller[c].todo))[1] \notin UsesLevel
      OBVIOUS
    <3>1. Head(Tail(caller[c].todo)) \in StepsOf(cmd)
      BY <1>6
    <3> QED BY <3>1, <1>6, KindsOfSteps DEF UsesLevel
  <2>4. PICK operation, rest : operation = Operand(c) /\ rest = Tail(caller[c].todo)
    OBVIOUS
  <2>5. /\ rest \in Seq(StepsOf(cmd)) /\ InOrder(rest) /\ (rest # <<>> => Head(rest)[1] \notin UsesLevel)
        /\ operation \notin UsesLevel /\ operation # "audit"
        /\ \A f \in EnvFile : <<operation, f>> \in StepsOf(cmd)
    BY <1>6, <2>1, <2>2, <2>3, <2>4
  <2>7. PICK steps : steps = [i \in DOMAIN files |-> <<operation, files[i]>>]
    OBVIOUS
  <2>8. /\ steps \in Seq(StepsOf(cmd)) /\ DOMAIN steps = DOMAIN files
        /\ \A i \in DOMAIN files : steps[i] = <<operation, files[i]>>
    <3>1. DOMAIN files = 1..Len(files) /\ Len(files) \in Nat /\ \A i \in DOMAIN files : files[i] \in EnvFile
      BY <1>8
    <3>2. steps \in [1..Len(files) -> StepsOf(cmd)]
      BY <2>5, <2>7, <3>1
    <3> QED BY <2>7, <3>1, <3>2
  <2>9. todo = steps \o rest
    BY <1>3, <2>4, <2>7
  <2>6. /\ todo \in Seq(StepsOf(cmd)) /\ InOrder(todo)
        /\ \A i \in DOMAIN files : StillDue(todo, operation, files[i])
        /\ \A f : StillDue(rest, operation, f) => StillDue(todo, operation, f)
    BY <1>8, <2>5, <2>8, <2>9, EachIsThere
  <2> QED BY <2>4, <2>6
<1>10. intent = "unsure"
  BY <1>5, <1>6 DEF AccessIInv, AccessTypeOK
<1>11. AccessTypeOK'
  BY <1>1 DEF AccessIInv, AccessTypeOK
<1>12. ASSUME NEW f \in EnvFile, StillDue(caller[c].todo, Operand(c), f), f \in Profile => level5[f] # "absent"
       PROVE  StillDue(todo, Operand(c), f)
  <2>1. CASE f = Spawner
    <3>1. Head(caller[c].todo) # <<Operand(c), f>>
      BY <1>6
    <3>2. StillDue(Tail(caller[c].todo), Operand(c), f)
      BY <1>1, <1>6, <1>12, <2>1, <3>1, DueLater
    <3> QED BY <1>9, <3>2
  <2>2. CASE f # Spawner
    <3>1. f = Bot \/ f \in Existing
      BY <1>12, <2>2 DEF EnvFile, Existing
    <3>2. \E i \in DOMAIN files : files[i] = f
      BY <1>8, <3>1
    <3> QED BY <1>9, <3>2
  <2> QED BY <2>1, <2>2
<1>13. ASSUME caller[c].alone, cmd = "disable", NEW f \in EnvFile, level5[f] = "on"
       PROVE  StillDue(todo, "clear", f)
  <2>1. StillDue(caller[c].todo, "clear", f)
    BY <1>5, <1>13 DEF AccessIInv, SwitchIsOnItsWay
  <2> QED BY <1>6, <1>12, <1>13, <2>1
<1>14. ASSUME caller[c].alone, cmd = "enable", NEW f \in EnvFile,
              IF f \in Profile THEN level5[f] = "off" ELSE level5[f] # "on"
       PROVE  StillDue(todo, "set", f)
  <2>1. StillDue(caller[c].todo, "set", f)
    BY <1>5, <1>14 DEF AccessIInv, SwitchIsOnItsWay
  <2> QED BY <1>6, <1>12, <1>14, <2>1
<1> QED BY <1>1, <1>4, <1>5, <1>6, <1>9, <1>10, <1>11, <1>13, <1>14, AccessGoesOn

(* Reading a level: after a switch that ran alone it is what it left.      *)
LEMMA LevelIsRead ==
  ASSUME AccessIInv, NEW c \in Caller, caller[c].todo # <<>>,
         Head(caller[c].todo)[1] \in {"preserve", "read", "overlay"},
         NEW reg \in {"on", "off"}, GoOnWith(c, reg),
         intent = "disable" => reg = "off", intent = "enable" => reg = "on",
         UNCHANGED <<level5, profiles, audit, service, second, intent>>
  PROVE  AccessIInv'
<1>1. /\ Tail(caller[c].todo) \in Seq(StepsOf(caller[c].cmd)) /\ InOrder(Tail(caller[c].todo))
      /\ Head(caller[c].todo) \in StepsOf(caller[c].cmd)
  BY CallerFacts DEF AccessIInv
<1>2. caller[c].cmd \in {"setup", "connect", "start"}
  BY <1>1, KindsOfSteps
<1>3. Continue(c, Tail(caller[c].todo), reg)
  BY DEF GoOnWith
<1>4. AccessTypeOK'
  BY DEF AccessIInv, AccessTypeOK
<1>5. intent = "disable" => \A f \in EnvFile : level5'[f] # "on"
  BY DEF AccessIInv, AfterDisable
<1>6. intent = "enable" =>
        Configured' /\ \A s \in EnvFile : service'[s].at > audit.configured => service'[s].level = "on"
  BY DEF AccessIInv, AfterEnable, Configured
<1> QED BY <1>1, <1>2, <1>3, <1>4, <1>5, <1>6, AccessGoesOn

LEMMA KeysAfterSwitch ==
  ASSUME AccessIInv, NEW f \in EnvFile
  PROVE  /\ Keys(f) \in {"on", "off"}
         /\ intent = "disable" => Keys(f) = "off" /\ ~Preserves(f)
         /\ intent = "enable" /\ f \notin Profile => Keys(f) = "on" /\ Preserves(f)
BY DEF AccessIInv, AfterDisable, AfterEnable, Configured, Keys, Preserves

LEMMA PreserveKeysStep ==
  ASSUME AccessIInv, NEW c \in Caller, PreserveKeys(c)
  PROVE  AccessIInv'
<1>1. /\ caller[c].todo # <<>> /\ Head(caller[c].todo)[1] = "preserve" /\ Operand(c) = Head(caller[c].todo)[2]
      /\ UNCHANGED <<level5, profiles, audit, service, second, intent>>
      /\ GoOnWith(c, IF Preserves(Operand(c)) THEN "on" ELSE "off")
  BY TodoFacts DEF PreserveKeys
<1>2. Operand(c) \in {Spawner, Bot}
  <2>1. Head(caller[c].todo) \in StepsOf(caller[c].cmd)
    BY <1>1, CallerFacts DEF AccessIInv
  <2> QED BY <1>1, <2>1, KindsOfSteps
<1>3. PICK reg \in {"on", "off"} : reg = IF Preserves(Operand(c)) THEN "on" ELSE "off"
  OBVIOUS
<1>4. (intent = "disable" => reg = "off") /\ (intent = "enable" => reg = "on")
  BY <1>2, <1>3, KeysAfterSwitch, EnvFiles
<1> QED BY <1>1, <1>3, <1>4, LevelIsRead

LEMMA ReadKeysStep ==
  ASSUME AccessIInv, NEW c \in Caller, ReadKeys(c)
  PROVE  AccessIInv'
<1>1. /\ caller[c].todo # <<>> /\ Head(caller[c].todo)[1] = "read" /\ Operand(c) = Head(caller[c].todo)[2]
      /\ UNCHANGED <<level5, profiles, audit, service, second, intent>>
      /\ GoOnWith(c, Keys(Operand(c)))
  BY TodoFacts DEF ReadKeys
<1>2. Operand(c) \in {Spawner, Bot}
  <2>1. Head(caller[c].todo) \in StepsOf(caller[c].cmd)
    BY <1>1, CallerFacts DEF AccessIInv
  <2> QED BY <1>1, <2>1, KindsOfSteps
<1>3. /\ Keys(Operand(c)) \in {"on", "off"}
      /\ intent = "disable" => Keys(Operand(c)) = "off"
      /\ intent = "enable" => Keys(Operand(c)) = "on"
  BY <1>2, KeysAfterSwitch, EnvFiles
<1> QED BY <1>1, <1>3, LevelIsRead

LEMMA OverlayKeysStep ==
  ASSUME AccessIInv, NEW c \in Caller, OverlayKeys(c)
  PROVE  AccessIInv'
<1>1. /\ caller[c].todo # <<>> /\ Head(caller[c].todo)[1] = "overlay" /\ Operand(c) = Head(caller[c].todo)[2]
      /\ UNCHANGED <<level5, profiles, audit, service, second, intent>>
      /\ GoOnWith(c, IF Keys(Operand(c)) = "on" THEN "on" ELSE caller[c].reg)
  BY TodoFacts DEF OverlayKeys
<1>2. Operand(c) \in EnvFile /\ caller[c].reg \in {"on", "off"}
  <2>1. Head(caller[c].todo) \in StepsOf(caller[c].cmd) /\ caller[c].reg \in {"on", "off"}
    BY <1>1, CallerFacts DEF AccessIInv
  <2> QED BY <1>1, <2>1, KindsOfSteps
<1>3. PICK reg \in {"on", "off"} : reg = IF Keys(Operand(c)) = "on" THEN "on" ELSE caller[c].reg
  BY <1>2
<1>4. intent = "disable" => reg = "off"
  BY <1>2, <1>3, KeysAfterSwitch DEF AccessIInv, AfterDisable
<1>5. intent = "enable" => reg = "on"
  BY <1>1, <1>3 DEF AccessIInv, AfterEnable, UsesLevel
<1> QED BY <1>1, <1>3, <1>4, <1>5, LevelIsRead

LEMMA WriteKeysStep ==
  ASSUME AccessIInv, NEW c \in Caller, WriteKeys(c)
  PROVE  AccessIInv'
<1>1. /\ caller[c].todo # <<>> /\ Head(caller[c].todo)[1] = "write" /\ Operand(c) = Head(caller[c].todo)[2]
      /\ UNCHANGED <<profiles, audit, service, second, intent>>
      /\ WriteLevel(Operand(c), caller[c].reg) /\ Continue(c, Tail(caller[c].todo), caller[c].reg)
  BY TodoFacts DEF WriteKeys, StepDone, GoOnWith
<1>2. /\ Tail(caller[c].todo) \in Seq(StepsOf(caller[c].cmd)) /\ InOrder(Tail(caller[c].todo))
      /\ Head(caller[c].todo) \in StepsOf(caller[c].cmd) /\ caller[c].reg \in {"on", "off"}
  BY <1>1, CallerFacts DEF AccessIInv
<1>3. caller[c].cmd \in {"setup", "connect", "start"} /\ Operand(c) \in EnvFile
  BY <1>1, <1>2, KindsOfSteps
<1>4. DOMAIN level5 = EnvFile /\ level5' = [level5 EXCEPT ![Operand(c)] = caller[c].reg]
  BY <1>1 DEF WriteLevel, AccessIInv, AccessTypeOK
<1>5. AccessTypeOK'
  BY <1>1, <1>2, <1>4 DEF AccessIInv, AccessTypeOK
<1>6. intent = "disable" => caller[c].reg = "off" /\ \A f \in EnvFile : level5'[f] # "on"
  BY <1>4 DEF AccessIInv, AfterDisable
<1>7. intent = "enable" =>
        /\ caller[c].reg = "on" /\ Configured'
        /\ \A s \in EnvFile : service'[s].at > audit.configured => service'[s].level = "on"
  <2> SUFFICES ASSUME intent = "enable"
               PROVE  /\ caller[c].reg = "on" /\ Configured'
                      /\ \A s \in EnvFile : service'[s].at > audit.configured => service'[s].level = "on"
    OBVIOUS
  <2>1. caller[c].reg = "on"
    BY <1>1 DEF AccessIInv, AfterEnable, UsesLevel
  <2>2. Configured'
    BY <1>4, <2>1 DEF AccessIInv, AfterEnable, Configured
  <2> QED BY <1>1, <2>1, <2>2 DEF AccessIInv, AfterEnable
<1> QED BY <1>1, <1>2, <1>3, <1>5, <1>6, <1>7, AccessGoesOn

LEMMA NameProfileStep ==
  ASSUME AccessIInv, NEW c \in Caller, NameProfile(c)
  PROVE  AccessIInv'
<1>1. /\ caller[c].todo # <<>> /\ Head(caller[c].todo)[1] = "name" /\ Operand(c) = Head(caller[c].todo)[2]
      /\ UNCHANGED <<level5, audit, service, second, intent>> /\ profiles' = profiles \cup {Operand(c)}
      /\ Continue(c, Tail(caller[c].todo), caller[c].reg)
  BY TodoFacts DEF NameProfile, StepDone, GoOnWith
<1>2. /\ Tail(caller[c].todo) \in Seq(StepsOf(caller[c].cmd)) /\ InOrder(Tail(caller[c].todo))
      /\ Head(caller[c].todo) \in StepsOf(caller[c].cmd) /\ caller[c].reg \in {"on", "off"}
      /\ Tail(caller[c].todo) # <<>> => Head(Tail(caller[c].todo))[1] \notin UsesLevel
  BY <1>1, CallerFacts DEF AccessIInv
<1>3. caller[c].cmd = "connect" /\ Operand(c) \in Profile
  BY <1>1, <1>2, KindsOfSteps
<1>4. AccessTypeOK'
  BY <1>1, <1>3 DEF AccessIInv, AccessTypeOK
<1>5. intent = "disable" => caller[c].reg = "off" /\ \A f \in EnvFile : level5'[f] # "on"
  BY <1>1 DEF AccessIInv, AfterDisable
<1>6. intent = "enable" =>
        /\ Configured' /\ \A s \in EnvFile : service'[s].at > audit.configured => service'[s].level = "on"
  BY <1>1 DEF AccessIInv, AfterEnable, Configured
<1> QED BY <1>1, <1>2, <1>3, <1>4, <1>5, <1>6, AccessGoesOn

LEMMA RefreshProfilesStep ==
  ASSUME AccessIInv, NEW c \in Caller, RefreshProfiles(c)
  PROVE  AccessIInv'
<1>1. /\ caller[c].todo # <<>> /\ Head(caller[c].todo)[1] = "refresh"
      /\ UNCHANGED <<level5, profiles, audit, service, second, intent>>
  BY TodoFacts DEF RefreshProfiles
<1>2. PICK files : files = SetToSeq(profiles)
  OBVIOUS
<1>3. PICK todo : todo = [i \in DOMAIN files |-> <<"write", files[i]>>]
  OBVIOUS
<1>4. Continue(c, todo, Keys(Bot))
  BY <1>2, <1>3 DEF RefreshProfiles
<1>5. caller[c].cmd = "setup"
  <2>1. Head(caller[c].todo) \in StepsOf(caller[c].cmd)
    BY <1>1, CallerFacts DEF AccessIInv
  <2> QED BY <1>1, <2>1, KindsOfSteps
<1>6. files \in Seq(EnvFile)
  <2>1. IsFiniteSet(profiles) /\ profiles \subseteq EnvFile
    BY AccessAssumption, FS_Subset DEF AccessIInv, AccessTypeOK, EnvFile
  <2>2. files \in Seq(profiles)
    BY <1>2, <2>1, SetToSeqHasAll
  <2> QED BY <2>1, <2>2
<1>7. /\ todo \in Seq(StepsOf("setup")) /\ \A i \in 1..Len(todo) : todo[i][1] = "write"
  <2>1. DOMAIN files = 1..Len(files) /\ Len(files) \in Nat /\ \A i \in DOMAIN files : files[i] \in EnvFile
    BY <1>6
  <2>2. \A f \in EnvFile : <<"write", f>> \in StepsOf("setup")
    BY DEF StepsOf
  <2>3. todo \in [1..Len(files) -> StepsOf("setup")] /\ \A i \in 1..Len(files) : todo[i] = <<"write", files[i]>>
    BY <1>3, <2>1, <2>2
  <2>4. todo \in Seq(StepsOf("setup")) /\ Len(todo) = Len(files)
    BY <2>1, <2>3
  <2> QED BY <2>3, <2>4
<1>8. InOrder(todo)
  <2> SUFFICES ASSUME NEW i \in 2..Len(todo)
               PROVE  /\ todo[i - 1][1] # "audit"
                      /\ todo[i][1] \in UsesLevel => todo[i - 1][1] \in {"preserve", "read", "write", "overlay"}
    BY DEF InOrder
  <2>1. Len(todo) \in Nat
    BY <1>7
  <2>2. i - 1 \in 1..Len(todo)
    BY <2>1
  <2>3. todo[i - 1][1] = "write"
    BY <1>7, <2>2
  <2> QED BY <2>3
<1>9. AccessTypeOK'
  BY <1>1 DEF AccessIInv, AccessTypeOK
<1>10. /\ Keys(Bot) \in {"on", "off"} /\ (intent = "disable" => Keys(Bot) = "off")
       /\ (intent = "enable" => Keys(Bot) = "on")
  BY KeysAfterSwitch, EnvFiles
<1>11. intent = "disable" => \A f \in EnvFile : level5'[f] # "on"
  BY <1>1 DEF AccessIInv, AfterDisable
<1>12. intent = "enable" =>
        /\ Configured' /\ \A s \in EnvFile : service'[s].at > audit.configured => service'[s].level = "on"
  BY <1>1 DEF AccessIInv, AfterEnable, Configured
<1>13. todo \in Seq(StepsOf(caller[c].cmd))
  BY <1>5, <1>7
<1> QED BY <1>1, <1>4, <1>5, <1>8, <1>9, <1>10, <1>11, <1>12, <1>13, AccessGoesOn

LEMMA RecordServiceStep ==
  ASSUME AccessIInv, NEW c \in Caller, RecordService(c)
  PROVE  AccessIInv'
<1>1. /\ caller[c].todo # <<>> /\ Head(caller[c].todo)[1] = "record" /\ Operand(c) = Head(caller[c].todo)[2]
      /\ service' = [service EXCEPT ![Operand(c)] =
                       [level |-> caller[c].reg, at |-> second, alone |-> caller[c].alone]]
      /\ UNCHANGED <<level5, profiles, audit, second, intent>>
      /\ Continue(c, Tail(caller[c].todo), caller[c].reg)
  BY TodoFacts DEF RecordService, StepDone, GoOnWith
<1>2. /\ Tail(caller[c].todo) \in Seq(StepsOf(caller[c].cmd)) /\ InOrder(Tail(caller[c].todo))
      /\ Head(caller[c].todo) \in StepsOf(caller[c].cmd)
      /\ caller[c].reg \in {"on", "off"} /\ caller[c].alone \in BOOLEAN
  BY <1>1, CallerFacts DEF AccessIInv
<1>3. caller[c].cmd \in {"setup", "connect", "start"} /\ Operand(c) \in EnvFile
  BY <1>1, <1>2, KindsOfSteps
<1>4. PICK entry : entry = [level |-> caller[c].reg, at |-> second, alone |-> caller[c].alone]
  OBVIOUS
<1>5. /\ entry \in [level : {"none", "on", "off"}, at : 0..second, alone : BOOLEAN]
      /\ entry.level = caller[c].reg
  BY <1>2, <1>4 DEF AccessIInv
<1>6. service' = [service EXCEPT ![Operand(c)] = entry] /\ DOMAIN service = EnvFile
  BY <1>1, <1>4 DEF AccessIInv, AccessTypeOK
<1>7. AccessTypeOK'
  <2>1. service' \in [EnvFile -> [level : {"none", "on", "off"}, at : 0..second, alone : BOOLEAN]]
    BY <1>5, <1>6 DEF AccessIInv, AccessTypeOK
  <2> QED BY <1>1, <2>1 DEF AccessIInv, AccessTypeOK
<1>8. intent = "disable" => caller[c].reg = "off" /\ \A f \in EnvFile : level5'[f] # "on"
  BY <1>1 DEF AccessIInv, AfterDisable
<1>9. intent = "enable" =>
        /\ Configured' /\ caller[c].reg = "on"
        /\ \A s \in EnvFile : service'[s].at > audit.configured => service'[s].level = "on"
  <2> SUFFICES ASSUME intent = "enable"
               PROVE  /\ Configured' /\ caller[c].reg = "on"
                      /\ \A s \in EnvFile : service'[s].at > audit.configured => service'[s].level = "on"
    OBVIOUS
  <2>1. caller[c].reg = "on"
    BY <1>1 DEF AccessIInv, AfterEnable, UsesLevel
  <2>2. Configured'
    BY <1>1 DEF AccessIInv, AfterEnable, Configured
  <2> QED BY <1>5, <1>6, <2>1, <2>2 DEF AccessIInv, AfterEnable
<1> QED BY <1>1, <1>2, <1>3, <1>7, <1>8, <1>9, AccessGoesOn

(* The audit event of a switch: its last step.                             *)
LEMMA WriteAuditStep ==
  ASSUME AccessIInv, NEW c \in Caller, WriteAudit(c)
  PROVE  AccessIInv'
<1>1. /\ caller[c].todo # <<>> /\ Head(caller[c].todo)[1] = "audit" /\ Operand(c) = Head(caller[c].todo)[2]
      /\ audit' = [audit EXCEPT ![Operand(c)] = second]
      /\ intent' = IF caller[c].alone THEN caller[c].cmd ELSE intent
      /\ UNCHANGED <<level5, profiles, service, second>>
      /\ Continue(c, Tail(caller[c].todo), caller[c].reg)
  BY TodoFacts DEF WriteAudit, StepDone, GoOnWith
<1>2. /\ Tail(caller[c].todo) \in Seq(StepsOf(caller[c].cmd)) /\ InOrder(Tail(caller[c].todo))
      /\ Head(caller[c].todo) \in StepsOf(caller[c].cmd) /\ Tail(caller[c].todo) = <<>>
      /\ caller[c].reg \in {"on", "off"} /\ caller[c].alone \in BOOLEAN
  BY <1>1, CallerFacts DEF AccessIInv
<1>3. \/ caller[c].cmd = "enable" /\ Head(caller[c].todo) = <<"audit", "configured">>
      \/ caller[c].cmd = "disable" /\ Head(caller[c].todo) = <<"audit", "disabled">>
  BY <1>1, <1>2, KindsOfSteps
<1>4. \/ caller[c].cmd = "enable" /\ Operand(c) = "configured"
      \/ caller[c].cmd = "disable" /\ Operand(c) = "disabled"
  BY <1>1, <1>3
<1>5. intent = "unsure"
  BY <1>3 DEF AccessIInv, AccessTypeOK
<1>6. /\ CallersOK' /\ AloneIsAlone' /\ caller'[c] = NoCommand
      /\ \A d \in Caller : d # c => caller'[d] = caller[d]
      /\ \A d \in Caller : caller'[d].cmd \in {"none", caller[d].cmd}
  BY <1>1, <1>2, CommandGoesOn
<1>7. /\ audit' \in [configured : 0..second, disabled : 0..second]
      /\ caller[c].cmd = "enable" => audit'.configured = second
      /\ caller[c].cmd = "disable" => audit'.disabled = second
  <2>1. audit \in [configured : 0..second, disabled : 0..second] /\ second \in 0..second
    BY DEF AccessIInv, AccessTypeOK
  <2>2. CASE caller[c].cmd = "enable" /\ Operand(c) = "configured"
    <3>1. audit' = [audit EXCEPT !.configured = second]
      BY <1>1, <2>2
    <3> QED BY <2>1, <2>2, <3>1
  <2>3. CASE caller[c].cmd = "disable" /\ Operand(c) = "disabled"
    <3>1. audit' = [audit EXCEPT !.disabled = second]
      BY <1>1, <2>3
    <3> QED BY <2>1, <2>3, <3>1
  <2> QED BY <1>4, <2>2, <2>3
<1>8. AccessTypeOK'
  BY <1>1, <1>3, <1>7 DEF AccessIInv, AccessTypeOK
<1>9. SwitchIsOnItsWay'
  <2> SUFFICES ASSUME NEW d \in Caller, caller'[d].alone
               PROVE  /\ caller'[d].cmd = "disable" =>
                           \A f \in EnvFile : level5'[f] = "on" => StillDue(caller'[d].todo, "clear", f)
                      /\ caller'[d].cmd = "enable" =>
                           \A f \in EnvFile : (IF f \in Profile THEN level5'[f] = "off" ELSE level5'[f] # "on") =>
                             StillDue(caller'[d].todo, "set", f)
    BY DEF SwitchIsOnItsWay, StillDue
  <2>1. CASE d = c
    BY <1>6, <2>1, NoCommandFacts
  <2>2. CASE d # c
    BY <1>3, <1>6, <2>2 DEF AccessIInv, AloneIsAlone, Underway
  <2> QED BY <2>1, <2>2
<1>10. ASSUME NEW operation \in {"set", "clear"}, NEW f PROVE ~StillDue(caller[c].todo, operation, f)
  <2>1. caller[c].todo \in Seq(StepsOf(caller[c].cmd))
    BY <1>1, CallerFacts DEF AccessIInv
  <2>2. ~StillDue(Tail(caller[c].todo), operation, f)
    BY <1>2 DEF StillDue
  <2>3. Head(caller[c].todo) # <<operation, f>> /\ Head(caller[c].todo) # <<"each", operation>>
    BY <1>1
  <2> QED BY <1>1, <2>1, <2>2, <2>3, DueLater
<1>11. CASE ~caller[c].alone
  <2>1. intent' = "unsure"
    BY <1>1, <1>5, <1>11
  <2>2. AfterDisable' /\ AfterEnable'
    BY <2>1 DEF AfterDisable, AfterEnable
  <2> QED BY <1>1, <1>6, <1>8, <1>9, <2>1, <2>2 DEF AccessIInv
<1>12. CASE caller[c].alone
  <2>1. intent' = caller[c].cmd
    BY <1>1, <1>12
  <2>2. \A d \in Caller : caller'[d] = NoCommand
    <3>1. ASSUME NEW d \in Caller, d # c PROVE caller[d].cmd = "none"
      BY <1>3, <1>12, <3>1 DEF AccessIInv, AloneIsAlone, Underway
    <3>2. ASSUME NEW d \in Caller, d # c PROVE caller[d] = NoCommand
      BY <3>1, <3>2 DEF AccessIInv, CallersOK
    <3> QED BY <1>6, <3>2
  <2>3. \A d \in Caller : caller'[d].cmd = "none" /\ caller'[d].reg = "off" /\ caller'[d].todo = <<>>
    BY <2>2, NoCommandFacts
  <2>4. AfterDisable'
    <3> SUFFICES ASSUME caller[c].cmd = "disable" PROVE AfterDisable'
      BY <2>1 DEF AfterDisable
    <3>1. \A f \in EnvFile : level5[f] # "on"
      BY <1>10, <1>12 DEF AccessIInv, SwitchIsOnItsWay
    <3>2. ~ConfiguredByAudit'
      BY <1>1, <1>7 DEF ConfiguredByAudit, AccessIInv
    <3> QED BY <1>1, <2>3, <3>1, <3>2 DEF AfterDisable
  <2>5. AfterEnable'
    <3> SUFFICES ASSUME caller[c].cmd = "enable" PROVE AfterEnable'
      BY <2>1 DEF AfterEnable
    <3>1. Configured'
      BY <1>1, <1>10, <1>12 DEF AccessIInv, SwitchIsOnItsWay, Configured
    <3>2. ASSUME NEW s \in EnvFile PROVE ~(service'[s].at > audit'.configured)
      BY <1>1, <1>7 DEF AccessIInv, AccessTypeOK
    <3> QED BY <2>3, <3>1, <3>2 DEF AfterEnable
  <2> QED BY <1>1, <1>6, <1>8, <1>9, <2>3, <2>4, <2>5 DEF AccessIInv
<1> QED BY <1>2, <1>11, <1>12

(* Beginning a command.                                                    *)
LEMMA BeginStep ==
  ASSUME AccessIInv, NEW c \in Caller, NEW cmd \in {"enable", "disable", "setup", "connect", "start"},
         NEW steps \in Seq(StepsOf(cmd)), steps # <<>>, InOrder(steps), Head(steps)[1] \notin UsesLevel,
         Begin(c, cmd, steps),
         cmd = "disable" => \A f \in EnvFile : StillDue(steps, "clear", f),
         cmd = "enable" => \A f \in EnvFile : StillDue(steps, "set", f)
  PROVE  AccessIInv'
<1> DEFINE others == {d \in Caller \ {c} : caller[d].cmd # "none"}
<1>1. /\ UNCHANGED <<level5, profiles, audit, service, second>>
      /\ intent' = IF cmd \in {"enable", "disable"} THEN "unsure" ELSE intent
      /\ caller[c].cmd = "none"
  BY DEF Begin
<1>2. PICK fresh : fresh = [NoCommand EXCEPT !.cmd = cmd, !.todo = steps, !.alone = (others = {})]
  OBVIOUS
<1>3. /\ fresh \in [cmd : {cmd}, todo : Seq(StepsOf(cmd)) \ {<<>>}, reg : {"on", "off"}, alone : BOOLEAN]
      /\ fresh.cmd = cmd /\ fresh.todo = steps /\ fresh.reg = "off" /\ (fresh.alone = (others = {}))
  BY <1>2 DEF NoCommand
<1>4. caller' = [d \in Caller |-> IF d = c THEN fresh
                   ELSE IF d \in others THEN [caller[d] EXCEPT !.alone = FALSE] ELSE caller[d]]
  BY <1>2 DEF Begin
<1>5. /\ DOMAIN caller' = Caller /\ caller'[c] = fresh
      /\ \A d \in Caller : d # c /\ d \notin others => caller'[d] = caller[d]
  BY <1>4
<1>6. ASSUME NEW d \in others
      PROVE  \E old \in {"enable", "disable", "setup", "connect", "start"} :
               /\ caller'[d] \in [cmd : {old}, todo : Seq(StepsOf(old)) \ {<<>>}, reg : {"on", "off"}, alone : BOOLEAN]
               /\ InOrder(caller'[d].todo)
               /\ caller'[d].cmd = caller[d].cmd /\ caller'[d].todo = caller[d].todo
               /\ caller'[d].reg = caller[d].reg /\ caller'[d].alone = FALSE
  <2>1. PICK old \in {"enable", "disable", "setup", "connect", "start"} :
           /\ caller[d] \in [cmd : {old}, todo : Seq(StepsOf(old)) \ {<<>>}, reg : {"on", "off"}, alone : BOOLEAN]
           /\ InOrder(caller[d].todo)
    BY NoCommandFacts DEF AccessIInv, CallersOK
  <2>2. PICK was : was = caller[d]
    OBVIOUS
  <2>3. caller'[d] = [was EXCEPT !.alone = FALSE]
    BY <1>4, <2>2
  <2> QED BY <2>1, <2>2, <2>3
<1>7. \A d \in Caller : d # c => /\ caller'[d].cmd = caller[d].cmd /\ caller'[d].todo = caller[d].todo
                                 /\ caller'[d].reg = caller[d].reg
                                 /\ d \in others => caller'[d].alone = FALSE
  BY <1>5, <1>6
<1>8. CallersOK'
  <2> SUFFICES ASSUME NEW d \in Caller
               PROVE  \/ caller'[d] = NoCommand
                      \/ \E old \in {"enable", "disable", "setup", "connect", "start"} :
                           /\ caller'[d] \in [cmd : {old}, todo : Seq(StepsOf(old)) \ {<<>>},
                                              reg : {"on", "off"}, alone : BOOLEAN]
                           /\ InOrder(caller'[d].todo)
    BY <1>5 DEF CallersOK
  <2>1. CASE d = c
    BY <1>3, <1>5, <2>1
  <2>2. CASE d \in others
    BY <1>6, <2>2
  <2>3. CASE d # c /\ d \notin others
    BY <1>5, <2>3 DEF AccessIInv, CallersOK
  <2> QED BY <2>1, <2>2, <2>3
<1>9. AloneIsAlone'
  <2> SUFFICES ASSUME NEW d \in Caller, NEW e \in Caller, d # e, caller'[d].cmd # "none", caller'[e].cmd # "none"
               PROVE  ~caller'[d].alone
    BY DEF AloneIsAlone, Underway
  <2>1. CASE d = c
    <3>1. e \in others
      BY <1>7, <2>1
    <3> QED BY <1>3, <1>5, <2>1, <3>1
  <2>2. CASE d # c
    <3>1. d \in others
      BY <1>7, <2>2
    <3> QED BY <1>7, <2>2, <3>1
  <2> QED BY <2>1, <2>2
<1>10. SwitchIsOnItsWay'
  <2> SUFFICES ASSUME NEW d \in Caller, caller'[d].alone
               PROVE  /\ caller'[d].cmd = "disable" =>
                           \A f \in EnvFile : level5'[f] = "on" => StillDue(caller'[d].todo, "clear", f)
                      /\ caller'[d].cmd = "enable" =>
                           \A f \in EnvFile : (IF f \in Profile THEN level5'[f] = "off" ELSE level5'[f] # "on") =>
                             StillDue(caller'[d].todo, "set", f)
    BY DEF SwitchIsOnItsWay, StillDue
  <2>1. CASE d = c
    BY <1>3, <1>5, <2>1
  <2>2. CASE d # c
    <3>1. d \notin others
      BY <1>7, <2>2
    <3>2. caller'[d].cmd = "none"
      BY <1>7, <2>2, <3>1
    <3> QED BY <3>2
  <2> QED BY <2>1, <2>2
<1>11. AccessTypeOK'
  BY <1>1 DEF AccessIInv, AccessTypeOK
<1>12. CASE cmd \in {"enable", "disable"}
  <2>1. intent' = "unsure"
    BY <1>1, <1>12
  <2>2. AfterDisable' /\ AfterEnable'
    BY <2>1 DEF AfterDisable, AfterEnable
  <2> QED BY <1>1, <1>8, <1>9, <1>10, <1>11, <2>1, <2>2 DEF AccessIInv
<1>13. CASE cmd \notin {"enable", "disable"}
  <2>1. intent' = intent
    BY <1>1, <1>13
  <2>2. intent # "unsure" => \A d \in Caller : caller'[d].cmd \notin {"enable", "disable"}
    BY <1>3, <1>5, <1>7, <1>13 DEF AccessIInv
  <2>3. AfterDisable'
    <3> SUFFICES ASSUME intent = "disable" PROVE AfterDisable'
      BY <2>1 DEF AfterDisable
    <3>1. ~ConfiguredByAudit' /\ \A f \in EnvFile : level5'[f] # "on"
      BY <1>1 DEF AccessIInv, AfterDisable, ConfiguredByAudit
    <3>2. \A d \in Caller : caller'[d].reg = "off"
      BY <1>3, <1>5, <1>7 DEF AccessIInv, AfterDisable
    <3> QED BY <3>1, <3>2 DEF AfterDisable
  <2>4. AfterEnable'
    <3> SUFFICES ASSUME intent = "enable" PROVE AfterEnable'
      BY <2>1 DEF AfterEnable
    <3>1. Configured' /\ \A s \in EnvFile : service'[s].at > audit'.configured => service'[s].level = "on"
      BY <1>1 DEF AccessIInv, AfterEnable, Configured
    <3>2. ASSUME NEW d \in Caller, caller'[d].todo # <<>>, Head(caller'[d].todo)[1] \in UsesLevel
          PROVE  caller'[d].reg = "on"
      BY <1>3, <1>5, <1>7, <3>2 DEF AccessIInv, AfterEnable
    <3> QED BY <3>1, <3>2 DEF AfterEnable
  <2> QED BY <1>1, <1>8, <1>9, <1>10, <1>11, <2>1, <2>2, <2>3, <2>4 DEF AccessIInv
<1> QED BY <1>12, <1>13

LEMMA EnableStep ==
  ASSUME AccessIInv, NEW c \in Caller, Enable(c)
  PROVE  AccessIInv'
<1>1. PICK steps : steps = EnableSteps
  OBVIOUS
<1>2. /\ steps \in Seq(StepsOf("enable")) /\ steps # <<>> /\ Len(steps) = 3
      /\ steps[1] = <<"set", Spawner>> /\ steps[2] = <<"each", "set">> /\ steps[3] = <<"audit", "configured">>
  BY <1>1, EnvFiles DEF EnableSteps, StepsOf
<1>3. InOrder(steps) /\ Head(steps)[1] \notin UsesLevel
  BY <1>2 DEF InOrder, UsesLevel
<1>4. \A f \in EnvFile : StillDue(steps, "set", f)
  <2>1. 1 \in DOMAIN steps /\ 2 \in DOMAIN steps
    BY <1>2
  <2> QED BY <1>2, <2>1 DEF StillDue
<1>5. Begin(c, "enable", steps)
  BY <1>1 DEF Enable
<1> QED BY <1>2, <1>3, <1>4, <1>5, BeginStep

LEMMA DisableStep ==
  ASSUME AccessIInv, NEW c \in Caller, Disable(c)
  PROVE  AccessIInv'
<1>1. PICK steps : steps = DisableSteps
  OBVIOUS
<1>2. /\ steps \in Seq(StepsOf("disable")) /\ steps # <<>> /\ Len(steps) = 3
      /\ steps[1] = <<"clear", Spawner>> /\ steps[2] = <<"each", "clear">> /\ steps[3] = <<"audit", "disabled">>
  BY <1>1, EnvFiles DEF DisableSteps, StepsOf
<1>3. InOrder(steps) /\ Head(steps)[1] \notin UsesLevel
  BY <1>2 DEF InOrder, UsesLevel
<1>4. \A f \in EnvFile : StillDue(steps, "clear", f)
  <2>1. 1 \in DOMAIN steps /\ 2 \in DOMAIN steps
    BY <1>2
  <2> QED BY <1>2, <2>1 DEF StillDue
<1>5. Begin(c, "disable", steps)
  BY <1>1 DEF Disable
<1> QED BY <1>2, <1>3, <1>4, <1>5, BeginStep

LEMMA SetupStep ==
  ASSUME AccessIInv, NEW c \in Caller, Setup(c)
  PROVE  AccessIInv'
<1>1. PICK steps : steps = SetupSteps
  OBVIOUS
<1>2. /\ steps \in Seq(StepsOf("setup")) /\ steps # <<>> /\ Len(steps) = 5
      /\ steps[1] = <<"preserve", Spawner>> /\ steps[2] = <<"write", Spawner>>
      /\ steps[3] = <<"preserve", Bot>> /\ steps[4] = <<"write", Bot>> /\ steps[5] = <<"refresh", Bot>>
  BY <1>1, EnvFiles DEF SetupSteps, StepsOf
<1>3. InOrder(steps) /\ Head(steps)[1] \notin UsesLevel
  BY <1>2 DEF InOrder, UsesLevel
<1>4. Begin(c, "setup", steps)
  BY <1>1 DEF Setup
<1> QED BY <1>2, <1>3, <1>4, BeginStep

LEMMA ConnectStep ==
  ASSUME AccessIInv, NEW c \in Caller, Connect(c)
  PROVE  AccessIInv'
<1>1. PICK p \in Profile : Begin(c, "connect", ConnectSteps(p))
  BY DEF Connect
<1>2. PICK steps : steps = ConnectSteps(p)
  OBVIOUS
<1>3. p \in EnvFile
  BY DEF EnvFile
<1>4. /\ steps \in Seq(StepsOf("connect")) /\ steps # <<>> /\ Len(steps) = 5
      /\ steps[1] = <<"read", Bot>> /\ steps[2] = <<"write", p>>
      /\ steps[3] = <<"read", Spawner>> /\ steps[4] = <<"write", Spawner>> /\ steps[5] = <<"name", p>>
  BY <1>2, <1>3, EnvFiles DEF ConnectSteps, StepsOf
<1>5. InOrder(steps) /\ Head(steps)[1] \notin UsesLevel
  BY <1>4 DEF InOrder, UsesLevel
<1> QED BY <1>1, <1>2, <1>4, <1>5, BeginStep

LEMMA StartServiceStep ==
  ASSUME AccessIInv, NEW c \in Caller, StartService(c)
  PROVE  AccessIInv'
<1>1. PICK s \in EnvFile : Begin(c, "start", StartSteps(s))
  BY DEF StartService
<1>2. PICK steps : steps = StartSteps(s)
  OBVIOUS
<1>3. CASE s \in Profile
  <2>1. /\ steps \in Seq(StepsOf("start")) /\ steps # <<>> /\ Len(steps) = 3
        /\ steps[1] = <<"read", Bot>> /\ steps[2] = <<"overlay", s>> /\ steps[3] = <<"record", s>>
    BY <1>2, <1>3, EnvFiles DEF StartSteps, StepsOf
  <2>2. InOrder(steps) /\ Head(steps)[1] \notin UsesLevel
    BY <2>1 DEF InOrder, UsesLevel
  <2> QED BY <1>1, <1>2, <2>1, <2>2, BeginStep
<1>4. CASE s \notin Profile
  <2>1. /\ steps \in Seq(StepsOf("start")) /\ steps # <<>> /\ Len(steps) = 2
        /\ steps[1] = <<"read", s>> /\ steps[2] = <<"record", s>>
    BY <1>2, <1>4, EnvFiles DEF StartSteps, StepsOf, EnvFile
  <2>2. InOrder(steps) /\ Head(steps)[1] \notin UsesLevel
    BY <2>1 DEF InOrder, UsesLevel
  <2> QED BY <1>1, <1>2, <2>1, <2>2, BeginStep
<1> QED BY <1>3, <1>4

-----------------------------------------------------------------------------
(* The other steps, and the theorems.                                      *)

LEMMA OthersStay ==
  ASSUME AccessIInv, UNCHANGED level5, DOMAIN caller' = Caller,
         \A d \in Caller : caller'[d] = caller[d] \/ caller'[d] = NoCommand
  PROVE  CallersOK' /\ AloneIsAlone' /\ SwitchIsOnItsWay'
<1>1. CallersOK'
  BY DEF AccessIInv, CallersOK
<1>2. AloneIsAlone'
  BY NoCommandFacts DEF AccessIInv, AloneIsAlone, Underway
<1>3. SwitchIsOnItsWay'
  <2> SUFFICES ASSUME NEW d \in Caller, caller'[d].alone
               PROVE  /\ caller'[d].cmd = "disable" =>
                           \A f \in EnvFile : level5'[f] = "on" => StillDue(caller'[d].todo, "clear", f)
                      /\ caller'[d].cmd = "enable" =>
                           \A f \in EnvFile : (IF f \in Profile THEN level5'[f] = "off" ELSE level5'[f] # "on") =>
                             StillDue(caller'[d].todo, "set", f)
    BY DEF SwitchIsOnItsWay, StillDue
  <2>1. CASE caller'[d] = caller[d]
    BY <2>1 DEF AccessIInv, SwitchIsOnItsWay
  <2>2. CASE caller'[d] = NoCommand
    BY <2>2, NoCommandFacts
  <2> QED BY <2>1, <2>2
<1> QED BY <1>1, <1>2, <1>3

LEMMA StopServiceStep ==
  ASSUME AccessIInv, NEW s \in EnvFile, StopService(s)
  PROVE  AccessIInv'
<1>1. /\ service' = [service EXCEPT ![s] = NotRunning] /\ DOMAIN service = EnvFile
      /\ UNCHANGED <<level5, profiles, audit, caller, second, intent>>
  BY DEF StopService, AccessIInv, AccessTypeOK
<1>2. /\ NotRunning \in [level : {"none", "on", "off"}, at : 0..second, alone : BOOLEAN] /\ NotRunning.at = 0
  BY DEF NotRunning, AccessIInv
<1>3. service' \in [EnvFile -> [level : {"none", "on", "off"}, at : 0..second, alone : BOOLEAN]]
  BY <1>1, <1>2 DEF AccessIInv, AccessTypeOK
<1>4. AccessTypeOK'
  BY <1>1, <1>3 DEF AccessIInv, AccessTypeOK
<1>5. ASSUME NEW t \in EnvFile PROVE service'[t].at > audit.configured => service'[t] = service[t]
  BY <1>1, <1>2 DEF AccessIInv, AccessTypeOK
<1>6. AfterDisable'
  BY <1>1 DEF AccessIInv, AfterDisable, ConfiguredByAudit
<1>7. AfterEnable'
  BY <1>1, <1>5 DEF AccessIInv, AfterEnable, Configured
<1>8. CallersOK' /\ AloneIsAlone' /\ SwitchIsOnItsWay'
  BY <1>1, OthersStay DEF AccessIInv, CallersOK
<1> QED BY <1>1, <1>4, <1>6, <1>7, <1>8 DEF AccessIInv

LEMMA DieStep ==
  ASSUME AccessIInv, NEW c \in Caller, Die(c)
  PROVE  AccessIInv'
<1>1. /\ caller' = [caller EXCEPT ![c] = NoCommand] /\ DOMAIN caller = Caller
      /\ UNCHANGED <<level5, profiles, audit, service, second, intent>>
  BY DEF Die, AccessIInv, CallersOK
<1>2. /\ DOMAIN caller' = Caller /\ caller'[c] = NoCommand /\ \A d \in Caller : d # c => caller'[d] = caller[d]
  BY <1>1
<1>3. CallersOK' /\ AloneIsAlone' /\ SwitchIsOnItsWay'
  BY <1>1, <1>2, OthersStay
<1>6. AfterDisable'
  BY <1>1, <1>2, NoCommandFacts DEF AccessIInv, AfterDisable, ConfiguredByAudit
<1>7. AfterEnable'
  BY <1>1, <1>2, NoCommandFacts DEF AccessIInv, AfterEnable, Configured
<1>8. AccessTypeOK'
  BY <1>1 DEF AccessIInv, AccessTypeOK
<1>9. (intent # "unsure" => \A d \in Caller : caller[d].cmd \notin {"enable", "disable"})'
  BY <1>1, <1>2, NoCommandFacts DEF AccessIInv
<1> QED BY <1>1, <1>3, <1>6, <1>7, <1>8, <1>9 DEF AccessIInv

LEMMA ASecondStep ==
  ASSUME AccessIInv, ASecond
  PROVE  AccessIInv'
<1>1. second' = second + 1 /\ UNCHANGED <<level5, profiles, audit, service, caller, intent>> /\ second \in Nat
  BY DEF ASecond, AccessIInv
<1>2. 0..second \subseteq 0..second' /\ second' \in Nat
  BY <1>1
<1>3. /\ audit' \in [configured : 0..second', disabled : 0..second']
      /\ service' \in [EnvFile -> [level : {"none", "on", "off"}, at : 0..second', alone : BOOLEAN]]
  BY <1>1, <1>2 DEF AccessIInv, AccessTypeOK
<1>4. AccessTypeOK'
  BY <1>1, <1>3 DEF AccessIInv, AccessTypeOK
<1>5. CallersOK' /\ AloneIsAlone' /\ SwitchIsOnItsWay'
  BY <1>1, OthersStay DEF AccessIInv, CallersOK
<1>6. AfterDisable' /\ AfterEnable'
  BY <1>1 DEF AccessIInv, AfterDisable, AfterEnable, Configured, ConfiguredByAudit
<1> QED BY <1>1, <1>2, <1>4, <1>5, <1>6 DEF AccessIInv

LEMMA AccessInitInv == AccessInit => AccessIInv
<1> SUFFICES ASSUME AccessInit PROVE AccessIInv
  OBVIOUS
<1>1. caller = [c \in Caller |-> NoCommand] /\ second = 1 /\ intent = "unsure"
  BY DEF AccessInit
<1>2. AccessTypeOK
  <2>1. level5 \in [EnvFile -> {"absent", "on", "off"}]
    BY DEF AccessInit
  <2>2. audit \in [configured : 0..second, disabled : 0..second]
    BY <1>1 DEF AccessInit
  <2>3. NotRunning \in [level : {"none", "on", "off"}, at : 0..second, alone : BOOLEAN]
    BY <1>1 DEF NotRunning
  <2>4. service \in [EnvFile -> [level : {"none", "on", "off"}, at : 0..second, alone : BOOLEAN]]
    BY <2>3 DEF AccessInit
  <2> QED BY <1>1, <2>1, <2>2, <2>4 DEF AccessInit, AccessTypeOK
<1>3. CallersOK /\ AloneIsAlone /\ SwitchIsOnItsWay
  BY <1>1, NoCommandFacts DEF CallersOK, AloneIsAlone, SwitchIsOnItsWay, Underway
<1> QED BY <1>1, <1>2, <1>3 DEF AccessIInv, AfterDisable, AfterEnable

LEMMA AccessNextInv == AccessIInv /\ [AccessNext]_access_vars => AccessIInv'
<1> SUFFICES ASSUME AccessIInv, [AccessNext]_access_vars PROVE AccessIInv'
  OBVIOUS
<1>1. CASE UNCHANGED access_vars
  <2>1. UNCHANGED <<level5, profiles, audit, service, caller, second, intent>>
    BY <1>1 DEF access_vars
  <2>2. CallersOK' /\ AloneIsAlone' /\ SwitchIsOnItsWay'
    BY <2>1, OthersStay DEF AccessIInv, CallersOK
  <2>3. AccessTypeOK' /\ AfterDisable' /\ AfterEnable'
    BY <2>1 DEF AccessIInv, AccessTypeOK, AfterDisable, AfterEnable, Configured, ConfiguredByAudit
  <2> QED BY <2>1, <2>2, <2>3 DEF AccessIInv
<1>2. CASE AccessNext
  <2>1. ASSUME NEW c \in Caller,
               \/ Enable(c) \/ Disable(c) \/ Setup(c) \/ Connect(c) \/ StartService(c)
               \/ SetKeys(c) \/ ClearKeys(c) \/ EachTelegramFile(c) \/ WriteAudit(c)
        PROVE  AccessIInv'
    BY <2>1, EnableStep, DisableStep, SetupStep, ConnectStep, StartServiceStep,
       SetKeysStep, ClearKeysStep, EachTelegramFileStep, WriteAuditStep
  <2>2. ASSUME NEW c \in Caller,
               \/ PreserveKeys(c) \/ RefreshProfiles(c) \/ ReadKeys(c) \/ OverlayKeys(c)
               \/ WriteKeys(c) \/ NameProfile(c) \/ RecordService(c) \/ Die(c)
        PROVE  AccessIInv'
    BY <2>2, PreserveKeysStep, RefreshProfilesStep, ReadKeysStep, OverlayKeysStep,
       WriteKeysStep, NameProfileStep, RecordServiceStep, DieStep
  <2> QED BY <1>2, <2>1, <2>2, StopServiceStep, ASecondStep DEF AccessNext
<1> QED BY <1>1, <1>2

(* The inductive invariant holds in every reachable state. *)
LEMMA AccessInductive == AccessSpec => []AccessIInv
BY AccessInitInv, AccessNextInv, PTL DEF AccessSpec

(* What `spark access disable-level5`, or an enable, that ran alone left   *)
(* in the env files stays, whatever setups, connects and starts follow,    *)
(* interleave or are killed: for any profiles and any number of them.      *)
THEOREM SwitchesStick == AccessSpec => []SwitchSticks
<1>1. AccessIInv => SwitchSticks
  BY DEF AccessIInv, AfterDisable, AfterEnable, SwitchSticks
<1> QED BY <1>1, AccessInductive, PTL

(* `spark access status --level 5` after an enable that ran alone is right *)
(* about the services started since.                                       *)
THEOREM StatusIsRight == AccessSpec => []StatusMatchesServices
<1>1. AccessIInv => StatusMatchesServices
  <2> SUFFICES ASSUME AccessIInv, intent = "enable", audit.disabled < audit.configured
               PROVE  /\ ServicesActive => \A s \in EnvFile :
                           Counted(s) /\ service[s].alone /\ service[s].at # audit.configured =>
                             service[s].level = "on"
                      /\ (\A s \in EnvFile : s \notin Profile => service[s].at > audit.configured) =>
                           ServicesActive
    BY DEF StatusMatchesServices
  <2>1. Configured /\ \A s \in EnvFile : service[s].at > audit.configured => service[s].level = "on"
    BY DEF AccessIInv, AfterEnable
  <2>2. /\ audit.configured \in Nat /\ audit.disabled \in Nat
        /\ \A s \in EnvFile : service[s].at \in Nat
    BY DEF AccessIInv, AccessTypeOK
  <2>3. ASSUME NEW s \in EnvFile, Counted(s), service[s].at # audit.configured PROVE service[s].level = "on"
    BY <2>1, <2>2, <2>3 DEF Counted
  <2>4. ASSUME \A s \in EnvFile : s \notin Profile => service[s].at > audit.configured PROVE ServicesActive
    <3>1. ConfiguredByAudit
      BY <2>2 DEF ConfiguredByAudit
    <3>2. ASSUME NEW s \in {Spawner, Bot} PROVE Counted(s)
      <4>1. s \in EnvFile /\ service[s].at > audit.configured
        BY <2>4, EnvFiles
      <4>2. service[s] # NotRunning
        BY <2>2, <4>1 DEF NotRunning
      <4> QED BY <2>2, <4>1, <4>2 DEF Counted
    <3> QED BY <2>1, <3>1, <3>2 DEF ServicesActive, BotService
  <2> QED BY <2>3, <2>4
<1> QED BY <1>1, AccessInductive, PTL

-----------------------------------------------------------------------------
(* Browser use: one invocation of it.                                      *)

BrowseRecord ==
  [does : {"nothing", "probe", "open", "screenshot", "task"},
   at : {"idle", "ended", "agent", "no browser", "task failed", "drive", "drove", "record failure", "raise",
         "close", "record success"},
   passed : 0..4, began : 0..MaxNow, saw : SUBSET {"page", "blank"}, alone : BOOLEAN, ok : BOOLEAN]

LEMMA BrowseFacts ==
  ASSUME BrowserIInv
  PROVE  /\ browse \in [BrowserUser -> BrowseRecord] /\ MaxNow \in Nat /\ Session = 0..MaxNow
         /\ \A u \in BrowserUser : browse[u] \in BrowseRecord
         /\ \A u \in BrowserUser : Browsing(u) =>
              /\ SessionOf(u) \in Session /\ browse[u].began \in 1..MaxNow
              /\ browse[u].does \in {"probe", "open", "screenshot", "task"}
              /\ SessionOf(u) = ProbeSession <=> browse[u].does = "probe"
<1>1. browse \in [BrowserUser -> BrowseRecord] /\ MaxNow \in Nat /\ Session = 0..MaxNow
  BY BrowserAssumption DEF BrowserIInv, BrowsesTyped, BrowseRecord, Session
<1>2. ASSUME NEW u \in BrowserUser, Browsing(u)
      PROVE  /\ SessionOf(u) \in Session /\ browse[u].began \in 1..MaxNow
             /\ browse[u].does \in {"probe", "open", "screenshot", "task"}
             /\ SessionOf(u) = ProbeSession <=> browse[u].does = "probe"
  <2>1. browse[u].does # "nothing" /\ browse[u].began \in 1..MaxNow
    BY <1>2 DEF BrowserIInv, BrowsesTyped
  <2>2. browse[u].does \in {"nothing", "probe", "open", "screenshot", "task"}
    BY <1>1 DEF BrowseRecord
  <2> QED BY <1>1, <2>1, <2>2 DEF SessionOf, ProbeSession
<1> QED BY <1>1, <1>2

LEMMA StepsFacts ==
  /\ Len(BrowseSteps("probe")) = 4 /\ Len(BrowseSteps("open")) = 3
  /\ Len(BrowseSteps("screenshot")) = 4 /\ Len(BrowseSteps("task")) = 4
  /\ BrowseSteps("probe")[1] = "doctor" /\ BrowseSteps("probe")[2] = "open"
  /\ BrowseSteps("probe")[3] = "state" /\ BrowseSteps("probe")[4] = "screenshot"
  /\ BrowseSteps("screenshot")[4] = "screenshot"
BY DEF BrowseSteps

(* A step of u that stays in its session, or leaves it as it should.       *)
LEMMA BrowseGoesOn ==
  ASSUME BrowserIInv, NEW u \in BrowserUser, Browsing(u), NEW j \in BrowseRecord,
         browse' = [browse EXCEPT ![u] = j], j.at # "idle",
         j.does = browse[u].does, j.began = browse[u].began, j.alone = browse[u].alone,
         BrowserTypeOK', receipt' \in [Session -> [of : BrowserUser \cup {NoOne}, ok : BOOLEAN]],
         \A s \in Session : s # SessionOf(u) =>
           page'[s] = page[s] /\ picture'[s] = picture[s] /\ receipt'[s] = receipt[s],
         j.does = "probe" /\ j.alone =>
           /\ j.saw \subseteq {"page"}
           /\ j.at \in {"drive", "drove"} /\ j.passed >= 2 => page'[ProbeSession] = "page",
         j.does \in {"open", "screenshot"} =>
           /\ j.at = "drove" \/ j.ok => j.passed = Len(BrowseSteps(j.does))
           /\ j.alone /\ j.ok => receipt'[SessionOf(u)] = [of |-> u, ok |-> TRUE]
           /\ j.alone /\ j.does = "screenshot" /\ j.passed = 4 => picture'[SessionOf(u)] = u,
         InPlace(j),
         proof'.says = "ready" /\ proof'.alone => proof'.true,
         abandoned \ {SessionOf(u)} \subseteq abandoned',
         \/ j.at \in {"drive", "drove", "record failure", "raise", "close"}
         \/ page'[SessionOf(u)] = "closed" \/ SessionOf(u) \in abandoned'
         \/ ~InSession(u) /\ page' = page /\ abandoned \subseteq abandoned'
  PROVE  BrowserIInv'
<1>1. /\ browse'[u] = j /\ \A o \in BrowserUser : o # u => browse'[o] = browse[o]
      /\ browse' \in [BrowserUser -> BrowseRecord] /\ MaxNow \in Nat
  BY BrowseFacts
<1>2. /\ SessionOf(u)' = SessionOf(u) /\ Browsing(u)'
      /\ \A o \in BrowserUser : o # u => /\ SessionOf(o)' = SessionOf(o) /\ Browsing(o)' = Browsing(o)
                                         /\ InSession(o)' = InSession(o)
  BY <1>1 DEF SessionOf, Browsing, BrowseAt, InSession
<1>3. BrowsesTyped'
  <2>1. \A o \in BrowserUser : Browsing(o)' => browse'[o].does # "nothing" /\ browse'[o].began \in 1..MaxNow
    BY <1>1, <1>2 DEF BrowserIInv, BrowsesTyped
  <2> QED BY <1>1, <2>1 DEF BrowsesTyped, BrowseRecord
<1>4. AloneInSession'
  <2> SUFFICES ASSUME NEW v \in BrowserUser, NEW o \in BrowserUser, v # o, Browsing(v)', Browsing(o)',
                      SessionOf(v)' = SessionOf(o)'
               PROVE  ~browse'[v].alone
    BY DEF AloneInSession
  <2>1. Browsing(v) /\ Browsing(o) /\ SessionOf(v) = SessionOf(o)
    BY <1>2
  <2>2. browse'[v].alone = browse[v].alone
    BY <1>1
  <2> QED BY <2>1, <2>2 DEF BrowserIInv, AloneInSession
<1>5. ASSUME NEW o \in BrowserUser, o # u, Browsing(o), browse[o].alone PROVE SessionOf(o) # SessionOf(u)
  BY <1>5 DEF BrowserIInv, AloneInSession
<1>6. ProbeSeesPage'
  <2> SUFFICES ASSUME NEW o \in BrowserUser, Browsing(o)', browse'[o].does = "probe", browse'[o].alone
               PROVE  /\ browse'[o].saw \subseteq {"page"}
                      /\ browse'[o].at \in {"drive", "drove"} /\ browse'[o].passed >= 2 =>
                           page'[ProbeSession] = "page"
    BY DEF ProbeSeesPage
  <2>1. CASE o = u
    BY <1>1, <2>1
  <2>2. CASE o # u
    <3>1. Browsing(o) /\ browse'[o] = browse[o]
      BY <1>1, <1>2, <2>2
    <3>2. SessionOf(o) = ProbeSession /\ SessionOf(o) \in Session
      BY <3>1, BrowseFacts
    <3>3. page'[ProbeSession] = page[ProbeSession]
      BY <1>5, <2>2, <3>1, <3>2
    <3> QED BY <3>1, <3>3 DEF BrowserIInv, ProbeSeesPage
  <2> QED BY <2>1, <2>2
<1>7. ActionLeavesFiles'
  <2> SUFFICES ASSUME NEW o \in BrowserUser, Browsing(o)', browse'[o].does \in {"open", "screenshot"}
               PROVE  /\ browse'[o].at = "drove" \/ browse'[o].ok =>
                           browse'[o].passed = Len(BrowseSteps(browse'[o].does))
                      /\ browse'[o].alone /\ browse'[o].ok =>
                           receipt'[SessionOf(o)'] = [of |-> o, ok |-> TRUE]
                      /\ browse'[o].alone /\ browse'[o].does = "screenshot" /\ browse'[o].passed = 4 =>
                           picture'[SessionOf(o)'] = o
    BY DEF ActionLeavesFiles, BrowseSteps, BrowseAt
  <2>1. CASE o = u
    BY <1>1, <1>2, <2>1
  <2>2. CASE o # u
    <3>1. Browsing(o) /\ browse'[o] = browse[o] /\ SessionOf(o)' = SessionOf(o) /\ SessionOf(o) \in Session
      BY <1>1, <1>2, <2>2, BrowseFacts
    <3>2. browse[o].alone => /\ receipt'[SessionOf(o)] = receipt[SessionOf(o)]
                             /\ picture'[SessionOf(o)] = picture[SessionOf(o)]
      BY <1>5, <2>2, <3>1
    <3>3. browse[o].does \in {"open", "screenshot"}
      BY <3>1
    <3>4. /\ browse[o].at = "drove" \/ browse[o].ok => browse[o].passed = Len(BrowseSteps(browse[o].does))
          /\ browse[o].alone /\ browse[o].ok => receipt[SessionOf(o)] = [of |-> o, ok |-> TRUE]
          /\ browse[o].alone /\ browse[o].does = "screenshot" /\ browse[o].passed = 4 => picture[SessionOf(o)] = o
      BY <3>1, <3>3 DEF BrowserIInv, ActionLeavesFiles, BrowseAt
    <3> QED BY <3>1, <3>2, <3>4
  <2> QED BY <2>1, <2>2
<1>8. \A o \in BrowserUser : InPlace(browse'[o])
  BY <1>1 DEF BrowserIInv
<1>9. ASSUME NEW s \in Session \ abandoned'
      PROVE  page'[s] = "closed" \/ \E o \in BrowserUser : InSession(o)' /\ SessionOf(o)' = s
  <2>1. ASSUME s \notin abandoned PROVE page[s] = "closed" \/ \E o \in BrowserUser : InSession(o) /\ SessionOf(o) = s
    BY <2>1 DEF BrowserIInv
  <2>2. CASE s # SessionOf(u)
    <3>1. page'[s] = page[s] /\ s \notin abandoned
      BY <2>2
    <3>2. ASSUME NEW o \in BrowserUser, InSession(o), SessionOf(o) = s PROVE InSession(o)' /\ SessionOf(o)' = s
      BY <1>2, <2>2, <3>2
    <3> QED BY <2>1, <3>1, <3>2
  <2>3. CASE s = SessionOf(u) /\ j.at \in {"drive", "drove", "record failure", "raise", "close"}
    <3>1. InSession(u)' /\ SessionOf(u)' = s
      BY <1>1, <1>2, <2>3 DEF InSession
    <3> QED BY <3>1
  <2>4. CASE s = SessionOf(u) /\ ~InSession(u) /\ page' = page /\ abandoned \subseteq abandoned'
    <3>1. ASSUME NEW o \in BrowserUser, InSession(o), SessionOf(o) = s PROVE InSession(o)' /\ SessionOf(o)' = s
      BY <1>2, <2>4, <3>1
    <3> QED BY <2>1, <2>4, <3>1
  <2> QED BY <2>2, <2>3, <2>4
<1>10. \A s \in Session \ abandoned' :
         page'[s] = "closed" \/ \E o \in BrowserUser : InSession(o)' /\ SessionOf(o)' = s
  BY <1>9
<1> QED BY <1>3, <1>4, <1>6, <1>7, <1>8, <1>10 DEF BrowserIInv, InPlace, BrowseSteps

-----------------------------------------------------------------------------
(* Driving the browser.                                                    *)

LEMMA PassingFacts ==
  ASSUME BrowserIInv, NEW u \in BrowserUser, BrowseAt(u, "drive"), NEW saw \in SUBSET {"page", "blank"},
         Passed(u, saw)
  PROVE  \E j \in BrowseRecord :
           /\ browse' = [browse EXCEPT ![u] = j]
           /\ j.does = browse[u].does /\ j.began = browse[u].began /\ j.alone = browse[u].alone
           /\ j.ok = browse[u].ok /\ j.passed = browse[u].passed + 1 /\ j.saw = browse[u].saw \cup saw
           /\ j.at = IF browse[u].passed + 1 = Len(BrowseSteps(browse[u].does)) THEN "drove" ELSE "drive"
<1>1. browse[u] \in BrowseRecord /\ DOMAIN browse = BrowserUser /\ Browsing(u)
  BY BrowseFacts DEF BrowseAt, Browsing
<1>2. PICK b, n, s, at :
        /\ b = browse[u] /\ n = browse[u].passed + 1 /\ s = browse[u].saw \cup saw
        /\ at = IF browse[u].passed + 1 = Len(BrowseSteps(browse[u].does)) THEN "drove" ELSE "drive"
  OBVIOUS
<1>3. n \in 0..4
  <2>1. b.passed < Len(BrowseSteps(b.does)) /\ b.does \in {"probe", "open", "screenshot", "task"} /\ b.passed \in 0..4
    BY <1>1, <1>2, BrowseFacts DEF BrowserIInv, BrowseRecord, InPlace, BrowseAt
  <2>2. PICK m : m = Len(BrowseSteps(b.does))
    OBVIOUS
  <2>3. m \in {3, 4}
    BY <2>1, <2>2, StepsFacts
  <2>4. b.passed \in Nat /\ b.passed < m /\ n = b.passed + 1
    BY <1>2, <2>1, <2>2
  <2> QED BY <2>3, <2>4
<1>4. /\ b \in BrowseRecord /\ s \in SUBSET {"page", "blank"} /\ at \in {"drove", "drive"}
  BY <1>1, <1>2 DEF BrowseRecord
<1>5. PICK k : k = [b EXCEPT !.passed = n]
  OBVIOUS
<1>6. PICK l : l = [k EXCEPT !.saw = s]
  OBVIOUS
<1>7. PICK j : j = [l EXCEPT !.at = at]
  OBVIOUS
<1>8. /\ k \in BrowseRecord /\ k.does = b.does /\ k.began = b.began /\ k.alone = b.alone /\ k.ok = b.ok
      /\ k.passed = n /\ k.saw = b.saw
  BY <1>3, <1>4, <1>5 DEF BrowseRecord
<1>9. /\ l \in BrowseRecord /\ l.does = b.does /\ l.began = b.began /\ l.alone = b.alone /\ l.ok = b.ok
      /\ l.passed = n /\ l.saw = s
  BY <1>4, <1>6, <1>8 DEF BrowseRecord
<1>10. /\ j \in BrowseRecord /\ j.does = b.does /\ j.began = b.began /\ j.alone = b.alone /\ j.ok = b.ok
       /\ j.passed = n /\ j.saw = s /\ j.at = at
  BY <1>4, <1>7, <1>9 DEF BrowseRecord
<1>11. browse' = [browse EXCEPT ![u] = j]
  BY <1>1, <1>2, <1>5, <1>6, <1>7 DEF Passed
<1> QED BY <1>2, <1>10, <1>11

(* Where a driven session may be, and what the next step is.               *)
LEMMA DrivingFacts ==
  ASSUME BrowserIInv, NEW u \in BrowserUser, BrowseAt(u, "drive")
  PROVE  /\ Browsing(u) /\ SessionOf(u) \in Session /\ browse[u].passed \in Nat
         /\ browse[u].passed + 1 <= Len(BrowseSteps(browse[u].does)) /\ Len(BrowseSteps(browse[u].does)) \in {3, 4}
         /\ Sees(u) \in {"page", "blank"}
         /\ browse[u].does = "probe" =>
              /\ BrowseStep(u) = "doctor" <=> browse[u].passed = 0
              /\ BrowseStep(u) = "open" <=> browse[u].passed = 1
         /\ browse[u].does = "screenshot" /\ browse[u].passed = 3 => BrowseStep(u) = "screenshot"
         /\ browse[u].does \in {"open", "screenshot"} => ~browse[u].ok
         /\ browse[u].does = "probe" /\ browse[u].alone =>
              /\ browse[u].saw \subseteq {"page"}
              /\ browse[u].passed >= 2 => page[ProbeSession] = "page" /\ Sees(u) = "page"
<1>1. /\ Browsing(u) /\ SessionOf(u) \in Session /\ browse[u] \in BrowseRecord
      /\ browse[u].does \in {"probe", "open", "screenshot", "task"}
      /\ SessionOf(u) = ProbeSession <=> browse[u].does = "probe"
  BY BrowseFacts DEF BrowseAt, Browsing
<1>2. browse[u].passed \in 0..4 /\ browse[u].passed < Len(BrowseSteps(browse[u].does)) /\ browse[u].ok \in BOOLEAN
  BY <1>1 DEF BrowserIInv, BrowseRecord, InPlace, BrowseAt
<1>3. Len(BrowseSteps(browse[u].does)) \in {3, 4}
  BY <1>1, StepsFacts
<1>4. ASSUME browse[u].does = "probe"
      PROVE  /\ BrowseStep(u) = "doctor" <=> browse[u].passed = 0
             /\ BrowseStep(u) = "open" <=> browse[u].passed = 1
  <2>1. browse[u].passed \in {0, 1, 2, 3}
    <3>1. PICK n \in 0..4 : n = browse[u].passed
      BY <1>2
    <3>2. n < 4
      BY <1>2, <1>4, <3>1, StepsFacts
    <3> QED BY <3>1, <3>2
  <2>2. BrowseStep(u) = BrowseSteps("probe")[browse[u].passed + 1]
    BY <1>4 DEF BrowseStep
  <2>3. CASE browse[u].passed = 0
    BY <2>2, <2>3, StepsFacts
  <2>4. CASE browse[u].passed = 1
    BY <2>2, <2>4, StepsFacts
  <2>5. CASE browse[u].passed = 2
    BY <2>2, <2>5, StepsFacts
  <2>6. CASE browse[u].passed = 3
    BY <2>2, <2>6, StepsFacts
  <2> QED BY <2>1, <2>3, <2>4, <2>5, <2>6
<1>5. browse[u].does = "screenshot" /\ browse[u].passed = 3 => BrowseStep(u) = "screenshot"
  BY StepsFacts DEF BrowseStep
<1>6. browse[u].does \in {"open", "screenshot"} => ~browse[u].ok
  <2> SUFFICES ASSUME browse[u].does \in {"open", "screenshot"}, browse[u].ok PROVE FALSE
    OBVIOUS
  <2>1. browse[u].passed = Len(BrowseSteps(browse[u].does))
    BY <1>1 DEF BrowserIInv, ActionLeavesFiles
  <2> QED BY <1>2, <2>1
<1>7. browse[u].does = "probe" /\ browse[u].alone =>
        /\ browse[u].saw \subseteq {"page"}
        /\ browse[u].passed >= 2 => page[ProbeSession] = "page" /\ Sees(u) = "page"
  BY <1>1 DEF BrowserIInv, ProbeSeesPage, BrowseAt, Sees
<1>8. Sees(u) \in {"page", "blank"}
  BY DEF Sees
<1> QED BY <1>1, <1>2, <1>3, <1>4, <1>5, <1>6, <1>7, <1>8

(* A step of the session that passes, with what it saw and left there.     *)
LEMMA StepPasses ==
  ASSUME BrowserIInv, NEW u \in BrowserUser, BrowseAt(u, "drive"), NEW saw \in SUBSET {"page", "blank"},
         Passed(u, saw), BrowserTypeOK', UNCHANGED <<proof, receipt, around, abandoned>>,
         \A s \in Session : s # SessionOf(u) => page'[s] = page[s] /\ picture'[s] = picture[s],
         browse[u].does = "probe" /\ browse[u].alone =>
           /\ browse[u].passed >= 1 => page'[ProbeSession] = "page"
           /\ saw \subseteq {"page"},
         browse[u].does = "screenshot" /\ browse[u].passed = 3 => picture'[SessionOf(u)] = u
  PROVE  BrowserIInv'
<1>1. PICK j \in BrowseRecord :
        /\ browse' = [browse EXCEPT ![u] = j]
        /\ j.does = browse[u].does /\ j.began = browse[u].began /\ j.alone = browse[u].alone
        /\ j.ok = browse[u].ok /\ j.passed = browse[u].passed + 1 /\ j.saw = browse[u].saw \cup saw
        /\ j.at = IF browse[u].passed + 1 = Len(BrowseSteps(browse[u].does)) THEN "drove" ELSE "drive"
  BY PassingFacts
<1>2. /\ Browsing(u) /\ browse[u].passed \in Nat /\ browse[u].passed + 1 <= Len(BrowseSteps(browse[u].does))
      /\ Len(BrowseSteps(browse[u].does)) \in {3, 4}
      /\ browse[u].does \in {"open", "screenshot"} => ~browse[u].ok
      /\ browse[u].does = "probe" /\ browse[u].alone => browse[u].saw \subseteq {"page"}
  BY DrivingFacts
<1>3. /\ j.at \in {"drive", "drove"} /\ (j.at = "drive" => j.passed < Len(BrowseSteps(j.does)))
      /\ j.at = "drove" => j.passed = Len(BrowseSteps(j.does))
  <2>1. PICK m, n : m = Len(BrowseSteps(browse[u].does)) /\ n = browse[u].passed
    OBVIOUS
  <2>2. /\ m \in {3, 4} /\ n \in Nat /\ n + 1 <= m
    BY <1>2, <2>1
  <2>4. /\ j.passed = n + 1 /\ j.does = browse[u].does
    BY <1>1, <2>1
  <2>5. j.at = IF n + 1 = m THEN "drove" ELSE "drive"
    BY <1>1, <2>1
  <2>3. /\ j.at \in {"drive", "drove"} /\ (j.at = "drive" => j.passed < m) /\ (j.at = "drove" => j.passed = m)
    BY <2>2, <2>4, <2>5
  <2> QED BY <2>1, <2>3, <2>4
<1>4. j.does = "probe" /\ j.alone =>
        /\ j.saw \subseteq {"page"}
        /\ j.at \in {"drive", "drove"} /\ j.passed >= 2 => page'[ProbeSession] = "page"
  <2> SUFFICES ASSUME j.does = "probe", j.alone
               PROVE  /\ j.saw \subseteq {"page"}
                      /\ j.passed >= 2 => page'[ProbeSession] = "page"
    OBVIOUS
  <2>1. browse[u].does = "probe" /\ browse[u].alone
    BY <1>1
  <2>2. browse[u].saw \subseteq {"page"} /\ saw \subseteq {"page"}
    BY <1>2, <2>1
  <2>3. j.passed >= 2 => browse[u].passed >= 1
    BY <1>1, <1>2
  <2> QED BY <1>1, <2>1, <2>2, <2>3
<1>5. j.does \in {"open", "screenshot"} =>
        /\ j.at = "drove" \/ j.ok => j.passed = Len(BrowseSteps(j.does))
        /\ j.alone /\ j.ok => receipt'[SessionOf(u)] = [of |-> u, ok |-> TRUE]
        /\ j.alone /\ j.does = "screenshot" /\ j.passed = 4 => picture'[SessionOf(u)] = u
  BY <1>1, <1>2, <1>3
<1>6. /\ receipt' \in [Session -> [of : BrowserUser \cup {NoOne}, ok : BOOLEAN]]
      /\ proof'.says = "ready" /\ proof'.alone => proof'.true
  BY DEF BrowserIInv, BrowsesTyped
<1>7. j.at # "idle" /\ \A s \in Session : s # SessionOf(u) =>
        page'[s] = page[s] /\ picture'[s] = picture[s] /\ receipt'[s] = receipt[s]
  BY <1>3
<1>8. InPlace(j)
  BY <1>3 DEF InPlace
<1> QED BY <1>1, <1>2, <1>3, <1>4, <1>5, <1>6, <1>7, <1>8, BrowseGoesOn

LEMMA CommandPassesStep ==
  ASSUME BrowserIInv, NEW u \in BrowserUser, CommandPasses(u)
  PROVE  BrowserIInv'
<1>1. /\ BrowseAt(u, "drive") /\ BrowseStep(u) # "screenshot"
      /\ UNCHANGED <<proof, shot, receipt, picture, package, onPath, now, begun, abandoned>>
  BY DEF CommandPasses, browser_files, around
<1>2. /\ SessionOf(u) \in Session /\ DOMAIN page = Session /\ Sees(u) \in {"page", "blank"}
      /\ (SessionOf(u) = ProbeSession <=> browse[u].does = "probe")
      /\ browse[u].passed \in Nat
      /\ browse[u].does = "probe" =>
           /\ BrowseStep(u) = "doctor" <=> browse[u].passed = 0
           /\ BrowseStep(u) = "open" <=> browse[u].passed = 1
      /\ browse[u].does = "screenshot" /\ browse[u].passed = 3 => BrowseStep(u) = "screenshot"
      /\ browse[u].does = "probe" /\ browse[u].alone /\ browse[u].passed >= 2 =>
           page[ProbeSession] = "page" /\ Sees(u) = "page"
  BY <1>1, DrivingFacts, BrowseFacts DEF BrowserIInv, BrowserTypeOK
<1>3. PICK saw \in SUBSET {"page", "blank"} :
        /\ Passed(u, saw)
        /\ \/ BrowseStep(u) = "doctor" /\ saw = {} /\ page' = page
           \/ BrowseStep(u) = "open" /\ saw = {} /\ page' = [page EXCEPT ![SessionOf(u)] = "page"]
           \/ /\ BrowseStep(u) \notin {"doctor", "open"} /\ saw = {Sees(u)}
              /\ page' = [page EXCEPT ![SessionOf(u)] = Sees(u)]
  <2>1. CASE BrowseStep(u) = "doctor"
    BY <2>1 DEF CommandPasses
  <2>2. CASE BrowseStep(u) = "open"
    BY <2>2 DEF CommandPasses
  <2>3. CASE BrowseStep(u) \notin {"doctor", "open"}
    <3>1. Passed(u, {Sees(u)}) /\ page' = [page EXCEPT ![SessionOf(u)] = Sees(u)]
      BY <2>3 DEF CommandPasses
    <3> QED BY <1>2, <2>3, <3>1
  <2> QED BY <2>1, <2>2, <2>3
<1>4. page' \in [Session -> {"closed", "blank", "page"}]
  BY <1>2, <1>3 DEF BrowserIInv, BrowserTypeOK
<1>5. BrowserTypeOK'
  <2>1. PICK j \in BrowseRecord : browse' = [browse EXCEPT ![u] = j]
    BY <1>1, <1>3, PassingFacts
  <2>2. \A o \in BrowserUser : browse'[o] \in BrowseRecord
    BY <2>1, BrowseFacts
  <2>3. \A o \in BrowserUser : browse'[o].passed \in 0..4 /\ browse'[o].began \in 0..MaxNow
    BY <2>2 DEF BrowseRecord
  <2> QED BY <1>1, <1>4, <2>3 DEF BrowserIInv, BrowserTypeOK, Session
<1>6. \A s \in Session : s # SessionOf(u) => page'[s] = page[s] /\ picture'[s] = picture[s]
  BY <1>1, <1>2, <1>3
<1>7. browse[u].does = "probe" /\ browse[u].alone =>
        /\ browse[u].passed >= 1 => page'[ProbeSession] = "page"
        /\ saw \subseteq {"page"}
  BY <1>2, <1>3
<1> QED BY <1>1, <1>2, <1>3, <1>5, <1>6, <1>7, StepPasses DEF around

LEMMA ScreenshotPassesStep ==
  ASSUME BrowserIInv, NEW u \in BrowserUser, ScreenshotPasses(u)
  PROVE  BrowserIInv'
<1>1. /\ BrowseAt(u, "drive") /\ Passed(u, {Sees(u)})
      /\ page' = [page EXCEPT ![SessionOf(u)] = Sees(u)] /\ shot' \in BOOLEAN
      /\ UNCHANGED <<proof, receipt, package, onPath, now, begun, abandoned>>
      /\ IF browse[u].does = "probe" THEN picture' = picture ELSE picture' = [picture EXCEPT ![SessionOf(u)] = u]
  BY DEF ScreenshotPasses, around, BrowserIInv, BrowserTypeOK
<1>2. /\ SessionOf(u) \in Session /\ DOMAIN page = Session /\ DOMAIN picture = Session
      /\ Sees(u) \in {"page", "blank"} /\ browse[u].passed \in Nat
      /\ (SessionOf(u) = ProbeSession <=> browse[u].does = "probe")
      /\ browse[u].does = "probe" =>
           /\ BrowseStep(u) = "doctor" <=> browse[u].passed = 0
           /\ BrowseStep(u) = "open" <=> browse[u].passed = 1
      /\ browse[u].does = "probe" /\ browse[u].alone /\ browse[u].passed >= 2 =>
           page[ProbeSession] = "page" /\ Sees(u) = "page"
  BY <1>1, DrivingFacts, BrowseFacts DEF BrowserIInv, BrowserTypeOK
<1>3. browse[u].does = "probe" => browse[u].passed >= 2
  BY <1>2 DEF ScreenshotPasses
<1>4. /\ page' \in [Session -> {"closed", "blank", "page"}] /\ picture' \in [Session -> BrowserUser \cup {NoOne}]
  BY <1>1, <1>2 DEF BrowserIInv, BrowserTypeOK
<1>5. BrowserTypeOK'
  <2>1. PICK j \in BrowseRecord : browse' = [browse EXCEPT ![u] = j]
    BY <1>1, <1>2, PassingFacts
  <2>2. \A o \in BrowserUser : browse'[o] \in BrowseRecord
    BY <2>1, BrowseFacts
  <2>3. \A o \in BrowserUser : browse'[o].passed \in 0..4 /\ browse'[o].began \in 0..MaxNow
    BY <2>2 DEF BrowseRecord
  <2> QED BY <1>1, <1>4, <2>3 DEF BrowserIInv, BrowserTypeOK, Session
<1>6. \A s \in Session : s # SessionOf(u) => page'[s] = page[s] /\ picture'[s] = picture[s]
  BY <1>1, <1>2
<1>7. browse[u].does = "probe" /\ browse[u].alone =>
        /\ browse[u].passed >= 1 => page'[ProbeSession] = "page"
        /\ {Sees(u)} \subseteq {"page"}
  BY <1>1, <1>2, <1>3
<1>8. browse[u].does = "screenshot" /\ browse[u].passed = 3 => picture'[SessionOf(u)] = u
  BY <1>1, <1>2
<1>9. {Sees(u)} \in SUBSET {"page", "blank"}
  BY <1>2
<1> QED BY <1>1, <1>5, <1>6, <1>7, <1>8, <1>9, StepPasses DEF around

-----------------------------------------------------------------------------
(* An invocation that ends, or is killed.                                  *)

LEMMA BrowseEnds ==
  ASSUME BrowserIInv, NEW u \in BrowserUser, Browsing(u),
         browse' = [browse EXCEPT ![u] = Idle], UNCHANGED <<page, browser_files, around>>,
         abandoned \subseteq abandoned', abandoned' \subseteq Session,
         ~InSession(u) \/ page[SessionOf(u)] = "closed" \/ SessionOf(u) \in abandoned'
  PROVE  BrowserIInv'
<1>1. /\ browse'[u] = Idle /\ \A o \in BrowserUser : o # u => browse'[o] = browse[o]
      /\ MaxNow \in Nat /\ browse' \in [BrowserUser -> BrowseRecord]
  <2>1. Idle \in BrowseRecord
    BY BrowserAssumption DEF Idle, BrowseRecord
  <2> QED BY <2>1, BrowseFacts
<1>2. /\ proof' = proof /\ shot' = shot /\ receipt' = receipt /\ picture' = picture /\ page' = page
      /\ package' = package /\ onPath' = onPath /\ now' = now /\ begun' = begun
  BY DEF browser_files, around
<1>3. /\ ~Browsing(u)' /\ ~InSession(u)' /\ browse'[u].at = "idle"
      /\ \A o \in BrowserUser : o # u => /\ SessionOf(o)' = SessionOf(o) /\ Browsing(o)' = Browsing(o)
                                         /\ InSession(o)' = InSession(o)
  BY <1>1 DEF SessionOf, Browsing, BrowseAt, InSession, Idle
<1>4. BrowserTypeOK' /\ BrowsesTyped'
  <2>1. \A o \in BrowserUser : browse'[o].passed \in 0..4 /\ browse'[o].began \in 0..MaxNow
    <3> SUFFICES ASSUME NEW o \in BrowserUser PROVE browse'[o].passed \in 0..4 /\ browse'[o].began \in 0..MaxNow
      OBVIOUS
    <3>1. browse'[o] \in BrowseRecord
      BY <1>1
    <3> QED BY <3>1 DEF BrowseRecord
  <2>2. \A o \in BrowserUser : Browsing(o)' => browse'[o].does # "nothing" /\ browse'[o].began \in 1..MaxNow
    BY <1>1, <1>3 DEF BrowserIInv, BrowsesTyped
  <2>3. BrowserTypeOK'
    BY <1>2, <2>1 DEF BrowserIInv, BrowserTypeOK, Session
  <2>4. receipt' \in [Session -> [of : BrowserUser \cup {NoOne}, ok : BOOLEAN]]
    BY <1>2 DEF BrowserIInv, BrowsesTyped
  <2> QED BY <1>1, <2>2, <2>3, <2>4 DEF BrowsesTyped, BrowseRecord, Session
<1>5. AloneInSession'
  <2> SUFFICES ASSUME NEW v \in BrowserUser, NEW o \in BrowserUser, v # o, Browsing(v)', Browsing(o)',
                      SessionOf(v)' = SessionOf(o)'
               PROVE  ~browse'[v].alone
    BY DEF AloneInSession
  <2>1. v # u /\ o # u
    BY <1>3
  <2>2. Browsing(v) /\ Browsing(o) /\ SessionOf(v) = SessionOf(o) /\ browse'[v] = browse[v]
    BY <1>1, <1>3, <2>1
  <2> QED BY <2>2 DEF BrowserIInv, AloneInSession
<1>6. ProbeSeesPage'
  <2> SUFFICES ASSUME NEW o \in BrowserUser, Browsing(o)', browse'[o].does = "probe", browse'[o].alone
               PROVE  /\ browse'[o].saw \subseteq {"page"}
                      /\ browse'[o].at \in {"drive", "drove"} /\ browse'[o].passed >= 2 =>
                           page'[ProbeSession] = "page"
    BY DEF ProbeSeesPage
  <2>1. o # u /\ Browsing(o) /\ browse'[o] = browse[o]
    BY <1>1, <1>3
  <2> QED BY <1>2, <2>1 DEF BrowserIInv, ProbeSeesPage
<1>7. ActionLeavesFiles'
  <2> SUFFICES ASSUME NEW o \in BrowserUser, Browsing(o)', browse'[o].does \in {"open", "screenshot"}
               PROVE  /\ browse'[o].at = "drove" \/ browse'[o].ok =>
                           browse'[o].passed = Len(BrowseSteps(browse'[o].does))
                      /\ browse'[o].alone /\ browse'[o].ok =>
                           receipt'[SessionOf(o)'] = [of |-> o, ok |-> TRUE]
                      /\ browse'[o].alone /\ browse'[o].does = "screenshot" /\ browse'[o].passed = 4 =>
                           picture'[SessionOf(o)'] = o
    BY DEF ActionLeavesFiles, BrowseSteps, BrowseAt
  <2>1. o # u /\ Browsing(o) /\ browse'[o] = browse[o] /\ SessionOf(o)' = SessionOf(o)
    BY <1>1, <1>3
  <2>2. browse[o].does \in {"open", "screenshot"}
    BY <2>1
  <2>3. /\ browse[o].at = "drove" \/ browse[o].ok => browse[o].passed = Len(BrowseSteps(browse[o].does))
        /\ browse[o].alone /\ browse[o].ok => receipt[SessionOf(o)] = [of |-> o, ok |-> TRUE]
        /\ browse[o].alone /\ browse[o].does = "screenshot" /\ browse[o].passed = 4 => picture[SessionOf(o)] = o
    BY <2>1, <2>2 DEF BrowserIInv, ActionLeavesFiles, BrowseAt
  <2> QED BY <1>2, <2>1, <2>3
<1>8. \A o \in BrowserUser : InPlace(browse'[o])
  <2> SUFFICES ASSUME NEW o \in BrowserUser PROVE InPlace(browse'[o])
    OBVIOUS
  <2>1. CASE o = u
    BY <1>1, <2>1 DEF InPlace, Idle
  <2> QED BY <1>1, <2>1 DEF BrowserIInv
<1>9. \A s \in Session \ abandoned' :
        page'[s] = "closed" \/ \E o \in BrowserUser : InSession(o)' /\ SessionOf(o)' = s
  <2> SUFFICES ASSUME NEW s \in Session \ abandoned', page'[s] # "closed"
               PROVE  \E o \in BrowserUser : InSession(o)' /\ SessionOf(o)' = s
    OBVIOUS
  <2>1. PICK o \in BrowserUser : InSession(o) /\ SessionOf(o) = s
    BY <1>2 DEF BrowserIInv
  <2>2. o # u
    BY <1>2, <2>1
  <2> QED BY <1>3, <2>1, <2>2
<1>10. proof'.says = "ready" /\ proof'.alone => proof'.true
  BY <1>2 DEF BrowserIInv
<1> QED BY <1>4, <1>5, <1>6, <1>7, <1>8, <1>9, <1>10 DEF BrowserIInv, InPlace, BrowseSteps

LEMMA EndBrowseStep ==
  ASSUME BrowserIInv, NEW u \in BrowserUser, EndBrowse(u) \/ KillBrowse(u)
  PROVE  BrowserIInv'
<1>1. Browsing(u) /\ browse' = [browse EXCEPT ![u] = Idle] /\ UNCHANGED <<page, browser_files, around>>
  BY DEF EndBrowse, KillBrowse, Browsing, BrowseAt
<1>2. SessionOf(u) \in Session /\ abandoned \subseteq Session
  BY <1>1, BrowseFacts DEF BrowserIInv, BrowserTypeOK
<1>3. CASE EndBrowse(u)
  <2>1. abandoned' = abandoned /\ ~InSession(u)
    BY <1>3 DEF EndBrowse, InSession, BrowseAt
  <2> QED BY <1>1, <1>2, <2>1, BrowseEnds
<1>4. CASE KillBrowse(u)
  <2>1. abandoned' = abandoned \cup {s \in {SessionOf(u)} : page[s] # "closed"}
    BY <1>4 DEF KillBrowse
  <2>2. abandoned \subseteq abandoned' /\ abandoned' \subseteq Session
    BY <1>2, <2>1
  <2>3. page[SessionOf(u)] = "closed" \/ SessionOf(u) \in abandoned'
    BY <2>1
  <2> QED BY <1>1, <2>2, <2>3, BrowseEnds
<1> QED BY <1>3, <1>4

-----------------------------------------------------------------------------
(* The steps that record, close or go on with something else.              *)

(* u stands somewhere else, with its answer or with another one.           *)
BrowsePlaces ==
  {"idle", "ended", "agent", "no browser", "task failed", "drive", "drove", "record failure", "raise", "close",
   "record success"}

LEMMA MovedFacts ==
  ASSUME BrowserIInv, NEW u \in BrowserUser, NEW at \in BrowsePlaces, browse' = [browse EXCEPT ![u].at = at]
  PROVE  \E j \in BrowseRecord :
           /\ browse' = [browse EXCEPT ![u] = j]
           /\ j.does = browse[u].does /\ j.began = browse[u].began /\ j.alone = browse[u].alone
           /\ j.passed = browse[u].passed /\ j.saw = browse[u].saw /\ j.at = at /\ j.ok = browse[u].ok
<1>1. browse[u] \in BrowseRecord /\ DOMAIN browse = BrowserUser
  BY BrowseFacts
<1>2. PICK b \in BrowseRecord : b = browse[u]
  BY <1>1
<1>3. PICK j : j = [b EXCEPT !.at = at]
  OBVIOUS
<1>4. j \in BrowseRecord
  BY <1>3 DEF BrowseRecord, BrowsePlaces
<1>5. /\ j.does = b.does /\ j.began = b.began /\ j.alone = b.alone /\ j.ok = b.ok
      /\ j.passed = b.passed /\ j.saw = b.saw /\ j.at = at
  BY <1>3 DEF BrowseRecord
<1>6. browse' = [browse EXCEPT ![u] = j]
  BY <1>1, <1>2, <1>3
<1> QED BY <1>2, <1>4, <1>5, <1>6

LEMMA AnsweredFacts ==
  ASSUME BrowserIInv, NEW u \in BrowserUser, NEW at \in BrowsePlaces, NEW ok \in BOOLEAN,
         browse' = [browse EXCEPT ![u].at = at, ![u].ok = ok]
  PROVE  \E j \in BrowseRecord :
           /\ browse' = [browse EXCEPT ![u] = j]
           /\ j.does = browse[u].does /\ j.began = browse[u].began /\ j.alone = browse[u].alone
           /\ j.passed = browse[u].passed /\ j.saw = browse[u].saw /\ j.at = at /\ j.ok = ok
<1>1. browse[u] \in BrowseRecord /\ DOMAIN browse = BrowserUser
  BY BrowseFacts
<1>2. PICK b \in BrowseRecord : b = browse[u]
  BY <1>1
<1>3. PICK k : k = [b EXCEPT !.at = at]
  OBVIOUS
<1>4. k \in BrowseRecord
  BY <1>3 DEF BrowseRecord, BrowsePlaces
<1>5. /\ k.does = b.does /\ k.began = b.began /\ k.alone = b.alone
      /\ k.passed = b.passed /\ k.saw = b.saw /\ k.at = at
  BY <1>3 DEF BrowseRecord
<1>6. PICK j : j = [k EXCEPT !.ok = ok]
  OBVIOUS
<1>7. j \in BrowseRecord
  BY <1>4, <1>6 DEF BrowseRecord
<1>8. /\ j.does = b.does /\ j.began = b.began /\ j.alone = b.alone
      /\ j.passed = b.passed /\ j.saw = b.saw /\ j.at = at /\ j.ok = ok
  BY <1>4, <1>5, <1>6 DEF BrowseRecord
<1>9. browse' = [browse EXCEPT ![u] = j]
  BY <1>1, <1>2, <1>3, <1>6
<1> QED BY <1>2, <1>7, <1>8, <1>9

LEMMA BrowserTypeKept ==
  ASSUME BrowserIInv, browse' \in [BrowserUser -> BrowseRecord],
         page' \in [Session -> {"closed", "blank", "page"}], abandoned' \subseteq Session,
         proof'.says \in {"nothing", "ready", "failed"}, UNCHANGED <<shot, picture, around>>
  PROVE  BrowserTypeOK'
<1>1. \A o \in BrowserUser : browse'[o].passed \in 0..4 /\ browse'[o].began \in 0..MaxNow
  <2> SUFFICES ASSUME NEW o \in BrowserUser PROVE browse'[o].passed \in 0..4 /\ browse'[o].began \in 0..MaxNow
    OBVIOUS
  <2>1. browse'[o] \in BrowseRecord
    OBVIOUS
  <2> QED BY <2>1 DEF BrowseRecord
<1>2. /\ shot' = shot /\ picture' = picture /\ package' = package /\ onPath' = onPath
      /\ now' = now /\ begun' = begun
  BY DEF around
<1> QED BY <1>1, <1>2 DEF BrowserIInv, BrowserTypeOK, Session

(* A command that moves on without writing a receipt or a proof.           *)
LEMMA BrowseMoves ==
  ASSUME BrowserIInv, NEW u \in BrowserUser, Browsing(u), NEW j \in BrowseRecord,
         browse' = [browse EXCEPT ![u] = j], j.at # "idle", InPlace(j),
         j.does = browse[u].does, j.began = browse[u].began, j.alone = browse[u].alone,
         j.passed = browse[u].passed, j.saw = browse[u].saw, j.ok \in {FALSE, browse[u].ok},
         j.at \notin {"drive", "drove"},
         page' \in [Session -> {"closed", "blank", "page"}], abandoned' \subseteq Session,
         abandoned \ {SessionOf(u)} \subseteq abandoned', UNCHANGED <<browser_files, around>>,
         \A s \in Session : s # SessionOf(u) => page'[s] = page[s],
         \/ j.at \in {"drive", "drove", "record failure", "raise", "close"}
         \/ page'[SessionOf(u)] = "closed" \/ SessionOf(u) \in abandoned'
         \/ ~InSession(u) /\ page' = page /\ abandoned \subseteq abandoned'
  PROVE  BrowserIInv'
<1>1. proof' = proof /\ shot' = shot /\ receipt' = receipt /\ picture' = picture
  BY DEF browser_files
<1>2. browse' \in [BrowserUser -> BrowseRecord]
  BY BrowseFacts
<1>3. BrowserTypeOK'
  BY <1>1, <1>2, BrowserTypeKept DEF BrowserIInv, BrowserTypeOK
<1>4. /\ receipt' \in [Session -> [of : BrowserUser \cup {NoOne}, ok : BOOLEAN]]
      /\ proof'.says = "ready" /\ proof'.alone => proof'.true
  BY <1>1 DEF BrowserIInv, BrowsesTyped
<1>5. j.does = "probe" /\ j.alone =>
        /\ j.saw \subseteq {"page"}
        /\ j.at \in {"drive", "drove"} /\ j.passed >= 2 => page'[ProbeSession] = "page"
  BY DEF BrowserIInv, ProbeSeesPage
<1>6. j.does \in {"open", "screenshot"} =>
        /\ j.at = "drove" \/ j.ok => j.passed = Len(BrowseSteps(j.does))
        /\ j.alone /\ j.ok => receipt'[SessionOf(u)] = [of |-> u, ok |-> TRUE]
        /\ j.alone /\ j.does = "screenshot" /\ j.passed = 4 => picture'[SessionOf(u)] = u
  BY <1>1 DEF BrowserIInv, ActionLeavesFiles
<1>7. \A s \in Session : s # SessionOf(u) =>
        page'[s] = page[s] /\ picture'[s] = picture[s] /\ receipt'[s] = receipt[s]
  BY <1>1
<1> QED BY <1>3, <1>4, <1>5, <1>6, <1>7, BrowseGoesOn

LEMMA CommandFailsStep ==
  ASSUME BrowserIInv, NEW u \in BrowserUser, CommandFails(u) \/ ScreenshotRaises(u)
  PROVE  BrowserIInv'
<1>1. BrowseAt(u, "drive") /\ UNCHANGED <<browser_files, around, abandoned>>
  BY DEF CommandFails, ScreenshotRaises
<1>2. PICK at \in {"record failure", "raise"} : browse' = [browse EXCEPT ![u].at = at]
  BY DEF CommandFails, ScreenshotRaises, BrowseGoes
<1>3. PICK j \in BrowseRecord :
        /\ browse' = [browse EXCEPT ![u] = j]
        /\ j.does = browse[u].does /\ j.began = browse[u].began /\ j.alone = browse[u].alone
        /\ j.passed = browse[u].passed /\ j.saw = browse[u].saw /\ j.at = at /\ j.ok = browse[u].ok
  <2>1. at \in BrowsePlaces
    BY DEF BrowsePlaces
  <2> QED BY <1>2, <2>1, MovedFacts
<1>4. /\ Browsing(u) /\ SessionOf(u) \in Session /\ page \in [Session -> {"closed", "blank", "page"}]
      /\ abandoned \subseteq Session
  BY <1>1, BrowseFacts DEF Browsing, BrowseAt, BrowserIInv, BrowserTypeOK
<1>5. page' = page \/ page' = [page EXCEPT ![SessionOf(u)] = "page"]
  BY DEF CommandFails, ScreenshotRaises
<1>6. /\ page' \in [Session -> {"closed", "blank", "page"}]
      /\ \A s \in Session : s # SessionOf(u) => page'[s] = page[s]
  BY <1>4, <1>5
<1>7. InPlace(j)
  BY <1>1, <1>3 DEF BrowserIInv, InPlace, BrowseAt
<1> QED BY <1>1, <1>2, <1>3, <1>4, <1>6, <1>7, BrowseMoves

LEMMA CloseSessionStep ==
  ASSUME BrowserIInv, NEW u \in BrowserUser, CloseSession(u)
  PROVE  BrowserIInv'
<1>1. /\ BrowseAt(u, "close") \/ BrowseAt(u, "raise") \/ (BrowseAt(u, "drove") /\ browse[u].does = "probe")
      /\ UNCHANGED <<browser_files, around>>
  <2>1. BrowseAt(u, "close") \/ BrowseAt(u, "raise") \/ (BrowseAt(u, "drove") /\ browse[u].does = "probe")
    BY Zenon DEF CloseSession
  <2>2. UNCHANGED <<browser_files, around>>
    BY Zenon DEF CloseSession
  <2> QED BY <2>1, <2>2
<1>2. /\ Browsing(u) /\ SessionOf(u) \in Session /\ page \in [Session -> {"closed", "blank", "page"}]
      /\ abandoned \subseteq Session /\ browse[u].ok \in BOOLEAN
  BY <1>1, BrowseFacts DEF Browsing, BrowseAt, BrowserIInv, BrowserTypeOK, BrowseRecord
<1>3. /\ page' \in [Session -> {"closed", "blank", "page"}] /\ abandoned' \subseteq Session
      /\ \A s \in Session : s # SessionOf(u) => page'[s] = page[s]
      /\ abandoned \ {SessionOf(u)} \subseteq abandoned'
      /\ page'[SessionOf(u)] = "closed" \/ SessionOf(u) \in abandoned'
  <2>1. CASE /\ page' = [page EXCEPT ![SessionOf(u)] = "closed"]
             /\ abandoned' = abandoned \ {SessionOf(u)}
    BY <1>2, <2>1
  <2>2. CASE UNCHANGED page /\ abandoned' = abandoned \cup {SessionOf(u)}
    BY <1>2, <2>2
  <2> QED BY <2>1, <2>2, Zenon DEF CloseSession
<1>4. CASE BrowseGoes(u, AfterClosing(u))
  <2>1. /\ AfterClosing(u) \in {"record success", "agent", "task failed", "ended"}
        /\ AfterClosing(u) = "record success" => browse[u].does = "probe"
        /\ AfterClosing(u) \in {"agent", "task failed"} => browse[u].does = "task"
    <3>1. CASE BrowseAt(u, "drove")
      BY <1>1, <3>1 DEF BrowseAt, AfterClosing
    <3>2. CASE ~BrowseAt(u, "drove") /\ browse[u].does = "task" /\ BrowseAt(u, "close") /\ browse[u].ok
      BY <3>2 DEF AfterClosing
    <3>3. CASE ~BrowseAt(u, "drove") /\ browse[u].does = "task" /\ BrowseAt(u, "close") /\ ~browse[u].ok
      BY <3>3 DEF AfterClosing
    <3>4. CASE ~BrowseAt(u, "drove") /\ ~(browse[u].does = "task" /\ BrowseAt(u, "close"))
      BY <3>4 DEF AfterClosing
    <3> QED BY <3>1, <3>2, <3>3, <3>4
  <2>2. PICK at \in {"record success", "agent", "task failed", "ended"} :
          /\ browse' = [browse EXCEPT ![u].at = at]
          /\ at = "record success" => browse[u].does = "probe"
          /\ at \in {"agent", "task failed"} => browse[u].does = "task"
    BY <1>4, <2>1 DEF BrowseGoes
  <2>3. PICK j \in BrowseRecord :
          /\ browse' = [browse EXCEPT ![u] = j]
          /\ j.does = browse[u].does /\ j.began = browse[u].began /\ j.alone = browse[u].alone
          /\ j.passed = browse[u].passed /\ j.saw = browse[u].saw /\ j.at = at /\ j.ok = browse[u].ok
    <3>1. at \in BrowsePlaces
      BY DEF BrowsePlaces
    <3> QED BY <2>2, <3>1, MovedFacts
  <2>4. InPlace(j) /\ j.at # "idle" /\ j.at \notin {"drive", "drove"}
    BY <2>2, <2>3 DEF InPlace
  <2> QED BY <1>1, <1>2, <1>3, <2>3, <2>4, BrowseMoves
<1>5. CASE browse' = [browse EXCEPT ![u].at = "ended", ![u].ok = FALSE]
  <2>1. PICK j \in BrowseRecord :
          /\ browse' = [browse EXCEPT ![u] = j]
          /\ j.does = browse[u].does /\ j.began = browse[u].began /\ j.alone = browse[u].alone
          /\ j.passed = browse[u].passed /\ j.saw = browse[u].saw /\ j.at = "ended" /\ j.ok = FALSE
    <3>1. "ended" \in BrowsePlaces /\ FALSE \in BOOLEAN
      BY DEF BrowsePlaces
    <3> QED BY <1>5, <3>1, AnsweredFacts
  <2>2. InPlace(j)
    BY <2>1 DEF InPlace
  <2> QED BY <1>1, <1>2, <1>3, <2>1, <2>2, BrowseMoves
<1> QED BY <1>4, <1>5, Zenon DEF CloseSession

LEMMA RunAgentStep ==
  ASSUME BrowserIInv, NEW u \in BrowserUser, RunAgent(u)
  PROVE  BrowserIInv'
<1>1. /\ browse[u].at \in {"agent", "task failed"} /\ UNCHANGED <<page, browser_files, around, abandoned>>
      /\ Browsing(u) /\ ~InSession(u) /\ browse[u].does = "task"
  <2>1. browse[u].at \in {"agent", "task failed"}
    BY DEF RunAgent, BrowseAt
  <2>2. UNCHANGED <<page, browser_files, around, abandoned>>
    BY DEF RunAgent
  <2>3. Browsing(u) /\ ~InSession(u) /\ browse[u].does = "task"
    BY <2>1 DEF Browsing, BrowseAt, InSession, BrowserIInv, InPlace
  <2> QED BY <2>1, <2>2, <2>3
<1>2. PICK ok \in BOOLEAN : browse' = [browse EXCEPT ![u].at = "ended", ![u].ok = ok]
  BY DEF RunAgent
<1>3. PICK j \in BrowseRecord :
        /\ browse' = [browse EXCEPT ![u] = j]
        /\ j.does = browse[u].does /\ j.began = browse[u].began /\ j.alone = browse[u].alone
        /\ j.passed = browse[u].passed /\ j.saw = browse[u].saw /\ j.at = "ended"
  <2>1. "ended" \in BrowsePlaces
    BY DEF BrowsePlaces
  <2>2. CASE browse' = [browse EXCEPT ![u].at = "ended", ![u].ok = TRUE] /\ ok = TRUE
    <3>1. TRUE \in BOOLEAN
      OBVIOUS
    <3>2. \E j \in BrowseRecord :
            /\ browse' = [browse EXCEPT ![u] = j]
            /\ j.does = browse[u].does /\ j.began = browse[u].began /\ j.alone = browse[u].alone
            /\ j.passed = browse[u].passed /\ j.saw = browse[u].saw /\ j.at = "ended" /\ j.ok = TRUE
      BY <2>1, <2>2, <3>1, AnsweredFacts
    <3> QED BY <3>2
  <2>3. CASE browse' = [browse EXCEPT ![u].at = "ended", ![u].ok = FALSE] /\ ok = FALSE
    <3>1. FALSE \in BOOLEAN
      OBVIOUS
    <3>2. \E j \in BrowseRecord :
            /\ browse' = [browse EXCEPT ![u] = j]
            /\ j.does = browse[u].does /\ j.began = browse[u].began /\ j.alone = browse[u].alone
            /\ j.passed = browse[u].passed /\ j.saw = browse[u].saw /\ j.at = "ended" /\ j.ok = FALSE
      BY <2>1, <2>3, <3>1, AnsweredFacts
    <3> QED BY <3>2
  <2> QED BY <1>2, <2>2, <2>3
<1>4. InPlace(j)
  BY <1>3 DEF InPlace
<1>5. page' = page /\ abandoned' = abandoned /\ proof' = proof /\ receipt' = receipt /\ picture' = picture /\ shot' = shot
  BY <1>1 DEF browser_files
<1>6. browse' \in [BrowserUser -> BrowseRecord]
  BY <1>3, BrowseFacts
<1>7. BrowserTypeOK'
  BY <1>1, <1>5, <1>6, BrowserTypeKept DEF BrowserIInv, BrowserTypeOK
<1>8. /\ receipt' \in [Session -> [of : BrowserUser \cup {NoOne}, ok : BOOLEAN]]
      /\ proof'.says = "ready" /\ proof'.alone => proof'.true
  BY <1>5 DEF BrowserIInv, BrowsesTyped
<1>9. j.does \notin {"probe", "open", "screenshot"} /\ j.at # "idle"
  BY <1>1, <1>3
<1> QED BY <1>1, <1>3, <1>4, <1>5, <1>7, <1>8, <1>9, BrowseGoesOn

LEMMA RecordSuccessStep ==
  ASSUME BrowserIInv, NEW u \in BrowserUser, RecordSuccess(u)
  PROVE  BrowserIInv'
<1>1. /\ BrowseAt(u, "record success") /\ UNCHANGED <<page, shot, receipt, picture, around, abandoned>>
      /\ browse' = [browse EXCEPT ![u].at = "ended", ![u].ok = TRUE]
      /\ proof' = [says |-> "ready", since |-> browse[u].began, passed |-> browse[u].passed,
                     true |-> browse[u].saw \subseteq {"page"}, alone |-> browse[u].alone]
  BY DEF RecordSuccess, RecordProof
<1>2. Browsing(u) /\ ~InSession(u) /\ browse[u].does = "probe"
  BY <1>1 DEF Browsing, BrowseAt, InSession, BrowserIInv, InPlace
<1>3. browse[u].alone => browse[u].saw \subseteq {"page"}
  BY <1>2 DEF BrowserIInv, ProbeSeesPage
<1>4. PICK j \in BrowseRecord :
        /\ browse' = [browse EXCEPT ![u] = j]
        /\ j.does = browse[u].does /\ j.began = browse[u].began /\ j.alone = browse[u].alone
        /\ j.passed = browse[u].passed /\ j.saw = browse[u].saw /\ j.at = "ended" /\ j.ok = TRUE
  <2>1. "ended" \in BrowsePlaces /\ TRUE \in BOOLEAN
    BY DEF BrowsePlaces
  <2> QED BY <1>1, <2>1, AnsweredFacts
<1>5. InPlace(j)
  BY <1>4 DEF InPlace
<1>6. proof'.says = "ready" /\ (proof'.alone => proof'.true)
  BY <1>1, <1>3
<1>7. browse' \in [BrowserUser -> BrowseRecord]
  BY <1>4, BrowseFacts
<1>8. BrowserTypeOK'
  BY <1>1, <1>6, <1>7, BrowserTypeKept DEF BrowserIInv, BrowserTypeOK
<1>9. receipt' \in [Session -> [of : BrowserUser \cup {NoOne}, ok : BOOLEAN]]
  BY <1>1 DEF BrowserIInv, BrowsesTyped
<1>10. /\ j.does = "probe" /\ j.at # "idle" /\ j.at \notin {"drive", "drove"}
       /\ j.alone => j.saw \subseteq {"page"}
  BY <1>2, <1>3, <1>4
<1> QED BY <1>1, <1>2, <1>4, <1>5, <1>6, <1>8, <1>9, <1>10, BrowseGoesOn

(* A receipt of the session, and the invocation goes to close it.          *)
LEMMA RecordActionStep ==
  ASSUME BrowserIInv, NEW u \in BrowserUser, RecordAction(u)
  PROVE  BrowserIInv'
<1>1. /\ BrowseAt(u, "drove") /\ browse[u].does # "probe" /\ browse' = [browse EXCEPT ![u].at = "close", ![u].ok = TRUE]
      /\ receipt' = [receipt EXCEPT ![SessionOf(u)] = [of |-> u, ok |-> TRUE]]
      /\ UNCHANGED <<page, proof, shot, picture, around, abandoned>>
  BY DEF RecordAction, WriteReceipt, AfterDriving
<1>2. /\ Browsing(u) /\ SessionOf(u) \in Session /\ receipt \in [Session -> [of : BrowserUser \cup {NoOne}, ok : BOOLEAN]]
  BY <1>1, BrowseFacts DEF Browsing, BrowseAt, BrowserIInv, BrowsesTyped
<1>3. PICK j \in BrowseRecord :
        /\ browse' = [browse EXCEPT ![u] = j]
        /\ j.does = browse[u].does /\ j.began = browse[u].began /\ j.alone = browse[u].alone
        /\ j.passed = browse[u].passed /\ j.saw = browse[u].saw /\ j.at = "close" /\ j.ok = TRUE
  <2>1. "close" \in BrowsePlaces /\ TRUE \in BOOLEAN
    BY DEF BrowsePlaces
  <2> QED BY <1>1, <2>1, AnsweredFacts
<1>4. InPlace(j) /\ j.does # "probe" /\ j.at # "idle"
  BY <1>1, <1>3 DEF InPlace
<1>5. browse' \in [BrowserUser -> BrowseRecord]
  BY <1>3, BrowseFacts
<1>6. BrowserTypeOK'
  BY <1>1, <1>5, BrowserTypeKept DEF BrowserIInv, BrowserTypeOK
<1>7. PICK r \in [of : BrowserUser \cup {NoOne}, ok : BOOLEAN] : r = [of |-> u, ok |-> TRUE]
  OBVIOUS
<1>8. receipt' = [receipt EXCEPT ![SessionOf(u)] = r]
  BY <1>1, <1>7
<1>9. /\ receipt' \in [Session -> [of : BrowserUser \cup {NoOne}, ok : BOOLEAN]]
      /\ receipt'[SessionOf(u)] = r /\ \A s \in Session : s # SessionOf(u) => receipt'[s] = receipt[s]
  BY <1>2, <1>8
<1>10. j.does \in {"open", "screenshot"} =>
         /\ j.passed = Len(BrowseSteps(j.does))
         /\ j.alone /\ j.does = "screenshot" /\ j.passed = 4 => picture'[SessionOf(u)] = u
  BY <1>1, <1>2, <1>3 DEF BrowserIInv, ActionLeavesFiles
<1>11. proof'.says = "ready" /\ proof'.alone => proof'.true
  BY <1>1 DEF BrowserIInv
<1> QED BY <1>1, <1>2, <1>3, <1>4, <1>6, <1>7, <1>9, <1>10, <1>11, BrowseGoesOn

LEMMA RecordFailureStep ==
  ASSUME BrowserIInv, NEW u \in BrowserUser, RecordFailure(u)
  PROVE  BrowserIInv'
<1>1. UNCHANGED <<page, shot, picture, around, abandoned>>
  BY DEF RecordFailure
<1>2. PICK at \in {"ended", "close"} :
        /\ browse' = [browse EXCEPT ![u].at = at] /\ browse[u].at \in {"no browser", "record failure"}
        /\ at = "ended" => browse[u].at = "no browser"
  BY DEF RecordFailure, BrowseAt, BrowseGoes, AfterDriving
<1>3. PICK j \in BrowseRecord :
        /\ browse' = [browse EXCEPT ![u] = j]
        /\ j.does = browse[u].does /\ j.began = browse[u].began /\ j.alone = browse[u].alone
        /\ j.passed = browse[u].passed /\ j.saw = browse[u].saw /\ j.at = at /\ j.ok = browse[u].ok
  <2>1. at \in BrowsePlaces
    BY DEF BrowsePlaces
  <2> QED BY <1>2, <2>1, MovedFacts
<1>4. /\ Browsing(u) /\ SessionOf(u) \in Session /\ receipt \in [Session -> [of : BrowserUser \cup {NoOne}, ok : BOOLEAN]]
      /\ browse[u].passed \in Nat
  <2>1. Browsing(u)
    BY <1>2 DEF Browsing, BrowseAt
  <2>2. SessionOf(u) \in Session /\ browse[u] \in BrowseRecord
    BY <2>1, BrowseFacts
  <2>3. browse[u].passed \in 0..4
    BY <2>2 DEF BrowseRecord
  <2>4. browse[u].passed \in Nat
    BY <2>3
  <2>5. receipt \in [Session -> [of : BrowserUser \cup {NoOne}, ok : BOOLEAN]]
    BY DEF BrowserIInv, BrowsesTyped
  <2> QED BY <2>1, <2>2, <2>4, <2>5
<1>5. InPlace(j) /\ j.at # "idle" /\ j.at \notin {"drive", "drove"}
  BY <1>2, <1>3 DEF InPlace
<1>6. browse[u].does \in {"open", "screenshot"} => ~browse[u].ok
  <2> SUFFICES ASSUME browse[u].does \in {"open", "screenshot"}, browse[u].ok PROVE FALSE
    OBVIOUS
  <2>1. PICK n, m : n = browse[u].passed /\ m = Len(BrowseSteps(browse[u].does))
    OBVIOUS
  <2>2. n < m
    BY <1>2, <2>1 DEF BrowserIInv, InPlace
  <2>3. n = m
    BY <1>4, <2>1 DEF BrowserIInv, ActionLeavesFiles
  <2> QED BY <1>4, <2>1, <2>2, <2>3
<1>7. /\ receipt' \in [Session -> [of : BrowserUser \cup {NoOne}, ok : BOOLEAN]]
      /\ \A s \in Session : s # SessionOf(u) => receipt'[s] = receipt[s]
      /\ proof'.says \in {"nothing", "ready", "failed"}
      /\ proof'.says = "ready" /\ proof'.alone => proof'.true
  <2>1. CASE browse[u].does = "probe"
    <3>1. RecordProof(u, "failed") /\ receipt' = receipt
      BY <2>1 DEF RecordFailure
    <3>2. proof'.says = "failed"
      BY <3>1 DEF RecordProof
    <3> QED BY <1>4, <3>1, <3>2
  <2>2. CASE browse[u].does # "probe"
    <3>1. WriteReceipt(u, FALSE) /\ proof' = proof
      BY <2>2 DEF RecordFailure
    <3>2. PICK r \in [of : BrowserUser \cup {NoOne}, ok : BOOLEAN] : r = [of |-> u, ok |-> FALSE]
      OBVIOUS
    <3>3. receipt' = [receipt EXCEPT ![SessionOf(u)] = r]
      BY <3>1, <3>2 DEF WriteReceipt
    <3> QED BY <1>4, <3>1, <3>3 DEF BrowserIInv, BrowserTypeOK
  <2> QED BY <2>1, <2>2
<1>8. browse' \in [BrowserUser -> BrowseRecord]
  BY <1>3, BrowseFacts
<1>9. BrowserTypeOK'
  BY <1>1, <1>7, <1>8, BrowserTypeKept DEF BrowserIInv, BrowserTypeOK
<1>10. j.does = "probe" /\ j.alone => j.saw \subseteq {"page"}
  BY <1>3, <1>4 DEF BrowserIInv, ProbeSeesPage
<1>11. j.does \in {"open", "screenshot"} =>
         /\ ~j.ok
         /\ j.alone /\ j.does = "screenshot" /\ j.passed = 4 => picture'[SessionOf(u)] = u
  BY <1>1, <1>3, <1>4, <1>6 DEF BrowserIInv, ActionLeavesFiles
<1>12. at = "ended" => ~InSession(u)
  BY <1>2 DEF InSession
<1> QED BY <1>1, <1>2, <1>3, <1>4, <1>5, <1>7, <1>9, <1>10, <1>11, <1>12, BrowseGoesOn, ZenonT(30)

-----------------------------------------------------------------------------
(* A command that begins: it is alone unless it finds another of its       *)
(* session, which is then not alone either.                                *)

LEMMA BeginFacts ==
  ASSUME BrowserIInv, NEW u \in BrowserUser, BeginBrowse(u)
  PROVE  \E does \in {"probe", "open", "screenshot", "task"}, fresh \in BrowseRecord :
           /\ \A o \in BrowserUser : browse'[o] =
                IF o = u THEN fresh
                ELSE IF o \in OthersIn(u, does, now) THEN [browse[o] EXCEPT !.alone = FALSE] ELSE browse[o]
           /\ browse' \in [BrowserUser -> BrowseRecord]
           /\ fresh.does = does /\ fresh.began = now /\ fresh.passed = 0 /\ fresh.saw = {} /\ ~fresh.ok
           /\ fresh.alone = (OthersIn(u, does, now) = {})
           /\ fresh.at \in {"ended", "agent", "no browser", "task failed", "drive"} /\ InPlace(fresh)
<1>1. PICK does \in {"probe", "open", "screenshot", "task"}, withUrl \in BOOLEAN :
        browse' = [o \in BrowserUser |->
          IF o = u
          THEN [Idle EXCEPT !.does = does, !.began = now, !.alone = OthersIn(u, does, now) = {},
                  !.at = CASE does = "task" /\ ~package -> "ended"
                           [] does = "task" /\ ~withUrl -> "agent"
                           [] does = "probe" /\ ~onPath -> "no browser"
                           [] does = "task" /\ ~onPath -> "task failed"
                           [] ~onPath -> "ended"
                           [] OTHER -> "drive"]
          ELSE IF o \in OthersIn(u, does, now) THEN [browse[o] EXCEPT !.alone = FALSE] ELSE browse[o]]
  BY Zenon DEF BeginBrowse
<1> DEFINE at == CASE does = "task" /\ ~package -> "ended"
                   [] does = "task" /\ ~withUrl -> "agent"
                   [] does = "probe" /\ ~onPath -> "no browser"
                   [] does = "task" /\ ~onPath -> "task failed"
                   [] ~onPath -> "ended"
                   [] OTHER -> "drive"
<1>2. browse' = [o \in BrowserUser |->
        IF o = u THEN [Idle EXCEPT !.does = does, !.began = now, !.alone = OthersIn(u, does, now) = {}, !.at = at]
        ELSE IF o \in OthersIn(u, does, now) THEN [browse[o] EXCEPT !.alone = FALSE] ELSE browse[o]]
  BY Zenon, <1>1
<1>3. /\ at \in {"ended", "agent", "no browser", "task failed", "drive"}
      /\ at \in {"agent", "task failed"} => does = "task"
      /\ at = "no browser" => does = "probe"
  OBVIOUS
<1> HIDE DEF at
<1>4. PICK alone \in BOOLEAN : alone = (OthersIn(u, does, now) = {})
  OBVIOUS
<1>5. PICK fresh : fresh = [Idle EXCEPT !.does = does, !.began = now, !.alone = alone, !.at = at]
  OBVIOUS
<1>6. fresh = [does |-> does, at |-> at, passed |-> 0, began |-> now, saw |-> {}, alone |-> alone, ok |-> FALSE]
  BY <1>5 DEF Idle
<1>7. now \in 0..MaxNow
  BY BrowserAssumption DEF BrowserIInv, BrowserTypeOK
<1>8. fresh \in BrowseRecord
  <2>1. /\ does \in {"nothing", "probe", "open", "screenshot", "task"} /\ 0 \in 0..4
        /\ {} \in SUBSET {"page", "blank"} /\ FALSE \in BOOLEAN
    OBVIOUS
  <2>2. at \in {"idle", "ended", "agent", "no browser", "task failed", "drive", "drove", "record failure", "raise",
                "close", "record success"}
    BY <1>3
  <2> QED BY <1>6, <1>7, <2>1, <2>2 DEF BrowseRecord
<1>9. /\ fresh.does = does /\ fresh.began = now /\ fresh.passed = 0 /\ fresh.saw = {} /\ ~fresh.ok
      /\ fresh.alone = (OthersIn(u, does, now) = {}) /\ fresh.at = at
  BY <1>4, <1>6
<1>10. InPlace(fresh)
  <2>1. Len(BrowseSteps(does)) \in {3, 4}
    BY StepsFacts
  <2>2. PICK m \in {3, 4} : m = Len(BrowseSteps(fresh.does))
    BY <1>9, <2>1
  <2>3. fresh.passed < m
    BY <1>9
  <2> QED BY <1>3, <1>9, <2>2, <2>3 DEF InPlace
<1>11. browse' = [o \in BrowserUser |->
          IF o = u THEN fresh
          ELSE IF o \in OthersIn(u, does, now) THEN [browse[o] EXCEPT !.alone = FALSE] ELSE browse[o]]
  <2>1. fresh = [Idle EXCEPT !.does = does, !.began = now, !.alone = OthersIn(u, does, now) = {}, !.at = at]
    BY Zenon, <1>4, <1>5
  <2> QED BY Zenon, <1>2, <2>1
<1>12. browse' \in [BrowserUser -> BrowseRecord]
  <2>1. ASSUME NEW o \in BrowserUser
        PROVE  /\ browse[o] \in BrowseRecord
               /\ [browse[o] EXCEPT !.alone = FALSE] \in BrowseRecord
    <3>1. browse[o] \in BrowseRecord
      BY BrowseFacts
    <3> QED BY <3>1 DEF BrowseRecord
  <2> QED BY <1>8, <1>11, <2>1
<1> QED BY <1>3, <1>8, <1>9, <1>10, <1>11, <1>12

LEMMA BeginBrowseStep ==
  ASSUME BrowserIInv, NEW u \in BrowserUser, BeginBrowse(u)
  PROVE  BrowserIInv'
<1>1. PICK does \in {"probe", "open", "screenshot", "task"}, fresh \in BrowseRecord :
        /\ \A o \in BrowserUser : browse'[o] =
             IF o = u THEN fresh
             ELSE IF o \in OthersIn(u, does, now) THEN [browse[o] EXCEPT !.alone = FALSE] ELSE browse[o]
        /\ browse' \in [BrowserUser -> BrowseRecord]
        /\ fresh.does = does /\ fresh.began = now /\ fresh.passed = 0 /\ fresh.saw = {} /\ ~fresh.ok
        /\ fresh.alone = (OthersIn(u, does, now) = {})
        /\ fresh.at \in {"ended", "agent", "no browser", "task failed", "drive"} /\ InPlace(fresh)
  BY BeginFacts
<1>2. /\ UNCHANGED <<page, browser_files, package, onPath, now, abandoned>> /\ begun' = begun + 1
      /\ begun < MaxBrowses /\ browse[u].at = "idle"
  BY DEF BeginBrowse, BrowseAt
<1>3. /\ page' = page /\ proof' = proof /\ shot' = shot /\ receipt' = receipt /\ picture' = picture
      /\ package' = package /\ onPath' = onPath /\ now' = now /\ abandoned' = abandoned
  BY <1>2 DEF browser_files
<1>4. /\ browse'[u] = fresh /\ now \in 1..MaxNow /\ MaxNow \in Nat
      /\ SessionOf(u)' = IF does = "probe" THEN ProbeSession ELSE now
  BY <1>1, BrowserAssumption DEF SessionOf, BrowserIInv, BrowserTypeOK
<1>5. ASSUME NEW o \in BrowserUser, o # u
      PROVE  /\ browse'[o].does = browse[o].does /\ browse'[o].at = browse[o].at
             /\ browse'[o].passed = browse[o].passed /\ browse'[o].began = browse[o].began
             /\ browse'[o].saw = browse[o].saw /\ browse'[o].ok = browse[o].ok
             /\ browse'[o].alone => browse[o].alone /\ o \notin OthersIn(u, does, now)
  <2>1. browse[o] \in BrowseRecord
    BY BrowseFacts
  <2>2. CASE o \in OthersIn(u, does, now)
    <3>1. browse'[o] = [browse[o] EXCEPT !.alone = FALSE]
      BY <1>1, <1>5, <2>2
    <3> QED BY <2>1, <3>1 DEF BrowseRecord
  <2>3. CASE o \notin OthersIn(u, does, now)
    BY <1>1, <1>5, <2>3
  <2> QED BY <2>2, <2>3
<1>6. ASSUME NEW o \in BrowserUser, o # u
      PROVE  SessionOf(o)' = SessionOf(o) /\ Browsing(o)' = Browsing(o) /\ InSession(o)' = InSession(o)
  BY <1>5, <1>6 DEF SessionOf, Browsing, BrowseAt, InSession
<1>7. BrowserTypeOK' /\ BrowsesTyped'
  <2>1. \A o \in BrowserUser : browse'[o].passed \in 0..4 /\ browse'[o].began \in 0..MaxNow
    <3> SUFFICES ASSUME NEW o \in BrowserUser PROVE browse'[o].passed \in 0..4 /\ browse'[o].began \in 0..MaxNow
      OBVIOUS
    <3>1. browse'[o] \in BrowseRecord
      BY <1>1
    <3> QED BY <3>1 DEF BrowseRecord
  <2>2. begun' \in 0..MaxBrowses
    BY <1>2, BrowserAssumption DEF BrowserIInv, BrowserTypeOK
  <2>3. BrowserTypeOK'
    BY <1>3, <2>1, <2>2 DEF BrowserIInv, BrowserTypeOK, Session
  <2>4. \A o \in BrowserUser : Browsing(o)' => browse'[o].does # "nothing" /\ browse'[o].began \in 1..MaxNow
    <3> SUFFICES ASSUME NEW o \in BrowserUser, Browsing(o)'
                 PROVE  browse'[o].does # "nothing" /\ browse'[o].began \in 1..MaxNow
      OBVIOUS
    <3>1. CASE o = u
      BY <1>1, <1>4, <3>1
    <3>2. CASE o # u
      BY <1>5, <1>6, <3>2 DEF BrowserIInv, BrowsesTyped
    <3> QED BY <3>1, <3>2
  <2>5. receipt' \in [Session -> [of : BrowserUser \cup {NoOne}, ok : BOOLEAN]]
    BY <1>3 DEF BrowserIInv, BrowsesTyped
  <2> QED BY <1>1, <2>3, <2>4, <2>5 DEF BrowsesTyped, BrowseRecord, Session
<1>8. ASSUME NEW o \in BrowserUser, o # u, Browsing(o), SessionOf(o) = SessionOf(u)'
      PROVE  o \in OthersIn(u, does, now)
  <2>1. /\ browse[o].does \in {"probe", "open", "screenshot", "task"} /\ browse[o].at # "idle"
        /\ browse[o].began \in 1..MaxNow
    BY <1>8, BrowseFacts DEF Browsing, BrowseAt
  <2>2. CASE does = "probe"
    <3>1. browse[o].does = "probe"
      BY <1>4, <1>8, <2>1, <2>2 DEF SessionOf, ProbeSession
    <3> QED BY <1>8, <2>1, <2>2, <3>1 DEF OthersIn
  <2>3. CASE does # "probe"
    <3>1. browse[o].does # "probe" /\ browse[o].began = now
      BY <1>4, <1>8, <2>1, <2>3 DEF SessionOf, ProbeSession
    <3>2. {does, browse[o].does} \cap {"nothing", "probe"} = {}
      BY <2>1, <2>3, <3>1
    <3> QED BY <1>8, <2>1, <3>1, <3>2 DEF OthersIn
  <2> QED BY <2>2, <2>3
<1>9. AloneInSession'
  <2> SUFFICES ASSUME NEW p \in BrowserUser, NEW o \in BrowserUser, p # o, Browsing(p)', Browsing(o)',
                      SessionOf(p)' = SessionOf(o)'
               PROVE  ~browse'[p].alone
    BY DEF AloneInSession
  <2>1. CASE p = u
    <3>1. o \in OthersIn(u, does, now)
      BY <1>6, <1>8, <2>1
    <3> QED BY <1>1, <2>1, <3>1
  <2>2. CASE o = u
    <3>1. p \in OthersIn(u, does, now)
      BY <1>6, <1>8, <2>2
    <3> QED BY <1>5, <2>2, <3>1
  <2>3. CASE p # u /\ o # u
    <3>1. Browsing(p) /\ Browsing(o) /\ SessionOf(p) = SessionOf(o)
      BY <1>6, <2>3
    <3>2. ~browse[p].alone
      BY <3>1 DEF BrowserIInv, AloneInSession
    <3> QED BY <1>5, <2>3, <3>2
  <2> QED BY <2>1, <2>2, <2>3
<1>10. ProbeSeesPage'
  <2> SUFFICES ASSUME NEW o \in BrowserUser, Browsing(o)', browse'[o].does = "probe", browse'[o].alone
               PROVE  /\ browse'[o].saw \subseteq {"page"}
                      /\ browse'[o].at \in {"drive", "drove"} /\ browse'[o].passed >= 2 =>
                           page'[ProbeSession] = "page"
    BY DEF ProbeSeesPage
  <2>1. CASE o = u
    <3>1. browse'[o] = fresh
      BY <1>4, <2>1
    <3>2. fresh.passed = 0 /\ fresh.saw = {} /\ fresh.at # "drove" /\ ~fresh.ok
      BY <1>1
    <3> QED BY <3>1, <3>2
  <2>2. CASE o # u
    <3>1. Browsing(o) /\ browse[o].does = "probe" /\ browse[o].alone
      BY <1>5, <1>6, <2>2
    <3> QED BY <1>3, <1>5, <2>2, <3>1 DEF BrowserIInv, ProbeSeesPage
  <2> QED BY <2>1, <2>2
<1>11. ActionLeavesFiles'
  <2> SUFFICES ASSUME NEW o \in BrowserUser, Browsing(o)', browse'[o].does \in {"open", "screenshot"}
               PROVE  /\ browse'[o].at = "drove" \/ browse'[o].ok =>
                           browse'[o].passed = Len(BrowseSteps(browse'[o].does))
                      /\ browse'[o].alone /\ browse'[o].ok =>
                           receipt'[SessionOf(o)'] = [of |-> o, ok |-> TRUE]
                      /\ browse'[o].alone /\ browse'[o].does = "screenshot" /\ browse'[o].passed = 4 =>
                           picture'[SessionOf(o)'] = o
    BY DEF ActionLeavesFiles, BrowseSteps, BrowseAt
  <2>1. CASE o = u
    <3>1. browse'[o] = fresh
      BY <1>4, <2>1
    <3>2. fresh.passed = 0 /\ fresh.saw = {} /\ fresh.at # "drove" /\ ~fresh.ok
      BY <1>1
    <3> QED BY <3>1, <3>2
  <2>2. CASE o # u
    <3>1. Browsing(o) /\ browse[o].does \in {"open", "screenshot"}
      BY <1>5, <1>6, <2>2
    <3>2. /\ browse[o].at = "drove" \/ browse[o].ok => browse[o].passed = Len(BrowseSteps(browse[o].does))
          /\ browse[o].alone /\ browse[o].ok => receipt[SessionOf(o)] = [of |-> o, ok |-> TRUE]
          /\ browse[o].alone /\ browse[o].does = "screenshot" /\ browse[o].passed = 4 => picture[SessionOf(o)] = o
      BY <3>1 DEF BrowserIInv, ActionLeavesFiles, BrowseAt
    <3> QED BY <1>3, <1>5, <1>6, <2>2, <3>2
  <2> QED BY <2>1, <2>2
<1>12. \A o \in BrowserUser : InPlace(browse'[o])
  <2> SUFFICES ASSUME NEW o \in BrowserUser PROVE InPlace(browse'[o])
    OBVIOUS
  <2>1. CASE o = u
    BY <1>1, <1>4, <2>1
  <2>2. CASE o # u
    BY <1>5, <2>2 DEF BrowserIInv, InPlace
  <2> QED BY <2>1, <2>2
<1>13. \A s \in Session \ abandoned' :
         page'[s] = "closed" \/ \E o \in BrowserUser : InSession(o)' /\ SessionOf(o)' = s
  <2> SUFFICES ASSUME NEW s \in Session \ abandoned', page'[s] # "closed"
               PROVE  \E o \in BrowserUser : InSession(o)' /\ SessionOf(o)' = s
    OBVIOUS
  <2>1. PICK o \in BrowserUser : InSession(o) /\ SessionOf(o) = s
    BY <1>3 DEF BrowserIInv
  <2>2. o # u
    BY <1>2, <2>1 DEF InSession
  <2> QED BY <1>6, <2>1, <2>2
<1>14. proof'.says = "ready" /\ proof'.alone => proof'.true
  BY <1>3 DEF BrowserIInv
<1> QED BY <1>7, <1>9, <1>10, <1>11, <1>12, <1>13, <1>14 DEF BrowserIInv, InPlace, BrowseSteps

-----------------------------------------------------------------------------
(* The package, the clock and the state directory move by themselves.      *)

LEMMA BrowserAroundStep ==
  ASSUME BrowserIInv, UNCHANGED <<browse, page, proof, receipt, picture, begun, abandoned>>,
         shot' \in BOOLEAN, package' \in BOOLEAN, onPath' \in BOOLEAN, now' \in 1..MaxNow
  PROVE  BrowserIInv'
<1>1. /\ browse' = browse /\ page' = page /\ proof' = proof /\ receipt' = receipt /\ picture' = picture
      /\ begun' = begun /\ abandoned' = abandoned
  OBVIOUS
<1>2. BrowserTypeOK' /\ BrowsesTyped'
  BY <1>1 DEF BrowserIInv, BrowserTypeOK, BrowsesTyped, Session, Browsing, BrowseAt
<1>3. AloneInSession' /\ ProbeSeesPage' /\ ActionLeavesFiles'
  BY <1>1 DEF BrowserIInv, AloneInSession, ProbeSeesPage, ActionLeavesFiles, Browsing, BrowseAt, SessionOf, BrowseSteps
<1>4. (\A u \in BrowserUser : InPlace(browse[u]))'
  BY <1>1 DEF BrowserIInv, InPlace, BrowseSteps
<1>5. \A s \in Session \ abandoned' :
        page'[s] = "closed" \/ \E u \in BrowserUser : InSession(u)' /\ SessionOf(u)' = s
  BY <1>1, ZenonT(30) DEF BrowserIInv, InSession, SessionOf
<1>6. proof'.says = "ready" /\ proof'.alone => proof'.true
  BY <1>1 DEF BrowserIInv
<1> QED BY <1>2, <1>3, <1>4, <1>5, <1>6 DEF BrowserIInv

LEMMA BrowserSurroundings ==
  ASSUME BrowserIInv, InstallBrowserUse \/ RemoveBrowserUse \/ TimePasses \/ LoseScreenshot \/ UNCHANGED browser_vars
  PROVE  BrowserIInv'
<1>1. package \in BOOLEAN /\ onPath \in BOOLEAN /\ shot \in BOOLEAN /\ now \in 1..MaxNow /\ MaxNow \in Nat
  BY BrowserAssumption DEF BrowserIInv, BrowserTypeOK
<1>2. CASE InstallBrowserUse
  <2>1. /\ UNCHANGED <<browse, page, proof, receipt, picture, begun, abandoned>> /\ shot' = shot /\ now' = now
        /\ package' = TRUE /\ onPath' \in BOOLEAN
    BY <1>2 DEF InstallBrowserUse, browser_files
  <2> QED BY <1>1, <2>1, BrowserAroundStep
<1>3. CASE RemoveBrowserUse
  <2>1. /\ UNCHANGED <<browse, page, proof, receipt, picture, begun, abandoned>> /\ shot' = shot /\ now' = now
        /\ package' = FALSE /\ onPath' = FALSE
    BY <1>3 DEF RemoveBrowserUse, browser_files
  <2> QED BY <1>1, <2>1, BrowserAroundStep
<1>4. CASE TimePasses
  <2>1. /\ UNCHANGED <<browse, page, proof, receipt, picture, begun, abandoned>> /\ shot' = shot
        /\ package' = package /\ onPath' = onPath /\ now < MaxNow /\ now' = now + 1
    BY <1>4 DEF TimePasses, browser_files
  <2>2. now' \in 1..MaxNow
    BY <1>1, <2>1
  <2> QED BY <1>1, <2>1, <2>2, BrowserAroundStep
<1>5. CASE LoseScreenshot
  <2>1. /\ UNCHANGED <<browse, page, proof, receipt, picture, begun, abandoned>> /\ shot' = FALSE
        /\ package' = package /\ onPath' = onPath /\ now' = now
    BY <1>5 DEF LoseScreenshot, around
  <2> QED BY <1>1, <2>1, BrowserAroundStep
<1>6. CASE UNCHANGED browser_vars
  <2>1. /\ UNCHANGED <<browse, page, proof, receipt, picture, begun, abandoned>> /\ shot' = shot
        /\ package' = package /\ onPath' = onPath /\ now' = now
    BY <1>6 DEF browser_vars
  <2> QED BY <1>1, <2>1, BrowserAroundStep
<1> QED BY <1>2, <1>3, <1>4, <1>5, <1>6

LEMMA BrowserStarts ==
  ASSUME BrowserInit
  PROVE  BrowserIInv
<1>1. \A u \in BrowserUser : browse[u] = Idle
  BY DEF BrowserInit
<1>2. MaxNow \in Nat \ {0} /\ MaxBrowses \in Nat
  BY BrowserAssumption
<1>3. Idle \in BrowseRecord /\ Idle.at = "idle" /\ Idle.passed = 0 /\ Idle.began = 0
  BY <1>2 DEF Idle, BrowseRecord
<1>4. BrowserTypeOK
  <2>1. proof.says \in {"nothing", "ready", "failed"}
    BY DEF BrowserInit, NoProof
  <2>2. now \in 1..MaxNow /\ begun \in 0..MaxBrowses
    BY <1>2 DEF BrowserInit
  <2>3. \A u \in BrowserUser : browse[u].passed \in 0..4 /\ browse[u].began \in 0..MaxNow
    <3>1. 0 \in 0..4 /\ 0 \in 0..MaxNow
      BY <1>2
    <3> QED BY <1>1, <1>3, <3>1
  <2> QED BY <2>1, <2>2, <2>3 DEF BrowserInit, BrowserTypeOK
<1>5. \A u \in BrowserUser : ~Browsing(u) /\ ~InSession(u) /\ browse[u].at = "idle"
  BY <1>1, <1>3 DEF Browsing, BrowseAt, InSession
<1>6. BrowsesTyped
  <2>1. browse \in [BrowserUser -> BrowseRecord]
    BY <1>3 DEF BrowserInit
  <2>2. receipt \in [Session -> [of : BrowserUser \cup {NoOne}, ok : BOOLEAN]]
    BY DEF BrowserInit
  <2> QED BY <1>5, <2>1, <2>2 DEF BrowsesTyped, BrowseRecord
<1>7. AloneInSession /\ ProbeSeesPage /\ ActionLeavesFiles
  BY <1>5 DEF AloneInSession, ProbeSeesPage, ActionLeavesFiles
<1>8. \A u \in BrowserUser : InPlace(browse[u])
  BY <1>5 DEF InPlace
<1>9. proof.says = "nothing" /\ \A s \in Session : page[s] = "closed"
  BY DEF BrowserInit, NoProof
<1> QED BY <1>4, <1>6, <1>7, <1>8, <1>9 DEF BrowserIInv

LEMMA BrowserNextInv ==
  ASSUME BrowserIInv, [BrowserNext]_browser_vars
  PROVE  BrowserIInv'
<1>1. ASSUME NEW u \in BrowserUser,
             \/ BeginBrowse(u) \/ CommandPasses(u) \/ ScreenshotPasses(u) \/ CommandFails(u) \/ ScreenshotRaises(u)
             \/ RecordFailure(u) \/ RecordAction(u) \/ CloseSession(u) \/ RecordSuccess(u) \/ RunAgent(u)
             \/ EndBrowse(u) \/ KillBrowse(u)
      PROVE  BrowserIInv'
  BY <1>1, BeginBrowseStep, CommandPassesStep, ScreenshotPassesStep, CommandFailsStep, RecordFailureStep,
     RecordActionStep, CloseSessionStep, RecordSuccessStep, RunAgentStep, EndBrowseStep
<1> QED BY <1>1, BrowserSurroundings DEF BrowserNext

(* The inductive invariant holds in every reachable state.                 *)
LEMMA BrowserInductive == BrowserSpec => []BrowserIInv
<1>1. BrowserInit => BrowserIInv
  BY BrowserStarts
<1>2. BrowserIInv /\ [BrowserNext]_browser_vars => BrowserIInv'
  BY BrowserNextInv
<1> QED BY <1>1, <1>2, PTL DEF BrowserSpec

(* `browser-use status` says ready only of a complete and fresh probe whose *)
(* screenshot is there, and that saw its page unless another probe ran      *)
(* beside it; an action that succeeded, alone in its session, finds its     *)
(* own receipt and picture; and once every command has ended, no session    *)
(* is open but those of commands that were killed or could not close them.  *)
THEOREM BrowserReportsAreTrue == BrowserSpec => []BrowserReportsHold
<1>1. BrowserIInv => BrowserReportsHold
  <2> SUFFICES ASSUME BrowserIInv PROVE BrowserReportsHold
    OBVIOUS
  <2>1. ReportedStatus = "ready" =>
          /\ shot /\ proof.passed = 4 /\ now - proof.since <= ProofTtl
          /\ proof.alone => proof.true
    <3> SUFFICES ASSUME ReportedStatus = "ready"
                 PROVE  /\ shot /\ proof.passed = 4 /\ now - proof.since <= ProofTtl
                        /\ proof.alone => proof.true
      OBVIOUS
    <3>1. proof.says = "ready" /\ ProofComplete /\ ProofFresh /\ shot
      BY DEF ReportedStatus
    <3>2. proof.passed = 4
      BY <3>1, StepsFacts DEF ProofComplete
    <3> QED BY <3>1, <3>2 DEF ProofFresh, BrowserIInv
  <2>2. ASSUME NEW u \in BrowserUser, BrowseAt(u, "ended"), browse[u].ok, browse[u].alone
        PROVE  /\ browse[u].does \in {"open", "screenshot"} => receipt[SessionOf(u)] = [of |-> u, ok |-> TRUE]
               /\ browse[u].does = "screenshot" => picture[SessionOf(u)] = u
    <3>1. Browsing(u)
      BY <2>2 DEF Browsing, BrowseAt
    <3>2. browse[u].does = "screenshot" => browse[u].passed = 4
      BY <2>2, <3>1, StepsFacts DEF BrowserIInv, ActionLeavesFiles
    <3> QED BY <2>2, <3>1, <3>2 DEF BrowserIInv, ActionLeavesFiles
  <2>3. (\A u \in BrowserUser : browse[u].at \in {"idle", "ended"}) =>
          \A s \in Session \ abandoned : page[s] = "closed"
    BY DEF BrowserIInv, InSession
  <2> QED BY <2>1, <2>2, <2>3 DEF BrowserReportsHold
<1> QED BY <1>1, BrowserInductive, PTL

-----------------------------------------------------------------------------
(* The guide of the access levels.                                         *)

LEMMA GuideCommands ==
  /\ Restart # Level5Setup /\ Restart # Level5Status /\ Level5Setup # Level5Status
  /\ "spark access setup" \notin {Restart, Level5Setup, Level5Status}
  /\ "spark access setup --with docker" \notin {Restart, Level5Setup, Level5Status}
  /\ "spark sandbox ssh list" \notin {Restart, Level5Setup}
  /\ "spark sandbox modal doctor" \notin {Restart, Level5Setup}
BY DEF Restart, Level5Setup, Level5Status

(* What the next command is, of who asks for Level 5. *)
LEMMA NextOfLevel5 ==
  ASSUME GuideTypeOK, HighAgency
  PROVE  /\ Level5Configured /\ Enabled => NextAction = Level5Status
         /\ Level5Configured /\ ~Enabled => NextAction = Restart
         /\ ~Level5Configured => NextAction = Level5Setup
         /\ ActivationState # "partial" =>
              OperatorAction = NextAction /\ GuideSteps.whole_computer = NextAction
<1>1. process \in {"none", "some", "all"} /\ services \in {"stopped", "stale", "mixed", "current"}
      /\ keyFiles \in {"none", "some", "all"} /\ audited \in BOOLEAN
  BY DEF GuideTypeOK
<1> DEFINE whole == CASE ActivationState = "active" \/ ActivationState = "active_for_services" -> Level5Status
                      [] ActivationState = "session_only" -> Level5Setup
                      [] ActivationState = "restart_required" -> Restart
                      [] OTHER -> Level5Setup
<1>2. GuideSteps.whole_computer = whole
  BY DEF GuideSteps
<1>3. /\ Level5Configured /\ Enabled => ActivationState \in {"active", "active_for_services"} /\ ~RestartRequired
      /\ Level5Configured /\ ~Enabled => ActivationState \in {"partial", "restart_required"} /\ RestartRequired
      /\ ~Level5Configured => ActivationState \in {"session_only", "partial", "blocked"} /\ ~RestartRequired
  BY <1>1 DEF ActivationState, Level5Configured, Enabled, RestartRequired, ProcessActive, ServiceActive, ServiceState
<1> HIDE DEF whole
<1>4. /\ Level5Configured /\ Enabled => NextAction = Level5Status
      /\ Level5Configured /\ ~Enabled => NextAction = Restart
      /\ ~Level5Configured => NextAction = Level5Setup
  BY <1>3 DEF NextAction
<1>5. /\ ActivationState \in {"active", "active_for_services"} => OperatorAction = Level5Status /\ whole = Level5Status
      /\ ActivationState = "restart_required" => OperatorAction = Restart /\ whole = Restart
      /\ ActivationState \in {"session_only", "blocked"} => OperatorAction = Level5Setup /\ whole = Level5Setup
  BY DEF OperatorAction, whole
<1> QED BY <1>2, <1>3, <1>4, <1>5

LEMMA GuideInitOK == GuideInit => GuideIInv
<1> SUFFICES ASSUME GuideInit PROVE GuideIInv
  OBVIOUS
<1>1. GuideTypeOK
  BY GuideAssumption DEF GuideInit, GuideTypeOK
<1>2. Level5Configured => Enabled \/ EnableWasCut \/ audited
  BY DEF EnableWasCut, Enabled
<1> QED BY <1>1, <1>2 DEF GuideInit, GuideIInv

LEMMA GuideStepOK == GuideIInv /\ [GuideNext]_guide_vars => GuideIInv'
<1> SUFFICES ASSUME GuideIInv, [GuideNext]_guide_vars PROVE GuideIInv'
  OBVIOUS
<1> USE GuideAssumption
<1>1. CASE UNCHANGED guide_vars
  BY <1>1 DEF guide_vars, GuideIInv, GuideTypeOK, HighAgency, EnableWasCut, Level5Configured, Enabled,
              ProcessActive, ServiceActive
<1>2. CASE FollowNext
  <2>0. GuideTypeOK
    BY DEF GuideIInv
  <2>1. /\ followed' = followed + 1 /\ followed < MaxFollowed
        /\ want' = want /\ process' = process /\ backends' = backends
        /\ HighAgency' = HighAgency /\ ProcessActive' = ProcessActive
    BY <1>2 DEF FollowNext, HighAgency, ProcessActive
  <2>2. GuideTypeOK'
    <3>1. /\ keyFiles' \in {"none", "some", "all"} /\ audited' \in BOOLEAN
          /\ services' \in {"stopped", "stale", "mixed", "current"}
          /\ workspace' \in {"absent", "ready", "unwritable"}
      BY <1>2, <2>0 DEF FollowNext, EnableLevel5, RestartServices, SetUpWorkspace, LookOnly, EnsureWorkspace, GuideTypeOK
    <3> QED BY <2>0, <2>1, <3>1 DEF GuideTypeOK
  <2>3. CASE ~HighAgency
    BY <2>1, <2>2, <2>3 DEF GuideIInv
  <2>4. CASE HighAgency /\ Level5Configured /\ Enabled
    <3>1. NextAction = Level5Status
      BY <2>0, <2>4, NextOfLevel5
    <3>2. LookOnly
      BY <1>2, <3>1, GuideCommands DEF FollowNext, EnableLevel5, RestartServices, SetUpWorkspace
    <3>3. (Level5Configured /\ Enabled)'
      BY <2>1, <2>4, <3>2 DEF LookOnly, Level5Configured, Enabled, ServiceActive
    <3> QED BY <2>1, <2>2, <3>3 DEF GuideIInv
  <2>5. CASE HighAgency /\ Level5Configured /\ ~Enabled
    <3>1. NextAction = Restart
      BY <2>0, <2>5, NextOfLevel5
    <3>2. RestartServices
      BY <1>2, <3>1, GuideCommands DEF FollowNext, EnableLevel5, LookOnly, SetUpWorkspace
    <3>3. (Level5Configured /\ (EnableWasCut \/ Enabled))'
      BY <2>0, <2>1, <2>5, <3>2 DEF RestartServices, Level5Configured, Enabled, ServiceActive, EnableWasCut, GuideTypeOK
    <3> QED BY <2>1, <2>2, <3>3 DEF GuideIInv
  <2>6. CASE HighAgency /\ ~Level5Configured
    <3>1. NextAction = Level5Setup
      BY <2>0, <2>6, NextOfLevel5
    <3>2. EnableLevel5
      BY <1>2, <3>1, GuideCommands DEF FollowNext, RestartServices, LookOnly, SetUpWorkspace
    <3>3. followed = 0
      BY <2>6 DEF GuideIInv, EnableWasCut
    <3>4. (Level5Configured /\ audited /\ followed <= 1)'
      BY <2>1, <3>2, <3>3 DEF EnableLevel5, Level5Configured
    <3> QED BY <2>1, <2>2, <3>4 DEF GuideIInv
  <2> QED BY <2>3, <2>4, <2>5, <2>6
<1> QED BY <1>1, <1>2 DEF GuideNext

LEMMA GuideLeads == GuideIInv => NextLeadsToLevel5
<1> SUFFICES ASSUME GuideIInv, HighAgency PROVE NextLeadsToLevel5
  BY DEF NextLeadsToLevel5
<1>1. GuideTypeOK /\ followed \in Nat
  BY GuideAssumption DEF GuideIInv, GuideTypeOK
<1>2. followed >= 2 /\ ~EnableWasCut => Level5Configured /\ Enabled
  BY <1>1 DEF GuideIInv
<1>3. Level5Configured /\ Enabled => FullPermissionProof
  BY DEF FullPermissionProof, EffectiveLevel, RestartRequired, FullSandbox
<1> QED BY <1>1, <1>2, <1>3, NextOfLevel5 DEF NextLeadsToLevel5

LEMMA GuideInductive == GuideSpec => []GuideIInv
BY GuideInitOK, GuideStepOK, PTL DEF GuideSpec

(* The guide of `spark access` leads to Level 5 in two commands, unless the *)
(* enable was killed before its audit event: for any backends, services,   *)
(* workspace and key files that it is followed from.                       *)
THEOREM GuideReachesLevel5 == GuideSpec => []NextLeadsToLevel5
BY GuideInductive, GuideLeads, PTL

-----------------------------------------------------------------------------
(* Missions that a preflight runs.                                         *)

(* The mission another check takes up, unlike one the board already has. *)
LEMMA NewMission ==
  ASSUME MissionSmokeIInv, NEW c \in Checker, NEW m \in MissionId, TakenUp(c, m)
  PROVE  /\ board' \in [MissionId -> MissionRecord]
         /\ board'[m] = [kind |-> lane[c].kind, state |-> "running", listed |-> TRUE]
         /\ board[m].state = "unused"
         /\ \A n \in MissionId \ {m} : board'[n] = board[n]
<1>1. /\ board[m] = Unused /\ board \in [MissionId -> MissionRecord]
      /\ board' = [board EXCEPT ![m] = [kind |-> lane[c].kind, state |-> "running", listed |-> TRUE]]
  BY DEF TakenUp, MissionSmokeIInv
<1>2. lane[c].kind \in CheckKind \cup {"none"}
  BY DEF MissionSmokeIInv, CheckRecord
<1>3. [kind |-> lane[c].kind, state |-> "running", listed |-> TRUE] \in MissionRecord
  BY <1>2 DEF MissionRecord
<1> QED BY <1>1, <1>3 DEF Unused

(* What was completed stays completed. *)
LEMMA CompletedStays ==
  ASSUME MissionSmokeIInv, NEW n \in MissionId, board[n].state = "completed",
         \/ board' = board \/ MissionEnds \/ BoardDrops
         \/ \E c \in Checker, m \in MissionId : TakenUp(c, m)
  PROVE  board'[n].state = "completed" /\ board'[n].kind = board[n].kind
<1>1. board \in [MissionId -> MissionRecord]
  BY DEF MissionSmokeIInv
<1>2. CASE MissionEnds
  <2>1. PICK m \in MissionId, state \in {"completed", "expired"} :
          board[m].state = "running" /\ board' = [board EXCEPT ![m].state = state]
    BY <1>2 DEF MissionEnds
  <2> QED BY <1>1, <2>1
<1>3. CASE BoardDrops
  <2>1. PICK m \in MissionId : board' = [board EXCEPT ![m].listed = FALSE]
    BY <1>3 DEF BoardDrops
  <2> QED BY <1>1, <2>1 DEF MissionRecord
<1>4. CASE \E c \in Checker, m \in MissionId : TakenUp(c, m)
  BY <1>4, NewMission
<1> QED BY <1>2, <1>3, <1>4

(* The step of one check: its own record changes, and others of the kind   *)
(* may no longer be alone.                                                 *)
LEMMA CheckGoesOn ==
  ASSUME MissionSmokeIInv, NEW c \in Checker,
         lane' \in [Checker -> CheckRecord], board' \in [MissionId -> MissionRecord],
         checksBegun' \in 0..MaxChecks,
         \A n \in MissionId : board[n].state = "completed" =>
           board'[n].state = "completed" /\ board'[n].kind = board[n].kind,
         \A d \in Checker \ {c} :
           /\ lane'[d].kind = lane[d].kind /\ lane'[d].at = lane[d].at
           /\ lane'[d].own = lane[d].own /\ lane'[d].ok = lane[d].ok
           /\ lane'[d].alone => lane[d].alone /\ ListedOf(lane[d].kind)' \subseteq ListedOf(lane[d].kind),
         AloneOnBoard(c)', lane'[c].ok => lane'[c].at = "answered",
         lane'[c].ok =>
           /\ \E n \in MissionId : board'[n].kind = lane'[c].kind /\ board'[n].state = "completed"
           /\ lane'[c].alone => board'[lane'[c].own].state = "completed"
  PROVE  MissionSmokeIInv'
<1>1. ASSUME NEW d \in Checker
      PROVE  /\ AloneOnBoard(d)' /\ (lane'[d].ok => CheckAt(d, "answered")')
             /\ lane'[d].ok => /\ \E n \in MissionId : board'[n].kind = lane'[d].kind /\ board'[n].state = "completed"
                               /\ lane'[d].alone => board'[lane'[d].own].state = "completed"
  <2>1. CASE d = c
    BY <2>1 DEF CheckAt
  <2>2. CASE d # c
    <3>1. /\ AloneOnBoard(d) /\ (lane[d].ok => lane[d].at = "answered")
          /\ lane[d].ok => /\ \E n \in MissionId : board[n].kind = lane[d].kind /\ board[n].state = "completed"
                           /\ lane[d].alone => board[lane[d].own].state = "completed"
      BY DEF MissionSmokeIInv, PreflightIsTrue, CheckAt
    <3>2. /\ lane'[d].kind = lane[d].kind /\ lane'[d].at = lane[d].at
          /\ lane'[d].own = lane[d].own /\ lane'[d].ok = lane[d].ok
          /\ lane'[d].alone => lane[d].alone /\ ListedOf(lane[d].kind)' \subseteq ListedOf(lane[d].kind)
      BY <2>2
    <3>3. lane[d].alone => lane[d].own \in MissionId
      BY <3>1 DEF AloneOnBoard
    <3>5. AloneOnBoard(d)'
      BY <3>1, <3>2 DEF AloneOnBoard, CheckAt
    <3>6. lane'[d].ok => CheckAt(d, "answered")'
      BY <3>1, <3>2 DEF CheckAt
    <3> QED BY <3>1, <3>2, <3>3, <3>5, <3>6
  <2> QED BY <2>1, <2>2
<1>2. PreflightIsTrue'
  BY <1>1 DEF PreflightIsTrue
<1> QED BY <1>1, <1>2 DEF MissionSmokeIInv

LEMMA BeginCheckKeeps ==
  ASSUME MissionSmokeIInv, NEW c \in Checker, BeginCheck(c)
  PROVE  MissionSmokeIInv'
<1>1. PICK kind \in CheckKind, ready \in BOOLEAN :
        lane' = [lane EXCEPT ![c] = [NotChecking EXCEPT !.kind = kind, !.at = IF ready THEN "start" ELSE "answered"]]
  BY DEF BeginCheck
<1>2. PICK at \in {"start", "answered"} :
        lane' = [lane EXCEPT ![c] = [NotChecking EXCEPT !.kind = kind, !.at = at]]
  BY <1>1
<1> DEFINE new == [NotChecking EXCEPT !.kind = kind, !.at = at]
<1>3. NotChecking \in CheckRecord /\ NotChecking.alone = FALSE /\ NotChecking.ok = FALSE
  BY DEF NotChecking, CheckRecord
<1>4. new \in CheckRecord /\ new.at = at /\ new.alone = FALSE /\ new.ok = FALSE
  BY <1>3 DEF CheckRecord
<1> HIDE DEF new
<1>5. /\ lane \in [Checker -> CheckRecord] /\ board' = board /\ board \in [MissionId -> MissionRecord]
      /\ checksBegun' = checksBegun + 1 /\ checksBegun < MaxChecks /\ checksBegun \in 0..MaxChecks
  BY DEF BeginCheck, MissionSmokeIInv
<1>6. lane' = [lane EXCEPT ![c] = new]
  BY <1>2 DEF new
<1>7. lane'[c] = new /\ lane' \in [Checker -> CheckRecord] /\ \A d \in Checker \ {c} : lane'[d] = lane[d]
  BY <1>4, <1>5, <1>6
<1>8. \A d \in Checker \ {c} : ListedOf(lane[d].kind)' \subseteq ListedOf(lane[d].kind)
  BY <1>5, <1>7 DEF ListedOf
<1>9. checksBegun' \in 0..MaxChecks
  BY <1>5, MissionSmokeAssumption
<1>10. AloneOnBoard(c)' /\ ~lane'[c].ok
  BY <1>4, <1>7 DEF AloneOnBoard
<1> QED BY <1>5, <1>7, <1>8, <1>9, <1>10, CheckGoesOn

(* Taking up a mission leaves the board as it is for the other kind, and   *)
(* those of the same kind are no longer alone.                             *)
LEMMA OthersMeetMission ==
  ASSUME MissionSmokeIInv, NEW c \in Checker, NEW m \in MissionId, TakenUp(c, m),
         NEW new \in CheckRecord,
         lane' = [d \in Checker |-> IF d = c THEN new
                                    ELSE IF lane[d].kind = lane[c].kind THEN [lane[d] EXCEPT !.alone = FALSE]
                                    ELSE lane[d]]
  PROVE  /\ lane' \in [Checker -> CheckRecord] /\ lane'[c] = new
         /\ \A d \in Checker \ {c} :
              /\ lane'[d].kind = lane[d].kind /\ lane'[d].at = lane[d].at
              /\ lane'[d].own = lane[d].own /\ lane'[d].ok = lane[d].ok
              /\ lane'[d].alone => lane[d].alone /\ ListedOf(lane[d].kind)' \subseteq ListedOf(lane[d].kind)
<1>1. lane \in [Checker -> CheckRecord]
  BY DEF MissionSmokeIInv
<1>2. ASSUME NEW d \in Checker, d # c
      PROVE  /\ lane'[d] \in CheckRecord
             /\ lane'[d].kind = lane[d].kind /\ lane'[d].at = lane[d].at
             /\ lane'[d].own = lane[d].own /\ lane'[d].ok = lane[d].ok
             /\ lane'[d].alone => lane[d].alone /\ lane[d].kind # lane[c].kind
  <2>1. lane[d] \in CheckRecord
    BY <1>1
  <2>2. CASE lane[d].kind = lane[c].kind
    <3>1. lane'[d] = [lane[d] EXCEPT !.alone = FALSE]
      BY <1>2, <2>2
    <3> QED BY <2>1, <3>1 DEF CheckRecord
  <2>3. CASE lane[d].kind # lane[c].kind
    BY <1>2, <2>1, <2>3
  <2> QED BY <2>2, <2>3
<1>3. ASSUME NEW d \in Checker, d # c, lane[d].kind # lane[c].kind
      PROVE  ListedOf(lane[d].kind)' \subseteq ListedOf(lane[d].kind)
  <2>1. lane'[d].kind = lane[d].kind
    BY <1>2, <1>3
  <2>2. board'[m] = [kind |-> lane[c].kind, state |-> "running", listed |-> TRUE]
    BY NewMission
  <2>3. \A n \in MissionId \ {m} : board'[n] = board[n]
    BY NewMission
  <2>4. board'[m].kind # lane[d].kind
    BY <1>3, <2>2
  <2> QED BY <2>1, <2>3, <2>4 DEF ListedOf
<1>4. lane'[c] = new /\ lane' \in [Checker -> CheckRecord]
  BY <1>2
<1> QED BY <1>2, <1>3, <1>4

LEMMA RunMissionKeeps ==
  ASSUME MissionSmokeIInv, NEW c \in Checker, RunMission(c)
  PROVE  MissionSmokeIInv'
<1>1. PICK m \in MissionId :
        /\ TakenUp(c, m)
        /\ lane' = [d \in Checker |->
             IF d = c THEN [lane[c] EXCEPT !.at = "poll", !.own = m, !.alone = ListedOf(lane[c].kind) = {}]
             ELSE IF lane[d].kind = lane[c].kind THEN [lane[d] EXCEPT !.alone = FALSE] ELSE lane[d]]
  BY DEF RunMission
<1>2. PICK alone \in BOOLEAN : alone = (ListedOf(lane[c].kind) = {})
  OBVIOUS
<1> DEFINE new == [lane[c] EXCEPT !.at = "poll", !.own = m, !.alone = alone]
<1>3. lane[c] \in CheckRecord /\ (lane[c].ok => lane[c].at = "answered") /\ lane[c].at = "start"
  BY DEF RunMission, MissionSmokeIInv, CheckAt
<1>4. /\ new \in CheckRecord /\ new.at = "poll" /\ new.own = m /\ new.alone = alone
      /\ new.kind = lane[c].kind /\ new.ok = lane[c].ok
  <2>1. lane[c] = [kind |-> lane[c].kind, at |-> lane[c].at, own |-> lane[c].own, alone |-> lane[c].alone, ok |-> lane[c].ok]
    BY <1>3 DEF CheckRecord
  <2> DEFINE b == alone
  <2>a. new = [lane[c] EXCEPT !.at = "poll", !.own = m, !.alone = b]
    OBVIOUS
  <2> HIDE DEF b, new
  <2>b. new = [kind |-> lane[c].kind, at |-> "poll", own |-> m, alone |-> b, ok |-> lane[c].ok]
    BY <2>1, <2>a
  <2>2. new = [kind |-> lane[c].kind, at |-> "poll", own |-> m, alone |-> alone, ok |-> lane[c].ok]
    BY <2>b DEF b
  <2>3. lane[c].kind \in CheckKind \cup {"none"} /\ lane[c].ok \in BOOLEAN
    BY <1>3 DEF CheckRecord
  <2> QED BY <2>2, <2>3 DEF CheckRecord
<1>5. lane' = [d \in Checker |-> IF d = c THEN new
                                 ELSE IF lane[d].kind = lane[c].kind THEN [lane[d] EXCEPT !.alone = FALSE]
                                 ELSE lane[d]]
  BY <1>1, <1>2
<1> HIDE DEF new
<1>6. /\ lane' \in [Checker -> CheckRecord] /\ lane'[c] = new
      /\ \A d \in Checker \ {c} :
              /\ lane'[d].kind = lane[d].kind /\ lane'[d].at = lane[d].at
              /\ lane'[d].own = lane[d].own /\ lane'[d].ok = lane[d].ok
              /\ lane'[d].alone => lane[d].alone /\ ListedOf(lane[d].kind)' \subseteq ListedOf(lane[d].kind)
  BY <1>1, <1>4, <1>5, OthersMeetMission
<1>7. /\ board' \in [MissionId -> MissionRecord]
      /\ \A n \in MissionId \ {m} : board'[n] = board[n]
      /\ \A n \in MissionId : board[n].state = "completed" =>
           board'[n].state = "completed" /\ board'[n].kind = board[n].kind
  BY <1>1, NewMission, CompletedStays
<1>8. AloneOnBoard(c)'
  <2>1. lane'[c].own = m /\ lane'[c].alone = alone /\ lane'[c].kind = lane[c].kind
    BY <1>4, <1>6
  <2>2. ASSUME alone PROVE ListedOf(lane[c].kind)' \subseteq {m}
    <3>1. \A n \in MissionId : ~(board[n].listed /\ board[n].kind = lane[c].kind)
      BY <1>2, <2>2 DEF ListedOf
    <3>2. \A n \in MissionId \ {m} : ~(board'[n].listed /\ board'[n].kind = lane'[c].kind)
      BY <1>7, <2>1, <3>1
    <3>3. ListedOf(lane[c].kind)' = {n \in MissionId : board'[n].listed /\ board'[n].kind = lane'[c].kind}
      BY DEF ListedOf
    <3> QED BY <3>2, <3>3
  <2> QED BY <2>1, <2>2 DEF AloneOnBoard
<1>9. ~lane'[c].ok
  BY <1>3, <1>4, <1>6
<1>10. checksBegun' \in 0..MaxChecks
  BY DEF RunMission, MissionSmokeIInv
<1> QED BY <1>6, <1>7, <1>8, <1>9, <1>10, CheckGoesOn

LEMMA NoMarkerKeeps ==
  ASSUME MissionSmokeIInv, NEW c \in Checker, NEW ok \in BOOLEAN, Answers(c, ok), board' = board,
         checksBegun' = checksBegun,
         ok => /\ \E n \in MissionId : board[n].kind = lane[c].kind /\ board[n].state = "completed"
               /\ lane[c].alone => board[lane[c].own].state = "completed"
  PROVE  MissionSmokeIInv'
<1>1. lane \in [Checker -> CheckRecord] /\ board \in [MissionId -> MissionRecord] /\ AloneOnBoard(c)
  BY DEF MissionSmokeIInv
<1>2. lane' = [lane EXCEPT ![c] = [lane[c] EXCEPT !.at = "answered", !.ok = ok]]
  BY DEF Answers
<1> DEFINE new == [lane[c] EXCEPT !.at = "answered", !.ok = ok]
<1>3. lane[c] = [kind |-> lane[c].kind, at |-> lane[c].at, own |-> lane[c].own, alone |-> lane[c].alone, ok |-> lane[c].ok]
  BY <1>1 DEF CheckRecord
<1>4. new = [kind |-> lane[c].kind, at |-> "answered", own |-> lane[c].own, alone |-> lane[c].alone, ok |-> ok]
  <2> DEFINE b == ok
  <2>1. new = [lane[c] EXCEPT !.at = "answered", !.ok = b]
    OBVIOUS
  <2> HIDE DEF b, new
  <2>2. new = [kind |-> lane[c].kind, at |-> "answered", own |-> lane[c].own, alone |-> lane[c].alone, ok |-> b]
    BY <1>3, <2>1
  <2> QED BY <2>2 DEF b
<1>5. /\ lane[c].kind \in CheckKind \cup {"none"} /\ lane[c].own \in MissionId \cup {NoMissionYet}
      /\ lane[c].alone \in BOOLEAN
  BY <1>1 DEF CheckRecord
<1>6. /\ new \in CheckRecord /\ new.kind = lane[c].kind /\ new.at = "answered"
      /\ new.own = lane[c].own /\ new.alone = lane[c].alone /\ new.ok = ok
  BY <1>4, <1>5 DEF CheckRecord
<1> HIDE DEF new
<1>7. lane'[c] = new /\ lane' \in [Checker -> CheckRecord] /\ \A d \in Checker \ {c} : lane'[d] = lane[d]
  BY <1>1, <1>2, <1>6 DEF new
<1>8. \A d \in Checker \ {c} : ListedOf(lane[d].kind)' \subseteq ListedOf(lane[d].kind)
  BY <1>7 DEF ListedOf
<1>9. AloneOnBoard(c)'
  BY <1>1, <1>6, <1>7 DEF AloneOnBoard, CheckAt
<1>10. lane'[c].kind = lane[c].kind /\ lane'[c].own = lane[c].own /\ lane'[c].at = "answered"
       /\ lane'[c].alone = lane[c].alone /\ lane'[c].ok = ok
  BY <1>6, <1>7
<1>11. checksBegun' \in 0..MaxChecks
  BY DEF MissionSmokeIInv
<1> QED BY <1>1, <1>7, <1>8, <1>9, <1>10, <1>11, CheckGoesOn

LEMMA RequestFailsKeeps ==
  ASSUME MissionSmokeIInv, NEW c \in Checker, RequestFails(c)
  PROVE  MissionSmokeIInv'
<1>1. CASE board' = board /\ Answers(c, FALSE)
  BY <1>1, NoMarkerKeeps DEF RequestFails
<1>2. CASE /\ \E m \in MissionId : TakenUp(c, m)
           /\ lane' = [d \in Checker |->
                IF d = c THEN [lane[c] EXCEPT !.at = "answered"]
                ELSE IF lane[d].kind = lane[c].kind THEN [lane[d] EXCEPT !.alone = FALSE] ELSE lane[d]]
  <2>1. PICK m \in MissionId : TakenUp(c, m)
    BY <1>2
  <2>2. /\ lane[c] \in CheckRecord /\ (lane[c].ok => lane[c].at = "answered") /\ lane[c].at = "start"
        /\ lane[c].alone => lane[c].own \in MissionId
    BY DEF RequestFails, MissionSmokeIInv, CheckAt, AloneOnBoard
  <2> DEFINE new == [lane[c] EXCEPT !.at = "answered"]
  <2>3. /\ new \in CheckRecord /\ new.at = "answered" /\ new.own = lane[c].own
        /\ new.alone = lane[c].alone /\ new.ok = lane[c].ok
    BY <2>2 DEF CheckRecord
  <2> HIDE DEF new
  <2>4. lane' = [d \in Checker |-> IF d = c THEN new
                                   ELSE IF lane[d].kind = lane[c].kind THEN [lane[d] EXCEPT !.alone = FALSE]
                                   ELSE lane[d]]
    BY <1>2 DEF new
  <2>5. /\ lane' \in [Checker -> CheckRecord] /\ lane'[c] = new
        /\ \A d \in Checker \ {c} :
              /\ lane'[d].kind = lane[d].kind /\ lane'[d].at = lane[d].at
              /\ lane'[d].own = lane[d].own /\ lane'[d].ok = lane[d].ok
              /\ lane'[d].alone => lane[d].alone /\ ListedOf(lane[d].kind)' \subseteq ListedOf(lane[d].kind)
    BY <2>1, <2>3, <2>4, OthersMeetMission
  <2>6. /\ board' \in [MissionId -> MissionRecord]
        /\ \A n \in MissionId : board[n].state = "completed" =>
             board'[n].state = "completed" /\ board'[n].kind = board[n].kind
    BY <2>1, NewMission, CompletedStays
  <2>7. AloneOnBoard(c)' /\ ~lane'[c].ok
    BY <2>2, <2>3, <2>5 DEF AloneOnBoard, CheckAt
  <2>8. checksBegun' \in 0..MaxChecks
    BY DEF RequestFails, MissionSmokeIInv
  <2> QED BY <2>5, <2>6, <2>7, <2>8, CheckGoesOn
<1> QED BY <1>1, <1>2 DEF RequestFails

LEMMA PollKeeps ==
  ASSUME MissionSmokeIInv, NEW c \in Checker, PollBoard(c)
  PROVE  MissionSmokeIInv'
<1>1. PICK n \in MissionId : board[n].listed /\ board[n].kind = lane[c].kind /\ board[n].state = "completed"
  BY DEF PollBoard, Shown, InTheText, ListedOf
<1>2. lane[c].alone => n = lane[c].own
  BY <1>1 DEF PollBoard, MissionSmokeIInv, AloneOnBoard, ListedOf
<1> QED BY <1>1, <1>2, NoMarkerKeeps DEF PollBoard

LEMMA SpawnerKeeps ==
  ASSUME MissionSmokeIInv, MissionEnds \/ BoardDrops
  PROVE  MissionSmokeIInv'
<1>1. lane' = lane /\ checksBegun' = checksBegun
  BY DEF MissionEnds, BoardDrops
<1>2. board \in [MissionId -> MissionRecord]
  BY DEF MissionSmokeIInv
<1>3. /\ board' \in [MissionId -> MissionRecord]
      /\ \A n \in MissionId : board'[n].kind = board[n].kind /\ (board'[n].listed => board[n].listed)
  <2>1. CASE MissionEnds
    <3>1. PICK m \in MissionId, state \in {"completed", "expired"} : board' = [board EXCEPT ![m].state = state]
      BY <2>1 DEF MissionEnds
    <3>2. [board[m] EXCEPT !.state = state] \in MissionRecord
      BY <1>2 DEF MissionRecord
    <3> QED BY <1>2, <3>1, <3>2 DEF MissionRecord
  <2>2. CASE BoardDrops
    <3>1. PICK m \in MissionId : board' = [board EXCEPT ![m].listed = FALSE]
      BY <2>2 DEF BoardDrops
    <3>2. [board[m] EXCEPT !.listed = FALSE] \in MissionRecord
      BY <1>2 DEF MissionRecord
    <3> QED BY <1>2, <3>1, <3>2 DEF MissionRecord
  <2> QED BY <2>1, <2>2
<1>4. \A n \in MissionId : board[n].state = "completed" =>
        board'[n].state = "completed" /\ board'[n].kind = board[n].kind
  BY CompletedStays
<1>5. ASSUME NEW d \in Checker
      PROVE  /\ AloneOnBoard(d)' /\ (lane'[d].ok => CheckAt(d, "answered")')
             /\ lane'[d].ok => /\ \E n \in MissionId : board'[n].kind = lane'[d].kind /\ board'[n].state = "completed"
                               /\ lane'[d].alone => board'[lane'[d].own].state = "completed"
  <2>1. /\ AloneOnBoard(d) /\ (lane[d].ok => lane[d].at = "answered")
        /\ lane[d].ok => /\ \E n \in MissionId : board[n].kind = lane[d].kind /\ board[n].state = "completed"
                         /\ lane[d].alone => board[lane[d].own].state = "completed"
    BY DEF MissionSmokeIInv, PreflightIsTrue, CheckAt
  <2>2. ListedOf(lane[d].kind)' \subseteq ListedOf(lane[d].kind)
    BY <1>1, <1>3 DEF ListedOf
  <2>3. AloneOnBoard(d)'
    BY <1>1, <2>1, <2>2 DEF AloneOnBoard, CheckAt
  <2>4. lane[d].alone => lane[d].own \in MissionId
    BY <2>1 DEF AloneOnBoard
  <2> QED BY <1>1, <1>4, <2>1, <2>3, <2>4 DEF CheckAt
<1>6. PreflightIsTrue'
  BY <1>5 DEF PreflightIsTrue
<1> QED BY <1>1, <1>3, <1>5, <1>6 DEF MissionSmokeIInv

LEMMA MissionSmokeInductive == MissionSmokeSpec => []MissionSmokeIInv
<1>1. MissionSmokeInit => MissionSmokeIInv
  <2> SUFFICES ASSUME MissionSmokeInit PROVE MissionSmokeIInv
    OBVIOUS
  <2>1. NotChecking \in CheckRecord /\ Unused \in MissionRecord /\ NotChecking.alone = FALSE /\ NotChecking.ok = FALSE
    BY DEF NotChecking, Unused, CheckRecord, MissionRecord
  <2>2. \A c \in Checker : lane[c].alone = FALSE /\ lane[c].ok = FALSE
    BY <2>1 DEF MissionSmokeInit
  <2>3. \A c \in Checker : AloneOnBoard(c) /\ (lane[c].ok => CheckAt(c, "answered"))
    BY <2>2 DEF AloneOnBoard
  <2>4. PreflightIsTrue
    BY <2>2 DEF PreflightIsTrue
  <2> QED BY <2>1, <2>3, <2>4, MissionSmokeAssumption DEF MissionSmokeInit, MissionSmokeIInv
<1>2. MissionSmokeIInv /\ [MissionSmokeNext]_mission_smoke_vars => MissionSmokeIInv'
  <2> SUFFICES ASSUME MissionSmokeIInv, [MissionSmokeNext]_mission_smoke_vars PROVE MissionSmokeIInv'
    OBVIOUS
  <2>1. ASSUME NEW c \in Checker, BeginCheck(c) PROVE MissionSmokeIInv'
    BY <2>1, BeginCheckKeeps
  <2>2. ASSUME NEW c \in Checker, RunMission(c) PROVE MissionSmokeIInv'
    BY <2>2, RunMissionKeeps
  <2>3. ASSUME NEW c \in Checker, RequestFails(c) PROVE MissionSmokeIInv'
    BY <2>3, RequestFailsKeeps
  <2>4. ASSUME NEW c \in Checker, PollBoard(c) PROVE MissionSmokeIInv'
    BY <2>4, PollKeeps
  <2>5. ASSUME NEW c \in Checker, WaitIsOver(c) PROVE MissionSmokeIInv'
    BY <2>5, NoMarkerKeeps DEF WaitIsOver
  <2>6. CASE MissionEnds \/ BoardDrops
    BY <2>6, SpawnerKeeps
  <2>7. CASE UNCHANGED mission_smoke_vars
    BY <2>7 DEF mission_smoke_vars, MissionSmokeIInv, AloneOnBoard, PreflightIsTrue, CheckAt, ListedOf
  <2> QED BY <2>1, <2>2, <2>3, <2>4, <2>5, <2>6, <2>7 DEF MissionSmokeNext
<1> QED BY <1>1, <1>2, PTL DEF MissionSmokeSpec

(* A preflight of the mission lane that says ok has a completed mission of *)
(* its kind behind it, and its own one if it ran alone: for any number of  *)
(* checks and missions, whatever requests Spawner loses and its board      *)
(* drops.                                                                  *)
THEOREM PreflightsAreTrue == MissionSmokeSpec => []PreflightIsTrue
<1>1. MissionSmokeIInv => PreflightIsTrue
  BY DEF MissionSmokeIInv
<1> QED BY <1>1, MissionSmokeInductive, PTL

-----------------------------------------------------------------------------
(* Smoke tests of the sandboxes.                                           *)

SmokeSteps ==
  {"not_begun", "upload", "execute", "create", "exec", "terminate", "build", "run", "wait",
   "answer", "ended", "killed"}

(* A step of one smoke leaves the others as they are. *)
OtherSmokes(f, s) == \A d \in Smoke \ {s} : f'[d] = f[d]

LEMMA SmokeGoesOn ==
  ASSUME SmokeIInv, NEW s \in Smoke, SmokeTypes', SmokeRunOK(s)',
         OtherSmokes(smoke, s), OtherSmokes(shell, s), OtherSmokes(probeFile, s),
         OtherSmokes(ranOn, s), OtherSmokes(cloud, s), OtherSmokes(container, s)
  PROVE  SmokeIInv'
<1>1. ASSUME NEW d \in Smoke, d # s PROVE SmokeRunOK(d)'
  <2>1. SmokeRunOK(d)
    BY DEF SmokeIInv
  <2>2. /\ smoke'[d] = smoke[d] /\ shell'[d] = shell[d] /\ probeFile'[d] = probeFile[d]
        /\ ranOn'[d] = ranOn[d] /\ cloud'[d] = cloud[d] /\ container'[d] = container[d]
    BY <1>1 DEF OtherSmokes
  <2> QED BY <2>1, <2>2 DEF SmokeRunOK, BackendOK, ShellOK, FilesOK, AnswerOK, SmokeAt, HasAnswered,
                            NoFiles, FilesOnlyOn, Shell
<1> QED BY <1>1 DEF SmokeIInv

(* What changes of a smoke's record. *)
SmokeBecomes(s, step, ok, warned) ==
  /\ smoke' \in [Smoke -> SmokeRecord] /\ OtherSmokes(smoke, s)
  /\ smoke'[s].at = step /\ smoke'[s].backend = smoke[s].backend /\ smoke'[s].keep = smoke[s].keep
  /\ smoke'[s].ok = ok /\ smoke'[s].warned = warned

LEMMA SmokeStep ==
  ASSUME SmokeTypes, NEW s \in Smoke, NEW step \in SmokeSteps, SmokeGoes(s, step)
  PROVE  SmokeBecomes(s, step, smoke[s].ok, smoke[s].warned)
<1>1. smoke[s] \in SmokeRecord
  BY DEF SmokeTypes
<1>2. [smoke[s] EXCEPT !.at = step] \in SmokeRecord
  BY <1>1 DEF SmokeRecord, SmokeSteps
<1> QED BY <1>1, <1>2 DEF SmokeGoes, SmokeTypes, SmokeBecomes, OtherSmokes, SmokeRecord

LEMMA SmokePasses ==
  ASSUME SmokeTypes, NEW s \in Smoke, Passes(s)
  PROVE  SmokeBecomes(s, "answer", TRUE, smoke[s].warned)
<1>1. smoke[s] \in SmokeRecord
  BY DEF SmokeTypes
<1> DEFINE new == [smoke[s] EXCEPT !.at = "answer", !.ok = TRUE]
<1>2. /\ new \in SmokeRecord /\ new.at = "answer" /\ new.ok = TRUE
      /\ new.backend = smoke[s].backend /\ new.keep = smoke[s].keep /\ new.warned = smoke[s].warned
  BY <1>1 DEF SmokeRecord, SmokeSteps
<1>3. smoke' = [smoke EXCEPT ![s] = new]
  BY DEF Passes
<1> HIDE DEF new
<1> QED BY <1>2, <1>3 DEF SmokeTypes, SmokeBecomes, OtherSmokes

LEMMA SmokeFails ==
  ASSUME SmokeTypes, NEW s \in Smoke, Fails(s)
  PROVE  SmokeBecomes(s, "answer", smoke[s].ok, smoke[s].warned)
BY SmokeStep DEF Fails, SmokeSteps

LEMMA ShellChanges ==
  ASSUME SmokeTypes, NEW s \in Smoke, NEW new \in ShellRecord, shell' = [shell EXCEPT ![s] = new]
  PROVE  shell' \in [Smoke -> ShellRecord] /\ OtherSmokes(shell, s) /\ shell'[s] = new
BY DEF SmokeTypes, OtherSmokes

LEMMA FileChanges ==
  ASSUME SmokeTypes, NEW s \in Smoke, shell[s].on \in Machine,
         NEW state \in {"absent", "part", "whole"}, FileBecomes(s, state)
  PROVE  /\ probeFile' \in [Smoke -> [Machine -> {"absent", "part", "whole"}]]
         /\ OtherSmokes(probeFile, s) /\ probeFile'[s][shell[s].on] = state
         /\ \A m \in Machine : m # shell[s].on => probeFile'[s][m] = probeFile[s][m]
BY DEF SmokeTypes, OtherSmokes, FileBecomes

LEMMA SmokeUntouched ==
  ASSUME NEW s \in Smoke
  PROVE  /\ smoke' = smoke => OtherSmokes(smoke, s)
         /\ shell' = shell => OtherSmokes(shell, s)
         /\ probeFile' = probeFile => OtherSmokes(probeFile, s)
         /\ ranOn' = ranOn => OtherSmokes(ranOn, s)
         /\ cloud' = cloud => OtherSmokes(cloud, s)
         /\ container' = container => OtherSmokes(container, s)
BY DEF OtherSmokes

LEMMA NoShellFacts ==
  NoShell \in ShellRecord /\ NoShell.does = "nothing" /\ NoShell.linked = FALSE /\ NoShell.on = Nowhere
BY DEF NoShell, ShellRecord

LEMMA BeginSmokeKeeps ==
  ASSUME SmokeIInv, NEW s \in Smoke, BeginSmoke(s) PROVE SmokeIInv'
<1>1. PICK backend \in {"ssh", "modal", "docker"}, keep \in BOOLEAN, ready \in BOOLEAN :
        smoke' = [smoke EXCEPT ![s] =
            [NotBegun EXCEPT !.backend = backend, !.keep = keep,
             !.at = IF ~ready THEN "answer"
                    ELSE CASE backend = "ssh" -> "upload" [] backend = "modal" -> "create"
                           [] backend = "docker" -> "build"]]
  BY DEF BeginSmoke
<1>2. PICK at \in SmokeSteps :
        at = IF ~ready THEN "answer"
             ELSE CASE backend = "ssh" -> "upload" [] backend = "modal" -> "create"
                    [] backend = "docker" -> "build"
  BY DEF SmokeSteps
<1> DEFINE new == [NotBegun EXCEPT !.backend = backend, !.keep = keep, !.at = at]
<1>3. NotBegun \in SmokeRecord /\ NotBegun.ok = FALSE
  BY DEF NotBegun, SmokeRecord
<1>4. new \in SmokeRecord /\ new.backend = backend /\ new.at = at /\ new.ok = FALSE
  BY <1>3 DEF SmokeRecord, SmokeSteps
<1>5. smoke' = [smoke EXCEPT ![s] = new]
  BY <1>1, <1>2
<1> HIDE DEF new
<1>6. /\ at \in {"answer", "upload", "create", "build"} /\ (at = "upload" => backend = "ssh")
      /\ (at = "create" => backend = "modal") /\ (at = "build" => backend = "docker")
  BY <1>2
<1>7. /\ SmokeTypes /\ BackendOK(s) /\ ShellOK(s) /\ smoke[s].at = "not_begun"
  BY DEF SmokeIInv, SmokeRunOK, BeginSmoke, SmokeAt
<1>8. /\ shell' = shell /\ probeFile' = probeFile /\ ranOn' = ranOn /\ cloud' = cloud /\ container' = container
  BY DEF BeginSmoke, elsewhere
<1>9. smoke' \in [Smoke -> SmokeRecord] /\ OtherSmokes(smoke, s) /\ smoke'[s] = new
  BY <1>4, <1>5, <1>7 DEF SmokeTypes, OtherSmokes
<1>10. /\ shell[s] = NoShell /\ NoFiles(s) /\ cloud[s] = "none" /\ container[s] = "none"
  BY <1>7 DEF BackendOK, SmokeAt
<1>11. BackendOK(s)'
  BY <1>4, <1>6, <1>8, <1>9, <1>10 DEF BackendOK, SmokeAt, HasAnswered, NoFiles
<1>12. ShellOK(s)'
  BY <1>6, <1>8, <1>9, <1>10, NoShellFacts DEF ShellOK, SmokeAt, Shell
<1>13. FilesOK(s)'
  BY <1>4, <1>6, <1>8, <1>9, <1>10, NoShellFacts DEF FilesOK, SmokeAt, NoFiles, Shell
<1>14. AnswerOK(s)'
  BY <1>4, <1>6, <1>8, <1>9, <1>10 DEF AnswerOK, SmokeAt, HasAnswered
<1> QED BY <1>7, <1>8, <1>9, <1>11, <1>12, <1>13, <1>14, SmokeUntouched, SmokeGoesOn DEF SmokeRunOK, SmokeTypes

LEMMA AnswerKeeps ==
  ASSUME SmokeIInv, NEW s \in Smoke, Answer(s) PROVE SmokeIInv'
<1>1. SmokeTypes /\ SmokeRunOK(s) /\ smoke[s].at = "answer"
  BY DEF SmokeIInv, Answer, SmokeAt
<1>2. /\ shell' = shell /\ probeFile' = probeFile /\ ranOn' = ranOn /\ cloud' = cloud /\ container' = container
  BY DEF Answer, elsewhere
<1>3. SmokeBecomes(s, "ended", smoke[s].ok, smoke[s].warned)
  BY <1>1, SmokeStep DEF Answer, SmokeSteps
<1>4. SmokeRunOK(s)'
  BY <1>1, <1>2, <1>3 DEF SmokeRunOK, BackendOK, ShellOK, FilesOK, AnswerOK, SmokeBecomes, SmokeAt, HasAnswered,
                          NoFiles, Shell
<1> QED BY <1>1, <1>2, <1>3, <1>4, SmokeUntouched, SmokeGoesOn DEF SmokeTypes, SmokeBecomes

(* The client's end of a shell is gone. *)
LEMMA Unlinked ==
  ASSUME NEW l \in ShellRecord, NEW new, new = [l EXCEPT !.linked = FALSE]
  PROVE  /\ new \in ShellRecord /\ new.linked = FALSE /\ new.does = l.does /\ new.on = l.on
         /\ l = NoShell => new = NoShell
<1>1. new \in ShellRecord
  BY DEF ShellRecord
<1>2. new.does = l.does /\ new.on = l.on
  BY DEF ShellRecord
<1>3. new.linked = FALSE
  BY DEF ShellRecord
<1>4. ASSUME l = NoShell PROVE new = NoShell
  <2>1. l.does = "nothing" /\ l.on = Nowhere
    BY <1>4 DEF NoShell
  <2>2. new = [does |-> new.does, on |-> new.on, linked |-> new.linked]
    BY <1>1 DEF ShellRecord
  <2> QED BY <2>1, <2>2, <1>2, <1>3 DEF NoShell
<1> QED BY <1>1, <1>2, <1>3, <1>4

LEMMA KillSmokeKeeps ==
  ASSUME SmokeIInv, NEW s \in Smoke, KillSmoke(s) PROVE SmokeIInv'
<1>1. SmokeTypes /\ SmokeRunOK(s) /\ smoke[s].at \notin {"not_begun", "ended", "killed"}
  BY DEF SmokeIInv, KillSmoke
<1>2. probeFile' = probeFile /\ ranOn' = ranOn /\ cloud' = cloud /\ container' = container
  BY DEF KillSmoke
<1>3. SmokeBecomes(s, "killed", smoke[s].ok, smoke[s].warned)
  BY <1>1, SmokeStep DEF KillSmoke, SmokeSteps
<1> DEFINE new == [shell[s] EXCEPT !.linked = FALSE]
<1>4. /\ new \in ShellRecord /\ new.linked = FALSE /\ new.does = shell[s].does /\ new.on = shell[s].on
      /\ shell[s] = NoShell => new = NoShell
  <2>1. shell[s] \in ShellRecord
    BY <1>1 DEF SmokeTypes
  <2>2. new = [shell[s] EXCEPT !.linked = FALSE]
    OBVIOUS
  <2> HIDE DEF new
  <2> QED BY <2>1, <2>2, Unlinked
<1>5. shell' = [shell EXCEPT ![s] = new]
  BY DEF KillSmoke
<1> HIDE DEF new
<1>7. shell' \in [Smoke -> ShellRecord] /\ OtherSmokes(shell, s) /\ shell'[s] = new
  BY <1>1, <1>4, <1>5, ShellChanges
<1>8. BackendOK(s)'
  BY <1>1, <1>2, <1>3, <1>4, <1>7 DEF SmokeRunOK, BackendOK, SmokeBecomes, SmokeAt, HasAnswered, NoFiles
<1>9. ShellOK(s)'
  BY <1>1, <1>3, <1>4, <1>7, NoShellFacts DEF SmokeRunOK, ShellOK, SmokeBecomes, SmokeAt, Shell
<1>10. FilesOK(s)' /\ AnswerOK(s)'
  BY <1>3 DEF FilesOK, AnswerOK, SmokeBecomes, SmokeAt, HasAnswered
<1> QED BY <1>1, <1>2, <1>3, <1>7, <1>8, <1>9, <1>10, SmokeUntouched, SmokeGoesOn
       DEF SmokeTypes, SmokeBecomes, SmokeRunOK

(* SSH. *)
LEMMA ConnectKeeps ==
  ASSUME SmokeIInv, NEW s \in Smoke, machine \in Machine,
         ConnectFor(s, "upload") \/ ConnectFor(s, "execute")
  PROVE SmokeIInv'
<1>1. /\ SmokeTypes /\ SmokeRunOK(s) /\ shell[s] = NoShell
      /\ smoke[s].at = "upload" \/ smoke[s].at = "execute"
  BY DEF SmokeIInv, ConnectFor, SmokeAt
<1>2. smoke' = smoke /\ probeFile' = probeFile /\ ranOn' = ranOn /\ cloud' = cloud /\ container' = container
  BY DEF ConnectFor
<1>3. PICK does \in {"make", "check"} :
        /\ shell' = [shell EXCEPT ![s] = [does |-> does, on |-> machine, linked |-> TRUE]]
        /\ does = "make" => smoke[s].at = "upload"
        /\ does = "check" => smoke[s].at = "execute"
  BY DEF ConnectFor, OpenShell, SmokeAt
<1> DEFINE new == [does |-> does, on |-> machine, linked |-> TRUE]
<1>4. new \in ShellRecord /\ new.linked = TRUE /\ new.does = does /\ new.on = machine
  BY DEF ShellRecord
<1>5. shell' = [shell EXCEPT ![s] = new]
  BY <1>3
<1> HIDE DEF new
<1>6. shell' \in [Smoke -> ShellRecord] /\ OtherSmokes(shell, s) /\ shell'[s] = new
  BY <1>1, <1>4, <1>5, ShellChanges
<1>7. new # NoShell
  BY <1>4, NoShellFacts
<1>8. BackendOK(s)'
  BY <1>1, <1>2 DEF SmokeRunOK, BackendOK, SmokeAt, HasAnswered, NoFiles
<1>9. ShellOK(s)'
  BY <1>1, <1>2, <1>3, <1>4, <1>6, <1>7 DEF SmokeRunOK, ShellOK, SmokeAt, Shell
<1>10. FilesOK(s)'
  BY <1>1, <1>2, <1>3, <1>4, <1>6, NoShellFacts DEF SmokeRunOK, FilesOK, SmokeAt, Shell, NoFiles, FilesOnlyOn
<1>11. AnswerOK(s)'
  BY <1>1, <1>2 DEF AnswerOK, SmokeAt, HasAnswered
<1> QED BY <1>1, <1>2, <1>6, <1>8, <1>9, <1>10, <1>11, SmokeUntouched, SmokeGoesOn
       DEF SmokeTypes, SmokeRunOK

LEMMA ConnectionFailsKeeps ==
  ASSUME SmokeIInv, NEW s \in Smoke, ConnectionFails(s) PROVE SmokeIInv'
<1>1. SmokeTypes /\ SmokeRunOK(s) /\ (smoke[s].at = "upload" \/ smoke[s].at = "execute")
  BY DEF SmokeIInv, ConnectionFails, SmokeAt
<1>2. probeFile' = probeFile /\ ranOn' = ranOn /\ cloud' = cloud /\ container' = container
  BY DEF ConnectionFails
<1>3. SmokeBecomes(s, "answer", smoke[s].ok, smoke[s].warned) /\ ~smoke[s].ok
  BY <1>1, SmokeFails DEF ConnectionFails, SmokeRunOK, BackendOK, SmokeAt, HasAnswered
<1> DEFINE new == [shell[s] EXCEPT !.linked = FALSE]
<1>4. /\ new \in ShellRecord /\ new.linked = FALSE /\ new.does = shell[s].does /\ new.on = shell[s].on
      /\ shell[s] = NoShell => new = NoShell
  <2>1. shell[s] \in ShellRecord
    BY <1>1 DEF SmokeTypes
  <2>2. new = [shell[s] EXCEPT !.linked = FALSE]
    OBVIOUS
  <2> HIDE DEF new
  <2> QED BY <2>1, <2>2, Unlinked
<1>5. shell' = [shell EXCEPT ![s] = new]
  BY DEF ConnectionFails
<1> HIDE DEF new
<1>7. shell' \in [Smoke -> ShellRecord] /\ OtherSmokes(shell, s) /\ shell'[s] = new
  BY <1>1, <1>4, <1>5, ShellChanges
<1>8. BackendOK(s)'
  BY <1>1, <1>2, <1>3, <1>4, <1>7 DEF SmokeRunOK, BackendOK, SmokeBecomes, SmokeAt, HasAnswered, NoFiles
<1>9. ShellOK(s)'
  BY <1>1, <1>3, <1>4, <1>7, NoShellFacts DEF SmokeRunOK, ShellOK, SmokeBecomes, SmokeAt, Shell
<1>10. FilesOK(s)' /\ AnswerOK(s)'
  BY <1>3 DEF FilesOK, AnswerOK, SmokeBecomes, SmokeAt, HasAnswered
<1> QED BY <1>1, <1>2, <1>3, <1>7, <1>8, <1>9, <1>10, SmokeUntouched, SmokeGoesOn
       DEF SmokeTypes, SmokeBecomes, SmokeRunOK

LEMMA MakeDirectoryKeeps ==
  ASSUME SmokeIInv, NEW s \in Smoke, MakeDirectory(s) PROVE SmokeIInv'
<1>1. SmokeTypes /\ SmokeRunOK(s) /\ shell[s].does = "make"
  BY DEF SmokeIInv, MakeDirectory, Shell
<1>2. smoke' = smoke /\ ranOn' = ranOn /\ cloud' = cloud /\ container' = container
  BY DEF MakeDirectory
<1>3. shell[s] # NoShell /\ shell[s].on \in Machine /\ shell[s] \in ShellRecord
  BY <1>1, NoShellFacts DEF SmokeRunOK, ShellOK, Shell, SmokeTypes
<1> DEFINE new == [shell[s] EXCEPT !.does = "receive"]
<1>4. new \in ShellRecord /\ new.linked = shell[s].linked /\ new.does = "receive" /\ new.on = shell[s].on
  BY <1>3 DEF ShellRecord
<1>5. shell' = [shell EXCEPT ![s] = new]
  BY DEF MakeDirectory, ShellGoesOn
<1> HIDE DEF new
<1>6. shell' \in [Smoke -> ShellRecord] /\ OtherSmokes(shell, s) /\ shell'[s] = new
  BY <1>1, <1>4, <1>5, ShellChanges
<1>7. /\ probeFile' \in [Smoke -> [Machine -> {"absent", "part", "whole"}]] /\ OtherSmokes(probeFile, s)
      /\ \A m \in Machine : m # shell[s].on => probeFile'[s][m] = probeFile[s][m]
  BY <1>1, <1>3, FileChanges DEF MakeDirectory
<1>8. new # NoShell /\ smoke[s].backend = "ssh"
  BY <1>1, <1>3, <1>4, NoShellFacts DEF SmokeRunOK, BackendOK
<1>9. BackendOK(s)'
  BY <1>1, <1>2, <1>8 DEF SmokeRunOK, BackendOK, SmokeAt, HasAnswered
<1>10. ShellOK(s)'
  BY <1>1, <1>2, <1>3, <1>4, <1>6, <1>8 DEF SmokeRunOK, ShellOK, SmokeAt, Shell
<1>11. smoke[s].at # "execute"
  BY <1>1, <1>3 DEF SmokeRunOK, ShellOK, SmokeAt, Shell
<1>12. FilesOK(s)'
  BY <1>1, <1>2, <1>4, <1>6, <1>7, <1>11 DEF SmokeRunOK, FilesOK, SmokeAt, Shell, NoFiles, FilesOnlyOn
<1>13. AnswerOK(s)'
  BY <1>1, <1>2, <1>3 DEF SmokeRunOK, AnswerOK, SmokeAt, HasAnswered
<1> QED BY <1>1, <1>2, <1>6, <1>7, <1>9, <1>10, <1>12, <1>13, SmokeUntouched, SmokeGoesOn
       DEF SmokeTypes, SmokeRunOK

LEMMA ReceiveFileKeeps ==
  ASSUME SmokeIInv, NEW s \in Smoke, ReceiveFile(s) PROVE SmokeIInv'
<1>1. SmokeTypes /\ SmokeRunOK(s) /\ shell[s].does = "receive"
  BY DEF SmokeIInv, ReceiveFile, Shell
<1>2. ranOn' = ranOn /\ cloud' = cloud /\ container' = container /\ shell' = [shell EXCEPT ![s] = NoShell]
  BY DEF ReceiveFile
<1>3. shell[s] # NoShell /\ shell[s].on \in Machine /\ shell[s] \in ShellRecord
  BY <1>1, NoShellFacts DEF SmokeRunOK, ShellOK, Shell, SmokeTypes
<1>4. shell' \in [Smoke -> ShellRecord] /\ OtherSmokes(shell, s) /\ shell'[s] = NoShell
  BY <1>1, <1>2, NoShellFacts, ShellChanges
<1>5. PICK state \in {"absent", "part", "whole"} : FileBecomes(s, state)
  BY DEF ReceiveFile
<1>6. /\ probeFile' \in [Smoke -> [Machine -> {"absent", "part", "whole"}]] /\ OtherSmokes(probeFile, s)
      /\ \A m \in Machine : m # shell[s].on => probeFile'[s][m] = probeFile[s][m]
  BY <1>1, <1>3, <1>5, FileChanges
<1>7. /\ smoke[s].backend = "ssh" /\ cloud[s] = "none" /\ container[s] = "none"
      /\ smoke[s].at # "execute" /\ (smoke[s].at = "upload" <=> shell[s].linked)
      /\ ~(smoke[s].ok /\ HasAnswered(s))
  BY <1>1, <1>3 DEF SmokeRunOK, BackendOK, ShellOK, AnswerOK, SmokeAt, Shell
<1>8. CASE shell[s].linked
  <2>1. SmokeBecomes(s, "execute", smoke[s].ok, smoke[s].warned)
    BY <1>1, <1>8, SmokeStep DEF ReceiveFile, SmokeSteps
  <2>2. ~smoke[s].ok /\ FilesOnlyOn(s, shell[s].on)
    BY <1>1, <1>7, <1>8 DEF SmokeRunOK, BackendOK, SmokeAt, FilesOK, Shell, HasAnswered
  <2>3. \A m \in Machine : probeFile'[s][m] # "absent" => m = shell[s].on
    BY <1>6, <2>2 DEF FilesOnlyOn
  <2>4. \E where \in Machine : \A m \in Machine : probeFile'[s][m] # "absent" => m = where
    BY <1>3, <2>3
  <2>5. BackendOK(s)'
    BY <1>2, <1>7, <2>1, <2>2 DEF BackendOK, SmokeAt, HasAnswered, SmokeBecomes
  <2>6. ShellOK(s)'
    BY <1>4, <2>1, NoShellFacts DEF ShellOK, SmokeAt, Shell, SmokeBecomes
  <2>7. FilesOK(s)'
    BY <1>4, <2>1, <2>4, NoShellFacts DEF FilesOK, FilesOnlyOn, SmokeAt, Shell, SmokeBecomes
  <2>8. AnswerOK(s)'
    BY <2>1, <2>2 DEF AnswerOK, SmokeAt, HasAnswered, SmokeBecomes
  <2> QED BY <1>1, <1>2, <1>4, <1>6, <2>1, <2>5, <2>6, <2>7, <2>8, SmokeUntouched, SmokeGoesOn
         DEF SmokeTypes, SmokeRunOK, SmokeBecomes
<1>9. CASE ~shell[s].linked
  <2>1. smoke' = smoke /\ smoke[s].at # "upload"
    BY <1>7, <1>9 DEF ReceiveFile
  <2>2. BackendOK(s)'
    BY <1>1, <1>2, <1>7, <2>1 DEF SmokeRunOK, BackendOK, SmokeAt, HasAnswered
  <2>3. ShellOK(s)'
    BY <1>4, <1>7, <2>1, NoShellFacts DEF ShellOK, SmokeAt, Shell
  <2>4. FilesOK(s)'
    BY <1>7, <2>1 DEF FilesOK, SmokeAt
  <2>5. AnswerOK(s)'
    BY <1>2, <1>7, <2>1 DEF AnswerOK, SmokeAt, HasAnswered
  <2> QED BY <1>1, <1>2, <1>4, <1>6, <2>1, <2>2, <2>3, <2>4, <2>5, SmokeUntouched, SmokeGoesOn
         DEF SmokeTypes, SmokeRunOK
<1> QED BY <1>8, <1>9

LEMMA CheckAndRunKeeps ==
  ASSUME SmokeIInv, NEW s \in Smoke, CheckAndRun(s) PROVE SmokeIInv'
<1>1. SmokeTypes /\ SmokeRunOK(s) /\ shell[s].does = "check"
  BY DEF SmokeIInv, CheckAndRun, Shell
<1>2. smoke' = smoke /\ probeFile' = probeFile /\ cloud' = cloud /\ container' = container
  BY DEF CheckAndRun
<1>3. shell[s] # NoShell /\ shell[s].on \in Machine /\ shell[s] \in ShellRecord
  BY <1>1, NoShellFacts DEF SmokeRunOK, ShellOK, Shell, SmokeTypes
<1>4. PICK does \in {"exit_0", "exit_42"} :
        /\ shell' = [shell EXCEPT ![s] = [shell[s] EXCEPT !.does = does]]
        /\ does = "exit_0" => /\ probeFile[s][shell[s].on] = "whole"
                              /\ ranOn' = [ranOn EXCEPT ![s] = shell[s].on]
        /\ does = "exit_42" => ranOn' = ranOn
  BY DEF CheckAndRun, ShellGoesOn
<1> DEFINE new == [shell[s] EXCEPT !.does = does]
<1>5. new \in ShellRecord /\ new.linked = shell[s].linked /\ new.does = does /\ new.on = shell[s].on
  BY <1>3 DEF ShellRecord
<1> HIDE DEF new
<1>6. shell' \in [Smoke -> ShellRecord] /\ OtherSmokes(shell, s) /\ shell'[s] = new
  BY <1>1, <1>4, <1>5, ShellChanges DEF new
<1>7. /\ ranOn' \in [Smoke -> Machine \cup {Nowhere}] /\ OtherSmokes(ranOn, s)
      /\ does = "exit_0" => ranOn'[s] = shell[s].on
  BY <1>1, <1>3, <1>4 DEF SmokeTypes, OtherSmokes
<1>8. /\ new # NoShell /\ smoke[s].backend = "ssh" /\ smoke[s].at # "upload"
      /\ ~(smoke[s].ok /\ HasAnswered(s))
  BY <1>1, <1>3, <1>5, NoShellFacts DEF SmokeRunOK, BackendOK, ShellOK, AnswerOK, SmokeAt, Shell
<1>9. BackendOK(s)'
  BY <1>1, <1>2, <1>8 DEF SmokeRunOK, BackendOK, SmokeAt, HasAnswered
<1>10. ShellOK(s)'
  BY <1>1, <1>2, <1>3, <1>5, <1>6, <1>8 DEF SmokeRunOK, ShellOK, SmokeAt, Shell
<1>11. FilesOK(s)'
  <2>1. CASE smoke[s].at = "execute"
    <3>1. PICK where \in Machine : \A m \in Machine : probeFile[s][m] # "absent" => m = where
      BY <1>1, <2>1 DEF SmokeRunOK, FilesOK, SmokeAt, FilesOnlyOn
    <3>2. does = "exit_0" => where = shell[s].on
      BY <1>3, <1>4, <3>1
    <3>3. \E w \in Machine : FilesOnlyOn(s, w)'
      BY <1>2, <3>1 DEF FilesOnlyOn
    <3>4. does = "exit_0" => FilesOnlyOn(s, ranOn[s])'
      BY <1>2, <1>7, <3>1, <3>2 DEF FilesOnlyOn
    <3> QED BY <1>2, <1>5, <1>6, <1>7, <1>8, <3>3, <3>4 DEF FilesOK, SmokeAt, Shell
  <2>2. CASE smoke[s].at # "execute"
    BY <1>2, <1>8, <2>2 DEF FilesOK, SmokeAt
  <2> QED BY <2>1, <2>2
<1>12. AnswerOK(s)'
  BY <1>1, <1>2, <1>8 DEF SmokeRunOK, AnswerOK, SmokeAt, HasAnswered
<1> QED BY <1>1, <1>2, <1>6, <1>7, <1>9, <1>10, <1>11, <1>12, SmokeUntouched, SmokeGoesOn
       DEF SmokeTypes, SmokeRunOK

LEMMA ShellExitsKeeps ==
  ASSUME SmokeIInv, NEW s \in Smoke, ShellExits(s) PROVE SmokeIInv'
<1>1. SmokeTypes /\ SmokeRunOK(s) /\ shell[s].does \in {"exit_0", "exit_42"}
  BY DEF SmokeIInv, ShellExits, Shell
<1>2. ranOn' = ranOn /\ cloud' = cloud /\ container' = container /\ shell' = [shell EXCEPT ![s] = NoShell]
  BY DEF ShellExits
<1>3. shell[s] # NoShell /\ shell[s].on \in Machine /\ shell[s] \in ShellRecord
  BY <1>1, NoShellFacts DEF SmokeRunOK, ShellOK, Shell, SmokeTypes
<1>4. shell' \in [Smoke -> ShellRecord] /\ OtherSmokes(shell, s) /\ shell'[s] = NoShell
  BY <1>1, <1>2, NoShellFacts, ShellChanges
<1>5. probeFile' = probeFile \/ FileBecomes(s, "absent")
  BY DEF ShellExits, CleanUp
<1>6. /\ probeFile' \in [Smoke -> [Machine -> {"absent", "part", "whole"}]] /\ OtherSmokes(probeFile, s)
      /\ \A m \in Machine : probeFile'[s][m] # "absent" => probeFile[s][m] # "absent"
  <2>1. CASE probeFile' = probeFile
    BY <1>1, <2>1 DEF SmokeTypes, OtherSmokes
  <2>2. CASE FileBecomes(s, "absent")
    BY <1>1, <1>3, <2>2, FileChanges
  <2> QED BY <1>5, <2>1, <2>2
<1>7. /\ smoke[s].backend = "ssh" /\ cloud[s] = "none" /\ container[s] = "none"
      /\ smoke[s].at # "upload" /\ (smoke[s].at = "execute" <=> shell[s].linked)
      /\ ~(smoke[s].ok /\ HasAnswered(s))
  BY <1>1, <1>3 DEF SmokeRunOK, BackendOK, ShellOK, AnswerOK, SmokeAt, Shell
<1>8. CASE shell[s].linked
  <2>1. smoke[s].at = "execute" /\ ~smoke[s].ok
    BY <1>1, <1>7, <1>8 DEF SmokeRunOK, BackendOK, SmokeAt, HasAnswered
  <2>2. PICK ok \in BOOLEAN : /\ SmokeBecomes(s, "answer", ok, smoke[s].warned)
                              /\ ok => Shell(s, "exit_0")
    <3>1. CASE Shell(s, "exit_0")
      <4>1. SmokeBecomes(s, "answer", TRUE, smoke[s].warned)
        BY <1>1, <1>8, <3>1, SmokePasses DEF ShellExits
      <4> QED BY <3>1, <4>1
    <3>2. CASE ~Shell(s, "exit_0")
      <4>1. SmokeBecomes(s, "answer", smoke[s].ok, smoke[s].warned)
        BY <1>1, <1>8, <3>2, SmokeFails DEF ShellExits
      <4>2. smoke[s].ok \in BOOLEAN
        BY <1>1 DEF SmokeTypes, SmokeRecord
      <4> QED BY <2>1, <4>1, <4>2
    <3> QED BY <3>1, <3>2
  <2>3. ok => ranOn[s] \in Machine /\ \A m \in Machine : probeFile[s][m] # "absent" => m = ranOn[s]
    BY <1>1, <1>3, <2>1, <2>2 DEF SmokeRunOK, FilesOK, SmokeAt, FilesOnlyOn
  <2>4. ok => \A m \in Machine : probeFile'[s][m] # "absent" => smoke[s].keep /\ m = ranOn[s]
    <3>1. CASE smoke[s].keep
      BY <1>6, <2>3, <3>1
    <3>2. CASE ~smoke[s].keep
      <4>1. FileBecomes(s, "absent")
        BY <1>8, <3>2 DEF ShellExits, CleanUp
      <4>2. probeFile'[s][shell[s].on] = "absent"
        BY <1>1, <1>3, <4>1, FileChanges
      <4>3. ok => ranOn[s] = shell[s].on
        BY <1>1, <2>1, <2>2 DEF SmokeRunOK, FilesOK, SmokeAt
      <4> QED BY <1>6, <2>3, <4>2, <4>3
    <3> QED BY <3>1, <3>2
  <2>5. BackendOK(s)'
    BY <1>2, <1>7, <2>2 DEF BackendOK, SmokeAt, HasAnswered, SmokeBecomes
  <2>6. ShellOK(s)'
    BY <1>4, <2>2, NoShellFacts DEF ShellOK, SmokeAt, Shell, SmokeBecomes
  <2>7. FilesOK(s)'
    BY <2>2 DEF FilesOK, SmokeAt, SmokeBecomes
  <2>8. AnswerOK(s)'
    BY <1>2, <1>4, <1>7, <2>2, <2>3, <2>4 DEF AnswerOK, SmokeAt, HasAnswered, SmokeBecomes
  <2> QED BY <1>1, <1>2, <1>4, <1>6, <2>2, <2>5, <2>6, <2>7, <2>8, SmokeUntouched, SmokeGoesOn
         DEF SmokeTypes, SmokeRunOK, SmokeBecomes
<1>9. CASE ~shell[s].linked
  <2>1. smoke' = smoke /\ smoke[s].at # "execute"
    BY <1>7, <1>9 DEF ShellExits
  <2>2. BackendOK(s)'
    BY <1>1, <1>2, <1>7, <2>1 DEF SmokeRunOK, BackendOK, SmokeAt, HasAnswered
  <2>3. ShellOK(s)'
    BY <1>4, <1>7, <2>1, NoShellFacts DEF ShellOK, SmokeAt, Shell
  <2>4. FilesOK(s)'
    BY <1>7, <2>1 DEF FilesOK, SmokeAt
  <2>5. AnswerOK(s)'
    BY <1>2, <1>7, <2>1 DEF AnswerOK, SmokeAt, HasAnswered
  <2> QED BY <1>1, <1>2, <1>4, <1>6, <2>1, <2>2, <2>3, <2>4, <2>5, SmokeUntouched, SmokeGoesOn
         DEF SmokeTypes, SmokeRunOK
<1> QED BY <1>8, <1>9

(* Modal and Docker. *)
LEMMA CloudStepKeeps ==
  ASSUME SmokeIInv, NEW s \in Smoke,
         NEW step \in {"exec", "terminate", "answer"}, NEW ok \in BOOLEAN, NEW warned \in BOOLEAN,
         smoke[s].at \in {"create", "exec", "terminate"}, SmokeBecomes(s, step, ok, warned),
         cloud' \in [Smoke -> {"none", "running"}], OtherSmokes(cloud, s),
         ok => step # "exec" /\ (step = "answer" /\ cloud'[s] = "running" => warned),
         shell' = shell, probeFile' = probeFile, ranOn' = ranOn, container' = container
  PROVE  SmokeIInv'
<1>1. SmokeTypes /\ SmokeRunOK(s)
  BY DEF SmokeIInv
<1>2. smoke[s].backend = "modal" /\ shell[s] = NoShell /\ NoFiles(s) /\ container[s] = "none"
  BY <1>1 DEF SmokeRunOK, BackendOK, SmokeAt
<1>3. BackendOK(s)'
  BY <1>2 DEF BackendOK, SmokeAt, HasAnswered, SmokeBecomes, NoFiles
<1>4. ShellOK(s)'
  BY <1>2, NoShellFacts DEF ShellOK, SmokeAt, Shell, SmokeBecomes
<1>5. FilesOK(s)'
  BY DEF FilesOK, SmokeAt, SmokeBecomes
<1>6. AnswerOK(s)'
  BY <1>2 DEF AnswerOK, SmokeAt, HasAnswered, SmokeBecomes, NoFiles
<1> QED BY <1>1, <1>3, <1>4, <1>5, <1>6, SmokeUntouched, SmokeGoesOn DEF SmokeTypes, SmokeRunOK, SmokeBecomes

LEMMA CreateSandboxKeeps ==
  ASSUME SmokeIInv, NEW s \in Smoke, CreateSandbox(s) PROVE SmokeIInv'
<1>1. SmokeTypes /\ smoke[s].at = "create" /\ ~smoke[s].ok
  BY DEF SmokeIInv, SmokeRunOK, BackendOK, CreateSandbox, SmokeAt, HasAnswered
<1>2. smoke[s].ok \in BOOLEAN /\ smoke[s].warned \in BOOLEAN
  BY <1>1 DEF SmokeTypes, SmokeRecord
<1>3. CASE Fails(s) /\ cloud' = cloud
  <2>1. SmokeBecomes(s, "answer", smoke[s].ok, smoke[s].warned)
    BY <1>1, <1>3, SmokeFails
  <2> QED BY <1>1, <1>2, <1>3, <2>1, SmokeUntouched, CloudStepKeeps DEF CreateSandbox, SmokeTypes
<1>4. CASE SmokeGoes(s, "exec") /\ cloud' = [cloud EXCEPT ![s] = "running"]
  <2>1. SmokeBecomes(s, "exec", smoke[s].ok, smoke[s].warned)
    BY <1>1, <1>4, SmokeStep DEF SmokeSteps
  <2>2. cloud' \in [Smoke -> {"none", "running"}] /\ OtherSmokes(cloud, s)
    BY <1>1, <1>4 DEF SmokeTypes, OtherSmokes
  <2> QED BY <1>1, <1>2, <2>1, <2>2, CloudStepKeeps DEF CreateSandbox
<1> QED BY <1>3, <1>4 DEF CreateSandbox

LEMMA SmokeChanges ==
  ASSUME SmokeTypes, NEW s \in Smoke, NEW new \in SmokeRecord, smoke' = [smoke EXCEPT ![s] = new]
  PROVE  smoke' \in [Smoke -> SmokeRecord] /\ OtherSmokes(smoke, s) /\ smoke'[s] = new
BY DEF SmokeTypes, OtherSmokes

LEMMA SmokeSets ==
  ASSUME SmokeTypes, NEW s \in Smoke, NEW step \in SmokeSteps, NEW ok \in BOOLEAN,
         smoke' = [smoke EXCEPT ![s].at = step, ![s].ok = ok]
  PROVE  SmokeBecomes(s, step, ok, smoke[s].warned)
<1>1. smoke[s] \in SmokeRecord
  BY DEF SmokeTypes
<1> DEFINE new == [smoke[s] EXCEPT !.at = step, !.ok = ok]
<1>2. /\ new \in SmokeRecord /\ new.at = step /\ new.ok = ok
      /\ new.backend = smoke[s].backend /\ new.keep = smoke[s].keep /\ new.warned = smoke[s].warned
  BY <1>1 DEF SmokeRecord, SmokeSteps
<1>3. smoke' = [smoke EXCEPT ![s] = new]
  OBVIOUS
<1> HIDE DEF new
<1>4. smoke' \in [Smoke -> SmokeRecord] /\ smoke'[s] = new /\ OtherSmokes(smoke, s)
  BY <1>2, <1>3, SmokeChanges
<1> QED BY <1>2, <1>4, Zenon DEF SmokeBecomes

LEMMA ExecProbeKeeps ==
  ASSUME SmokeIInv, NEW s \in Smoke, ExecProbe(s) PROVE SmokeIInv'
<1>1. SmokeTypes /\ smoke[s].at = "exec"
  BY DEF SmokeIInv, ExecProbe, SmokeAt
<1>2. PICK ok \in BOOLEAN : smoke' = [smoke EXCEPT ![s].at = "terminate", ![s].ok = ok]
  BY DEF ExecProbe
<1>3. SmokeBecomes(s, "terminate", ok, smoke[s].warned)
  BY <1>1, <1>2, SmokeSets DEF SmokeSteps
<1>4. smoke[s].warned \in BOOLEAN
  BY <1>1 DEF SmokeTypes, SmokeRecord
<1> QED BY <1>1, <1>3, <1>4, SmokeUntouched, CloudStepKeeps DEF ExecProbe, elsewhere, SmokeTypes

LEMMA TerminateSandboxKeeps ==
  ASSUME SmokeIInv, NEW s \in Smoke, TerminateSandbox(s) PROVE SmokeIInv'
<1>1. SmokeTypes /\ smoke[s].at = "terminate"
  BY DEF SmokeIInv, TerminateSandbox, SmokeAt
<1>2. smoke[s] \in SmokeRecord
  BY <1>1 DEF SmokeTypes
<1>3. smoke[s].ok \in BOOLEAN /\ smoke[s].warned \in BOOLEAN
  BY <1>2 DEF SmokeRecord
<1>4. CASE cloud' = [cloud EXCEPT ![s] = "none"] /\ Fails(s)
  <2>1. SmokeBecomes(s, "answer", smoke[s].ok, smoke[s].warned)
    BY <1>1, <1>4, SmokeFails
  <2>2. cloud' \in [Smoke -> {"none", "running"}] /\ OtherSmokes(cloud, s) /\ cloud'[s] = "none"
    BY <1>1, <1>4 DEF SmokeTypes, OtherSmokes
  <2> QED BY <1>1, <1>3, <2>1, <2>2, CloudStepKeeps DEF TerminateSandbox
<1>5. CASE cloud' = cloud /\ smoke' = [smoke EXCEPT ![s].at = "answer", ![s].warned = TRUE]
  <2> DEFINE new == [smoke[s] EXCEPT !.at = "answer", !.warned = TRUE]
  <2>1. /\ new \in SmokeRecord /\ new.at = "answer" /\ new.ok = smoke[s].ok
        /\ new.backend = smoke[s].backend /\ new.keep = smoke[s].keep /\ new.warned = TRUE
    BY <1>2 DEF SmokeRecord
  <2>2. smoke' = [smoke EXCEPT ![s] = new]
    BY <1>5
  <2> HIDE DEF new
  <2>3. SmokeBecomes(s, "answer", smoke[s].ok, TRUE)
    BY <1>1, <2>1, <2>2 DEF SmokeTypes, SmokeBecomes, OtherSmokes
  <2> QED BY <1>1, <1>3, <1>5, <2>3, SmokeUntouched, CloudStepKeeps DEF TerminateSandbox, SmokeTypes
<1> QED BY <1>4, <1>5 DEF TerminateSandbox

LEMMA ModalTimesOutKeeps ==
  ASSUME SmokeIInv, NEW s \in Smoke, ModalTimesOut(s) PROVE SmokeIInv'
<1>1. SmokeTypes /\ smoke[s].at \in {"create", "exec", "terminate"}
  BY DEF SmokeIInv, ModalTimesOut, SmokeAt
<1>2. SmokeBecomes(s, "answer", FALSE, smoke[s].warned)
  BY <1>1, SmokeSets DEF ModalTimesOut, SmokeSteps
<1>3. smoke[s].warned \in BOOLEAN
  BY <1>1 DEF SmokeTypes, SmokeRecord
<1>4. cloud' \in [Smoke -> {"none", "running"}] /\ OtherSmokes(cloud, s)
  BY <1>1 DEF ModalTimesOut, SmokeTypes, OtherSmokes
<1> QED BY <1>1, <1>2, <1>3, <1>4, CloudStepKeeps DEF ModalTimesOut

LEMMA SandboxExpiresKeeps ==
  ASSUME SmokeIInv, NEW s \in Smoke, SandboxExpires(s) PROVE SmokeIInv'
<1>1. /\ SmokeTypes /\ SmokeRunOK(s) /\ cloud' = [cloud EXCEPT ![s] = "none"]
      /\ smoke' = smoke /\ shell' = shell /\ probeFile' = probeFile /\ ranOn' = ranOn /\ container' = container
  BY DEF SmokeIInv, SandboxExpires
<1>2. cloud' \in [Smoke -> {"none", "running"}] /\ OtherSmokes(cloud, s) /\ cloud'[s] = "none"
  BY <1>1 DEF SmokeTypes, OtherSmokes
<1>3. SmokeRunOK(s)'
  BY <1>1, <1>2 DEF SmokeRunOK, BackendOK, ShellOK, FilesOK, AnswerOK, SmokeAt, HasAnswered, NoFiles,
                    FilesOnlyOn, Shell
<1> QED BY <1>1, <1>2, <1>3, SmokeUntouched, SmokeGoesOn DEF SmokeTypes

LEMMA DockerStepKeeps ==
  ASSUME SmokeIInv, NEW s \in Smoke, NEW step \in {"run", "wait", "answer"}, NEW ok \in BOOLEAN,
         smoke[s].at \in {"build", "run", "wait"}, SmokeBecomes(s, step, ok, smoke[s].warned),
         container' \in [Smoke -> {"none", "running"}], OtherSmokes(container, s),
         ok => step = "answer", ok \/ step = "run" => container'[s] = "none",
         shell' = shell, probeFile' = probeFile, ranOn' = ranOn, cloud' = cloud
  PROVE  SmokeIInv'
<1>1. SmokeTypes /\ SmokeRunOK(s)
  BY DEF SmokeIInv
<1>2. smoke[s].backend = "docker" /\ shell[s] = NoShell /\ NoFiles(s) /\ cloud[s] = "none"
  BY <1>1 DEF SmokeRunOK, BackendOK, SmokeAt
<1>3. BackendOK(s)'
  BY <1>2 DEF BackendOK, SmokeAt, HasAnswered, SmokeBecomes, NoFiles
<1>4. ShellOK(s)'
  BY <1>2, NoShellFacts DEF ShellOK, SmokeAt, Shell, SmokeBecomes
<1>5. FilesOK(s)'
  BY DEF FilesOK, SmokeAt, SmokeBecomes
<1>6. AnswerOK(s)'
  BY <1>2 DEF AnswerOK, SmokeAt, HasAnswered, SmokeBecomes, NoFiles
<1> QED BY <1>1, <1>3, <1>4, <1>5, <1>6, SmokeUntouched, SmokeGoesOn DEF SmokeTypes, SmokeRunOK, SmokeBecomes

LEMMA DockerKeeps ==
  ASSUME SmokeIInv, NEW s \in Smoke, BuildImage(s) \/ RunContainer(s) \/ RunFails(s) PROVE SmokeIInv'
<1>1. /\ SmokeTypes /\ smoke[s].at \in {"build", "run", "wait"}
      /\ shell' = shell /\ probeFile' = probeFile /\ ranOn' = ranOn /\ cloud' = cloud
  BY DEF SmokeIInv, BuildImage, RunContainer, RunFails, SmokeAt, elsewhere
<1>2. ~smoke[s].ok /\ (smoke[s].at = "build" => container[s] = "none")
  BY <1>1 DEF SmokeIInv, SmokeRunOK, BackendOK, AnswerOK, SmokeAt, HasAnswered
<1>3. smoke[s].ok \in BOOLEAN
  BY <1>1 DEF SmokeTypes, SmokeRecord
<1>4. /\ SmokeGoes(s, "run") => SmokeBecomes(s, "run", smoke[s].ok, smoke[s].warned)
      /\ SmokeGoes(s, "wait") => SmokeBecomes(s, "wait", smoke[s].ok, smoke[s].warned)
      /\ Fails(s) => SmokeBecomes(s, "answer", smoke[s].ok, smoke[s].warned)
  BY <1>1, SmokeStep, SmokeFails DEF SmokeSteps
<1>5. CASE RunContainer(s)
  <2>1. container' \in [Smoke -> {"none", "running"}] /\ OtherSmokes(container, s)
    BY <1>1, <1>5 DEF RunContainer, SmokeTypes, OtherSmokes
  <2>2. SmokeBecomes(s, "wait", smoke[s].ok, smoke[s].warned)
    BY <1>4, <1>5 DEF RunContainer
  <2> QED BY <1>1, <1>2, <1>3, <2>1, <2>2, DockerStepKeeps
<1>6. CASE BuildImage(s) \/ RunFails(s)
  <2>1. /\ container' = container /\ container' \in [Smoke -> {"none", "running"}] /\ OtherSmokes(container, s)
        /\ (BuildImage(s) /\ SmokeGoes(s, "run")) \/ Fails(s)
    BY <1>1, <1>6 DEF BuildImage, RunFails, elsewhere, SmokeTypes, OtherSmokes
  <2>2. CASE BuildImage(s) /\ SmokeGoes(s, "run")
    <3>1. container'[s] = "none" /\ SmokeBecomes(s, "run", smoke[s].ok, smoke[s].warned)
      BY <1>2, <1>4, <2>1, <2>2 DEF BuildImage, SmokeAt
    <3> QED BY <1>1, <1>2, <1>3, <2>1, <3>1, DockerStepKeeps
  <2>3. CASE Fails(s)
    <3>1. SmokeBecomes(s, "answer", smoke[s].ok, smoke[s].warned)
      BY <1>4, <2>3
    <3> QED BY <1>1, <1>2, <1>3, <2>1, <3>1, DockerStepKeeps
  <2> QED BY <2>1, <2>2, <2>3
<1> QED BY <1>5, <1>6

LEMMA ContainerExitsKeeps ==
  ASSUME SmokeIInv, NEW s \in Smoke, ContainerExits(s) PROVE SmokeIInv'
<1>1. /\ SmokeTypes /\ SmokeRunOK(s) /\ container' = [container EXCEPT ![s] = "none"]
      /\ shell' = shell /\ probeFile' = probeFile /\ ranOn' = ranOn /\ cloud' = cloud
  BY DEF SmokeIInv, ContainerExits
<1>2. container' \in [Smoke -> {"none", "running"}] /\ OtherSmokes(container, s) /\ container'[s] = "none"
  BY <1>1 DEF SmokeTypes, OtherSmokes
<1>3. CASE smoke[s].at = "wait"
  <2>1. smoke[s].ok \in BOOLEAN
    BY <1>1 DEF SmokeTypes, SmokeRecord
  <2>2. SmokeBecomes(s, "answer", TRUE, smoke[s].warned) \/ SmokeBecomes(s, "answer", smoke[s].ok, smoke[s].warned)
    BY <1>1, <1>3, SmokePasses, SmokeFails DEF ContainerExits, SmokeAt
  <2> QED BY <1>1, <1>2, <1>3, <2>1, <2>2, DockerStepKeeps
<1>4. CASE smoke[s].at # "wait"
  <2>1. smoke' = smoke
    BY <1>4 DEF ContainerExits, SmokeAt
  <2>2. SmokeRunOK(s)'
    BY <1>1, <1>2, <2>1 DEF SmokeRunOK, BackendOK, ShellOK, FilesOK, AnswerOK, SmokeAt, HasAnswered, NoFiles,
                            FilesOnlyOn, Shell
  <2> QED BY <1>1, <1>2, <2>1, <2>2, SmokeUntouched, SmokeGoesOn DEF SmokeTypes
<1> QED BY <1>3, <1>4

LEMMA SameSmokes ==
  ASSUME SmokeIInv, smoke' = smoke, shell' = shell, probeFile' = probeFile, ranOn' = ranOn,
         cloud' = cloud, container' = container
  PROVE  SmokeIInv'
<1>1. SmokeTypes'
  BY DEF SmokeIInv, SmokeTypes
<1>2. ASSUME NEW s \in Smoke PROVE SmokeRunOK(s)'
  <2>1. SmokeRunOK(s)
    BY DEF SmokeIInv
  <2> QED BY <2>1 DEF SmokeRunOK, BackendOK, ShellOK, FilesOK, AnswerOK, SmokeAt, HasAnswered, NoFiles,
                      FilesOnlyOn, Shell
<1> QED BY <1>1, <1>2 DEF SmokeIInv

LEMMA SmokeInductive == SmokeSpec => [](SmokeIInv /\ machine \in Machine)
<1>1. SmokeInit => SmokeIInv /\ machine \in Machine
  <2> SUFFICES ASSUME SmokeInit PROVE SmokeIInv /\ machine \in Machine
    OBVIOUS
  <2>1. NotBegun \in SmokeRecord /\ NotBegun.at = "not_begun" /\ NotBegun.ok = FALSE /\ NotBegun.backend = "none"
    BY DEF NotBegun, SmokeRecord
  <2>2. SmokeTypes
    BY <2>1, NoShellFacts DEF SmokeInit, SmokeTypes
  <2>3. ASSUME NEW s \in Smoke PROVE SmokeRunOK(s)
    <3>1. /\ smoke[s].at = "not_begun" /\ ~smoke[s].ok /\ smoke[s].backend = "none" /\ shell[s] = NoShell
          /\ NoFiles(s) /\ cloud[s] = "none" /\ container[s] = "none"
      BY <2>1 DEF SmokeInit, NoFiles
    <3> QED BY <3>1, NoShellFacts DEF SmokeRunOK, BackendOK, ShellOK, FilesOK, AnswerOK, SmokeAt, HasAnswered, Shell
  <2> QED BY <2>2, <2>3 DEF SmokeInit, SmokeIInv
<1>2. SmokeIInv /\ machine \in Machine /\ [SmokeNext]_smoke_vars => (SmokeIInv /\ machine \in Machine)'
  <2> SUFFICES ASSUME SmokeIInv, machine \in Machine, [SmokeNext]_smoke_vars PROVE SmokeIInv' /\ machine' \in Machine
    OBVIOUS
  <2>1. ASSUME NEW s \in Smoke, BeginSmoke(s) \/ Answer(s) \/ KillSmoke(s)
        PROVE  SmokeIInv' /\ machine' = machine
    BY <2>1, BeginSmokeKeeps, AnswerKeeps, KillSmokeKeeps DEF BeginSmoke, Answer, KillSmoke, elsewhere
  <2>2. ASSUME NEW s \in Smoke, ConnectFor(s, "upload") \/ ConnectFor(s, "execute") \/ ConnectionFails(s)
        PROVE  SmokeIInv' /\ machine' = machine
    BY <2>2, ConnectKeeps, ConnectionFailsKeeps DEF ConnectFor, ConnectionFails
  <2>3. ASSUME NEW s \in Smoke, MakeDirectory(s) \/ ReceiveFile(s) \/ CheckAndRun(s) \/ ShellExits(s)
        PROVE  SmokeIInv' /\ machine' = machine
    BY <2>3, MakeDirectoryKeeps, ReceiveFileKeeps, CheckAndRunKeeps, ShellExitsKeeps
       DEF MakeDirectory, ReceiveFile, CheckAndRun, ShellExits
  <2>4. ASSUME NEW s \in Smoke,
               CreateSandbox(s) \/ ExecProbe(s) \/ TerminateSandbox(s) \/ ModalTimesOut(s) \/ SandboxExpires(s)
        PROVE  SmokeIInv' /\ machine' = machine
    BY <2>4, CreateSandboxKeeps, ExecProbeKeeps, TerminateSandboxKeeps, ModalTimesOutKeeps, SandboxExpiresKeeps
       DEF CreateSandbox, ExecProbe, TerminateSandbox, ModalTimesOut, SandboxExpires, elsewhere
  <2>5. ASSUME NEW s \in Smoke, BuildImage(s) \/ RunContainer(s) \/ RunFails(s) \/ ContainerExits(s)
        PROVE  SmokeIInv' /\ machine' = machine
    BY <2>5, DockerKeeps, ContainerExitsKeeps DEF BuildImage, RunContainer, RunFails, ContainerExits, elsewhere
  <2>6. CASE AddressMoves
    BY <2>6, SameSmokes DEF AddressMoves
  <2>7. CASE UNCHANGED smoke_vars
    BY <2>7, SameSmokes DEF smoke_vars
  <2> QED BY <2>1, <2>2, <2>3, <2>4, <2>5, <2>6, <2>7 DEF SmokeNext
<1> QED BY <1>1, <1>2, PTL DEF SmokeSpec

(* A sandbox smoke that answered ok ran its whole probe, over SSH on the   *)
(* machine it uploaded to, and left nothing but the files it was told to   *)
(* keep and a sandbox it warned of: for any number of smokes and machines, *)
(* clients killed or timed out and addresses that move.                    *)
THEOREM OkSmokesAreOver == SmokeSpec => []OkSmokeIsOver
<1>1. SmokeIInv => OkSmokeIsOver
  <2>1. ASSUME SmokeIInv, NEW s \in Smoke, SmokeAt(s, "ended"), smoke[s].ok
        PROVE  /\ smoke[s].backend = "ssh" => ranOn[s] # Nowhere
               /\ shell[s] = NoShell /\ container[s] = "none"
               /\ cloud[s] = "running" => smoke[s].warned
               /\ \A m \in Machine : probeFile[s][m] # "absent" => smoke[s].keep /\ m = ranOn[s]
    <3>1. AnswerOK(s) /\ HasAnswered(s)
      BY <2>1 DEF SmokeIInv, SmokeRunOK, HasAnswered
    <3> QED BY <2>1, <3>1, SmokeAssumption DEF AnswerOK
  <2> QED BY <2>1 DEF OkSmokeIsOver
<1> QED BY <1>1, SmokeInductive, PTL

=============================================================================
