---------------------------- MODULE ReleaseProofs ----------------------------
(***************************************************************************)
(* Proofs about the release gate, for any trains, refs, versions of gate   *)
(* code and evidence, and any number of captures, waivers and pushes; and  *)
(* about `spark verify --r30`, for any modules and any number of changes   *)
(* of the world before and during the check; and about the trace report    *)
(* the release gate takes, for any families, traces and number of events.  *)
(***************************************************************************)
EXTENDS ReleaseGate, ReleaseTruth, TraceHealth, WellFoundedInduction, FiniteSetTheorems,
        SequenceTheorems, TLAPS

-----------------------------------------------------------------------------
(* Whatever is not a push permits nothing.                                 *)

LEMMA NotAPush ==
  ASSUME pushed' = NothingPushed
  PROVE  PermitsOnlyVerified' /\ pushed'.by = 0
BY DEF PermitsOnlyVerified, NothingPushed

LEMMA CapturingFacts ==
  ASSUME GateIInv
  PROVE  /\ capturing.at \in {"rows", "hash"} => capturing \in CaptureRun
         /\ NotCapturing \notin CaptureRun /\ [at |-> "link"] \notin CaptureRun
BY DEF GateIInv, CaptureRun, NotCapturing

LEMMA GateInitInv == GateInit => GateIInv
<1> SUFFICES ASSUME GateInit PROVE GateIInv
  OBVIOUS
<1>1. tree \in Tree /\ commits = <<tree>> /\ captures = <<>> /\ capturing = NotCapturing
  BY DEF GateInit, Tree
<1>2. commits \in Seq(Tree) /\ commits # <<>> /\ Len(commits) = 1
  BY <1>1
<1>3. GateTypeOK
  BY <1>1, <1>2 DEF GateInit, GateTypeOK, NothingPushed
<1>4. capturing \notin CaptureRun
  BY <1>1 DEF NotCapturing, CaptureRun
<1> QED BY <1>1, <1>3, <1>4 DEF GateInit, GateIInv, PermitsOnlyVerified, NothingPushed

-----------------------------------------------------------------------------
(* A capture.                                                              *)

LEMMA RunVerifyStep ==
  ASSUME GateIInv, RunVerify
  PROVE  GateIInv'
<1> PICK release \in Train \cup {UnknownRelease}, failed \in SUBSET {"verify_r30"} :
      capturing' = [at |-> "rows", day |-> day, release |-> release, saw |-> tree,
                    failed |-> failed, red |-> failed]
  BY DEF RunVerify
<1>1. UNCHANGED <<tree, commits, remote, captures, latest, waivers, day>> /\ pushed' = NothingPushed
  BY DEF RunVerify
<1>2. failed \subseteq Row /\ day \in 0..day /\ tree \in Tree
  BY DEF GateIInv, GateTypeOK, Row
<1>3. capturing' \in CaptureRun' /\ NoRowDropped(capturing')
  BY <1>1, <1>2 DEF CaptureRun, NoRowDropped, TrainName
<1>4. GateTypeOK'
  BY <1>1, NotAPush DEF GateIInv, GateTypeOK
<1> QED BY <1>1, <1>3, <1>4, NotAPush DEF GateIInv

(* A chip gate that fails while the registry is unreadable shows as the    *)
(* row of the registry.                                                    *)
LEMMA RunHarnessStep ==
  ASSUME GateIInv, RunHarness
  PROVE  GateIInv'
<1> PICK readable \in BOOLEAN, fails \in SUBSET {"chip_gate"} :
      capturing' = [capturing EXCEPT !.at = "hash", !.failed = @ \cup fails,
                                     !.red = @ \cup ChipRows(readable, fails)]
  BY DEF RunHarness
<1>1. UNCHANGED <<tree, commits, remote, captures, latest, waivers, day>> /\ pushed' = NothingPushed
  BY DEF RunHarness
<1>2. capturing \in CaptureRun /\ NoRowDropped(capturing)
  BY CapturingFacts DEF RunHarness, GateIInv
<1>3. ChipRows(readable, fails) \subseteq Row /\ fails \subseteq Row
      /\ \A row \in fails : \/ row \in ChipRows(readable, fails)
                            \/ row = "chip_gate" /\ "installed_registry" \in ChipRows(readable, fails)
  BY DEF ChipRows, Row
<1>4. /\ capturing'.failed = capturing.failed \cup fails
      /\ capturing'.red = capturing.red \cup ChipRows(readable, fails)
  BY <1>2 DEF CaptureRun
<1>5. capturing' \in CaptureRun
  BY <1>2, <1>3 DEF CaptureRun
<1>6. NoRowDropped(capturing')
  BY <1>2, <1>3, <1>4 DEF NoRowDropped
<1>7. CaptureRun' = CaptureRun
  BY <1>1 DEF CaptureRun
<1>8. GateTypeOK'
  BY <1>1, NotAPush DEF GateIInv, GateTypeOK
<1> QED BY <1>1, <1>5, <1>6, <1>7, <1>8, NotAPush DEF GateIInv

LEMMA WriteCaptureStep ==
  ASSUME GateIInv, WriteCapture
  PROVE  GateIInv'
<1> DEFINE missing == IF tree.gate = NoMap THEN {"gate_map_present"} ELSE {}
           c == [day |-> capturing.day, release |-> capturing.release, saw |-> capturing.saw,
                 failed |-> capturing.failed, red |-> capturing.red \cup missing, hash |-> Hashes]
<1>1. UNCHANGED <<tree, commits, remote, latest, waivers, day>> /\ pushed' = NothingPushed
      /\ capturing' = [at |-> "link"] /\ captures' = Append(captures, c)
  BY DEF WriteCapture
<1>2. capturing \in CaptureRun /\ NoRowDropped(capturing)
  BY CapturingFacts DEF WriteCapture, GateIInv
<1>3. missing \subseteq Row /\ Hashes \in Tree /\ day \in Nat
  BY DEF Row, Hashes, GateIInv, GateTypeOK, Tree
<1> HIDE DEF missing
<1>4. c \in CaptureFile /\ NoRowDropped(c) /\ c.day \in 0..day
  BY <1>2, <1>3 DEF CaptureRun, CaptureFile, NoRowDropped
<1> HIDE DEF c
<1>5. captures \in Seq(CaptureFile)
  BY DEF GateIInv
<1>6. /\ captures' \in Seq(CaptureFile) /\ Len(captures') = Len(captures) + 1
      /\ captures'[Len(captures) + 1] = c
      /\ \A i \in DOMAIN captures : i \in DOMAIN captures' /\ captures'[i] = captures[i]
      /\ \A i \in DOMAIN captures' : i \in DOMAIN captures \/ i = Len(captures) + 1
  BY <1>1, <1>4, <1>5
<1>7. \A i \in DOMAIN captures' : captures'[i] = c \/ (i \in DOMAIN captures /\ captures'[i] = captures[i])
  BY <1>6
<1>8. GateTypeOK'
  <2>1. \A i \in DOMAIN captures' : captures'[i].day \in 0..day
    BY <1>4, <1>7 DEF GateIInv, GateTypeOK
  <2>2. \A i \in DOMAIN captures' : captures'[i] \in CaptureFile
    BY <1>6
  <2>3. Len(captures) \in Nat
    BY <1>5
  <2>4. latest' \in 0..Len(captures') /\ pushed'.by \in 0..Len(captures')
    BY <1>1, <1>6, <2>3, NotAPush DEF GateIInv, GateTypeOK
  <2> QED BY <1>1, <2>1, <2>2, <2>4 DEF GateIInv, GateTypeOK, CaptureFile
<1>9. [at |-> "link"] \notin CaptureRun'
  BY DEF CaptureRun
<1>10. \A i \in DOMAIN captures' : NoRowDropped(captures'[i])
  BY <1>4, <1>7 DEF GateIInv
<1> QED BY <1>1, <1>6, <1>8, <1>9, <1>10, NotAPush DEF GateIInv

LEMMA EndCaptureStep ==
  ASSUME GateIInv, LinkCapture \/ KillCapture
  PROVE  GateIInv'
<1>1. UNCHANGED <<tree, commits, remote, captures, waivers, day>> /\ pushed' = NothingPushed
      /\ capturing' = NotCapturing /\ latest' \in {latest, Len(captures)}
  BY DEF LinkCapture, KillCapture
<1>2. Len(captures) \in Nat
  BY DEF GateIInv
<1>3. GateTypeOK'
  BY <1>1, <1>2, NotAPush DEF GateIInv, GateTypeOK
<1>4. NotCapturing \notin CaptureRun'
  BY DEF CaptureRun, NotCapturing
<1> QED BY <1>1, <1>3, <1>4, NotAPush DEF GateIInv

-----------------------------------------------------------------------------
(* A push, and what the maintainers do.                                    *)

(* The tree that is permitted has the hashes of the capture, and each red  *)
(* row of the capture is waived for its train on that day.                 *)
LEMMA PermittedPush ==
  ASSUME GateIInv, NEW k \in DOMAIN captures, Permits(captures[k]),
         pushed' = [by |-> k, local |-> tree, on |-> day,
                    waived |-> {w.check : w \in {x \in waivers :
                                  x.release = captures[k].release /\ day <= x.expiry}}],
         captures' = captures
  PROVE  PermitsOnlyVerified'
<1> DEFINE c == captures[k]
           waived == {w.check : w \in {x \in waivers : x.release = c.release /\ day <= x.expiry}}
<1>1. pushed'.by = k /\ pushed'.local = tree /\ pushed'.on = day /\ pushed'.waived = waived
      /\ captures'[pushed'.by] = c
  OBVIOUS
<1>2. c \in CaptureFile /\ tree \in Tree /\ NoRowDropped(c)
  BY DEF GateIInv, GateTypeOK
<1>3. c.hash.gate = tree.gate /\ c.hash.evid = tree.evid
      /\ \A row \in c.red : \E w \in waivers : Covers(w, row, c)
  BY DEF Permits, EvidenceFresh
<1>4. c.hash \in Tree /\ c.day \in Nat
  BY <1>2 DEF CaptureFile
<1>5. c.hash = tree
  BY <1>2, <1>3, <1>4 DEF Tree
<1>6. \A row \in c.red : row \in waived
  <2> SUFFICES ASSUME NEW row \in c.red PROVE row \in waived
    OBVIOUS
  <2>1. PICK w \in waivers : Covers(w, row, c)
    BY <1>3
  <2> QED BY <2>1 DEF Covers
<1>7. c.red # {} => day < c.day + WaiverMaxDays
  <2> SUFFICES ASSUME NEW row \in c.red PROVE day < c.day + WaiverMaxDays
    OBVIOUS
  <2>1. PICK w \in waivers : Covers(w, row, c)
    BY <1>3
  <2>2. w.expiry \in Nat /\ day \in Nat
    BY GateAssumption DEF GateIInv
  <2> QED BY <1>4, <2>1, <2>2, GateAssumption DEF Covers
<1> HIDE DEF c, waived
<1>8. \A row \in c.failed :
        row \in waived \/ (row = "chip_gate" /\ "installed_registry" \in waived)
  BY <1>2, <1>6 DEF NoRowDropped
<1> QED BY <1>1, <1>5, <1>7, <1>8 DEF PermitsOnlyVerified

LEMMA PushStep ==
  ASSUME GateIInv, NEW ref \in Ref, NEW n \in 1..Len(commits), Push(ref, n)
  PROVE  GateIInv'
<1>1. UNCHANGED <<tree, commits, capturing, captures, latest, waivers, day>>
      /\ remote' = [remote EXCEPT ![ref] = n]
  BY DEF Push
<1>2. \/ pushed' = NothingPushed
      \/ /\ LatestCapture # 0 /\ Permits(captures[LatestCapture])
         /\ pushed' = [by |-> LatestCapture, local |-> tree, on |-> day,
                       waived |-> {w.check : w \in {x \in waivers :
                                     x.release = captures[LatestCapture].release /\ day <= x.expiry}}]
  BY DEF Push
<1>3. Len(captures) \in Nat /\ LatestCapture \in 0..Len(captures)
  BY DEF GateIInv, GateTypeOK, LatestCapture
<1>4. CaptureRun' = CaptureRun
  BY <1>1 DEF CaptureRun
<1>5. PermitsOnlyVerified' /\ pushed'.by \in 0..Len(captures)
  <2>1. CASE pushed' = NothingPushed
    BY <1>3, <2>1, NotAPush
  <2>2. CASE pushed' # NothingPushed
    <3>1. LatestCapture \in DOMAIN captures
      BY <1>2, <1>3, <2>2 DEF GateIInv
    <3> QED BY <1>1, <1>2, <1>3, <2>2, <3>1, PermittedPush
  <2> QED BY <2>1, <2>2
<1>6. remote' \in [Ref -> 0..Len(commits)]
  <2>1. n \in 0..Len(commits)
    BY DEF GateIInv, GateTypeOK
  <2> QED BY <1>1, <2>1 DEF GateIInv, GateTypeOK
<1>7. GateTypeOK'
  BY <1>1, <1>5, <1>6 DEF GateIInv, GateTypeOK
<1> QED BY <1>1, <1>4, <1>5, <1>7 DEF GateIInv

LEMMA MaintainerStep ==
  ASSUME GateIInv, EditTree \/ CommitTree \/ WriteWaiver
  PROVE  GateIInv'
<1>1. UNCHANGED <<remote, capturing, captures, latest, day>> /\ pushed' = NothingPushed
      /\ CaptureRun' = CaptureRun
  BY DEF EditTree, CommitTree, WriteWaiver, CaptureRun
<1>2. tree' \in Tree /\ commits' \in Seq(Tree) /\ commits' # <<>> /\ Len(commits) \in Nat
      /\ Len(commits') \in {Len(commits), Len(commits) + 1}
  <2>1. tree \in Tree /\ commits \in Seq(Tree) /\ commits # <<>>
    BY DEF GateIInv, GateTypeOK
  <2>2. CASE EditTree
    BY <2>1, <2>2 DEF EditTree
  <2>3. CASE CommitTree
    BY <2>1, <2>3 DEF CommitTree
  <2>4. CASE WriteWaiver
    BY <2>1, <2>4 DEF WriteWaiver
  <2> QED BY <2>2, <2>3, <2>4
<1>3. remote' \in [Ref -> 0..Len(commits')]
  <2>1. \A i \in 0..Len(commits) : i \in 0..Len(commits')
    BY <1>2
  <2> QED BY <1>1, <2>1 DEF GateIInv, GateTypeOK
<1>4. waivers' \subseteq [check : Row, dir : Train, release : Train, expiry : 0..MaxDay]
  <2>1. CASE EditTree \/ CommitTree
    BY <2>1 DEF EditTree, CommitTree, GateIInv
  <2>2. CASE WriteWaiver
    <3>1. \A expiry \in day..MaxDay : expiry \in 0..MaxDay
      BY GateAssumption DEF GateIInv
    <3> QED BY <2>2, <3>1 DEF WriteWaiver, GateIInv
  <2> QED BY <2>1, <2>2
<1>5. GateTypeOK'
  BY <1>1, <1>2, <1>3, NotAPush DEF GateIInv, GateTypeOK
<1> QED BY <1>1, <1>4, <1>5, NotAPush DEF GateIInv

LEMMA NextDayStep ==
  ASSUME GateIInv, NextDay
  PROVE  GateIInv'
<1>1. UNCHANGED <<tree, commits, remote, capturing, captures, latest, waivers>>
      /\ day' = day + 1 /\ pushed' = NothingPushed
  BY DEF NextDay
<1>2. day \in Nat /\ \A d \in 0..day : d \in 0..day'
  BY <1>1 DEF GateIInv
<1>3. capturing \in CaptureRun => capturing \in CaptureRun'
  BY <1>2 DEF CaptureRun
<1>4. capturing \in CaptureRun' => capturing \in CaptureRun
  BY <1>1, NotAPush DEF GateIInv, CaptureRun, NotCapturing
<1>5. GateTypeOK'
  BY <1>1, <1>2, NotAPush DEF GateIInv, GateTypeOK
<1> QED BY <1>1, <1>2, <1>3, <1>4, <1>5, NotAPush DEF GateIInv

LEMMA GateNextInv == GateIInv /\ [GateNext]_gate_vars => GateIInv'
<1> SUFFICES ASSUME GateIInv, [GateNext]_gate_vars PROVE GateIInv'
  OBVIOUS
<1>1. CASE GateNext
  BY <1>1, RunVerifyStep, RunHarnessStep, WriteCaptureStep, EndCaptureStep, PushStep,
     MaintainerStep, NextDayStep DEF GateNext
<1>2. CASE UNCHANGED gate_vars
  BY <1>2 DEF gate_vars, GateIInv, GateTypeOK, PermitsOnlyVerified, CaptureRun
<1> QED BY <1>1, <1>2

(* The inductive invariant holds in every reachable state. *)
LEMMA GateInductive == GateSpec => []GateIInv
BY GateInitInv, GateNextInv, PTL DEF GateSpec

(* What the hook permits on a capture of a tree that nobody touched        *)
(* meanwhile is the tree that was verified, each gate that failed then is  *)
(* waived, and a red capture permits nothing once its waivers are over.    *)
THEOREM GatePermitsOnlyVerified == GateSpec => []PermitsOnlyVerified
<1>1. GateIInv => PermitsOnlyVerified
  BY DEF GateIInv
<1> QED BY <1>1, GateInductive, PTL

-----------------------------------------------------------------------------
(* The release check of the source truth.                                  *)

LEMMA FailedMeans ==
  ASSUME NEW ok, NEW name
  PROVE  /\ FailedUnless(ok, name) \subseteq {name}
         /\ FailedUnless(ok, name) = {} <=> ok
BY DEF FailedUnless

LEMMA TruthInitInv == TruthInit => TruthIInv
<1> SUFFICES ASSUME TruthInit PROVE TruthIInv
  OBVIOUS
<1>1. PICK registered \in Commit, remote_ \in Commit, handedOver \in SUBSET Direct :
        /\ pins = Everywhere(registered) /\ attested = pins /\ records = pins
        /\ refs = Everywhere(remote_)
        /\ heads = [m \in Canonical |-> Clean(IF m \in handedOver THEN R30 ELSE registered)]
        /\ classified = handedOver \cap RuntimeModule
        /\ \E published \in {"before", "r30"}, deployed \in SUBSET SiteFile :
             /\ installer = [scripts |-> published, manifest |-> published]
             /\ site = [f \in SiteFile |-> IF f \in deployed THEN "r30" ELSE "before"]
  BY DEF TruthInit
<1>2. /\ pins \in [Canonical -> Commit] /\ attested \in [Canonical -> Commit]
      /\ records \in [Canonical -> Commit] /\ refs \in [Canonical -> Commit \cup {NoCommit}]
  BY <1>1 DEF Everywhere
<1>3. rows \in [Canonical -> Commit \cup {NoCommit}]
  BY DEF TruthInit, Everywhere, Commit
<1>4. heads \in [Canonical -> [at : Commit \cup {NoCommit}, dirty : BOOLEAN]]
  BY <1>1 DEF Clean, Commit
<1>5. /\ installer \in [scripts : {"before", "r30"}, manifest : {"before", "r30"}]
      /\ site \in [SiteFile -> Release]
  BY <1>1 DEF Release
<1>6. classified \subseteq RuntimeModule /\ kept \subseteq Keepable /\ traces \in TraceState
  BY <1>1 DEF TruthInit, TraceState
<1>7. releaseEdits \in 0..MaxReleaseEdits
  BY ReleaseTruthAssumption DEF TruthInit
<1>8. WorldTyped
  BY <1>2, <1>3, <1>4, <1>5, <1>6, <1>7 DEF WorldTyped, TruthTypeOK
<1> QED BY <1>8 DEF TruthInit, TruthIInv

(* The check goes on, and the world stays as it is. *)
LEMMA CheckGoesOn ==
  ASSUME TruthIInv, UNCHANGED <<world, releaseEdits>>, NEW j \in CheckRecord, check' = j,
         SeenArePins(j), AcceptedIsDeployed(j), NothingFailsConverged(j)
  PROVE  TruthIInv'
<1>1. WorldTyped'
  BY DEF world, TruthIInv, WorldTyped, TruthTypeOK
<1>2. SeenArePins(check)'
  BY DEF world, SeenArePins
<1>3. AcceptedIsDeployed(check)'
  BY DEF world, AcceptedIsDeployed
<1>4. Converged' = Converged
  BY DEF world, Converged
<1>5. NothingFailsConverged(check)'
  BY <1>4 DEF NothingFailsConverged
<1> QED BY <1>1, <1>2, <1>3, <1>5 DEF TruthIInv

LEMMA NoCheckIsNone == NoCheck \notin CheckRecord /\ NoCheck.at = "none"
BY DEF NoCheck, CheckRecord

LEMMA CheckFacts ==
  ASSUME TruthIInv, check.at # "none"
  PROVE  /\ check \in CheckRecord /\ check # NoCheck
         /\ SeenArePins(check) /\ AcceptedIsDeployed(check) /\ NothingFailsConverged(check)
BY NoCheckIsNone DEF TruthIInv

(* In a converged world every row of the lane and every read is in order. *)
LEMMA ConvergedFacts ==
  ASSUME Converged
  PROVE  /\ \A m \in Canonical : /\ heads[m].at = R30 /\ ~heads[m].dirty /\ records[m] = R30
                                 /\ pins[m] = R30 /\ attested[m] = R30 /\ rows[m] = R30
                                 /\ refs[m] = R30 \/ (refs[m] = NoCommit /\ m \in PrivateSource)
         /\ kept = Keepable /\ packet = "exact"
         /\ installer.scripts = "r30" /\ installer.manifest = "r30"
BY DEF Converged, Clean

LEMMA StartCheckStep ==
  ASSUME TruthIInv, StartCheck
  PROVE  TruthIInv'
<1>1. PICK hosted \in BOOLEAN :
        check' = [at |-> "lane", hosted |-> hosted, red |-> {}, untouched |-> TRUE, repinned |-> FALSE,
                 rolledBack |-> FALSE, critical |-> CriticalDuplicate, owners |-> RuntimeOwners,
                 families |-> PublishFamilies, events |-> traces, seen |-> Everywhere({}),
                 blocked |-> {}, lane |-> Everywhere(Unread), history |-> {},
                 committed |-> NoFile, sums |-> NoFile, named |-> NoFile, expected |-> NoFile]
  BY DEF StartCheck
<1>2. PICK critical \in BOOLEAN : critical = CriticalDuplicate
  BY DEF CriticalDuplicate
<1>3. PICK owners \in SUBSET RuntimeModule : owners = RuntimeOwners
  BY DEF RuntimeOwners
<1>4. PICK families \in SUBSET PublishFamily : families = PublishFamilies
  BY DEF PublishFamilies, PublishFamily
<1>5. PICK events \in TraceState : events = traces
  BY DEF TruthIInv, WorldTyped
<1>6. PICK seen \in [Canonical -> SUBSET (Commit \cup {NoCommit})] : seen = Everywhere({})
  BY DEF Everywhere
<1>7. PICK lane \in [Canonical -> LaneRow] : lane = Everywhere(Unread)
  BY DEF Everywhere, LaneRow, Unread
<1>8. PICK j : j = [at |-> "lane", hosted |-> hosted, red |-> {}, untouched |-> TRUE, repinned |-> FALSE,
                 rolledBack |-> FALSE, critical |-> critical, owners |-> owners,
                 families |-> families, events |-> events, seen |-> seen,
                 blocked |-> {}, lane |-> lane, history |-> {},
                 committed |-> NoFile, sums |-> NoFile, named |-> NoFile, expected |-> NoFile]
  OBVIOUS
<1>9. check' = j
  BY <1>1, <1>2, <1>3, <1>4, <1>5, <1>6, <1>7, <1>8
<1>10. j \in CheckRecord
  BY <1>8 DEF CheckRecord
<1>11. /\ j.at = "lane" /\ j.red = {} /\ j.seen = Everywhere({}) /\ j.critical = CriticalDuplicate
       /\ j.sums = "no file" /\ j.named = "no file"
  BY <1>2, <1>6, <1>8 DEF NoFile
<1>12. SeenArePins(j)
  BY <1>11 DEF SeenArePins
<1>13. AcceptedIsDeployed(j)
  BY <1>11 DEF AcceptedIsDeployed
<1>14. Converged => ~CriticalDuplicate
  <2> SUFFICES ASSUME Converged PROVE ~CriticalDuplicate
    OBVIOUS
  <2>1. "one builder source" \in kept
    BY ConvergedFacts DEF Keepable
  <2>2. RuntimeModule \subseteq Canonical /\ CriticalRuntime \subseteq Canonical
    BY ReleaseTruthAssumption
  <2>3. \A m \in Canonical : ~heads[m].dirty /\ ~Ahead(m)
    BY ConvergedFacts DEF Ahead
  <2> QED BY <2>1, <2>2, <2>3 DEF CriticalDuplicate
<1>15. NothingFailsConverged(j)
  BY <1>11, <1>14 DEF NothingFailsConverged
<1>16. UNCHANGED <<world, releaseEdits>>
  BY DEF StartCheck
<1> QED BY <1>9, <1>10, <1>12, <1>13, <1>15, <1>16, CheckGoesOn

LEMMA ReadLaneStep ==
  ASSUME TruthIInv, ReadLane
  PROVE  TruthIInv'
<1>1. /\ check \in CheckRecord /\ check.at = "lane" /\ check.seen = Everywhere({})
      /\ AcceptedIsDeployed(check) /\ NothingFailsConverged(check)
  BY CheckFacts DEF ReadLane, SeenArePins
<1>2. PICK cli : cli = FailedUnless("clean checkout" \in kept, "spark-cli")
  OBVIOUS
<1>3. PICK blocked : blocked = {m \in Canonical : RowIssues(m)} \cup cli
  OBVIOUS
<1>4. PICK ok \in BOOLEAN : ok = (blocked = {} /\ ~check.critical)
  OBVIOUS
<1>5. PICK red : red = FailedUnless(ok, "release_lane") \cup FailedUnless(ok, "os_compile")
  OBVIOUS
<1>6. PICK seen : seen = Saw([m \in Canonical |->
                     {IF heads[m].dirty THEN NoCommit ELSE heads[m].at, pins[m]} \cup KnownCommit(records[m])])
  OBVIOUS
<1>7. PICK lane : lane = [m \in Canonical |-> [at |-> heads[m].at, pin |-> pins[m], record |-> records[m]]]
  OBVIOUS
<1>8. check' = [check EXCEPT !.at = "handoffs", !.red = red, !.seen = seen, !.blocked = blocked, !.lane = lane]
  BY <1>2, <1>3, <1>4, <1>5, <1>6, <1>7 DEF ReadLane
<1>9. PICK j : j = [check EXCEPT !.at = "handoffs", !.red = red, !.seen = seen, !.blocked = blocked, !.lane = lane]
  OBVIOUS
<1>10. red \subseteq GateCheck /\ (red = {} <=> ok)
  BY <1>5, FailedMeans DEF GateCheck, SourceTruth
<1>11. blocked \subseteq Canonical \cup {"spark-cli"}
  BY <1>2, <1>3, FailedMeans
<1>12. /\ \A m \in Canonical : heads[m].at \in Commit \cup {NoCommit} /\ heads[m].dirty \in BOOLEAN
       /\ \A m \in Canonical : pins[m] \in Commit /\ records[m] \in Commit
  BY DEF TruthIInv, WorldTyped, TruthTypeOK
<1>13. \A m \in Canonical : seen[m] = {IF heads[m].dirty THEN NoCommit ELSE heads[m].at, pins[m]}
                                        \cup KnownCommit(records[m])
  BY <1>1, <1>6 DEF Saw, Everywhere
<1>14. seen \in [Canonical -> SUBSET (Commit \cup {NoCommit})]
  <2>1. seen = [m \in Canonical |-> seen[m]]
    BY <1>6 DEF Saw
  <2>2. \A m \in Canonical : seen[m] \in SUBSET (Commit \cup {NoCommit})
    <3> SUFFICES ASSUME NEW m \in Canonical PROVE seen[m] \in SUBSET (Commit \cup {NoCommit})
      OBVIOUS
    <3>1. KnownCommit(records[m]) \subseteq Commit
      BY <1>12 DEF KnownCommit
    <3>2. {IF heads[m].dirty THEN NoCommit ELSE heads[m].at, pins[m]} \subseteq Commit \cup {NoCommit}
      BY <1>12
    <3> QED BY <1>13, <3>1, <3>2
  <2> QED BY <2>1, <2>2
<1>15. lane \in [Canonical -> LaneRow]
  BY <1>7, <1>12 DEF LaneRow
<1>16. j \in CheckRecord
  BY <1>1, <1>9, <1>10, <1>11, <1>14, <1>15 DEF CheckRecord
<1>17. /\ j.at = "handoffs" /\ j.red = red /\ j.seen = seen /\ j.hosted = check.hosted
       /\ j.untouched = check.untouched /\ j.rolledBack = check.rolledBack /\ j.sums = check.sums
       /\ j.named = check.named
  BY <1>1, <1>9 DEF CheckRecord
<1>18. SeenArePins(j)
  <2> SUFFICES ASSUME red = {}, NEW m \in Canonical PROVE seen[m] = {pins[m]}
    BY <1>17 DEF SeenArePins
  <2>1. ~RowIssues(m)
    BY <1>3, <1>4, <1>10
  <2> QED BY <1>12, <1>13, <2>1 DEF RowIssues, KnownCommit
<1>19. AcceptedIsDeployed(j)
  BY <1>1, <1>17 DEF AcceptedIsDeployed
<1>20. NothingFailsConverged(j)
  <2> SUFFICES ASSUME check.untouched, ~check.hosted, Converged PROVE red = {}
    BY <1>17 DEF NothingFailsConverged
  <2>1. ~check.critical
    BY <1>1 DEF NothingFailsConverged
  <2>2. "clean checkout" \in kept
    BY ConvergedFacts DEF Keepable
  <2>3. cli = {}
    BY <1>2, <2>2, FailedMeans
  <2>4. R30 # NoCommit
    BY ReleaseTruthAssumption DEF R30
  <2>5. \A m \in Canonical : ~RowIssues(m)
    BY <2>4, ConvergedFacts DEF RowIssues
  <2> QED BY <1>3, <1>4, <1>10, <2>1, <2>3, <2>5
<1>21. UNCHANGED <<world, releaseEdits>>
  BY DEF ReadLane
<1> QED BY <1>8, <1>9, <1>16, <1>18, <1>19, <1>20, <1>21, CheckGoesOn

LEMMA ReadHandoffsStep ==
  ASSUME TruthIInv, ReadHandoffs
  PROVE  TruthIInv'
<1>1. /\ check \in CheckRecord /\ check.at = "handoffs"
      /\ SeenArePins(check) /\ AcceptedIsDeployed(check) /\ NothingFailsConverged(check)
  BY CheckFacts DEF ReadHandoffs
<1>2. PICK found : found = FailedUnless(CliDocsOk, "r30_cli_owner_handoff_docs")
                             \cup FailedUnless(RuntimeDocsOk, "r30_local_runtime_handoff_docs")
  OBVIOUS
<1>3. PICK history : history =
             FailedUnless(OwnerManifestOk, "owner_handoff_manifest")
             \cup FailedUnless(RuntimeArtifactsOk, "r30_local_runtime_artifacts_handoff")
             \cup FailedUnless(VoiceOk, "r30_voice_registry_decision")
             \cup FailedUnless(OwnerActionsOk, "r30_owner_action_packet")
             \cup FailedUnless(PatchApplyOk, "r30_owner_handoff_patch_apply")
             \cup FailedUnless(BuilderTraceOk, "r30_builder_trace_lifecycle")
             \cup FailedUnless(PublishBlockers = {}, "publish_handoffs")
  OBVIOUS
<1>4. PICK red : red = check.red \cup found
  OBVIOUS
<1>5. PICK j : j = [check EXCEPT !.at = "live", !.red = red, !.history = history]
  OBVIOUS
<1>6. check' = j
  <2>1. check' = [check EXCEPT !.at = "live",
                    !.red = @ \cup FailedUnless(CliDocsOk, "r30_cli_owner_handoff_docs")
                              \cup FailedUnless(RuntimeDocsOk, "r30_local_runtime_handoff_docs"),
                    !.history = history]
    BY <1>3 DEF ReadHandoffs
  <2>2. red = check.red \cup FailedUnless(CliDocsOk, "r30_cli_owner_handoff_docs")
                        \cup FailedUnless(RuntimeDocsOk, "r30_local_runtime_handoff_docs")
    BY <1>2, <1>4
  <2> QED BY <1>1, <1>5, <2>1, <2>2 DEF CheckRecord
<1>7. found \subseteq GateCheck /\ (found = {} <=> CliDocsOk /\ RuntimeDocsOk)
  BY <1>2, FailedMeans DEF GateCheck, SourceTruth
<1>8. history \subseteq PacketCheck
  BY <1>3, FailedMeans DEF PacketCheck
<1>9. red \subseteq GateCheck /\ (red = {} <=> check.red = {} /\ found = {})
  BY <1>1, <1>4, <1>7 DEF CheckRecord
<1>10. j \in CheckRecord
  BY <1>1, <1>5, <1>8, <1>9 DEF CheckRecord
<1>11. /\ j.at = "live" /\ j.red = red /\ j.seen = check.seen /\ j.hosted = check.hosted
       /\ j.repinned = check.repinned /\ j.untouched = check.untouched /\ j.rolledBack = check.rolledBack
       /\ j.sums = check.sums /\ j.named = check.named
  BY <1>1, <1>5 DEF CheckRecord
<1>12. SeenArePins(j)
  BY <1>1, <1>9, <1>11 DEF SeenArePins
<1>13. AcceptedIsDeployed(j)
  BY <1>1, <1>11 DEF AcceptedIsDeployed
<1>14. NothingFailsConverged(j)
  BY <1>1, <1>7, <1>9, <1>11, ConvergedFacts DEF NothingFailsConverged, CliDocsOk, RuntimeDocsOk
<1>15. UNCHANGED <<world, releaseEdits>>
  BY DEF ReadHandoffs
<1> QED BY <1>6, <1>10, <1>12, <1>13, <1>14, <1>15, CheckGoesOn

(* A later read adds to what failed, and to what was seen at most the pins *)
(* if nothing failed.                                                      *)
LEMMA ReadsMore ==
  ASSUME TruthIInv, UNCHANGED <<world, releaseEdits>>, check \in CheckRecord, check.at # "lane",
         NEW j \in CheckRecord, check' = j, j.at # "lane", j.hosted = check.hosted,
         j.untouched = check.untouched, j.repinned = check.repinned, check.red \subseteq j.red,
         j.red = {} => \A m \in Canonical : j.seen[m] \in {check.seen[m], check.seen[m] \cup {pins[m]}},
         AcceptedIsDeployed(j),
         check.untouched /\ ~check.hosted /\ Converged /\ check.red = {} => j.red = {}
  PROVE  TruthIInv'
<1>1. SeenArePins(check) /\ NothingFailsConverged(check)
  BY NoCheckIsNone DEF TruthIInv
<1>2. SeenArePins(j)
  BY <1>1 DEF SeenArePins
<1>3. NothingFailsConverged(j)
  BY <1>1 DEF NothingFailsConverged
<1> QED BY <1>2, <1>3, CheckGoesOn

LEMMA ReadLiveStep ==
  ASSUME TruthIInv, ReadLive
  PROVE  TruthIInv'
<1>1. /\ check \in CheckRecord /\ check.at = "live" /\ AcceptedIsDeployed(check)
      /\ UNCHANGED <<world, releaseEdits>>
  BY CheckFacts DEF ReadLive
<1>2. PICK found : found = {n \in LiveChecks : ~ EvidenceOf(n) \subseteq kept}
  OBVIOUS
<1>3. PICK j : j = [check EXCEPT !.at = "pins", !.red = check.red \cup found]
  OBVIOUS
<1>4. check' = j
  BY <1>2, <1>3 DEF ReadLive
<1>5. j \in CheckRecord
  BY <1>1, <1>2, <1>3, ZenonT(30) DEF CheckRecord, GateCheck
<1>6. /\ j.at = "pins" /\ j.red = check.red \cup found /\ j.seen = check.seen /\ j.hosted = check.hosted
      /\ j.repinned = check.repinned /\ j.untouched = check.untouched /\ j.rolledBack = check.rolledBack
      /\ j.sums = check.sums /\ j.named = check.named
  BY <1>1, <1>3 DEF CheckRecord
<1>7. Converged => found = {}
  <2>1. \A n \in LiveChecks : EvidenceOf(n) \subseteq Keepable
    BY DEF LiveChecks, EvidenceOf, Keepable
  <2> QED BY <1>2, <2>1, ConvergedFacts
<1>8. AcceptedIsDeployed(j)
  BY <1>1, <1>6 DEF AcceptedIsDeployed
<1> QED BY <1>1, <1>4, <1>5, <1>6, <1>7, <1>8, ReadsMore

LEMMA ReadPinsStep ==
  ASSUME TruthIInv, ReadPins
  PROVE  TruthIInv'
<1>1. /\ check \in CheckRecord /\ check.at = "pins" /\ AcceptedIsDeployed(check)
      /\ UNCHANGED <<world, releaseEdits>>
  BY CheckFacts DEF ReadPins
<1>2. PICK ok : ok = (\A m \in Canonical : PinOk(m))
  OBVIOUS
<1>3. PICK found : found = FailedUnless(ok, "registry_pins")
  OBVIOUS
<1>4. PICK seen : seen = Saw([m \in Canonical |-> {pins[m]} \cup KnownCommit(refs[m])])
  OBVIOUS
<1>5. PICK j : j = [check EXCEPT !.at = "installers", !.red = check.red \cup found, !.seen = seen]
  OBVIOUS
<1>6. check' = j
  BY <1>2, <1>3, <1>4, <1>5 DEF ReadPins
<1>7. found \subseteq GateCheck /\ (found = {} <=> ok)
  BY <1>3, FailedMeans DEF GateCheck, SourceTruth
<1>8. \A m \in Canonical : pins[m] \in Commit /\ refs[m] \in Commit \cup {NoCommit}
  BY DEF TruthIInv, WorldTyped, TruthTypeOK
<1>9. \A m \in Canonical : seen[m] = check.seen[m] \cup ({pins[m]} \cup KnownCommit(refs[m]))
  BY <1>4 DEF Saw
<1>10. seen \in [Canonical -> SUBSET (Commit \cup {NoCommit})]
  <2>1. seen = [m \in Canonical |-> seen[m]]
    BY <1>4 DEF Saw
  <2>2. \A m \in Canonical : check.seen[m] \in SUBSET (Commit \cup {NoCommit})
    BY <1>1 DEF CheckRecord
  <2>3. ASSUME NEW m \in Canonical PROVE seen[m] \in SUBSET (Commit \cup {NoCommit})
    <3>1. {pins[m]} \subseteq Commit
      BY <1>8
    <3>2. KnownCommit(refs[m]) \subseteq Commit
      BY <1>8 DEF KnownCommit
    <3>3. check.seen[m] \subseteq Commit \cup {NoCommit}
      BY <2>2
    <3> QED BY <1>9, <3>1, <3>2, <3>3
  <2> QED BY <2>1, <2>3
<1>11. j \in CheckRecord
  BY <1>1, <1>5, <1>7, <1>10 DEF CheckRecord
<1>12. /\ j.at = "installers" /\ j.red = check.red \cup found /\ j.seen = seen /\ j.hosted = check.hosted
       /\ j.repinned = check.repinned /\ j.untouched = check.untouched /\ j.rolledBack = check.rolledBack
       /\ j.sums = check.sums /\ j.named = check.named
  BY <1>1, <1>5 DEF CheckRecord
<1>13. ok => \A m \in Canonical : seen[m] = check.seen[m] \cup {pins[m]}
  <2> SUFFICES ASSUME ok, NEW m \in Canonical PROVE seen[m] = check.seen[m] \cup {pins[m]}
    OBVIOUS
  <2>1. refs[m] = NoCommit \/ refs[m] = pins[m]
    BY <1>2 DEF PinOk
  <2>2. KnownCommit(refs[m]) \subseteq {pins[m]}
    BY <2>1 DEF KnownCommit
  <2> QED BY <1>9, <2>2
<1>14. Converged => ok
  <2>1. ASSUME Converged, NEW m \in Canonical PROVE PinOk(m)
    <3>1. pins[m] = R30 /\ attested[m] = R30 /\ rows[m] = R30
      BY <2>1, ConvergedFacts
    <3>2. refs[m] = R30 \/ (refs[m] = NoCommit /\ m \in PrivateSource)
      BY <2>1, ConvergedFacts
    <3>3. R30 # NoCommit
      BY ReleaseTruthAssumption DEF R30
    <3>4. CASE refs[m] = R30
      BY <3>1, <3>3, <3>4 DEF PinOk
    <3>5. CASE refs[m] = NoCommit /\ m \in PrivateSource
      BY <3>1, <3>5 DEF PinOk
    <3> QED BY <3>2, <3>4, <3>5
  <2> QED BY <1>2, <2>1
<1>15. AcceptedIsDeployed(j)
  BY <1>1, <1>12 DEF AcceptedIsDeployed
<1> QED BY <1>1, <1>6, <1>7, <1>11, <1>12, <1>13, <1>14, <1>15, ReadsMore

LEMMA ReadInstallersStep ==
  ASSUME TruthIInv, ReadInstallers
  PROVE  TruthIInv'
<1>1. /\ check \in CheckRecord /\ check.at = "installers" /\ AcceptedIsDeployed(check)
      /\ UNCHANGED <<world, releaseEdits>>
  BY CheckFacts DEF ReadInstallers
<1>2. PICK found : found = FailedUnless(InstallersOk, "local_installers")
  OBVIOUS
<1>3. PICK next \in {"checksums", "merged"} : next = IF check.hosted THEN "checksums" ELSE "merged"
  OBVIOUS
<1>4. PICK j : j = [check EXCEPT !.at = next, !.red = check.red \cup found]
  OBVIOUS
<1>5. check' = j
  BY <1>2, <1>3, <1>4 DEF ReadInstallers
<1>6. found \subseteq GateCheck /\ (found = {} <=> InstallersOk)
  BY <1>2, FailedMeans DEF GateCheck
<1>7. j \in CheckRecord
  BY <1>1, <1>4, <1>6 DEF CheckRecord
<1>8. /\ j.at = next /\ j.red = check.red \cup found /\ j.seen = check.seen /\ j.hosted = check.hosted
      /\ j.repinned = check.repinned /\ j.untouched = check.untouched /\ j.rolledBack = check.rolledBack
      /\ j.sums = check.sums /\ j.named = check.named
  BY <1>1, <1>4 DEF CheckRecord
<1>9. Converged => InstallersOk
  BY ConvergedFacts DEF InstallersOk
<1>10. AcceptedIsDeployed(j)
  BY <1>1, <1>3, <1>8 DEF AcceptedIsDeployed
<1> QED BY <1>1, <1>5, <1>6, <1>7, <1>8, <1>9, <1>10, ReadsMore

LEMMA FetchChecksumsStep ==
  ASSUME TruthIInv, FetchChecksums
  PROVE  TruthIInv'
<1>1. /\ check \in CheckRecord /\ check.at = "checksums" /\ AcceptedIsDeployed(check)
      /\ UNCHANGED <<world, releaseEdits>>
  BY CheckFacts DEF FetchChecksums
<1>2. PICK sums \in Fetched("checksums") :
        check' = [check EXCEPT !.at = "manifest", !.committed = installer.manifest, !.sums = sums]
  BY DEF FetchChecksums
<1>3. PICK committed : committed = installer.manifest
  OBVIOUS
<1>4. PICK j : j = [check EXCEPT !.at = "manifest", !.committed = committed, !.sums = sums]
  OBVIOUS
<1>5. check' = j
  BY <1>2, <1>3, <1>4
<1>6. committed \in Release /\ sums \in Release \cup {NoFile}
  BY <1>2, <1>3 DEF TruthIInv, WorldTyped, TruthTypeOK, Release, SiteFile, Fetched
<1>7. j \in CheckRecord
  BY <1>1, <1>4, <1>6 DEF CheckRecord
<1>8. /\ j.at = "manifest" /\ j.red = check.red /\ j.seen = check.seen /\ j.hosted = check.hosted
      /\ j.repinned = check.repinned /\ j.untouched = check.untouched /\ j.rolledBack = check.rolledBack
      /\ j.sums = sums /\ j.named = check.named
  BY <1>1, <1>4 DEF CheckRecord
<1>9. sums = "r30" => site["checksums"] = "r30"
  BY <1>2 DEF Fetched, NoFile
<1>10. AcceptedIsDeployed(j)
  BY <1>1, <1>8, <1>9 DEF AcceptedIsDeployed
<1> QED BY <1>1, <1>5, <1>7, <1>8, <1>10, ReadsMore

LEMMA FetchManifestStep ==
  ASSUME TruthIInv, FetchManifest
  PROVE  TruthIInv'
<1>1. /\ check \in CheckRecord /\ check.at = "manifest" /\ AcceptedIsDeployed(check)
      /\ UNCHANGED <<world, releaseEdits>>
  BY CheckFacts DEF FetchManifest
<1>2. PICK named \in Fetched("manifest") :
        check' = [check EXCEPT !.at = "scripts", !.named = named,
                               !.expected = IF named = "checkout" THEN named ELSE check.committed]
  BY DEF FetchManifest
<1>3. PICK expected : expected = IF named = "checkout" THEN named ELSE check.committed
  OBVIOUS
<1>4. PICK j : j = [check EXCEPT !.at = "scripts", !.named = named, !.expected = expected]
  OBVIOUS
<1>5. check' = j
  BY <1>2, <1>3, <1>4
<1>6. named \in Release \cup {NoFile} /\ expected \in Release \cup {NoFile}
  BY <1>1, <1>2, <1>3 DEF TruthIInv, WorldTyped, TruthTypeOK, Release, SiteFile, Fetched, CheckRecord
<1>7. j \in CheckRecord
  BY <1>1, <1>4, <1>6 DEF CheckRecord
<1>8. /\ j.at = "scripts" /\ j.red = check.red /\ j.seen = check.seen /\ j.hosted = check.hosted
      /\ j.repinned = check.repinned /\ j.untouched = check.untouched /\ j.rolledBack = check.rolledBack
      /\ j.sums = check.sums /\ j.named = named
  BY <1>1, <1>4 DEF CheckRecord
<1>9. named = "r30" => site["manifest"] = "r30"
  BY <1>2 DEF Fetched, NoFile
<1>10. AcceptedIsDeployed(j)
  BY <1>1, <1>8, <1>9 DEF AcceptedIsDeployed
<1> QED BY <1>1, <1>5, <1>7, <1>8, <1>10, ReadsMore

LEMMA FetchScriptsStep ==
  ASSUME TruthIInv, FetchScripts
  PROVE  TruthIInv'
<1>1. /\ check \in CheckRecord /\ check.at = "scripts" /\ AcceptedIsDeployed(check)
      /\ UNCHANGED <<world, releaseEdits>>
  BY CheckFacts DEF FetchScripts
<1>2. PICK scripts \in Fetched("scripts") :
        check' = [check EXCEPT !.at = "commands",
          !.red = @ \cup FailedUnless(InstallersOk /\ OfThisRelease(scripts) /\ check.named = check.expected,
                                      "hosted_installers")]
  BY DEF FetchScripts
<1>3. PICK ok : ok = (InstallersOk /\ OfThisRelease(scripts) /\ check.named = check.expected)
  OBVIOUS
<1>4. PICK found : found = FailedUnless(ok, "hosted_installers")
  OBVIOUS
<1>5. PICK j : j = [check EXCEPT !.at = "commands", !.red = check.red \cup found]
  OBVIOUS
<1>6. check' = j
  BY <1>2, <1>3, <1>4, <1>5
<1>7. found \subseteq GateCheck /\ (found = {} <=> ok)
  BY <1>4, FailedMeans DEF GateCheck
<1>8. j \in CheckRecord
  BY <1>1, <1>5, <1>7 DEF CheckRecord
<1>9. /\ j.at = "commands" /\ j.red = check.red \cup found /\ j.seen = check.seen /\ j.hosted = check.hosted
      /\ j.repinned = check.repinned /\ j.untouched = check.untouched /\ j.rolledBack = check.rolledBack
      /\ j.sums = check.sums /\ j.named = check.named
  BY <1>1, <1>5 DEF CheckRecord
<1>10. ok /\ check.named = "r30" => check.sums = "r30" /\ site["scripts"] = "r30"
  BY <1>2, <1>3 DEF OfThisRelease, Fetched, NoFile
<1>11. AcceptedIsDeployed(j)
  BY <1>1, <1>7, <1>9, <1>10 DEF AcceptedIsDeployed
<1>12. check.untouched /\ ~check.hosted /\ Converged /\ check.red = {} => j.red = {}
  BY <1>1 DEF AcceptedIsDeployed
<1> QED BY <1>1, <1>6, <1>8, <1>9, <1>11, <1>12, ReadsMore

LEMMA FetchCommandsStep ==
  ASSUME TruthIInv, FetchCommands
  PROVE  TruthIInv'
<1>1. /\ check \in CheckRecord /\ check.at = "commands" /\ AcceptedIsDeployed(check)
      /\ UNCHANGED <<world, releaseEdits>>
  BY CheckFacts DEF FetchCommands
<1>2. PICK commands \in Fetched("commands") :
        check' = [check EXCEPT !.at = "merged",
                               !.red = @ \cup FailedUnless(CommandsOk(commands), "hosted_installers")]
  BY DEF FetchCommands
<1>3. PICK found : found = FailedUnless(CommandsOk(commands), "hosted_installers")
  OBVIOUS
<1>4. PICK j : j = [check EXCEPT !.at = "merged", !.red = check.red \cup found]
  OBVIOUS
<1>5. check' = j
  BY <1>2, <1>3, <1>4
<1>6. found \subseteq GateCheck /\ (found = {} <=> CommandsOk(commands))
  BY <1>3, FailedMeans DEF GateCheck
<1>7. j \in CheckRecord
  BY <1>1, <1>4, <1>6 DEF CheckRecord
<1>8. /\ j.at = "merged" /\ j.red = check.red \cup found /\ j.seen = check.seen /\ j.hosted = check.hosted
      /\ j.repinned = check.repinned /\ j.untouched = check.untouched /\ j.rolledBack = check.rolledBack
      /\ j.sums = check.sums /\ j.named = check.named
  BY <1>1, <1>4 DEF CheckRecord
<1>9. CommandsOk(commands) /\ check.named = "r30" => site["commands"] = "r30"
  BY <1>2 DEF CommandsOk, Fetched, NoFile
<1>10. AcceptedIsDeployed(j)
  BY <1>1, <1>6, <1>8, <1>9 DEF AcceptedIsDeployed
<1>11. check.untouched /\ ~check.hosted /\ Converged /\ check.red = {} => j.red = {}
  BY <1>1 DEF AcceptedIsDeployed
<1> QED BY <1>1, <1>5, <1>7, <1>8, <1>10, <1>11, ReadsMore

LEMMA ReadMergedTruthStep ==
  ASSUME TruthIInv, ReadMergedTruth
  PROVE  TruthIInv'
<1>1. /\ check \in CheckRecord /\ check.at = "merged" /\ AcceptedIsDeployed(check)
      /\ UNCHANGED <<world, releaseEdits>>
  BY CheckFacts DEF ReadMergedTruth
<1>2. PICK merged : merged = MergedTruthOk
  OBVIOUS
<1>3. PICK ready : ready = (merged /\ check.red \cap SourceTruth = {})
  OBVIOUS
<1>4. PICK pinned : pinned = (installer.scripts = "r30")
  OBVIOUS
<1>5. PICK site_ : site_ = (IF check.hosted
                            THEN FailedUnless(HostedReady(ready /\ pinned), "r30_hosted_publication_contract")
                            ELSE {})
  OBVIOUS
<1>6. PICK found : found = FailedUnless(merged, "r30_merged_source_truth")
                    \cup Historical(merged)
                    \cup FailedUnless(ready = pinned, "publication_order")
                    \cup FailedUnless(pinned, "r30_installer_pins")
                    \cup site_
  OBVIOUS
<1>7. PICK seen : seen = Saw([m \in Canonical |-> {pins[m], attested[m], rows[m]}])
  OBVIOUS
<1>8. PICK j : j = [check EXCEPT !.at = "docs", !.red = check.red \cup found, !.seen = seen]
  OBVIOUS
<1>9. check' = j
  <2>1. check.red \cup found = check.red \cup FailedUnless(merged, "r30_merged_source_truth")
                    \cup Historical(merged)
                    \cup FailedUnless(ready = pinned, "publication_order")
                    \cup FailedUnless(pinned, "r30_installer_pins")
                    \cup site_
    BY <1>6
  <2> QED BY <1>2, <1>3, <1>4, <1>5, <1>7, <1>8, <2>1 DEF ReadMergedTruth
<1>10. /\ Historical(merged) \subseteq GateCheck /\ (merged => Historical(merged) = {})
  BY <1>1 DEF Historical, GateCheck, CheckRecord
<1>11. /\ site_ \subseteq GateCheck /\ (~check.hosted => site_ = {})
       /\ check.hosted /\ site_ = {} => HostedReady(ready /\ pinned)
  BY <1>5, FailedMeans DEF GateCheck
<1>12. /\ FailedUnless(merged, "r30_merged_source_truth") \subseteq GateCheck
       /\ FailedUnless(ready = pinned, "publication_order") \subseteq GateCheck
       /\ FailedUnless(pinned, "r30_installer_pins") \subseteq GateCheck
  BY FailedMeans DEF GateCheck
<1>13. found \subseteq GateCheck
  BY <1>6, <1>10, <1>11, <1>12
<1>14. found = {} => merged /\ (check.hosted => HostedReady(ready /\ pinned))
  BY <1>6, <1>11, FailedMeans
<1>15. merged /\ ready /\ pinned /\ ~check.hosted => found = {}
  <2> SUFFICES ASSUME merged, ready, pinned, ~check.hosted PROVE found = {}
    OBVIOUS
  <2>1. ready = pinned
    BY <1>3, <1>4
  <2>2. /\ FailedUnless(merged, "r30_merged_source_truth") = {}
        /\ FailedUnless(ready = pinned, "publication_order") = {}
        /\ FailedUnless(pinned, "r30_installer_pins") = {}
    BY <2>1, FailedMeans
  <2> QED BY <1>6, <1>10, <1>11, <2>2
<1>16. \A m \in Canonical : pins[m] \in Commit /\ attested[m] \in Commit /\ rows[m] \in Commit \cup {NoCommit}
  BY DEF TruthIInv, WorldTyped, TruthTypeOK
<1>17. \A m \in Canonical : seen[m] = check.seen[m] \cup {pins[m], attested[m], rows[m]}
  BY <1>7 DEF Saw
<1>18. seen \in [Canonical -> SUBSET (Commit \cup {NoCommit})]
  <2>1. seen = [m \in Canonical |-> seen[m]]
    BY <1>7 DEF Saw
  <2>2. \A m \in Canonical : check.seen[m] \in SUBSET (Commit \cup {NoCommit})
    BY <1>1 DEF CheckRecord
  <2>3. ASSUME NEW m \in Canonical PROVE seen[m] \in SUBSET (Commit \cup {NoCommit})
    <3>1. {pins[m], attested[m], rows[m]} \subseteq Commit \cup {NoCommit}
      BY <1>16
    <3>2. check.seen[m] \subseteq Commit \cup {NoCommit}
      BY <2>2
    <3> QED BY <1>17, <3>1, <3>2
  <2> QED BY <2>1, <2>3
<1>19. j \in CheckRecord
  BY <1>1, <1>8, <1>13, <1>18 DEF CheckRecord
<1>20. /\ j.at = "docs" /\ j.red = check.red \cup found /\ j.seen = seen /\ j.hosted = check.hosted
       /\ j.repinned = check.repinned /\ j.untouched = check.untouched /\ j.rolledBack = check.rolledBack
       /\ j.sums = check.sums /\ j.named = check.named
  BY <1>1, <1>8 DEF CheckRecord
<1>21. merged => \A m \in Canonical : seen[m] = check.seen[m] \cup {pins[m]}
  BY <1>2, <1>17 DEF MergedTruthOk, RowOk
<1>22. AcceptedIsDeployed(j)
  BY <1>1, <1>14, <1>20 DEF AcceptedIsDeployed, HostedReady
<1>23. Converged => merged /\ pinned
  BY <1>2, <1>4, ConvergedFacts DEF MergedTruthOk, RowOk
<1>24. check.untouched /\ ~check.hosted /\ Converged /\ check.red = {} => j.red = {}
  BY <1>3, <1>15, <1>20, <1>23
<1> QED BY <1>1, <1>9, <1>14, <1>19, <1>20, <1>21, <1>22, <1>24, ReadsMore

LEMMA ReadDocsStep ==
  ASSUME TruthIInv, ReadDocs
  PROVE  TruthIInv'
<1>1. /\ check \in CheckRecord /\ check.at = "docs" /\ AcceptedIsDeployed(check)
      /\ UNCHANGED <<world, releaseEdits>>
  BY CheckFacts DEF ReadDocs
<1>2. PICK found : found = FailedUnless("docs" \in kept, "r30_docs")
  OBVIOUS
<1>3. PICK j : j = [check EXCEPT !.at = "done", !.red = check.red \cup found]
  OBVIOUS
<1>4. check' = j
  BY <1>2, <1>3 DEF ReadDocs
<1>5. found \subseteq GateCheck /\ (found = {} <=> "docs" \in kept)
  BY <1>2 DEF FailedUnless, GateCheck
<1>6. j \in CheckRecord
  BY <1>1, <1>3, <1>5 DEF CheckRecord
<1>7. /\ j.at = "done" /\ j.red = check.red \cup found /\ j.seen = check.seen /\ j.hosted = check.hosted
      /\ j.repinned = check.repinned /\ j.untouched = check.untouched /\ j.rolledBack = check.rolledBack
      /\ j.sums = check.sums /\ j.named = check.named
  BY <1>1, <1>3 DEF CheckRecord
<1>8. Converged => "docs" \in kept
  BY ConvergedFacts DEF Keepable
<1>9. AcceptedIsDeployed(j)
  BY <1>1, <1>7 DEF AcceptedIsDeployed
<1> QED BY <1>1, <1>4, <1>5, <1>6, <1>7, <1>8, <1>9, ReadsMore

-----------------------------------------------------------------------------
(* What happens meanwhile.                                                 *)

LEMMA HappensStep ==
  ASSUME TruthIInv, NEW repinned \in BOOLEAN, NEW rolledBack \in BOOLEAN, Happens(repinned, rolledBack),
         releaseEdits' \in 0..MaxReleaseEdits => WorldTyped',
         repinned \/ pins' = pins,
         rolledBack \/ \A f \in SiteFile : site[f] = "r30" => site'[f] = "r30"
  PROVE  TruthIInv'
<1>1. releaseEdits' \in 0..MaxReleaseEdits
  BY ReleaseTruthAssumption DEF Happens, TruthIInv, WorldTyped, TruthTypeOK
<1>2. CASE check.at \in {"none", "done"}
  <2>1. check' = NoCheck
    BY <1>2 DEF Happens
  <2> QED BY <1>1, <2>1 DEF TruthIInv
<1>3. CASE check.at \notin {"none", "done"}
  <2>1. /\ check \in CheckRecord /\ SeenArePins(check) /\ AcceptedIsDeployed(check)
    BY <1>3, CheckFacts
  <2>2. check' = [check EXCEPT !.untouched = FALSE, !.repinned = @ \/ repinned, !.rolledBack = @ \/ rolledBack]
    BY <1>3 DEF Happens
  <2>3. PICK moved \in BOOLEAN : moved = (check.repinned \/ repinned)
    OBVIOUS
  <2>4. PICK back \in BOOLEAN : back = (check.rolledBack \/ rolledBack)
    OBVIOUS
  <2>a. PICK a : a = [check EXCEPT !.untouched = FALSE]
    OBVIOUS
  <2>b. PICK b : b = [a EXCEPT !.repinned = moved]
    OBVIOUS
  <2>5. PICK j : j = [b EXCEPT !.rolledBack = back]
    OBVIOUS
  <2>6. check' = j
    BY <2>2, <2>3, <2>4, <2>5, <2>a, <2>b, <2>1 DEF CheckRecord
  <2>c. /\ a \in CheckRecord /\ a.untouched = FALSE /\ a.repinned = check.repinned
        /\ a.rolledBack = check.rolledBack /\ a.at = check.at /\ a.red = check.red /\ a.seen = check.seen
        /\ a.hosted = check.hosted /\ a.sums = check.sums /\ a.named = check.named
    BY <2>1, <2>a DEF CheckRecord
  <2>d. /\ b \in CheckRecord /\ b.untouched = FALSE /\ b.repinned = moved
        /\ b.rolledBack = check.rolledBack /\ b.at = check.at /\ b.red = check.red /\ b.seen = check.seen
        /\ b.hosted = check.hosted /\ b.sums = check.sums /\ b.named = check.named
    BY <2>b, <2>c DEF CheckRecord
  <2>7. j \in CheckRecord
    BY <2>5, <2>d DEF CheckRecord
  <2>8. /\ j.at = check.at /\ j.red = check.red /\ j.seen = check.seen /\ j.hosted = check.hosted
        /\ j.sums = check.sums /\ j.named = check.named
        /\ (j.repinned <=> moved) /\ ~j.untouched /\ (j.rolledBack <=> back)
    <3>1. /\ j.at = check.at /\ j.red = check.red /\ j.seen = check.seen /\ j.hosted = check.hosted
          /\ j.sums = check.sums /\ j.named = check.named
      BY <2>5, <2>c, <2>d DEF CheckRecord
    <3>2. j.repinned = moved
      BY <2>5, <2>d DEF CheckRecord
    <3>3. j.untouched = FALSE
      BY <2>5, <2>d DEF CheckRecord
    <3>4. j.rolledBack = back
      BY <2>5, <2>d DEF CheckRecord
    <3> QED BY <3>1, <3>2, <3>3, <3>4
  <2>9. SeenArePins(check)'
    BY <2>1, <2>3, <2>6, <2>8 DEF SeenArePins, Everywhere
  <2>10. AcceptedIsDeployed(check)'
    BY <2>1, <2>4, <2>6, <2>8 DEF AcceptedIsDeployed, SiteFile
  <2>11. NothingFailsConverged(check)'
    BY <2>6, <2>8 DEF NothingFailsConverged
  <2> QED BY <1>1, <2>6, <2>7, <2>9, <2>10, <2>11 DEF TruthIInv
<1> QED BY <1>2, <1>3

LEMMA ModulesMoveStep ==
  ASSUME TruthIInv, ModulesMove
  PROVE  TruthIInv'
<1>1. UNCHANGED <<pins, attested, rows, refs, traces, packet, kept, installer, site>> /\ Happens(FALSE, FALSE)
  BY DEF ModulesMove
<1>2. PICK m \in Canonical :
       \/ /\ heads' = [heads EXCEPT ![m] = Clean(pins[m])]
          /\ records' = [records EXCEPT ![m] = pins[m]]
          /\ UNCHANGED classified
       \/ /\ \E h \in [at : Commit \cup {NoCommit}, dirty : BOOLEAN] \ {heads[m]} :
               heads' = [heads EXCEPT ![m] = h]
          /\ UNCHANGED <<records, classified>>
       \/ /\ m \in RuntimeModule
          /\ classified' = IF m \in classified THEN classified \ {m} ELSE classified \cup {m}
          /\ UNCHANGED <<heads, records>>
  BY DEF ModulesMove
<1>3. WorldTyped
  BY DEF TruthIInv
<1>4. Clean(pins[m]) \in [at : Commit \cup {NoCommit}, dirty : BOOLEAN]
  BY <1>3 DEF Clean, WorldTyped, TruthTypeOK
<1>5. heads' \in [Canonical -> [at : Commit \cup {NoCommit}, dirty : BOOLEAN]]
  BY <1>2, <1>3, <1>4 DEF WorldTyped, TruthTypeOK
<1>6. records' \in [Canonical -> Commit] /\ classified' \subseteq RuntimeModule
  BY <1>2, <1>3 DEF WorldTyped, TruthTypeOK
<1>7. releaseEdits' \in 0..MaxReleaseEdits => WorldTyped'
  BY <1>1, <1>3, <1>5, <1>6 DEF WorldTyped, TruthTypeOK
<1> QED BY <1>1, <1>7, HappensStep

LEMMA RegistryMovesStep ==
  ASSUME TruthIInv, RegistryMoves
  PROVE  TruthIInv'
<1>1. UNCHANGED <<heads, records, classified, refs, traces, packet, kept, site>> /\ Happens(pins' # pins, FALSE)
  BY DEF RegistryMoves
<1>2. WorldTyped
  BY DEF TruthIInv
<1>3. CASE /\ pins' = Everywhere(R30) /\ attested' = pins' /\ rows' = pins'
           /\ installer' = [scripts |-> "r30", manifest |-> "r30"]
  <2>1. pins' \in [Canonical -> Commit]
    BY <1>3 DEF Everywhere, Commit
  <2>2. rows' \in [Canonical -> Commit \cup {NoCommit}]
    BY <1>3, <2>1
  <2>3. releaseEdits' \in 0..MaxReleaseEdits => WorldTyped'
    BY <1>1, <1>2, <1>3, <2>1, <2>2 DEF WorldTyped, TruthTypeOK
  <2> QED BY <1>1, <2>3, HappensStep
<1>4. CASE /\ \E m \in Canonical :
                \/ /\ \E c \in Commit : pins' = [pins EXCEPT ![m] = c] /\ UNCHANGED <<attested, rows>>
                \/ /\ \E c \in Commit : attested' = [attested EXCEPT ![m] = c] /\ UNCHANGED <<pins, rows>>
                \/ /\ \E c \in Commit \cup {NoCommit} : rows' = [rows EXCEPT ![m] = c]
                   /\ UNCHANGED <<pins, attested>>
           /\ UNCHANGED installer
  <2>1. pins' \in [Canonical -> Commit]
    BY <1>2, <1>4 DEF WorldTyped, TruthTypeOK
  <2>2. attested' \in [Canonical -> Commit] /\ rows' \in [Canonical -> Commit \cup {NoCommit}]
    <3>1. attested' \in [Canonical -> Commit]
      BY <1>2, <1>4 DEF WorldTyped, TruthTypeOK
    <3>2. rows' \in [Canonical -> Commit \cup {NoCommit}]
      BY <1>2, <1>4 DEF WorldTyped, TruthTypeOK
    <3> QED BY <3>1, <3>2
  <2>3. releaseEdits' \in 0..MaxReleaseEdits => WorldTyped'
    BY <1>1, <1>2, <1>4, <2>1, <2>2 DEF WorldTyped, TruthTypeOK
  <2> QED BY <1>1, <2>3, HappensStep
<1> QED BY <1>3, <1>4 DEF RegistryMoves

LEMMA RemotesMoveStep ==
  ASSUME TruthIInv, RemotesMove
  PROVE  TruthIInv'
<1>1. UNCHANGED <<pins, attested, rows, heads, records, classified, traces, packet, kept, installer, site>>
  BY DEF RemotesMove
<1>2. refs' \in [Canonical -> Commit \cup {NoCommit}]
  BY DEF RemotesMove, TruthIInv, WorldTyped, TruthTypeOK
<1>3. releaseEdits' \in 0..MaxReleaseEdits => WorldTyped'
  BY <1>1, <1>2 DEF TruthIInv, WorldTyped, TruthTypeOK
<1> QED BY <1>1, <1>3, HappensStep DEF RemotesMove

LEMMA EvidenceMovesStep ==
  ASSUME TruthIInv, EvidenceMoves
  PROVE  TruthIInv'
<1>1. UNCHANGED <<pins, attested, rows, heads, records, classified, refs, installer, site>>
  BY DEF EvidenceMoves
<1>2. traces' \in TraceState /\ kept' \subseteq Keepable
  BY DEF EvidenceMoves, TruthIInv, WorldTyped, TruthTypeOK, TraceState
<1>3. releaseEdits' \in 0..MaxReleaseEdits => WorldTyped'
  BY <1>1, <1>2 DEF TruthIInv, WorldTyped, TruthTypeOK
<1> QED BY <1>1, <1>3, HappensStep DEF EvidenceMoves

LEMMA InstallersMoveStep ==
  ASSUME TruthIInv, InstallersMove
  PROVE  TruthIInv'
<1>1. UNCHANGED <<pins, attested, rows, heads, records, classified, refs, traces, packet, kept, site>>
  BY DEF InstallersMove
<1>2. installer' \in [scripts : {"before", "r30"}, manifest : {"before", "r30"}]
  BY DEF InstallersMove, TruthIInv, WorldTyped
<1>3. releaseEdits' \in 0..MaxReleaseEdits => WorldTyped'
  BY <1>1, <1>2 DEF TruthIInv, WorldTyped, TruthTypeOK
<1> QED BY <1>1, <1>3, HappensStep DEF InstallersMove

LEMMA SiteMovesStep ==
  ASSUME TruthIInv, SiteMoves
  PROVE  TruthIInv'
<1>1. UNCHANGED <<pins, attested, rows, heads, records, classified, refs, traces, packet, kept, installer>>
  BY DEF SiteMoves
<1>2. PICK f \in SiteFile, r \in Release : site' = [site EXCEPT ![f] = r] /\ Happens(FALSE, site[f] = "r30")
  BY DEF SiteMoves
<1>3. site' \in [SiteFile -> Release]
  BY <1>2 DEF TruthIInv, WorldTyped, TruthTypeOK
<1>4. releaseEdits' \in 0..MaxReleaseEdits => WorldTyped'
  BY <1>1, <1>3 DEF TruthIInv, WorldTyped, TruthTypeOK
<1>5. site[f] = "r30" \/ \A g \in SiteFile : site[g] = "r30" => site'[g] = "r30"
  BY <1>2 DEF TruthIInv, WorldTyped, TruthTypeOK
<1>6. PICK taken \in BOOLEAN : taken = (site[f] = "r30")
  OBVIOUS
<1>7. taken \/ \A g \in SiteFile : site[g] = "r30" => site'[g] = "r30"
  BY <1>5, <1>6
<1> QED BY <1>1, <1>2, <1>4, <1>6, <1>7, HappensStep

LEMMA TruthNextInv == TruthIInv /\ [TruthNext]_truth_vars => TruthIInv'
<1> SUFFICES ASSUME TruthIInv, [TruthNext]_truth_vars PROVE TruthIInv'
  OBVIOUS
<1>1. CASE TruthNext
  BY <1>1, StartCheckStep, ReadLaneStep, ReadHandoffsStep, ReadLiveStep, ReadPinsStep, ReadInstallersStep,
     FetchChecksumsStep, FetchManifestStep, FetchScriptsStep, FetchCommandsStep, ReadMergedTruthStep,
     ReadDocsStep, ModulesMoveStep, RegistryMovesStep, RemotesMoveStep, EvidenceMovesStep,
     InstallersMoveStep, SiteMovesStep DEF TruthNext, CheckStep
<1>2. CASE UNCHANGED truth_vars
  <2>1. UNCHANGED <<world, releaseEdits>> /\ check' = check
    BY <1>2 DEF truth_vars, world
  <2>2. CASE check = NoCheck
    BY <2>1, <2>2 DEF world, TruthIInv, WorldTyped, TruthTypeOK
  <2>3. CASE check # NoCheck
    <3>1. PICK j : j = check
      OBVIOUS
    <3>2. /\ j \in CheckRecord /\ check' = j
          /\ SeenArePins(j) /\ AcceptedIsDeployed(j) /\ NothingFailsConverged(j)
      BY <2>1, <2>3, <3>1 DEF TruthIInv
    <3> QED BY <2>1, <3>2, CheckGoesOn
  <2> QED BY <2>2, <2>3
<1> QED BY <1>1, <1>2

(* The inductive invariant holds in every reachable state. *)
LEMMA TruthInductive == TruthSpec => []TruthIInv
BY TruthInitInv, TruthNextInv, PTL DEF TruthSpec

(* A green verdict of `spark verify --r30` is true of what it names, one   *)
(* source for every module and a site deployed whole, and a converged      *)
(* world is green: for any modules and any number of changes meanwhile.    *)
THEOREM GreenIsTrueOfTheWorld == TruthSpec => []VerdictIsTrue
<1>1. TruthIInv => VerdictIsTrue
  <2> SUFFICES ASSUME TruthIInv PROVE VerdictIsTrue
    OBVIOUS
  <2>1. CASE check.at # "done"
    BY <2>1 DEF VerdictIsTrue, GreenIsTrue, GreenMeansOneSource, GreenMeansDeployed, ConvergedIsGreen, Green
  <2>2. CASE check.at = "done"
    <3>1. SeenArePins(check) /\ AcceptedIsDeployed(check) /\ NothingFailsConverged(check)
      BY <2>2, CheckFacts
    <3>2. \A m \in Canonical : pins[m] \in Commit
      BY DEF TruthIInv, WorldTyped, TruthTypeOK
    <3>3. GreenMeansOneSource
      BY <2>2, <3>1, <3>2 DEF GreenMeansOneSource, Green, SeenArePins
    <3>4. GreenMeansDeployed
      BY <2>2, <3>1 DEF GreenMeansDeployed, Green, AcceptedIsDeployed, SiteFile
    <3>5. ConvergedIsGreen
      BY <2>2, <3>1 DEF ConvergedIsGreen, NothingFailsConverged
    <3> QED BY <3>3, <3>4, <3>5 DEF VerdictIsTrue, GreenIsTrue
  <2> QED BY <2>1, <2>2
<1> QED BY <1>1, TruthInductive, PTL

-----------------------------------------------------------------------------
(* The trace part of the system map.  The report is read one statement     *)
(* after the other; what was read of a family stays so while nothing of it *)
(* is recorded, whatever is recorded of the others.                        *)

(* A nonempty set of rows has a newest one: the least of its bounds, which *)
(* exists because < is well founded on the naturals.                       *)
LEMMA NewestIsThere ==
  ASSUME NEW n \in Nat, NEW S, S \subseteq 1..n, S # {}
  PROVE  Max(S) \in S /\ \A y \in S : Max(S) >= y
<1> DEFINE bound == {b \in Nat : \A y \in S : b >= y}
<1>1. PICK least \in bound : \A b \in bound : ~(<<b, least>> \in OpToRel(<, Nat))
  <2>1. n \in bound
    OBVIOUS
  <2> QED BY <2>1, NatLessThanWellFounded, WFMin
<1>2. \A b \in bound : b >= least
  <2> SUFFICES ASSUME NEW b \in bound, b < least PROVE FALSE
    OBVIOUS
  <2>1. <<b, least>> \in {ss \in Nat \X Nat : ss[1] < ss[2]}
    OBVIOUS
  <2> QED BY <1>1, <2>1 DEF OpToRel
<1>3. least \in S
  <2> SUFFICES ASSUME least \notin S PROVE FALSE
    OBVIOUS
  <2>1. least - 1 \in bound
    <3>1. PICK y \in S : TRUE
      OBVIOUS
    <3>2. least >= y /\ y >= 1
      BY <3>1
    <3>3. \A z \in S : least > z
      BY <3>1
    <3> QED BY <3>2, <3>3
  <2> QED BY <2>1, <1>2
<1> QED BY <1>3 DEF Max

LEMMA EventFacts ==
  ASSUME builderEvents \in Seq(BuilderEvent)
  PROVE  /\ EventRow = 1..Len(builderEvents) /\ Len(builderEvents) \in Nat
         /\ \A i \in EventRow : /\ builderEvents[i].family \in Family /\ builderEvents[i].kind \in EventKind
                                /\ builderEvents[i].age \in EventAge
<1>1. EventRow = 1..Len(builderEvents) /\ Len(builderEvents) \in Nat
  BY DEF EventRow
<1>2. ASSUME NEW i \in EventRow
      PROVE  /\ builderEvents[i].family \in Family /\ builderEvents[i].kind \in EventKind
             /\ builderEvents[i].age \in EventAge
  <2>1. builderEvents[i] \in BuilderEvent
    BY <1>1
  <2> QED BY <2>1 DEF BuilderEvent
<1> QED BY <1>1, <1>2

LEMMA RecordFacts ==
  ASSUME TraceIInv, Record
  PROVE  /\ traceReport' = traceReport /\ traceReport.stage # "done"
         /\ builderEvents' \in Seq(BuilderEvent) /\ Len(builderEvents') = Len(builderEvents) + 1
         /\ builderEvents'[Len(builderEvents) + 1].age = "hour"
         /\ \A i \in EventRow : builderEvents'[i] = builderEvents[i]
<1>1. builderEvents \in Seq(BuilderEvent) /\ Len(builderEvents) \in Nat
  BY DEF TraceIInv
<1>2. PICK f \in Family, k \in EventKind, t \in TraceRef \cup {NoTrace}, p \in EventRow \cup {NoParent, LostParent} :
        builderEvents' = Append(builderEvents, [family |-> f, kind |-> k, trace |-> t, parent |-> p, age |-> "hour"])
  BY DEF Record
<1>3. p \in 0..LostParent
  BY <1>1, <1>2, EventFacts, TraceHealthAssumption DEF Record, NoParent, LostParent
<1>4. PICK e : e = [family |-> f, kind |-> k, trace |-> t, parent |-> p, age |-> "hour"]
  OBVIOUS
<1>5. e \in BuilderEvent /\ e.age = "hour"
  BY <1>3, <1>4 DEF BuilderEvent, EventAge
<1>6. builderEvents' = Append(builderEvents, e)
  BY <1>2, <1>4
<1> QED BY <1>1, <1>5, <1>6 DEF Record, EventRow

(* What is recorded of another family does not change what was read of one. *)
LEMMA FamilyStays ==
  ASSUME TraceIInv, Record, NEW f \in Family, Undisturbed(f)'
  PROVE  /\ Undisturbed(f) /\ OfFamily(f)' = OfFamily(f)
         /\ \A i \in OfFamily(f) : i \in EventRow /\ builderEvents'[i] = builderEvents[i] /\ i \in EventRow'
<1>1. /\ EventRow = 1..Len(builderEvents) /\ EventRow' = 1..(Len(builderEvents) + 1)
      /\ Len(builderEvents) \in Nat
  BY RecordFacts, EventFacts DEF TraceIInv, EventRow
<1>2. traceReport' = traceReport /\ traceReport.from \in 0..Len(builderEvents)
  BY RecordFacts DEF TraceIInv, ReportTyped
<1>3. OfFamily(f)' = {i \in EventRow' : builderEvents'[i].family = f}
  BY DEF OfFamily
<1>4. Len(builderEvents) + 1 \notin OfFamily(f)'
  BY <1>1, <1>2 DEF Undisturbed
<1>5. OfFamily(f)' = OfFamily(f)
  BY <1>1, <1>3, <1>4, RecordFacts DEF OfFamily
<1>6. Undisturbed(f)
  BY <1>2, <1>5 DEF Undisturbed
<1> QED BY <1>1, <1>5, <1>6, RecordFacts DEF OfFamily

SourceOf(b) == [bucket |-> b, count |-> Cardinality(InBucket(b) \cap Untraced), state |-> TemporalState(b)]

(* What was read of a family depends on the events of the family alone.    *)
LEMMA SourcesOfFamily ==
  ASSUME NEW f
  PROVE  SourcesOf(f, MissingSources) = {SourceOf(Bucket(i)) : i \in OfFamily(f) \cap Untraced}
<1>1. MissingSources = {SourceOf(Bucket(i)) : i \in Untraced}
  BY DEF MissingSources, SourceOf
<1>2. ASSUME NEW i \in Untraced
      PROVE  SourceOf(Bucket(i)).bucket[1] = f <=> i \in OfFamily(f)
  <2>1. SourceOf(Bucket(i)).bucket = Bucket(i)
    BY DEF SourceOf
  <2> QED BY <1>2, <2>1 DEF Bucket, OfFamily, Untraced
<1> QED BY <1>1, <1>2 DEF SourcesOf

RowOf(b) == [bucket |-> b, count |-> Cardinality(InBucket(b))]

LEMMA RowsOfFamily ==
  ASSUME NEW f
  PROVE  SourcesOf(f, HighRows) = {RowOf(Bucket(i)) : i \in OfFamily(f) \cap HighOpen}
<1>1. HighRows = {RowOf(Bucket(i)) : i \in HighOpen}
  BY DEF HighRows, RowOf
<1>2. ASSUME NEW i \in HighOpen
      PROVE  RowOf(Bucket(i)).bucket[1] = f <=> i \in OfFamily(f)
  <2>1. RowOf(Bucket(i)).bucket = Bucket(i)
    BY DEF RowOf
  <2> QED BY <1>2, <2>1 DEF Bucket, OfFamily, HighOpen
<1> QED BY <1>1, <1>2 DEF SourcesOf

LEMMA SameSource ==
  ASSUME TraceIInv, Record, NEW f \in Family, Undisturbed(f)', NEW i \in OfFamily(f)
  PROVE  /\ Bucket(i)' = Bucket(i) /\ SourceOf(Bucket(i))' = SourceOf(Bucket(i))
         /\ RowOf(Bucket(i))' = RowOf(Bucket(i)) /\ (i \in Untraced' <=> i \in Untraced)
<1>1. /\ OfFamily(f)' = OfFamily(f)
      /\ \A j \in OfFamily(f) : j \in EventRow /\ builderEvents'[j] = builderEvents[j] /\ j \in EventRow'
  BY FamilyStays
<1>2. Bucket(i)' = Bucket(i)
  BY <1>1 DEF Bucket
<1>3. \A j \in OfFamily(f) : /\ j \in Untraced' <=> j \in Untraced
                             /\ j \in Within("24h")' <=> j \in Within("24h")
  BY <1>1 DEF Untraced, Within
<1> DEFINE b == Bucket(i)
<1>4. InBucket(b) \subseteq OfFamily(f) /\ i \in InBucket(b)
  BY <1>1 DEF InBucket, Bucket, OfFamily
<1>5. InBucket(Bucket(i))' = InBucket(b)
  <2>1. InBucket(Bucket(i))' = {j \in EventRow' : <<builderEvents'[j].family, builderEvents'[j].kind>> = b}
    BY <1>2 DEF InBucket, Bucket
  <2>2. b[1] = f
    BY DEF Bucket, OfFamily
  <2>3. ASSUME NEW j \in EventRow', <<builderEvents'[j].family, builderEvents'[j].kind>> = b
        PROVE  j \in InBucket(b)
    <3>1. builderEvents'[j].family = f
      BY <2>2, <2>3
    <3>2. j \in OfFamily(f)
      BY <1>1, <3>1 DEF OfFamily
    <3> QED BY <1>1, <2>3, <3>2 DEF InBucket, Bucket
  <2>4. ASSUME NEW j \in InBucket(b)
        PROVE  j \in EventRow' /\ <<builderEvents'[j].family, builderEvents'[j].kind>> = b
    BY <1>1, <1>4 DEF InBucket, Bucket
  <2> QED BY <2>1, <2>3, <2>4
<1>6. Max(InBucket(b)) \in InBucket(b)
  <2>1. InBucket(b) \subseteq 1..Len(builderEvents) /\ Len(builderEvents) \in Nat
    BY EventFacts DEF InBucket, TraceIInv
  <2> QED BY <1>4, <2>1, NewestIsThere
<1>7. /\ (InBucket(Bucket(i)) \cap Untraced)' = InBucket(b) \cap Untraced
      /\ (InBucket(Bucket(i)) \cap Within("24h"))' = InBucket(b) \cap Within("24h")
      /\ (InBucket(Bucket(i)) \cap Within("24h") \cap Untraced)' = InBucket(b) \cap Within("24h") \cap Untraced
      /\ (Max(InBucket(Bucket(i))) \in Untraced)' <=> Max(InBucket(b)) \in Untraced
  BY <1>3, <1>4, <1>5, <1>6
<1>8. TemporalState(Bucket(i))' = TemporalState(b)
  BY <1>7 DEF TemporalState
<1>9. SourceOf(Bucket(i))' = SourceOf(b) /\ RowOf(Bucket(i))' = RowOf(b)
  BY <1>2, <1>5, <1>7, <1>8 DEF SourceOf, RowOf
<1> QED BY <1>1, <1>2, <1>3, <1>9

LEMMA RowsOfEach ==
  \A f : SourcesOf(f, HighRows) = {RowOf(Bucket(i)) : i \in OfFamily(f) \cap HighOpen}
BY RowsOfFamily

LEMMA RowsOfEachNext ==
  (\A f : SourcesOf(f, HighRows) = {RowOf(Bucket(i)) : i \in OfFamily(f) \cap HighOpen})'
BY RowsOfEach, PTL

LEMMA SourcesOfEach ==
  \A f : SourcesOf(f, MissingSources) = {SourceOf(Bucket(i)) : i \in OfFamily(f) \cap Untraced}
BY SourcesOfFamily

LEMMA SourcesOfEachNext ==
  (\A f : SourcesOf(f, MissingSources) = {SourceOf(Bucket(i)) : i \in OfFamily(f) \cap Untraced})'
BY SourcesOfEach, PTL

LEMMA RecordKeepsRead ==
  ASSUME TraceIInv, Record, NEW f \in Family, Undisturbed(f)'
  PROVE  ReadOfFamily(f)'
<1>1. /\ OfFamily(f)' = OfFamily(f) /\ Undisturbed(f)
      /\ \A j \in OfFamily(f) : j \in EventRow /\ builderEvents'[j] = builderEvents[j] /\ j \in EventRow'
  BY FamilyStays
<1>2. traceReport' = traceReport /\ ReadOfFamily(f)
  BY <1>1, RecordFacts DEF TraceIInv
<1>3. /\ \A j \in OfFamily(f) : /\ j \in Untraced' <=> j \in Untraced
                                /\ j \in Within("1h")' <=> j \in Within("1h")
                                /\ j \in HighOpen' <=> j \in HighOpen
  BY <1>1 DEF Untraced, Within, HighOpen
<1>4. LostOf(f, "1h")' = LostOf(f, "1h")
  BY <1>1, <1>3 DEF LostOf
<1>5. (OfFamily(f) \cap HighOpen)' = OfFamily(f) \cap HighOpen
  BY <1>1, <1>3
<1>6. SourcesOf(f, MissingSources)' = SourcesOf(f, MissingSources)
  <2>1. (\A g : SourcesOf(g, MissingSources) = {SourceOf(Bucket(i)) : i \in OfFamily(g) \cap Untraced})'
    BY SourcesOfEachNext
  <2>2. SourcesOf(f, MissingSources)' = {SourceOf(Bucket(i))' : i \in (OfFamily(f) \cap Untraced)'}
    BY <2>1
  <2>3. (OfFamily(f) \cap Untraced)' = OfFamily(f) \cap Untraced
    BY <1>1, <1>3
  <2>4. \A i \in OfFamily(f) \cap Untraced : SourceOf(Bucket(i))' = SourceOf(Bucket(i))
    BY SameSource
  <2> QED BY <2>2, <2>3, <2>4, SourcesOfEach
<1>7. SourcesOf(f, HighRows)' = SourcesOf(f, HighRows)
  <2>1. (\A g : SourcesOf(g, HighRows) = {RowOf(Bucket(i)) : i \in OfFamily(g) \cap HighOpen})'
    BY RowsOfEachNext
  <2>2. SourcesOf(f, HighRows)' = {RowOf(Bucket(i))' : i \in (OfFamily(f) \cap HighOpen)'}
    BY <2>1
  <2>3. \A i \in OfFamily(f) \cap HighOpen : RowOf(Bucket(i))' = RowOf(Bucket(i))
    BY SameSource
  <2> QED BY <1>5, <2>2, <2>3, RowsOfEach
<1> QED BY <1>2, <1>4, <1>6, <1>7 DEF ReadOfFamily

LEMMA RecordKeepsTrace ==
  ASSUME TraceIInv, Record
  PROVE  TraceIInv'
<1> DEFINE n == Len(builderEvents)
<1>1. /\ EventRow = 1..n /\ EventRow' = 1..(n + 1) /\ n \in Nat /\ Len(builderEvents') = n + 1
  BY RecordFacts, EventFacts DEF TraceIInv, EventRow
<1>2. LaterIsYounger'
  <2>1. ASSUME NEW i \in EventRow', NEW j \in EventRow', i <= j
        PROVE  /\ builderEvents'[i].age = "hour" => builderEvents'[j].age = "hour"
               /\ builderEvents'[i].age # "older" => builderEvents'[j].age # "older"
    <3>1. CASE j = n + 1
      BY <3>1, RecordFacts
    <3>2. CASE j # n + 1
      <4>1. i \in EventRow /\ j \in EventRow
        BY <1>1, <2>1, <3>2
      <4>2. builderEvents'[i] = builderEvents[i] /\ builderEvents'[j] = builderEvents[j]
        BY <4>1, RecordFacts
      <4> QED BY <2>1, <4>1, <4>2 DEF TraceIInv, LaterIsYounger
    <3> QED BY <3>1, <3>2
  <2> QED BY <2>1 DEF LaterIsYounger
<1>3. ReportTyped'
  <2>1. traceReport.from \in 0..Len(builderEvents')
    BY <1>1 DEF TraceIInv, ReportTyped
  <2>2. NoReport' = NoReport /\ Backlog' = Backlog
    BY DEF NoReport, Backlog
  <2> QED BY <2>1, <2>2, RecordFacts DEF TraceIInv, ReportTyped
<1>4. (\A f \in Family : Undisturbed(f) => ReadOfFamily(f))'
  BY RecordKeepsRead
<1> QED BY <1>2, <1>3, <1>4, RecordFacts DEF TraceIInv

LEMMA HoursPassKeepsTrace ==
  ASSUME TraceIInv, HoursPass
  PROVE  TraceIInv'
<1> DEFINE n == Len(builderEvents)
<1>1. /\ EventRow = 1..n /\ n \in Nat /\ builderEvents \in Seq(BuilderEvent)
      /\ \A i \in EventRow : builderEvents[i] \in BuilderEvent
  BY EventFacts DEF TraceIInv
<1>2. /\ builderEvents' = [i \in EventRow |-> [builderEvents[i] EXCEPT !.age = IF @ = "hour" THEN "day" ELSE "older"]]
      /\ EventRow' = EventRow
  BY DEF HoursPass, EventRow
<1>3. ASSUME NEW i \in EventRow
      PROVE  /\ builderEvents'[i] \in BuilderEvent
             /\ builderEvents'[i].age = IF builderEvents[i].age = "hour" THEN "day" ELSE "older"
  <2>1. PICK e \in BuilderEvent : e = builderEvents[i]
    BY <1>1
  <2>2. builderEvents'[i] = [e EXCEPT !.age = IF @ = "hour" THEN "day" ELSE "older"]
    BY <1>2, <2>1
  <2> QED BY <2>1, <2>2 DEF BuilderEvent, EventAge
<1>4. builderEvents' \in Seq(BuilderEvent) /\ Len(builderEvents') = n
  BY <1>1, <1>2, <1>3
<1>5. LaterIsYounger'
  <2>1. ASSUME NEW i \in EventRow, NEW j \in EventRow, i <= j
        PROVE  /\ builderEvents'[i].age = "hour" => builderEvents'[j].age = "hour"
               /\ builderEvents'[i].age # "older" => builderEvents'[j].age # "older"
    BY <1>3, <2>1 DEF TraceIInv, LaterIsYounger
  <2> QED BY <1>2, <2>1 DEF LaterIsYounger
<1>6. /\ traceReport'.ticked = (traceReport.ticked \/ traceReport.stage # "none")
      /\ traceReport'.stage = traceReport.stage /\ traceReport'.from = traceReport.from
      /\ traceReport'.status = traceReport.status /\ traceReport'.flags = traceReport.flags
      /\ traceReport'.sources = traceReport.sources /\ traceReport'.listed = traceReport.listed
      /\ DOMAIN traceReport' = DOMAIN traceReport
  BY DEF HoursPass, TraceIInv, ReportTyped, NoReport
<1>7. ReportTyped'
  <2>1. NoReport' = NoReport /\ Backlog' = Backlog
    BY DEF NoReport, Backlog
  <2> QED BY <1>4, <1>6, <2>1 DEF TraceIInv, ReportTyped
<1>8. (\A f \in Family : Undisturbed(f) => ReadOfFamily(f))'
  <2>1. ASSUME NEW f \in Family, Undisturbed(f)' PROVE ReadOfFamily(f)'
    <3>1. traceReport'.stage = "none"
      BY <1>6, <2>1 DEF Undisturbed
    <3> QED BY <3>1 DEF ReadOfFamily
  <2> QED BY <2>1
<1> QED BY <1>4, <1>5, <1>6, <1>7, <1>8 DEF TraceIInv, HoursPass

LEMMA SameEvents ==
  ASSUME UNCHANGED builderEvents
  PROVE  /\ EventRow' = EventRow /\ Untraced' = Untraced /\ HighOpen' = HighOpen
         /\ \A window : Within(window)' = Within(window)
         /\ \A f : OfFamily(f)' = OfFamily(f)
         /\ MissingSources' = MissingSources /\ HighRows' = HighRows
         /\ (LaterIsYounger => LaterIsYounger')
<1>1. /\ EventRow' = EventRow /\ Untraced' = Untraced /\ HighOpen' = HighOpen
      /\ \A window : Within(window)' = Within(window)
      /\ \A f : OfFamily(f)' = OfFamily(f)
  BY DEF EventRow, Untraced, HighOpen, Within, OfFamily
<1>2. \A b : InBucket(b)' = InBucket(b)
  BY <1>1 DEF InBucket, Bucket
<1>3. \A b : TemporalState(b)' = TemporalState(b)
  BY <1>1, <1>2 DEF TemporalState
<1>4. \A i : Bucket(i)' = Bucket(i)
  BY DEF Bucket
<1>5. MissingSources' = MissingSources
  BY <1>1, <1>2, <1>3, <1>4 DEF MissingSources
<1>6. LaterIsYounger => LaterIsYounger'
  BY <1>1 DEF LaterIsYounger
<1>7. HighRows' = HighRows
  BY <1>1, <1>2, <1>4 DEF HighRows
<1> QED BY <1>1, <1>5, <1>6, <1>7

LEMMA SameFamilies ==
  ASSUME UNCHANGED builderEvents
  PROVE  \A f : /\ Settled(f)' = Settled(f) /\ OpenToday(f)' = OpenToday(f) /\ Broken(f)' = Broken(f)
                /\ LostBuckets(f)' = LostBuckets(f) /\ LostOf(f, "1h")' = LostOf(f, "1h")
                /\ SourcesOf(f, MissingSources)' = SourcesOf(f, MissingSources)
                /\ SourcesOf(f, HighRows)' = SourcesOf(f, HighRows)
                /\ \A window : LostLast(f, window)' = LostLast(f, window)
<1>1. \A f : Settled(f)' = Settled(f) /\ OpenToday(f)' = OpenToday(f)
  BY SameEvents DEF Settled, OpenToday
<1>2. \A f : Broken(f)' = Broken(f)
  BY <1>1, SameEvents DEF Broken
<1>3. \A b, i : InBucket(b)' = InBucket(b) /\ Bucket(i)' = Bucket(i)
  BY DEF InBucket, Bucket, EventRow
<1>4. \A f : LostBuckets(f)' = LostBuckets(f)
  BY <1>3, SameEvents DEF LostBuckets
<1>5. \A f, window : LostLast(f, window)' = LostLast(f, window)
  BY <1>3, <1>4, SameEvents DEF LostLast
<1> QED BY <1>1, <1>2, <1>4, <1>5, SameEvents DEF LostOf, SourcesOf

(* A report is about a backlog only when nothing was lost within the hour. *)
LEMMA BacklogIsOld ==
  /\ CurrentHealth \in
       {"current_missing_trace_refs", "recent_missing_trace_refs", "current_clean", "clean"} \cup Backlog
  /\ CurrentHealth \in Backlog => Untraced \cap Within("1h") = {}
BY DEF CurrentHealth, Backlog

LEMMA SourcesAreFinite ==
  ASSUME builderEvents \in Seq(BuilderEvent)
  PROVE  IsFiniteSet(MissingSources)
<1>1. IsFiniteSet(Untraced)
  <2>1. IsFiniteSet(1..Len(builderEvents)) /\ Untraced \in SUBSET (1..Len(builderEvents))
    BY EventFacts, FS_Interval DEF Untraced
  <2> QED BY <2>1, FS_Subset
<1> DEFINE source == [i \in Untraced |-> SourceOf(Bucket(i))]
<1>2. MissingSources = {SourceOf(Bucket(i)) : i \in Untraced}
  BY DEF MissingSources, SourceOf
<1>3. source \in Surjection(Untraced, MissingSources)
  BY <1>2 DEF Surjection
<1> QED BY <1>1, <1>3, FS_Surjection

LEMMA OpenRowsAreFinite ==
  ASSUME builderEvents \in Seq(BuilderEvent)
  PROVE  IsFiniteSet(HighRows) /\ HighRows \subseteq [bucket : Family \X HighKind, count : Nat]
<1>1. IsFiniteSet(1..Len(builderEvents)) /\ EventRow = 1..Len(builderEvents)
  BY EventFacts, FS_Interval
<1>2. IsFiniteSet(HighOpen) /\ \A b : IsFiniteSet(InBucket(b))
  <2>1. HighOpen \in SUBSET EventRow /\ \A b : InBucket(b) \in SUBSET EventRow
    BY DEF HighOpen, InBucket
  <2> QED BY <1>1, <2>1, FS_Subset
<1>3. HighRows = {RowOf(Bucket(i)) : i \in HighOpen}
  BY DEF HighRows, RowOf
<1>4. [i \in HighOpen |-> RowOf(Bucket(i))] \in Surjection(HighOpen, HighRows)
  BY <1>3 DEF Surjection
<1>5. ASSUME NEW i \in HighOpen
      PROVE  RowOf(Bucket(i)) \in [bucket : Family \X HighKind, count : Nat]
  <2>1. Bucket(i) \in Family \X HighKind
    BY <1>5, EventFacts DEF Bucket, HighOpen
  <2>2. Cardinality(InBucket(Bucket(i))) \in Nat
    BY <1>2, FS_CardinalityType
  <2> QED BY <2>1, <2>2 DEF RowOf
<1> QED BY <1>2, <1>3, <1>4, <1>5, FS_Surjection

LEMMA ReadingKeepsTrace ==
  ASSUME TraceIInv, BeginReport \/ ReadCounts \/ ReadSources \/ ListHighSources
  PROVE  TraceIInv'
<1>1. /\ UNCHANGED builderEvents /\ builderEvents \in Seq(BuilderEvent) /\ LaterIsYounger
      /\ ReportTyped
  BY DEF TraceIInv, BeginReport, ReadCounts, ReadSources, ListHighSources
<1>2. /\ Backlog' = Backlog /\ NoReport' = NoReport
      /\ \A f : /\ OfFamily(f)' = OfFamily(f) /\ LostOf(f, "1h")' = LostOf(f, "1h")
                /\ SourcesOf(f, MissingSources)' = SourcesOf(f, MissingSources)
                /\ SourcesOf(f, HighRows)' = SourcesOf(f, HighRows)
      /\ EventRow' = EventRow
  BY <1>1, SameEvents DEF Backlog, NoReport, LostOf, SourcesOf
<1>3. LaterIsYounger'
  BY <1>1, SameEvents
<1>4. Len(builderEvents) \in Nat /\ Len(builderEvents') = Len(builderEvents)
  BY <1>1
<1>5. ReportTyped' /\ traceReport'.stage # "done" /\ \A f \in Family : Undisturbed(f)' => ReadOfFamily(f)'
  <2>1. CASE BeginReport
    <3>1. /\ DOMAIN traceReport' = DOMAIN NoReport /\ traceReport'.stage = "grouped"
          /\ traceReport'.from = Len(builderEvents) /\ traceReport'.status = "clean"
          /\ traceReport'.flags = {} /\ traceReport'.sources = {} /\ traceReport'.listed = {}
      BY <2>1 DEF BeginReport, NoReport
    <3>2. ReportTyped'
      BY <1>2, <1>4, <3>1, FS_EmptySet DEF ReportTyped
    <3> QED BY <3>1, <3>2 DEF ReadOfFamily
  <2>2. CASE ReadCounts
    <3>1. /\ traceReport'.stage = "counted" /\ traceReport'.status = CurrentHealth
          /\ traceReport'.flags \subseteq {"missing_trace_refs"}
          /\ traceReport'.sources = traceReport.sources /\ traceReport'.listed = traceReport.listed
          /\ traceReport'.from = traceReport.from /\ DOMAIN traceReport' = DOMAIN traceReport
      BY <1>1, <2>2 DEF ReadCounts, ReportTyped, NoReport
    <3>2. ReportTyped'
      BY <1>1, <1>2, <1>4, <3>1, BacklogIsOld DEF ReportTyped
    <3>3. \A f \in Family : ReadOfFamily(f)'
      BY <1>2, <3>1, BacklogIsOld DEF ReadOfFamily, LostOf
    <3> QED BY <3>1, <3>2, <3>3
  <2>3. CASE ReadSources
    <3>1. /\ traceReport.stage = "counted" /\ traceReport'.stage = "sourced"
          /\ traceReport'.sources = MissingSources /\ traceReport'.status = traceReport.status
          /\ traceReport'.flags = traceReport.flags /\ traceReport'.listed = traceReport.listed
          /\ traceReport'.from = traceReport.from /\ DOMAIN traceReport' = DOMAIN traceReport
          /\ traceReport'.ticked = traceReport.ticked
      BY <1>1, <2>3 DEF ReadSources, ReportTyped, NoReport
    <3>2. ReportTyped'
      BY <1>1, <1>2, <1>4, <3>1, SourcesAreFinite DEF ReportTyped
    <3>3. ASSUME NEW f \in Family, Undisturbed(f)' PROVE ReadOfFamily(f)'
      <4>1. ReadOfFamily(f)
        BY <1>2, <3>1, <3>3 DEF Undisturbed, TraceIInv
      <4>2. SourcesOf(f, traceReport'.sources) = SourcesOf(f, MissingSources)
        BY <3>1
      <4> QED BY <1>2, <3>1, <4>1, <4>2 DEF ReadOfFamily
    <3> QED BY <3>1, <3>2, <3>3
  <2>4. CASE ListHighSources
    <3>1. /\ traceReport.stage = "sourced" /\ traceReport'.stage = "listed"
          /\ traceReport'.listed = HighRows
          /\ traceReport'.status = traceReport.status
          /\ traceReport'.flags = traceReport.flags /\ traceReport'.sources = traceReport.sources
          /\ traceReport'.from = traceReport.from /\ DOMAIN traceReport' = DOMAIN traceReport
          /\ traceReport'.ticked = traceReport.ticked
      BY <1>1, <2>4 DEF ListHighSources, ReportTyped, NoReport
    <3>2. ReportTyped'
      <4>1. /\ IsFiniteSet(traceReport'.listed)
            /\ traceReport'.listed \subseteq [bucket : Family \X HighKind, count : Nat]
        BY <1>1, <3>1, OpenRowsAreFinite
      <4> QED BY <1>1, <1>2, <1>4, <3>1, <4>1 DEF ReportTyped
    <3>3. ASSUME NEW f \in Family, Undisturbed(f)' PROVE ReadOfFamily(f)'
      <4>1. ReadOfFamily(f)
        BY <1>2, <3>1, <3>3 DEF Undisturbed, TraceIInv
      <4>2. SourcesOf(f, traceReport'.listed) = SourcesOf(f, HighRows)
        BY <3>1
      <4> QED BY <1>2, <3>1, <4>1, <4>2 DEF ReadOfFamily
    <3> QED BY <3>1, <3>2, <3>3
  <2> QED BY <2>1, <2>2, <2>3, <2>4
<1> QED BY <1>1, <1>3, <1>5 DEF TraceIInv

LEMMA BucketOfFamily ==
  ASSUME builderEvents \in Seq(BuilderEvent), NEW f, NEW i \in OfFamily(f)
  PROVE  /\ i \in InBucket(Bucket(i)) /\ InBucket(Bucket(i)) \subseteq OfFamily(f)
         /\ Max(InBucket(Bucket(i))) \in InBucket(Bucket(i))
         /\ \A j \in InBucket(Bucket(i)) : j \in EventRow /\ Max(InBucket(Bucket(i))) >= j
<1>1. i \in InBucket(Bucket(i)) /\ InBucket(Bucket(i)) \subseteq OfFamily(f)
  BY DEF InBucket, Bucket, OfFamily
<1>2. InBucket(Bucket(i)) \subseteq 1..Len(builderEvents) /\ Len(builderEvents) \in Nat
  BY EventFacts DEF InBucket
<1> QED BY <1>1, <1>2, NewestIsThere DEF InBucket

(* A bucket's item is high only if its newest event lost the trace today,  *)
(* and anything else shows that it did not within the hour.                *)
LEMMA StateTellsTheLast ==
  ASSUME builderEvents \in Seq(BuilderEvent), LaterIsYounger, NEW f, NEW i \in OfFamily(f) \cap Untraced
  PROVE  /\ Bucket(i) \in LostBuckets(f)
         /\ TemporalState(Bucket(i)) = "latest_missing_trace_ref" => Bucket(i) \in LostLast(f, "24h")
         /\ TemporalState(Bucket(i)) # "latest_missing_trace_ref" => Bucket(i) \notin LostLast(f, "1h")
<1> DEFINE b == Bucket(i)
           last == Max(InBucket(b))
<1>1. /\ i \in InBucket(b) /\ last \in InBucket(b)
      /\ \A j \in InBucket(b) : j \in EventRow /\ last >= j
  BY BucketOfFamily
<1>2. b \in LostBuckets(f)
  BY <1>1 DEF LostBuckets
<1>3. TemporalState(b) = "latest_missing_trace_ref" <=>
        last \in Untraced /\ InBucket(b) \cap Within("24h") # {}
  BY DEF TemporalState
<1>4. EventRow = 1..Len(builderEvents) /\ \A j \in EventRow : builderEvents[j].age \in EventAge
  BY EventFacts
<1>5. ASSUME NEW j \in InBucket(b), j \in Within("24h")
      PROVE  last \in Within("24h")
  <2>1. j <= last /\ j \in EventRow /\ last \in EventRow
    BY <1>1, <1>4
  <2>2. builderEvents[j].age # "older"
    BY <1>5 DEF Within
  <2>3. builderEvents[last].age # "older"
    BY <2>1, <2>2 DEF LaterIsYounger
  <2> QED BY <1>4, <2>1, <2>3 DEF Within, EventAge
<1>6. last \in Within("1h") => last \in Within("24h")
  BY DEF Within
<1> QED BY <1>1, <1>2, <1>3, <1>5, <1>6 DEF LostLast

(* A family that lost traces has one item, a family that did not has none. *)
LEMMA OneIsShown ==
  ASSUME NEW f, NEW sources, IsFiniteSet(sources), NEW shown \in OnePerFamily(sources)
  PROVE  /\ SourcesOf(f, shown) \subseteq SourcesOf(f, sources)
         /\ SourcesOf(f, sources) # {} => \E s : SourcesOf(f, shown) = {s}
<1>1. shown \subseteq sources /\ SourcesOf(f, shown) \subseteq SourcesOf(f, sources)
  BY DEF OnePerFamily, SourcesOf
<1>2. ASSUME SourcesOf(f, sources) # {}
      PROVE  \E s : SourcesOf(f, shown) = {s}
  <2>1. f \in {s.bucket[1] : s \in sources}
    BY <1>2 DEF SourcesOf
  <2>2. Cardinality({s \in shown : s.bucket[1] = f}) = 1
    BY <2>1 DEF OnePerFamily
  <2>3. SourcesOf(f, shown) \in SUBSET sources
    BY <1>1 DEF SourcesOf
  <2>4. IsFiniteSet(SourcesOf(f, shown)) /\ Cardinality(SourcesOf(f, shown)) = 1
    BY <2>2, <2>3, FS_Subset DEF SourcesOf
  <2> QED BY <2>4, FS_Singleton
<1> QED BY <1>1, <1>2

LEMMA FamilyIsRanked ==
  ASSUME builderEvents \in Seq(BuilderEvent), LaterIsYounger, NEW f, NEW shown,
         SourcesOf(f, shown) \subseteq SourcesOf(f, MissingSources),
         SourcesOf(f, MissingSources) # {} => \E s : SourcesOf(f, shown) = {s},
         NEW scope, scope = "historical_backlog" => LostOf(f, "1h") = {}
  PROVE  LET item == {ItemFor(s, scope) : s \in SourcesOf(f, shown)}
         IN /\ (LostBuckets(f) # {}) <=> (Cardinality(item) = 1)
            /\ \A i \in item : /\ i.priority = "high" => LostLast(f, "24h") # {}
                               /\ i.priority = "medium" => LostBuckets(f) # LostLast(f, "1h")
<1> DEFINE item == {ItemFor(s, scope) : s \in SourcesOf(f, shown)}
<1>1. SourcesOf(f, MissingSources) = {SourceOf(Bucket(i)) : i \in OfFamily(f) \cap Untraced}
  BY SourcesOfFamily
<1>2. CASE SourcesOf(f, MissingSources) = {}
  <2>1. OfFamily(f) \cap Untraced = {}
    BY <1>1, <1>2
  <2>2. LostBuckets(f) = {}
    <3>1. ASSUME NEW i \in OfFamily(f) PROVE InBucket(Bucket(i)) \cap Untraced = {}
      BY <2>1, <3>1, BucketOfFamily
    <3> QED BY <3>1 DEF LostBuckets
  <2>3. item = {}
    BY <1>2
  <2>4. Cardinality(item) = 0
    BY <2>3, FS_EmptySet
  <2> QED BY <2>2, <2>3, <2>4
<1>3. CASE SourcesOf(f, MissingSources) # {}
  <2>1. PICK s : SourcesOf(f, shown) = {s}
    BY <1>3
  <2>2. PICK i \in OfFamily(f) \cap Untraced : s = SourceOf(Bucket(i))
    BY <1>1, <2>1
  <2>3. item = {ItemFor(s, scope)} /\ s.state = TemporalState(Bucket(i))
    BY <2>1, <2>2 DEF SourceOf
  <2>4. Cardinality(item) = 1
    BY <2>3, FS_Singleton
  <2>5. /\ Bucket(i) \in LostBuckets(f)
        /\ s.state = "latest_missing_trace_ref" => Bucket(i) \in LostLast(f, "24h")
        /\ s.state # "latest_missing_trace_ref" => Bucket(i) \notin LostLast(f, "1h")
    BY <2>3, StateTellsTheLast
  <2>6. ItemFor(s, scope).priority = "high" => LostLast(f, "24h") # {}
    BY <2>5 DEF ItemFor
  <2>7. ItemFor(s, scope).priority = "medium" => LostBuckets(f) # LostLast(f, "1h")
    <3>1. CASE scope = "historical_backlog"
      <4>1. Max(InBucket(Bucket(i))) \in OfFamily(f)
        BY BucketOfFamily
      <4>2. Max(InBucket(Bucket(i))) \notin Untraced \cap Within("1h")
        BY <3>1, <4>1 DEF LostOf
      <4> QED BY <2>5, <4>2 DEF LostLast
    <3>2. CASE scope # "historical_backlog"
      BY <2>5, <3>2 DEF ItemFor
    <3> QED BY <3>1, <3>2
  <2> QED BY <2>3, <2>4, <2>5, <2>6, <2>7
<1> QED BY <1>2, <1>3

(* The cards of open rows are those of the chosen ones, one each; a row    *)
(* that was not chosen has no more events than any of them.                *)
LEMMA CardsOfTheFirst ==
  ASSUME NEW high, IsFiniteSet(high), NEW highest \in ToHighCards(high), NEW o \in high, o \notin highest,
         \A s \in high : s.row.count \in Nat,
         \A s, t \in high : s.row = t.row => s = t
  PROVE  Cardinality({c \in {HighCard(s) : s \in highest} : c.about.count >= o.row.count}) = HighCardLimit
<1>1. /\ highest \subseteq high
      /\ Cardinality(highest) = IF Cardinality(high) <= HighCardLimit THEN Cardinality(high) ELSE HighCardLimit
      /\ \A s \in highest, t \in high \ highest : ~(t.row.count > s.row.count)
  BY DEF ToHighCards, First
<1>2. IsFiniteSet(highest) /\ Cardinality(highest) # Cardinality(high)
  BY <1>1, FS_Subset
<1>3. Cardinality(highest) = HighCardLimit
  BY <1>1, <1>2
<1> DEFINE cards == {HighCard(s) : s \in highest}
           card == [s \in highest |-> HighCard(s)]
<1>4. \A s : HighCard(s).about = s.row
  BY DEF HighCard
<1>5. {c \in cards : c.about.count >= o.row.count} = cards
  <2>1. \A s \in highest : s.row.count >= o.row.count
    BY <1>1
  <2> QED BY <1>4, <2>1
<1>6. card \in Surjection(highest, cards)
  BY DEF Surjection
<1>7. card \in Injection(highest, cards)
  <2>1. ASSUME NEW s \in highest, NEW t \in highest, HighCard(s) = HighCard(t)
        PROVE  s = t
    BY <1>1, <1>4, <2>1
  <2>2. card \in [highest -> cards]
    OBVIOUS
  <2>3. \A s, t \in highest : card[s] = card[t] => s = t
    BY <2>1
  <2> HIDE DEF card, cards
  <2> QED BY <2>2, <2>3 DEF Injection, IsInjective
<1>8. IsFiniteSet(cards)
  BY <1>2, <1>6, FS_Surjection
<1>9. Cardinality(cards) = Cardinality(highest)
  BY <1>6, <1>7, <1>8, FS_Injection
<1> QED BY <1>3, <1>5, <1>9

LEMMA CompileKeepsTrace ==
  ASSUME TraceIInv, CompileReport
  PROVE  TraceIInv'
<1>1. /\ UNCHANGED builderEvents /\ builderEvents \in Seq(BuilderEvent) /\ LaterIsYounger
      /\ ReportTyped /\ traceReport.stage = "listed"
      /\ \A f \in Family : Undisturbed(f) => ReadOfFamily(f)
  BY DEF TraceIInv, CompileReport
<1> DEFINE scope == RepairScope(traceReport.status)
           high == HighSources(traceReport.listed)
<1>2. PICK shown \in OnePerFamily(traceReport.sources), keyless \in BOOLEAN, missions \in {{}, TraceRef},
           highest \in ToHighCards(high) : \E missing \in ToMissingCards(shown, scope) :
        traceReport' =
            [traceReport EXCEPT
              !.stage = "done", !.sources = {}, !.listed = {},
              !.flags = @ \cup HighFlag(high)
                          \cup (IF Orphaned # {} THEN {"orphan_parent_event_ids"} ELSE {}),
              !.queue = {ItemFor(s, scope) : s \in shown} \cup JoinItems(keyless, missions)
                          \cup HighItems(traceReport.listed),
              !.cards = {MissingCard(ItemFor(s, scope), scope) : s \in missing}
                          \cup {HighCard(s) : s \in highest}]
  BY DEF CompileReport
<1>2a. PICK missing :
        traceReport' =
            [traceReport EXCEPT
              !.stage = "done", !.sources = {}, !.listed = {},
              !.flags = @ \cup HighFlag(high)
                          \cup (IF Orphaned # {} THEN {"orphan_parent_event_ids"} ELSE {}),
              !.queue = {ItemFor(s, scope) : s \in shown} \cup JoinItems(keyless, missions)
                          \cup HighItems(traceReport.listed),
              !.cards = {MissingCard(ItemFor(s, scope), scope) : s \in missing}
                          \cup {HighCard(s) : s \in highest}]
  BY <1>2
<1> HIDE DEF scope, high
<1>3. /\ traceReport'.stage = "done" /\ traceReport'.sources = {} /\ traceReport'.listed = {}
      /\ traceReport'.flags = traceReport.flags \cup HighFlag(high)
           \cup (IF Orphaned # {} THEN {"orphan_parent_event_ids"} ELSE {})
      /\ traceReport'.queue = {ItemFor(s, scope) : s \in shown} \cup JoinItems(keyless, missions)
           \cup HighItems(traceReport.listed)
      /\ traceReport'.cards = {MissingCard(ItemFor(s, scope), scope) : s \in missing}
           \cup {HighCard(s) : s \in highest}
      /\ traceReport'.from = traceReport.from /\ traceReport'.ticked = traceReport.ticked
      /\ traceReport'.status = traceReport.status /\ DOMAIN traceReport' = DOMAIN traceReport
  <2>1. /\ DOMAIN traceReport = {"stage", "from", "ticked", "groups", "topology", "status", "flags",
                                 "sources", "listed", "queue", "cards"}
    BY <1>1 DEF ReportTyped, NoReport
  <2> QED BY <1>2a, <2>1
<1>4. /\ Backlog' = Backlog /\ NoReport' = NoReport /\ EventRow' = EventRow
      /\ \A f : /\ OfFamily(f)' = OfFamily(f) /\ Settled(f)' = Settled(f) /\ OpenToday(f)' = OpenToday(f)
                /\ Broken(f)' = Broken(f) /\ Undisturbed(f)' = Undisturbed(f)
                /\ LostBuckets(f)' = LostBuckets(f)
                /\ \A window : LostLast(f, window)' = LostLast(f, window)
      /\ HighOpen' = HighOpen /\ \A i : Bucket(i)' = Bucket(i)
      /\ \A b : InBucket(b)' = InBucket(b)
  <2>1. \A f : Undisturbed(f)' = Undisturbed(f)
    BY <1>1, <1>3, SameEvents DEF Undisturbed
  <2>2. \A i, b : Bucket(i)' = Bucket(i) /\ InBucket(b)' = InBucket(b)
    BY <1>1 DEF Bucket, InBucket, EventRow
  <2> QED BY <1>1, <2>1, <2>2, SameEvents, SameFamilies DEF Backlog, NoReport
<1>5. ReportTyped' /\ LaterIsYounger' /\ builderEvents' \in Seq(BuilderEvent)
  <2>1. /\ IsFiniteSet(traceReport'.sources) /\ IsFiniteSet(traceReport'.listed)
        /\ traceReport'.listed \subseteq [bucket : Family \X HighKind, count : Nat]
    BY <1>3, FS_EmptySet
  <2> QED BY <1>1, <1>3, <1>4, <2>1, SameEvents DEF ReportTyped
<1>6. /\ high = {[row |-> r, settled |-> Settled(r.bucket[1]), today |-> OpenToday(r.bucket[1])] :
                  r \in traceReport.listed}
      /\ IsFiniteSet(high) /\ (\A s \in high : s.row \in traceReport.listed /\ s.row.count \in Nat)
      /\ \A s, t \in high : s.row = t.row => s = t
  <2> DEFINE asked(r) == [row |-> r, settled |-> Settled(r.bucket[1]), today |-> OpenToday(r.bucket[1])]
  <2>1. high = {asked(r) : r \in traceReport.listed}
    BY DEF high, HighSources
  <2>2. \A r : asked(r).row = r
    OBVIOUS
  <2>3. [r \in traceReport.listed |-> asked(r)] \in Surjection(traceReport.listed, high)
    BY <2>1 DEF Surjection
  <2>4. IsFiniteSet(traceReport.listed) /\ \A r \in traceReport.listed : r.count \in Nat
    BY <1>1 DEF ReportTyped
  <2>5. IsFiniteSet(high)
    BY <2>3, <2>4, FS_Surjection
  <2> HIDE DEF asked
  <2>6. (\A s \in high : s.row \in traceReport.listed /\ s.row.count \in Nat) /\ \A s, t \in high : s.row = t.row => s = t
    BY <2>1, <2>2, <2>4
  <2> QED BY <2>1, <2>5, <2>6 DEF asked
<1>7. OpenFamiliesAreFlagged'
  <2> DEFINE cards == {HighCard(s) : s \in highest}
  <2>0. HighCards' = cards
    <3>1. \A s : HighCard(s).category = "open_high_severity_event"
      BY DEF HighCard
    <3>2. \A i : MissingCard(i, scope).category = "missing_trace_ref"
      BY DEF MissingCard
    <3> QED BY <1>3, <3>1, <3>2 DEF HighCards
  <2>1. ASSUME NEW f \in Family, Undisturbed(f), Broken(f)
        PROVE  /\ OpenToday(f) => "open_high_severity_events" \in traceReport'.flags
               /\ traceReport'.flags \cap {"open_high_severity_events", "historical_open_high_severity_events"} # {}
               /\ \A i \in OfFamily(f) \cap HighOpen :
                    \/ \E c \in cards : c.about.bucket = Bucket(i) /\ c.status = "open"
                    \/ Cardinality({c \in cards : c.about.count >= Cardinality(InBucket(Bucket(i)))}) = HighCardLimit
    <3>1. ASSUME NEW i \in OfFamily(f) \cap HighOpen
          PROVE  \E s \in high : /\ s.row = RowOf(Bucket(i))
                                  /\ ~s.settled /\ s.today = OpenToday(f)
      <4>1. RowOf(Bucket(i)) \in SourcesOf(f, HighRows)
        BY RowsOfFamily
      <4>2. RowOf(Bucket(i)) \in traceReport.listed
        BY <1>1, <2>1, <4>1 DEF ReadOfFamily, SourcesOf
      <4>3. RowOf(Bucket(i)).bucket[1] = f
        BY <4>1 DEF SourcesOf
      <4> DEFINE s == [row |-> RowOf(Bucket(i)), settled |-> Settled(RowOf(Bucket(i)).bucket[1]),
                       today |-> OpenToday(RowOf(Bucket(i)).bucket[1])]
      <4>4. s \in high
        BY <1>6, <4>2
      <4>5. s.row = RowOf(Bucket(i)) /\ ~s.settled /\ s.today = OpenToday(f)
        BY <2>1, <4>3 DEF Broken
      <4> HIDE DEF s
      <4> QED BY <4>4, <4>5
    <3>2. /\ OpenToday(f) => "open_high_severity_events" \in HighFlag(high)
          /\ HighFlag(high) \cap {"open_high_severity_events", "historical_open_high_severity_events"} # {}
      <4>1. PICK i : i \in OfFamily(f) \cap HighOpen
        BY <2>1 DEF Broken
      <4>2. PICK s \in high : ~s.settled /\ s.today = OpenToday(f)
        BY <3>1, <4>1
      <4> QED BY <4>2 DEF HighFlag
    <3>3. ASSUME NEW i \in OfFamily(f) \cap HighOpen
          PROVE  \/ \E c \in cards : c.about.bucket = Bucket(i) /\ c.status = "open"
                 \/ Cardinality({c \in cards : c.about.count >= Cardinality(InBucket(Bucket(i)))}) = HighCardLimit
      <4>1. PICK s \in high : s.row = RowOf(Bucket(i)) /\ ~s.settled
        BY <3>1
      <4>2. s.row.bucket = Bucket(i) /\ s.row.count = Cardinality(InBucket(Bucket(i)))
        BY <4>1 DEF RowOf
      <4>3. CASE s \in highest
        <5>1. HighCard(s) \in cards
          BY <4>3
        <5>2. HighCard(s).about = s.row /\ HighCard(s).status = "open"
          BY <4>1 DEF HighCard
        <5>3. HighCard(s).about.bucket = Bucket(i)
          BY <4>2, <5>2
        <5> HIDE DEF cards
        <5> QED BY <5>1, <5>2, <5>3
      <4>4. CASE s \notin highest
        BY <1>2, <1>6, <4>2, <4>4, CardsOfTheFirst
      <4> QED BY <4>3, <4>4
    <3> QED BY <1>3, <3>2, <3>3
  <2>2. ASSUME \A f \in Family : Undisturbed(f) /\ ~(Broken(f) /\ OpenToday(f))
        PROVE  "open_high_severity_events" \notin traceReport'.flags
    <3>1. \A s \in high : ~(~s.settled /\ s.today)
      <4>1. ASSUME NEW r \in traceReport.listed PROVE Settled(r.bucket[1]) \/ ~OpenToday(r.bucket[1])
        <5>1. r.bucket[1] \in Family
          BY <1>1 DEF ReportTyped
        <5> QED BY <2>2, <5>1 DEF Broken, OpenToday
      <4> QED BY <1>6, <4>1
    <3>2. "open_high_severity_events" \notin HighFlag(high)
      BY <3>1 DEF HighFlag
    <3>3. "open_high_severity_events" \notin traceReport.flags
      BY <1>1 DEF ReportTyped
    <3> QED BY <1>3, <3>2, <3>3
  <2>3. ASSUME NEW f \in Family, NEW c \in cards, Undisturbed(f), c.about.bucket[1] = f
        PROVE  c.status = IF Broken(f) THEN "open" ELSE "latest_resolved"
    <3>1. PICK s \in highest : c = HighCard(s)
      BY <2>3
    <3>2. s \in high
      BY <1>2, <3>1 DEF ToHighCards, First
    <3>3. /\ s.row.bucket[1] = f /\ s.settled = Settled(f) /\ s.row \in traceReport.listed
          /\ c.status = IF s.settled THEN "latest_resolved" ELSE "open"
      BY <1>6, <2>3, <3>1, <3>2 DEF HighCard
    <3>4. s.row \in SourcesOf(f, HighRows)
      BY <1>1, <2>3, <3>3 DEF ReadOfFamily, SourcesOf
    <3>5. OfFamily(f) \cap HighOpen # {}
      BY <3>4, RowsOfFamily
    <3> QED BY <3>3, <3>5 DEF Broken
  <2> HIDE DEF cards
  <2> QED BY <1>3, <1>4, <2>0, <2>1, <2>2, <2>3 DEF OpenFamiliesAreFlagged
<1>8. LostTracesAreRanked'
  <2>1. ASSUME NEW f \in Family, Undisturbed(f), NEW item, item = {i \in traceReport'.queue : i.about = f}
        PROVE  /\ (LostBuckets(f) # {}) <=> (Cardinality(item) = 1)
               /\ \A i \in item : /\ i.priority = "high" => LostLast(f, "24h") # {}
                                  /\ i.priority = "medium" => LostBuckets(f) # LostLast(f, "1h")
    <3>1. ReadOfFamily(f)
      BY <1>1, <2>1
    <3>2. SourcesOf(f, traceReport.sources) = SourcesOf(f, MissingSources) /\ IsFiniteSet(traceReport.sources)
      BY <1>1, <3>1 DEF ReadOfFamily, ReportTyped
    <3>3. scope = "historical_backlog" => LostOf(f, "1h") = {}
      <4>1. scope = "historical_backlog" => traceReport.status \in Backlog
        BY <1>1 DEF scope, RepairScope, ReportTyped
      <4> QED BY <1>1, <3>1, <4>1 DEF ReadOfFamily
    <3>4. item = {ItemFor(s, scope) : s \in SourcesOf(f, shown)}
      <4>1. \A i \in JoinItems(keyless, missions) \cup HighItems(traceReport.listed) : i.about # f
        <5>1. \A i \in JoinItems(keyless, missions) : i.about \in {"telegram_join", "spawner_join"}
          BY DEF JoinItems, JoinItem
        <5>2. \A i \in HighItems(traceReport.listed) : i.about = "open_high"
          BY DEF HighItems
        <5> QED BY <5>1, <5>2, TraceHealthAssumption
      <4>2. \A s : ItemFor(s, scope).about = s.bucket[1]
        BY DEF ItemFor
      <4> QED BY <1>3, <2>1, <4>1, <4>2 DEF SourcesOf
    <3>5. /\ SourcesOf(f, shown) \subseteq SourcesOf(f, MissingSources)
          /\ SourcesOf(f, MissingSources) # {} => \E s : SourcesOf(f, shown) = {s}
      BY <1>2, <3>2, OneIsShown
    <3>6. LET ranked == {ItemFor(s, scope) : s \in SourcesOf(f, shown)}
          IN /\ (LostBuckets(f) # {}) <=> (Cardinality(ranked) = 1)
             /\ \A i \in ranked : /\ i.priority = "high" => LostLast(f, "24h") # {}
                                  /\ i.priority = "medium" => LostBuckets(f) # LostLast(f, "1h")
      BY <1>1, <3>3, <3>5, FamilyIsRanked
    <3> QED BY <3>4, <3>6
  <2> QED BY <1>4, <2>1 DEF LostTracesAreRanked
<1>9. (\A f \in Family : Undisturbed(f) => ReadOfFamily(f))'
  BY <1>3 DEF ReadOfFamily
<1> QED BY <1>3, <1>5, <1>7, <1>8, <1>9 DEF TraceIInv

(* What a finished report says stays so: it is the end of the behaviour.   *)
LEMMA TraceStutters ==
  ASSUME TraceIInv, UNCHANGED trace_vars
  PROVE  TraceIInv'
<1>1. builderEvents' = builderEvents /\ traceReport' = traceReport
  BY DEF trace_vars
<1>2. /\ EventRow' = EventRow /\ NoReport' = NoReport /\ Backlog' = Backlog
      /\ \A f : OfFamily(f)' = OfFamily(f) /\ Undisturbed(f)' = Undisturbed(f)
  BY <1>1, SameEvents DEF NoReport, Backlog, Undisturbed
<1>3. LaterIsYounger' /\ ReportTyped'
  BY <1>1, <1>2, SameEvents DEF TraceIInv, ReportTyped
<1>4. (\A f \in Family : Undisturbed(f) => ReadOfFamily(f))'
  BY <1>1, <1>2, SameEvents, SameFamilies DEF TraceIInv, ReadOfFamily
<1>5. OpenFamiliesAreFlagged => OpenFamiliesAreFlagged'
  <2>1. \A i, b : Bucket(i)' = Bucket(i) /\ InBucket(b)' = InBucket(b)
    BY <1>1 DEF Bucket, InBucket, EventRow
  <2>2. HighCards' = HighCards /\ HighOpen' = HighOpen
    BY <1>1, SameEvents DEF HighCards
  <2> QED BY <1>1, <1>2, <2>1, <2>2, SameFamilies DEF OpenFamiliesAreFlagged
<1>6. LostTracesAreRanked => LostTracesAreRanked'
  BY <1>1, <1>2, SameFamilies DEF LostTracesAreRanked
<1> QED BY <1>1, <1>3, <1>4, <1>5, <1>6 DEF TraceIInv

LEMMA TraceInductive == TraceSpec => []TraceIInv
<1>1. TraceInit => TraceIInv
  <2>1. ASSUME TraceInit PROVE builderEvents \in Seq(BuilderEvent) /\ LaterIsYounger
    BY <2>1 DEF TraceInit, LaterIsYounger, EventRow
  <2>2. ASSUME TraceInit PROVE ReportTyped
    BY <2>2, FS_EmptySet DEF TraceInit, ReportTyped, NoReport
  <2>3. TraceInit => traceReport.stage = "none"
    BY DEF TraceInit, NoReport
  <2> QED BY <2>1, <2>2, <2>3 DEF TraceIInv, ReadOfFamily
<1>2. TraceIInv /\ [TraceNext]_trace_vars => TraceIInv'
  <2> SUFFICES ASSUME TraceIInv, [TraceNext]_trace_vars PROVE TraceIInv'
    OBVIOUS
  <2>1. CASE Record
    BY <2>1, RecordKeepsTrace
  <2>2. CASE HoursPass
    BY <2>2, HoursPassKeepsTrace
  <2>3. CASE BeginReport \/ ReadCounts \/ ReadSources \/ ListHighSources
    BY <2>3, ReadingKeepsTrace
  <2>4. CASE CompileReport
    BY <2>4, CompileKeepsTrace
  <2>5. CASE UNCHANGED trace_vars
    BY <2>5, TraceStutters
  <2> QED BY <2>1, <2>2, <2>3, <2>4, <2>5 DEF TraceNext
<1> QED BY <1>1, <1>2, PTL DEF TraceSpec

(* The word the R30 gate takes (cli.py, r30_builder_trace_lifecycle): a    *)
(* finished report flags every family that is open, and flags none as open *)
(* when all are settled, whatever Builder recorded of others meanwhile.    *)
THEOREM OpenFamiliesStayFlagged ==
  TraceSpec => [](traceReport.stage = "done" => OpenFamiliesAreFlagged)
<1>1. TraceIInv => (traceReport.stage = "done" => OpenFamiliesAreFlagged)
  BY DEF TraceIInv
<1> QED BY <1>1, TraceInductive, PTL

(* The repair queue (system_map.py, build_trace_repair_queue): of a family *)
(* nothing was recorded of meanwhile, a finished report has an item exactly*)
(* if it lost traces, high only if the newest event of a kind lost its     *)
(* trace today, and medium only if not every kind lost it within the hour. *)
THEOREM LostTracesStayRanked ==
  TraceSpec => [](traceReport.stage = "done" => LostTracesAreRanked)
<1>1. TraceIInv => (traceReport.stage = "done" => LostTracesAreRanked)
  BY DEF TraceIInv
<1> QED BY <1>1, TraceInductive, PTL

(* The repairs of a report have one of three priorities. *)
LEMMA QueueRanked ==
  TraceSpec => [](\A item \in traceReport.queue : item.priority \in {"critical", "high", "medium"})
<1> DEFINE Ranked == \A item \in traceReport.queue : item.priority \in {"critical", "high", "medium"}
<1>1. TraceInit => Ranked
  BY DEF TraceInit, NoReport
<1>2. TraceIInv /\ Ranked /\ [TraceNext]_trace_vars => Ranked'
  <2> SUFFICES ASSUME TraceIInv, Ranked, [TraceNext]_trace_vars PROVE Ranked'
    OBVIOUS
  <2>1. DOMAIN traceReport = DOMAIN NoReport
    BY DEF TraceIInv, ReportTyped
  <2>2. CASE Record \/ HoursPass \/ BeginReport \/ ReadCounts \/ ReadSources \/ ListHighSources \/ UNCHANGED trace_vars
    <3>1. traceReport'.queue = traceReport.queue \/ traceReport'.queue = {}
      BY <2>1, <2>2 DEF Record, HoursPass, BeginReport, ReadCounts, ReadSources, ListHighSources, trace_vars, NoReport
    <3> QED BY <3>1
  <2>3. CASE CompileReport
    <3>1. PICK shown \in OnePerFamily(traceReport.sources), keyless \in BOOLEAN, missions \in {{}, TraceRef} :
            traceReport'.queue = {ItemFor(s, RepairScope(traceReport.status)) : s \in shown}
                                 \cup JoinItems(keyless, missions) \cup HighItems(traceReport.listed)
      BY <2>1, <2>3, ZenonT(30) DEF CompileReport, NoReport
    <3>2. \A s \in shown : ItemFor(s, RepairScope(traceReport.status)).priority \in {"medium", "high"}
      BY DEF ItemFor
    <3>3. \A item \in JoinItems(keyless, missions) \cup HighItems(traceReport.listed) :
            item.priority \in {"critical", "medium"}
      BY DEF JoinItems, HighItems, JoinItem
    <3> QED BY <3>1, <3>2, <3>3
  <2> QED BY <2>2, <2>3 DEF TraceNext
<1> QED BY <1>1, <1>2, TraceInductive, PTL DEF TraceSpec

(* What Builder recorded and what a report says have their types. *)
LEMMA TraceTypeCorrect == TraceSpec => []TraceTypeOK
<1>1. TraceIInv /\ (\A item \in traceReport.queue : item.priority \in {"critical", "high", "medium"}) => TraceTypeOK
  BY DEF TraceIInv, ReportTyped, TraceTypeOK
<1> QED BY <1>1, QueueRanked, TraceInductive, PTL

-----------------------------------------------------------------------------
(* The topology of the traces: the pass over the rows of all of them gives *)
(* each what queries of its own would.                                     *)

LEMMA EarliestIsThere ==
  ASSUME NEW S, S \subseteq Nat, S # {}
  PROVE  \E least \in S : \A y \in S : least <= y
<1>1. PICK least \in S : \A b \in S : ~(<<b, least>> \in OpToRel(<, Nat))
  BY NatLessThanWellFounded, WFMin
<1>2. ASSUME NEW y \in S, y < least PROVE FALSE
  <2>1. <<y, least>> \in {ss \in Nat \X Nat : ss[1] < ss[2]}
    BY <1>2
  <2> QED BY <1>1, <2>1 DEF OpToRel
<1> QED BY <1>2

LEMMA RowsAreFinite ==
  ASSUME NEW n \in Nat, NEW taken, taken \subseteq 1..n
  PROVE  IsFiniteSet(taken) /\ Cardinality(taken) \in Nat
<1>1. IsFiniteSet(1..n) /\ taken \in SUBSET (1..n)
  BY FS_Interval
<1>2. IsFiniteSet(taken)
  BY <1>1, FS_Subset
<1> QED BY <1>2, FS_CardinalityType

(* A later row takes the next rank and leaves the others where they are.   *)
LEMMA LastRowRanks ==
  ASSUME NEW n \in Nat \ {0}, NEW taken, taken \subseteq 1..(n - 1)
  PROVE  /\ \A k \in 1..Cardinality(taken) : RankedAt(k, taken \cup {n}) = RankedAt(k, taken)
         /\ RankedAt(Cardinality(taken) + 1, taken \cup {n}) = {n}
         /\ Cardinality(taken \cup {n}) = Cardinality(taken) + 1 /\ Cardinality(taken) \in Nat
<1>0. n - 1 \in Nat
  OBVIOUS
<1>1. IsFiniteSet(taken) /\ Cardinality(taken) \in Nat
  BY <1>0, RowsAreFinite
<1>2. n \notin taken
  OBVIOUS
<1>3. Cardinality(taken \cup {n}) = Cardinality(taken) + 1
  BY <1>1, <1>2, FS_AddElement
<1>4. ASSUME NEW i \in taken
      PROVE  /\ {j \in taken \cup {n} : j <= i} = {j \in taken : j <= i}
             /\ Cardinality({j \in taken : j <= i}) \in Nat
             /\ Cardinality({j \in taken : j <= i}) <= Cardinality(taken)
  <2>1. i \in 1..(n - 1) /\ ~(n <= i)
    OBVIOUS
  <2>2. {j \in taken : j <= i} \in SUBSET taken
    OBVIOUS
  <2>3. Cardinality({j \in taken : j <= i}) <= Cardinality(taken) /\ IsFiniteSet({j \in taken : j <= i})
    BY <1>1, <2>2, FS_Subset
  <2>4. {j \in taken \cup {n} : j <= i} = {j \in taken : j <= i}
    BY <2>1
  <2> QED BY <2>3, <2>4, FS_CardinalityType
<1>5. {j \in taken \cup {n} : j <= n} = taken \cup {n}
  <2>1. \A j \in taken \cup {n} : j <= n
    OBVIOUS
  <2> QED BY <2>1
<1>6. ASSUME NEW k \in 1..Cardinality(taken)
      PROVE  RankedAt(k, taken \cup {n}) = RankedAt(k, taken)
  <2>1. n \notin RankedAt(k, taken \cup {n})
    BY <1>1, <1>3, <1>5, <1>6 DEF RankedAt
  <2>2. \A i \in taken : i \in RankedAt(k, taken \cup {n}) <=> i \in RankedAt(k, taken)
    BY <1>4 DEF RankedAt
  <2>3. RankedAt(k, taken \cup {n}) \subseteq taken \cup {n} /\ RankedAt(k, taken) \subseteq taken
    BY DEF RankedAt
  <2> QED BY <2>1, <2>2, <2>3
<1>7. RankedAt(Cardinality(taken) + 1, taken \cup {n}) = {n}
  <2>1. n \in RankedAt(Cardinality(taken) + 1, taken \cup {n})
    BY <1>3, <1>5 DEF RankedAt
  <2>2. \A i \in taken : i \notin RankedAt(Cardinality(taken) + 1, taken \cup {n})
    <3>1. ASSUME NEW i \in taken PROVE i \notin RankedAt(Cardinality(taken) + 1, taken \cup {n})
      <4>1. Cardinality({j \in taken \cup {n} : j <= i}) <= Cardinality(taken)
        BY <1>4
      <4>2. Cardinality({j \in taken \cup {n} : j <= i}) \in Nat
        BY <1>4
      <4>3. Cardinality({j \in taken \cup {n} : j <= i}) # Cardinality(taken) + 1
        BY <1>1, <4>1, <4>2
      <4> QED BY <4>3 DEF RankedAt
    <3> QED BY <3>1
  <2>3. RankedAt(Cardinality(taken) + 1, taken \cup {n}) \subseteq taken \cup {n}
    BY DEF RankedAt
  <2> QED BY <2>1, <2>2, <2>3
<1> QED BY <1>1, <1>3, <1>6, <1>7

(* Each rank up to the number of rows is taken.                            *)
LEMMA RankIsTaken ==
  ASSUME NEW n \in Nat, NEW taken, taken \subseteq 1..n, NEW k \in 1..Cardinality(taken)
  PROVE  RankedAt(k, taken) # {} /\ RankedAt(k, taken) \subseteq taken
<1> DEFINE Open == {m \in Nat : \E S \in SUBSET (1..m) : \E r \in 1..Cardinality(S) : RankedAt(r, S) = {}}
<1>1. Open = {}
  <2> SUFFICES ASSUME Open # {} PROVE FALSE
    OBVIOUS
  <2>1. Open \subseteq Nat
    OBVIOUS
  <2> HIDE DEF Open
  <2>2. PICK m \in Open : \A b \in Open : m <= b
    BY <2>1, EarliestIsThere
  <2>3. m \in Nat
    BY <2>1
  <2>4. PICK S \in SUBSET (1..m) : \E r \in 1..Cardinality(S) : RankedAt(r, S) = {}
    BY <2>2 DEF Open
  <2>5. PICK r \in 1..Cardinality(S) : RankedAt(r, S) = {}
    BY <2>4
  <2>6. m # 0
    <3>1. m = 0 => S = {}
      BY <2>4
    <3>2. m = 0 => Cardinality(S) = 0
      BY <3>1, FS_EmptySet
    <3> QED BY <2>5, <3>2
  <2>7. m - 1 \in Nat /\ m - 1 \notin Open
    BY <2>2, <2>3, <2>6
  <2>8. CASE m \notin S
    <3>1. S \in SUBSET (1..(m - 1))
      BY <2>3, <2>4, <2>8
    <3> QED BY <2>5, <2>7, <3>1 DEF Open
  <2>9. CASE m \in S
    <3>1. PICK T : T = S \ {m}
      OBVIOUS
    <3>2. T \subseteq 1..(m - 1) /\ S = T \cup {m}
      BY <2>3, <2>4, <2>9, <3>1
    <3>3. /\ \A q \in 1..Cardinality(T) : RankedAt(q, S) = RankedAt(q, T)
          /\ RankedAt(Cardinality(T) + 1, S) = {m}
          /\ Cardinality(S) = Cardinality(T) + 1 /\ Cardinality(T) \in Nat
      <4>1. m \in Nat \ {0}
        BY <2>3, <2>6
      <4>2. /\ \A q \in 1..Cardinality(T) : RankedAt(q, T \cup {m}) = RankedAt(q, T)
            /\ RankedAt(Cardinality(T) + 1, T \cup {m}) = {m}
            /\ Cardinality(T \cup {m}) = Cardinality(T) + 1 /\ Cardinality(T) \in Nat
        BY <3>2, <4>1, LastRowRanks
      <4> QED BY <3>2, <4>2
    <3>4. r # Cardinality(T) + 1
      BY <2>5, <3>3
    <3>5. r \in 1..Cardinality(T)
      BY <2>5, <3>3, <3>4
    <3>6. RankedAt(r, T) = {}
      BY <2>5, <3>3, <3>5
    <3> QED BY <2>7, <3>2, <3>5, <3>6 DEF Open
  <2> QED BY <2>8, <2>9
<1>2. n \notin Open
  BY <1>1
<1>3. RankedAt(k, taken) # {}
  BY <1>2
<1> QED BY <1>3 DEF RankedAt

LEMMA LinkFacts ==
  ASSUME NEW n \in Nat, NEW taken, taken \subseteq 1..n
  PROVE  /\ LinksAmong(taken) \subseteq taken
         /\ IsFiniteSet(LinksAmong(taken)) /\ Cardinality(LinksAmong(taken)) \in Nat
         /\ IsFiniteSet(taken \ LinksAmong(taken)) /\ Cardinality(taken \ LinksAmong(taken)) \in Nat
         /\ IsFiniteSet(LinksAmong(taken) \cap Orphaned) /\ Cardinality(LinksAmong(taken) \cap Orphaned) \in Nat
<1>1. LinksAmong(taken) \subseteq taken
  BY DEF LinksAmong
<1> QED BY <1>1, RowsAreFinite

(* Every event of a trace is a root or a link.                             *)
LEMMA RowsAreRootsAndLinks ==
  ASSUME NEW n \in Nat, NEW taken, taken \subseteq 1..n
  PROVE  TopologyOf(taken).roots + TopologyOf(taken).links = Cardinality(taken)
<1> DEFINE links == LinksAmong(taken)
<1>1. links \subseteq taken /\ IsFiniteSet(links) /\ IsFiniteSet(taken \ links)
  BY LinkFacts
<1>2. TopologyOf(taken).roots = Cardinality(taken \ links) /\ TopologyOf(taken).links = Cardinality(links)
  BY DEF TopologyOf
<1>3. (taken \ links) \cup links = taken /\ (taken \ links) \cap links = {}
  BY <1>1
<1>4. Cardinality(taken) = Cardinality(taken \ links) + Cardinality(links)
  <2>1. PICK A : A = taken \ links
    OBVIOUS
  <2>2. PICK B : B = links
    OBVIOUS
  <2>3. /\ IsFiniteSet(A) /\ IsFiniteSet(B) /\ A \cup B = taken /\ A \cap B = {}
        /\ Cardinality(A) \in Nat /\ Cardinality(B) \in Nat
    BY <1>1, <1>3, <2>1, <2>2, LinkFacts
  <2>4. Cardinality(A \cup B) = Cardinality(A) + Cardinality(B) - Cardinality(A \cap B)
    BY <2>3, FS_Union
  <2>5. Cardinality(A \cap B) = 0
    BY <2>3, FS_EmptySet
  <2>6. Cardinality(A \cup B) = Cardinality(taken)
    BY <2>3
  <2>7. Cardinality(taken) = Cardinality(A) + Cardinality(B)
    <3> HIDE DEF links
    <3> QED BY <2>3, <2>4, <2>5, <2>6
  <2> QED BY <2>1, <2>2, <2>7
<1> QED BY <1>2, <1>4

EdgesOf(links) ==
  [k \in {m \in 1..EdgeLimit : m <= Cardinality(links)} |-> Edge(CHOOSE i \in RankedAt(k, links) : TRUE)]

LEMMA TopologyParts ==
  ASSUME NEW taken, NEW links, links = LinksAmong(taken)
  PROVE  TopologyOf(taken) = [roots |-> Cardinality(taken \ links), links |-> Cardinality(links),
                             orphans |-> Cardinality(links \cap Orphaned), edges |-> EdgesOf(links)]
BY DEF TopologyOf, EdgesOf

(* The sample of links takes a later link while there is room for it.      *)
LEMMA EdgesGrow ==
  ASSUME NEW n \in Nat \ {0}, NEW links, links \subseteq 1..(n - 1)
  PROVE  EdgesOf(links \cup {n}) =
           IF Len(EdgesOf(links)) < EdgeLimit THEN Append(EdgesOf(links), Edge(n)) ELSE EdgesOf(links)
<1>1. EdgeLimit \in Nat
  BY TraceHealthAssumption
<1>2. /\ \A k \in 1..Cardinality(links) : RankedAt(k, links \cup {n}) = RankedAt(k, links)
      /\ RankedAt(Cardinality(links) + 1, links \cup {n}) = {n}
      /\ Cardinality(links \cup {n}) = Cardinality(links) + 1 /\ Cardinality(links) \in Nat
  BY LastRowRanks
<1>3. PICK c \in Nat : c = Cardinality(links)
  BY <1>2
<1>4. PICK e : e = [k \in 1..(c + 1) |-> Edge(CHOOSE i \in RankedAt(k, links \cup {n}) : TRUE)]
  OBVIOUS
<1>5. e[c + 1] = Edge(n)
  <2>1. c + 1 \in 1..(c + 1)
    BY <1>3
  <2>2. e[c + 1] = Edge(CHOOSE i \in RankedAt(c + 1, links \cup {n}) : TRUE)
    BY <1>4, <2>1
  <2>3. RankedAt(c + 1, links \cup {n}) = {n}
    BY <1>2, <1>3
  <2>4. (CHOOSE i \in {n} : TRUE) = n
    OBVIOUS
  <2> QED BY <2>2, <2>3, <2>4
<1>6. ASSUME NEW k \in 1..c PROVE e[k] = Edge(CHOOSE i \in RankedAt(k, links) : TRUE)
  <2>1. RankedAt(k, links \cup {n}) = RankedAt(k, links)
    BY <1>2, <1>3
  <2>2. e[k] = Edge(CHOOSE i \in RankedAt(k, links \cup {n}) : TRUE)
    BY <1>4
  <2> QED BY <2>1, <2>2
<1>7. PICK A : A = {m \in 1..EdgeLimit : m <= Cardinality(links)}
  OBVIOUS
<1>8. PICK B : B = {m \in 1..EdgeLimit : m <= Cardinality(links \cup {n})}
  OBVIOUS
<1>9. A = {m \in 1..EdgeLimit : m <= c} /\ B = {m \in 1..EdgeLimit : m <= c + 1}
  BY <1>2, <1>3, <1>7, <1>8
<1>10. EdgesOf(links) = [k \in A |-> e[k]]
  <2>1. EdgesOf(links) = [k \in A |-> Edge(CHOOSE i \in RankedAt(k, links) : TRUE)]
    BY <1>7 DEF EdgesOf
  <2>2. \A k \in A : k \in 1..c
    BY <1>1, <1>3, <1>9
  <2>3. \A k \in A : e[k] = Edge(CHOOSE i \in RankedAt(k, links) : TRUE)
    BY <1>6, <2>2
  <2> QED BY <2>1, <2>3
<1>11. EdgesOf(links \cup {n}) = [k \in B |-> e[k]]
  <2>1. EdgesOf(links \cup {n}) = [k \in B |-> Edge(CHOOSE i \in RankedAt(k, links \cup {n}) : TRUE)]
    BY <1>8 DEF EdgesOf
  <2>2. \A k \in B : k \in 1..(c + 1)
    BY <1>1, <1>3, <1>9
  <2>3. \A k \in B : e[k] = Edge(CHOOSE i \in RankedAt(k, links \cup {n}) : TRUE)
    BY <1>4, <2>2
  <2> QED BY <2>1, <2>3
<1>12. PICK E : E = EdgesOf(links)
  OBVIOUS
<1>13. CASE c < EdgeLimit
  <2>1. A = 1..c /\ B = 1..(c + 1)
    BY <1>1, <1>3, <1>9, <1>13
  <2>2. E = [k \in 1..c |-> e[k]] /\ EdgesOf(links \cup {n}) = [k \in 1..(c + 1) |-> e[k]]
    BY <1>10, <1>11, <1>12, <2>1
  <2>3. E \in Seq({e[k] : k \in 1..c} \cup {Edge(n)}) /\ Len(E) = c
    BY <1>3, <2>2
  <2>4. Append(E, Edge(n)) = [k \in 1..(c + 1) |-> e[k]]
    <3>1. Append(E, Edge(n)) = [k \in 1..(c + 1) |-> IF k = c + 1 THEN Edge(n) ELSE E[k]]
      <4>1. PICK S : S = {e[k] : k \in 1..c} \cup {Edge(n)}
        OBVIOUS
      <4>2. PICK x : x = Edge(n)
        OBVIOUS
      <4>3. E \in Seq(S) /\ x \in S
        BY <2>3, <4>1, <4>2
      <4>4. Append(E, x) \in Seq(S) /\ Len(Append(E, x)) = c + 1
        BY <2>3, <4>3
      <4>5. \A k \in 1..(c + 1) : Append(E, x)[k] = IF k = c + 1 THEN x ELSE E[k]
        BY <2>3, <4>3
      <4>6. Append(E, x) = [k \in 1..(c + 1) |-> Append(E, x)[k]]
        <5>1. PICK q : q = Append(E, x)
          OBVIOUS
        <5>2. q \in [1..(c + 1) -> S]
          BY <4>4, <5>1, LenProperties
        <5> QED BY <5>1, <5>2
      <4> QED BY <4>2, <4>5, <4>6
    <3>2. \A k \in 1..(c + 1) : e[k] = IF k = c + 1 THEN Edge(n) ELSE E[k]
      BY <1>3, <1>5, <2>2
    <3> QED BY <3>1, <3>2
  <2> QED BY <1>12, <1>13, <2>2, <2>3, <2>4
<1>14. CASE ~(c < EdgeLimit)
  <2>1. A = 1..EdgeLimit /\ B = 1..EdgeLimit
    BY <1>1, <1>3, <1>9, <1>14
  <2>2. E = [k \in 1..EdgeLimit |-> e[k]] /\ EdgesOf(links \cup {n}) = E
    BY <1>10, <1>11, <1>12, <2>1
  <2>3. E \in Seq({e[k] : k \in 1..EdgeLimit}) /\ Len(E) = EdgeLimit
    BY <1>1, <2>2
  <2>4. ~(Len(E) < EdgeLimit)
    BY <1>1, <2>3
  <2> QED BY <1>12, <2>2, <2>4
<1> QED BY <1>13, <1>14

(* One more row of the pass is one more row of the queries.                *)
LEMMA RowIsCounted ==
  ASSUME NEW n \in Nat \ {0}, NEW taken, taken \subseteq 1..(n - 1)
  PROVE  TopologyOf(taken \cup {n}) = WithRow(TopologyOf(taken), n)
<1>1. PICK links : links = LinksAmong(taken)
  OBVIOUS
<1>2. /\ links \subseteq taken /\ IsFiniteSet(links) /\ IsFiniteSet(taken \ links)
      /\ IsFiniteSet(links \cap Orphaned)
      /\ Cardinality(links) \in Nat /\ Cardinality(taken \ links) \in Nat
      /\ Cardinality(links \cap Orphaned) \in Nat
  <2>1. n - 1 \in Nat
    OBVIOUS
  <2> QED BY <1>1, <2>1, LinkFacts
<1>3. n \notin taken
  OBVIOUS
<1>4. PICK r : r = Cardinality(taken \ links)
  OBVIOUS
<1>5. PICK c : c = Cardinality(links)
  OBVIOUS
<1>6. PICK o : o = Cardinality(links \cap Orphaned)
  OBVIOUS
<1>7. PICK E : E = EdgesOf(links)
  OBVIOUS
<1>8. TopologyOf(taken) = [roots |-> r, links |-> c, orphans |-> o, edges |-> E]
  BY <1>1, <1>4, <1>5, <1>6, <1>7, TopologyParts
<1>9. CASE builderEvents[n].parent = NoParent
  <2>1. LinksAmong(taken \cup {n}) = links
    BY <1>1, <1>9 DEF LinksAmong
  <2>2. (taken \cup {n}) \ links = (taken \ links) \cup {n} /\ n \notin taken \ links
    BY <1>2, <1>3
  <2>3. Cardinality((taken \ links) \cup {n}) = r + 1
    BY <1>2, <1>4, <2>2, FS_AddElement
  <2>4. Cardinality((taken \cup {n}) \ links) = r + 1
    BY <2>2, <2>3
  <2>5. TopologyOf(taken \cup {n}) = [roots |-> r + 1, links |-> c, orphans |-> o, edges |-> E]
    BY <1>5, <1>6, <1>7, <2>1, <2>4, TopologyParts
  <2>6. WithRow([roots |-> r, links |-> c, orphans |-> o, edges |-> E], n) =
          [roots |-> r + 1, links |-> c, orphans |-> o, edges |-> E]
    BY <1>9 DEF WithRow
  <2> QED BY <1>8, <2>5, <2>6
<1>10. CASE builderEvents[n].parent # NoParent
  <2>1. LinksAmong(taken \cup {n}) = links \cup {n}
    BY <1>1, <1>10 DEF LinksAmong
  <2>2. (taken \cup {n}) \ (links \cup {n}) = taken \ links
    BY <1>2, <1>3
  <2>3. Cardinality(links \cup {n}) = c + 1
    BY <1>2, <1>3, <1>5, FS_AddElement
  <2>4. Cardinality((links \cup {n}) \cap Orphaned) = IF n \in Orphaned THEN o + 1 ELSE o
    <3>1. CASE n \in Orphaned
      <4>1. (links \cup {n}) \cap Orphaned = (links \cap Orphaned) \cup {n} /\ n \notin links \cap Orphaned
        BY <1>2, <1>3, <3>1
      <4>2. Cardinality((links \cap Orphaned) \cup {n}) = o + 1
        BY <1>2, <1>6, <4>1, FS_AddElement
      <4> QED BY <3>1, <4>1, <4>2
    <3>2. CASE n \notin Orphaned
      <4>1. (links \cup {n}) \cap Orphaned = links \cap Orphaned
        BY <3>2
      <4> QED BY <1>6, <3>2, <4>1
    <3> QED BY <3>1, <3>2
  <2>5. EdgesOf(links \cup {n}) = IF Len(E) < EdgeLimit THEN Append(E, Edge(n)) ELSE E
    BY <1>2, <1>7, EdgesGrow
  <2>6. TopologyOf(taken \cup {n}) =
          [roots |-> r, links |-> c + 1, orphans |-> IF n \in Orphaned THEN o + 1 ELSE o,
           edges |-> IF Len(E) < EdgeLimit THEN Append(E, Edge(n)) ELSE E]
    <3>1. PICK links2 : links2 = links \cup {n}
      OBVIOUS
    <3>2. TopologyOf(taken \cup {n}) =
            [roots |-> Cardinality((taken \cup {n}) \ links2), links |-> Cardinality(links2),
             orphans |-> Cardinality(links2 \cap Orphaned), edges |-> EdgesOf(links2)]
      BY <2>1, <3>1, TopologyParts
    <3>3. Cardinality((taken \cup {n}) \ links2) = r
      BY <1>4, <2>2, <3>1
    <3> QED BY <2>3, <2>4, <2>5, <3>1, <3>2, <3>3
  <2>7. WithRow([roots |-> r, links |-> c, orphans |-> o, edges |-> E], n) =
          [roots |-> r, links |-> c + 1, orphans |-> IF n \in Orphaned THEN o + 1 ELSE o,
           edges |-> IF Len(E) < EdgeLimit THEN Append(E, Edge(n)) ELSE E]
    BY <1>10 DEF WithRow
  <2> QED BY <1>8, <2>6, <2>7
<1> QED BY <1>9, <1>10

LEMMA NothingTraced ==
  ASSUME NEW ts
  PROVE  NoRows(ts) = [t \in ts |-> TopologyOf(TracedUpTo(t, 0))]
<1>1. (\A t : TracedUpTo(t, 0) = {}) /\ LinksAmong({}) = {}
  BY DEF TracedUpTo, LinksAmong
<1>2. Cardinality({} \ {}) = 0 /\ Cardinality({}) = 0 /\ Cardinality({} \cap Orphaned) = 0
  BY FS_EmptySet
<1>3. EdgesOf({}) = <<>>
  <2>1. {k \in 1..EdgeLimit : k <= Cardinality({})} = {}
    BY <1>2, TraceHealthAssumption
  <2>2. EdgesOf({}) = [k \in {} |-> Edge(CHOOSE i \in RankedAt(k, {}) : TRUE)]
    BY <2>1 DEF EdgesOf
  <2> QED BY <2>2
<1>4. TopologyOf({}) = [roots |-> 0, links |-> 0, orphans |-> 0, edges |-> <<>>]
  BY <1>1, <1>2, <1>3, TopologyParts
<1> QED BY <1>1, <1>4 DEF NoRows

LEMMA RowPassed ==
  ASSUME builderEvents \in Seq(BuilderEvent), NEW m \in 1..Len(builderEvents), NEW ts
  PROVE  RowAdded([t \in ts |-> TopologyOf(TracedUpTo(t, m - 1))], m) = [t \in ts |-> TopologyOf(TracedUpTo(t, m))]
<1>1. EventRow = 1..Len(builderEvents) /\ m \in Nat \ {0} /\ m \in EventRow
  BY EventFacts
<1>2. ASSUME NEW t
      PROVE  TopologyOf(TracedUpTo(t, m)) =
               IF builderEvents[m].trace = t THEN WithRow(TopologyOf(TracedUpTo(t, m - 1)), m)
               ELSE TopologyOf(TracedUpTo(t, m - 1))
  <2>1. CASE builderEvents[m].trace = t
    <3>1. TracedUpTo(t, m) = TracedUpTo(t, m - 1) \cup {m}
      BY <1>1, <2>1 DEF TracedUpTo, TracedTo
    <3>2. PICK taken : taken = TracedUpTo(t, m - 1)
      OBVIOUS
    <3>3. taken \subseteq 1..(m - 1)
      BY <3>2 DEF TracedUpTo
    <3>4. TopologyOf(taken \cup {m}) = WithRow(TopologyOf(taken), m)
      BY <1>1, <3>3, RowIsCounted
    <3> QED BY <2>1, <3>1, <3>2, <3>4
  <2>2. CASE builderEvents[m].trace # t
    <3>1. TracedUpTo(t, m) = TracedUpTo(t, m - 1)
      BY <1>1, <2>2 DEF TracedUpTo, TracedTo
    <3> QED BY <2>2, <3>1
  <2> QED BY <2>1, <2>2
<1>3. PICK counts : counts = [t \in ts |-> TopologyOf(TracedUpTo(t, m - 1))]
  OBVIOUS
<1>4. DOMAIN counts = ts /\ \A t \in ts : counts[t] = TopologyOf(TracedUpTo(t, m - 1))
  BY <1>3
<1>5. RowAdded(counts, m) = [t \in ts |-> IF builderEvents[m].trace = t THEN WithRow(counts[t], m) ELSE counts[t]]
  BY <1>4 DEF RowAdded
<1>6. \A t \in ts : (IF builderEvents[m].trace = t THEN WithRow(counts[t], m) ELSE counts[t]) = TopologyOf(TracedUpTo(t, m))
  BY <1>2, <1>4
<1> QED BY <1>3, <1>5, <1>6

(* The pass: after n rows it has counted the first n.                      *)
CountsUpTo(ts, n) == [t \in ts |-> TopologyOf(TracedUpTo(t, n))]

LEMMA PassCounts ==
  ASSUME builderEvents \in Seq(BuilderEvent), NEW ts, NEW n \in 0..Len(builderEvents), NEW counts,
         counts = [m \in 0..Len(builderEvents) |-> IF m = 0 THEN NoRows(ts) ELSE RowAdded(counts[m - 1], m)]
  PROVE  counts[n] = CountsUpTo(ts, n)
<1>1. Len(builderEvents) \in Nat
  BY EventFacts
<1> DEFINE Wrong == {m \in 0..Len(builderEvents) : counts[m] # CountsUpTo(ts, m)}
<1>2. SUFFICES ASSUME n \in Wrong PROVE FALSE
  OBVIOUS
<1>3. Wrong \subseteq Nat
  BY <1>1
<1> HIDE DEF Wrong
<1>4. PICK m \in Wrong : \A b \in Wrong : m <= b
  <2>1. Wrong # {}
    BY <1>2
  <2> QED BY <1>3, <2>1, EarliestIsThere
<1>5. m \in 0..Len(builderEvents) /\ counts[m] # CountsUpTo(ts, m)
  BY <1>4 DEF Wrong
<1>6. counts[m] = IF m = 0 THEN NoRows(ts) ELSE RowAdded(counts[m - 1], m)
  BY <1>5
<1>7. CASE m = 0
  BY <1>5, <1>6, <1>7, NothingTraced DEF CountsUpTo
<1>8. CASE m # 0
  <2>1. m \in 1..Len(builderEvents) /\ m - 1 \in 0..Len(builderEvents) /\ m - 1 \notin Wrong
    BY <1>1, <1>4, <1>5, <1>8
  <2>2. counts[m - 1] = CountsUpTo(ts, m - 1)
    BY <2>1 DEF Wrong
  <2>3. RowAdded(CountsUpTo(ts, m - 1), m) = CountsUpTo(ts, m)
    BY <2>1, RowPassed DEF CountsUpTo
  <2> QED BY <1>5, <1>6, <1>8, <2>2, <2>3
<1> QED BY <1>7, <1>8

LEMMA PassIsThere ==
  ASSUME builderEvents \in Seq(BuilderEvent), NEW ts
  PROVE  \E counts : counts =
           [m \in 0..Len(builderEvents) |-> IF m = 0 THEN NoRows(ts) ELSE RowAdded(counts[m - 1], m)]
<1>1. Len(builderEvents) \in Nat
  BY EventFacts
<1>2. PICK counts : counts = [m \in 0..Len(builderEvents) |-> CountsUpTo(ts, m)]
  OBVIOUS
<1>3. ASSUME NEW m \in 0..Len(builderEvents)
      PROVE  counts[m] = IF m = 0 THEN NoRows(ts) ELSE RowAdded(counts[m - 1], m)
  <2>1. CASE m = 0
    BY <1>2, <2>1, NothingTraced DEF CountsUpTo
  <2>2. CASE m # 0
    <3>1. m \in 1..Len(builderEvents) /\ m - 1 \in 0..Len(builderEvents)
      BY <1>1, <2>2
    <3>2. counts[m - 1] = CountsUpTo(ts, m - 1) /\ counts[m] = CountsUpTo(ts, m)
      BY <1>2, <3>1
    <3>3. RowAdded(CountsUpTo(ts, m - 1), m) = CountsUpTo(ts, m)
      BY <3>1, RowPassed DEF CountsUpTo
    <3> QED BY <2>2, <3>2, <3>3
  <2> QED BY <2>1, <2>2
<1>4. DOMAIN counts = 0..Len(builderEvents) /\ counts = [m \in 0..Len(builderEvents) |-> counts[m]]
  BY <1>2
<1>5. counts = [m \in 0..Len(builderEvents) |-> IF m = 0 THEN NoRows(ts) ELSE RowAdded(counts[m - 1], m)]
  BY <1>3, <1>4
<1> QED BY <1>5

(* The single pass over all the traces (system_map.py,                     *)
(* batched_builder_trace_topology) gives each what queries of its own      *)
(* would (builder_trace_topology).                                         *)
THEOREM PassAgreesWithQueries ==
  ASSUME builderEvents \in Seq(BuilderEvent), NEW ts
  PROVE  BatchedTopology(ts) = [t \in ts |-> Topology(t)]
<1>1. EventRow = 1..Len(builderEvents) /\ Len(builderEvents) \in Nat
  BY EventFacts
<1>2. \E f : f = [m \in 0..Len(builderEvents) |-> IF m = 0 THEN NoRows(ts) ELSE RowAdded(f[m - 1], m)]
  BY PassIsThere
<1>3. PICK counts : counts = RowByRow(ts)
  OBVIOUS
<1>4. counts = [m \in 0..Len(builderEvents) |-> IF m = 0 THEN NoRows(ts) ELSE RowAdded(counts[m - 1], m)]
  BY <1>2, <1>3 DEF RowByRow
<1>5. counts[Len(builderEvents)] = CountsUpTo(ts, Len(builderEvents))
  <2>1. Len(builderEvents) \in 0..Len(builderEvents)
    BY <1>1
  <2> QED BY <1>4, <2>1, PassCounts
<1>6. \A t : TracedUpTo(t, Len(builderEvents)) = TracedTo(t)
  BY <1>1 DEF TracedUpTo, TracedTo
<1> QED BY <1>3, <1>5, <1>6 DEF BatchedTopology, Topology, CountsUpTo

(* What happens next leaves trace and parent of what was recorded, and no  *)
(* event that was lost turns up.                                           *)
LEMMA EventsAreKept ==
  ASSUME TraceIInv, ParentsAreEarlier, [TraceNext]_trace_vars
  PROVE  /\ EventRow = 1..Len(builderEvents) /\ EventRow' = 1..Len(builderEvents')
         /\ Len(builderEvents) \in Nat /\ Len(builderEvents') \in Nat
         /\ Len(builderEvents) <= Len(builderEvents') /\ Len(builderEvents') <= MaxBuilderEvents
         /\ \A i \in EventRow : /\ builderEvents'[i].trace = builderEvents[i].trace
                                /\ builderEvents'[i].parent = builderEvents[i].parent
         /\ ParentsAreEarlier'
<1>1. builderEvents \in Seq(BuilderEvent) /\ EventRow = 1..Len(builderEvents) /\ Len(builderEvents) \in Nat
  BY EventFacts DEF TraceIInv
<1>2. CASE Record
  <2>1. PICK f \in Family, k \in EventKind, t \in TraceRef \cup {NoTrace}, p \in EventRow \cup {NoParent, LostParent} :
          builderEvents' = Append(builderEvents, [family |-> f, kind |-> k, trace |-> t, parent |-> p, age |-> "hour"])
    BY <1>2 DEF Record
  <2>2. PICK e : e = [family |-> f, kind |-> k, trace |-> t, parent |-> p, age |-> "hour"]
    OBVIOUS
  <2>3. p \in 0..LostParent
    BY <1>1, <1>2, <2>1, TraceHealthAssumption DEF Record, NoParent, LostParent
  <2>4. e \in BuilderEvent /\ e.parent = p
    BY <2>2, <2>3 DEF BuilderEvent, EventAge
  <2>5. builderEvents' = Append(builderEvents, e)
    BY <2>1, <2>2
  <2>6. /\ Len(builderEvents') = Len(builderEvents) + 1 /\ EventRow' = 1..Len(builderEvents')
        /\ builderEvents'[Len(builderEvents) + 1] = e
        /\ \A i \in EventRow : builderEvents'[i] = builderEvents[i]
    BY <1>1, <2>4, <2>5 DEF EventRow
  <2>7. Len(builderEvents') <= MaxBuilderEvents
    BY <1>1, <1>2, <2>6, TraceHealthAssumption DEF Record
  <2>8. ParentsAreEarlier'
    <3>1. ASSUME NEW i \in 1..Len(builderEvents')
          PROVE  builderEvents'[i].parent < i \/ builderEvents'[i].parent = LostParent
      <4>1. CASE i = Len(builderEvents) + 1
        BY <1>1, <2>4, <2>6, <4>1 DEF NoParent
      <4>2. CASE i # Len(builderEvents) + 1
        <5>1. i \in EventRow
          BY <1>1, <2>6, <4>2
        <5> QED BY <2>6, <5>1 DEF ParentsAreEarlier
      <4> QED BY <4>1, <4>2
    <3>2. LostParent' = LostParent
      BY DEF LostParent
    <3> QED BY <2>6, <2>7, <3>1, <3>2 DEF ParentsAreEarlier
  <2> QED BY <1>1, <2>6, <2>7, <2>8
<1>3. CASE HoursPass
  <2>1. builderEvents' = [i \in EventRow |-> [builderEvents[i] EXCEPT !.age = IF @ = "hour" THEN "day" ELSE "older"]]
    BY <1>3 DEF HoursPass
  <2>2. ASSUME NEW i \in EventRow
        PROVE  /\ builderEvents'[i] \in BuilderEvent
               /\ builderEvents'[i].trace = builderEvents[i].trace
               /\ builderEvents'[i].parent = builderEvents[i].parent
    <3>1. PICK e \in BuilderEvent : e = builderEvents[i]
      BY <1>1
    <3>2. builderEvents'[i] = [e EXCEPT !.age = IF @ = "hour" THEN "day" ELSE "older"]
      BY <2>1, <3>1
    <3> QED BY <3>1, <3>2 DEF BuilderEvent, EventAge
  <2>3. Len(builderEvents') = Len(builderEvents) /\ EventRow' = 1..Len(builderEvents)
    BY <1>1, <2>1, <2>2 DEF EventRow
  <2>4. LostParent' = LostParent
    BY DEF LostParent
  <2>5. ParentsAreEarlier'
    BY <1>1, <2>2, <2>3, <2>4 DEF ParentsAreEarlier
  <2> QED BY <1>1, <2>2, <2>3, <2>5 DEF ParentsAreEarlier
<1>4. CASE UNCHANGED builderEvents
  <2>1. EventRow' = EventRow /\ LostParent' = LostParent /\ Len(builderEvents') = Len(builderEvents)
    BY <1>4 DEF EventRow, LostParent
  <2>2. ParentsAreEarlier'
    BY <1>4, <2>1 DEF ParentsAreEarlier
  <2> QED BY <1>1, <1>4, <2>1, <2>2 DEF ParentsAreEarlier
<1> QED BY <1>2, <1>3, <1>4
     DEF TraceNext, trace_vars, BeginReport, ReadCounts, ReadSources, ListHighSources, CompileReport

LEMMA TracedParts ==
  \A t, n : LET taken == TracedUpTo(t, n)
                links == LinksAmong(taken)
            IN TopologyOf(taken) = [roots |-> Cardinality(taken \ links), links |-> Cardinality(links),
                                   orphans |-> Cardinality(links \cap Orphaned), edges |-> EdgesOf(links)]
BY TopologyParts

LEMMA TracedPartsNext ==
  (\A t, n : LET taken == TracedUpTo(t, n)
                 links == LinksAmong(taken)
             IN TopologyOf(taken) = [roots |-> Cardinality(taken \ links), links |-> Cardinality(links),
                                    orphans |-> Cardinality(links \cap Orphaned), edges |-> EdgesOf(links)])'
BY TracedParts, PTL

(* The topology of rows that are recorded does not change any more.        *)
LEMMA TopologyStays ==
  ASSUME TraceIInv, ParentsAreEarlier, [TraceNext]_trace_vars, NEW t, NEW n \in 0..Len(builderEvents)
  PROVE  /\ TracedUpTo(t, n)' = TracedUpTo(t, n)
         /\ TopologyOf(TracedUpTo(t, n))' = TopologyOf(TracedUpTo(t, n))
<1>1. /\ EventRow = 1..Len(builderEvents) /\ EventRow' = 1..Len(builderEvents')
      /\ Len(builderEvents) \in Nat /\ Len(builderEvents') \in Nat
      /\ Len(builderEvents) <= Len(builderEvents') /\ Len(builderEvents') <= MaxBuilderEvents
      /\ \A i \in EventRow : /\ builderEvents'[i].trace = builderEvents[i].trace
                             /\ builderEvents'[i].parent = builderEvents[i].parent
  BY EventsAreKept
<1>2. PICK taken : taken = TracedUpTo(t, n)
  OBVIOUS
<1>3. taken \subseteq 1..n /\ taken \subseteq EventRow /\ taken \subseteq EventRow' /\ n \in Nat
  BY <1>1, <1>2 DEF TracedUpTo
<1>4. TracedUpTo(t, n)' = taken
  BY <1>1, <1>2 DEF TracedUpTo, TracedTo
<1>5. PICK links : links = LinksAmong(taken)
  OBVIOUS
<1>6. links \subseteq taken
  BY <1>5 DEF LinksAmong
<1>7. {i \in taken : builderEvents'[i].parent # NoParent} = links
  BY <1>1, <1>3, <1>5 DEF LinksAmong
<1>8. ASSUME NEW i \in links
      PROVE  /\ builderEvents[i].parent \in EventRow' <=> builderEvents[i].parent \in EventRow
             /\ i \in Orphaned' <=> i \in Orphaned
             /\ Edge(i)' = Edge(i)
  <2>1. i \in EventRow /\ i \in EventRow' /\ i \in Nat
    BY <1>1, <1>3, <1>6
  <2>2. PICK p : p = builderEvents[i].parent
    OBVIOUS
  <2>3. p \in Nat
    <3>1. builderEvents[i] \in BuilderEvent
      BY <1>1, <2>1 DEF TraceIInv
    <3> QED BY <2>2, <3>1, TraceHealthAssumption DEF BuilderEvent, LostParent
  <2>4. p < i \/ p = MaxBuilderEvents + 1
    BY <2>1, <2>2 DEF ParentsAreEarlier, LostParent
  <2>5. p \in EventRow' <=> p \in EventRow
    BY <1>1, <2>1, <2>3, <2>4, TraceHealthAssumption
  <2>6. builderEvents'[i].parent = p /\ builderEvents'[i].trace = builderEvents[i].trace
    BY <1>1, <2>1, <2>2
  <2>7. i \in Orphaned' <=> i \in Orphaned
    BY <2>1, <2>2, <2>5, <2>6 DEF Orphaned, NoParent
  <2>8. (p \in EventRow' /\ builderEvents'[p].trace = builderEvents'[i].trace)
          <=> (p \in EventRow /\ builderEvents[p].trace = builderEvents[i].trace)
    BY <1>1, <2>5, <2>6
  <2>9. Edge(i) = [parent |-> p, child |-> i, known |-> p \in EventRow,
                   same |-> p \in EventRow /\ builderEvents[p].trace = builderEvents[i].trace]
    BY <2>2 DEF Edge
  <2>10. Edge(i)' = [parent |-> p, child |-> i, known |-> p \in EventRow',
                     same |-> p \in EventRow' /\ builderEvents'[p].trace = builderEvents'[i].trace]
    BY <2>6 DEF Edge
  <2>11. Edge(i)' = Edge(i)
    BY <2>5, <2>8, <2>9, <2>10
  <2> QED BY <2>2, <2>5, <2>7, <2>11
<1>9. links \cap Orphaned' = links \cap Orphaned
  BY <1>8
<1>10. ASSUME NEW k \in {m \in 1..EdgeLimit : m <= Cardinality(links)}
       PROVE  (CHOOSE i \in RankedAt(k, links) : TRUE) \in links
  <2>1. links \subseteq 1..n /\ Cardinality(links) \in Nat
    BY <1>3, <1>6, RowsAreFinite
  <2>2. k \in 1..Cardinality(links)
    BY <2>1, TraceHealthAssumption
  <2>3. RankedAt(k, links) # {} /\ RankedAt(k, links) \subseteq links
    BY <1>3, <2>1, <2>2, RankIsTaken
  <2> QED BY <2>3
<1>11. [k \in {m \in 1..EdgeLimit : m <= Cardinality(links)} |-> Edge(CHOOSE i \in RankedAt(k, links) : TRUE)']
       = [k \in {m \in 1..EdgeLimit : m <= Cardinality(links)} |-> Edge(CHOOSE i \in RankedAt(k, links) : TRUE)]
  BY <1>8, <1>10
<1>12. LinksAmong(TracedUpTo(t, n))' = links
  BY <1>4, <1>7 DEF LinksAmong
<1>13. EdgesOf(links) =
         [k \in {m \in 1..EdgeLimit : m <= Cardinality(links)} |-> Edge(CHOOSE i \in RankedAt(k, links) : TRUE)]
  BY DEF EdgesOf
<1>14. EdgesOf(LinksAmong(TracedUpTo(t, n)))' = EdgesOf(links)
  BY <1>11, <1>12, <1>13 DEF EdgesOf
<1>15. TopologyOf(TracedUpTo(t, n)) =
         [roots |-> Cardinality(taken \ links), links |-> Cardinality(links),
          orphans |-> Cardinality(links \cap Orphaned), edges |-> EdgesOf(links)]
  BY <1>2, <1>5, TopologyParts
<1>16. TopologyOf(TracedUpTo(t, n))' =
         [roots |-> Cardinality(taken \ links), links |-> Cardinality(links),
          orphans |-> Cardinality(links \cap Orphaned'), edges |-> EdgesOf(LinksAmong(TracedUpTo(t, n)))']
  BY <1>4, <1>12, TracedPartsNext
<1> QED BY <1>2, <1>4, <1>9, <1>14, <1>15, <1>16

(* What was read of the groups and their topology is so at some moment     *)
(* since the report began, and stays so.                                   *)
LEMMA TopologyIsKept ==
  ASSUME TraceIInv, TopologyIInv, [TraceNext]_trace_vars
  PROVE  TopologyIInv'
<1>1. /\ EventRow = 1..Len(builderEvents) /\ Len(builderEvents) \in Nat /\ Len(builderEvents') \in Nat
      /\ Len(builderEvents) <= Len(builderEvents') /\ ParentsAreEarlier'
  BY EventsAreKept DEF TopologyIInv
<1>2. traceReport.from \in 0..Len(builderEvents) /\ builderEvents \in Seq(BuilderEvent)
      /\ DOMAIN traceReport = DOMAIN NoReport
  BY DEF TraceIInv, ReportTyped
<1>3. \A t : \A n \in 0..Len(builderEvents) :
        /\ TracedUpTo(t, n)' = TracedUpTo(t, n)
        /\ TopologyOf(TracedUpTo(t, n))' = TopologyOf(TracedUpTo(t, n))
  BY TopologyStays DEF TopologyIInv
<1>4. CASE /\ traceReport'.groups = traceReport.groups /\ traceReport'.from = traceReport.from
           /\ traceReport'.topology = traceReport.topology
           /\ traceReport'.stage \notin {"none", "grouped"} => traceReport.stage \notin {"none", "grouped"}
  <2>1. \A g \in traceReport'.groups :
          g.trace \in TraceRef /\ g.count = Cardinality(TracedUpTo(g.trace, traceReport.from)')
    BY <1>2, <1>3, <1>4 DEF TopologyIInv
  <2>2. ASSUME traceReport'.stage \notin {"none", "grouped"}
        PROVE  \E n \in traceReport'.from..Len(builderEvents') :
                 traceReport'.topology = [t \in {g.trace : g \in traceReport'.groups} |-> TopologyOf(TracedUpTo(t, n))']
    <3>1. PICK n \in traceReport.from..Len(builderEvents) :
            traceReport.topology = [t \in {g.trace : g \in traceReport.groups} |-> TopologyOf(TracedUpTo(t, n))]
      BY <1>4, <2>2 DEF TopologyIInv
    <3>2. n \in 0..Len(builderEvents) /\ n \in traceReport'.from..Len(builderEvents')
      BY <1>1, <1>2, <1>4, <3>1
    <3>3. \A t : TopologyOf(TracedUpTo(t, n))' = TopologyOf(TracedUpTo(t, n))
      BY <1>3, <3>2
    <3> QED BY <1>4, <3>1, <3>2, <3>3
  <2> QED BY <1>1, <1>4, <2>1, <2>2 DEF TopologyIInv
<1>5. CASE BeginReport
  <2>1. /\ traceReport'.stage = "grouped" /\ traceReport'.from = Len(builderEvents)
        /\ traceReport'.groups = TraceGroups /\ UNCHANGED builderEvents
    BY <1>5 DEF BeginReport, NoReport
  <2>2. ASSUME NEW g \in TraceGroups
        PROVE  g.trace \in TraceRef /\ g.count = Cardinality(TracedTo(g.trace))
    <3>1. PICK u \in TraceRef : g = [trace |-> u, count |-> Cardinality(TracedTo(u))]
      BY Zenon DEF TraceGroups
    <3> QED BY <3>1
  <2>3. \A t : TracedUpTo(t, Len(builderEvents)) = TracedTo(t)
    BY <1>1 DEF TracedUpTo, TracedTo
  <2>4. \A t : TracedUpTo(t, Len(builderEvents))' = TracedUpTo(t, Len(builderEvents))
    BY <2>1 DEF TracedUpTo, TracedTo, EventRow
  <2> QED BY <1>1, <2>1, <2>2, <2>3, <2>4 DEF TopologyIInv
<1>6. CASE ReadCounts
  <2>1. /\ traceReport'.groups = traceReport.groups /\ traceReport'.from = traceReport.from
        /\ traceReport'.topology = BatchedTopology({g.trace : g \in traceReport.groups})
        /\ UNCHANGED builderEvents
    BY <1>2, <1>6 DEF ReadCounts, NoReport
  <2>2. PICK ts : ts = {g.trace : g \in traceReport.groups}
    OBVIOUS
  <2>3. \A t : TracedUpTo(t, Len(builderEvents)) = TracedTo(t)
    BY <1>1 DEF TracedUpTo, TracedTo
  <2>4. PICK n \in Nat : n = Len(builderEvents)
    BY <1>1
  <2>5. BatchedTopology(ts) = [t \in ts |-> TopologyOf(TracedUpTo(t, n))]
    BY <1>2, <2>3, <2>4, PassAgreesWithQueries DEF Topology
  <2>6. n \in traceReport'.from..Len(builderEvents')
    BY <1>1, <1>2, <2>1, <2>4
  <2>7. \A t : TopologyOf(TracedUpTo(t, n))' = TopologyOf(TracedUpTo(t, n))
    BY <1>3, <2>4
  <2>8. traceReport'.topology = [t \in ts |-> TopologyOf(TracedUpTo(t, n))']
    BY <2>1, <2>2, <2>5, <2>7
  <2>9. \E m \in traceReport'.from..Len(builderEvents') :
          traceReport'.topology = [t \in {g.trace : g \in traceReport'.groups} |-> TopologyOf(TracedUpTo(t, m))']
    BY <2>1, <2>2, <2>6, <2>8
  <2>10. \A g \in traceReport'.groups :
           g.trace \in TraceRef /\ g.count = Cardinality(TracedUpTo(g.trace, traceReport.from)')
    BY <1>2, <1>3, <2>1 DEF TopologyIInv
  <2> QED BY <1>1, <2>1, <2>9, <2>10 DEF TopologyIInv
<1>7. TopologyIInv'
  <2>1. CASE Record \/ HoursPass \/ ReadSources \/ ListHighSources \/ UNCHANGED trace_vars
    BY <1>2, <1>4, <2>1 DEF Record, HoursPass, ReadSources, ListHighSources, trace_vars, NoReport
  <2>2. CASE CompileReport
    BY <1>2, <1>4, <2>2 DEF CompileReport, NoReport
  <2> QED BY <1>5, <1>6, <2>1, <2>2 DEF TraceNext
<1> QED BY <1>7

LEMMA TopologyInductive == TraceSpec => []TopologyIInv
<1>1. TraceInit => TopologyIInv
  <2>1. ASSUME TraceInit PROVE ParentsAreEarlier
    BY <2>1, TraceHealthAssumption DEF TraceInit, ParentsAreEarlier, EventRow
  <2> QED BY <2>1 DEF TraceInit, NoReport, TopologyIInv
<1>2. TraceIInv /\ TopologyIInv /\ [TraceNext]_trace_vars => TopologyIInv'
  BY TopologyIsKept
<1> QED BY <1>1, <1>2, TraceInductive, PTL DEF TraceSpec

(* A finished report (system_map.py, build_trace_index) shows the topology *)
(* of a trace whole, if nothing of it was recorded meanwhile, and never    *)
(* less of it than the number of events it tells.                          *)
LEMMA TopologyComesOutWhole ==
  ASSUME TraceIInv, TopologyIInv, traceReport.stage = "done"
  PROVE  TopologyIsWhole
<1>1. /\ EventRow = 1..Len(builderEvents) /\ Len(builderEvents) \in Nat
      /\ builderEvents \in Seq(BuilderEvent) /\ traceReport.from \in 0..Len(builderEvents)
  BY EventFacts DEF TraceIInv, ReportTyped
<1>2. PICK n \in traceReport.from..Len(builderEvents) :
        traceReport.topology = [t \in {g.trace : g \in traceReport.groups} |-> TopologyOf(TracedUpTo(t, n))]
  BY DEF TopologyIInv
<1>3. n \in Nat /\ n \in 0..Len(builderEvents) /\ traceReport.from \in Nat /\ traceReport.from <= n
  BY <1>1, <1>2
<1>4. ASSUME NEW g \in traceReport.groups
      PROVE  LET t == traceReport.topology[g.trace]
             IN /\ t.roots + t.links >= g.count
                /\ (\A i \in TracedTo(g.trace) : i <= traceReport.from) =>
                      t = Topology(g.trace) /\ t.roots + t.links = g.count
  <2>1. PICK u : u = g.trace
    OBVIOUS
  <2>2. traceReport.topology[g.trace] = TopologyOf(TracedUpTo(u, n))
    BY <1>2, <1>4, <2>1
  <2>3. g.count = Cardinality(TracedUpTo(u, traceReport.from))
    BY <1>4, <2>1 DEF TopologyIInv
  <2>4. TracedUpTo(u, n) \subseteq 1..n /\ TracedUpTo(u, traceReport.from) \in SUBSET TracedUpTo(u, n)
    BY <1>3 DEF TracedUpTo
  <2>5. TopologyOf(TracedUpTo(u, n)).roots + TopologyOf(TracedUpTo(u, n)).links = Cardinality(TracedUpTo(u, n))
    BY <1>3, <2>4, RowsAreRootsAndLinks
  <2>6. /\ IsFiniteSet(TracedUpTo(u, n)) /\ Cardinality(TracedUpTo(u, n)) \in Nat
        /\ Cardinality(TracedUpTo(u, traceReport.from)) \in Nat
    BY <1>3, <2>4, RowsAreFinite DEF TracedUpTo
  <2>7. Cardinality(TracedUpTo(u, traceReport.from)) <= Cardinality(TracedUpTo(u, n))
    BY <2>4, <2>6, FS_Subset
  <2>8. ASSUME \A i \in TracedTo(u) : i <= traceReport.from
        PROVE  TracedUpTo(u, n) = TracedTo(u) /\ TracedUpTo(u, traceReport.from) = TracedTo(u)
    <3>1. TracedTo(u) \subseteq 1..Len(builderEvents)
      BY <1>1 DEF TracedTo
    <3> QED BY <1>1, <1>3, <2>8, <3>1 DEF TracedUpTo
  <2> QED BY <2>1, <2>2, <2>3, <2>5, <2>6, <2>7, <2>8 DEF Topology
<1>5. BatchedTopology(TraceRef) = [t \in TraceRef |-> Topology(t)]
  BY <1>1, PassAgreesWithQueries
<1> QED BY <1>4, <1>5 DEF TopologyIsWhole

(* A finished report (system_map.py, build_trace_index) is true of what    *)
(* Builder recorded, although it was read statement by statement while     *)
(* Builder went on: open families are flagged, lost traces ranked, and the *)
(* topology is whole.                                                      *)
THEOREM ReportComesOutTrue == TraceSpec => []TraceReportIsTrue
<1>1. TraceIInv /\ TopologyIInv => TraceReportIsTrue
  <2> SUFFICES ASSUME TraceIInv, TopologyIInv, traceReport.stage = "done"
               PROVE  OpenFamiliesAreFlagged /\ LostTracesAreRanked /\ TopologyIsWhole
    BY DEF TraceReportIsTrue
  <2> QED BY TopologyComesOutWhole DEF TraceIInv
<1> QED BY <1>1, TraceInductive, TopologyInductive, PTL

=============================================================================
