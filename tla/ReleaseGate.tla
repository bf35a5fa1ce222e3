----------------------------- MODULE ReleaseGate -----------------------------
(***************************************************************************)
(* The release gate: `spark release-gate capture` runs the gates and       *)
(* records the verdict with hashes of the gate code and of the release     *)
(* evidence; the pre-push hook (hook-check) classifies a push and, when it *)
(* is gated, permits it only on the latest capture.  Maintainers meanwhile *)
(* edit and commit the working tree, write waivers and change branches;    *)
(* days pass.  A capture takes minutes, so the tree may change under it,   *)
(* and it may be killed after its file is written and before the link.     *)
(*                                                                         *)
(* A tree is a version of the gate code (0: gate-map.json is missing) and  *)
(* a version of the evidence (registry.json, installer files).  A waiver   *)
(* is dated by a day and lasts to its end, and captured_at has seconds, so *)
(* "expiry <= captured_at + 30 days" is "expiry < day of capture + 30".    *)
(***************************************************************************)
EXTENDS Naturals, Sequences, FiniteSets

CONSTANTS
  Train,           \* release trains
  Ref,             \* branches and tags a push creates or moves
  Evidence,        \* versions of the evidence files
  GateCode,        \* versions of the gate code
  WaiverMaxDays,   \* WAIVER_MAX_DAYS, 30 in the code
  MaxDay, MaxEdits, MaxCommits, MaxCaptures, MaxWaivers   \* bounds

ASSUME GateAssumption ==
  /\ GateCode \subseteq Nat \ {0} /\ GateCode # {} /\ Evidence # {}
  /\ WaiverMaxDays \in Nat /\ MaxDay \in Nat /\ MaxEdits \in Nat
  /\ MaxCommits \in Nat /\ MaxCaptures \in Nat /\ MaxWaivers \in Nat

UnknownRelease == "unknown-release"
NoMap == 0
Tree == [gate : GateCode \cup {NoMap}, evid : Evidence]

(* Rows of the gates table: one of verify --r30, one of a chip pack's own  *)
(* gate, and the row that is there when installed.json cannot be read.     *)
Row == {"verify_r30", "chip_gate", "installed_registry", "gate_map_present"}

VARIABLES
  tree,      \* the working tree
  commits,   \* the commits of the checked-out history, oldest first
  remote,    \* number of commits each remote ref holds, 0 if it is not there;
             \* the first commit is there, on a branch nobody pushes to
  capturing, \* the capture that runs: nothing, or what verify saw
  captures,  \* the capture files, oldest first
  latest,    \* the capture that latest-gate-capture names, 0 if none
  waivers,   \* entries of the trains' waivers.json
  day,
  pushed,    \* the gated push the hook just permitted
  edits

gate_vars == <<tree, commits, remote, capturing, captures, latest, waivers, day, pushed, edits>>

NotCapturing == [at |-> "idle"]
NothingPushed == [by |-> 0]

GateInit ==
  /\ \E g \in GateCode, e \in Evidence : tree = [gate |-> g, evid |-> e]
  /\ commits = <<tree>>
  /\ remote = [r \in Ref |-> 0]
  /\ capturing = NotCapturing /\ captures = <<>> /\ latest = 0
  /\ waivers = {} /\ day = 0 /\ pushed = NothingPushed /\ edits = 0

-----------------------------------------------------------------------------
(* spark release-gate capture.                                             *)

(* verify --r30 runs on the tree as it is now; it fails or not, names its  *)
(* train or produces no payload, which is a red row of an unknown train.   *)
RunVerify ==
  /\ capturing = NotCapturing /\ Len(captures) < MaxCaptures
  /\ \E release \in Train \cup {UnknownRelease}, failed \in SUBSET {"verify_r30"} :
       /\ release = UnknownRelease => failed # {}
       /\ capturing' = [at |-> "rows", day |-> day, release |-> release, saw |-> tree,
                        failed |-> failed, red |-> failed]
  /\ UNCHANGED <<tree, commits, remote, captures, latest, waivers, day, edits>>
  /\ pushed' = NothingPushed

(* The chip gates are enumerated from installed.json: without it they do   *)
(* not run, and a red row says so.                                         *)
ChipRows_Silent(readable, fails) == IF readable THEN fails ELSE {}
ChipRows(readable, fails) ==
  IF readable THEN fails ELSE {"installed_registry"}

RunHarness ==
  /\ capturing.at = "rows"
  /\ \E readable \in BOOLEAN, fails \in SUBSET {"chip_gate"} :
       capturing' = [capturing EXCEPT !.at = "hash", !.failed = @ \cup fails,
                                      !.red = @ \cup ChipRows(readable, fails)]
  /\ UNCHANGED <<tree, commits, remote, captures, latest, waivers, day, edits>>
  /\ pushed' = NothingPushed

(* The hashes are those of the tree at the end of the capture.             *)
Hashes == [gate |-> tree.gate, evid |-> tree.evid]

WriteCapture ==
  /\ capturing.at = "hash"
  /\ LET missing == IF tree.gate = NoMap THEN {"gate_map_present"} ELSE {}
     IN captures' = Append(captures,
          [day |-> capturing.day, release |-> capturing.release, saw |-> capturing.saw,
           failed |-> capturing.failed, red |-> capturing.red \cup missing, hash |-> Hashes])
  /\ capturing' = [at |-> "link"]
  /\ UNCHANGED <<tree, commits, remote, latest, waivers, day, edits>>
  /\ pushed' = NothingPushed

(* The symlink is replaced, or, where there are none, the pointer file.    *)
LinkCapture ==
  /\ capturing.at = "link"
  /\ latest' = Len(captures)
  /\ capturing' = NotCapturing
  /\ UNCHANGED <<tree, commits, remote, captures, waivers, day, edits>>
  /\ pushed' = NothingPushed

KillCapture ==
  /\ capturing # NotCapturing
  /\ capturing' = NotCapturing
  /\ UNCHANGED <<tree, commits, remote, captures, latest, waivers, day, edits>>
  /\ pushed' = NothingPushed

-----------------------------------------------------------------------------
(* The hook.                                                               *)

(* The link when it resolves, else the newest file by name.                *)
LatestCapture == IF latest # 0 THEN latest ELSE Len(captures)

Covers(w, check, c) ==
  /\ w.dir = c.release
  /\ w.check = check
  /\ w.release = c.release
  /\ day <= w.expiry
  /\ w.expiry < c.day + WaiverMaxDays

EvidenceFresh(c) == c.hash.evid = tree.evid

(* evaluate_release_gate: no capture, no gate map, changed gate code,      *)
(* changed evidence, an unknown train and an unwaived red row each refuse. *)
Permits(c) ==
  /\ tree.gate # NoMap /\ c.hash.gate = tree.gate
  /\ EvidenceFresh(c)
  /\ c.release # UnknownRelease
  /\ \A check \in c.red : \E w \in waivers : Covers(w, check, c)

(* The evidence paths a push of the first n commits to ref brings along:   *)
(* for a ref the remote has, the difference of the two trees; for a new    *)
(* ref, those of each commit that no remote ref has yet.                   *)
ChangesEvidence(ref, n) ==
  IF remote[ref] # 0
    THEN commits[n].evid # commits[remote[ref]].evid
    ELSE \E i \in 2..n : /\ \A r \in Ref : remote[r] < i
                         /\ commits[i].evid # commits[i - 1].evid

(* A push is gated by its name (a release tag), its content, or because    *)
(* git cannot tell its content.                                            *)
Gated(ref, n, releaseTag, known) == releaseTag \/ ~known \/ ChangesEvidence(ref, n)

Push(ref, n) ==
  \E releaseTag, known \in BOOLEAN :
    /\ IF Gated(ref, n, releaseTag, known)
         THEN /\ LatestCapture # 0 /\ Permits(captures[LatestCapture])
              /\ pushed' = [by |-> LatestCapture, local |-> tree, on |-> day,
                            waived |-> {w.check : w \in {x \in waivers :
                                          x.release = captures[LatestCapture].release /\ day <= x.expiry}}]
         ELSE pushed' = NothingPushed
    /\ remote' = [remote EXCEPT ![ref] = n]
    /\ UNCHANGED <<tree, commits, capturing, captures, latest, waivers, day, edits>>

-----------------------------------------------------------------------------
(* The maintainers.                                                        *)

EditTree ==
  /\ edits < MaxEdits
  /\ tree' \in Tree \ {tree}
  /\ edits' = edits + 1
  /\ UNCHANGED <<commits, remote, capturing, captures, latest, waivers, day>>
  /\ pushed' = NothingPushed

CommitTree ==
  /\ Len(commits) < MaxCommits /\ tree # commits[Len(commits)]
  /\ commits' = Append(commits, tree)
  /\ UNCHANGED <<tree, remote, capturing, captures, latest, waivers, day, edits>>
  /\ pushed' = NothingPushed

(* A waiver for the train whose directory it is in, or one copied from     *)
(* another train's ledger.                                                 *)
WriteWaiver ==
  /\ Cardinality(waivers) < MaxWaivers
  /\ \E check \in Row, dir, release \in Train, expiry \in day..MaxDay :
       waivers' = waivers \cup {[check |-> check, dir |-> dir, release |-> release, expiry |-> expiry]}
  /\ UNCHANGED <<tree, commits, remote, capturing, captures, latest, day, edits>>
  /\ pushed' = NothingPushed

NextDay ==
  /\ day < MaxDay
  /\ day' = day + 1
  /\ UNCHANGED <<tree, commits, remote, capturing, captures, latest, waivers, edits>>
  /\ pushed' = NothingPushed

GateNext ==
  \/ RunVerify \/ RunHarness \/ WriteCapture \/ LinkCapture \/ KillCapture
  \/ \E ref \in Ref, n \in 1..Len(commits) : Push(ref, n)
  \/ EditTree \/ CommitTree \/ WriteWaiver \/ NextDay

GateSpec == GateInit /\ [][GateNext]_gate_vars

-----------------------------------------------------------------------------
(* What should hold.                                                       *)

GateTypeOK ==
  /\ tree \in Tree /\ commits \in Seq(Tree) /\ commits # <<>>
  /\ remote \in [Ref -> 0..Len(commits)]
  /\ latest \in 0..Len(captures)
  /\ \A i \in DOMAIN captures : /\ captures[i].saw \in Tree /\ captures[i].hash \in Tree
                               /\ captures[i].failed \subseteq Row /\ captures[i].red \subseteq Row
                               /\ captures[i].day \in 0..day
  /\ pushed.by \in 0..Len(captures)

(* A capture of a tree nobody touched meanwhile: whatever it permits later,*)
(* the tree is the one that was verified, and every gate that failed then  *)
(* is waived by name for that train on that day - or the registry of       *)
(* modules could not be read and that is waived.  (write_release_gate_     *)
(* capture, evaluate_release_gate: no failing gate drops out of the table.)*)
(* And no capture with a red row permits anything WaiverMaxDays days after *)
(* it, however its waivers are dated or rewritten since (_waiver_covers).  *)
PermitsOnlyVerified ==
  pushed.by # 0 =>
    LET c == captures[pushed.by]
    IN /\ c.saw = c.hash =>
            /\ pushed.local = c.saw
            /\ \A check \in c.failed :
                 \/ check \in pushed.waived
                 \/ check = "chip_gate" /\ "installed_registry" \in pushed.waived
       /\ c.red # {} => pushed.on < c.day + WaiverMaxDays

-----------------------------------------------------------------------------
(* What the steps preserve, and what the property follows from.            *)

TrainName == Train \cup {UnknownRelease}
CaptureFile == [day : Nat, release : TrainName, saw : Tree, failed : SUBSET Row, red : SUBSET Row, hash : Tree]
CaptureRun == [at : {"rows", "hash"}, day : 0..day, release : TrainName, saw : Tree,
               failed : SUBSET Row, red : SUBSET Row]

(* A gate that failed is red, or hidden behind the one row that says so. *)
NoRowDropped(c) ==
  \A check \in c.failed : check \in c.red \/ (check = "chip_gate" /\ "installed_registry" \in c.red)

GateIInv ==
  /\ GateTypeOK /\ day \in Nat /\ captures \in Seq(CaptureFile)
  /\ waivers \subseteq [check : Row, dir : Train, release : Train, expiry : 0..MaxDay]
  /\ capturing \in {NotCapturing, [at |-> "link"]} \cup CaptureRun
  /\ capturing \in CaptureRun => NoRowDropped(capturing)
  /\ \A i \in DOMAIN captures : NoRowDropped(captures[i])
  /\ PermitsOnlyVerified

=============================================================================
