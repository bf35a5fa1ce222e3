---------------------------- MODULE ReleaseTruth ----------------------------
(***************************************************************************)
(* `spark verify --r30`: collect_r30_release_gate_payload reads, one after *)
(* the other, the installed modules, the registry, the handoff packet, the *)
(* running services, the remotes, the installers and the merged source     *)
(* truth, and then gives a verdict.  It takes minutes, and meanwhile       *)
(* modules are updated or worked on, the registry is pulled, tags move,    *)
(* documents change and the site is deployed file by file.                 *)
(*                                                                         *)
(* A module has two commits, of the release before R30 and of R30.  The    *)
(* texts of the handoff packet are exact, stale or missing; whatever else  *)
(* the gate needs in order is an element of "kept".  One collector reads   *)
(* at one moment, except the hosted installers, which are fetched file by  *)
(* file.                                                                   *)
(***************************************************************************)
EXTENDS Naturals

CONSTANTS
  Canonical,         \* the blessed, installed modules
  Direct,            \* R30_DIRECT_RELEASE_MODULES among them
  RuntimeModule,     \* those with a local-runtime handoff: bot and Spawner
  CriticalRuntime,   \* those of them whose drift is critical: the bot
  VoiceModule,
  PrivateSource,     \* modules of visibility "private"
  NoCommit,
  MaxReleaseEdits    \* bound on what happens before and during a check

ASSUME ReleaseTruthAssumption ==
  /\ CriticalRuntime \subseteq RuntimeModule /\ RuntimeModule \subseteq Direct
  /\ VoiceModule \in Direct /\ Direct \subseteq Canonical /\ PrivateSource \subseteq Canonical
  /\ NoCommit \notin Nat /\ MaxReleaseEdits \in Nat

Before == 1
R30 == 2
Commit == {Before, R30}
SiteFile == {"checksums", "manifest", "scripts", "commands"}

(* The two releases, and the one whose ref is the commit checked out here. *)
Release == {"before", "r30", "checkout"}

Keepable == {"docs", "level 5 sources", "level 5 services", "identity guard", "status",
             "voice surface", "owner refs", "no blocked repos", "one builder source", "clean checkout"}

VARIABLES
  pins, attested,  \* registry.json: the commit and the attestation of a module
  rows,            \* the commits of R30_MERGED_SOURCE_TRUTH, NoCommit: no row
  heads,           \* the clones: HEAD and whether there are local changes
  records,         \* registry_commit of the module in installed.json
  classified,      \* modules whose runtime is a "local runtime test artifact"
  refs,            \* what verify_ref names at the remote, NoCommit: no answer
  traces,          \* unresolved high-severity Builder events
  packet,          \* the texts, manifests and patches of the handoff packet
  kept,            \* what else is as the gate wants it
  installer,       \* release of the local scripts and of their manifest
  site,            \* release of each file of the hosted site
  check,           \* the check that runs, or its verdict
  releaseEdits

world == <<pins, attested, rows, heads, records, classified, refs, traces, packet, kept, installer, site>>
truth_vars == <<pins, attested, rows, heads, records, classified, refs, traces, packet, kept, installer,
                site, check, releaseEdits>>

NoCheck == [at |-> "none"]
NoFile == "no file"
Everywhere(c) == [m \in Canonical |-> c]
Clean(c) == [at |-> c, dirty |-> FALSE]
Unread == [at |-> NoCommit, pin |-> NoCommit, record |-> NoCommit]

(* The world of the handoff, in which the direct modules are ahead of the  *)
(* registry; the world of R30 published but not pulled here; and R30       *)
(* installed, with the site deployed in part.                              *)
TruthInit ==
  /\ packet = "exact" /\ kept = Keepable
  /\ traces \in {"clean", "historical"}
  /\ rows = Everywhere(R30)
  /\ \E registered, remote_ \in Commit, handedOver \in SUBSET Direct :
       /\ handedOver \in {{}, Direct} /\ registered <= remote_
       /\ handedOver # {} => remote_ = Before
       /\ pins = Everywhere(registered) /\ attested = pins /\ records = pins
       /\ refs = Everywhere(remote_)
       /\ heads = [m \in Canonical |-> Clean(IF m \in handedOver THEN R30 ELSE registered)]
       /\ classified = handedOver \cap RuntimeModule
       /\ \E published \in {"before", "r30"}, deployed \in SUBSET SiteFile :
            /\ (published = "r30") = (registered = R30)
            /\ registered = Before => deployed = {}
            /\ installer = [scripts |-> published, manifest |-> published]
            /\ site = [f \in SiteFile |-> IF f \in deployed THEN "r30" ELSE "before"]
  /\ check = NoCheck /\ releaseEdits = 0

-----------------------------------------------------------------------------
(* The compiled system map.                                                *)

(* A clean runtime whose HEAD is not what its record or the registry says. *)
Ahead(m) ==
  LET registered == IF records[m] # NoCommit THEN records[m] ELSE pins[m]
  IN ~heads[m].dirty /\ heads[m].at # NoCommit /\ heads[m].at # registered

(* build_duplicate_truths: the critical ones.                              *)
CriticalDuplicate ==
  \/ "one builder source" \notin kept
  \/ \E m \in RuntimeModule : heads[m].dirty
  \/ \E m \in CriticalRuntime \ classified : Ahead(m)

RuntimeOwners == {m \in RuntimeModule \cap classified : Ahead(m)}

(* publish_handoff_summary: the families that wait for their owners.       *)
PublishFamilies ==
  (IF "no blocked repos" \in kept THEN {} ELSE {"repo_release_blocks"})
  \cup (IF RuntimeOwners = {} THEN {} ELSE {"local_runtime_test_artifacts"})
  \cup (IF traces = "clean" THEN {} ELSE {"builder_trace_health"})

FailedUnless(ok, name) == IF ok THEN {} ELSE {name}
Saw(values) == [m \in Canonical |-> check.seen[m] \cup values[m]]
KnownCommit(c) == {c} \ {NoCommit}

StartCheck ==
  /\ check = NoCheck
  /\ \E hosted \in BOOLEAN :
       check' = [at |-> "lane", hosted |-> hosted, red |-> {}, untouched |-> TRUE, repinned |-> FALSE,
                 rolledBack |-> FALSE, critical |-> CriticalDuplicate, owners |-> RuntimeOwners,
                 families |-> PublishFamilies, events |-> traces, seen |-> Everywhere({}),
                 blocked |-> {}, lane |-> Everywhere(Unread), history |-> {},
                 committed |-> NoFile, sums |-> NoFile, named |-> NoFile, expected |-> NoFile]
  /\ UNCHANGED <<world, releaseEdits>>

-----------------------------------------------------------------------------
(* The release lane: the installed modules against the registry.           *)

RowIssues(m) ==
  \/ heads[m].dirty
  \/ heads[m].at = NoCommit
  \/ heads[m].at # pins[m]
  \/ records[m] \notin {NoCommit, pins[m]}

ReadLane ==
  /\ check.at = "lane"
  /\ LET cli == FailedUnless("clean checkout" \in kept, "spark-cli")
         blocked == {m \in Canonical : RowIssues(m)} \cup cli
         ok == blocked = {} /\ ~check.critical
     IN check' = [check EXCEPT
          !.at = "handoffs",
          !.red = FailedUnless(ok, "release_lane") \cup FailedUnless(ok, "os_compile"),
          !.seen = Saw([m \in Canonical |->
                     {IF heads[m].dirty THEN NoCommit ELSE heads[m].at, pins[m]} \cup KnownCommit(records[m])]),
          !.blocked = blocked,
          !.lane = [m \in Canonical |-> [at |-> heads[m].at, pin |-> pins[m], record |-> records[m]]]]
  /\ UNCHANGED <<world, releaseEdits>>

-----------------------------------------------------------------------------
(* The handoff packet against the lane that was just read.                 *)

DirectBlocked == check.blocked \cap Direct
AsHandedOver(m) == check.lane[m] = [at |-> R30, pin |-> Before, record |-> Before]

OwnerManifestOk ==
  /\ packet = "exact" /\ "owner refs" \in kept
  /\ check.blocked = Direct
  /\ \A m \in Direct : check.lane[m].at = R30 /\ check.lane[m].pin = Before

(* When no runtime is ahead, the rows are compared with themselves - but   *)
(* for those of modules the lane still blocks.                             *)
RuntimeArtifactsOk ==
  /\ packet = "exact"
  /\ check.owners \in {{}, RuntimeModule}
  /\ \A m \in RuntimeModule :
       IF m \in DirectBlocked THEN AsHandedOver(m) ELSE check.owners = {}

CliDocsOk == packet = "exact"
RuntimeDocsOk == packet = "exact"

VoiceOk == VoiceModule \notin check.blocked /\ "docs" \in kept

OwnerActionsOk == DirectBlocked = {} \/ packet # "missing"

(* Each patch is applied to its base in a worktree of the module's clone;  *)
(* without manifests there is nothing to apply.                            *)
PatchApplyOk ==
  \/ packet = "missing"
  \/ packet = "exact" /\ \A m \in Direct : check.lane[m].at # NoCommit

(* "historical": the events the decision document and the packet name.     *)
TracesCarried == check.events = "historical" /\ packet = "exact"
BuilderTraceOk == check.events # "current" /\ packet = "exact"

(* An empty list of families is taken for a missing one: then every entry  *)
(* of the summary is a family.                                             *)
FamiliesRead ==
  IF check.families = {} THEN {"local_runtime_test_artifacts", "builder_trace_health"}
  ELSE check.families

Carried ==
  (IF RuntimeArtifactsOk THEN {"local_runtime_test_artifacts"} ELSE {})
  \cup (IF TracesCarried THEN {"builder_trace_health"} ELSE {})
PublishBlockers == FamiliesRead \ Carried

ReadHandoffs ==
  /\ check.at = "handoffs"
  /\ check' = [check EXCEPT
       !.at = "live",
       !.red = @ \cup FailedUnless(CliDocsOk, "r30_cli_owner_handoff_docs")
                 \cup FailedUnless(RuntimeDocsOk, "r30_local_runtime_handoff_docs"),
       !.history =
             FailedUnless(OwnerManifestOk, "owner_handoff_manifest")
             \cup FailedUnless(RuntimeArtifactsOk, "r30_local_runtime_artifacts_handoff")
             \cup FailedUnless(VoiceOk, "r30_voice_registry_decision")
             \cup FailedUnless(OwnerActionsOk, "r30_owner_action_packet")
             \cup FailedUnless(PatchApplyOk, "r30_owner_handoff_patch_apply")
             \cup FailedUnless(BuilderTraceOk, "r30_builder_trace_lifecycle")
             \cup FailedUnless(PublishBlockers = {}, "publish_handoffs")]
  /\ UNCHANGED <<world, releaseEdits>>

-----------------------------------------------------------------------------
(* What runs here, and the remotes.                                        *)

(* The doc sides of these checks are in "docs".                            *)
EvidenceOf(name) ==
  CASE name = "r30_access_level5_codex_sandbox" -> {"level 5 sources", "level 5 services", "docs"}
    [] name = "r30_unattended_identity_guard" -> {"identity guard"}
    [] name = "r30_live_status" -> {"status"}
    [] name = "r30_voice_runtime_truth" -> {"voice surface", "docs"}
LiveChecks == {"r30_access_level5_codex_sandbox", "r30_unattended_identity_guard",
               "r30_live_status", "r30_voice_runtime_truth"}

ReadLive ==
  /\ check.at = "live"
  /\ check' = [check EXCEPT !.at = "pins", !.red = @ \cup {n \in LiveChecks : ~ EvidenceOf(n) \subseteq kept}]
  /\ UNCHANGED <<world, releaseEdits>>

(* A private source that does not answer is passed over, unverified.       *)
PinOk(m) == IF refs[m] = NoCommit THEN m \in PrivateSource ELSE refs[m] = pins[m]

ReadPins ==
  /\ check.at = "pins"
  /\ check' = [check EXCEPT
       !.at = "installers",
       !.red = @ \cup FailedUnless(\A m \in Canonical : PinOk(m), "registry_pins"),
       !.seen = Saw([m \in Canonical |-> {pins[m]} \cup KnownCommit(refs[m])])]
  /\ UNCHANGED <<world, releaseEdits>>

-----------------------------------------------------------------------------
(* The installers, local and hosted.                                       *)

InstallersOk == installer.scripts = installer.manifest

ReadInstallers ==
  /\ check.at = "installers"
  /\ check' = [check EXCEPT !.at = IF check.hosted THEN "checksums" ELSE "merged",
                            !.red = @ \cup FailedUnless(InstallersOk, "local_installers")]
  /\ UNCHANGED <<world, releaseEdits>>

(* A file as it is on the site now, or no file.                            *)
Fetched(f) == {site[f], NoFile}

FetchChecksums ==
  /\ check.at = "checksums"
  /\ \E sums \in Fetched("checksums") :
       check' = [check EXCEPT !.at = "manifest", !.committed = installer.manifest, !.sums = sums]
  /\ UNCHANGED <<world, releaseEdits>>

(* What is expected of the site is the committed release - or, when the    *)
(* site names the commit checked out here, that.                           *)
FetchManifest ==
  /\ check.at = "manifest"
  /\ \E named \in Fetched("manifest") :
       check' = [check EXCEPT !.at = "scripts", !.named = named,
                              !.expected = IF named = "checkout" THEN named ELSE check.committed]
  /\ UNCHANGED <<world, releaseEdits>>

OfThisRelease(file) ==
  /\ file = check.expected /\ file = check.sums
  /\ check.sums = check.committed \/ check.expected = "checkout"

FetchScripts ==
  /\ check.at = "scripts"
  /\ \E scripts \in Fetched("scripts") :
       check' = [check EXCEPT
         !.at = "commands",
         !.red = @ \cup FailedUnless(InstallersOk /\ OfThisRelease(scripts) /\ check.named = check.expected,
                                     "hosted_installers")]
  /\ UNCHANGED <<world, releaseEdits>>

CommandsOk_Unfetched(commands) == TRUE
CommandsOk(commands) == OfThisRelease(commands) /\ commands = check.named

FetchCommands ==
  /\ check.at = "commands"
  /\ \E commands \in Fetched("commands") :
       check' = [check EXCEPT !.at = "merged",
                              !.red = @ \cup FailedUnless(CommandsOk(commands), "hosted_installers")]
  /\ UNCHANGED <<world, releaseEdits>>

-----------------------------------------------------------------------------
(* The merged source truth and the verdict.                                *)

RowOk(m) == rows[m] = pins[m] /\ attested[m] = pins[m]
MergedTruthOk == \A m \in Canonical : RowOk(m)

SourceTruth == {"r30_cli_owner_handoff_docs", "r30_local_runtime_handoff_docs",
                "release_lane", "registry_pins"}

(* Merged source truth supersedes every handoff of the packet.             *)
Historical(merged) == IF merged THEN {} ELSE check.history

HostedReady(ready) == ready /\ "hosted_installers" \notin check.red /\ check.named = "r30"

ReadMergedTruth ==
  /\ check.at = "merged"
  /\ LET merged == MergedTruthOk
         ready == merged /\ check.red \cap SourceTruth = {}
         pinned == installer.scripts = "r30"
     IN check' = [check EXCEPT
          !.at = "docs",
          !.red = @ \cup FailedUnless(merged, "r30_merged_source_truth")
                    \cup Historical(merged)
                    \cup FailedUnless(ready = pinned, "publication_order")
                    \cup FailedUnless(pinned, "r30_installer_pins")
                    \cup (IF check.hosted
                            THEN FailedUnless(HostedReady(ready /\ pinned), "r30_hosted_publication_contract")
                            ELSE {}),
          !.seen = Saw([m \in Canonical |-> {pins[m], attested[m], rows[m]}])]
  /\ UNCHANGED <<world, releaseEdits>>

ReadDocs ==
  /\ check.at = "docs"
  /\ check' = [check EXCEPT !.at = "done", !.red = @ \cup FailedUnless("docs" \in kept, "r30_docs")]
  /\ UNCHANGED <<world, releaseEdits>>

CheckStep ==
  \/ ReadLane \/ ReadHandoffs \/ ReadLive \/ ReadPins \/ ReadInstallers
  \/ FetchChecksums \/ FetchManifest \/ FetchScripts \/ FetchCommands
  \/ ReadMergedTruth \/ ReadDocs

-----------------------------------------------------------------------------
(* What happens meanwhile.  A verdict is old as soon as something happens. *)

Happens(repinned, rolledBack) ==
  /\ releaseEdits < MaxReleaseEdits
  /\ releaseEdits' = releaseEdits + 1
  /\ check' = IF check.at \in {"none", "done"} THEN NoCheck
              ELSE [check EXCEPT !.untouched = FALSE, !.repinned = @ \/ repinned, !.rolledBack = @ \/ rolledBack]

(* spark update, work in a clone, and naming a runtime a test artifact.    *)
ModulesMove ==
  /\ \E m \in Canonical :
       \/ /\ heads' = [heads EXCEPT ![m] = Clean(pins[m])]
          /\ records' = [records EXCEPT ![m] = pins[m]]
          /\ UNCHANGED classified
       \/ /\ \E h \in [at : Commit \cup {NoCommit}, dirty : BOOLEAN] \ {heads[m]} :
               heads' = [heads EXCEPT ![m] = h]
          /\ UNCHANGED <<records, classified>>
       \/ /\ m \in RuntimeModule
          /\ classified' = IF m \in classified THEN classified \ {m} ELSE classified \cup {m}
          /\ UNCHANGED <<heads, records>>
  /\ Happens(FALSE, FALSE)
  /\ UNCHANGED <<pins, attested, rows, refs, traces, packet, kept, installer, site>>

(* The checkout of the registry moves: the whole release is pulled, or one *)
(* pin, attestation or row of the merged source truth is changed.          *)
RegistryMoves ==
  /\ \/ /\ pins' = Everywhere(R30) /\ attested' = pins' /\ rows' = pins'
        /\ installer' = [scripts |-> "r30", manifest |-> "r30"]
     \/ /\ \E m \in Canonical :
             \/ /\ \E c \in Commit : pins' = [pins EXCEPT ![m] = c] /\ UNCHANGED <<attested, rows>>
             \/ /\ \E c \in Commit : attested' = [attested EXCEPT ![m] = c] /\ UNCHANGED <<pins, rows>>
             \/ /\ \E c \in Commit \cup {NoCommit} : rows' = [rows EXCEPT ![m] = c]
                /\ UNCHANGED <<pins, attested>>
        /\ UNCHANGED installer
  /\ Happens(pins' # pins, FALSE)
  /\ UNCHANGED <<heads, records, classified, refs, traces, packet, kept, site>>

RemotesMove ==
  /\ \E m \in Canonical, c \in Commit \cup {NoCommit} : c # refs[m] /\ refs' = [refs EXCEPT ![m] = c]
  /\ Happens(FALSE, FALSE)
  /\ UNCHANGED <<pins, attested, rows, heads, records, classified, traces, packet, kept, installer, site>>

EvidenceMoves ==
  /\ \/ traces' \in {"clean", "historical", "current"} \ {traces} /\ UNCHANGED <<packet, kept>>
     \/ packet' \in {"exact", "stale", "missing"} \ {packet} /\ UNCHANGED <<traces, kept>>
     \/ /\ \E k \in Keepable : kept' = IF k \in kept THEN kept \ {k} ELSE kept \cup {k}
        /\ UNCHANGED <<traces, packet>>
  /\ Happens(FALSE, FALSE)
  /\ UNCHANGED <<pins, attested, rows, heads, records, classified, refs, installer, site>>

InstallersMove ==
  /\ \E half \in DOMAIN installer, r \in {"before", "r30"} :
       r # installer[half] /\ installer' = [installer EXCEPT ![half] = r]
  /\ Happens(FALSE, FALSE)
  /\ UNCHANGED <<pins, attested, rows, heads, records, classified, refs, traces, packet, kept, site>>

SiteMoves ==
  /\ \E f \in SiteFile, r \in Release :
       /\ r # site[f] /\ site' = [site EXCEPT ![f] = r]
       /\ Happens(FALSE, site[f] = "r30")
  /\ UNCHANGED <<pins, attested, rows, heads, records, classified, refs, traces, packet, kept, installer>>

TruthNext ==
  \/ StartCheck \/ CheckStep
  \/ ModulesMove \/ RegistryMoves \/ RemotesMove \/ EvidenceMoves \/ InstallersMove \/ SiteMoves

TruthSpec == TruthInit /\ [][TruthNext]_truth_vars

-----------------------------------------------------------------------------
(* What should hold.                                                       *)

TruthTypeOK ==
  /\ pins \in [Canonical -> Commit] /\ attested \in [Canonical -> Commit]
  /\ rows \in [Canonical -> Commit \cup {NoCommit}] /\ refs \in [Canonical -> Commit \cup {NoCommit}]
  /\ heads \in [Canonical -> [at : Commit \cup {NoCommit}, dirty : BOOLEAN]]
  /\ records \in [Canonical -> Commit]
  /\ classified \subseteq RuntimeModule /\ kept \subseteq Keepable
  /\ site \in [SiteFile -> Release] /\ releaseEdits \in 0..MaxReleaseEdits

Green == check.at = "done" /\ check.red = {}

(* A green verdict of a check during which the registry was not pulled: of *)
(* each module, the clone, its record, the pin, the remote ref, the        *)
(* attestation and the row of the merged source truth were one commit when *)
(* they were read.                                                         *)
GreenMeansOneSource ==
  Green /\ ~check.repinned => \A m \in Canonical : \E c \in Commit : check.seen[m] = {c}

(* And one of the hosted site: every file of it is that of R30, although   *)
(* it was deployed in some order while the files were fetched - unless     *)
(* something was taken back.                                               *)
GreenMeansDeployed ==
  Green /\ check.hosted /\ ~check.rolledBack => \A f \in SiteFile : site[f] = "r30"

GreenIsTrue == GreenMeansOneSource /\ GreenMeansDeployed

(* The gate can be passed: when everything has converged on R30 and nobody *)
(* touches it, the verdict is green, whatever the historical handoffs say. *)
Converged ==
  /\ \A m \in Canonical :
       /\ heads[m] = Clean(R30)
       /\ {records[m], pins[m], attested[m], rows[m]} = {R30}
       /\ refs[m] = R30 \/ (refs[m] = NoCommit /\ m \in PrivateSource)
  /\ packet = "exact" /\ traces # "current" /\ kept = Keepable
  /\ installer = [scripts |-> "r30", manifest |-> "r30"]

ConvergedIsGreen ==
  check.at = "done" /\ check.untouched /\ ~check.hosted /\ Converged => check.red = {}

(* What the gate says is so, and it can be passed.                         *)
VerdictIsTrue == GreenIsTrue /\ ConvergedIsGreen

-----------------------------------------------------------------------------
(* Why it holds: what a check has seen are the pins, while nobody moves    *)
(* them; each file of the site that it accepted was R30's, and stays so    *)
(* while nothing is taken back; and no read of a converged world fails.    *)

PacketCheck ==
  {"owner_handoff_manifest", "r30_local_runtime_artifacts_handoff", "r30_voice_registry_decision",
   "r30_owner_action_packet", "r30_owner_handoff_patch_apply", "r30_builder_trace_lifecycle",
   "publish_handoffs"}
GateCheck ==
  PacketCheck \cup LiveChecks \cup SourceTruth \cup
  {"os_compile", "local_installers", "hosted_installers", "r30_merged_source_truth", "publication_order",
   "r30_installer_pins", "r30_hosted_publication_contract", "r30_docs"}
PublishFamily == {"repo_release_blocks", "local_runtime_test_artifacts", "builder_trace_health"}
TraceState == {"clean", "historical", "current"}
LaneRow == [at : Commit \cup {NoCommit}, pin : Commit \cup {NoCommit}, record : Commit \cup {NoCommit}]

CheckRecord ==
  [at : {"lane", "handoffs", "live", "pins", "installers", "checksums", "manifest", "scripts", "commands",
         "merged", "docs", "done"},
   hosted : BOOLEAN, untouched : BOOLEAN, repinned : BOOLEAN, rolledBack : BOOLEAN, critical : BOOLEAN,
   red : SUBSET GateCheck, history : SUBSET PacketCheck, owners : SUBSET RuntimeModule,
   families : SUBSET PublishFamily, events : TraceState, seen : [Canonical -> SUBSET (Commit \cup {NoCommit})],
   blocked : SUBSET (Canonical \cup {"spark-cli"}), lane : [Canonical -> LaneRow],
   committed : Release \cup {NoFile}, sums : Release \cup {NoFile}, named : Release \cup {NoFile},
   expected : Release \cup {NoFile}]

WorldTyped ==
  /\ TruthTypeOK /\ traces \in TraceState
  /\ installer \in [scripts : {"before", "r30"}, manifest : {"before", "r30"}]

SeenArePins(k) ==
  /\ k.at = "lane" => k.red = {} /\ k.seen = Everywhere({})
  /\ k.at # "lane" /\ k.red = {} /\ ~k.repinned => \A m \in Canonical : k.seen[m] = {pins[m]}

AcceptedIsDeployed(k) ==
  /\ k.at \in {"checksums", "manifest", "scripts", "commands"} => k.hosted
  /\ k.hosted /\ ~k.rolledBack =>
       /\ k.sums = "r30" => site["checksums"] = "r30"
       /\ k.named = "r30" => site["manifest"] = "r30"
       /\ k.at \in {"commands", "merged", "docs", "done"} /\ k.red = {} /\ k.named = "r30" =>
            k.sums = "r30" /\ site["scripts"] = "r30"
       /\ k.at \in {"merged", "docs", "done"} /\ k.red = {} /\ k.named = "r30" => site["commands"] = "r30"
       /\ k.at \in {"docs", "done"} /\ k.red = {} => k.named = "r30"

NothingFailsConverged(k) ==
  k.untouched /\ ~k.hosted /\ Converged => k.red = {} /\ (k.at = "lane" => ~k.critical)

TruthIInv ==
  /\ WorldTyped /\ check \in {NoCheck} \cup CheckRecord
  /\ check # NoCheck => SeenArePins(check) /\ AcceptedIsDeployed(check) /\ NothingFailsConverged(check)

=============================================================================
