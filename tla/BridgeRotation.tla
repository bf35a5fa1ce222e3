--------------------------- MODULE BridgeRotation ---------------------------
(***************************************************************************)
(* Rotation of the bridge key that the Spawner and the Telegram profiles   *)
(* share (`spark secrets set spark.bridge_api_key`), with the starts and   *)
(* stops of those consumers by other invocations.  All of them hold the    *)
(* bridge rotation lock, so ProcessSupervisor's theorem StartUndisturbed   *)
(* lets one step stand here for a launch with its readiness wait, and one  *)
(* for a stop.  What is added is the key: the managed secret, its staged   *)
(* replacement, the copies older installs left in generated env files, and *)
(* the key each process was launched with.                                 *)
(*                                                                         *)
(* Any call of a rotation can raise, by its own failure, a missed lock or  *)
(* an interrupt, and leave its work half done; any invocation can be       *)
(* killed.                                                                 *)
(***************************************************************************)
EXTENDS SecretBackends

CONSTANTS
  Consumer,   \* process keys of the bridge consumers
  Spawner,    \* the one started first and stopped last
  Cli,        \* command-line invocations
  Off,        \* in the abstract protocol, a consumer that does not run
  Faults      \* whether storage faults, interrupts and crashes happen

ASSUME RotationAssumption ==
  /\ Spawner \in Consumer
  /\ None \notin Cli \cup Consumer
  /\ Off \notin Value \cup {None}
  /\ Faults \in BOOLEAN

VARIABLES
  rotLock,    \* holder of the bridge rotation lock
  pc, job,    \* where each Cli is, and what it was asked to do
  resolved,   \* the key the start in progress resolved for its child
  tracked,    \* the consumers that pids.json has a record for
  proc,       \* the process last launched for each consumer
  stable,     \* slot of spark.bridge_api_key
  pending,    \* whether a copy of spark.bridge_api_key.pending is anywhere
  legacy,     \* bridge keys in generated env files
  rot,        \* locals of rotate_managed_bridge_api_key
  report      \* how a rotation ended, until another command begins

procVars   == <<tracked, proc>>
secretVars == <<stable, pending, legacy>>
cliVars    == <<rotLock, pc, job, resolved>>
vars == <<rotLock, pc, job, resolved, tracked, proc, stable, pending, legacy, rot, report>>

Goto(c, label) == pc' = [pc EXCEPT ![c] = label]

Job == [op : {"start", "stop"}, key : Consumer] \cup [op : {"rotate"}]

NoJob == [op |-> "none"]

(* The locals of a rotation.  cause says what made it fail, for a health   *)
(* check; the other failures are "error".                                  *)
NoRotation ==
  [candidate |-> None, backend |-> None, old |-> EmptySlot, oldLegacy |-> <<>>,
   snapshot |-> {}, todo |-> {}, consumersStopped |-> FALSE,
   promotionAttempted |-> FALSE, rollbackFailed |-> FALSE,
   watched |-> {}, stopped |-> TRUE, uncertain |-> FALSE, cause |-> "none"]

RotationLocals ==
  [candidate : Value \cup {None}, backend : Backend \cup {None},
   old : Slot, oldLegacy : {<<>>} \cup [Consumer -> Value \cup {None}],
   snapshot : SUBSET Consumer, todo : SUBSET Consumer, consumersStopped : BOOLEAN,
   promotionAttempted : BOOLEAN, rollbackFailed : BOOLEAN,
   watched : SUBSET Consumer, stopped : BOOLEAN, uncertain : BOOLEAN,
   cause : {"none", "error", "health"}]

ProcessState == [st : {"gone", "live", "doomed", "zombie"},
                 key : Value \cup {None}, parent : Cli \cup {None}]

Gone == [st |-> "gone", key |-> None, parent |-> None]

----------------------------------------------------------------------------
(* Processes.  A child of an invocation that still runs becomes a zombie,  *)
(* which os.kill(pid, 0) cannot tell from a running process.               *)
Running(k) == proc[k].st \in {"live", "doomed", "zombie"}

Ended(k) == IF proc[k].parent = None THEN Gone ELSE [proc[k] EXCEPT !.st = "zombie"]

(* SIGTERM, five seconds, SIGKILL: what the process may be afterwards.     *)
AfterStop(k) ==
  IF proc[k].st \in {"live", "doomed"}
  THEN {Ended(k), [proc[k] EXCEPT !.st = "doomed"]}
  ELSE {proc[k]}

ProcessExits(k) ==
  /\ proc[k].st \in {"live", "doomed"}
  /\ proc' = [proc EXCEPT ![k] = Ended(k)]
  /\ UNCHANGED <<cliVars, tracked, secretVars, rot, report>>

(* init adopts a child of an invocation that ended, and reaps it.          *)
Adopted(k) == IF proc[k].st = "zombie" THEN Gone ELSE [proc[k] EXCEPT !.parent = None]

(* The invocation ends: its lock is released, its children are adopted.    *)
EndCommand(c) ==
  /\ Goto(c, "idle")
  /\ job' = [job EXCEPT ![c] = NoJob]
  /\ resolved' = [resolved EXCEPT ![c] = None]
  /\ rotLock' = IF rotLock = c THEN None ELSE rotLock
  /\ rot' = IF rotLock = c THEN NoRotation ELSE rot
  /\ proc' = [k \in Consumer |-> IF proc[k].parent = c THEN Adopted(k) ELSE proc[k]]

Leave(c) == EndCommand(c) /\ UNCHANGED <<tracked, secretVars>>

----------------------------------------------------------------------------
(* The key a launch gives its child.                                       *)
LegacyKeys == {legacy[k] : k \in Consumer} \ {None}

LegacyMismatch == Fetch(stable) = None /\ \E v, w \in LegacyKeys : v # w

ManagedKey ==
  CASE Fetch(stable) # None -> Fetch(stable)
    [] Fetch(stable) = None /\ (\E v \in Value : LegacyKeys = {v})
         -> CHOOSE v \in Value : LegacyKeys = {v}
    [] OTHER -> None

(* _start_module_unlocked for a consumer whose key is resolved: the ways   *)
(* it can end.  Not every one that fails leaves nothing running.           *)
LaunchResults(c, v) ==
  LET child == [st |-> "live", key |-> v, parent |-> c] IN
  { [healthy |-> TRUE,  proc |-> child, tracked |-> TRUE],
    [healthy |-> FALSE, proc |-> child, tracked |-> TRUE],
    [healthy |-> FALSE, proc |-> Gone,  tracked |-> FALSE],
    [healthy |-> FALSE, proc |-> [child EXCEPT !.st = "zombie"], tracked |-> FALSE],
    [healthy |-> FALSE, proc |-> [child EXCEPT !.st = "doomed"], tracked |-> FALSE] }

Apply(k, r) ==
  /\ proc' = [proc EXCEPT ![k] = r.proc]
  /\ tracked' = [tracked EXCEPT ![k] = r.tracked]

(* What a whole start does when nothing can come between, with healthy the *)
(* value it returns.                                                       *)
Start(c, k, healthy) ==
  \/ /\ tracked[k] /\ Running(k)
     /\ healthy
     /\ UNCHANGED procVars
  \/ /\ ~(tracked[k] /\ Running(k))
     /\ ~healthy
     /\ UNCHANGED procVars
  \/ /\ ~(tracked[k] /\ Running(k)) /\ ~LegacyMismatch
     /\ \E r \in LaunchResults(c, ManagedKey) : healthy = r.healthy /\ Apply(k, r)

(* _stop_tracked_process_key_unlocked                                      *)
Stop(k) ==
  /\ \E p \in IF tracked[k] THEN AfterStop(k) ELSE {proc[k]} :
       proc' = [proc EXCEPT ![k] = p]
  /\ tracked' = [tracked EXCEPT ![k] = FALSE]

----------------------------------------------------------------------------
(* Commands.                                                               *)
Begin(c, j) ==
  /\ pc[c] = "idle"
  /\ job' = [job EXCEPT ![c] = j]
  /\ Goto(c, "waiting")
  /\ report' = "none"
  /\ UNCHANGED <<rotLock, resolved, procVars, secretVars, rot>>

OldValues == (LegacyKeys \cup {Fetch(stable)}) \ {None}

TakeLock_Unlocked(c) ==
  /\ pc[c] = "waiting"
  /\ rotLock = None \/ job[c].op = "start"
  /\ rotLock' = IF rotLock = None THEN c ELSE rotLock
  /\ Goto(c, job[c].op)
  /\ UNCHANGED <<job, resolved, procVars, secretVars, rot, report>>

TakeLock(c) ==
  /\ pc[c] = "waiting"
  /\ rotLock = None
  /\ rotLock' = c
  /\ Goto(c, job[c].op)
  /\ UNCHANGED <<job, resolved, procVars, secretVars, rot, report>>

LockTimeout_Never(c) == FALSE

LockTimeout(c) ==
  /\ pc[c] = "waiting" /\ rotLock # None
  /\ Leave(c)
  /\ UNCHANGED report

(* The command has released the lock and goes on with other modules.       *)
Release(c) ==
  /\ rotLock' = None
  /\ job' = [job EXCEPT ![c] = NoJob]
  /\ resolved' = [resolved EXCEPT ![c] = None]
  /\ Goto(c, "other")

Finish(c) ==
  /\ pc[c] = "other"
  /\ Leave(c)
  /\ UNCHANGED report

Crash(c) ==
  /\ Faults /\ pc[c] # "idle"
  /\ Leave(c)
  /\ report' = IF rotLock = c /\ job[c].op = "rotate" THEN "crashed" ELSE report

ResolveKey(c) ==
  LET k == job[c].key IN
  /\ pc[c] = "start"
  /\ IF (tracked[k] /\ Running(k)) \/ LegacyMismatch
     THEN Release(c)
     ELSE /\ resolved' = [resolved EXCEPT ![c] = ManagedKey]
          /\ Goto(c, "launch")
          /\ UNCHANGED <<rotLock, job>>
  /\ UNCHANGED <<procVars, secretVars, rot, report>>

Launch(c) ==
  /\ pc[c] = "launch"
  /\ \/ UNCHANGED procVars
     \/ \E r \in LaunchResults(c, resolved[c]) : Apply(job[c].key, r)
  /\ Release(c)
  /\ UNCHANGED <<secretVars, rot, report>>

StopConsumer(c) ==
  /\ pc[c] = "stop"
  /\ Stop(job[c].key)
  /\ Release(c)
  /\ UNCHANGED <<secretVars, rot, report>>

----------------------------------------------------------------------------
(* rotate_managed_bridge_api_key                                           *)

(* stop_live_bridge_consumers goes over the records it finds.              *)
StopAll(r) == [r EXCEPT !.todo = {k \in Consumer : tracked'[k]},
                        !.watched = {k \in Consumer : tracked'[k]},
                        !.stopped = TRUE]

(* A step of the try block raises after consumers_stopped: roll back.      *)
Raise(c, cause) ==
  /\ Goto(c, "undo")
  /\ rot' = StopAll([rot EXCEPT !.cause = cause])

Capture_ValueOnly(candidate, backend) ==
  [NoRotation EXCEPT !.candidate = candidate, !.backend = backend,
                     !.old = Fetch(stable), !.oldLegacy = legacy]

Capture(candidate, backend) ==
  [NoRotation EXCEPT !.candidate = candidate, !.backend = backend,
                     !.old = stable, !.oldLegacy = legacy]

(* A value in use, managed or in an env file, is refused before anything.  *)
RefuseCandidate(c) ==
  /\ pc[c] = "rotate"
  /\ OldValues # {}
  /\ Leave(c)
  /\ report' = "refused"

Stage(c, candidate, backend) ==
  /\ pc[c] = "rotate"
  /\ candidate \notin OldValues
  /\ pending' = TRUE
  /\ rot' = Capture(candidate, backend)
  /\ Goto(c, "snapshot")
  /\ UNCHANGED <<rotLock, job, resolved, procVars, stable, legacy, report>>

StageRaises(c, candidate, backend) ==
  /\ Faults /\ pc[c] = "rotate"
  /\ candidate \notin OldValues
  /\ pending' \in BOOLEAN
  /\ rot' = [Capture(candidate, backend) EXCEPT !.cause = "error"]
  /\ Goto(c, "unstage")
  /\ UNCHANGED <<rotLock, job, resolved, procVars, stable, legacy, report>>

TakeSnapshot(c) ==
  LET live == {k \in Consumer : tracked[k] /\ Running(k)} IN
  /\ pc[c] = "snapshot"
  /\ rot' = [rot EXCEPT !.snapshot = live, !.todo = live, !.consumersStopped = TRUE]
  /\ Goto(c, "halt")
  /\ UNCHANGED <<rotLock, job, resolved, procVars, secretVars, report>>

SnapshotRaises(c) ==
  /\ Faults /\ pc[c] = "snapshot"
  /\ rot' = [rot EXCEPT !.cause = "error"]
  /\ Goto(c, "unstage")
  /\ UNCHANGED <<rotLock, job, resolved, procVars, secretVars, report>>

(* Telegram profiles stop before the Spawner and start after it.           *)
NextToStop(k)  == k \in rot.todo /\ (k = Spawner => rot.todo = {Spawner})
NextToStart(k) == k \in rot.todo /\ (Spawner \in rot.todo => k = Spawner)

HaltConsumer_Unchecked(c) ==
  /\ pc[c] = "halt"
  /\ \E k \in Consumer :
       /\ NextToStop(k)
       /\ rot' = [rot EXCEPT !.todo = @ \ {k}]
  /\ UNCHANGED <<rotLock, pc, job, resolved, procVars, secretVars, report>>

(* The records are popped in memory, and saved when all have stopped.      *)
HaltConsumer(c) ==
  /\ pc[c] = "halt"
  /\ \E k \in Consumer :
       /\ NextToStop(k)
       /\ \E p \in AfterStop(k) : proc' = [proc EXCEPT ![k] = p]
       /\ UNCHANGED tracked
       /\ IF Running(k)'
          THEN Raise(c, "error")
          ELSE rot' = [rot EXCEPT !.todo = @ \ {k}] /\ UNCHANGED pc
  /\ UNCHANGED <<rotLock, job, resolved, secretVars, report>>

HaltRaises(c) ==
  /\ Faults /\ pc[c] = "halt"
  /\ UNCHANGED procVars
  /\ Raise(c, "error")
  /\ UNCHANGED <<rotLock, job, resolved, secretVars, report>>

SaveStopped(c) ==
  /\ pc[c] = "halt" /\ rot.todo = {}
  /\ tracked' = [k \in Consumer |-> tracked[k] /\ k \notin rot.snapshot]
  /\ rot' = [rot EXCEPT !.promotionAttempted = TRUE]
  /\ Goto(c, "promote")
  /\ UNCHANGED <<rotLock, job, resolved, proc, secretVars, report>>

Promote(c) ==
  /\ pc[c] = "promote"
  /\ stable' \in Replaced(stable, rot.candidate, rot.backend)
  /\ Goto(c, "scrub")
  /\ UNCHANGED <<rotLock, job, resolved, procVars, pending, legacy, rot, report>>

PromoteRaises(c) ==
  /\ Faults /\ pc[c] = "promote"
  /\ stable' \in ReplaceCut(stable, rot.candidate, rot.backend)
  /\ UNCHANGED procVars
  /\ Raise(c, "error")
  /\ UNCHANGED <<rotLock, job, resolved, pending, legacy, report>>

(* The env files are written one by one.                                   *)
PartOf(from, to) ==
  \E done \in SUBSET Consumer :
    legacy' = [k \in Consumer |-> IF k \in done THEN to[k] ELSE from[k]]

NoLegacy == [k \in Consumer |-> None]

ScrubLegacy(c) ==
  /\ pc[c] = "scrub"
  /\ legacy' = NoLegacy
  /\ rot' = [rot EXCEPT !.todo = rot.snapshot]
  /\ Goto(c, "restart")
  /\ UNCHANGED <<rotLock, job, resolved, procVars, stable, pending, report>>

ScrubRaises(c) ==
  /\ Faults /\ pc[c] = "scrub"
  /\ PartOf(legacy, NoLegacy)
  /\ UNCHANGED procVars
  /\ Raise(c, "error")
  /\ UNCHANGED <<rotLock, job, resolved, stable, pending, report>>

(* start_bridge_consumer_snapshot                                          *)
RestartConsumer(c) ==
  /\ pc[c] = "restart"
  /\ \E k \in Consumer, healthy \in BOOLEAN :
       /\ NextToStart(k)
       /\ Start(c, k, healthy)
       /\ IF healthy
          THEN rot' = [rot EXCEPT !.todo = @ \ {k}] /\ UNCHANGED pc
          ELSE Raise(c, "health")
  /\ UNCHANGED <<rotLock, job, resolved, secretVars, report>>

Complete_KeepsStaged(c) ==
  /\ pc[c] = "restart" /\ rot.todo = {}
  /\ EndCommand(c)
  /\ report' = "rotated"
  /\ UNCHANGED <<tracked, secretVars>>

Complete(c) ==
  /\ pc[c] = "restart" /\ rot.todo = {}
  /\ pending' = FALSE
  /\ EndCommand(c)
  /\ report' = "rotated"
  /\ UNCHANGED <<tracked, stable, legacy>>

CompleteRaises(c) ==
  /\ Faults /\ pc[c] = "restart" /\ rot.todo = {}
  /\ pending' \in {pending, FALSE}
  /\ UNCHANGED procVars
  /\ Raise(c, "error")
  /\ UNCHANGED <<rotLock, job, resolved, stable, legacy, report>>

----------------------------------------------------------------------------
(* The rollback of a rotation.                                             *)

(* stop_live_bridge_consumers, one record after the other.                 *)
RollbackStop(c) ==
  /\ pc[c] \in {"undo", "contain"}
  /\ \E k \in Consumer :
       /\ NextToStop(k)
       /\ Stop(k)
       /\ rot' = [rot EXCEPT !.todo = @ \ {k}]
  /\ UNCHANGED <<rotLock, pc, job, resolved, secretVars, report>>

RollbackStopRaises(c) ==
  /\ Faults /\ pc[c] \in {"undo", "contain"}
  /\ \E k \in Consumer :
       /\ NextToStop(k)
       /\ rot' = [rot EXCEPT !.todo = @ \ {k}, !.stopped = FALSE]
  /\ UNCHANGED <<rotLock, pc, job, resolved, procVars, secretVars, report>>

AllStopped ==
  rot.stopped /\ (\A k \in Consumer : ~tracked[k]) /\ \A k \in rot.watched : ~Running(k)

UndoDone_Trusting(c) ==
  /\ pc[c] = "undo" /\ rot.todo = {}
  /\ rot' = [rot EXCEPT !.watched = {}]
  /\ Goto(c, IF rot.promotionAttempted THEN "restore" ELSE "unstage")
  /\ UNCHANGED <<rotLock, job, resolved, procVars, secretVars, report>>

(* With consumers in an uncertain state the old generation is not restored.*)
UndoDone(c) ==
  /\ pc[c] = "undo" /\ rot.todo = {}
  /\ \E uncertain \in {~AllStopped} \cup (IF Faults THEN {TRUE} ELSE {}) :
       /\ rot' = [rot EXCEPT !.watched = {}, !.uncertain = uncertain,
                             !.rollbackFailed = uncertain]
       /\ Goto(c, IF rot.promotionAttempted /\ ~uncertain THEN "restore" ELSE "unstage")
  /\ UNCHANGED <<rotLock, job, resolved, procVars, secretVars, report>>

RestoreGeneration_KeepsScrubbed(c) ==
  /\ pc[c] = "restore"
  /\ stable' \in Restored(rot.old)
  /\ Goto(c, "unstage")
  /\ UNCHANGED <<rotLock, job, resolved, procVars, pending, legacy, rot, report>>

RestoreGeneration(c) ==
  /\ pc[c] = "restore"
  /\ stable' \in Restored(rot.old)
  /\ legacy' = rot.oldLegacy
  /\ Goto(c, "unstage")
  /\ UNCHANGED <<rotLock, job, resolved, procVars, pending, rot, report>>

RestoreRaises(c) ==
  /\ Faults /\ pc[c] = "restore"
  /\ \/ stable' \in RestoreCut(stable, rot.old) /\ UNCHANGED legacy
     \/ stable' \in Restored(rot.old) /\ PartOf(legacy, rot.oldLegacy)
  /\ rot' = [rot EXCEPT !.rollbackFailed = TRUE]
  /\ Goto(c, "unstage")
  /\ UNCHANGED <<rotLock, job, resolved, procVars, pending, report>>

(* _delete_pending_or_raise, and the restart of the snapshot if all went   *)
(* well so far.                                                            *)
Unstage(c) ==
  /\ pc[c] = "unstage"
  /\ pending' = FALSE
  /\ IF rot.consumersStopped /\ ~rot.rollbackFailed
     THEN Goto(c, "revive") /\ rot' = [rot EXCEPT !.todo = rot.snapshot]
     ELSE Goto(c, "report") /\ UNCHANGED rot
  /\ UNCHANGED <<rotLock, job, resolved, procVars, stable, legacy, report>>

UnstageRaises(c) ==
  /\ Faults /\ pc[c] = "unstage"
  /\ pending' \in {pending, FALSE}
  /\ rot' = [rot EXCEPT !.rollbackFailed = TRUE]
  /\ Goto(c, "report")
  /\ UNCHANGED <<rotLock, job, resolved, procVars, stable, legacy, report>>

ReviveConsumer(c) ==
  /\ pc[c] = "revive"
  /\ \E k \in Consumer, healthy \in BOOLEAN :
       /\ NextToStart(k)
       /\ Start(c, k, healthy)
       /\ IF healthy
          THEN rot' = [rot EXCEPT !.todo = @ \ {k}] /\ UNCHANGED pc
          ELSE /\ rot' = StopAll([rot EXCEPT !.rollbackFailed = TRUE])
               /\ Goto(c, "contain")
  /\ UNCHANGED <<rotLock, job, resolved, secretVars, report>>

Revived(c) ==
  /\ pc[c] = "revive" /\ rot.todo = {}
  /\ Goto(c, "report")
  /\ UNCHANGED <<rotLock, job, resolved, procVars, secretVars, rot, report>>

ContainDone(c) ==
  /\ pc[c] = "contain" /\ rot.todo = {}
  /\ \E uncertain \in {~AllStopped} \cup (IF Faults THEN {TRUE} ELSE {}) :
       rot' = [rot EXCEPT !.watched = {}, !.uncertain = uncertain]
  /\ Goto(c, "report")
  /\ UNCHANGED <<rotLock, job, resolved, procVars, secretVars, report>>

Outcome ==
  CASE ~rot.rollbackFailed   -> "restored"
    [] rot.rollbackFailed /\ rot.uncertain -> "uncertain"
    [] rot.rollbackFailed /\ ~rot.uncertain /\ rot.consumersStopped -> "stopped"
    [] OTHER -> "unchanged"

Report(c) ==
  /\ pc[c] = "report"
  /\ Leave(c)
  /\ report' = Outcome

----------------------------------------------------------------------------
Init ==
  /\ rotLock = None
  /\ pc = [c \in Cli |-> "idle"]
  /\ job = [c \in Cli |-> NoJob]
  /\ resolved = [c \in Cli |-> None]
  /\ stable \in {EmptySlot} \cup {Indexed(With(EmptySlot, b, v), b) : b \in Backend, v \in Value}
  /\ pending = FALSE
  /\ legacy \in [Consumer -> Value \cup {None}]
  /\ Fetch(stable) # None => LegacyKeys \subseteq {Fetch(stable)}
  /\ tracked \in [Consumer -> BOOLEAN]
  /\ LegacyMismatch => \A k \in Consumer : ~tracked[k]
  /\ proc = [k \in Consumer |->
               IF tracked[k] THEN [st |-> "live", key |-> ManagedKey, parent |-> None] ELSE Gone]
  /\ rot = NoRotation
  /\ report = "none"

RotationStep(c) ==
  \/ RefuseCandidate(c)
  \/ \E v \in Value, b \in Backend : Stage(c, v, b) \/ StageRaises(c, v, b)
  \/ TakeSnapshot(c) \/ SnapshotRaises(c)
  \/ HaltConsumer(c) \/ HaltRaises(c) \/ SaveStopped(c)
  \/ Promote(c) \/ PromoteRaises(c) \/ ScrubLegacy(c) \/ ScrubRaises(c)
  \/ RestartConsumer(c) \/ Complete(c) \/ CompleteRaises(c)

RollbackStep(c) ==
  \/ RollbackStop(c) \/ RollbackStopRaises(c) \/ UndoDone(c)
  \/ RestoreGeneration(c) \/ RestoreRaises(c) \/ Unstage(c) \/ UnstageRaises(c)
  \/ ReviveConsumer(c) \/ Revived(c) \/ ContainDone(c) \/ Report(c)

CliStep(c) ==
  \/ TakeLock(c) \/ LockTimeout(c) \/ ResolveKey(c) \/ Launch(c) \/ StopConsumer(c)
  \/ Finish(c) \/ RotationStep(c) \/ RollbackStep(c)

Next ==
  \/ \E c \in Cli : CliStep(c) \/ Crash(c) \/ \E j \in Job : Begin(c, j)
  \/ \E k \in Consumer : ProcessExits(k)

Spec == Init /\ [][Next]_vars

(* Every wait inside a command has a deadline.                             *)
FairSpec == Spec /\ \A c \in Cli : WF_vars(CliStep(c))

----------------------------------------------------------------------------
(* Correctness.                                                            *)

PC == {"idle", "waiting", "other", "start", "launch", "stop", "rotate", "snapshot",
       "halt", "promote", "scrub", "restart", "undo", "restore", "unstage",
       "revive", "contain", "report"}

Outcomes == {"none", "refused", "crashed", "rotated", "restored", "stopped",
             "unchanged", "uncertain"}

(* Every variable stays in its domain.                                     *)
TypeOK ==
  /\ rotLock \in Cli \cup {None}
  /\ pc \in [Cli -> PC]
  /\ job \in [Cli -> Job \cup {NoJob}]
  /\ resolved \in [Cli -> Value \cup {None}]
  /\ tracked \in [Consumer -> BOOLEAN]
  /\ proc \in [Consumer -> ProcessState]
  /\ stable \in Slot /\ pending \in BOOLEAN
  /\ legacy \in [Consumer -> Value \cup {None}]
  /\ rot \in RotationLocals
  /\ report \in Outcomes

(* k is supervised and runs.                                               *)
Serves(k) == tracked[k] /\ proc[k].st = "live"

(* The consumers that Spark supervises all run with the managed key, at    *)
(* every moment: not even a start that races a rotation, a rollback or a   *)
(* rotation killed half-way leaves a process on another generation.        *)
OneGeneration == \A k \in Consumer : Serves(k) => proc[k].key = ManagedKey

(* No consumer that still runs is without a record, so that the next       *)
(* rotation, restart or stop will find it: a rotation drops the records of *)
(* its snapshot only once every consumer in it has stopped, and a rollback *)
(* that fails to stop one keeps its record.                                *)
RunningIsTracked == \A k \in Consumer : proc[k].st = "live" => tracked[k]

(* The rotation implements the abstract generation protocol: the current   *)
(* key is the managed one, its users are the supervised live consumers.    *)
Generation ==
  INSTANCE BridgeGeneration WITH
    Key  <- Value \cup {None},
    Off  <- Off,
    key  <- ManagedKey,
    user <- [k \in Consumer |->
               IF Serves(k) THEN proc[k].key ELSE Off]

ImplementsGeneration == Generation!Spec

Ends(c, outcome) ==
  pc[c] \in {"restart", "report"} /\ pc'[c] = "idle" /\ report' = outcome

ConsumerSetIsSnapshot ==
  \A k \in Consumer : IF k \in rot.snapshot THEN tracked[k] ELSE proc[k].st # "live"

(* A rotation that reports success has promoted the new key, left no       *)
(* staged copy and no env file with a key, and restarted exactly the       *)
(* consumers that were running.                                            *)
SuccessIsComplete ==
  [][\A c \in Cli : Ends(c, "rotated") =>
       /\ Fetch(stable) = rot.candidate
       /\ ~pending'
       /\ \A k \in Consumer : legacy[k] = None
       /\ ConsumerSetIsSnapshot]_vars

(* A rotation that reports success leaves the key it replaced in neither   *)
(* backend, unless a stray copy was there before.                          *)
NoSupersededCopy ==
  [][\A c \in Cli : Ends(c, "rotated") =>
       \A b \in Backend :
         b = rot.old.index \/ rot.old[b] = None => stable[b] \in {None, rot.candidate}]_vars

(* A rotation that fails says what it left behind: it restored the old     *)
(* generation and the consumers that were running, or it left all of them  *)
(* stopped, or it never touched them.                                      *)
FailureIsTruthful ==
  [][\A c \in Cli :
       /\ Ends(c, "restored") =>
            /\ Fetch(stable) = Fetch(rot.old) /\ legacy = rot.oldLegacy
            /\ ~pending
            /\ rot.consumersStopped => ConsumerSetIsSnapshot
       /\ Ends(c, "stopped") => \A k \in Consumer : proc[k].st # "live"
       /\ Ends(c, "unchanged") => stable = rot.old /\ legacy = rot.oldLegacy]_vars

(* README.md: a failed health check rolls the generation back.             *)
HealthFailureRollsBack ==
  [][\A c \in Cli :
       pc[c] = "report" /\ pc'[c] = "idle" /\ rot.cause = "health" =>
         Fetch(stable) = Fetch(rot.old)]_vars

(* Every command ends, a rotation with its rollback too.                   *)
CommandsFinish == \A c \in Cli : pc[c] # "idle" ~> pc[c] = "idle"

----------------------------------------------------------------------------
(* The inductive invariant behind the theorems: what an invocation was     *)
(* asked to do, that it holds the rotation lock while it does it, and that *)
(* no supervised consumer runs while the key can change.                   *)
Protected == PC \ {"idle", "waiting", "other"}

RotationPC == Protected \ {"start", "launch", "stop"}

JobOK(c) ==
  /\ pc[c] = "waiting" => job[c] \in Job
  /\ pc[c] \in {"start", "launch", "stop"} => job[c].key \in Consumer

LockOK(c) == pc[c] \in Protected => rotLock = c

LaunchOK(c) == pc[c] = "launch" => resolved[c] = ManagedKey

HaltOK(c) == pc[c] = "halt" => \A k \in Consumer : Serves(k) => k \in rot.todo

QuietOK(c) ==
  pc[c] \in {"promote", "scrub", "restore"} => \A k \in Consumer : ~Serves(k)

(* What a rotation captured, it can put back.                              *)
CaptureOK(c) ==
  pc[c] \in {"snapshot", "halt", "promote", "scrub", "restart", "undo", "restore"} =>
    rot.oldLegacy \in [Consumer -> Value \cup {None}]

CliInv(c) ==
  JobOK(c) /\ LockOK(c) /\ LaunchOK(c) /\ HaltOK(c) /\ QuietOK(c) /\ CaptureOK(c)

IInv == TypeOK /\ OneGeneration /\ \A c \in Cli : CliInv(c)

(* What a rotation has achieved by the step it is at, which its report     *)
(* tells.  The key and the env files are the old ones, or the new key is   *)
(* in place; a consumer that was running is on record again unless its     *)
(* start is still to come, and no other one runs.                          *)
OldInPlace == stable = rot.old /\ legacy = rot.oldLegacy

OldGeneration == Fetch(stable) = Fetch(rot.old) /\ legacy = rot.oldLegacy

NewInPlace ==
  /\ Fetch(stable) = rot.candidate
  /\ \A b \in Backend :
       b = rot.old.index \/ rot.old[b] = None => stable[b] \in {None, rot.candidate}

NobodyLive == \A k \in Consumer : proc[k].st # "live"

BackToSnapshot ==
  /\ rot.todo \subseteq rot.snapshot
  /\ \A k \in Consumer :
       IF k \in rot.snapshot \ rot.todo THEN tracked[k]
       ELSE k \notin rot.snapshot => proc[k].st # "live"

ReplacingOK(c) ==
  /\ pc[c] \in RotationPC => job[c].op = "rotate"
  /\ pc[c] \in {"snapshot", "halt", "promote"} => OldInPlace
  /\ pc[c] \in {"scrub", "restart"} => NewInPlace
  /\ pc[c] = "restart" => legacy = NoLegacy
  /\ pc[c] \in {"restart", "revive"} => BackToSnapshot
  /\ pc[c] = "snapshot" => ~rot.consumersStopped /\ ~rot.uncertain
  /\ pc[c] \in RotationPC \ {"rotate", "snapshot", "unstage", "report"} => rot.consumersStopped
  /\ pc[c] \in {"promote", "scrub", "restart"} => rot.promotionAttempted

RestoringOK(c) ==
  /\ pc[c] = "undo" /\ ~rot.promotionAttempted => OldInPlace
  /\ pc[c] = "restore" => ~rot.rollbackFailed /\ ~rot.uncertain
  /\ pc[c] = "unstage" /\ ~rot.rollbackFailed => OldGeneration /\ ~rot.uncertain
  /\ pc[c] = "revive" => ~rot.rollbackFailed /\ OldGeneration /\ ~pending
  /\ pc[c] = "contain" => rot.rollbackFailed
  /\ pc[c] = "report" /\ ~rot.rollbackFailed =>
       OldGeneration /\ ~pending /\ (rot.consumersStopped => ConsumerSetIsSnapshot)
  /\ pc[c] \in {"unstage", "report"} =>
       /\ ~rot.consumersStopped => OldInPlace
       /\ pc[c] = "unstage" \/ rot.rollbackFailed =>
            (rot.consumersStopped /\ ~rot.uncertain => NobodyLive)

ProgressOK(c) == ReplacingOK(c) /\ RestoringOK(c)

ProgressInv == IInv /\ RunningIsTracked /\ \A c \in Cli : ProgressOK(c)

=============================================================================
