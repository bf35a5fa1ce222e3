------------------------ MODULE BridgeRotationProofs ------------------------
(***************************************************************************)
(* Theorems about BridgeRotation for every set of consumers, invocations   *)
(* and secret values, with storage faults and crashes or without.          *)
(***************************************************************************)
EXTENDS BridgeRotation, TLAPS

USE RotationAssumption, ValueAssumption

----------------------------------------------------------------------------
(* The slots that operations on a secret leave behind are slots.           *)

Copy == Value \cup {None}

(* Writing, removing or indexing one copy of a secret leaves a slot.       *)
LEMMA SlotUpdates ==
  ASSUME NEW s \in Slot, NEW v \in Copy, NEW b \in Backend
  PROVE  With(s, b, v) \in Slot /\ Without(s, b) \in Slot /\ Indexed(s, b) \in Slot
<1>1. CASE b = "keychain"
  BY <1>1 DEF Slot, Copy, Backend, With, Without, Indexed
<1>2. CASE b = "file"
  BY <1>2 DEF Slot, Copy, Backend, With, Without, Indexed
<1>3. QED
  BY <1>1, <1>2 DEF Backend

(* A secret that is in no backend is a slot.                               *)
LEMMA EmptySlotType == EmptySlot \in Slot
  BY DEF EmptySlot, Slot, Backend

(* fetch_secret returns a value or nothing, and a value only when the      *)
(* index names a backend.                                                  *)
LEMMA FetchType ==
  ASSUME NEW s \in Slot
  PROVE  Fetch(s) \in Copy /\ (Fetch(s) # None => s.index \in Backend)
  BY DEF Fetch, Slot, Copy, Backend

(* store_secret leaves a slot, whether it returns or raises.               *)
LEMMA StoredType ==
  ASSUME NEW s \in Slot, NEW v \in Copy, NEW preferred
  PROVE  Stored(s, v, preferred) \subseteq Slot /\ StoreCut(s, v, preferred) \subseteq Slot
<1>1. "file" \in Backend /\ "keychain" \in Backend
  BY DEF Backend
<1>2. With(s, "keychain", v) \in Slot
  BY <1>1, SlotUpdates
<1>3. ASSUME NEW t \in Slot
      PROVE  With(t, "file", v) \in Slot /\ Indexed(With(t, "file", v), "file") \in Slot
  BY <1>1, <1>3, SlotUpdates
<1>4. Indexed(With(s, "keychain", v), "keychain") \in Slot
  BY <1>1, <1>2, SlotUpdates
<1>5. QED
  BY <1>2, <1>3, <1>4 DEF Stored, StoreCut

(* _purge_secret_backends leaves a slot wherever it stops.                 *)
LEMMA PurgeCutType ==
  ASSUME NEW s \in Slot
  PROVE  PurgeCut(s) \subseteq Slot
<1>1. None \in Copy /\ "file" \in Backend /\ "keychain" \in Backend
  BY DEF Backend, Copy
<1>2. Without(s, "keychain") \in Slot /\ Without(s, "file") \in Slot
      /\ Without(Without(s, "file"), "keychain") \in Slot
  BY <1>1, SlotUpdates
<1>3. QED
  BY <1>2 DEF PurgeCut

(* _replace_secret_backend leaves a slot, whether it returns or raises.    *)
LEMMA ReplacedType ==
  ASSUME NEW s \in Slot, NEW v \in Copy, NEW preferred
  PROVE  Replaced(s, v, preferred) \subseteq Slot /\ ReplaceCut(s, v, preferred) \subseteq Slot
<1>1. ASSUME NEW t \in Stored(s, v, preferred)
      PROVE  (IF s.index \notin {None, t.index} THEN Without(t, s.index) ELSE t) \in Slot
  <2>1. t \in Slot
    BY StoredType
  <2>2. s.index \in Backend \cup {None} /\ None \in Copy
    BY DEF Slot, Copy
  <2>3. QED
    BY <2>1, <2>2, SlotUpdates
<1>2. Replaced(s, v, preferred) \subseteq Slot
  BY <1>1 DEF Replaced
<1>3. QED
  BY <1>2, StoredType DEF ReplaceCut

(* _restore_bridge_generation leaves a slot, whether it returns or raises. *)
LEMMA RestoredType ==
  ASSUME NEW s \in Slot, NEW old \in Slot
  PROVE  Restored(old) \subseteq Slot /\ RestoreCut(s, old) \subseteq Slot
<1>1. Fetch(old) \in Copy
  BY FetchType
<1>2. Stored(EmptySlot, Fetch(old), old.index) \subseteq Slot
      /\ StoreCut(EmptySlot, Fetch(old), old.index) \subseteq Slot
  BY <1>1, EmptySlotType, StoredType
<1>3. QED
  BY <1>2, EmptySlotType, PurgeCutType DEF Restored, RestoreCut

----------------------------------------------------------------------------
(* What can become of a process.                                           *)

(* A process that ends is gone or a zombie.                                *)
LEMMA EndedType ==
  ASSUME TypeOK, NEW k \in Consumer
  PROVE  Ended(k) \in ProcessState /\ Ended(k).st \in {"gone", "zombie"}
  BY DEF Ended, Gone, TypeOK, ProcessState

(* A process that stop_module was called on is not live afterwards.        *)
LEMMA AfterStopType ==
  ASSUME TypeOK, NEW k \in Consumer, NEW p \in AfterStop(k)
  PROVE  p \in ProcessState /\ p.st # "live"
<1>1. proc[k] \in ProcessState
  BY DEF TypeOK
<1>2. CASE proc[k].st \in {"live", "doomed"}
  BY <1>1, <1>2, EndedType DEF AfterStop, ProcessState
<1>3. CASE proc[k].st \notin {"live", "doomed"}
  BY <1>1, <1>3 DEF AfterStop
<1>4. QED
  BY <1>2, <1>3

(* A launch leaves a process that runs, if it does, with the key it was    *)
(* given.                                                                  *)
LEMMA LaunchType ==
  ASSUME NEW c \in Cli, NEW v \in Copy, NEW r \in LaunchResults(c, v)
  PROVE  /\ r.proc \in ProcessState /\ r.tracked \in BOOLEAN
         /\ r.proc.st = "live" => r.proc.key = v /\ r.tracked
<1> DEFINE child == [st |-> "live", key |-> v, parent |-> c]
           reaped == [child EXCEPT !.st = "zombie"]
           killed == [child EXCEPT !.st = "doomed"]
<1>1. child \in ProcessState /\ child.st = "live" /\ child.key = v
  BY DEF ProcessState, Copy
<1>2. Gone \in ProcessState /\ Gone.st = "gone"
  BY DEF ProcessState, Gone
<1>3. reaped = [st |-> "zombie", key |-> v, parent |-> c]
  OBVIOUS
<1>4. reaped \in ProcessState /\ reaped.st = "zombie"
  BY <1>3 DEF ProcessState, Copy
<1>5. killed = [st |-> "doomed", key |-> v, parent |-> c]
  OBVIOUS
<1>6. killed \in ProcessState /\ killed.st = "doomed"
  BY <1>5 DEF ProcessState, Copy
<1>7. r \in { [healthy |-> TRUE,  proc |-> child, tracked |-> TRUE],
              [healthy |-> FALSE, proc |-> child, tracked |-> TRUE],
              [healthy |-> FALSE, proc |-> Gone,  tracked |-> FALSE],
              [healthy |-> FALSE, proc |-> reaped, tracked |-> FALSE],
              [healthy |-> FALSE, proc |-> killed, tracked |-> FALSE] }
  BY DEF LaunchResults
<1> HIDE DEF child, reaped, killed
<1>8. CASE r = [healthy |-> TRUE, proc |-> child, tracked |-> TRUE]
  BY <1>1, <1>8
<1>9. CASE r = [healthy |-> FALSE, proc |-> child, tracked |-> TRUE]
  BY <1>1, <1>9
<1>10. CASE r = [healthy |-> FALSE, proc |-> Gone, tracked |-> FALSE]
  BY <1>2, <1>10
<1>11. CASE r = [healthy |-> FALSE, proc |-> reaped, tracked |-> FALSE]
  BY <1>4, <1>11
<1>12. CASE r = [healthy |-> FALSE, proc |-> killed, tracked |-> FALSE]
  BY <1>6, <1>12
<1>13. QED
  BY <1>7, <1>8, <1>9, <1>10, <1>11, <1>12

(* The managed key is a value or no key, and depends on the secret and the *)
(* env files alone.                                                        *)
LEMMA ManagedKeyType ==
  ASSUME TypeOK
  PROVE  ManagedKey \in Copy
<1>1. Fetch(stable) \in Copy
  BY FetchType DEF TypeOK
<1>2. CASE Fetch(stable) # None
  BY <1>1, <1>2 DEF ManagedKey
<1>3. CASE Fetch(stable) = None /\ \E v \in Value : LegacyKeys = {v}
  <2>1. (CHOOSE v \in Value : LegacyKeys = {v}) \in Value
    BY <1>3
  <2>2. QED
    BY <1>3, <2>1 DEF ManagedKey, Copy
<1>4. CASE Fetch(stable) = None /\ ~\E v \in Value : LegacyKeys = {v}
  BY <1>4 DEF ManagedKey, Copy
<1>5. QED
  BY <1>2, <1>3, <1>4

(* The managed key depends on the secret and on the env files alone.       *)
LEMMA ManagedKeyKept ==
  ASSUME UNCHANGED <<stable, legacy>>
  PROVE  ManagedKey' = ManagedKey
  BY DEF ManagedKey, LegacyKeys, Fetch

----------------------------------------------------------------------------
(* Frames: what a step of c leaves alone, and what follows from it.        *)

OthersKeep(c) ==
  \A d \in Cli \ {c} : pc'[d] = pc[d] /\ job'[d] = job[d] /\ resolved'[d] = resolved[d]

(* The key stays, and consumers only stop.                                 *)
Harmless ==
  /\ UNCHANGED <<stable, legacy>>
  /\ \A k \in Consumer : Serves(k)' => Serves(k) /\ proc'[k].key = proc[k].key

(* A step that starts nothing and leaves the secret alone keeps one        *)
(* generation.                                                             *)
LEMMA HarmlessKeepsGeneration ==
  ASSUME OneGeneration, Harmless
  PROVE  OneGeneration' /\ ManagedKey' = ManagedKey
<1>1. ManagedKey' = ManagedKey
  BY ManagedKeyKept DEF Harmless
<1>2. QED
  BY <1>1 DEF Harmless, OneGeneration

(* The holder of the rotation lock answers only for itself.                *)
LEMMA HolderStep ==
  ASSUME IInv, NEW c \in Cli, rotLock = c, OthersKeep(c),
         TypeOK', OneGeneration', CliInv(c)'
  PROVE  IInv'
<1>1. ASSUME NEW d \in Cli, d # c
      PROVE  CliInv(d)'
  <2>1. pc[d] \notin Protected /\ JobOK(d) /\ pc[d] \in PC
    BY <1>1 DEF IInv, CliInv, LockOK, TypeOK
  <2>2. pc'[d] = pc[d] /\ job'[d] = job[d]
    BY <1>1 DEF OthersKeep
  <2>3. QED
    BY <2>1, <2>2 DEF CliInv, JobOK, LockOK, LaunchOK, HaltOK, QuietOK, CaptureOK,
                      Protected, PC
<1>2. QED
  BY <1>1 DEF IInv

(* Anyone may take a harmless step that does not touch another's lock.     *)
LEMMA OutsiderStep ==
  ASSUME IInv, NEW c \in Cli, OthersKeep(c), Harmless, UNCHANGED rot,
         rotLock' = rotLock \/ rotLock \in {None, c},
         TypeOK', CliInv(c)'
  PROVE  IInv'
<1>1. OneGeneration' /\ ManagedKey' = ManagedKey
  BY HarmlessKeepsGeneration DEF IInv
<1>2. ASSUME NEW d \in Cli, d # c
      PROVE  CliInv(d)'
  <2>1. CliInv(d) /\ pc'[d] = pc[d] /\ job'[d] = job[d] /\ resolved'[d] = resolved[d]
    BY <1>2 DEF OthersKeep, IInv
  <2>2. JobOK(d)' /\ CaptureOK(d)'
    BY <2>1 DEF CliInv, JobOK, CaptureOK
  <2>3. LockOK(d)'
    BY <1>2, <2>1 DEF CliInv, LockOK
  <2>4. LaunchOK(d)'
    BY <1>1, <2>1 DEF CliInv, LaunchOK, JobOK, Harmless
  <2>5. HaltOK(d)' /\ QuietOK(d)'
    BY <2>1 DEF CliInv, HaltOK, QuietOK, Harmless
  <2>6. QED
    BY <2>2, <2>3, <2>4, <2>5 DEF CliInv
<1>3. QED
  BY <1>1, <1>2 DEF IInv

(* What the end of an invocation leaves behind.                            *)
LEMMA EndCommandEffect ==
  ASSUME TypeOK, NEW c \in Cli, EndCommand(c)
  PROVE  /\ OthersKeep(c)
         /\ pc' \in [Cli -> PC] /\ pc'[c] = "idle"
         /\ job' \in [Cli -> Job \cup {NoJob}]
         /\ resolved' \in [Cli -> Value \cup {None}]
         /\ rotLock' \in Cli \cup {None}
         /\ rot' \in RotationLocals
         /\ proc' \in [Consumer -> ProcessState]
         /\ \A k \in Consumer : proc'[k].st = "live" =>
              proc[k].st = "live" /\ proc'[k].key = proc[k].key
         /\ rotLock # c => UNCHANGED <<rotLock, rot>>
<1>1. OthersKeep(c) /\ pc' \in [Cli -> PC] /\ pc'[c] = "idle"
      /\ job' \in [Cli -> Job \cup {NoJob}] /\ resolved' \in [Cli -> Value \cup {None}]
      /\ rotLock' \in Cli \cup {None}
  BY DEF EndCommand, Goto, TypeOK, PC, OthersKeep
<1>2. NoRotation \in RotationLocals
  BY EmptySlotType DEF NoRotation, RotationLocals
<1>3. rot' \in RotationLocals /\ (rotLock # c => UNCHANGED <<rotLock, rot>>)
  BY <1>2 DEF EndCommand, TypeOK
<1>4. ASSUME NEW k \in Consumer
      PROVE  /\ proc'[k] \in ProcessState
             /\ proc'[k].st = "live" => proc[k].st = "live" /\ proc'[k].key = proc[k].key
  <2>1. proc[k] \in ProcessState
    BY DEF TypeOK
  <2>2. Adopted(k) \in ProcessState
        /\ (Adopted(k).st = "live" => proc[k].st = "live" /\ Adopted(k).key = proc[k].key)
    BY <2>1 DEF Adopted, Gone, ProcessState
  <2>3. proc'[k] \in {proc[k], Adopted(k)}
    BY DEF EndCommand
  <2>4. QED
    BY <2>1, <2>2, <2>3
<1>5. proc' = [k \in Consumer |-> proc'[k]]
  BY DEF EndCommand
<1>6. QED
  BY <1>1, <1>3, <1>4, <1>5

(* An invocation may end at any point.                                     *)
LEMMA EndStep ==
  ASSUME IInv, NEW c \in Cli, EndCommand(c), UNCHANGED <<tracked, stable, legacy>>,
         pending' \in BOOLEAN, report' \in Outcomes
  PROVE  IInv'
<1>1. TypeOK
  BY DEF IInv
<1>2. TypeOK'
  BY <1>1, EndCommandEffect DEF TypeOK
<1>3. Harmless
  BY <1>1, EndCommandEffect DEF Harmless, Serves
<1>4. OneGeneration'
  BY <1>3, HarmlessKeepsGeneration DEF IInv
<1>5. pc'[c] = "idle" /\ OthersKeep(c)
  BY <1>1, EndCommandEffect
<1>6. CliInv(c)'
  BY <1>5 DEF CliInv, JobOK, LockOK, LaunchOK, HaltOK, QuietOK, CaptureOK, Protected
<1>7. CASE rotLock = c
  BY <1>2, <1>4, <1>5, <1>6, <1>7, HolderStep
<1>8. CASE rotLock # c
  BY <1>1, <1>2, <1>3, <1>5, <1>6, <1>8, EndCommandEffect, OutsiderStep
<1>9. QED
  BY <1>7, <1>8

----------------------------------------------------------------------------
(* Each step of an invocation keeps the invariant.                         *)

(* What a command is asked to do, by its operation.                        *)
LEMMA JobType ==
  ASSUME NEW j \in Job
  PROVE  j.op \in {"start", "stop", "rotate"} /\ (j.op # "rotate" => j.key \in Consumer)
<1>1. CASE j \in [op : {"start", "stop"}, key : Consumer]
  BY <1>1
<1>2. CASE j \in [op : {"rotate"}]
  BY <1>2
<1>3. QED
  BY <1>1, <1>2 DEF Job

(* A command that gives up on the rotation lock changes nothing.           *)
LEMMA LockTimeoutStep ==
  ASSUME IInv, NEW c \in Cli, LockTimeout(c)
  PROVE  IInv'
<1>1. EndCommand(c) /\ UNCHANGED <<tracked, stable, legacy>>
      /\ pending' = pending /\ report' \in Outcomes
  BY DEF LockTimeout, Leave, secretVars, Outcomes, IInv, TypeOK
<1>2. pending' \in BOOLEAN
  BY <1>1 DEF IInv, TypeOK
<1>3. QED
  BY <1>1, <1>2, EndStep

(* A command that ends without the lock changes nothing but its children's *)
(* parent.                                                                 *)
LEMMA FinishStep ==
  ASSUME IInv, NEW c \in Cli, Finish(c)
  PROVE  IInv'
<1>1. EndCommand(c) /\ UNCHANGED <<tracked, stable, legacy>>
      /\ pending' = pending /\ report' \in Outcomes
  BY DEF Finish, Leave, secretVars, Outcomes, IInv, TypeOK
<1>2. pending' \in BOOLEAN
  BY <1>1 DEF IInv, TypeOK
<1>3. QED
  BY <1>1, <1>2, EndStep

(* A rotation that refuses its value changes nothing.                      *)
LEMMA RefuseCandidateStep ==
  ASSUME IInv, NEW c \in Cli, RefuseCandidate(c)
  PROVE  IInv'
<1>1. EndCommand(c) /\ UNCHANGED <<tracked, stable, legacy>>
      /\ pending' = pending /\ report' \in Outcomes
  BY DEF RefuseCandidate, Leave, secretVars, Outcomes, IInv, TypeOK
<1>2. pending' \in BOOLEAN
  BY <1>1 DEF IInv, TypeOK
<1>3. QED
  BY <1>1, <1>2, EndStep

(* An invocation killed anywhere, a rotation half-way included, keeps the  *)
(* invariant.                                                              *)
LEMMA CrashStep ==
  ASSUME IInv, NEW c \in Cli, Crash(c)
  PROVE  IInv'
<1>1. EndCommand(c) /\ UNCHANGED <<tracked, stable, legacy>>
      /\ pending' = pending /\ report' \in Outcomes
  BY DEF Crash, Leave, secretVars, Outcomes, IInv, TypeOK
<1>2. pending' \in BOOLEAN
  BY <1>1 DEF IInv, TypeOK
<1>3. QED
  BY <1>1, <1>2, EndStep

(* A failed rotation ends.                                                 *)
LEMMA ReportStep ==
  ASSUME IInv, NEW c \in Cli, Report(c)
  PROVE  IInv'
<1>1. EndCommand(c) /\ UNCHANGED <<tracked, stable, legacy>> /\ pending' = pending
  BY DEF Report, Leave, secretVars
<1>2. Outcome \in {"restored", "uncertain", "stopped", "unchanged"}
  <2>1. rot.rollbackFailed \in BOOLEAN
    BY DEF IInv, TypeOK, RotationLocals
  <2>2. QED
    BY <2>1 DEF Outcome
<1>3. report' \in Outcomes /\ pending' \in BOOLEAN
  BY <1>1, <1>2 DEF Report, Outcomes, IInv, TypeOK
<1>4. QED
  BY <1>1, <1>3, EndStep

(* A successful rotation removes its staged copy and ends.                 *)
LEMMA CompleteStep ==
  ASSUME IInv, NEW c \in Cli, Complete(c)
  PROVE  IInv'
  BY EndStep DEF Complete, Outcomes

(* A command begins, without the lock.                                     *)
LEMMA BeginStep ==
  ASSUME IInv, NEW c \in Cli, NEW j \in Job, Begin(c, j)
  PROVE  IInv'
<1>1. OthersKeep(c)
  BY DEF Begin, Goto, OthersKeep, IInv, TypeOK
<1>2. Harmless /\ UNCHANGED <<rot, rotLock>>
  BY DEF Begin, Harmless, Serves, procVars, secretVars
<1>3. TypeOK'
  BY DEF Begin, Goto, IInv, TypeOK, PC, procVars, secretVars, Outcomes
<1>4. pc'[c] = "waiting" /\ job'[c] = j
  BY DEF Begin, Goto, IInv, TypeOK
<1>5. CliInv(c)'
  BY <1>4 DEF CliInv, JobOK, LockOK, LaunchOK, HaltOK, QuietOK, CaptureOK, Protected
<1>6. QED
  BY <1>1, <1>2, <1>3, <1>5, OutsiderStep

(* A command takes the free rotation lock.                                 *)
LEMMA TakeLockStep ==
  ASSUME IInv, NEW c \in Cli, TakeLock(c)
  PROVE  IInv'
<1>1. OthersKeep(c)
  BY DEF TakeLock, Goto, OthersKeep, IInv, TypeOK
<1>2. Harmless /\ UNCHANGED rot /\ rotLock' = c
  BY DEF TakeLock, Harmless, Serves, procVars, secretVars
<1>3. /\ rotLock = None
      /\ job[c].op \in {"start", "stop", "rotate"}
      /\ job[c].op # "rotate" => job[c].key \in Consumer
  BY JobType DEF TakeLock, IInv, CliInv, JobOK
<1>4. TypeOK'
  BY <1>3 DEF TakeLock, Goto, IInv, TypeOK, PC, procVars, secretVars
<1>5. pc'[c] = job[c].op /\ job'[c] = job[c]
  BY DEF TakeLock, Goto, IInv, TypeOK
<1>6. CliInv(c)'
  BY <1>2, <1>3, <1>5 DEF CliInv, JobOK, LockOK, LaunchOK, HaltOK, QuietOK, CaptureOK
<1>7. QED
  BY <1>1, <1>2, <1>3, <1>4, <1>6, OutsiderStep

(* A step that only gives the lock back.                                   *)
LEMMA ReleaseEffect ==
  ASSUME TypeOK, NEW c \in Cli, Release(c)
  PROVE  /\ OthersKeep(c) /\ CliInv(c)'
         /\ rotLock' \in Cli \cup {None}
         /\ pc' \in [Cli -> PC]
         /\ job' \in [Cli -> Job \cup {NoJob}]
         /\ resolved' \in [Cli -> Value \cup {None}]
<1>1. pc'[c] = "other"
  BY DEF Release, Goto, TypeOK
<1>2. CliInv(c)'
  BY <1>1 DEF CliInv, JobOK, LockOK, LaunchOK, HaltOK, QuietOK, CaptureOK, Protected
<1>3. QED
  BY <1>2 DEF Release, Goto, OthersKeep, TypeOK, PC

(* A start resolves the managed key under the lock, or has nothing to      *)
(* launch.                                                                 *)
LEMMA ResolveKeyStep ==
  ASSUME IInv, NEW c \in Cli, ResolveKey(c)
  PROVE  IInv'
<1>1. rotLock = c /\ job[c].key \in Consumer
  BY DEF ResolveKey, IInv, CliInv, LockOK, JobOK, Protected, PC
<1>2. UNCHANGED <<tracked, proc, stable, pending, legacy, rot, report>>
  BY DEF ResolveKey, procVars, secretVars
<1>3. Harmless
  BY <1>2 DEF Harmless, Serves
<1>4. OneGeneration' /\ ManagedKey' = ManagedKey
  BY <1>3, HarmlessKeepsGeneration DEF IInv
<1>5. CASE Release(c)
  <2>1. TypeOK'
    BY <1>2, <1>5, ReleaseEffect DEF IInv, TypeOK
  <2>2. QED
    BY <1>1, <1>4, <1>5, <2>1, ReleaseEffect, HolderStep DEF IInv
<1>6. CASE /\ resolved' = [resolved EXCEPT ![c] = ManagedKey]
           /\ Goto(c, "launch")
           /\ UNCHANGED <<rotLock, job>>
  <2>1. ManagedKey \in Value \cup {None}
    BY ManagedKeyType DEF IInv, Copy
  <2>2. TypeOK'
    BY <1>2, <1>6, <2>1 DEF Goto, IInv, TypeOK, PC
  <2>3. OthersKeep(c)
    BY <1>6 DEF Goto, OthersKeep, IInv, TypeOK
  <2>4. pc'[c] = "launch" /\ resolved'[c] = ManagedKey /\ job'[c] = job[c]
    BY <1>6 DEF Goto, IInv, TypeOK
  <2>5. CliInv(c)'
    BY <1>1, <1>4, <1>6, <2>4
    DEF CliInv, JobOK, LockOK, LaunchOK, HaltOK, QuietOK, CaptureOK, Protected
  <2>6. QED
    BY <1>1, <1>4, <2>2, <2>3, <2>5, HolderStep
<1>7. QED
  BY <1>5, <1>6 DEF ResolveKey

(* What the end of a launch does to the consumers, when the child was      *)
(* given the managed key.                                                  *)
LEMMA ApplyEffect ==
  ASSUME TypeOK, OneGeneration, NEW c \in Cli, NEW k \in Consumer,
         NEW r \in LaunchResults(c, ManagedKey), Apply(k, r), UNCHANGED <<stable, legacy>>
  PROVE  /\ proc' \in [Consumer -> ProcessState]
         /\ tracked' \in [Consumer -> BOOLEAN]
         /\ OneGeneration'
<1>1. ManagedKey \in Copy /\ ManagedKey' = ManagedKey
  BY ManagedKeyType, ManagedKeyKept
<1>2. r.proc \in ProcessState /\ r.tracked \in BOOLEAN
      /\ (r.proc.st = "live" => r.proc.key = ManagedKey)
  BY <1>1, LaunchType
<1>3. proc' \in [Consumer -> ProcessState]
  BY <1>2 DEF Apply, TypeOK
<1>4. tracked' \in [Consumer -> BOOLEAN]
  BY <1>2 DEF Apply, TypeOK
<1>5. ASSUME NEW l \in Consumer, Serves(l)'
      PROVE  proc'[l].key = ManagedKey'
  <2>1. CASE l = k
    <3>1. proc'[l] = r.proc
      BY <2>1 DEF Apply, TypeOK
    <3>2. QED
      BY <1>1, <1>2, <1>5, <3>1 DEF Serves
  <2>2. CASE l # k
    <3>1. proc'[l] = proc[l] /\ tracked'[l] = tracked[l]
      BY <2>2 DEF Apply, TypeOK
    <3>2. QED
      BY <1>1, <1>5, <3>1 DEF Serves, OneGeneration
  <2>3. QED
    BY <2>1, <2>2
<1>6. QED
  BY <1>3, <1>4, <1>5 DEF OneGeneration

(* A launch uses the resolved key, which is still the managed one.         *)
LEMMA LaunchStep ==
  ASSUME IInv, NEW c \in Cli, Launch(c)
  PROVE  IInv'
<1>1. /\ rotLock = c /\ job[c].key \in Consumer /\ resolved[c] = ManagedKey
      /\ UNCHANGED <<stable, pending, legacy, rot, report>> /\ Release(c)
  BY DEF Launch, IInv, CliInv, LockOK, JobOK, LaunchOK, Protected, PC, secretVars
<1>2. /\ proc' \in [Consumer -> ProcessState]
      /\ tracked' \in [Consumer -> BOOLEAN]
      /\ OneGeneration'
  <2>1. CASE UNCHANGED procVars
    <3>1. Harmless
      BY <1>1, <2>1 DEF Harmless, Serves, procVars
    <3>2. QED
      BY <2>1, <3>1, HarmlessKeepsGeneration DEF procVars, IInv, TypeOK
  <2>2. CASE \E r \in LaunchResults(c, ManagedKey) : Apply(job[c].key, r)
    BY <1>1, <2>2, ApplyEffect DEF IInv
  <2>3. QED
    BY <1>1, <2>1, <2>2 DEF Launch
<1>3. TypeOK'
  BY <1>1, <1>2, ReleaseEffect DEF IInv, TypeOK
<1>4. QED
  BY <1>1, <1>2, <1>3, ReleaseEffect, HolderStep DEF IInv

(* A stop leaves no supervised process of the consumer, and harms nothing  *)
(* else.                                                                   *)
LEMMA StopEffect ==
  ASSUME TypeOK, NEW k \in Consumer, Stop(k), UNCHANGED <<stable, legacy>>
  PROVE  /\ proc' \in [Consumer -> ProcessState]
         /\ tracked' \in [Consumer -> BOOLEAN]
         /\ Harmless
<1>1. PICK p \in (IF tracked[k] THEN AfterStop(k) ELSE {proc[k]}) :
        proc' = [proc EXCEPT ![k] = p]
  BY DEF Stop
<1>2. p \in ProcessState
  BY <1>1, AfterStopType DEF TypeOK
<1>3. proc' \in [Consumer -> ProcessState] /\ tracked' \in [Consumer -> BOOLEAN]
  BY <1>1, <1>2 DEF Stop, TypeOK
<1>4. ~tracked'[k]
  BY DEF Stop, TypeOK
<1>5. \A l \in Consumer \ {k} : proc'[l] = proc[l] /\ tracked'[l] = tracked[l]
  BY <1>1 DEF Stop, TypeOK
<1>6. QED
  BY <1>3, <1>4, <1>5 DEF Harmless, Serves

(* A stop by a command of its own keeps the invariant.                     *)
LEMMA StopConsumerStep ==
  ASSUME IInv, NEW c \in Cli, StopConsumer(c)
  PROVE  IInv'
<1>1. /\ rotLock = c /\ job[c].key \in Consumer
      /\ UNCHANGED <<stable, pending, legacy, rot, report>>
      /\ Stop(job[c].key) /\ Release(c)
  BY DEF StopConsumer, IInv, CliInv, LockOK, JobOK, Protected, PC, secretVars
<1>2. /\ proc' \in [Consumer -> ProcessState]
      /\ tracked' \in [Consumer -> BOOLEAN]
      /\ Harmless
  BY <1>1, StopEffect DEF IInv
<1>3. TypeOK'
  BY <1>1, <1>2, ReleaseEffect DEF IInv, TypeOK
<1>4. QED
  BY <1>1, <1>2, <1>3, ReleaseEffect, HarmlessKeepsGeneration, HolderStep DEF IInv

(* A process that ends by itself takes nothing with it.                    *)
LEMMA ProcessExitsStep ==
  ASSUME IInv, NEW k \in Consumer, ProcessExits(k)
  PROVE  IInv'
<1>1. UNCHANGED <<rotLock, pc, job, resolved, tracked, stable, pending, legacy, rot, report>>
  BY DEF ProcessExits, cliVars, secretVars
<1>2. proc' = [proc EXCEPT ![k] = Ended(k)] /\ Ended(k) \in ProcessState
      /\ Ended(k).st # "live"
  BY EndedType DEF ProcessExits, IInv
<1>3. TypeOK'
  BY <1>1, <1>2 DEF IInv, TypeOK
<1>4. proc'[k].st # "live" /\ \A l \in Consumer \ {k} : proc'[l] = proc[l]
  BY <1>2 DEF IInv, TypeOK
<1>5. Harmless
  BY <1>1, <1>4 DEF Harmless, Serves
<1>6. OneGeneration' /\ ManagedKey' = ManagedKey
  BY <1>5, HarmlessKeepsGeneration DEF IInv
<1>7. ASSUME NEW d \in Cli
      PROVE  CliInv(d)'
  <2>1. CliInv(d)
    BY DEF IInv
  <2>2. JobOK(d)' /\ LockOK(d)' /\ CaptureOK(d)'
    BY <1>1, <2>1 DEF CliInv, JobOK, LockOK, CaptureOK
  <2>3. LaunchOK(d)'
    BY <1>1, <1>5, <1>6, <2>1 DEF CliInv, LaunchOK, JobOK, Harmless
  <2>4. HaltOK(d)' /\ QuietOK(d)'
    BY <1>1, <1>5, <2>1 DEF CliInv, HaltOK, QuietOK, Harmless
  <2>5. QED
    BY <2>2, <2>3, <2>4 DEF CliInv
<1>8. QED
  BY <1>3, <1>6, <1>7 DEF IInv

----------------------------------------------------------------------------
(* Each step of a rotation keeps the invariant.                            *)

(* The part of the invariant that a rotation step has to establish.        *)
RotationOK(c) == HaltOK(c) /\ QuietOK(c) /\ CaptureOK(c)

(* A rotation step that goes to another place: what it has to establish,   *)
(* given that its invocation holds the lock and the other ones do not      *)
(* move.                                                                   *)
LEMMA WorkStep ==
  ASSUME IInv, NEW c \in Cli, pc[c] \in Protected,
         NEW label \in RotationPC, Goto(c, label),
         UNCHANGED <<rotLock, job, resolved, report>>,
         rot' \in RotationLocals,
         proc' \in [Consumer -> ProcessState], tracked' \in [Consumer -> BOOLEAN],
         stable' \in Slot, pending' \in BOOLEAN, legacy' \in [Consumer -> Value \cup {None}],
         OneGeneration', RotationOK(c)'
  PROVE  IInv'
<1>1. rotLock = c
  BY DEF IInv, CliInv, LockOK
<1>2. pc'[c] = label /\ pc' \in [Cli -> PC] /\ OthersKeep(c)
  BY DEF Goto, IInv, TypeOK, OthersKeep, RotationPC, Protected
<1>3. TypeOK'
  BY <1>2 DEF IInv, TypeOK
<1>4. CliInv(c)'
  BY <1>1, <1>2 DEF CliInv, JobOK, LockOK, LaunchOK, RotationOK, RotationPC, Protected, PC
<1>5. QED
  BY <1>1, <1>2, <1>3, <1>4, HolderStep

(* A rotation step that stays where it is in the code.                     *)
LEMMA StayStep ==
  ASSUME IInv, NEW c \in Cli, pc[c] \in RotationPC,
         UNCHANGED <<pc, rotLock, job, resolved, report>>,
         rot' \in RotationLocals,
         proc' \in [Consumer -> ProcessState], tracked' \in [Consumer -> BOOLEAN],
         stable' \in Slot, pending' \in BOOLEAN, legacy' \in [Consumer -> Value \cup {None}],
         OneGeneration', RotationOK(c)'
  PROVE  IInv'
<1>1. Goto(c, pc[c])
  BY DEF Goto, IInv, TypeOK
<1>2. pc[c] \in Protected
  BY DEF RotationPC
<1>3. QED
  BY <1>1, <1>2, WorkStep

(* What the invariant says of the types, for a step that leaves a variable *)
(* alone.                                                                  *)
LEMMA StaysTyped ==
  ASSUME IInv
  PROVE  /\ rot \in RotationLocals /\ stable \in Slot /\ pending \in BOOLEAN
         /\ legacy \in [Consumer -> Value \cup {None}]
         /\ proc \in [Consumer -> ProcessState] /\ tracked \in [Consumer -> BOOLEAN]
  BY DEF IInv, TypeOK

(* A step that touches neither processes nor the key keeps one generation. *)
LEMMA ProcessesKept ==
  ASSUME IInv, UNCHANGED <<tracked, proc, stable, legacy>>
  PROVE  /\ OneGeneration'
         /\ proc' \in [Consumer -> ProcessState] /\ tracked' \in [Consumer -> BOOLEAN]
         /\ stable' \in Slot /\ legacy' \in [Consumer -> Value \cup {None}]
         /\ \A k : Serves(k)' <=> Serves(k)
<1>1. Harmless
  BY DEF Harmless, Serves
<1>2. QED
  BY <1>1, HarmlessKeepsGeneration, StaysTyped DEF IInv, Serves

(* A raise in the try block goes to the rollback with every record to be   *)
(* stopped.                                                                *)
LEMMA RaiseEffect ==
  ASSUME IInv, NEW c \in Cli, NEW cause \in {"error", "health"}, Raise(c, cause),
         tracked' \in [Consumer -> BOOLEAN],
         pc[c] \in {"halt", "promote", "scrub", "restart"}
  PROVE  /\ rot' \in RotationLocals
         /\ Goto(c, "undo") /\ "undo" \in RotationPC /\ pc[c] \in Protected
         /\ RotationOK(c)'
<1>1. rot \in RotationLocals
  BY StaysTyped
<1>2. rot' \in RotationLocals /\ rot'.oldLegacy = rot.oldLegacy
  BY <1>1 DEF Raise, StopAll, RotationLocals
<1>3. Goto(c, "undo") /\ pc'[c] = "undo"
  BY DEF Raise, Goto, IInv, TypeOK
<1>4. rot.oldLegacy \in [Consumer -> Value \cup {None}]
  BY DEF IInv, CliInv, CaptureOK
<1>5. RotationOK(c)'
  BY <1>2, <1>3, <1>4 DEF RotationOK, HaltOK, QuietOK, CaptureOK
<1>6. QED
  BY <1>2, <1>3, <1>5 DEF RotationPC, Protected, PC

(* The locals a rotation begins with, and their captured env files.        *)
LEMMA CaptureType ==
  ASSUME TypeOK, NEW v \in Value, NEW b \in Backend
  PROVE  /\ Capture(v, b) \in RotationLocals
         /\ Capture(v, b).oldLegacy = legacy
         /\ [Capture(v, b) EXCEPT !.cause = "error"] \in RotationLocals
<1>1. /\ NoRotation.snapshot = {} /\ NoRotation.cause = "none"
      /\ NoRotation \in RotationLocals
  BY EmptySlotType DEF NoRotation, RotationLocals
<1>2. Capture(v, b) \in RotationLocals /\ Capture(v, b).oldLegacy = legacy
  BY <1>1 DEF Capture, TypeOK, RotationLocals
<1>3. QED
  BY <1>2 DEF RotationLocals

(* A staged candidate.                                                     *)
LEMMA StageStep ==
  ASSUME IInv, NEW c \in Cli, NEW v \in Value, NEW b \in Backend, Stage(c, v, b)
  PROVE  IInv'
<1>1. /\ pc[c] = "rotate" /\ Goto(c, "snapshot") /\ rot' = Capture(v, b)
      /\ pending' \in BOOLEAN
      /\ UNCHANGED <<rotLock, job, resolved, report, tracked, proc, stable, legacy>>
  BY DEF Stage, procVars
<1>2. rot' \in RotationLocals /\ rot'.oldLegacy = legacy
  BY <1>1, CaptureType DEF IInv
<1>3. pc'[c] = "snapshot"
  BY <1>1 DEF Goto, IInv, TypeOK
<1>4. RotationOK(c)'
  BY <1>2, <1>3, StaysTyped DEF RotationOK, HaltOK, QuietOK, CaptureOK
<1>5. QED
  BY <1>1, <1>2, <1>4, ProcessesKept, WorkStep DEF Protected, RotationPC, PC

(* Staging raises.                                                         *)
LEMMA StageRaisesStep ==
  ASSUME IInv, NEW c \in Cli, NEW v \in Value, NEW b \in Backend, StageRaises(c, v, b)
  PROVE  IInv'
<1>1. /\ pc[c] = "rotate" /\ Goto(c, "unstage")
      /\ rot' = [Capture(v, b) EXCEPT !.cause = "error"]
      /\ pending' \in BOOLEAN
      /\ UNCHANGED <<rotLock, job, resolved, report, tracked, proc, stable, legacy>>
  BY DEF StageRaises, procVars
<1>2. rot' \in RotationLocals
  BY <1>1, CaptureType DEF IInv
<1>3. pc'[c] = "unstage"
  BY <1>1 DEF Goto, IInv, TypeOK
<1>4. RotationOK(c)'
  BY <1>3 DEF RotationOK, HaltOK, QuietOK, CaptureOK
<1>5. QED
  BY <1>1, <1>2, <1>4, ProcessesKept, WorkStep DEF Protected, RotationPC, PC

(* The snapshot covers every consumer that serves: none escapes the halt.  *)
LEMMA TakeSnapshotStep ==
  ASSUME IInv, NEW c \in Cli, TakeSnapshot(c)
  PROVE  IInv'
<1> DEFINE live == {k \in Consumer : tracked[k] /\ Running(k)}
<1>1. /\ pc[c] = "snapshot" /\ Goto(c, "halt")
      /\ rot' = [rot EXCEPT !.snapshot = live, !.todo = live, !.consumersStopped = TRUE]
      /\ UNCHANGED <<rotLock, job, resolved, report, tracked, proc, stable, pending, legacy>>
  BY DEF TakeSnapshot, procVars, secretVars
<1>2. live \subseteq Consumer /\ \A k \in Consumer : Serves(k) => k \in live
  BY DEF Serves, Running
<1> HIDE DEF live
<1>3. rot' \in RotationLocals /\ rot'.todo = live /\ rot'.oldLegacy = rot.oldLegacy
  BY <1>1, <1>2, StaysTyped DEF RotationLocals
<1>4. pc'[c] = "halt" /\ rot.oldLegacy \in [Consumer -> Value \cup {None}]
  BY <1>1 DEF Goto, IInv, TypeOK, CliInv, CaptureOK
<1>5. \A k : Serves(k)' <=> Serves(k)
  BY <1>1, ProcessesKept
<1>6. RotationOK(c)'
  BY <1>2, <1>3, <1>4, <1>5 DEF RotationOK, HaltOK, QuietOK, CaptureOK
<1>7. pending' \in BOOLEAN
  BY <1>1, StaysTyped
<1>8. QED
  BY <1>1, <1>3, <1>6, <1>7, ProcessesKept, WorkStep DEF Protected, RotationPC, PC

(* Taking the snapshot raises.                                             *)
LEMMA SnapshotRaisesStep ==
  ASSUME IInv, NEW c \in Cli, SnapshotRaises(c)
  PROVE  IInv'
<1>1. /\ pc[c] = "snapshot" /\ Goto(c, "unstage")
      /\ rot' = [rot EXCEPT !.cause = "error"]
      /\ UNCHANGED <<rotLock, job, resolved, report, tracked, proc, stable, pending, legacy>>
  BY DEF SnapshotRaises, procVars, secretVars
<1>2. rot' \in RotationLocals /\ pending' \in BOOLEAN
  BY <1>1, StaysTyped DEF RotationLocals
<1>3. pc'[c] = "unstage"
  BY <1>1 DEF Goto, IInv, TypeOK
<1>4. RotationOK(c)'
  BY <1>3 DEF RotationOK, HaltOK, QuietOK, CaptureOK
<1>5. QED
  BY <1>1, <1>2, <1>4, ProcessesKept, WorkStep DEF Protected, RotationPC, PC

(* A consumer of the snapshot is stopped, or its survival raises.          *)
LEMMA HaltConsumerStep ==
  ASSUME IInv, NEW c \in Cli, HaltConsumer(c)
  PROVE  IInv'
<1>1. PICK k \in Consumer :
        /\ pc[c] = "halt" /\ UNCHANGED <<rotLock, job, resolved, report>>
        /\ UNCHANGED <<tracked, stable, pending, legacy>>
        /\ \E p \in AfterStop(k) : proc' = [proc EXCEPT ![k] = p]
        /\ IF Running(k)'
           THEN Raise(c, "error")
           ELSE rot' = [rot EXCEPT !.todo = @ \ {k}] /\ UNCHANGED pc
  BY DEF HaltConsumer, secretVars
<1>2. PICK p \in AfterStop(k) : proc' = [proc EXCEPT ![k] = p]
  BY <1>1
<1>3. p \in ProcessState /\ p.st # "live"
  BY AfterStopType DEF IInv
<1>4. /\ proc' \in [Consumer -> ProcessState] /\ proc'[k] = p
      /\ \A l \in Consumer \ {k} : proc'[l] = proc[l]
  BY <1>2, <1>3, StaysTyped
<1>5. /\ tracked' \in [Consumer -> BOOLEAN] /\ stable' \in Slot /\ pending' \in BOOLEAN
      /\ legacy' \in [Consumer -> Value \cup {None}]
  BY <1>1, StaysTyped
<1>6. Harmless /\ ~Serves(k)'
  BY <1>1, <1>3, <1>4 DEF Harmless, Serves
<1>7. OneGeneration'
  BY <1>6, HarmlessKeepsGeneration DEF IInv
<1>8. CASE Raise(c, "error")
  BY <1>1, <1>4, <1>5, <1>7, <1>8, RaiseEffect, WorkStep
<1>9. CASE rot' = [rot EXCEPT !.todo = @ \ {k}] /\ UNCHANGED pc
  <2>1. rot' \in RotationLocals /\ rot'.oldLegacy = rot.oldLegacy
        /\ rot'.todo = rot.todo \ {k}
    BY <1>9, StaysTyped DEF RotationLocals
  <2>2. /\ \A l \in Consumer : Serves(l) => l \in rot.todo
        /\ rot.oldLegacy \in [Consumer -> Value \cup {None}]
    BY <1>1 DEF IInv, CliInv, HaltOK, CaptureOK
  <2>3. RotationOK(c)'
    BY <1>1, <1>6, <1>9, <2>1, <2>2 DEF RotationOK, HaltOK, QuietOK, CaptureOK, Harmless
  <2>4. QED
    BY <1>1, <1>4, <1>5, <1>7, <1>9, <2>1, <2>3, StayStep DEF RotationPC, Protected, PC
<1>10. QED
  BY <1>1, <1>8, <1>9

(* Stopping the snapshot raises.                                           *)
LEMMA HaltRaisesStep ==
  ASSUME IInv, NEW c \in Cli, HaltRaises(c)
  PROVE  IInv'
<1>1. /\ pc[c] = "halt" /\ Raise(c, "error")
      /\ UNCHANGED <<rotLock, job, resolved, report, tracked, proc, stable, pending, legacy>>
  BY DEF HaltRaises, procVars, secretVars
<1>2. pending' \in BOOLEAN
  BY <1>1, StaysTyped
<1>3. QED
  BY <1>1, <1>2, RaiseEffect, ProcessesKept, WorkStep

(* With the snapshot stopped no consumer serves: the key may change.       *)
LEMMA SaveStoppedStep ==
  ASSUME IInv, NEW c \in Cli, SaveStopped(c)
  PROVE  IInv'
<1>1. /\ pc[c] = "halt" /\ rot.todo = {} /\ Goto(c, "promote")
      /\ tracked' = [k \in Consumer |-> tracked[k] /\ k \notin rot.snapshot]
      /\ rot' = [rot EXCEPT !.promotionAttempted = TRUE]
      /\ UNCHANGED <<rotLock, job, resolved, report, proc, stable, pending, legacy>>
  BY DEF SaveStopped, secretVars
<1>2. tracked' \in [Consumer -> BOOLEAN] /\ \A k \in Consumer : tracked'[k] => tracked[k]
  BY <1>1, StaysTyped
<1>3. \A k \in Consumer : ~Serves(k)
  BY <1>1 DEF IInv, CliInv, HaltOK
<1>4. \A k \in Consumer : ~Serves(k)'
  BY <1>1, <1>2, <1>3 DEF Serves
<1>5. rot' \in RotationLocals /\ rot'.oldLegacy = rot.oldLegacy
  BY <1>1, StaysTyped DEF RotationLocals
<1>6. pc'[c] = "promote" /\ rot.oldLegacy \in [Consumer -> Value \cup {None}]
  BY <1>1 DEF Goto, IInv, TypeOK, CliInv, CaptureOK
<1>7. RotationOK(c)'
  BY <1>4, <1>5, <1>6 DEF RotationOK, HaltOK, QuietOK, CaptureOK
<1>8. OneGeneration'
  BY <1>4 DEF OneGeneration
<1>9. /\ proc' \in [Consumer -> ProcessState] /\ stable' \in Slot /\ pending' \in BOOLEAN
      /\ legacy' \in [Consumer -> Value \cup {None}]
  BY <1>1, StaysTyped
<1>10. QED
  BY <1>1, <1>2, <1>5, <1>7, <1>8, <1>9, WorkStep DEF RotationPC, Protected, PC

(* While no supervised consumer runs, the key may change.                  *)
LEMMA QuietChange ==
  ASSUME IInv, NEW c \in Cli, pc[c] \in {"promote", "scrub", "restore"},
         UNCHANGED <<tracked, proc>>
  PROVE  /\ OneGeneration' /\ \A k \in Consumer : ~Serves(k)'
         /\ proc' \in [Consumer -> ProcessState] /\ tracked' \in [Consumer -> BOOLEAN]
         /\ rot.oldLegacy \in [Consumer -> Value \cup {None}]
<1>1. \A k \in Consumer : ~Serves(k)'
  BY DEF IInv, CliInv, QuietOK, Serves
<1>2. QED
  BY <1>1, StaysTyped DEF OneGeneration, IInv, CliInv, CaptureOK

(* The key changes while no consumer serves.                               *)
LEMMA PromoteStep ==
  ASSUME IInv, NEW c \in Cli, Promote(c)
  PROVE  IInv'
<1>1. /\ pc[c] = "promote" /\ Goto(c, "scrub")
      /\ stable' \in Replaced(stable, rot.candidate, rot.backend)
      /\ UNCHANGED <<rotLock, job, resolved, report, tracked, proc, pending, legacy, rot>>
  BY DEF Promote, procVars
<1>2. rot.candidate \in Copy /\ stable \in Slot
  BY DEF IInv, TypeOK, RotationLocals, Copy
<1>3. stable' \in Slot
  BY <1>1, <1>2, ReplacedType
<1>4. pc'[c] = "scrub"
  BY <1>1 DEF Goto, IInv, TypeOK
<1>5. RotationOK(c)'
  BY <1>1, <1>4, QuietChange DEF RotationOK, HaltOK, QuietOK, CaptureOK
<1>6. rot' \in RotationLocals /\ pending' \in BOOLEAN /\ legacy' \in [Consumer -> Value \cup {None}]
  BY <1>1, StaysTyped
<1>7. QED
  BY <1>1, <1>3, <1>5, <1>6, QuietChange, WorkStep DEF RotationPC, Protected, PC

(* The promotion raises half-way.                                          *)
LEMMA PromoteRaisesStep ==
  ASSUME IInv, NEW c \in Cli, PromoteRaises(c)
  PROVE  IInv'
<1>1. /\ pc[c] = "promote" /\ Raise(c, "error")
      /\ stable' \in ReplaceCut(stable, rot.candidate, rot.backend)
      /\ UNCHANGED <<rotLock, job, resolved, report, tracked, proc, pending, legacy>>
  BY DEF PromoteRaises, procVars
<1>2. rot.candidate \in Copy /\ stable \in Slot
  BY DEF IInv, TypeOK, RotationLocals, Copy
<1>3. stable' \in Slot
  BY <1>1, <1>2, ReplacedType
<1>4. pending' \in BOOLEAN /\ legacy' \in [Consumer -> Value \cup {None}]
  BY <1>1, StaysTyped
<1>5. QED
  BY <1>1, <1>3, <1>4, QuietChange, RaiseEffect, WorkStep

(* Env files written in part hold keys or none.                            *)
LEMMA PartOfType ==
  ASSUME NEW from \in [Consumer -> Value \cup {None}],
         NEW to \in [Consumer -> Value \cup {None}], PartOf(from, to)
  PROVE  legacy' \in [Consumer -> Value \cup {None}]
  BY DEF PartOf

(* The env files are scrubbed while no consumer serves.                    *)
LEMMA ScrubLegacyStep ==
  ASSUME IInv, NEW c \in Cli, ScrubLegacy(c)
  PROVE  IInv'
<1>1. /\ pc[c] = "scrub" /\ Goto(c, "restart") /\ legacy' = NoLegacy
      /\ rot' = [rot EXCEPT !.todo = rot.snapshot]
      /\ UNCHANGED <<rotLock, job, resolved, report, tracked, proc, stable, pending>>
  BY DEF ScrubLegacy, procVars
<1>2. legacy' \in [Consumer -> Value \cup {None}]
  BY <1>1 DEF NoLegacy
<1>3. rot' \in RotationLocals /\ rot'.oldLegacy = rot.oldLegacy
  BY <1>1, StaysTyped DEF RotationLocals
<1>4. pc'[c] = "restart"
  BY <1>1 DEF Goto, IInv, TypeOK
<1>5. RotationOK(c)'
  BY <1>1, <1>3, <1>4, QuietChange DEF RotationOK, HaltOK, QuietOK, CaptureOK
<1>6. stable' \in Slot /\ pending' \in BOOLEAN
  BY <1>1, StaysTyped
<1>7. QED
  BY <1>1, <1>2, <1>3, <1>5, <1>6, QuietChange, WorkStep DEF RotationPC, Protected, PC

(* The scrub raises half-way.                                              *)
LEMMA ScrubRaisesStep ==
  ASSUME IInv, NEW c \in Cli, ScrubRaises(c)
  PROVE  IInv'
<1>1. /\ pc[c] = "scrub" /\ Raise(c, "error") /\ PartOf(legacy, NoLegacy)
      /\ UNCHANGED <<rotLock, job, resolved, report, tracked, proc, stable, pending>>
  BY DEF ScrubRaises, procVars
<1>2. NoLegacy \in [Consumer -> Value \cup {None}]
  BY DEF NoLegacy
<1>3. legacy' \in [Consumer -> Value \cup {None}]
  BY <1>1, <1>2, PartOfType, StaysTyped
<1>4. stable' \in Slot /\ pending' \in BOOLEAN
  BY <1>1, StaysTyped
<1>5. QED
  BY <1>1, <1>3, <1>4, QuietChange, RaiseEffect, WorkStep

(* A start gives its child the managed key.                                *)
LEMMA StartEffect ==
  ASSUME TypeOK, OneGeneration, NEW c \in Cli, NEW k \in Consumer,
         NEW healthy \in BOOLEAN, Start(c, k, healthy), UNCHANGED <<stable, legacy>>
  PROVE  /\ proc' \in [Consumer -> ProcessState]
         /\ tracked' \in [Consumer -> BOOLEAN]
         /\ OneGeneration'
<1>1. CASE UNCHANGED procVars
  <2>1. Harmless
    BY <1>1 DEF Harmless, Serves, procVars
  <2>2. QED
    BY <1>1, <2>1, HarmlessKeepsGeneration DEF procVars, TypeOK
<1>2. CASE \E r \in LaunchResults(c, ManagedKey) : Apply(k, r)
  BY <1>2, ApplyEffect
<1>3. QED
  BY <1>1, <1>2 DEF Start

(* A consumer restarts with the new key, or its failure raises.            *)
LEMMA RestartConsumerStep ==
  ASSUME IInv, NEW c \in Cli, RestartConsumer(c)
  PROVE  IInv'
<1>1. PICK k \in Consumer, healthy \in BOOLEAN :
        /\ pc[c] = "restart" /\ UNCHANGED <<rotLock, job, resolved, report>>
        /\ UNCHANGED <<stable, pending, legacy>>
        /\ Start(c, k, healthy)
        /\ \/ rot' = [rot EXCEPT !.todo = @ \ {k}] /\ UNCHANGED pc
           \/ Raise(c, "health")
  BY DEF RestartConsumer, secretVars
<1>2. /\ proc' \in [Consumer -> ProcessState]
      /\ tracked' \in [Consumer -> BOOLEAN]
      /\ OneGeneration'
  BY <1>1, StartEffect DEF IInv
<1>3. stable' \in Slot /\ pending' \in BOOLEAN /\ legacy' \in [Consumer -> Value \cup {None}]
  BY <1>1, StaysTyped
<1>4. CASE Raise(c, "health")
  BY <1>1, <1>2, <1>3, <1>4, RaiseEffect, WorkStep
<1>5. CASE rot' = [rot EXCEPT !.todo = @ \ {k}] /\ UNCHANGED pc
  <2>1. rot' \in RotationLocals /\ rot'.oldLegacy = rot.oldLegacy
    BY <1>5, StaysTyped DEF RotationLocals
  <2>2. RotationOK(c)'
    BY <1>1, <1>5, <2>1 DEF RotationOK, HaltOK, QuietOK, CaptureOK, IInv, CliInv
  <2>3. QED
    BY <1>1, <1>2, <1>3, <1>5, <2>1, <2>2, StayStep DEF RotationPC, Protected, PC
<1>6. QED
  BY <1>1, <1>4, <1>5

(* Removing the staged copy raises after the consumers restarted.          *)
LEMMA CompleteRaisesStep ==
  ASSUME IInv, NEW c \in Cli, CompleteRaises(c)
  PROVE  IInv'
<1>1. /\ pc[c] = "restart" /\ Raise(c, "error") /\ pending' \in {pending, FALSE}
      /\ UNCHANGED <<rotLock, job, resolved, report, tracked, proc, stable, legacy>>
  BY DEF CompleteRaises, procVars
<1>2. pending' \in BOOLEAN
  BY <1>1, StaysTyped
<1>3. QED
  BY <1>1, <1>2, RaiseEffect, ProcessesKept, WorkStep

----------------------------------------------------------------------------
(* Each step of a rollback keeps the invariant.                            *)

(* The rollback stops a consumer.                                          *)
LEMMA RollbackStopStep ==
  ASSUME IInv, NEW c \in Cli, RollbackStop(c)
  PROVE  IInv'
<1>1. PICK k \in Consumer :
        /\ pc[c] \in {"undo", "contain"} /\ Stop(k)
        /\ rot' = [rot EXCEPT !.todo = @ \ {k}]
        /\ UNCHANGED <<pc, rotLock, job, resolved, report, stable, pending, legacy>>
  BY DEF RollbackStop, secretVars
<1>2. /\ proc' \in [Consumer -> ProcessState] /\ tracked' \in [Consumer -> BOOLEAN]
      /\ OneGeneration'
  BY <1>1, StopEffect, HarmlessKeepsGeneration DEF IInv
<1>3. rot' \in RotationLocals /\ rot'.oldLegacy = rot.oldLegacy
  BY <1>1, StaysTyped DEF RotationLocals
<1>4. RotationOK(c)'
  BY <1>1, <1>3 DEF RotationOK, HaltOK, QuietOK, CaptureOK, IInv, CliInv
<1>5. stable' \in Slot /\ pending' \in BOOLEAN /\ legacy' \in [Consumer -> Value \cup {None}]
  BY <1>1, StaysTyped
<1>6. QED
  BY <1>1, <1>2, <1>3, <1>4, <1>5, StayStep DEF RotationPC, Protected, PC

(* The rollback fails to stop a consumer and goes on.                      *)
LEMMA RollbackStopRaisesStep ==
  ASSUME IInv, NEW c \in Cli, RollbackStopRaises(c)
  PROVE  IInv'
<1>1. PICK k \in Consumer :
        /\ pc[c] \in {"undo", "contain"}
        /\ rot' = [rot EXCEPT !.todo = @ \ {k}, !.stopped = FALSE]
        /\ UNCHANGED <<pc, rotLock, job, resolved, report, tracked, proc, stable, pending, legacy>>
  BY DEF RollbackStopRaises, procVars, secretVars
<1>2. rot' \in RotationLocals /\ rot'.oldLegacy = rot.oldLegacy
  BY <1>1, StaysTyped DEF RotationLocals
<1>3. RotationOK(c)'
  BY <1>1, <1>2 DEF RotationOK, HaltOK, QuietOK, CaptureOK, IInv, CliInv
<1>4. pending' \in BOOLEAN
  BY <1>1, StaysTyped
<1>5. QED
  BY <1>1, <1>2, <1>3, <1>4, ProcessesKept, StayStep DEF RotationPC, Protected, PC

(* The old generation is restored only when every consumer has stopped.    *)
LEMMA UndoDoneStep ==
  ASSUME IInv, NEW c \in Cli, UndoDone(c)
  PROVE  IInv'
<1>1. PICK uncertain \in {~AllStopped} \cup (IF Faults THEN {TRUE} ELSE {}) :
        /\ pc[c] = "undo"
        /\ rot' = [rot EXCEPT !.watched = {}, !.uncertain = uncertain,
                              !.rollbackFailed = uncertain]
        /\ Goto(c, IF rot.promotionAttempted /\ ~uncertain THEN "restore" ELSE "unstage")
        /\ UNCHANGED <<rotLock, job, resolved, report, tracked, proc, stable, pending, legacy>>
  BY DEF UndoDone, procVars, secretVars
<1>2. uncertain \in BOOLEAN /\ (~uncertain => AllStopped)
  BY <1>1
<1>3. rot' \in RotationLocals /\ rot'.oldLegacy = rot.oldLegacy
  BY <1>1, <1>2, StaysTyped DEF RotationLocals
<1>4. \A k : Serves(k)' <=> Serves(k)
  BY <1>1, ProcessesKept
<1>5. pending' \in BOOLEAN
  BY <1>1, StaysTyped
<1>6. CASE rot.promotionAttempted /\ ~uncertain
  <2>1. pc'[c] = "restore" /\ Goto(c, "restore")
    BY <1>1, <1>6 DEF Goto, IInv, TypeOK
  <2>2. \A k \in Consumer : ~Serves(k)'
    BY <1>2, <1>4, <1>6 DEF AllStopped, Serves
  <2>3. rot.oldLegacy \in [Consumer -> Value \cup {None}]
    BY <1>1 DEF IInv, CliInv, CaptureOK
  <2>4. RotationOK(c)'
    BY <1>3, <2>1, <2>2, <2>3 DEF RotationOK, HaltOK, QuietOK, CaptureOK
  <2>5. QED
    BY <1>1, <1>3, <1>5, <2>1, <2>4, ProcessesKept, WorkStep DEF RotationPC, Protected, PC
<1>7. CASE ~(rot.promotionAttempted /\ ~uncertain)
  <2>1. pc'[c] = "unstage" /\ Goto(c, "unstage")
    BY <1>1, <1>7 DEF Goto, IInv, TypeOK
  <2>2. RotationOK(c)'
    BY <2>1 DEF RotationOK, HaltOK, QuietOK, CaptureOK
  <2>3. QED
    BY <1>1, <1>3, <1>5, <2>1, <2>2, ProcessesKept, WorkStep DEF RotationPC, Protected, PC
<1>8. QED
  BY <1>6, <1>7

(* The old generation comes back while no consumer serves.                 *)
LEMMA RestoreGenerationStep ==
  ASSUME IInv, NEW c \in Cli, RestoreGeneration(c)
  PROVE  IInv'
<1>1. /\ pc[c] = "restore" /\ Goto(c, "unstage")
      /\ stable' \in Restored(rot.old) /\ legacy' = rot.oldLegacy
      /\ UNCHANGED <<rotLock, job, resolved, report, tracked, proc, pending, rot>>
  BY DEF RestoreGeneration, procVars
<1>2. rot.old \in Slot /\ stable \in Slot
  BY DEF IInv, TypeOK, RotationLocals
<1>3. stable' \in Slot
  BY <1>1, <1>2, RestoredType
<1>4. legacy' \in [Consumer -> Value \cup {None}]
  BY <1>1, QuietChange
<1>5. pc'[c] = "unstage"
  BY <1>1 DEF Goto, IInv, TypeOK
<1>6. RotationOK(c)'
  BY <1>5 DEF RotationOK, HaltOK, QuietOK, CaptureOK
<1>7. rot' \in RotationLocals /\ pending' \in BOOLEAN
  BY <1>1, StaysTyped
<1>8. QED
  BY <1>1, <1>3, <1>4, <1>6, <1>7, QuietChange, WorkStep DEF RotationPC, Protected, PC

(* Restoring the old generation raises half-way.                           *)
LEMMA RestoreRaisesStep ==
  ASSUME IInv, NEW c \in Cli, RestoreRaises(c)
  PROVE  IInv'
<1>1. /\ pc[c] = "restore" /\ Goto(c, "unstage")
      /\ rot' = [rot EXCEPT !.rollbackFailed = TRUE]
      /\ UNCHANGED <<rotLock, job, resolved, report, tracked, proc, pending>>
  BY DEF RestoreRaises, procVars
<1>2. rot.old \in Slot /\ stable \in Slot
  BY DEF IInv, TypeOK, RotationLocals
<1>3. stable' \in Slot
  BY <1>2, RestoredType DEF RestoreRaises
<1>4. legacy' \in [Consumer -> Value \cup {None}]
  BY <1>1, PartOfType, QuietChange, StaysTyped DEF RestoreRaises
<1>5. pc'[c] = "unstage"
  BY <1>1 DEF Goto, IInv, TypeOK
<1>6. RotationOK(c)'
  BY <1>5 DEF RotationOK, HaltOK, QuietOK, CaptureOK
<1>7. rot' \in RotationLocals /\ pending' \in BOOLEAN
  BY <1>1, StaysTyped DEF RotationLocals
<1>8. QED
  BY <1>1, <1>3, <1>4, <1>6, <1>7, QuietChange, WorkStep DEF RotationPC, Protected, PC

(* The rollback removes the staged copy.                                   *)
LEMMA UnstageStep ==
  ASSUME IInv, NEW c \in Cli, Unstage(c)
  PROVE  IInv'
<1>1. PICK label \in {"revive", "report"} : Goto(c, label)
  BY DEF Unstage
<1>2. /\ pc[c] = "unstage"
      /\ UNCHANGED <<rotLock, job, resolved, report, tracked, proc, stable, legacy>>
  BY DEF Unstage, procVars, secretVars
<1>3. pc'[c] = label
  BY <1>1 DEF Goto, IInv, TypeOK
<1>4. RotationOK(c)'
  BY <1>1, <1>3 DEF RotationOK, HaltOK, QuietOK, CaptureOK
<1>5. rot' \in RotationLocals
  BY StaysTyped DEF Unstage, RotationLocals
<1>6. pending' \in BOOLEAN
  BY StaysTyped DEF Unstage
<1>7. QED
  BY <1>1, <1>2, <1>4, <1>5, <1>6, ProcessesKept, WorkStep DEF RotationPC, Protected, PC

(* Removing the staged copy in the rollback raises.                        *)
LEMMA UnstageRaisesStep ==
  ASSUME IInv, NEW c \in Cli, UnstageRaises(c)
  PROVE  IInv'
<1>1. PICK label \in {"report"} : Goto(c, label)
  BY DEF UnstageRaises
<1>2. /\ pc[c] = "unstage"
      /\ UNCHANGED <<rotLock, job, resolved, report, tracked, proc, stable, legacy>>
  BY DEF UnstageRaises, procVars, secretVars
<1>3. pc'[c] = label
  BY <1>1 DEF Goto, IInv, TypeOK
<1>4. RotationOK(c)'
  BY <1>1, <1>3 DEF RotationOK, HaltOK, QuietOK, CaptureOK
<1>5. rot' \in RotationLocals
  BY StaysTyped DEF UnstageRaises, RotationLocals
<1>6. pending' \in BOOLEAN
  BY StaysTyped DEF UnstageRaises
<1>7. QED
  BY <1>1, <1>2, <1>4, <1>5, <1>6, ProcessesKept, WorkStep DEF RotationPC, Protected, PC

(* The snapshot is running again.                                          *)
LEMMA RevivedStep ==
  ASSUME IInv, NEW c \in Cli, Revived(c)
  PROVE  IInv'
<1>1. PICK label \in {"report"} : Goto(c, label)
  BY DEF Revived
<1>2. /\ pc[c] = "revive"
      /\ UNCHANGED <<rotLock, job, resolved, report, tracked, proc, stable, legacy>>
  BY DEF Revived, procVars, secretVars
<1>3. pc'[c] = label
  BY <1>1 DEF Goto, IInv, TypeOK
<1>4. RotationOK(c)'
  BY <1>1, <1>3 DEF RotationOK, HaltOK, QuietOK, CaptureOK
<1>5. rot' \in RotationLocals
  BY StaysTyped DEF Revived, RotationLocals
<1>6. pending' \in BOOLEAN
  BY StaysTyped DEF Revived, secretVars
<1>7. QED
  BY <1>1, <1>2, <1>4, <1>5, <1>6, ProcessesKept, WorkStep DEF RotationPC, Protected, PC

(* The consumers are stopped again after a failed revival.                 *)
LEMMA ContainDoneStep ==
  ASSUME IInv, NEW c \in Cli, ContainDone(c)
  PROVE  IInv'
<1>1. PICK label \in {"report"} : Goto(c, label)
  BY DEF ContainDone
<1>2. /\ pc[c] = "contain"
      /\ UNCHANGED <<rotLock, job, resolved, report, tracked, proc, stable, legacy>>
  BY DEF ContainDone, procVars, secretVars
<1>3. pc'[c] = label
  BY <1>1 DEF Goto, IInv, TypeOK
<1>4. RotationOK(c)'
  BY <1>1, <1>3 DEF RotationOK, HaltOK, QuietOK, CaptureOK
<1>5. rot' \in RotationLocals
  <2>1. PICK uncertain \in BOOLEAN : rot' = [rot EXCEPT !.watched = {}, !.uncertain = uncertain]
    BY DEF ContainDone
  <2>2. QED
    BY <2>1, StaysTyped DEF RotationLocals
<1>6. pending' \in BOOLEAN
  BY StaysTyped DEF ContainDone, secretVars
<1>7. QED
  BY <1>1, <1>2, <1>4, <1>5, <1>6, ProcessesKept, WorkStep DEF RotationPC, Protected, PC

(* A consumer of the snapshot restarts with the managed key, or everything *)
(* is stopped.                                                             *)
LEMMA ReviveConsumerStep ==
  ASSUME IInv, NEW c \in Cli, ReviveConsumer(c)
  PROVE  IInv'
<1>1. PICK k \in Consumer, healthy \in BOOLEAN :
        /\ pc[c] = "revive" /\ UNCHANGED <<rotLock, job, resolved, report>>
        /\ UNCHANGED <<stable, pending, legacy>>
        /\ Start(c, k, healthy)
        /\ \/ rot' = [rot EXCEPT !.todo = @ \ {k}] /\ UNCHANGED pc
           \/ rot' = StopAll([rot EXCEPT !.rollbackFailed = TRUE]) /\ Goto(c, "contain")
  BY DEF ReviveConsumer, secretVars
<1>2. /\ proc' \in [Consumer -> ProcessState]
      /\ tracked' \in [Consumer -> BOOLEAN]
      /\ OneGeneration'
  BY <1>1, StartEffect DEF IInv
<1>3. /\ stable' \in Slot /\ pending' \in BOOLEAN
      /\ legacy' \in [Consumer -> Value \cup {None}] /\ rot \in RotationLocals
  BY <1>1, StaysTyped
<1>4. CASE rot' = StopAll([rot EXCEPT !.rollbackFailed = TRUE]) /\ Goto(c, "contain")
  <2>1. rot' \in RotationLocals
    BY <1>3, <1>4 DEF StopAll, RotationLocals
  <2>2. pc'[c] = "contain"
    BY <1>4 DEF Goto, IInv, TypeOK
  <2>3. RotationOK(c)'
    BY <2>2 DEF RotationOK, HaltOK, QuietOK, CaptureOK
  <2>4. QED
    BY <1>1, <1>2, <1>3, <1>4, <2>1, <2>3, WorkStep DEF RotationPC, Protected, PC
<1>5. CASE rot' = [rot EXCEPT !.todo = @ \ {k}] /\ UNCHANGED pc
  <2>1. rot' \in RotationLocals
    BY <1>3, <1>5 DEF RotationLocals
  <2>2. RotationOK(c)'
    BY <1>1, <1>5 DEF RotationOK, HaltOK, QuietOK, CaptureOK
  <2>3. QED
    BY <1>1, <1>2, <1>3, <1>5, <2>1, <2>2, StayStep DEF RotationPC, Protected, PC
<1>6. QED
  BY <1>1, <1>4, <1>5

----------------------------------------------------------------------------
(* The initial states: nothing has happened to the bridge key yet.         *)
LEMMA InitIInv ==
  ASSUME Init
  PROVE  IInv
<1>1. stable \in Slot
  <2>1. ASSUME NEW b \in Backend, NEW v \in Value
        PROVE  Indexed(With(EmptySlot, b, v), b) \in Slot
    <3>1. v \in Copy
      BY DEF Copy
    <3>2. QED
      BY <3>1, EmptySlotType, SlotUpdates
  <2>2. QED
    BY <2>1, EmptySlotType DEF Init
<1>2. ManagedKey \in Value \cup {None}
  <2>1. Fetch(stable) \in Copy
    BY <1>1, FetchType
  <2>2. ASSUME Fetch(stable) = None, \E v \in Value : LegacyKeys = {v}
        PROVE  (CHOOSE v \in Value : LegacyKeys = {v}) \in Value
    BY <2>2
  <2>3. QED
    BY <2>1, <2>2 DEF ManagedKey, Copy
<1>3. rot \in RotationLocals
  BY EmptySlotType DEF Init, NoRotation, RotationLocals
<1>4. ASSUME NEW k \in Consumer
      PROVE  proc[k] \in ProcessState /\ (Serves(k) => proc[k].key = ManagedKey)
  <2>1. CASE tracked[k]
    BY <1>2, <1>4, <2>1 DEF Init, ProcessState
  <2>2. CASE ~tracked[k]
    BY <1>4, <2>2 DEF Init, ProcessState, Gone, Serves
  <2>3. QED
    BY <2>1, <2>2
<1>5. proc = [k \in Consumer |-> proc[k]]
  BY DEF Init
<1>6. TypeOK
  <2>1. proc \in [Consumer -> ProcessState]
    BY <1>4, <1>5
  <2>2. /\ rotLock \in Cli \cup {None} /\ pc \in [Cli -> PC]
        /\ job \in [Cli -> Job \cup {NoJob}]
        /\ resolved \in [Cli -> Value \cup {None}]
    BY DEF Init, PC
  <2>3. tracked \in [Consumer -> BOOLEAN] /\ legacy \in [Consumer -> Value \cup {None}]
    BY DEF Init
  <2>4. pending \in BOOLEAN /\ report \in Outcomes
    BY Zenon DEF Init, Outcomes
  <2>5. QED
    BY <1>1, <1>3, <2>1, <2>2, <2>3, <2>4 DEF TypeOK
<1>7. OneGeneration
  BY <1>4 DEF OneGeneration
<1>8. ASSUME NEW c \in Cli
      PROVE  CliInv(c)
  <2>1. pc[c] = "idle"
    BY DEF Init
  <2>2. QED
    BY <2>1 DEF CliInv, JobOK, LockOK, LaunchOK, HaltOK, QuietOK, CaptureOK, Protected
<1>9. QED
  BY <1>6, <1>7, <1>8 DEF IInv

(* Every step keeps the invariant.                                         *)
LEMMA NextIInv ==
  ASSUME IInv, Next
  PROVE  IInv'
<1>1. ASSUME NEW c \in Cli, RotationStep(c)
      PROVE  IInv'
  BY <1>1, RefuseCandidateStep, StageStep, StageRaisesStep, TakeSnapshotStep,
     SnapshotRaisesStep, HaltConsumerStep, HaltRaisesStep, SaveStoppedStep,
     PromoteStep, PromoteRaisesStep, ScrubLegacyStep, ScrubRaisesStep,
     RestartConsumerStep, CompleteStep, CompleteRaisesStep DEF RotationStep
<1>2. ASSUME NEW c \in Cli, RollbackStep(c)
      PROVE  IInv'
  BY <1>2, RollbackStopStep, RollbackStopRaisesStep, UndoDoneStep,
     RestoreGenerationStep, RestoreRaisesStep, UnstageStep, UnstageRaisesStep,
     ReviveConsumerStep, RevivedStep, ContainDoneStep, ReportStep DEF RollbackStep
<1>3. ASSUME NEW c \in Cli, CliStep(c)
      PROVE  IInv'
  BY <1>1, <1>2, <1>3, TakeLockStep, LockTimeoutStep, ResolveKeyStep, LaunchStep,
     StopConsumerStep, FinishStep DEF CliStep
<1>4. QED
  BY <1>3, CrashStep, BeginStep, ProcessExitsStep DEF Next

(* A stuttering step keeps the invariant.                                  *)
LEMMA StutterIInv ==
  ASSUME IInv, UNCHANGED vars
  PROVE  IInv'
<1>1. Harmless /\ UNCHANGED <<rotLock, pc, job, resolved, rot>>
  BY DEF vars, Harmless, Serves
<1>2. OneGeneration' /\ ManagedKey' = ManagedKey
  BY <1>1, HarmlessKeepsGeneration DEF IInv
<1>3. TypeOK'
  BY DEF vars, IInv, TypeOK
<1>4. ASSUME NEW c \in Cli
      PROVE  CliInv(c)'
  <2>1. CliInv(c)
    BY DEF IInv
  <2>2. JobOK(c)' /\ LockOK(c)' /\ CaptureOK(c)'
    BY <1>1, <2>1 DEF CliInv, JobOK, LockOK, CaptureOK
  <2>3. LaunchOK(c)'
    BY <1>1, <1>2, <2>1 DEF CliInv, LaunchOK, JobOK, Harmless
  <2>4. HaltOK(c)' /\ QuietOK(c)'
    BY <1>1, <2>1 DEF CliInv, HaltOK, QuietOK, Harmless
  <2>5. QED
    BY <2>2, <2>3, <2>4 DEF CliInv
<1>5. QED
  BY <1>2, <1>3, <1>4 DEF IInv

(* The invariant that the other theorems rest on.                          *)
THEOREM IInvAlways == Spec => []IInv
<1>1. Init => IInv
  BY InitIInv
<1>2. IInv /\ [Next]_vars => IInv'
  BY NextIInv, StutterIInv
<1>3. QED
  BY <1>1, <1>2, PTL DEF Spec

(* Every variable of the rotation stays in its domain, whatever fails.     *)
THEOREM TypeCorrect == Spec => []TypeOK
<1>1. IInv => TypeOK
  BY DEF IInv
<1>2. QED
  BY <1>1, IInvAlways, PTL

(* However starts, stops, rotations, rollbacks and crashes interleave, the *)
(* consumers that Spark supervises all run with the managed key.           *)
THEOREM SameGeneration == Spec => []OneGeneration
<1>1. IInv => OneGeneration
  BY DEF IInv
<1>2. QED
  BY <1>1, IInvAlways, PTL

----------------------------------------------------------------------------
(* The rotation implements the generation protocol.                        *)

Users == [k \in Consumer |-> IF Serves(k) THEN proc[k].key ELSE Off]

Simulated == Generation!Next \/ UNCHANGED <<ManagedKey, Users>>

(* k and its user do not change.                                           *)
Kept(k) ==
  /\ Serves(k)' <=> Serves(k)
  /\ Serves(k) => proc'[k].key = proc[k].key

(* A consumer that goes on serving, or not serving, stays the same user of *)
(* the key.                                                                *)
LEMMA KeptUser ==
  ASSUME NEW k \in Consumer, Kept(k)
  PROVE  Users'[k] = Users[k]
  BY DEF Kept, Users

(* A step that touches one consumer is a join, a leave or a stutter.       *)
LEMMA OneTouched ==
  ASSUME IInv, IInv', NEW k \in Consumer, UNCHANGED <<stable, legacy>>,
         \A l \in Consumer \ {k} : Kept(l)
  PROVE  Simulated
<1>1. ManagedKey' = ManagedKey
  BY ManagedKeyKept
<1>2. \A l \in Consumer \ {k} : Users'[l] = Users[l]
  BY KeptUser
<1>3. Users' = [Users EXCEPT ![k] = Users'[k]]
  BY <1>2 DEF Users
<1>4. /\ Users[k]  = IF Serves(k) THEN ManagedKey ELSE Off
      /\ Users'[k] = IF Serves(k)' THEN ManagedKey ELSE Off
  BY <1>1 DEF Users, IInv, OneGeneration
<1>5. CASE Serves(k)' <=> Serves(k)
  <2>1. Users' = Users
    BY <1>3, <1>4, <1>5 DEF Users
  <2>2. QED
    BY <1>1, <2>1 DEF Simulated
<1>6. CASE Serves(k) /\ ~Serves(k)'
  <2>1. Generation!Leave(k)
    BY <1>1, <1>3, <1>4, <1>6 DEF Generation!Leave, Users
  <2>2. QED
    BY <2>1 DEF Simulated, Generation!Next
<1>7. CASE ~Serves(k) /\ Serves(k)'
  <2>1. Generation!Join(k)
    BY <1>1, <1>3, <1>4, <1>7 DEF Generation!Join, Users
  <2>2. QED
    BY <2>1 DEF Simulated, Generation!Next
<1>8. QED
  BY <1>5, <1>6, <1>7

(* A step that changes no consumer and not the key stutters in the         *)
(* protocol.                                                               *)
LEMMA AllKept ==
  ASSUME IInv, IInv', UNCHANGED <<stable, legacy>>, \A k \in Consumer : Kept(k)
  PROVE  Simulated
<1>1. Spawner \in Consumer
  OBVIOUS
<1>2. QED
  BY <1>1, OneTouched

(* A step that touches neither processes nor the secret stutters in it.    *)
LEMMA SameProcesses ==
  ASSUME IInv, IInv', UNCHANGED <<stable, legacy, tracked, proc>>
  PROVE  Simulated
<1>1. \A k \in Consumer : Kept(k)
  BY DEF Kept, Serves
<1>2. QED
  BY <1>1, AllKept

(* ManagedKeyType, one step later.                                         *)
LEMMA ManagedKeyTypeNext == (TypeOK => ManagedKey \in Copy)'
<1>1. TypeOK => ManagedKey \in Copy
  BY ManagedKeyType
<1>2. QED
  BY <1>1, PTL

(* A step with no supervised consumer before and after changes the key, or *)
(* nothing.                                                                *)
LEMMA NobodyServed ==
  ASSUME IInv, IInv', \A k \in Consumer : ~Serves(k) /\ ~Serves(k)'
  PROVE  Simulated
<1>1. ManagedKey' \in Value \cup {None}
  BY ManagedKeyTypeNext DEF IInv, Copy
<1>2. \A k \in Consumer : Users[k] = Off
  BY DEF Users
<1>3. Users' = Users
  BY DEF Users
<1>4. Generation!Change
  BY <1>1, <1>2, <1>3 DEF Generation!Change, Users
<1>5. QED
  BY <1>4 DEF Simulated, Generation!Next

(* The end of a command stutters.                                          *)
LEMMA EndSimulated ==
  ASSUME IInv, IInv', NEW c \in Cli, EndCommand(c), UNCHANGED <<tracked, stable, legacy>>
  PROVE  Simulated
<1>1. ASSUME NEW k \in Consumer
      PROVE  Kept(k)
  <2>1. proc[k] \in ProcessState
    BY DEF IInv, TypeOK
  <2>2. /\ Adopted(k).st = "live" <=> proc[k].st = "live"
        /\ Adopted(k).st = "live" => Adopted(k).key = proc[k].key
    BY <2>1 DEF Adopted, Gone, ProcessState
  <2>3. proc'[k] \in {proc[k], Adopted(k)}
    BY DEF EndCommand
  <2>4. QED
    BY <2>2, <2>3 DEF Kept, Serves
<1>2. QED
  BY <1>1, AllKept

(* A stop, a signal or an exit touches one consumer.                       *)
LEMMA StopSimulated ==
  ASSUME IInv, IInv', NEW k \in Consumer, Stop(k), UNCHANGED <<stable, legacy>>
  PROVE  Simulated
<1>1. ASSUME NEW l \in Consumer \ {k}
      PROVE  Kept(l)
  BY DEF Stop, Kept, Serves, IInv, TypeOK
<1>2. QED
  BY <1>1, OneTouched

(* A step that changes one process is one of the protocol.                 *)
LEMMA ProcSimulated ==
  ASSUME IInv, IInv', NEW k \in Consumer, NEW p, proc' = [proc EXCEPT ![k] = p],
         UNCHANGED <<tracked, stable, legacy>>
  PROVE  Simulated
<1>1. ASSUME NEW l \in Consumer \ {k}
      PROVE  Kept(l)
  BY DEF Kept, Serves, IInv, TypeOK
<1>2. QED
  BY <1>1, OneTouched

(* The result of a launch is a step of the protocol.                       *)
LEMMA ApplySimulated ==
  ASSUME IInv, IInv', NEW k \in Consumer, NEW r, Apply(k, r), UNCHANGED <<stable, legacy>>
  PROVE  Simulated
<1>1. ASSUME NEW l \in Consumer \ {k}
      PROVE  Kept(l)
  BY DEF Apply, Kept, Serves, IInv, TypeOK
<1>2. QED
  BY <1>1, OneTouched

(* A whole start is a step of the protocol.                                *)
LEMMA StartSimulated ==
  ASSUME IInv, IInv', NEW c \in Cli, NEW k \in Consumer, NEW healthy \in BOOLEAN,
         Start(c, k, healthy), UNCHANGED <<stable, legacy>>
  PROVE  Simulated
<1>1. CASE UNCHANGED procVars
  BY <1>1, SameProcesses DEF procVars
<1>2. CASE \E r \in LaunchResults(c, ManagedKey) : Apply(k, r)
  BY <1>2, ApplySimulated
<1>3. QED
  BY <1>1, <1>2 DEF Start

(* A change of the key or of the env files, while no consumer serves, is a *)
(* change of the key.                                                      *)
LEMMA QuietSimulated ==
  ASSUME IInv, IInv', NEW c \in Cli, pc[c] \in {"promote", "scrub", "restore"},
         UNCHANGED <<tracked, proc>>
  PROVE  Simulated
<1>1. \A k \in Consumer : ~Serves(k)
  BY DEF IInv, CliInv, QuietOK
<1>2. \A k \in Consumer : ~Serves(k)'
  BY QuietChange
<1>3. QED
  BY <1>1, <1>2, NobodyServed

(* Saving the stopped records stutters: none of them served.               *)
LEMMA SaveStoppedSimulated ==
  ASSUME IInv, IInv', NEW c \in Cli, SaveStopped(c)
  PROVE  Simulated
<1>1. \A k \in Consumer : ~Serves(k)
  BY DEF SaveStopped, IInv, CliInv, HaltOK
<1>2. ASSUME NEW k \in Consumer
      PROVE  ~Serves(k)'
  BY <1>1 DEF SaveStopped, Serves
<1>3. QED
  BY <1>1, <1>2, NobodyServed

(* Every step of a rotation is one of the protocol, or stutters.           *)
LEMMA RotationSimulated ==
  ASSUME IInv, IInv', NEW c \in Cli, RotationStep(c)
  PROVE  Simulated
<1>1. CASE RefuseCandidate(c) \/ Complete(c)
  BY <1>1, EndSimulated DEF RefuseCandidate, Complete, Leave, secretVars
<1>2. CASE \E v \in Value, b \in Backend : Stage(c, v, b) \/ StageRaises(c, v, b)
  BY <1>2, SameProcesses DEF Stage, StageRaises, procVars
<1>3. CASE TakeSnapshot(c) \/ SnapshotRaises(c) \/ HaltRaises(c) \/ CompleteRaises(c)
  BY <1>3, SameProcesses
  DEF TakeSnapshot, SnapshotRaises, HaltRaises, CompleteRaises, procVars, secretVars
<1>4. CASE HaltConsumer(c)
  BY <1>4, ProcSimulated DEF HaltConsumer, secretVars
<1>5. CASE SaveStopped(c)
  BY <1>5, SaveStoppedSimulated
<1>6. CASE Promote(c) \/ PromoteRaises(c) \/ ScrubLegacy(c) \/ ScrubRaises(c)
  BY <1>6, QuietSimulated DEF Promote, PromoteRaises, ScrubLegacy, ScrubRaises, procVars
<1>7. CASE RestartConsumer(c)
  BY <1>7, StartSimulated DEF RestartConsumer, secretVars
<1>8. QED
  BY <1>1, <1>2, <1>3, <1>4, <1>5, <1>6, <1>7 DEF RotationStep

(* So is every step of its rollback.                                       *)
LEMMA RollbackSimulated ==
  ASSUME IInv, IInv', NEW c \in Cli, RollbackStep(c)
  PROVE  Simulated
<1>1. CASE RollbackStop(c)
  BY <1>1, StopSimulated DEF RollbackStop, secretVars
<1>2. CASE RollbackStopRaises(c) \/ UndoDone(c) \/ Unstage(c) \/ UnstageRaises(c)
           \/ Revived(c) \/ ContainDone(c)
  BY <1>2, SameProcesses
  DEF RollbackStopRaises, UndoDone, Unstage, UnstageRaises, Revived, ContainDone,
      procVars, secretVars
<1>3. CASE RestoreGeneration(c) \/ RestoreRaises(c)
  BY <1>3, QuietSimulated DEF RestoreGeneration, RestoreRaises, procVars
<1>4. CASE ReviveConsumer(c)
  BY <1>4, StartSimulated DEF ReviveConsumer, secretVars
<1>5. CASE Report(c)
  BY <1>5, EndSimulated DEF Report, Leave, secretVars
<1>6. QED
  BY <1>1, <1>2, <1>3, <1>4, <1>5 DEF RollbackStep

(* So is every step of a command.                                          *)
LEMMA CliSimulated ==
  ASSUME IInv, IInv', NEW c \in Cli, CliStep(c)
  PROVE  Simulated
<1>1. CASE TakeLock(c) \/ ResolveKey(c)
  BY <1>1, SameProcesses DEF TakeLock, ResolveKey, procVars, secretVars
<1>2. CASE LockTimeout(c) \/ Finish(c)
  BY <1>2, EndSimulated DEF LockTimeout, Finish, Leave, secretVars
<1>3. CASE Launch(c)
  <2>1. job[c].key \in Consumer /\ UNCHANGED <<stable, legacy>>
    BY <1>3 DEF Launch, IInv, CliInv, JobOK, secretVars
  <2>2. QED
    BY <1>3, <2>1, SameProcesses, ApplySimulated DEF Launch, procVars
<1>4. CASE StopConsumer(c)
  <2>1. job[c].key \in Consumer /\ UNCHANGED <<stable, legacy>>
    BY <1>4 DEF StopConsumer, IInv, CliInv, JobOK, secretVars
  <2>2. QED
    BY <1>4, <2>1, StopSimulated DEF StopConsumer
<1>5. QED
  BY <1>1, <1>2, <1>3, <1>4, RotationSimulated, RollbackSimulated DEF CliStep

(* So is every step of the system.                                         *)
LEMMA NextSimulated ==
  ASSUME IInv, IInv', [Next]_vars
  PROVE  [Generation!Next]_<<ManagedKey, Users>>
<1>1. ASSUME NEW c \in Cli, Crash(c)
      PROVE  Simulated
  BY <1>1, EndSimulated DEF Crash, Leave, secretVars
<1>2. ASSUME NEW c \in Cli, NEW j \in Job, Begin(c, j)
      PROVE  Simulated
  BY <1>2, SameProcesses DEF Begin, procVars, secretVars
<1>3. ASSUME NEW k \in Consumer, ProcessExits(k)
      PROVE  Simulated
  BY <1>3, ProcSimulated DEF ProcessExits, secretVars
<1>4. ASSUME UNCHANGED vars
      PROVE  Simulated
  BY <1>4, SameProcesses DEF vars
<1>5. QED
  BY <1>1, <1>2, <1>3, <1>4, CliSimulated DEF Next, Simulated

(* The initial states are initial states of the protocol.                  *)
LEMMA InitSimulated ==
  ASSUME Init
  PROVE  Generation!Init
<1>1. IInv
  BY InitIInv
<1>2. ManagedKey \in Value \cup {None}
  BY <1>1, ManagedKeyType DEF IInv, Copy
<1>3. \A k \in Consumer : Users[k] \in {ManagedKey, Off}
  BY <1>1 DEF Users, IInv, OneGeneration
<1>4. QED
  BY <1>2, <1>3 DEF Generation!Init, Users

(* The rotation, its rollback and every start and stop implement the       *)
(* generation protocol: a consumer joins with the current key, and the key *)
(* changes only while no supervised consumer runs.                         *)
THEOREM RotationImplements == Spec => ImplementsGeneration
<1>1. Init => Generation!Init
  BY InitSimulated
<1>2. IInv /\ IInv' /\ [Next]_vars => [Generation!Next]_<<ManagedKey, Users>>
  BY NextSimulated
<1>3. QED
  BY <1>1, <1>2, IInvAlways, PTL DEF Spec, ImplementsGeneration, Generation!Spec, Users

----------------------------------------------------------------------------
(* No consumer that still runs loses its record.                           *)

(* A step after which every live consumer was live before and kept its     *)
(* record forgets none.                                                    *)
LEMMA NoneForgotten ==
  ASSUME RunningIsTracked,
         \A k \in Consumer : proc'[k].st = "live" =>
           proc[k].st = "live" /\ tracked'[k] = tracked[k]
  PROVE  RunningIsTracked'
  BY DEF RunningIsTracked

(* A step that touches no process and no record forgets none.              *)
LEMMA RecordsKept ==
  ASSUME RunningIsTracked, UNCHANGED <<tracked, proc>>
  PROVE  RunningIsTracked'
  BY DEF RunningIsTracked

(* The end of a command, a crash included, forgets none.                   *)
LEMMA EndForgetsNone ==
  ASSUME IInv, RunningIsTracked, NEW c \in Cli, EndCommand(c), UNCHANGED tracked
  PROVE  RunningIsTracked'
  BY NoneForgotten, EndCommandEffect DEF IInv

(* A launch records the process it leaves running.                         *)
LEMMA ApplyForgetsNone ==
  ASSUME IInv, RunningIsTracked, NEW c \in Cli, NEW k \in Consumer,
         NEW r \in LaunchResults(c, ManagedKey), Apply(k, r)
  PROVE  RunningIsTracked'
<1>1. r.proc.st = "live" => r.tracked
  BY LaunchType, ManagedKeyType DEF IInv
<1>2. QED
  BY <1>1 DEF Apply, RunningIsTracked, IInv, TypeOK

(* A start forgets none.                                                   *)
LEMMA StartForgetsNone ==
  ASSUME IInv, RunningIsTracked, NEW c \in Cli, NEW k \in Consumer,
         NEW healthy \in BOOLEAN, Start(c, k, healthy)
  PROVE  RunningIsTracked'
<1>1. CASE UNCHANGED procVars
  BY <1>1, RecordsKept DEF procVars
<1>2. CASE \E r \in LaunchResults(c, ManagedKey) : Apply(k, r)
  BY <1>2, ApplyForgetsNone
<1>3. QED
  BY <1>1, <1>2 DEF Start

(* A stop drops the record of a process it has ended or killed.            *)
LEMMA StopForgetsNone ==
  ASSUME IInv, RunningIsTracked, NEW k \in Consumer, Stop(k)
  PROVE  RunningIsTracked'
<1>1. PICK p \in (IF tracked[k] THEN AfterStop(k) ELSE {proc[k]}) :
        proc' = [proc EXCEPT ![k] = p]
  BY DEF Stop
<1>2. p.st # "live"
  <2>1. CASE tracked[k]
    BY <1>1, <2>1, AfterStopType DEF IInv
  <2>2. CASE ~tracked[k]
    BY <1>1, <2>2 DEF RunningIsTracked
  <2>3. QED
    BY <2>1, <2>2
<1>3. QED
  BY <1>1, <1>2, NoneForgotten DEF Stop, IInv, TypeOK

(* A process that ends, or is stopped with its record kept, forgets none.  *)
LEMMA EndedForgetsNone ==
  ASSUME IInv, RunningIsTracked, NEW k \in Consumer, NEW p, p.st # "live",
         proc' = [proc EXCEPT ![k] = p], UNCHANGED tracked
  PROVE  RunningIsTracked'
  BY NoneForgotten DEF IInv, TypeOK

(* A rotation drops the records of its snapshot when none of them runs.    *)
LEMMA SaveForgetsNone ==
  ASSUME IInv, RunningIsTracked, NEW c \in Cli, SaveStopped(c)
  PROVE  RunningIsTracked'
<1>1. \A k \in Consumer : ~Serves(k)
  BY DEF SaveStopped, IInv, CliInv, HaltOK
<1>2. \A k \in Consumer : proc[k].st # "live"
  BY <1>1 DEF Serves, RunningIsTracked
<1>3. QED
  BY <1>2, NoneForgotten DEF SaveStopped

(* A rotation forgets none, whatever raises.                               *)
LEMMA RotationForgetsNone ==
  ASSUME IInv, RunningIsTracked, NEW c \in Cli, RotationStep(c)
  PROVE  RunningIsTracked'
<1>1. CASE RefuseCandidate(c) \/ Complete(c)
  BY <1>1, EndForgetsNone DEF RefuseCandidate, Complete, Leave
<1>2. CASE \E v \in Value, b \in Backend : Stage(c, v, b) \/ StageRaises(c, v, b)
  BY <1>2, RecordsKept DEF Stage, StageRaises, procVars
<1>3. CASE TakeSnapshot(c) \/ SnapshotRaises(c) \/ HaltRaises(c) \/ CompleteRaises(c)
  BY <1>3, RecordsKept DEF TakeSnapshot, SnapshotRaises, HaltRaises, CompleteRaises, procVars
<1>4. CASE HaltConsumer(c)
  BY <1>4, EndedForgetsNone, AfterStopType DEF HaltConsumer, IInv
<1>5. CASE SaveStopped(c)
  BY <1>5, SaveForgetsNone
<1>6. CASE Promote(c) \/ PromoteRaises(c) \/ ScrubLegacy(c) \/ ScrubRaises(c)
  BY <1>6, RecordsKept DEF Promote, PromoteRaises, ScrubLegacy, ScrubRaises, procVars
<1>7. CASE RestartConsumer(c)
  BY <1>7, StartForgetsNone DEF RestartConsumer
<1>8. QED
  BY <1>1, <1>2, <1>3, <1>4, <1>5, <1>6, <1>7 DEF RotationStep

(* Neither does its rollback.                                              *)
LEMMA RollbackForgetsNone ==
  ASSUME IInv, RunningIsTracked, NEW c \in Cli, RollbackStep(c)
  PROVE  RunningIsTracked'
<1>1. CASE RollbackStop(c)
  BY <1>1, StopForgetsNone DEF RollbackStop
<1>2. CASE RollbackStopRaises(c) \/ UndoDone(c) \/ Unstage(c) \/ UnstageRaises(c)
           \/ Revived(c) \/ ContainDone(c)
  BY <1>2, RecordsKept
  DEF RollbackStopRaises, UndoDone, Unstage, UnstageRaises, Revived, ContainDone, procVars
<1>3. CASE RestoreGeneration(c) \/ RestoreRaises(c)
  BY <1>3, RecordsKept DEF RestoreGeneration, RestoreRaises, procVars
<1>4. CASE ReviveConsumer(c)
  BY <1>4, StartForgetsNone DEF ReviveConsumer
<1>5. CASE Report(c)
  BY <1>5, EndForgetsNone DEF Report, Leave
<1>6. QED
  BY <1>1, <1>2, <1>3, <1>4, <1>5 DEF RollbackStep

(* Nor any other step of a command.                                        *)
LEMMA CliForgetsNone ==
  ASSUME IInv, RunningIsTracked, NEW c \in Cli, CliStep(c)
  PROVE  RunningIsTracked'
<1>1. CASE TakeLock(c) \/ ResolveKey(c)
  BY <1>1, RecordsKept DEF TakeLock, ResolveKey, procVars
<1>2. CASE LockTimeout(c) \/ Finish(c)
  BY <1>2, EndForgetsNone DEF LockTimeout, Finish, Leave
<1>3. CASE Launch(c)
  <2>1. job[c].key \in Consumer /\ resolved[c] = ManagedKey
    BY <1>3 DEF Launch, IInv, CliInv, JobOK, LaunchOK
  <2>2. QED
    BY <1>3, <2>1, RecordsKept, ApplyForgetsNone DEF Launch, procVars
<1>4. CASE StopConsumer(c)
  <2>1. job[c].key \in Consumer
    BY <1>4 DEF StopConsumer, IInv, CliInv, JobOK
  <2>2. QED
    BY <1>4, <2>1, StopForgetsNone DEF StopConsumer
<1>5. QED
  BY <1>1, <1>2, <1>3, <1>4, RotationForgetsNone, RollbackForgetsNone DEF CliStep

(* No consumer that still runs is without a record, whatever a rotation    *)
(* and its rollback fail at: a later stop or rotation will find it.        *)
THEOREM RunningStaysTracked == Spec => []RunningIsTracked
<1>1. Init => RunningIsTracked
  BY DEF Init, RunningIsTracked, Gone
<1>2. ASSUME IInv, RunningIsTracked, [Next]_vars
      PROVE  RunningIsTracked'
  <2>1. ASSUME NEW c \in Cli, Crash(c)
        PROVE  RunningIsTracked'
    BY <1>2, <2>1, EndForgetsNone DEF Crash, Leave
  <2>2. ASSUME NEW c \in Cli, NEW j \in Job, Begin(c, j)
        PROVE  RunningIsTracked'
    BY <1>2, <2>2, RecordsKept DEF Begin, procVars
  <2>3. ASSUME NEW k \in Consumer, ProcessExits(k)
        PROVE  RunningIsTracked'
    <3>1. Ended(k).st # "live"
      BY <1>2, EndedType DEF IInv
    <3>2. QED
      BY <1>2, <2>3, <3>1, EndedForgetsNone DEF ProcessExits
  <2>4. ASSUME UNCHANGED vars
        PROVE  RunningIsTracked'
    BY <1>2, <2>4, RecordsKept DEF vars
  <2>5. QED
    BY <1>2, <2>1, <2>2, <2>3, <2>4, CliForgetsNone DEF Next
<1>3. QED
  BY <1>1, <1>2, IInvAlways, PTL DEF Spec

----------------------------------------------------------------------------
(* What a rotation and its rollback have achieved at each step.            *)

(* A secret that was stored is found again.                                *)
LEMMA StoredFetch ==
  ASSUME NEW s \in Slot, NEW v \in Copy, NEW preferred, NEW t \in Stored(s, v, preferred)
  PROVE  Fetch(t) = v
<1> DEFINE both == With(s, "keychain", v)
<1>1. both = [s EXCEPT !.keychain = v] /\ both \in Slot
  BY SlotUpdates DEF With, Backend
<1>2. ASSUME NEW u \in Slot
      PROVE  Fetch(Indexed(With(u, "file", v), "file")) = v
  BY <1>2 DEF Fetch, Indexed, With, Slot
<1>3. Fetch(Indexed(both, "keychain")) = v
  BY <1>1 DEF Fetch, Indexed, Slot
<1> HIDE DEF both
<1>4. t \in {Indexed(both, "keychain"), Indexed(With(s, "file", v), "file"),
             Indexed(With(both, "file", v), "file")}
  BY DEF Stored, both
<1>5. QED
  BY <1>1, <1>2, <1>3, <1>4

(* Storing touches no copy but that of the secret's new value.             *)
LEMMA StoredCopies ==
  ASSUME NEW s \in Slot, NEW v \in Copy, NEW preferred, NEW t \in Stored(s, v, preferred),
         NEW b \in Backend
  PROVE  t.index \in Backend /\ t[t.index] = v /\ t[b] \in {s[b], v}
<1> DEFINE both == With(s, "keychain", v)
<1>1. both = [s EXCEPT !.keychain = v] /\ both \in Slot
  BY SlotUpdates DEF With, Backend
<1>2. ASSUME NEW u \in Slot, NEW w, w = Indexed(With(u, "file", v), "file")
      PROVE  w.index = "file" /\ w["file"] = v /\ w["keychain"] = u["keychain"]
  BY <1>2 DEF Indexed, With, Slot
<1>3. ASSUME NEW w, w = Indexed(both, "keychain")
      PROVE  w.index = "keychain" /\ w["keychain"] = v /\ w["file"] = s["file"]
  BY <1>1, <1>3 DEF Indexed, Slot
<1>4. both["keychain"] = v
  BY <1>1 DEF Slot
<1> HIDE DEF both
<1>5. t \in {Indexed(both, "keychain"), Indexed(With(s, "file", v), "file"),
             Indexed(With(both, "file", v), "file")}
  BY DEF Stored, both
<1>6. CASE t = Indexed(both, "keychain")
  BY <1>3, <1>6 DEF Backend
<1>7. CASE t = Indexed(With(s, "file", v), "file")
  BY <1>2, <1>7 DEF Backend
<1>8. CASE t = Indexed(With(both, "file", v), "file")
  BY <1>1, <1>2, <1>4, <1>8 DEF Backend
<1>9. QED
  BY <1>5, <1>6, <1>7, <1>8

(* A promotion leaves the new value where it is found, and no copy of the  *)
(* replaced one where the index had it.                                    *)
LEMMA ReplacedFacts ==
  ASSUME NEW s \in Slot, NEW v \in Copy, NEW preferred, NEW t \in Replaced(s, v, preferred)
  PROVE  /\ Fetch(t) = v
         /\ \A b \in Backend : b = s.index \/ s[b] = None => t[b] \in {None, v}
<1>1. PICK u \in Stored(s, v, preferred) :
        t = IF s.index \notin {None, u.index} THEN Without(u, s.index) ELSE u
  BY DEF Replaced
<1>2. u \in Slot /\ Fetch(u) = v /\ u.index \in Backend /\ u[u.index] = v
      /\ \A b \in Backend : u[b] \in {s[b], v}
  BY StoredType, StoredFetch, StoredCopies DEF Backend
<1>3. CASE s.index \notin {None, u.index}
  <2>1. t = Without(u, s.index) /\ s.index \in Backend
    BY <1>1, <1>3 DEF Slot
  <2>2. /\ t.index = u.index /\ t[s.index] = None
        /\ \A b \in Backend \ {s.index} : t[b] = u[b]
    BY <1>2, <2>1 DEF Without, With, Slot, Backend
  <2>3. Fetch(t) = v
    BY <1>2, <1>3, <2>1, <2>2 DEF Fetch, Backend, Slot, Without, With
  <2>4. QED
    BY <1>2, <2>1, <2>2, <2>3
<1>4. CASE s.index \in {None, u.index}
  <2>1. t = u
    BY <1>1, <1>4
  <2>2. \A b \in Backend : b = s.index => t[b] = v
    BY <1>2, <1>4, <2>1
  <2>3. QED
    BY <1>2, <2>1, <2>2
<1>5. QED
  BY <1>3, <1>4

(* A restoration that returns leaves the old value to be found.            *)
LEMMA RestoredFetch ==
  ASSUME NEW old \in Slot, NEW t \in Restored(old)
  PROVE  Fetch(t) = Fetch(old)
<1>1. CASE Fetch(old) = None
  BY <1>1 DEF Restored, EmptySlot, Fetch
<1>2. CASE Fetch(old) # None
  <2>1. t \in Stored(EmptySlot, Fetch(old), old.index)
    BY <1>2 DEF Restored
  <2>2. QED
    BY <2>1, EmptySlotType, FetchType, StoredFetch
<1>3. QED
  BY <1>1, <1>2

(* An invocation that does not move has achieved what it had, when the     *)
(* others leave the secrets and the records alone and start nothing.       *)
LEMMA CalmStep ==
  ASSUME NEW c \in Cli, ProgressOK(c), pc'[c] = pc[c], job'[c] = job[c],
         UNCHANGED <<tracked, stable, pending, legacy, rot>>,
         \A k \in Consumer : proc'[k].st = "live" => proc[k].st = "live"
  PROVE  ProgressOK(c)'
<1>1. /\ OldInPlace => OldInPlace'
      /\ OldGeneration => OldGeneration'
      /\ NewInPlace => NewInPlace'
  BY DEF OldInPlace, OldGeneration, NewInPlace
<1>2. /\ NobodyLive => NobodyLive'
      /\ BackToSnapshot => BackToSnapshot'
      /\ ConsumerSetIsSnapshot => ConsumerSetIsSnapshot'
  BY DEF NobodyLive, BackToSnapshot, ConsumerSetIsSnapshot
<1>3. ReplacingOK(c)'
  BY <1>1, <1>2 DEF ProgressOK, ReplacingOK, NoLegacy
<1>4. RestoringOK(c)'
  BY <1>1, <1>2 DEF ProgressOK, RestoringOK
<1>5. QED
  BY <1>3, <1>4 DEF ProgressOK

(* An invocation outside a rotation has nothing to have achieved.          *)
LEMMA IdleStep ==
  ASSUME NEW c \in Cli, pc'[c] \notin RotationPC
  PROVE  ProgressOK(c)'
<1>1. pc'[c] \notin {"rotate", "snapshot", "halt", "promote", "scrub", "restart", "undo",
                     "restore", "unstage", "revive", "contain", "report"}
  BY DEF RotationPC, Protected, PC
<1>2. QED
  BY <1>1 DEF ProgressOK, ReplacingOK, RestoringOK

(* While one invocation holds the lock, no other is in a rotation.         *)
LEMMA HolderProgress ==
  ASSUME IInv, NEW c \in Cli, rotLock = c \/ rotLock = None,
         \A d \in Cli \ {c} : pc'[d] = pc[d], ProgressOK(c)'
  PROVE  \A d \in Cli : ProgressOK(d)'
<1>1. ASSUME NEW d \in Cli, d # c
      PROVE  ProgressOK(d)'
  <2>1. pc[d] \notin Protected
    BY <1>1 DEF IInv, CliInv, LockOK
  <2>2. pc'[d] \notin RotationPC
    BY <1>1, <2>1 DEF RotationPC
  <2>3. QED
    BY <2>2, IdleStep
<1>2. QED
  BY <1>1

(* Another invocation ends, or a command begins.                           *)
LEMMA OutsiderProgress ==
  ASSUME IInv, \A d \in Cli : ProgressOK(d), NEW c \in Cli, OthersKeep(c),
         pc'[c] \notin RotationPC,
         UNCHANGED <<tracked, stable, pending, legacy, rot>>,
         \A k \in Consumer : proc'[k].st = "live" => proc[k].st = "live"
  PROVE  \A d \in Cli : ProgressOK(d)'
<1>1. ASSUME NEW d \in Cli, d # c
      PROVE  ProgressOK(d)'
  BY <1>1, CalmStep DEF OthersKeep
<1>2. QED
  BY <1>1, IdleStep

(* The end of an invocation, whoever holds the lock.                       *)
LEMMA EndProgress ==
  ASSUME IInv, \A d \in Cli : ProgressOK(d), NEW c \in Cli, EndCommand(c),
         UNCHANGED <<tracked, stable, legacy>>,
         rotLock = c \/ UNCHANGED pending
  PROVE  \A d \in Cli : ProgressOK(d)'
<1>1. /\ OthersKeep(c) /\ pc'[c] = "idle" /\ (rotLock # c => UNCHANGED rot)
      /\ \A k \in Consumer : proc'[k].st = "live" => proc[k].st = "live"
  BY EndCommandEffect DEF IInv
<1>2. pc'[c] \notin RotationPC
  BY <1>1 DEF RotationPC, Protected
<1>3. CASE rotLock = c
  BY <1>1, <1>2, <1>3, IdleStep, HolderProgress DEF OthersKeep
<1>4. CASE rotLock # c
  BY <1>1, <1>2, <1>4, OutsiderProgress
<1>5. QED
  BY <1>3, <1>4

(* A rotation that raises goes to its rollback, and keeps what it knows of *)
(* the old generation.                                                     *)
LEMMA RaiseProgress ==
  ASSUME IInv, NEW c \in Cli, ProgressOK(c), NEW cause, Raise(c, cause),
         pc[c] \in {"halt", "promote", "scrub", "restart"}, UNCHANGED job,
         rot.promotionAttempted \/ UNCHANGED <<stable, legacy>>
  PROVE  ProgressOK(c)'
<1>1. /\ rot'.consumersStopped = rot.consumersStopped
      /\ rot'.promotionAttempted = rot.promotionAttempted
      /\ rot'.old = rot.old /\ rot'.oldLegacy = rot.oldLegacy
  BY StaysTyped DEF Raise, StopAll, RotationLocals
<1>2. pc'[c] = "undo"
  BY DEF Raise, Goto, IInv, TypeOK
<1>3. pc[c] \in RotationPC \ {"rotate", "snapshot", "unstage", "report"}
  BY DEF RotationPC, Protected, PC
<1>4. rot'.consumersStopped /\ job'[c].op = "rotate"
  BY <1>1, <1>3 DEF ProgressOK, ReplacingOK
<1>5. ~rot'.promotionAttempted => OldInPlace'
  BY <1>1 DEF ProgressOK, ReplacingOK, OldInPlace
<1>6. QED
  BY <1>2, <1>4, <1>5 DEF ProgressOK, ReplacingOK, RestoringOK

(* With the records of every live consumer, a quiet moment is one in which *)
(* none runs.                                                              *)
LEMMA QuietMeansNobody ==
  ASSUME IInv, RunningIsTracked, NEW c \in Cli, pc[c] \in {"promote", "scrub", "restore"}
  PROVE  NobodyLive
  BY DEF IInv, CliInv, QuietOK, Serves, RunningIsTracked, NobodyLive

(* A candidate is staged, or that raises: the old generation is in place.  *)
LEMMA StageProgress ==
  ASSUME IInv, NEW c \in Cli, ProgressOK(c), NEW v \in Value, NEW b \in Backend,
         Stage(c, v, b) \/ StageRaises(c, v, b)
  PROVE  ProgressOK(c)'
<1>1. /\ pc[c] = "rotate" /\ UNCHANGED <<job, tracked, proc, stable, legacy>>
      /\ rot' \in {Capture(v, b), [Capture(v, b) EXCEPT !.cause = "error"]}
      /\ pc'[c] \in {"snapshot", "unstage"}
  BY DEF Stage, StageRaises, procVars, Goto, IInv, TypeOK
<1>2. /\ Capture(v, b) \in RotationLocals
      /\ Capture(v, b).old = stable /\ Capture(v, b).oldLegacy = legacy
      /\ ~Capture(v, b).consumersStopped /\ ~Capture(v, b).uncertain
  <2>1. /\ NoRotation \in RotationLocals
        /\ ~NoRotation.consumersStopped /\ ~NoRotation.uncertain
    BY EmptySlotType DEF NoRotation, RotationLocals
  <2>2. QED
    BY <2>1, CaptureType DEF Capture, RotationLocals, IInv
<1>3. /\ rot'.old = stable /\ rot'.oldLegacy = legacy
      /\ ~rot'.consumersStopped /\ ~rot'.uncertain
  BY <1>1, <1>2 DEF RotationLocals
<1>4. OldInPlace' /\ OldGeneration'
  BY <1>1, <1>3 DEF OldInPlace, OldGeneration
<1>5. job'[c].op = "rotate"
  BY <1>1 DEF ProgressOK, ReplacingOK, RotationPC, Protected, PC
<1>6. QED
  BY <1>1, <1>3, <1>4, <1>5 DEF ProgressOK, ReplacingOK, RestoringOK, RotationPC

(* The snapshot is taken, or that raises: no key has changed.              *)
LEMMA SnapshotProgress ==
  ASSUME IInv, NEW c \in Cli, ProgressOK(c), TakeSnapshot(c) \/ SnapshotRaises(c)
  PROVE  ProgressOK(c)'
<1>1. /\ pc[c] = "snapshot" /\ UNCHANGED <<job, stable, legacy, pending>>
      /\ pc'[c] \in {"halt", "unstage"}
  BY DEF TakeSnapshot, SnapshotRaises, secretVars, Goto, IInv, TypeOK
<1>2. /\ rot'.old = rot.old /\ rot'.oldLegacy = rot.oldLegacy
      /\ rot'.uncertain = rot.uncertain
  BY StaysTyped DEF TakeSnapshot, SnapshotRaises, RotationLocals
<1>3. /\ TakeSnapshot(c) => pc'[c] = "halt" /\ rot'.consumersStopped
      /\ SnapshotRaises(c) => pc'[c] = "unstage" /\ rot'.consumersStopped = rot.consumersStopped
  BY StaysTyped, ZenonT(30) DEF TakeSnapshot, SnapshotRaises, RotationLocals, Goto, IInv, TypeOK
<1>4. /\ job[c].op = "rotate" /\ OldInPlace
      /\ ~rot.consumersStopped /\ ~rot.uncertain
  BY <1>1 DEF ProgressOK, ReplacingOK, RotationPC, Protected, PC
<1>5. OldInPlace' /\ OldGeneration'
  BY <1>1, <1>2, <1>4 DEF OldInPlace, OldGeneration
<1>6. QED
  BY <1>1, <1>2, <1>3, <1>4, <1>5 DEF ProgressOK, ReplacingOK, RestoringOK, RotationPC

(* The consumers are stopped one after the other, and their records are    *)
(* saved.                                                                  *)
LEMMA HaltProgress ==
  ASSUME IInv, NEW c \in Cli, ProgressOK(c),
         HaltConsumer(c) \/ HaltRaises(c) \/ SaveStopped(c)
  PROVE  ProgressOK(c)'
<1>1. pc[c] = "halt" /\ UNCHANGED <<job, stable, legacy, pending>>
  BY DEF HaltConsumer, HaltRaises, SaveStopped, secretVars
<1>2. OldInPlace /\ rot.consumersStopped /\ job[c].op = "rotate"
  BY <1>1 DEF ProgressOK, ReplacingOK, RotationPC, Protected, PC
<1>3. CASE Raise(c, "error")
  BY <1>1, <1>3, RaiseProgress
<1>4. CASE \E k \in Consumer : rot' = [rot EXCEPT !.todo = @ \ {k}] /\ UNCHANGED pc
  <2>1. /\ rot'.old = rot.old /\ rot'.oldLegacy = rot.oldLegacy
        /\ rot'.consumersStopped = rot.consumersStopped
    BY <1>4, StaysTyped DEF RotationLocals
  <2>2. OldInPlace' /\ pc'[c] = "halt"
    BY <1>1, <1>2, <1>4, <2>1 DEF OldInPlace
  <2>3. QED
    BY <1>1, <1>2, <2>1, <2>2 DEF ProgressOK, ReplacingOK, RestoringOK
<1>5. CASE SaveStopped(c)
  <2>1. /\ rot'.old = rot.old /\ rot'.oldLegacy = rot.oldLegacy
        /\ rot'.consumersStopped = rot.consumersStopped /\ rot'.promotionAttempted
    BY <1>5, StaysTyped DEF SaveStopped, RotationLocals
  <2>2. OldInPlace' /\ pc'[c] = "promote"
    BY <1>1, <1>2, <1>5, <2>1 DEF OldInPlace, SaveStopped, Goto, IInv, TypeOK
  <2>3. QED
    BY <1>1, <1>2, <2>1, <2>2 DEF ProgressOK, ReplacingOK, RestoringOK
<1>6. QED
  BY <1>3, <1>4, <1>5 DEF HaltConsumer, HaltRaises

(* The promotion puts the new key in place, or raises.                     *)
LEMMA PromoteProgress ==
  ASSUME IInv, NEW c \in Cli, ProgressOK(c), Promote(c) \/ PromoteRaises(c)
  PROVE  ProgressOK(c)'
<1>1. pc[c] = "promote" /\ UNCHANGED job
  BY DEF Promote, PromoteRaises
<1>2. /\ OldInPlace /\ rot.consumersStopped /\ rot.promotionAttempted
      /\ job[c].op = "rotate"
  BY <1>1 DEF ProgressOK, ReplacingOK, RotationPC, Protected, PC
<1>3. CASE PromoteRaises(c)
  BY <1>1, <1>2, <1>3, RaiseProgress DEF PromoteRaises
<1>4. CASE Promote(c)
  <2>1. rot' = rot /\ pc'[c] = "scrub" /\ stable' \in Replaced(stable, rot.candidate, rot.backend)
    BY <1>4 DEF Promote, Goto, IInv, TypeOK
  <2>2. stable \in Slot /\ rot.candidate \in Copy
    BY DEF IInv, TypeOK, RotationLocals, Copy
  <2>3. /\ Fetch(stable') = rot.candidate
        /\ \A b \in Backend : b = stable.index \/ stable[b] = None => stable'[b] \in {None, rot.candidate}
    BY <2>1, <2>2, ReplacedFacts
  <2>4. NewInPlace'
    BY <1>2, <2>1, <2>3 DEF NewInPlace, OldInPlace
  <2>5. QED
    BY <1>1, <1>2, <2>1, <2>4 DEF ProgressOK, ReplacingOK, RestoringOK
<1>5. QED
  BY <1>3, <1>4

(* The env files are scrubbed, or that raises.                             *)
LEMMA ScrubProgress ==
  ASSUME IInv, RunningIsTracked, NEW c \in Cli, ProgressOK(c), ScrubLegacy(c) \/ ScrubRaises(c)
  PROVE  ProgressOK(c)'
<1>1. pc[c] = "scrub" /\ UNCHANGED <<job, tracked, proc, stable>>
  BY DEF ScrubLegacy, ScrubRaises, procVars
<1>2. /\ NewInPlace /\ rot.consumersStopped /\ rot.promotionAttempted
      /\ job[c].op = "rotate"
  BY <1>1 DEF ProgressOK, ReplacingOK, RotationPC, Protected, PC
<1>3. CASE ScrubRaises(c)
  BY <1>1, <1>2, <1>3, RaiseProgress DEF ScrubRaises
<1>4. CASE ScrubLegacy(c)
  <2>1. /\ pc'[c] = "restart" /\ legacy' = NoLegacy
        /\ rot'.candidate = rot.candidate /\ rot'.old = rot.old
        /\ rot'.snapshot = rot.snapshot /\ rot'.todo = rot.snapshot
        /\ rot'.consumersStopped = rot.consumersStopped
        /\ rot'.promotionAttempted = rot.promotionAttempted
    BY <1>4, StaysTyped DEF ScrubLegacy, RotationLocals, Goto, IInv, TypeOK
  <2>2. NewInPlace'
    BY <1>1, <1>2, <2>1 DEF NewInPlace
  <2>3. BackToSnapshot'
    BY <1>1, <2>1, QuietMeansNobody DEF BackToSnapshot, NobodyLive
  <2>4. (legacy = NoLegacy)'
    BY <2>1 DEF NoLegacy
  <2>5. QED
    BY <1>1, <1>2, <2>1, <2>2, <2>3, <2>4 DEF ProgressOK, ReplacingOK, RestoringOK
<1>5. QED
  BY <1>3, <1>4

(* A healthy start leaves its consumer on record, and the others as they   *)
(* were.                                                                   *)
LEMMA HealthyStart ==
  ASSUME IInv, NEW c \in Cli, NEW k \in Consumer, Start(c, k, TRUE)
  PROVE  /\ tracked'[k]
         /\ \A l \in Consumer \ {k} : tracked'[l] = tracked[l] /\ proc'[l] = proc[l]
<1>1. CASE tracked[k] /\ UNCHANGED procVars
  BY <1>1 DEF procVars
<1>2. CASE \E r \in LaunchResults(c, ManagedKey) : r.healthy /\ Apply(k, r)
  <2>1. PICK r \in LaunchResults(c, ManagedKey) : r.healthy /\ Apply(k, r)
    BY <1>2
  <2>2. r.tracked
    BY <2>1 DEF LaunchResults
  <2>3. QED
    BY <2>1, <2>2, StaysTyped DEF Apply
<1>3. QED
  BY <1>1, <1>2 DEF Start

(* A healthy start takes its consumer off the list of those still to come. *)
LEMMA OneMoreStarted ==
  ASSUME IInv, NEW c \in Cli, NEW k \in Consumer, BackToSnapshot, k \in rot.todo,
         Start(c, k, TRUE), rot' = [rot EXCEPT !.todo = @ \ {k}]
  PROVE  BackToSnapshot'
<1>1. rot'.todo = rot.todo \ {k} /\ rot'.snapshot = rot.snapshot
  BY StaysTyped DEF RotationLocals
<1>2. k \in rot.snapshot /\ rot.todo \subseteq rot.snapshot
  BY DEF BackToSnapshot
<1>3. QED
  BY <1>1, <1>2, HealthyStart, ZenonT(30) DEF BackToSnapshot

(* Once no start is to come, the consumers that run are those of before.   *)
LEMMA AllStarted ==
  ASSUME BackToSnapshot, rot.todo = {}
  PROVE  ConsumerSetIsSnapshot
  BY DEF BackToSnapshot, ConsumerSetIsSnapshot

(* A consumer restarts, or that raises, as does the removal of the staged  *)
(* copy after them all.                                                    *)
LEMMA RestartProgress ==
  ASSUME IInv, NEW c \in Cli, ProgressOK(c), RestartConsumer(c) \/ CompleteRaises(c)
  PROVE  ProgressOK(c)'
<1>1. pc[c] = "restart" /\ UNCHANGED <<job, stable, legacy>>
  BY DEF RestartConsumer, CompleteRaises, secretVars
<1>2. /\ NewInPlace /\ legacy = NoLegacy /\ BackToSnapshot
      /\ rot.consumersStopped /\ rot.promotionAttempted /\ job[c].op = "rotate"
  BY <1>1 DEF ProgressOK, ReplacingOK, RotationPC, Protected, PC
<1>3. CASE \E cause : Raise(c, cause)
  BY <1>1, <1>2, <1>3, RaiseProgress
<1>4. CASE \E k \in Consumer : /\ k \in rot.todo /\ Start(c, k, TRUE)
                               /\ rot' = [rot EXCEPT !.todo = @ \ {k}] /\ UNCHANGED pc
  <2>1. PICK k \in Consumer : /\ k \in rot.todo /\ Start(c, k, TRUE)
                              /\ rot' = [rot EXCEPT !.todo = @ \ {k}] /\ UNCHANGED pc
    BY <1>4
  <2>2. BackToSnapshot'
    BY <1>2, <2>1, OneMoreStarted
  <2>3. /\ rot'.candidate = rot.candidate /\ rot'.old = rot.old
        /\ rot'.consumersStopped = rot.consumersStopped
        /\ rot'.promotionAttempted = rot.promotionAttempted
    BY <2>1, StaysTyped DEF RotationLocals
  <2>4. NewInPlace' /\ (legacy = NoLegacy)'
    BY <1>1, <1>2, <2>3 DEF NewInPlace, NoLegacy
  <2>5. QED
    BY <1>1, <1>2, <2>1, <2>2, <2>3, <2>4 DEF ProgressOK, ReplacingOK, RestoringOK
<1>5. ASSUME RestartConsumer(c)
      PROVE  \/ \E cause : Raise(c, cause)
             \/ \E k \in Consumer : /\ k \in rot.todo /\ Start(c, k, TRUE)
                                    /\ rot' = [rot EXCEPT !.todo = @ \ {k}] /\ UNCHANGED pc
  <2>1. PICK k \in Consumer, healthy \in BOOLEAN :
          /\ NextToStart(k) /\ Start(c, k, healthy)
          /\ IF healthy
             THEN rot' = [rot EXCEPT !.todo = @ \ {k}] /\ UNCHANGED pc
             ELSE Raise(c, "health")
    BY <1>5 DEF RestartConsumer
  <2>2. k \in rot.todo
    BY <2>1 DEF NextToStart
  <2>3. CASE healthy = TRUE
    BY <2>1, <2>2, <2>3
  <2>4. CASE healthy = FALSE
    BY <2>1, <2>4
  <2>5. QED
    BY <2>3, <2>4
<1>6. CASE CompleteRaises(c)
  BY <1>3, <1>6 DEF CompleteRaises
<1>7. QED
  BY <1>3, <1>4, <1>5, <1>6

----------------------------------------------------------------------------
(* The rollback.                                                           *)

(* Stopping the consumers again changes no key.                            *)
LEMMA RollbackStopProgress ==
  ASSUME IInv, NEW c \in Cli, ProgressOK(c), RollbackStop(c) \/ RollbackStopRaises(c)
  PROVE  ProgressOK(c)'
<1>1. /\ pc[c] \in {"undo", "contain"} /\ UNCHANGED <<pc, job, stable, pending, legacy>>
  BY DEF RollbackStop, RollbackStopRaises, secretVars
<1>2. PICK k \in Consumer : \/ rot' = [rot EXCEPT !.todo = @ \ {k}]
                            \/ rot' = [rot EXCEPT !.todo = @ \ {k}, !.stopped = FALSE]
  BY DEF RollbackStop, RollbackStopRaises
<1>3. /\ rot'.old = rot.old /\ rot'.oldLegacy = rot.oldLegacy
      /\ rot'.consumersStopped = rot.consumersStopped
      /\ rot'.promotionAttempted = rot.promotionAttempted
      /\ rot'.rollbackFailed = rot.rollbackFailed
  BY <1>2, StaysTyped DEF RotationLocals
<1>4. OldInPlace => OldInPlace'
  BY <1>1, <1>3 DEF OldInPlace
<1>5. QED
  BY <1>1, <1>3, <1>4 DEF ProgressOK, ReplacingOK, RestoringOK

(* Everything has stopped when the rollback is not uncertain.              *)
LEMMA AllStoppedMeansNobody ==
  ASSUME RunningIsTracked, AllStopped
  PROVE  NobodyLive
  BY DEF RunningIsTracked, AllStopped, NobodyLive

(* The rollback knows whether the consumers have stopped.                  *)
LEMMA UndoDoneProgress ==
  ASSUME IInv, RunningIsTracked, NEW c \in Cli, ProgressOK(c), UndoDone(c)
  PROVE  ProgressOK(c)'
<1>1. PICK uncertain \in {~AllStopped} \cup (IF Faults THEN {TRUE} ELSE {}) :
        /\ pc[c] = "undo"
        /\ rot' = [rot EXCEPT !.watched = {}, !.uncertain = uncertain,
                              !.rollbackFailed = uncertain]
        /\ Goto(c, IF rot.promotionAttempted /\ ~uncertain THEN "restore" ELSE "unstage")
        /\ UNCHANGED <<job, tracked, proc, stable, pending, legacy>>
  BY DEF UndoDone, procVars, secretVars
<1>2. uncertain \in BOOLEAN /\ (~uncertain => AllStopped)
  BY <1>1
<1>3. /\ rot'.old = rot.old /\ rot'.oldLegacy = rot.oldLegacy
      /\ rot'.consumersStopped = rot.consumersStopped
      /\ rot'.promotionAttempted = rot.promotionAttempted
      /\ rot'.rollbackFailed = uncertain /\ rot'.uncertain = uncertain
  BY <1>1, StaysTyped DEF RotationLocals
<1>4. pc'[c] = IF rot.promotionAttempted /\ ~uncertain THEN "restore" ELSE "unstage"
  BY <1>1 DEF Goto, IInv, TypeOK
<1>5. /\ rot.consumersStopped /\ job[c].op = "rotate"
      /\ ~rot.promotionAttempted => OldInPlace
  BY <1>1 DEF ProgressOK, ReplacingOK, RestoringOK, RotationPC, Protected, PC
<1>6. ~rot.promotionAttempted => OldInPlace' /\ OldGeneration'
  BY <1>1, <1>3, <1>5 DEF OldInPlace, OldGeneration
<1>7. ~uncertain => NobodyLive'
  BY <1>1, <1>2, AllStoppedMeansNobody DEF NobodyLive
<1>8. QED
  BY <1>1, <1>2, <1>3, <1>4, <1>5, <1>6, <1>7 DEF ProgressOK, ReplacingOK, RestoringOK

(* The old generation comes back, or that raises.                          *)
LEMMA RestoreProgress ==
  ASSUME IInv, RunningIsTracked, NEW c \in Cli, ProgressOK(c),
         RestoreGeneration(c) \/ RestoreRaises(c)
  PROVE  ProgressOK(c)'
<1>1. pc[c] = "restore" /\ UNCHANGED <<job, tracked, proc>> /\ pc'[c] = "unstage"
  BY DEF RestoreGeneration, RestoreRaises, procVars, Goto, IInv, TypeOK
<1>2. /\ rot.consumersStopped /\ job[c].op = "rotate" /\ ~rot.uncertain
  BY <1>1 DEF ProgressOK, ReplacingOK, RestoringOK, RotationPC, Protected, PC
<1>3. NobodyLive'
  BY <1>1, QuietMeansNobody DEF NobodyLive
<1>4. CASE RestoreGeneration(c)
  <2>1. rot' = rot /\ stable' \in Restored(rot.old) /\ legacy' = rot.oldLegacy
    BY <1>4 DEF RestoreGeneration
  <2>2. rot.old \in Slot
    BY StaysTyped DEF RotationLocals
  <2>3. OldGeneration'
    BY <2>1, <2>2, RestoredFetch DEF OldGeneration
  <2>4. QED
    BY <1>1, <1>2, <1>3, <2>1, <2>3 DEF ProgressOK, ReplacingOK, RestoringOK
<1>5. CASE RestoreRaises(c)
  <2>1. /\ rot'.rollbackFailed /\ rot'.consumersStopped = rot.consumersStopped
        /\ rot'.uncertain = rot.uncertain
    BY <1>5, StaysTyped DEF RestoreRaises, RotationLocals
  <2>2. QED
    BY <1>1, <1>2, <1>3, <2>1 DEF ProgressOK, ReplacingOK, RestoringOK
<1>6. QED
  BY <1>4, <1>5

(* The staged copy is removed, or that raises.                             *)
LEMMA UnstageProgress ==
  ASSUME IInv, NEW c \in Cli, ProgressOK(c), Unstage(c) \/ UnstageRaises(c)
  PROVE  ProgressOK(c)'
<1>1. pc[c] = "unstage" /\ UNCHANGED <<job, tracked, proc, stable, legacy>>
  BY DEF Unstage, UnstageRaises, procVars
<1>2. /\ job[c].op = "rotate"
      /\ ~rot.rollbackFailed => OldGeneration /\ ~rot.uncertain
      /\ ~rot.consumersStopped => OldInPlace
      /\ rot.consumersStopped /\ ~rot.uncertain => NobodyLive
  BY <1>1 DEF ProgressOK, ReplacingOK, RestoringOK, RotationPC, Protected, PC
<1>3. NobodyLive => NobodyLive'
  BY <1>1 DEF NobodyLive
<1>4. CASE Unstage(c) /\ rot.consumersStopped /\ ~rot.rollbackFailed
  <2>1. /\ pc'[c] = "revive" /\ pending' = FALSE
        /\ rot'.old = rot.old /\ rot'.oldLegacy = rot.oldLegacy
        /\ rot'.consumersStopped = rot.consumersStopped
        /\ rot'.rollbackFailed = rot.rollbackFailed
        /\ rot'.snapshot = rot.snapshot /\ rot'.todo = rot.snapshot
    BY <1>4, StaysTyped, ZenonT(30) DEF Unstage, RotationLocals, Goto, IInv, TypeOK
  <2>2. BackToSnapshot'
    BY <1>2, <1>3, <1>4, <2>1 DEF BackToSnapshot, NobodyLive
  <2>3. OldGeneration'
    BY <1>1, <1>2, <1>4, <2>1 DEF OldGeneration
  <2>4. QED
    BY <1>1, <1>2, <1>4, <2>1, <2>2, <2>3 DEF ProgressOK, ReplacingOK, RestoringOK
<1>5. CASE Unstage(c) /\ ~(rot.consumersStopped /\ ~rot.rollbackFailed)
  <2>1. pc'[c] = "report" /\ pending' = FALSE /\ rot' = rot
    BY <1>5 DEF Unstage, Goto, IInv, TypeOK
  <2>2. (OldInPlace => OldInPlace') /\ (OldGeneration => OldGeneration')
    BY <1>1, <2>1 DEF OldInPlace, OldGeneration
  <2>3. QED
    BY <1>1, <1>2, <1>3, <1>5, <2>1, <2>2 DEF ProgressOK, ReplacingOK, RestoringOK
<1>6. CASE UnstageRaises(c)
  <2>1. /\ pc'[c] = "report" /\ rot'.rollbackFailed
        /\ rot'.old = rot.old /\ rot'.oldLegacy = rot.oldLegacy
        /\ rot'.consumersStopped = rot.consumersStopped
        /\ rot'.uncertain = rot.uncertain
    BY <1>6, StaysTyped DEF UnstageRaises, RotationLocals, Goto, IInv, TypeOK
  <2>2. OldInPlace => OldInPlace'
    BY <1>1, <2>1 DEF OldInPlace
  <2>3. QED
    BY <1>1, <1>2, <1>3, <2>1, <2>2 DEF ProgressOK, ReplacingOK, RestoringOK
<1>7. QED
  BY <1>4, <1>5, <1>6

(* A consumer runs again on the old generation, or all are to be stopped.  *)
LEMMA ReviveProgress ==
  ASSUME IInv, NEW c \in Cli, ProgressOK(c), ReviveConsumer(c) \/ Revived(c)
  PROVE  ProgressOK(c)'
<1>1. pc[c] = "revive" /\ UNCHANGED <<job, stable, pending, legacy>>
  BY DEF ReviveConsumer, Revived, secretVars
<1>2. /\ BackToSnapshot /\ OldGeneration /\ ~pending /\ ~rot.rollbackFailed
      /\ rot.consumersStopped /\ job[c].op = "rotate"
  BY <1>1 DEF ProgressOK, ReplacingOK, RestoringOK, RotationPC, Protected, PC
<1>3. CASE Revived(c)
  <2>1. pc'[c] = "report" /\ rot' = rot /\ rot.todo = {} /\ UNCHANGED <<tracked, proc>>
    BY <1>3 DEF Revived, procVars, Goto, IInv, TypeOK
  <2>2. ConsumerSetIsSnapshot'
    BY <1>2, <2>1, AllStarted DEF ConsumerSetIsSnapshot
  <2>3. OldGeneration'
    BY <1>1, <1>2, <2>1 DEF OldGeneration
  <2>4. QED
    BY <1>1, <1>2, <2>1, <2>2, <2>3 DEF ProgressOK, ReplacingOK, RestoringOK
<1>4. CASE \E k \in Consumer : /\ k \in rot.todo /\ Start(c, k, TRUE)
                               /\ rot' = [rot EXCEPT !.todo = @ \ {k}] /\ UNCHANGED pc
  <2>1. PICK k \in Consumer : /\ k \in rot.todo /\ Start(c, k, TRUE)
                              /\ rot' = [rot EXCEPT !.todo = @ \ {k}] /\ UNCHANGED pc
    BY <1>4
  <2>2. BackToSnapshot'
    BY <1>2, <2>1, OneMoreStarted
  <2>3. /\ rot'.old = rot.old /\ rot'.oldLegacy = rot.oldLegacy
        /\ rot'.consumersStopped = rot.consumersStopped
        /\ rot'.rollbackFailed = rot.rollbackFailed
    BY <2>1, StaysTyped DEF RotationLocals
  <2>4. OldGeneration'
    BY <1>1, <1>2, <2>3 DEF OldGeneration
  <2>5. QED
    BY <1>1, <1>2, <2>1, <2>2, <2>3, <2>4 DEF ProgressOK, ReplacingOK, RestoringOK
<1>5. CASE rot' = StopAll([rot EXCEPT !.rollbackFailed = TRUE]) /\ Goto(c, "contain")
  <2>1. pc'[c] = "contain" /\ rot'.rollbackFailed
        /\ rot'.consumersStopped = rot.consumersStopped
    BY <1>5, StaysTyped DEF StopAll, RotationLocals, Goto, IInv, TypeOK
  <2>2. QED
    BY <1>1, <1>2, <2>1 DEF ProgressOK, ReplacingOK, RestoringOK
<1>6. ASSUME ReviveConsumer(c)
      PROVE  \/ rot' = StopAll([rot EXCEPT !.rollbackFailed = TRUE]) /\ Goto(c, "contain")
             \/ \E k \in Consumer : /\ k \in rot.todo /\ Start(c, k, TRUE)
                                    /\ rot' = [rot EXCEPT !.todo = @ \ {k}] /\ UNCHANGED pc
  <2>1. PICK k \in Consumer, healthy \in BOOLEAN :
          /\ NextToStart(k) /\ Start(c, k, healthy)
          /\ IF healthy
             THEN rot' = [rot EXCEPT !.todo = @ \ {k}] /\ UNCHANGED pc
             ELSE /\ rot' = StopAll([rot EXCEPT !.rollbackFailed = TRUE])
                  /\ Goto(c, "contain")
    BY <1>6 DEF ReviveConsumer
  <2>2. k \in rot.todo
    BY <2>1 DEF NextToStart
  <2>3. CASE healthy = TRUE
    BY <2>1, <2>2, <2>3
  <2>4. CASE healthy = FALSE
    BY <2>1, <2>4
  <2>5. QED
    BY <2>3, <2>4
<1>7. QED
  BY <1>3, <1>4, <1>5, <1>6

(* A failed revival ends with every consumer stopped, or uncertain.        *)
LEMMA ContainProgress ==
  ASSUME IInv, RunningIsTracked, NEW c \in Cli, ProgressOK(c), ContainDone(c)
  PROVE  ProgressOK(c)'
<1>1. PICK uncertain \in {~AllStopped} \cup (IF Faults THEN {TRUE} ELSE {}) :
        /\ pc[c] = "contain"
        /\ rot' = [rot EXCEPT !.watched = {}, !.uncertain = uncertain]
        /\ Goto(c, "report") /\ UNCHANGED <<job, proc>>
  BY DEF ContainDone, procVars
<1>2. uncertain \in BOOLEAN /\ (~uncertain => AllStopped)
  BY <1>1
<1>3. /\ rot'.consumersStopped = rot.consumersStopped
      /\ rot'.rollbackFailed = rot.rollbackFailed /\ rot'.uncertain = uncertain
  BY <1>1, StaysTyped DEF RotationLocals
<1>4. pc'[c] = "report"
  BY <1>1 DEF Goto, IInv, TypeOK
<1>5. rot.consumersStopped /\ rot.rollbackFailed /\ job[c].op = "rotate"
  BY <1>1 DEF ProgressOK, ReplacingOK, RestoringOK, RotationPC, Protected, PC
<1>6. ~uncertain => NobodyLive'
  BY <1>1, <1>2, AllStoppedMeansNobody DEF NobodyLive
<1>7. QED
  BY <1>1, <1>2, <1>3, <1>4, <1>5, <1>6 DEF ProgressOK, ReplacingOK, RestoringOK

----------------------------------------------------------------------------
(* The reports of a rotation.                                              *)

(* Every step of a rotation goes on from what it has achieved.             *)
LEMMA RotationProgress ==
  ASSUME IInv, RunningIsTracked, NEW c \in Cli, \A d \in Cli : ProgressOK(d), RotationStep(c)
  PROVE  \A d \in Cli : ProgressOK(d)'
<1>1. rotLock = c
  <2>1. pc[c] \in {"rotate", "snapshot", "halt", "promote", "scrub", "restart"}
    BY DEF RotationStep, RefuseCandidate, Stage, StageRaises, TakeSnapshot, SnapshotRaises,
           HaltConsumer, HaltRaises, SaveStopped, Promote, PromoteRaises, ScrubLegacy,
           ScrubRaises, RestartConsumer, Complete, CompleteRaises
  <2>2. pc[c] \in Protected
    BY <2>1 DEF Protected, PC
  <2>3. QED
    BY <2>2 DEF IInv, CliInv, LockOK
<1>2. CASE RefuseCandidate(c) \/ Complete(c)
  BY <1>1, <1>2, EndProgress DEF RefuseCandidate, Complete, Leave, secretVars
<1>3. CASE \E v \in Value, b \in Backend : Stage(c, v, b) \/ StageRaises(c, v, b)
  <2>1. \A d \in Cli \ {c} : pc'[d] = pc[d]
    BY <1>3 DEF Stage, StageRaises, Goto, IInv, TypeOK
  <2>2. QED
    BY <1>1, <1>3, <2>1, StageProgress, HolderProgress
<1>4. CASE \/ TakeSnapshot(c) \/ SnapshotRaises(c) \/ HaltConsumer(c) \/ HaltRaises(c)
           \/ SaveStopped(c) \/ Promote(c) \/ PromoteRaises(c)
           \/ ScrubLegacy(c) \/ ScrubRaises(c) \/ RestartConsumer(c) \/ CompleteRaises(c)
  <2>1. \A d \in Cli \ {c} : pc'[d] = pc[d]
    BY <1>4 DEF TakeSnapshot, SnapshotRaises, HaltConsumer, HaltRaises, SaveStopped, Promote,
                PromoteRaises, ScrubLegacy, ScrubRaises, RestartConsumer, CompleteRaises,
                Raise, Goto, IInv, TypeOK
  <2>2. ProgressOK(c)'
    BY <1>4, SnapshotProgress, HaltProgress, PromoteProgress, ScrubProgress, RestartProgress
  <2>3. QED
    BY <1>1, <2>1, <2>2, HolderProgress
<1>5. QED
  BY <1>2, <1>3, <1>4 DEF RotationStep

(* So does every step of its rollback.                                     *)
LEMMA RollbackProgress ==
  ASSUME IInv, RunningIsTracked, NEW c \in Cli, \A d \in Cli : ProgressOK(d), RollbackStep(c)
  PROVE  \A d \in Cli : ProgressOK(d)'
<1>1. rotLock = c
  <2>1. pc[c] \in {"undo", "contain", "restore", "unstage", "revive", "report"}
    BY DEF RollbackStep, RollbackStop, RollbackStopRaises, UndoDone, RestoreGeneration,
           RestoreRaises, Unstage, UnstageRaises, ReviveConsumer, Revived, ContainDone, Report
  <2>2. pc[c] \in Protected
    BY <2>1 DEF Protected, PC
  <2>3. QED
    BY <2>2 DEF IInv, CliInv, LockOK
<1>2. CASE Report(c)
  BY <1>1, <1>2, EndProgress DEF Report, Leave, secretVars
<1>3. CASE \/ RollbackStop(c) \/ RollbackStopRaises(c) \/ UndoDone(c)
           \/ RestoreGeneration(c) \/ RestoreRaises(c) \/ Unstage(c) \/ UnstageRaises(c)
           \/ ReviveConsumer(c) \/ Revived(c) \/ ContainDone(c)
  <2>1. \A d \in Cli \ {c} : pc'[d] = pc[d]
    BY <1>3 DEF RollbackStop, RollbackStopRaises, UndoDone, RestoreGeneration, RestoreRaises,
                Unstage, UnstageRaises, ReviveConsumer, Revived, ContainDone, Goto, IInv, TypeOK
  <2>2. ProgressOK(c)'
    BY <1>3, RollbackStopProgress, UndoDoneProgress, RestoreProgress, UnstageProgress,
       ReviveProgress, ContainProgress
  <2>3. QED
    BY <1>1, <2>1, <2>2, HolderProgress
<1>4. QED
  BY <1>2, <1>3 DEF RollbackStep

(* And every other step of a command.                                      *)
LEMMA CliProgress ==
  ASSUME IInv, RunningIsTracked, NEW c \in Cli, \A d \in Cli : ProgressOK(d), CliStep(c)
  PROVE  \A d \in Cli : ProgressOK(d)'
<1>1. CASE TakeLock(c)
  <2>1. /\ rotLock = None /\ pc'[c] = job[c].op /\ job' = job
        /\ \A d \in Cli \ {c} : pc'[d] = pc[d]
    BY <1>1 DEF TakeLock, Goto, IInv, TypeOK
  <2>2. job[c].op \in {"start", "stop", "rotate"}
    BY <1>1, JobType DEF TakeLock, IInv, CliInv, JobOK
  <2>3. ProgressOK(c)'
    BY <2>1, <2>2 DEF ProgressOK, ReplacingOK, RestoringOK, RotationPC, Protected
  <2>4. QED
    BY <2>1, <2>3, HolderProgress
<1>2. CASE LockTimeout(c) \/ Finish(c)
  BY <1>2, EndProgress DEF LockTimeout, Finish, Leave, secretVars
<1>3. CASE ResolveKey(c) \/ Launch(c) \/ StopConsumer(c)
  <2>1. pc[c] \in Protected
    BY <1>3 DEF ResolveKey, Launch, StopConsumer, Protected, PC
  <2>2. rotLock = c
    BY <2>1 DEF IInv, CliInv, LockOK
  <2>3. pc'[c] \in {"launch", "other"} /\ \A d \in Cli \ {c} : pc'[d] = pc[d]
    BY <1>3 DEF ResolveKey, Launch, StopConsumer, Release, Goto, IInv, TypeOK
  <2>4. ProgressOK(c)'
    BY <2>3, IdleStep DEF RotationPC, Protected
  <2>5. QED
    BY <2>2, <2>3, <2>4, HolderProgress
<1>4. QED
  BY <1>1, <1>2, <1>3, RotationProgress, RollbackProgress DEF CliStep

(* So every step of the system.                                            *)
LEMMA NextProgress ==
  ASSUME ProgressInv, [Next]_vars
  PROVE  \A d \in Cli : ProgressOK(d)'
<1>1. IInv /\ RunningIsTracked /\ \A d \in Cli : ProgressOK(d)
  BY DEF ProgressInv
<1>2. ASSUME NEW c \in Cli, Crash(c)
      PROVE  \A d \in Cli : ProgressOK(d)'
  BY <1>1, <1>2, EndProgress DEF Crash, Leave, secretVars
<1>3. ASSUME NEW c \in Cli, NEW j \in Job, Begin(c, j)
      PROVE  \A d \in Cli : ProgressOK(d)'
  <2>1. /\ OthersKeep(c) /\ pc'[c] = "waiting"
        /\ UNCHANGED <<tracked, proc, stable, pending, legacy, rot>>
    BY <1>1, <1>3 DEF Begin, Goto, OthersKeep, procVars, secretVars, IInv, TypeOK
  <2>2. pc'[c] \notin RotationPC
    BY <2>1 DEF RotationPC, Protected
  <2>3. QED
    BY <1>1, <2>1, <2>2, OutsiderProgress
<1>4. ASSUME NEW k \in Consumer, ProcessExits(k)
      PROVE  \A d \in Cli : ProgressOK(d)'
  <2>1. Ended(k).st # "live"
    BY <1>1, EndedType DEF IInv
  <2>2. \A l \in Consumer : proc'[l].st = "live" => proc[l].st = "live"
    BY <1>1, <1>4, <2>1, StaysTyped DEF ProcessExits
  <2>3. QED
    BY <1>1, <1>4, <2>2, CalmStep DEF ProcessExits, cliVars, secretVars
<1>5. ASSUME UNCHANGED vars
      PROVE  \A d \in Cli : ProgressOK(d)'
  BY <1>1, <1>5, CalmStep DEF vars
<1>6. QED
  BY <1>1, <1>2, <1>3, <1>4, <1>5, CliProgress DEF Next

(* A rotation is always where its step says.                               *)
LEMMA ProgressAlways == Spec => []ProgressInv
<1> DEFINE Progress == \A c \in Cli : ProgressOK(c)
<1>1. Init => Progress
  <2>1. ASSUME Init, NEW c \in Cli
        PROVE  ProgressOK(c)
    BY <2>1 DEF Init, ProgressOK, ReplacingOK, RestoringOK, RotationPC, Protected
  <2>2. QED
    BY <2>1
<1>2. ASSUME IInv, RunningIsTracked, Progress, [Next]_vars
      PROVE  Progress'
  BY <1>2, NextProgress DEF ProgressInv
<1>3. IInv /\ RunningIsTracked /\ Progress => ProgressInv
  BY DEF ProgressInv
<1> HIDE DEF Progress
<1>4. QED
  BY <1>1, <1>2, <1>3, IInvAlways, RunningStaysTracked, PTL DEF Spec

(* A command that ends at these steps completes a rotation, reports that   *)
(* of a rollback, or is killed.                                            *)
LEMMA EndOfRotation ==
  ASSUME ProgressInv, [Next]_vars, NEW c \in Cli, pc[c] \in {"restart", "report"},
         pc'[c] = "idle"
  PROVE  Complete(c) \/ Report(c) \/ report' = "crashed"
<1>1. rotLock = c /\ job[c].op = "rotate" /\ pc \in [Cli -> PC]
  BY DEF ProgressInv, ProgressOK, ReplacingOK, RotationPC, IInv, CliInv, LockOK, TypeOK,
         Protected, PC
<1>2. ASSUME NEW d \in Cli, CliStep(d)
      PROVE  Complete(c) \/ Report(c)
  <2>1. d = c
    <3>1. pc' = [pc EXCEPT ![d] = pc'[d]]
      <4>1. ASSUME NEW label, Goto(d, label)
            PROVE  pc' = [pc EXCEPT ![d] = pc'[d]]
        BY <1>1, <4>1 DEF Goto
      <4>2. CASE UNCHANGED pc
        BY <1>1, <4>2
      <4>3. (\E label : Goto(d, label)) \/ UNCHANGED pc
        BY <1>2 DEF CliStep, TakeLock, LockTimeout, ResolveKey, Launch, StopConsumer, Finish,
             RotationStep, RefuseCandidate, Stage, StageRaises, TakeSnapshot, SnapshotRaises,
             HaltConsumer, HaltRaises, SaveStopped, Promote, PromoteRaises, ScrubLegacy,
             ScrubRaises, RestartConsumer, Complete, CompleteRaises, RollbackStep,
             RollbackStop, RollbackStopRaises, UndoDone, RestoreGeneration, RestoreRaises,
             Unstage, UnstageRaises, ReviveConsumer, Revived, ContainDone, Report,
             Raise, Release, Leave, EndCommand
      <4>4. QED
        BY <4>1, <4>2, <4>3
    <3>2. QED
      BY <1>1, <3>1
  <2>2. CASE RotationStep(c)
    BY <1>1, <2>2 DEF RotationStep, RefuseCandidate, Stage, StageRaises, TakeSnapshot,
         SnapshotRaises, HaltConsumer, HaltRaises, SaveStopped, Promote, PromoteRaises,
         ScrubLegacy, ScrubRaises, RestartConsumer, CompleteRaises, Raise, Goto
  <2>3. CASE RollbackStep(c)
    BY <1>1, <2>3 DEF RollbackStep, RollbackStop, RollbackStopRaises, UndoDone,
         RestoreGeneration, RestoreRaises, Unstage, UnstageRaises, ReviveConsumer, Revived,
         ContainDone, Goto
  <2>4. ~(TakeLock(c) \/ LockTimeout(c) \/ ResolveKey(c) \/ Launch(c) \/ StopConsumer(c)
          \/ Finish(c))
    BY DEF TakeLock, LockTimeout, ResolveKey, Launch, StopConsumer, Finish
  <2>5. QED
    BY <1>2, <2>1, <2>2, <2>3, <2>4 DEF CliStep
<1>3. ASSUME NEW d \in Cli, Crash(d)
      PROVE  report' = "crashed"
  BY <1>1, <1>3 DEF Crash, Leave, EndCommand, Goto
<1>4. ASSUME NEW d \in Cli, NEW j \in Job, Begin(d, j)
      PROVE  FALSE
  BY <1>1, <1>4 DEF Begin, Goto
<1>5. ASSUME NEW k \in Consumer, ProcessExits(k)
      PROVE  FALSE
  BY <1>5 DEF ProcessExits, cliVars
<1>6. CASE UNCHANGED vars
  BY <1>6 DEF vars
<1>7. QED
  BY <1>2, <1>3, <1>4, <1>5, <1>6 DEF Next

(* A rotation that ends with success is complete, and at the step after    *)
(* the last start.                                                         *)
LEMMA SuccessEnd ==
  ASSUME ProgressInv, [Next]_vars, NEW c \in Cli, Ends(c, "rotated")
  PROVE  /\ NewInPlace /\ legacy = NoLegacy /\ ConsumerSetIsSnapshot /\ ~pending'
<1>1. Complete(c)
  <2>1. Outcome # "rotated"
    BY DEF Outcome
  <2>2. QED
    BY <2>1, EndOfRotation DEF Ends, Report
<1>2. pc[c] = "restart" /\ rot.todo = {} /\ pending' = FALSE
  BY <1>1 DEF Complete
<1>3. NewInPlace /\ legacy = NoLegacy /\ BackToSnapshot
  BY <1>2 DEF ProgressInv, ProgressOK, ReplacingOK
<1>4. QED
  BY <1>2, <1>3, AllStarted

(* A rotation that fails ends with the report of its rollback.             *)
LEMMA FailureEnd ==
  ASSUME ProgressInv, [Next]_vars, NEW c \in Cli, NEW outcome, Ends(c, outcome),
         outcome \in {"restored", "stopped", "unchanged"}
  PROVE  pc[c] = "report" /\ outcome = Outcome
  BY EndOfRotation DEF Ends, Complete, Report

(* A rotation that reports success has promoted the new key, left no       *)
(* staged copy and no env file with a key, and restarted exactly the       *)
(* consumers that were running (update_secret of spark.bridge_api_key).    *)
THEOREM RotationSuccess == Spec => SuccessIsComplete
<1> DEFINE Whole(c) ==
      /\ Fetch(stable) = rot.candidate
      /\ ~pending'
      /\ \A k \in Consumer : legacy[k] = None
      /\ ConsumerSetIsSnapshot
<1>1. ASSUME ProgressInv, [Next]_vars, NEW c \in Cli, Ends(c, "rotated")
      PROVE  Whole(c)
  BY <1>1, SuccessEnd DEF NewInPlace, NoLegacy
<1>2. ProgressInv /\ [Next]_vars => [\A c \in Cli : Ends(c, "rotated") => Whole(c)]_vars
  BY <1>1
<1>3. QED
  BY <1>2, ProgressAlways, PTL DEF Spec, SuccessIsComplete

(* It leaves the key it replaced in neither backend, unless a stray copy   *)
(* was there before.                                                       *)
THEOREM RotationLeavesNoCopy == Spec => NoSupersededCopy
<1> DEFINE Clean(c) == \A b \in Backend :
             b = rot.old.index \/ rot.old[b] = None => stable[b] \in {None, rot.candidate}
<1>1. ASSUME ProgressInv, [Next]_vars, NEW c \in Cli, Ends(c, "rotated")
      PROVE  Clean(c)
  BY <1>1, SuccessEnd DEF NewInPlace
<1>2. ProgressInv /\ [Next]_vars => [\A c \in Cli : Ends(c, "rotated") => Clean(c)]_vars
  BY <1>1
<1>3. QED
  BY <1>2, ProgressAlways, PTL DEF Spec, NoSupersededCopy

(* A rotation that fails reports truly what it left behind, whichever of   *)
(* its calls raised and however far it had come.                           *)
THEOREM RotationFailure == Spec => FailureIsTruthful
<1> DEFINE Truthful(c) ==
      /\ Ends(c, "restored") =>
           /\ Fetch(stable) = Fetch(rot.old) /\ legacy = rot.oldLegacy
           /\ ~pending
           /\ rot.consumersStopped => ConsumerSetIsSnapshot
      /\ Ends(c, "stopped") => \A k \in Consumer : proc[k].st # "live"
      /\ Ends(c, "unchanged") => stable = rot.old /\ legacy = rot.oldLegacy
<1>1. ASSUME ProgressInv, [Next]_vars, NEW c \in Cli
      PROVE  Truthful(c)
  <2>1. ProgressOK(c)
    BY <1>1 DEF ProgressInv
  <2>2. rot.rollbackFailed \in BOOLEAN /\ rot.uncertain \in BOOLEAN
        /\ rot.consumersStopped \in BOOLEAN
    BY <1>1 DEF ProgressInv, IInv, TypeOK, RotationLocals
  <2>3. ASSUME Ends(c, "restored")
        PROVE  /\ Fetch(stable) = Fetch(rot.old) /\ legacy = rot.oldLegacy
               /\ ~pending
               /\ rot.consumersStopped => ConsumerSetIsSnapshot
    <3>1. pc[c] = "report" /\ ~rot.rollbackFailed
      BY <1>1, <2>2, <2>3, FailureEnd DEF Outcome
    <3>2. QED
      BY <2>1, <3>1 DEF ProgressOK, RestoringOK, OldGeneration
  <2>4. ASSUME Ends(c, "stopped")
        PROVE  \A k \in Consumer : proc[k].st # "live"
    <3>1. /\ pc[c] = "report" /\ rot.rollbackFailed /\ ~rot.uncertain /\ rot.consumersStopped
      BY <1>1, <2>2, <2>4, FailureEnd DEF Outcome
    <3>2. QED
      BY <2>1, <3>1 DEF ProgressOK, RestoringOK, NobodyLive
  <2>5. ASSUME Ends(c, "unchanged")
        PROVE  stable = rot.old /\ legacy = rot.oldLegacy
    <3>1. pc[c] = "report" /\ ~rot.consumersStopped
      BY <1>1, <2>2, <2>5, FailureEnd DEF Outcome
    <3>2. QED
      BY <2>1, <3>1 DEF ProgressOK, RestoringOK, OldInPlace
  <2>6. QED
    BY <2>3, <2>4, <2>5
<1>2. ProgressInv /\ [Next]_vars => [\A c \in Cli : Truthful(c)]_vars
  BY <1>1
<1>3. QED
  BY <1>2, ProgressAlways, PTL DEF Spec, FailureIsTruthful

=============================================================================
