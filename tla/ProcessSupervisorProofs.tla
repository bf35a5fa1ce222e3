---------------------- MODULE ProcessSupervisorProofs ----------------------
(***************************************************************************)
(* Theorems about ProcessSupervisor for every set of keys, invocations,    *)
(* process ids and plans.                                                  *)
(***************************************************************************)
EXTENDS ProcessSupervisor, SequenceTheorems, TLAPS

USE KeyAssumption, NoneAssumption, PlanAssumption

----------------------------------------------------------------------------
(* The head of a non-empty work list is an operation on a key.             *)
LEMMA HeadIsOp ==
  ASSUME TypeOK, NEW c \in Cli, todo[c] # <<>>
  PROVE  /\ CurrentKey(c) \in Key
         /\ CurrentOp(c) \in {"stop", "remove", "start"}
         /\ Tail(todo[c]) \in Seq(Op)
<1>1. todo[c] \in Seq(Op)
  BY DEF TypeOK
<1>2. Head(todo[c]) \in Op /\ Tail(todo[c]) \in Seq(Op)
  BY <1>1, HeadTailProperties
<1>3. QED
  BY <1>2 DEF CurrentKey, CurrentOp, Op

(* A work list of several operations is not exhausted by one of them.     *)
LEMMA TailNotEmpty ==
  ASSUME NEW s \in Seq(Op), Len(s) > 1
  PROVE  Tail(s) # <<>>
<1>1. Len(s) \in Nat
  BY LenProperties
<1>2. s # <<>> /\ Len(<<>>) = 0
  BY EmptySeq
<1>3. Len(Tail(s)) = Len(s) - 1
  BY <1>2, HeadTailProperties
<1>4. Len(Tail(s)) # Len(<<>>)
  BY <1>1, <1>2, <1>3
<1>5. QED
  BY <1>4

(* A process that ends becomes a zombie or disappears.                     *)
LEMMA ExitStatusType ==
  ASSUME NEW p
  PROVE  ExitStatus(p) \in Status \ {"unused", "live", "doomed", "foreign"}
  BY DEF ExitStatus, Status

(* Processes may end and ports become free: nothing starts or takes over.  *)
ProcessesOnlyEnd ==
  /\ st' \in [Pid -> Status]
  /\ port' \in [Key -> Pid \cup {None}]
  /\ \A p \in Pid : (st'[p] = "live" => st[p] = "live")
                    /\ (st'[p] = "unused" <=> st[p] = "unused")
  /\ \A k \in Key : port'[k] \in {port[k], None}

(* What the end of a process does to the processes and the ports.          *)
LEMMA ExitEffect ==
  ASSUME TypeOK, NEW p \in Pid, st[p] # "unused", Exits(p)
  PROVE  /\ st' \in [Pid -> Status]
         /\ port' \in [Key -> Pid \cup {None}]
         /\ \A q \in Pid : q # p => st'[q] = st[q]
         /\ st'[p] \notin {"live", "unused"}
         /\ \A k \in Key : port'[k] \in {port[k], None}
<1>1. ExitStatus(p) \in Status \ {"unused", "live", "doomed", "foreign"}
  BY ExitStatusType
<1>2. QED
  BY <1>1 DEF Exits, TypeOK, Status

(* What a signal may do to the processes and the ports.                    *)
LEMMA SignalEffect ==
  ASSUME TypeOK, NEW p \in Pid, st[p] # "unused", Signal(p)
  PROVE  /\ st' \in [Pid -> Status]
         /\ port' \in [Key -> Pid \cup {None}]
         /\ \A q \in Pid : q # p => st'[q] = st[q]
         /\ st'[p] \notin {"live", "unused"}
         /\ \A k \in Key : port'[k] \in {port[k], None}
<1>1. CASE Exits(p)
  BY <1>1, ExitEffect
<1>2. CASE st' = [st EXCEPT ![p] = "doomed"] /\ UNCHANGED port
  BY <1>2 DEF TypeOK, Status
<1>3. CASE st[p] \notin {"live", "doomed", "foreign"} /\ UNCHANGED <<st, port>>
  BY <1>3 DEF TypeOK, Status
<1>4. QED
  BY <1>1, <1>2, <1>3 DEF Signal

(* What survives when processes only end: what every reference refers to,  *)
(* and that no record names a live process.                                *)
LEMMA EndsPreserve ==
  ASSUME TypeOK, ReferenceInv, ProcessesOnlyEnd, UNCHANGED <<registry, keyOf>>
  PROVE  /\ ReferenceInv'
         /\ \A p, k : IsFor(p, k) => IsFor(p, k)'
         /\ \A k \in Key : NoRecordOfLive(k) => NoRecordOfLive(k)'
<1>1. \A p, k : IsFor(p, k) => IsFor(p, k)'
  BY DEF ProcessesOnlyEnd, IsFor
<1>2. ASSUME NEW k \in Key
      PROVE  /\ (registry[k] # None => IsFor(registry[k], k))'
             /\ (port[k] # None => IsFor(port[k], k))'
  <2>1. port'[k] \in {port[k], None}
    BY DEF ProcessesOnlyEnd
  <2>2. /\ registry[k] # None => IsFor(registry[k], k)
        /\ port[k] # None => IsFor(port[k], k)
    BY DEF ReferenceInv
  <2>3. QED
    BY <1>1, <2>1, <2>2 DEF IsFor
<1>3. \A p \in Pid : st'[p] # "unused" => keyOf'[p] \in Key
  BY DEF ProcessesOnlyEnd, ReferenceInv
<1>4. ReferenceInv'
  BY <1>2, <1>3 DEF ReferenceInv
<1>5. \A k \in Key : NoRecordOfLive(k) => NoRecordOfLive(k)'
  BY DEF ProcessesOnlyEnd, NoRecordOfLive, ReferenceInv, IsFor
<1>6. QED
  BY <1>1, <1>4, <1>5

(* What the end of a command does: only its own control state, its locks   *)
(* and its children change, and no process is started or stopped.          *)
LEMMA LeaveEffect ==
  ASSUME TypeOK, NEW c \in Cli, Leave(c)
  PROVE  /\ pc' \in [Cli -> PC] /\ pc'[c] = "idle"
         /\ todo' \in [Cli -> Seq(Op)]
         /\ launched' \in [Cli -> Pid \cup {None}]
         /\ runtime' \in [Cli -> Pid \cup {None}]
         /\ ok' \in [Cli -> BOOLEAN]
         /\ \A d \in Cli \ {c} :
              /\ pc'[d] = pc[d] /\ todo'[d] = todo[d]
              /\ launched'[d] = launched[d] /\ runtime'[d] = runtime[d]
         /\ pidLock' \in {pidLock, None} /\ (pidLock # c => pidLock' = pidLock)
         /\ rotLock' \in {rotLock, None} /\ (rotLock # c => rotLock' = rotLock)
         /\ st' \in [Pid -> Status]
         /\ \A p \in Pid : (st'[p] = "live" <=> st[p] = "live")
                            /\ (st'[p] = "unused" <=> st[p] = "unused")
         /\ parent' \in [Pid -> Cli \cup {None}]
         /\ UNCHANGED <<registry, keyOf, port>>
<1>1. <<>> \in Seq(Op)
  OBVIOUS
<1>2. pc' \in [Cli -> PC] /\ pc'[c] = "idle" /\ \A d \in Cli \ {c} : pc'[d] = pc[d]
  BY DEF Leave, Goto, TypeOK, PC
<1>3. todo' \in [Cli -> Seq(Op)] /\ \A d \in Cli \ {c} : todo'[d] = todo[d]
  BY <1>1 DEF Leave, TypeOK
<1>4. st' \in [Pid -> Status]
      /\ \A p \in Pid : (st'[p] = "live" <=> st[p] = "live")
                         /\ (st'[p] = "unused" <=> st[p] = "unused")
  BY DEF Leave, TypeOK, Status
<1>5. QED
  BY <1>2, <1>3, <1>4 DEF Leave, TypeOK

----------------------------------------------------------------------------
(* A command that takes the rotation lock becomes its only holder.         *)
LEMMA TakeRotationLockStep ==
  ASSUME IInv, NEW c \in Cli, TakeRotationLock(c)
  PROVE  IInv'
<1> USE DEF IInv
<1>0. CurrentKey(c) \in Key
  BY HeadIsOp DEF TakeRotationLock, WorkInv, Busy
<1>1. TypeOK'
  BY <1>0 DEF TakeRotationLock, Dispatch, Goto, osVars, TypeOK, PC, StopPC, LaunchPC, WatchPC, Status
<1>2. WorkInv'
  BY <1>0 DEF TakeRotationLock, Dispatch, Goto, osVars, TypeOK, WorkInv, Busy
<1>3. LockInv'
  BY <1>0 DEF TakeRotationLock, Dispatch, Goto, osVars, TypeOK, LockInv, LaunchPC, WatchPC, Busy, NeedsRotationLock, CurrentKey, CurrentOp
<1>4. ReferenceInv'
  BY <1>0 DEF TakeRotationLock, Dispatch, Goto, osVars, TypeOK, ReferenceInv, IsFor, StartInv, WatchPC
<1>5. StopInv'
  BY <1>0 DEF TakeRotationLock, Dispatch, Goto, osVars, TypeOK, StopInv, LockInv, LaunchPC, NoRecordOfLive, CurrentKey
<1>6. StartInv'
  BY <1>0 DEF TakeRotationLock, Dispatch, Goto, osVars, TypeOK, StartInv, LockInv, NoRecordOfLive, IsFor, LaunchPC, WatchPC, CurrentKey
<1>7. StartOwnsBridgeRecord'
  BY <1>0 DEF TakeRotationLock, Dispatch, Goto, osVars, TypeOK, StartOwnsBridgeRecord, LockInv, Busy, NeedsRotationLock, OwnsRecord, LaunchPC, WatchPC, CurrentKey
<1>8. LiveIsTracked'
  BY <1>0 DEF TakeRotationLock, Dispatch, Goto, osVars, TypeOK, LiveIsTracked, StartInv, StopInv, NoRecordOfLive, LockInv, LaunchPC, WatchPC, CurrentKey
<1>9. QED
  BY <1>1, <1>2, <1>3, <1>4, <1>5, <1>6, <1>7, <1>8

(* An operation on a key that is no bridge consumer needs no rotation lock. *)
LEMMA NoRotationLockStep ==
  ASSUME IInv, NEW c \in Cli, NoRotationLock(c)
  PROVE  IInv'
<1> USE DEF IInv
<1>0. CurrentKey(c) \in Key
  BY HeadIsOp DEF NoRotationLock, WorkInv, Busy
<1>1. TypeOK'
  BY <1>0 DEF NoRotationLock, Dispatch, Goto, osVars, lockVars, TypeOK, PC, StopPC, LaunchPC, WatchPC, Status
<1>2. WorkInv'
  BY <1>0 DEF NoRotationLock, Dispatch, Goto, osVars, lockVars, TypeOK, WorkInv, Busy
<1>3. LockInv'
  BY <1>0 DEF NoRotationLock, Dispatch, Goto, osVars, lockVars, TypeOK, LockInv, LaunchPC, WatchPC, Busy, NeedsRotationLock, CurrentKey, CurrentOp
<1>4. ReferenceInv'
  BY <1>0 DEF NoRotationLock, Dispatch, Goto, osVars, lockVars, TypeOK, ReferenceInv, IsFor, StartInv, WatchPC
<1>5. StopInv'
  BY <1>0 DEF NoRotationLock, Dispatch, Goto, osVars, lockVars, TypeOK, StopInv, LockInv, LaunchPC, NoRecordOfLive, CurrentKey
<1>6. StartInv'
  BY <1>0 DEF NoRotationLock, Dispatch, Goto, osVars, lockVars, TypeOK, StartInv, LockInv, NoRecordOfLive, IsFor, LaunchPC, WatchPC, CurrentKey
<1>7. StartOwnsBridgeRecord'
  BY <1>0 DEF NoRotationLock, Dispatch, Goto, osVars, lockVars, TypeOK, StartOwnsBridgeRecord, LockInv, Busy, NeedsRotationLock, OwnsRecord, LaunchPC, WatchPC, CurrentKey
<1>8. LiveIsTracked'
  BY <1>0 DEF NoRotationLock, Dispatch, Goto, osVars, lockVars, TypeOK, LiveIsTracked, StartInv, StopInv, NoRecordOfLive, LockInv, LaunchPC, WatchPC, CurrentKey
<1>9. QED
  BY <1>1, <1>2, <1>3, <1>4, <1>5, <1>6, <1>7, <1>8

(* A command goes on with its next target and keeps the lock if it needs it. *)
LEMMA ReturnStep ==
  ASSUME IInv, NEW c \in Cli, Return(c)
  PROVE  IInv'
<1> USE DEF IInv
<1>0. CurrentKey(c) \in Key
  BY HeadIsOp DEF Return, WorkInv, Busy
<1>a. todo[c] \in Seq(Op) /\ todo[c] # <<>> /\ Tail(todo[c]) \in Seq(Op)
  BY HeadIsOp DEF Return, WorkInv, Busy, TypeOK
<1>b. Len(todo[c]) > 1 => Tail(todo[c]) # <<>>
  BY <1>a, TailNotEmpty
<1>1. TypeOK'
  BY <1>0, <1>a DEF Return, Goto, osVars, KeepsRotationLock, TypeOK, PC, StopPC, LaunchPC, WatchPC, Status
<1>2. WorkInv'
  BY <1>0, <1>a, <1>b DEF Return, Goto, osVars, KeepsRotationLock, TypeOK, WorkInv, Busy
<1>3. LockInv'
  BY <1>0 DEF Return, Goto, osVars, KeepsRotationLock, TypeOK, LockInv, LaunchPC, WatchPC, Busy, NeedsRotationLock, CurrentKey, CurrentOp
<1>4. ReferenceInv'
  BY <1>0 DEF Return, Goto, osVars, KeepsRotationLock, TypeOK, ReferenceInv, IsFor, StartInv, WatchPC
<1>5. StopInv'
  BY <1>0 DEF Return, Goto, osVars, KeepsRotationLock, TypeOK, StopInv, LockInv, LaunchPC, NoRecordOfLive, CurrentKey
<1>6. StartInv'
  BY <1>0 DEF Return, Goto, osVars, KeepsRotationLock, TypeOK, StartInv, LockInv, NoRecordOfLive, IsFor, LaunchPC, WatchPC, CurrentKey
<1>7. StartOwnsBridgeRecord'
  BY <1>0 DEF Return, Goto, osVars, KeepsRotationLock, TypeOK, StartOwnsBridgeRecord, LockInv, Busy, NeedsRotationLock, OwnsRecord, LaunchPC, WatchPC, CurrentKey
<1>8. LiveIsTracked'
  BY <1>0, ZenonT(30) DEF Return, Goto, osVars, KeepsRotationLock, TypeOK, LiveIsTracked, StartInv, StopInv, NoRecordOfLive, LockInv, LaunchPC, WatchPC, CurrentKey
<1>9. QED
  BY <1>1, <1>2, <1>3, <1>4, <1>5, <1>6, <1>7, <1>8

(* A stop that finds nothing running drops the record and no live process. *)
LEMMA BeginStopStep ==
  ASSUME IInv, NEW c \in Cli, BeginStop(c)
  PROVE  IInv'
<1> USE DEF IInv
<1>0. CurrentKey(c) \in Key
  BY HeadIsOp DEF BeginStop, WorkInv, Busy
<1>1. TypeOK'
  BY <1>0, ZenonT(30) DEF BeginStop, Goto, osVars, Running, TypeOK, PC, StopPC, LaunchPC, WatchPC, Status
<1>2. WorkInv'
  BY <1>0 DEF BeginStop, Goto, osVars, Running, TypeOK, WorkInv, Busy
<1>3. LockInv'
  BY <1>0 DEF BeginStop, Goto, osVars, Running, TypeOK, LockInv, LaunchPC, WatchPC, Busy, NeedsRotationLock, CurrentKey, CurrentOp
<1>4. ReferenceInv'
  <2> DEFINE k == CurrentKey(c)
  <2>1. registry' = registry \/ registry' = [registry EXCEPT ![k] = None]
    BY DEF BeginStop
  <2>2. UNCHANGED <<st, keyOf, port>>
    BY DEF BeginStop, osVars
  <2>3. QED
    BY <1>0, <2>1, <2>2, ZenonT(30) DEF TypeOK, ReferenceInv, IsFor
<1>5. StopInv'
  BY <1>0 DEF BeginStop, Goto, osVars, Running, TypeOK, StopInv, LockInv, LaunchPC, NoRecordOfLive, CurrentKey
<1>6. StartInv'
  BY <1>0 DEF BeginStop, Goto, osVars, Running, TypeOK, StartInv, LockInv, NoRecordOfLive, IsFor, LaunchPC, WatchPC, CurrentKey
<1>7. StartOwnsBridgeRecord'
  <2> DEFINE k == CurrentKey(c)
  <2>1. /\ UNCHANGED <<todo, launched>>
        /\ \A d \in Cli \ {c} : pc'[d] = pc[d]
        /\ pc'[c] \in {"kill", "returned"}
    BY DEF BeginStop, Goto, TypeOK
  <2>2. \A j \in Key \ {k} : registry'[j] = registry[j]
    BY <1>0 DEF BeginStop, TypeOK
  <2>3. k \in BridgeKey => rotLock = c
    BY DEF BeginStop, LockInv, Busy, NeedsRotationLock
  <2>4. ASSUME NEW d \in Cli \ {c}, pc[d] \in WatchPC, CurrentKey(d) \in BridgeKey
        PROVE  registry'[CurrentKey(d)] = registry[CurrentKey(d)]
    <3>1. rotLock = d
      BY <2>4 DEF LockInv, Busy, NeedsRotationLock, WatchPC
    <3>2. CurrentKey(d) # k
      BY <3>1, <2>3, <2>4
    <3>3. QED
      BY <3>2, <2>2, <2>4
  <2>5. QED
    BY <2>1, <2>4 DEF StartOwnsBridgeRecord, OwnsRecord, WatchPC, CurrentKey
<1>8. LiveIsTracked'
  <2> DEFINE k == CurrentKey(c)
  <2>1. /\ UNCHANGED <<st, keyOf, untracked, launched>>
        /\ \A d \in Cli \ {c} : pc'[d] = pc[d]
        /\ pc[c] # "record"
    BY DEF BeginStop, Goto, osVars, TypeOK
  <2>2. \A p \in Pid : st[p] = "live" /\ registry[keyOf[p]] = p => registry'[keyOf[p]] = p
    BY <1>0 DEF BeginStop, Running, ReferenceInv, TypeOK
  <2>3. QED
    BY <2>1, <2>2 DEF LiveIsTracked
<1>9. QED
  BY <1>1, <1>2, <1>3, <1>4, <1>5, <1>6, <1>7, <1>8

(* The record that goes names a process that was ended.                    *)
LEMMA PopRecordStep ==
  ASSUME IInv, NEW c \in Cli, PopRecord(c)
  PROVE  IInv'
<1> USE DEF IInv
<1>0. CurrentKey(c) \in Key
  BY HeadIsOp DEF PopRecord, WorkInv, Busy
<1>1. TypeOK'
  BY <1>0 DEF PopRecord, Goto, osVars, TypeOK, PC, StopPC, LaunchPC, WatchPC, Status
<1>2. WorkInv'
  BY <1>0 DEF PopRecord, Goto, osVars, TypeOK, WorkInv, Busy
<1>3. LockInv'
  BY <1>0 DEF PopRecord, Goto, osVars, TypeOK, LockInv, LaunchPC, WatchPC, Busy, NeedsRotationLock, CurrentKey, CurrentOp
<1>4. ReferenceInv'
  BY <1>0 DEF PopRecord, Goto, osVars, TypeOK, ReferenceInv, IsFor, StartInv, WatchPC
<1>5. StopInv'
  BY <1>0 DEF PopRecord, Goto, osVars, TypeOK, StopInv, LockInv, LaunchPC, NoRecordOfLive, CurrentKey
<1>6. StartInv'
  BY <1>0 DEF PopRecord, Goto, osVars, TypeOK, StartInv, LockInv, NoRecordOfLive, IsFor, LaunchPC, WatchPC, CurrentKey
<1>7. StartOwnsBridgeRecord'
  BY <1>0 DEF PopRecord, Goto, osVars, TypeOK, StartOwnsBridgeRecord, LockInv, Busy, NeedsRotationLock, OwnsRecord, LaunchPC, WatchPC, CurrentKey
<1>8. LiveIsTracked'
  BY <1>0 DEF PopRecord, Goto, osVars, TypeOK, LiveIsTracked, StartInv, StopInv, NoRecordOfLive, LockInv, LaunchPC, WatchPC, CurrentKey
<1>9. QED
  BY <1>1, <1>2, <1>3, <1>4, <1>5, <1>6, <1>7, <1>8

(* A start that finds nothing running holds the registry lock from there.  *)
LEMMA BeginStartStep ==
  ASSUME IInv, NEW c \in Cli, BeginStart(c)
  PROVE  IInv'
<1> USE DEF IInv
<1>0. CurrentKey(c) \in Key
  BY HeadIsOp DEF BeginStart, WorkInv, Busy
<1>1. TypeOK'
  BY <1>0 DEF BeginStart, Goto, ReturnFromStart, osVars, Running, TypeOK, PC, StopPC, LaunchPC, WatchPC, Status
<1>2. WorkInv'
  BY <1>0 DEF BeginStart, Goto, ReturnFromStart, osVars, Running, TypeOK, WorkInv, Busy
<1>3. LockInv'
  BY <1>0 DEF BeginStart, Goto, ReturnFromStart, osVars, Running, TypeOK, LockInv, LaunchPC, WatchPC, Busy, NeedsRotationLock, CurrentKey, CurrentOp
<1>4. ReferenceInv'
  BY <1>0 DEF BeginStart, Goto, ReturnFromStart, osVars, Running, TypeOK, ReferenceInv, IsFor, StartInv, WatchPC
<1>5. StopInv'
  BY <1>0 DEF BeginStart, Goto, ReturnFromStart, osVars, Running, TypeOK, StopInv, LockInv, LaunchPC, NoRecordOfLive, CurrentKey
<1>6. StartInv'
  BY <1>0 DEF BeginStart, Goto, ReturnFromStart, osVars, Running, TypeOK, StartInv, LockInv, NoRecordOfLive, IsFor, LaunchPC, WatchPC, CurrentKey
<1>7. StartOwnsBridgeRecord'
  BY <1>0 DEF BeginStart, Goto, ReturnFromStart, osVars, Running, TypeOK, StartOwnsBridgeRecord, LockInv, Busy, NeedsRotationLock, OwnsRecord, LaunchPC, WatchPC, CurrentKey
<1>8. LiveIsTracked'
  BY <1>0 DEF BeginStart, Goto, ReturnFromStart, osVars, Running, TypeOK, LiveIsTracked, StartInv, StopInv, NoRecordOfLive, LockInv, LaunchPC, WatchPC, CurrentKey
<1>9. QED
  BY <1>1, <1>2, <1>3, <1>4, <1>5, <1>6, <1>7, <1>8

(* A failed Popen leaves the registry as it was.                           *)
LEMMA SpawnFailsStep ==
  ASSUME IInv, NEW c \in Cli, SpawnFails(c)
  PROVE  IInv'
<1> USE DEF IInv
<1>0. CurrentKey(c) \in Key
  BY HeadIsOp DEF SpawnFails, WorkInv, Busy
<1>1. TypeOK'
  BY <1>0 DEF SpawnFails, Goto, ReturnFromStart, osVars, TypeOK, PC, StopPC, LaunchPC, WatchPC, Status
<1>2. WorkInv'
  BY <1>0 DEF SpawnFails, Goto, ReturnFromStart, osVars, TypeOK, WorkInv, Busy
<1>3. LockInv'
  BY <1>0 DEF SpawnFails, Goto, ReturnFromStart, osVars, TypeOK, LockInv, LaunchPC, WatchPC, Busy, NeedsRotationLock, CurrentKey, CurrentOp
<1>4. ReferenceInv'
  BY <1>0 DEF SpawnFails, Goto, ReturnFromStart, osVars, TypeOK, ReferenceInv, IsFor, StartInv, WatchPC
<1>5. StopInv'
  BY <1>0 DEF SpawnFails, Goto, ReturnFromStart, osVars, TypeOK, StopInv, LockInv, LaunchPC, NoRecordOfLive, CurrentKey
<1>6. StartInv'
  BY <1>0 DEF SpawnFails, Goto, ReturnFromStart, osVars, TypeOK, StartInv, LockInv, NoRecordOfLive, IsFor, LaunchPC, WatchPC, CurrentKey
<1>7. StartOwnsBridgeRecord'
  BY <1>0 DEF SpawnFails, Goto, ReturnFromStart, osVars, TypeOK, StartOwnsBridgeRecord, LockInv, Busy, NeedsRotationLock, OwnsRecord, LaunchPC, WatchPC, CurrentKey
<1>8. LiveIsTracked'
  BY <1>0 DEF SpawnFails, Goto, ReturnFromStart, osVars, TypeOK, LiveIsTracked, StartInv, StopInv, NoRecordOfLive, LockInv, LaunchPC, WatchPC, CurrentKey
<1>9. QED
  BY <1>1, <1>2, <1>3, <1>4, <1>5, <1>6, <1>7, <1>8

(* The save replaces the record of a process that no longer lives.         *)
LEMMA RecordSpawnStep ==
  ASSUME IInv, NEW c \in Cli, RecordSpawn(c)
  PROVE  IInv'
<1> USE DEF IInv
<1>0. CurrentKey(c) \in Key
  BY HeadIsOp DEF RecordSpawn, WorkInv, Busy
<1>1. TypeOK'
  BY <1>0 DEF RecordSpawn, Goto, osVars, TypeOK, PC, StopPC, LaunchPC, WatchPC, Status
<1>2. WorkInv'
  BY <1>0 DEF RecordSpawn, Goto, osVars, TypeOK, WorkInv, Busy
<1>3. LockInv'
  BY <1>0 DEF RecordSpawn, Goto, osVars, TypeOK, LockInv, LaunchPC, WatchPC, Busy, NeedsRotationLock, CurrentKey, CurrentOp
<1>4. ReferenceInv'
  BY <1>0 DEF RecordSpawn, Goto, osVars, TypeOK, ReferenceInv, IsFor, StartInv, WatchPC
<1>5. StopInv'
  BY <1>0 DEF RecordSpawn, Goto, osVars, TypeOK, StopInv, LockInv, LaunchPC, NoRecordOfLive, CurrentKey
<1>6. StartInv'
  BY <1>0 DEF RecordSpawn, Goto, osVars, TypeOK, StartInv, LockInv, NoRecordOfLive, IsFor, LaunchPC, WatchPC, CurrentKey
<1>7. StartOwnsBridgeRecord'
  BY <1>0 DEF RecordSpawn, Goto, osVars, TypeOK, StartOwnsBridgeRecord, LockInv, Busy, NeedsRotationLock, OwnsRecord, LaunchPC, WatchPC, CurrentKey
<1>8. LiveIsTracked'
  <2> DEFINE k == CurrentKey(c)
  <2>1. /\ UNCHANGED <<st, keyOf, untracked, launched>>
        /\ pidLock = c /\ pc[c] = "record"
        /\ registry' = [registry EXCEPT ![k] = launched[c]]
        /\ \A d \in Cli \ {c} : pc'[d] = pc[d]
    BY DEF RecordSpawn, Goto, osVars, TypeOK, LockInv, LaunchPC
  <2>2. \A d \in Cli : pc[d] = "record" => d = c
    BY <2>1 DEF LockInv, LaunchPC
  <2>3. IsFor(launched[c], k) /\ NoRecordOfLive(k)
    BY <2>1 DEF StartInv, LaunchPC
  <2>4. ASSUME NEW p \in Pid, st[p] = "live", p \notin untracked
        PROVE  registry'[keyOf[p]] = p
    <3>1. registry[keyOf[p]] = p \/ p = launched[c]
      BY <2>2, <2>4 DEF LiveIsTracked
    <3>2. p = launched[c] => registry'[keyOf[p]] = p
      BY <1>0, <2>1, <2>3 DEF IsFor, TypeOK
    <3>3. registry[keyOf[p]] = p /\ p # launched[c] => keyOf[p] # k
      BY <2>3, <2>4 DEF NoRecordOfLive, TypeOK
    <3>4. QED
      BY <3>1, <3>2, <3>3, <2>1 DEF TypeOK
  <2>5. QED
    BY <2>1, <2>4 DEF LiveIsTracked
<1>9. QED
  BY <1>1, <1>2, <1>3, <1>4, <1>5, <1>6, <1>7, <1>8

(* A readiness answer changes no process and no record.                    *)
LEMMA ReadyCheckPassesStep ==
  ASSUME IInv, NEW c \in Cli, ReadyCheckPasses(c)
  PROVE  IInv'
<1> USE DEF IInv
<1>0. CurrentKey(c) \in Key
  BY HeadIsOp DEF ReadyCheckPasses, WorkInv, Busy
<1>1. TypeOK'
  BY <1>0 DEF ReadyCheckPasses, Goto, osVars, lockVars, TypeOK, PC, StopPC, LaunchPC, WatchPC, Status
<1>2. WorkInv'
  BY <1>0 DEF ReadyCheckPasses, Goto, osVars, lockVars, TypeOK, WorkInv, Busy
<1>3. LockInv'
  BY <1>0 DEF ReadyCheckPasses, Goto, osVars, lockVars, TypeOK, LockInv, LaunchPC, WatchPC, Busy, NeedsRotationLock, CurrentKey, CurrentOp
<1>4. ReferenceInv'
  BY <1>0 DEF ReadyCheckPasses, Goto, osVars, lockVars, TypeOK, ReferenceInv, IsFor, StartInv, WatchPC
<1>5. StopInv'
  BY <1>0 DEF ReadyCheckPasses, Goto, osVars, lockVars, TypeOK, StopInv, LockInv, LaunchPC, NoRecordOfLive, CurrentKey
<1>6. StartInv'
  BY <1>0 DEF ReadyCheckPasses, Goto, osVars, lockVars, TypeOK, StartInv, LockInv, NoRecordOfLive, IsFor, LaunchPC, WatchPC, CurrentKey
<1>7. StartOwnsBridgeRecord'
  BY <1>0 DEF ReadyCheckPasses, Goto, osVars, lockVars, TypeOK, StartOwnsBridgeRecord, LockInv, Busy, NeedsRotationLock, OwnsRecord, LaunchPC, WatchPC, CurrentKey
<1>8. LiveIsTracked'
  BY <1>0 DEF ReadyCheckPasses, Goto, osVars, lockVars, TypeOK, LiveIsTracked, StartInv, StopInv, NoRecordOfLive, LockInv, LaunchPC, WatchPC, CurrentKey
<1>9. QED
  BY <1>1, <1>2, <1>3, <1>4, <1>5, <1>6, <1>7, <1>8

(* A start that gives up waiting leaves its process recorded.              *)
LEMMA ReadyCheckTimesOutStep ==
  ASSUME IInv, NEW c \in Cli, ReadyCheckTimesOut(c)
  PROVE  IInv'
<1> USE DEF IInv
<1>0. CurrentKey(c) \in Key
  BY HeadIsOp DEF ReadyCheckTimesOut, WorkInv, Busy
<1>1. TypeOK'
  BY <1>0 DEF ReadyCheckTimesOut, Goto, ReturnFromStart, osVars, lockVars, TypeOK, PC, StopPC, LaunchPC, WatchPC, Status
<1>2. WorkInv'
  BY <1>0 DEF ReadyCheckTimesOut, Goto, ReturnFromStart, osVars, lockVars, TypeOK, WorkInv, Busy
<1>3. LockInv'
  BY <1>0 DEF ReadyCheckTimesOut, Goto, ReturnFromStart, osVars, lockVars, TypeOK, LockInv, LaunchPC, WatchPC, Busy, NeedsRotationLock, CurrentKey, CurrentOp
<1>4. ReferenceInv'
  BY <1>0 DEF ReadyCheckTimesOut, Goto, ReturnFromStart, osVars, lockVars, TypeOK, ReferenceInv, IsFor, StartInv, WatchPC
<1>5. StopInv'
  BY <1>0 DEF ReadyCheckTimesOut, Goto, ReturnFromStart, osVars, lockVars, TypeOK, StopInv, LockInv, LaunchPC, NoRecordOfLive, CurrentKey
<1>6. StartInv'
  BY <1>0 DEF ReadyCheckTimesOut, Goto, ReturnFromStart, osVars, lockVars, TypeOK, StartInv, LockInv, NoRecordOfLive, IsFor, LaunchPC, WatchPC, CurrentKey
<1>7. StartOwnsBridgeRecord'
  BY <1>0 DEF ReadyCheckTimesOut, Goto, ReturnFromStart, osVars, lockVars, TypeOK, StartOwnsBridgeRecord, LockInv, Busy, NeedsRotationLock, OwnsRecord, LaunchPC, WatchPC, CurrentKey
<1>8. LiveIsTracked'
  BY <1>0 DEF ReadyCheckTimesOut, Goto, ReturnFromStart, osVars, lockVars, TypeOK, LiveIsTracked, StartInv, StopInv, NoRecordOfLive, LockInv, LaunchPC, WatchPC, CurrentKey
<1>9. QED
  BY <1>1, <1>2, <1>3, <1>4, <1>5, <1>6, <1>7, <1>8

(* Reaping the launched child frees no record of a live process.           *)
LEMMA ChildExitedStep ==
  ASSUME IInv, NEW c \in Cli, ChildExited(c)
  PROVE  IInv'
<1> USE DEF IInv
<1>0. CurrentKey(c) \in Key
  BY HeadIsOp DEF ChildExited, WorkInv, Busy
<1>1. TypeOK'
  BY <1>0 DEF ChildExited, Goto, lockVars, TypeOK, PC, StopPC, LaunchPC, WatchPC, Status
<1>2. WorkInv'
  BY <1>0 DEF ChildExited, Goto, lockVars, TypeOK, WorkInv, Busy
<1>3. LockInv'
  BY <1>0, ZenonT(30) DEF ChildExited, Goto, lockVars, TypeOK, LockInv, LaunchPC, WatchPC, Busy, NeedsRotationLock, CurrentKey, CurrentOp
<1>4. ReferenceInv'
  BY <1>0 DEF ChildExited, Goto, lockVars, TypeOK, ReferenceInv, IsFor, StartInv, WatchPC
<1>5. StopInv'
  BY <1>0 DEF ChildExited, Goto, lockVars, TypeOK, StopInv, LockInv, LaunchPC, NoRecordOfLive, CurrentKey
<1>6. StartInv'
  BY <1>0 DEF ChildExited, Goto, lockVars, TypeOK, StartInv, LockInv, NoRecordOfLive, IsFor, LaunchPC, WatchPC, CurrentKey
<1>7. StartOwnsBridgeRecord'
  BY <1>0 DEF ChildExited, Goto, lockVars, TypeOK, StartOwnsBridgeRecord, LockInv, Busy, NeedsRotationLock, OwnsRecord, LaunchPC, WatchPC, CurrentKey
<1>8. LiveIsTracked'
  BY <1>0 DEF ChildExited, Goto, lockVars, TypeOK, LiveIsTracked, StartInv, StopInv, NoRecordOfLive, LockInv, LaunchPC, WatchPC, CurrentKey
<1>9. QED
  BY <1>1, <1>2, <1>3, <1>4, <1>5, <1>6, <1>7, <1>8

(* Accepting the launched process changes no record.                       *)
LEMMA AcceptLaunchedStep ==
  ASSUME IInv, NEW c \in Cli, AcceptLaunched(c)
  PROVE  IInv'
<1> USE DEF IInv
<1>0. CurrentKey(c) \in Key
  BY HeadIsOp DEF AcceptLaunched, WorkInv, Busy
<1>1. TypeOK'
  BY <1>0 DEF AcceptLaunched, Goto, ReturnFromStart, osVars, lockVars, TypeOK, PC, StopPC, LaunchPC, WatchPC, Status
<1>2. WorkInv'
  BY <1>0 DEF AcceptLaunched, Goto, ReturnFromStart, osVars, lockVars, TypeOK, WorkInv, Busy
<1>3. LockInv'
  BY <1>0 DEF AcceptLaunched, Goto, ReturnFromStart, osVars, lockVars, TypeOK, LockInv, LaunchPC, WatchPC, Busy, NeedsRotationLock, CurrentKey, CurrentOp
<1>4. ReferenceInv'
  BY <1>0 DEF AcceptLaunched, Goto, ReturnFromStart, osVars, lockVars, TypeOK, ReferenceInv, IsFor, StartInv, WatchPC
<1>5. StopInv'
  BY <1>0 DEF AcceptLaunched, Goto, ReturnFromStart, osVars, lockVars, TypeOK, StopInv, LockInv, LaunchPC, NoRecordOfLive, CurrentKey
<1>6. StartInv'
  BY <1>0 DEF AcceptLaunched, Goto, ReturnFromStart, osVars, lockVars, TypeOK, StartInv, LockInv, NoRecordOfLive, IsFor, LaunchPC, WatchPC, CurrentKey
<1>7. StartOwnsBridgeRecord'
  BY <1>0 DEF AcceptLaunched, Goto, ReturnFromStart, osVars, lockVars, TypeOK, StartOwnsBridgeRecord, LockInv, Busy, NeedsRotationLock, OwnsRecord, LaunchPC, WatchPC, CurrentKey
<1>8. LiveIsTracked'
  BY <1>0 DEF AcceptLaunched, Goto, ReturnFromStart, osVars, lockVars, TypeOK, LiveIsTracked, StartInv, StopInv, NoRecordOfLive, LockInv, LaunchPC, WatchPC, CurrentKey
<1>9. QED
  BY <1>1, <1>2, <1>3, <1>4, <1>5, <1>6, <1>7, <1>8

(* The listener found belongs to the key that was launched.                *)
LEMMA AdoptListenerStep ==
  ASSUME IInv, NEW c \in Cli, AdoptListener(c)
  PROVE  IInv'
<1> USE DEF IInv
<1>0. CurrentKey(c) \in Key
  BY HeadIsOp DEF AdoptListener, WorkInv, Busy
<1>1. TypeOK'
  BY <1>0 DEF AdoptListener, Goto, osVars, lockVars, ListenerAdopted, ListenerConflict, Running, TypeOK, PC, StopPC, LaunchPC, WatchPC, Status
<1>2. WorkInv'
  BY <1>0 DEF AdoptListener, Goto, osVars, lockVars, ListenerAdopted, ListenerConflict, Running, TypeOK, WorkInv, Busy
<1>3. LockInv'
  BY <1>0 DEF AdoptListener, Goto, osVars, lockVars, ListenerAdopted, ListenerConflict, Running, TypeOK, LockInv, LaunchPC, WatchPC, Busy, NeedsRotationLock, CurrentKey, CurrentOp
<1>4. ReferenceInv'
  BY <1>0 DEF AdoptListener, Goto, osVars, lockVars, ListenerAdopted, ListenerConflict, Running, TypeOK, ReferenceInv, IsFor, StartInv, WatchPC
<1>5. StopInv'
  BY <1>0 DEF AdoptListener, Goto, osVars, lockVars, ListenerAdopted, ListenerConflict, Running, TypeOK, StopInv, LockInv, LaunchPC, NoRecordOfLive, CurrentKey
<1>6. StartInv'
  <2> DEFINE k == CurrentKey(c)
  <2>1. /\ UNCHANGED <<registry, st, keyOf, todo, launched>>
        /\ pc' = [pc EXCEPT ![c] = "retrack"] /\ pc[c] = "verify"
        /\ runtime' = [runtime EXCEPT ![c] = port[k]]
    BY DEF AdoptListener, Goto, osVars
  <2>2. IsFor(port[k], k)
    BY <1>0 DEF AdoptListener, ListenerAdopted, Running, ReferenceInv, TypeOK
  <2>3. IsFor(launched[c], k) /\ st[launched[c]] # "live"
    BY <2>1 DEF AdoptListener, ListenerAdopted, Running, StartInv, WatchPC, IsFor
  <2>4. QED
    BY <2>1, <2>2, <2>3 DEF StartInv, NoRecordOfLive, IsFor, TypeOK, LaunchPC, WatchPC, CurrentKey
<1>7. StartOwnsBridgeRecord'
  BY <1>0 DEF AdoptListener, Goto, osVars, lockVars, ListenerAdopted, ListenerConflict, Running, TypeOK, StartOwnsBridgeRecord, LockInv, Busy, NeedsRotationLock, OwnsRecord, LaunchPC, WatchPC, CurrentKey
<1>8. LiveIsTracked'
  BY <1>0 DEF AdoptListener, Goto, osVars, lockVars, ListenerAdopted, ListenerConflict, Running, TypeOK, LiveIsTracked, StartInv, StopInv, NoRecordOfLive, LockInv, LaunchPC, WatchPC, CurrentKey
<1>9. QED
  BY <1>1, <1>2, <1>3, <1>4, <1>5, <1>6, <1>7, <1>8

(* The record moves from the launcher that ended to the runtime it left.   *)
LEMMA RetrackStep ==
  ASSUME IInv, NEW c \in Cli, Retrack(c)
  PROVE  IInv'
<1> USE DEF IInv
<1>0. CurrentKey(c) \in Key
  BY HeadIsOp DEF Retrack, WorkInv, Busy
<1>1. TypeOK'
  BY <1>0 DEF Retrack, Goto, ReturnFromStart, osVars, lockVars, OwnsRecord, TypeOK, PC, StopPC, LaunchPC, WatchPC, Status
<1>2. WorkInv'
  BY <1>0 DEF Retrack, Goto, ReturnFromStart, osVars, lockVars, OwnsRecord, TypeOK, WorkInv, Busy
<1>3. LockInv'
  BY <1>0 DEF Retrack, Goto, ReturnFromStart, osVars, lockVars, OwnsRecord, TypeOK, LockInv, LaunchPC, WatchPC, Busy, NeedsRotationLock, CurrentKey, CurrentOp
<1>4. ReferenceInv'
  <2>1. IsFor(runtime[c], CurrentKey(c))
    BY DEF Retrack, StartInv
  <2>2. \/ registry' = registry
        \/ registry' = [registry EXCEPT ![CurrentKey(c)] = runtime[c]]
    BY DEF Retrack
  <2>3. UNCHANGED <<st, keyOf, port>>
    BY DEF Retrack, osVars
  <2>4. QED
    BY <1>0, <2>1, <2>2, <2>3 DEF ReferenceInv, IsFor, TypeOK
<1>5. StopInv'
  BY <1>0 DEF Retrack, Goto, ReturnFromStart, osVars, lockVars, OwnsRecord, TypeOK, StopInv, LockInv, LaunchPC, NoRecordOfLive, CurrentKey
<1>6. StartInv'
  BY <1>0 DEF Retrack, Goto, ReturnFromStart, osVars, lockVars, OwnsRecord, TypeOK, StartInv, LockInv, NoRecordOfLive, IsFor, LaunchPC, WatchPC, CurrentKey
<1>7. StartOwnsBridgeRecord'
  BY <1>0 DEF Retrack, Goto, ReturnFromStart, osVars, lockVars, OwnsRecord, TypeOK, StartOwnsBridgeRecord, LockInv, Busy, NeedsRotationLock, OwnsRecord, LaunchPC, WatchPC, CurrentKey
<1>8. LiveIsTracked'
  <2> DEFINE k == CurrentKey(c)
  <2>1. /\ UNCHANGED <<st, keyOf, launched>>
        /\ pc[c] = "retrack" /\ \A d \in Cli \ {c} : pc'[d] = pc[d]
    BY DEF Retrack, ReturnFromStart, Goto, osVars, TypeOK
  <2>2. CASE ~OwnsRecord(c)
    BY <2>1, <2>2 DEF Retrack, LiveIsTracked
  <2>3. CASE OwnsRecord(c)
    <3>1. registry' = [registry EXCEPT ![k] = runtime[c]] /\ untracked' = untracked \ {runtime[c]}
      BY <2>3 DEF Retrack
    <3>2. IsFor(runtime[c], k) /\ NoRecordOfLive(k)
      BY <2>1, <2>3 DEF StartInv, OwnsRecord, NoRecordOfLive
    <3>3. ASSUME NEW p \in Pid, st[p] = "live", p \notin untracked'
          PROVE  registry'[keyOf[p]] = p \/ \E d \in Cli : pc'[d] = "record" /\ launched[d] = p
      <4>1. CASE p = runtime[c]
        BY <1>0, <3>1, <3>2, <4>1 DEF IsFor, TypeOK
      <4>2. CASE p # runtime[c]
        <5>1. p \notin untracked
          BY <3>1, <3>3, <4>2
        <5>2. CASE registry[keyOf[p]] = p
          <6>1. keyOf[p] # k
            BY <3>2, <3>3, <5>2 DEF NoRecordOfLive, TypeOK
          <6>2. QED
            BY <3>1, <5>2, <6>1 DEF TypeOK
        <5>3. CASE \E d \in Cli : pc[d] = "record" /\ launched[d] = p
          BY <2>1, <5>3
        <5>4. QED
          BY <3>3, <5>1, <5>2, <5>3 DEF LiveIsTracked
      <4>3. QED
        BY <4>1, <4>2
    <3>4. QED
      BY <2>1, <3>3 DEF LiveIsTracked
  <2>4. QED
    BY <2>2, <2>3
<1>9. QED
  BY <1>1, <1>2, <1>3, <1>4, <1>5, <1>6, <1>7, <1>8

(* A failed start removes its own record only, of a process that ended.    *)
LEMMA DropOwnRecordStep ==
  ASSUME IInv, NEW c \in Cli, DropOwnRecord(c)
  PROVE  IInv'
<1> USE DEF IInv
<1>0. CurrentKey(c) \in Key
  BY HeadIsOp DEF DropOwnRecord, WorkInv, Busy
<1>1. TypeOK'
  BY <1>0 DEF DropOwnRecord, Goto, ReturnFromStart, osVars, lockVars, OwnsRecord, TypeOK, PC, StopPC, LaunchPC, WatchPC, Status
<1>2. WorkInv'
  BY <1>0 DEF DropOwnRecord, Goto, ReturnFromStart, osVars, lockVars, OwnsRecord, TypeOK, WorkInv, Busy
<1>3. LockInv'
  BY <1>0 DEF DropOwnRecord, Goto, ReturnFromStart, osVars, lockVars, OwnsRecord, TypeOK, LockInv, LaunchPC, WatchPC, Busy, NeedsRotationLock, CurrentKey, CurrentOp
<1>4. ReferenceInv'
  BY <1>0 DEF DropOwnRecord, Goto, ReturnFromStart, osVars, lockVars, OwnsRecord, TypeOK, ReferenceInv, IsFor, StartInv, WatchPC
<1>5. StopInv'
  BY <1>0 DEF DropOwnRecord, Goto, ReturnFromStart, osVars, lockVars, OwnsRecord, TypeOK, StopInv, LockInv, LaunchPC, NoRecordOfLive, CurrentKey
<1>6. StartInv'
  BY <1>0 DEF DropOwnRecord, Goto, ReturnFromStart, osVars, lockVars, OwnsRecord, TypeOK, StartInv, LockInv, NoRecordOfLive, IsFor, LaunchPC, WatchPC, CurrentKey
<1>7. StartOwnsBridgeRecord'
  BY <1>0 DEF DropOwnRecord, Goto, ReturnFromStart, osVars, lockVars, OwnsRecord, TypeOK, StartOwnsBridgeRecord, LockInv, Busy, NeedsRotationLock, OwnsRecord, LaunchPC, WatchPC, CurrentKey
<1>8. LiveIsTracked'
  BY <1>0 DEF DropOwnRecord, Goto, ReturnFromStart, osVars, lockVars, OwnsRecord, TypeOK, LiveIsTracked, StartInv, StopInv, NoRecordOfLive, LockInv, LaunchPC, WatchPC, CurrentKey
<1>9. QED
  BY <1>1, <1>2, <1>3, <1>4, <1>5, <1>6, <1>7, <1>8

(* Ending the recorded process leaves no live process recorded for its key. *)
LEMMA KillTrackedStep ==
  ASSUME IInv, NEW c \in Cli, KillTracked(c)
  PROVE  IInv'
<1> USE DEF IInv
<1>0. CurrentKey(c) \in Key
  BY HeadIsOp DEF KillTracked, WorkInv, Busy
<1>a. LET p == registry[CurrentKey(c)] IN p \in Pid /\ st[p] # "unused"
  BY <1>0 DEF KillTracked, StopInv, ReferenceInv, IsFor
<1>b. ProcessesOnlyEnd /\ st'[registry[CurrentKey(c)]] # "live"
  BY <1>a, SignalEffect DEF KillTracked, ProcessesOnlyEnd
<1>c. UNCHANGED <<registry, keyOf, todo, launched, runtime, untracked>>
  BY DEF KillTracked
<1>d. /\ ReferenceInv'
      /\ \A p, k : IsFor(p, k) => IsFor(p, k)'
      /\ \A k \in Key : NoRecordOfLive(k) => NoRecordOfLive(k)'
  BY <1>b, <1>c, EndsPreserve
<1>e. \A d \in Cli : Busy(d) => CurrentKey(d) \in Key
  BY HeadIsOp DEF WorkInv
<1>f. \A d \in Cli : CurrentKey(d)' = CurrentKey(d)
  BY <1>c DEF CurrentKey
<1>g. /\ pc[c] = "kill" /\ pc'[c] = "pop"
      /\ \A d \in Cli \ {c} : pc'[d] = pc[d]
  BY DEF KillTracked, Goto, TypeOK, PC, StopPC, LaunchPC, WatchPC
<1>1. TypeOK'
  BY <1>0, <1>b DEF ProcessesOnlyEnd, KillTracked, Goto, lockVars, TypeOK, PC, StopPC, LaunchPC, WatchPC, Status
<1>2. WorkInv'
  BY <1>0 DEF KillTracked, Goto, lockVars, TypeOK, WorkInv, Busy
<1>3. LockInv'
  BY <1>0 DEF KillTracked, Goto, lockVars, TypeOK, LockInv, LaunchPC, WatchPC, Busy, NeedsRotationLock, CurrentKey, CurrentOp
<1>4. ReferenceInv'
  BY <1>d
<1>5. StopInv'
  <2>1. \A d \in Cli : pc'[d] \in {"kill", "pop"} => registry'[CurrentKey(d)'] # None
    BY <1>c, <1>f, <1>g DEF StopInv
  <2>2. ASSUME NEW d \in Cli, pc'[d] = "pop"
        PROVE  NoRecordOfLive(CurrentKey(d))'
    <3>1. CASE d = c
      BY <1>b, <1>c, <1>f, <3>1 DEF NoRecordOfLive
    <3>2. CASE d # c
      BY <1>d, <1>e, <1>f, <1>g, <2>2, <3>2 DEF StopInv, Busy
    <3>3. QED
      BY <3>1, <3>2
  <2>3. QED
    BY <2>1, <2>2 DEF StopInv
<1>6. StartInv'
  <2>1. ASSUME NEW d \in Cli, pc'[d] \in LaunchPC
        PROVE  NoRecordOfLive(CurrentKey(d))'
    BY <1>d, <1>e, <1>f, <1>g, <2>1 DEF StartInv, Busy, LaunchPC
  <2>2. ASSUME NEW d \in Cli, pc'[d] \in WatchPC \cup {"record"}
        PROVE  /\ IsFor(launched[d], CurrentKey(d)) /\ IsFor(launched[d], CurrentKey(d))'
               /\ pc'[d] \in {"drop", "retrack"} => st'[launched[d]] # "live"
    <3>1. pc[d] \in WatchPC \cup {"record"}
      BY <1>g, <2>2 DEF WatchPC
    <3>2. IsFor(launched[d], CurrentKey(d)) /\ IsFor(launched[d], CurrentKey(d))'
      BY <1>c, <1>d, <1>f, <3>1 DEF StartInv, IsFor
    <3>3. QED
      BY <1>b, <1>g, <3>2 DEF StartInv, ProcessesOnlyEnd, IsFor
  <2>3. ASSUME NEW d \in Cli, pc'[d] = "retrack"
        PROVE  IsFor(runtime[d], CurrentKey(d))'
    BY <1>c, <1>d, <1>f, <1>g, <2>3 DEF StartInv, IsFor
  <2>4. QED
    BY <1>c, <2>1, <2>2, <2>3 DEF StartInv, IsFor, WatchPC
<1>7. StartOwnsBridgeRecord'
  BY <1>0 DEF KillTracked, Goto, lockVars, TypeOK, StartOwnsBridgeRecord, LockInv, Busy, NeedsRotationLock, OwnsRecord, LaunchPC, WatchPC, CurrentKey
<1>8. LiveIsTracked'
  BY <1>b, <1>c, <1>g DEF ProcessesOnlyEnd, LiveIsTracked
<1>9. QED
  BY <1>1, <1>2, <1>3, <1>4, <1>5, <1>6, <1>7, <1>8

(* Clearing the relay port only ends processes.                            *)
LEMMA ClearRelayPortStep ==
  ASSUME IInv, NEW c \in Cli, ClearRelayPort(c)
  PROVE  IInv'
<1> USE DEF IInv
<1>0. CurrentKey(c) \in Key
  BY HeadIsOp DEF ClearRelayPort, WorkInv, Busy
<1>a. port[CurrentKey(c)] # None
         => port[CurrentKey(c)] \in Pid /\ st[port[CurrentKey(c)]] # "unused"
  BY <1>0 DEF ReferenceInv, IsFor
<1>b. ProcessesOnlyEnd
  <2>1. CASE port[CurrentKey(c)] = None
    BY <2>1 DEF ClearRelayPort, ProcessesOnlyEnd, TypeOK
  <2>2. CASE port[CurrentKey(c)] # None
    BY <1>a, <2>2, SignalEffect DEF ClearRelayPort, ProcessesOnlyEnd
  <2>3. QED
    BY <2>1, <2>2
<1>c. UNCHANGED <<registry, keyOf, todo, launched, runtime, untracked>>
  BY DEF ClearRelayPort
<1>d. /\ ReferenceInv'
      /\ \A p, k : IsFor(p, k) => IsFor(p, k)'
      /\ \A k \in Key : NoRecordOfLive(k) => NoRecordOfLive(k)'
  BY <1>b, <1>c, EndsPreserve
<1>e. \A d \in Cli : Busy(d) => CurrentKey(d) \in Key
  BY HeadIsOp DEF WorkInv
<1>f. \A d \in Cli : CurrentKey(d)' = CurrentKey(d)
  BY <1>c DEF CurrentKey
<1>g. /\ pc[c] = "clear" /\ pc'[c] = "spawn"
      /\ \A d \in Cli \ {c} : pc'[d] = pc[d]
  BY DEF ClearRelayPort, Goto, TypeOK, PC, StopPC, LaunchPC, WatchPC
<1>1. TypeOK'
  BY <1>0, <1>b DEF ProcessesOnlyEnd, ClearRelayPort, Goto, lockVars, TypeOK, PC, StopPC, LaunchPC, WatchPC, Status
<1>2. WorkInv'
  BY <1>0 DEF ClearRelayPort, Goto, lockVars, TypeOK, WorkInv, Busy
<1>3. LockInv'
  BY <1>0 DEF ClearRelayPort, Goto, lockVars, TypeOK, LockInv, LaunchPC, WatchPC, Busy, NeedsRotationLock, CurrentKey, CurrentOp
<1>4. ReferenceInv'
  BY <1>d
<1>5. StopInv'
  <2>1. \A d \in Cli : pc'[d] \in {"kill", "pop"} => registry'[CurrentKey(d)'] # None
    BY <1>c, <1>f, <1>g DEF StopInv
  <2>2. ASSUME NEW d \in Cli, pc'[d] = "pop"
        PROVE  NoRecordOfLive(CurrentKey(d))'
    BY <1>d, <1>e, <1>f, <1>g, <2>2 DEF StopInv, Busy
  <2>3. QED
    BY <2>1, <2>2 DEF StopInv
<1>6. StartInv'
  <2>1. ASSUME NEW d \in Cli, pc'[d] \in LaunchPC
        PROVE  NoRecordOfLive(CurrentKey(d))'
    BY <1>d, <1>e, <1>f, <1>g, <2>1 DEF StartInv, Busy, LaunchPC
  <2>2. ASSUME NEW d \in Cli, pc'[d] \in WatchPC \cup {"record"}
        PROVE  /\ IsFor(launched[d], CurrentKey(d)) /\ IsFor(launched[d], CurrentKey(d))'
               /\ pc'[d] \in {"drop", "retrack"} => st'[launched[d]] # "live"
    <3>1. pc[d] \in WatchPC \cup {"record"}
      BY <1>g, <2>2 DEF WatchPC
    <3>2. IsFor(launched[d], CurrentKey(d)) /\ IsFor(launched[d], CurrentKey(d))'
      BY <1>c, <1>d, <1>f, <3>1 DEF StartInv, IsFor
    <3>3. QED
      BY <1>b, <1>g, <3>2 DEF StartInv, ProcessesOnlyEnd, IsFor
  <2>3. ASSUME NEW d \in Cli, pc'[d] = "retrack"
        PROVE  IsFor(runtime[d], CurrentKey(d))'
    BY <1>c, <1>d, <1>f, <1>g, <2>3 DEF StartInv, IsFor
  <2>4. QED
    BY <1>c, <2>1, <2>2, <2>3 DEF StartInv, IsFor, WatchPC
<1>7. StartOwnsBridgeRecord'
  BY <1>0 DEF ClearRelayPort, Goto, lockVars, TypeOK, StartOwnsBridgeRecord, LockInv, Busy, NeedsRotationLock, OwnsRecord, LaunchPC, WatchPC, CurrentKey
<1>8. LiveIsTracked'
  BY <1>b, <1>c, <1>g DEF ProcessesOnlyEnd, LiveIsTracked
<1>9. QED
  BY <1>1, <1>2, <1>3, <1>4, <1>5, <1>6, <1>7, <1>8

(* A start refused for a stale listener ends the process it launched.      *)
LEMMA RefuseStaleListenerStep ==
  ASSUME IInv, NEW c \in Cli, RefuseStaleListener(c)
  PROVE  IInv'
<1> USE DEF IInv
<1>0. CurrentKey(c) \in Key
  BY HeadIsOp DEF RefuseStaleListener, WorkInv, Busy
<1>a. launched[c] \in Pid /\ st[launched[c]] # "unused"
  BY DEF RefuseStaleListener, StartInv, IsFor, WatchPC
<1>b. ProcessesOnlyEnd /\ st'[launched[c]] # "live"
  BY <1>a, SignalEffect DEF RefuseStaleListener, ProcessesOnlyEnd
<1>c. UNCHANGED <<registry, keyOf, todo, launched, runtime, untracked>>
  BY DEF RefuseStaleListener
<1>d. /\ ReferenceInv'
      /\ \A p, k : IsFor(p, k) => IsFor(p, k)'
      /\ \A k \in Key : NoRecordOfLive(k) => NoRecordOfLive(k)'
  BY <1>b, <1>c, EndsPreserve
<1>e. \A d \in Cli : Busy(d) => CurrentKey(d) \in Key
  BY HeadIsOp DEF WorkInv
<1>f. \A d \in Cli : CurrentKey(d)' = CurrentKey(d)
  BY <1>c DEF CurrentKey
<1>g. /\ pc[c] = "verify" /\ pc'[c] = "drop"
      /\ \A d \in Cli \ {c} : pc'[d] = pc[d]
  BY DEF RefuseStaleListener, Goto, TypeOK, PC, StopPC, LaunchPC, WatchPC
<1>1. TypeOK'
  BY <1>0, <1>b DEF ProcessesOnlyEnd, RefuseStaleListener, Goto, lockVars, TypeOK, PC, StopPC, LaunchPC, WatchPC, Status
<1>2. WorkInv'
  BY <1>0 DEF RefuseStaleListener, Goto, lockVars, TypeOK, WorkInv, Busy
<1>3. LockInv'
  BY <1>0 DEF RefuseStaleListener, Goto, lockVars, TypeOK, LockInv, LaunchPC, WatchPC, Busy, NeedsRotationLock, CurrentKey, CurrentOp
<1>4. ReferenceInv'
  BY <1>d
<1>5. StopInv'
  <2>1. \A d \in Cli : pc'[d] \in {"kill", "pop"} => registry'[CurrentKey(d)'] # None
    BY <1>c, <1>f, <1>g DEF StopInv
  <2>2. ASSUME NEW d \in Cli, pc'[d] = "pop"
        PROVE  NoRecordOfLive(CurrentKey(d))'
    BY <1>d, <1>e, <1>f, <1>g, <2>2 DEF StopInv, Busy
  <2>3. QED
    BY <2>1, <2>2 DEF StopInv
<1>6. StartInv'
  <2>1. ASSUME NEW d \in Cli, pc'[d] \in LaunchPC
        PROVE  NoRecordOfLive(CurrentKey(d))'
    BY <1>d, <1>e, <1>f, <1>g, <2>1 DEF StartInv, Busy, LaunchPC
  <2>2. ASSUME NEW d \in Cli, pc'[d] \in WatchPC \cup {"record"}
        PROVE  /\ IsFor(launched[d], CurrentKey(d)) /\ IsFor(launched[d], CurrentKey(d))'
               /\ pc'[d] \in {"drop", "retrack"} => st'[launched[d]] # "live"
    <3>1. pc[d] \in WatchPC \cup {"record"}
      BY <1>g, <2>2 DEF WatchPC
    <3>2. IsFor(launched[d], CurrentKey(d)) /\ IsFor(launched[d], CurrentKey(d))'
      BY <1>c, <1>d, <1>f, <3>1 DEF StartInv, IsFor
    <3>3. QED
      BY <1>b, <1>g, <3>2 DEF StartInv, ProcessesOnlyEnd, IsFor
  <2>3. ASSUME NEW d \in Cli, pc'[d] = "retrack"
        PROVE  IsFor(runtime[d], CurrentKey(d))'
    BY <1>c, <1>d, <1>f, <1>g, <2>3 DEF StartInv, IsFor
  <2>4. QED
    BY <1>c, <2>1, <2>2, <2>3 DEF StartInv, IsFor, WatchPC
<1>7. StartOwnsBridgeRecord'
  BY <1>0 DEF RefuseStaleListener, Goto, lockVars, TypeOK, StartOwnsBridgeRecord, LockInv, Busy, NeedsRotationLock, OwnsRecord, LaunchPC, WatchPC, CurrentKey
<1>8. LiveIsTracked'
  BY <1>b, <1>c, <1>g DEF ProcessesOnlyEnd, LiveIsTracked
<1>9. QED
  BY <1>1, <1>2, <1>3, <1>4, <1>5, <1>6, <1>7, <1>8

(* The spawned process is the one about to be recorded under the lock.     *)
LEMMA SpawnStep ==
  ASSUME IInv, NEW c \in Cli, NEW p \in Pid, Spawn(c, p)
  PROVE  IInv'
<1> USE DEF IInv
<1>0. CurrentKey(c) \in Key
  BY HeadIsOp DEF Spawn, WorkInv, Busy
<1>a. \A q, k : IsFor(q, k) => q # p /\ IsFor(q, k)'
  BY DEF Spawn, IsFor, TypeOK
<1>b. \A q \in Pid \ {p} : st'[q] = st[q] /\ keyOf'[q] = keyOf[q]
  BY DEF Spawn, TypeOK
<1>1. TypeOK'
  BY <1>0 DEF Spawn, Goto, lockVars, TypeOK, PC, StopPC, LaunchPC, WatchPC, Status
<1>2. WorkInv'
  BY <1>0 DEF Spawn, Goto, lockVars, TypeOK, WorkInv, Busy
<1>3. LockInv'
  BY <1>0 DEF Spawn, Goto, lockVars, TypeOK, LockInv, LaunchPC, WatchPC, Busy, NeedsRotationLock, CurrentKey, CurrentOp
<1>4. ReferenceInv'
  <2>1. registry' = registry /\ port' = port
    BY DEF Spawn
  <2>2. keyOf'[p] \in Key
    BY <1>0 DEF Spawn, TypeOK
  <2>3. QED
    BY <1>a, <1>b, <2>1, <2>2 DEF ReferenceInv
<1>5. StopInv'
  <2>1. UNCHANGED <<registry, todo>> /\ \A d \in Cli \ {c} : pc'[d] = pc[d]
    BY DEF Spawn, Goto, TypeOK
  <2>2. pc'[c] = "record"
    BY DEF Spawn, Goto, TypeOK
  <2>3. ASSUME NEW d \in Cli, pc'[d] \in {"kill", "pop"}
        PROVE  d # c /\ CurrentKey(d) \in Key
    BY <2>1, <2>2, <2>3, HeadIsOp DEF WorkInv, Busy
  <2>4. QED
    BY <1>a, <1>b, <2>1, <2>3 DEF StopInv, NoRecordOfLive, ReferenceInv, IsFor, CurrentKey
<1>6. StartInv'
  <2>1. /\ UNCHANGED <<registry, todo, runtime>>
        /\ \A d \in Cli \ {c} : pc'[d] = pc[d] /\ launched'[d] = launched[d]
    BY DEF Spawn, Goto, TypeOK
  <2>2. /\ pc[c] = "spawn" /\ pc'[c] = "record" /\ launched'[c] = p
        /\ IsFor(p, CurrentKey(c))'
    BY <1>0 DEF Spawn, Goto, TypeOK, IsFor, CurrentKey
  <2>3. \A k \in Key : NoRecordOfLive(k) => NoRecordOfLive(k)'
    BY <1>a, <1>b, <2>1 DEF NoRecordOfLive, ReferenceInv, IsFor
  <2>4. \A d \in Cli : pc[d] \in LaunchPC => CurrentKey(d) \in Key
    BY HeadIsOp DEF WorkInv, Busy, LaunchPC
  <2>5. \A d \in Cli : pc'[d] \in LaunchPC => pc[d] \in LaunchPC
    BY <2>1, <2>2 DEF LaunchPC
  <2>6. \A d \in Cli : CurrentKey(d)' = CurrentKey(d)
    BY <2>1 DEF CurrentKey
  <2>7. \A d \in Cli : pc'[d] \in LaunchPC => NoRecordOfLive(CurrentKey(d))'
    BY <2>3, <2>4, <2>5, <2>6 DEF StartInv
  <2>8. ASSUME NEW d \in Cli, d # c
        PROVE  /\ pc'[d] \in WatchPC \cup {"record"} => IsFor(launched[d], CurrentKey(d))'
               /\ pc'[d] \in {"drop", "retrack"} => st'[launched'[d]] # "live"
               /\ pc'[d] = "retrack" => IsFor(runtime[d], CurrentKey(d))'
    <3>1. /\ pc[d] \in WatchPC \cup {"record"} => IsFor(launched[d], CurrentKey(d))
          /\ pc[d] \in {"drop", "retrack"} => st[launched[d]] # "live"
          /\ pc[d] = "retrack" => IsFor(runtime[d], CurrentKey(d))
      BY DEF StartInv
    <3>2. pc[d] \in {"drop", "retrack"} => launched[d] \in Pid \ {p}
      BY <1>a, <3>1 DEF WatchPC, IsFor
    <3>3. UNCHANGED <<pc[d], launched[d], runtime[d], todo[d]>>
      BY <2>1, <2>8
    <3>4. pc[d] \in WatchPC \cup {"record"} => IsFor(launched[d], CurrentKey(d))'
      BY <1>a, <2>6, <3>1, <3>3 DEF IsFor
    <3>5. pc[d] = "retrack" => IsFor(runtime[d], CurrentKey(d))'
      BY <1>a, <2>6, <3>1, <3>3 DEF IsFor
    <3>6. QED
      BY <1>b, <3>1, <3>2, <3>3, <3>4, <3>5
  <2>9. QED
    BY <2>1, <2>2, <2>7, <2>8 DEF StartInv, WatchPC, IsFor, CurrentKey
<1>7. StartOwnsBridgeRecord'
  BY <1>0 DEF Spawn, Goto, lockVars, TypeOK, StartOwnsBridgeRecord, LockInv, Busy, NeedsRotationLock, OwnsRecord, LaunchPC, WatchPC, CurrentKey
<1>8. LiveIsTracked'
  <2>1. /\ UNCHANGED <<registry, untracked>>
        /\ \A d \in Cli \ {c} : pc'[d] = pc[d] /\ launched'[d] = launched[d]
        /\ pc[c] # "record" /\ pc'[c] = "record" /\ launched'[c] = p
    BY DEF Spawn, Goto, TypeOK
  <2>2. QED
    BY <1>b, <2>1 DEF LiveIsTracked
<1>9. QED
  BY <1>1, <1>2, <1>3, <1>4, <1>5, <1>6, <1>7, <1>8

(* A command that ends, by itself or killed, hands nothing on: a child it  *)
(* had not saved yet is the only process that the registry loses.          *)
LEMMA LeaveStep ==
  ASSUME IInv, NEW c \in Cli, Leave(c),
         untracked' \subseteq Pid, untracked \subseteq untracked',
         pc[c] = "record" => launched[c] \in untracked'
  PROVE  IInv'
<1> USE DEF IInv
<1>a. /\ pc' \in [Cli -> PC] /\ pc'[c] = "idle"
      /\ todo' \in [Cli -> Seq(Op)]
      /\ launched' \in [Cli -> Pid \cup {None}]
      /\ runtime' \in [Cli -> Pid \cup {None}]
      /\ ok' \in [Cli -> BOOLEAN]
      /\ \A d \in Cli \ {c} :
           /\ pc'[d] = pc[d] /\ todo'[d] = todo[d]
           /\ launched'[d] = launched[d] /\ runtime'[d] = runtime[d]
      /\ pidLock' \in {pidLock, None} /\ (pidLock # c => pidLock' = pidLock)
      /\ rotLock' \in {rotLock, None} /\ (rotLock # c => rotLock' = rotLock)
      /\ st' \in [Pid -> Status]
      /\ \A p \in Pid : (st'[p] = "live" <=> st[p] = "live")
                         /\ (st'[p] = "unused" <=> st[p] = "unused")
      /\ parent' \in [Pid -> Cli \cup {None}]
      /\ UNCHANGED <<registry, keyOf, port>>
  BY LeaveEffect
<1>b. ProcessesOnlyEnd
  BY <1>a DEF ProcessesOnlyEnd, TypeOK
<1>c. /\ ReferenceInv'
      /\ \A p, k : IsFor(p, k) => IsFor(p, k)'
      /\ \A k \in Key : NoRecordOfLive(k) => NoRecordOfLive(k)'
  BY <1>a, <1>b, EndsPreserve
<1>d. \A d \in Cli : pc'[d] # "idle" => d # c /\ CurrentKey(d)' = CurrentKey(d)
                                              /\ CurrentOp(d)' = CurrentOp(d)
  BY <1>a DEF CurrentKey, CurrentOp
<1>e. \A d \in Cli : Busy(d) => CurrentKey(d) \in Key
  BY HeadIsOp DEF WorkInv
<1>1. TypeOK'
  BY <1>a DEF TypeOK
<1>2. WorkInv'
  BY <1>a DEF WorkInv, Busy
<1>3. LockInv'
  BY <1>a, <1>d DEF LockInv, Busy, NeedsRotationLock, LaunchPC
<1>5. StopInv'
  <2>1. ASSUME NEW d \in Cli, pc'[d] \in {"kill", "pop"}
        PROVE  registry'[CurrentKey(d)'] # None
    BY <1>a, <1>d, <2>1 DEF StopInv
  <2>2. ASSUME NEW d \in Cli, pc'[d] = "pop"
        PROVE  NoRecordOfLive(CurrentKey(d))'
    <3>1. pc[d] = "pop" /\ CurrentKey(d) \in Key
      BY <1>a, <1>d, <1>e, <2>2 DEF Busy
    <3>2. QED
      BY <1>c, <1>d, <2>2, <3>1 DEF StopInv
  <2>3. QED
    BY <2>1, <2>2 DEF StopInv
<1>6. StartInv'
  <2>1. ASSUME NEW d \in Cli, pc'[d] \in LaunchPC
        PROVE  NoRecordOfLive(CurrentKey(d))'
    <3>1. d # c /\ pc[d] \in LaunchPC
      BY <1>a, <2>1 DEF LaunchPC
    <3>2. CurrentKey(d) \in Key
      BY <1>e, <3>1 DEF LaunchPC, Busy
    <3>3. QED
      BY <1>a, <1>c, <1>d, <2>1, <3>1, <3>2 DEF StartInv, LaunchPC
  <2>2. ASSUME NEW d \in Cli, pc'[d] \in WatchPC \cup {"record"}
        PROVE  /\ IsFor(launched[d], CurrentKey(d))'
               /\ pc'[d] \in {"drop", "retrack"} => st'[launched'[d]] # "live"
    <3>1. /\ d # c /\ pc[d] \in WatchPC \cup {"record"} /\ pc'[d] = pc[d]
          /\ launched'[d] = launched[d] /\ CurrentKey(d)' = CurrentKey(d)
      BY <1>a, <1>d, <2>2 DEF WatchPC
    <3>2. IsFor(launched[d], CurrentKey(d)) /\ IsFor(launched[d], CurrentKey(d))'
      BY <1>c, <3>1 DEF StartInv, IsFor
    <3>3. QED
      BY <1>a, <3>1, <3>2 DEF StartInv, IsFor
  <2>3. ASSUME NEW d \in Cli, pc'[d] = "retrack"
        PROVE  IsFor(runtime[d], CurrentKey(d))'
    <3>1. /\ pc[d] = "retrack" /\ runtime'[d] = runtime[d]
          /\ CurrentKey(d)' = CurrentKey(d)
      BY <1>a, <1>d, <2>3
    <3>2. QED
      BY <1>c, <3>1 DEF StartInv, IsFor
  <2>4. QED
    BY <2>1, <2>2, <2>3 DEF StartInv, WatchPC
<1>7. StartOwnsBridgeRecord'
  BY <1>a, <1>d, ZenonT(30) DEF StartOwnsBridgeRecord, OwnsRecord, WatchPC
<1>8. LiveIsTracked'
  <2>1. ASSUME NEW p \in Pid, st'[p] = "live", p \notin untracked'
        PROVE  registry'[keyOf'[p]] = p \/ \E d \in Cli : pc'[d] = "record" /\ launched'[d] = p
    <3>1. st[p] = "live" /\ p \notin untracked
      BY <1>a, <2>1
    <3>2. CASE registry[keyOf[p]] = p
      BY <1>a, <3>2
    <3>3. ASSUME NEW d \in Cli, pc[d] = "record", launched[d] = p
          PROVE  pc'[d] = "record" /\ launched'[d] = p
      BY <1>a, <2>1, <3>3
    <3>4. QED
      BY <3>1, <3>2, <3>3 DEF LiveIsTracked
  <2>2. QED
    BY <2>1 DEF LiveIsTracked
<1>9. QED
  BY <1>c, <1>1, <1>2, <1>3, <1>5, <1>6, <1>7, <1>8

(* The three ways a command ends: done, a lock missed, killed.             *)
LEMMA EndOfCommandStep ==
  ASSUME IInv, NEW c \in Cli, Finish(c) \/ LockTimeout(c) \/ Crash(c)
  PROVE  IInv'
<1> USE DEF IInv
<1>1. CASE Finish(c)
  BY <1>1, LeaveStep DEF Finish, TypeOK
<1>2. CASE LockTimeout(c)
  <2>1. Leave(c) /\ untracked' = untracked /\ pc[c] # "record"
    BY <1>2 DEF LockTimeout, WaitsForRotation, WaitsForRegistry
  <2>2. QED
    BY <2>1, LeaveStep DEF TypeOK
<1>3. CASE Crash(c)
  <2>1. Leave(c)
    BY <1>3 DEF Crash
  <2>2. pc[c] = "record" => launched[c] \in Pid
    BY DEF StartInv, IsFor
  <2>3. /\ untracked' \subseteq Pid /\ untracked \subseteq untracked'
        /\ pc[c] = "record" => launched[c] \in untracked'
    BY <1>3, <2>2 DEF Crash, TypeOK
  <2>4. QED
    BY <2>1, <2>3, LeaveStep
<1>4. QED
  BY <1>1, <1>2, <1>3

(* A new command holds nothing.                                            *)
LEMMA BeginStep ==
  ASSUME IInv, NEW c \in Cli, NEW plan \in Plans, Begin(c, plan)
  PROVE  IInv'
<1> USE DEF IInv
<1>0. plan \in Seq(Op)
  OBVIOUS
<1>1. TypeOK'
  BY <1>0 DEF Begin, Goto, osVars, lockVars, TypeOK, PC, StopPC, LaunchPC, WatchPC, Status
<1>2. WorkInv'
  BY DEF Begin, Goto, osVars, lockVars, TypeOK, WorkInv, Busy
<1>3. LockInv'
  BY DEF Begin, Goto, osVars, lockVars, TypeOK, LockInv, LaunchPC, WatchPC, Busy, NeedsRotationLock, CurrentKey, CurrentOp
<1>4. ReferenceInv'
  BY DEF Begin, Goto, osVars, lockVars, TypeOK, ReferenceInv, IsFor, StartInv, WatchPC
<1>5. StopInv'
  BY DEF Begin, Goto, osVars, lockVars, TypeOK, StopInv, LockInv, LaunchPC, NoRecordOfLive, CurrentKey
<1>6. StartInv'
  BY DEF Begin, Goto, osVars, lockVars, TypeOK, StartInv, LockInv, NoRecordOfLive, IsFor, LaunchPC, WatchPC, CurrentKey
<1>7. StartOwnsBridgeRecord'
  BY DEF Begin, Goto, osVars, lockVars, TypeOK, StartOwnsBridgeRecord, LockInv, Busy, NeedsRotationLock, OwnsRecord, LaunchPC, WatchPC, CurrentKey
<1>8. LiveIsTracked'
  BY DEF Begin, Goto, osVars, lockVars, TypeOK, LiveIsTracked, StartInv, StopInv, NoRecordOfLive, LockInv, LaunchPC, WatchPC, CurrentKey
<1>9. QED
  BY <1>1, <1>2, <1>3, <1>4, <1>5, <1>6, <1>7, <1>8

----------------------------------------------------------------------------
(* What the operating system does on its own never frees a record or a     *)
(* lock, and never starts a process the registry has to know.              *)
LEMMA QuietOsStep ==
  ASSUME IInv, st' \in [Pid -> Status], port' \in [Key -> Pid \cup {None}],
         \A p \in Pid : (st'[p] = "live" => st[p] = "live")
                        /\ (st'[p] = "unused" <=> st[p] = "unused"),
         \A k \in Key : port'[k] # port[k] /\ port'[k] # None => IsFor(port'[k], k),
         UNCHANGED <<registry, keyOf, parent, lockVars, cliVars, untracked>>
  PROVE  IInv'
<1> USE DEF IInv
<1>0. UNCHANGED <<registry, keyOf, parent, pidLock, rotLock, pc, todo,
                  launched, runtime, ok, untracked>>
  BY DEF lockVars, cliVars
<1>a. \A d \in Cli : CurrentKey(d)' = CurrentKey(d) /\ CurrentOp(d)' = CurrentOp(d)
  BY <1>0 DEF CurrentKey, CurrentOp
<1>b. \A p, k : IsFor(p, k) => IsFor(p, k)'
  BY <1>0 DEF IsFor
<1>c. \A d \in Cli : Busy(d) => CurrentKey(d) \in Key
  BY HeadIsOp DEF WorkInv
<1>d. \A k \in Key : NoRecordOfLive(k) => NoRecordOfLive(k)'
  BY <1>0 DEF NoRecordOfLive, ReferenceInv, IsFor
<1>1. TypeOK'
  BY <1>0 DEF TypeOK
<1>2. WorkInv'
  BY <1>0 DEF WorkInv, Busy
<1>3. LockInv'
  BY <1>0, <1>a DEF LockInv, Busy, NeedsRotationLock
<1>4. ReferenceInv'
  <2>1. \A p \in Pid : st'[p] # "unused" => keyOf'[p] \in Key
    BY <1>0 DEF ReferenceInv
  <2>2. ASSUME NEW k \in Key
        PROVE  (registry[k] # None => IsFor(registry[k], k))'
    BY <1>0, <1>b DEF ReferenceInv, IsFor
  <2>3. ASSUME NEW k \in Key
        PROVE  (port[k] # None => IsFor(port[k], k))'
    BY <1>0, <1>b DEF ReferenceInv, IsFor
  <2>4. QED
    BY <2>1, <2>2, <2>3 DEF ReferenceInv
<1>5. StopInv'
  BY <1>0, <1>a, <1>c, <1>d DEF StopInv, Busy
<1>6. StartInv'
  <2>1. ASSUME NEW d \in Cli, pc'[d] \in LaunchPC
        PROVE  NoRecordOfLive(CurrentKey(d))'
    BY <1>0, <1>a, <1>c, <1>d, <2>1 DEF StartInv, Busy, LaunchPC
  <2>2. ASSUME NEW d \in Cli, pc'[d] \in WatchPC \cup {"record"}
        PROVE  IsFor(launched[d], CurrentKey(d)) /\ IsFor(launched[d], CurrentKey(d))'
    BY <1>0, <1>a, <1>b, <2>2 DEF StartInv, IsFor
  <2>3. ASSUME NEW d \in Cli, pc'[d] \in {"drop", "retrack"}
        PROVE  st'[launched[d]] # "live"
    BY <1>0, <2>2, <2>3 DEF StartInv, WatchPC, IsFor
  <2>4. ASSUME NEW d \in Cli, pc'[d] = "retrack"
        PROVE  IsFor(runtime[d], CurrentKey(d))'
    BY <1>0, <1>a, <1>b, <2>4 DEF StartInv, IsFor
  <2>5. QED
    BY <1>0, <2>1, <2>2, <2>3, <2>4 DEF StartInv
<1>7. StartOwnsBridgeRecord'
  BY <1>0, <1>a DEF StartOwnsBridgeRecord, OwnsRecord
<1>8. LiveIsTracked'
  BY <1>0 DEF LiveIsTracked
<1>9. QED
  BY <1>1, <1>2, <1>3, <1>4, <1>5, <1>6, <1>7, <1>8

(* Ends, listening, reuse of a pid and reaping are such quiet steps.        *)
LEMMA OsStepExceptHandOver ==
  ASSUME IInv, NEW p \in Pid,
         \/ ProcessExits(p) \/ Listens(p) \/ PidReused(p)
         \/ \E c \in Cli : ReapEarlierChild(c, p)
  PROVE  IInv'
<1> USE DEF IInv
<1>1. CASE ProcessExits(p)
  <2>1. st[p] # "unused" /\ Exits(p)
    BY <1>1 DEF ProcessExits
  <2>2. UNCHANGED <<registry, keyOf, parent, lockVars, cliVars, untracked>>
    BY <1>1 DEF ProcessExits
  <2>3. QED
    BY <2>1, <2>2, ExitEffect, QuietOsStep
<1>2. CASE Listens(p)
  <2>1. keyOf[p] \in Key /\ IsFor(p, keyOf[p])
    BY <1>2 DEF Listens, ReferenceInv, IsFor
  <2>2. /\ port' = [port EXCEPT ![keyOf[p]] = p] /\ st' = st
        /\ UNCHANGED <<registry, keyOf, parent, lockVars, cliVars, untracked>>
    BY <1>2 DEF Listens
  <2>3. port' \in [Key -> Pid \cup {None}] /\ st' \in [Pid -> Status]
    BY <2>1, <2>2 DEF TypeOK
  <2>4. \A k \in Key : port'[k] # port[k] /\ port'[k] # None => IsFor(port'[k], k)
    BY <2>1, <2>2 DEF TypeOK
  <2>5. QED
    BY <2>2, <2>3, <2>4, QuietOsStep
<1>3. CASE PidReused(p)
  <2>1. /\ st[p] = "gone" /\ st' = [st EXCEPT ![p] = "foreign"] /\ port' = port
        /\ UNCHANGED <<registry, keyOf, parent, lockVars, cliVars, untracked>>
    BY <1>3 DEF PidReused
  <2>2. /\ st' \in [Pid -> Status] /\ port' \in [Key -> Pid \cup {None}]
        /\ \A q \in Pid : (st'[q] = "live" => st[q] = "live")
                           /\ (st'[q] = "unused" <=> st[q] = "unused")
    BY <2>1 DEF TypeOK, Status
  <2>3. QED
    BY <2>1, <2>2, QuietOsStep
<1>4. ASSUME NEW c \in Cli, ReapEarlierChild(c, p)
      PROVE  IInv'
  <2>1. /\ st[p] = "zombie" /\ st' = [st EXCEPT ![p] = "gone"] /\ port' = port
        /\ UNCHANGED <<registry, keyOf, parent, lockVars, cliVars, untracked>>
    BY <1>4 DEF ReapEarlierChild
  <2>2. /\ st' \in [Pid -> Status] /\ port' \in [Key -> Pid \cup {None}]
        /\ \A q \in Pid : (st'[q] = "live" => st[q] = "live")
                           /\ (st'[q] = "unused" <=> st[q] = "unused")
    BY <2>1 DEF TypeOK, Status
  <2>3. QED
    BY <2>1, <2>2, QuietOsStep
<1>5. QED
  BY <1>1, <1>2, <1>3, <1>4

(* A launcher that hands over leaves a process the registry does not name. *)
LEMMA HandsOverStep ==
  ASSUME IInv, NEW p \in Pid, NEW q \in Pid, HandsOver(p, q)
  PROVE  IInv'
<1> USE DEF IInv
<1>0. /\ st[p] = "live" /\ st[q] = "unused" /\ p # q
      /\ UNCHANGED <<registry, parent, pidLock, rotLock, pc, todo, launched, runtime, ok>>
      /\ keyOf[p] \in Key /\ IsFor(p, keyOf[p])
  BY DEF HandsOver, lockVars, cliVars, ReferenceInv, IsFor
<1>a. ExitStatus(p) \in Status \ {"unused", "live", "doomed", "foreign"}
  BY ExitStatusType
<1>b. /\ st' \in [Pid -> Status] /\ st'[p] \notin {"unused", "live"} /\ st'[q] = "live"
      /\ \A r \in Pid \ {p, q} : st'[r] = st[r]
  BY <1>0, <1>a DEF HandsOver, TypeOK, Status
<1>c. /\ keyOf' \in [Pid -> Key \cup {None}] /\ keyOf'[q] = keyOf[p]
      /\ \A r \in Pid \ {q} : keyOf'[r] = keyOf[r]
  BY <1>0 DEF HandsOver, TypeOK
<1>d. /\ port' \in [Key -> Pid \cup {None}]
      /\ \A k \in Key : port'[k] = IF port[k] = p THEN q ELSE port[k]
  BY DEF HandsOver, TypeOK
<1>e. untracked' = untracked \cup {q}
  BY DEF HandsOver
<1>f. \A d \in Cli : CurrentKey(d)' = CurrentKey(d) /\ CurrentOp(d)' = CurrentOp(d)
  BY <1>0 DEF CurrentKey, CurrentOp
<1>g. \A r, k : IsFor(r, k) => r # q /\ IsFor(r, k)'
  BY <1>0, <1>b, <1>c DEF IsFor
<1>h. \A k \in Key : NoRecordOfLive(k) => NoRecordOfLive(k)'
  BY <1>0, <1>b, <1>g DEF NoRecordOfLive, ReferenceInv, IsFor
<1>i. \A d \in Cli : Busy(d) => CurrentKey(d) \in Key
  BY HeadIsOp DEF WorkInv
<1>1. TypeOK'
  BY <1>0, <1>b, <1>c, <1>d, <1>e DEF TypeOK
<1>2. WorkInv'
  BY <1>0 DEF WorkInv, Busy
<1>3. LockInv'
  BY <1>0, <1>f DEF LockInv, Busy, NeedsRotationLock
<1>4. ReferenceInv'
  <2>1. \A r \in Pid : st'[r] # "unused" => keyOf'[r] \in Key
    BY <1>0, <1>b, <1>c DEF ReferenceInv
  <2>2. ASSUME NEW k \in Key
        PROVE  (registry[k] # None => IsFor(registry[k], k))'
    BY <1>0, <1>g DEF ReferenceInv, IsFor
  <2>3. ASSUME NEW k \in Key
        PROVE  (port[k] # None => IsFor(port[k], k))'
    <3>1. CASE port[k] = p
      <4>1. keyOf[p] = k
        BY <1>0, <3>1 DEF ReferenceInv, IsFor, TypeOK
      <4>2. QED
        BY <1>b, <1>c, <1>d, <3>1, <4>1 DEF IsFor
    <3>2. CASE port[k] # p
      <4>1. port'[k] = port[k]
        BY <1>d, <3>2
      <4>2. QED
        BY <1>g, <4>1 DEF ReferenceInv, IsFor
    <3>3. QED
      BY <3>1, <3>2
  <2>4. QED
    BY <2>1, <2>2, <2>3 DEF ReferenceInv
<1>5. StopInv'
  BY <1>0, <1>f, <1>h, <1>i DEF StopInv, Busy
<1>6. StartInv'
  <2>1. ASSUME NEW d \in Cli, pc'[d] \in LaunchPC
        PROVE  NoRecordOfLive(CurrentKey(d))'
    BY <1>0, <1>f, <1>h, <1>i, <2>1 DEF StartInv, Busy, LaunchPC
  <2>2. ASSUME NEW d \in Cli, pc'[d] \in WatchPC \cup {"record"}
        PROVE  /\ launched[d] # q /\ launched[d] \in Pid
               /\ IsFor(launched[d], CurrentKey(d))'
    BY <1>0, <1>f, <1>g, <2>2 DEF StartInv, IsFor
  <2>3. ASSUME NEW d \in Cli, pc'[d] \in {"drop", "retrack"}
        PROVE  st'[launched[d]] # "live"
    BY <1>0, <1>b, <2>2, <2>3 DEF StartInv, WatchPC
  <2>4. ASSUME NEW d \in Cli, pc'[d] = "retrack"
        PROVE  IsFor(runtime[d], CurrentKey(d))'
    BY <1>0, <1>f, <1>g, <2>4 DEF StartInv, IsFor
  <2>5. QED
    BY <1>0, <2>1, <2>2, <2>3, <2>4 DEF StartInv
<1>7. StartOwnsBridgeRecord'
  BY <1>0, <1>f DEF StartOwnsBridgeRecord, OwnsRecord
<1>8. LiveIsTracked'
  BY <1>0, <1>b, <1>c, <1>e DEF LiveIsTracked
<1>9. QED
  BY <1>1, <1>2, <1>3, <1>4, <1>5, <1>6, <1>7, <1>8

----------------------------------------------------------------------------
(* The initial state, where nothing runs, satisfies the invariant.         *)
LEMMA InitIInv ==
  ASSUME Init
  PROVE  IInv
<1>1. <<>> \in Seq(Op)
  OBVIOUS
<1>2. TypeOK
  BY <1>1 DEF Init, TypeOK, Status, PC
<1>3. WorkInv /\ LockInv /\ StopInv /\ StartInv /\ StartOwnsBridgeRecord
  BY DEF Init, WorkInv, LockInv, StopInv, StartInv, StartOwnsBridgeRecord, Busy,
         LaunchPC, WatchPC
<1>4. ReferenceInv /\ LiveIsTracked
  BY DEF Init, ReferenceInv, LiveIsTracked
<1>5. QED
  BY <1>2, <1>3, <1>4 DEF IInv

(* A step that changes nothing preserves it.                               *)
LEMMA StutterIInv ==
  ASSUME IInv, UNCHANGED vars
  PROVE  IInv'
<1>1. IInv' <=> IInv
  BY DEF vars, IInv, TypeOK, WorkInv, LockInv, ReferenceInv, StopInv, StartInv,
         StartOwnsBridgeRecord, LiveIsTracked, Busy, NeedsRotationLock, CurrentKey,
         CurrentOp, IsFor, NoRecordOfLive, OwnsRecord
<1>2. QED
  BY <1>1

(* Every step of a command preserves it.                                   *)
LEMMA CliStepIInv ==
  ASSUME IInv, NEW c \in Cli, CliStep(c)
  PROVE  IInv'
<1>1. CASE CommandStep(c)
  BY <1>1, TakeRotationLockStep, NoRotationLockStep, ReturnStep, EndOfCommandStep
     DEF CommandStep
<1>2. CASE StopStep(c)
  BY <1>2, BeginStopStep, KillTrackedStep, PopRecordStep DEF StopStep
<1>3. CASE StartStep(c)
  BY <1>3, BeginStartStep, ClearRelayPortStep, SpawnStep, SpawnFailsStep,
     RecordSpawnStep, ReadyCheckPassesStep, ReadyCheckTimesOutStep, ChildExitedStep,
     RefuseStaleListenerStep, AcceptLaunchedStep, AdoptListenerStep, RetrackStep,
     DropOwnRecordStep
     DEF StartStep
<1>4. QED
  BY <1>1, <1>2, <1>3 DEF CliStep

(* Every step of the system preserves it.                                  *)
LEMMA NextIInv ==
  ASSUME IInv, [Next]_vars
  PROVE  IInv'
<1>1. ASSUME NEW c \in Cli, CliStep(c) \/ Crash(c)
      PROVE  IInv'
  BY <1>1, CliStepIInv, EndOfCommandStep
<1>2. ASSUME NEW c \in Cli, NEW plan \in Plans, Begin(c, plan)
      PROVE  IInv'
  BY <1>2, BeginStep
<1>3. CASE OsStep
  BY <1>3, OsStepExceptHandOver, HandsOverStep DEF OsStep
<1>4. CASE UNCHANGED vars
  BY <1>4, StutterIInv
<1>5. QED
  BY <1>1, <1>2, <1>3, <1>4 DEF Next

(* The inductive invariant holds in every reachable state.                 *)
THEOREM IInvAlways == Spec => []IInv
<1>1. Init => IInv
  BY InitIInv
<1>2. IInv /\ [Next]_vars => IInv'
  BY NextIInv
<1>3. QED
  BY <1>1, <1>2, PTL DEF Spec

----------------------------------------------------------------------------
(* Every variable stays in its domain, whatever the processes do.          *)
THEOREM TypeCorrect == Spec => []TypeOK
<1>1. IInv => TypeOK
  BY DEF IInv
<1>2. QED
  BY <1>1, IInvAlways, PTL

(* No running module is forgotten by pids.json.                            *)
THEOREM NothingForgotten == Spec => []LiveIsTracked
<1>1. IInv => LiveIsTracked
  BY DEF IInv
<1>2. QED
  BY <1>1, IInvAlways, PTL

(* The start of a bridge consumer is never disturbed by another command.   *)
THEOREM StartUndisturbed == Spec => []StartOwnsBridgeRecord
<1>1. IInv => StartOwnsBridgeRecord
  BY DEF IInv
<1>2. QED
  BY <1>1, IInvAlways, PTL

(* A live process is the recorded one, or is about to be recorded by the   *)
(* holder of the registry lock, and then no live process is recorded.      *)
LEMMA IInvOneLive ==
  ASSUME IInv
  PROVE  OneLivePerKey
<1> USE DEF IInv
<1>1. SUFFICES ASSUME NEW p \in Pid, NEW q \in Pid, p # q,
                      st[p] = "live", p \notin untracked,
                      st[q] = "live", q \notin untracked,
                      keyOf[p] = keyOf[q]
               PROVE  FALSE
  BY DEF OneLivePerKey
<1>2. ASSUME NEW c \in Cli, pc[c] = "record", NEW r \in Pid, launched[c] = r
      PROVE  pidLock = c /\ NoRecordOfLive(keyOf[r])
  BY <1>2 DEF LockInv, StartInv, LaunchPC, IsFor
<1>3. ASSUME NEW r \in Pid, NEW s \in Pid, r # s, keyOf[r] = keyOf[s],
             NEW c \in Cli, pc[c] = "record", launched[c] = r,
             st[s] = "live", s \notin untracked
      PROVE  FALSE
  <2>1. pidLock = c /\ NoRecordOfLive(keyOf[s])
    BY <1>2, <1>3
  <2>2. registry[keyOf[s]] # s
    BY <1>3, <2>1 DEF NoRecordOfLive, TypeOK
  <2>3. PICK d \in Cli : pc[d] = "record" /\ launched[d] = s
    BY <1>3, <2>2 DEF LiveIsTracked
  <2>4. pidLock = d
    BY <2>3 DEF LockInv, LaunchPC
  <2>5. QED
    BY <1>3, <2>1, <2>3, <2>4
<1>4. CASE registry[keyOf[p]] = p /\ registry[keyOf[q]] = q
  BY <1>1, <1>4
<1>5. CASE \E c \in Cli : pc[c] = "record" /\ launched[c] \in {p, q}
  BY <1>1, <1>3, <1>5
<1>6. QED
  BY <1>1, <1>4, <1>5 DEF LiveIsTracked

(* No race of commands leaves two copies of a module running.              *)
THEOREM NoSecondCopy == Spec => []OneLivePerKey
<1>1. IInv => OneLivePerKey
  BY IInvOneLive
<1>2. QED
  BY <1>1, IInvAlways, PTL

----------------------------------------------------------------------------
(* Only a stop that found nothing running, or that removes the record of   *)
(* the process it signalled, makes a stop return.                          *)
LEMMA WhoReturnsFromStop ==
  ASSUME TypeOK, Next, NEW c \in Cli, pc[c] \in StopPC, pc'[c] = "returned"
  PROVE  BeginStop(c) \/ PopRecord(c)
<1> USE DEF StopPC, Goto
<1>1. ASSUME NEW d \in Cli, CommandStep(d) \/ Crash(d)
      PROVE  FALSE
  BY <1>1 DEF CommandStep, TakeRotationLock, NoRotationLock, Dispatch, Return, Finish,
              LockTimeout, Crash, Leave, TypeOK
<1>2. ASSUME NEW d \in Cli, StartStep(d)
      PROVE  FALSE
  <2>1. pc[d] \in LaunchPC \cup WatchPC \cup {"start"}
        /\ \A e \in Cli \ {d} : pc'[e] = pc[e]
    BY <1>2 DEF StartStep, BeginStart, ClearRelayPort, Spawn, SpawnFails, RecordSpawn,
                ReadyCheckPasses, ReadyCheckTimesOut, ChildExited, RefuseStaleListener,
                AcceptLaunched, AdoptListener, Retrack, DropOwnRecord,
                ReturnFromStart, LaunchPC, WatchPC, TypeOK
  <2>2. QED
    BY <2>1 DEF LaunchPC, WatchPC
<1>3. ASSUME NEW d \in Cli, StopStep(d)
      PROVE  BeginStop(c) \/ PopRecord(c)
  <2>1. CASE d = c
    BY <1>3, <2>1 DEF StopStep, KillTracked, TypeOK
  <2>2. CASE d # c
    BY <1>3, <2>2 DEF StopStep, BeginStop, KillTracked, PopRecord, TypeOK
  <2>3. QED
    BY <2>1, <2>2
<1>4. ASSUME NEW d \in Cli, NEW plan \in Plans, Begin(d, plan)
      PROVE  FALSE
  BY <1>4 DEF Begin, TypeOK
<1>5. CASE OsStep
  BY <1>5 DEF OsStep, ProcessExits, Listens, PidReused, HandsOver, ReapEarlierChild, cliVars
<1>6. QED
  BY <1>1, <1>2, <1>3, <1>4, <1>5 DEF Next, CliStep

(* A stop that reports success has ended the process its record named.     *)
THEOREM StopIsEffective == Spec => StopEndsProcess
<1>1. ASSUME IInv, Next, NEW c \in Cli, pc[c] \in StopPC, pc'[c] = "returned",
             NEW p \in Pid, registry[CurrentKey(c)] = p
      PROVE  st[p] # "live"
  <2>1. CASE BeginStop(c)
    BY <1>1, <2>1 DEF BeginStop, Running, Goto, IInv, TypeOK
  <2>2. CASE PopRecord(c)
    BY <1>1, <2>2 DEF PopRecord, IInv, StopInv, NoRecordOfLive, TypeOK
  <2>3. QED
    BY <1>1, <2>1, <2>2, WhoReturnsFromStop DEF IInv
<1>2. IInv /\ [Next]_vars =>
        [\A c \in Cli : pc[c] \in StopPC /\ pc'[c] = "returned" =>
           \A p \in Pid : registry[CurrentKey(c)] = p => st[p] # "live"]_vars
  BY <1>1
<1>3. QED
  BY <1>2, IInvAlways, PTL DEF Spec, StopEndsProcess

----------------------------------------------------------------------------
(* The readiness of the Spawner was not answered by a stale listener.      *)

(* The other commands stay where they are, and their children too.         *)
OthersWatch(c) ==
  \A d \in Cli \ {c} :
    /\ pc'[d] = pc[d] /\ todo'[d] = todo[d] /\ launched'[d] = launched[d]
    /\ \A p \in Pid : ChildOf(d, p) => ChildOf(d, p)'

(* A command answers for the child it watches.                             *)
LEMMA CommandWatches ==
  ASSUME IInv, ChildInv, NEW c \in Cli, OthersWatch(c),
         Watching(c)' => ChildOf(c, launched[c])'
  PROVE  ChildInv'
<1>1. ASSUME NEW d \in Cli, d # c, Watching(d)'
      PROVE  ChildOf(d, launched[d])'
  <2>1. /\ pc'[d] = pc[d] /\ todo'[d] = todo[d] /\ launched'[d] = launched[d]
        /\ \A p \in Pid : ChildOf(d, p) => ChildOf(d, p)'
    BY <1>1 DEF OthersWatch
  <2>2. Watching(d)
    BY <1>1, <2>1 DEF Watching, CurrentKey
  <2>3. launched[d] \in Pid /\ ChildOf(d, launched[d])
    BY <2>2 DEF Watching, WatchPC, ChildInv, IInv, StartInv, IsFor
  <2>4. QED
    BY <2>1, <2>3 DEF ChildOf
<1>2. QED
  BY <1>1 DEF ChildInv

(* So does everybody, when processes end by themselves.                    *)
LEMMA EverybodyWatches ==
  ASSUME IInv, ChildInv, UNCHANGED <<pc, todo, launched>>,
         \A d \in Cli, p \in Pid : ChildOf(d, p) /\ Watching(d) /\ p = launched[d] => ChildOf(d, p)'
  PROVE  ChildInv'
<1>1. ASSUME NEW d \in Cli, Watching(d)'
      PROVE  ChildOf(d, launched[d])'
  <2>1. Watching(d)
    BY <1>1 DEF Watching, CurrentKey
  <2>2. launched[d] \in Pid /\ ChildOf(d, launched[d])
    BY <2>1 DEF Watching, WatchPC, ChildInv, IInv, StartInv, IsFor
  <2>3. QED
    BY <2>1, <2>2 DEF ChildOf
<1>2. QED
  BY <1>1 DEF ChildInv

(* The end of a process frees its port, and leaves a zombie to its parent. *)
LEMMA ExitsKeeps ==
  ASSUME IInv, PortInv, NEW p \in Pid, Exits(p), st[p] # "foreign", UNCHANGED parent
  PROVE  PortInv' /\ \A d \in Cli, q \in Pid : ChildOf(d, q) => ChildOf(d, q)'
<1>1. /\ st \in [Pid -> Status] /\ port \in [Key -> Pid \cup {None}]
      /\ parent \in [Pid -> Cli \cup {None}]
  BY DEF IInv, TypeOK
<1>2. PortInv'
  BY <1>1 DEF Exits, PortInv
<1>3. \A d \in Cli, q \in Pid : ChildOf(d, q) => ChildOf(d, q)'
  BY <1>1 DEF Exits, ExitStatus, ChildOf
<1>4. QED
  BY <1>2, <1>3

(* A foreign process holds no port and is nobody's child.                  *)
LEMMA ForeignExitsKeeps ==
  ASSUME IInv, PortInv, NEW p \in Pid, Exits(p), st[p] = "foreign", UNCHANGED parent
  PROVE  PortInv' /\ \A d \in Cli, q \in Pid : ChildOf(d, q) => ChildOf(d, q)'
<1>1. /\ st \in [Pid -> Status] /\ port \in [Key -> Pid \cup {None}]
  BY DEF IInv, TypeOK
<1>2. PortInv'
  BY <1>1 DEF Exits, PortInv
<1>3. \A d \in Cli, q \in Pid : ChildOf(d, q) => ChildOf(d, q)'
  BY <1>1 DEF Exits, ExitStatus, ChildOf
<1>4. QED
  BY <1>2, <1>3

(* So does a signal, whatever it hits.                                     *)
LEMMA SignalKeeps ==
  ASSUME IInv, PortInv, NEW p \in Pid, Signal(p), UNCHANGED parent
  PROVE  PortInv' /\ \A d \in Cli, q \in Pid : ChildOf(d, q) => ChildOf(d, q)'
<1>1. /\ st \in [Pid -> Status] /\ port \in [Key -> Pid \cup {None}]
  BY DEF IInv, TypeOK
<1>2. CASE Exits(p)
  BY <1>2, ExitsKeeps, ForeignExitsKeeps
<1>3. CASE st[p] \in {"live", "doomed"} /\ st' = [st EXCEPT ![p] = "doomed"] /\ UNCHANGED port
  BY <1>1, <1>3 DEF PortInv, ChildOf
<1>4. CASE UNCHANGED <<st, port>>
  BY <1>4 DEF PortInv, ChildOf
<1>5. QED
  BY <1>2, <1>3, <1>4 DEF Signal

(* A step that leaves processes and ports alone.                           *)
LEMMA ControlKeeps ==
  ASSUME IInv, PortInv, ChildInv, NEW c \in Cli, UNCHANGED <<st, parent, port>>,
         \A d \in Cli \ {c} : pc'[d] = pc[d] /\ todo'[d] = todo[d] /\ launched'[d] = launched[d],
         Watching(c)' => Watching(c) /\ launched'[c] = launched[c]
  PROVE  PortInv' /\ ChildInv'
<1>1. PortInv'
  BY DEF PortInv
<1>2. OthersWatch(c)
  BY DEF OthersWatch, ChildOf
<1>3. Watching(c)' => ChildOf(c, launched[c])'
  BY DEF ChildInv, ChildOf
<1>4. QED
  BY <1>1, <1>2, <1>3, CommandWatches

(* Steps of a command that start and end no process.                       *)
LEMMA QuietCommandKeeps ==
  ASSUME IInv, PortInv, ChildInv, NEW c \in Cli,
         \/ TakeRotationLock(c) \/ NoRotationLock(c) \/ Return(c)
         \/ BeginStop(c) \/ PopRecord(c) \/ BeginStart(c) \/ SpawnFails(c) \/ RecordSpawn(c)
         \/ ReadyCheckPasses(c) \/ ReadyCheckTimesOut(c) \/ AcceptLaunched(c)
         \/ AdoptListener(c) \/ Retrack(c) \/ DropOwnRecord(c)
         \/ \E plan \in Plans : Begin(c, plan)
  PROVE  PortInv' /\ ChildInv'
<1>1. UNCHANGED <<st, parent, port>>
  BY DEF TakeRotationLock, NoRotationLock, Return, BeginStop, PopRecord, BeginStart,
         SpawnFails, RecordSpawn, ReadyCheckPasses, ReadyCheckTimesOut, AcceptLaunched,
         AdoptListener, Retrack, DropOwnRecord, Begin, osVars
<1>2. \A d \in Cli \ {c} : pc'[d] = pc[d] /\ todo'[d] = todo[d] /\ launched'[d] = launched[d]
  BY DEF TakeRotationLock, NoRotationLock, Return, BeginStop, PopRecord, BeginStart,
         SpawnFails, RecordSpawn, ReadyCheckPasses, ReadyCheckTimesOut, AcceptLaunched,
         AdoptListener, Retrack, DropOwnRecord, Begin, Dispatch, ReturnFromStart, Goto,
         IInv, TypeOK
<1>3. Watching(c)' => Watching(c) /\ launched'[c] = launched[c]
  <2>1. CASE RecordSpawn(c) \/ ReadyCheckPasses(c)
    BY <2>1 DEF RecordSpawn, ReadyCheckPasses, Watching
  <2>2. CASE \/ TakeRotationLock(c) \/ NoRotationLock(c) \/ Return(c)
             \/ BeginStop(c) \/ PopRecord(c) \/ BeginStart(c) \/ SpawnFails(c)
             \/ ReadyCheckTimesOut(c) \/ AcceptLaunched(c) \/ AdoptListener(c)
             \/ Retrack(c) \/ DropOwnRecord(c) \/ \E plan \in Plans : Begin(c, plan)
    <3>1. pc'[c] \in {"next", "start", "stop", "kill", "clear", "spawn", "returned", "retrack"}
      BY <2>2 DEF TakeRotationLock, NoRotationLock, Return, BeginStop, PopRecord, BeginStart,
         SpawnFails, ReadyCheckTimesOut, AcceptLaunched,
         AdoptListener, Retrack, DropOwnRecord, Begin, Dispatch, ReturnFromStart, Goto,
         IInv, TypeOK
    <3>2. QED
      BY <3>1 DEF Watching
  <2>3. QED
    BY <2>1, <2>2
<1>4. QED
  BY <1>1, <1>2, <1>3, ControlKeeps

(* Steps of a command that send a signal.                                  *)
LEMMA SignalCommandKeeps ==
  ASSUME IInv, PortInv, ChildInv, NEW c \in Cli,
         KillTracked(c) \/ ClearRelayPort(c) \/ RefuseStaleListener(c)
  PROVE  PortInv' /\ ChildInv'
<1>1. UNCHANGED <<parent, todo, launched>>
  BY DEF KillTracked, ClearRelayPort, RefuseStaleListener
<1>2. PortInv' /\ \A d \in Cli, q \in Pid : ChildOf(d, q) => ChildOf(d, q)'
  <2>1. CASE UNCHANGED <<st, port>>
    BY <1>1, <2>1 DEF PortInv, ChildOf
  <2>2. CASE \E p \in Pid : Signal(p)
    BY <1>1, <2>2, SignalKeeps
  <2>3. CASE KillTracked(c)
    <3>1. registry[CurrentKey(c)] \in Pid
      <4>1. CurrentKey(c) \in Key /\ registry[CurrentKey(c)] # None
        BY <2>3, HeadIsOp DEF KillTracked, IInv, WorkInv, Busy, StopInv
      <4>2. QED
        BY <4>1 DEF IInv, TypeOK
    <3>2. QED
      BY <2>2, <2>3, <3>1 DEF KillTracked
  <2>4. CASE ClearRelayPort(c)
    <3>1. CurrentKey(c) \in Key
      BY <2>4, HeadIsOp DEF ClearRelayPort, IInv, WorkInv, Busy
    <3>2. port[CurrentKey(c)] \in Pid \cup {None}
      BY <3>1 DEF IInv, TypeOK
    <3>3. QED
      BY <2>1, <2>2, <2>4, <3>2 DEF ClearRelayPort
  <2>5. CASE RefuseStaleListener(c)
    <3>1. launched[c] \in Pid
      BY <2>5 DEF RefuseStaleListener, ListenerConflict, Running
    <3>2. QED
      BY <2>2, <2>5, <3>1 DEF RefuseStaleListener
  <2>6. QED
    BY <2>3, <2>4, <2>5
<1>3. pc'[c] \in {"pop", "spawn", "drop"} /\ \A d \in Cli \ {c} : pc'[d] = pc[d]
  BY DEF KillTracked, ClearRelayPort, RefuseStaleListener, Goto, IInv, TypeOK
<1>4. OthersWatch(c)
  BY <1>1, <1>2, <1>3 DEF OthersWatch
<1>5. ~Watching(c)'
  BY <1>3 DEF Watching
<1>6. QED
  BY <1>2, <1>4, <1>5, CommandWatches

(* A child is spawned, and watched.                                        *)
LEMMA SpawnKeeps ==
  ASSUME IInv, PortInv, ChildInv, NEW c \in Cli, NEW p \in Pid, Spawn(c, p)
  PROVE  PortInv' /\ ChildInv'
<1>1. /\ pc'[c] = "record" /\ launched'[c] = p /\ parent'[p] = c /\ st'[p] = "live"
      /\ st[p] = "unused" /\ UNCHANGED <<port, todo>>
      /\ \A q \in Pid \ {p} : st'[q] = st[q] /\ parent'[q] = parent[q]
      /\ \A d \in Cli \ {c} : pc'[d] = pc[d] /\ launched'[d] = launched[d]
  BY DEF Spawn, Goto, IInv, TypeOK
<1>2. PortInv'
  <2>1. ASSUME NEW k \in Key, port[k] # None
        PROVE  st'[port[k]] \in {"live", "doomed"}
    <3>1. port[k] \in Pid /\ st[port[k]] \in {"live", "doomed"}
      BY <2>1 DEF PortInv, IInv, TypeOK
    <3>2. QED
      BY <1>1, <3>1
  <2>2. QED
    BY <1>1, <2>1 DEF PortInv
<1>3. OthersWatch(c)
  BY <1>1 DEF OthersWatch, ChildOf
<1>4. ChildOf(c, launched[c])'
  BY <1>1 DEF ChildOf
<1>5. QED
  BY <1>2, <1>3, <1>4, CommandWatches

(* An exited child is reaped by the start that watches it.                 *)
LEMMA ChildExitedKeeps ==
  ASSUME IInv, PortInv, ChildInv, NEW c \in Cli, ChildExited(c)
  PROVE  PortInv' /\ ChildInv'
<1> DEFINE p == launched[c]
<1>1. p \in Pid /\ ChildOf(c, p) /\ st[p] = "zombie"
  BY DEF ChildExited, ChildInv, Watching, IInv, StartInv, WatchPC, IsFor
<1>2. /\ UNCHANGED <<port, parent, todo, launched>> /\ pc'[c] \in {"drop", "verify"}
      /\ pc'[c] = "verify" => CurrentKey(c) \notin GuardedKey
      /\ \A d \in Cli \ {c} : pc'[d] = pc[d]
      /\ \A q \in Pid \ {p} : st'[q] = st[q]
  BY DEF ChildExited, Goto, IInv, TypeOK
<1> HIDE DEF p
<1>3. PortInv'
  BY <1>1, <1>2, ZenonT(30) DEF PortInv, IInv, TypeOK
<1>4. OthersWatch(c)
  BY <1>1, <1>2 DEF OthersWatch, ChildOf
<1>5. ~Watching(c)'
  BY <1>2 DEF Watching, CurrentKey
<1>6. QED
  BY <1>3, <1>4, <1>5, CommandWatches

(* A command that ends leaves the children of the others.                  *)
LEMMA LeaveKeeps ==
  ASSUME IInv, PortInv, ChildInv, NEW c \in Cli, Leave(c)
  PROVE  PortInv' /\ ChildInv'
<1>1. /\ UNCHANGED port /\ pc'[c] = "idle"
      /\ \A d \in Cli \ {c} : pc'[d] = pc[d] /\ todo'[d] = todo[d] /\ launched'[d] = launched[d]
  BY LeaveEffect DEF IInv
<1>2. \A q \in Pid : /\ st[q] # "zombie" => st'[q] = st[q]
                     /\ parent[q] # c => st'[q] = st[q] /\ parent'[q] = parent[q]
  BY DEF Leave
<1>3. ASSUME NEW k \in Key, port[k] # None
      PROVE  port'[k] = port[k] /\ st'[port[k]] \in {"live", "doomed"}
  <2>1. port[k] \in Pid /\ st[port[k]] \in {"live", "doomed"}
    BY <1>3 DEF PortInv, IInv, TypeOK
  <2>2. QED
    BY <1>1, <1>2, <2>1
<1>4. PortInv' /\ OthersWatch(c)
  BY <1>1, <1>2, <1>3 DEF PortInv, OthersWatch, ChildOf
<1>5. ~Watching(c)'
  BY <1>1 DEF Watching
<1>6. QED
  BY <1>4, <1>5, CommandWatches

(* What the operating system does keeps ports and children.                *)
LEMMA OsKeeps ==
  ASSUME IInv, PortInv, ChildInv, OsStep
  PROVE  PortInv' /\ ChildInv'
<1>1. PICK p \in Pid : \/ ProcessExits(p) \/ Listens(p) \/ PidReused(p)
                       \/ \E q \in Pid : HandsOver(p, q)
                       \/ \E c \in Cli : ReapEarlierChild(c, p)
  BY DEF OsStep
<1>2. UNCHANGED <<parent, pc, todo, launched>>
  BY <1>1 DEF ProcessExits, Listens, PidReused, HandsOver, ReapEarlierChild, cliVars
<1>3. /\ st \in [Pid -> Status] /\ port \in [Key -> Pid \cup {None}]
      /\ parent \in [Pid -> Cli \cup {None}]
  BY DEF IInv, TypeOK
<1>4. CASE ProcessExits(p)
  BY <1>2, <1>4, ExitsKeeps, ForeignExitsKeeps, EverybodyWatches DEF ProcessExits
<1>5. CASE Listens(p)
  <2>1. PortInv'
    BY <1>3, <1>5 DEF Listens, PortInv
  <2>2. UNCHANGED st
    BY <1>5 DEF Listens
  <2>3. QED
    BY <1>2, <2>1, <2>2, EverybodyWatches DEF ChildOf
<1>6. CASE PidReused(p)
  <2>1. st[p] = "gone" /\ UNCHANGED port /\ \A q \in Pid \ {p} : st'[q] = st[q]
    BY <1>3, <1>6 DEF PidReused
  <2>2. PortInv'
    BY <1>3, <2>1 DEF PortInv
  <2>3. QED
    BY <1>2, <2>1, <2>2, EverybodyWatches DEF ChildOf
<1>7. CASE \E q \in Pid : HandsOver(p, q)
  <2>1. PICK q \in Pid : HandsOver(p, q)
    BY <1>7
  <2>2. /\ st[p] = "live" /\ st[q] = "unused" /\ p # q
        /\ st'[p] = ExitStatus(p) /\ st'[q] = "live"
        /\ \A r \in Pid \ {p, q} : st'[r] = st[r]
        /\ \A k \in Key : port'[k] = IF port[k] = p THEN q ELSE port[k]
    BY <1>3, <2>1 DEF HandsOver
  <2>3. PortInv'
    BY <1>3, <2>2 DEF PortInv
  <2>4. \A d \in Cli, r \in Pid : ChildOf(d, r) => ChildOf(d, r)'
    BY <1>2, <2>2 DEF ChildOf, ExitStatus
  <2>5. QED
    BY <1>2, <2>3, <2>4, EverybodyWatches
<1>8. CASE \E c \in Cli : ReapEarlierChild(c, p)
  <2>1. PICK c \in Cli : ReapEarlierChild(c, p)
    BY <1>8
  <2>2. /\ st[p] = "zombie" /\ parent[p] = c /\ launched[c] # p /\ UNCHANGED port
        /\ \A q \in Pid \ {p} : st'[q] = st[q]
    BY <1>3, <2>1 DEF ReapEarlierChild
  <2>3. PortInv'
    BY <1>3, <2>2 DEF PortInv
  <2>4. QED
    BY <1>2, <2>2, <2>3, EverybodyWatches DEF ChildOf
<1>9. QED
  BY <1>1, <1>4, <1>5, <1>6, <1>7, <1>8

(* So does every step.                                                     *)
LEMMA NextWatches ==
  ASSUME IInv, PortInv, ChildInv, [Next]_vars
  PROVE  PortInv' /\ ChildInv'
<1>1. ASSUME NEW c \in Cli, CliStep(c) \/ Crash(c) \/ \E plan \in Plans : Begin(c, plan)
      PROVE  PortInv' /\ ChildInv'
  <2>1. CASE Finish(c) \/ LockTimeout(c) \/ Crash(c)
    BY <2>1, LeaveKeeps DEF Finish, LockTimeout, Crash
  <2>2. CASE \E p \in Pid : Spawn(c, p)
    BY <2>2, SpawnKeeps
  <2>3. QED
    BY <1>1, <2>1, <2>2, QuietCommandKeeps, SignalCommandKeeps, ChildExitedKeeps
    DEF CliStep, CommandStep, StopStep, StartStep
<1>2. CASE UNCHANGED vars
  <2>1. UNCHANGED <<st, port, parent, pc, todo, launched>>
    BY <1>2 DEF vars
  <2>2. PortInv'
    BY <2>1 DEF PortInv
  <2>3. QED
    BY <2>1, <2>2, EverybodyWatches DEF ChildOf
<1>3. QED
  BY <1>1, <1>2, OsKeeps DEF Next

(* Only a launcher's listener is retracked.                                *)
LEMMA NextRetracks ==
  ASSUME IInv, RelayInv, [Next]_vars
  PROVE  RelayInv'
<1>1. pc \in [Cli -> PC]
  BY DEF IInv, TypeOK
<1> SUFFICES ASSUME NEW c \in Cli, pc'[c] = "retrack"
             PROVE  CurrentKey(c)' \in RelayKey
  BY DEF RelayInv
<1>2. ASSUME pc[c] = "retrack", todo'[c] = todo[c]
      PROVE  CurrentKey(c)' \in RelayKey
  BY <1>2 DEF RelayInv, CurrentKey
<1>3. ASSUME NEW d \in Cli, CliStep(d) \/ Crash(d) \/ \E plan \in Plans : Begin(d, plan)
      PROVE  CurrentKey(c)' \in RelayKey
  <2>1. CASE d = c
    <3>1. AdoptListener(c)
      BY <1>1, <1>3, <2>1
      DEF CliStep, CommandStep, StopStep, StartStep, Crash, Begin, Leave, TakeRotationLock, NoRotationLock,
          Return, Finish, LockTimeout, BeginStop, KillTracked, PopRecord, BeginStart, ClearRelayPort, Spawn,
          SpawnFails, RecordSpawn, ReadyCheckPasses, ReadyCheckTimesOut, ChildExited, RefuseStaleListener,
          AcceptLaunched, Retrack, DropOwnRecord, Dispatch, ReturnFromStart, Goto
    <3> QED BY <3>1 DEF AdoptListener, ListenerAdopted, CurrentKey
  <2>2. CASE d # c
    <3>1. pc'[c] = pc[c] /\ todo'[c] = todo[c]
      <4>1. todo \in [Cli -> Seq(Op)]
        BY DEF IInv, TypeOK
      <4> QED BY <1>1, <1>3, <2>2, <4>1
      DEF CliStep, CommandStep, StopStep, StartStep, Crash, Begin, Leave, TakeRotationLock, NoRotationLock,
          Return, Finish, LockTimeout, BeginStop, KillTracked, PopRecord, BeginStart, ClearRelayPort, Spawn,
          SpawnFails, RecordSpawn, ReadyCheckPasses, ReadyCheckTimesOut, ChildExited, RefuseStaleListener,
          AcceptLaunched, AdoptListener, Retrack, DropOwnRecord, Dispatch, ReturnFromStart, Goto
    <3> QED BY <1>2, <3>1
  <2> QED BY <2>1, <2>2
<1>4. CASE OsStep
  BY <1>2, <1>4 DEF OsStep, ProcessExits, Listens, PidReused, HandsOver, ReapEarlierChild, cliVars
<1>5. CASE UNCHANGED vars
  BY <1>2, <1>5 DEF vars, cliVars
<1> QED BY <1>3, <1>4, <1>5 DEF Next

(* A start that returns success found its module running, has not seen it  *)
(* ready in time, has accepted what it launched or has retracked it.       *)
LEMMA WhoReturnsFromStart ==
  ASSUME IInv, Next, NEW c \in Cli, pc[c] \in LaunchPC \cup WatchPC \cup {"start"},
         pc'[c] = "returned", ok'[c]
  PROVE  BeginStart(c) \/ ReadyCheckTimesOut(c) \/ AcceptLaunched(c) \/ Retrack(c)
<1>1. pc \in [Cli -> PC] /\ ok \in [Cli -> BOOLEAN]
  BY DEF IInv, TypeOK
<1>2. pc[c] \in {"start", "clear", "spawn", "record", "ready", "verify", "drop", "retrack"}
  BY DEF LaunchPC, WatchPC
<1>3. ASSUME NEW d \in Cli, CliStep(d)
      PROVE  BeginStart(c) \/ ReadyCheckTimesOut(c) \/ AcceptLaunched(c) \/ Retrack(c)
  <2>1. d = c
    <3>1. ASSUME d # c
          PROVE  pc'[c] = pc[c]
      BY <1>1, <1>3, <3>1
      DEF CliStep, CommandStep, StopStep, StartStep, TakeRotationLock, NoRotationLock, Return,
          Finish, LockTimeout, Leave, BeginStop, KillTracked, PopRecord, BeginStart,
          ClearRelayPort, Spawn, SpawnFails, RecordSpawn, ReadyCheckPasses,
          ReadyCheckTimesOut, ChildExited, RefuseStaleListener, AcceptLaunched,
          AdoptListener, Retrack, DropOwnRecord, Dispatch, ReturnFromStart, Goto
    <3>2. QED
      BY <1>2, <3>1
  <2>2. ~SpawnFails(c) /\ ~DropOwnRecord(c)
    BY <1>1 DEF SpawnFails, DropOwnRecord, ReturnFromStart
  <2>3. QED
    BY <1>1, <1>2, <1>3, <2>1, <2>2
    DEF CliStep, CommandStep, StopStep, StartStep, TakeRotationLock, NoRotationLock, Return,
        Finish, LockTimeout, Leave, WaitsForRotation, WaitsForRegistry, BeginStop, KillTracked,
        PopRecord, ClearRelayPort, Spawn, RecordSpawn,
        ReadyCheckPasses, ChildExited, RefuseStaleListener, AdoptListener, Goto
<1>4. ASSUME NEW d \in Cli, Crash(d)
      PROVE  FALSE
  BY <1>1, <1>2, <1>4 DEF Crash, Leave, Goto
<1>5. ASSUME NEW d \in Cli, NEW plan \in Plans, Begin(d, plan)
      PROVE  FALSE
  BY <1>1, <1>2, <1>5 DEF Begin, Goto
<1>6. ~OsStep
  BY <1>2 DEF OsStep, ProcessExits, Listens, PidReused, HandsOver, ReapEarlierChild, cliVars
<1>7. QED
  BY <1>3, <1>4, <1>5, <1>6 DEF Next

(* A start of the Spawner that returns success leaves a record of a        *)
(* process that is there, its own unless it found one running; and one     *)
(* that says Ready was not answered by a stale listener                    *)
(* (spawner_ready_listener_conflict_detail).                               *)
THEOREM StartsAnswerTruly == Spec => StartAnswersTruly
<1> DEFINE Answers(c) ==
      LET k == CurrentKey(c) IN
      /\ pc[c] \in LaunchPC \cup WatchPC \cup {"start"} /\ k \in GuardedKey
      /\ pc'[c] = "returned" /\ ok'[c]
      => /\ Running(registry[k])'
         /\ pc[c] # "start" => registry'[k] = launched[c]
         /\ pc[c] = "verify" => port[k] \in {None, launched[c]}
<1>1. Init => PortInv /\ ChildInv /\ RelayInv
  BY DEF Init, PortInv, ChildInv, RelayInv, Watching
<1>2. ASSUME IInv, PortInv, ChildInv, RelayInv, [Next]_vars
      PROVE  PortInv' /\ ChildInv' /\ RelayInv'
  BY <1>2, NextWatches, NextRetracks
<1>3. ASSUME IInv, PortInv, ChildInv, RelayInv, Next, NEW c \in Cli
      PROVE  Answers(c)
  <2> DEFINE k == CurrentKey(c)
  <2> SUFFICES ASSUME pc[c] \in LaunchPC \cup WatchPC \cup {"start"}, k \in GuardedKey,
                      pc'[c] = "returned", ok'[c]
               PROVE  /\ Running(registry[k])'
                      /\ pc[c] # "start" => registry'[k] = launched[c]
                      /\ pc[c] = "verify" => port[k] \in {None, launched[c]}
    OBVIOUS
  <2>1. BeginStart(c) \/ ReadyCheckTimesOut(c) \/ AcceptLaunched(c) \/ Retrack(c)
    BY <1>3, WhoReturnsFromStart
  <2>2. ~Retrack(c)
    BY <1>3, KeyAssumption DEF Retrack, RelayInv
  <2>3. UNCHANGED <<registry, st, todo>>
    BY <2>1, <2>2 DEF BeginStart, ReadyCheckTimesOut, AcceptLaunched, osVars
  <2>4. k' = k /\ k \in Key /\ k \in BridgeKey
    BY <2>3, KeyAssumption DEF CurrentKey
  <2>5. CASE BeginStart(c)
    <3>1. pc[c] = "start" /\ Running(registry[k])
      BY <2>5, <1>3 DEF BeginStart, Goto, IInv, TypeOK
    <3> QED BY <2>3, <2>4, <3>1 DEF Running
  <2>6. CASE ReadyCheckTimesOut(c) \/ AcceptLaunched(c)
    <3>1. pc[c] \in {"ready", "verify"}
      BY <2>6 DEF ReadyCheckTimesOut, AcceptLaunched
    <3>2. registry[k] = launched[c]
      BY <1>3, <2>4, <3>1 DEF IInv, StartOwnsBridgeRecord, WatchPC, OwnsRecord
    <3>3. launched[c] \in Pid /\ Running(launched[c])
      BY <1>3, <3>1 DEF ChildInv, Watching, ChildOf, Running, IInv, StartInv, WatchPC, IsFor
    <3>4. Running(registry[k])'
      BY <2>3, <2>4, <3>2, <3>3 DEF Running
    <3>5. ASSUME pc[c] = "verify" PROVE port[k] \in {None, launched[c]}
      <4>1. AcceptLaunched(c)
        BY <2>6, <3>5 DEF ReadyCheckTimesOut
      <4>2. port[k] # None => Running(port[k])
        BY <1>3, <2>4 DEF PortInv, Running, IInv, TypeOK
      <4> QED BY <3>3, <4>1, <4>2 DEF AcceptLaunched, ListenerConflict
    <3> QED BY <2>3, <3>1, <3>2, <3>4, <3>5
  <2> QED BY <2>1, <2>2, <2>5, <2>6
<1> HIDE DEF Answers
<1>4. IInv /\ PortInv /\ ChildInv /\ RelayInv /\ [Next]_vars => [\A c \in Cli : Answers(c)]_vars
  BY <1>3
<1>5. Spec => [][\A c \in Cli : Answers(c)]_vars
  BY <1>1, <1>2, <1>4, IInvAlways, PTL DEF Spec
<1> QED BY <1>5 DEF StartAnswersTruly, Answers

=============================================================================
