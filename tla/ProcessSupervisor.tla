------------------------- MODULE ProcessSupervisor -------------------------
(***************************************************************************)
(* The process supervisor of spark-cli: several `spark` command-line       *)
(* invocations (Cli) start, stop, restart and remove the runtime processes *)
(* of installed modules.  They share the process registry pids.json, the   *)
(* registry lock (pid_file_lock), the bridge rotation lock                 *)
(* (process_log_lock on BRIDGE_ROTATION_LOCK_PATH) and the operating       *)
(* system's processes.  Both locks are flocks: the kernel releases them    *)
(* when their holder dies.                                                 *)
(*                                                                         *)
(* One action is one step of src/spark_cli/cli.py between two points where *)
(* another process can interfere: taking a lock, sending a signal,         *)
(* spawning a child, saving the registry, probing readiness.               *)
(***************************************************************************)
EXTENDS Naturals, Sequences

CONSTANTS
  Key,         \* process keys: module names, spark-telegram-bot:<profile>
  BridgeKey,   \* keys of BRIDGE_CONSUMER_MODULES: serialised by the rotation lock
  GuardedKey,  \* keys whose listener is verified after readiness (spawner-ui)
  RelayKey,    \* keys whose relay port is cleared before a launch (telegram)
  Cli,         \* command-line invocations
  Pid,         \* process ids the operating system hands out, each to one Spark process
  Plans,       \* the work lists commands expand to: sequences of Op
  None         \* absent record, no lock holder, no process

ASSUME KeyAssumption ==
  /\ BridgeKey \subseteq Key
  /\ GuardedKey \subseteq BridgeKey
  /\ RelayKey \subseteq BridgeKey
  /\ GuardedKey \cap RelayKey = {}

ASSUME NoneAssumption == None \notin Key \cup Cli \cup Pid

Op == [op : {"stop", "remove", "start"}, key : Key]

ASSUME PlanAssumption == Plans \subseteq Seq(Op)

(* The definitions named Name_Fault are faulty variants of the definition   *)
(* that follows them, used to show that a property notices the fault.      *)

VARIABLES
  registry,    \* pids.json: the pid tracked for each key
  st,          \* what each pid is: see Status
  keyOf,       \* the key each process was launched for
  parent,      \* the running Cli that spawned it and has to reap it
  port,        \* the process that listens on the port of each key
  pidLock,     \* holder of pid_file_lock
  rotLock,     \* holder of the bridge rotation lock
  pc, todo,    \* where each Cli is, and the operations it has still to do
  launched,    \* the Popen object of the start in progress
  runtime,     \* the listener discover_runtime_pid found for it
  ok,          \* what the last start or stop returned
  untracked    \* history: processes born outside the registry's protocol

osVars   == <<st, keyOf, parent, port>>
lockVars == <<pidLock, rotLock>>
cliVars  == <<pc, todo, launched, runtime, ok>>
vars     == <<registry, st, keyOf, parent, port, pidLock, rotLock,
              pc, todo, launched, runtime, ok, untracked>>

(* "doomed" was sent SIGKILL and has not exited yet; "zombie" has exited   *)
(* and its parent has not waited for it; "foreign" is another program of   *)
(* the same user to which the system gave the pid of a process long gone.  *)
Status == {"unused", "live", "doomed", "zombie", "gone", "foreign"}

StopPC   == {"stop", "kill", "pop"}
LaunchPC == {"clear", "spawn", "record"}
WatchPC  == {"ready", "verify", "drop", "retrack"}
PC == {"idle", "next", "returned", "start"} \cup StopPC \cup LaunchPC \cup WatchPC

(* pid_is_running is os.kill(pid, 0): it cannot tell a zombie or an        *)
(* unrelated process from a running module.                                *)
Running(p) == p \in Pid /\ st[p] \in {"live", "doomed", "zombie", "foreign"}

CurrentKey(c) == Head(todo[c]).key
CurrentOp(c)  == Head(todo[c]).op

Goto(c, label) == pc' = [pc EXCEPT ![c] = label]

----------------------------------------------------------------------------
(* The operating system.                                                   *)

(* A process ends: its port is free again, and it stays a zombie while the *)
(* Cli that spawned it is still running.                                   *)
ExitStatus(p) ==
  IF st[p] = "foreign" \/ parent[p] = None THEN "gone" ELSE "zombie"

Exits(p) ==
  /\ st' = [st EXCEPT ![p] = ExitStatus(p)]
  /\ port' = [k \in Key |-> IF port[k] = p THEN None ELSE port[k]]

(* stop_module and terminate_same_user_listener_on_port: SIGTERM, up to    *)
(* five seconds of polling, SIGKILL.  Nothing waits after SIGKILL, so the  *)
(* process may still be there when the call returns.                       *)
Signal(p) ==
  IF st[p] \in {"live", "doomed", "foreign"}
  THEN \/ Exits(p)
       \/ /\ st[p] # "foreign"
          /\ st' = [st EXCEPT ![p] = "doomed"]
          /\ UNCHANGED port
  ELSE UNCHANGED <<st, port>>

ProcessExits(p) ==
  /\ st[p] \in {"live", "doomed", "foreign"}
  /\ Exits(p)
  /\ UNCHANGED <<registry, keyOf, parent, lockVars, cliVars, untracked>>

Listens(p) ==
  /\ st[p] = "live"
  /\ port[keyOf[p]] = None
  /\ port' = [port EXCEPT ![keyOf[p]] = p]
  /\ UNCHANGED <<registry, st, keyOf, parent, lockVars, cliVars, untracked>>

(* A launcher forks the real runtime q and exits.                          *)
HandsOver(p, q) ==
  /\ st[p] = "live" /\ keyOf[p] \in RelayKey
  /\ st[q] = "unused"
  /\ st' = [st EXCEPT ![p] = ExitStatus(p), ![q] = "live"]
  /\ keyOf' = [keyOf EXCEPT ![q] = keyOf[p]]
  /\ port' = [k \in Key |-> IF port[k] = p THEN q ELSE port[k]]
  /\ untracked' = untracked \cup {q}
  /\ UNCHANGED <<registry, parent, lockVars, cliVars>>

(* The pid of a process that ended is given to another program.            *)
PidReused(p) ==
  /\ st[p] = "gone"
  /\ \E k \in Key : registry[k] = p
  /\ st' = [st EXCEPT ![p] = "foreign"]
  /\ UNCHANGED <<registry, keyOf, parent, port, lockVars, cliVars, untracked>>

----------------------------------------------------------------------------
(* The life of a command.                                                  *)

(* The invocation c is over, normally or not: its locks are released and   *)
(* its children are adopted, and reaped, by init.                          *)
Leave(c) ==
  /\ Goto(c, "idle")
  /\ todo' = [todo EXCEPT ![c] = <<>>]
  /\ launched' = [launched EXCEPT ![c] = None]
  /\ runtime' = [runtime EXCEPT ![c] = None]
  /\ ok' = [ok EXCEPT ![c] = TRUE]
  /\ pidLock' = IF pidLock = c THEN None ELSE pidLock
  /\ rotLock' = IF rotLock = c THEN None ELSE rotLock
  /\ st' = [p \in Pid |-> IF parent[p] = c /\ st[p] = "zombie" THEN "gone" ELSE st[p]]
  /\ parent' = [p \in Pid |-> IF parent[p] = c THEN None ELSE parent[p]]
  /\ UNCHANGED <<registry, keyOf, port>>

Begin(c, plan) ==
  /\ pc[c] = "idle"
  /\ todo' = [todo EXCEPT ![c] = plan]
  /\ Goto(c, "next")
  /\ UNCHANGED <<registry, osVars, lockVars, launched, runtime, ok, untracked>>

NeedsRotationLock_StopOnly(c) == CurrentOp(c) = "stop"

(* cmd_stop_plain takes the rotation lock for every target; start_module   *)
(* and stop_tracked_process_key (used by uninstall and update) take it for *)
(* bridge consumers only.                                                  *)
NeedsRotationLock(c) == CurrentOp(c) = "stop" \/ CurrentKey(c) \in BridgeKey

Dispatch(c) == Goto(c, IF CurrentOp(c) = "start" THEN "start" ELSE "stop")

TakeRotationLock(c) ==
  /\ pc[c] = "next" /\ todo[c] # <<>>
  /\ NeedsRotationLock(c)
  /\ rotLock = None
  /\ rotLock' = c
  /\ Dispatch(c)
  /\ UNCHANGED <<registry, osVars, pidLock, todo, launched, runtime, ok, untracked>>

NoRotationLock(c) ==
  /\ pc[c] = "next" /\ todo[c] # <<>>
  /\ ~NeedsRotationLock(c)
  /\ Dispatch(c)
  /\ UNCHANGED <<registry, osVars, lockVars, todo, launched, runtime, ok, untracked>>

(* A start or a stop returns to the command, which goes on with its next   *)
(* target.  One stop command keeps the rotation lock over all its targets. *)
KeepsRotationLock(c) ==
  /\ CurrentOp(c) = "stop"
  /\ Len(todo[c]) > 1
  /\ todo[c][2].op = "stop"

Return(c) ==
  /\ pc[c] = "returned"
  /\ todo' = [todo EXCEPT ![c] = Tail(todo[c])]
  /\ launched' = [launched EXCEPT ![c] = None]
  /\ runtime' = [runtime EXCEPT ![c] = None]
  /\ IF KeepsRotationLock(c)
     THEN Goto(c, "stop") /\ UNCHANGED rotLock
     ELSE Goto(c, "next") /\ rotLock' = IF rotLock = c THEN None ELSE rotLock
  /\ UNCHANGED <<registry, osVars, pidLock, ok, untracked>>

Finish(c) ==
  /\ pc[c] = "next" /\ todo[c] = <<>>
  /\ Leave(c)
  /\ UNCHANGED untracked

(* Both locks are polled with a deadline; missing it ends the command.     *)
WaitsForRotation(c) == pc[c] = "next" /\ todo[c] # <<>> /\ NeedsRotationLock(c)
WaitsForRegistry(c) == pc[c] \in {"stop", "start", "drop", "retrack"}

LockTimeout_RotationOnly(c) ==
  /\ WaitsForRotation(c) /\ rotLock # None
  /\ Leave(c)
  /\ UNCHANGED untracked

LockTimeout(c) ==
  /\ \/ WaitsForRotation(c) /\ rotLock # None
     \/ WaitsForRegistry(c) /\ pidLock # None
  /\ Leave(c)
  /\ UNCHANGED untracked

(* The command is killed or interrupted.  A child spawned but not yet      *)
(* saved in the registry is lost to it.                                    *)
Crash(c) ==
  /\ pc[c] # "idle"
  /\ untracked' = IF pc[c] = "record" THEN untracked \cup {launched[c]} ELSE untracked
  /\ Leave(c)

(* Popen.__init__ and subprocess.run poll the children whose Popen object  *)
(* has been dropped: those of earlier starts of the same command.          *)
ReapEarlierChild(c, p) ==
  /\ pc[c] \in LaunchPC \cup WatchPC \cup {"start"}
  /\ parent[p] = c /\ st[p] = "zombie" /\ launched[c] # p
  /\ st' = [st EXCEPT ![p] = "gone"]
  /\ UNCHANGED <<registry, keyOf, parent, port, lockVars, cliVars, untracked>>

----------------------------------------------------------------------------
(* _stop_tracked_process_key_unlocked                                      *)

BeginStop_ReturnsRecord(c) ==
  LET k == CurrentKey(c) IN
  /\ pc[c] = "stop"
  /\ pidLock = None
  /\ IF Running(registry[k])
     THEN pidLock' = c /\ Goto(c, "kill") /\ UNCHANGED <<registry, ok>>
     ELSE /\ registry' = [registry EXCEPT ![k] = None]
          /\ ok' = [ok EXCEPT ![c] = registry[k]]
          /\ Goto(c, "returned")
          /\ UNCHANGED pidLock
  /\ UNCHANGED <<osVars, rotLock, todo, launched, runtime, untracked>>

BeginStop(c) ==
  LET k == CurrentKey(c) IN
  /\ pc[c] = "stop"
  /\ pidLock = None
  /\ IF Running(registry[k])
     THEN pidLock' = c /\ Goto(c, "kill") /\ UNCHANGED <<registry, ok>>
     ELSE /\ registry' = [registry EXCEPT ![k] = None]
          /\ ok' = [ok EXCEPT ![c] = (registry[k] # None)]
          /\ Goto(c, "returned")
          /\ UNCHANGED pidLock
  /\ UNCHANGED <<osVars, rotLock, todo, launched, runtime, untracked>>

KillTracked_TermOnly(c) ==
  /\ pc[c] = "kill"
  /\ Goto(c, "pop")
  /\ UNCHANGED <<registry, osVars, lockVars, todo, launched, runtime, ok, untracked>>

KillTracked(c) ==
  /\ pc[c] = "kill"
  /\ Signal(registry[CurrentKey(c)])
  /\ Goto(c, "pop")
  /\ UNCHANGED <<registry, keyOf, parent, lockVars, todo, launched, runtime, ok, untracked>>

PopRecord(c) ==
  /\ pc[c] = "pop"
  /\ registry' = [registry EXCEPT ![CurrentKey(c)] = None]
  /\ pidLock' = None
  /\ ok' = [ok EXCEPT ![c] = TRUE]
  /\ Goto(c, "returned")
  /\ UNCHANGED <<osVars, rotLock, todo, launched, runtime, untracked>>

----------------------------------------------------------------------------
(* _start_module_unlocked                                                  *)

ReturnFromStart(c, result) ==
  /\ ok' = [ok EXCEPT ![c] = result]
  /\ Goto(c, "returned")

BeginStart_Unlocked(c) ==
  LET k == CurrentKey(c) IN
  /\ pc[c] = "start"
  /\ pidLock = None
  /\ IF Running(registry[k])
     THEN ReturnFromStart(c, TRUE)
     ELSE Goto(c, IF k \in RelayKey THEN "clear" ELSE "spawn") /\ UNCHANGED ok
  /\ UNCHANGED <<registry, osVars, lockVars, todo, launched, runtime, untracked>>

BeginStart(c) ==
  LET k == CurrentKey(c) IN
  /\ pc[c] = "start"
  /\ pidLock = None
  /\ IF Running(registry[k])
     THEN ReturnFromStart(c, TRUE) /\ UNCHANGED pidLock
     ELSE /\ pidLock' = c
          /\ Goto(c, IF k \in RelayKey THEN "clear" ELSE "spawn")
          /\ UNCHANGED ok
  /\ UNCHANGED <<registry, osVars, rotLock, todo, launched, runtime, untracked>>

ClearRelayPort(c) ==
  LET holder == port[CurrentKey(c)] IN
  /\ pc[c] = "clear"
  /\ IF holder = None THEN UNCHANGED <<st, port>> ELSE Signal(holder)
  /\ Goto(c, "spawn")
  /\ UNCHANGED <<registry, keyOf, parent, lockVars, todo, launched, runtime, ok, untracked>>

Spawn(c, p) ==
  /\ pc[c] = "spawn"
  /\ st[p] = "unused"
  /\ st' = [st EXCEPT ![p] = "live"]
  /\ keyOf' = [keyOf EXCEPT ![p] = CurrentKey(c)]
  /\ parent' = [parent EXCEPT ![p] = c]
  /\ launched' = [launched EXCEPT ![c] = p]
  /\ Goto(c, "record")
  /\ UNCHANGED <<registry, port, lockVars, todo, runtime, ok, untracked>>

(* Popen raises OSError: the registry is not saved.                        *)
SpawnFails(c) ==
  /\ pc[c] = "spawn"
  /\ pidLock' = None
  /\ ReturnFromStart(c, FALSE)
  /\ UNCHANGED <<registry, osVars, rotLock, todo, launched, runtime, untracked>>

RecordSpawn(c) ==
  /\ pc[c] = "record"
  /\ registry' = [registry EXCEPT ![CurrentKey(c)] = launched[c]]
  /\ pidLock' = None
  /\ Goto(c, "ready")
  /\ UNCHANGED <<osVars, rotLock, todo, launched, runtime, ok, untracked>>

(* wait_for_ready_check runs without the registry lock.  It passes when    *)
(* the module answers, and whoever holds its port can answer for it; a     *)
(* module that declares no check is ready at once.                         *)
ReadyCheckPasses(c) ==
  /\ pc[c] = "ready"
  /\ CurrentKey(c) \in GuardedKey =>
       st[launched[c]] = "live" \/ port[CurrentKey(c)] # None
  /\ Goto(c, "verify")
  /\ UNCHANGED <<registry, osVars, lockVars, todo, launched, runtime, ok, untracked>>

(* Not ready at the deadline, the child still running: a warning, and with *)
(* allow_boot_warnings a success.                                          *)
ReadyCheckTimesOut(c) ==
  /\ pc[c] = "ready"
  /\ st[launched[c]] \in {"live", "doomed"}
  /\ \E result \in BOOLEAN : ReturnFromStart(c, result)
  /\ UNCHANGED <<registry, osVars, lockVars, todo, launched, runtime, untracked>>

(* process.poll() reaps the child.  A command ready check is run once more *)
(* and may still pass for what the child left behind.                      *)
ChildExited(c) ==
  /\ pc[c] = "ready"
  /\ st[launched[c]] = "zombie"
  /\ st' = [st EXCEPT ![launched[c]] = "gone"]
  /\ \/ Goto(c, "drop")
     \/ CurrentKey(c) \notin GuardedKey /\ Goto(c, "verify")
  /\ UNCHANGED <<registry, keyOf, parent, port, lockVars, todo, launched, runtime, ok, untracked>>

ListenerConflict_Unchecked(c) == FALSE

(* spawner_ready_listener_conflict_detail: whoever listens on the port of  *)
(* a guarded key has to be the process just launched.                      *)
ListenerConflict(c) ==
  LET holder == port[CurrentKey(c)] IN
  /\ CurrentKey(c) \in GuardedKey
  /\ Running(launched[c])
  /\ Running(holder) /\ holder # launched[c]

RefuseStaleListener(c) ==
  /\ pc[c] = "verify"
  /\ ListenerConflict(c)
  /\ Signal(launched[c])
  /\ Goto(c, "drop")
  /\ UNCHANGED <<registry, keyOf, parent, lockVars, todo, launched, runtime, ok, untracked>>

(* discover_runtime_pid: the listener replaces a launcher that has exited. *)
ListenerAdopted(c) ==
  /\ ~Running(launched[c])
  /\ CurrentKey(c) \in RelayKey
  /\ Running(port[CurrentKey(c)])

AcceptLaunched(c) ==
  /\ pc[c] = "verify"
  /\ ~ListenerConflict(c) /\ ~ListenerAdopted(c)
  /\ ReturnFromStart(c, TRUE)
  /\ UNCHANGED <<registry, osVars, lockVars, todo, launched, runtime, untracked>>

AdoptListener(c) ==
  /\ pc[c] = "verify"
  /\ ~ListenerConflict(c) /\ ListenerAdopted(c)
  /\ runtime' = [runtime EXCEPT ![c] = port[CurrentKey(c)]]
  /\ Goto(c, "retrack")
  /\ UNCHANGED <<registry, osVars, lockVars, todo, launched, ok, untracked>>

OwnsRecord_Assumed(c) == registry[CurrentKey(c)] # None

OwnsRecord(c) == registry[CurrentKey(c)] = launched[c]

Retrack_KeepsLauncher(c) ==
  /\ pc[c] = "retrack"
  /\ pidLock = None
  /\ untracked' = IF OwnsRecord(c) THEN untracked \ {runtime[c]} ELSE untracked
  /\ ReturnFromStart(c, TRUE)
  /\ UNCHANGED <<registry, osVars, lockVars, todo, launched, runtime>>

(* update_tracked_runtime_pid *)
Retrack(c) ==
  /\ pc[c] = "retrack"
  /\ pidLock = None
  /\ IF OwnsRecord(c)
     THEN /\ registry' = [registry EXCEPT ![CurrentKey(c)] = runtime[c]]
          /\ untracked' = untracked \ {runtime[c]}
     ELSE UNCHANGED <<registry, untracked>>
  /\ ReturnFromStart(c, TRUE)
  /\ UNCHANGED <<osVars, lockVars, todo, launched, runtime>>

(* The start failed: its record goes, unless another start replaced it.    *)
DropOwnRecord(c) ==
  /\ pc[c] = "drop"
  /\ pidLock = None
  /\ registry' = IF OwnsRecord(c)
                 THEN [registry EXCEPT ![CurrentKey(c)] = None]
                 ELSE registry
  /\ ReturnFromStart(c, FALSE)
  /\ UNCHANGED <<osVars, lockVars, todo, launched, runtime, untracked>>

----------------------------------------------------------------------------
Init ==
  /\ registry = [k \in Key |-> None]
  /\ st = [p \in Pid |-> "unused"]
  /\ keyOf = [p \in Pid |-> None]
  /\ parent = [p \in Pid |-> None]
  /\ port = [k \in Key |-> None]
  /\ pidLock = None /\ rotLock = None
  /\ pc = [c \in Cli |-> "idle"]
  /\ todo = [c \in Cli |-> <<>>]
  /\ launched = [c \in Cli |-> None]
  /\ runtime = [c \in Cli |-> None]
  /\ ok = [c \in Cli |-> TRUE]
  /\ untracked = {}

StopStep(c) == BeginStop(c) \/ KillTracked(c) \/ PopRecord(c)

StartStep(c) ==
  \/ BeginStart(c) \/ ClearRelayPort(c)
  \/ \E p \in Pid : Spawn(c, p)
  \/ SpawnFails(c) \/ RecordSpawn(c)
  \/ ReadyCheckPasses(c) \/ ReadyCheckTimesOut(c) \/ ChildExited(c)
  \/ RefuseStaleListener(c) \/ AcceptLaunched(c) \/ AdoptListener(c)
  \/ Retrack(c) \/ DropOwnRecord(c)

CommandStep(c) ==
  \/ TakeRotationLock(c) \/ NoRotationLock(c) \/ Return(c) \/ Finish(c)
  \/ LockTimeout(c)

CliStep(c) == CommandStep(c) \/ StopStep(c) \/ StartStep(c)

OsStep ==
  \E p \in Pid :
    \/ ProcessExits(p) \/ Listens(p) \/ PidReused(p)
    \/ \E q \in Pid : HandsOver(p, q)
    \/ \E c \in Cli : ReapEarlierChild(c, p)

Next ==
  \/ \E c \in Cli : CliStep(c) \/ Crash(c)
  \/ \E c \in Cli, plan \in Plans : Begin(c, plan)
  \/ OsStep

Spec == Init /\ [][Next]_vars

(* Every loop of a command has a deadline (ready check, SIGTERM grace,     *)
(* lock wait), so a command that is not killed keeps taking steps.         *)
FairSpec == Spec /\ \A c \in Cli : WF_vars(CliStep(c))

----------------------------------------------------------------------------
(* Correctness.                                                            *)

(* Every variable stays in its domain; the registry, the ports and the     *)
(* Popen objects only ever name processes or nothing.                      *)
TypeOK ==
  /\ registry \in [Key -> Pid \cup {None}]
  /\ st \in [Pid -> Status]
  /\ keyOf \in [Pid -> Key \cup {None}]
  /\ parent \in [Pid -> Cli \cup {None}]
  /\ port \in [Key -> Pid \cup {None}]
  /\ pidLock \in Cli \cup {None}
  /\ rotLock \in Cli \cup {None}
  /\ pc \in [Cli -> PC]
  /\ todo \in [Cli -> Seq(Op)]
  /\ launched \in [Cli -> Pid \cup {None}]
  /\ runtime \in [Cli -> Pid \cup {None}]
  /\ ok \in [Cli -> BOOLEAN]
  /\ untracked \subseteq Pid

(* No running module is ever forgotten: apart from a child lost in a crash *)
(* before the save, or forked by a launcher and not adopted, a live        *)
(* process is the one pids.json names for its key, or its starter is about *)
(* to save it under the lock.  A start that fails late removes only its    *)
(* own record, however many starts and stops came between.                 *)
LiveIsTracked ==
  \A p \in Pid : st[p] = "live" /\ p \notin untracked =>
    \/ registry[keyOf[p]] = p
    \/ \E c \in Cli : pc[c] = "record" /\ launched[c] = p

(* Two invocations racing to start one module never leave two copies of it *)
(* running: the check that nothing runs, the spawn and the save are one    *)
(* critical section of pid_file_lock.                                      *)
OneLivePerKey ==
  \A p, q \in Pid :
    /\ st[p] = "live" /\ p \notin untracked
    /\ st[q] = "live" /\ q \notin untracked
    /\ keyOf[p] = keyOf[q]
    => p = q

(* While a bridge consumer is being started, from the save until the start *)
(* returns, no other command stops it, replaces it or rewrites its record: *)
(* start_module holds the rotation lock across the readiness wait, where   *)
(* the registry lock is free.                                              *)
StartOwnsBridgeRecord ==
  \A c \in Cli :
    pc[c] \in WatchPC /\ CurrentKey(c) \in BridgeKey => OwnsRecord(c)

(* A start of the Spawner that returns success leaves pids.json naming a   *)
(* process that is there: the one it found ("already running"), or else    *)
(* the one it launched, which no other command has replaced during the     *)
(* wait.  One that says Ready was not answered by a stale listener: the    *)
(* port is its own or nobody's.  The other two successes, already running  *)
(* and not ready with boot warnings allowed, look at no port.              *)
StartAnswersTruly ==
  [][\A c \in Cli :
       LET k == CurrentKey(c) IN
       /\ pc[c] \in LaunchPC \cup WatchPC \cup {"start"} /\ k \in GuardedKey
       /\ pc'[c] = "returned" /\ ok'[c]
       => /\ Running(registry[k])'
          /\ pc[c] # "start" => registry'[k] = launched[c]
          /\ pc[c] = "verify" => port[k] \in {None, launched[c]}]_vars

(* A stop that reports success has ended the process it found, or sent it  *)
(* SIGKILL: it never drops the record of a process it left running.        *)
StopEndsProcess ==
  [][\A c \in Cli : pc[c] \in StopPC /\ pc'[c] = "returned" =>
       \A p \in Pid : registry[CurrentKey(c)] = p => st[p] # "live"]_vars

(* Every command ends, whatever the other commands and the processes do:   *)
(* no wait for a lock, for readiness or for a signal is unbounded.         *)
CommandsFinish == \A c \in Cli : pc[c] # "idle" ~> pc[c] = "idle"

----------------------------------------------------------------------------
(* The inductive invariant behind the theorems: who holds which lock where *)
(* in a start or a stop, and what each record, port and child refers to.   *)
Busy(c) == pc[c] \notin {"idle", "next"}

WorkInv == \A c \in Cli : Busy(c) => todo[c] # <<>>

LockInv ==
  \A c \in Cli :
    /\ pc[c] \in {"kill", "pop"} \cup LaunchPC => pidLock = c
    /\ Busy(c) /\ NeedsRotationLock(c) => rotLock = c

(* p is a process that was launched for k.                                 *)
IsFor(p, k) == p \in Pid /\ keyOf[p] = k /\ st[p] # "unused"

ReferenceInv ==
  /\ \A p \in Pid : st[p] # "unused" => keyOf[p] \in Key
  /\ \A k \in Key : /\ registry[k] # None => IsFor(registry[k], k)
                    /\ port[k] # None => IsFor(port[k], k)

NoRecordOfLive(k) == registry[k] # None => st[registry[k]] # "live"

StopInv ==
  \A c \in Cli :
    /\ pc[c] \in {"kill", "pop"} => registry[CurrentKey(c)] # None
    /\ pc[c] = "pop" => NoRecordOfLive(CurrentKey(c))

StartInv ==
  \A c \in Cli :
    /\ pc[c] \in LaunchPC => NoRecordOfLive(CurrentKey(c))
    /\ pc[c] \in WatchPC \cup {"record"} => IsFor(launched[c], CurrentKey(c))
    /\ pc[c] \in {"drop", "retrack"} => st[launched[c]] # "live"
    /\ pc[c] = "retrack" => IsFor(runtime[c], CurrentKey(c))

IInv ==
  /\ TypeOK /\ WorkInv /\ LockInv /\ ReferenceInv /\ StopInv /\ StartInv
  /\ StartOwnsBridgeRecord /\ LiveIsTracked

(* Up to the verification of its listener, the child of a start is there,  *)
(* if only as a zombie: the command that has to reap it is not done with   *)
(* it.  Ports are held by processes that run.                              *)
Watching(c) ==
  \/ pc[c] \in {"record", "ready"}
  \/ pc[c] = "verify" /\ CurrentKey(c) \in GuardedKey

ChildOf(c, p) == parent[p] = c /\ st[p] \in {"live", "doomed", "zombie"}

PortInv == \A k \in Key : port[k] # None => st[port[k]] \in {"live", "doomed"}

ChildInv == \A c \in Cli : Watching(c) => ChildOf(c, launched[c])

(* Only a launcher is retracked.                                           *)
RelayInv == \A c \in Cli : pc[c] = "retrack" => CurrentKey(c) \in RelayKey

=============================================================================
