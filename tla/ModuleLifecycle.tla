--------------------------- MODULE ModuleLifecycle ---------------------------
(***************************************************************************)
(* Installed modules of spark-cli over their life: install and setup of a  *)
(* bundle with --resume, update to the registry pins, uninstall.  One such *)
(* command runs at a time (op), step by step between its file and git      *)
(* operations, and can be killed between any two; meanwhile other          *)
(* invocations start and stop modules (in one step here: the module        *)
(* ProcessSupervisor has their detail).                                    *)
(*                                                                         *)
(* Each of installed.json and install_progress.json is replaced atomically *)
(* by save_json; a load-change-save of one file is one step.  The modules  *)
(* that setup.json names, which no command here reads, are left out.  All  *)
(* modules are pinned git modules under ~/.spark/modules.                  *)
(***************************************************************************)
EXTENDS ModuleSource, Sequences, SequencesExt

CONSTANTS
  Module,       \* names of registry modules
  Bundle,       \* bundles: sequences of modules
  Needs,        \* the needs.modules edges <<module, dependency>>
  Hooked,       \* the modules with a post_uninstall hook
  MaxKills,     \* bound: commands killed half-way
  MaxChanges    \* bound: edits by the user and changes of a registry pin

ASSUME LifecycleAssumption ==
  /\ Bundle \subseteq Seq(Module)
  /\ Needs \subseteq Module \X Module
  /\ Hooked \subseteq Module
  /\ MaxKills \in Nat /\ MaxChanges \in Nat

VARIABLES
  pin,       \* commit of each module in the registry shipped with the CLI
  tree,      \* checkout of each module
  record,    \* installed.json: its registry_commit, 0 if not recorded
  progress,  \* install_progress.json: modules whose install_commands step is
             \* recorded as completed
  proc,      \* commit of the code each running module was started from, 0 none
  op,        \* the running command
  cut,       \* history: modules whose uninstall was killed after it began to
             \* remove files
  kills, changes

vars == <<pin, tree, record, progress, proc, op, cut, kills, changes>>

Idle == [cmd |-> "none", at |-> "idle", mods |-> <<>>, todo |-> <<>>, known |-> {},
         resume |-> FALSE, skip |-> FALSE, rerun |-> FALSE, allow |-> FALSE,
         passed |-> {}, stopped |-> {}, note |-> "none"]

Command(cmd, at, mods) == [Idle EXCEPT !.cmd = cmd, !.at = at, !.mods = mods, !.todo = mods]

Mods == ToSet(op.mods)
Installed == {m \in Module : record[m] # 0}
Dependencies(ms) == {d \in Module : \E m \in ms : <<m, d>> \in Needs}
Current == Head(op.todo)

(* resolve_installed_modules raises on the first record without manifest,  *)
(* and with it every command that needs the installed modules.             *)
Loadable == \A m \in Installed : HasManifest(tree[m])

Go(at) == op' = [op EXCEPT !.at = at]
GoOn(at) == op' = [op EXCEPT !.at = at, !.todo = Tail(@)]
Finish(result) ==
  op' = [Command(op.cmd, result, op.mods) EXCEPT
           !.todo = <<>>, !.known = op.known, !.skip = op.skip, !.rerun = op.rerun, !.passed = op.passed]
SetTree(t) == tree' = [tree EXCEPT ![Current] = t]

Init ==
  /\ pin \in [Module -> {1}]
  /\ tree = [m \in Module |-> Absent]
  /\ record = [m \in Module |-> 0]
  /\ progress = {} /\ cut = {}
  /\ proc = [m \in Module |-> 0]
  /\ op = Idle
  /\ kills = 0 /\ changes = 0

-----------------------------------------------------------------------------
(* spark install <module|bundle> and the install part of spark setup.      *)

Target == Bundle \cup {<<m>> : m \in Module}

(* With --resume, --skip-install-commands; rerun: with                     *)
(* --run-install-commands, which a setup has.                              *)
BeginInstall(cmd, mods, resume, skip, rerun) ==
  /\ op = Idle /\ Loadable
  /\ cmd = "setup" => mods \in Bundle
  /\ rerun => cmd = "setup" /\ ~skip
  /\ op' = [Command(cmd, "fetch", mods) EXCEPT
              !.known = Installed, !.resume = resume, !.skip = skip, !.rerun = rerun]
  /\ UNCHANGED <<pin, tree, record, progress, proc, cut, kills, changes>>

(* discover_modules takes a checkout with a manifest as it is, whatever    *)
(* its commit; only the others are cloned (resolve_install_target).        *)
FetchModule ==
  /\ op.at = "fetch" /\ op.todo # <<>>
  /\ IF HasManifest(tree[Current])
     THEN GoOn("fetch") /\ UNCHANGED tree
     ELSE \E o \in Clone(tree[Current], pin[Current]) :
            /\ SetTree(o.tree)
            /\ IF o.ok THEN GoOn("fetch") ELSE Finish("failed")
  /\ UNCHANGED <<pin, record, progress, proc, cut, kills, changes>>

(* Manifests, ingress owner, capability conflicts and needs, runtime       *)
(* versions: any of them can refuse, which is a choice here.               *)
CheckInstall ==
  /\ op.at = "fetch" /\ op.todo = <<>>
  /\ op' = [op EXCEPT !.at = "run", !.todo = op.mods] \/ Finish("failed")
  /\ UNCHANGED <<pin, tree, record, progress, proc, cut, kills, changes>>

(* setup_should_run_install_commands, run_install_commands_with_progress *)
SkipsCommands(m) ==
  \/ op.skip
  \/ op.cmd = "setup" /\ ~op.rerun /\ m \in op.known
  \/ op.resume /\ m \in progress

SkipCommands ==
  /\ op.at = "run" /\ op.todo # <<>>
  /\ SkipsCommands(Current)
  /\ op' = [op EXCEPT !.todo = Tail(@),
                      !.passed = IF op.resume /\ Current \in progress THEN @ \cup {Current} ELSE @]
  /\ UNCHANGED <<pin, tree, record, progress, proc, cut, kills, changes>>

(* The commands change the directory step by step: from their start until  *)
(* their success nothing is built.                                         *)
StartCommands ==
  /\ op.at = "run" /\ op.todo # <<>>
  /\ ~SkipsCommands(Current)
  /\ SetTree([tree[Current] EXCEPT !.built = 0])
  /\ Go("running")
  /\ UNCHANGED <<pin, record, progress, proc, cut, kills, changes>>

CommandsSucceed ==
  /\ op.at = "running"
  /\ SetTree([tree[Current] EXCEPT !.built = tree[Current].head])
  /\ Go("ran")
  /\ UNCHANGED <<pin, record, progress, proc, cut, kills, changes>>

(* record_install_failure notes the failed step and keeps the completed    *)
(* ones.  The trust scan of a module may refuse it as well.                *)
CommandsFail ==
  /\ op.at \in {"run", "running"} /\ op.todo # <<>>
  /\ Finish("failed")
  /\ UNCHANGED <<pin, tree, record, progress, proc, cut, kills, changes>>

RecordStep_AndModule == \* each module is recorded as soon as it is built
  /\ op.at = "ran"
  /\ progress' = progress \cup {Current}
  /\ record' = [record EXCEPT ![Current] = pin[Current]]
  /\ GoOn("run")
  /\ UNCHANGED <<pin, tree, proc, cut, kills, changes>>

(* record_install_step *)
RecordStep ==
  /\ op.at = "ran"
  /\ progress' = progress \cup {Current}
  /\ GoOn("run")
  /\ UNCHANGED <<pin, tree, record, proc, cut, kills, changes>>

AllRun ==
  /\ op.at = "run" /\ op.todo = <<>>
  /\ op' = [op EXCEPT !.at = "record", !.todo = op.mods, !.resume = FALSE]
  /\ UNCHANGED <<pin, tree, record, progress, proc, cut, kills, changes>>

(* install_module_record writes the registry's commit, not the head. *)
RecordModule ==
  /\ op.at = "record" /\ op.todo # <<>>
  /\ record' = [record EXCEPT ![Current] = pin[Current]]
  /\ Go("clear")
  /\ UNCHANGED <<pin, tree, progress, proc, cut, kills, changes>>

ClearProgress ==
  /\ op.at = "clear"
  /\ progress' = progress \ {Current}
  /\ GoOn("record")
  /\ UNCHANGED <<pin, tree, record, proc, cut, kills, changes>>

AllRecorded ==
  /\ op.at = "record" /\ op.todo = <<>>
  /\ IF op.cmd = "setup" THEN Go("configure") ELSE Finish("ok")
  /\ UNCHANGED <<pin, tree, record, progress, proc, cut, kills, changes>>

(* The rest of a setup: the extras of the memory sidecar, the runtime      *)
(* configuration, autostart and the start (as StartModule).  Any of them   *)
(* can fail it, and the modules stay recorded.                             *)
ConfigureSetup ==
  /\ op.at = "configure"
  /\ Finish("ok") \/ Finish("failed")
  /\ UNCHANGED <<pin, tree, record, progress, proc, cut, kills, changes>>

-----------------------------------------------------------------------------
(* spark update [target]: for each module in turn, the steps of UpdateOrder. *)

UpdateOrder_StopFirst == <<"halt", "pull", "build", "hook", "enter">>

UpdateOrder == <<"pull", "halt", "build", "hook", "enter">>

UninstallOrder_AsDesigned == <<"pre", "halt", "erase", "post", "forget">>

UninstallOrder == <<"pre", "halt", "erase", "forget", "post">>

Order == IF op.cmd = "update" THEN UpdateOrder ELSE UninstallOrder

(* The step after op.at of the same module, or the first of the next one. *)
Proceed(o) ==
  LET i == CHOOSE n \in DOMAIN Order : Order[n] = o.at IN
  op' = IF i < Len(Order)
        THEN [o EXCEPT !.at = Order[i + 1]]
        ELSE [o EXCEPT !.at = Order[1], !.todo = Tail(@)]

(* The modules of mods that are not in S, in the order of mods. *)
Without(mods, S) ==
  LET kept == {i \in DOMAIN mods : mods[i] \notin S}
      picks == UNION {[1 .. n -> kept] : n \in 0 .. Len(mods)}
  IN
  {[i \in DOMAIN f |-> mods[f[i]]] :
     f \in {f \in picks : /\ kept \subseteq {f[i] : i \in DOMAIN f}
                           /\ \A i, j \in DOMAIN f : i < j => f[i] < f[j]}}

(* The preflight: with dirty clones the command stashes the edits, leaves  *)
(* those modules out, or returns before it touches anything.               *)
BeginUpdate(mods, onDirty, allow, skip) ==
  LET dirty == {m \in ToSet(mods) : tree[m].dirty} IN
  /\ op = Idle /\ Loadable /\ ToSet(mods) \subseteq Installed
  /\ dirty # {} => onDirty \in {"stash", "skip"}
  /\ \E left \in Without(mods, IF onDirty = "skip" THEN dirty ELSE {}) \ {<<>>} :
       op' = [Command("update", UpdateOrder[1], left) EXCEPT !.allow = allow, !.skip = skip]
  /\ tree' = [m \in Module |-> [tree[m] EXCEPT !.dirty = @ /\ ~(m \in dirty /\ onDirty = "stash")]]
  /\ UNCHANGED <<pin, record, progress, proc, cut, kills, changes>>

At(cmd, step) == op.cmd = cmd /\ op.at = step /\ op.todo # <<>>

AfterPull_SkipsPinned(o, unmoved) ==
  IF unmoved THEN op' = [o EXCEPT !.todo = Tail(@)] ELSE Proceed(o)

(* A module that was at its pin already goes through all the steps, too. *)
AfterPull(o, unmoved) == Proceed(o)

PullModule ==
  /\ At("update", "pull")
  /\ \E deepened \in BOOLEAN :
     \E r \in Update(tree[Current], pin[Current], op.allow, deepened) :
       /\ SetTree(r.tree)
       /\ IF r.ok
          THEN AfterPull([op EXCEPT !.note = IF deepened THEN "none" ELSE "ancestry undecidable"],
                         r.tree = tree[Current])
          ELSE Finish("failed")
  /\ UNCHANGED <<pin, record, progress, proc, cut, kills, changes>>

(* Its tracked processes are stopped: in update and in uninstall. *)
HaltModule ==
  /\ At("update", "halt") \/ At("uninstall", "halt")
  /\ proc' = [proc EXCEPT ![Current] = 0]
  /\ Proceed([op EXCEPT !.note = "none",
                         !.stopped = IF proc[Current] = 0 THEN @ ELSE @ \cup {Current}])
  /\ UNCHANGED <<pin, tree, record, progress, cut, kills, changes>>

BuildModule ==
  /\ At("update", "build")
  /\ IF op.skip THEN Proceed(op) /\ UNCHANGED tree
     ELSE SetTree([tree[Current] EXCEPT !.built = 0]) /\ Go("building")
  /\ UNCHANGED <<pin, record, progress, proc, cut, kills, changes>>

Built ==
  /\ At("update", "building")
  /\ \/ /\ SetTree([tree[Current] EXCEPT !.built = tree[Current].head])
        /\ Proceed([op EXCEPT !.at = "build"])
     \/ Finish("failed") /\ UNCHANGED tree
  /\ UNCHANGED <<pin, record, progress, proc, cut, kills, changes>>

(* post_install of an update, pre_uninstall of an uninstall. *)
RunHook ==
  /\ At("update", "hook") \/ At("uninstall", "pre")
  /\ Proceed(op) \/ Finish("failed")
  /\ UNCHANGED <<pin, tree, record, progress, proc, cut, kills, changes>>

EnterRecord ==
  /\ At("update", "enter")
  /\ record' = [record EXCEPT ![Current] = pin[Current]]
  /\ Proceed(op)
  /\ UNCHANGED <<pin, tree, progress, proc, cut, kills, changes>>

(* With SPARK_AUTOSTART what was stopped is started again, as far as it    *)
(* gets ready (update_should_restart_live).                                *)
UpdateEnds ==
  /\ op.cmd = "update" /\ op.at = UpdateOrder[1] /\ op.todo = <<>>
  /\ \E S \in SUBSET op.stopped :
       proc' = [m \in Module |-> IF m \in S THEN tree[m].head ELSE proc[m]]
  /\ Finish("ok")
  /\ UNCHANGED <<pin, tree, record, progress, cut, kills, changes>>

-----------------------------------------------------------------------------
(* spark uninstall [target]: the steps of UninstallOrder for each module.  *)

BeginUninstall(mods, force) ==
  /\ op = Idle /\ Loadable /\ ToSet(mods) \subseteq Installed
  /\ force \/ Dependencies(Installed \ ToSet(mods)) \cap ToSet(mods) = {}
  /\ op' = Command("uninstall", UninstallOrder[1], mods)
  /\ UNCHANGED <<pin, tree, record, progress, proc, cut, kills, changes>>

(* remove_module_clone *)
EraseClone ==
  /\ At("uninstall", "erase")
  /\ SetTree(Absent)
  /\ Proceed(op)
  /\ UNCHANGED <<pin, record, progress, proc, cut, kills, changes>>

ForgetRecord_PopsEntry ==
  /\ At("uninstall", "forget")
  /\ record' = [m \in Module \ {Current} |-> record[m]]
  /\ cut' = cut \ {Current}
  /\ Proceed(op)
  /\ UNCHANGED <<pin, tree, progress, proc, kills, changes>>

(* remove_module_record *)
ForgetRecord ==
  /\ At("uninstall", "forget")
  /\ record' = [record EXCEPT ![Current] = 0]
  /\ cut' = cut \ {Current}
  /\ Proceed(op)
  /\ UNCHANGED <<pin, tree, progress, proc, kills, changes>>

(* The hook is run in the module's directory, which is gone: it cannot be  *)
(* started, and the command ends here.                                     *)
PostHook ==
  /\ At("uninstall", "post")
  /\ IF Current \in Hooked /\ tree[Current].phase = "absent" THEN Finish("failed") ELSE Proceed(op)
  /\ UNCHANGED <<pin, tree, record, progress, proc, cut, kills, changes>>

UninstallEnds ==
  /\ op.cmd = "uninstall" /\ op.at = UninstallOrder[1] /\ op.todo = <<>>
  /\ Finish("ok")
  /\ UNCHANGED <<pin, tree, record, progress, proc, cut, kills, changes>>

-----------------------------------------------------------------------------
End ==
  /\ op.at \in {"ok", "failed"}
  /\ op' = Idle
  /\ UNCHANGED <<pin, tree, record, progress, proc, cut, kills, changes>>

(* What a kill leaves of the tree the command is changing. *)
Cut(t) ==
  CASE op.at = "fetch" -> Clone_Cut(t)
    [] op.at = "pull"  -> Update_Cut(t, pin[Current])
    [] op.at = "erase" -> Erase_Cut(t)
    [] OTHER           -> {t}

Kill ==
  /\ op.at \notin {"idle", "ok", "failed"} /\ op.todo # <<>>
  /\ kills < MaxKills
  /\ \E t \in Cut(tree[Current]) : SetTree(t)
  /\ cut' = IF op.at \in {"erase", "forget"} THEN cut \cup {Current} ELSE cut
  /\ op' = Idle
  /\ kills' = kills + 1
  /\ UNCHANGED <<pin, record, progress, proc, changes>>

-----------------------------------------------------------------------------
(* Other invocations, the user and new releases of the CLI.                *)

(* resolve_start_modules: the modules that m needs, itself included. *)
StartSet ==
  [m \in Module |->
     {n \in Module : \A S \in SUBSET Module : m \in S /\ Dependencies(S) \subseteq S => n \in S}]

(* What does not run yet is started, as far as it gets ready. *)
StartModule(m) ==
  /\ Loadable /\ StartSet[m] \subseteq Installed
  /\ \E S \in SUBSET {n \in StartSet[m] : proc[n] = 0} \ {{}} :
       proc' = [n \in Module |-> IF n \in S THEN tree[n].head ELSE proc[n]]
  /\ UNCHANGED <<pin, tree, record, progress, op, cut, kills, changes>>

StopModule(m) ==
  /\ proc[m] # 0
  /\ proc' = [proc EXCEPT ![m] = 0]
  /\ UNCHANGED <<pin, tree, record, progress, op, cut, kills, changes>>

(* spark fix modules --clean *)
FixModules ==
  /\ op = Idle /\ \E m \in Module : IsOrphan(tree[m])
  /\ tree' = [m \in Module |-> IF IsOrphan(tree[m]) THEN Absent ELSE tree[m]]
  /\ UNCHANGED <<pin, record, progress, proc, op, cut, kills, changes>>

(* The user moves a checkout aside that a clone refuses to resume. *)
MoveAside(m) ==
  /\ op = Idle /\ tree[m].phase \in {"plain", "partial"}
  /\ tree' = [tree EXCEPT ![m] = Absent]
  /\ UNCHANGED <<pin, record, progress, proc, op, cut, kills, changes>>

(* The user edits files of a checkout, or takes the edits back. *)
Edit(m) ==
  /\ op = Idle /\ changes < MaxChanges /\ HasManifest(tree[m])
  /\ tree' = [tree EXCEPT ![m].dirty = ~@]
  /\ changes' = changes + 1
  /\ UNCHANGED <<pin, record, progress, proc, op, cut, kills>>

Release(m, c) ==
  /\ op = Idle /\ changes < MaxChanges /\ c # pin[m]
  /\ pin' = [pin EXCEPT ![m] = c]
  /\ changes' = changes + 1
  /\ UNCHANGED <<tree, record, progress, proc, op, cut, kills>>

-----------------------------------------------------------------------------
InstallStep ==
  \/ FetchModule \/ CheckInstall
  \/ SkipCommands \/ StartCommands \/ CommandsSucceed \/ CommandsFail \/ RecordStep \/ AllRun
  \/ RecordModule \/ ClearProgress \/ AllRecorded \/ ConfigureSetup

UpdateStep ==
  PullModule \/ BuildModule \/ Built \/ EnterRecord \/ UpdateEnds

UninstallStep ==
  EraseClone \/ ForgetRecord \/ PostHook \/ UninstallEnds

CommandStep ==
  InstallStep \/ UpdateStep \/ UninstallStep \/ HaltModule \/ RunHook \/ End

Begin ==
  \E mods \in Target :
    \/ \E cmd \in {"install", "setup"}, resume, skip, rerun \in BOOLEAN :
         BeginInstall(cmd, mods, resume, skip, rerun)
    \/ \E onDirty \in {"stop", "stash", "skip"}, allow, skip \in BOOLEAN :
         BeginUpdate(mods, onDirty, allow, skip)
    \/ \E force \in BOOLEAN : BeginUninstall(mods, force)

Environment ==
  \/ FixModules
  \/ \E m \in Module : StartModule(m) \/ StopModule(m) \/ MoveAside(m) \/ Edit(m)
  \/ \E m \in Module, c \in Commit : Release(m, c)

Next == Begin \/ CommandStep \/ Kill \/ Environment

Spec == Init /\ [][Next]_vars

-----------------------------------------------------------------------------
TypeOK ==
  /\ pin \in [Module -> Commit]
  /\ tree \in [Module -> Tree]
  /\ record \in [Module -> 0 .. MaxCommit]
  /\ proc \in [Module -> 0 .. MaxCommit]
  /\ progress \subseteq Module /\ cut \subseteq Module
  /\ op.mods \in Seq(Module) /\ op.todo \in Seq(Module)
  /\ op.known \subseteq Module /\ op.stopped \subseteq Module
  /\ kills \in 0 .. MaxKills /\ changes \in 0 .. MaxChanges

(* When an update has ended well, a module it updated runs the code it was *)
(* updated to or does not run, although other invocations start modules    *)
(* all the while: the checkout moves before the processes are stopped.     *)
UpdateReplacesRunningCode ==
  op.cmd = "update" /\ op.at = "ok" =>
    \A m \in Mods : proc[m] \in {0, tree[m].head}

(* When an update has ended well, its modules are at the registry pin, and *)
(* their install commands have completed on that very commit, whatever     *)
(* earlier updates were killed or failed half-way.                         *)
UpdateIsComplete ==
  op.cmd = "update" /\ op.at = "ok" =>
    \A m \in Mods : /\ tree[m].head = pin[m] /\ record[m] = pin[m]
                    /\ op.skip \/ tree[m].built = tree[m].head

(* Recorded modules whose manifest is gone: the first of them makes every  *)
(* command fail that needs the installed modules, uninstall included.      *)
Unloadable == {m \in Installed : ~HasManifest(tree[m])}
BeingErased == IF op.cmd = "uninstall" /\ op.at \in {"erase", "forget"} THEN {Current} ELSE {}

(* While a command runs, whatever it does and was done before, the only    *)
(* recorded module without a manifest is the one an uninstall is removing. *)
(* Between commands there is at most one: a module whose uninstall was     *)
(* killed after it began to remove files (from which the code has no way   *)
(* back); no other kill and no failure leaves such a record.               *)
RecordsAreLoadable ==
  /\ op.cmd # "none" => Unloadable \subseteq BeingErased
  /\ op.cmd = "none" => Unloadable \subseteq cut /\ \A m, n \in Unloadable : m = n

(* The commands of m were left out on purpose: on request, because a setup *)
(* found m installed, or because --resume found them noted as completed.   *)
LeftOut(m) == op.skip \/ (op.cmd = "setup" /\ ~op.rerun /\ m \in op.known) \/ m \in op.passed
CommandsDone(m) == LeftOut(m) \/ tree[m].built = tree[m].head

(* An install or setup enters its modules all or none: one that fails      *)
(* leaves the records as they were, but for a setup that failed once all   *)
(* its modules were entered.  And once it has entered any of them, or      *)
(* reports success, the commands of each have completed on the checkout it *)
(* has, except where they were left out on purpose.                        *)
EntriesFollowCommands ==
  op.cmd \in {"install", "setup"} =>
    /\ op.at = "failed" => \/ Installed = op.known
                           \/ op.cmd = "setup" /\ Installed = op.known \cup Mods
    /\ op.at = "ok" => Installed = op.known \cup Mods
    /\ op.at = "ok" \/ Installed # op.known => \A m \in Mods : CommandsDone(m)

(* What the steps preserve, and what the invariants above follow from.     *)
Step == {"idle", "fetch", "run", "running", "ran", "record", "clear", "configure", "pull", "halt", "build",
         "building", "hook", "enter", "pre", "erase", "forget", "post", "ok", "failed"}

Op == [cmd : {"none", "install", "setup", "update", "uninstall"}, at : Step,
       mods : Seq(Module), todo : Seq(Module), known : SUBSET Module,
       resume : BOOLEAN, skip : BOOLEAN, rerun : BOOLEAN, allow : BOOLEAN,
       passed : SUBSET Module, stopped : SUBSET Module,
       note : {"none", "ancestry undecidable"}]

(* The steps of each command, and those that work on one module. *)
CommandInv ==
  /\ op \in Op
  /\ op.cmd = "none" <=> op.at = "idle"
  /\ op.cmd \in {"install", "setup"} =>
       op.at \in {"fetch", "run", "running", "ran", "record", "clear", "configure", "ok", "failed"}
  /\ op.cmd = "update" => op.at \in {"pull", "halt", "build", "building", "hook", "enter", "ok", "failed"}
  /\ op.cmd = "uninstall" => op.at \in {"pre", "halt", "erase", "forget", "post", "ok", "failed"}
  /\ op.at \in {"running", "ran", "clear", "halt", "build", "building", "hook", "enter",
                "erase", "forget", "post"} => op.todo # <<>>
  /\ op.at = "configure" => op.cmd = "setup"
  /\ op.at \in {"configure", "ok", "failed"} => op.todo = <<>>
  /\ ToSet(op.todo) \subseteq Mods

(* The modules that the command has to come to, again or for the first time. *)
Left == ToSet(op.todo)

(* What is fetched stays, and nothing is recorded before all are built. *)
InstallInv ==
  op.cmd \in {"install", "setup"} =>
    /\ op.at = "fetch" => \A m \in Mods \ Left : HasManifest(tree[m])
    /\ op.at \in {"run", "running", "ran", "record", "clear"} => \A m \in Mods : HasManifest(tree[m])
    /\ op.at \in {"fetch", "run", "running", "ran"} => Installed = op.known
    /\ op.at \in {"run", "running", "ran"} => \A m \in Mods \ Left : CommandsDone(m)
    /\ op.at = "ran" => tree[Current].built = tree[Current].head
    /\ op.at \in {"record", "clear", "configure"} =>
         /\ \A m \in Mods : CommandsDone(m)
         /\ op.known \cup (Mods \ Left) \subseteq Installed /\ Installed \subseteq op.known \cup Mods
    /\ op.at = "clear" => Current \in Installed

(* How far an update has brought each of its modules. *)
UpdateInv ==
  op.cmd = "update" /\ op.at # "failed" =>
    /\ \A m \in Mods : HasManifest(tree[m])
    /\ \A m \in Mods \ Left : /\ tree[m].head = pin[m] /\ record[m] = pin[m]
                              /\ op.skip \/ tree[m].built = tree[m].head
                              /\ proc[m] \in {0, tree[m].head}
    /\ op.at \in {"halt", "build", "building", "hook", "enter"} => tree[Current].head = pin[Current]
    /\ op.at \in {"build", "building", "hook", "enter"} => proc[Current] \in {0, tree[Current].head}
    /\ op.at \in {"hook", "enter"} => op.skip \/ tree[Current].built = tree[Current].head

IInv ==
  /\ TypeOK /\ CommandInv /\ InstallInv /\ UpdateInv
  /\ RecordsAreLoadable /\ EntriesFollowCommands

(* --resume leaves out the install commands of a module only if they have  *)
(* completed on the checkout it has now ("picks up where a failed install  *)
(* left off").                                                             *)
ResumeRerunsFailedStep ==
  [][ \A m \in Module :
        SkipCommands /\ m = Current /\ op.resume /\ ~op.skip /\ m \notin op.known
          => tree[m].built = tree[m].head ]_vars

=============================================================================
