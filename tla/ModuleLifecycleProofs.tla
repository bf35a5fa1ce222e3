------------------------ MODULE ModuleLifecycleProofs ------------------------
(***************************************************************************)
(* Proofs about ModuleLifecycle, for any modules, bundles and registry:    *)
(* the type invariant and the four safety invariants that the run checks   *)
(* on two modules.  They follow from one inductive invariant, IInv.        *)
(***************************************************************************)
EXTENDS ModuleLifecycle, SequenceTheorems, TLAPS

USE SourceAssumption, LifecycleAssumption

-----------------------------------------------------------------------------
(* Sequences of modules, and the checkout's operations.                    *)

(* The elements of a list that is not empty are its head and the elements  *)
(* of its tail.                                                            *)
LEMMA ToSetTail ==
  ASSUME NEW S, NEW s \in Seq(S), s # <<>>
  PROVE  /\ Head(s) \in S /\ Tail(s) \in Seq(S)
         /\ ToSet(s) = {Head(s)} \cup ToSet(Tail(s))
<1>1. /\ Head(s) \in S /\ Tail(s) \in Seq(S) /\ Len(Tail(s)) = Len(s) - 1
      /\ \A i \in 1 .. Len(Tail(s)) : Tail(s)[i] = s[i + 1]
  BY HeadTailProperties
<1>2. DOMAIN s = 1 .. Len(s) /\ DOMAIN Tail(s) = 1 .. Len(Tail(s)) /\ Len(s) \in Nat \ {0}
  BY <1>1, LenProperties, EmptySeq
<1>3. Head(s) = s[1]
  OBVIOUS
<1>4. ASSUME NEW e \in ToSet(s) PROVE e = Head(s) \/ e \in ToSet(Tail(s))
  <2>1. PICK i \in 1 .. Len(s) : e = s[i]
    BY <1>2, <1>4 DEF ToSet
  <2>2. CASE i = 1
    BY <2>1, <2>2, <1>3
  <2>3. CASE i # 1
    <3>1. i - 1 \in 1 .. Len(Tail(s)) /\ Tail(s)[i - 1] = s[i]
      BY <2>3, <1>1, <1>2
    <3> QED BY <3>1, <2>1, <1>2 DEF ToSet
  <2> QED BY <2>2, <2>3
<1>5. ASSUME NEW e \in ToSet(Tail(s)) PROVE e \in ToSet(s)
  <2>1. PICK i \in 1 .. Len(Tail(s)) : e = Tail(s)[i]
    BY <1>2, <1>5 DEF ToSet
  <2>2. i + 1 \in 1 .. Len(s) /\ s[i + 1] = e
    BY <2>1, <1>1, <1>2
  <2> QED BY <2>2, <1>2 DEF ToSet
<1>6. Head(s) \in ToSet(s)
  BY <1>2, <1>3 DEF ToSet
<1> QED BY <1>1, <1>4, <1>5, <1>6

(* The elements of a sequence over S are in S. *)
LEMMA ToSetOfSeq ==
  ASSUME NEW S, NEW s \in Seq(S)
  PROVE  ToSet(s) \subseteq S /\ (s = <<>> => ToSet(s) = {})
BY LenProperties DEF ToSet

LEMMA EmptyToSet == ToSet(<<>>) = {}
BY EmptySeq, ToSetOfSeq

(* What is left of a list without some modules is such a list. *)
LEMMA WithoutIsPart ==
  ASSUME NEW mods \in Seq(Module), NEW S, NEW left \in Without(mods, S)
  PROVE  left \in Seq(Module) /\ ToSet(left) \subseteq ToSet(mods)
<1> DEFINE kept == {i \in DOMAIN mods : mods[i] \notin S}
<1>0. PICK n \in 0 .. Len(mods) :
        \E f \in [1 .. n -> kept] : left = [i \in DOMAIN f |-> mods[f[i]]]
  BY ZenonT(30) DEF Without
<1>1. PICK f \in [1 .. n -> kept] : left = [i \in DOMAIN f |-> mods[f[i]]]
  BY <1>0
<1>2. /\ Len(mods) \in Nat /\ DOMAIN mods = 1 .. Len(mods) /\ mods \in [1 .. Len(mods) -> Module]
  BY LenProperties
<1>3. n \in Nat /\ left = [i \in 1 .. n |-> mods[f[i]]]
  BY <1>0, <1>1, <1>2
<1>4. \A i \in 1 .. n : f[i] \in DOMAIN mods /\ mods[f[i]] \in Module
  BY <1>1, <1>2
<1>5. left \in [1 .. n -> Module]
  BY <1>3, <1>4
<1>6. left \in Seq(Module)
  BY <1>3, <1>5, SeqDef
<1>7. ToSet(left) \subseteq ToSet(mods)
  BY <1>3, <1>4 DEF ToSet
<1> QED BY <1>6, <1>7

(* The directories without a manifest, and a checkout of a commit. *)
LEMMA SomeTrees ==
  /\ \A p \in Phase : Bare(p) \in Tree /\ (HasManifest(Bare(p)) <=> p = "ready")
  /\ \A c \in Commit : CheckedOut(c) \in Tree /\ HasManifest(CheckedOut(c))
  /\ Absent = Bare("absent")
BY DEF Bare, CheckedOut, Absent, Tree, Phase, HasManifest, Commit

(* A clone returns a checkout at the pin, or a directory that load_module  *)
(* refuses; one that is interrupted does not touch a usable checkout.      *)
LEMMA CloneResult ==
  ASSUME NEW t \in Tree, NEW c \in Commit, NEW o \in Clone(t, c)
  PROVE  o.tree \in Tree /\ (o.ok => HasManifest(o.tree))
<1>1. \/ o.ok = TRUE /\ o.tree = CheckedOut(c)
      \/ o.ok = FALSE /\ o.tree \in {Absent, Bare("plain"), Bare("partial"), t}
  <2>1. CASE t.phase = "absent"
    <3>1. o \in {Outcome(TRUE, CheckedOut(c)), Outcome(FALSE, Absent), Outcome(FALSE, Bare("plain"))}
      BY <2>1 DEF Clone, Resumable
    <3> QED BY <3>1 DEF Outcome
  <2>2. CASE t.phase # "absent" /\ Resumable(t)
    <3>1. o \in {Outcome(TRUE, CheckedOut(c)), Outcome(FALSE, t), Outcome(FALSE, Bare("partial"))}
      BY <2>2 DEF Clone
    <3> QED BY <3>1 DEF Outcome
  <2>3. CASE t.phase # "absent" /\ ~Resumable(t)
    BY <2>3 DEF Clone, Outcome
  <2> QED BY <2>1, <2>2, <2>3
<1> QED BY <1>1, SomeTrees DEF Phase

LEMMA CloneCutResult ==
  ASSUME NEW t \in Tree, NEW u \in Clone_Cut(t)
  PROVE  u \in Tree /\ (HasManifest(t) => u = t)
<1>1. u \in {t, Bare("plain"), Bare("unborn"), Bare("partial")} /\ (HasManifest(t) => u = t)
  <2>1. CASE t.phase = "absent"
    BY <2>1 DEF Clone_Cut, HasManifest
  <2>2. CASE t.phase # "absent" /\ Resumable(t)
    BY <2>2 DEF Clone_Cut, HasManifest, Resumable
  <2>3. CASE t.phase # "absent" /\ ~Resumable(t)
    BY <2>3 DEF Clone_Cut
  <2> QED BY <2>1, <2>2, <2>3
<1> QED BY <1>1, SomeTrees DEF Phase

(* An update keeps the manifest; if it succeeds, the checkout is at the pin. *)
LEMMA UpdateResult ==
  ASSUME NEW t \in Tree, NEW c \in Commit, NEW allow \in BOOLEAN, NEW deepened \in BOOLEAN,
         NEW o \in Update(t, c, allow, deepened)
  PROVE  /\ o.tree \in Tree /\ (HasManifest(t) => HasManifest(o.tree))
         /\ o.ok => o.tree.head = c
BY DEF Update, Outcome, Tree, HasManifest, Commit

LEMMA UpdateCutResult ==
  ASSUME NEW t \in Tree, NEW c \in Commit, NEW u \in Update_Cut(t, c)
  PROVE  u \in Tree /\ (HasManifest(t) => HasManifest(u))
<1>1. u \in {t, [t EXCEPT !.head = c], [t EXCEPT !.dirty = TRUE]}
  BY DEF Update_Cut
<1>2. [t EXCEPT !.head = c] \in Tree
  BY DEF Tree, Commit
<1>4. [t EXCEPT !.dirty = TRUE] \in Tree
  BY DEF Tree
<1>3. [t EXCEPT !.head = c].phase = t.phase /\ [t EXCEPT !.dirty = TRUE].phase = t.phase
  BY DEF Tree
<1> QED BY <1>1, <1>2, <1>3, <1>4 DEF HasManifest

LEMMA EraseCutResult ==
  ASSUME NEW t \in Tree, NEW u \in Erase_Cut(t)
  PROVE  u \in Tree
<1>1. [t EXCEPT !.dirty = TRUE] \in Tree
  BY DEF Tree
<1> QED BY <1>1, SomeTrees DEF Erase_Cut, Phase

(* Only what is built changes in a checkout. *)
LEMMA BuiltFacts ==
  ASSUME NEW t \in Tree, NEW b \in 0 .. MaxCommit
  PROVE  /\ [t EXCEPT !.built = b] \in Tree
         /\ [t EXCEPT !.built = b].phase = t.phase /\ [t EXCEPT !.built = b].head = t.head
         /\ [t EXCEPT !.built = b].built = b /\ t.head \in 0 .. MaxCommit /\ 0 \in 0 .. MaxCommit
<1>1. [t EXCEPT !.built = b] \in Tree
  BY DEF Tree
<1> QED BY <1>1 DEF Tree

-----------------------------------------------------------------------------
(* How the steps change op.                                                *)

(* A record with another step, and with another list of modules to do. *)
LEMMA StepFacts ==
  ASSUME NEW o \in Op, NEW at \in Step, op' = [o EXCEPT !.at = at]
  PROVE  /\ op' \in Op /\ op'.cmd = o.cmd /\ op'.at = at /\ op'.mods = o.mods /\ op'.todo = o.todo
         /\ op'.known = o.known /\ op'.skip = o.skip
         /\ op'.rerun = o.rerun /\ op'.passed = o.passed
<1>1. op' \in Op
  BY DEF Op
<1> QED BY <1>1 DEF Op

LEMMA TodoFacts ==
  ASSUME NEW o \in Op, NEW at \in Step, NEW mods \in Seq(Module),
         op' = [o EXCEPT !.at = at, !.todo = mods]
  PROVE  /\ op' \in Op /\ op'.cmd = o.cmd /\ op'.at = at /\ op'.mods = o.mods /\ op'.todo = mods
         /\ op'.known = o.known /\ op'.skip = o.skip
         /\ op'.rerun = o.rerun /\ op'.passed = o.passed
<1>1. op' \in Op
  BY DEF Op
<1> QED BY <1>1 DEF Op

(* A new command. *)
LEMMA CommandFacts ==
  ASSUME NEW cmd \in {"none", "install", "setup", "update", "uninstall"}, NEW at \in Step,
         NEW mods \in Seq(Module)
  PROVE  /\ Command(cmd, at, mods) \in Op /\ Idle \in Op
         /\ Command(cmd, at, mods).cmd = cmd /\ Command(cmd, at, mods).at = at
         /\ Command(cmd, at, mods).mods = mods /\ Command(cmd, at, mods).todo = mods
         /\ Idle.cmd = "none" /\ Idle.at = "idle" /\ Idle.mods = <<>> /\ Idle.todo = <<>>
<1>1. <<>> \in Seq(Module)
  BY EmptySeq
<1>2. Idle \in Op /\ Idle.cmd = "none" /\ Idle.at = "idle" /\ Idle.mods = <<>> /\ Idle.todo = <<>>
  BY <1>1 DEF Idle, Op, Step
<1>3. Command(cmd, at, mods) = [Idle EXCEPT !.cmd = cmd, !.at = at, !.mods = mods, !.todo = mods]
  BY DEF Command
<1>4. Command(cmd, at, mods) \in Op
  BY <1>2, <1>3 DEF Op
<1> QED BY <1>2, <1>3, <1>4 DEF Op

(* The end of a command keeps what it was about. *)
LEMMA FinishFacts ==
  ASSUME op \in Op, NEW result \in {"ok", "failed"}, Finish(result)
  PROVE  /\ op' \in Op /\ op'.cmd = op.cmd /\ op'.at = result
         /\ op'.mods = op.mods /\ op'.todo = <<>>
         /\ op'.known = op.known /\ op'.skip = op.skip
         /\ op'.rerun = op.rerun /\ op'.passed = op.passed
<1>1. <<>> \in Seq(Module)
  BY EmptySeq
<1>2. /\ op.cmd \in {"none", "install", "setup", "update", "uninstall"}
      /\ op.mods \in Seq(Module) /\ op.known \in SUBSET Module /\ op.skip \in BOOLEAN
      /\ op.rerun \in BOOLEAN /\ op.passed \in SUBSET Module
  BY DEF Op
<1> DEFINE c == Command(op.cmd, result, op.mods)
<1>3. c \in Op /\ c.cmd = op.cmd /\ c.at = result /\ c.mods = op.mods
  BY <1>2, CommandFacts DEF Step
<1>4. op' = [c EXCEPT !.todo = <<>>, !.known = op.known, !.skip = op.skip,
                       !.rerun = op.rerun, !.passed = op.passed]
  BY DEF Finish
<1> HIDE DEF c
<1>5. op' \in Op
  BY <1>1, <1>2, <1>3, <1>4 DEF Op
<1> QED BY <1>3, <1>4, <1>5, ZenonT(30) DEF Op

(* A step within the work on one module. *)
LEMMA GoFacts ==
  ASSUME op \in Op, NEW at \in Step, Go(at)
  PROVE  /\ op' \in Op /\ op'.cmd = op.cmd /\ op'.at = at
         /\ op'.mods = op.mods /\ op'.todo = op.todo
         /\ op'.known = op.known /\ op'.skip = op.skip
         /\ op'.rerun = op.rerun /\ op'.passed = op.passed
BY StepFacts DEF Go

(* The last step of the work on one module. *)
LEMMA GoOnFacts ==
  ASSUME op \in Op, op.todo # <<>>, NEW at \in Step, GoOn(at)
  PROVE  /\ op' \in Op /\ op'.cmd = op.cmd /\ op'.at = at
         /\ op'.mods = op.mods /\ op'.todo = Tail(op.todo)
         /\ op'.known = op.known /\ op'.skip = op.skip
         /\ op'.rerun = op.rerun /\ op'.passed = op.passed
<1>1. Tail(op.todo) \in Seq(Module)
  BY ToSetTail DEF Op
<1>2. op' = [op EXCEPT !.at = at, !.todo = Tail(op.todo)]
  BY DEF GoOn
<1> HIDE DEF GoOn
<1> QED BY <1>1, <1>2, TodoFacts

(* The current module is one of those that are left, the first one. *)
LEMMA CurrentFacts ==
  ASSUME op \in Op, op.todo # <<>>
  PROVE  Current \in Module /\ Current \in Left
BY ToSetTail DEF Current, Left, Op

(* What is left of the list after its first module. *)
LEMMA LeftAfter ==
  ASSUME op \in Op, op.todo # <<>>, op'.todo = Tail(op.todo)
  PROVE  Left = {Current} \cup Left'
BY ToSetTail DEF Current, Left, Op

(* A step that sets the checkout of the current module. *)
LEMMA SetTreeFacts ==
  ASSUME TypeOK, op \in Op, op.todo # <<>>, NEW u \in Tree, SetTree(u)
  PROVE  /\ tree' \in [Module -> Tree] /\ tree'[Current] = u
         /\ \A m \in Module : m # Current => tree'[m] = tree[m]
BY CurrentFacts DEF SetTree, TypeOK

(* A build changes only what is built. *)
LEMMA SetBuiltFacts ==
  ASSUME TypeOK, op \in Op, op.todo # <<>>, NEW b \in 0 .. MaxCommit,
         SetTree([tree[Current] EXCEPT !.built = b])
  PROVE  /\ tree' \in [Module -> Tree] /\ tree'[Current].built = b
         /\ \A m \in Module : /\ m # Current => tree'[m] = tree[m]
                              /\ tree'[m].head = tree[m].head
                              /\ HasManifest(tree[m]) <=> HasManifest(tree'[m])
<1> DEFINE u == [tree[Current] EXCEPT !.built = b]
<1>1. tree[Current] \in Tree /\ Current \in Module
  BY CurrentFacts DEF TypeOK
<1>2. u \in Tree /\ u.phase = tree[Current].phase /\ u.head = tree[Current].head /\ u.built = b
  BY <1>1, BuiltFacts
<1>3. /\ tree' \in [Module -> Tree] /\ tree'[Current] = u
      /\ \A m \in Module : m # Current => tree'[m] = tree[m]
  BY <1>2, SetTreeFacts
<1> QED BY <1>1, <1>2, <1>3 DEF HasManifest

(* The steps of an update follow each other as UpdateOrder says. *)
LEMMA UpdateProceeds ==
  ASSUME op.cmd = "update", NEW o \in Op, o.todo # <<>>, Proceed(o),
         o.at \in {"pull", "halt", "build", "hook", "enter"}
  PROVE  /\ op' \in Op /\ op'.cmd = o.cmd
         /\ op'.mods = o.mods /\ op'.known = o.known /\ op'.skip = o.skip
         /\ op'.todo = IF o.at = "enter" THEN Tail(o.todo) ELSE o.todo
         /\ o.at = "pull" => op'.at = "halt"
         /\ o.at = "halt" => op'.at = "build"
         /\ o.at = "build" => op'.at = "hook"
         /\ o.at = "hook" => op'.at = "enter"
         /\ o.at = "enter" => op'.at = "pull"
<1>1. Order = UpdateOrder
  BY DEF Order
<1> DEFINE i == CHOOSE n \in DOMAIN Order : Order[n] = o.at
<1>2. /\ o.at = "pull" => i = 1
      /\ o.at = "halt" => i = 2
      /\ o.at = "build" => i = 3
      /\ o.at = "hook" => i = 4
      /\ o.at = "enter" => i = 5
  BY <1>1 DEF UpdateOrder
<1>3. Len(Order) = 5
  BY <1>1 DEF UpdateOrder
<1>4. Tail(o.todo) \in Seq(Module)
  BY ToSetTail DEF Op
<1>5. op' = IF i < Len(Order) THEN [o EXCEPT !.at = Order[i + 1]]
            ELSE [o EXCEPT !.at = Order[1], !.todo = Tail(@)]
  BY DEF Proceed
<1> HIDE DEF i
<1>6. CASE o.at = "pull"
  <2>1. op' = [o EXCEPT !.at = "halt"]
    BY <1>1, <1>2, <1>3, <1>5, <1>6 DEF UpdateOrder
  <2> QED BY <2>1, <1>6, StepFacts DEF Step
<1>7. CASE o.at = "halt"
  <2>1. op' = [o EXCEPT !.at = "build"]
    BY <1>1, <1>2, <1>3, <1>5, <1>7 DEF UpdateOrder
  <2> QED BY <2>1, <1>7, StepFacts DEF Step
<1>8. CASE o.at = "build"
  <2>1. op' = [o EXCEPT !.at = "hook"]
    BY <1>1, <1>2, <1>3, <1>5, <1>8 DEF UpdateOrder
  <2> QED BY <2>1, <1>8, StepFacts DEF Step
<1>9. CASE o.at = "hook"
  <2>1. op' = [o EXCEPT !.at = "enter"]
    BY <1>1, <1>2, <1>3, <1>5, <1>9 DEF UpdateOrder
  <2> QED BY <2>1, <1>9, StepFacts DEF Step
<1>10. CASE o.at = "enter"
  <2>1. op' = [o EXCEPT !.at = "pull", !.todo = Tail(o.todo)]
    BY <1>1, <1>2, <1>3, <1>5, <1>10 DEF UpdateOrder
  <2> QED BY <2>1, <1>4, <1>10, TodoFacts, ZenonT(30) DEF Step
<1> QED BY <1>6, <1>7, <1>8, <1>9, <1>10 DEF Step

(* The steps of an uninstall follow each other as UninstallOrder says. *)
LEMMA UninstallProceeds ==
  ASSUME op.cmd = "uninstall", NEW o \in Op, o.todo # <<>>, Proceed(o),
         o.at \in {"pre", "halt", "erase", "forget", "post"}
  PROVE  /\ op' \in Op /\ op'.cmd = o.cmd
         /\ op'.mods = o.mods /\ op'.known = o.known /\ op'.skip = o.skip
         /\ op'.todo = IF o.at = "post" THEN Tail(o.todo) ELSE o.todo
         /\ o.at = "pre" => op'.at = "halt"
         /\ o.at = "halt" => op'.at = "erase"
         /\ o.at = "erase" => op'.at = "forget"
         /\ o.at = "forget" => op'.at = "post"
         /\ o.at = "post" => op'.at = "pre"
<1>1. Order = UninstallOrder
  BY DEF Order
<1> DEFINE i == CHOOSE n \in DOMAIN Order : Order[n] = o.at
<1>2. /\ o.at = "pre" => i = 1
      /\ o.at = "halt" => i = 2
      /\ o.at = "erase" => i = 3
      /\ o.at = "forget" => i = 4
      /\ o.at = "post" => i = 5
  BY <1>1 DEF UninstallOrder
<1>3. Len(Order) = 5
  BY <1>1 DEF UninstallOrder
<1>4. Tail(o.todo) \in Seq(Module)
  BY ToSetTail DEF Op
<1>5. op' = IF i < Len(Order) THEN [o EXCEPT !.at = Order[i + 1]]
            ELSE [o EXCEPT !.at = Order[1], !.todo = Tail(@)]
  BY DEF Proceed
<1> HIDE DEF i
<1>6. CASE o.at = "pre"
  <2>1. op' = [o EXCEPT !.at = "halt"]
    BY <1>1, <1>2, <1>3, <1>5, <1>6 DEF UninstallOrder
  <2> QED BY <2>1, <1>6, StepFacts DEF Step
<1>7. CASE o.at = "halt"
  <2>1. op' = [o EXCEPT !.at = "erase"]
    BY <1>1, <1>2, <1>3, <1>5, <1>7 DEF UninstallOrder
  <2> QED BY <2>1, <1>7, StepFacts DEF Step
<1>8. CASE o.at = "erase"
  <2>1. op' = [o EXCEPT !.at = "forget"]
    BY <1>1, <1>2, <1>3, <1>5, <1>8 DEF UninstallOrder
  <2> QED BY <2>1, <1>8, StepFacts DEF Step
<1>9. CASE o.at = "forget"
  <2>1. op' = [o EXCEPT !.at = "post"]
    BY <1>1, <1>2, <1>3, <1>5, <1>9 DEF UninstallOrder
  <2> QED BY <2>1, <1>9, StepFacts DEF Step
<1>10. CASE o.at = "post"
  <2>1. op' = [o EXCEPT !.at = "pre", !.todo = Tail(o.todo)]
    BY <1>1, <1>2, <1>3, <1>5, <1>10 DEF UninstallOrder
  <2> QED BY <2>1, <1>4, <1>10, TodoFacts, ZenonT(30) DEF Step
<1> QED BY <1>6, <1>7, <1>8, <1>9, <1>10 DEF Step

-----------------------------------------------------------------------------
(* The steps of an installation preserve the inductive invariant.          *)

(* Records stay loadable while no manifest disappears, no module without   *)
(* one is entered, and a command begins only if all are loadable.          *)
LEMMA LoadableStays ==
  ASSUME RecordsAreLoadable, ~(op.cmd = "uninstall" /\ op.at \in {"erase", "forget"}),
         op.cmd # "none" \/ op'.cmd = "none" \/ Loadable,
         \A m \in Module : HasManifest(tree[m]) => HasManifest(tree'[m]),
         \A m \in Module : record'[m] # record[m] => record'[m] = 0 \/ HasManifest(tree[m]),
         cut \subseteq cut'
  PROVE  RecordsAreLoadable'
<1>1. Unloadable' \subseteq Unloadable
  BY DEF Unloadable, Installed
<1>2. op.cmd # "none" => Unloadable = {}
  BY DEF RecordsAreLoadable, BeingErased
<1>3. Loadable => Unloadable = {}
  BY DEF Loadable, Unloadable
<1>4. CASE Unloadable = {}
  BY <1>1, <1>4 DEF RecordsAreLoadable
<1>5. CASE op.cmd = "none" /\ op'.cmd = "none"
  BY <1>1, <1>5 DEF RecordsAreLoadable
<1> QED BY <1>2, <1>3, <1>4, <1>5

(* The install commands of m stay done, or left out, while its checkout    *)
(* and the options of the command stay.                                    *)
LEMMA DoneStays ==
  ASSUME NEW m, CommandsDone(m), tree'[m] = tree[m],
         op'.cmd = op.cmd, op'.known = op.known, op'.skip = op.skip, op'.rerun = op.rerun,
         op.passed \subseteq op'.passed
  PROVE  CommandsDone(m)'
BY DEF CommandsDone, LeftOut

LEMMA InitInv == Init => IInv
<1> SUFFICES ASSUME Init PROVE IInv
  OBVIOUS
<1>1. Idle \in Op /\ Idle.cmd = "none" /\ Idle.at = "idle" /\ Idle.mods = <<>> /\ Idle.todo = <<>>
  BY CommandFacts, EmptySeq DEF Step
<1>2. Absent \in Tree
  BY SomeTrees DEF Phase
<1>3. TypeOK
  <2>1. /\ pin \in [Module -> Commit] /\ record \in [Module -> 0 .. MaxCommit]
        /\ proc \in [Module -> 0 .. MaxCommit] /\ kills \in 0 .. MaxKills /\ changes \in 0 .. MaxChanges
    BY DEF Init, Commit
  <2>2. tree \in [Module -> Tree] /\ progress \subseteq Module /\ cut \subseteq Module
    BY <1>2 DEF Init
  <2>3. op \in Op
    BY <1>1 DEF Init
  <2> QED BY <2>1, <2>2, <2>3 DEF TypeOK, Op
<1>4. CommandInv
  BY <1>1 DEF Init, CommandInv, Mods
<1>5. InstallInv /\ UpdateInv
  BY <1>1 DEF Init, InstallInv, UpdateInv
<1>6. RecordsAreLoadable /\ EntriesFollowCommands
  BY <1>1 DEF Init, RecordsAreLoadable, Unloadable, Installed, EntriesFollowCommands
<1> QED BY <1>3, <1>4, <1>5, <1>6 DEF IInv

LEMMA BeginInstallStep ==
  ASSUME IInv, NEW cmd \in {"install", "setup"}, NEW mods \in Seq(Module),
         NEW resume \in BOOLEAN, NEW skip \in BOOLEAN, NEW rerun \in BOOLEAN,
         BeginInstall(cmd, mods, resume, skip, rerun)
  PROVE  IInv'
<1> DEFINE c == Command(cmd, "fetch", mods)
<1>1. c \in Op /\ c.cmd = cmd /\ c.at = "fetch" /\ c.mods = mods /\ c.todo = mods
  BY CommandFacts DEF Step
<1>2. op' = [c EXCEPT !.known = Installed, !.resume = resume, !.skip = skip, !.rerun = rerun]
  BY DEF BeginInstall
<1>3. Installed \in SUBSET Module
  BY DEF Installed
<1> HIDE DEF c
<1>4. op' \in Op
  BY <1>1, <1>2, <1>3 DEF Op
<1>5. op'.cmd = cmd /\ op'.at = "fetch" /\ op'.mods = mods /\ op'.todo = mods /\ op'.known = Installed
  BY <1>1, <1>2, <1>4 DEF Op
<1>6. op.cmd = "none"
  BY CommandFacts, EmptySeq DEF BeginInstall, Step
<1>7. TypeOK'
  BY <1>4 DEF IInv, TypeOK, Op, BeginInstall
<1>8. CommandInv'
  BY <1>4, <1>5 DEF CommandInv, Mods
<1>9. InstallInv'
  BY <1>5 DEF BeginInstall, InstallInv, Installed, Mods, Left
<1>10. UpdateInv'
  BY <1>5 DEF UpdateInv
<1>11. RecordsAreLoadable'
  BY <1>6, LoadableStays DEF IInv, BeginInstall
<1>12. EntriesFollowCommands'
  BY <1>5 DEF BeginInstall, EntriesFollowCommands, Installed
<1> QED BY <1>7, <1>8, <1>9, <1>10, <1>11, <1>12 DEF IInv

LEMMA FetchModuleStep ==
  ASSUME IInv, FetchModule
  PROVE  IInv'
<1>1. op \in Op /\ op.cmd \in {"install", "setup"} /\ op.at = "fetch" /\ op.todo # <<>>
  BY DEF IInv, CommandInv, FetchModule, Op
<1>2. Current \in Module /\ Current \in Left
  BY <1>1, CurrentFacts
<1>3. tree[Current] \in Tree /\ pin[Current] \in Commit
  BY <1>2 DEF IInv, TypeOK
<1>4. /\ tree' \in [Module -> Tree]
      /\ \A m \in Module : m # Current => tree'[m] = tree[m]
      /\ HasManifest(tree[Current]) => tree' = tree
      /\ \/ GoOn("fetch") /\ HasManifest(tree'[Current])
         \/ Finish("failed")
  <2>1. CASE HasManifest(tree[Current])
    BY <2>1, <1>2 DEF FetchModule, IInv, TypeOK
  <2>2. CASE ~HasManifest(tree[Current])
    <3>1. PICK o \in Clone(tree[Current], pin[Current]) :
            SetTree(o.tree) /\ IF o.ok THEN GoOn("fetch") ELSE Finish("failed")
      BY <2>2 DEF FetchModule
    <3>2. o.tree \in Tree /\ (o.ok => HasManifest(o.tree))
      BY <1>3, <2>2, CloneResult
    <3>3. tree' = [tree EXCEPT ![Current] = o.tree]
      BY <3>1 DEF SetTree
    <3> QED BY <1>2, <2>2, <3>1, <3>2, <3>3 DEF IInv, TypeOK
  <2> QED BY <2>1, <2>2
<1>5. /\ op' \in Op /\ op'.cmd = op.cmd /\ op'.mods = op.mods /\ op'.known = op.known
      /\ \/ /\ op'.at = "fetch" /\ op'.todo = Tail(op.todo)
            /\ HasManifest(tree'[Current])
         \/ op'.at = "failed" /\ op'.todo = <<>>
  BY <1>1, <1>4, GoOnFacts, FinishFacts DEF Step
<1>6. Left' \subseteq Left /\ (op'.at = "fetch" => Left = {Current} \cup Left')
  <2>1. op'.todo = <<>> => Left' = {}
    BY <1>5, ToSetOfSeq DEF Left, Op
  <2> QED BY <1>1, <1>5, <2>1, LeftAfter
<1>7. TypeOK'
  BY <1>4, <1>5 DEF IInv, TypeOK, Op, FetchModule
<1>8. CommandInv'
  BY <1>1, <1>5, <1>6 DEF IInv, CommandInv, Mods, Left
<1>9. InstallInv'
  <2>1. Mods' = Mods /\ Installed' = Installed
    BY <1>5 DEF Mods, Installed, FetchModule
  <2>2. Mods \subseteq Module
    BY <1>1, ToSetOfSeq DEF Mods, Op
  <2> QED BY <1>1, <1>4, <1>5, <1>6, <2>1, <2>2 DEF IInv, InstallInv
<1>10. UpdateInv'
  BY <1>1, <1>5 DEF UpdateInv
<1>11. RecordsAreLoadable'
  BY <1>1, <1>2, <1>4, LoadableStays DEF IInv, FetchModule
<1>12. EntriesFollowCommands'
  BY <1>1, <1>5 DEF IInv, InstallInv, FetchModule, EntriesFollowCommands, Installed
<1> QED BY <1>7, <1>8, <1>9, <1>10, <1>11, <1>12 DEF IInv

(* What the steps of an installation after the fetch have in common: no    *)
(* manifest disappears, and they enter a module only once the commands of  *)
(* all are done.                                                           *)
Working == {"run", "running", "ran"}
Entering == {"record", "clear", "configure"}

LEMMA InstallStepInv ==
  ASSUME IInv, op.cmd \in {"install", "setup"}, op.at \in {"fetch"} \cup Working \cup Entering,
         op.at = "fetch" => op.todo = <<>>,
         op' \in Op, op'.cmd = op.cmd, op'.mods = op.mods, op'.known = op.known,
         op'.at \in Working \cup Entering \cup {"ok", "failed"},
         op'.at \in {"running", "ran", "clear"} => op'.todo # <<>>,
         op'.at \in {"configure", "ok", "failed"} => op'.todo = <<>>,
         op'.at = "configure" => op.cmd = "setup",
         Left' \subseteq Mods,
         op'.at \in Working => op.at \in {"fetch"} \cup Working,
         op.at = "configure" => op'.at \in {"ok", "failed"},
         op'.at \in Working \cup {"failed"} => record' = record,
         op'.at \in Working => \A m \in Mods \ Left' : CommandsDone(m)',
         op'.at = "ran" => tree'[Current'].built = tree'[Current'].head,
         op'.at \in Entering \cup {"ok"} \/ op.at \in Entering =>
           /\ \A m \in Mods : CommandsDone(m)'
           /\ op.known \cup (Mods \ Left') \subseteq Installed' /\ Installed' \subseteq op.known \cup Mods,
         op'.at = "clear" => Current' \in Installed',
         op'.at = "failed" /\ op.at \in Entering => op.cmd = "setup",
         tree' \in [Module -> Tree], \A m \in Module : HasManifest(tree[m]) => HasManifest(tree'[m]),
         record' \in [Module -> 0 .. MaxCommit],
         \A m \in Module : record'[m] # record[m] => HasManifest(tree[m]),
         progress' \subseteq Module,
         UNCHANGED <<pin, proc, cut, kills, changes>>
  PROVE  IInv'
<1> USE DEF Working, Entering
<1>1. TypeOK'
  BY DEF IInv, TypeOK, Op
<1>2. CommandInv'
  BY DEF CommandInv, Mods, Left
<1>3. /\ Mods' = Mods /\ Mods \subseteq Module
      /\ op.todo = <<>> => Left = {}
      /\ op'.todo = <<>> => Left' = {}
      /\ record' = record => Installed' = Installed
  <2>1. Mods' = Mods /\ Mods \subseteq Module
    BY ToSetOfSeq DEF Mods, IInv, CommandInv, Op
  <2>2. (op.todo = <<>> => Left = {}) /\ (op'.todo = <<>> => Left' = {})
    BY EmptyToSet DEF Left
  <2> QED BY <2>1, <2>2 DEF Installed
<1>4. InstallInv'
  <2>1. op'.at \in Working => Installed' = op'.known /\ \A m \in Mods : HasManifest(tree'[m])
    BY <1>3 DEF IInv, InstallInv
  <2>2. op'.at \in {"record", "clear"} => \A m \in Mods : HasManifest(tree'[m])
    BY <1>3 DEF IInv, InstallInv
  <2> QED BY <1>3, <2>1, <2>2 DEF InstallInv
<1>5. UpdateInv'
  BY DEF UpdateInv
<1>6. RecordsAreLoadable'
  BY LoadableStays DEF IInv
<1>7. EntriesFollowCommands'
  <2>1. CASE op'.at \in Working
    BY <2>1, <1>3, <1>4 DEF EntriesFollowCommands, InstallInv
  <2>2. CASE op'.at \in Entering \cup {"ok"} \/ op.at \in Entering
    BY <2>2, <1>3 DEF EntriesFollowCommands
  <2>3. CASE op'.at = "failed" /\ op.at \notin Entering
    <3>1. Installed' = op'.known
      BY <2>3, <1>3 DEF IInv, InstallInv
    <3> QED BY <2>3, <3>1 DEF EntriesFollowCommands
  <2> QED BY <2>1, <2>2, <2>3
<1> QED BY <1>1, <1>2, <1>4, <1>5, <1>6, <1>7 DEF IInv

LEMMA CheckInstallStep ==
  ASSUME IInv, CheckInstall
  PROVE  IInv'
<1>1. op \in Op /\ op.cmd \in {"install", "setup"} /\ op.at = "fetch" /\ op.todo = <<>>
  BY DEF IInv, CommandInv, CheckInstall, Op
<1>2. /\ op' \in Op /\ op'.cmd = op.cmd /\ op'.mods = op.mods /\ op'.known = op.known
      /\ \/ op'.at = "run" /\ op'.todo = op.mods
         \/ op'.at = "failed" /\ op'.todo = <<>>
  <2>1. CASE Finish("failed")
    BY <1>1, <2>1, FinishFacts
  <2>2. CASE op' = [op EXCEPT !.at = "run", !.todo = op.mods]
    <3>1. op.mods \in Seq(Module)
      BY <1>1 DEF Op
    <3> QED BY <1>1, <2>2, <3>1, TodoFacts, ZenonT(30) DEF Step
  <2> QED BY <2>1, <2>2 DEF CheckInstall
<1>3. Left' \subseteq Mods /\ (op'.at = "run" => Left' = Mods)
  BY <1>2, ToSetOfSeq DEF Left, Mods, Op
<1> QED BY <1>1, <1>2, <1>3, InstallStepInv DEF IInv, TypeOK, CheckInstall, Working, Entering

(* A step of the install commands changes one module's checkout, c, and    *)
(* c is still left or its commands are done.                               *)
LEMMA OthersStayDone ==
  ASSUME IInv, op.cmd \in {"install", "setup"}, op.at \in Working,
         op'.cmd = op.cmd, op'.known = op.known, op'.skip = op.skip, op'.rerun = op.rerun,
         op.passed \subseteq op'.passed,
         NEW c \in Module, Left \subseteq Left' \cup {c},
         \A m \in Module : m # c => tree'[m] = tree[m],
         c \in Left' \/ CommandsDone(c)'
  PROVE  \A m \in Mods \ Left' : CommandsDone(m)'
<1> SUFFICES ASSUME NEW m \in Mods, m \notin Left' PROVE CommandsDone(m)'
  OBVIOUS
<1>1. Mods \subseteq Module
  BY ToSetOfSeq DEF Mods, IInv, CommandInv, Op
<1>2. CASE m = c
  BY <1>2
<1>3. CASE m # c
  <2>1. CommandsDone(m) /\ tree'[m] = tree[m]
    BY <1>1, <1>3 DEF IInv, InstallInv, Working
  <2> QED BY <2>1, DoneStays
<1> QED BY <1>2, <1>3

LEMMA SkipCommandsStep ==
  ASSUME IInv, SkipCommands
  PROVE  IInv'
<1>1. op \in Op /\ op.cmd \in {"install", "setup"} /\ op.at = "run" /\ op.todo # <<>>
  BY DEF IInv, CommandInv, SkipCommands, Op
<1>2. PICK c \in Module : c = Current
  BY <1>1, CurrentFacts
<1>3. Tail(op.todo) \in Seq(Module) /\ op.passed \in SUBSET Module
  BY <1>1, ToSetTail DEF Op
<1> DEFINE p == IF op.resume /\ c \in progress THEN op.passed \cup {c} ELSE op.passed
<1>4. op' = [op EXCEPT !.todo = Tail(op.todo), !.passed = p]
  BY <1>2 DEF SkipCommands
<1>5. p \in SUBSET Module /\ op.passed \subseteq p /\ (op.resume /\ c \in progress => c \in p)
  BY <1>3
<1> HIDE DEF p
<1>6. op' \in Op
  BY <1>1, <1>3, <1>4, <1>5 DEF Op
<1>7. /\ op'.cmd = op.cmd /\ op'.mods = op.mods /\ op'.known = op.known /\ op'.skip = op.skip
      /\ op'.rerun = op.rerun /\ op'.passed = p /\ op'.at = "run" /\ op'.todo = Tail(op.todo)
  BY <1>1, <1>4 DEF Op
<1>8. Left = {c} \cup Left' /\ Left \subseteq Mods
  BY <1>1, <1>2, <1>7, LeftAfter DEF IInv, CommandInv, Left
<1>9. CommandsDone(c)'
  BY <1>2, <1>5, <1>7 DEF SkipCommands, SkipsCommands, CommandsDone, LeftOut
<1>10. UNCHANGED <<pin, tree, record, progress, proc, cut, kills, changes>>
  BY DEF SkipCommands
<1>11. \A m \in Mods \ Left' : CommandsDone(m)'
  BY <1>1, <1>5, <1>7, <1>8, <1>9, <1>10, OthersStayDone DEF Working
<1> QED BY <1>1, <1>6, <1>7, <1>8, <1>10, <1>11, InstallStepInv DEF IInv, TypeOK, Working, Entering

(* The install commands of the current module change what is built. *)
LEMMA StartCommandsStep ==
  ASSUME IInv, StartCommands
  PROVE  IInv'
<1>1. op \in Op /\ op.cmd \in {"install", "setup"} /\ op.at = "run" /\ op.todo # <<>>
  BY DEF IInv, CommandInv, StartCommands, Op
<1>2. PICK c \in Module : c = Current /\ c \in Left
  BY <1>1, CurrentFacts
<1>3. /\ op' \in Op /\ op'.cmd = op.cmd /\ op'.mods = op.mods /\ op'.known = op.known
      /\ op'.skip = op.skip /\ op'.rerun = op.rerun /\ op'.passed = op.passed
      /\ op'.at = "running" /\ op'.todo = op.todo
  BY <1>1, GoFacts DEF StartCommands, Step
<1>4. Left' = Left /\ Left' \subseteq Mods
  BY <1>3 DEF IInv, CommandInv, Left
<1>5. /\ tree' \in [Module -> Tree]
      /\ \A m \in Module : /\ HasManifest(tree[m]) => HasManifest(tree'[m])
                           /\ m # c => tree'[m] = tree[m]
  <2>1. TypeOK /\ tree[Current] \in Tree
    BY <1>1, CurrentFacts DEF IInv, TypeOK
  <2> QED BY <1>1, <1>2, <2>1, BuiltFacts, SetBuiltFacts DEF StartCommands
<1>6. \A m \in Mods \ Left' : CommandsDone(m)'
  BY <1>1, <1>2, <1>3, <1>4, <1>5, OthersStayDone DEF Working
<1>7. UNCHANGED <<pin, record, progress, proc, cut, kills, changes>>
  BY DEF StartCommands
<1> QED BY <1>1, <1>3, <1>4, <1>5, <1>6, <1>7, InstallStepInv DEF IInv, TypeOK, Working, Entering

LEMMA CommandsSucceedStep ==
  ASSUME IInv, CommandsSucceed
  PROVE  IInv'
<1>1. op \in Op /\ op.cmd \in {"install", "setup"} /\ op.at = "running" /\ op.todo # <<>>
  BY DEF IInv, CommandInv, CommandsSucceed, Op
<1>2. PICK c \in Module : c = Current /\ c \in Left
  BY <1>1, CurrentFacts
<1>3. /\ op' \in Op /\ op'.cmd = op.cmd /\ op'.mods = op.mods /\ op'.known = op.known
      /\ op'.skip = op.skip /\ op'.rerun = op.rerun /\ op'.passed = op.passed
      /\ op'.at = "ran" /\ op'.todo = op.todo
  BY <1>1, GoFacts DEF CommandsSucceed, Step
<1>4. Left' = Left /\ Left' \subseteq Mods /\ Current' = c
  BY <1>2, <1>3 DEF IInv, CommandInv, Left, Current
<1>5. /\ tree' \in [Module -> Tree] /\ tree'[c].built = tree'[c].head
      /\ \A m \in Module : /\ HasManifest(tree[m]) => HasManifest(tree'[m])
                           /\ m # c => tree'[m] = tree[m]
  <2>1. TypeOK /\ tree[Current].head \in 0 .. MaxCommit
    BY <1>1, CurrentFacts DEF IInv, TypeOK, Tree
  <2> QED BY <1>1, <1>2, <2>1, SetBuiltFacts DEF CommandsSucceed
<1>6. \A m \in Mods \ Left' : CommandsDone(m)'
  BY <1>1, <1>2, <1>3, <1>4, <1>5, OthersStayDone DEF Working
<1>7. UNCHANGED <<pin, record, progress, proc, cut, kills, changes>>
  BY DEF CommandsSucceed
<1> QED BY <1>1, <1>3, <1>4, <1>5, <1>6, <1>7, InstallStepInv DEF IInv, TypeOK, Working, Entering

LEMMA CommandsFailStep ==
  ASSUME IInv, CommandsFail
  PROVE  IInv'
<1>1. op \in Op /\ op.cmd \in {"install", "setup"} /\ op.at \in {"run", "running"}
  BY DEF IInv, CommandInv, CommandsFail, Op
<1>2. /\ op' \in Op /\ op'.cmd = op.cmd /\ op'.mods = op.mods /\ op'.known = op.known
      /\ op'.at = "failed" /\ op'.todo = <<>>
  BY <1>1, FinishFacts DEF CommandsFail
<1>3. Left' \subseteq Mods
  BY <1>2, ToSetOfSeq DEF Left, Op
<1>4. UNCHANGED <<pin, tree, record, progress, proc, cut, kills, changes>>
  BY DEF CommandsFail
<1> QED BY <1>1, <1>2, <1>3, <1>4, InstallStepInv DEF IInv, TypeOK, Working, Entering

LEMMA RecordStepStep ==
  ASSUME IInv, RecordStep
  PROVE  IInv'
<1>1. op \in Op /\ op.cmd \in {"install", "setup"} /\ op.at = "ran" /\ op.todo # <<>>
  BY DEF IInv, CommandInv, RecordStep, Op
<1>2. PICK c \in Module : c = Current
  BY <1>1, CurrentFacts
<1>3. /\ op' \in Op /\ op'.cmd = op.cmd /\ op'.mods = op.mods /\ op'.known = op.known
      /\ op'.skip = op.skip /\ op'.rerun = op.rerun /\ op'.passed = op.passed
      /\ op'.at = "run" /\ op'.todo = Tail(op.todo)
  BY <1>1, GoOnFacts DEF RecordStep, Step
<1>4. Left = {c} \cup Left' /\ Left \subseteq Mods
  BY <1>1, <1>2, <1>3, LeftAfter DEF IInv, CommandInv, Left
<1>5. /\ UNCHANGED <<pin, tree, record, proc, cut, kills, changes>>
      /\ progress' = progress \cup {c}
  BY <1>2 DEF RecordStep
<1>6. CommandsDone(c)'
  BY <1>1, <1>2, <1>5 DEF IInv, InstallInv, CommandsDone
<1>7. \A m \in Mods \ Left' : CommandsDone(m)'
  BY <1>1, <1>3, <1>4, <1>5, <1>6, OthersStayDone DEF Working
<1> QED BY <1>1, <1>3, <1>4, <1>5, <1>7, InstallStepInv DEF IInv, TypeOK, Working, Entering

(* Once the modules are entered their commands stay done. *)
LEMMA AllStayDone ==
  ASSUME \A m \in Mods : CommandsDone(m), UNCHANGED tree,
         op'.cmd = op.cmd, op'.known = op.known, op'.skip = op.skip, op'.rerun = op.rerun,
         op'.passed = op.passed
  PROVE  \A m \in Mods : CommandsDone(m)'
BY DoneStays

LEMMA AllRunStep ==
  ASSUME IInv, AllRun
  PROVE  IInv'
<1>1. op \in Op /\ op.cmd \in {"install", "setup"} /\ op.at = "run" /\ op.todo = <<>>
  BY DEF IInv, CommandInv, AllRun, Op
<1>2. op' = [op EXCEPT !.at = "record", !.todo = op.mods, !.resume = FALSE]
  BY DEF AllRun
<1>3. op' \in Op
  BY <1>1, <1>2 DEF Op, Step
<1>4. /\ op'.cmd = op.cmd /\ op'.mods = op.mods /\ op'.known = op.known
      /\ op'.skip = op.skip /\ op'.rerun = op.rerun /\ op'.passed = op.passed
      /\ op'.at = "record" /\ op'.todo = op.mods
  BY <1>1, <1>2 DEF Op
<1>5. Left' = Mods /\ Left = {}
  BY <1>1, <1>4, ToSetOfSeq DEF Left, Mods, Op
<1>6. UNCHANGED <<pin, tree, record, progress, proc, cut, kills, changes>>
  BY DEF AllRun
<1>7. /\ \A m \in Mods : CommandsDone(m)
      /\ Installed = op.known
  BY <1>1, <1>5 DEF IInv, InstallInv
<1>8. (\A m \in Mods : CommandsDone(m)') /\ Installed' = Installed
  BY <1>4, <1>6, <1>7, AllStayDone DEF Installed
<1> QED BY <1>1, <1>3, <1>4, <1>5, <1>6, <1>7, <1>8, InstallStepInv DEF IInv, TypeOK, Working, Entering

LEMMA RecordModuleStep ==
  ASSUME IInv, RecordModule
  PROVE  IInv'
<1>1. op \in Op /\ op.cmd \in {"install", "setup"} /\ op.at = "record" /\ op.todo # <<>>
  BY DEF IInv, CommandInv, RecordModule, Op
<1>2. PICK c \in Module : c = Current /\ c \in Left /\ c \in Mods
  BY <1>1, CurrentFacts DEF IInv, CommandInv, Left
<1>3. /\ op' \in Op /\ op'.cmd = op.cmd /\ op'.mods = op.mods /\ op'.known = op.known
      /\ op'.skip = op.skip /\ op'.rerun = op.rerun /\ op'.passed = op.passed
      /\ op'.at = "clear" /\ op'.todo = op.todo
  BY <1>1, GoFacts DEF RecordModule, Step
<1>4. Left' = Left /\ Left' \subseteq Mods /\ Current' = c
  BY <1>2, <1>3 DEF IInv, CommandInv, Left, Current
<1>5. HasManifest(tree[c])
  BY <1>1, <1>2 DEF IInv, InstallInv
<1>6. /\ record' = [record EXCEPT ![c] = pin[c]] /\ pin[c] \in Commit
      /\ UNCHANGED <<pin, tree, progress, proc, cut, kills, changes>>
  BY <1>2 DEF RecordModule, IInv, TypeOK
<1>7. /\ record' \in [Module -> 0 .. MaxCommit]
      /\ \A m \in Module : record'[m] # record[m] => HasManifest(tree[m])
  BY <1>5, <1>6 DEF IInv, TypeOK, Commit
<1>8. Installed' = Installed \cup {c}
  BY <1>6 DEF Installed, IInv, TypeOK, Commit
<1>9. (\A m \in Mods : CommandsDone(m)')
  BY <1>1, <1>3, <1>6, AllStayDone DEF IInv, InstallInv
<1>10. op.known \cup (Mods \ Left) \subseteq Installed /\ Installed \subseteq op.known \cup Mods
  BY <1>1 DEF IInv, InstallInv
<1> QED BY <1>1, <1>2, <1>3, <1>4, <1>6, <1>7, <1>8, <1>9, <1>10, InstallStepInv
     DEF IInv, TypeOK, Working, Entering

LEMMA ClearProgressStep ==
  ASSUME IInv, ClearProgress
  PROVE  IInv'
<1>1. op \in Op /\ op.cmd \in {"install", "setup"} /\ op.at = "clear" /\ op.todo # <<>>
  BY DEF IInv, CommandInv, ClearProgress, Op
<1>2. PICK c \in Module : c = Current
  BY <1>1, CurrentFacts
<1>3. /\ op' \in Op /\ op'.cmd = op.cmd /\ op'.mods = op.mods /\ op'.known = op.known
      /\ op'.skip = op.skip /\ op'.rerun = op.rerun /\ op'.passed = op.passed
      /\ op'.at = "record" /\ op'.todo = Tail(op.todo)
  BY <1>1, GoOnFacts DEF ClearProgress, Step
<1>4. Left = {c} \cup Left' /\ Left \subseteq Mods
  BY <1>1, <1>2, <1>3, LeftAfter DEF IInv, CommandInv, Left
<1>5. /\ UNCHANGED <<pin, tree, record, proc, cut, kills, changes>>
      /\ progress' = progress \ {c}
  BY <1>2 DEF ClearProgress
<1>6. (\A m \in Mods : CommandsDone(m)')
  BY <1>1, <1>3, <1>5, AllStayDone DEF IInv, InstallInv
<1>7. /\ op.known \cup (Mods \ Left) \subseteq Installed /\ Installed \subseteq op.known \cup Mods
      /\ c \in Installed /\ Installed' = Installed
  BY <1>1, <1>2, <1>5 DEF IInv, InstallInv, Installed
<1> QED BY <1>1, <1>3, <1>4, <1>5, <1>6, <1>7, InstallStepInv DEF IInv, TypeOK, Working, Entering

(* What is recorded stays so to the end of the command. *)
LEMMA EnteredStepInv ==
  ASSUME IInv, op \in Op, op.cmd \in {"install", "setup"}, op.at \in {"record", "configure"},
         op.todo = <<>>, op.at = "configure" => op.cmd = "setup",
         op'.at = "failed" => op.at = "configure", op'.at = "configure" => op.cmd = "setup",
         op.at = "configure" => op'.at \in {"ok", "failed"},
         op' \in Op, op'.cmd = op.cmd, op'.mods = op.mods, op'.known = op.known,
         op'.skip = op.skip, op'.rerun = op.rerun, op'.passed = op.passed,
         op'.at \in {"configure", "ok", "failed"}, op'.todo = <<>>,
         UNCHANGED <<pin, tree, record, progress, proc, cut, kills, changes>>
  PROVE  IInv'
<1>1. Left = {} /\ Left' = {}
  BY EmptyToSet DEF Left
<1>2. (\A m \in Mods : CommandsDone(m)')
  BY AllStayDone DEF IInv, InstallInv
<1>3. /\ op.known \cup (Mods \ Left) \subseteq Installed /\ Installed \subseteq op.known \cup Mods
      /\ Installed' = Installed
  BY DEF IInv, InstallInv, Installed
<1> QED BY <1>1, <1>2, <1>3, InstallStepInv DEF IInv, TypeOK, Working, Entering

LEMMA AllRecordedStep ==
  ASSUME IInv, AllRecorded
  PROVE  IInv'
<1>1. op \in Op /\ op.cmd \in {"install", "setup"} /\ op.at = "record" /\ op.todo = <<>>
  BY DEF IInv, CommandInv, AllRecorded, Op
<1>2. /\ op' \in Op /\ op'.cmd = op.cmd /\ op'.mods = op.mods /\ op'.known = op.known
      /\ op'.skip = op.skip /\ op'.rerun = op.rerun /\ op'.passed = op.passed /\ op'.todo = <<>>
      /\ op'.at = IF op.cmd = "setup" THEN "configure" ELSE "ok"
  <2>1. CASE op.cmd = "setup"
    BY <1>1, <2>1, GoFacts DEF AllRecorded, Step
  <2>2. CASE op.cmd # "setup"
    BY <1>1, <2>2, FinishFacts DEF AllRecorded
  <2> QED BY <2>1, <2>2
<1>3. UNCHANGED <<pin, tree, record, progress, proc, cut, kills, changes>>
  BY DEF AllRecorded
<1> QED BY <1>1, <1>2, <1>3, EnteredStepInv

(* A setup ends, well or not, with all its modules recorded. *)
LEMMA ConfigureSetupStep ==
  ASSUME IInv, ConfigureSetup
  PROVE  IInv'
<1>1. op \in Op /\ op.cmd = "setup" /\ op.at = "configure" /\ op.todo = <<>>
  BY DEF IInv, CommandInv, ConfigureSetup
<1>2. /\ op' \in Op /\ op'.cmd = op.cmd /\ op'.mods = op.mods /\ op'.known = op.known
      /\ op'.skip = op.skip /\ op'.rerun = op.rerun /\ op'.passed = op.passed /\ op'.todo = <<>>
      /\ op'.at \in {"ok", "failed"}
  BY <1>1, FinishFacts DEF ConfigureSetup
<1>3. UNCHANGED <<pin, tree, record, progress, proc, cut, kills, changes>>
  BY DEF ConfigureSetup
<1> QED BY <1>1, <1>2, <1>3, EnteredStepInv

-----------------------------------------------------------------------------
(* The steps of an update preserve the inductive invariant.                *)

(* What they have in common: no manifest disappears, and only modules with *)
(* a manifest are entered.  What is left is how far the update has come.   *)
LEMMA UpdateStepInv ==
  ASSUME IInv, op.cmd = "update", op.at \in {"pull", "halt", "build", "building", "hook", "enter"},
         op' \in Op, op'.cmd = op.cmd, op'.mods = op.mods,
         op'.at \in {"pull", "halt", "build", "building", "hook", "enter", "ok", "failed"},
         op'.at \in {"halt", "build", "building", "hook", "enter"} => op'.todo # <<>>,
         op'.at \in {"ok", "failed"} => op'.todo = <<>>,
         Left' \subseteq Mods,
         tree' \in [Module -> Tree], \A m \in Module : HasManifest(tree[m]) => HasManifest(tree'[m]),
         record' \in [Module -> 0 .. MaxCommit],
         \A m \in Module : record'[m] # record[m] => HasManifest(tree[m]),
         proc' \in [Module -> 0 .. MaxCommit],
         UNCHANGED <<pin, progress, cut, kills, changes>>
  PROVE  /\ TypeOK' /\ CommandInv' /\ InstallInv' /\ RecordsAreLoadable' /\ EntriesFollowCommands'
         /\ Mods' = Mods /\ Mods \subseteq Module
         /\ op'.at # "failed" => \A m \in Mods : HasManifest(tree'[m])
<1>1. TypeOK'
  BY DEF IInv, TypeOK, Op
<1>2. CommandInv'
  BY DEF CommandInv, Mods, Left
<1>3. InstallInv' /\ EntriesFollowCommands'
  BY DEF InstallInv, EntriesFollowCommands
<1>4. RecordsAreLoadable'
  BY LoadableStays DEF IInv
<1>5. Mods' = Mods /\ Mods \subseteq Module
  BY ToSetOfSeq DEF Mods, IInv, CommandInv, Op
<1>6. op'.at # "failed" => \A m \in Mods : HasManifest(tree'[m])
  BY <1>5 DEF IInv, UpdateInv
<1> QED BY <1>1, <1>2, <1>3, <1>4, <1>5, <1>6

(* A record with a note is as good as the record. *)
LEMMA NoteFacts ==
  ASSUME NEW o \in Op, NEW note \in {"none", "ancestry undecidable"}, NEW S \in SUBSET Module
  PROVE  /\ [o EXCEPT !.note = note] \in Op
         /\ [o EXCEPT !.note = note].cmd = o.cmd /\ [o EXCEPT !.note = note].at = o.at
         /\ [o EXCEPT !.note = note].mods = o.mods /\ [o EXCEPT !.note = note].todo = o.todo
         /\ [o EXCEPT !.note = note].skip = o.skip
         /\ [o EXCEPT !.note = note, !.stopped = S] \in Op
         /\ [o EXCEPT !.note = note, !.stopped = S].cmd = o.cmd
         /\ [o EXCEPT !.note = note, !.stopped = S].at = o.at
         /\ [o EXCEPT !.note = note, !.stopped = S].mods = o.mods
         /\ [o EXCEPT !.note = note, !.stopped = S].todo = o.todo
         /\ [o EXCEPT !.note = note, !.stopped = S].skip = o.skip
<1>1. [o EXCEPT !.note = note] \in Op
  BY DEF Op
<1>2. [o EXCEPT !.note = note, !.stopped = S] \in Op
  BY DEF Op
<1>3. /\ [o EXCEPT !.note = note].cmd = o.cmd /\ [o EXCEPT !.note = note].at = o.at
      /\ [o EXCEPT !.note = note].mods = o.mods /\ [o EXCEPT !.note = note].todo = o.todo
      /\ [o EXCEPT !.note = note].skip = o.skip
  BY DEF Op
<1>4. /\ [o EXCEPT !.note = note, !.stopped = S].cmd = o.cmd
      /\ [o EXCEPT !.note = note, !.stopped = S].at = o.at
      /\ [o EXCEPT !.note = note, !.stopped = S].mods = o.mods
      /\ [o EXCEPT !.note = note, !.stopped = S].todo = o.todo
      /\ [o EXCEPT !.note = note, !.stopped = S].skip = o.skip
  BY DEF Op
<1> QED BY <1>1, <1>2, <1>3, <1>4

LEMMA BeginUpdateStep ==
  ASSUME IInv, NEW mods \in Seq(Module), NEW onDirty \in {"stop", "stash", "skip"},
         NEW allow \in BOOLEAN, NEW skip \in BOOLEAN, BeginUpdate(mods, onDirty, allow, skip)
  PROVE  IInv'
<1> DEFINE dirty == {m \in ToSet(mods) : tree[m].dirty}
           passed == IF onDirty = "skip" THEN dirty ELSE {}
<1>1. PICK left \in Without(mods, passed) \ {<<>>} :
        op' = [Command("update", UpdateOrder[1], left) EXCEPT !.allow = allow, !.skip = skip]
  BY DEF BeginUpdate
<1> DEFINE c == Command("update", "pull", left)
<1>2. left \in Seq(Module) /\ ToSet(left) \subseteq ToSet(mods)
  BY WithoutIsPart
<1>3. c \in Op /\ c.cmd = "update" /\ c.at = "pull" /\ c.mods = left /\ c.todo = left
  BY <1>2, CommandFacts DEF Step
<1>4. op' = [c EXCEPT !.allow = allow, !.skip = skip]
  BY <1>1 DEF UpdateOrder
<1> HIDE DEF c
<1>5. op' \in Op
  BY <1>3, <1>4 DEF Op
<1>6. op'.cmd = "update" /\ op'.at = "pull" /\ op'.mods = left /\ op'.todo = left
  BY <1>3, <1>4, <1>5 DEF Op
<1>7. op.cmd = "none" /\ op.at = "idle"
  BY CommandFacts, EmptySeq DEF BeginUpdate, Step
<1>8. /\ tree' \in [Module -> Tree]
      /\ \A m \in Module : HasManifest(tree[m]) => HasManifest(tree'[m])
  <2>1. ASSUME NEW m \in Module, NEW b \in BOOLEAN
        PROVE  /\ [tree[m] EXCEPT !.dirty = b] \in Tree
               /\ [tree[m] EXCEPT !.dirty = b].phase = tree[m].phase
    <3>1. tree[m] \in Tree
      BY DEF IInv, TypeOK
    <3>2. [tree[m] EXCEPT !.dirty = b] \in Tree
      BY <3>1 DEF Tree
    <3> QED BY <3>1, <3>2 DEF Tree
  <2>2. \A m \in Module : (tree[m].dirty /\ ~(m \in dirty /\ onDirty = "stash")) \in BOOLEAN
    OBVIOUS
  <2>3. tree' = [m \in Module |->
                   [tree[m] EXCEPT !.dirty = tree[m].dirty /\ ~(m \in dirty /\ onDirty = "stash")]]
    BY DEF BeginUpdate
  <2> HIDE DEF dirty
  <2> QED BY <2>1, <2>2, <2>3 DEF HasManifest
<1>9. UNCHANGED <<pin, record, progress, proc, cut, kills, changes>>
  BY DEF BeginUpdate
<1>10. TypeOK'
  BY <1>5, <1>8, <1>9 DEF IInv, TypeOK, Op
<1>11. CommandInv'
  BY <1>5, <1>6 DEF CommandInv, Mods
<1>12. InstallInv'
  BY <1>6 DEF InstallInv
<1>13. UpdateInv'
  <2>1. Mods' \subseteq Installed /\ Mods' = Left'
    BY <1>2, <1>6 DEF Mods, Left, BeginUpdate
  <2>2. \A m \in Mods' : HasManifest(tree'[m])
    BY <1>8, <2>1 DEF BeginUpdate, Loadable, Installed
  <2> QED BY <1>6, <2>1, <2>2 DEF UpdateInv
<1>14. RecordsAreLoadable'
  BY <1>7, <1>8, <1>9, LoadableStays DEF IInv, BeginUpdate
<1>15. EntriesFollowCommands'
  BY <1>6 DEF EntriesFollowCommands
<1> QED BY <1>10, <1>11, <1>12, <1>13, <1>14, <1>15 DEF IInv

(* The checkout of the current module moves to its pin, before anything    *)
(* else of the module is touched.                                          *)
LEMMA PullModuleStep ==
  ASSUME IInv, PullModule
  PROVE  IInv'
<1>1. op \in Op /\ op.cmd = "update" /\ op.at = "pull" /\ op.todo # <<>>
  BY DEF IInv, CommandInv, PullModule, At
<1>2. Current \in Module /\ Current \in Left /\ TypeOK
  BY <1>1, CurrentFacts DEF IInv
<1>3. PICK deepened \in BOOLEAN :
        \E r \in Update(tree[Current], pin[Current], op.allow, deepened) :
          /\ SetTree(r.tree)
          /\ IF r.ok
             THEN AfterPull([op EXCEPT !.note = IF deepened THEN "none" ELSE "ancestry undecidable"],
                            r.tree = tree[Current])
             ELSE Finish("failed")
  BY DEF PullModule
<1>4. PICK r \in Update(tree[Current], pin[Current], op.allow, deepened) :
          /\ SetTree(r.tree)
          /\ IF r.ok
             THEN AfterPull([op EXCEPT !.note = IF deepened THEN "none" ELSE "ancestry undecidable"],
                            r.tree = tree[Current])
             ELSE Finish("failed")
  BY <1>3
<1>5. /\ r.tree \in Tree /\ (HasManifest(tree[Current]) => HasManifest(r.tree))
      /\ r.ok => r.tree.head = pin[Current]
  <2>1. tree[Current] \in Tree /\ pin[Current] \in Commit /\ op.allow \in BOOLEAN
    BY <1>1, <1>2 DEF TypeOK, Op
  <2> QED BY <2>1, UpdateResult
<1>6. /\ tree' \in [Module -> Tree] /\ tree'[Current] = r.tree
      /\ \A m \in Module : m # Current => tree'[m] = tree[m]
  BY <1>1, <1>2, <1>4, <1>5, SetTreeFacts
<1>7. /\ op' \in Op /\ op'.cmd = op.cmd /\ op'.mods = op.mods /\ op'.skip = op.skip
      /\ \/ r.ok /\ op'.at = "halt" /\ op'.todo = op.todo
         \/ op'.at = "failed" /\ op'.todo = <<>>
  <2>1. CASE r.ok
    <3> DEFINE note == IF deepened THEN "none" ELSE "ancestry undecidable"
               o == [op EXCEPT !.note = note]
    <3>1. o \in Op /\ o.cmd = op.cmd /\ o.at = "pull" /\ o.mods = op.mods
          /\ o.todo = op.todo /\ o.skip = op.skip
      BY <1>1, NoteFacts, ZenonT(30)
    <3>2. Proceed(o)
      BY <1>4, <2>1 DEF AfterPull
    <3> HIDE DEF o
    <3> QED BY <1>1, <2>1, <3>1, <3>2, UpdateProceeds
  <2>2. CASE ~r.ok
    BY <1>1, <1>4, <2>2, FinishFacts
  <2> QED BY <2>1, <2>2
<1>8. Left' \subseteq Mods /\ (op'.at = "halt" => Left' = Left /\ Current' = Current)
  BY <1>7, ToSetOfSeq DEF IInv, CommandInv, Left, Current, Op
<1>9. UNCHANGED <<pin, record, progress, proc, cut, kills, changes>>
  BY DEF PullModule
<1>10. \A m \in Module : HasManifest(tree[m]) => HasManifest(tree'[m])
  BY <1>5, <1>6
<1>11. /\ TypeOK' /\ CommandInv' /\ InstallInv' /\ RecordsAreLoadable' /\ EntriesFollowCommands'
       /\ Mods' = Mods /\ Mods \subseteq Module
       /\ op'.at # "failed" => \A m \in Mods : HasManifest(tree'[m])
  BY <1>1, <1>2, <1>6, <1>7, <1>8, <1>9, <1>10, UpdateStepInv DEF TypeOK
<1>12. UpdateInv'
  <2>1. CASE op'.at = "failed"
    BY <2>1 DEF UpdateInv
  <2>2. CASE op'.at = "halt"
    <3>1. /\ \A m \in Mods \ Left : /\ tree[m].head = pin[m] /\ record[m] = pin[m]
                                    /\ op.skip \/ tree[m].built = tree[m].head
                                    /\ proc[m] \in {0, tree[m].head}
      BY <1>1 DEF IInv, UpdateInv
    <3>2. \A m \in Mods \ Left : m # Current /\ tree'[m] = tree[m]
      BY <1>2, <1>6, <1>11
    <3>3. tree'[Current].head = pin[Current]
      BY <1>5, <1>6, <1>7, <2>2
    <3> QED BY <1>1, <1>7, <1>8, <1>9, <1>11, <2>2, <3>1, <3>2, <3>3 DEF UpdateInv
  <2> QED BY <1>7, <2>1, <2>2
<1> QED BY <1>11, <1>12 DEF IInv

(* In an update the code that runs is stopped after the checkout moved. *)
LEMMA HaltForUpdateStep ==
  ASSUME IInv, HaltModule, op.cmd = "update"
  PROVE  IInv'
<1>1. op \in Op /\ op.cmd = "update" /\ op.at = "halt" /\ op.todo # <<>>
  BY DEF IInv, CommandInv, HaltModule, At
<1>2. Current \in Module /\ Current \in Left /\ TypeOK
  BY <1>1, CurrentFacts DEF IInv
<1> DEFINE stopped == IF proc[Current] = 0 THEN op.stopped ELSE op.stopped \cup {Current}
           o == [op EXCEPT !.note = "none", !.stopped = stopped]
<1>3. Proceed(o)
  BY DEF HaltModule
<1>4. o \in Op /\ o.cmd = op.cmd /\ o.at = "halt" /\ o.mods = op.mods
      /\ o.todo = op.todo /\ o.skip = op.skip
  <2>1. stopped \in SUBSET Module
    BY <1>1, <1>2 DEF Op
  <2> HIDE DEF stopped
  <2> QED BY <1>1, <2>1, NoteFacts
<1> HIDE DEF o
<1>5. /\ op' \in Op /\ op'.cmd = op.cmd /\ op'.mods = op.mods /\ op'.skip = op.skip
      /\ op'.at = "build" /\ op'.todo = op.todo
  BY <1>1, <1>3, <1>4, UpdateProceeds
<1>6. Left' = Left /\ Left \subseteq Mods /\ Current' = Current
  BY <1>5 DEF IInv, CommandInv, Left, Current
<1>7. proc' = [proc EXCEPT ![Current] = 0] /\ UNCHANGED <<pin, tree, record, progress, cut, kills, changes>>
  BY DEF HaltModule
<1>8. proc' \in [Module -> 0 .. MaxCommit]
  BY <1>2, <1>7 DEF TypeOK
<1>9. /\ TypeOK' /\ CommandInv' /\ InstallInv' /\ RecordsAreLoadable' /\ EntriesFollowCommands'
      /\ Mods' = Mods /\ Mods \subseteq Module
      /\ op'.at # "failed" => \A m \in Mods : HasManifest(tree'[m])
  BY <1>1, <1>2, <1>5, <1>6, <1>7, <1>8, UpdateStepInv DEF TypeOK
<1>10. UpdateInv'
  BY <1>1, <1>2, <1>5, <1>6, <1>7, <1>9 DEF IInv, UpdateInv, TypeOK
<1> QED BY <1>9, <1>10 DEF IInv

LEMMA BuildModuleStep ==
  ASSUME IInv, BuildModule
  PROVE  IInv'
<1>1. op \in Op /\ op.cmd = "update" /\ op.at = "build" /\ op.todo # <<>>
  BY DEF IInv, CommandInv, BuildModule, At
<1>2. Current \in Module /\ Current \in Left /\ TypeOK
  BY <1>1, CurrentFacts DEF IInv
<1>3. /\ tree' \in [Module -> Tree]
      /\ \A m \in Module : /\ m # Current => tree'[m] = tree[m]
                           /\ tree'[m].head = tree[m].head
                           /\ HasManifest(tree[m]) <=> HasManifest(tree'[m])
  <2>1. CASE op.skip
    BY <2>1 DEF BuildModule, IInv, TypeOK
  <2>2. CASE ~op.skip
    <3>1. 0 \in 0 .. MaxCommit /\ SetTree([tree[Current] EXCEPT !.built = 0])
      BY <2>2 DEF BuildModule
    <3> QED BY <1>1, <1>2, <3>1, SetBuiltFacts
  <2> QED BY <2>1, <2>2
<1>4. /\ op' \in Op /\ op'.cmd = op.cmd /\ op'.mods = op.mods /\ op'.skip = op.skip
      /\ op'.todo = op.todo /\ op'.at = IF op.skip THEN "hook" ELSE "building"
  <2>1. CASE op.skip
    BY <1>1, <2>1, UpdateProceeds DEF BuildModule
  <2>2. CASE ~op.skip
    BY <1>1, <2>2, GoFacts DEF BuildModule, Step
  <2> QED BY <2>1, <2>2
<1>5. Left' = Left /\ Left \subseteq Mods /\ Current' = Current
  BY <1>4 DEF IInv, CommandInv, Left, Current
<1>6. UNCHANGED <<pin, record, progress, proc, cut, kills, changes>>
  BY DEF BuildModule
<1>7. /\ TypeOK' /\ CommandInv' /\ InstallInv' /\ RecordsAreLoadable' /\ EntriesFollowCommands'
      /\ Mods' = Mods /\ Mods \subseteq Module
      /\ op'.at # "failed" => \A m \in Mods : HasManifest(tree'[m])
  BY <1>1, <1>2, <1>3, <1>4, <1>5, <1>6, UpdateStepInv DEF TypeOK
<1>8. UpdateInv'
  BY <1>1, <1>2, <1>3, <1>4, <1>5, <1>6, <1>7 DEF IInv, UpdateInv
<1> QED BY <1>7, <1>8 DEF IInv

LEMMA BuiltStep ==
  ASSUME IInv, Built
  PROVE  IInv'
<1>1. op \in Op /\ op.cmd = "update" /\ op.at = "building" /\ op.todo # <<>>
  BY DEF IInv, CommandInv, Built, At
<1>2. Current \in Module /\ Current \in Left /\ TypeOK
  BY <1>1, CurrentFacts DEF IInv
<1>3. /\ tree' \in [Module -> Tree]
      /\ \A m \in Module : /\ m # Current => tree'[m] = tree[m]
                           /\ tree'[m].head = tree[m].head
                           /\ HasManifest(tree[m]) <=> HasManifest(tree'[m])
      /\ op' \in Op /\ op'.cmd = op.cmd /\ op'.mods = op.mods /\ op'.skip = op.skip
      /\ \/ /\ op'.at = "hook" /\ op'.todo = op.todo
            /\ tree'[Current].built = tree[Current].head
         \/ op'.at = "failed" /\ op'.todo = <<>>
  <2>1. CASE SetTree([tree[Current] EXCEPT !.built = tree[Current].head])
             /\ Proceed([op EXCEPT !.at = "build"])
    <3>1. tree[Current].head \in 0 .. MaxCommit
      BY <1>2 DEF TypeOK, Tree
    <3> DEFINE o == [op EXCEPT !.at = "build"]
    <3>2. o \in Op
      BY <1>1 DEF Op, Step
    <3>3. o.cmd = op.cmd /\ o.at = "build" /\ o.mods = op.mods /\ o.todo = op.todo /\ o.skip = op.skip
      BY <1>1 DEF Op
    <3>4. Proceed(o)
      BY <2>1
    <3> HIDE DEF o
    <3>5. /\ op' \in Op /\ op'.cmd = op.cmd /\ op'.mods = op.mods /\ op'.skip = op.skip
          /\ op'.at = "hook" /\ op'.todo = op.todo
      BY <1>1, <3>2, <3>3, <3>4, UpdateProceeds
    <3> QED BY <1>1, <1>2, <2>1, <3>1, <3>5, SetBuiltFacts
  <2>2. CASE Finish("failed") /\ UNCHANGED tree
    BY <1>1, <1>2, <2>2, FinishFacts DEF TypeOK
  <2> QED BY <2>1, <2>2 DEF Built
<1>4. Left' \subseteq Mods /\ (op'.at = "hook" => Left' = Left /\ Current' = Current)
  BY <1>3, ToSetOfSeq DEF IInv, CommandInv, Left, Current, Op
<1>5. UNCHANGED <<pin, record, progress, proc, cut, kills, changes>>
  BY DEF Built
<1>6. /\ TypeOK' /\ CommandInv' /\ InstallInv' /\ RecordsAreLoadable' /\ EntriesFollowCommands'
      /\ Mods' = Mods /\ Mods \subseteq Module
      /\ op'.at # "failed" => \A m \in Mods : HasManifest(tree'[m])
  BY <1>1, <1>2, <1>3, <1>4, <1>5, UpdateStepInv DEF TypeOK
<1>7. UpdateInv'
  BY <1>1, <1>2, <1>3, <1>4, <1>5, <1>6 DEF IInv, UpdateInv
<1> QED BY <1>6, <1>7 DEF IInv

LEMMA HookForUpdateStep ==
  ASSUME IInv, RunHook, op.cmd = "update"
  PROVE  IInv'
<1>1. op \in Op /\ op.cmd = "update" /\ op.at = "hook" /\ op.todo # <<>>
  BY DEF IInv, CommandInv, RunHook, At
<1>2. /\ op' \in Op /\ op'.cmd = op.cmd /\ op'.mods = op.mods /\ op'.skip = op.skip
      /\ \/ op'.at = "enter" /\ op'.todo = op.todo
         \/ op'.at = "failed" /\ op'.todo = <<>>
  BY <1>1, UpdateProceeds, FinishFacts DEF RunHook
<1>3. Left' \subseteq Mods /\ (op'.at = "enter" => Left' = Left /\ Current' = Current)
  BY <1>2, ToSetOfSeq DEF IInv, CommandInv, Left, Current, Op
<1>4. UNCHANGED <<pin, tree, record, progress, proc, cut, kills, changes>>
  BY DEF RunHook
<1>5. /\ TypeOK' /\ CommandInv' /\ InstallInv' /\ RecordsAreLoadable' /\ EntriesFollowCommands'
      /\ Mods' = Mods /\ Mods \subseteq Module
      /\ op'.at # "failed" => \A m \in Mods : HasManifest(tree'[m])
  BY <1>1, <1>2, <1>3, <1>4, UpdateStepInv DEF IInv, TypeOK
<1>6. UpdateInv'
  BY <1>1, <1>2, <1>3, <1>4, <1>5 DEF IInv, UpdateInv
<1> QED BY <1>5, <1>6 DEF IInv

(* The record is entered last: now the current module is done. *)
LEMMA EnterRecordStep ==
  ASSUME IInv, EnterRecord
  PROVE  IInv'
<1>1. op \in Op /\ op.cmd = "update" /\ op.at = "enter" /\ op.todo # <<>>
  BY DEF IInv, CommandInv, EnterRecord, At
<1>2. Current \in Module /\ Current \in Left /\ TypeOK
  BY <1>1, CurrentFacts DEF IInv
<1>3. /\ op' \in Op /\ op'.cmd = op.cmd /\ op'.mods = op.mods /\ op'.skip = op.skip
      /\ op'.at = "pull" /\ op'.todo = Tail(op.todo)
  BY <1>1, UpdateProceeds DEF EnterRecord
<1>4. Left = {Current} \cup Left' /\ Left \subseteq Mods
  BY <1>1, <1>3, LeftAfter DEF IInv, CommandInv, Left
<1>5. /\ record' = [record EXCEPT ![Current] = pin[Current]]
      /\ UNCHANGED <<pin, tree, progress, proc, cut, kills, changes>>
  BY DEF EnterRecord
<1>6. /\ record' \in [Module -> 0 .. MaxCommit] /\ record'[Current] = pin[Current]
      /\ \A m \in Module : m # Current => record'[m] = record[m]
  BY <1>2, <1>5 DEF TypeOK, Commit
<1>7. HasManifest(tree[Current])
  BY <1>1, <1>2, <1>4 DEF IInv, UpdateInv
<1>8. /\ TypeOK' /\ CommandInv' /\ InstallInv' /\ RecordsAreLoadable' /\ EntriesFollowCommands'
      /\ Mods' = Mods /\ Mods \subseteq Module
      /\ op'.at # "failed" => \A m \in Mods : HasManifest(tree'[m])
  BY <1>1, <1>2, <1>3, <1>4, <1>5, <1>6, <1>7, UpdateStepInv DEF TypeOK
<1>9. UpdateInv'
  <2>1. \A m \in Mods \ Left : /\ tree[m].head = pin[m] /\ record[m] = pin[m]
                               /\ op.skip \/ tree[m].built = tree[m].head
                               /\ proc[m] \in {0, tree[m].head}
    BY <1>1 DEF IInv, UpdateInv
  <2>2. /\ tree[Current].head = pin[Current] /\ proc[Current] \in {0, tree[Current].head}
        /\ op.skip \/ tree[Current].built = tree[Current].head
    BY <1>1 DEF IInv, UpdateInv
  <2>3. \A m \in Mods \ Left' : /\ tree[m].head = pin[m] /\ record'[m] = pin[m]
                                /\ op.skip \/ tree[m].built = tree[m].head
                                /\ proc[m] \in {0, tree[m].head}
    BY <1>2, <1>4, <1>6, <1>8, <2>1, <2>2
  <2> QED BY <1>3, <1>5, <1>8, <2>3 DEF UpdateInv
<1> QED BY <1>8, <1>9 DEF IInv

(* Stopped modules are started from the checkout they have now. *)
LEMMA UpdateEndsStep ==
  ASSUME IInv, UpdateEnds
  PROVE  IInv'
<1>1. op \in Op /\ op.cmd = "update" /\ op.at = "pull" /\ op.todo = <<>> /\ TypeOK
  BY DEF IInv, CommandInv, UpdateEnds, UpdateOrder
<1>2. PICK S \in SUBSET op.stopped : proc' = [m \in Module |-> IF m \in S THEN tree[m].head ELSE proc[m]]
  BY DEF UpdateEnds
<1>3. proc' \in [Module -> 0 .. MaxCommit] /\ \A m \in Module : proc'[m] \in {tree[m].head, proc[m]}
  BY <1>1, <1>2 DEF TypeOK, Tree
<1>4. /\ op' \in Op /\ op'.cmd = op.cmd /\ op'.mods = op.mods /\ op'.skip = op.skip
      /\ op'.at = "ok" /\ op'.todo = <<>>
  BY <1>1, FinishFacts DEF UpdateEnds
<1>5. Left' = Left /\ Left = {}
  <2>1. op.todo \in Seq(Module) /\ op'.todo = op.todo
    BY <1>1, <1>4 DEF Op
  <2>2. ToSet(op.todo) = {}
    BY <1>1, <2>1, ToSetOfSeq
  <2> QED BY <2>1, <2>2 DEF Left
<1>6. UNCHANGED <<pin, tree, record, progress, cut, kills, changes>>
  BY DEF UpdateEnds
<1>7. /\ TypeOK' /\ CommandInv' /\ InstallInv' /\ RecordsAreLoadable' /\ EntriesFollowCommands'
      /\ Mods' = Mods /\ Mods \subseteq Module
      /\ op'.at # "failed" => \A m \in Mods : HasManifest(tree'[m])
  BY <1>1, <1>3, <1>4, <1>5, <1>6, UpdateStepInv DEF TypeOK
<1>8. UpdateInv'
  BY <1>1, <1>3, <1>4, <1>5, <1>6, <1>7 DEF IInv, UpdateInv
<1> QED BY <1>7, <1>8 DEF IInv

-----------------------------------------------------------------------------
(* The steps of an uninstall preserve the inductive invariant.             *)

(* What they have in common: the record of a module goes before another    *)
(* module is touched, and until then it is the current one.                *)
LEMMA UninstallStepInv ==
  ASSUME IInv, op.cmd = "uninstall", op' \in Op, op'.cmd = op.cmd, op'.mods = op.mods,
         op'.at \in {"pre", "halt", "erase", "forget", "post", "ok", "failed"},
         op'.at \in {"halt", "erase", "forget", "post"} => op'.todo # <<>>,
         op'.at \in {"ok", "failed"} => op'.todo = <<>>,
         Left' \subseteq Mods,
         tree' \in [Module -> Tree], record' \in [Module -> 0 .. MaxCommit],
         proc' \in [Module -> 0 .. MaxCommit], cut' \subseteq Module,
         RecordsAreLoadable',
         UNCHANGED <<pin, progress, kills, changes>>
  PROVE  IInv'
<1>1. TypeOK'
  BY DEF IInv, TypeOK, Op
<1>2. CommandInv'
  BY DEF CommandInv, Mods, Left
<1>3. InstallInv' /\ UpdateInv' /\ EntriesFollowCommands'
  BY DEF InstallInv, UpdateInv, EntriesFollowCommands
<1> QED BY <1>1, <1>2, <1>3 DEF IInv

LEMMA BeginUninstallStep ==
  ASSUME IInv, NEW mods \in Seq(Module), NEW force, BeginUninstall(mods, force)
  PROVE  IInv'
<1>1. /\ op' \in Op /\ op'.cmd = "uninstall" /\ op'.at = "pre" /\ op'.mods = mods /\ op'.todo = mods
  BY CommandFacts DEF BeginUninstall, UninstallOrder, Step
<1>2. op.cmd = "none"
  BY CommandFacts, EmptySeq DEF BeginUninstall, Step
<1>3. UNCHANGED <<pin, tree, record, progress, proc, cut, kills, changes>>
  BY DEF BeginUninstall
<1>4. TypeOK'
  BY <1>1, <1>3 DEF IInv, TypeOK, Op
<1>5. CommandInv'
  BY <1>1 DEF CommandInv, Mods
<1>6. InstallInv' /\ UpdateInv' /\ EntriesFollowCommands'
  BY <1>1 DEF InstallInv, UpdateInv, EntriesFollowCommands
<1>7. RecordsAreLoadable'
  BY <1>2, <1>3, LoadableStays DEF IInv, BeginUninstall
<1> QED BY <1>4, <1>5, <1>6, <1>7 DEF IInv

LEMMA PreHookStep ==
  ASSUME IInv, RunHook, op.cmd = "uninstall"
  PROVE  IInv'
<1>1. op \in Op /\ op.cmd = "uninstall" /\ op.at = "pre" /\ op.todo # <<>>
  BY DEF IInv, CommandInv, RunHook, At
<1>2. /\ op' \in Op /\ op'.cmd = op.cmd /\ op'.mods = op.mods
      /\ \/ op'.at = "halt" /\ op'.todo = op.todo
         \/ op'.at = "failed" /\ op'.todo = <<>>
  BY <1>1, UninstallProceeds, FinishFacts DEF RunHook
<1>3. Left' \subseteq Mods
  BY <1>2, ToSetOfSeq DEF IInv, CommandInv, Left, Op
<1>4. UNCHANGED <<pin, tree, record, progress, proc, cut, kills, changes>>
  BY DEF RunHook
<1>5. RecordsAreLoadable'
  BY <1>1, <1>4, LoadableStays DEF IInv, Installed
<1> QED BY <1>1, <1>2, <1>3, <1>4, <1>5, UninstallStepInv DEF IInv, TypeOK

LEMMA HaltForUninstallStep ==
  ASSUME IInv, HaltModule, op.cmd = "uninstall"
  PROVE  IInv'
<1>1. op \in Op /\ op.cmd = "uninstall" /\ op.at = "halt" /\ op.todo # <<>>
  BY DEF IInv, CommandInv, HaltModule, At
<1>2. Current \in Module /\ TypeOK
  BY <1>1, CurrentFacts DEF IInv
<1> DEFINE stopped == IF proc[Current] = 0 THEN op.stopped ELSE op.stopped \cup {Current}
           o == [op EXCEPT !.note = "none", !.stopped = stopped]
<1>3. Proceed(o)
  BY DEF HaltModule
<1>4. o \in Op /\ o.cmd = op.cmd /\ o.at = "halt" /\ o.mods = op.mods /\ o.todo = op.todo
  <2>1. stopped \in SUBSET Module
    BY <1>1, <1>2 DEF Op
  <2> HIDE DEF stopped
  <2> QED BY <1>1, <2>1, NoteFacts
<1> HIDE DEF o
<1>5. /\ op' \in Op /\ op'.cmd = op.cmd /\ op'.mods = op.mods
      /\ op'.at = "erase" /\ op'.todo = op.todo
  BY <1>1, <1>3, <1>4, UninstallProceeds
<1>6. Left' \subseteq Mods
  BY <1>5 DEF IInv, CommandInv, Left
<1>7. proc' = [proc EXCEPT ![Current] = 0] /\ UNCHANGED <<pin, tree, record, progress, cut, kills, changes>>
  BY DEF HaltModule
<1>8. proc' \in [Module -> 0 .. MaxCommit]
  BY <1>2, <1>7 DEF TypeOK
<1>9. RecordsAreLoadable'
  BY <1>1, <1>7, LoadableStays DEF IInv, Installed
<1> QED BY <1>1, <1>2, <1>5, <1>6, <1>7, <1>8, <1>9, UninstallStepInv DEF TypeOK

(* The checkout goes; its record is the next thing to go. *)
LEMMA EraseCloneStep ==
  ASSUME IInv, EraseClone
  PROVE  IInv'
<1>1. op \in Op /\ op.cmd = "uninstall" /\ op.at = "erase" /\ op.todo # <<>>
  BY DEF IInv, CommandInv, EraseClone, At
<1>2. Current \in Module /\ TypeOK /\ Absent \in Tree
  BY <1>1, CurrentFacts, SomeTrees DEF IInv, Phase
<1>3. /\ op' \in Op /\ op'.cmd = op.cmd /\ op'.mods = op.mods
      /\ op'.at = "forget" /\ op'.todo = op.todo
  BY <1>1, UninstallProceeds DEF EraseClone
<1>4. Left' \subseteq Mods /\ Current' = Current
  BY <1>3 DEF IInv, CommandInv, Left, Current
<1>5. tree' \in [Module -> Tree] /\ \A m \in Module : m # Current => tree'[m] = tree[m]
  BY <1>1, <1>2, SetTreeFacts DEF EraseClone
<1>6. UNCHANGED <<pin, record, progress, proc, cut, kills, changes>>
  BY DEF EraseClone
<1>7. RecordsAreLoadable'
  <2>1. Unloadable \subseteq {Current}
    BY <1>1 DEF IInv, RecordsAreLoadable, BeingErased
  <2>2. Unloadable' \subseteq Unloadable \cup {Current}
    BY <1>5, <1>6 DEF Unloadable, Installed
  <2>3. BeingErased' = {Current}
    BY <1>1, <1>3, <1>4 DEF BeingErased
  <2> QED BY <1>1, <1>3, <2>1, <2>2, <2>3 DEF RecordsAreLoadable
<1> QED BY <1>1, <1>2, <1>3, <1>4, <1>5, <1>6, <1>7, UninstallStepInv DEF TypeOK

LEMMA ForgetRecordStep ==
  ASSUME IInv, ForgetRecord
  PROVE  IInv'
<1>1. op \in Op /\ op.cmd = "uninstall" /\ op.at = "forget" /\ op.todo # <<>>
  BY DEF IInv, CommandInv, ForgetRecord, At
<1>2. Current \in Module /\ TypeOK
  BY <1>1, CurrentFacts DEF IInv
<1>3. /\ op' \in Op /\ op'.cmd = op.cmd /\ op'.mods = op.mods
      /\ op'.at = "post" /\ op'.todo = op.todo
  BY <1>1, UninstallProceeds DEF ForgetRecord
<1>4. Left' \subseteq Mods
  BY <1>3 DEF IInv, CommandInv, Left
<1>5. /\ record' = [record EXCEPT ![Current] = 0] /\ cut' = cut \ {Current}
      /\ UNCHANGED <<pin, tree, progress, proc, kills, changes>>
  BY DEF ForgetRecord
<1>6. /\ record' \in [Module -> 0 .. MaxCommit] /\ cut' \subseteq Module
      /\ Installed' = Installed \ {Current}
  BY <1>2, <1>5 DEF TypeOK, Installed
<1>7. RecordsAreLoadable'
  <2>1. Unloadable \subseteq {Current}
    BY <1>1 DEF IInv, RecordsAreLoadable, BeingErased
  <2>2. Unloadable' = {}
    BY <1>5, <1>6, <2>1 DEF Unloadable
  <2> QED BY <2>2 DEF RecordsAreLoadable
<1> QED BY <1>1, <1>2, <1>3, <1>4, <1>5, <1>6, <1>7, UninstallStepInv DEF TypeOK

LEMMA PostHookStep ==
  ASSUME IInv, PostHook
  PROVE  IInv'
<1>1. op \in Op /\ op.cmd = "uninstall" /\ op.at = "post" /\ op.todo # <<>>
  BY DEF IInv, CommandInv, PostHook, At
<1>2. /\ op' \in Op /\ op'.cmd = op.cmd /\ op'.mods = op.mods
      /\ \/ op'.at = "pre" /\ op'.todo = Tail(op.todo)
         \/ op'.at = "failed" /\ op'.todo = <<>>
  BY <1>1, UninstallProceeds, FinishFacts DEF PostHook
<1>3. Left' \subseteq Mods
  <2>1. op'.todo = <<>> => Left' = {}
    BY <1>2, ToSetOfSeq DEF Left, Op
  <2> QED BY <1>1, <1>2, <2>1, LeftAfter DEF IInv, CommandInv, Left
<1>4. UNCHANGED <<pin, tree, record, progress, proc, cut, kills, changes>>
  BY DEF PostHook
<1>5. RecordsAreLoadable'
  BY <1>1, <1>4, LoadableStays DEF IInv, Installed
<1> QED BY <1>1, <1>2, <1>3, <1>4, <1>5, UninstallStepInv DEF IInv, TypeOK

LEMMA UninstallEndsStep ==
  ASSUME IInv, UninstallEnds
  PROVE  IInv'
<1>1. op \in Op /\ op.cmd = "uninstall" /\ op.at = "pre" /\ op.todo = <<>>
  BY DEF IInv, CommandInv, UninstallEnds, UninstallOrder
<1>2. op' \in Op /\ op'.cmd = op.cmd /\ op'.mods = op.mods /\ op'.at = "ok" /\ op'.todo = <<>>
  BY <1>1, FinishFacts DEF UninstallEnds
<1>3. Left' \subseteq Mods
  BY <1>2, ToSetOfSeq DEF Left, Op
<1>4. UNCHANGED <<pin, tree, record, progress, proc, cut, kills, changes>>
  BY DEF UninstallEnds
<1>5. RecordsAreLoadable'
  BY <1>1, <1>4, LoadableStays DEF IInv, Installed
<1> QED BY <1>1, <1>2, <1>3, <1>4, <1>5, UninstallStepInv DEF IInv, TypeOK

-----------------------------------------------------------------------------
(* The end of a command, a kill, and everybody else.                       *)

LEMMA EndStep ==
  ASSUME IInv, End
  PROVE  IInv'
<1>1. op.at \in {"ok", "failed"} /\ UNCHANGED <<pin, tree, record, progress, proc, cut, kills, changes>>
  BY DEF End
<1>2. op' \in Op /\ op'.cmd = "none" /\ op'.at = "idle" /\ op'.mods = <<>> /\ op'.todo = <<>>
  BY CommandFacts, EmptySeq DEF End, Step
<1>3. TypeOK'
  BY <1>1, <1>2 DEF IInv, TypeOK, Op
<1>4. CommandInv'
  BY <1>2 DEF CommandInv, Mods
<1>5. InstallInv' /\ UpdateInv' /\ EntriesFollowCommands'
  BY <1>2 DEF InstallInv, UpdateInv, EntriesFollowCommands
<1>7. op.cmd # "none"
  BY <1>1 DEF IInv, CommandInv
<1>6. RecordsAreLoadable'
  BY <1>1, <1>2, <1>7, LoadableStays DEF IInv
<1> QED BY <1>3, <1>4, <1>5, <1>6 DEF IInv

(* A kill leaves a manifest where it was, except in a directory that an    *)
(* uninstall removes: that module is noted in cut.                         *)
LEMMA KillStep ==
  ASSUME IInv, Kill
  PROVE  IInv'
<1>1. op \in Op /\ op.todo # <<>> /\ TypeOK
  BY DEF IInv, CommandInv, Kill
<1>2. Current \in Module /\ tree[Current] \in Tree /\ pin[Current] \in Commit
  BY <1>1, CurrentFacts DEF TypeOK
<1>3. PICK t \in Cut(tree[Current]) : SetTree(t)
  BY DEF Kill
<1>4. t \in Tree /\ (op.at # "erase" => (HasManifest(tree[Current]) => HasManifest(t)))
  <2>1. CASE op.at = "fetch"
    BY <1>2, <2>1, CloneCutResult DEF Cut
  <2>2. CASE op.at = "pull"
    BY <1>2, <2>2, UpdateCutResult DEF Cut
  <2>3. CASE op.at = "erase"
    BY <1>2, <2>3, EraseCutResult DEF Cut
  <2>4. CASE op.at \notin {"fetch", "pull", "erase"}
    BY <1>2, <2>4 DEF Cut
  <2> QED BY <2>1, <2>2, <2>3, <2>4
<1>5. /\ tree' \in [Module -> Tree] /\ tree'[Current] = t
      /\ \A m \in Module : m # Current => tree'[m] = tree[m]
  BY <1>1, <1>3, <1>4, SetTreeFacts
<1>6. op' \in Op /\ op'.cmd = "none" /\ op'.at = "idle" /\ op'.mods = <<>> /\ op'.todo = <<>>
  BY CommandFacts, EmptySeq DEF Kill, Step
<1>7. /\ cut' = IF op.at \in {"erase", "forget"} THEN cut \cup {Current} ELSE cut
      /\ kills' = kills + 1 /\ kills < MaxKills
      /\ UNCHANGED <<pin, record, progress, proc, changes>>
  BY DEF Kill
<1>8. kills' \in 0 .. MaxKills /\ cut' \subseteq Module
  BY <1>1, <1>2, <1>7 DEF TypeOK
<1>9. TypeOK'
  BY <1>5, <1>6, <1>7, <1>8 DEF IInv, TypeOK, Op
<1>10. CommandInv'
  BY <1>6 DEF CommandInv, Mods
<1>11. InstallInv' /\ UpdateInv' /\ EntriesFollowCommands'
  BY <1>6 DEF InstallInv, UpdateInv, EntriesFollowCommands
<1>12. RecordsAreLoadable'
  <2>1. op.cmd # "none"
    BY DEF IInv, CommandInv, Kill
  <2>2. CASE op.at \in {"erase", "forget"}
    <3>1. Unloadable \subseteq {Current}
      BY <2>1 DEF IInv, RecordsAreLoadable, BeingErased
    <3>2. Unloadable' \subseteq {Current}
      BY <1>5, <1>7, <3>1 DEF Unloadable, Installed
    <3> QED BY <1>6, <1>7, <2>2, <3>2 DEF RecordsAreLoadable
  <2>3. CASE op.at \notin {"erase", "forget"}
    BY <1>4, <1>5, <1>7, <2>1, <2>3, LoadableStays DEF IInv
  <2> QED BY <2>2, <2>3
<1> QED BY <1>9, <1>10, <1>11, <1>12 DEF IInv

(* Other invocations start and stop processes only: one that they start    *)
(* runs the code of the checkout, which an update has moved already.       *)
LEMMA ProcessesStep ==
  ASSUME IInv, UNCHANGED <<pin, tree, record, progress, op, cut, kills, changes>>,
         proc' \in [Module -> 0 .. MaxCommit],
         \A m \in Module : proc'[m] \in {proc[m], 0, tree[m].head}
  PROVE  IInv'
<1>1. TypeOK' /\ CommandInv'
  BY DEF IInv, TypeOK, CommandInv, Mods
<1>2. InstallInv' /\ RecordsAreLoadable' /\ EntriesFollowCommands'
  <2>1. InstallInv'
    BY DEF IInv, InstallInv, CommandsDone, LeftOut, Installed, Current, Mods, Left
  <2>2. RecordsAreLoadable'
    BY DEF IInv, RecordsAreLoadable, Unloadable, BeingErased, Installed, Current
  <2>3. EntriesFollowCommands'
    BY DEF IInv, EntriesFollowCommands, CommandsDone, LeftOut, Installed, Mods
  <2> QED BY <2>1, <2>2, <2>3
<1>3. UpdateInv'
  <2>1. /\ Mods' = Mods /\ Left' = Left /\ Current' = Current /\ Mods \subseteq Module
        /\ op.todo # <<>> => Current \in Module
    BY ToSetOfSeq, CurrentFacts DEF Mods, Left, Current, IInv, CommandInv, Op
  <2> QED BY <2>1 DEF IInv, CommandInv, UpdateInv
<1> QED BY <1>1, <1>2, <1>3 DEF IInv

(* Between two commands the user, a repair and a new release of the CLI    *)
(* take no manifest away.                                                  *)
LEMMA BetweenCommandsStep ==
  ASSUME IInv, op = Idle, UNCHANGED <<record, progress, proc, op, cut, kills>>,
         pin' \in [Module -> Commit], tree' \in [Module -> Tree], changes' \in 0 .. MaxChanges,
         \A m \in Module : HasManifest(tree[m]) => HasManifest(tree'[m])
  PROVE  IInv'
<1>1. op.cmd = "none" /\ op.at = "idle"
  BY CommandFacts, EmptySeq DEF Step
<1>2. TypeOK' /\ CommandInv'
  BY DEF IInv, TypeOK, CommandInv, Mods
<1>3. InstallInv' /\ UpdateInv' /\ EntriesFollowCommands'
  BY <1>1 DEF InstallInv, UpdateInv, EntriesFollowCommands
<1>4. RecordsAreLoadable'
  BY <1>1, LoadableStays DEF IInv, Installed
<1> QED BY <1>2, <1>3, <1>4 DEF IInv

LEMMA EnvironmentStep ==
  ASSUME IInv, Environment
  PROVE  IInv'
<1>1. TypeOK /\ Absent \in Tree
  BY SomeTrees DEF IInv, Phase
<1>2. CASE FixModules
  BY <1>1, <1>2, BetweenCommandsStep DEF FixModules, TypeOK, HasManifest, IsOrphan
<1>3. ASSUME NEW m \in Module, StartModule(m) PROVE IInv'
  <2>1. PICK S \in SUBSET {n \in StartSet[m] : proc[n] = 0} \ {{}} :
          proc' = [n \in Module |-> IF n \in S THEN tree[n].head ELSE proc[n]]
    BY <1>3 DEF StartModule
  <2>2. \A n \in Module : tree[n].head \in 0 .. MaxCommit /\ proc[n] \in 0 .. MaxCommit
    BY <1>1 DEF TypeOK, Tree
  <2> QED BY <1>3, <2>1, <2>2, ProcessesStep DEF StartModule
<1>4. ASSUME NEW m \in Module, StopModule(m) PROVE IInv'
  BY <1>1, <1>4, ProcessesStep DEF StopModule, TypeOK
<1>5. ASSUME NEW m \in Module, MoveAside(m) PROVE IInv'
  BY <1>1, <1>5, BetweenCommandsStep DEF MoveAside, TypeOK, HasManifest
<1>6. ASSUME NEW m \in Module, Edit(m) PROVE IInv'
  <2>1. tree[m] \in Tree
    BY <1>1 DEF TypeOK
  <2>2. [tree[m] EXCEPT !.dirty = ~tree[m].dirty] \in Tree
    BY <2>1 DEF Tree
  <2>3. [tree[m] EXCEPT !.dirty = ~tree[m].dirty].phase = tree[m].phase
    BY <2>1 DEF Tree
  <2>4. tree' = [tree EXCEPT ![m] = [tree[m] EXCEPT !.dirty = ~tree[m].dirty]]
    BY <1>6 DEF Edit
  <2>5. /\ tree' \in [Module -> Tree]
        /\ \A n \in Module : HasManifest(tree[n]) => HasManifest(tree'[n])
    BY <1>1, <2>2, <2>3, <2>4 DEF TypeOK, HasManifest
  <2>6. changes' \in 0 .. MaxChanges
    BY <1>1, <1>6 DEF Edit, TypeOK
  <2>7. pin' \in [Module -> Commit] /\ op = Idle /\ UNCHANGED <<record, progress, proc, op, cut, kills>>
    BY <1>1, <1>6 DEF Edit, TypeOK
  <2> QED BY <2>5, <2>6, <2>7, BetweenCommandsStep
<1>7. ASSUME NEW m \in Module, NEW c \in Commit, Release(m, c) PROVE IInv'
  BY <1>1, <1>7, BetweenCommandsStep DEF Release, TypeOK
<1> QED BY <1>2, <1>3, <1>4, <1>5, <1>6, <1>7 DEF Environment

-----------------------------------------------------------------------------
LEMMA NextInv ==
  ASSUME IInv, [Next]_vars
  PROVE  IInv'
<1>1. CASE Begin
  <2>1. ASSUME NEW mods \in Target PROVE mods \in Seq(Module)
    <3>1. ASSUME NEW m \in Module PROVE <<m>> \in Seq(Module)
      OBVIOUS
    <3> QED BY <2>1, <3>1 DEF Target
  <2> QED BY <1>1, <2>1, BeginInstallStep, BeginUpdateStep, BeginUninstallStep DEF Begin
<1>2. CASE InstallStep
  BY <1>2, FetchModuleStep, CheckInstallStep, SkipCommandsStep, StartCommandsStep,
     CommandsSucceedStep, CommandsFailStep, RecordStepStep, AllRunStep, RecordModuleStep,
     ClearProgressStep, AllRecordedStep, ConfigureSetupStep DEF InstallStep
<1>3. CASE UpdateStep
  BY <1>3, PullModuleStep, BuildModuleStep, BuiltStep, EnterRecordStep, UpdateEndsStep DEF UpdateStep
<1>4. CASE UninstallStep
  BY <1>4, EraseCloneStep, ForgetRecordStep, PostHookStep, UninstallEndsStep DEF UninstallStep
<1>5. CASE HaltModule
  BY <1>5, HaltForUpdateStep, HaltForUninstallStep DEF HaltModule, At
<1>6. CASE RunHook
  BY <1>6, HookForUpdateStep, PreHookStep DEF RunHook, At
<1>7. CASE End
  BY <1>7, EndStep
<1>8. CASE Kill
  BY <1>8, KillStep
<1>9. CASE Environment
  BY <1>9, EnvironmentStep
<1>10. CASE UNCHANGED vars
  <2>1. TypeOK' /\ CommandInv'
    BY <1>10 DEF vars, IInv, TypeOK, CommandInv, Mods
  <2>2. UpdateInv'
    BY <1>10 DEF vars, IInv, UpdateInv, Mods, Left, Current
  <2>3. InstallInv'
    BY <1>10 DEF vars, IInv, InstallInv, CommandsDone, LeftOut, Mods, Left, Installed, Current
  <2>4. RecordsAreLoadable'
    BY <1>10 DEF vars, IInv, RecordsAreLoadable, Unloadable, BeingErased, Installed, Current
  <2>5. EntriesFollowCommands'
    BY <1>10 DEF vars, IInv, EntriesFollowCommands, CommandsDone, LeftOut, Installed, Mods
  <2> QED BY <2>1, <2>2, <2>3, <2>4, <2>5 DEF IInv
<1> QED BY <1>1, <1>2, <1>3, <1>4, <1>5, <1>6, <1>7, <1>8, <1>9, <1>10 DEF Next, CommandStep

(* What the properties need of the inductive invariant. *)
LEMMA InvImplies ==
  ASSUME IInv
  PROVE  TypeOK /\ RecordsAreLoadable /\ EntriesFollowCommands
         /\ UpdateReplacesRunningCode /\ UpdateIsComplete
<1>1. op.at = "ok" => Left = {}
  BY ToSetOfSeq DEF IInv, CommandInv, Op, Left
<1>2. EntriesFollowCommands
  BY DEF IInv
<1>3. UpdateReplacesRunningCode /\ UpdateIsComplete
  BY <1>1 DEF IInv, UpdateInv, UpdateReplacesRunningCode, UpdateIsComplete
<1> QED BY <1>2, <1>3 DEF IInv

(* The inductive invariant holds in every reachable state. *)
LEMMA LifecycleInductive == Spec => []IInv
BY InitInv, NextInv, PTL DEF Spec

(* Every variable keeps its type. *)
THEOREM LifecycleTypeCorrect == Spec => []TypeOK
BY LifecycleInductive, InvImplies, PTL

(* A running command meets no record without a manifest but that of the    *)
(* module it is removing itself; between commands at most one record is    *)
(* so, and then the uninstall of that module was killed half-way.          *)
THEOREM RecordsStayLoadable == Spec => []RecordsAreLoadable
BY LifecycleInductive, InvImplies, PTL

(* An install or setup enters its modules all or none, and only after the  *)
(* commands of all have completed or were left out on purpose.             *)
THEOREM EntriesComeAfterCommands == Spec => []EntriesFollowCommands
BY LifecycleInductive, InvImplies, PTL

(* No module of a finished update runs code from before it, since the      *)
(* checkout moves before the processes are stopped.                        *)
THEOREM UpdateReplacesCode == Spec => []UpdateReplacesRunningCode
BY LifecycleInductive, InvImplies, PTL

(* A finished update has checked out, built and recorded the pin of each   *)
(* of its modules, however earlier commands ended.                         *)
THEOREM UpdateCompletes == Spec => []UpdateIsComplete
BY LifecycleInductive, InvImplies, PTL

=============================================================================
