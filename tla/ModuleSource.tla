---------------------------- MODULE ModuleSource ----------------------------
(***************************************************************************)
(* The git checkout of one Spark module, ~/.spark/modules/<name>/source:   *)
(* the pinned clone, its resumption after an interrupted clone, and the    *)
(* update that follows the registry pin.  An operation is the set of       *)
(* results it can return; the trees it leaves when the process is killed   *)
(* half-way are named apart, Name_Cut.                                     *)
(*                                                                         *)
(* Commits are numbered along one line of history: c is an ancestor of d   *)
(* iff c <= d.  Network, signature and disk faults are choices between     *)
(* results.                                                                *)
(***************************************************************************)
EXTENDS Naturals

CONSTANTS
  MaxCommit,  \* commits of a module's history
  Deepen      \* commits that `git fetch --deepen` makes visible

ASSUME SourceAssumption == MaxCommit \in Nat \ {0} /\ Deepen \in Nat

Commit == 1 .. MaxCommit

(* plain: a directory without .git.  unborn: .git with no commit checked   *)
(* out and no files.  partial: .git without spark.toml, but with a commit  *)
(* or with files.  ready: .git and spark.toml.  built is the commit whose  *)
(* install commands last completed in the directory, 0 if none did.        *)
Phase == {"absent", "plain", "unborn", "partial", "ready"}

Tree == [phase : Phase, head : 0 .. MaxCommit, dirty : BOOLEAN, built : 0 .. MaxCommit]

Bare(phase) == [phase |-> phase, head |-> 0, dirty |-> FALSE, built |-> 0]

Absent == Bare("absent")

CheckedOut(c) == [phase |-> "ready", head |-> c, dirty |-> FALSE, built |-> 0]

(* load_module reads spark.toml. *)
HasManifest(t) == t.phase = "ready"

(* is_orphan_clone *)
IsOrphan(t) == t.phase \in {"unborn", "partial"}

(* prepare_pinned_clone_resume: git has left neither a commit nor files.   *)
(* (Its remote, too, has to be the registry's, which the user may change.) *)
Resumable(t) == t.phase = "unborn"

Outcome(ok, t) == [ok |-> ok, tree |-> t]

(* clone_module_source of a pinned module without a usable clone.  A fresh *)
(* clone that fails is removed again, if it had come as far as .git; a     *)
(* resumed one is kept.                                                    *)
Clone(t, pin) ==
  CASE t.phase = "absent" -> {Outcome(TRUE, CheckedOut(pin)), Outcome(FALSE, Absent),
                              Outcome(FALSE, Bare("plain"))}
    [] Resumable(t)       -> {Outcome(TRUE, CheckedOut(pin)), Outcome(FALSE, t),
                              Outcome(FALSE, Bare("partial"))}
    [] OTHER              -> {Outcome(FALSE, t)}

Clone_Cut(t) ==
  {t} \cup CASE t.phase = "absent" -> {Bare("plain"), Bare("unborn"), Bare("partial")}
             [] Resumable(t)       -> {Bare("partial")}
             [] OTHER              -> {}

(* merge-base --is-ancestor on the part of the history that is visible.    *)
(* The clones are shallow, so that a pin behind the head is recognised     *)
(* only after a fetch that deepens, and only that far.  (The history that  *)
(* earlier updates made visible is left out: it only reveals more.)        *)
SeenBehind(pin, head, deepened) == deepened /\ pin < head /\ head - pin <= Deepen

(* update_module_source of a pinned module; deepened tells whether the     *)
(* fetch --deepen came back.  A dirty tree, a failed fetch, signature or   *)
(* checkout, and a pin seen behind the head without --allow-rollback leave *)
(* the tree as it was.                                                     *)
Update(t, pin, allowRollback, deepened) ==
  IF t.dirty \/ (SeenBehind(pin, t.head, deepened) /\ ~allowRollback)
  THEN {Outcome(FALSE, t)}
  ELSE {Outcome(TRUE, [t EXCEPT !.head = pin])} \cup
       IF t.head = pin THEN {} ELSE {Outcome(FALSE, t)}

(* The commit is already moved, or files of both commits are in the tree.  *)
Update_Cut(t, pin) ==
  IF t.dirty \/ t.head = pin THEN {t}
  ELSE {t, [t EXCEPT !.head = pin], [t EXCEPT !.dirty = TRUE]}

(* remove_module_clone removes the files in no particular order.           *)
Erase_Cut(t) == {t, [t EXCEPT !.dirty = TRUE], Bare("partial"), Bare("plain"), Absent}

=============================================================================
