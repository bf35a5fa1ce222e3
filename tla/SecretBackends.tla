--------------------------- MODULE SecretBackends ---------------------------
(***************************************************************************)
(* One managed secret of spark-cli: the backend that secrets index names   *)
(* for it, its copy in the system keychain and its copy in secrets.json.   *)
(* The copies are written in place, one after the other, and the index     *)
(* last, so an operation can stop half-way: every operation is the set of  *)
(* slots it can leave behind, apart for the calls that return and for the  *)
(* calls that raise (or are cut short by the end of the process).          *)
(***************************************************************************)
CONSTANTS
  Value,   \* the values a secret can have
  None     \* no value, no backend

Backend == {"keychain", "file"}

ASSUME ValueAssumption == None \notin Value \cup Backend

Slot == [index : Backend \cup {None}, keychain : Value \cup {None}, file : Value \cup {None}]

EmptySlot == [index |-> None, keychain |-> None, file |-> None]

(* The definitions named Name_Fault are faulty variants of the definition  *)
(* that follows them.                                                      *)

(* fetch_secret: the copy in the backend that the index names.             *)
Fetch(s) ==
  CASE s.index = "keychain" -> s.keychain
    [] s.index = "file"     -> s.file
    [] OTHER                -> None

With(s, backend, v) ==
  IF backend = "keychain" THEN [s EXCEPT !.keychain = v] ELSE [s EXCEPT !.file = v]

Without(s, backend) == With(s, backend, None)
Indexed(s, backend) == [s EXCEPT !.index = backend]

(* store_secret: a failed keychain write falls back to the file.  The      *)
(* keychain write can have taken effect and its index not been saved.      *)
Stored(s, v, preferred) ==
  LET onFile(t) == Indexed(With(t, "file", v), "file") IN
  IF preferred = "file"
  THEN {onFile(s)}
  ELSE {Indexed(With(s, "keychain", v), "keychain"), onFile(s),
        onFile(With(s, "keychain", v))}

StoreCut(s, v, preferred) ==
  LET onFile(t) == {t, With(t, "file", v)} IN
  onFile(s) \cup (IF preferred = "file" THEN {} ELSE onFile(With(s, "keychain", v)))

(* _purge_secret_backends: both copies go and are verified gone before the *)
(* index entry does.                                                       *)
PurgeCut(s) ==
  {s, Without(s, "keychain"), Without(s, "file"), Without(Without(s, "file"), "keychain")}

Replaced_KeepsPrior(s, v, preferred) == Stored(s, v, preferred)

(* _replace_secret_backend: store, read back, and remove the prior copy if *)
(* the backend changed.                                                    *)
Replaced(s, v, preferred) ==
  { IF s.index \notin {None, t.index} THEN Without(t, s.index) ELSE t :
      t \in Stored(s, v, preferred) }

ReplaceCut(s, v, preferred) ==
  StoreCut(s, v, preferred) \cup Stored(s, v, preferred) \cup Replaced(s, v, preferred)

(* _restore_bridge_generation, its secret: purge, then store the old value *)
(* in its old backend; another backend is an error.                        *)
Restored(old) ==
  IF Fetch(old) = None
  THEN {EmptySlot}
  ELSE {t \in Stored(EmptySlot, Fetch(old), old.index) : t.index = old.index}

RestoreCut(s, old) ==
  PurgeCut(s) \cup {EmptySlot} \cup
  (IF Fetch(old) = None THEN {}
   ELSE StoreCut(EmptySlot, Fetch(old), old.index) \cup Stored(EmptySlot, Fetch(old), old.index))

=============================================================================
