----------------------------- MODULE SecretStore -----------------------------
(***************************************************************************)
(* All managed secrets of one Spark home: secrets_index.json, the keychain *)
(* accounts and secrets.json, as store_secret, delete_secret and           *)
(* `spark security revoke-all` change them.  Nothing is locked: each       *)
(* invocation loads a whole file and later replaces it.  A keychain call   *)
(* may fail; an invocation may be killed between two writes.               *)
(*                                                                         *)
(* On the default home a secret may still be in the legacy account, which  *)
(* fetch_secret falls back to and delete_secret deletes too.  The slots of *)
(* SecretBackends, on which BridgeRotation builds, are what a store leaves *)
(* behind when it has the store for itself.                                *)
(***************************************************************************)
EXTENDS Naturals, FiniteSets

CONSTANTS
  SecretId, SecretValue, NoSecret, StoreCaller,
  DefaultHome,                  \* default_home_uses_legacy_keychain()
  MaxInvocations, MaxStoreKills \* bounds

ASSUME StoreAssumption ==
  /\ NoSecret \notin SecretValue \cup {"keychain", "file"} /\ DefaultHome \in BOOLEAN
  /\ SecretValue \cap {"unsure", "deleted"} = {}
  /\ MaxInvocations \in Nat /\ MaxStoreKills \in Nat

VARIABLES
  index,     \* secrets_index.json: backend of each id
  keychain,  \* the keychain's accounts in Spark's namespace
  legacy,    \* ... and the accounts older versions used
  secretsFile, \* secrets.json
  invocation,  \* what each running invocation has loaded and where it is
  settledTo,   \* history: what the last store or delete of an id that ran alone said
  asSaid,      \* history: every store that ran alone left a slot of SecretBackends
  revoked,     \* history: a revoke-all that ran alone has just reported success
  invocations, storeKills

store_vars == <<index, keychain, legacy, secretsFile, invocation, settledTo, asSaid, revoked,
                invocations, storeKills>>

Slots == INSTANCE SecretBackends WITH Value <- SecretValue, None <- NoSecret

KeychainValue(id) == IF keychain[id] # NoSecret THEN keychain[id]
                     ELSE IF DefaultHome THEN legacy[id] ELSE NoSecret
SlotOf(id) == [index |-> index[id], keychain |-> KeychainValue(id), file |-> secretsFile[id]]
FetchSecret(id) == Slots!Fetch(SlotOf(id))

NoInvocation == [at |-> "idle"]
Running == {c \in StoreCaller : invocation[c] # NoInvocation}
Nothing == [id \in SecretId |-> NoSecret]

StoreInit ==
  /\ keychain = Nothing /\ secretsFile = Nothing
  /\ \E ids \in SUBSET SecretId, v \in SecretValue :   \* what an older version stored
       /\ ids # {} => DefaultHome
       /\ legacy = [id \in SecretId |-> IF id \in ids THEN v ELSE NoSecret]
       /\ index = [id \in SecretId |-> IF id \in ids THEN "keychain" ELSE NoSecret]
  /\ invocation = [c \in StoreCaller |-> NoInvocation]
  /\ settledTo = [id \in SecretId |-> "unsure"]
  /\ asSaid = TRUE /\ revoked = FALSE /\ invocations = 0 /\ storeKills = 0

-----------------------------------------------------------------------------
(* What every step of an invocation shares.                                *)

At(c, step) == invocation[c].at = step
Step(c, update) == invocation' = [invocation EXCEPT ![c] = update]
Quiet == UNCHANGED asSaid /\ revoked' = FALSE

BeginSecret(c, record) ==
  /\ invocation[c] = NoInvocation /\ invocations < MaxInvocations
  /\ invocations' = invocations + 1
  /\ invocation' = [d \in StoreCaller |->
       IF d = c THEN record
       ELSE IF d \in Running THEN [invocation[d] EXCEPT !.alone = FALSE, !.before = Slots!EmptySlot] ELSE invocation[d]]
  /\ Quiet

Blank(cmd, step, id) ==
  [cmd |-> cmd, at |-> step, id |-> id, queue |-> {}, value |-> NoSecret, backend |-> NoSecret,
   loaded |-> Nothing, removed |-> FALSE, alone |-> Running = {}, before |-> Slots!EmptySlot,
   file |-> Nothing]

(* A store or delete of one id ends; revoke-all goes on to the next id,    *)
(* whatever delete_secret returned.                                        *)
EndsWith(c, result) ==
  LET i == invocation[c] IN
  /\ Step(c, IF i.queue = {} THEN NoInvocation
             ELSE LET id == CHOOSE x \in i.queue : TRUE
                  IN [i EXCEPT !.at = "load", !.id = id, !.queue = @ \ {id}, !.removed = FALSE])
  /\ settledTo' = IF i.alone THEN [settledTo EXCEPT ![i.id] = result] ELSE settledTo
  /\ revoked' = (i.cmd = "revoke" /\ i.queue = {} /\ i.alone)

-----------------------------------------------------------------------------
(* store_secret                                                            *)

StoreEnds(i, left) ==
  asSaid' = (asSaid /\ (i.alone => left \in Slots!Stored(i.before, i.value, i.backend)))

BeginStore(c, id, v) ==
  /\ \E preferred \in {"keychain", "file"} :
       BeginSecret(c, [Blank("store", "load", id) EXCEPT !.value = v, !.backend = preferred,
                                                         !.before = SlotOf(id)])
  /\ settledTo' = [settledTo EXCEPT ![id] = "unsure"]
  /\ UNCHANGED <<index, keychain, legacy, secretsFile, storeKills>>

(* The index is loaded once; the same value in the keychain is left alone; *)
(* without a keychain the file is used.                                    *)
LoadForStore(c) ==
  LET i == invocation[c] IN
  /\ At(c, "load") /\ i.cmd = "store"
  /\ IF i.backend = "keychain" /\ index[i.id] = "keychain" /\ FetchSecret(i.id) = i.value
       THEN /\ EndsWith(c, i.value)
            /\ StoreEnds(i, SlotOf(i.id))
       ELSE /\ \E next \in (IF i.backend = "keychain" THEN {"keychain", "readFile"} ELSE {"readFile"}) :
                 Step(c, [i EXCEPT !.at = next, !.loaded = index])
            /\ Quiet /\ UNCHANGED settledTo
  /\ UNCHANGED <<index, keychain, legacy, secretsFile, invocations, storeKills>>

(* The backend the index gets after the keychain or the file was written.  *)
IndexedAs_Preferred(step) == "keychain"
IndexedAs_Step(step) == step
IndexedAs(step) == IF step = "indexKeychain" THEN "keychain" ELSE "file"

(* The write fails, or works and saving the index then fails: on to the    *)
(* file; or it works.                                                      *)
SetPassword(c) ==
  LET i == invocation[c] IN
  /\ At(c, "keychain")
  /\ \E works \in BOOLEAN, next \in {"indexKeychain", "readFile"} :
       /\ ~works => next = "readFile"
       /\ keychain' = IF works THEN [keychain EXCEPT ![i.id] = i.value] ELSE keychain
       /\ Step(c, [i EXCEPT !.at = next])
  /\ Quiet
  /\ UNCHANGED <<index, legacy, secretsFile, settledTo, invocations, storeKills>>

ReadSecretsFile(c) ==
  LET i == invocation[c] IN
  /\ At(c, "readFile")
  /\ Step(c, [i EXCEPT !.at = "saveFile", !.file = secretsFile])
  /\ Quiet
  /\ UNCHANGED <<index, keychain, legacy, secretsFile, settledTo, invocations, storeKills>>

SaveSecretsFile(c) ==
  LET i == invocation[c] IN
  /\ At(c, "saveFile")
  /\ secretsFile' = [i.file EXCEPT ![i.id] = i.value]
  /\ Step(c, [i EXCEPT !.at = IF i.cmd = "store" THEN "indexFile" ELSE "unindex", !.file = Nothing])
  /\ Quiet
  /\ UNCHANGED <<index, keychain, legacy, settledTo, invocations, storeKills>>

SaveIndex(c) ==
  LET i == invocation[c] IN
  /\ i.at \in {"indexKeychain", "indexFile"}
  /\ index' = [i.loaded EXCEPT ![i.id] = IndexedAs(i.at)]
  /\ EndsWith(c, i.value)
  /\ StoreEnds(i, [SlotOf(i.id) EXCEPT !.index = IndexedAs(i.at)])
  /\ UNCHANGED <<keychain, legacy, secretsFile, invocations, storeKills>>

-----------------------------------------------------------------------------
(* delete_secret, and revoke-all, which deletes every id the index lists.  *)

BeginDelete(c, id) ==
  /\ BeginSecret(c, Blank("delete", "load", id))
  /\ settledTo' = [settledTo EXCEPT ![id] = "unsure"]
  /\ UNCHANGED <<index, keychain, legacy, secretsFile, storeKills>>

BeginRevokeAll(c) ==
  LET listed == {id \in SecretId : index[id] # NoSecret} IN
  /\ listed # {}
  /\ LET first == CHOOSE x \in listed : TRUE
     IN BeginSecret(c, [Blank("revoke", "load", first) EXCEPT !.queue = listed \ {first}])
  /\ settledTo' = [id \in SecretId |-> IF id \in listed THEN "unsure" ELSE settledTo[id]]
  /\ UNCHANGED <<index, keychain, legacy, secretsFile, storeKills>>

LoadForDelete(c) ==
  LET i == invocation[c] IN
  /\ At(c, "load") /\ i.cmd # "store"
  /\ \/ /\ index[i.id] = "keychain"
        /\ Step(c, [i EXCEPT !.at = "account", !.loaded = index, !.removed = TRUE])
        /\ Quiet /\ UNCHANGED settledTo
     \/ /\ index[i.id] = "file" /\ secretsFile[i.id] # NoSecret
        /\ Step(c, [i EXCEPT !.at = "readFile", !.loaded = index])
        /\ Quiet /\ UNCHANGED settledTo
     \/ /\ index[i.id] = NoSecret \/ (index[i.id] = "file" /\ secretsFile[i.id] = NoSecret)
        /\ EndsWith(c, "unsure") /\ UNCHANGED asSaid
  /\ UNCHANGED <<index, keychain, legacy, secretsFile, invocations, storeKills>>

(* Deleting an account that is not there raises, like any failed call.     *)
Deletable(account, id, works) == works /\ account[id] # NoSecret

AfterAccounts(c, removed) ==
  IF removed THEN /\ Step(c, [invocation[c] EXCEPT !.at = "unindex", !.removed = TRUE])
                  /\ Quiet /\ UNCHANGED settledTo
             ELSE EndsWith(c, "unsure") /\ UNCHANGED asSaid

DeleteAccount(c) ==
  LET i == invocation[c] IN
  /\ At(c, "account")
  /\ \E works \in BOOLEAN : LET gone == Deletable(keychain, i.id, works) IN
       /\ keychain' = IF gone THEN [keychain EXCEPT ![i.id] = NoSecret] ELSE keychain
       /\ IF DefaultHome
            THEN /\ Step(c, [i EXCEPT !.at = "legacyAccount", !.removed = gone])
                 /\ Quiet /\ UNCHANGED settledTo
            ELSE AfterAccounts(c, gone)
  /\ UNCHANGED <<index, legacy, secretsFile, invocations, storeKills>>

DeleteLegacyAccount(c) ==
  LET i == invocation[c] IN
  /\ At(c, "legacyAccount")
  /\ \E works \in BOOLEAN : LET gone == Deletable(legacy, i.id, works) IN
       /\ legacy' = IF gone THEN [legacy EXCEPT ![i.id] = NoSecret] ELSE legacy
       /\ AfterAccounts(c, i.removed /\ gone)
  /\ UNCHANGED <<index, keychain, secretsFile, invocations, storeKills>>

DropIndex(c) ==
  LET i == invocation[c] IN
  /\ At(c, "unindex")
  /\ index' = [i.loaded EXCEPT ![i.id] = NoSecret]
  /\ EndsWith(c, "deleted") /\ UNCHANGED asSaid
  /\ UNCHANGED <<keychain, legacy, secretsFile, invocations, storeKills>>

KillInvocation(c) ==
  /\ c \in Running /\ storeKills < MaxStoreKills
  /\ storeKills' = storeKills + 1
  /\ Step(c, NoInvocation)
  /\ LET i == invocation[c] IN
       asSaid' = (asSaid /\ (i.cmd = "store" /\ i.alone =>
                    SlotOf(i.id) \in {i.before} \cup Slots!StoreCut(i.before, i.value, i.backend)))
  /\ revoked' = FALSE
  /\ UNCHANGED <<index, keychain, legacy, secretsFile, settledTo, invocations>>

StoreNext ==
  \E c \in StoreCaller :
    \/ \E id \in SecretId : BeginDelete(c, id) \/ \E v \in SecretValue : BeginStore(c, id, v)
    \/ BeginRevokeAll(c)
    \/ LoadForStore(c) \/ SetPassword(c) \/ ReadSecretsFile(c) \/ SaveSecretsFile(c) \/ SaveIndex(c)
    \/ LoadForDelete(c) \/ DeleteAccount(c) \/ DeleteLegacyAccount(c) \/ DropIndex(c)
    \/ KillInvocation(c)

StoreSpec == StoreInit /\ [][StoreNext]_store_vars

-----------------------------------------------------------------------------
(* What should hold.                                                       *)

StoreTypeOK ==
  /\ index \in [SecretId -> {"keychain", "file", NoSecret}]
  /\ keychain \in [SecretId -> SecretValue \cup {NoSecret}]
  /\ legacy \in [SecretId -> SecretValue \cup {NoSecret}]
  /\ secretsFile \in [SecretId -> SecretValue \cup {NoSecret}]
  /\ settledTo \in [SecretId -> SecretValue \cup {"unsure", "deleted"}]

(* The last store or delete of an id, when it had the store for itself,    *)
(* keeps its word until the next one of that id begins: the value is       *)
(* fetched back, or nothing is - however the operations on other secrets   *)
(* are interleaved, fail or are killed meanwhile (store_secret,            *)
(* delete_secret and fetch_secret share two unlocked files).  And such a   *)
(* store leaves a slot that SecretBackends allows, ended or killed: the    *)
(* one BridgeRotation's rotations build on.                                *)
SecretStaysAsSettled ==
  /\ \A id \in SecretId :
       /\ settledTo[id] \in SecretValue => FetchSecret(id) = settledTo[id]
       /\ settledTo[id] = "deleted" => FetchSecret(id) = NoSecret
  /\ asSaid

(* A revoke-all that reports success has removed the local secrets.        *)
(* Broken: what delete_secret returns is not looked at, and a copy in the  *)
(* backend the index does not name is never looked for.                    *)
RevokeAllRemovesSecrets ==
  revoked => \A id \in SecretId : KeychainValue(id) = NoSecret /\ secretsFile[id] = NoSecret

-----------------------------------------------------------------------------
(* Why it holds: whoever runs began after the last word on a settled id    *)
(* and works on other ids, so that what it loaded has that id as it is;    *)
(* and a store that runs alone is the only one to move its slot.           *)

InvocationRecord ==
  [cmd : {"store", "delete", "revoke"},
   at : {"load", "keychain", "readFile", "saveFile", "indexKeychain", "indexFile", "account",
         "legacyAccount", "unindex"},
   id : SecretId, queue : SUBSET SecretId, value : SecretValue \cup {NoSecret},
   backend : {"keychain", "file", NoSecret}, loaded : [SecretId -> {"keychain", "file", NoSecret}],
   removed : BOOLEAN, alone : BOOLEAN, before : Slots!Slot, file : [SecretId -> SecretValue \cup {NoSecret}]]

StoreRecord(i) ==
  /\ i.cmd = "store" =>
       /\ i.queue = {} /\ i.value \in SecretValue /\ i.backend \in {"keychain", "file"}
       /\ i.at \in {"load", "keychain", "readFile", "saveFile", "indexKeychain", "indexFile"}
       /\ i.at \in {"keychain", "indexKeychain"} => i.backend = "keychain"
  /\ i.cmd # "store" => i.at \in {"load", "readFile", "saveFile", "account", "legacyAccount", "unindex"}
  /\ i.id \notin i.queue

InvocationsOK ==
  /\ invocation = [c \in StoreCaller |-> invocation[c]]
  /\ \A c \in StoreCaller :
       invocation[c] # NoInvocation => invocation[c] \in InvocationRecord /\ StoreRecord(invocation[c])

LoneInvocation ==
  \A c, d \in Running : invocation[c].alone => c = d

HasAsItIs(i, id) ==
  /\ i.id # id /\ id \notin i.queue
  /\ i.at # "load" => i.loaded[id] = index[id]
  /\ i.at = "saveFile" => i.file[id] = secretsFile[id]

SettledIsUntouched ==
  \A c \in Running, id \in SecretId : settledTo[id] # "unsure" => HasAsItIs(invocation[c], id)

(* The slot of a store that runs alone, step by step.                      *)
SlotSoFar(i, s) ==
  LET inKeychain == Slots!With(i.before, "keychain", i.value) IN
  /\ i.at \in {"load", "keychain"} => s = i.before
  /\ i.at \in {"readFile", "saveFile"} => s = i.before \/ (i.backend = "keychain" /\ s = inKeychain)
  /\ i.at = "indexKeychain" => s = inKeychain
  /\ i.at = "indexFile" => \/ s = Slots!With(i.before, "file", i.value)
                           \/ i.backend = "keychain" /\ s = Slots!With(inKeychain, "file", i.value)

LoneStoreIsOnItsWay ==
  \A c \in Running :
    invocation[c].cmd = "store" /\ invocation[c].alone => SlotSoFar(invocation[c], SlotOf(invocation[c].id))

StoreIInv ==
  /\ StoreTypeOK /\ InvocationsOK /\ LoneInvocation /\ SettledIsUntouched /\ LoneStoreIsOnItsWay
  /\ SecretStaysAsSettled

=============================================================================
