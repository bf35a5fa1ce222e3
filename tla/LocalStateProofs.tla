-------------------------- MODULE LocalStateProofs --------------------------
(***************************************************************************)
(* Proofs about the managed secrets of a Spark home: for any secrets and   *)
(* values, any number of invocations that interleave, fail and are killed, *)
(* with and without legacy keychain accounts; and about the parts that     *)
(* guard the machine side by side: each keeps its own specification, so    *)
(* that what is proved of it holds of the composition that TLC checks.     *)
(***************************************************************************)
EXTENDS MCLocalState, MachineProofs

-----------------------------------------------------------------------------
(* Slots.                                                                  *)

LEMMA SlotForms ==
  ASSUME NEW s \in Slots!Slot, NEW val \in SecretValue
  PROVE  /\ Slots!With(s, "keychain", val) = [index |-> s.index, keychain |-> val, file |-> s.file]
         /\ Slots!With(s, "file", val) = [index |-> s.index, keychain |-> s.keychain, file |-> val]
         /\ Slots!With(s, "keychain", val) \in Slots!Slot /\ Slots!With(s, "file", val) \in Slots!Slot
<1>1. /\ Slots!With(s, "keychain", val) = [index |-> s.index, keychain |-> val, file |-> s.file]
      /\ Slots!With(s, "file", val) = [index |-> s.index, keychain |-> s.keychain, file |-> val]
  BY DEF Slots!Slot, Slots!With
<1> QED BY <1>1 DEF Slots!Slot

LEMMA SlotOfFacts ==
  ASSUME StoreTypeOK, NEW id \in SecretId
  PROVE  /\ SlotOf(id) \in Slots!Slot
         /\ SlotOf(id).index = index[id] /\ SlotOf(id).keychain = KeychainValue(id)
         /\ SlotOf(id).file = secretsFile[id]
         /\ FetchSecret(id) = IF index[id] = "keychain" THEN KeychainValue(id)
                              ELSE IF index[id] = "file" THEN secretsFile[id] ELSE NoSecret
<1>1. KeychainValue(id) \in SecretValue \cup {NoSecret}
  BY DEF StoreTypeOK, KeychainValue
<1>2. /\ SlotOf(id) \in Slots!Slot
      /\ SlotOf(id).index = index[id] /\ SlotOf(id).keychain = KeychainValue(id)
      /\ SlotOf(id).file = secretsFile[id]
  BY <1>1 DEF StoreTypeOK, SlotOf, Slots!Slot, Slots!Backend
<1>3. index[id] \in {"keychain", "file", NoSecret}
  BY DEF StoreTypeOK
<1> QED BY <1>2, <1>3, StoreAssumption DEF FetchSecret, Slots!Fetch

(* A slot is what is in the index, the keychain and the file. *)
LEMMA SameSlot ==
  ASSUME NEW id, index'[id] = index[id], keychain'[id] = keychain[id], legacy'[id] = legacy[id],
         secretsFile'[id] = secretsFile[id]
  PROVE  KeychainValue(id)' = KeychainValue(id) /\ SlotOf(id)' = SlotOf(id)
         /\ FetchSecret(id)' = FetchSecret(id)
BY DEF KeychainValue, SlotOf, FetchSecret

LEMMA StoredForms ==
  ASSUME NEW s \in Slots!Slot, NEW val \in SecretValue, NEW preferred \in {"keychain", "file"}
  PROVE  /\ Slots!Indexed(Slots!With(s, "file", val), "file") \in Slots!Stored(s, val, preferred)
         /\ preferred = "keychain" =>
              /\ Slots!Indexed(Slots!With(s, "keychain", val), "keychain") \in Slots!Stored(s, val, preferred)
              /\ Slots!Indexed(Slots!With(Slots!With(s, "keychain", val), "file", val), "file")
                   \in Slots!Stored(s, val, preferred)
         /\ s \in Slots!StoreCut(s, val, preferred)
         /\ Slots!With(s, "file", val) \in Slots!StoreCut(s, val, preferred)
         /\ preferred = "keychain" =>
              /\ Slots!With(s, "keychain", val) \in Slots!StoreCut(s, val, preferred)
              /\ Slots!With(Slots!With(s, "keychain", val), "file", val) \in Slots!StoreCut(s, val, preferred)
BY DEF Slots!Stored, Slots!StoreCut

-----------------------------------------------------------------------------
(* Invocations.                                                            *)

LEMMA InvocationFacts ==
  ASSUME InvocationsOK, NEW c \in StoreCaller
  PROVE  /\ invocation[c] = NoInvocation <=> invocation[c].at = "idle"
         /\ c \in Running <=> invocation[c] # NoInvocation
         /\ c \in Running => invocation[c] \in InvocationRecord /\ StoreRecord(invocation[c])
<1>1. NoInvocation.at = "idle"
  BY DEF NoInvocation
<1>2. c \in Running <=> invocation[c] # NoInvocation
  BY DEF Running
<1>3. invocation[c] # NoInvocation => invocation[c] \in InvocationRecord /\ StoreRecord(invocation[c])
  BY DEF InvocationsOK
<1>4. invocation[c] \in InvocationRecord => invocation[c].at # "idle"
  BY DEF InvocationRecord
<1> QED BY <1>1, <1>2, <1>3, <1>4

LEMMA RecordIsRunning ==
  ASSUME NEW i \in InvocationRecord
  PROVE  i # NoInvocation
<1>1. NoInvocation.at = "idle"
  BY DEF NoInvocation
<1> QED BY <1>1 DEF InvocationRecord

(* With c running, nobody else runs alone. *)
LEMMA OthersAreNotAlone ==
  ASSUME LoneInvocation, NEW c \in Running, NEW d \in Running, d # c
  PROVE  ~invocation[c].alone /\ ~invocation[d].alone
BY DEF LoneInvocation

(* What holds of the slots when no settled id was touched. *)
LEMMA SettledIdsHold ==
  ASSUME StoreIInv, settledTo' = settledTo,
         \A id \in SecretId : settledTo[id] # "unsure" =>
           /\ index'[id] = index[id] /\ keychain'[id] = keychain[id]
           /\ legacy'[id] = legacy[id] /\ secretsFile'[id] = secretsFile[id],
         asSaid'
  PROVE  SecretStaysAsSettled'
<1>1. ASSUME NEW id \in SecretId
      PROVE  /\ settledTo'[id] \in SecretValue => FetchSecret(id)' = settledTo'[id]
             /\ settledTo'[id] = "deleted" => FetchSecret(id)' = NoSecret
  <2>1. CASE settledTo[id] = "unsure"
    BY <2>1, StoreAssumption
  <2>2. CASE settledTo[id] # "unsure"
    <3>1. FetchSecret(id)' = FetchSecret(id)
      BY <2>2, SameSlot
    <3> QED BY <3>1 DEF StoreIInv, SecretStaysAsSettled
  <2> QED BY <2>1, <2>2
<1> QED BY <1>1 DEF SecretStaysAsSettled

(* An invocation goes on with its id. *)
LEMMA InvocationGoesOn ==
  ASSUME StoreIInv, StoreTypeOK', NEW c \in StoreCaller, c \in Running,
         NEW i, i = invocation[c],
         NEW j \in InvocationRecord, StoreRecord(j), invocation' = [invocation EXCEPT ![c] = j],
         j.alone = i.alone, j.id = i.id, j.queue = i.queue, j.at # "load",
         settledTo' = settledTo, asSaid' = asSaid, index' = index,
         \A id \in SecretId : settledTo[id] # "unsure" =>
           /\ keychain'[id] = keychain[id] /\ legacy'[id] = legacy[id] /\ secretsFile'[id] = secretsFile[id]
           /\ j.loaded[id] = index[id] /\ (j.at = "saveFile" => j.file[id] = secretsFile[id]),
         j.cmd = "store" /\ j.alone => SlotSoFar(j, SlotOf(j.id)')
  PROVE  StoreIInv'
<1>1. invocation'[c] = j /\ \A d \in StoreCaller : d # c => invocation'[d] = invocation[d]
  BY DEF StoreIInv, InvocationsOK
<1>2. InvocationsOK'
  <2>1. invocation' = [d \in StoreCaller |-> invocation'[d]]
    BY DEF StoreIInv, InvocationsOK
  <2>2. ASSUME NEW d \in StoreCaller, invocation'[d] # NoInvocation
        PROVE  invocation'[d] \in InvocationRecord /\ StoreRecord(invocation[d])'
    <3>1. CASE d = c
      BY <1>1, <3>1 DEF StoreRecord
    <3>2. CASE d # c
      BY <1>1, <2>2, <3>2 DEF StoreIInv, InvocationsOK, StoreRecord
    <3> QED BY <3>1, <3>2
  <2> QED BY <2>1, <2>2 DEF InvocationsOK
<1>3. Running' = Running
  BY <1>1, RecordIsRunning DEF Running
<1>4. LoneInvocation'
  <2>1. \A d \in Running : invocation'[d].alone = invocation[d].alone
    BY <1>1 DEF Running
  <2> QED BY <1>3, <2>1 DEF StoreIInv, LoneInvocation
<1>5. ASSUME NEW id \in SecretId, settledTo[id] # "unsure"
      PROVE  /\ id # i.id /\ id \notin i.queue
             /\ keychain'[id] = keychain[id] /\ legacy'[id] = legacy[id] /\ secretsFile'[id] = secretsFile[id]
  BY <1>5 DEF StoreIInv, SettledIsUntouched, HasAsItIs
<1>6. SettledIsUntouched'
  <2> SUFFICES ASSUME NEW d \in Running, NEW id \in SecretId, settledTo[id] # "unsure"
               PROVE  HasAsItIs(invocation[d], id)'
    BY <1>3 DEF SettledIsUntouched
  <2>1. CASE d = c
    BY <1>1, <1>5, <2>1 DEF HasAsItIs
  <2>2. CASE d # c
    <3>1. HasAsItIs(invocation[d], id) /\ invocation'[d] = invocation[d]
      BY <1>1, <2>2 DEF StoreIInv, SettledIsUntouched, Running
    <3> QED BY <1>5, <3>1 DEF HasAsItIs
  <2> QED BY <2>1, <2>2
<1>7. LoneStoreIsOnItsWay'
  <2> SUFFICES ASSUME NEW d \in Running, invocation'[d].cmd = "store", invocation'[d].alone
               PROVE  SlotSoFar(invocation[d], SlotOf(invocation[d].id))'
    BY <1>3 DEF LoneStoreIsOnItsWay
  <2>1. d = c
    BY <1>3, <1>4 DEF LoneInvocation
  <2> QED BY <1>1, <2>1 DEF SlotSoFar, SlotOf, KeychainValue
<1>8. SecretStaysAsSettled'
  <2>1. asSaid'
    BY DEF StoreIInv, SecretStaysAsSettled
  <2> QED BY <1>5, <2>1, SettledIdsHold
<1> QED BY <1>2, <1>4, <1>6, <1>7, <1>8 DEF StoreIInv

(* An invocation ends, or revoke-all goes on to its next id. *)
LEMMA EndsWithStep ==
  ASSUME StoreIInv, NEW c \in StoreCaller, c \in Running,
         NEW i, i = invocation[c], NEW result \in SecretValue \cup {"unsure", "deleted"}, EndsWith(c, result),
         index' \in [SecretId -> {"keychain", "file", NoSecret}],
         keychain' \in [SecretId -> SecretValue \cup {NoSecret}],
         legacy' \in [SecretId -> SecretValue \cup {NoSecret}], secretsFile' = secretsFile,
         asSaid',
         \A id \in SecretId : settledTo[id] # "unsure" =>
           index'[id] = index[id] /\ keychain'[id] = keychain[id] /\ legacy'[id] = legacy[id],
         i.alone => /\ result \in SecretValue => FetchSecret(i.id)' = result
                    /\ result = "deleted" => FetchSecret(i.id)' = NoSecret
  PROVE  StoreIInv'
<1>1. i \in InvocationRecord /\ StoreRecord(i)
  BY InvocationFacts DEF StoreIInv
<1>2. PICK j : /\ invocation' = [invocation EXCEPT ![c] = j]
               /\ j = NoInvocation \/ /\ j \in InvocationRecord /\ StoreRecord(j) /\ j.at = "load"
                                      /\ j.cmd # "store" /\ j.alone = i.alone
                                      /\ j.id \in i.queue /\ j.queue \subseteq i.queue
  <2>1. CASE i.queue = {}
    BY <2>1 DEF EndsWith, Step
  <2>2. CASE i.queue # {}
    <3>1. PICK id : id \in i.queue
                    /\ invocation' = [invocation EXCEPT ![c] =
                         [i EXCEPT !.at = "load", !.id = id, !.queue = @ \ {id}, !.removed = FALSE]]
      BY <2>2 DEF EndsWith, Step
    <3>2. PICK j : j = [i EXCEPT !.at = "load", !.id = id, !.queue = @ \ {id}, !.removed = FALSE]
      OBVIOUS
    <3>3. id \in SecretId /\ i.queue \in SUBSET SecretId /\ i.queue \ {id} \in SUBSET SecretId
      BY <1>1, <3>1 DEF InvocationRecord
    <3>4. /\ j \in InvocationRecord /\ j.at = "load" /\ j.cmd = i.cmd /\ j.alone = i.alone /\ j.id = id
          /\ j.queue = i.queue \ {id}
      BY <1>1, <3>2, <3>3, ZenonT(30) DEF InvocationRecord
    <3>5. StoreRecord(j)
      BY <1>1, <2>2, <3>4 DEF StoreRecord
    <3>6. j.cmd # "store"
      BY <1>1, <2>2, <3>4 DEF StoreRecord
    <3> QED BY <3>1, <3>2, <3>4, <3>5, <3>6, ZenonT(30)
  <2> QED BY <2>1, <2>2
<1>3. invocation'[c] = j /\ \A d \in StoreCaller : d # c => invocation'[d] = invocation[d]
  BY <1>2 DEF StoreIInv, InvocationsOK
<1>4. settledTo' = IF i.alone THEN [settledTo EXCEPT ![i.id] = result] ELSE settledTo
  BY DEF EndsWith
<1>5. i.id \in SecretId /\ i.alone \in BOOLEAN
  BY <1>1 DEF InvocationRecord
<1>6. StoreTypeOK'
  <2>1. settledTo' \in [SecretId -> SecretValue \cup {"unsure", "deleted"}]
    BY <1>4, <1>5 DEF StoreIInv, StoreTypeOK
  <2> QED BY <2>1 DEF StoreIInv, StoreTypeOK
<1>7. InvocationsOK'
  <2>1. invocation' = [d \in StoreCaller |-> invocation'[d]]
    BY <1>2 DEF StoreIInv, InvocationsOK
  <2>2. ASSUME NEW d \in StoreCaller, invocation'[d] # NoInvocation
        PROVE  invocation'[d] \in InvocationRecord /\ StoreRecord(invocation[d])'
    <3>1. CASE d = c
      BY <1>2, <1>3, <2>2, <3>1 DEF StoreRecord
    <3>2. CASE d # c
      BY <1>3, <2>2, <3>2 DEF StoreIInv, InvocationsOK, StoreRecord
    <3> QED BY <3>1, <3>2
  <2> QED BY <2>1, <2>2 DEF InvocationsOK
<1>8. Running' \subseteq Running /\ \A d \in Running' : d # c => invocation'[d] = invocation[d]
  BY <1>3 DEF Running
<1>9. LoneInvocation'
  <2>1. \A d \in Running' : invocation'[d].alone = invocation[d].alone
    BY <1>2, <1>3, <1>8 DEF Running
  <2> QED BY <1>8, <2>1 DEF StoreIInv, LoneInvocation
<1>10. ASSUME NEW d \in Running', d # c PROVE ~i.alone /\ ~invocation[d].alone
  BY <1>8, <1>10, OthersAreNotAlone DEF StoreIInv
<1>11. SettledIsUntouched'
  <2> SUFFICES ASSUME NEW d \in Running', NEW id \in SecretId, settledTo'[id] # "unsure"
               PROVE  HasAsItIs(invocation[d], id)'
    BY DEF SettledIsUntouched
  <2>1. CASE d = c
    <3>1. j # NoInvocation
      BY <1>3, <2>1 DEF Running
    <3>2. CASE settledTo[id] # "unsure"
      <4>1. id \notin i.queue
        BY <3>2 DEF StoreIInv, SettledIsUntouched, HasAsItIs
      <4> QED BY <1>2, <1>3, <2>1, <3>1, <4>1 DEF HasAsItIs
    <3>3. CASE settledTo[id] = "unsure"
      <4>1. id = i.id
        BY <1>4, <1>5, <3>3 DEF StoreIInv, StoreTypeOK
      <4> QED BY <1>1, <1>2, <1>3, <2>1, <3>1, <4>1 DEF HasAsItIs, StoreRecord
    <3> QED BY <3>2, <3>3
  <2>2. CASE d # c
    <3>1. settledTo' = settledTo
      BY <1>4, <1>10, <2>2
    <3>2. HasAsItIs(invocation[d], id) /\ invocation'[d] = invocation[d]
      BY <1>8, <2>2, <3>1 DEF StoreIInv, SettledIsUntouched
    <3> QED BY <3>1, <3>2 DEF HasAsItIs
  <2> QED BY <2>1, <2>2
<1>12. LoneStoreIsOnItsWay'
  <2> SUFFICES ASSUME NEW d \in Running', invocation'[d].cmd = "store", invocation'[d].alone
               PROVE  FALSE
    BY DEF LoneStoreIsOnItsWay
  <2>1. CASE d = c
    BY <1>2, <1>3, <2>1 DEF Running
  <2>2. CASE d # c
    BY <1>8, <1>10, <2>2
  <2> QED BY <2>1, <2>2
<1>13. SecretStaysAsSettled'
  <2>1. ASSUME NEW id \in SecretId
        PROVE  /\ settledTo'[id] \in SecretValue => FetchSecret(id)' = settledTo'[id]
               /\ settledTo'[id] = "deleted" => FetchSecret(id)' = NoSecret
    <3>1. CASE i.alone /\ id = i.id
      <4>1. settledTo'[id] = result
        BY <1>4, <1>5, <3>1 DEF StoreIInv, StoreTypeOK
      <4> QED BY <3>1, <4>1
    <3>2. CASE ~(i.alone /\ id = i.id)
      <4>1. settledTo'[id] = settledTo[id]
        BY <1>4, <3>2 DEF StoreIInv, StoreTypeOK
      <4>2. CASE settledTo[id] = "unsure"
        BY <4>1, <4>2, StoreAssumption
      <4>3. CASE settledTo[id] # "unsure"
        <5>1. FetchSecret(id)' = FetchSecret(id)
          BY <4>3, SameSlot
        <5> QED BY <4>1, <5>1 DEF StoreIInv, SecretStaysAsSettled
      <4> QED BY <4>2, <4>3
    <3> QED BY <3>1, <3>2
  <2> QED BY <2>1 DEF SecretStaysAsSettled
<1> QED BY <1>6, <1>7, <1>9, <1>11, <1>12, <1>13 DEF StoreIInv

(* An invocation begins: what it works on is settled no more. *)
LEMMA BeginSecretStep ==
  ASSUME StoreIInv, NEW c \in StoreCaller, NEW j \in InvocationRecord, BeginSecret(c, j),
         StoreRecord(j), j.at = "load", j.alone = (Running = {}),
         j.cmd = "store" => j.before = SlotOf(j.id),
         settledTo' \in [SecretId -> SecretValue \cup {"unsure", "deleted"}],
         \A id \in SecretId : settledTo'[id] \in {settledTo[id], "unsure"},
         \A id \in SecretId : id = j.id \/ id \in j.queue => settledTo'[id] = "unsure",
         UNCHANGED <<index, keychain, legacy, secretsFile>>
  PROVE  StoreIInv'
<1>1. /\ invocation[c] = NoInvocation /\ asSaid' = asSaid
      /\ invocation' = [d \in StoreCaller |->
           IF d = c THEN j
           ELSE IF d \in Running THEN [invocation[d] EXCEPT !.alone = FALSE, !.before = Slots!EmptySlot]
           ELSE invocation[d]]
  BY DEF BeginSecret, Quiet
<1>2. c \notin Running
  BY <1>1 DEF Running
<1>3. invocation'[c] = j /\ j # NoInvocation
  BY <1>1, RecordIsRunning
<1>4. ASSUME NEW d \in Running
      PROVE  /\ d # c /\ invocation'[d] \in InvocationRecord /\ invocation'[d] # NoInvocation
             /\ StoreRecord(invocation[d])' /\ invocation'[d].alone = FALSE
             /\ invocation'[d].at = invocation[d].at /\ invocation'[d].id = invocation[d].id
             /\ invocation'[d].queue = invocation[d].queue /\ invocation'[d].loaded = invocation[d].loaded
             /\ invocation'[d].file = invocation[d].file
  <2>1. d # c /\ d \in StoreCaller
    BY <1>2 DEF Running
  <2>2. PICK i : i = invocation[d] /\ i \in InvocationRecord /\ StoreRecord(i)
    BY <2>1, InvocationFacts DEF StoreIInv
  <2>3. invocation'[d] = [i EXCEPT !.alone = FALSE, !.before = Slots!EmptySlot]
    BY <1>1, <2>1, <2>2
  <2>4. Slots!EmptySlot \in Slots!Slot
    BY DEF Slots!EmptySlot, Slots!Slot
  <2>5. PICK k : k = [i EXCEPT !.alone = FALSE, !.before = Slots!EmptySlot]
    OBVIOUS
  <2>6. /\ k \in InvocationRecord /\ k.alone = FALSE /\ k.at = i.at /\ k.id = i.id /\ k.queue = i.queue
        /\ k.loaded = i.loaded /\ k.file = i.file /\ k.cmd = i.cmd /\ k.value = i.value /\ k.backend = i.backend
    BY <2>2, <2>4, <2>5 DEF InvocationRecord
  <2>7. StoreRecord(k)
    BY <2>2, <2>6 DEF StoreRecord
  <2>8. invocation'[d] = k
    BY <2>3, <2>5
  <2>9. StoreRecord(invocation[d])'
    BY <2>7, <2>8 DEF StoreRecord
  <2> QED BY <2>1, <2>2, <2>6, <2>8, <2>9, RecordIsRunning
<1>5. Running' = Running \cup {c}
  BY <1>1, <1>3, <1>4 DEF Running
<1>6. StoreTypeOK' /\ SecretStaysAsSettled'
  <2>1. StoreTypeOK'
    BY DEF StoreIInv, StoreTypeOK
  <2>2. \A id \in SecretId : FetchSecret(id)' = FetchSecret(id)
    BY SameSlot
  <2>3. SecretStaysAsSettled'
    BY <1>1, <2>2, StoreAssumption DEF StoreIInv, SecretStaysAsSettled
  <2> QED BY <2>1, <2>3
<1>7. InvocationsOK'
  <2>1. invocation' = [d \in StoreCaller |-> invocation'[d]]
    BY <1>1
  <2>2. ASSUME NEW d \in StoreCaller, invocation'[d] # NoInvocation
        PROVE  invocation'[d] \in InvocationRecord /\ StoreRecord(invocation[d])'
    <3>1. CASE d = c
      BY <1>3, <3>1 DEF StoreRecord
    <3>2. CASE d # c
      BY <1>4, <1>5, <2>2, <3>2, ZenonT(30) DEF Running
    <3> QED BY <3>1, <3>2
  <2> QED BY <2>1, <2>2 DEF InvocationsOK
<1>8. ASSUME NEW d \in Running', invocation'[d].alone PROVE d = c /\ Running = {}
  BY <1>3, <1>4, <1>5, <1>8
<1>9. LoneInvocation'
  BY <1>5, <1>8 DEF LoneInvocation
<1>10. SettledIsUntouched'
  <2> SUFFICES ASSUME NEW d \in Running', NEW id \in SecretId, settledTo'[id] # "unsure"
               PROVE  HasAsItIs(invocation[d], id)'
    BY DEF SettledIsUntouched
  <2>1. CASE d = c
    BY <1>3, <2>1 DEF HasAsItIs
  <2>2. CASE d # c
    <3>1. d \in Running /\ settledTo[id] # "unsure"
      BY <1>5, <2>2
    <3>2. HasAsItIs(invocation[d], id)
      BY <3>1 DEF StoreIInv, SettledIsUntouched
    <3> QED BY <1>4, <3>1, <3>2 DEF HasAsItIs
  <2> QED BY <2>1, <2>2
<1>11. LoneStoreIsOnItsWay'
  <2> SUFFICES ASSUME NEW d \in Running', invocation'[d].cmd = "store", invocation'[d].alone
               PROVE  SlotSoFar(invocation[d], SlotOf(invocation[d].id))'
    BY DEF LoneStoreIsOnItsWay
  <2>1. invocation'[d] = j /\ SlotOf(j.id)' = SlotOf(j.id)
    BY <1>3, <1>8 DEF SlotOf, KeychainValue
  <2>2. SlotSoFar(j, SlotOf(j.id)')
    BY <2>1 DEF SlotSoFar
  <2> QED BY <2>1, <2>2 DEF SlotSoFar, SlotOf, KeychainValue
<1> QED BY <1>6, <1>7, <1>9, <1>10, <1>11 DEF StoreIInv

-----------------------------------------------------------------------------
(* The steps of a store.                                                   *)

LEMMA BlankIsRecord ==
  ASSUME NEW cmd \in {"store", "delete", "revoke"}, NEW id \in SecretId
  PROVE  /\ Blank(cmd, "load", id) \in InvocationRecord
         /\ Blank(cmd, "load", id).cmd = cmd /\ Blank(cmd, "load", id).at = "load"
         /\ Blank(cmd, "load", id).id = id /\ Blank(cmd, "load", id).queue = {}
         /\ Blank(cmd, "load", id).alone = (Running = {})
<1>1. Slots!EmptySlot \in Slots!Slot
  BY DEF Slots!EmptySlot, Slots!Slot
<1>2. /\ Nothing \in [SecretId -> {"keychain", "file", NoSecret}]
      /\ Nothing \in [SecretId -> SecretValue \cup {NoSecret}]
  BY DEF Nothing
<1> QED BY <1>1, <1>2 DEF Blank, InvocationRecord

LEMMA BeginStoreStep ==
  ASSUME StoreIInv, NEW c \in StoreCaller, NEW id \in SecretId, NEW val \in SecretValue, BeginStore(c, id, val)
  PROVE  StoreIInv'
<1>1. PICK preferred \in {"keychain", "file"} :
        BeginSecret(c, [Blank("store", "load", id) EXCEPT !.value = val, !.backend = preferred,
                                                          !.before = SlotOf(id)])
  BY DEF BeginStore
<1>2. PICK b : b = Blank("store", "load", id)
  OBVIOUS
<1>3. PICK s : s = SlotOf(id)
  OBVIOUS
<1>4. PICK j : j = [b EXCEPT !.value = val, !.backend = preferred, !.before = s]
  OBVIOUS
<1>5. s \in Slots!Slot
  BY <1>3, SlotOfFacts DEF StoreIInv
<1>6. /\ j \in InvocationRecord /\ j.cmd = "store" /\ j.at = "load" /\ j.id = id /\ j.queue = {}
      /\ j.value = val /\ j.backend = preferred /\ j.before = s /\ j.alone = b.alone
  <2>1. b \in InvocationRecord /\ b.cmd = "store" /\ b.at = "load" /\ b.id = id /\ b.queue = {}
    BY <1>2, BlankIsRecord
  <2>2. val \in SecretValue \cup {NoSecret} /\ preferred \in {"keychain", "file", NoSecret}
    OBVIOUS
  <2>3. /\ j.cmd = "store" /\ j.at = "load" /\ j.id = id /\ j.queue = {}
        /\ j.value = val /\ j.backend = preferred /\ j.before = s /\ j.alone = b.alone
    BY <1>4, <2>1 DEF InvocationRecord
  <2>4. j \in InvocationRecord
    BY <1>4, <1>5, <2>1, <2>2 DEF InvocationRecord
  <2> QED BY <2>3, <2>4
<1>7. j.alone = (Running = {})
  BY <1>2, <1>6, BlankIsRecord
<1>8. StoreRecord(j)
  BY <1>6 DEF StoreRecord
<1>9. BeginSecret(c, j)
  BY <1>1, <1>2, <1>3, <1>4
<1>10. /\ settledTo' = [settledTo EXCEPT ![id] = "unsure"]
       /\ UNCHANGED <<index, keychain, legacy, secretsFile>>
  BY DEF BeginStore
<1>11. /\ settledTo' \in [SecretId -> SecretValue \cup {"unsure", "deleted"}]
       /\ \A k \in SecretId : settledTo'[k] \in {settledTo[k], "unsure"}
       /\ \A k \in SecretId : k = j.id \/ k \in j.queue => settledTo'[k] = "unsure"
  BY <1>6, <1>10 DEF StoreIInv, StoreTypeOK
<1>12. j.before = SlotOf(j.id)
  BY <1>3, <1>6
<1> QED BY <1>6, <1>7, <1>8, <1>9, <1>10, <1>11, <1>12, BeginSecretStep

(* The value is there already, or the store goes on to write it. *)
LEMMA LoadForStoreStep ==
  ASSUME StoreIInv, NEW c \in StoreCaller, LoadForStore(c)
  PROVE  StoreIInv'
<1>1. PICK i : i = invocation[c]
  OBVIOUS
<1>2. i.at = "load" /\ i.cmd = "store" /\ UNCHANGED <<index, keychain, legacy, secretsFile>>
  BY <1>1 DEF LoadForStore, At
<1>3. c \in Running /\ i \in InvocationRecord /\ StoreRecord(i)
  BY <1>1, <1>2, InvocationFacts DEF StoreIInv
<1>4. i.id \in SecretId /\ i.value \in SecretValue /\ i.before \in Slots!Slot /\ i.backend \in {"keychain", "file"}
  BY <1>2, <1>3 DEF InvocationRecord, StoreRecord
<1>5. i.alone => SlotOf(i.id) = i.before
  BY <1>1, <1>2, <1>3 DEF StoreIInv, LoneStoreIsOnItsWay, SlotSoFar
<1>6. CASE i.backend = "keychain" /\ index[i.id] = "keychain" /\ FetchSecret(i.id) = i.value
  <2>1. EndsWith(c, i.value) /\ StoreEnds(i, SlotOf(i.id))
    BY <1>1, <1>6 DEF LoadForStore
  <2>2. asSaid'
    <3>1. ASSUME i.alone PROVE SlotOf(i.id) \in Slots!Stored(i.before, i.value, i.backend)
      <4>1. PICK s : s = i.before
        OBVIOUS
      <4>2. s \in Slots!Slot /\ s = SlotOf(i.id)
        BY <1>4, <1>5, <3>1, <4>1
      <4>3. s.index = "keychain" /\ s.keychain = i.value
        BY <1>4, <1>6, <4>2, SlotOfFacts DEF StoreIInv
      <4>4. Slots!With(s, "keychain", i.value) = [index |-> s.index, keychain |-> i.value, file |-> s.file]
        BY <1>4, <4>2, SlotForms
      <4>5. [index |-> s.index, keychain |-> i.value, file |-> s.file] = s
        BY <4>2, <4>3 DEF Slots!Slot
      <4>6. Slots!Indexed(s, "keychain") = s
        BY <4>2, <4>3 DEF Slots!Indexed, Slots!Slot
      <4> QED BY <1>4, <1>6, <4>1, <4>2, <4>4, <4>5, <4>6, StoredForms
    <3> QED BY <2>1, <3>1 DEF StoreEnds, StoreIInv, SecretStaysAsSettled
  <2>3. FetchSecret(i.id)' = i.value
    BY <1>2, <1>6, SameSlot
  <2>4. i.value # "deleted"
    BY <1>4, StoreAssumption
  <2> QED BY <1>1, <1>2, <1>3, <1>4, <2>1, <2>2, <2>3, <2>4, EndsWithStep DEF StoreIInv, StoreTypeOK
<1>7. CASE ~(i.backend = "keychain" /\ index[i.id] = "keychain" /\ FetchSecret(i.id) = i.value)
  <2>1. PICK next \in {"keychain", "readFile"} :
          /\ next = "keychain" => i.backend = "keychain"
          /\ invocation' = [invocation EXCEPT ![c] = [i EXCEPT !.at = next, !.loaded = index]]
    BY <1>1, <1>4, <1>7 DEF LoadForStore, Step
  <2>2. settledTo' = settledTo /\ asSaid' = asSaid
    BY <1>1, <1>7 DEF LoadForStore, Quiet
  <2>3. PICK j : j = [i EXCEPT !.at = next, !.loaded = index]
    OBVIOUS
  <2>4. /\ j \in InvocationRecord /\ j.at = next /\ j.loaded = index /\ j.alone = i.alone /\ j.id = i.id
        /\ j.queue = i.queue /\ j.cmd = i.cmd /\ j.value = i.value /\ j.backend = i.backend
        /\ j.before = i.before
    <3>1. index \in [SecretId -> {"keychain", "file", NoSecret}]
      BY DEF StoreIInv, StoreTypeOK
    <3> QED BY <1>3, <2>3, <3>1 DEF InvocationRecord
  <2>5. StoreRecord(j)
    BY <1>2, <1>3, <2>1, <2>4 DEF StoreRecord
  <2>6. StoreTypeOK'
    BY <1>2, <2>2 DEF StoreIInv, StoreTypeOK
  <2>7. j.alone => SlotSoFar(j, SlotOf(j.id)')
    <3>1. SlotOf(j.id)' = SlotOf(j.id)
      BY <1>2 DEF SlotOf, KeychainValue
    <3> QED BY <1>5, <2>4, <3>1 DEF SlotSoFar
  <2>8. invocation' = [invocation EXCEPT ![c] = j] /\ j.at # "load" /\ j.at # "saveFile"
    BY <2>1, <2>3, <2>4
  <2> QED BY <1>1, <1>2, <1>3, <2>2, <2>4, <2>5, <2>6, <2>7, <2>8, InvocationGoesOn
<1> QED BY <1>6, <1>7

(* The keychain's account is written, or is not. *)
LEMMA SetPasswordStep ==
  ASSUME StoreIInv, NEW c \in StoreCaller, SetPassword(c)
  PROVE  StoreIInv'
<1>1. PICK i : i = invocation[c]
  OBVIOUS
<1>2. PICK works \in BOOLEAN, next \in {"indexKeychain", "readFile"} :
        /\ ~works => next = "readFile"
        /\ keychain' = IF works THEN [keychain EXCEPT ![i.id] = i.value] ELSE keychain
        /\ invocation' = [invocation EXCEPT ![c] = [i EXCEPT !.at = next]]
  BY <1>1 DEF SetPassword, Step
<1>3. i.at = "keychain" /\ UNCHANGED <<index, legacy, secretsFile, settledTo, asSaid>>
  BY <1>1 DEF SetPassword, At, Quiet
<1>4. c \in Running /\ i \in InvocationRecord /\ StoreRecord(i)
  BY <1>1, <1>3, InvocationFacts DEF StoreIInv
<1>5. i.cmd = "store" /\ i.backend = "keychain" /\ i.value \in SecretValue /\ i.id \in SecretId /\ i.before \in Slots!Slot
  BY <1>3, <1>4 DEF InvocationRecord, StoreRecord
<1>6. PICK j : j = [i EXCEPT !.at = next]
  OBVIOUS
<1>7. /\ j \in InvocationRecord /\ j.at = next /\ j.loaded = i.loaded /\ j.alone = i.alone /\ j.id = i.id
      /\ j.queue = i.queue /\ j.cmd = i.cmd /\ j.value = i.value /\ j.backend = i.backend
      /\ j.before = i.before
  BY <1>4, <1>6 DEF InvocationRecord
<1>8. StoreRecord(j)
  BY <1>4, <1>5, <1>7 DEF StoreRecord
<1>9. /\ keychain' \in [SecretId -> SecretValue \cup {NoSecret}]
      /\ \A id \in SecretId : id # i.id => keychain'[id] = keychain[id]
      /\ keychain'[i.id] = IF works THEN i.value ELSE keychain[i.id]
  BY <1>2, <1>5 DEF StoreIInv, StoreTypeOK
<1>10. StoreTypeOK'
  BY <1>3, <1>9 DEF StoreIInv, StoreTypeOK
<1>11. j.alone => SlotSoFar(j, SlotOf(j.id)')
  <2> SUFFICES ASSUME j.alone PROVE SlotSoFar(j, SlotOf(j.id)')
    OBVIOUS
  <2>1. SlotOf(i.id) = i.before
    BY <1>1, <1>3, <1>4, <1>5, <1>7 DEF StoreIInv, LoneStoreIsOnItsWay, SlotSoFar
  <2>2. CASE works
    <3>1. KeychainValue(i.id)' = i.value
      BY <1>5, <1>9, <2>2, StoreAssumption DEF KeychainValue
    <3>2. SlotOf(i.id)' = [index |-> index[i.id], keychain |-> i.value, file |-> secretsFile[i.id]]
      BY <1>3, <3>1 DEF SlotOf
    <3>3. Slots!With(i.before, "keychain", i.value) = [index |-> i.before.index, keychain |-> i.value, file |-> i.before.file]
      BY <1>5, SlotForms
    <3>4. i.before.index = index[i.id] /\ i.before.file = secretsFile[i.id]
      BY <1>5, <2>1, SlotOfFacts DEF StoreIInv
    <3>5. SlotOf(j.id)' = Slots!With(j.before, "keychain", j.value)
      BY <1>7, <3>2, <3>3, <3>4
    <3> QED BY <1>5, <1>7, <3>5 DEF SlotSoFar
  <2>3. CASE ~works
    <3>1. SlotOf(i.id)' = SlotOf(i.id)
      BY <1>2, <1>3, <2>3 DEF SlotOf, KeychainValue
    <3> QED BY <1>2, <1>7, <2>1, <2>3, <3>1 DEF SlotSoFar
  <2> QED BY <2>2, <2>3
<1>12. \A id \in SecretId : settledTo[id] # "unsure" => id # i.id /\ j.loaded[id] = index[id]
  BY <1>1, <1>3, <1>4, <1>7 DEF StoreIInv, SettledIsUntouched, HasAsItIs
<1>13. invocation' = [invocation EXCEPT ![c] = j] /\ j.at # "load" /\ j.at # "saveFile"
  BY <1>2, <1>6, <1>7
<1> QED BY <1>1, <1>3, <1>4, <1>7, <1>8, <1>9, <1>10, <1>11, <1>12, <1>13, InvocationGoesOn

LEMMA ReadSecretsFileStep ==
  ASSUME StoreIInv, NEW c \in StoreCaller, ReadSecretsFile(c)
  PROVE  StoreIInv'
<1>1. PICK i : i = invocation[c]
  OBVIOUS
<1>2. /\ i.at = "readFile" /\ UNCHANGED <<index, keychain, legacy, secretsFile, settledTo, asSaid>>
      /\ invocation' = [invocation EXCEPT ![c] = [i EXCEPT !.at = "saveFile", !.file = secretsFile]]
  BY <1>1 DEF ReadSecretsFile, At, Quiet, Step
<1>3. c \in Running /\ i \in InvocationRecord /\ StoreRecord(i)
  BY <1>1, <1>2, InvocationFacts DEF StoreIInv
<1>4. PICK j : j = [i EXCEPT !.at = "saveFile", !.file = secretsFile]
  OBVIOUS
<1>5. /\ j \in InvocationRecord /\ j.at = "saveFile" /\ j.loaded = i.loaded /\ j.alone = i.alone /\ j.id = i.id
      /\ j.queue = i.queue /\ j.cmd = i.cmd /\ j.value = i.value /\ j.backend = i.backend
      /\ j.before = i.before /\ j.file = secretsFile
  <2>1. secretsFile \in [SecretId -> SecretValue \cup {NoSecret}]
    BY DEF StoreIInv, StoreTypeOK
  <2> QED BY <1>3, <1>4, <2>1 DEF InvocationRecord
<1>6. StoreRecord(j)
  BY <1>2, <1>3, <1>5 DEF StoreRecord
<1>7. StoreTypeOK'
  BY <1>2 DEF StoreIInv, StoreTypeOK
<1>8. j.cmd = "store" /\ j.alone => SlotSoFar(j, SlotOf(j.id)')
  <2>1. SlotOf(j.id)' = SlotOf(i.id)
    BY <1>2, <1>5 DEF SlotOf, KeychainValue
  <2>2. i.cmd = "store" /\ i.alone => SlotSoFar(i, SlotOf(i.id))
    BY <1>1, <1>3 DEF StoreIInv, LoneStoreIsOnItsWay
  <2> QED BY <1>2, <1>5, <2>1, <2>2 DEF SlotSoFar
<1>9. \A id \in SecretId : settledTo[id] # "unsure" => j.loaded[id] = index[id]
  BY <1>1, <1>2, <1>3, <1>5 DEF StoreIInv, SettledIsUntouched, HasAsItIs
<1>10. invocation' = [invocation EXCEPT ![c] = j] /\ j.at # "load"
  BY <1>2, <1>4, <1>5
<1> QED BY <1>1, <1>2, <1>3, <1>5, <1>6, <1>7, <1>8, <1>9, <1>10, InvocationGoesOn

LEMMA SaveSecretsFileStep ==
  ASSUME StoreIInv, NEW c \in StoreCaller, SaveSecretsFile(c)
  PROVE  StoreIInv'
<1>1. PICK i : i = invocation[c]
  OBVIOUS
<1> DEFINE next == IF i.cmd = "store" THEN "indexFile" ELSE "unindex"
<1>2. /\ i.at = "saveFile" /\ UNCHANGED <<index, keychain, legacy, settledTo, asSaid>>
      /\ secretsFile' = [i.file EXCEPT ![i.id] = i.value]
      /\ invocation' = [invocation EXCEPT ![c] = [i EXCEPT !.at = next, !.file = Nothing]]
  BY <1>1 DEF SaveSecretsFile, At, Quiet, Step
<1>3. c \in Running /\ i \in InvocationRecord /\ StoreRecord(i)
  BY <1>1, <1>2, InvocationFacts DEF StoreIInv
<1>4. PICK j : j = [i EXCEPT !.at = next, !.file = Nothing]
  OBVIOUS
<1>5. next \in {"indexFile", "unindex"} /\ (i.cmd = "store" <=> next = "indexFile")
  OBVIOUS
<1> HIDE DEF next
<1>6. /\ j \in InvocationRecord /\ j.at = next /\ j.loaded = i.loaded /\ j.alone = i.alone /\ j.id = i.id
      /\ j.queue = i.queue /\ j.cmd = i.cmd /\ j.value = i.value /\ j.backend = i.backend
      /\ j.before = i.before
  <2>1. Nothing \in [SecretId -> SecretValue \cup {NoSecret}]
    BY DEF Nothing
  <2> QED BY <1>3, <1>4, <1>5, <2>1 DEF InvocationRecord
<1>7. StoreRecord(j)
  BY <1>3, <1>5, <1>6 DEF StoreRecord
<1>8. i.id \in SecretId /\ i.value \in SecretValue \cup {NoSecret} /\ i.before \in Slots!Slot
      /\ i.file \in [SecretId -> SecretValue \cup {NoSecret}]
  BY <1>3 DEF InvocationRecord
<1>9. secretsFile' \in [SecretId -> SecretValue \cup {NoSecret}] /\ secretsFile'[i.id] = i.value
      /\ \A id \in SecretId : id # i.id => secretsFile'[id] = i.file[id]
  BY <1>2, <1>8
<1>10. StoreTypeOK'
  BY <1>2, <1>9 DEF StoreIInv, StoreTypeOK
<1>11. \A id \in SecretId : settledTo[id] # "unsure" =>
         id # i.id /\ j.loaded[id] = index[id] /\ secretsFile'[id] = secretsFile[id]
  BY <1>1, <1>2, <1>3, <1>6, <1>9 DEF StoreIInv, SettledIsUntouched, HasAsItIs
<1>12. j.cmd = "store" /\ j.alone => SlotSoFar(j, SlotOf(j.id)')
  <2> SUFFICES ASSUME j.cmd = "store", j.alone PROVE SlotSoFar(j, SlotOf(j.id)')
    OBVIOUS
  <2>1. i.value \in SecretValue /\ i.backend \in {"keychain", "file"} /\ j.at = "indexFile"
    BY <1>3, <1>5, <1>6 DEF StoreRecord
  <2>2. PICK s : s = SlotOf(i.id)
    OBVIOUS
  <2>3. s \in Slots!Slot /\ s.index = index[i.id] /\ s.keychain = KeychainValue(i.id)
    BY <1>8, <2>2, SlotOfFacts DEF StoreIInv
  <2>4. s = i.before \/ (i.backend = "keychain" /\ s = Slots!With(i.before, "keychain", i.value))
    BY <1>1, <1>2, <1>3, <1>6, <2>2 DEF StoreIInv, LoneStoreIsOnItsWay, SlotSoFar
  <2>5. SlotOf(i.id)' = [index |-> s.index, keychain |-> s.keychain, file |-> i.value]
    BY <1>2, <1>9, <2>3 DEF SlotOf, KeychainValue
  <2>6. Slots!With(s, "file", i.value) = [index |-> s.index, keychain |-> s.keychain, file |-> i.value]
    BY <2>1, <2>3, SlotForms
  <2>7. SlotOf(j.id)' = Slots!With(s, "file", i.value)
    BY <1>6, <2>5, <2>6
  <2> QED BY <1>6, <2>1, <2>4, <2>7 DEF SlotSoFar
<1>13. invocation' = [invocation EXCEPT ![c] = j] /\ j.at # "load" /\ j.at # "saveFile"
  BY <1>2, <1>4, <1>5, <1>6
<1> QED BY <1>1, <1>2, <1>3, <1>6, <1>7, <1>10, <1>11, <1>12, <1>13, InvocationGoesOn, ZenonT(30)

LEMMA SaveIndexStep ==
  ASSUME StoreIInv, NEW c \in StoreCaller, SaveIndex(c)
  PROVE  StoreIInv'
<1>1. PICK i : i = invocation[c]
  OBVIOUS
<1>2. /\ i.at \in {"indexKeychain", "indexFile"}
      /\ index' = [i.loaded EXCEPT ![i.id] = IndexedAs(i.at)]
      /\ EndsWith(c, i.value) /\ StoreEnds(i, [SlotOf(i.id) EXCEPT !.index = IndexedAs(i.at)])
      /\ UNCHANGED <<keychain, legacy, secretsFile>>
  BY <1>1 DEF SaveIndex
<1>3. c \in Running /\ i \in InvocationRecord /\ StoreRecord(i)
  BY <1>1, <1>2, InvocationFacts DEF StoreIInv
<1>4. i.cmd = "store" /\ (i.at = "indexKeychain" => i.backend = "keychain")
  BY <1>2, <1>3 DEF StoreRecord
<1>5. i.id \in SecretId /\ i.value \in SecretValue /\ i.before \in Slots!Slot /\ i.backend \in {"keychain", "file"}
      /\ i.loaded \in [SecretId -> {"keychain", "file", NoSecret}]
  BY <1>3, <1>4 DEF InvocationRecord, StoreRecord
<1>6. IndexedAs(i.at) = IF i.at = "indexKeychain" THEN "keychain" ELSE "file"
  BY DEF IndexedAs
<1>7. /\ index' \in [SecretId -> {"keychain", "file", NoSecret}] /\ index'[i.id] = IndexedAs(i.at)
      /\ \A id \in SecretId : id # i.id => index'[id] = i.loaded[id]
  BY <1>2, <1>5, <1>6
<1>8. \A id \in SecretId : settledTo[id] # "unsure" => id # i.id /\ index'[id] = index[id]
  BY <1>1, <1>2, <1>3, <1>7 DEF StoreIInv, SettledIsUntouched, HasAsItIs
<1>9. PICK s : s = SlotOf(i.id)
  OBVIOUS
<1>10. s \in Slots!Slot /\ s.keychain = KeychainValue(i.id) /\ s.file = secretsFile[i.id]
  BY <1>5, <1>9, SlotOfFacts DEF StoreIInv
<1>11. i.alone => SlotSoFar(i, s)
  BY <1>1, <1>3, <1>4, <1>9 DEF StoreIInv, LoneStoreIsOnItsWay
<1>12. PICK k : k = Slots!With(i.before, "keychain", i.value)
  OBVIOUS
<1>13. k \in Slots!Slot /\ k.keychain = i.value
  BY <1>5, <1>12, SlotForms
<1>14. asSaid'
  <2>1. ASSUME i.alone PROVE [s EXCEPT !.index = IndexedAs(i.at)] \in Slots!Stored(i.before, i.value, i.backend)
    <3>1. CASE i.at = "indexKeychain"
      <4>1. s = k /\ i.backend = "keychain"
        BY <1>4, <1>11, <1>12, <2>1, <3>1 DEF SlotSoFar
      <4>2. [s EXCEPT !.index = IndexedAs(i.at)] = Slots!Indexed(k, "keychain")
        BY <1>6, <3>1, <4>1 DEF Slots!Indexed
      <4> QED BY <1>5, <1>12, <4>1, <4>2, StoredForms
    <3>2. CASE i.at = "indexFile"
      <4>1. \/ s = Slots!With(i.before, "file", i.value)
            \/ i.backend = "keychain" /\ s = Slots!With(k, "file", i.value)
        BY <1>11, <1>12, <2>1, <3>2 DEF SlotSoFar
      <4>2. [s EXCEPT !.index = IndexedAs(i.at)] = Slots!Indexed(s, "file")
        BY <1>6, <3>2 DEF Slots!Indexed
      <4> QED BY <1>5, <1>12, <4>1, <4>2, StoredForms
    <3> QED BY <1>2, <3>1, <3>2
  <2> QED BY <1>2, <1>9, <2>1 DEF StoreEnds, StoreIInv, SecretStaysAsSettled
<1>15. i.alone => FetchSecret(i.id)' = i.value
  <2> SUFFICES ASSUME i.alone PROVE FetchSecret(i.id)' = i.value
    OBVIOUS
  <2>1. KeychainValue(i.id)' = s.keychain /\ secretsFile'[i.id] = s.file
    BY <1>2, <1>10 DEF KeychainValue
  <2>2. FetchSecret(i.id)' = IF i.at = "indexKeychain" THEN s.keychain ELSE s.file
    BY <1>6, <1>7, <2>1 DEF FetchSecret, SlotOf, Slots!Fetch
  <2>3. CASE i.at = "indexKeychain"
    BY <1>11, <1>12, <1>13, <2>2, <2>3 DEF SlotSoFar
  <2>4. CASE i.at = "indexFile"
    <3>1. s = Slots!With(i.before, "file", i.value) \/ s = Slots!With(k, "file", i.value)
      BY <1>11, <1>12, <2>4 DEF SlotSoFar
    <3>2. s.file = i.value
      BY <1>5, <1>13, <3>1, SlotForms
    <3> QED BY <2>2, <2>4, <3>2
  <2> QED BY <1>2, <2>3, <2>4
<1>16. i.value # "deleted" /\ i.value \in SecretValue \cup {"unsure", "deleted"}
  BY <1>5, StoreAssumption
<1>17. /\ keychain' \in [SecretId -> SecretValue \cup {NoSecret}]
       /\ legacy' \in [SecretId -> SecretValue \cup {NoSecret}]
  BY <1>2 DEF StoreIInv, StoreTypeOK
<1> QED BY <1>1, <1>2, <1>3, <1>7, <1>8, <1>14, <1>15, <1>16, <1>17, EndsWithStep

-----------------------------------------------------------------------------
(* The steps of a delete and of revoke-all.                                *)

LEMMA BeginDeleteStep ==
  ASSUME StoreIInv, NEW c \in StoreCaller, NEW id \in SecretId, BeginDelete(c, id)
  PROVE  StoreIInv'
<1>1. PICK j : j = Blank("delete", "load", id)
  OBVIOUS
<1>2. /\ BeginSecret(c, j) /\ settledTo' = [settledTo EXCEPT ![id] = "unsure"]
      /\ UNCHANGED <<index, keychain, legacy, secretsFile>>
  BY <1>1 DEF BeginDelete
<1>3. /\ j \in InvocationRecord /\ j.cmd = "delete" /\ j.at = "load" /\ j.id = id /\ j.queue = {}
      /\ j.alone = (Running = {})
  BY <1>1, BlankIsRecord
<1>4. StoreRecord(j)
  BY <1>3 DEF StoreRecord
<1>5. /\ settledTo' \in [SecretId -> SecretValue \cup {"unsure", "deleted"}]
      /\ \A k \in SecretId : settledTo'[k] \in {settledTo[k], "unsure"}
      /\ \A k \in SecretId : k = j.id \/ k \in j.queue => settledTo'[k] = "unsure"
  BY <1>2, <1>3 DEF StoreIInv, StoreTypeOK
<1> QED BY <1>2, <1>3, <1>4, <1>5, BeginSecretStep

LEMMA BeginRevokeAllStep ==
  ASSUME StoreIInv, NEW c \in StoreCaller, BeginRevokeAll(c)
  PROVE  StoreIInv'
<1> DEFINE listed == {id \in SecretId : index[id] # NoSecret}
           first == CHOOSE got \in listed : TRUE
<1>1. /\ listed # {} /\ settledTo' = [id \in SecretId |-> IF id \in listed THEN "unsure" ELSE settledTo[id]]
      /\ BeginSecret(c, [Blank("revoke", "load", first) EXCEPT !.queue = listed \ {first}])
      /\ UNCHANGED <<index, keychain, legacy, secretsFile>>
  BY DEF BeginRevokeAll
<1>2. PICK id : id = first
  OBVIOUS
<1>3. id \in listed
  BY <1>1, <1>2
<1>4. PICK rest : rest = listed \ {id}
  OBVIOUS
<1>5. id \in SecretId /\ rest \in SUBSET SecretId
  BY <1>3, <1>4
<1>6. PICK b : b = Blank("revoke", "load", id)
  OBVIOUS
<1>7. PICK j : j = [b EXCEPT !.queue = rest]
  OBVIOUS
<1>8. /\ j \in InvocationRecord /\ j.cmd = "revoke" /\ j.at = "load" /\ j.id = id /\ j.queue = rest
      /\ j.alone = (Running = {})
  <2>1. /\ b \in InvocationRecord /\ b.cmd = "revoke" /\ b.at = "load" /\ b.id = id
        /\ b.alone = (Running = {})
    BY <1>5, <1>6, BlankIsRecord
  <2>2. /\ j.cmd = "revoke" /\ j.at = "load" /\ j.id = id /\ j.queue = rest /\ j.alone = b.alone
    BY <1>7, <2>1 DEF InvocationRecord
  <2>3. j \in InvocationRecord
    BY <1>5, <1>7, <2>1 DEF InvocationRecord
  <2> QED BY <2>1, <2>2, <2>3
<1>9. BeginSecret(c, j)
  BY <1>1, <1>2, <1>4, <1>6, <1>7
<1> HIDE DEF first
<1>10. StoreRecord(j)
  BY <1>4, <1>8 DEF StoreRecord
<1>11. /\ settledTo' \in [SecretId -> SecretValue \cup {"unsure", "deleted"}]
       /\ \A k \in SecretId : settledTo'[k] \in {settledTo[k], "unsure"}
       /\ \A k \in SecretId : k \in listed => settledTo'[k] = "unsure"
  <2> HIDE DEF listed
  <2> QED BY <1>1 DEF StoreIInv, StoreTypeOK
<1>12. \A k \in SecretId : k = j.id \/ k \in j.queue => settledTo'[k] = "unsure"
  BY <1>3, <1>4, <1>8, <1>11
<1> QED BY <1>1, <1>8, <1>9, <1>10, <1>11, <1>12, BeginSecretStep

LEMMA LoadForDeleteStep ==
  ASSUME StoreIInv, NEW c \in StoreCaller, LoadForDelete(c)
  PROVE  StoreIInv'
<1>1. PICK i : i = invocation[c]
  OBVIOUS
<1>2. i.at = "load" /\ i.cmd # "store" /\ UNCHANGED <<index, keychain, legacy, secretsFile>>
  BY <1>1 DEF LoadForDelete, At
<1>3. c \in Running /\ i \in InvocationRecord /\ StoreRecord(i)
  BY <1>1, <1>2, InvocationFacts DEF StoreIInv
<1>4. CASE EndsWith(c, "unsure") /\ UNCHANGED asSaid
  <2>1. asSaid'
    BY <1>4 DEF StoreIInv, SecretStaysAsSettled
  <2>2. "unsure" \notin SecretValue
    BY StoreAssumption
  <2> QED BY <1>1, <1>2, <1>3, <1>4, <2>1, <2>2, EndsWithStep DEF StoreIInv, StoreTypeOK
<1>5. ASSUME NEW next \in {"account", "readFile"}, NEW removed \in BOOLEAN,
             invocation' = [invocation EXCEPT ![c] = [i EXCEPT !.at = next, !.loaded = index, !.removed = removed]],
             settledTo' = settledTo, asSaid' = asSaid
      PROVE  StoreIInv'
  <2>1. PICK j : j = [i EXCEPT !.at = next, !.loaded = index, !.removed = removed]
    OBVIOUS
  <2>2. index \in [SecretId -> {"keychain", "file", NoSecret}]
    BY DEF StoreIInv, StoreTypeOK
  <2>3. /\ j.at = next /\ j.loaded = index /\ j.alone = i.alone /\ j.id = i.id
        /\ j.queue = i.queue /\ j.cmd = i.cmd
    BY <1>3, <2>1 DEF InvocationRecord
  <2>4. j \in InvocationRecord
    BY <1>3, <2>1, <2>2 DEF InvocationRecord
  <2>5. StoreRecord(j)
    BY <1>2, <1>3, <2>3 DEF StoreRecord
  <2>6. StoreTypeOK'
    BY <1>2, <1>5 DEF StoreIInv, StoreTypeOK
  <2>7. invocation' = [invocation EXCEPT ![c] = j] /\ j.at # "load" /\ j.at # "saveFile"
    BY <1>5, <2>1, <2>3
  <2> QED BY <1>1, <1>2, <1>3, <1>5, <2>3, <2>4, <2>5, <2>6, <2>7, InvocationGoesOn
<1>6. CASE /\ index[i.id] = "keychain"
           /\ Step(c, [i EXCEPT !.at = "account", !.loaded = index, !.removed = TRUE])
           /\ Quiet /\ UNCHANGED settledTo
  BY <1>5, <1>6 DEF Step, Quiet
<1>7. CASE /\ index[i.id] = "file" /\ secretsFile[i.id] # NoSecret
           /\ Step(c, [i EXCEPT !.at = "readFile", !.loaded = index])
           /\ Quiet /\ UNCHANGED settledTo
  <2>1. i.removed \in BOOLEAN
    BY <1>3 DEF InvocationRecord
  <2>2. [i EXCEPT !.at = "readFile", !.loaded = index]
          = [i EXCEPT !.at = "readFile", !.loaded = index, !.removed = i.removed]
    BY <1>3 DEF InvocationRecord
  <2>3. invocation' = [invocation EXCEPT ![c] = [i EXCEPT !.at = "readFile", !.loaded = index, !.removed = i.removed]]
    BY <1>7, <2>2 DEF Step
  <2> QED BY <1>5, <1>7, <2>1, <2>3 DEF Quiet
<1> QED BY <1>1, <1>4, <1>6, <1>7 DEF LoadForDelete

(* The accounts of an id go; then the index entry does, or the delete ends *)
(* with what is left.                                                      *)
LEMMA AccountGoesOn ==
  ASSUME StoreIInv, StoreTypeOK', NEW c \in StoreCaller, c \in Running, NEW i, i = invocation[c],
         i.at \in {"account", "legacyAccount"},
         NEW j \in InvocationRecord, j.at \in {"legacyAccount", "unindex"},
         j.loaded = i.loaded, j.alone = i.alone, j.id = i.id, j.queue = i.queue, j.cmd = i.cmd,
         invocation' = [invocation EXCEPT ![c] = j],
         index' = index, secretsFile' = secretsFile, settledTo' = settledTo, asSaid' = asSaid,
         \A id \in SecretId : id # i.id => keychain'[id] = keychain[id] /\ legacy'[id] = legacy[id]
  PROVE  StoreIInv'
<1>1. i \in InvocationRecord /\ StoreRecord(i)
  BY InvocationFacts DEF StoreIInv
<1>2. j.cmd # "store"
  BY <1>1 DEF StoreRecord
<1>3. StoreRecord(j)
  BY <1>1, <1>2 DEF StoreRecord
<1>4. \A id \in SecretId : settledTo[id] # "unsure" => id # i.id /\ j.loaded[id] = index[id]
  BY DEF StoreIInv, SettledIsUntouched, HasAsItIs
<1>5. j.at # "load" /\ j.at # "saveFile"
  OBVIOUS
<1>6. \A id \in SecretId : settledTo[id] # "unsure" =>
         /\ keychain'[id] = keychain[id] /\ legacy'[id] = legacy[id] /\ secretsFile'[id] = secretsFile[id]
         /\ j.loaded[id] = index[id] /\ (j.at = "saveFile" => j.file[id] = secretsFile[id])
  BY <1>4, <1>5
<1>7. j.cmd = "store" /\ j.alone => SlotSoFar(j, SlotOf(j.id)')
  BY <1>2
<1> QED BY <1>3, <1>5, <1>6, <1>7, InvocationGoesOn, ZenonT(30)

LEMMA AfterAccountsStep ==
  ASSUME StoreIInv, NEW c \in StoreCaller, c \in Running, NEW i, i = invocation[c],
         i.at \in {"account", "legacyAccount"}, NEW removed \in BOOLEAN, AfterAccounts(c, removed),
         keychain' \in [SecretId -> SecretValue \cup {NoSecret}],
         legacy' \in [SecretId -> SecretValue \cup {NoSecret}], UNCHANGED <<index, secretsFile>>,
         \A id \in SecretId : id # i.id => keychain'[id] = keychain[id] /\ legacy'[id] = legacy[id]
  PROVE  StoreIInv'
<1>1. CASE removed
  <2>1. /\ invocation' = [invocation EXCEPT ![c] = [i EXCEPT !.at = "unindex", !.removed = TRUE]]
        /\ UNCHANGED <<settledTo, asSaid>>
    BY <1>1 DEF AfterAccounts, Step, Quiet
  <2>2. StoreTypeOK'
    BY <2>1 DEF StoreIInv, StoreTypeOK
  <2>3. PICK j : j = [i EXCEPT !.at = "unindex", !.removed = TRUE]
    OBVIOUS
  <2>4. i \in InvocationRecord
    BY InvocationFacts DEF StoreIInv
  <2>5. j \in InvocationRecord
    BY <2>3, <2>4 DEF InvocationRecord
  <2>6. /\ j.at = "unindex" /\ j.loaded = i.loaded /\ j.alone = i.alone /\ j.id = i.id
        /\ j.queue = i.queue /\ j.cmd = i.cmd
    BY <2>3, <2>4 DEF InvocationRecord
  <2>7. invocation' = [invocation EXCEPT ![c] = j]
    BY <2>1, <2>3
  <2>8. /\ j.at \in {"legacyAccount", "unindex"} /\ i.at \in {"account", "legacyAccount"}
        /\ index' = index /\ secretsFile' = secretsFile /\ settledTo' = settledTo
    BY <2>1, <2>6
  <2>9. asSaid' = asSaid
    BY <2>1
  <2> QED BY <2>2, <2>5, <2>6, <2>7, <2>8, <2>9, AccountGoesOn
<1>2. CASE ~removed
  <2>1. EndsWith(c, "unsure") /\ UNCHANGED asSaid
    BY <1>2 DEF AfterAccounts
  <2>2. asSaid'
    BY <2>1 DEF StoreIInv, SecretStaysAsSettled
  <2>3. "unsure" \notin SecretValue
    BY StoreAssumption
  <2>4. \A id \in SecretId : settledTo[id] # "unsure" => id # i.id
    BY DEF StoreIInv, SettledIsUntouched, HasAsItIs
  <2>5. index' \in [SecretId -> {"keychain", "file", NoSecret}]
    BY DEF StoreIInv, StoreTypeOK
  <2> QED BY <2>1, <2>2, <2>3, <2>4, <2>5, EndsWithStep
<1> QED BY <1>1, <1>2

LEMMA DeleteAccountStep ==
  ASSUME StoreIInv, NEW c \in StoreCaller, DeleteAccount(c)
  PROVE  StoreIInv'
<1>1. PICK i : i = invocation[c]
  OBVIOUS
<1>2. i.at = "account" /\ UNCHANGED <<index, legacy, secretsFile>>
  BY <1>1 DEF DeleteAccount, At
<1>3. PICK works \in BOOLEAN :
        /\ keychain' = IF Deletable(keychain, i.id, works) THEN [keychain EXCEPT ![i.id] = NoSecret] ELSE keychain
        /\ IF DefaultHome
             THEN /\ Step(c, [i EXCEPT !.at = "legacyAccount", !.removed = Deletable(keychain, i.id, works)])
                  /\ Quiet /\ UNCHANGED settledTo
             ELSE AfterAccounts(c, Deletable(keychain, i.id, works))
  BY <1>1 DEF DeleteAccount
<1>4. PICK gone \in BOOLEAN : gone = Deletable(keychain, i.id, works)
  BY DEF Deletable
<1>5. c \in Running /\ i \in InvocationRecord
  BY <1>1, <1>2, InvocationFacts DEF StoreIInv
<1>6. i.id \in SecretId
  BY <1>5 DEF InvocationRecord
<1>7. /\ keychain' \in [SecretId -> SecretValue \cup {NoSecret}]
      /\ \A id \in SecretId : id # i.id => keychain'[id] = keychain[id]
  BY <1>3, <1>6 DEF StoreIInv, StoreTypeOK
<1>8. legacy' \in [SecretId -> SecretValue \cup {NoSecret}]
  BY <1>2 DEF StoreIInv, StoreTypeOK
<1>9. CASE DefaultHome
  <2>1. /\ invocation' = [invocation EXCEPT ![c] = [i EXCEPT !.at = "legacyAccount", !.removed = gone]]
        /\ UNCHANGED <<settledTo, asSaid>>
    BY <1>3, <1>4, <1>9 DEF Step, Quiet
  <2>2. StoreTypeOK'
    BY <1>2, <1>7, <1>8, <2>1 DEF StoreIInv, StoreTypeOK
  <2>3. PICK j : j = [i EXCEPT !.at = "legacyAccount", !.removed = gone]
    OBVIOUS
  <2>4. gone \in BOOLEAN
    BY <1>4 DEF Deletable
  <2>5. j \in InvocationRecord
    BY <1>5, <2>3, <2>4 DEF InvocationRecord
  <2>6. /\ j.at = "legacyAccount" /\ j.loaded = i.loaded /\ j.alone = i.alone /\ j.id = i.id
        /\ j.queue = i.queue /\ j.cmd = i.cmd
    BY <1>5, <2>3 DEF InvocationRecord
  <2>7. invocation' = [invocation EXCEPT ![c] = j]
    BY <2>1, <2>3
  <2>8. /\ j.at \in {"legacyAccount", "unindex"} /\ i.at \in {"account", "legacyAccount"}
        /\ index' = index /\ secretsFile' = secretsFile /\ settledTo' = settledTo
    BY <1>2, <2>1, <2>6
  <2>9. asSaid' = asSaid
    BY <2>1
  <2>10. \A id \in SecretId : id # i.id => keychain'[id] = keychain[id] /\ legacy'[id] = legacy[id]
    BY <1>2, <1>7
  <2> QED BY <1>1, <1>5, <2>2, <2>5, <2>6, <2>7, <2>8, <2>9, <2>10, AccountGoesOn
<1>10. CASE ~DefaultHome
  <2>1. AfterAccounts(c, gone)
    BY <1>3, <1>4, <1>10
  <2> QED BY <1>1, <1>2, <1>5, <1>7, <1>8, <2>1, AfterAccountsStep
<1> QED BY <1>9, <1>10

LEMMA DeleteLegacyAccountStep ==
  ASSUME StoreIInv, NEW c \in StoreCaller, DeleteLegacyAccount(c)
  PROVE  StoreIInv'
<1>1. PICK i : i = invocation[c]
  OBVIOUS
<1>2. i.at = "legacyAccount" /\ UNCHANGED <<index, keychain, secretsFile>>
  BY <1>1 DEF DeleteLegacyAccount, At
<1>3. PICK works \in BOOLEAN :
        /\ legacy' = IF Deletable(legacy, i.id, works) THEN [legacy EXCEPT ![i.id] = NoSecret] ELSE legacy
        /\ AfterAccounts(c, i.removed /\ Deletable(legacy, i.id, works))
  BY <1>1 DEF DeleteLegacyAccount
<1>4. c \in Running /\ i \in InvocationRecord
  BY <1>1, <1>2, InvocationFacts DEF StoreIInv
<1>5. i.id \in SecretId
  BY <1>4 DEF InvocationRecord
<1>6. PICK removed \in BOOLEAN : removed = (i.removed /\ Deletable(legacy, i.id, works))
  BY DEF Deletable
<1>7. /\ legacy' \in [SecretId -> SecretValue \cup {NoSecret}]
      /\ \A id \in SecretId : id # i.id => legacy'[id] = legacy[id]
  BY <1>3, <1>5 DEF StoreIInv, StoreTypeOK
<1>8. keychain' \in [SecretId -> SecretValue \cup {NoSecret}]
  BY <1>2 DEF StoreIInv, StoreTypeOK
<1>9. AfterAccounts(c, removed)
  BY <1>3, <1>6
<1> QED BY <1>1, <1>2, <1>4, <1>7, <1>8, <1>9, AfterAccountsStep

LEMMA DropIndexStep ==
  ASSUME StoreIInv, NEW c \in StoreCaller, DropIndex(c)
  PROVE  StoreIInv'
<1>1. PICK i : i = invocation[c]
  OBVIOUS
<1>2. /\ i.at = "unindex" /\ index' = [i.loaded EXCEPT ![i.id] = NoSecret]
      /\ EndsWith(c, "deleted") /\ UNCHANGED <<asSaid, keychain, legacy, secretsFile>>
  BY <1>1 DEF DropIndex, At
<1>3. c \in Running /\ i \in InvocationRecord
  BY <1>1, <1>2, InvocationFacts DEF StoreIInv
<1>4. i.id \in SecretId /\ i.loaded \in [SecretId -> {"keychain", "file", NoSecret}]
  BY <1>3 DEF InvocationRecord
<1>5. /\ index' \in [SecretId -> {"keychain", "file", NoSecret}] /\ index'[i.id] = NoSecret
      /\ \A id \in SecretId : id # i.id => index'[id] = i.loaded[id]
  BY <1>2, <1>4
<1>6. \A id \in SecretId : settledTo[id] # "unsure" => id # i.id /\ index'[id] = index[id]
  BY <1>1, <1>2, <1>3, <1>5 DEF StoreIInv, SettledIsUntouched, HasAsItIs
<1>7. FetchSecret(i.id)' = NoSecret
  BY <1>5, StoreAssumption DEF FetchSecret, SlotOf, Slots!Fetch
<1>8. asSaid' /\ "deleted" \notin SecretValue
  BY <1>2, StoreAssumption DEF StoreIInv, SecretStaysAsSettled
<1>9. /\ keychain' \in [SecretId -> SecretValue \cup {NoSecret}]
      /\ legacy' \in [SecretId -> SecretValue \cup {NoSecret}]
  BY <1>2 DEF StoreIInv, StoreTypeOK
<1> QED BY <1>1, <1>2, <1>3, <1>5, <1>6, <1>7, <1>8, <1>9, EndsWithStep

(* A killed store leaves a slot that a cut store may leave. *)
LEMMA KillInvocationStep ==
  ASSUME StoreIInv, NEW c \in StoreCaller, KillInvocation(c)
  PROVE  StoreIInv'
<1>1. PICK i : i = invocation[c]
  OBVIOUS
<1>2. /\ c \in Running /\ invocation' = [invocation EXCEPT ![c] = NoInvocation]
      /\ asSaid' = (asSaid /\ (i.cmd = "store" /\ i.alone =>
                      SlotOf(i.id) \in {i.before} \cup Slots!StoreCut(i.before, i.value, i.backend)))
      /\ UNCHANGED <<index, keychain, legacy, secretsFile, settledTo>>
  BY <1>1 DEF KillInvocation, Step
<1>3. i \in InvocationRecord /\ StoreRecord(i)
  BY <1>1, <1>2, InvocationFacts DEF StoreIInv
<1>4. asSaid'
  <2>1. ASSUME i.cmd = "store", i.alone
        PROVE  SlotOf(i.id) \in {i.before} \cup Slots!StoreCut(i.before, i.value, i.backend)
    <3>1. /\ i.value \in SecretValue /\ i.before \in Slots!Slot /\ i.backend \in {"keychain", "file"}
          /\ i.at \in {"load", "keychain", "readFile", "saveFile", "indexKeychain", "indexFile"}
          /\ i.at = "indexKeychain" => i.backend = "keychain"
      BY <1>3, <2>1 DEF InvocationRecord, StoreRecord
    <3>2. SlotSoFar(i, SlotOf(i.id))
      BY <1>1, <1>2, <2>1 DEF StoreIInv, LoneStoreIsOnItsWay
    <3> QED BY <3>1, <3>2, StoredForms DEF SlotSoFar
  <2> QED BY <1>2, <2>1 DEF StoreIInv, SecretStaysAsSettled
<1>5. StoreTypeOK' /\ SecretStaysAsSettled'
  <2>1. StoreTypeOK'
    BY <1>2 DEF StoreIInv, StoreTypeOK
  <2>2. SecretStaysAsSettled'
    BY <1>2, <1>4, SettledIdsHold
  <2> QED BY <2>1, <2>2
<1>6. invocation'[c] = NoInvocation /\ \A d \in StoreCaller : d # c => invocation'[d] = invocation[d]
  BY <1>2 DEF StoreIInv, InvocationsOK
<1>7. InvocationsOK'
  <2>1. invocation' = [d \in StoreCaller |-> invocation'[d]]
    BY <1>2 DEF StoreIInv, InvocationsOK
  <2>2. ASSUME NEW d \in StoreCaller, invocation'[d] # NoInvocation
        PROVE  invocation'[d] \in InvocationRecord /\ StoreRecord(invocation[d])'
    BY <1>6, <2>2 DEF StoreIInv, InvocationsOK, StoreRecord
  <2> QED BY <2>1, <2>2 DEF InvocationsOK
<1>8. ASSUME NEW d \in Running'
      PROVE  d \in Running /\ d # c /\ invocation'[d] = invocation[d] /\ ~invocation[d].alone
  <2>1. d \in Running /\ d # c /\ invocation'[d] = invocation[d]
    BY <1>6 DEF Running
  <2> QED BY <1>2, <2>1, OthersAreNotAlone DEF StoreIInv
<1>9. LoneInvocation' /\ LoneStoreIsOnItsWay'
  BY <1>8 DEF LoneInvocation, LoneStoreIsOnItsWay
<1>10. SettledIsUntouched'
  BY <1>2, <1>8 DEF StoreIInv, SettledIsUntouched, HasAsItIs
<1> QED BY <1>5, <1>7, <1>9, <1>10 DEF StoreIInv

LEMMA StoreInitInv == StoreInit => StoreIInv
<1> SUFFICES ASSUME StoreInit PROVE StoreIInv
  OBVIOUS
<1>1. PICK ids \in SUBSET SecretId, val \in SecretValue :
        /\ legacy = [id \in SecretId |-> IF id \in ids THEN val ELSE NoSecret]
        /\ index = [id \in SecretId |-> IF id \in ids THEN "keychain" ELSE NoSecret]
  BY DEF StoreInit
<1>2. StoreTypeOK
  BY <1>1 DEF StoreInit, StoreTypeOK, Nothing
<1>3. \A c \in StoreCaller : invocation[c] = NoInvocation
  BY DEF StoreInit
<1>4. Running = {}
  BY <1>3 DEF Running
<1>5. InvocationsOK
  <2>1. invocation = [c \in StoreCaller |-> invocation[c]]
    BY DEF StoreInit
  <2> QED BY <1>3, <2>1 DEF InvocationsOK
<1>6. LoneInvocation /\ SettledIsUntouched /\ LoneStoreIsOnItsWay
  BY <1>4 DEF LoneInvocation, SettledIsUntouched, LoneStoreIsOnItsWay
<1>7. SecretStaysAsSettled
  BY StoreAssumption DEF StoreInit, SecretStaysAsSettled
<1> QED BY <1>2, <1>5, <1>6, <1>7 DEF StoreIInv

LEMMA StoreNextInv == StoreIInv /\ [StoreNext]_store_vars => StoreIInv'
<1> SUFFICES ASSUME StoreIInv, [StoreNext]_store_vars PROVE StoreIInv'
  OBVIOUS
<1>1. CASE StoreNext
  BY <1>1, BeginStoreStep, BeginDeleteStep, BeginRevokeAllStep, LoadForStoreStep, SetPasswordStep,
     ReadSecretsFileStep, SaveSecretsFileStep, SaveIndexStep, LoadForDeleteStep, DeleteAccountStep,
     DeleteLegacyAccountStep, DropIndexStep, KillInvocationStep DEF StoreNext
<1>2. CASE UNCHANGED store_vars
  <2>1. UNCHANGED <<index, keychain, legacy, secretsFile, invocation, settledTo, asSaid>>
    BY <1>2 DEF store_vars
  <2>2. StoreTypeOK' /\ InvocationsOK'
    BY <2>1 DEF StoreIInv, StoreTypeOK, InvocationsOK, StoreRecord
  <2>3. LoneInvocation' /\ SettledIsUntouched'
    BY <2>1 DEF StoreIInv, LoneInvocation, SettledIsUntouched, Running, HasAsItIs
  <2>4. LoneStoreIsOnItsWay'
    BY <2>1 DEF StoreIInv, LoneStoreIsOnItsWay, Running, SlotSoFar, SlotOf, KeychainValue
  <2>5. SecretStaysAsSettled'
    <3>1. asSaid'
      BY <2>1 DEF StoreIInv, SecretStaysAsSettled
    <3> QED BY <2>1, <3>1, SettledIdsHold
  <2> QED BY <2>2, <2>3, <2>4, <2>5 DEF StoreIInv
<1> QED BY <1>1, <1>2

(* The inductive invariant holds in every reachable state. *)
LEMMA StoreInductive == StoreSpec => []StoreIInv
BY StoreInitInv, StoreNextInv, PTL DEF StoreSpec

(* Each file of the store keeps its type whatever invocations do to it. *)
THEOREM StoreTypeCorrect == StoreSpec => []StoreTypeOK
<1>1. StoreIInv => StoreTypeOK
  BY DEF StoreIInv
<1> QED BY <1>1, StoreInductive, PTL

(* What the last store or delete of a secret that ran alone said stays so, *)
(* however invocations on other secrets interleave, fail and are killed,   *)
(* and each such store leaves a slot that SecretBackends allows: for any   *)
(* secrets, values and invocations.                                        *)
THEOREM SecretsStaySettled == StoreSpec => []SecretStaysAsSettled
<1>1. StoreIInv => SecretStaysAsSettled
  BY DEF StoreIInv
<1> QED BY <1>1, StoreInductive, PTL

-----------------------------------------------------------------------------
(* The parts side by side.                                                 *)

LEMMA PartStays == Spec => [](part \in Parts)
<1>1. Init => part \in Parts
  BY PartAssumption DEF Init
<1>2. part \in Parts /\ [Next]_vars => (part \in Parts)'
  BY DEF Next, vars, AccessMoves, GuideMoves, SshMoves, SmokeMoves, MissionSmokeMoves, BrowserMoves,
         StoreMoves, OtherPartsStay
<1> QED BY <1>1, <1>2, PTL DEF Spec

(* A behaviour of the parts side by side is a behaviour of each of them:   *)
(* no step of one changes a file, process or remote place of another, so   *)
(* that every theorem about a part holds of the composition.               *)
THEOREM PartsKeepTheirSpecs ==
  Spec => /\ AccessSpec /\ GuideSpec /\ SshSpec /\ SmokeSpec
          /\ MissionSmokeSpec /\ BrowserSpec /\ StoreSpec
<1>1. Init => /\ AccessInit /\ GuideInit /\ SshInit /\ SmokeInit
              /\ MissionSmokeInit /\ BrowserInit /\ StoreInit
  BY DEF Init
<1>2. [Next]_vars => /\ [AccessNext]_access_vars /\ [GuideNext]_guide_vars /\ [SshNext]_ssh_vars
                     /\ [SmokeNext]_smoke_vars /\ [MissionSmokeNext]_mission_smoke_vars
                     /\ [BrowserNext]_browser_vars /\ [StoreNext]_store_vars
  <2> SUFFICES ASSUME [Next]_vars
               PROVE  /\ [AccessNext]_access_vars /\ [GuideNext]_guide_vars /\ [SshNext]_ssh_vars
                      /\ [SmokeNext]_smoke_vars /\ [MissionSmokeNext]_mission_smoke_vars
                      /\ [BrowserNext]_browser_vars /\ [StoreNext]_store_vars
    OBVIOUS
  <2>1. CASE AccessMoves
    BY <2>1 DEF AccessMoves, OtherPartsStay
  <2>2. CASE GuideMoves
    BY <2>2 DEF GuideMoves, OtherPartsStay
  <2>3. CASE SshMoves
    BY <2>3 DEF SshMoves, OtherPartsStay
  <2>4. CASE SmokeMoves
    BY <2>4 DEF SmokeMoves, OtherPartsStay
  <2>5. CASE MissionSmokeMoves
    BY <2>5 DEF MissionSmokeMoves, OtherPartsStay
  <2>6. CASE BrowserMoves
    BY <2>6 DEF BrowserMoves, OtherPartsStay
  <2>7. CASE StoreMoves
    BY <2>7 DEF StoreMoves, OtherPartsStay
  <2>8. CASE UNCHANGED vars
    BY <2>8 DEF vars
  <2> QED BY <2>1, <2>2, <2>3, <2>4, <2>5, <2>6, <2>7, <2>8 DEF Next
<1> QED BY <1>1, <1>2, PTL DEF Spec, AccessSpec, GuideSpec, SshSpec, SmokeSpec, MissionSmokeSpec,
                               BrowserSpec, StoreSpec

LEMMA SmokeSurroundings == SmokeSpec => [](image \in BOOLEAN /\ recorded \subseteq Smoke)
<1> DEFINE Surroundings == image \in BOOLEAN /\ recorded \subseteq Smoke
<1>1. SmokeInit => Surroundings
  BY DEF SmokeInit
<1>2. Surroundings /\ [SmokeNext]_smoke_vars => Surroundings'
  BY DEF SmokeNext, smoke_vars, elsewhere, BeginSmoke, Answer, KillSmoke, ConnectFor, ConnectionFails,
         MakeDirectory, ReceiveFile, CheckAndRun, ShellExits, CreateSandbox, ExecProbe, TerminateSandbox,
         ModalTimesOut, SandboxExpires, BuildImage, RunContainer, RunFails, ContainerExits, AddressMoves
<1> QED BY <1>1, <1>2, PTL DEF SmokeSpec

LEMMA TypesOfParts ==
  /\ SshIInv => SshTypeOK
  /\ AccessIInv => AccessTypeOK
  /\ GuideIInv => GuideTypeOK
  /\ BrowserIInv => BrowserTypeOK
  /\ MissionSmokeIInv => MissionSmokeTypeOK
  /\ SmokeIInv /\ machine \in Machine /\ image \in BOOLEAN /\ recorded \subseteq Smoke => SmokeTypeOK
<1>1. MissionSmokeIInv => MissionSmokeTypeOK
  BY DEF MissionSmokeIInv, MissionSmokeTypeOK, CheckRecord, MissionRecord
<1>2. SmokeIInv /\ machine \in Machine /\ image \in BOOLEAN /\ recorded \subseteq Smoke => SmokeTypeOK
  BY DEF SmokeIInv, SmokeTypeOK
<1> QED BY <1>1, <1>2 DEF SshIInv, AccessIInv, GuideIInv, BrowserIInv

(* Whichever part moves keeps the types of its files and records, for any  *)
(* invocations, profiles, hosts, keys, sessions, missions and secrets.     *)
THEOREM LocalStateTypeCorrect == Spec => []LocalTypeOK
<1>1. /\ part \in Parts /\ SshTypeOK /\ AccessTypeOK /\ GuideTypeOK /\ BrowserTypeOK
      /\ MissionSmokeTypeOK /\ SmokeTypeOK /\ StoreTypeOK
      => LocalTypeOK
  BY DEF Parts, LocalTypeOK
<1> QED BY <1>1, TypesOfParts, PartStays, PartsKeepTheirSpecs, SmokeSurroundings, SshInductive,
           AccessInductive, GuideInductive, BrowserInductive, MissionSmokeInductive, SmokeInductive,
           StoreTypeCorrect, PTL

(* What a smoke answers is so, of a sandbox and of the mission lane: for   *)
(* any smokes, machines, checks and missions.                              *)
THEOREM SmokesAnswerTruly == Spec => []SmokesAnswerTrue
<1>1. OkSmokeIsOver /\ PreflightIsTrue => SmokesAnswerTrue
  BY DEF SmokesAnswerTrue
<1> QED BY <1>1, OkSmokesAreOver, PreflightsAreTrue, PartsKeepTheirSpecs, PTL

=============================================================================
