-------------------------- MODULE BridgeGeneration --------------------------
(***************************************************************************)
(* What the rotation of the bridge key promises, whatever the storage, the *)
(* locks and the processes do: there is one current key, a consumer starts *)
(* with it, and it changes only while no consumer runs.                    *)
(***************************************************************************)
CONSTANTS
  Consumer,   \* the bridge consumers
  Key,        \* the keys there can be, "no key" among them
  Off         \* a consumer that does not run

VARIABLES
  key,        \* the current key
  user        \* the key each consumer runs with

Init ==
  /\ key \in Key
  /\ user \in [Consumer -> {key, Off}]

Join(k) ==
  /\ user[k] = Off
  /\ user' = [user EXCEPT ![k] = key]
  /\ UNCHANGED key

Leave(k) ==
  /\ user' = [user EXCEPT ![k] = Off]
  /\ UNCHANGED key

Change ==
  /\ \A k \in Consumer : user[k] = Off
  /\ key' \in Key
  /\ UNCHANGED user

Next == Change \/ \E k \in Consumer : Join(k) \/ Leave(k)

Spec == Init /\ [][Next]_<<key, user>>

=============================================================================
