-------------------------- MODULE MCBridgeRotation --------------------------
(* Model-checking instances of BridgeRotation.                             *)
EXTENDS BridgeRotation, TLC

Symmetric == Permutations(Cli) \cup Permutations(Value)

=============================================================================
