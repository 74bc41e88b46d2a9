----------------------------- MODULE MCChainMining -----------------------------
(***************************************************************************)
(* Small instances of ChainMining for TLC.                                 *)
(***************************************************************************)
EXTENDS ChainMining, TLC

ClientSymmetry == Permutations(Clients)

AllEnv == EnvEvents

\* A payload is one transaction, or none.
OneTx == [p \in Payloads |-> IF p = Empty THEN 0 ELSE 1]

================================================================================
