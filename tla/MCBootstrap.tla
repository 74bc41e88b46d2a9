------------------------------ MODULE MCBootstrap ------------------------------
(***************************************************************************)
(* Small instances of Bootstrap for TLC.                                   *)
(***************************************************************************)
EXTENDS Bootstrap, TLC

GenesisSymmetry == Permutations(Geneses)

BothModes == {"memory", "disk"}

AllEnv == EnvEvents

================================================================================
