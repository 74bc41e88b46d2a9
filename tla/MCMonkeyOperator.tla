--------------------------- MODULE MCMonkeyOperator ----------------------------
(***************************************************************************)
(* Small instances of MonkeyOperator for TLC.                              *)
(***************************************************************************)
EXTENDS MonkeyOperator, TLC

AllEnv == EnvEvents

NoEnv == {}

================================================================================
