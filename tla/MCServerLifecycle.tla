--------------------------- MODULE MCServerLifecycle ---------------------------
(***************************************************************************)
(* Small instances of ServerLifecycle for TLC.                             *)
(***************************************************************************)
EXTENDS ServerLifecycle, TLC

AllEnv == EnvEvents

NoEnv == {}

================================================================================
