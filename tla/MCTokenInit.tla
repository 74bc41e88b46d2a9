------------------------------ MODULE MCTokenInit ------------------------------
(***************************************************************************)
(* Small instances of TokenInit for TLC.                                   *)
(***************************************************************************)
EXTENDS TokenInit

AllKinds == {"fungible", "unique"}

UniqueOnly == {"unique"}

TwoSenders == <<"alice", "bob">>

AliceOnly == {"alice"}

AllEnv == EnvEvents

\* Nothing fails; processes end and others follow.
CleanStops == {"stop"}

NoOne == {}

================================================================================
