----------------------------- MODULE MCTxSelection -----------------------------
(***************************************************************************)
(* A small instance of TxSelection for TLC: one operator as configured by  *)
(* the command line, whose blocks always have room; one that may ask for   *)
(* too much gas; one whose minimum is above its maximum.                   *)
(***************************************************************************)
EXTENDS TxSelection

CONSTANTS modest, greedy, confused

AllOperators == {modest, greedy, confused}

TxsPerBlock == [o \in AllOperators |-> 2]
MinTxs == [o \in AllOperators |-> CASE o = modest -> 1 [] o = greedy -> 0 [] o = confused -> 2]
MaxTxs == [o \in AllOperators |-> CASE o = modest -> 1 [] o = greedy -> 0 [] o = confused -> 1]

================================================================================
