----------------------------- MODULE MCGroupBooks ------------------------------
(***************************************************************************)
(* Three people and one expense that 1 paid for all of them.  Settlements  *)
(* make the chains in which a simplified debt links two people who had no  *)
(* balance with each other.                                                *)
(***************************************************************************)
EXTENDS GroupBooks

CONSTANT dinner

MCBills == {dinner}
MCBillDebts == [b \in MCBills |-> Moved(Moved(Square, 1, 2, 1), 1, 3, 1)]

Interchangeable == Permutations(Requests)
===============================================================================
