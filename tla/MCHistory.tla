------------------------------- MODULE MCHistory -------------------------------
(***************************************************************************)
(* History with one tab and one collapse over three rows: two origins and  *)
(* their summary.  The tab edits, moves, deletes and repeats rows while    *)
(* the collapse is between its reads.                                      *)
(***************************************************************************)
EXTENDS History, TLC

CONSTANTS eur, trip, tab1, arch

Payment(from, to, amount, cur, group) ==
    [payer |-> from, cur |-> cur, group |-> group, people |-> {from, to},
     shares |-> [u \in Users |-> IF u = from THEN amount
                                 ELSE IF u = to THEN - amount ELSE 0]]

MCGroups == {trip}
MCMembers == [t \in {trip} |-> Users]
MCActor == tab1 :> 1
MCRelated == Users \X Users
MCDrafts == {Payment(1, 2, 1, eur, trip), Payment(2, 1, 1, eur, NoGroup)}
MCArchActor == arch :> 2

Interchangeable == Permutations(Ids)
===============================================================================
