------------------------------- MODULE MCEditing -------------------------------
(***************************************************************************)
(* Editing on two rows with two tabs: user 1's, and that of user 3, an     *)
(* admin outside the group that 1 and 2 share.  One draft is money in the  *)
(* group, two are direct money between 2 and 3 in two currencies: they     *)
(* make a conversion, a move between them and the group needs the          *)
(* acknowledgment, and it gives or takes user 1's part in a row.           *)
(***************************************************************************)
EXTENDS Editing, TLC

CONSTANTS eur, usd, trip, tab1, tab2

Payment(from, to, amount, cur, group) ==
    [payer |-> from, cur |-> cur, group |-> group, people |-> {from, to},
     shares |-> [u \in Users |-> IF u = from THEN amount
                                 ELSE IF u = to THEN - amount ELSE 0]]

MCGroups == {trip}
MCMembers == [t \in {trip} |-> {1, 2}]
MCActor == tab1 :> 1 @@ tab2 :> 3
MCRelated == Users \X Users
MCDrafts == {Payment(1, 2, 1, eur, trip), Payment(2, 3, 1, eur, NoGroup),
             Payment(3, 2, 1, usd, NoGroup)}

Interchangeable == Permutations(Ids)
===============================================================================
