------------------------------- MODULE MCNotices --------------------------------
(* People and Notices, starting from two friends who share a group and an      *)
(* expense, and from a third address that may have an account.                 *)
EXTENDS Notices

CONSTANTS Ann, Bob, Cy, Home, FirstRow, Abroad, Browser

MCForeign == [s \in {Abroad} |-> <<Cy>>]
MCForeignPals == <<Cy>>

MCInit ==
    /\ accounts = [u \in Users |-> IF u = Cy THEN "none" ELSE "USER"]
    /\ hidden = [u \in Users |-> {}]
    /\ friends = {<<Ann, Bob>>, <<Bob, Ann>>}
    /\ groups = [g \in Groups |-> IF g = Home THEN [NoGroup EXCEPT !.exists = TRUE, !.creator = Ann]
                                  ELSE NoGroup]
    /\ members = {<<Home, Ann>>, <<Home, Bob>>}
    /\ \E g \in {Home, None} :
         rows = [x \in Rows |-> IF x # FirstRow THEN <<>>
                                ELSE <<[by |-> None, actor |-> Ann, kind |-> "added",
                                        parts |-> {Ann, Bob}, group |-> g, pending |-> {}]>>]
    /\ inputs = [x \in Rows |-> IF x = FirstRow THEN 1 ELSE 0]
    /\ req = [r \in Requests |-> Idle]
    /\ torn = {}
    /\ notices = {} /\ recorded = {}
    /\ subscriptions = {<<Bob, Browser>>}
    /\ delivery = [r \in Requests |-> NoDelivery]
    /\ Init

MCSpec == MCInit /\ [][Next]_vars

Alike == Permutations(Requests)
=============================================================================
