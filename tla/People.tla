--------------------------------- MODULE People ---------------------------------
(***************************************************************************)
(* Friends, groups, invitations and imports (service/friends_service.go,   *)
(* service/import_service.go, store/friends.go, store/groups.go), and the  *)
(* direct expenses that make friends (service/expense_service.go).         *)
(*                                                                         *)
(* A request is the list of the statements it still has to execute, each a *)
(* step and each on its own: none is in a transaction with another.  A     *)
(* statement is a tuple that starts with its name.  An expense is the list *)
(* of what it was saved as, version by version.                            *)
(***************************************************************************)
EXTENDS Integers, SequencesExt

CONSTANTS
    Users,        \* people, each with an address of their own
    Requests,     \* requests, each served once
    Groups,       \* ids of groups
    Rows,         \* ids of expenses
    Foreign,      \* what Splitwise knows as groups: id -> members, in its order
    ForeignPals,  \* and the friends it lists, in its order
    None

ASSUME PeopleAssumption ==
    /\ None \notin Users \union Requests \union Groups \union DOMAIN Foreign
    /\ IsFiniteSet(Users) /\ IsFiniteSet(DOMAIN Foreign)
    /\ \A s \in DOMAIN Foreign : Foreign[s] \in Seq(Users)
    /\ ForeignPals \in Seq(Users)

VARIABLES
    accounts,  \* users: id -> "none", "LIMITED" or "USER"
    hidden,    \* users.hidden_friend_ids
    friends,   \* friendships: pairs <<owner, friend>>
    groups,    \* groups
    members,   \* group_users: pairs <<group, user>>
    rows,      \* expenses, with their participants
    req,       \* what each request still has to do
    torn       \* history: friendships a failure or a removal has cut in two

peopleVars == <<accounts, hidden, friends, groups, members, rows, torn>>

Known(u) == accounts[u] # "none"
NoGroup == [exists |-> FALSE, by |-> None, creator |-> None, foreign |-> None,
            archived |-> FALSE, simplify |-> TRUE, rivals |-> {}]
Recent(x) == rows[x][Len(rows[x])]

-----------------------------------------------------------------------------
(* Requests.                                                               *)

\* form: the version on the page the request comes from; about: the rows its
\* notifications are about; how: "done", once ended, "failed", or "untold" if
\* it is reported as done although its notifications were not recorded.
Idle == [actor |-> None, todo |-> <<>>, form |-> 0, about |-> <<>>, how |-> "idle"]

Busy(r) == req[r].todo # <<>>
Doing(r, op) == Busy(r) /\ Head(req[r].todo)[1] = op
Arg(r, i) == Head(req[r].todo)[i]
Rest(r) == Tail(req[r].todo)
Ends(r, how) == req' = [req EXCEPT ![r] = [Idle EXCEPT !.how = how]]
Refused(r) == Ends(r, "failed")
Does(r, todo) ==
    IF todo # <<>> THEN req' = [req EXCEPT ![r].todo = todo]
    ELSE Ends(r, IF req[r].how = "busy" THEN "done" ELSE req[r].how)
Begins(r, a, todo) ==
    /\ req[r] = Idle
    /\ Known(a)
    /\ req' = [req EXCEPT ![r] = [Idle EXCEPT !.actor = a, !.todo = todo, !.how = "busy"]]
    /\ UNCHANGED peopleVars

\* Every item of s replaced by the statements that do(item) lists.
Each(s, do(_)) == FlattenSeq([i \in DOMAIN s |-> do(s[i])])

\* AddFriend is two inserts.  strict: a failure ends the request.
AddFriend(a, b, strict) == IF a = b THEN <<>> ELSE << <<"befriend", a, b, strict>> >>
AddGroupMember(g, u, strict) == <<"join", g, u, strict>>

AreFriends(a, b) == <<a, b>> \in friends
IsGroupMember(g, u) == <<g, u>> \in members
AreRelated(a, b) ==
    \/ AreFriends(a, b)
    \/ \E g \in Groups : IsGroupMember(g, a) /\ IsGroupMember(g, b)
    \/ \E x \in Rows : rows[x] # <<>> /\ {a, b} \subseteq Recent(x).parts

-----------------------------------------------------------------------------
(* The handlers.                                                           *)

AddFriendByEmail(r, a, b) ==
    /\ a # b
    /\ Begins(r, a, << <<"find", b>> >> \o AddFriend(a, b, TRUE))

\* Mutant: the friend keeps their half.
BothOwnOnly(a, b) == {<<a, b>>}

Both(a, b) == {<<a, b>>, <<b, a>>}

\* One statement: the request is over with it.
RemoveFriend(r, a, b) ==
    /\ req[r] = Idle /\ Known(a)
    /\ friends' = friends \ Both(a, b)
    /\ torn' = IF \E q \in Requests : Doing(q, "befriend back") /\ {Arg(q, 2), Arg(q, 3)} = {a, b}
               THEN torn \union {{a, b}} ELSE torn \ {{a, b}}
    /\ Ends(r, "done")
    /\ UNCHANGED <<accounts, hidden, groups, members, rows>>

\* The list is the one of the session's user, read before the handler runs.
ToggleHiddenFriend(r, a, b) ==
    Begins(r, a, << <<"hide", IF b \in hidden[a] THEN hidden[a] \ {b}
                              ELSE hidden[a] \union {b}>> >>)

CreateGroup(r, a) ==
    /\ accounts[a] = "USER"
    /\ Begins(r, a, << <<"insert group", None>> >>)

\* The flag written is the opposite of the one resolveGroupCaller has read.
GroupArchive(r, a, g) ==
    /\ IsGroupMember(g, a)
    /\ Begins(r, a, << <<"archive", g, ~groups[g].archived>> >>)

GroupSimplify(r, a, g) ==
    /\ IsGroupMember(g, a)
    /\ Begins(r, a, << <<"simplify", g, ~groups[g].simplify>> >>)

InviteToGroup(r, a, g, b) ==
    /\ IsGroupMember(g, a)
    /\ Begins(r, a, << <<"find", b>>, AddGroupMember(g, b, TRUE)>>)

AddFriendToGroup(r, a, g, b) ==
    /\ IsGroupMember(g, a)
    /\ Begins(r, a, << <<"are friends", b>>, AddGroupMember(g, b, TRUE)>>)

ImportFromSplitwise(r, a) ==
    LET Pal(u) == << <<"find", u>> >> \o AddFriend(a, u, TRUE)
        Group(s) == << <<"find group", s>> >>
    IN /\ accounts[a] = "USER"
       /\ Begins(r, a, Each(ForeignPals, Pal) \o Each(SetToSeq(DOMAIN Foreign), Group))

-----------------------------------------------------------------------------
(* The statements.                                                         *)

\* findOrCreateUser, importUser: the address is looked up by one statement and
\* the account made by another, which an invitation may be refused (Fails).
FindUser(r) ==
    /\ Doing(r, "find")
    /\ Does(r, IF Known(Arg(r, 2)) THEN Rest(r) ELSE << <<"create", Arg(r, 2)>> >> \o Rest(r))
    /\ UNCHANGED peopleVars

\* Addresses are UNIQUE.
CreateUser(r) ==
    /\ Doing(r, "create")
    /\ IF Known(Arg(r, 2))
       THEN Refused(r) /\ UNCHANGED accounts
       ELSE accounts' = [accounts EXCEPT ![Arg(r, 2)] = "LIMITED"] /\ Does(r, Rest(r))
    /\ UNCHANGED <<hidden, friends, groups, members, rows, torn>>

InsertFriend(r) ==
    /\ Doing(r, "befriend")
    /\ friends' = friends \union {<<Arg(r, 2), Arg(r, 3)>>}
    /\ Does(r, << <<"befriend back", Arg(r, 2), Arg(r, 3), Arg(r, 4)>> >> \o Rest(r))
    /\ UNCHANGED <<accounts, hidden, groups, members, rows, torn>>

InsertFriendBack(r) ==
    LET a == Arg(r, 2)
        b == Arg(r, 3)
    IN /\ Doing(r, "befriend back")
       /\ friends' = friends \union {<<b, a>>}
       /\ torn' = IF AreFriends(a, b) THEN torn \ {{a, b}} ELSE torn
       /\ Does(r, Rest(r))
       /\ UNCHANGED <<accounts, hidden, groups, members, rows>>

InsertMember(r) ==
    /\ Doing(r, "join")
    /\ members' = members \union {<<Arg(r, 2), Arg(r, 3)>>}
    /\ Does(r, Rest(r))
    /\ UNCHANGED <<accounts, hidden, friends, groups, rows, torn>>

SetHiddenFriends(r) ==
    /\ Doing(r, "hide")
    /\ hidden' = [hidden EXCEPT ![req[r].actor] = Arg(r, 2)]
    /\ Does(r, Rest(r))
    /\ UNCHANGED <<accounts, friends, groups, members, rows, torn>>

SetGroupFlag(r) ==
    /\ \/ Doing(r, "archive") /\ groups' = [groups EXCEPT ![Arg(r, 2)].archived = Arg(r, 3)]
       \/ Doing(r, "simplify") /\ groups' = [groups EXCEPT ![Arg(r, 2)].simplify = Arg(r, 3)]
    /\ Does(r, Rest(r))
    /\ UNCHANGED <<accounts, hidden, friends, members, rows, torn>>

CheckFriends(r) ==
    /\ Doing(r, "are friends")
    /\ IF AreFriends(req[r].actor, Arg(r, 2)) THEN Does(r, Rest(r)) ELSE Refused(r)
    /\ UNCHANGED peopleVars

\* What an import does with a group it has found or made.
Fill(a, g, s) ==
    LET Member(u) == << <<"find", u>>, AddGroupMember(g, u, FALSE)>>
    IN <<AddGroupMember(g, a, FALSE)>> \o Each(Foreign[s], Member)

\* Mutant: an import sees only the groups of its own user.
FoundOwn(s, a) == {g \in Groups : groups[g].foreign = s /\ groups[g].creator = a}

Found(s, a) == {g \in Groups : groups[g].foreign = s}

\* GetGroupBySplitwiseID takes the first row of those there are.
FindGroup(r) ==
    LET s == Arg(r, 2)
        a == req[r].actor
    IN /\ Doing(r, "find group")
       /\ \/ /\ Found(s, a) = {}
             /\ Does(r, << <<"insert group", s>> >> \o Rest(r))
          \/ \E g \in Found(s, a) : Does(r, Fill(a, g, s) \o Rest(r))
       /\ UNCHANGED peopleVars

\* Store.CreateGroup: the group, then its creator as its first member.
InsertGroup(r) ==
    LET s == Arg(r, 2)
        a == req[r].actor
        g == CHOOSE h \in Groups : ~groups[h].exists
    IN /\ Doing(r, "insert group")
       /\ \E h \in Groups : ~groups[h].exists
       /\ groups' = [groups EXCEPT ![g] =
            [NoGroup EXCEPT !.exists = TRUE, !.by = r, !.creator = a, !.foreign = s,
               !.rivals = {q \in Requests \ {r} : Doing(q, "insert group") /\ Arg(q, 2) = s}]]
       /\ Does(r, <<AddGroupMember(g, a, TRUE)>>
                  \o (IF s = None THEN <<>> ELSE Fill(a, g, s)) \o Rest(r))
       /\ UNCHANGED <<accounts, hidden, friends, members, rows, torn>>

\* A failing statement ends the request, unless the code ignores the error; then
\* the second insert of a friendship is not tried.  The server may stop as well.
Fails(r) ==
    /\ Busy(r)
    /\ \/ Refused(r)
       \/ /\ Head(req[r].todo)[1] \in {"befriend", "befriend back", "join"} /\ ~Arg(r, 4)
          /\ Does(r, Rest(r))
    /\ torn' = IF Doing(r, "befriend back") THEN torn \union {{Arg(r, 2), Arg(r, 3)}} ELSE torn
    /\ UNCHANGED <<accounts, hidden, friends, groups, members, rows>>

PeopleStep(r) ==
    \/ \E a, b \in Users : \/ AddFriendByEmail(r, a, b)
                           \/ RemoveFriend(r, a, b)
                           \/ ToggleHiddenFriend(r, a, b)
    \/ \E a \in Users : CreateGroup(r, a) \/ ImportFromSplitwise(r, a)
    \/ \E a, b \in Users, g \in Groups : InviteToGroup(r, a, g, b) \/ AddFriendToGroup(r, a, g, b)
    \/ \E a \in Users, g \in Groups : GroupArchive(r, a, g) \/ GroupSimplify(r, a, g)
    \/ FindUser(r) \/ CreateUser(r) \/ InsertFriend(r) \/ InsertFriendBack(r) \/ InsertMember(r)
    \/ SetHiddenFriends(r) \/ SetGroupFlag(r) \/ CheckFriends(r) \/ FindGroup(r) \/ InsertGroup(r)
    \/ Fails(r)

-----------------------------------------------------------------------------
(* Properties.                                                             *)

\* Whoever has someone as a friend is that person's friend, unless an AddFriend
\* is between its two inserts, was ended there, or a removal fell between them;
\* adding or removing the friend again mends it (friends.go:17).
FriendshipIsMutual ==
    \A a, b \in Users : AreFriends(a, b) /\ ~AreFriends(b, a) =>
        \/ {a, b} \in torn
        \/ \E r \in Requests : Doing(r, "befriend back") /\ <<Arg(r, 2), Arg(r, 3)>> = <<a, b>>

\* The creator of a group is a member of it unless the request that made it has
\* not come to that or failed there, which leaves a group nobody can reach
\* (groups.go:38); and there are two groups for one of Splitwise only if the
\* second import had looked for it before the first made it (import_service.go:90).
GroupsAreWhole ==
    \A g \in Groups : groups[g].by # None =>
        /\ IsGroupMember(g, groups[g].creator) \/ req[groups[g].by].how \in {"busy", "failed"}
        /\ \A h \in Groups \ {g} : groups[h].by # None /\ groups[g].foreign = groups[h].foreign =>
              \/ groups[g].foreign = None
              \/ groups[g].by \in groups[h].rivals \/ groups[h].by \in groups[g].rivals

=============================================================================
