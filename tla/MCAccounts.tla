------------------------------- MODULE MCAccounts -------------------------------
(* Accounts, starting from a member whose address may be one of ADMIN_EMAILS   *)
(* and may be verified, an administrator, both signed in, and one link for     *)
(* the member's address.                                                       *)
EXTENDS Accounts, TLC

CONSTANTS Member, Admin, AdminsOwn, OldPassword, FirstLink

Account(email, verified, role, password) ==
    [exists |-> TRUE, email |-> email, verified |-> verified, role |-> role,
     password |-> password, active |-> TRUE]

MCInit ==
    \E email \in Emails \ {AdminsOwn}, verified \in BOOLEAN, purpose \in Purposes :
      /\ users = [u \in UserIds |->
           CASE u = Member -> Account(email, verified, "USER", OldPassword)
             [] u = Admin -> Account(AdminsOwn, TRUE, "ADMIN", NoPassword)
             [] OTHER -> [Account(email, FALSE, "USER", NoPassword) EXCEPT !.exists = FALSE]]
      /\ links = [l \in Links |->
                    [state |-> IF l = FirstLink THEN "valid" ELSE "none",
                     email |-> email, purpose |-> purpose]]
      /\ sessions = {[by |-> Before, user |-> u, epoch |-> 0] : u \in {Member, Admin}}
      /\ Unasked

MCSpec == MCInit /\ [][Next]_accountVars

Alike == Permutations(Requests)
=============================================================================
