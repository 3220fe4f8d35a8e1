SPECIFICATION MCSpec
CONSTANTS
    Requests = {r1, r2}
    UserIds = {m, a, n}
    Emails = {e1, e2, e3}
    AdminEmails = {e3}
    Passwords = {old, new}
    NoPassword = NoPassword
    Links = {l1, l2}
    Before = Before
    None = None
    Member = m
    Admin = a
    AdminsOwn = e2
    OldPassword = old
    FirstLink = l1
SYMMETRY Alike
CHECK_DEADLOCK FALSE
INVARIANTS ChangeEndsSessions LinkServesOnce PromotedAddressWasProved
