SPECIFICATION MCSpec
CONSTANTS
    Users = {ann, bob, cy}
    Requests = {r1, r2}
    Groups = {home, g1, g2}
    Rows = {x0, x1, x2}
    Foreign <- MCForeign
    ForeignPals <- MCForeignPals
    Endpoints = {browser}
    OptedIn = {bob}
    None = None
    Ann = ann
    Bob = bob
    Cy = cy
    Home = home
    FirstRow = x0
    Abroad = abroad
    Browser = browser
SYMMETRY Alike
CHECK_DEADLOCK FALSE
INVARIANTS FriendshipIsMutual GroupsAreWhole NobodyIsMissed NoticesAreTrue InputsDescribeRow
