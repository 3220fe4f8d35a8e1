SPECIFICATION Spec
CONSTANTS
    Users = {1, 2, 3}
    eur = eur
    usd = usd
    trip = trip
    tab1 = tab1
    tab2 = tab2
    Groups <- MCGroups
    NoGroup = NoGroup
    Currencies = {eur, usd}
    Ids = {row1, row2}
    NoId = NoId
    NoBody = NoBody
    Sessions = {tab1, tab2}
    Actor <- MCActor
    Admins = {3}
    Members <- MCMembers
    Related <- MCRelated
    Drafts <- MCDrafts
    NoDraft = NoDraft
    MaxVersion = 3
SYMMETRY Interchangeable
PROPERTIES
    NoSilentOverwrite
CHECK_DEADLOCK FALSE
