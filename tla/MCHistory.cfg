SPECIFICATION HistorySpec
CONSTANTS
    Users = {1, 2}
    eur = eur
    trip = trip
    tab1 = tab1
    arch = arch
    Groups <- MCGroups
    NoGroup = NoGroup
    Currencies = {eur}
    Ids = {row1, row2, row3}
    NoId = NoId
    NoBody = NoBody
    Sessions = {tab1}
    Actor <- MCActor
    Admins = {}
    Members <- MCMembers
    Related <- MCRelated
    Drafts <- MCDrafts
    NoDraft = NoDraft
    MaxVersion = 2
    Archivers = {arch}
    ArchActor <- MCArchActor
SYMMETRY Interchangeable
INVARIANTS
    TemplatesStay
PROPERTIES
    ImplementsLedger
    UndisturbedCollapseKeepsNets
CHECK_DEADLOCK FALSE
