SPECIFICATION GroupSpec
CONSTANTS
    Users = {1, 2, 3}
    dinner = dinner
    Bills <- MCBills
    BillDebts <- MCBillDebts
    Amounts = {1}
    Requests = {r1, r2}
    None = None
    MaxPayments = 2
SYMMETRY Interchangeable
INVARIANTS
    NettingIsNeutral
    PairsAsShown
PROPERTIES
    SettleAllClears
    TidyOnlyClears
CHECK_DEADLOCK FALSE
