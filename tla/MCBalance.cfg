SPECIFICATION Spec
CONSTANTS
    Users = {1, 2, 3, 4}
    MaxOwed = 2
    MaxInt = 1048575
    NoBill = NoBill
    Refused = Refused
    Payers = {2, 4}
    Splitters = {1, 2, 3}
    Totals <- MCTotals
    Typed <- MCTyped
    Texts <- MCTexts
INVARIANTS
    SimplifyIsOverlap
    SuggestionsAreFair
    RewireOnce
    SplitIsExact
    UntouchedEditMovesNothing
    FormStaysValid
    ParsedIsTyped
PROPERTIES
    PayingDrawsNobodyIn
