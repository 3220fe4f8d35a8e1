SPECIFICATION Spec
CONSTANTS
    Dumps = {1, 2}
    Files = {a}
    Tables <- MCTables
    NoFile = NoFile
    Keep = 1
    MaxTime = 2
    MaxCommits = 3
INVARIANTS
    FinalsAreWhole
    ArchiveIsOneMoment
    PassesAgree
    WrittenIsKept
CHECK_DEADLOCK FALSE
