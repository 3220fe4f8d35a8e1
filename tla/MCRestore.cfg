SPECIFICATION JobsSpec
CONSTANTS
    w1 = w1
    w2 = w2
    a1 = a1
    a2 = a2
    bad = bad
    Cli = Cli
    Boot = Boot
    Before = Before
    NoDir = NoDir
    Procs <- MCProcs
    Web <- MCWeb
    Archives <- MCArchives
    Sound <- MCSound
    UploadsOf <- MCUploadsOf
    AutoDir <- MCAutoDir
    DumpDir <- MCDumpDir
    Keep = 1
    MaxWrites = 1
    MaxStarts = 2
    MaxFaults = 2
SYMMETRY Alike
CONSTRAINT Followed
INVARIANTS
    MixIsKnown
    OriginalsKept
    WayBack
    GateClosed
    PendingIsStaged
CHECK_DEADLOCK FALSE
