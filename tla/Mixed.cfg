SPECIFICATION JobsSpec
CONSTANTS
    w1 = w1
    w2 = w2
    a1 = a1
    a2 = a2
    bad = bad
    Cli = Cli
    Boot = Boot
    Before = Before
    NoDir = NoDir
    Procs <- MCProcs
    Web <- MCWeb
    Archives <- MCArchives
    Sound <- MCSound
    UploadsOf <- MCUploadsOf
    AutoDir = {}
    DumpDir <- MCDumpDir
    Keep = 1
    MaxWrites = 1
    MaxStarts = 2
    MaxFaults = 1
SYMMETRY Alike
INVARIANTS
    RestoresWhatWasStaged
CHECK_DEADLOCK FALSE
