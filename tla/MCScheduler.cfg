SPECIFICATION SchedulerSpec
CONSTANTS
    Replicas = {node1, node2}
    Nobody = Nobody
    Recs = {1}
    MaxWindows = 2
    MaxFaults = 1
INVARIANTS
    OnceUnlessInterrupted
    OneDumpAtATime
PROPERTIES
    DueIsHandled
