\* Three processes on one database of either kind, up to two crashes or failed calls.
SPECIFICATION FairSpec
CONSTANTS
    Instances = {i1, i2, i3}
    MaxFaults = 2
INVARIANTS
    ReadyHasTable
    QuietMeansComplete
PROPERTIES
    SevenSteps
    AllReady
CHECK_DEADLOCK FALSE
