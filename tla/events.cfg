\* Two filters on one kind of event of two; every fault at any time, an upgrade.
SPECIFICATION FairSpec
CONSTANTS
    loaded = loaded
    other = other
    Filters = {f1, f2}
    Kinds = {loaded, other}
    Wants <- MCWants
    MaxBlocks = 2
    MaxEvents = 2
    MaxUpgrades = 1
    MaxFaults = 3
INVARIANTS
    InOrder
    NoSilentGap
    LossNeedsFault
PROPERTIES
    EveryStepHelps
    Recovers
    EveryBlockSettled
    FeedSpec
\* With no block to come and the stream followed to its end the task waits.
CHECK_DEADLOCK FALSE
