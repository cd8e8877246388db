\* Two accounts that change owner, a table that a restart empties, every fault.
SPECIFICATION FairSpec
CONSTANTS
    Accounts = {a1, a2}
    Excluded = {}
    Programs = {tok}
    Owners = {o1, o2}
    Mints = {m}
    Persistent = FALSE
    FaultsPossible = TRUE
    MaxUpdates = 2
INVARIANTS
    TypeOK
    StaleRowsBounded
    CompleteUnlessMissed
PROPERTIES
    TableSpec
    EveryStepHelps
    CaughtUp
\* Everything announced is dealt with and no transaction is left.
CHECK_DEADLOCK FALSE
