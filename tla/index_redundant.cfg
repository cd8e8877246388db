\* The owner filter of by-owner lookups, with no fault anywhere.
SPECIFICATION Spec
CONSTANTS
    Accounts = {a, x}
    Excluded = {x}
    Programs = {tok}
    Owners = {o1, o2}
    Mints = {m}
    Persistent = TRUE
    FaultsPossible = FALSE
    MaxUpdates = 3
INVARIANT FilterRedundant
\* Everything announced is dealt with and no transaction is left.
CHECK_DEADLOCK FALSE
