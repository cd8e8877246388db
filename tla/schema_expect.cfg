\* Two processes start at the same time and nothing fails.
SPECIFICATION Spec
CONSTANTS
    Instances = {i1, i2}
    MaxFaults = 0
INVARIANTS
    InitializeSucceeds
CHECK_DEADLOCK FALSE
