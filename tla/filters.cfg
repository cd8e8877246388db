\* One account of each sort there is, rows of it and of what it was before, and
\* the lists of up to three filters that could matter (the code allows four).
SPECIFICATION Spec
CONSTANTS
    Accounts = {a}
    k1 = k1
    k2 = k2
    Keys <- MCKeys
    Zero = k1
    Beginning <- MCBeginning
    Lists <- MCLists
    MaxFilters = 3
INVARIANTS
    ShownPasses
    PassingShown
