\* One account that changes owner and a mint, a chain that forks once; scans.
SPECIFICATION Spec
CONSTANTS
    Accounts = {a}
    Programs = {tok}
    Owners = {o1, o2}
    Mints = {m}
    NativeProgram = tok
    NativeMint = native
    Methods = {"getProgramAccounts", "getTokenAccountsByOwner"}
    Commitments = {"processed", "confirmed"}
    MaxAge = 20
    MaxBlocks = 3
SYMMETRY Symmetry
INVARIANTS
    OneBlock
    ScanSound
    ScanComplete
CHECK_DEADLOCK FALSE
