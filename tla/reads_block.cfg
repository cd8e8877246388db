\* One account and the native mint, with an account or without; all methods but
\* getProgramAccounts.
SPECIFICATION Spec
CONSTANTS
    Accounts = {a}
    Programs = {tok}
    Owners = {o}
    Mints = {m}
    NativeProgram = tok
    NativeMint = m
    Methods = {"getAccountInfo", "getBalance", "getFeeForMessage", "getMultipleAccounts",
               "getTokenAccountsByOwner", "getLatestBlockhash", "getSignatureStatuses",
               "simulateTransaction"}
    Commitments = {"processed", "confirmed"}
    MaxAge = 20
    MaxBlocks = 3
INVARIANTS
    OneBlock
    SimulationWhole
CHECK_DEADLOCK FALSE
