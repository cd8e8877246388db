\* Two HTTP requests of up to two calls each, either backend, with and without a
\* Ctrl-C listener, signals at any time from before the start to the very end.  One
\* retry is enough for a value: what a first request connects serves the others.
SPECIFICATION FairSpec
CONSTANTS
    Handlers = {h1, h2}
    Calls = 2
    Retries = 1
INVARIANTS
    NobodyStranded
PROPERTIES
    OneCallOutlives
    ServiceSpec
    EveryTurnHelps
    ShutdownGoesOn
    HandlersEnd
    Ends
\* An exited process, or one that waits for the mock's thread.
CHECK_DEADLOCK FALSE
