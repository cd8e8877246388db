\* Whether a request is ever answered where Ctrl-C can be listened for.
SPECIFICATION FairSpec
CONSTANTS
    Requests = {r1, r2}
    Retries = 3
PROPERTY AnsweredInTime
CHECK_DEADLOCK FALSE
