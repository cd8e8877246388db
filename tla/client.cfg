\* Three requests and the code's three retries, with and without a Ctrl-C
\* listener: the queue, the reconnections, the callers that vanish, in every order.
SPECIFICATION FairSpec
CONSTANTS
    Requests = {r1, r2, r3}
    Retries = 3
INVARIANTS
    TypeOK
    AtMostOnce
    FailedMeansUnsent
    RetryBudget
    NoWaiterForgotten
    QueueBounded
PROPERTIES
    EveryTurnHelps
    Answered
    ServiceSpec
\* All requests answered and the queue empty: the task waits for more.
CHECK_DEADLOCK FALSE
