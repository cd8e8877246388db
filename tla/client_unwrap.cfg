\* The assertion res_tx.send(response).unwrap().
SPECIFICATION Spec
CONSTANTS
    Requests = {r1, r2}
    Retries = 3
SYMMETRY Symmetry
INVARIANT ReplyWanted
CHECK_DEADLOCK FALSE
