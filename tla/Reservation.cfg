SPECIFICATION Spec
CONSTANTS
    Reservations = {v1, v2}
    Requests = {q1, q2, q3}
    Overlap = {v2}
INVARIANTS LedgerFollowsEvents OkIsAnnounced
PROPERTY ImplementsLedger
