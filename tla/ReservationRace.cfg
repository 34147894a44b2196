SPECIFICATION Spec
CONSTANTS
    Reservations = {v1}
    Requests = {q1, q2}
    Overlap = {v1}
INVARIANT ReleasedOnce
