SPECIFICATION Spec
CONSTANTS
    Keys = {k1}
    Shapes <- MCShapes
    MaxWrites = 3
    Replicas = {r1, r2}
    Emitted = {1, 2}
    MaxAttempts = 2
    MaxFailures = 3
    NoReplica = NoReplica
    Clients = {c1, c2}
    MaxId = 3
    Times = {2}
    Named = {1}
    MaxEvents = 3
    NoRow = NoRow
    IdNames = {n1}
    IdCallers = {q1, q2}
    MaxAccounts = 2
    MaxPairs = 1
    MaxTokens = 1
    TokenLimit = 1
    LoginLimit = 1
    MaxFailedLogins = 1
    MaxOutages = 2
    NoAccount = NoAccount
INVARIANTS ConsumedAccounted RebuildRestores ReadsCurrent RelayHonest EventsExplainRows IdsNeverReused
PROPERTIES Converges RebuildsEnd Delivered Mirrored
CHECK_DEADLOCK FALSE
