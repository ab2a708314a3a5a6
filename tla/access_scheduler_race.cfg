SPECIFICATION Spec
CONSTANTS
    u1 = u1
    d1 = d1
    d2 = d2
    p1 = p1
    w1 = w1
    w2 = w2
    Users = {u1}
    Datasets = {d1, d2}
    Plans = {p1}
    Workers = {w1, w2}
    TrailingDays = {0}
    FallbackDays = 1
    RowVersioned = TRUE
    NoMember = NoMember
    NoDataset = NoDataset
    NoExpiry = NoExpiry
    MaxEvents = 2
    MaxCrashes = 0
    MaxClock = 1
CHECK_DEADLOCK FALSE
PROPERTY SchedulerRevokesOnlyExpired
