SPECIFICATION OrdersSpec
CONSTANTS
    u1 = u1
    d1 = d1
    p1 = p1
    w1 = w1
    i1 = i1
    i2 = i2
    Users = {u1}
    Datasets = {d1}
    Plans = {p1}
    Workers = {w1}
    TrailingDays = {0, 2}
    FallbackDays = 1
    RowVersioned = FALSE
    NoMember = NoMember
    NoDataset = NoDataset
    NoExpiry = NoExpiry
    NoInvoice = NoInvoice
    Invoices = {i1, i2}
    MaxEvents = 4
    MaxCrashes = 1
    MaxClock = 2
CHECK_DEADLOCK FALSE
INVARIANTS OrdersTypeOK NewestAuditAgrees
PROPERTY ImplementsLifecycle
SYMMETRY Symmetry
