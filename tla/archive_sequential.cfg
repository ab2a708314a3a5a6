SPECIFICATION ReadSpec
CONSTANTS
    d1 = d1
    d2 = d2
    i1 = i1
    i2 = i2
    f1 = f1
    w1 = w1
    g1 = g1
    g2 = g2
    n1 = n1
    b1 = b1
    u1 = u1
    Datasets = {d1, d2}
    Snapshots = {i1, i2}
    Files = {f1}
    Workers = {w1}
    Slugs = {g1, g2}
    Minutes = {1}
    Names = {n1}
    Blobs = {b1}
    Primary = Primary
    Nothing = Nothing
    RowVersioned = FALSE
    MaxRequests = 4
    MaxCrashes = 1
    Users = {u1}
    Weight = 2
    Balances = {1, 3}
    MaxReads = 1
INVARIANTS ReadTypeOK ServedAsPromised FailureMeansDeletion ChargedForBytesOnly
PROPERTY ImplementsSeries
SYMMETRY Symmetry
CHECK_DEADLOCK FALSE
