CONSTANTS
    d1 = d1
    d2 = d2
    i1 = i1
    i2 = i2
    i3 = i3
    f1 = f1
    f2 = f2
    w1 = w1
    w2 = w2
    g1 = g1
    g2 = g2
    n1 = n1
    b1 = b1
    b2 = b2
    Datasets = {d1}
    Snapshots = {i1, i2}
    Files = {f1}
    Workers = {w1, w2}
    Slugs = {g1}
    Minutes = {1}
    Names = {n1}
    Blobs = {b1}
    Primary = Primary
    Nothing = Nothing
    RowVersioned = TRUE
    MaxRequests = 4
    MaxCrashes = 0
SPECIFICATION Spec
SYMMETRY Symmetry
INVARIANT LastResolves
CHECK_DEADLOCK FALSE
