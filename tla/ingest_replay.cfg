CONSTANTS
    d1 = d1
    d2 = d2
    i1 = i1
    i2 = i2
    w1 = w1
    w2 = w2
    g1 = g1
    n1 = n1
    b1 = b1
    t1 = t1
    c1 = c1
    Datasets = {d1}
    Snapshots = {i1, i2}
    Files = {}
    Workers = {w1}
    Slugs = {g1}
    Minutes = {1}
    Names = {n1}
    Blobs = {b1}
    Primary = Primary
    Nothing = Nothing
    RowVersioned = TRUE
    MaxRequests = 2
    MaxCrashes = 0
    Terms = {}
    Curators = {}
    Pushes <- SignedPushes
    Tolerance = 1
    MaxTime = 3
SPECIFICATION IngestSpec
INVARIANT PushAcceptedOnce
SYMMETRY Symmetry
CHECK_DEADLOCK FALSE
