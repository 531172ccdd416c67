SPECIFICATION FairSpec
CONSTANTS
    p1 = p1
    p2 = p2
    p3 = p3
    m1 = m1
    m2 = m2
    w1 = w1
    l1 = l1
    l2 = l2
    Presents = {p1, p2, p3}
    Makers = {m1, m2}
    Wrappers = {w1}
    Loaders = {l1, l2}
    Deliverer = d
    Main = main
    Nobody = Nobody
    Nothing = Nothing
    MadeCapacity = 1
    WrappedCapacity = 1
    LoadedCapacity = 2
    Batches <- OneOfThree
    Modes = {"concurrent"}
    MaxCalls = 1
INVARIANT TypeOK
INVARIANT AllDelivered
PROPERTY Returns
CHECK_DEADLOCK FALSE
