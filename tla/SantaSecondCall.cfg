SPECIFICATION Spec
CONSTANTS
    p1 = p1
    p2 = p2
    p3 = p3
    m1 = m1
    m2 = m2
    w1 = w1
    l1 = l1
    l2 = l2
    Presents = {p1, p2, p3}
    Makers = {m1}
    Wrappers = {w1}
    Loaders = {l1}
    Deliverer = d
    Main = main
    Nobody = Nobody
    Nothing = Nothing
    MadeCapacity = 3
    WrappedCapacity = 3
    LoadedCapacity = 3
    Batches <- AnyOrder
    Modes = {"concurrent"}
    MaxCalls = 2
INVARIANT AllDelivered
CHECK_DEADLOCK FALSE
