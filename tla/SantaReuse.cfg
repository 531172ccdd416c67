SPECIFICATION Spec
CONSTANTS
    p1 = p1
    p2 = p2
    p3 = p3
    m1 = m1
    m2 = m2
    w1 = w1
    l1 = l1
    l2 = l2
    Presents = {p1, p2, p3}
    Makers = {m1, m2}
    Wrappers = {w1}
    Loaders = {l1, l2}
    Deliverer = d
    Main = main
    Nobody = Nobody
    Nothing = Nothing
    MadeCapacity = 2
    WrappedCapacity = 2
    LoadedCapacity = 2
    Batches <- Overlapping
    Modes = {"concurrent", "sequential"}
    MaxCalls = 2
INVARIANT StatesMatch
INVARIANT NoDuplicate
INVARIANT SleighExclusion
PROPERTY ImplementsLine
CHECK_DEADLOCK FALSE
SYMMETRY WorkerSymmetry
