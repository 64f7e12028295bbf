SPECIFICATION AccessSpec
CONSTANTS
    k1 = k1
    k2 = k2
    auto = auto
    manual = manual
    r1 = r1
    r2 = r2
    o1 = o1
    o2 = o2
    g1 = g1
    g2 = g2
    taxi = taxi
    car1 = car1
    car2 = car2
    p1 = p1
    p2 = p2
    first = first
    second = second
    third = third
    elsewhere = elsewhere
    leaves = leaves
    in1 = in1
    in2 = in2
    out1 = out1
    Controllers <- MCControllers
    Commands <- MCCommands
    Owner <- MCOwner
    Decided <- MCDecided
    Persistent = TRUE
    LostLease = TRUE
    ReplyBound = 2
    LeaseBound = 2
    Reviews <- MCReviews
    Operators <- MCOperators
    Worker = Worker
    Nobody = Nobody
    OpenBound = 1
    ToggleBound = 1
    Events <- MCEvents
    Gates <- MCGates
    Plates <- MCPlates
    Handlers <- MCHandlers
    NoHandler = NoHandler
    GateOf <- MCGateOf
    PlateOf <- MCPlateOf
    TimeOf <- MCTimeOf
    Entering <- MCEntering
    Unclear <- MCUnclear
    Cars <- MCCars
    Spots = 1
    MaxEntries = 2
    Window = 1
    SwitchBound = 1
SYMMETRY Symmetric
INVARIANTS
    RelayOnce
    AckIsTrue
    ChainUnbroken
    EntriesPaid
    PassageOnce
PROPERTIES
    ReviewLifecycleSpec
CHECK_DEADLOCK FALSE
