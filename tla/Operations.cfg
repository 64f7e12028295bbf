SPECIFICATION OperationsSpec
CONSTANTS
    r1 = r1
    before = before
    after = after
    m1 = m1
    one = one
    other = other
    clerk1 = clerk1
    clerk2 = clerk2
    kg = kg
    piece = piece
    Media <- MCMedia
    SlowSagas = {}
    Reports <- MCReports
    Photos <- MCPhotos
    Results <- MCResults
    Manual <- MCManual
    Automatic = {}
    SlowPublish = FALSE
    Requests <- MCRequests
    MaxStatus = 2
    Workers <- MCWorkers
    Connections <- MCConnections
    NoConnection = NoConnection
    ReplayCap = 1
    RunIds <- MCRunIds
    Refused = {}
    MaxLosses = 1
    MaxDeploys = 1
    Procs <- MCProcs
    Quantities = {1, 2, 3}
    Prices = {1, 2}
    Scale = 1
    Units <- MCUnits
    MaxWork = 5
    Messages <- MCMessages
    EventIds <- MCEvents
    Alerts <- MCAlerts
    Handlers <- MCWorkers
    MaxPrompts = 2
    MaxNumber = 3
    MaxSwitches = 1
    N = 2
    Executors <- MCExecutors
    Specs <- MCSpecs
    Skills <- MCSkills
    SpecOf <- MCSpecOf
    Legacy = {1}
    Limit = 4
    Multiplier = 2
    Cooldown = 1
    MaxFaults = 1
    Months <- MCMonths
    Values = {0, 1, 2}
    Capacity = 1
    Editors <- MCWorkers
    NoValue = NoValue
SYMMETRY Symmetric
INVARIANTS
    OperationsTypeOK
    SentWasReceived
    DeadLetterIsEarned
    LockedStaysActive
    OneAtATime
    Balanced
    AskedOnce
    
PROPERTIES
    LifecycleSpec
    NeverDisplaced
    OnlyTheHolderSettles
    SettledIsFinal
CHECK_DEADLOCK FALSE
