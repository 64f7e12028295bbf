SPECIFICATION LivenessSpec
CONSTANTS
    r1 = r1
    after = after
    m1 = m1
    a1 = a1
    Worker = Worker
    o1 = o1
    Nobody = Nobody
    Media <- MCMedia
    SlowSagas = {}
    Reports <- MCReports
    Photos <- MCPhotos
    Results <- MCMedia
    Manual <- MCManual
    Automatic <- MCAutomatic
    SlowPublish = FALSE
PROPERTIES
    SagaHeals
    ReviewsEnd
    NoTail
CHECK_DEADLOCK FALSE
