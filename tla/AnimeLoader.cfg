CONSTANTS
    Anime = {a1, a2}
    Task = {t1, t2}
    PoolThreads = 2
    MaxRequests = 2
    MaxLoops = 1
    NoAnime = NoAnime
    NoTask = NoTask
SPECIFICATION FairSpec
INVARIANTS
    StrandedOnlyByMissedPush
    CorruptOnlyByKnownRaces
    OneAtATime
    QuitWaitsForLoads
PROPERTIES
    ImplementsService
    QueueDrains
    LoopsReturn
    QuitEnds
CHECK_DEADLOCK FALSE
