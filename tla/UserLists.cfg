SPECIFICATION Spec
CONSTANTS
    a1 = a1
    watching = watching
    completed = completed
    c1 = c1
    Id = {a1}
    Status = {watching, completed}
    Custom = {c1}
    Title <- Distinct
    Start <- Listed
    Watching = watching
    Completed = completed
    MaxObjects = 4
    MaxRefreshes = 2
    MaxChanges = 2
    MaxWaiting = 2
    NoList = NoList
    NoStatus = NoStatus
INVARIANTS OneAnimePerEntry UnmovedEntryIsInItsList DownloadShowsServer ListsPointToLiveAnime CorruptHasACause
CHECK_DEADLOCK FALSE
