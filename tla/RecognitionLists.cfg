SPECIFICATION FairSpec
CONSTANTS
    e1 = e1  e2 = e2  t1 = t1  t2 = t2
    Entry = {e1}
    Title = {t1}
    Episode <- MCEpisode
    Names <- MCNames
    Found <- MCFound
    Alias <- MCAlias
    Offset <- MCOffset
    Episodes <- MCEpisodes
    Untitled = {}
    Nameless = {}
    Start <- MCUnwatched
    Progress = {0, 2}
    MaxWaits = 1
    MaxActs = 1
    MaxEdits = 1
    MaxFetches = 2
    NoTitle = NoTitle
    NoEntry = NoEntry
INVARIANTS PendingUpdateRaises ListAgreesWithServer
PROPERTIES DownloadOnlyRepairs KnownTitleIsCounted
CHECK_DEADLOCK FALSE
