SPECIFICATION Spec
CONSTANTS
    e1 = e1  e2 = e2  t1 = t1  t2 = t2
    Entry = {e1, e2}
    Title = {t1, t2}
    Episode <- MCEpisode
    Names <- MCNames
    Found <- MCFound
    Alias <- MCAlias
    Offset <- MCOffset
    Episodes <- MCEpisodes
    Untitled = {e2}
    Nameless = {e2}
    Start <- MCPlanned
    Progress = {0}
    MaxWaits = 2
    MaxActs = 1
    MaxEdits = 0
    MaxFetches = 1
    NoTitle = NoTitle
    NoEntry = NoEntry
INVARIANTS PendingUpdateIsWhatPlays CorruptHasACause
CHECK_DEADLOCK FALSE
