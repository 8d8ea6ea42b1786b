SPECIFICATION FairSpec
CONSTANTS
    f1 = f1  f2 = f2  b1 = b1  b2 = b2  same = same  v1 = v1
    File = {f1, f2}
    Rule = {b1, v1}
    Kind <- MCKind
    Name <- MCName
    Matches <- MCMatches
    Stuck = {}
    Expired = {}
    Outcomes = {"done"}
    Unwritable = {}
    Feeds <- MCFeeds
    Interval = {0, 1}
    OldRules <- UserRules
    MaxNested = 1
    MaxActs = 1
    MaxEnds = 0
    Unusable = Unusable
    Blank = Blank
INVARIANTS FailsOnlyAsKnown MenuActsOnItsTorrent CountdownStopsOnlyAtZero
PROPERTIES RefreshComes
CHECK_DEADLOCK FALSE
