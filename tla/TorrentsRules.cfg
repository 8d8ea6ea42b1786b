SPECIFICATION Spec
CONSTANTS
    f1 = f1  f2 = f2  b1 = b1  b2 = b2  same = same  v1 = v1
    File = {f1, f2}
    Rule = {b1, b2, same}
    Kind <- MCKind
    Name <- MCName
    Matches <- MCMatches
    Stuck = {same}
    Expired = {b2}
    Outcomes = {"done", "unopened", "unwritten"}
    Unwritable = {}
    Feeds <- MCFewFeeds
    Interval = {1}
    OldRules <- UpgradesAndRelapses
    MaxNested = 1
    MaxActs = 1
    MaxEnds = 1
    Unusable = Unusable
    Blank = Blank
INVARIANTS DownloadedOnce BasicRulesApply RulesSurvive
CHECK_DEADLOCK FALSE
