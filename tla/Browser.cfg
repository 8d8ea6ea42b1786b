SPECIFICATION FairSpec
CONSTANTS
    spring = spring  summer = summer  any = any  few = few
    r1 = r1  r2 = r2  e1 = e1  e2 = e2
    Boxes = {spring, summer}
    Genres = {any, few}
    Result = {r1, r2}
    Results <- MCResults
    Entry = {e1, e2}
    Known <- MCKnown
    Untitled = e2
    MaxLoads = 2
    MaxChoices = 2
    MaxOthers = 1
    NoEntry = NoEntry
INVARIANTS AskedIsShown
PROPERTIES BrowsingEnds
CHECK_DEADLOCK FALSE
