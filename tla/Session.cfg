SPECIFICATION FairSpec
CONSTANTS
    c1 = c1  c2 = c2
    Task = {t1, t2}
    Main = Main
    Nobody = Nobody
    Custom = {c1, c2}
    Sites <- MCSites
    Interval = {0, 1}
    MaxTime = 1
    MaxEvents = 2
    NoList = NoList
INVARIANTS OneUser ListsUnderTheirNames
PROPERTIES ListsCome CloseReturns
CHECK_DEADLOCK FALSE
