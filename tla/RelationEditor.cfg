SPECIFICATION Spec
CONSTANTS
    a = a  b = b  t = t  u = u
    Dialog = {d1, d2}
    Alias = {a, b}
    Title = {t, u}
    FirstTitle = t
    Typed = Typed
    Empty = Empty
    New = New
    MaxOffset = 1
    OldRelations <- MCOldRelations
    MaxActs = 6
PROPERTIES RelationsSurvive EntriesArrive
CHECK_DEADLOCK FALSE
