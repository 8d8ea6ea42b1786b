SPECIFICATION Spec
CONSTANTS
    a = a  b = b  Group = Group  HD = HD  SD = SD  Odd = Odd
    Dialog = {d1, d2}
    Name = {a, b}
    Empty = Empty
    New = New
    Subgroup = {Group}
    Resolution = {HD, SD, Odd}
    Items = {HD, SD}
    Default <- MCDefault
    KeyOrder <- MCKeyOrder
    OldRules <- MCOldRules
    MaxActs = 6
PROPERTIES FailsOnlyAsKnown EditsArrive UntouchedRulesSurvive
SYMMETRY Symmetry
CHECK_DEADLOCK FALSE
