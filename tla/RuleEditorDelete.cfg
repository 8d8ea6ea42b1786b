SPECIFICATION Spec
CONSTANTS
    a = a  b = b  Group = Group  HD = HD  SD = SD  Odd = Odd
    Dialog = {d1}
    Name = {a, b}
    Empty = Empty
    New = New
    Subgroup = {Group}
    Resolution = {HD, SD, Odd}
    Items = {HD, SD}
    Default <- MCDefault
    KeyOrder <- MCKeyOrder
    OldRules <- TwoRules
    MaxActs = 4
INVARIANTS DeletedRuleIsGone
CHECK_DEADLOCK FALSE
