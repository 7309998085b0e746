CONSTANTS
    a = a
    b = b
    c = c
    Names <- MCNames
    InitialName = InitialName
    NoPane = NoPane
    NoTarget = NoTarget
    MaxWin = 4
    MaxPane = 5
    MaxAdds = 4
    PrefixOf <- MCPrefixOf
SPECIFICATION RestartSpec
SYMMETRY MCSymmetry
INVARIANT NameTargetsUnique
