SPECIFICATION Spec
CONSTANTS
    nBar = 6
    nHome = 3
    Rolls <- Nothing
    Positions <- Nothing
    Endings <- Nothing
    Matches <- Nothing
    Sessions <- MCMixedSessions
    nSides = 2
    nGenerations = 3
    QRLEN = 4
    Draws = {}
    Trials = {}
INVARIANT KeysTellApart
