SPECIFICATION Spec
CONSTANTS
    nBar = 6
    nHome = 3
    Rolls <- MCRolls
    Positions <- MCPositions
    Endings <- MCEndings
    Matches <- MCMatches
    Sessions <- MCSessions
    nSides = 2
    nGenerations = 3
    QRLEN = 4
    Draws <- MCDraws
    Trials = {4, 8, 16, 32}
INVARIANTS MovesAreLegal IdentifiersAreRead PositionsAreNumbered KeysTellApart DiceAreBalanced
