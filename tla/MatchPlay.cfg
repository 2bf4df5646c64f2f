SPECIFICATION Spec
CONSTANTS
    Chequers = 2
    Dice = {1}
    Lengths = {0, 2}
    nSessionLen = 2
    MAX_CUBE = 4
    MAXSCORE = 64
    Resignations = {1}
    SetValues = {2}
    SetOwners = {0}
    SetBoards <- OneAhead
    nBeavers = 1
    cAutoDoubles = 1
    fJacoby = TRUE
    fDisplay = TRUE
    Habits = {}
    MaxRecords = 5
    MaxSettings = 1
INVARIANTS TypeOK ReplayMatches ScoresFollow CrawfordRule DoubleIsAnswerable GamesAreProper
CHECK_DEADLOCK FALSE
