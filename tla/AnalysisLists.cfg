SPECIFICATION Spec
CONSTANTS
    Chequers = 2
    Dice = {1}
    MAX_CUBE = 8
    fJacoby = FALSE
    Threads = {t1}
    Matches <- SmallMatches
    Levels = 2
    PlayersAsked <- MCPlayersAsked
    Scopes = {"match"}
    Interrupts = FALSE
    fAutoSaveAnalysis = TRUE
    gtk_main_level = 1
    MaxCommands = 2
CHECK_DEADLOCK FALSE
INVARIANTS NothingMissingIsRead
