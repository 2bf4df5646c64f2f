SPECIFICATION FairSpec
CONSTANTS
    Chequers = 2
    Dice = {1}
    MAX_CUBE = 8
    fJacoby = FALSE
    Threads = {t1, t2}
    Matches <- SmallMatches
    Levels = 2
    PlayersAsked <- MCPlayersAsked
    Scopes = {"match", "game", "move"}
    Interrupts = TRUE
    fAutoSaveAnalysis = TRUE
    gtk_main_level = 1
    MaxCommands = 2
CHECK_DEADLOCK FALSE
INVARIANTS TypeOK AnalysedInContext AnswerKnowsDouble CountedAsShown CompleteIsSeen FreedAtRest
PROPERTIES AnalysisEnds
