CONSTANTS
  t1 = t1
  t2 = t2
  t3 = t3
  main = main
  Threads = {t1, t2, t3}
  Main = main
  nMoves = 2
  CubeRollouts = {FALSE}
  StopsOn = {"none"}
  MinGames = 1
  TrialsAsked = {2, 3}
  Prior = {0, 2}
  MaxRollouts = 1
  Interrupts = TRUE
SPECIFICATION FairSpec
INVARIANTS NoTrialTwice GamesAsAsked
