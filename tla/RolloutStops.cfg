CONSTANTS
  t1 = t1
  t2 = t2
  t3 = t3
  main = main
  Threads = {t1, t2}
  Main = main
  nMoves = 3
  CubeRollouts = {FALSE, TRUE}
  StopsOn = {"std", "jsd"}
  MinGames = 2
  TrialsAsked = {3}
  Prior = {1}
  MaxRollouts = 1
  Interrupts = FALSE
SPECIFICATION FairSpec
INVARIANTS TypeOK TrialsAreSettled StopsAfterMinimum StoppedTogether
PROPERTIES EarlyEndIsJustified RolloutEnds
