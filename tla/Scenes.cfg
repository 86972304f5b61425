\* The program ends, or fails.
SPECIFICATION FairSpec
CONSTANTS
  Lines <- MCLines
  FirstScenes = {"splash", "demo"}
  KeyBudget = 3
  ChangeBudget = 1
  SplashAhead = 1
CHECK_DEADLOCK FALSE
INVARIANTS SceneOwnsActors RemovalFindsMonitor MenuShowsSelection
PROPERTIES ExitIsCarriedOut
