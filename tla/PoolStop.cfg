SPECIFICATION FairSpec
CONSTANTS
  NumWorkers = 2
  Actors = {a, b}
  Main = Main
  Nobody = Nobody
  MaxActors = 1
  MainPosts = {"forward"}
  Budget = 1
  MainWaits = TRUE
INVARIANTS ListIsLive
PROPERTIES ShutdownCompletes
