SPECIFICATION Spec
CONSTANTS
  NumWorkers = 2
  Actors = {a}
  Main = Main
  Nobody = Nobody
  MaxActors = 1
  MainPosts = {"poison"}
  Budget = 1
  MainWaits = TRUE
INVARIANT NoFault
