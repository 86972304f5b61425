SPECIFICATION Spec
CONSTANTS
  NumWorkers = 2
  Actors = {a, b}
  Main = Main
  Nobody = Nobody
  MaxActors = 2
  MainPosts = {"setName", "suicide"}
  Budget = 2
  MainWaits = TRUE
INVARIANTS TypeOK OneWorkerPerActor WaitNeverBlocks NoDoubleLock OneUndertaker
PROPERTIES ImplementsActorSystem
