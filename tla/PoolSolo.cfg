SPECIFICATION FairSpec
CONSTANTS
  NumWorkers = 1
  Actors = {a, b}
  Main = Main
  Nobody = Nobody
  MaxActors = 2
  MainPosts = {"error", "poison", "forward", "unregister"}
  Budget = 2
  MainWaits = TRUE
INVARIANTS NoFault
PROPERTIES MailIsServed SickIsErased
