SPECIFICATION FairSpec
CONSTANTS
  Main = Main
  Workers = {w1}
  Nobody = Nobody
  Boxes = {a1}
  ActorBoxes = {a1}
  NoBox = NoBox
  Addresses = {x}
  NoAddress = NoAddress
  Quitters = {}
CHECK_DEADLOCK FALSE
PROPERTY DyingIsDeleted
