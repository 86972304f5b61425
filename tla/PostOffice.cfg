\* The system really stops when a thread waits for a mutex it holds.
SPECIFICATION Spec
CONSTANTS
  Main = Main
  Workers = {w1, w2}
  Nobody = Nobody
  Boxes = {m1, m2, a1, a2}
  ActorBoxes = {a1, a2}
  NoBox = NoBox
  Addresses = {x, y}
  NoAddress = NoAddress
  Quitters = {a1}
SYMMETRY Symmetry
CHECK_DEADLOCK FALSE
INVARIANTS OwnedIsReachable ExpiredIsDying HooksLive EventPostLocksNothing
