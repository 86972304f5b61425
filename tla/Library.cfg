SPECIFICATION LibrarySpec
CONSTANTS
  Wrappers = {x, y}
  x = x
  y = y
  Names = {1, 2, 3, 4}
  Files = {f1, f2}
  f1 = f1
  f2 = f2
  BufferSize = 2
  QueueBound = 4
  Painting = f1
  Documents <- PainterDocuments
  SaveBound = 2
  BreakIndex = 35
  ShapeBound = 5
  ObjLines <- ObjectLines
  MaterialLibs <- ObjectMaterials
  IndexRange = 36
  ObjBound = 6
  Letters = {"a", "b"}
  TextBound = 4
  SymbolLimit = 3
  UpdateBound = 2
  Stores = {x, y}
  Items <- StoreItems
  Tags = {0, 1}
  SizeLimit = 4
  StringLimit = 2
  ItemBound = 2
  ConfigKeys <- LineKeys
  SectionKeys <- PlainKeys
  ConfigValues <- LineValues
  LineBound = 4
  Places <- Line6
  StartPlaces <- TwoTroopers
  Fast = 2
  FrameBound = 1
  LateBound = 2
  ClickBound = 5
INVARIANTS
  HandlesAccounted
  ChangesAreReported
  PictureIsCurrent
  MeshesAreDrawable
  TextShowsItself
  StoreReadsBack
  ConfigReadsBack
  TroopersArrive
CHECK_DEADLOCK FALSE
