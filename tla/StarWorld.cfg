CONSTANTS
    Cells <- MCCells
    Layouts <- MCLayouts
    NumOrks = 2
    StepCost = 2
    DiagonalCost = 3
    OrkMoveTime = 4
    MaxMail = 1
SPECIFICATION Spec
CHECK_DEADLOCK FALSE
INVARIANTS PoolsSorted LevelOwnsEntities ViewShowsWorld
PROPERTY FallenLieStill
