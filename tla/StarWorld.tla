----------------------------- MODULE StarWorld ------------------------------
(***************************************************************************)
(* The game of star.rg: the actor "StarWorld" (world.cpp), and the         *)
(* view (starrg.cpp) that reads the mailbox "StarView" on the main        *)
(* thread.  Cells are the inside of the map; its border is trees.          *)
(* Every cell is taken to be in sight, a unit's status is alive or dead    *)
(* (the others last for one drawing), and the log's lines are left out.    *)
(* One message of the world's is the steps from "idle" back to "idle";     *)
(* making a level is a step for the player and one for each ork.           *)
(***************************************************************************)
EXTENDS Entities, Integers, FiniteSets

CONSTANTS Cells,         \* the positions <<x, y>> within the border
          Layouts,       \* grounds a level may have: [Cells -> {"floor", "tree", "ladder"}]
          NumOrks,       \* 10 in the code
          StepCost, DiagonalCost,   \* SQ1 and SQ2
          OrkMoveTime,   \* orkUpdate.moveTime
          MaxMail        \* bound: the world waits when its view is so far behind

ASSUME StarWorldAssumption ==
    /\ NumOrks \in Nat \ {0}
    /\ Cells \subseteq Int \X Int
    /\ Layouts \subseteq [Cells -> {"floor", "tree", "ladder"}]
    /\ {StepCost, DiagonalCost, OrkMoveTime} \subseteq Nat /\ OrkMoveTime >= DiagonalCost

VARIABLES
    pc,        \* what the world does: "level", "orks", "idle", "tail", "thrown"
    cost,      \* totalTimePassed of the handler, 0 in the constructor
    layout,    \* tiles
    ecs,       \* the entity and component factories
    units,     \* this->units; the player is the first
    found,     \* what unitsOnMap.find returns for a cell, Nobody for end()
    mail,      \* the mailbox "StarView"
    shown      \* the meshes the view draws

vars == <<pc, cost, layout, ecs, units, found, mail, shown>>
world == <<pc, cost, layout, ecs, units, found>>

Nobody == -1
Kinds == {"pos", "status", "update", "ai", "userInput"}   \* sprite and melee go with status
Sides == ({-1, 0, 1} \X {-1, 0, 1}) \ {<<0, 0>>}
Go(c, side) == <<c[1] + side[1], c[2] + side[2]>>
CostOf(side) == IF 0 \in {side[1], side[2]} THEN StepCost ELSE DiagonalCost
Player == units[1]

PlayerParts(c) == [k \in Kinds \ {"ai"} |->
    CASE k = "pos" -> c [] k = "status" -> "alive" [] OTHER -> 0]
OrkParts(c) == [k \in Kinds \ {"userInput"} |->
    CASE k = "pos" -> c [] k = "status" -> "alive" [] OTHER -> 0]

----------------------------------------------------------------------------
(* Item of a dead mapping throws: Stale says where CanStand would.  *)
Stale(f, fnd, c) == fnd[c] # Nobody /\ ~Found(f.store["status"], fnd[c])

CanStand(f, fnd, ground, c) ==
    /\ c \in Cells
    /\ fnd[c] # Nobody => Item(f, "status", fnd[c]) = "dead"
    /\ ground[c] # "tree"

CanWalk(f, fnd, ground, c, side) ==
    LET to == Go(c, side) IN
    /\ CanStand(f, fnd, ground, to)
    /\ (side[1] # 0 /\ side[2] # 0) =>
          \/ CanStand(f, fnd, ground, <<c[1], to[2]>>)
          \/ CanStand(f, fnd, ground, <<to[1], c[2]>>)

(* Of several units in a cell the multimap's find returns any one.  *)
UnitsAt(f, c) == LET s == f.store["pos"]
                 IN  {s.ids[i] : i \in {j \in DOMAIN s.ids : s.data[j] = c}}
MapUnits(f) ==
    LET here == [c \in Cells |-> UnitsAt(f, c)]
        crowded == {c \in Cells : Cardinality(here[c]) > 1}
    IN  {[c \in Cells |-> IF here[c] = {} THEN Nobody
                          ELSE IF c \in crowded THEN p[c] ELSE CHOOSE u \in here[c] : TRUE] :
           p \in {q \in [crowded -> ToSet(f.store["pos"].ids)] : \A c \in crowded : q[c] \in here[c]}}

\* The map is not rebuilt after the units have moved.
MapUnitsKept(f) == {found}
UpdateMapUnits(f) == MapUnits(f)

(* Where an ork may be after one random move; every decision looks at the  *)
(* map of units as it was before the first of them moved.                  *)
Wander(f, u) ==
    LET c == Item(f, "pos", u)
        open == {side \in Sides : CanWalk(f, found, layout, c, side)}
    IN  {Go(c, side) : side \in open} \cup (IF open = Sides THEN {} ELSE {c})

Tick(f, u, time) == Item(f, "update", u) + time
SetUnit(f, u, time, c) ==
    LET spent == IF Tick(f, u, time) > OrkMoveTime THEN OrkMoveTime ELSE 0
    IN  SetItem(SetItem(f, "pos", u, c), "update", u, Tick(f, u, time) - spent)

MoveAll(f, orks, time, places) ==
    FoldSet(LAMBDA u, g : SetUnit(g, u, time, places[u]), f, orks)

(* The ways a set of orks can use their time, each on its own.  *)
Outcomes(f, orks, time) ==
    LET places == [u \in orks |-> IF Tick(f, u, time) > OrkMoveTime THEN Wander(f, u)
                                                                ELSE {Item(f, "pos", u)}]
    IN  {MoveAll(f, orks, time, d) : d \in {e \in [orks -> Cells] : \A u \in orks : e[u] \in places[u]}}

\* The walk does not ask whether its unit is dead.
ProcessAIDead(f, time) == Outcomes(f, ToSet(f.store["ai"].ids), time)
ProcessAI(f, time) ==
    Outcomes(f, {u \in ToSet(f.store["ai"].ids) : Item(f, "status", u) # "dead"}, time)

----------------------------------------------------------------------------
BuildTileMap(f, ground, pl) == [type |-> "map", tiles |-> ground, seenFrom |-> Item(f, "pos", pl)]
BuildUnits(f, us) ==
    [type |-> "unit", at |-> {<<u, Item(f, "pos", u), Item(f, "status", u)>> : u \in ToSet(us)}]

Init ==
    /\ pc = "level" /\ cost = 0
    /\ layout \in Layouts
    /\ ecs = NoEntities(Kinds) /\ units = <<>>
    /\ found = [c \in Cells |-> Nobody]
    /\ mail = <<>> /\ shown = [map |-> <<>>, unit |-> <<>>]

outside == <<mail, shown>>

(* GenerateMap up to its loop over the orks: new ground, a place for the   *)
(* player chosen against the old map of units, then the old entities go.   *)
BeginLevel ==
    /\ pc = "level"
    /\ \E ground \in Layouts, c \in Cells :
          LET cleared == Clear(ecs)
              id == NewID(cleared)
          IN  /\ CanStand(ecs, found, ground, c)
              /\ layout' = ground
              /\ ecs' = NewUnit(GetNew(cleared), id, PlayerParts(c))
              /\ units' = <<id>>
    /\ pc' = "orks"
    /\ UNCHANGED <<cost, found>> /\ UNCHANGED outside

(* One turn of that loop.  For the first ork the map of units is still the *)
(* one of the old level.                                                   *)
SpawnOrk ==
    /\ pc = "orks" /\ Len(units) <= NumOrks
    /\ \E c \in Cells :
          LET id == NewID(ecs)
              f == NewUnit(GetNew(ecs), id, OrkParts(c))
          IN  /\ ~Stale(ecs, found, c) /\ CanStand(ecs, found, layout, c)
              /\ ecs' = f
              /\ units' = Append(units, id)
              /\ found' \in UpdateMapUnits(f)
    /\ UNCHANGED <<pc, cost, layout>> /\ UNCHANGED outside

SpawnThrows ==
    /\ pc = "orks" /\ Len(units) <= NumOrks
    /\ \E c \in Cells : Stale(ecs, found, c)
    /\ pc' = "thrown"
    /\ UNCHANGED <<cost, layout, ecs, units, found, mail, shown>>

EndLevel ==
    /\ pc = "orks" /\ Len(units) = NumOrks + 1
    /\ mail' = mail \o <<BuildTileMap(ecs, layout, Player), BuildUnits(ecs, units)>>
    /\ pc' = IF cost = 0 THEN "idle" ELSE "tail"
    /\ UNCHANGED <<cost, layout, ecs, units, found, shown>>

(* OnProcessMessage of an action, inside Each.  *)
Walk(side) ==
    /\ pc = "idle" /\ Len(mail) < MaxMail
    /\ CanWalk(ecs, found, layout, Item(ecs, "pos", Player), side)
    /\ LET c == Go(Item(ecs, "pos", Player), side)
           f == SetItem(ecs, "pos", Player, c)
       IN  IF layout[c] = "ladder"
           THEN /\ ecs' = f /\ pc' = "level"
                /\ UNCHANGED <<found, mail>>
           ELSE /\ ecs' \in ProcessAI(f, 0)
                /\ found' \in UpdateMapUnits(ecs')
                /\ mail' = mail \o <<BuildTileMap(ecs', layout, Player), BuildUnits(ecs', units)>>
                /\ pc' = "tail"
    /\ cost' = CostOf(side)
    /\ UNCHANGED <<layout, units, shown>>

Fight(side) ==
    LET target == Go(Item(ecs, "pos", Player), side) IN
    /\ pc = "idle" /\ Len(mail) < MaxMail
    /\ ~CanWalk(ecs, found, layout, Item(ecs, "pos", Player), side)
    /\ \/ /\ target \in Cells /\ found[target] # Nobody
          /\ ecs' = SetItem(ecs, "status", found[target], "dead")
       \/ UNCHANGED ecs
    /\ pc' = "tail" /\ cost' = CostOf(side)
    /\ UNCHANGED <<layout, units, found, mail, shown>>

(* OnProcessMessage after Each.  *)
FinishAction ==
    /\ pc = "tail"
    /\ ecs' \in ProcessAI(ecs, cost)
    /\ found' \in UpdateMapUnits(ecs')
    /\ mail' = Append(mail, BuildUnits(ecs', units))
    /\ pc' = "idle" /\ cost' = 0
    /\ UNCHANGED <<layout, units, shown>>

----------------------------------------------------------------------------
(* starrg_t::Update, one message of the view's mailbox.  *)
Update ==
    /\ pc # "thrown" /\ mail # <<>>
    /\ shown' = IF Head(mail).type = "map" THEN [shown EXCEPT !.map = Head(mail)]
                                           ELSE [shown EXCEPT !.unit = Head(mail)]
    /\ mail' = Tail(mail)
    /\ UNCHANGED world

Act == \E side \in Sides : Walk(side) \/ Fight(side)
Next ==
    \/ BeginLevel \/ SpawnOrk \/ SpawnThrows \/ EndLevel
    \/ Act \/ FinishAction \/ Update
Spec == Init /\ [][Next]_vars

----------------------------------------------------------------------------
\* Every pool stays sorted by identifier, as the binary searches in NewComponent,
\* Item and OnEntityDelete need: assigning a component does not assign its
\* identifier, so one entity out of order would hand its data to another for good.
PoolsSorted ==
    \A k \in Kinds : \A i, j \in DOMAIN ecs.store[k].ids :
        i < j => ecs.store[k].ids[i] < ecs.store[k].ids[j]

\* At rest the pools hold exactly the units of this level: each has the components
\* its kind needs, and no component or valid entity of an earlier level is left.
LevelOwnsEntities ==
    pc \in {"idle", "tail"} =>
        /\ {id \in 0 .. Len(ecs.entity) : Valid(ecs, id)} = ToSet(units)
        /\ \A k \in Kinds :
              ToSet(ecs.store[k].ids) = CASE k = "ai" -> ToSet(Tail(units))
                                           [] k = "userInput" -> {Player}
                                           [] OTHER -> ToSet(units)

\* When the world is at rest and the view has read its mail, what is drawn is the
\* ground and the units as they are, and so is the map of units that walks and fights use.
ViewShowsWorld ==
    (pc = "idle" /\ mail = <<>>) =>
        /\ shown = [map |-> BuildTileMap(ecs, layout, Player), unit |-> BuildUnits(ecs, units)]
        /\ found \in MapUnits(ecs)

\* An ork that has fallen lies where it fell until the level ends.
FallenLieStill ==
    [][\A u \in ToSet(units) :
          (pc # "level" /\ pc' # "orks" /\ Item(ecs, "status", u) = "dead")
             => /\ Item(ecs', "status", u) = "dead"
                /\ Item(ecs', "pos", u) = Item(ecs, "pos", u)]_vars

\* Item never throws "Item not found!" out of the world's handler.
NoThrow == pc # "thrown"
=============================================================================
