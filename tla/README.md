# badbaby: TLA+ models of the engine and its games

badbaby is a C++11 game engine (OpenGL 3.3, GLFW, BASS) with the games and tools built on
it. "Игровая логика исполняется асинхронно потоками «работниками»" (`plan.md`): game logic
is actors run by worker threads. The models begin with that core, where threads meet, go on
to the two games whose scenes and worlds are actors, and end with the parts of the library
and the small programs that keep state over several calls.

Run a check with `tlc -config PoolServe.cfg MCWorkerPool.tla`, a proof with
`tlapm WorkerPoolProofs.tla`. `PROJECT.json` lists components, runs, properties, a mutant of
the code's model for each property, the lines of code each definition stands for, and the
hazards the properties are aimed at.

## 1. Inventory

| part | state | operations | partners | hard because of | module |
|---|---|---|---|---|---|
| `rwMutex_t` (common.hpp) | flag, counter, two condition variables | LockRead/Write, UnlockRead/Write | worker pool | sleeping threads, writer preference, a counter that is reset | `RwLock`, `RwMutex` |
| worker pool, actors (worker.cpp, actor.cpp) | list of actors, mutex, mailbox and `sick` of each; mutex, condition variable and `stop` of each worker | worker loop, Register, FindFirstByName, PostMessage, Unregister, destructor | every game | locks given back in the middle of a walk, erasing while iterating, wake-ups | `ActorSystem`, `WorkerPool` |
| mailboxes, post office (mailbox.cpp) | address to weak pointer; a queue each | New, Delete, Post, Put, Wait, Poll | actors, scenes, window | last pointer dropped under a lock, reuse of names | `PostOffice`, `WorkerPool` |
| window context (context.cpp) | callback lists, mutex, cursor flags | Update, Register and Unregister of callbacks, OnKey, OnMouseButton | actors, mailboxes | callbacks under the mutex, dead addressees | `PostOffice` |
| messages, roles | none | result codes, typed payloads | actors | - | `WorkerPool` |
| sub3000: main loop and scenes | top scene, its actor, boxes and watch; the menu's model and view | frame, keys, Prepare, Cleanup, menu | pool, office, file monitor, map generator | asynchronous ends of actors whose names come back, waits inside a frame, numbers on their way | `Scenes` |
| sub3000: arena | ship, helm, radar, screen, status panel, sounds | Step, keys, one message a frame | main loop | time in slices, messages read late, counters past zero | `Arena` |
| star.rg: entities (ecs.hpp, ecs.cpp) | flags, free list, sorted pools | GetNew, Release, NewComponent, Item, Clear | the world | identifiers that do not move with their data, binary search | `Entities` |
| star.rg: world and view | level, units, map of units, mail | GenerateMap, walks, fights, orks, view | worker, main thread | copies that go stale, a level made in many steps | `StarWorld` |
| file monitor (monfs.cpp) | watches, the kernel's queue | Watch, RemoveWatch, Check | scenes, painter | early returns, events of other kinds | `FileMonitor` |
| OpenGL wrappers, sound, monitor's descriptor | numbers of library objects | make, move, swap, destroy | everything drawn or heard | ownership after a move, makers that throw half way, frees that fail | `Handles` |
| shapes (meshDesc, indexBuffer, vertexBuffer, lines, circle, numbers) | buffers and indices | Define, Append, Save, Load | games, tools | offsets, the break index, loaded and made buffers | `Meshes` |
| text that changes (text.cpp) | strings, buffers, number of indices drawn | UpdateText | games | lengths that shrink and grow | `DynamicText` |
| script, painter | script, monitor, mailbox, drawing | ExecuteScript, UpdateScene, main | an editor | a file read while it is written | `Painter` |
| binary store (binstore.cpp) | file, header, locks, stdio's buffer | Create, Read, Write, Flush, Reset, moves | another process | processes that die, files shared | `Binstore` |
| configuration (config.cpp, .lex) | values, context of sections | Load, Save | all | nested sections as one string, errors half way | `Config` |
| obj2mesh | vectors of an object file, a mesh | lines, end of file | - | buffers of unequal length, 16-bit counter | `Obj2mesh` |
| tac.war | scene, mailbox, troopers | clicks, actions, turns | window | time counted twice, one mailbox for two scenes | `TacWar` |
| map generator (mapgen) | height map, distance map | generate on request, answer by mail | arena | a long job against a moving world | its protocol in `Scenes` |
| text and numbers (utf8, deci), images, threads, logging, noise and effects, orthofight, cqc | none that outlives a call, or drawing | - | - | - | - |

What makes each part correct is stated by the properties of its module, section 3.

## 2. Modules

* `RwLock` - what a user of `rwMutex_t` may rely on: readers, one claimant, a writer.
* `RwMutex` - the class itself. The inner `std::mutex` is held over each action, so a
  critical section is one step and a thread gives way only by parking on a condition
  variable (`gate1`, `gate2` are the sets of sleepers). `notify_one` picks any sleeper,
  sleepers wake for no reason (`SpuriousWake`), the counter wraps (`Decremented`), and
  `UnlockWrite` notifies after it has released the mutex (`NotifyAll` is a step of its own).
* `ActorSystem` - what `core/actor` promises: one queue per actor, one message at a time in
  the order of posting, none after the poison, and the actor's end.
* `WorkerPool` - the scheduler on top of `RwLock` (`INSTANCE`): the worker's loop as a
  program counter, every lock operation a step of its own, the walks of `DoProcessActors`
  ("visit") and of `HasActorsInQueue` inside `notify.wait`'s predicate ("scan"), the batch
  of `ProcessMessagesCore`, and a thread `Main` that registers, posts, looks up names and
  destroys the pool. `life` says whether an actor's memory is allocated; a step of a worker
  that would use a freed actor does not happen, the model stops instead (`NoFault`, `Halted`).
* `PostOffice` - mailboxes as shared and weak pointers, the office's guard, the context's
  mutex and the callback lists. A destructor is two steps (callbacks, then the entry) of
  the thread that dropped the last pointer, which may hold a mutex already.
* `Scenes` - sub3000's main loop by the places where it takes mail, updates the top scene,
  prepares and cleans up. Workers are one step per message (`Work`), with a name kept until
  the burial: this is `ActorSystem`'s promise, used and not modelled again. A frame that waits
  for the space's answer is a place of `pc`. "crashed" is the end by a null mailbox. `owed` are the
  actors whose mail the workers cannot miss: `Notify` says when a post of Main's gets that far.
* `Arena` - one frame of the arena as question, step and answer, and the keys between them.
  It stands for what `Scenes` leaves out of the actor "space". Two variables are history, for the
  properties alone: `fresh` (no point since a key of the radar) and `still` (steps since the last
  point). How far the count of points falls below zero is bounded in `Next`, not in `Step`.
* `Entities` - star.rg's factories as one record and operators on it; identifiers and data
  are two sequences because an assignment of components copies the second only.
* `StarWorld` - extends `Entities`: the making of a level unit by unit, the player's message
  and the orks' turns as steps from "idle" to "idle", `found` for what a multimap of positions
  answers, and the view that takes one message in a frame.
* `Handles` - all classes that own a library's object, by what differs among them (`class`);
  the library gives freed numbers out again.
* `FileMonitor` - inotify's queue and `Check`; `Painter` extends it and adds an editor that
  writes the file in pieces, the reading in three steps, and the interpreter of scripts.
* `Meshes` - descriptions put together from shapes; the item of a vertex is the shape it was
  made for, so that an index which draws another's vertex shows. `Obj2mesh` extends it.
* `DynamicText`, `Binstore`, `Config`, `TacWar` - one part each, as in the table.
* `MCWorkerPool`, `MCPostOffice`, `MCScenes`, `MCStarWorld`, `MCArena`, `MCLibrary` - for TLC.
  `MCLibrary` holds the parts that share no state: `part` chooses the one that moves.
* `RwMutexProofs`, `WorkerPoolProofs`, `PostOfficeProofs`, `ScenesProofs`, `ArenaProofs`,
  `StarWorldProofs`, `LibraryProofs` - the proofs; `Induction` - what they need about numbers,
  finite sets and folds.

Correspondence in `WorkerPool`: `pc` labels are the places between two lock operations or
two accesses to shared state; `at` is `actorIt`; `left` is `msgAlreadyInQueue`; `bell` is the
position in the loop over `infos`; owning `info.guard` is being in none of the labels
`Unguarded`. A message stands for its effect: "setName" and "poison" are the two that
`actor_t` handles, "work", "error", "suicide", "forward" and "unregister" are what a role
may do with one. A user role that throws is left out here; `StarThrow` shows one that does.
A handler's `Register` is left out; Main's takes the same steps. `actor_t::ProcessMessages`
and `actor_t::PostMessage` have no caller.

How they compose: `RwMutex` implements `RwLock`, which `WorkerPool` instantiates for
`actorsGuard`; `WorkerPool` implements `ActorSystem`, on which `Scenes` and `StarWorld` rest;
`PostOffice` gives the mailboxes that `Scenes`, `Arena`, `StarWorld`, `Painter` and `TacWar`
use as queues; `FileMonitor` is used by `Painter`, and by `Scenes` as `dirty`; `Entities` by
`StarWorld`; `Meshes` by `Obj2mesh`.

## 3. Runs

| run | instance | states | shows |
|---|---|---|---|
| `RwMutex` | 3 threads, 2 readers at most, fair | 476 | exclusion, an exact counter, no groundless sleep, claimed writers get in, sleepers wake, refinement of `RwLock` |
| `PoolServe` | 2 workers, 2 actors, 2 messages of setName/suicide | 375 408 | one worker inside an actor, no blocking `Wait`, no double lock, one undertaker, refinement of `ActorSystem` |
| `PoolSolo` | 1 worker, 2 actors, error/poison/forward/unregister, fair | 50 104 | no use of a freed actor, mail is served unless it came between test and sleep, sick actors are erased |
| `PoolStop` | 2 workers, a list of one place, forward, fair | 18 275 | the list is exact and bounded, shutdown ends |
| `PostOffice` | 2 workers and Main, 4 mailboxes (2 of actors, one poisons itself), 2 names | 78 081 | mailboxes in use are reachable, stale names are being freed, input callbacks are live, posting an event locks nothing of the context's |
| `Scenes` | a menu of three lines, splash or demo first, 3 keys, 1 change of the watched file, fair | 1 239 487 | a scene owns its actor and boxes and no other lives on, watches given back exist, the menu acts on the line it shows, who chooses to leave gets out unless a step is slept over |
| `StarWorld` | 2 x 2 cells, with and without a tree, 2 orks, 1 message ahead of the view | 162 102 | pools stay sorted, nothing of an old level is left, the view shows the world, the fallen lie still |
| `Arena` | frames of 0 to 2 slices, 3 points each, a list of one point, a circle of 4 angles, 3 keys | 2 473 150 | a running engine is heard, the radar gets into its mode's range and turns on, the status panel's mail stays short |
| `Library` | see below | 785 002 | wrappers own what lives, changes are reported, the painter's picture is current, meshes draw their own vertices, texts show themselves and long ones their beginning, stores and configurations read back what was written, troopers arrive |
| `PoolFreed` | 2 workers, 1 actor, a poison | | *violated*: an actor is freed under a worker |
| `PostOfficeNotDeleted` | 1 worker, fair | | *violated*: `Post` destroys a mailbox under its own guard |
| `StarThrow` | as `StarWorld` | | *violated*: an ork is placed where the map of units still names one of the last level, and `Item` throws out of the worker |

Bounds.

* Three threads with a limit of two readers meet every branch of `rwMutex_t`: a reader turned
  away by the limit, a writer queued behind a writer, a reader behind both.
* Two workers and two actors give every pair of overlapping walks; a third adds no new pair,
  and the safety results are proved for any number. Two messages from Main are enough for a
  second message behind a poison or a rename; handlers that post (forward) run in `PoolSolo`
  and, with two workers, in `PoolStop`. `MainWaits` keeps the
  destructor from running before the workers have started; what happens without it is below.
* Two names and four mailboxes let a name be reused while its old destructor runs.
* Three keys walk from the menu into a scene and out of it, or into two scenes; one change of
  the file can happen before, during and after the arena. `SplashAhead` lets the splash
  screen's own message be late by one frame.
* On four cells every step, diagonal and fight of two orks and the player happens, with a
  unit in the way or a tree at a corner; levels are made again and again, so that entities are
  reused. Step costs 2, 3 and 4 are in the order of 1000, 1414 and 2000.
* Two slices in a frame and three points in a slice; steps without a point bring their count
  down to -8 (`DriftBound`), so far that the two slices of a frame, six points, make none either.
  Two points are hit in all (`PointBudget`) and the list holds one (`RadarLimit`): the limit is
  met in the middle of a step, by hits and by misses. A circle of four angles has the two borders
  of the sector in front and its own.
* `Library`: two wrappers and four numbers allow a move onto oneself and a number given
  again; two files with two events in a buffer, one out of four events left behind a bad one;
  four scripts of the painter with and without mistakes, two savings; five shapes of all kinds
  in one mesh with a break index of 35, which a mesh of five shapes can reach; object files of six lines,
  among them two faces that together wrap the counter of 36 values; texts of up to
  four symbols where the indices suffice for three;
  two stores on one file that takes four bytes, with a value and strings that are empty, hold a
  NUL, come back as they are, or are longer than the limit of two (`StringLimit`); four lines of configuration with a key of two
  parts in nested sections; two troopers, seven places and five clicks in turns of up to two
  units of time.

Fairness. Weak fairness of a thread's next step: the platform schedules every thread that
can run. `WF` for a lock is justified by `RwMutex` (a claimant enters, a sleeper wakes). The
destructor's wait for `info.guard` has strong fairness, since a spuriously waking worker
takes and gives the mutex for ever. Spurious wake-ups and the calls Main may start have none.
Handlers are assumed to return. In `Scenes` the main loop is weakly fair. Its workers are owed
less: a post that finds all workers asleep wakes them, and they do not sleep again before what
mail there was is done and the sick are buried; a post that finds one awake may be lost on it
(`worker.cpp:118` tests under `info.guard`, which `worker.cpp:241` does not take to notify).
`Notify` lets either happen at each of Main's posts; only the service of actors in `owed`, and
burials, are weakly fair. For one worker ("actor.workers" = 1) this follows from `MailIsServed`
and `SickIsErased`; for more, it takes a worker that now and then finds an actor free (see below).
Keys, changes of files and the map generator have no fairness.

Deadlock is checked in `RwMutex`, the pool's runs and `Arena`. `PostOffice`, `Scenes` and
`Library` say `CHECK_DEADLOCK FALSE`: a thread that waits for its own mutex stops there, and
programs and budgets end. So does `StarWorld`, where a world that threw is gone.

Not claimed: that every post is served. With one worker a post of Main's can fall between test
and sleep. Then nobody looks at it before the next post: `MailIsServed` says so (`WillLook`), and
if it was the step for which `screen_t.cpp:401-406` waits, Main posts no more and the program
hangs. `ExitIsCarriedOut` names this as the one way not to get out (`Overslept`), which the run
does reach. With two workers both can try the same `inProcess` in lockstep, each finding it taken
by the other, and go to sleep.

## 4. Proofs

All are safety proofs for any values of the constants that satisfy the named assumptions:
`RwMutexAssumption` (finitely many threads, a limit of at least one reader),
`WorkerPoolAssumption` (at least one worker, distinct names for things),
`PostOfficeAssumption` (Main is no worker, quitters are actors), `ScenesAssumption` (a menu that
is not empty), `SliceNumbers` and `RadarSector` (slices and their points are numbers, and the
sector in front lies inside the circle), `StarWorldAssumption` (cells with costs),
`NamesAssumption` (zero is no object), `FileMonitorAssumption` (the buffer holds some number of
events), `TacWarAssumption`, `DynamicTextAssumption`, `BinstoreAssumption`, `ConfigAssumption`
(the key of a section has no dot; what one with a dot does is in section 5) and
`PainterAssumption` (what kinds of things a document holds), `MeshesAssumption` (the break index is
beyond the vertices of any one shape, which it is by far), `ObjAssumption` (an index type whose
last value is the break, and corners that are pairs of numbers).

* `RwMutexProofs`. Inductive invariant: types, the counter is the number of readers, the flag
  is up exactly while there is a claimant, there is one claimant at most, and once it is inside
  the counter is zero. Exclusion alone is not inductive: it is the counter that lets a writer
  in. Theorems `TypeCorrect`, `CounterCorrect`, `Exclusion`, and `Refinement` (every step maps
  to a step of `RwLock` or changes nothing it sees). `SleepersAreWoken` adds, for each kind of
  sleeper, who will wake it: a claimant, the readers inside, or a notification that is still to
  come. It has the hypothesis `FewUsers`, one thread more than the limit of readers at most: with
  more, two readers can be turned away by the limit and one leaving wakes one of them only.
* `WorkerPoolProofs`. Inductive invariant: types; per worker, where it holds the read lock,
  which `inProcess` it owns, that the actor it is in is healthy and has the counted messages in
  its box, and that what it erases is sick; and the one undertaker. The count survives because
  only the owner pops, and an erased box is that of a sick actor, in which nobody is popping.
  Theorems `TypeCorrect`, `ActorExclusion`, `NoBlockingWait`, `SingleLock`, `SingleUndertaker`.
  With one worker the iterator a walk stands on is in the list, and what it uses is alive: theorem
  `SoloNoFault` has `NumWorkers = 1` as a hypothesis, and `PoolFreed` shows that two are too many.
  The refinement adds that the list is exactly the living actors, that the dead and
  unborn have no mail, and what the message in a worker's hands can be. Theorems `ListCorrect`
  and `Refinement`: `WorkerPool` implements `ActorSystem`.
* `PostOfficeProofs`. Inductive invariant (`IInv`): what a thread pins or destroys follows from
  where it is; an entry stands exactly while its mailbox is owned, pinned or being destroyed;
  one thread at most runs a box's destructor, and only after the owner let go; what each
  callback leads to; and, while `Update` holds the context's mutex, that what Main pins stays
  owned or is a quitter. Reachability alone is not inductive: that an old destructor erases
  nothing but its own entry needs the entries of dying boxes too. Theorems `OfficeReachable`,
  `NamesComeBack`, `HooksAreLive`, `EventsLockNothing`.
* `ScenesProofs`. Three invariants. The main loop's mail asks for no number's removal twice;
  monitors' numbers are below the counter; what is to be removed exists; only the arena on top
  has the box that numbers come to; and a number the arena holds, or that is on its way to it, is
  that of a monitor nobody has asked to remove: `RemovalsFindMonitors`. Of the menu: the
  line its model has selected is the last number on its way to the view, or the one that is shown:
  `MenuShows`. Of the actors: an actor is owned while it lives and has not been told to die, and at
  each place of the loop exactly the top scene's actor is owned and its boxes are open:
  `ScenesOwnActors`.
* `ArenaProofs`. Two messages are not inductive; one for the map, sent once, and one for a step
  whose answer is not used yet are: `StatusMailStaysShort`. `RadarIsNeverFarOff` needs the
  direction with the angle, and counts keys: only F4 and F3 in turn, without a point between
  them, let the radar go one step further out; and `still` is tied to the count of points, which
  falls from -1 by one in each step without a point. `RunningEngineIsHeard` is about the sounds that are told but not yet played: the
  last of them decides, or what plays if none of them stops it.
* `StarWorldProofs` (`Ordered`). That the pools are sorted is not inductive. Identifiers are
  handed out in order because `Clear` gives all of them back in order and the next level makes as
  many units; so the units are the numbers from zero on and each pool is a run of numbers, which
  is said for each place of `pc`, half made and half cleared. The binary search is a function of
  its interval and finds what is there. Theorems `PoolsStaySorted`, `LevelsOwnTheirEntities`,
  `TheFallenLieStill` and, with what the messages ahead of the view will make of it,
  `TheViewShowsTheWorld`.
* `LibraryProofs`, one section for each part:
  * `HandlesSafe`: `HandlesAccounted` with its types is inductive by itself, but for every
    class: numbers are given again, so that ownership by one wrapper is what keeps a destructor
    from ending another's object.
  * `ChangesReported`: inductive with types; what is unseen has an event in the queue. The
    lemma is that adding an event, or not adding a repeated one, keeps each waiting file's.
  * `TroopersComeToTheirPlaces`: with types; a turn's way is `LateBound * Fast` at most, and a
    walk ends in the turn in which its time passes the whole way.
  * `TextsShowThemselves`: the fold that makes glyphs makes one for each letter that is drawn, of
    a text that was cut off no more than are counted,
    and what a shorter text leaves in the buffers lies behind the indices.
  * `StoresReadBack` (`BinstoreInv`): the bytes of the items written, in the file and in stdio's
    buffer together, and each reader at the beginning of an item, with what Read makes of the items
    before it. It follows from where the items
    of a flattened sequence begin, and from a file that only grows while it is open.
  * `ConfigurationsReadBack` (`ConfigInv`): the context is the open sections' keys, and reading
    the lines of a saved dictionary enters each key once, in its order.
  * `PictureComesUpToDate` (`PainterInv`): while nothing waits to be read or written, what is
    between two places of `main` was read from the whole file. It rests on a simulation: executing
    the tokens of a document takes the machine where its commands take it, token by token
    (`CommandRun`, `ScriptRun`), and the camera, which a failing script leaves moved, is in no
    picture (`CameraIsNotDrawn`).
  * `MeshesStayDrawable`. A mesh that draws each strip with one shape's vertices is not inductive
    (`DrawnRight`): what is appended must begin behind the vertices that are there. Either the
    greatest index is that of the last vertex (`Open`), or an index could not be written once and
    the vertices from there on are one shape's (`Full`): what of a later shape still has an index
    is drawn among those. Loading is a fold over the arrays
    (`SavedMeshIsLoaded`). Of an object file: what is read is as many corners, numbered, and the
    counter is the index of the next one as long as the indices suffice (`Consistent`).

Induction over data. The library's induction theorems take an operator as a parameter, which the
provers cannot instantiate, so `Induction` proves, from well-founded finite sets, what the other
modules need: a set of numbers that holds zero and successors is all of them (`AllNumbers`), a left
fold over a sequence exists and is a chain of steps (`LeftFoldExists`, `LeftFoldSteps`). Each use
names its own set of numbers, so that no operator is passed.

Only model-checked: everything with fairness (`ClaimantEnters`, `SleeperWakes`,
`MailIsServed`, `SickIsErased`, `ShutdownCompletes`, `ExitIsCarriedOut`), which is beyond
the prover. Every safety property of a passing run is stated by a theorem.

## 5. What was seen and has no run

Behaviours that contradict a comment or a name, found while modelling, beside the three runs
that are violated. Those marked * are in the models, with the properties stated around them.

Actors and mailboxes: mail can be put behind a poison, and the actor's destructor asserts that
there is none (`actor.cpp:121`); `PrepareInfo` of a late thread clears the `stop` the destructor
has set (`worker.cpp:23`), `PoolStop` therefore waits for the start; an actor that poisoned
itself leaves its input callback (`actor.cpp:65`) *; `FindFirstByName` reads a name that a worker
is assigning (`worker.cpp:209`, `actor.cpp:59`); workers told to stop leave their messages
although the comment says "all messages processed" (`worker.cpp:112`); `New` refuses the name of
an actor that is unregistered but not yet erased (`mailbox.cpp:60`) *.

sub3000: an arena left before the number of its watch was read leaves the monitor behind *; an
actor started again under its old name races its burial, and the program fails if it is early *;
Enter in a menu whose text list was cleared reads behind it *; the "height map done" message is
lost when it comes before the box "arenaStatus" exists, and the map is then never drawn, or after
the space died; a step posted between a worker's test and its sleep stops the program (section 3) *;
`newPointCount` goes one below zero in each frame *, so that beyond 300 frames a second the radar
stands still * (after 2^31 such frames it would overflow, which is not modelled); F4 and F3 between
two points leave the angle one step past the circle *; an engine stopped while its output is below the threshold and its mode was another
sounds for ever *; `UpdateUnits` stops erasing half way; `mapGen.cpp:91` throws for a map without
extent; a `world.bbw` torn by a crash reads as good and is made again at every start.

star.rg: orks may share a cell *, the first may be placed on the player *; `Each` works on
copies, so that a counter of steps is lost; an escape before the view's first frame is lost.

Library: a text of more symbols than 16-bit indices reach is cut off "in release" (`text.cpp:55`),
spaces counting too, but the count of what is drawn keeps its length, so that behind its beginning
blanks or earlier glyphs are drawn *; a string with a NUL is read up to it (`binstore.cpp:585`) *;
an empty description appended to an empty one would read null indices (`meshDesc.cpp:35`), which no
caller does and `Meshes` leaves out; a line of a configuration that is white space alone is an
error though an empty one is not (`config.cpp:155`) *; an error of `OnChange` loses the events behind it *; a shader that compiles with a remark
throws and leaks, an incomplete framebuffer leaks *; a sample that cannot be stopped is not freed *;
static texts bind one buffer too few; `MakeTextMultiline` drops its last line; `CheckFile` accepts
too much; indices appended to a loaded mesh are broken (`indexBuffer.cpp:264`) *; a line of more than
8191 segments wraps its indices; a section whose key has a dot is closed by half *; numbers are saved
with six digits *; an empty string in a store reads as an error but is consumed *; a file being
created again by its own writer is refused by its own lock *; a tag set on a reader makes `Flush`
fail *; `deci` divides by `-=`.

Programs: the painter misses a change between its first reading and its watch *, keeps watching a
file an editor has replaced, drops a last command without `;` *, and moves the camera by scripts
that fail *; `distanceMap`'s order of points is no strict weak order; obj2mesh refuses the last vertex
in faces without normals *, writes buffers of different lengths when colours or normals begin late *,
and wraps at 65536 corners *; tac.war counts the time of a turn twice after a message *, lets troopers
overshoot *, and takes a click's place when it reads it *.

## 6. Not modelled

* Drawing, shaders, cameras, vertex positions, noise and the sea: floating-point data and calls
  to a driver, with no state that the properties could tell apart. So are the maps themselves,
  `CastLight`, planes, static texts and the strokes of `vecfont.cpp`, which is a table.
* utf8, deci, images: functions of their arguments that tests reach. Logging and thread numbers.
* The file monitor on Mac and Windows; files of Windows only.
* `context_t::isAlreadyExists`, a plain `bool` set while the window is made and cleared when
  static objects are destroyed: the models begin and end between the two.
* The start of the programs (arguments, configuration, registration of scenes and factories) is
  their initial state; orthofight and cqc draw or print and keep no state.
* Vendored code, assets and the tests.
