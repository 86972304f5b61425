------------------------------- MODULE Scenes -------------------------------
(***************************************************************************)
(* The main loop of sub3000 and the scenes it shows: sub3000.cpp,          *)
(* scene.cpp and src/sub3000/src/scenes.                                   *)
(*                                                                         *)
(* A frame updates the top scene, lets the window deliver keys, and then   *)
(* either handles one message to the main loop or looks at the watched     *)
(* files.  A scene brings its actor along: Prepare registers and hooks it, *)
(* Cleanup posts its poison and goes on.  The workers (WorkerPool) give    *)
(* every actor its messages in order; an actor that took its poison keeps  *)
(* its name until a worker has buried it, and a name that is taken gives   *)
(* the next actor no mailbox: the program then fails at the first message. *)
(* What the arena computes is in module Arena, what a mailbox's life is    *)
(* like under the office's locks in PostOffice.                            *)
(***************************************************************************)
EXTENDS Integers, Sequences, FiniteSets

CONSTANTS Lines,        \* the menu: a sequence of game actions
          FirstScenes,  \* what "default.config" may start with
          KeyBudget,    \* keys pressed in all
          ChangeBudget, \* changes of the watched file in all
          SplashAhead   \* the splash screen's messages not yet handled

Actors == {"mainMenu", "authors", "space"}
Keys == {"up", "down", "enter", "escape"}

(* GetScene's scenes, the actor each registers and the boxes it opens.     *)
ActorOf == [none |-> "nobody", splash |-> "nobody", mainMenu |-> "mainMenu",
            authors |-> "authors", arena |-> "space", demo |-> "space"]
BoxesOf == [none |-> {}, splash |-> {}, mainMenu |-> {}, authors |-> {},
            arena |-> {"arenaScreen", "arenaStatus", "arenaBox"}, demo |-> {"arenaScreen"}]
Scene == DOMAIN ActorOf \ {"none"}

(* ProcessGameAction: the scene an action leads to.                        *)
SceneFor == [newGame |-> "arena", logo |-> "splash", authors |-> "authors", demo |-> "demo"]

ASSUME ScenesAssumption ==
  /\ Lines \in Seq(DOMAIN SceneFor \cup {"exit", "settings"}) /\ Len(Lines) > 0
  /\ FirstScenes \subseteq Scene
  /\ {KeyBudget, ChangeBudget, SplashAhead} \subseteq Nat

VARIABLES
  pc,          \* where the main loop is
  top,         \* TopScene; Prepare and Cleanup keep isReady at top # none
  mail,        \* the mailbox "sub3000"
  life, inbox, \* of each actor: none, live or sick, and its messages
  owed,        \* the actors whose mail no worker can miss
  hooks,       \* the actors keys are posted to
  boxes,       \* the mailboxes of scenes that exist
  answers,     \* states in the box "arenaScreen"
  statuses,    \* statuses in the box "arenaBox"
  configWatch, \* arenaScene_t::configWatch
  monitors,    \* the keys of fsMonitors
  dirty,       \* those whose file has changed
  counter,     \* fsMonitorIDCounter
  requests,    \* maps the generator has still to make
  world,       \* the file "world.bbw" can be read
  textLines,   \* mainMenuScene_t::textList.size()
  selected,    \* mainMenuModel_t::selectedLine
  view, shown, \* the menu's own box and the line it shows as selected
  keys, changes

mainVars == <<pc, top, mail>>
actorVars == <<life, inbox, hooks, owed>>
arenaVars == <<boxes, answers, statuses, configWatch, requests, world>>
watchVars == <<monitors, dirty, counter>>
menuVars == <<textLines, selected, view, shown>>
vars == <<mainVars, actorVars, arenaVars, watchVars, menuVars, keys, changes>>

Init ==
  /\ pc = "prepare"
  /\ top \in FirstScenes
  /\ mail = <<>>
  /\ life = [n \in Actors |-> "none"] /\ inbox = [n \in Actors |-> <<>>] /\ owed = {}
  /\ hooks = {} /\ boxes = {} /\ answers = 0 /\ statuses = <<>> /\ configWatch = -1
  /\ monitors = {} /\ dirty = {} /\ counter = 0
  /\ requests = 0 /\ world \in BOOLEAN
  /\ textLines = 0 /\ selected = 0 /\ view = <<>> /\ shown = 0
  /\ keys = 0 /\ changes = 0

-----------------------------------------------------------------------------
(* workerPool_t::PostMessage by name: whoever has the name gets it.        *)
IsThere(n) == n \in Actors /\ life[n] # "none"
Delivered(n, m) == IF IsThere(n) THEN [inbox EXCEPT ![n] = Append(@, m)] ELSE inbox

(* Its notifications: workers that all slept find what mail there is; one  *)
(* that is awake may have looked there already, and since it tests under a *)
(* guard that nobody takes to notify it (worker.cpp:118, 239-242), it goes *)
(* to sleep over this mail.  Workers do not sleep before what is owed is   *)
(* done and the sick are buried.                                           *)
Notify(delivered) ==
  \/ UNCHANGED owed
  \/ /\ delivered
     /\ owed = {} /\ \A n \in Actors : life[n] # "sick"
     /\ owed' = {n \in Actors : inbox'[n] # <<>>}

ToMain(kind, what) == mail' = Append(mail, <<kind, what>>)

(* Register and RegisterActorCallback, with the new actor's first messages.*)
NameIsTaken(n) == life[n] # "none"
Register(n, first, next) ==
  IF NameIsTaken(n)
  THEN pc' = "crashed" /\ UNCHANGED <<life, inbox, hooks>>
  ELSE /\ life' = [life EXCEPT ![n] = "live"]
       /\ inbox' = [inbox EXCEPT ![n] = first]
       /\ hooks' = hooks \cup {n}
       /\ pc' = next

PrepareSplash ==
  /\ pc = "prepare" /\ top = "splash"
  /\ pc' = "frame"
  /\ UNCHANGED <<top, mail, actorVars, arenaVars, watchVars, menuVars, keys, changes>>

(* mainMenuModel_t's constructor puts its selection into the scene's box.  *)
FirstView == <<0>>
FirstViewMissing == <<>>
MenuView == FirstView

PrepareMenu ==
  /\ pc = "prepare" /\ top = "mainMenu"
  /\ Register("mainMenu", <<>>, "frame") /\ UNCHANGED owed
  /\ textLines' = Len(Lines)
  /\ selected' = 0
  /\ view' = view \o MenuView
  /\ UNCHANGED <<top, mail, arenaVars, watchVars, shown, keys, changes>>

PrepareAuthors ==
  /\ pc = "prepare" /\ top = "authors"
  /\ Register("authors", <<>>, "frame") /\ UNCHANGED owed
  /\ UNCHANGED <<top, mail, arenaVars, watchVars, menuVars, keys, changes>>

(* screen_t and the demo open the same box and the same actor; the demo    *)
(* cannot do without the file.                                             *)
WorldMap == IF world THEN <<"hmDone">> ELSE <<>>

PrepareScreen ==
  /\ pc = "prepare" /\ top = "arena"
  /\ boxes' = boxes \cup {"arenaScreen"}
  /\ Register("space", WorldMap, "prepareStatus") /\ Notify(~NameIsTaken("space"))
  /\ requests' = IF world THEN requests ELSE requests + 1
  /\ UNCHANGED <<top, mail, answers, statuses, configWatch, world, watchVars, menuVars, keys, changes>>

(* A map that is ready before this box exists is never drawn: Post gives   *)
(* -1 to the space, which does not look (space.cpp:199-205).               *)
PrepareStatus ==
  /\ pc = "prepareStatus"
  /\ boxes' = boxes \cup {"arenaStatus"}
  /\ pc' = "prepareBox"
  /\ UNCHANGED <<top, mail, actorVars, answers, statuses, configWatch, requests, world, watchVars,
                 menuVars, keys, changes>>

WatchUnset == -1
WatchKept == configWatch                 \* the reset is missing
WatchAtPrepare == WatchUnset

PrepareBox ==
  /\ pc = "prepareBox"
  /\ boxes' = boxes \cup {"arenaBox"}
  /\ configWatch' = WatchAtPrepare
  /\ ToMain("watch", "arenaBox")
  /\ pc' = "frame"
  /\ UNCHANGED <<top, actorVars, answers, statuses, requests, world, watchVars, menuVars, keys, changes>>

PrepareDemo ==
  /\ pc = "prepare" /\ top = "demo"
  /\ boxes' = boxes \cup {"arenaScreen"}
  /\ Register("space", WorldMap, "frame") /\ Notify(world /\ ~NameIsTaken("space"))
  /\ IF world THEN UNCHANGED mail ELSE ToMain("exit", 0)
  /\ UNCHANGED <<top, answers, statuses, configWatch, requests, world, watchVars, menuVars, keys, changes>>

(* Cleanup of the top scene.  Nobody but the main loop touches what it     *)
(* changes besides the poisoned actor's mailbox, so it is one step.        *)
FinishedButAuthors == IF top = "authors" THEN inbox ELSE Delivered(ActorOf[top], "poison")
Finished == Delivered(ActorOf[top], "poison")

Cleanup(messages) ==
  /\ inbox' = Finished /\ Notify(IsThere(ActorOf[top]))
  /\ boxes' = boxes \ BoxesOf[top]
  /\ answers' = 0
  /\ IF top = "arena"
     THEN /\ mail' = IF configWatch # -1 THEN Append(messages, <<"rmWatch", configWatch>>) ELSE messages
          /\ statuses' = <<>>
     ELSE mail' = messages /\ UNCHANGED statuses
  /\ textLines' = IF top = "mainMenu" THEN 0 ELSE textLines
  /\ UNCHANGED <<life, hooks, configWatch, requests, world, watchVars, selected, view, shown>>

-----------------------------------------------------------------------------
(* One frame: Update of the top scene ...                                  *)
Last(s, otherwise) == IF s = <<>> THEN otherwise ELSE s[Len(s)]

UpdateSplash ==
  /\ pc = "frame" /\ top = "splash"
  /\ \/ UNCHANGED mail
     \/ Len(mail) < SplashAhead /\ ToMain("changeScene", "mainMenu")
  /\ pc' = "window"
  /\ UNCHANGED <<top, actorVars, arenaVars, watchVars, menuVars, keys, changes>>

UpdateMenu ==
  /\ pc = "frame" /\ top = "mainMenu"
  /\ shown' = Last(view, shown) /\ view' = <<>>
  /\ pc' = "window"
  /\ UNCHANGED <<top, mail, actorVars, arenaVars, watchVars, textLines, selected, keys, changes>>

UpdateAuthors ==
  /\ pc = "frame" /\ top = "authors"
  /\ pc' = "window"
  /\ UNCHANGED <<top, mail, actorVars, arenaVars, watchVars, menuVars, keys, changes>>

UpdateArena ==
  /\ pc = "frame" /\ top \in {"arena", "demo"}
  /\ configWatch' = IF top = "arena" THEN Last(statuses, configWatch) ELSE configWatch
  /\ statuses' = <<>>
  /\ inbox' = Delivered("space", "step") /\ Notify(IsThere("space"))
  /\ pc' = "waiting"
  /\ UNCHANGED <<top, mail, life, hooks, boxes, answers, requests, world, watchVars, menuVars, keys, changes>>

(* ... which waits for the space's answer ...                              *)
TakeAnswer ==
  /\ pc = "waiting" /\ answers > 0
  /\ answers' = answers - 1
  /\ pc' = "window"
  /\ UNCHANGED <<top, mail, actorVars, boxes, statuses, configWatch, requests, world, watchVars,
                 menuVars, keys, changes>>

(* ... then context_t::Update, which posts keys and tells of the window's  *)
(* closing ...                                                             *)
PressKey(k) ==
  /\ pc = "window" /\ keys < KeyBudget
  /\ keys' = keys + 1
  /\ inbox' = [n \in Actors |-> IF n \in hooks THEN Append(inbox[n], k) ELSE inbox[n]]
  /\ Notify(hooks # {})
  /\ UNCHANGED <<mainVars, life, hooks, arenaVars, watchVars, menuVars, changes>>

EndUpdate ==
  /\ pc = "window"
  /\ pc' \in {"mail", "done"}
  /\ UNCHANGED <<top, mail, actorVars, arenaVars, watchVars, menuVars, keys, changes>>

(* ... then one message, after which the loop starts again ...             *)
Received(kind) == pc = "mail" /\ mail # <<>> /\ Head(mail)[1] = kind

ChangeScene ==
  /\ Received("changeScene")
  /\ Cleanup(Tail(mail))
  /\ top' = Head(mail)[2]
  /\ pc' = "prepare"
  /\ UNCHANGED <<keys, changes>>

Exit ==
  /\ Received("exit")
  /\ Cleanup(Tail(mail))
  /\ top' = "none"
  /\ pc' = "done"
  /\ UNCHANGED <<keys, changes>>

ProcessGameAction ==
  /\ Received("action")
  /\ LET a == Head(mail)[2] IN
     mail' = Tail(mail) \o (CASE a = "exit" -> << <<"exit", 0>> >>
                              [] a = "settings" -> <<>>
                              [] OTHER -> << <<"changeScene", SceneFor[a]>> >>)
  /\ pc' = "frame"
  /\ UNCHANGED <<top, actorVars, arenaVars, watchVars, menuVars, keys, changes>>

(* The new monitor's number, or -1, goes to whoever has the box now.       *)
Watch ==
  /\ Received("watch")
  /\ \E good \in BOOLEAN :
       LET status == IF good THEN counter ELSE -1 IN
       /\ monitors' = IF good THEN monitors \cup {counter} ELSE monitors
       /\ counter' = IF good THEN counter + 1 ELSE counter
       /\ statuses' = IF Head(mail)[2] \in boxes THEN Append(statuses, status) ELSE statuses
  /\ UNCHANGED <<life, inbox, hooks>> /\ Notify(Head(mail)[2] \in boxes)
  /\ mail' = Tail(mail)
  /\ pc' = "frame"
  /\ UNCHANGED <<top, boxes, answers, configWatch, requests, world, dirty, menuVars, keys, changes>>

RmWatch ==
  /\ Received("rmWatch")
  /\ monitors' = monitors \ {Head(mail)[2]}
  /\ dirty' = dirty \ {Head(mail)[2]}
  /\ mail' = Tail(mail)
  /\ pc' = "frame"
  /\ UNCHANGED <<top, actorVars, arenaVars, counter, menuVars, keys, changes>>

(* ... and only without one the monitors: monitorConfig_t::OnChange.       *)
CheckMonitors ==
  /\ pc = "mail" /\ mail = <<>>
  /\ mail' = [i \in 1 .. Cardinality(dirty) |-> <<"changeScene", "arena">>]
  /\ dirty' = {}
  /\ pc' = "frame"
  /\ UNCHANGED <<top, actorVars, arenaVars, monitors, counter, menuVars, keys, changes>>

(* Nobody sees a change before the main loop gets here.                    *)
FileChanges ==
  /\ changes < ChangeBudget /\ monitors # {} /\ pc = "mail"
  /\ changes' = changes + 1
  /\ dirty' = monitors
  /\ UNCHANGED <<mainVars, actorVars, arenaVars, monitors, counter, menuVars, keys>>

-----------------------------------------------------------------------------
(* The actors: n is about to handle one of these messages.                *)
Handles(n, messages) ==
  /\ pc # "crashed"
  /\ life[n] = "live" /\ inbox[n] # <<>> /\ Head(inbox[n]) \in messages

Handled(n) ==
  /\ inbox' = [inbox EXCEPT ![n] = Tail(@)]
  /\ owed' = IF Len(inbox[n]) = 1 THEN owed \ {n} ELSE owed

(* mainMenuModel_t::OnProcessMessage.  It looks at the scene's list, which *)
(* Cleanup may have emptied: the unsigned size()-1 is then no limit, and   *)
(* the line it would read is not there.                                    *)
MayGoDown == textLines = 0 \/ selected < textLines - 1

SelectLine ==
  /\ Handles("mainMenu", {"up", "down"})
  /\ Handled("mainMenu")
  /\ selected' = CASE Head(inbox["mainMenu"]) = "up" /\ selected > 0 -> selected - 1
                   [] Head(inbox["mainMenu"]) = "down" /\ MayGoDown -> selected + 1
                   [] OTHER -> selected
  /\ view' = IF selected' # selected THEN Append(view, selected') ELSE view
  /\ UNCHANGED <<mainVars, life, hooks, arenaVars, watchVars, textLines, shown, keys, changes>>

EnterLine ==
  /\ Handles("mainMenu", {"enter"})
  /\ Handled("mainMenu")
  /\ IF textLines = 0
     THEN pc' = "crashed" /\ UNCHANGED mail
     ELSE ToMain("action", Lines[selected + 1]) /\ UNCHANGED pc
  /\ UNCHANGED <<top, life, hooks, arenaVars, watchVars, menuVars, keys, changes>>

(* authorsModel_t leaves at any key, space_t at Escape.                    *)
Leave(n, pressed) ==
  /\ Handles(n, pressed)
  /\ Handled(n)
  /\ ToMain("changeScene", "mainMenu")
  /\ UNCHANGED <<pc, top, life, hooks, arenaVars, watchVars, menuVars, keys, changes>>

IgnoreKey(n, pressed) ==
  /\ Handles(n, pressed)
  /\ Handled(n)
  /\ UNCHANGED <<mainVars, life, hooks, arenaVars, watchVars, menuVars, keys, changes>>

(* space_t answers every step, though no time passes before it has a map.  *)
AnswersStepIfReady == answers + (IF world THEN 1 ELSE 0)
AnswersStep == answers + 1

Step ==
  /\ Handles("space", {"step"})
  /\ Handled("space")
  /\ answers' = IF "arenaScreen" \in boxes THEN AnswersStep ELSE answers
  /\ UNCHANGED <<mainVars, life, hooks, boxes, statuses, configWatch, requests, world, watchVars,
                 menuVars, keys, changes>>

(* The map is kept, and written to the file if there was none.             *)
TakeMap ==
  /\ Handles("space", {"hmDone"})
  /\ Handled("space")
  /\ world' = TRUE
  /\ UNCHANGED <<mainVars, life, hooks, boxes, answers, statuses, configWatch, requests, watchVars,
                 menuVars, keys, changes>>

(* mapGen_t, an actor that is always there.                                *)
Generate ==
  /\ pc # "crashed" /\ requests > 0
  /\ requests' = requests - 1
  /\ inbox' = Delivered("space", "hmDone")
  /\ UNCHANGED <<mainVars, life, hooks, owed, boxes, answers, statuses, configWatch, world, watchVars,
                 menuVars, keys, changes>>

TakePoison(n) ==
  /\ Handles(n, {"poison"})
  /\ Handled(n)
  /\ hooks' = hooks \ {n}
  /\ life' = [life EXCEPT ![n] = "sick"]
  /\ UNCHANGED <<mainVars, arenaVars, watchVars, menuVars, keys, changes>>

Bury(n) ==
  /\ pc # "crashed" /\ life[n] = "sick"
  /\ life' = [life EXCEPT ![n] = "none"]
  /\ inbox' = [inbox EXCEPT ![n] = <<>>] /\ owed' = owed \ {n}
  /\ UNCHANGED <<mainVars, hooks, arenaVars, watchVars, menuVars, keys, changes>>

-----------------------------------------------------------------------------
MainLoop ==
  \/ PrepareSplash \/ PrepareMenu \/ PrepareAuthors \/ PrepareScreen \/ PrepareStatus \/ PrepareBox
  \/ PrepareDemo
  \/ UpdateSplash \/ UpdateMenu \/ UpdateAuthors \/ UpdateArena \/ TakeAnswer \/ EndUpdate
  \/ ChangeScene \/ Exit \/ ProcessGameAction \/ Watch \/ RmWatch \/ CheckMonitors

Work(n) ==
  \/ n = "mainMenu" /\ (SelectLine \/ EnterLine)
  \/ n = "authors" /\ Leave(n, Keys)
  \/ n = "space" /\ (Leave(n, {"escape"}) \/ IgnoreKey(n, Keys \ {"escape"}) \/ Step \/ TakeMap)
  \/ n = "mainMenu" /\ IgnoreKey(n, {"escape"})
  \/ TakePoison(n) \/ Bury(n)

Next ==
  \/ MainLoop
  \/ \E k \in Keys : PressKey(k)
  \/ FileChanges
  \/ \E n \in Actors : Work(n)
  \/ Generate

(* The main thread runs on.  The workers come round to the mail they       *)
(* cannot miss and bury whom they made sick; the rest they may sleep over. *)
Spec == Init /\ [][Next]_vars
FairSpec ==
  /\ Spec
  /\ WF_vars(MainLoop)
  /\ \A n \in Actors : WF_vars(n \in owed /\ Work(n)) /\ WF_vars(Bury(n))

-----------------------------------------------------------------------------
Settled == pc \notin {"prepare", "prepareStatus", "prepareBox", "crashed"}
Poisoned(n) == \E i \in 1 .. Len(inbox[n]) : inbox[n][i] = "poison"

(* A scene owns its actor and its mailboxes for as long as it is shown:    *)
(* they are there while it is on top, and no other actor is left that has  *)
(* not been told to die (PushScene, PopScene, OnPrepare, OnCleanup).       *)
SceneOwnsActors ==
  Settled =>
    /\ boxes = BoxesOf[top]
    /\ \A n \in Actors : life[n] = "live" /\ ~Poisoned(n) <=> n = ActorOf[top]

(* A watch that is given back is one the main loop still has: numbers are  *)
(* not used twice and nobody gives one back twice (sub3000.cpp:200-215).   *)
RemovalFindsMonitor ==
  \A i \in 1 .. Len(mail) : mail[i][1] = "rmWatch" => mail[i][2] \in monitors

(* The line the menu shows is the line Enter acts on, once the model's     *)
(* mail and the view's are read, whatever menu was there before.           *)
MenuShowsSelection ==
  pc \in {"window", "mail"} /\ top = "mainMenu" /\ inbox["mainMenu"] = <<>> /\ view = <<>>
    => shown = selected /\ selected < Len(Lines)

(* The step that Main waits for is there, but no worker has to look.       *)
Overslept ==
  pc = "waiting" /\ "space" \notin owed /\ \E i \in 1 .. Len(inbox["space"]) : inbox["space"][i] = "step"

(* Whoever chose to leave gets out, unless the workers sleep over a step   *)
(* for ever: nothing else keeps a frame waiting on the way, neither a      *)
(* space without a map nor one that is not there or about to die           *)
(* (screen_t.cpp:401-406).                                                 *)
ExitIsCarriedOut ==
  \/ (\E i \in 1 .. Len(mail) : mail[i][1] = "exit") ~> pc \in {"done", "crashed"}
  \/ <>[]Overslept
=============================================================================
