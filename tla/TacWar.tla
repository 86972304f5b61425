------------------------------- MODULE TacWar -------------------------------
(***************************************************************************)
(* tac.war: a menu and a game of troopers, two scenes that share one       *)
(* mailbox with the window (src/tac.war/src).  One turn of the main loop   *)
(* updates the scene that is shown and takes one message.                  *)
(*                                                                         *)
(* Places are numbers on a line and a way takes as long as it is; the unit *)
(* of time is the way a trooper goes at normal speed.  A click's place is  *)
(* the mouse's when the message is taken, not when it was sent.            *)
(***************************************************************************)
EXTENDS Integers, Sequences

CONSTANTS Places,      \* where one may click
          StartPlaces, \* of the troopers, a sequence
          Fast,        \* timeMult after a second click, 5 in the code
          FrameBound, LateBound, ClickBound  \* bounds

ASSUME TacWarAssumption ==
  /\ Places \subseteq Int /\ StartPlaces \in Seq(Int) /\ StartPlaces # <<>>
  /\ Fast \in Nat \ {0} /\ FrameBound \in Nat /\ LateBound \in Nat \ {0}

VARIABLES
  scene,    \* state: the menu or the game
  box,      \* "tacwar" is open; the window tells nobody before
  letters,  \* what is in it
  late,     \* the time since lastTick that the scene has had already
  mode, sel, place,
  oldPlace, newPlace, time, timeMult,
  aim,      \* where each trooper was sent last
  clicks,
  tacPc

orderVars == <<mode, oldPlace, newPlace, time, timeMult>>
gameVars == <<sel, place, orderVars, aim>>
tacVars == <<scene, box, letters, late, gameVars, clicks, tacPc>>

TacInit ==
  /\ scene = "menu" /\ box = FALSE /\ letters = <<>> /\ late = 0
  /\ mode = "select" /\ sel = 1 /\ place = StartPlaces
  /\ oldPlace = 0 /\ newPlace = 0 /\ time = 0 /\ timeMult = 1
  /\ aim = StartPlaces /\ clicks = 0
  /\ tacPc = "update"

Distance(a, b) == IF a < b THEN b - a ELSE a - b
Fulltime == Distance(oldPlace, newPlace)

-----------------------------------------------------------------------------
(* game_t::OnUpdate: glm::mix goes on beyond its end.                      *)
Mixed(t) == IF newPlace > oldPlace THEN oldPlace + t ELSE oldPlace - t
GameUpdate(dt) ==
  IF mode = "move" /\ time < Fulltime
  THEN /\ time' = time + dt * timeMult
       /\ place' = [place EXCEPT ![sel] = Mixed(time')]
       /\ UNCHANGED <<mode, sel, oldPlace, newPlace, timeMult, aim>>
  ELSE mode' = "select" /\ UNCHANGED <<sel, place, oldPlace, newPlace, time, timeMult, aim>>

(* game_t::OnClick: on a trooper, anywhere else, or during a move.         *)
Hit(p) == {t \in DOMAIN place : place[t] = p}
TimeKept == time                \* the reset is missing
TimeZero == 0
TimeAtOrder == TimeZero

SelectTrooper(p) ==
  /\ mode = "select" /\ Hit(p) # {}
  /\ sel' = CHOOSE t \in Hit(p) : \A s \in Hit(p) : t <= s
  /\ UNCHANGED <<place, orderVars, aim>>
OrderMove(p) ==
  /\ mode = "select" /\ Hit(p) = {}
  /\ mode' = "move" /\ oldPlace' = place[sel] /\ newPlace' = p
  /\ time' = TimeAtOrder /\ timeMult' = 1
  /\ aim' = [aim EXCEPT ![sel] = p]
  /\ UNCHANGED <<sel, place>>
HurryUp ==
  /\ mode = "move"
  /\ timeMult' = Fast
  /\ UNCHANGED <<sel, place, mode, oldPlace, newPlace, time, aim>>
GameClick(p) == SelectTrooper(p) \/ OrderMove(p) \/ HurryUp

(* menu_t: a click on a line asks for its action, the action for what is   *)
(* to come.  The game has no actions.                                      *)
MenuClick == \E asked \in {<<>>, << <<"action", "newGame">> >>, << <<"action", "exit">> >>} :
               letters' = Tail(letters) \o asked
MenuAction(a) == letters' = Append(Tail(letters), IF a = "newGame" THEN <<"scene", "game">> ELSE <<"poison", "">>)

-----------------------------------------------------------------------------
(* context_t::Update: clicks are sent, or the window is closed.            *)
Click ==
  /\ tacPc = "update" /\ clicks < ClickBound
  /\ clicks' = clicks + 1
  /\ letters' = IF box THEN Append(letters, <<"click", "">>) ELSE letters
  /\ UNCHANGED <<scene, box, late, gameVars, tacPc>>
CloseWindow ==
  /\ tacPc = "update"
  /\ tacPc' = "ended"
  /\ UNCHANGED <<scene, box, letters, late, gameVars, clicks>>

(* SceneUpdate: the time since lastTick.                                   *)
SceneUpdate(frame) ==
  /\ tacPc = "update" /\ late + frame <= LateBound
  /\ IF scene = "game" THEN GameUpdate(late + frame) ELSE UNCHANGED gameVars
  /\ late' = late + frame
  /\ box' = TRUE
  /\ tacPc' = "poll"
  /\ UNCHANGED <<scene, letters, clicks>>

(* A turn without a message ends with lastTick = nowTick; after a message  *)
(* the loop goes on without, and the next turn's time has this one's in it.*)
NoLetter ==
  /\ tacPc = "poll" /\ letters = <<>>
  /\ late' = 0
  /\ tacPc' = "update"
  /\ UNCHANGED <<scene, box, letters, gameVars, clicks>>

Letter(kind) == tacPc = "poll" /\ letters # <<>> /\ Head(letters)[1] = kind

SceneClick ==
  /\ Letter("click")
  /\ IF scene = "menu" THEN MenuClick /\ UNCHANGED gameVars
     ELSE letters' = Tail(letters) /\ \E p \in Places : GameClick(p)
  /\ tacPc' = "update"
  /\ UNCHANGED <<scene, box, late, clicks>>
SceneAction ==
  /\ Letter("action")
  /\ IF scene = "menu" THEN MenuAction(Head(letters)[2]) ELSE letters' = Tail(letters)
  /\ tacPc' = "update"
  /\ UNCHANGED <<scene, box, late, gameVars, clicks>>
ChangeState ==
  /\ Letter("scene")
  /\ scene' = Head(letters)[2] /\ letters' = Tail(letters)
  /\ tacPc' = "update"
  /\ UNCHANGED <<box, late, gameVars, clicks>>
Poisoned ==
  /\ Letter("poison")
  /\ letters' = Tail(letters)
  /\ tacPc' = "ended"
  /\ UNCHANGED <<scene, box, late, gameVars, clicks>>

TacNext ==
  \/ Click \/ CloseWindow \/ (\E frame \in 0 .. FrameBound : SceneUpdate(frame))
  \/ NoLetter \/ SceneClick \/ SceneAction \/ ChangeState \/ Poisoned

TacSpec == TacInit /\ [][TacNext]_tacVars

-----------------------------------------------------------------------------
(* A trooper comes to where it was sent last, or beyond it by less than    *)
(* the way of one turn, whatever is clicked meanwhile and whatever clicks  *)
(* the menu leaves behind; on the way it is where its time says.           *)
(* (tacgame.cpp:24-87, tacwar.cpp:148-193)                                 *)
TroopersArrive ==
  \A t \in DOMAIN place :
    IF mode = "move" /\ t = sel
    THEN aim[t] = newPlace /\ place[t] = Mixed(time) /\ time < Fulltime + LateBound * Fast
    ELSE Distance(place[t], aim[t]) < LateBound * Fast
=============================================================================
