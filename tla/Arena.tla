-------------------------------- MODULE Arena --------------------------------
(***************************************************************************)
(* What goes on inside sub3000's arena while it is shown: the actor        *)
(* "space" with ship, helm and radar (space.cpp, player.cpp), the radar    *)
(* screen that asks it for a step in every frame and waits (screen_t.cpp), *)
(* the status panel that reads one message in a frame (status_t.cpp), and  *)
(* the scene that plays the sounds it is told to (arena.cpp).              *)
(*                                                                         *)
(* Positions, forces and pictures are left out; time is counted in slices  *)
(* of SPACE_TIME_STEP, the engine's output in units of the threshold above *)
(* which it is heard, the radar's angle in steps of radarAngleDelta.       *)
(***************************************************************************)
EXTENDS Integers, Sequences

CONSTANTS MaxSlices,      \* time slices one frame can last
          PointsPerSlice, \* radar points in a slice, 10 in the code
          RadarLimit,     \* 720 in the code
          Circle, FrontLow, FrontHigh, \* 360, 135 and 225 in the code
          Expiry,         \* the age at which a point on the screen expires
          KeyBudget, PointBudget, DriftBound  \* bounds

ASSUME SliceNumbers == MaxSlices \in Nat /\ PointsPerSlice \in Nat
ASSUME RadarSector ==
  /\ {Circle, FrontLow, FrontHigh} \subseteq Nat
  /\ 0 < FrontLow /\ FrontLow <= FrontHigh /\ FrontHigh < Circle

(* engine::mode_t from full_ahead, rudder::mode_t from left_40 and         *)
(* ballast::mode_t from blow.                                              *)
EngineStop == 4
EngineModes == 0 .. 8
RudderModes == 0 .. 6
BallastModes == 0 .. 6
Output(mode) == EngineStop - mode
Keys == {"C", "F1", "F3", "F4", "[", "]", "up", "down", "left", "right", "plus", "minus"}

VARIABLES
  asked,          \* where the frame is: idle, asked or answered
  mapReady,       \* distMap.IsGood()
  newPointCount, simSpeed,
  radarXY,        \* the number of points in space_t::radarXY
  radar, radarAngle, radarAngleDelta,
  clip, engine, rudder, ballast, engineOutput,
  state,          \* the state_t on its way to the screen: its points
  statusMail,     \* the mailbox "arenaStatus"
  sounds,         \* the mailbox "arenaBox"
  playing,        \* the engine's sample is playing
  unitLife,       \* the ages of the points on the screen, oldest first
  mayCollide,
  fresh,          \* history: no point since the last mode key of the radar
  still,          \* history: steps since the last point, counted up to PointsPerSlice
  keys, points

spaceVars == <<mapReady, newPointCount, simSpeed, radarXY>>
radarVars == <<radar, radarAngle, radarAngleDelta>>
helmVars == <<clip, engine, rudder, ballast, engineOutput>>
messageVars == <<state, statusMail, sounds>>
screenVars == <<unitLife, mayCollide, playing>>
historyVars == <<fresh, still>>
vars == <<asked, spaceVars, radarVars, helmVars, screenVars, messageVars, historyVars, keys, points>>

Init ==
  /\ asked = "idle" /\ mapReady = FALSE
  /\ newPointCount = 0 /\ simSpeed = 1 /\ radarXY = 0
  /\ radar = "radius360" /\ radarAngle = 0 /\ radarAngleDelta = 1
  /\ clip \in BOOLEAN
  /\ engine = EngineStop /\ rudder = 3 /\ ballast = 3 /\ engineOutput = 0
  /\ state = 0 /\ statusMail = <<>> /\ sounds = <<>> /\ playing = FALSE
  /\ unitLife = <<>> /\ mayCollide = FALSE
  /\ fresh = FALSE /\ still = 0
  /\ keys = 0 /\ points = 0

-----------------------------------------------------------------------------
Abs(x) == IF x < 0 THEN -x ELSE x
Heard(output) == Abs(output) >= 1

(* player::Update, the engine's part: the output follows the mode, and a   *)
(* crossing of the threshold is told to the scene.                         *)
EngineSound(old, new) ==
  IF Heard(new) /\ ~Heard(old) THEN <<"engine_on">>
  ELSE IF ~Heard(new) /\ Heard(old) /\ engine = EngineStop THEN <<"engine_off">>
  ELSE <<>>

Approach(output) ==
  LET goal == Output(engine) IN
  IF goal > output THEN output + 1 ELSE IF goal < output THEN output - 1 ELSE output

(* The ship after one update more; a clipped ship is moved by hand.        *)
Updated(r) ==
  IF clip THEN r
  ELSE [output |-> Approach(r.output),
        told |-> r.told \o EngineSound(r.output, Approach(r.output))]

Sailed(n) ==
  LET After[k \in 0 .. n] ==
        IF k = 0 THEN [output |-> engineOutput, told |-> <<>>] ELSE Updated(After[k - 1])
  IN After[n]

(* The radar's next angle and direction, after each point.                 *)
Turned(r) ==
  LET a == r.angle + r.delta IN
  IF radar = "radius360"
  THEN [angle |-> a % Circle, delta |-> r.delta]
  ELSE [angle |-> a,
        delta |-> IF a < FrontLow THEN 1 ELSE IF a > FrontHigh THEN -1 ELSE r.delta]

Swept(n) ==
  LET After[k \in 0 .. n] ==
        IF k = 0 THEN [angle |-> radarAngle, delta |-> radarAngleDelta] ELSE Turned(After[k - 1])
  IN After[n]

MinOf(a, b) == IF a < b THEN a ELSE b
MaxOf(a, b) == IF a < b THEN b ELSE a

(* The ship's status goes out once in a step that had slices.              *)
PerSlice(slices) == [i \in 1 .. slices |-> "status"]     \* posted inside the loop
PerStep(slices) == IF slices > 0 THEN <<"status">> ELSE <<>>
Statuses(slices) == PerStep(slices)

(* The points in radarXY after some with so many hits: before each point   *)
(* the oldest is dropped from a full list, whether the ray hits or not.    *)
Listed(hits, misses) ==
  IF radarXY + hits < RadarLimit THEN {radarXY + hits}
  ELSE {RadarLimit} \cup {RadarLimit - 1 : n \in 1 .. misses}

(* space_t::Step and its answer.  newPointCount is decremented once more   *)
(* by the test that ends its loop, in steps without a slice too: a step    *)
(* of too few slices makes no point, and leaves it further below zero.     *)
Step(slices, hits) ==
  LET due == newPointCount + PointsPerSlice * simSpeed * slices
      made == MaxOf(due, 0)
      ship == Sailed(simSpeed * slices)
      swept == Swept(made)
  IN
  /\ asked = "asked" /\ mapReady
  /\ hits <= made /\ points + hits <= PointBudget
  /\ points' = points + hits
  /\ newPointCount' = MinOf(due, 0) - 1
  /\ engineOutput' = ship.output
  /\ sounds' = sounds \o ship.told
  /\ radarAngle' = swept.angle /\ radarAngleDelta' = swept.delta
  /\ statusMail' = statusMail \o Statuses(slices)
  /\ state' \in Listed(hits, made - hits) /\ radarXY' = 0
  /\ asked' = "answered"
  /\ fresh' = (fresh /\ made = 0)
  /\ still' = IF made > 0 THEN 0 ELSE MinOf(still + 1, PointsPerSlice)
  /\ UNCHANGED <<mapReady, simSpeed, radar, clip, engine, rudder, ballast, screenVars, keys>>

(* While the map is not ready, time does not advance; the answer comes.    *)
StepWithoutMap ==
  /\ asked = "asked" /\ ~mapReady
  /\ state' = radarXY
  /\ asked' = "answered"
  /\ UNCHANGED <<spaceVars, radarVars, helmVars, screenVars, statusMail, sounds, historyVars, keys, points>>

TakeMap ==
  /\ ~mapReady
  /\ mapReady' = TRUE
  /\ statusMail' = Append(statusMail, "heightMap")
  /\ UNCHANGED <<asked, newPointCount, simSpeed, radarXY, radarVars, helmVars, screenVars,
                 state, sounds, historyVars, keys, points>>

-----------------------------------------------------------------------------
(* Keys: the speed of the simulation first, the helm only at speed one.    *)
SpeedKey(k) ==
  /\ k \in {"[", "]", "F1"}
  /\ LET speed == CASE k = "F1" -> 1 [] k = "]" -> simSpeed + 1 [] k = "[" -> simSpeed - 1 IN
     simSpeed' = IF speed \in 1 .. 4 THEN speed ELSE simSpeed
  /\ UNCHANGED <<radarVars, helmVars, sounds>>

(* player::Control, key by key.                                            *)
ClipKey(k) ==
  /\ k = "C" /\ simSpeed = 1
  /\ clip' = ~clip
  /\ UNCHANGED <<simSpeed, radarVars, engine, rudder, ballast, engineOutput, sounds>>

DeltaKept == radarAngleDelta          \* the reset is missing
DeltaAhead == 1
DeltaAtF4 == DeltaAhead

RadarKey(k) ==
  /\ k \in {"F3", "F4"} /\ simSpeed = 1
  /\ radar' = IF k = "F3" THEN "front90" ELSE "radius360"
  /\ radarAngleDelta' = IF k = "F3" THEN radarAngleDelta ELSE DeltaAtF4
  /\ sounds' = Append(sounds, "button")
  /\ UNCHANGED <<simSpeed, radarAngle, helmVars>>

Moved(value, by, modes) == IF value + by \in modes THEN value + by ELSE value
Turn(k, ahead, back) == (IF k = ahead THEN 1 ELSE 0) - (IF k = back THEN 1 ELSE 0)

HelmKey(k) ==
  /\ k \in {"up", "down", "left", "right", "plus", "minus"} /\ simSpeed = 1
  /\ engine' = IF clip THEN engine ELSE Moved(engine, Turn(k, "down", "up"), EngineModes)
  /\ rudder' = IF clip THEN rudder ELSE Moved(rudder, Turn(k, "right", "left"), RudderModes)
  /\ ballast' = IF clip THEN ballast ELSE Moved(ballast, Turn(k, "plus", "minus"), BallastModes)
  /\ sounds' = IF <<engine', rudder', ballast'>> # <<engine, rudder, ballast>>
               THEN Append(sounds, "button") ELSE sounds
  /\ UNCHANGED <<simSpeed, radarVars, clip, engineOutput>>

FastKey(k) ==
  /\ k \in Keys \ {"[", "]", "F1"} /\ simSpeed # 1
  /\ UNCHANGED <<simSpeed, radarVars, helmVars, sounds>>

OnKey(k) ==
  /\ keys < KeyBudget /\ asked # "answered"   \* the answer is a copy
  /\ keys' = keys + 1
  /\ SpeedKey(k) \/ ClipKey(k) \/ RadarKey(k) \/ HelmKey(k) \/ FastKey(k)
  /\ fresh' = (fresh \/ (k \in {"F3", "F4"} /\ simSpeed = 1))
  /\ UNCHANGED <<asked, mapReady, newPointCount, radarXY, screenVars, state, statusMail, still, points>>

-----------------------------------------------------------------------------
(* arenaScene_t::OnUpdate: the box is drained, the last engine sound       *)
(* counts; then the screen posts its step.                                 *)
PolledOnce == MinOf(Len(sounds), 1)   \* as the status panel does
Drained == Len(sounds)
Polled == Drained
LastEngine(i) == sounds[i] # "button" /\ \A j \in i + 1 .. Polled : sounds[j] = "button"

UpdateScene ==
  /\ asked = "idle"
  /\ playing' = IF \A i \in 1 .. Polled : sounds[i] = "button" THEN playing
                ELSE \E i \in 1 .. Polled : LastEngine(i) /\ sounds[i] = "engine_on"
  /\ sounds' = SubSeq(sounds, Polled + 1, Len(sounds))
  /\ asked' = "asked"
  /\ UNCHANGED <<spaceVars, radarVars, helmVars, unitLife, mayCollide, state, statusMail,
                 historyVars, keys, points>>

(* UpdateUnits: all age; the loop that drops the expired compares an index *)
(* that goes up with a size that comes down, so it may stop half way.      *)
Aged == [i \in 1 .. Len(unitLife) |-> MinOf(unitLife[i] + 1, Expiry + 1)]
Expired == Len(SelectSeq(Aged, LAMBDA life : life > Expiry))
Dropped == MinOf(Expired, (Len(unitLife) + 1) \div 2)
UpdateUnits ==
  unitLife' = SubSeq(Aged, Dropped + 1, Len(Aged)) \o [i \in 1 .. state |-> 0]

(* UpdateDepthRadar: of the places where the depth radar meets ground, the *)
(* ones ahead count, and the middle on either course.                      *)
UpdateDepthRadar(blocked) ==
  mayCollide' = (blocked \cap {"mid", IF engine <= EngineStop THEN "fore" ELSE "aft"} # {})

(* The rest of the screen's update, and one message for the status panel.  *)
UpdateScreen(blocked) ==
  /\ asked = "answered"
  /\ UpdateUnits /\ UpdateDepthRadar(blocked)
  /\ statusMail' = IF statusMail = <<>> THEN <<>> ELSE Tail(statusMail)
  /\ asked' = "idle"
  /\ UNCHANGED <<spaceVars, radarVars, helmVars, playing, state, sounds, historyVars, keys, points>>

Next ==
  \/ UpdateScene
  \/ StepWithoutMap
  \/ \E slices \in 0 .. MaxSlices, hits \in 0 .. PointBudget :
       Step(slices, hits) /\ newPointCount' >= -DriftBound
  \/ TakeMap
  \/ \E k \in Keys : OnKey(k)
  \/ \E blocked \in SUBSET {"fore", "mid", "aft"} : UpdateScreen(blocked)

Spec == Init /\ [][Next]_vars

-----------------------------------------------------------------------------
(* An engine that runs is heard once the scene has read its mail: no       *)
(* crossing of the threshold is lost or overtaken, at any speed of the     *)
(* simulation (player.cpp:246-274, arena.cpp:142-168).  The converse does  *)
(* not hold: an engine that stops turning while its mode is not stop, as   *)
(* on the way from ahead to astern, and is stopped there, sounds for ever. *)
EngineHeard == asked = "asked" /\ Heard(engineOutput) => playing

(* The radar gets into the range of its mode and stays there, from any     *)
(* angle and direction that another mode hands over: from its first point  *)
(* on it is inside the circle, or turns back whenever it is outside the    *)
(* sector in front.  Only keys of the mode without a point between them    *)
(* let the angle past the circle, one step for every two.  And a step with *)
(* a slice turns it, unless as many steps as a slice has points came       *)
(* before it without one: then the radar stands still                      *)
(* (space.cpp:54-56, 93-132, player.cpp:313-334).                          *)
RadarKeepsTurning ==
  /\ radarAngle \in 0 .. Circle + keys \div 2
  /\ radar = "radius360" => radarAngleDelta = 1 /\ (fresh \/ radarAngle < Circle)
  /\ radar = "front90" /\ ~fresh =>
       /\ radarAngle > FrontHigh => radarAngleDelta = -1
       /\ radarAngle < FrontLow => radarAngleDelta = 1
  /\ still + 1 < PointsPerSlice => newPointCount + PointsPerSlice > 0

(* One message a frame is enough: the status panel's mail does not pile up *)
(* (status_t.cpp:84-85, space.cpp:72-91).                                  *)
StatusMailBounded == Len(statusMail) <= 2
=============================================================================
