---------------------------- MODULE ArenaProofs ----------------------------
(***************************************************************************)
(* The arena's status panel, radar and engine, for any number of slices in *)
(* a frame and any speed of the simulation.                                *)
(*                                                                         *)
(* That two messages are the most is not inductive: a third could come in  *)
(* the next frame.  But one is the map's, which is sent once, and one is   *)
(* that of a step whose answer the screen has not used yet.                *)
(***************************************************************************)
EXTENDS Arena, Induction

Report == {"status", "heightMap"}

StatusInv ==
  /\ statusMail \in Seq(Report)
  /\ Len(statusMail) <= (IF mapReady THEN 1 ELSE 0) + (IF asked = "answered" THEN 1 ELSE 0)

-----------------------------------------------------------------------------
(* The box begins empty.                                                   *)
LEMMA InitStatusInv == Init => StatusInv
<1>1. SUFFICES ASSUME Init PROVE StatusInv
  OBVIOUS
<1>2. statusMail \in Seq(Report) /\ Len(statusMail) = 0
  BY <1>1 DEF Init
<1> QED BY <1>2 DEF StatusInv

(* What a step posts: one message at most, however many slices it had.     *)
LEMMA StatusesAreFew ==
  ASSUME NEW s \in Seq(Report), NEW slices
  PROVE  /\ s \o Statuses(slices) \in Seq(Report)
         /\ Len(s \o Statuses(slices)) <= Len(s) + 1
<1>1. CASE Statuses(slices) = <<"status">>
  <2>1. <<"status">> \in Seq(Report) /\ Len(<<"status">>) = 1
    BY DEF Report
  <2> QED BY <1>1, <2>1
<1>2. CASE Statuses(slices) = <<>>
  <2>1. s \o <<>> = s
    OBVIOUS
  <2> QED BY <1>2, <2>1
<1> QED BY <1>1, <1>2 DEF Statuses, PerStep

(* Every action keeps the invariant: a step needs a map and ends the       *)
(* asking, and the screen takes its message before it asks again.          *)
LEMMA StatusInvKept == StatusInv /\ [Next]_vars => StatusInv'
<1> SUFFICES ASSUME StatusInv, [Next]_vars PROVE StatusInv'
  OBVIOUS
<1>0. statusMail \in Seq(Report)
  BY DEF StatusInv
<1>1. CASE UpdateScene
  BY <1>0, <1>1 DEF UpdateScene, StatusInv, spaceVars
<1>2. CASE StepWithoutMap
  BY <1>0, <1>2 DEF StepWithoutMap, StatusInv, spaceVars
<1>3. CASE \E slices \in 0 .. MaxSlices, hits \in 0 .. PointBudget : Step(slices, hits)
  <2>1. PICK slices, hits : Step(slices, hits)
    BY <1>3
  <2>2. /\ asked = "asked" /\ mapReady /\ mapReady' = mapReady /\ asked' = "answered"
        /\ statusMail' = statusMail \o Statuses(slices)
    BY <2>1 DEF Step
  <2>3. statusMail' \in Seq(Report) /\ Len(statusMail') <= Len(statusMail) + 1
    BY <1>0, <2>2, StatusesAreFew
  <2>4. Len(statusMail) \in Nat /\ Len(statusMail') \in Nat
    BY <1>0, <2>3
  <2> QED BY <2>2, <2>3, <2>4 DEF StatusInv
<1>4. CASE TakeMap
  <2>1. /\ ~mapReady /\ mapReady' = TRUE /\ asked' = asked
        /\ statusMail' = Append(statusMail, "heightMap")
    BY <1>4 DEF TakeMap
  <2>2. statusMail' \in Seq(Report) /\ Len(statusMail') = Len(statusMail) + 1
    BY <1>0, <2>1 DEF Report
  <2> QED BY <1>0, <2>1, <2>2 DEF StatusInv
<1>5. CASE \E k \in Keys : OnKey(k)
  BY <1>0, <1>5 DEF OnKey, StatusInv
<1>6. CASE \E blocked \in SUBSET {"fore", "mid", "aft"} : UpdateScreen(blocked)
  <2>1. /\ asked = "answered" /\ asked' = "idle" /\ mapReady' = mapReady
        /\ statusMail' = IF statusMail = <<>> THEN <<>> ELSE Tail(statusMail)
    BY <1>6 DEF UpdateScreen, spaceVars
  <2>2. CASE statusMail = <<>>
    <3>1. statusMail' \in Seq(Report) /\ Len(statusMail') = 0
      BY <2>1, <2>2
    <3> QED BY <2>1, <3>1 DEF StatusInv
  <2>3. CASE statusMail # <<>>
    <3>1. statusMail' \in Seq(Report) /\ Len(statusMail') = Len(statusMail) - 1
      BY <1>0, <2>1, <2>3
    <3> QED BY <1>0, <2>1, <3>1 DEF StatusInv
  <2> QED BY <2>2, <2>3
<1>7. CASE UNCHANGED vars
  <2>1. UNCHANGED <<statusMail, mapReady, asked>>
    BY <1>7 DEF vars, spaceVars, messageVars
  <2> QED BY <2>1 DEF StatusInv
<1> QED BY <1>1, <1>2, <1>3, <1>4, <1>5, <1>6, <1>7 DEF Next

(* The status panel's mailbox never holds more than two messages, although *)
(* it takes one a frame and the space makes as many slices as time asks    *)
(* for (status_t.cpp:84-85, space.cpp:72-91).                              *)
THEOREM StatusMailStaysShort == Spec => []StatusMailBounded
<1>1. StatusInv => StatusMailBounded
  <2> SUFFICES ASSUME StatusInv PROVE StatusMailBounded
    OBVIOUS
  <2>1. Len(statusMail) \in Nat
    BY DEF StatusInv
  <2> QED BY <2>1 DEF StatusInv, StatusMailBounded
<1> QED BY <1>1, InitStatusInv, StatusInvKept, PTL DEF Spec
-----------------------------------------------------------------------------
(* The radar.  Mode F4 makes the radar turn forward from where it is; F3   *)
(* lets it pass the circle's end by the one step that turns it back.  So   *)
(* it takes two keys for every further step out.                           *)
Directed(r, n) ==
  /\ r.angle \in Nat /\ r.delta \in {1, -1}
  /\ radar = "radius360" => r.delta = 1 /\ 2 * (r.angle + 1 - Circle) <= n
  /\ radar # "radius360" /\ r.delta = 1 => 2 * (r.angle + 1 - Circle) <= n - 1
  /\ radar # "radius360" /\ r.delta = -1 =>
       2 * (r.angle - Circle) <= n - 1 /\ FrontLow <= r.angle

Bearing == [angle |-> radarAngle, delta |-> radarAngleDelta]

(* What a point leaves, whatever was before: an angle inside the circle,   *)
(* or the direction back to the sector.                                    *)
Headed(r) ==
  /\ radar = "radius360" => r.angle < Circle
  /\ radar = "front90" =>
       /\ r.angle > FrontHigh => r.delta = -1
       /\ r.angle < FrontLow => r.delta = 1

(* With every step without a point the count falls by one, from -1.        *)
RadarInv ==
  /\ newPointCount \in Int /\ simSpeed \in Nat /\ keys \in Nat
  /\ radar \in {"radius360", "front90"}
  /\ radar # "radius360" => keys >= 1
  /\ Directed(Bearing, keys)
  /\ fresh \/ Headed(Bearing)
  /\ still \in Nat /\ (still >= PointsPerSlice \/ newPointCount >= -1 - still)

Bearings == [angle : Int, delta : {1, -1}]

(* One point: the radar stays between the same bounds.                     *)
LEMMA TurnedIsDirected ==
  ASSUME NEW r \in Bearings, NEW n \in Nat, Directed(r, n),
         radar # "radius360" => n >= 1
  PROVE  Turned(r) \in Bearings /\ Directed(Turned(r), n) /\ Headed(Turned(r))
<1>0. r.angle \in Nat /\ r.delta \in {1, -1}
  BY DEF Directed
<1>1. Circle \in Nat /\ FrontLow \in Nat /\ FrontHigh \in Nat
      /\ 0 < FrontLow /\ FrontLow <= FrontHigh /\ FrontHigh < Circle
  BY RadarSector
<1> DEFINE a == r.angle + r.delta
<1>2. CASE radar = "radius360"
  <2>1. r.delta = 1
    BY <1>2 DEF Directed
  <2>2. a % Circle \in 0 .. Circle - 1
    BY <1>0, <1>1
  <2>3. Turned(r) = [angle |-> a % Circle, delta |-> 1]
    BY <1>2, <2>1 DEF Turned
  <2> HIDE DEF a
  <2> QED BY <1>1, <1>2, <2>2, <2>3 DEF Directed, Bearings, Headed
<1>3. CASE radar # "radius360"
  <2> DEFINE d == IF a < FrontLow THEN 1 ELSE IF a > FrontHigh THEN -1 ELSE r.delta
  <2>1. Turned(r) = [angle |-> a, delta |-> d]
    BY <1>3 DEF Turned
  <2>2. d \in {1, -1} /\ a \in Int
    BY <1>0, <1>1
  <2>3. r.delta = 1 => 2 * (r.angle + 1 - Circle) <= n - 1
    BY <1>3 DEF Directed
  <2>4. r.delta = -1 => 2 * (r.angle - Circle) <= n - 1 /\ FrontLow <= r.angle
    BY <1>3 DEF Directed
  <2>5. a \in Nat
    BY <1>0, <1>1, <2>4
  <2>6. d = 1 => 2 * (a + 1 - Circle) <= n - 1
    BY <1>0, <1>1, <1>3, <2>3, <2>4
  <2>7. d = -1 => 2 * (a - Circle) <= n - 1 /\ FrontLow <= a
    BY <1>0, <1>1, <1>3, <2>3, <2>4
  <2>8. (a > FrontHigh => d = -1) /\ (a < FrontLow => d = 1)
    BY <1>0, <1>1
  <2> HIDE DEF a, d
  <2> QED BY <1>3, <2>1, <2>2, <2>5, <2>6, <2>7, <2>8 DEF Directed, Bearings, Headed
<1> QED BY <1>2, <1>3

(* Any number of points, by induction along the function in Swept.         *)
LEMMA SweptIsDirected ==
  ASSUME RadarInv, NEW n \in Nat
  PROVE  /\ Directed(Swept(n), keys)
         /\ IF n = 0 THEN Swept(n) = Bearing ELSE Headed(Swept(n))
<1> DEFINE F(f) == [k \in 0 .. n |-> IF k = 0 THEN Bearing ELSE Turned(f[k - 1])]
           After == CHOOSE f : f = F(f)
           S == {r \in Bearings : Directed(r, keys)}
<1>1. keys \in Nat /\ (radar # "radius360" => keys >= 1) /\ Directed(Bearing, keys)
  BY DEF RadarInv
<1>2. Bearing \in S
  BY <1>1 DEF Bearing, Bearings, Directed
<1>3. \A r \in S : Turned(r) \in S /\ Headed(Turned(r))
  BY <1>1, TurnedIsDirected
<1> HIDE DEF S
<1>4. \E f : f = F(f)
  <2> DEFINE H == [r \in S |-> Turned(r)]
  <2>1. H \in [S -> S]
    BY <1>3
  <2>2. PICK f : Iterates(f, S, Bearing, H, n)
    BY <1>2, <2>1, Iteration
  <2>3. f \in [0 .. n -> S] /\ f[0] = Bearing /\ \A k \in 1 .. n : f[k] = H[f[k - 1]]
    BY <2>2 DEF Iterates
  <2>4. ASSUME NEW k \in 1 .. n PROVE f[k] = Turned(f[k - 1])
    <3>1. k - 1 \in 0 .. n
      OBVIOUS
    <3> QED BY <2>3, <3>1
  <2>5. ASSUME NEW k \in 0 .. n PROVE f[k] = IF k = 0 THEN Bearing ELSE Turned(f[k - 1])
    <3>1. CASE k = 0
      BY <2>3, <3>1
    <3>2. CASE k # 0
      BY <2>4, <3>2
    <3> QED BY <3>1, <3>2
  <2>6. f = F(f)
    BY <2>3, <2>5
  <2> QED BY <2>6
<1>5. After = F(After)
  BY <1>4
<1>6. Swept(n) = After[n]
  BY DEF Swept, Bearing
<1> HIDE DEF After
<1>7. \A k \in 0 .. n : After[k] = IF k = 0 THEN Bearing ELSE Turned(After[k - 1])
  BY <1>5
<1> DEFINE T == {k \in Nat : k \in 0 .. n => After[k] \in S}
<1>8. 0 \in T
  BY <1>2, <1>7
<1>9. ASSUME NEW k \in Nat, k \in T PROVE k + 1 \in T
  <2>1. ASSUME k + 1 \in 0 .. n PROVE After[k + 1] \in S
    <3>1. k \in 0 .. n /\ k + 1 # 0 /\ (k + 1) - 1 = k
      BY <2>1
    <3>2. After[k + 1] = Turned(After[k])
      BY <1>7, <2>1, <3>1
    <3> QED BY <1>3, <1>9, <3>1, <3>2
  <2> QED BY <2>1
<1> HIDE DEF T
<1>10. n \in T
  BY <1>8, <1>9, AllNumbers
<1>11. After[n] \in S
  BY <1>10 DEF T
<1>12. CASE n = 0
  BY <1>6, <1>7, <1>11, <1>12 DEF S
<1>13. CASE n # 0
  <2>1. n - 1 \in Nat /\ n - 1 \in 0 .. n /\ n \in 0 .. n
    BY <1>13
  <2>2. n - 1 \in T
    BY <1>8, <1>9, <2>1, AllNumbers
  <2>3. After[n - 1] \in S
    BY <2>1, <2>2 DEF T
  <2>4. After[n] = Turned(After[n - 1])
    BY <1>7, <1>13, <2>1
  <2> QED BY <1>3, <1>6, <1>11, <1>13, <2>3, <2>4 DEF S
<1> QED BY <1>12, <1>13

(* The radar begins ahead in the full circle.                              *)
LEMMA InitRadarInv == Init => RadarInv
  BY RadarSector, SliceNumbers DEF Init, RadarInv, Directed, Headed, Bearing

(* Only a step turns the radar; only F3 and F4 change its mode, and a key  *)
(* is counted for each.                                                    *)
LEMMA RadarInvKept == RadarInv /\ [Next]_vars => RadarInv'
<1> SUFFICES ASSUME RadarInv, [Next]_vars PROVE RadarInv'
  OBVIOUS
<1>0. /\ newPointCount \in Int /\ simSpeed \in Nat /\ keys \in Nat
      /\ radar \in {"radius360", "front90"}
      /\ radar # "radius360" => keys >= 1
      /\ radarAngle \in Nat /\ radarAngleDelta \in {1, -1}
      /\ radar = "radius360" => radarAngleDelta = 1 /\ 2 * (radarAngle + 1 - Circle) <= keys
      /\ radar # "radius360" /\ radarAngleDelta = 1 => 2 * (radarAngle + 1 - Circle) <= keys - 1
      /\ radar # "radius360" /\ radarAngleDelta = -1 =>
           2 * (radarAngle - Circle) <= keys - 1 /\ FrontLow <= radarAngle
  BY DEF RadarInv, Directed, Bearing
<1>h. /\ fresh \/ Headed(Bearing)
      /\ still \in Nat /\ (still >= PointsPerSlice \/ newPointCount >= -1 - still)
  BY DEF RadarInv
<1> DEFINE Same == UNCHANGED <<newPointCount, simSpeed, keys, radar, radarAngle, radarAngleDelta, fresh, still>>
<1>1. CASE Same
  <2>1. /\ newPointCount' = newPointCount /\ simSpeed' = simSpeed /\ keys' = keys
        /\ radar' = radar /\ radarAngle' = radarAngle /\ radarAngleDelta' = radarAngleDelta
        /\ fresh' = fresh /\ still' = still
    BY <1>1
  <2> QED BY <1>0, <1>h, <2>1 DEF RadarInv, Directed, Headed, Bearing
<1>2. CASE UpdateScene
  BY <1>1, <1>2 DEF UpdateScene, spaceVars, radarVars, historyVars
<1>3. CASE StepWithoutMap
  BY <1>1, <1>3 DEF StepWithoutMap, spaceVars, radarVars, historyVars
<1>4. CASE \E slices \in 0 .. MaxSlices, hits \in 0 .. PointBudget : Step(slices, hits)
  <2>1. PICK slices \in 0 .. MaxSlices, hits \in 0 .. PointBudget : Step(slices, hits)
    BY <1>4
  <2> DEFINE due == newPointCount + PointsPerSlice * simSpeed * slices
             swept == Swept(MaxOf(due, 0))
  <2>2. slices \in Nat /\ PointsPerSlice \in Nat
    BY SliceNumbers
  <2>3. PointsPerSlice * simSpeed \in Int
    BY <1>0, <2>2
  <2>4. (PointsPerSlice * simSpeed) * slices \in Int
    BY <2>2, <2>3
  <2>5. due \in Int
    BY <1>0, <2>4
  <2>6. /\ newPointCount' = MinOf(due, 0) - 1 /\ UNCHANGED <<simSpeed, radar, keys>>
        /\ radarAngle' = swept.angle /\ radarAngleDelta' = swept.delta
        /\ fresh' = (fresh /\ MaxOf(due, 0) = 0)
        /\ still' = IF MaxOf(due, 0) > 0 THEN 0 ELSE MinOf(still + 1, PointsPerSlice)
    BY <2>1 DEF Step
  <2>s. due >= newPointCount
    <3>1. \A a, b \in Nat : a * b \in Nat
      OBVIOUS
    <3>2. (PointsPerSlice * simSpeed) * slices \in Nat
      BY <1>0, <2>2, <3>1
    <3> QED BY <1>0, <3>2
  <2> HIDE DEF due
  <2>7. MaxOf(due, 0) \in Nat /\ MinOf(due, 0) - 1 \in Int
    BY <2>5 DEF MaxOf, MinOf
  <2>8. /\ Directed(swept, keys)
        /\ IF MaxOf(due, 0) = 0 THEN swept = Bearing ELSE Headed(swept)
    BY <2>7, SweptIsDirected
  <2> HIDE DEF swept
  <2>9. still' \in Nat /\ (still' >= PointsPerSlice \/ newPointCount' >= -1 - still')
    BY <1>0, <1>h, <2>2, <2>5, <2>6, <2>s DEF MaxOf, MinOf
  <2>10. fresh' \/ Headed(Bearing)'
    <3>1. CASE MaxOf(due, 0) = 0
      <4>1. swept.angle = radarAngle /\ swept.delta = radarAngleDelta
        BY <2>8, <3>1 DEF Bearing
      <4> QED BY <1>h, <2>6, <3>1, <4>1 DEF Headed, Bearing
    <3>2. CASE MaxOf(due, 0) # 0
      BY <2>6, <2>8, <3>2 DEF Headed, Bearing
    <3> QED BY <3>1, <3>2
  <2>11. Directed(Bearing, keys)'
    BY <2>6, <2>8 DEF Directed, Bearing
  <2> QED BY <1>0, <2>6, <2>7, <2>9, <2>10, <2>11 DEF RadarInv
<1>5. CASE TakeMap
  BY <1>1, <1>5 DEF TakeMap, spaceVars, radarVars, historyVars
<1>6. CASE \E k \in Keys : OnKey(k)
  <2>1. PICK k \in Keys : OnKey(k)
    BY <1>6
  <2>2. /\ keys' = keys + 1 /\ newPointCount' = newPointCount /\ still' = still
        /\ fresh' = (fresh \/ (k \in {"F3", "F4"} /\ simSpeed = 1))
    BY <2>1 DEF OnKey
  <2>h. /\ still' \in Nat /\ (still' >= PointsPerSlice \/ newPointCount' >= -1 - still')
        /\ UNCHANGED <<radar, radarAngle, radarAngleDelta>> => (fresh \/ Headed(Bearing))'
    <3>1. fresh => fresh'
      BY <2>2
    <3>2. ASSUME UNCHANGED <<radar, radarAngle, radarAngleDelta>> PROVE Headed(Bearing) => Headed(Bearing)'
      BY <3>2 DEF Headed, Bearing
    <3> QED BY <1>h, <2>2, <3>1, <3>2
  <2>3. CASE SpeedKey(k)
    <3>1. simSpeed' \in Nat
      BY <1>0, <2>3 DEF SpeedKey
    <3>2. UNCHANGED <<radar, radarAngle, radarAngleDelta>>
      BY <2>3 DEF SpeedKey, radarVars
    <3>3. Circle \in Nat
      BY RadarSector
    <3>4. Directed(Bearing, keys)'
      BY <1>0, <2>2, <3>2, <3>3 DEF Directed, Bearing
    <3> QED BY <1>0, <2>2, <2>h, <3>1, <3>2, <3>4 DEF RadarInv
  <2>4. CASE RadarKey(k)
    <3>1. /\ radar' = IF k = "F3" THEN "front90" ELSE "radius360"
          /\ radarAngleDelta' = IF k = "F3" THEN radarAngleDelta ELSE 1
          /\ UNCHANGED <<simSpeed, radarAngle>> /\ k \in {"F3", "F4"} /\ simSpeed = 1
      BY <2>4 DEF RadarKey, DeltaAtF4, DeltaAhead
    <3>2. Circle \in Nat
      BY RadarSector
    <3>3. Directed(Bearing, keys)'
      BY <1>0, <2>2, <3>1, <3>2 DEF Directed, Bearing
    <3>4. fresh'
      BY <2>2, <3>1
    <3> QED BY <1>0, <1>h, <2>2, <3>1, <3>3, <3>4 DEF RadarInv
  <2>5. CASE ClipKey(k) \/ HelmKey(k) \/ FastKey(k)
    <3>1. UNCHANGED <<simSpeed, radar, radarAngle, radarAngleDelta>>
      BY <2>5 DEF ClipKey, HelmKey, FastKey, radarVars
    <3>2. Circle \in Nat
      BY RadarSector
    <3>3. Directed(Bearing, keys)'
      BY <1>0, <2>2, <3>1, <3>2 DEF Directed, Bearing
    <3> QED BY <1>0, <2>2, <2>h, <3>1, <3>3 DEF RadarInv
  <2> QED BY <2>1, <2>3, <2>4, <2>5 DEF OnKey
<1>7. CASE \E blocked \in SUBSET {"fore", "mid", "aft"} : UpdateScreen(blocked)
  BY <1>1, <1>7 DEF UpdateScreen, spaceVars, radarVars, historyVars
<1>8. CASE UNCHANGED vars
  BY <1>1, <1>8 DEF vars, spaceVars, radarVars, historyVars
<1> QED BY <1>2, <1>3, <1>4, <1>5, <1>6, <1>7, <1>8 DEF Next

(* The radar gets into the range of its mode with its first point and      *)
(* turns back whenever it is outside the sector in front; after n keys it  *)
(* is at most n / 2 steps past the circle; and a slice turns it unless as  *)
(* many steps as a slice has points came before: however the modes were    *)
(* switched and however many slices and points a frame had                 *)
(* (space.cpp:54-56, 93-132, player.cpp:313-334).                          *)
THEOREM RadarIsNeverFarOff == Spec => []RadarKeepsTurning
<1>1. RadarInv => RadarKeepsTurning
  <2> SUFFICES ASSUME RadarInv PROVE RadarKeepsTurning
    OBVIOUS
  <2>1. Circle \in Nat /\ FrontHigh \in Nat /\ FrontHigh < Circle
    BY RadarSector
  <2>2. radarAngle \in 0 .. Circle + keys \div 2 /\ (radar = "radius360" => radarAngleDelta = 1)
    BY <2>1 DEF RadarInv, Directed, Bearing
  <2>3. /\ radar = "radius360" => fresh \/ radarAngle < Circle
        /\ radar = "front90" /\ ~fresh =>
             /\ radarAngle > FrontHigh => radarAngleDelta = -1
             /\ radarAngle < FrontLow => radarAngleDelta = 1
    <3>1. fresh \/ Headed(Bearing)
      BY DEF RadarInv
    <3>2. Headed(Bearing) =>
            /\ radar = "radius360" => radarAngle < Circle
            /\ radar = "front90" =>
                 /\ radarAngle > FrontHigh => radarAngleDelta = -1
                 /\ radarAngle < FrontLow => radarAngleDelta = 1
      BY DEF Headed, Bearing
    <3> QED BY <3>1, <3>2, Zenon
  <2>4. still + 1 < PointsPerSlice => newPointCount + PointsPerSlice > 0
    BY SliceNumbers DEF RadarInv
  <2> QED BY <2>2, <2>3, <2>4 DEF RadarKeepsTurning
<1> QED BY <1>1, InitRadarInv, RadarInvKept, PTL DEF Spec

-----------------------------------------------------------------------------
(* The engine.  Whether it sounds once the scene has read s: the last      *)
(* engine sound in s says so, or it did before and s does not stop it.     *)
Sounds == {"button", "engine_on", "engine_off"}

Sounding(s, before) ==
  \/ before /\ \A i \in 1 .. Len(s) : s[i] # "engine_off"
  \/ \E i \in 1 .. Len(s) :
       s[i] = "engine_on" /\ \A j \in i + 1 .. Len(s) : s[j] # "engine_off"

EngineInv ==
  /\ sounds \in Seq(Sounds)
  /\ engineOutput \in Int /\ engine \in Int
  /\ asked = "asked" => \A i \in 1 .. Len(sounds) : sounds[i] = "button"
  /\ Heard(engineOutput) => Sounding(sounds, playing)

(* What is told later counts, on top of what was told before.              *)
LEMMA SoundingOfBoth ==
  ASSUME NEW s \in Seq(Sounds), NEW t \in Seq(Sounds), NEW before, NEW between,
         Sounding(t, between), between => Sounding(s, before)
  PROVE  Sounding(s \o t, before)
<1>1. /\ Len(s) \in Nat /\ Len(t) \in Nat /\ Len(s \o t) = Len(s) + Len(t)
      /\ \A i \in 1 .. Len(s) : (s \o t)[i] = s[i]
      /\ \A i \in 1 .. Len(t) : (s \o t)[Len(s) + i] = t[i]
  OBVIOUS
<1> DEFINE u == s \o t
<1>2. \A j \in 1 .. Len(u) : j \in 1 .. Len(s) \/ (j - Len(s) \in 1 .. Len(t) /\ u[j] = t[j - Len(s)])
  <2> SUFFICES ASSUME NEW j \in 1 .. Len(u), j \notin 1 .. Len(s)
               PROVE  j - Len(s) \in 1 .. Len(t) /\ u[j] = t[j - Len(s)]
    OBVIOUS
  <2>1. j - Len(s) \in 1 .. Len(t) /\ Len(s) + (j - Len(s)) = j
    BY <1>1
  <2> QED BY <1>1, <2>1
<1> HIDE DEF u
<1>3. CASE \E i \in 1 .. Len(t) :
             t[i] = "engine_on" /\ \A j \in i + 1 .. Len(t) : t[j] # "engine_off"
  <2>1. PICK i \in 1 .. Len(t) :
          t[i] = "engine_on" /\ \A j \in i + 1 .. Len(t) : t[j] # "engine_off"
    BY <1>3
  <2>2. Len(s) + i \in 1 .. Len(u) /\ u[Len(s) + i] = "engine_on"
    BY <1>1, <2>1 DEF u
  <2>3. ASSUME NEW j \in Len(s) + i + 1 .. Len(u) PROVE u[j] # "engine_off"
    <3>1. j \in 1 .. Len(u) /\ j \notin 1 .. Len(s)
      BY <1>1, <2>1
    <3>2. j - Len(s) \in i + 1 .. Len(t)
      BY <1>1, <1>2, <2>1, <3>1
    <3> QED BY <1>2, <2>1, <3>1, <3>2
  <2> QED BY <2>2, <2>3 DEF Sounding, u
<1>4. CASE between /\ \A i \in 1 .. Len(t) : t[i] # "engine_off"
  <2>1. CASE before /\ \A i \in 1 .. Len(s) : s[i] # "engine_off"
    <3>1. ASSUME NEW j \in 1 .. Len(u) PROVE u[j] # "engine_off"
      <4>1. CASE j \in 1 .. Len(s)
        BY <1>1, <2>1, <4>1 DEF u
      <4>2. CASE j \notin 1 .. Len(s)
        BY <1>2, <1>4, <4>2
      <4> QED BY <4>1, <4>2
    <3> QED BY <2>1, <3>1 DEF Sounding, u
  <2>2. CASE \E i \in 1 .. Len(s) :
               s[i] = "engine_on" /\ \A j \in i + 1 .. Len(s) : s[j] # "engine_off"
    <3>1. PICK i \in 1 .. Len(s) :
            s[i] = "engine_on" /\ \A j \in i + 1 .. Len(s) : s[j] # "engine_off"
      BY <2>2
    <3>2. i \in 1 .. Len(u) /\ u[i] = "engine_on"
      BY <1>1, <3>1 DEF u
    <3>3. ASSUME NEW j \in i + 1 .. Len(u) PROVE u[j] # "engine_off"
      <4>1. CASE j \in 1 .. Len(s)
        <5>1. j \in i + 1 .. Len(s)
          BY <1>1, <3>1, <4>1
        <5> QED BY <1>1, <3>1, <4>1, <5>1 DEF u
      <4>2. CASE j \notin 1 .. Len(s)
        <5>1. j \in 1 .. Len(u)
          BY <3>1
        <5> QED BY <1>2, <1>4, <4>2, <5>1
      <4> QED BY <4>1, <4>2
    <3> QED BY <3>2, <3>3 DEF Sounding, u
  <2> QED BY <1>4, <2>1, <2>2 DEF Sounding
<1> QED BY <1>3, <1>4 DEF Sounding

(* What one update of the ship tells keeps pace with its output.           *)
LEMMA EngineSoundIsTrue ==
  ASSUME NEW old \in Int, NEW new \in Int
  PROVE  /\ EngineSound(old, new) \in Seq(Sounds)
         /\ Heard(new) => Sounding(EngineSound(old, new), Heard(old))
<1>1. CASE Heard(new) /\ ~Heard(old)
  <2>1. EngineSound(old, new) = <<"engine_on">>
    BY <1>1 DEF EngineSound
  <2>2. /\ <<"engine_on">> \in Seq(Sounds) /\ Len(<<"engine_on">>) = 1
        /\ <<"engine_on">>[1] = "engine_on"
    BY DEF Sounds
  <2>3. Sounding(<<"engine_on">>, Heard(old))
    BY <2>2 DEF Sounding
  <2> QED BY <2>1, <2>2, <2>3
<1>2. CASE Heard(new) /\ Heard(old)
  <2>1. EngineSound(old, new) = <<>>
    BY <1>2 DEF EngineSound
  <2>2. <<>> \in Seq(Sounds) /\ Len(<<>>) = 0
    OBVIOUS
  <2> QED BY <1>2, <2>1, <2>2 DEF Sounding
<1>3. CASE ~Heard(new)
  <2>1. EngineSound(old, new) = <<"engine_off">> \/ EngineSound(old, new) = <<>>
    BY <1>3 DEF EngineSound
  <2>2. <<"engine_off">> \in Seq(Sounds) /\ <<>> \in Seq(Sounds)
    BY DEF Sounds
  <2> QED BY <1>3, <2>1, <2>2
<1> QED BY <1>1, <1>2, <1>3

(* The ship after any number of updates, by induction along the function   *)
(* in Sailed.                                                              *)
Sailing ==
  {r \in [output : Int, told : Seq(Sounds)] :
     Heard(r.output) => Sounding(r.told, Heard(engineOutput))}

LEMMA SailedIsHeard ==
  ASSUME EngineInv, NEW n \in Nat
  PROVE  Sailed(n) \in Sailing
<1> DEFINE start == [output |-> engineOutput, told |-> <<>>]
           F(f) == [k \in 0 .. n |-> IF k = 0 THEN start ELSE Updated(f[k - 1])]
           After == CHOOSE f : f = F(f)
<1>1. engineOutput \in Int /\ engine \in Int
  BY DEF EngineInv
<1>2. start \in Sailing
  <2>1. <<>> \in Seq(Sounds) /\ Len(<<>>) = 0
    OBVIOUS
  <2> QED BY <1>1, <2>1 DEF Sailing, Sounding
<1>3. ASSUME NEW r \in Sailing PROVE Updated(r) \in Sailing
  <2>1. /\ r.output \in Int /\ r.told \in Seq(Sounds)
        /\ Heard(r.output) => Sounding(r.told, Heard(engineOutput))
    BY DEF Sailing
  <2> DEFINE new == Approach(r.output)
  <2>2. new \in Int
    BY <1>1, <2>1 DEF Approach, Output, EngineStop
  <2> HIDE DEF new
  <2>3. /\ EngineSound(r.output, new) \in Seq(Sounds)
        /\ Heard(new) => Sounding(EngineSound(r.output, new), Heard(r.output))
    BY <2>1, <2>2, EngineSoundIsTrue
  <2>4. r.told \o EngineSound(r.output, new) \in Seq(Sounds)
    BY <2>1, <2>3
  <2>5. Heard(new) => Sounding(r.told \o EngineSound(r.output, new), Heard(engineOutput))
    BY <2>1, <2>3, SoundingOfBoth
  <2>6. [output |-> new, told |-> r.told \o EngineSound(r.output, new)] \in Sailing
    BY <2>2, <2>4, <2>5 DEF Sailing
  <2> QED BY <2>6 DEF new, Updated
<1>4. \E f : f = F(f)
  <2> DEFINE H == [r \in Sailing |-> Updated(r)]
  <2>1. H \in [Sailing -> Sailing]
    BY <1>3
  <2>2. PICK f : Iterates(f, Sailing, start, H, n)
    BY <1>2, <2>1, Iteration
  <2>3. f \in [0 .. n -> Sailing] /\ f[0] = start /\ \A k \in 1 .. n : f[k] = H[f[k - 1]]
    BY <2>2 DEF Iterates
  <2>4. ASSUME NEW k \in 1 .. n PROVE f[k] = Updated(f[k - 1])
    <3>1. k - 1 \in 0 .. n
      OBVIOUS
    <3> QED BY <2>3, <3>1
  <2> HIDE DEF start, H
  <2>5. ASSUME NEW k \in 0 .. n PROVE f[k] = IF k = 0 THEN start ELSE Updated(f[k - 1])
    <3>1. CASE k = 0
      BY <2>3, <3>1
    <3>2. CASE k # 0
      BY <2>4, <3>2
    <3> QED BY <3>1, <3>2
  <2>6. f = F(f)
    BY <2>3, <2>5
  <2> QED BY <2>6
<1>5. After = F(After)
  BY <1>4
<1>6. Sailed(n) = After[n]
  BY DEF Sailed
<1> HIDE DEF After
<1>7. \A k \in 0 .. n : After[k] = IF k = 0 THEN start ELSE Updated(After[k - 1])
  BY <1>5
<1> HIDE DEF start
<1> DEFINE T == {k \in Nat : k \in 0 .. n => After[k] \in Sailing}
<1>8. 0 \in T
  BY <1>2, <1>7
<1>9. ASSUME NEW k \in Nat, k \in T PROVE k + 1 \in T
  <2>1. ASSUME k + 1 \in 0 .. n PROVE After[k + 1] \in Sailing
    <3>1. k \in 0 .. n /\ k + 1 # 0 /\ (k + 1) - 1 = k
      BY <2>1
    <3>2. After[k + 1] = Updated(After[k])
      BY <1>7, <2>1, <3>1
    <3> QED BY <1>3, <1>9, <3>1, <3>2
  <2> QED BY <2>1
<1> HIDE DEF T
<1>10. n \in T
  BY <1>8, <1>9, AllNumbers
<1> QED BY <1>6, <1>10 DEF T

(* At first nothing sounds and nothing runs.                               *)
LEMMA InitEngineInv == Init => EngineInv
<1> SUFFICES ASSUME Init PROVE EngineInv
  OBVIOUS
<1>1. sounds = <<>> /\ engineOutput = 0 /\ engine \in Int /\ asked = "idle"
  BY DEF Init, EngineStop
<1>2. ~Heard(engineOutput)
  BY <1>1 DEF Heard, Abs
<1> QED BY <1>1, <1>2 DEF EngineInv, Sounds

(* The button's sound changes nothing.                                     *)
LEMMA ButtonIsNoEngine ==
  ASSUME NEW s \in Seq(Sounds), NEW before
  PROVE  /\ Append(s, "button") \in Seq(Sounds)
         /\ Sounding(s, before) => Sounding(Append(s, "button"), before)
         /\ (\A i \in 1 .. Len(s) : s[i] = "button") =>
              \A i \in 1 .. Len(Append(s, "button")) : Append(s, "button")[i] = "button"
<1> DEFINE u == Append(s, "button")
<1>1. /\ u \in Seq(Sounds) /\ Len(s) \in Nat /\ Len(u) = Len(s) + 1
      /\ u[Len(s) + 1] = "button" /\ \A i \in 1 .. Len(s) : u[i] = s[i]
  BY DEF Sounds
<1> HIDE DEF u
<1>2. \A i \in 1 .. Len(u) : u[i] = "button" \/ (i \in 1 .. Len(s) /\ u[i] = s[i])
  <2> SUFFICES ASSUME NEW i \in 1 .. Len(u), i \notin 1 .. Len(s) PROVE u[i] = "button"
    BY <1>1
  <2>1. i = Len(s) + 1
    BY <1>1
  <2> QED BY <1>1, <2>1
<1>3. ASSUME Sounding(s, before) PROVE Sounding(u, before)
  <2>1. CASE before /\ \A i \in 1 .. Len(s) : s[i] # "engine_off"
    BY <1>2, <2>1 DEF Sounding
  <2>2. CASE \E i \in 1 .. Len(s) :
               s[i] = "engine_on" /\ \A j \in i + 1 .. Len(s) : s[j] # "engine_off"
    <3>1. PICK i \in 1 .. Len(s) :
            s[i] = "engine_on" /\ \A j \in i + 1 .. Len(s) : s[j] # "engine_off"
      BY <2>2
    <3>2. i \in 1 .. Len(u) /\ u[i] = "engine_on"
      BY <1>1, <3>1
    <3>3. ASSUME NEW j \in i + 1 .. Len(u) PROVE u[j] # "engine_off"
      <4>1. j \in 1 .. Len(u) /\ (j \in 1 .. Len(s) => j \in i + 1 .. Len(s))
        BY <1>1, <3>1
      <4> QED BY <1>2, <3>1, <4>1
    <3> QED BY <3>2, <3>3 DEF Sounding
  <2> QED BY <1>3, <2>1, <2>2 DEF Sounding
<1> QED BY <1>1, <1>2, <1>3 DEF u

(* The scene that reads all of s hears what the last engine sound says.    *)
LEMMA DrainedIsHeard ==
  ASSUME sounds \in Seq(Sounds), UpdateScene, Sounding(sounds, playing)
  PROVE  playing'
<1>1. /\ Len(sounds) \in Nat /\ Polled = Len(sounds)
      /\ playing' = IF \A i \in 1 .. Polled : sounds[i] = "button" THEN playing
                    ELSE \E i \in 1 .. Polled : LastEngine(i) /\ sounds[i] = "engine_on"
  BY DEF UpdateScene, Polled, Drained
<1>2. \A i \in 1 .. Len(sounds) : sounds[i] \in Sounds
  OBVIOUS
<1>3. CASE \A i \in 1 .. Len(sounds) : sounds[i] = "button"
  BY <1>1, <1>3 DEF Sounding
<1>4. CASE \E i \in 1 .. Len(sounds) : sounds[i] # "button"
  <2> DEFINE Back == {Len(sounds) - i : i \in {j \in 1 .. Len(sounds) : sounds[j] # "button"}}
  <2>1. PICK least \in Back : \A y \in Back : least <= y
    <3>1. Back \subseteq Nat /\ Back # {}
      BY <1>1, <1>4
    <3> HIDE DEF Back
    <3> QED BY <3>1, LeastOf
  <2>2. PICK last \in 1 .. Len(sounds) : sounds[last] # "button" /\ least = Len(sounds) - last
    BY <2>1
  <2>3. ASSUME NEW j \in last + 1 .. Len(sounds) PROVE sounds[j] = "button"
    <3>1. j \in 1 .. Len(sounds) /\ j > last
      BY <1>1, <2>2
    <3>2. sounds[j] # "button" => Len(sounds) - j \in Back
      BY <3>1
    <3>3. sounds[j] # "button" => least <= Len(sounds) - j
      BY <2>1, <3>2
    <3> QED BY <1>1, <2>2, <3>1, <3>3
  <2> HIDE DEF Back
  <2>4. LastEngine(last)
    BY <1>1, <2>2, <2>3 DEF LastEngine
  <2>5. sounds[last] # "engine_off"
    <3>1. CASE playing /\ \A i \in 1 .. Len(sounds) : sounds[i] # "engine_off"
      BY <2>2, <3>1
    <3>2. CASE \E i \in 1 .. Len(sounds) :
                 sounds[i] = "engine_on" /\ \A j \in i + 1 .. Len(sounds) : sounds[j] # "engine_off"
      <4>1. PICK i \in 1 .. Len(sounds) :
              sounds[i] = "engine_on" /\ \A j \in i + 1 .. Len(sounds) : sounds[j] # "engine_off"
        BY <3>2
      <4>2. i <= last
        <5>1. i > last => i \in last + 1 .. Len(sounds)
          BY <1>1, <2>2, <4>1
        <5>2. i > last => sounds[i] = "button"
          BY <2>3, <5>1
        <5> QED BY <2>2, <4>1, <5>2
      <4>3. i # last => last \in i + 1 .. Len(sounds)
        BY <1>1, <2>2, <4>2
      <4> QED BY <4>1, <4>3
    <3> QED BY <3>1, <3>2 DEF Sounding
  <2>6. sounds[last] = "engine_on"
    BY <1>2, <2>2, <2>5 DEF Sounds
  <2> QED BY <1>1, <1>4, <2>2, <2>4, <2>6
<1> QED BY <1>3, <1>4

(* A step appends what its updates told, a key at most the button, and     *)
(* only the scene takes sounds away, all of them.                          *)
LEMMA EngineInvKept == RadarInv /\ EngineInv /\ [Next]_vars => EngineInv'
<1> SUFFICES ASSUME RadarInv, EngineInv, [Next]_vars PROVE EngineInv'
  OBVIOUS
<1>0. /\ sounds \in Seq(Sounds) /\ Len(sounds) \in Nat /\ engineOutput \in Int /\ engine \in Int
      /\ asked = "asked" => \A i \in 1 .. Len(sounds) : sounds[i] = "button"
      /\ Heard(engineOutput) => Sounding(sounds, playing)
  BY DEF EngineInv
<1> DEFINE Same == /\ sounds' = sounds /\ engineOutput' = engineOutput /\ engine' = engine
                   /\ playing' = playing /\ (asked' = "asked" => asked = "asked")
<1>1. CASE Same
  BY <1>0, <1>1 DEF EngineInv, Heard, Abs, Sounding
<1>2. CASE UpdateScene
  <2>1. /\ sounds' = SubSeq(sounds, Len(sounds) + 1, Len(sounds))
        /\ engineOutput' = engineOutput /\ engine' = engine
    BY <1>2 DEF UpdateScene, Polled, Drained, helmVars
  <2>2. sounds' \in Seq(Sounds) /\ Len(sounds') = 0
    BY <1>0, <2>1
  <2>3. Heard(engineOutput) => playing'
    BY <1>0, <1>2, DrainedIsHeard
  <2>4. Heard(engineOutput') => Sounding(sounds', playing')
    BY <2>1, <2>2, <2>3 DEF Sounding
  <2> QED BY <1>0, <2>1, <2>2, <2>4 DEF EngineInv
<1>3. CASE StepWithoutMap
  <2>1. Same
    BY <1>3 DEF StepWithoutMap, helmVars, screenVars
  <2> QED BY <1>1, <2>1
<1>4. CASE \E slices \in 0 .. MaxSlices, hits \in 0 .. PointBudget : Step(slices, hits)
  <2>1. PICK slices \in 0 .. MaxSlices, hits \in 0 .. PointBudget : Step(slices, hits)
    BY <1>4
  <2> DEFINE ship == Sailed(simSpeed * slices)
  <2>2. /\ engineOutput' = ship.output /\ sounds' = sounds \o ship.told
        /\ engine' = engine /\ playing' = playing /\ asked' = "answered"
    BY <2>1 DEF Step, screenVars
  <2>3. simSpeed * slices \in Nat
    <3>1. simSpeed \in Nat /\ slices \in Nat
      BY SliceNumbers DEF RadarInv
    <3> QED BY <3>1
  <2>4. ship \in Sailing
    BY <2>3, SailedIsHeard
  <2> HIDE DEF ship
  <2>5. /\ ship.output \in Int /\ ship.told \in Seq(Sounds)
        /\ Heard(ship.output) => Sounding(ship.told, Heard(engineOutput))
    BY <2>4 DEF Sailing
  <2>6. Heard(ship.output) => Sounding(sounds \o ship.told, playing)
    BY <1>0, <2>5, SoundingOfBoth
  <2>7. sounds \o ship.told \in Seq(Sounds)
    BY <1>0, <2>5
  <2>8. Heard(engineOutput') => Sounding(sounds', playing')
    BY <2>2, <2>6
  <2> QED BY <1>0, <2>2, <2>5, <2>7, <2>8 DEF EngineInv
<1>5. CASE TakeMap
  <2>1. Same
    BY <1>5 DEF TakeMap, helmVars, screenVars
  <2> QED BY <1>1, <2>1
<1>6. CASE \E k \in Keys : OnKey(k)
  <2>1. PICK k \in Keys : OnKey(k)
    BY <1>6
  <2>2. asked' = asked /\ playing' = playing
    BY <2>1 DEF OnKey, screenVars
  <2>3. engineOutput' = engineOutput
    BY <2>1 DEF OnKey, SpeedKey, ClipKey, RadarKey, HelmKey, FastKey, helmVars
  <2>4. engine' \in Int
    <3>1. CASE HelmKey(k)
      BY <1>0, <3>1 DEF HelmKey, Moved, EngineModes, Turn
    <3>2. CASE SpeedKey(k) \/ ClipKey(k) \/ RadarKey(k) \/ FastKey(k)
      BY <1>0, <3>2 DEF SpeedKey, ClipKey, RadarKey, FastKey, helmVars
    <3> QED BY <2>1, <3>1, <3>2 DEF OnKey
  <2>5. sounds' = sounds \/ sounds' = Append(sounds, "button")
    BY <2>1 DEF OnKey, SpeedKey, ClipKey, RadarKey, HelmKey, FastKey
  <2>6. CASE sounds' = sounds
    BY <1>0, <2>2, <2>3, <2>4, <2>6 DEF EngineInv
  <2>7. CASE sounds' = Append(sounds, "button")
    <3>1. /\ sounds' \in Seq(Sounds)
          /\ Sounding(sounds, playing) => Sounding(sounds', playing)
          /\ (\A i \in 1 .. Len(sounds) : sounds[i] = "button") =>
               \A i \in 1 .. Len(sounds') : sounds'[i] = "button"
      BY <1>0, <2>7, ButtonIsNoEngine
    <3> QED BY <1>0, <2>2, <2>3, <2>4, <3>1 DEF EngineInv
  <2> QED BY <2>5, <2>6, <2>7
<1>7. CASE \E blocked \in SUBSET {"fore", "mid", "aft"} : UpdateScreen(blocked)
  <2>1. Same
    BY <1>7 DEF UpdateScreen, helmVars, screenVars
  <2> QED BY <1>1, <2>1
<1>8. CASE UNCHANGED vars
  <2>1. Same
    BY <1>8 DEF vars, helmVars, screenVars, messageVars
  <2> QED BY <1>1, <2>1
<1> QED BY <1>2, <1>3, <1>4, <1>5, <1>6, <1>7, <1>8 DEF Next

(* Once the scene has read its mail, an engine that runs is heard, for any *)
(* speed of the simulation and any number of keys and crossings of the     *)
(* threshold before (player.cpp:246-274, arena.cpp:142-168).               *)
THEOREM RunningEngineIsHeard == Spec => []EngineHeard
<1>1. EngineInv => EngineHeard
  <2> SUFFICES ASSUME EngineInv, asked = "asked", Heard(engineOutput) PROVE playing
    BY DEF EngineHeard
  <2>1. /\ \A i \in 1 .. Len(sounds) : sounds[i] = "button"
        /\ Sounding(sounds, playing)
    BY DEF EngineInv
  <2> QED BY <2>1 DEF Sounding
<1> QED BY <1>1, InitRadarInv, RadarInvKept, InitEngineInv, EngineInvKept, PTL DEF Spec
=============================================================================
