---------------------------- MODULE LibraryProofs ----------------------------
(***************************************************************************)
(* The parts of the library and the small programs, each for itself.       *)
(***************************************************************************)
EXTENDS Handles, FileMonitor, TacWar, DynamicText, Binstore, Config, Painter, Obj2mesh, Induction,
        SequenceTheorems

(***************************************************************************)
(* Handles: wrappers account for every object of the library, for any      *)
(* number of wrappers and names.                                           *)
(***************************************************************************)
HandlesTypeOK ==
  /\ self \in [Wrappers -> Names \cup {Nothing}]
  /\ tex \in [Wrappers -> Names \cup {Nothing}]
  /\ live \subseteq Names /\ lost \subseteq Names

HandlesInv == HandlesTypeOK /\ HandlesAccounted

(* What two variables of a wrapper own.                                    *)
Of(w) == {self[w], tex[w]} \ {Nothing}

(* A number in the hands of two wrappers would be freed twice: what is     *)
(* taken from one wrapper leaves the others their own.                     *)
LEMMA EmptiedOwned ==
  ASSUME HandlesTypeOK, OwnedOnce, NEW w \in Wrappers,
         NEW s \in Names \cup {Nothing}, NEW t \in Names \cup {Nothing},
         self' = [self EXCEPT ![w] = s], tex' = [tex EXCEPT ![w] = t]
  PROVE  Owned' = (Owned \ Of(w)) \cup ({s, t} \ {Nothing})
BY DEF HandlesTypeOK, OwnedOnce, Owned, Of

LEMMA HandlesStep ==
  ASSUME HandlesInv, HandlesNext
  PROVE  HandlesInv'
<1> USE NamesAssumption DEF HandlesInv, HandlesAccounted
<1> Nothing \notin Names
  BY DEF NamesAssumption
<1>1. ASSUME NEW w \in Wrappers, NEW stopped \in BOOLEAN,
             LeaveHandle(w, stopped) \/ CreateHandleEmpty(w, stopped)
      PROVE  HandlesInv'
  <2>1. /\ self' = [self EXCEPT ![w] = Nothing] /\ tex' = [tex EXCEPT ![w] = Nothing]
        /\ live' = live \ Freed(w, stopped) /\ lost' = lost \cup Kept(w, stopped)
    BY <1>1 DEF LeaveHandle, CreateHandleEmpty
  <2>2. Of(w) \subseteq Owned /\ Freed(w, stopped) \subseteq Of(w) /\ Kept(w, stopped) = Of(w) \ Freed(w, stopped)
    BY DEF Of, Owned, Freed, Kept
  <2>3. HandlesTypeOK'
    BY <2>1, <2>2 DEF HandlesTypeOK
  <2>4. OwnedOnce'
    BY <2>1 DEF HandlesTypeOK, OwnedOnce
  <2>5. Owned' = Owned \ Of(w)
    BY <2>1 DEF HandlesTypeOK, OwnedOnce, Owned, Of
  <2> QED BY <2>1, <2>2, <2>3, <2>4, <2>5
<1>2. ASSUME NEW w \in Wrappers, NEW made \in SUBSET Names, NEW stopped \in BOOLEAN,
             CreateHandle(w, made, stopped)
      PROVE  HandlesInv'
  <2> USE DEF HandlesTypeOK
  <2>1. PICK own \in made, ownTex \in IF class.texture THEN made ELSE {Nothing} :
          /\ own # ownTex
          /\ live' = (live \ Freed(w, stopped)) \cup {own} \cup ({ownTex} \ {Nothing})
          /\ self' = [self EXCEPT ![w] = own]
          /\ tex' = [tex EXCEPT ![w] = ownTex]
    BY <1>2 DEF CreateHandle
  <2>2. own \in Names \ live /\ ownTex \in (Names \ live) \cup {Nothing} /\ lost' = lost \cup Kept(w, stopped)
    BY <1>2, <2>1 DEF CreateHandle
  <2>3. \A a \in Wrappers : own \notin {self[a], tex[a]} /\ (ownTex # Nothing => ownTex \notin {self[a], tex[a]})
    BY <2>2 DEF Owned
  <2>4. OwnedOnce'
    BY <2>1, <2>2, <2>3 DEF OwnedOnce
  <2>5. Owned' = (Owned \ Of(w)) \cup ({own, ownTex} \ {Nothing})
    BY <2>1, <2>2, EmptiedOwned
  <2>6. Of(w) \subseteq Owned /\ Freed(w, stopped) \subseteq Of(w) /\ Kept(w, stopped) = Of(w) \ Freed(w, stopped)
    BY DEF Of, Owned, Freed, Kept
  <2>7. HandlesTypeOK'
    BY <2>1, <2>2, <2>6
  <2>8. {own, ownTex} \cap (live \cup lost) = {}
    BY <2>2
  <2>9. live' = Owned' \cup lost'
    BY <2>1, <2>2, <2>5, <2>6
  <2>10. Owned' \cap lost' = {}
    BY <2>2, <2>5, <2>6, <2>8
  <2> QED BY <2>4, <2>7, <2>9, <2>10
<1>3. ASSUME NEW made \in SUBSET Names, CreateHandleThrows(made)
      PROVE  HandlesInv'
  <2>1. /\ made \cap live = {} /\ self' = self /\ tex' = tex
        /\ live' = live \cup made /\ lost' = lost \cup made
    BY <1>3 DEF CreateHandleThrows
  <2>2. HandlesTypeOK'
    BY <2>1 DEF HandlesTypeOK
  <2>3. OwnedOnce' /\ Owned' = Owned
    BY <2>1 DEF OwnedOnce, Owned
  <2> QED BY <2>1, <2>2, <2>3
<1>4. ASSUME NEW a \in Wrappers, NEW b \in Wrappers, NEW stopped \in BOOLEAN, AssignHandle(a, b, stopped)
      PROVE  HandlesInv'
  <2> USE <1>4 DEF AssignHandle, HandleMoved, SelfMoved
  <2>1. HandlesTypeOK'
    BY DEF HandlesTypeOK, Freed, Kept
  <2>2. OwnedOnce'
    BY DEF HandlesTypeOK, OwnedOnce
  <2>3. Owned' = Owned \ Of(a)
    BY DEF HandlesTypeOK, OwnedOnce, Owned, Of
  <2>4. Of(a) \subseteq Owned /\ Freed(a, stopped) \subseteq Of(a) /\ Kept(a, stopped) = Of(a) \ Freed(a, stopped)
    BY DEF Of, Owned, Freed, Kept
  <2> QED BY <2>1, <2>2, <2>3, <2>4
<1>5. ASSUME NEW a \in Wrappers, NEW b \in Wrappers, SwapHandles(a, b)
      PROVE  HandlesInv'
  <2> USE <1>5 DEF SwapHandles
  <2>1. HandlesTypeOK' /\ OwnedOnce'
    BY DEF HandlesTypeOK, OwnedOnce
  <2>2. Owned' = Owned
    BY DEF HandlesTypeOK, Owned
  <2> QED BY <2>1, <2>2
<1> QED BY <1>1, <1>2, <1>3, <1>4, <1>5 DEF HandlesNext

(* In every program that makes, moves, swaps and drops wrappers, whatever  *)
(* fails on the way, each object of the library has exactly one owner or   *)
(* is one of the lost: no wrapper frees what another one still uses        *)
(* (texture.cpp:41-75, vao.cpp:8-127, framebuffer.cpp:8-129).              *)
THEOREM HandlesSafe == HandlesSpec => []HandlesAccounted
<1>1. HandlesInit => HandlesInv
  BY DEF HandlesInit, HandlesInv, HandlesTypeOK, HandlesAccounted, OwnedOnce, Owned
<1>2. HandlesInv /\ [HandlesNext]_handlesVars => HandlesInv'
  <2>1. CASE UNCHANGED handlesVars
    BY <2>1 DEF handlesVars, HandlesInv, HandlesTypeOK, HandlesAccounted, OwnedOnce, Owned
  <2> QED BY <2>1, HandlesStep
<1>3. HandlesInv => HandlesAccounted
  BY DEF HandlesInv
<1> QED BY <1>1, <1>2, <1>3, PTL DEF HandlesSpec

(***************************************************************************)
(* FileMonitor: no change of a watched file is forgotten, for any number   *)
(* of files and any length of the kernel's queue and of Check's buffer.    *)
(*                                                                         *)
(* The invariant is inductive as it stands, with the types.  What carries  *)
(* it: an event that repeats the newest is not queued, but then the newest *)
(* says the same; and what Check does not read keeps its place in order.   *)
(***************************************************************************)
Events == {"modified", "ignored"} \X Files
Waits(queue, f) == \E i \in DOMAIN queue : queue[i] = <<"modified", f>>

MonitorTypeOK ==
  /\ watched \subseteq Files /\ unseen \subseteq Files
  /\ events \in Seq(Events)
  /\ refused \in BOOLEAN

MonitorInv == MonitorTypeOK /\ ChangesAreReported

-----------------------------------------------------------------------------
(* A queued event is in the queue, and so is what was in it before.        *)
LEMMA QueuedKeeps ==
  ASSUME events \in Seq(Events), NEW event \in Events
  PROVE  /\ Queued(event) \in Seq(Events)
         /\ \E i \in DOMAIN Queued(event) : Queued(event)[i] = event
         /\ \A i \in DOMAIN events : i \in DOMAIN Queued(event) /\ Queued(event)[i] = events[i]
<1>1. CASE events # <<>> /\ Last(events) = event
  <2>1. Queued(event) = events
    BY <1>1 DEF Queued
  <2>2. Len(events) \in DOMAIN events /\ events[Len(events)] = event
    BY <1>1 DEF Last
  <2> QED BY <2>1, <2>2
<1>2. CASE ~(events # <<>> /\ Last(events) = event)
  <2>1. Queued(event) = Append(events, event)
    BY <1>2 DEF Queued
  <2> QED BY <2>1
<1> QED BY <1>1, <1>2

(* What was waiting still is after another event.                          *)
LEMMA QueuedWaits ==
  ASSUME MonitorInv, NEW event \in Events, events' = Queued(event), ~refused
  PROVE  \A f \in unseen : Waits(events', f)
BY QueuedKeeps DEF MonitorInv, MonitorTypeOK, ChangesAreReported, Waits

(* One read takes a beginning of the queue and leaves the rest.            *)
LEMMA ReadAll ==
  ASSUME events \in Seq(Events), NEW i \in DOMAIN events
  PROVE  LET rest == SubSeq(events, Len(Read) + 1, Len(events)) IN
         \/ i \in DOMAIN Read /\ Read[i] = events[i]
         \/ \E j \in DOMAIN rest : rest[j] = events[i]
<1> DEFINE rest == SubSeq(events, Len(Read) + 1, Len(events))
<1>1. Len(Read) \in 0 .. Len(events) /\ Read = SubSeq(events, 1, Len(Read)) /\ DOMAIN Read = 1 .. Len(Read)
  BY FileMonitorAssumption DEF Read
<1>2. CASE i <= Len(Read)
  BY <1>1, <1>2
<1>3. CASE i > Len(Read)
  <2>1. i - Len(Read) \in DOMAIN rest /\ rest[i - Len(Read)] = events[i]
    BY <1>1, <1>3
  <2> QED BY <2>1
<1> QED BY <1>1, <1>2, <1>3

LEMMA MonitorStep ==
  ASSUME MonitorInv, MonitorNext
  PROVE  MonitorInv'
<1>1. ASSUME NEW f \in Files, WatchFile(f) PROVE MonitorInv'
  BY <1>1 DEF WatchFile, MonitorInv, MonitorTypeOK, ChangesAreReported
<1>2. ASSUME NEW f \in Files, RemoveWatch(f) PROVE MonitorInv'
  <2>1. <<"ignored", f>> \in Events /\ events' = Queued(<<"ignored", f>>)
    BY <1>2 DEF RemoveWatch, Events
  <2>2. MonitorTypeOK'
    BY <1>2, <2>1, QueuedKeeps DEF RemoveWatch, MonitorInv, MonitorTypeOK
  <2>3. ChangesAreReported'
    BY <1>2, <2>1, QueuedWaits DEF RemoveWatch, ChangesAreReported, Waits
  <2> QED BY <2>2, <2>3 DEF MonitorInv
<1>3. ASSUME NEW f \in Files, Modify(f) PROVE MonitorInv'
  <2>1. <<"modified", f>> \in Events /\ events' = Queued(<<"modified", f>>)
    BY <1>3 DEF Modify, Events
  <2>2. MonitorTypeOK'
    BY <1>3, <2>1, QueuedKeeps DEF Modify, MonitorInv, MonitorTypeOK
  <2>3. Waits(events', f)
    BY <2>1, QueuedKeeps DEF MonitorInv, MonitorTypeOK, Waits
  <2>4. ChangesAreReported'
    BY <1>3, <2>1, <2>3, QueuedWaits DEF Modify, ChangesAreReported, Waits
  <2> QED BY <2>2, <2>4 DEF MonitorInv
<1>4. ASSUME NEW erring \in 0 .. BufferSize, Check(erring) PROVE MonitorInv'
  <2>1. MonitorTypeOK'
    BY <1>4, FileMonitorAssumption DEF Check, Read, MonitorInv, MonitorTypeOK
  <2>2. ASSUME ~refused', NEW f \in unseen' PROVE Waits(events', f)
    <3>1. ~refused /\ erring = 0
      BY <1>4, <2>2 DEF Check
    <3>2. f \in unseen /\ \A i \in Notified(Read) : Read[i][2] # f
      BY <1>4, <2>2, <3>1 DEF Check, Processed
    <3>3. PICK i \in DOMAIN events : events[i] = <<"modified", f>>
      BY <3>1, <3>2 DEF MonitorInv, ChangesAreReported
    <3>4. ~(i \in DOMAIN Read /\ Read[i] = events[i])
      BY <3>2, <3>3 DEF Notified
    <3>5. events' = SubSeq(events, Len(Read) + 1, Len(events))
      BY <1>4 DEF Check
    <3> QED BY <3>3, <3>4, <3>5, ReadAll DEF Waits, MonitorInv, MonitorTypeOK
  <2> QED BY <2>1, <2>2 DEF MonitorInv, ChangesAreReported, Waits
<1> QED BY <1>1, <1>2, <1>3, <1>4 DEF MonitorNext

(* Check calls OnChange for every file modified under a watch, sooner or   *)
(* later read, whatever else is in the queue and also after the watch is   *)
(* gone, unless a processor has answered with an error (monfs.cpp:80-100). *)
THEOREM ChangesReported == MonitorSpec => []ChangesAreReported
<1>1. MonitorInit => MonitorInv
  <2>1. <<>> \in Seq(Events)
    OBVIOUS
  <2> QED BY <2>1 DEF MonitorInit, MonitorInv, MonitorTypeOK, ChangesAreReported
<1>2. MonitorInv /\ [MonitorNext]_monitorVars => MonitorInv'
  <2>1. CASE UNCHANGED monitorVars
    BY <2>1 DEF monitorVars, MonitorInv, MonitorTypeOK, ChangesAreReported
  <2> QED BY <2>1, MonitorStep
<1>3. MonitorInv => ChangesAreReported
  BY DEF MonitorInv
<1> QED BY <1>1, <1>2, <1>3, PTL DEF MonitorSpec

(***************************************************************************)
(* tac.war.                                                                *)
(*                                                                         *)
(* The trooper that moves is where its time puts it, and the time ends in  *)
(* the turn in which it passes the whole way; one turn is LateBound at the *)
(* most and is multiplied by Fast at the most.                             *)
(***************************************************************************)
TacWarInv ==
  /\ late \in 0 .. LateBound
  /\ time \in Int /\ timeMult \in {1, Fast} /\ oldPlace \in Int /\ newPlace \in Int
  /\ sel \in DOMAIN StartPlaces
  /\ place \in [DOMAIN StartPlaces -> Int] /\ aim \in [DOMAIN StartPlaces -> Int]
  /\ TroopersArrive

(* A turn's way.                                                           *)
LEMMA TurnIsShort ==
  ASSUME NEW dt \in 0 .. LateBound, timeMult \in {1, Fast}
  PROVE  dt * timeMult \in 0 .. LateBound * Fast
<1>1. LateBound \in Nat /\ Fast \in Nat /\ Fast >= 1 /\ dt \in Nat /\ dt <= LateBound
  BY TacWarAssumption
<1>2. \A a, b, c \in Nat : a <= b => a * c <= b * c /\ a * c \in Nat
  OBVIOUS
<1>3. dt * Fast <= LateBound * Fast /\ dt * Fast \in Nat
  BY <1>1, <1>2
<1>4. LateBound <= LateBound * Fast /\ LateBound * Fast \in Nat
  <2>1. \A a, b \in Nat : b >= 1 => a <= a * b /\ a * b \in Nat
    OBVIOUS
  <2> QED BY <1>1, <2>1
<1>5. CASE timeMult = 1
  BY <1>1, <1>4, <1>5
<1>6. CASE timeMult = Fast
  BY <1>1, <1>3, <1>4, <1>6
<1> QED BY <1>5, <1>6

LEMMA SomeTurn == LateBound * Fast \in Nat /\ LateBound * Fast > 0
<1>1. LateBound \in Nat /\ Fast \in Nat /\ Fast >= 1 /\ LateBound >= 1
  BY TacWarAssumption
<1>2. \A a, b \in Nat : a >= 1 /\ b >= 1 => a * b >= 1 /\ a * b \in Nat
  OBVIOUS
<1> QED BY <1>1, <1>2

(* All are where they were sent, at the start.                             *)
LEMMA InitTacWarInv == TacInit => TacWarInv
<1> SUFFICES ASSUME TacInit PROVE TacWarInv
  OBVIOUS
<1>1. /\ StartPlaces \in [DOMAIN StartPlaces -> Int] /\ 1 \in DOMAIN StartPlaces
      /\ LateBound \in Nat
  BY TacWarAssumption
<1>2. /\ late = 0 /\ mode = "select" /\ sel = 1 /\ place = StartPlaces /\ aim = StartPlaces
      /\ oldPlace = 0 /\ newPlace = 0 /\ time = 0 /\ timeMult = 1
  BY DEF TacInit
<1>3. TroopersArrive
  BY <1>1, <1>2, SomeTurn DEF TroopersArrive, Distance
<1> QED BY <1>1, <1>2, <1>3 DEF TacWarInv

(* One update of the game.                                                 *)
LEMMA GameUpdateKeeps ==
  ASSUME TacWarInv, NEW dt \in 0 .. LateBound, GameUpdate(dt), late' \in 0 .. LateBound
  PROVE  TacWarInv'
<1> DEFINE Turn == LateBound * Fast
<1>0. Turn \in Nat /\ Turn > 0
  BY SomeTurn
<1> HIDE DEF Turn
<1>1. /\ time \in Int /\ timeMult \in {1, Fast} /\ oldPlace \in Int /\ newPlace \in Int
      /\ sel \in DOMAIN StartPlaces
      /\ place \in [DOMAIN StartPlaces -> Int] /\ aim \in [DOMAIN StartPlaces -> Int]
  BY DEF TacWarInv
<1>2. \A t \in DOMAIN StartPlaces :
        IF mode = "move" /\ t = sel
        THEN aim[t] = newPlace /\ place[t] = Mixed(time) /\ time < Fulltime + Turn
        ELSE Distance(place[t], aim[t]) < Turn
  BY <1>1 DEF TacWarInv, TroopersArrive, Turn
<1>3. CASE mode = "move" /\ time < Fulltime
  <2> DEFINE way == dt * timeMult
  <2>1. way \in 0 .. Turn
    BY <1>1, TurnIsShort DEF Turn
  <2>2. /\ time' = time + way /\ place' = [place EXCEPT ![sel] = Mixed(time')]
        /\ UNCHANGED <<mode, sel, oldPlace, newPlace, timeMult, aim>>
    BY <1>3 DEF GameUpdate
  <2> HIDE DEF way
  <2>3. time' \in Int /\ Fulltime \in Int /\ Mixed(time') \in Int
    BY <1>0, <1>1, <2>1, <2>2 DEF Mixed, Fulltime, Distance
  <2>4. time' < Fulltime + Turn /\ Fulltime' = Fulltime
    BY <1>0, <1>1, <1>3, <2>1, <2>2, <2>3 DEF Fulltime, Distance
  <2>5. place' \in [DOMAIN StartPlaces -> Int]
    BY <1>1, <2>2, <2>3
  <2>6. ASSUME NEW t \in DOMAIN StartPlaces
        PROVE  IF mode' = "move" /\ t = sel'
               THEN aim'[t] = newPlace' /\ place'[t] = Mixed(time)' /\ time' < Fulltime' + Turn
               ELSE Distance(place'[t], aim'[t]) < Turn
    <3>0. Mixed(time)' = Mixed(time')
      BY <2>2 DEF Mixed
    <3>1. CASE t = sel
      <4>1. place'[t] = Mixed(time')
        BY <1>1, <2>2, <3>1
      <4> QED BY <1>2, <1>3, <2>2, <2>4, <3>0, <3>1, <4>1
    <3>2. CASE t # sel
      <4>1. place'[t] = place[t] /\ aim'[t] = aim[t]
        BY <1>1, <2>2, <3>2
      <4> QED BY <1>2, <2>2, <3>2, <4>1
    <3> QED BY <3>1, <3>2
  <2>7. TroopersArrive'
    BY <2>5, <2>6 DEF TroopersArrive, Turn, Distance
  <2> QED BY <1>1, <2>2, <2>3, <2>5, <2>7 DEF TacWarInv
<1>4. CASE ~(mode = "move" /\ time < Fulltime)
  <2>1. mode' = "select" /\ UNCHANGED <<sel, place, oldPlace, newPlace, time, timeMult, aim>>
    BY <1>4 DEF GameUpdate
  <2>2. ASSUME NEW t \in DOMAIN StartPlaces PROVE Distance(place[t], aim[t]) < Turn
    <3>1. CASE mode = "move" /\ t = sel
      <4>1. aim[t] = newPlace /\ place[t] = Mixed(time) /\ time < Fulltime + Turn /\ ~(time < Fulltime)
        BY <1>2, <1>4, <3>1
      <4> QED BY <1>0, <1>1, <4>1 DEF Mixed, Fulltime, Distance
    <3>2. CASE ~(mode = "move" /\ t = sel)
      BY <1>2, <3>2
    <3> QED BY <3>1, <3>2
  <2>3. TroopersArrive'
    BY <1>1, <2>1, <2>2 DEF TroopersArrive, Turn, Distance
  <2> QED BY <1>1, <2>1, <2>3 DEF TacWarInv
<1> QED BY <1>3, <1>4

(* One click on the game.                                                  *)
LEMMA GameClickKeeps ==
  ASSUME TacWarInv, NEW p \in Places, GameClick(p), late' = late
  PROVE  TacWarInv'
<1> DEFINE Turn == LateBound * Fast
<1>0. Turn \in Nat /\ Turn > 0
  BY SomeTurn
<1> HIDE DEF Turn
<1>1. /\ time \in Int /\ timeMult \in {1, Fast} /\ oldPlace \in Int /\ newPlace \in Int
      /\ sel \in DOMAIN StartPlaces /\ late \in 0 .. LateBound
      /\ place \in [DOMAIN StartPlaces -> Int] /\ aim \in [DOMAIN StartPlaces -> Int]
  BY DEF TacWarInv
<1>2. \A t \in DOMAIN StartPlaces :
        IF mode = "move" /\ t = sel
        THEN aim[t] = newPlace /\ place[t] = Mixed(time) /\ time < Fulltime + Turn
        ELSE Distance(place[t], aim[t]) < Turn
  BY <1>1 DEF TacWarInv, TroopersArrive, Turn
<1>3. CASE SelectTrooper(p)
  <2>1. /\ mode = "select" /\ mode' = mode /\ UNCHANGED <<place, aim, oldPlace, newPlace, time, timeMult>>
    BY <1>3 DEF SelectTrooper, orderVars
  <2> DEFINE H == Hit(p)
  <2>2. H \subseteq DOMAIN StartPlaces /\ H # {} /\ DOMAIN StartPlaces \subseteq Nat
    <3>1. H \subseteq DOMAIN place /\ DOMAIN place = DOMAIN StartPlaces
      BY <1>1 DEF Hit
    <3>2. H # {}
      BY <1>3 DEF SelectTrooper
    <3>3. DOMAIN StartPlaces = 1 .. Len(StartPlaces) /\ Len(StartPlaces) \in Nat
      BY TacWarAssumption
    <3> HIDE DEF H
    <3> QED BY <3>1, <3>2, <3>3
  <2>3. \E t \in H : \A s \in H : t <= s
    <3> HIDE DEF H
    <3>1. H \subseteq Nat
      BY <2>2
    <3> QED BY <2>2, <3>1, LeastOf
  <2>4. sel' = CHOOSE t \in H : \A s \in H : t <= s
    BY <1>3 DEF SelectTrooper
  <2> HIDE DEF H
  <2>5. sel' \in H
    BY <2>3, <2>4
  <2>6. TroopersArrive'
    BY <1>1, <1>2, <2>1 DEF TroopersArrive, Turn, Distance
  <2> QED BY <1>1, <2>1, <2>2, <2>5, <2>6 DEF TacWarInv
<1>4. CASE OrderMove(p)
  <2>1. /\ mode = "select" /\ Hit(p) = {}
        /\ mode' = "move" /\ oldPlace' = place[sel] /\ newPlace' = p
        /\ time' = 0 /\ timeMult' = 1 /\ aim' = [aim EXCEPT ![sel] = p]
        /\ sel' = sel /\ place' = place
    BY <1>4 DEF OrderMove, TimeAtOrder, TimeZero
  <2>2. p \in Int /\ place[sel] \in Int
    BY <1>1, TacWarAssumption
  <2>3. aim' \in [DOMAIN StartPlaces -> Int] /\ aim'[sel] = p
    BY <1>1, <2>1, <2>2
  <2>4. Mixed(time)' = place[sel] /\ Fulltime' \in Nat
    BY <2>1, <2>2 DEF Mixed, Fulltime, Distance
  <2>5. time' < Fulltime' + Turn
    BY <1>0, <2>1, <2>2 DEF Fulltime, Distance
  <2>6. ASSUME NEW t \in DOMAIN StartPlaces
        PROVE  IF mode' = "move" /\ t = sel'
               THEN aim'[t] = newPlace' /\ place'[t] = Mixed(time)' /\ time' < Fulltime' + Turn
               ELSE Distance(place'[t], aim'[t]) < Turn
    <3>1. CASE t = sel
      BY <2>1, <2>3, <2>4, <2>5, <3>1
    <3>2. CASE t # sel
      <4>1. aim'[t] = aim[t] /\ place'[t] = place[t]
        BY <1>1, <2>1, <3>2
      <4> QED BY <1>2, <2>1, <3>2, <4>1
    <3> QED BY <3>1, <3>2
  <2>7. TroopersArrive'
    BY <1>1, <2>1, <2>6 DEF TroopersArrive, Turn, Distance
  <2> QED BY <1>1, <2>1, <2>2, <2>3, <2>7 DEF TacWarInv
<1>5. CASE HurryUp
  <2>1. timeMult' = Fast /\ UNCHANGED <<sel, place, mode, oldPlace, newPlace, time, aim>>
    BY <1>5 DEF HurryUp
  <2>2. TroopersArrive'
    BY <1>1, <1>2, <2>1 DEF TroopersArrive, Turn, Distance, Mixed, Fulltime
  <2> QED BY <1>1, <2>1, <2>2 DEF TacWarInv
<1> QED BY <1>3, <1>4, <1>5 DEF GameClick

(* What leaves the game and the clock alone.                               *)
LEMMA TacStutter ==
  ASSUME TacWarInv, UNCHANGED gameVars, late' \in 0 .. LateBound PROVE TacWarInv'
<1>1. UNCHANGED <<sel, place, mode, oldPlace, newPlace, time, timeMult, aim>>
  BY DEF gameVars, orderVars
<1>2. TroopersArrive'
  BY <1>1 DEF TacWarInv, TroopersArrive, Distance, Mixed, Fulltime
<1> QED BY <1>1, <1>2 DEF TacWarInv

LEMMA TacWarInvKept == TacWarInv /\ [TacNext]_tacVars => TacWarInv'
<1> SUFFICES ASSUME TacWarInv, [TacNext]_tacVars PROVE TacWarInv'
  OBVIOUS
<1>0. late \in 0 .. LateBound /\ LateBound \in Nat
  BY TacWarAssumption DEF TacWarInv
<1>1. CASE Click \/ CloseWindow \/ SceneAction \/ ChangeState \/ Poisoned
  <2>1. UNCHANGED gameVars /\ UNCHANGED late
    BY <1>1, Zenon DEF Click, CloseWindow, SceneAction, ChangeState, Poisoned
  <2> QED BY <1>0, <2>1, TacStutter
<1>2. CASE \E frame \in 0 .. FrameBound : SceneUpdate(frame)
  <2>1. PICK frame \in 0 .. FrameBound : SceneUpdate(frame)
    BY <1>2
  <2>2. late' = late + frame /\ late + frame \in 0 .. LateBound
    BY <1>0, <2>1, TacWarAssumption DEF SceneUpdate
  <2>3. CASE scene = "game"
    BY <2>1, <2>2, <2>3, GameUpdateKeeps DEF SceneUpdate
  <2>4. CASE scene # "game"
    BY <2>1, <2>2, <2>4, TacStutter DEF SceneUpdate
  <2> QED BY <2>3, <2>4
<1>3. CASE NoLetter
  BY <1>0, <1>3, TacStutter DEF NoLetter
<1>4. CASE SceneClick
  <2>1. late' = late
    BY <1>4 DEF SceneClick
  <2>2. CASE scene = "menu"
    <3>1. UNCHANGED gameVars
      BY <1>4, <2>2 DEF SceneClick
    <3> QED BY <1>0, <2>1, <3>1, TacStutter
  <2>3. CASE scene # "menu"
    <3>1. PICK p \in Places : GameClick(p)
      BY <1>4, <2>3 DEF SceneClick
    <3> QED BY <2>1, <3>1, GameClickKeeps
  <2> QED BY <2>2, <2>3
<1>5. CASE UNCHANGED tacVars
  BY <1>0, <1>5, TacStutter DEF tacVars
<1> QED BY <1>1, <1>2, <1>3, <1>4, <1>5 DEF TacNext

(* A trooper comes to where it was sent last, or beyond it by less than    *)
(* the way of one turn, for any number of troopers, any places and clicks  *)
(* and any bound on the time of a turn (tacgame.cpp:24-87,                 *)
(* tacwar.cpp:148-193).                                                    *)
THEOREM TroopersComeToTheirPlaces == TacSpec => []TroopersArrive
<1>1. TacWarInv => TroopersArrive
  BY DEF TacWarInv
<1> QED BY <1>1, InitTacWarInv, TacWarInvKept, PTL DEF TacSpec

(***************************************************************************)
(* DynamicText.                                                            *)
(*                                                                         *)
(* Without an escape a text makes as many glyphs as are counted for it, so *)
(* that the part of the buffer that is drawn is written anew.              *)
(***************************************************************************)
Made == [glyphs : Seq(Symbols), escaped : BOOLEAN]

(* What MakeText has made after k symbols, by the fold's equation.         *)
LEMMA GlyphsUnfold ==
  ASSUME NEW t \in Seq(Symbols)
  PROVE  \E made \in [0 .. Len(t) -> Made] :
           /\ made[0] = [glyphs |-> <<>>, escaped |-> FALSE]
           /\ \A k \in 1 .. Len(t) : made[k] = MakeSymbol(made[k - 1], t[k])
           /\ Glyphs(t) = made[Len(t)].glyphs
<1> DEFINE n == Len(t)
           base == [glyphs |-> <<>>, escaped |-> FALSE]
           Code(f) == [u \in SUBSET (1 .. n) |->
                         IF u = {} THEN base ELSE MakeSymbol(f[u \ {Max(u)}], t[Max(u)])]
           iter == CHOOSE f : f = Code(f)
           G == [i \in 1 .. n |-> [d \in Made |-> MakeSymbol(d, t[i])]]
<1>1. n \in Nat /\ DOMAIN t = 1 .. n /\ \A i \in 1 .. n : t[i] \in Symbols
  OBVIOUS
<1>2. Glyphs(t) = iter[1 .. n].glyphs
  BY <1>1 DEF Glyphs, Written, FoldLeft, MapThenFoldSet
<1>3. ASSUME NEW d \in Made, NEW s \in Symbols PROVE MakeSymbol(d, s) \in Made
  <2>1. /\ d.glyphs \in Seq(Symbols) /\ d.escaped \in BOOLEAN
        /\ d = [glyphs |-> d.glyphs, escaped |-> d.escaped]
    BY DEF Made
  <2>2. [d EXCEPT !.escaped = FALSE] \in Made /\ [d EXCEPT !.escaped = TRUE] \in Made
    BY DEF Made
  <2>3. Append(d.glyphs, s) \in Seq(Symbols)
    BY <2>1
  <2>4. [d EXCEPT !.glyphs = Append(@, s)] \in Made
    BY <2>1, <2>3 DEF Made
  <2> QED BY <2>2, <2>4 DEF MakeSymbol
<1>4. base \in Made
  BY DEF Made
<1> HIDE DEF n, base
<1>5. \A i \in 1 .. n, d \in Made : G[i][d] = MakeSymbol(d, t[i]) /\ G[i][d] \in Made
  BY <1>1, <1>3
<1> HIDE DEF G
<1>6. PICK f : IsLeftFold(f, n, Made, base, G)
  BY <1>1, <1>4, <1>5, LeftFoldExists
<1>7. f = Code(f)
  BY <1>5, <1>6 DEF IsLeftFold
<1>8. iter = Code(iter)
  BY <1>7
<1> HIDE DEF iter
<1>9. iter[{}] = base
  BY <1>8
<1>10. ASSUME NEW u \in SUBSET (1 .. n), u # {}, Max(u) \in 1 .. n, iter[u \ {Max(u)}] \in Made
       PROVE  iter[u] = G[Max(u)][iter[u \ {Max(u)}]]
  BY <1>5, <1>8, <1>10
<1>11. FoldsLeft(iter, n, Made, base, G)
  BY <1>9, <1>10 DEF FoldsLeft
<1>12. PICK made : StepsTo(made, n, Made, base, G, iter[1 .. n])
  BY <1>1, <1>4, <1>5, <1>11, LeftFoldSteps
<1>13. /\ made \in [0 .. n -> Made] /\ made[0] = base /\ made[n] = iter[1 .. n]
       /\ \A k \in 1 .. n : made[k] = G[k][made[k - 1]]
  BY <1>12 DEF StepsTo
<1>14. ASSUME NEW k \in 1 .. n PROVE made[k] = MakeSymbol(made[k - 1], t[k])
  <2>1. k - 1 \in 0 .. n
    BY <1>1
  <2> QED BY <1>5, <1>13, <2>1
<1> QED BY <1>2, <1>13, <1>14 DEF n, base

(* Without escapes, as many glyphs as symbols that are no spaces.          *)
LEMMA GlyphsAreCounted ==
  ASSUME NEW t \in Seq(Symbols)
  PROVE  /\ Glyphs(t) \in Seq(Symbols) /\ CountDrawn(t) \in Nat
         /\ (\A i \in DOMAIN t : t[i] # "escape") => Len(Glyphs(t)) = CountDrawn(t)
<1>0. Len(t) \in Nat /\ DOMAIN t = 1 .. Len(t) /\ \A i \in 1 .. Len(t) : t[i] \in Symbols
  OBVIOUS
<1> DEFINE n == Len(t)
           Inked(k) == {i \in 1 .. k : t[i] # "space"}
<1>1. PICK made \in [0 .. n -> Made] :
        /\ made[0] = [glyphs |-> <<>>, escaped |-> FALSE]
        /\ \A k \in 1 .. n : made[k] = MakeSymbol(made[k - 1], t[k])
        /\ Glyphs(t) = made[n].glyphs
  BY GlyphsUnfold
<1> HIDE DEF n
<1>2. Glyphs(t) \in Seq(Symbols)
  BY <1>0, <1>1 DEF Made, n
<1>3. \A k \in Nat : IsFiniteSet(Inked(k)) /\ Cardinality(Inked(k)) \in Nat
  <2> TAKE k \in Nat
  <2>1. IsFiniteSet(1 .. k) /\ Inked(k) \subseteq 1 .. k
    BY FS_Interval
  <2> HIDE DEF Inked
  <2> QED BY <2>1, FS_Subset, FS_CardinalityType
<1>4. CountDrawn(t) = Cardinality(Inked(n))
  BY <1>0 DEF CountDrawn, n
<1>5. ASSUME \A i \in DOMAIN t : t[i] # "escape" PROVE Len(Glyphs(t)) = CountDrawn(t)
  <2> DEFINE T == {k \in Nat : k \in 0 .. n => ~made[k].escaped /\ Len(made[k].glyphs) = Cardinality(Inked(k))}
  <2>1. 0 \in T
    <3>1. Inked(0) = {}
      OBVIOUS
    <3>2. Cardinality(Inked(0)) = 0
      BY <3>1, FS_EmptySet
    <3> QED BY <1>1, <3>2
  <2>2. ASSUME NEW k \in Nat, k \in T PROVE k + 1 \in T
    <3> SUFFICES ASSUME k + 1 \in 0 .. n
                 PROVE  ~made[k + 1].escaped /\ Len(made[k + 1].glyphs) = Cardinality(Inked(k + 1))
      OBVIOUS
    <3>0. n \in Nat
      BY <1>0 DEF n
    <3>1. k \in 0 .. n /\ k + 1 \in 1 .. n /\ (k + 1) - 1 = k
      BY <3>0
    <3>2. ~made[k].escaped /\ Len(made[k].glyphs) = Cardinality(Inked(k)) /\ made[k] \in Made
      BY <1>1, <2>2, <3>1
    <3>3. made[k + 1] = MakeSymbol(made[k], t[k + 1])
      BY <1>1, <3>1
    <3>4. t[k + 1] \in Symbols /\ t[k + 1] # "escape"
      BY <1>0, <1>5, <3>1 DEF n
    <3>5. made[k].glyphs \in Seq(Symbols)
      BY <3>2 DEF Made
    <3>6. CASE t[k + 1] = "space"
      <4>1. Inked(k + 1) = Inked(k)
        <5>1. \A i \in 1 .. k + 1 : i \in 1 .. k \/ i = k + 1
          OBVIOUS
        <5> QED BY <3>6, <5>1
      <4>2. made[k + 1] = made[k]
        BY <3>2, <3>3, <3>6 DEF MakeSymbol
      <4> HIDE DEF Inked
      <4> QED BY <3>2, <4>1, <4>2
    <3>7. CASE t[k + 1] # "space"
      <4>1. Inked(k + 1) = Inked(k) \cup {k + 1} /\ k + 1 \notin Inked(k)
        <5>1. \A i \in 1 .. k + 1 : i \in 1 .. k \/ i = k + 1
          OBVIOUS
        <5> QED BY <3>7, <5>1
      <4>2. made[k + 1].glyphs = Append(made[k].glyphs, t[k + 1]) /\ made[k + 1].escaped = made[k].escaped
        <5>1. made[k + 1] = [made[k] EXCEPT !.glyphs = Append(@, t[k + 1])]
          BY <3>2, <3>3, <3>4, <3>7 DEF MakeSymbol
        <5> QED BY <3>2, <5>1 DEF Made
      <4> HIDE DEF Inked
      <4>3. Cardinality(Inked(k + 1)) = Cardinality(Inked(k)) + 1
        BY <1>3, <4>1, FS_AddElement
      <4>4. Len(made[k + 1].glyphs) = Len(made[k].glyphs) + 1
        BY <3>4, <3>5, <4>2
      <4> QED BY <3>2, <4>2, <4>3, <4>4
    <3> QED BY <3>6, <3>7
  <2> HIDE DEF T
  <2>3. n \in T
    <3>1. n \in Nat
      BY <1>0 DEF n
    <3> QED BY <2>1, <2>2, <3>1, AllNumbers
  <2> QED BY <1>0, <1>1, <1>4, <2>3 DEF T, n
<1> QED BY <1>0, <1>2, <1>3, <1>4, <1>5 DEF n

(* What is kept of a text; without escapes it makes no more glyphs than    *)
(* are counted.                                                            *)
LEMMA TruncatedIsCounted ==
  ASSUME NEW t \in Seq(Symbols)
  PROVE  /\ Glyphs(Truncated(t)) \in Seq(Symbols) /\ TotalSymbols(t) \in Nat
         /\ (\A i \in DOMAIN t : t[i] # "escape") =>
              /\ Len(Glyphs(Truncated(t))) <= TotalSymbols(t)
              /\ TotalSymbols(t) <= SymbolLimit => Truncated(t) = t /\ Len(Glyphs(t)) = TotalSymbols(t)
              /\ TotalSymbols(t) > SymbolLimit => Truncated(t) = SubSeq(t, 1, SymbolLimit)
<1> DEFINE cut == SubSeq(t, 1, SymbolLimit)
<1>0. /\ SymbolLimit \in Nat /\ Len(t) \in Nat /\ DOMAIN t = 1 .. Len(t)
      /\ TotalSymbols(t) = CountDrawn(t) /\ CountDrawn(t) \in Nat
  <2>1. SymbolLimit \in Nat
    BY DynamicTextAssumption
  <2>2. TotalSymbols(t) = CountDrawn(t)
    BY DEF TotalSymbols
  <2>3. CountDrawn(t) \in Nat
    BY GlyphsAreCounted
  <2>4. Len(t) \in Nat /\ DOMAIN t = 1 .. Len(t)
    BY LenProperties
  <2> QED BY <2>1, <2>2, <2>3, <2>4
<1>1. CASE TotalSymbols(t) <= SymbolLimit
  <2>1. ~(TotalSymbols(t) > SymbolLimit)
    BY <1>0, <1>1
  <2>2. Truncated(t) = t
    BY <2>1 DEF Truncated
  <2>3. Glyphs(t) \in Seq(Symbols) /\ ((\A i \in DOMAIN t : t[i] # "escape") => Len(Glyphs(t)) = CountDrawn(t))
    BY GlyphsAreCounted
  <2>4. ASSUME \A i \in DOMAIN t : t[i] # "escape"
        PROVE  Len(Glyphs(t)) = TotalSymbols(t) /\ Len(Glyphs(t)) <= TotalSymbols(t)
    BY <1>0, <2>3, <2>4
  <2>5. Glyphs(Truncated(t)) = Glyphs(t)
    BY <2>2
  <2> HIDE DEF cut
  <2> QED BY <1>0, <2>1, <2>2, <2>3, <2>4, <2>5
<1>2. CASE TotalSymbols(t) > SymbolLimit
  <2>1. Truncated(t) = cut
    BY <1>2 DEF Truncated
  <2>2. CountDrawn(t) <= Len(t)
    <3> DEFINE inked == {i \in DOMAIN t : t[i] # "space"}
    <3>1. inked \subseteq 1 .. Len(t)
      BY <1>0
    <3>3. IsFiniteSet(1 .. Len(t)) /\ Cardinality(1 .. Len(t)) = Len(t)
      <4> HIDE DEF inked
      <4>1. 1 \in Int /\ Len(t) \in Int /\ (IF 1 > Len(t) THEN 0 ELSE Len(t) - 1 + 1) = Len(t)
        BY <1>0
      <4> QED BY <4>1, FS_Interval
    <3>2. CountDrawn(t) = Cardinality(inked)
      BY DEF CountDrawn
    <3> HIDE DEF inked
    <3> QED BY <1>0, <3>1, <3>2, <3>3, FS_Subset
  <2>3. cut \in Seq(Symbols) /\ Len(cut) = SymbolLimit /\ \A i \in 1 .. SymbolLimit : cut[i] = t[i]
    BY <1>0, <1>2, <2>2
  <2>4. DOMAIN cut = 1 .. SymbolLimit /\ 1 .. SymbolLimit \subseteq DOMAIN t
    BY <1>0, <1>2, <2>2, <2>3
  <2> HIDE DEF cut
  <2>5. Glyphs(cut) \in Seq(Symbols) /\ CountDrawn(cut) \in Nat
        /\ ((\A i \in DOMAIN cut : cut[i] # "escape") => Len(Glyphs(cut)) = CountDrawn(cut))
    BY <2>3, GlyphsAreCounted
  <2>6. CountDrawn(cut) <= SymbolLimit
    <3> DEFINE inked == {i \in DOMAIN cut : cut[i] # "space"}
    <3>1. inked \subseteq 1 .. SymbolLimit
      BY <2>4
    <3>3. IsFiniteSet(1 .. SymbolLimit) /\ Cardinality(1 .. SymbolLimit) = SymbolLimit
      <4> HIDE DEF inked
      <4>1. 1 \in Int /\ SymbolLimit \in Int /\ (IF 1 > SymbolLimit THEN 0 ELSE SymbolLimit - 1 + 1) = SymbolLimit
        BY <1>0
      <4> QED BY <4>1, FS_Interval
    <3>2. CountDrawn(cut) = Cardinality(inked)
      BY DEF CountDrawn
    <3> HIDE DEF inked
    <3> QED BY <1>0, <3>1, <3>2, <3>3, FS_Subset
  <2>7. ASSUME \A i \in DOMAIN t : t[i] # "escape" PROVE Len(Glyphs(cut)) <= TotalSymbols(t)
    <3>1. Len(Glyphs(cut)) = CountDrawn(cut)
      BY <2>3, <2>4, <2>5, <2>7
    <3> QED BY <1>0, <1>2, <2>5, <2>6, <3>1
  <2>8. Glyphs(Truncated(t)) = Glyphs(cut)
    BY <2>1
  <2>9. ~(TotalSymbols(t) <= SymbolLimit)
    BY <1>0, <1>2
  <2>10. Truncated(t) = SubSeq(t, 1, SymbolLimit)
    BY <2>1 DEF cut
  <2> QED BY <1>0, <2>5, <2>7, <2>8, <2>9, <2>10
<1> QED BY <1>0, <1>1, <1>2

-----------------------------------------------------------------------------
TextItems == Symbols \cup {"blank"}
TextInv ==
  /\ storage \in Seq(TextItems) /\ buffer \in Seq(TextItems) /\ text \in Seq(Symbols)
  /\ TextShowsItself

(* The part that was written is read back, and the rest has its place.     *)
LEMMA OverwrittenShows ==
  \A items, new \in Seq(TextItems) : \A n \in 0 .. Len(new) :
    /\ Overwritten(items, new) \in Seq(TextItems)
    /\ SubSeq(Overwritten(items, new), 1, n) = SubSeq(new, 1, n)
    /\ Len(new) <= Len(Overwritten(items, new))
    /\ Len(items) <= Len(Overwritten(items, new))
<1> TAKE items, new \in Seq(TextItems)
<1> TAKE n \in 0 .. Len(new)
<1>c. \A a, b \in Seq(TextItems) : a \o b \in Seq(TextItems) /\ Len(a \o b) = Len(a) + Len(b)
  OBVIOUS
<1> DEFINE rest == SubSeq(items, Len(new) + 1, Len(items))
<1>0. Len(items) \in Nat /\ Len(new) \in Nat /\ n \in Nat
  OBVIOUS
<1>1. rest \in Seq(TextItems) /\ Len(rest) = IF Len(new) < Len(items) THEN Len(items) - Len(new) ELSE 0
  BY <1>0
<1>2. Overwritten(items, new) = new \o rest
  BY DEF Overwritten
<1> HIDE DEF rest
<1>3. new \o rest \in Seq(TextItems) /\ Len(new \o rest) = Len(new) + Len(rest)
  BY <1>1, <1>c
<1>4. SubSeq(new \o rest, 1, n) = SubSeq(new, 1, n)
  BY <1>0, <1>1, <1>3
<1> QED BY <1>0, <1>1, <1>2, <1>3, <1>4

LEMMA TextStep == TextInv /\ [TextNext]_textVars => TextInv'
<1> SUFFICES ASSUME TextInv, [TextNext]_textVars PROVE TextInv'
  OBVIOUS
<1>0. storage \in Seq(TextItems) /\ buffer \in Seq(TextItems)
  BY DEF TextInv
<1>1. CASE TextNext
  <2>1. PICK t \in UNION {[1 .. n -> Symbols] : n \in 1 .. TextBound} : UpdateText(t)
    BY <1>1 DEF TextNext
  <2>2. t \in Seq(Symbols)
    BY <2>1, DynamicTextAssumption
  <2> DEFINE n == TotalSymbols(t)
             g == Glyphs(Truncated(t))
             grown == IF Len(storage) < n THEN Resized(storage, n) ELSE storage
             made == MakeText(storage, t)
             plain == \A i \in DOMAIN t : t[i] # "escape"
  <2>3. g \in Seq(TextItems) /\ n \in Nat /\ Len(g) \in Nat /\ (plain => Len(g) <= n)
    <3>1. g \in Seq(Symbols) /\ n \in Nat /\ (plain => Len(g) <= n)
      BY <2>2, TruncatedIsCounted
    <3> QED BY <3>1 DEF TextItems
  <2>4. grown \in Seq(TextItems) /\ Len(grown) >= n
    <3>1. CASE Len(storage) < n
      <4>1. grown = [i \in 1 .. n |-> IF i <= Len(storage) THEN storage[i] ELSE "blank"]
        BY <3>1 DEF Resized
      <4>2. \A i \in 1 .. n : (IF i <= Len(storage) THEN storage[i] ELSE "blank") \in TextItems
        BY <1>0 DEF TextItems
      <4> HIDE DEF n, g, grown
      <4>3. grown \in [1 .. n -> TextItems] /\ n \in Nat
        BY <2>3, <4>1, <4>2
      <4>4. \A f \in [1 .. n -> TextItems] : f \in Seq(TextItems) /\ Len(f) = n
        BY <4>3
      <4> QED BY <4>3, <4>4
    <3>2. CASE ~(Len(storage) < n)
      BY <1>0, <2>3, <3>2
    <3> QED BY <3>1, <3>2
  <2>5. made = Overwritten(grown, g)
    BY DEF MakeText
  <2>6. /\ storage' = made /\ renderI' = n /\ text' = t
        /\ buffer' = IF Len(buffer) < n THEN made ELSE Overwritten(buffer, SubSeq(made, 1, n))
    BY <2>1 DEF UpdateText
  <2> HIDE DEF n, g, grown, made, plain
  <2>7. /\ made \in Seq(TextItems) /\ Len(made) \in Nat /\ Len(made) >= n
        /\ SubSeq(made, 1, Len(g)) = g
    <3>1. Len(g) \in 0 .. Len(g) /\ SubSeq(g, 1, Len(g)) = g
      BY <2>3
    <3>2. made \in Seq(TextItems) /\ Len(grown) <= Len(made) /\ SubSeq(made, 1, Len(g)) = SubSeq(g, 1, Len(g))
      BY <2>3, <2>4, <2>5, <3>1, OverwrittenShows
    <3>3. Len(made) \in Nat /\ Len(grown) \in Nat
      BY <2>4, <3>2
    <3> QED BY <2>3, <2>4, <3>1, <3>2, <3>3
  <2> DEFINE part == SubSeq(made, 1, n)
  <2>8. part \in Seq(TextItems) /\ Len(part) = n /\ SubSeq(part, 1, n) = part
    BY <2>3, <2>7
  <2>9. buffer' \in Seq(TextItems) /\ SubSeq(buffer', 1, n) = part
    <3>1. CASE Len(buffer) < n
      BY <2>6, <2>7, <3>1
    <3>2. CASE ~(Len(buffer) < n)
      <4> HIDE DEF part
      <4>1. n \in 0 .. Len(part)
        BY <2>3, <2>8
      <4>2. buffer' = Overwritten(buffer, part)
        BY <2>6, <3>2 DEF part
      <4> QED BY <1>0, <2>8, <4>1, <4>2, OverwrittenShows
    <3> QED BY <3>1, <3>2
  <2>10. TextShowsItself'
    <3> SUFFICES ASSUME plain
                 PROVE  IF CountDrawn(t) <= SymbolLimit
                        THEN part = Glyphs(t)
                        ELSE SubSeq(part, 1, Len(Glyphs(SubSeq(t, 1, SymbolLimit)))) = Glyphs(SubSeq(t, 1, SymbolLimit))
      BY <2>6, <2>9 DEF TextShowsItself, plain
    <3>1. /\ n <= SymbolLimit => Truncated(t) = t /\ Len(Glyphs(t)) = n
          /\ n > SymbolLimit => Truncated(t) = SubSeq(t, 1, SymbolLimit)
          /\ Len(g) <= n
      BY <2>2, <2>3, TruncatedIsCounted DEF plain, n
    <3>2. SubSeq(part, 1, Len(g)) = g
      <4>1. SubSeq(part, 1, Len(g)) = SubSeq(made, 1, Len(g))
        BY <2>3, <2>7, <3>1
      <4> QED BY <2>7, <4>1
    <3>3. SymbolLimit \in Nat /\ n = CountDrawn(t)
      BY DynamicTextAssumption DEF n, TotalSymbols
    <3>4. CASE n <= SymbolLimit
      <4>1. Glyphs(t) = g /\ Len(g) = n
        BY <3>1, <3>4 DEF g
      <4> QED BY <2>8, <3>2, <3>3, <3>4, <4>1
    <3>5. CASE ~(n <= SymbolLimit)
      <4>0. n > SymbolLimit
        BY <2>3, <3>3, <3>5
      <4>1. Glyphs(SubSeq(t, 1, SymbolLimit)) = g
        BY <3>1, <4>0 DEF g
      <4> HIDE DEF part
      <4> QED BY <3>2, <3>3, <3>5, <4>1
    <3> QED BY <3>4, <3>5
  <2> QED BY <2>2, <2>6, <2>7, <2>9, <2>10 DEF TextInv
<1>2. CASE UNCHANGED textVars
  BY <1>2 DEF textVars, TextInv, TextShowsItself
<1> QED BY <1>1, <1>2

(* A text without escapes that the indices suffice for draws its own       *)
(* glyphs and nothing of those before it, and a longer one its beginning,  *)
(* for any letters, lengths and limit and any number of updates            *)
(* (text.cpp:40-158, 352-408).                                             *)
THEOREM TextsShowThemselves == TextSpec => []TextShowsItself
<1>1. TextInit => TextInv
  <2> SUFFICES ASSUME TextInit PROVE TextInv
    OBVIOUS
  <2>1. storage = <<>> /\ buffer = <<>> /\ text = <<>> /\ renderI = 0
    BY DEF TextInit
  <2>2. <<>> \in Seq(Symbols) /\ <<>> \in Seq(TextItems) /\ CountDrawn(<<>>) = 0
    <3>1. {i \in DOMAIN <<>> : <<>>[i] # "space"} = {}
      OBVIOUS
    <3> QED BY <3>1, FS_EmptySet DEF CountDrawn
  <2>3. Glyphs(<<>>) \in Seq(Symbols) /\ Len(Glyphs(<<>>)) = 0
    <3>1. \A i \in DOMAIN <<>> : <<>>[i] # "escape"
      OBVIOUS
    <3> HIDE DEF Glyphs, CountDrawn
    <3>2. Len(Glyphs(<<>>)) = CountDrawn(<<>>)
      BY <2>2, <3>1, GlyphsAreCounted
    <3> QED BY <2>2, <3>2, GlyphsAreCounted
  <2>4. Glyphs(<<>>) = <<>> /\ SubSeq(<<>>, 1, 0) = <<>>
    BY <2>3
  <2>5. CountDrawn(text) <= SymbolLimit
    <3>1. SymbolLimit \in Nat
      BY DynamicTextAssumption
    <3> HIDE DEF CountDrawn
    <3> QED BY <2>1, <2>2, <3>1
  <2>6. SubSeq(buffer, 1, renderI) = Glyphs(text)
    <3> HIDE DEF Glyphs
    <3> QED BY <2>1, <2>4
  <2>7. TextShowsItself
    BY <2>5, <2>6, Zenon DEF TextShowsItself
  <2> QED BY <2>1, <2>2, <2>7 DEF TextInv
<1>2. TextInv => TextShowsItself
  BY DEF TextInv
<1> QED BY <1>1, <1>2, TextStep, PTL DEF TextSpec

(***************************************************************************)
(* Sequences of sequences, one behind the other: the library's definition  *)
(* goes through them with a recursive function.                            *)
(***************************************************************************)
IsFlattened(fl, ss, n) ==
  fl = [i \in 1 .. n |-> IF i = 1 THEN ss[i] ELSE fl[i - 1] \o ss[i]]

(* There is such a function for every number of them.                      *)
LEMMA FlattenedExists ==
  ASSUME NEW ss, NEW n \in Nat
  PROVE  \E fl : IsFlattened(fl, ss, n)
<1> DEFINE T == {j \in Nat : \E fl : IsFlattened(fl, ss, j)}
<1>1. 0 \in T
  <2> DEFINE fl == [i \in 1 .. 0 |-> 0]
  <2>1. IsFlattened(fl, ss, 0)
    BY DEF IsFlattened
  <2> QED BY <2>1
<1>2. ASSUME NEW j \in Nat, j \in T PROVE j + 1 \in T
  <2>1. PICK c : IsFlattened(c, ss, j)
    BY <1>2
  <2>2. /\ c = [i \in 1 .. j |-> c[i]]
        /\ \A i \in 1 .. j : c[i] = IF i = 1 THEN ss[i] ELSE c[i - 1] \o ss[i]
    BY <2>1 DEF IsFlattened
  <2> DEFINE up == j + 1
             top == IF up = 1 THEN ss[up] ELSE c[j] \o ss[up]
             d == [i \in 1 .. up |-> IF i = up THEN top ELSE c[i]]
  <2>3. up \in Nat /\ up = j + 1
    OBVIOUS
  <2>4. ASSUME NEW i \in 1 .. up
        PROVE  d[i] = IF i = 1 THEN ss[i] ELSE d[i - 1] \o ss[i]
    <3>1. CASE i = up
      <4>1. i # 1 => i - 1 = j /\ j \in 1 .. up /\ j # up
        BY <3>1
      <4> HIDE DEF up
      <4>2. i # 1 => d[i - 1] = c[j]
        BY <3>1, <4>1
      <4>3. d[i] = top
        BY <3>1
      <4> QED BY <3>1, <4>2, <4>3
    <3>2. CASE i # up
      <4>1. i \in 1 .. j /\ (i # 1 => i - 1 \in 1 .. up /\ i - 1 # up)
        BY <3>2
      <4>2. c[i] = IF i = 1 THEN ss[i] ELSE c[i - 1] \o ss[i]
        BY <2>2, <4>1
      <4> HIDE DEF up
      <4> QED BY <3>2, <4>1, <4>2
    <3> QED BY <3>1, <3>2
  <2>5. d = [i \in 1 .. up |-> d[i]]
    OBVIOUS
  <2> HIDE DEF d
  <2>6. IsFlattened(d, ss, up)
    BY <2>4, <2>5 DEF IsFlattened
  <2> HIDE DEF up
  <2> QED BY <2>3, <2>6
<1> HIDE DEF T
<1>3. n \in T
  BY <1>1, <1>2, AllNumbers
<1> QED BY <1>3 DEF T

LEMMA FlattenUnfolds ==
  ASSUME NEW S, NEW ss \in Seq(S)
  PROVE  IF Len(ss) = 0 THEN FlattenSeq(ss) = <<>>
         ELSE \E fl : IsFlattened(fl, ss, Len(ss)) /\ FlattenSeq(ss) = fl[Len(ss)]
<1> DEFINE n == Len(ss)
           Code(f) == [i \in 1 .. n |-> IF i = 1 THEN ss[i] ELSE f[i - 1] \o ss[i]]
           fl == CHOOSE f : f = Code(f)
<1>1. n \in Nat
  OBVIOUS
<1>2. CASE n = 0
  <2>1. ss = <<>>
    BY <1>2
  <2> QED BY <1>2, <2>1 DEF FlattenSeq
<1>3. CASE n # 0
  <2>1. FlattenSeq(ss) = fl[n]
    BY <1>3 DEF FlattenSeq
  <2>2. PICK c : IsFlattened(c, ss, n)
    BY <1>1, FlattenedExists
  <2>3. c = Code(c) /\ (fl = Code(fl) => IsFlattened(fl, ss, n))
    <3> HIDE DEF fl
    <3> QED BY <2>2 DEF IsFlattened
  <2> HIDE DEF Code
  <2>4. fl = Code(fl)
    BY <2>3
  <2> QED BY <1>3, <2>1, <2>3, <2>4
<1> QED BY <1>2, <1>3

(* Two of them agree where their sequences do.                             *)
LEMMA FlattenedSame ==
  ASSUME NEW a, NEW b, NEW n \in Nat, NEW c, NEW d,
         IsFlattened(c, a, n), IsFlattened(d, b, n), \A i \in 1 .. n : a[i] = b[i]
  PROVE  \A k \in 1 .. n : c[k] = d[k]
<1> DEFINE T == {k \in Nat : k \in 1 .. n => c[k] = d[k]}
<1>1. /\ \A i \in 1 .. n : c[i] = IF i = 1 THEN a[i] ELSE c[i - 1] \o a[i]
      /\ \A i \in 1 .. n : d[i] = IF i = 1 THEN b[i] ELSE d[i - 1] \o b[i]
  BY DEF IsFlattened
<1>2. 0 \in T
  OBVIOUS
<1>3. ASSUME NEW k \in Nat, k \in T PROVE k + 1 \in T
  <2> DEFINE up == k + 1
  <2>1. up \in Nat /\ up - 1 = k /\ (up \in 1 .. n /\ up # 1 => k \in 1 .. n)
    OBVIOUS
  <2> HIDE DEF up
  <2>2. ASSUME up \in 1 .. n PROVE c[up] = d[up]
    <3>1. c[up] = (IF up = 1 THEN a[up] ELSE c[up - 1] \o a[up]) /\ a[up] = b[up]
      BY <1>1, <2>2
    <3>2. d[up] = IF up = 1 THEN b[up] ELSE d[up - 1] \o b[up]
      BY <1>1, <2>2
    <3>3. up # 1 => c[up - 1] = d[up - 1]
      BY <1>3, <2>1, <2>2
    <3> QED BY <3>1, <3>2, <3>3
  <2>3. up \in T
    BY <2>1, <2>2
  <2> QED BY <2>3 DEF up
<1> HIDE DEF T
<1>4. Nat \subseteq T
  BY <1>2, <1>3, AllNumbers
<1> QED BY <1>4 DEF T

(* What comes last lies last.                                              *)
LEMMA FlattenAppend ==
  ASSUME NEW S, NEW ss \in Seq(Seq(S)), NEW x \in Seq(S)
  PROVE  FlattenSeq(Append(ss, x)) = FlattenSeq(ss) \o x
<1> DEFINE n == Len(ss)
           s == Append(ss, x)
           up == n + 1
<1>1. /\ n \in Nat /\ up \in Nat /\ up - 1 = n /\ up # 0 /\ (n # 0 => n \in 1 .. n /\ n \in 1 .. up /\ up # 1)
      /\ up \in 1 .. up /\ 1 .. n \subseteq 1 .. up
  OBVIOUS
<1>2. s \in Seq(Seq(S)) /\ Len(s) = up /\ s[up] = x /\ \A i \in 1 .. n : s[i] = ss[i]
  BY AppendProperties
<1> HIDE DEF up, s
<1>3. PICK d : IsFlattened(d, s, up) /\ FlattenSeq(s) = d[up]
  BY <1>1, <1>2, FlattenUnfolds
<1>4. \A i \in 1 .. up : d[i] = IF i = 1 THEN s[i] ELSE d[i - 1] \o s[i]
  BY <1>3 DEF IsFlattened
<1>5. CASE n = 0
  <2>1. FlattenSeq(ss) = <<>>
    BY <1>5, FlattenUnfolds
  <2>2. up = 1
    BY <1>5 DEF up
  <2>3. d[up] = x
    BY <1>1, <1>2, <1>4, <2>2
  <2>4. <<>> \o x = x
    BY ConcatEmptySeq
  <2> QED BY <1>3, <2>1, <2>3, <2>4 DEF s
<1>6. CASE n # 0
  <2>1. PICK c : IsFlattened(c, ss, n) /\ FlattenSeq(ss) = c[n]
    BY <1>6, FlattenUnfolds
  <2> DEFINE e == [i \in 1 .. n |-> d[i]]
  <2>2. IsFlattened(e, s, n)
    <3>1. ASSUME NEW i \in 1 .. n PROVE e[i] = IF i = 1 THEN s[i] ELSE e[i - 1] \o s[i]
      <4>1. i \in 1 .. up /\ (i # 1 => i - 1 \in 1 .. n)
        BY <1>1
      <4>2. d[i] = IF i = 1 THEN s[i] ELSE d[i - 1] \o s[i]
        BY <1>4, <4>1
      <4> QED BY <4>1, <4>2
    <3>2. e = [i \in 1 .. n |-> e[i]]
      OBVIOUS
    <3> HIDE DEF e
    <3> QED BY <3>1, <3>2 DEF IsFlattened
  <2>3. e[n] = d[n]
    BY <1>1, <1>6
  <2> HIDE DEF e, n
  <2>4. e[n] = c[n]
    <3>1. n \in Nat /\ IsFlattened(c, ss, n) /\ \A i \in 1 .. n : s[i] = ss[i]
      BY <1>1, <1>2, <2>1
    <3>2. \A k \in 1 .. n : e[k] = c[k]
      BY <2>2, <3>1, FlattenedSame
    <3> QED BY <1>1, <1>6, <3>2
  <2>5. d[up] = d[n] \o x
    BY <1>1, <1>2, <1>4, <1>6
  <2> QED BY <1>3, <2>1, <2>3, <2>4, <2>5 DEF s
<1> QED BY <1>5, <1>6

(* The first k members of a sequence, and one more of them.                *)
LEMMA Beginning ==
  ASSUME NEW S, NEW s \in Seq(S), NEW k \in Nat, k <= Len(s)
  PROVE  /\ SubSeq(s, 1, k) \in Seq(S) /\ Len(SubSeq(s, 1, k)) = k
         /\ k < Len(s) => SubSeq(s, 1, k + 1) = Append(SubSeq(s, 1, k), s[k + 1]) /\ s[k + 1] \in S
         /\ SubSeq(s, 1, 0) = <<>> /\ SubSeq(s, 1, Len(s)) = s
<1>1. Len(s) \in Nat
  BY LenProperties
<1>2. SubSeq(s, 1, k) \in Seq(S) /\ Len(SubSeq(s, 1, k)) = k
  OBVIOUS
<1>3. ASSUME k < Len(s) PROVE SubSeq(s, 1, k + 1) = Append(SubSeq(s, 1, k), s[k + 1]) /\ s[k + 1] \in S
  BY <1>1, <1>3
<1>4. SubSeq(s, 1, 0) = <<>>
  BY SubSeqEmpty
<1>5. SubSeq(s, 1, Len(s)) = s
  BY SubSeqFull
<1> QED BY <1>2, <1>3, <1>4, <1>5

LEMMA FlattenType ==
  ASSUME NEW S, NEW ss \in Seq(Seq(S))
  PROVE  FlattenSeq(ss) \in Seq(S)
<1> DEFINE T == {k \in Nat : k <= Len(ss) => FlattenSeq(SubSeq(ss, 1, k)) \in Seq(S)}
<1>1. 0 \in T
  <2> DEFINE t == SubSeq(ss, 1, 0)
  <2>1. t \in Seq(Seq(S)) /\ Len(t) = 0
    BY SubSeqEmpty
  <2> HIDE DEF t
  <2>2. FlattenSeq(t) = <<>>
    BY <2>1, FlattenUnfolds
  <2>3. FlattenSeq(t) \in Seq(S)
    BY <2>2
  <2> QED BY <2>3 DEF t
<1>2. ASSUME NEW k \in Nat, k \in T PROVE k + 1 \in T
  <2> SUFFICES ASSUME k + 1 <= Len(ss) PROVE FlattenSeq(SubSeq(ss, 1, k + 1)) \in Seq(S)
    OBVIOUS
  <2>0. k < Len(ss) /\ k <= Len(ss)
    BY LenProperties
  <2> DEFINE t == SubSeq(ss, 1, k)
             x == ss[k + 1]
  <2>1. FlattenSeq(t) \in Seq(S)
    BY <1>2, <2>0
  <2>2. t \in Seq(Seq(S)) /\ x \in Seq(S) /\ SubSeq(ss, 1, k + 1) = Append(t, x)
    BY <2>0, Beginning
  <2> HIDE DEF t, x
  <2>3. FlattenSeq(Append(t, x)) = FlattenSeq(t) \o x
    BY <2>2, FlattenAppend
  <2>4. FlattenSeq(t) \o x \in Seq(S)
    BY <2>1, <2>2, ConcatProperties
  <2> QED BY <2>2, <2>3, <2>4
<1> HIDE DEF T
<1>3. Len(ss) \in T
  BY <1>1, <1>2, AllNumbers, LenProperties
<1>4. SubSeq(ss, 1, Len(ss)) = ss /\ Len(ss) \in Nat
  BY SubSeqFull, LenProperties
<1> DEFINE t == SubSeq(ss, 1, Len(ss))
<1>5. FlattenSeq(t) \in Seq(S)
  BY <1>3, <1>4 DEF T
<1>6. t = ss
  BY <1>4
<1> HIDE DEF t
<1> QED BY <1>5, <1>6

(***************************************************************************)
(* Stores: a file, its one writer and its readers.                         *)
(***************************************************************************)
(* What the items are in the file, one behind the other.                   *)
Flat(items) == FlattenSeq([i \in DOMAIN items |-> Bytes(items[i])])

(* An item is a value or a string, and so are its bytes.                   *)
LEMMA BytesOf ==
  ASSUME NEW x \in Items
  PROVE  /\ Bytes(x) \in Seq(Nat)
         /\ \/ x = <<"value", x[2]>> /\ x[1] = "value" /\ x[2] \in Nat /\ Bytes(x) = <<x[2]>>
            \/ /\ x = <<"string", x[2]>> /\ x[1] = "string" /\ x[2] \in Seq(Nat)
               /\ Bytes(x) = <<Len(x[2])>> \o x[2]
<1>1. CASE x \in {"value"} \X Nat
  BY <1>1 DEF Bytes
<1>2. CASE x \in {"string"} \X Seq(Nat)
  <2>1. x = <<"string", x[2]>> /\ x[1] = "string" /\ x[2] \in Seq(Nat)
    BY <1>2
  <2> DEFINE q == x[2]
  <2>2. q \in Seq(Nat)
    BY <2>1
  <2>3. Bytes(x) = <<Len(q)>> \o q
    BY <2>1 DEF Bytes
  <2> HIDE DEF q
  <2>4. <<Len(q)>> \in Seq(Nat)
    BY <2>2
  <2>5. <<Len(q)>> \o q \in Seq(Nat)
    BY <2>2, <2>4
  <2> QED BY <2>1, <2>3, <2>5 DEF q
<1> QED BY <1>1, <1>2, BinstoreAssumption DEF BinstoreAssumption

LEMMA BytesAll ==
  ASSUME NEW items \in Seq(Items)
  PROVE  [i \in DOMAIN items |-> Bytes(items[i])] \in Seq(Seq(Nat))
<1>1. ASSUME NEW i \in DOMAIN items PROVE Bytes(items[i]) \in Seq(Nat)
  <2>1. items[i] \in Items
    OBVIOUS
  <2> QED BY <2>1, BytesOf
<1> DEFINE B == Seq(Nat)
           m == [i \in DOMAIN items |-> Bytes(items[i])]
<1>2. m \in [1 .. Len(items) -> B] /\ Len(items) \in Nat
  BY <1>1
<1> HIDE DEF B, m
<1>3. m \in Seq(B)
  BY <1>2
<1> QED BY <1>3 DEF B, m

LEMMA FlatEmpty ==
  ASSUME NEW items \in Seq(Items), Len(items) = 0
  PROVE  Flat(items) = <<>>
<1> DEFINE m == [i \in DOMAIN items |-> Bytes(items[i])]
<1>1. m \in Seq(Seq(Nat)) /\ Len(m) = 0
  BY BytesAll
<1> HIDE DEF m
<1>2. FlattenSeq(m) = <<>>
  BY <1>1, FlattenUnfolds
<1> QED BY <1>2 DEF m, Flat

LEMMA FlatType ==
  ASSUME NEW items \in Seq(Items)
  PROVE  Flat(items) \in Seq(Nat)
<1> DEFINE m == [i \in DOMAIN items |-> Bytes(items[i])]
<1>1. m \in Seq(Seq(Nat))
  BY BytesAll
<1> HIDE DEF m
<1>2. FlattenSeq(m) \in Seq(Nat)
  BY <1>1, FlattenType
<1> QED BY <1>2 DEF m, Flat

(* An item that is written last lies last.                                 *)
LEMMA FlatAppend ==
  ASSUME NEW items \in Seq(Items), NEW x \in Items
  PROVE  Flat(Append(items, x)) = Flat(items) \o Bytes(x)
<1> DEFINE m == [i \in DOMAIN items |-> Bytes(items[i])]
           s == Append(items, x)
           b == Bytes(x)
<1>1. m \in Seq(Seq(Nat)) /\ b \in Seq(Nat)
  BY BytesAll, BytesOf
<1>2. /\ s \in Seq(Items) /\ Len(s) = Len(items) + 1 /\ s[Len(items) + 1] = x
      /\ \A i \in 1 .. Len(items) : s[i] = items[i]
  BY AppendProperties
<1>3. DOMAIN items = 1 .. Len(items) /\ Len(items) \in Nat
  OBVIOUS
<1> HIDE DEF b
<1>4. [i \in DOMAIN s |-> Bytes(s[i])] = Append(m, b)
  <2> DEFINE n == Len(items)
             a == Append(m, b)
             e == [i \in DOMAIN s |-> Bytes(s[i])]
  <2>1. Len(m) = n /\ n \in Nat /\ \A i \in 1 .. n : m[i] = Bytes(items[i])
    BY <1>3
  <2>2. e \in Seq(Seq(Nat)) /\ DOMAIN s = 1 .. n + 1
    BY <1>2, BytesAll, LenProperties
  <2> HIDE DEF m
  <2>3. a \in Seq(Seq(Nat)) /\ Len(a) = n + 1 /\ a[n + 1] = b /\ \A i \in 1 .. n : a[i] = m[i]
    BY <1>1, <2>1, AppendProperties, SMTT(20)
  <2> HIDE DEF a, s, n
  <2>4. Len(e) = n + 1 /\ \A i \in 1 .. n + 1 : e[i] = Bytes(s[i])
    BY <2>1, <2>2
  <2> HIDE DEF e
  <2>5. ASSUME NEW i \in 1 .. n + 1 PROVE e[i] = a[i]
    <3>1. CASE i = n + 1
      <4>1. s[i] = x
        BY <1>2, <3>1 DEF n
      <4> QED BY <2>3, <2>4, <3>1, <4>1 DEF b
    <3>2. CASE i # n + 1
      <4>1. i \in 1 .. n
        BY <2>1, <3>2
      <4>2. s[i] = items[i]
        BY <1>2, <4>1 DEF n
      <4> QED BY <2>1, <2>3, <2>4, <4>1, <4>2
    <3> QED BY <3>1, <3>2
  <2>6. e = a
    BY <2>2, <2>3, <2>4, <2>5, SeqEqual
  <2> QED BY <2>6 DEF e, a
<1> HIDE DEF m
<1>5. FlattenSeq(Append(m, b)) = FlattenSeq(m) \o b
  BY <1>1, FlattenAppend
<1>6. Flat(s) = FlattenSeq(Append(m, b))
  BY <1>4 DEF Flat
<1> QED BY <1>5, <1>6 DEF Flat, m, s, b

(* The bytes of an item lie behind those of the ones before it, whatever   *)
(* comes after.                                                            *)
Placed(items, all, k) ==
  LET at == Len(Flat(SubSeq(items, 1, k)))
      bytes == Bytes(items[k + 1])
  IN at + Len(bytes) <= Len(all) /\ \A j \in 1 .. Len(bytes) : all[at + j] = bytes[j]

(* What lies in a sequence lies there in a longer one.                     *)
LEMMA PlacedLonger ==
  ASSUME NEW a \in Seq(Nat), NEW b \in Seq(Nat), NEW at \in Nat, NEW n \in Nat, NEW c,
         at + n <= Len(a) /\ \A j \in 1 .. n : a[at + j] = c[j]
  PROVE  at + n <= Len(a \o b) /\ \A j \in 1 .. n : (a \o b)[at + j] = c[j]
<1>1. Len(a) \in Nat /\ Len(b) \in Nat /\ Len(a \o b) = Len(a) + Len(b)
  BY ConcatProperties, LenProperties
<1>2. ASSUME NEW j \in 1 .. n PROVE (a \o b)[at + j] = c[j]
  <2>1. at + j \in 1 .. Len(a)
    BY <1>1
  <2>2. (a \o b)[at + j] = a[at + j]
    BY <1>1, <2>1, ConcatProperties
  <2> QED BY <2>2
<1>3. \A x, y, z \in Nat : x <= y => x <= y + z
  OBVIOUS
<1>4. at + n \in Nat
  OBVIOUS
<1>5. at + n <= Len(a \o b)
  BY <1>1, <1>3, <1>4
<1> QED BY <1>2, <1>5

LEMMA FlatPlaces ==
  ASSUME NEW items \in Seq(Items), NEW k \in Nat, k < Len(items)
  PROVE  Placed(items, Flat(items), k)
<1> DEFINE All(m) == Flat(SubSeq(items, 1, m))
           T == {m \in Nat : k < m /\ m <= Len(items) => Placed(items, All(m), k)}
           x == items[k + 1]
<1>0. Len(items) \in Nat /\ x \in Items
  BY LenProperties
<1>1. \A m \in Nat : m <= Len(items) => SubSeq(items, 1, m) \in Seq(Items) /\ All(m) \in Seq(Nat)
  BY Beginning, FlatType
<1>2. \A m \in Nat : m < Len(items) =>
        items[m + 1] \in Items /\ All(m + 1) = All(m) \o Bytes(items[m + 1]) /\ Bytes(items[m + 1]) \in Seq(Nat)
  <2> SUFFICES ASSUME NEW m \in Nat, m < Len(items)
               PROVE  /\ items[m + 1] \in Items /\ All(m + 1) = All(m) \o Bytes(items[m + 1])
                      /\ Bytes(items[m + 1]) \in Seq(Nat)
    OBVIOUS
  <2>1. /\ m <= Len(items) /\ items[m + 1] \in Items /\ SubSeq(items, 1, m) \in Seq(Items)
        /\ SubSeq(items, 1, m + 1) = Append(SubSeq(items, 1, m), items[m + 1])
    BY <1>0, Beginning
  <2> QED BY <2>1, FlatAppend, BytesOf
<1> HIDE DEF All
<1>3. 0 \in T
  OBVIOUS
<1>4. ASSUME NEW m \in Nat, m \in T PROVE m + 1 \in T
  <2> SUFFICES ASSUME k < m + 1, m + 1 <= Len(items) PROVE Placed(items, All(m + 1), k)
    OBVIOUS
  <2> DEFINE a == All(m)
             b == Bytes(items[m + 1])
             at == Len(All(k))
             c == Bytes(x)
  <2>1. All(m + 1) = a \o b /\ a \in Seq(Nat) /\ b \in Seq(Nat)
    <3>1. m < Len(items) /\ m <= Len(items)
      BY <1>0
    <3> QED BY <1>1, <1>2, <3>1
  <2>2. c \in Seq(Nat) /\ Len(c) \in Nat
    BY <1>0, BytesOf, LenProperties
  <2>3. All(k) \in Seq(Nat) /\ at \in Nat
    BY <1>0, <1>1, LenProperties
  <2>4. at + Len(c) <= Len(a \o b) /\ \A j \in 1 .. Len(c) : (a \o b)[at + j] = c[j]
    <3>1. CASE k < m
      <4>1. at + Len(c) <= Len(a) /\ \A j \in 1 .. Len(c) : a[at + j] = c[j]
        <5>1. Placed(items, All(m), k)
          BY <1>0, <1>4, <3>1
        <5> QED BY <5>1 DEF Placed, All
      <4> HIDE DEF a, b, c, at
      <4> DEFINE n == Len(c)
      <4>2. n \in Nat /\ at + n <= Len(a) /\ \A j \in 1 .. n : a[at + j] = c[j]
        BY <2>2, <4>1
      <4> HIDE DEF n
      <4>3. at + n <= Len(a \o b) /\ \A j \in 1 .. n : (a \o b)[at + j] = c[j]
        BY <2>1, <2>3, <4>2, PlacedLonger
      <4> QED BY <4>3 DEF n
    <3>2. CASE ~(k < m)
      <4>1. k = m
        BY <3>2
      <4>2. b = c /\ at = Len(a)
        BY <4>1
      <4> HIDE DEF a, b, c, at
      <4>3. Len(a \o c) = Len(a) + Len(c)
        BY <2>1, <2>2, ConcatProperties
      <4>4. \A j \in 1 .. Len(c) : (a \o c)[Len(a) + j] = c[j]
        <5>1. \A n \in Nat : \A j \in 1 .. Len(c) :
                n + j \in 1 .. n + Len(c) /\ ~(n + j <= n) /\ (n + j) - n = j
          BY <2>2
        <5>2. Len(a) \in Nat
          BY <2>1, LenProperties
        <5> QED BY <2>1, <2>2, <5>1, <5>2, ConcatProperties
      <4>5. Len(a) \in Nat
        BY <2>1, LenProperties
      <4> QED BY <2>2, <4>2, <4>3, <4>4, <4>5
    <3> QED BY <3>1, <3>2
  <2> QED BY <2>1, <2>4 DEF Placed, All
<1> HIDE DEF T
<1>5. Len(items) \in T
  BY <1>0, <1>3, <1>4, AllNumbers
<1>6. All(Len(items)) = Flat(items)
  BY SubSeqFull DEF All
<1> QED BY <1>0, <1>5, <1>6 DEF T

(* A reader that has read the first items stands before the next one.      *)
LEMMA NextItem ==
  ASSUME NEW items \in Seq(Items), NEW k \in Nat, k < Len(items), NEW x, x = items[k + 1]
  PROVE  /\ x \in Items
         /\ Len(Flat(SubSeq(items, 1, k))) + Len(Bytes(x)) <= Len(Flat(items))
         /\ \A j \in 1 .. Len(Bytes(x)) : Flat(items)[Len(Flat(SubSeq(items, 1, k))) + j] = Bytes(x)[j]
         /\ Len(Flat(SubSeq(items, 1, k + 1))) = Len(Flat(SubSeq(items, 1, k))) + Len(Bytes(x))
<1> DEFINE t == SubSeq(items, 1, k)
<1>1. k <= Len(items) /\ Len(items) \in Nat
  BY LenProperties
<1>2. t \in Seq(Items)
  BY <1>1
<1>3. x \in Items /\ SubSeq(items, 1, k + 1) = Append(t, x)
  BY <1>1, Beginning
<1>4. Placed(items, Flat(items), k)
  BY FlatPlaces
<1>5. /\ Len(Flat(t)) + Len(Bytes(x)) <= Len(Flat(items))
      /\ \A j \in 1 .. Len(Bytes(x)) : Flat(items)[Len(Flat(t)) + j] = Bytes(x)[j]
  BY <1>4 DEF Placed
<1> HIDE DEF t
<1>6. Len(Flat(Append(t, x))) = Len(Flat(t)) + Len(Bytes(x))
  BY <1>2, <1>3, FlatAppend, FlatType, BytesOf, ConcatProperties
<1> QED BY <1>3, <1>5, <1>6 DEF t

(* What a reader has of the items that it has read.                        *)
ReadAs(x) == IF IsLost(x) THEN AsRead(x[2]) ELSE x
Outcomes == {ReadAs(x) : x \in Items}
Came(g, items) == Len(g) <= Len(items) /\ \A i \in 1 .. Len(g) : g[i] = ReadAs(items[i])

(* What comes of the next item is known from the item.                     *)
LEMMA CameNext ==
  ASSUME NEW items \in Seq(Items), NEW g \in Seq(Outcomes), Came(g, items), Len(g) < Len(items),
         NEW y, y = ReadAs(items[Len(g) + 1])
  PROVE  Append(g, y) \in Seq(Outcomes) /\ Len(Append(g, y)) = Len(g) + 1 /\ Came(Append(g, y), items)
<1> DEFINE k == Len(g)
           a == Append(g, y)
<1>1. k \in Nat /\ Len(items) \in Nat /\ k < Len(items) /\ items[k + 1] \in Items
  BY LenProperties
<1>2. y \in Outcomes
  BY <1>1 DEF Outcomes
<1>3. a \in Seq(Outcomes) /\ Len(a) = k + 1 /\ a[k + 1] = y /\ \A i \in 1 .. k : a[i] = g[i]
  BY <1>2, AppendProperties
<1>4. \A i \in 1 .. k : g[i] = ReadAs(items[i])
  BY DEF Came
<1> HIDE DEF a
<1>5. y = ReadAs(items[k + 1])
  OBVIOUS
<1> HIDE DEF k
<1>6. ASSUME NEW i \in 1 .. k + 1 PROVE a[i] = ReadAs(items[i])
  <2>1. i \in 1 .. k \/ i = k + 1
    BY <1>1
  <2> QED BY <1>3, <1>4, <1>5, <2>1
<1>7. k + 1 <= Len(items)
  BY <1>1
<1>8. Came(a, items)
  BY <1>3, <1>6, <1>7 DEF Came
<1> QED BY <1>3, <1>8 DEF a, k

(* Read makes of the characters what becomes of the string; a value comes  *)
(* as it is.                                                               *)
LEMMA ReadAsRead ==
  ASSUME NEW q
  PROVE  ReadAs(<<"string", q>>) = AsRead(q)
<1> DEFINE x == <<"string", q>>
<1>1. x[1] = "string" /\ x[2] = q
  OBVIOUS
<1>2. CASE IsLost(x)
  BY <1>1, <1>2 DEF ReadAs
<1>3. CASE ~IsLost(x)
  <2>1. q # <<>> /\ ~(\E j \in DOMAIN q : q[j] = 0)
    BY <1>1, <1>3 DEF IsLost
  <2>2. UpToNul(q) = q
    BY <2>1 DEF UpToNul
  <2>3. AsRead(q) = <<"string", q>>
    BY <2>1, <2>2 DEF AsRead
  <2> QED BY <1>3, <2>3 DEF ReadAs
<1> QED BY <1>2, <1>3

LEMMA ReadAsValue ==
  ASSUME NEW x, x[1] = "value"
  PROVE  ReadAs(x) = x
BY DEF ReadAs, IsLost

-----------------------------------------------------------------------------
(* The members of a file: its header and bytes.                            *)
Cell == Nat \cup (Nat \X Nat)
Zero == serialHeader_t(0, 0)
OpenFile == [om : {"undef", "create", "read"}, at : Nat, tag : Nat, dirty : BOOLEAN, dataSize : Nat, held : Seq(Cell)]
Asking == [items : Seq(Items), tag : Nat]

BinstoreTypeOK ==
  /\ file \in Seq(Cell) /\ closed \in BOOLEAN
  /\ store \in [Stores -> OpenFile] /\ written \in Asking
  /\ got \in [Stores -> Seq(Outcomes)]

(* A header, and behind it the bytes of the items.                         *)
IsComplete(f, items) ==
  /\ f \in Seq(Cell) /\ Len(f) = Len(Flat(items)) + 1
  /\ \A j \in 1 .. Len(Flat(items)) : f[j + 1] = Flat(items)[j]
Writes(st, f, c, w) ==
  /\ ~c /\ IsComplete(f \o st.held, w.items) /\ (f \o st.held)[1] = Zero
  /\ st.dataSize = Len(Flat(w.items)) /\ st.tag = w.tag
  /\ ~st.dirty => Len(w.items) = 0 /\ w.tag = 0
Reads(st, g, c, w) ==
  /\ st.held = <<>> /\ Came(g, w.items)
  /\ st.dataSize > 0 => /\ c /\ st.at = Len(Flat(SubSeq(w.items, 1, Len(g))))
                        /\ st.at + st.dataSize = Len(Flat(w.items))
Follows(st, g, f, c, w) ==
  /\ st.om = "create" => Writes(st, f, c, w)
  /\ st.om = "read" => Reads(st, g, c, w)
  /\ st.om = "undef" => st.held = <<>>
Tells(f, w) ==
  /\ IsComplete(f, w.items)
  /\ f[1] = IF Len(Flat(w.items)) <= SizeLimit THEN <<Len(Flat(w.items)), w.tag>> ELSE Zero
Untold(f) == Len(f) = 0 \/ f[1] = Zero

WriterIsAlone ==
  \A s, t \in Stores : store[s].om = "create" /\ s # t => store[t].om = "undef"
(* The invariant that every step keeps: nobody has the file beside its     *)
(* writer; what a writer was asked to write is in the file or held back,   *)
(* in its order, and the header tells nothing of it; a reader stands       *)
(* behind the items it has read, and what it is told to be left is the     *)
(* rest of a file that was closed.                                         *)
BinstoreInv ==
  /\ BinstoreTypeOK /\ WriterIsAlone
  /\ \A s \in Stores : Follows(store[s], got[s], file, closed, written)
  /\ closed => Tells(file, written)
  /\ closed \/ Untold(file) \/ Held("create")

(* One more item is written behind the others.                             *)
LEMMA CompleteMore ==
  ASSUME NEW f \in Seq(Cell), NEW items \in Seq(Items), IsComplete(f, items), NEW x \in Items
  PROVE  /\ IsComplete(f \o Bytes(x), Append(items, x)) /\ (f \o Bytes(x))[1] = f[1]
         /\ Len(Flat(Append(items, x))) = Len(Flat(items)) + Len(Bytes(x))
<1> DEFINE b == Bytes(x)
           a == Flat(items)
           all == Flat(Append(items, x))
           n == Len(a)
           m == Len(b)
<1>1. all = a \o b /\ a \in Seq(Nat) /\ b \in Seq(Nat) /\ b \in Seq(Cell)
  <2>1. Nat \subseteq Cell
    BY DEF Cell
  <2> QED BY <2>1, FlatAppend, FlatType, BytesOf, SeqMonotonic
<1>2. Len(f) = n + 1 /\ \A j \in 1 .. n : f[j + 1] = a[j]
  BY DEF IsComplete
<1>c. n \in Nat /\ m \in Nat
  BY <1>1, LenProperties
<1> HIDE DEF all, a, b
<1>3. Len(all) = n + m /\ \A i \in 1 .. n + m : all[i] = IF i <= n THEN a[i] ELSE b[i - n]
  BY <1>1, ConcatProperties
<1>4. /\ f \o b \in Seq(Cell) /\ Len(f \o b) = n + 1 + m
      /\ \A i \in 1 .. n + 1 + m : (f \o b)[i] = IF i <= n + 1 THEN f[i] ELSE b[i - (n + 1)]
  BY <1>1, <1>2, ConcatProperties
<1> HIDE DEF n, m
<1>5. ASSUME NEW j \in 1 .. n + m PROVE (f \o b)[j + 1] = all[j]
  <2>1. j + 1 \in 1 .. n + 1 + m /\ (j + 1 <= n + 1 <=> j <= n) /\ (j + 1) - (n + 1) = j - n
        /\ (j <= n => j \in 1 .. n)
    BY <1>c
  <2> QED BY <1>2, <1>3, <1>4, <2>1
<1>6. 1 \in 1 .. n + 1 + m /\ 1 <= n + 1
  BY <1>c
<1>7. (f \o b)[1] = f[1]
  BY <1>4, <1>6
<1>8. n + 1 + m = Len(all) + 1
  BY <1>c, <1>3
<1>9. IsComplete(f \o b, Append(items, x))
  BY <1>3, <1>4, <1>5, <1>8 DEF IsComplete, all
<1> QED BY <1>3, <1>7, <1>9 DEF b, all, n, a, m

(* What a writer leaves behind when it closes the file.                    *)
LEMMA PutBackTells ==
  ASSUME BinstoreTypeOK, NEW st \in OpenFile, Writes(st, file, closed, written)
  PROVE  PutBack(st) \in Seq(Cell) /\ Tells(PutBack(st), written)
<1> DEFINE all == file \o st.held
           n == Len(Flat(written.items))
           h == <<st.dataSize, st.tag>>
<1>1. /\ IsComplete(all, written.items) /\ all[1] = Zero /\ st.dataSize = n /\ st.tag = written.tag
      /\ ~st.dirty => Len(written.items) = 0 /\ written.tag = 0
  BY DEF Writes
<1>2. n \in Nat /\ written.items \in Seq(Items) /\ SizeLimit \in Nat
  BY FlatType, LenProperties, BinstoreAssumption DEF BinstoreAssumption, BinstoreTypeOK, Asking
<1>3. h \in Cell
  BY DEF Cell, OpenFile
<1>4. PutBack(st) = IF st.dirty /\ st.dataSize <= SizeLimit THEN [all EXCEPT ![1] = h] ELSE all
  BY DEF PutBack, serialHeader_t
<1> HIDE DEF all, h
<1>5. CASE st.dirty /\ st.dataSize <= SizeLimit
  <2> DEFINE f == [all EXCEPT ![1] = h]
  <2>1. all \in Seq(Cell) /\ Len(all) = n + 1 /\ 1 \in 1 .. Len(all)
    BY <1>1, <1>2 DEF IsComplete
  <2>2. /\ f \in Seq(Cell) /\ Len(f) = Len(all)
        /\ \A j \in 1 .. Len(all) : f[j] = IF j = 1 THEN h ELSE all[j]
    BY <1>3, <2>1, ExceptSeq
  <2> HIDE DEF f
  <2>3. f[1] = h
    BY <2>1, <2>2
  <2>4. ASSUME NEW j \in 1 .. n PROVE f[j + 1] = Flat(written.items)[j]
    <3>1. j + 1 \in 1 .. n + 1 /\ j + 1 # 1
      BY <1>2
    <3> QED BY <1>1, <2>1, <2>2, <3>1 DEF IsComplete
  <2>5. IsComplete(f, written.items)
    BY <1>2, <2>1, <2>2, <2>4 DEF IsComplete
  <2>6. f[1] = <<n, written.tag>> /\ n <= SizeLimit
    BY <1>1, <1>5, <2>3 DEF h
  <2>7. Tells(f, written)
    BY <2>5, <2>6 DEF Tells
  <2> QED BY <1>4, <1>5, <2>2, <2>7 DEF f
<1>6. CASE ~(st.dirty /\ st.dataSize <= SizeLimit)
  <2>1. ~st.dirty => n = 0 /\ written.tag = 0 /\ n <= SizeLimit
    <3>1. ASSUME Len(written.items) = 0 PROVE Len(Flat(written.items)) = 0
      <4>1. Flat(written.items) = <<>>
        BY <1>2, <3>1, FlatEmpty
      <4> QED BY <4>1
    <3> QED BY <1>1, <1>2, <3>1
  <2>2. all[1] = IF n <= SizeLimit THEN <<n, written.tag>> ELSE Zero
    BY <1>1, <1>6, <2>1 DEF Zero, serialHeader_t
  <2> QED BY <1>1, <1>4, <1>6, <2>2 DEF Tells, IsComplete
<1> QED BY <1>5, <1>6

(* A store gives up what it has: a writer closes its file, and a reader    *)
(* that leaves changes nothing.                                            *)
LEMMA ReplacedKeeps ==
  ASSUME BinstoreInv, NEW s \in Stores, NEW by \in OpenFile, by.om = "undef", by.held = <<>>,
         Replaced(s, by)
  PROVE  BinstoreInv'
<1>1. /\ file' = FileAfterReset(s) /\ closed' = ClosedAfterReset(s)
      /\ store' = [store EXCEPT ![s] = by] /\ written' = written /\ got' = got
  BY DEF Replaced
<1>2. BinstoreTypeOK /\ store[s] \in OpenFile /\ Follows(store[s], got[s], file, closed, written)
  BY DEF BinstoreInv, BinstoreTypeOK
<1>3. store' \in [Stores -> OpenFile] /\ \A t \in Stores : store'[t] = IF t = s THEN by ELSE store[t]
  BY <1>1, <1>2 DEF BinstoreTypeOK
<1>4. WriterIsAlone'
  BY <1>3 DEF BinstoreInv, WriterIsAlone
<1>5. CASE store[s].om = "create"
  <2>1. file' = PutBack(store[s]) /\ closed' = TRUE
    BY <1>1, <1>5 DEF FileAfterReset, ClosedAfterReset
  <2>2. Writes(store[s], file, closed, written)
    BY <1>2, <1>5 DEF Follows
  <2>3. file' \in Seq(Cell) /\ Tells(file', written')
    BY <1>1, <1>2, <2>1, <2>2, PutBackTells
  <2>4. ASSUME NEW t \in Stores PROVE store'[t].om = "undef" /\ store'[t].held = <<>>
    BY <1>3, <1>5 DEF BinstoreInv, WriterIsAlone, Follows
  <2>5. \A t \in Stores : Follows(store'[t], got'[t], file', closed', written')
    BY <2>4 DEF Follows
  <2>6. BinstoreTypeOK'
    BY <1>1, <1>2, <1>3, <2>1, <2>3 DEF BinstoreTypeOK
  <2> QED BY <1>4, <2>1, <2>3, <2>5, <2>6 DEF BinstoreInv
<1>6. CASE store[s].om # "create"
  <2>1. file' = file /\ closed' = closed
    BY <1>1, <1>2, <1>6 DEF FileAfterReset, ClosedAfterReset, BinstoreTypeOK
  <2>2. ASSUME NEW t \in Stores PROVE Follows(store'[t], got'[t], file', closed', written')
    <3>1. CASE t = s
      BY <1>3, <3>1 DEF Follows
    <3>2. CASE t # s
      BY <1>1, <1>3, <2>1, <3>2 DEF BinstoreInv
    <3> QED BY <3>1, <3>2
  <2>3. BinstoreTypeOK'
    BY <1>1, <1>2, <1>3, <2>1 DEF BinstoreTypeOK
  <2>4. Held("create") => Held("create")'
    BY <1>3, <1>6 DEF Held
  <2>5. closed' => Tells(file', written')
    BY <1>1, <2>1 DEF BinstoreInv
  <2>6. closed' \/ Untold(file') \/ Held("create")'
    BY <2>1, <2>4 DEF BinstoreInv
  <2> QED BY <1>4, <2>2, <2>3, <2>5, <2>6 DEF BinstoreInv
<1> QED BY <1>5, <1>6

(* A store that is not open holds nothing.                                 *)
LEMMA UndefOpen ==
  /\ Undef \in OpenFile /\ Undef.om = "undef" /\ Undef.held = <<>> /\ Undef.at = 0
  /\ Undef.dataSize = 0 /\ Undef.tag = 0
<1> DEFINE none == <<>>
<1>1. none \in Seq(Cell)
  OBVIOUS
<1>2. Undef = [om |-> "undef", at |-> 0, tag |-> 0, dirty |-> FALSE, dataSize |-> 0, held |-> none]
  BY DEF Undef
<1>3. none = <<>>
  OBVIOUS
<1> HIDE DEF none
<1> QED BY <1>1, <1>2, <1>3 DEF OpenFile

LEMMA ResetOpen ==
  ASSUME NEW tag \in Nat, NEW by, by = [Undef EXCEPT !.tag = tag]
  PROVE  by \in OpenFile /\ by.om = "undef" /\ by.held = <<>>
BY UndefOpen DEF OpenFile

(* A writer begins while nobody else has the file.                         *)
LEMMA CreateKeeps ==
  ASSUME BinstoreInv, NEW s \in Stores, Create(s)
  PROVE  BinstoreInv'
<1>1. CASE ~MayCreate
  BY <1>1, UndefOpen, ReplacedKeeps DEF Create
<1>2. CASE MayCreate
  <2> DEFINE new == [Undef EXCEPT !.om = "create", !.held = <<serialHeader_t(0, 0)>>]
             none == [items |-> <<>>, tag |-> 0]
  <2>1. /\ file' = <<>> /\ closed' = FALSE /\ written' = none /\ got' = got
        /\ store' = [store EXCEPT ![s] = new]
    BY <1>2 DEF Create
  <2>2. /\ new \in OpenFile /\ new.om = "create" /\ new.held = <<Zero>> /\ new.dataSize = 0 /\ new.tag = 0
        /\ <<Zero>> \in Seq(Cell) /\ Zero \in Cell
    <3> DEFINE h == <<Zero>>
    <3>1. Zero \in Cell
      BY DEF Cell, Zero, serialHeader_t
    <3>2. h \in Seq(Cell)
      BY <3>1
    <3>3. new = [Undef EXCEPT !.om = "create", !.held = h]
      BY DEF Zero
    <3> HIDE DEF h
    <3>4. new \in OpenFile /\ new.om = "create" /\ new.held = h /\ new.dataSize = 0 /\ new.tag = 0
      BY <3>2, <3>3, UndefOpen DEF OpenFile
    <3> HIDE DEF new
    <3> QED BY <3>1, <3>2, <3>4 DEF h
  <2>3. BinstoreTypeOK /\ none \in Asking /\ none.tag = 0 /\ none.items = <<>> /\ none.items \in Seq(Items)
    BY DEF BinstoreInv, Asking
  <2> HIDE DEF new
  <2>4. store' \in [Stores -> OpenFile] /\ \A t \in Stores : store'[t] = IF t = s THEN new ELSE store[t]
    BY <2>1, <2>2, <2>3 DEF BinstoreTypeOK
  <2>5. \A t \in Stores : store[t].om = "undef"
    <3>1. ASSUME NEW t \in Stores PROVE store[t].om = "undef"
      <4>1. store[t].om # "create" /\ store[t].om # "read"
        BY <1>2 DEF MayCreate, LockedAlone, Held
      <4> QED BY <4>1, <2>3 DEF BinstoreTypeOK, OpenFile
    <3> QED BY <3>1
  <2>6. BinstoreTypeOK'
    <3>1. file' \in Seq(Cell) /\ closed' \in BOOLEAN
      <4> DEFINE nothing == <<>>
      <4>1. nothing \in Seq(Cell)
        OBVIOUS
      <4>2. file' = nothing /\ closed' = FALSE
        BY <2>1
      <4> HIDE DEF nothing
      <4> QED BY <4>1, <4>2
    <3>2. written' \in Asking
      BY <2>1, <2>3
    <3>3. got' \in [Stores -> Seq(Outcomes)]
      BY <2>1, <2>3 DEF BinstoreTypeOK
    <3> QED BY <2>4, <3>1, <3>2, <3>3 DEF BinstoreTypeOK
  <2>7. WriterIsAlone'
    BY <2>2, <2>4, <2>5 DEF WriterIsAlone
  <2>8. Writes(new, <<>>, FALSE, none)
    <3>1. <<>> \o new.held = <<Zero>>
      BY <2>2
    <3>2. Flat(none.items) = <<>>
      <4>1. none.items \in Seq(Items) /\ Len(none.items) = 0
        BY <2>3
      <4> HIDE DEF none
      <4> QED BY <4>1, FlatEmpty
    <3>3. Len(Flat(none.items)) = 0
      BY <3>2
    <3>4. IsComplete(<<Zero>>, none.items)
      BY <2>2, <3>3 DEF IsComplete
    <3>5. <<Zero>>[1] = Zero /\ Len(none.items) = 0
      BY <2>3
    <3> DEFINE held == <<>> \o new.held
    <3>6. held = <<Zero>>
      BY <3>1
    <3> HIDE DEF none
    <3>7. IsComplete(<<>> \o new.held, none.items)
      BY <3>1, <3>4
    <3>8. (<<>> \o new.held)[1] = Zero
      BY <3>1
    <3> QED BY <2>2, <2>3, <3>3, <3>5, <3>7, <3>8 DEF Writes
  <2> HIDE DEF none
  <2>9. ASSUME NEW t \in Stores PROVE Follows(store'[t], got'[t], file', closed', written')
    <3>1. CASE t = s
      <4>1. Writes(store'[t], file', closed', written')
        BY <2>1, <2>4, <2>8, <3>1
      <4> QED BY <2>2, <2>4, <3>1, <4>1 DEF Follows
    <3>2. CASE t # s
      BY <2>4, <2>5, <3>2 DEF BinstoreInv, Follows
    <3> QED BY <3>1, <3>2
  <2>10. Held("create")' /\ ~closed'
    BY <2>1, <2>2, <2>4 DEF Held
  <2> QED BY <2>6, <2>7, <2>9, <2>10 DEF BinstoreInv
<1> QED BY <1>1, <1>2

(* A reader begins while nobody writes, and so with what the last writer   *)
(* left: all of it if it was closed, and nothing to read if it was not.    *)
LEMMA OpenToReadKeeps ==
  ASSUME BinstoreInv, NEW s \in Stores, OpenToRead(s)
  PROVE  BinstoreInv'
<1>1. CASE ~exists \/ ~LockedShared
  BY <1>1, UndefOpen, ReplacedKeeps DEF OpenToRead
<1>2. CASE ~(~exists \/ ~LockedShared)
  <2> DEFINE new == [Undef EXCEPT !.om = "read", !.dataSize = Header[1], !.tag = Header[2]]
             n == Len(Flat(written.items))
  <2>1. /\ file' = file /\ closed' = closed /\ written' = written
        /\ got' = [got EXCEPT ![s] = <<>>] /\ store' = [store EXCEPT ![s] = new]
    BY <1>2 DEF OpenToRead
  <2>2. BinstoreTypeOK /\ ~Held("create") /\ written.items \in Seq(Items) /\ written.tag \in Nat
    BY <1>2 DEF BinstoreInv, LockedShared, BinstoreTypeOK, Asking
  <2>3. n \in Nat
    BY <2>2, FlatType, LenProperties
  <2> HIDE DEF n
  <2>4. /\ Header[1] \in Nat /\ Header[2] \in Nat
        /\ Header[1] > 0 => closed /\ Header[1] = n
    <3>1. CASE closed
      <4>1. Tells(file, written)
        BY <3>1 DEF BinstoreInv
      <4>2. Len(file) = n + 1
        BY <4>1 DEF Tells, IsComplete, n
      <4>3. file # <<>>
        BY <2>3, <4>2
      <4>4. Header = IF n <= SizeLimit THEN <<n, written.tag>> ELSE Zero
        BY <4>1, <4>3 DEF Header, Tells, n
      <4> QED BY <2>2, <2>3, <3>1, <4>4 DEF Zero, serialHeader_t
    <3>2. CASE ~closed
      <4>1. Untold(file)
        BY <2>2, <3>2 DEF BinstoreInv
      <4>2. Header = Zero
        BY <2>2, <4>1 DEF Untold, Header, Zero, BinstoreTypeOK
      <4> QED BY <4>2 DEF Zero, serialHeader_t
    <3> QED BY <3>1, <3>2
  <2>5. /\ new \in OpenFile /\ new.om = "read" /\ new.held = <<>> /\ new.dataSize = Header[1] /\ new.at = 0
    BY <2>4, UndefOpen DEF OpenFile
  <2> HIDE DEF new
  <2>6. store' \in [Stores -> OpenFile] /\ \A t \in Stores : store'[t] = IF t = s THEN new ELSE store[t]
    BY <2>1, <2>2, <2>5 DEF BinstoreTypeOK
  <2>7. got' \in [Stores -> Seq(Outcomes)] /\ \A t \in Stores : got'[t] = IF t = s THEN <<>> ELSE got[t]
    BY <2>1, <2>2 DEF BinstoreTypeOK
  <2>8. BinstoreTypeOK'
    BY <2>1, <2>2, <2>6, <2>7 DEF BinstoreTypeOK
  <2>9. \A t \in Stores : store[t].om # "create"
    BY <2>2 DEF Held
  <2>10. WriterIsAlone'
    BY <2>5, <2>6, <2>9 DEF WriterIsAlone
  <2>11. ASSUME NEW t \in Stores PROVE Follows(store'[t], got'[t], file', closed', written')
    <3>1. CASE t = s
      <4> DEFINE g == got'[s]
      <4>1. g = <<>>
        BY <2>7
      <4>2. Len(g) = 0
        BY <4>1
      <4> HIDE DEF g
      <4>3. Came(g, written.items)
        BY <2>2, <4>2, LenProperties DEF Came
      <4> DEFINE none == SubSeq(written.items, 1, 0)
      <4>4. none \in Seq(Items) /\ Len(none) = 0
        BY <2>2
      <4>5. SubSeq(written.items, 1, Len(g)) = none
        BY <4>2
      <4> HIDE DEF none
      <4>7. Flat(none) = <<>>
        BY <4>4, FlatEmpty
      <4>8. Len(Flat(SubSeq(written.items, 1, Len(g)))) = 0
        <5>1. Flat(SubSeq(written.items, 1, Len(g))) = Flat(none)
          BY <4>5
        <5>2. Len(Flat(none)) = 0
          BY <4>7
        <5> QED BY <5>1, <5>2
      <4>6. Reads(new, g, closed, written)
        BY <2>3, <2>4, <2>5, <4>3, <4>8 DEF Reads, n
      <4> QED BY <2>1, <2>5, <2>6, <3>1, <4>6 DEF Follows, g
    <3>2. CASE t # s
      BY <2>1, <2>6, <2>7, <3>2 DEF BinstoreInv
    <3> QED BY <3>1, <3>2
  <2>12. closed' => Tells(file', written')
    BY <2>1 DEF BinstoreInv
  <2>13. closed' \/ Untold(file')
    BY <2>1, <2>2 DEF BinstoreInv
  <2> QED BY <2>8, <2>10, <2>11, <2>12, <2>13 DEF BinstoreInv
<1> QED BY <1>1, <1>2

(* A store that takes over another's file has none that it writes itself:  *)
(* nobody writes beside another.                                           *)
LEMMA MoveStoreKeeps ==
  ASSUME BinstoreInv, NEW to \in Stores, NEW from \in Stores, MoveStore(to, from)
  PROVE  BinstoreInv'
<1>1. /\ to # from /\ store[from].om # "undef" /\ file' = FileAfterReset(to) /\ closed' = ClosedAfterReset(to)
      /\ store' = [store EXCEPT ![to] = store[from], ![from] = Undef]
      /\ got' = [got EXCEPT ![to] = got[from], ![from] = <<>>] /\ written' = written
  BY DEF MoveStore, IsGood
<1>2. BinstoreTypeOK /\ <<>> \in Seq(Outcomes)
  BY DEF BinstoreInv
<1>3. store[to].om # "create"
  BY <1>1 DEF BinstoreInv, WriterIsAlone
<1>4. file' = file /\ closed' = closed
  BY <1>1, <1>2, <1>3 DEF FileAfterReset, ClosedAfterReset, BinstoreTypeOK
<1>5. /\ store' \in [Stores -> OpenFile]
      /\ \A t \in Stores : store'[t] = IF t = from THEN Undef ELSE IF t = to THEN store[from] ELSE store[t]
  BY <1>1, <1>2, UndefOpen DEF BinstoreTypeOK
<1>6. /\ got' \in [Stores -> Seq(Outcomes)]
      /\ \A t \in Stores : got'[t] = IF t = from THEN <<>> ELSE IF t = to THEN got[from] ELSE got[t]
  BY <1>1, <1>2 DEF BinstoreTypeOK
<1>7. BinstoreTypeOK'
  BY <1>1, <1>2, <1>4, <1>5, <1>6 DEF BinstoreTypeOK
<1>8. WriterIsAlone'
  BY <1>5, UndefOpen DEF BinstoreInv, WriterIsAlone
<1>9. ASSUME NEW t \in Stores PROVE Follows(store'[t], got'[t], file', closed', written')
  <2>1. CASE t = from
    BY <1>5, <2>1, UndefOpen DEF Follows
  <2>2. CASE t = to
    BY <1>1, <1>4, <1>5, <1>6, <2>2 DEF BinstoreInv
  <2>3. CASE t # from /\ t # to
    BY <1>1, <1>4, <1>5, <1>6, <2>3 DEF BinstoreInv
  <2> QED BY <2>1, <2>2, <2>3
<1>10. Held("create") => Held("create")'
  <2> SUFFICES ASSUME NEW t \in Stores, store[t].om = "create" PROVE Held("create")'
    BY DEF Held
  <2>1. CASE t = from
    BY <1>1, <1>5, <2>1 DEF Held
  <2>2. CASE t # from
    BY <1>3, <1>5, <2>2 DEF Held
  <2> QED BY <2>1, <2>2
<1>11. closed' => Tells(file', written')
  BY <1>1, <1>4 DEF BinstoreInv
<1>12. closed' \/ Untold(file') \/ Held("create")'
  BY <1>4, <1>10 DEF BinstoreInv
<1> QED BY <1>7, <1>8, <1>9, <1>11, <1>12 DEF BinstoreInv

LEMMA ResetKeeps ==
  ASSUME BinstoreInv, NEW s \in Stores, Reset(s)
  PROVE  BinstoreInv'
<1>1. store[s].tag \in Nat
  BY DEF BinstoreInv, BinstoreTypeOK, OpenFile
<1> QED BY <1>1, ResetOpen, ReplacedKeeps DEF Reset

(* What changes in one open file only.                                     *)
LEMMA OnlyOneFile ==
  ASSUME BinstoreInv, NEW s \in Stores, NEW st \in OpenFile, NEW g \in Seq(Outcomes),
         store' = [store EXCEPT ![s] = st], got' = [got EXCEPT ![s] = g],
         file' = file, closed' = closed, written' = written,
         st.om = store[s].om, Follows(st, g, file, closed, written)
  PROVE  BinstoreInv'
<1>1. BinstoreTypeOK
  BY DEF BinstoreInv
<1>2. store' \in [Stores -> OpenFile] /\ \A t \in Stores : store'[t] = IF t = s THEN st ELSE store[t]
  BY <1>1 DEF BinstoreTypeOK
<1>3. got' \in [Stores -> Seq(Outcomes)] /\ \A t \in Stores : got'[t] = IF t = s THEN g ELSE got[t]
  BY <1>1 DEF BinstoreTypeOK
<1>4. BinstoreTypeOK'
  BY <1>1, <1>2, <1>3 DEF BinstoreTypeOK
<1>5. WriterIsAlone'
  BY <1>2 DEF BinstoreInv, WriterIsAlone
<1>6. \A t \in Stores : Follows(store'[t], got'[t], file', closed', written')
  BY <1>2, <1>3 DEF BinstoreInv
<1>7. Held("create") => Held("create")'
  BY <1>2 DEF Held
<1>8. closed' => Tells(file', written')
  BY DEF BinstoreInv
<1>9. closed' \/ Untold(file') \/ Held("create")'
  BY <1>7 DEF BinstoreInv
<1> QED BY <1>4, <1>5, <1>6, <1>8, <1>9 DEF BinstoreInv

(* What a writer does.                                                     *)
LEMMA WriterKeeps ==
  ASSUME BinstoreInv, NEW s \in Stores, store[s].om = "create", NEW st \in OpenFile, st.om = "create",
         store' = [store EXCEPT ![s] = st], got' = got, closed' = closed,
         file' \in Seq(Cell), written' \in Asking, Writes(st, file', closed, written')
  PROVE  BinstoreInv'
<1>1. BinstoreTypeOK /\ ~closed
  BY DEF BinstoreInv, Writes
<1>2. store' \in [Stores -> OpenFile] /\ \A t \in Stores : store'[t] = IF t = s THEN st ELSE store[t]
  BY <1>1 DEF BinstoreTypeOK
<1>3. BinstoreTypeOK'
  BY <1>1, <1>2 DEF BinstoreTypeOK
<1>4. WriterIsAlone'
  BY <1>2 DEF BinstoreInv, WriterIsAlone
<1>5. ASSUME NEW t \in Stores PROVE Follows(store'[t], got'[t], file', closed', written')
  <2>1. CASE t = s
    BY <1>2, <2>1 DEF Follows
  <2>2. CASE t # s
    BY <1>2, <2>2 DEF BinstoreInv, WriterIsAlone, Follows
  <2> QED BY <2>1, <2>2
<1>6. Held("create")'
  BY <1>2 DEF Held
<1> QED BY <1>1, <1>3, <1>4, <1>5, <1>6 DEF BinstoreInv

GrownBy(old, h, n) == [old EXCEPT !.held = h, !.dataSize = old.dataSize + n, !.dirty = TRUE]
IsGrown(st, old, h, n) ==
  /\ st \in OpenFile /\ st.om = old.om /\ st.held = h /\ st.dirty /\ st.tag = old.tag
  /\ st.dataSize = old.dataSize + n
LEMMA GrownFile ==
  ASSUME NEW old \in OpenFile, NEW h \in Seq(Cell), NEW n \in Nat
  PROVE  IsGrown(GrownBy(old, h, n), old, h, n)
<1>0. PICK st : st = [old EXCEPT !.held = h, !.dataSize = old.dataSize + n, !.dirty = TRUE]
  OBVIOUS
<1>1. old.dataSize + n \in Nat
  BY DEF OpenFile
<1> DEFINE m == old.dataSize + n
<1> HIDE DEF m
<1>2. st = [old EXCEPT !.held = h, !.dataSize = m, !.dirty = TRUE] /\ m \in Nat
  BY <1>0, <1>1 DEF m
<1>3. st \in OpenFile
  BY <1>2 DEF OpenFile
<1>4. st.om = old.om /\ st.held = h /\ st.tag = old.tag /\ st.dataSize = m
  BY <1>2 DEF OpenFile
<1>5. st.dirty
  BY <1>2 DEF OpenFile
<1>6. IsGrown(st, old, h, n)
  BY <1>3, <1>4, <1>5 DEF m, IsGrown
<1>7. st = GrownBy(old, h, n)
  BY <1>0 DEF GrownBy
<1> QED BY <1>6, <1>7

Regroups(s, t, u) == (s \o t) \o u = s \o (t \o u)
LEMMA Regrouped ==
  ASSUME NEW S, NEW s \in Seq(S), NEW t \in Seq(S), NEW u \in Seq(S)
  PROVE  Regroups(s, t, u)
<1>1. (s \o t) \o u = s \o (t \o u)
  BY ConcatAssociative
<1> QED BY <1>1 DEF Regroups

LEMMA WriteItemKeeps ==
  ASSUME BinstoreInv, NEW s \in Stores, NEW item \in Items, WriteItem(s, item), ~IsTooLong(item)
  PROVE  BinstoreInv'
<1> DEFINE old == store[s]
           b == Bytes(item)
           h == old.held \o b
           w == [written EXCEPT !.items = Append(written.items, item)]
<1>0. PICK st : st = [old EXCEPT !.held = h, !.dataSize = old.dataSize + Len(b), !.dirty = TRUE]
  OBVIOUS
<1>1. /\ old.om = "create" /\ file' = file /\ got' = got /\ closed' = closed
      /\ store' = [store EXCEPT ![s] = st] /\ written' = w
  BY <1>0 DEF WriteItem
<1>2. /\ BinstoreTypeOK /\ old \in OpenFile /\ old.held \in Seq(Cell) /\ written.items \in Seq(Items)
      /\ written \in Asking /\ file \in Seq(Cell) /\ old.dataSize \in Nat
  BY DEF BinstoreInv, BinstoreTypeOK, Asking, OpenFile
<1>3. Writes(old, file, closed, written)
  BY <1>1 DEF BinstoreInv, Follows
<1>4. b \in Seq(Nat) /\ b \in Seq(Cell) /\ Len(b) \in Nat
  <2>1. Nat \subseteq Cell
    BY DEF Cell
  <2> QED BY <2>1, BytesOf, SeqMonotonic, LenProperties
<1>5. h \in Seq(Cell)
  BY <1>2, <1>4, ConcatProperties
<1>6. /\ w \in Asking /\ w.items = Append(written.items, item) /\ w.tag = written.tag
  <2>1. Append(written.items, item) \in Seq(Items)
    BY <1>2, AppendProperties
  <2> QED BY <1>2, <2>1 DEF Asking
<1>7. /\ st \in OpenFile /\ st.om = "create" /\ st.held = h /\ st.dirty /\ st.tag = old.tag
      /\ st.dataSize = old.dataSize + Len(b)
  <2> HIDE DEF h, b, old
  <2> DEFINE n == Len(b)
  <2>1. n \in Nat /\ st = [old EXCEPT !.held = h, !.dataSize = old.dataSize + n, !.dirty = TRUE]
    BY <1>0, <1>4
  <2> HIDE DEF n
  <2>2. IsGrown(st, old, h, n)
    <3>1. IsGrown(GrownBy(old, h, n), old, h, n)
      BY <1>2, <1>5, <2>1, GrownFile
    <3>2. st = GrownBy(old, h, n)
      BY <2>1 DEF GrownBy
    <3> QED BY <3>1, <3>2
  <2> QED BY <1>1, <2>2 DEF n, IsGrown
<1>8. file \o h = (file \o old.held) \o b
  <2> DEFINE mid == old.held
  <2>1. mid \in Seq(Cell)
    BY <1>2
  <2> HIDE DEF b, mid
  <2>2. file \in Seq(Cell) /\ b \in Seq(Cell)
    BY <1>2, <1>4
  <2>3. Regroups(file, mid, b)
    BY <2>1, <2>2, Regrouped
  <2> QED BY <2>3 DEF mid, Regroups
<1> HIDE DEF w
<1>9. /\ IsComplete((file \o old.held) \o b, w.items) /\ ((file \o old.held) \o b)[1] = Zero
      /\ st.dataSize = Len(Flat(w.items))
  <2>1. /\ IsComplete(file \o old.held, written.items) /\ (file \o old.held)[1] = Zero
        /\ old.dataSize = Len(Flat(written.items))
    BY <1>3 DEF Writes
  <2>2. file \o old.held \in Seq(Cell)
    BY <1>2, ConcatProperties
  <2> QED BY <1>2, <1>6, <1>7, <2>1, <2>2, CompleteMore
<1>10. Writes(st, file, closed, w)
  BY <1>3, <1>6, <1>7, <1>8, <1>9 DEF Writes
<1> HIDE DEF old
<1>11. Writes(st, file', closed, written') /\ file' \in Seq(Cell) /\ written' \in Asking
  BY <1>1, <1>2, <1>6, <1>10
<1> QED BY <1>1, <1>7, <1>11, WriterKeeps DEF old

LEMMA SetTagKeeps ==
  ASSUME BinstoreInv, NEW s \in Stores, NEW tag \in Tags, SetTag(s, tag)
  PROVE  BinstoreInv'
<1> DEFINE old == store[s]
           st == [old EXCEPT !.tag = tag, !.dirty = TRUE]
           w == [written EXCEPT !.tag = tag]
<1>1. /\ old.om # "undef" /\ file' = file /\ got' = got /\ closed' = closed
      /\ store' = [store EXCEPT ![s] = st] /\ written' = IF old.om = "create" THEN w ELSE written
  BY DEF SetTag, IsGood
<1>2. BinstoreTypeOK /\ old \in OpenFile /\ written \in Asking /\ file \in Seq(Cell) /\ got[s] \in Seq(Outcomes)
  BY DEF BinstoreInv, BinstoreTypeOK
<1>3. tag \in Nat
  BY BinstoreAssumption DEF BinstoreAssumption
<1>4. Follows(old, got[s], file, closed, written)
  BY DEF BinstoreInv
<1> HIDE DEF old
<1>5. /\ st \in OpenFile /\ st.om = old.om /\ st.held = old.held /\ st.dirty /\ st.tag = tag
      /\ st.dataSize = old.dataSize /\ st.at = old.at
  BY <1>2, <1>3 DEF OpenFile
<1>6. w \in Asking /\ w.items = written.items /\ w.tag = tag
  BY <1>2, <1>3 DEF Asking
<1> HIDE DEF st, w
<1>7. CASE old.om = "create"
  <2>1. Writes(st, file, closed, w)
    BY <1>4, <1>5, <1>6, <1>7 DEF Follows, Writes
  <2>2. Writes(st, file', closed, written') /\ file' \in Seq(Cell) /\ written' \in Asking
    BY <1>1, <1>2, <1>6, <1>7, <2>1
  <2>3. store[s].om = "create" /\ st.om = "create"
    BY <1>5, <1>7 DEF old
  <2> QED BY <1>1, <1>5, <2>2, <2>3, WriterKeeps
<1>8. CASE old.om = "read"
  <2>1. Follows(st, got[s], file, closed, written)
    BY <1>4, <1>5, <1>8 DEF Follows, Reads
  <2>2. got' = [got EXCEPT ![s] = got[s]]
    BY <1>1, <1>2 DEF BinstoreTypeOK
  <2>3. written' = written /\ st.om = store[s].om
    BY <1>1, <1>5, <1>8 DEF old
  <2> QED BY <1>1, <1>2, <1>5, <2>1, <2>2, <2>3, OnlyOneFile
<1> QED BY <1>1, <1>2, <1>7, <1>8 DEF OpenFile

(* What a reader finds where it reads on.                                  *)
Wanted(s) == written.items[Len(got[s]) + 1]
Finds(s, kind, x, n) ==
  /\ x \in Items /\ x[1] = kind /\ Append(got[s], ReadAs(x)) \in Seq(Outcomes) /\ n \in Nat /\ store[s].at \in Nat
  /\ store[s].dataSize \in Nat /\ n <= store[s].dataSize /\ store[s].at + n < Len(file)
  /\ \A j \in 1 .. n : file[store[s].at + j + 1] = Bytes(x)[j]
  /\ \A st \in OpenFile :
       /\ st.om = "read" /\ st.held = store[s].held
       /\ st.at = store[s].at + n /\ st.dataSize = store[s].dataSize - n
       => Follows(st, Append(got[s], ReadAs(x)), file, closed, written)

LEMMA ReaderFinds ==
  ASSUME BinstoreInv, NEW s \in Stores, NEW kind, Asked(s, kind), Enough(s, 1)
  PROVE  Finds(s, kind, Wanted(s), Len(Bytes(Wanted(s))))
<1>0. PICK x : x = Wanted(s)
  OBVIOUS
<1>l. PICK n : n = Len(Bytes(x))
  OBVIOUS
<1> DEFINE old == store[s]
           g == got[s]
           items == written.items
           all == Flat(items)
<1>1. /\ old \in OpenFile /\ g \in Seq(Outcomes) /\ items \in Seq(Items) /\ old.dataSize \in Nat /\ old.at \in Nat
      /\ old.om = "read" /\ Len(g) < Len(items) /\ x[1] = kind /\ old.dataSize > 0
      /\ x = items[Len(g) + 1]
  BY <1>0 DEF Wanted, BinstoreInv, BinstoreTypeOK, OpenFile, Asking, Asked, Enough
<1>2. Follows(old, g, file, closed, written) /\ (closed => Tells(file, written))
  BY DEF BinstoreInv
<1> HIDE DEF old, g
<1> DEFINE k == Len(g)
           y == ReadAs(x)
<1>3. /\ old.held = <<>> /\ Came(g, items) /\ closed /\ old.at = Len(Flat(SubSeq(items, 1, k)))
      /\ old.at + old.dataSize = Len(all) /\ IsComplete(file, items)
  BY <1>1, <1>2 DEF Follows, Reads, Tells
<1>4. /\ x \in Items /\ Append(g, y) \in Seq(Outcomes) /\ Came(Append(g, y), items)
      /\ Len(Append(g, y)) = k + 1
      /\ old.at + n <= Len(all) /\ \A j \in 1 .. n : all[old.at + j] = Bytes(x)[j]
      /\ Len(Flat(SubSeq(items, 1, k + 1))) = old.at + n
  <2> HIDE DEF items
  <2>0. k \in Nat /\ k < Len(items) /\ x = items[k + 1]
    BY <1>1, LenProperties
  <2>1. /\ x \in Items
        /\ Len(Flat(SubSeq(items, 1, k))) + Len(Bytes(x)) <= Len(Flat(items))
        /\ \A j \in 1 .. Len(Bytes(x)) : Flat(items)[Len(Flat(SubSeq(items, 1, k))) + j] = Bytes(x)[j]
        /\ Len(Flat(SubSeq(items, 1, k + 1))) = Len(Flat(SubSeq(items, 1, k))) + Len(Bytes(x))
    BY <1>1, <2>0, NextItem
  <2>2. Append(g, y) \in Seq(Outcomes) /\ Len(Append(g, y)) = k + 1 /\ Came(Append(g, y), items)
    BY <1>1, <1>3, CameNext
  <2> QED BY <1>3, <1>l, <2>1, <2>2
<1> HIDE DEF k, y
<1>n. /\ \A a, b, c \in Nat : a + b <= c => \A j \in 1 .. b : a + j \in 1 .. c
      /\ \A a, b, c, d \in Nat : a + b = c /\ d <= b => (a + d) + (b - d) = c
  OBVIOUS
<1>5. n \in Nat
  BY <1>4, <1>l, BytesOf, LenProperties
<1>6. Len(file) = Len(all) + 1 /\ \A j \in 1 .. Len(all) : file[j + 1] = all[j]
  BY <1>3 DEF IsComplete
<1>7. Len(all) \in Nat
  BY <1>1, FlatType, LenProperties
<1> HIDE DEF all, items
<1>8. n <= old.dataSize /\ old.at + n < Len(file)
  BY <1>1, <1>3, <1>4, <1>5, <1>6, <1>7
<1>9. ASSUME NEW j \in 1 .. n PROVE file[old.at + j + 1] = Bytes(x)[j]
  <2>1. old.at + j \in 1 .. Len(all)
    BY <1>1, <1>4, <1>5, <1>7, <1>n
  <2> QED BY <1>4, <1>6, <2>1
<1>10. ASSUME NEW st \in OpenFile, st.om = "read", st.held = old.held,
              st.at = old.at + n, st.dataSize = old.dataSize - n
       PROVE  Follows(st, Append(g, y), file, closed, written)
  <2>1. st.at + st.dataSize = Len(all)
    BY <1>1, <1>3, <1>5, <1>7, <1>8, <1>10, <1>n
  <2>2. /\ st.held = <<>> /\ Came(Append(g, y), items) /\ closed
        /\ st.at = Len(Flat(SubSeq(items, 1, Len(Append(g, y)))))
    BY <1>3, <1>4, <1>10
  <2>3. Reads(st, Append(g, y), closed, written)
    BY <2>1, <2>2 DEF Reads, all, items
  <2> QED BY <1>10, <2>3 DEF Follows
<1>11. Finds(s, kind, x, n)
  BY <1>1, <1>4, <1>5, <1>8, <1>9, <1>10 DEF old, g, y, Finds
<1> QED BY <1>0, <1>l, <1>11

(* A reader that reads the next item, whichever it is, goes by its bytes.  *)
LEMMA ReadKeeps ==
  ASSUME BinstoreInv, NEW s \in Stores, NEW kind, Asked(s, kind), Enough(s, 1),
         NEW x, x = Wanted(s), NEW n, n = Len(Bytes(x)),
         store' = Skipped(s, n), got' = [got EXCEPT ![s] = Append(@, ReadAs(x))],
         file' = file, closed' = closed, written' = written
  PROVE  BinstoreInv'
<1> DEFINE old == store[s]
           st == [old EXCEPT !.at = old.at + n, !.dataSize = old.dataSize - n]
           g == Append(got[s], ReadAs(x))
<1>1. store' = [store EXCEPT ![s] = st] /\ got' = [got EXCEPT ![s] = g]
  BY DEF Skipped
<1>2. /\ g \in Seq(Outcomes) /\ n \in Nat /\ old.at \in Nat /\ old.dataSize \in Nat /\ n <= old.dataSize
      /\ \A t \in OpenFile :
           t.om = "read" /\ t.held = old.held /\ t.at = old.at + n /\ t.dataSize = old.dataSize - n
           => Follows(t, g, file, closed, written)
  <2>1. Finds(s, kind, x, n)
    BY ReaderFinds
  <2> QED BY <2>1 DEF Finds
<1>3. old \in OpenFile /\ old.om = "read"
  BY DEF BinstoreInv, BinstoreTypeOK, Asked
<1>4. old.at + n \in Nat /\ old.dataSize - n \in Nat
  <2>1. \A b, d \in Nat : b + d \in Nat /\ (d <= b => b - d \in Nat)
    OBVIOUS
  <2> HIDE DEF old, g
  <2> QED BY <1>2, <2>1
<1> HIDE DEF old, g
<1>5. st \in OpenFile /\ st.om = "read" /\ st.held = old.held /\ st.at = old.at + n /\ st.dataSize = old.dataSize - n
  BY <1>3, <1>4 DEF OpenFile
<1> HIDE DEF st
<1>6. Follows(st, g, file, closed, written) /\ st.om = store[s].om
  BY <1>2, <1>3, <1>5 DEF old
<1> QED BY <1>1, <1>2, <1>5, <1>6, OnlyOneFile

LEMMA ReadValueKeeps ==
  ASSUME BinstoreInv, NEW s \in Stores, ReadValue(s)
  PROVE  BinstoreInv'
<1> DEFINE x == Wanted(s)
           at == store[s].at
<1>1. /\ Asked(s, "value") /\ Enough(s, 1) /\ store' = Skipped(s, 1)
      /\ got' = [got EXCEPT ![s] = Append(@, <<"value", Next1(s)>>)]
      /\ file' = file /\ closed' = closed /\ written' = written
  BY DEF ReadValue
<1> HIDE DEF x, at
<1>2. PICK n : n = Len(Bytes(x))
  OBVIOUS
<1>3. /\ x \in Items /\ x[1] = "value" /\ at \in Nat
      /\ \A j \in 1 .. n : file[at + j + 1] = Bytes(x)[j]
  <2>1. Finds(s, "value", x, n)
    BY <1>1, <1>2, ReaderFinds DEF x
  <2> QED BY <2>1 DEF Finds, at
<1>4. x = <<"value", x[2]>> /\ x[2] \in Nat /\ Bytes(x) = <<x[2]>>
  BY <1>3, BytesOf
<1>5. n = 1 /\ Bytes(x)[1] = x[2]
  BY <1>2, <1>4
<1>6. file[at + 1 + 1] = x[2]
  BY <1>3, <1>5
<1>7. at + 1 + 1 = at + 2
  BY <1>3
<1>8. Next1(s) = x[2]
  BY <1>6, <1>7 DEF Next1, at
<1>9. got' = [got EXCEPT ![s] = Append(@, ReadAs(x))] /\ store' = Skipped(s, n)
  <2>1. ReadAs(x) = <<"value", Next1(s)>>
    BY <1>3, <1>4, <1>8, ReadAsValue
  <2> QED BY <1>1, <1>5, <2>1
<1> QED BY <1>1, <1>2, <1>9, ReadKeeps DEF x

(* A slice is known by its members.                                        *)
LEMMA SliceIs ==
  ASSUME NEW f, NEW lo \in Nat, NEW hi \in Nat, NEW q \in Seq(Nat), NEW m, m = Len(q), hi - lo + 1 = m,
         \A i \in 1 .. m : f[lo + i - 1] = q[i]
  PROVE  SubSeq(f, lo, hi) = q
<1> DEFINE r == SubSeq(f, lo, hi)
<1>1. m \in Nat /\ (lo <= hi <=> m > 0)
  BY LenProperties
<1>2. \A i \in lo .. hi : f[i] \in Nat
  <2> SUFFICES ASSUME NEW i \in lo .. hi PROVE f[i] \in Nat
    OBVIOUS
  <2> DEFINE j == i - lo + 1
  <2>1. j \in 1 .. m /\ lo + j - 1 = i
    BY <1>1
  <2> HIDE DEF j
  <2>2. f[lo + j - 1] = q[j] /\ q[j] \in Nat
    BY <2>1
  <2> QED BY <2>1, <2>2
<1>3. /\ r \in Seq(Nat) /\ Len(r) = IF lo <= hi THEN hi - lo + 1 ELSE 0
      /\ \A i \in 1 .. hi - lo + 1 : r[i] = f[lo + i - 1]
  BY <1>2, SubSeqProperties
<1> HIDE DEF r
<1>4. Len(r) = m
  BY <1>1, <1>3
<1>5. \A i \in 1 .. m : r[i] = q[i]
  BY <1>3
<1>6. r = q
  BY <1>3, <1>4, <1>5, SeqEqual
<1> QED BY <1>6 DEF r

WithLength(q) == <<Len(q)>> \o q
IsString(b, q) == Len(b) = Len(q) + 1 /\ b[1] = Len(q) /\ \A j \in 1 .. Len(q) : b[j + 1] = q[j]
(* A string in the file is its length and its characters.                  *)
LEMMA StringBytes ==
  ASSUME NEW q \in Seq(Nat)
  PROVE  IsString(WithLength(q), q)
<1> DEFINE m == Len(q)
           b == WithLength(q)
           one == <<m>>
<1>0. m \in Nat /\ m = Len(q)
  BY LenProperties
<1>1. one \in Seq(Nat) /\ Len(one) = 1 /\ one[1] = m
  OBVIOUS
<1> HIDE DEF one
<1>2. b = one \o q
  BY DEF one, WithLength
<1> HIDE DEF m, b
<1>c. /\ Len(one \o q) = Len(one) + Len(q)
      /\ \A i \in 1 .. Len(one) + Len(q) : (one \o q)[i] = IF i <= Len(one) THEN one[i] ELSE q[i - Len(one)]
  BY <1>1, ConcatProperties
<1>3. Len(b) = 1 + m /\ \A i \in 1 .. 1 + m : b[i] = IF i <= 1 THEN one[i] ELSE q[i - 1]
  BY <1>0, <1>1, <1>2, <1>c
<1>4. \A j \in 1 .. m : j + 1 \in 1 .. 1 + m /\ ~(j + 1 <= 1) /\ (j + 1) - 1 = j
  BY <1>0
<1>5. 1 \in 1 .. 1 + m /\ 1 + m = m + 1
  BY <1>0
<1>6. Len(b) = m + 1 /\ b[1] = m /\ \A j \in 1 .. m : b[j + 1] = q[j]
  BY <1>1, <1>3, <1>4, <1>5
<1> QED BY <1>0, <1>6 DEF IsString, b

LEMMA ReadStringKeeps ==
  ASSUME BinstoreInv, NEW s \in Stores, ReadString(s)
  PROVE  BinstoreInv'
<1> DEFINE x == Wanted(s)
           at == store[s].at
           extent == store[s].dataSize
           read == SubSeq(file, at + 3, at + 2 + Next1(s))
<1>1. /\ Asked(s, "string") /\ Enough(s, 1)
      /\ IF Enough(s, 1 + Next1(s))
         THEN store' = Skipped(s, 1 + Next1(s)) /\ got' = [got EXCEPT ![s] = Append(@, AsRead(read))]
         ELSE store' = Skipped(s, 1) /\ got' = got
      /\ file' = file /\ closed' = closed /\ written' = written
  BY DEF ReadString
<1> HIDE DEF x, at, extent
<1>2. PICK n : n = Len(Bytes(x))
  OBVIOUS
<1>3. /\ x \in Items /\ x[1] = "string" /\ at \in Nat /\ extent \in Nat /\ n \in Nat
      /\ n <= extent /\ at + n < Len(file)
      /\ \A j \in 1 .. n : file[at + j + 1] = Bytes(x)[j]
  <2>1. Finds(s, "string", x, n)
    BY <1>1, <1>2, ReaderFinds DEF x
  <2> QED BY <2>1 DEF Finds, at, extent
<1>4. x = <<"string", x[2]>> /\ x[2] \in Seq(Nat) /\ Bytes(x) = <<Len(x[2])>> \o x[2]
  BY <1>3, BytesOf
<1> DEFINE q == x[2]
           m == Len(q)
<1>5. q \in Seq(Nat) /\ m \in Nat /\ x = <<"string", q>> /\ Bytes(x) = <<m>> \o q
  BY <1>4
<1> HIDE DEF q
<1>6. n = m + 1 /\ Bytes(x)[1] = m /\ \A j \in 1 .. m : Bytes(x)[j + 1] = q[j]
  <2>1. IsString(WithLength(q), q)
    BY <1>5, StringBytes
  <2>2. Bytes(x) = WithLength(q)
    BY <1>5 DEF WithLength
  <2>3. IsString(Bytes(x), q)
    BY <2>1, <2>2
  <2> QED BY <1>2, <2>3 DEF IsString
<1> HIDE DEF m
<1>7. Next1(s) = m
  <2>1. 1 \in 1 .. n /\ at + 1 + 1 = at + 2
    BY <1>3, <1>5, <1>6
  <2>2. file[at + 1 + 1] = m
    BY <1>3, <1>6, <2>1
  <2> QED BY <2>1, <2>2 DEF Next1, at
<1>8. Enough(s, 1 + Next1(s)) /\ 1 + Next1(s) = n
  <2>1. 1 + m = n
    BY <1>5, <1>6
  <2> QED BY <1>3, <1>7, <2>1 DEF Enough, at, extent
<1>9. read = q
  <2>1. read = SubSeq(file, at + 3, at + 2 + m)
    BY <1>7
  <2>2. ASSUME NEW i \in 1 .. m PROVE file[at + 3 + i - 1] = q[i]
    <3>1. i + 1 \in 1 .. n /\ at + (i + 1) + 1 = at + 3 + i - 1
      BY <1>3, <1>5, <1>6
    <3>2. file[at + (i + 1) + 1] = Bytes(x)[i + 1]
      BY <1>3, <3>1
    <3> QED BY <1>6, <3>1, <3>2
  <2> DEFINE lo == at + 3
             hi == at + 2 + m
  <2>3. lo \in Nat /\ hi \in Nat /\ hi - lo + 1 = m
    BY <1>3, <1>5
  <2>l. m = Len(q)
    BY DEF m
  <2>4. \A i \in 1 .. m : file[lo + i - 1] = q[i]
    BY <2>2
  <2> HIDE DEF lo, hi
  <2>5. SubSeq(file, lo, hi) = q
    BY <1>5, <2>3, <2>l, <2>4, SliceIs
  <2> QED BY <2>1, <2>5 DEF lo, hi
<1> HIDE DEF read
<1>10. got' = [got EXCEPT ![s] = Append(@, ReadAs(x))] /\ store' = Skipped(s, n)
  <2>1. ReadAs(x) = AsRead(read)
    BY <1>5, <1>9, ReadAsRead
  <2> QED BY <1>1, <1>8, <2>1
<1> QED BY <1>1, <1>2, <1>10, ReadKeeps DEF x

(* What stdio writes moves from the one to the other.                      *)
LEMMA SyncKeeps ==
  ASSUME BinstoreInv, NEW s \in Stores, NEW n \in 1 .. Len(store[s].held), Sync(s, n)
  PROVE  BinstoreInv'
<1> DEFINE old == store[s]
           front == SubSeq(old.held, 1, n)
           back == SubSeq(old.held, n + 1, Len(old.held))
           st == [old EXCEPT !.held = back]
<1>1. /\ file' = file \o front /\ store' = [store EXCEPT ![s] = st]
      /\ got' = got /\ closed' = closed /\ written' = written
  BY DEF Sync
<1>2. BinstoreTypeOK /\ old \in OpenFile /\ old.held \in Seq(Cell) /\ file \in Seq(Cell)
  BY DEF BinstoreInv, BinstoreTypeOK, OpenFile
<1>3. Follows(old, got[s], file, closed, written)
  BY DEF BinstoreInv
<1>4. old.held # <<>>
  <2>1. Len(old.held) # 0
    BY <1>2
  <2> QED BY <2>1
<1>5. old.om = "create" /\ Writes(old, file, closed, written)
  BY <1>2, <1>3, <1>4 DEF Follows, Reads, OpenFile
<1>6. front \in Seq(Cell) /\ back \in Seq(Cell) /\ front \o back = old.held
  <2> DEFINE h == old.held
             k == Len(h)
  <2>1. h \in Seq(Cell) /\ k \in Nat /\ n \in 1 .. k
    BY <1>2
  <2> HIDE DEF h
  <2>2. 1 \in 1 .. Len(h) + 1 /\ n \in 1 - 1 .. Len(h) /\ Len(h) \in n .. Len(h)
    BY <2>1
  <2>3. SubSeq(h, 1, n) \o SubSeq(h, n + 1, Len(h)) = SubSeq(h, 1, Len(h))
    BY <2>1, <2>2, ConcatAdjacentSubSeq
  <2>4. SubSeq(h, 1, Len(h)) = h
    BY <2>1, SubSeqFull
  <2>5. SubSeq(h, 1, n) \in Seq(Cell) /\ SubSeq(h, n + 1, Len(h)) \in Seq(Cell)
    BY <2>1
  <2> QED BY <2>3, <2>4, <2>5 DEF h
<1> HIDE DEF front, back
<1>7. (file \o front) \o back = file \o old.held
  <2>1. Regroups(file, front, back)
    BY <1>2, <1>6, Regrouped
  <2> QED BY <1>6, <2>1 DEF Regroups
<1> HIDE DEF old
<1>8. /\ st \in OpenFile /\ st.om = "create" /\ st.held = back /\ st.dirty = old.dirty /\ st.tag = old.tag
      /\ st.dataSize = old.dataSize
  BY <1>2, <1>5, <1>6 DEF OpenFile
<1> HIDE DEF st
<1>9. Writes(st, file \o front, closed, written)
  BY <1>5, <1>7, <1>8 DEF Writes
<1>10. file' \in Seq(Cell)
  BY <1>1, <1>2, <1>6, ConcatProperties
<1>11. Writes(st, file', closed, written') /\ written' \in Asking
  BY <1>1, <1>2, <1>9 DEF BinstoreTypeOK
<1>12. store[s].om = "create"
  BY <1>5 DEF old
<1> QED BY <1>1, <1>8, <1>10, <1>11, <1>12, WriterKeeps

(* The header says nothing of the data of a writer that dies.              *)
LEMMA DieKeeps ==
  ASSUME BinstoreInv, NEW s \in Stores, Die(s)
  PROVE  BinstoreInv'
<1>1. /\ store' = [store EXCEPT ![s] = Undef] /\ file' = file /\ written' = written
      /\ got' = got /\ closed' = closed
  BY DEF Die
<1>2. BinstoreTypeOK
  BY DEF BinstoreInv
<1>3. store' \in [Stores -> OpenFile] /\ \A t \in Stores : store'[t] = IF t = s THEN Undef ELSE store[t]
  BY <1>1, <1>2, UndefOpen DEF BinstoreTypeOK
<1>4. BinstoreTypeOK'
  BY <1>1, <1>2, <1>3 DEF BinstoreTypeOK
<1>5. WriterIsAlone'
  BY <1>3, UndefOpen DEF BinstoreInv, WriterIsAlone
<1>6. ASSUME NEW t \in Stores PROVE Follows(store'[t], got'[t], file', closed', written')
  <2>1. CASE t = s
    BY <1>3, <2>1, UndefOpen DEF Follows
  <2>2. CASE t # s
    BY <1>1, <1>3, <2>2 DEF BinstoreInv
  <2> QED BY <2>1, <2>2
<1>7. closed' => Tells(file', written')
  BY <1>1 DEF BinstoreInv
<1>8. closed' \/ Untold(file') \/ Held("create")'
  <2>1. CASE store[s].om = "create"
    <3> DEFINE h == store[s].held
    <3>1. Writes(store[s], file, closed, written) /\ h \in Seq(Cell) /\ file \in Seq(Cell)
      BY <1>2, <2>1 DEF BinstoreInv, Follows, BinstoreTypeOK, OpenFile
    <3>2. (file \o h)[1] = Zero
      BY <3>1 DEF Writes
    <3> HIDE DEF h
    <3>3. Len(file) # 0 => file[1] = Zero
      <4> SUFFICES ASSUME Len(file) # 0 PROVE (file \o h)[1] = file[1]
        BY <3>2
      <4>1. 1 \in 1 .. Len(file) + Len(h) /\ 1 <= Len(file)
        BY <3>1, LenProperties
      <4> QED BY <3>1, <4>1, ConcatProperties
    <3> QED BY <1>1, <3>3 DEF Untold
  <2>2. CASE store[s].om # "create"
    <3>1. Held("create") => Held("create")'
      BY <1>3, <2>2 DEF Held
    <3> QED BY <1>1, <3>1 DEF BinstoreInv
  <2> QED BY <2>1, <2>2
<1> QED BY <1>4, <1>5, <1>6, <1>7, <1>8 DEF BinstoreInv

LEMMA BinstoreBegins == BinstoreInit => BinstoreInv
<1> SUFFICES ASSUME BinstoreInit PROVE BinstoreInv
  OBVIOUS
<1> DEFINE nothing == <<>>
<1>1. nothing \in Seq(Cell) /\ nothing \in Seq(Items) /\ nothing \in Seq(Outcomes) /\ Len(nothing) = 0
  OBVIOUS
<1>2. /\ file = nothing /\ store = [s \in Stores |-> Undef] /\ written = [items |-> nothing, tag |-> 0]
      /\ got = [s \in Stores |-> nothing] /\ closed = FALSE
  BY DEF BinstoreInit
<1> HIDE DEF nothing
<1>3. BinstoreTypeOK
  BY <1>1, <1>2, UndefOpen DEF BinstoreTypeOK, Asking
<1>4. \A s \in Stores : Follows(store[s], got[s], file, closed, written)
  BY <1>2, UndefOpen DEF Follows
<1>5. WriterIsAlone
  BY <1>2, UndefOpen DEF WriterIsAlone
<1>6. Untold(file)
  BY <1>1, <1>2 DEF Untold
<1> QED BY <1>2, <1>3, <1>4, <1>5, <1>6 DEF BinstoreInv

LEMMA BinstoreStep == BinstoreInv /\ [BinstoreNext]_binstoreVars => BinstoreInv'
<1> SUFFICES ASSUME BinstoreInv, [BinstoreNext]_binstoreVars PROVE BinstoreInv'
  OBVIOUS
<1>1. ASSUME UNCHANGED binstoreVars PROVE BinstoreInv'
  BY <1>1 DEF binstoreVars, BinstoreInv, BinstoreTypeOK, WriterIsAlone, Held
<1>2. ASSUME NEW s \in Stores, Reset(s) PROVE BinstoreInv'
  BY <1>2, ResetKeeps
<1>3. ASSUME NEW s \in Stores, Create(s) PROVE BinstoreInv'
  BY <1>3, CreateKeeps
<1>4. ASSUME NEW s \in Stores, OpenToRead(s) PROVE BinstoreInv'
  BY <1>4, OpenToReadKeeps
<1>5. ASSUME NEW to \in Stores, NEW from \in Stores, MoveStore(to, from) PROVE BinstoreInv'
  BY <1>5, MoveStoreKeeps
<1>6. ASSUME NEW s \in Stores, NEW item \in Items, WriteItem(s, item) PROVE BinstoreInv'
  <2>1. CASE IsTooLong(item)
    <3>1. UNCHANGED binstoreVars
      BY <1>6, <2>1 DEF WriteItem, binstoreVars
    <3> QED BY <1>1, <3>1
  <2> QED BY <1>6, <2>1, WriteItemKeeps
<1>7. ASSUME NEW s \in Stores, NEW tag \in Tags, SetTag(s, tag) PROVE BinstoreInv'
  BY <1>7, SetTagKeeps
<1>8. ASSUME NEW s \in Stores, ReadValue(s) PROVE BinstoreInv'
  BY <1>8, ReadValueKeeps
<1>9. ASSUME NEW s \in Stores, ReadString(s) PROVE BinstoreInv'
  BY <1>9, ReadStringKeeps
<1>10. ASSUME NEW s \in Stores, NEW n \in 1 .. Len(store[s].held), Sync(s, n) PROVE BinstoreInv'
  BY <1>10, SyncKeeps
<1>11. ASSUME NEW s \in Stores, Die(s) PROVE BinstoreInv'
  BY <1>11, DieKeeps
<1> QED BY <1>1, <1>2, <1>3, <1>4, <1>5, <1>6, <1>7, <1>8, <1>9, <1>10, <1>11 DEF BinstoreNext

LEMMA BinstoreMeans == BinstoreInv => StoreReadsBack
<1> SUFFICES ASSUME BinstoreInv PROVE StoreReadsBack
  OBVIOUS
<1> DEFINE n == Len(Flat(written.items))
<1>1. written.items \in Seq(Items) /\ n \in Nat /\ BinstoreTypeOK
  <2>1. written.items \in Seq(Items)
    BY DEF BinstoreInv, BinstoreTypeOK, Asking
  <2> QED BY <2>1, FlatType, LenProperties DEF BinstoreInv
<1> HIDE DEF n
<1>2. ASSUME NEW s \in Stores, store[s].om = "read"
      PROVE  /\ Came(got[s], written.items)
             /\ store[s].dataSize > 0 => store[s].at + store[s].dataSize < Len(file)
  <2>1. Reads(store[s], got[s], closed, written) /\ (closed => Tells(file, written))
    BY <1>2 DEF BinstoreInv, Follows
  <2>2. store[s].dataSize > 0 => store[s].at + store[s].dataSize = n /\ Len(file) = n + 1
    BY <2>1 DEF Reads, Tells, IsComplete, n
  <2> QED BY <1>1, <2>1, <2>2 DEF Reads
<1>3. ASSUME closed PROVE file # <<>> /\ (n <= SizeLimit => file[1] = serialHeader_t(n, written.tag))
  <2>1. Tells(file, written)
    BY <1>3 DEF BinstoreInv
  <2>2. Len(file) = n + 1
    BY <2>1 DEF Tells, IsComplete, n
  <2>3. file # <<>>
    BY <1>1, <2>2
  <2> QED BY <2>1, <2>3 DEF Tells, n, serialHeader_t
<1> QED BY <1>2, <1>3 DEF StoreReadsBack, Came, ReadAs, n, Flat

(* Every item is read back as it was written or, of an empty string and    *)
(* one that holds a NUL, as Read makes it, in its order, and never beyond  *)
(* the end, whoever writes, closes or dies, for any stores, any items and  *)
(* any limits of headers and strings (binstore.cpp:275-465, 477-587).      *)
THEOREM StoresReadBack == BinstoreSpec => []StoreReadsBack
BY BinstoreBegins, BinstoreStep, BinstoreMeans, PTL DEF BinstoreSpec

(***************************************************************************)
(* Configurations.                                                         *)
(***************************************************************************)
Values == ({"number"} \X Int) \cup ({"string"} \X STRING)

(* The entries are finitely many, under keys and with values of a line.    *)
Dictionary(d) ==
  IsFiniteSet(DOMAIN d) /\ DOMAIN d \subseteq Seq(STRING) /\ d \in [DOMAIN d -> Values]

ConfigInv ==
  /\ Dictionary(dict)
  /\ context \in Seq(STRING) /\ thrown \in BOOLEAN
  /\ sections \in Seq(SectionKeys)
  /\ ~thrown => context = FlattenSeq(sections)

LEMMA EnteredDictionary ==
  ASSUME NEW d, Dictionary(d), NEW k \in Seq(STRING), NEW v \in Values
  PROVE  Dictionary(Entered(d, k, v))
<1> DEFINE e == Entered(d, k, v)
<1>1. DOMAIN e = DOMAIN d \cup {k}
  BY DEF Entered
<1>2. IsFiniteSet(DOMAIN d \cup {k})
  BY FS_AddElement DEF Dictionary
<1>3. \A x \in DOMAIN d \cup {k} : e[x] \in Values
  BY DEF Entered, Dictionary
<1>4. e = [x \in DOMAIN e |-> e[x]]
  BY DEF Entered
<1> HIDE DEF e
<1>5. e \in [DOMAIN e -> Values]
  BY <1>1, <1>3, <1>4
<1>6. DOMAIN e \subseteq Seq(STRING)
  BY <1>1 DEF Dictionary
<1>7. Dictionary(e)
  BY <1>1, <1>2, <1>5, <1>6 DEF Dictionary
<1> QED BY <1>7 DEF e

(* Sections are opened at the end and closed from there.                   *)
LEMMA SectionsType ==
  ASSUME NEW ss \in Seq(SectionKeys)
  PROVE  ss \in Seq(Seq(STRING)) /\ FlattenSeq(ss) \in Seq(STRING)
<1>1. Seq(SectionKeys) \subseteq Seq(Seq(STRING))
  BY ConfigAssumption, SeqMonotonic DEF ConfigAssumption
<1> QED BY <1>1, FlattenType

LEMMA SectionOpens ==
  ASSUME NEW ss \in Seq(SectionKeys), NEW k \in SectionKeys
  PROVE  /\ Append(ss, k) \in Seq(SectionKeys)
         /\ FlattenSeq(Append(ss, k)) = FlattenSeq(ss) \o k
         /\ FlattenSeq(ss) \o k \in Seq(STRING)
<1>1. ss \in Seq(Seq(STRING)) /\ FlattenSeq(ss) \in Seq(STRING) /\ k \in Seq(STRING)
  BY SectionsType, ConfigAssumption DEF ConfigAssumption
<1> QED BY <1>1, FlattenAppend, ConcatProperties, AppendProperties

LEMMA FrontAppend ==
  ASSUME NEW S, NEW s \in Seq(S), s # <<>>
  PROVE  /\ Front(s) \in Seq(S) /\ s[Len(s)] \in S
         /\ s = Append(Front(s), s[Len(s)])
<1>1. Len(s) \in Nat /\ Len(s) # 0
  BY LenProperties, EmptySeq
<1> DEFINE n == Len(s) - 1
<1>2. n \in Nat /\ Len(s) = n + 1
  BY <1>1
<1>a. Len(s) - 1 = n
  OBVIOUS
<1> HIDE DEF n
<1>3. n <= Len(s) /\ n < Len(s) /\ Len(s) - 1 = n
  BY <1>2, <1>a
<1> DEFINE t == SubSeq(s, 1, n)
           u == SubSeq(s, 1, n + 1)
<1>4. t \in Seq(S) /\ u = Append(t, s[n + 1]) /\ s[n + 1] \in S
  BY <1>3, Beginning
<1>5. u = s
  BY <1>2, Beginning
<1>6. Front(s) = t
  BY <1>3 DEF Front
<1> HIDE DEF t, u
<1> QED BY <1>2, <1>4, <1>5, <1>6

LEMMA OneLonger ==
  ASSUME NEW S, NEW a \in Seq(S), NEW b \in Seq(S), Len(b) = 1
  PROVE  Len(a \o b) = Len(a) + 1 /\ Len(a) \in Nat /\ SubSeq(a \o b, 1, Len(a)) = a /\ a \o b # <<>>
<1>1. Len(a) \in Nat /\ Len(a \o b) = Len(a) + Len(b)
  BY ConcatProperties, LenProperties
<1>2. Len(a \o b) = Len(a) + 1
  BY <1>1
<1>3. SubSeq(a \o b, 1, Len(a)) = a
  BY ConcatSimplifications, SubSeqOfConcat1, SubSeqFull
<1>4. a \o b # <<>>
  <2>1. a \o b \in Seq(S) /\ Len(a \o b) # 0
    BY <1>1, <1>2, ConcatProperties
  <2> QED BY <2>1, EmptySeq
<1> QED BY <1>1, <1>2, <1>3, <1>4

LEMMA SectionCloses ==
  ASSUME NEW ss \in Seq(SectionKeys)
  PROVE  /\ ss = <<>> <=> FlattenSeq(ss) = <<>>
         /\ ss # <<>> =>
              /\ Front(ss) \in Seq(SectionKeys)
              /\ Closed(FlattenSeq(ss)) = FlattenSeq(Front(ss))
              /\ Closed(FlattenSeq(ss)) \in Seq(STRING)
<1>1. CASE ss = <<>>
  <2>1. FlattenSeq(ss) = <<>>
    BY <1>1 DEF FlattenSeq
  <2> QED BY <1>1, <2>1
<1>2. CASE ss # <<>>
  <2> DEFINE f == Front(ss)
             x == ss[Len(ss)]
             b == FlattenSeq(f)
  <2>1. f \in Seq(SectionKeys) /\ x \in SectionKeys /\ ss = Append(f, x)
    BY <1>2, FrontAppend
  <2>2. x \in Seq(STRING) /\ Len(x) = 1
    BY <2>1, ConfigAssumption DEF ConfigAssumption
  <2> HIDE DEF f, x
  <2>3. FlattenSeq(ss) = b \o x /\ b \in Seq(STRING)
    BY <2>1, SectionOpens, SectionsType
  <2> HIDE DEF b
  <2>4. Len(b \o x) = Len(b) + 1 /\ Len(b) \in Nat /\ SubSeq(b \o x, 1, Len(b)) = b /\ b \o x # <<>>
    BY <2>2, <2>3, OneLonger
  <2>7. Closed(b \o x) = b
    <3>1. Len(b \o x) - 1 = Len(b)
      BY <2>4
    <3> QED BY <2>4, <3>1 DEF Closed, UpToLastDot
  <2> QED BY <1>2, <2>1, <2>3, <2>4, <2>7 DEF f, b
<1> QED BY <1>1, <1>2

LEMMA ConfigBegins == ConfigInit => ConfigInv
<1> SUFFICES ASSUME ConfigInit PROVE ConfigInv
  OBVIOUS
<1>1. DOMAIN dict = {} /\ dict \in [DOMAIN dict -> Values]
  BY DEF ConfigInit
<1>2. Dictionary(dict)
  BY <1>1, FS_EmptySet DEF Dictionary
<1>3. FlattenSeq(sections) = <<>> /\ sections \in Seq(SectionKeys)
  BY SectionCloses, EmptySeq DEF ConfigInit
<1>4. context \in Seq(STRING) /\ thrown \in BOOLEAN /\ context = <<>>
  BY EmptySeq DEF ConfigInit
<1> QED BY <1>2, <1>3, <1>4 DEF ConfigInv

(* What a line leaves.                                                     *)
Leaves(d, c, t, s) == dict' = d /\ context' = c /\ thrown' = t /\ sections' = s

LEMMA LineLeaves ==
  ASSUME NEW line \in Lines, ReadLine(line)
  PROVE  \/ Leaves(dict, context, FALSE, sections)
         \/ Leaves(dict, context, TRUE, sections)
         \/ context = <<>> /\ sections # <<>> /\ Leaves(dict, context, TRUE, Front(sections))
         \/ context # <<>> /\ Leaves(dict, Closed(context), FALSE, IF sections # <<>> THEN Front(sections) ELSE sections)
         \/ \E k \in SectionKeys : Leaves(dict, context \o k, FALSE, Append(sections, k))
         \/ \E k \in ConfigKeys, v \in ConfigValues : Leaves(Entered(dict, context \o k, v), context, FALSE, sections)
<1> DEFINE at == [dict |-> dict, context |-> context, thrown |-> FALSE]
           read == ParseString(at, line)
<1>1. /\ dict' = read.dict /\ context' = read.context /\ thrown' = read.thrown
      /\ sections' = IF Is(line, 2, "start") THEN Append(sections, line[1][2])
                     ELSE IF line = <<Finish>> /\ sections # <<>> THEN Front(sections) ELSE sections
  BY DEF ReadLine
<1>2. ASSUME line = <<>> PROVE Leaves(dict, context, FALSE, sections)
  <2>1. read = at
    BY <1>2 DEF ParseString
  <2>2. ~Is(line, 2, "start") /\ line # <<Finish>>
    BY <1>2 DEF Is
  <2> QED BY <1>1, <2>1, <2>2 DEF Leaves
<1>3. ASSUME line = <<Finish>>
      PROVE  LET s == IF sections # <<>> THEN Front(sections) ELSE sections IN
             IF context # <<>> THEN Leaves(dict, Closed(context), FALSE, s) ELSE Leaves(dict, context, TRUE, s)
  <2>1. read = IF context # <<>> THEN [at EXCEPT !.context = Closed(@)] ELSE [at EXCEPT !.thrown = TRUE]
    BY <1>3 DEF ParseString, Is, Finish
  <2>2. ~Is(line, 2, "start")
    BY <1>3 DEF Is
  <2> QED BY <1>1, <1>3, <2>1, <2>2 DEF Leaves
<1>4. ASSUME line = <<Set>> PROVE Leaves(dict, context, TRUE, sections)
  <2>1. read = [at EXCEPT !.thrown = TRUE]
    BY <1>4 DEF ParseString, Is, Set
  <2>2. ~Is(line, 2, "start") /\ line # <<Finish>>
    BY <1>4 DEF Is, Set, Finish
  <2> QED BY <1>1, <2>1, <2>2 DEF Leaves
<1>5. ASSUME NEW k \in SectionKeys, line = <<Key(k), Start>> PROVE Leaves(dict, context \o k, FALSE, Append(sections, k))
  <2>1. read = [at EXCEPT !.context = @ \o k]
    BY <1>5 DEF ParseString, Is, Key, Start
  <2>2. Is(line, 2, "start") /\ line[1][2] = k
    BY <1>5 DEF Is, Key, Start
  <2> QED BY <1>1, <2>1, <2>2 DEF Leaves
<1>6. ASSUME NEW k \in ConfigKeys, line = <<Key(k), Key(k)>> PROVE Leaves(dict, context, TRUE, sections)
  <2>1. read = [at EXCEPT !.thrown = TRUE]
    BY <1>6 DEF ParseString, Is, Key
  <2>2. ~Is(line, 2, "start") /\ line # <<Finish>>
    BY <1>6 DEF Is, Key
  <2> QED BY <1>1, <2>1, <2>2 DEF Leaves
<1>7. ASSUME NEW k \in ConfigKeys, NEW v \in ConfigValues, line = <<Key(k), Set, v>> \/ line = <<Key(k), Set, v, Finish>>
      PROVE Leaves(Entered(dict, context \o k, v), context, FALSE, sections)
  <2>0. v[1] = "string" \/ v[1] = "number"
    BY ConfigAssumption DEF ConfigAssumption
  <2>a. Len(line) >= 3 /\ line # <<>> /\ line # <<Finish>> /\ line[1] = Key(k) /\ line[2] = Set /\ line[3] = v
    <3>1. (Len(line) = 3 \/ Len(line) = 4) /\ line[1] = Key(k) /\ line[2] = Set /\ line[3] = v
      <4>1. CASE line = <<Key(k), Set, v>>
        BY <4>1
      <4>2. CASE line = <<Key(k), Set, v, Finish>>
        BY <4>2
      <4> QED BY <1>7, <4>1, <4>2
    <3>2. Len(<<Finish>>) = 1 /\ Len(<<>>) = 0
      OBVIOUS
    <3>3. Len(line) # 1 /\ Len(line) # 0
      BY <3>1
    <3>4. line # <<>> /\ line # <<Finish>>
      BY <3>2, <3>3
    <3> QED BY <3>1, <3>4
  <2>1. read = [at EXCEPT !.dict = Entered(@, context \o k, v)]
    BY <2>0, <2>a DEF ParseString, Is, Key, Set
  <2>2. ~Is(line, 2, "start")
    BY <2>a DEF Is, Set
  <2> QED BY <1>1, <2>1, <2>2, <2>a DEF Leaves
<1>8. ASSUME NEW k \in ConfigKeys, line = <<Key(k), Set, Start>> PROVE Leaves(dict, context, TRUE, sections)
  <2>1. read = [at EXCEPT !.thrown = TRUE]
    BY <1>8 DEF ParseString, Is, Key, Set, Start
  <2>2. ~Is(line, 2, "start") /\ line # <<Finish>>
    BY <1>8 DEF Is, Set
  <2> QED BY <1>1, <2>1, <2>2 DEF Leaves
<1>9. \/ line = <<>> \/ line = <<Finish>> \/ line = <<Set>>
      \/ \E k \in SectionKeys : line = <<Key(k), Start>>
      \/ \E k \in ConfigKeys : line = <<Key(k), Key(k)>>
      \/ \E k \in ConfigKeys, v \in ConfigValues : line = <<Key(k), Set, v>> \/ line = <<Key(k), Set, v, Finish>>
      \/ \E k \in ConfigKeys : line = <<Key(k), Set, Start>>
  BY DEF Lines
<1> QED BY <1>2, <1>3, <1>4, <1>5, <1>6, <1>7, <1>8, <1>9

LEMMA ConfigStep == ConfigInv /\ [ConfigNext]_configVars => ConfigInv'
<1> SUFFICES ASSUME ConfigInv, [ConfigNext]_configVars PROVE ConfigInv'
  OBVIOUS
<1>0. /\ Dictionary(dict)
      /\ context \in Seq(STRING) /\ thrown \in BOOLEAN
      /\ sections \in Seq(SectionKeys)
      /\ ~thrown => context = FlattenSeq(sections)
  BY DEF ConfigInv
<1>1. ASSUME NEW line \in Lines, ReadLine(line) PROVE ConfigInv'
  <2>0. context = FlattenSeq(sections)
    BY <1>0, <1>1 DEF ReadLine
  <2>1. CASE Leaves(dict, context, FALSE, sections) \/ Leaves(dict, context, TRUE, sections)
    BY <1>0, <2>0, <2>1 DEF ConfigInv, Leaves
  <2>2. CASE context = <<>> /\ sections # <<>>
    BY <1>0, <2>0, <2>2, SectionCloses
  <2>3. CASE context # <<>> /\ Leaves(dict, Closed(context), FALSE, IF sections # <<>> THEN Front(sections) ELSE sections)
    <3>1. /\ sections # <<>> /\ Front(sections) \in Seq(SectionKeys)
          /\ Closed(context) = FlattenSeq(Front(sections)) /\ Closed(context) \in Seq(STRING)
      BY <1>0, <2>0, <2>3, SectionCloses
    <3>2. dict' = dict /\ context' = Closed(context) /\ thrown' = FALSE /\ sections' = Front(sections)
      BY <2>3, <3>1 DEF Leaves
    <3> QED BY <1>0, <3>1, <3>2 DEF ConfigInv
  <2>4. ASSUME NEW k \in SectionKeys, Leaves(dict, context \o k, FALSE, Append(sections, k)) PROVE ConfigInv'
    BY <1>0, <2>0, <2>4, SectionOpens DEF ConfigInv, Leaves
  <2>5. ASSUME NEW k \in ConfigKeys, NEW v \in ConfigValues,
               Leaves(Entered(dict, context \o k, v), context, FALSE, sections)
        PROVE ConfigInv'
    <3>1. context \o k \in Seq(STRING) /\ v \in Values
      BY <1>0, ConfigAssumption, ConcatProperties DEF ConfigAssumption, Values
    <3>2. Dictionary(Entered(dict, context \o k, v))
      BY <1>0, <3>1, EnteredDictionary
    <3> QED BY <1>0, <2>0, <2>5, <3>2 DEF ConfigInv, Leaves
  <2> QED BY <1>1, <2>1, <2>2, <2>3, <2>4, <2>5, LineLeaves
<1>2. CASE LoadNext
  <2>1. /\ dict' = dict /\ context' = <<>> /\ thrown' = FALSE /\ sections' = <<>>
    BY <1>2 DEF LoadNext
  <2>2. <<>> \in Seq(SectionKeys) /\ <<>> \in Seq(STRING)
    BY EmptySeq
  <2>3. FlattenSeq(sections') = <<>>
    BY <2>1, <2>2, SectionCloses
  <2> QED BY <1>0, <2>1, <2>2, <2>3 DEF ConfigInv
<1>3. CASE UNCHANGED configVars
  BY <1>0, <1>3 DEF ConfigInv, configVars
<1> QED BY <1>1, <1>2, <1>3 DEF ConfigNext

(* The library's sequence of a finite set's members has them all.          *)
LEMMA SetInOrder ==
  ASSUME NEW S, IsFiniteSet(S)
  PROVE  /\ Cardinality(S) \in Nat /\ SetToSeq(S) \in [1 .. Cardinality(S) -> S]
         /\ \A x \in S : \E i \in 1 .. Cardinality(S) : SetToSeq(S)[i] = x
<1> DEFINE n == Cardinality(S)
           order == SetToSeq(S)
<1>1. n \in Nat /\ ExistsBijection(1 .. n, S)
  BY FS_CardinalityType
<1>2. PICK f \in [1 .. n -> S] : IsInjective(f)
  BY <1>1 DEF ExistsBijection, Bijection, Injection
<1>3. order = CHOOSE g \in [1 .. n -> S] : IsInjective(g)
  BY DEF SetToSeq
<1> HIDE DEF order
<1>4. order \in [1 .. n -> S] /\ IsInjective(order)
  BY <1>2, <1>3
<1>5. order \in Injection(1 .. n, S)
  BY <1>4 DEF Injection
<1>6. IsFiniteSet(1 .. n) /\ Cardinality(1 .. n) = n
  BY <1>1, FS_Interval
<1>7. order \in Surjection(1 .. n, S)
  BY <1>5, <1>6, FS_Injection
<1>8. \A x \in S : \E i \in 1 .. n : order[i] = x
  BY <1>7 DEF Surjection
<1> QED BY <1>1, <1>4, <1>8 DEF order

(* What Load has read of the keys A of d.                                  *)
ReadOf(d, A) == [dict |-> [k \in A |-> Printed(d[k])], context |-> <<>>, thrown |-> FALSE]

LEMMA LineIsRead ==
  ASSUME NEW d, Dictionary(d), NEW A, NEW k \in DOMAIN d, NEW line,
         line = <<Key(k), Set, Printed(d[k])>>
  PROVE  ParseString(ReadOf(d, A), line) = ReadOf(d, A \cup {k})
<1> DEFINE at == ReadOf(d, A)
           v == Printed(d[k])
<1>1. at.dict = [x \in A |-> Printed(d[x])] /\ at.context = <<>> /\ at.thrown = FALSE
  BY DEF ReadOf
<1>a. at = [dict |-> at.dict, context |-> at.context, thrown |-> at.thrown]
  BY DEF ReadOf
<1>2. k \in Seq(STRING) /\ d[k] \in Values
  BY DEF Dictionary
<1>3. v[1] = "string" \/ v[1] = "number"
  BY <1>2 DEF Printed, Values
<1>4. <<>> \o k = k
  BY <1>2, ConcatEmptySeq
<1>5. Entered(at.dict, k, v) = [x \in A \cup {k} |-> Printed(d[x])]
  BY <1>1 DEF Entered
<1> HIDE DEF v
<1>6. line = <<Key(k), Set, v>>
  BY DEF v
<1>7. /\ line # <<>> /\ ~Is(line, 1, "finish") /\ Is(line, 1, "string") /\ Is(line, 2, "set") /\ ~Is(line, 2, "start")
      /\ Is(line, 3, "string") \/ Is(line, 3, "number")
      /\ line[1][2] = k /\ line[3] = v
  BY <1>3, <1>6 DEF Is, Key, Set
<1> HIDE DEF at
<1>8. ParseString(at, line) = [at EXCEPT !.dict = Entered(@, at.context \o k, v)]
  BY <1>1, <1>7 DEF ParseString
<1>9. Entered(at.dict, at.context \o k, v) = [x \in A \cup {k} |-> Printed(d[x])]
  BY <1>1, <1>4, <1>5
<1> DEFINE e == Entered(at.dict, at.context \o k, v)
<1>10. ParseString(at, line) = [at EXCEPT !.dict = e]
  BY <1>8
<1> HIDE DEF e
<1>11. [at EXCEPT !.dict = e] = [dict |-> e, context |-> at.context, thrown |-> at.thrown]
  BY <1>a
<1>12. e = [x \in A \cup {k} |-> Printed(d[x])]
  BY <1>9 DEF e
<1> QED BY <1>1, <1>10, <1>11, <1>12 DEF at, ReadOf

(* The lines of a saved dictionary are read one after the other.           *)
LEMMA SavedIsLoaded ==
  ASSUME NEW d, Dictionary(d)
  PROVE  Loaded([k \in {} |-> 0], Saved(d)) = ReadOf(d, DOMAIN d)
<1> DEFINE S == DOMAIN d
           n == Cardinality(S)
           order == SetToSeq(S)
           Line(i) == <<Key(order[i]), Set, Printed(d[order[i]])>>
           ls == Saved(d)
           D == {ReadOf(d, A) : A \in SUBSET S}
           base == [dict |-> [k \in {} |-> 0], context |-> <<>>, thrown |-> FALSE]
           Code(f) == [u \in SUBSET (1 .. n) |->
                         IF u = {} THEN base ELSE ParseString(f[u \ {Max(u)}], ls[Max(u)])]
           iter == CHOOSE f : f = Code(f)
           G == [i \in 1 .. n |-> [at \in D |-> ParseString(at, ls[i])]]
<1>1. n \in Nat /\ order \in [1 .. n -> S] /\ \A x \in S : \E i \in 1 .. n : order[i] = x
  BY SetInOrder DEF Dictionary
<1>2. ls = [i \in 1 .. n |-> Line(i)]
  BY DEF Saved
<1>3. DOMAIN ls = 1 .. n /\ \A i \in 1 .. n : ls[i] = Line(i)
  BY <1>2
<1>4. base = ReadOf(d, {})
  <2>1. [k \in {} |-> 0] = [k \in {} |-> Printed(d[k])]
    OBVIOUS
  <2> QED BY <2>1 DEF ReadOf
<1>5. base \in D
  BY <1>4
<1>6. Loaded([k \in {} |-> 0], Saved(d)) = iter[1 .. n]
  <2> HIDE DEF Line
  <2> QED BY <1>3 DEF Loaded, FoldLeft, MapThenFoldSet
<1> HIDE DEF ls, order, n, base
<1>7. ASSUME NEW i \in 1 .. n, NEW A \in SUBSET S
      PROVE  /\ A \cup {order[i]} \in SUBSET S
             /\ ParseString(ReadOf(d, A), ls[i]) = ReadOf(d, A \cup {order[i]})
  <2>1. order[i] \in S /\ ls[i] = <<Key(order[i]), Set, Printed(d[order[i]])>>
    BY <1>1, <1>3
  <2> QED BY <2>1, LineIsRead
<1>8. \A i \in 1 .. n, at \in D : G[i][at] = ParseString(at, ls[i]) /\ G[i][at] \in D
  <2> SUFFICES ASSUME NEW i \in 1 .. n, NEW at \in D PROVE ParseString(at, ls[i]) \in D
    OBVIOUS
  <2>1. PICK A \in SUBSET S : at = ReadOf(d, A)
    OBVIOUS
  <2> QED BY <1>7, <2>1
<1>9. \A A \in SUBSET S : ReadOf(d, A) \in D
  OBVIOUS
<1> HIDE DEF G, D
<1>10. PICK f : IsLeftFold(f, n, D, base, G)
  BY <1>1, <1>5, <1>8, LeftFoldExists
<1>11. f = Code(f)
  BY <1>8, <1>10 DEF IsLeftFold
<1>12. iter = Code(iter)
  BY <1>11
<1> HIDE DEF iter
<1>13. iter[{}] = base
  BY <1>12
<1>14. ASSUME NEW u \in SUBSET (1 .. n), u # {}, Max(u) \in 1 .. n, iter[u \ {Max(u)}] \in D
       PROVE  iter[u] = G[Max(u)][iter[u \ {Max(u)}]]
  BY <1>8, <1>12, <1>14
<1>15. FoldsLeft(iter, n, D, base, G)
  BY <1>13, <1>14 DEF FoldsLeft
<1>16. PICK made : StepsTo(made, n, D, base, G, iter[1 .. n])
  BY <1>1, <1>5, <1>8, <1>15, LeftFoldSteps
<1>17. /\ made[0] = base /\ made[n] = iter[1 .. n]
       /\ \A k \in 1 .. n : made[k] = G[k][made[k - 1]]
  BY <1>16 DEF StepsTo
<1> DEFINE Keys(k) == {order[i] : i \in 1 .. k}
           T == {k \in Nat : k <= n => made[k] = ReadOf(d, Keys(k))}
<1>18. \A k \in Nat : k <= n => Keys(k) \in SUBSET S
  <2> SUFFICES ASSUME NEW k \in Nat, k <= n, NEW i \in 1 .. k PROVE order[i] \in S
    OBVIOUS
  <2>1. i \in 1 .. n
    BY <1>1
  <2> QED BY <1>1, <2>1
<1>19. 0 \in T
  <2>1. Keys(0) = {}
    OBVIOUS
  <2> HIDE DEF Keys
  <2> QED BY <1>4, <1>17, <2>1
<1>20. ASSUME NEW k \in Nat, k \in T PROVE k + 1 \in T
  <2> SUFFICES ASSUME k + 1 <= n PROVE made[k + 1] = ReadOf(d, Keys(k + 1))
    OBVIOUS
  <2>1. k <= n /\ k + 1 \in 1 .. n /\ (k + 1) - 1 = k
    BY <1>1
  <2>2. Keys(k + 1) = Keys(k) \cup {order[k + 1]}
    <3>1. \A i \in 1 .. k + 1 : i \in 1 .. k \/ i = k + 1
      OBVIOUS
    <3>2. \A i \in 1 .. k : i \in 1 .. k + 1
      OBVIOUS
    <3> QED BY <3>1, <3>2
  <2>3. Keys(k) \in SUBSET S
    BY <1>18, <2>1
  <2> HIDE DEF Keys
  <2>4. made[k] = ReadOf(d, Keys(k))
    BY <1>20, <2>1
  <2>5. made[k + 1] = ParseString(ReadOf(d, Keys(k)), ls[k + 1])
    BY <1>8, <1>9, <1>17, <2>1, <2>3, <2>4
  <2> QED BY <1>7, <2>1, <2>2, <2>3, <2>5
<1> HIDE DEF T
<1>21. n \in T
  BY <1>1, <1>19, <1>20, AllNumbers
<1>22. Keys(n) = S
  BY <1>1
<1> HIDE DEF Keys
<1>23. made[n] = ReadOf(d, Keys(n))
  BY <1>1, <1>21 DEF T
<1> QED BY <1>6, <1>17, <1>22, <1>23

LEMMA ConfigMeans == ConfigInv => ConfigReadsBack
<1> SUFFICES ASSUME ConfigInv PROVE ConfigReadsBack
  OBVIOUS
<1> DEFINE again == Loaded([k \in {} |-> 0], Saved(dict))
<1>1. again = ReadOf(dict, DOMAIN dict)
  BY SavedIsLoaded DEF ConfigInv
<1>2. ~again.thrown /\ again.dict = [k \in DOMAIN dict |-> Printed(dict[k])]
  <2> HIDE DEF again
  <2> QED BY <1>1 DEF ReadOf
<1>3. ~thrown => context = FlattenSeq(sections)
  BY DEF ConfigInv
<1> HIDE DEF again
<1>4. again = Loaded([k \in {} |-> 0], Saved(dict))
  BY DEF again
<1> QED BY <1>2, <1>3, <1>4 DEF ConfigReadsBack

(* Keys stand under the sections that are open around them, and a saved    *)
(* dictionary is read back as it was printed, however many keys, values,   *)
(* sections and lines there are (config.cpp:93-226).                       *)
THEOREM ConfigurationsReadBack == ConfigSpec => []ConfigReadsBack
BY ConfigBegins, ConfigStep, ConfigMeans, PTL DEF ConfigSpec

(***************************************************************************)
(* The painter.                                                            *)
(***************************************************************************)
Strokes == {"line", "circle", "text"} \X Int \X Int \X Int \X Int
Machines == [cursor : Int, brushWidth : Int, sides : Int, meshDesc : Seq(Strokes), camera : Int]
CommandNames == STRING \cup {"nul"}
Commands == [cmd : STRING, args : Seq(Int)]
Running == [vm : Machines, refs : Seq(Int), mode : {"command", "arg", "next"}, cmd : CommandNames, result : {0, -1}]

Run(at, tokens) == FoldLeft(ExecuteToken, at, tokens)
Draw(vm, commands) == FoldLeft(Drawn, vm, commands)

(* Both written out: what the code changes are single fields of them.      *)
Machine(c, b, s, m, v) == [cursor |-> c, brushWidth |-> b, sides |-> s, meshDesc |-> m, camera |-> v]
Place(v, r, m, c, e) == [vm |-> v, refs |-> r, mode |-> m, cmd |-> c, result |-> e]

LEMMA MachineIs ==
  /\ \A vm \in Machines :
       /\ vm.cursor \in Int /\ vm.brushWidth \in Int /\ vm.sides \in Int /\ vm.meshDesc \in Seq(Strokes) /\ vm.camera \in Int
       /\ vm = Machine(vm.cursor, vm.brushWidth, vm.sides, vm.meshDesc, vm.camera)
  /\ \A c, b, s, v \in Int, m \in Seq(Strokes) : Machine(c, b, s, m, v) \in Machines
BY DEF Machines, Machine

LEMMA PlaceIs ==
  /\ \A at \in Running :
       /\ at.vm \in Machines /\ at.refs \in Seq(Int) /\ at.mode \in {"command", "arg", "next"}
       /\ at.cmd \in CommandNames /\ at.result \in {0, -1}
       /\ at = Place(at.vm, at.refs, at.mode, at.cmd, at.result)
  /\ \A v \in Machines, r \in Seq(Int), m \in {"command", "arg", "next"}, c \in CommandNames, e \in {0, -1} :
       Place(v, r, m, c, e) \in Running
BY DEF Running, Place

(* What a command does to a machine: to where, and what it draws.          *)
Stroke(s, c, arg, b, n) == <<s, c, arg, b, n>>
Sides(arg) == IF arg = 0 THEN 32 ELSE arg
DrawLetters == {"f", "m", "r", "l", "b", "c", "s", "d"}
Does(next, cmd, arg, c, b, s, m, v) ==
  /\ cmd = "f" => next = Machine(c, b, s, m, arg)
  /\ cmd = "m" => next = Machine(arg, b, s, m, v)
  /\ cmd = "r" => next = Machine(c + arg, b, s, m, v)
  /\ cmd = "l" => next = Machine(arg, b, s, Append(m, Stroke("line", c, arg, b, s)), v)
  /\ cmd = "b" => next = Machine(c, arg, s, m, v)
  /\ cmd = "c" => next = Machine(c, b, s, Append(m, Stroke("circle", c, arg, b, s)), v)
  /\ cmd = "s" => next = Machine(c, b, Sides(arg), m, v)
  /\ cmd = "d" => next = Machine(c, b, s, Append(m, Stroke("text", c, arg, b, s)), v)
  /\ cmd \notin DrawLetters => next = Machine(c, b, s, m, v)

LEMMA CommandDoes ==
  ASSUME NEW c, NEW b, NEW s, NEW m, NEW v, NEW cmd, NEW refs
  PROVE  Does(OnCommand(Machine(c, b, s, m, v), cmd, refs), cmd, Argument(refs, 0), c, b, s, m, v)
<1> DEFINE arg == Argument(refs, 0)
           vm == Machine(c, b, s, m, v)
           next == OnCommand(vm, cmd, refs)
<1>1. vm.cursor = c /\ vm.brushWidth = b /\ vm.sides = s /\ vm.meshDesc = m
  BY DEF Machine
<1>2. ASSUME cmd = "f" PROVE next = Machine(c, b, s, m, arg)
  <2>1. next = [vm EXCEPT !.camera = arg]
    BY <1>1, <1>2 DEF OnCommand, Stroke, Sides
  <2> HIDE DEF arg, next
  <2> QED BY <2>1 DEF Machine
<1>3. ASSUME cmd = "m" PROVE next = Machine(arg, b, s, m, v)
  <2>1. next = [vm EXCEPT !.cursor = arg]
    BY <1>1, <1>3 DEF OnCommand, Stroke, Sides
  <2> HIDE DEF arg, next
  <2> QED BY <2>1 DEF Machine
<1>4. ASSUME cmd = "r" PROVE next = Machine(c + arg, b, s, m, v)
  <2>1. next = [vm EXCEPT !.cursor = c + arg]
    BY <1>1, <1>4 DEF OnCommand, Stroke, Sides
  <2> HIDE DEF arg, next
  <2> QED BY <2>1 DEF Machine
<1>5. ASSUME cmd = "l" PROVE next = Machine(arg, b, s, Append(m, Stroke("line", c, arg, b, s)), v)
  <2>1. next = [vm EXCEPT !.meshDesc = Append(m, Stroke("line", c, arg, b, s)), !.cursor = arg]
    BY <1>1, <1>5 DEF OnCommand, Stroke, Sides
  <2> HIDE DEF arg, next
  <2> QED BY <2>1 DEF Machine
<1>6. ASSUME cmd = "b" PROVE next = Machine(c, arg, s, m, v)
  <2>1. next = [vm EXCEPT !.brushWidth = arg]
    BY <1>1, <1>6 DEF OnCommand, Stroke, Sides
  <2> HIDE DEF arg, next
  <2> QED BY <2>1 DEF Machine
<1>7. ASSUME cmd = "c" PROVE next = Machine(c, b, s, Append(m, Stroke("circle", c, arg, b, s)), v)
  <2>1. next = [vm EXCEPT !.meshDesc = Append(m, Stroke("circle", c, arg, b, s))]
    BY <1>1, <1>7 DEF OnCommand, Stroke, Sides
  <2> HIDE DEF arg, next
  <2> QED BY <2>1 DEF Machine
<1>8. ASSUME cmd = "s" PROVE next = Machine(c, b, Sides(arg), m, v)
  <2>1. next = [vm EXCEPT !.sides = Sides(arg)]
    BY <1>1, <1>8 DEF OnCommand, Stroke, Sides
  <2> HIDE DEF arg, next
  <2> QED BY <2>1 DEF Machine
<1>9. ASSUME cmd = "d" PROVE next = Machine(c, b, s, Append(m, Stroke("text", c, arg, b, s)), v)
  <2>1. next = [vm EXCEPT !.meshDesc = Append(m, Stroke("text", c, arg, b, s))]
    BY <1>1, <1>9 DEF OnCommand, Stroke, Sides
  <2> HIDE DEF arg, next
  <2> QED BY <2>1 DEF Machine
<1>10. cmd \notin DrawLetters => next = vm
  BY DEF OnCommand, DrawLetters
<1> HIDE DEF next, arg
<1>11. Does(next, cmd, arg, c, b, s, m, v)
  BY <1>2, <1>3, <1>4, <1>5, <1>6, <1>7, <1>8, <1>9, <1>10 DEF Does, vm
<1> QED BY <1>11 DEF next, arg

LEMMA CommandKeeps ==
  ASSUME NEW vm \in Machines, NEW cmd, NEW refs \in Seq(Int)
  PROVE  OnCommand(vm, cmd, refs) \in Machines
<1> DEFINE arg == Argument(refs, 0)
           c == vm.cursor
           b == vm.brushWidth
           s == vm.sides
           m == vm.meshDesc
           v == vm.camera
           next == OnCommand(vm, cmd, refs)
<1>1. arg \in Int
  BY DEF Argument
<1>2. /\ c \in Int /\ b \in Int /\ s \in Int /\ v \in Int /\ m \in Seq(Strokes)
      /\ vm = Machine(c, b, s, m, v)
  BY MachineIs
<1>3. Does(next, cmd, arg, c, b, s, m, v)
  <2> HIDE DEF c, b, s, m, v
  <2> QED BY <1>2, CommandDoes
<1> HIDE DEF arg, c, b, s, m, v, next
<1>4. c + arg \in Int /\ Sides(arg) \in Int
  BY <1>1, <1>2 DEF Sides
<1>5. \A x \in {"line", "circle", "text"} : Append(m, Stroke(x, c, arg, b, s)) \in Seq(Strokes)
  <2> TAKE x \in {"line", "circle", "text"}
  <2>1. Stroke(x, c, arg, b, s) \in Strokes
    BY <1>1, <1>2 DEF Strokes, Stroke
  <2> QED BY <1>2, <2>1, AppendProperties
<1>6. \A cc, bb, ss, vv \in Int, mm \in Seq(Strokes) : Machine(cc, bb, ss, mm, vv) \in Machines
  BY MachineIs
<1> DEFINE More(x) == Append(m, Stroke(x, c, arg, b, s))
<1>7. More("line") \in Seq(Strokes) /\ More("circle") \in Seq(Strokes) /\ More("text") \in Seq(Strokes)
  BY <1>5
<1>8. /\ Machine(c, b, s, m, arg) \in Machines /\ Machine(arg, b, s, m, v) \in Machines
      /\ Machine(c + arg, b, s, m, v) \in Machines /\ Machine(c, arg, s, m, v) \in Machines
      /\ Machine(c, b, Sides(arg), m, v) \in Machines /\ Machine(c, b, s, m, v) \in Machines
  BY <1>1, <1>2, <1>4, <1>6
<1>9. /\ Machine(arg, b, s, More("line"), v) \in Machines
      /\ Machine(c, b, s, More("circle"), v) \in Machines /\ Machine(c, b, s, More("text"), v) \in Machines
  <2> HIDE DEF More
  <2> QED BY <1>1, <1>2, <1>6, <1>7
<1>10. next \in Machines
  BY <1>3, <1>8, <1>9 DEF Does, DrawLetters
<1> QED BY <1>10 DEF next

(* ... and a token to a place in the script.                               *)
Wrong(m, kind) ==
  ~((m = "command" /\ kind = "letter") \/ (m = "arg" /\ kind = "value") \/ (m = "next" /\ kind \in {"colon", "end"}))
Goes(next, token, drawn, nothing, v, r, m, c, e) ==
  /\ e # 0 => next = Place(v, r, m, c, e)
  /\ e = 0 /\ m = "command" /\ token[1] = "letter" => next = Place(v, r, "next", token[2], e)
  /\ e = 0 /\ m = "arg" /\ token[1] = "value" => next = Place(v, Append(r, token[2]), "next", c, e)
  /\ e = 0 /\ m = "next" /\ token[1] = "colon" => next = Place(v, r, "arg", c, e)
  /\ e = 0 /\ m = "next" /\ token[1] = "end" => next = Place(drawn, nothing, "command", c, e)
  /\ e = 0 /\ Wrong(m, token[1]) => next = Place(v, r, m, c, -1)

LEMMA TokenGoes ==
  ASSUME NEW v, NEW r, NEW m, NEW c, NEW e, NEW token
  PROVE  Goes(ExecuteToken(Place(v, r, m, c, e), token), token, OnCommand(v, c, r), <<>>, v, r, m, c, e)
<1> DEFINE at == Place(v, r, m, c, e)
           next == ExecuteToken(at, token)
           drawn == OnCommand(v, c, r)
           nothing == <<>>
<1>1. at.vm = v /\ at.refs = r /\ at.mode = m /\ at.cmd = c /\ at.result = e
  BY DEF Place
<1>2. ASSUME e # 0 PROVE next = Place(v, r, m, c, e)
  <2>1. next = at
    <3> HIDE DEF at
    <3> QED BY <1>1, <1>2 DEF ExecuteToken, RefsAfter, RefsCleared
  <2> HIDE DEF next, drawn, nothing
  <2> QED BY <2>1 DEF Place
<1>3. ASSUME e = 0 /\ m = "command" /\ token[1] = "letter" PROVE next = Place(v, r, "next", token[2], e)
  <2>1. next = [at EXCEPT !.cmd = token[2], !.mode = "next"]
    <3> HIDE DEF at
    <3> QED BY <1>1, <1>3 DEF ExecuteToken, RefsAfter, RefsCleared
  <2> HIDE DEF next, drawn, nothing
  <2> QED BY <2>1 DEF Place
<1>4. ASSUME e = 0 /\ m = "arg" /\ token[1] = "value" PROVE next = Place(v, Append(r, token[2]), "next", c, e)
  <2>1. next = [at EXCEPT !.refs = Append(r, token[2]), !.mode = "next"]
    <3> HIDE DEF at
    <3> QED BY <1>1, <1>4 DEF ExecuteToken, RefsAfter, RefsCleared
  <2> HIDE DEF next, drawn, nothing
  <2> QED BY <2>1 DEF Place
<1>5. ASSUME e = 0 /\ m = "next" /\ token[1] = "colon" PROVE next = Place(v, r, "arg", c, e)
  <2>1. next = [at EXCEPT !.mode = "arg"]
    <3> HIDE DEF at
    <3> QED BY <1>1, <1>5 DEF ExecuteToken, RefsAfter, RefsCleared
  <2> HIDE DEF next, drawn, nothing
  <2> QED BY <2>1 DEF Place
<1>6. ASSUME e = 0 /\ m = "next" /\ token[1] = "end" PROVE next = Place(drawn, nothing, "command", c, e)
  <2>1. next = [at EXCEPT !.vm = drawn, !.refs = nothing, !.mode = "command"]
    <3> HIDE DEF at
    <3> QED BY <1>1, <1>6 DEF ExecuteToken, RefsAfter, RefsCleared
  <2> HIDE DEF next, drawn, nothing
  <2> QED BY <2>1 DEF Place
<1>7. ASSUME e = 0, Wrong(m, token[1]) PROVE next = Place(v, r, m, c, -1)
  <2>1. next = [at EXCEPT !.result = -1]
    <3> HIDE DEF at
    <3> QED BY <1>1, <1>7 DEF ExecuteToken, Wrong
  <2> HIDE DEF next
  <2> QED BY <2>1 DEF Place
<1> HIDE DEF next, drawn, nothing
<1>8. Goes(next, token, drawn, nothing, v, r, m, c, e)
  BY <1>2, <1>3, <1>4, <1>5, <1>6, <1>7 DEF Goes
<1> QED BY <1>8 DEF next, drawn, nothing

LEMMA NulIsAName == "nul" \in CommandNames /\ \A c \in STRING : c \in CommandNames
BY DEF CommandNames

LEMMA TokenKeeps ==
  ASSUME NEW at \in Running, NEW token \in Tokens
  PROVE  ExecuteToken(at, token) \in Running
<1> DEFINE v == at.vm
           r == at.refs
           m == at.mode
           c == at.cmd
           e == at.result
           next == ExecuteToken(at, token)
           drawn == OnCommand(v, c, r)
           nothing == <<>>
<1>1. /\ v \in Machines /\ r \in Seq(Int) /\ m \in {"command", "arg", "next"} /\ c \in CommandNames /\ e \in {0, -1}
      /\ at = Place(v, r, m, c, e)
  BY PlaceIs
<1>2. Goes(next, token, drawn, nothing, v, r, m, c, e)
  <2> HIDE DEF v, r, m, c, e
  <2> QED BY <1>1, TokenGoes
<1> HIDE DEF v, r, m, c, e, next
<1>3. /\ token[1] = "letter" => token[2] \in CommandNames
      /\ token[1] = "value" => token[2] \in Int
  <2>1. /\ token[1] = "letter" => token[2] \in STRING
        /\ token[1] = "value" => token[2] \in Int
    BY DEF Tokens
  <2> QED BY <2>1, NulIsAName
<1>4. token[1] = "value" => Append(r, token[2]) \in Seq(Int)
  BY <1>1, <1>3
<1>5. drawn \in Machines /\ nothing \in Seq(Int)
  BY <1>1, CommandKeeps, EmptySeq
<1>6. \A vv \in Machines, rr \in Seq(Int), mm \in {"command", "arg", "next"}, cc \in CommandNames, ee \in {0, -1} :
        Place(vv, rr, mm, cc, ee) \in Running
  BY PlaceIs
<1> HIDE DEF drawn, nothing
<1>7. next \in Running
  <2>1. ASSUME e # 0 PROVE next \in Running
    BY <1>1, <1>2, <1>6, <2>1 DEF Goes
  <2>2. ASSUME e = 0, m = "command", token[1] = "letter" PROVE next \in Running
    BY <1>1, <1>2, <1>3, <1>6, <2>2 DEF Goes
  <2>3. ASSUME e = 0, m = "arg", token[1] = "value" PROVE next \in Running
    BY <1>1, <1>2, <1>4, <1>6, <2>3 DEF Goes
  <2>4. ASSUME e = 0, m = "next", token[1] = "colon" PROVE next \in Running
    BY <1>1, <1>2, <1>6, <2>4 DEF Goes
  <2>5. ASSUME e = 0, m = "next", token[1] = "end" PROVE next \in Running
    BY <1>1, <1>2, <1>5, <1>6, <2>5 DEF Goes
  <2>6. ASSUME e = 0, Wrong(m, token[1]) PROVE next \in Running
    BY <1>1, <1>2, <1>6, <2>6 DEF Goes
  <2> QED BY <2>1, <2>2, <2>3, <2>4, <2>5, <2>6 DEF Wrong
<1> QED BY <1>7 DEF next

Ran(made, at, tokens) ==
  /\ made \in [0 .. Len(tokens) -> Running] /\ made[0] = at /\ made[Len(tokens)] = Run(at, tokens)
  /\ \A k \in 1 .. Len(tokens) : made[k] = ExecuteToken(made[k - 1], tokens[k])

LEMMA RunUnfolds ==
  ASSUME NEW at \in Running, NEW tokens \in Seq(Tokens)
  PROVE  \E made : Ran(made, at, tokens)
<1> DEFINE n == Len(tokens)
           Code(f) == [u \in SUBSET (1 .. n) |->
                         IF u = {} THEN at ELSE ExecuteToken(f[u \ {Max(u)}], tokens[Max(u)])]
           iter == CHOOSE f : f = Code(f)
           G == [i \in 1 .. n |-> [d \in Running |-> ExecuteToken(d, tokens[i])]]
<1>1. n \in Nat /\ DOMAIN tokens = 1 .. n /\ \A i \in 1 .. n : tokens[i] \in Tokens
  OBVIOUS
<1>2. Run(at, tokens) = iter[1 .. n]
  BY <1>1 DEF Run, FoldLeft, MapThenFoldSet
<1> HIDE DEF n
<1>5. \A i \in 1 .. n, d \in Running : G[i][d] = ExecuteToken(d, tokens[i]) /\ G[i][d] \in Running
  BY <1>1, TokenKeeps
<1> HIDE DEF G
<1>6. PICK f : IsLeftFold(f, n, Running, at, G)
  BY <1>1, <1>5, LeftFoldExists
<1>7. f = Code(f)
  BY <1>5, <1>6 DEF IsLeftFold
<1>8. iter = Code(iter)
  BY <1>7
<1> HIDE DEF iter
<1>9. iter[{}] = at
  BY <1>8
<1>10. ASSUME NEW u \in SUBSET (1 .. n), u # {}, Max(u) \in 1 .. n, iter[u \ {Max(u)}] \in Running
       PROVE  iter[u] = G[Max(u)][iter[u \ {Max(u)}]]
  BY <1>5, <1>8, <1>10
<1>11. FoldsLeft(iter, n, Running, at, G)
  BY <1>9, <1>10 DEF FoldsLeft
<1>12. PICK made : StepsTo(made, n, Running, at, G, iter[1 .. n])
  BY <1>1, <1>5, <1>11, LeftFoldSteps
<1>13. /\ made \in [0 .. n -> Running] /\ made[0] = at /\ made[n] = iter[1 .. n]
       /\ \A k \in 1 .. n : made[k] = G[k][made[k - 1]]
  BY <1>12 DEF StepsTo
<1>14. ASSUME NEW k \in 1 .. n PROVE made[k] = ExecuteToken(made[k - 1], tokens[k])
  <2>1. k - 1 \in 0 .. n
    BY <1>1
  <2> QED BY <1>5, <1>13, <2>1
<1>15. Ran(made, at, tokens)
  BY <1>2, <1>13, <1>14 DEF Ran, n
<1> QED BY <1>15

LEMMA RunAppend ==
  ASSUME NEW at \in Running, NEW tokens \in Seq(Tokens), NEW x \in Tokens
  PROVE  /\ Run(at, tokens) \in Running
         /\ Run(at, Append(tokens, x)) = ExecuteToken(Run(at, tokens), x)
<1> DEFINE n == Len(tokens)
           more == Append(tokens, x)
           up == n + 1
<1>1. n \in Nat /\ up \in Nat /\ up \in 1 .. up /\ up - 1 = n /\ n \in 0 .. n
  OBVIOUS
<1>2. more \in Seq(Tokens) /\ Len(more) = up /\ more[up] = x /\ \A i \in 1 .. n : more[i] = tokens[i]
  BY AppendProperties
<1> HIDE DEF more
<1>3. PICK a : Ran(a, at, tokens)
  BY RunUnfolds
<1>4. PICK b : Ran(b, at, more)
  BY <1>2, RunUnfolds
<1>5. /\ a[0] = at /\ a[n] = Run(at, tokens) /\ a[n] \in Running
      /\ \A k \in 1 .. n : a[k] = ExecuteToken(a[k - 1], tokens[k])
  BY <1>1, <1>3 DEF Ran
<1>6. /\ b[0] = at /\ b[up] = Run(at, more)
      /\ \A k \in 1 .. up : b[k] = ExecuteToken(b[k - 1], more[k])
  BY <1>2, <1>4 DEF Ran
<1> DEFINE T == {k \in Nat : k <= n => a[k] = b[k]}
<1>7. 0 \in T
  BY <1>5, <1>6
<1>8. ASSUME NEW k \in Nat, k \in T PROVE k + 1 \in T
  <2> SUFFICES ASSUME k + 1 <= n PROVE a[k + 1] = b[k + 1]
    OBVIOUS
  <2>1. k + 1 \in 1 .. n /\ (k + 1) - 1 = k /\ a[k] = b[k] /\ k + 1 \in 1 .. up
    BY <1>1, <1>8
  <2>2. a[k + 1] = ExecuteToken(a[k], tokens[k + 1])
    BY <1>5, <2>1
  <2>3. b[k + 1] = ExecuteToken(b[k], more[k + 1])
    BY <1>6, <2>1
  <2> QED BY <1>2, <2>1, <2>2, <2>3
<1> HIDE DEF T
<1>9. n \in T
  BY <1>1, <1>7, <1>8, AllNumbers
<1>10. a[n] = b[n]
  BY <1>1, <1>9 DEF T
<1> HIDE DEF n, up
<1>11. b[up] = ExecuteToken(b[n], x)
  BY <1>1, <1>2, <1>6
<1> QED BY <1>5, <1>6, <1>10, <1>11 DEF more

LEMMA RunNothing ==
  ASSUME NEW at \in Running, NEW tokens \in Seq(Tokens), Len(tokens) = 0
  PROVE  Run(at, tokens) = at
<1>1. PICK a : Ran(a, at, tokens)
  BY RunUnfolds
<1> QED BY <1>1 DEF Ran

(* A script that comes in two parts.                                       *)
LEMMA AppendToBoth ==
  ASSUME NEW S, NEW a \in Seq(S), NEW b \in Seq(S), NEW x \in S
  PROVE  a \o Append(b, x) = Append(a \o b, x)
<1> DEFINE one == <<x>>
<1>1. one \in Seq(S)
  OBVIOUS
<1>2. Append(b, x) = b \o one /\ Append(a \o b, x) = (a \o b) \o one
  BY AppendIsConcat, ConcatProperties
<1> HIDE DEF one
<1>3. a \o (b \o one) = (a \o b) \o one
  BY <1>1, ConcatAssociative
<1> QED BY <1>2, <1>3

LEMMA RunConcat ==
  ASSUME NEW at \in Running, NEW a \in Seq(Tokens), NEW b \in Seq(Tokens)
  PROVE  Run(at, a \o b) = Run(Run(at, a), b) /\ Run(at, a) \in Running
<1> DEFINE Upto(k) == SubSeq(b, 1, k)
           mid == Run(at, a)
           T == {k \in Nat : k <= Len(b) => Run(at, a \o Upto(k)) = Run(mid, Upto(k))}
<1>1. mid \in Running
  <2>1. PICK made : Ran(made, at, a)
    BY RunUnfolds
  <2>2. Len(a) \in 0 .. Len(a)
    BY LenProperties
  <2> QED BY <2>1, <2>2 DEF Ran
<1>2. 0 \in T
  <2>1. Upto(0) = <<>> /\ Upto(0) \in Seq(Tokens) /\ Len(Upto(0)) = 0
    BY Beginning, LenProperties
  <2> HIDE DEF Upto, mid
  <2>2. Run(mid, Upto(0)) = mid
    BY <1>1, <2>1, RunNothing
  <2>3. a \o Upto(0) = a
    BY <2>1, ConcatEmptySeq
  <2> QED BY <2>2, <2>3 DEF mid
<1>3. ASSUME NEW k \in Nat, k \in T PROVE k + 1 \in T
  <2> SUFFICES ASSUME k + 1 <= Len(b) PROVE Run(at, a \o Upto(k + 1)) = Run(mid, Upto(k + 1))
    OBVIOUS
  <2>0. k <= Len(b) /\ k < Len(b)
    BY LenProperties
  <2> DEFINE t == Upto(k)
             x == b[k + 1]
  <2>1. t \in Seq(Tokens) /\ Upto(k + 1) = Append(t, x) /\ x \in Tokens
    BY <2>0, Beginning
  <2>2. Run(at, a \o t) = Run(mid, t)
    BY <1>3, <2>0
  <2> HIDE DEF t, x, Upto, mid
  <2>3. a \o t \in Seq(Tokens) /\ a \o Append(t, x) = Append(a \o t, x)
    BY <2>1, AppendToBoth, ConcatProperties
  <2>4. Run(at, Append(a \o t, x)) = ExecuteToken(Run(at, a \o t), x)
    BY <2>1, <2>3, RunAppend
  <2>5. Run(mid, Append(t, x)) = ExecuteToken(Run(mid, t), x)
    BY <1>1, <2>1, RunAppend
  <2> QED BY <2>1, <2>2, <2>3, <2>4, <2>5
<1> HIDE DEF T
<1>4. Len(b) \in T /\ Len(b) \in Nat
  BY <1>2, <1>3, AllNumbers, LenProperties
<1>5. Run(at, a \o Upto(Len(b))) = Run(mid, Upto(Len(b)))
  BY <1>4 DEF T
<1>6. Upto(Len(b)) = b
  BY <1>4, Beginning
<1> HIDE DEF Upto
<1> QED BY <1>1, <1>5, <1>6

(* A command with its arguments, and its end.                              *)
LEMMA RunOne ==
  ASSUME NEW at \in Running, NEW x \in Tokens
  PROVE  <<x>> \in Seq(Tokens) /\ Run(at, <<x>>) = ExecuteToken(at, x)
<1> DEFINE nothing == <<>>
<1>1. nothing \in Seq(Tokens) /\ Len(nothing) = 0 /\ Append(nothing, x) = <<x>> /\ <<x>> \in Seq(Tokens)
  OBVIOUS
<1> HIDE DEF nothing
<1>2. Run(at, nothing) = at
  BY <1>1, RunNothing
<1>3. Run(at, Append(nothing, x)) = ExecuteToken(Run(at, nothing), x)
  BY <1>1, RunAppend
<1> QED BY <1>1, <1>2, <1>3

LEMMA PairOf ==
  ASSUME NEW S, NEW x \in S, NEW y \in S
  PROVE  <<x>> \in Seq(S) /\ <<y>> \in Seq(S) /\ <<x>> \o <<y>> = <<x, y>> /\ <<x, y>> \in Seq(S)
<1>1. <<x>> \in Seq(S) /\ <<y>> \in Seq(S) /\ <<x, y>> \in Seq(S)
  OBVIOUS
<1> DEFINE one == <<x>>
           other == <<y>>
           two == <<x, y>>
           both == one \o other
<1>2. Len(one) = 1 /\ one[1] = x /\ Len(other) = 1 /\ other[1] = y /\ Len(two) = 2 /\ two[1] = x /\ two[2] = y
  OBVIOUS
<1> HIDE DEF one, other, two
<1>3. both \in Seq(S) /\ Len(both) = Len(one) + Len(other)
  BY <1>1, ConcatProperties DEF one, other
<1>4. \A i \in 1 .. Len(one) + Len(other) : both[i] = IF i <= Len(one) THEN one[i] ELSE other[i - Len(one)]
  BY <1>1, ConcatProperties DEF one, other
<1> HIDE DEF both
<1>5. Len(both) = 2 /\ both[1] = x /\ both[2] = y
  BY <1>2, <1>3, <1>4
<1>6. \A i \in 1 .. 2 : i = 1 \/ i = 2
  OBVIOUS
<1>7. \A i \in 1 .. Len(both) : both[i] = two[i]
  BY <1>2, <1>5, <1>6
<1>8. both = two
  BY <1>1, <1>2, <1>3, <1>5, <1>7, SeqEqual DEF two
<1> QED BY <1>1, <1>8 DEF one, other, two, both

LEMMA FirstIsFirst ==
  ASSUME NEW S, NEW a \in Seq(S), NEW b \in Seq(S), Len(a) # 0
  PROVE  Len(a \o b) # 0 /\ (a \o b)[1] = a[1]
<1>1. Len(a) \in Nat /\ Len(b) \in Nat /\ Len(a \o b) = Len(a) + Len(b)
  BY LenProperties, ConcatProperties
<1>2. 1 \in 1 .. Len(a) + Len(b) /\ 1 <= Len(a)
  BY <1>1
<1> QED BY <1>1, <1>2, ConcatProperties

LEMMA RunTwo ==
  ASSUME NEW at \in Running, NEW x \in Tokens, NEW y \in Tokens
  PROVE  <<x, y>> \in Seq(Tokens) /\ Run(at, <<x, y>>) = ExecuteToken(ExecuteToken(at, x), y)
<1> DEFINE one == <<x>>
           other == <<y>>
           two == <<x, y>>
<1>1. one \in Seq(Tokens) /\ other \in Seq(Tokens) /\ one \o other = two /\ two \in Seq(Tokens)
  BY PairOf
<1>2. Run(at, one) = ExecuteToken(at, x) /\ ExecuteToken(at, x) \in Running
  BY RunOne, TokenKeeps
<1>3. Run(ExecuteToken(at, x), other) = ExecuteToken(ExecuteToken(at, x), y)
  BY <1>2, RunOne
<1> HIDE DEF one, other, two
<1>4. Run(at, one \o other) = Run(Run(at, one), other)
  BY <1>1, RunConcat
<1>5. two \in Seq(Tokens) /\ Run(at, two) = ExecuteToken(ExecuteToken(at, x), y)
  BY <1>1, <1>2, <1>3, <1>4
<1> QED BY <1>5 DEF two

ArgumentTokens(x) == <<<<"colon", 0>>, <<"value", x>>>>

LEMMA ArgumentRun ==
  ASSUME NEW v \in Machines, NEW r \in Seq(Int), NEW c \in CommandNames, NEW x \in Int
  PROVE  /\ ArgumentTokens(x) \in Seq(Tokens)
         /\ Run(Place(v, r, "next", c, 0), ArgumentTokens(x)) = Place(v, Append(r, x), "next", c, 0)
<1> DEFINE a == <<"colon", 0>>
           b == <<"value", x>>
<1>1. a \in Tokens /\ b \in Tokens /\ a[1] = "colon" /\ b[1] = "value" /\ b[2] = x
  BY DEF Tokens
<1> HIDE DEF a, b
<1>2. Place(v, r, "next", c, 0) \in Running
  BY PlaceIs
<1>3. ExecuteToken(Place(v, r, "next", c, 0), a) = Place(v, r, "arg", c, 0)
  BY <1>1, TokenGoes DEF Goes
<1>4. ExecuteToken(Place(v, r, "arg", c, 0), b) = Place(v, Append(r, x), "next", c, 0)
  BY <1>1, TokenGoes DEF Goes
<1>5. <<a, b>> \in Seq(Tokens) /\ Run(Place(v, r, "next", c, 0), <<a, b>>) = Place(v, Append(r, x), "next", c, 0)
  BY <1>1, <1>2, <1>3, <1>4, RunTwo
<1> QED BY <1>5 DEF a, b, ArgumentTokens

(* One piece for each member of a sequence.                                *)
LEMMA PiecesOf ==
  ASSUME NEW S, NEW s \in Seq(S), NEW R, NEW f, f = [i \in DOMAIN s |-> f[i]], \A i \in DOMAIN s : f[i] \in R
  PROVE  f \in Seq(R) /\ Len(f) = Len(s)
<1>1. Len(s) \in Nat /\ DOMAIN s = 1 .. Len(s)
  BY LenProperties
<1> DEFINE n == Len(s)
<1>2. n \in Nat /\ f = [i \in 1 .. n |-> f[i]] /\ \A i \in 1 .. n : f[i] \in R
  BY <1>1
<1> HIDE DEF n
<1>3. f \in [1 .. n -> R]
  BY <1>2
<1>4. f \in Seq(R) /\ Len(f) = n
  BY <1>2, <1>3
<1> QED BY <1>4 DEF n

LEMMA ArgumentsRun ==
  ASSUME NEW v \in Machines, NEW c \in CommandNames, NEW args \in Seq(Int)
  PROVE  LET tokens == FlattenSeq([a \in DOMAIN args |-> ArgumentTokens(args[a])]) IN
         tokens \in Seq(Tokens) /\ Run(Place(v, <<>>, "next", c, 0), tokens) = Place(v, args, "next", c, 0)
<1> DEFINE nothing == <<>>
           pieces == [a \in DOMAIN args |-> ArgumentTokens(args[a])]
           Parts(k) == SubSeq(pieces, 1, k)
           Some(k) == SubSeq(args, 1, k)
           at == Place(v, nothing, "next", c, 0)
           n == Len(args)
           T == {k \in Nat : k <= n => Run(at, FlattenSeq(Parts(k))) = Place(v, Some(k), "next", c, 0)}
<1>0. \A x \in Int : ArgumentTokens(x) \in Seq(Tokens)
  BY ArgumentRun
<1>1. n \in Nat /\ DOMAIN args = 1 .. n /\ \A i \in 1 .. n : args[i] \in Int
  OBVIOUS
<1>2. pieces \in Seq(Seq(Tokens)) /\ Len(pieces) = n /\ \A i \in 1 .. n : pieces[i] = ArgumentTokens(args[i])
  <2>1. pieces = [i \in DOMAIN args |-> pieces[i]] /\ \A i \in DOMAIN args : pieces[i] \in Seq(Tokens)
    BY <1>0, <1>1
  <2>2. \A i \in 1 .. n : pieces[i] = ArgumentTokens(args[i])
    BY <1>1
  <2> HIDE DEF pieces
  <2>3. pieces \in Seq(Seq(Tokens)) /\ Len(pieces) = Len(args)
    BY <2>1, PiecesOf
  <2> QED BY <2>2, <2>3
<1>3. nothing \in Seq(Int) /\ Len(nothing) = 0
  OBVIOUS
<1> HIDE DEF pieces, n
<1>4. at \in Running
  BY <1>3, PlaceIs
<1>5. 0 \in T
  <2>1. Parts(0) = <<>> /\ Some(0) = nothing
    BY <1>1, <1>2, Beginning DEF n
  <2>2. FlattenSeq(Parts(0)) \in Seq(Tokens) /\ Len(FlattenSeq(Parts(0))) = 0
    <3>1. FlattenSeq(<<>>) = nothing
      BY DEF FlattenSeq
    <3> HIDE DEF Parts, nothing
    <3>2. FlattenSeq(Parts(0)) = nothing
      BY <2>1, <3>1
    <3> QED BY <3>2, EmptySeq DEF nothing
  <2> HIDE DEF Parts, Some, at
  <2>3. Run(at, FlattenSeq(Parts(0))) = at
    BY <1>4, <2>2, RunNothing
  <2> QED BY <2>1, <2>3 DEF at
<1>6. ASSUME NEW k \in Nat, k \in T PROVE k + 1 \in T
  <2> SUFFICES ASSUME k + 1 <= n
               PROVE  Run(at, FlattenSeq(Parts(k + 1))) = Place(v, Some(k + 1), "next", c, 0)
    OBVIOUS
  <2>0. k <= n /\ k < n /\ k + 1 \in 1 .. n
    BY <1>1
  <2> DEFINE t == Parts(k)
             r == Some(k)
             x == args[k + 1]
  <2>1. t \in Seq(Seq(Tokens)) /\ Parts(k + 1) = Append(t, pieces[k + 1])
    BY <1>2, <2>0, Beginning
  <2>2. r \in Seq(Int) /\ Some(k + 1) = Append(r, x) /\ x \in Int
    BY <1>1, <2>0, Beginning DEF n
  <2>3. Run(at, FlattenSeq(t)) = Place(v, r, "next", c, 0)
    BY <1>6, <2>0
  <2>4. pieces[k + 1] = ArgumentTokens(x) /\ ArgumentTokens(x) \in Seq(Tokens)
    BY <1>0, <1>2, <2>0, <2>2
  <2> HIDE DEF t, r, x, Parts, Some, at
  <2>5. FlattenSeq(Append(t, ArgumentTokens(x))) = FlattenSeq(t) \o ArgumentTokens(x) /\ FlattenSeq(t) \in Seq(Tokens)
    BY <2>1, <2>4, FlattenAppend, FlattenType
  <2>6. Run(at, FlattenSeq(t) \o ArgumentTokens(x)) = Run(Run(at, FlattenSeq(t)), ArgumentTokens(x))
    BY <1>4, <2>4, <2>5, RunConcat
  <2>7. Run(Place(v, r, "next", c, 0), ArgumentTokens(x)) = Place(v, Append(r, x), "next", c, 0)
    BY <2>2, ArgumentRun
  <2> QED BY <2>1, <2>2, <2>3, <2>4, <2>5, <2>6, <2>7
<1> HIDE DEF T
<1>7. n \in T
  BY <1>1, <1>5, <1>6, AllNumbers
<1>8. Run(at, FlattenSeq(Parts(n))) = Place(v, Some(n), "next", c, 0)
  BY <1>1, <1>7 DEF T
<1>9. Parts(n) = pieces /\ Some(n) = args
  BY <1>1, <1>2, Beginning DEF n
<1>10. FlattenSeq(pieces) \in Seq(Tokens)
  BY <1>2, FlattenType
<1> HIDE DEF Parts, Some, at
<1>11. Run(at, FlattenSeq(pieces)) = Place(v, args, "next", c, 0)
  BY <1>8, <1>9
<1> QED BY <1>10, <1>11 DEF at, pieces

LEMMA CommandRun ==
  ASSUME NEW v \in Machines, NEW c \in CommandNames, NEW d \in Commands
  PROVE  /\ RenderedCommand(d) \in Seq(Tokens)
         /\ Len(RenderedCommand(d)) # 0 /\ RenderedCommand(d)[1] = <<"letter", d.cmd>>
         /\ Run(Place(v, <<>>, "command", c, 0), RenderedCommand(d)) =
               Place(OnCommand(v, d.cmd, d.args), <<>>, "command", d.cmd, 0)
<1> DEFINE nothing == <<>>
           letter == <<"letter", d.cmd>>
           end == <<"end", 0>>
           first == <<letter>>
           last == <<end>>
           tokens == FlattenSeq([a \in DOMAIN d.args |-> ArgumentTokens(d.args[a])])
           at == Place(v, nothing, "command", c, 0)
           next == Place(v, nothing, "next", d.cmd, 0)
           full == Place(v, d.args, "next", d.cmd, 0)
<1>1. d.cmd \in STRING /\ d.args \in Seq(Int)
  BY DEF Commands
<1>2. letter \in Tokens /\ end \in Tokens /\ letter[1] = "letter" /\ letter[2] = d.cmd /\ end[1] = "end"
  BY <1>1 DEF Tokens
<1>3. nothing \in Seq(Int)
  OBVIOUS
<1>4. at \in Running /\ next \in Running /\ full \in Running
  BY <1>1, <1>3, PlaceIs, NulIsAName
<1>5. RenderedCommand(d) = first \o tokens \o last
  BY DEF RenderedCommand, ArgumentTokens
<1>6. tokens \in Seq(Tokens) /\ Run(next, tokens) = full
  BY <1>1, ArgumentsRun, NulIsAName
<1>7. ExecuteToken(at, letter) = next
  <2> HIDE DEF letter
  <2> QED BY <1>2, TokenGoes DEF Goes
<1>8. ExecuteToken(full, end) = Place(OnCommand(v, d.cmd, d.args), nothing, "command", d.cmd, 0)
  <2> HIDE DEF end
  <2> QED BY <1>2, TokenGoes DEF Goes
<1>9. Len(first) = 1 /\ first[1] = letter
  OBVIOUS
<1> HIDE DEF letter, end, tokens, at, next, full, nothing
<1>10. first \in Seq(Tokens) /\ Run(at, first) = next /\ last \in Seq(Tokens) /\ Run(full, last) = ExecuteToken(full, end)
  BY <1>2, <1>4, <1>7, RunOne
<1> HIDE DEF first, last
<1>11. first \o tokens \in Seq(Tokens) /\ (first \o tokens) \o last \in Seq(Tokens)
  BY <1>6, <1>10, ConcatProperties
<1>12. Run(at, (first \o tokens) \o last) = Run(Run(Run(at, first), tokens), last)
  <2>1. Run(at, first \o tokens) = Run(Run(at, first), tokens)
    BY <1>4, <1>6, <1>10, RunConcat
  <2> DEFINE both == first \o tokens
  <2>2. both \in Seq(Tokens)
    BY <1>11
  <2> HIDE DEF both
  <2>3. Run(at, both \o last) = Run(Run(at, both), last)
    BY <1>4, <1>10, <2>2, RunConcat
  <2> QED BY <2>1, <2>3 DEF both
<1>13. Len((first \o tokens) \o last) # 0 /\ ((first \o tokens) \o last)[1] = letter
  <2> DEFINE both == first \o tokens
  <2>1. Len(both) # 0 /\ both[1] = letter /\ both \in Seq(Tokens)
    <3>1. Len(first) # 0 /\ first \in Seq(Tokens) /\ tokens \in Seq(Tokens)
      BY <1>6, <1>9, <1>10
    <3>2. Len(first \o tokens) # 0 /\ (first \o tokens)[1] = first[1]
      BY <3>1, FirstIsFirst
    <3> QED BY <1>9, <1>11, <3>2
  <2> HIDE DEF both
  <2>2. Len(both \o last) # 0 /\ (both \o last)[1] = letter
    BY <1>10, <2>1, FirstIsFirst
  <2> QED BY <2>2 DEF both
<1> QED BY <1>5, <1>6, <1>8, <1>10, <1>11, <1>12, <1>13 DEF at, nothing, letter

(* The drawing of a document, command by command.                          *)
LEMMA DrawnKeeps ==
  ASSUME NEW vm \in Machines, NEW c \in Commands
  PROVE  Drawn(vm, c) \in Machines
<1>1. c.args \in Seq(Int)
  BY DEF Commands
<1> QED BY <1>1, CommandKeeps DEF Drawn

Drew(made, vm, commands) ==
  /\ made \in [0 .. Len(commands) -> Machines] /\ made[0] = vm /\ made[Len(commands)] = Draw(vm, commands)
  /\ \A k \in 1 .. Len(commands) : made[k] = Drawn(made[k - 1], commands[k])

LEMMA DrawUnfolds ==
  ASSUME NEW vm \in Machines, NEW commands \in Seq(Commands)
  PROVE  \E made : Drew(made, vm, commands)
<1> DEFINE n == Len(commands)
           Code(f) == [u \in SUBSET (1 .. n) |->
                         IF u = {} THEN vm ELSE Drawn(f[u \ {Max(u)}], commands[Max(u)])]
           iter == CHOOSE f : f = Code(f)
           G == [i \in 1 .. n |-> [d \in Machines |-> Drawn(d, commands[i])]]
<1>1. n \in Nat /\ DOMAIN commands = 1 .. n /\ \A i \in 1 .. n : commands[i] \in Commands
  OBVIOUS
<1>2. Draw(vm, commands) = iter[1 .. n]
  BY <1>1 DEF Draw, FoldLeft, MapThenFoldSet
<1> HIDE DEF n
<1>3. \A i \in 1 .. n, d \in Machines : G[i][d] = Drawn(d, commands[i]) /\ G[i][d] \in Machines
  BY <1>1, DrawnKeeps
<1> HIDE DEF G
<1>4. PICK f : IsLeftFold(f, n, Machines, vm, G)
  BY <1>1, <1>3, LeftFoldExists
<1>5. f = Code(f)
  BY <1>3, <1>4 DEF IsLeftFold
<1>6. iter = Code(iter)
  BY <1>5
<1> HIDE DEF iter
<1>7. iter[{}] = vm
  BY <1>6
<1>8. ASSUME NEW u \in SUBSET (1 .. n), u # {}, Max(u) \in 1 .. n, iter[u \ {Max(u)}] \in Machines
      PROVE  iter[u] = G[Max(u)][iter[u \ {Max(u)}]]
  BY <1>3, <1>6, <1>8
<1>9. FoldsLeft(iter, n, Machines, vm, G)
  BY <1>7, <1>8 DEF FoldsLeft
<1>10. PICK made : StepsTo(made, n, Machines, vm, G, iter[1 .. n])
  BY <1>1, <1>3, <1>9, LeftFoldSteps
<1>11. /\ made \in [0 .. n -> Machines] /\ made[0] = vm /\ made[n] = iter[1 .. n]
       /\ \A k \in 1 .. n : made[k] = G[k][made[k - 1]]
  BY <1>10 DEF StepsTo
<1>12. ASSUME NEW k \in 1 .. n PROVE made[k] = Drawn(made[k - 1], commands[k])
  <2>1. k - 1 \in 0 .. n
    BY <1>1
  <2> QED BY <1>3, <1>11, <2>1
<1>13. Drew(made, vm, commands)
  BY <1>2, <1>11, <1>12 DEF Drew, n
<1> QED BY <1>13

(* The camera is not in the picture.                                       *)
SamePicture(x, y) ==
  x.cursor = y.cursor /\ x.brushWidth = y.brushWidth /\ x.sides = y.sides /\ x.meshDesc = y.meshDesc

LEMMA CameraIsNotDrawn ==
  ASSUME NEW x \in Machines, NEW y \in Machines, SamePicture(x, y), NEW cmd, NEW refs
  PROVE  SamePicture(OnCommand(x, cmd, refs), OnCommand(y, cmd, refs))
<1> DEFINE arg == Argument(refs, 0)
           c == x.cursor
           b == x.brushWidth
           s == x.sides
           m == x.meshDesc
           v == x.camera
           w == y.camera
           nextx == OnCommand(x, cmd, refs)
           nexty == OnCommand(y, cmd, refs)
<1>1. x = Machine(c, b, s, m, v) /\ y = Machine(c, b, s, m, w)
  BY MachineIs DEF SamePicture
<1>2. Does(nextx, cmd, arg, c, b, s, m, v) /\ Does(nexty, cmd, arg, c, b, s, m, w)
  <2> HIDE DEF c, b, s, m, v, w
  <2>1. Does(nextx, cmd, arg, c, b, s, m, v)
    BY <1>1, CommandDoes
  <2>2. Does(nexty, cmd, arg, c, b, s, m, w)
    BY <1>1, CommandDoes
  <2> QED BY <2>1, <2>2
<1> HIDE DEF arg, c, b, s, m, v, w, nextx, nexty
<1>3. \A cc, bb, ss, mm, vv, ww : SamePicture(Machine(cc, bb, ss, mm, vv), Machine(cc, bb, ss, mm, ww))
  BY DEF Machine, SamePicture
<1>4. SamePicture(nextx, nexty)
  BY <1>2, <1>3 DEF Does, DrawLetters
<1> QED BY <1>4 DEF nextx, nexty

(* Without a mistake, a script draws its document, from any camera.        *)
LEMMA ScriptRun ==
  ASSUME NEW v \in Machines, NEW w \in Machines, SamePicture(v, w), NEW commands \in Seq(Commands)
  PROVE  LET tokens == FlattenSeq([i \in DOMAIN commands |-> RenderedCommand(commands[i])])
             done == Run(Place(v, <<>>, "command", "nul", 0), tokens)
         IN  /\ tokens \in Seq(Tokens)
             /\ done.result = 0 /\ SamePicture(done.vm, Draw(w, commands))
<1> DEFINE nothing == <<>>
           pieces == [i \in DOMAIN commands |-> RenderedCommand(commands[i])]
           Parts(k) == SubSeq(pieces, 1, k)
           at == Place(v, nothing, "command", "nul", 0)
           n == Len(commands)
<1>1. n \in Nat /\ DOMAIN commands = 1 .. n /\ \A i \in 1 .. n : commands[i] \in Commands
  OBVIOUS
<1>2. \A d \in Commands : RenderedCommand(d) \in Seq(Tokens)
  <2> TAKE d \in Commands
  <2> QED BY NulIsAName, CommandRun
<1>3. pieces \in Seq(Seq(Tokens)) /\ Len(pieces) = n /\ \A i \in 1 .. n : pieces[i] = RenderedCommand(commands[i])
  <2>1. pieces = [i \in DOMAIN commands |-> pieces[i]] /\ \A i \in DOMAIN commands : pieces[i] \in Seq(Tokens)
    BY <1>1, <1>2
  <2>2. \A i \in 1 .. n : pieces[i] = RenderedCommand(commands[i])
    BY <1>1
  <2> HIDE DEF pieces
  <2>3. pieces \in Seq(Seq(Tokens)) /\ Len(pieces) = Len(commands)
    BY <2>1, PiecesOf
  <2> QED BY <2>2, <2>3
<1>4. nothing \in Seq(Int) /\ "nul" \in CommandNames
  BY NulIsAName, EmptySeq
<1>5. at \in Running
  BY <1>4, PlaceIs
<1>6. PICK made : Drew(made, w, commands)
  BY DrawUnfolds
<1>7. /\ made[0] = w /\ made[n] = Draw(w, commands)
      /\ \A k \in 0 .. n : made[k] \in Machines
      /\ \A k \in 1 .. n : made[k] = Drawn(made[k - 1], commands[k])
  BY <1>6 DEF Drew
<1> HIDE DEF pieces, n
<1> DEFINE T == {k \in Nat : k <= n =>
                   \E vm \in Machines, c \in CommandNames :
                     Run(at, FlattenSeq(Parts(k))) = Place(vm, nothing, "command", c, 0) /\ SamePicture(vm, made[k])}
<1>8. 0 \in T
  <2>1. Parts(0) = nothing
    BY <1>1, <1>3, Beginning
  <2>2. FlattenSeq(Parts(0)) \in Seq(Tokens) /\ Len(FlattenSeq(Parts(0))) = 0
    <3>1. FlattenSeq(<<>>) = nothing
      BY DEF FlattenSeq
    <3> HIDE DEF Parts
    <3>2. FlattenSeq(Parts(0)) = nothing
      BY <2>1, <3>1
    <3> QED BY <3>2, EmptySeq DEF nothing
  <2> HIDE DEF Parts, at, nothing
  <2>3. Run(at, FlattenSeq(Parts(0))) = at
    BY <1>5, <2>2, RunNothing
  <2> QED BY <1>4, <1>7, <2>3 DEF at
<1>9. ASSUME NEW k \in Nat, k \in T PROVE k + 1 \in T
  <2> SUFFICES ASSUME k + 1 <= n
               PROVE  \E vm \in Machines, c \in CommandNames :
                        /\ Run(at, FlattenSeq(Parts(k + 1))) = Place(vm, nothing, "command", c, 0)
                        /\ SamePicture(vm, made[k + 1])
    OBVIOUS
  <2>0. k <= n /\ k < n /\ k + 1 \in 1 .. n /\ k \in 0 .. n /\ (k + 1) - 1 = k
    BY <1>1
  <2>1. PICK vm \in Machines, c \in CommandNames :
          Run(at, FlattenSeq(Parts(k))) = Place(vm, nothing, "command", c, 0) /\ SamePicture(vm, made[k])
    BY <1>9, <2>0
  <2> DEFINE t == Parts(k)
             d == commands[k + 1]
             next == OnCommand(vm, d.cmd, d.args)
  <2>2. t \in Seq(Seq(Tokens)) /\ Parts(k + 1) = Append(t, pieces[k + 1])
    BY <1>3, <2>0, Beginning
  <2>3. d \in Commands /\ pieces[k + 1] = RenderedCommand(d) /\ RenderedCommand(d) \in Seq(Tokens)
    BY <1>1, <1>2, <1>3, <2>0
  <2>4. d.cmd \in STRING /\ d.args \in Seq(Int)
    BY <2>3 DEF Commands
  <2> HIDE DEF t, d, Parts, at
  <2>5. FlattenSeq(Append(t, RenderedCommand(d))) = FlattenSeq(t) \o RenderedCommand(d) /\ FlattenSeq(t) \in Seq(Tokens)
    BY <2>2, <2>3, FlattenAppend, FlattenType
  <2>6. Run(at, FlattenSeq(t) \o RenderedCommand(d)) = Run(Run(at, FlattenSeq(t)), RenderedCommand(d))
    BY <1>5, <2>3, <2>5, RunConcat
  <2>7. Run(Place(vm, nothing, "command", c, 0), RenderedCommand(d)) = Place(next, nothing, "command", d.cmd, 0)
    BY <2>1, <2>3, CommandRun
  <2>8. next \in Machines
    BY <2>1, <2>4, CommandKeeps
  <2>9. made[k + 1] = OnCommand(made[k], d.cmd, d.args) /\ made[k] \in Machines
    BY <1>7, <2>0 DEF Drawn, d
  <2>10. SamePicture(next, made[k + 1])
    BY <2>1, <2>9, CameraIsNotDrawn
  <2> HIDE DEF next, nothing
  <2>11. Run(at, FlattenSeq(t)) = Place(vm, nothing, "command", c, 0)
    BY <2>1 DEF t
  <2>12. Run(at, FlattenSeq(Parts(k + 1))) = Place(next, nothing, "command", d.cmd, 0)
    BY <2>2, <2>3, <2>5, <2>6, <2>7, <2>11
  <2> QED BY <2>4, <2>8, <2>10, <2>12, NulIsAName
<1> HIDE DEF T
<1>10. n \in T
  BY <1>1, <1>8, <1>9, AllNumbers
<1>11. PICK vm \in Machines, c \in CommandNames :
         Run(at, FlattenSeq(Parts(n))) = Place(vm, nothing, "command", c, 0) /\ SamePicture(vm, made[n])
  BY <1>1, <1>10 DEF T
<1>12. Parts(n) = pieces
  BY <1>1, <1>3, Beginning
<1>13. FlattenSeq(pieces) \in Seq(Tokens)
  BY <1>3, FlattenType
<1> DEFINE done == Run(at, FlattenSeq(pieces))
<1>14. done = Place(vm, nothing, "command", c, 0)
  <2> HIDE DEF Parts, at
  <2> QED BY <1>11, <1>12
<1> HIDE DEF done
<1>15. done.result = 0 /\ SamePicture(done.vm, Draw(w, commands))
  BY <1>7, <1>11, <1>14 DEF Place
<1> QED BY <1>13, <1>15 DEF done, at, pieces

(* What an editor saves.                                                   *)
ScriptOf(commands) == FlattenSeq([i \in DOMAIN commands |-> RenderedCommand(commands[i])])

LEMMA DocumentIs ==
  ASSUME NEW doc \in Documents
  PROVE  /\ doc.commands \in Seq(Commands) /\ doc.tail \in Seq(Tokens)
         /\ Rendered(doc) = ScriptOf(doc.commands) \o doc.tail
         /\ ScriptOf(doc.commands) \in Seq(Tokens) /\ Rendered(doc) \in Seq(Tokens)
         /\ Len(doc.tail) = 0 => Rendered(doc) = ScriptOf(doc.commands)
<1>1. doc.commands \in Seq(Commands) /\ doc.tail \in Seq(Tokens)
  BY PainterAssumption DEF Commands
<1>2. Rendered(doc) = ScriptOf(doc.commands) \o doc.tail
  BY DEF Rendered, ScriptOf
<1>3. painterVM_t(0) \in Machines /\ SamePicture(painterVM_t(0), painterVM_t(0))
  <2> DEFINE nothing == <<>>
  <2>1. painterVM_t(0) = Machine(0, 0, 32, nothing, 0) /\ nothing \in Seq(Strokes)
    BY EmptySeq DEF painterVM_t, Machine
  <2> HIDE DEF nothing
  <2> QED BY <2>1, MachineIs DEF SamePicture
<1>4. ScriptOf(doc.commands) \in Seq(Tokens)
  <2> DEFINE commands == doc.commands
  <2>1. commands \in Seq(Commands)
    BY <1>1
  <2> HIDE DEF commands
  <2>2. FlattenSeq([i \in DOMAIN commands |-> RenderedCommand(commands[i])]) \in Seq(Tokens)
    BY <1>3, <2>1, ScriptRun
  <2> QED BY <2>2 DEF ScriptOf, commands
<1>5. Len(doc.tail) = 0 => doc.tail = <<>>
  BY <1>1, EmptySeq
<1> DEFINE a == ScriptOf(doc.commands)
           b == doc.tail
<1>6. a \in Seq(Tokens) /\ b \in Seq(Tokens) /\ (Len(b) = 0 => b = <<>>)
  BY <1>1, <1>4, <1>5
<1> HIDE DEF a, b
<1>7. a \o b \in Seq(Tokens)
  BY <1>6, ConcatProperties
<1>8. Len(b) = 0 => a \o b = a
  BY <1>6, ConcatEmptySeq
<1> QED BY <1>1, <1>2, <1>4, <1>7, <1>8 DEF a, b

(* A script begins with a letter.                                          *)
LEMMA LinesBegin ==
  ASSUME NEW commands \in Seq(Commands)
  PROVE  Len(ScriptOf(commands)) # 0 => ScriptOf(commands)[1][1] = "letter"
<1> DEFINE pieces == [i \in DOMAIN commands |-> RenderedCommand(commands[i])]
           Parts(k) == SubSeq(pieces, 1, k)
           n == Len(commands)
           T == {k \in Nat : k <= n => (Len(FlattenSeq(Parts(k))) # 0 => FlattenSeq(Parts(k))[1][1] = "letter")}
<1>1. n \in Nat /\ DOMAIN commands = 1 .. n /\ \A i \in 1 .. n : commands[i] \in Commands
  OBVIOUS
<1>2. ASSUME NEW d \in Commands
      PROVE  /\ RenderedCommand(d) \in Seq(Tokens)
             /\ Len(RenderedCommand(d)) # 0 /\ RenderedCommand(d)[1][1] = "letter"
  <2>1. painterVM_t(0) \in Machines
    <3> DEFINE nothing == <<>>
    <3>1. painterVM_t(0) = Machine(0, 0, 32, nothing, 0) /\ nothing \in Seq(Strokes)
      BY EmptySeq DEF painterVM_t, Machine
    <3> HIDE DEF nothing
    <3> QED BY <3>1, MachineIs
  <2>2. /\ RenderedCommand(d) \in Seq(Tokens)
        /\ Len(RenderedCommand(d)) # 0 /\ RenderedCommand(d)[1] = <<"letter", d.cmd>>
    BY <2>1, CommandRun, NulIsAName
  <2> QED BY <2>2
<1>3. pieces \in Seq(Seq(Tokens)) /\ Len(pieces) = n /\ \A i \in 1 .. n : pieces[i] = RenderedCommand(commands[i])
  <2>1. pieces = [i \in DOMAIN commands |-> pieces[i]] /\ \A i \in DOMAIN commands : pieces[i] \in Seq(Tokens)
    BY <1>1, <1>2
  <2>2. \A i \in 1 .. n : pieces[i] = RenderedCommand(commands[i])
    BY <1>1
  <2> HIDE DEF pieces
  <2>3. pieces \in Seq(Seq(Tokens)) /\ Len(pieces) = Len(commands)
    BY <2>1, PiecesOf
  <2> QED BY <2>2, <2>3
<1> HIDE DEF pieces, n
<1>4. 0 \in T
  <2>1. Parts(0) = <<>>
    BY <1>1, <1>3, Beginning
  <2> DEFINE nothing == <<>>
  <2>2. Len(nothing) = 0 /\ FlattenSeq(nothing) = nothing
    BY EmptySeq DEF FlattenSeq
  <2> HIDE DEF Parts
  <2>3. Len(FlattenSeq(Parts(0))) = 0
    BY <2>1, <2>2
  <2> QED BY <2>3
<1>5. ASSUME NEW k \in Nat, k \in T PROVE k + 1 \in T
  <2> SUFFICES ASSUME k + 1 <= n
               PROVE  Len(FlattenSeq(Parts(k + 1))) # 0 => FlattenSeq(Parts(k + 1))[1][1] = "letter"
    OBVIOUS
  <2>0. k <= n /\ k < n /\ k + 1 \in 1 .. n
    BY <1>1
  <2> DEFINE t == Parts(k)
             d == RenderedCommand(commands[k + 1])
             f == FlattenSeq(t)
  <2>1. t \in Seq(Seq(Tokens)) /\ Parts(k + 1) = Append(t, d)
    BY <1>3, <2>0, Beginning
  <2>2. d \in Seq(Tokens) /\ Len(d) # 0 /\ d[1][1] = "letter"
    BY <1>1, <1>2, <2>0
  <2>3. Len(f) # 0 => f[1][1] = "letter"
    BY <1>5, <2>0
  <2> HIDE DEF t, d, Parts
  <2>4. FlattenSeq(Append(t, d)) = f \o d /\ f \in Seq(Tokens)
    BY <2>1, <2>2, FlattenAppend, FlattenType
  <2> HIDE DEF f
  <2>5. Len(f) # 0 => (f \o d)[1] = f[1]
    BY <2>2, <2>4, FirstIsFirst
  <2>6. Len(f) = 0 => (f \o d)[1] = d[1]
    <3>1. f = <<>> => f \o d = d
      BY <2>2, ConcatEmptySeq
    <3>2. Len(f) = 0 => f = <<>>
      BY <2>4, EmptySeq
    <3> QED BY <3>1, <3>2
  <2> QED BY <2>1, <2>2, <2>3, <2>4, <2>5, <2>6
<1> HIDE DEF T
<1>6. n \in T
  BY <1>1, <1>4, <1>5, AllNumbers
<1>7. Parts(n) = pieces
  BY <1>1, <1>3, Beginning
<1>8. Len(FlattenSeq(Parts(n))) # 0 => FlattenSeq(Parts(n))[1][1] = "letter"
  BY <1>1, <1>6 DEF T
<1> HIDE DEF Parts
<1> QED BY <1>7, <1>8 DEF ScriptOf, pieces

(* Executing a script, and drawing a document: from the painter's machine. *)
LEMMA Executed ==
  ASSUME NEW view \in Int, NEW script \in Seq(Tokens)
  PROVE  LET done == ExecuteScript(painterVM_t(view), script)
         IN  /\ done = Run(Place(painterVM_t(view), <<>>, "command", "nul", 0), script)
             /\ done.vm.camera \in Int
<1> DEFINE nothing == <<>>
           vm == painterVM_t(view)
           at == Place(vm, nothing, "command", "nul", 0)
           done == ExecuteScript(vm, script)
<1>1. done = Run(at, script)
  BY DEF ExecuteScript, Run, Place
<1>2. vm = Machine(0, 0, 32, nothing, view) /\ nothing \in Seq(Strokes) /\ nothing \in Seq(Int)
  BY EmptySeq DEF painterVM_t, Machine
<1> HIDE DEF nothing, vm
<1>3. vm \in Machines
  BY <1>2, MachineIs
<1>4. at \in Running
  BY <1>2, <1>3, PlaceIs, NulIsAName
<1> HIDE DEF at
<1>5. PICK made : Ran(made, at, script)
  BY <1>4, RunUnfolds
<1>6. Run(at, script) \in Running
  <2>1. Len(script) \in 0 .. Len(script)
    BY LenProperties
  <2> QED BY <1>5, <2>1 DEF Ran
<1> HIDE DEF done
<1>7. done.vm.camera \in Int
  <2>1. done.vm \in Machines
    BY <1>1, <1>6, PlaceIs
  <2> QED BY <2>1, MachineIs
<1> QED BY <1>1, <1>7 DEF done, at, vm, nothing

LEMMA DocumentIsDrawn ==
  ASSUME NEW doc \in Documents, Len(doc.tail) = 0, NEW view \in Int
  PROVE  /\ ~CheckFile(Rendered(doc))
         /\ ExecuteScript(painterVM_t(view), Rendered(doc)).result = 0
         /\ ExecuteScript(painterVM_t(view), Rendered(doc)).vm.meshDesc = Drawing(doc)
<1> DEFINE nothing == <<>>
           v == painterVM_t(view)
           w == painterVM_t(0)
           commands == doc.commands
           script == Rendered(doc)
           done == ExecuteScript(v, script)
<1>1. commands \in Seq(Commands) /\ script = ScriptOf(commands) /\ script \in Seq(Tokens)
  BY DocumentIs
<1>2. /\ v = Machine(0, 0, 32, nothing, view) /\ w = Machine(0, 0, 32, nothing, 0)
      /\ nothing \in Seq(Strokes)
  BY EmptySeq DEF painterVM_t, Machine
<1>3. Drawing(doc) = Draw(w, commands).meshDesc
  BY DEF Drawing, Draw
<1>4. ~CheckFile(script)
  <2> SUFFICES ASSUME CheckFile(script) PROVE FALSE
    OBVIOUS
  <2>1. script # <<>> /\ script[1][1] = "mesh"
    BY DEF CheckFile
  <2> HIDE DEF script, commands
  <2>2. Len(script) # 0
    BY <1>1, <2>1, EmptySeq
  <2>3. script[1][1] = "letter"
    BY <1>1, <2>2, LinesBegin
  <2>4. "letter" # "mesh"
    OBVIOUS
  <2> QED BY <2>1, <2>3, <2>4
<1>5. done = Run(Place(v, nothing, "command", "nul", 0), script)
  <2> HIDE DEF script
  <2> QED BY <1>1, Executed
<1> HIDE DEF v, w, commands, script
<1>6. v \in Machines /\ w \in Machines /\ SamePicture(v, w)
  <2> HIDE DEF nothing
  <2>1. v \in Machines /\ w \in Machines
    BY <1>2, MachineIs
  <2> QED BY <1>2, <2>1 DEF SamePicture, Machine
<1> DEFINE ran == Run(Place(v, nothing, "command", "nul", 0), FlattenSeq([i \in DOMAIN commands |-> RenderedCommand(commands[i])]))
<1>7. ran.result = 0 /\ SamePicture(ran.vm, Draw(w, commands))
  BY <1>1, <1>6, ScriptRun
<1>8. done = ran
  BY <1>1, <1>5 DEF ScriptOf
<1> HIDE DEF done, ran
<1> QED BY <1>3, <1>4, <1>7, <1>8 DEF SamePicture, done, v, script

(* What is read while nothing is under way is the whole file, and what is  *)
(* under way is an event, a mail, a piece to be written or a change nobody *)
(* watched.                                                                *)
Modified == <<"modified", Painting>>
Pending == Len(events) # 0 \/ mail # 0 \/ Len(saving) # 0 \/ missed
Shows ==
  /\ Len(meant.tail) = 0 => picture = Drawing(meant)
  /\ CheckFile(content) => picture = content[1][2]
Whole == size = Len(content) /\ ~CheckFile(content)

FileInv ==
  /\ meant \in Documents /\ content \in Seq(Tokens) /\ saving \in Seq(Tokens)
  /\ content \o saving = Rendered(meant)
PainterTypes ==
  /\ camera \in Int /\ size \in Nat /\ mail \in Nat
  /\ events \in Seq({Modified})
  /\ pc \in {"open", "load", "read", "watch", "check", "poll", "ended"}
SceneInv ==
  /\ pc = "load" => CheckFile(content) \/ Pending
  /\ pc = "read" => Whole \/ Pending
  /\ pc \in {"watch", "check", "poll"} => Shows \/ Pending
PainterInv == FileInv /\ PainterTypes /\ SceneInv

LEMMA PainterBegins == MonitorInit /\ PainterInit => PainterInv
<1> SUFFICES ASSUME MonitorInit, PainterInit PROVE PainterInv
  OBVIOUS
<1>1. FileInv
  <2> DEFINE r == Rendered(meant)
  <2>1. meant \in Documents /\ content = r /\ saving = <<>>
    BY DEF PainterInit
  <2>2. r \in Seq(Tokens)
    BY <2>1, DocumentIs
  <2> HIDE DEF r
  <2>3. r \o <<>> = r /\ <<>> \in Seq(Tokens)
    BY <2>2, ConcatEmptySeq, EmptySeq
  <2> QED BY <2>1, <2>2, <2>3 DEF FileInv, r
<1>2. PainterTypes
  BY EmptySeq DEF MonitorInit, PainterInit, PainterTypes
<1>3. SceneInv
  BY DEF PainterInit, SceneInv
<1> QED BY <1>1, <1>2, <1>3 DEF PainterInv

(* An event of the file waits, or nobody watches it.                       *)
LEMMA TouchedIsPending ==
  ASSUME PainterTypes, Touched, Missed
  PROVE  /\ events' \in Seq({Modified})
         /\ pc # "open" => Len(events') # 0 \/ missed'
<1>1. events \in Seq({Modified})
  BY DEF PainterTypes
<1>2. ASSUME Painting \in watched
      PROVE  events' \in Seq({Modified}) /\ Len(events') # 0
  <2>1. events' = events \/ events' = Append(events, Modified)
    BY <1>2 DEF Touched, Modify, Queued, Modified
  <2>2. events' = events => events # <<>>
    BY <1>2 DEF Touched, Modify, Queued, Modified
  <2>3. Append(events, Modified) \in Seq({Modified}) /\ Len(Append(events, Modified)) # 0
    <3>1. Len(events) \in Nat
      BY <1>1, LenProperties
    <3>2. Len(Append(events, Modified)) = Len(events) + 1
      BY <1>1, AppendProperties
    <3>3. Append(events, Modified) \in Seq({Modified})
      BY <1>1, AppendProperties
    <3> QED BY <3>1, <3>2, <3>3
  <2>4. events # <<>> => Len(events) # 0
    BY <1>1, EmptySeq
  <2> QED BY <1>1, <2>1, <2>2, <2>3, <2>4
<1>3. ASSUME Painting \notin watched
      PROVE  events' = events /\ (pc # "open" => missed')
  BY <1>3 DEF Touched, Missed, monitorVars
<1> QED BY <1>1, <1>2, <1>3

LEMMA SaveKeeps ==
  ASSUME PainterInv, NEW document \in Documents, Save(document)
  PROVE  PainterInv'
<1> USE DEF PainterInv
<1>1. FileInv'
  <2> DEFINE r == Rendered(document)
  <2>1. meant' = document /\ content' = <<>> /\ saving' = r
    BY DEF Save
  <2>2. r \in Seq(Tokens)
    BY DocumentIs
  <2> HIDE DEF r
  <2>3. <<>> \o r = r /\ <<>> \in Seq(Tokens)
    BY <2>2, ConcatEmptySeq, EmptySeq
  <2> QED BY <2>1, <2>2, <2>3 DEF FileInv, r
<1>2. events' \in Seq({Modified}) /\ (pc # "open" => Len(events') # 0 \/ missed')
  BY TouchedIsPending DEF Save
<1>3. pc' = pc /\ camera' = camera /\ size' = size /\ mail' = mail
  BY DEF Save
<1>4. PainterTypes'
  BY <1>2, <1>3 DEF PainterTypes, Modified
<1>5. SceneInv'
  BY <1>2, <1>3 DEF SceneInv, Pending
<1> QED BY <1>1, <1>4, <1>5

Moves(S, c, s, a, b) == c \o a \in Seq(S) /\ b \in Seq(S) /\ (c \o a) \o b = c \o s
LEMMA PieceMoves ==
  ASSUME NEW S, NEW c \in Seq(S), NEW s \in Seq(S), NEW n \in 1 .. Len(s)
  PROVE  Moves(S, c, s, SubSeq(s, 1, n), SubSeq(s, n + 1, Len(s)))
<1> DEFINE a == SubSeq(s, 1, n)
           b == SubSeq(s, n + 1, Len(s))
           all == SubSeq(s, 1, Len(s))
<1>1. Len(s) \in Nat /\ n \in 1 - 1 .. Len(s) /\ Len(s) \in n .. Len(s) /\ 1 \in 1 .. Len(s) + 1
  BY LenProperties
<1>2. a \o b = all
  BY <1>1, ConcatAdjacentSubSeq
<1>3. all = s
  BY SubSeqFull
<1>4. a \in Seq(S) /\ b \in Seq(S)
  <2>1. n \in Nat /\ n <= Len(s)
    BY <1>1
  <2>2. a \in Seq(S)
    BY <2>1, Beginning
  <2>3. \A i \in n + 1 .. Len(s) : s[i] \in S
    BY <1>1
  <2>4. b \in Seq(S)
    BY <1>1, <2>3, SubSeqProperties
  <2> QED BY <2>2, <2>4
<1> HIDE DEF a, b, all
<1>5. c \o a \in Seq(S)
  BY <1>4, ConcatProperties
<1>6. Regroups(c, a, b)
  BY <1>4, Regrouped
<1>7. a \o b = s
  BY <1>2, <1>3
<1>8. Moves(S, c, s, a, b)
  BY <1>4, <1>5, <1>6, <1>7 DEF Moves, Regroups
<1> QED BY <1>8 DEF a, b

LEMMA WriteKeeps ==
  ASSUME PainterInv, NEW n \in 1 .. Len(saving), Write(n)
  PROVE  PainterInv'
<1> USE DEF PainterInv
<1>1. FileInv'
  <2> DEFINE a == SubSeq(saving, 1, n)
             b == SubSeq(saving, n + 1, Len(saving))
  <2>1. meant' = meant /\ content' = content \o a /\ saving' = b
    BY DEF Write
  <2>2. content \in Seq(Tokens) /\ saving \in Seq(Tokens) /\ content \o saving = Rendered(meant) /\ meant \in Documents
    BY DEF FileInv
  <2>3. Moves(Tokens, content, saving, a, b)
    BY <2>2, PieceMoves
  <2> HIDE DEF a, b
  <2>4. content' \in Seq(Tokens) /\ saving' \in Seq(Tokens) /\ content' \o saving' = Rendered(meant)
    BY <2>1, <2>2, <2>3 DEF Moves
  <2>5. meant' \in Documents /\ Rendered(meant)' = Rendered(meant)
    BY <2>1, <2>2 DEF Rendered
  <2> QED BY <2>4, <2>5 DEF FileInv
<1>2. events' \in Seq({Modified}) /\ (pc # "open" => Len(events') # 0 \/ missed')
  BY TouchedIsPending DEF Write
<1>3. pc' = pc /\ camera' = camera /\ size' = size /\ mail' = mail
  BY DEF Write
<1>4. PainterTypes'
  BY <1>2, <1>3 DEF PainterTypes, Modified
<1>5. SceneInv'
  BY <1>2, <1>3 DEF SceneInv, Pending
<1> QED BY <1>1, <1>4, <1>5

LEMMA OpenSceneKeeps ==
  ASSUME PainterInv, OpenScene
  PROVE  PainterInv'
<1> USE DEF PainterInv
<1>1. /\ size' = Len(content) /\ pc' = IF CheckFile(content) THEN "load" ELSE "read"
      /\ content' = content /\ meant' = meant /\ saving' = saving /\ camera' = camera /\ mail' = mail
      /\ events' = events
  BY DEF OpenScene, editorVars, monitorVars
<1>2. Len(content) \in Nat
  BY LenProperties DEF FileInv
<1>3. FileInv'
  BY <1>1 DEF FileInv
<1>4. PainterTypes'
  BY <1>1, <1>2 DEF PainterTypes, Modified
<1>5. SceneInv'
  BY <1>1 DEF SceneInv, Whole, CheckFile
<1> QED BY <1>3, <1>4, <1>5

(* The file is what was saved when the editor is done.                     *)
LEMMA SavedIsInTheFile ==
  ASSUME FileInv, Len(saving) = 0
  PROVE  content = Rendered(meant)
<1>1. saving = <<>>
  BY EmptySeq DEF FileInv
<1>2. content \o <<>> = content
  BY ConcatEmptySeq DEF FileInv
<1> QED BY <1>1, <1>2 DEF FileInv

LEMMA LoadSceneKeeps ==
  ASSUME PainterInv, LoadScene
  PROVE  PainterInv'
<1> USE DEF PainterInv
<1>1. /\ size' = size /\ content' = content /\ meant' = meant /\ saving' = saving /\ camera' = 0 /\ mail' = mail
      /\ events' = events /\ missed' = missed /\ pc' \in {"check", "watch"}
      /\ picture' = IF CheckFile(content) THEN content[1][2] ELSE <<>>
  BY DEF LoadScene, Updated, editorVars, monitorVars
<1>2. FileInv'
  BY <1>1 DEF FileInv
<1>3. PainterTypes'
  BY <1>1 DEF PainterTypes, Modified
<1>4. ASSUME ~Pending PROVE Shows'
  <2>1. CheckFile(content)
    BY <1>4 DEF LoadScene, SceneInv
  <2>2. content = Rendered(meant)
    BY <1>4, SavedIsInTheFile DEF Pending
  <2>3. Len(meant.tail) # 0
    BY <2>1, <2>2, DocumentIsDrawn DEF FileInv
  <2>4. picture' = content[1][2]
    BY <1>1, <2>1
  <2> QED BY <1>1, <2>3, <2>4 DEF Shows
<1>5. Pending => Pending'
  BY <1>1 DEF Pending
<1>6. SceneInv'
  BY <1>1, <1>4, <1>5 DEF SceneInv
<1> QED BY <1>2, <1>3, <1>6

LEMMA ReadSceneKeeps ==
  ASSUME PainterInv, ReadScene
  PROVE  PainterInv'
<1> USE DEF PainterInv
<1> DEFINE script == SubSeq(content, 1, size)
           done == ExecuteScript(painterVM_t(camera), script)
<1>1. /\ size' = size /\ content' = content /\ meant' = meant /\ saving' = saving /\ mail' = mail
      /\ events' = events /\ missed' = missed /\ pc' \in {"check", "watch", "ended"}
  BY DEF ReadScene, Updated, editorVars, monitorVars
<1>2. IF Len(content) < size THEN picture' = picture /\ camera' = camera
      ELSE /\ picture' = IF done.result = 0 THEN done.vm.meshDesc ELSE picture
           /\ camera' = done.vm.camera
           /\ pc' \in {"check", "watch"} \/ done.result # 0
  BY DEF ReadScene, Updated
<1>3. content \in Seq(Tokens) /\ size \in Nat /\ camera \in Int /\ Len(content) \in Nat
  BY LenProperties DEF FileInv, PainterTypes
<1>4. FileInv'
  BY <1>1 DEF FileInv
<1>5. ASSUME ~(Len(content) < size) PROVE done.vm.camera \in Int
  <2>1. script \in Seq(Tokens)
    BY <1>3, <1>5, Beginning
  <2> HIDE DEF script
  <2> QED BY <1>3, <2>1, Executed
<1> HIDE DEF done
<1>6. camera' \in Int
  BY <1>2, <1>3, <1>5
<1>7. PainterTypes'
  BY <1>1, <1>6 DEF PainterTypes, Modified
<1>8. ASSUME ~Pending PROVE Shows'
  <2>1. size = Len(content) /\ ~CheckFile(content)
    BY <1>8 DEF ReadScene, SceneInv, Whole
  <2>2. content = Rendered(meant) /\ meant \in Documents
    BY <1>8, SavedIsInTheFile DEF Pending, FileInv
  <2>3. script = Rendered(meant)
    <3>1. SubSeq(content, 1, Len(content)) = content
      BY <1>3, SubSeqFull
    <3> QED BY <2>1, <2>2, <3>1
  <2> HIDE DEF script
  <2>4. ASSUME Len(meant.tail) = 0 PROVE picture' = Drawing(meant)
    <3>1. done.result = 0 /\ done.vm.meshDesc = Drawing(meant)
      BY <1>3, <2>2, <2>3, <2>4, DocumentIsDrawn DEF done
    <3> QED BY <1>2, <1>3, <2>1, <3>1
  <2>5. ~CheckFile(content')
    BY <1>1, <2>1
  <2>6. (CheckFile(content) => picture = content[1][2])'
    BY <2>5 DEF CheckFile
  <2>7. (Len(meant.tail) = 0 => picture = Drawing(meant))'
    BY <1>1, <2>4
  <2> QED BY <2>6, <2>7 DEF Shows
<1>9. Pending => Pending'
  BY <1>1 DEF Pending
<1>10. SceneInv'
  BY <1>1, <1>8, <1>9 DEF SceneInv
<1> QED BY <1>4, <1>7, <1>10

(* The rest leaves file and picture alone.                                 *)
Elsewhere ==
  /\ content' = content /\ meant' = meant /\ saving' = saving /\ camera' = camera /\ size' = size
  /\ picture' = picture /\ missed' = missed

LEMMA ElsewhereKeeps ==
  ASSUME PainterInv, Elsewhere, mail' \in Nat, events' \in Seq({Modified}),
         pc' \in {"open", "load", "read", "watch", "check", "poll", "ended"},
         pc' \notin {"load", "read"} \/ pc' = pc,
         pc' \in {"watch", "check", "poll"} => pc \in {"watch", "check", "poll"},
         Len(events) # 0 \/ mail # 0 => Len(events') # 0 \/ mail' # 0 \/ pc' = "open"
  PROVE  PainterInv'
<1> USE DEF PainterInv
<1>1. FileInv'
  BY DEF FileInv, Elsewhere
<1>2. PainterTypes'
  BY DEF PainterTypes, Modified, Elsewhere
<1>3. Pending => Pending' \/ pc' = "open"
  BY DEF Pending, Elsewhere
<1>4. (Shows <=> Shows') /\ (Whole <=> Whole') /\ (CheckFile(content) <=> CheckFile(content'))
  BY DEF Shows, Whole, CheckFile, Elsewhere
<1>5. SceneInv'
  BY <1>3, <1>4 DEF SceneInv
<1> QED BY <1>1, <1>2, <1>5

LEMMA StartWatchKeeps ==
  ASSUME PainterInv, StartWatch
  PROVE  PainterInv'
<1>1. /\ Elsewhere /\ mail' = mail /\ events' = events
      /\ pc = "watch" /\ pc' = "check"
  BY DEF StartWatch, WatchFile, Elsewhere, editorVars
<1>2. mail \in Nat /\ events \in Seq({Modified})
  BY DEF PainterInv, PainterTypes
<1> QED BY <1>1, <1>2, ElsewhereKeeps

LEMMA CheckMonitorKeeps ==
  ASSUME PainterInv, CheckMonitor
  PROVE  PainterInv'
<1>1. /\ Elsewhere
      /\ pc = "check" /\ pc' = "poll"
  BY DEF CheckMonitor, Elsewhere, editorVars
<1>2. mail \in Nat /\ events \in Seq({Modified}) /\ Len(events) \in Nat
  BY LenProperties DEF PainterInv, PainterTypes
<1>3. ASSUME events = <<>>
      PROVE  PainterInv'
  <2>1. mail' = mail /\ events' = events
    BY <1>3 DEF CheckMonitor, monitorVars
  <2> QED BY <1>1, <1>2, <2>1, ElsewhereKeeps
<1>4. ASSUME events # <<>>
      PROVE  PainterInv'
  <2> DEFINE least == IF Len(events) < BufferSize THEN Len(events) ELSE BufferSize
             told == Processed(Read)
  <2>1. Len(events) # 0
    BY <1>2, <1>4, EmptySeq
  <2>2. least \in Nat /\ least <= Len(events)
    BY <1>2, FileMonitorAssumption
  <2>3. Read = SubSeq(events, 1, least)
    BY DEF Read
  <2>4. mail' = mail + Cardinality(told) /\ events' = SubSeq(events, Len(Read) + 1, Len(events))
    BY <1>4 DEF CheckMonitor, Check
  <2> HIDE DEF least
  <2>5. Len(Read) = least /\ Read \in Seq({Modified})
    BY <1>2, <2>2, <2>3, Beginning
  <2>6. told = 1 .. least
    <3>1. DOMAIN Read = 1 .. least /\ \A i \in 1 .. least : Read[i] = Modified
      BY <2>5
    <3>2. Modified[1] = "modified"
      BY DEF Modified
    <3> QED BY <3>1, <3>2 DEF Processed, Notified
  <2> HIDE DEF told
  <2>7. Cardinality(told) = least
    <3>1. Cardinality(1 .. least) = IF 1 > least THEN 0 ELSE least - 1 + 1
      BY <2>2, FS_Interval
    <3> QED BY <2>2, <2>6, <3>1
  <2>8. mail' = mail + least /\ mail' \in Nat
    BY <1>2, <2>2, <2>4, <2>7
  <2>9. events' = SubSeq(events, least + 1, Len(events))
    BY <2>4, <2>5
  <2>10. events' \in Seq({Modified})
    BY <1>2, <2>2, <2>9
  <2>11. least = 0 => events' = events
    <3>1. least = 0 => events' = SubSeq(events, 1, Len(events))
      BY <2>9
    <3> QED BY <1>2, <3>1, SubSeqFull
  <2>12. Len(events') # 0 \/ mail' # 0
    BY <1>2, <2>1, <2>2, <2>8, <2>11
  <2> QED BY <1>1, <2>8, <2>10, <2>12, ElsewhereKeeps
<1> QED BY <1>3, <1>4

LEMMA PollMailKeeps ==
  ASSUME PainterInv, PollMail
  PROVE  PainterInv'
<1>1. /\ Elsewhere /\ events' = events
      /\ pc = "poll" /\ pc' = (IF mail = 0 THEN "check" ELSE "open")
      /\ mail' = IF mail = 0 THEN 0 ELSE mail - 1
  BY DEF PollMail, Elsewhere, editorVars, monitorVars
<1>2. mail \in Nat /\ events \in Seq({Modified})
  BY DEF PainterInv, PainterTypes
<1>3. mail' \in Nat /\ (mail # 0 => pc' = "open") /\ pc' \in {"check", "open"}
  BY <1>1, <1>2
<1> QED BY <1>1, <1>2, <1>3, ElsewhereKeeps

LEMMA QuitKeeps ==
  ASSUME PainterInv, Quit \/ UNCHANGED <<monitorVars, painterVars>>
  PROVE  PainterInv'
<1>1. /\ Elsewhere /\ mail' = mail /\ events' = events
      /\ pc' = "ended" \/ pc' = pc
  BY DEF Quit, Elsewhere, editorVars, monitorVars, painterVars
<1>2. mail \in Nat /\ events \in Seq({Modified}) /\ pc \in {"open", "load", "read", "watch", "check", "poll", "ended"}
  BY DEF PainterInv, PainterTypes
<1> QED BY <1>1, <1>2, ElsewhereKeeps

LEMMA PainterStep == PainterInv /\ [PainterNext]_<<monitorVars, painterVars>> => PainterInv'
<1> SUFFICES ASSUME PainterInv, [PainterNext]_<<monitorVars, painterVars>> PROVE PainterInv'
  OBVIOUS
<1>1. CASE \E document \in Documents : Save(document)
  BY <1>1, SaveKeeps
<1>2. CASE \E n \in 1 .. Len(saving) : Write(n)
  BY <1>2, WriteKeeps
<1>3. CASE OpenScene
  BY <1>3, OpenSceneKeeps
<1>4. CASE LoadScene
  BY <1>4, LoadSceneKeeps
<1>5. CASE ReadScene
  BY <1>5, ReadSceneKeeps
<1>6. CASE StartWatch
  BY <1>6, StartWatchKeeps
<1>7. CASE CheckMonitor
  BY <1>7, CheckMonitorKeeps
<1>8. CASE PollMail
  BY <1>8, PollMailKeeps
<1>9. CASE Quit
  BY <1>9, QuitKeeps
<1>10. CASE UNCHANGED <<monitorVars, painterVars>>
  BY <1>10, QuitKeeps
<1> QED BY <1>1, <1>2, <1>3, <1>4, <1>5, <1>6, <1>7, <1>8, <1>9, <1>10 DEF PainterNext

LEMMA PainterMeans == PainterInv => PictureIsCurrent
<1> SUFFICES ASSUME PainterInv, pc = "check", events = <<>>, mail = 0, saving = <<>>, ~missed
             PROVE  /\ meant.tail = <<>> => picture = Drawing(meant)
                    /\ CheckFile(content) => picture = content[1][2]
  BY DEF PictureIsCurrent
<1> DEFINE nothing == <<>>
<1>1. Len(nothing) = 0 /\ events = nothing /\ saving = nothing
  OBVIOUS
<1>2. meant.tail = nothing => Len(meant.tail) = 0
  BY <1>1
<1>3. Shows \/ Pending
  BY DEF PainterInv, SceneInv
<1> HIDE DEF nothing
<1>4. ~Pending
  BY <1>1 DEF Pending
<1> QED BY <1>2, <1>3, <1>4 DEF Shows, nothing

(* When no event and no mail is left and the editor is done, the picture   *)
(* is that of the file as it was saved, for every document, in whatever    *)
(* pieces it is written and read, and for every size of the buffer         *)
(* (script.cpp:14-153, painter.cpp:231-390, monfs.cpp:31-119).             *)
THEOREM PictureComesUpToDate == PainterSpec => []PictureIsCurrent
BY PainterBegins, PainterStep, PainterMeans, PTL DEF PainterSpec

-----------------------------------------------------------------------------
(***************************************************************************)
(* Meshes, and obj2mesh.                                                   *)
(***************************************************************************)
Modes == {"triangles", "strip"}
Kinds == {"made", "loaded"}
AllMeshes == [buffers : Seq(Seq(Nat)), dims : Seq(Nat), indecies : Seq(Nat), mode : Modes, kind : Kinds]
MeshOf(b, d, x, m, k) == [buffers |-> b, dims |-> d, indecies |-> x, mode |-> m, kind |-> k]

LEMMA MeshIs ==
  /\ \A m \in AllMeshes :
       /\ m.buffers \in Seq(Seq(Nat)) /\ m.dims \in Seq(Nat) /\ m.indecies \in Seq(Nat)
       /\ m.mode \in Modes /\ m.kind \in Kinds
       /\ m = MeshOf(m.buffers, m.dims, m.indecies, m.mode, m.kind)
  /\ \A b \in Seq(Seq(Nat)), d, x \in Seq(Nat), m \in Modes, k \in Kinds : MeshOf(b, d, x, m, k) \in AllMeshes
BY DEF AllMeshes, MeshOf

(* A file is read array by array.                                          *)
Arrays == [magic : {"bdar", "bder"}, dim : Nat, data : Seq(Nat)]

LoadsAs(next, b, d, x, m, k, array) ==
  /\ array.magic = "bdar" => next = MeshOf(Append(b, array.data), Append(d, array.dim), x, m, k)
  /\ array.magic # "bdar" => next = MeshOf(b, d, array.data, m, k)

LEMMA LoadArrayIs ==
  ASSUME NEW b, NEW d, NEW x, NEW m, NEW k, NEW array
  PROVE  LoadsAs(LoadArray(MeshOf(b, d, x, m, k), array), b, d, x, m, k, array)
<1> DEFINE bb == Append(b, array.data)
           dd == Append(d, array.dim)
           old == MeshOf(b, d, x, m, k)
<1>0. old.buffers = b /\ old.dims = d
  BY DEF MeshOf
<1>1. ASSUME array.magic = "bdar" PROVE LoadArray(old, array) = MeshOf(bb, dd, x, m, k)
  <2>1. LoadArray(old, array) = [old EXCEPT !.buffers = bb, !.dims = dd]
    <3> HIDE DEF old
    <3> QED BY <1>0, <1>1 DEF LoadArray
  <2> HIDE DEF bb, dd
  <2> QED BY <2>1 DEF MeshOf
<1>2. ASSUME array.magic # "bdar" PROVE LoadArray(old, array) = MeshOf(b, d, array.data, m, k)
  <2>1. LoadArray(old, array) = [old EXCEPT !.indecies = array.data]
    BY <1>2 DEF LoadArray
  <2> QED BY <2>1 DEF MeshOf
<1> QED BY <1>1, <1>2 DEF LoadsAs

LEMMA LoadArrayKeeps ==
  ASSUME NEW m \in AllMeshes, NEW array \in Arrays
  PROVE  LoadArray(m, array) \in AllMeshes
<1> DEFINE b == m.buffers
           d == m.dims
           x == m.indecies
           mm == m.mode
           k == m.kind
<1>1. /\ b \in Seq(Seq(Nat)) /\ d \in Seq(Nat) /\ x \in Seq(Nat) /\ mm \in Modes /\ k \in Kinds
      /\ m = MeshOf(b, d, x, mm, k)
  BY MeshIs
<1> HIDE DEF b, d, x, mm, k
<1>2. array.data \in Seq(Nat) /\ array.dim \in Nat
  BY DEF Arrays
<1> DEFINE bb == Append(b, array.data)
           dd == Append(d, array.dim)
<1>3. bb \in Seq(Seq(Nat)) /\ dd \in Seq(Nat)
  BY <1>1, <1>2, AppendProperties
<1>4. LoadArray(m, array) = MeshOf(bb, dd, x, mm, k) \/ LoadArray(m, array) = MeshOf(b, d, array.data, mm, k)
  <2>1. LoadsAs(LoadArray(MeshOf(b, d, x, mm, k), array), b, d, x, mm, k, array)
    BY LoadArrayIs
  <2> QED BY <1>1, <2>1 DEF LoadsAs
<1> HIDE DEF bb, dd
<1> QED BY <1>1, <1>2, <1>3, <1>4, MeshIs

LoadedSteps(made, first, arrays) ==
  /\ made \in [0 .. Len(arrays) -> AllMeshes] /\ made[0] = first
  /\ made[Len(arrays)] = FoldLeft(LoadArray, first, arrays)
  /\ \A k \in 1 .. Len(arrays) : made[k] = LoadArray(made[k - 1], arrays[k])

LEMMA LoadUnfolds ==
  ASSUME NEW first \in AllMeshes, NEW arrays \in Seq(Arrays)
  PROVE  \E made : LoadedSteps(made, first, arrays)
<1> DEFINE n == Len(arrays)
           Code(f) == [u \in SUBSET (1 .. n) |->
                         IF u = {} THEN first ELSE LoadArray(f[u \ {Max(u)}], arrays[Max(u)])]
           iter == CHOOSE f : f = Code(f)
           G == [i \in 1 .. n |-> [d \in AllMeshes |-> LoadArray(d, arrays[i])]]
<1>1. n \in Nat /\ DOMAIN arrays = 1 .. n /\ \A i \in 1 .. n : arrays[i] \in Arrays
  OBVIOUS
<1>2. FoldLeft(LoadArray, first, arrays) = iter[1 .. n]
  BY <1>1 DEF FoldLeft, MapThenFoldSet
<1> HIDE DEF n
<1>3. \A i \in 1 .. n, d \in AllMeshes : G[i][d] = LoadArray(d, arrays[i]) /\ G[i][d] \in AllMeshes
  BY <1>1, LoadArrayKeeps
<1> HIDE DEF G
<1>4. PICK f : IsLeftFold(f, n, AllMeshes, first, G)
  BY <1>1, <1>3, LeftFoldExists
<1>5. f = Code(f)
  BY <1>3, <1>4 DEF IsLeftFold
<1>6. iter = Code(iter)
  BY <1>5
<1> HIDE DEF iter
<1>7. iter[{}] = first
  BY <1>6
<1>8. ASSUME NEW u \in SUBSET (1 .. n), u # {}, Max(u) \in 1 .. n, iter[u \ {Max(u)}] \in AllMeshes
      PROVE  iter[u] = G[Max(u)][iter[u \ {Max(u)}]]
  BY <1>3, <1>6, <1>8
<1>9. FoldsLeft(iter, n, AllMeshes, first, G)
  BY <1>7, <1>8 DEF FoldsLeft
<1>10. PICK made : StepsTo(made, n, AllMeshes, first, G, iter[1 .. n])
  BY <1>1, <1>3, <1>9, LeftFoldSteps
<1>11. /\ made \in [0 .. n -> AllMeshes] /\ made[0] = first /\ made[n] = iter[1 .. n]
       /\ \A k \in 1 .. n : made[k] = G[k][made[k - 1]]
  BY <1>10 DEF StepsTo
<1>12. ASSUME NEW k \in 1 .. n PROVE made[k] = LoadArray(made[k - 1], arrays[k])
  <2>1. k - 1 \in 0 .. n
    BY <1>1
  <2> QED BY <1>3, <1>11, <2>1
<1>13. LoadedSteps(made, first, arrays)
  BY <1>2, <1>11, <1>12 DEF LoadedSteps, n
<1> QED BY <1>13

(* What is saved is loaded.                                                *)
LEMMA SavedMeshIsLoaded ==
  ASSUME NEW m \in AllMeshes, Len(m.dims) = Len(m.buffers)
  PROVE  LoadMesh(SaveMesh(m)) = MeshOf(m.buffers, m.dims, m.indecies, m.mode, "loaded")
<1> DEFINE b == m.buffers
           d == m.dims
           x == m.indecies
           n == Len(b)
           nothing == <<>>
           front == [i \in DOMAIN b |-> meshDescArrayHeader_t("bdar", d[i], b[i])]
           tail == meshDescArrayHeader_t("bder", 1, x)
           arrays == Append(front, tail)
           first == MeshOf(nothing, nothing, nothing, m.mode, "loaded")
<1>1. b \in Seq(Seq(Nat)) /\ d \in Seq(Nat) /\ x \in Seq(Nat) /\ m.mode \in Modes /\ n \in Nat /\ Len(d) = n
  BY MeshIs, LenProperties
<1>2. /\ DOMAIN b = 1 .. n /\ \A i \in 1 .. n : b[i] \in Seq(Nat) /\ d[i] \in Nat
  <2> HIDE DEF b, d
  <2>1. DOMAIN b = 1 .. n /\ DOMAIN d = 1 .. n
    BY <1>1, LenProperties
  <2> QED BY <1>1, <2>1, ElementOfSeq
<1>3. front \in Seq(Arrays) /\ Len(front) = n
  <2>1. \A i \in 1 .. n : front[i] \in Arrays
    BY <1>2 DEF meshDescArrayHeader_t, Arrays
  <2>2. front = [i \in 1 .. n |-> front[i]]
    BY <1>2
  <2> HIDE DEF front, n
  <2> QED BY <1>1, <2>1, <2>2
<1>4. \A i \in 1 .. n : front[i].magic = "bdar" /\ front[i].data = b[i] /\ front[i].dim = d[i]
  BY <1>2 DEF meshDescArrayHeader_t
<1>5. tail \in Arrays /\ tail.magic # "bdar" /\ tail.data = x
  BY <1>1 DEF meshDescArrayHeader_t, Arrays
<1>6. SaveMesh(m).arrays = arrays
  <2>1. SaveMesh(m).arrays = front \o <<tail>>
    BY DEF SaveMesh
  <2> HIDE DEF front, tail
  <2> QED BY <1>3, <1>5, <2>1, AppendIsConcat
<1>7. LoadMesh(SaveMesh(m)) = FoldLeft(LoadArray, first, arrays)
  <2>1. SaveMesh(m).header = <<"bdms", 1, m.mode>>
    BY DEF SaveMesh
  <2>2. [meshDesc_t EXCEPT !.mode = m.mode, !.kind = "loaded"] = first
    <3>1. meshDesc_t = [buffers |-> nothing, dims |-> nothing, indecies |-> nothing, mode |-> "triangles", kind |-> "made"]
      BY DEF meshDesc_t
    <3>2. meshDesc_t = MeshOf(nothing, nothing, nothing, "triangles", "made")
      BY <3>1 DEF MeshOf
    <3>3. [MeshOf(nothing, nothing, nothing, "triangles", "made") EXCEPT !.mode = m.mode, !.kind = "loaded"]
            = MeshOf(nothing, nothing, nothing, m.mode, "loaded")
      <4> DEFINE mm == m.mode
      <4> HIDE DEF nothing, mm
      <4>1. [MeshOf(nothing, nothing, nothing, "triangles", "made") EXCEPT !.mode = mm]
              = MeshOf(nothing, nothing, nothing, mm, "made")
        BY DEF MeshOf
      <4>2. [MeshOf(nothing, nothing, nothing, mm, "made") EXCEPT !.kind = "loaded"]
              = MeshOf(nothing, nothing, nothing, mm, "loaded")
        BY DEF MeshOf
      <4> QED BY <4>1, <4>2 DEF mm
    <3> HIDE DEF nothing
    <3> QED BY <3>2, <3>3
  <2> DEFINE saved == SaveMesh(m)
  <2>3. saved.header[1] = "bdms" /\ saved.header[2] = 1 /\ saved.header[3] = m.mode
    BY <2>1
  <2> HIDE DEF saved, first, arrays
  <2> QED BY <1>6, <2>2, <2>3 DEF LoadMesh, saved
<1>8. nothing \in Seq(Seq(Nat)) /\ nothing \in Seq(Nat)
  BY EmptySeq
<1> HIDE DEF front, tail, nothing
<1>9. arrays \in Seq(Arrays) /\ Len(arrays) = n + 1 /\ arrays[n + 1] = tail /\ \A i \in 1 .. n : arrays[i] = front[i]
  BY <1>3, <1>5, AppendProperties
<1>10. first \in AllMeshes
  BY <1>1, <1>8, MeshIs DEF Kinds
<1> HIDE DEF arrays, n, b, d, x
<1>11. PICK made : LoadedSteps(made, first, arrays)
  BY <1>9, <1>10, LoadUnfolds
<1> DEFINE Bs(k) == SubSeq(b, 1, k)
           Ds(k) == SubSeq(d, 1, k)
           up == n + 1
<1>12. /\ made[0] = first /\ made[up] = FoldLeft(LoadArray, first, arrays)
       /\ \A k \in 1 .. up : made[k] = LoadArray(made[k - 1], arrays[k])
  BY <1>9, <1>11 DEF LoadedSteps
<1> DEFINE T == {k \in Nat : k <= n => made[k] = MeshOf(Bs(k), Ds(k), nothing, m.mode, "loaded")}
<1>13. 0 \in T
  <2>1. Bs(0) = nothing /\ Ds(0) = nothing
    BY <1>1, Beginning DEF nothing, n
  <2> HIDE DEF Bs, Ds
  <2> QED BY <1>12, <2>1
<1>14. ASSUME NEW k \in Nat, k \in T PROVE k + 1 \in T
  <2> SUFFICES ASSUME k + 1 <= n PROVE made[k + 1] = MeshOf(Bs(k + 1), Ds(k + 1), nothing, m.mode, "loaded")
    OBVIOUS
  <2>1. k < n /\ k <= n /\ k + 1 \in 1 .. n /\ k + 1 \in 1 .. up /\ (k + 1) - 1 = k
    BY <1>1
  <2>2. Bs(k + 1) = Append(Bs(k), b[k + 1])
    BY <1>1, <2>1, Beginning DEF n
  <2>3. Ds(k + 1) = Append(Ds(k), d[k + 1])
    BY <1>1, <2>1, Beginning
  <2>4. made[k] = MeshOf(Bs(k), Ds(k), nothing, m.mode, "loaded")
    BY <1>14, <2>1
  <2>5. made[k + 1] = LoadArray(made[k], front[k + 1])
    BY <1>9, <1>12, <2>1
  <2>6. front[k + 1].magic = "bdar" /\ front[k + 1].data = b[k + 1] /\ front[k + 1].dim = d[k + 1]
    BY <1>4, <2>1
  <2>7. LoadsAs(LoadArray(MeshOf(Bs(k), Ds(k), nothing, m.mode, "loaded"), front[k + 1]),
                Bs(k), Ds(k), nothing, m.mode, "loaded", front[k + 1])
    BY LoadArrayIs
  <2> DEFINE f == front[k + 1]
             bk == Bs(k)
             dk == Ds(k)
  <2>8. made[k + 1] = MeshOf(Append(bk, f.data), Append(dk, f.dim), nothing, m.mode, "loaded")
    <3> HIDE DEF f, bk, dk
    <3> QED BY <2>4, <2>5, <2>6, <2>7 DEF LoadsAs, f, bk, dk
  <2> QED BY <2>2, <2>3, <2>6, <2>8
<1> HIDE DEF T
<1>15. n \in T
  BY <1>1, <1>13, <1>14, AllNumbers
<1>16. made[n] = MeshOf(Bs(n), Ds(n), nothing, m.mode, "loaded")
  BY <1>1, <1>15 DEF T
<1>17. Bs(n) = b /\ Ds(n) = d
  BY <1>1, Beginning DEF n
<1>18. made[up] = LoadArray(made[n], tail)
  <2>1. up \in 1 .. up /\ up - 1 = n
    BY <1>1
  <2> QED BY <1>9, <1>12, <2>1
<1> HIDE DEF Bs, Ds, up
<1>19. made[up] = MeshOf(b, d, x, m.mode, "loaded")
  <2>1. LoadsAs(LoadArray(MeshOf(b, d, nothing, m.mode, "loaded"), tail), b, d, nothing, m.mode, "loaded", tail)
    BY LoadArrayIs
  <2> QED BY <1>5, <1>16, <1>17, <1>18, <2>1 DEF LoadsAs
<1>20. LoadMesh(SaveMesh(m)) = MeshOf(b, d, x, m.mode, "loaded")
  BY <1>7, <1>12, <1>19
<1> QED BY <1>20 DEF b, d, x

-----------------------------------------------------------------------------
(* The greatest index in use, of those there are.                          *)
Used(x) == {x[i] : i \in DOMAIN x} \ {BreakIndex}
IsGreatest(g, x) == g \in Used(x) /\ \A u \in Used(x) : u <= g

LEMMA MaximumIs ==
  ASSUME NEW x \in Seq(Nat), NEW g \in Nat, IsGreatest(g, x)
  PROVE  MaximumIndex(x) = g
<1>1. Used(x) \subseteq Nat
  BY DEF Used
<1>2. MaximumIndex(x) = CHOOSE m \in Used(x) : \A u \in Used(x) : u <= m
  BY DEF MaximumIndex, Used, IsGreatest
<1>3. \A m \in Used(x) : (\A u \in Used(x) : u <= m) => m = g
  BY <1>1 DEF IsGreatest
<1> QED BY <1>2, <1>3 DEF IsGreatest

LEMMA MaximumOf ==
  ASSUME NEW x \in Seq(Nat), NEW n \in Nat, \A i \in DOMAIN x : x[i] # BreakIndex => x[i] < n,
         NEW j \in DOMAIN x, x[j] # BreakIndex
  PROVE  MaximumIndex(x) \in Nat /\ MaximumIndex(x) < n /\ IsGreatest(MaximumIndex(x), x)
<1> DEFINE U == Used(x)
           Back == {n - u : u \in U}
<1>1. U \subseteq 0 .. n - 1 /\ x[j] \in U
  BY DEF Used
<1> HIDE DEF U
<1>2. Back \subseteq Nat /\ Back # {}
  BY <1>1
<1> HIDE DEF Back
<1>3. PICK b \in Back : \A y \in Back : b <= y
  BY <1>2, LeastOf
<1>4. PICK g \in U : b = n - g
  BY <1>3 DEF Back
<1>5. ASSUME NEW u \in U PROVE u <= g
  <2>1. n - u \in Back
    BY DEF Back
  <2>2. n - g <= n - u
    BY <1>3, <1>4, <2>1
  <2> QED BY <1>1, <2>2
<1>6. IsGreatest(g, x) /\ g \in Nat /\ g < n
  BY <1>1, <1>4, <1>5 DEF IsGreatest, U
<1> QED BY <1>6, MaximumIs

(* What indexBuffer_t::Append puts behind what is there: all, moved, or as *)
(* much as can be.                                                         *)
TooGreat(from, i, offset) == from[i] # BreakIndex /\ from[i] + offset >= BreakIndex
Moved(p, from, offset) ==
  /\ p \in Seq(Nat) /\ Len(p) <= Len(from)
  /\ \A i \in 1 .. Len(p) : \/ from[i] = BreakIndex /\ p[i] = BreakIndex
                            \/ from[i] # BreakIndex /\ p[i] = from[i] + offset /\ p[i] < BreakIndex
  /\ Len(p) = Len(from) \/ \E i \in DOMAIN from : TooGreat(from, i, offset)

LEMMA AppendIndeciesIs ==
  ASSUME NEW to \in Seq(Nat), NEW from \in Seq(Nat), NEW offset \in Nat
  PROVE  \E p : Moved(p, from, offset) /\ AppendIndecies(to, from, offset) = to \o p
<1> USE MeshesAssumption
<1> DEFINE stops == {i \in DOMAIN from : from[i] # BreakIndex /\ from[i] + offset >= BreakIndex}
           first == CHOOSE i \in stops : \A j \in stops : i <= j
           upTo == IF stops = {} THEN Len(from) ELSE first - 1
           To(u) == [i \in 1 .. u |-> IF from[i] = BreakIndex THEN BreakIndex ELSE from[i] + offset]
<1>1. AppendIndecies(to, from, offset) = to \o To(upTo)
  BY DEF AppendIndecies
<1>2. DOMAIN from = 1 .. Len(from) /\ Len(from) \in Nat /\ \A i \in 1 .. Len(from) : from[i] \in Nat
  OBVIOUS
<1>7. stops # {} => \E i \in DOMAIN from : TooGreat(from, i, offset)
  BY DEF TooGreat
<1>8. stops \subseteq 1 .. Len(from)
  BY <1>2
<1>9. \A i \in 1 .. Len(from) : i \notin stops => from[i] = BreakIndex \/ from[i] + offset < BreakIndex
  BY <1>2
<1> HIDE DEF stops
<1>3. /\ upTo \in Nat /\ upTo <= Len(from)
      /\ \A i \in 1 .. upTo : i \notin stops
      /\ upTo = Len(from) \/ stops # {}
  <2>1. CASE stops = {}
    <3>1. upTo = Len(from)
      BY <2>1
    <3> HIDE DEF upTo
    <3> QED BY <1>2, <2>1, <3>1
  <2>2. CASE stops # {}
    <3>1. upTo = first - 1
      BY <2>2
    <3>2. stops \subseteq Nat
      BY <1>8
    <3>3. \E i \in stops : \A j \in stops : i <= j
      BY <2>2, <3>2, LeastOf
    <3>4. first \in stops /\ \A j \in stops : first <= j
      BY <3>3
    <3> HIDE DEF first, upTo
    <3> QED BY <1>2, <1>8, <2>2, <3>1, <3>4
  <2> QED BY <2>1, <2>2
<1> HIDE DEF upTo, To
<1>4. PICK top \in Nat : /\ top = upTo /\ top <= Len(from)
                         /\ \A i \in 1 .. top : i \notin stops
                         /\ (top = Len(from) \/ stops # {})
  BY <1>3
<1>5. ASSUME NEW i \in 1 .. top
      PROVE  i \in 1 .. Len(from) /\ from[i] \in Nat /\ (from[i] # BreakIndex => from[i] + offset < BreakIndex)
  <2>1. top <= Len(from) /\ i \notin stops
    BY <1>4
  <2>2. i \in 1 .. Len(from)
    <3>1. top \in Nat /\ Len(from) \in Nat
      BY <1>2
    <3> QED BY <2>1, <3>1
  <2> QED BY <1>2, <1>9, <2>1, <2>2
<1>6. /\ To(top) \in Seq(Nat) /\ Len(To(top)) = top
      /\ \A i \in 1 .. top : To(top)[i] = IF from[i] = BreakIndex THEN BreakIndex ELSE from[i] + offset
  <2>1. ASSUME NEW i \in 1 .. top PROVE (IF from[i] = BreakIndex THEN BreakIndex ELSE from[i] + offset) \in Nat
    <3>1. from[i] \in Nat
      BY <1>5
    <3> QED BY <3>1
  <2> QED BY <2>1 DEF To
<1> HIDE DEF To
<1>10. Moved(To(top), from, offset)
  BY <1>4, <1>5, <1>6, <1>7 DEF Moved
<1> QED BY <1>1, <1>4, <1>10

(* Meshes made of shapes: all buffers have one item for each vertex, and a *)
(* third one is of the points' ages.                                       *)
DimsAre(d) == \A a \in DOMAIN d : d[a] = IF a = 3 THEN 1 ELSE 2
Regular(m) ==
  /\ m \in AllMeshes /\ Len(m.dims) = Len(m.buffers) /\ Len(m.buffers) > 0 /\ m.mode = "strip"
  /\ DimsAre(m.dims) /\ \A b \in DOMAIN m.buffers : m.buffers[b] = m.buffers[1]

LEMMA RegularIs ==
  ASSUME NEW m, Regular(m)
  PROVE  /\ m.buffers \in Seq(Seq(Nat)) /\ m.dims \in Seq(Nat) /\ m.indecies \in Seq(Nat)
         /\ m.mode = "strip" /\ m.kind \in Kinds
         /\ m = MeshOf(m.buffers, m.dims, m.indecies, m.mode, m.kind)
         /\ Len(m.buffers) \in Nat \ {0} /\ Len(m.dims) = Len(m.buffers)
         /\ DOMAIN m.buffers = 1 .. Len(m.buffers) /\ DOMAIN m.dims = 1 .. Len(m.buffers)
         /\ m.buffers[1] \in Seq(Nat) /\ DimsAre(m.dims)
         /\ \A b \in 1 .. Len(m.buffers) : m.buffers[b] = m.buffers[1]
<1>1. /\ m.buffers \in Seq(Seq(Nat)) /\ m.dims \in Seq(Nat) /\ m.indecies \in Seq(Nat)
      /\ m.kind \in Kinds /\ m = MeshOf(m.buffers, m.dims, m.indecies, m.mode, m.kind)
  BY MeshIs DEF Regular
<1> DEFINE b == m.buffers
           d == m.dims
<1> HIDE DEF b, d
<1>2. b \in Seq(Seq(Nat)) /\ d \in Seq(Nat) /\ Len(d) = Len(b) /\ Len(b) > 0
  BY <1>1 DEF Regular, b, d
<1>3. DOMAIN b = 1 .. Len(b) /\ DOMAIN d = 1 .. Len(b) /\ Len(b) \in Nat \ {0}
  BY <1>2, LenProperties
<1>4. b[1] \in Seq(Nat)
  BY <1>2, <1>3, ElementOfSeq
<1> QED BY <1>1, <1>2, <1>3, <1>4 DEF Regular, b, d

Makes(m, b, x, k, w) ==
  Regular(m) /\ m.buffers = b /\ m.buffers[1] = w /\ m.indecies = x /\ m.kind = k

Parts(b, d, x, k, w) ==
  /\ b \in Seq(Seq(Nat)) /\ d \in Seq(Nat) /\ x \in Seq(Nat) /\ k \in Kinds
  /\ Len(d) = Len(b) /\ Len(b) > 0 /\ DimsAre(d) /\ \A i \in 1 .. Len(b) : b[i] = w

LEMMA RegularMade ==
  ASSUME NEW b, NEW d, NEW x, NEW k, NEW w, Parts(b, d, x, k, w)
  PROVE  Makes(MeshOf(b, d, x, "strip", k), b, x, k, w)
<1>0. /\ b \in Seq(Seq(Nat)) /\ d \in Seq(Nat) /\ x \in Seq(Nat) /\ k \in Kinds
      /\ Len(d) = Len(b) /\ Len(b) > 0 /\ DimsAre(d) /\ \A i \in 1 .. Len(b) : b[i] = w
  BY DEF Parts
<1>1. "strip" \in Modes
  BY DEF Modes
<1> DEFINE m == MeshOf(b, d, x, "strip", k)
<1>2. m \in AllMeshes
  BY <1>0, <1>1, MeshIs
<1>3. m.buffers = b /\ m.dims = d /\ m.mode = "strip" /\ m.indecies = x /\ m.kind = k
  BY DEF MeshOf
<1>4. DOMAIN b = 1 .. Len(b) /\ Len(b) \in Nat
  BY <1>0, LenProperties
<1>5. 1 \in 1 .. Len(b)
  BY <1>0, <1>4
<1> HIDE DEF m
<1>6. \A i \in DOMAIN b : b[i] = b[1]
  BY <1>0, <1>4, <1>5
<1>7. Regular(m) /\ b[1] = w
  BY <1>0, <1>2, <1>3, <1>5, <1>6 DEF Regular
<1>8. Makes(m, b, x, k, w)
  BY <1>3, <1>7 DEF Makes
<1> QED BY <1>8 DEF m

LEMMA OtherIndecies ==
  ASSUME NEW b, NEW d, NEW x, NEW m, NEW k, NEW other
  PROVE  [MeshOf(b, d, x, m, k) EXCEPT !.indecies = other] = MeshOf(b, d, other, m, k)
BY DEF MeshOf

NewIndecies(to, from) ==
  IF to.kind = "made" THEN AppendIndecies(to.indecies, from.indecies, MaximumIndex(to.indecies) + 1)
  ELSE AppendToLoaded(to.indecies, from.indecies)

Joined(next, to, from) ==
  /\ Regular(next) /\ next.buffers[1] = to.buffers[1] \o from.buffers[1]
  /\ next.indecies = NewIndecies(to, from) /\ next.kind = to.kind
  /\ Len(next.buffers) = Len(to.buffers)

LEMMA AppendMeshIs ==
  ASSUME NEW to, NEW from, Regular(to), Regular(from), NewIndecies(to, from) \in Seq(Nat)
  PROVE  \/ AppendMesh(to, from) = to /\ Len(to.buffers) # Len(from.buffers)
         \/ Joined(AppendMesh(to, from), to, from)
<1> DEFINE b == to.buffers
           c == from.buffers
           n == Len(b)
           Fits(i) == \A a \in 1 .. i : to.dims[a] = from.dims[a]
           longer == [i \in DOMAIN to.buffers |-> IF Fits(i) THEN to.buffers[i] \o from.buffers[i] ELSE to.buffers[i]]
           joined == [to EXCEPT !.buffers = longer]
           x == NewIndecies(to, from)
           w == b[1] \o c[1]
<1>1. /\ b \in Seq(Seq(Nat)) /\ to.dims \in Seq(Nat) /\ to.mode = "strip" /\ to.kind \in Kinds
      /\ to = MeshOf(b, to.dims, to.indecies, "strip", to.kind)
      /\ n \in Nat \ {0} /\ Len(to.dims) = n /\ DOMAIN b = 1 .. n /\ DOMAIN to.dims = 1 .. n
      /\ b[1] \in Seq(Nat) /\ DimsAre(to.dims) /\ \A i \in 1 .. n : b[i] = b[1]
  BY RegularIs
<1>2. /\ from.mode = "strip" /\ DOMAIN from.dims = 1 .. Len(c)
      /\ c[1] \in Seq(Nat) /\ DimsAre(from.dims) /\ \A i \in 1 .. Len(c) : c[i] = c[1]
  BY RegularIs
<1>3. to.buffers # <<>>
  BY <1>1
<1>4. CASE Len(c) # n
  BY <1>1, <1>2, <1>3, <1>4 DEF AppendMesh
<1>5. CASE Len(c) = n
  <2>1. \A i \in 0 .. n : Fits(i)
    <3>1. \A a \in 1 .. n : to.dims[a] = from.dims[a]
      BY <1>1, <1>2, <1>5 DEF DimsAre
    <3> QED BY <1>1, <3>1
  <2>2. AppendMesh(to, from) = IF ~ Fits(n) THEN joined ELSE [joined EXCEPT !.indecies = x]
    BY <1>1, <1>2, <1>3, <1>5 DEF AppendMesh, NewIndecies, AppendOffset, OffsetAfterMaximum
  <2> HIDE DEF Fits, x
  <2>3. longer \in Seq(Seq(Nat)) /\ Len(longer) = n /\ \A i \in 1 .. n : longer[i] = w
    <3>1. w \in Seq(Nat)
      BY <1>1, <1>2, ConcatProperties
    <3>2. \A i \in 1 .. n : b[i] \o c[i] = w /\ Fits(i)
      <4>1. \A i \in 1 .. n : b[i] = b[1] /\ c[i] = c[1]
        BY <1>1, <1>2, <1>5
      <4>2. \A i \in 1 .. n : i \in 0 .. n
        OBVIOUS
      <4> HIDE DEF b, c, n
      <4> QED BY <2>1, <4>1, <4>2
    <3>3. longer = [i \in 1 .. n |-> w]
      <4>1. DOMAIN to.buffers = 1 .. n
        BY <1>1
      <4> QED BY <3>2, <4>1
    <3> HIDE DEF longer, w, n, b, c
    <3> QED BY <1>1, <3>1, <3>3
  <2> HIDE DEF longer, b, c, w, n
  <2>4. joined = MeshOf(longer, to.dims, to.indecies, "strip", to.kind)
    <3> DEFINE d == to.dims
               o == to.indecies
               k == to.kind
    <3>1. to = MeshOf(b, d, o, "strip", k)
      BY <1>1
    <3> HIDE DEF d, o, k
    <3>2. [MeshOf(b, d, o, "strip", k) EXCEPT !.buffers = longer] = MeshOf(longer, d, o, "strip", k)
      BY DEF MeshOf
    <3>3. joined = MeshOf(longer, d, o, "strip", k)
      BY <3>1, <3>2
    <3> QED BY <3>3 DEF d, o, k
  <2> HIDE DEF joined
  <2>5. [joined EXCEPT !.indecies = x] = MeshOf(longer, to.dims, x, "strip", to.kind)
    BY <2>4, OtherIndecies
  <2>6. AppendMesh(to, from) = MeshOf(longer, to.dims, x, "strip", to.kind)
    BY <1>1, <2>1, <2>2, <2>5
  <2>7. x \in Seq(Nat)
    BY DEF x
  <2> DEFINE next == MeshOf(longer, to.dims, x, "strip", to.kind)
  <2>8. Regular(next) /\ next.buffers[1] = w /\ next.indecies = x /\ next.kind = to.kind /\ next.buffers = longer
    <3>1. Makes(next, longer, x, to.kind, w)
      <4>1. Parts(longer, to.dims, x, to.kind, w)
        BY <1>1, <2>3, <2>7 DEF Parts
      <4> QED BY <4>1, RegularMade
    <3> HIDE DEF next
    <3> QED BY <3>1 DEF Makes
  <2> HIDE DEF next
  <2>9. Joined(next, to, from)
    BY <2>3, <2>8 DEF Joined, x, w, b, c, n
  <2> QED BY <2>6, <2>9 DEF next
<1> QED BY <1>4, <1>5

(* What is drawn between two breaks has one item; t is the item of all the *)
(* vertices from lo on.                                                    *)
DrawnRight(x, w) ==
  /\ x \in Seq(Nat) /\ w \in Seq(Nat)
  /\ \A i \in 1 .. Len(x) : x[i] # BreakIndex => x[i] < Len(w) /\ x[i] < BreakIndex
  /\ \A i \in 2 .. Len(x) : x[i - 1] # BreakIndex /\ x[i] # BreakIndex => w[x[i - 1] + 1] = w[x[i] + 1]
Tiled(w, lo, hi, t) == \A k \in Nat : lo <= k /\ k < hi => w[k + 1] = t
Within(p, lo, hi) == \A i \in 1 .. Len(p) : p[i] # BreakIndex => lo <= p[i] /\ p[i] < hi /\ p[i] < BreakIndex

(* One sequence behind another.                                            *)
Behind(z, s, r) ==
  /\ z \in Seq(Nat) /\ Len(z) = Len(s) + Len(r) /\ Len(z) \in Nat
  /\ \A i \in 1 .. Len(s) : z[i] = s[i]
  /\ \A i \in 1 .. Len(z) : i > Len(s) => z[i] = r[i - Len(s)]

LEMMA BehindIs ==
  ASSUME NEW s \in Seq(Nat), NEW r \in Seq(Nat)
  PROVE  Behind(s \o r, s, r)
<1> DEFINE z == s \o r
<1>1. z \in Seq(Nat) /\ Len(z) = Len(s) + Len(r)
  BY ConcatProperties
<1>2. \A i \in 1 .. Len(s) + Len(r) : z[i] = IF i <= Len(s) THEN s[i] ELSE r[i - Len(s)]
  BY ConcatProperties
<1>3. Len(s) \in Nat /\ Len(r) \in Nat
  OBVIOUS
<1> HIDE DEF z
<1>4. Len(z) \in Nat
  BY <1>1, <1>3
<1>5. ASSUME NEW i \in 1 .. Len(s) PROVE z[i] = s[i]
  <2>1. i \in 1 .. Len(s) + Len(r) /\ i <= Len(s)
    BY <1>3
  <2> QED BY <1>2, <2>1
<1>6. ASSUME NEW i \in 1 .. Len(z), i > Len(s) PROVE z[i] = r[i - Len(s)]
  <2>1. i \in 1 .. Len(s) + Len(r) /\ ~ (i <= Len(s))
    BY <1>1, <1>3, <1>6
  <2> QED BY <1>2, <2>1
<1>7. Behind(z, s, r)
  BY <1>1, <1>4, <1>5, <1>6 DEF Behind
<1> QED BY <1>7 DEF z

LEMMA DrawnLonger ==
  ASSUME NEW x, NEW w, DrawnRight(x, w), NEW v \in Seq(Nat)
  PROVE  DrawnRight(x, w \o v)
<1> DEFINE z == w \o v
<1>1. /\ x \in Seq(Nat) /\ w \in Seq(Nat)
      /\ \A i \in 1 .. Len(x) : x[i] # BreakIndex => x[i] < Len(w) /\ x[i] < BreakIndex
      /\ \A i \in 2 .. Len(x) : x[i - 1] # BreakIndex /\ x[i] # BreakIndex => w[x[i - 1] + 1] = w[x[i] + 1]
  BY DEF DrawnRight
<1>2. z \in Seq(Nat) /\ Len(z) = Len(w) + Len(v) /\ \A i \in 1 .. Len(w) : z[i] = w[i]
  BY <1>1, ConcatProperties
<1>3. Len(w) \in Nat /\ Len(v) \in Nat /\ Len(x) \in Nat /\ \A i \in 1 .. Len(x) : x[i] \in Nat
  BY <1>1
<1> HIDE DEF z
<1>4. ASSUME NEW i \in 1 .. Len(x), x[i] # BreakIndex PROVE x[i] < Len(z) /\ x[i] < BreakIndex /\ z[x[i] + 1] = w[x[i] + 1]
  <2>1. x[i] \in Nat /\ x[i] < Len(w) /\ x[i] < BreakIndex
    BY <1>1, <1>3, <1>4
  <2>2. x[i] + 1 \in 1 .. Len(w)
    BY <1>3, <2>1
  <2> QED BY <1>2, <1>3, <2>1, <2>2
<1>5. ASSUME NEW i \in 2 .. Len(x), x[i - 1] # BreakIndex, x[i] # BreakIndex PROVE z[x[i - 1] + 1] = z[x[i] + 1]
  <2>1. i \in 1 .. Len(x) /\ i - 1 \in 1 .. Len(x)
    BY <1>3
  <2> QED BY <1>1, <1>4, <1>5, <2>1
<1>6. DrawnRight(x, z)
  BY <1>1, <1>2, <1>4, <1>5 DEF DrawnRight
<1> QED BY <1>6 DEF z

Fits(x, w, p, lo, hi, t) ==
  /\ DrawnRight(x, w) /\ Len(x) > 0 /\ p \in Seq(Nat) /\ lo \in Nat /\ hi \in Nat
  /\ hi <= Len(w) /\ Tiled(w, lo, hi, t) /\ Within(p, lo, hi)
  /\ (x[Len(x)] = BreakIndex \/ (lo <= x[Len(x)] /\ x[Len(x)] < hi))

LEMMA DrawnJoin ==
  ASSUME NEW x, NEW w, NEW p, NEW lo, NEW hi, NEW t, Fits(x, w, p, lo, hi, t)
  PROVE  DrawnRight(x \o p, w)
<1> DEFINE z == x \o p
           n == Len(x)
           q == Len(p)
<1>0. /\ DrawnRight(x, w) /\ Len(x) > 0 /\ p \in Seq(Nat) /\ lo \in Nat /\ hi \in Nat
      /\ hi <= Len(w) /\ Tiled(w, lo, hi, t) /\ Within(p, lo, hi)
      /\ (x[Len(x)] = BreakIndex \/ (lo <= x[Len(x)] /\ x[Len(x)] < hi))
  BY DEF Fits
<1>1. /\ x \in Seq(Nat) /\ w \in Seq(Nat)
      /\ \A i \in 1 .. n : x[i] # BreakIndex => x[i] < Len(w) /\ x[i] < BreakIndex
      /\ \A i \in 2 .. n : x[i - 1] # BreakIndex /\ x[i] # BreakIndex => w[x[i - 1] + 1] = w[x[i] + 1]
  BY <1>0 DEF DrawnRight
<1>d. Behind(z, x, p)
  BY <1>0, <1>1, BehindIs
<1> HIDE DEF z
<1>2. z \in Seq(Nat) /\ Len(z) = n + q /\ Len(z) \in Nat
  BY <1>d DEF Behind
<1>a. \A i \in 1 .. n : z[i] = x[i]
  BY <1>d DEF Behind
<1>3. \A i \in 1 .. Len(z) : i > n => z[i] = p[i - n]
  BY <1>d DEF Behind
<1>4. n \in Nat /\ n > 0 /\ q \in Nat /\ Len(w) \in Nat
  BY <1>0, <1>1
<1>5. \A i \in 1 .. Len(z) : z[i] \in Nat
  BY <1>2
<1>b. x[n] = BreakIndex \/ (lo <= x[n] /\ x[n] < hi)
  BY <1>0
<1> HIDE DEF n, q
<1>6. ASSUME NEW i \in 1 .. Len(z), i > n, z[i] # BreakIndex
      PROVE  lo <= z[i] /\ z[i] < hi /\ z[i] < BreakIndex /\ w[z[i] + 1] = t
  <2>1. i - n \in 1 .. q
    BY <1>2, <1>4, <1>6
  <2>3. z[i] = p[i - n]
    BY <1>3, <1>6
  <2>2. lo <= z[i] /\ z[i] < hi /\ z[i] < BreakIndex
    BY <1>0, <1>6, <2>1, <2>3 DEF Within, q
  <2> QED BY <1>0, <1>5, <2>2 DEF Tiled
<1>7. ASSUME NEW i \in 1 .. Len(z), z[i] # BreakIndex PROVE z[i] < Len(w) /\ z[i] < BreakIndex
  <2>1. CASE i > n
    BY <1>0, <1>4, <1>5, <1>6, <1>7, <2>1
  <2>2. CASE ~ (i > n)
    <3>1. i \in 1 .. n
      BY <1>4, <2>2
    <3> QED BY <1>1, <1>a, <1>7, <3>1 DEF n
  <2> QED BY <2>1, <2>2
<1>8. ASSUME NEW i \in 2 .. Len(z), z[i - 1] # BreakIndex, z[i] # BreakIndex PROVE w[z[i - 1] + 1] = w[z[i] + 1]
  <2>0. i \in 1 .. Len(z) /\ i - 1 \in 1 .. Len(z)
    BY <1>2, <1>4
  <2>1. CASE i - 1 > n
    <3>1. i > n
      BY <1>4, <2>1
    <3> QED BY <1>6, <1>8, <2>0, <2>1, <3>1
  <2>2. CASE i - 1 = n
    <3>1. z[n] = x[n]
      BY <1>a, <1>4
    <3>2. lo <= z[n] /\ z[n] < hi /\ z[n] \in Nat
      BY <1>5, <1>8, <1>b, <2>0, <2>2, <3>1
    <3>3. w[z[n] + 1] = t
      BY <1>0, <3>2 DEF Tiled
    <3>4. i > n
      BY <1>4, <2>2
    <3>5. w[z[i] + 1] = t
      BY <1>6, <1>8, <2>0, <3>4
    <3> QED BY <2>2, <3>3, <3>5
  <2>3. CASE i <= n
    <3>1. i \in 2 .. n /\ i \in 1 .. n /\ i - 1 \in 1 .. n
      BY <1>4, <2>3
    <3> QED BY <1>1, <1>a, <1>8, <3>1 DEF n
  <2> QED BY <1>4, <2>1, <2>2, <2>3
<1>9. DrawnRight(z, w)
  BY <1>1, <1>2, <1>7, <1>8 DEF DrawnRight
<1> QED BY <1>9 DEF z

(* The next shape goes behind the last vertex, or there is no room for one *)
(* and all the vertices that are left have one item.                       *)
Open(x, w) == MaximumIndex(x) + 1 = Len(w) /\ x[Len(x)] = BreakIndex
Full(x, w) ==
  /\ Len(w) >= BreakIndex
  /\ \E s, t \in Nat : /\ s <= MaximumIndex(x) + 1 /\ Tiled(w, s, BreakIndex, t)
                       /\ (x[Len(x)] = BreakIndex \/ s <= x[Len(x)])
Strong(x, w) ==
  /\ DrawnRight(x, w) /\ Len(x) > 0 /\ \E i \in 1 .. Len(x) : x[i] # BreakIndex
  /\ (Open(x, w) \/ Full(x, w))

(* The indices of a shape of n vertices.                                   *)
Outline(y, n) ==
  /\ y \in Seq(Nat) /\ n \in Nat \ {0} /\ n <= BreakIndex
  /\ Len(y) > 0 /\ y[Len(y)] = BreakIndex
  /\ \A i \in 1 .. Len(y) : y[i] = BreakIndex \/ y[i] < n
  /\ \E i \in 1 .. Len(y) : y[i] = n - 1

LEMMA StrongStep ==
  ASSUME NEW x, NEW w, Strong(x, w), NEW y, NEW n, Outline(y, n), NEW t \in Nat,
         NEW p, Moved(p, y, MaximumIndex(x) + 1)
  PROVE  Strong(x \o p, w \o Times(n, t))
<1> USE MeshesAssumption
<1> DEFINE g == MaximumIndex(x)
           v == Times(n, t)
           z == x \o p
           ww == w \o v
           h == MaximumIndex(z)
<1>1. /\ DrawnRight(x, w) /\ Len(x) > 0 /\ x \in Seq(Nat) /\ w \in Seq(Nat)
      /\ Len(x) \in Nat /\ Len(w) \in Nat /\ DOMAIN x = 1 .. Len(x) /\ \A i \in 1 .. Len(x) : x[i] \in Nat
  BY DEF Strong, DrawnRight
<1>2. PICK j \in 1 .. Len(x) : x[j] # BreakIndex
  BY DEF Strong
<1>3. g \in Nat /\ g < Len(w) /\ IsGreatest(g, x)
  <2>1. \A i \in DOMAIN x : x[i] # BreakIndex => x[i] < Len(w)
    BY <1>1 DEF DrawnRight
  <2> QED BY <1>1, <1>2, <2>1, MaximumOf
<1>4. n \in Nat /\ n > 0 /\ n <= BreakIndex /\ y \in Seq(Nat) /\ Len(y) \in Nat /\ DOMAIN y = 1 .. Len(y)
  BY DEF Outline
<1>5. v \in Seq(Nat) /\ Len(v) = n /\ \A i \in 1 .. n : v[i] = t
  BY <1>4 DEF Times
<1> HIDE DEF v
<1>6. /\ ww \in Seq(Nat) /\ Len(ww) = Len(w) + n /\ \A i \in 1 .. Len(w) : ww[i] = w[i]
      /\ \A i \in 1 .. Len(ww) : i > Len(w) => ww[i] = v[i - Len(w)]
  BY <1>1, <1>5, BehindIs DEF Behind
<1>7. DrawnRight(x, ww)
  BY <1>1, <1>5, DrawnLonger
<1> HIDE DEF ww, g, h
<1>8. Tiled(ww, Len(w), Len(ww), t)
  <2> SUFFICES ASSUME NEW k \in Nat, Len(w) <= k, k < Len(ww) PROVE ww[k + 1] = t
    BY DEF Tiled
  <2>1. k + 1 \in 1 .. Len(ww) /\ k + 1 > Len(w) /\ (k + 1) - Len(w) \in 1 .. n
    BY <1>1, <1>4, <1>6
  <2> QED BY <1>5, <1>6, <2>1
<1>9. p \in Seq(Nat) /\ Len(p) \in Nat /\ Len(p) <= Len(y)
  BY DEF Moved
<1>d. Behind(z, x, p)
  BY <1>1, <1>9, BehindIs
<1> HIDE DEF z
<1>10. z \in Seq(Nat) /\ Len(z) = Len(x) + Len(p) /\ Len(z) \in Nat
  BY <1>d DEF Behind
<1>a. \A i \in 1 .. Len(x) : z[i] = x[i]
  BY <1>d DEF Behind
<1>b. \A i \in 1 .. Len(z) : i > Len(x) => z[i] = p[i - Len(x)]
  BY <1>d DEF Behind
<1>l. Len(x) \in Nat /\ Len(x) > 0 /\ Len(w) \in Nat /\ Len(p) \in Nat /\ Len(y) \in Nat
  BY <1>1, <1>4, <1>9
<1>11. ASSUME NEW i \in 1 .. Len(p)
       PROVE  i \in 1 .. Len(y) /\ y[i] \in Nat
              /\ \/ y[i] = BreakIndex /\ p[i] = BreakIndex
                 \/ y[i] # BreakIndex /\ y[i] < n /\ p[i] = y[i] + (g + 1) /\ p[i] < BreakIndex
  <2>1. i \in 1 .. Len(y)
    BY <1>4, <1>9
  <2> QED BY <1>4, <2>1, SMTT(20) DEF Moved, Outline, g
<1>12. DOMAIN z = 1 .. Len(z) /\ j \in 1 .. Len(z) /\ z[j] # BreakIndex
  BY <1>2, <1>10, <1>a, <1>l
<1>13. ASSUME DrawnRight(z, ww) PROVE h \in Nat /\ IsGreatest(h, z) /\ g <= h
  <2>1. \A i \in DOMAIN z : z[i] # BreakIndex => z[i] < Len(ww)
    BY <1>12, <1>13 DEF DrawnRight
  <2>2. h \in Nat /\ IsGreatest(h, z)
    <3>1. Len(ww) \in Nat
      BY <1>6
    <3>2. z \in Seq(Nat) /\ j \in DOMAIN z /\ z[j] # BreakIndex
      BY <1>10, <1>12
    <3> QED BY <2>1, <3>1, <3>2, MaximumOf DEF h
  <2>3. PICK i \in 1 .. Len(x) : x[i] = g /\ g # BreakIndex
    BY <1>1, <1>3 DEF IsGreatest, Used
  <2>4. i \in DOMAIN z /\ z[i] = g
    BY <1>10, <1>12, <1>a, <1>l, <2>3
  <2> QED BY <2>2, <2>3, <2>4 DEF IsGreatest, Used
<1>14. ASSUME DrawnRight(z, ww), Open(z, ww) \/ Full(z, ww) PROVE Strong(z, ww)
  <2>1. Len(z) > 0
    BY <1>12
  <2> QED BY <1>12, <1>14, <2>1 DEF Strong
<1>15. Len(z) = Len(x) \/ (Len(p) > 0 /\ z[Len(z)] = p[Len(p)])
  <2>1. CASE Len(p) = 0
    BY <1>10, <1>l, <2>1
  <2>2. CASE Len(p) # 0
    <3>1. Len(p) > 0 /\ Len(z) \in 1 .. Len(z) /\ Len(z) > Len(x) /\ Len(z) - Len(x) = Len(p)
      BY <1>10, <1>l, <2>2
    <3>2. z[Len(z)] = p[Len(z) - Len(x)]
      BY <1>b, <3>1
    <3> QED BY <3>1, <3>2
  <2> QED BY <2>1, <2>2
<1>16. CASE Open(x, w)
  <2>1. g + 1 = Len(w) /\ x[Len(x)] = BreakIndex
    BY <1>16 DEF Open, g
  <2>2. Within(p, Len(w), Len(ww))
    <3>1. Len(ww) = Len(w) + n
      BY <1>6
    <3>2. ASSUME NEW i \in 1 .. Len(p), p[i] # BreakIndex PROVE Len(w) <= p[i] /\ p[i] < Len(ww) /\ p[i] < BreakIndex
      <4>1. y[i] \in Nat /\ y[i] < n /\ p[i] = y[i] + (g + 1) /\ p[i] < BreakIndex
        BY <1>11, <3>2
      <4> QED BY <1>4, <1>l, <2>1, <3>1, <4>1
    <3> QED BY <3>2 DEF Within
  <2>3. DrawnRight(z, ww)
    <3>1. Fits(x, ww, p, Len(w), Len(ww), t)
      BY <1>1, <1>4, <1>6, <1>7, <1>8, <1>9, <2>1, <2>2 DEF Fits
    <3> QED BY <3>1, DrawnJoin DEF z
  <2>4. CASE Len(p) = Len(y)
    <3>1. PICK i \in 1 .. Len(y) : y[i] = n - 1
      BY DEF Outline
    <3> DEFINE top == (n - 1) + Len(w)
    <3>2. top \in Nat /\ top + 1 = Len(ww) /\ n - 1 # BreakIndex
      BY <1>1, <1>4, <1>6
    <3>3. p[i] = top /\ p[i] < BreakIndex
      BY <1>1, <1>4, <1>11, <2>1, <2>4, <3>1, <3>2
    <3>4. Len(x) + i \in 1 .. Len(z) /\ z[Len(x) + i] = top
      <4>1. Len(x) + i \in 1 .. Len(z) /\ Len(x) + i > Len(x) /\ (Len(x) + i) - Len(x) = i
        BY <1>10, <1>l, <2>4
      <4>2. z[Len(x) + i] = p[i]
        BY <1>b, <4>1
      <4> QED BY <3>3, <4>1, <4>2
    <3> HIDE DEF top
    <3>5. \A k \in 1 .. Len(z) : z[k] # BreakIndex => z[k] <= top
      <4> SUFFICES ASSUME NEW k \in 1 .. Len(z), z[k] # BreakIndex PROVE z[k] <= top
        OBVIOUS
      <4>1. z[k] < Len(ww) /\ z[k] \in Nat
        BY <1>10, <2>3 DEF DrawnRight
      <4> QED BY <3>2, <4>1
    <3>6. IsGreatest(top, z)
      BY <1>12, <3>2, <3>3, <3>4, <3>5 DEF IsGreatest, Used
    <3>7. h = top
      BY <1>10, <3>2, <3>6, MaximumIs DEF h
    <3>8. z[Len(z)] = BreakIndex
      <4>1. Len(p) > 0 /\ Len(p) \in 1 .. Len(p) /\ y[Len(p)] = BreakIndex
        BY <2>4, <1>4 DEF Outline
      <4>2. p[Len(p)] = BreakIndex
        BY <1>11, <4>1
      <4>3. Len(z) # Len(x)
        BY <1>10, <1>l, <4>1
      <4> QED BY <1>15, <4>2, <4>3
    <3>9. Open(z, ww)
      BY <3>2, <3>7, <3>8 DEF Open, h
    <3> QED BY <1>14, <2>3, <3>9 DEF z, ww, v
  <2>5. CASE Len(p) # Len(y)
    <3>1. PICK i \in 1 .. Len(y) : y[i] # BreakIndex /\ y[i] + (g + 1) >= BreakIndex
      BY <1>4, <2>5 DEF Moved, TooGreat, g
    <3>2. y[i] < n /\ y[i] \in Nat
      BY <1>4, <3>1 DEF Outline
    <3>3. Len(ww) >= BreakIndex
      BY <1>1, <1>4, <1>6, <2>1, <3>1, <3>2
    <3>4. Len(w) <= h + 1
      BY <1>1, <1>3, <1>13, <2>1, <2>3
    <3>5. Tiled(ww, Len(w), BreakIndex, t)
      <4> SUFFICES ASSUME NEW k \in Nat, Len(w) <= k, k < BreakIndex PROVE ww[k + 1] = t
        BY DEF Tiled
      <4>1. k < Len(ww)
        BY <1>6, <3>3
      <4> QED BY <1>8, <4>1 DEF Tiled
    <3>6. z[Len(z)] = BreakIndex \/ Len(w) <= z[Len(z)]
      <4>1. CASE Len(z) = Len(x)
        <5>1. Len(x) \in 1 .. Len(x)
          BY <1>l
        <5>2. z[Len(x)] = x[Len(x)]
          BY <1>a, <5>1
        <5> QED BY <2>1, <4>1, <5>2
      <4>2. CASE Len(p) > 0 /\ z[Len(z)] = p[Len(p)]
        <5>1. Len(p) \in 1 .. Len(p)
          BY <1>l, <4>2
        <5> QED BY <2>2, <4>2, <5>1 DEF Within
      <4> QED BY <1>15, <4>1, <4>2
    <3>7. Full(z, ww)
      BY <1>1, <3>3, <3>4, <3>5, <3>6 DEF Full, h
    <3> QED BY <1>14, <2>3, <3>7 DEF z, ww, v
  <2> QED BY <2>4, <2>5
<1>17. CASE Full(x, w)
  <2>1. PICK s \in Nat, c \in Nat : /\ s <= g + 1 /\ Tiled(w, s, BreakIndex, c)
                                  /\ (x[Len(x)] = BreakIndex \/ s <= x[Len(x)])
    BY <1>17 DEF Full, g
  <2>2. Len(w) >= BreakIndex /\ Len(ww) >= BreakIndex
    BY <1>17, <1>1, <1>4, <1>6 DEF Full
  <2>3. Tiled(ww, s, BreakIndex, c)
    <3> SUFFICES ASSUME NEW k \in Nat, s <= k, k < BreakIndex PROVE ww[k + 1] = c
      BY DEF Tiled
    <3>1. k + 1 \in 1 .. Len(w)
      BY <1>1, <2>2
    <3> QED BY <1>6, <2>1, <3>1 DEF Tiled
  <2>4. Within(p, s, BreakIndex)
    BY <1>3, <1>11, <2>1 DEF Within
  <2>5. x[Len(x)] = BreakIndex \/ (s <= x[Len(x)] /\ x[Len(x)] < BreakIndex)
    <3>1. Len(x) \in 1 .. Len(x)
      BY <1>1
    <3> QED BY <1>1, <2>1, <3>1 DEF DrawnRight
  <2>6. DrawnRight(z, ww)
    <3>1. Fits(x, ww, p, s, BreakIndex, c)
      BY <1>1, <1>7, <1>9, <2>2, <2>3, <2>4, <2>5 DEF Fits
    <3> QED BY <3>1, DrawnJoin DEF z
  <2>7. s <= h + 1
    BY <1>3, <1>13, <2>1, <2>6
  <2>8. z[Len(z)] = BreakIndex \/ s <= z[Len(z)]
    <3>1. CASE Len(z) = Len(x)
      <4>1. Len(x) \in 1 .. Len(x)
        BY <1>l
      <4>2. z[Len(x)] = x[Len(x)]
        BY <1>a, <4>1
      <4> QED BY <2>5, <3>1, <4>2
    <3>2. CASE Len(p) > 0 /\ z[Len(z)] = p[Len(p)]
      <4>1. Len(p) \in 1 .. Len(p)
        BY <1>l, <3>2
      <4> QED BY <2>4, <3>2, <4>1 DEF Within
    <3> QED BY <1>15, <3>1, <3>2
  <2>9. Full(z, ww)
    BY <2>2, <2>3, <2>7, <2>8 DEF Full, h
  <2> QED BY <1>14, <2>6, <2>9 DEF z, ww, v
<1> QED BY <1>16, <1>17 DEF Strong

(* A mesh of one shape.                                                    *)
IsShape(m, n, t) == Regular(m) /\ t \in Nat /\ m.buffers[1] = Times(n, t) /\ Outline(m.indecies, n)

LEMMA TimesIs ==
  ASSUME NEW n \in Nat, NEW t \in Nat
  PROVE  Times(n, t) \in Seq(Nat) /\ Len(Times(n, t)) = n /\ \A i \in 1 .. n : Times(n, t)[i] = t
BY DEF Times

LEMMA OutlineStrong ==
  ASSUME NEW y, NEW n, Outline(y, n), NEW t \in Nat
  PROVE  Strong(y, Times(n, t)) /\ MaximumIndex(y) = n - 1
<1> USE MeshesAssumption
<1> DEFINE w == Times(n, t)
<1>1. /\ y \in Seq(Nat) /\ n \in Nat /\ n > 0 /\ n <= BreakIndex /\ Len(y) > 0 /\ y[Len(y)] = BreakIndex
      /\ Len(y) \in Nat /\ DOMAIN y = 1 .. Len(y)
      /\ \A i \in 1 .. Len(y) : y[i] = BreakIndex \/ y[i] < n
  BY DEF Outline
<1>2. w \in Seq(Nat) /\ Len(w) = n /\ \A i \in 1 .. n : w[i] = t
  BY <1>1, TimesIs
<1> HIDE DEF w
<1>3. PICK j \in 1 .. Len(y) : y[j] = n - 1
  BY DEF Outline
<1>4. n - 1 \in Nat /\ n - 1 # BreakIndex
  BY <1>1
<1>5. ASSUME NEW i \in 1 .. Len(y), y[i] # BreakIndex PROVE y[i] \in Nat /\ y[i] < n /\ y[i] < BreakIndex /\ w[y[i] + 1] = t
  <2>1. y[i] \in Nat /\ y[i] < n
    BY <1>1, <1>5
  <2>2. y[i] + 1 \in 1 .. n
    BY <1>1, <2>1
  <2> QED BY <1>1, <1>2, <2>1, <2>2
<1>6. DrawnRight(y, w)
  <2>1. \A i \in 1 .. Len(y) : y[i] # BreakIndex => y[i] < Len(w) /\ y[i] < BreakIndex
    BY <1>2, <1>5
  <2>2. ASSUME NEW i \in 2 .. Len(y), y[i - 1] # BreakIndex, y[i] # BreakIndex PROVE w[y[i - 1] + 1] = w[y[i] + 1]
    <3>1. i \in 1 .. Len(y) /\ i - 1 \in 1 .. Len(y)
      BY <1>1
    <3> QED BY <1>5, <2>2, <3>1
  <2> QED BY <1>1, <1>2, <2>1, <2>2 DEF DrawnRight
<1>7. IsGreatest(n - 1, y)
  <2>1. n - 1 \in Used(y)
    BY <1>1, <1>3, <1>4 DEF Used
  <2>2. ASSUME NEW k \in Used(y) PROVE k <= n - 1
    <3>1. PICK i \in 1 .. Len(y) : k = y[i] /\ y[i] # BreakIndex
      BY <1>1 DEF Used
    <3>2. y[i] \in Nat /\ y[i] < n
      BY <1>5, <3>1
    <3> QED BY <1>1, <3>1, <3>2
  <2> QED BY <2>1, <2>2 DEF IsGreatest
<1>8. MaximumIndex(y) = n - 1
  BY <1>1, <1>4, <1>7, MaximumIs
<1>9. Open(y, w)
  BY <1>1, <1>2, <1>8 DEF Open
<1>10. Strong(y, w)
  BY <1>1, <1>3, <1>4, <1>6, <1>9 DEF Strong
<1> QED BY <1>8, <1>10 DEF w

(* n strips make a shape.                                                  *)
IsStrip(strip, vertices) ==
  /\ strip \in Seq(Nat) /\ vertices \in Nat \ {0} /\ Len(strip) > 0
  /\ \A i \in 1 .. Len(strip) : strip[i] < vertices
  /\ \E i \in 1 .. Len(strip) : strip[i] = vertices - 1

Indexed(y, n) ==
  /\ y \in Seq(Nat)
  /\ \A i \in 1 .. Len(y) : y[i] = BreakIndex \/ y[i] < n
  /\ n > 0 => Len(y) > 0 /\ y[Len(y)] = BreakIndex /\ \E i \in 1 .. Len(y) : y[i] = n - 1

LEMMA OneMoreStrip ==
  ASSUME NEW strip, NEW vertices, IsStrip(strip, vertices), NEW n \in Nat, NEW y, Indexed(y, n),
         NEW b, b = [i \in 1 .. Len(strip) |-> n + strip[i]] \o <<BreakIndex>>
  PROVE  b \in Seq(Nat) /\ Indexed(y \o b, n + vertices)
<1> USE MeshesAssumption
<1> DEFINE s == [i \in 1 .. Len(strip) |-> n + strip[i]]
           q == Len(strip)
           z == y \o b
           top == n + vertices
<1>1. /\ strip \in Seq(Nat) /\ vertices \in Nat /\ vertices > 0 /\ q > 0 /\ q \in Nat
      /\ \A i \in 1 .. q : strip[i] < vertices /\ strip[i] \in Nat
  BY DEF IsStrip
<1>2. PICK j \in 1 .. q : strip[j] = vertices - 1
  BY DEF IsStrip
<1> HIDE DEF q
<1>3. s \in Seq(Nat) /\ Len(s) = q /\ \A i \in 1 .. q : s[i] = n + strip[i]
  <2>1. \A i \in 1 .. q : n + strip[i] \in Nat
    BY <1>1
  <2>2. s = [i \in 1 .. q |-> n + strip[i]]
    BY DEF q
  <2> HIDE DEF s
  <2> QED BY <1>1, <2>1, <2>2
<1>4. b = Append(s, BreakIndex)
  <2> HIDE DEF s
  <2> QED BY <1>3, AppendIsConcat DEF s
<1> HIDE DEF s
<1>5. b \in Seq(Nat) /\ Len(b) = q + 1 /\ b[q + 1] = BreakIndex /\ \A i \in 1 .. q : b[i] = s[i]
  BY <1>3, <1>4, AppendProperties
<1>6. y \in Seq(Nat) /\ Len(y) \in Nat /\ \A i \in 1 .. Len(y) : y[i] \in Nat /\ (y[i] = BreakIndex \/ y[i] < n)
  BY DEF Indexed
<1>7. Behind(z, y, b)
  BY <1>5, <1>6, BehindIs
<1> HIDE DEF z
<1>8. z \in Seq(Nat) /\ Len(z) = Len(y) + (q + 1) /\ Len(z) \in Nat
  BY <1>5, <1>7 DEF Behind
<1>9. \A i \in 1 .. Len(y) : z[i] = y[i]
  BY <1>7 DEF Behind
<1>10. \A i \in 1 .. Len(z) : i > Len(y) => z[i] = b[i - Len(y)]
  BY <1>7 DEF Behind
<1>11. top \in Nat /\ top > 0
  BY <1>1
<1>12. ASSUME NEW i \in 1 .. Len(z) PROVE z[i] = BreakIndex \/ z[i] < top
  <2>1. CASE i <= Len(y)
    <3>1. i \in 1 .. Len(y)
      BY <1>6, <2>1
    <3>2. z[i] = y[i] /\ y[i] \in Nat /\ (y[i] = BreakIndex \/ y[i] < n)
      BY <1>6, <1>9, <3>1
    <3>3. n <= top
      BY <1>1
    <3> HIDE DEF top
    <3> QED BY <1>11, <3>2, <3>3
  <2>2. CASE i > Len(y)
    <3>1. i - Len(y) \in 1 .. q + 1
      BY <1>1, <1>6, <1>8, <2>2
    <3>2. PICK k \in 1 .. q + 1 : k = i - Len(y)
      BY <3>1
    <3>3. z[i] = b[k]
      BY <1>10, <2>2, <3>2
    <3>4. CASE k = q + 1
      BY <1>5, <3>3, <3>4
    <3>5. CASE k # q + 1
      <4>1. k \in 1 .. q
        BY <1>1, <3>5
      <4>2. z[i] = n + strip[k] /\ strip[k] \in Nat /\ strip[k] < vertices
        BY <1>1, <1>3, <1>5, <3>3, <4>1
      <4> QED BY <1>1, <4>2
    <3> QED BY <3>4, <3>5
  <2> QED BY <1>6, <2>1, <2>2
<1>13. Len(z) > 0 /\ z[Len(z)] = BreakIndex
  <2>1. Len(z) \in 1 .. Len(z) /\ Len(z) > Len(y) /\ Len(z) - Len(y) = q + 1
    BY <1>1, <1>6, <1>8
  <2>2. z[Len(z)] = b[Len(z) - Len(y)]
    BY <1>10, <2>1
  <2> QED BY <1>5, <2>1, <2>2
<1>14. \E i \in 1 .. Len(z) : z[i] = top - 1
  <2>1. Len(y) + j \in 1 .. Len(z) /\ Len(y) + j > Len(y) /\ (Len(y) + j) - Len(y) = j
    BY <1>1, <1>6, <1>8
  <2>2. z[Len(y) + j] = b[j]
    BY <1>10, <2>1
  <2>3. b[j] = top - 1
    <3>1. b[j] = n + strip[j]
      BY <1>3, <1>5
    <3>2. n + (vertices - 1) = top - 1
      BY <1>1
    <3> QED BY <1>2, <3>1, <3>2
  <2> QED BY <2>1, <2>2, <2>3
<1> HIDE DEF top
<1>15. Indexed(z, top)
  BY <1>8, <1>12, <1>13, <1>14 DEF Indexed
<1> QED BY <1>5, <1>15 DEF z, top

LEMMA StripIsIndexed ==
  ASSUME NEW strip \in Seq(Nat), NEW o \in Nat
  PROVE  [i \in 1 .. Len(strip) |-> o + strip[i]] \o <<BreakIndex>> \in Seq(Nat)
<1> DEFINE s == [i \in 1 .. Len(strip) |-> o + strip[i]]
<1>1. \A i \in 1 .. Len(strip) : o + strip[i] \in Nat
  OBVIOUS
<1>2. s \in Seq(Nat)
  BY <1>1
<1>3. <<BreakIndex>> \in Seq(Nat)
  BY MeshesAssumption
<1> HIDE DEF s
<1> QED BY <1>2, <1>3, ConcatProperties DEF s

LEMMA StripsAreIndexed ==
  ASSUME NEW n \in Nat, NEW vertices, NEW strip, IsStrip(strip, vertices)
  PROVE  Indexed(FlattenSeq([k \in 1 .. n |-> [i \in 1 .. Len(strip) |-> (k - 1) * vertices + strip[i]] \o <<BreakIndex>>]),
                 n * vertices)
<1> DEFINE Block(o) == [i \in 1 .. Len(strip) |-> o + strip[i]] \o <<BreakIndex>>
           N(m) == m * vertices
           blocks == [k \in 1 .. n |-> Block((k - 1) * vertices)]
           Upto(m) == SubSeq(blocks, 1, m)
           T == {m \in Nat : m <= n => Indexed(FlattenSeq(Upto(m)), N(m))}
<1>1. vertices \in Nat /\ strip \in Seq(Nat)
  BY DEF IsStrip
<1>2. \A m \in Nat : N(m) \in Nat /\ N(m + 1) = N(m) + vertices
  BY <1>1
<1>3. N(0) = 0
  BY <1>1
<1>4. \A o \in Nat : Block(o) \in Seq(Nat)
  BY <1>1, StripIsIndexed
<1>5. \A k \in 1 .. n : blocks[k] = Block(N(k - 1)) /\ N(k - 1) \in Nat
  <2>1. \A k \in 1 .. n : k - 1 \in Nat
    OBVIOUS
  <2> QED BY <1>2, <2>1
<1>6. blocks = [k \in 1 .. n |-> blocks[k]]
  OBVIOUS
<1>7. ASSUME NEW o \in Nat, NEW y, Indexed(y, o) PROVE Indexed(y \o Block(o), o + vertices)
  BY <1>7, OneMoreStrip
<1> HIDE DEF Block, N, blocks
<1>8. blocks \in Seq(Seq(Nat)) /\ Len(blocks) = n
  <2>1. \A k \in 1 .. n : blocks[k] \in Seq(Nat)
    BY <1>4, <1>5
  <2> QED BY <1>6, <2>1
<1>9. \A m \in Nat : m < n => Upto(m) \in Seq(Seq(Nat)) /\ Upto(m + 1) = Append(Upto(m), blocks[m + 1])
  BY <1>8, Beginning
<1>10. Upto(0) = <<>> /\ Upto(n) = blocks
  BY <1>8, Beginning
<1> HIDE DEF Upto
<1>11. 0 \in T
  <2>1. FlattenSeq(Upto(0)) = <<>>
    <3>1. Len(<<>>) = 0 /\ <<>> \in Seq(Seq(Nat))
      OBVIOUS
    <3> QED BY <1>10, <3>1, FlattenUnfolds
  <2>2. Indexed(<<>>, 0)
    BY DEF Indexed
  <2> QED BY <1>3, <2>1, <2>2
<1>12. ASSUME NEW m \in Nat, m \in T PROVE m + 1 \in T
  <2> SUFFICES ASSUME m + 1 <= n PROVE Indexed(FlattenSeq(Upto(m + 1)), N(m + 1))
    OBVIOUS
  <2> DEFINE y == FlattenSeq(Upto(m))
             b == Block(N(m))
  <2>1. m < n /\ m <= n /\ m + 1 \in 1 .. n /\ (m + 1) - 1 = m
    OBVIOUS
  <2>2. Indexed(y, N(m)) /\ N(m) \in Nat /\ N(m + 1) = N(m) + vertices
    BY <1>2, <1>12, <2>1
  <2>3. blocks[m + 1] = b
    BY <1>5, <2>1
  <2>4. b \in Seq(Nat) /\ Upto(m) \in Seq(Seq(Nat)) /\ Upto(m + 1) = Append(Upto(m), b)
    BY <1>4, <1>9, <2>1, <2>2, <2>3
  <2>5. FlattenSeq(Upto(m + 1)) = y \o b
    BY <2>4, FlattenAppend
  <2>6. Indexed(y \o b, N(m) + vertices)
    BY <1>7, <2>2
  <2> QED BY <2>2, <2>5, <2>6
<1> HIDE DEF T
<1>13. n \in T
  BY <1>11, <1>12, AllNumbers
<1>14. Indexed(FlattenSeq(blocks), N(n))
  BY <1>10, <1>13 DEF T
<1> QED BY <1>14 DEF blocks, Block, N

LEMMA StripsAreShapes ==
  ASSUME NEW tag \in Nat, NEW n \in Nat \ {0}, NEW vertices, NEW strip, IsStrip(strip, vertices),
         NEW all, all = n * vertices, all <= BreakIndex, NEW m, m = Strips(tag, n, vertices, strip)
  PROVE  IsShape(m, all, tag) /\ m.kind = "made" /\ Len(m.buffers) = 2
<1> USE MeshesAssumption
<1> DEFINE y == FlattenSeq([k \in 1 .. n |->
                  [i \in 1 .. Len(strip) |-> (k - 1) * vertices + strip[i]] \o <<BreakIndex>>])
           w == Times(all, tag)
           b == Times(2, w)
           d == <<2, 2>>
           made == MeshOf(b, d, y, "strip", "made")
<1>1. vertices \in Nat /\ vertices > 0
  BY DEF IsStrip
<1>2. all \in Nat /\ all > 0
  BY <1>1
<1>3. Indexed(y, all)
  BY StripsAreIndexed
<1>4. m = made
  BY DEF Strips, MeshOf
<1> HIDE DEF y
<1>5. Outline(y, all)
  BY <1>2, <1>3 DEF Indexed, Outline
<1>6. w \in Seq(Nat)
  BY <1>2, TimesIs
<1> HIDE DEF w
<1>7. b \in Seq(Seq(Nat)) /\ Len(b) = 2 /\ \A i \in 1 .. 2 : b[i] = w
  BY <1>6 DEF Times
<1>8. d \in Seq(Nat) /\ Len(d) = 2 /\ DimsAre(d)
  BY DEF DimsAre
<1> HIDE DEF b, d
<1>9. Parts(b, d, y, "made", w)
  BY <1>5, <1>7, <1>8 DEF Parts, Outline, Kinds
<1>10. Makes(made, b, y, "made", w)
  BY <1>9, RegularMade
<1> HIDE DEF made
<1>11. IsShape(made, all, tag) /\ made.kind = "made" /\ made.buffers = b
  BY <1>5, <1>10 DEF Makes, IsShape, w
<1> QED BY <1>4, <1>7, <1>11

LEMMA LineIsShape ==
  ASSUME NEW tag \in Nat, NEW points \in {2, 3}
  PROVE  LET m == DefineLine(tag, points) IN
         IsShape(m, (points - 1) * 8, tag) /\ m.kind = "made" /\ Len(m.buffers) = 2
<1> DEFINE strip == <<0, 1, 2, 3, 4, 5, 6, 7>>
           m == DefineLine(tag, points)
<1>1. IsStrip(strip, 8)
  <2>1. strip \in Seq(Nat) /\ Len(strip) = 8 /\ strip[8] = 7
    OBVIOUS
  <2>2. \A i \in 1 .. 8 : strip[i] < 8
    OBVIOUS
  <2> HIDE DEF strip
  <2> QED BY <2>1, <2>2 DEF IsStrip
<1>2. m = Strips(tag, points - 1, 8, strip)
  BY DEF DefineLine
<1> HIDE DEF strip, m
<1>3. points - 1 \in Nat \ {0} /\ (points - 1) * 8 <= BreakIndex
  BY MeshesAssumption
<1>4. IsShape(m, (points - 1) * 8, tag) /\ m.kind = "made" /\ Len(m.buffers) = 2
  BY <1>1, <1>2, <1>3, StripsAreShapes
<1> QED BY <1>4 DEF m

LEMMA PointsAreShape ==
  ASSUME NEW tag \in Nat
  PROVE  IsShape(DefinePoints(tag, 2), 8, tag) /\ DefinePoints(tag, 2).kind = "made"
<1> DEFINE strip == <<0, 1, 3, 2>>
           m == DefinePoints(tag, 2)
<1>1. IsStrip(strip, 4)
  <2>1. strip \in Seq(Nat) /\ Len(strip) = 4 /\ strip[3] = 3
    OBVIOUS
  <2>2. \A i \in 1 .. 4 : strip[i] < 4
    OBVIOUS
  <2> HIDE DEF strip
  <2> QED BY <2>1, <2>2 DEF IsStrip
<1>2. m = Strips(tag, 2, 4, strip)
  BY DEF DefinePoints
<1> HIDE DEF strip, m
<1>3. 2 \in Nat \ {0} /\ 2 * 4 = 8 /\ 8 <= BreakIndex
  BY MeshesAssumption
<1>4. IsShape(m, 8, tag) /\ m.kind = "made"
  BY <1>1, <1>2, <1>3, StripsAreShapes
<1> QED BY <1>4 DEF m

LEMMA CircleIsShape ==
  ASSUME NEW tag \in Nat
  PROVE  IsShape(DefineCircle(tag, 3), 6, tag) /\ DefineCircle(tag, 3).kind = "made"
<1> DEFINE round == [i \in 1 .. 2 * 3 |-> i - 1]
           back == <<0, 1>>
           strip == round \o back
           m == DefineCircle(tag, 3)
<1>1. IsStrip(strip, 6)
  <2>1. round \in Seq(Nat) /\ Len(round) = 6 /\ round[6] = 5 /\ \A i \in 1 .. 6 : round[i] < 6
    <3>1. round = [i \in 1 .. 6 |-> i - 1]
      OBVIOUS
    <3>2. \A i \in 1 .. 6 : i - 1 \in Nat
      OBVIOUS
    <3> QED BY <3>1, <3>2
  <2>2. back \in Seq(Nat) /\ Len(back) = 2 /\ back[1] = 0 /\ back[2] = 1
    OBVIOUS
  <2> HIDE DEF round, back
  <2>3. Behind(strip, round, back)
    BY <2>1, <2>2, BehindIs
  <2> HIDE DEF strip
  <2>4. strip \in Seq(Nat) /\ Len(strip) = 8
    BY <2>1, <2>2, <2>3 DEF Behind
  <2>5. \A i \in 1 .. 6 : strip[i] = round[i]
    BY <2>1, <2>3 DEF Behind
  <2>6. strip[7] = 0 /\ strip[8] = 1
    <3>1. \A i \in 1 .. 8 : i > 6 => strip[i] = back[i - 6]
      BY <2>1, <2>3, <2>4 DEF Behind
    <3> QED BY <2>2, <3>1
  <2>7. \A i \in 1 .. 8 : strip[i] < 6
    <3> SUFFICES ASSUME NEW i \in 1 .. 8 PROVE strip[i] < 6
      OBVIOUS
    <3>1. i \in 1 .. 6 \/ i = 7 \/ i = 8
      OBVIOUS
    <3> QED BY <2>1, <2>5, <2>6, <3>1
  <2> QED BY <2>1, <2>4, <2>5, <2>7 DEF IsStrip
<1>2. m = Strips(tag, 1, 6, strip)
  <2>1. 2 * 3 = 6
    OBVIOUS
  <2> QED BY <2>1 DEF DefineCircle
<1> HIDE DEF strip, m
<1>3. 1 \in Nat \ {0} /\ 1 * 6 = 6 /\ 6 <= BreakIndex
  BY MeshesAssumption
<1>4. IsShape(m, 6, tag) /\ m.kind = "made"
  BY <1>1, <1>2, <1>3, StripsAreShapes
<1> QED BY <1>4 DEF m

OneMore(z, s, e) == Len(z) = Len(s) + 1 /\ z[Len(s) + 1] = e /\ \A i \in 1 .. Len(s) : z[i] = s[i]

LEMMA OneMoreIs ==
  ASSUME NEW S, NEW s \in Seq(S), NEW e \in S
  PROVE  Append(s, e) \in Seq(S) /\ OneMore(Append(s, e), s, e)
BY AppendProperties DEF OneMore

LEMMA ThirdAppended ==
  ASSUME NEW S, NEW s \in Seq(S), Len(s) = 2, NEW e \in S
  PROVE  /\ Append(s, e) \in Seq(S) /\ Len(Append(s, e)) = 3 /\ Append(s, e)[3] = e
         /\ \A i \in 1 .. 2 : Append(s, e)[i] = s[i]
<1> DEFINE z == Append(s, e)
<1>1. z \in Seq(S) /\ OneMore(z, s, e)
  BY OneMoreIs
<1>2. Len(s) + 1 = 3
  OBVIOUS
<1> HIDE DEF z
<1>3. z \in Seq(S) /\ Len(z) = 3 /\ z[3] = e /\ \A i \in 1 .. 2 : z[i] = s[i]
  BY <1>1, <1>2 DEF OneMore
<1> QED BY <1>3 DEF z

LEMMA WithLifeIsShape ==
  ASSUME NEW m, NEW n, NEW t, IsShape(m, n, t), Len(m.buffers) = 2
  PROVE  IsShape(WithLife(m), n, t) /\ WithLife(m).kind = m.kind
<1> DEFINE w == m.buffers[1]
           b0 == m.buffers
           d0 == m.dims
           b == Append(b0, w)
           d == Append(d0, 1)
           x == m.indecies
           k == m.kind
           next == MeshOf(b, d, x, "strip", k)
<1>1. /\ m.buffers \in Seq(Seq(Nat)) /\ m.dims \in Seq(Nat) /\ x \in Seq(Nat) /\ m.mode = "strip" /\ k \in Kinds
      /\ m = MeshOf(m.buffers, m.dims, x, "strip", k)
      /\ Len(m.dims) = 2 /\ DOMAIN m.dims = 1 .. 2 /\ w \in Seq(Nat) /\ DimsAre(m.dims) /\ \A i \in 1 .. 2 : m.buffers[i] = w
  <2>1. Regular(m)
    BY DEF IsShape
  <2> QED BY <2>1, RegularIs
<1>2. w = Times(n, t) /\ Outline(x, n) /\ t \in Nat
  BY DEF IsShape
<1>3. WithLife(m) = next
  <2>1. WithLife(m) = [m EXCEPT !.buffers = b, !.dims = d]
    BY DEF WithLife
  <2>2. m = MeshOf(b0, d0, x, "strip", k)
    BY <1>1
  <2> HIDE DEF b, d, b0, d0, x, k
  <2>3. [MeshOf(b0, d0, x, "strip", k) EXCEPT !.buffers = b, !.dims = d] = MeshOf(b, d, x, "strip", k)
    <3>1. [MeshOf(b0, d0, x, "strip", k) EXCEPT !.buffers = b] = MeshOf(b, d0, x, "strip", k)
      BY DEF MeshOf
    <3>2. [MeshOf(b, d0, x, "strip", k) EXCEPT !.dims = d] = MeshOf(b, d, x, "strip", k)
      BY DEF MeshOf
    <3> QED BY <3>1, <3>2
  <2> QED BY <2>1, <2>2, <2>3
<1>4. b \in Seq(Seq(Nat)) /\ Len(b) = 3 /\ \A i \in 1 .. 3 : b[i] = w
  <2>0. b0 \in Seq(Seq(Nat)) /\ Len(b0) = 2 /\ w \in Seq(Nat)
    BY <1>1
  <2> HIDE DEF w, b0
  <2>1. b \in Seq(Seq(Nat)) /\ Len(b) = 3 /\ b[3] = w /\ \A i \in 1 .. 2 : b[i] = b0[i]
    BY <2>0, ThirdAppended
  <2> HIDE DEF b
  <2>2. \A i \in 1 .. 3 : i \in 1 .. 2 \/ i = 3
    OBVIOUS
  <2> QED BY <1>1, <2>1, <2>2 DEF b0
<1>5. d \in Seq(Nat) /\ Len(d) = 3 /\ DimsAre(d)
  <2>0. d0 \in Seq(Nat) /\ Len(d0) = 2
    BY <1>1
  <2>2. 1 \in Nat
    OBVIOUS
  <2> HIDE DEF d0
  <2>1. d \in Seq(Nat) /\ Len(d) = 3 /\ d[3] = 1 /\ \A i \in 1 .. 2 : d[i] = d0[i]
    BY <2>0, <2>2, ThirdAppended
  <2> HIDE DEF d
  <2>3. DOMAIN d = 1 .. 3 /\ \A i \in 1 .. 3 : i \in 1 .. 2 \/ i = 3
    BY <2>1
  <2> QED BY <1>1, <2>1, <2>3 DEF DimsAre, d0
<1> HIDE DEF b, d, w, x, k
<1>6. Parts(b, d, x, k, w)
  BY <1>1, <1>4, <1>5 DEF Parts
<1>7. Makes(next, b, x, k, w)
  BY <1>6, RegularMade
<1> HIDE DEF next
<1>8. IsShape(next, n, t) /\ next.kind = k
  BY <1>2, <1>7 DEF Makes, IsShape
<1> QED BY <1>3, <1>8 DEF k

LEMMA LoadedIsShape ==
  ASSUME NEW m, NEW n, NEW t, IsShape(m, n, t)
  PROVE  IsShape(LoadMesh(SaveMesh(m)), n, t)
<1> DEFINE b == m.buffers
           d == m.dims
           x == m.indecies
           w == b[1]
           next == MeshOf(b, d, x, "strip", "loaded")
<1>1. Regular(m) /\ w = Times(n, t) /\ Outline(x, n) /\ t \in Nat
  BY DEF IsShape
<1>2. /\ b \in Seq(Seq(Nat)) /\ d \in Seq(Nat) /\ x \in Seq(Nat) /\ m.mode = "strip"
      /\ Len(b) \in Nat \ {0} /\ Len(d) = Len(b) /\ DimsAre(d) /\ \A i \in 1 .. Len(b) : b[i] = w
  BY <1>1, RegularIs
<1>3. LoadMesh(SaveMesh(m)) = next
  <2>1. m \in AllMeshes /\ Len(m.dims) = Len(m.buffers)
    BY <1>1 DEF Regular
  <2>2. LoadMesh(SaveMesh(m)) = MeshOf(b, d, x, m.mode, "loaded")
    BY <2>1, SavedMeshIsLoaded
  <2> QED BY <1>2, <2>2
<1> HIDE DEF b, d, x, w
<1>4. Parts(b, d, x, "loaded", w)
  BY <1>2 DEF Parts, Kinds
<1>5. Makes(next, b, x, "loaded", w)
  BY <1>4, RegularMade
<1> HIDE DEF next
<1>6. IsShape(next, n, t)
  BY <1>1, <1>5 DEF Makes, IsShape
<1> QED BY <1>3, <1>6

Good(m) == Regular(m) /\ (m.kind = "made" => Strong(m.indecies, m.buffers[1]))

LEMMA ShapeIsGood ==
  ASSUME NEW m, NEW n, NEW t, IsShape(m, n, t)
  PROVE  Good(m)
BY OutlineStrong DEF IsShape, Good

LEMMA NewIndeciesAre ==
  ASSUME NEW to, NEW from, Good(to), NEW n, NEW t, IsShape(from, n, t)
  PROVE  /\ NewIndecies(to, from) \in Seq(Nat)
         /\ to.kind = "made" => Strong(NewIndecies(to, from), to.buffers[1] \o from.buffers[1])
<1> USE MeshesAssumption
<1> DEFINE x == to.indecies
           y == from.indecies
           w == to.buffers[1]
           z == NewIndecies(to, from)
<1>1. x \in Seq(Nat) /\ w \in Seq(Nat)
  BY RegularIs DEF Good
<1>2. y \in Seq(Nat) /\ Outline(y, n) /\ t \in Nat /\ from.buffers[1] = Times(n, t)
  BY DEF IsShape, Outline
<1>3. CASE to.kind = "made"
  <2> DEFINE o == MaximumIndex(x) + 1
  <2>1. Strong(x, w)
    BY <1>3 DEF Good
  <2>2. z = AppendIndecies(x, y, o)
    BY <1>3 DEF NewIndecies
  <2> HIDE DEF x, y, w, z
  <2>3. o \in Nat
    <3>1. PICK j \in DOMAIN x : x[j] # BreakIndex
      BY <1>1, <2>1 DEF Strong
    <3>2. \A i \in DOMAIN x : x[i] # BreakIndex => x[i] < Len(w)
      BY <1>1, <2>1 DEF Strong, DrawnRight
    <3>3. MaximumIndex(x) \in Nat
      BY <1>1, <3>1, <3>2, MaximumOf
    <3> QED BY <3>3
  <2> HIDE DEF o
  <2>7. PICK p : Moved(p, y, o) /\ AppendIndecies(x, y, o) = x \o p
    BY <1>1, <1>2, <2>3, AppendIndeciesIs
  <2>4. Moved(p, y, o) /\ z = x \o p
    BY <2>2, <2>7
  <2>8. Moved(p, y, MaximumIndex(x) + 1)
    BY <2>4 DEF o
  <2>9. Strong(x \o p, w \o Times(n, t))
    BY <1>2, <2>1, <2>8, StrongStep
  <2>5. Strong(z, w \o Times(n, t))
    BY <2>4, <2>9
  <2>6. z \in Seq(Nat)
    BY <2>5 DEF Strong, DrawnRight
  <2> QED BY <1>2, <2>5, <2>6 DEF w, z
<1>4. CASE to.kind # "made"
  <2> DEFINE xy == x \o y
             rest == Times(Len(x) + Len(y), Beyond)
  <2>1. z = xy \o rest
    BY <1>4 DEF NewIndecies, AppendToLoaded
  <2> HIDE DEF x, y
  <2>5. Len(x) \in Nat /\ Len(y) \in Nat
    BY <1>1, <1>2
  <2>2. xy \in Seq(Nat)
    BY <1>1, <1>2, ConcatProperties
  <2>3. rest \in Seq(Nat)
    <3>1. Len(x) + Len(y) \in Nat /\ Beyond \in Nat
      BY <2>5 DEF Beyond
    <3> QED BY <3>1, TimesIs
  <2> HIDE DEF xy, rest, z
  <2>4. z \in Seq(Nat)
    BY <2>1, <2>2, <2>3, ConcatProperties
  <2> QED BY <1>4, <2>4 DEF z
<1> QED BY <1>3, <1>4

LEMMA AppendKeepsGood ==
  ASSUME NEW to, NEW from, Good(to), NEW n, NEW t, IsShape(from, n, t)
  PROVE  Good(AppendMesh(to, from)) /\ AppendMesh(to, from).kind = to.kind
<1> DEFINE next == AppendMesh(to, from)
<1>1. Regular(to) /\ Regular(from) /\ NewIndecies(to, from) \in Seq(Nat)
  BY NewIndeciesAre DEF Good, IsShape
<1>2. to.kind = "made" => Strong(NewIndecies(to, from), to.buffers[1] \o from.buffers[1])
  BY NewIndeciesAre
<1>3. (next = to /\ Len(to.buffers) # Len(from.buffers)) \/ Joined(next, to, from)
  BY <1>1, AppendMeshIs
<1> HIDE DEF next
<1>4. Good(next) /\ next.kind = to.kind
  BY <1>2, <1>3 DEF Joined, Good
<1> QED BY <1>4 DEF next

(* Shapes of one item make a shape, if there is room for it.               *)
LEMMA OutlineJoined ==
  ASSUME NEW x, NEW n, Outline(x, n), NEW y, NEW k, Outline(y, k), n + k <= BreakIndex,
         NEW p, Moved(p, y, n)
  PROVE  Outline(x \o p, n + k)
<1> USE MeshesAssumption
<1> DEFINE z == x \o p
           all == n + k
<1>16. x \in Seq(Nat) /\ n \in Nat \ {0}
  BY DEF Outline
<1>17. \A i \in 1 .. Len(x) : x[i] = BreakIndex \/ x[i] < n
  BY DEF Outline
<1>18. y \in Seq(Nat) /\ k \in Nat \ {0} /\ Len(y) > 0 /\ y[Len(y)] = BreakIndex
  BY DEF Outline
<1>19. \A i \in 1 .. Len(y) : y[i] = BreakIndex \/ y[i] < k
  BY DEF Outline
<1>20. Len(x) \in Nat /\ (\A i \in 1 .. Len(x) : x[i] \in Nat)
  BY <1>16
<1>21. Len(y) \in Nat /\ DOMAIN y = 1 .. Len(y) /\ (\A i \in 1 .. Len(y) : y[i] \in Nat)
  BY <1>18
<1>1. /\ x \in Seq(Nat) /\ n \in Nat /\ n > 0 /\ Len(x) \in Nat
      /\ \A i \in 1 .. Len(x) : x[i] = BreakIndex \/ x[i] < n
      /\ \A i \in 1 .. Len(x) : x[i] \in Nat
  BY <1>16, <1>17, <1>20
<1>2. /\ y \in Seq(Nat) /\ k \in Nat /\ k > 0 /\ Len(y) > 0 /\ Len(y) \in Nat /\ DOMAIN y = 1 .. Len(y)
      /\ y[Len(y)] = BreakIndex /\ \A i \in 1 .. Len(y) : y[i] = BreakIndex \/ y[i] < k
      /\ \A i \in 1 .. Len(y) : y[i] \in Nat
  BY <1>18, <1>19, <1>21
<1>3. PICK j \in 1 .. Len(y) : y[j] = k - 1
  BY DEF Outline
<1>4. \A i \in DOMAIN y : ~ TooGreat(y, i, n)
  <2> SUFFICES ASSUME NEW i \in 1 .. Len(y), y[i] # BreakIndex PROVE ~ (y[i] + n >= BreakIndex)
    BY <1>2 DEF TooGreat
  <2>1. y[i] \in Nat /\ y[i] < k
    BY <1>2
  <2> QED BY <1>1, <1>2, <2>1
<1>5. p \in Seq(Nat) /\ Len(p) = Len(y)
  BY <1>4 DEF Moved
<1>6. ASSUME NEW i \in 1 .. Len(y)
      PROVE  (y[i] = BreakIndex /\ p[i] = BreakIndex) \/ (y[i] # BreakIndex /\ y[i] < k /\ p[i] = y[i] + n)
  BY <1>2, <1>5 DEF Moved
<1>7. Behind(z, x, p)
  BY <1>1, <1>5, BehindIs
<1> HIDE DEF z
<1>8. z \in Seq(Nat) /\ Len(z) = Len(x) + Len(y) /\ Len(z) \in Nat
  BY <1>5, <1>7 DEF Behind
<1>9. \A i \in 1 .. Len(x) : z[i] = x[i]
  BY <1>7 DEF Behind
<1>10. \A i \in 1 .. Len(z) : i > Len(x) => z[i] = p[i - Len(x)]
  BY <1>7 DEF Behind
<1>11. all \in Nat \ {0} /\ all <= BreakIndex
  BY <1>1, <1>2
<1>12. ASSUME NEW i \in 1 .. Len(z) PROVE z[i] = BreakIndex \/ z[i] < all
  <2>1. CASE i <= Len(x)
    <3>1. i \in 1 .. Len(x)
      BY <1>1, <2>1
    <3>2. z[i] = x[i] /\ x[i] \in Nat /\ (x[i] = BreakIndex \/ x[i] < n)
      BY <1>1, <1>9, <3>1
    <3> QED BY <1>1, <1>2, <3>2
  <2>2. CASE i > Len(x)
    <3>1. i - Len(x) \in 1 .. Len(y)
      BY <1>1, <1>2, <1>8, <2>2
    <3>2. PICK l \in 1 .. Len(y) : l = i - Len(x)
      BY <3>1
    <3>3. z[i] = p[l]
      BY <1>10, <2>2, <3>2
    <3>4. y[l] \in Nat
      BY <1>2
    <3>5. CASE y[l] = BreakIndex
      BY <1>6, <3>3, <3>5
    <3>6. CASE y[l] # BreakIndex
      <4>1. y[l] < k /\ z[i] = y[l] + n
        BY <1>6, <3>3, <3>6
      <4> QED BY <1>1, <1>2, <3>4, <4>1
    <3> QED BY <3>5, <3>6
  <2> QED BY <1>1, <2>1, <2>2
<1>13. Len(z) > 0 /\ z[Len(z)] = BreakIndex
  <2>1. Len(z) \in 1 .. Len(z) /\ Len(z) > Len(x) /\ Len(z) - Len(x) = Len(y) /\ Len(y) \in 1 .. Len(y)
    BY <1>1, <1>2, <1>8
  <2>2. z[Len(z)] = p[Len(z) - Len(x)]
    BY <1>10, <2>1
  <2>3. p[Len(y)] = BreakIndex
    BY <1>2, <1>6, <2>1
  <2> QED BY <2>1, <2>2, <2>3
<1>14. \E i \in 1 .. Len(z) : z[i] = all - 1
  <2>1. Len(x) + j \in 1 .. Len(z) /\ Len(x) + j > Len(x) /\ (Len(x) + j) - Len(x) = j
    BY <1>1, <1>2, <1>8
  <2>2. z[Len(x) + j] = p[j]
    BY <1>10, <2>1
  <2>3. k - 1 # BreakIndex
    BY <1>1, <1>2
  <2>4. p[j] = y[j] + n
    BY <1>3, <1>6, <2>3
  <2>5. p[j] = all - 1
    BY <1>1, <1>2, <1>3, <2>4
  <2> QED BY <2>1, <2>2, <2>5
<1> HIDE DEF all
<1>15. Outline(z, all)
  BY <1>8, <1>11, <1>12, <1>13, <1>14 DEF Outline
<1> QED BY <1>15 DEF z, all

LEMMA ShapesJoined ==
  ASSUME NEW a, NEW b, NEW n, NEW k, NEW t, IsShape(a, n, t), IsShape(b, k, t), a.kind = "made",
         Len(a.buffers) = Len(b.buffers), n + k <= BreakIndex
  PROVE  IsShape(AppendMesh(a, b), n + k, t)
<1> USE MeshesAssumption
<1> DEFINE x == a.indecies
           y == b.indecies
           next == AppendMesh(a, b)
           all == n + k
<1>1. /\ Regular(a) /\ Regular(b) /\ t \in Nat /\ a.buffers[1] = Times(n, t) /\ b.buffers[1] = Times(k, t)
      /\ Outline(x, n) /\ Outline(y, k)
  BY DEF IsShape
<1>2. n \in Nat /\ k \in Nat /\ x \in Seq(Nat) /\ y \in Seq(Nat)
  BY <1>1 DEF Outline
<1>3. NewIndecies(a, b) \in Seq(Nat)
  BY ShapeIsGood, NewIndeciesAre
<1>4. Joined(next, a, b)
  BY <1>1, <1>3, AppendMeshIs
<1> HIDE DEF next
<1>5. MaximumIndex(x) + 1 = n
  BY <1>1, <1>2, OutlineStrong
<1>6. next.indecies = AppendIndecies(x, y, n)
  BY <1>4, <1>5 DEF Joined, NewIndecies
<1> HIDE DEF x, y
<1>7. PICK p : Moved(p, y, n) /\ AppendIndecies(x, y, n) = x \o p
  BY <1>2, AppendIndeciesIs
<1>8. Outline(x \o p, all)
  BY <1>1, <1>7, OutlineJoined
<1>9. Times(n, t) \o Times(k, t) = Times(all, t)
  BY <1>1, <1>2 DEF Times
<1> HIDE DEF all
<1>10. IsShape(next, all, t)
  BY <1>1, <1>4, <1>6, <1>7, <1>8, <1>9 DEF Joined, IsShape
<1> QED BY <1>10 DEF next, all

(* A symbol: the second line joins the first.                              *)
StrokeOf(tag, sofar, points) ==
  IF IsGoodMesh(sofar) THEN AppendMesh(sofar, DefineLine(tag, points)) ELSE DefineLine(tag, points)

LEMMA FirstMeshIs ==
  /\ meshDesc_t \in AllMeshes /\ meshDesc_t.buffers = <<>> /\ meshDesc_t.kind = "made"
  /\ Len(meshDesc_t.dims) = Len(meshDesc_t.buffers) /\ ~ IsGoodMesh(meshDesc_t)
<1> DEFINE nothing == <<>>
<1>1. nothing \in Seq(Seq(Nat)) /\ nothing \in Seq(Nat) /\ "triangles" \in Modes /\ "made" \in Kinds
  BY EmptySeq DEF Modes, Kinds
<1>2. meshDesc_t.buffers = nothing /\ meshDesc_t.dims = nothing /\ meshDesc_t.kind = "made"
  BY DEF meshDesc_t
<1>3. meshDesc_t = [buffers |-> nothing, dims |-> nothing, indecies |-> nothing, mode |-> "triangles", kind |-> "made"]
  BY DEF meshDesc_t
<1> HIDE DEF nothing
<1>4. meshDesc_t = MeshOf(nothing, nothing, nothing, "triangles", "made")
  BY <1>3 DEF MeshOf
<1>5. meshDesc_t \in AllMeshes
  BY <1>1, <1>4, MeshIs
<1> QED BY <1>2, <1>5 DEF IsGoodMesh, nothing

LEMMA GoodMeshIsGood ==
  ASSUME NEW m, Good(m), m.kind = "made"
  PROVE  m \in AllMeshes /\ IsGoodMesh(m)
<1> DEFINE b == m.buffers
           x == m.indecies
           w == b[1]
<1>1. Regular(m) /\ Strong(x, w)
  BY DEF Good
<1>2. m \in AllMeshes /\ Len(b) > 0
  BY <1>1 DEF Regular
<1> HIDE DEF b, x, w
<1>3. Len(x) > 0
  BY <1>1 DEF Strong
<1>4. Len(<<>>) = 0
  BY EmptySeq
<1>5. b # <<>> /\ x # <<>>
  BY <1>2, <1>3, <1>4
<1> QED BY <1>2, <1>5 DEF b, x, IsGoodMesh

LEMMA StrokeKeeps ==
  ASSUME NEW tag \in Nat, NEW m, m = meshDesc_t \/ (Good(m) /\ m.kind = "made"), NEW points \in {2, 3}
  PROVE  LET next == StrokeOf(tag, m, points) IN
         next \in AllMeshes /\ Good(next) /\ next.kind = "made"
<1> DEFINE line == DefineLine(tag, points)
           all == (points - 1) * 8
           next == StrokeOf(tag, m, points)
<1>1. IsShape(line, all, tag) /\ line.kind = "made"
  BY LineIsShape
<1> HIDE DEF line, all
<1>2. Good(line)
  BY <1>1, ShapeIsGood
<1>3. CASE IsGoodMesh(m)
  <2>1. next = AppendMesh(m, line)
    BY <1>3 DEF StrokeOf, line
  <2>2. Good(m) /\ m.kind = "made"
    BY <1>3, FirstMeshIs
  <2>3. Good(next) /\ next.kind = "made"
    BY <1>1, <2>1, <2>2, AppendKeepsGood
  <2> QED BY <2>3, GoodMeshIsGood
<1>4. CASE ~ IsGoodMesh(m)
  <2>1. next = line
    BY <1>4 DEF StrokeOf, line
  <2> QED BY <1>1, <1>2, <2>1, GoodMeshIsGood
<1> QED BY <1>3, <1>4

LEMMA SymbolUnfolds ==
  ASSUME NEW tag \in Nat
  PROVE  AddSymbol(tag, <<2, 3>>) = StrokeOf(tag, StrokeOf(tag, meshDesc_t, 2), 3)
<1> DEFINE strokes == <<2, 3>>
           Code(f) == [u \in SUBSET (1 .. 2) |->
                         IF u = {} THEN meshDesc_t ELSE StrokeOf(tag, f[u \ {Max(u)}], strokes[Max(u)])]
           iter == CHOOSE f : f = Code(f)
           D == {m \in AllMeshes : m = meshDesc_t \/ (Good(m) /\ m.kind = "made")}
           G == [i \in 1 .. 2 |-> [d \in D |-> StrokeOf(tag, d, strokes[i])]]
<1>1. DOMAIN strokes = 1 .. 2 /\ Len(strokes) = 2 /\ strokes[1] = 2 /\ strokes[2] = 3
  OBVIOUS
<1>2. AddSymbol(tag, strokes) = iter[1 .. 2]
  BY <1>1 DEF FoldLeft, MapThenFoldSet, AddSymbol, StrokeOf
<1> HIDE DEF strokes
<1>3. \A i \in 1 .. 2, d \in D : G[i][d] = StrokeOf(tag, d, strokes[i]) /\ G[i][d] \in D
  <2> SUFFICES ASSUME NEW i \in 1 .. 2, NEW d \in D
               PROVE  StrokeOf(tag, d, strokes[i]) \in D
    OBVIOUS
  <2>1. strokes[i] \in {2, 3}
    BY <1>1
  <2>2. d = meshDesc_t \/ (Good(d) /\ d.kind = "made")
    OBVIOUS
  <2> QED BY <2>1, <2>2, StrokeKeeps
<1>4. meshDesc_t \in D
  BY FirstMeshIs
<1> HIDE DEF G, D
<1>5. PICK f : IsLeftFold(f, 2, D, meshDesc_t, G)
  BY <1>3, <1>4, LeftFoldExists
<1>6. f = Code(f)
  BY <1>3, <1>5 DEF IsLeftFold
<1>7. iter = Code(iter)
  BY <1>6
<1> HIDE DEF iter
<1>8. iter[{}] = meshDesc_t
  BY <1>7
<1>9. ASSUME NEW u \in SUBSET (1 .. 2), u # {}, Max(u) \in 1 .. 2, iter[u \ {Max(u)}] \in D
      PROVE  iter[u] = G[Max(u)][iter[u \ {Max(u)}]]
  BY <1>3, <1>7, <1>9
<1>10. FoldsLeft(iter, 2, D, meshDesc_t, G)
  BY <1>8, <1>9 DEF FoldsLeft
<1>11. PICK made : StepsTo(made, 2, D, meshDesc_t, G, iter[1 .. 2])
  BY <1>3, <1>4, <1>10, LeftFoldSteps
<1>12. /\ made \in [0 .. 2 -> D] /\ made[0] = meshDesc_t /\ made[2] = iter[1 .. 2]
       /\ \A k \in 1 .. 2 : made[k] = G[k][made[k - 1]]
  BY <1>11 DEF StepsTo
<1>13. made[0] \in D /\ made[1] \in D /\ made[1] = G[1][made[0]] /\ made[2] = G[2][made[1]]
  <2>1. made[1] = G[1][made[1 - 1]] /\ made[2] = G[2][made[2 - 1]]
    BY <1>12
  <2> QED BY <1>12, <2>1
<1>14. made[1] = StrokeOf(tag, meshDesc_t, 2) /\ made[2] = StrokeOf(tag, made[1], 3)
  BY <1>1, <1>3, <1>12, <1>13
<1> QED BY <1>2, <1>12, <1>14 DEF strokes

LEMMA SymbolIsShape ==
  ASSUME NEW tag \in Nat
  PROVE  IsShape(AddSymbol(tag, <<2, 3>>), 24, tag)
<1> USE MeshesAssumption
<1> DEFINE one == DefineLine(tag, 2)
           two == DefineLine(tag, 3)
<1>1. IsShape(one, (2 - 1) * 8, tag) /\ one.kind = "made" /\ Len(one.buffers) = 2
  BY LineIsShape
<1>2. IsShape(two, (3 - 1) * 8, tag) /\ two.kind = "made" /\ Len(two.buffers) = 2
  BY LineIsShape
<1>3. StrokeOf(tag, meshDesc_t, 2) = one
  BY FirstMeshIs DEF StrokeOf
<1> HIDE DEF one
<1>4. IsGoodMesh(one)
  BY <1>1, ShapeIsGood, GoodMeshIsGood
<1>5. StrokeOf(tag, one, 3) = AppendMesh(one, two)
  BY <1>4 DEF StrokeOf
<1> HIDE DEF two
<1>6. IsShape(one, 8, tag) /\ IsShape(two, 16, tag)
  BY <1>1, <1>2
<1> DEFINE short == 8
           long == 16
<1>9. short + long <= BreakIndex /\ short + long = 24
  OBVIOUS
<1> HIDE DEF short, long
<1>10. IsShape(one, short, tag) /\ IsShape(two, long, tag)
  BY <1>6 DEF short, long
<1>7. IsShape(AppendMesh(one, two), short + long, tag)
  BY <1>1, <1>2, <1>9, <1>10, ShapesJoined
<1>8. AddSymbol(tag, <<2, 3>>) = AppendMesh(one, two)
  BY <1>3, <1>5, SymbolUnfolds
<1> QED BY <1>7, <1>8, <1>9

(* Whatever is put together, it is of shapes.                              *)
LEMMA ShapesAre ==
  ASSUME NEW tag \in Nat, NEW shape \in ShapesOf(tag)
  PROVE  \E n : IsShape(shape, n, tag)
<1> DEFINE line == DefineLine(tag, 2)
<1>1. IsShape(line, (2 - 1) * 8, tag) /\ Len(line.buffers) = 2
  BY LineIsShape
<1>2. \/ shape = line \/ shape = DefinePoints(tag, 2) \/ shape = DefineCircle(tag, 3)
      \/ shape = AddSymbol(tag, <<2, 3>>) \/ shape = WithLife(line) \/ shape = LoadMesh(SaveMesh(line))
  BY DEF ShapesOf
<1> HIDE DEF line
<1>3. CASE shape = line
  BY <1>1, <1>3
<1>4. CASE shape = DefinePoints(tag, 2)
  BY <1>4, PointsAreShape
<1>5. CASE shape = DefineCircle(tag, 3)
  BY <1>5, CircleIsShape
<1>6. CASE shape = AddSymbol(tag, <<2, 3>>)
  BY <1>6, SymbolIsShape
<1>7. CASE shape = WithLife(line)
  BY <1>1, <1>7, WithLifeIsShape
<1>8. CASE shape = LoadMesh(SaveMesh(line))
  BY <1>1, <1>8, LoadedIsShape
<1> QED BY <1>2, <1>3, <1>4, <1>5, <1>6, <1>7, <1>8

MeshInv == shapes \in Nat /\ (mesh = meshDesc_t \/ Good(mesh))

LEMMA MeshInvStep ==
  ASSUME MeshInv, [MeshesNext]_meshesVars
  PROVE  MeshInv'
<1>1. CASE UNCHANGED meshesVars
  <2>1. mesh' = mesh /\ shapes' = shapes
    BY <1>1 DEF meshesVars
  <2> QED BY <2>1 DEF MeshInv, Good
<1>2. CASE MeshesNext
  <2>1. PICK shape \in ShapesOf(shapes + 1) : mesh' = AppendMesh(mesh, shape)
    BY <1>2 DEF MeshesNext
  <2>2. shapes' = shapes + 1 /\ shapes + 1 \in Nat
    BY <1>2 DEF MeshesNext, MeshInv
  <2>3. PICK n : IsShape(shape, n, shapes + 1)
    BY <2>2, ShapesAre
  <2>4. CASE mesh = meshDesc_t
    <3>1. mesh' = shape
      BY <2>1, <2>4, FirstMeshIs DEF AppendMesh
    <3>2. Good(shape)
      BY <2>3, ShapeIsGood
    <3>3. Good(mesh')
      BY <3>1, <3>2
    <3> QED BY <2>2, <3>3 DEF MeshInv
  <2>5. CASE Good(mesh)
    <3>1. Good(AppendMesh(mesh, shape))
      BY <2>3, <2>5, AppendKeepsGood
    <3>2. Good(mesh')
      BY <2>1, <3>1
    <3> QED BY <2>2, <3>2 DEF MeshInv
  <2> QED BY <2>4, <2>5 DEF MeshInv
<1> QED BY <1>1, <1>2

(* A mesh is loaded as it was saved.                                       *)
LEMMA LoadsAgain ==
  ASSUME NEW m \in AllMeshes, Len(m.dims) = Len(m.buffers)
  PROVE  LoadMesh(SaveMesh(m)) = [m EXCEPT !.kind = "loaded"]
<1> DEFINE b == m.buffers
           d == m.dims
           x == m.indecies
           mm == m.mode
           k == m.kind
<1>1. m = MeshOf(b, d, x, mm, k)
  BY MeshIs
<1>2. LoadMesh(SaveMesh(m)) = MeshOf(b, d, x, mm, "loaded")
  BY SavedMeshIsLoaded
<1> HIDE DEF b, d, x, mm, k
<1>3. [MeshOf(b, d, x, mm, k) EXCEPT !.kind = "loaded"] = MeshOf(b, d, x, mm, "loaded")
  BY DEF MeshOf
<1> QED BY <1>1, <1>2, <1>3

LEMMA GoodIsDrawable ==
  ASSUME NEW m, Good(m), m.kind = "made"
  PROVE  LET ix == m.indecies IN
         /\ \A i \in DOMAIN ix : ix[i] # BreakIndex => \A b \in DOMAIN m.buffers : ix[i] < Len(m.buffers[b])
         /\ \A i \in 2 .. Len(ix) : BreakIndex \notin {ix[i - 1], ix[i]} =>
              \A b \in DOMAIN m.buffers : m.buffers[b][ix[i - 1] + 1] = m.buffers[b][ix[i] + 1]
<1> DEFINE x == m.indecies
           w == m.buffers[1]
           bs == m.buffers
<1>1. Strong(x, w) /\ Regular(m)
  BY DEF Good
<1>2. \A b \in DOMAIN bs : bs[b] = w
  BY <1>1 DEF Regular
<1> HIDE DEF x, w, bs
<1>3. DrawnRight(x, w)
  BY <1>1 DEF Strong
<1>4. x \in Seq(Nat) /\ \A i \in 1 .. Len(x) : x[i] # BreakIndex => x[i] < Len(w)
  BY <1>3 DEF DrawnRight
<1>5. \A i \in 2 .. Len(x) : x[i - 1] # BreakIndex /\ x[i] # BreakIndex => w[x[i - 1] + 1] = w[x[i] + 1]
  BY <1>3 DEF DrawnRight
<1>6. DOMAIN x = 1 .. Len(x)
  BY <1>4
<1>7. \A i \in DOMAIN x : x[i] # BreakIndex => \A b \in DOMAIN bs : x[i] < Len(bs[b])
  BY <1>2, <1>4, <1>6
<1>8. \A i \in 2 .. Len(x) : BreakIndex \notin {x[i - 1], x[i]} =>
        \A b \in DOMAIN bs : bs[b][x[i - 1] + 1] = bs[b][x[i] + 1]
  BY <1>2, <1>5
<1> QED BY <1>7, <1>8 DEF x, bs

LEMMA MeshInvDraws == MeshInv => MeshIsDrawable
<1> SUFFICES ASSUME MeshInv PROVE MeshIsDrawable
  OBVIOUS
<1>1. CASE mesh = meshDesc_t
  <2> DEFINE x == mesh.indecies
  <2>1. x = <<>>
    BY <1>1 DEF meshDesc_t
  <2>2. DOMAIN x = {} /\ Len(x) = 0
    BY <2>1
  <2>3. LoadMesh(SaveMesh(mesh)) = [mesh EXCEPT !.kind = "loaded"]
    BY <1>1, FirstMeshIs, LoadsAgain
  <2> HIDE DEF x
  <2>4. 2 .. Len(x) = {}
    BY <2>2
  <2>5. /\ \A i \in DOMAIN x : x[i] # BreakIndex => \A b \in DOMAIN mesh.buffers : x[i] < Len(mesh.buffers[b])
        /\ \A i \in 2 .. Len(x) : BreakIndex \notin {x[i - 1], x[i]} =>
             \A b \in DOMAIN mesh.buffers : mesh.buffers[b][x[i - 1] + 1] = mesh.buffers[b][x[i] + 1]
    BY <2>2, <2>4
  <2> QED BY <2>3, <2>5 DEF MeshIsDrawable, x
<1>2. CASE Good(mesh)
  <2>1. mesh \in AllMeshes /\ Len(mesh.dims) = Len(mesh.buffers)
    BY <1>2 DEF Good, Regular
  <2>2. LoadMesh(SaveMesh(mesh)) = [mesh EXCEPT !.kind = "loaded"]
    BY <2>1, LoadsAgain
  <2> DEFINE ix == mesh.indecies
  <2>3. mesh.kind = "made" =>
          /\ \A i \in DOMAIN ix : ix[i] # BreakIndex => \A b \in DOMAIN mesh.buffers : ix[i] < Len(mesh.buffers[b])
          /\ \A i \in 2 .. Len(ix) : BreakIndex \notin {ix[i - 1], ix[i]} =>
               \A b \in DOMAIN mesh.buffers : mesh.buffers[b][ix[i - 1] + 1] = mesh.buffers[b][ix[i] + 1]
    BY <1>2, GoodIsDrawable
  <2> QED BY <2>2, <2>3 DEF MeshIsDrawable
<1> QED BY <1>1, <1>2 DEF MeshInv

LEMMA MeshesAlwaysDrawn == MeshesSpec => []MeshIsDrawable
<1>1. MeshesInit => MeshInv
  BY DEF MeshesInit, MeshInv
<1>2. MeshInv /\ [MeshesNext]_meshesVars => MeshInv'
  BY MeshInvStep
<1> QED BY <1>1, <1>2, MeshInvDraws, PTL DEF MeshesSpec

(* What main has read: every corner has its number, and as long as the     *)
(* indices suffice, its index; normals and colours are as many, or fewer.  *)
ReaderOf(p, q, l, h, tp, tn, tc, ti, c) ==
  [positions |-> p, normals |-> q, mtlLib |-> l, hasColor |-> h,
   triPos |-> tp, triNorm |-> tn, triCol |-> tc, triInd |-> ti, triCurIndex |-> c]
NumbersItself(tp) == tp \in Seq(Nat) /\ \A k \in 1 .. Len(tp) : tp[k] = k
Keeps(s, tp) == s \in Seq(Nat) /\ Len(s) <= Len(tp) /\ (Len(s) = Len(tp) => s = tp)
Counts(ti, c, n) ==
  /\ ti \in Seq(Nat) /\ Len(ti) = n /\ c \in Nat
  /\ n <= BreakIndex => c = n /\ \A k \in 1 .. n : ti[k] = k - 1
Consistent(tp, tn, tc, ti, c) ==
  NumbersItself(tp) /\ Keeps(tn, tp) /\ Keeps(tc, tp) /\ Counts(ti, c, Len(tp))
IsReaderOf(r, p, q, l, h, tp, tn, tc, ti, c) ==
  r = ReaderOf(p, q, l, h, tp, tn, tc, ti, c) /\ h \in BOOLEAN /\ Consistent(tp, tn, tc, ti, c)
IsReader(r, p, q, l) ==
  \E h, tp, tn, tc, ti, c : IsReaderOf(r, p, q, l, h, tp, tn, tc, ti, c)

LEMMA RemainderOfLess ==
  ASSUME NEW a \in Nat, NEW b \in Nat, a < b
  PROVE  a % b = a
OBVIOUS

LEMMA OneMoreCorner ==
  ASSUME NEW tp, NEW tn, NEW tc, NEW ti, NEW c, Consistent(tp, tn, tc, ti, c), NEW k, k = Len(tp) + 1,
         NEW sn, sn = tn \/ sn = Append(tn, k), NEW sc, sc = tc \/ sc = Append(tc, k)
  PROVE  Consistent(Append(tp, k), sn, sc, Append(ti, c), (c + 1) % IndexRange)
<1> USE MeshesAssumption, ObjAssumption
<1> DEFINE sp == Append(tp, k)
           si == Append(ti, c)
           d == (c + 1) % IndexRange
           n == Len(tp)
<1>1. /\ tp \in Seq(Nat) /\ n \in Nat /\ \A i \in 1 .. n : tp[i] = i
      /\ Keeps(tn, tp) /\ Keeps(tc, tp) /\ Counts(ti, c, n)
  BY DEF Consistent, NumbersItself
<1>2. k \in Nat /\ k = n + 1
  BY <1>1
<1>3. sp \in Seq(Nat) /\ OneMore(sp, tp, k)
  BY <1>1, <1>2, OneMoreIs
<1> HIDE DEF sp, n
<1>4. Len(sp) = n + 1 /\ sp[n + 1] = k /\ \A i \in 1 .. n : sp[i] = tp[i]
  BY <1>3 DEF OneMore, n
<1>5. NumbersItself(sp)
  <2>1. ASSUME NEW i \in 1 .. n + 1 PROVE sp[i] = i
    <3>1. CASE i = n + 1
      BY <1>2, <1>4, <3>1
    <3>2. CASE i # n + 1
      <4>1. i \in 1 .. n
        BY <1>1, <3>2
      <4> QED BY <1>1, <1>4, <4>1
    <3> QED BY <3>1, <3>2
  <2> QED BY <1>3, <1>4, <2>1 DEF NumbersItself
<1>6. ASSUME NEW s, Keeps(s, tp), NEW t, t = s \/ t = Append(s, k) PROVE Keeps(t, sp)
  <2>1. s \in Seq(Nat) /\ Len(s) \in Nat /\ Len(s) <= n /\ (Len(s) = n => s = tp)
    BY <1>6 DEF Keeps, n
  <2>2. CASE t = s
    BY <1>1, <1>4, <2>1, <2>2 DEF Keeps
  <2>3. CASE t = Append(s, k)
    <3> DEFINE z == Append(s, k)
    <3>1. z \in Seq(Nat) /\ OneMore(z, s, k)
      BY <1>2, <2>1, OneMoreIs
    <3>2. Len(s) = n => z = sp
      BY <2>1 DEF sp
    <3> HIDE DEF z
    <3>3. Len(z) = Len(s) + 1
      BY <3>1 DEF OneMore
    <3>4. Keeps(z, sp)
      BY <1>1, <1>4, <2>1, <3>1, <3>2, <3>3 DEF Keeps
    <3> QED BY <2>3, <3>4 DEF z
  <2> QED BY <1>6, <2>2, <2>3
<1>7. Counts(si, d, n + 1)
  <2>1. ti \in Seq(Nat) /\ Len(ti) = n /\ c \in Nat
    BY <1>1 DEF Counts
  <2>2. si \in Seq(Nat) /\ OneMore(si, ti, c)
    BY <2>1, OneMoreIs
  <2> HIDE DEF si
  <2>3. Len(si) = n + 1 /\ si[n + 1] = c /\ \A i \in 1 .. n : si[i] = ti[i]
    BY <2>1, <2>2 DEF OneMore
  <2>4. d \in Nat
    BY <2>1
  <2>5. ASSUME n + 1 <= BreakIndex PROVE d = n + 1 /\ \A i \in 1 .. n + 1 : si[i] = i - 1
    <3>1. c = n /\ \A i \in 1 .. n : ti[i] = i - 1
      BY <1>1, <2>5 DEF Counts
    <3>2. d = n + 1
      <4>1. n + 1 \in Nat /\ IndexRange \in Nat /\ n + 1 < IndexRange
        BY <1>1, <2>5
      <4>2. (n + 1) % IndexRange = n + 1
        BY <4>1, RemainderOfLess
      <4> QED BY <3>1, <4>2
    <3>3. ASSUME NEW i \in 1 .. n + 1 PROVE si[i] = i - 1
      <4>1. CASE i = n + 1
        BY <1>1, <2>3, <3>1, <4>1
      <4>2. CASE i # n + 1
        <5>1. i \in 1 .. n
          BY <1>1, <4>2
        <5> QED BY <2>3, <3>1, <5>1
      <4> QED BY <4>1, <4>2
    <3> QED BY <3>2, <3>3
  <2> HIDE DEF d
  <2> QED BY <2>2, <2>3, <2>4, <2>5 DEF Counts
<1>8. Keeps(sn, sp) /\ Keeps(sc, sp)
  BY <1>1, <1>6
<1> HIDE DEF si, d
<1>9. Consistent(sp, sn, sc, si, d)
  BY <1>4, <1>5, <1>7, <1>8 DEF Consistent
<1> QED BY <1>9 DEF sp, si, d

LEMMA CornerAdded ==
  ASSUME NEW p, NEW q, NEW l, NEW r, IsReader(r, p, q, l), NEW corner
  PROVE  IsReader(AddCorner(r, corner), p, q, l)
<1>1. PICK h, tp, tn, tc, ti, c : IsReaderOf(r, p, q, l, h, tp, tn, tc, ti, c)
  BY DEF IsReader
<1>5. r = ReaderOf(p, q, l, h, tp, tn, tc, ti, c) /\ Consistent(tp, tn, tc, ti, c) /\ h \in BOOLEAN
  BY <1>1 DEF IsReaderOf
<1> DEFINE k == Len(tp) + 1
           sp == Append(tp, k)
           sn == IF corner[2] = 0 THEN tn ELSE Append(tn, k)
           sc == IF h THEN Append(tc, k) ELSE tc
           si == Append(ti, c)
           d == (c + 1) % IndexRange
<1>2. AddCorner(r, corner) = ReaderOf(p, q, l, h, sp, sn, sc, si, d)
  <2>1. /\ r.triPos = tp /\ r.triNorm = tn /\ r.triCol = tc /\ r.triInd = ti
        /\ r.triCurIndex = c /\ r.hasColor = h
    BY <1>5 DEF ReaderOf
  <2>2. AddCorner(r, corner) = [r EXCEPT !.triPos = sp, !.triNorm = sn, !.triCol = sc, !.triInd = si, !.triCurIndex = d]
    BY <2>1 DEF AddCorner, NextIndex, CurrentIndexNext
  <2> HIDE DEF sp, sn, sc, si, d
  <2>3. [ReaderOf(p, q, l, h, tp, tn, tc, ti, c)
           EXCEPT !.triPos = sp, !.triNorm = sn, !.triCol = sc, !.triInd = si, !.triCurIndex = d]
          = ReaderOf(p, q, l, h, sp, sn, sc, si, d)
    <3> DEFINE r0 == ReaderOf(p, q, l, h, tp, tn, tc, ti, c)
               r1 == ReaderOf(p, q, l, h, sp, tn, tc, ti, c)
               r2 == ReaderOf(p, q, l, h, sp, sn, tc, ti, c)
               r3 == ReaderOf(p, q, l, h, sp, sn, sc, ti, c)
               r4 == ReaderOf(p, q, l, h, sp, sn, sc, si, c)
    <3>1. [r0 EXCEPT !.triPos = sp] = r1
      BY DEF ReaderOf
    <3>2. [r1 EXCEPT !.triNorm = sn] = r2
      BY DEF ReaderOf
    <3>3. [r2 EXCEPT !.triCol = sc] = r3
      BY DEF ReaderOf
    <3>4. [r3 EXCEPT !.triInd = si] = r4
      BY DEF ReaderOf
    <3>5. [r4 EXCEPT !.triCurIndex = d] = ReaderOf(p, q, l, h, sp, sn, sc, si, d)
      BY DEF ReaderOf
    <3> HIDE DEF r0, r1, r2, r3, r4
    <3>6. [r0 EXCEPT !.triPos = sp, !.triNorm = sn, !.triCol = sc, !.triInd = si, !.triCurIndex = d]
            = ReaderOf(p, q, l, h, sp, sn, sc, si, d)
      BY <3>1, <3>2, <3>3, <3>4, <3>5
    <3> QED BY <3>6 DEF r0
  <2> QED BY <1>5, <2>2, <2>3
<1>3. (sn = tn \/ sn = Append(tn, k)) /\ (sc = tc \/ sc = Append(tc, k))
  OBVIOUS
<1> HIDE DEF sn, sc, k
<1>4. Consistent(sp, sn, sc, si, d)
  <2>1. k = Len(tp) + 1
    BY DEF k
  <2> QED BY <1>3, <1>5, <2>1, OneMoreCorner
<1> HIDE DEF sp, si, d
<1>6. IsReaderOf(AddCorner(r, corner), p, q, l, h, sp, sn, sc, si, d)
  BY <1>2, <1>4, <1>5 DEF IsReaderOf
<1> QED BY <1>6 DEF IsReader

LEMMA CornersAdded ==
  ASSUME NEW p, NEW q, NEW l, NEW r, IsReader(r, p, q, l), NEW S, NEW corners \in Seq(S)
  PROVE  IsReader(FoldLeft(AddCorner, r, corners), p, q, l)
<1> DEFINE n == Len(corners)
           Code(f) == [u \in SUBSET (1 .. n) |->
                         IF u = {} THEN r ELSE AddCorner(f[u \ {Max(u)}], corners[Max(u)])]
           iter == CHOOSE f : f = Code(f)
           All == [positions : {p}, normals : {q}, mtlLib : {l}, hasColor : BOOLEAN, triPos : Seq(Nat),
                   triNorm : Seq(Nat), triCol : Seq(Nat), triInd : Seq(Nat), triCurIndex : Nat]
           D == {s \in All : IsReader(s, p, q, l)}
           G == [i \in 1 .. n |-> [d \in D |-> AddCorner(d, corners[i])]]
<1>1. n \in Nat /\ DOMAIN corners = 1 .. n
  OBVIOUS
<1>2. FoldLeft(AddCorner, r, corners) = iter[1 .. n]
  BY <1>1 DEF FoldLeft, MapThenFoldSet
<1> HIDE DEF n
<1>3. ASSUME NEW s, IsReader(s, p, q, l) PROVE s \in D
  <2>1. PICK h, tp, tn, tc, ti, c : IsReaderOf(s, p, q, l, h, tp, tn, tc, ti, c)
    BY <1>3 DEF IsReader
  <2>2. s = ReaderOf(p, q, l, h, tp, tn, tc, ti, c) /\ h \in BOOLEAN
    BY <2>1 DEF IsReaderOf
  <2>3. tp \in Seq(Nat) /\ tn \in Seq(Nat) /\ tc \in Seq(Nat) /\ ti \in Seq(Nat) /\ c \in Nat
    BY <2>1 DEF IsReaderOf, Consistent, NumbersItself, Keeps, Counts
  <2>4. s \in All
    BY <2>2, <2>3 DEF ReaderOf
  <2> HIDE DEF All
  <2> QED BY <1>3, <2>4
<1>4. \A s \in D : IsReader(s, p, q, l)
  OBVIOUS
<1> HIDE DEF All, D
<1>5. \A i \in 1 .. n, d \in D : G[i][d] = AddCorner(d, corners[i]) /\ G[i][d] \in D
  BY <1>3, <1>4, CornerAdded
<1>6. r \in D
  BY <1>3
<1> HIDE DEF G
<1>7. PICK f : IsLeftFold(f, n, D, r, G)
  BY <1>1, <1>5, <1>6, LeftFoldExists
<1>8. f = Code(f)
  BY <1>5, <1>7 DEF IsLeftFold
<1>9. iter = Code(iter)
  BY <1>8
<1> HIDE DEF iter
<1>10. iter[{}] = r
  BY <1>9
<1>11. ASSUME NEW u \in SUBSET (1 .. n), u # {}, Max(u) \in 1 .. n, iter[u \ {Max(u)}] \in D
       PROVE  iter[u] = G[Max(u)][iter[u \ {Max(u)}]]
  BY <1>5, <1>9, <1>11
<1>12. FoldsLeft(iter, n, D, r, G)
  BY <1>10, <1>11 DEF FoldsLeft
<1>13. PICK made : StepsTo(made, n, D, r, G, iter[1 .. n])
  BY <1>1, <1>5, <1>6, <1>12, LeftFoldSteps
<1>14. made \in [0 .. n -> D] /\ made[n] = iter[1 .. n]
  BY <1>13 DEF StepsTo
<1>15. iter[1 .. n] \in D
  BY <1>1, <1>14
<1> QED BY <1>2, <1>4, <1>15

(* A line changes what it is about.                                        *)
LEMMA LineRead ==
  ASSUME NEW p, NEW q, NEW l, NEW r, IsReader(r, p, q, l), NEW line \in ObjLines
  PROVE  \E pp, qq, ll : IsReader(AfterLine(r, line), pp, qq, ll)
<1> USE ObjAssumption
<1>1. PICK h, tp, tn, tc, ti, c : IsReaderOf(r, p, q, l, h, tp, tn, tc, ti, c)
  BY DEF IsReader
<1>2. r = ReaderOf(p, q, l, h, tp, tn, tc, ti, c) /\ Consistent(tp, tn, tc, ti, c) /\ h \in BOOLEAN
  BY <1>1 DEF IsReaderOf
<1>3. r.positions = p /\ r.normals = q
  BY <1>2 DEF ReaderOf
<1>4. ASSUME NEW pp, NEW qq, NEW ll, NEW hh \in BOOLEAN
      PROVE  IsReader(ReaderOf(pp, qq, ll, hh, tp, tn, tc, ti, c), pp, qq, ll)
  <2>1. IsReaderOf(ReaderOf(pp, qq, ll, hh, tp, tn, tc, ti, c), pp, qq, ll, hh, tp, tn, tc, ti, c)
    BY <1>2 DEF IsReaderOf
  <2> QED BY <2>1 DEF IsReader
<1>5. CASE line[1] = "v"
  <2> DEFINE pp == p + 1
  <2>1. AfterLine(r, line) = [r EXCEPT !.positions = pp]
    BY <1>3, <1>5 DEF AfterLine
  <2> HIDE DEF pp
  <2>2. [r EXCEPT !.positions = pp] = ReaderOf(pp, q, l, h, tp, tn, tc, ti, c)
    BY <1>2 DEF ReaderOf
  <2> QED BY <1>2, <1>4, <2>1, <2>2
<1>6. CASE line[1] = "vn"
  <2> DEFINE qq == q + 1
  <2>1. AfterLine(r, line) = [r EXCEPT !.normals = qq]
    BY <1>3, <1>6 DEF AfterLine
  <2> HIDE DEF qq
  <2>2. [r EXCEPT !.normals = qq] = ReaderOf(p, qq, l, h, tp, tn, tc, ti, c)
    BY <1>2 DEF ReaderOf
  <2> QED BY <1>2, <1>4, <2>1, <2>2
<1>7. CASE line[1] = "f"
  <2>1. AfterLine(r, line) = FoldLeft(AddCorner, r, line[2])
    BY <1>7 DEF AfterLine
  <2>2. IsReader(FoldLeft(AddCorner, r, line[2]), p, q, l)
    BY <1>7, CornersAdded
  <2> QED BY <2>1, <2>2
<1>8. CASE line[1] = "mtllib"
  <2> DEFINE ll == LoadMaterials(MaterialLibs[line[2]])
  <2> HIDE DEF ll
  <2>1. AfterLine(r, line) = [r EXCEPT !.mtlLib = ll]
    BY <1>8 DEF AfterLine, ll
  <2>2. [r EXCEPT !.mtlLib = ll] = ReaderOf(p, q, ll, h, tp, tn, tc, ti, c)
    BY <1>2 DEF ReaderOf
  <2> QED BY <1>2, <1>4, <2>1, <2>2
<1>9. CASE line[1] = "usemtl"
  <2> DEFINE yes == TRUE
  <2>1. AfterLine(r, line) = [r EXCEPT !.hasColor = yes] /\ yes \in BOOLEAN
    BY <1>9 DEF AfterLine
  <2> HIDE DEF yes
  <2>2. [r EXCEPT !.hasColor = yes] = ReaderOf(p, q, l, yes, tp, tn, tc, ti, c)
    BY <1>2 DEF ReaderOf
  <2>3. IsReader(ReaderOf(p, q, l, yes, tp, tn, tc, ti, c), p, q, l)
    BY <1>4, <2>1
  <2> QED BY <2>1, <2>2, <2>3
<1>10. CASE line[1] \notin {"v", "vn", "f", "mtllib", "usemtl"}
  <2>1. AfterLine(r, line) = r
    BY <1>10 DEF AfterLine
  <2> QED BY <2>1
<1> QED BY <1>5, <1>6, <1>7, <1>8, <1>9, <1>10

MadeOf(r) ==
  LET colours == IF r.triCol = <<>> THEN <<>> ELSE <<r.triCol>>
      normals == IF r.triNorm = <<>> THEN <<>> ELSE <<r.triNorm>>
  IN <<r.triPos>> \o colours \o normals
ObjectOf(r) ==
  [buffers |-> MadeOf(r), dims |-> Times(Len(MadeOf(r)), 3), indecies |-> r.triInd,
   mode |-> "triangles", kind |-> "made"]
ObjInv ==
  /\ \E p, q, l : IsReader(reader, p, q, l)
  /\ objPc = "ended" => object = ObjectOf(reader)

LEMMA ObjInvInit == ObjInit => ObjInv
<1> SUFFICES ASSUME ObjInit PROVE ObjInv
  OBVIOUS
<1> DEFINE nothing == <<>>
<1>1. nothing \in Seq(Nat) /\ Len(nothing) = 0
  BY EmptySeq
<1>2. reader = [positions |-> 0, normals |-> 0, mtlLib |-> {}, hasColor |-> FALSE,
                triPos |-> nothing, triNorm |-> nothing, triCol |-> nothing, triInd |-> nothing, triCurIndex |-> 0]
  BY DEF ObjInit
<1> HIDE DEF nothing
<1>3. reader = ReaderOf(0, 0, {}, FALSE, nothing, nothing, nothing, nothing, 0)
  BY <1>2 DEF ReaderOf
<1>4. Consistent(nothing, nothing, nothing, nothing, 0)
  BY <1>1 DEF Consistent, NumbersItself, Keeps, Counts
<1>5. IsReaderOf(reader, 0, 0, {}, FALSE, nothing, nothing, nothing, nothing, 0)
  BY <1>3, <1>4 DEF IsReaderOf
<1>6. IsReader(reader, 0, 0, {})
  BY <1>5 DEF IsReader
<1>7. objPc = "reading"
  BY DEF ObjInit
<1> QED BY <1>6, <1>7 DEF ObjInv

LEMMA ObjInvStep ==
  ASSUME ObjInv, [ObjNext]_objVars
  PROVE  ObjInv'
<1>1. PICK p, q, l : IsReader(reader, p, q, l)
  BY DEF ObjInv
<1>2. ASSUME NEW line \in ObjLines, ReadObjectLine(line) PROVE ObjInv'
  <2>1. objPc = "reading" /\ objPc' # "ended"
    BY <1>2 DEF ReadObjectLine
  <2>2. reader' = AfterLine(reader, line) \/ reader' = reader
    BY <1>2 DEF ReadObjectLine
  <2>3. \E pp, qq, ll : IsReader(AfterLine(reader, line), pp, qq, ll)
    BY <1>1, LineRead
  <2>4. \E pp, qq, ll : IsReader(reader', pp, qq, ll)
    BY <1>1, <2>2, <2>3
  <2> QED BY <2>1, <2>4 DEF ObjInv, IsReader, IsReaderOf
<1>3. CASE MakeObject
  <2>1. reader' = reader /\ objPc = "reading"
    BY <1>3 DEF MakeObject
  <2>2. objPc' = "ended" => object' = ObjectOf(reader)
    BY <1>3 DEF MakeObject, ObjectOf, MadeOf
  <2> QED BY <1>1, <2>1, <2>2 DEF ObjInv, IsReader, IsReaderOf, ObjectOf, MadeOf
<1>4. CASE UNCHANGED objVars
  <2>1. reader' = reader /\ object' = object /\ objPc' = objPc
    BY <1>4 DEF objVars
  <2>2. objPc = "ended" => object = ObjectOf(reader)
    BY DEF ObjInv
  <2> QED BY <1>1, <2>1, <2>2 DEF ObjInv, IsReader, IsReaderOf, ObjectOf, MadeOf
<1> QED BY <1>2, <1>3, <1>4 DEF ObjNext

(* Buffers are those of the corners, unless one is left out.               *)
LEMMA BuffersAre ==
  ASSUME NEW tp, NEW tc, NEW tn, tc = <<>> \/ tc = tp, tn = <<>> \/ tn = tp
  PROVE  (<<tp>> \o (IF tc = <<>> THEN <<>> ELSE <<tc>>)) \o (IF tn = <<>> THEN <<>> ELSE <<tn>>) \in Seq({tp})
<1> DEFINE colours == IF tc = <<>> THEN <<>> ELSE <<tc>>
           normals == IF tn = <<>> THEN <<>> ELSE <<tn>>
           first == <<tp>>
           S == {tp}
<1>1. first \in Seq(S)
  OBVIOUS
<1>2. colours \in Seq(S)
  <2>1. CASE tc = <<>>
    BY <2>1, EmptySeq
  <2>2. CASE tc # <<>>
    BY <2>2
  <2> QED BY <2>1, <2>2
<1>3. normals \in Seq(S)
  <2>1. CASE tn = <<>>
    BY <2>1, EmptySeq
  <2>2. CASE tn # <<>>
    BY <2>2
  <2> QED BY <2>1, <2>2
<1> HIDE DEF first, colours, normals, S
<1>4. (first \o colours) \o normals \in Seq(S)
  BY <1>1, <1>2, <1>3, ConcatProperties
<1> QED BY <1>4 DEF first, colours, normals, S

LEMMA WholeIs ==
  ASSUME NEW s, NEW tp, Keeps(s, tp), Len(s) \in {0, Len(tp)}
  PROVE  s = <<>> \/ s = tp
<1>1. s \in Seq(Nat) /\ (Len(s) = Len(tp) => s = tp)
  BY DEF Keeps
<1>2. CASE Len(s) = 0
  BY <1>1, <1>2, EmptySeq
<1>3. CASE Len(s) = Len(tp)
  BY <1>1, <1>3
<1> QED BY <1>2, <1>3

LEMMA ObjInvWhole == ObjInv => ObjectIsWhole
<1> USE MeshesAssumption
<1> DEFINE corners == Len(reader.triPos)
           Complete(b) == Len(b) \in {0, corners}
<1> SUFFICES ASSUME ObjInv, objPc = "ended", Complete(reader.triCol), Complete(reader.triNorm), corners <= BreakIndex
             PROVE  /\ Len(object.indecies) = corners
                    /\ \A k \in 1 .. corners :
                         /\ object.indecies[k] # BreakIndex
                         /\ \A b \in DOMAIN object.buffers : object.buffers[b][object.indecies[k] + 1] = k
                    /\ LoadMesh(SaveMesh(object)) = [object EXCEPT !.kind = "loaded"]
  BY DEF ObjectIsWhole
<1>1. PICK p, q, l : IsReader(reader, p, q, l)
  BY DEF ObjInv
<1>2. PICK h, tp, tn, tc, ti, c : IsReaderOf(reader, p, q, l, h, tp, tn, tc, ti, c)
  BY <1>1 DEF IsReader
<1>3. reader = ReaderOf(p, q, l, h, tp, tn, tc, ti, c) /\ Consistent(tp, tn, tc, ti, c)
  BY <1>2 DEF IsReaderOf
<1>4. reader.triPos = tp /\ reader.triNorm = tn /\ reader.triCol = tc /\ reader.triInd = ti
  BY <1>3 DEF ReaderOf
<1>5. NumbersItself(tp) /\ Keeps(tn, tp) /\ Keeps(tc, tp) /\ Counts(ti, c, Len(tp))
  BY <1>3 DEF Consistent
<1>6. (tc = <<>> \/ tc = tp) /\ (tn = <<>> \/ tn = tp)
  BY <1>4, <1>5, WholeIs
<1> DEFINE made == MadeOf(reader)
           n == Len(tp)
           d == Times(Len(made), 3)
<1>7. made \in Seq({tp})
  BY <1>4, <1>6, BuffersAre DEF MadeOf
<1>8. object = MeshOf(made, d, ti, "triangles", "made")
  <2>1. object = ObjectOf(reader)
    BY DEF ObjInv
  <2> HIDE DEF made
  <2>2. object = [buffers |-> made, dims |-> d, indecies |-> ti, mode |-> "triangles", kind |-> "made"]
    BY <1>4, <2>1 DEF ObjectOf, made
  <2> HIDE DEF d
  <2> QED BY <2>2 DEF MeshOf
<1> HIDE DEF made
<1>9. tp \in Seq(Nat) /\ n \in Nat /\ \A k \in 1 .. n : tp[k] = k
  BY <1>5 DEF NumbersItself
<1>10. n <= BreakIndex
  BY <1>4
<1> HIDE DEF n
<1>11. ti \in Seq(Nat) /\ Len(ti) = n /\ \A k \in 1 .. n : ti[k] = k - 1
  BY <1>5, <1>10 DEF Counts, n
<1>12. /\ made \in Seq(Seq(Nat)) /\ Len(made) \in Nat
       /\ DOMAIN made = 1 .. Len(made) /\ \A b \in 1 .. Len(made) : made[b] = tp
  BY <1>7, <1>9
<1>13. d \in Seq(Nat) /\ Len(d) = Len(made)
  <2> DEFINE three == 3
  <2>1. three \in Nat
    OBVIOUS
  <2> HIDE DEF three
  <2>2. Times(Len(made), three) \in Seq(Nat) /\ Len(Times(Len(made), three)) = Len(made)
    BY <1>12, <2>1, TimesIs
  <2> QED BY <2>2 DEF three
<1> HIDE DEF d
<1>14. object.buffers = made /\ object.dims = d /\ object.indecies = ti
  BY <1>8 DEF MeshOf
<1>15. object \in AllMeshes
  BY <1>8, <1>11, <1>12, <1>13, MeshIs DEF Modes, Kinds
<1>16. LoadMesh(SaveMesh(object)) = [object EXCEPT !.kind = "loaded"]
  BY <1>13, <1>14, <1>15, LoadsAgain
<1>17. corners = n
  BY <1>4 DEF n
<1>18. ASSUME NEW k \in 1 .. n
       PROVE  ti[k] # BreakIndex /\ \A b \in 1 .. Len(made) : made[b][ti[k] + 1] = k
  <2>1. ti[k] = k - 1 /\ k \in Nat /\ k - 1 < BreakIndex /\ (k - 1) + 1 = k
    BY <1>9, <1>10, <1>11
  <2>2. tp[ti[k] + 1] = k
    BY <1>9, <2>1
  <2> QED BY <1>12, <2>1, <2>2
<1> QED BY <1>11, <1>12, <1>14, <1>16, <1>17, <1>18

LEMMA ObjectsAlwaysWhole == ObjSpec => []ObjectIsWhole
<1>1. ObjInv /\ [ObjNext]_objVars => ObjInv'
  BY ObjInvStep
<1> QED BY <1>1, ObjInvInit, ObjInvWhole, PTL DEF ObjSpec

(* Meshes put together from shapes, and what object files become, are      *)
(* drawn with the vertices they were made with, and loaded as they were    *)
(* saved: as many shapes, lines and corners as there may be                *)
(* (meshDesc.cpp:23-263, indexBuffer.hpp:157-239, obj2mesh.cpp:298-553).   *)
THEOREM MeshesStayDrawable == MeshesSpec /\ ObjSpec => []MeshesAreDrawable
<1>1. MeshIsDrawable /\ ObjectIsWhole => MeshesAreDrawable
  BY DEF MeshesAreDrawable
<1> QED BY <1>1, MeshesAlwaysDrawn, ObjectsAlwaysWhole, PTL
=============================================================================
