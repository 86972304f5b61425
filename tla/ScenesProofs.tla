---------------------------- MODULE ScenesProofs ----------------------------
(***************************************************************************)
(* The main loop and its scenes, for any menu, any first scene and any     *)
(* number of keys and changes: the numbers of the arena's watches, the     *)
(* line the menu shows, and the actors that belong to the scene.           *)
(*                                                                         *)
(* That a removal finds its monitor is not inductive: it takes that a      *)
(* number is given back once, which in turn takes that what the arena has, *)
(* or will read from its box, is a monitor nobody has given back yet, and  *)
(* that only the arena on top has the box the numbers come to.             *)
(***************************************************************************)
EXTENDS Scenes, FiniteSetTheorems, TLAPS

Shown == {"frame", "waiting", "window", "mail"}
Preparing == {"prepare", "prepareStatus", "prepareBox"}

(* The numbers a mailbox asks to remove, and what a mailbox looks like.    *)
Removals(s) == {i \in 1 .. Len(s) : s[i][1] = "rmWatch"}
Removed(s) == {s[i][2] : i \in Removals(s)}
GoodMail(s) ==
  /\ \E S : s \in Seq(S)
  /\ \A i \in 1 .. Len(s) : s[i][1] = "watch" => s[i][2] = "arenaBox"
  /\ \A i, j \in Removals(s) : i # j => s[i][2] # s[j][2]

Numbers ==
  /\ counter \in Nat
  /\ \A n \in monitors : n \in Nat /\ n < counter
  /\ dirty \subseteq monitors
  /\ Removed(mail) \subseteq monitors

(* A number the arena may give back.                                       *)
Usable(n) == n = -1 \/ n \in monitors \ Removed(mail)

BoxOnTop ==
  /\ "arenaBox" \in boxes => top = "arena"
  /\ pc \in Shown /\ top = "arena" => "arenaBox" \in boxes
  /\ pc \in Preparing => "arenaBox" \notin boxes
  /\ pc \in {"prepareStatus", "prepareBox"} => top = "arena"

Held ==
  /\ \E S : statuses \in Seq(S)
  /\ statuses # <<>> => "arenaBox" \in boxes
  /\ \A i \in 1 .. Len(statuses) : Usable(statuses[i])
  /\ "arenaBox" \in boxes => Usable(configWatch)

IInv == GoodMail(mail) /\ Numbers /\ BoxOnTop /\ Held

-----------------------------------------------------------------------------
(* What posting and taking a message do to the numbers asked for.          *)
LEMMA AppendOther ==
  ASSUME NEW s, GoodMail(s), NEW m, m[1] # "rmWatch", m[1] = "watch" => m[2] = "arenaBox"
  PROVE  GoodMail(Append(s, m)) /\ Removed(Append(s, m)) = Removed(s)
<1> DEFINE t == Append(s, m)
<1>1. PICK S : s \in Seq(S)
  BY DEF GoodMail
<1>2. s \in Seq(S \cup {m}) /\ m \in S \cup {m}
  BY <1>1
<1>3. t \in Seq(S \cup {m}) /\ Len(t) = Len(s) + 1 /\ Len(s) \in Nat
  BY <1>2
<1>4. \A i \in 1 .. Len(t) : t[i] = IF i <= Len(s) THEN s[i] ELSE m
  BY <1>2, <1>3
<1> HIDE DEF t
<1>5. Removals(t) = Removals(s) /\ \A i \in Removals(s) : t[i] = s[i]
  BY <1>3, <1>4 DEF Removals
<1>6. GoodMail(t)
  BY <1>3, <1>4, <1>5 DEF GoodMail
<1>7. Removed(t) = Removed(s)
  BY <1>5 DEF Removed
<1> QED BY <1>6, <1>7 DEF t

LEMMA AppendRemoval ==
  ASSUME NEW s, GoodMail(s), NEW n, n \notin Removed(s)
  PROVE  /\ GoodMail(Append(s, <<"rmWatch", n>>))
         /\ Removed(Append(s, <<"rmWatch", n>>)) = Removed(s) \cup {n}
<1> DEFINE m == <<"rmWatch", n>>
           t == Append(s, m)
<1>1. PICK S : s \in Seq(S)
  BY DEF GoodMail
<1>2. s \in Seq(S \cup {m}) /\ m \in S \cup {m}
  BY <1>1
<1>3. t \in Seq(S \cup {m}) /\ Len(t) = Len(s) + 1 /\ Len(s) \in Nat
  BY <1>2
<1>4. \A i \in 1 .. Len(t) : t[i] = IF i <= Len(s) THEN s[i] ELSE m
  BY <1>2, <1>3
<1>5. m[1] = "rmWatch" /\ m[2] = n
  OBVIOUS
<1> HIDE DEF t, m
<1>6. /\ Removals(t) = Removals(s) \cup {Len(s) + 1} /\ Len(s) + 1 \notin Removals(s)
      /\ \A i \in Removals(s) : t[i] = s[i]
      /\ t[Len(s) + 1] = m
  BY <1>3, <1>4, <1>5 DEF Removals
<1>7. \A i \in Removals(s) : t[i][2] # n
  BY <1>6 DEF Removed
<1>8. GoodMail(t)
  <2>1. \A i, j \in Removals(t) : i # j => t[i][2] # t[j][2]
    BY <1>5, <1>6, <1>7 DEF GoodMail
  <2>2. \A i \in 1 .. Len(t) : t[i][1] = "watch" => t[i][2] = "arenaBox"
    BY <1>3, <1>4, <1>5 DEF GoodMail
  <2> QED BY <1>3, <2>1, <2>2 DEF GoodMail
<1>9. Removed(t) = Removed(s) \cup {n}
  BY <1>5, <1>6 DEF Removed
<1> QED BY <1>8, <1>9 DEF t, m

LEMMA TakeMessage ==
  ASSUME NEW s, GoodMail(s), s # <<>>
  PROVE  /\ GoodMail(Tail(s)) /\ Removed(Tail(s)) \subseteq Removed(s)
         /\ Head(s)[1] = "rmWatch" => Head(s)[2] \in Removed(s) \ Removed(Tail(s))
         /\ Head(s)[1] = "watch" => Head(s)[2] = "arenaBox"
<1> DEFINE t == Tail(s)
<1>1. PICK S : s \in Seq(S)
  BY DEF GoodMail
<1>2. t \in Seq(S) /\ Len(s) \in Nat \ {0} /\ Len(t) = Len(s) - 1 /\ Head(s) = s[1]
  BY <1>1
<1>3. \A i \in 1 .. Len(t) : t[i] = s[i + 1]
  BY <1>1, <1>2
<1> HIDE DEF t
<1>4. \A i \in Removals(t) : i \in Nat \ {0} /\ i + 1 \in Removals(s) /\ t[i] = s[i + 1]
  BY <1>2, <1>3 DEF Removals
<1>5. GoodMail(t)
  <2>1. \A i, j \in Removals(t) : i # j => t[i][2] # t[j][2]
    BY <1>4 DEF GoodMail
  <2>2. \A i \in 1 .. Len(t) : t[i][1] = "watch" => t[i][2] = "arenaBox"
    BY <1>2, <1>3 DEF GoodMail
  <2> QED BY <1>2, <2>1, <2>2 DEF GoodMail
<1>6. Removed(t) \subseteq Removed(s)
  BY <1>4 DEF Removed
<1>7. ASSUME s[1][1] = "rmWatch" PROVE s[1][2] \in Removed(s) \ Removed(t)
  <2>1. 1 \in Removals(s)
    BY <1>2, <1>7 DEF Removals
  <2>2. \A i \in Removals(t) : t[i][2] # s[1][2]
    BY <1>4, <2>1 DEF GoodMail
  <2> QED BY <2>1, <2>2 DEF Removed
<1>8. s[1][1] = "watch" => s[1][2] = "arenaBox"
  BY <1>2 DEF GoodMail
<1> QED BY <1>2, <1>5, <1>6, <1>7, <1>8 DEF t

-----------------------------------------------------------------------------
(* Steps that touch none of it: most of the frame, and the actors' work.   *)
LEMMA Elsewhere ==
  ASSUME IInv, UNCHANGED <<mail, monitors, counter, boxes, statuses, configWatch, top>>, dirty' \subseteq monitors,
         pc' = pc \/ pc' \in {"crashed", "done"} \/ (pc \in Shown /\ pc' \in Shown)
  PROVE  IInv'
<1>1. GoodMail(mail)' /\ Removed(mail)' = Removed(mail)
  BY DEF IInv, GoodMail, Removed, Removals
<1>2. Numbers'
  BY <1>1 DEF IInv, Numbers
<1>3. BoxOnTop'
  BY DEF IInv, BoxOnTop, Shown, Preparing
<1>4. Held'
  BY <1>1 DEF IInv, Held, Usable
<1> QED BY <1>1, <1>2, <1>3, <1>4 DEF IInv

(* Steps that also post a message of another kind to the main loop, whose  *)
(* mailbox was in order.                                                   *)
LEMMA Posting ==
  ASSUME IInv, UNCHANGED <<monitors, counter, boxes, statuses, configWatch, top>>, dirty' \subseteq monitors,
         GoodMail(mail'), Removed(mail') \subseteq Removed(mail),
         pc' = pc \/ (pc \in Shown /\ pc' \in Shown)
  PROVE  IInv'
<1>1. GoodMail(mail)' /\ Removed(mail)' = Removed(mail')
  BY DEF GoodMail, Removed, Removals
<1>2. Numbers'
  BY <1>1 DEF IInv, Numbers
<1>3. BoxOnTop'
  BY DEF IInv, BoxOnTop, Shown, Preparing
<1>4. Held'
  BY <1>1 DEF IInv, Held, Usable
<1> QED BY <1>1, <1>2, <1>3, <1>4 DEF IInv

LEMMA EmptyMail == GoodMail(<<>>) /\ Removed(<<>>) = {}
<1>1. <<>> \in Seq({}) /\ Len(<<>>) = 0
  OBVIOUS
<1> QED BY <1>1 DEF GoodMail, Removed, Removals

LEMMA InitIInv == Init => IInv
BY EmptyMail DEF Init, IInv, Numbers, BoxOnTop, Held, Shown, Preparing

-----------------------------------------------------------------------------
(* Preparing a scene: only the arena asks for a watch.                     *)
LEMMA PreparingKeeps ==
  ASSUME IInv,
         PrepareSplash \/ PrepareMenu \/ PrepareAuthors \/ PrepareScreen \/ PrepareStatus \/ PrepareDemo
  PROVE  IInv'
<1>1. UNCHANGED <<monitors, dirty, counter, statuses, configWatch, top>>
  BY DEF PrepareSplash, PrepareMenu, PrepareAuthors, PrepareScreen, PrepareStatus, PrepareDemo,
         watchVars, arenaVars
<1>2. GoodMail(mail') /\ Removed(mail') = Removed(mail)
  <2>1. mail' = mail \/ mail' = Append(mail, <<"exit", 0>>)
    BY DEF PrepareSplash, PrepareMenu, PrepareAuthors, PrepareScreen, PrepareStatus, PrepareDemo, ToMain
  <2>2. <<"exit", 0>>[1] = "exit"
    OBVIOUS
  <2> QED BY <2>1, <2>2, AppendOther DEF IInv
<1>3. /\ pc \in Preparing
      /\ pc' \in {"crashed", "frame", "prepareStatus", "prepareBox"}
      /\ "arenaBox" \notin boxes /\ "arenaBox" \notin boxes'
  BY DEF PrepareSplash, PrepareMenu, PrepareAuthors, PrepareScreen, PrepareStatus, PrepareDemo,
         Register, arenaVars, Preparing, IInv, BoxOnTop
<1>4. pc' = "frame" => top # "arena"
  BY DEF PrepareSplash, PrepareMenu, PrepareAuthors, PrepareScreen, PrepareStatus, PrepareDemo, Register
<1>5. pc' \in {"prepareStatus", "prepareBox"} => top = "arena"
  BY DEF PrepareSplash, PrepareMenu, PrepareAuthors, PrepareScreen, PrepareStatus, PrepareDemo, Register,
         IInv, BoxOnTop
<1>6. GoodMail(mail)' /\ Removed(mail)' = Removed(mail)
  BY <1>2 DEF GoodMail, Removed, Removals
<1>7. Numbers'
  BY <1>1, <1>6 DEF IInv, Numbers
<1>8. BoxOnTop'
  BY <1>1, <1>3, <1>4, <1>5 DEF BoxOnTop, Shown, Preparing
<1>9. Held'
  BY <1>1, <1>3 DEF IInv, Held
<1> QED BY <1>6, <1>7, <1>8, <1>9 DEF IInv

LEMMA PrepareBoxKeeps == ASSUME IInv, PrepareBox PROVE IInv'
<1> USE DEF PrepareBox
<1>1. GoodMail(mail') /\ Removed(mail') = Removed(mail)
  BY AppendOther DEF ToMain, IInv
<1>2. GoodMail(mail)' /\ Removed(mail)' = Removed(mail)
  BY <1>1 DEF GoodMail, Removed, Removals
<1>3. Numbers'
  BY <1>2 DEF IInv, Numbers, watchVars
<1>4. BoxOnTop'
  BY DEF IInv, BoxOnTop, Shown, Preparing
<1>5. Held'
  <2>1. "arenaBox" \notin boxes /\ statuses' = statuses /\ configWatch' = -1
    BY DEF IInv, BoxOnTop, Preparing, WatchAtPrepare, WatchUnset
  <2>2. statuses' = <<>> /\ Len(<<>>) = 0
    BY <2>1 DEF IInv, Held
  <2> QED BY <2>1, <2>2 DEF IInv, Held, Usable
<1> QED BY <1>2, <1>3, <1>4, <1>5 DEF IInv

(* Leaving a scene: the arena gives back the number it has, of which it    *)
(* was the only holder.                                                    *)
LEMMA CleanupKeeps ==
  ASSUME IInv, pc = "mail", mail # <<>>, Cleanup(Tail(mail)), pc' \in {"prepare", "done"}
  PROVE  IInv'
<1> USE DEF Cleanup
<1>1. /\ GoodMail(Tail(mail)) /\ Removed(Tail(mail)) \subseteq Removed(mail)
  BY TakeMessage DEF IInv
<1>2. GoodMail(mail') /\ Removed(mail') \subseteq monitors
  <2>1. CASE top = "arena" /\ configWatch # -1
    <3>1. configWatch \in monitors \ Removed(mail)
      BY <2>1 DEF IInv, BoxOnTop, Shown, Held, Usable
    <3>2. mail' = Append(Tail(mail), <<"rmWatch", configWatch>>)
      BY <2>1
    <3>3. GoodMail(mail') /\ Removed(mail') = Removed(Tail(mail)) \cup {configWatch}
      BY <1>1, <3>1, <3>2, AppendRemoval
    <3> QED BY <1>1, <3>1, <3>3 DEF IInv, Numbers
  <2>2. CASE ~(top = "arena" /\ configWatch # -1)
    BY <1>1, <2>2 DEF IInv, Numbers
  <2> QED BY <2>1, <2>2
<1>3. GoodMail(mail)' /\ Removed(mail)' = Removed(mail')
  BY <1>2 DEF GoodMail, Removed, Removals
<1>4. Numbers'
  BY <1>2, <1>3 DEF IInv, Numbers, watchVars
<1>5. "arenaBox" \notin boxes' /\ statuses' = <<>>
  BY DEF IInv, BoxOnTop, Held, BoxesOf
<1>6. BoxOnTop'
  BY <1>5 DEF BoxOnTop, Shown, Preparing
<1>7. Held'
  <2>1. <<>> \in Seq({}) /\ Len(<<>>) = 0
    OBVIOUS
  <2> QED BY <1>5, <2>1 DEF Held
<1> QED BY <1>3, <1>4, <1>6, <1>7 DEF IInv

-----------------------------------------------------------------------------
(* The arena reads its box: the last number is what it has from now on.    *)
LEMMA UpdateArenaKeeps == ASSUME IInv, UpdateArena PROVE IInv'
<1> USE DEF UpdateArena
<1>1. GoodMail(mail)' /\ Removed(mail)' = Removed(mail)
  BY DEF IInv, GoodMail, Removed, Removals
<1>2. Numbers'
  BY <1>1 DEF IInv, Numbers, watchVars
<1>3. BoxOnTop'
  BY DEF IInv, BoxOnTop, Shown, Preparing
<1>4. "arenaBox" \in boxes => Usable(configWatch')
  <2>1. Len(statuses) \in Nat /\ (statuses # <<>> => Len(statuses) > 0)
    BY DEF IInv, Held
  <2>2. \/ configWatch' = configWatch
        \/ statuses # <<>> /\ configWatch' = statuses[Len(statuses)]
    BY DEF Last
  <2> QED BY <2>1, <2>2 DEF IInv, Held
<1>5. Held'
  <2>1. <<>> \in Seq({}) /\ Len(<<>>) = 0
    OBVIOUS
  <2>2. monitors' = monitors /\ boxes' = boxes /\ statuses' = <<>>
    BY DEF watchVars
  <2> QED BY <1>1, <1>4, <2>1, <2>2 DEF Held, Usable
<1> QED BY <1>1, <1>2, <1>3, <1>5 DEF IInv

(* The main loop answers a request with a new number.                      *)
LEMMA WatchKeeps == ASSUME IInv, Watch PROVE IInv'
<1>1. mail # <<>> /\ mail' = Tail(mail) /\ Head(mail)[1] = "watch" /\ pc = "mail" /\ pc' = "frame"
      /\ UNCHANGED <<top, boxes, configWatch>>
  BY DEF Watch, Received
<1>2. GoodMail(mail') /\ Removed(mail') \subseteq Removed(mail) /\ Head(mail)[2] = "arenaBox"
  BY <1>1, TakeMessage DEF IInv
<1>3. GoodMail(mail)' /\ Removed(mail)' = Removed(mail')
  BY <1>2 DEF GoodMail, Removed, Removals
<1>4. PICK good \in BOOLEAN :
        /\ monitors' = IF good THEN monitors \cup {counter} ELSE monitors
        /\ counter' = IF good THEN counter + 1 ELSE counter
        /\ dirty' = dirty
        /\ "arenaBox" \in boxes => statuses' = Append(statuses, IF good THEN counter ELSE -1)
        /\ "arenaBox" \notin boxes => statuses' = statuses
  BY <1>2 DEF Watch
<1>5. Numbers'
  BY <1>2, <1>3, <1>4 DEF IInv, Numbers
<1>6. BoxOnTop'
  BY <1>1 DEF IInv, BoxOnTop, Shown, Preparing
<1>7. \A n : Usable(n) => Usable(n)'
  BY <1>2, <1>3, <1>4 DEF Usable
<1>8. \A n : n = (IF good THEN counter ELSE -1) => Usable(n)'
  BY <1>2, <1>3, <1>4 DEF IInv, Numbers, Usable
<1>9. Held'
  <2>1. CASE "arenaBox" \in boxes
    <3>1. PICK n : n = (IF good THEN counter ELSE -1)
      OBVIOUS
    <3>2. PICK S : statuses \in Seq(S)
      BY DEF IInv, Held
    <3>3. statuses \in Seq(S \cup {n}) /\ n \in S \cup {n} /\ statuses' = Append(statuses, n)
      BY <1>4, <2>1, <3>1, <3>2
    <3>4. /\ statuses' \in Seq(S \cup {n}) /\ Len(statuses') = Len(statuses) + 1
          /\ \A i \in 1 .. Len(statuses') : statuses'[i] = IF i <= Len(statuses) THEN statuses[i] ELSE n
      BY <3>3
    <3>5. \A i \in 1 .. Len(statuses') : Usable(statuses'[i]) \/ statuses'[i] = n
      BY <3>2, <3>4 DEF IInv, Held
    <3>6. (\A i \in 1 .. Len(statuses) : Usable(statuses[i]))'
      BY <1>7, <1>8, <3>1, <3>5
    <3>7. Usable(configWatch)'
      BY <1>1, <1>7, <2>1 DEF IInv, Held
    <3> QED BY <1>1, <2>1, <3>4, <3>6, <3>7 DEF Held
  <2>2. CASE "arenaBox" \notin boxes
    BY <1>1, <1>4, <1>7, <2>2 DEF IInv, Held
  <2> QED BY <2>1, <2>2
<1> QED BY <1>3, <1>5, <1>6, <1>9 DEF IInv

(* It gives a monitor up; nobody else has its number.                      *)
LEMMA RmWatchKeeps == ASSUME IInv, RmWatch PROVE IInv'
<1>1. /\ mail # <<>> /\ mail' = Tail(mail) /\ Head(mail)[1] = "rmWatch" /\ pc = "mail" /\ pc' = "frame"
      /\ monitors' = monitors \ {Head(mail)[2]} /\ dirty' = dirty \ {Head(mail)[2]}
      /\ UNCHANGED <<top, boxes, configWatch, statuses, counter>>
  BY DEF RmWatch, Received, arenaVars
<1>2. /\ GoodMail(mail') /\ Removed(mail') \subseteq Removed(mail)
      /\ Head(mail)[2] \in Removed(mail) \ Removed(mail')
  BY <1>1, TakeMessage DEF IInv
<1>3. GoodMail(mail)' /\ Removed(mail)' = Removed(mail')
  BY <1>2 DEF GoodMail, Removed, Removals
<1>4. Numbers'
  BY <1>1, <1>2, <1>3 DEF IInv, Numbers
<1>5. BoxOnTop'
  BY <1>1 DEF IInv, BoxOnTop, Shown, Preparing
<1>6. \A n : Usable(n) => Usable(n)'
  BY <1>1, <1>2, <1>3 DEF Usable
<1>7. Held'
  BY <1>1, <1>6 DEF IInv, Held
<1> QED BY <1>3, <1>4, <1>5, <1>7 DEF IInv

(* A choice in the menu becomes an exit or a change of scene.              *)
LEMMA ProcessGameActionKeeps == ASSUME IInv, ProcessGameAction PROVE IInv'
<1> USE DEF ProcessGameAction, Received
<1>1. GoodMail(Tail(mail)) /\ Removed(Tail(mail)) \subseteq Removed(mail)
  BY TakeMessage DEF IInv
<1>2. PICK S : Tail(mail) \in Seq(S)
  BY <1>1 DEF GoodMail
<1>3. \/ mail' = Tail(mail) \o <<>>
      \/ \E m : mail' = Tail(mail) \o <<m>> /\ m[1] \in {"exit", "changeScene"}
  <2> DEFINE a == Head(mail)[2]
  <2>1. CASE a = "exit"
    <3>1. mail' = Tail(mail) \o << <<"exit", 0>> >>
      BY <2>1
    <3>2. \E m : mail' = Tail(mail) \o <<m>> /\ m[1] \in {"exit", "changeScene"}
      <4> WITNESS <<"exit", 0>>
      <4> QED BY <3>1
    <3> QED BY <3>2
  <2>2. CASE a = "settings"
    BY <2>2
  <2>3. CASE a \notin {"exit", "settings"}
    <3>1. mail' = Tail(mail) \o << <<"changeScene", SceneFor[a]>> >>
      BY <2>3
    <3>2. \E m : mail' = Tail(mail) \o <<m>> /\ m[1] \in {"exit", "changeScene"}
      <4> WITNESS <<"changeScene", SceneFor[a]>>
      <4> QED BY <3>1
    <3> QED BY <3>2
  <2> QED BY <2>1, <2>2, <2>3
<1>4. ASSUME GoodMail(mail'), Removed(mail') \subseteq Removed(mail) PROVE IInv'
  <2>1. UNCHANGED <<monitors, dirty, counter, boxes, statuses, configWatch, top>>
        /\ pc \in Shown /\ pc' \in Shown
    BY DEF Shown, arenaVars, watchVars
  <2> QED BY <1>4, <2>1, Posting DEF IInv, Numbers
<1>5. CASE mail' = Tail(mail) \o <<>>
  <2>1. mail' = Tail(mail)
    BY <1>2, <1>5
  <2> QED BY <1>1, <1>4, <2>1
<1>6. ASSUME NEW m, mail' = Tail(mail) \o <<m>>, m[1] \in {"exit", "changeScene"} PROVE IInv'
  <2>1. Tail(mail) \in Seq(S \cup {m}) /\ m \in S \cup {m}
    BY <1>2
  <2>2. mail' = Append(Tail(mail), m)
    BY <1>6, <2>1
  <2>3. GoodMail(mail') /\ Removed(mail') = Removed(Tail(mail))
    BY <1>1, <1>6, <2>2, AppendOther
  <2> QED BY <1>1, <1>4, <2>3
<1> QED BY <1>3, <1>5, <1>6

LEMMA Repeated ==
  ASSUME NEW s, NEW n \in Nat, NEW m, s = [i \in 1 .. n |-> m], m[1] \notin {"watch", "rmWatch"}
  PROVE  GoodMail(s) /\ Removed(s) = {}
<1>1. s \in Seq({m}) /\ Len(s) = n
  OBVIOUS
<1>2. \A i \in 1 .. Len(s) : s[i] = m
  BY <1>1
<1> QED BY <1>1, <1>2 DEF GoodMail, Removed, Removals

(* Every monitor that saw a change asks for the arena.                     *)
LEMMA CheckMonitorsKeeps == ASSUME IInv, CheckMonitors PROVE IInv'
<1> DEFINE n == Cardinality(dirty)
<1> USE DEF CheckMonitors
<1>1. n \in Nat
  <2>1. IsFiniteSet(0 .. counter) /\ dirty \subseteq 0 .. counter
    BY FS_Interval DEF IInv, Numbers
  <2> QED BY <2>1, FS_Subset, FS_CardinalityType
<1>2. mail' = [i \in 1 .. n |-> <<"changeScene", "arena">>] /\ dirty' = {}
  OBVIOUS
<1> HIDE DEF n
<1>3. GoodMail(mail') /\ Removed(mail') = {}
  <2> DEFINE m == <<"changeScene", "arena">>
  <2>1. m[1] = "changeScene" /\ mail' = [i \in 1 .. n |-> m]
    BY <1>2
  <2> HIDE DEF m, CheckMonitors
  <2> QED BY <1>1, <2>1, Repeated
<1>4. UNCHANGED <<monitors, counter, boxes, statuses, configWatch, top>> /\ pc \in Shown /\ pc' \in Shown
  BY DEF Shown, arenaVars
<1>5. dirty' \subseteq monitors /\ Removed(mail') \subseteq Removed(mail)
  BY <1>2, <1>3
<1> HIDE DEF CheckMonitors
<1> QED BY <1>3, <1>4, <1>5, Posting

-----------------------------------------------------------------------------
(* The steps of a frame that neither take nor post.                        *)
LEMMA FrameKeeps ==
  ASSUME IInv, \/ UpdateSplash \/ UpdateMenu \/ UpdateAuthors \/ TakeAnswer \/ EndUpdate
               \/ \E k \in Keys : PressKey(k)
               \/ FileChanges
  PROVE  IInv'
<1>1. CASE UpdateSplash
  <2>1. mail' = mail \/ mail' = Append(mail, <<"changeScene", "mainMenu">>)
    BY <1>1 DEF UpdateSplash, ToMain
  <2>2. <<"changeScene", "mainMenu">>[1] = "changeScene"
    OBVIOUS
  <2>3. GoodMail(mail') /\ Removed(mail') = Removed(mail)
    BY <2>1, <2>2, AppendOther DEF IInv
  <2>4. UNCHANGED <<monitors, dirty, counter, boxes, statuses, configWatch, top>> /\ pc \in Shown /\ pc' \in Shown
    BY <1>1 DEF UpdateSplash, Shown, arenaVars, watchVars
  <2> QED BY <2>3, <2>4, Posting DEF IInv, Numbers
<1>2. CASE ~UpdateSplash
  <2>1. UNCHANGED <<mail, monitors, counter, boxes, statuses, configWatch, top>>
    BY <1>2 DEF UpdateMenu, UpdateAuthors, TakeAnswer, EndUpdate, PressKey, FileChanges,
                mainVars, arenaVars, watchVars
  <2>2. dirty' \subseteq monitors
    BY <1>2 DEF UpdateMenu, UpdateAuthors, TakeAnswer, EndUpdate, PressKey, FileChanges, watchVars,
                IInv, Numbers
  <2>3. pc \in Shown /\ pc' \in Shown \cup {"done"}
    BY <1>2 DEF UpdateMenu, UpdateAuthors, TakeAnswer, EndUpdate, PressKey, FileChanges, mainVars, Shown
  <2> QED BY <2>1, <2>2, <2>3, Elsewhere
<1> QED BY <1>1, <1>2

(* The actors post choices and changes of scene, or nothing.               *)
LEMMA WorkKeeps ==
  ASSUME IInv, NEW n \in Actors, Work(n)
  PROVE  IInv'
<1>1. UNCHANGED <<monitors, dirty, counter, boxes, statuses, configWatch, top>>
  BY DEF Work, SelectLine, EnterLine, Leave, IgnoreKey, Step, TakeMap, TakePoison, Bury,
         mainVars, arenaVars, watchVars
<1>2. CASE mail' = mail
  <2>1. pc' = pc \/ pc' = "crashed"
    BY DEF Work, SelectLine, EnterLine, Leave, IgnoreKey, Step, TakeMap, TakePoison, Bury, mainVars
  <2> QED BY <1>1, <1>2, <2>1, Elsewhere DEF IInv, Numbers
<1>3. CASE mail' # mail
  <2>1. (\E a : mail' = Append(mail, <<"action", a>>)) \/ mail' = Append(mail, <<"changeScene", "mainMenu">>)
    BY <1>3 DEF Work, SelectLine, EnterLine, Leave, IgnoreKey, Step, TakeMap, TakePoison, Bury, mainVars,
                ToMain
  <2>2. pc' = pc
    BY <1>3 DEF Work, SelectLine, EnterLine, Leave, IgnoreKey, Step, TakeMap, TakePoison, Bury, mainVars
  <2>3. \A a : <<"action", a>>[1] = "action" /\ <<"changeScene", "mainMenu">>[1] = "changeScene"
    OBVIOUS
  <2>4. GoodMail(mail') /\ Removed(mail') = Removed(mail)
    BY <2>1, <2>3, AppendOther DEF IInv
  <2> QED BY <1>1, <2>2, <2>4, Posting DEF IInv, Numbers
<1> QED BY <1>2, <1>3

LEMMA NextIInv == IInv /\ [Next]_vars => IInv'
<1> SUFFICES ASSUME IInv, [Next]_vars PROVE IInv'
  OBVIOUS
<1>1. CASE \/ PrepareSplash \/ PrepareMenu \/ PrepareAuthors \/ PrepareScreen \/ PrepareStatus
           \/ PrepareDemo \/ PrepareBox
  BY <1>1, PreparingKeeps, PrepareBoxKeeps
<1>2. CASE \/ UpdateSplash \/ UpdateMenu \/ UpdateAuthors \/ TakeAnswer \/ EndUpdate
           \/ \E k \in Keys : PressKey(k)
           \/ FileChanges
  BY <1>2, FrameKeeps
<1>3. CASE ChangeScene \/ Exit
  <2>1. pc = "mail" /\ mail # <<>> /\ Cleanup(Tail(mail)) /\ pc' \in {"prepare", "done"}
    BY <1>3 DEF ChangeScene, Exit, Received
  <2> QED BY <2>1, CleanupKeeps
<1>4. CASE UpdateArena \/ Watch \/ RmWatch \/ ProcessGameAction \/ CheckMonitors
  BY <1>4, UpdateArenaKeeps, WatchKeeps, RmWatchKeeps, ProcessGameActionKeeps, CheckMonitorsKeeps
<1>5. CASE \E n \in Actors : Work(n)
  BY <1>5, WorkKeeps
<1>6. CASE Generate \/ UNCHANGED vars
  <2>1. UNCHANGED <<mail, monitors, dirty, counter, boxes, statuses, configWatch, top, pc>>
    BY <1>6 DEF Generate, vars, mainVars, arenaVars, watchVars
  <2> QED BY <2>1, Elsewhere DEF IInv, Numbers
<1> QED BY <1>1, <1>2, <1>3, <1>4, <1>5, <1>6 DEF Next, MainLoop

(* Whatever scenes follow each other, with whatever messages still under   *)
(* way to the scenes before: a watch that is given back is one the main    *)
(* loop still has (sub3000.cpp:200-228, arena.cpp:142-215).                *)
THEOREM RemovalsFindMonitors == Spec => []RemovalFindsMonitor
<1>1. Init => IInv
  BY InitIInv
<1>2. IInv /\ [Next]_vars => IInv'
  BY NextIInv
<1>3. IInv => RemovalFindsMonitor
  BY DEF IInv, Numbers, Removed, Removals, RemovalFindsMonitor
<1> QED BY <1>1, <1>2, <1>3, PTL DEF Spec

-----------------------------------------------------------------------------
(* The menu.  Whatever its model did for an earlier menu, the first thing  *)
(* in the box after a Prepare is the new selection, so the last line in    *)
(* the box, or the shown one when the box was read, is the selected one.   *)
MenuInv ==
  /\ selected \in Nat
  /\ view \in Seq(Nat)
  /\ pc \in Shown /\ top = "mainMenu" =>
       textLines = Len(Lines) /\ selected < Len(Lines) /\ Last(view, shown) = selected

LEMMA LastOfAppend ==
  \A y : \A s \in Seq(Nat), x \in Nat :
    /\ Append(s, x) \in Seq(Nat)
    /\ s \o <<x>> = Append(s, x)
    /\ Last(Append(s, x), y) = x
<1> TAKE y
<1> TAKE s \in Seq(Nat), x \in Nat
<1>1. /\ Append(s, x) \in Seq(Nat) /\ Append(s, x) # <<>>
      /\ s \o <<x>> = Append(s, x)
      /\ Append(s, x)[Len(Append(s, x))] = x
  OBVIOUS
<1> QED BY <1>1 DEF Last

(* Steps that leave the menu alone, or leave the menu.                     *)
LEMMA MenuAlone ==
  ASSUME MenuInv, UNCHANGED <<selected, view, shown>>,
         \/ UNCHANGED <<textLines, top>> /\ (pc' \in Shown => pc \in Shown)
         \/ pc' \notin Shown
         \/ top' # "mainMenu"
  PROVE  MenuInv'
BY DEF MenuInv

LEMMA PrepareMenuShows == ASSUME MenuInv, PrepareMenu PROVE MenuInv'
<1>1. /\ selected' = 0 /\ view' = view \o <<0>> /\ textLines' = Len(Lines)
      /\ Len(Lines) \in Nat /\ Len(Lines) > 0
  BY ScenesAssumption DEF PrepareMenu, MenuView, FirstView
<1>2. view \in Seq(Nat) /\ 0 \in Nat
  BY DEF MenuInv
<1>3. view' = Append(view, 0)
  BY <1>1, <1>2
<1>4. view' \in Seq(Nat) /\ Last(view', shown') = 0
  BY <1>2, <1>3, LastOfAppend
<1> QED BY <1>1, <1>4 DEF MenuInv

LEMMA UpdateMenuShows == ASSUME MenuInv, UpdateMenu PROVE MenuInv'
<1>1. shown' = Last(view, shown) /\ view' = <<>> /\ UNCHANGED <<textLines, selected, top>>
      /\ pc \in Shown
  BY DEF UpdateMenu, Shown
<1>2. Last(view', shown') = shown'
  BY <1>1 DEF Last
<1>3. view' \in Seq(Nat)
  BY <1>1
<1> QED BY <1>1, <1>2, <1>3 DEF MenuInv

LEMMA SelectLineShows == ASSUME MenuInv, SelectLine PROVE MenuInv'
<1>1. UNCHANGED <<pc, top, textLines, shown>>
  BY DEF SelectLine, mainVars
<1>2. selected' \in {selected, selected - 1, selected + 1} /\ selected' \in Nat
      /\ (selected' = selected + 1 => MayGoDown)
  BY DEF SelectLine, MenuInv
<1>3. /\ selected' # selected => view' = Append(view, selected')
      /\ selected' = selected => view' = view
  BY DEF SelectLine
<1>4. ASSUME pc \in Shown, top = "mainMenu" PROVE selected' < Len(Lines)
  <2>1. textLines = Len(Lines) /\ selected < Len(Lines) /\ selected \in Nat /\ Len(Lines) \in Nat
    BY <1>4, ScenesAssumption DEF MenuInv
  <2> QED BY <1>2, <2>1 DEF MayGoDown
<1>5. view \in Seq(Nat)
  BY DEF MenuInv
<1>6. CASE selected' # selected
  <2>0. view' = Append(view, selected') /\ selected' \in Nat
    BY <1>2, <1>3, <1>6
  <2>1. view' \in Seq(Nat) /\ Last(view', shown') = selected'
    BY <1>5, <2>0, LastOfAppend
  <2> QED BY <1>1, <1>2, <1>4, <2>1 DEF MenuInv
<1>7. CASE selected' = selected
  BY <1>1, <1>2, <1>3, <1>4, <1>7 DEF MenuInv
<1> QED BY <1>6, <1>7

LEMMA NextMenuInv == IInv /\ MenuInv /\ [Next]_vars => MenuInv'
<1> SUFFICES ASSUME IInv, MenuInv, [Next]_vars PROVE MenuInv'
  OBVIOUS
<1>1. CASE PrepareMenu \/ UpdateMenu \/ SelectLine
  BY <1>1, PrepareMenuShows, UpdateMenuShows, SelectLineShows
<1>2. CASE \/ PrepareSplash \/ PrepareAuthors \/ PrepareScreen \/ PrepareStatus \/ PrepareBox
           \/ PrepareDemo
  <2>1. UNCHANGED <<selected, view, shown, textLines, top>>
    BY <1>2 DEF PrepareSplash, PrepareAuthors, PrepareScreen, PrepareStatus, PrepareBox, PrepareDemo, menuVars
  <2>2. top' # "mainMenu" \/ pc' \notin Shown
    BY <1>2 DEF PrepareSplash, PrepareAuthors, PrepareScreen, PrepareStatus, PrepareBox, PrepareDemo,
                Register, Shown, IInv, BoxOnTop
  <2> QED BY <2>1, <2>2, MenuAlone
<1>3. CASE \/ UpdateSplash \/ UpdateAuthors \/ UpdateArena \/ TakeAnswer \/ EndUpdate
           \/ ProcessGameAction \/ Watch \/ RmWatch \/ CheckMonitors
           \/ (\E k \in Keys : PressKey(k)) \/ FileChanges \/ Generate \/ UNCHANGED vars
  <2>1. UNCHANGED <<selected, view, shown, textLines, top>> /\ (pc' \in Shown => pc \in Shown)
    BY <1>3 DEF UpdateSplash, UpdateAuthors, UpdateArena, TakeAnswer, EndUpdate, ProcessGameAction, Watch,
                RmWatch, CheckMonitors, PressKey, FileChanges, Generate, Received, vars, mainVars, menuVars, Shown
  <2> QED BY <2>1, MenuAlone
<1>4. CASE ChangeScene \/ Exit
  <2>1. UNCHANGED <<selected, view, shown>> /\ pc' \notin Shown
    BY <1>4 DEF ChangeScene, Exit, Cleanup, Shown
  <2> QED BY <2>1, MenuAlone
<1>5. ASSUME NEW n \in Actors, Work(n), ~SelectLine PROVE MenuInv'
  <2>1. UNCHANGED <<selected, view, shown, textLines, top>> /\ (pc' = pc \/ pc' = "crashed")
    BY <1>5 DEF Work, EnterLine, Leave, IgnoreKey, Step, TakeMap, TakePoison, Bury, mainVars, menuVars
  <2> QED BY <2>1, MenuAlone DEF Shown
<1> QED BY <1>1, <1>2, <1>3, <1>4, <1>5 DEF Next, MainLoop

(* The line the menu shows is the line Enter acts on, for any menu and     *)
(* whatever menu, with whatever keys still in its mailbox, was there       *)
(* before (main_menu.cpp).                                                 *)
THEOREM MenuShows == Spec => []MenuShowsSelection
<1>1. Init => MenuInv
  BY DEF Init, MenuInv, Shown
<1>2. MenuInv => MenuShowsSelection
  BY DEF MenuInv, MenuShowsSelection, Shown, Last
<1> QED BY <1>1, <1>2, NextMenuInv, InitIInv, NextIInv, PTL DEF Spec

-----------------------------------------------------------------------------
(* The actors of a scene.  Owned(n): n lives and has not been told to die. *)
(* Only a Prepare makes an actor owned and only a Cleanup's poison ends    *)
(* it; what the poisoned one still does on its way out changes neither.    *)
Posts == Keys \cup {"poison", "step", "hmDone"}

ActorTypes ==
  /\ life \in [Actors -> {"none", "live", "sick"}]
  /\ inbox \in [Actors -> Seq(Posts)]

Owned(n) == life[n] = "live" /\ ~Poisoned(n)

(* At each point of the way from one scene to the next.                    *)
OwnerAt ==
  /\ pc = "prepare" => boxes = {} /\ \A n \in Actors : ~Owned(n)
  /\ pc \in {"prepareStatus", "prepareBox"} =>
       /\ top = "arena"
       /\ \A n \in Actors : Owned(n) <=> n = "space"
  /\ pc = "prepareStatus" => boxes = {"arenaScreen"}
  /\ pc = "prepareBox" => boxes = {"arenaScreen", "arenaStatus"}
  /\ pc \in Shown \cup {"done"} =>
       /\ boxes = BoxesOf[top]
       /\ \A n \in Actors : Owned(n) <=> n = ActorOf[top]
  /\ pc \in Shown \cup {"prepare", "prepareStatus", "prepareBox", "done", "crashed"}

OwnerInv == ActorTypes /\ OwnerAt

(* What a mailbox that is not poisoned looks like after a post or a take.  *)
LEMMA PoisonInAppend ==
  \A s \in Seq(Posts), m \in Posts :
    /\ Append(s, m) \in Seq(Posts)
    /\ (\E i \in 1 .. Len(Append(s, m)) : Append(s, m)[i] = "poison")
         <=> m = "poison" \/ \E i \in 1 .. Len(s) : s[i] = "poison"
<1> TAKE s \in Seq(Posts), m \in Posts
<1> DEFINE t == Append(s, m)
<1>1. t \in Seq(Posts) /\ Len(t) = Len(s) + 1 /\ Len(s) \in Nat
  OBVIOUS
<1>2. \A i \in 1 .. Len(t) : t[i] = IF i <= Len(s) THEN s[i] ELSE m
  BY <1>1
<1>3. 1 .. Len(t) = 1 .. Len(s) \cup {Len(s) + 1}
  BY <1>1
<1> HIDE DEF t
<1>4. (\E i \in 1 .. Len(t) : t[i] = "poison")
       <=> m = "poison" \/ \E i \in 1 .. Len(s) : s[i] = "poison"
  BY <1>1, <1>2, <1>3
<1> QED BY <1>1, <1>4 DEF t

LEMMA PoisonInTail ==
  \A s \in Seq(Posts) : s # <<>> =>
    /\ Tail(s) \in Seq(Posts) /\ Head(s) \in Posts
    /\ (\E i \in 1 .. Len(s) : s[i] = "poison")
         <=> Head(s) = "poison" \/ \E i \in 1 .. Len(Tail(s)) : Tail(s)[i] = "poison"
<1> TAKE s \in Seq(Posts)
<1> HAVE s # <<>>
<1> DEFINE t == Tail(s)
<1>1. /\ t \in Seq(Posts) /\ Head(s) \in Posts /\ Len(s) \in Nat \ {0}
      /\ Len(t) = Len(s) - 1 /\ Head(s) = s[1]
  OBVIOUS
<1>2. \A i \in 1 .. Len(t) : t[i] = s[i + 1]
  BY <1>1
<1> HIDE DEF t
<1>3. \A i \in 1 .. Len(s) : i = 1 \/ (i - 1 \in 1 .. Len(t) /\ s[i] = t[i - 1])
  BY <1>1, <1>2
<1>4. \A i \in 1 .. Len(t) : i + 1 \in 1 .. Len(s)
  BY <1>1
<1>5. (\E i \in 1 .. Len(s) : s[i] = "poison")
       <=> Head(s) = "poison" \/ \E i \in 1 .. Len(t) : t[i] = "poison"
  BY <1>1, <1>2, <1>3, <1>4
<1> QED BY <1>1, <1>5 DEF t

(* A post of anything but a poison changes no owner, a poison ends one.    *)
LEMMA DeliveredOwned ==
  ASSUME ActorTypes, life' = life, NEW n, NEW m \in Posts, inbox' = Delivered(n, m)
  PROVE  /\ ActorTypes'
         /\ \A k \in Actors : Owned(k)' <=> Owned(k) /\ (k # n \/ m # "poison")
<1>1. CASE n \in Actors /\ life[n] # "none"
  <2>1. inbox' = [inbox EXCEPT ![n] = Append(inbox[n], m)] /\ inbox[n] \in Seq(Posts)
    BY <1>1 DEF Delivered, IsThere, ActorTypes
  <2>2. ActorTypes'
    BY <1>1, <2>1, PoisonInAppend DEF ActorTypes
  <2>3. \A k \in Actors : k # n => inbox'[k] = inbox[k]
    BY <2>1 DEF ActorTypes
  <2>4. inbox'[n] = Append(inbox[n], m)
    BY <1>1, <2>1 DEF ActorTypes
  <2>5. Poisoned(n)' <=> m = "poison" \/ Poisoned(n)
    BY <2>1, <2>4, PoisonInAppend DEF Poisoned
  <2> QED BY <1>1, <2>2, <2>3, <2>5 DEF Owned, Poisoned
<1>2. CASE ~(n \in Actors /\ life[n] # "none")
  BY <1>2 DEF Delivered, IsThere, ActorTypes, Owned, Poisoned
<1> QED BY <1>1, <1>2

(* An actor takes a message: the poison makes it sick, the others nothing. *)
LEMMA HandledOwned ==
  ASSUME ActorTypes, NEW n \in Actors, inbox[n] # <<>>, life[n] = "live", Handled(n),
         life' = IF Head(inbox[n]) = "poison" THEN [life EXCEPT ![n] = "sick"] ELSE life
  PROVE  ActorTypes' /\ \A k \in Actors : Owned(k)' <=> Owned(k)
<1>1. inbox' = [inbox EXCEPT ![n] = Tail(inbox[n])] /\ inbox[n] \in Seq(Posts)
  BY DEF Handled, ActorTypes
<1>2. ActorTypes'
  BY <1>1, PoisonInTail DEF ActorTypes
<1>3. inbox'[n] = Tail(inbox[n]) /\ \A k \in Actors : k # n => inbox'[k] = inbox[k] /\ life'[k] = life[k]
  BY <1>1 DEF ActorTypes
<1>4. Poisoned(n) <=> Head(inbox[n]) = "poison" \/ Poisoned(n)'
  BY <1>1, <1>3, PoisonInTail DEF Poisoned
<1>5. life'[n] = IF Head(inbox[n]) = "poison" THEN "sick" ELSE "live"
  BY DEF ActorTypes
<1>6. Owned(n)' <=> Owned(n)
  BY <1>4, <1>5 DEF Owned
<1>7. ASSUME NEW k \in Actors, k # n PROVE Owned(k)' <=> Owned(k)
  BY <1>3, <1>7 DEF Owned, Poisoned
<1> QED BY <1>2, <1>6, <1>7

(* Preparing a scene registers its actor, or fails.                        *)
LEMMA RegisterOwned ==
  ASSUME ActorTypes, NEW n \in Actors, NEW first \in {<<>>, <<"hmDone">>}, NEW next, Register(n, first, next)
  PROVE  /\ ActorTypes'
         /\ pc' # "crashed" => pc' = next /\ \A k \in Actors : Owned(k)' <=> k = n \/ Owned(k)
<1>1. first \in Seq(Posts) /\ \A i \in 1 .. Len(first) : first[i] # "poison"
  <2>1. <<>> \in Seq(Posts) /\ Len(<<>>) = 0
    OBVIOUS
  <2>2. "hmDone" \in Posts
    BY DEF Posts
  <2>3. <<"hmDone">> \in Seq(Posts) /\ Len(<<"hmDone">>) = 1 /\ <<"hmDone">>[1] = "hmDone"
    BY <2>2
  <2>4. \A i \in 1 .. 1 : i = 1
    OBVIOUS
  <2>5. CASE first = <<>>
    BY <2>1, <2>5
  <2>6. CASE first = <<"hmDone">>
    BY <2>3, <2>4, <2>6
  <2> QED BY <2>5, <2>6
<1>2. CASE NameIsTaken(n)
  BY <1>2 DEF Register, actorVars, ActorTypes
<1>3. CASE ~NameIsTaken(n)
  <2>1. life' = [life EXCEPT ![n] = "live"] /\ inbox' = [inbox EXCEPT ![n] = first] /\ pc' = next
    BY <1>3 DEF Register
  <2>2. ActorTypes'
    BY <1>1, <2>1 DEF ActorTypes
  <2>3. \A k \in Actors : IF k = n THEN Owned(k)' ELSE Owned(k)' <=> Owned(k)
    BY <1>1, <2>1 DEF ActorTypes, Owned, Poisoned
  <2> QED BY <2>1, <2>2, <2>3
<1> QED BY <1>2, <1>3

-----------------------------------------------------------------------------
(* Steps after which the same actors are owned.                            *)
LEMMA SameOwners ==
  ASSUME OwnerInv, ActorTypes', UNCHANGED <<boxes, top>>,
         \A k \in Actors : Owned(k)' <=> Owned(k),
         \/ pc' = pc
         \/ pc' = "crashed"
         \/ pc \in Shown /\ pc' \in Shown \cup {"done"}
  PROVE  OwnerInv'
BY DEF OwnerInv, OwnerAt, Shown

LEMMA NobodyTouched ==
  ASSUME ActorTypes, UNCHANGED <<life, inbox>>
  PROVE  ActorTypes' /\ \A k \in Actors : Owned(k)' <=> Owned(k)
BY DEF ActorTypes, Owned, Poisoned

LEMMA PrepareOwns ==
  ASSUME OwnerInv, PrepareSplash \/ PrepareMenu \/ PrepareAuthors \/ PrepareScreen \/ PrepareDemo
  PROVE  OwnerInv'
<1>1. pc = "prepare" /\ boxes = {} /\ top' = top /\ \A k \in Actors : ~Owned(k)
  BY DEF PrepareSplash, PrepareMenu, PrepareAuthors, PrepareScreen, PrepareDemo, OwnerInv, OwnerAt
<1>2. CASE PrepareSplash
  <2>1. pc' = "frame" /\ boxes' = BoxesOf[top] /\ UNCHANGED <<life, inbox>> /\ ActorOf[top] = "nobody"
    BY <1>1, <1>2 DEF PrepareSplash, actorVars, arenaVars, BoxesOf, ActorOf
  <2>2. ActorTypes' /\ \A k \in Actors : ~Owned(k)' /\ k # "nobody"
    BY <1>1, <2>1, NobodyTouched DEF OwnerInv, Actors
  <2> QED BY <1>1, <2>1, <2>2 DEF OwnerInv, OwnerAt, Shown
<1>3. CASE PrepareMenu \/ PrepareAuthors \/ PrepareDemo
  <2>1. PICK n \in Actors, first \in {<<>>, <<"hmDone">>} :
          Register(n, first, "frame") /\ n = ActorOf[top] /\ boxes' = BoxesOf[top]
    <3>1. CASE PrepareMenu
      BY <1>1, <3>1 DEF PrepareMenu, Actors, ActorOf, BoxesOf, arenaVars
    <3>2. CASE PrepareAuthors
      BY <1>1, <3>2 DEF PrepareAuthors, Actors, ActorOf, BoxesOf, arenaVars
    <3>3. CASE PrepareDemo
      BY <1>1, <3>3 DEF PrepareDemo, Actors, ActorOf, BoxesOf, WorldMap
    <3> QED BY <1>3, <3>1, <3>2, <3>3
  <2>2. /\ ActorTypes'
        /\ pc' # "crashed" => pc' = "frame" /\ \A k \in Actors : Owned(k)' <=> k = n \/ Owned(k)
    BY <2>1, RegisterOwned DEF OwnerInv
  <2> QED BY <1>1, <2>1, <2>2 DEF OwnerInv, OwnerAt, Shown
<1>4. CASE PrepareScreen
  <2>1. PICK first \in {<<>>, <<"hmDone">>} : Register("space", first, "prepareStatus")
    BY <1>4 DEF PrepareScreen, WorldMap
  <2>2. "space" \in Actors /\ boxes' = {"arenaScreen"} /\ top = "arena"
    BY <1>1, <1>4 DEF PrepareScreen, Actors
  <2>3. /\ ActorTypes'
        /\ pc' # "crashed" => pc' = "prepareStatus" /\ \A k \in Actors : Owned(k)' <=> k = "space" \/ Owned(k)
    BY <2>1, <2>2, RegisterOwned DEF OwnerInv
  <2> QED BY <1>1, <2>2, <2>3 DEF OwnerInv, OwnerAt, Shown
<1> QED BY <1>2, <1>3, <1>4

LEMMA ArenaBoxesOwned ==
  ASSUME OwnerInv, PrepareStatus \/ PrepareBox
  PROVE  OwnerInv'
<1>1. UNCHANGED <<life, inbox, top>> /\ top = "arena" /\ \A n \in Actors : Owned(n) <=> n = "space"
  BY DEF PrepareStatus, PrepareBox, actorVars, OwnerInv, OwnerAt
<1>2. ActorTypes' /\ \A n \in Actors : Owned(n)' <=> n = "space"
  BY <1>1, NobodyTouched DEF OwnerInv
<1>3. CASE PrepareStatus
  <2>1. pc' = "prepareBox" /\ boxes' = {"arenaScreen", "arenaStatus"}
    BY <1>3 DEF PrepareStatus, OwnerInv, OwnerAt
  <2> QED BY <1>1, <1>2, <2>1 DEF OwnerInv, OwnerAt, Shown
<1>4. CASE PrepareBox
  <2>1. pc' = "frame" /\ boxes' = BoxesOf[top] /\ ActorOf[top] = "space"
    BY <1>1, <1>4 DEF PrepareBox, OwnerInv, OwnerAt, BoxesOf, ActorOf
  <2> QED BY <1>1, <1>2, <2>1 DEF OwnerInv, OwnerAt, Shown
<1> QED BY <1>3, <1>4

(* The poison reaches the one actor there is.                              *)
LEMMA LeavingDisowns ==
  ASSUME OwnerInv, ChangeScene \/ Exit
  PROVE  OwnerInv'
<1>1. /\ pc = "mail" /\ life' = life /\ inbox' = Delivered(ActorOf[top], "poison")
      /\ boxes' = boxes \ BoxesOf[top]
      /\ pc' = "prepare" \/ (pc' = "done" /\ top' = "none")
  BY DEF ChangeScene, Exit, Received, Cleanup, Finished
<1>2. boxes = BoxesOf[top] /\ \A n \in Actors : Owned(n) <=> n = ActorOf[top]
  BY <1>1 DEF OwnerInv, OwnerAt, Shown
<1>3. ActorTypes' /\ \A n \in Actors : ~Owned(n)'
  BY <1>1, <1>2, DeliveredOwned DEF OwnerInv, Posts
<1>4. boxes' = {}
  BY <1>1, <1>2
<1>5. BoxesOf["none"] = {} /\ ActorOf["none"] = "nobody" /\ "nobody" \notin Actors
  BY DEF BoxesOf, ActorOf, Actors
<1> QED BY <1>1, <1>3, <1>4, <1>5 DEF OwnerInv, OwnerAt, Shown

LEMMA MainLoopOwns ==
  ASSUME OwnerInv,
         \/ UpdateSplash \/ UpdateMenu \/ UpdateAuthors \/ UpdateArena \/ TakeAnswer \/ EndUpdate
         \/ ProcessGameAction \/ Watch \/ RmWatch \/ CheckMonitors \/ FileChanges \/ Generate
  PROVE  OwnerInv'
<1>1. UNCHANGED <<life, boxes, top>>
  BY DEF UpdateSplash, UpdateMenu, UpdateAuthors, UpdateArena, TakeAnswer, EndUpdate, ProcessGameAction,
         Watch, RmWatch, CheckMonitors, FileChanges, Generate, mainVars, actorVars, arenaVars
<1>2. pc' = pc \/ (pc \in Shown /\ pc' \in Shown \cup {"done"})
  BY DEF UpdateSplash, UpdateMenu, UpdateAuthors, UpdateArena, TakeAnswer, EndUpdate, ProcessGameAction,
         Watch, RmWatch, CheckMonitors, FileChanges, Generate, Received, mainVars, Shown
<1>3. \/ inbox' = inbox
      \/ inbox' = Delivered("space", "step")
      \/ inbox' = Delivered("space", "hmDone")
  BY DEF UpdateSplash, UpdateMenu, UpdateAuthors, UpdateArena, TakeAnswer, EndUpdate, ProcessGameAction,
         Watch, RmWatch, CheckMonitors, FileChanges, Generate, actorVars
<1>4. ActorTypes' /\ \A k \in Actors : Owned(k)' <=> Owned(k)
  BY <1>1, <1>3, NobodyTouched, DeliveredOwned DEF OwnerInv, Posts
<1> QED BY <1>1, <1>2, <1>4, SameOwners

LEMMA PressKeyOwns ==
  ASSUME OwnerInv, NEW key \in Keys, PressKey(key)
  PROVE  OwnerInv'
<1>1. /\ UNCHANGED <<life, boxes, top, pc>>
      /\ inbox' = [n \in Actors |-> IF n \in hooks THEN Append(inbox[n], key) ELSE inbox[n]]
  BY DEF PressKey, mainVars, arenaVars
<1>2. key \in Posts /\ key # "poison"
  BY DEF Keys, Posts
<1>3. ASSUME NEW n \in Actors PROVE inbox'[n] \in Seq(Posts) /\ (Poisoned(n)' <=> Poisoned(n))
  <2>1. inbox[n] \in Seq(Posts)
    BY DEF OwnerInv, ActorTypes
  <2>2. CASE n \in hooks
    <3>1. inbox'[n] = Append(inbox[n], key)
      BY <1>1, <2>2
    <3> QED BY <1>2, <2>1, <3>1, PoisonInAppend DEF Poisoned
  <2>3. CASE n \notin hooks
    <3>1. inbox'[n] = inbox[n]
      BY <1>1, <2>3
    <3> QED BY <2>1, <3>1 DEF Poisoned
  <2> QED BY <2>2, <2>3
<1>4. ActorTypes' /\ \A k \in Actors : Owned(k)' <=> Owned(k)
  BY <1>1, <1>3 DEF OwnerInv, ActorTypes, Owned
<1> QED BY <1>1, <1>4, SameOwners

LEMMA WorkOwns ==
  ASSUME OwnerInv, NEW n \in Actors, Work(n)
  PROVE  OwnerInv'
<1>1. UNCHANGED <<boxes, top>> /\ (pc' = pc \/ pc' = "crashed")
  BY DEF Work, SelectLine, EnterLine, Leave, IgnoreKey, Step, TakeMap, TakePoison, Bury,
         mainVars, arenaVars
<1>2. CASE Bury(n)
  <2>1. /\ life[n] = "sick" /\ life' = [life EXCEPT ![n] = "none"]
        /\ inbox' = [inbox EXCEPT ![n] = <<>>] /\ <<>> \in Seq(Posts)
    BY <1>2 DEF Bury
  <2>2. ActorTypes' /\ \A k \in Actors : Owned(k)' <=> Owned(k)
    BY <2>1 DEF OwnerInv, ActorTypes, Owned, Poisoned
  <2> QED BY <1>1, <2>2, SameOwners
<1>3. CASE ~Bury(n)
  <2>1. \E k \in Actors :
          /\ inbox[k] # <<>> /\ life[k] = "live" /\ Handled(k)
          /\ life' = IF Head(inbox[k]) = "poison" THEN [life EXCEPT ![k] = "sick"] ELSE life
    <3>1. CASE TakePoison(n)
      BY <3>1 DEF TakePoison, Handles
    <3>2. CASE n = "mainMenu" /\ (SelectLine \/ EnterLine \/ IgnoreKey(n, {"escape"}))
      BY <3>2 DEF SelectLine, EnterLine, IgnoreKey, Handles, Actors
    <3>3. CASE n = "authors" /\ Leave(n, Keys)
      BY <3>3 DEF Leave, Handles, Keys
    <3>4. CASE n = "space" /\ (Leave(n, {"escape"}) \/ IgnoreKey(n, Keys \ {"escape"}) \/ Step \/ TakeMap)
      BY <3>4 DEF Leave, IgnoreKey, Step, TakeMap, Handles, Keys
    <3> QED BY <1>3, <3>1, <3>2, <3>3, <3>4 DEF Work
  <2>2. PICK k \in Actors :
          /\ inbox[k] # <<>> /\ life[k] = "live" /\ Handled(k)
          /\ life' = IF Head(inbox[k]) = "poison" THEN [life EXCEPT ![k] = "sick"] ELSE life
    BY <2>1
  <2>3. ActorTypes' /\ \A a \in Actors : Owned(a)' <=> Owned(a)
    BY <2>2, HandledOwned DEF OwnerInv
  <2> QED BY <1>1, <2>3, SameOwners
<1> QED BY <1>2, <1>3

LEMMA InitOwnerInv == Init => OwnerInv
<1> SUFFICES ASSUME Init PROVE OwnerInv
  OBVIOUS
<1>1. <<>> \in Seq(Posts)
  OBVIOUS
<1> QED BY <1>1 DEF Init, OwnerInv, ActorTypes, OwnerAt, Owned, Shown

LEMMA NextOwnerInv == OwnerInv /\ [Next]_vars => OwnerInv'
<1> SUFFICES ASSUME OwnerInv, [Next]_vars PROVE OwnerInv'
  OBVIOUS
<1>1. CASE MainLoop \/ FileChanges \/ Generate
  BY <1>1, PrepareOwns, ArenaBoxesOwned, LeavingDisowns, MainLoopOwns DEF MainLoop
<1>2. CASE (\E k \in Keys : PressKey(k)) \/ \E n \in Actors : Work(n)
  BY <1>2, PressKeyOwns, WorkOwns
<1>3. CASE UNCHANGED vars
  <2>1. UNCHANGED <<life, inbox, boxes, top, pc>>
    BY <1>3 DEF vars, mainVars, actorVars, arenaVars
  <2> QED BY <2>1, NobodyTouched, SameOwners DEF OwnerInv
<1> QED BY <1>1, <1>2, <1>3 DEF Next

(* The scene on top has its actor and its mailboxes, and no other actor is *)
(* left that has not been told to die, through every change of scene, with *)
(* any messages under way (PushScene, PopScene, OnPrepare, OnCleanup).     *)
THEOREM ScenesOwnActors == Spec => []SceneOwnsActors
<1>1. OwnerInv => SceneOwnsActors
  BY DEF OwnerInv, OwnerAt, SceneOwnsActors, Settled, Owned, Shown
<1> QED BY <1>1, InitOwnerInv, NextOwnerInv, PTL DEF Spec
=============================================================================
