-------------------------- MODULE WorkerPoolProofs --------------------------
(***************************************************************************)
(* The safety of the worker pool for any number of workers, actors and     *)
(* messages, and that it implements ActorSystem.                           *)
(***************************************************************************)
EXTENDS WorkerPool, TLAPS

(* What is always true of worker w.  It holds the list for reading exactly *)
(* while it walks or is about to erase ...                                 *)
ReadersWalk(w) ==
  w \in readers <=> pc[w] \in {"visit", "drop", "scan"} \cup Probing

(* ... it owns an inProcess exactly while it is inside that actor ...      *)
Owner(w) ==
  \A a \in Actors :
    inProcess[a] = w <=> at[w] = a /\ pc[w] \in Processing \cup Probing

Placed(w) ==
  pc[w] \in Processing \cup Probing \cup {"drop", "erase"} => at[w] \in Actors

(* ... which is healthy as long as its messages are being handled ...      *)
Healthy(w) == pc[w] \in {"pop", "rename", "handle", "sent"} => ~sick[at[w]]

(* ... and has those in its mailbox that were counted ...                  *)
Batch(w) ==
  /\ pc[w] = "pop" => left[w] \in 1 .. Len(box[at[w]])
  /\ pc[w] \in {"rename", "handle", "sent"} => left[w] \in 1 .. Len(box[at[w]]) + 1

(* ... and what it erases is sick.                                         *)
Doomed(w) ==
  /\ result[w] = "poisoned" => pc[w] = "relock"
  /\ pc[w] \in {"drop", "erase"} \/ result[w] = "poisoned" => sick[at[w]]

WorkerInv(w) ==
  ReadersWalk(w) /\ Owner(w) /\ Placed(w) /\ Healthy(w) /\ Batch(w) /\ Doomed(w)

IInv == TypeOK /\ (\A w \in Workers : WorkerInv(w)) /\ OneUndertaker

-----------------------------------------------------------------------------
(* Iterators lead to actors or to the end.                                 *)
LEMMA FirstType ==
  ASSUME TypeOK PROVE First \in Actors \cup {Nobody}
BY DEF TypeOK, First

LEMMA AfterType ==
  ASSUME TypeOK, NEW a PROVE After(a) \in Actors \cup {Nobody}
<1> DEFINE I == {i \in 1 .. Len(actors) - 1 : actors[i] = a}
<1>1. CASE \E i \in 1 .. Len(actors) - 1 : actors[i] = a
  <2> DEFINE k == CHOOSE i \in 1 .. Len(actors) - 1 : actors[i] = a
  <2>1. k \in 1 .. Len(actors) - 1
    BY <1>1
  <2>2. actors \in Seq(Actors)
    BY DEF TypeOK
  <2>3. actors[1 + k] \in Actors
    <3> HIDE DEF k
    <3> QED
      BY <2>1, <2>2
  <2> QED
    BY <1>1, <2>3 DEF After
<1>2. CASE ~\E i \in 1 .. Len(actors) - 1 : actors[i] = a
  BY <1>2 DEF After
<1> QED
  BY <1>1, <1>2

(* Steps that make no undertaker keep the one there may be.                *)
LEMMA NoNewUndertaker ==
  ASSUME OneUndertaker, \A a \in Actors : Undertakers(a)' \subseteq Undertakers(a)
  PROVE  OneUndertaker'
BY DEF OneUndertaker

LEMMA InitIInv == Init => IInv
<1> SUFFICES ASSUME Init PROVE IInv
  OBVIOUS
<1> USE DEF Init
<1>1. TypeOK
  <2>1. posted \in 0 .. Budget /\ bell \in [Threads -> 0 .. NumWorkers]
    BY WorkerPoolAssumption
  <2>2. pc \in [Threads -> WorkerPC \cup MainPC] /\ result \in [Workers -> Results]
    BY DEF WorkerPC, MainPC, Results
  <2>3. readers \subseteq Threads /\ claim \in Threads \cup {Nobody} /\ writing \in BOOLEAN
    BY DEF actorsGuard!LockInit
  <2>4. actors \in Seq(Actors) /\ box \in [Actors -> Seq(Message)]
    OBVIOUS
  <2>5. left \in [Workers -> Nat]
    OBVIOUS
  <2> QED
    BY <2>1, <2>2, <2>3, <2>4, <2>5 DEF TypeOK
<1>2. ASSUME NEW w \in Workers PROVE WorkerInv(w)
  BY WorkerPoolAssumption DEF WorkerInv, ReadersWalk, Owner, Placed, Healthy, Batch,
     Doomed, Processing, Probing, actorsGuard!LockInit, Threads
<1>3. OneUndertaker
  BY WorkerPoolAssumption DEF OneUndertaker, Undertakers, Threads
<1> QED
  BY <1>1, <1>2, <1>3 DEF IInv

-----------------------------------------------------------------------------
(* The end of a message keeps the types.                                   *)
LEMMA FinishType ==
  ASSUME TypeOK, NEW w \in Workers, NEW r \in Results, FinishMessage(w, r), left[w] # 0
  PROVE  /\ msg' \in [Workers -> Message \cup {Nobody}]
         /\ left' \in [Workers -> Nat]
         /\ result' \in [Workers -> Results]
         /\ pc' \in [Threads -> WorkerPC \cup MainPC]
<1> USE DEF TypeOK, FinishMessage, Goto
<1>1. left' \in [Workers -> Nat]
  BY DEF Results
<1>2. pc' \in [Threads -> WorkerPC \cup MainPC]
  BY DEF WorkerPC
<1>3. result' \in [Workers -> Results] /\ msg' \in [Workers -> Message \cup {Nobody}]
  OBVIOUS
<1> QED
  BY <1>1, <1>2, <1>3

(* The end of a message after which the actor is as healthy as before.     *)
LEMMA FinishKeeps ==
  ASSUME IInv, NEW w \in Workers, NEW r \in {"complete", "error"}, FinishMessage(w, r),
         pc[w] \in {"rename", "handle", "sent"},
         UNCHANGED <<guardVars, actors, life, box, sick, inProcess, stop, at, bell, posted>>
  PROVE  IInv'
<1> USE DEF IInv
<1>1. left[w] \in 1 .. Len(box[at[w]]) + 1
  BY DEF WorkerInv, Batch
<1>2. TypeOK'
  <2>1. r \in Results /\ left[w] # 0
    BY <1>1 DEF Results
  <2> QED
    BY <2>1, FinishType DEF TypeOK, guardVars
<1>3. ASSUME NEW v \in Workers PROVE WorkerInv(v)'
  BY <1>1, WorkerPoolAssumption
  DEF TypeOK, FinishMessage, LastTurn, Goto, Threads, guardVars,
     WorkerInv, ReadersWalk, Owner, Placed, Healthy, Batch, Doomed, Processing, Probing
<1>4. \A b \in Actors : Undertakers(b)' \subseteq Undertakers(b)
  BY WorkerPoolAssumption
  DEF TypeOK, FinishMessage, Goto, Threads, Undertakers, WorkerInv, Doomed
<1> QED
  BY <1>2, <1>3, <1>4, NoNewUndertaker

LEMMA PrepareInfoKeeps ==
  ASSUME IInv, NEW w \in Workers, PrepareInfo(w)
  PROVE  IInv'
<1> USE WorkerPoolAssumption
    DEF IInv, TypeOK, Threads, PrepareInfo, Goto,
        At, guardVars, actorVars
<1>1. TypeOK'
  BY DEF WorkerPC, MainPC
<1>2. ASSUME NEW v \in Workers PROVE WorkerInv(v)'
  BY DEF WorkerInv, ReadersWalk, Owner, Placed, Healthy, Batch, Doomed, Processing, Probing
<1>3. \A a \in Actors : Undertakers(a)' \subseteq Undertakers(a)
  BY DEF Undertakers, WorkerInv, Doomed
<1> QED
  BY <1>1, <1>2, <1>3, NoNewUndertaker

LEMMA LoopTopKeeps ==
  ASSUME IInv, NEW w \in Workers, LoopTop(w)
  PROVE  IInv'
<1> USE WorkerPoolAssumption
    DEF IInv, TypeOK, Threads, LoopTop, Goto, At,
        Jump, guardVars, actorVars
<1>1. TypeOK'
  BY DEF WorkerPC, MainPC
<1>2. ASSUME NEW v \in Workers PROVE WorkerInv(v)'
  BY DEF WorkerInv, ReadersWalk, Owner, Placed, Healthy, Batch, Doomed, Processing, Probing
<1>3. \A a \in Actors : Undertakers(a)' \subseteq Undertakers(a)
  BY DEF Undertakers, WorkerInv, Doomed
<1> QED
  BY <1>1, <1>2, <1>3, NoNewUndertaker

LEMMA BeginWalkKeeps ==
  ASSUME IInv, NEW w \in Workers, BeginWalk(w)
  PROVE  IInv'
<1> USE FirstType, WorkerPoolAssumption
    DEF IInv, TypeOK, Threads,
        BeginWalk, actorsGuard!LockRead, Goto, Move, At, actorVars
<1>1. TypeOK'
  BY DEF WorkerPC, MainPC
<1>2. ASSUME NEW v \in Workers PROVE WorkerInv(v)'
  BY DEF WorkerInv, ReadersWalk, Owner, Placed, Healthy, Batch, Doomed, Processing, Probing
<1>3. \A a \in Actors : Undertakers(a)' \subseteq Undertakers(a)
  BY DEF Undertakers, WorkerInv, Doomed
<1> QED
  BY <1>1, <1>2, <1>3, NoNewUndertaker

LEMMA EndWalkKeeps ==
  ASSUME IInv, NEW w \in Workers, EndWalk(w)
  PROVE  IInv'
<1> USE WorkerPoolAssumption
    DEF IInv, TypeOK, Threads, EndWalk,
        actorsGuard!UnlockRead, Goto, At, actorVars
<1>1. TypeOK'
  BY DEF WorkerPC, MainPC
<1>2. ASSUME NEW v \in Workers PROVE WorkerInv(v)'
  BY DEF WorkerInv, ReadersWalk, Owner, Placed, Healthy, Batch, Doomed, Processing, Probing
<1>3. \A a \in Actors : Undertakers(a)' \subseteq Undertakers(a)
  BY DEF Undertakers, WorkerInv, Doomed
<1> QED
  BY <1>1, <1>2, <1>3, NoNewUndertaker

LEMMA SkipBusyKeeps ==
  ASSUME IInv, NEW w \in Workers, SkipBusy(w)
  PROVE  IInv'
<1> USE AfterType, WorkerPoolAssumption
    DEF IInv, TypeOK, Threads, SkipBusy,
        Move, At, guardVars, actorVars
<1>1. TypeOK'
  BY DEF WorkerPC, MainPC
<1>2. ASSUME NEW v \in Workers PROVE WorkerInv(v)'
  BY DEF WorkerInv, ReadersWalk, Owner, Placed, Healthy, Batch, Doomed, Processing, Probing
<1>3. \A a \in Actors : Undertakers(a)' \subseteq Undertakers(a)
  BY DEF Undertakers, WorkerInv, Doomed
<1> QED
  BY <1>1, <1>2, <1>3, NoNewUndertaker

LEMMA EnterActorKeeps ==
  ASSUME IInv, NEW w \in Workers, EnterActor(w)
  PROVE  IInv'
<1> USE WorkerPoolAssumption
    DEF IInv, TypeOK, Threads, EnterActor, Free,
        ReleaseList, actorsGuard!UnlockRead, Goto, At, actorVars
<1>1. TypeOK'
  BY DEF WorkerPC, MainPC
<1>2. ASSUME NEW v \in Workers PROVE WorkerInv(v)'
  BY DEF WorkerInv, ReadersWalk, Owner, Placed, Healthy, Batch, Doomed, Processing, Probing
<1>3. \A a \in Actors : Undertakers(a)' \subseteq Undertakers(a)
  BY DEF Undertakers, WorkerInv, Doomed
<1> QED
  BY <1>1, <1>2, <1>3, NoNewUndertaker

LEMMA CoreKeeps ==
  ASSUME IInv, NEW w \in Workers, Core(w)
  PROVE  IInv'
<1> USE DEF IInv
<1>1. TypeOK'
  <2>1. left' \in [Workers -> Nat]
    <3>1. at[w] \in Actors
      BY DEF Core, WorkerInv, Placed, Processing, At
    <3>2. Len(box[at[w]]) \in Nat
      BY <3>1 DEF TypeOK
    <3> QED
      BY <3>2 DEF Core, TypeOK
  <2>2. result' \in [Workers -> Results]
    BY DEF Core, TypeOK, Results
  <2>3. pc' \in [Threads -> WorkerPC \cup MainPC]
    BY DEF Core, TypeOK, Goto, WorkerPC
  <2> QED
    BY <2>1, <2>2, <2>3 DEF Core, TypeOK, guardVars, actorVars
<1>2. ASSUME NEW v \in Workers PROVE WorkerInv(v)'
  BY WorkerPoolAssumption
  DEF TypeOK, Threads, Core, NothingToDo, Goto, At, guardVars, actorVars,
     WorkerInv, ReadersWalk, Owner, Placed, Healthy, Batch, Doomed, Processing,
     Probing
<1>3. \A a \in Actors : Undertakers(a)' \subseteq Undertakers(a)
  BY WorkerPoolAssumption
  DEF TypeOK, Threads, Core, NothingToDo, Goto, At, guardVars, actorVars,
     Undertakers, WorkerInv, Doomed
<1> QED
  BY <1>1, <1>2, <1>3, NoNewUndertaker

LEMMA PopKeeps ==
  ASSUME IInv, NEW w \in Workers, Pop(w)
  PROVE  IInv'
<1> USE DEF IInv
<1>0. PICK a \in Actors : a = at[w]
  BY DEF Pop, At, WorkerInv, Placed, Processing
<1>1. /\ pc[w] = "pop" /\ a = at[w] /\ ~sick[a] /\ left[w] \in 1 .. Len(box[a])
      /\ UNCHANGED <<guardVars, actors, life, inProcess, stop, at, bell, posted>>
  BY <1>0 DEF Pop, At, WorkerInv, Healthy, Batch
<1>2. /\ Head(box[a]) \in Message /\ Tail(box[a]) \in Seq(Message)
      /\ Len(Tail(box[a])) = Len(box[a]) - 1
      /\ box' = [box EXCEPT ![a] = Tail(box[a])]
  BY <1>1 DEF Pop, TypeOK
<1>3. CASE Head(box[a]) = "poison"
  <2>1. /\ sick' = [sick EXCEPT ![a] = TRUE] /\ left' = [left EXCEPT ![w] = 0]
        /\ result' = [result EXCEPT ![w] = "poisoned"] /\ Goto(w, "relock")
        /\ UNCHANGED msg
    BY <1>1, <1>3 DEF Pop
  <2>2. TypeOK'
    <3>1. sick' \in [Actors -> BOOLEAN] /\ left' \in [Workers -> Nat]
      BY <2>1 DEF TypeOK
    <3>2. pc' \in [Threads -> WorkerPC \cup MainPC]
      BY <2>1 DEF TypeOK, Goto, WorkerPC
    <3>3. result' \in [Workers -> Results] /\ box' \in [Actors -> Seq(Message)]
      BY <1>2, <2>1 DEF TypeOK, Results
    <3> QED
      BY <1>1, <2>1, <3>1, <3>2, <3>3 DEF TypeOK, guardVars
  <2>3. ASSUME NEW v \in Workers PROVE WorkerInv(v)'
    BY <1>1, <1>2, <2>1, WorkerPoolAssumption DEF TypeOK, Goto, Threads, guardVars,
       WorkerInv, ReadersWalk, Owner, Placed, Healthy, Batch, Doomed, Processing, Probing
  <2>4. Undertakers(a)' \subseteq {w}
    BY <1>1, <2>1, WorkerPoolAssumption
    DEF TypeOK, Goto, Threads, Undertakers, WorkerInv, Doomed
  <2>5. ASSUME NEW b \in Actors, b # a PROVE Undertakers(b)' \subseteq Undertakers(b)
    BY <1>1, <2>1, <2>5, WorkerPoolAssumption DEF TypeOK, Goto, Threads, Undertakers
  <2>6. OneUndertaker'
    BY <2>4, <2>5 DEF OneUndertaker
  <2> QED
    BY <2>2, <2>3, <2>6
<1>4. CASE Head(box[a]) # "poison"
  <2>1. PICK label \in {"rename", "handle"} :
          /\ msg' = [msg EXCEPT ![w] = Head(box[a])] /\ Goto(w, label)
          /\ UNCHANGED <<sick, left, result>>
    BY <1>1, <1>4 DEF Pop
  <2>2. TypeOK'
    BY <1>1, <1>2, <2>1 DEF TypeOK, Goto, WorkerPC, guardVars
  <2>3. ASSUME NEW v \in Workers PROVE WorkerInv(v)'
    BY <1>1, <1>2, <2>1, WorkerPoolAssumption DEF TypeOK, Goto, Threads, guardVars,
       WorkerInv, ReadersWalk, Owner, Placed, Healthy, Batch, Doomed, Processing, Probing
  <2>4. \A b \in Actors : Undertakers(b)' \subseteq Undertakers(b)
    BY <1>1, <2>1, WorkerPoolAssumption DEF TypeOK, Goto, Threads, Undertakers
  <2> QED
    BY <2>2, <2>3, <2>4, NoNewUndertaker
<1> QED
  BY <1>3, <1>4

LEMMA RenameKeeps ==
  ASSUME IInv, NEW w \in Workers, Rename(w)
  PROVE  IInv'
BY FinishKeeps DEF Rename, At, actorVars

LEMMA HandleKeeps ==
  ASSUME IInv, NEW w \in Workers, Handle(w)
  PROVE  IInv'
<1> USE DEF IInv
<1>0. PICK a \in Actors : a = at[w]
  BY DEF Handle, At, WorkerInv, Placed, Processing
<1>1. /\ pc[w] = "handle" /\ a = at[w] /\ ~sick[a] /\ left[w] \in 1 .. Len(box[a]) + 1
      /\ UNCHANGED <<guardVars, actors, life, box, inProcess, stop, at, bell, posted>>
  BY <1>0 DEF Handle, At, WorkerInv, Healthy, Batch
<1>2. CASE msg[w] = "suicide"
  <2>1. FinishMessage(w, "poisoned") /\ sick' = [sick EXCEPT ![a] = TRUE]
    BY <1>1, <1>2 DEF Handle
  <2>2. /\ left' = [left EXCEPT ![w] = 0] /\ Goto(w, "relock")
        /\ result' = [result EXCEPT ![w] = "poisoned"]
    BY <2>1 DEF FinishMessage
  <2>3. TypeOK'
    <3>1. "poisoned" \in Results /\ left[w] # 0
      BY <1>1 DEF Results
    <3>2. sick' \in [Actors -> BOOLEAN]
      BY <2>1 DEF TypeOK
    <3> QED
      BY <1>1, <2>1, <3>1, <3>2, FinishType DEF TypeOK, guardVars
  <2>4. ASSUME NEW v \in Workers PROVE WorkerInv(v)'
    BY <1>1, <2>1, <2>2, WorkerPoolAssumption DEF TypeOK, Goto, Threads, guardVars,
       WorkerInv, ReadersWalk, Owner, Placed, Healthy, Batch, Doomed, Processing, Probing
  <2>5. Undertakers(a)' \subseteq {w}
    BY <1>1, <2>2, WorkerPoolAssumption
    DEF TypeOK, Goto, Threads, Undertakers, WorkerInv, Doomed
  <2>6. ASSUME NEW b \in Actors, b # a PROVE Undertakers(b)' \subseteq Undertakers(b)
    BY <1>1, <2>2, <2>6, WorkerPoolAssumption DEF TypeOK, Goto, Threads, Undertakers
  <2>7. OneUndertaker'
    BY <2>5, <2>6 DEF OneUndertaker
  <2> QED
    BY <2>3, <2>4, <2>7
<1>3. CASE msg[w] # "suicide"
  <2>1. PICK r \in {"complete", "error"} : FinishMessage(w, r)
    BY <1>3 DEF Handle
  <2>2. sick' = sick
    BY <1>1, <1>3 DEF Handle, TypeOK
  <2> QED
    BY <1>1, <2>1, <2>2, FinishKeeps
<1> QED
  BY <1>2, <1>3

LEMMA HandlerPostKeeps ==
  ASSUME IInv, NEW w \in Workers, HandlerPost(w)
  PROVE  IInv'
<1> USE DEF IInv
<1>1. TypeOK'
  <2>1. box' \in [Actors -> Seq(Message)]
    BY DEF HandlerPost, Put, TypeOK, Message
  <2>2. bell' \in [Threads -> 0 .. NumWorkers]
    BY WorkerPoolAssumption DEF HandlerPost, StartBell, TypeOK, Threads
  <2>3. pc' \in [Threads -> WorkerPC \cup MainPC]
    BY DEF HandlerPost, TypeOK, Goto, WorkerPC
  <2> QED
    BY <2>1, <2>2, <2>3 DEF HandlerPost, TypeOK, guardVars
<1>2. ASSUME NEW v \in Workers PROVE WorkerInv(v)'
  BY WorkerPoolAssumption
  DEF TypeOK, Threads, HandlerPost, Put, StartBell, Goto, At, guardVars,
     WorkerInv, ReadersWalk, Owner, Placed, Healthy, Batch, Doomed, Processing,
     Probing
<1>3. \A a \in Actors : Undertakers(a)' \subseteq Undertakers(a)
  BY WorkerPoolAssumption
  DEF TypeOK, Threads, HandlerPost, Put, StartBell, Goto, At, guardVars,
     Undertakers, WorkerInv, Doomed
<1> QED
  BY <1>1, <1>2, <1>3, NoNewUndertaker

LEMMA NotifyKeeps ==
  ASSUME IInv, NEW t \in Threads, Notify(t)
  PROVE  IInv'
<1> USE DEF IInv
<1>1. TypeOK'
  <2>1. bell' \in [Threads -> 0 .. NumWorkers]
    BY WorkerPoolAssumption DEF Notify, NextBell, TypeOK
  <2>2. pc' \in [Threads -> WorkerPC \cup MainPC]
    <3>1. bell[t] \in Threads
      <4>1. bell[t] \in 0 .. NumWorkers /\ bell[t] # 0
        BY DEF Notify, TypeOK
      <4> QED
        BY <4>1, WorkerPoolAssumption DEF Threads, Workers
    <3> QED
      BY <3>1 DEF Notify, Woken, TypeOK, Goto, WorkerPC
  <2> QED
    BY <2>1, <2>2 DEF Notify, TypeOK, guardVars, actorVars
<1>2. ASSUME NEW v \in Workers PROVE WorkerInv(v)'
  BY WorkerPoolAssumption
  DEF TypeOK, Threads, Notify, NextBell, Woken, Goto, At, guardVars, actorVars,
     WorkerInv, ReadersWalk, Owner, Placed, Healthy, Batch, Doomed, Processing,
     Probing
<1>3. \A a \in Actors : Undertakers(a)' \subseteq Undertakers(a)
  BY WorkerPoolAssumption
  DEF TypeOK, Threads, Notify, NextBell, Woken, Goto, At, guardVars, actorVars,
     Undertakers, WorkerInv, Doomed
<1> QED
  BY <1>1, <1>2, <1>3, NoNewUndertaker

LEMMA HandlerDoneKeeps ==
  ASSUME IInv, NEW w \in Workers, HandlerDone(w)
  PROVE  IInv'
BY FinishKeeps DEF HandlerDone, At, actorVars

LEMMA LeaveActorKeeps ==
  ASSUME IInv, NEW w \in Workers, LeaveActor(w)
  PROVE  IInv'
<1> USE AfterType, WorkerPoolAssumption
    DEF IInv, TypeOK, Threads,
        LeaveActor, Verdict, actorsGuard!LockRead, Goto, Move, At, actorVars
<1>1. TypeOK'
  BY DEF WorkerPC, MainPC, Results
<1>2. ASSUME NEW v \in Workers PROVE WorkerInv(v)'
  BY DEF WorkerInv, ReadersWalk, Owner, Placed, Healthy, Batch, Doomed, Processing, Probing
<1>3. \A a \in Actors : Undertakers(a)' \subseteq Undertakers(a)
  BY DEF Undertakers, WorkerInv, Doomed
<1> QED
  BY <1>1, <1>2, <1>3, NoNewUndertaker

LEMMA DropReadKeeps ==
  ASSUME IInv, NEW w \in Workers, DropRead(w)
  PROVE  IInv'
<1> USE WorkerPoolAssumption
    DEF IInv, TypeOK, Threads, DropRead,
        actorsGuard!UnlockRead, Goto, At, actorVars
<1>1. TypeOK'
  BY DEF WorkerPC, MainPC
<1>2. ASSUME NEW v \in Workers PROVE WorkerInv(v)'
  BY DEF WorkerInv, ReadersWalk, Owner, Placed, Healthy, Batch, Doomed, Processing, Probing
<1>3. \A a \in Actors : Undertakers(a)' \subseteq Undertakers(a)
  BY DEF Undertakers, WorkerInv, Doomed
<1> QED
  BY <1>1, <1>2, <1>3, NoNewUndertaker

LEMMA EraseLockKeeps ==
  ASSUME IInv, NEW w \in Workers, EraseLock(w)
  PROVE  IInv'
<1> USE WorkerPoolAssumption
    DEF IInv, TypeOK, Threads, EraseLock,
        actorsGuard!ClaimWrite, actorsGuard!EnterWrite, At, actorVars,
        GetWriteLock
<1>1. TypeOK'
  BY DEF WorkerPC, MainPC
<1>2. ASSUME NEW v \in Workers PROVE WorkerInv(v)'
  BY DEF WorkerInv, ReadersWalk, Owner, Placed, Healthy, Batch, Doomed, Processing, Probing
<1>3. \A a \in Actors : Undertakers(a)' \subseteq Undertakers(a)
  BY DEF Undertakers, WorkerInv, Doomed
<1> QED
  BY <1>1, <1>2, <1>3, NoNewUndertaker

LEMMA EraseKeeps ==
  ASSUME IInv, NEW w \in Workers, Erase(w)
  PROVE  IInv'
<1> USE DEF IInv
<1>1. TypeOK'
  <2>1. actors' \in Seq(Actors)
    <3>1. PICK i \in DOMAIN actors :
            actors' = [j \in 1 .. Len(actors) - 1 |-> actors[IF j < i THEN j ELSE j + 1]]
      BY DEF Erase
    <3>2. actors \in Seq(Actors) /\ Len(actors) - 1 \in Nat
      BY DEF TypeOK
    <3>3. \A j \in 1 .. Len(actors) - 1 : actors[IF j < i THEN j ELSE j + 1] \in Actors
      BY <3>2
    <3> QED
      BY <3>1, <3>2, <3>3
  <2>2. life' \in [Actors -> {"unborn", "live", "dead"}] /\ box' \in [Actors -> Seq(Message)]
    BY DEF Erase, Destroyed, TypeOK
  <2>3. at' \in [Threads -> Actors \cup {Nobody}]
    BY AfterType DEF Erase, AfterErase, Move, TypeOK
  <2>4. pc' \in [Threads -> WorkerPC \cup MainPC]
    BY DEF Erase, Goto, TypeOK, WorkerPC
  <2>5. readers' \subseteq Threads /\ claim' \in Threads \cup {Nobody} /\ writing' \in BOOLEAN
    BY DEF Erase, actorsGuard!UnlockWrite, TypeOK
  <2> QED
    BY <2>1, <2>2, <2>3, <2>4, <2>5 DEF Erase, TypeOK
<1>2. ASSUME NEW v \in Workers PROVE WorkerInv(v)'
  BY AfterType, WorkerPoolAssumption
  DEF TypeOK, Threads, Erase, Destroyed, AfterErase, actorsGuard!UnlockWrite,
     Goto, Move, At, WorkerInv, ReadersWalk, Owner, Placed, Healthy, Batch,
     Doomed, Processing, Probing
<1>3. \A a \in Actors : Undertakers(a)' \subseteq Undertakers(a)
  BY AfterType, WorkerPoolAssumption
  DEF TypeOK, Threads, Erase, Destroyed, AfterErase, actorsGuard!UnlockWrite,
     Goto, Move, At, Undertakers, WorkerInv, Doomed
<1> QED
  BY <1>1, <1>2, <1>3, NoNewUndertaker

LEMMA ResumeKeeps ==
  ASSUME IInv, NEW w \in Workers, Resume(w)
  PROVE  IInv'
<1> USE WorkerPoolAssumption
    DEF IInv, TypeOK, Threads, Resume,
        actorsGuard!LockRead, Goto, At, actorVars
<1>1. TypeOK'
  BY DEF WorkerPC, MainPC
<1>2. ASSUME NEW v \in Workers PROVE WorkerInv(v)'
  BY DEF WorkerInv, ReadersWalk, Owner, Placed, Healthy, Batch, Doomed, Processing, Probing
<1>3. \A a \in Actors : Undertakers(a)' \subseteq Undertakers(a)
  BY DEF Undertakers, WorkerInv, Doomed
<1> QED
  BY <1>1, <1>2, <1>3, NoNewUndertaker

LEMMA TestStopKeeps ==
  ASSUME IInv, NEW w \in Workers, TestStop(w)
  PROVE  IInv'
<1> USE WorkerPoolAssumption
    DEF IInv, TypeOK, Threads, TestStop, Goto, At,
        Jump, guardVars, actorVars
<1>1. TypeOK'
  BY DEF WorkerPC, MainPC
<1>2. ASSUME NEW v \in Workers PROVE WorkerInv(v)'
  BY DEF WorkerInv, ReadersWalk, Owner, Placed, Healthy, Batch, Doomed, Processing, Probing
<1>3. \A a \in Actors : Undertakers(a)' \subseteq Undertakers(a)
  BY DEF Undertakers, WorkerInv, Doomed
<1> QED
  BY <1>1, <1>2, <1>3, NoNewUndertaker

LEMMA ProbeLockKeeps ==
  ASSUME IInv, NEW w \in Workers, ProbeLock(w)
  PROVE  IInv'
<1> USE WorkerPoolAssumption
    DEF IInv, TypeOK, Threads, ProbeLock, Free,
        Goto, At, guardVars, actorVars
<1>1. TypeOK'
  BY DEF WorkerPC, MainPC
<1>2. ASSUME NEW v \in Workers PROVE WorkerInv(v)'
  BY DEF WorkerInv, ReadersWalk, Owner, Placed, Healthy, Batch, Doomed, Processing, Probing
<1>3. \A a \in Actors : Undertakers(a)' \subseteq Undertakers(a)
  BY DEF Undertakers, WorkerInv, Doomed
<1> QED
  BY <1>1, <1>2, <1>3, NoNewUndertaker

LEMMA ProbeReadKeeps ==
  ASSUME IInv, NEW w \in Workers, ProbeRead(w)
  PROVE  IInv'
<1> USE WorkerPoolAssumption
    DEF IInv, TypeOK, Threads, ProbeRead,
        WantsWorker, Goto, At, Jump, guardVars, actorVars
<1>1. TypeOK'
  BY DEF WorkerPC, MainPC
<1>2. ASSUME NEW v \in Workers PROVE WorkerInv(v)'
  BY DEF WorkerInv, ReadersWalk, Owner, Placed, Healthy, Batch, Doomed, Processing, Probing
<1>3. \A a \in Actors : Undertakers(a)' \subseteq Undertakers(a)
  BY DEF Undertakers, WorkerInv, Doomed
<1> QED
  BY <1>1, <1>2, <1>3, NoNewUndertaker

LEMMA ProbeUnlockKeeps ==
  ASSUME IInv, NEW w \in Workers, ProbeUnlock(w)
  PROVE  IInv'
<1> USE DEF IInv
<1>1. TypeOK'
  <2>1. /\ at' \in [Threads -> Actors \cup {Nobody}]
        /\ inProcess' \in [Actors -> Workers \cup {Nobody}]
    BY AfterType DEF ProbeUnlock, Move, TypeOK
  <2>2. pc' \in [Threads -> WorkerPC \cup MainPC]
    BY DEF ProbeUnlock, Goto, TypeOK, WorkerPC
  <2>3. readers' \subseteq Threads /\ claim' \in Threads \cup {Nobody} /\ writing' \in BOOLEAN
    BY DEF ProbeUnlock, actorsGuard!UnlockRead, TypeOK, guardVars
  <2> QED
    BY <2>1, <2>2, <2>3 DEF ProbeUnlock, TypeOK, actorVars
<1>2. ASSUME NEW v \in Workers PROVE WorkerInv(v)'
  BY AfterType, WorkerPoolAssumption
  DEF TypeOK, Threads, ProbeUnlock, actorsGuard!UnlockRead, Goto, Move, At,
     guardVars, actorVars, WorkerInv, ReadersWalk, Owner, Placed, Healthy,
     Batch, Doomed, Processing, Probing
<1>3. \A a \in Actors : Undertakers(a)' \subseteq Undertakers(a)
  BY AfterType, WorkerPoolAssumption
  DEF TypeOK, Threads, ProbeUnlock, actorsGuard!UnlockRead, Goto, Move, At,
     guardVars, actorVars, Undertakers, WorkerInv, Doomed
<1> QED
  BY <1>1, <1>2, <1>3, NoNewUndertaker

LEMMA SleepKeeps ==
  ASSUME IInv, NEW w \in Workers, Sleep(w)
  PROVE  IInv'
<1> USE WorkerPoolAssumption
    DEF IInv, TypeOK, Threads, Sleep, Goto, At,
        Jump, guardVars, actorVars
<1>1. TypeOK'
  BY DEF WorkerPC, MainPC
<1>2. ASSUME NEW v \in Workers PROVE WorkerInv(v)'
  BY DEF WorkerInv, ReadersWalk, Owner, Placed, Healthy, Batch, Doomed, Processing, Probing
<1>3. \A a \in Actors : Undertakers(a)' \subseteq Undertakers(a)
  BY DEF Undertakers, WorkerInv, Doomed
<1> QED
  BY <1>1, <1>2, <1>3, NoNewUndertaker

LEMMA SpuriousWakeKeeps ==
  ASSUME IInv, NEW w \in Workers, SpuriousWake(w)
  PROVE  IInv'
<1> USE WorkerPoolAssumption
    DEF IInv, TypeOK, Threads, SpuriousWake, Goto,
        At, Jump, guardVars, actorVars
<1>1. TypeOK'
  BY DEF WorkerPC, MainPC
<1>2. ASSUME NEW v \in Workers PROVE WorkerInv(v)'
  BY DEF WorkerInv, ReadersWalk, Owner, Placed, Healthy, Batch, Doomed, Processing, Probing
<1>3. \A a \in Actors : Undertakers(a)' \subseteq Undertakers(a)
  BY DEF Undertakers, WorkerInv, Doomed
<1> QED
  BY <1>1, <1>2, <1>3, NoNewUndertaker

LEMMA WakeKeeps ==
  ASSUME IInv, NEW w \in Workers, Wake(w)
  PROVE  IInv'
<1> USE WorkerPoolAssumption
    DEF IInv, TypeOK, Threads, Wake, Goto, At,
        Jump, guardVars, actorVars
<1>1. TypeOK'
  BY DEF WorkerPC, MainPC
<1>2. ASSUME NEW v \in Workers PROVE WorkerInv(v)'
  BY DEF WorkerInv, ReadersWalk, Owner, Placed, Healthy, Batch, Doomed, Processing, Probing
<1>3. \A a \in Actors : Undertakers(a)' \subseteq Undertakers(a)
  BY DEF Undertakers, WorkerInv, Doomed
<1> QED
  BY <1>1, <1>2, <1>3, NoNewUndertaker

LEMMA StartRegisterKeeps ==
  ASSUME IInv, StartRegister
  PROVE  IInv'
<1> USE WorkerPoolAssumption
    DEF IInv, TypeOK, Threads, StartRegister,
        actorsGuard!ClaimWrite, actorsGuard!EnterWrite, Goto, At, actorVars,
        MainIdle, GetWriteLock
<1>1. TypeOK'
  BY DEF WorkerPC, MainPC
<1>2. ASSUME NEW v \in Workers PROVE WorkerInv(v)'
  BY DEF WorkerInv, ReadersWalk, Owner, Placed, Healthy, Batch, Doomed, Processing, Probing
<1>3. \A a \in Actors : Undertakers(a)' \subseteq Undertakers(a)
  BY DEF Undertakers, WorkerInv, Doomed
<1> QED
  BY <1>1, <1>2, <1>3, NoNewUndertaker

LEMMA RegisterLockKeeps ==
  ASSUME IInv, RegisterLock
  PROVE  IInv'
<1> USE WorkerPoolAssumption
    DEF IInv, TypeOK, Threads, RegisterLock,
        actorsGuard!ClaimWrite, actorsGuard!EnterWrite, At, actorVars,
        GetWriteLock
<1>1. TypeOK'
  BY DEF WorkerPC, MainPC
<1>2. ASSUME NEW v \in Workers PROVE WorkerInv(v)'
  BY DEF WorkerInv, ReadersWalk, Owner, Placed, Healthy, Batch, Doomed, Processing, Probing
<1>3. \A a \in Actors : Undertakers(a)' \subseteq Undertakers(a)
  BY DEF Undertakers, WorkerInv, Doomed
<1> QED
  BY <1>1, <1>2, <1>3, NoNewUndertaker

LEMMA RegisterKeeps ==
  ASSUME IInv, Register
  PROVE  IInv'
<1> USE DEF IInv
<1>1. TypeOK'
  <2>1. actors' \in Seq(Actors) /\ life' \in [Actors -> {"unborn", "live", "dead"}]
    <3>1. CASE Full
      BY <3>1 DEF Register, TypeOK
    <3>2. CASE ~Full
      <4>1. PICK a \in Actors : life' = [life EXCEPT ![a] = "live"] /\ actors' = Append(actors, a)
        BY <3>2 DEF Register
      <4> QED
        BY <4>1 DEF TypeOK
    <3> QED
      BY <3>1, <3>2
  <2>2. pc' \in [Threads -> WorkerPC \cup MainPC]
    BY DEF Register, Goto, TypeOK, MainPC
  <2>3. readers' \subseteq Threads /\ claim' \in Threads \cup {Nobody} /\ writing' \in BOOLEAN
    BY DEF Register, actorsGuard!UnlockWrite, TypeOK
  <2> QED
    BY <2>1, <2>2, <2>3 DEF Register, TypeOK
<1>2. ASSUME NEW v \in Workers PROVE WorkerInv(v)'
  BY WorkerPoolAssumption
  DEF TypeOK, Threads, Register, Full, actorsGuard!UnlockWrite, Goto, At,
     WorkerInv, ReadersWalk, Owner, Placed, Healthy, Batch, Doomed, Processing,
     Probing
<1>3. \A a \in Actors : Undertakers(a)' \subseteq Undertakers(a)
  BY WorkerPoolAssumption
  DEF TypeOK, Threads, Register, Full, actorsGuard!UnlockWrite, Goto, At,
     Undertakers, WorkerInv, Doomed
<1> QED
  BY <1>1, <1>2, <1>3, NoNewUndertaker

LEMMA PostMessageKeeps ==
  ASSUME IInv, PostMessage
  PROVE  IInv'
<1> USE WorkerPoolAssumption
    DEF IInv, TypeOK, Threads, PostMessage, Put,
        StartBell, At, guardVars, MainIdle
<1>1. TypeOK'
  BY DEF WorkerPC, MainPC, Message
<1>2. ASSUME NEW v \in Workers PROVE WorkerInv(v)'
  BY DEF WorkerInv, ReadersWalk, Owner, Placed, Healthy, Batch, Doomed, Processing, Probing
<1>3. \A a \in Actors : Undertakers(a)' \subseteq Undertakers(a)
  BY DEF Undertakers, WorkerInv, Doomed
<1> QED
  BY <1>1, <1>2, <1>3, NoNewUndertaker

LEMMA BeginFindKeeps ==
  ASSUME IInv, BeginFind
  PROVE  IInv'
<1> USE FirstType, WorkerPoolAssumption
    DEF IInv, TypeOK, Threads,
        BeginFind, actorsGuard!LockRead, Goto, Move, At, actorVars, MainIdle
<1>1. TypeOK'
  BY DEF WorkerPC, MainPC
<1>2. ASSUME NEW v \in Workers PROVE WorkerInv(v)'
  BY DEF WorkerInv, ReadersWalk, Owner, Placed, Healthy, Batch, Doomed, Processing, Probing
<1>3. \A a \in Actors : Undertakers(a)' \subseteq Undertakers(a)
  BY DEF Undertakers, WorkerInv, Doomed
<1> QED
  BY <1>1, <1>2, <1>3, NoNewUndertaker

LEMMA FindNextKeeps ==
  ASSUME IInv, FindNext
  PROVE  IInv'
<1> USE AfterType, WorkerPoolAssumption
    DEF IInv, TypeOK, Threads, FindNext,
        Move, At, guardVars, actorVars
<1>1. TypeOK'
  BY DEF WorkerPC, MainPC
<1>2. ASSUME NEW v \in Workers PROVE WorkerInv(v)'
  BY DEF WorkerInv, ReadersWalk, Owner, Placed, Healthy, Batch, Doomed, Processing, Probing
<1>3. \A a \in Actors : Undertakers(a)' \subseteq Undertakers(a)
  BY DEF Undertakers, WorkerInv, Doomed
<1> QED
  BY <1>1, <1>2, <1>3, NoNewUndertaker

LEMMA EndFindKeeps ==
  ASSUME IInv, EndFind
  PROVE  IInv'
<1> USE WorkerPoolAssumption
    DEF IInv, TypeOK, Threads, EndFind,
        actorsGuard!UnlockRead, Goto, Move, At, actorVars
<1>1. TypeOK'
  BY DEF WorkerPC, MainPC
<1>2. ASSUME NEW v \in Workers PROVE WorkerInv(v)'
  BY DEF WorkerInv, ReadersWalk, Owner, Placed, Healthy, Batch, Doomed, Processing, Probing
<1>3. \A a \in Actors : Undertakers(a)' \subseteq Undertakers(a)
  BY DEF Undertakers, WorkerInv, Doomed
<1> QED
  BY <1>1, <1>2, <1>3, NoNewUndertaker

LEMMA StartStopKeeps ==
  ASSUME IInv, StartStop
  PROVE  IInv'
<1> USE WorkerPoolAssumption
    DEF IInv, TypeOK, Threads, StartStop, Goto, At,
        guardVars, actorVars, MainIdle
<1>1. TypeOK'
  BY DEF WorkerPC, MainPC
<1>2. ASSUME NEW v \in Workers PROVE WorkerInv(v)'
  BY DEF WorkerInv, ReadersWalk, Owner, Placed, Healthy, Batch, Doomed, Processing, Probing
<1>3. \A a \in Actors : Undertakers(a)' \subseteq Undertakers(a)
  BY DEF Undertakers, WorkerInv, Doomed
<1> QED
  BY <1>1, <1>2, <1>3, NoNewUndertaker

LEMMA StopWorkerKeeps ==
  ASSUME IInv, StopWorker
  PROVE  IInv'
<1> USE WorkerPoolAssumption
    DEF IInv, TypeOK, Threads, StopWorker, Goto,
        At, guardVars, actorVars
<1>1. TypeOK'
  BY DEF WorkerPC, MainPC
<1>2. ASSUME NEW v \in Workers PROVE WorkerInv(v)'
  BY DEF WorkerInv, ReadersWalk, Owner, Placed, Healthy, Batch, Doomed, Processing, Probing
<1>3. \A a \in Actors : Undertakers(a)' \subseteq Undertakers(a)
  BY DEF Undertakers, WorkerInv, Doomed
<1> QED
  BY <1>1, <1>2, <1>3, NoNewUndertaker

LEMMA RingWorkerKeeps ==
  ASSUME IInv, RingWorker
  PROVE  IInv'
<1> USE DEF IInv
<1>1. TypeOK'
  <2>1. bell' \in [Threads -> 0 .. NumWorkers]
    BY WorkerPoolAssumption DEF RingWorker, TypeOK, Threads
  <2>2. pc' \in [Threads -> WorkerPC \cup MainPC]
    <3>1. Woken(bell[Main]) \in WorkerPC \cup MainPC \/ bell[Main] \notin Threads
      BY DEF Woken, TypeOK, WorkerPC
    <3> QED
      BY <3>1 DEF RingWorker, TypeOK, MainPC
  <2> QED
    BY <2>1, <2>2 DEF RingWorker, TypeOK, guardVars, actorVars
<1>2. ASSUME NEW v \in Workers PROVE WorkerInv(v)'
  BY WorkerPoolAssumption
  DEF TypeOK, Threads, RingWorker, Woken, At, guardVars, actorVars, WorkerInv,
     ReadersWalk, Owner, Placed, Healthy, Batch, Doomed, Processing, Probing
<1>3. \A a \in Actors : Undertakers(a)' \subseteq Undertakers(a)
  BY WorkerPoolAssumption
  DEF TypeOK, Threads, RingWorker, Woken, At, guardVars, actorVars, Undertakers,
     WorkerInv, Doomed
<1> QED
  BY <1>1, <1>2, <1>3, NoNewUndertaker

LEMMA JoinKeeps ==
  ASSUME IInv, Join
  PROVE  IInv'
<1> USE WorkerPoolAssumption
    DEF IInv, TypeOK, Threads, Join, Destroyed,
        Goto, At, guardVars
<1>1. TypeOK'
  BY DEF WorkerPC, MainPC
<1>2. ASSUME NEW v \in Workers PROVE WorkerInv(v)'
  BY DEF WorkerInv, ReadersWalk, Owner, Placed, Healthy, Batch, Doomed, Processing, Probing
<1>3. \A a \in Actors : Undertakers(a)' \subseteq Undertakers(a)
  BY DEF Undertakers, WorkerInv, Doomed
<1> QED
  BY <1>1, <1>2, <1>3, NoNewUndertaker

LEMMA HaltedKeeps == ASSUME IInv, UNCHANGED vars PROVE IInv'
<1> USE DEF IInv, vars, guardVars, actorVars
<1>1. TypeOK'
  BY DEF TypeOK
<1>2. ASSUME NEW v \in Workers PROVE WorkerInv(v)'
  BY DEF WorkerInv, ReadersWalk, Owner, Placed, Healthy, Batch, Doomed
<1>3. \A a \in Actors : Undertakers(a)' \subseteq Undertakers(a)
  BY DEF Undertakers
<1> QED
  BY <1>1, <1>2, <1>3, NoNewUndertaker

LEMMA NextIInv == IInv /\ [Next]_vars => IInv'
<1> SUFFICES ASSUME IInv, [Next]_vars PROVE IInv'
  OBVIOUS
<1>1. ASSUME NEW w \in Workers, WorkerStep(w) \/ SpuriousWake(w) PROVE IInv'
  <2>1. w \in Threads
    BY DEF Threads
  <2> QED
    BY <1>1, <2>1, PrepareInfoKeeps, LoopTopKeeps, BeginWalkKeeps, EndWalkKeeps,
       SkipBusyKeeps, EnterActorKeeps, CoreKeeps, PopKeeps, RenameKeeps, HandleKeeps,
       HandlerPostKeeps, NotifyKeeps, HandlerDoneKeeps, LeaveActorKeeps, DropReadKeeps,
       EraseLockKeeps, EraseKeeps, ResumeKeeps, TestStopKeeps, ProbeLockKeeps,
       ProbeReadKeeps, ProbeUnlockKeeps, SleepKeeps, WakeKeeps, SpuriousWakeKeeps
    DEF WorkerStep
<1>2. CASE MainStep
  <2>1. Main \in Threads
    BY DEF Threads
  <2> QED
    BY <1>2, <2>1, RegisterLockKeeps, RegisterKeeps, NotifyKeeps, FindNextKeeps,
       EndFindKeeps, StopWorkerKeeps, RingWorkerKeeps, JoinKeeps
    DEF MainStep
<1>3. CASE MainCall
  BY <1>3, StartRegisterKeeps, PostMessageKeeps, BeginFindKeeps, StartStopKeeps DEF MainCall
<1>4. CASE Halted \/ UNCHANGED vars
  BY <1>4, HaltedKeeps DEF Halted
<1> QED
  BY <1>1, <1>2, <1>3, <1>4 DEF Next

LEMMA SpecIInv == Spec => []IInv
BY InitIInv, NextIInv, PTL DEF Spec

-----------------------------------------------------------------------------
(* The variables keep their types, for any number of workers and actors.   *)
THEOREM TypeCorrect == Spec => []TypeOK
<1>1. IInv => TypeOK
  BY DEF IInv
<1> QED
  BY <1>1, SpecIInv, PTL

(* No two workers are inside one actor.                                    *)
THEOREM ActorExclusion == Spec => []OneWorkerPerActor
<1>1. IInv => OneWorkerPerActor
  <2> SUFFICES ASSUME IInv, NEW a \in Actors
               PROVE  Holders(a) = IF inProcess[a] = Nobody THEN {} ELSE {inProcess[a]}
    BY DEF OneWorkerPerActor
  <2>1. inProcess[a] \in Workers \cup {Nobody} /\ Nobody \notin Workers
    BY WorkerPoolAssumption DEF IInv, TypeOK, Threads
  <2>2. \A w \in Workers : w \in Holders(a) <=> inProcess[a] = w
    BY DEF IInv, WorkerInv, Owner, Holders
  <2> QED
    BY <2>1, <2>2 DEF Holders
<1> QED
  BY <1>1, SpecIInv, PTL

(* A worker never waits for a message that somebody else has taken.        *)
THEOREM NoBlockingWait == Spec => []WaitNeverBlocks
<1>1. IInv => WaitNeverBlocks
  BY DEF IInv, WorkerInv, Batch, WaitNeverBlocks
<1> QED
  BY <1>1, SpecIInv, PTL

(* A worker never asks for actorsGuard while it holds it.                  *)
THEOREM SingleLock == Spec => []NoDoubleLock
<1>1. IInv => NoDoubleLock
  BY DEF IInv, WorkerInv, ReadersWalk, NoDoubleLock, Probing
<1> QED
  BY <1>1, SpecIInv, PTL

(* An actor is erased by one worker.                                       *)
THEOREM SingleUndertaker == Spec => []OneUndertaker
<1>1. IInv => OneUndertaker
  BY DEF IInv
<1> QED
  BY <1>1, SpecIInv, PTL

-----------------------------------------------------------------------------
(* The list of actors, and the refinement of ActorSystem.                  *)
(* An actor that is not on the list has no mail, and none was sick before  *)
(* it was born.                                                            *)
Emptied == \A a \in Actors : life[a] # "live" => box[a] = <<>>
Born == \A a \in Actors : life[a] = "unborn" => ~sick[a]

(* The message in the hands of a worker is of the kind its place says.     *)
InHand(w) ==
  /\ pc[w] = "rename" => msg[w] = "setName"
  /\ pc[w] = "handle" => msg[w] \in Message
  /\ pc[w] = "sent" => msg[w] \in {"forward", "unregister"}

HInv == ListIsLive /\ Emptied /\ Born /\ \A w \in Workers : InHand(w)

(* A step that the users of the actors do not see.                         *)
Inside(w) == pc[w] \in {"rename", "handle", "sent"}
Unseen ==
  /\ UNCHANGED <<actorVars, msg>>
  /\ \A v \in Workers : \/ pc'[v] = pc[v] /\ at'[v] = at[v]
                        \/ ~Inside(v) /\ ~Inside(v)'

-----------------------------------------------------------------------------
LEMMA InitHInv == Init => HInv
BY WorkerPoolAssumption DEF Init, HInv, ListIsLive, Emptied, Born, InHand, Range, Threads

LEMMA UnseenKeeps ==
  ASSUME HInv, Unseen PROVE HInv'
BY DEF HInv, Unseen, actorVars, ListIsLive, Emptied, Born, InHand, Inside

LEMMA SameRunning ==
  ASSUME NEW a, Insiders(a)' = Insiders(a), \A v \in Insiders(a) : msg'[v] = msg[v]
  PROVE  RunningIn(a)' = RunningIn(a)
BY DEF RunningIn

LEMMA UnseenStutters ==
  ASSUME Unseen PROVE UNCHANGED System!systemVars
<1>1. ASSUME NEW a \in Actors PROVE RunningIn(a)' = RunningIn(a)
  BY SameRunning DEF Unseen, Inside, Insiders
<1> QED
  BY <1>1 DEF Unseen, actorVars, System!systemVars

LEMMA WorkerUnseen ==
  ASSUME IInv, NEW w \in Workers,
         \/ PrepareInfo(w) \/ LoopTop(w) \/ BeginWalk(w) \/ EndWalk(w) \/ SkipBusy(w)
         \/ EnterActor(w) \/ Core(w) \/ LeaveActor(w) \/ DropRead(w) \/ EraseLock(w)
         \/ Resume(w) \/ TestStop(w) \/ ProbeLock(w) \/ ProbeRead(w) \/ ProbeUnlock(w)
         \/ Sleep(w) \/ Wake(w) \/ SpuriousWake(w)
  PROVE  Unseen
<1> USE DEF IInv, TypeOK, Unseen, Inside, Goto, Move, At, Threads, guardVars, actorVars
<1>1. CASE PrepareInfo(w)
  BY <1>1 DEF PrepareInfo
<1>2. CASE BeginWalk(w) \/ EndWalk(w)
  BY <1>2 DEF BeginWalk, EndWalk
<1>3. CASE SkipBusy(w)
  BY <1>3 DEF SkipBusy
<1>4. CASE EnterActor(w) \/ Core(w)
  BY <1>4 DEF EnterActor, Core
<1>5. CASE LeaveActor(w)
  BY <1>5 DEF LeaveActor, Verdict
<1>6. CASE DropRead(w) \/ EraseLock(w) \/ Resume(w)
  BY <1>6 DEF DropRead, EraseLock, GetWriteLock, Resume
<1>7. CASE ProbeLock(w) \/ ProbeUnlock(w)
  BY <1>7 DEF ProbeLock, ProbeUnlock
<1>8. CASE LoopTop(w) \/ TestStop(w) \/ ProbeRead(w) \/ Sleep(w) \/ Wake(w) \/ SpuriousWake(w)
  BY <1>8 DEF LoopTop, TestStop, ProbeRead, Sleep, Wake, SpuriousWake, Jump
<1> QED
  BY <1>1, <1>2, <1>3, <1>4, <1>5, <1>6, <1>7, <1>8

LEMMA NotifyUnseen ==
  ASSUME IInv, NEW t \in Threads, Notify(t) PROVE Unseen
BY DEF IInv, TypeOK, Notify, Unseen, Inside, Goto, Woken, actorVars, Threads

LEMMA MainUnseen ==
  ASSUME IInv,
         \/ StartRegister \/ RegisterLock \/ BeginFind \/ FindNext \/ EndFind
         \/ StartStop \/ StopWorker \/ RingWorker
  PROVE  Unseen
<1> USE WorkerPoolAssumption
    DEF IInv, TypeOK, Unseen, Inside, Goto, Move, MainIdle, At, Threads, guardVars, actorVars
<1>1. CASE StartRegister \/ RegisterLock
  BY <1>1 DEF StartRegister, RegisterLock, GetWriteLock
<1>2. CASE BeginFind \/ FindNext \/ EndFind
  BY <1>2 DEF BeginFind, FindNext, EndFind
<1>3. CASE StartStop \/ StopWorker
  BY <1>3 DEF StartStop, StopWorker
<1>4. CASE RingWorker
  BY <1>4 DEF RingWorker, Woken
<1> QED
  BY <1>1, <1>2, <1>3, <1>4

-----------------------------------------------------------------------------
(* What a worker inside an actor knows of it.                              *)
LEMMA InsideFacts ==
  ASSUME IInv, NEW w \in Workers, NoFault, Inside(w) \/ pc[w] = "pop"
  PROVE  /\ at[w] \in Actors /\ ~sick[at[w]] /\ life[at[w]] = "live"
         /\ \A v \in Workers : v # w /\ pc[v] \in Processing => at[v] # at[w]
<1>1. at[w] \in Actors /\ ~sick[at[w]]
  BY DEF IInv, WorkerInv, Placed, Healthy, Processing, Inside
<1>2. at[w] # Nobody
  BY <1>1, WorkerPoolAssumption
<1>3. life[at[w]] = "live"
  BY <1>2 DEF NoFault, Uses, Dangling, Processing, Inside
<1>4. \A v \in Workers : v # w /\ pc[v] \in Processing => at[v] # at[w]
  BY <1>1 DEF IInv, WorkerInv, Owner, Processing, Inside
<1> QED
  BY <1>1, <1>2, <1>3, <1>4

(* A worker inside an actor is the one running it.                         *)
LEMMA RunningIs ==
  ASSUME NEW a, NEW w, Insiders(a) = {w} PROVE RunningIn(a) = msg[w]
BY DEF RunningIn

LEMMA IdleIs ==
  ASSUME NEW a, Insiders(a) = {} PROVE RunningIn(a) = Nobody
BY DEF RunningIn

(* Actors other than the one a step is about keep running what they run.   *)
LEMMA OthersRun ==
  ASSUME NEW w \in Workers, NEW b, at[w] # b, at'[w] # b,
         \A v \in Workers : v # w => pc'[v] = pc[v] /\ at'[v] = at[v] /\ msg'[v] = msg[v]
  PROVE  RunningIn(b)' = RunningIn(b)
BY SameRunning DEF Insiders

-----------------------------------------------------------------------------
(* The steps that are seen keep the invariant.                             *)
LEMMA PopKeepsH ==
  ASSUME IInv, HInv, NEW w \in Workers, Pop(w) PROVE HInv'
<1> USE DEF HInv
<1>1. /\ at[w] \in Actors /\ life[at[w]] = "live" /\ box[at[w]] \in Seq(Message)
      /\ box[at[w]] # <<>> /\ UNCHANGED <<actors, life>>
  BY InsideFacts DEF Pop, At, IInv, TypeOK
<1>2. ListIsLive'
  BY <1>1 DEF ListIsLive
<1>3. Emptied'
  BY <1>1 DEF Pop, Emptied, IInv, TypeOK
<1>4. Born'
  BY <1>1 DEF Pop, Born, IInv, TypeOK
<1>5. ASSUME NEW v \in Workers PROVE InHand(v)'
  BY <1>1 DEF Pop, InHand, Goto, IInv, TypeOK, Threads
<1> QED
  BY <1>2, <1>3, <1>4, <1>5

LEMMA FinishKeepsH ==
  ASSUME IInv, HInv, NEW w \in Workers, Rename(w) \/ Handle(w) \/ HandlerDone(w) PROVE HInv'
<1> USE DEF HInv
<1>1. /\ at[w] \in Actors /\ life[at[w]] = "live" /\ UNCHANGED <<actors, life, box>>
  BY InsideFacts DEF Rename, Handle, HandlerDone, At, Inside, actorVars
<1>2. ListIsLive' /\ Emptied'
  BY <1>1 DEF ListIsLive, Emptied
<1>3. Born'
  BY <1>1 DEF Rename, Handle, HandlerDone, Born, actorVars, IInv, TypeOK
<1>4. ASSUME NEW v \in Workers PROVE InHand(v)'
  BY DEF Rename, Handle, HandlerDone, FinishMessage, InHand, Goto, IInv, TypeOK, Threads
<1> QED
  BY <1>2, <1>3, <1>4

LEMMA PutKeepsH ==
  ASSUME IInv, HInv, NEW a \in Actors, NEW m, Put(a, m), UNCHANGED <<actors, life, sick>>
  PROVE  ListIsLive' /\ Emptied' /\ Born'
BY DEF HInv, Put, ListIsLive, Emptied, Born, IInv, TypeOK

LEMMA PostKeepsH ==
  ASSUME IInv, HInv, NEW w \in Workers, HandlerPost(w) \/ PostMessage PROVE HInv'
<1>1. ListIsLive' /\ Emptied' /\ Born'
  BY PutKeepsH DEF HandlerPost, PostMessage
<1>2. ASSUME NEW v \in Workers PROVE InHand(v)'
  BY DEF HInv, HandlerPost, PostMessage, InHand, Goto, IInv, TypeOK, Threads
<1> QED
  BY <1>1, <1>2 DEF HInv

(* The actor a worker erases is on the list exactly once.                  *)
LEMMA EraseKeepsH ==
  ASSUME IInv, HInv, NEW w \in Workers, Erase(w) PROVE HInv'
<1> USE DEF HInv
<1>1. PICK i \in DOMAIN actors :
        /\ actors[i] = at[w]
        /\ actors' = [j \in 1 .. Len(actors) - 1 |-> actors[IF j < i THEN j ELSE j + 1]]
  BY DEF Erase
<1>2. actors \in Seq(Actors) /\ Len(actors) \in Nat /\ DOMAIN actors = 1 .. Len(actors)
  BY DEF IInv, TypeOK
<1>3. DOMAIN actors' = 1 .. Len(actors) - 1 /\ Len(actors') = Len(actors) - 1
  BY <1>1, <1>2
<1>4. at[w] \in Actors
  BY <1>1, <1>2
<1>5. Range(actors') = Range(actors) \ {at[w]}
  <2>1. ASSUME NEW j \in 1 .. Len(actors) - 1 PROVE actors'[j] \in Range(actors) \ {at[w]}
    <3> DEFINE k == IF j < i THEN j ELSE j + 1
    <3>1. k \in DOMAIN actors /\ k # i /\ actors'[j] = actors[k]
      BY <1>1, <1>2
    <3> QED
      BY <1>1, <3>1 DEF ListIsLive, Range
  <2>2. ASSUME NEW k \in DOMAIN actors, actors[k] # at[w]
        PROVE  \E j \in 1 .. Len(actors) - 1 : actors'[j] = actors[k]
    <3> DEFINE j == IF k < i THEN k ELSE k - 1
    <3>1. k # i
      BY <1>1, <2>2
    <3>2. j \in 1 .. Len(actors) - 1 /\ actors'[j] = actors[k]
      BY <1>1, <1>2, <3>1
    <3> QED
      BY <3>2
  <2>3. Range(actors') \subseteq Range(actors) \ {at[w]}
    BY <1>3, <2>1 DEF Range
  <2>4. Range(actors) \ {at[w]} \subseteq Range(actors')
    BY <1>3, <2>2 DEF Range
  <2> QED
    BY <2>3, <2>4
<1>6. life' = [life EXCEPT ![at[w]] = "dead"]
  BY <1>4 DEF Erase, Destroyed, IInv, TypeOK
<1>7. ListIsLive'
  <2>1. Range(actors') = {a \in Actors : life'[a] = "live"}
    BY <1>4, <1>5, <1>6 DEF ListIsLive, IInv, TypeOK
  <2>2. ASSUME NEW j \in DOMAIN actors', NEW k \in DOMAIN actors', actors'[j] = actors'[k]
        PROVE  j = k
    <3>1. /\ (IF j < i THEN j ELSE j + 1) \in DOMAIN actors
          /\ (IF k < i THEN k ELSE k + 1) \in DOMAIN actors
      BY <1>2, <1>3
    <3>2. (IF j < i THEN j ELSE j + 1) = (IF k < i THEN k ELSE k + 1)
      BY <1>1, <1>3, <2>2, <3>1 DEF ListIsLive
    <3> QED
      BY <1>2, <1>3, <3>2
  <2>3. Len(actors') <= MaxActors
    BY <1>2, <1>3, WorkerPoolAssumption DEF ListIsLive
  <2> QED
    BY <2>1, <2>2, <2>3 DEF ListIsLive
<1>8. Emptied'
  BY <1>4, <1>6 DEF Erase, Destroyed, Emptied
<1>9. Born'
  BY <1>4, <1>6 DEF Erase, Born, IInv, TypeOK
<1>10. ASSUME NEW v \in Workers PROVE InHand(v)'
  BY DEF Erase, InHand, Goto, IInv, TypeOK, Threads
<1> QED
  BY <1>7, <1>8, <1>9, <1>10

LEMMA RegisterKeepsH ==
  ASSUME IInv, HInv, Register PROVE HInv'
<1> USE DEF HInv
<1>1. actors \in Seq(Actors) /\ Len(actors) \in Nat /\ UNCHANGED <<box, sick>>
  BY DEF Register, IInv, TypeOK
<1>2. ListIsLive' /\ Emptied' /\ Born'
  <2>1. CASE Full
    BY <1>1, <2>1 DEF Register, ListIsLive, Emptied, Born
  <2>2. CASE ~Full
    <3>1. PICK a \in Actors : /\ life[a] = "unborn"
                              /\ life' = [life EXCEPT ![a] = "live"]
                              /\ actors' = Append(actors, a)
      BY <2>2 DEF Register
    <3>2. /\ DOMAIN actors' = 1 .. Len(actors) + 1 /\ Len(actors') = Len(actors) + 1
          /\ actors'[Len(actors) + 1] = a
          /\ \A i \in 1 .. Len(actors) : actors'[i] = actors[i]
          /\ DOMAIN actors = 1 .. Len(actors)
      BY <1>1, <3>1
    <3>3. Range(actors') = Range(actors) \cup {a}
      BY <1>1, <3>2 DEF Range
    <3>4. a \notin Range(actors)
      BY <3>1 DEF ListIsLive
    <3>5. Range(actors') = {b \in Actors : life'[b] = "live"}
      BY <3>1, <3>3 DEF ListIsLive, IInv, TypeOK
    <3>6. \A i, j \in DOMAIN actors' : actors'[i] = actors'[j] => i = j
      BY <1>1, <3>2, <3>4 DEF ListIsLive, Range
    <3>7. Len(actors') <= MaxActors
      BY <1>1, <2>2, <3>2, WorkerPoolAssumption DEF Full
    <3>8. Emptied' /\ Born'
      BY <1>1, <3>1 DEF Emptied, Born, IInv, TypeOK
    <3> QED
      BY <3>5, <3>6, <3>7, <3>8 DEF ListIsLive
  <2> QED
    BY <2>1, <2>2
<1>3. ASSUME NEW v \in Workers PROVE InHand(v)'
  BY WorkerPoolAssumption DEF Register, InHand, Goto, IInv, TypeOK, Threads
<1> QED
  BY <1>2, <1>3

LEMMA JoinKeepsH ==
  ASSUME IInv, HInv, Join PROVE HInv'
<1> USE DEF HInv
<1>1. ListIsLive'
  BY WorkerPoolAssumption DEF Join, Destroyed, ListIsLive, Range, IInv, TypeOK
<1>2. Emptied'
  BY DEF Join, Destroyed, Emptied, ListIsLive
<1>3. Born'
  BY DEF Join, Destroyed, Born, IInv, TypeOK
<1>4. ASSUME NEW v \in Workers PROVE InHand(v)'
  BY WorkerPoolAssumption DEF Join, InHand, Goto, IInv, TypeOK, Threads
<1> QED
  BY <1>1, <1>2, <1>3, <1>4

LEMMA NextHInv == IInv /\ HInv /\ [Next]_vars => HInv'
<1> SUFFICES ASSUME IInv, HInv, [Next]_vars PROVE HInv'
  OBVIOUS
<1>1. ASSUME NEW w \in Workers, WorkerStep(w) \/ SpuriousWake(w) PROVE HInv'
  BY <1>1, WorkerUnseen, NotifyUnseen, UnseenKeeps, PopKeepsH, FinishKeepsH, PostKeepsH,
     EraseKeepsH
  DEF WorkerStep, Threads
<1>2. CASE MainStep \/ MainCall
  <2>1. \E w \in Workers : TRUE
    BY WorkerPoolAssumption DEF Workers
  <2> QED
    BY <1>2, <2>1, MainUnseen, NotifyUnseen, UnseenKeeps, PostKeepsH, RegisterKeepsH, JoinKeepsH
    DEF MainStep, MainCall, Threads
<1>3. CASE Halted \/ UNCHANGED vars
  BY <1>3, UnseenKeeps DEF Halted, vars, Unseen
<1> QED
  BY <1>1, <1>2, <1>3 DEF Next

LEMMA SpecHInv == Spec => [](IInv /\ HInv)
BY InitIInv, NextIInv, InitHInv, NextHInv, PTL DEF Spec

(* The list holds each living actor once, within the limit.                *)
THEOREM ListCorrect == Spec => []ListIsLive
<1>1. HInv => ListIsLive
  BY DEF HInv
<1> QED
  BY <1>1, SpecHInv, PTL

-----------------------------------------------------------------------------
(* With a single worker no freed actor is ever used.  What the iterator    *)
(* was moved to stays alive: only the worker itself erases, and it erases  *)
(* the actor before the one it goes on to.                                 *)
Follows(w) == Uses(w) \/ pc[w] \in {"drop", "resume"}
SoloInv == \A w \in Workers : Follows(w) => ~Dangling(w)

LEMMA FirstIsLive ==
  ASSUME IInv, HInv, First # Nobody PROVE life[First] = "live"
<1>1. actors \in Seq(Actors) /\ actors # <<>> /\ First = Head(actors)
  BY DEF First, IInv, TypeOK
<1>2. First \in Range(actors)
  BY <1>1 DEF Range
<1> QED
  BY <1>2 DEF HInv, ListIsLive

(* The iterator after the one to a is on the list, and not on a.           *)
LEMMA AfterIsLive ==
  ASSUME IInv, HInv, NEW a, After(a) # Nobody
  PROVE  life[After(a)] = "live" /\ After(a) # a
<1>1. actors \in Seq(Actors)
  BY DEF IInv, TypeOK
<1>0. \E i \in 1 .. Len(actors) - 1 : actors[i] = a
  BY DEF After
<1> DEFINE i == CHOOSE k \in 1 .. Len(actors) - 1 : actors[k] = a
<1>2. i \in 1 .. Len(actors) - 1 /\ actors[i] = a
  BY <1>0
<1>3. After(a) = actors[1 + i]
  BY <1>0 DEF After
<1> HIDE DEF i
<1>4. 1 + i \in DOMAIN actors /\ i \in DOMAIN actors /\ 1 + i # i
  BY <1>1, <1>2
<1>5. After(a) \in Range(actors)
  BY <1>3, <1>4 DEF Range
<1>6. actors[1 + i] # actors[i]
  BY <1>4 DEF HInv, ListIsLive
<1> QED
  BY <1>2, <1>3, <1>5, <1>6 DEF HInv, ListIsLive

(* Steps of the worker that neither erase nor go on along the list.        *)
LEMMA StandingKeepsSolo ==
  ASSUME SoloInv, life' = life,
         \A w \in Workers : at'[w] = at[w] /\ (Follows(w)' => Follows(w))
  PROVE  SoloInv'
BY DEF SoloInv, Dangling

LEMMA WorkerKeepsSolo ==
  ASSUME NumWorkers = 1, IInv, HInv, SoloInv, NEW w \in Workers,
         WorkerStep(w) \/ SpuriousWake(w)
  PROVE  SoloInv'
<1>0. Workers = {w}
  BY DEF Workers
<1> USE DEF IInv, TypeOK, Threads, Goto, Move, At, actorVars
<1>1. CASE \/ PrepareInfo(w) \/ LoopTop(w) \/ TestStop(w) \/ Sleep(w) \/ Wake(w)
           \/ SpuriousWake(w) \/ ProbeRead(w) \/ ProbeLock(w)
  <2>1. life' = life /\ at' = at /\ (Follows(w)' => Follows(w))
    BY <1>1 DEF PrepareInfo, LoopTop, TestStop, Sleep, Wake, SpuriousWake, ProbeRead,
       ProbeLock, Jump, Follows, Uses, Processing, Probing
  <2> QED
    BY <1>0, <2>1, StandingKeepsSolo
<1>2. CASE EnterActor(w) \/ Core(w) \/ Pop(w) \/ HandlerPost(w) \/ EndWalk(w) \/ EraseLock(w)
           \/ DropRead(w) \/ Resume(w)
  <2>1. life' = life /\ at' = at
    BY <1>2 DEF EnterActor, Core, Pop, HandlerPost, EndWalk, EraseLock, GetWriteLock,
       DropRead, Resume
  <2>2. Follows(w)
    BY <1>2 DEF EnterActor, Core, Pop, HandlerPost, EndWalk, EraseLock, DropRead, Resume,
       Follows, Uses, Processing
  <2> QED
    BY <1>0, <2>1, <2>2, StandingKeepsSolo
<1>3. CASE Rename(w) \/ Handle(w) \/ HandlerDone(w)
  <2>1. life' = life /\ at' = at /\ Follows(w)
    BY <1>3 DEF Rename, Handle, HandlerDone, Follows, Uses, Processing
  <2> QED
    BY <1>0, <2>1, StandingKeepsSolo
<1>4. CASE Notify(w)
  <2>1. life' = life /\ at' = at /\ (Follows(w)' => Follows(w))
    BY <1>4 DEF Notify, Woken, Follows, Uses, Processing, Probing
  <2> QED
    BY <1>0, <2>1, StandingKeepsSolo
<1>5. CASE BeginWalk(w)
  <2>1. life' = life /\ at'[w] = First
    BY <1>5 DEF BeginWalk
  <2> QED
    BY <1>0, <2>1, FirstIsLive DEF SoloInv, Dangling
<1>6. CASE SkipBusy(w)
  <2>1. life' = life /\ at'[w] = After(at[w])
    BY <1>6 DEF SkipBusy, guardVars
  <2> QED
    BY <1>0, <2>1, AfterIsLive DEF SoloInv, Dangling
<1>7. CASE LeaveActor(w)
  <2>1. life' = life /\ (at'[w] = at[w] \/ at'[w] = After(at[w])) /\ Follows(w)
    BY <1>7 DEF LeaveActor, Follows, Uses, Processing
  <2> QED
    BY <1>0, <2>1, AfterIsLive DEF SoloInv, Dangling
<1>8. CASE ProbeUnlock(w)
  <2>1. life' = life /\ (at'[w] = at[w] \/ at'[w] = After(at[w])) /\ Follows(w)
    BY <1>8 DEF ProbeUnlock, Follows, Uses, Probing
  <2> QED
    BY <1>0, <2>1, AfterIsLive DEF SoloInv, Dangling
<1>9. CASE Erase(w)
  <2>1. at'[w] = After(at[w])
    BY <1>9 DEF Erase, AfterErase
  <2>2. at'[w] # Nobody => at'[w] \in Actors
    BY <2>1, AfterType
  <2>3. at'[w] # Nobody => life[at'[w]] = "live" /\ at'[w] # at[w]
    BY <2>1, AfterIsLive
  <2>4. at'[w] # Nobody => life'[at'[w]] = "live"
    BY <1>9, <2>2, <2>3 DEF Erase, Destroyed
  <2> QED
    BY <1>0, <2>4 DEF SoloInv, Dangling
<1> QED
  BY <1>1, <1>2, <1>3, <1>4, <1>5, <1>6, <1>7, <1>8, <1>9 DEF WorkerStep

LEMMA MainKeepsSolo ==
  ASSUME IInv, HInv, SoloInv, MainStep \/ MainCall
  PROVE  SoloInv'
<1> USE WorkerPoolAssumption DEF IInv, TypeOK, Threads, Goto, Move, At, MainIdle, actorVars
<1>1. CASE Register
  <2>1. \A w \in Workers : at'[w] = at[w] /\ pc'[w] = pc[w]
    BY <1>1 DEF Register
  <2>2. \A a \in Actors : life[a] = "live" => life'[a] = "live"
    BY <1>1 DEF Register
  <2> QED
    BY <2>1, <2>2 DEF SoloInv, Follows, Uses, Dangling
<1>2. CASE Join
  <2>1. \A w \in Workers : pc'[w] = "exited"
    BY <1>2 DEF Join
  <2> QED
    BY <2>1 DEF SoloInv, Follows, Uses, Processing, Probing
<1>3. CASE \/ RegisterLock \/ FindNext \/ EndFind \/ StopWorker \/ StartRegister
           \/ PostMessage \/ BeginFind \/ StartStop
  <2>1. life' = life /\ \A w \in Workers : at'[w] = at[w] /\ pc'[w] = pc[w]
    BY <1>3 DEF RegisterLock, FindNext, EndFind, StopWorker, StartRegister, PostMessage,
       BeginFind, StartStop, GetWriteLock
  <2> QED
    BY <2>1, StandingKeepsSolo DEF Follows, Uses
<1>4. CASE Notify(Main) \/ RingWorker
  <2>1. life' = life /\ at' = at
    BY <1>4 DEF Notify, RingWorker
  <2>2. \A w \in Workers : pc'[w] \in {pc[w], "woken"}
    BY <1>4 DEF Notify, RingWorker, Woken
  <2> QED
    BY <2>1, <2>2, StandingKeepsSolo DEF Follows, Uses, Processing, Probing
<1> QED
  BY <1>1, <1>2, <1>3, <1>4 DEF MainStep, MainCall

(* A pool of one worker never uses a freed actor: the walk that goes on    *)
(* after an erasure or after a handler, with the list unlocked in between, *)
(* finds its place again.  With two workers it may not (run PoolFreed).    *)
THEOREM SoloNoFault ==
  ASSUME NumWorkers = 1
  PROVE  Spec => []NoFault
<1>1. Init => SoloInv
  BY WorkerPoolAssumption DEF Init, SoloInv, Follows, Uses, Processing, Probing, Threads
<1>2. IInv /\ HInv /\ SoloInv /\ [Next]_vars => SoloInv'
  <2> SUFFICES ASSUME IInv, HInv, SoloInv, [Next]_vars PROVE SoloInv'
    OBVIOUS
  <2>1. CASE UNCHANGED vars
    BY <2>1 DEF vars, actorVars, SoloInv, Follows, Uses, Dangling
  <2>2. CASE Next
    BY <2>1, <2>2, WorkerKeepsSolo, MainKeepsSolo DEF Next, Halted
  <2> QED
    BY <2>1, <2>2
<1>3. SoloInv => NoFault
  BY DEF SoloInv, NoFault, Follows
<1> QED
  BY <1>1, <1>2, <1>3, SpecHInv, PTL DEF Spec

-----------------------------------------------------------------------------
(* What the abstract system sees of an actor.                              *)
Health(a) == IF life[a] = "live" /\ sick[a] THEN "sick" ELSE life[a]

LEMMA InitMaps == Init => System!SystemInit
<1> SUFFICES ASSUME Init PROVE System!SystemInit
  OBVIOUS
<1>1. ASSUME NEW a \in Actors PROVE RunningIn(a) = Nobody
  <2>1. Insiders(a) = {}
    BY WorkerPoolAssumption DEF Init, Insiders, Threads
  <2> QED
    BY <2>1, IdleIs
<1> QED
  BY <1>1 DEF Init, System!SystemInit

(* Everybody but w keeps its place and its message.                        *)
LEMMA OnlyMoves ==
  ASSUME IInv, NEW w \in Workers,
         \/ Pop(w) \/ Rename(w) \/ Handle(w) \/ HandlerDone(w) \/ HandlerPost(w) \/ Erase(w)
  PROVE  \A v \in Workers : v # w => pc'[v] = pc[v] /\ at'[v] = at[v] /\ msg'[v] = msg[v]
BY DEF Pop, Rename, Handle, HandlerDone, HandlerPost, Erase, FinishMessage, Goto, Move,
   IInv, TypeOK, Threads

LEMMA PopMaps ==
  ASSUME IInv, HInv, NEW w \in Workers, Pop(w)
  PROVE  \E a \in Actors : System!Take(a) \/ System!TakePoison(a)
<1>1. PICK a \in Actors : a = at[w]
  BY InsideFacts DEF Pop, At
<1>2. /\ life[a] = "live" /\ ~sick[a] /\ box[a] # <<>> /\ pc[w] = "pop"
      /\ box' = [box EXCEPT ![a] = Tail(box[a])]
      /\ UNCHANGED <<life, at>>
      /\ \A v \in Workers : v # w /\ pc[v] \in Processing => at[v] # a
  BY <1>1, InsideFacts DEF Pop, At
<1>3. Insiders(a) = {}
  BY <1>1, <1>2 DEF Insiders, Processing
<1>4. RunningIn(a) = Nobody
  BY <1>3, IdleIs
<1>5. ASSUME NEW b \in Actors, b # a PROVE RunningIn(b)' = RunningIn(b)
  BY <1>1, <1>2, <1>5, OnlyMoves, OthersRun
<1>6. CASE Head(box[a]) = "poison"
  <2>1. sick' = [sick EXCEPT ![a] = TRUE] /\ pc'[w] = "relock" /\ msg' = msg
    BY <1>1, <1>6 DEF Pop, Goto, IInv, TypeOK, Threads
  <2>2. Insiders(a)' = {}
    BY <1>2, <1>3, <2>1, OnlyMoves DEF Insiders
  <2>3. RunningIn(a)' = Nobody
    BY <2>2 DEF RunningIn
  <2>4. \A b \in Actors : Health(b)' = IF b = a THEN "sick" ELSE Health(b)
    BY <1>2, <2>1 DEF Health, IInv, TypeOK
  <2>5. System!TakePoison(a)
    BY <1>1, <1>2, <1>4, <1>5, <1>6, <2>3, <2>4 DEF System!TakePoison, Health
  <2> QED
    BY <2>5
<1>7. CASE Head(box[a]) # "poison"
  <2>1. sick' = sick /\ pc'[w] \in {"rename", "handle"} /\ msg'[w] = Head(box[a])
    BY <1>1, <1>7 DEF Pop, Goto, IInv, TypeOK, Threads
  <2>2. Insiders(a)' = {w}
    BY <1>1, <1>2, <1>3, <2>1, OnlyMoves DEF Insiders
  <2>3. RunningIn(a)' = Head(box[a])
    BY <2>1, <2>2 DEF RunningIn
  <2>4. System!Take(a)
    BY <1>1, <1>2, <1>4, <1>5, <1>7, <2>1, <2>3 DEF System!Take
  <2> QED
    BY <2>4
<1> QED
  BY <1>6, <1>7

LEMMA FinishMaps ==
  ASSUME IInv, HInv, NEW w \in Workers, Rename(w) \/ Handle(w) \/ HandlerDone(w)
  PROVE  \E a \in Actors : System!Finish(a)
<1>1. NoFault /\ Inside(w)
  BY DEF Rename, Handle, HandlerDone, At, Inside
<1>2. PICK a \in Actors : a = at[w]
  BY <1>1, InsideFacts
<1>3. /\ life[a] = "live" /\ ~sick[a] /\ UNCHANGED <<life, box, at>>
      /\ \A v \in Workers : v # w /\ pc[v] \in Processing => at[v] # a
  BY <1>1, <1>2, InsideFacts DEF Rename, Handle, HandlerDone, actorVars
<1>4. Insiders(a) = {w}
  BY <1>1, <1>2, <1>3 DEF Insiders, Inside, Processing
<1>5. RunningIn(a) = msg[w] /\ msg[w] # Nobody
  BY <1>1, <1>4, RunningIs, WorkerPoolAssumption DEF HInv, InHand, Inside, Message
<1>6. ~Inside(w)'
  BY DEF Rename, Handle, HandlerDone, FinishMessage, Goto, Inside, IInv, TypeOK, Threads
<1>7. Insiders(a)' = {}
  BY <1>3, <1>4, <1>6, OnlyMoves DEF Insiders, Inside
<1>8. RunningIn(a)' = Nobody
  BY <1>7 DEF RunningIn
<1>9. ASSUME NEW b \in Actors, b # a PROVE RunningIn(b)' = RunningIn(b)
  BY <1>2, <1>3, <1>9, OnlyMoves, OthersRun
<1>10. sick' = [sick EXCEPT ![a] = (msg[w] = "suicide")]
  <2>1. CASE Handle(w)
    BY <1>2, <2>1 DEF Handle
  <2>2. CASE Rename(w) \/ HandlerDone(w)
    <3>1. msg[w] # "suicide" /\ sick' = sick
      BY <2>2 DEF Rename, HandlerDone, At, HInv, InHand, actorVars
    <3> QED
      BY <1>3, <3>1 DEF IInv, TypeOK
  <2> QED
    BY <2>1, <2>2
<1>11. \A b \in Actors : Health(b)' = IF b = a /\ msg[w] = "suicide" THEN "sick" ELSE Health(b)
  BY <1>3, <1>10 DEF Health, IInv, TypeOK
<1>12. System!Finish(a)
  BY <1>2, <1>3, <1>5, <1>8, <1>9, <1>11 DEF System!Finish, Health
<1> QED
  BY <1>12

(* A post to an actor that is gone changes nothing.                        *)
LEMMA PutMaps ==
  ASSUME IInv, HInv, NEW a \in Actors, NEW m \in Message, Put(a, m),
         UNCHANGED <<life, sick>>, \A b \in Actors : RunningIn(b)' = RunningIn(b)
  PROVE  System!Send(a, m) \/ UNCHANGED System!systemVars
<1>1. CASE life[a] = "live"
  BY <1>1 DEF Put, System!Send
<1>2. CASE life[a] # "live"
  BY <1>2 DEF Put, System!systemVars
<1> QED
  BY <1>1, <1>2

LEMMA PostMaps ==
  ASSUME IInv, HInv, NEW w \in Workers, HandlerPost(w) \/ PostMessage
  PROVE  (\E a \in Actors, m \in Message : System!Send(a, m)) \/ UNCHANGED System!systemVars
<1>1. PICK a \in Actors, m \in Message : Put(a, m)
  BY WorkerPoolAssumption DEF HandlerPost, PostMessage, Message
<1>2. UNCHANGED <<life, sick, at, msg>>
  BY DEF HandlerPost, PostMessage
<1>3. \A b \in Actors : Insiders(b)' = Insiders(b)
  BY DEF HandlerPost, PostMessage, At, Goto, Insiders, IInv, TypeOK, Threads
<1>4. \A b \in Actors : RunningIn(b)' = RunningIn(b)
  BY <1>2, <1>3, SameRunning
<1> QED
  BY <1>1, <1>2, <1>4, PutMaps

LEMMA EraseMaps ==
  ASSUME IInv, HInv, NEW w \in Workers, Erase(w)
  PROVE  \E a \in Actors : System!Remove(a)
<1>1. PICK a \in Actors : a = at[w]
  BY DEF Erase, At, IInv, WorkerInv, Placed
<1>2. sick[a] /\ life[a] = "live"
  BY <1>1, WorkerPoolAssumption
  DEF Erase, At, IInv, WorkerInv, Doomed, NoFault, Uses, Dangling
<1>3. /\ \A b \in Actors : life'[b] = IF b = a THEN "dead" ELSE life[b]
      /\ box' = [box EXCEPT ![a] = <<>>]
      /\ UNCHANGED <<sick, msg>>
  BY <1>1 DEF Erase, Destroyed, IInv, TypeOK
<1>4. ~Inside(w) /\ ~Inside(w)'
  BY DEF Erase, At, Goto, Inside, IInv, TypeOK, Threads
<1>5. \A b \in Actors : Insiders(b)' = Insiders(b)
  BY <1>4, OnlyMoves DEF Insiders, Inside
<1>6. \A b \in Actors : RunningIn(b)' = RunningIn(b)
  BY <1>3, <1>5, SameRunning
<1>7. \A b \in Actors : Health(b)' = IF b = a THEN "dead" ELSE Health(b)
  BY <1>3 DEF Health
<1>8. System!Remove(a)
  BY <1>1, <1>2, <1>3, <1>6, <1>7 DEF System!Remove, Health
<1> QED
  BY <1>8

LEMMA RegisterMaps ==
  ASSUME IInv, HInv, Register
  PROVE  (\E a \in Actors : System!Create(a)) \/ UNCHANGED System!systemVars
<1>1. UNCHANGED <<box, sick, at, msg>>
  BY DEF Register
<1>2. \A b \in Actors : Insiders(b)' = Insiders(b)
  BY WorkerPoolAssumption DEF Register, Goto, Insiders, IInv, TypeOK, Threads
<1>3. \A b \in Actors : RunningIn(b)' = RunningIn(b)
  BY <1>1, <1>2, SameRunning
<1>4. CASE life' = life
  BY <1>1, <1>3, <1>4 DEF System!systemVars
<1>5. CASE life' # life
  <2>1. PICK a \in Actors : life[a] = "unborn" /\ life' = [life EXCEPT ![a] = "live"]
    BY <1>5 DEF Register
  <2>2. \A b \in Actors : Health(b)' = IF b = a THEN "live" ELSE Health(b)
    BY <1>1, <2>1 DEF Health, HInv, Born, IInv, TypeOK
  <2>3. System!Create(a)
    BY <1>1, <1>3, <2>1, <2>2 DEF System!Create, Health
  <2> QED
    BY <2>3
<1> QED
  BY <1>4, <1>5

LEMMA JoinMaps ==
  ASSUME IInv, HInv, Join
  PROVE  System!Close
<1>1. \A a \in Actors : Insiders(a) = {} /\ Insiders(a)' = {}
  BY WorkerPoolAssumption DEF Join, Goto, Insiders, IInv, TypeOK, Threads
<1>2. \A a \in Actors : RunningIn(a) = Nobody /\ RunningIn(a)' = Nobody
  BY <1>1 DEF RunningIn
<1>3. \A a \in Actors : life'[a] = IF life[a] = "live" THEN "dead" ELSE life[a]
  BY DEF Join, Destroyed, HInv, ListIsLive
<1>4. box' = [a \in Actors |-> <<>>]
  BY DEF Join, Destroyed, HInv, ListIsLive, Emptied
<1>5. \A a \in Actors : Health(a)' = IF Health(a) = "unborn" THEN "unborn" ELSE "dead"
  BY <1>3 DEF Health, IInv, TypeOK
<1> QED
  BY <1>2, <1>4, <1>5 DEF System!Close, Health

LEMMA StepMaps ==
  ASSUME IInv, HInv, [Next]_vars
  PROVE  [System!SystemNext]_(System!systemVars)
<1>1. ASSUME NEW w \in Workers, WorkerStep(w) \/ SpuriousWake(w)
      PROVE  [System!SystemNext]_(System!systemVars)
  <2>1. CASE Pop(w)
    BY <2>1, PopMaps DEF System!SystemNext
  <2>2. CASE Rename(w) \/ Handle(w) \/ HandlerDone(w)
    BY <2>2, FinishMaps DEF System!SystemNext
  <2>3. CASE HandlerPost(w)
    BY <2>3, PostMaps DEF System!SystemNext
  <2>4. CASE Erase(w)
    BY <2>4, EraseMaps DEF System!SystemNext
  <2>5. CASE Notify(w)
    BY <2>5, NotifyUnseen, UnseenStutters DEF Threads
  <2> QED
    BY <1>1, <2>1, <2>2, <2>3, <2>4, <2>5, WorkerUnseen, UnseenStutters DEF WorkerStep
<1>2. CASE MainStep \/ MainCall
  <2>1. \E w \in Workers : TRUE
    BY WorkerPoolAssumption DEF Workers
  <2>2. CASE PostMessage
    BY <2>1, <2>2, PostMaps DEF System!SystemNext
  <2>3. CASE Register
    BY <2>3, RegisterMaps DEF System!SystemNext
  <2>4. CASE Join
    BY <2>4, JoinMaps DEF System!SystemNext
  <2>5. CASE Notify(Main)
    BY <2>5, NotifyUnseen, UnseenStutters DEF Threads
  <2> QED
    BY <1>2, <2>2, <2>3, <2>4, <2>5, MainUnseen, UnseenStutters DEF MainStep, MainCall
<1>3. CASE Halted \/ UNCHANGED vars
  BY <1>3, UnseenStutters DEF Halted, vars, Unseen
<1> QED
  BY <1>1, <1>2, <1>3 DEF Next

(* For any number of workers the pool runs the messages of an actor one at *)
(* a time, in the order of posting, and none after its poison.             *)
THEOREM Refinement == Spec => ImplementsActorSystem
<1>1. IInv /\ HInv /\ [Next]_vars => [System!SystemNext]_(System!systemVars)
  BY StepMaps
<1> QED
  BY <1>1, InitMaps, SpecHInv, PTL DEF Spec, ImplementsActorSystem, System!SystemSpec
=============================================================================
