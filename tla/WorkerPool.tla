----------------------------- MODULE WorkerPool -----------------------------
(***************************************************************************)
(* The actor scheduler: core/actor/src/worker.cpp and actor.cpp.           *)
(*                                                                         *)
(* Worker threads walk one shared list of actors.  The list is guarded by  *)
(* the readers-writer lock actorsGuard (module RwLock); an actor by its    *)
(* inProcess mutex, which is only ever tried, never waited for.  A worker  *)
(* gives its read lock back while it runs an actor, so that a handler may  *)
(* post and register.  The thread Main registers actors, posts to them and *)
(* in the end destroys the pool.                                           *)
(*                                                                         *)
(* Abstractions: a message is the kind of effect it has on its receiver,   *)
(* an actor is its ID and is registered once, and postOffice_t::Post is    *)
(* one step (module PostOffice opens it).  A post to an actor that is gone *)
(* returns -1 as in the Release build, where assert is compiled out.       *)
(***************************************************************************)
EXTENDS Naturals, Sequences

CONSTANTS NumWorkers,   \* totalWorkers
          Actors,       \* the actors that may ever be registered
          Main,         \* the thread that owns the pool
          Nobody,       \* no thread, no actor
          MaxActors,    \* maxActorsInWorkerPool
          MainPosts,    \* the messages Main may post
          Budget,       \* how many of them (a bound of the model)
          MainWaits     \* TRUE: Main destroys the pool only after every worker started

Workers == 1 .. NumWorkers
Threads == Workers \cup {Main}

Message == {"work", "error", "setName", "poison", "suicide", "forward", "unregister"}

ASSUME WorkerPoolAssumption ==
  /\ NumWorkers \in Nat \ {0}
  /\ Main \notin Workers
  /\ Nobody \notin Threads \cup Actors /\ Nobody \notin Message
  /\ MaxActors \in Nat
  /\ MainPosts \subseteq Message
  /\ Budget \in Nat
  /\ MainWaits \in BOOLEAN

VARIABLES
  readers, claim, writing,  \* actorsGuard
  actors,     \* the list, in order of registration
  life,       \* "unborn", "live" (allocated) or "dead" (freed)
  box,        \* the queue of each actor's mailbox
  sick,       \* actor_t::sick
  inProcess,  \* the holder of actor_t::inProcess
  stop,       \* workerInfo_t::stop
  pc,         \* where each thread is
  at,         \* its iterator into the list; Nobody is end()
  left,       \* msgAlreadyInQueue
  msg,        \* the message a worker is handling
  result,     \* what ProcessMessagesCore will return
  bell,       \* the next worker a thread notifies; 0 when it is not notifying
  posted      \* messages Main has posted so far

guardVars == <<readers, claim, writing>>
actorVars == <<actors, life, box, sick>>
vars == <<guardVars, actorVars, inProcess, stop, pc, at, left, msg, result, bell, posted>>

actorsGuard == INSTANCE RwLock WITH NoThread <- Nobody

(* A worker's states in the order of its loop.  "asleep" and "woken" are   *)
(* the two halves of notify.wait; it owns info.guard in all states but     *)
(* those of Unguarded.                                                     *)
WorkerPC == {"prepare", "top", "begin", "visit", "core", "pop", "rename", "handle",
             "sent", "relock", "drop", "erase", "resume", "pred", "scan", "probe",
             "empty", "filled", "doze", "asleep", "woken", "exited"}
MainPC == {"idle", "register", "find", "stopping", "ringing", "joining", "done"}
UnguardedAnywhere == WorkerPC   \* a destructor that does not take info.guard
Unguarded == {"prepare", "top", "asleep", "woken", "exited"}

(* The states between try_lock and unlock of inProcess, in                 *)
(* ProcessMessagesReadReleaseAquire and in NeedProcessing.                 *)
Processing == {"core", "pop", "rename", "handle", "sent", "relock"}
Probing == {"probe", "empty", "filled"}

Results == {"skipped", "complete", "error", "poisoned"}

TypeOK ==
  /\ readers \subseteq Threads /\ claim \in Threads \cup {Nobody} /\ writing \in BOOLEAN
  /\ actors \in Seq(Actors)
  /\ life \in [Actors -> {"unborn", "live", "dead"}]
  /\ box \in [Actors -> Seq(Message)]
  /\ sick \in [Actors -> BOOLEAN]
  /\ inProcess \in [Actors -> Workers \cup {Nobody}]
  /\ stop \in [Workers -> BOOLEAN]
  /\ pc \in [Threads -> WorkerPC \cup MainPC]
  /\ at \in [Threads -> Actors \cup {Nobody}]
  /\ left \in [Workers -> Nat]
  /\ msg \in [Workers -> Message \cup {Nobody}]
  /\ result \in [Workers -> Results]
  /\ bell \in [Threads -> 0 .. NumWorkers]
  /\ posted \in 0 .. Budget

Init ==
  /\ actorsGuard!LockInit
  /\ actors = <<>>
  /\ life = [a \in Actors |-> "unborn"]
  /\ box = [a \in Actors |-> <<>>]
  /\ sick = [a \in Actors |-> FALSE]
  /\ inProcess = [a \in Actors |-> Nobody]
  /\ stop = [w \in Workers |-> FALSE]
  /\ pc = [t \in Threads |-> IF t = Main THEN "idle" ELSE "prepare"]
  /\ at = [t \in Threads |-> Nobody]
  /\ left = [w \in Workers |-> 0]
  /\ msg = [w \in Workers |-> Nobody]
  /\ result = [w \in Workers |-> "skipped"]
  /\ bell = [t \in Threads |-> 0]
  /\ posted = 0

-----------------------------------------------------------------------------
Range(s) == {s[i] : i \in DOMAIN s}

(* begin() and operator++ of the list; an iterator to a freed node leads   *)
(* nowhere, and NoFault below stops the model before it is followed.       *)
First == IF actors = <<>> THEN Nobody ELSE Head(actors)
After(a) ==
  IF \E i \in 1 .. Len(actors) - 1 : actors[i] = a
  THEN actors[1 + CHOOSE i \in 1 .. Len(actors) - 1 : actors[i] = a]
  ELSE Nobody

(* erase returns the iterator after the erased element.                    *)
AfterEraseKept(a) == a          \* the result of erase is not assigned
AfterErase(a) == After(a)

(* The try_lock of inProcess succeeds.                                     *)
FreeUntested(a) == TRUE         \* owns_lock() is not asked
Free(a) == inProcess[a] = Nobody

(* ProcessMessagesCore returns at once.                                    *)
NothingToDoIfEmpty(a) == box[a] = <<>>   \* the test of sick is missing
NothingToDo(a) == sick[a] \/ box[a] = <<>>

(* NeedProcessing, once inProcess is held.                                 *)
WantsWorkerForMany(a) == Len(box[a]) > 1 /\ ~sick[a]   \* off by one
WantsWorker(a) == box[a] # <<>> /\ ~sick[a]

(* The test of "while (msgAlreadyInQueue-- > 0)" fails after this turn.    *)
LastTurnLate(n) == n = 0        \* ">= 0"
LastTurn(n) == n = 1

(* DoProcessActors' switch: an error is logged, a poisoned actor erased.   *)
VerdictForgiving(r) == "visit"           \* the case poisoned is missing
Verdict(r) == IF r = "poisoned" THEN "drop" ELSE "visit"

(* What an entered actor does with the reader's lock its worker came with. *)
ReleaseListKept(w) == UNCHANGED guardVars   \* the call is missing
ReleaseList(w) == actorsGuard!UnlockRead(w)

(* Register finds no room.                                                 *)
FullLate == Len(actors) > MaxActors   \* off by one
Full == Len(actors) >= MaxActors

(* The loop over infos in PostMessage.                                     *)
NextBellTooFar(i) == IF i > NumWorkers THEN 0 ELSE i + 1   \* off by one
NextBell(i) == IF i = NumWorkers THEN 0 ELSE i + 1

Goto(t, label) == pc' = [pc EXCEPT ![t] = label]
Move(t, a) == at' = [at EXCEPT ![t] = a]

(* notify_one on the condition variable of worker i, which only worker i   *)
(* ever waits on: lost unless the worker is asleep.                        *)
WokenNever(i) == pc[i]          \* the call is missing
Woken(i) == IF pc[i] = "asleep" THEN "woken" ELSE pc[i]

-----------------------------------------------------------------------------
(* The list element is used: through the iterator, or as the actor whose   *)
(* messages are being processed.                                           *)
Uses(w) == pc[w] \in {"visit", "erase", "scan"} \cup Processing \cup Probing
Dangling(w) == at[w] # Nobody /\ life[at[w]] # "live"

(* No worker uses an actor that was freed: an actor stays allocated while  *)
(* it is processed, and the iterator of a worker leads to a live actor,    *)
(* though the worker holds no lock on the list in between: "forbid others  *)
(* to mess with this actor while it processes data" (worker.cpp:63-93).    *)
NoFault == \A w \in Workers : Uses(w) => ~Dangling(w)

(* The guard of every step: thread t is at the label, and no thread has    *)
(* yet used a freed actor, which ends the modelled behaviour.              *)
At(t, label) == pc[t] = label /\ NoFault

Jump(w, from, to) ==
  /\ At(w, from)
  /\ Goto(w, to)
  /\ UNCHANGED <<guardVars, actorVars, inProcess, stop, at, left, msg, result, bell, posted>>

-----------------------------------------------------------------------------
(* PrepareInfo, which also clears stop.                                    *)
PrepareInfo(w) ==
  /\ At(w, "prepare")
  /\ stop' = [stop EXCEPT ![w] = FALSE]
  /\ Goto(w, "top")
  /\ UNCHANGED <<guardVars, actorVars, inProcess, at, left, msg, result, bell, posted>>

(* The head of WorkerThread's loop: info.guard is taken and stop read.     *)
LoopTop(w) == Jump(w, "top", IF stop[w] THEN "exited" ELSE "begin")

(* A walk over the list begins under a read lock: that of DoProcessActors, *)
(* or that of HasActorsInQueue in notify.wait's predicate.                 *)
BeginWalk(w) ==
  /\ At(w, "begin") \/ (At(w, "pred") /\ ~stop[w])
  /\ actorsGuard!LockRead(w)
  /\ Move(w, First)
  /\ Goto(w, IF pc[w] = "begin" THEN "visit" ELSE "scan")
  /\ UNCHANGED <<actorVars, inProcess, stop, left, msg, result, bell, posted>>

EndWalk(w) ==
  /\ At(w, "visit") \/ At(w, "scan")
  /\ at[w] = Nobody
  /\ actorsGuard!UnlockRead(w)
  /\ Goto(w, IF pc[w] = "visit" THEN "pred" ELSE "doze")
  /\ UNCHANGED <<actorVars, inProcess, stop, at, left, msg, result, bell, posted>>

(* An actor somebody else is inside is passed over, by both walks.         *)
SkipBusy(w) ==
  /\ At(w, "visit") \/ At(w, "scan")
  /\ at[w] # Nobody /\ ~Free(at[w])
  /\ Move(w, After(at[w]))
  /\ UNCHANGED <<guardVars, actorVars, inProcess, stop, pc, left, msg, result, bell, posted>>

(* ProcessMessagesReadReleaseAquire: inProcess is tried; with it in hand   *)
(* the read lock is released.                                              *)
EnterActor(w) ==
  /\ At(w, "visit") /\ at[w] # Nobody
  /\ Free(at[w])
  /\ inProcess' = [inProcess EXCEPT ![at[w]] = w]
  /\ ReleaseList(w)
  /\ Goto(w, "core")
  /\ UNCHANGED <<actorVars, stop, at, left, msg, result, bell, posted>>

(* ProcessMessagesCore up to its loop: the queue's length is read once.    *)
Core(w) ==
  /\ At(w, "core")
  /\ IF NothingToDo(at[w])
     THEN Goto(w, "relock") /\ UNCHANGED <<left, result>>
     ELSE /\ left' = [left EXCEPT ![w] = Len(box[at[w]])]
          /\ result' = [result EXCEPT ![w] = "complete"]
          /\ Goto(w, "pop")
  /\ UNCHANGED <<guardVars, actorVars, inProcess, stop, at, msg, bell, posted>>

(* mailbox_t::Wait, which would block on an empty queue, and the two       *)
(* messages actor_t handles itself.                                        *)
Pop(w) ==
  LET a == at[w] IN
  /\ At(w, "pop")
  /\ box[a] # <<>>
  /\ box' = [box EXCEPT ![a] = Tail(@)]
  /\ CASE Head(box[a]) = "poison" ->
            /\ sick' = [sick EXCEPT ![a] = TRUE]
            /\ left' = [left EXCEPT ![w] = 0]
            /\ result' = [result EXCEPT ![w] = "poisoned"]
            /\ Goto(w, "relock")
            /\ UNCHANGED msg
       [] Head(box[a]) = "setName" ->
            /\ msg' = [msg EXCEPT ![w] = "setName"]
            /\ Goto(w, "rename")
            /\ UNCHANGED <<sick, left, result>>
       [] OTHER ->
            /\ msg' = [msg EXCEPT ![w] = Head(box[a])]
            /\ Goto(w, "handle")
            /\ UNCHANGED <<sick, left, result>>
  /\ UNCHANGED <<guardVars, actors, life, inProcess, stop, at, bell, posted>>

(* The end of one turn of the loop with the role's answer r; only the last *)
(* answer that was not complete is kept.                                   *)
FinishMessage(w, r) ==
  /\ msg' = [msg EXCEPT ![w] = Nobody]
  /\ left' = [left EXCEPT ![w] = IF r = "poisoned" THEN 0 ELSE @ - 1]
  /\ result' = [result EXCEPT ![w] = IF r = "complete" THEN @ ELSE r]
  /\ Goto(w, IF r = "poisoned" \/ LastTurn(left[w]) THEN "relock" ELSE "pop")

(* The assignment to actor_t::name, which no lock but inProcess covers.    *)
Rename(w) ==
  /\ At(w, "rename")
  /\ FinishMessage(w, "complete")
  /\ UNCHANGED <<guardVars, actorVars, inProcess, stop, at, bell, posted>>

(* role_t::ProcessMessage of a role that answers without posting.          *)
Handle(w) ==
  /\ At(w, "handle")
  /\ msg[w] \in {"work", "error", "suicide"}
  /\ FinishMessage(w, CASE msg[w] = "work" -> "complete"
                         [] msg[w] = "error" -> "error"
                         [] msg[w] = "suicide" -> "poisoned")
  /\ sick' = [sick EXCEPT ![at[w]] = msg[w] = "suicide"]
  /\ UNCHANGED <<guardVars, actors, life, box, inProcess, stop, at, bell, posted>>

-----------------------------------------------------------------------------
(* postOffice_t::Post: the message is queued while the mailbox exists.     *)
PutFront(a, m) ==               \* a stack in place of the queue
  box' = IF life[a] = "live" THEN [box EXCEPT ![a] = <<m>> \o @] ELSE box
Put(a, m) ==
  box' = IF life[a] = "live" THEN [box EXCEPT ![a] = Append(@, m)] ELSE box

(* PostMessage goes on to notify the workers only after a Put.             *)
StartBell(t, a) == bell' = [bell EXCEPT ![t] = IF life[a] = "live" THEN 1 ELSE 0]

(* A handler that posts: another actor's work, or (Unregister) its poison. *)
HandlerPost(w) ==
  /\ At(w, "handle")
  /\ msg[w] \in {"forward", "unregister"}
  /\ \E b \in Actors :
       /\ life[b] # "unborn"
       /\ Put(b, IF msg[w] = "forward" THEN "work" ELSE "poison")
       /\ StartBell(w, b)
  /\ Goto(w, "sent")
  /\ UNCHANGED <<guardVars, actors, life, sick, inProcess, stop, at, left, msg, result, posted>>

(* One turn of PostMessage's loop over infos: no guard is taken.           *)
Notify(t) ==
  /\ At(t, "idle") \/ At(t, "sent")
  /\ bell[t] # 0
  /\ bell' = [bell EXCEPT ![t] = NextBell(@)]
  /\ Goto(bell[t], Woken(bell[t]))
  /\ UNCHANGED <<guardVars, actorVars, inProcess, stop, at, left, msg, result, posted>>

HandlerDone(w) ==
  /\ At(w, "sent") /\ bell[w] = 0
  /\ FinishMessage(w, "complete")
  /\ UNCHANGED <<guardVars, actorVars, inProcess, stop, at, bell, posted>>

(* The deferred LockRead runs before inProcess is released; then           *)
(* DoProcessActors looks at the result.                                    *)
LeaveActor(w) ==
  /\ At(w, "relock")
  /\ actorsGuard!LockRead(w)
  /\ inProcess' = [inProcess EXCEPT ![at[w]] = Nobody]
  /\ result' = [result EXCEPT ![w] = "skipped"]
  /\ Goto(w, Verdict(result[w]))
  /\ Move(w, IF Verdict(result[w]) = "visit" THEN After(at[w]) ELSE at[w])
  /\ UNCHANGED <<actorVars, stop, left, msg, bell, posted>>

(* A poisoned actor is erased: the read lock is exchanged for the write    *)
(* lock, and for a moment the worker holds neither ...                     *)
DropRead(w) ==
  /\ At(w, "drop")
  /\ actorsGuard!UnlockRead(w)
  /\ Goto(w, "erase")
  /\ UNCHANGED <<actorVars, inProcess, stop, at, left, msg, result, bell, posted>>

(* GetWriteLock, for the eraser and for Register.                          *)
GetWriteLock(t) ==
  /\ actorsGuard!ClaimWrite(t) \/ actorsGuard!EnterWrite(t)
  /\ UNCHANGED <<actorVars, inProcess, stop, at, left, msg, result, bell, posted>>

EraseLock(w) == At(w, "erase") /\ GetWriteLock(w) /\ UNCHANGED pc

(* ... erase, which destroys the actor and its mailbox, and unlock; the    *)
(* iterator is already on the next actor.                                  *)
Destroyed(dying) ==
  /\ life' = [a \in Actors |-> IF a \in dying THEN "dead" ELSE life[a]]
  /\ box' = [a \in Actors |-> IF a \in dying THEN <<>> ELSE box[a]]

Erase(w) ==
  /\ At(w, "erase") /\ writing /\ claim = w
  /\ Move(w, AfterErase(at[w]))
  /\ \E i \in DOMAIN actors :
       /\ actors[i] = at[w]
       /\ actors' = [j \in 1 .. Len(actors) - 1 |-> actors[IF j < i THEN j ELSE j + 1]]
  /\ Destroyed({at[w]})
  /\ actorsGuard!UnlockWrite(w)
  /\ Goto(w, "resume")
  /\ UNCHANGED <<sick, inProcess, stop, left, msg, result, bell, posted>>

(* The deferred LockRead: the iterator is used again from here on.         *)
Resume(w) ==
  /\ At(w, "resume")
  /\ actorsGuard!LockRead(w)
  /\ Goto(w, "visit")
  /\ UNCHANGED <<actorVars, inProcess, stop, at, left, msg, result, bell, posted>>

-----------------------------------------------------------------------------
(* notify.wait's predicate: stop, or else a walk of HasActorsInQueue.      *)
TestStop(w) == stop[w] /\ Jump(w, "pred", "top")

(* NeedProcessing holds the actor while it reads its mailbox and health.   *)
ProbeLock(w) ==
  /\ At(w, "scan") /\ at[w] # Nobody
  /\ Free(at[w])
  /\ inProcess' = [inProcess EXCEPT ![at[w]] = w]
  /\ Goto(w, "probe")
  /\ UNCHANGED <<guardVars, actorVars, stop, at, left, msg, result, bell, posted>>

ProbeRead(w) == Jump(w, "probe", IF WantsWorker(at[w]) THEN "filled" ELSE "empty")

(* TRUE ends the scan and the wait; FALSE moves on to the next actor.      *)
ProbeUnlock(w) ==
  /\ At(w, "empty") \/ At(w, "filled")
  /\ inProcess' = [inProcess EXCEPT ![at[w]] = Nobody]
  /\ IF pc[w] = "filled"
     THEN actorsGuard!UnlockRead(w) /\ Goto(w, "top") /\ UNCHANGED at
     ELSE Move(w, After(at[w])) /\ Goto(w, "scan") /\ UNCHANGED guardVars
  /\ UNCHANGED <<actorVars, stop, left, msg, result, bell, posted>>

(* The predicate was false: the worker sleeps and info.guard is released,  *)
(* in one step; whatever was notified before it is lost.                   *)
Sleep(w) == Jump(w, "doze", "asleep")
SpuriousWake(w) == Jump(w, "asleep", "woken")
Wake(w) == Jump(w, "woken", "pred")

-----------------------------------------------------------------------------
MainIdle == At(Main, "idle") /\ bell[Main] = 0

(* Register: under the write lock, with a limit on the list's length.      *)
StartRegister ==
  /\ MainIdle
  /\ \E a \in Actors : life[a] = "unborn"
  /\ GetWriteLock(Main)
  /\ Goto(Main, "register")

RegisterLock == At(Main, "register") /\ GetWriteLock(Main) /\ UNCHANGED pc

Register ==
  /\ At(Main, "register") /\ writing /\ claim = Main
  /\ IF Full
     THEN UNCHANGED <<actors, life>>
     ELSE \E a \in Actors :
            /\ life[a] = "unborn"
            /\ life' = [life EXCEPT ![a] = "live"]
            /\ actors' = Append(actors, a)
  /\ actorsGuard!UnlockWrite(Main)
  /\ Goto(Main, "idle")
  /\ UNCHANGED <<box, sick, inProcess, stop, at, left, msg, result, bell, posted>>

(* PostMessage and, for a poison, Unregister, to an ID Register returned.  *)
PostMessage ==
  /\ MainIdle
  /\ posted < Budget
  /\ posted' = posted + 1
  /\ \E a \in Actors, m \in MainPosts :
       life[a] # "unborn" /\ Put(a, m) /\ StartBell(Main, a)
  /\ UNCHANGED <<guardVars, actors, life, sick, inProcess, stop, pc, at, left, msg, result>>

(* FindFirstByName walks the list under a read lock and reads every name   *)
(* up to the one that matches.                                             *)
BeginFind ==
  /\ MainIdle
  /\ actors # <<>>
  /\ actorsGuard!LockRead(Main)
  /\ Move(Main, First)
  /\ Goto(Main, "find")
  /\ UNCHANGED <<actorVars, inProcess, stop, left, msg, result, bell, posted>>

FindNext ==
  /\ At(Main, "find") /\ at[Main] # Nobody
  /\ Move(Main, After(at[Main]))
  /\ UNCHANGED <<guardVars, actorVars, inProcess, stop, pc, left, msg, result, bell, posted>>

EndFind ==
  /\ At(Main, "find")
  /\ actorsGuard!UnlockRead(Main)
  /\ Move(Main, Nobody)
  /\ Goto(Main, "idle")
  /\ UNCHANGED <<actorVars, inProcess, stop, left, msg, result, bell, posted>>

(* ~workerPool_t: each worker is told to stop under its info.guard and     *)
(* notified after it, all are joined, and the actors left are destroyed.   *)
StartStop ==
  /\ MainIdle
  /\ MainWaits => \A w \in Workers : pc[w] # "prepare"
  /\ Goto(Main, "stopping")
  /\ bell' = [bell EXCEPT ![Main] = 1]
  /\ UNCHANGED <<guardVars, actorVars, inProcess, stop, at, left, msg, result, posted>>

StopWorker ==
  /\ At(Main, "stopping")
  /\ pc[bell[Main]] \in Unguarded
  /\ stop' = [stop EXCEPT ![bell[Main]] = TRUE]
  /\ Goto(Main, "ringing")
  /\ UNCHANGED <<guardVars, actorVars, inProcess, at, left, msg, result, bell, posted>>

RingWorker ==
  LET i == bell[Main] IN
  /\ At(Main, "ringing")
  /\ pc' = [pc EXCEPT ![i] = Woken(i),
                      ![Main] = IF i = NumWorkers THEN "joining" ELSE "stopping"]
  /\ bell' = [bell EXCEPT ![Main] = IF i = NumWorkers THEN 0 ELSE i + 1]
  /\ UNCHANGED <<guardVars, actorVars, inProcess, stop, at, left, msg, result, posted>>

Join ==
  /\ At(Main, "joining")
  /\ \A w \in Workers : pc[w] = "exited"
  /\ Destroyed(Range(actors))
  /\ actors' = <<>>
  /\ Goto(Main, "done")
  /\ UNCHANGED <<guardVars, sick, inProcess, stop, at, left, msg, result, bell, posted>>

-----------------------------------------------------------------------------
WorkerStep(w) ==
  \/ PrepareInfo(w) \/ LoopTop(w) \/ BeginWalk(w) \/ EndWalk(w) \/ SkipBusy(w)
  \/ EnterActor(w) \/ Core(w) \/ Pop(w) \/ Rename(w) \/ Handle(w)
  \/ HandlerPost(w) \/ Notify(w) \/ HandlerDone(w) \/ LeaveActor(w)
  \/ DropRead(w) \/ EraseLock(w) \/ Erase(w) \/ Resume(w)
  \/ TestStop(w) \/ ProbeLock(w) \/ ProbeRead(w) \/ ProbeUnlock(w)
  \/ Sleep(w) \/ Wake(w)

(* What Main has begun; starting an operation is its own choice.           *)
MainStep ==
  \/ RegisterLock \/ Register \/ Notify(Main) \/ FindNext \/ EndFind
  \/ StopWorker \/ RingWorker \/ Join

MainCall == StartRegister \/ PostMessage \/ BeginFind \/ StartStop

(* Nothing happens after the use of a freed actor or a finished shutdown.  *)
Halted == (~NoFault \/ pc[Main] = "done") /\ UNCHANGED vars

Next ==
  \/ \E w \in Workers : WorkerStep(w) \/ SpuriousWake(w)
  \/ MainStep
  \/ MainCall
  \/ Halted

Spec == Init /\ [][Next]_vars

(* The platform runs every thread that can run, and a thread waiting for   *)
(* actorsGuard is let in when it is free (RwMutex shows that).  An         *)
(* info.guard may be taken again and again by a worker that wakes for no   *)
(* reason, so the thread waiting for it needs strong fairness.  Nothing is *)
(* assumed of spurious wake-ups and of the calls Main may start.           *)
FairSpec ==
  /\ Spec
  /\ \A w \in Workers : WF_vars(WorkerStep(w))
  /\ WF_vars(MainStep)
  /\ SF_vars(StopWorker)

-----------------------------------------------------------------------------
Holders(a) == {w \in Workers : pc[w] \in Processing \cup Probing /\ at[w] = a}
Undertakers(a) ==
  {w \in Workers : /\ at[w] = a
                   /\ \/ pc[w] \in {"drop", "erase"}
                      \/ pc[w] = "relock" /\ result[w] = "poisoned"}

(* inProcess works although it is only tried: at every moment at most one  *)
(* worker is inside an actor, processing it or probing it, and it is the   *)
(* one that holds the mutex, so no two handlers of an actor overlap        *)
(* (actor.cpp:89-109).                                                     *)
OneWorkerPerActor ==
  \A a \in Actors : Holders(a) = IF inProcess[a] = Nobody THEN {} ELSE {inProcess[a]}

(* mailbox_t::Wait never blocks a worker: the messages counted by Has()    *)
(* are still there when they are popped, because nobody else takes from    *)
(* this mailbox (actor.cpp:36-47).  A blocked worker would hold inProcess  *)
(* and its info.guard for ever.                                            *)
WaitNeverBlocks ==
  \A w \in Workers : pc[w] = "pop" => left[w] \in 1 .. Len(box[at[w]])

(* An actor is erased at most once: of the workers that reach it one alone *)
(* sees the answer "poisoned", whether it was poisoned or poisoned itself  *)
(* (actor.cpp:29-32, 53-54, 67-68; worker.cpp:83-93).                      *)
OneUndertaker ==
  \A a \in Actors : \A v, w \in Undertakers(a) : v = w

(* No worker asks for actorsGuard while it holds it, for which the lock    *)
(* would make it wait for itself as soon as a writer queues in between     *)
(* (the assertion of AddLock, common.cpp, under BB_DOUBLE_LOCK_ASSERT).    *)
NoDoubleLock ==
  \A w \in Workers : pc[w] \in {"begin", "relock", "erase", "resume", "pred"} =>
    w \notin readers

(* The list holds each living actor once and nothing else, and never more  *)
(* than the limit Register enforces (worker.cpp:55, 190-198).              *)
ListIsLive ==
  /\ Range(actors) = {a \in Actors : life[a] = "live"}
  /\ \A i, j \in DOMAIN actors : actors[i] = actors[j] => i = j
  /\ Len(actors) <= MaxActors

(* ~actor_t: assert(this->mailbox->Empty()) (actor.cpp:119-122).           *)
DiesWithEmptyMailbox ==
  [][\A a \in Actors : life[a] = "live" /\ life'[a] = "dead" => box[a] = <<>>]_vars

(* Worker w has its test of the mailboxes still to do, or sleeps with a    *)
(* notification on its way.                                                *)
WillLook(w) ==
  \/ pc[w] \notin {"scan", "probe", "empty", "doze", "asleep", "exited"}
  \/ pc[w] = "asleep" /\ \E t \in Threads : bell[t] \in 1 .. w

(* Mail is served, whoever posted it, unless it came while the only worker *)
(* was between its test and its sleep, or the worker is told to stop: a    *)
(* sleeper is woken, and a worker that posts looks at every mailbox itself *)
(* before it sleeps (worker.cpp:118, 224-244).                             *)
MailIsServed ==
  \A a \in Actors, w \in Workers :
    (box[a] # <<>> /\ WillLook(w)) ~> (box[a] = <<>> \/ stop[w])

(* A sick actor is buried (worker.cpp:83-93).                              *)
SickIsErased == \A a \in Actors : sick[a] ~> life[a] = "dead"

(* ~workerPool_t returns: no worker misses its stop (worker.cpp:155-171).  *)
ShutdownCompletes == (pc[Main] = "stopping") ~> (pc[Main] = "done")
-----------------------------------------------------------------------------
(* The message an actor is running is in the hands of the worker that is   *)
(* inside its handler.                                                     *)
Insiders(a) == {w \in Workers : at[w] = a /\ pc[w] \in {"rename", "handle", "sent"}}
RunningIn(a) == IF Insiders(a) = {} THEN Nobody ELSE msg[CHOOSE w \in Insiders(a) : TRUE]

System == INSTANCE ActorSystem WITH
  Idle <- Nobody,
  health <- [a \in Actors |-> IF life[a] = "live" /\ sick[a] THEN "sick" ELSE life[a]],
  queue <- box,
  running <- [a \in Actors |-> RunningIn(a)]

(* The pool runs the messages of an actor one at a time and in the order   *)
(* of posting, whichever workers run them, and none after its poison.      *)
ImplementsActorSystem == System!SystemSpec

=============================================================================
