------------------------------ MODULE RwMutex -------------------------------
(***************************************************************************)
(* rwMutex_t of core/common/include/common.hpp: a readers-writer lock made *)
(* of one std::mutex, two condition variables, a flag and a counter.       *)
(*                                                                         *)
(* The inner mutex is held for the whole of each action below, so every    *)
(* critical section is one step; a thread gives the mutex up only by       *)
(* parking on a condition variable.  gate1 and gate2 are the threads       *)
(* asleep on the variable of that name; a thread whose pc is "wantRead",   *)
(* "wantWrite" or "draining" and which is in neither has been woken and is *)
(* about to test its predicate again.                                      *)
(***************************************************************************)
EXTENDS Naturals, FiniteSets

CONSTANTS Threads,      \* the threads that use the lock
          NoThread,     \* no thread, for the abstract lock
          MaxReaders    \* numeric_limits<unsigned int>::max(), small in the runs

ASSUME RwMutexAssumption ==
  /\ IsFiniteSet(Threads)
  /\ NoThread \notin Threads
  /\ MaxReaders \in Nat \ {0}

VARIABLES hasWriter, totalReaders, gate1, gate2, pc

vars == <<hasWriter, totalReaders, gate1, gate2, pc>>

PC == {"idle", "wantRead", "reading", "wantWrite", "draining", "writing", "notify"}

TypeOK ==
  /\ hasWriter \in BOOLEAN
  /\ totalReaders \in 0 .. MaxReaders
  /\ gate1 \subseteq Threads
  /\ gate2 \subseteq Threads
  /\ pc \in [Threads -> PC]

Init ==
  /\ hasWriter = FALSE
  /\ totalReaders = 0
  /\ gate1 = {}
  /\ gate2 = {}
  /\ pc = [t \in Threads |-> "idle"]

-----------------------------------------------------------------------------
Goto(t, label) == pc' = [pc EXCEPT ![t] = label]

(* notify_one wakes one sleeper, whichever the platform picks, or nobody.  *)
NotifyNobody(gate, gateNext) == gateNext = gate      \* the call is missing
NotifyOne(gate, gateNext) ==
  IF gate = {} THEN gateNext = gate ELSE \E s \in gate : gateNext = gate \ {s}

(* --totalReaders on an unsigned int.                                      *)
Decremented == IF totalReaders = 0 THEN MaxReaders ELSE totalReaders - 1

(* The predicate LockRead waits for.                                       *)
ReadersWelcomeAlways == totalReaders # MaxReaders       \* writers ignored
ReadersWelcome == ~hasWriter /\ totalReaders # MaxReaders

AdmitReader(t) ==
  /\ pc[t] \in {"idle", "wantRead"}
  /\ t \notin gate1
  /\ ReadersWelcome
  /\ totalReaders' = totalReaders + 1
  /\ Goto(t, "reading")
  /\ UNCHANGED <<hasWriter, gate1, gate2>>

ParkReader(t) ==
  /\ pc[t] \in {"idle", "wantRead"}
  /\ t \notin gate1
  /\ ~ReadersWelcome
  /\ gate1' = gate1 \cup {t}
  /\ Goto(t, "wantRead")
  /\ UNCHANGED <<hasWriter, totalReaders, gate2>>

(* The last reader out wakes a draining writer; the reader that makes the  *)
(* counter leave its maximum wakes one thread kept out at gate1.           *)
UnlockRead(t) ==
  /\ pc[t] = "reading"
  /\ totalReaders' = Decremented
  /\ IF hasWriter
     THEN /\ IF totalReaders' = 0 THEN NotifyOne(gate2, gate2') ELSE UNCHANGED gate2
          /\ UNCHANGED gate1
     ELSE /\ IF totalReaders' = MaxReaders - 1
             THEN NotifyOne(gate1, gate1')
             ELSE UNCHANGED gate1
          /\ UNCHANGED gate2
  /\ Goto(t, "idle")
  /\ UNCHANGED hasWriter

(* LockWrite past gate1: the flag goes up, and the writer goes in at once  *)
(* or sleeps until the readers have left.                                  *)
ClaimWriter(t) ==
  /\ pc[t] \in {"idle", "wantWrite"}
  /\ t \notin gate1
  /\ ~hasWriter
  /\ hasWriter' = TRUE
  /\ IF totalReaders = 0
     THEN Goto(t, "writing") /\ UNCHANGED gate2
     ELSE Goto(t, "draining") /\ gate2' = gate2 \cup {t}
  /\ UNCHANGED <<totalReaders, gate1>>

ParkWriter(t) ==
  /\ pc[t] \in {"idle", "wantWrite"}
  /\ t \notin gate1
  /\ hasWriter
  /\ gate1' = gate1 \cup {t}
  /\ Goto(t, "wantWrite")
  /\ UNCHANGED <<hasWriter, totalReaders, gate2>>

(* A writer woken at gate2 looks at the counter again.                     *)
EnterWriter(t) ==
  /\ pc[t] = "draining"
  /\ t \notin gate2
  /\ IF totalReaders = 0
     THEN Goto(t, "writing") /\ UNCHANGED gate2
     ELSE gate2' = gate2 \cup {t} /\ UNCHANGED pc
  /\ UNCHANGED <<hasWriter, totalReaders, gate1>>

(* UnlockWrite resets the state under the mutex ...                        *)
UnlockWrite(t) ==
  /\ pc[t] = "writing"
  /\ hasWriter' = FALSE
  /\ totalReaders' = 0
  /\ Goto(t, "notify")
  /\ UNCHANGED <<gate1, gate2>>

(* ... and calls notify_all after the mutex is released.                   *)
NotifyAll(t) ==
  /\ pc[t] = "notify"
  /\ gate1' = {}
  /\ Goto(t, "idle")
  /\ UNCHANGED <<hasWriter, totalReaders, gate2>>

(* A condition variable may return from wait for no reason.                *)
SpuriousWake(t) ==
  /\ \/ t \in gate1 /\ gate1' = gate1 \ {t} /\ UNCHANGED gate2
     \/ t \in gate2 /\ gate2' = gate2 \ {t} /\ UNCHANGED gate1
  /\ UNCHANGED <<hasWriter, totalReaders, pc>>

Retry(t) ==
  /\ pc[t] # "idle"
  /\ \/ AdmitReader(t) \/ ParkReader(t)
     \/ ClaimWriter(t) \/ ParkWriter(t)
     \/ EnterWriter(t)

Release(t) == UnlockRead(t) \/ UnlockWrite(t) \/ NotifyAll(t)

Next ==
  \E t \in Threads :
    \/ AdmitReader(t) \/ ParkReader(t) \/ UnlockRead(t)
    \/ ClaimWriter(t) \/ ParkWriter(t) \/ EnterWriter(t)
    \/ UnlockWrite(t) \/ NotifyAll(t)
    \/ SpuriousWake(t)

Spec == Init /\ [][Next]_vars

(* A thread that has started a call goes on with it when it is awake, and  *)
(* gives the lock back: every use in the code is a scoped guard or a       *)
(* BB_DEFER.  Nothing obliges a thread to ask for the lock.                *)
FairSpec == Spec /\ \A t \in Threads : WF_vars(Retry(t)) /\ WF_vars(Release(t))

-----------------------------------------------------------------------------
Readers == {t \in Threads : pc[t] = "reading"}
Writers == {t \in Threads : pc[t] = "writing"}
Claimants == {t \in Threads : pc[t] \in {"draining", "writing"}}

(* A thread inside LockWrite..UnlockWrite is alone: no second writer and   *)
(* no reader, although the code decides this by a flag and a counter that  *)
(* UnlockWrite overwrites with zero (common.hpp:224-278).                  *)
MutualExclusion ==
  \A w \in Writers : Readers = {} /\ Writers = {w}

(* The counter is the number of readers inside, in every state: the reset  *)
(* in UnlockWrite and the decrements in UnlockRead never lose or invent a  *)
(* reader, so a draining writer is let in neither early nor never.         *)
CounterIsReaders == totalReaders = Cardinality(Readers)

(* No thread sleeps without a reason: whoever is parked at gate1 is kept   *)
(* out by a writer or a full counter or is about to be notified, and a     *)
(* writer parked at gate2 has readers to wait for.  Holds while the lock   *)
(* has no more than MaxReaders + 1 users (common.hpp:246-278).             *)
SleepersHaveReason ==
  /\ gate1 # {} => \/ ~ReadersWelcome
                   \/ \E t \in Threads : pc[t] = "notify"
  /\ gate2 # {} => totalReaders > 0

(* A writer that has raised the flag gets in: readers that arrive later    *)
(* cannot overtake it for ever (common.hpp:230-232, 250-255).              *)
ClaimantEnters ==
  \A t \in Threads : (pc[t] = "draining") ~> (pc[t] = "writing")

(* Nobody is forgotten on a condition variable: a thread that goes to      *)
(* sleep at gate1 is woken, by notify_all or by notify_one.                *)
SleeperWakes ==
  \A t \in Threads : (t \in gate1) ~> (t \notin gate1)

(* The lock keeps the promises of RwLock; there is one claimant at most.   *)
Claim == IF Claimants = {} THEN NoThread ELSE CHOOSE t \in Claimants : TRUE

Lock == INSTANCE RwLock WITH
  readers <- Readers,
  claim <- Claim,
  writing <- Writers # {}

(* Every behaviour of the counters and condition variables is one of the   *)
(* abstract lock: a claim shuts out new readers until the claimant is done.*)
ImplementsRwLock == Lock!LockSpec
=============================================================================
