------------------------------- MODULE RwLock -------------------------------
(***************************************************************************)
(* What a client of rwMutex_t (core/common/include/common.hpp) may rely    *)
(* on, said without counters, flags or condition variables: any number of  *)
(* threads hold the lock for reading, or one holds it for writing, and a   *)
(* writer that has announced itself shuts the door on new readers.         *)
(*                                                                         *)
(* RwMutex implements this module; WorkerPool uses it in place of the lock.*)
(***************************************************************************)
EXTENDS FiniteSets

CONSTANTS Threads,    \* the threads that use the lock
          NoThread    \* the value of claim when no writer is queued or inside

VARIABLES readers,    \* the threads that hold the lock for reading
          claim,      \* the writer that is queued or inside, if any
          writing     \* TRUE once the claiming writer is inside

lockVars == <<readers, claim, writing>>

LockInit == readers = {} /\ claim = NoThread /\ writing = FALSE

-----------------------------------------------------------------------------
(* A read lock is granted only while no writer is queued.                  *)
LockRead(t) ==
  /\ claim = NoThread
  /\ t \notin readers
  /\ readers' = readers \cup {t}
  /\ UNCHANGED <<claim, writing>>

UnlockRead(t) ==
  /\ t \in readers
  /\ readers' = readers \ {t}
  /\ UNCHANGED <<claim, writing>>

(* The writer takes its place before the readers have left.                *)
ClaimWrite(t) ==
  /\ claim = NoThread
  /\ t \notin readers
  /\ readers # {}
  /\ claim' = t
  /\ UNCHANGED <<readers, writing>>

(* The writer goes in, at once or after a claim.                           *)
EnterWrite(t) ==
  /\ claim \in {NoThread, t}
  /\ ~writing
  /\ readers = {}
  /\ claim' = t
  /\ writing' = TRUE
  /\ UNCHANGED readers

UnlockWrite(t) ==
  /\ claim = t
  /\ writing
  /\ claim' = NoThread
  /\ writing' = FALSE
  /\ UNCHANGED readers

LockNext ==
  \E t \in Threads :
    LockRead(t) \/ UnlockRead(t) \/ ClaimWrite(t) \/ EnterWrite(t) \/ UnlockWrite(t)

LockSpec == LockInit /\ [][LockNext]_lockVars
=============================================================================
