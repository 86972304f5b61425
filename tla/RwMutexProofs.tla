--------------------------- MODULE RwMutexProofs ----------------------------
(***************************************************************************)
(* rwMutex_t is a readers-writer lock for any number of threads and any    *)
(* limit on the readers.                                                   *)
(***************************************************************************)
EXTENDS RwMutex, FiniteSetTheorems, TLAPS

(* What every step keeps: the flag is up exactly while a writer is queued  *)
(* or inside, there is one such writer at most, and once it is inside the  *)
(* counter - the number of readers - is zero.                              *)
FlagIsClaim == hasWriter <=> Claimants # {}
OneClaimant == \A s, t \in Claimants : s = t
NoReaderCounted == Writers # {} => totalReaders = 0

IInv == TypeOK /\ CounterIsReaders /\ FlagIsClaim /\ OneClaimant /\ NoReaderCounted

-----------------------------------------------------------------------------
LEMMA ReadersFinite ==
  IsFiniteSet(Readers) /\ Cardinality(Readers) \in Nat
<1>1. Readers \subseteq Threads
  BY DEF Readers
<1> QED
  BY <1>1, RwMutexAssumption, FS_Subset, FS_CardinalityType

(* A reader inside is counted.                                             *)
LEMMA CountedReader ==
  ASSUME CounterIsReaders, NEW t \in Readers
  PROVE  totalReaders # 0
<1>1. Readers # {}
  OBVIOUS
<1> QED
  BY <1>1, ReadersFinite, FS_EmptySet DEF CounterIsReaders

(* With an empty counter nobody reads.                                     *)
LEMMA UncountedIsEmpty ==
  ASSUME CounterIsReaders, totalReaders = 0
  PROVE  Readers = {}
BY ReadersFinite, FS_EmptySet DEF CounterIsReaders

(* Steps that move no thread into or out of a lock keep the invariant.     *)
LEMMA QuietStep ==
  ASSUME IInv, TypeOK', hasWriter' = hasWriter, totalReaders' = totalReaders,
         Readers' = Readers, Claimants' = Claimants, Writers' = Writers
  PROVE  IInv'
BY DEF IInv, CounterIsReaders, FlagIsClaim, OneClaimant, NoReaderCounted

LEMMA InitIInv == Init => IInv
<1> SUFFICES ASSUME Init PROVE IInv
  OBVIOUS
<1>1. TypeOK
  <2>1. totalReaders \in 0 .. MaxReaders
    BY RwMutexAssumption DEF Init
  <2>2. pc \in [Threads -> PC]
    BY DEF Init, PC
  <2> QED
    BY <2>1, <2>2 DEF Init, TypeOK
<1>2. Readers = {} /\ Claimants = {} /\ Writers = {}
  BY DEF Init, Readers, Claimants, Writers
<1>3. CounterIsReaders
  BY <1>2, FS_EmptySet DEF Init, CounterIsReaders
<1> QED
  BY <1>1, <1>2, <1>3 DEF Init, IInv, FlagIsClaim, OneClaimant, NoReaderCounted

-----------------------------------------------------------------------------
LEMMA AdmitReaderKeeps ==
  ASSUME IInv, NEW t \in Threads, AdmitReader(t)
  PROVE  IInv'
<1> USE DEF IInv
<1>1. t \notin Readers /\ Readers' = Readers \cup {t}
  BY DEF AdmitReader, Goto, Readers, TypeOK
<1>2. Claimants = {} /\ Writers = {} /\ Claimants' = {} /\ Writers' = {}
  BY DEF AdmitReader, ReadersWelcome, Goto, FlagIsClaim, Claimants, Writers, TypeOK
<1>3. TypeOK'
  BY RwMutexAssumption DEF AdmitReader, ReadersWelcome, Goto, TypeOK, PC
<1>4. CounterIsReaders'
  BY <1>1, ReadersFinite, FS_AddElement DEF AdmitReader, CounterIsReaders
<1> QED
  BY <1>2, <1>3, <1>4
  DEF AdmitReader, FlagIsClaim, OneClaimant, NoReaderCounted

LEMMA ParkReaderKeeps ==
  ASSUME IInv, NEW t \in Threads, ParkReader(t)
  PROVE  IInv'
<1>1. TypeOK'
  BY DEF IInv, ParkReader, Goto, TypeOK, PC
<1>2. Readers' = Readers /\ Claimants' = Claimants /\ Writers' = Writers
  BY DEF IInv, ParkReader, Goto, TypeOK, Readers, Claimants, Writers
<1> QED
  BY <1>1, <1>2, QuietStep DEF ParkReader

LEMMA UnlockReadKeeps ==
  ASSUME IInv, NEW t \in Threads, UnlockRead(t)
  PROVE  IInv'
<1> USE DEF IInv
<1>1. t \in Readers /\ Readers' = Readers \ {t}
  BY DEF UnlockRead, Goto, Readers, TypeOK
<1>2. Claimants' = Claimants /\ Writers' = Writers
  BY DEF UnlockRead, Goto, Claimants, Writers, TypeOK
<1>3. totalReaders # 0 /\ totalReaders' = totalReaders - 1
  BY <1>1, CountedReader DEF UnlockRead, Decremented
<1>4. CounterIsReaders'
  BY <1>1, <1>3, ReadersFinite, FS_RemoveElement DEF CounterIsReaders
<1>5. gate1' \subseteq Threads /\ gate2' \subseteq Threads
  BY DEF UnlockRead, NotifyOne, TypeOK
<1>6. TypeOK'
  BY <1>3, <1>5, RwMutexAssumption DEF UnlockRead, Goto, TypeOK, PC
<1>7. Writers = {}
  BY <1>3 DEF NoReaderCounted
<1> QED
  BY <1>2, <1>4, <1>6, <1>7
  DEF UnlockRead, FlagIsClaim, OneClaimant, NoReaderCounted

LEMMA ClaimWriterKeeps ==
  ASSUME IInv, NEW t \in Threads, ClaimWriter(t)
  PROVE  IInv'
<1> USE DEF IInv
<1>1. Claimants = {} /\ Claimants' = {t}
  BY DEF ClaimWriter, Goto, FlagIsClaim, Claimants, TypeOK
<1>2. Readers' = Readers
  BY DEF ClaimWriter, Goto, Readers, TypeOK
<1>3. Writers' # {} => totalReaders = 0
  BY <1>1 DEF ClaimWriter, Goto, Claimants, Writers, TypeOK
<1>4. TypeOK'
  BY DEF ClaimWriter, Goto, TypeOK, PC
<1> QED
  BY <1>1, <1>2, <1>3, <1>4
  DEF ClaimWriter, CounterIsReaders, FlagIsClaim, OneClaimant, NoReaderCounted

LEMMA ParkWriterKeeps ==
  ASSUME IInv, NEW t \in Threads, ParkWriter(t)
  PROVE  IInv'
<1>1. TypeOK'
  BY DEF IInv, ParkWriter, Goto, TypeOK, PC
<1>2. Readers' = Readers /\ Claimants' = Claimants /\ Writers' = Writers
  BY DEF IInv, ParkWriter, Goto, TypeOK, Readers, Claimants, Writers
<1> QED
  BY <1>1, <1>2, QuietStep DEF ParkWriter

LEMMA EnterWriterKeeps ==
  ASSUME IInv, NEW t \in Threads, EnterWriter(t)
  PROVE  IInv'
<1> USE DEF IInv
<1>1. Readers' = Readers /\ Claimants' = Claimants
  BY DEF EnterWriter, Goto, Readers, Claimants, TypeOK
<1>2. Writers' # {} => totalReaders = 0
  BY DEF EnterWriter, Goto, Writers, NoReaderCounted, TypeOK
<1>3. TypeOK'
  BY DEF EnterWriter, Goto, TypeOK, PC
<1> QED
  BY <1>1, <1>2, <1>3
  DEF EnterWriter, CounterIsReaders, FlagIsClaim, OneClaimant, NoReaderCounted

(* The reset of the counter is harmless: it is zero already.               *)
LEMMA UnlockWriteKeeps ==
  ASSUME IInv, NEW t \in Threads, UnlockWrite(t)
  PROVE  IInv'
<1> USE DEF IInv
<1>1. totalReaders = 0
  BY DEF UnlockWrite, NoReaderCounted, Writers
<1>2. Readers' = Readers
  BY DEF UnlockWrite, Goto, Readers, TypeOK
<1>3. Claimants' = {} /\ Writers' = {}
  BY DEF UnlockWrite, Goto, OneClaimant, Claimants, Writers, TypeOK
<1>4. TypeOK'
  <2>1. totalReaders' \in 0 .. MaxReaders
    BY RwMutexAssumption DEF UnlockWrite
  <2> QED
    BY <2>1 DEF UnlockWrite, Goto, TypeOK, PC
<1> QED
  BY <1>1, <1>2, <1>3, <1>4
  DEF UnlockWrite, CounterIsReaders, FlagIsClaim, OneClaimant, NoReaderCounted

LEMMA NotifyAllKeeps ==
  ASSUME IInv, NEW t \in Threads, NotifyAll(t)
  PROVE  IInv'
<1>1. TypeOK'
  BY DEF IInv, NotifyAll, Goto, TypeOK, PC
<1>2. Readers' = Readers /\ Claimants' = Claimants /\ Writers' = Writers
  BY DEF IInv, NotifyAll, Goto, TypeOK, Readers, Claimants, Writers
<1> QED
  BY <1>1, <1>2, QuietStep DEF NotifyAll

LEMMA SpuriousWakeKeeps ==
  ASSUME IInv, NEW t \in Threads, SpuriousWake(t)
  PROVE  IInv'
<1>1. TypeOK'
  BY DEF IInv, SpuriousWake, TypeOK
<1>2. Readers' = Readers /\ Claimants' = Claimants /\ Writers' = Writers
  BY DEF SpuriousWake, Readers, Claimants, Writers
<1> QED
  BY <1>1, <1>2, QuietStep DEF SpuriousWake

LEMMA NextIInv == IInv /\ [Next]_vars => IInv'
<1> SUFFICES ASSUME IInv, [Next]_vars PROVE IInv'
  OBVIOUS
<1>1. CASE Next
  BY <1>1, AdmitReaderKeeps, ParkReaderKeeps, UnlockReadKeeps, ClaimWriterKeeps,
     ParkWriterKeeps, EnterWriterKeeps, UnlockWriteKeeps, NotifyAllKeeps, SpuriousWakeKeeps
  DEF Next
<1>2. CASE UNCHANGED vars
  BY <1>2 DEF vars, IInv, TypeOK, CounterIsReaders, FlagIsClaim, OneClaimant,
     NoReaderCounted, Readers, Claimants, Writers
<1> QED
  BY <1>1, <1>2

LEMMA SpecIInv == Spec => []IInv
BY InitIInv, NextIInv, PTL DEF Spec

-----------------------------------------------------------------------------
(* The variables keep their types; in particular the counter stays within  *)
(* the limit LockRead tests and never wraps below zero.                    *)
THEOREM TypeCorrect == Spec => []TypeOK
<1>1. IInv => TypeOK
  BY DEF IInv
<1> QED
  BY <1>1, SpecIInv, PTL

(* The counter is the number of readers inside.                            *)
THEOREM CounterCorrect == Spec => []CounterIsReaders
<1>1. IInv => CounterIsReaders
  BY DEF IInv
<1> QED
  BY <1>1, SpecIInv, PTL

(* A writer is alone.                                                      *)
THEOREM Exclusion == Spec => []MutualExclusion
<1>1. IInv => MutualExclusion
  <2> SUFFICES ASSUME IInv, NEW w \in Writers PROVE Readers = {} /\ Writers = {w}
    BY DEF MutualExclusion
  <2>1. Readers = {}
    BY UncountedIsEmpty DEF IInv, NoReaderCounted
  <2>2. Writers = {w}
    BY DEF IInv, OneClaimant, Claimants, Writers
  <2> QED
    BY <2>1, <2>2
<1> QED
  BY <1>1, SpecIInv, PTL
-----------------------------------------------------------------------------
(* Why nobody oversleeps.  notify_one wakes one thread only, and the one it *)
(* wakes may be another than the one that could go in.  It is called with   *)
(* MaxReaders threads inside, so with no more than MaxReaders + 1 users at  *)
(* most one thread sleeps at gate1, and with one claimant one at gate2.     *)
Gate1IsWaiting == \A t \in gate1 : pc[t] \in {"wantRead", "wantWrite"}
Gate2IsDraining == \A t \in gate2 : pc[t] = "draining"

SleepInv == IInv /\ Gate1IsWaiting /\ Gate2IsDraining /\ SleepersHaveReason

FewUsers == Cardinality(Threads) <= MaxReaders + 1

(* With a full counter there is room for one thread outside.               *)
LEMMA FullLeavesOne ==
  ASSUME FewUsers, TypeOK, CounterIsReaders, totalReaders = MaxReaders,
         NEW s \in Threads \ Readers, NEW t \in Threads \ Readers
  PROVE  s = t
<1>1. SUFFICES ASSUME s # t PROVE FALSE
  OBVIOUS
<1>2. IsFiniteSet(Readers) /\ Cardinality(Readers) = MaxReaders
  BY ReadersFinite DEF CounterIsReaders
<1>3. /\ IsFiniteSet(Readers \cup {s})
      /\ Cardinality(Readers \cup {s}) = MaxReaders + 1
  BY <1>2, FS_AddElement
<1>4. /\ IsFiniteSet((Readers \cup {s}) \cup {t})
      /\ Cardinality((Readers \cup {s}) \cup {t}) = MaxReaders + 2
  <2> DEFINE Two == Readers \cup {s}
  <2>1. t \notin Two
    BY <1>1
  <2> HIDE DEF Two
  <2>2. /\ IsFiniteSet(Two \cup {t})
        /\ Cardinality(Two \cup {t}) = Cardinality(Two) + 1
    BY <1>3, <2>1, FS_AddElement DEF Two
  <2>3. MaxReaders \in Nat
    BY RwMutexAssumption
  <2>4. Cardinality(Two) = MaxReaders + 1
    BY <1>3 DEF Two
  <2>5. Cardinality(Two \cup {t}) = MaxReaders + 2
    BY <2>2, <2>3, <2>4
  <2> QED
    BY <2>2, <2>5 DEF Two
<1>5. (Readers \cup {s}) \cup {t} \subseteq Threads
  BY DEF Readers
<1>6. Cardinality((Readers \cup {s}) \cup {t}) <= Cardinality(Threads)
  BY <1>5, RwMutexAssumption, FS_Subset
<1>7. Cardinality(Threads) \in Nat
  BY RwMutexAssumption, FS_CardinalityType
<1> QED
  BY <1>4, <1>6, <1>7, RwMutexAssumption DEF FewUsers

(* A reader on its way out wakes everybody there is to wake.               *)
LEMMA UnlockReadWakes ==
  ASSUME FewUsers, SleepInv, IInv', NEW t \in Threads, UnlockRead(t)
  PROVE  SleepInv'
<1> USE DEF SleepInv
<1>1. t \in Readers /\ pc[t] = "reading" /\ totalReaders # 0
      /\ totalReaders' = totalReaders - 1
  BY CountedReader DEF UnlockRead, Decremented, IInv, Readers
<1>2. \A s \in gate2 : s \in Claimants
  BY DEF Gate2IsDraining, IInv, TypeOK, Claimants
<1>3. gate2' \subseteq gate2 /\ gate1' \subseteq gate1
  BY DEF UnlockRead, NotifyOne
<1>4. Gate1IsWaiting' /\ Gate2IsDraining'
  BY <1>1, <1>3 DEF UnlockRead, Goto, Gate1IsWaiting, Gate2IsDraining, IInv, TypeOK
<1>5. gate2' # {} => totalReaders' > 0
  <2>1. SUFFICES ASSUME gate2' # {}, totalReaders' = 0 PROVE FALSE
    BY <1>1 DEF IInv, TypeOK
  <2>2. PICK s \in gate2' : TRUE
    BY <2>1
  <2>3. hasWriter
    BY <1>2, <1>3, <2>2 DEF IInv, FlagIsClaim
  <2>4. PICK r \in gate2 : gate2' = gate2 \ {r}
    BY <1>3, <2>1, <2>2, <2>3 DEF UnlockRead, NotifyOne
  <2>5. r = s
    BY <1>2, <2>2, <2>4 DEF IInv, OneClaimant
  <2> QED
    BY <2>2, <2>4, <2>5
<1>6. gate1' # {} => ~ReadersWelcome' \/ \E s \in Threads : pc'[s] = "notify"
  <2>1. SUFFICES ASSUME gate1' # {}, ~hasWriter
                 PROVE  \E s \in Threads : pc'[s] = "notify"
    BY DEF UnlockRead, ReadersWelcome
  <2>2. CASE totalReaders = MaxReaders
    <3>1. PICK s \in gate1' : TRUE
      BY <2>1
    <3>2. MaxReaders \in Nat
      BY RwMutexAssumption
    <3>3. totalReaders' = MaxReaders - 1
      BY <1>1, <2>2
    <3>4. PICK r \in gate1 : gate1' = gate1 \ {r}
      BY <1>3, <2>1, <3>1, <3>3 DEF UnlockRead, NotifyOne
    <3>5. r \in Threads \ Readers /\ s \in Threads \ Readers
      BY <3>1, <3>4 DEF Gate1IsWaiting, Readers, IInv, TypeOK
    <3>6. r = s
      BY <2>2, <3>5, FullLeavesOne DEF IInv
    <3> QED
      BY <3>1, <3>4, <3>6
  <2>3. CASE totalReaders # MaxReaders
    <3>1. gate1' = gate1
      BY <1>1, <2>1, <2>3, RwMutexAssumption DEF UnlockRead, IInv, TypeOK
    <3>2. PICK s \in Threads : pc[s] = "notify"
      BY <2>1, <2>3, <3>1 DEF SleepersHaveReason, ReadersWelcome
    <3> QED
      BY <1>1, <3>2 DEF UnlockRead, Goto, IInv, TypeOK
  <2> QED
    BY <2>2, <2>3
<1> QED
  BY <1>4, <1>5, <1>6 DEF SleepersHaveReason

(* The other steps: each that takes a reason away leaves another, or wakes *)
(* the sleepers itself.                                                    *)
LEMMA ReaderComesKeepsSleep ==
  ASSUME SleepInv, IInv', NEW t \in Threads, AdmitReader(t) \/ ParkReader(t)
  PROVE  SleepInv'
<1> USE DEF SleepInv, IInv, TypeOK, Gate1IsWaiting, Gate2IsDraining, SleepersHaveReason
<1>1. CASE AdmitReader(t)
  <2>1. gate2' # {} => totalReaders' > 0
    BY <1>1, RwMutexAssumption DEF AdmitReader
  <2>2. Gate1IsWaiting' /\ Gate2IsDraining'
    BY <1>1 DEF AdmitReader, Goto
  <2>3. gate1' # {} => \E s \in Threads : pc'[s] = "notify"
    BY <1>1 DEF AdmitReader, Goto
  <2> QED
    BY <2>1, <2>2, <2>3
<1>2. CASE ParkReader(t)
  <2>1. Gate1IsWaiting' /\ Gate2IsDraining'
    BY <1>2 DEF ParkReader, Goto
  <2> QED
    BY <1>2, <2>1 DEF ParkReader, ReadersWelcome
<1> QED
  BY <1>1, <1>2

LEMMA WriterComesKeepsSleep ==
  ASSUME SleepInv, IInv', NEW t \in Threads,
         ClaimWriter(t) \/ ParkWriter(t) \/ EnterWriter(t)
  PROVE  SleepInv'
<1> USE DEF SleepInv, IInv, TypeOK, Gate1IsWaiting, Gate2IsDraining, SleepersHaveReason
<1>1. CASE ClaimWriter(t)
  <2>1. Gate1IsWaiting' /\ Gate2IsDraining'
    BY <1>1 DEF ClaimWriter, Goto
  <2>2. gate2' # {} => totalReaders' > 0
    BY <1>1 DEF ClaimWriter
  <2> QED
    BY <1>1, <2>1, <2>2 DEF ClaimWriter, ReadersWelcome
<1>2. CASE ParkWriter(t)
  <2>1. Gate1IsWaiting' /\ Gate2IsDraining'
    BY <1>2 DEF ParkWriter, Goto
  <2> QED
    BY <1>2, <2>1 DEF ParkWriter, ReadersWelcome
<1>3. CASE EnterWriter(t)
  <2>1. Gate1IsWaiting' /\ Gate2IsDraining'
    BY <1>3 DEF EnterWriter, Goto
  <2>2. gate2' # {} => totalReaders' > 0
    BY <1>3 DEF EnterWriter
  <2>3. hasWriter
    BY <1>3 DEF EnterWriter, FlagIsClaim, Claimants
  <2> QED
    BY <1>3, <2>1, <2>2, <2>3 DEF EnterWriter, ReadersWelcome
<1> QED
  BY <1>1, <1>2, <1>3

LEMMA WriterLeavesKeepsSleep ==
  ASSUME SleepInv, IInv', NEW t \in Threads,
         UnlockWrite(t) \/ NotifyAll(t) \/ SpuriousWake(t)
  PROVE  SleepInv'
<1> USE DEF SleepInv, IInv, TypeOK, Gate1IsWaiting, Gate2IsDraining, SleepersHaveReason
<1>1. CASE UnlockWrite(t)
  <2>1. Gate1IsWaiting' /\ Gate2IsDraining'
    BY <1>1 DEF UnlockWrite, Goto
  <2>2. gate2' = {}
    BY <1>1 DEF UnlockWrite, OneClaimant, Claimants
  <2>3. pc'[t] = "notify"
    BY <1>1 DEF UnlockWrite, Goto
  <2> QED
    BY <2>1, <2>2, <2>3
<1>2. CASE NotifyAll(t)
  BY <1>2 DEF NotifyAll, Goto
<1>3. CASE SpuriousWake(t)
  BY <1>3 DEF SpuriousWake, ReadersWelcome
<1> QED
  BY <1>1, <1>2, <1>3

LEMMA NextSleepInv ==
  ASSUME FewUsers, SleepInv, [Next]_vars
  PROVE  SleepInv'
<1>1. IInv'
  BY NextIInv DEF SleepInv
<1>2. CASE Next
  BY <1>1, <1>2, ReaderComesKeepsSleep, WriterComesKeepsSleep, WriterLeavesKeepsSleep,
     UnlockReadWakes
  DEF Next
<1>3. CASE UNCHANGED vars
  BY <1>1, <1>3 DEF vars, SleepInv, Gate1IsWaiting, Gate2IsDraining, SleepersHaveReason,
     ReadersWelcome
<1> QED
  BY <1>2, <1>3

(* Nobody sleeps for nothing: without a writer and with room for a reader  *)
(* a thread parked at gate1 has its notify_all coming, and a writer parked *)
(* at gate2 has readers to wait for, for any number of threads up to one   *)
(* more than the counter can hold.                                         *)
THEOREM SleepersAreWoken ==
  ASSUME FewUsers
  PROVE  Spec => []SleepersHaveReason
<1>1. Init => SleepInv
  BY InitIInv DEF Init, SleepInv, Gate1IsWaiting, Gate2IsDraining, SleepersHaveReason
<1>2. SleepInv /\ [Next]_vars => SleepInv'
  BY NextSleepInv
<1>3. SleepInv => SleepersHaveReason
  BY DEF SleepInv
<1> QED
  BY <1>1, <1>2, <1>3, PTL DEF Spec

-----------------------------------------------------------------------------
(* Claim names the one claimant.                                           *)
LEMMA ClaimIs ==
  ASSUME NEW t, Claimants = {t}
  PROVE  Claim = t
BY DEF Claim

LEMMA NoClaim == ~hasWriter /\ FlagIsClaim => Claim = NoThread
BY DEF Claim, FlagIsClaim

LEMMA InitMaps == Init => Lock!LockInit
BY DEF Init, Lock!LockInit, Claim, Readers, Writers, Claimants

(* Steps that the abstract lock does not see.                              *)
LEMMA Stutter ==
  ASSUME Readers' = Readers, Claimants' = Claimants, Writers' = Writers
  PROVE  UNCHANGED Lock!lockVars
BY DEF Lock!lockVars, Claim

LEMMA AdmitReaderMaps ==
  ASSUME IInv, NEW t \in Threads, AdmitReader(t)
  PROVE  Lock!LockRead(t)
<1> USE DEF IInv
<1>1. t \notin Readers /\ Readers' = Readers \cup {t}
  BY DEF AdmitReader, Goto, Readers, TypeOK
<1>2. Claimants = {} /\ Claimants' = {} /\ Writers = {} /\ Writers' = {}
  BY DEF AdmitReader, ReadersWelcome, Goto, FlagIsClaim, Claimants, Writers, TypeOK
<1> QED
  BY <1>1, <1>2 DEF Lock!LockRead, Claim

LEMMA UnlockReadMaps ==
  ASSUME IInv, NEW t \in Threads, UnlockRead(t)
  PROVE  Lock!UnlockRead(t)
<1> USE DEF IInv
<1>1. t \in Readers /\ Readers' = Readers \ {t}
  BY DEF UnlockRead, Goto, Readers, TypeOK
<1>2. Claimants' = Claimants /\ Writers' = Writers
  BY DEF UnlockRead, Goto, Claimants, Writers, TypeOK
<1> QED
  BY <1>1, <1>2 DEF Lock!UnlockRead, Claim

(* The flag goes up: the writer enters at once or takes its place.         *)
LEMMA ClaimWriterMaps ==
  ASSUME IInv, NEW t \in Threads, ClaimWriter(t)
  PROVE  Lock!ClaimWrite(t) \/ Lock!EnterWrite(t)
<1> USE DEF IInv
<1>1. Claimants = {} /\ Claimants' = {t} /\ Writers = {}
  BY DEF ClaimWriter, Goto, FlagIsClaim, Claimants, Writers, TypeOK
<1>2. Readers' = Readers /\ t \notin Readers
  BY DEF ClaimWriter, Goto, Readers, TypeOK
<1>3. Claim = NoThread /\ Claim' = t
  BY <1>1 DEF Claim
<1>4. CASE totalReaders = 0
  <2>1. Readers = {}
    BY <1>4, UncountedIsEmpty
  <2>2. Writers' # {}
    BY <1>4 DEF ClaimWriter, Goto, Writers, TypeOK
  <2> QED
    BY <1>1, <1>2, <1>3, <2>1, <2>2 DEF Lock!EnterWrite
<1>5. CASE totalReaders # 0
  <2>1. Readers # {}
    BY <1>5, FS_EmptySet DEF CounterIsReaders
  <2>2. Writers' = {}
    BY <1>1, <1>5 DEF ClaimWriter, Goto, Writers, TypeOK
  <2> QED
    BY <1>1, <1>2, <1>3, <2>1, <2>2 DEF Lock!ClaimWrite
<1> QED
  BY <1>4, <1>5

(* A woken writer goes in when the counter is zero, or sleeps again.       *)
LEMMA EnterWriterMaps ==
  ASSUME IInv, NEW t \in Threads, EnterWriter(t)
  PROVE  Lock!EnterWrite(t) \/ UNCHANGED Lock!lockVars
<1> USE DEF IInv
<1>1. Readers' = Readers /\ Claimants' = Claimants
  BY DEF EnterWriter, Goto, Readers, Claimants, TypeOK
<1>2. Claimants = {t} /\ Writers = {}
  BY DEF EnterWriter, OneClaimant, Claimants, Writers, TypeOK
<1>3. Claim = t /\ Claim' = t
  BY <1>1, <1>2 DEF Claim
<1>4. CASE totalReaders = 0
  <2>1. Readers = {}
    BY <1>4, UncountedIsEmpty
  <2>2. Writers' # {}
    BY <1>4 DEF EnterWriter, Goto, Writers, TypeOK
  <2> QED
    BY <1>1, <1>2, <1>3, <2>1, <2>2 DEF Lock!EnterWrite
<1>5. CASE totalReaders # 0
  BY <1>1, <1>5, Stutter DEF EnterWriter, Writers
<1> QED
  BY <1>4, <1>5

LEMMA UnlockWriteMaps ==
  ASSUME IInv, NEW t \in Threads, UnlockWrite(t)
  PROVE  Lock!UnlockWrite(t)
<1> USE DEF IInv
<1>1. Readers' = Readers
  BY DEF UnlockWrite, Goto, Readers, TypeOK
<1>2. Claimants = {t} /\ Writers # {} /\ Claimants' = {} /\ Writers' = {}
  BY DEF UnlockWrite, Goto, OneClaimant, Claimants, Writers, TypeOK
<1> QED
  BY <1>1, <1>2 DEF Lock!UnlockWrite, Claim

LEMMA StepMaps ==
  ASSUME IInv, [Next]_vars
  PROVE  [Lock!LockNext]_(Lock!lockVars)
<1>1. ASSUME NEW t \in Threads,
             ParkReader(t) \/ ParkWriter(t) \/ NotifyAll(t) \/ SpuriousWake(t)
      PROVE  UNCHANGED Lock!lockVars
  <2>1. Readers' = Readers /\ Claimants' = Claimants /\ Writers' = Writers
    BY <1>1 DEF IInv, TypeOK, ParkReader, ParkWriter, NotifyAll, SpuriousWake, Goto,
       Readers, Claimants, Writers
  <2> QED
    BY <2>1, Stutter
<1>2. CASE UNCHANGED vars
  BY <1>2, Stutter DEF vars, Readers, Claimants, Writers
<1>3. CASE Next
  BY <1>1, <1>3, AdmitReaderMaps, UnlockReadMaps, ClaimWriterMaps, EnterWriterMaps,
     UnlockWriteMaps
  DEF Next, Lock!LockNext
<1> QED
  BY <1>2, <1>3

(* The flag, the counter and the condition variables implement the         *)
(* readers-writer lock the rest of the code relies on.                     *)
THEOREM Refinement == Spec => ImplementsRwLock
<1>1. IInv /\ [Next]_vars => [Lock!LockNext]_(Lock!lockVars)
  BY StepMaps
<1> QED
  BY <1>1, InitMaps, SpecIInv, PTL DEF Spec, ImplementsRwLock, Lock!LockSpec
=============================================================================
