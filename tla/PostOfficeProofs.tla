-------------------------- MODULE PostOfficeProofs --------------------------
(***************************************************************************)
(* The invariants of PostOffice, for any number of threads, mailboxes and  *)
(* names.                                                                  *)
(*                                                                         *)
(* A mailbox is somewhere while somebody owns it, pins it or runs its      *)
(* destructor; its entry stands exactly that long, and one destructor runs *)
(* at most.  Reachability alone is not inductive: that an old destructor   *)
(* erases nothing but its own entry needs the entries of dying boxes too.  *)
(***************************************************************************)
EXTENDS PostOffice, TLAPS

Present(b) == b \in owned \/ \E t \in Threads : pinned[t] = b \/ dying[t] = b

Types ==
  /\ storage \in [Addresses -> Boxes \cup {NoBox}]
  /\ address \in [Boxes -> Addresses \cup {NoAddress}]
  /\ owned \subseteq Boxes /\ doomed \subseteq ActorBoxes /\ sick \subseteq ActorBoxes
  /\ mailHooks \subseteq Addresses /\ actorHooks \subseteq Addresses
  /\ pinned \in [Threads -> Boxes \cup {NoBox}]
  /\ dying \in [Threads -> Boxes \cup {NoBox}]
  /\ pc \in [Threads -> {"idle", "polling", "post", "unlock", "unhook", "delete", "null"}]

(* What a thread has follows from where it is.                             *)
Places ==
  \A t \in Threads :
    /\ pinned[t] # NoBox <=> At(t, "post")
    /\ dying[t] # NoBox <=> pc[t] \in {"unhook", "delete"}
    /\ pc[t] \in {"post", "unlock"} => guard = t

Entries ==
  /\ \A b \in Boxes : Present(b) => address[b] \in Addresses /\ storage[address[b]] = b
  /\ \A a \in Addresses : storage[a] # NoBox => address[storage[a]] = a /\ Present(storage[a])

OneDestructor ==
  \A t \in Threads : dying[t] # NoBox =>
    /\ dying[t] \notin owned
    /\ \A s \in Threads : pinned[s] # dying[t] /\ (s # t => dying[s] # dying[t])

MailHooked ==
  \A a \in mailHooks :
    /\ storage[a] \in Boxes \ ActorBoxes
    /\ \A t \in Threads : dying[t] = storage[a] => At(t, "unhook")

(* An actor of which the workers have to let go has no callback, unless it *)
(* poisoned itself.                                                        *)
ActorHooked ==
  /\ \A a \in actorHooks : \/ storage[a] \in owned \cap ActorBoxes
                           \/ \E b \in Quitters \cap sick : address[b] = a
  /\ \A b \in sick : (b \in doomed \/ b \in Quitters) /\ address[b] # NoAddress
  /\ \A b \in sick \cap owned : address[b] \in actorHooks => b \in Quitters

(* While Update holds the mutex the callbacks stay as they are, and what   *)
(* Main pins stays owned, or is a quitter.                                 *)
Updating ==
  /\ mutex \in {Main, Nobody}
  /\ mutex = Main => /\ pc[Main] \in {"polling", "post", "unlock", "unhook"}
                     /\ toCall \subseteq mailHooks \cup actorHooks
  /\ At(Main, "polling") => mutex = Main
  /\ mutex = Main /\ At(Main, "post") =>
       pinned[Main] \in Quitters \/ pinned[Main] \in owned \ sick
  /\ EventPostLocksNothing

IInv == Types /\ Places /\ Entries /\ OneDestructor /\ MailHooked /\ ActorHooked /\ Updating

-----------------------------------------------------------------------------
(* At the start nothing exists.                                            *)
LEMMA InitIInv == Init => IInv
BY PostOfficeAssumption
  DEF Init, Threads, At, IInv, Types, Places, Entries, Present, OneDestructor,
      MailHooked, ActorHooked, Updating, EventPostLocksNothing

(* The new mailbox had no address, so nothing refers to it, and the entry  *)
(* it gets was empty.                                                      *)
LEMMA NewKeeps ==
  ASSUME IInv, NEW b \in Boxes, NEW a \in Addresses, New(b, a)
  PROVE  IInv'
<1> USE PostOfficeAssumption DEF IInv, Threads, At, Goto, boxVars, hookVars, New, Taken
<1>1. Types'
  BY DEF Types
<1>2. Places'
  BY DEF Types, Places
<1>3. Entries'
  BY DEF Types, Entries, Present
<1>4. OneDestructor'
  BY DEF Types, Entries, Present, OneDestructor
<1>5. MailHooked'
  BY DEF Types, MailHooked
<1>6. ActorHooked'
  BY DEF Types, ActorHooked
<1>7. Updating'
  BY DEF Types, Updating, EventPostLocksNothing
<1> QED
  BY <1>1, <1>2, <1>3, <1>4, <1>5, <1>6, <1>7

(* A box that is hooked is owned and, if an actor's, healthy.              *)
LEMMA HookKeeps ==
  ASSUME IInv, NEW b \in Boxes, Hook(b)
  PROVE  IInv'
<1> USE PostOfficeAssumption DEF IInv, Threads, At, Goto, boxVars, hookVars, Hook
<1>1. (Places /\ Entries /\ OneDestructor /\ Updating)'
  BY DEF Places, Entries, Present, OneDestructor, Updating,
         EventPostLocksNothing
<1>2. Types'
  BY DEF Types, Entries, Present
<1>3. MailHooked'
  BY DEF Types, Entries, Present, OneDestructor, MailHooked
<1>4. ActorHooked'
  BY DEF Types, Entries, Present, ActorHooked
<1> QED
  BY <1>1, <1>2, <1>3, <1>4

(* A poison posted changes nothing but who is doomed.                      *)
LEMMA UnregisterKeeps ==
  ASSUME IInv, NEW b \in Boxes, Unregister(b)
  PROVE  IInv'
<1> USE PostOfficeAssumption DEF IInv, Threads, At, Goto, boxVars, hookVars, Unregister, Addressees
<1>1. (Types /\ Places /\ Entries /\ OneDestructor /\ MailHooked /\ ActorHooked /\ Updating)'
  BY DEF Types, Places, Entries, Present, OneDestructor, MailHooked,
         ActorHooked, Updating, EventPostLocksNothing
<1> QED
  BY <1>1

(* The callback goes with the actor's health; other actors have other      *)
(* addresses.                                                              *)
LEMMA TakePoisonKeeps ==
  ASSUME IInv, NEW w \in Workers, NEW b \in Boxes, TakePoison(w, b)
  PROVE  IInv'
<1> USE PostOfficeAssumption DEF IInv, Threads, At, Goto, boxVars, hookVars, TakePoison, Unhooked
<1>1. (Types /\ Places /\ Entries /\ OneDestructor /\ MailHooked /\ Updating)'
  BY DEF Types, Places, Entries, Present, OneDestructor, MailHooked,
         Updating, EventPostLocksNothing
<1>2. ActorHooked'
  BY DEF Types, Entries, Present, ActorHooked
<1> QED
  BY <1>1, <1>2

(* The exception: a quitter may keep its callback.                         *)
LEMMA PoisonSelfKeeps ==
  ASSUME IInv, NEW w \in Workers, NEW b \in Boxes, PoisonSelf(w, b)
  PROVE  IInv'
<1> USE PostOfficeAssumption DEF IInv, Threads, At, Goto, boxVars, hookVars, PoisonSelf
<1>1. (Types /\ Places /\ Entries /\ OneDestructor /\ MailHooked /\ Updating)'
  BY DEF Types, Places, Entries, Present, OneDestructor, MailHooked,
         Updating, EventPostLocksNothing
<1>2. ActorHooked'
  BY DEF Types, Entries, Present, ActorHooked
<1> QED
  BY <1>1, <1>2

(* Somebody who pins the box, or else this thread's destructor, takes over *)
(* from the owner.                                                         *)
LEMMA ResetKeeps ==
  ASSUME IInv, NEW t \in Threads, NEW b \in Boxes, Reset(t, b)
  PROVE  IInv'
<1> USE PostOfficeAssumption DEF IInv, Threads, At, Goto, boxVars, hookVars, Reset, Destroy
<1>1. Types'
  BY DEF Types
<1>2. Places'
  BY DEF Types, Places
<1>3. Entries'
  BY DEF Types, Places, Entries, Present
<1>4. OneDestructor'
  BY DEF Types, OneDestructor
<1>5. MailHooked'
  BY DEF Types, MailHooked
<1>6. ActorHooked'
  BY DEF Types, Entries, Present, ActorHooked
<1>7. Updating'
  BY DEF Types, Updating, EventPostLocksNothing
<1> QED
  BY <1>1, <1>2, <1>3, <1>4, <1>5, <1>6, <1>7

(* The first half of a destructor.                                         *)
LEMMA UnhookKeeps ==
  ASSUME IInv, NEW t \in Threads, UnregisterMailboxCallbacks(t)
  PROVE  IInv'
<1> USE PostOfficeAssumption DEF IInv, Threads, At, Goto, boxVars, hookVars,
      UnregisterMailboxCallbacks, MailUnhooked
<1>1. (Types /\ Places /\ Entries /\ OneDestructor /\ ActorHooked /\ Updating)'
  BY DEF Types, Places, Entries, Present, OneDestructor, ActorHooked,
         Updating, EventPostLocksNothing
<1>2. MailHooked'
  BY DEF Types, Entries, Present, MailHooked
<1> QED
  BY <1>1, <1>2

(* The second half: the entry of the dying box was still its own, so no    *)
(* other mailbox loses its entry.                                          *)
LEMMA DeleteKeeps ==
  ASSUME IInv, NEW t \in Threads, Delete(t)
  PROVE  IInv'
<1> USE PostOfficeAssumption DEF IInv, Threads, At, Goto, boxVars, hookVars, Delete, Erased
<1>1. (OneDestructor /\ Updating)'
  BY DEF OneDestructor, Updating, EventPostLocksNothing
<1>2. Types'
  BY DEF Types, Places, Entries, Present
<1>3. Places'
  BY DEF Types, Places
<1>4. Entries'
  BY DEF Types, Places, Entries, Present, OneDestructor
<1>5. MailHooked'
  BY DEF Types, Places, Entries, Present, MailHooked
<1>6. ActorHooked'
  BY DEF Types, Places, Entries, Present, OneDestructor, ActorHooked
<1> QED
  BY <1>1, <1>2, <1>3, <1>4, <1>5, <1>6

(* What is pinned is alive; while the guard is free nobody else pins, so   *)
(* it is owned.                                                            *)
LEMMA PostKeeps ==
  ASSUME IInv, NEW t \in Threads, NEW a \in Addresses, Post(t, a)
  PROVE  IInv'
<1> USE PostOfficeAssumption DEF IInv, Threads, At, Goto, boxVars, hookVars, Post, Promote, Alive
<1>1. (Types /\ ActorHooked)'
  BY DEF Types, ActorHooked
<1>2. Places'
  BY DEF Types, Places
<1>3. Entries'
  BY DEF Types, Places, Entries, Present
<1>4. OneDestructor'
  BY DEF Types, OneDestructor
<1>5. MailHooked'
  BY DEF Types, MailHooked
<1>6. Updating'
  BY DEF Types, Updating, EventPostLocksNothing
<1> QED
  BY <1>1, <1>2, <1>3, <1>4, <1>5, <1>6

(* If the owner has gone in the meantime the poster becomes the destructor.*)
LEMMA UnpinKeeps ==
  ASSUME IInv, NEW t \in Threads, Unpin(t)
  PROVE  IInv'
<1> USE PostOfficeAssumption DEF IInv, Threads, At, Goto, boxVars, hookVars, Unpin, Destroy
<1>1. (Types /\ ActorHooked)'
  BY DEF Types, ActorHooked
<1>2. Places'
  BY DEF Types, Places
<1>3. Entries'
  BY DEF Types, Places, Entries, Present
<1>4. OneDestructor'
  BY DEF Types, OneDestructor
<1>5. MailHooked'
  BY DEF Types, MailHooked
<1>6. Updating'
  BY DEF Types, Updating, EventPostLocksNothing
<1> QED
  BY <1>1, <1>2, <1>3, <1>4, <1>5, <1>6

(* The last of Post.                                                       *)
LEMMA UnlockOfficeKeeps ==
  ASSUME IInv, NEW t \in Threads, UnlockOffice(t)
  PROVE  IInv'
<1> USE PostOfficeAssumption DEF IInv, Threads, At, Goto, boxVars, hookVars, UnlockOffice
<1>1. (Types /\ Entries /\ OneDestructor /\ MailHooked /\ ActorHooked /\ Updating)'
  BY DEF Types, Entries, Present, OneDestructor, MailHooked, ActorHooked,
         Updating, EventPostLocksNothing
<1>2. Places'
  BY DEF Types, Places
<1> QED
  BY <1>1, <1>2

(* Update takes the mutex and the list as it stands.                       *)
LEMMA BeginUpdateKeeps ==
  ASSUME IInv, BeginUpdate
  PROVE  IInv'
<1> USE PostOfficeAssumption DEF IInv, Threads, At, Goto, boxVars, hookVars, BeginUpdate
<1>1. (Types /\ Places /\ Entries /\ OneDestructor /\ MailHooked /\ ActorHooked)'
  BY DEF Types, Places, Entries, Present, OneDestructor, MailHooked,
         ActorHooked
<1>2. Updating'
  BY DEF Types, Updating, EventPostLocksNothing
<1> QED
  BY <1>1, <1>2

(* An input event goes to a mailbox of Main's own, or to a healthy actor,  *)
(* or to a quitter.                                                        *)
LEMMA OnKeyKeeps ==
  ASSUME IInv, NEW a \in Addresses, OnKey(a)
  PROVE  IInv'
<1> USE PostOfficeAssumption DEF IInv, Threads, At, Goto, boxVars, hookVars, OnKey, Promote, Alive
<1>1. (Types /\ ActorHooked)'
  BY DEF Types, ActorHooked
<1>2. Places'
  BY DEF Types, Places
<1>3. Entries'
  BY DEF Types, Places, Entries, Present
<1>4. OneDestructor'
  BY DEF Types, OneDestructor
<1>5. MailHooked'
  BY DEF Types, MailHooked
<1>6. Updating'
  BY DEF Types, Places, Entries, Present, OneDestructor, MailHooked,
         ActorHooked, Updating, EventPostLocksNothing
<1> QED
  BY <1>1, <1>2, <1>3, <1>4, <1>5, <1>6

(* Update is over.                                                         *)
LEMMA EndUpdateKeeps ==
  ASSUME IInv, EndUpdate
  PROVE  IInv'
<1> USE PostOfficeAssumption DEF IInv, Threads, At, Goto, boxVars, hookVars, EndUpdate
<1>1. (Types /\ Places /\ Entries /\ OneDestructor /\ MailHooked /\ ActorHooked)'
  BY DEF Types, Places, Entries, Present, OneDestructor, MailHooked,
         ActorHooked
<1>2. Updating'
  BY DEF Types, Updating, EventPostLocksNothing
<1> QED
  BY <1>1, <1>2

LEMMA NextIInv == IInv /\ [Next]_vars => IInv'
<1> SUFFICES ASSUME IInv, [Next]_vars PROVE IInv'
  OBVIOUS
<1>1. ASSUME NEW b \in Boxes, NEW a \in Addresses, New(b, a) PROVE IInv'
  BY <1>1, NewKeeps
<1>2. ASSUME NEW b \in Boxes, Hook(b) \/ Unregister(b) \/ Reset(Main, b) PROVE IInv'
  BY <1>2, HookKeeps, UnregisterKeeps, ResetKeeps DEF Threads
<1>3. ASSUME NEW w \in Workers, NEW b \in Boxes,
             TakePoison(w, b) \/ PoisonSelf(w, b) \/ Reset(w, b)
      PROVE  IInv'
  BY <1>3, TakePoisonKeeps, PoisonSelfKeeps, ResetKeeps DEF Threads
<1>4. ASSUME NEW t \in Threads, NEW a \in Addresses, Post(t, a) PROVE IInv'
  BY <1>4, PostKeeps
<1>5. CASE BeginUpdate
  BY <1>5, BeginUpdateKeeps
<1>6. ASSUME NEW t \in Threads, Continue(t) PROVE IInv'
  <2>1. CASE UnregisterMailboxCallbacks(t) \/ Delete(t)
    BY <2>1, UnhookKeeps, DeleteKeeps
  <2>2. CASE Unpin(t) \/ UnlockOffice(t)
    BY <2>2, UnpinKeeps, UnlockOfficeKeeps
  <2>3. CASE t = Main /\ (EndUpdate \/ \E a \in Addresses : OnKey(a))
    BY <2>3, EndUpdateKeeps, OnKeyKeeps
  <2> QED
    BY <1>6, <2>1, <2>2, <2>3 DEF Continue
<1>7. CASE UNCHANGED vars
  BY <1>7 DEF vars, boxVars, hookVars, At, IInv, Types, Places, Entries, Present,
              OneDestructor, MailHooked, ActorHooked, Updating, EventPostLocksNothing
<1> QED
  BY <1>1, <1>2, <1>3, <1>4, <1>5, <1>6, <1>7 DEF Next

LEMMA Invariance == Spec => []IInv
<1>1. Init => IInv
  BY InitIInv
<1>2. IInv /\ [Next]_vars => IInv'
  BY NextIInv
<1> QED
  BY <1>1, <1>2, PTL DEF Spec

-----------------------------------------------------------------------------
(* New's refusal of a name that is still being given back is enough: no    *)
(* mailbox in use loses its entry to the destructor of an older one        *)
(* (mailbox.cpp:55-81).                                                    *)
THEOREM OfficeReachable == Spec => []OwnedIsReachable
<1>1. IInv => OwnedIsReachable
  BY DEF IInv, Types, Entries, Present, OwnedIsReachable
<1> QED
  BY <1>1, Invariance, PTL

(* A name whose mailbox has expired is on its way to be free: its          *)
(* destructor is running somewhere (mailbox.cpp:99-105).                   *)
THEOREM NamesComeBack == Spec => []ExpiredIsDying
<1>1. IInv => ExpiredIsDying
  BY DEF IInv, Types, Entries, Present, ExpiredIsDying, Alive
<1> QED
  BY <1>1, Invariance, PTL

(* No callback outlives what it calls: mailboxes unhook themselves before  *)
(* they give up their name, actors before they are sick, unless a role     *)
(* poisoned itself (context.cpp:387-422, actor.cpp:47-68).                 *)
THEOREM HooksAreLive == Spec => []HooksLive
<1>1. IInv => MailHooksLive
  BY PostOfficeAssumption
    DEF IInv, Types, Entries, Present, MailHooked, MailHooksLive, Alive
<1>2. IInv => HookedActorsLive
  BY PostOfficeAssumption DEF IInv, Types, ActorHooked, HookedActorsLive
<1> QED
  BY <1>1, <1>2, Invariance, PTL DEF HooksLive

(* An input event never makes the main thread take the context's mutex a   *)
(* second time, quitters aside: context.cpp:433-435 is right about itself. *)
THEOREM EventsLockNothing == Spec => []EventPostLocksNothing
<1>1. IInv => EventPostLocksNothing
  BY DEF IInv, Updating
<1> QED
  BY <1>1, Invariance, PTL
=============================================================================
