----------------------------- MODULE PostOffice -----------------------------
(***************************************************************************)
(* Mailboxes, the post office that knows them by address, and the lists of *)
(* input callbacks of the window: core/actor/src/mailbox.cpp and           *)
(* core/render/src/context.cpp.                                            *)
(*                                                                         *)
(* The office keeps weak pointers.  A mailbox lives while its owner or a   *)
(* Post under way holds a shared pointer; the thread that drops the last   *)
(* one runs ~mailbox_t, which takes the context's mutex and then the       *)
(* office's guard.  Post holds the guard while it holds its pointer, and   *)
(* Update holds the context's mutex while it posts key and mouse events.   *)
(* Neither mutex is recursive.                                             *)
(*                                                                         *)
(* The thread Main owns the mailboxes that do not belong to an actor, runs *)
(* Update, and creates, poisons and hooks actors; the other threads are    *)
(* workers (module WorkerPool), which bury actors and post.  What a        *)
(* message says and how many wait in a mailbox is left out.                *)
(***************************************************************************)
EXTENDS FiniteSets

CONSTANTS Main, Workers, Nobody,
          Boxes,        \* the mailbox objects that may ever be allocated
          ActorBoxes,   \* those of actors
          NoBox,
          Addresses,    \* the names, hashed
          NoAddress,
          Quitters      \* the actors' boxes whose role may answer "poisoned"

Threads == {Main} \cup Workers

ASSUME PostOfficeAssumption ==
  /\ Main \notin Workers /\ Nobody \notin Threads
  /\ ActorBoxes \subseteq Boxes /\ NoBox \notin Boxes
  /\ NoAddress \notin Addresses
  /\ Quitters \subseteq ActorBoxes

VARIABLES
  storage,      \* postOffice_t::storage: address to weak pointer
  address,      \* mailbox_t::address; NoAddress before the box is made
  owned,        \* the boxes whose owner holds its shared pointer
  doomed,       \* the actors' boxes to which Main has posted a poison
  sick,         \* the actors' boxes whose actor is sick
  guard,        \* the holder of postOffice_t::guard
  mutex,        \* the holder of context_t::mutex
  mailHooks,    \* addresses in mailCallbackList
  actorHooks,   \* addresses in actorCallbackList
  toCall,       \* the hooks the current input event has still to be posted to
  pinned,       \* the shared pointer each thread holds inside Post
  dying,        \* the box whose destructor each thread is running
  pc

boxVars == <<storage, address, owned, doomed, sick>>
hookVars == <<mailHooks, actorHooks, toCall>>
vars == <<boxVars, guard, mutex, hookVars, pinned, dying, pc>>

Init ==
  /\ storage = [a \in Addresses |-> NoBox]
  /\ address = [b \in Boxes |-> NoAddress]
  /\ owned = {} /\ doomed = {} /\ sick = {}
  /\ guard = Nobody /\ mutex = Nobody
  /\ mailHooks = {} /\ actorHooks = {} /\ toCall = {}
  /\ pinned = [t \in Threads |-> NoBox]
  /\ dying = [t \in Threads |-> NoBox]
  /\ pc = [t \in Threads |-> "idle"]

-----------------------------------------------------------------------------
At(t, label) == pc[t] = label
Goto(t, label) == pc' = [pc EXCEPT ![t] = label]

Alive(b) == b \in owned \/ \E t \in Threads : pinned[t] = b

(* A name is taken while the office has an entry for it, expired or not.   *)
TakenUnlessExpired(a) == storage[a] # NoBox /\ Alive(storage[a])   \* the weak pointer is asked
Taken(a) == storage[a] # NoBox

(* postOffice_t::New.  A taken name gives a null pointer (and an assertion *)
(* in Debug), which its caller uses without a look.                        *)
New(b, a) ==
  /\ At(Main, "idle")
  /\ guard = Nobody
  /\ address[b] = NoAddress
  /\ \A c \in owned \ doomed : address[c] # a     \* no caller reuses a name it still uses
  /\ IF Taken(a)
     THEN Goto(Main, "null") /\ UNCHANGED boxVars
     ELSE /\ storage' = [storage EXCEPT ![a] = b]
          /\ address' = [address EXCEPT ![b] = a]
          /\ owned' = owned \cup {b}
          /\ UNCHANGED <<doomed, sick, pc>>
  /\ UNCHANGED <<guard, mutex, hookVars, pinned, dying>>

(* RegisterMailboxCallback and RegisterActorCallback, of a box in use.     *)
Hook(b) ==
  /\ At(Main, "idle")
  /\ mutex = Nobody
  /\ b \in owned \ doomed
  /\ IF b \in ActorBoxes
     THEN actorHooks' = actorHooks \cup {address[b]} /\ UNCHANGED mailHooks
     ELSE mailHooks' = mailHooks \cup {address[b]} /\ UNCHANGED actorHooks
  /\ UNCHANGED <<boxVars, guard, mutex, toCall, pinned, dying, pc>>

(* workerPool_t::Unregister: Main posts a poison, to an actor.             *)
Addressees == owned \cap ActorBoxes
Unregister(b) ==
  /\ At(Main, "idle")
  /\ guard = Nobody
  /\ b \in Addressees \ doomed
  /\ doomed' = doomed \cup {b}
  /\ UNCHANGED <<storage, address, owned, sick, guard, mutex, hookVars, pinned, dying, pc>>

(* actor_t takes the poison: its callbacks go first, then it is sick.  A   *)
(* role that poisons itself skips the first half.                          *)
UnhookedKept(a) == actorHooks               \* the call is missing
Unhooked(a) == actorHooks \ {a}

TakePoison(w, b) ==
  /\ At(w, "idle")
  /\ mutex = Nobody
  /\ b \in (owned \cap doomed) \ sick
  /\ actorHooks' = Unhooked(address[b])
  /\ sick' = sick \cup {b}
  /\ UNCHANGED <<storage, address, owned, doomed, guard, mutex, mailHooks, toCall,
                 pinned, dying, pc>>

PoisonSelf(w, b) ==
  /\ At(w, "idle")
  /\ b \in (owned \cap Quitters) \ sick
  /\ sick' = sick \cup {b}
  /\ UNCHANGED <<storage, address, owned, doomed, guard, mutex, hookVars, pinned, dying, pc>>

-----------------------------------------------------------------------------
(* t gives up a shared pointer to b; the last one to do so destroys it.    *)
Destroy(t, b, last, otherwise) ==
  IF last
  THEN dying' = [dying EXCEPT ![t] = b] /\ Goto(t, "unhook")
  ELSE UNCHANGED dying /\ Goto(t, otherwise)

(* The owner's pointer goes: Main's own reset, or a worker that erases a   *)
(* sick actor.                                                             *)
Reset(t, b) ==
  /\ At(t, "idle")
  /\ b \in owned
  /\ IF t = Main THEN b \notin ActorBoxes ELSE b \in sick
  /\ owned' = owned \ {b}
  /\ Destroy(t, b, \A s \in Threads : pinned[s] # b, "idle")
  /\ UNCHANGED <<storage, address, doomed, sick, guard, mutex, hookVars, pinned>>

(* What remove_if and erase leave behind.                                  *)
MailUnhookedKept(a) == mailHooks            \* the call is missing
MailUnhooked(a) == mailHooks \ {a}
ErasedKept(a) == storage                    \* the call is missing
Erased(a) == [storage EXCEPT ![a] = NoBox]

(* ~mailbox_t: the callbacks of the address first, under the context's     *)
(* mutex ...                                                               *)
UnregisterMailboxCallbacks(t) ==
  /\ At(t, "unhook")
  /\ mutex = Nobody
  /\ mailHooks' = MailUnhooked(address[dying[t]])
  /\ Goto(t, "delete")
  /\ UNCHANGED <<boxVars, guard, mutex, actorHooks, toCall, pinned, dying>>

(* ... then the entry, under the office's guard.                           *)
Delete(t) ==
  /\ At(t, "delete")
  /\ guard = Nobody
  /\ storage' = Erased(address[dying[t]])
  /\ dying' = [dying EXCEPT ![t] = NoBox]
  /\ Goto(t, "idle")
  /\ UNCHANGED <<address, owned, doomed, sick, guard, mutex, hookVars, pinned>>

-----------------------------------------------------------------------------
(* postOffice_t::Post: under the guard, the weak pointer is made a shared  *)
(* one and the message is put; an address nobody lives at gives -1.        *)
Promote(t, a) ==
  /\ guard = Nobody
  /\ IF storage[a] # NoBox /\ Alive(storage[a])
     THEN /\ guard' = t
          /\ pinned' = [pinned EXCEPT ![t] = storage[a]]
          /\ Goto(t, "post")
     ELSE UNCHANGED <<guard, pinned, pc>>

Post(t, a) ==
  /\ At(t, "idle")
  /\ Promote(t, a)
  /\ UNCHANGED <<boxVars, mutex, hookVars, dying>>

(* The shared pointer is a local: it dies before the lock_guard does.      *)
Unpin(t) ==
  LET b == pinned[t] IN
  /\ At(t, "post")
  /\ pinned' = [pinned EXCEPT ![t] = NoBox]
  /\ Destroy(t, b, b \notin owned /\ \A s \in Threads \ {t} : pinned[s] # b, "unlock")
  /\ UNCHANGED <<boxVars, guard, mutex, hookVars>>

UnlockOffice(t) ==
  /\ At(t, "unlock")
  /\ guard' = Nobody
  /\ Goto(t, IF mutex = t THEN "polling" ELSE "idle")
  /\ UNCHANGED <<boxVars, mutex, hookVars, pinned, dying>>

(* context_t::Update holds the mutex over glfwPollEvents; an input event   *)
(* is posted to every hooked actor and mailbox.                            *)
BeginUpdate ==
  /\ At(Main, "idle")
  /\ mutex = Nobody
  /\ mutex' = Main
  /\ toCall' = mailHooks \cup actorHooks
  /\ Goto(Main, "polling")
  /\ UNCHANGED <<boxVars, guard, mailHooks, actorHooks, pinned, dying>>

OnKey(a) ==
  /\ At(Main, "polling")
  /\ a \in toCall
  /\ toCall' = toCall \ {a}
  /\ Promote(Main, a)
  /\ UNCHANGED <<boxVars, mutex, mailHooks, actorHooks, dying>>

EndUpdate ==
  /\ At(Main, "polling")
  /\ toCall = {}
  /\ mutex' = Nobody
  /\ Goto(Main, "idle")
  /\ UNCHANGED <<boxVars, guard, hookVars, pinned, dying>>

-----------------------------------------------------------------------------
(* What a thread that has begun must finish.                               *)
Continue(t) ==
  \/ UnregisterMailboxCallbacks(t) \/ Delete(t) \/ Unpin(t) \/ UnlockOffice(t)
  \/ t = Main /\ (EndUpdate \/ \E a \in Addresses : OnKey(a))

Bury(w) == \E b \in Boxes : TakePoison(w, b) \/ Reset(w, b)

Next ==
  \/ \E b \in Boxes, a \in Addresses : New(b, a)
  \/ \E b \in Boxes : Hook(b) \/ Unregister(b) \/ Reset(Main, b)
  \/ \E w \in Workers, b \in Boxes : TakePoison(w, b) \/ PoisonSelf(w, b) \/ Reset(w, b)
  \/ \E t \in Threads, a \in Addresses : Post(t, a)
  \/ BeginUpdate
  \/ \E t \in Threads : Continue(t)

Spec == Init /\ [][Next]_vars

FairSpec ==
  Spec /\ \A t \in Threads : SF_vars(Continue(t)) /\ SF_vars(t # Main /\ Bury(t))

-----------------------------------------------------------------------------
(* A mailbox in use can be reached: the office's entry for its address is  *)
(* its own.  The destructor erases by address, so this stands and falls    *)
(* with New's refusal of an entry that has expired but is not yet deleted  *)
(* (mailbox.cpp:55-81, 99-105).                                            *)
OwnedIsReachable == \A b \in owned : storage[address[b]] = b

(* A name stays taken after its mailbox is gone only while a destructor is *)
(* still on its way to Delete.                                             *)
ExpiredIsDying ==
  \A a \in Addresses :
    storage[a] # NoBox => \/ Alive(storage[a])
                          \/ \E t \in Threads : dying[t] = storage[a]

(* No input event goes to a mailbox that is gone: the callback is removed  *)
(* before the entry, and nobody can take the name in between.              *)
MailHooksLive ==
  \A a \in mailHooks :
    /\ storage[a] # NoBox
    /\ \/ Alive(storage[a])
       \/ \E t \in Threads : dying[t] = storage[a] /\ At(t, "unhook")

(* Nor to an actor that is gone, which PostMessage takes for a bug:        *)
(* "Actor (%08lx) is no longer exists!", assert(0) (worker.cpp:233-237).   *)
(* An actor whose role answered "poisoned" is the exception: actor.cpp:65  *)
(* makes it sick without the call at actor.cpp:52.                         *)
HookedActorsLive ==
  \A a \in actorHooks :
    \/ storage[a] # NoBox /\ storage[a] \in owned
    \/ \E b \in Quitters \cap sick : address[b] = a

(* Both: what an input event is posted to can take it.                     *)
HooksLive == MailHooksLive /\ HookedActorsLive

(* Posting an input event takes no mutex of the context's: "at that moment *)
(* context mutex is already aquired by update thread so, no lock here"     *)
(* (context.cpp:433-435).  An actor that left its callback behind is the   *)
(* exception again.                                                        *)
EventPostLocksNothing ==
  At(Main, "unhook") /\ mutex = Main => dying[Main] \in Quitters

(* The destructor of a mailbox gets as far as deleting its entry: "each    *)
(* actor delete itself from postOffice" (worker.cpp:175-179).              *)
DyingIsDeleted ==
  \A b \in Boxes : (\E t \in Threads : dying[t] = b) ~> (\A t \in Threads : dying[t] # b)
=============================================================================
