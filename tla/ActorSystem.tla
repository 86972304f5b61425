---------------------------- MODULE ActorSystem -----------------------------
(***************************************************************************)
(* What the users of core/actor are promised, without workers, locks or    *)
(* iterators: every actor has a queue, runs one message of it at a time in *)
(* the order of posting, and once it is sick - poisoned, or by its own     *)
(* answer - runs nothing more and is sooner or later removed.              *)
(*                                                                         *)
(* WorkerPool implements this module.                                      *)
(***************************************************************************)
EXTENDS Sequences

CONSTANTS Actors, Message, Idle

VARIABLES health,   \* "unborn", "live", "sick" or "dead"
          queue,    \* the messages posted and not yet taken
          running   \* the message each actor is running, or Idle

systemVars == <<health, queue, running>>

SystemInit ==
  /\ health = [a \in Actors |-> "unborn"]
  /\ queue = [a \in Actors |-> <<>>]
  /\ running = [a \in Actors |-> Idle]

-----------------------------------------------------------------------------
Create(a) ==
  /\ health[a] = "unborn"
  /\ health' = [health EXCEPT ![a] = "live"]
  /\ UNCHANGED <<queue, running>>

(* A sick actor still has an address and collects messages.                *)
Send(a, m) ==
  /\ health[a] \in {"live", "sick"}
  /\ queue' = [queue EXCEPT ![a] = Append(@, m)]
  /\ UNCHANGED <<health, running>>

Take(a) ==
  /\ health[a] = "live"
  /\ running[a] = Idle
  /\ queue[a] # <<>> /\ Head(queue[a]) # "poison"
  /\ running' = [running EXCEPT ![a] = Head(queue[a])]
  /\ queue' = [queue EXCEPT ![a] = Tail(@)]
  /\ UNCHANGED health

TakePoison(a) ==
  /\ health[a] = "live"
  /\ running[a] = Idle
  /\ queue[a] # <<>> /\ Head(queue[a]) = "poison"
  /\ health' = [health EXCEPT ![a] = "sick"]
  /\ queue' = [queue EXCEPT ![a] = Tail(@)]
  /\ UNCHANGED running

Finish(a) ==
  /\ running[a] # Idle
  /\ running' = [running EXCEPT ![a] = Idle]
  /\ health' = IF running[a] = "suicide" THEN [health EXCEPT ![a] = "sick"] ELSE health
  /\ UNCHANGED queue

(* What is left in the queue of a removed actor is lost.                   *)
Remove(a) ==
  /\ health[a] = "sick"
  /\ health' = [health EXCEPT ![a] = "dead"]
  /\ queue' = [queue EXCEPT ![a] = <<>>]
  /\ UNCHANGED running

(* The end of the system takes the living with it, but no running handler. *)
Close ==
  /\ \A a \in Actors : running[a] = Idle
  /\ health' = [a \in Actors |-> IF health[a] = "unborn" THEN "unborn" ELSE "dead"]
  /\ queue' = [a \in Actors |-> <<>>]
  /\ UNCHANGED running

SystemNext ==
  \/ \E a \in Actors :
       \/ Create(a) \/ Take(a) \/ TakePoison(a) \/ Finish(a) \/ Remove(a)
       \/ \E m \in Message : Send(a, m)
  \/ Close

SystemSpec == SystemInit /\ [][SystemNext]_systemVars
=============================================================================
