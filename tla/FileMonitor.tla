----------------------------- MODULE FileMonitor -----------------------------
(***************************************************************************)
(* monitor_t of src/core/common: watches on files, and Check, which polls  *)
(* the kernel's queue (monfs.cpp:31-137).  The queue is Linux's inotify: a *)
(* modification that only repeats the newest event is not queued again,    *)
(* and a watch that is removed leaves its events and a last, different one *)
(* behind.                                                                 *)
(***************************************************************************)
EXTENDS Naturals, Sequences, SequencesExt

CONSTANTS Files,
          BufferSize,  \* events that fit into notifyBuffer
          QueueBound   \* events this model lets the queue hold

ASSUME FileMonitorAssumption == BufferSize \in Nat

VARIABLES
  watched,  \* the files with a watch
  events,   \* the kernel's queue, oldest first: <<mask, file>>
  unseen,   \* files modified under a watch since OnChange was last called for them
  refused   \* OnChange has answered with an error

monitorVars == <<watched, events, unseen, refused>>

MonitorInit == watched = {} /\ events = <<>> /\ unseen = {} /\ refused = FALSE

Queued(event) == IF events # <<>> /\ Last(events) = event THEN events ELSE Append(events, event)

WatchFile(f) ==
  /\ watched' = watched \cup {f}
  /\ UNCHANGED <<events, unseen, refused>>

RemoveWatch(f) ==
  /\ f \in watched /\ Len(events) < QueueBound
  /\ watched' = watched \ {f}
  /\ events' = Queued(<<"ignored", f>>)
  /\ UNCHANGED <<unseen, refused>>

Modify(f) ==
  /\ f \in watched /\ Len(events) < QueueBound
  /\ events' = Queued(<<"modified", f>>)
  /\ unseen' = unseen \cup {f}
  /\ UNCHANGED <<watched, refused>>

-----------------------------------------------------------------------------
(* What one read delivers, and how far the loop over it gets: an event of  *)
(* another kind is passed over, an error of OnChange ends the loop, and    *)
(* the rest of what was read is gone.                                      *)
Read == SubSeq(events, 1, IF Len(events) < BufferSize THEN Len(events) ELSE BufferSize)
Notified(batch) == {i \in DOMAIN batch : batch[i][1] = "modified"}
UpToStrange(batch) ==                  \* the loop ends at an event of another kind
  {i \in DOMAIN batch : \A j \in 1 .. i : batch[j][1] = "modified"}
Processed(batch) == Notified(batch)

(* erring is the event OnChange answers with an error, or zero.            *)
Check(erring) ==
  /\ events # <<>>
  /\ erring \in Processed(Read) \cup {0}
  /\ LET told == {i \in Processed(Read) : erring = 0 \/ i <= erring} IN
     unseen' = unseen \ {Read[i][2] : i \in told}
  /\ events' = SubSeq(events, Len(Read) + 1, Len(events))
  /\ refused' = (refused \/ erring # 0)
  /\ UNCHANGED watched

MonitorNext ==
  \/ \E f \in Files : WatchFile(f)
  \/ \E f \in Files : RemoveWatch(f)
  \/ \E f \in Files : Modify(f)
  \/ \E erring \in 0 .. BufferSize : Check(erring)

MonitorSpec == MonitorInit /\ [][MonitorNext]_monitorVars

-----------------------------------------------------------------------------
(* While no processor has answered with an error, a modified file's event  *)
(* is waiting until OnChange was called for it, also behind events of      *)
(* another kind and after its watch was given back (monfs.cpp:80-100).     *)
ChangesAreReported ==
  ~refused => \A f \in unseen : \E i \in DOMAIN events : events[i] = <<"modified", f>>
=============================================================================
