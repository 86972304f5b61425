------------------------------- MODULE Painter -------------------------------
(***************************************************************************)
(* The painter (src/painter): it shows what a script draws or a mesh file  *)
(* holds, and shows it anew when its monitor has posted that the file      *)
(* changed.  The script's language is that of src/core/util/script.        *)
(*                                                                         *)
(* An editor writes the file in place, in pieces, at any time; one that    *)
(* puts another file in its place takes the watch away with the old one.   *)
(* Lengths stand for points, and a drawing is the list of its shapes.      *)
(***************************************************************************)
EXTENDS FileMonitor, Integers, FiniteSets

CONSTANTS Painting,   \* the file, one of Files
          Documents,  \* what is saved: [commands |-> <<[cmd, args], ...>>, tail |-> tokens]
          SaveBound   \* how often

(* A token is its kind and what it stands for; noise is no token, and mesh *)
(* the content of a mesh file.                                             *)
Tokens ==
  ({"letter"} \X STRING) \cup ({"value", "colon", "end", "noise"} \X Int) \cup ({"mesh"} \X Seq(Int))

ASSUME PainterAssumption ==
  Documents \subseteq [commands : Seq([cmd : STRING, args : Seq(Int)]), tail : Seq(Tokens)]

RenderedCommand(c) ==
  <<<<"letter", c.cmd>>>> \o FlattenSeq([a \in DOMAIN c.args |-> <<<<"colon", 0>>, <<"value", c.args[a]>>>>])
    \o <<<<"end", 0>>>>
Rendered(document) ==
  FlattenSeq([i \in DOMAIN document.commands |-> RenderedCommand(document.commands[i])]) \o document.tail

-----------------------------------------------------------------------------
(* painterVM_t::OnCommand; t and what is unknown changes nothing here.     *)
Argument(refs, id) == IF id < Len(refs) THEN refs[id + 1] ELSE 0
painterVM_t(camera) == [cursor |-> 0, brushWidth |-> 0, sides |-> 32, meshDesc |-> <<>>, camera |-> camera]
OnCommand(vm, cmd, refs) ==
  LET arg == Argument(refs, 0)
      drawn(shape) == Append(vm.meshDesc, <<shape, vm.cursor, arg, vm.brushWidth, vm.sides>>)
  IN
  CASE cmd = "f" -> [vm EXCEPT !.camera = arg]
    [] cmd = "m" -> [vm EXCEPT !.cursor = arg]
    [] cmd = "r" -> [vm EXCEPT !.cursor = @ + arg]
    [] cmd = "l" -> [vm EXCEPT !.meshDesc = drawn("line"), !.cursor = arg]
    [] cmd = "b" -> [vm EXCEPT !.brushWidth = arg]
    [] cmd = "c" -> [vm EXCEPT !.meshDesc = drawn("circle")]
    [] cmd = "s" -> [vm EXCEPT !.sides = IF arg = 0 THEN 32 ELSE arg]
    [] cmd = "d" -> [vm EXCEPT !.meshDesc = drawn("text")]
    [] OTHER -> vm

(* vm_t::Command empties the list of arguments behind the command.         *)
RefsKept(refs) == refs
RefsCleared(refs) == <<>>
RefsAfter(refs) == RefsCleared(refs)

(* ExecuteScript, token by token: commands take effect as they come, also  *)
(* in front of a mistake, and one without an end is not executed.          *)
ExecuteToken(at, token) ==
  IF at.result # 0 THEN at
  ELSE IF at.mode = "command" /\ token[1] = "letter" THEN [at EXCEPT !.cmd = token[2], !.mode = "next"]
  ELSE IF at.mode = "arg" /\ token[1] = "value" THEN [at EXCEPT !.refs = Append(@, token[2]), !.mode = "next"]
  ELSE IF at.mode = "next" /\ token[1] = "colon" THEN [at EXCEPT !.mode = "arg"]
  ELSE IF at.mode = "next" /\ token[1] = "end"
       THEN [at EXCEPT !.vm = OnCommand(@, at.cmd, at.refs), !.refs = RefsAfter(@), !.mode = "command"]
  ELSE [at EXCEPT !.result = -1]
ExecuteScript(vm, script) ==
  FoldLeft(ExecuteToken, [vm |-> vm, refs |-> <<>>, mode |-> "command", cmd |-> "nul", result |-> 0], script)

CheckFile(content) == content # <<>> /\ content[1][1] = "mesh"

-----------------------------------------------------------------------------
VARIABLES
  content,  \* of the file
  saving,   \* what the editor has still to write
  meant,    \* the document it saves, or has saved
  saves,
  picture,     \* that is shown
  camera,
  mail,     \* updates in the mailbox
  size,     \* what ftell said of the file
  missed,   \* the file changed after it was opened, and before it was watched
  pc        \* in the painter's main

painterVars == <<content, saving, meant, saves, picture, camera, mail, size, missed, pc>>
editorVars == <<saving, meant, saves>>

PainterInit ==
  /\ meant \in Documents /\ content = Rendered(meant) /\ saving = <<>> /\ saves = 0
  /\ picture = <<>> /\ camera = 0 /\ mail = 0 /\ size = 0 /\ missed = FALSE
  /\ pc = "open"

Touched ==
  IF Painting \in watched THEN Modify(Painting) ELSE UNCHANGED monitorVars
Missed == missed' = (missed \/ (Painting \notin watched /\ pc # "open"))

(* The editor empties the file and writes it piece by piece.               *)
Save(document) ==
  /\ saving = <<>> /\ saves < SaveBound
  /\ content' = <<>> /\ saving' = Rendered(document) /\ meant' = document /\ saves' = saves + 1
  /\ Touched /\ Missed
  /\ UNCHANGED <<picture, camera, mail, size, pc>>
Write(n) ==
  /\ content' = content \o SubSeq(saving, 1, n)
  /\ saving' = SubSeq(saving, n + 1, Len(saving))
  /\ Touched /\ Missed
  /\ UNCHANGED <<meant, saves, picture, camera, mail, size, pc>>

(* UpdateScene: the kind of the file and its length come first, then what  *)
(* is in it.  It may have grown, or be another, or too short.  The first   *)
(* time a failure ends the program, and then the monitor is made.          *)
OpenScene ==
  /\ pc = "open"
  /\ size' = Len(content) /\ missed' = FALSE
  /\ pc' = IF CheckFile(content) THEN "load" ELSE "read"
  /\ UNCHANGED <<content, editorVars, picture, camera, mail, monitorVars>>
Updated(good) ==
  pc' = IF Painting \in watched THEN "check" ELSE IF good THEN "watch" ELSE "ended"
LoadScene ==
  /\ pc = "load"
  /\ picture' = IF CheckFile(content) THEN content[1][2] ELSE <<>>
  /\ camera' = 0
  /\ Updated(TRUE)
  /\ UNCHANGED <<content, editorVars, mail, size, missed, monitorVars>>
ReadScene ==
  /\ pc = "read"
  /\ IF Len(content) < size
     THEN UNCHANGED <<picture, camera>> /\ Updated(FALSE)
     ELSE LET done == ExecuteScript(painterVM_t(camera), SubSeq(content, 1, size)) IN
          /\ picture' = IF done.result = 0 THEN done.vm.meshDesc ELSE picture
          /\ camera' = done.vm.camera      \* the camera is a global: a failing script moves it, too
          /\ Updated(done.result = 0)
  /\ UNCHANGED <<content, editorVars, mail, size, missed, monitorVars>>

StartWatch ==
  /\ pc = "watch"
  /\ WatchFile(Painting)
  /\ pc' = "check"
  /\ UNCHANGED <<content, editorVars, picture, camera, mail, size, missed>>

(* One turn of the loop: the monitor posts an update for each change it is *)
(* told of, and one of them is taken.                                      *)
CheckMonitor ==
  /\ pc = "check"
  /\ IF events = <<>> THEN UNCHANGED <<mail, monitorVars>>
     ELSE Check(0) /\ mail' = mail + Cardinality(Processed(Read))
  /\ pc' = "poll"
  /\ UNCHANGED <<content, editorVars, picture, camera, size, missed>>
PollMail ==
  /\ pc = "poll"
  /\ mail' = IF mail = 0 THEN 0 ELSE mail - 1
  /\ pc' = IF mail = 0 THEN "check" ELSE "open"
  /\ UNCHANGED <<content, editorVars, picture, camera, size, missed, monitorVars>>

(* The window is closed.                                                   *)
Quit ==
  /\ pc = "check"
  /\ pc' = "ended"
  /\ UNCHANGED <<content, editorVars, picture, camera, mail, size, missed, monitorVars>>

PainterNext ==
  \/ \E document \in Documents : Save(document)
  \/ \E n \in 1 .. Len(saving) : Write(n)
  \/ OpenScene \/ LoadScene \/ ReadScene
  \/ StartWatch \/ CheckMonitor \/ PollMail \/ Quit

PainterSpec == MonitorInit /\ PainterInit /\ [][PainterNext]_<<monitorVars, painterVars>>

-----------------------------------------------------------------------------
(* What a document draws, by its commands.                                 *)
Drawn(vm, c) == OnCommand(vm, c.cmd, c.args)
Drawing(document) == FoldLeft(Drawn, painterVM_t(0), document.commands).meshDesc

(* When no event and no mail is left and the editor is done, the picture   *)
(* is that of the file as it was saved, whatever was read of it half       *)
(* written; only a file with a mistake is not shown, and a change between  *)
(* the first reading and the watch is not seen (script.cpp:14-153,         *)
(* painter.cpp:231-390, monfs.cpp:31-119).                                 *)
PictureIsCurrent ==
  pc = "check" /\ events = <<>> /\ mail = 0 /\ saving = <<>> /\ ~missed =>
    /\ meant.tail = <<>> => picture = Drawing(meant)
    /\ CheckFile(content) => picture = content[1][2]
=============================================================================
