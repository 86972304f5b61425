------------------------------- MODULE Handles -------------------------------
(***************************************************************************)
(* The wrappers of this code that own something a library gave them a      *)
(* number for: textures, programs, buffers, vertex arrays, uniform blocks  *)
(* and framebuffers of OpenGL, streams and samples of BASS, and the        *)
(* descriptor of a file monitor.  All can be moved and none copied; zero   *)
(* (minus one in the monitor) says that nothing is owned.                  *)
(*                                                                         *)
(* The libraries give the number of a freed object to the next one, so a   *)
(* wrapper that frees too much ends the life of somebody else's object.    *)
(***************************************************************************)
EXTENDS Naturals, FiniteSets

CONSTANTS Wrappers,    \* the variables of one class in a program
          Names        \* the numbers the library gives out

Nothing == 0

ASSUME NamesAssumption == Names \subseteq Nat \ {Nothing}

-----------------------------------------------------------------------------
(* The classes: whether freeing can fail, whether making one can end with  *)
(* a wrapper of nothing, what the making of an object takes besides it, to *)
(* be given back before it is handed out, and whether it comes with a      *)
(* texture of its own.                                                     *)
Named(name) == [name |-> name, mayFail |-> FALSE, mayBeEmpty |-> FALSE, helpers |-> 0, texture |-> FALSE]
texture_t == Named("texture")
shader_t == [Named("shader") EXCEPT !.helpers = 2]           \* the two compiled shaders
vbo_t == Named("vbo")
vao_t == Named("vao")
uniformBlock_t == Named("uniformBlock")
framebuffer_t == [Named("framebuffer") EXCEPT !.helpers = 1, !.texture = TRUE]  \* a depth buffer
stream_t == [Named("stream") EXCEPT !.mayBeEmpty = TRUE]
sample_t == [Named("sample") EXCEPT !.mayFail = TRUE, !.mayBeEmpty = TRUE]  \* freed if it could be stopped
monitor_t == [Named("monitor") EXCEPT !.mayBeEmpty = TRUE]
Classes == {texture_t, shader_t, vbo_t, vao_t, uniformBlock_t, framebuffer_t, stream_t, sample_t, monitor_t}

VARIABLES
  class,  \* of all wrappers in this program
  self,   \* what a wrapper owns, or Nothing
  tex,    \* the texture of a framebuffer, or Nothing
  live,   \* the library's objects
  lost    \* those of them nobody can free any more

handlesVars == <<class, self, tex, live, lost>>

HandlesInit ==
  /\ class \in Classes
  /\ self = [w \in Wrappers |-> Nothing] /\ tex = self
  /\ live = {} /\ lost = {}

Owned == ({self[w] : w \in Wrappers} \cup {tex[w] : w \in Wrappers}) \ {Nothing}

-----------------------------------------------------------------------------
(* The destructor's and the assignment's freeing; stopped says whether the *)
(* library did stop a sample.                                              *)
Freed(w, stopped) == IF class.mayFail /\ ~stopped THEN {} ELSE {self[w], tex[w]} \ {Nothing}
Kept(w, stopped) == ({self[w], tex[w]} \ {Nothing}) \ Freed(w, stopped)

(* A variable goes out of its scope and comes back, owning nothing.        *)
LeaveHandle(w, stopped) ==
  /\ stopped \/ class.mayFail
  /\ self[w] # Nothing
  /\ live' = live \ Freed(w, stopped)
  /\ lost' = lost \cup Kept(w, stopped)
  /\ self' = [self EXCEPT ![w] = Nothing] /\ tex' = [tex EXCEPT ![w] = Nothing]
  /\ UNCHANGED class

(* to = T::CreateHandle(...): all is taken from the library, the helpers are     *)
(* given back, and the temporary is moved into the variable.               *)
CreateHandle(to, made, stopped) ==
  /\ made \subseteq Names \ live
  /\ Cardinality(made) = 1 + class.helpers + IF class.texture THEN 1 ELSE 0
  /\ stopped \/ class.mayFail
  /\ \E own \in made, ownTex \in IF class.texture THEN made ELSE {Nothing} :
       /\ own # ownTex
       /\ live' = (live \ Freed(to, stopped)) \cup {own} \cup ({ownTex} \ {Nothing})
       /\ self' = [self EXCEPT ![to] = own]
       /\ tex' = [tex EXCEPT ![to] = ownTex]
  /\ lost' = lost \cup Kept(to, stopped)
  /\ UNCHANGED class

(* The library refuses: the variable loses what it had, and gets nothing.  *)
CreateHandleEmpty(to, stopped) ==
  /\ class.mayBeEmpty
  /\ stopped \/ class.mayFail
  /\ live' = live \ Freed(to, stopped)
  /\ lost' = lost \cup Kept(to, stopped)
  /\ self' = [self EXCEPT ![to] = Nothing] /\ tex' = [tex EXCEPT ![to] = Nothing]
  /\ UNCHANGED class

(* A shader that does not compile, a program that does not link, a         *)
(* framebuffer that is not complete: what was made stays in the library    *)
(* while the exception passes (only the texture, a member, is freed).      *)
CreateHandleThrows(made) ==
  /\ class.helpers > 0
  /\ made \subseteq Names \ live
  /\ Cardinality(made) \in IF class = shader_t THEN 1 .. 3 ELSE {2}
  /\ live' = live \cup made /\ lost' = lost \cup made
  /\ UNCHANGED <<class, self, tex>>

(* to = std::move(from): what to had is freed, and from owns nothing then. *)
(* A variable assigned to itself keeps what it has.                        *)
SelfKept(to, from) == [self EXCEPT ![to] = self[from]]   \* from is not reset
SelfMoved(to, from) == [self EXCEPT ![to] = self[from], ![from] = Nothing]
HandleMoved(to, from) == SelfMoved(to, from)

AssignHandle(to, from, stopped) ==
  /\ to # from
  /\ stopped \/ (class.mayFail /\ self[to] # Nothing)
  /\ live' = live \ Freed(to, stopped)
  /\ lost' = lost \cup Kept(to, stopped)
  /\ self' = HandleMoved(to, from)
  /\ tex' = [tex EXCEPT ![to] = tex[from], ![from] = Nothing]
  /\ UNCHANGED class

(* framebuffer_t::Swap, three moves through a third variable.              *)
SwapHandles(a, b) ==
  /\ class = framebuffer_t /\ a # b
  /\ self' = [self EXCEPT ![a] = self[b], ![b] = self[a]]
  /\ tex' = [tex EXCEPT ![a] = tex[b], ![b] = tex[a]]
  /\ UNCHANGED <<class, live, lost>>

HandlesNext ==
  \/ \E w \in Wrappers, stopped \in BOOLEAN : LeaveHandle(w, stopped)
  \/ \E w \in Wrappers, made \in SUBSET Names, stopped \in BOOLEAN : CreateHandle(w, made, stopped)
  \/ \E w \in Wrappers, stopped \in BOOLEAN : CreateHandleEmpty(w, stopped)
  \/ \E made \in SUBSET Names : CreateHandleThrows(made)
  \/ \E a, b \in Wrappers, stopped \in BOOLEAN : AssignHandle(a, b, stopped)
  \/ \E a, b \in Wrappers : SwapHandles(a, b)

HandlesSpec == HandlesInit /\ [][HandlesNext]_handlesVars

-----------------------------------------------------------------------------
OwnedOnce ==
  \A a, b \in Wrappers :
    /\ a # b /\ self[a] # Nothing => self[a] # self[b]
    /\ a # b /\ tex[a] # Nothing => tex[a] # tex[b]
    /\ self[a] # Nothing => self[a] # tex[b]

(* What a wrapper owns lives, nobody else owns it, and what lives is owned *)
(* by somebody or was lost: in an exception of a constructor, or as a      *)
(* sample that could not be stopped (texture.cpp:41-75, shader.cpp:61-102, *)
(* vao.cpp:8-127, ubo.cpp:12-48, framebuffer.cpp:8-110, sound.cpp:73-114,  *)
(* 177-209, monfs.cpp:152-184).                                            *)
HandlesAccounted ==
  /\ live = Owned \cup lost /\ Owned \cap lost = {}
  /\ OwnedOnce
=============================================================================
