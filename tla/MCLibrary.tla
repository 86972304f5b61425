------------------------------ MODULE MCLibrary ------------------------------
(***************************************************************************)
(* The parts of the library and the small programs that share no state,    *)
(* checked in one run: part chooses the one that moves, the others stay as *)
(* they begin.                                                             *)
(***************************************************************************)
EXTENDS Handles, Painter, Obj2mesh, DynamicText, Binstore, Config, TacWar

VARIABLE part

Parts == {"handles", "monitor", "painter", "meshes", "obj2mesh", "text", "binstore", "config", "tacwar"}

libraryVars == <<part, handlesVars, monitorVars, painterVars, meshesVars, objVars,
                 textVars, binstoreVars, configVars, tacVars>>

LibraryInit ==
  /\ part \in Parts
  /\ HandlesInit /\ MonitorInit /\ PainterInit /\ MeshesInit /\ ObjInit
  /\ TextInit /\ BinstoreInit /\ ConfigInit /\ TacInit
  /\ part # "handles" => class = texture_t
  /\ part # "painter" => meant = CHOOSE d \in Documents : TRUE

HandlesPart ==
  /\ part = "handles" /\ HandlesNext
  /\ UNCHANGED <<part, monitorVars, painterVars, meshesVars, objVars, textVars, binstoreVars, configVars, tacVars>>
MonitorPart ==
  /\ part = "monitor" /\ MonitorNext
  /\ UNCHANGED <<part, handlesVars, painterVars, meshesVars, objVars, textVars, binstoreVars, configVars, tacVars>>
PainterPart ==
  /\ part = "painter" /\ PainterNext
  /\ UNCHANGED <<part, handlesVars, meshesVars, objVars, textVars, binstoreVars, configVars, tacVars>>
MeshesPart ==
  /\ part = "meshes" /\ MeshesNext
  /\ UNCHANGED <<part, handlesVars, monitorVars, painterVars, objVars, textVars, binstoreVars, configVars, tacVars>>
ObjPart ==
  /\ part = "obj2mesh" /\ ObjNext
  /\ UNCHANGED <<part, handlesVars, monitorVars, painterVars, meshesVars, textVars, binstoreVars, configVars, tacVars>>
TextPart ==
  /\ part = "text" /\ TextNext
  /\ UNCHANGED <<part, handlesVars, monitorVars, painterVars, meshesVars, objVars, binstoreVars, configVars, tacVars>>
BinstorePart ==
  /\ part = "binstore" /\ BinstoreNext
  /\ UNCHANGED <<part, handlesVars, monitorVars, painterVars, meshesVars, objVars, textVars, configVars, tacVars>>
ConfigPart ==
  /\ part = "config" /\ ConfigNext
  /\ UNCHANGED <<part, handlesVars, monitorVars, painterVars, meshesVars, objVars, textVars, binstoreVars, tacVars>>
TacPart ==
  /\ part = "tacwar" /\ TacNext
  /\ UNCHANGED <<part, handlesVars, monitorVars, painterVars, meshesVars, objVars, textVars, binstoreVars, configVars>>

LibraryNext ==
  \/ HandlesPart \/ MonitorPart \/ PainterPart \/ MeshesPart \/ ObjPart
  \/ TextPart \/ BinstorePart \/ ConfigPart \/ TacPart
LibrarySpec == LibraryInit /\ [][LibraryNext]_libraryVars

-----------------------------------------------------------------------------
Command(letter, arguments) == [cmd |-> letter, args |-> arguments]
PainterDocuments ==
  {[commands |-> <<Command("f", <<3>>), Command("m", <<1>>), Command("l", <<2, 1>>)>>, tail |-> <<>>],
   [commands |-> <<Command("b", <<2>>), Command("c", <<>>), Command("s", <<0>>), Command("r", <<1>>), Command("d", <<4>>)>>,
    tail |-> <<>>],
   [commands |-> <<Command("f", <<1>>), Command("l", <<1>>)>>, tail |-> <<<<"letter", "t">>, <<"noise", 0>>>>],
   [commands |-> <<>>, tail |-> <<<<"mesh", <<7>>>>>>]}
StoreItems ==
  {<<"value", 1>>} \cup {<<"string", q>> : q \in {<<>>, <<2, 1>>, <<1, 0>>, <<1, 1, 1>>}}
PlainKeys == {<<"a">>, <<"b">>}
LineKeys == PlainKeys \cup {<<"a", "b">>}
LineValues == {<<"number", 10>>, <<"number", -14>>, <<"string", "a">>}

CornersOf(n, normal) == [i \in 1 .. n |-> <<1 + (i % 2), normal>>]
ObjectLines ==
  {<<"v", "">>, <<"vn", "">>, <<"mtllib", "red.mtl">>, <<"mtllib", "twice.mtl">>, <<"usemtl", "red">>, <<"bad", "">>,
   <<"f", CornersOf(3, 0)>>, <<"f", CornersOf(3, 1)>>, <<"f", CornersOf(18, 1)>>}
ObjectMaterials ==
  [name \in {"red.mtl", "twice.mtl"} |->
     <<<<"newmtl", "red">>, <<"other", "">>, <<"Kd", "">>>> \o IF name = "twice.mtl" THEN <<<<"Kd", "">>>> ELSE <<>>]
Line6 == 0 .. 6
TwoTroopers == <<0, 4>>
=============================================================================
