------------------------------- MODULE Meshes -------------------------------
(***************************************************************************)
(* The meshes of src/core/util/shapes.                                     *)
(*                                                                         *)
(* A mesh description (meshDesc.cpp, vertexBuffer.hpp, indexBuffer.hpp) is *)
(* put together from lines, points, circles and symbols (lines.cpp,        *)
(* circle.cpp, numbers.cpp).  Positions are left out: the item of a vertex *)
(* buffer is the number of the shape it was made for.  Vertices are        *)
(* counted from zero, as indices do.                                       *)
(***************************************************************************)
EXTENDS Naturals, Sequences, SequencesExt

CONSTANTS BreakIndex,  \* breakingIndex<uint16_t>, 65535 in the code
          ShapeBound   \* shapes appended in one mesh

ASSUME MeshesAssumption ==
  BreakIndex \in Nat /\ BreakIndex >= 24   \* no shape below has more vertices

Times(n, item) == [i \in 1 .. n |-> item]

-----------------------------------------------------------------------------
(* Mesh descriptions: buffers of vertices, the dimensions of each, indices *)
(* with breaks.  A mesh from a file has buffers of another kind.           *)
meshDesc_t == [buffers |-> <<>>, dims |-> <<>>, indecies |-> <<>>, mode |-> "triangles", kind |-> "made"]
IsGoodMesh(mesh) == mesh.buffers # <<>> /\ mesh.indecies # <<>>

(* n strips, each over its own vertices and ended by a break.              *)
Strips(tag, n, vertices, strip) ==
  [buffers |-> Times(2, Times(n * vertices, tag)), dims |-> <<2, 2>>, mode |-> "strip", kind |-> "made",
   indecies |-> FlattenSeq([k \in 1 .. n |->
                  [i \in 1 .. Len(strip) |-> (k - 1) * vertices + strip[i]] \o <<BreakIndex>>])]

DefineLine(tag, points) == Strips(tag, points - 1, 8, <<0, 1, 2, 3, 4, 5, 6, 7>>)
DefinePoints(tag, points) == Strips(tag, points, 4, <<0, 1, 3, 2>>)
DefineCircle(tag, sides) == Strips(tag, 1, 2 * sides, [i \in 1 .. 2 * sides |-> i - 1] \o <<0, 1>>)

(* A third buffer, as the age of the radar's points.                       *)
WithLife(mesh) ==
  [mesh EXCEPT !.buffers = Append(@, mesh.buffers[1]), !.dims = Append(@, 1)]

-----------------------------------------------------------------------------
MaximumIndex(indecies) ==
  LET used == {indecies[i] : i \in DOMAIN indecies} \ {BreakIndex} IN
  IF used = {} THEN 0 ELSE CHOOSE m \in used : \A u \in used : u <= m

(* indexBuffer_t::Append: at an index that cannot be written it gives up,  *)
(* and keeps what it has.                                                  *)
AppendIndecies(to, from, offset) ==
  LET TooBig(i) == from[i] # BreakIndex /\ from[i] + offset >= BreakIndex
      stops == {i \in DOMAIN from : TooBig(i)}
      upTo == IF stops = {} THEN Len(from) ELSE (CHOOSE i \in stops : \A j \in stops : i <= j) - 1
  IN to \o [i \in 1 .. upTo |-> IF from[i] = BreakIndex THEN BreakIndex ELSE from[i] + offset]

(* defaultIndexBuffer_t::Append: the indices it has moved up are copied    *)
(* over by those that came, and their bytes are taken for their number, so *)
(* that what lies behind them counts as well.                              *)
Beyond == BreakIndex + 1
AppendToLoaded(to, from) == to \o from \o Times(Len(to) + Len(from), Beyond)

OffsetAtMaximum(mesh) == MaximumIndex(mesh.indecies)      \* one vertex is shared
OffsetAfterMaximum(mesh) == MaximumIndex(mesh.indecies) + 1
AppendOffset(mesh) == OffsetAfterMaximum(mesh)

(* meshDesc_t::Append: the buffers in front of one that does not fit have  *)
(* got their vertices, then, and the indices stay.  An empty description   *)
(* has no indices to be copied from: nothing here appends one to another   *)
(* (meshDesc.cpp:35).                                                      *)
AppendMesh(to, from) ==
  LET fits(b) == \A a \in 1 .. b : to.dims[a] = from.dims[a]
      longer == [b \in DOMAIN to.buffers |-> IF fits(b) THEN to.buffers[b] \o from.buffers[b] ELSE to.buffers[b]]
      joined == [to EXCEPT !.buffers = longer]
  IN
  IF to.buffers = <<>> THEN from
  ELSE IF to.mode # from.mode \/ Len(to.buffers) # Len(from.buffers) THEN to
  ELSE IF ~fits(Len(to.buffers)) THEN joined
  ELSE IF to.kind = "made"
       THEN [joined EXCEPT !.indecies = AppendIndecies(to.indecies, from.indecies, AppendOffset(to))]
       ELSE [joined EXCEPT !.indecies = AppendToLoaded(to.indecies, from.indecies)]

(* AddSymbol: one line for each stroke, appended to what the symbol has.   *)
AddSymbol(tag, strokes) ==
  LET Stroke(sofar, points) == IF IsGoodMesh(sofar) THEN AppendMesh(sofar, DefineLine(tag, points))
                               ELSE DefineLine(tag, points)
  IN FoldLeft(Stroke, meshDesc_t, strokes)

-----------------------------------------------------------------------------
(* Files: a header, an array for each buffer, and one for the indices.     *)
meshDescArrayHeader_t(magic, dim, data) == [magic |-> magic, dim |-> dim, data |-> data]
SaveMesh(mesh) ==
  [header |-> <<"bdms", 1, mesh.mode>>,
   arrays |-> [b \in DOMAIN mesh.buffers |-> meshDescArrayHeader_t("bdar", mesh.dims[b], mesh.buffers[b])]
              \o <<meshDescArrayHeader_t("bder", 1, mesh.indecies)>>]

LoadArray(sofar, array) ==
  IF array.magic = "bdar"
  THEN [sofar EXCEPT !.buffers = Append(@, array.data), !.dims = Append(@, array.dim)]
  ELSE [sofar EXCEPT !.indecies = array.data]
LoadMesh(file) ==
  IF file.header[1] # "bdms" \/ file.header[2] # 1 THEN meshDesc_t
  ELSE FoldLeft(LoadArray, [meshDesc_t EXCEPT !.mode = file.header[3], !.kind = "loaded"], file.arrays)

VARIABLES
  mesh,   \* the description being put together
  shapes  \* the number of shapes so far

meshesVars == <<mesh, shapes>>

MeshesInit == mesh = meshDesc_t /\ shapes = 0

ShapesOf(tag) ==
  {DefineLine(tag, 2), DefinePoints(tag, 2), DefineCircle(tag, 3), AddSymbol(tag, <<2, 3>>),
   WithLife(DefineLine(tag, 2)), LoadMesh(SaveMesh(DefineLine(tag, 2)))}

MeshesNext ==
  /\ shapes < ShapeBound
  /\ \E shape \in ShapesOf(shapes + 1) : mesh' = AppendMesh(mesh, shape)
  /\ shapes' = shapes + 1

MeshesSpec == MeshesInit /\ [][MeshesNext]_meshesVars

-----------------------------------------------------------------------------
(* Every index is one of a vertex in every buffer, and what lies between   *)
(* two breaks is drawn with the vertices of one shape: also when a mesh    *)
(* gets too big, or two of different kinds are put together, and when what *)
(* is appended came from a file.  A mesh that itself came from a file does *)
(* not bear to be appended to.  A file keeps all there is                  *)
(* (meshDesc.cpp:23-263, indexBuffer.hpp:157-239, indexBuffer.cpp:189-269).*)
MeshIsDrawable ==
  LET ix == mesh.indecies
      file == SaveMesh(mesh)
  IN
  /\ mesh.kind = "made" =>
       /\ \A i \in DOMAIN ix : ix[i] # BreakIndex => \A b \in DOMAIN mesh.buffers : ix[i] < Len(mesh.buffers[b])
       /\ \A i \in 2 .. Len(ix) : BreakIndex \notin {ix[i - 1], ix[i]} =>
            \A b \in DOMAIN mesh.buffers : mesh.buffers[b][ix[i - 1] + 1] = mesh.buffers[b][ix[i] + 1]
  /\ LoadMesh(file) = [mesh EXCEPT !.kind = "loaded"]
=============================================================================
