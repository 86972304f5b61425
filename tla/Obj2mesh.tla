------------------------------ MODULE Obj2mesh ------------------------------
(***************************************************************************)
(* obj2mesh: an object file and its materials, line by line, made into a   *)
(* mesh (src/obj2mesh/src/obj2mesh.cpp).  Numbers and names are read as    *)
(* they are; a line that cannot be read ends the program.                  *)
(*                                                                         *)
(* Every corner of a face gets a vertex of its own.  The item of a vertex  *)
(* is the corner's number, so that the buffers can be compared; which      *)
(* position or colour a corner has is not kept beyond the reading.         *)
(***************************************************************************)
EXTENDS Meshes

CONSTANTS ObjLines,     \* the lines a file may have
          MaterialLibs, \* material files by name, each a sequence of lines
          IndexRange,   \* values of uint16_t, 65536 in the code
          ObjBound      \* lines in one file

ASSUME ObjAssumption ==
  /\ IndexRange = BreakIndex + 1      \* the last value is the break
  /\ \A line \in ObjLines : line[1] = "f" => line[2] \in Seq(Nat \X Nat)

VARIABLES
  reader,  \* what main has in its variables
  object,  \* the mesh it ends with
  objPc,   \* reading, ended or failed
  lineNum

objVars == <<reader, object, objPc, lineNum>>

ObjInit ==
  /\ reader = [positions |-> 0, normals |-> 0, mtlLib |-> {}, hasColor |-> FALSE,
               triPos |-> <<>>, triNorm |-> <<>>, triCol |-> <<>>, triInd |-> <<>>, triCurIndex |-> 0]
  /\ object = meshDesc_t /\ objPc = "reading" /\ lineNum = 0

-----------------------------------------------------------------------------
(* LoadMaterials: a colour belongs to the last name.  A mistake leaves the *)
(* library as it was, and then ends the program.                           *)
MaterialsFailed == {"failed"}
LoadMaterials(lines) ==
  FoldLeft(LAMBDA m, line :
             CASE m.lib = MaterialsFailed -> m
               [] line[1] = "newmtl" -> [m EXCEPT !.name = line[2]]
               [] line[1] = "Kd" /\ m.name # "" /\ m.name \notin m.lib -> [m EXCEPT !.lib = @ \cup {m.name}]
               [] line[1] = "other" -> m
               [] OTHER -> [m EXCEPT !.lib = MaterialsFailed],
           [lib |-> {}, name |-> ""], lines).lib

(* A corner is the numbers of a position and a normal, or zero.  Without a *)
(* normal the last position of those read so far cannot be used: the test  *)
(* for it is one too strict.                                               *)
CornerExists(r, corner) ==
  IF corner[2] = 0 THEN corner[1] \in 1 .. r.positions - 1
  ELSE corner[1] \in 1 .. r.positions /\ corner[2] \in 1 .. r.normals

CurrentIndexKept(r) == r.triCurIndex           \* the increment is missing
CurrentIndexNext(r) == (r.triCurIndex + 1) % IndexRange
NextIndex(r) == CurrentIndexNext(r)

AddCorner(r, corner) ==
  LET k == Len(r.triPos) + 1 IN
  [r EXCEPT !.triPos = Append(@, k),
            !.triNorm = IF corner[2] = 0 THEN @ ELSE Append(@, k),
            !.triCol = IF r.hasColor THEN Append(@, k) ELSE @,
            !.triInd = Append(@, r.triCurIndex),
            !.triCurIndex = NextIndex(r)]

(* What main does with a line; "f" has corners, the others one word.       *)
Readable(r, line) ==
  CASE line[1] \in {"v", "vn", "other"} -> TRUE
    [] line[1] = "f" -> \A i \in DOMAIN line[2] : CornerExists(r, line[2][i])
    [] line[1] = "mtllib" -> line[2] \in DOMAIN MaterialLibs /\ LoadMaterials(MaterialLibs[line[2]]) # MaterialsFailed
    [] line[1] = "usemtl" -> line[2] \in r.mtlLib
    [] OTHER -> FALSE

AfterLine(r, line) ==
  CASE line[1] = "v" -> [r EXCEPT !.positions = @ + 1]
    [] line[1] = "vn" -> [r EXCEPT !.normals = @ + 1]
    [] line[1] = "f" -> FoldLeft(AddCorner, r, line[2])
    [] line[1] = "mtllib" -> [r EXCEPT !.mtlLib = LoadMaterials(MaterialLibs[line[2]])]
    [] line[1] = "usemtl" -> [r EXCEPT !.hasColor = TRUE]
    [] OTHER -> r

ReadObjectLine(line) ==
  /\ objPc = "reading" /\ lineNum < ObjBound
  /\ IF Readable(reader, line)
     THEN reader' = AfterLine(reader, line) /\ UNCHANGED objPc
     ELSE objPc' = "failed" /\ UNCHANGED reader
  /\ lineNum' = lineNum + 1
  /\ UNCHANGED object

(* The end of the file: colours and normals make a buffer if there are any.*)
MakeObject ==
  /\ objPc = "reading"
  /\ LET colours == IF reader.triCol = <<>> THEN <<>> ELSE <<reader.triCol>>
         normals == IF reader.triNorm = <<>> THEN <<>> ELSE <<reader.triNorm>>
         made == <<reader.triPos>> \o colours \o normals
     IN
     IF reader.triPos = <<>>
     THEN objPc' = "failed" /\ UNCHANGED object
     ELSE /\ object' = [buffers |-> made, dims |-> Times(Len(made), 3), indecies |-> reader.triInd,
                        mode |-> "triangles", kind |-> "made"]
          /\ objPc' = "ended"
  /\ UNCHANGED <<reader, lineNum>>

ObjNext == (\E line \in ObjLines : ReadObjectLine(line)) \/ MakeObject
ObjSpec == ObjInit /\ [][ObjNext]_objVars

-----------------------------------------------------------------------------
(* Every corner is drawn with its own position, colour and normal, if none *)
(* came before the first material, either all or none had normals, and no  *)
(* index is the one that means a break.  Nothing checks these: otherwise   *)
(* a mesh is written whose buffers differ in length, so that corners are   *)
(* drawn with what belongs to others, or with what is behind the buffer    *)
(* (obj2mesh.cpp:298-372, 523-553, shapes.cpp:20-46).                      *)
ObjectIsWhole ==
  objPc = "ended" =>
    LET corners == Len(reader.triPos)
        Whole(b) == Len(b) \in {0, corners}
    IN
    Whole(reader.triCol) /\ Whole(reader.triNorm) /\ corners <= BreakIndex =>
      /\ Len(object.indecies) = corners
      /\ \A k \in 1 .. corners : /\ object.indecies[k] # BreakIndex
                                 /\ \A b \in DOMAIN object.buffers : object.buffers[b][object.indecies[k] + 1] = k
      /\ LoadMesh(SaveMesh(object)) = [object EXCEPT !.kind = "loaded"]

(* What is put together from shapes, and what comes from an object file.   *)
MeshesAreDrawable == MeshIsDrawable /\ ObjectIsWhole
=============================================================================
