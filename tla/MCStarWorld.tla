---------------------------- MODULE MCStarWorld -----------------------------
(* Instances of StarWorld for TLC: two by two cells within the border, with *)
(* a ladder and (in Wooded) a tree.  A step costs 2, a diagonal 3, an ork  *)
(* moves every 4, which keeps the code's order of 1000, 1414 and 2000.      *)
EXTENDS StarWorld

MCCells == {1, 2} \X {1, 2}
Open == [c \in MCCells |-> IF c = <<2, 2>> THEN "ladder" ELSE "floor"]
Wooded == [c \in MCCells |-> CASE c = <<1, 2>> -> "ladder" [] c = <<2, 1>> -> "tree" [] OTHER -> "floor"]
MCLayouts == {Open, Wooded}
=============================================================================
