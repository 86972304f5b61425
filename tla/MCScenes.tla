------------------------------ MODULE MCScenes ------------------------------
(* Scenes for TLC: a menu of three lines; the other scenes come first.     *)
EXTENDS Scenes

MCLines == <<"newGame", "authors", "exit">>
=============================================================================
