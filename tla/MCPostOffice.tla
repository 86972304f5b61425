---------------------------- MODULE MCPostOffice ----------------------------
(* PostOffice for TLC: names and workers are interchangeable.              *)
EXTENDS PostOffice, TLC

Symmetry == Permutations(Workers) \cup Permutations(Addresses)
=============================================================================
