---------------------------- MODULE MCLocalStorage ----------------------------
(* Instances of LocalStorage for TLC: one or two cameras over segments of two
   time units.  Nothing tells the cameras apart, and the sums over them do not
   depend on an order. *)
EXTENDS LocalStorage

SourceSymmetry == Permutations(Sources)
===============================================================================
