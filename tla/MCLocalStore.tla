---------------------------- MODULE MCLocalStore ----------------------------
(* Small instances of LocalStore for TLC. *)
EXTENDS LocalStore, TLC

CONSTANTS a, b, t1, t2

UnitSizes == [o \in Objects |-> 1]
(* Objects of different sizes, which share sectors. *)
SmallSizes == [o \in Objects |-> IF o = a THEN 1 ELSE 2]
Symmetry == Permutations({a, b}) \cup Permutations({t1, t2})
=============================================================================
