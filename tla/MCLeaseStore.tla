---------------------------- MODULE MCLeaseStore ----------------------------
(* A small instance of LeaseStore for TLC: an object with two children,    *)
(* of which another caller renews one.                                     *)
EXTENDS LeaseStore

CONSTANTS root, left, right, p1, p2

ForkChildren == [o \in Objects |-> IF o = root THEN {left, right} ELSE {}]
ForkHeight == [o \in Objects |-> IF o = root THEN 1 ELSE 0]
ForkUploads == [p \in Callers |-> IF p = p1 THEN {root, right} ELSE {left}]
=============================================================================
