---------------------------- MODULE MCDagCancel ----------------------------
(* Two DAGs of two levels of parents each, under a limit for one of them. *)
EXTENDS DagCancel

CONSTANTS r1, r2, mid, leaf

TwoReferences ==
    [o \in Objects |-> CASE o \in {r1, r2} -> <<mid>> [] o = mid -> <<leaf>> [] OTHER -> <<>>]
TwoChildren == [o \in Objects |-> ToSet(TwoReferences[o])]
TwoHeight == [o \in Objects |-> CASE o \in {r1, r2} -> 2 [] o = mid -> 1 [] OTHER -> 0]
UnitSize == [o \in Objects |-> 1]
TwoParentsSize == [o \in Objects |-> IF o \in {r1, r2} THEN 1 ELSE 0]
=============================================================================
