-------------------------- MODULE MCLeaseRenewing --------------------------
(* Small instances of LeaseRenewing for TLC. *)
EXTENDS LeaseRenewing

CONSTANTS r1, r2, mid, low, leaf, c1, c2

(* Two roots that share a child; one of them also has a grandchild of the  *)
(* other as its child.                                                     *)
SharedChildren ==
    [o \in Objects |-> CASE o = r1 -> {mid}
                         [] o = r2 -> {mid, leaf}
                         [] o = mid -> {leaf}
                         [] OTHER -> {}]
SharedHeight ==
    [o \in Objects |-> CASE o \in {r1, r2} -> 2 [] o = mid -> 1 [] OTHER -> 0]
UnitSize == [o \in Objects |-> 1]
SharedParentsSize ==
    [o \in Objects |-> CASE o \in {r1, r2} -> 1 [] OTHER -> 0]

(* A graph of small objects, and a larger object of lower height that does *)
(* not fit in the limit next to the root of the graph.                     *)
UnequalChildren ==
    [o \in Objects |-> CASE o = r1 -> {mid}
                         [] o = mid -> {low}
                         [] o \in {low, r2} -> {leaf}
                         [] OTHER -> {}]
UnequalHeight ==
    [o \in Objects |-> CASE o = r1 -> 3 [] o = mid -> 2 [] o = leaf -> 0 [] OTHER -> 1]
UnequalSize == [o \in Objects |-> IF o = r2 THEN 3 ELSE 1]
UnequalParentsSize ==
    [o \in Objects |-> CASE o = r1 -> 2 [] o = mid -> 1 [] OTHER -> 0]
=============================================================================
