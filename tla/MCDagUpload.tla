---------------------------- MODULE MCDagUpload ----------------------------
(* Small instances of DagUpload for TLC. *)
EXTENDS DagUpload

CONSTANTS top, left, right, leaf, tall

(* A graph in which left is shared by two parents and leaf by three, and   *)
(* an object that is said to be higher than the limit allows.              *)
SharedReferences ==
    [o \in Objects |-> CASE o = top -> <<left, right, leaf>>
                         [] o = right -> <<leaf, left>>
                         [] o = left -> <<leaf>>
                         [] o = tall -> <<top>>
                         [] OTHER -> <<>>]
SharedChildren == [o \in Objects |-> ToSet(SharedReferences[o])]
SharedHeight ==
    [o \in Objects |-> CASE o = tall -> 5 [] o = top -> 3 [] o = right -> 2
                         [] o = left -> 1 [] OTHER -> 0]
UnitSize == [o \in Objects |-> 1]
SharedParentsSize == [o \in Objects |-> CASE o = tall -> 4 [] o = top -> 2 [] o = right -> 1
                                            [] OTHER -> 0]
=============================================================================
