---------------------------- MODULE ObjectLimit ----------------------------
(***************************************************************************)
(* References of objects, and object.Limit (pkg/storage/object/limit.go):  *)
(* the number and the total size of the parents that a traversal of a      *)
(* graph of objects keeps around.  Before an object is traversed, as much  *)
(* is acquired as any path below it may need.                              *)
(***************************************************************************)
EXTENDS Integers, Sequences, FiniteSets

CONSTANTS
    Objects,
    Children,                          \* outgoing references
    Height,
    Size,                              \* GetSizeBytes()
    MaximumTotalParentsSizeBytes,      \* excluding the object itself
    MaximumCount, MaximumSizeBytes     \* maximumUnfinalizedParentsLimit

ASSUME ReferencesAssumption ==
    /\ Children \in [Objects -> SUBSET Objects]
    /\ Height \in [Objects -> Nat] /\ Size \in [Objects -> Nat]
    /\ MaximumTotalParentsSizeBytes \in [Objects -> Nat]
    /\ \A o \in Objects :
          /\ Height[o] = 0 <=> Children[o] = {}
          /\ Height[o] = 0 => MaximumTotalParentsSizeBytes[o] = 0
          /\ \A c \in Children[o] : Height[c] < Height[o]
ASSUME MaximumAssumption == MaximumCount \in Nat /\ MaximumSizeBytes \in Nat

Maximum == [count |-> MaximumCount, sizeBytes |-> MaximumSizeBytes]

Reachable[o \in Objects] == {o} \cup UNION {Reachable[c] : c \in Children[o]}

ParentAndChildren(o) ==
    [count |-> Height[o],
     sizeBytes |-> MaximumTotalParentsSizeBytes[o]
                     + IF Height[o] > 0 THEN Size[o] ELSE 0]

CanAcquireParentAndChildren(limit, o) ==
    /\ limit.count >= ParentAndChildren(o).count
    /\ limit.sizeBytes >= ParentAndChildren(o).sizeBytes

AcquireParentAndChildren(limit, o) ==
    [count |-> limit.count - ParentAndChildren(o).count,
     sizeBytes |-> limit.sizeBytes - ParentAndChildren(o).sizeBytes]

ReleaseParent(limit, o) ==
    IF Height[o] = 0 THEN limit
    ELSE [count |-> limit.count + 1, sizeBytes |-> limit.sizeBytes + Size[o]]

(* Mutant: also releases the parent. *)
ReleaseChildrenAndParent(limit, o) ==
    IF Height[o] = 0 THEN limit
    ELSE [count |-> limit.count + Height[o],
          sizeBytes |-> limit.sizeBytes + MaximumTotalParentsSizeBytes[o]]

ReleaseChildren(limit, o) ==
    IF Height[o] = 0 THEN limit
    ELSE [count |-> limit.count + Height[o] - 1,
          sizeBytes |-> limit.sizeBytes + MaximumTotalParentsSizeBytes[o]]

(* LocalReference.CompareByHeight, without its tie breaker. *)
Before(o, p) ==
    \/ Height[o] < Height[p]
    \/ /\ Height[o] = Height[p]
       /\ ParentAndChildren(o).sizeBytes < ParentAndChildren(p).sizeBytes

(* What is acquired for a parent, without its children. *)
ParentOnly(o) ==
    [count |-> IF Height[o] > 0 THEN 1 ELSE 0,
     sizeBytes |-> IF Height[o] > 0 THEN Size[o] ELSE 0]
Nothing == [count |-> 0, sizeBytes |-> 0]
=============================================================================
