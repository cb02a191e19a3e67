--------------------------- MODULE UploadPromise ---------------------------
(***************************************************************************)
(* What UploadDAG() and UploadTaggedDAG() promise (pkg/storage/dag/        *)
(* uploader.go), without reference indices, messages, limits or leases:    *)
(* objects are written after everything below them, the tag is written     *)
(* after the whole DAG, and the call ends, successfully only if all that   *)
(* has happened.                                                           *)
(***************************************************************************)
CONSTANTS Objects, Children, Reachable

VARIABLES root, wantTag, stored, tagged, result

arguments == <<root, wantTag>>
vars == <<arguments, stored, tagged, result>>

Init ==
    /\ stored \in SUBSET Objects /\ tagged = {}
    /\ root \in Objects /\ wantTag \in BOOLEAN
    /\ result = "running"

Store(o) ==
    /\ result = "running"
    /\ \A c \in Children[o] : Reachable[c] \subseteq stored
    /\ stored' = stored \cup {o}
    /\ UNCHANGED <<arguments, tagged, result>>

WriteTag ==
    /\ result = "running" /\ wantTag
    /\ Reachable[root] \subseteq stored
    /\ tagged' = tagged \cup {root}
    /\ UNCHANGED <<arguments, stored, result>>

Succeed ==
    /\ result = "running"
    /\ Reachable[root] \subseteq stored
    /\ wantTag => root \in tagged
    /\ result' = "ok"
    /\ UNCHANGED <<arguments, stored, tagged>>

Fail ==
    /\ result = "running"
    /\ result' = "error"
    /\ UNCHANGED <<arguments, stored, tagged>>

Next == (\E o \in Objects : Store(o)) \/ WriteTag \/ Succeed \/ Fail

Spec == Init /\ [][Next]_vars /\ WF_vars(Succeed \/ Fail)
=============================================================================
