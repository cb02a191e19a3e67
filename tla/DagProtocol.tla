---------------------------- MODULE DagProtocol ----------------------------
(***************************************************************************)
(* The bidirectional stream of UploadDags(), of which both directions are  *)
(* delivered in order (pkg/proto/storage/dag/dag.proto).  References are   *)
(* not sent back: both sides number the ones in InitiateDag and            *)
(* ProvideObjectContents messages in the order in which they are sent, and *)
(* talk about objects by these reference indices.                          *)
(***************************************************************************)
EXTENDS ObjectLimit, SequencesExt

CONSTANT OutgoingReferences            \* of the contents of objects, in order

ASSUME OutgoingReferencesAssumption ==
    \A o \in Objects :
        /\ OutgoingReferences[o] \in Seq(Objects)
        /\ ToSet(OutgoingReferences[o]) = Children[o]
        /\ Len(OutgoingReferences[o]) = Cardinality(Children[o])

VARIABLES
    requests,              \* messages from the client
    responses              \* messages from the server

channel == <<requests, responses>>

InitiateDag(o, tagged) == [type |-> "InitiateDag", reference |-> o, tagged |-> tagged]
ProvideObjectContents(i, empty) ==
    [type |-> "ProvideObjectContents", index |-> i, empty |-> empty]
CloseSend == [type |-> "CloseSend"]

RequestObjectContents(i) == [type |-> "RequestObjectContents", index |-> i]
FinalizeObject(i, additional, success) ==
    [type |-> "FinalizeObject", index |-> i, additional |-> additional, success |-> success]
FinalizeTag(i, success) == [type |-> "FinalizeTag", index |-> i, success |-> success]
FinalizeTags == [type : {"FinalizeTag"}, index : Nat, success : BOOLEAN]
Hangup == [type |-> "Hangup"]          \* the call returned without an error
HangupError == [type |-> "HangupError"]
ResponseTypes == {"RequestObjectContents", "FinalizeObject", "FinalizeTag", "Hangup",
                  "HangupError"}

(* Maps to which an entry, or those of another map, are added. *)
With(map, key, value) ==
    [k \in DOMAIN map \cup {key} |-> IF k = key THEN value ELSE map[k]]
WithAll(map, added) ==
    [k \in DOMAIN map \cup DOMAIN added |-> IF k \in DOMAIN added THEN added[k] ELSE map[k]]

(* The reference indices of the children of an object that is provided     *)
(* when n is the next reference index.                                     *)
ChildIndices(o, n) ==
    [c \in Children[o] |->
        n - 1 + CHOOSE i \in DOMAIN OutgoingReferences[o] : OutgoingReferences[o][i] = c]
=============================================================================
