-------------------------- MODULE DagUploadProofs --------------------------
(***************************************************************************)
(* Proofs about DagUpload, for every graph of objects, limit, concurrency  *)
(* and bound on faults.                                                    *)
(***************************************************************************)
EXTENDS DagUpload, ObjectLimitProofs

Holds(t, p) == p \in ToSet(state[t].unfinalizedParents)
Holders(p) == {t \in DOMAIN state : Holds(t, p)}

(* Objects that can be found by their reference have not failed. *)
ReferencesAreLive ==
    \A o \in DOMAIN objectsByReference :
        LET s == objectsByReference[o]
        IN  /\ state[s].reference = o
            /\ ~state[s].sent /\ ~state[s].hasChildFailures
            /\ state[s].stage = "finalized" => state[s].success

(* Objects only know parents that wait, and know each of them once. *)
ParentsWait ==
    \A t \in DOMAIN state :
        /\ IsInjective(state[t].unfinalizedParents)
        /\ \A p \in ToSet(state[t].unfinalizedParents) :
              p \in DOMAIN state /\ state[p].stage = "waiting"

(* The fields that have to do with finalization. *)
Finalization(s) ==
    /\ state[s].finalizing => state[s].stage = "finalized"
    /\ state[s].releasesChildren => state[s].stage = "finalized"
    /\ state[s].stage = "finalized" /\ ~state[s].finalizing =>
          state[s].unfinalizedParents = <<>> /\ state[s].tags = <<>>
    /\ state[s].sent => state[s].stage = "finalized" /\ state[s].finalizing
    /\ state[s].hasChildFailures => state[s].stage \in {"waiting", "finalized"}

FinalizationOK == \A s \in DOMAIN state : Finalization(s)

StackOK ==
    /\ IsInjective(stack)
    /\ \A s \in ToSet(stack) : s \in DOMAIN state /\ state[s].finalizing

QueuesOK ==
    /\ IsInjective(requestedQueue) /\ IsInjective(finalizedQueue)
    /\ \A s \in ToSet(requestedQueue) :
          s \in DOMAIN state /\ state[s].stage = "requestQueued"
    /\ \A s \in ToSet(finalizedQueue) :
          s \in DOMAIN state /\ state[s].stage = "finalized" /\ ~state[s].sent

(* The client initiates one DAG, with its first message. *)
Messages ==
    [type : {"InitiateDag"}, reference : {root}, tagged : {rootTag}]
        \cup [type : {"ProvideObjectContents"}, index : Nat, empty : {FALSE}]
        \cup [type : {"CloseSend"}]

RequestsOK ==
    /\ requests \in Seq(Messages)
    /\ \A i \in DOMAIN requests : requests[i].type = "InitiateDag" =>
          i = 1 /\ nextReferenceIndex = 0

Structure ==
    /\ TypeOK
    /\ ReferencesAreLive
    /\ ParentsWait
    /\ WaitsForLiveChildren
    /\ FinalizationOK
    /\ StackOK
    /\ QueuesOK
    /\ RequestsOK

-----------------------------------------------------------------------------
(* The DAG is counted until its root or its tag is reported as finalized.  *)
RootIsOpen == 0 \in DOMAIN state /\ ~state[0].sent
TagIsHeld == 0 \in DOMAIN state /\ state[0].tags # <<>>
TagIsWritten == tagWrites # {}
TagIsFinalized == finalizedTags # <<>>

TagsOK ==
    /\ 0 \in DOMAIN state => state[0].reference = root
    /\ \A s \in DOMAIN state :
          /\ state[s].unfinalizedDAGsWithoutTagsCount = IF s = 0 /\ ~rootTag THEN 1 ELSE 0
          /\ state[s].tags # <<>> => s = 0 /\ rootTag /\ state[s].tags = <<0>>
    /\ tagWrites \subseteq {<<0, root>>}
    /\ Len(finalizedTags) <= 1
    /\ finalizedTags # <<>> => finalizedTags[1].index = 0
    /\ ~rootTag => ~TagIsWritten /\ ~TagIsFinalized
    /\ nextReferenceIndex = 0 => ~TagIsWritten /\ ~TagIsFinalized
    /\ ~(TagIsHeld /\ TagIsWritten) /\ ~(TagIsHeld /\ TagIsFinalized)
    /\ ~(TagIsWritten /\ TagIsFinalized)

DagCounted ==
    unfinalizedDAGsCount =
        IF \/ ~rootTag /\ RootIsOpen
           \/ rootTag /\ (TagIsHeld \/ TagIsWritten \/ TagIsFinalized)
        THEN 1 ELSE 0

-----------------------------------------------------------------------------
(* What the server has written and reported. *)
ChildrenExist(s) ==
    \A c \in Children[state[s].reference] :
        \/ GraphExists(c)
        \/ \E t \in DOMAIN state : Holds(t, s) /\ state[t].reference = c

TruthOf(s) ==
    /\ state[s].stage = "checked" /\ state[s].result = "complete" =>
          GraphExists(state[s].reference)
    /\ state[s].stage \in {"waiting"} \cup Writing /\ ~state[s].hasChildFailures =>
          ChildrenExist(s)
    /\ state[s].stage = "written" =>
          state[s].result = "error" \/ state[s].reference \in exists
    /\ state[s].stage = "finalized" /\ state[s].success => GraphExists(state[s].reference)

ReportIsTrue(m) ==
    /\ m.type = "FinalizeObject" /\ m.index = 0 /\ m.success => GraphExists(root)
    /\ m.type = "FinalizeTag" /\ m.index = 0 /\ m.success => root \in tagged

Reports ==
    [type : {"RequestObjectContents"}, index : Nat]
        \cup [type : {"FinalizeObject"}, index : Nat, additional : Nat, success : BOOLEAN]
        \cup FinalizeTags \cup [type : {"Hangup", "HangupError"}]

ResponsesOK == responses \in Seq(Reports)

ObjectsTruth == \A s \in DOMAIN state : TruthOf(s)

ServerTruth ==
    /\ ObjectsTruth
    /\ tagWrites # {} => GraphExists(root)
    /\ \A i \in DOMAIN finalizedTags : ReportIsTrue(finalizedTags[i])
    /\ \A i \in DOMAIN responses : ReportIsTrue(responses[i])

(* What the client is told of.  The root of the DAG is no child of what is *)
(* below it, so that the server's reference index of it is zero.           *)
BelowRoot(o) == o # root => Height[o] < Height[root]

ClientTruth ==
    /\ \A o \in DOMAIN unfinalized : BelowRoot(o)
    /\ \A r \in requested : BelowRoot(r[2])
    /\ \A i \in DOMAIN providers : BelowRoot(providers[i].reference)
    /\ root \in DOMAIN unfinalized =>
          unfinalized[root].lowest = 0 /\ unfinalized[root].additional = <<>>
    /\ clientStatus = "objects" => root \in DOMAIN unfinalized \/ GraphExists(root)
    /\ clientStatus \in {"tag", "eof"} => GraphExists(root)
    /\ clientStatus = "eof" /\ rootTag => root \in tagged

Truth == ServerTruth /\ ClientTruth

-----------------------------------------------------------------------------
(* Types. *)
LEMMA Fields ==
    ASSUME ServerTypeOK, NEW s \in DOMAIN state
    PROVE  /\ s \in Nat /\ state[s] \in ObjectStates
           /\ state[s].stage \in Stages /\ state[s].reference \in Objects
           /\ state[s].result \in Results
           /\ state[s].unfinalizedParents \in Seq(Nat) /\ state[s].tags \in Seq(Nat)
           /\ state[s].unfinalizedChildrenCount \in Nat
           /\ state[s].additional \in Nat
           /\ state[s].unfinalizedDAGsWithoutTagsCount \in Nat
           /\ state[s].hasChildFailures \in BOOLEAN
           /\ state[s].leases \in SUBSET Objects
           /\ state[s].lease \in BOOLEAN /\ state[s].success \in BOOLEAN
           /\ state[s].sent \in BOOLEAN /\ state[s].finalizing \in BOOLEAN
           /\ state[s].waitsFor \in SUBSET Nat /\ state[s].releasesChildren \in BOOLEAN
<1>1. state[s] \in ObjectStates
  BY DEF ServerTypeOK
<1>2. s \in Nat
  BY DEF ServerTypeOK
<1> QED BY <1>1, <1>2 DEF ObjectStates

LEMMA StatesFinite ==
    ASSUME ServerTypeOK
    PROVE  IsFiniteSet(DOMAIN state)
<1>1. IsFiniteSet(0 .. nextReferenceIndex - 1)
  <2>1. nextReferenceIndex - 1 \in Int
    BY DEF ServerTypeOK
  <2> QED BY <2>1, FS_Interval
<1> QED BY <1>1, FS_Subset DEF ServerTypeOK

LEMMA StatesFiniteNext ==
    ASSUME ServerTypeOK'
    PROVE  IsFiniteSet(DOMAIN state')
<1>1. IsFiniteSet(0 .. nextReferenceIndex' - 1)
  <2>1. nextReferenceIndex' - 1 \in Int
    BY DEF ServerTypeOK
  <2> QED BY <2>1, FS_Interval
<1> QED BY <1>1, FS_Subset DEF ServerTypeOK

LEMMA NewStateType ==
    ASSUME NEW o \in Objects, NEW parents \in Seq(Nat)
    PROVE  NewState(o, parents) \in ObjectStates
<1>1. <<>> \in Seq(Nat)
  BY EmptySeq
<1> QED BY <1>1 DEF NewState, ObjectStates, Stages, Checking, Results

(* Some fields of one object change. *)
LEMMA ReplacedType ==
    ASSUME ServerTypeOK, NEW s \in DOMAIN state, NEW r \in ObjectStates,
           state' = [state EXCEPT ![s] = r]
    PROVE  /\ DOMAIN state' = DOMAIN state
           /\ state' \in [DOMAIN state -> ObjectStates]
           /\ state'[s] = r
           /\ \A t \in DOMAIN state : t # s => state'[t] = state[t]
  BY DEF ServerTypeOK

-----------------------------------------------------------------------------
(* What the steps of the server do to the fields of objectStates. *)
Early == Stages \ {"waiting", "finalized"}

SameRelations(t) ==
    /\ state'[t].reference = state[t].reference
    /\ state'[t].unfinalizedParents = state[t].unfinalizedParents
    /\ state'[t].tags = state[t].tags
    /\ state'[t].unfinalizedDAGsWithoutTagsCount = state[t].unfinalizedDAGsWithoutTagsCount
    /\ state'[t].unfinalizedChildrenCount = state[t].unfinalizedChildrenCount
    /\ state'[t].hasChildFailures = state[t].hasChildFailures
    /\ state'[t].success = state[t].success
    /\ state'[t].sent = state[t].sent
    /\ state'[t].finalizing = state[t].finalizing
    /\ state'[t].releasesChildren = state[t].releasesChildren

Spared(t) ==
    /\ SameRelations(t)
    /\ state'[t].stage = state[t].stage
    /\ state'[t].result = state[t].result

(* The goroutine of an object goes on. *)
Advances(s) ==
    /\ DOMAIN state' = DOMAIN state /\ s \in DOMAIN state
    /\ \A t \in DOMAIN state : t # s => Spared(t)
    /\ SameRelations(s)
    /\ state[s].stage \in Early /\ state'[s].stage \in Early
    /\ UNCHANGED <<objectsByReference, stack>>

LEMMA AdvancesTo ==
    ASSUME ServerTypeOK, NEW s \in DOMAIN state, NEW stage \in Early, NEW result \in Results,
           state[s].stage \in Early, UNCHANGED <<objectsByReference, stack>>,
           \/ /\ state' = [state EXCEPT ![s].stage = stage]
              /\ result = state[s].result
           \/ state' = [state EXCEPT ![s].stage = stage, ![s].result = result]
    PROVE  /\ Advances(s) /\ state' \in [DOMAIN state' -> ObjectStates]
           /\ state'[s].stage = stage /\ state'[s].result = result
<1> DEFINE r == [state[s] EXCEPT !.stage = stage, !.result = result]
<1>1. state[s] \in ObjectStates
  BY Fields
<1>2. state' = [state EXCEPT ![s] = r]
  <2>1. result = state[s].result => [state[s] EXCEPT !.stage = stage] = r
    BY <1>1 DEF ObjectStates
  <2>2. CASE state' = [state EXCEPT ![s].stage = stage] /\ result = state[s].result
    <3>1. state' = [state EXCEPT ![s] = [state[s] EXCEPT !.stage = stage]]
      BY <2>2
    <3> QED BY <2>1, <2>2, <3>1
  <2>3. CASE state' = [state EXCEPT ![s].stage = stage, ![s].result = result]
    <3>1. state' = [state EXCEPT ![s] = r]
      BY <2>3 DEF ServerTypeOK
    <3> QED BY <3>1
  <2> QED BY <2>2, <2>3
<1>3. /\ r \in ObjectStates
      /\ r.stage = stage /\ r.result = result
      /\ r.reference = state[s].reference
      /\ r.unfinalizedParents = state[s].unfinalizedParents
      /\ r.tags = state[s].tags
      /\ r.unfinalizedDAGsWithoutTagsCount = state[s].unfinalizedDAGsWithoutTagsCount
      /\ r.unfinalizedChildrenCount = state[s].unfinalizedChildrenCount
      /\ r.hasChildFailures = state[s].hasChildFailures
      /\ r.success = state[s].success
      /\ r.sent = state[s].sent
      /\ r.finalizing = state[s].finalizing
      /\ r.releasesChildren = state[s].releasesChildren
  BY <1>1 DEF ObjectStates, Early
<1> HIDE DEF r
<1>4. /\ DOMAIN state' = DOMAIN state
      /\ state' \in [DOMAIN state -> ObjectStates]
      /\ state'[s] = r
      /\ \A t \in DOMAIN state : t # s => state'[t] = state[t]
  BY <1>2, <1>3, ReplacedType
<1> QED BY <1>3, <1>4 DEF Advances, SameRelations, Spared

LEMMA GetPendingObjectAdvances ==
    ASSUME ServerTypeOK, NEW s \in DOMAIN state, GetPendingObject(s)
    PROVE  /\ Advances(s) /\ state' \in [DOMAIN state' -> ObjectStates]
           /\ state'[s].stage = "popped"
<1>1. state[s].stage \in Early /\ "popped" \in Early
  BY DEF GetPendingObject, Early, Stages, Checking
<1> QED BY <1>1, AdvancesTo, Fields DEF GetPendingObject

LEMMA StartCheckAdvances ==
    ASSUME ServerTypeOK, NEW s \in DOMAIN state, StartCheck(s)
    PROVE  /\ Advances(s) /\ state' \in [DOMAIN state' -> ObjectStates]
           /\ state'[s].stage = "check"
<1>1. state[s].stage \in Early /\ "check" \in Early
  BY DEF StartCheck, Early, Stages, Checking
<1> QED BY <1>1, AdvancesTo, Fields DEF StartCheck

LEMMA CheckObjectAdvances ==
    ASSUME ServerTypeOK, NEW s \in DOMAIN state, CheckObject(s)
    PROVE  /\ Advances(s) /\ state' \in [DOMAIN state' -> ObjectStates]
           /\ state'[s].stage = "checked"
           /\ state'[s].result = "complete" => GraphExists(state[s].reference)
<1> DEFINE result == IF GraphExists(state[s].reference) THEN "complete" ELSE "none"
<1>1. state[s].stage \in Early /\ "checked" \in Early /\ result \in Results
  BY DEF CheckObject, Early, Stages, Checking, Results
<1>2. /\ state' = [state EXCEPT ![s].stage = "checked", ![s].result = result]
      /\ UNCHANGED <<objectsByReference, stack>>
  BY DEF CheckObject
<1>3. result = "complete" => GraphExists(state[s].reference)
  OBVIOUS
<1> HIDE DEF result
<1> QED BY <1>1, <1>2, <1>3, AdvancesTo

LEMMA StorageFailsAdvances ==
    ASSUME ServerTypeOK, NEW s \in DOMAIN state, StorageFails(s)
    PROVE  /\ Advances(s) /\ state' \in [DOMAIN state' -> ObjectStates]
           /\ state'[s].stage = IF state[s].stage = "check" THEN "checked" ELSE "written"
           /\ state'[s].result = "error"
<1> DEFINE stage == IF state[s].stage = "check" THEN "checked" ELSE "written"
<1>1. state[s].stage \in Early /\ stage \in Early /\ "error" \in Results
  BY DEF StorageFails, Early, Stages, Checking, Writing, Results
<1>2. /\ state' = [state EXCEPT ![s].stage = stage, ![s].result = "error"]
      /\ UNCHANGED <<objectsByReference, stack>>
  BY DEF StorageFails
<1> HIDE DEF stage
<1>3. /\ Advances(s) /\ state' \in [DOMAIN state' -> ObjectStates]
      /\ state'[s].stage = stage /\ state'[s].result = "error"
  BY <1>1, <1>2, AdvancesTo
<1> QED BY <1>3 DEF stage

LEMMA QueueRequestAdvances ==
    ASSUME ServerTypeOK, NEW s \in DOMAIN state, QueueRequestObjectContents(s)
    PROVE  /\ Advances(s) /\ state' \in [DOMAIN state' -> ObjectStates]
           /\ state'[s].stage = "requestQueued"
<1>1. state[s].stage \in Early /\ "requestQueued" \in Early
  BY DEF QueueRequestObjectContents, Early, Stages, Checking
<1> QED BY <1>1, AdvancesTo, Fields DEF QueueRequestObjectContents

LEMMA PutObjectAdvances ==
    ASSUME ServerTypeOK, NEW s \in DOMAIN state, PutObject(s)
    PROVE  /\ Advances(s) /\ state' \in [DOMAIN state' -> ObjectStates]
           /\ state'[s].stage = "written"
           /\ exists' = exists \cup {state[s].reference}
<1>1. PICK result \in {"complete", "incomplete"} :
          state' = [state EXCEPT ![s].stage = "written", ![s].result = result]
  BY DEF PutObject
<1>2. state[s].stage \in Early /\ "written" \in Early /\ result \in Results
  BY DEF PutObject, Early, Stages, Writing, Checking, Results
<1>3. UNCHANGED <<objectsByReference, stack>> /\ exists' = exists \cup {state[s].reference}
  BY DEF PutObject
<1> QED BY <1>1, <1>2, <1>3, AdvancesTo

LEMMA StartPutAdvances ==
    ASSUME ServerTypeOK, NEW s \in DOMAIN state, StartPut(s)
    PROVE  /\ Advances(s) /\ state' \in [DOMAIN state' -> ObjectStates]
           /\ state'[s].stage = "put"
<1>1. state[s].stage \in Early /\ "put" \in Early
  BY DEF StartPut, Early, Stages, Checking, Writing
<1>2. /\ state' = [t \in DOMAIN state |->
            IF t = s THEN [state[t] EXCEPT !.stage = "put"]
            ELSE [state[t] EXCEPT !.waitsFor = @ \ {s}]]
      /\ UNCHANGED <<objectsByReference, stack>>
  BY DEF StartPut
<1>3. ASSUME NEW t \in DOMAIN state
      PROVE  /\ state'[t] \in ObjectStates /\ SameRelations(t)
             /\ t # s => Spared(t)
             /\ t = s => state'[t].stage = "put"
  <2>1. state[t] \in ObjectStates
    BY Fields
  <2>2. CASE t = s
    <3>1. state'[t] = [state[t] EXCEPT !.stage = "put"]
      BY <1>2, <2>2
    <3> QED BY <1>1, <2>1, <2>2, <3>1 DEF ObjectStates, Spared, SameRelations, Early
  <2>3. CASE t # s
    <3>1. state'[t] = [state[t] EXCEPT !.waitsFor = @ \ {s}]
      BY <1>2, <2>3
    <3> QED BY <2>1, <2>3, <3>1 DEF ObjectStates, Spared, SameRelations
  <2> QED BY <2>2, <2>3
<1>4. DOMAIN state' = DOMAIN state /\ state' = [t \in DOMAIN state |-> state'[t]]
  BY <1>2
<1>5. state' \in [DOMAIN state' -> ObjectStates]
  BY <1>3, <1>4
<1> QED BY <1>1, <1>2, <1>3, <1>4, <1>5 DEF Advances

LEMMA SendRequestAdvances ==
    ASSUME Structure, SendRequestObjectContents
    PROVE  LET s == Head(requestedQueue)
           IN  /\ s \in DOMAIN state /\ state[s].stage = "requestQueued"
               /\ s \in ToSet(requestedQueue)
               /\ Advances(s) /\ state' \in [DOMAIN state' -> ObjectStates]
               /\ state'[s].stage = "requested"
<1> DEFINE s == Head(requestedQueue)
<1>1. s \in ToSet(requestedQueue)
  BY ToSetTail DEF SendRequestObjectContents, Structure, QueuesOK, TypeOK, ServerTypeOK
<1>2. s \in DOMAIN state /\ state[s].stage = "requestQueued"
  BY <1>1 DEF Structure, QueuesOK
<1>3. /\ state' = [state EXCEPT ![s].stage = "requested"]
      /\ UNCHANGED <<objectsByReference, stack>>
  BY DEF SendRequestObjectContents, Send
<1>4. ServerTypeOK
  BY DEF Structure, TypeOK
<1>5. state[s].stage \in Early /\ "requested" \in Early /\ state[s].result \in Results
  BY <1>2, <1>4, Fields DEF Early, Stages
<1> HIDE DEF s
<1>6. /\ Advances(s) /\ state' \in [DOMAIN state' -> ObjectStates]
      /\ state'[s].stage = "requested"
  BY <1>2, <1>3, <1>4, <1>5, AdvancesTo
<1> QED BY <1>1, <1>2, <1>6 DEF s
-----------------------------------------------------------------------------
(* Structure, without what an action says about its own queue. *)
Relations ==
    /\ ReferencesAreLive
    /\ ParentsWait
    /\ WaitsForLiveChildren
    /\ FinalizationOK
    /\ StackOK

LEMMA WaitsForHolders ==
    WaitsForLiveChildren <=>
        \A s \in DOMAIN state : state[s].stage = "waiting" =>
            /\ state[s].unfinalizedChildrenCount > 0
            /\ state[s].unfinalizedChildrenCount = Cardinality(Holders(s))
  BY DEF WaitsForLiveChildren, Holders, Holds

LEMMA WaitsForHoldersNext ==
    WaitsForLiveChildren' <=>
        \A s \in DOMAIN state' : state'[s].stage = "waiting" =>
            /\ state'[s].unfinalizedChildrenCount > 0
            /\ state'[s].unfinalizedChildrenCount = Cardinality(Holders(s)')
  BY DEF WaitsForLiveChildren, Holders, Holds

LEMMA AdvanceRelations ==
    ASSUME ServerTypeOK, Relations, NEW s, Advances(s)
    PROVE  Relations'
<1> USE DEF Advances
<1>1. ASSUME NEW t \in DOMAIN state
      PROVE  /\ SameRelations(t)
             /\ state'[t].stage = "waiting" <=> state[t].stage = "waiting"
             /\ state'[t].stage = "finalized" <=> state[t].stage = "finalized"
  BY DEF Spared, Early
<1>2. ASSUME NEW o \in DOMAIN objectsByReference
      PROVE  objectsByReference[o] \in DOMAIN state
  BY DEF ServerTypeOK
<1>3. ReferencesAreLive'
  BY <1>1, <1>2 DEF ReferencesAreLive, Relations, SameRelations
<1>4. ParentsWait'
  BY <1>1 DEF ParentsWait, Relations, SameRelations
<1>5. \A p : Holders(p)' = Holders(p)
  BY <1>1 DEF Holders, Holds, SameRelations
<1>6. WaitsForLiveChildren'
  BY <1>1, <1>5, WaitsForHolders, WaitsForHoldersNext DEF Relations, SameRelations
<1>7. FinalizationOK'
  BY <1>1 DEF FinalizationOK, Finalization, Relations, SameRelations
<1>8. StackOK'
  BY <1>1 DEF StackOK, Relations, SameRelations
<1> QED BY <1>3, <1>4, <1>6, <1>7, <1>8 DEF Relations

LEMMA SameRelationsOfAll ==
    ASSUME Relations, UNCHANGED <<state, objectsByReference, stack>>
    PROVE  Relations'
  BY DEF Relations, ReferencesAreLive, ParentsWait, WaitsForLiveChildren, FinalizationOK,
         Finalization, StackOK
-----------------------------------------------------------------------------
LEMMA Received ==
    ASSUME RequestsOK, NEW type, Receive(type)
    PROVE  /\ Head(requests) \in Messages /\ Head(requests).type = type
           /\ type = "InitiateDag" => nextReferenceIndex = 0
           /\ requests' = Tail(requests) /\ requests' \in Seq(Messages)
           /\ \A i \in DOMAIN requests' : requests'[i].type # "InitiateDag"
<1>1. requests \in Seq(Messages) /\ requests # <<>> /\ Head(requests).type = type
  BY DEF RequestsOK, Receive
<1>2. /\ Head(requests) = requests[1] /\ Head(requests) \in Messages
      /\ Tail(requests) \in Seq(Messages) /\ Len(requests) \in Nat /\ Len(requests) > 0
      /\ DOMAIN requests = 1 .. Len(requests)
      /\ DOMAIN Tail(requests) = 1 .. (Len(requests) - 1)
      /\ \A i \in 1 .. (Len(requests) - 1) : Tail(requests)[i] = requests[i + 1]
  BY <1>1, HeadTailProperties, LenProperties, EmptySeq
<1>3. 1 \in DOMAIN requests
  BY <1>2
<1>4. requests' = Tail(requests)
  BY DEF Receive
<1>5. ASSUME NEW i \in DOMAIN requests' PROVE requests'[i].type # "InitiateDag"
  <2>1. i + 1 \in DOMAIN requests /\ i + 1 # 1 /\ requests'[i] = requests[i + 1]
    BY <1>2, <1>4
  <2> QED BY <2>1 DEF RequestsOK
<1> QED BY <1>1, <1>2, <1>3, <1>4, <1>5 DEF RequestsOK

(* The only DAG is initiated on a server without objectStates. *)
LEMMA NoStates ==
    ASSUME ServerTypeOK, nextReferenceIndex = 0
    PROVE  DOMAIN state = {} /\ DOMAIN objectsByReference = {}
<1>1. DOMAIN state = {}
  <2>1. DOMAIN state \subseteq 0 .. nextReferenceIndex - 1
    BY DEF ServerTypeOK
  <2>2. 0 .. nextReferenceIndex - 1 = {}
    OBVIOUS
  <2> QED BY <2>1, <2>2
<1>2. ASSUME NEW o \in DOMAIN objectsByReference PROVE objectsByReference[o] \in DOMAIN state
  BY DEF ServerTypeOK
<1> QED BY <1>1, <1>2

Root == WithRoot(NewState(root, <<>>), rootTag)

LEMMA InitiateDagEffect ==
    ASSUME TypeOK, RequestsOK, ReceiveInitiateDag
    PROVE  /\ Receive("InitiateDag") /\ nextReferenceIndex = 0
           /\ DOMAIN state = {} /\ DOMAIN objectsByReference = {}
           /\ \/ /\ Fail
                 /\ UNCHANGED storage
                 /\ ~CanAcquireParentAndChildren(Maximum, root)
                       \/ unfinalizedDAGsCount = MaximumUnfinalizedDAGsCount
              \/ /\ state' = [x \in {0} |-> Root]
                 /\ objectsByReference' = [x \in {root} |-> 0]
                 /\ unfinalizedDAGsCount' = unfinalizedDAGsCount + 1
                 /\ nextReferenceIndex' = 1
                 /\ UNCHANGED <<responses, remaining, queues, stack, threads, storage>>
<1>1. Receive("InitiateDag")
  BY DEF ReceiveInitiateDag
<1>2. /\ Head(requests) \in Messages /\ Head(requests).type = "InitiateDag"
      /\ nextReferenceIndex = 0
  BY <1>1, Received
<1>3. Head(requests).reference = root /\ Head(requests).tagged = rootTag
  BY <1>2 DEF Messages
<1>4. DOMAIN state = {} /\ DOMAIN objectsByReference = {}
  BY <1>2, NoStates DEF TypeOK
<1>5. ~Attached(root)
  BY <1>4 DEF Attached
<1>6. \/ /\ Fail
         /\ ~CanAcquireParentAndChildren(Maximum, root)
               \/ unfinalizedDAGsCount = MaximumUnfinalizedDAGsCount
      \/ /\ state' = With(state, 0, Root)
         /\ objectsByReference' = With(objectsByReference, root, 0)
         /\ unfinalizedDAGsCount' = unfinalizedDAGsCount + 1
         /\ nextReferenceIndex' = 0 + 1
         /\ tagWrites' = IF rootTag /\ NewState(root, <<>>).stage = "finalized"
                         THEN tagWrites \cup {<<nextReferenceIndex, root>>}
                         ELSE tagWrites
         /\ UNCHANGED <<responses, remaining, queues, stack, incomingWaits, status>>
  BY <1>2, <1>3, <1>5 DEF ReceiveInitiateDag, Root
<1>7. /\ With(state, 0, Root) = [x \in {0} |-> Root]
      /\ With(objectsByReference, root, 0) = [x \in {root} |-> 0]
  BY <1>4 DEF With
<1>8. NewState(root, <<>>).stage = "pending"
  BY DEF NewState
<1>9. UNCHANGED storage
  BY DEF ReceiveInitiateDag
<1> QED BY <1>1, <1>2, <1>4, <1>6, <1>7, <1>8, <1>9 DEF threads

LEMMA RootFields ==
    ASSUME ClientTypeOK, nextReferenceIndex = 0
    PROVE  /\ Root \in ObjectStates
           /\ Root.stage = "pending" /\ Root.reference = root /\ Root.result = "none"
           /\ Root.unfinalizedParents = <<>>
           /\ Root.tags = IF rootTag THEN <<0>> ELSE <<>>
           /\ Root.unfinalizedDAGsWithoutTagsCount = IF rootTag THEN 0 ELSE 1
           /\ ~Root.hasChildFailures /\ ~Root.success /\ ~Root.sent
           /\ ~Root.finalizing /\ ~Root.releasesChildren
<1> DEFINE n == NewState(root, <<>>)
<1>1. root \in Objects /\ rootTag \in BOOLEAN
  BY DEF ClientTypeOK
<1>2. n \in ObjectStates
  BY <1>1, NewStateType, EmptySeq
<1>3. /\ n.stage = "pending" /\ n.reference = root /\ n.result = "none"
      /\ n.unfinalizedParents = <<>>
      /\ n.tags = <<>> /\ n.unfinalizedDAGsWithoutTagsCount = 0
      /\ ~n.hasChildFailures /\ ~n.success /\ ~n.sent
      /\ ~n.finalizing /\ ~n.releasesChildren
  BY DEF NewState
<1> HIDE DEF n
<1>4. Root = IF rootTag THEN [n EXCEPT !.tags = Append(@, nextReferenceIndex)]
             ELSE [n EXCEPT !.unfinalizedDAGsWithoutTagsCount = @ + 1]
  BY <1>3 DEF Root, WithRoot, n
<1>5. Append(n.tags, nextReferenceIndex) = <<0>> /\ <<0>> \in Seq(Nat)
  BY <1>3
<1>6. CASE rootTag
  <2>1. Root = [n EXCEPT !.tags = <<0>>]
    BY <1>4, <1>5, <1>6
  <2> QED BY <1>2, <1>3, <1>5, <1>6, <2>1 DEF ObjectStates
<1>7. CASE ~rootTag
  <2>1. Root = [n EXCEPT !.unfinalizedDAGsWithoutTagsCount = 1]
    BY <1>3, <1>4, <1>7
  <2> QED BY <1>2, <1>3, <1>7, <2>1 DEF ObjectStates
<1> QED BY <1>1, <1>6, <1>7
-----------------------------------------------------------------------------
(* Every child is given the next index but for its place in the list. *)
LEMMA ChildIndicesOK ==
    ASSUME NEW o \in Objects, NEW n \in Nat
    PROVE  LET index == ChildIndices(o, n)
           IN  /\ IsFiniteSet(Children[o]) /\ Cardinality(Children[o]) \in Nat
               /\ DOMAIN index = Children[o]
               /\ \A c \in Children[o] :
                     index[c] \in Nat /\ n <= index[c] /\ index[c] < n + Cardinality(Children[o])
               /\ \A c, d \in Children[o] : index[c] = index[d] => c = d
<1> DEFINE q == OutgoingReferences[o]
           place(c) == CHOOSE i \in DOMAIN q : q[i] = c
           index == ChildIndices(o, n)
<1>1. /\ q \in Seq(Objects) /\ ToSet(q) = Children[o] /\ Len(q) = Cardinality(Children[o])
      /\ Len(q) \in Nat /\ DOMAIN q = 1 .. Len(q)
  BY OutgoingReferencesAssumption, LenProperties
<1>2. Children[o] = {q[i] : i \in 1 .. Len(q)}
  BY <1>1 DEF ToSet
<1>3. IsFiniteSet(Children[o])
  <2> DEFINE f == [i \in 1 .. Len(q) |-> q[i]]
  <2>1. IsFiniteSet(1 .. Len(q))
    BY <1>1, FS_Interval
  <2>2. f \in Surjection(1 .. Len(q), Children[o])
    BY <1>2 DEF Surjection
  <2> HIDE DEF f
  <2> QED BY <2>1, <2>2, FS_Surjection
<1>4. ASSUME NEW c \in Children[o]
      PROVE  place(c) \in 1 .. Len(q) /\ q[place(c)] = c
  <2>1. \E i \in DOMAIN q : q[i] = c
    BY <1>1, <1>2
  <2> QED BY <1>1, <2>1
<1>5. index = [c \in Children[o] |-> n - 1 + place(c)]
  BY DEF ChildIndices
<1> HIDE DEF index, place
<1>6. ASSUME NEW c \in Children[o]
      PROVE  /\ index[c] \in Nat /\ n <= index[c] /\ index[c] < n + Len(q)
             /\ index[c] = n - 1 + place(c) /\ place(c) \in Int
  <2>1. index[c] = n - 1 + place(c) /\ place(c) \in 1 .. Len(q)
    BY <1>4, <1>5
  <2> QED BY <1>1, <2>1
<1>7. ASSUME NEW c \in Children[o], NEW d \in Children[o], index[c] = index[d]
      PROVE  c = d
  <2>1. place(c) = place(d)
    BY <1>6, <1>7
  <2> QED BY <1>4, <2>1
<1> QED BY <1>1, <1>3, <1>5, <1>6, <1>7 DEF index

Finished(found, c) == found[c] \in DOMAIN state /\ state[found[c]].stage = "finalized"

(* The objectStates of the children of s are known to be found. *)
FindsChildren(s, found) ==
    LET o == state[s].reference
    IN  /\ s \in DOMAIN state /\ state[s].stage = "requested"
        /\ DOMAIN found = Children[o]
        /\ \A c, d \in Children[o] : found[c] = found[d] => c = d
        /\ \A c \in Children[o] :
              /\ found[c] \in Nat /\ found[c] # s
              /\ found[c] < nextReferenceIndex + Cardinality(Children[o])
              /\ found[c] \in DOMAIN state =>
                    /\ c \in DOMAIN objectsByReference /\ objectsByReference[c] = found[c]
                    /\ state[found[c]].reference = c
              /\ found[c] \notin DOMAIN state =>
                    c \notin DOMAIN objectsByReference /\ nextReferenceIndex <= found[c]

LEMMA FindsOK ==
    ASSUME ServerTypeOK, ReferencesAreLive, NEW s, Requested(s)
    PROVE  LET o == state[s].reference
           IN  /\ FindsChildren(s, GetOrCreateObjectState(ChildIndices(o, nextReferenceIndex)))
               /\ IsFiniteSet(Children[o]) /\ Cardinality(Children[o]) \in Nat
               /\ Children[o] \subseteq Objects
<1> DEFINE o == state[s].reference
           index == ChildIndices(o, nextReferenceIndex)
           found == GetOrCreateObjectState(index)
<1>1. s \in DOMAIN state /\ state[s].stage = "requested"
  BY DEF Requested
<1>2. o \in Objects /\ nextReferenceIndex \in Nat
  BY <1>1, Fields DEF ServerTypeOK
<1> HIDE DEF o
<1>3. /\ IsFiniteSet(Children[o]) /\ Cardinality(Children[o]) \in Nat
      /\ DOMAIN index = Children[o]
      /\ \A c \in Children[o] :
            index[c] \in Nat /\ nextReferenceIndex <= index[c]
               /\ index[c] < nextReferenceIndex + Cardinality(Children[o])
      /\ \A c, d \in Children[o] : index[c] = index[d] => c = d
  BY <1>2, ChildIndicesOK
<1> HIDE DEF index
<1>4. /\ found = [c \in Children[o] |-> IF Attached(c) THEN objectsByReference[c] ELSE index[c]]
      /\ Children[o] \subseteq Objects
      /\ \A c \in Children[o] : c # o
  <2>1. \A c \in Children[o] : Height[c] < Height[o]
    BY <1>2, ReferencesAssumption
  <2>2. Height[o] \in Nat
    BY <1>2, ReferencesAssumption
  <2> QED BY <1>2, <1>3, <2>1, <2>2, ReferencesAssumption DEF GetOrCreateObjectState
<1> HIDE DEF found
<1>5. \A x \in DOMAIN state : x \in Nat /\ x < nextReferenceIndex
  BY DEF ServerTypeOK
<1>6. \A c \in DOMAIN objectsByReference :
          /\ objectsByReference[c] \in DOMAIN state
          /\ state[objectsByReference[c]].reference = c
  BY DEF ServerTypeOK, ReferencesAreLive
<1>7. ASSUME NEW c \in Children[o]
      PROVE  /\ found[c] \in Nat /\ found[c] # s
             /\ found[c] < nextReferenceIndex + Cardinality(Children[o])
             /\ found[c] \in DOMAIN state =>
                   /\ c \in DOMAIN objectsByReference /\ objectsByReference[c] = found[c]
                   /\ state[found[c]].reference = c
             /\ found[c] \notin DOMAIN state =>
                   /\ c \notin DOMAIN objectsByReference /\ nextReferenceIndex <= found[c]
                   /\ found[c] = index[c]
  <2>1. CASE Attached(c)
    <3>1. found[c] = objectsByReference[c] /\ c \in DOMAIN objectsByReference
      BY <1>4, <2>1 DEF Attached
    <3>2. found[c] \in DOMAIN state /\ state[found[c]].reference = c
      BY <1>6, <3>1
    <3>3. found[c] # s
      BY <1>4, <3>2 DEF o
    <3>4. found[c] \in Nat /\ found[c] < nextReferenceIndex
      BY <1>5, <3>2
    <3> QED BY <1>2, <1>3, <3>1, <3>2, <3>3, <3>4
  <2>2. CASE ~Attached(c)
    <3>1. found[c] = index[c] /\ c \notin DOMAIN objectsByReference
      BY <1>4, <2>2 DEF Attached
    <3>2. index[c] \in Nat /\ nextReferenceIndex <= index[c]
          /\ index[c] < nextReferenceIndex + Cardinality(Children[o])
      BY <1>3
    <3>3. index[c] \notin DOMAIN state /\ index[c] # s
      BY <1>1, <1>2, <1>5, <3>2
    <3> QED BY <3>1, <3>2, <3>3
  <2> QED BY <2>1, <2>2
<1>8. ASSUME NEW c \in Children[o], NEW d \in Children[o], found[c] = found[d] PROVE c = d
  <2>1. CASE found[c] \in DOMAIN state
    BY <1>7, <1>8, <2>1
  <2>2. CASE found[c] \notin DOMAIN state
    <3>1. index[c] = index[d]
      BY <1>7, <1>8, <2>2
    <3> QED BY <1>3, <3>1
  <2> QED BY <2>1, <2>2
<1>9. DOMAIN found = Children[o]
  BY <1>4
<1> QED BY <1>1, <1>3, <1>4, <1>7, <1>8, <1>9 DEF FindsChildren, o, index, found
(* Fields that do not change before an object is finalized. *)
SameOwn(t) ==
    /\ state'[t].reference = state[t].reference
    /\ state'[t].tags = state[t].tags
    /\ state'[t].unfinalizedDAGsWithoutTagsCount = state[t].unfinalizedDAGsWithoutTagsCount
    /\ state'[t].hasChildFailures = state[t].hasChildFailures
    /\ state'[t].success = state[t].success
    /\ state'[t].sent = state[t].sent
    /\ state'[t].finalizing = state[t].finalizing
    /\ state'[t].releasesChildren = state[t].releasesChildren

GetsParent(t, s) ==
    /\ SameOwn(t)
    /\ state'[t].stage = state[t].stage /\ state'[t].result = state[t].result
    /\ state'[t].unfinalizedChildrenCount = state[t].unfinalizedChildrenCount
    /\ state'[t].unfinalizedParents =
          IF state[t].stage = "finalized" THEN state[t].unfinalizedParents
          ELSE Append(state[t].unfinalizedParents, s)

Unfinished(s, found) == {c \in Children[state[s].reference] : ~Finished(found, c)}

(* The contents of s are received. *)
Provides(s, found) ==
    LET o == state[s].reference
        n == Cardinality(Unfinished(s, found))
    IN  /\ DOMAIN state' = DOMAIN state \cup {found[c] : c \in Children[o]}
        /\ SameOwn(s)
        /\ state'[s].unfinalizedParents = state[s].unfinalizedParents
        /\ state'[s].result = state[s].result
        /\ state'[s].unfinalizedChildrenCount = n
        /\ state'[s].stage = IF n > 0 THEN "waiting" ELSE "putQueued"
        /\ \A t \in DOMAIN state :
              t # s /\ (\A c \in Children[o] : found[c] # t) => Spared(t)
        /\ \A c \in Children[o] :
              IF found[c] \in DOMAIN state THEN GetsParent(found[c], s)
              ELSE state'[found[c]] = NewState(c, <<s>>)
        /\ DOMAIN objectsByReference' = DOMAIN objectsByReference \cup Children[o]
        /\ \A c \in DOMAIN objectsByReference' :
              objectsByReference'[c] = IF c \in Children[o] THEN found[c]
                                       ELSE objectsByReference[c]

LEMMA ObjectContentsEffect ==
    ASSUME ServerTypeOK, ReferencesAreLive, RequestsOK, ReceiveObjectContents,
           Requested(Head(requests).index)
    PROVE  \E s, found :
              /\ FindsChildren(s, found) /\ Provides(s, found)
              /\ state' \in [DOMAIN state' -> ObjectStates]
              /\ remaining' = ReleaseChildren(remaining, state[s].reference)
              /\ nextReferenceIndex' =
                    nextReferenceIndex + Cardinality(Children[state[s].reference])
              /\ objectsByReference' = WithAll(objectsByReference, found)
              /\ incomingWaits' \in SUBSET {s}
              /\ UNCHANGED <<responses, unfinalizedDAGsCount, queues, stack, tagWrites,
                             status, storage>>
<1> DEFINE s == Head(requests).index
           o == state[s].reference
           index == ChildIndices(o, nextReferenceIndex)
           found == GetOrCreateObjectState(index)
           known == {c \in Children[o] : found[c] \in DOMAIN state}
           done == {c \in known : state[found[c]].stage = "finalized"}
           unfinalized_ == Cardinality(Children[o] \ done)
           children == [t \in {found[c] : c \in Children[o]} |->
                           IF t \in DOMAIN state THEN FoundBy(t, s)
                           ELSE NewState(CHOOSE c \in Children[o] : found[c] = t, <<s>>)]
           provided == [state EXCEPT
                           ![s].stage = IF unfinalized_ > 0 THEN "waiting" ELSE "putQueued",
                           ![s].unfinalizedChildrenCount = unfinalized_,
                           ![s].leases = {c \in done : state[found[c]].lease}]
<1>1. /\ state' = WithAll(provided, children)
      /\ objectsByReference' = WithAll(objectsByReference, found)
      /\ nextReferenceIndex' = nextReferenceIndex + Cardinality(Children[o])
      /\ remaining' = ReleaseChildren(remaining, o)
      /\ incomingWaits' = IF unfinalized_ > 0 THEN {} ELSE {s}
      /\ UNCHANGED <<responses, unfinalizedDAGsCount, queues, stack, tagWrites, status>>
      /\ UNCHANGED storage
  BY DEF ReceiveObjectContents
<1>2. /\ FindsChildren(s, found)
      /\ IsFiniteSet(Children[o]) /\ Cardinality(Children[o]) \in Nat
      /\ Children[o] \subseteq Objects
  BY FindsOK
<1>3. s \in DOMAIN state /\ state[s].stage = "requested"
  BY DEF Requested
<1> HIDE DEF s, index, found
<1>4. Children[o] \ done = Unfinished(s, found)
  BY DEF Unfinished, Finished
<1>5. unfinalized_ = Cardinality(Unfinished(s, found)) /\ unfinalized_ \in Nat
  <2>1. IsFiniteSet(Children[o] \ done)
    BY <1>2, FS_Subset
  <2> QED BY <1>4, <2>1, FS_CardinalityType
<1> DEFINE r == [state[s] EXCEPT !.stage = IF unfinalized_ > 0 THEN "waiting" ELSE "putQueued",
                                 !.unfinalizedChildrenCount = unfinalized_,
                                 !.leases = {c \in done : state[found[c]].lease}]
           stage == IF unfinalized_ > 0 THEN "waiting" ELSE "putQueued"
           leases == {c \in done : state[found[c]].lease}
<1>6. leases \in SUBSET Objects /\ stage \in Stages
  BY <1>2 DEF Stages, Writing
<1>7. state[s] \in ObjectStates
  BY <1>3, Fields
<1>8. provided = [state EXCEPT ![s] = r]
  BY <1>3, <1>7 DEF ServerTypeOK, ObjectStates
<1>9. r = [state[s] EXCEPT !.stage = stage, !.unfinalizedChildrenCount = unfinalized_,
                           !.leases = leases]
  OBVIOUS
<1> HIDE DEF leases, stage, unfinalized_, provided, r, done, known
<1>10. /\ r \in ObjectStates
       /\ r.stage = stage /\ r.unfinalizedChildrenCount = unfinalized_
       /\ r.reference = state[s].reference
       /\ r.unfinalizedParents = state[s].unfinalizedParents
       /\ r.tags = state[s].tags /\ r.result = state[s].result
       /\ r.unfinalizedDAGsWithoutTagsCount = state[s].unfinalizedDAGsWithoutTagsCount
       /\ r.hasChildFailures = state[s].hasChildFailures
       /\ r.success = state[s].success
       /\ r.sent = state[s].sent
       /\ r.finalizing = state[s].finalizing
       /\ r.releasesChildren = state[s].releasesChildren
  BY <1>5, <1>6, <1>7, <1>9 DEF ObjectStates
<1>11. /\ DOMAIN provided = DOMAIN state
       /\ provided[s] = r
       /\ \A t \in DOMAIN state : t # s => provided[t] = state[t]
  BY <1>3, <1>8 DEF ServerTypeOK
<1>12. /\ DOMAIN state' = DOMAIN state \cup {found[c] : c \in Children[o]}
       /\ \A t \in DOMAIN state' :
             state'[t] = IF \E c \in Children[o] : found[c] = t THEN children[t]
                         ELSE provided[t]
       /\ state' = [t \in DOMAIN state' |-> state'[t]]
  <2>1. DOMAIN children = {found[c] : c \in Children[o]}
    OBVIOUS
  <2> HIDE DEF children
  <2>2. state' = [t \in DOMAIN provided \cup DOMAIN children |->
                    IF t \in DOMAIN children THEN children[t] ELSE provided[t]]
    BY <1>1 DEF WithAll
  <2> QED BY <1>11, <2>1, <2>2
<1>13. \A c \in Children[o] : found[c] # s
  BY <1>2 DEF FindsChildren
<1>14. state'[s] = r
  BY <1>3, <1>11, <1>12, <1>13
<1>15. ASSUME NEW c \in Children[o], found[c] \in DOMAIN state
       PROVE  /\ GetsParent(found[c], s)
              /\ state'[found[c]] \in ObjectStates
  <2> DEFINE t == found[c]
             parents == IF state[t].stage = "finalized" THEN state[t].unfinalizedParents
                        ELSE Append(state[t].unfinalizedParents, s)
  <2>1. state[t] \in ObjectStates /\ state[t].additional + 1 \in Nat
        /\ state[t].unfinalizedParents \in Seq(Nat) /\ s \in Nat
    BY <1>3, <1>15, Fields
  <2>2. parents \in Seq(Nat)
    BY <2>1, AppendProperties
  <2>3. state'[t] = FoundBy(t, s)
    BY <1>12, <1>15
  <2>4. FoundBy(t, s) = [state[t] EXCEPT !.additional = state[t].additional + 1,
                                         !.unfinalizedParents = parents]
    BY DEF FoundBy
  <2> HIDE DEF parents, t
  <2>5. /\ GetsParent(t, s) <=>
             /\ SameOwn(t)
             /\ state'[t].stage = state[t].stage /\ state'[t].result = state[t].result
             /\ state'[t].unfinalizedChildrenCount = state[t].unfinalizedChildrenCount
             /\ state'[t].unfinalizedParents = parents
    BY DEF GetsParent, parents
  <2> DEFINE n == state[t].additional + 1
             b == [state[t] EXCEPT !.additional = n, !.unfinalizedParents = parents]
  <2>7. state'[t] = b
    BY <2>3, <2>4
  <2> HIDE DEF n
  <2>8. n \in Nat
    BY <2>1 DEF n
  <2>9. /\ b \in ObjectStates
        /\ b.unfinalizedParents = parents
        /\ b.stage = state[t].stage /\ b.result = state[t].result
        /\ b.unfinalizedChildrenCount = state[t].unfinalizedChildrenCount
        /\ b.reference = state[t].reference
        /\ b.tags = state[t].tags
        /\ b.unfinalizedDAGsWithoutTagsCount = state[t].unfinalizedDAGsWithoutTagsCount
        /\ b.hasChildFailures = state[t].hasChildFailures
        /\ b.success = state[t].success
        /\ b.sent = state[t].sent
        /\ b.finalizing = state[t].finalizing
        /\ b.releasesChildren = state[t].releasesChildren
    BY <2>1, <2>2, <2>8 DEF ObjectStates
  <2> HIDE DEF b
  <2>6. GetsParent(t, s) /\ state'[t] \in ObjectStates
    BY <2>5, <2>7, <2>9 DEF SameOwn
  <2> QED BY <2>6 DEF t
<1>16. ASSUME NEW c \in Children[o], found[c] \notin DOMAIN state
       PROVE  state'[found[c]] = NewState(c, <<s>>) /\ state'[found[c]] \in ObjectStates
  <2>1. (CHOOSE d \in Children[o] : found[d] = found[c]) = c
    BY <1>2 DEF FindsChildren
  <2>2. state'[found[c]] = NewState(c, <<s>>)
    BY <1>12, <1>16, <2>1
  <2>3. <<s>> \in Seq(Nat) /\ c \in Objects
    <3>1. s \in Nat
      BY <1>3, Fields
    <3> QED BY <1>2, <3>1
  <2> QED BY <2>2, <2>3, NewStateType
<1>17. ASSUME NEW t \in DOMAIN state, t # s, \A c \in Children[o] : found[c] # t
       PROVE  Spared(t) /\ state'[t] \in ObjectStates
  <2>1. state'[t] = state[t]
    BY <1>11, <1>12, <1>17
  <2> QED BY <2>1, Fields DEF Spared, SameRelations
<1>18. state' \in [DOMAIN state' -> ObjectStates]
  <2>1. ASSUME NEW t \in DOMAIN state' PROVE state'[t] \in ObjectStates
    <3>1. CASE t = s
      BY <1>10, <1>14, <3>1
    <3>2. CASE t # s /\ \A c \in Children[o] : found[c] # t
      BY <1>12, <1>17, <3>2
    <3>3. CASE \E c \in Children[o] : found[c] = t
      BY <1>15, <1>16, <3>3
    <3> QED BY <3>1, <3>2, <3>3
  <2> QED BY <1>12, <2>1
<1>19. /\ DOMAIN objectsByReference' = DOMAIN objectsByReference \cup Children[o]
       /\ \A c \in DOMAIN objectsByReference' :
             objectsByReference'[c] = IF c \in Children[o] THEN found[c]
                                      ELSE objectsByReference[c]
  BY <1>1, <1>2 DEF WithAll, FindsChildren
<1>20. SameOwn(s)
  BY <1>10, <1>14 DEF SameOwn
<1>21. Provides(s, found)
  <2>1. stage = IF Cardinality(Unfinished(s, found)) > 0 THEN "waiting" ELSE "putQueued"
    BY <1>5 DEF stage
  <2> QED BY <1>5, <1>10, <1>12, <1>14, <1>15, <1>16, <1>17, <1>19, <1>20, <2>1 DEF Provides
<1>22. incomingWaits' \in SUBSET {s}
  BY <1>1
<1> HIDE DEF o
<1>23. o = state[s].reference
  BY DEF o
<1> QED BY <1>1, <1>2, <1>18, <1>21, <1>22, <1>23
LEMMA NewStateFields ==
    ASSUME NEW c, NEW q
    PROVE  /\ NewState(c, q).stage = "pending" /\ NewState(c, q).reference = c
           /\ NewState(c, q).unfinalizedParents = q
           /\ NewState(c, q).tags = <<>> /\ NewState(c, q).unfinalizedDAGsWithoutTagsCount = 0
           /\ ~NewState(c, q).hasChildFailures /\ ~NewState(c, q).success
           /\ ~NewState(c, q).sent /\ ~NewState(c, q).finalizing
           /\ ~NewState(c, q).releasesChildren
  BY DEF NewState

LEMMA SparedIsOwn ==
    ASSUME NEW t, Spared(t)
    PROVE  /\ SameOwn(t) /\ state'[t].stage = state[t].stage
           /\ state'[t].unfinalizedChildrenCount = state[t].unfinalizedChildrenCount
           /\ state'[t].unfinalizedParents = state[t].unfinalizedParents
  BY DEF Spared, SameRelations, SameOwn

LEMMA OneElement ==
    ASSUME NEW s \in Nat
    PROVE  <<s>> \in Seq(Nat) /\ ToSet(<<s>>) = {s} /\ IsInjective(<<s>>)
  BY DEF ToSet, IsInjective

LEMMA ProvidesRelations ==
    ASSUME ServerTypeOK, Relations, NEW s, NEW found, FindsChildren(s, found),
           Provides(s, found), UNCHANGED stack
    PROVE  Relations'
<1> DEFINE o == state[s].reference
           u == Unfinished(s, found)
<1>1. s \in DOMAIN state /\ state[s].stage = "requested" /\ o \in Objects /\ s \in Nat
      /\ ~state[s].hasChildFailures
  BY Fields DEF FindsChildren, Relations, FinalizationOK, Finalization
<1>2. IsFiniteSet(Children[o]) /\ Children[o] \subseteq Objects
  BY <1>1, ChildIndicesOK, ReferencesAssumption, 0 \in Nat
<1>3. u \subseteq Children[o] /\ IsFiniteSet(u) /\ Cardinality(u) \in Nat
  <2>1. u \subseteq Children[o]
    BY DEF Unfinished
  <2> QED BY <1>2, <2>1, FS_Subset, FS_CardinalityType
<1>4. /\ \A c, d \in Children[o] : found[c] = found[d] => c = d
      /\ \A c \in Children[o] :
            found[c] # s /\ (found[c] \in DOMAIN state => state[found[c]].reference = c)
  BY DEF FindsChildren
<1>5. u # {} => state'[s].stage = "waiting" /\ Cardinality(u) > 0
  BY <1>3, FS_EmptySet DEF Provides
<1>6. u = {} => state'[s].stage = "putQueued"
  BY FS_EmptySet DEF Provides
<1>7. /\ SameOwn(s) /\ state'[s].unfinalizedParents = state[s].unfinalizedParents
      /\ state'[s].unfinalizedChildrenCount = Cardinality(u)
  BY DEF Provides
(* What is still said of the objectStates that there were. *)
<1>8. ASSUME NEW t \in DOMAIN state, t # s
      PROVE  /\ SameOwn(t) /\ state'[t].stage = state[t].stage
             /\ state'[t].unfinalizedChildrenCount = state[t].unfinalizedChildrenCount
             /\ \/ state'[t].unfinalizedParents = state[t].unfinalizedParents
                   /\ \A c \in u : found[c] # t
                \/ /\ state'[t].unfinalizedParents = Append(state[t].unfinalizedParents, s)
                   /\ \E c \in u : found[c] = t
  <2>1. CASE \A c \in Children[o] : found[c] # t
    BY <1>3, <1>8, <2>1, SparedIsOwn DEF Provides
  <2>2. CASE \E c \in Children[o] : found[c] = t
    <3>1. PICK c \in Children[o] : found[c] = t
      BY <2>2
    <3>2. GetsParent(t, s)
      BY <3>1 DEF Provides
    <3>3. c \in u <=> state[t].stage # "finalized"
      BY <3>1 DEF Unfinished, Finished
    <3>4. \A d \in u : found[d] = t => d = c
      BY <1>3, <1>4, <3>1
    <3> QED BY <3>1, <3>2, <3>3, <3>4 DEF GetsParent
  <2> QED BY <2>1, <2>2
<1>9. ASSUME NEW t \in DOMAIN state', t \notin DOMAIN state
      PROVE  \E c \in u : found[c] = t /\ state'[t] = NewState(c, <<s>>)
  <2>1. PICK c \in Children[o] : found[c] = t
    BY <1>9 DEF Provides
  <2>2. c \in u
    BY <1>9, <2>1 DEF Unfinished, Finished
  <2> QED BY <1>9, <2>1, <2>2 DEF Provides
<1>10. DOMAIN state' = DOMAIN state \cup {found[c] : c \in Children[o]}
  BY DEF Provides
<1> HIDE DEF u
<1>11. ReferencesAreLive'
  <2> SUFFICES ASSUME NEW c \in DOMAIN objectsByReference'
               PROVE  LET t == objectsByReference'[c]
                      IN  /\ state'[t].reference = c
                          /\ ~state'[t].sent /\ ~state'[t].hasChildFailures
                          /\ state'[t].stage = "finalized" => state'[t].success
    BY DEF ReferencesAreLive
  <2> DEFINE t == objectsByReference'[c]
  <2>1. CASE c \in DOMAIN objectsByReference /\ objectsByReference[c] = t
    <3>1. /\ t \in DOMAIN state /\ state[t].reference = c
          /\ ~state[t].sent /\ ~state[t].hasChildFailures
          /\ state[t].stage = "finalized" => state[t].success
      BY <2>1 DEF ServerTypeOK, Relations, ReferencesAreLive
    <3>2. CASE t = s
      BY <1>5, <1>6, <1>7, <3>1, <3>2 DEF SameOwn
    <3>3. CASE t # s
      BY <1>8, <3>1, <3>3 DEF SameOwn
    <3> QED BY <3>2, <3>3
  <2>2. CASE ~(c \in DOMAIN objectsByReference /\ objectsByReference[c] = t)
    <3>1. c \in Children[o] /\ t = found[c]
      BY <2>2 DEF Provides
    <3>2. t \notin DOMAIN state
      BY <2>2, <3>1 DEF FindsChildren
    <3>3. state'[t] = NewState(c, <<s>>)
      BY <3>1, <3>2 DEF Provides
    <3> QED BY <3>3, NewStateFields
  <2> QED BY <2>1, <2>2
<1>12. ASSUME NEW t \in DOMAIN state
       PROVE  /\ state[t].unfinalizedParents \in Seq(Nat)
              /\ IsInjective(state[t].unfinalizedParents)
              /\ s \notin ToSet(state[t].unfinalizedParents)
              /\ \A p \in ToSet(state[t].unfinalizedParents) :
                    p \in DOMAIN state' /\ state'[p].stage = "waiting"
  <2>1. /\ IsInjective(state[t].unfinalizedParents)
        /\ \A p \in ToSet(state[t].unfinalizedParents) :
              p \in DOMAIN state /\ state[p].stage = "waiting"
    BY DEF Relations, ParentsWait
  <2> QED BY <1>1, <1>8, <1>10, <2>1, Fields
<1>13. ASSUME NEW t \in DOMAIN state'
       PROVE  /\ IsInjective(state'[t].unfinalizedParents)
              /\ \A p \in ToSet(state'[t].unfinalizedParents) :
                    p \in DOMAIN state' /\ state'[p].stage = "waiting"
              /\ s \in ToSet(state'[t].unfinalizedParents) <=> \E c \in u : found[c] = t
              /\ \A p : p # s =>
                    (p \in ToSet(state'[t].unfinalizedParents)
                        <=> t \in DOMAIN state /\ p \in ToSet(state[t].unfinalizedParents))
  <2>1. CASE t = s
    <3>1. \A c \in u : found[c] # t
      BY <1>3, <1>4, <2>1
    <3> QED BY <1>1, <1>7, <1>12, <2>1, <3>1
  <2>2. CASE t # s /\ t \in DOMAIN state
    <3>1. CASE /\ state'[t].unfinalizedParents = state[t].unfinalizedParents
               /\ \A c \in u : found[c] # t
      BY <1>12, <2>2, <3>1
    <3>2. CASE /\ state'[t].unfinalizedParents = Append(state[t].unfinalizedParents, s)
               /\ \E c \in u : found[c] = t
      <4>1. /\ ToSet(state'[t].unfinalizedParents) = ToSet(state[t].unfinalizedParents) \cup {s}
            /\ IsInjective(state'[t].unfinalizedParents)
        BY <1>1, <1>12, <2>2, <3>2, ToSetAppend
      <4>2. u # {}
        BY <3>2
      <4> QED BY <1>1, <1>5, <1>10, <1>12, <2>2, <3>2, <4>1, <4>2
    <3> QED BY <1>8, <2>2, <3>1, <3>2
  <2>3. CASE t \notin DOMAIN state
    <3>1. PICK c \in u : found[c] = t /\ state'[t] = NewState(c, <<s>>)
      BY <1>9, <2>3
    <3>2. state'[t].unfinalizedParents = <<s>>
      BY <3>1, NewStateFields
    <3> QED BY <1>1, <1>5, <1>10, <2>3, <3>1, <3>2, OneElement
  <2> QED BY <2>1, <2>2, <2>3
<1>14. ParentsWait'
  BY <1>13 DEF ParentsWait
<1>15. WaitsForLiveChildren'
  <2> SUFFICES ASSUME NEW p \in DOMAIN state', state'[p].stage = "waiting"
               PROVE  /\ state'[p].unfinalizedChildrenCount > 0
                      /\ state'[p].unfinalizedChildrenCount = Cardinality(Holders(p)')
    BY WaitsForHoldersNext
  <2>1. CASE p = s
    <3>1. u # {}
      BY <1>6, <2>1
    <3>2. Holders(s)' = {found[c] : c \in u}
      <4>1. {found[c] : c \in u} \subseteq DOMAIN state'
        BY <1>3, <1>10
      <4> QED BY <1>13, <4>1 DEF Holders, Holds
    <3>3. Cardinality({found[c] : c \in u}) = Cardinality(u)
      <4> DEFINE f == [c \in u |-> found[c]]
                 v == {found[c] : c \in u}
      <4>1. f \in Bijection(u, v)
        BY <1>3, <1>4 DEF Bijection, Injection, Surjection, IsInjective
      <4> HIDE DEF f, v
      <4>2. Cardinality(u) = Cardinality(v)
        BY <1>3, <4>1, FS_Bijection DEF ExistsBijection
      <4> QED BY <4>2 DEF v
    <3> QED BY <1>5, <1>7, <2>1, <3>1, <3>2, <3>3
  <2>2. CASE p # s
    <3>1. p \in DOMAIN state
      BY <1>9, <2>2, NewStateFields
    <3>2. /\ state[p].stage = "waiting"
          /\ state'[p].unfinalizedChildrenCount = state[p].unfinalizedChildrenCount
      BY <1>8, <2>2, <3>1
    <3>3. Holders(p)' = Holders(p)
      BY <1>10, <1>13, <2>2 DEF Holders, Holds
    <3> QED BY <3>1, <3>2, <3>3, WaitsForHolders DEF Relations
  <2> QED BY <2>1, <2>2
<1>16. FinalizationOK'
  <2> SUFFICES ASSUME NEW t \in DOMAIN state' PROVE Finalization(t)'
    BY DEF FinalizationOK
  <2>1. CASE t = s
    BY <1>1, <1>5, <1>6, <1>7, <2>1 DEF Finalization, SameOwn, Relations, FinalizationOK
  <2>2. CASE t # s /\ t \in DOMAIN state
    <3>1. state[t].stage = "finalized" => \A c \in u : found[c] # t
      BY <2>2 DEF u, Unfinished, Finished
    <3>2. Finalization(t)
      BY <2>2 DEF Relations, FinalizationOK
    <3> QED BY <1>8, <2>2, <3>1, <3>2 DEF Finalization, SameOwn
  <2>3. CASE t \notin DOMAIN state
    BY <1>9, <2>3, NewStateFields DEF Finalization
  <2> QED BY <2>1, <2>2, <2>3
<1>17. StackOK'
  <2>1. ASSUME NEW t \in ToSet(stack) PROVE t \in DOMAIN state' /\ state'[t].finalizing
    <3>1. t \in DOMAIN state /\ state[t].finalizing
      BY DEF Relations, StackOK
    <3> QED BY <1>7, <1>8, <1>10, <3>1 DEF SameOwn
  <2> QED BY <2>1 DEF Relations, StackOK
<1> QED BY <1>11, <1>14, <1>15, <1>16, <1>17 DEF Relations
-----------------------------------------------------------------------------
(* An object can not be found by its reference any more. *)
Detached(s) ==
    /\ DOMAIN objectsByReference' \subseteq DOMAIN objectsByReference
    /\ \A o \in DOMAIN objectsByReference' :
          objectsByReference'[o] = objectsByReference[o] /\ objectsByReference'[o] # s
    /\ objectsByReference' =
          [o \in DOMAIN objectsByReference' |-> objectsByReference'[o]]

LEMMA DetachEffect ==
    ASSUME ServerTypeOK, ReferencesAreLive, NEW s, s \in DOMAIN state,
           objectsByReference' = Detach(s)
    PROVE  Detached(s)
<1> DEFINE o == state[s].reference
           D == DOMAIN objectsByReference
<1>1. objectsByReference = [c \in D |-> objectsByReference[c]]
  BY DEF ServerTypeOK
<1>2. \A c \in D : objectsByReference[c] = s => c = o
  BY DEF ReferencesAreLive
<1>3. CASE Attached(o) /\ objectsByReference[o] = s
  <2>1. objectsByReference' = [c \in D \ {o} |-> objectsByReference[c]]
    BY <1>3 DEF Detach, Restrict
  <2>2. /\ DOMAIN objectsByReference' = D \ {o}
        /\ \A c \in D \ {o} : objectsByReference'[c] = objectsByReference[c]
    BY <2>1
  <2> QED BY <1>2, <2>1, <2>2 DEF Detached
<1>4. CASE ~(Attached(o) /\ objectsByReference[o] = s)
  <2>1. objectsByReference' = objectsByReference
    BY <1>4 DEF Detach
  <2>2. \A c \in D : objectsByReference[c] # s
    BY <1>2, <1>4 DEF Attached
  <2> QED BY <1>1, <2>1, <2>2 DEF Detached
<1> QED BY <1>3, <1>4

(* An object is finalized, by a call that is not nested. *)
Finalizes(s, success, checked) ==
    /\ DOMAIN state' = DOMAIN state /\ s \in DOMAIN state
    /\ \A t \in DOMAIN state : t # s => Spared(t)
    /\ state'[s].reference = state[s].reference
    /\ state'[s].unfinalizedParents = state[s].unfinalizedParents
    /\ state'[s].tags = state[s].tags
    /\ state'[s].unfinalizedDAGsWithoutTagsCount = state[s].unfinalizedDAGsWithoutTagsCount
    /\ state'[s].hasChildFailures = state[s].hasChildFailures
    /\ state'[s].sent = state[s].sent
    /\ state'[s].stage = "finalized" /\ state'[s].finalizing
    /\ state'[s].success = success
    /\ state'[s].releasesChildren = checked
    /\ stack = <<>> /\ stack' = <<s>>
    /\ IF success THEN UNCHANGED objectsByReference ELSE Detached(s)

LEMMA FinalizeEffect ==
    ASSUME ServerTypeOK, ReferencesAreLive, NEW s \in DOMAIN state,
           NEW success \in BOOLEAN, NEW lease \in BOOLEAN, NEW checked \in BOOLEAN,
           Finalize(s, success, lease, checked)
    PROVE  Finalizes(s, success, checked) /\ state' \in [DOMAIN state' -> ObjectStates]
<1> DEFINE r == [Finalized(state[s], success, lease) EXCEPT !.releasesChildren = checked]
<1>1. state[s] \in ObjectStates
  BY Fields
<1>2. state' = [state EXCEPT ![s] = r]
  BY DEF Finalize
<1>3. /\ r \in ObjectStates
      /\ r.stage = "finalized" /\ r.success = success /\ r.finalizing
      /\ r.releasesChildren = checked
      /\ r.reference = state[s].reference
      /\ r.unfinalizedParents = state[s].unfinalizedParents
      /\ r.tags = state[s].tags
      /\ r.unfinalizedDAGsWithoutTagsCount = state[s].unfinalizedDAGsWithoutTagsCount
      /\ r.hasChildFailures = state[s].hasChildFailures
      /\ r.sent = state[s].sent
  <2>1. r = [state[s] EXCEPT !.stage = "finalized", !.success = success, !.lease = lease,
                             !.finalizing = TRUE, !.releasesChildren = checked]
    BY <1>1 DEF Finalized, ObjectStates
  <2>2. "finalized" \in Stages
    BY DEF Stages
  <2> HIDE DEF r
  <2> QED BY <1>1, <2>1, <2>2 DEF ObjectStates
<1> HIDE DEF r
<1>4. /\ DOMAIN state' = DOMAIN state
      /\ state' \in [DOMAIN state -> ObjectStates]
      /\ state'[s] = r
      /\ \A t \in DOMAIN state : t # s => state'[t] = state[t]
  BY <1>2, <1>3, ReplacedType
<1>5. IF success THEN UNCHANGED objectsByReference ELSE Detached(s)
  BY DetachEffect DEF Finalize
<1>6. stack = <<>> /\ stack' = <<s>>
  BY DEF Finalize, LockIsFree
<1> QED BY <1>3, <1>4, <1>5, <1>6 DEF Finalizes, SameRelations, Spared

LEMMA FinalizesRelations ==
    ASSUME ServerTypeOK, Relations, NEW s, NEW success \in BOOLEAN, NEW checked \in BOOLEAN,
           Finalizes(s, success, checked), state[s].stage \in Early
    PROVE  Relations'
<1> USE DEF Finalizes
<1>1. ASSUME NEW t \in DOMAIN state, t # s
      PROVE  SameRelations(t) /\ state'[t].stage = state[t].stage
  BY <1>1 DEF Spared
<1>2. ASSUME NEW o \in DOMAIN objectsByReference
      PROVE  objectsByReference[o] \in DOMAIN state
  BY DEF ServerTypeOK
<1>3. ReferencesAreLive'
  <2> SUFFICES ASSUME NEW o \in DOMAIN objectsByReference'
               PROVE  LET t == objectsByReference'[o]
                      IN  /\ state'[t].reference = o
                          /\ ~state'[t].sent /\ ~state'[t].hasChildFailures
                          /\ state'[t].stage = "finalized" => state'[t].success
    BY DEF ReferencesAreLive
  <2> DEFINE t == objectsByReference'[o]
  <2>1. /\ o \in DOMAIN objectsByReference /\ t = objectsByReference[o]
        /\ ~success => t # s
    BY DEF Detached
  <2>2. /\ t \in DOMAIN state /\ state[t].reference = o
        /\ ~state[t].sent /\ ~state[t].hasChildFailures
        /\ state[t].stage = "finalized" => state[t].success
    BY <1>2, <2>1 DEF Relations, ReferencesAreLive
  <2>3. CASE t = s
    BY <2>1, <2>2, <2>3
  <2>4. CASE t # s
    BY <1>1, <2>2, <2>4 DEF SameRelations
  <2> QED BY <2>3, <2>4
<1>4. ASSUME NEW t \in DOMAIN state
      PROVE  state'[t].unfinalizedParents = state[t].unfinalizedParents
  BY <1>1 DEF SameRelations
<1>5. ParentsWait'
  <2>1. ASSUME NEW t \in DOMAIN state, NEW p \in ToSet(state[t].unfinalizedParents)
        PROVE  p \in DOMAIN state /\ state'[p].stage = "waiting"
    <3>1. p \in DOMAIN state /\ state[p].stage = "waiting"
      BY DEF Relations, ParentsWait
    <3>2. p # s
      BY <3>1 DEF Early
    <3> QED BY <1>1, <3>1, <3>2
  <2> QED BY <1>4, <2>1 DEF Relations, ParentsWait
<1>6. \A p : Holders(p)' = Holders(p)
  BY <1>4 DEF Holders, Holds
<1>7. WaitsForLiveChildren'
  BY <1>1, <1>6, WaitsForHolders, WaitsForHoldersNext DEF Relations, SameRelations
<1>8. FinalizationOK'
  <2>1. ASSUME NEW t \in DOMAIN state, t # s PROVE Finalization(t)'
    BY <1>1, <2>1 DEF FinalizationOK, Finalization, Relations, SameRelations
  <2>2. Finalization(s)'
    BY DEF FinalizationOK, Finalization, Relations
  <2> QED BY <2>1, <2>2 DEF FinalizationOK
<1>9. StackOK'
  <2>1. s \in Nat
    BY Fields
  <2> QED BY <2>1, OneElement DEF StackOK
<1> QED BY <1>3, <1>5, <1>7, <1>8, <1>9 DEF Relations
-----------------------------------------------------------------------------
(* The innermost call of finalizeObjectLocked(), and its next parent. *)
LEMMA TopAndParent ==
    ASSUME ServerTypeOK, Relations, HasParents
    PROVE  /\ stack # <<>> /\ Top \in ToSet(stack) /\ Top \in DOMAIN state
           /\ state[Top].finalizing /\ state[Top].stage = "finalized"
           /\ Parent \in ToSet(state[Top].unfinalizedParents)
           /\ Parent \in DOMAIN state /\ state[Parent].stage = "waiting"
           /\ Top # Parent
           /\ state[Parent].unfinalizedChildrenCount \in Nat
           /\ state[Parent].unfinalizedChildrenCount > 0
<1>1. stack \in Seq(Nat) /\ stack # <<>> /\ IsInjective(stack)
  BY DEF ServerTypeOK, HasParents, Relations, StackOK
<1>2. Top \in ToSet(stack)
  BY <1>1, ToSetFront DEF Top
<1>3. Top \in DOMAIN state /\ state[Top].finalizing
  BY <1>2 DEF Relations, StackOK
<1>4. state[Top].stage = "finalized"
  BY <1>3 DEF Relations, FinalizationOK, Finalization
<1>5. /\ state[Top].unfinalizedParents \in Seq(Nat) /\ state[Top].unfinalizedParents # <<>>
      /\ IsInjective(state[Top].unfinalizedParents)
  BY <1>3, Fields DEF HasParents, Relations, ParentsWait
<1>6. Parent \in ToSet(state[Top].unfinalizedParents)
  BY <1>5, ToSetTail DEF Parent
<1>7. Parent \in DOMAIN state /\ state[Parent].stage = "waiting"
  BY <1>3, <1>6 DEF Relations, ParentsWait
<1>8. state[Parent].unfinalizedChildrenCount \in Nat /\ state[Parent].unfinalizedChildrenCount > 0
  BY <1>7, Fields DEF Relations, WaitsForLiveChildren
<1> QED BY <1>1, <1>2, <1>3, <1>4, <1>6, <1>7, <1>8

(* Fields of a parent that its children do not change. *)
SameParent(r, p) ==
    /\ r.reference = state[p].reference
    /\ r.unfinalizedParents = state[p].unfinalizedParents
    /\ r.tags = state[p].tags
    /\ r.unfinalizedDAGsWithoutTagsCount = state[p].unfinalizedDAGsWithoutTagsCount
    /\ r.sent = state[p].sent
    /\ r.releasesChildren = state[p].releasesChildren

LEMMA UpdatedParentFields ==
    ASSUME ServerTypeOK, Relations, HasParents
    PROVE  /\ UpdatedParent \in ObjectStates
           /\ SameParent(UpdatedParent, Parent)
           /\ UpdatedParent.stage = "waiting"
           /\ UpdatedParent.success = state[Parent].success
           /\ UpdatedParent.finalizing = state[Parent].finalizing
           /\ UpdatedParent.hasChildFailures
                 = (state[Parent].hasChildFailures \/ ~state[Top].success)
           /\ UpdatedParent.unfinalizedChildrenCount
                 = state[Parent].unfinalizedChildrenCount - 1
<1> DEFINE leases == IF state[Top].lease
                     THEN state[Parent].leases \cup {state[Top].reference}
                     ELSE state[Parent].leases
           failures == state[Parent].hasChildFailures \/ ~state[Top].success
           n == state[Parent].unfinalizedChildrenCount - 1
<1>1. /\ Top \in DOMAIN state /\ Parent \in DOMAIN state /\ state[Parent].stage = "waiting"
      /\ state[Parent].unfinalizedChildrenCount \in Nat
      /\ state[Parent].unfinalizedChildrenCount > 0
  BY TopAndParent
<1>2. state[Parent] \in ObjectStates
  BY <1>1, Fields
<1>3. leases \in SUBSET Objects
  BY <1>1, Fields
<1>4. failures \in BOOLEAN
  BY <1>1, Fields
<1>5. n \in Nat
  BY <1>1
<1>6. UpdatedParent = [state[Parent] EXCEPT !.leases = leases, !.hasChildFailures = failures,
                                            !.unfinalizedChildrenCount = n]
  BY <1>2 DEF UpdatedParent, ObjectStates
<1> HIDE DEF leases, failures, n
<1>7. /\ UpdatedParent \in ObjectStates
      /\ SameParent(UpdatedParent, Parent)
      /\ UpdatedParent.stage = "waiting"
      /\ UpdatedParent.success = state[Parent].success
      /\ UpdatedParent.finalizing = state[Parent].finalizing
      /\ UpdatedParent.hasChildFailures = failures
      /\ UpdatedParent.unfinalizedChildrenCount = n
  BY <1>1, <1>2, <1>3, <1>4, <1>5, <1>6 DEF ObjectStates, SameParent
<1> QED BY <1>7 DEF failures, n

(* The next parent p of t, which is finalized, is told. *)
Updates(t, p) ==
    /\ t \in DOMAIN state /\ p \in DOMAIN state /\ t # p /\ DOMAIN state' = DOMAIN state
    /\ t \in ToSet(stack) /\ state[t].stage = "finalized" /\ state[t].finalizing
    /\ state[p].stage = "waiting"
    /\ state[t].unfinalizedParents # <<>> /\ p = Head(state[t].unfinalizedParents)
    /\ \A x \in DOMAIN state : x # t /\ x # p => Spared(x)
    /\ SameOwn(t) /\ state'[t].stage = state[t].stage
    /\ state'[t].unfinalizedParents = Tail(state[t].unfinalizedParents)
    /\ SameParent(state'[p], p)
    /\ state'[p].hasChildFailures = (state[p].hasChildFailures \/ ~state[t].success)
    /\ state'[p].unfinalizedChildrenCount = state[p].unfinalizedChildrenCount - 1
    /\ state[t].success => UNCHANGED objectsByReference
    /\ ~state[t].success =>
          \/ Detached(p)
          \/ UNCHANGED objectsByReference /\ state[p].hasChildFailures

Waits(p) ==
    /\ state'[p].stage = "waiting" /\ state'[p].unfinalizedChildrenCount > 0
    /\ state'[p].success = state[p].success /\ state'[p].finalizing = state[p].finalizing
    /\ UNCHANGED stack

Fails(p) ==
    /\ state'[p].stage = "finalized" /\ state'[p].unfinalizedChildrenCount = 0
    /\ state'[p].hasChildFailures
    /\ ~state'[p].success /\ state'[p].finalizing
    /\ stack' = Append(stack, p)

IsComplete(p) ==
    /\ state'[p].stage = "putQueued" /\ state'[p].unfinalizedChildrenCount = 0
    /\ ~state'[p].hasChildFailures
    /\ state'[p].success = state[p].success /\ state'[p].finalizing = state[p].finalizing
    /\ stack' = <<>>

(* Two objects change. *)
LEMMA BothReplaced ==
    ASSUME ServerTypeOK, NEW t \in DOMAIN state, NEW p \in DOMAIN state, t # p,
           NEW r \in ObjectStates, NEW q \in ObjectStates,
           state' = [state EXCEPT ![p] = r, ![t] = q]
    PROVE  /\ DOMAIN state' = DOMAIN state
           /\ state' \in [DOMAIN state' -> ObjectStates]
           /\ state'[p] = r /\ state'[t] = q
           /\ \A x \in DOMAIN state : x # t /\ x # p => state'[x] = state[x]
  BY DEF ServerTypeOK

LEMMA UpdatesBoth ==
    ASSUME ServerTypeOK, Relations, HasParents, NEW r \in ObjectStates,
           NEW waits \in SUBSET Nat,
           \/ state' = [state EXCEPT ![Parent] = r, ![Top].unfinalizedParents = Tail(@)]
           \/ state' = [state EXCEPT ![Parent] = r, ![Top].unfinalizedParents = Tail(@),
                                     ![Top].waitsFor = waits],
           SameParent(r, Parent),
           r.hasChildFailures = (state[Parent].hasChildFailures \/ ~state[Top].success),
           r.unfinalizedChildrenCount = state[Parent].unfinalizedChildrenCount - 1,
           state[Top].success => UNCHANGED objectsByReference,
           ~state[Top].success =>
               \/ Detached(Parent)
               \/ UNCHANGED objectsByReference /\ state[Parent].hasChildFailures
    PROVE  /\ Updates(Top, Parent) /\ state'[Parent] = r
           /\ state' \in [DOMAIN state' -> ObjectStates]
<1>1. /\ stack # <<>> /\ Top \in ToSet(stack) /\ Top \in DOMAIN state
      /\ state[Top].finalizing /\ state[Top].stage = "finalized"
      /\ Parent \in ToSet(state[Top].unfinalizedParents)
      /\ Parent \in DOMAIN state /\ state[Parent].stage = "waiting" /\ Top # Parent
  BY TopAndParent
<1>2. PICK t : t = Top
  OBVIOUS
<1>3. PICK p : p = Parent
  OBVIOUS
<1>4. PICK rest : rest = Tail(state[t].unfinalizedParents)
  OBVIOUS
<1>5. /\ state[t] \in ObjectStates /\ state[t].unfinalizedParents \in Seq(Nat)
      /\ state[t].unfinalizedParents # <<>> /\ p = Head(state[t].unfinalizedParents)
  BY <1>1, <1>2, <1>3, Fields DEF HasParents, Parent
<1>6. rest \in Seq(Nat)
  BY <1>4, <1>5, HeadTailProperties
<1>7. PICK w \in SUBSET Nat :
          state' = [state EXCEPT ![p] = r,
                       ![t] = [state[t] EXCEPT !.unfinalizedParents = rest, !.waitsFor = w]]
  <2>1. state[t].waitsFor \in SUBSET Nat /\ t # p
    BY <1>1, <1>2, <1>3, Fields
  <2>2. CASE state' = [state EXCEPT ![p] = r, ![t].unfinalizedParents = Tail(@)]
    <3>1. [state[t] EXCEPT !.unfinalizedParents = rest]
             = [state[t] EXCEPT !.unfinalizedParents = rest, !.waitsFor = state[t].waitsFor]
      BY <1>5 DEF ObjectStates
    <3>2. state' = [state EXCEPT ![p] = r,
                                 ![t] = [state[t] EXCEPT !.unfinalizedParents = rest]]
      BY <1>1, <1>2, <1>3, <1>4, <2>1, <2>2 DEF ServerTypeOK
    <3> QED BY <2>1, <3>1, <3>2
  <2>3. CASE state' = [state EXCEPT ![p] = r, ![t].unfinalizedParents = Tail(@),
                                    ![t].waitsFor = waits]
    <3>1. state' = [state EXCEPT ![p] = r, ![t] =
                       [state[t] EXCEPT !.unfinalizedParents = rest, !.waitsFor = waits]]
      BY <1>1, <1>2, <1>3, <1>4, <2>1, <2>3 DEF ServerTypeOK
    <3> QED BY <3>1
  <2> QED BY <1>2, <1>3, <2>2, <2>3
<1> DEFINE q == [state[t] EXCEPT !.unfinalizedParents = rest, !.waitsFor = w]
<1>8. /\ q \in ObjectStates
      /\ q.unfinalizedParents = rest
      /\ q.stage = state[t].stage
      /\ q.reference = state[t].reference /\ q.tags = state[t].tags
      /\ q.unfinalizedDAGsWithoutTagsCount = state[t].unfinalizedDAGsWithoutTagsCount
      /\ q.hasChildFailures = state[t].hasChildFailures
      /\ q.success = state[t].success /\ q.sent = state[t].sent
      /\ q.finalizing = state[t].finalizing
      /\ q.releasesChildren = state[t].releasesChildren
  BY <1>5, <1>6 DEF ObjectStates
<1>9. state' = [state EXCEPT ![p] = r, ![t] = q]
  BY <1>7
<1> HIDE DEF q
<1>10. /\ DOMAIN state' = DOMAIN state
       /\ state' \in [DOMAIN state' -> ObjectStates]
       /\ state'[p] = r /\ state'[t] = q
       /\ \A x \in DOMAIN state : x # t /\ x # p => state'[x] = state[x]
  BY <1>1, <1>2, <1>3, <1>8, <1>9, BothReplaced
<1>11. SameOwn(t) /\ \A x \in DOMAIN state : x # t /\ x # p => Spared(x)
  BY <1>8, <1>10 DEF SameOwn, Spared, SameRelations
<1>12. Updates(t, p)
  BY <1>1, <1>2, <1>3, <1>4, <1>5, <1>8, <1>10, <1>11 DEF Updates
<1> QED BY <1>2, <1>3, <1>10, <1>12

LEMMA DetachParentEffect ==
    ASSUME ServerTypeOK, Relations, HasParents, DetachFailedParent
    PROVE  /\ state[Top].success => UNCHANGED objectsByReference
           /\ ~state[Top].success =>
                 \/ Detached(Parent)
                 \/ UNCHANGED objectsByReference /\ state[Parent].hasChildFailures
<1>1. Parent \in DOMAIN state
  BY TopAndParent
<1>2. ReferencesAreLive
  BY DEF Relations
<1>3. PICK p : p = Parent
  OBVIOUS
<1>4. CASE ~state[Top].success /\ ~state[Parent].hasChildFailures
  <2>1. objectsByReference' = Detach(p)
    BY <1>3, <1>4 DEF DetachFailedParent
  <2>2. Detached(p)
    BY <1>1, <1>2, <1>3, <2>1, DetachEffect
  <2> QED BY <1>3, <1>4, <2>2
<1>5. CASE ~(~state[Top].success /\ ~state[Parent].hasChildFailures)
  BY <1>5 DEF DetachFailedParent
<1> QED BY <1>4, <1>5

LEMMA ParentWaitsEffect ==
    ASSUME ServerTypeOK, Relations, ParentWaits
    PROVE  /\ Updates(Top, Parent) /\ Waits(Parent)
           /\ state' \in [DOMAIN state' -> ObjectStates]
<1>1. HasParents /\ DetachFailedParent
  BY DEF ParentWaits, UpdateParent
<1>2. /\ UpdatedParent \in ObjectStates
      /\ SameParent(UpdatedParent, Parent)
      /\ UpdatedParent.stage = "waiting"
      /\ UpdatedParent.success = state[Parent].success
      /\ UpdatedParent.finalizing = state[Parent].finalizing
      /\ UpdatedParent.hasChildFailures
            = (state[Parent].hasChildFailures \/ ~state[Top].success)
      /\ UpdatedParent.unfinalizedChildrenCount
            = state[Parent].unfinalizedChildrenCount - 1
  BY <1>1, UpdatedParentFields
<1>3. PICK r : r = UpdatedParent
  OBVIOUS
<1>4. /\ state' = [state EXCEPT ![Parent] = r, ![Top].unfinalizedParents = Tail(@)]
      /\ r.unfinalizedChildrenCount > 0 /\ UNCHANGED stack
  BY <1>3 DEF ParentWaits, UpdateParent
<1>5. /\ Updates(Top, Parent) /\ state'[Parent] = r
      /\ state' \in [DOMAIN state' -> ObjectStates]
  <2>1. {} \in SUBSET Nat
    OBVIOUS
  <2> QED BY <1>1, <1>2, <1>3, <1>4, <2>1, DetachParentEffect, UpdatesBoth
<1> QED BY <1>2, <1>3, <1>4, <1>5 DEF Waits

LEMMA ParentFailsEffect ==
    ASSUME ServerTypeOK, Relations, ParentFails
    PROVE  /\ Updates(Top, Parent) /\ Fails(Parent)
           /\ state' \in [DOMAIN state' -> ObjectStates]
<1>1. HasParents /\ DetachFailedParent
  BY DEF ParentFails, UpdateParent
<1>2. /\ UpdatedParent \in ObjectStates
      /\ SameParent(UpdatedParent, Parent)
      /\ UpdatedParent.hasChildFailures
            = (state[Parent].hasChildFailures \/ ~state[Top].success)
      /\ UpdatedParent.unfinalizedChildrenCount
            = state[Parent].unfinalizedChildrenCount - 1
  BY <1>1, UpdatedParentFields
<1>3. PICK u : u = UpdatedParent
  OBVIOUS
<1> DEFINE r == Finalized(u, FALSE, FALSE)
<1>4. /\ state' = [state EXCEPT ![Parent] = r, ![Top].unfinalizedParents = Tail(@)]
      /\ u.unfinalizedChildrenCount = 0 /\ u.hasChildFailures /\ stack' = Append(stack, Parent)
  BY <1>3 DEF ParentFails, UpdateParent
<1>5. /\ r \in ObjectStates /\ SameParent(r, Parent)
      /\ r.hasChildFailures = u.hasChildFailures
      /\ r.unfinalizedChildrenCount = u.unfinalizedChildrenCount
      /\ r.stage = "finalized" /\ ~r.success /\ r.finalizing
  BY <1>2, <1>3 DEF Finalized, ObjectStates, Stages, SameParent
<1> HIDE DEF r
<1>6. /\ Updates(Top, Parent) /\ state'[Parent] = r
      /\ state' \in [DOMAIN state' -> ObjectStates]
  <2>1. {} \in SUBSET Nat
    OBVIOUS
  <2> QED BY <1>1, <1>2, <1>3, <1>4, <1>5, <2>1, DetachParentEffect, UpdatesBoth
<1> QED BY <1>4, <1>5, <1>6 DEF Fails

LEMMA ParentIsCompleteEffect ==
    ASSUME ServerTypeOK, Relations, ParentIsComplete
    PROVE  /\ Updates(Top, Parent) /\ IsComplete(Parent)
           /\ state' \in [DOMAIN state' -> ObjectStates]
<1>1. HasParents /\ UNCHANGED objectsByReference
  BY DEF ParentIsComplete
<1>2. /\ UpdatedParent \in ObjectStates
      /\ SameParent(UpdatedParent, Parent)
      /\ UpdatedParent.success = state[Parent].success
      /\ UpdatedParent.finalizing = state[Parent].finalizing
      /\ UpdatedParent.hasChildFailures
            = (state[Parent].hasChildFailures \/ ~state[Top].success)
      /\ UpdatedParent.unfinalizedChildrenCount
            = state[Parent].unfinalizedChildrenCount - 1
  BY <1>1, UpdatedParentFields
<1>3. PICK u : u = UpdatedParent
  OBVIOUS
<1> DEFINE r == [u EXCEPT !.stage = "putQueued"]
<1>4. /\ state' = [state EXCEPT ![Parent] = r, ![Top].unfinalizedParents = Tail(@),
                                ![Top].waitsFor = {Parent}]
      /\ u.unfinalizedChildrenCount = 0 /\ ~u.hasChildFailures /\ stack' = <<>>
  BY <1>3 DEF ParentIsComplete
<1>5. /\ r \in ObjectStates /\ SameParent(r, Parent)
      /\ r.hasChildFailures = u.hasChildFailures
      /\ r.unfinalizedChildrenCount = u.unfinalizedChildrenCount
      /\ r.stage = "putQueued" /\ r.success = u.success /\ r.finalizing = u.finalizing
  BY <1>2, <1>3 DEF ObjectStates, Stages, Writing, SameParent
<1> HIDE DEF r
<1>6. state[Top].success /\ {Parent} \in SUBSET Nat
  <2>1. state[Top].success \in BOOLEAN /\ Parent \in Nat
    BY <1>1, TopAndParent, Fields
  <2> QED BY <1>2, <1>3, <1>4, <2>1
<1>7. /\ Updates(Top, Parent) /\ state'[Parent] = r
      /\ state' \in [DOMAIN state' -> ObjectStates]
  BY <1>1, <1>2, <1>3, <1>4, <1>5, <1>6, UpdatesBoth
<1> QED BY <1>2, <1>3, <1>4, <1>5, <1>7 DEF IsComplete

(* Its last child is the only one that tells an object. *)
LEMMA UpdatesHolders ==
    ASSUME ServerTypeOK, Relations, NEW t, NEW p, Updates(t, p)
    PROVE  /\ Holders(p)' = Holders(p) \ {t} /\ t \in Holders(p)
           /\ \A q : q # p => Holders(q)' = Holders(q)
           /\ Cardinality(Holders(p)') = state'[p].unfinalizedChildrenCount
           /\ state'[p].unfinalizedChildrenCount \in Nat
           /\ state'[p].unfinalizedChildrenCount = 0 => Holders(p)' = {}
<1>1. /\ state[t].unfinalizedParents \in Seq(Nat) /\ state[t].unfinalizedParents # <<>>
      /\ IsInjective(state[t].unfinalizedParents)
      /\ t \in DOMAIN state /\ p \in DOMAIN state /\ state[p].stage = "waiting"
  BY Fields DEF Updates, Relations, ParentsWait
<1>2. /\ p \in ToSet(state[t].unfinalizedParents)
      /\ ToSet(state'[t].unfinalizedParents) = ToSet(state[t].unfinalizedParents) \ {p}
  BY <1>1, ToSetTail DEF Updates
<1>3. ASSUME NEW x \in DOMAIN state, x # t
      PROVE  ToSet(state'[x].unfinalizedParents) = ToSet(state[x].unfinalizedParents)
  <2>1. state'[x].unfinalizedParents = state[x].unfinalizedParents
    BY <1>3 DEF Updates, SameParent, Spared, SameRelations
  <2> QED BY <2>1
<1>4. Holders(p)' = Holders(p) \ {t} /\ t \in Holders(p)
  BY <1>1, <1>2, <1>3 DEF Updates, Holders, Holds
<1>5. \A q : q # p => Holders(q)' = Holders(q)
  BY <1>1, <1>2, <1>3 DEF Updates, Holders, Holds
<1>6. IsFiniteSet(Holders(p))
  BY StatesFinite, FS_Subset DEF Holders
<1>7. Cardinality(Holders(p)) = state[p].unfinalizedChildrenCount
  BY <1>1, WaitsForHolders DEF Relations
<1>8. Cardinality(Holders(p)') = Cardinality(Holders(p)) - 1 /\ IsFiniteSet(Holders(p)')
  BY <1>4, <1>6, FS_RemoveElement
<1>9. /\ Cardinality(Holders(p)') = state'[p].unfinalizedChildrenCount
      /\ state'[p].unfinalizedChildrenCount \in Nat
  BY <1>7, <1>8, FS_CardinalityType DEF Updates
<1> QED BY <1>4, <1>5, <1>8, <1>9, FS_EmptySet

LEMMA UpdatesRelations ==
    ASSUME ServerTypeOK, Relations, NEW t, NEW p, Updates(t, p),
           Waits(p) \/ Fails(p) \/ IsComplete(p)
    PROVE  Relations'
<1>1. /\ Holders(p)' = Holders(p) \ {t} /\ t \in Holders(p)
      /\ \A q : q # p => Holders(q)' = Holders(q)
      /\ Cardinality(Holders(p)') = state'[p].unfinalizedChildrenCount
      /\ state'[p].unfinalizedChildrenCount = 0 => Holders(p)' = {}
  BY UpdatesHolders
<1>2. /\ t \in DOMAIN state /\ p \in DOMAIN state /\ t # p /\ DOMAIN state' = DOMAIN state
      /\ t \in ToSet(stack) /\ state[t].stage = "finalized" /\ state[t].finalizing
      /\ state[p].stage = "waiting"
      /\ SameOwn(t) /\ state'[t].stage = state[t].stage
      /\ SameParent(state'[p], p)
      /\ state'[p].hasChildFailures = (state[p].hasChildFailures \/ ~state[t].success)
  BY DEF Updates
<1>3. ASSUME NEW x \in DOMAIN state, x # t, x # p
      PROVE  SameRelations(x) /\ state'[x].stage = state[x].stage
  BY <1>3 DEF Updates, Spared
<1>4. ~state[p].finalizing /\ ~state[p].releasesChildren /\ ~state[p].sent
  BY <1>2, Fields DEF Relations, FinalizationOK, Finalization
<1>5. ReferencesAreLive'
  <2> SUFFICES ASSUME NEW o \in DOMAIN objectsByReference'
               PROVE  LET x == objectsByReference'[o]
                      IN  /\ state'[x].reference = o
                          /\ ~state'[x].sent /\ ~state'[x].hasChildFailures
                          /\ state'[x].stage = "finalized" => state'[x].success
    BY DEF ReferencesAreLive
  <2> DEFINE x == objectsByReference'[o]
  <2>1. /\ o \in DOMAIN objectsByReference /\ x = objectsByReference[o]
        /\ ~state[t].success => x # p \/ state[p].hasChildFailures
    BY DEF Updates, Detached
  <2>2. /\ x \in DOMAIN state /\ state[x].reference = o
        /\ ~state[x].sent /\ ~state[x].hasChildFailures
        /\ state[x].stage = "finalized" => state[x].success
    BY <2>1 DEF ServerTypeOK, Relations, ReferencesAreLive
  <2>3. CASE x = t
    BY <1>2, <2>2, <2>3 DEF SameOwn
  <2>4. CASE x = p
    <3>1. state[t].success /\ ~state'[p].hasChildFailures
      BY <1>2, <2>1, <2>2, <2>4
    <3>2. state'[p].stage # "finalized"
      BY <3>1 DEF Waits, Fails, IsComplete
    <3> QED BY <1>2, <2>2, <2>4, <3>1, <3>2 DEF SameParent
  <2>5. CASE x # t /\ x # p
    BY <1>3, <2>2, <2>5 DEF SameRelations
  <2> QED BY <2>3, <2>4, <2>5
<1>6. ParentsWait'
  <2> SUFFICES ASSUME NEW x \in DOMAIN state
               PROVE  /\ IsInjective(state'[x].unfinalizedParents)
                      /\ \A q \in ToSet(state'[x].unfinalizedParents) :
                            q \in DOMAIN state /\ state'[q].stage = "waiting"
    BY <1>2 DEF ParentsWait
  <2>1. IsInjective(state'[x].unfinalizedParents)
    <3>1. /\ IsInjective(state[x].unfinalizedParents)
          /\ state[x].unfinalizedParents \in Seq(Nat)
      BY Fields DEF Relations, ParentsWait
    <3>2. CASE x = t
      BY <3>1, <3>2, ToSetTail DEF Updates
    <3>3. CASE x # t
      BY <1>2, <1>3, <3>1, <3>3 DEF SameParent, SameRelations
    <3> QED BY <3>2, <3>3
  <2>2. ASSUME NEW q \in ToSet(state'[x].unfinalizedParents)
        PROVE  q \in DOMAIN state /\ state'[q].stage = "waiting"
    <3>1. x \in Holders(q)'
      BY <1>2, <2>2 DEF Holders, Holds
    <3>2. x \in Holders(q)
      BY <1>1, <3>1
    <3>3. q \in DOMAIN state /\ state[q].stage = "waiting"
      BY <3>2 DEF Holders, Holds, Relations, ParentsWait
    <3>4. CASE q = p
      <4>1. state'[p].unfinalizedChildrenCount # 0
        BY <1>1, <3>1, <3>4
      <4> QED BY <3>3, <3>4, <4>1 DEF Waits, Fails, IsComplete
    <3>5. CASE q # p
      BY <1>2, <1>3, <3>3, <3>5
    <3> QED BY <3>4, <3>5
  <2> QED BY <2>1, <2>2
<1>7. WaitsForLiveChildren'
  <2> SUFFICES ASSUME NEW q \in DOMAIN state', state'[q].stage = "waiting"
               PROVE  /\ state'[q].unfinalizedChildrenCount > 0
                      /\ state'[q].unfinalizedChildrenCount = Cardinality(Holders(q)')
    BY WaitsForHoldersNext
  <2>1. CASE q = p
    BY <1>1, <2>1 DEF Waits, Fails, IsComplete
  <2>2. CASE q # p
    <3>1. q # t
      BY <1>2
    <3>2. /\ q \in DOMAIN state /\ state[q].stage = "waiting"
          /\ state'[q].unfinalizedChildrenCount = state[q].unfinalizedChildrenCount
      BY <1>2, <1>3, <2>2, <3>1 DEF SameRelations
    <3> QED BY <1>1, <2>2, <3>2, WaitsForHolders DEF Relations
  <2> QED BY <2>1, <2>2
<1>8. FinalizationOK'
  <2> SUFFICES ASSUME NEW x \in DOMAIN state PROVE Finalization(x)'
    BY <1>2 DEF FinalizationOK
  <2>1. Finalization(x)
    BY DEF Relations, FinalizationOK
  <2>2. CASE x = t
    BY <1>2, <2>1, <2>2 DEF SameOwn, Finalization
  <2>3. CASE x = p
    BY <1>2, <1>4, <2>3 DEF SameParent, Finalization, Waits, Fails, IsComplete
  <2>4. CASE x # t /\ x # p
    BY <1>3, <2>1, <2>4 DEF SameRelations, Finalization
  <2> QED BY <2>2, <2>3, <2>4
<1>9. StackOK'
  <2>1. stack \in Seq(Nat) /\ IsInjective(stack) /\ p \in Nat
    BY <1>2, Fields DEF ServerTypeOK, Relations, StackOK
  <2>2. p \notin ToSet(stack)
    BY <1>4 DEF Relations, StackOK
  <2>3. ASSUME NEW x \in ToSet(stack) PROVE x \in DOMAIN state' /\ state'[x].finalizing
    <3>1. x \in DOMAIN state /\ state[x].finalizing
      BY DEF Relations, StackOK
    <3> QED BY <1>2, <1>3, <2>2, <3>1 DEF SameOwn, SameRelations
  <2>4. CASE Waits(p)
    BY <2>1, <2>3, <2>4 DEF StackOK, Waits
  <2>5. CASE Fails(p)
    <3>1. ToSet(stack') = ToSet(stack) \cup {p} /\ IsInjective(stack')
      BY <2>1, <2>2, <2>5, ToSetAppend DEF Fails
    <3> QED BY <1>2, <2>3, <2>5, <3>1 DEF StackOK, Fails
  <2>6. CASE IsComplete(p)
    BY <2>6, NothingInEmpty DEF StackOK, IsComplete
  <2> QED BY <2>4, <2>5, <2>6
<1> QED BY <1>5, <1>6, <1>7, <1>8, <1>9 DEF Relations
-----------------------------------------------------------------------------
(* The goroutine of an object that is finalized ends, or it is reported:   *)
(* the objectState is dropped once both have happened.                     *)
Concludes(s, sent, finalizing) ==
    /\ s \in DOMAIN state /\ state[s].stage = "finalized"
    /\ DOMAIN state' = IF sent /\ ~finalizing THEN DOMAIN state \ {s} ELSE DOMAIN state
    /\ \A t \in DOMAIN state : t # s => Spared(t)
    /\ s \in DOMAIN state' =>
          /\ state'[s].stage = "finalized"
          /\ state'[s].reference = state[s].reference
          /\ state'[s].unfinalizedParents = state[s].unfinalizedParents
          /\ state'[s].tags = IF finalizing THEN state[s].tags ELSE <<>>
          /\ state'[s].unfinalizedDAGsWithoutTagsCount
                = state[s].unfinalizedDAGsWithoutTagsCount
          /\ state'[s].hasChildFailures = state[s].hasChildFailures
          /\ state'[s].success = state[s].success
          /\ state'[s].releasesChildren = state[s].releasesChildren
          /\ state'[s].sent = sent /\ state'[s].finalizing = finalizing
    /\ ~finalizing => state[s].unfinalizedParents = <<>>
    /\ UNCHANGED objectsByReference \/ Detached(s)
    /\ sent => \A o \in DOMAIN objectsByReference' : objectsByReference'[o] # s
    /\ ToSet(stack') \subseteq ToSet(stack) /\ IsInjective(stack')
    /\ ~finalizing => s \notin ToSet(stack')

LEMMA WithoutGarbageEffect ==
    ASSUME ServerTypeOK, NEW s \in DOMAIN state, NEW r \in ObjectStates,
           state' = WithoutGarbage([state EXCEPT ![s] = r], s)
    PROVE  /\ DOMAIN state' = IF r.sent /\ ~r.finalizing THEN DOMAIN state \ {s}
                              ELSE DOMAIN state
           /\ state' \in [DOMAIN state' -> ObjectStates]
           /\ s \in DOMAIN state' => state'[s] = r
           /\ \A t \in DOMAIN state : t # s => state'[t] = state[t]
<1> DEFINE replaced == [state EXCEPT ![s] = r]
<1>1. /\ DOMAIN replaced = DOMAIN state
      /\ replaced \in [DOMAIN state -> ObjectStates]
      /\ replaced[s] = r
      /\ \A t \in DOMAIN state : t # s => replaced[t] = state[t]
  BY DEF ServerTypeOK
<1> HIDE DEF replaced
<1>2. CASE r.sent /\ ~r.finalizing
  <2>1. state' = [t \in DOMAIN state \ {s} |-> replaced[t]]
    BY <1>1, <1>2 DEF WithoutGarbage, Restrict, replaced
  <2> QED BY <1>1, <1>2, <2>1
<1>3. CASE ~(r.sent /\ ~r.finalizing)
  <2>1. state' = replaced
    BY <1>1, <1>3 DEF WithoutGarbage, replaced
  <2> QED BY <1>1, <1>3, <2>1
<1> QED BY <1>2, <1>3

LEMMA ReleaseEffect ==
    ASSUME ServerTypeOK, Relations, ReleaseObject
    PROVE  /\ Concludes(Top, state[Top].sent, FALSE) /\ stack # <<>> /\ Top \in ToSet(stack)
           /\ state[Top].finalizing
           /\ stack' = Front(stack) /\ UNCHANGED objectsByReference
           /\ state' \in [DOMAIN state' -> ObjectStates]
<1>1. stack \in Seq(Nat) /\ stack # <<>> /\ IsInjective(stack)
  BY DEF ServerTypeOK, ReleaseObject, Relations, StackOK
<1>2. PICK s : s = Top
  OBVIOUS
<1>3. /\ s \in ToSet(stack) /\ stack' = Front(stack) /\ IsInjective(stack')
      /\ ToSet(stack') = ToSet(stack) \ {s}
  BY <1>1, <1>2, ToSetFront DEF Top, ReleaseObject
<1>4. s \in DOMAIN state /\ state[s].finalizing
  BY <1>3 DEF Relations, StackOK
<1>5. state[s].stage = "finalized"
  BY <1>4 DEF Relations, FinalizationOK, Finalization
<1>6. state[s] \in ObjectStates /\ <<>> \in Seq(Nat)
  BY <1>4, Fields, EmptySeq
<1> DEFINE r == [state[s] EXCEPT !.finalizing = FALSE, !.tags = <<>>]
<1>7. state' = WithoutGarbage([state EXCEPT ![s] = r], s)
  <2>1. [state EXCEPT ![s].finalizing = FALSE, ![s].tags = <<>>] = [state EXCEPT ![s] = r]
    BY <1>4, <1>6 DEF ServerTypeOK, ObjectStates
  <2> QED BY <1>2, <2>1 DEF ReleaseObject
<1>8. /\ r \in ObjectStates /\ ~r.finalizing /\ r.tags = <<>>
      /\ r.stage = state[s].stage
      /\ r.reference = state[s].reference
      /\ r.unfinalizedParents = state[s].unfinalizedParents
      /\ r.unfinalizedDAGsWithoutTagsCount = state[s].unfinalizedDAGsWithoutTagsCount
      /\ r.hasChildFailures = state[s].hasChildFailures
      /\ r.success = state[s].success /\ r.sent = state[s].sent
      /\ r.releasesChildren = state[s].releasesChildren
      /\ r.finalizing = FALSE
  BY <1>6 DEF ObjectStates
<1> HIDE DEF r
<1>9. /\ DOMAIN state' = IF r.sent /\ ~r.finalizing THEN DOMAIN state \ {s} ELSE DOMAIN state
      /\ state' \in [DOMAIN state' -> ObjectStates]
      /\ s \in DOMAIN state' => state'[s] = r
      /\ \A t \in DOMAIN state : t # s => state'[t] = state[t]
  BY <1>4, <1>7, <1>8, WithoutGarbageEffect
<1>10. UNCHANGED objectsByReference /\ state[s].unfinalizedParents = <<>>
  BY <1>2 DEF ReleaseObject
<1>11. state[s].sent => \A o \in DOMAIN objectsByReference' : objectsByReference'[o] # s
  BY <1>10 DEF Relations, ReferencesAreLive
<1>12. \A t \in DOMAIN state : t # s => Spared(t)
  BY <1>9 DEF Spared, SameRelations
<1>13. Concludes(s, state[s].sent, FALSE)
  BY <1>3, <1>4, <1>5, <1>8, <1>9, <1>10, <1>11, <1>12 DEF Concludes
<1> QED BY <1>1, <1>2, <1>3, <1>4, <1>9, <1>10, <1>13

LEMMA SendFinalizeEffect ==
    ASSUME ServerTypeOK, Relations, QueuesOK, SendFinalizeObject
    PROVE  LET s == Head(finalizedQueue)
           IN  /\ Concludes(s, TRUE, state[s].finalizing)
               /\ s \in ToSet(finalizedQueue) /\ ~state[s].sent
               /\ stack = <<>> /\ UNCHANGED stack
               /\ Detached(s)
               /\ state' \in [DOMAIN state' -> ObjectStates]
<1>1. finalizedQueue \in Seq(Nat) /\ finalizedQueue # <<>> /\ IsInjective(finalizedQueue)
  BY DEF ServerTypeOK, SendFinalizeObject, QueuesOK
<1>2. PICK s : s = Head(finalizedQueue)
  OBVIOUS
<1>3. s \in ToSet(finalizedQueue)
  BY <1>1, <1>2, ToSetTail
<1>4. s \in DOMAIN state /\ state[s].stage = "finalized" /\ ~state[s].sent
  BY <1>3 DEF QueuesOK
<1>5. state[s] \in ObjectStates
  BY <1>4, Fields
<1>6. stack = <<>> /\ UNCHANGED stack
  BY DEF SendFinalizeObject, Send, LockIsFree
<1> DEFINE r == [state[s] EXCEPT !.sent = TRUE]
<1>7. state' = WithoutGarbage([state EXCEPT ![s] = r], s) /\ objectsByReference' = Detach(s)
  <2>1. [state EXCEPT ![s].sent = TRUE] = [state EXCEPT ![s] = r]
    BY <1>4, <1>5 DEF ServerTypeOK, ObjectStates
  <2> QED BY <1>2, <2>1 DEF SendFinalizeObject
<1>8. /\ r \in ObjectStates /\ r.sent /\ r.tags = state[s].tags
      /\ r.stage = state[s].stage
      /\ r.reference = state[s].reference
      /\ r.unfinalizedParents = state[s].unfinalizedParents
      /\ r.unfinalizedDAGsWithoutTagsCount = state[s].unfinalizedDAGsWithoutTagsCount
      /\ r.hasChildFailures = state[s].hasChildFailures
      /\ r.success = state[s].success /\ r.finalizing = state[s].finalizing
      /\ r.releasesChildren = state[s].releasesChildren
      /\ r.sent = TRUE
  BY <1>5 DEF ObjectStates
<1> HIDE DEF r
<1>9. /\ DOMAIN state' = IF r.sent /\ ~r.finalizing THEN DOMAIN state \ {s} ELSE DOMAIN state
      /\ state' \in [DOMAIN state' -> ObjectStates]
      /\ s \in DOMAIN state' => state'[s] = r
      /\ \A t \in DOMAIN state : t # s => state'[t] = state[t]
  BY <1>4, <1>7, <1>8, WithoutGarbageEffect
<1>10. Detached(s)
  BY <1>4, <1>7, DetachEffect DEF Relations
<1>11. ~state[s].finalizing => state[s].unfinalizedParents = <<>> /\ state[s].tags = <<>>
  BY <1>4 DEF Relations, FinalizationOK, Finalization
<1>12. \A t \in DOMAIN state : t # s => Spared(t)
  BY <1>9 DEF Spared, SameRelations
<1>13. /\ ToSet(stack') = {} /\ ToSet(stack') \subseteq ToSet(stack) /\ IsInjective(stack')
  BY <1>6, NothingInEmpty
<1>14. \A o \in DOMAIN objectsByReference' : objectsByReference'[o] # s
  BY <1>10 DEF Detached
<1>15. Concludes(s, TRUE, state[s].finalizing)
  BY <1>4, <1>8, <1>9, <1>10, <1>11, <1>12, <1>13, <1>14 DEF Concludes
<1> QED BY <1>2, <1>3, <1>4, <1>6, <1>9, <1>10, <1>15

LEMMA ConcludesRelations ==
    ASSUME ServerTypeOK, Relations, NEW s, NEW sent \in BOOLEAN, NEW finalizing \in BOOLEAN,
           Concludes(s, sent, finalizing), state[s].finalizing \/ ~finalizing
    PROVE  Relations'
<1> USE DEF Concludes
<1>1. ASSUME NEW t \in DOMAIN state, t # s
      PROVE  SameRelations(t) /\ state'[t].stage = state[t].stage /\ t \in DOMAIN state'
  BY <1>1 DEF Spared
<1>2. DOMAIN state' \subseteq DOMAIN state
  OBVIOUS
<1>3. ReferencesAreLive'
  <2> SUFFICES ASSUME NEW o \in DOMAIN objectsByReference'
               PROVE  LET t == objectsByReference'[o]
                      IN  /\ state'[t].reference = o
                          /\ ~state'[t].sent /\ ~state'[t].hasChildFailures
                          /\ state'[t].stage = "finalized" => state'[t].success
    BY DEF ReferencesAreLive
  <2> DEFINE t == objectsByReference'[o]
  <2>1. o \in DOMAIN objectsByReference /\ t = objectsByReference[o]
    BY DEF Detached
  <2>2. /\ t \in DOMAIN state /\ state[t].reference = o
        /\ ~state[t].sent /\ ~state[t].hasChildFailures
        /\ state[t].stage = "finalized" => state[t].success
    BY <2>1 DEF ServerTypeOK, Relations, ReferencesAreLive
  <2>3. CASE t = s
    <3>1. ~sent
      BY <2>3
    <3> QED BY <2>2, <2>3, <3>1
  <2>4. CASE t # s
    BY <1>1, <2>2, <2>4 DEF SameRelations
  <2> QED BY <2>3, <2>4
<1>4. ASSUME NEW t \in DOMAIN state'
      PROVE  state'[t].unfinalizedParents = state[t].unfinalizedParents
  BY <1>1, <1>2 DEF SameRelations
<1>5. ParentsWait'
  <2>1. ASSUME NEW t \in DOMAIN state, NEW p \in ToSet(state[t].unfinalizedParents)
        PROVE  p \in DOMAIN state' /\ state'[p].stage = "waiting"
    <3>1. p \in DOMAIN state /\ state[p].stage = "waiting"
      BY DEF Relations, ParentsWait
    <3> QED BY <1>1, <3>1
  <2> QED BY <1>2, <1>4, <2>1 DEF Relations, ParentsWait
<1>6. ASSUME NEW p PROVE Holders(p)' = Holders(p)
  <2>1. s \notin DOMAIN state' => ~Holds(s, p)
    BY NothingInEmpty DEF Holds
  <2>2. DOMAIN state = DOMAIN state' \/ DOMAIN state = DOMAIN state' \cup {s}
    OBVIOUS
  <2> QED BY <1>2, <1>4, <2>1, <2>2 DEF Holders, Holds
<1>7. WaitsForLiveChildren'
  <2> SUFFICES ASSUME NEW q \in DOMAIN state', state'[q].stage = "waiting"
               PROVE  /\ state'[q].unfinalizedChildrenCount > 0
                      /\ state'[q].unfinalizedChildrenCount = Cardinality(Holders(q)')
    BY WaitsForHoldersNext
  <2>1. q # s /\ q \in DOMAIN state
    BY <1>2
  <2> QED BY <1>1, <1>6, <2>1, WaitsForHolders DEF Relations, SameRelations
<1>8. FinalizationOK'
  <2> SUFFICES ASSUME NEW t \in DOMAIN state' PROVE Finalization(t)'
    BY DEF FinalizationOK
  <2>1. Finalization(t)
    BY <1>2 DEF Relations, FinalizationOK
  <2>2. CASE t = s
    <3>1. sent => finalizing
      BY <2>2
    <3> QED BY <2>1, <2>2, <3>1 DEF Finalization
  <2>3. CASE t # s
    BY <1>1, <1>2, <2>1, <2>3 DEF Finalization, SameRelations
  <2> QED BY <2>2, <2>3
<1>9. StackOK'
  <2>1. ASSUME NEW t \in ToSet(stack') PROVE t \in DOMAIN state' /\ state'[t].finalizing
    <3>1. t \in DOMAIN state /\ state[t].finalizing
      BY DEF Relations, StackOK
    <3>2. t = s => finalizing
      OBVIOUS
    <3> QED BY <1>1, <3>1, <3>2 DEF SameRelations
  <2> QED BY <2>1 DEF StackOK
<1> QED BY <1>3, <1>5, <1>7, <1>8, <1>9 DEF Relations

LEMMA RelockRelations ==
    ASSUME ServerTypeOK, Relations, NEW s \in DOMAIN state, Relock(s)
    PROVE  Relations'
<1>1. /\ state' = state /\ objectsByReference' = objectsByReference /\ stack' = <<s>>
      /\ state[s].finalizing
  BY DEF Relock
<1>2. s \in Nat
  BY Fields
<1>3. StackOK'
  BY <1>1, <1>2, OneElement DEF StackOK
<1>4. ReferencesAreLive' /\ ParentsWait' /\ WaitsForLiveChildren' /\ FinalizationOK'
  BY <1>1 DEF Relations, ReferencesAreLive, ParentsWait, WaitsForLiveChildren,
              FinalizationOK, Finalization
<1> QED BY <1>3, <1>4 DEF Relations

LEMMA InitiateRelations ==
    ASSUME ServerTypeOK, ClientTypeOK, Relations, nextReferenceIndex = 0,
           state' = [x \in {0} |-> Root], objectsByReference' = [x \in {root} |-> 0],
           UNCHANGED stack
    PROVE  Relations'
<1>1. /\ Root.stage = "pending" /\ Root.reference = root
      /\ Root.unfinalizedParents = <<>>
      /\ ~Root.hasChildFailures /\ ~Root.sent
      /\ ~Root.finalizing /\ ~Root.releasesChildren
  BY RootFields
<1>2. DOMAIN state = {}
  BY NoStates
<1>3. DOMAIN state' = {0} /\ state'[0] = Root
  OBVIOUS
<1>4. DOMAIN objectsByReference' = {root} /\ objectsByReference'[root] = 0
  OBVIOUS
<1>5. ReferencesAreLive'
  BY <1>1, <1>3, <1>4 DEF ReferencesAreLive
<1>6. ParentsWait'
  BY <1>1, <1>3, NothingInEmpty DEF ParentsWait
<1>7. WaitsForLiveChildren'
  BY <1>1, <1>3 DEF WaitsForLiveChildren
<1>8. FinalizationOK'
  BY <1>1, <1>3 DEF FinalizationOK, Finalization
<1>9. StackOK'
  BY <1>2 DEF Relations, StackOK
<1> QED BY <1>5, <1>6, <1>7, <1>8, <1>9 DEF Relations
-----------------------------------------------------------------------------
(* The parts of ServerTypeOK. *)
StateTypes ==
    /\ nextReferenceIndex \in Nat
    /\ DOMAIN state \subseteq 0 .. nextReferenceIndex - 1
    /\ state \in [DOMAIN state -> ObjectStates]
    /\ DOMAIN objectsByReference \subseteq Objects
    /\ objectsByReference \in [DOMAIN objectsByReference -> DOMAIN state]

QueueTypes ==
    requestedQueue \in Seq(Nat) /\ finalizedQueue \in Seq(Nat)

OtherTypes ==
    /\ unfinalizedDAGsCount \in Int /\ stack \in Seq(Nat)
    /\ finalizedTags \in Seq(FinalizeTags)
    /\ incomingWaits \in SUBSET Nat /\ tagWrites \in SUBSET (Nat \X Objects)
    /\ status \in {"receiving", "gracefulShutdown", "allSent", "returned", "failed"}
    /\ exists \in SUBSET Objects /\ tagged \in SUBSET Objects
    /\ errors \in Nat /\ expirations \in Nat

LimitType == remaining \in [count : Nat, sizeBytes : Nat]

LEMMA TypeParts ==
    ServerTypeOK <=> StateTypes /\ QueueTypes /\ OtherTypes /\ LimitType
  BY DEF ServerTypeOK, StateTypes, QueueTypes, OtherTypes, LimitType

LEMMA TypePartsNext ==
    ServerTypeOK' <=> StateTypes' /\ QueueTypes' /\ OtherTypes' /\ LimitType'
  BY DEF ServerTypeOK, StateTypes, QueueTypes, OtherTypes, LimitType

LEMMA StructureParts ==
    Structure <=> /\ StateTypes /\ QueueTypes /\ OtherTypes /\ LimitType
                  /\ ClientTypeOK /\ Relations /\ QueuesOK /\ RequestsOK
  BY TypeParts DEF Structure, TypeOK, Relations

LEMMA StructurePartsNext ==
    Structure' <=> /\ StateTypes' /\ QueueTypes' /\ OtherTypes' /\ LimitType'
                   /\ ClientTypeOK' /\ Relations' /\ QueuesOK' /\ RequestsOK'
  BY TypePartsNext DEF Structure, TypeOK, Relations

LEMMA SameClient ==
    ASSUME ClientTypeOK, UNCHANGED clientVars
    PROVE  ClientTypeOK' /\ UNCHANGED <<root, rootTag>>
  BY DEF ClientTypeOK, clientVars, upload

LEMMA SameRequests ==
    ASSUME RequestsOK, UNCHANGED <<requests, nextReferenceIndex, clientVars>>
    PROVE  RequestsOK'
  BY DEF RequestsOK, Messages, clientVars, upload

LEMMA SameStateTypes ==
    ASSUME StateTypes, UNCHANGED nextReferenceIndex,
           DOMAIN state' = DOMAIN state, state' \in [DOMAIN state' -> ObjectStates],
           UNCHANGED objectsByReference \/ \E s : Detached(s)
    PROVE  StateTypes'
<1>1. /\ DOMAIN objectsByReference' \subseteq DOMAIN objectsByReference
      /\ \A o \in DOMAIN objectsByReference' : objectsByReference'[o] \in DOMAIN state
      /\ objectsByReference' = [o \in DOMAIN objectsByReference' |-> objectsByReference'[o]]
  BY DEF StateTypes, Detached
<1>2. objectsByReference' \in [DOMAIN objectsByReference' -> DOMAIN state']
  BY <1>1
<1> QED BY <1>1, <1>2 DEF StateTypes

(* No objectState that is queued changes. *)
LEMMA SameQueues ==
    ASSUME QueuesOK, QueueTypes, UNCHANGED <<requestedQueue, finalizedQueue>>,
           \A s \in DOMAIN state : state[s].stage = "requestQueued" =>
               s \in DOMAIN state' /\ state'[s].stage = "requestQueued",
           \A s \in DOMAIN state : state[s].stage = "finalized" /\ ~state[s].sent =>
               s \in DOMAIN state' /\ state'[s].stage = "finalized" /\ ~state'[s].sent
    PROVE  QueuesOK' /\ QueueTypes'
  BY DEF QueuesOK, QueueTypes

LEMMA AdvanceQueues ==
    ASSUME QueuesOK, QueueTypes, UNCHANGED <<requestedQueue, finalizedQueue>>,
           NEW s, Advances(s), state[s].stage # "requestQueued"
    PROVE  QueuesOK' /\ QueueTypes'
<1>1. ASSUME NEW t \in DOMAIN state,
             state[t].stage = "requestQueued" \/ state[t].stage = "finalized"
      PROVE  t \in DOMAIN state' /\ state'[t].stage = state[t].stage /\ state'[t].sent = state[t].sent
  <2>1. t # s
    BY <1>1 DEF Advances, Early
  <2> QED BY <2>1 DEF Advances, Spared, SameRelations
<1> QED BY <1>1, SameQueues
-----------------------------------------------------------------------------
(* The steps of goroutines, one after another. *)
LEMMA AdvanceStructure ==
    ASSUME Structure, NEW s, Advances(s), state' \in [DOMAIN state' -> ObjectStates],
           QueuesOK' /\ QueueTypes', OtherTypes', LimitType',
           UNCHANGED <<requests, nextReferenceIndex, clientVars>>
    PROVE  Structure'
<1>1. /\ StateTypes /\ QueueTypes /\ OtherTypes /\ LimitType
      /\ ClientTypeOK /\ Relations /\ QueuesOK /\ RequestsOK /\ ServerTypeOK
  BY StructureParts, TypeParts
<1>2. Relations'
  BY <1>1, AdvanceRelations
<1>3. StateTypes'
  BY <1>1, SameStateTypes DEF Advances
<1> QED BY <1>1, <1>2, <1>3, SameClient, SameRequests, StructurePartsNext

LEMMA AcquiredType ==
    ASSUME LimitType, NEW o \in Objects, CanAcquireParentAndChildren(remaining, o)
    PROVE  AcquireParentAndChildren(remaining, o) \in [count : Nat, sizeBytes : Nat]
<1>1. /\ Height[o] \in Nat /\ Size[o] \in Nat /\ MaximumTotalParentsSizeBytes[o] \in Nat
  BY ReferencesAssumption
<1>2. /\ ParentAndChildren(o).count \in Nat /\ ParentAndChildren(o).sizeBytes \in Nat
  BY <1>1 DEF ParentAndChildren
<1>3. /\ remaining.count \in Nat /\ remaining.sizeBytes \in Nat
      /\ remaining.count >= ParentAndChildren(o).count
      /\ remaining.sizeBytes >= ParentAndChildren(o).sizeBytes
  BY DEF LimitType, CanAcquireParentAndChildren
<1>4. /\ remaining.count - ParentAndChildren(o).count \in Nat
      /\ remaining.sizeBytes - ParentAndChildren(o).sizeBytes \in Nat
  BY <1>2, <1>3
<1> QED BY <1>4 DEF AcquireParentAndChildren

LEMMA ReleasedType ==
    ASSUME NEW limit \in [count : Nat, sizeBytes : Nat], NEW o \in Objects
    PROVE  /\ ReleaseChildren(limit, o) \in [count : Nat, sizeBytes : Nat]
           /\ ReleaseParent(limit, o) \in [count : Nat, sizeBytes : Nat]
<1>1. /\ Height[o] \in Nat /\ Size[o] \in Nat /\ MaximumTotalParentsSizeBytes[o] \in Nat
  BY ReferencesAssumption
<1>2. limit.count \in Nat /\ limit.sizeBytes \in Nat
  OBVIOUS
<1>3. /\ Height[o] # 0 => limit.count + Height[o] - 1 \in Nat
      /\ limit.sizeBytes + MaximumTotalParentsSizeBytes[o] \in Nat
      /\ limit.count + 1 \in Nat /\ limit.sizeBytes + Size[o] \in Nat
  BY <1>1, <1>2
<1> QED BY <1>3 DEF ReleaseChildren, ReleaseParent

LEMMA GetPendingObjectStructure ==
    ASSUME Structure, NEW s \in DOMAIN state, GetPendingObject(s), UNCHANGED clientVars
    PROVE  Structure'
<1>1. /\ StateTypes /\ QueueTypes /\ OtherTypes /\ LimitType /\ QueuesOK /\ ServerTypeOK
  BY StructureParts, TypeParts
<1>2. /\ Advances(s) /\ state' \in [DOMAIN state' -> ObjectStates]
  BY <1>1, GetPendingObjectAdvances
<1>3. UNCHANGED <<channel, dags, queues, stack, threads, storage>> /\ state[s].stage = "pending"
  BY DEF GetPendingObject
<1>4. OtherTypes'
  BY <1>1, <1>3 DEF OtherTypes, dags, queues, threads, storage
<1>5. LimitType'
  BY <1>1, AcquiredType, Fields DEF GetPendingObject, LimitType
<1>6. QueuesOK' /\ QueueTypes'
  BY <1>1, <1>2, <1>3, AdvanceQueues DEF queues
<1> QED BY <1>2, <1>3, <1>4, <1>5, <1>6, AdvanceStructure DEF channel, dags

LEMMA StartCheckStructure ==
    ASSUME Structure, NEW s \in DOMAIN state, StartCheck(s), UNCHANGED clientVars
    PROVE  Structure'
<1>1. /\ StateTypes /\ QueueTypes /\ OtherTypes /\ LimitType /\ QueuesOK /\ ServerTypeOK
  BY StructureParts, TypeParts
<1>2. /\ Advances(s) /\ state' \in [DOMAIN state' -> ObjectStates]
  BY <1>1, StartCheckAdvances
<1>3. /\ UNCHANGED <<channel, remaining, dags, queues, stack, threads, storage>>
      /\ state[s].stage = "popped"
  BY DEF StartCheck
<1>4. OtherTypes' /\ LimitType'
  BY <1>1, <1>3 DEF OtherTypes, LimitType, dags, queues, threads, storage
<1>5. QueuesOK' /\ QueueTypes'
  BY <1>1, <1>2, <1>3, AdvanceQueues DEF queues
<1> QED BY <1>2, <1>3, <1>4, <1>5, AdvanceStructure DEF channel, dags

LEMMA CheckObjectStructure ==
    ASSUME Structure, NEW s \in DOMAIN state, CheckObject(s), UNCHANGED clientVars
    PROVE  Structure'
<1>1. /\ StateTypes /\ QueueTypes /\ OtherTypes /\ LimitType /\ QueuesOK /\ ServerTypeOK
  BY StructureParts, TypeParts
<1>2. /\ Advances(s) /\ state' \in [DOMAIN state' -> ObjectStates]
  BY <1>1, CheckObjectAdvances
<1>3. /\ UNCHANGED <<channel, remaining, dags, queues, stack, threads, storage>>
      /\ state[s].stage = "check"
  BY DEF CheckObject
<1>4. OtherTypes' /\ LimitType'
  BY <1>1, <1>3 DEF OtherTypes, LimitType, dags, queues, threads, storage
<1>5. QueuesOK' /\ QueueTypes'
  BY <1>1, <1>2, <1>3, AdvanceQueues DEF queues
<1> QED BY <1>2, <1>3, <1>4, <1>5, AdvanceStructure DEF channel, dags

LEMMA StorageFailsStructure ==
    ASSUME Structure, NEW s \in DOMAIN state, StorageFails(s), UNCHANGED clientVars
    PROVE  Structure'
<1>1. /\ StateTypes /\ QueueTypes /\ OtherTypes /\ LimitType /\ QueuesOK /\ ServerTypeOK
  BY StructureParts, TypeParts
<1>2. /\ Advances(s) /\ state' \in [DOMAIN state' -> ObjectStates]
  BY <1>1, StorageFailsAdvances
<1>3. /\ UNCHANGED <<channel, remaining, dags, queues, stack, threads, exists, tagged,
                     expirations>>
      /\ state[s].stage \in {"check", "put"} /\ errors' = errors + 1
  BY DEF StorageFails
<1>4. OtherTypes' /\ LimitType'
  BY <1>1, <1>3 DEF OtherTypes, LimitType, dags, queues, threads
<1>5. QueuesOK' /\ QueueTypes'
  BY <1>1, <1>2, <1>3, AdvanceQueues DEF queues
<1> QED BY <1>2, <1>3, <1>4, <1>5, AdvanceStructure DEF channel, dags

LEMMA StartPutStructure ==
    ASSUME Structure, NEW s \in DOMAIN state, StartPut(s), UNCHANGED clientVars
    PROVE  Structure'
<1>1. /\ StateTypes /\ QueueTypes /\ OtherTypes /\ LimitType /\ QueuesOK /\ ServerTypeOK
  BY StructureParts, TypeParts
<1>2. /\ Advances(s) /\ state' \in [DOMAIN state' -> ObjectStates]
  BY <1>1, StartPutAdvances
<1>3. /\ UNCHANGED <<channel, remaining, dags, queues, stack, tagWrites, status, storage>>
      /\ state[s].stage = "putQueued" /\ incomingWaits' = incomingWaits \ {s}
  BY DEF StartPut
<1>4. OtherTypes' /\ LimitType'
  BY <1>1, <1>3 DEF OtherTypes, LimitType, dags, queues, storage
<1>5. QueuesOK' /\ QueueTypes'
  BY <1>1, <1>2, <1>3, AdvanceQueues DEF queues
<1> QED BY <1>2, <1>3, <1>4, <1>5, AdvanceStructure DEF channel, dags

LEMMA PutObjectStructure ==
    ASSUME Structure, NEW s \in DOMAIN state, PutObject(s), UNCHANGED clientVars
    PROVE  Structure'
<1>1. /\ StateTypes /\ QueueTypes /\ OtherTypes /\ LimitType /\ QueuesOK /\ ServerTypeOK
  BY StructureParts, TypeParts
<1>2. /\ Advances(s) /\ state' \in [DOMAIN state' -> ObjectStates]
      /\ exists' = exists \cup {state[s].reference}
  BY <1>1, PutObjectAdvances
<1>3. /\ UNCHANGED <<channel, remaining, dags, queues, stack, threads, tagged, errors>>
      /\ state[s].stage = "put" /\ expirations' \in {expirations, expirations + 1}
  BY DEF PutObject
<1>4. state[s].reference \in Objects
  BY <1>1, Fields
<1>5. OtherTypes' /\ LimitType'
  BY <1>1, <1>2, <1>3, <1>4 DEF OtherTypes, LimitType, dags, queues, threads
<1>6. QueuesOK' /\ QueueTypes'
  BY <1>1, <1>2, <1>3, AdvanceQueues DEF queues
<1> QED BY <1>2, <1>3, <1>5, <1>6, AdvanceStructure DEF channel, dags

LEMMA QueueRequestStructure ==
    ASSUME Structure, NEW s \in DOMAIN state, QueueRequestObjectContents(s),
           UNCHANGED clientVars
    PROVE  Structure'
<1>1. /\ StateTypes /\ QueueTypes /\ OtherTypes /\ LimitType /\ QueuesOK /\ ServerTypeOK
  BY StructureParts, TypeParts
<1>2. /\ Advances(s) /\ state' \in [DOMAIN state' -> ObjectStates]
      /\ state'[s].stage = "requestQueued"
  BY <1>1, QueueRequestAdvances
<1>3. /\ UNCHANGED <<channel, remaining, dags, finalizedQueue, finalizedTags, stack,
                     threads, storage>>
      /\ state[s].stage = "checked" /\ requestedQueue' = Append(requestedQueue, s)
  BY DEF QueueRequestObjectContents
<1>4. OtherTypes' /\ LimitType'
  BY <1>1, <1>3 DEF OtherTypes, LimitType, dags, threads, storage
<1>5. s \notin ToSet(requestedQueue) /\ s \in Nat /\ requestedQueue \in Seq(Nat)
      /\ IsInjective(requestedQueue)
  BY <1>1, <1>3, Fields DEF QueuesOK, QueueTypes
<1>6. /\ requestedQueue' \in Seq(Nat) /\ ToSet(requestedQueue') = ToSet(requestedQueue) \cup {s}
      /\ IsInjective(requestedQueue')
  BY <1>3, <1>5, ToSetAppend
<1>7. ASSUME NEW t \in DOMAIN state, t # s
      PROVE  t \in DOMAIN state' /\ state'[t].stage = state[t].stage /\ state'[t].sent = state[t].sent
  BY <1>2, <1>7 DEF Advances, Spared, SameRelations
<1>8. s \in DOMAIN state'
  BY <1>2 DEF Advances
<1>9. QueuesOK' /\ QueueTypes'
  BY <1>1, <1>2, <1>3, <1>5, <1>6, <1>7, <1>8 DEF QueuesOK, QueueTypes
<1> QED BY <1>2, <1>3, <1>4, <1>9, AdvanceStructure DEF channel, dags

LEMMA SendRequestStructure ==
    ASSUME Structure, SendRequestObjectContents, UNCHANGED clientVars
    PROVE  Structure'
<1>1. /\ StateTypes /\ QueueTypes /\ OtherTypes /\ LimitType /\ QueuesOK /\ ServerTypeOK
  BY StructureParts, TypeParts
<1>2. PICK s : s = Head(requestedQueue)
  OBVIOUS
<1>3. /\ Advances(s) /\ state' \in [DOMAIN state' -> ObjectStates]
      /\ s \in DOMAIN state /\ state[s].stage = "requestQueued"
  BY <1>2, SendRequestAdvances
<1>4. /\ UNCHANGED <<requests, remaining, dags, finalizedQueue, finalizedTags, stack, threads,
                     storage>>
      /\ requestedQueue # <<>> /\ requestedQueue' = Tail(requestedQueue)
  BY DEF SendRequestObjectContents, Send, dags
<1>5. OtherTypes' /\ LimitType'
  BY <1>1, <1>4 DEF OtherTypes, LimitType, dags, threads, storage
<1>6. /\ requestedQueue' \in Seq(Nat) /\ ToSet(requestedQueue') = ToSet(requestedQueue) \ {s}
      /\ IsInjective(requestedQueue')
  BY <1>1, <1>2, <1>4, ToSetTail DEF QueuesOK, QueueTypes
<1>7. ASSUME NEW t \in DOMAIN state, t # s
      PROVE  t \in DOMAIN state' /\ state'[t].stage = state[t].stage /\ state'[t].sent = state[t].sent
  BY <1>3, <1>7 DEF Advances, Spared, SameRelations
<1>8. QueuesOK' /\ QueueTypes'
  BY <1>1, <1>3, <1>4, <1>6, <1>7 DEF QueuesOK, QueueTypes
<1> QED BY <1>3, <1>4, <1>5, <1>8, AdvanceStructure DEF dags

LEMMA FinalizeStructure ==
    ASSUME Structure, NEW s \in DOMAIN state, state[s].stage \in {"checked", "written"},
           NEW success \in BOOLEAN, NEW lease \in BOOLEAN, NEW checked \in BOOLEAN,
           Finalize(s, success, lease, checked), UNCHANGED channel, UNCHANGED clientVars
    PROVE  Structure'
<1>1. /\ StateTypes /\ QueueTypes /\ OtherTypes /\ LimitType
      /\ ClientTypeOK /\ Relations /\ QueuesOK /\ RequestsOK /\ ServerTypeOK
  BY StructureParts, TypeParts
<1>2. Finalizes(s, success, checked) /\ state' \in [DOMAIN state' -> ObjectStates]
  BY <1>1, FinalizeEffect DEF Relations
<1>3. Relations'
  <2>1. state[s].stage \in Early
    BY DEF Early, Stages, Checking, Writing
  <2> QED BY <1>1, <1>2, <2>1, FinalizesRelations
<1>4. /\ UNCHANGED <<remaining, dags, requestedQueue, finalizedTags, threads, storage>>
      /\ finalizedQueue' = Append(finalizedQueue, s) /\ stack' = <<s>>
  BY DEF Finalize
<1>5. s \in Nat /\ stack' \in Seq(Nat)
  <2>1. s \in Nat
    BY <1>1, Fields
  <2> QED BY <1>4, <2>1
<1>6. OtherTypes' /\ LimitType'
  BY <1>1, <1>4, <1>5 DEF OtherTypes, LimitType, dags, threads, storage
<1>7. StateTypes'
  BY <1>1, <1>2, <1>4, SameStateTypes DEF Finalizes, dags
<1>8. /\ s \notin ToSet(finalizedQueue) /\ finalizedQueue \in Seq(Nat)
      /\ s \notin ToSet(requestedQueue)
      /\ IsInjective(finalizedQueue)
  BY <1>1 DEF QueuesOK, QueueTypes
<1>9. /\ finalizedQueue' \in Seq(Nat) /\ ToSet(finalizedQueue') = ToSet(finalizedQueue) \cup {s}
      /\ IsInjective(finalizedQueue')
  BY <1>4, <1>5, <1>8, ToSetAppend
<1>10. /\ s \in DOMAIN state' /\ state'[s].stage = "finalized" /\ ~state'[s].sent
  <2>1. ~state[s].sent
    BY <1>1, Fields DEF Relations, FinalizationOK, Finalization
  <2> QED BY <1>2, <2>1 DEF Finalizes
<1>11. ASSUME NEW t \in DOMAIN state, t # s
       PROVE  t \in DOMAIN state' /\ state'[t].stage = state[t].stage
              /\ state'[t].sent = state[t].sent
  BY <1>2, <1>11 DEF Finalizes, Spared, SameRelations
<1>12. QueuesOK' /\ QueueTypes'
  BY <1>1, <1>4, <1>8, <1>9, <1>10, <1>11 DEF QueuesOK, QueueTypes
<1>13. UNCHANGED <<requests, nextReferenceIndex>>
  BY <1>4 DEF channel, dags
<1> QED BY <1>1, <1>3, <1>6, <1>7, <1>12, <1>13, SameClient, SameRequests, StructurePartsNext

LEMMA FinishCheckStructure ==
    ASSUME Structure, NEW s \in DOMAIN state, FinishCheck(s), UNCHANGED clientVars
    PROVE  Structure'
<1>1. PICK success \in BOOLEAN : success = (state[s].result = "complete")
  OBVIOUS
<1>2. Finalize(s, success, success, TRUE) /\ UNCHANGED channel /\ state[s].stage = "checked"
  BY <1>1 DEF FinishCheck
<1> QED BY <1>2, FinalizeStructure

LEMMA FinishPutStructure ==
    ASSUME Structure, NEW s \in DOMAIN state, FinishPut(s), UNCHANGED clientVars
    PROVE  Structure'
<1>1. PICK success \in BOOLEAN : success = (state[s].result # "error")
  OBVIOUS
<1>2. PICK lease \in BOOLEAN : lease = (state[s].result = "complete")
  OBVIOUS
<1>3. Finalize(s, success, lease, FALSE) /\ UNCHANGED channel /\ state[s].stage = "written"
  BY <1>1, <1>2 DEF FinishPut
<1> QED BY <1>3, FinalizeStructure

LEMMA UpdatesStructure ==
    ASSUME Structure, NEW t, NEW p, Updates(t, p), Waits(p) \/ Fails(p) \/ IsComplete(p),
           state' \in [DOMAIN state' -> ObjectStates],
           UNCHANGED <<channel, remaining, dags, requestedQueue, finalizedTags, threads,
                       storage>>,
           finalizedQueue' = IF Fails(p) THEN Append(finalizedQueue, p) ELSE finalizedQueue,
           UNCHANGED clientVars
    PROVE  Structure'
<1>1. /\ StateTypes /\ QueueTypes /\ OtherTypes /\ LimitType
      /\ ClientTypeOK /\ Relations /\ QueuesOK /\ RequestsOK /\ ServerTypeOK
  BY StructureParts, TypeParts
<1>2. Relations'
  BY <1>1, UpdatesRelations
<1>3. p \in DOMAIN state /\ t \in DOMAIN state /\ t # p /\ DOMAIN state' = DOMAIN state
      /\ state[p].stage = "waiting" /\ p \in Nat
  BY <1>1, Fields DEF Updates
<1>4. stack' \in Seq(Nat)
  <2>1. stack \in Seq(Nat)
    BY <1>1 DEF OtherTypes
  <2>2. Append(stack, p) \in Seq(Nat) /\ <<>> \in Seq(Nat)
    BY <1>3, <2>1, EmptySeq, AppendProperties
  <2> QED BY <2>1, <2>2 DEF Waits, Fails, IsComplete
<1>5. OtherTypes' /\ LimitType'
  BY <1>1, <1>4 DEF OtherTypes, LimitType, dags, threads, storage
<1>6. StateTypes'
  BY <1>1, SameStateTypes DEF Updates, dags
<1>7. /\ p \notin ToSet(finalizedQueue) /\ p \notin ToSet(requestedQueue)
      /\ finalizedQueue \in Seq(Nat) /\ IsInjective(finalizedQueue)
  BY <1>1, <1>3 DEF QueuesOK, QueueTypes
<1>8. ASSUME NEW x \in DOMAIN state, x # p
      PROVE  x \in DOMAIN state' /\ state'[x].stage = state[x].stage
             /\ state'[x].sent = state[x].sent
  BY <1>3, <1>8 DEF Updates, Spared, SameRelations, SameOwn
<1>9. QueuesOK' /\ QueueTypes'
  <2>1. CASE ~Fails(p)
    BY <1>1, <1>7, <1>8, <2>1 DEF QueuesOK, QueueTypes
  <2>2. CASE Fails(p)
    <3>1. /\ finalizedQueue' \in Seq(Nat)
          /\ ToSet(finalizedQueue') = ToSet(finalizedQueue) \cup {p}
          /\ IsInjective(finalizedQueue')
      BY <1>3, <1>7, <2>2, ToSetAppend
    <3>2. state'[p].stage = "finalized" /\ ~state'[p].sent /\ p \in DOMAIN state'
      <4>1. ~state[p].sent
        BY <1>1, <1>3, Fields DEF Relations, FinalizationOK, Finalization
      <4> QED BY <1>3, <2>2, <4>1 DEF Fails, Updates, SameParent
    <3> QED BY <1>1, <1>7, <1>8, <3>1, <3>2 DEF QueuesOK, QueueTypes
  <2> QED BY <2>1, <2>2
<1>10. UNCHANGED <<requests, nextReferenceIndex>>
  BY DEF channel, dags
<1> QED BY <1>1, <1>2, <1>5, <1>6, <1>9, <1>10, SameClient, SameRequests, StructurePartsNext

LEMMA ParentWaitsStructure ==
    ASSUME Structure, ParentWaits, UNCHANGED clientVars
    PROVE  Structure'
<1>1. Relations /\ ServerTypeOK
  BY StructureParts, TypeParts
<1>2. PICK t, p : t = Top /\ p = Parent
  OBVIOUS
<1>3. Updates(t, p) /\ Waits(p) /\ state' \in [DOMAIN state' -> ObjectStates]
  BY <1>1, <1>2, ParentWaitsEffect
<1>4. ~Fails(p)
  BY <1>3 DEF Waits, Fails
<1>5. UNCHANGED <<channel, remaining, dags, requestedQueue, finalizedQueue, finalizedTags,
                  threads, storage>>
  BY DEF ParentWaits, UpdateParent
<1> QED BY <1>3, <1>4, <1>5, UpdatesStructure

LEMMA ParentFailsStructure ==
    ASSUME Structure, ParentFails, UNCHANGED clientVars
    PROVE  Structure'
<1>1. Relations /\ ServerTypeOK
  BY StructureParts, TypeParts
<1>2. PICK t, p : t = Top /\ p = Parent
  OBVIOUS
<1>3. Updates(t, p) /\ Fails(p) /\ state' \in [DOMAIN state' -> ObjectStates]
  BY <1>1, <1>2, ParentFailsEffect
<1>4. /\ UNCHANGED <<channel, remaining, dags, requestedQueue, finalizedTags, threads,
                     storage>>
      /\ finalizedQueue' = Append(finalizedQueue, p)
  BY <1>2 DEF ParentFails, UpdateParent
<1> QED BY <1>3, <1>4, UpdatesStructure

LEMMA ParentIsCompleteStructure ==
    ASSUME Structure, ParentIsComplete, UNCHANGED clientVars
    PROVE  Structure'
<1>1. Relations /\ ServerTypeOK
  BY StructureParts, TypeParts
<1>2. PICK t, p : t = Top /\ p = Parent
  OBVIOUS
<1>3. Updates(t, p) /\ IsComplete(p) /\ state' \in [DOMAIN state' -> ObjectStates]
  BY <1>1, <1>2, ParentIsCompleteEffect
<1>4. ~Fails(p)
  BY <1>3 DEF IsComplete, Fails
<1>5. UNCHANGED <<channel, remaining, dags, requestedQueue, finalizedQueue, finalizedTags,
                  threads, storage>>
  BY DEF ParentIsComplete, queues
<1> QED BY <1>3, <1>4, <1>5, UpdatesStructure

LEMMA ConcludesStateTypes ==
    ASSUME StateTypes, NEW s, NEW sent \in BOOLEAN, NEW finalizing \in BOOLEAN,
           Concludes(s, sent, finalizing), state' \in [DOMAIN state' -> ObjectStates],
           UNCHANGED nextReferenceIndex
    PROVE  StateTypes'
<1>1. /\ DOMAIN objectsByReference' \subseteq DOMAIN objectsByReference
      /\ \A o \in DOMAIN objectsByReference' : objectsByReference'[o] = objectsByReference[o]
      /\ objectsByReference' = [o \in DOMAIN objectsByReference' |-> objectsByReference'[o]]
  BY DEF StateTypes, Concludes, Detached
<1>2. ASSUME NEW o \in DOMAIN objectsByReference'
      PROVE  objectsByReference'[o] \in DOMAIN state'
  <2>1. objectsByReference'[o] \in DOMAIN state
    BY <1>1 DEF StateTypes
  <2>2. sent => objectsByReference'[o] # s
    BY DEF Concludes
  <2> QED BY <2>1, <2>2 DEF Concludes
<1>3. DOMAIN state' \subseteq DOMAIN state
  BY DEF Concludes
<1>4. objectsByReference' \in [DOMAIN objectsByReference' -> DOMAIN state']
  BY <1>1, <1>2
<1> QED BY <1>1, <1>3, <1>4 DEF StateTypes

LEMMA FailedTags ==
    ASSUME NEW tags \in Seq(Nat), NEW q \in Seq(FinalizeTags)
    PROVE  q \o [i \in DOMAIN tags |-> FinalizeTag(tags[i], FALSE)] \in Seq(FinalizeTags)
<1> DEFINE r == [i \in 1 .. Len(tags) |-> FinalizeTag(tags[i], FALSE)]
<1>1. DOMAIN tags = 1 .. Len(tags) /\ Len(tags) \in Nat
  BY LenProperties
<1>2. \A i \in 1 .. Len(tags) : FinalizeTag(tags[i], FALSE) \in FinalizeTags
  BY <1>1 DEF FinalizeTag, FinalizeTags
<1>3. r \in Seq(FinalizeTags)
  <2>1. r \in [1 .. Len(tags) -> FinalizeTags]
    BY <1>2
  <2> HIDE DEF r
  <2>2. PICK n \in Nat : n = Len(tags)
    BY <1>1
  <2>3. Seq(FinalizeTags) = UNION {[1 .. m -> FinalizeTags] : m \in Nat}
    BY SeqDef
  <2>4. r \in [1 .. n -> FinalizeTags]
    BY <2>1, <2>2
  <2> QED BY <2>3, <2>4
<1>4. [i \in DOMAIN tags |-> FinalizeTag(tags[i], FALSE)] = r
  BY <1>1
<1> HIDE DEF r
<1> QED BY <1>3, <1>4, ConcatProperties

LEMMA ReleaseStructure ==
    ASSUME Structure, ReleaseObject, UNCHANGED clientVars
    PROVE  Structure'
<1>1. /\ StateTypes /\ QueueTypes /\ OtherTypes /\ LimitType
      /\ ClientTypeOK /\ Relations /\ QueuesOK /\ RequestsOK /\ ServerTypeOK
  BY StructureParts, TypeParts
<1>2. PICK s : s = Top
  OBVIOUS
<1>3. /\ Concludes(s, state[s].sent, FALSE) /\ stack # <<>>
      /\ stack' = Front(stack) /\ state' \in [DOMAIN state' -> ObjectStates]
  BY <1>1, <1>2, ReleaseEffect
<1>4. s \in DOMAIN state /\ state[s].sent \in BOOLEAN /\ state[s].reference \in Objects
      /\ state[s].tags \in Seq(Nat) /\ state[s].stage = "finalized"
  BY <1>1, <1>3, Fields DEF Concludes
<1>5. Relations'
  BY <1>1, <1>3, <1>4, ConcludesRelations
<1>6. UNCHANGED <<channel, dags, requestedQueue, finalizedQueue, incomingWaits, status, storage>>
  BY DEF ReleaseObject
<1>7. StateTypes'
  BY <1>1, <1>3, <1>4, <1>6, ConcludesStateTypes DEF dags
<1>8. LimitType'
  <2>1. PICK released : released = ReleaseParent(remaining, state[s].reference)
    OBVIOUS
  <2>2. released \in [count : Nat, sizeBytes : Nat]
    BY <1>1, <1>4, <2>1, ReleasedType DEF LimitType
  <2>3. ReleaseChildren(released, state[s].reference) \in [count : Nat, sizeBytes : Nat]
    BY <1>4, <2>2, ReleasedType
  <2>4. remaining' \in {released, ReleaseChildren(released, state[s].reference)}
    BY <1>2, <2>1 DEF ReleaseObject
  <2> QED BY <2>2, <2>3, <2>4 DEF LimitType
<1>9. stack' \in Seq(Nat)
  BY <1>1, <1>3, ToSetFront DEF OtherTypes, Relations, StackOK
<1>10. finalizedTags' \in Seq(FinalizeTags)
  <2>1. \/ finalizedTags' = finalizedTags
        \/ finalizedTags' = finalizedTags \o
              [i \in DOMAIN state[s].tags |-> FinalizeTag(state[s].tags[i], FALSE)]
    BY <1>2 DEF ReleaseObject
  <2> QED BY <1>1, <1>4, <2>1, FailedTags DEF OtherTypes
<1>11. tagWrites' \in SUBSET (Nat \X Objects)
  <2>1. \A i \in ToSet(state[s].tags) : i \in Nat
    BY <1>4 DEF ToSet
  <2>2. \/ tagWrites' = tagWrites
        \/ tagWrites' = tagWrites \cup {<<i, state[s].reference>> : i \in ToSet(state[s].tags)}
    BY <1>2 DEF ReleaseObject
  <2> QED BY <1>1, <1>4, <2>1, <2>2 DEF OtherTypes
<1>12. OtherTypes'
  BY <1>1, <1>6, <1>9, <1>10, <1>11 DEF OtherTypes, dags, storage
<1>13. ASSUME NEW t \in DOMAIN state, t # s
       PROVE  t \in DOMAIN state' /\ state'[t].stage = state[t].stage
              /\ state'[t].sent = state[t].sent
  BY <1>3, <1>13 DEF Concludes, Spared, SameRelations
<1>14. ~state[s].sent =>
          s \in DOMAIN state' /\ state'[s].stage = "finalized" /\ ~state'[s].sent
  BY <1>3 DEF Concludes
<1>15. QueuesOK' /\ QueueTypes'
  BY <1>1, <1>4, <1>6, <1>13, <1>14, SameQueues
<1>16. UNCHANGED <<requests, nextReferenceIndex>>
  BY <1>6 DEF channel, dags
<1> QED BY <1>1, <1>5, <1>7, <1>8, <1>12, <1>15, <1>16, SameClient, SameRequests,
           StructurePartsNext

LEMMA SendFinalizeObjectStructure ==
    ASSUME Structure, SendFinalizeObject, UNCHANGED clientVars
    PROVE  Structure'
<1>1. /\ StateTypes /\ QueueTypes /\ OtherTypes /\ LimitType
      /\ ClientTypeOK /\ Relations /\ QueuesOK /\ RequestsOK /\ ServerTypeOK
  BY StructureParts, TypeParts
<1>2. PICK s : s = Head(finalizedQueue)
  OBVIOUS
<1>3. /\ Concludes(s, TRUE, state[s].finalizing) /\ s \in ToSet(finalizedQueue)
      /\ state' \in [DOMAIN state' -> ObjectStates]
  BY <1>1, <1>2, SendFinalizeEffect
<1>4. s \in DOMAIN state /\ state[s].stage = "finalized" /\ state[s].finalizing \in BOOLEAN
      /\ state[s].unfinalizedDAGsWithoutTagsCount \in Nat
  BY <1>1, <1>3, Fields DEF Concludes
<1>5. Relations'
  BY <1>1, <1>3, <1>4, ConcludesRelations
<1>6. /\ UNCHANGED <<requests, remaining, nextReferenceIndex, stack, threads, storage,
                     requestedQueue, finalizedTags>>
      /\ finalizedQueue # <<>> /\ finalizedQueue' = Tail(finalizedQueue)
      /\ unfinalizedDAGsCount' =
            unfinalizedDAGsCount - state[s].unfinalizedDAGsWithoutTagsCount
  BY <1>2 DEF SendFinalizeObject, Send
<1>7. StateTypes'
  BY <1>1, <1>3, <1>4, <1>6, ConcludesStateTypes
<1>8. OtherTypes' /\ LimitType'
  <2>1. unfinalizedDAGsCount' \in Int
    BY <1>1, <1>4, <1>6 DEF OtherTypes
  <2> QED BY <1>1, <1>6, <2>1 DEF OtherTypes, LimitType, threads, storage
<1>9. /\ finalizedQueue' \in Seq(Nat) /\ ToSet(finalizedQueue') = ToSet(finalizedQueue) \ {s}
      /\ IsInjective(finalizedQueue')
  BY <1>1, <1>2, <1>6, ToSetTail DEF QueuesOK, QueueTypes
<1>10. ASSUME NEW t \in DOMAIN state, t # s
       PROVE  t \in DOMAIN state' /\ state'[t].stage = state[t].stage
              /\ state'[t].sent = state[t].sent
  BY <1>3, <1>10 DEF Concludes, Spared, SameRelations
<1>11. QueuesOK' /\ QueueTypes'
  BY <1>1, <1>4, <1>6, <1>9, <1>10 DEF QueuesOK, QueueTypes
<1> QED BY <1>1, <1>5, <1>6, <1>7, <1>8, <1>11, SameClient, SameRequests, StructurePartsNext
-----------------------------------------------------------------------------
(* Steps that leave the objectStates alone. *)
LEMMA SameStatesStructure ==
    ASSUME Structure, Relations', OtherTypes', RequestsOK',
           UNCHANGED <<state, objectsByReference, remaining, nextReferenceIndex,
                       requestedQueue, finalizedQueue, clientVars>>
    PROVE  Structure'
<1>1. /\ StateTypes /\ QueueTypes /\ LimitType /\ ClientTypeOK /\ QueuesOK
  BY StructureParts
<1>2. StateTypes' /\ QueueTypes' /\ LimitType' /\ QueuesOK'
  BY <1>1 DEF StateTypes, QueueTypes, LimitType, QueuesOK
<1> QED BY <1>1, <1>2, SameClient, StructurePartsNext

LEMMA RelockStructure ==
    ASSUME Structure, NEW s \in DOMAIN state, Relock(s), UNCHANGED clientVars
    PROVE  Structure'
<1>1. OtherTypes /\ Relations /\ ServerTypeOK /\ RequestsOK
  BY StructureParts, TypeParts
<1>2. /\ UNCHANGED <<channel, state, objectsByReference, remaining, dags, queues,
                     threads, storage>>
      /\ stack' = <<s>>
  BY DEF Relock
<1>3. Relations'
  BY <1>1, RelockRelations
<1>4. stack' \in Seq(Nat)
  <2>1. s \in Nat
    BY <1>1, Fields
  <2> QED BY <1>2, <2>1
<1>5. OtherTypes'
  BY <1>1, <1>2, <1>4 DEF OtherTypes, dags, queues, threads, storage
<1>6. RequestsOK'
  BY <1>1, <1>2, SameRequests DEF channel, dags
<1> QED BY <1>2, <1>3, <1>5, <1>6, SameStatesStructure DEF dags, queues

LEMMA SendFinalizeTagStructure ==
    ASSUME Structure, SendFinalizeTag, UNCHANGED clientVars
    PROVE  Structure'
<1>1. OtherTypes /\ Relations /\ RequestsOK
  BY StructureParts
<1>2. /\ UNCHANGED <<requests, state, objectsByReference, remaining, nextReferenceIndex,
                     requestedQueue, finalizedQueue, stack, threads, storage>>
      /\ finalizedTags # <<>> /\ finalizedTags' = Tail(finalizedTags)
      /\ unfinalizedDAGsCount' = unfinalizedDAGsCount - 1
  BY DEF SendFinalizeTag, Send
<1>3. Relations'
  BY <1>1, <1>2, SameRelationsOfAll
<1>4. finalizedTags' \in Seq(FinalizeTags) /\ unfinalizedDAGsCount' \in Int
  BY <1>1, <1>2, HeadTailProperties DEF OtherTypes
<1>5. OtherTypes'
  BY <1>1, <1>2, <1>4 DEF OtherTypes, threads, storage
<1>6. RequestsOK'
  BY <1>1, <1>2, SameRequests
<1> QED BY <1>2, <1>3, <1>5, <1>6, SameStatesStructure

LEMMA AllSentStructure ==
    ASSUME Structure, AllSent \/ Return, UNCHANGED clientVars
    PROVE  Structure'
<1>1. OtherTypes /\ Relations /\ RequestsOK
  BY StructureParts
<1>2. /\ UNCHANGED <<requests, state, objectsByReference, remaining, dags, queues, stack,
                     incomingWaits, tagWrites, storage>>
      /\ status' \in {"allSent", "returned"}
  BY DEF AllSent, Return, channel
<1>3. Relations'
  BY <1>1, <1>2, SameRelationsOfAll
<1>4. OtherTypes'
  BY <1>1, <1>2 DEF OtherTypes, dags, queues, storage
<1>5. RequestsOK'
  BY <1>1, <1>2, SameRequests DEF dags
<1> QED BY <1>2, <1>3, <1>4, <1>5, SameStatesStructure DEF dags, queues

LEMMA UpdateTagStructure ==
    ASSUME Structure, NEW w \in tagWrites, UpdateTag(w[1], w[2]), UNCHANGED clientVars
    PROVE  Structure'
<1>1. OtherTypes /\ Relations /\ RequestsOK
  BY StructureParts
<1>2. w[1] \in Nat /\ w[2] \in Objects
  BY <1>1 DEF OtherTypes
<1>3. PICK i, o : i = w[1] /\ o = w[2]
  OBVIOUS
<1>4. /\ UNCHANGED <<channel, state, objectsByReference, remaining, dags, requestedQueue,
                     finalizedQueue, stack, incomingWaits, status, exists, expirations>>
      /\ tagWrites' = tagWrites \ {<<i, o>>}
      /\ tagged' \in {tagged, tagged \cup {o}} /\ errors' \in {errors, errors + 1}
      /\ \E success \in BOOLEAN : finalizedTags' = Append(finalizedTags, FinalizeTag(i, success))
  BY <1>3 DEF UpdateTag
<1>5. Relations'
  BY <1>1, <1>4, SameRelationsOfAll
<1>6. finalizedTags' \in Seq(FinalizeTags)
  <2>1. PICK m \in FinalizeTags : finalizedTags' = Append(finalizedTags, m)
    BY <1>2, <1>3, <1>4 DEF FinalizeTags, FinalizeTag
  <2> QED BY <1>1, <2>1, AppendProperties DEF OtherTypes
<1>7. OtherTypes'
  BY <1>1, <1>2, <1>3, <1>4, <1>6 DEF OtherTypes, dags
<1>8. RequestsOK'
  BY <1>1, <1>4, SameRequests DEF dags, channel
<1> QED BY <1>4, <1>5, <1>7, <1>8, SameStatesStructure DEF dags

LEMMA ReceivedRequests ==
    ASSUME RequestsOK, NEW type, Receive(type), UNCHANGED clientVars
    PROVE  RequestsOK'
<1>1. /\ requests' \in Seq(Messages)
      /\ \A i \in DOMAIN requests' : requests'[i].type # "InitiateDag"
  BY Received
<1>2. Messages' = Messages
  BY DEF Messages, clientVars, upload
<1> QED BY <1>1, <1>2 DEF RequestsOK

LEMMA FailStructure ==
    ASSUME Structure, Fail, RequestsOK', UNCHANGED storage, UNCHANGED clientVars
    PROVE  Structure'
<1>1. OtherTypes /\ Relations
  BY StructureParts
<1>2. /\ UNCHANGED <<state, objectsByReference, remaining, dags, queues, stack,
                     incomingWaits, tagWrites, storage>>
      /\ status' = "failed"
  BY DEF Fail
<1>3. Relations'
  BY <1>1, <1>2, SameRelationsOfAll
<1>4. OtherTypes'
  BY <1>1, <1>2 DEF OtherTypes, dags, queues, storage
<1> QED BY <1>2, <1>3, <1>4, SameStatesStructure DEF dags, queues

LEMMA CloseSendStructure ==
    ASSUME Structure, ReceiveCloseSend, UNCHANGED clientVars
    PROVE  Structure'
<1>1. OtherTypes /\ Relations /\ RequestsOK
  BY StructureParts
<1>2. RequestsOK' /\ UNCHANGED storage
  BY <1>1, ReceivedRequests DEF ReceiveCloseSend
<1>3. CASE Fail
  BY <1>2, <1>3, FailStructure
<1>4. CASE ~Fail
  <2>1. /\ UNCHANGED <<state, objectsByReference, remaining, dags, queues, stack,
                       incomingWaits, tagWrites>>
        /\ status' = "gracefulShutdown"
    BY <1>4 DEF ReceiveCloseSend
  <2>2. Relations'
    BY <1>1, <2>1, SameRelationsOfAll
  <2>3. OtherTypes'
    BY <1>1, <1>2, <2>1 DEF OtherTypes, dags, queues, storage
  <2> QED BY <1>2, <2>1, <2>2, <2>3, SameStatesStructure DEF dags, queues
<1> QED BY <1>3, <1>4

LEMMA InitiateDagStructure ==
    ASSUME Structure, ReceiveInitiateDag, UNCHANGED clientVars
    PROVE  Structure'
<1>1. /\ StateTypes /\ QueueTypes /\ OtherTypes /\ LimitType /\ TypeOK
      /\ ClientTypeOK /\ Relations /\ QueuesOK /\ RequestsOK /\ ServerTypeOK
  BY StructureParts, TypeParts DEF Structure
<1>2. /\ Receive("InitiateDag") /\ nextReferenceIndex = 0
      /\ DOMAIN state = {} /\ DOMAIN objectsByReference = {}
  BY <1>1, InitiateDagEffect
<1>3. RequestsOK'
  BY <1>1, <1>2, ReceivedRequests
<1>4. CASE Fail /\ UNCHANGED storage
  BY <1>3, <1>4, FailStructure
<1>5. CASE ~(Fail /\ UNCHANGED storage)
  <2>1. /\ state' = [x \in {0} |-> Root]
        /\ objectsByReference' = [x \in {root} |-> 0]
        /\ unfinalizedDAGsCount' = unfinalizedDAGsCount + 1
        /\ nextReferenceIndex' = 1
        /\ UNCHANGED <<responses, remaining, queues, stack, threads, storage>>
    BY <1>1, <1>5, InitiateDagEffect
  <2>2. Relations'
    BY <1>1, <1>2, <2>1, InitiateRelations
  <2>3. Root \in ObjectStates /\ root \in Objects
    BY <1>1, <1>2, RootFields DEF ClientTypeOK
  <2>4. StateTypes'
    <3>1. /\ DOMAIN state' = {0} /\ DOMAIN objectsByReference' = {root}
          /\ state' \in [{0} -> ObjectStates] /\ objectsByReference' \in [{root} -> {0}]
      BY <2>1, <2>3
    <3>2. {0} \subseteq 0 .. 1 - 1
      OBVIOUS
    <3> QED BY <2>1, <2>3, <3>1, <3>2 DEF StateTypes
  <2>5. unfinalizedDAGsCount' \in Int
    BY <1>1, <2>1 DEF OtherTypes
  <2>6. OtherTypes' /\ LimitType' /\ QueueTypes'
    BY <1>1, <2>1, <2>5 DEF OtherTypes, LimitType, QueueTypes, queues, threads, storage
  <2>7. QueuesOK'
    BY <1>1, <1>2, <2>1 DEF QueuesOK, queues
  <2> QED BY <1>1, <1>3, <2>2, <2>4, <2>6, <2>7, SameClient, StructurePartsNext
<1> QED BY <1>4, <1>5

LEMMA ProvidesStateTypes ==
    ASSUME StateTypes, NEW s, NEW found, FindsChildren(s, found), Provides(s, found),
           state' \in [DOMAIN state' -> ObjectStates],
           state[s].reference \in Objects,
           nextReferenceIndex' = nextReferenceIndex + Cardinality(Children[state[s].reference]),
           objectsByReference' = WithAll(objectsByReference, found)
    PROVE  StateTypes'
<1> DEFINE o == state[s].reference
           n == Cardinality(Children[o])
<1>1. /\ n \in Nat /\ nextReferenceIndex \in Nat
      /\ Children[o] \subseteq Objects
  BY ChildIndicesOK, ReferencesAssumption, 0 \in Nat DEF StateTypes
<1>2. nextReferenceIndex' = nextReferenceIndex + n
  OBVIOUS
<1> HIDE DEF n
<1>3. ASSUME NEW t \in DOMAIN state'
      PROVE  t \in Nat /\ t < nextReferenceIndex + n
  <2>1. CASE t \in DOMAIN state
    BY <1>1, <2>1 DEF StateTypes
  <2>2. CASE t \notin DOMAIN state
    <3>1. PICK c \in Children[o] : t = found[c]
      BY <2>2 DEF Provides
    <3> QED BY <3>1 DEF FindsChildren, n
  <2> QED BY <2>1, <2>2
<1>4. DOMAIN state' \subseteq 0 .. nextReferenceIndex' - 1 /\ nextReferenceIndex' \in Nat
  BY <1>1, <1>2, <1>3
<1>5. DOMAIN objectsByReference' = DOMAIN objectsByReference \cup Children[o]
  BY DEF Provides
<1>6. ASSUME NEW c \in DOMAIN objectsByReference'
      PROVE  objectsByReference'[c] \in DOMAIN state' /\ c \in Objects
  BY <1>1, <1>5 DEF Provides, StateTypes
<1>7. objectsByReference' = [c \in DOMAIN objectsByReference' |-> objectsByReference'[c]]
  BY DEF WithAll
<1>8. objectsByReference' \in [DOMAIN objectsByReference' -> DOMAIN state']
  BY <1>6, <1>7
<1> QED BY <1>4, <1>6, <1>8 DEF StateTypes

LEMMA ProvidesQueues ==
    ASSUME QueuesOK, QueueTypes, UNCHANGED <<requestedQueue, finalizedQueue>>,
           NEW s, NEW found, FindsChildren(s, found), Provides(s, found)
    PROVE  QueuesOK' /\ QueueTypes'
<1>1. ASSUME NEW t \in DOMAIN state, t # s
      PROVE  t \in DOMAIN state' /\ state'[t].stage = state[t].stage
             /\ state'[t].sent = state[t].sent
  <2>1. CASE \A c \in Children[state[s].reference] : found[c] # t
    BY <1>1, <2>1 DEF Provides, Spared, SameRelations
  <2>2. CASE \E c \in Children[state[s].reference] : found[c] = t
    <3>1. PICK c \in Children[state[s].reference] : found[c] = t
      BY <2>2
    <3>2. GetsParent(found[c], s) /\ found[c] \in DOMAIN state'
      BY <1>1, <3>1 DEF Provides
    <3> QED BY <3>1, <3>2 DEF GetsParent, SameOwn
  <2> QED BY <2>1, <2>2
<1>2. state[s].stage = "requested"
  BY DEF FindsChildren
<1> QED BY <1>1, <1>2, SameQueues

LEMMA ObjectContentsStructure ==
    ASSUME Structure, ReceiveObjectContents, UNCHANGED clientVars
    PROVE  Structure'
<1>1. /\ StateTypes /\ QueueTypes /\ OtherTypes /\ LimitType
      /\ ClientTypeOK /\ Relations /\ QueuesOK /\ RequestsOK /\ ServerTypeOK
      /\ ReferencesAreLive
  BY StructureParts, TypeParts DEF Relations
<1>2. RequestsOK' /\ UNCHANGED storage
  BY <1>1, ReceivedRequests DEF ReceiveObjectContents
<1>3. CASE ~Requested(Head(requests).index)
  <2>1. Fail
    BY <1>3 DEF ReceiveObjectContents
  <2> QED BY <1>2, <2>1, FailStructure
<1>4. CASE Requested(Head(requests).index)
  <2>1. PICK s, found :
              /\ FindsChildren(s, found) /\ Provides(s, found)
              /\ state' \in [DOMAIN state' -> ObjectStates]
              /\ remaining' = ReleaseChildren(remaining, state[s].reference)
              /\ nextReferenceIndex' =
                    nextReferenceIndex + Cardinality(Children[state[s].reference])
              /\ objectsByReference' = WithAll(objectsByReference, found)
              /\ incomingWaits' \in SUBSET {s}
              /\ UNCHANGED <<responses, unfinalizedDAGsCount, queues, stack, tagWrites,
                             status, storage>>
    BY <1>1, <1>4, ObjectContentsEffect
  <2>2. s \in DOMAIN state /\ s \in Nat /\ state[s].reference \in Objects
    BY <1>1, <2>1, Fields DEF FindsChildren
  <2>3. Relations'
    BY <1>1, <2>1, ProvidesRelations
  <2>4. StateTypes'
    BY <1>1, <2>1, <2>2, ProvidesStateTypes
  <2>5. QueuesOK' /\ QueueTypes'
    BY <1>1, <2>1, ProvidesQueues DEF queues
  <2>6. LimitType'
    BY <1>1, <2>1, <2>2, ReleasedType DEF LimitType
  <2>7. incomingWaits' \in SUBSET Nat
    BY <2>1, <2>2
  <2>8. UNCHANGED <<unfinalizedDAGsCount, queues, stack, tagWrites, status, storage>>
    BY <2>1
  <2>9. OtherTypes'
    BY <1>1, <2>7, <2>8 DEF OtherTypes, queues, storage
  <2> QED BY <1>1, <1>2, <2>3, <2>4, <2>5, <2>6, <2>9, SameClient, StructurePartsNext
<1> QED BY <1>3, <1>4

LEMMA ServerStructure ==
    ASSUME Structure, ServerStep, UNCHANGED clientVars
    PROVE  Structure'
<1>1. CASE ServerReceive
  BY <1>1, InitiateDagStructure, ObjectContentsStructure, CloseSendStructure DEF ServerReceive
<1>2. CASE ServerSend
  BY <1>2, SendFinalizeObjectStructure, SendFinalizeTagStructure, SendRequestStructure,
     AllSentStructure DEF ServerSend
<1>3. CASE LockedStep
  BY <1>3, ParentWaitsStructure, ParentFailsStructure, ParentIsCompleteStructure,
     ReleaseStructure DEF LockedStep
<1>4. CASE \E s \in DOMAIN state : ObjectStep(s) \/ StorageFails(s)
  <2>1. PICK s \in DOMAIN state : ObjectStep(s) \/ StorageFails(s)
    BY <1>4
  <2> QED BY <2>1, GetPendingObjectStructure, StartCheckStructure, CheckObjectStructure,
             QueueRequestStructure, FinishCheckStructure, StartPutStructure,
             PutObjectStructure, FinishPutStructure, RelockStructure, StorageFailsStructure
          DEF ObjectStep
<1>5. CASE \E w \in tagWrites : UpdateTag(w[1], w[2])
  BY <1>5, UpdateTagStructure
<1> QED BY <1>1, <1>2, <1>3, <1>4, <1>5 DEF ServerStep
-----------------------------------------------------------------------------
(* What the server sends. *)
LEMMA ServerResponses ==
    ASSUME Structure, ResponsesOK, ServerStep
    PROVE  /\ responses' \in Seq(Reports)
           /\ \/ UNCHANGED responses
              \/ \E m \in Reports : responses' = Append(responses, m)
<1>1. OtherTypes /\ QueueTypes /\ ServerTypeOK /\ QueuesOK /\ Relations
  BY StructureParts, TypeParts
<1>2. HangupError \in Reports /\ Hangup \in Reports
  BY DEF HangupError, Hangup, Reports
<1>3. \/ UNCHANGED responses
      \/ \E m \in Reports : responses' = Append(responses, m)
  <2>1. CASE ServerReceive
    BY <1>2, <2>1 DEF ServerReceive, ReceiveInitiateDag, ReceiveObjectContents,
                      ReceiveCloseSend, Fail
  <2>2. CASE SendFinalizeObject
    <3>1. PICK s : s = Head(finalizedQueue)
      OBVIOUS
    <3>2. s \in DOMAIN state
      BY <1>1, <2>2, <3>1, SendFinalizeEffect DEF Concludes
    <3>3. s \in Nat /\ state[s].additional \in Nat /\ state[s].success \in BOOLEAN
      BY <1>1, <3>2, Fields
    <3>4. FinalizeObject(s, state[s].additional, state[s].success) \in Reports
      BY <3>3 DEF FinalizeObject, Reports
    <3> QED BY <2>2, <3>1, <3>4 DEF SendFinalizeObject, Send
  <2>3. CASE SendFinalizeTag
    <3>1. finalizedTags \in Seq(FinalizeTags) /\ finalizedTags # <<>>
      BY <1>1, <2>3 DEF OtherTypes, SendFinalizeTag
    <3>2. Head(finalizedTags) \in Reports
      BY <3>1, HeadTailProperties DEF Reports
    <3> QED BY <2>3, <3>2 DEF SendFinalizeTag, Send
  <2>4. CASE SendRequestObjectContents
    <3>1. Head(requestedQueue) \in Nat
      BY <1>1, <2>4, HeadTailProperties DEF QueueTypes, SendRequestObjectContents
    <3>2. RequestObjectContents(Head(requestedQueue)) \in Reports
      BY <3>1 DEF RequestObjectContents, Reports
    <3> QED BY <2>4, <3>2 DEF SendRequestObjectContents, Send
  <2>5. CASE AllSent \/ Return
    BY <1>2, <2>5 DEF AllSent, Return, channel
  <2>6. CASE LockedStep
    BY <2>6 DEF LockedStep, ParentWaits, ParentFails, ParentIsComplete, ReleaseObject,
                UpdateParent, channel
  <2>7. CASE \E s \in DOMAIN state : ObjectStep(s) \/ StorageFails(s)
    BY <2>7 DEF ObjectStep, GetPendingObject, StartCheck, CheckObject,
                QueueRequestObjectContents, FinishCheck, StartPut, PutObject, FinishPut,
                Relock, StorageFails, channel
  <2>8. CASE \E w \in tagWrites : UpdateTag(w[1], w[2])
    BY <2>8 DEF UpdateTag, channel
  <2> QED BY <2>1, <2>2, <2>3, <2>4, <2>5, <2>6, <2>7, <2>8 DEF ServerStep, ServerSend
<1> QED BY <1>3, AppendProperties DEF ResponsesOK
-----------------------------------------------------------------------------
(* The steps of the client. *)
Entries == [lowest : Nat, additional : Seq(Nat), walker : BOOLEAN]
Providers == [reference : Objects, stage : {"get", "send"}, discards : Nat]

LEMMA NoEntries == DOMAIN <<>> = {} /\ \A S : <<>> \in [DOMAIN <<>> -> S]
  OBVIOUS

LEMMA EndType ==
    ASSUME ClientTypeOK, NEW reason \in Ended, End(reason), walkerErrors' \in Nat
    PROVE  ClientTypeOK'
<1> DEFINE f == [i \in DOMAIN providers |->
                    providers[i].discards + IF providers[i].stage = "get" THEN 1 ELSE 0]
           walkers == {o \in DOMAIN unfinalized : unfinalized[o].walker}
<1>1. /\ liveWalkers' = liveWalkers - Cardinality(requested) - Cardinality(walkers)
                           - SumFunction(f)
      /\ clientStatus' = reason /\ unfinalized' = <<>> /\ providers' = <<>> /\ requested' = {}
      /\ UNCHANGED <<upload, nextIndex>>
  BY DEF End
<1>2. IsFiniteSet(walkers)
  BY FS_Subset DEF ClientTypeOK
<1>3. Cardinality(walkers) \in Nat /\ Cardinality(requested) \in Nat
  BY <1>2, FS_CardinalityType DEF ClientTypeOK
<1>4. SumFunction(f) \in Nat
  <2>1. IsFiniteSet(DOMAIN providers)
    BY DEF ClientTypeOK
  <2>2. \A i \in DOMAIN providers : providers[i].discards \in Nat
    BY DEF ClientTypeOK
  <2>3. f \in [DOMAIN providers -> Nat]
    BY <2>2
  <2> HIDE DEF f
  <2> QED BY <2>1, <2>3, SumType
<1> HIDE DEF f, walkers
<1>5. liveWalkers' \in Int
  BY <1>1, <1>3, <1>4 DEF ClientTypeOK
<1>6. clientStatus' \in Ended /\ IsFiniteSet({}) /\ {} \subseteq Nat \X Objects
  BY <1>1, FS_EmptySet
<1>7. /\ root \in Objects /\ rootTag \in BOOLEAN /\ nextIndex \in Nat
  BY DEF ClientTypeOK
<1> QED BY <1>1, <1>5, <1>6, <1>7, NoEntries DEF ClientTypeOK, upload

LEMMA EntryFields ==
    ASSUME ClientTypeOK
    PROVE  /\ \A o \in DOMAIN unfinalized :
                 /\ o \in Objects /\ unfinalized[o] \in Entries
                 /\ unfinalized[o].lowest \in Nat /\ unfinalized[o].additional \in Seq(Nat)
                 /\ unfinalized[o].walker \in BOOLEAN
           /\ \A i \in DOMAIN providers :
                 /\ i \in Nat /\ providers[i] \in Providers
                 /\ providers[i].reference \in Objects
<1>1. ASSUME NEW o \in DOMAIN unfinalized PROVE o \in Objects /\ unfinalized[o] \in Entries
  BY DEF ClientTypeOK, Entries
<1>2. ASSUME NEW i \in DOMAIN providers PROVE i \in Nat /\ providers[i] \in Providers
  BY DEF ClientTypeOK, Providers
<1> QED BY <1>1, <1>2 DEF Entries, Providers

(* The part of the client's type that most steps change. *)
LEMMA ClientTypeNext ==
    ASSUME ClientTypeOK, UNCHANGED upload,
           DOMAIN unfinalized' \subseteq Objects, IsFiniteSet(DOMAIN unfinalized'),
           unfinalized' \in [DOMAIN unfinalized' -> Entries],
           nextIndex' \in Nat, requested' \in SUBSET (Nat \X Objects), IsFiniteSet(requested'),
           DOMAIN providers' \subseteq Nat, IsFiniteSet(DOMAIN providers'),
           providers' \in [DOMAIN providers' -> Providers],
           clientStatus' \in {"objects", "tag", "eof"} \cup Ended,
           liveWalkers' \in Int, walkerErrors' \in Nat
    PROVE  ClientTypeOK'
  BY DEF ClientTypeOK, upload, Entries, Providers

LEMMA ClientTypes ==
    ASSUME ClientTypeOK
    PROVE  /\ DOMAIN unfinalized \subseteq Objects /\ IsFiniteSet(DOMAIN unfinalized)
           /\ unfinalized \in [DOMAIN unfinalized -> Entries]
           /\ nextIndex \in Nat /\ requested \in SUBSET (Nat \X Objects)
           /\ IsFiniteSet(requested)
           /\ DOMAIN providers \subseteq Nat /\ IsFiniteSet(DOMAIN providers)
           /\ providers \in [DOMAIN providers -> Providers]
           /\ clientStatus \in {"objects", "tag", "eof"} \cup Ended
           /\ liveWalkers \in Int /\ walkerErrors \in Nat
  BY DEF ClientTypeOK, Entries, Providers

LEMMA ReceiveRequestType ==
    ASSUME ClientTypeOK, ClientReceiveRequest
    PROVE  ClientTypeOK'
<1> DEFINE i == Head(responses).index
           known == WithLowestIndex(i)
           o == CHOOSE x \in known : TRUE
<1>1. walkerErrors' \in Nat
  BY DEF ClientReceiveRequest, Consume, ClientTypeOK
<1>2. CASE known = {} \/ ~unfinalized[o].walker
  <2>1. End("protocolError") /\ "protocolError" \in Ended
    BY <1>2 DEF ClientReceiveRequest, Ended
  <2> QED BY <1>1, <2>1, EndType
<1>3. CASE ~(known = {} \/ ~unfinalized[o].walker)
  <2>1. /\ unfinalized' = [unfinalized EXCEPT ![o].walker = FALSE]
        /\ requested' = {<<i, o>>}
        /\ UNCHANGED <<upload, nextIndex, providers, clientStatus, liveWalkers>>
    BY <1>3 DEF ClientReceiveRequest
  <2>2. o \in DOMAIN unfinalized /\ unfinalized[o].lowest = i
    BY <1>3 DEF WithLowestIndex
  <2> HIDE DEF o, known, i
  <2>3. i \in Nat /\ o \in Objects /\ unfinalized[o] \in Entries
    BY <2>2, EntryFields
  <2>4. [unfinalized[o] EXCEPT !.walker = FALSE] \in Entries
    BY <2>3 DEF Entries
  <2>5. DOMAIN unfinalized' = DOMAIN unfinalized /\ unfinalized' \in [DOMAIN unfinalized -> Entries]
    BY <2>1, <2>2, <2>4, ClientTypes
  <2>6. IsFiniteSet(requested')
    BY <2>1, FS_Singleton
  <2>7. requested' \in SUBSET (Nat \X Objects)
    BY <2>1, <2>3
  <2> QED BY <1>1, <2>1, <2>5, <2>6, <2>7, ClientTypes, ClientTypeNext
<1> QED BY <1>2, <1>3

LEMMA AcquireSemaphoreType ==
    ASSUME ClientTypeOK, AcquireSemaphore
    PROVE  ClientTypeOK'
<1>1. PICK r \in requested :
          providers' = With(providers, r[1],
                            [reference |-> r[2], stage |-> "get", discards |-> 0])
  BY DEF AcquireSemaphore
<1>2. /\ requested' = {}
      /\ UNCHANGED <<upload, unfinalized, nextIndex, clientStatus, liveWalkers, walkerErrors>>
  BY DEF AcquireSemaphore
<1>3. r[1] \in Nat /\ r[2] \in Objects
  BY ClientTypes
<1> DEFINE p == [reference |-> r[2], stage |-> "get", discards |-> 0]
<1>4. p \in Providers
  BY <1>3 DEF Providers
<1> HIDE DEF p
<1>5. providers' = [k \in DOMAIN providers \cup {r[1]} |-> IF k = r[1] THEN p ELSE providers[k]]
  BY <1>1 DEF With, p
<1>6. /\ DOMAIN providers' = DOMAIN providers \cup {r[1]}
      /\ providers' \in [DOMAIN providers' -> Providers]
  BY <1>4, <1>5, ClientTypes
<1>7. IsFiniteSet(DOMAIN providers') /\ DOMAIN providers' \subseteq Nat
  BY <1>3, <1>6, ClientTypes, FS_AddElement
<1>8. IsFiniteSet({}) /\ {} \in SUBSET (Nat \X Objects)
  BY FS_EmptySet
<1> QED BY <1>2, <1>6, <1>7, <1>8, ClientTypes, ClientTypeNext

LEMMA GetContentsType ==
    ASSUME ClientTypeOK, NEW i \in DOMAIN providers, GetContents(i)
    PROVE  ClientTypeOK'
<1> DEFINE o == providers[i].reference
           index == ChildIndices(o, nextIndex)
           known == Children[o] \cap DOMAIN unfinalized
           merged == [c \in Children[o] |->
                         IF c \in known
                         THEN [unfinalized[c] EXCEPT !.additional = Append(@, index[c]),
                                                     !.walker = TRUE]
                         ELSE NewObject(index[c])]
           n == Cardinality(Children[o])
           discards == Cardinality(WalkersToDiscard(Children[o]))
<1>1. /\ unfinalized' = WithAll(unfinalized, merged)
      /\ nextIndex' = nextIndex + n
      /\ liveWalkers' = liveWalkers - 1 + n
      /\ providers' = [providers EXCEPT ![i].stage = "send", ![i].discards = discards]
      /\ UNCHANGED <<upload, requested, clientStatus, walkerErrors>>
  BY DEF GetContents
<1>2. o \in Objects /\ nextIndex \in Nat
  BY EntryFields, ClientTypes
<1>3. /\ IsFiniteSet(Children[o]) /\ n \in Nat /\ Children[o] \subseteq Objects
      /\ \A c \in Children[o] : index[c] \in Nat
  BY <1>2, ChildIndicesOK, ReferencesAssumption
<1> HIDE DEF index, o, n
<1>4. ASSUME NEW c \in Children[o] PROVE merged[c] \in Entries
  <2>1. CASE c \in known
    <3>1. unfinalized[c] \in Entries /\ unfinalized[c].additional \in Seq(Nat)
      BY <2>1, EntryFields
    <3>2. PICK additional : additional = Append(unfinalized[c].additional, index[c])
      OBVIOUS
    <3>3. additional \in Seq(Nat)
      BY <1>3, <3>1, <3>2, AppendProperties
    <3>4. merged[c] = [unfinalized[c] EXCEPT !.additional = additional, !.walker = TRUE]
      BY <2>1, <3>1, <3>2 DEF Entries
    <3> QED BY <3>1, <3>3, <3>4 DEF Entries
  <2>2. CASE c \notin known
    <3>1. <<>> \in Seq(Nat) /\ index[c] \in Nat
      BY <1>3, EmptySeq
    <3>2. merged[c] = NewObject(index[c])
      BY <2>2
    <3> QED BY <3>1, <3>2 DEF NewObject, Entries
  <2> QED BY <2>1, <2>2
<1>5. DOMAIN merged = Children[o]
  OBVIOUS
<1> HIDE DEF merged
<1>6. /\ DOMAIN unfinalized' = DOMAIN unfinalized \cup Children[o]
      /\ unfinalized' \in [DOMAIN unfinalized' -> Entries]
  <2>1. unfinalized' = [c \in DOMAIN unfinalized \cup Children[o] |->
                           IF c \in Children[o] THEN merged[c] ELSE unfinalized[c]]
    BY <1>1, <1>5 DEF WithAll
  <2> QED BY <1>4, <2>1, EntryFields
<1>7. IsFiniteSet(DOMAIN unfinalized') /\ DOMAIN unfinalized' \subseteq Objects
  <2>1. IsFiniteSet(DOMAIN unfinalized) /\ DOMAIN unfinalized \subseteq Objects
    BY ClientTypes
  <2>2. IsFiniteSet(DOMAIN unfinalized \cup Children[o])
    BY <1>3, <2>1, FS_Union
  <2> QED BY <1>3, <1>6, <2>1, <2>2
<1>8. discards \in Nat
  <2>1. WalkersToDiscard(Children[o]) \subseteq Children[o]
    BY DEF WalkersToDiscard
  <2> QED BY <1>3, <2>1, FS_Subset, FS_CardinalityType
<1> HIDE DEF discards
<1>9. DOMAIN providers' = DOMAIN providers /\ providers' \in [DOMAIN providers -> Providers]
  <2>1. providers[i] \in Providers
    BY EntryFields
  <2>2. [providers[i] EXCEPT !.stage = "send", !.discards = discards] \in Providers
    BY <1>8, <2>1 DEF Providers
  <2>3. providers' = [providers EXCEPT ![i] = [providers[i] EXCEPT !.stage = "send",
                                                                   !.discards = discards]]
    BY <1>1, <2>1, ClientTypes DEF Providers
  <2> QED BY <2>2, <2>3, ClientTypes
<1>10. nextIndex' \in Nat /\ liveWalkers' \in Int
  <2>1. liveWalkers \in Int
    BY ClientTypes
  <2> QED BY <1>1, <1>2, <1>3, <2>1
<1> QED BY <1>1, <1>6, <1>7, <1>9, <1>10, ClientTypes, ClientTypeNext

LEMMA SendContentsType ==
    ASSUME ClientTypeOK, NEW i \in DOMAIN providers, SendContents(i)
    PROVE  ClientTypeOK'
<1>1. /\ liveWalkers' = liveWalkers - providers[i].discards
      /\ providers' = Restrict(providers, DOMAIN providers \ {i})
      /\ UNCHANGED <<upload, unfinalized, nextIndex, requested, clientStatus, walkerErrors>>
  BY DEF SendContents
<1>2. liveWalkers' \in Int
  <2>1. liveWalkers \in Int /\ providers[i].discards \in Nat
    BY ClientTypes DEF Providers
  <2> QED BY <1>1, <2>1
<1>3. /\ DOMAIN providers' = DOMAIN providers \ {i}
      /\ providers' \in [DOMAIN providers' -> Providers]
  BY <1>1, ClientTypes DEF Restrict
<1>4. IsFiniteSet(DOMAIN providers') /\ DOMAIN providers' \subseteq Nat
  BY <1>3, ClientTypes, FS_Subset
<1> QED BY <1>1, <1>2, <1>3, <1>4, ClientTypes, ClientTypeNext

LEMMA ReceiveFinalizeObjectType ==
    ASSUME ClientTypeOK, ResponsesOK, ClientReceiveFinalizeObject
    PROVE  ClientTypeOK'
<1> DEFINE i == Head(responses).index
           n == Head(responses).additional
           known == WithLowestIndex(i)
           o == CHOOSE x \in known : TRUE
           indices == unfinalized[o].additional
<1>1. /\ walkerErrors' \in Nat /\ Head(responses) \in Reports
      /\ Head(responses).type = "FinalizeObject"
  BY HeadTailProperties DEF ClientReceiveFinalizeObject, Consume, ClientTypeOK, ResponsesOK
<1>2. n \in Nat
  BY <1>1 DEF Reports, FinalizeTags
<1>3. CASE \E reason \in Ended : End(reason)
  BY <1>1, <1>3, EndType
<1>4. CASE ~\E reason \in Ended : End(reason)
  <2>1. ~End("error") /\ ~End("protocolError")
    BY <1>4 DEF Ended
  <2>2. /\ known # {} /\ ~(n > Len(indices))
        /\ IF n < Len(indices)
           THEN /\ unfinalized' = [unfinalized EXCEPT
                      ![o].lowest = indices[n + 1],
                      ![o].additional = SubSeq(indices, n + 2, Len(indices))]
                /\ UNCHANGED liveWalkers
           ELSE /\ unfinalized' = Restrict(unfinalized, DOMAIN unfinalized \ {o})
                /\ liveWalkers' = liveWalkers - IF unfinalized[o].walker THEN 1 ELSE 0
        /\ UNCHANGED <<upload, nextIndex, requested, providers, clientStatus>>
    BY <2>1 DEF ClientReceiveFinalizeObject
  <2>3. o \in DOMAIN unfinalized
    BY <2>2 DEF WithLowestIndex
  <2> HIDE DEF n, o, known, i
  <2>4. unfinalized[o] \in Entries /\ indices \in Seq(Nat)
    BY <2>3, EntryFields
  <2>5. liveWalkers' \in Int
    BY <2>2, ClientTypes
  <2>6. CASE n < Len(indices)
    <3>1. PICK lowest, additional :
              lowest = indices[n + 1] /\ additional = SubSeq(indices, n + 2, Len(indices))
      OBVIOUS
    <3>2. lowest \in Nat /\ additional \in Seq(Nat)
      <4>1. Len(indices) \in Nat /\ n + 1 \in 1 .. Len(indices)
        BY <1>2, <2>4, <2>6, LenProperties
      <4>2. lowest \in Nat
        BY <2>4, <3>1, <4>1, ElementOfSeq
      <4>3. additional \in Seq(Nat)
        <5>1. \A j \in n + 2 .. Len(indices) : j \in 1 .. Len(indices)
          BY <1>2, <4>1
        <5> QED BY <1>2, <2>4, <3>1, <4>1, <5>1, SubSeqProperties
      <4> QED BY <4>2, <4>3
    <3>3. [unfinalized[o] EXCEPT !.lowest = lowest, !.additional = additional] \in Entries
      BY <2>4, <3>2 DEF Entries
    <3>4. unfinalized' = [unfinalized EXCEPT ![o] =
             [unfinalized[o] EXCEPT !.lowest = lowest, !.additional = additional]]
      BY <2>2, <2>3, <2>4, <2>6, <3>1, ClientTypes DEF Entries
    <3>5. /\ DOMAIN unfinalized' = DOMAIN unfinalized
          /\ unfinalized' \in [DOMAIN unfinalized -> Entries]
      BY <2>3, <3>3, <3>4, ClientTypes
    <3> QED BY <1>1, <2>2, <2>5, <3>5, ClientTypes, ClientTypeNext
  <2>7. CASE ~(n < Len(indices))
    <3>1. /\ DOMAIN unfinalized' = DOMAIN unfinalized \ {o}
          /\ unfinalized' \in [DOMAIN unfinalized' -> Entries]
      BY <2>2, <2>7, ClientTypes DEF Restrict
    <3>2. IsFiniteSet(DOMAIN unfinalized') /\ DOMAIN unfinalized' \subseteq Objects
      BY <3>1, ClientTypes, FS_Subset
    <3> QED BY <1>1, <2>2, <2>5, <3>1, <3>2, ClientTypes, ClientTypeNext
  <2> QED BY <2>6, <2>7
<1> QED BY <1>3, <1>4

LEMMA OtherClientTypes ==
    ASSUME ClientTypeOK,
           \/ AllObjectsFinalized \/ ClientReceiveFinalizeTag \/ ClientReceiveHangup
           \/ ClientReceiveOther \/ \E i \in DOMAIN providers : GetContentsFails(i)
    PROVE  ClientTypeOK'
<1>1. walkerErrors' \in Nat
  <2>1. walkerErrors \in Nat
    BY ClientTypes
  <2> QED BY <2>1 DEF AllObjectsFinalized, ClientReceiveFinalizeTag, ClientReceiveHangup,
                      ClientReceiveOther, GetContentsFails, Consume
<1>2. CASE \E reason \in Ended : End(reason)
  BY <1>1, <1>2, EndType
<1>3. CASE ~\E reason \in Ended : End(reason)
  <2>1. ~End("error") /\ ~End("protocolError")
    BY <1>3 DEF Ended
  <2>2. /\ clientStatus' \in {"objects", "tag", "eof"} \cup Ended
        /\ UNCHANGED <<upload, unfinalized, nextIndex, requested, providers, liveWalkers>>
    BY <2>1 DEF AllObjectsFinalized, ClientReceiveFinalizeTag, ClientReceiveHangup,
                ClientReceiveOther, GetContentsFails, Ended
  <2> QED BY <1>1, <2>2, ClientTypes, ClientTypeNext
<1> QED BY <1>2, <1>3

(* What the client sends and receives. *)
LEMMA ClientChannel ==
    ASSUME ClientTypeOK, RequestsOK, ResponsesOK,
           ClientStep \/ \E i \in DOMAIN providers : GetContentsFails(i)
    PROVE  /\ requests' \in Seq(Messages)
           /\ \/ requests' = requests
              \/ \E m \in Messages : m.type # "InitiateDag" /\ requests' = Append(requests, m)
           /\ \/ responses' = responses
              \/ responses # <<>> /\ responses' = Tail(responses)
           /\ responses' \in Seq(Reports)
           /\ UNCHANGED upload
<1>1. CloseSend \in Messages /\ CloseSend.type # "InitiateDag"
  BY DEF CloseSend, Messages
<1>2. ASSUME NEW i \in DOMAIN providers
      PROVE  /\ ProvideObjectContents(i, FALSE) \in Messages
             /\ ProvideObjectContents(i, FALSE).type # "InitiateDag"
  BY EntryFields DEF ProvideObjectContents, Messages
<1>3. /\ \/ requests' = requests
         \/ \E m \in Messages : m.type # "InitiateDag" /\ requests' = Append(requests, m)
      /\ \/ responses' = responses
         \/ responses # <<>> /\ responses' = Tail(responses)
      /\ UNCHANGED upload
  <2>1. CASE ClientReceiveRequest \/ ClientReceiveFinalizeObject \/ ClientReceiveFinalizeTag
                \/ ClientReceiveHangup \/ ClientReceiveOther
    <3>1. requests' = requests /\ responses # <<>> /\ responses' = Tail(responses)
      BY <2>1 DEF ClientReceiveRequest, ClientReceiveFinalizeObject, ClientReceiveFinalizeTag,
                  ClientReceiveHangup, ClientReceiveOther, Consume
    <3>2. UNCHANGED upload
      BY <2>1 DEF ClientReceiveRequest, ClientReceiveFinalizeObject, ClientReceiveFinalizeTag,
                  ClientReceiveHangup, ClientReceiveOther, End
    <3> QED BY <3>1, <3>2
  <2>2. CASE AllObjectsFinalized
    BY <1>1, <2>2 DEF AllObjectsFinalized
  <2>3. CASE AcquireSemaphore
    BY <2>3 DEF AcquireSemaphore, channel
  <2>4. CASE \E i \in DOMAIN providers : GetContents(i) \/ SendContents(i) \/ GetContentsFails(i)
    BY <1>2, <2>4 DEF GetContents, SendContents, GetContentsFails, End, channel
  <2> QED BY <2>1, <2>2, <2>3, <2>4 DEF ClientStep
<1>4. requests' \in Seq(Messages)
  BY <1>3, AppendProperties DEF RequestsOK
<1>5. responses' \in Seq(Reports)
  BY <1>3, HeadTailProperties DEF ResponsesOK
<1> QED BY <1>3, <1>4, <1>5

LEMMA ClientStructure ==
    ASSUME Structure, ResponsesOK,
           ClientStep \/ \E i \in DOMAIN providers : GetContentsFails(i),
           UNCHANGED serverVars
    PROVE  Structure' /\ ResponsesOK'
<1>1. /\ StateTypes /\ QueueTypes /\ OtherTypes /\ LimitType
      /\ ClientTypeOK /\ Relations /\ QueuesOK /\ RequestsOK
  BY StructureParts
<1>2. ClientTypeOK'
  BY <1>1, ReceiveRequestType, AcquireSemaphoreType, GetContentsType, SendContentsType,
     ReceiveFinalizeObjectType, OtherClientTypes DEF ClientStep
<1>3. /\ requests' \in Seq(Messages) /\ responses' \in Seq(Reports) /\ UNCHANGED upload
      /\ \/ requests' = requests
         \/ \E m \in Messages : m.type # "InitiateDag" /\ requests' = Append(requests, m)
  BY <1>1, ClientChannel
<1>4. Messages' = Messages /\ ResponsesOK'
  BY <1>3 DEF Messages, upload, ResponsesOK, Reports, FinalizeTags
<1>5. UNCHANGED <<state, objectsByReference, remaining, dags, queues, stack, threads, storage>>
  BY DEF serverVars
<1>6. Relations'
  BY <1>1, <1>5, SameRelationsOfAll
<1>7. StateTypes' /\ QueueTypes' /\ OtherTypes' /\ LimitType' /\ QueuesOK'
  BY <1>1, <1>5 DEF StateTypes, QueueTypes, OtherTypes, LimitType, QueuesOK, dags, queues,
                    threads, storage
<1>8. RequestsOK'
  <2>1. nextReferenceIndex' = nextReferenceIndex
    BY <1>5 DEF dags
  <2>2. CASE requests' = requests
    BY <1>1, <1>4, <2>1, <2>2 DEF RequestsOK
  <2>3. CASE \E m \in Messages : m.type # "InitiateDag" /\ requests' = Append(requests, m)
    <3>1. PICK m \in Messages : m.type # "InitiateDag" /\ requests' = Append(requests, m)
      BY <2>3
    <3>2. requests \in Seq(Messages) /\ Len(requests) \in Nat /\ DOMAIN requests = 1 .. Len(requests)
      BY <1>1, LenProperties DEF RequestsOK
    <3>3. /\ DOMAIN requests' = 1 .. (Len(requests) + 1)
          /\ \A i \in 1 .. Len(requests) : requests'[i] = requests[i]
          /\ requests'[Len(requests) + 1] = m
      BY <3>1, <3>2
    <3>4. ASSUME NEW i \in DOMAIN requests', requests'[i].type = "InitiateDag"
          PROVE  i = 1 /\ nextReferenceIndex' = 0
      <4>1. i # Len(requests) + 1
        BY <3>1, <3>3, <3>4
      <4>2. i \in 1 .. Len(requests)
        BY <3>2, <3>3, <4>1
      <4> QED BY <1>1, <2>1, <3>2, <3>3, <3>4, <4>2 DEF RequestsOK
    <3> QED BY <1>3, <1>4, <3>4 DEF RequestsOK
  <2> QED BY <1>3, <2>2, <2>3
<1> QED BY <1>2, <1>4, <1>6, <1>7, <1>8, StructurePartsNext

LEMMA InitStructure ==
    ASSUME Init
    PROVE  Structure /\ ResponsesOK
<1>1. ServerInit /\ ClientInit
  BY DEF Init
<1>2. StateTypes
  <2>1. state = <<>> /\ objectsByReference = <<>> /\ nextReferenceIndex = 0
    BY <1>1 DEF ServerInit
  <2> QED BY <2>1, NoEntries DEF StateTypes
<1>3. QueueTypes
  BY <1>1, EmptySeq DEF ServerInit, QueueTypes
<1>4. OtherTypes
  BY <1>1, EmptySeq, ServerAssumption DEF ServerInit, OtherTypes
<1>5. LimitType
  BY <1>1, MaximumAssumption DEF ServerInit, LimitType, Maximum
<1>6. ClientTypeOK
  <2>1. /\ root \in Objects /\ rootTag \in BOOLEAN /\ unfinalized = [o \in {root} |-> NewObject(0)]
        /\ nextIndex = 1 /\ requested = {} /\ providers = <<>>
        /\ clientStatus = "objects" /\ liveWalkers = 1 /\ walkerErrors = 0
    BY <1>1, ClientAssumption DEF ClientInit
  <2>2. NewObject(0) \in Entries
    BY EmptySeq DEF NewObject, Entries
  <2>3. /\ DOMAIN unfinalized = {root} /\ unfinalized \in [{root} -> Entries]
        /\ IsFiniteSet({root}) /\ IsFiniteSet({})
    BY <2>1, <2>2, FS_Singleton, FS_EmptySet
  <2> QED BY <2>1, <2>3, NoEntries DEF ClientTypeOK, Entries
<1>7. Relations
  <2>1. state = <<>> /\ objectsByReference = <<>> /\ stack = <<>>
    BY <1>1 DEF ServerInit
  <2>2. DOMAIN state = {} /\ DOMAIN objectsByReference = {} /\ ToSet(stack) = {}
        /\ IsInjective(stack)
    BY <2>1, NoEntries, NothingInEmpty
  <2> QED BY <2>2 DEF Relations, ReferencesAreLive, ParentsWait, WaitsForLiveChildren,
                      FinalizationOK, StackOK
<1>8. QueuesOK
  BY <1>1, NothingInEmpty DEF ServerInit, QueuesOK
<1>9. RequestsOK
  <2>1. requests = <<InitiateDag(root, rootTag)>> /\ nextReferenceIndex = 0
    BY <1>1 DEF ServerInit, ClientInit
  <2>2. InitiateDag(root, rootTag) \in Messages
    BY DEF InitiateDag, Messages
  <2> QED BY <2>1, <2>2 DEF RequestsOK
<1>10. ResponsesOK
  BY <1>1, EmptySeq DEF ClientInit, ResponsesOK
<1> QED BY <1>2, <1>3, <1>4, <1>5, <1>6, <1>7, <1>8, <1>9, <1>10, StructureParts

LEMMA NextStructure ==
    ASSUME Structure, ResponsesOK, [Next]_vars
    PROVE  Structure' /\ ResponsesOK'
<1>1. CASE Server(ServerStep)
  BY <1>1, ServerStructure, ServerResponses DEF Server, ResponsesOK, Reports, FinalizeTags
<1>2. CASE Client(ClientStep) \/ \E i \in DOMAIN providers : Client(GetContentsFails(i))
  BY <1>2, ClientStructure DEF Client
<1>3. CASE UNCHANGED vars
  <2>1. /\ UNCHANGED <<state, objectsByReference, remaining, dags, queues, stack, threads,
                       storage>>
        /\ UNCHANGED <<requests, responses, clientVars>>
    BY <1>3 DEF vars, serverVars, channel
  <2>2. /\ StateTypes /\ QueueTypes /\ OtherTypes /\ LimitType
        /\ ClientTypeOK /\ Relations /\ QueuesOK /\ RequestsOK
    BY StructureParts
  <2>3. Relations'
    BY <2>1, <2>2, SameRelationsOfAll
  <2>4. StateTypes' /\ QueueTypes' /\ OtherTypes' /\ LimitType' /\ QueuesOK'
    BY <2>1, <2>2 DEF StateTypes, QueueTypes, OtherTypes, LimitType, QueuesOK, dags, queues,
                      threads, storage
  <2>5. RequestsOK' /\ ClientTypeOK'
    BY <2>1, <2>2, SameRequests, SameClient DEF dags
  <2> QED BY <2>1, <2>3, <2>4, <2>5, StructurePartsNext DEF ResponsesOK, Reports, FinalizeTags
<1> QED BY <1>1, <1>2, <1>3 DEF Next, Done

LEMMA StructureInvariant == Spec => [](Structure /\ ResponsesOK)
<1>1. Init => Structure /\ ResponsesOK
  BY InitStructure
<1>2. Structure /\ ResponsesOK /\ [Next]_vars => Structure' /\ ResponsesOK'
  BY NextStructure
<1> QED BY <1>1, <1>2, PTL DEF Spec

(* Every object that waits is told by as many children as it waits for,    *)
(* once each, for every graph, also if children are shared by parents of   *)
(* which some were known only after the child was being written: no upload *)
(* is stuck, or written before its children are (unfinalizedChildrenCount  *)
(* of pkg/storage/dag/uploader_server.go).                                 *)
THEOREM ChildrenTellTheirParents == Spec => []WaitsForLiveChildren
<1>1. Structure => WaitsForLiveChildren
  BY DEF Structure
<1> QED BY <1>1, StructureInvariant, PTL
-----------------------------------------------------------------------------
(* The limit.  A step adds and drops objectStates, so that what is held is *)
(* summed over those of both states.                                       *)
Held(s) == IF s \in DOMAIN state THEN HeldBy(s) ELSE Nothing

LEMMA HeldType ==
    ASSUME ServerTypeOK, NEW s
    PROVE  Held(s).count \in Nat /\ Held(s).sizeBytes \in Nat
<1>1. Nothing.count \in Nat /\ Nothing.sizeBytes \in Nat
  BY DEF Nothing
<1>2. CASE s \in DOMAIN state
  <2>1. state[s].reference \in Objects
    BY <1>2, Fields
  <2>2. PICK o \in Objects : o = state[s].reference
    BY <2>1
  <2>3. /\ ParentAndChildren(o).count \in Nat /\ ParentAndChildren(o).sizeBytes \in Nat
        /\ ParentOnly(o).count \in Nat /\ ParentOnly(o).sizeBytes \in Nat
    BY ReferencesAssumption DEF ParentAndChildren, ParentOnly
  <2>4. HeldBy(s) \in {Nothing, ParentAndChildren(o), ParentOnly(o)}
    BY <2>2 DEF HeldBy
  <2> QED BY <1>1, <1>2, <2>3, <2>4 DEF Held
<1>3. CASE s \notin DOMAIN state
  BY <1>1, <1>3 DEF Held
<1> QED BY <1>2, <1>3

LEMMA HeldTypeNext ==
    ASSUME ServerTypeOK', NEW s
    PROVE  Held(s)'.count \in Nat /\ Held(s)'.sizeBytes \in Nat
<1>1. Nothing.count \in Nat /\ Nothing.sizeBytes \in Nat
  BY DEF Nothing
<1>2. CASE s \in DOMAIN state'
  <2>1. state'[s].reference \in Objects
    <3>1. state'[s] \in ObjectStates
      BY <1>2 DEF ServerTypeOK
    <3> QED BY <3>1 DEF ObjectStates
  <2>2. PICK o \in Objects : o = state'[s].reference
    BY <2>1
  <2>3. /\ ParentAndChildren(o).count \in Nat /\ ParentAndChildren(o).sizeBytes \in Nat
        /\ ParentOnly(o).count \in Nat /\ ParentOnly(o).sizeBytes \in Nat
    BY ReferencesAssumption DEF ParentAndChildren, ParentOnly
  <2>4. HeldBy(s)' \in {Nothing, ParentAndChildren(o), ParentOnly(o)}
    BY <2>2 DEF HeldBy
  <2> QED BY <1>1, <1>2, <2>3, <2>4 DEF Held
<1>3. CASE s \notin DOMAIN state'
  BY <1>1, <1>3 DEF Held
<1> QED BY <1>2, <1>3

(* Objects that are not in S count for nothing. *)
(* Function g is f without elements for which f is zero. *)
IsPartOf(g, f, S, T) ==
    /\ IsFiniteSet(T) /\ S \in SUBSET T /\ f \in [T -> Nat]
    /\ \A x \in T \ S : f[x] = 0
    /\ g = [x \in S |-> f[x]]

LEMMA SumOverMore ==
    ASSUME NEW g, NEW f, NEW S, NEW T, IsPartOf(g, f, S, T)
    PROVE  SumFunction(g) = SumFunction(f)
<1> /\ IsFiniteSet(T) /\ S \in SUBSET T /\ f \in [T -> Nat]
    /\ \A x \in T \ S : f[x] = 0
    /\ g = [x \in S |-> f[x]]
  BY DEF IsPartOf
<1>1. SumFunctionOnSet(f, T) = SumFunctionOnSet(f, S)
  <2>1. \A x \in T : f[x] \in Int
    OBVIOUS
  <2> QED BY <2>1, SumExtended
<1>2. IsFiniteSet(S)
  BY FS_Subset
<1>3. SumFunctionOnSet(f, S) = SumFunctionOnSet(g, S)
  BY <1>2, SumsAgree
<1>4. SumFunction(f) = SumFunctionOnSet(f, T) /\ SumFunction(g) = SumFunctionOnSet(g, S)
  BY DEF SumFunction
<1> QED BY <1>1, <1>3, <1>4

(* What e holds changes from c to d, and what remains from r to q. *)
Moves(S, e, r, q, c, d) ==
    /\ r \in Nat /\ q \in Nat
    /\ c \in [S -> Nat] /\ d \in [S -> Nat]
    /\ \A t \in S \ {e} : c[t] = d[t]
    /\ q + d[e] = r + c[e]

LEMMA SumMoves ==
    ASSUME NEW S, IsFiniteSet(S), NEW e \in S, NEW r, NEW q, NEW c, NEW d,
           Moves(S, e, r, q, c, d)
    PROVE  q + SumFunction(d) = r + SumFunction(c)
<1> USE DEF Moves
<1>1. c \in [S -> Int] /\ d \in [S -> Int]
  OBVIOUS
<1>2. SumFunction(d) = SumFunction(c) - c[e] + d[e]
  BY <1>1, SumChanged
<1>3. SumFunction(c) \in Nat /\ SumFunction(d) \in Nat
  BY SumType
<1>4. c[e] \in Nat /\ d[e] \in Nat
  OBVIOUS
<1> QED BY <1>2, <1>3, <1>4

LEMMA LimitMoves ==
    ASSUME ServerTypeOK, ServerTypeOK', LimitConserved, NEW e,
           \A t \in DOMAIN state \cup DOMAIN state' : t # e => Held(t)' = Held(t),
           remaining'.count + Held(e)'.count = remaining.count + Held(e).count,
           remaining'.sizeBytes + Held(e)'.sizeBytes = remaining.sizeBytes + Held(e).sizeBytes
    PROVE  LimitConserved'
<1> DEFINE S == DOMAIN state \cup DOMAIN state' \cup {e}
           c == [t \in S |-> Held(t).count]
           d == [t \in S |-> Held(t)'.count]
           x == [t \in S |-> Held(t).sizeBytes]
           y == [t \in S |-> Held(t)'.sizeBytes]
<1>1. IsFiniteSet(S)
  <2>1. IsFiniteSet(DOMAIN state \cup DOMAIN state')
    BY StatesFinite, StatesFiniteNext, FS_Union
  <2> QED BY <2>1, FS_AddElement
<1>2. c \in [S -> Nat] /\ d \in [S -> Nat] /\ x \in [S -> Nat] /\ y \in [S -> Nat]
  BY HeldType, HeldTypeNext
<1>3. /\ remaining'.count + d[e] = remaining.count + c[e]
      /\ remaining'.sizeBytes + y[e] = remaining.sizeBytes + x[e]
      /\ \A t \in S \ {e} : c[t] = d[t] /\ x[t] = y[t]
  OBVIOUS
<1>4. /\ \A t \in S \ DOMAIN state : c[t] = 0 /\ x[t] = 0
      /\ \A t \in S \ DOMAIN state' : d[t] = 0 /\ y[t] = 0
  BY DEF Held, Nothing
<1>5. /\ [t \in DOMAIN state |-> HeldBy(t).count] = [t \in DOMAIN state |-> c[t]]
      /\ [t \in DOMAIN state |-> HeldBy(t).sizeBytes] = [t \in DOMAIN state |-> x[t]]
      /\ [t \in DOMAIN state' |-> HeldBy(t)'.count] = [t \in DOMAIN state' |-> d[t]]
      /\ [t \in DOMAIN state' |-> HeldBy(t)'.sizeBytes] = [t \in DOMAIN state' |-> y[t]]
  BY DEF Held
<1>6. DOMAIN state \in SUBSET S /\ DOMAIN state' \in SUBSET S /\ e \in S
  OBVIOUS
<1> HIDE DEF c, d, x, y, S
<1>7. /\ SumFunction([t \in DOMAIN state |-> c[t]]) = SumFunction(c)
      /\ SumFunction([t \in DOMAIN state |-> x[t]]) = SumFunction(x)
  <2>1. /\ \A t \in S \ DOMAIN state : c[t] = 0
        /\ \A t \in S \ DOMAIN state : x[t] = 0
    BY <1>4
  <2>2. SumFunction([t \in DOMAIN state |-> c[t]]) = SumFunction(c)
    <3> DEFINE g == [t \in DOMAIN state |-> c[t]]
    <3>1. IsPartOf(g, c, DOMAIN state, S)
      BY <1>1, <1>2, <1>6, <2>1 DEF IsPartOf
    <3> HIDE DEF g
    <3>2. SumFunction(g) = SumFunction(c)
      BY <3>1, SumOverMore
    <3> QED BY <3>2 DEF g
  <2>3. SumFunction([t \in DOMAIN state |-> x[t]]) = SumFunction(x)
    <3> DEFINE g == [t \in DOMAIN state |-> x[t]]
    <3>1. IsPartOf(g, x, DOMAIN state, S)
      BY <1>1, <1>2, <1>6, <2>1 DEF IsPartOf
    <3> HIDE DEF g
    <3>2. SumFunction(g) = SumFunction(x)
      BY <3>1, SumOverMore
    <3> QED BY <3>2 DEF g
  <2> QED BY <2>2, <2>3
<1>8. /\ SumFunction([t \in DOMAIN state' |-> d[t]]) = SumFunction(d)
      /\ SumFunction([t \in DOMAIN state' |-> y[t]]) = SumFunction(y)
  <2>1. /\ \A t \in S \ DOMAIN state' : d[t] = 0
        /\ \A t \in S \ DOMAIN state' : y[t] = 0
    BY <1>4
  <2>2. SumFunction([t \in DOMAIN state' |-> d[t]]) = SumFunction(d)
    <3> DEFINE g == [t \in DOMAIN state' |-> d[t]]
    <3>1. IsPartOf(g, d, DOMAIN state', S)
      BY <1>1, <1>2, <1>6, <2>1 DEF IsPartOf
    <3> HIDE DEF g
    <3>2. SumFunction(g) = SumFunction(d)
      BY <3>1, SumOverMore
    <3> QED BY <3>2 DEF g
  <2>3. SumFunction([t \in DOMAIN state' |-> y[t]]) = SumFunction(y)
    <3> DEFINE g == [t \in DOMAIN state' |-> y[t]]
    <3>1. IsPartOf(g, y, DOMAIN state', S)
      BY <1>1, <1>2, <1>6, <2>1 DEF IsPartOf
    <3> HIDE DEF g
    <3>2. SumFunction(g) = SumFunction(y)
      BY <3>1, SumOverMore
    <3> QED BY <3>2 DEF g
  <2> QED BY <2>2, <2>3
<1>9. /\ LimitConserved <=> /\ remaining.count + SumFunction(c) = MaximumCount
                            /\ remaining.sizeBytes + SumFunction(x) = MaximumSizeBytes
      /\ LimitConserved' <=> /\ remaining'.count + SumFunction(d) = MaximumCount
                             /\ remaining'.sizeBytes + SumFunction(y) = MaximumSizeBytes
  BY <1>5, <1>7, <1>8 DEF LimitConserved
<1>10. /\ remaining.count \in Nat /\ remaining'.count \in Nat
       /\ remaining.sizeBytes \in Nat /\ remaining'.sizeBytes \in Nat
  BY DEF ServerTypeOK
<1>11. /\ Moves(S, e, remaining.count, remaining'.count, c, d)
       /\ Moves(S, e, remaining.sizeBytes, remaining'.sizeBytes, x, y)
  BY <1>2, <1>3, <1>10 DEF Moves
<1>12. /\ remaining'.count + SumFunction(d) = remaining.count + SumFunction(c)
       /\ remaining'.sizeBytes + SumFunction(y) = remaining.sizeBytes + SumFunction(x)
  BY <1>1, <1>6, <1>11, SumMoves
<1> QED BY <1>9, <1>12

LEMMA SparedHeld ==
    ASSUME NEW t, t \in DOMAIN state, t \in DOMAIN state', Spared(t)
    PROVE  Held(t)' = Held(t)
  BY DEF Held, HeldBy, Spared, SameRelations

(* What remains does not change, and neither does what s holds. *)
LEMMA LimitKept ==
    ASSUME ServerTypeOK, ServerTypeOK', LimitConserved, UNCHANGED remaining,
           \A t \in DOMAIN state \cup DOMAIN state' : Held(t)' = Held(t)
    PROVE  LimitConserved'
<1>1. PICK e : e = -1
  OBVIOUS
<1>2. e \notin DOMAIN state \cup DOMAIN state'
  BY <1>1, SMTT(30) DEF ServerTypeOK
<1>3. Held(e)' = Held(e)
  BY <1>2 DEF Held
<1> QED BY <1>3, LimitMoves

(* What is held while the goroutine of an object goes on. *)
LEMMA AdvanceLimit ==
    ASSUME ServerTypeOK, ServerTypeOK', LimitConserved, Relations, UNCHANGED remaining,
           NEW s, Advances(s), state[s].stage # "pending",
           state[s].stage \in Writing <=> state'[s].stage \in Writing,
           state'[s].stage # "pending"
    PROVE  LimitConserved'
<1>1. Finalization(s)
  BY DEF Advances, Relations, FinalizationOK
<1>2. ~state[s].releasesChildren /\ ~state'[s].releasesChildren
  BY <1>1 DEF Finalization, Advances, Early, SameRelations
<1>3. state[s].stage \in Stages \ {"waiting", "finalized", "pending"}
  BY DEF Advances, Early
<1>4. state'[s].stage \in Stages \ {"waiting", "finalized", "pending"}
  BY DEF Advances, Early
<1>5. HeldBy(s)' = HeldBy(s)
  <2>1. CASE state[s].stage \in Writing
    BY <1>2, <2>1 DEF HeldBy, Writing, Checking, Advances, SameRelations
  <2>2. CASE state[s].stage \notin Writing
    BY <1>2, <1>3, <1>4, <2>2
       DEF HeldBy, Writing, Checking, Stages, Advances, SameRelations
  <2> QED BY <2>1, <2>2
<1>6. \A t \in DOMAIN state \cup DOMAIN state' : Held(t)' = Held(t)
  BY <1>5, SparedHeld DEF Advances, Held
<1> QED BY <1>6, LimitKept

LEMMA GetPendingObjectLimit ==
    ASSUME ServerTypeOK, ServerTypeOK', LimitConserved, Relations,
           NEW s \in DOMAIN state, GetPendingObject(s)
    PROVE  LimitConserved'
<1>1. Advances(s) /\ state'[s].stage = "popped"
  BY GetPendingObjectAdvances
<1>2. /\ state[s].stage = "pending"
      /\ remaining' = AcquireParentAndChildren(remaining, state[s].reference)
      /\ CanAcquireParentAndChildren(remaining, state[s].reference)
  BY DEF GetPendingObject
<1>3. PICK o \in Objects : o = state[s].reference
  BY Fields
<1>4. Held(s) = Nothing /\ Held(s)' = ParentAndChildren(o)
  BY <1>1, <1>2, <1>3 DEF Held, HeldBy, Advances, SameRelations, Checking
<1>5. PICK a \in Nat, b \in Nat : ParentAndChildren(o) = [count |-> a, sizeBytes |-> b]
  BY ReferencesAssumption DEF ParentAndChildren
<1>6. /\ remaining.count \in Nat /\ remaining.sizeBytes \in Nat
      /\ remaining'.count = remaining.count - a
      /\ remaining'.sizeBytes = remaining.sizeBytes - b
  BY <1>2, <1>3, <1>5 DEF AcquireParentAndChildren, ServerTypeOK
<1>7. /\ Held(s).count = 0 /\ Held(s).sizeBytes = 0
      /\ Held(s)'.count = a /\ Held(s)'.sizeBytes = b
  BY <1>4, <1>5 DEF Nothing
<1>8. /\ remaining'.count + Held(s)'.count = remaining.count + Held(s).count
      /\ remaining'.sizeBytes + Held(s)'.sizeBytes = remaining.sizeBytes + Held(s).sizeBytes
  BY <1>6, <1>7
<1>9. \A t \in DOMAIN state \cup DOMAIN state' : t # s => Held(t)' = Held(t)
  BY <1>1, SparedHeld DEF Advances
<1> QED BY <1>8, <1>9, LimitMoves

LEMMA ObjectContentsLimit ==
    ASSUME ServerTypeOK, ServerTypeOK', LimitConserved, Relations,
           NEW s, NEW found, FindsChildren(s, found), Provides(s, found),
           remaining' = ReleaseChildren(remaining, state[s].reference)
    PROVE  LimitConserved'
<1>1. /\ s \in DOMAIN state /\ s \in DOMAIN state'
      /\ state[s].stage = "requested" /\ state'[s].stage \in {"waiting", "putQueued"}
      /\ state'[s].reference = state[s].reference
      /\ state'[s].releasesChildren = state[s].releasesChildren
  BY DEF FindsChildren, Provides, SameOwn
<1>2. ~state[s].releasesChildren
  BY <1>1 DEF Relations, FinalizationOK, Finalization
<1>3. PICK o \in Objects : o = state[s].reference
  BY <1>1, Fields
<1>4. Held(s) = ParentAndChildren(o) /\ Held(s)' = ParentOnly(o)
  BY <1>1, <1>2, <1>3 DEF Held, HeldBy, Checking
<1>5. /\ remaining'.count + Held(s)'.count = remaining.count + Held(s).count
      /\ remaining'.sizeBytes + Held(s)'.sizeBytes = remaining.sizeBytes + Held(s).sizeBytes
  <2>1. remaining \in [count : Nat, sizeBytes : Nat]
    BY DEF ServerTypeOK
  <2> QED BY <1>3, <1>4, <2>1, ReleaseGivesBack
<1>6. ASSUME NEW t \in DOMAIN state \cup DOMAIN state', t # s
      PROVE  Held(t)' = Held(t)
  <2>1. CASE t \in DOMAIN state /\ \A c \in Children[state[s].reference] : found[c] # t
    BY <1>6, <2>1, SparedHeld DEF Provides
  <2>2. ASSUME NEW c \in Children[state[s].reference], found[c] = t, t \in DOMAIN state
        PROVE  Held(t)' = Held(t)
    <3>1. GetsParent(t, s) /\ t \in DOMAIN state'
      BY <2>2 DEF Provides
    <3> QED BY <2>2, <3>1 DEF GetsParent, SameOwn, Held, HeldBy
  <2>3. ASSUME t \notin DOMAIN state
        PROVE  Held(t)' = Held(t)
    <3>1. PICK c \in Children[state[s].reference] : found[c] = t
      BY <2>3 DEF Provides
    <3>2. state'[t] = NewState(c, <<s>>)
      BY <2>3, <3>1 DEF Provides
    <3>3. state'[t].stage = "pending"
      BY <3>2, NewStateFields
    <3> QED BY <1>6, <2>3, <3>3 DEF Held, HeldBy
  <2> QED BY <2>1, <2>2, <2>3
<1> QED BY <1>5, <1>6, LimitMoves

LEMMA FinalizeLimit ==
    ASSUME ServerTypeOK, ServerTypeOK', LimitConserved, Relations, UNCHANGED remaining,
           NEW s, NEW success \in BOOLEAN, NEW checked \in BOOLEAN,
           Finalizes(s, success, checked),
           state[s].stage = IF checked THEN "checked" ELSE "written"
    PROVE  LimitConserved'
<1>1. ~state[s].releasesChildren
  BY DEF Relations, FinalizationOK, Finalization, Finalizes
<1>2. HeldBy(s)' = HeldBy(s)
  BY <1>1 DEF HeldBy, Finalizes, Checking
<1>3. \A t \in DOMAIN state \cup DOMAIN state' : Held(t)' = Held(t)
  BY <1>2, SparedHeld DEF Finalizes, Held
<1> QED BY <1>3, LimitKept

LEMMA UpdatesLimit ==
    ASSUME ServerTypeOK, ServerTypeOK', LimitConserved, Relations, UNCHANGED remaining,
           NEW t, NEW p, Updates(t, p), Waits(p) \/ Fails(p) \/ IsComplete(p)
    PROVE  LimitConserved'
<1>1. ~state[p].releasesChildren
  BY DEF Relations, FinalizationOK, Finalization, Updates
<1>2. HeldBy(p)' = HeldBy(p)
  BY <1>1 DEF HeldBy, Updates, SameParent, Waits, Fails, IsComplete, Checking
<1>3. HeldBy(t)' = HeldBy(t)
  BY DEF HeldBy, Updates, SameOwn
<1>4. \A x \in DOMAIN state \cup DOMAIN state' : Held(x)' = Held(x)
  BY <1>2, <1>3, SparedHeld DEF Updates, Held
<1> QED BY <1>4, LimitKept

LEMMA ReleaseLimit ==
    ASSUME ServerTypeOK, ServerTypeOK', LimitConserved, Relations, ReleaseObject
    PROVE  LimitConserved'
<1>1. PICK s : s = Top
  OBVIOUS
<1>2. /\ Concludes(s, state[s].sent, FALSE) /\ state[s].finalizing
      /\ s \in DOMAIN state /\ state[s].stage = "finalized"
  BY <1>1, ReleaseEffect DEF Concludes
<1>3. PICK o \in Objects : o = state[s].reference
  BY <1>2, Fields
<1>4. remaining' = IF state[s].releasesChildren
                   THEN ReleaseChildren(ReleaseParent(remaining, o), o)
                   ELSE ReleaseParent(remaining, o)
  BY <1>1, <1>3 DEF ReleaseObject
<1>5. /\ Held(s) = IF state[s].releasesChildren THEN ParentAndChildren(o) ELSE ParentOnly(o)
      /\ Held(s)' = Nothing
  BY <1>2, <1>3 DEF Held, HeldBy, Concludes, Checking
<1>6. /\ remaining'.count = remaining.count + Held(s).count
      /\ remaining'.sizeBytes = remaining.sizeBytes + Held(s).sizeBytes
  <2>1. remaining \in [count : Nat, sizeBytes : Nat]
    BY DEF ServerTypeOK
  <2> QED BY <1>4, <1>5, <2>1, ReleaseGivesBack
<1>7. /\ remaining'.count \in Nat /\ remaining'.sizeBytes \in Nat
      /\ Held(s)'.count = 0 /\ Held(s)'.sizeBytes = 0
  BY <1>5 DEF Nothing, ServerTypeOK
<1>8. /\ remaining'.count + Held(s)'.count = remaining.count + Held(s).count
      /\ remaining'.sizeBytes + Held(s)'.sizeBytes = remaining.sizeBytes + Held(s).sizeBytes
  BY <1>6, <1>7
<1>9. \A t \in DOMAIN state \cup DOMAIN state' : t # s => Held(t)' = Held(t)
  BY <1>2, SparedHeld DEF Concludes
<1> QED BY <1>8, <1>9, LimitMoves

(* An object is reported: it holds what it held, as what is dropped has    *)
(* been released.                                                          *)
LEMMA ReportLimit ==
    ASSUME ServerTypeOK, ServerTypeOK', LimitConserved, UNCHANGED remaining,
           NEW s, Concludes(s, TRUE, state[s].finalizing)
    PROVE  LimitConserved'
<1>1. Held(s)' = Held(s)
  BY DEF Held, HeldBy, Concludes
<1>2. \A t \in DOMAIN state \cup DOMAIN state' : Held(t)' = Held(t)
  BY <1>1, SparedHeld DEF Concludes
<1> QED BY <1>2, LimitKept

(* The root of the DAG starts with nothing. *)
LEMMA InitiateLimit ==
    ASSUME ServerTypeOK, ServerTypeOK', ClientTypeOK, LimitConserved, UNCHANGED remaining,
           DOMAIN state = {}, nextReferenceIndex = 0, state' = [x \in {0} |-> Root]
    PROVE  LimitConserved'
<1>1. state'[0].stage = "pending"
  BY RootFields
<1>2. \A t \in DOMAIN state \cup DOMAIN state' : Held(t)' = Held(t)
  BY <1>1 DEF Held, HeldBy
<1> QED BY <1>2, LimitKept

LEMMA SameStatesLimit ==
    ASSUME ServerTypeOK, ServerTypeOK', LimitConserved, UNCHANGED <<state, remaining>>
    PROVE  LimitConserved'
  BY DEF LimitConserved, HeldBy

LEMMA ServerLimit ==
    ASSUME Structure, Structure', LimitConserved, ServerStep
    PROVE  LimitConserved'
<1>1. /\ ServerTypeOK /\ ClientTypeOK /\ Relations /\ QueuesOK /\ RequestsOK
      /\ ServerTypeOK'
  BY StructureParts, TypeParts, StructurePartsNext, TypePartsNext
<1> HIDE DEF Structure
<1>2. CASE ReceiveInitiateDag
  <2>1. /\ DOMAIN state = {} /\ nextReferenceIndex = 0
        /\ \/ Fail
           \/ state' = [x \in {0} |-> Root] /\ UNCHANGED remaining
    BY <1>1, <1>2, InitiateDagEffect DEF TypeOK
  <2> QED BY <1>1, <2>1, InitiateLimit, SameStatesLimit DEF Fail
<1>3. CASE ReceiveObjectContents
  <2>1. CASE Requested(Head(requests).index)
    <3>1. PICK s, found :
            /\ FindsChildren(s, found) /\ Provides(s, found)
            /\ remaining' = ReleaseChildren(remaining, state[s].reference)
      BY <1>1, <1>3, <2>1, ObjectContentsEffect DEF Relations
    <3> QED BY <1>1, <3>1, ObjectContentsLimit
  <2>2. CASE ~Requested(Head(requests).index)
    BY <1>1, <1>3, <2>2, SameStatesLimit DEF ReceiveObjectContents, Fail
  <2> QED BY <2>1, <2>2
<1>4. CASE ReceiveCloseSend \/ SendFinalizeTag \/ AllSent \/ Return
  BY <1>1, <1>4, SameStatesLimit DEF ReceiveCloseSend, Fail, SendFinalizeTag, AllSent, Return,
                                     Send
<1>5. CASE SendFinalizeObject
  <2>1. PICK s : s = Head(finalizedQueue)
    OBVIOUS
  <2>2. Concludes(s, TRUE, state[s].finalizing)
    BY <1>1, <1>5, <2>1, SendFinalizeEffect
  <2> QED BY <1>1, <1>5, <2>2, ReportLimit DEF SendFinalizeObject, Send
<1>6. CASE SendRequestObjectContents
  <2>1. PICK s : s = Head(requestedQueue)
    OBVIOUS
  <2>2. Advances(s) /\ state[s].stage = "requestQueued" /\ state'[s].stage = "requested"
    BY <1>6, <2>1, SendRequestAdvances
  <2>3. UNCHANGED remaining
    BY <1>6 DEF SendRequestObjectContents, Send
  <2> QED BY <1>1, <2>2, <2>3, AdvanceLimit DEF Writing
<1>7. CASE ParentWaits \/ ParentFails \/ ParentIsComplete
  <2>1. PICK t, p : t = Top /\ p = Parent
    OBVIOUS
  <2>2. Updates(t, p) /\ (Waits(p) \/ Fails(p) \/ IsComplete(p))
    BY <1>1, <1>7, <2>1, ParentWaitsEffect, ParentFailsEffect, ParentIsCompleteEffect
  <2>3. UNCHANGED remaining
    BY <1>7 DEF ParentWaits, ParentFails, ParentIsComplete, UpdateParent
  <2> QED BY <1>1, <2>2, <2>3, UpdatesLimit
<1>8. CASE ReleaseObject
  BY <1>1, <1>8, ReleaseLimit
<1>9. ASSUME NEW s \in DOMAIN state,
             \/ StartCheck(s) \/ CheckObject(s) \/ QueueRequestObjectContents(s)
             \/ StartPut(s) \/ PutObject(s) \/ StorageFails(s)
      PROVE  LimitConserved'
  <2>1. /\ Advances(s) /\ state[s].stage # "pending" /\ state'[s].stage # "pending"
        /\ state[s].stage \in Writing <=> state'[s].stage \in Writing
    <3>1. CASE StartCheck(s)
      BY <1>1, <3>1, StartCheckAdvances DEF StartCheck, Writing
    <3>2. CASE CheckObject(s)
      BY <1>1, <3>2, CheckObjectAdvances DEF CheckObject, Writing
    <3>3. CASE QueueRequestObjectContents(s)
      BY <1>1, <3>3, QueueRequestAdvances DEF QueueRequestObjectContents, Writing
    <3>4. CASE StartPut(s)
      BY <1>1, <3>4, StartPutAdvances DEF StartPut, Writing
    <3>5. CASE PutObject(s)
      BY <1>1, <3>5, PutObjectAdvances DEF PutObject, Writing
    <3>6. CASE StorageFails(s)
      <4>1. state[s].stage \in {"check", "put"}
        BY <3>6 DEF StorageFails
      <4>2. /\ Advances(s)
            /\ state'[s].stage = IF state[s].stage = "check" THEN "checked" ELSE "written"
        BY <1>1, <3>6, StorageFailsAdvances
      <4> QED BY <4>1, <4>2 DEF Writing
    <3> QED BY <1>9, <3>1, <3>2, <3>3, <3>4, <3>5, <3>6
  <2>2. UNCHANGED remaining
    BY <1>9 DEF StartCheck, CheckObject, QueueRequestObjectContents, StartPut, PutObject,
                StorageFails
  <2> QED BY <1>1, <2>1, <2>2, AdvanceLimit
<1>10. ASSUME NEW s \in DOMAIN state, FinishCheck(s) \/ FinishPut(s)
       PROVE  LimitConserved'
  <2>1. ASSUME NEW success \in BOOLEAN, NEW lease \in BOOLEAN, NEW checked \in BOOLEAN,
               Finalize(s, success, lease, checked),
               state[s].stage = IF checked THEN "checked" ELSE "written"
        PROVE  LimitConserved'
    <3>1. Finalizes(s, success, checked) /\ UNCHANGED remaining
      BY <1>1, <2>1, FinalizeEffect DEF Relations, Finalize
    <3> QED BY <1>1, <2>1, <3>1, FinalizeLimit
  <2>2. PICK success \in BOOLEAN, lease \in BOOLEAN :
          success = (state[s].result # "error") /\ lease = (state[s].result = "complete")
    OBVIOUS
  <2>3. CASE FinishCheck(s)
    <3>1. Finalize(s, lease, lease, TRUE) /\ state[s].stage = "checked"
      BY <2>2, <2>3 DEF FinishCheck
    <3> QED BY <2>1, <3>1
  <2>4. CASE FinishPut(s)
    <3>1. Finalize(s, success, lease, FALSE) /\ state[s].stage = "written"
      BY <2>2, <2>4 DEF FinishPut
    <3> QED BY <2>1, <3>1
  <2> QED BY <1>10, <2>3, <2>4
<1>11. CASE \E s \in DOMAIN state : GetPendingObject(s)
  BY <1>1, <1>11, GetPendingObjectLimit
<1>12. CASE \E s \in DOMAIN state : Relock(s)
  BY <1>1, <1>12, SameStatesLimit DEF Relock
<1>13. CASE \E w \in tagWrites : UpdateTag(w[1], w[2])
  BY <1>1, <1>13, SameStatesLimit DEF UpdateTag
<1> QED BY <1>2, <1>3, <1>4, <1>5, <1>6, <1>7, <1>8, <1>9, <1>10, <1>11, <1>12, <1>13
        DEF ServerStep, ServerReceive, ServerSend, LockedStep, ObjectStep

LEMMA LimitInit ==
    ASSUME Init
    PROVE  LimitConserved
<1>1. DOMAIN state = {} /\ remaining = Maximum
  BY NoEntries DEF Init, ServerInit
<1>2. \A f : DOMAIN f = {} => SumFunction(f) = 0
  BY SumOfNothing DEF SumFunction
<1> QED BY <1>1, <1>2, MaximumAssumption DEF LimitConserved, Maximum

(* Nothing of the limit on the parents of which uploads are in progress is *)
(* lost or given back twice, for every graph and every limit, whether      *)
(* objects were found, written or failed, and while the lock is released   *)
(* between a child and its parents (remainingUnfinalizedParentsLimit of    *)
(* pkg/storage/dag/uploader_server.go).                                    *)
THEOREM UnfinalizedParentsLimitIsConserved == Spec => []LimitConserved
<1>1. Init => LimitConserved
  BY LimitInit
<1>2. Structure /\ Structure' /\ LimitConserved /\ [Next]_vars => LimitConserved'
  <2>1. CASE UNCHANGED <<state, remaining>> /\ Structure /\ Structure' /\ LimitConserved
    BY <2>1, SameStatesLimit, StructureParts, TypeParts, StructurePartsNext, TypePartsNext
  <2>2. CASE Server(ServerStep) /\ Structure /\ Structure' /\ LimitConserved
    BY <2>2, ServerLimit DEF Server
  <2>3. Client(ClientStep) \/ (\E i \in DOMAIN providers : Client(GetContentsFails(i)))
          => UNCHANGED <<state, remaining>>
    BY DEF Client, serverVars
  <2>4. UNCHANGED vars => UNCHANGED <<state, remaining>>
    BY DEF vars, serverVars
  <2> QED BY <2>1, <2>2, <2>3, <2>4 DEF Next, Done
<1> QED BY <1>1, <1>2, StructureInvariant, PTL DEF Spec
-----------------------------------------------------------------------------
(* The DAG is counted once. *)
SameTags(t) ==
    /\ state'[t].reference = state[t].reference
    /\ state'[t].tags = state[t].tags
    /\ state'[t].unfinalizedDAGsWithoutTagsCount = state[t].unfinalizedDAGsWithoutTagsCount
    /\ state'[t].sent = state[t].sent

Counted == TagsOK /\ DagCounted

LEMMA SparedTags ==
    ASSUME NEW t, Spared(t) \/ SameRelations(t) \/ SameOwn(t)
    PROVE  SameTags(t)
  BY DEF Spared, SameRelations, SameOwn, SameTags

(* No objectState is dropped, and the ones that are created have no tag. *)
LEMMA TagsKept ==
    ASSUME ServerTypeOK, Counted, UNCHANGED <<root, rootTag, unfinalizedDAGsCount, tagWrites>>,
           UNCHANGED finalizedTags, DOMAIN state \subseteq DOMAIN state',
           \A t \in DOMAIN state : SameTags(t),
           \A t \in DOMAIN state' \ DOMAIN state :
               /\ t # 0 /\ state'[t].tags = <<>>
               /\ state'[t].unfinalizedDAGsWithoutTagsCount = 0,
           nextReferenceIndex' = 0 => nextReferenceIndex = 0
    PROVE  Counted'
<1>1. (RootIsOpen' <=> RootIsOpen) /\ (TagIsHeld' <=> TagIsHeld)
      /\ (TagIsWritten' <=> TagIsWritten) /\ (TagIsFinalized' <=> TagIsFinalized)
  BY DEF RootIsOpen, TagIsHeld, TagIsWritten, TagIsFinalized, SameTags
<1>2. DagCounted'
  BY <1>1 DEF Counted, DagCounted
<1>3. \A t \in DOMAIN state' :
        /\ state'[t].unfinalizedDAGsWithoutTagsCount = IF t = 0 /\ ~rootTag' THEN 1 ELSE 0
        /\ state'[t].tags # <<>> => t = 0 /\ rootTag' /\ state'[t].tags = <<0>>
        /\ t = 0 => state'[t].reference = root'
  <2>1. ASSUME NEW t \in DOMAIN state
        PROVE  /\ state'[t].unfinalizedDAGsWithoutTagsCount = IF t = 0 /\ ~rootTag' THEN 1 ELSE 0
               /\ state'[t].tags # <<>> => t = 0 /\ rootTag' /\ state'[t].tags = <<0>>
               /\ t = 0 => state'[t].reference = root'
    BY <2>1 DEF Counted, TagsOK, SameTags
  <2> QED BY <2>1
<1>4. TagsOK'
  BY <1>1, <1>3 DEF Counted, TagsOK
<1> QED BY <1>2, <1>4 DEF Counted

LEMMA InitiateCounted ==
    ASSUME TypeOK, Counted, RequestsOK, ReceiveInitiateDag, UNCHANGED clientVars
    PROVE  Counted'
<1>1. /\ nextReferenceIndex = 0 /\ DOMAIN state = {} /\ DOMAIN objectsByReference = {}
      /\ \/ Fail
         \/ /\ state' = [x \in {0} |-> Root]
            /\ unfinalizedDAGsCount' = unfinalizedDAGsCount + 1
            /\ nextReferenceIndex' = 1
            /\ UNCHANGED <<queues, threads>>
  BY InitiateDagEffect
<1>2. UNCHANGED <<root, rootTag>> /\ rootTag \in BOOLEAN /\ ClientTypeOK /\ ServerTypeOK
  BY DEF clientVars, upload, TypeOK, ClientTypeOK
<1>3. CASE Fail
  <2>1. UNCHANGED <<state, unfinalizedDAGsCount, nextReferenceIndex, finalizedTags, tagWrites>>
    BY <1>3 DEF Fail, dags, queues
  <2> QED BY <1>2, <2>1, TagsKept DEF SameTags
<1>4. CASE ~Fail
  <2>1. UNCHANGED <<finalizedTags, tagWrites>>
    BY <1>1, <1>4 DEF queues, threads
  <2>2. DOMAIN state' = {0} /\ state'[0] = Root
    BY <1>1, <1>4
  <2>3. /\ state'[0].reference = root /\ ~state'[0].sent
        /\ state'[0].tags = IF rootTag THEN <<0>> ELSE <<>>
        /\ state'[0].unfinalizedDAGsWithoutTagsCount = IF rootTag THEN 0 ELSE 1
    BY <1>1, <1>2, <2>2, RootFields
  <2>4. ~TagIsWritten /\ ~TagIsFinalized /\ unfinalizedDAGsCount = 0
    BY <1>1 DEF Counted, TagsOK, DagCounted, RootIsOpen, TagIsHeld
  <2>5. /\ ~TagIsWritten' /\ ~TagIsFinalized' /\ RootIsOpen'
        /\ TagIsHeld' <=> rootTag
    BY <2>1, <2>2, <2>3, <2>4 DEF TagIsWritten, TagIsFinalized, RootIsOpen, TagIsHeld
  <2>6. DagCounted'
    BY <1>1, <1>2, <1>4, <2>4, <2>5 DEF DagCounted
  <2>7. TagsOK'
    BY <1>2, <2>1, <2>2, <2>3, <2>5 DEF Counted, TagsOK
  <2> QED BY <2>6, <2>7 DEF Counted
<1> QED BY <1>3, <1>4

LEMMA ReportCounted ==
    ASSUME Structure, Counted, SendFinalizeObject, UNCHANGED clientVars
    PROVE  Counted'
<1>1. ServerTypeOK /\ Relations /\ QueuesOK /\ UNCHANGED <<root, rootTag>>
      /\ rootTag \in BOOLEAN
  BY StructureParts, TypeParts DEF clientVars, upload, ClientTypeOK
<1>2. PICK s : s = Head(finalizedQueue)
  OBVIOUS
<1>3. Concludes(s, TRUE, state[s].finalizing) /\ ~state[s].sent
  BY <1>1, <1>2, SendFinalizeEffect
<1>4. /\ unfinalizedDAGsCount' = unfinalizedDAGsCount - state[s].unfinalizedDAGsWithoutTagsCount
      /\ UNCHANGED <<tagWrites, finalizedTags, nextReferenceIndex>>
  BY <1>2 DEF SendFinalizeObject, Send, threads
<1>5. /\ s \in DOMAIN state /\ state[s].stage = "finalized"
      /\ ~state[s].finalizing => state[s].tags = <<>>
      /\ DOMAIN state' \subseteq DOMAIN state
      /\ s \in DOMAIN state' => state[s].finalizing
      /\ \A t \in DOMAIN state : t # s => t \in DOMAIN state' /\ SameTags(t)
  BY <1>1, <1>3, SparedTags DEF Concludes, Relations, FinalizationOK, Finalization
<1>6. s \in DOMAIN state' =>
        /\ state'[s].reference = state[s].reference /\ state'[s].tags = state[s].tags
        /\ state'[s].unfinalizedDAGsWithoutTagsCount = state[s].unfinalizedDAGsWithoutTagsCount
        /\ state'[s].sent
  BY <1>3, <1>5 DEF Concludes
<1>7. /\ TagIsHeld' <=> TagIsHeld
      /\ TagIsWritten' <=> TagIsWritten
      /\ TagIsFinalized' <=> TagIsFinalized
      /\ s # 0 => (RootIsOpen' <=> RootIsOpen)
      /\ s = 0 => RootIsOpen /\ ~RootIsOpen'
  <2>1. s # 0 => (RootIsOpen' <=> RootIsOpen) /\ (TagIsHeld' <=> TagIsHeld)
    BY <1>5 DEF RootIsOpen, TagIsHeld, SameTags
  <2>2. s = 0 => RootIsOpen /\ ~RootIsOpen'
    BY <1>3, <1>5, <1>6 DEF RootIsOpen
  <2>3. s = 0 => (TagIsHeld' <=> TagIsHeld)
    <3>1. CASE s \in DOMAIN state'
      BY <1>5, <1>6, <3>1 DEF TagIsHeld
    <3>2. CASE s \notin DOMAIN state'
      <4>1. ~state[s].finalizing
        BY <1>3, <3>2 DEF Concludes
      <4> QED BY <1>5, <3>2, <4>1 DEF TagIsHeld
    <3> QED BY <3>1, <3>2
  <2> QED BY <1>4, <2>1, <2>2, <2>3 DEF TagIsWritten, TagIsFinalized
<1>8. state[s].unfinalizedDAGsWithoutTagsCount = IF s = 0 /\ ~rootTag THEN 1 ELSE 0
  BY <1>5 DEF Counted, TagsOK
<1>9. unfinalizedDAGsCount \in Int
  BY <1>1 DEF ServerTypeOK
<1>10. DagCounted'
  BY <1>1, <1>4, <1>7, <1>8, <1>9 DEF Counted, DagCounted
<1>11. \A t \in DOMAIN state' :
        /\ state'[t].unfinalizedDAGsWithoutTagsCount = IF t = 0 /\ ~rootTag' THEN 1 ELSE 0
        /\ state'[t].tags # <<>> => t = 0 /\ rootTag' /\ state'[t].tags = <<0>>
        /\ t = 0 => state'[t].reference = root'
  <2>1. ASSUME NEW t \in DOMAIN state'
        PROVE  /\ t \in DOMAIN state /\ state'[t].reference = state[t].reference
               /\ state'[t].tags = state[t].tags
               /\ state'[t].unfinalizedDAGsWithoutTagsCount
                     = state[t].unfinalizedDAGsWithoutTagsCount
    BY <1>5, <1>6, <2>1 DEF SameTags
  <2> QED BY <1>1, <2>1 DEF Counted, TagsOK
<1>12. TagsOK'
  BY <1>1, <1>4, <1>7, <1>11 DEF Counted, TagsOK
<1> QED BY <1>10, <1>12 DEF Counted

LEMMA OneTag ==
    ASSUME NEW x \in FinalizeTags
    PROVE  /\ <<x>> # <<>> /\ Len(<<x>>) = 1 /\ <<x>>[1] = x
           /\ <<x>> \in Seq(FinalizeTags) /\ <<>> \o <<x>> = <<x>>
  BY ConcatEmptySeq

LEMMA TagsOfFinalizeTag ==
    ASSUME NEW success \in BOOLEAN
    PROVE  /\ FinalizeTag(0, success) \in FinalizeTags
           /\ FinalizeTag(0, success).index = 0
           /\ FinalizeTag(0, success).success = success
  BY DEF FinalizeTag, FinalizeTags

LEMMA OneFailedTag ==
    ASSUME NEW tags, tags = << 0 >>
    PROVE  [i \in DOMAIN tags |-> FinalizeTag(tags[i], FALSE)] = <<FinalizeTag(0, FALSE)>>
<1>1. DOMAIN tags = {1} /\ tags[1] = 0
  OBVIOUS
<1>2. PICK x : x = FinalizeTag(0, FALSE)
  OBVIOUS
<1>3. [i \in {1} |-> x] = <<x>>
  OBVIOUS
<1>4. [i \in DOMAIN tags |-> FinalizeTag(tags[i], FALSE)]
        = [i \in {1} |-> FinalizeTag(0, FALSE)]
  BY <1>1
<1> QED BY <1>2, <1>3, <1>4

(* The tag of the root, if there is one, is written or has failed. *)
LEMMA ReleaseTags ==
    ASSUME Structure, Counted, ReleaseObject
    PROVE  /\ Top \in DOMAIN state
           /\ IF TagIsHeld /\ Top = 0
              THEN /\ rootTag /\ tagWrites = {} /\ finalizedTags = <<>>
                   /\ \/ /\ state[0].success
                         /\ tagWrites' = {<<0, root>>} /\ finalizedTags' = <<>>
                      \/ tagWrites' = {} /\ finalizedTags' = <<FinalizeTag(0, FALSE)>>
              ELSE UNCHANGED <<tagWrites, finalizedTags>>
<1>1. ServerTypeOK /\ Relations
  BY StructureParts, TypeParts
<1>2. PICK s : s = Top
  OBVIOUS
<1>3. s \in DOMAIN state
  BY <1>1, <1>2, ReleaseEffect DEF Concludes
<1>4. IF state[s].success
      THEN /\ tagWrites' = tagWrites \cup {<<i, state[s].reference>> : i \in ToSet(state[s].tags)}
           /\ UNCHANGED finalizedTags
      ELSE /\ finalizedTags' = finalizedTags \o
                [i \in DOMAIN state[s].tags |-> FinalizeTag(state[s].tags[i], FALSE)]
           /\ UNCHANGED tagWrites
  BY <1>2 DEF ReleaseObject
<1>5. CASE TagIsHeld /\ s = 0
  <2>1. /\ state[s].tags = <<0>> /\ state[s].reference = root /\ rootTag
        /\ tagWrites = {} /\ finalizedTags = <<>>
    BY <1>3, <1>5 DEF Counted, TagsOK, TagIsHeld, TagIsWritten, TagIsFinalized
  <2>2. ToSet(state[s].tags) = {0}
    BY <2>1, OneElement
  <2>3. CASE state[s].success
    BY <1>2, <1>3, <1>4, <1>5, <2>1, <2>2, <2>3
  <2>4. CASE ~state[s].success
    <3>1. [i \in DOMAIN state[s].tags |-> FinalizeTag(state[s].tags[i], FALSE)]
            = <<FinalizeTag(0, FALSE)>>
      BY <2>1, OneFailedTag
    <3>2. finalizedTags' = <<>> \o <<FinalizeTag(0, FALSE)>>
      BY <1>4, <2>1, <2>4, <3>1
    <3>3. finalizedTags' = <<FinalizeTag(0, FALSE)>>
      BY <3>2, OneTag, TagsOfFinalizeTag
    <3> QED BY <1>2, <1>3, <1>4, <1>5, <2>1, <2>4, <3>3
  <2> QED BY <2>3, <2>4
<1>6. CASE ~(TagIsHeld /\ s = 0)
  <2>1. state[s].tags = <<>>
    BY <1>3, <1>6 DEF Counted, TagsOK, TagIsHeld
  <2>2. ToSet(state[s].tags) = {}
    BY <2>1, NothingInEmpty
  <2>3. [i \in DOMAIN state[s].tags |-> FinalizeTag(state[s].tags[i], FALSE)] = <<>>
    BY <2>1
  <2>4. finalizedTags \o <<>> = finalizedTags
    BY <1>1, ConcatEmptySeq DEF ServerTypeOK
  <2> QED BY <1>2, <1>3, <1>4, <1>6, <2>2, <2>3, <2>4
<1> QED BY <1>5, <1>6

LEMMA ReleaseCounted ==
    ASSUME Structure, Counted, ReleaseObject, UNCHANGED clientVars
    PROVE  Counted'
<1>1. ServerTypeOK /\ Relations /\ UNCHANGED <<root, rootTag>> /\ rootTag \in BOOLEAN
  BY StructureParts, TypeParts DEF clientVars, upload, ClientTypeOK
<1>2. PICK s : s = Top
  OBVIOUS
<1>3. Concludes(s, state[s].sent, FALSE)
  BY <1>1, <1>2, ReleaseEffect
<1>4. UNCHANGED <<unfinalizedDAGsCount, nextReferenceIndex>>
  BY DEF ReleaseObject, dags
<1>5. /\ s \in DOMAIN state
      /\ DOMAIN state' \subseteq DOMAIN state
      /\ s \notin DOMAIN state' => state[s].sent
      /\ \A t \in DOMAIN state : t # s => t \in DOMAIN state' /\ SameTags(t)
      /\ s \in DOMAIN state' =>
            /\ state'[s].reference = state[s].reference /\ state'[s].tags = <<>>
            /\ state'[s].unfinalizedDAGsWithoutTagsCount
                  = state[s].unfinalizedDAGsWithoutTagsCount
            /\ state'[s].sent = state[s].sent
  BY <1>3, SparedTags DEF Concludes
<1>6. /\ RootIsOpen' <=> RootIsOpen
      /\ s # 0 => (TagIsHeld' <=> TagIsHeld)
      /\ s = 0 => ~TagIsHeld'
  <2>1. s # 0 => (RootIsOpen' <=> RootIsOpen) /\ (TagIsHeld' <=> TagIsHeld)
    BY <1>5 DEF RootIsOpen, TagIsHeld, SameTags
  <2>2. s = 0 => ~TagIsHeld'
    BY <1>5 DEF TagIsHeld
  <2>3. s = 0 => (RootIsOpen' <=> RootIsOpen)
    BY <1>5 DEF RootIsOpen
  <2> QED BY <2>1, <2>2, <2>3
<1>7. \A t \in DOMAIN state' :
        /\ state'[t].unfinalizedDAGsWithoutTagsCount = IF t = 0 /\ ~rootTag' THEN 1 ELSE 0
        /\ state'[t].tags # <<>> => t = 0 /\ rootTag' /\ state'[t].tags = <<0>>
        /\ t = 0 => state'[t].reference = root'
  <2>1. ASSUME NEW t \in DOMAIN state'
        PROVE  /\ t \in DOMAIN state /\ state'[t].reference = state[t].reference
               /\ state'[t].tags # <<>> => state'[t].tags = state[t].tags
               /\ state'[t].unfinalizedDAGsWithoutTagsCount
                     = state[t].unfinalizedDAGsWithoutTagsCount
    BY <1>5, <2>1 DEF SameTags
  <2> QED BY <1>1, <2>1 DEF Counted, TagsOK
<1>8. CASE TagIsHeld /\ s = 0
  <2>1. /\ rootTag
        /\ \/ tagWrites' = {<<0, root>>} /\ finalizedTags' = <<>>
           \/ tagWrites' = {} /\ finalizedTags' = <<FinalizeTag(0, FALSE)>>
    BY <1>2, <1>8, ReleaseTags
  <2>2. ~TagIsHeld' /\ unfinalizedDAGsCount = 1
    BY <1>6, <1>8, <2>1 DEF Counted, DagCounted
  <2>3. \/ TagIsWritten' /\ ~TagIsFinalized'
        \/ ~TagIsWritten' /\ TagIsFinalized'
    BY <2>1, OneTag, TagsOfFinalizeTag DEF TagIsWritten, TagIsFinalized
  <2>4. DagCounted'
    BY <1>1, <1>4, <2>1, <2>2, <2>3 DEF DagCounted
  <2>5. /\ tagWrites' \subseteq {<<0, root>>} /\ Len(finalizedTags') <= 1
        /\ finalizedTags' # <<>> => finalizedTags'[1].index = 0
    <3>1. PICK x \in FinalizeTags : x = FinalizeTag(0, FALSE) /\ x.index = 0
      BY TagsOfFinalizeTag
    <3>2. <<x>> # <<>> /\ Len(<<x>>) = 1 /\ <<x>>[1] = x
      BY OneTag
    <3>3. CASE finalizedTags' = <<x>> /\ tagWrites' = {}
      <4>1. Len(finalizedTags') = 1 /\ finalizedTags'[1] = x
        BY <3>2, <3>3
      <4>2. Len(finalizedTags') <= 1
        BY <4>1
      <4> QED BY <3>1, <3>3, <4>1, <4>2
    <3>4. CASE finalizedTags' = <<>> /\ tagWrites' = {<<0, root>>}
      BY <3>4
    <3> QED BY <2>1, <3>1, <3>3, <3>4
  <2>6. nextReferenceIndex' # 0
    BY <1>1, <1>4, <1>5, <1>8 DEF ServerTypeOK
  <2>7. TagsOK'
    BY <1>1, <1>7, <2>1, <2>2, <2>3, <2>5, <2>6 DEF TagsOK
  <2> QED BY <2>4, <2>7 DEF Counted
<1>9. CASE ~(TagIsHeld /\ s = 0)
  <2>1. UNCHANGED <<tagWrites, finalizedTags>>
    BY <1>2, <1>9, ReleaseTags
  <2>2. /\ TagIsWritten' <=> TagIsWritten
        /\ TagIsFinalized' <=> TagIsFinalized
        /\ TagIsHeld' <=> TagIsHeld
    BY <1>6, <1>9, <2>1 DEF TagIsWritten, TagIsFinalized
  <2>3. DagCounted'
    BY <1>1, <1>4, <1>6, <2>2 DEF Counted, DagCounted
  <2>4. TagsOK'
    BY <1>1, <1>4, <1>7, <2>1, <2>2 DEF Counted, TagsOK
  <2> QED BY <2>3, <2>4 DEF Counted
<1> QED BY <1>8, <1>9

LEMMA UpdateTagCounted ==
    ASSUME Structure, Counted, NEW w \in tagWrites, UpdateTag(w[1], w[2]), UNCHANGED clientVars
    PROVE  /\ Counted' /\ w[1] = 0 /\ w[2] = root /\ rootTag
           /\ \/ /\ tagged' = tagged \cup {root}
                 /\ finalizedTags' = <<FinalizeTag(0, TRUE)>>
              \/ /\ UNCHANGED tagged
                 /\ finalizedTags' = <<FinalizeTag(0, FALSE)>>
           /\ tagWrites' = {}
<1>1. UNCHANGED <<root, rootTag>> /\ rootTag \in BOOLEAN
  BY StructureParts DEF clientVars, upload, ClientTypeOK
<1>2. w = <<0, root>> /\ tagWrites = {w} /\ TagIsWritten /\ rootTag
  BY DEF Counted, TagsOK, TagIsWritten
<1>3. finalizedTags = <<>> /\ ~TagIsHeld /\ ~TagIsFinalized /\ nextReferenceIndex # 0
      /\ unfinalizedDAGsCount = 1
  BY <1>2 DEF Counted, TagsOK, DagCounted, TagIsFinalized
<1>4. FinalizeTag(0, TRUE) \in FinalizeTags /\ FinalizeTag(0, FALSE) \in FinalizeTags
  BY DEF FinalizeTag, FinalizeTags
<1>5. /\ Append(finalizedTags, FinalizeTag(0, TRUE)) = <<FinalizeTag(0, TRUE)>>
      /\ Append(finalizedTags, FinalizeTag(0, FALSE)) = <<FinalizeTag(0, FALSE)>>
  BY <1>3
<1>6. /\ tagWrites' = {}
      /\ \/ tagged' = tagged \cup {root} /\ finalizedTags' = <<FinalizeTag(0, TRUE)>>
         \/ UNCHANGED tagged /\ finalizedTags' = <<FinalizeTag(0, FALSE)>>
      /\ UNCHANGED <<state, unfinalizedDAGsCount, nextReferenceIndex>>
  BY <1>2, <1>5 DEF UpdateTag, dags
<1>7. ~TagIsHeld' /\ ~TagIsWritten' /\ TagIsFinalized'
  BY <1>3, <1>6, OneTag, TagsOfFinalizeTag DEF TagIsHeld, TagIsWritten, TagIsFinalized
<1>8. DagCounted'
  BY <1>1, <1>2, <1>3, <1>6, <1>7 DEF DagCounted
<1>9. Len(finalizedTags') <= 1 /\ finalizedTags'[1].index = 0
  <2>1. PICK x \in FinalizeTags : finalizedTags' = <<x>> /\ x.index = 0
    BY <1>6, TagsOfFinalizeTag
  <2>2. Len(<<x>>) = 1 /\ <<x>>[1] = x
    BY OneTag
  <2> QED BY <2>1, <2>2
<1>10. TagsOK'
  BY <1>1, <1>2, <1>3, <1>6, <1>7, <1>9 DEF Counted, TagsOK
<1> QED BY <1>2, <1>6, <1>8, <1>10 DEF Counted

LEMMA SendFinalizeTagCounted ==
    ASSUME Structure, Counted, SendFinalizeTag, UNCHANGED clientVars
    PROVE  Counted'
<1>1. UNCHANGED <<root, rootTag>> /\ rootTag \in BOOLEAN
  BY StructureParts DEF clientVars, upload, ClientTypeOK
<1>2. /\ finalizedTags # <<>> /\ finalizedTags' = Tail(finalizedTags)
      /\ unfinalizedDAGsCount' = unfinalizedDAGsCount - 1
      /\ UNCHANGED <<state, tagWrites, nextReferenceIndex>>
  BY DEF SendFinalizeTag, Send, threads
<1>3. /\ rootTag /\ ~TagIsHeld /\ ~TagIsWritten /\ nextReferenceIndex # 0
      /\ unfinalizedDAGsCount = 1 /\ Len(finalizedTags) <= 1
  BY <1>2 DEF Counted, TagsOK, DagCounted, TagIsFinalized
<1>4. finalizedTags' = <<>>
  <2>1. finalizedTags \in Seq(FinalizeTags)
    BY StructureParts DEF OtherTypes
  <2> QED BY <1>2, <1>3, <2>1
<1>5. ~TagIsHeld' /\ ~TagIsWritten' /\ ~TagIsFinalized'
  BY <1>2, <1>3, <1>4 DEF TagIsHeld, TagIsWritten, TagIsFinalized
<1>6. DagCounted'
  BY <1>1, <1>2, <1>3, <1>5 DEF DagCounted
<1>7. TagsOK'
  BY <1>1, <1>2, <1>3, <1>4, <1>5 DEF Counted, TagsOK
<1> QED BY <1>6, <1>7 DEF Counted

LEMMA SameStatesCounted ==
    ASSUME ServerTypeOK, Counted, UNCHANGED <<root, rootTag, unfinalizedDAGsCount, tagWrites>>,
           UNCHANGED <<state, finalizedTags, nextReferenceIndex>>
    PROVE  Counted'
  BY TagsKept DEF SameTags

LEMMA ObjectContentsCounted ==
    ASSUME Structure, Counted, ReceiveObjectContents, UNCHANGED clientVars
    PROVE  Counted'
<1>1. /\ ServerTypeOK /\ Relations /\ RequestsOK /\ UNCHANGED <<root, rootTag>>
  BY StructureParts, TypeParts DEF clientVars, upload
<1>2. CASE Requested(Head(requests).index)
  <2>1. PICK s, found :
          /\ FindsChildren(s, found) /\ Provides(s, found)
          /\ nextReferenceIndex' =
                nextReferenceIndex + Cardinality(Children[state[s].reference])
          /\ UNCHANGED <<unfinalizedDAGsCount, tagWrites, queues>>
    BY <1>1, <1>2, ObjectContentsEffect DEF Relations
  <2>2. s \in DOMAIN state /\ nextReferenceIndex \in Nat /\ nextReferenceIndex > 0
    <3>1. s \in DOMAIN state
      BY <2>1 DEF FindsChildren
    <3> QED BY <1>1, <3>1 DEF ServerTypeOK
  <2>3. nextReferenceIndex' # 0
    <3>1. state[s].reference \in Objects
      BY <1>1, <2>2, Fields
    <3>2. Cardinality(Children[state[s].reference]) \in Nat
      BY <2>2, <3>1, ChildIndicesOK
    <3> QED BY <2>1, <2>2, <3>2
  <2>4. ASSUME NEW t \in DOMAIN state
        PROVE  SameTags(t)
    <3>1. CASE t = s
      BY <2>1, <3>1, SparedTags DEF Provides
    <3>2. CASE t # s /\ \A c \in Children[state[s].reference] : found[c] # t
      BY <2>1, <3>2, SparedTags DEF Provides
    <3>3. ASSUME NEW c \in Children[state[s].reference], found[c] = t
          PROVE  SameTags(t)
      <4>1. GetsParent(t, s)
        BY <2>1, <2>4, <3>3 DEF Provides
      <4> QED BY <4>1, SparedTags DEF GetsParent
    <3> QED BY <3>1, <3>2, <3>3
  <2>5. ASSUME NEW t \in DOMAIN state' \ DOMAIN state
        PROVE  /\ t # 0 /\ state'[t].tags = <<>>
               /\ state'[t].unfinalizedDAGsWithoutTagsCount = 0
    <3>1. PICK c \in Children[state[s].reference] : found[c] = t
      BY <2>1, <2>5 DEF Provides
    <3>2. state'[t] = NewState(c, <<s>>)
      BY <2>1, <2>5, <3>1 DEF Provides
    <3>3. nextReferenceIndex <= t /\ t \in Nat
      BY <2>1, <2>5, <3>1 DEF FindsChildren
    <3> QED BY <2>2, <3>2, <3>3, NewStateFields
  <2>6. DOMAIN state \subseteq DOMAIN state' /\ UNCHANGED finalizedTags
    BY <2>1 DEF Provides, queues
  <2> QED BY <1>1, <2>1, <2>3, <2>4, <2>5, <2>6, TagsKept
<1>3. CASE ~Requested(Head(requests).index)
  BY <1>1, <1>3, SameStatesCounted DEF ReceiveObjectContents, Fail, dags, queues
<1> QED BY <1>2, <1>3

(* Steps of single objects, and of parents that are told. *)
LEMMA StatesKeepCounted ==
    ASSUME ServerTypeOK, Counted, UNCHANGED clientVars,
           UNCHANGED <<dags, tagWrites, finalizedTags>>, DOMAIN state' = DOMAIN state,
           \A t \in DOMAIN state : SameTags(t)
    PROVE  Counted'
<1>1. UNCHANGED <<root, rootTag, unfinalizedDAGsCount, nextReferenceIndex, tagWrites>>
  BY DEF clientVars, upload, dags
<1> QED BY <1>1, TagsKept

LEMMA ServerCounted ==
    ASSUME Structure, Counted, ServerStep, UNCHANGED clientVars
    PROVE  Counted'
<1>1. /\ ServerTypeOK /\ ClientTypeOK /\ Relations /\ QueuesOK /\ RequestsOK
      /\ UNCHANGED <<root, rootTag>> /\ TypeOK
  BY StructureParts, TypeParts DEF clientVars, upload, TypeOK
<1>2. CASE ReceiveInitiateDag
  BY <1>1, <1>2, InitiateCounted
<1>3. CASE ReceiveObjectContents
  BY <1>3, ObjectContentsCounted
<1>4. CASE ReceiveCloseSend \/ AllSent \/ Return \/ \E s \in DOMAIN state : Relock(s)
  BY <1>1, <1>4, SameStatesCounted DEF ReceiveCloseSend, Fail, AllSent, Return, Relock, dags,
                                       queues, threads
<1>5. CASE SendFinalizeObject \/ SendFinalizeTag
  BY <1>5, ReportCounted, SendFinalizeTagCounted
<1>6. CASE SendRequestObjectContents
  <2>1. PICK s : s = Head(requestedQueue)
    OBVIOUS
  <2>2. Advances(s)
    BY <1>6, <2>1, SendRequestAdvances
  <2>3. UNCHANGED <<dags, tagWrites, finalizedTags>>
    BY <1>6 DEF SendRequestObjectContents, Send, dags, threads
  <2> QED BY <1>1, <2>2, <2>3, SparedTags, StatesKeepCounted DEF Advances
<1>7. CASE ParentWaits \/ ParentFails \/ ParentIsComplete
  <2>1. PICK t, p : t = Top /\ p = Parent
    OBVIOUS
  <2>2. Updates(t, p)
    BY <1>1, <1>7, <2>1, ParentWaitsEffect, ParentFailsEffect, ParentIsCompleteEffect
  <2>3. UNCHANGED <<dags, tagWrites, finalizedTags>>
    BY <1>7 DEF ParentWaits, ParentFails, ParentIsComplete, UpdateParent, queues, threads
  <2>4. SameTags(p)
    BY <2>2 DEF Updates, SameParent, SameTags
  <2>5. \A x \in DOMAIN state : SameTags(x)
    BY <2>2, <2>4, SparedTags DEF Updates
  <2> QED BY <1>1, <2>2, <2>3, <2>5, StatesKeepCounted DEF Updates
<1>8. CASE ReleaseObject
  BY <1>8, ReleaseCounted
<1>9. ASSUME NEW s \in DOMAIN state,
             \/ GetPendingObject(s) \/ StartCheck(s) \/ CheckObject(s)
             \/ QueueRequestObjectContents(s) \/ StartPut(s) \/ PutObject(s)
             \/ StorageFails(s)
      PROVE  Counted'
  <2>1. Advances(s)
    BY <1>1, <1>9, GetPendingObjectAdvances, StartCheckAdvances, CheckObjectAdvances,
       QueueRequestAdvances, StartPutAdvances, PutObjectAdvances, StorageFailsAdvances
  <2>2. UNCHANGED <<dags, tagWrites, finalizedTags>>
    BY <1>9 DEF GetPendingObject, StartCheck, CheckObject, QueueRequestObjectContents,
                StartPut, PutObject, StorageFails, queues, threads
  <2> QED BY <1>1, <2>1, <2>2, SparedTags, StatesKeepCounted DEF Advances
<1>10. ASSUME NEW s \in DOMAIN state, FinishCheck(s) \/ FinishPut(s)
       PROVE  Counted'
  <2>1. ASSUME NEW success \in BOOLEAN, NEW lease \in BOOLEAN, NEW checked \in BOOLEAN,
               Finalize(s, success, lease, checked)
        PROVE  Counted'
    <3>1. Finalizes(s, success, checked) /\ UNCHANGED <<dags, tagWrites, finalizedTags>>
      BY <1>1, <2>1, FinalizeEffect DEF Relations, Finalize, threads
    <3>2. SameTags(s)
      BY <3>1 DEF Finalizes, SameTags
    <3> QED BY <1>1, <3>1, <3>2, SparedTags, StatesKeepCounted DEF Finalizes
  <2>2. PICK success \in BOOLEAN, lease \in BOOLEAN :
          success = (state[s].result # "error") /\ lease = (state[s].result = "complete")
    OBVIOUS
  <2>3. CASE FinishCheck(s)
    <3>1. Finalize(s, lease, lease, TRUE)
      BY <2>2, <2>3 DEF FinishCheck
    <3> QED BY <2>1, <3>1
  <2>4. CASE FinishPut(s)
    <3>1. Finalize(s, success, lease, FALSE)
      BY <2>2, <2>4 DEF FinishPut
    <3> QED BY <2>1, <3>1
  <2> QED BY <1>10, <2>3, <2>4
<1>11. CASE \E w \in tagWrites : UpdateTag(w[1], w[2])
  BY <1>11, UpdateTagCounted
<1> QED BY <1>2, <1>3, <1>4, <1>5, <1>6, <1>7, <1>8, <1>9, <1>10, <1>11
        DEF ServerStep, ServerReceive, ServerSend, LockedStep, ObjectStep

LEMMA CountedInvariant == Spec => []Counted
<1>1. Init => Counted
  <2> SUFFICES ASSUME Init
               PROVE  Counted
    OBVIOUS
  <2>1. DOMAIN state = {} /\ tagWrites = {} /\ finalizedTags = <<>> /\ unfinalizedDAGsCount = 0
    BY NoEntries DEF Init, ServerInit
  <2> QED BY <2>1 DEF Counted, TagsOK, DagCounted, RootIsOpen, TagIsHeld, TagIsWritten,
                      TagIsFinalized
<1>2. Structure /\ Counted /\ [Next]_vars => Counted'
  <2>1. CASE Server(ServerStep) /\ Structure /\ Counted
    BY <2>1, ServerCounted DEF Server
  <2>2. CASE /\ Client(ClientStep) \/ \E i \in DOMAIN providers : Client(GetContentsFails(i))
             /\ Structure /\ Counted
    <3>1. UNCHANGED serverVars /\ UNCHANGED upload
      BY <2>2 DEF Client, ClientStep, ClientReceiveRequest, ClientReceiveFinalizeObject,
                  AllObjectsFinalized, ClientReceiveFinalizeTag, ClientReceiveHangup,
                  ClientReceiveOther, AcquireSemaphore, GetContents, SendContents,
                  GetContentsFails, End
    <3> QED BY <2>2, <3>1, SameStatesCounted, StructureParts, TypeParts
            DEF serverVars, upload, dags, queues, threads
  <2>3. CASE UNCHANGED vars /\ Structure /\ Counted
    BY <2>3, SameStatesCounted, StructureParts, TypeParts
       DEF vars, serverVars, clientVars, upload, dags, queues, threads
  <2> QED BY <2>1, <2>2, <2>3 DEF Next, Done
<1> QED BY <1>1, <1>2, StructureInvariant, PTL DEF Spec

(* No panic of the server's queues and counters is reachable, for every    *)
(* graph, limit and order of events: an object is in at most one of the    *)
(* lists of objects to request and objects that are finalized, once, and   *)
(* the count of DAGs neither underflows nor exceeds its maximum            *)
(* (pkg/storage/dag/uploader_server.go).                                   *)
THEOREM ServerDoesNotPanic == Spec => []NoPanic
<1>1. Structure /\ Counted => NoPanic
  <2> SUFFICES ASSUME Structure, Counted
               PROVE  NoPanic
    OBVIOUS
  <2>1. QueuesOK /\ QueueTypes
    BY StructureParts
  <2>2. IsInjective(requestedQueue \o finalizedQueue)
    <3> DEFINE q == requestedQueue
               f == finalizedQueue
    <3>1. q \in Seq(Nat) /\ f \in Seq(Nat) /\ IsInjective(q) /\ IsInjective(f)
      BY <2>1 DEF QueuesOK, QueueTypes
    <3>2. \A i \in DOMAIN q, j \in DOMAIN f : q[i] # f[j]
      <4> SUFFICES ASSUME NEW i \in DOMAIN q, NEW j \in DOMAIN f, q[i] = f[j]
                   PROVE  FALSE
        OBVIOUS
      <4>1. q[i] \in ToSet(q) /\ f[j] \in ToSet(f)
        BY DEF ToSet
      <4>2. state[q[i]].stage = "requestQueued" /\ state[f[j]].stage = "finalized"
        BY <2>1, <4>1 DEF QueuesOK
      <4> QED BY <4>2
    <3> HIDE DEF q, f
    <3>3. IsInjective(q \o f)
      <4>1. /\ DOMAIN (q \o f) = 1 .. Len(q) + Len(f)
            /\ \A i \in 1 .. Len(q) + Len(f) :
                  (q \o f)[i] = IF i <= Len(q) THEN q[i] ELSE f[i - Len(q)]
        BY <3>1
      <4>2. DOMAIN q = 1 .. Len(q) /\ DOMAIN f = 1 .. Len(f) /\ Len(q) \in Nat /\ Len(f) \in Nat
        BY <3>1
      <4> SUFFICES ASSUME NEW i \in 1 .. Len(q) + Len(f), NEW j \in 1 .. Len(q) + Len(f),
                          (q \o f)[i] = (q \o f)[j]
                   PROVE  i = j
        BY <4>1 DEF IsInjective
      <4>3. CASE i <= Len(q) /\ j <= Len(q)
        <5>1. i \in DOMAIN q /\ j \in DOMAIN q /\ q[i] = q[j]
          BY <4>1, <4>2, <4>3
        <5> QED BY <3>1, <5>1 DEF IsInjective
      <4>4. CASE i > Len(q) /\ j > Len(q)
        <5>1. i - Len(q) \in DOMAIN f /\ j - Len(q) \in DOMAIN f
          BY <4>2, <4>4
        <5>2. f[i - Len(q)] = f[j - Len(q)]
          BY <4>1, <4>2, <4>4
        <5>3. i - Len(q) = j - Len(q)
          BY <3>1, <5>1, <5>2 DEF IsInjective
        <5> QED BY <4>2, <5>3
      <4>5. CASE i <= Len(q) /\ j > Len(q)
        <5>1. i \in DOMAIN q /\ j - Len(q) \in DOMAIN f /\ q[i] = f[j - Len(q)]
          BY <4>1, <4>2, <4>5
        <5> QED BY <3>2, <5>1
      <4>6. CASE i > Len(q) /\ j <= Len(q)
        <5>1. j \in DOMAIN q /\ i - Len(q) \in DOMAIN f /\ q[j] = f[i - Len(q)]
          BY <4>1, <4>2, <4>6
        <5> QED BY <3>2, <5>1
      <4> QED BY <4>2, <4>3, <4>4, <4>5, <4>6
    <3> QED BY <3>3 DEF q, f
  <2>3. unfinalizedDAGsCount \in {0, 1}
    BY DEF Counted, DagCounted
  <2>4. unfinalizedDAGsCount \in 0 .. MaximumUnfinalizedDAGsCount
    BY <2>3, ServerAssumption
  <2> QED BY <2>2, <2>4 DEF NoPanic
<1> QED BY <1>1, StructureInvariant, CountedInvariant, PTL
-----------------------------------------------------------------------------
(* What exists and what has been reported. *)
LEMMA GraphExistsOf ==
    ASSUME NEW o \in Objects, o \in exists, \A c \in Children[o] : GraphExists(c)
    PROVE  GraphExists(o)
  BY ReachableOf DEF GraphExists

LEMMA GraphStillExists ==
    ASSUME exists \subseteq exists', NEW o, GraphExists(o)
    PROVE  GraphExists(o)'
  BY DEF GraphExists

SameTruth(t) ==
    /\ state'[t].reference = state[t].reference
    /\ state'[t].stage = state[t].stage /\ state'[t].result = state[t].result
    /\ state'[t].success = state[t].success
    /\ state'[t].hasChildFailures = state[t].hasChildFailures

(* The children that an object waits for are still there. *)
HoldersKept(s) ==
    \A t \in DOMAIN state : Holds(t, s) =>
        /\ t \in DOMAIN state' /\ Holds(t, s)'
        /\ state'[t].reference = state[t].reference

LEMMA ChildrenStillExist ==
    ASSUME exists \subseteq exists', NEW s, HoldersKept(s), ChildrenExist(s),
           state'[s].reference = state[s].reference
    PROVE  ChildrenExist(s)'
<1> SUFFICES ASSUME NEW c \in Children[state[s].reference]
             PROVE  \/ GraphExists(c)'
                    \/ \E t \in DOMAIN state' : Holds(t, s)' /\ state'[t].reference = c
  BY DEF ChildrenExist
<1>1. \/ GraphExists(c)
      \/ \E t \in DOMAIN state : Holds(t, s) /\ state[t].reference = c
  BY DEF ChildrenExist
<1> QED BY <1>1, GraphStillExists DEF HoldersKept

LEMMA StaysTrue ==
    ASSUME exists \subseteq exists', NEW s, TruthOf(s), SameTruth(s), HoldersKept(s)
    PROVE  TruthOf(s)'
<1>1. \A o : GraphExists(o) => GraphExists(o)'
  BY GraphStillExists
<1>2. ChildrenExist(s) => ChildrenExist(s)'
  BY ChildrenStillExist DEF SameTruth
<1> QED BY <1>1, <1>2 DEF TruthOf, SameTruth

LEMMA AdvanceTruth ==
    ASSUME ObjectsTruth, NEW s, Advances(s), exists \subseteq exists',
           state'[s].stage \in Writing => state[s].stage \in Writing,
           state'[s].stage = "checked" /\ state'[s].result = "complete" =>
               GraphExists(state[s].reference),
           state'[s].stage = "written" =>
               state'[s].result = "error" \/ state[s].reference \in exists'
    PROVE  ObjectsTruth'
<1>1. \A t \in DOMAIN state : HoldersKept(t)
  BY DEF HoldersKept, Holds, Advances, Spared, SameRelations
<1>2. \A t \in DOMAIN state : t # s => TruthOf(t)'
  <2> SUFFICES ASSUME NEW t \in DOMAIN state, t # s
               PROVE  TruthOf(t)'
    OBVIOUS
  <2>1. SameTruth(t)
    BY DEF Advances, Spared, SameRelations, SameTruth
  <2> QED BY <1>1, <2>1, StaysTrue DEF ObjectsTruth
<1>3. TruthOf(s)'
  <2>1. /\ s \in DOMAIN state /\ TruthOf(s)
        /\ state'[s].reference = state[s].reference
        /\ state'[s].hasChildFailures = state[s].hasChildFailures
        /\ state'[s].stage # "waiting" /\ state'[s].stage # "finalized"
    BY DEF ObjectsTruth, Advances, SameRelations, Early
  <2>2. ChildrenExist(s) => ChildrenExist(s)'
    BY <1>1, <2>1, ChildrenStillExist
  <2>3. state'[s].stage = "checked" /\ state'[s].result = "complete" =>
            GraphExists(state[s].reference)'
    <3>1. PICK o : o = state[s].reference /\ o = state'[s].reference
      BY <2>1
    <3>2. GraphExists(o) => GraphExists(o)'
      BY GraphStillExists
    <3> QED BY <3>1, <3>2
  <2> QED BY <2>1, <2>2, <2>3 DEF TruthOf
<1> QED BY <1>2, <1>3 DEF ObjectsTruth, Advances

LEMMA ProvidesTruth ==
    ASSUME ServerTypeOK, Relations, ObjectsTruth, NEW s, NEW found, FindsChildren(s, found),
           Provides(s, found), UNCHANGED exists
    PROVE  ObjectsTruth'
<1> DEFINE C == Children[state[s].reference]
<1>1. /\ s \in DOMAIN state /\ state[s].stage = "requested"
      /\ state'[s].reference = state[s].reference
      /\ state'[s].stage \in {"waiting", "putQueued"}
      /\ \A c \in C : found[c] # s
  BY DEF FindsChildren, Provides, SameOwn
<1>2. ASSUME NEW t \in DOMAIN state, \A c \in C : found[c] # t, t # s
      PROVE  Spared(t)
  BY <1>2 DEF Provides
<1>3. ASSUME NEW c \in C, found[c] \in DOMAIN state
      PROVE  GetsParent(found[c], s)
  BY <1>3 DEF Provides
<1>4. DOMAIN state' = DOMAIN state \cup {found[c] : c \in C}
  BY DEF Provides
<1>5. \A t \in DOMAIN state : t # s => SameTruth(t)
  <2> SUFFICES ASSUME NEW t \in DOMAIN state, t # s
               PROVE  SameTruth(t)
    OBVIOUS
  <2>1. CASE \A c \in C : found[c] # t
    BY <1>2, <2>1 DEF Spared, SameRelations, SameTruth
  <2>2. CASE \E c \in C : found[c] = t
    BY <1>3, <2>2 DEF GetsParent, SameOwn, SameTruth
  <2> QED BY <2>1, <2>2
<1>6. \A t \in DOMAIN state : HoldersKept(t)
  <2> SUFFICES ASSUME NEW t \in DOMAIN state, NEW p \in DOMAIN state, Holds(t, p)
               PROVE  Holds(t, p)' /\ state'[t].reference = state[t].reference
    BY <1>4 DEF HoldersKept
  <2>1. CASE t = s
    BY <1>1, <2>1 DEF Provides, Holds
  <2>2. CASE t # s /\ \A c \in C : found[c] # t
    BY <1>2, <2>2 DEF Spared, SameRelations, Holds
  <2>3. ASSUME NEW c \in C, found[c] = t
        PROVE  Holds(t, p)' /\ state'[t].reference = state[t].reference
    <3>1. GetsParent(t, s)
      BY <1>3, <2>3
    <3>2. /\ state[t].unfinalizedParents \in Seq(Nat) /\ s \in Nat
      BY <1>1, Fields
    <3>3. ToSet(state[t].unfinalizedParents) \subseteq ToSet(state'[t].unfinalizedParents)
      BY <3>1, <3>2, ToSetAppend DEF GetsParent
    <3> QED BY <3>1, <3>3 DEF Holds, GetsParent, SameOwn
  <2> QED BY <2>1, <2>2, <2>3
<1>7. \A t \in DOMAIN state : t # s => TruthOf(t)'
  BY <1>5, <1>6, StaysTrue DEF ObjectsTruth
<1>8. TruthOf(s)'
  <2>1. ASSUME NEW c \in C
        PROVE  \/ GraphExists(c)
               \/ \E t \in DOMAIN state' : Holds(t, s)' /\ state'[t].reference = c
    <3>1. CASE Finished(found, c)
      <4>1. /\ found[c] \in DOMAIN state /\ state[found[c]].stage = "finalized"
            /\ c \in DOMAIN objectsByReference /\ objectsByReference[c] = found[c]
            /\ state[found[c]].reference = c
        BY <2>1, <3>1 DEF Finished, FindsChildren
      <4>2. state[found[c]].success
        BY <4>1 DEF Relations, ReferencesAreLive
      <4> QED BY <4>1, <4>2 DEF ObjectsTruth, TruthOf
    <3>2. CASE found[c] \in DOMAIN state /\ state[found[c]].stage # "finalized"
      <4>1. PICK t \in DOMAIN state : t = found[c]
        BY <3>2
      <4>2. /\ GetsParent(t, s) /\ state[t].reference = c /\ t \in DOMAIN state'
            /\ state[t].unfinalizedParents \in Seq(Nat) /\ s \in Nat
        BY <1>1, <1>3, <1>4, <2>1, <4>1, Fields DEF FindsChildren
      <4>3. state'[t].unfinalizedParents = Append(state[t].unfinalizedParents, s)
        BY <3>2, <4>1, <4>2 DEF GetsParent
      <4>4. Holds(t, s)'
        BY <4>2, <4>3, ToSetAppend DEF Holds
      <4> QED BY <4>2, <4>4 DEF GetsParent, SameOwn
    <3>3. CASE found[c] \notin DOMAIN state
      <4>1. PICK t : t = found[c]
        OBVIOUS
      <4>2. state'[t] = NewState(c, <<s>>) /\ t \in DOMAIN state' /\ s \in Nat
        BY <1>1, <1>4, <2>1, <3>3, <4>1, Fields DEF Provides
      <4>3. state'[t].reference = c /\ state'[t].unfinalizedParents = <<s>>
        BY <4>2, NewStateFields
      <4>4. Holds(t, s)'
        BY <4>2, <4>3, OneElement DEF Holds
      <4> QED BY <4>2, <4>3, <4>4
    <3> QED BY <3>1, <3>2, <3>3 DEF Finished
  <2>2. \A c \in C : GraphExists(c) => GraphExists(c)'
    BY DEF GraphExists
  <2>3. ChildrenExist(s)'
    BY <1>1, <2>1, <2>2 DEF ChildrenExist
  <2> QED BY <1>1, <2>3 DEF TruthOf
<1>9. ASSUME NEW t \in DOMAIN state' \ DOMAIN state
      PROVE  TruthOf(t)'
  <2>1. PICK c \in C : found[c] = t
    BY <1>4, <1>9
  <2>2. state'[t] = NewState(c, <<s>>)
    BY <1>9, <2>1 DEF Provides
  <2>3. state'[t].stage = "pending"
    BY <2>2, NewStateFields
  <2> QED BY <2>3 DEF TruthOf, Writing
<1> QED BY <1>7, <1>8, <1>9 DEF ObjectsTruth

(* Nothing is left to be written below an object that is written. *)
LEMMA WritingHasChildren ==
    ASSUME ServerTypeOK, Relations, ObjectsTruth, NEW s \in DOMAIN state,
           state[s].stage \in Writing
    PROVE  \A c \in Children[state[s].reference] : GraphExists(c)
<1>1. ~state[s].hasChildFailures
  BY DEF Relations, FinalizationOK, Finalization, Writing
<1>2. ChildrenExist(s)
  BY <1>1 DEF ObjectsTruth, TruthOf
<1>3. \A t \in DOMAIN state : ~Holds(t, s)
  BY DEF Relations, ParentsWait, Holds, Writing
<1> QED BY <1>2, <1>3 DEF ChildrenExist

LEMMA FinalizeTruth ==
    ASSUME ServerTypeOK, Relations, ObjectsTruth, UNCHANGED exists,
           NEW s, NEW success \in BOOLEAN, NEW checked \in BOOLEAN,
           Finalizes(s, success, checked),
           success => \/ state[s].stage = "checked" /\ state[s].result = "complete"
                      \/ state[s].stage = "written" /\ state[s].result # "error"
    PROVE  ObjectsTruth'
<1>1. \A t \in DOMAIN state : HoldersKept(t)
  BY DEF HoldersKept, Holds, Finalizes, Spared, SameRelations
<1>2. \A t \in DOMAIN state : t # s => TruthOf(t)'
  <2> SUFFICES ASSUME NEW t \in DOMAIN state, t # s
               PROVE  TruthOf(t)'
    OBVIOUS
  <2>1. SameTruth(t)
    BY DEF Finalizes, Spared, SameRelations, SameTruth
  <2> QED BY <1>1, <2>1, StaysTrue DEF ObjectsTruth
<1>3. TruthOf(s)'
  <2>1. /\ s \in DOMAIN state /\ TruthOf(s) /\ state[s].reference \in Objects
        /\ state'[s].reference = state[s].reference
        /\ state'[s].stage = "finalized" /\ state'[s].success = success
    BY Fields DEF ObjectsTruth, Finalizes
  <2>2. success => GraphExists(state[s].reference)
    <3>1. CASE state[s].stage = "checked" /\ state[s].result = "complete"
      BY <2>1, <3>1 DEF TruthOf
    <3>2. CASE state[s].stage = "written" /\ state[s].result # "error"
      <4>1. state[s].reference \in exists
        BY <2>1, <3>2 DEF TruthOf
      <4>2. \A c \in Children[state[s].reference] : GraphExists(c)
        BY <2>1, <3>2, WritingHasChildren DEF Writing
      <4> QED BY <2>1, <4>1, <4>2, GraphExistsOf
    <3> QED BY <3>1, <3>2
  <2>3. PICK o : o = state[s].reference /\ o = state'[s].reference
    BY <2>1
  <2>4. GraphExists(o) => GraphExists(o)'
    BY GraphStillExists
  <2> QED BY <2>1, <2>2, <2>3, <2>4 DEF TruthOf, Writing
<1> QED BY <1>2, <1>3 DEF ObjectsTruth, Finalizes

LEMMA UpdatesTruth ==
    ASSUME ServerTypeOK, Relations, ObjectsTruth, UNCHANGED exists,
           NEW t, NEW p, Updates(t, p), Waits(p) \/ Fails(p) \/ IsComplete(p)
    PROVE  ObjectsTruth'
<1>1. /\ Holders(p)' = Holders(p) \ {t}
      /\ \A q : q # p => Holders(q)' = Holders(q)
  BY UpdatesHolders
<1>2. /\ DOMAIN state' = DOMAIN state /\ t \in DOMAIN state /\ p \in DOMAIN state
      /\ \A x \in DOMAIN state : state'[x].reference = state[x].reference
  BY DEF Updates, Spared, SameRelations, SameOwn, SameParent
<1>3. \A q \in DOMAIN state : q # p => HoldersKept(q)
  <2> SUFFICES ASSUME NEW q \in DOMAIN state, q # p, NEW x \in DOMAIN state, Holds(x, q)
               PROVE  Holds(x, q)'
    BY <1>2 DEF HoldersKept
  <2>1. x \in Holders(q)
    BY DEF Holders
  <2>2. x \in Holders(q)'
    BY <1>1, <2>1
  <2> QED BY <2>2 DEF Holders
<1>4. \A q \in DOMAIN state : q # p /\ q # t => TruthOf(q)'
  <2> SUFFICES ASSUME NEW q \in DOMAIN state, q # p, q # t
               PROVE  TruthOf(q)'
    OBVIOUS
  <2>1. SameTruth(q)
    BY DEF Updates, Spared, SameRelations, SameTruth
  <2> QED BY <1>3, <2>1, StaysTrue DEF ObjectsTruth
<1>5. TruthOf(t)'
  <2>1. /\ TruthOf(t) /\ state[t].stage = "finalized" /\ state'[t].stage = "finalized"
        /\ state'[t].success = state[t].success
    BY <1>2 DEF ObjectsTruth, Updates, SameOwn
  <2>2. PICK o : o = state[t].reference /\ o = state'[t].reference
    BY <1>2
  <2>3. GraphExists(o) => GraphExists(o)'
    BY GraphStillExists
  <2> QED BY <2>1, <2>2, <2>3 DEF TruthOf, Writing
<1>6. ~state'[p].hasChildFailures => ChildrenExist(p)'
  <2> SUFFICES ASSUME ~state'[p].hasChildFailures, NEW c \in Children[state[p].reference]
               PROVE  \/ GraphExists(c)'
                      \/ \E x \in DOMAIN state' : Holds(x, p)' /\ state'[x].reference = c
    BY <1>2 DEF ChildrenExist
  <2>1. /\ ~state[p].hasChildFailures /\ state[t].success
        /\ state[p].stage = "waiting" /\ state[t].stage = "finalized"
    BY DEF Updates
  <2>2. ChildrenExist(p) /\ GraphExists(state[t].reference)
    BY <1>2, <2>1 DEF ObjectsTruth, TruthOf
  <2>3. GraphExists(c) => GraphExists(c)'
    BY GraphStillExists
  <2>4. CASE GraphExists(c)
    BY <2>3, <2>4
  <2>5. ASSUME NEW x \in DOMAIN state, Holds(x, p), state[x].reference = c
        PROVE  \/ GraphExists(c)'
               \/ \E y \in DOMAIN state' : Holds(y, p)' /\ state'[y].reference = c
    <3>1. CASE x = t
      BY <2>2, <2>3, <2>5, <3>1
    <3>2. CASE x # t
      <4>1. x \in Holders(p)
        BY <2>5 DEF Holders
      <4>2. x \in Holders(p)'
        BY <1>1, <3>2, <4>1
      <4> QED BY <1>2, <2>5, <4>2 DEF Holders
    <3> QED BY <3>1, <3>2
  <2> QED BY <2>2, <2>4, <2>5 DEF ChildrenExist
<1>7. TruthOf(p)'
  <2>1. CASE Fails(p)
    BY <2>1 DEF TruthOf, Fails, Writing
  <2>2. CASE Waits(p) \/ IsComplete(p)
    BY <1>6, <2>2 DEF TruthOf, Waits, IsComplete
  <2> QED BY <2>1, <2>2
<1> QED BY <1>2, <1>4, <1>5, <1>7 DEF ObjectsTruth

LEMMA ConcludesTruth ==
    ASSUME ServerTypeOK, Relations, ObjectsTruth, UNCHANGED exists,
           NEW s, NEW sent, NEW finalizing, Concludes(s, sent, finalizing),
           s \in DOMAIN state' \/ state[s].unfinalizedParents = <<>>
    PROVE  ObjectsTruth'
<1>1. DOMAIN state' \subseteq DOMAIN state /\ \A t \in DOMAIN state : t # s => t \in DOMAIN state'
  BY DEF Concludes
<1>2. \A t \in DOMAIN state : HoldersKept(t)
  <2> SUFFICES ASSUME NEW p \in DOMAIN state, NEW t \in DOMAIN state, Holds(t, p)
               PROVE  /\ t \in DOMAIN state' /\ Holds(t, p)'
                      /\ state'[t].reference = state[t].reference
    BY DEF HoldersKept
  <2>1. CASE t # s
    BY <1>1, <2>1 DEF Concludes, Spared, SameRelations, Holds
  <2>2. CASE t = s /\ s \in DOMAIN state'
    BY <2>2 DEF Concludes, Holds
  <2>3. CASE t = s /\ state[s].unfinalizedParents = <<>>
    BY <2>3, NothingInEmpty DEF Holds
  <2> QED BY <2>1, <2>2, <2>3
<1>3. \A t \in DOMAIN state : t # s => TruthOf(t)'
  <2> SUFFICES ASSUME NEW t \in DOMAIN state, t # s
               PROVE  TruthOf(t)'
    OBVIOUS
  <2>1. SameTruth(t)
    BY DEF Concludes, Spared, SameRelations, SameTruth
  <2> QED BY <1>2, <2>1, StaysTrue DEF ObjectsTruth
<1>4. s \in DOMAIN state' => TruthOf(s)'
  <2> SUFFICES ASSUME s \in DOMAIN state'
               PROVE  TruthOf(s)'
    OBVIOUS
  <2>1. /\ s \in DOMAIN state /\ state[s].stage = "finalized" /\ state'[s].stage = "finalized"
        /\ state'[s].success = state[s].success
        /\ state'[s].reference = state[s].reference
    BY DEF Concludes
  <2>2. PICK o : o = state[s].reference /\ o = state'[s].reference
    BY <2>1
  <2>3. GraphExists(o) => GraphExists(o)'
    BY GraphStillExists
  <2> QED BY <2>1, <2>2, <2>3 DEF ObjectsTruth, TruthOf, Writing
<1> QED BY <1>1, <1>3, <1>4 DEF ObjectsTruth

LEMMA SameStatesTruth ==
    ASSUME ObjectsTruth, UNCHANGED <<state, exists>>
    PROVE  ObjectsTruth'
<1>1. \A t \in DOMAIN state : HoldersKept(t) /\ SameTruth(t)
  BY DEF HoldersKept, SameTruth, Holds
<1> QED BY <1>1, StaysTrue DEF ObjectsTruth

LEMMA ServerObjectsTruth ==
    ASSUME Structure, ObjectsTruth, ServerStep
    PROVE  ObjectsTruth' /\ exists \subseteq exists' /\ tagged \subseteq tagged'
<1>1. /\ ServerTypeOK /\ ClientTypeOK /\ Relations /\ QueuesOK /\ RequestsOK /\ TypeOK
  BY StructureParts, TypeParts DEF TypeOK
<1> USE DEF storage
<1>2. CASE ReceiveInitiateDag
  <2>1. /\ DOMAIN state = {} /\ nextReferenceIndex = 0
        /\ \/ Fail /\ UNCHANGED storage
           \/ state' = [x \in {0} |-> Root] /\ UNCHANGED storage
    BY <1>1, <1>2, InitiateDagEffect
  <2>2. CASE Fail /\ UNCHANGED storage
    BY <2>2, SameStatesTruth DEF Fail
  <2>3. CASE state' = [x \in {0} |-> Root] /\ UNCHANGED storage
    <3>1. DOMAIN state' = {0} /\ state'[0].stage = "pending"
      BY <1>1, <2>1, <2>3, RootFields
    <3> QED BY <2>3, <3>1 DEF ObjectsTruth, TruthOf, Writing
  <2> QED BY <2>1, <2>2, <2>3
<1>3. CASE ReceiveObjectContents
  <2>1. CASE Requested(Head(requests).index)
    <3>1. PICK s, found :
            FindsChildren(s, found) /\ Provides(s, found) /\ UNCHANGED storage
      BY <1>1, <1>3, <2>1, ObjectContentsEffect DEF Relations
    <3> QED BY <1>1, <3>1, ProvidesTruth
  <2>2. CASE ~Requested(Head(requests).index)
    BY <1>3, <2>2, SameStatesTruth DEF ReceiveObjectContents, Fail
  <2> QED BY <2>1, <2>2
<1>4. CASE \/ ReceiveCloseSend \/ AllSent \/ Return \/ SendFinalizeTag
           \/ \E s \in DOMAIN state : Relock(s)
  BY <1>4, SameStatesTruth DEF ReceiveCloseSend, Fail, AllSent, Return, SendFinalizeTag, Send,
                               Relock
<1>5. CASE SendFinalizeObject
  <2>1. PICK s : s = Head(finalizedQueue)
    OBVIOUS
  <2>2. Concludes(s, TRUE, state[s].finalizing)
    BY <1>1, <1>5, <2>1, SendFinalizeEffect
  <2>3. s \in DOMAIN state' \/ state[s].unfinalizedParents = <<>>
    BY <2>2 DEF Concludes
  <2>4. UNCHANGED storage
    BY <1>5 DEF SendFinalizeObject, Send
  <2> QED BY <1>1, <2>2, <2>3, <2>4, ConcludesTruth
<1>6. CASE ReleaseObject
  <2>1. PICK s : s = Top
    OBVIOUS
  <2>2. Concludes(s, state[s].sent, FALSE)
    BY <1>1, <1>6, <2>1, ReleaseEffect
  <2>3. state[s].unfinalizedParents = <<>>
    BY <2>2 DEF Concludes
  <2>4. UNCHANGED storage
    BY <1>6 DEF ReleaseObject
  <2> QED BY <1>1, <2>2, <2>3, <2>4, ConcludesTruth
<1>7. CASE ParentWaits \/ ParentFails \/ ParentIsComplete
  <2>1. PICK t, p : t = Top /\ p = Parent
    OBVIOUS
  <2>2. Updates(t, p) /\ (Waits(p) \/ Fails(p) \/ IsComplete(p))
    BY <1>1, <1>7, <2>1, ParentWaitsEffect, ParentFailsEffect, ParentIsCompleteEffect
  <2>3. UNCHANGED storage
    BY <1>7 DEF ParentWaits, ParentFails, ParentIsComplete, UpdateParent
  <2> QED BY <1>1, <2>2, <2>3, UpdatesTruth
<1>8. CASE SendRequestObjectContents
  <2>1. PICK s : s = Head(requestedQueue)
    OBVIOUS
  <2>2. Advances(s) /\ state'[s].stage = "requested"
    BY <1>8, <2>1, SendRequestAdvances
  <2>3. UNCHANGED storage
    BY <1>8 DEF SendRequestObjectContents, Send
  <2> QED BY <2>2, <2>3, AdvanceTruth DEF Writing
<1>9. ASSUME NEW s \in DOMAIN state,
             GetPendingObject(s) \/ StartCheck(s) \/ QueueRequestObjectContents(s)
      PROVE  ObjectsTruth' /\ UNCHANGED storage
  <2>1. Advances(s) /\ state'[s].stage \in {"popped", "check", "requestQueued"}
    BY <1>1, <1>9, GetPendingObjectAdvances, StartCheckAdvances, QueueRequestAdvances
  <2>2. UNCHANGED storage
    BY <1>9 DEF GetPendingObject, StartCheck, QueueRequestObjectContents
  <2> QED BY <2>1, <2>2, AdvanceTruth DEF Writing
<1>10. ASSUME NEW s \in DOMAIN state, CheckObject(s)
       PROVE  ObjectsTruth' /\ UNCHANGED storage
  <2>1. /\ Advances(s) /\ state'[s].stage = "checked"
        /\ state'[s].result = "complete" => GraphExists(state[s].reference)
    BY <1>1, <1>10, CheckObjectAdvances
  <2>2. UNCHANGED storage
    BY <1>10 DEF CheckObject
  <2> QED BY <2>1, <2>2, AdvanceTruth DEF Writing
<1>11. ASSUME NEW s \in DOMAIN state, StartPut(s)
       PROVE  ObjectsTruth' /\ UNCHANGED storage
  <2>1. Advances(s) /\ state'[s].stage = "put"
    BY <1>1, <1>11, StartPutAdvances
  <2>2. state[s].stage = "putQueued" /\ UNCHANGED storage
    BY <1>11 DEF StartPut
  <2> QED BY <2>1, <2>2, AdvanceTruth DEF Writing
<1>12. ASSUME NEW s \in DOMAIN state, PutObject(s)
       PROVE  ObjectsTruth' /\ exists \subseteq exists' /\ UNCHANGED tagged
  <2>1. /\ Advances(s) /\ state'[s].stage = "written"
        /\ exists' = exists \cup {state[s].reference}
    BY <1>1, <1>12, PutObjectAdvances
  <2>2. state[s].stage = "put" /\ UNCHANGED tagged
    BY <1>12 DEF PutObject
  <2> QED BY <2>1, <2>2, AdvanceTruth DEF Writing
<1>13. ASSUME NEW s \in DOMAIN state, StorageFails(s)
       PROVE  ObjectsTruth' /\ UNCHANGED <<exists, tagged>>
  <2>1. /\ Advances(s) /\ state'[s].result = "error"
        /\ state'[s].stage = IF state[s].stage = "check" THEN "checked" ELSE "written"
    BY <1>1, <1>13, StorageFailsAdvances
  <2>2. state[s].stage \in {"check", "put"} /\ UNCHANGED <<exists, tagged>>
    BY <1>13 DEF StorageFails
  <2>3. state'[s].stage \in Writing => state[s].stage \in Writing
    BY <2>1, <2>2 DEF Writing
  <2>4. exists \subseteq exists'
    BY <2>2
  <2> QED BY <2>1, <2>2, <2>3, <2>4, AdvanceTruth
<1>14. ASSUME NEW s \in DOMAIN state, FinishCheck(s) \/ FinishPut(s)
       PROVE  ObjectsTruth' /\ UNCHANGED storage
  <2>1. ASSUME NEW success \in BOOLEAN, NEW lease \in BOOLEAN, NEW checked \in BOOLEAN,
               Finalize(s, success, lease, checked),
               success => \/ state[s].stage = "checked" /\ state[s].result = "complete"
                          \/ state[s].stage = "written" /\ state[s].result # "error"
        PROVE  ObjectsTruth' /\ UNCHANGED storage
    <3>1. Finalizes(s, success, checked) /\ UNCHANGED storage
      BY <1>1, <2>1, FinalizeEffect DEF Relations, Finalize
    <3> QED BY <1>1, <2>1, <3>1, FinalizeTruth
  <2>2. PICK success \in BOOLEAN, lease \in BOOLEAN :
          success = (state[s].result # "error") /\ lease = (state[s].result = "complete")
    OBVIOUS
  <2>3. CASE FinishCheck(s)
    <3>1. Finalize(s, lease, lease, TRUE) /\ state[s].stage = "checked"
      BY <2>2, <2>3 DEF FinishCheck
    <3> QED BY <2>1, <2>2, <3>1
  <2>4. CASE FinishPut(s)
    <3>1. Finalize(s, success, lease, FALSE) /\ state[s].stage = "written"
      BY <2>2, <2>4 DEF FinishPut
    <3> QED BY <2>1, <2>2, <3>1
  <2> QED BY <1>14, <2>3, <2>4
<1>15. CASE \E w \in tagWrites : UpdateTag(w[1], w[2])
  <2>1. UNCHANGED <<state, exists>> /\ tagged \subseteq tagged'
    BY <1>15 DEF UpdateTag
  <2> QED BY <2>1, SameStatesTruth
<1>16. CASE \E s \in DOMAIN state : ObjectStep(s) \/ StorageFails(s)
  BY <1>4, <1>9, <1>10, <1>11, <1>12, <1>13, <1>14, <1>16 DEF ObjectStep
<1> QED BY <1>2, <1>3, <1>4, <1>5, <1>6, <1>7, <1>8, <1>15, <1>16
        DEF ServerStep, ServerReceive, ServerSend, LockedStep

LEMMA ReportStaysTrue ==
    ASSUME exists \subseteq exists', tagged \subseteq tagged', UNCHANGED root,
           NEW m, ReportIsTrue(m)
    PROVE  ReportIsTrue(m)'
  BY DEF ReportIsTrue, GraphExists

(* Messages that say nothing about the DAG as a whole. *)
LEMMA NoReport ==
    ASSUME NEW m, m.type \notin {"FinalizeObject", "FinalizeTag"}
    PROVE  ReportIsTrue(m)
  BY DEF ReportIsTrue

ResponsesTrue == \A i \in DOMAIN responses : ReportIsTrue(responses[i])

LEMMA ResponsesStayTrue ==
    ASSUME ResponsesOK, ResponsesTrue, exists \subseteq exists', tagged \subseteq tagged',
           UNCHANGED root,
           \/ UNCHANGED responses
           \/ \E m \in Reports : responses' = Append(responses, m) /\ ReportIsTrue(m)'
    PROVE  ResponsesTrue'
<1>1. ASSUME NEW i \in DOMAIN responses, NEW m, m = responses[i]
      PROVE  ReportIsTrue(m)'
  BY <1>1, ReportStaysTrue DEF ResponsesTrue
<1>2. CASE UNCHANGED responses
  BY <1>1, <1>2 DEF ResponsesTrue
<1>3. ASSUME NEW m \in Reports, responses' = Append(responses, m), ReportIsTrue(m)'
      PROVE  ResponsesTrue'
  <2>1. responses \in Seq(Reports)
    BY DEF ResponsesOK
  <2>2. /\ DOMAIN responses' = 1 .. Len(responses) + 1 /\ Len(responses) \in Nat
        /\ DOMAIN responses = 1 .. Len(responses)
        /\ responses'[Len(responses) + 1] = m
        /\ \A i \in DOMAIN responses : responses'[i] = responses[i]
    BY <1>3, <2>1
  <2> SUFFICES ASSUME NEW i \in DOMAIN responses', NEW r, r = responses'[i]
               PROVE  ReportIsTrue(r)'
    BY DEF ResponsesTrue
  <2>3. CASE i = Len(responses) + 1
    BY <1>3, <2>2, <2>3
  <2>4. CASE i # Len(responses) + 1
    <3>1. i \in DOMAIN responses /\ r = responses[i]
      BY <2>2, <2>4
    <3>2. ReportIsTrue(r)
      BY <3>1 DEF ResponsesTrue
    <3> QED BY <3>2, ReportStaysTrue
  <2> QED BY <2>3, <2>4
<1> QED BY <1>2, <1>3

LEMMA ServerReports ==
    ASSUME Structure, ResponsesOK, Counted, ServerTruth, ServerStep, UNCHANGED clientVars
    PROVE  ServerTruth' /\ exists \subseteq exists' /\ tagged \subseteq tagged'
<1>1. /\ ServerTypeOK /\ ClientTypeOK /\ Relations /\ QueuesOK /\ RequestsOK /\ TypeOK
      /\ OtherTypes /\ QueueTypes /\ UNCHANGED <<root, rootTag>>
  BY StructureParts, TypeParts DEF TypeOK, clientVars, upload
<1>2. ObjectsTruth' /\ exists \subseteq exists' /\ tagged \subseteq tagged'
  BY ServerObjectsTruth DEF ServerTruth
<1>3. ObjectsTruth /\ ResponsesTrue
  BY DEF ServerTruth, ResponsesTrue
(* What is reported about the root is so. *)
<1>4. ASSUME NEW s \in DOMAIN state, s = 0, state[s].stage = "finalized", state[s].success
      PROVE  GraphExists(root)
  BY <1>3, <1>4 DEF ObjectsTruth, TruthOf, Counted, TagsOK
<1>5. ResponsesTrue'
  <2>1. CASE \/ UNCHANGED responses
             \/ \E m \in Reports : responses' = Append(responses, m) /\ ReportIsTrue(m)'
    BY <1>1, <1>2, <1>3, <2>1, ResponsesStayTrue
  <2>2. CASE SendFinalizeObject
    <3>1. PICK s : s = Head(finalizedQueue)
      OBVIOUS
    <3>2. s \in DOMAIN state /\ state[s].stage = "finalized"
      BY <1>1, <2>2, <3>1, SendFinalizeEffect DEF Concludes
    <3>3. PICK additional \in Nat, success \in BOOLEAN :
            additional = state[s].additional /\ success = state[s].success
      BY <1>1, <3>2, Fields
    <3>4. PICK m : m = FinalizeObject(s, additional, success)
      OBVIOUS
    <3>5. /\ m \in Reports /\ m.type = "FinalizeObject" /\ m.index = s /\ m.success = success
      BY <1>1, <3>2, <3>3, <3>4, Fields DEF FinalizeObject, Reports
    <3>6. responses' = Append(responses, m)
      BY <2>2, <3>1, <3>3, <3>4 DEF SendFinalizeObject, Send
    <3>7. ReportIsTrue(m)
      BY <1>4, <3>2, <3>3, <3>5 DEF ReportIsTrue
    <3> QED BY <1>1, <1>2, <2>1, <3>5, <3>6, <3>7, ReportStaysTrue
  <2>3. CASE SendFinalizeTag
    <3>1. finalizedTags \in Seq(FinalizeTags) /\ finalizedTags # <<>>
      BY <1>1, <2>3 DEF OtherTypes, SendFinalizeTag
    <3>2. PICK m : m = Head(finalizedTags)
      OBVIOUS
    <3>3. m \in Reports /\ 1 \in DOMAIN finalizedTags /\ m = finalizedTags[1]
      BY <3>1, <3>2, HeadTailProperties DEF Reports
    <3>4. ReportIsTrue(m) /\ responses' = Append(responses, m)
      BY <2>3, <3>2, <3>3 DEF ServerTruth, SendFinalizeTag, Send
    <3> QED BY <1>1, <1>2, <2>1, <3>3, <3>4, ReportStaysTrue
  <2>4. ASSUME NEW m, m \in {Hangup, HangupError} \cup [type : {"RequestObjectContents"}, index : Nat],
               responses' = Append(responses, m)
        PROVE  ResponsesTrue'
    <3>1. m \in Reports /\ m.type \notin {"FinalizeObject", "FinalizeTag"}
      BY <2>4 DEF Hangup, HangupError, Reports
    <3>2. ReportIsTrue(m)
      BY <3>1, NoReport
    <3> QED BY <1>1, <1>2, <2>1, <2>4, <3>1, <3>2, ReportStaysTrue
  <2>5. CASE SendRequestObjectContents
    <3>1. Head(requestedQueue) \in Nat
      BY <1>1, <2>5, HeadTailProperties DEF QueueTypes, SendRequestObjectContents
    <3>2. responses' = Append(responses, RequestObjectContents(Head(requestedQueue)))
      BY <2>5 DEF SendRequestObjectContents, Send
    <3> QED BY <2>4, <3>1, <3>2 DEF RequestObjectContents
  <2>6. CASE ServerReceive \/ AllSent \/ Return
    <3>1. UNCHANGED responses \/ \E m \in {Hangup, HangupError} : responses' = Append(responses, m)
      BY <2>6 DEF ServerReceive, ReceiveInitiateDag, ReceiveObjectContents, ReceiveCloseSend,
                  Fail, AllSent, Return, channel
    <3> QED BY <2>1, <2>4, <3>1
  <2>7. CASE LockedStep
    <3>1. UNCHANGED responses
      BY <2>7 DEF LockedStep, ParentWaits, ParentFails, ParentIsComplete, ReleaseObject,
                  UpdateParent, channel
    <3> QED BY <2>1, <3>1
  <2>8. CASE \E s \in DOMAIN state : ObjectStep(s) \/ StorageFails(s)
    <3>1. UNCHANGED responses
      BY <2>8 DEF ObjectStep, GetPendingObject, StartCheck, CheckObject,
                  QueueRequestObjectContents, FinishCheck, StartPut, PutObject, FinishPut,
                  Relock, StorageFails, channel
    <3> QED BY <2>1, <3>1
  <2>9. CASE \E w \in tagWrites : UpdateTag(w[1], w[2])
    <3>1. UNCHANGED responses
      BY <2>9 DEF UpdateTag, channel
    <3> QED BY <2>1, <3>1
  <2> QED BY <2>2, <2>3, <2>5, <2>6, <2>7, <2>8, <2>9 DEF ServerStep, ServerSend
(* The tag. *)
<1>6. /\ tagWrites' # {} => GraphExists(root)'
      /\ \A i \in DOMAIN finalizedTags' : ReportIsTrue(finalizedTags[i])'
  <2>1. CASE UNCHANGED <<tagWrites, finalizedTags>>
    <3>1. tagWrites' # {} => GraphExists(root)'
      BY <1>1, <1>2, <2>1 DEF ServerTruth, GraphExists
    <3>2. ASSUME NEW i \in DOMAIN finalizedTags, NEW m, m = finalizedTags[i]
          PROVE  ReportIsTrue(m)'
      <4>1. ReportIsTrue(m)
        BY <3>2 DEF ServerTruth
      <4> QED BY <1>1, <1>2, <4>1, ReportStaysTrue
    <3> QED BY <2>1, <3>1, <3>2
  <2>2. CASE ReleaseObject
    <3>1. CASE ~(TagIsHeld /\ Top = 0)
      BY <2>1, <2>2, <3>1, ReleaseTags
    <3>2. CASE TagIsHeld /\ Top = 0
      <4>1. /\ Top \in DOMAIN state /\ state[Top].stage = "finalized"
            /\ \/ /\ state[0].success
                  /\ tagWrites' = {<<0, root>>} /\ finalizedTags' = <<>>
               \/ tagWrites' = {} /\ finalizedTags' = <<FinalizeTag(0, FALSE)>>
        BY <1>1, <2>2, <3>2, ReleaseTags, ReleaseEffect DEF Concludes
      <4>2. CASE state[0].success /\ finalizedTags' = <<>>
        <5>1. GraphExists(root)
          BY <1>4, <3>2, <4>1, <4>2
        <5>2. DOMAIN finalizedTags' = {}
          BY <4>2
        <5> QED BY <1>1, <1>2, <5>1, <5>2 DEF GraphExists
      <4>3. CASE tagWrites' = {} /\ finalizedTags' = <<FinalizeTag(0, FALSE)>>
        <5>1. PICK m : m = FinalizeTag(0, FALSE)
          OBVIOUS
        <5>2. m.success = FALSE /\ DOMAIN finalizedTags' = {1} /\ finalizedTags'[1] = m
          BY <4>3, <5>1 DEF FinalizeTag
        <5>3. ReportIsTrue(m)'
          BY <5>2 DEF ReportIsTrue
        <5> QED BY <4>3, <5>2, <5>3
      <4> QED BY <4>1, <4>2, <4>3
    <3> QED BY <3>1, <3>2
  <2>3. ASSUME NEW w \in tagWrites, UpdateTag(w[1], w[2])
        PROVE  /\ tagWrites' # {} => GraphExists(root)'
               /\ \A i \in DOMAIN finalizedTags' : ReportIsTrue(finalizedTags[i])'
    <3>1. /\ tagWrites' = {}
          /\ \/ tagged' = tagged \cup {root} /\ finalizedTags' = <<FinalizeTag(0, TRUE)>>
             \/ finalizedTags' = <<FinalizeTag(0, FALSE)>>
      BY <2>3, UpdateTagCounted
    <3>2. PICK success \in BOOLEAN :
            finalizedTags' = <<FinalizeTag(0, success)>> /\ (success => root \in tagged')
      BY <3>1
    <3>3. PICK m : m = FinalizeTag(0, success)
      OBVIOUS
    <3>4. /\ m.success = success /\ DOMAIN finalizedTags' = {1} /\ finalizedTags'[1] = m
          /\ m.type = "FinalizeTag"
      BY <3>2, <3>3, TagsOfFinalizeTag DEF FinalizeTag
    <3>5. ReportIsTrue(m)'
      BY <1>1, <3>2, <3>4 DEF ReportIsTrue
    <3> QED BY <3>1, <3>4, <3>5
  <2>4. CASE SendFinalizeTag
    <3>1. /\ finalizedTags \in Seq(FinalizeTags) /\ finalizedTags # <<>>
          /\ finalizedTags' = Tail(finalizedTags) /\ UNCHANGED tagWrites
          /\ Len(finalizedTags) <= 1
      BY <1>1, <2>4 DEF OtherTypes, SendFinalizeTag, Send, threads, Counted, TagsOK
    <3>2. DOMAIN finalizedTags' = {}
      BY <3>1
    <3> QED BY <1>1, <1>2, <3>1, <3>2 DEF ServerTruth, GraphExists
  <2>5. CASE ServerReceive
    <3>1. UNCHANGED <<tagWrites, finalizedTags>>
      <4>1. CASE ReceiveInitiateDag
        BY <1>1, <4>1, InitiateDagEffect DEF Fail, queues, threads
      <4>2. CASE ReceiveObjectContents \/ ReceiveCloseSend
        BY <4>2 DEF ReceiveObjectContents, ReceiveCloseSend, Fail, queues
      <4> QED BY <2>5, <4>1, <4>2 DEF ServerReceive
    <3> QED BY <2>1, <3>1
  <2>6. CASE SendFinalizeObject \/ SendRequestObjectContents \/ AllSent \/ Return
    <3>1. UNCHANGED <<tagWrites, finalizedTags>>
      BY <2>6 DEF SendFinalizeObject, SendRequestObjectContents, AllSent, Return, Send, queues,
                  threads
    <3> QED BY <2>1, <3>1
  <2>7. CASE ParentWaits \/ ParentFails \/ ParentIsComplete
    <3>1. UNCHANGED <<tagWrites, finalizedTags>>
      BY <2>7 DEF ParentWaits, ParentFails, ParentIsComplete, UpdateParent, queues, threads
    <3> QED BY <2>1, <3>1
  <2>8. CASE \E s \in DOMAIN state : ObjectStep(s) \/ StorageFails(s)
    <3>1. UNCHANGED <<tagWrites, finalizedTags>>
      BY <2>8 DEF ObjectStep, GetPendingObject, StartCheck, CheckObject,
                  QueueRequestObjectContents, FinishCheck, StartPut, PutObject, FinishPut,
                  Finalize, Relock, StorageFails, queues, threads
    <3> QED BY <2>1, <3>1
  <2> QED BY <2>2, <2>3, <2>4, <2>5, <2>6, <2>7, <2>8 DEF ServerStep, ServerSend, LockedStep
<1> QED BY <1>2, <1>5, <1>6 DEF ServerTruth, ResponsesTrue
-----------------------------------------------------------------------------
(* What the client concludes from what it is told. *)
LEMMA ClientStaysTrue ==
    ASSUME ClientTruth, exists \subseteq exists', tagged \subseteq tagged', UNCHANGED clientVars
    PROVE  ClientTruth'
<1>1. UNCHANGED <<root, rootTag, unfinalized, requested, providers, clientStatus>>
  BY DEF clientVars, upload
<1>2. GraphExists(root) => GraphExists(root)'
  BY <1>1 DEF GraphExists
<1> QED BY <1>1, <1>2 DEF ClientTruth, BelowRoot

(* The parts of ClientTruth. *)
AllBelowRoot ==
    /\ \A o \in DOMAIN unfinalized : BelowRoot(o)
    /\ \A r \in requested : BelowRoot(r[2])
    /\ \A i \in DOMAIN providers : BelowRoot(providers[i].reference)

RootHasNoOtherIndex ==
    root \in DOMAIN unfinalized =>
        unfinalized[root].lowest = 0 /\ unfinalized[root].additional = <<>>

StatusIsTrue ==
    /\ clientStatus = "objects" => root \in DOMAIN unfinalized \/ GraphExists(root)
    /\ clientStatus \in {"tag", "eof"} => GraphExists(root)
    /\ clientStatus = "eof" /\ rootTag => root \in tagged

LEMMA ClientTruthParts ==
    ClientTruth <=> AllBelowRoot /\ RootHasNoOtherIndex /\ StatusIsTrue
  BY DEF ClientTruth, AllBelowRoot, RootHasNoOtherIndex, StatusIsTrue

LEMMA ClientTruthPartsNext ==
    ClientTruth' <=> AllBelowRoot' /\ RootHasNoOtherIndex' /\ StatusIsTrue'
  BY DEF ClientTruth, AllBelowRoot, RootHasNoOtherIndex, StatusIsTrue

LEMMA EndTruth ==
    ASSUME NEW reason \in Ended, End(reason)
    PROVE  ClientTruth'
<1>1. /\ DOMAIN unfinalized' = {} /\ requested' = {} /\ DOMAIN providers' = {}
      /\ clientStatus' \in Ended
  BY NoEntries DEF End
<1> QED BY <1>1 DEF ClientTruth, Ended

(* What is below an object is below the root, and is not the root. *)
LEMMA ChildBelowRoot ==
    ASSUME root \in Objects, NEW o \in Objects, BelowRoot(o), NEW c \in Children[o]
    PROVE  BelowRoot(c) /\ c # root /\ c \in Objects
<1>1. /\ c \in Objects /\ Height[c] < Height[o]
      /\ Height[c] \in Nat /\ Height[o] \in Nat /\ Height[root] \in Nat
  BY ReferencesAssumption
<1>2. Height[c] < Height[root]
  BY <1>1 DEF BelowRoot
<1> QED BY <1>1, <1>2 DEF BelowRoot

LEMMA ReceiveRequestTruth ==
    ASSUME ClientTypeOK, ClientTruth, ClientReceiveRequest, UNCHANGED <<exists, tagged>>
    PROVE  ClientTruth'
<1> DEFINE i == Head(responses).index
           known == WithLowestIndex(i)
           o == CHOOSE x \in known : TRUE
<1>1. CASE known = {} \/ ~unfinalized[o].walker
  <2>1. End("protocolError") /\ "protocolError" \in Ended
    BY <1>1 DEF ClientReceiveRequest, Ended
  <2> QED BY <2>1, EndTruth
<1>2. CASE ~(known = {} \/ ~unfinalized[o].walker)
  <2>1. /\ unfinalized' = [unfinalized EXCEPT ![o].walker = FALSE]
        /\ requested' = {<<i, o>>}
        /\ UNCHANGED <<root, rootTag, providers, clientStatus>>
    BY <1>2 DEF ClientReceiveRequest, upload
  <2>2. o \in DOMAIN unfinalized
    BY <1>2 DEF WithLowestIndex
  <2> HIDE DEF o, known, i
  <2>3. DOMAIN unfinalized' = DOMAIN unfinalized
    BY <2>1
  <2>4. root \in DOMAIN unfinalized =>
          /\ unfinalized'[root].lowest = unfinalized[root].lowest
          /\ unfinalized'[root].additional = unfinalized[root].additional
    BY <2>1, <2>2, EntryFields DEF Entries
  <2>5. RootHasNoOtherIndex'
    BY <2>1, <2>3, <2>4, ClientTruthParts DEF RootHasNoOtherIndex
  <2>6. AllBelowRoot'
    <3>1. BelowRoot(o)
      BY <2>2, ClientTruthParts DEF AllBelowRoot
    <3>2. \A x : BelowRoot(x) => BelowRoot(x)'
      BY <2>1 DEF BelowRoot
    <3>3. \A r \in requested' : r[2] = o
      BY <2>1
    <3>4. PICK x : x = o
      OBVIOUS
    <3>5. \A r \in requested' : r[2] = x /\ BelowRoot(x)'
      BY <3>1, <3>2, <3>3, <3>4
    <3>6. \A r \in requested' : BelowRoot(r[2])'
      BY <3>5
    <3> QED BY <2>1, <2>3, <3>2, <3>6, ClientTruthParts DEF AllBelowRoot
  <2>7. StatusIsTrue'
    BY <2>1, <2>3, ClientTruthParts DEF StatusIsTrue, GraphExists
  <2> QED BY <2>5, <2>6, <2>7, ClientTruthPartsNext
<1> QED BY <1>1, <1>2

LEMMA AcquireSemaphoreTruth ==
    ASSUME ClientTypeOK, ClientTruth, AcquireSemaphore, UNCHANGED <<exists, tagged>>
    PROVE  ClientTruth'
<1>1. PICK r \in requested :
          providers' = With(providers, r[1],
                            [reference |-> r[2], stage |-> "get", discards |-> 0])
  BY DEF AcquireSemaphore
<1>2. /\ requested' = {} /\ UNCHANGED <<root, rootTag, unfinalized, clientStatus>>
  BY DEF AcquireSemaphore, upload
<1>3. \A i \in DOMAIN providers' :
        \/ providers'[i].reference = r[2]
        \/ i \in DOMAIN providers /\ providers'[i] = providers[i]
  BY <1>1 DEF With
<1>4. \A x : BelowRoot(x) => BelowRoot(x)'
  BY <1>2 DEF BelowRoot
<1>5. AllBelowRoot'
  <2>1. ASSUME NEW i \in DOMAIN providers', NEW x, x = providers'[i].reference
        PROVE  BelowRoot(x)'
    BY <1>3, <1>4, <2>1, ClientTruthParts DEF AllBelowRoot
  <2> QED BY <1>2, <1>4, <2>1, ClientTruthParts DEF AllBelowRoot
<1>6. RootHasNoOtherIndex' /\ StatusIsTrue'
  BY <1>2, ClientTruthParts DEF RootHasNoOtherIndex, StatusIsTrue, GraphExists
<1> QED BY <1>5, <1>6, ClientTruthPartsNext

LEMMA GetContentsTruth ==
    ASSUME ClientTypeOK, ClientTruth, NEW i \in DOMAIN providers, GetContents(i),
           UNCHANGED <<exists, tagged>>
    PROVE  ClientTruth'
<1> DEFINE o == providers[i].reference
           index == ChildIndices(o, nextIndex)
           known == Children[o] \cap DOMAIN unfinalized
           merged == [c \in Children[o] |->
                         IF c \in known
                         THEN [unfinalized[c] EXCEPT !.additional = Append(@, index[c]),
                                                     !.walker = TRUE]
                         ELSE NewObject(index[c])]
           discards == Cardinality(WalkersToDiscard(Children[o]))
<1>1. /\ unfinalized' = WithAll(unfinalized, merged)
      /\ providers' = [providers EXCEPT ![i].stage = "send", ![i].discards = discards]
      /\ UNCHANGED <<root, rootTag, requested, clientStatus>>
  BY DEF GetContents, upload
<1>2. o \in Objects /\ root \in Objects /\ providers[i] \in Providers
  BY EntryFields DEF ClientTypeOK
<1>3. \A c \in Children[o] : BelowRoot(c) /\ c # root
  BY <1>2, ChildBelowRoot, ClientTruthParts DEF AllBelowRoot
<1>4. /\ DOMAIN unfinalized' = DOMAIN unfinalized \cup Children[o]
      /\ \A c \in DOMAIN unfinalized : c \notin Children[o] => unfinalized'[c] = unfinalized[c]
  <2>1. DOMAIN merged = Children[o]
    OBVIOUS
  <2> HIDE DEF merged, o
  <2> QED BY <1>1, <2>1 DEF WithAll
<1>5. /\ DOMAIN providers' = DOMAIN providers
      /\ \A j \in DOMAIN providers : providers'[j].reference = providers[j].reference
  <2> HIDE DEF discards
  <2> QED BY <1>1, <1>2 DEF Providers
<1> HIDE DEF merged, discards, known, index, o
<1>6. \A x : BelowRoot(x) => BelowRoot(x)'
  BY <1>1 DEF BelowRoot
<1>7. AllBelowRoot'
  <2>1. \A c \in DOMAIN unfinalized' : BelowRoot(c)'
    BY <1>3, <1>4, <1>6, ClientTruthParts DEF AllBelowRoot
  <2>2. ASSUME NEW j \in DOMAIN providers', NEW x, x = providers'[j].reference
        PROVE  BelowRoot(x)'
    BY <1>5, <1>6, <2>2, ClientTruthParts DEF AllBelowRoot
  <2> QED BY <1>1, <1>6, <2>1, <2>2, ClientTruthParts DEF AllBelowRoot
<1>8. RootHasNoOtherIndex'
  BY <1>1, <1>3, <1>4, ClientTruthParts DEF RootHasNoOtherIndex
<1>9. StatusIsTrue'
  BY <1>1, <1>4, ClientTruthParts DEF StatusIsTrue, GraphExists
<1> QED BY <1>7, <1>8, <1>9, ClientTruthPartsNext

LEMMA SendContentsTruth ==
    ASSUME ClientTypeOK, ClientTruth, NEW i \in DOMAIN providers, SendContents(i),
           UNCHANGED <<exists, tagged>>
    PROVE  ClientTruth'
<1>1. /\ providers' = Restrict(providers, DOMAIN providers \ {i})
      /\ UNCHANGED <<root, rootTag, unfinalized, requested, clientStatus>>
  BY DEF SendContents, upload
<1>2. \A j \in DOMAIN providers' : j \in DOMAIN providers /\ providers'[j] = providers[j]
  BY <1>1 DEF Restrict
<1>3. \A x : BelowRoot(x) => BelowRoot(x)'
  BY <1>1 DEF BelowRoot
<1>4. AllBelowRoot'
  BY <1>1, <1>2, <1>3, ClientTruthParts DEF AllBelowRoot
<1>5. RootHasNoOtherIndex' /\ StatusIsTrue'
  BY <1>1, ClientTruthParts DEF RootHasNoOtherIndex, StatusIsTrue, GraphExists
<1> QED BY <1>4, <1>5, ClientTruthPartsNext

LEMMA ReceiveFinalizeObjectTruth ==
    ASSUME ClientTypeOK, ResponsesOK, ResponsesTrue, ClientTruth, ClientReceiveFinalizeObject,
           UNCHANGED <<exists, tagged>>
    PROVE  ClientTruth'
<1> DEFINE i == Head(responses).index
           n == Head(responses).additional
           known == WithLowestIndex(i)
           o == CHOOSE x \in known : TRUE
           indices == unfinalized[o].additional
<1>1. /\ Head(responses) \in Reports /\ 1 \in DOMAIN responses
      /\ Head(responses) = responses[1] /\ Head(responses).type = "FinalizeObject"
  <2>1. responses \in Seq(Reports) /\ responses # <<>>
    BY DEF ClientReceiveFinalizeObject, Consume, ResponsesOK
  <2> QED BY <2>1 DEF ClientReceiveFinalizeObject, Consume
<1>2. n \in Nat
  BY <1>1 DEF Reports, FinalizeTags
<1>3. CASE \E reason \in Ended : End(reason)
  BY <1>3, EndTruth
<1>4. CASE ~\E reason \in Ended : End(reason)
  <2>1. ~End("error") /\ ~End("protocolError")
    BY <1>4 DEF Ended
  <2>2. /\ known # {} /\ ~(n > Len(indices)) /\ Head(responses).success
        /\ IF n < Len(indices)
           THEN unfinalized' = [unfinalized EXCEPT
                      ![o].lowest = indices[n + 1],
                      ![o].additional = SubSeq(indices, n + 2, Len(indices))]
           ELSE unfinalized' = Restrict(unfinalized, DOMAIN unfinalized \ {o})
        /\ UNCHANGED <<root, rootTag, requested, providers, clientStatus>>
    BY <2>1 DEF ClientReceiveFinalizeObject, upload
  <2>3. o \in DOMAIN unfinalized /\ unfinalized[o].lowest = i
    BY <2>2 DEF WithLowestIndex
  <2>4. o = root => GraphExists(root) /\ indices = <<>>
    <3>1. o = root => i = 0 /\ indices = <<>>
      BY <2>3, ClientTruthParts DEF RootHasNoOtherIndex
    <3>2. ReportIsTrue(Head(responses))
      BY <1>1 DEF ResponsesTrue
    <3> QED BY <1>1, <2>2, <3>1, <3>2 DEF ReportIsTrue
  <2>5. /\ DOMAIN unfinalized' \subseteq DOMAIN unfinalized
        /\ \A x \in DOMAIN unfinalized : x # o =>
              x \in DOMAIN unfinalized' /\ unfinalized'[x] = unfinalized[x]
        /\ o \in DOMAIN unfinalized' => n < Len(indices)
    <3> HIDE DEF n, o, known, i, indices
    <3>1. CASE n < Len(indices)
      BY <2>2, <3>1
    <3>2. CASE ~(n < Len(indices))
      BY <2>2, <3>2 DEF Restrict
    <3> QED BY <3>1, <3>2
  <2> HIDE DEF n, o, known, i, indices
  <2>6. o = root => root \notin DOMAIN unfinalized'
    <3>1. indices = <<>> => ~(n < Len(indices))
      BY <1>2
    <3> QED BY <2>4, <2>5, <3>1
  <2>7. \A x : BelowRoot(x) => BelowRoot(x)'
    BY <2>2 DEF BelowRoot
  <2>8. AllBelowRoot'
    BY <2>2, <2>5, <2>7, ClientTruthParts DEF AllBelowRoot
  <2>9. RootHasNoOtherIndex'
    BY <2>2, <2>5, <2>6, ClientTruthParts DEF RootHasNoOtherIndex
  <2>10. StatusIsTrue'
    BY <2>2, <2>4, <2>5, ClientTruthParts DEF StatusIsTrue, GraphExists
  <2> QED BY <2>8, <2>9, <2>10, ClientTruthPartsNext
<1> QED BY <1>3, <1>4

LEMMA OtherClientTruth ==
    ASSUME ClientTypeOK, ResponsesOK, ResponsesTrue, ClientTruth, UNCHANGED <<exists, tagged>>,
           \/ AllObjectsFinalized \/ ClientReceiveFinalizeTag \/ ClientReceiveHangup
           \/ ClientReceiveOther \/ \E i \in DOMAIN providers : GetContentsFails(i)
    PROVE  ClientTruth'
<1>1. ASSUME UNCHANGED <<root, rootTag, unfinalized, requested, providers>>, StatusIsTrue'
      PROVE  ClientTruth'
  <2>1. \A x : BelowRoot(x) => BelowRoot(x)'
    BY <1>1 DEF BelowRoot
  <2>2. AllBelowRoot' /\ RootHasNoOtherIndex'
    BY <1>1, <2>1, ClientTruthParts DEF AllBelowRoot, RootHasNoOtherIndex
  <2> QED BY <1>1, <2>2, ClientTruthPartsNext
<1>2. CASE AllObjectsFinalized
  <2>1. /\ clientStatus = "objects" /\ DOMAIN unfinalized = {}
        /\ clientStatus' = IF rootTag THEN "tag" ELSE "eof"
        /\ UNCHANGED <<root, rootTag, unfinalized, requested, providers>>
    BY <1>2 DEF AllObjectsFinalized, upload
  <2>2. GraphExists(root)
    BY <2>1, ClientTruthParts DEF StatusIsTrue
  <2>3. StatusIsTrue'
    BY <2>1, <2>2 DEF StatusIsTrue, GraphExists
  <2> QED BY <1>1, <2>1, <2>3
<1>3. CASE ClientReceiveFinalizeTag
  <2>1. CASE \E reason \in Ended : End(reason)
    BY <2>1, EndTruth
  <2>2. CASE ~\E reason \in Ended : End(reason)
    <3>1. ~End("error") /\ ~End("protocolError")
      BY <2>2 DEF Ended
    <3>2. /\ Head(responses).index = 0 /\ Head(responses).success
          /\ Head(responses).type = "FinalizeTag" /\ responses # <<>>
          /\ clientStatus = "tag" /\ clientStatus' = "eof"
          /\ UNCHANGED <<root, rootTag, unfinalized, requested, providers>>
      BY <1>3, <3>1 DEF ClientReceiveFinalizeTag, Consume, upload
    <3>3. 1 \in DOMAIN responses /\ Head(responses) = responses[1]
      BY <3>2 DEF ResponsesOK
    <3>4. root \in tagged
      BY <3>2, <3>3 DEF ResponsesTrue, ReportIsTrue
    <3>5. GraphExists(root)
      BY <3>2, ClientTruthParts DEF StatusIsTrue
    <3>6. StatusIsTrue'
      BY <3>2, <3>4, <3>5 DEF StatusIsTrue, GraphExists
    <3> QED BY <1>1, <3>2, <3>6
  <2> QED BY <2>1, <2>2
<1>4. CASE ClientReceiveHangup
  <2>1. /\ clientStatus' = "ok"
        /\ UNCHANGED <<root, rootTag, unfinalized, requested, providers>>
    BY <1>4 DEF ClientReceiveHangup, upload
  <2>2. StatusIsTrue'
    BY <2>1 DEF StatusIsTrue
  <2> QED BY <1>1, <2>1, <2>2
<1>5. CASE ClientReceiveOther \/ \E i \in DOMAIN providers : GetContentsFails(i)
  <2>1. PICK reason \in Ended : End(reason)
    BY <1>5 DEF ClientReceiveOther, GetContentsFails, Ended
  <2> QED BY <2>1, EndTruth
<1> QED BY <1>2, <1>3, <1>4, <1>5

LEMMA TruthInvariant == Spec => []Truth
<1>1. Init => Truth
  <2> SUFFICES ASSUME Init
               PROVE  Truth
    OBVIOUS
  <2>1. /\ DOMAIN state = {} /\ tagWrites = {} /\ finalizedTags = <<>> /\ responses = <<>>
        /\ unfinalized = [x \in {root} |-> NewObject(0)] /\ requested = {}
        /\ DOMAIN providers = {} /\ clientStatus = "objects"
    BY NoEntries DEF Init, ServerInit, ClientInit
  <2>2. ServerTruth
    BY <2>1 DEF ServerTruth, ObjectsTruth
  <2>3. ClientTruth
    BY <2>1 DEF ClientTruth, BelowRoot, NewObject
  <2> QED BY <2>2, <2>3 DEF Truth
<1>2. Structure /\ ResponsesOK /\ Counted /\ Truth /\ [Next]_vars => Truth'
  <2> SUFFICES ASSUME Structure, ResponsesOK, Counted, Truth, [Next]_vars
               PROVE  Truth'
    OBVIOUS
  <2>1. ServerTruth /\ ClientTruth /\ ResponsesTrue /\ ClientTypeOK /\ RequestsOK
    BY StructureParts DEF Truth, ServerTruth, ResponsesTrue
  <2>2. CASE Server(ServerStep)
    BY <2>1, <2>2, ServerReports, ClientStaysTrue DEF Server, Truth
  <2>3. ASSUME ClientStep \/ \E i \in DOMAIN providers : GetContentsFails(i),
               UNCHANGED serverVars
        PROVE  Truth'
    <3>1. UNCHANGED <<state, exists, tagged, tagWrites, finalizedTags>>
      BY <2>3 DEF serverVars, storage, queues, threads
    <3>2. /\ UNCHANGED root
          /\ \/ responses' = responses
             \/ responses # <<>> /\ responses' = Tail(responses)
      BY <2>1, <2>3, ClientChannel DEF upload
    <3>3. ClientTruth'
      BY <2>1, <2>3, <3>1, ReceiveRequestTruth, AcquireSemaphoreTruth, GetContentsTruth,
         SendContentsTruth, ReceiveFinalizeObjectTruth, OtherClientTruth DEF ClientStep
    <3>4. \A m : ReportIsTrue(m) => ReportIsTrue(m)'
      BY <3>1, <3>2, ReportStaysTrue
    <3>5. ResponsesTrue'
      <4>1. ASSUME NEW j \in DOMAIN responses'
            PROVE  \E k \in DOMAIN responses : responses'[j] = responses[k]
        <5>1. CASE responses' = responses
          BY <4>1, <5>1
        <5>2. CASE responses # <<>> /\ responses' = Tail(responses)
          <6>1. responses \in Seq(Reports)
            BY DEF ResponsesOK
          <6>2. /\ Len(responses) \in Nat /\ DOMAIN responses = 1 .. Len(responses)
                /\ DOMAIN responses' = 1 .. Len(responses) - 1
                /\ responses'[j] = responses[j + 1]
            BY <4>1, <5>2, <6>1
          <6>3. j + 1 \in DOMAIN responses
            BY <4>1, <6>2
          <6> QED BY <6>2, <6>3
        <5> QED BY <3>2, <5>1, <5>2
      <4>2. ASSUME NEW j \in DOMAIN responses', NEW m, m = responses'[j]
            PROVE  ReportIsTrue(m)'
        BY <2>1, <3>4, <4>1, <4>2 DEF ResponsesTrue
      <4> QED BY <4>2 DEF ResponsesTrue
    <3>6. ServerTruth'
      <4>1. ObjectsTruth'
        BY <2>1, <3>1, SameStatesTruth DEF ServerTruth
      <4>2. \A j \in DOMAIN finalizedTags' : ReportIsTrue(finalizedTags[j])'
        <5>1. ASSUME NEW j \in DOMAIN finalizedTags, NEW m, m = finalizedTags[j]
              PROVE  ReportIsTrue(m)'
          BY <2>1, <3>4, <5>1 DEF ServerTruth
        <5> QED BY <3>1, <5>1
      <4>3. tagWrites' # {} => GraphExists(root)'
        BY <2>1, <3>1, <3>2 DEF ServerTruth, GraphExists
      <4> QED BY <3>5, <4>1, <4>2, <4>3 DEF ServerTruth, ResponsesTrue
    <3> QED BY <3>3, <3>6 DEF Truth
  <2>4. CASE UNCHANGED vars
    <3>1. UNCHANGED <<state, exists, tagged, tagWrites, finalizedTags, responses>>
          /\ UNCHANGED clientVars /\ UNCHANGED root
      BY <2>4 DEF vars, serverVars, storage, queues, threads, channel, clientVars, upload
    <3>2. ClientTruth' /\ ObjectsTruth'
      BY <2>1, <3>1, ClientStaysTrue, SameStatesTruth DEF ServerTruth
    <3>3. ServerTruth'
      BY <2>1, <3>1, <3>2 DEF ServerTruth, ReportIsTrue, GraphExists
    <3> QED BY <3>2, <3>3 DEF Truth
  <2> QED BY <2>2, <2>3, <2>4 DEF Next, Done, Client
<1> QED BY <1>1, <1>2, StructureInvariant, CountedInvariant, PTL DEF Spec
-----------------------------------------------------------------------------
(* The protocol implements the promise, step by step. *)
PromiseResult ==
    IF clientStatus = "ok" THEN "ok"
    ELSE IF clientStatus \in {"error", "protocolError"} THEN "error" ELSE "running"

LEMMA PromiseStutters ==
    ASSUME UNCHANGED <<root, rootTag, exists, tagged>>, PromiseResult' = PromiseResult
    PROVE  UNCHANGED Promise!vars
  BY DEF Promise!vars, Promise!arguments, PromiseResult

LEMMA ServerKeepsPromise ==
    ASSUME Structure, Counted, Truth, Server(ServerStep)
    PROVE  Promise!Next \/ UNCHANGED Promise!vars
<1>1. /\ ServerTypeOK /\ Relations /\ ServerTruth /\ ObjectsTruth /\ ServerStep
      /\ UNCHANGED clientVars /\ clientStatus \notin Ended
      /\ UNCHANGED <<root, rootTag, clientStatus>> /\ PromiseResult' = PromiseResult
  BY StructureParts, TypeParts
     DEF Server, Running, Truth, ServerTruth, clientVars, upload, PromiseResult
<1>2. CASE UNCHANGED <<exists, tagged>>
  BY <1>1, <1>2, PromiseStutters
<1>3. ASSUME NEW s \in DOMAIN state, PutObject(s)
      PROVE  Promise!Next
  <2>1. PICK o \in Objects : o = state[s].reference
    BY <1>1, Fields
  <2>2. exists' = exists \cup {o} /\ UNCHANGED tagged /\ state[s].stage = "put"
    BY <1>3, <2>1 DEF PutObject
  <2>3. \A c \in Children[o] : GraphExists(c)
    BY <1>1, <2>1, <2>2, WritingHasChildren DEF Writing
  <2>4. Promise!Store(o)
    BY <1>1, <2>2, <2>3 DEF Promise!Store, Promise!arguments, GraphExists, Ended
  <2> QED BY <2>4 DEF Promise!Next
<1>4. ASSUME NEW w \in tagWrites, UpdateTag(w[1], w[2])
      PROVE  Promise!Next \/ UNCHANGED Promise!vars
  <2>1. (rootTag /\ tagged' = tagged \cup {root}) \/ UNCHANGED tagged
    BY <1>1, <1>4, UpdateTagCounted
  <2>2. UNCHANGED exists /\ GraphExists(root)
    BY <1>1, <1>4 DEF UpdateTag, ServerTruth
  <2>3. CASE rootTag /\ tagged' = tagged \cup {root}
    <3>1. Promise!WriteTag
      BY <1>1, <2>2, <2>3 DEF Promise!WriteTag, Promise!arguments, GraphExists, Ended
    <3> QED BY <3>1 DEF Promise!Next
  <2>4. CASE UNCHANGED tagged
    BY <1>2, <2>2, <2>4
  <2> QED BY <2>1, <2>3, <2>4
<1>5. CASE ServerReceive \/ ServerSend
  <2>1. UNCHANGED <<exists, tagged>>
    BY <1>5 DEF ServerReceive, ServerSend, ReceiveInitiateDag, ReceiveObjectContents,
                ReceiveCloseSend, SendFinalizeObject, SendFinalizeTag,
                SendRequestObjectContents, AllSent, Return, Send, storage
  <2> QED BY <1>2, <2>1
<1>6. CASE LockedStep
  <2>1. UNCHANGED <<exists, tagged>>
    BY <1>6 DEF LockedStep, ParentWaits, ParentFails, ParentIsComplete, ReleaseObject,
                UpdateParent, storage
  <2> QED BY <1>2, <2>1
<1>7. ASSUME NEW s \in DOMAIN state, ObjectStep(s) \/ StorageFails(s), ~PutObject(s)
      PROVE  UNCHANGED <<exists, tagged>>
  BY <1>7 DEF ObjectStep, GetPendingObject, StartCheck, CheckObject,
              QueueRequestObjectContents, FinishCheck, StartPut, FinishPut,
              Finalize, Relock, StorageFails, storage
<1> QED BY <1>1, <1>2, <1>3, <1>4, <1>5, <1>6, <1>7 DEF ServerStep

LEMMA ClientKeepsPromise ==
    ASSUME Structure, ResponsesOK, Truth,
           \/ Client(ClientStep)
           \/ \E i \in DOMAIN providers : Client(GetContentsFails(i))
    PROVE  Promise!Next \/ UNCHANGED Promise!vars
<1>1. /\ ClientTypeOK /\ RequestsOK /\ ClientTruth
      /\ ClientStep \/ \E i \in DOMAIN providers : GetContentsFails(i)
      /\ UNCHANGED <<exists, tagged>> /\ clientStatus \notin Ended
  BY StructureParts DEF Client, Running, Truth, serverVars, storage
<1>2. UNCHANGED <<root, rootTag>>
  BY <1>1, ClientChannel DEF upload
<1>3. CASE clientStatus' \notin Ended
  <2>1. PromiseResult' = PromiseResult
    BY <1>1, <1>3 DEF PromiseResult, Ended
  <2> QED BY <1>1, <1>2, <2>1, PromiseStutters
<1>4. CASE clientStatus' \in {"error", "protocolError"}
  <2>1. Promise!Fail
    BY <1>1, <1>2, <1>4 DEF Promise!Fail, Promise!arguments, Ended
  <2> QED BY <2>1 DEF Promise!Next
<1>5. CASE ClientReceiveHangup
  <2>1. clientStatus = "eof" /\ clientStatus' = "ok"
    BY <1>5 DEF ClientReceiveHangup
  <2>2. GraphExists(root) /\ (rootTag => root \in tagged)
    BY <1>1, <2>1 DEF ClientTruth
  <2>3. Promise!Succeed
    BY <1>1, <1>2, <2>1, <2>2 DEF Promise!Succeed, Promise!arguments, GraphExists, Ended
  <2> QED BY <2>3 DEF Promise!Next
<1>6. ASSUME NEW reason \in {"error", "protocolError"}, End(reason)
      PROVE  clientStatus' \in {"error", "protocolError"}
  BY <1>6 DEF End
<1>7. CASE ~ClientReceiveHangup
  <2>1. clientStatus' \in {"error", "protocolError"} \/ clientStatus' \notin Ended
    <3>1. CASE ClientReceiveRequest \/ ClientReceiveFinalizeObject \/ ClientReceiveFinalizeTag
      BY <1>1, <1>6, <3>1 DEF ClientReceiveRequest, ClientReceiveFinalizeObject,
                              ClientReceiveFinalizeTag, Ended
    <3>2. CASE ClientReceiveOther \/ \E i \in DOMAIN providers : GetContentsFails(i)
      BY <1>6, <3>2 DEF ClientReceiveOther, GetContentsFails
    <3>3. CASE \/ AllObjectsFinalized \/ AcquireSemaphore
               \/ \E i \in DOMAIN providers : GetContents(i) \/ SendContents(i)
      BY <1>1, <3>3 DEF AllObjectsFinalized, AcquireSemaphore, GetContents, SendContents, Ended
    <3> QED BY <1>1, <1>7, <3>1, <3>2, <3>3 DEF ClientStep
  <2> QED BY <1>3, <1>4, <2>1
<1> QED BY <1>5, <1>7

(* Whatever messages and goroutines cross each other, the protocol does    *)
(* what UploadDAG() and UploadTaggedDAG() promise: objects are written     *)
(* after all that is below them, the tag is written after the whole DAG,   *)
(* and the client is only told of success if all of that has happened      *)
(* (pkg/storage/dag/grpc/uploader.go and pkg/storage/dag/                  *)
(* uploader_server.go).  This is the safety part of ImplementsPromise.     *)
THEOREM UploadKeepsItsPromise == Spec => Promise!Init /\ [][Promise!Next]_(Promise!vars)
<1>1. Init => Promise!Init
  <2> SUFFICES ASSUME Init
               PROVE  Promise!Init
    OBVIOUS
  <2>1. /\ exists \in SUBSET Objects /\ tagged = {} /\ root \in Objects /\ rootTag \in BOOLEAN
        /\ clientStatus = "objects"
    BY ServerAssumption, ClientAssumption DEF Init, ServerInit, ClientInit
  <2> QED BY <2>1 DEF Promise!Init
<1>2. Structure /\ ResponsesOK /\ Counted /\ Truth /\ [Next]_vars
        => [Promise!Next]_(Promise!vars)
  <2> SUFFICES ASSUME Structure, ResponsesOK, Counted, Truth, [Next]_vars
               PROVE  Promise!Next \/ UNCHANGED Promise!vars
    OBVIOUS
  <2>1. CASE UNCHANGED vars
    <3>1. UNCHANGED <<root, rootTag, exists, tagged, clientStatus>>
      BY <2>1 DEF vars, serverVars, storage, clientVars, upload
    <3> QED BY <3>1, PromiseStutters DEF PromiseResult
  <2> QED BY <2>1, ServerKeepsPromise, ClientKeepsPromise DEF Next, Done
<1> QED BY <1>1, <1>2, StructureInvariant, CountedInvariant, TruthInvariant, PTL DEF Spec
=============================================================================
