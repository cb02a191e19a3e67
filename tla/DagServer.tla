----------------------------- MODULE DagServer -----------------------------
(***************************************************************************)
(* The server of UploadDags() (pkg/storage/dag/uploader_server.go): one    *)
(* call, in which goroutines receive messages, check which objects exist,  *)
(* write objects and tags, and send messages, all sharing one lock.        *)
(*                                                                         *)
(* An objectState is identified by the lowest reference index it has been  *)
(* created for.  Storage is the lease renewing uploader (LeaseRenewing)    *)
(* and a tag store; a lease is represented by whether there is one.        *)
(***************************************************************************)
EXTENDS DagProtocol, Functions

CONSTANTS
    InitiallyStored,                   \* sets of objects that may be there before
    MaximumUnfinalizedDAGsCount,
    ObjectStoreConcurrency,
    MaxErrors,                         \* bound on failing calls into storage
    MaxExpirations                     \* bound on leases that expired when used

ASSUME ServerAssumption ==
    /\ InitiallyStored \subseteq SUBSET Objects
    /\ MaximumUnfinalizedDAGsCount \in Nat \ {0}
    /\ ObjectStoreConcurrency \in Nat \ {0}
    /\ MaxErrors \in Nat /\ MaxExpirations \in Nat

VARIABLES
    state,                 \* objectStates
    objectsByReference,
    remaining,             \* remainingUnfinalizedParentsLimit
    unfinalizedDAGsCount,
    nextReferenceIndex,
    requestedQueue,        \* firstRequestedObject, ...
    finalizedQueue,        \* firstFinalizedObject, ...
    finalizedTags,         \* firstFinalizedTag, ...
    stack,                 \* nested calls to finalizeObjectLocked() with the lock held
    incomingWaits,         \* the object processIncomingMessages() is to write
    tagWrites,             \* calls of updateAndFinalizeTag()
    status,                \* of the call
    exists, tagged,        \* storage
    errors, expirations

dags == <<unfinalizedDAGsCount, nextReferenceIndex>>
queues == <<requestedQueue, finalizedQueue, finalizedTags>>
threads == <<incomingWaits, tagWrites, status>>
storage == <<exists, tagged, errors, expirations>>
serverVars == <<state, objectsByReference, remaining, dags, queues, stack, threads,
                storage>>

Checking == {"pending", "popped", "check", "checked"}     \* requestableObjectCount
Writing == {"putQueued", "put", "written"}
Stages == Checking \cup {"requestQueued", "requested", "waiting"} \cup Writing
            \cup {"finalized"}
(* "none" is an object that does not exist or has no valid leases. *)
Results == {"none", "complete", "incomplete", "error"}

ObjectStates ==
    [stage : Stages, reference : Objects, additional : Nat,
     result : Results,
     unfinalizedParents : Seq(Nat), tags : Seq(Nat), unfinalizedDAGsWithoutTagsCount : Nat,
     unfinalizedChildrenCount : Nat, hasChildFailures : BOOLEAN,
     leases : SUBSET Objects,          \* children for which there is a lease
     lease : BOOLEAN, success : BOOLEAN,
     sent : BOOLEAN,                   \* FinalizeObject has been sent
     finalizing : BOOLEAN,             \* in finalizeObjectLocked()
     waitsFor : SUBSET Nat,            \* the parent its goroutine is to write
     releasesChildren : BOOLEAN]       \* after finalizeObjectLocked()

NewState(reference, parents) ==
    [stage |-> "pending", reference |-> reference, additional |-> 0,
     result |-> "none",
     unfinalizedParents |-> parents, tags |-> <<>>, unfinalizedDAGsWithoutTagsCount |-> 0,
     unfinalizedChildrenCount |-> 0, hasChildFailures |-> FALSE,
     leases |-> {}, lease |-> FALSE, success |-> FALSE, sent |-> FALSE,
     finalizing |-> FALSE, waitsFor |-> {}, releasesChildren |-> FALSE]

Attached(reference) == reference \in DOMAIN objectsByReference
Detach(s) ==
    IF Attached(state[s].reference) /\ objectsByReference[state[s].reference] = s
    THEN Restrict(objectsByReference, DOMAIN objectsByReference \ {state[s].reference})
    ELSE objectsByReference

ServerTypeOK ==
    /\ nextReferenceIndex \in Nat
    /\ DOMAIN state \subseteq 0 .. nextReferenceIndex - 1
    /\ state \in [DOMAIN state -> ObjectStates]
    /\ DOMAIN objectsByReference \subseteq Objects
    /\ objectsByReference \in [DOMAIN objectsByReference -> DOMAIN state]
    /\ remaining \in [count : Nat, sizeBytes : Nat]
    /\ unfinalizedDAGsCount \in Int
    /\ requestedQueue \in Seq(Nat) /\ finalizedQueue \in Seq(Nat) /\ stack \in Seq(Nat)
    /\ finalizedTags \in Seq(FinalizeTags)
    /\ incomingWaits \in SUBSET Nat /\ tagWrites \in SUBSET (Nat \X Objects)
    /\ status \in {"receiving", "gracefulShutdown", "allSent", "returned", "failed"}
    /\ exists \in SUBSET Objects /\ tagged \in SUBSET Objects
    /\ errors \in Nat /\ expirations \in Nat

GraphExists(o) == Reachable[o] \subseteq exists

ServerInit ==
    /\ state = <<>> /\ objectsByReference = <<>>
    /\ remaining = Maximum
    /\ unfinalizedDAGsCount = 0 /\ nextReferenceIndex = 0
    /\ requestedQueue = <<>> /\ finalizedQueue = <<>> /\ finalizedTags = <<>>
    /\ stack = <<>> /\ incomingWaits = {} /\ tagWrites = {}
    /\ status = "receiving"
    /\ exists \in InitiallyStored /\ tagged = {}
    /\ errors = 0 /\ expirations = 0

LockIsFree == stack = <<>> /\ status # "failed"
Count(stages) == Cardinality({s \in DOMAIN state : state[s].stage \in stages})

-----------------------------------------------------------------------------
(* processIncomingMessages *)
Receive(type) ==
    /\ LockIsFree /\ status = "receiving" /\ incomingWaits = {}
    /\ requests # <<>> /\ Head(requests).type = type
    /\ requests' = Tail(requests)

(* The call returns an error, which cancels what its goroutines do. *)
Fail ==
    /\ status' = "failed"
    /\ responses' = Append(responses, HangupError)
    /\ UNCHANGED <<state, objectsByReference, remaining, dags, queues, stack,
                   incomingWaits, tagWrites>>

(* Mutant: FinalizeObject always concludes the DAG. *)
WithRootAlwaysCounted(o, isTagged) ==
    [o EXCEPT !.unfinalizedDAGsWithoutTagsCount = @ + 1,
              !.tags = IF isTagged /\ o.stage # "finalized" THEN Append(@, nextReferenceIndex)
                       ELSE @]

(* The root of a DAG: a tag is written once the root is finalized, and     *)
(* without one FinalizeObject of the root concludes the DAG.               *)
WithRoot(o, isTagged) ==
    IF ~isTagged THEN [o EXCEPT !.unfinalizedDAGsWithoutTagsCount = @ + 1]
    ELSE IF o.stage = "finalized" THEN o
    ELSE [o EXCEPT !.tags = Append(@, nextReferenceIndex)]

ReceiveInitiateDag ==
    LET o == Head(requests).reference
        isTagged == Head(requests).tagged
        isNew == ~Attached(o)
        s == IF isNew THEN nextReferenceIndex ELSE objectsByReference[o]
        found == IF isNew THEN NewState(o, <<>>)
                 ELSE [state[s] EXCEPT !.additional = @ + 1]
    IN  /\ Receive("InitiateDag")
        /\ IF \/ ~CanAcquireParentAndChildren(Maximum, o)
              \/ unfinalizedDAGsCount = MaximumUnfinalizedDAGsCount
           THEN Fail
           ELSE /\ state' = With(state, s, WithRoot(found, isTagged))
                /\ objectsByReference' = With(objectsByReference, o, s)
                /\ unfinalizedDAGsCount' = unfinalizedDAGsCount + 1
                /\ nextReferenceIndex' = nextReferenceIndex + 1
                /\ tagWrites' = IF isTagged /\ found.stage = "finalized"
                                THEN tagWrites \cup {<<nextReferenceIndex, o>>}
                                ELSE tagWrites
                /\ UNCHANGED <<responses, remaining, queues, stack, incomingWaits,
                               status>>
        /\ UNCHANGED storage

Requested(i) == i \in DOMAIN state /\ state[i].stage = "requested"

(* getOrCreateObjectState: the objectStates of references that were given  *)
(* the next reference indices.  One that is found acknowledges the         *)
(* additional index in the FinalizeObject message it still has to send.    *)
GetOrCreateObjectState(index) ==
    [c \in DOMAIN index |-> IF Attached(c) THEN objectsByReference[c] ELSE index[c]]

(* Mutant: an object that is being uploaded already gets no more parents. *)
FoundByFirst(t, parent) == [state[t] EXCEPT !.additional = @ + 1]

(* The objectState of a child that was found, rather than created. *)
FoundBy(t, parent) ==
    [state[t] EXCEPT !.additional = @ + 1,
                     !.unfinalizedParents =
                         IF state[t].stage = "finalized" THEN @ ELSE Append(@, parent)]

ReceiveObjectContents ==
    LET s == Head(requests).index
        o == state[s].reference
        index == ChildIndices(o, nextReferenceIndex)
        found == GetOrCreateObjectState(index)
        known == {c \in Children[o] : found[c] \in DOMAIN state}
        done == {c \in known : state[found[c]].stage = "finalized"}
        unfinalized == Cardinality(Children[o] \ done)
        children == [t \in {found[c] : c \in Children[o]} |->
                        IF t \in DOMAIN state THEN FoundBy(t, s)
                        ELSE NewState(CHOOSE c \in Children[o] : found[c] = t, <<s>>)]
    IN  /\ Receive("ProvideObjectContents") /\ ~Head(requests).empty
        /\ IF ~Requested(s)
           THEN Fail
           ELSE /\ state' = WithAll(
                      [state EXCEPT
                          ![s].stage = IF unfinalized > 0 THEN "waiting" ELSE "putQueued",
                          ![s].unfinalizedChildrenCount = unfinalized,
                          ![s].leases = {c \in done : state[found[c]].lease}],
                      children)
                /\ objectsByReference' = WithAll(objectsByReference, found)
                /\ nextReferenceIndex' = nextReferenceIndex + Cardinality(Children[o])
                /\ remaining' = ReleaseChildren(remaining, o)
                /\ incomingWaits' = IF unfinalized > 0 THEN {} ELSE {s}
                /\ UNCHANGED <<responses, unfinalizedDAGsCount, queues, stack,
                               tagWrites, status>>
        /\ UNCHANGED storage

ReceiveCloseSend ==
    /\ Receive("CloseSend")
    /\ IF Count(Checking \cup {"requestQueued", "requested"}) > 0
       THEN Fail
       ELSE /\ status' = "gracefulShutdown"
            /\ UNCHANGED <<responses, state, objectsByReference, remaining, dags,
                           queues, stack, incomingWaits, tagWrites>>
    /\ UNCHANGED storage

-----------------------------------------------------------------------------
(* processPendingObjects *)
GetPendingObject(s) ==
    /\ LockIsFree
    /\ Count({"popped"}) = 0
    /\ state[s].stage = "pending"
    /\ \A t \in DOMAIN state : state[t].stage = "pending" =>
          ~Before(state[t].reference, state[s].reference)
    /\ CanAcquireParentAndChildren(remaining, state[s].reference)
    /\ remaining' = AcquireParentAndChildren(remaining, state[s].reference)
    /\ state' = [state EXCEPT ![s].stage = "popped"]
    /\ UNCHANGED <<channel, objectsByReference, dags, queues, stack, threads,
                   storage>>

SemaphoreAvailable == status # "failed" /\ Count({"check", "put"}) < ObjectStoreConcurrency

StartCheck(s) ==
    /\ state[s].stage = "popped" /\ SemaphoreAvailable
    /\ state' = [state EXCEPT ![s].stage = "check"]
    /\ UNCHANGED <<channel, objectsByReference, remaining, dags, queues, stack,
                   threads, storage>>

(* UploadObject() without contents. *)
CheckObject(s) ==
    /\ state[s].stage = "check" /\ status # "failed"
    /\ state' = [state EXCEPT ![s].stage = "checked",
                    ![s].result = IF GraphExists(state[s].reference) THEN "complete"
                                  ELSE "none"]
    /\ UNCHANGED <<channel, objectsByReference, remaining, dags, queues, stack,
                   threads, storage>>

(* The storage reports an error, for a check or a write. *)
StorageFails(s) ==
    /\ state[s].stage \in {"check", "put"} /\ status # "failed"
    /\ errors < MaxErrors
    /\ errors' = errors + 1
    /\ state' = [state EXCEPT ![s].stage = IF @ = "check" THEN "checked" ELSE "written",
                              ![s].result = "error"]
    /\ UNCHANGED <<channel, objectsByReference, remaining, dags, queues, stack,
                   threads, exists, tagged, expirations>>

QueueRequestObjectContents(s) ==
    /\ LockIsFree
    /\ state[s].stage = "checked" /\ state[s].result = "none"
    /\ state' = [state EXCEPT ![s].stage = "requestQueued"]
    /\ requestedQueue' = Append(requestedQueue, s)
    /\ UNCHANGED <<channel, objectsByReference, remaining, dags, finalizedQueue,
                   finalizedTags, stack, threads, storage>>

-----------------------------------------------------------------------------
(* finalizeObjectLocked: the state of an object whose success or failure   *)
(* is known.                                                               *)
Finalized(o, success, lease) ==
    [o EXCEPT !.stage = "finalized", !.success = success, !.lease = lease,
              !.finalizing = TRUE]

(* The start of a call that is not nested.  Upon success the objectState   *)
(* stays attached until FinalizeObject is sent.                            *)
Finalize(s, success, lease, checked) ==
    /\ LockIsFree
    /\ stack' = <<s>>
    /\ finalizedQueue' = Append(finalizedQueue, s)
    /\ objectsByReference' = IF success THEN objectsByReference ELSE Detach(s)
    /\ state' = [state EXCEPT ![s] =
          [Finalized(@, success, lease) EXCEPT !.releasesChildren = checked]]
    /\ UNCHANGED <<remaining, dags, requestedQueue, finalizedTags, threads, storage>>

FinishCheck(s) ==
    /\ state[s].stage = "checked" /\ state[s].result # "none"
    /\ Finalize(s, state[s].result = "complete", state[s].result = "complete", TRUE)
    /\ UNCHANGED channel

(* An object that is incomplete because leases have expired meanwhile was  *)
(* written nonetheless.                                                    *)
FinishPut(s) ==
    /\ state[s].stage = "written"
    /\ Finalize(s, state[s].result # "error", state[s].result = "complete", FALSE)
    /\ UNCHANGED channel

(* The client left the contents of an object empty.  As the parents fail   *)
(* as well, the lock is not released before they are all finalized.        *)
ReceiveCancellation ==
    LET s == Head(requests).index
    IN  /\ Receive("ProvideObjectContents") /\ Head(requests).empty
        /\ Requested(s)
        /\ Finalize(s, FALSE, FALSE, FALSE)
        /\ UNCHANGED responses

(* The loop over the parents of the innermost call. *)
Top == Last(stack)
HasParents == stack # <<>> /\ state[Top].unfinalizedParents # <<>> /\ status # "failed"
Parent == Head(state[Top].unfinalizedParents)

(* Mutant: the failure of a child is forgotten. *)
UpdatedParentIgnoringFailures ==
    [state[Parent] EXCEPT
        !.leases = IF state[Top].lease THEN @ \cup {state[Top].reference} ELSE @,
        !.unfinalizedChildrenCount = @ - 1]

UpdatedParent ==
    [state[Parent] EXCEPT
        !.leases = IF state[Top].lease THEN @ \cup {state[Top].reference} ELSE @,
        !.hasChildFailures = @ \/ ~state[Top].success,
        !.unfinalizedChildrenCount = @ - 1]

DetachFailedParent ==
    objectsByReference' =
        IF ~state[Top].success /\ ~state[Parent].hasChildFailures THEN Detach(Parent)
        ELSE objectsByReference

UpdateParent(updated) ==
    /\ HasParents
    /\ state' = [state EXCEPT ![Parent] = updated, ![Top].unfinalizedParents = Tail(@)]
    /\ DetachFailedParent
    /\ UNCHANGED <<channel, remaining, dags, requestedQueue, finalizedTags, threads,
                   storage>>

ParentWaits ==
    /\ UpdateParent(UpdatedParent)
    /\ UpdatedParent.unfinalizedChildrenCount > 0
    /\ UNCHANGED <<stack, finalizedQueue>>

(* Children of the parent failed, and this is the last one. *)
ParentFails ==
    /\ UpdateParent(Finalized(UpdatedParent, FALSE, FALSE))
    /\ UpdatedParent.unfinalizedChildrenCount = 0 /\ UpdatedParent.hasChildFailures
    /\ stack' = Append(stack, Parent)
    /\ finalizedQueue' = Append(finalizedQueue, Parent)

(* The lock is released while the goroutine waits to write the parent. *)
ParentIsComplete ==
    /\ HasParents
    /\ UpdatedParent.unfinalizedChildrenCount = 0 /\ ~UpdatedParent.hasChildFailures
    /\ state' = [state EXCEPT ![Parent] = [UpdatedParent EXCEPT !.stage = "putQueued"],
                              ![Top].unfinalizedParents = Tail(@),
                              ![Top].waitsFor = {Parent}]
    /\ stack' = <<>>
    /\ UNCHANGED <<channel, objectsByReference, remaining, dags, queues, threads,
                   storage>>

Relock(s) ==
    /\ LockIsFree
    /\ state[s].finalizing /\ state[s].waitsFor = {}
    /\ stack' = <<s>>
    /\ UNCHANGED <<channel, state, objectsByReference, remaining, dags, queues,
                   threads, storage>>

(* An objectState that is not referenced any more is garbage. *)
WithoutGarbage(states, s) ==
    IF states[s].sent /\ ~states[s].finalizing THEN Restrict(states, DOMAIN states \ {s})
    ELSE states

(* The end of finalizeObjectLocked and, if it is not nested, of the        *)
(* goroutine.                                                              *)
ReleaseObject ==
    LET o == state[Top]
        released == ReleaseParent(remaining, o.reference)
    IN  /\ stack # <<>> /\ status # "failed"
        /\ o.unfinalizedParents = <<>>
        /\ state' = WithoutGarbage([state EXCEPT ![Top].finalizing = FALSE,
                                                 ![Top].tags = <<>>], Top)
        /\ IF o.success
           THEN /\ tagWrites' = tagWrites \cup {<<i, o.reference>> : i \in ToSet(o.tags)}
                /\ UNCHANGED finalizedTags
           ELSE /\ finalizedTags' = finalizedTags \o
                      [i \in DOMAIN o.tags |-> FinalizeTag(o.tags[i], FALSE)]
                /\ UNCHANGED tagWrites
        /\ remaining' = IF o.releasesChildren THEN ReleaseChildren(released, o.reference)
                        ELSE released
        /\ stack' = Front(stack)
        /\ UNCHANGED <<channel, objectsByReference, dags, requestedQueue,
                       finalizedQueue, incomingWaits, status, storage>>

-----------------------------------------------------------------------------
(* putObject, which blocks its caller until the semaphore is acquired. *)
StartPut(s) ==
    /\ state[s].stage = "putQueued" /\ SemaphoreAvailable
    /\ state' = [t \in DOMAIN state |->
          IF t = s THEN [state[t] EXCEPT !.stage = "put"]
          ELSE [state[t] EXCEPT !.waitsFor = @ \ {s}]]
    /\ incomingWaits' = incomingWaits \ {s}
    /\ UNCHANGED <<channel, objectsByReference, remaining, dags, queues, stack,
                   tagWrites, status, storage>>

(* UploadObject() with contents and the leases of children. *)
PutObject(s) ==
    LET o == state[s].reference
    IN  /\ state[s].stage = "put" /\ status # "failed"
        /\ exists' = exists \cup {o}
        /\ \/ /\ state' = [state EXCEPT ![s].stage = "written",
                              ![s].result = IF state[s].leases = Children[o] THEN "complete"
                                            ELSE "incomplete"]
              /\ UNCHANGED expirations
           \/ /\ Children[o] # {} /\ expirations < MaxExpirations
              /\ expirations' = expirations + 1
              /\ state' = [state EXCEPT ![s].stage = "written", ![s].result = "incomplete"]
        /\ UNCHANGED <<channel, objectsByReference, remaining, dags, queues, stack,
                       threads, tagged, errors>>

(* updateAndFinalizeTag *)
UpdateTag(i, o) ==
    /\ LockIsFree
    /\ <<i, o>> \in tagWrites
    /\ tagWrites' = tagWrites \ {<<i, o>>}
    /\ \/ /\ tagged' = tagged \cup {o}
          /\ finalizedTags' = Append(finalizedTags, FinalizeTag(i, TRUE))
          /\ UNCHANGED errors
       \/ /\ errors < MaxErrors
          /\ errors' = errors + 1
          /\ finalizedTags' = Append(finalizedTags, FinalizeTag(i, FALSE))
          /\ UNCHANGED tagged
    /\ UNCHANGED <<channel, state, objectsByReference, remaining, dags,
                   requestedQueue, finalizedQueue, stack, incomingWaits, status,
                   exists, expirations>>

-----------------------------------------------------------------------------
(* processOutgoingMessages *)
Send(message) ==
    /\ LockIsFree /\ status \in {"receiving", "gracefulShutdown"}
    /\ responses' = Append(responses, message)
    /\ UNCHANGED <<requests, remaining, nextReferenceIndex, stack, threads, storage>>

SendFinalizeObject ==
    LET s == Head(finalizedQueue)
        o == state[s]
    IN  /\ finalizedQueue # <<>>
        /\ Send(FinalizeObject(s, o.additional, o.success))
        /\ finalizedQueue' = Tail(finalizedQueue)
        /\ objectsByReference' = Detach(s)
        /\ state' = WithoutGarbage([state EXCEPT ![s].sent = TRUE], s)
        /\ unfinalizedDAGsCount' = unfinalizedDAGsCount - o.unfinalizedDAGsWithoutTagsCount
        /\ UNCHANGED <<requestedQueue, finalizedTags>>

SendFinalizeTag ==
    /\ finalizedQueue = <<>> /\ finalizedTags # <<>>
    /\ Send(Head(finalizedTags))
    /\ finalizedTags' = Tail(finalizedTags)
    /\ unfinalizedDAGsCount' = unfinalizedDAGsCount - 1
    /\ UNCHANGED <<state, objectsByReference, requestedQueue, finalizedQueue>>

SendRequestObjectContents ==
    LET s == Head(requestedQueue)
    IN  /\ finalizedQueue = <<>> /\ finalizedTags = <<>> /\ requestedQueue # <<>>
        /\ Send(RequestObjectContents(s))
        /\ requestedQueue' = Tail(requestedQueue)
        /\ state' = [state EXCEPT ![s].stage = "requested"]
        /\ UNCHANGED <<objectsByReference, unfinalizedDAGsCount, finalizedQueue,
                       finalizedTags>>

AllSent ==
    /\ LockIsFree /\ status = "gracefulShutdown"
    /\ finalizedQueue = <<>> /\ finalizedTags = <<>> /\ requestedQueue = <<>>
    /\ unfinalizedDAGsCount = 0
    /\ status' = "allSent"
    /\ UNCHANGED <<channel, state, objectsByReference, remaining, dags, queues, stack,
                   incomingWaits, tagWrites, storage>>

(* group.Wait(): no goroutine is left. *)
Return ==
    /\ LockIsFree /\ status = "allSent"
    /\ tagWrites = {} /\ incomingWaits = {}
    /\ \A s \in DOMAIN state : ~state[s].finalizing /\ state[s].stage \notin Checking \cup Writing
    /\ status' = "returned"
    /\ responses' = Append(responses, Hangup)
    /\ UNCHANGED <<requests, state, objectsByReference, remaining, dags, queues,
                   stack, incomingWaits, tagWrites, storage>>

-----------------------------------------------------------------------------
ObjectStep(s) ==
    \/ GetPendingObject(s) \/ StartCheck(s) \/ CheckObject(s)
    \/ QueueRequestObjectContents(s) \/ FinishCheck(s)
    \/ StartPut(s) \/ PutObject(s) \/ FinishPut(s) \/ Relock(s)

ServerReceive == ReceiveInitiateDag \/ ReceiveObjectContents \/ ReceiveCloseSend

ServerSend ==
    \/ SendFinalizeObject \/ SendFinalizeTag \/ SendRequestObjectContents
    \/ AllSent \/ Return

LockedStep == ParentWaits \/ ParentFails \/ ParentIsComplete \/ ReleaseObject

ServerStep ==
    \/ ServerReceive \/ ServerSend \/ LockedStep
    \/ \E s \in DOMAIN state : ObjectStep(s) \/ StorageFails(s)
    \/ \E w \in tagWrites : UpdateTag(w[1], w[2])
-----------------------------------------------------------------------------
(* What an objectState has acquired and not released. *)
HeldBy(s) ==
    LET o == state[s]
    IN  IF o.stage = "pending" \/ (o.stage = "finalized" /\ ~o.finalizing) THEN Nothing
        ELSE IF \/ o.stage \in (Checking \ {"pending"}) \cup {"requestQueued", "requested"}
                \/ o.releasesChildren
        THEN ParentAndChildren(o.reference)
        ELSE ParentOnly(o.reference)

(* Nothing of the limit is lost or released twice, whichever way objects   *)
(* are finalized, also if the lock is released while their parents are     *)
(* updated.                                                                *)
LimitConserved ==
    /\ remaining.count + SumFunction([s \in DOMAIN state |-> HeldBy(s).count])
          = MaximumCount
    /\ remaining.sizeBytes + SumFunction([s \in DOMAIN state |-> HeldBy(s).sizeBytes])
          = MaximumSizeBytes

(* An object waits for as many children as will tell it, so that it is     *)
(* written once they all are: a child shared by several parents tells each *)
(* of them, also those that found it while it was being written.           *)
WaitsForLiveChildren ==
    \A s \in DOMAIN state : state[s].stage = "waiting" =>
        /\ state[s].unfinalizedChildrenCount > 0
        /\ state[s].unfinalizedChildrenCount =
              Cardinality({t \in DOMAIN state : s \in ToSet(state[t].unfinalizedParents)})

(* The panics of the queues and counters are out of reach: an object is in *)
(* at most one queue, once, and the count of DAGs never underflows.        *)
NoPanic ==
    /\ IsInjective(requestedQueue \o finalizedQueue)
    /\ unfinalizedDAGsCount \in 0 .. MaximumUnfinalizedDAGsCount
=============================================================================
