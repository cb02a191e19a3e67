--------------------------- MODULE LeaseRenewing ---------------------------
(***************************************************************************)
(* The uploader of pkg/storage/object/leaserenewing: a call for an object  *)
(* whose leases have expired traverses the object's children, renews their *)
(* leases and then updates the object.  Objects with several parents or    *)
(* callers are traversed once, and the parents being traversed are bounded *)
(* by a limit (pkg/storage/object/limit.go).                               *)
(*                                                                         *)
(* The backend is the mirrored flat-backed store.  It is represented by    *)
(* the objects it has and the children whose leases are valid; a lease is  *)
(* only handed out for an object with valid leases (LeaseStore).           *)
(***************************************************************************)
EXTENDS ObjectLimit, SequencesExt

CONSTANTS
    Callers,
    ObjectStoreConcurrency,
    MaxStates,                         \* bound on objectStates at a time
    MaxCalls,                          \* bound on calls of UploadObject()
    MaxFaults                          \* bound on failing calls and expiring leases

States == 1 .. MaxStates
None == 0

ASSUME BoundsAssumption ==
    /\ ObjectStoreConcurrency \in Nat \ {0} /\ MaxStates \in Nat
    /\ MaxCalls \in Nat /\ MaxFaults \in Nat

VARIABLES
    state,                 \* objectStates, by their address
    objectsByReference,
    remaining,             \* remainingUnfinalizedParentsLimit
    lock,                  \* the goroutine that keeps the lock over a step
    caller,                \* UploadObject() calls
    exists, leased,        \* the backend
    calls, errors, expirations

backend == <<exists, leased>>
bounds == <<calls, errors, expirations>>
vars == <<state, objectsByReference, remaining, lock, caller, backend, bounds>>

NoState == [stage |-> "none"]
Stages == {"pending", "popped", "first", "firstDone", "waiting",
           "secondQueued", "second", "secondDone", "finalizing"}
Outcomes == {"lease", "noLease", "error"}
Results == {"Complete", "Incomplete", "Missing", "Error"}
ObjectStates ==
    [stage : Stages,
     reference : Objects,
     hasCallers : SUBSET Callers,
     unfinalizedParents : Seq(States),
     result : Results, wanted : SUBSET Objects,      \* the backend's answer
     originalIncompleteResult : BOOLEAN,             \* still set
     leases : SUBSET Objects,
     gotNoLease : SUBSET Objects,
     childErr : BOOLEAN,
     unfinalizedChildrenCount : Nat,
     outcome : Outcomes,                             \* propagated to parents
     stack : Seq(States),                            \* of its goroutine
     waitsFor : States \cup {None},                  \* of its goroutine
     releasesChildren : BOOLEAN]

CallStates ==
    [stage : {"idle"}]
        \cup [stage : {"waiting"}, reference : Objects]
        \cup [stage : {"answered"}, reference : Objects,
              result : Results, wanted : SUBSET Objects]

NewState(reference) ==
    [stage |-> "pending", reference |-> reference, hasCallers |-> {},
     unfinalizedParents |-> <<>>, result |-> "Missing", wanted |-> {},
     originalIncompleteResult |-> FALSE, leases |-> {}, gotNoLease |-> {},
     childErr |-> FALSE, unfinalizedChildrenCount |-> 0, outcome |-> "noLease",
     stack |-> <<>>, waitsFor |-> None, releasesChildren |-> FALSE]

TypeOK ==
    /\ state \in [States -> {NoState} \cup ObjectStates]
    /\ objectsByReference \in [Objects -> States \cup {None}]
    /\ remaining \in [count : Nat, sizeBytes : Nat]
    /\ lock \in States \cup {None}
    /\ caller \in [Callers -> CallStates]
    /\ exists \in SUBSET Objects /\ leased \in SUBSET Objects
    /\ calls \in Nat /\ errors \in Nat /\ expirations \in Nat

GraphExists(o) == Reachable[o] \subseteq exists

Init ==
    /\ state = [s \in States |-> NoState]
    /\ objectsByReference = [o \in Objects |-> None]
    /\ remaining = Maximum
    /\ lock = None
    /\ caller = [c \in Callers |-> [stage |-> "idle"]]
    /\ exists \in SUBSET Objects
    /\ leased \in SUBSET {o \in Objects : GraphExists(o)}
    /\ calls = 0 /\ errors = 0 /\ expirations = 0

-----------------------------------------------------------------------------
Unused == {s \in States : state[s] = NoState}

(* Addresses for the objectStates that are created for references without  *)
(* one.  There are none if MaxStates is exceeded.                          *)
Addresses(references) ==
    {f \in [{o \in references : objectsByReference[o] = None} -> Unused] : IsInjective(f)}

(* getOrCreateObjectState, for a set of references. *)
Created(references) ==
    LET address == CHOOSE f \in Addresses(references) : TRUE
    IN  [o \in Objects |-> IF o \in DOMAIN address THEN address[o]
                           ELSE objectsByReference[o]]

(* The objectState at an address, or the one created there. *)
StateAt(s, byReference) ==
    IF state[s] = NoState
    THEN NewState(CHOOSE o \in Objects : byReference[o] = s)
    ELSE state[s]

UploadObject(c, o) ==
    /\ lock = None
    /\ caller[c].stage # "waiting"
    /\ Children[o] # {}
    /\ calls < MaxCalls
    /\ calls' = calls + 1
    /\ IF CanAcquireParentAndChildren(Maximum, o)
       THEN LET byReference == Created({o})
                s == byReference[o]
            IN  /\ Addresses({o}) # {}
                /\ objectsByReference' = byReference
                /\ state' = [state EXCEPT ![s] =
                      [StateAt(s, byReference) EXCEPT !.hasCallers = @ \cup {c}]]
                /\ caller' = [caller EXCEPT ![c] = [stage |-> "waiting", reference |-> o]]
       ELSE /\ caller' = [caller EXCEPT ![c] =
                  [stage |-> "answered", reference |-> o, result |-> "Error", wanted |-> {}]]
            /\ UNCHANGED <<state, objectsByReference>>
    /\ UNCHANGED <<remaining, lock, backend, errors, expirations>>

(* The only caller of ProcessSingleObject() runs one call at a time. *)
GetPendingObject(s) ==
    /\ lock = None
    /\ \A t \in States : state[t].stage # "popped"
    /\ state[s].stage = "pending"
    /\ \A t \in States : state[t].stage = "pending" =>
          ~Before(state[t].reference, state[s].reference)
    /\ CanAcquireParentAndChildren(remaining, state[s].reference)
    /\ remaining' = AcquireParentAndChildren(remaining, state[s].reference)
    /\ state' = [state EXCEPT ![s].stage = "popped"]
    /\ UNCHANGED <<objectsByReference, lock, caller, backend, bounds>>

SemaphoreAvailable ==
    Cardinality({s \in States : state[s].stage \in {"first", "second"}})
        < ObjectStoreConcurrency

ProcessSingleObject(s) ==
    /\ state[s].stage = "popped"
    /\ SemaphoreAvailable
    /\ state' = [state EXCEPT ![s].stage = "first"]
    /\ UNCHANGED <<objectsByReference, remaining, lock, caller, backend, bounds>>

-----------------------------------------------------------------------------
(* The backend's answer to an UploadObject() without contents. *)
BaseUpload(s, accepted, stage) ==
    LET o == state[s].reference
        wanted == Children[o] \ (leased \cup accepted)
        result == IF o \notin exists THEN "Missing"
                  ELSE IF wanted = {} THEN "Complete" ELSE "Incomplete"
    IN  /\ state' = [state EXCEPT ![s].stage = stage,
                                  ![s].result = result,
                                  ![s].wanted = IF result = "Incomplete" THEN wanted ELSE {}]
        /\ leased' = IF o \in exists THEN leased \cup accepted ELSE leased
        /\ UNCHANGED <<objectsByReference, remaining, lock, caller, exists>>

FirstUpload(s) ==
    /\ state[s].stage = "first"
    /\ BaseUpload(s, {}, "firstDone")
    /\ UNCHANGED bounds

(* The second call provides the leases of children.  They are accepted,    *)
(* unless they took too long to obtain.                                    *)
SecondUpload(s) ==
    /\ state[s].stage = "second"
    /\ \/ /\ BaseUpload(s, state[s].leases, "secondDone")
          /\ UNCHANGED bounds
       \/ /\ errors + expirations < MaxFaults
          /\ expirations' = expirations + 1
          /\ \E accepted \in SUBSET state[s].leases : BaseUpload(s, accepted, "secondDone")
          /\ UNCHANGED <<calls, errors>>

(* A call into the backend fails, or the object went missing since the     *)
(* first one.                                                              *)
UploadFails(s) ==
    /\ state[s].stage \in {"first", "second"}
    /\ errors + expirations < MaxFaults
    /\ errors' = errors + 1
    /\ \E result \in IF state[s].stage = "first" THEN {"Error"} ELSE {"Error", "Missing"} :
          state' = [state EXCEPT
              ![s].stage = IF @ = "first" THEN "firstDone" ELSE "secondDone",
              ![s].result = result, ![s].wanted = {}]
    /\ UNCHANGED <<objectsByReference, remaining, lock, caller, backend, calls, expirations>>

Expire(c) ==
    /\ c \in leased
    /\ errors + expirations < MaxFaults
    /\ expirations' = expirations + 1
    /\ leased' = leased \ {c}
    /\ UNCHANGED <<state, objectsByReference, remaining, lock, caller, exists, calls, errors>>

-----------------------------------------------------------------------------
(* detachObjectState *)
Detach(detached) ==
    objectsByReference' =
        [o \in Objects |-> IF objectsByReference[o] \in detached THEN None
                           ELSE objectsByReference[o]]

(* The start of finalizeObjectLocked: callers are unblocked. *)
Unblock(s, result, wanted) ==
    caller' = [c \in Callers |->
        IF c \in state[s].hasCallers
        THEN [stage |-> "answered", reference |-> state[s].reference,
              result |-> result, wanted |-> wanted]
        ELSE caller[c]]

OutcomeOf(result) ==
    CASE result = "Complete" -> "lease"
      [] result = "Error" -> "error"
      [] OTHER -> "noLease"

(* A goroutine takes the lock and finalizes the object it is about. *)
Finalize(s, result, wanted, first) ==
    /\ lock = None
    /\ lock' = s
    /\ Detach({s})
    /\ Unblock(s, result, wanted)
    /\ state' = [state EXCEPT ![s].stage = "finalizing",
                              ![s].outcome = OutcomeOf(result),
                              ![s].stack = <<s>>,
                              ![s].releasesChildren = first]
    /\ UNCHANGED <<remaining, backend, bounds>>

(* The first call ended, other than with an incomplete object. *)
FinishFirst(s) ==
    /\ state[s].stage = "firstDone" /\ state[s].result # "Incomplete"
    /\ Finalize(s, state[s].result, {}, TRUE)

(* Mutant: an object that is already being traversed gets no more parents. *)
QueuedOnce(child, parent, byReference) ==
    IF state[child] # NoState THEN state[child]
    ELSE [StateAt(child, byReference) EXCEPT !.unfinalizedParents = <<parent>>]

Queued(child, parent, byReference) ==
    [StateAt(child, byReference) EXCEPT !.unfinalizedParents = Append(@, parent)]

(* The first call found leases to renew.  The children are queued, unless  *)
(* they are being traversed already.                                       *)
QueueChildren(s) ==
    LET wanted == state[s].wanted
        byReference == Created(wanted)
    IN  /\ lock = None
        /\ state[s].stage = "firstDone" /\ state[s].result = "Incomplete"
        /\ Addresses(wanted) # {}
        /\ objectsByReference' = byReference
        /\ state' = [t \in States |->
              IF t = s
              THEN [state[s] EXCEPT !.stage = "waiting",
                                    !.originalIncompleteResult = TRUE,
                                    !.unfinalizedChildrenCount = Cardinality(wanted)]
              ELSE IF \E c \in wanted : byReference[c] = t THEN Queued(t, s, byReference)
              ELSE state[t]]
        /\ remaining' = ReleaseChildren(remaining, state[s].reference)
        /\ UNCHANGED <<lock, caller, backend, bounds>>

(* Mutant: an incomplete object is reported as such. *)
RenewalFailedLenient(s) ==
    state[s].childErr \/ state[s].result \in {"Missing", "Error"}

(* Whether the second call leads to an error.  If so many leases have      *)
(* expired that the object is still incomplete, it is a transient one, so  *)
(* that children that are present do not seem to be missing.               *)
RenewalFailed(s) ==
    \/ state[s].childErr
    \/ state[s].result \in {"Missing", "Error"}
    \/ state[s].result = "Incomplete" /\ ~(state[s].wanted \subseteq state[s].gotNoLease)

FinishSecond(s) ==
    /\ state[s].stage = "secondDone"
    /\ IF RenewalFailed(s)
       THEN Finalize(s, "Error", {}, FALSE)
       ELSE Finalize(s, state[s].result, state[s].wanted, FALSE)

-----------------------------------------------------------------------------
(* The loop of finalizeObjectLocked over the parents.  A stack of them is  *)
(* kept as the function calls itself; g is the goroutine.                  *)
Finalizing(g) == Last(state[g].stack)

(* Mutant: does not record that there is no lease for a child. *)
PropagatedUnmarked(parent, child) ==
    LET outcome == state[child].outcome
        reference == state[child].reference
    IN  [state[parent] EXCEPT
            !.leases = IF outcome = "lease" THEN @ \cup {reference} ELSE @,
            !.originalIncompleteResult = @ /\ outcome # "lease",
            !.childErr = @ \/ outcome = "error",
            !.unfinalizedChildrenCount = @ - 1]

(* The parent once the outcome of its child is recorded. *)
Propagated(parent, child) ==
    LET outcome == state[child].outcome
        reference == state[child].reference
    IN  [state[parent] EXCEPT
            !.leases = IF outcome = "lease" THEN @ \cup {reference} ELSE @,
            !.gotNoLease = IF outcome = "lease" THEN @ ELSE @ \cup {reference},
            !.originalIncompleteResult = @ /\ outcome # "lease",
            !.childErr = @ \/ outcome = "error",
            !.unfinalizedChildrenCount = @ - 1]

ParentToUpdate(g) == Head(state[Finalizing(g)].unfinalizedParents)

(* The states once the first parent of the object being finalized has been *)
(* told about it, with a parent that is no longer waiting changed as well. *)
WithParent(g, updated) ==
    [state EXCEPT ![Finalizing(g)].unfinalizedParents = Tail(@),
                  ![ParentToUpdate(g)] = updated]

HasParentToUpdate(g) ==
    /\ lock = g /\ lock # None
    /\ state[Finalizing(g)].unfinalizedParents # <<>>

DetachIfFailed(g) ==
    Detach(IF state[Finalizing(g)].outcome = "error" THEN {ParentToUpdate(g)} ELSE {})

ParentStillWaits(g) ==
    LET updated == Propagated(ParentToUpdate(g), Finalizing(g))
    IN  /\ HasParentToUpdate(g)
        /\ updated.unfinalizedChildrenCount > 0
        /\ DetachIfFailed(g)
        /\ state' = WithParent(g, updated)
        /\ UNCHANGED <<remaining, lock, caller, backend, bounds>>

(* No leases were obtained: the parent is finalized right away. *)
ParentHasNoLeases(g) ==
    LET parent == ParentToUpdate(g)
        updated == Propagated(parent, Finalizing(g))
        result == IF updated.childErr THEN "Error" ELSE "Incomplete"
    IN  /\ HasParentToUpdate(g)
        /\ updated.unfinalizedChildrenCount = 0
        /\ updated.originalIncompleteResult
        /\ Detach({parent})
        /\ Unblock(parent, result, updated.wanted)
        /\ state' = [WithParent(g, [updated EXCEPT !.stage = "finalizing",
                                                   !.outcome = OutcomeOf(result)])
                        EXCEPT ![g].stack = Append(@, parent)]
        /\ UNCHANGED <<remaining, lock, backend, bounds>>

(* The leases that were obtained are provided to the backend, for which    *)
(* the lock is released.                                                   *)
ParentHasLeases(g) ==
    LET parent == ParentToUpdate(g)
        updated == Propagated(parent, Finalizing(g))
    IN  /\ HasParentToUpdate(g)
        /\ updated.unfinalizedChildrenCount = 0
        /\ ~updated.originalIncompleteResult
        /\ DetachIfFailed(g)
        /\ state' = [WithParent(g, [updated EXCEPT !.stage = "secondQueued"])
                        EXCEPT ![g].waitsFor = parent]
        /\ lock' = None
        /\ UNCHANGED <<remaining, caller, backend, bounds>>

StartSecondUpload(g) ==
    /\ state[g].stage = "finalizing"
    /\ state[g].waitsFor # None
    /\ state[state[g].waitsFor].stage = "secondQueued"
    /\ SemaphoreAvailable
    /\ state' = [state EXCEPT ![state[g].waitsFor].stage = "second",
                              ![g].waitsFor = None]
    /\ UNCHANGED <<objectsByReference, remaining, lock, caller, backend, bounds>>

Relock(g) ==
    /\ lock = None
    /\ state[g].stage = "finalizing" /\ state[g].stack # <<>>
    /\ state[g].waitsFor = None
    /\ lock' = g
    /\ UNCHANGED <<state, objectsByReference, remaining, caller, backend, bounds>>

(* The end of finalizeObjectLocked and, at the bottom of the stack, of the *)
(* goroutine.                                                              *)
ReleaseObject(g) ==
    LET s == Finalizing(g)
        released == ReleaseParent(remaining, state[s].reference)
    IN  /\ lock = g /\ lock # None
        /\ state[s].unfinalizedParents = <<>>
        /\ IF s = g
           THEN /\ lock' = None
                /\ remaining' = IF state[g].releasesChildren
                                THEN ReleaseChildren(released, state[g].reference)
                                ELSE released
                /\ state' = [state EXCEPT ![g] = NoState]
           ELSE /\ lock' = lock
                /\ remaining' = released
                /\ state' = [state EXCEPT ![s] = NoState, ![g].stack = Front(@)]
        /\ UNCHANGED <<objectsByReference, caller, backend, bounds>>

-----------------------------------------------------------------------------
Step(s) ==
    \/ GetPendingObject(s)
    \/ ProcessSingleObject(s)
    \/ FirstUpload(s)
    \/ SecondUpload(s)
    \/ FinishFirst(s)
    \/ QueueChildren(s)
    \/ FinishSecond(s)
    \/ ParentStillWaits(s)
    \/ ParentHasNoLeases(s)
    \/ ParentHasLeases(s)
    \/ StartSecondUpload(s)
    \/ Relock(s)
    \/ ReleaseObject(s)

Next ==
    \/ \E c \in Callers, o \in Objects : UploadObject(c, o)
    \/ \E s \in States : Step(s) \/ UploadFails(s)
    \/ \E c \in Objects : Expire(c)

(* The goroutines run, the backend answers, and locks and semaphores are   *)
(* granted to those that wait for them.                                    *)
Fairness == \A s \in States : WF_vars(Step(s))

Spec == Init /\ [][Next]_vars
FairSpec == Spec /\ Fairness
-----------------------------------------------------------------------------
(* What an objectState has acquired and not released. *)
HeldBy(s) ==
    LET o == state[s].reference
    IN  IF state[s].stage \in {"none", "pending"} THEN Nothing
        ELSE IF \/ state[s].stage \in {"popped", "first", "firstDone"}
                \/ state[s].stage = "finalizing" /\ state[s].releasesChildren
        THEN ParentAndChildren(o)
        ELSE ParentOnly(o)

(* Nothing of the limit is lost or released twice, whichever way objects   *)
(* are finalized, and it is never exceeded.                                *)
LimitConserved ==
    /\ remaining.count + SumFunction([s \in States |-> HeldBy(s).count])
          = MaximumCount
    /\ remaining.sizeBytes + SumFunction([s \in States |-> HeldBy(s).sizeBytes])
          = MaximumSizeBytes

(* A parent waits for as many children as there are that will tell it.     *)
WaitsForLiveChildren ==
    \A s \in States : state[s].stage = "waiting" =>
        /\ state[s].unfinalizedChildrenCount > 0
        /\ state[s].unfinalizedChildrenCount =
              Cardinality({t \in States :
                  state[t] # NoState /\ s \in ToSet(state[t].unfinalizedParents)})

(* What callers are told is the truth about the whole graph below the      *)
(* object, also if leases expire or calls fail meanwhile: an error is      *)
(* reported instead of asking for objects that are present.                *)
ResultsReflectGraph ==
    \A c \in Callers : caller[c].stage = "answered" =>
        LET o == caller[c].reference
        IN  CASE caller[c].result = "Complete" -> GraphExists(o)
              [] caller[c].result = "Missing" -> o \notin exists
              [] caller[c].result = "Incomplete" ->
                    /\ o \in exists
                    /\ caller[c].wanted # {}
                    /\ \A child \in caller[c].wanted : ~GraphExists(child)
              [] OTHER -> TRUE

(* Errors are only reported if something went wrong. *)
NoSpuriousErrors ==
    \A c \in Callers :
        caller[c].stage = "answered" /\ caller[c].result = "Error" =>
            \/ errors > 0 \/ expirations > 0
            \/ ~CanAcquireParentAndChildren(Maximum, caller[c].reference)

(* Every caller is answered: the traversal makes progress within its       *)
(* limits, whatever is requested concurrently.                             *)
CallersAreAnswered ==
    \A c \in Callers : caller[c].stage = "waiting" ~> caller[c].stage = "answered"
=============================================================================
