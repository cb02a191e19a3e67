------------------------ MODULE LeaseRenewingProofs ------------------------
(***************************************************************************)
(* Proofs about LeaseRenewing, for every graph of objects, limit, number   *)
(* of callers and bound.                                                   *)
(***************************************************************************)
EXTENDS LeaseRenewing, ObjectLimitProofs

Live(s) == state[s] # NoState
Holds(t, p) == Live(t) /\ p \in ToSet(state[t].unfinalizedParents)
Holders(p) == {t \in States : Holds(t, p)}

(* References lead to objects that are not being finalized. *)
ReferencesAreLive ==
    \A o \in Objects : objectsByReference[o] # None =>
        LET s == objectsByReference[o]
        IN  Live(s) /\ state[s].reference = o /\ state[s].stage # "finalizing"

(* Objects only know parents that wait, and know each of them once. *)
ParentsWait ==
    \A t \in States : Live(t) =>
        /\ IsInjective(state[t].unfinalizedParents)
        /\ \A p \in States : Holds(t, p) => state[p].stage = "waiting"

WantedAreChildren ==
    \A s \in States : Live(s) =>
        /\ state[s].wanted \subseteq Children[state[s].reference]
        /\ state[s].stage = "firstDone" /\ state[s].result = "Incomplete" =>
              state[s].wanted # {}

(* A goroutine starts at the bottom of its own stack, on top of which are  *)
(* parents that got no leases.                                             *)
IsStack(g) ==
    /\ state[g].stage = "finalizing"
    /\ state[g].stack[1] = g
    /\ IsInjective(state[g].stack)
    /\ \A t \in ToSet(state[g].stack) : t # g =>
          /\ state[t].stage = "finalizing"
          /\ state[t].stack = <<>> /\ ~state[t].releasesChildren

OnStack(t, g) == Live(g) /\ t \in ToSet(state[g].stack)

Stacks ==
    /\ \A g \in States : Live(g) /\ state[g].stack # <<>> => IsStack(g)
    /\ \A g, h, t \in States : OnStack(t, g) /\ OnStack(t, h) => g = h
    /\ \A s \in States : Live(s) /\ state[s].stage # "finalizing" =>
          state[s].stack = <<>> /\ ~state[s].releasesChildren
    /\ lock # None => Live(lock) /\ state[lock].stack # <<>>

Structure ==
    /\ TypeOK
    /\ ReferencesAreLive
    /\ ParentsWait
    /\ WaitsForLiveChildren
    /\ WantedAreChildren
    /\ Stacks

-----------------------------------------------------------------------------
(* What objectStates know is true of the graph. *)
LeasesAreTrue(s) ==
    /\ \A c \in state[s].leases : GraphExists(c)
    /\ ~state[s].childErr => \A c \in state[s].gotNoLease : ~GraphExists(c)

FirstAnswerIsTrue(s) ==
    state[s].stage = "firstDone" =>
        /\ state[s].result = "Complete" => GraphExists(state[s].reference)
        /\ state[s].result = "Missing" => state[s].reference \notin exists
        /\ state[s].result = "Incomplete" => state[s].reference \in exists

AwaitedAreKnown(s) ==
    /\ state[s].stage \in {"waiting", "secondQueued", "second"} =>
          /\ state[s].wanted # {}
          /\ \A c \in state[s].wanted :
                \/ c \in state[s].leases \cup state[s].gotNoLease
                \/ \E t \in States : Holds(t, s) /\ state[t].reference = c
    /\ state[s].stage \in {"waiting", "secondQueued", "second", "secondDone"} =>
          state[s].reference \in exists
    /\ state[s].stage \in {"pending", "popped", "first", "firstDone"} =>
          state[s].leases = {}
    /\ state[s].stage = "waiting" /\ state[s].originalIncompleteResult =>
          state[s].leases = {}

SecondAnswerIsTrue(s) ==
    state[s].stage = "secondDone" =>
        /\ state[s].result = "Complete" => GraphExists(state[s].reference)
        /\ state[s].result = "Incomplete" => state[s].wanted # {}

OutcomeIsTrue(s) ==
    state[s].stage = "finalizing" =>
        /\ state[s].outcome = "lease" => GraphExists(state[s].reference)
        /\ state[s].outcome = "noLease" => ~GraphExists(state[s].reference)

Truth ==
    /\ \A o \in leased : GraphExists(o)
    /\ \A s \in States : Live(s) =>
          /\ LeasesAreTrue(s)
          /\ FirstAnswerIsTrue(s)
          /\ AwaitedAreKnown(s)
          /\ SecondAnswerIsTrue(s)
          /\ OutcomeIsTrue(s)
    /\ ResultsReflectGraph

-----------------------------------------------------------------------------
NoFaults == errors = 0 /\ expirations = 0

(* An objectState is free of errors as long as nothing fails. *)
FreeOfErrors(s) ==
    /\ ~state[s].childErr
    /\ state[s].stage \in {"firstDone", "secondDone"} => state[s].result # "Error"
    /\ state[s].stage = "finalizing" => state[s].outcome # "error"
    /\ \/ state[s].stage = "firstDone" /\ state[s].result = "Incomplete"
       \/ state[s].stage \in {"waiting", "secondQueued", "second"}
       => Children[state[s].reference] \ leased \subseteq state[s].wanted
    /\ state[s].stage = "secondDone" =>
          /\ state[s].result # "Missing"
          /\ state[s].result = "Incomplete" => state[s].wanted \subseteq state[s].gotNoLease

Innocence ==
    /\ NoFaults => \A s \in States : Live(s) => FreeOfErrors(s)
    /\ NoSpuriousErrors

-----------------------------------------------------------------------------
(* The graph below an object exists if the object does, as well as the     *)
(* graphs below its children.                                              *)
LEMMA GraphOf ==
    ASSUME NEW o \in Objects
    PROVE  GraphExists(o) <=> o \in exists /\ \A c \in Children[o] : GraphExists(c)
  BY ReachableOf DEF GraphExists

-----------------------------------------------------------------------------
(* Types. *)
LEMMA LiveStates ==
    ASSUME TypeOK, NEW s \in States
    PROVE  /\ Live(s) => state[s] \in ObjectStates
           /\ Live(s) <=> state[s].stage # "none"
           /\ Live(s) <=> state[s].stage \in Stages
  BY DEF TypeOK, Live, NoState, ObjectStates, Stages

LEMMA Fields ==
    ASSUME TypeOK, NEW s \in States, Live(s)
    PROVE  /\ state[s].stage \in Stages /\ state[s].reference \in Objects
           /\ state[s].hasCallers \in SUBSET Callers
           /\ state[s].unfinalizedParents \in Seq(States)
           /\ state[s].result \in Results /\ state[s].wanted \in SUBSET Objects
           /\ state[s].originalIncompleteResult \in BOOLEAN
           /\ state[s].leases \in SUBSET Objects
           /\ state[s].gotNoLease \in SUBSET Objects
           /\ state[s].childErr \in BOOLEAN
           /\ state[s].unfinalizedChildrenCount \in Nat
           /\ state[s].outcome \in Outcomes
           /\ state[s].stack \in Seq(States)
           /\ state[s].waitsFor \in States \cup {None}
           /\ state[s].releasesChildren \in BOOLEAN
  BY LiveStates DEF ObjectStates

LEMMA NewStateType ==
    ASSUME NEW o \in Objects
    PROVE  NewState(o) \in ObjectStates
<1>1. <<>> \in Seq(States)
  BY EmptySeq
<1> QED BY <1>1 DEF NewState, ObjectStates, Stages, Results, Outcomes, None

LEMMA NoneIsNoState == None \notin States
  BY BoundsAssumption DEF None, States

LEMMA GetPendingObjectType ==
    ASSUME TypeOK, NEW s \in States, GetPendingObject(s)
    PROVE  TypeOK'
<1>1. Live(s) /\ state[s] \in ObjectStates
  BY LiveStates DEF GetPendingObject
<1>2. [state[s] EXCEPT !.stage = "popped"] \in ObjectStates
  BY <1>1 DEF ObjectStates, Stages
<1>3. remaining' \in [count : Nat, sizeBytes : Nat]
  <2> DEFINE q == ParentAndChildren(state[s].reference)
  <2>1. state[s].reference \in Objects /\ remaining \in [count : Nat, sizeBytes : Nat]
    BY <1>1 DEF TypeOK, ObjectStates
  <2>2. q.count \in Nat /\ q.sizeBytes \in Nat
    BY <2>1, ReferencesAssumption DEF ParentAndChildren
  <2>3. /\ remaining.count >= q.count /\ remaining.sizeBytes >= q.sizeBytes
        /\ remaining' = [count |-> remaining.count - q.count,
                         sizeBytes |-> remaining.sizeBytes - q.sizeBytes]
    BY DEF GetPendingObject, AcquireParentAndChildren, CanAcquireParentAndChildren
  <2> HIDE DEF q
  <2> QED BY <2>1, <2>2, <2>3
<1> QED BY <1>1, <1>2, <1>3 DEF GetPendingObject, TypeOK, backend, bounds

-----------------------------------------------------------------------------
(* Steps that leave the relations between objectStates alone, other than   *)
(* that they may create some.                                              *)
IsNew(t) ==
    /\ ~Live(t) /\ Live(t)'
    /\ state'[t].stage = "pending"
    /\ state'[t].unfinalizedParents = <<>>
    /\ state'[t].stack = <<>> /\ ~state'[t].releasesChildren

KeepsShape(t) ==
    /\ Live(t)' <=> Live(t) \/ IsNew(t)
    /\ Live(t) =>
          /\ state'[t].reference = state[t].reference
          /\ state'[t].unfinalizedParents = state[t].unfinalizedParents
          /\ state'[t].unfinalizedChildrenCount = state[t].unfinalizedChildrenCount
          /\ state'[t].stack = state[t].stack
          /\ state'[t].releasesChildren = state[t].releasesChildren
          /\ state'[t].stage = "waiting" <=> state[t].stage = "waiting"
          /\ state'[t].stage = "finalizing" <=> state[t].stage = "finalizing"

QuietStep == \A t \in States : KeepsShape(t)

LEMMA QuietReferences ==
    ASSUME TypeOK, ReferencesAreLive, QuietStep, UNCHANGED objectsByReference
    PROVE  ReferencesAreLive'
<1> SUFFICES ASSUME NEW o \in Objects, objectsByReference[o] # None
             PROVE  LET s == objectsByReference[o]
                    IN  Live(s)' /\ state'[s].reference = o /\ state'[s].stage # "finalizing"
  BY DEF ReferencesAreLive, QuietStep, Live
<1>1. objectsByReference[o] \in States
  BY DEF TypeOK
<1> QED BY <1>1 DEF ReferencesAreLive, QuietStep, KeepsShape

LEMMA QuietHolds ==
    ASSUME QuietStep, NEW t \in States, NEW p
    PROVE  Holds(t, p)' <=> Holds(t, p)
  BY NothingInEmpty DEF QuietStep, KeepsShape, Holds, IsNew

LEMMA QuietParents ==
    ASSUME TypeOK, ParentsWait, QuietStep
    PROVE  ParentsWait'
<1> SUFFICES ASSUME NEW t \in States, Live(t)'
             PROVE  /\ IsInjective(state'[t].unfinalizedParents)
                    /\ \A p \in States : Holds(t, p)' => state'[p].stage = "waiting"
  BY DEF ParentsWait
<1>1. IsInjective(state'[t].unfinalizedParents)
  BY NothingInEmpty DEF QuietStep, KeepsShape, IsNew, ParentsWait
<1>2. ASSUME NEW p \in States, Holds(t, p)'
      PROVE  state'[p].stage = "waiting"
  <2>1. state[p].stage = "waiting"
    BY <1>2, QuietHolds DEF ParentsWait, Holds
  <2>2. Live(p)
    BY <2>1, LiveStates
  <2> QED BY <2>1, <2>2 DEF QuietStep, KeepsShape
<1> QED BY <1>1, <1>2

(* WaitsForLiveChildren, in terms of Holders(). *)
WaitsFor(s) ==
    state[s].stage = "waiting" =>
        /\ state[s].unfinalizedChildrenCount > 0
        /\ state[s].unfinalizedChildrenCount = Cardinality(Holders(s))

LEMMA WaitsForHolders == WaitsForLiveChildren <=> \A s \in States : WaitsFor(s)
  BY DEF WaitsForLiveChildren, WaitsFor, Holders, Holds, Live

LEMMA WaitsForHoldersNext == WaitsForLiveChildren' <=> \A s \in States : WaitsFor(s)'
  BY DEF WaitsForLiveChildren, WaitsFor, Holders, Holds, Live

LEMMA QuietWaits ==
    ASSUME TypeOK, TypeOK', WaitsForLiveChildren, QuietStep
    PROVE  WaitsForLiveChildren'
<1> SUFFICES ASSUME NEW s \in States, state'[s].stage = "waiting"
             PROVE  /\ state'[s].unfinalizedChildrenCount > 0
                    /\ state'[s].unfinalizedChildrenCount = Cardinality(Holders(s)')
  BY WaitsForHoldersNext DEF WaitsFor
<1>1. Live(s)'
  BY DEF Live, NoState
<1>2. Live(s)
  BY <1>1 DEF QuietStep, KeepsShape, IsNew
<1>3. state[s].stage = "waiting"
  BY <1>2 DEF QuietStep, KeepsShape
<1>4. Holders(s)' = Holders(s)
  BY QuietHolds DEF Holders
<1>5. WaitsFor(s)
  BY WaitsForHolders
<1> QED BY <1>2, <1>3, <1>4, <1>5 DEF WaitsFor, QuietStep, KeepsShape

KeepsStack(t) ==
    /\ Live(t) =>
          /\ Live(t)'
          /\ state'[t].stack = state[t].stack
          /\ state'[t].releasesChildren = state[t].releasesChildren
          /\ state'[t].stage = "finalizing" <=> state[t].stage = "finalizing"
    /\ ~Live(t) /\ Live(t)' =>
          state'[t].stack = <<>> /\ ~state'[t].releasesChildren

LEMMA QuietKeepsStacks ==
    ASSUME QuietStep
    PROVE  \A t \in States : KeepsStack(t)
  BY DEF QuietStep, KeepsShape, KeepsStack, IsNew

LEMMA KeptStacks ==
    ASSUME TypeOK, Stacks, \A t \in States : KeepsStack(t), lock' = lock \/ lock' = None
    PROVE  Stacks'
<1>1. \A g, t \in States : OnStack(t, g)' <=> OnStack(t, g)
  BY NothingInEmpty DEF OnStack, KeepsStack
<1>2. ASSUME NEW g \in States, Live(g)', state'[g].stack # <<>>
      PROVE  IsStack(g)'
  <2>1. Live(g) /\ state'[g].stack = state[g].stack /\ IsStack(g)
    BY <1>2 DEF KeepsStack, Stacks
  <2>2. ToSet(state[g].stack) \subseteq States
    BY <2>1, Fields, ElementOfSeq, LenProperties DEF ToSet
  <2>3. ASSUME NEW t \in ToSet(state[g].stack), t # g
        PROVE  /\ state'[t].stage = "finalizing"
               /\ state'[t].stack = <<>> /\ ~state'[t].releasesChildren
    <3>1. t \in States /\ state[t].stage = "finalizing"
      BY <2>1, <2>2, <2>3 DEF IsStack
    <3>2. Live(t)
      BY <3>1, LiveStates
    <3> QED BY <2>1, <2>3, <3>1, <3>2 DEF IsStack, KeepsStack
  <2> QED BY <2>1, <2>3 DEF IsStack, KeepsStack
<1>3. ASSUME NEW s \in States, Live(s)', state'[s].stage # "finalizing"
      PROVE  state'[s].stack = <<>> /\ ~state'[s].releasesChildren
  BY <1>3 DEF KeepsStack, Stacks
<1>4. ASSUME lock' # None PROVE Live(lock)' /\ state'[lock'].stack # <<>>
  BY <1>4 DEF TypeOK, KeepsStack, Stacks
<1>5. \A g, h, t \in States : OnStack(t, g)' /\ OnStack(t, h)' => g = h
  BY <1>1 DEF Stacks
<1> QED BY <1>2, <1>3, <1>4, <1>5 DEF Stacks

LEMMA QuietStacks ==
    ASSUME TypeOK, Stacks, QuietStep, lock' = lock
    PROVE  Stacks'
  BY QuietKeepsStacks, KeptStacks

-----------------------------------------------------------------------------
(* Types, wanted children and shapes are kept by actions that are quiet.   *)
LEMMA GetPendingObjectQuiet ==
    ASSUME TypeOK, WantedAreChildren, NEW s \in States, GetPendingObject(s)
    PROVE  QuietStep /\ WantedAreChildren' /\ UNCHANGED <<objectsByReference, lock>>
<1>1. Live(s) /\ state[s] \in ObjectStates
  BY LiveStates DEF GetPendingObject
<1>2. state' = [state EXCEPT ![s] = [state[s] EXCEPT !.stage = "popped"]]
  BY DEF GetPendingObject, TypeOK
<1>3. \A t \in States : KeepsShape(t)
  BY <1>1, <1>2 DEF GetPendingObject, TypeOK, KeepsShape, IsNew, Live, NoState, ObjectStates
<1>4. WantedAreChildren'
  BY <1>1, <1>2 DEF WantedAreChildren, TypeOK, Live, ObjectStates
<1> QED BY <1>3, <1>4 DEF GetPendingObject, QuietStep

LEMMA ProcessSingleObjectQuiet ==
    ASSUME TypeOK, WantedAreChildren, NEW s \in States, ProcessSingleObject(s)
    PROVE  /\ TypeOK' /\ QuietStep /\ WantedAreChildren'
           /\ UNCHANGED <<objectsByReference, lock>>
<1>1. Live(s) /\ state[s] \in ObjectStates
  BY LiveStates DEF ProcessSingleObject
<1> DEFINE b == [state[s] EXCEPT !.stage = "first"]
<1>2. state' = [state EXCEPT ![s] = b] /\ b \in ObjectStates
  BY <1>1 DEF ProcessSingleObject, TypeOK, ObjectStates, Stages
<1>3. TypeOK'
  BY <1>2 DEF TypeOK, ProcessSingleObject, backend, bounds
<1>4. \A t \in States : KeepsShape(t)
  BY <1>1, <1>2 DEF ProcessSingleObject, TypeOK, KeepsShape, IsNew, Live, NoState, ObjectStates
<1>5. WantedAreChildren'
  BY <1>1, <1>2 DEF WantedAreChildren, TypeOK, Live, ObjectStates
<1> QED BY <1>3, <1>4, <1>5 DEF ProcessSingleObject, QuietStep

LEMMA BaseUploadQuiet ==
    ASSUME TypeOK, WantedAreChildren, NEW s \in States,
           NEW stage \in {"firstDone", "secondDone"}, NEW accepted \in SUBSET Objects,
           state[s].stage \in {"first", "second"}, BaseUpload(s, accepted, stage)
    PROVE  /\ state' \in [States -> {NoState} \cup ObjectStates]
           /\ leased' \in SUBSET Objects
           /\ \A t \in States : KeepsShape(t)
           /\ WantedAreChildren'
<1>1. Live(s) /\ state[s] \in ObjectStates
  BY LiveStates
<1> DEFINE o == state[s].reference
           wanted == Children[o] \ (leased \cup accepted)
           result == IF o \notin exists THEN "Missing"
                     ELSE IF wanted = {} THEN "Complete" ELSE "Incomplete"
           w == IF result = "Incomplete" THEN wanted ELSE {}
           b == [state[s] EXCEPT !.stage = stage, !.result = result, !.wanted = w]
<1>2. state' = [state EXCEPT ![s] = b]
  BY <1>1 DEF BaseUpload, TypeOK
<1>3. /\ w \subseteq Children[o] /\ result \in Results
      /\ result = "Incomplete" => w # {}
  BY DEF Results
<1>4. w \in SUBSET Objects
  BY <1>1, <1>3, Fields, ReferencesAssumption
<1> HIDE DEF w, result
<1>5. /\ b \in ObjectStates
      /\ b.stage = stage /\ b.result = result /\ b.wanted = w
      /\ b.reference = state[s].reference
      /\ b.unfinalizedParents = state[s].unfinalizedParents
      /\ b.unfinalizedChildrenCount = state[s].unfinalizedChildrenCount
      /\ b.stack = state[s].stack /\ b.releasesChildren = state[s].releasesChildren
  BY <1>1, <1>3, <1>4 DEF ObjectStates, Stages
<1> HIDE DEF b
<1>6. state' \in [States -> {NoState} \cup ObjectStates]
  BY <1>2, <1>5 DEF TypeOK
<1>7. leased' \in SUBSET Objects
  BY DEF TypeOK, BaseUpload
<1>8. \A t \in States : KeepsShape(t)
  BY <1>1, <1>2, <1>5 DEF TypeOK, KeepsShape, IsNew, Live, NoState, ObjectStates, Stages
<1>9. WantedAreChildren'
  BY <1>1, <1>2, <1>3, <1>5 DEF WantedAreChildren, TypeOK, Live
<1> QED BY <1>6, <1>7, <1>8, <1>9

LEMMA FirstUploadQuiet ==
    ASSUME TypeOK, WantedAreChildren, NEW s \in States, FirstUpload(s)
    PROVE  /\ TypeOK' /\ QuietStep /\ WantedAreChildren'
           /\ UNCHANGED <<objectsByReference, lock>>
<1>1. /\ state' \in [States -> {NoState} \cup ObjectStates]
      /\ leased' \in SUBSET Objects
      /\ \A t \in States : KeepsShape(t)
      /\ WantedAreChildren'
  BY BaseUploadQuiet DEF FirstUpload
<1> QED BY <1>1 DEF FirstUpload, BaseUpload, TypeOK, QuietStep, bounds

LEMMA SecondUploadQuiet ==
    ASSUME TypeOK, WantedAreChildren, NEW s \in States, SecondUpload(s)
    PROVE  /\ TypeOK' /\ QuietStep /\ WantedAreChildren'
           /\ UNCHANGED <<objectsByReference, lock>>
<1>1. Live(s) /\ state[s].leases \in SUBSET Objects
  BY LiveStates, Fields DEF SecondUpload
<1>2. PICK accepted \in SUBSET Objects : BaseUpload(s, accepted, "secondDone")
  BY <1>1 DEF SecondUpload
<1>3. /\ state' \in [States -> {NoState} \cup ObjectStates]
      /\ leased' \in SUBSET Objects
      /\ \A t \in States : KeepsShape(t)
      /\ WantedAreChildren'
  BY <1>2, BaseUploadQuiet DEF SecondUpload
<1>4. calls' \in Nat /\ errors' \in Nat /\ expirations' \in Nat
  BY DEF SecondUpload, TypeOK, bounds
<1> QED BY <1>2, <1>3, <1>4 DEF BaseUpload, TypeOK, QuietStep

LEMMA UploadFailsQuiet ==
    ASSUME TypeOK, WantedAreChildren, NEW s \in States, UploadFails(s)
    PROVE  /\ TypeOK' /\ QuietStep /\ WantedAreChildren'
           /\ UNCHANGED <<objectsByReference, lock>>
<1>1. Live(s) /\ state[s] \in ObjectStates
  BY LiveStates DEF UploadFails
<1>2. PICK result \in {"Error", "Missing"}, stage \in {"firstDone", "secondDone"} :
        state' = [state EXCEPT ![s] =
            [state[s] EXCEPT !.stage = stage, !.result = result, !.wanted = {}]]
  BY <1>1, ZenonT(60) DEF UploadFails, TypeOK
<1> DEFINE b == [state[s] EXCEPT !.stage = stage, !.result = result, !.wanted = {}]
<1>3. /\ b \in ObjectStates
      /\ b.stage = stage /\ b.result = result /\ b.wanted = {}
      /\ b.reference = state[s].reference
      /\ b.unfinalizedParents = state[s].unfinalizedParents
      /\ b.unfinalizedChildrenCount = state[s].unfinalizedChildrenCount
      /\ b.stack = state[s].stack /\ b.releasesChildren = state[s].releasesChildren
  BY <1>1 DEF ObjectStates, Stages, Results
<1>4. state' = [state EXCEPT ![s] = b]
  BY <1>2
<1> HIDE DEF b
<1>a. /\ state[s].stage \in {"first", "second"} /\ errors' = errors + 1
      /\ UNCHANGED <<objectsByReference, remaining, lock, caller, exists, leased,
                     calls, expirations>>
  BY DEF UploadFails, backend
<1>5. TypeOK'
  BY <1>3, <1>4, <1>a DEF TypeOK
<1>6. \A t \in States : KeepsShape(t)
  BY <1>1, <1>3, <1>4, <1>a DEF TypeOK, KeepsShape, IsNew, Live, NoState, ObjectStates, Stages
<1>7. WantedAreChildren'
  BY <1>1, <1>3, <1>4 DEF WantedAreChildren, TypeOK, Live
<1> QED BY <1>5, <1>6, <1>7 DEF UploadFails, QuietStep

LEMMA ExpireQuiet ==
    ASSUME TypeOK, WantedAreChildren, NEW c \in Objects, Expire(c)
    PROVE  /\ TypeOK' /\ QuietStep /\ WantedAreChildren'
           /\ UNCHANGED <<objectsByReference, lock>>
<1>1. UNCHANGED <<state, objectsByReference, lock>>
  BY DEF Expire
<1>2. TypeOK'
  BY DEF TypeOK, Expire
<1>3. QuietStep
  BY <1>1 DEF QuietStep, KeepsShape, IsNew, Live
<1> QED BY <1>1, <1>2, <1>3 DEF WantedAreChildren, Live

LEMMA StartSecondUploadQuiet ==
    ASSUME TypeOK, WantedAreChildren, NEW g \in States, StartSecondUpload(g)
    PROVE  /\ TypeOK' /\ QuietStep /\ WantedAreChildren'
           /\ UNCHANGED <<objectsByReference, lock>>
<1>1. Live(g) /\ state[g] \in ObjectStates
  BY LiveStates DEF StartSecondUpload
<1>2. PICK p \in States : p = state[g].waitsFor
  BY <1>1, Fields DEF StartSecondUpload
<1>3. Live(p) /\ state[p] \in ObjectStates /\ p # g
  BY <1>2, LiveStates DEF StartSecondUpload
<1> DEFINE b == [state[p] EXCEPT !.stage = "second"]
           d == [state[g] EXCEPT !.waitsFor = None]
<1>4. state' = [state EXCEPT ![p] = b, ![g] = d]
  BY <1>2, <1>3 DEF StartSecondUpload, TypeOK
<1>5. b \in ObjectStates /\ d \in ObjectStates
  BY <1>1, <1>3 DEF ObjectStates, Stages
<1>6. TypeOK'
  BY <1>2, <1>4, <1>5 DEF TypeOK, StartSecondUpload, backend, bounds
<1>a. /\ state' \in [States -> {NoState} \cup ObjectStates]
      /\ state'[p] = b /\ state'[g] = d
      /\ \A t \in States \ {p, g} : state'[t] = state[t]
  BY <1>2, <1>3, <1>4, <1>6 DEF TypeOK
<1>b. state[p].stage = "secondQueued" /\ state[g].stage = "finalizing"
  BY <1>2 DEF StartSecondUpload
<1>7. KeepsShape(p) /\ KeepsShape(g)
  <2>1. /\ b.stage = "second" /\ b.reference = state[p].reference
        /\ b.unfinalizedParents = state[p].unfinalizedParents
        /\ b.unfinalizedChildrenCount = state[p].unfinalizedChildrenCount
        /\ b.stack = state[p].stack /\ b.releasesChildren = state[p].releasesChildren
    BY <1>3 DEF ObjectStates
  <2>2. /\ d.stage = "finalizing" /\ d.reference = state[g].reference
        /\ d.unfinalizedParents = state[g].unfinalizedParents
        /\ d.unfinalizedChildrenCount = state[g].unfinalizedChildrenCount
        /\ d.stack = state[g].stack /\ d.releasesChildren = state[g].releasesChildren
    BY <1>1, <1>b DEF ObjectStates
  <2> HIDE DEF b, d
  <2>3. state'[p] # NoState /\ state'[g] # NoState
    BY <1>a, <2>1, <2>2 DEF NoState
  <2>4. KeepsShape(p)
    BY <1>3, <1>a, <1>b, <2>1, <2>3 DEF KeepsShape, Live
  <2>5. KeepsShape(g)
    BY <1>1, <1>a, <1>b, <2>2, <2>3 DEF KeepsShape, Live
  <2> QED BY <2>4, <2>5
<1>8. \A t \in States \ {p, g} : KeepsShape(t)
  BY <1>a DEF KeepsShape, IsNew, Live
<1>9. WantedAreChildren'
  <2>1. /\ b.wanted = state[p].wanted /\ b.reference = state[p].reference /\ b.stage = "second"
        /\ d.wanted = state[g].wanted /\ d.reference = state[g].reference
        /\ d.stage = "finalizing"
    BY <1>1, <1>3, <1>b DEF ObjectStates
  <2> HIDE DEF b, d
  <2> QED BY <1>1, <1>2, <1>3, <1>a, <2>1 DEF WantedAreChildren, Live
<1> QED BY <1>6, <1>7, <1>8, <1>9 DEF QuietStep, StartSecondUpload

LEMMA RelockStructure ==
    ASSUME Structure, NEW g \in States, Relock(g)
    PROVE  Structure'
<1>1. TypeOK'
  BY DEF Structure, TypeOK, Relock, backend, bounds
<1>2. UNCHANGED <<state, objectsByReference>> /\ lock' = g
  BY DEF Relock
<1>3. Live(g) /\ state[g].stack # <<>>
  BY LiveStates DEF Structure, Relock
<1>4. Stacks'
  BY <1>2, <1>3 DEF Structure, Stacks, IsStack, OnStack, Live
<1> QED BY <1>1, <1>2, <1>4 DEF Structure, ReferencesAreLive, ParentsWait, Holds,
           WaitsForLiveChildren, WantedAreChildren, Live

LEMMA QuietStructure ==
    ASSUME Structure, QuietStep, TypeOK', WantedAreChildren',
           UNCHANGED <<objectsByReference, lock>>
    PROVE  Structure'
  BY QuietReferences, QuietParents, QuietWaits, QuietStacks DEF Structure

-----------------------------------------------------------------------------
(* The creation of objectStates. *)
LEMMA CreatedReferences ==
    ASSUME TypeOK, ReferencesAreLive,
           NEW references \in SUBSET Objects, Addresses(references) # {}
    PROVE  LET by == Created(references)
           IN  /\ by \in [Objects -> States \cup {None}]
               /\ \A o \in references : by[o] \in States
               /\ \A o \in Objects :
                     \/ by[o] = objectsByReference[o]
                     \/ by[o] \in States /\ ~Live(by[o]) /\ o \in references
               /\ \A o, p \in Objects : by[o] = by[p] /\ by[o] # None => o = p
<1> DEFINE missing == {o \in references : objectsByReference[o] = None}
           f == CHOOSE x \in Addresses(references) : TRUE
           by == Created(references)
<1>1. f \in [missing -> Unused] /\ IsInjective(f)
  BY DEF Addresses
<1>2. by = [o \in Objects |-> IF o \in missing THEN f[o] ELSE objectsByReference[o]]
  <2>1. DOMAIN f = missing
    BY <1>1
  <2>2. by = [o \in Objects |-> IF o \in DOMAIN f THEN f[o] ELSE objectsByReference[o]]
    BY DEF Created
  <2> HIDE DEF missing, f, by
  <2> QED BY <2>1, <2>2
<1>3. \A o \in missing : f[o] \in States /\ ~Live(f[o])
  BY <1>1 DEF Unused, Live
<1> HIDE DEF f, by
<1>4. by \in [Objects -> States \cup {None}]
  BY <1>2, <1>3 DEF TypeOK
<1>5. \A o \in references : by[o] \in States
  BY <1>2, <1>3 DEF TypeOK
<1>6. \A o \in Objects : \/ by[o] = objectsByReference[o]
                         \/ by[o] \in States /\ ~Live(by[o]) /\ o \in references
  BY <1>2, <1>3
<1>7. ASSUME NEW o \in Objects, NEW p \in Objects, by[o] = by[p], by[o] # None
      PROVE  o = p
  <2>1. CASE o \in missing /\ p \in missing
    BY <1>1, <1>2, <1>7, <2>1 DEF IsInjective
  <2>2. CASE o \notin missing /\ p \notin missing
    BY <1>2, <1>7, <2>2 DEF ReferencesAreLive
  <2>3. CASE o \in missing /\ p \notin missing
    BY <1>2, <1>3, <1>7, <2>3 DEF ReferencesAreLive
  <2>4. CASE o \notin missing /\ p \in missing
    BY <1>2, <1>3, <1>7, <2>4 DEF ReferencesAreLive
  <2> QED BY <2>1, <2>2, <2>3, <2>4
<1> QED BY <1>4, <1>5, <1>6, <1>7 DEF by

LEMMA StateAtCreated ==
    ASSUME TypeOK, ReferencesAreLive,
           NEW references \in SUBSET Objects, Addresses(references) # {},
           NEW o \in references, NEW s \in States, s = Created(references)[o]
    PROVE  /\ StateAt(s, Created(references)) \in ObjectStates
           /\ StateAt(s, Created(references)).reference = o
           /\ Live(s) =>
                 /\ StateAt(s, Created(references)) = state[s]
                 /\ state[s].stage # "finalizing"
           /\ ~Live(s) => StateAt(s, Created(references)) = NewState(o)
<1> DEFINE by == Created(references)
<1>1. /\ \/ by[o] = objectsByReference[o]
         \/ by[o] \in States /\ ~Live(by[o]) /\ o \in references
      /\ \A p \in Objects : by[o] = by[p] /\ by[o] # None => o = p
  BY CreatedReferences
<1> HIDE DEF by
<1>2. CASE Live(s)
  <2>1. s = objectsByReference[o]
    BY <1>1, <1>2 DEF by
  <2>2. state[s].reference = o /\ state[s].stage # "finalizing"
    BY <2>1, NoneIsNoState DEF ReferencesAreLive
  <2>3. StateAt(s, by) = state[s]
    BY <1>2 DEF StateAt, Live
  <2> QED BY <1>2, <2>2, <2>3, LiveStates DEF by
<1>3. CASE ~Live(s)
  <2>1. \A p \in Objects : by[p] = s => p = o
    BY <1>1, NoneIsNoState DEF by
  <2>2. (CHOOSE p \in Objects : by[p] = s) = o
    BY <2>1 DEF by
  <2>3. StateAt(s, by) = NewState(o)
    BY <1>3, <2>2 DEF StateAt, Live
  <2>4. NewState(o).reference = o
    BY DEF NewState
  <2> QED BY <1>3, <2>3, <2>4, NewStateType DEF by
<1> QED BY <1>2, <1>3

(* What an accepted call of UploadObject() does. *)
LEMMA UploadObjectAccepted ==
    ASSUME TypeOK, ReferencesAreLive, NEW c \in Callers, NEW o \in Objects,
           UploadObject(c, o), CanAcquireParentAndChildren(Maximum, o)
    PROVE  \E s \in States, b \in ObjectStates :
              /\ Addresses({o}) # {} /\ s = Created({o})[o]
              /\ objectsByReference' = Created({o})
              /\ b = [StateAt(s, Created({o})) EXCEPT !.hasCallers = @ \cup {c}]
              /\ state' = [state EXCEPT ![s] = b]
              /\ caller' = [caller EXCEPT ![c] = [stage |-> "waiting", reference |-> o]]
<1>1. Addresses({o}) # {}
  BY DEF UploadObject
<1>2. PICK s \in States : s = Created({o})[o]
  BY <1>1, CreatedReferences
<1>3. StateAt(s, Created({o})) \in ObjectStates
  BY <1>1, <1>2, StateAtCreated
<1>4. [StateAt(s, Created({o})) EXCEPT !.hasCallers = @ \cup {c}] \in ObjectStates
  BY <1>3 DEF ObjectStates
<1>5. /\ objectsByReference' = Created({o})
      /\ state' = [state EXCEPT ![s] =
            [StateAt(s, Created({o})) EXCEPT !.hasCallers = @ \cup {c}]]
      /\ caller' = [caller EXCEPT ![c] = [stage |-> "waiting", reference |-> o]]
  BY <1>2 DEF UploadObject
<1> QED BY <1>1, <1>2, <1>4, <1>5

LEMMA UploadObjectStructure ==
    ASSUME Structure, NEW c \in Callers, NEW o \in Objects, UploadObject(c, o)
    PROVE  Structure'
<1>1. CASE ~CanAcquireParentAndChildren(Maximum, o)
  <2>1. UNCHANGED <<state, objectsByReference, lock>>
    BY <1>1 DEF UploadObject
  <2>2. caller' \in [Callers -> CallStates]
    BY <1>1 DEF UploadObject, Structure, TypeOK, CallStates, Results
  <2>3. TypeOK'
    BY <2>1, <2>2 DEF UploadObject, Structure, TypeOK, backend
  <2>4. QuietStep
    BY <2>1 DEF QuietStep, KeepsShape, IsNew, Live
  <2> QED BY <2>1, <2>3, <2>4, QuietStructure DEF Structure, WantedAreChildren, Live
<1>2. CASE CanAcquireParentAndChildren(Maximum, o)
  <2>1. PICK s \in States, b \in ObjectStates :
              /\ Addresses({o}) # {} /\ s = Created({o})[o]
              /\ objectsByReference' = Created({o})
              /\ b = [StateAt(s, Created({o})) EXCEPT !.hasCallers = @ \cup {c}]
              /\ state' = [state EXCEPT ![s] = b]
              /\ caller' = [caller EXCEPT ![c] = [stage |-> "waiting", reference |-> o]]
    BY <1>2, UploadObjectAccepted DEF Structure
  <2> DEFINE by == Created({o})
             a == StateAt(s, by)
  <2>2. /\ a \in ObjectStates /\ a.reference = o
        /\ Live(s) => a = state[s] /\ state[s].stage # "finalizing"
        /\ ~Live(s) => a = NewState(o)
    <3>1. {o} \in SUBSET Objects /\ o \in {o} /\ TypeOK /\ ReferencesAreLive
      BY DEF Structure
    <3>2. PICK r : r = {o}
      OBVIOUS
    <3>3. r \in SUBSET Objects /\ o \in r /\ Addresses(r) # {} /\ s = Created(r)[o]
      BY <2>1, <3>1, <3>2
    <3>4. /\ StateAt(s, Created(r)) \in ObjectStates
          /\ StateAt(s, Created(r)).reference = o
          /\ Live(s) => StateAt(s, Created(r)) = state[s] /\ state[s].stage # "finalizing"
          /\ ~Live(s) => StateAt(s, Created(r)) = NewState(o)
      BY <3>1, <3>3, StateAtCreated
    <3> QED BY <3>2, <3>4
  <2>3. /\ by \in [Objects -> States \cup {None}]
        /\ by[o] \in States
        /\ \A p \in Objects : \/ by[p] = objectsByReference[p]
                              \/ by[p] \in States /\ ~Live(by[p]) /\ p \in {o}
    <3>1. {o} \in SUBSET Objects /\ Addresses({o}) # {} /\ TypeOK /\ ReferencesAreLive
      BY <2>1 DEF Structure
    <3> HIDE DEF by
    <3> QED BY <3>1, CreatedReferences DEF by
  <2> HIDE DEF a, by
  <2>4. /\ b.stage = a.stage /\ b.reference = o
        /\ b.unfinalizedParents = a.unfinalizedParents
        /\ b.unfinalizedChildrenCount = a.unfinalizedChildrenCount
        /\ b.stack = a.stack /\ b.releasesChildren = a.releasesChildren
        /\ b.result = a.result /\ b.wanted = a.wanted
    BY <2>1, <2>2 DEF ObjectStates, a, by
  <2>5. caller' \in [Callers -> CallStates]
    BY <2>1 DEF Structure, TypeOK, CallStates
  <2>6. TypeOK'
    <3>1. /\ calls' = calls + 1
          /\ UNCHANGED <<remaining, lock, exists, leased, errors, expirations>>
      BY DEF UploadObject, backend
    <3>2. state' \in [States -> {NoState} \cup ObjectStates]
      BY <2>1 DEF Structure, TypeOK
    <3>3. objectsByReference' \in [Objects -> States \cup {None}]
      BY <2>1, <2>3 DEF by
    <3>4. TypeOK
      BY DEF Structure
    <3> QED BY <2>5, <3>1, <3>2, <3>3, <3>4 DEF TypeOK
  <2>7. /\ state'[s] = b /\ b # NoState
        /\ \A t \in States \ {s} : state'[t] = state[t]
    BY <2>1 DEF Structure, TypeOK, ObjectStates, NoState, Stages
  <2>8. KeepsShape(s)
    <3>1. CASE Live(s)
      BY <2>2, <2>4, <2>7, <3>1 DEF KeepsShape, IsNew, Live
    <3>2. CASE ~Live(s)
      BY <2>2, <2>4, <2>7, <3>2 DEF KeepsShape, IsNew, Live, NewState
    <3> QED BY <3>1, <3>2
  <2>9. QuietStep
    BY <2>7, <2>8 DEF QuietStep, KeepsShape, IsNew, Live
  <2>10. WantedAreChildren'
    <3>1. CASE Live(s)
      BY <2>2, <2>4, <2>7, <3>1 DEF WantedAreChildren, Live, Structure
    <3>2. CASE ~Live(s)
      BY <2>2, <2>4, <2>7, <3>2 DEF WantedAreChildren, Live, NewState, Structure
    <3> QED BY <3>1, <3>2
  <2>11. ReferencesAreLive'
    <3> SUFFICES ASSUME NEW p \in Objects, by[p] # None
                 PROVE  /\ state'[by[p]] # NoState
                        /\ state'[by[p]].reference = p
                        /\ state'[by[p]].stage # "finalizing"
      BY <2>1 DEF ReferencesAreLive, Live, by
    <3>1. CASE by[p] = s
      <4>1. p = o
        BY <2>1, <3>1, CreatedReferences, NoneIsNoState DEF Structure, by
      <4>2. a.stage # "finalizing"
        BY <2>2 DEF NewState
      <4> QED BY <2>4, <2>7, <3>1, <4>1, <4>2
    <3>2. CASE by[p] # s
      <4>1. by[p] = objectsByReference[p] /\ by[p] \in States
        BY <2>1, <2>3, <3>2 DEF by
      <4> QED BY <2>7, <3>2, <4>1 DEF Structure, ReferencesAreLive, Live
    <3> QED BY <3>1, <3>2
  <2>12. lock' = lock
    BY DEF UploadObject
  <2> QED BY <2>6, <2>9, <2>10, <2>11, <2>12, QuietParents, QuietWaits, QuietStacks DEF Structure
<1> QED BY <1>1, <1>2

-----------------------------------------------------------------------------
(* A goroutine that starts to finalize its object. *)
LEMMA OnStackIsFinalizing ==
    ASSUME TypeOK, Stacks, NEW g \in States, NEW t, OnStack(t, g)
    PROVE  /\ t \in States /\ Live(t) /\ state[t].stage = "finalizing"
           /\ state[g].stack # <<>> /\ IsStack(g)
<1>1. Live(g) /\ state[g].stack \in Seq(States) /\ t \in ToSet(state[g].stack)
  BY Fields DEF OnStack
<1>2. t \in States /\ state[g].stack # <<>>
  BY <1>1, ElementOfSeq, LenProperties, NothingInEmpty DEF ToSet
<1>3. IsStack(g)
  BY <1>1, <1>2 DEF Stacks
<1>4. state[t].stage = "finalizing"
  BY <1>1, <1>3 DEF IsStack
<1> QED BY <1>2, <1>3, <1>4, LiveStates

LEMMA DetachReferences ==
    ASSUME TypeOK, ReferencesAreLive, NEW detached, Detach(detached)
    PROVE  /\ objectsByReference' \in [Objects -> States \cup {None}]
           /\ \A o \in Objects : objectsByReference'[o] # None =>
                 /\ objectsByReference'[o] = objectsByReference[o]
                 /\ objectsByReference'[o] \in States
                 /\ objectsByReference'[o] \notin detached
  BY DEF TypeOK, Detach

LEMMA UnblockType ==
    ASSUME TypeOK, NEW s \in States, Live(s), NEW result \in Results,
           NEW wanted \in SUBSET Objects, Unblock(s, result, wanted)
    PROVE  caller' \in [Callers -> CallStates]
<1>1. state[s].reference \in Objects
  BY Fields
<1>2. [stage |-> "answered", reference |-> state[s].reference,
       result |-> result, wanted |-> wanted] \in CallStates
  BY <1>1 DEF CallStates
<1> QED BY <1>2 DEF Unblock, TypeOK

LEMMA OutcomeType ==
    ASSUME NEW result \in Results
    PROVE  OutcomeOf(result) \in Outcomes
  BY DEF OutcomeOf, Outcomes, Results

LEMMA FinalizeStructure ==
    ASSUME Structure, NEW s \in States, state[s].stage \in {"firstDone", "secondDone"},
           NEW result \in Results, NEW wanted \in SUBSET Objects, NEW first \in BOOLEAN,
           Finalize(s, result, wanted, first)
    PROVE  Structure'
<1>1. TypeOK /\ Live(s) /\ state[s] \in ObjectStates
  BY LiveStates DEF Structure
<1> DEFINE b == [state[s] EXCEPT !.stage = "finalizing", !.outcome = OutcomeOf(result),
                                 !.stack = <<s>>, !.releasesChildren = first]
<1>2. state' = [state EXCEPT ![s] = b]
  BY <1>1 DEF Finalize, TypeOK
<1>3. <<s>> \in Seq(States)
  OBVIOUS
<1>4. /\ b \in ObjectStates
      /\ b.stage = "finalizing" /\ b.stack = <<s>> /\ b.releasesChildren = first
      /\ b.reference = state[s].reference /\ b.wanted = state[s].wanted
      /\ b.unfinalizedParents = state[s].unfinalizedParents
  BY <1>1, <1>3, OutcomeType DEF ObjectStates, Stages
<1> HIDE DEF b
<1>5. /\ state'[s] = b /\ b # NoState /\ \A t \in States \ {s} : state'[t] = state[t]
      /\ state' \in [States -> {NoState} \cup ObjectStates]
  BY <1>1, <1>2, <1>4 DEF TypeOK, NoState
<1>6. /\ objectsByReference' \in [Objects -> States \cup {None}]
      /\ \A o \in Objects : objectsByReference'[o] # None =>
            /\ objectsByReference'[o] = objectsByReference[o]
            /\ objectsByReference'[o] \in States
            /\ objectsByReference'[o] \notin {s}
  BY DetachReferences DEF Finalize, Structure
<1>7. /\ lock' = s /\ UNCHANGED <<remaining, exists, leased, calls, errors, expirations>>
      /\ caller' \in [Callers -> CallStates]
  BY <1>1, UnblockType DEF Finalize, backend, bounds
<1>8. TypeOK'
  BY <1>1, <1>5, <1>6, <1>7 DEF TypeOK
<1>9. ReferencesAreLive'
  BY <1>5, <1>6 DEF Structure, ReferencesAreLive, Live
<1>10. \A t \in States : \A p : Holds(t, p)' <=> Holds(t, p)
  BY <1>1, <1>4, <1>5 DEF Holds, Live
<1>11. ParentsWait'
  <2>1. ASSUME NEW t \in States, Live(t)'
        PROVE  IsInjective(state'[t].unfinalizedParents)
    BY <1>1, <1>4, <1>5, <2>1 DEF Structure, ParentsWait, Live
  <2>2. ASSUME NEW t \in States, NEW p \in States, Holds(t, p)'
        PROVE  state'[p].stage = "waiting"
    <3>1. state[p].stage = "waiting"
      BY <1>10, <2>2 DEF Structure, ParentsWait, Holds
    <3> QED BY <1>5, <3>1
  <2> QED BY <2>1, <2>2 DEF ParentsWait
<1>12. WaitsForLiveChildren'
  <2>1. ASSUME NEW t \in States, state'[t].stage = "waiting"
        PROVE  state'[t] = state[t]
    BY <1>4, <1>5, <2>1
  <2>2. \A t \in States : Holders(t)' = Holders(t)
    BY <1>10 DEF Holders
  <2>3. \A t \in States : WaitsFor(t)
    BY WaitsForHolders DEF Structure
  <2> QED BY <2>1, <2>2, <2>3, WaitsForHoldersNext DEF WaitsFor
<1>13. WantedAreChildren'
  BY <1>1, <1>4, <1>5 DEF Structure, WantedAreChildren, Live
<1>14. Stacks'
  <2>1. \A g \in States : ~OnStack(s, g)
    BY OnStackIsFinalizing DEF Structure
  <2>2. ToSet(<<s>>) = {s} /\ IsInjective(<<s>>)
    BY DEF ToSet, IsInjective
  <2>3. \A t \in States : OnStack(t, s)' <=> t = s
    BY <1>4, <1>5, <2>2 DEF OnStack, Live
  <2>4. \A g \in States \ {s} : \A t \in States : OnStack(t, g)' <=> OnStack(t, g)
    BY <1>5 DEF OnStack, Live
  <2>5. IsStack(s)'
    BY <1>4, <1>5, <2>2 DEF IsStack
  <2>6. ASSUME NEW g \in States \ {s}, Live(g)', state'[g].stack # <<>>
        PROVE  IsStack(g)'
    <3>1. Live(g) /\ state'[g] = state[g] /\ IsStack(g)
      BY <1>5, <2>6 DEF Live, Structure, Stacks
    <3>2. \A t \in ToSet(state[g].stack) : t \in States /\ t # s
      BY <2>1, <3>1, OnStackIsFinalizing DEF OnStack, Structure
    <3> QED BY <1>5, <3>1, <3>2 DEF IsStack
  <2>7. \A g, h, t \in States : OnStack(t, g)' /\ OnStack(t, h)' => g = h
    BY <2>1, <2>3, <2>4 DEF Structure, Stacks
  <2>8. \A t \in States : Live(t)' /\ state'[t].stage # "finalizing" =>
           state'[t].stack = <<>> /\ ~state'[t].releasesChildren
    BY <1>4, <1>5 DEF Structure, Stacks, Live
  <2>9. Live(lock)' /\ state'[lock'].stack # <<>>
    <3>1. <<s>> # <<>>
      OBVIOUS
    <3> QED BY <1>4, <1>5, <1>7, <3>1 DEF Live
  <2> QED BY <2>5, <2>6, <2>7, <2>8, <2>9 DEF Stacks
<1> QED BY <1>8, <1>9, <1>11, <1>12, <1>13, <1>14 DEF Structure

LEMMA FinishFirstStructure ==
    ASSUME Structure, NEW s \in States, FinishFirst(s)
    PROVE  Structure'
<1>1. Live(s) /\ state[s].result \in Results /\ {} \in SUBSET Objects /\ TRUE \in BOOLEAN
  BY LiveStates, Fields DEF Structure, FinishFirst
<1> QED BY <1>1, FinalizeStructure DEF FinishFirst

LEMMA FinishSecondStructure ==
    ASSUME Structure, NEW s \in States, FinishSecond(s)
    PROVE  Structure'
<1>1. /\ Live(s) /\ state[s].result \in Results /\ state[s].wanted \in SUBSET Objects
      /\ {} \in SUBSET Objects /\ FALSE \in BOOLEAN /\ "Error" \in Results
  BY LiveStates, Fields DEF Structure, FinishSecond, Results
<1> QED BY <1>1, FinalizeStructure DEF FinishSecond

-----------------------------------------------------------------------------
(* Children are queued. *)
LEMMA StatesFinite == IsFiniteSet(States)
  BY FS_Interval, BoundsAssumption DEF States

LEMMA HoldersFinite == \A s : IsFiniteSet(Holders(s))
  BY StatesFinite, FS_Subset DEF Holders

(* The objectStates of children, and what they become. *)
IsQueued(s, t, by) == \E c \in state[s].wanted : by[c] = t

LEMMA QueuedStates ==
    ASSUME Structure, NEW s \in States, QueueChildren(s), NEW t \in States, NEW by,
           by = Created(state[s].wanted), IsQueued(s, t, by)
    PROVE  /\ t # s
           /\ state'[t] \in ObjectStates
           /\ Live(t) =>
                 /\ state'[t] = [state[t] EXCEPT
                       !.unfinalizedParents = Append(state[t].unfinalizedParents, s)]
                 /\ state[t].stage # "finalizing"
           /\ ~Live(t) => \E c \in Objects :
                 state'[t] = [NewState(c) EXCEPT !.unfinalizedParents = <<s>>]
           /\ s \notin ToSet(IF Live(t) THEN state[t].unfinalizedParents ELSE <<>>)
<1>1. /\ TypeOK /\ ReferencesAreLive /\ Live(s) /\ state[s].stage = "firstDone"
      /\ state[s].wanted \in SUBSET Objects /\ Addresses(state[s].wanted) # {}
      /\ state[s].reference \in Objects
  BY LiveStates, Fields DEF Structure, QueueChildren
<1>2. PICK c \in state[s].wanted : by[c] = t
  BY DEF IsQueued
<1> DEFINE a == StateAt(t, by)
<1>3. /\ a \in ObjectStates /\ a.reference = c
      /\ Live(t) => a = state[t] /\ state[t].stage # "finalizing"
      /\ ~Live(t) => a = NewState(c)
  BY <1>1, <1>2, StateAtCreated
<1>4. t # s
  <2> SUFFICES ASSUME t = s PROVE FALSE
    OBVIOUS
  <2>1. state[s].reference = c
    BY <1>1, <1>3
  <2>2. c \in Children[state[s].reference]
    BY <1>1 DEF Structure, WantedAreChildren
  <2> QED BY <1>1, <2>1, <2>2, ReferencesAssumption
<1>5. state'[t] = [a EXCEPT !.unfinalizedParents = Append(@, s)]
  BY <1>2, <1>4 DEF QueueChildren, Queued
<1> HIDE DEF a
<1>6. a.unfinalizedParents \in Seq(States)
  BY <1>3 DEF ObjectStates
<1>7. Append(a.unfinalizedParents, s) \in Seq(States)
  BY <1>6, ToSetAppend
<1>8. state'[t] \in ObjectStates /\ state'[t].reference = c
  BY <1>3, <1>5, <1>7 DEF ObjectStates
<1>9. ~Live(t) => state'[t] = [NewState(c) EXCEPT !.unfinalizedParents = <<s>>]
  <2>1. Append(NewState(c).unfinalizedParents, s) = <<s>>
    BY DEF NewState
  <2> QED BY <1>3, <1>5, <2>1
<1>10. Live(t) => /\ state'[t] = [state[t] EXCEPT
                        !.unfinalizedParents = Append(state[t].unfinalizedParents, s)]
                  /\ s \notin ToSet(state[t].unfinalizedParents)
  BY <1>1, <1>3, <1>5 DEF Structure, ParentsWait, Holds
<1>11. c \in Objects
  BY <1>1
<1> QED BY <1>3, <1>4, <1>8, <1>9, <1>10, <1>11, NothingInEmpty

LEMMA QueuedReference ==
    ASSUME Structure, NEW s \in States, QueueChildren(s), NEW t \in States, NEW by,
           by = Created(state[s].wanted), NEW c \in state[s].wanted, by[c] = t
    PROVE  state'[t].reference = c
<1>1. /\ TypeOK /\ ReferencesAreLive
      /\ state[s].wanted \in SUBSET Objects /\ Addresses(state[s].wanted) # {}
  BY LiveStates, Fields DEF Structure, QueueChildren
<1> DEFINE a == StateAt(t, by)
<1>2. a \in ObjectStates /\ a.reference = c
  BY <1>1, StateAtCreated
<1>3. t # s
  <2>1. IsQueued(s, t, by)
    BY DEF IsQueued
  <2> QED BY <2>1, QueuedStates
<1>4. state'[t] = [a EXCEPT !.unfinalizedParents = Append(@, s)]
  BY <1>3 DEF QueueChildren, Queued
<1> HIDE DEF a
<1> QED BY <1>2, <1>4 DEF ObjectStates

(* The fields that matter to the structure. *)
LEMMA QueuedFields ==
    ASSUME Structure, NEW s \in States, QueueChildren(s), NEW t \in States, NEW by,
           by = Created(state[s].wanted), IsQueued(s, t, by)
    PROVE  /\ Live(t)'
           /\ IsInjective(state'[t].unfinalizedParents)
           /\ \A p : Holds(t, p)' <=> Holds(t, p) \/ p = s
           /\ Live(t) =>
                 /\ state'[t].stage = state[t].stage /\ state[t].stage # "finalizing"
                 /\ state'[t].reference = state[t].reference
                 /\ state'[t].result = state[t].result
                 /\ state'[t].wanted = state[t].wanted
                 /\ state'[t].unfinalizedChildrenCount = state[t].unfinalizedChildrenCount
                 /\ state'[t].stack = state[t].stack
                 /\ state'[t].releasesChildren = state[t].releasesChildren
           /\ ~Live(t) =>
                 /\ state'[t].stage = "pending" /\ state'[t].wanted = {}
                 /\ state'[t].stack = <<>> /\ ~state'[t].releasesChildren
<1>1. /\ state'[t] \in ObjectStates
      /\ Live(t) =>
            /\ state'[t] = [state[t] EXCEPT
                  !.unfinalizedParents = Append(state[t].unfinalizedParents, s)]
            /\ state[t].stage # "finalizing"
      /\ ~Live(t) => \E c \in Objects :
            state'[t] = [NewState(c) EXCEPT !.unfinalizedParents = <<s>>]
      /\ s \notin ToSet(IF Live(t) THEN state[t].unfinalizedParents ELSE <<>>)
  BY QueuedStates
<1>2. state'[t] # NoState
  BY <1>1 DEF ObjectStates, NoState, Stages
<1>3. CASE Live(t)
  <2>1. /\ state[t] \in ObjectStates /\ state[t].unfinalizedParents \in Seq(States)
        /\ IsInjective(state[t].unfinalizedParents)
    BY <1>3, LiveStates, Fields DEF Structure, ParentsWait
  <2>2. /\ state'[t].unfinalizedParents = Append(state[t].unfinalizedParents, s)
        /\ state'[t].stage = state[t].stage /\ state[t].stage # "finalizing"
        /\ state'[t].reference = state[t].reference
        /\ state'[t].result = state[t].result
        /\ state'[t].wanted = state[t].wanted
        /\ state'[t].unfinalizedChildrenCount = state[t].unfinalizedChildrenCount
        /\ state'[t].stack = state[t].stack
        /\ state'[t].releasesChildren = state[t].releasesChildren
    BY <1>1, <1>3, <2>1 DEF ObjectStates
  <2>3. /\ ToSet(state'[t].unfinalizedParents) = ToSet(state[t].unfinalizedParents) \cup {s}
        /\ IsInjective(state'[t].unfinalizedParents)
    BY <1>1, <1>3, <2>1, <2>2, ToSetAppend
  <2> QED BY <1>2, <1>3, <2>2, <2>3 DEF Holds, Live
<1>4. CASE ~Live(t)
  <2>1. /\ state'[t].unfinalizedParents = <<s>>
        /\ state'[t].stage = "pending" /\ state'[t].wanted = {}
        /\ state'[t].stack = <<>> /\ ~state'[t].releasesChildren
    BY <1>1, <1>4 DEF NewState
  <2>2. ToSet(<<s>>) = {s} /\ IsInjective(<<s>>)
    BY DEF ToSet, IsInjective
  <2> QED BY <1>2, <1>4, <2>1, <2>2 DEF Holds, Live
<1> QED BY <1>3, <1>4

LEMMA QueueChildrenStructure ==
    ASSUME Structure, NEW s \in States, QueueChildren(s)
    PROVE  Structure'
<1>1. /\ TypeOK /\ ReferencesAreLive /\ Live(s) /\ state[s] \in ObjectStates
      /\ state[s].stage = "firstDone"
      /\ state[s].wanted \in SUBSET Objects /\ Addresses(state[s].wanted) # {}
      /\ state[s].reference \in Objects /\ state[s].wanted # {}
  BY LiveStates, Fields DEF Structure, QueueChildren, WantedAreChildren
<1>2. PICK by : by = Created(state[s].wanted)
  OBVIOUS
<1>3. PICK W \in SUBSET Objects : W = state[s].wanted
  BY <1>1
<1>4. /\ by \in [Objects -> States \cup {None}]
      /\ \A o \in W : by[o] \in States
      /\ \A o \in Objects : \/ by[o] = objectsByReference[o]
                            \/ by[o] \in States /\ ~Live(by[o]) /\ o \in W
      /\ \A o, p \in Objects : by[o] = by[p] /\ by[o] # None => o = p
  BY <1>1, <1>2, <1>3, CreatedReferences
<1> DEFINE T == {t \in States : IsQueued(s, t, by)}
           n == Cardinality(W)
           b == [state[s] EXCEPT !.stage = "waiting", !.originalIncompleteResult = TRUE,
                                 !.unfinalizedChildrenCount = n]
<1>5. n = Cardinality(T) /\ n \in Nat /\ n > 0
  <2>1. IsFiniteSet(T)
    BY StatesFinite, FS_Subset
  <2> DEFINE f == [c \in W |-> by[c]]
  <2>2. f \in Injection(W, T) /\ f \in Surjection(W, T)
    BY <1>3, <1>4, NoneIsNoState DEF Injection, Surjection, IsInjective, IsQueued
  <2> HIDE DEF f, T
  <2>3. IsFiniteSet(W) /\ Cardinality(W) = Cardinality(T)
    BY <2>1, <2>2, FS_Injection
  <2> QED BY <2>3, <1>1, <1>3, FS_CardinalityType, FS_EmptySet
<1>6. state' = [t \in States |->
        IF t = s THEN b
        ELSE IF IsQueued(s, t, by) THEN Queued(t, s, by) ELSE state[t]]
  BY <1>2, <1>3 DEF QueueChildren, IsQueued
<1>7. /\ b \in ObjectStates /\ b.stage = "waiting"
      /\ b.unfinalizedChildrenCount = n
      /\ b.reference = state[s].reference /\ b.wanted = state[s].wanted
      /\ b.unfinalizedParents = state[s].unfinalizedParents
      /\ b.stack = state[s].stack /\ b.releasesChildren = state[s].releasesChildren
  BY <1>1, <1>5 DEF ObjectStates, Stages
<1> HIDE DEF b, n
<1>8. /\ state'[s] = b /\ b # NoState
      /\ \A t \in States : t # s /\ t \notin T => state'[t] = state[t]
  BY <1>6, <1>7 DEF NoState
<1>9. ASSUME NEW t \in T
      PROVE  /\ t # s /\ state'[t] \in ObjectStates
             /\ \E c \in W : by[c] = t /\ state'[t].reference = c
  <2>1. t \in States /\ IsQueued(s, t, by)
    OBVIOUS
  <2> HIDE DEF T
  <2>2. t # s /\ state'[t] \in ObjectStates
    BY <1>2, <2>1, QueuedStates
  <2>3. PICK c \in state[s].wanted : by[c] = t
    BY <2>1 DEF IsQueued
  <2>4. state'[t].reference = c
    BY <1>2, <2>1, <2>3, QueuedReference
  <2> QED BY <1>3, <2>2, <2>3, <2>4
<1>10. ASSUME NEW t \in T
       PROVE  /\ Live(t)'
              /\ IsInjective(state'[t].unfinalizedParents)
              /\ \A p : Holds(t, p)' <=> Holds(t, p) \/ p = s
              /\ Live(t) =>
                    /\ state'[t].stage = state[t].stage /\ state[t].stage # "finalizing"
                    /\ state'[t].reference = state[t].reference
                    /\ state'[t].result = state[t].result
                    /\ state'[t].wanted = state[t].wanted
                    /\ state'[t].unfinalizedChildrenCount = state[t].unfinalizedChildrenCount
                    /\ state'[t].stack = state[t].stack
                    /\ state'[t].releasesChildren = state[t].releasesChildren
              /\ ~Live(t) =>
                    /\ state'[t].stage = "pending" /\ state'[t].wanted = {}
                    /\ state'[t].stack = <<>> /\ ~state'[t].releasesChildren
  <2>1. t \in States /\ IsQueued(s, t, by)
    OBVIOUS
  <2> HIDE DEF T
  <2> QED BY <1>2, <2>1, QueuedFields
<1>11. T \subseteq States
  OBVIOUS
<1>12. \A o \in W : by[o] \in T
  BY <1>3, <1>4 DEF IsQueued
<1> HIDE DEF T
<1>13. TypeOK'
  <2>1. state' \in [States -> {NoState} \cup ObjectStates]
    <3>1. DOMAIN state' = States /\ state' = [t \in States |-> state'[t]]
      BY <1>6
    <3>2. \A t \in States : state[t] \in {NoState} \cup ObjectStates
      BY <1>1 DEF TypeOK
    <3>3. ASSUME NEW t \in States PROVE state'[t] \in {NoState} \cup ObjectStates
      <4>1. CASE t = s
        BY <1>7, <1>8, <4>1
      <4>2. CASE t \in T
        BY <1>9, <4>2
      <4>3. CASE t # s /\ t \notin T
        BY <1>8, <3>2, <4>3
      <4> QED BY <4>1, <4>2, <4>3
    <3> QED BY <3>1, <3>3
  <2>2. objectsByReference' = by /\ remaining' = ReleaseChildren(remaining, state[s].reference)
    BY <1>2 DEF QueueChildren
  <2>3. remaining' \in [count : Nat, sizeBytes : Nat]
    BY <1>1, <2>2, ReferencesAssumption DEF ReleaseChildren, TypeOK
  <2>4. UNCHANGED <<lock, caller, exists, leased, calls, errors, expirations>>
    BY DEF QueueChildren, backend, bounds
  <2> QED BY <1>1, <1>4, <2>1, <2>2, <2>3, <2>4 DEF TypeOK
<1>14. ReferencesAreLive'
  <2> SUFFICES ASSUME NEW o \in Objects, by[o] # None
               PROVE  /\ state'[by[o]] # NoState
                      /\ state'[by[o]].reference = o
                      /\ state'[by[o]].stage # "finalizing"
    <3>1. objectsByReference' = by
      BY <1>2 DEF QueueChildren
    <3> QED BY <3>1 DEF ReferencesAreLive, Live
  <2>1. by[o] \in States
    BY <1>4
  <2>2. CASE by[o] \in T
    <3>1. PICK c \in W : by[c] = by[o] /\ state'[by[o]].reference = c
      BY <1>9, <2>2
    <3>2. c = o
      BY <1>4, <3>1
    <3> QED BY <1>10, <2>2, <3>1, <3>2 DEF Live
  <2>3. CASE by[o] \notin T
    <3>1. by[o] = objectsByReference[o]
      BY <1>4, <1>12, <2>3
    <3>2. Live(by[o]) /\ state[by[o]].reference = o /\ state[by[o]].stage # "finalizing"
      BY <1>1, <3>1 DEF ReferencesAreLive
    <3> QED BY <1>7, <1>8, <2>1, <2>3, <3>2 DEF Live
  <2> QED BY <2>2, <2>3
<1>15. \A t \in States \ T : \A p : Holds(t, p)' <=> Holds(t, p)
  BY <1>1, <1>7, <1>8 DEF Holds, Live
<1>16. \A t \in States : ~Holds(t, s)
  BY <1>1 DEF Structure, ParentsWait, Holds
<1>17. ParentsWait'
  <2>1. ASSUME NEW t \in States, Live(t)'
        PROVE  IsInjective(state'[t].unfinalizedParents)
    <3>1. CASE t \in T
      BY <1>10, <3>1
    <3>2. CASE t \notin T
      BY <1>1, <1>7, <1>8, <2>1, <3>2 DEF Structure, ParentsWait, Live
    <3> QED BY <3>1, <3>2
  <2>2. ASSUME NEW t \in States, NEW p \in States, Holds(t, p)'
        PROVE  state'[p].stage = "waiting"
    <3>1. CASE p = s
      BY <1>7, <1>8, <3>1
    <3>2. CASE p # s
      <4>1. Holds(t, p)
        BY <1>10, <1>15, <2>2, <3>2
      <4>2. state[p].stage = "waiting"
        BY <4>1 DEF Structure, ParentsWait, Holds
      <4>3. Live(p)
        BY <1>1, <4>2, LiveStates
      <4> QED BY <1>8, <1>10, <3>2, <4>2, <4>3
    <3> QED BY <3>1, <3>2
  <2> QED BY <2>1, <2>2 DEF ParentsWait
<1>18. WaitsForLiveChildren'
  <2> SUFFICES ASSUME NEW t \in States, state'[t].stage = "waiting"
               PROVE  /\ state'[t].unfinalizedChildrenCount > 0
                      /\ state'[t].unfinalizedChildrenCount = Cardinality(Holders(t)')
    BY WaitsForHoldersNext DEF WaitsFor
  <2>1. CASE t = s
    <3>1. Holders(s)' = T
      BY <1>10, <1>11, <1>15, <1>16 DEF Holders
    <3> QED BY <1>5, <1>7, <1>8, <2>1, <3>1
  <2>2. CASE t # s
    <3>1. Holders(t)' = Holders(t)
      BY <1>10, <1>11, <1>15, <2>2 DEF Holders
    <3>2. state[t].stage = "waiting"
          /\ state'[t].unfinalizedChildrenCount = state[t].unfinalizedChildrenCount
      BY <1>8, <1>10, <2>2
    <3>3. WaitsFor(t)
      BY WaitsForHolders DEF Structure
    <3> QED BY <3>1, <3>2, <3>3 DEF WaitsFor
  <2> QED BY <2>1, <2>2
<1>19. WantedAreChildren'
  <2> SUFFICES ASSUME NEW t \in States, Live(t)'
               PROVE  /\ state'[t].wanted \subseteq Children[state'[t].reference]
                      /\ state'[t].stage = "firstDone" /\ state'[t].result = "Incomplete" =>
                            state'[t].wanted # {}
    BY DEF WantedAreChildren
  <2>1. CASE t = s
    BY <1>1, <1>7, <1>8, <2>1 DEF Structure, WantedAreChildren
  <2>2. CASE t \in T /\ Live(t)
    BY <1>10, <2>2 DEF Structure, WantedAreChildren
  <2>3. CASE t \in T /\ ~Live(t)
    BY <1>10, <2>3
  <2>4. CASE t \notin T /\ t # s
    BY <1>8, <2>4 DEF Structure, WantedAreChildren, Live
  <2> QED BY <2>1, <2>2, <2>3, <2>4
<1>20. Stacks'
  <2>1. KeepsStack(s)
    BY <1>1, <1>7, <1>8 DEF KeepsStack, Live
  <2>2. \A t \in T : KeepsStack(t)
    BY <1>10 DEF KeepsStack
  <2>3. \A t \in States : t \notin T /\ t # s => KeepsStack(t)
    BY <1>8 DEF KeepsStack, Live
  <2>4. lock' = lock
    BY DEF QueueChildren
  <2> QED BY <1>1, <2>1, <2>2, <2>3, <2>4, KeptStacks DEF Structure
<1> QED BY <1>13, <1>14, <1>17, <1>18, <1>19, <1>20 DEF Structure

-----------------------------------------------------------------------------
(* The object f tells its first parent p about its outcome. *)
FirstParent(f, p) ==
    /\ Live(f) /\ state[f].stage = "finalizing"
    /\ state[f].unfinalizedParents # <<>> /\ p = Head(state[f].unfinalizedParents)

TellsParent(f, p) ==
    /\ \A t \in States :
          /\ Live(t)' <=> Live(t)
          /\ Live(t) =>
                /\ state'[t].reference = state[t].reference
                /\ state'[t].wanted = state[t].wanted
                /\ state'[t].result = state[t].result
                /\ t # f => state'[t].unfinalizedParents = state[t].unfinalizedParents
                /\ t # p => /\ state'[t].stage = state[t].stage
                            /\ state'[t].unfinalizedChildrenCount =
                                  state[t].unfinalizedChildrenCount
    /\ state'[f].unfinalizedParents = Tail(state[f].unfinalizedParents)
    /\ state'[p].unfinalizedChildrenCount = state[p].unfinalizedChildrenCount - 1
    /\ state'[p].stage \in {"waiting", "secondQueued", "finalizing"}
    /\ state'[p].stage = "waiting" <=> state[p].unfinalizedChildrenCount - 1 > 0

LEMMA FirstParentWaits ==
    ASSUME Structure, NEW f \in States, NEW p, FirstParent(f, p)
    PROVE  /\ p \in States /\ Live(p) /\ state[p].stage = "waiting" /\ p # f
           /\ Holds(f, p)
           /\ state[p].unfinalizedChildrenCount \in Nat
           /\ state[p].unfinalizedChildrenCount > 0
           /\ Tail(state[f].unfinalizedParents) \in Seq(States)
           /\ IsInjective(Tail(state[f].unfinalizedParents))
           /\ ToSet(Tail(state[f].unfinalizedParents)) =
                 ToSet(state[f].unfinalizedParents) \ {p}
<1>1. /\ state[f].unfinalizedParents \in Seq(States)
      /\ IsInjective(state[f].unfinalizedParents) /\ TypeOK
      /\ state[f].unfinalizedParents # <<>>
  BY Fields DEF FirstParent, Structure, ParentsWait
<1>2. /\ p \in States /\ p \in ToSet(state[f].unfinalizedParents)
      /\ Tail(state[f].unfinalizedParents) \in Seq(States)
      /\ IsInjective(Tail(state[f].unfinalizedParents))
      /\ ToSet(Tail(state[f].unfinalizedParents)) =
            ToSet(state[f].unfinalizedParents) \ {p}
  BY <1>1, ToSetTail DEF FirstParent
<1>3. Holds(f, p)
  BY <1>2 DEF FirstParent, Holds
<1>4. state[p].stage = "waiting" /\ p # f
  BY <1>2, <1>3 DEF Structure, ParentsWait, FirstParent
<1>5. Live(p) /\ state[p].unfinalizedChildrenCount \in Nat
  BY <1>1, <1>2, <1>4, LiveStates, Fields
<1>6. WaitsFor(p)
  BY <1>2, WaitsForHolders DEF Structure
<1> QED BY <1>2, <1>3, <1>4, <1>5, <1>6 DEF WaitsFor

LEMMA TellsParentHolds ==
    ASSUME Structure, NEW f \in States, NEW p, FirstParent(f, p), TellsParent(f, p),
           NEW t \in States, NEW q
    PROVE  Holds(t, q)' <=> Holds(t, q) /\ ~(t = f /\ q = p)
<1>1. CASE t = f
  BY <1>1, FirstParentWaits DEF Holds, TellsParent, FirstParent
<1>2. CASE t # f
  BY <1>2 DEF Holds, TellsParent
<1> QED BY <1>1, <1>2

LEMMA TellsParentStructure ==
    ASSUME Structure, NEW f \in States, NEW p, FirstParent(f, p), TellsParent(f, p)
    PROVE  ParentsWait' /\ WaitsForLiveChildren' /\ WantedAreChildren'
<1>1. /\ p \in States /\ Live(p) /\ state[p].stage = "waiting" /\ p # f
      /\ Holds(f, p)
      /\ state[p].unfinalizedChildrenCount \in Nat
      /\ state[p].unfinalizedChildrenCount > 0
      /\ IsInjective(Tail(state[f].unfinalizedParents))
  BY FirstParentWaits
<1>2. \A q : q # p => Holders(q)' = Holders(q)
  BY TellsParentHolds DEF Holders
<1>3. Holders(p)' = Holders(p) \ {f} /\ f \in Holders(p)
  BY <1>1, TellsParentHolds DEF Holders
<1>4. \A s \in States : WaitsFor(s)
  BY WaitsForHolders DEF Structure
<1>5. /\ Cardinality(Holders(p)') = state[p].unfinalizedChildrenCount - 1
      /\ state[p].unfinalizedChildrenCount - 1 = 0 => Holders(p)' = {}
  <2>1. IsFiniteSet(Holders(p)) /\ IsFiniteSet(Holders(p) \ {f})
    BY HoldersFinite, FS_RemoveElement
  <2>2. Cardinality(Holders(p) \ {f}) = Cardinality(Holders(p)) - 1
    BY <1>3, <2>1, FS_RemoveElement
  <2>3. Cardinality(Holders(p)) = state[p].unfinalizedChildrenCount
    BY <1>1, <1>4 DEF WaitsFor
  <2> QED BY <1>3, <2>1, <2>2, <2>3, FS_EmptySet
<1>6. ParentsWait'
  <2>1. ASSUME NEW t \in States, Live(t)'
        PROVE  IsInjective(state'[t].unfinalizedParents)
    BY <1>1, <2>1 DEF Structure, ParentsWait, TellsParent
  <2>2. ASSUME NEW t \in States, NEW q \in States, Holds(t, q)'
        PROVE  state'[q].stage = "waiting"
    <3>1. state[q].stage = "waiting"
      BY <2>2, TellsParentHolds DEF Structure, ParentsWait, Holds
    <3>2. CASE q # p
      <4>1. Live(q)
        BY <3>1, LiveStates DEF Structure
      <4> QED BY <3>1, <3>2, <4>1 DEF TellsParent
    <3>3. CASE q = p
      <4>1. Holders(p)' # {}
        BY <2>2, <3>3 DEF Holders
      <4>2. state[p].unfinalizedChildrenCount - 1 > 0
        BY <1>1, <1>5, <4>1
      <4> QED BY <3>3, <4>2 DEF TellsParent
    <3> QED BY <3>2, <3>3
  <2> QED BY <2>1, <2>2 DEF ParentsWait
<1>7. WaitsForLiveChildren'
  <2> SUFFICES ASSUME NEW s \in States, state'[s].stage = "waiting"
               PROVE  /\ state'[s].unfinalizedChildrenCount > 0
                      /\ state'[s].unfinalizedChildrenCount = Cardinality(Holders(s)')
    BY WaitsForHoldersNext DEF WaitsFor
  <2>1. CASE s = p
    BY <1>5, <2>1 DEF TellsParent
  <2>2. CASE s # p
    <3>1. Live(s)
      BY DEF TellsParent, Live, NoState
    <3> QED BY <1>2, <1>4, <2>2, <3>1 DEF TellsParent, WaitsFor
  <2> QED BY <2>1, <2>2
<1>8. WantedAreChildren'
  <2> SUFFICES ASSUME NEW t \in States, Live(t)'
               PROVE  /\ state'[t].wanted \subseteq Children[state'[t].reference]
                      /\ state'[t].stage = "firstDone" /\ state'[t].result = "Incomplete" =>
                            state'[t].wanted # {}
    BY DEF WantedAreChildren
  <2> QED BY DEF Structure, WantedAreChildren, TellsParent
<1> QED BY <1>6, <1>7, <1>8

LEMMA LockHolder ==
    ASSUME Structure, NEW g \in States, lock = g
    PROVE  /\ Live(g) /\ IsStack(g) /\ state[g].stage = "finalizing"
           /\ state[g].stack # <<>> /\ state[g].stack \in Seq(States)
           /\ IsInjective(state[g].stack)
           /\ Finalizing(g) \in States /\ OnStack(Finalizing(g), g)
           /\ Live(Finalizing(g)) /\ state[Finalizing(g)].stage = "finalizing"
<1>1. Live(g) /\ state[g].stack # <<>> /\ IsStack(g)
  BY NoneIsNoState DEF Structure, Stacks
<1>2. state[g].stack \in Seq(States) /\ IsInjective(state[g].stack)
      /\ state[g].stage = "finalizing"
  BY <1>1, Fields DEF Structure, IsStack
<1>3. Finalizing(g) \in ToSet(state[g].stack)
  BY <1>1, <1>2, ToSetFront DEF Finalizing
<1>4. OnStack(Finalizing(g), g)
  BY <1>1, <1>3 DEF OnStack
<1>5. /\ Finalizing(g) \in States
      /\ Live(Finalizing(g)) /\ state[Finalizing(g)].stage = "finalizing"
  BY <1>4, OnStackIsFinalizing DEF Structure
<1> QED BY <1>1, <1>2, <1>4, <1>5

LEMMA ParentToUpdateIsFirst ==
    ASSUME Structure, NEW g \in States, HasParentToUpdate(g)
    PROVE  /\ FirstParent(Finalizing(g), ParentToUpdate(g))
           /\ ParentToUpdate(g) \in States
<1>1. /\ Finalizing(g) \in States
      /\ Live(Finalizing(g)) /\ state[Finalizing(g)].stage = "finalizing"
  BY LockHolder DEF HasParentToUpdate
<1>2. FirstParent(Finalizing(g), ParentToUpdate(g))
  BY <1>1 DEF FirstParent, HasParentToUpdate, ParentToUpdate
<1> QED BY <1>1, <1>2, FirstParentWaits

(* The record of a parent p that was told about its child f. *)
PropagatesInto(u, p, f) ==
    /\ u \in ObjectStates
    /\ u.stage = state[p].stage
    /\ u.reference = state[p].reference
    /\ u.hasCallers = state[p].hasCallers
    /\ u.unfinalizedParents = state[p].unfinalizedParents
    /\ u.result = state[p].result
    /\ u.wanted = state[p].wanted
    /\ u.stack = state[p].stack
    /\ u.waitsFor = state[p].waitsFor
    /\ u.releasesChildren = state[p].releasesChildren
    /\ u.unfinalizedChildrenCount = state[p].unfinalizedChildrenCount - 1
    /\ u.originalIncompleteResult =
          (state[p].originalIncompleteResult /\ state[f].outcome # "lease")
    /\ u.childErr = (state[p].childErr \/ state[f].outcome = "error")
    /\ u.leases =
          IF state[f].outcome = "lease" THEN state[p].leases \cup {state[f].reference}
          ELSE state[p].leases
    /\ u.gotNoLease =
          IF state[f].outcome = "lease" THEN state[p].gotNoLease
          ELSE state[p].gotNoLease \cup {state[f].reference}

LEMMA PropagatedFields ==
    ASSUME TypeOK, NEW p \in States, NEW f \in States, Live(p), Live(f),
           state[p].unfinalizedChildrenCount > 0
    PROVE  PropagatesInto(Propagated(p, f), p, f)
<1>1. state[p] \in ObjectStates /\ state[f].reference \in Objects
  BY LiveStates, Fields
<1> DEFINE leases == IF state[f].outcome = "lease"
                     THEN state[p].leases \cup {state[f].reference} ELSE state[p].leases
           noLeases == IF state[f].outcome = "lease" THEN state[p].gotNoLease
                       ELSE state[p].gotNoLease \cup {state[f].reference}
           original == state[p].originalIncompleteResult /\ state[f].outcome # "lease"
           err == state[p].childErr \/ state[f].outcome = "error"
           n == state[p].unfinalizedChildrenCount - 1
           x == Propagated(p, f)
<1>2. /\ n \in Nat /\ original \in BOOLEAN /\ err \in BOOLEAN
      /\ leases \in SUBSET Objects /\ noLeases \in SUBSET Objects
  BY <1>1, Fields
<1>3. x = [state[p] EXCEPT !.leases = leases, !.gotNoLease = noLeases,
                           !.originalIncompleteResult = original, !.childErr = err,
                           !.unfinalizedChildrenCount = n]
  BY DEF Propagated
<1> HIDE DEF leases, noLeases, original, err, n, x
<1>4. /\ x \in ObjectStates
      /\ x.stage = state[p].stage /\ x.reference = state[p].reference
      /\ x.hasCallers = state[p].hasCallers
      /\ x.unfinalizedParents = state[p].unfinalizedParents
      /\ x.result = state[p].result /\ x.wanted = state[p].wanted
      /\ x.stack = state[p].stack /\ x.waitsFor = state[p].waitsFor
      /\ x.releasesChildren = state[p].releasesChildren
      /\ x.unfinalizedChildrenCount = n /\ x.originalIncompleteResult = original
      /\ x.childErr = err /\ x.leases = leases /\ x.gotNoLease = noLeases
  BY <1>1, <1>2, <1>3 DEF ObjectStates
<1> QED BY <1>4 DEF PropagatesInto, leases, noLeases, original, err, n, x

(* The goroutine's own objectState, which may be the one that has a parent *)
(* less now.                                                               *)
Told(g, f) ==
    IF g = f THEN [state[f] EXCEPT !.unfinalizedParents = Tail(@)] ELSE state[g]

(* The objectStates after a step of the loop over parents: of the object,  *)
(* the parent and the goroutine.                                           *)
TellsWith(g, f, p, x, h) ==
    state' = [[state EXCEPT ![f].unfinalizedParents = Tail(@), ![p] = x] EXCEPT ![g] = h]

UpdatedParent(p, x) ==
    /\ x \in ObjectStates
    /\ x.reference = state[p].reference /\ x.wanted = state[p].wanted
    /\ x.result = state[p].result
    /\ x.unfinalizedParents = state[p].unfinalizedParents
    /\ x.unfinalizedChildrenCount = state[p].unfinalizedChildrenCount - 1
    /\ x.stage \in {"waiting", "secondQueued", "finalizing"}
    /\ x.stage = "waiting" <=> state[p].unfinalizedChildrenCount - 1 > 0

UpdatedGoroutine(g, f, h) ==
    /\ h \in ObjectStates
    /\ h.reference = state[g].reference /\ h.wanted = state[g].wanted
    /\ h.result = state[g].result /\ h.stage = state[g].stage
    /\ h.unfinalizedChildrenCount = state[g].unfinalizedChildrenCount
    /\ h.unfinalizedParents = IF g = f THEN Tail(state[f].unfinalizedParents)
                              ELSE state[g].unfinalizedParents

LEMMA TellsWithParent ==
    ASSUME Structure, NEW g \in States, NEW f \in States, NEW p \in States,
           FirstParent(f, p), Live(g), g # p,
           NEW x, NEW h, TellsWith(g, f, p, x, h),
           UpdatedParent(p, x), UpdatedGoroutine(g, f, h)
    PROVE  /\ TellsParent(f, p)
           /\ state' \in [States -> {NoState} \cup ObjectStates]
           /\ state'[p] = x /\ state'[g] = h
           /\ \A t \in States \ {f, g, p} : state'[t] = state[t]
           /\ g # f => state'[f] = Told(f, f)
<1>1. /\ TypeOK /\ p # f /\ Live(f) /\ Live(p) /\ Tail(state[f].unfinalizedParents) \in Seq(States)
      /\ state[f] \in ObjectStates
  BY FirstParentWaits, LiveStates DEF Structure, FirstParent
<1> DEFINE y == [state[f] EXCEPT !.unfinalizedParents = Tail(@)]
<1>2. /\ y \in ObjectStates
      /\ y.unfinalizedParents = Tail(state[f].unfinalizedParents)
      /\ y.reference = state[f].reference /\ y.wanted = state[f].wanted
      /\ y.result = state[f].result /\ y.stage = state[f].stage
      /\ y.unfinalizedChildrenCount = state[f].unfinalizedChildrenCount
  BY <1>1 DEF ObjectStates
<1>3. /\ state' \in [States -> {NoState} \cup ObjectStates]
      /\ state'[p] = x /\ state'[g] = h
      /\ \A t \in States \ {f, g, p} : state'[t] = state[t]
      /\ g # f => state'[f] = y
  <2>1. state' = [[state EXCEPT ![f] = y, ![p] = x] EXCEPT ![g] = h]
    BY <1>1 DEF TellsWith, TypeOK
  <2>2. /\ state \in [States -> {NoState} \cup ObjectStates]
        /\ x \in ObjectStates /\ y \in ObjectStates /\ h \in ObjectStates
    BY <1>1, <1>2 DEF TypeOK, UpdatedParent, UpdatedGoroutine
  <2> HIDE DEF y
  <2> QED BY <1>1, <2>1, <2>2
<1> HIDE DEF y
<1>4. x # NoState /\ h # NoState /\ y # NoState
  <2>1. x \in ObjectStates /\ h \in ObjectStates /\ y \in ObjectStates
    BY <1>2 DEF UpdatedParent, UpdatedGoroutine
  <2>2. NoState \notin ObjectStates
    BY DEF NoState, ObjectStates, Stages
  <2> QED BY <2>1, <2>2
<1>5. state'[f].unfinalizedParents = Tail(state[f].unfinalizedParents)
  BY <1>2, <1>3 DEF UpdatedGoroutine
<1>6. ASSUME NEW t \in States
      PROVE  /\ Live(t)' <=> Live(t)
             /\ Live(t) =>
                   /\ state'[t].reference = state[t].reference
                   /\ state'[t].wanted = state[t].wanted
                   /\ state'[t].result = state[t].result
                   /\ t # f => state'[t].unfinalizedParents = state[t].unfinalizedParents
                   /\ t # p => /\ state'[t].stage = state[t].stage
                               /\ state'[t].unfinalizedChildrenCount =
                                     state[t].unfinalizedChildrenCount
  <2>1. CASE t = p
    BY <1>1, <1>3, <1>4, <2>1 DEF Live, UpdatedParent
  <2>2. CASE t = g
    BY <1>3, <1>4, <2>2 DEF Live, UpdatedGoroutine
  <2>3. CASE t = f /\ f # g
    BY <1>1, <1>2, <1>3, <1>4, <2>3 DEF Live
  <2>4. CASE t \notin {p, g, f}
    BY <1>3, <2>4 DEF Live
  <2> QED BY <2>1, <2>2, <2>3, <2>4
<1>7. TellsParent(f, p)
  BY <1>3, <1>5, <1>6 DEF TellsParent, UpdatedParent
<1> QED BY <1>3, <1>7 DEF y, Told

LEMMA TellsParentReferences ==
    ASSUME Structure, NEW f \in States, NEW p \in States, TellsParent(f, p),
           NEW detached, Detach(detached),
           state'[p].stage = "finalizing" => p \in detached
    PROVE  ReferencesAreLive'
<1>1. \A o \in Objects : objectsByReference'[o] # None =>
         /\ objectsByReference'[o] = objectsByReference[o]
         /\ objectsByReference'[o] \in States
         /\ objectsByReference'[o] \notin detached
  BY DetachReferences DEF Structure
<1> SUFFICES ASSUME NEW o \in Objects, objectsByReference'[o] # None, NEW s \in States,
                    s = objectsByReference'[o]
             PROVE  Live(s)' /\ state'[s].reference = o /\ state'[s].stage # "finalizing"
  BY <1>1 DEF ReferencesAreLive, Live
<1>2. Live(s) /\ state[s].reference = o /\ state[s].stage # "finalizing"
  BY <1>1 DEF Structure, ReferencesAreLive
<1> QED BY <1>1, <1>2 DEF TellsParent

LEMMA ToldFields ==
    ASSUME Structure, NEW g \in States, NEW f \in States, NEW p, Live(g), FirstParent(f, p)
    PROVE  /\ Told(g, f) \in ObjectStates
           /\ Told(g, f).stage = state[g].stage
           /\ Told(g, f).reference = state[g].reference
           /\ Told(g, f).wanted = state[g].wanted
           /\ Told(g, f).result = state[g].result
           /\ Told(g, f).stack = state[g].stack
           /\ Told(g, f).releasesChildren = state[g].releasesChildren
           /\ Told(g, f).unfinalizedChildrenCount = state[g].unfinalizedChildrenCount
           /\ Told(g, f).unfinalizedParents =
                 IF g = f THEN Tail(state[f].unfinalizedParents)
                 ELSE state[g].unfinalizedParents
           /\ Told(g, f).leases = state[g].leases
           /\ Told(g, f).gotNoLease = state[g].gotNoLease
           /\ Told(g, f).childErr = state[g].childErr
           /\ Told(g, f).outcome = state[g].outcome
           /\ Told(g, f).originalIncompleteResult = state[g].originalIncompleteResult
<1>1. state[g] \in ObjectStates /\ Tail(state[f].unfinalizedParents) \in Seq(States)
  BY FirstParentWaits, LiveStates DEF Structure
<1>2. CASE g = f
  BY <1>1, <1>2 DEF Told, ObjectStates
<1>3. CASE g # f
  BY <1>1, <1>3 DEF Told
<1> QED BY <1>2, <1>3

(* What the three kinds of steps have in common. *)
LEMMA UpdateBasics ==
    ASSUME Structure, NEW g \in States, HasParentToUpdate(g)
    PROVE  \E f, p \in States :
              /\ f = Finalizing(g) /\ p = ParentToUpdate(g)
              /\ FirstParent(f, p) /\ OnStack(f, g)
              /\ Live(g) /\ Live(f) /\ Live(p) /\ g # p /\ f # p
              /\ state[g].stage = "finalizing" /\ state[f].stage = "finalizing"
              /\ state[p].stage = "waiting"
              /\ state[p].unfinalizedChildrenCount \in Nat
              /\ state[p].unfinalizedChildrenCount > 0
<1>1. PICK f \in States : f = Finalizing(g)
  BY LockHolder DEF HasParentToUpdate
<1>2. PICK p \in States : p = ParentToUpdate(g)
  BY ParentToUpdateIsFirst
<1>3. FirstParent(f, p)
  BY <1>1, <1>2, ParentToUpdateIsFirst
<1>4. Live(g) /\ state[g].stage = "finalizing" /\ OnStack(f, g)
      /\ Live(f) /\ state[f].stage = "finalizing"
  BY <1>1, LockHolder DEF HasParentToUpdate
<1>5. /\ Live(p) /\ state[p].stage = "waiting" /\ f # p
      /\ state[p].unfinalizedChildrenCount \in Nat
      /\ state[p].unfinalizedChildrenCount > 0
  BY <1>3, FirstParentWaits
<1>6. g # p
  BY <1>4, <1>5
<1> QED BY <1>1, <1>2, <1>3, <1>4, <1>5, <1>6

LEMMA ParentStillWaitsStructure ==
    ASSUME Structure, NEW g \in States, ParentStillWaits(g)
    PROVE  Structure'
<1>1. PICK f, p \in States :
              /\ f = Finalizing(g) /\ p = ParentToUpdate(g)
              /\ FirstParent(f, p) /\ OnStack(f, g)
              /\ Live(g) /\ Live(f) /\ Live(p) /\ g # p /\ f # p
              /\ state[g].stage = "finalizing" /\ state[f].stage = "finalizing"
              /\ state[p].stage = "waiting"
              /\ state[p].unfinalizedChildrenCount \in Nat
              /\ state[p].unfinalizedChildrenCount > 0
  BY UpdateBasics DEF ParentStillWaits
<1> DEFINE x == Propagated(p, f)
           h == Told(g, f)
<1>2. TypeOK
  BY DEF Structure
<1>3. /\ UpdatedParent(p, x) /\ x.stage = "waiting"
      /\ x.stack = state[p].stack /\ x.releasesChildren = state[p].releasesChildren
  <2>1. x.unfinalizedChildrenCount > 0
    BY <1>1 DEF ParentStillWaits
  <2>2. /\ x \in ObjectStates /\ x.stage = "waiting"
        /\ x.reference = state[p].reference /\ x.wanted = state[p].wanted
        /\ x.result = state[p].result
        /\ x.unfinalizedParents = state[p].unfinalizedParents
        /\ x.unfinalizedChildrenCount = state[p].unfinalizedChildrenCount - 1
        /\ x.stack = state[p].stack /\ x.releasesChildren = state[p].releasesChildren
    <3>1. PropagatesInto(Propagated(p, f), p, f)
      BY <1>1, <1>2, PropagatedFields
    <3> QED BY <1>1, <3>1 DEF PropagatesInto
  <2> HIDE DEF x
  <2> QED BY <2>1, <2>2 DEF UpdatedParent
<1>4. /\ UpdatedGoroutine(g, f, h)
      /\ h.stack = state[g].stack /\ h.releasesChildren = state[g].releasesChildren
  <2> HIDE DEF h
  <2> QED BY <1>1, ToldFields DEF UpdatedGoroutine, h
<1>6. TellsWith(g, f, p, x, h)
  <2>1. state' = [state EXCEPT ![f].unfinalizedParents = Tail(@), ![p] = x]
    BY <1>1 DEF ParentStillWaits, WithParent
  <2> HIDE DEF x
  <2> QED BY <1>1, <1>2, <2>1 DEF TellsWith, Told, TypeOK
<1> HIDE DEF x, h
<1>7. /\ TellsParent(f, p)
      /\ state' \in [States -> {NoState} \cup ObjectStates]
      /\ state'[p] = x /\ state'[g] = h
      /\ \A t \in States \ {f, g, p} : state'[t] = state[t]
      /\ g # f => state'[f] = Told(f, f)
  BY <1>1, <1>3, <1>4, <1>6, TellsWithParent
<1>8. PICK detached : Detach(detached)
  BY DEF ParentStillWaits, DetachIfFailed
<1>9. TypeOK'
  <2>1. objectsByReference' \in [Objects -> States \cup {None}]
    BY <1>8, DetachReferences DEF Structure
  <2>2. UNCHANGED <<remaining, lock, caller, exists, leased, calls, errors, expirations>>
    BY DEF ParentStillWaits, backend, bounds
  <2> QED BY <1>2, <1>7, <2>1, <2>2 DEF TypeOK
<1>10. ReferencesAreLive'
  BY <1>1, <1>3, <1>7, <1>8, TellsParentReferences
<1>11. ParentsWait' /\ WaitsForLiveChildren' /\ WantedAreChildren'
  BY <1>1, <1>7, TellsParentStructure
<1>12. Stacks'
  <2>1. KeepsStack(p) /\ KeepsStack(g)
    BY <1>1, <1>3, <1>4, <1>7 DEF KeepsStack, TellsParent
  <2>2. g # f => KeepsStack(f)
    BY <1>1, <1>7, ToldFields DEF KeepsStack, TellsParent
  <2>3. \A t \in States \ {f, g, p} : KeepsStack(t)
    BY <1>7 DEF KeepsStack, TellsParent
  <2>4. lock' = lock
    BY DEF ParentStillWaits
  <2> QED BY <1>2, <2>1, <2>2, <2>3, <2>4, KeptStacks DEF Structure
<1> QED BY <1>9, <1>10, <1>11, <1>12 DEF Structure

LEMMA ParentHasLeasesStructure ==
    ASSUME Structure, NEW g \in States, ParentHasLeases(g)
    PROVE  Structure'
<1>1. PICK f, p \in States :
              /\ f = Finalizing(g) /\ p = ParentToUpdate(g)
              /\ FirstParent(f, p) /\ OnStack(f, g)
              /\ Live(g) /\ Live(f) /\ Live(p) /\ g # p /\ f # p
              /\ state[g].stage = "finalizing" /\ state[f].stage = "finalizing"
              /\ state[p].stage = "waiting"
              /\ state[p].unfinalizedChildrenCount \in Nat
              /\ state[p].unfinalizedChildrenCount > 0
  BY UpdateBasics DEF ParentHasLeases
<1> DEFINE u == Propagated(p, f)
           x == [u EXCEPT !.stage = "secondQueued"]
           a == Told(g, f)
           h == [a EXCEPT !.waitsFor = p]
<1>2. TypeOK
  BY DEF Structure
<1>3. /\ UpdatedParent(p, x) /\ x.stage = "secondQueued"
      /\ x.stack = state[p].stack /\ x.releasesChildren = state[p].releasesChildren
  <2>1. u.unfinalizedChildrenCount = 0
    BY <1>1 DEF ParentHasLeases
  <2>2. /\ u \in ObjectStates
        /\ u.reference = state[p].reference /\ u.wanted = state[p].wanted
        /\ u.result = state[p].result
        /\ u.unfinalizedParents = state[p].unfinalizedParents
        /\ u.unfinalizedChildrenCount = state[p].unfinalizedChildrenCount - 1
        /\ u.stack = state[p].stack /\ u.releasesChildren = state[p].releasesChildren
    <3>1. PropagatesInto(Propagated(p, f), p, f)
      BY <1>1, <1>2, PropagatedFields
    <3> QED BY <1>1, <3>1 DEF PropagatesInto
  <2> HIDE DEF u
  <2>3. /\ x \in ObjectStates /\ x.stage = "secondQueued"
        /\ x.reference = u.reference /\ x.wanted = u.wanted
        /\ x.result = u.result
        /\ x.unfinalizedParents = u.unfinalizedParents
        /\ x.unfinalizedChildrenCount = u.unfinalizedChildrenCount
        /\ x.stack = u.stack /\ x.releasesChildren = u.releasesChildren
    BY <2>2 DEF ObjectStates, Stages
  <2> HIDE DEF x
  <2> QED BY <1>1, <2>1, <2>2, <2>3 DEF UpdatedParent
<1>4. /\ UpdatedGoroutine(g, f, h)
      /\ h.stack = state[g].stack /\ h.releasesChildren = state[g].releasesChildren
  <2>1. /\ UpdatedGoroutine(g, f, a) /\ a \in ObjectStates
        /\ a.stack = state[g].stack /\ a.releasesChildren = state[g].releasesChildren
    <3> HIDE DEF a
    <3> QED BY <1>1, ToldFields DEF UpdatedGoroutine, a
  <2> HIDE DEF a
  <2>2. /\ h \in ObjectStates /\ h.stage = a.stage
        /\ h.reference = a.reference /\ h.wanted = a.wanted /\ h.result = a.result
        /\ h.unfinalizedParents = a.unfinalizedParents
        /\ h.unfinalizedChildrenCount = a.unfinalizedChildrenCount
        /\ h.stack = a.stack /\ h.releasesChildren = a.releasesChildren
    BY <2>1 DEF ObjectStates
  <2> HIDE DEF h
  <2> QED BY <2>1, <2>2 DEF UpdatedGoroutine
<1>5. TellsWith(g, f, p, x, h)
  <2>1. state' = [[state EXCEPT ![f].unfinalizedParents = Tail(@), ![p] = x]
                    EXCEPT ![g].waitsFor = p]
    BY <1>1 DEF ParentHasLeases, WithParent
  <2>2. [state EXCEPT ![f].unfinalizedParents = Tail(@), ![p] = x][g] = a
    <3> HIDE DEF x
    <3> QED BY <1>1, <1>2 DEF Told, TypeOK
  <2> HIDE DEF x, a
  <2> QED BY <2>1, <2>2 DEF TellsWith
<1> HIDE DEF x, h
<1>6. /\ TellsParent(f, p)
      /\ state' \in [States -> {NoState} \cup ObjectStates]
      /\ state'[p] = x /\ state'[g] = h
      /\ \A t \in States \ {f, g, p} : state'[t] = state[t]
      /\ g # f => state'[f] = Told(f, f)
  BY <1>1, <1>3, <1>4, <1>5, TellsWithParent
<1>7. PICK detached : Detach(detached)
  BY DEF ParentHasLeases, DetachIfFailed
<1>8. TypeOK'
  <2>1. objectsByReference' \in [Objects -> States \cup {None}]
    BY <1>7, DetachReferences DEF Structure
  <2>2. lock' = None /\ UNCHANGED <<remaining, caller, exists, leased, calls, errors, expirations>>
    BY DEF ParentHasLeases, backend, bounds
  <2> QED BY <1>2, <1>6, <2>1, <2>2 DEF TypeOK
<1>9. ReferencesAreLive'
  BY <1>1, <1>3, <1>6, <1>7, TellsParentReferences
<1>10. ParentsWait' /\ WaitsForLiveChildren' /\ WantedAreChildren'
  BY <1>1, <1>6, TellsParentStructure
<1>11. Stacks'
  <2>1. KeepsStack(p) /\ KeepsStack(g)
    BY <1>1, <1>3, <1>4, <1>6 DEF KeepsStack, TellsParent
  <2>2. g # f => KeepsStack(f)
    BY <1>1, <1>6, ToldFields DEF KeepsStack, TellsParent
  <2>3. \A t \in States \ {f, g, p} : KeepsStack(t)
    BY <1>6 DEF KeepsStack, TellsParent
  <2>4. lock' = None
    BY DEF ParentHasLeases
  <2> QED BY <1>2, <2>1, <2>2, <2>3, <2>4, KeptStacks DEF Structure
<1> QED BY <1>8, <1>9, <1>10, <1>11 DEF Structure

(* The parent is put on top of the goroutine's stack. *)
LEMMA PushedStacks ==
    ASSUME TypeOK, Stacks, NEW g \in States, NEW p \in States,
           Live(g), state[g].stack # <<>>, Live(p), state[p].stage = "waiting",
           Live(g)', Live(p)', g # p, lock' = g,
           state'[g].stack = Append(state[g].stack, p), state'[g].stage = "finalizing",
           state'[g].releasesChildren = state[g].releasesChildren,
           state'[p].stack = state[p].stack, state'[p].stage = "finalizing",
           state'[p].releasesChildren = state[p].releasesChildren,
           \A t \in States \ {g, p} : KeepsStack(t)
    PROVE  Stacks'
<1>1. /\ IsStack(g) /\ state[g].stack \in Seq(States) /\ IsInjective(state[g].stack)
      /\ state[p].stack = <<>> /\ ~state[p].releasesChildren
  BY Fields DEF Stacks, IsStack
<1>2. \A h \in States : ~OnStack(p, h)
  BY OnStackIsFinalizing
<1>3. /\ ToSet(state'[g].stack) = ToSet(state[g].stack) \cup {p}
      /\ IsInjective(state'[g].stack)
      /\ state'[g].stack # <<>> /\ state'[g].stack[1] = g
  <2>1. p \notin ToSet(state[g].stack)
    BY <1>2 DEF OnStack
  <2>2. /\ ToSet(state'[g].stack) = ToSet(state[g].stack) \cup {p}
        /\ IsInjective(state'[g].stack)
    BY <1>1, <2>1, ToSetAppend
  <2>3. state'[g].stack # <<>>
    BY <2>2, NothingInEmpty
  <2>4. 1 \in 1 .. Len(state[g].stack)
    BY <1>1, LenProperties, EmptySeq
  <2>5. state'[g].stack[1] = g
    BY <1>1, <2>4, AppendProperties DEF IsStack
  <2> QED BY <2>2, <2>3, <2>5
<1>4. \A t \in States : OnStack(t, g)' <=> OnStack(t, g) \/ t = p
  BY <1>3 DEF OnStack
<1>5. \A h \in States \ {g} : \A t \in States : OnStack(t, h)' <=> OnStack(t, h)
  BY NothingInEmpty DEF OnStack, KeepsStack
<1>6. IsStack(g)'
  <2> SUFFICES ASSUME NEW t \in ToSet(state'[g].stack), t # g
               PROVE  /\ state'[t].stage = "finalizing"
                      /\ state'[t].stack = <<>> /\ ~state'[t].releasesChildren
    BY <1>3 DEF IsStack
  <2>1. CASE t = p
    BY <1>1, <2>1
  <2>2. CASE t # p
    <3>1. OnStack(t, g) /\ t \in ToSet(state[g].stack)
      BY <1>3, <2>2 DEF OnStack
    <3>2. t \in States /\ Live(t)
      BY <3>1, OnStackIsFinalizing
    <3> QED BY <1>1, <2>2, <3>1, <3>2 DEF IsStack, KeepsStack
  <2> QED BY <2>1, <2>2
<1>7. ASSUME NEW h \in States \ {g}, Live(h)', state'[h].stack # <<>>
      PROVE  IsStack(h)'
  <2>1. h # p /\ Live(h) /\ state'[h].stack = state[h].stack /\ IsStack(h)
    BY <1>1, <1>7 DEF KeepsStack, Stacks
  <2>2. ASSUME NEW t \in ToSet(state[h].stack), t # h
        PROVE  /\ state'[t].stage = "finalizing"
               /\ state'[t].stack = <<>> /\ ~state'[t].releasesChildren
    <3>1. OnStack(t, h) /\ t # p
      BY <1>2, <2>1, <2>2 DEF OnStack
    <3>2. t \in States /\ Live(t)
      BY <3>1, OnStackIsFinalizing
    <3>3. state[t].stack = <<>> /\ t # g
      BY <2>1, <2>2 DEF IsStack
    <3> QED BY <2>1, <2>2, <3>1, <3>2, <3>3 DEF IsStack, KeepsStack
  <2> QED BY <1>7, <2>1, <2>2 DEF IsStack, KeepsStack
<1>8. \A h, i, t \in States : OnStack(t, h)' /\ OnStack(t, i)' => h = i
  BY <1>2, <1>4, <1>5 DEF Stacks
<1>9. ASSUME NEW t \in States, Live(t)', state'[t].stage # "finalizing"
      PROVE  state'[t].stack = <<>> /\ ~state'[t].releasesChildren
  BY <1>9 DEF KeepsStack, Stacks
<1> QED BY <1>3, <1>6, <1>7, <1>8, <1>9 DEF Stacks

LEMMA ParentHasNoLeasesStructure ==
    ASSUME Structure, NEW g \in States, ParentHasNoLeases(g)
    PROVE  Structure'
<1>1. PICK f, p \in States :
              /\ f = Finalizing(g) /\ p = ParentToUpdate(g)
              /\ FirstParent(f, p) /\ OnStack(f, g)
              /\ Live(g) /\ Live(f) /\ Live(p) /\ g # p /\ f # p
              /\ state[g].stage = "finalizing" /\ state[f].stage = "finalizing"
              /\ state[p].stage = "waiting"
              /\ state[p].unfinalizedChildrenCount \in Nat
              /\ state[p].unfinalizedChildrenCount > 0
  BY UpdateBasics DEF ParentHasNoLeases
<1> DEFINE u == Propagated(p, f)
           result == IF u.childErr THEN "Error" ELSE "Incomplete"
           outcome == OutcomeOf(result)
           x == [u EXCEPT !.stage = "finalizing", !.outcome = outcome]
           a == Told(g, f)
           q == Append(state[g].stack, p)
           h == [a EXCEPT !.stack = q]
<1>2. TypeOK
  BY DEF Structure
<1>3. result \in Results
  BY DEF Results
<1>4. /\ UpdatedParent(p, x) /\ x.stage = "finalizing"
      /\ x.stack = state[p].stack /\ x.releasesChildren = state[p].releasesChildren
      /\ u.wanted = state[p].wanted
  <2>1. u.unfinalizedChildrenCount = 0
    BY <1>1 DEF ParentHasNoLeases
  <2>2. /\ u \in ObjectStates
        /\ u.reference = state[p].reference /\ u.wanted = state[p].wanted
        /\ u.result = state[p].result
        /\ u.unfinalizedParents = state[p].unfinalizedParents
        /\ u.unfinalizedChildrenCount = state[p].unfinalizedChildrenCount - 1
        /\ u.stack = state[p].stack /\ u.releasesChildren = state[p].releasesChildren
    <3>1. PropagatesInto(Propagated(p, f), p, f)
      BY <1>1, <1>2, PropagatedFields
    <3> QED BY <1>1, <3>1 DEF PropagatesInto
  <2>3. outcome \in Outcomes
    <3> HIDE DEF result
    <3> QED BY <1>3, OutcomeType
  <2> HIDE DEF u, outcome
  <2>4. /\ x \in ObjectStates /\ x.stage = "finalizing"
        /\ x.reference = u.reference /\ x.wanted = u.wanted
        /\ x.result = u.result
        /\ x.unfinalizedParents = u.unfinalizedParents
        /\ x.unfinalizedChildrenCount = u.unfinalizedChildrenCount
        /\ x.stack = u.stack /\ x.releasesChildren = u.releasesChildren
    BY <2>2, <2>3 DEF ObjectStates, Stages
  <2> HIDE DEF x
  <2> QED BY <1>1, <2>1, <2>2, <2>4 DEF UpdatedParent
<1>5. /\ UpdatedGoroutine(g, f, h)
      /\ h.stack = q /\ h.releasesChildren = state[g].releasesChildren
  <2>1. /\ UpdatedGoroutine(g, f, a) /\ a \in ObjectStates
        /\ a.stack = state[g].stack /\ a.releasesChildren = state[g].releasesChildren
    <3> HIDE DEF a
    <3> QED BY <1>1, ToldFields DEF UpdatedGoroutine, a
  <2>2. q \in Seq(States)
    BY <1>1, <1>2, Fields, ToSetAppend
  <2> HIDE DEF a, q
  <2>3. /\ h \in ObjectStates /\ h.stage = a.stage
        /\ h.reference = a.reference /\ h.wanted = a.wanted /\ h.result = a.result
        /\ h.unfinalizedParents = a.unfinalizedParents
        /\ h.unfinalizedChildrenCount = a.unfinalizedChildrenCount
        /\ h.stack = q /\ h.releasesChildren = a.releasesChildren
    BY <2>1, <2>2 DEF ObjectStates
  <2> HIDE DEF h
  <2> QED BY <2>1, <2>3 DEF UpdatedGoroutine
<1>6. TellsWith(g, f, p, x, h)
  <2>1. state' = [[state EXCEPT ![f].unfinalizedParents = Tail(@), ![p] = x]
                    EXCEPT ![g].stack = Append(@, p)]
    BY <1>1 DEF ParentHasNoLeases, WithParent
  <2>2. [state EXCEPT ![f].unfinalizedParents = Tail(@), ![p] = x][g] = a
    <3> HIDE DEF x
    <3> QED BY <1>1, <1>2 DEF Told, TypeOK
  <2>3. a.stack = state[g].stack
    BY <1>1, ToldFields
  <2> HIDE DEF x, a
  <2> QED BY <2>1, <2>2, <2>3 DEF TellsWith
<1> HIDE DEF x, h
<1>7. /\ TellsParent(f, p)
      /\ state' \in [States -> {NoState} \cup ObjectStates]
      /\ state'[p] = x /\ state'[g] = h
      /\ \A t \in States \ {f, g, p} : state'[t] = state[t]
      /\ g # f => state'[f] = Told(f, f)
  BY <1>1, <1>4, <1>5, <1>6, TellsWithParent
<1>8. Detach({p}) /\ Unblock(p, result, u.wanted)
  BY <1>1 DEF ParentHasNoLeases
<1> HIDE DEF result, u, a
<1>9. TypeOK'
  <2>1. objectsByReference' \in [Objects -> States \cup {None}]
    BY <1>8, DetachReferences DEF Structure
  <2>2. caller' \in [Callers -> CallStates]
    BY <1>1, <1>2, <1>3, <1>4, <1>8, Fields, UnblockType
  <2>3. UNCHANGED <<remaining, lock, exists, leased, calls, errors, expirations>>
    BY DEF ParentHasNoLeases, backend, bounds
  <2> QED BY <1>2, <1>7, <2>1, <2>2, <2>3 DEF TypeOK
<1>10. ReferencesAreLive'
  <2>1. p \in {p}
    OBVIOUS
  <2> QED BY <1>1, <1>7, <1>8, <2>1, TellsParentReferences
<1>11. ParentsWait' /\ WaitsForLiveChildren' /\ WantedAreChildren'
  BY <1>1, <1>7, TellsParentStructure
<1>12. Stacks'
  <2>1. g # f => KeepsStack(f)
    BY <1>1, <1>7, ToldFields DEF KeepsStack, TellsParent
  <2>2. \A t \in States \ {g, p} : KeepsStack(t)
    BY <1>1, <1>7, <2>1 DEF KeepsStack, TellsParent
  <2>3. lock' = g /\ state[g].stack # <<>> /\ Stacks
    BY LockHolder DEF ParentHasNoLeases, HasParentToUpdate, Structure
  <2>4. /\ Live(g)' /\ Live(p)'
        /\ state'[g].stack = Append(state[g].stack, p) /\ state'[g].stage = "finalizing"
        /\ state'[g].releasesChildren = state[g].releasesChildren
        /\ state'[p].stack = state[p].stack /\ state'[p].stage = "finalizing"
        /\ state'[p].releasesChildren = state[p].releasesChildren
    BY <1>1, <1>4, <1>5, <1>7 DEF TellsParent
  <2> QED BY <1>1, <1>2, <2>2, <2>3, <2>4, PushedStacks
<1> QED BY <1>9, <1>10, <1>11, <1>12 DEF Structure

-----------------------------------------------------------------------------
(* An objectState goes away. *)
LEMMA ReleasedType ==
    ASSUME TypeOK, NEW o \in Objects
    PROVE  /\ ReleaseParent(remaining, o) \in [count : Nat, sizeBytes : Nat]
           /\ ReleaseChildren(remaining, o) \in [count : Nat, sizeBytes : Nat]
           /\ ReleaseChildren(ReleaseParent(remaining, o), o) \in [count : Nat, sizeBytes : Nat]
  BY ReferencesAssumption DEF TypeOK, ReleaseParent, ReleaseChildren

LEMMA ReleaseObjectStructure ==
    ASSUME Structure, NEW g \in States, ReleaseObject(g)
    PROVE  Structure'
<1>1. PICK s \in States : s = Finalizing(g)
  BY LockHolder DEF ReleaseObject
<1>2. /\ TypeOK /\ Live(g) /\ Live(s) /\ IsStack(g) /\ OnStack(s, g)
      /\ state[g].stage = "finalizing" /\ state[s].stage = "finalizing"
      /\ state[g].stack # <<>> /\ state[g].stack \in Seq(States)
      /\ IsInjective(state[g].stack) /\ state[s].unfinalizedParents = <<>>
      /\ state[g] \in ObjectStates /\ state[s].reference \in Objects
  BY <1>1, LockHolder, LiveStates, Fields DEF ReleaseObject, Structure
<1> DEFINE h == [state[g] EXCEPT !.stack = Front(@)]
<1>3. /\ Front(state[g].stack) \in Seq(States) /\ IsInjective(Front(state[g].stack))
      /\ ToSet(Front(state[g].stack)) = ToSet(state[g].stack) \ {s}
      /\ s # g => Front(state[g].stack) # <<>> /\ Front(state[g].stack)[1] = g
      /\ s = g => ToSet(state[g].stack) = {g}
  <2>1. s = Last(state[g].stack) /\ g = state[g].stack[1]
    BY <1>1, <1>2 DEF Finalizing, IsStack
  <2>2. ToSet(<<g>>) = {g}
    BY DEF ToSet
  <2> QED BY <1>2, <2>1, <2>2, ToSetFront
<1>4. /\ h \in ObjectStates /\ h.stack = Front(state[g].stack)
      /\ h.stage = "finalizing" /\ h.releasesChildren = state[g].releasesChildren
      /\ h.reference = state[g].reference /\ h.wanted = state[g].wanted
      /\ h.unfinalizedParents = state[g].unfinalizedParents
  BY <1>2, <1>3 DEF ObjectStates
<1> HIDE DEF h
<1>5. /\ state' \in [States -> {NoState} \cup ObjectStates]
      /\ state'[s] = NoState
      /\ s # g => state'[g] = h
      /\ \A t \in States \ {s, g} : state'[t] = state[t]
  <2>1. CASE s = g
    BY <1>1, <1>2, <2>1 DEF ReleaseObject, TypeOK
  <2>2. CASE s # g
    <3>1. state' = [state EXCEPT ![s] = NoState, ![g] = h]
      BY <1>1, <1>2, <2>2 DEF ReleaseObject, TypeOK, h
    <3> QED BY <1>2, <1>4, <2>2, <3>1 DEF TypeOK
  <2> QED BY <2>1, <2>2
<1>6. /\ ~Live(s)'
      /\ s # g => Live(g)'
      /\ \A t \in States \ {s, g} : Live(t)' <=> Live(t)
  BY <1>4, <1>5 DEF Live, NoState
<1>7. TypeOK'
  <2>1. remaining' \in [count : Nat, sizeBytes : Nat]
    <3>1. CASE s = g
      BY <1>1, <1>2, <3>1, ReleasedType DEF ReleaseObject
    <3>2. CASE s # g
      BY <1>1, <1>2, <3>2, ReleasedType DEF ReleaseObject
    <3> QED BY <3>1, <3>2
  <2>2. lock' \in States \cup {None}
    BY <1>2 DEF ReleaseObject, TypeOK
  <2>3. UNCHANGED <<objectsByReference, caller, exists, leased, calls, errors, expirations>>
    BY DEF ReleaseObject, backend, bounds
  <2> QED BY <1>2, <1>5, <2>1, <2>2, <2>3 DEF TypeOK
<1>8. ReferencesAreLive'
  <2>1. UNCHANGED objectsByReference
    BY DEF ReleaseObject
  <2> SUFFICES ASSUME NEW o \in Objects, objectsByReference[o] # None
               PROVE  LET t == objectsByReference[o]
                      IN  /\ state'[t] # NoState /\ state'[t].reference = o
                          /\ state'[t].stage # "finalizing"
    BY <2>1 DEF ReferencesAreLive, Live
  <2>2. /\ objectsByReference[o] \in States \ {s, g}
        /\ Live(objectsByReference[o]) /\ state[objectsByReference[o]].reference = o
        /\ state[objectsByReference[o]].stage # "finalizing"
    BY <1>2 DEF Structure, ReferencesAreLive, TypeOK
  <2> QED BY <1>5, <2>2 DEF Live
<1>9. \A t \in States : \A p : Holds(t, p)' <=> Holds(t, p)
  BY <1>2, <1>4, <1>5, <1>6, NothingInEmpty DEF Holds, Live
<1>10. ParentsWait'
  <2>1. ASSUME NEW t \in States, Live(t)'
        PROVE  IsInjective(state'[t].unfinalizedParents)
    BY <1>2, <1>4, <1>5, <1>6, <2>1 DEF Structure, ParentsWait
  <2>2. ASSUME NEW t \in States, NEW p \in States, Holds(t, p)'
        PROVE  state'[p].stage = "waiting"
    <3>1. state[p].stage = "waiting"
      BY <1>9, <2>2 DEF Structure, ParentsWait, Holds
    <3> QED BY <1>2, <1>5, <3>1
  <2> QED BY <2>1, <2>2 DEF ParentsWait
<1>11. WaitsForLiveChildren'
  <2>1. ASSUME NEW t \in States, state'[t].stage = "waiting"
        PROVE  state'[t] = state[t]
    BY <1>4, <1>5, <2>1 DEF NoState
  <2>2. \A t \in States : Holders(t)' = Holders(t)
    BY <1>9 DEF Holders
  <2>3. \A t \in States : WaitsFor(t)
    BY WaitsForHolders DEF Structure
  <2> QED BY <2>1, <2>2, <2>3, WaitsForHoldersNext DEF WaitsFor
<1>12. WantedAreChildren'
  BY <1>2, <1>4, <1>5, <1>6 DEF Structure, WantedAreChildren
<1>13. Stacks'
  <2>1. OnStack(g, g) /\ \A t \in States : OnStack(t, g)' <=> OnStack(t, g) /\ t # s
    <3>1. CASE s = g
      BY <1>2, <1>3, <1>6, <3>1 DEF OnStack
    <3>2. CASE s # g
      <4>1. g \in ToSet(state[g].stack)
        BY <1>2, LenProperties, EmptySeq DEF ToSet, IsStack
      <4> QED BY <1>2, <1>3, <1>4, <1>5, <1>6, <3>2, <4>1 DEF OnStack
    <3> QED BY <3>1, <3>2
  <2>2. s # g => state[s].stack = <<>>
    BY <1>2 DEF IsStack, OnStack
  <2>3. \A i \in States \ {g} : \A t \in States : OnStack(t, i)' <=> OnStack(t, i)
    BY <1>5, <1>6, <2>2, NothingInEmpty DEF OnStack
  <2>4. \A i, t \in States : i # g /\ OnStack(t, i) => t # s /\ t # g
    BY <1>2, <2>1 DEF Structure, Stacks
  <2>5. ASSUME NEW i \in States, Live(i)', state'[i].stack # <<>>
        PROVE  IsStack(i)'
    <3>1. CASE i = g
      <4>1. s # g /\ state'[g] = h
        BY <1>5, <1>6, <2>5, <3>1
      <4>2. ASSUME NEW t \in ToSet(state'[g].stack), t # g
            PROVE  /\ state'[t].stage = "finalizing"
                   /\ state'[t].stack = <<>> /\ ~state'[t].releasesChildren
        <5>1. t \in ToSet(state[g].stack) /\ t # s
          BY <1>3, <1>4, <4>1, <4>2
        <5>2. t \in States
          BY <1>2, <5>1, OnStackIsFinalizing DEF OnStack, Structure
        <5> QED BY <1>2, <1>5, <4>2, <5>1, <5>2 DEF IsStack
      <4> QED BY <1>3, <1>4, <3>1, <4>1, <4>2 DEF IsStack
    <3>2. CASE i # g
      <4>1. i # s /\ state'[i] = state[i] /\ Live(i) /\ IsStack(i)
        BY <1>5, <1>6, <2>5, <3>2 DEF Structure, Stacks
      <4>2. \A t \in ToSet(state[i].stack) : t \in States /\ t # s /\ t # g
        BY <2>4, <3>2, <4>1, OnStackIsFinalizing DEF OnStack, Structure
      <4> QED BY <1>5, <4>1, <4>2 DEF IsStack
    <3> QED BY <3>1, <3>2
  <2>6. \A i, j, t \in States : OnStack(t, i)' /\ OnStack(t, j)' => i = j
    BY <2>1, <2>3 DEF Structure, Stacks
  <2>7. ASSUME NEW t \in States, Live(t)', state'[t].stage # "finalizing"
        PROVE  state'[t].stack = <<>> /\ ~state'[t].releasesChildren
    BY <1>4, <1>5, <1>6, <2>7 DEF Structure, Stacks
  <2>8. ASSUME lock' # None PROVE Live(lock)' /\ state'[lock'].stack # <<>>
    <3>1. s # g /\ lock' = g
      BY <1>1, <2>8 DEF ReleaseObject
    <3> QED BY <1>3, <1>4, <1>5, <1>6, <3>1 DEF Live
  <2> QED BY <2>5, <2>6, <2>7, <2>8 DEF Stacks
<1> QED BY <1>7, <1>8, <1>10, <1>11, <1>12, <1>13 DEF Structure

-----------------------------------------------------------------------------
LEMMA StructureInit ==
    ASSUME Init
    PROVE  Structure
<1>1. \A s \in States : ~Live(s) /\ state[s].stage = "none"
  BY DEF Init, Live, NoState
<1>2. TypeOK
  BY MaximumAssumption DEF Init, TypeOK, Maximum, CallStates
<1>3. ReferencesAreLive /\ ParentsWait /\ WaitsForLiveChildren /\ WantedAreChildren
  BY <1>1 DEF Init, ReferencesAreLive, ParentsWait, WaitsForLiveChildren, WantedAreChildren
<1>4. Stacks
  BY <1>1 DEF Init, Stacks, OnStack
<1> QED BY <1>2, <1>3, <1>4 DEF Structure

LEMMA StructureNext ==
    ASSUME Structure, [Next]_vars
    PROVE  Structure'
<1>1. TypeOK /\ WantedAreChildren
  BY DEF Structure
<1>2. CASE UNCHANGED vars
  BY <1>2 DEF vars, backend, bounds, Structure, TypeOK, ReferencesAreLive, ParentsWait,
         WaitsForLiveChildren, WantedAreChildren, Stacks, IsStack, OnStack, Holds, Live
<1>3. ASSUME NEW c \in Callers, NEW o \in Objects, UploadObject(c, o)
      PROVE  Structure'
  BY <1>3, UploadObjectStructure
<1>4. ASSUME NEW c \in Objects, Expire(c)
      PROVE  Structure'
  BY <1>1, <1>4, ExpireQuiet, QuietStructure
<1>5. ASSUME NEW s \in States, Step(s) \/ UploadFails(s)
      PROVE  Structure'
  <2>1. CASE GetPendingObject(s)
    BY <1>1, <2>1, GetPendingObjectType, GetPendingObjectQuiet, QuietStructure
  <2>2. CASE ProcessSingleObject(s)
    BY <1>1, <2>2, ProcessSingleObjectQuiet, QuietStructure
  <2>3. CASE FirstUpload(s)
    BY <1>1, <2>3, FirstUploadQuiet, QuietStructure
  <2>4. CASE SecondUpload(s)
    BY <1>1, <2>4, SecondUploadQuiet, QuietStructure
  <2>5. CASE FinishFirst(s)
    BY <2>5, FinishFirstStructure
  <2>6. CASE QueueChildren(s)
    BY <2>6, QueueChildrenStructure
  <2>7. CASE FinishSecond(s)
    BY <2>7, FinishSecondStructure
  <2>8. CASE ParentStillWaits(s)
    BY <2>8, ParentStillWaitsStructure
  <2>9. CASE ParentHasNoLeases(s)
    BY <2>9, ParentHasNoLeasesStructure
  <2>10. CASE ParentHasLeases(s)
    BY <2>10, ParentHasLeasesStructure
  <2>11. CASE StartSecondUpload(s)
    BY <1>1, <2>11, StartSecondUploadQuiet, QuietStructure
  <2>12. CASE Relock(s)
    BY <2>12, RelockStructure
  <2>13. CASE ReleaseObject(s)
    BY <2>13, ReleaseObjectStructure
  <2>14. CASE UploadFails(s)
    BY <1>1, <2>14, UploadFailsQuiet, QuietStructure
  <2> QED BY <1>5, <2>1, <2>2, <2>3, <2>4, <2>5, <2>6, <2>7, <2>8, <2>9, <2>10, <2>11,
             <2>12, <2>13, <2>14 DEF Step
<1> QED BY <1>2, <1>3, <1>4, <1>5 DEF Next

(* The counts by which parents wait for their children are right: no       *)
(* finalization of a child is missed or counted twice, also if the child   *)
(* is shared between parents, was being traversed already, or is finalized *)
(* while its goroutine has released the lock to update another parent.     *)
THEOREM ParentsWaitForLiveChildren == Spec => []WaitsForLiveChildren
<1>1. Init => Structure
  BY StructureInit
<1>2. Structure /\ [Next]_vars => Structure'
  BY StructureNext
<1>3. Structure => WaitsForLiveChildren
  BY DEF Structure
<1> QED BY <1>1, <1>2, <1>3, PTL DEF Spec

-----------------------------------------------------------------------------
(* The limit. *)
LEMMA HeldType ==
    ASSUME TypeOK, NEW s \in States
    PROVE  HeldBy(s).count \in Nat /\ HeldBy(s).sizeBytes \in Nat
<1>1. CASE state[s].stage \in {"none", "pending"}
  BY <1>1 DEF HeldBy, Nothing
<1>2. CASE state[s].stage \notin {"none", "pending"}
  <2>1. state[s].reference \in Objects
    BY <1>2, LiveStates, Fields
  <2> QED BY <1>2, <2>1, ReferencesAssumption DEF HeldBy, ParentAndChildren, ParentOnly
<1> QED BY <1>1, <1>2

LEMMA HeldTypeNext ==
    ASSUME TypeOK', NEW s \in States
    PROVE  HeldBy(s)'.count \in Nat /\ HeldBy(s)'.sizeBytes \in Nat
<1>1. CASE state'[s].stage \in {"none", "pending"}
  BY <1>1 DEF HeldBy, Nothing
<1>2. CASE state'[s].stage \notin {"none", "pending"}
  <2>1. state'[s].reference \in Objects
    BY <1>2 DEF TypeOK, ObjectStates, NoState
  <2> QED BY <1>2, <2>1, ReferencesAssumption DEF HeldBy, ParentAndChildren, ParentOnly
<1> QED BY <1>1, <1>2

(* What is held by s changes from c to d, and what remains from r to q. *)
Moves(s, r, q, c, d) ==
    /\ r \in Nat /\ q \in Nat
    /\ c \in [States -> Nat] /\ d \in [States -> Nat]
    /\ \A t \in States \ {s} : c[t] = d[t]
    /\ q + d[s] = r + c[s]

LEMMA SumMoves ==
    ASSUME NEW s \in States, NEW r, NEW q, NEW c, NEW d, Moves(s, r, q, c, d)
    PROVE  q + SumFunction(d) = r + SumFunction(c)
<1> USE DEF Moves
<1>1. c \in [States -> Int] /\ d \in [States -> Int]
  OBVIOUS
<1>2. SumFunction(d) = SumFunction(c) - c[s] + d[s]
  BY <1>1, StatesFinite, SumChanged
<1>3. SumFunction(c) \in Nat /\ SumFunction(d) \in Nat
  BY StatesFinite, SumType
<1>4. c[s] \in Nat /\ d[s] \in Nat
  OBVIOUS
<1> QED BY <1>2, <1>3, <1>4

(* What one objectState acquires is taken from what remains. *)
LEMMA LimitMoves ==
    ASSUME TypeOK, TypeOK', LimitConserved, NEW s \in States,
           \A t \in States \ {s} : HeldBy(t)' = HeldBy(t),
           remaining'.count + HeldBy(s)'.count = remaining.count + HeldBy(s).count,
           remaining'.sizeBytes + HeldBy(s)'.sizeBytes
               = remaining.sizeBytes + HeldBy(s).sizeBytes
    PROVE  LimitConserved'
<1> DEFINE c == [t \in States |-> HeldBy(t).count]
           d == [t \in States |-> HeldBy(t)'.count]
           x == [t \in States |-> HeldBy(t).sizeBytes]
           y == [t \in States |-> HeldBy(t)'.sizeBytes]
<1>1. c \in [States -> Nat] /\ d \in [States -> Nat] /\ x \in [States -> Nat] /\ y \in [States -> Nat]
  BY HeldType, HeldTypeNext
<1>2. /\ remaining'.count + d[s] = remaining.count + c[s]
      /\ remaining'.sizeBytes + y[s] = remaining.sizeBytes + x[s]
      /\ \A t \in States \ {s} : c[t] = d[t] /\ x[t] = y[t]
  OBVIOUS
<1>3. /\ LimitConserved <=> /\ remaining.count + SumFunction(c) = MaximumCount
                            /\ remaining.sizeBytes + SumFunction(x) = MaximumSizeBytes
      /\ LimitConserved' <=> /\ remaining'.count + SumFunction(d) = MaximumCount
                             /\ remaining'.sizeBytes + SumFunction(y) = MaximumSizeBytes
  BY DEF LimitConserved
<1> HIDE DEF c, d, x, y
<1>4. /\ remaining.count \in Nat /\ remaining'.count \in Nat
      /\ remaining.sizeBytes \in Nat /\ remaining'.sizeBytes \in Nat
  BY DEF TypeOK
<1>5. /\ Moves(s, remaining.count, remaining'.count, c, d)
      /\ Moves(s, remaining.sizeBytes, remaining'.sizeBytes, x, y)
  BY <1>1, <1>2, <1>4 DEF Moves
<1>6. /\ remaining'.count + SumFunction(d) = remaining.count + SumFunction(c)
      /\ remaining'.sizeBytes + SumFunction(y) = remaining.sizeBytes + SumFunction(x)
  BY <1>5, SumMoves
<1> QED BY <1>3, <1>6

LEMMA LimitKept ==
    ASSUME TypeOK, TypeOK', LimitConserved, UNCHANGED remaining,
           \A t \in States : HeldBy(t)' = HeldBy(t)
    PROVE  LimitConserved'
<1>1. [t \in States |-> HeldBy(t).count] = [t \in States |-> HeldBy(t)'.count]
  OBVIOUS
<1>2. [t \in States |-> HeldBy(t).sizeBytes] = [t \in States |-> HeldBy(t)'.sizeBytes]
  OBVIOUS
<1> QED BY <1>1, <1>2 DEF LimitConserved

-----------------------------------------------------------------------------
(* What steps do to the fields that say what objectStates know and hold.   *)
SameFields(t) ==
    /\ Live(t) /\ Live(t)'
    /\ state'[t].reference = state[t].reference
    /\ state'[t].result = state[t].result
    /\ state'[t].wanted = state[t].wanted
    /\ state'[t].originalIncompleteResult = state[t].originalIncompleteResult
    /\ state'[t].leases = state[t].leases
    /\ state'[t].gotNoLease = state[t].gotNoLease
    /\ state'[t].childErr = state[t].childErr
    /\ state'[t].outcome = state[t].outcome
    /\ state'[t].releasesChildren = state[t].releasesChildren
Kept(t) == SameFields(t) /\ state'[t].stage = state[t].stage
Fresh(t) ==
    /\ ~Live(t) /\ Live(t)'
    /\ state'[t].stage = "pending"
    /\ state'[t].leases = {} /\ state'[t].gotNoLease = {} /\ ~state'[t].childErr

Spared(t) == Kept(t) \/ Fresh(t) \/ (~Live(t) /\ ~Live(t)')
KeptHolders == \A t, p \in States : Holds(t, p) =>
                   Holds(t, p)' /\ state'[t].reference = state[t].reference

LEMMA SameIsSpared ==
    ASSUME NEW t \in States, state'[t] = state[t]
    PROVE  Spared(t)
  BY DEF Spared, Kept, SameFields, Live

LEMMA QuietKeepsHolders ==
    ASSUME QuietStep
    PROVE  KeptHolders
  BY QuietHolds DEF KeptHolders, QuietStep, KeepsShape, Holds

LEMMA SparedHeld ==
    ASSUME TypeOK, NEW t \in States, Spared(t)
    PROVE  HeldBy(t)' = HeldBy(t)
<1>1. CASE Kept(t)
  BY <1>1 DEF Kept, SameFields, HeldBy
<1>2. CASE Fresh(t)
  BY <1>2 DEF Fresh, HeldBy, Live, NoState
<1>3. CASE ~Live(t) /\ ~Live(t)'
  BY <1>3 DEF HeldBy, Live
<1> QED BY <1>1, <1>2, <1>3 DEF Spared

-----------------------------------------------------------------------------
LEMMA GetPendingObjectEffect ==
    ASSUME TypeOK, NEW s \in States, GetPendingObject(s)
    PROVE  /\ SameFields(s) /\ state'[s].stage = "popped"
           /\ \A t \in States \ {s} : Spared(t)
<1>1. Live(s) /\ state[s] \in ObjectStates
  BY LiveStates DEF GetPendingObject
<1>2. state' = [state EXCEPT ![s] = [state[s] EXCEPT !.stage = "popped"]]
  BY DEF GetPendingObject, TypeOK
<1>3. \A t \in States \ {s} : Spared(t)
  BY <1>2, SameIsSpared DEF TypeOK
<1> DEFINE b == [state[s] EXCEPT !.stage = "popped"]
<1>4. /\ b \in ObjectStates /\ b # NoState /\ b.stage = "popped"
      /\ b.reference = state[s].reference /\ b.result = state[s].result
      /\ b.wanted = state[s].wanted
      /\ b.originalIncompleteResult = state[s].originalIncompleteResult
      /\ b.leases = state[s].leases /\ b.gotNoLease = state[s].gotNoLease
      /\ b.childErr = state[s].childErr /\ b.outcome = state[s].outcome
      /\ b.releasesChildren = state[s].releasesChildren
  BY <1>1 DEF ObjectStates, Stages, NoState
<1>5. state'[s] = b
  BY <1>2 DEF TypeOK
<1> HIDE DEF b
<1> QED BY <1>1, <1>3, <1>4, <1>5 DEF SameFields, Live

LEMMA ProcessSingleObjectEffect ==
    ASSUME TypeOK, NEW s \in States, ProcessSingleObject(s)
    PROVE  /\ SameFields(s) /\ state'[s].stage = "first"
           /\ \A t \in States \ {s} : Spared(t)
<1>1. Live(s) /\ state[s] \in ObjectStates
  BY LiveStates DEF ProcessSingleObject
<1>2. state' = [state EXCEPT ![s] = [state[s] EXCEPT !.stage = "first"]]
  BY DEF ProcessSingleObject, TypeOK
<1>3. \A t \in States \ {s} : Spared(t)
  BY <1>2, SameIsSpared DEF TypeOK
<1> DEFINE b == [state[s] EXCEPT !.stage = "first"]
<1>4. /\ b \in ObjectStates /\ b # NoState /\ b.stage = "first"
      /\ b.reference = state[s].reference /\ b.result = state[s].result
      /\ b.wanted = state[s].wanted
      /\ b.originalIncompleteResult = state[s].originalIncompleteResult
      /\ b.leases = state[s].leases /\ b.gotNoLease = state[s].gotNoLease
      /\ b.childErr = state[s].childErr /\ b.outcome = state[s].outcome
      /\ b.releasesChildren = state[s].releasesChildren
  BY <1>1 DEF ObjectStates, Stages, NoState
<1>5. state'[s] = b
  BY <1>2 DEF TypeOK
<1> HIDE DEF b
<1> QED BY <1>1, <1>3, <1>4, <1>5 DEF SameFields, Live

(* The backend has answered. *)
Answered(s, stage, result, wanted) ==
    /\ Live(s)' /\ state'[s].stage = stage
    /\ state'[s].result = result /\ state'[s].wanted = wanted
    /\ state'[s].reference = state[s].reference
    /\ state'[s].leases = state[s].leases
    /\ state'[s].gotNoLease = state[s].gotNoLease
    /\ state'[s].childErr = state[s].childErr
    /\ state'[s].releasesChildren = state[s].releasesChildren

LEMMA AnsweredEffect ==
    ASSUME TypeOK, NEW s \in States, Live(s), NEW stage \in {"firstDone", "secondDone"},
           NEW result \in Results, NEW wanted \in SUBSET Objects,
           state' = [state EXCEPT ![s] =
               [state[s] EXCEPT !.stage = stage, !.result = result, !.wanted = wanted]]
    PROVE  Answered(s, stage, result, wanted) /\ \A t \in States \ {s} : Spared(t)
<1>1. state[s] \in ObjectStates
  BY LiveStates
<1>2. \A t \in States \ {s} : Spared(t)
  BY SameIsSpared DEF TypeOK
<1> DEFINE b == [state[s] EXCEPT !.stage = stage, !.result = result, !.wanted = wanted]
<1>3. /\ b # NoState /\ b.stage = stage /\ b.result = result /\ b.wanted = wanted
      /\ b.reference = state[s].reference
      /\ b.leases = state[s].leases /\ b.gotNoLease = state[s].gotNoLease
      /\ b.childErr = state[s].childErr
      /\ b.releasesChildren = state[s].releasesChildren
  BY <1>1 DEF ObjectStates, Stages, NoState
<1>4. state'[s] = b
  BY DEF TypeOK
<1> HIDE DEF b
<1> QED BY <1>2, <1>3, <1>4 DEF Answered, Live

LEMMA BaseUploadEffect ==
    ASSUME TypeOK, NEW s \in States, Live(s), NEW stage \in {"firstDone", "secondDone"},
           NEW accepted \in SUBSET Objects, BaseUpload(s, accepted, stage)
    PROVE  \E result \in Results, wanted \in SUBSET Objects :
              LET o == state[s].reference
                  missing == Children[o] \ (leased \cup accepted)
              IN  /\ Answered(s, stage, result, wanted)
                  /\ result = IF o \notin exists THEN "Missing"
                              ELSE IF missing = {} THEN "Complete" ELSE "Incomplete"
                  /\ wanted = IF result = "Incomplete" THEN missing ELSE {}
                  /\ \A t \in States \ {s} : Spared(t)
                  /\ leased' = IF o \in exists THEN leased \cup accepted ELSE leased
<1> DEFINE o == state[s].reference
           missing == Children[o] \ (leased \cup accepted)
           result == IF o \notin exists THEN "Missing"
                     ELSE IF missing = {} THEN "Complete" ELSE "Incomplete"
           wanted == IF result = "Incomplete" THEN missing ELSE {}
<1>1. missing \in SUBSET Objects
  BY Fields, ReferencesAssumption
<1>2. result \in Results /\ wanted \in SUBSET Objects
  BY <1>1 DEF Results
<1>3. state' = [state EXCEPT ![s] =
          [state[s] EXCEPT !.stage = stage, !.result = result, !.wanted = wanted]]
  BY DEF BaseUpload, TypeOK
<1>4. leased' = IF o \in exists THEN leased \cup accepted ELSE leased
  BY DEF BaseUpload
<1>5. Answered(s, stage, result, wanted) /\ \A t \in States \ {s} : Spared(t)
  <2> HIDE DEF result, wanted
  <2> QED BY <1>2, <1>3, AnsweredEffect
<1>6. /\ result = IF o \notin exists THEN "Missing"
                  ELSE IF missing = {} THEN "Complete" ELSE "Incomplete"
      /\ wanted = IF result = "Incomplete" THEN missing ELSE {}
  OBVIOUS
<1> HIDE DEF result, wanted
<1> QED BY <1>2, <1>4, <1>5, <1>6

LEMMA UploadFailsEffect ==
    ASSUME TypeOK, NEW s \in States, UploadFails(s)
    PROVE  \E result \in {"Error", "Missing"}, stage \in {"firstDone", "secondDone"} :
              /\ Answered(s, stage, result, {})
              /\ \/ state[s].stage = "first" /\ stage = "firstDone" /\ result = "Error"
                 \/ state[s].stage = "second" /\ stage = "secondDone"
              /\ \A t \in States \ {s} : Spared(t)
<1>1. Live(s)
  BY LiveStates DEF UploadFails
<1>2. PICK result \in {"Error", "Missing"}, stage \in {"firstDone", "secondDone"} :
        /\ state' = [state EXCEPT ![s] =
              [state[s] EXCEPT !.stage = stage, !.result = result, !.wanted = {}]]
        /\ \/ state[s].stage = "first" /\ stage = "firstDone" /\ result = "Error"
           \/ state[s].stage = "second" /\ stage = "secondDone"
  BY <1>1 DEF UploadFails, TypeOK
<1>3. result \in Results /\ {} \in SUBSET Objects
  BY DEF Results
<1>4. Answered(s, stage, result, {}) /\ \A t \in States \ {s} : Spared(t)
  BY <1>1, <1>2, <1>3, AnsweredEffect
<1> QED BY <1>2, <1>4

LEMMA StartSecondUploadEffect ==
    ASSUME TypeOK, NEW g \in States, StartSecondUpload(g)
    PROVE  \E p \in States :
              /\ SameFields(p)
              /\ state[p].stage = "secondQueued" /\ state'[p].stage = "second"
              /\ \A t \in States \ {p} : Spared(t)
<1>1. Live(g) /\ state[g] \in ObjectStates
  BY LiveStates DEF StartSecondUpload
<1>2. PICK p \in States : p = state[g].waitsFor
  BY <1>1, Fields DEF StartSecondUpload
<1>3. Live(p) /\ state[p] \in ObjectStates /\ p # g /\ state[p].stage = "secondQueued"
  BY <1>2, LiveStates DEF StartSecondUpload
<1> DEFINE b == [state[p] EXCEPT !.stage = "second"]
           d == [state[g] EXCEPT !.waitsFor = None]
<1>4. state' = [state EXCEPT ![p] = b, ![g] = d]
  BY <1>2, <1>3 DEF StartSecondUpload, TypeOK
<1>5. /\ state'[p] = b /\ state'[g] = d
      /\ \A t \in States \ {p, g} : state'[t] = state[t]
  BY <1>3, <1>4 DEF TypeOK
<1>6. /\ b # NoState /\ b.stage = "second"
      /\ b.reference = state[p].reference /\ b.result = state[p].result
      /\ b.wanted = state[p].wanted
      /\ b.originalIncompleteResult = state[p].originalIncompleteResult
      /\ b.leases = state[p].leases /\ b.gotNoLease = state[p].gotNoLease
      /\ b.childErr = state[p].childErr /\ b.outcome = state[p].outcome
      /\ b.releasesChildren = state[p].releasesChildren
  BY <1>3 DEF ObjectStates, Stages, NoState
<1>7. /\ d # NoState /\ d.stage = state[g].stage
      /\ d.reference = state[g].reference /\ d.result = state[g].result
      /\ d.wanted = state[g].wanted
      /\ d.originalIncompleteResult = state[g].originalIncompleteResult
      /\ d.leases = state[g].leases /\ d.gotNoLease = state[g].gotNoLease
      /\ d.childErr = state[g].childErr /\ d.outcome = state[g].outcome
      /\ d.releasesChildren = state[g].releasesChildren
  BY <1>1 DEF ObjectStates, Stages, NoState
<1> HIDE DEF b, d
<1>8. SameFields(p) /\ state'[p].stage = "second"
  BY <1>3, <1>5, <1>6 DEF SameFields, Live
<1>9. Spared(g)
  BY <1>1, <1>5, <1>7 DEF Spared, Kept, SameFields, Live
<1> QED BY <1>3, <1>5, <1>8, <1>9, SameIsSpared

LEMMA UploadObjectEffect ==
    ASSUME TypeOK, ReferencesAreLive, NEW c \in Callers, NEW o \in Objects, UploadObject(c, o)
    PROVE  KeptHolders /\ \A t \in States : Spared(t)
<1>1. CASE ~CanAcquireParentAndChildren(Maximum, o)
  <2>1. UNCHANGED state
    BY <1>1 DEF UploadObject
  <2> QED BY <2>1, SameIsSpared DEF KeptHolders, Holds, Live
<1>2. CASE CanAcquireParentAndChildren(Maximum, o)
  <2>1. PICK s \in States, b \in ObjectStates :
              /\ Addresses({o}) # {} /\ s = Created({o})[o]
              /\ objectsByReference' = Created({o})
              /\ b = [StateAt(s, Created({o})) EXCEPT !.hasCallers = @ \cup {c}]
              /\ state' = [state EXCEPT ![s] = b]
              /\ caller' = [caller EXCEPT ![c] = [stage |-> "waiting", reference |-> o]]
    BY <1>2, UploadObjectAccepted
  <2> DEFINE a == StateAt(s, Created({o}))
  <2>2. /\ a \in ObjectStates /\ a.reference = o
        /\ Live(s) => a = state[s]
        /\ ~Live(s) => a = NewState(o)
    <3>1. {o} \in SUBSET Objects /\ o \in {o}
      OBVIOUS
    <3> QED BY <2>1, <3>1, StateAtCreated, ZenonT(60)
  <2> HIDE DEF a
  <2>3. /\ b # NoState /\ b.stage = a.stage
        /\ b.reference = a.reference /\ b.result = a.result
        /\ b.wanted = a.wanted /\ b.unfinalizedParents = a.unfinalizedParents
        /\ b.originalIncompleteResult = a.originalIncompleteResult
        /\ b.leases = a.leases /\ b.gotNoLease = a.gotNoLease
        /\ b.childErr = a.childErr /\ b.outcome = a.outcome
        /\ b.releasesChildren = a.releasesChildren
    BY <2>1, <2>2 DEF ObjectStates, a, NoState, Stages
  <2>4. state'[s] = b /\ \A t \in States \ {s} : state'[t] = state[t]
    BY <2>1 DEF TypeOK
  <2>5. Spared(s)
    <3>1. CASE Live(s)
      BY <2>2, <2>3, <2>4, <3>1 DEF Spared, Kept, SameFields, Live
    <3>2. CASE ~Live(s)
      BY <2>2, <2>3, <2>4, <3>2 DEF Spared, Fresh, Live, NewState
    <3> QED BY <3>1, <3>2
  <2>6. KeptHolders
    BY <2>2, <2>3, <2>4 DEF KeptHolders, Holds, Live
  <2> QED BY <2>4, <2>5, <2>6, SameIsSpared
<1> QED BY <1>1, <1>2

LEMMA QueueChildrenEffect ==
    ASSUME Structure, NEW s \in States, QueueChildren(s)
    PROVE  /\ KeptHolders
           /\ \A t \in States \ {s} : Spared(t)
           /\ Live(s) /\ Live(s)'
           /\ state[s].stage = "firstDone" /\ state[s].result = "Incomplete"
           /\ state'[s].stage = "waiting"
           /\ state'[s].reference = state[s].reference
           /\ state'[s].wanted = state[s].wanted
           /\ state'[s].leases = state[s].leases
           /\ state'[s].gotNoLease = state[s].gotNoLease
           /\ state'[s].childErr = state[s].childErr
           /\ state'[s].releasesChildren = state[s].releasesChildren
           /\ \A c \in state[s].wanted :
                 \E t \in States : Holds(t, s)' /\ state'[t].reference = c
<1>1. /\ TypeOK /\ ReferencesAreLive /\ Live(s) /\ state[s] \in ObjectStates
      /\ state[s].stage = "firstDone" /\ state[s].result = "Incomplete"
      /\ state[s].wanted \in SUBSET Objects /\ Addresses(state[s].wanted) # {}
  BY LiveStates, Fields DEF Structure, QueueChildren
<1>2. PICK by : by = Created(state[s].wanted)
  OBVIOUS
<1> DEFINE n == Cardinality(state[s].wanted)
           b == [state[s] EXCEPT !.stage = "waiting", !.originalIncompleteResult = TRUE,
                                 !.unfinalizedChildrenCount = n]
<1>3. /\ state'[s] = b
      /\ \A t \in States \ {s} : ~IsQueued(s, t, by) => state'[t] = state[t]
  BY <1>2 DEF QueueChildren, IsQueued
<1> HIDE DEF n
<1>4. /\ b # NoState /\ b.stage = "waiting" /\ b.reference = state[s].reference
      /\ b.wanted = state[s].wanted
      /\ b.leases = state[s].leases /\ b.gotNoLease = state[s].gotNoLease
      /\ b.childErr = state[s].childErr
      /\ b.releasesChildren = state[s].releasesChildren
      /\ b.unfinalizedParents = state[s].unfinalizedParents
  BY <1>1 DEF ObjectStates, NoState
<1> HIDE DEF b
<1>5. ASSUME NEW t \in States, IsQueued(s, t, by)
      PROVE  Spared(t) /\ \A p : Holds(t, p)' <=> Holds(t, p) \/ p = s
  <2>1. /\ t # s /\ Live(t)'
        /\ Live(t) => state'[t] = [state[t] EXCEPT
                 !.unfinalizedParents = Append(state[t].unfinalizedParents, s)]
        /\ ~Live(t) => \E c \in Objects :
                 state'[t] = [NewState(c) EXCEPT !.unfinalizedParents = <<s>>]
        /\ \A p : Holds(t, p)' <=> Holds(t, p) \/ p = s
    <3>1. /\ t # s
          /\ Live(t) => state'[t] = [state[t] EXCEPT
                   !.unfinalizedParents = Append(state[t].unfinalizedParents, s)]
          /\ ~Live(t) => \E c \in Objects :
                   state'[t] = [NewState(c) EXCEPT !.unfinalizedParents = <<s>>]
      BY <1>2, <1>5, QueuedStates
    <3>2. Live(t)' /\ \A p : Holds(t, p)' <=> Holds(t, p) \/ p = s
      BY <1>2, <1>5, QueuedFields
    <3> QED BY <3>1, <3>2
  <2>2. CASE Live(t)
    <3>1. state[t] \in ObjectStates
      BY <1>1, <2>2, LiveStates
    <3> DEFINE d == [state[t] EXCEPT
                 !.unfinalizedParents = Append(state[t].unfinalizedParents, s)]
    <3>2. /\ d.stage = state[t].stage
          /\ d.reference = state[t].reference /\ d.result = state[t].result
          /\ d.wanted = state[t].wanted
          /\ d.originalIncompleteResult = state[t].originalIncompleteResult
          /\ d.leases = state[t].leases /\ d.gotNoLease = state[t].gotNoLease
          /\ d.childErr = state[t].childErr /\ d.outcome = state[t].outcome
          /\ d.releasesChildren = state[t].releasesChildren
      BY <3>1 DEF ObjectStates
    <3>3. state'[t] = d
      BY <2>1, <2>2
    <3> HIDE DEF d
    <3> QED BY <2>1, <2>2, <3>2, <3>3 DEF Spared, Kept, SameFields
  <2>3. CASE ~Live(t)
    BY <2>1, <2>3 DEF Spared, Fresh, NewState
  <2> QED BY <2>1, <2>2, <2>3
<1>6. \A t \in States \ {s} : Spared(t)
  BY <1>3, <1>5, SameIsSpared
<1>7. KeptHolders
  <2>1. ASSUME NEW t \in States, NEW p \in States, Holds(t, p)
        PROVE  Holds(t, p)' /\ state'[t].reference = state[t].reference
    <3>1. CASE t = s
      BY <1>3, <1>4, <2>1, <3>1 DEF Holds, Live
    <3>2. CASE IsQueued(s, t, by)
      BY <1>5, <2>1, <3>2 DEF Spared, Kept, SameFields, Fresh, Holds
    <3>3. CASE t # s /\ ~IsQueued(s, t, by)
      BY <1>3, <2>1, <3>3 DEF Holds, Live
    <3> QED BY <3>1, <3>2, <3>3
  <2> QED BY <2>1 DEF KeptHolders
<1>8. ASSUME NEW c \in state[s].wanted
      PROVE  \E t \in States : Holds(t, s)' /\ state'[t].reference = c
  <2>1. PICK t \in States : by[c] = t
    BY <1>1, <1>2, CreatedReferences
  <2>2. IsQueued(s, t, by)
    BY <2>1 DEF IsQueued
  <2>3. state'[t].reference = c
    BY <1>2, <2>1, QueuedReference
  <2> QED BY <1>5, <2>2, <2>3
<1> QED BY <1>1, <1>3, <1>4, <1>6, <1>7, <1>8 DEF Live

LEMMA FinalizeEffect ==
    ASSUME TypeOK, NEW s \in States, Live(s), NEW result, NEW wanted, NEW first \in BOOLEAN,
           Finalize(s, result, wanted, first)
    PROVE  /\ KeptHolders
           /\ \A t \in States \ {s} : Spared(t)
           /\ Live(s)' /\ state'[s].stage = "finalizing"
           /\ state'[s].reference = state[s].reference
           /\ state'[s].outcome = OutcomeOf(result)
           /\ state'[s].leases = state[s].leases
           /\ state'[s].gotNoLease = state[s].gotNoLease
           /\ state'[s].childErr = state[s].childErr
           /\ state'[s].releasesChildren = first
<1>1. state[s] \in ObjectStates
  BY LiveStates
<1> DEFINE outcome == OutcomeOf(result)
           b == [state[s] EXCEPT !.stage = "finalizing", !.outcome = outcome,
                                 !.stack = <<s>>, !.releasesChildren = first]
<1>2. state'[s] = b /\ \A t \in States \ {s} : state'[t] = state[t]
  BY DEF Finalize, TypeOK
<1> HIDE DEF outcome
<1>3. /\ b # NoState /\ b.stage = "finalizing"
      /\ b.reference = state[s].reference /\ b.outcome = outcome
      /\ b.leases = state[s].leases /\ b.gotNoLease = state[s].gotNoLease
      /\ b.childErr = state[s].childErr /\ b.releasesChildren = first
      /\ b.unfinalizedParents = state[s].unfinalizedParents
  BY <1>1 DEF ObjectStates, NoState
<1> HIDE DEF b
<1>4. KeptHolders
  BY <1>2, <1>3 DEF KeptHolders, Holds, Live
<1> QED BY <1>2, <1>3, <1>4, SameIsSpared DEF Live, outcome

(* What the three kinds of updates of a parent do. *)
IsTold(g, f, p) ==
    /\ f = Finalizing(g) /\ p = ParentToUpdate(g)
    /\ Live(f) /\ state[f].stage = "finalizing" /\ FirstParent(f, p)
    /\ Live(p) /\ state[p].stage = "waiting"
    /\ \A t \in States \ {p} : Spared(t)
    /\ \A t, q \in States : Holds(t, q) /\ ~(t = f /\ q = p) =>
          Holds(t, q)' /\ state'[t].reference = state[t].reference
    /\ Live(p)'
    /\ state'[p].reference = state[p].reference
    /\ state'[p].wanted = state[p].wanted
    /\ state'[p].releasesChildren = state[p].releasesChildren
    /\ state'[p].originalIncompleteResult =
          (state[p].originalIncompleteResult /\ state[f].outcome # "lease")
    /\ state'[p].childErr = (state[p].childErr \/ state[f].outcome = "error")
    /\ state'[p].leases = IF state[f].outcome = "lease"
                          THEN state[p].leases \cup {state[f].reference}
                          ELSE state[p].leases
    /\ state'[p].gotNoLease = IF state[f].outcome = "lease" THEN state[p].gotNoLease
                              ELSE state[p].gotNoLease \cup {state[f].reference}

SameRecord(x, u) ==
    /\ x # NoState
    /\ x.reference = u.reference /\ x.wanted = u.wanted
    /\ x.releasesChildren = u.releasesChildren
    /\ x.originalIncompleteResult = u.originalIncompleteResult
    /\ x.childErr = u.childErr /\ x.leases = u.leases /\ x.gotNoLease = u.gotNoLease
    /\ x.unfinalizedParents = u.unfinalizedParents
    /\ x.result = u.result

LEMMA IsToldByUpdate ==
    ASSUME Structure, NEW g \in States, NEW f \in States, NEW p \in States,
           f = Finalizing(g), p = ParentToUpdate(g), FirstParent(f, p),
           Live(g), Live(f), Live(p), g # p, f # p, state[f].stage = "finalizing",
           state[p].stage = "waiting",
           state[p].unfinalizedChildrenCount > 0,
           NEW x, NEW h, TellsWith(g, f, p, x, h),
           SameRecord(x, Propagated(p, f)), SameRecord(h, Told(g, f)),
           h.stage = state[g].stage, h.outcome = state[g].outcome
    PROVE  IsTold(g, f, p) /\ state'[p] = x
<1>1. TypeOK /\ state[f] \in ObjectStates /\ state[g] \in ObjectStates
  BY LiveStates DEF Structure
<1>2. /\ state'[p] = x /\ state'[g] = h
      /\ \A t \in States \ {f, g, p} : state'[t] = state[t]
      /\ g # f => state'[f] = Told(f, f)
  BY <1>1 DEF TellsWith, TypeOK, Told
<1> DEFINE u == Propagated(p, f)
<1>3. /\ u.reference = state[p].reference /\ u.wanted = state[p].wanted
      /\ u.releasesChildren = state[p].releasesChildren
      /\ u.unfinalizedParents = state[p].unfinalizedParents
      /\ u.originalIncompleteResult =
            (state[p].originalIncompleteResult /\ state[f].outcome # "lease")
      /\ u.childErr = (state[p].childErr \/ state[f].outcome = "error")
      /\ u.leases = IF state[f].outcome = "lease"
                    THEN state[p].leases \cup {state[f].reference}
                    ELSE state[p].leases
      /\ u.gotNoLease = IF state[f].outcome = "lease" THEN state[p].gotNoLease
                        ELSE state[p].gotNoLease \cup {state[f].reference}
  <2>1. PropagatesInto(Propagated(p, f), p, f)
    BY <1>1, PropagatedFields
  <2> QED BY <2>1 DEF PropagatesInto
<1> HIDE DEF u
<1>4. SameRecord(x, u)
  BY DEF u
<1>5. Spared(g)
  <2> DEFINE a == Told(g, f)
  <2>1. /\ a.reference = state[g].reference /\ a.result = state[g].result
        /\ a.wanted = state[g].wanted
        /\ a.originalIncompleteResult = state[g].originalIncompleteResult
        /\ a.leases = state[g].leases /\ a.gotNoLease = state[g].gotNoLease
        /\ a.childErr = state[g].childErr /\ a.releasesChildren = state[g].releasesChildren
    BY ToldFields
  <2>2. SameRecord(h, a)
    OBVIOUS
  <2> HIDE DEF a
  <2> QED BY <1>2, <2>1, <2>2 DEF Spared, Kept, SameFields, SameRecord, Live
<1>6. g # f => Spared(f)
  <2> SUFFICES ASSUME g # f PROVE Spared(f)
    OBVIOUS
  <2> DEFINE a == Told(f, f)
  <2>1. /\ a \in ObjectStates /\ a.stage = state[f].stage /\ a.outcome = state[f].outcome
        /\ a.reference = state[f].reference /\ a.result = state[f].result
        /\ a.wanted = state[f].wanted
        /\ a.originalIncompleteResult = state[f].originalIncompleteResult
        /\ a.leases = state[f].leases /\ a.gotNoLease = state[f].gotNoLease
        /\ a.childErr = state[f].childErr /\ a.releasesChildren = state[f].releasesChildren
    BY ToldFields
  <2>2. state'[f] = a
    BY <1>2
  <2> HIDE DEF a
  <2>3. a # NoState
    BY <2>1 DEF ObjectStates, NoState, Stages
  <2> QED BY <2>1, <2>2, <2>3 DEF Spared, Kept, SameFields, Live
<1>7. \A t \in States \ {p} : Spared(t)
  BY <1>2, <1>5, <1>6, SameIsSpared
<1>8. ASSUME NEW t \in States, NEW q \in States, Holds(t, q), ~(t = f /\ q = p)
      PROVE  Holds(t, q)' /\ state'[t].reference = state[t].reference
  <2>1. CASE t = p
    BY <1>2, <1>3, <1>4, <1>8, <2>1 DEF Holds, Live, SameRecord
  <2>2. CASE t = f
    <3>1. q \in ToSet(Tail(state[f].unfinalizedParents))
      <4>1. ToSet(Tail(state[f].unfinalizedParents)) = ToSet(state[f].unfinalizedParents) \ {p}
        BY FirstParentWaits
      <4> QED BY <1>8, <2>2, <4>1 DEF Holds
    <3>2. CASE g = f
      <4>1. /\ h # NoState /\ h.unfinalizedParents = Tail(state[f].unfinalizedParents)
            /\ h.reference = state[f].reference
        BY <3>2, ToldFields DEF SameRecord
      <4> QED BY <1>2, <2>2, <3>1, <3>2, <4>1 DEF Holds, Live
    <3>3. CASE g # f
      <4>1. /\ state'[f] \in ObjectStates
            /\ state'[f].unfinalizedParents = Tail(state[f].unfinalizedParents)
            /\ state'[f].reference = state[f].reference
        BY <1>2, <3>3, ToldFields
      <4>2. state'[f] # NoState
        BY <4>1 DEF ObjectStates, NoState, Stages
      <4> QED BY <2>2, <3>1, <4>1, <4>2 DEF Holds, Live
    <3> QED BY <3>2, <3>3
  <2>3. CASE t = g /\ t # f
    <3>1. /\ h # NoState /\ h.unfinalizedParents = state[g].unfinalizedParents
          /\ h.reference = state[g].reference
      BY <2>3, ToldFields DEF SameRecord
    <3> QED BY <1>2, <1>8, <2>3, <3>1 DEF Holds, Live
  <2>4. CASE t \notin {p, f, g}
    BY <1>2, <1>8, <2>4 DEF Holds, Live
  <2> QED BY <2>1, <2>2, <2>3, <2>4
<1>9. /\ Live(p)'
      /\ state'[p].reference = state[p].reference
      /\ state'[p].wanted = state[p].wanted
      /\ state'[p].releasesChildren = state[p].releasesChildren
      /\ state'[p].originalIncompleteResult =
            (state[p].originalIncompleteResult /\ state[f].outcome # "lease")
      /\ state'[p].childErr = (state[p].childErr \/ state[f].outcome = "error")
      /\ state'[p].leases = IF state[f].outcome = "lease"
                            THEN state[p].leases \cup {state[f].reference}
                            ELSE state[p].leases
      /\ state'[p].gotNoLease = IF state[f].outcome = "lease" THEN state[p].gotNoLease
                                ELSE state[p].gotNoLease \cup {state[f].reference}
  BY <1>2, <1>3, <1>4 DEF SameRecord, Live
<1> QED BY <1>2, <1>7, <1>8, <1>9 DEF IsTold

LEMMA ParentStillWaitsEffect ==
    ASSUME Structure, NEW g \in States, ParentStillWaits(g)
    PROVE  \E f, p \in States : IsTold(g, f, p) /\ state'[p].stage = "waiting"
<1>1. PICK f, p \in States :
              /\ f = Finalizing(g) /\ p = ParentToUpdate(g)
              /\ FirstParent(f, p) /\ OnStack(f, g)
              /\ Live(g) /\ Live(f) /\ Live(p) /\ g # p /\ f # p
              /\ state[g].stage = "finalizing" /\ state[f].stage = "finalizing"
              /\ state[p].stage = "waiting"
              /\ state[p].unfinalizedChildrenCount \in Nat
              /\ state[p].unfinalizedChildrenCount > 0
  BY UpdateBasics DEF ParentStillWaits
<1>2. TypeOK
  BY DEF Structure
<1> DEFINE x == Propagated(p, f)
           h == Told(g, f)
<1>3. x \in ObjectStates /\ x.stage = "waiting"
  <2>1. PropagatesInto(Propagated(p, f), p, f)
    BY <1>1, <1>2, PropagatedFields
  <2> QED BY <1>1, <2>1 DEF PropagatesInto
<1>4. h \in ObjectStates /\ h.stage = state[g].stage /\ h.outcome = state[g].outcome
  BY <1>1, ToldFields
<1>5. TellsWith(g, f, p, x, h)
  <2>1. state' = [state EXCEPT ![f].unfinalizedParents = Tail(@), ![p] = x]
    BY <1>1 DEF ParentStillWaits, WithParent
  <2> HIDE DEF x
  <2> QED BY <1>1, <1>2, <2>1 DEF TellsWith, Told, TypeOK
<1> HIDE DEF x, h
<1>6. SameRecord(x, x) /\ SameRecord(h, h)
  BY <1>3, <1>4 DEF SameRecord, ObjectStates, NoState, Stages
<1>7. SameRecord(x, Propagated(p, f)) /\ SameRecord(h, Told(g, f))
  BY <1>6 DEF x, h
<1>8. IsTold(g, f, p) /\ state'[p] = x
  BY <1>1, <1>4, <1>5, <1>7, IsToldByUpdate
<1> QED BY <1>3, <1>8

LEMMA ParentHasLeasesEffect ==
    ASSUME Structure, NEW g \in States, ParentHasLeases(g)
    PROVE  \E f, p \in States : IsTold(g, f, p) /\ state'[p].stage = "secondQueued"
<1>1. PICK f, p \in States :
              /\ f = Finalizing(g) /\ p = ParentToUpdate(g)
              /\ FirstParent(f, p) /\ OnStack(f, g)
              /\ Live(g) /\ Live(f) /\ Live(p) /\ g # p /\ f # p
              /\ state[g].stage = "finalizing" /\ state[f].stage = "finalizing"
              /\ state[p].stage = "waiting"
              /\ state[p].unfinalizedChildrenCount \in Nat
              /\ state[p].unfinalizedChildrenCount > 0
  BY UpdateBasics DEF ParentHasLeases
<1>2. TypeOK
  BY DEF Structure
<1> DEFINE u == Propagated(p, f)
           x == [u EXCEPT !.stage = "secondQueued"]
           a == Told(g, f)
           h == [a EXCEPT !.waitsFor = p]
<1>3. u \in ObjectStates
  <2>1. PropagatesInto(Propagated(p, f), p, f)
    BY <1>1, <1>2, PropagatedFields
  <2> QED BY <1>1, <2>1 DEF PropagatesInto
<1>4. a \in ObjectStates /\ a.stage = state[g].stage /\ a.outcome = state[g].outcome
  BY <1>1, ToldFields
<1>5. TellsWith(g, f, p, x, h)
  <2>1. state' = [[state EXCEPT ![f].unfinalizedParents = Tail(@), ![p] = x]
                    EXCEPT ![g].waitsFor = p]
    BY <1>1 DEF ParentHasLeases, WithParent
  <2>2. [state EXCEPT ![f].unfinalizedParents = Tail(@), ![p] = x][g] = a
    <3> HIDE DEF x
    <3> QED BY <1>1, <1>2 DEF Told, TypeOK
  <2> HIDE DEF x, a
  <2> QED BY <2>1, <2>2 DEF TellsWith
<1> HIDE DEF u, a
<1>6. SameRecord(x, u) /\ x.stage = "secondQueued"
  BY <1>3 DEF SameRecord, ObjectStates, NoState, Stages
<1>7. SameRecord(h, a) /\ h.stage = state[g].stage /\ h.outcome = state[g].outcome
  BY <1>4 DEF SameRecord, ObjectStates, NoState, Stages
<1> HIDE DEF x, h
<1>8. SameRecord(x, Propagated(p, f)) /\ SameRecord(h, Told(g, f))
  BY <1>6, <1>7 DEF u, a
<1>9. IsTold(g, f, p) /\ state'[p] = x
  BY <1>1, <1>5, <1>7, <1>8, IsToldByUpdate
<1> QED BY <1>6, <1>9

LEMMA ParentHasNoLeasesEffect ==
    ASSUME Structure, NEW g \in States, ParentHasNoLeases(g)
    PROVE  \E f, p \in States, result \in {"Error", "Incomplete"} :
              /\ IsTold(g, f, p) /\ state'[p].stage = "finalizing"
              /\ state'[p].originalIncompleteResult
              /\ result = IF state'[p].childErr THEN "Error" ELSE "Incomplete"
              /\ state'[p].outcome = OutcomeOf(result)
              /\ Unblock(p, result, state[p].wanted)
              /\ state[p].unfinalizedChildrenCount = 1
<1>1. PICK f, p \in States :
              /\ f = Finalizing(g) /\ p = ParentToUpdate(g)
              /\ FirstParent(f, p) /\ OnStack(f, g)
              /\ Live(g) /\ Live(f) /\ Live(p) /\ g # p /\ f # p
              /\ state[g].stage = "finalizing" /\ state[f].stage = "finalizing"
              /\ state[p].stage = "waiting"
              /\ state[p].unfinalizedChildrenCount \in Nat
              /\ state[p].unfinalizedChildrenCount > 0
  BY UpdateBasics DEF ParentHasNoLeases
<1>2. TypeOK
  BY DEF Structure
<1> DEFINE u == Propagated(p, f)
           result == IF u.childErr THEN "Error" ELSE "Incomplete"
           outcome == OutcomeOf(result)
           x == [u EXCEPT !.stage = "finalizing", !.outcome = outcome]
           a == Told(g, f)
           q == Append(state[g].stack, p)
           h == [a EXCEPT !.stack = q]
<1>3. /\ u \in ObjectStates /\ u.wanted = state[p].wanted
      /\ u.unfinalizedChildrenCount = state[p].unfinalizedChildrenCount - 1
  <2>1. PropagatesInto(Propagated(p, f), p, f)
    BY <1>1, <1>2, PropagatedFields
  <2> QED BY <1>1, <2>1 DEF PropagatesInto
<1>4. /\ a \in ObjectStates /\ a.stage = state[g].stage /\ a.outcome = state[g].outcome
      /\ a.stack = state[g].stack
  BY <1>1, ToldFields
<1>5. TellsWith(g, f, p, x, h)
  <2>1. state' = [[state EXCEPT ![f].unfinalizedParents = Tail(@), ![p] = x]
                    EXCEPT ![g].stack = Append(@, p)]
    BY <1>1 DEF ParentHasNoLeases, WithParent
  <2>2. [state EXCEPT ![f].unfinalizedParents = Tail(@), ![p] = x][g] = a
    <3> HIDE DEF x
    <3> QED BY <1>1, <1>2 DEF Told, TypeOK
  <2> HIDE DEF x, a
  <2> QED BY <1>4, <2>1, <2>2 DEF TellsWith
<1>6. /\ u.unfinalizedChildrenCount = 0 /\ u.originalIncompleteResult
      /\ Unblock(p, result, u.wanted)
  BY <1>1 DEF ParentHasNoLeases
<1>7. result \in {"Error", "Incomplete"} /\ result = IF u.childErr THEN "Error" ELSE "Incomplete"
  OBVIOUS
<1> HIDE DEF u, a, result, outcome, q
<1>8. SameRecord(x, u) /\ x.stage = "finalizing" /\ x.outcome = outcome
  BY <1>3 DEF SameRecord, ObjectStates, NoState, Stages
<1>9. SameRecord(h, a) /\ h.stage = state[g].stage /\ h.outcome = state[g].outcome
  BY <1>4 DEF SameRecord, ObjectStates, NoState, Stages
<1> HIDE DEF x, h
<1>10. SameRecord(x, Propagated(p, f)) /\ SameRecord(h, Told(g, f))
  BY <1>8, <1>9 DEF u, a
<1>11. IsTold(g, f, p) /\ state'[p] = x
  BY <1>1, <1>5, <1>9, <1>10, IsToldByUpdate
<1>12. x.originalIncompleteResult /\ x.childErr = u.childErr
  BY <1>6, <1>8 DEF SameRecord
<1>13. state[p].unfinalizedChildrenCount = 1
  BY <1>1, <1>3, <1>6
<1> QED BY <1>3, <1>6, <1>7, <1>8, <1>11, <1>12, <1>13 DEF outcome

LEMMA ReleaseObjectEffect ==
    ASSUME Structure, NEW g \in States, ReleaseObject(g)
    PROVE  \E s \in States :
              /\ KeptHolders
              /\ \A t \in States \ {s} : Spared(t)
              /\ Live(s) /\ state[s].stage = "finalizing" /\ ~Live(s)'
              /\ state[s].reference \in Objects
              /\ remaining' = IF state[s].releasesChildren
                              THEN ReleaseChildren(ReleaseParent(remaining, state[s].reference),
                                                   state[s].reference)
                              ELSE ReleaseParent(remaining, state[s].reference)
<1>1. PICK s \in States : s = Finalizing(g)
  BY LockHolder DEF ReleaseObject
<1>2. /\ TypeOK /\ Live(g) /\ Live(s) /\ IsStack(g) /\ OnStack(s, g)
      /\ state[s].stage = "finalizing" /\ state[s].unfinalizedParents = <<>>
      /\ state[g] \in ObjectStates /\ state[s].reference \in Objects
  BY <1>1, LockHolder, LiveStates, Fields DEF ReleaseObject, Structure
<1> DEFINE h == [state[g] EXCEPT !.stack = Front(@)]
<1>3. /\ state'[s] = NoState
      /\ s # g => state'[g] = h
      /\ \A t \in States \ {s, g} : state'[t] = state[t]
  BY <1>1, <1>2 DEF ReleaseObject, TypeOK
<1>4. /\ h # NoState /\ h.stage = state[g].stage
      /\ h.reference = state[g].reference /\ h.result = state[g].result
      /\ h.wanted = state[g].wanted
      /\ h.originalIncompleteResult = state[g].originalIncompleteResult
      /\ h.leases = state[g].leases /\ h.gotNoLease = state[g].gotNoLease
      /\ h.childErr = state[g].childErr /\ h.outcome = state[g].outcome
      /\ h.releasesChildren = state[g].releasesChildren
      /\ h.unfinalizedParents = state[g].unfinalizedParents
  BY <1>2 DEF ObjectStates, Stages, NoState
<1> HIDE DEF h
<1>5. s # g => Spared(g)
  BY <1>2, <1>3, <1>4 DEF Spared, Kept, SameFields, Live
<1>6. KeptHolders
  <2>1. \A p \in States : ~Holds(s, p)
    BY <1>2, NothingInEmpty DEF Holds
  <2> QED BY <1>2, <1>3, <1>4, <2>1 DEF KeptHolders, Holds, Live
<1>7. s # g => ~state[s].releasesChildren
  BY <1>2 DEF IsStack, OnStack
<1>8. remaining' = IF state[s].releasesChildren
                   THEN ReleaseChildren(ReleaseParent(remaining, state[s].reference),
                                        state[s].reference)
                   ELSE ReleaseParent(remaining, state[s].reference)
  BY <1>1, <1>7 DEF ReleaseObject
<1> QED BY <1>2, <1>3, <1>5, <1>6, <1>8, SameIsSpared DEF Live

-----------------------------------------------------------------------------
(* The limit is conserved. *)
LEMMA SparedLimit ==
    ASSUME TypeOK, TypeOK', LimitConserved, UNCHANGED remaining, NEW s \in States,
           \A t \in States \ {s} : Spared(t), HeldBy(s)' = HeldBy(s)
    PROVE  LimitConserved'
  BY SparedHeld, LimitKept

LEMMA GetPendingObjectLimit ==
    ASSUME TypeOK, TypeOK', LimitConserved, NEW s \in States, GetPendingObject(s)
    PROVE  LimitConserved'
<1>1. SameFields(s) /\ state'[s].stage = "popped" /\ \A t \in States \ {s} : Spared(t)
  BY GetPendingObjectEffect
<1>2. /\ state[s].stage = "pending" /\ Live(s)
      /\ remaining' = AcquireParentAndChildren(remaining, state[s].reference)
      /\ CanAcquireParentAndChildren(remaining, state[s].reference)
  BY LiveStates DEF GetPendingObject
<1>3. PICK o \in Objects : o = state[s].reference
  BY <1>2, Fields
<1>4. HeldBy(s) = Nothing /\ HeldBy(s)' = ParentAndChildren(o)
  BY <1>1, <1>2, <1>3 DEF HeldBy, SameFields
<1>5. PICK a \in Nat, b \in Nat : ParentAndChildren(o) = [count |-> a, sizeBytes |-> b]
  BY ReferencesAssumption DEF ParentAndChildren
<1>6. /\ remaining.count \in Nat /\ remaining.sizeBytes \in Nat
      /\ remaining'.count = remaining.count - a
      /\ remaining'.sizeBytes = remaining.sizeBytes - b
  BY <1>2, <1>3, <1>5 DEF AcquireParentAndChildren, TypeOK
<1>7. /\ HeldBy(s).count = 0 /\ HeldBy(s).sizeBytes = 0
      /\ HeldBy(s)'.count = a /\ HeldBy(s)'.sizeBytes = b
  BY <1>4, <1>5 DEF Nothing
<1>8. /\ remaining'.count + HeldBy(s)'.count = remaining.count + HeldBy(s).count
      /\ remaining'.sizeBytes + HeldBy(s)'.sizeBytes = remaining.sizeBytes + HeldBy(s).sizeBytes
  BY <1>6, <1>7
<1>9. \A t \in States \ {s} : HeldBy(t)' = HeldBy(t)
  BY <1>1, SparedHeld
<1> QED BY <1>8, <1>9, LimitMoves

(* Releasing gives back what was held. *)
LEMMA ReleaseMoves ==
    ASSUME TypeOK, NEW o \in Objects
    PROVE  LET m == ReleaseChildren(remaining, o)
               n == ReleaseParent(remaining, o)
               k == ReleaseChildren(n, o)
           IN  /\ m.count + ParentOnly(o).count = remaining.count + ParentAndChildren(o).count
               /\ m.sizeBytes + ParentOnly(o).sizeBytes
                     = remaining.sizeBytes + ParentAndChildren(o).sizeBytes
               /\ n.count = remaining.count + ParentOnly(o).count
               /\ n.sizeBytes = remaining.sizeBytes + ParentOnly(o).sizeBytes
               /\ k.count = remaining.count + ParentAndChildren(o).count
               /\ k.sizeBytes = remaining.sizeBytes + ParentAndChildren(o).sizeBytes
               /\ n.count \in Nat /\ n.sizeBytes \in Nat
               /\ k.count \in Nat /\ k.sizeBytes \in Nat
<1>1. remaining \in [count : Nat, sizeBytes : Nat]
  BY DEF TypeOK
<1> QED BY <1>1, ReleaseGivesBack

LEMMA QueueChildrenLimit ==
    ASSUME Structure, TypeOK', LimitConserved, NEW s \in States, QueueChildren(s)
    PROVE  LimitConserved'
<1>1. /\ \A t \in States \ {s} : Spared(t)
      /\ Live(s) /\ Live(s)'
      /\ state[s].stage = "firstDone" /\ state'[s].stage = "waiting"
      /\ state'[s].reference = state[s].reference
      /\ TypeOK
  BY QueueChildrenEffect DEF Structure
<1>2. PICK o \in Objects : o = state[s].reference
  BY <1>1, Fields
<1>3. HeldBy(s) = ParentAndChildren(o) /\ HeldBy(s)' = ParentOnly(o)
  BY <1>1, <1>2 DEF HeldBy
<1>4. remaining' = ReleaseChildren(remaining, o)
  BY <1>2 DEF QueueChildren
<1>5. /\ remaining'.count + HeldBy(s)'.count = remaining.count + HeldBy(s).count
      /\ remaining'.sizeBytes + HeldBy(s)'.sizeBytes = remaining.sizeBytes + HeldBy(s).sizeBytes
  BY <1>1, <1>3, <1>4, ReleaseMoves
<1>6. \A t \in States \ {s} : HeldBy(t)' = HeldBy(t)
  BY <1>1, SparedHeld
<1> QED BY <1>1, <1>5, <1>6, LimitMoves

LEMMA ReleaseObjectLimit ==
    ASSUME Structure, TypeOK', LimitConserved, NEW g \in States, ReleaseObject(g)
    PROVE  LimitConserved'
<1>1. PICK s \in States :
        /\ \A t \in States \ {s} : Spared(t)
        /\ Live(s) /\ state[s].stage = "finalizing" /\ ~Live(s)'
        /\ state[s].reference \in Objects
        /\ remaining' = IF state[s].releasesChildren
                        THEN ReleaseChildren(ReleaseParent(remaining, state[s].reference),
                                             state[s].reference)
                        ELSE ReleaseParent(remaining, state[s].reference)
  BY ReleaseObjectEffect
<1>2. PICK o \in Objects : o = state[s].reference
  BY <1>1
<1>3. /\ HeldBy(s) = IF state[s].releasesChildren THEN ParentAndChildren(o) ELSE ParentOnly(o)
      /\ HeldBy(s)' = Nothing
  BY <1>1, <1>2 DEF HeldBy, Live, NoState
<1>4. TypeOK
  BY DEF Structure
<1>5. /\ remaining'.count = remaining.count + HeldBy(s).count
      /\ remaining'.sizeBytes = remaining.sizeBytes + HeldBy(s).sizeBytes
  <2>1. CASE state[s].releasesChildren
    BY <1>1, <1>2, <1>3, <1>4, <2>1, ReleaseMoves
  <2>2. CASE ~state[s].releasesChildren
    BY <1>1, <1>2, <1>3, <1>4, <2>2, ReleaseMoves
  <2> QED BY <2>1, <2>2
<1>6. /\ remaining'.count \in Nat /\ remaining'.sizeBytes \in Nat
      /\ HeldBy(s)'.count = 0 /\ HeldBy(s)'.sizeBytes = 0
  BY <1>3 DEF Nothing, TypeOK
<1>7. /\ remaining'.count + HeldBy(s)'.count = remaining.count + HeldBy(s).count
      /\ remaining'.sizeBytes + HeldBy(s)'.sizeBytes = remaining.sizeBytes + HeldBy(s).sizeBytes
  BY <1>5, <1>6
<1>8. \A t \in States \ {s} : HeldBy(t)' = HeldBy(t)
  BY <1>1, <1>4, SparedHeld
<1> QED BY <1>4, <1>7, <1>8, LimitMoves

(* The steps that leave what remains alone keep what is held. *)
LEMMA OtherStepsLimit ==
    ASSUME Structure, TypeOK', LimitConserved, NEW s \in States,
           \/ ProcessSingleObject(s) \/ FirstUpload(s) \/ SecondUpload(s) \/ FinishFirst(s)
           \/ FinishSecond(s) \/ ParentStillWaits(s) \/ ParentHasNoLeases(s)
           \/ ParentHasLeases(s) \/ StartSecondUpload(s) \/ Relock(s) \/ UploadFails(s)
    PROVE  LimitConserved'
<1>1. TypeOK /\ Stacks
  BY DEF Structure
<1>2. CASE ProcessSingleObject(s)
  <2>1. SameFields(s) /\ state'[s].stage = "first" /\ \A t \in States \ {s} : Spared(t)
    BY <1>1, <1>2, ProcessSingleObjectEffect
  <2>2. state[s].stage = "popped" /\ UNCHANGED remaining
    BY <1>2 DEF ProcessSingleObject
  <2>3. HeldBy(s)' = HeldBy(s)
    BY <2>1, <2>2 DEF HeldBy, SameFields
  <2> QED BY <1>1, <2>1, <2>2, <2>3, SparedLimit
<1>3. ASSUME NEW accepted \in SUBSET Objects, NEW stage,
             \/ state[s].stage = "first" /\ stage = "firstDone"
             \/ state[s].stage = "second" /\ stage = "secondDone",
             BaseUpload(s, accepted, stage)
      PROVE  LimitConserved'
  <2>1. Live(s) /\ UNCHANGED remaining
    BY <1>1, <1>3, LiveStates DEF BaseUpload
  <2>2. PICK result, wanted : Answered(s, stage, result, wanted)
    BY <1>1, <1>3, <2>1, BaseUploadEffect
  <2>3. \A t \in States \ {s} : Spared(t)
    BY <1>1, <1>3, <2>1, BaseUploadEffect
  <2>4. HeldBy(s)' = HeldBy(s)
    BY <1>3, <2>2 DEF HeldBy, Answered
  <2> QED BY <1>1, <2>1, <2>3, <2>4, SparedLimit
<1>4. CASE FirstUpload(s)
  BY <1>3, <1>4 DEF FirstUpload
<1>5. CASE SecondUpload(s)
  <2>1. Live(s) /\ state[s].leases \in SUBSET Objects
    BY <1>1, <1>5, LiveStates, Fields DEF SecondUpload
  <2>2. PICK accepted \in SUBSET Objects : BaseUpload(s, accepted, "secondDone")
    BY <1>5, <2>1 DEF SecondUpload
  <2> QED BY <1>3, <1>5, <2>2 DEF SecondUpload
<1>6. ASSUME NEW result, NEW wanted, NEW first \in BOOLEAN,
             state[s].stage = IF first THEN "firstDone" ELSE "secondDone",
             Finalize(s, result, wanted, first)
      PROVE  LimitConserved'
  <2>1. Live(s) /\ UNCHANGED remaining
    BY <1>1, <1>6, LiveStates DEF Finalize
  <2>2. /\ \A t \in States \ {s} : Spared(t)
        /\ state'[s].stage = "finalizing" /\ state'[s].releasesChildren = first
        /\ state'[s].reference = state[s].reference
    BY <1>1, <1>6, <2>1, FinalizeEffect
  <2>3. HeldBy(s)' = HeldBy(s)
    BY <1>6, <2>2 DEF HeldBy
  <2> QED BY <1>1, <2>1, <2>2, <2>3, SparedLimit
<1>7. CASE FinishFirst(s)
  BY <1>6, <1>7 DEF FinishFirst
<1>8. CASE FinishSecond(s)
  BY <1>6, <1>8 DEF FinishSecond
<1>9. ASSUME NEW f \in States, NEW p \in States, IsTold(s, f, p),
             state'[p].stage \in {"waiting", "secondQueued", "finalizing"},
             UNCHANGED remaining
      PROVE  LimitConserved'
  <2>1. ~state[p].releasesChildren
    BY <1>1, <1>9 DEF Stacks, IsTold
  <2>2. HeldBy(p)' = HeldBy(p)
    BY <1>9, <2>1 DEF HeldBy, IsTold
  <2>3. \A t \in States \ {p} : Spared(t)
    BY <1>9 DEF IsTold
  <2> QED BY <1>1, <1>9, <2>2, <2>3, SparedLimit
<1>10. CASE ParentStillWaits(s)
  BY <1>9, <1>10, ParentStillWaitsEffect DEF ParentStillWaits
<1>11. CASE ParentHasNoLeases(s)
  <2>1. PICK f, p \in States : IsTold(s, f, p) /\ state'[p].stage = "finalizing"
    BY <1>11, ParentHasNoLeasesEffect
  <2>2. UNCHANGED remaining
    BY <1>11 DEF ParentHasNoLeases
  <2> QED BY <1>9, <2>1, <2>2
<1>12. CASE ParentHasLeases(s)
  BY <1>9, <1>12, ParentHasLeasesEffect DEF ParentHasLeases
<1>13. CASE StartSecondUpload(s)
  <2>1. PICK p \in States :
              /\ SameFields(p)
              /\ state[p].stage = "secondQueued" /\ state'[p].stage = "second"
              /\ \A t \in States \ {p} : Spared(t)
    BY <1>1, <1>13, StartSecondUploadEffect
  <2>2. UNCHANGED remaining
    BY <1>13 DEF StartSecondUpload
  <2>3. HeldBy(p)' = HeldBy(p)
    BY <2>1 DEF HeldBy, SameFields
  <2> QED BY <1>1, <2>1, <2>2, <2>3, SparedLimit
<1>14. CASE Relock(s)
  <2>1. UNCHANGED <<state, remaining>>
    BY <1>14 DEF Relock
  <2> QED BY <1>1, <2>1, LimitKept DEF HeldBy
<1>15. CASE UploadFails(s)
  <2>1. PICK result \in {"Error", "Missing"}, stage \in {"firstDone", "secondDone"} :
              /\ Answered(s, stage, result, {})
              /\ \/ state[s].stage = "first" /\ stage = "firstDone" /\ result = "Error"
                 \/ state[s].stage = "second" /\ stage = "secondDone"
              /\ \A t \in States \ {s} : Spared(t)
    BY <1>1, <1>15, UploadFailsEffect
  <2>2. UNCHANGED remaining
    BY <1>15 DEF UploadFails
  <2>3. HeldBy(s)' = HeldBy(s)
    BY <2>1 DEF HeldBy, Answered
  <2> QED BY <1>1, <2>1, <2>2, <2>3, SparedLimit
<1> QED BY <1>2, <1>4, <1>5, <1>7, <1>8, <1>10, <1>11, <1>12, <1>13, <1>14, <1>15

LEMMA LimitInit ==
    ASSUME Init
    PROVE  LimitConserved
<1>1. \A s \in States : HeldBy(s) = Nothing
  BY DEF Init, HeldBy, NoState
<1> DEFINE c == [s \in States |-> HeldBy(s).count]
           x == [s \in States |-> HeldBy(s).sizeBytes]
<1>2. /\ c \in [States -> Int] /\ x \in [States -> Int]
      /\ \A s \in States : c[s] = 0 /\ x[s] = 0
  BY <1>1 DEF Nothing
<1>3. LimitConserved <=> /\ remaining.count + SumFunction(c) = MaximumCount
                         /\ remaining.sizeBytes + SumFunction(x) = MaximumSizeBytes
  BY DEF LimitConserved
<1> HIDE DEF c, x
<1>4. SumFunction(c) = 0 /\ SumFunction(x) = 0
  <2>1. DOMAIN c = States /\ DOMAIN x = States
    BY <1>2
  <2>2. SumFunctionOnSet(c, States) = 0 /\ SumFunctionOnSet(x, States) = 0
    BY <1>2, StatesFinite, SumOfZeroes
  <2> QED BY <2>1, <2>2 DEF SumFunction
<1> QED BY <1>3, <1>4, MaximumAssumption DEF Init, Maximum

LEMMA LimitNext ==
    ASSUME Structure, LimitConserved, [Next]_vars
    PROVE  LimitConserved'
<1>1. TypeOK /\ TypeOK' /\ ReferencesAreLive
  BY StructureNext DEF Structure
<1>2. CASE UNCHANGED vars
  <2>1. UNCHANGED <<state, remaining>>
    BY <1>2 DEF vars
  <2> QED BY <1>1, <2>1, LimitKept DEF HeldBy
<1>3. ASSUME NEW c \in Callers, NEW o \in Objects, UploadObject(c, o)
      PROVE  LimitConserved'
  <2>1. \A t \in States : HeldBy(t)' = HeldBy(t)
    BY <1>1, <1>3, UploadObjectEffect, SparedHeld
  <2>2. UNCHANGED remaining
    BY <1>3 DEF UploadObject
  <2> QED BY <1>1, <2>1, <2>2, LimitKept
<1>4. ASSUME NEW c \in Objects, Expire(c)
      PROVE  LimitConserved'
  <2>1. UNCHANGED <<state, remaining>>
    BY <1>4 DEF Expire
  <2> QED BY <1>1, <2>1, LimitKept DEF HeldBy
<1>5. ASSUME NEW s \in States, Step(s) \/ UploadFails(s)
      PROVE  LimitConserved'
  BY <1>1, <1>5, GetPendingObjectLimit, QueueChildrenLimit, ReleaseObjectLimit,
     OtherStepsLimit DEF Step
<1> QED BY <1>2, <1>3, <1>4, <1>5 DEF Next

(* Nothing of the limit on the parents that are traversed is lost or       *)
(* released twice: whichever way an object is finalized, by the goroutine  *)
(* that processes it or by that of a child, what was acquired for it, and  *)
(* for its children, is released exactly once.  As a consequence the limit *)
(* is never exceeded.                                                      *)
THEOREM LimitIsConserved == Spec => []LimitConserved
<1>1. Init => Structure /\ LimitConserved
  BY StructureInit, LimitInit
<1>2. Structure /\ LimitConserved /\ [Next]_vars => Structure' /\ LimitConserved'
  BY StructureNext, LimitNext
<1> QED BY <1>1, <1>2, PTL DEF Spec

-----------------------------------------------------------------------------
(* What objectStates know stays true. *)
TrueState(s) ==
    /\ LeasesAreTrue(s)
    /\ FirstAnswerIsTrue(s)
    /\ AwaitedAreKnown(s)
    /\ SecondAnswerIsTrue(s)
    /\ OutcomeIsTrue(s)

KeptHoldersOf(p) ==
    \A t \in States : Holds(t, p) => Holds(t, p)' /\ state'[t].reference = state[t].reference

LEMMA KeptHoldersOfAll ==
    ASSUME KeptHolders, NEW p \in States
    PROVE  KeptHoldersOf(p)
  BY DEF KeptHolders, KeptHoldersOf

LEMMA SameGraphs ==
    ASSUME UNCHANGED exists
    PROVE  \A o : GraphExists(o)' <=> GraphExists(o)
  BY DEF GraphExists

LEMMA SparedTruth ==
    ASSUME NEW t \in States, Spared(t), Live(t)', Live(t) => TrueState(t),
           UNCHANGED exists, KeptHoldersOf(t)
    PROVE  TrueState(t)'
<1>1. \A o : GraphExists(o)' <=> GraphExists(o)
  BY SameGraphs
<1>2. CASE Kept(t)
  <2>1. TrueState(t)
    BY <1>2 DEF Kept, SameFields
  <2>2. LeasesAreTrue(t)'
    BY <1>1, <1>2, <2>1 DEF Kept, SameFields, TrueState, LeasesAreTrue
  <2>3. FirstAnswerIsTrue(t)'
    BY <1>1, <1>2, <2>1 DEF Kept, SameFields, TrueState, FirstAnswerIsTrue
  <2>4. AwaitedAreKnown(t)'
    BY <1>2, <2>1 DEF Kept, SameFields, TrueState, AwaitedAreKnown, KeptHoldersOf
  <2>5. SecondAnswerIsTrue(t)'
    BY <1>1, <1>2, <2>1 DEF Kept, SameFields, TrueState, SecondAnswerIsTrue
  <2>6. OutcomeIsTrue(t)'
    BY <1>1, <1>2, <2>1 DEF Kept, SameFields, TrueState, OutcomeIsTrue
  <2> QED BY <2>2, <2>3, <2>4, <2>5, <2>6 DEF TrueState
<1>3. CASE Fresh(t)
  BY <1>3 DEF Fresh, TrueState, LeasesAreTrue, FirstAnswerIsTrue, AwaitedAreKnown,
              SecondAnswerIsTrue, OutcomeIsTrue
<1> QED BY <1>2, <1>3 DEF Spared

(* A step changes at most what s knows. *)
LEMMA TruthByState ==
    ASSUME Truth, UNCHANGED exists, NEW s \in States,
           \A o \in leased' : GraphExists(o),
           \A t \in States \ {s} : Spared(t) /\ KeptHoldersOf(t),
           Live(s)' => TrueState(s)', ResultsReflectGraph'
    PROVE  Truth'
<1>1. \A t \in States : Live(t) => TrueState(t)
  BY DEF Truth, TrueState
<1>2. \A t \in States \ {s} : Live(t)' => TrueState(t)'
  BY <1>1, SparedTruth
<1>3. \A t \in States : Live(t)' => TrueState(t)'
  BY <1>2
<1>4. (\A o \in leased : GraphExists(o))'
  BY SameGraphs
<1> QED BY <1>3, <1>4 DEF Truth, TrueState

LEMMA SameResults ==
    ASSUME ResultsReflectGraph, UNCHANGED <<exists, caller>>
    PROVE  ResultsReflectGraph'
<1>1. \A o : GraphExists(o)' <=> GraphExists(o)
  BY SameGraphs
<1> QED BY <1>1 DEF ResultsReflectGraph

AnswerIsTrue(o, result, wanted) ==
    /\ result = "Complete" => GraphExists(o)
    /\ result = "Missing" => o \notin exists
    /\ result = "Incomplete" =>
          o \in exists /\ wanted # {} /\ \A child \in wanted : ~GraphExists(child)

LEMMA ResultsAreAnswers ==
    ResultsReflectGraph <=>
        \A c \in Callers : caller[c].stage = "answered" =>
            AnswerIsTrue(caller[c].reference, caller[c].result, caller[c].wanted)
  BY DEF ResultsReflectGraph, AnswerIsTrue

LEMMA ResultsAreAnswersNext ==
    ASSUME UNCHANGED exists
    PROVE  ResultsReflectGraph' <=>
               \A c \in Callers : caller'[c].stage = "answered" =>
                   AnswerIsTrue(caller'[c].reference, caller'[c].result, caller'[c].wanted)
<1>1. \A o : GraphExists(o)' <=> GraphExists(o)
  BY SameGraphs
<1> QED BY <1>1 DEF ResultsReflectGraph, AnswerIsTrue

LEMMA UnblockedResults ==
    ASSUME ResultsReflectGraph, UNCHANGED exists, NEW s \in States, NEW result, NEW wanted,
           Unblock(s, result, wanted), AnswerIsTrue(state[s].reference, result, wanted)
    PROVE  ResultsReflectGraph'
<1>1. ASSUME NEW c \in Callers, caller'[c].stage = "answered"
      PROVE  AnswerIsTrue(caller'[c].reference, caller'[c].result, caller'[c].wanted)
  <2>1. CASE c \in state[s].hasCallers
    <3>1. /\ caller'[c].reference = state[s].reference
          /\ caller'[c].result = result /\ caller'[c].wanted = wanted
      BY <2>1 DEF Unblock
    <3> QED BY <3>1
  <2>2. CASE c \notin state[s].hasCallers
    <3>1. caller'[c] = caller[c]
      BY <2>2 DEF Unblock
    <3> QED BY <1>1, <3>1, ResultsAreAnswers
  <2> QED BY <2>1, <2>2
<1> QED BY <1>1, ResultsAreAnswersNext

-----------------------------------------------------------------------------
LEMMA UploadObjectTruth ==
    ASSUME Structure, Truth, NEW c \in Callers, NEW o \in Objects, UploadObject(c, o)
    PROVE  Truth'
<1>1. TypeOK /\ ReferencesAreLive /\ UNCHANGED <<exists, leased>>
  BY DEF Structure, UploadObject, backend
<1>2. KeptHolders /\ \A t \in States : Spared(t)
  BY <1>1, UploadObjectEffect
<1>3. caller' = [caller EXCEPT ![c] = [stage |-> "waiting", reference |-> o]]
      \/ caller' = [caller EXCEPT ![c] =
            [stage |-> "answered", reference |-> o, result |-> "Error", wanted |-> {}]]
  BY DEF UploadObject
<1>4. /\ \A d \in Callers \ {c} : caller'[d] = caller[d]
      /\ \/ caller'[c] = [stage |-> "waiting", reference |-> o]
         \/ caller'[c] =
            [stage |-> "answered", reference |-> o, result |-> "Error", wanted |-> {}]
  BY <1>1, <1>3 DEF TypeOK
<1>5. ResultsReflectGraph'
  <2>1. ASSUME NEW d \in Callers, caller'[d].stage = "answered"
        PROVE  AnswerIsTrue(caller'[d].reference, caller'[d].result, caller'[d].wanted)
    <3>1. CASE d = c
      BY <1>4, <2>1, <3>1 DEF AnswerIsTrue
    <3>2. CASE d # c
      BY <1>4, <2>1, <3>2, ResultsAreAnswers DEF Truth
    <3> QED BY <3>1, <3>2
  <2> QED BY <1>1, <2>1, ResultsAreAnswersNext
<1>6. \A t \in States : Live(t)' => TrueState(t)'
  BY <1>1, <1>2, SparedTruth, KeptHoldersOfAll DEF Truth, TrueState
<1>7. (\A x \in leased : GraphExists(x))'
  BY <1>1, SameGraphs DEF Truth
<1> QED BY <1>5, <1>6, <1>7 DEF Truth, TrueState

(* Steps that only change how far an objectState is. *)
LEMMA AdvanceTruth ==
    ASSUME Truth, NEW s \in States, SameFields(s),
           \/ state[s].stage = "pending" /\ state'[s].stage = "popped"
           \/ state[s].stage = "popped" /\ state'[s].stage = "first"
           \/ state[s].stage = "secondQueued" /\ state'[s].stage = "second",
           \A t \in States \ {s} : Spared(t), KeptHolders, UNCHANGED <<exists, leased, caller>>
    PROVE  Truth'
<1>1. ResultsReflectGraph' /\ \A o : GraphExists(o)' <=> GraphExists(o)
  BY SameResults, SameGraphs DEF Truth
<1>2. \A t \in States : KeptHoldersOf(t)
  BY KeptHoldersOfAll
<1>3. TrueState(s)
  BY DEF Truth, TrueState, SameFields
<1>4. LeasesAreTrue(s)'
  BY <1>1, <1>3 DEF SameFields, TrueState, LeasesAreTrue
<1>5. FirstAnswerIsTrue(s)'
  BY DEF FirstAnswerIsTrue
<1>6. AwaitedAreKnown(s)'
  BY <1>2, <1>3 DEF SameFields, TrueState, AwaitedAreKnown, KeptHoldersOf
<1>7. SecondAnswerIsTrue(s)' /\ OutcomeIsTrue(s)'
  BY DEF SecondAnswerIsTrue, OutcomeIsTrue
<1>8. TrueState(s)'
  BY <1>4, <1>5, <1>6, <1>7 DEF TrueState
<1> QED BY <1>1, <1>2, <1>8, TruthByState DEF Truth

LEMMA GetPendingObjectTruth ==
    ASSUME Structure, Truth, NEW s \in States, GetPendingObject(s)
    PROVE  Truth'
<1>1. TypeOK /\ WantedAreChildren
  BY DEF Structure
<1>2. SameFields(s) /\ state'[s].stage = "popped" /\ \A t \in States \ {s} : Spared(t)
  BY <1>1, GetPendingObjectEffect
<1>3. KeptHolders
  BY <1>1, GetPendingObjectQuiet, QuietKeepsHolders
<1>4. state[s].stage = "pending" /\ UNCHANGED <<exists, leased, caller>>
  BY DEF GetPendingObject, backend
<1> QED BY <1>2, <1>3, <1>4, AdvanceTruth

LEMMA ProcessSingleObjectTruth ==
    ASSUME Structure, Truth, NEW s \in States, ProcessSingleObject(s)
    PROVE  Truth'
<1>1. TypeOK /\ WantedAreChildren
  BY DEF Structure
<1>2. SameFields(s) /\ state'[s].stage = "first" /\ \A t \in States \ {s} : Spared(t)
  BY <1>1, ProcessSingleObjectEffect
<1>3. KeptHolders
  BY <1>1, ProcessSingleObjectQuiet, QuietKeepsHolders
<1>4. state[s].stage = "popped" /\ UNCHANGED <<exists, leased, caller>>
  BY DEF ProcessSingleObject, backend
<1> QED BY <1>2, <1>3, <1>4, AdvanceTruth

LEMMA StartSecondUploadTruth ==
    ASSUME Structure, Truth, NEW g \in States, StartSecondUpload(g)
    PROVE  Truth'
<1>1. TypeOK /\ WantedAreChildren
  BY DEF Structure
<1>2. PICK p \in States :
        /\ SameFields(p)
        /\ state[p].stage = "secondQueued" /\ state'[p].stage = "second"
        /\ \A t \in States \ {p} : Spared(t)
  BY <1>1, StartSecondUploadEffect
<1>3. KeptHolders
  BY <1>1, StartSecondUploadQuiet, QuietKeepsHolders
<1>4. UNCHANGED <<exists, leased, caller>>
  BY DEF StartSecondUpload, backend
<1> QED BY <1>2, <1>3, <1>4, AdvanceTruth

(* The backend answers, with leases of children of which the graphs exist. *)
LEMMA BaseUploadTruth ==
    ASSUME Structure, Truth, NEW s \in States, NEW accepted \in SUBSET Objects,
           NEW stage \in {"firstDone", "secondDone"},
           \/ state[s].stage = "first" /\ stage = "firstDone"
           \/ state[s].stage = "second" /\ stage = "secondDone",
           accepted \subseteq state[s].leases, KeptHolders,
           BaseUpload(s, accepted, stage)
    PROVE  Truth'
<1>1. TypeOK /\ Live(s) /\ UNCHANGED <<exists, caller>>
  BY LiveStates DEF Structure, BaseUpload
<1>2. PICK o \in Objects : o = state[s].reference
  BY <1>1, Fields
<1> DEFINE missing == Children[o] \ (leased \cup accepted)
<1>3. PICK result \in Results, wanted \in SUBSET Objects :
        /\ Answered(s, stage, result, wanted)
        /\ result = IF o \notin exists THEN "Missing"
                    ELSE IF missing = {} THEN "Complete" ELSE "Incomplete"
        /\ wanted = IF result = "Incomplete" THEN missing ELSE {}
        /\ \A t \in States \ {s} : Spared(t)
        /\ leased' = IF o \in exists THEN leased \cup accepted ELSE leased
  <2>1. PICK result \in Results, wanted \in SUBSET Objects :
          LET p == state[s].reference
              m == Children[p] \ (leased \cup accepted)
          IN  /\ Answered(s, stage, result, wanted)
              /\ result = IF p \notin exists THEN "Missing"
                          ELSE IF m = {} THEN "Complete" ELSE "Incomplete"
              /\ wanted = IF result = "Incomplete" THEN m ELSE {}
              /\ \A t \in States \ {s} : Spared(t)
              /\ leased' = IF p \in exists THEN leased \cup accepted ELSE leased
    BY <1>1, BaseUploadEffect
  <2> QED BY <1>2, <2>1
<1>4. TrueState(s)
  BY <1>1 DEF Truth, TrueState
<1>5. \A c \in leased \cup accepted : GraphExists(c)
  BY <1>4 DEF Truth, TrueState, LeasesAreTrue
<1>6. /\ result = "Complete" => GraphExists(o)
      /\ result = "Missing" => o \notin exists
      /\ result = "Incomplete" => o \in exists /\ wanted # {}
  <2>1. CASE missing = {}
    <3>1. Children[o] \subseteq leased \cup accepted
      BY <2>1
    <3> QED BY <1>3, <1>5, <2>1, <3>1, GraphOf
  <2>2. CASE missing # {}
    BY <1>3, <2>2
  <2> QED BY <2>1, <2>2
<1>7. \A c : GraphExists(c)' <=> GraphExists(c)
  BY <1>1, SameGraphs
<1> HIDE DEF missing
<1>8. LeasesAreTrue(s)'
  BY <1>3, <1>4, <1>7 DEF TrueState, LeasesAreTrue, Answered
<1>9. FirstAnswerIsTrue(s)'
  BY <1>1, <1>2, <1>3, <1>6, <1>7 DEF FirstAnswerIsTrue, Answered
<1>10. AwaitedAreKnown(s)'
  BY <1>1, <1>2, <1>3, <1>4 DEF AwaitedAreKnown, Answered, TrueState
<1>11. SecondAnswerIsTrue(s)' /\ OutcomeIsTrue(s)'
  BY <1>2, <1>3, <1>6, <1>7 DEF SecondAnswerIsTrue, OutcomeIsTrue, Answered
<1>12. TrueState(s)'
  BY <1>8, <1>9, <1>10, <1>11 DEF TrueState
<1>13. \A c \in leased' : GraphExists(c)
  BY <1>3, <1>5
<1>14. ResultsReflectGraph'
  BY <1>1, SameResults DEF Truth
<1> QED BY <1>1, <1>3, <1>12, <1>13, <1>14, KeptHoldersOfAll, TruthByState

LEMMA FirstUploadTruth ==
    ASSUME Structure, Truth, NEW s \in States, FirstUpload(s)
    PROVE  Truth'
<1>1. KeptHolders
  BY FirstUploadQuiet, QuietKeepsHolders DEF Structure
<1>2. state[s].stage = "first" /\ BaseUpload(s, {}, "firstDone") /\ {} \in SUBSET Objects
  BY DEF FirstUpload
<1> QED BY <1>1, <1>2, BaseUploadTruth

LEMMA SecondUploadTruth ==
    ASSUME Structure, Truth, NEW s \in States, SecondUpload(s)
    PROVE  Truth'
<1>1. KeptHolders /\ TypeOK
  BY SecondUploadQuiet, QuietKeepsHolders DEF Structure
<1>2. state[s].leases \in SUBSET Objects
  BY <1>1, LiveStates, Fields DEF SecondUpload
<1>3. PICK accepted \in SUBSET state[s].leases : BaseUpload(s, accepted, "secondDone")
  BY DEF SecondUpload
<1>4. state[s].stage = "second" /\ accepted \in SUBSET Objects
  BY <1>2 DEF SecondUpload
<1> QED BY <1>1, <1>3, <1>4, BaseUploadTruth

LEMMA UploadFailsTruth ==
    ASSUME Structure, Truth, NEW s \in States, UploadFails(s)
    PROVE  Truth'
<1>1. KeptHolders /\ TypeOK /\ Live(s) /\ UNCHANGED <<exists, leased, caller>>
  BY UploadFailsQuiet, QuietKeepsHolders, LiveStates DEF Structure, UploadFails, backend
<1>2. PICK result \in {"Error", "Missing"}, stage \in {"firstDone", "secondDone"} :
        /\ Answered(s, stage, result, {})
        /\ \/ state[s].stage = "first" /\ stage = "firstDone" /\ result = "Error"
           \/ state[s].stage = "second" /\ stage = "secondDone"
        /\ \A t \in States \ {s} : Spared(t)
  BY <1>1, UploadFailsEffect
<1>3. TrueState(s)
  BY <1>1 DEF Truth, TrueState
<1>4. \A c : GraphExists(c)' <=> GraphExists(c)
  BY <1>1, SameGraphs
<1>5. LeasesAreTrue(s)'
  BY <1>2, <1>3, <1>4 DEF TrueState, LeasesAreTrue, Answered
<1>6. FirstAnswerIsTrue(s)' /\ SecondAnswerIsTrue(s)' /\ OutcomeIsTrue(s)'
  BY <1>2 DEF FirstAnswerIsTrue, SecondAnswerIsTrue, OutcomeIsTrue, Answered
<1>7. AwaitedAreKnown(s)'
  BY <1>1, <1>2, <1>3 DEF AwaitedAreKnown, Answered, TrueState
<1>8. TrueState(s)'
  BY <1>5, <1>6, <1>7 DEF TrueState
<1>9. ResultsReflectGraph'
  BY <1>1, SameResults DEF Truth
<1> QED BY <1>1, <1>2, <1>8, <1>9, KeptHoldersOfAll, TruthByState DEF Truth

(* Steps that leave the objectStates alone, and do not add leases. *)
LEMMA UnchangedTruth ==
    ASSUME Truth, UNCHANGED <<state, exists, caller>>, leased' \subseteq leased
    PROVE  Truth'
<1>1. \A t \in States : Spared(t) /\ KeptHoldersOf(t)
  BY SameIsSpared DEF KeptHoldersOf, Holds, Live
<1>2. \A t \in States : Live(t)' => TrueState(t)'
  BY <1>1, SparedTruth DEF Truth, TrueState
<1>3. ResultsReflectGraph'
  BY SameResults DEF Truth
<1>4. (\A o \in leased : GraphExists(o))'
  BY SameGraphs DEF Truth
<1> QED BY <1>2, <1>3, <1>4 DEF Truth, TrueState

(* The outcome of an object that is finalized is the one its callers get. *)
LEMMA OutcomeOfAnswer ==
    ASSUME NEW o \in Objects, NEW result \in Results, NEW wanted,
           AnswerIsTrue(o, result, wanted), wanted \subseteq Children[o]
    PROVE  /\ OutcomeOf(result) = "lease" => GraphExists(o)
           /\ OutcomeOf(result) = "noLease" => ~GraphExists(o)
<1>1. GraphExists(o) <=> o \in exists /\ \A c \in Children[o] : GraphExists(c)
  BY GraphOf
<1>2. CASE result = "Complete"
  BY <1>2 DEF AnswerIsTrue, OutcomeOf
<1>3. CASE result = "Missing"
  BY <1>1, <1>3 DEF AnswerIsTrue, OutcomeOf
<1>4. CASE result = "Incomplete"
  BY <1>1, <1>4 DEF AnswerIsTrue, OutcomeOf
<1>5. CASE result = "Error"
  BY <1>5 DEF OutcomeOf
<1> QED BY <1>2, <1>3, <1>4, <1>5 DEF Results

LEMMA FinalizeTruth ==
    ASSUME Structure, Truth, NEW s \in States, Live(s), NEW result \in Results, NEW wanted,
           NEW first \in BOOLEAN, Finalize(s, result, wanted, first),
           AnswerIsTrue(state[s].reference, result, wanted),
           wanted \subseteq Children[state[s].reference]
    PROVE  Truth'
<1>1. TypeOK /\ UNCHANGED <<exists, leased>> /\ Unblock(s, result, wanted)
  BY DEF Structure, Finalize, backend
<1>2. /\ KeptHolders
      /\ \A t \in States \ {s} : Spared(t)
      /\ Live(s)' /\ state'[s].stage = "finalizing"
      /\ state'[s].reference = state[s].reference
      /\ state'[s].outcome = OutcomeOf(result)
      /\ state'[s].leases = state[s].leases
      /\ state'[s].gotNoLease = state[s].gotNoLease
      /\ state'[s].childErr = state[s].childErr
  BY <1>1, FinalizeEffect
<1>3. TrueState(s)
  BY DEF Truth, TrueState
<1>4. \A c : GraphExists(c)' <=> GraphExists(c)
  BY <1>1, SameGraphs
<1>5. LeasesAreTrue(s)'
  BY <1>2, <1>3, <1>4 DEF TrueState, LeasesAreTrue
<1>6. FirstAnswerIsTrue(s)' /\ SecondAnswerIsTrue(s)' /\ AwaitedAreKnown(s)'
  BY <1>2 DEF FirstAnswerIsTrue, SecondAnswerIsTrue, AwaitedAreKnown
<1>7. state[s].reference \in Objects
  BY <1>1, Fields
<1>8. OutcomeIsTrue(s)'
  BY <1>2, <1>4, <1>7, OutcomeOfAnswer DEF OutcomeIsTrue
<1>9. TrueState(s)'
  BY <1>5, <1>6, <1>8 DEF TrueState
<1>10. ResultsReflectGraph'
  BY <1>1, UnblockedResults DEF Truth
<1> QED BY <1>1, <1>2, <1>9, <1>10, KeptHoldersOfAll, TruthByState DEF Truth

LEMMA FinishFirstTruth ==
    ASSUME Structure, Truth, NEW s \in States, FinishFirst(s)
    PROVE  Truth'
<1>1. Live(s) /\ state[s].result \in Results /\ TRUE \in BOOLEAN
  BY LiveStates, Fields DEF Structure, FinishFirst
<1>2. TrueState(s) /\ state[s].stage = "firstDone" /\ state[s].result # "Incomplete"
  BY <1>1 DEF Truth, TrueState, FinishFirst
<1>3. AnswerIsTrue(state[s].reference, state[s].result, {})
  BY <1>2 DEF TrueState, FirstAnswerIsTrue, AnswerIsTrue
<1>4. PICK result \in Results : result = state[s].result
  BY <1>1
<1>5. Finalize(s, result, {}, TRUE) /\ AnswerIsTrue(state[s].reference, result, {})
  BY <1>3, <1>4 DEF FinishFirst
<1>6. {} \subseteq Children[state[s].reference]
  OBVIOUS
<1> QED BY <1>1, <1>5, <1>6, FinalizeTruth

LEMMA FinishSecondTruth ==
    ASSUME Structure, Truth, NEW s \in States, FinishSecond(s)
    PROVE  Truth'
<1>1. Live(s) /\ state[s].result \in Results /\ state[s].stage = "secondDone"
  BY LiveStates, Fields DEF Structure, FinishSecond
<1>2. TrueState(s)
  BY <1>1 DEF Truth, TrueState
<1>3. CASE RenewalFailed(s)
  <2>1. Finalize(s, "Error", {}, FALSE)
    BY <1>3 DEF FinishSecond
  <2>2. AnswerIsTrue(state[s].reference, "Error", {})
    BY DEF AnswerIsTrue
  <2>3. "Error" \in Results /\ {} \subseteq Children[state[s].reference] /\ FALSE \in BOOLEAN
    BY DEF Results
  <2> QED BY <1>1, <2>1, <2>2, <2>3, FinalizeTruth
<1>4. CASE ~RenewalFailed(s)
  <2>1. Finalize(s, state[s].result, state[s].wanted, FALSE)
    BY <1>4 DEF FinishSecond
  <2>2. /\ ~state[s].childErr /\ state[s].result \notin {"Missing", "Error"}
        /\ state[s].result = "Incomplete" => state[s].wanted \subseteq state[s].gotNoLease
    BY <1>4 DEF RenewalFailed
  <2>3. AnswerIsTrue(state[s].reference, state[s].result, state[s].wanted)
    BY <1>1, <1>2, <2>2
       DEF AnswerIsTrue, TrueState, SecondAnswerIsTrue, AwaitedAreKnown, LeasesAreTrue
  <2>4. state[s].wanted \subseteq Children[state[s].reference] /\ FALSE \in BOOLEAN
    BY <1>1 DEF Structure, WantedAreChildren
  <2> QED BY <1>1, <2>1, <2>3, <2>4, FinalizeTruth
<1> QED BY <1>3, <1>4

LEMMA QueueChildrenTruth ==
    ASSUME Structure, Truth, NEW s \in States, QueueChildren(s)
    PROVE  Truth'
<1>1. TypeOK /\ UNCHANGED <<exists, leased, caller>>
  BY DEF Structure, QueueChildren, backend
<1>2. /\ KeptHolders
      /\ \A t \in States \ {s} : Spared(t)
      /\ Live(s) /\ Live(s)'
      /\ state[s].stage = "firstDone" /\ state[s].result = "Incomplete"
      /\ state'[s].stage = "waiting"
      /\ state'[s].reference = state[s].reference
      /\ state'[s].wanted = state[s].wanted
      /\ state'[s].leases = state[s].leases
      /\ state'[s].gotNoLease = state[s].gotNoLease
      /\ state'[s].childErr = state[s].childErr
      /\ \A c \in state[s].wanted :
            \E t \in States : Holds(t, s)' /\ state'[t].reference = c
  BY QueueChildrenEffect
<1>3. TrueState(s) /\ state[s].wanted # {}
  BY <1>2 DEF Truth, TrueState, Structure, WantedAreChildren
<1>4. LeasesAreTrue(s)'
  BY <1>1, <1>2, <1>3, SameGraphs DEF TrueState, LeasesAreTrue
<1>5. AwaitedAreKnown(s)'
  BY <1>1, <1>2, <1>3 DEF TrueState, FirstAnswerIsTrue, AwaitedAreKnown
<1>6. FirstAnswerIsTrue(s)' /\ SecondAnswerIsTrue(s)' /\ OutcomeIsTrue(s)'
  BY <1>2 DEF FirstAnswerIsTrue, SecondAnswerIsTrue, OutcomeIsTrue
<1>7. TrueState(s)'
  BY <1>4, <1>5, <1>6 DEF TrueState
<1>8. ResultsReflectGraph'
  BY <1>1, SameResults DEF Truth
<1> QED BY <1>1, <1>2, <1>7, <1>8, KeptHoldersOfAll, TruthByState DEF Truth

(* What a parent knows once it is told about a child. *)
LEMMA ToldKnowledge ==
    ASSUME Structure, Truth, NEW g \in States, NEW f \in States, NEW p \in States,
           IsTold(g, f, p), UNCHANGED exists
    PROVE  /\ LeasesAreTrue(p)'
           /\ state'[p].wanted # {}
           /\ state'[p].wanted \subseteq Children[state'[p].reference]
           /\ \A c \in state'[p].wanted :
                 \/ c \in state'[p].leases \cup state'[p].gotNoLease
                 \/ \E t \in States : Holds(t, p)' /\ state'[t].reference = c
           /\ state'[p].reference \in exists
           /\ state'[p].originalIncompleteResult => state'[p].leases = {}
           /\ \A t \in States \ {p} : Spared(t) /\ KeptHoldersOf(t)
<1> USE DEF IsTold
<1>1. TypeOK
  BY DEF Structure
<1>2. TrueState(p) /\ TrueState(f)
  BY DEF Truth, TrueState
<1>3. /\ state[f].outcome = "lease" => GraphExists(state[f].reference)
      /\ state[f].outcome = "noLease" => ~GraphExists(state[f].reference)
      /\ state[f].outcome \in {"lease", "noLease", "error"}
  BY <1>1, <1>2, Fields DEF TrueState, OutcomeIsTrue, Outcomes
<1>4. \A c : GraphExists(c)' <=> GraphExists(c)
  BY SameGraphs
<1>5. (\A c \in state[p].leases : GraphExists(c))'
  <2>1. \A c \in state[p].leases : GraphExists(c)
    BY <1>2 DEF TrueState, LeasesAreTrue
  <2>2. CASE state[f].outcome = "lease"
    BY <1>3, <1>4, <2>1, <2>2
  <2>3. CASE state[f].outcome # "lease"
    BY <1>4, <2>1, <2>3
  <2> QED BY <2>2, <2>3
<1>6. (~state[p].childErr => \A c \in state[p].gotNoLease : ~GraphExists(c))'
  <2>1. ~state[p].childErr => \A c \in state[p].gotNoLease : ~GraphExists(c)
    BY <1>2 DEF TrueState, LeasesAreTrue
  <2>2. CASE state[f].outcome = "lease"
    BY <1>4, <2>1, <2>2
  <2>3. CASE state[f].outcome = "noLease"
    BY <1>3, <1>4, <2>1, <2>3
  <2>4. CASE state[f].outcome = "error"
    BY <2>4
  <2> QED BY <1>3, <2>2, <2>3, <2>4
<1>7. LeasesAreTrue(p)'
  BY <1>5, <1>6 DEF LeasesAreTrue
<1>8. /\ state[p].wanted # {}
      /\ \A c \in state[p].wanted :
            \/ c \in state[p].leases \cup state[p].gotNoLease
            \/ \E t \in States : Holds(t, p) /\ state[t].reference = c
      /\ state[p].reference \in exists
      /\ state[p].originalIncompleteResult => state[p].leases = {}
  BY <1>2 DEF TrueState, AwaitedAreKnown
<1>9. ASSUME NEW c \in state'[p].wanted
      PROVE  \/ c \in state'[p].leases \cup state'[p].gotNoLease
             \/ \E t \in States : Holds(t, p)' /\ state'[t].reference = c
  <2>1. CASE c \in state[p].leases \cup state[p].gotNoLease \cup {state[f].reference}
    BY <2>1
  <2>2. CASE c \notin state[p].leases \cup state[p].gotNoLease \cup {state[f].reference}
    <3>1. PICK t \in States : Holds(t, p) /\ state[t].reference = c
      BY <1>8, <2>2
    <3>2. t # f
      BY <2>2, <3>1
    <3> QED BY <3>1, <3>2
  <2> QED BY <2>1, <2>2
<1>10. state'[p].originalIncompleteResult => state'[p].leases = {}
  BY <1>8
<1>11. state[p].wanted \subseteq Children[state[p].reference]
  BY DEF Structure, WantedAreChildren
<1>12. \A t \in States \ {p} : Spared(t) /\ KeptHoldersOf(t)
  BY DEF KeptHoldersOf
<1> QED BY <1>7, <1>8, <1>9, <1>10, <1>11, <1>12

LEMMA ToldTruth ==
    ASSUME Structure, Truth, NEW g \in States, NEW f \in States, NEW p \in States,
           IsTold(g, f, p), UNCHANGED <<exists, leased, caller>>,
           state'[p].stage \in {"waiting", "secondQueued"}
    PROVE  Truth'
<1>1. /\ LeasesAreTrue(p)'
      /\ state'[p].wanted # {}
      /\ \A c \in state'[p].wanted :
            \/ c \in state'[p].leases \cup state'[p].gotNoLease
            \/ \E t \in States : Holds(t, p)' /\ state'[t].reference = c
      /\ state'[p].reference \in exists
      /\ state'[p].originalIncompleteResult => state'[p].leases = {}
      /\ \A t \in States \ {p} : Spared(t) /\ KeptHoldersOf(t)
  BY ToldKnowledge
<1>2. AwaitedAreKnown(p)'
  BY <1>1 DEF AwaitedAreKnown
<1>3. FirstAnswerIsTrue(p)' /\ SecondAnswerIsTrue(p)' /\ OutcomeIsTrue(p)'
  BY DEF FirstAnswerIsTrue, SecondAnswerIsTrue, OutcomeIsTrue
<1>4. TrueState(p)'
  BY <1>1, <1>2, <1>3 DEF TrueState
<1>5. ResultsReflectGraph'
  BY SameResults DEF Truth
<1> QED BY <1>1, <1>4, <1>5, TruthByState DEF Truth

LEMMA ParentHasNoLeasesTruth ==
    ASSUME Structure, Structure', Truth, NEW g \in States, ParentHasNoLeases(g)
    PROVE  Truth'
<1>1. PICK f, p \in States, result \in {"Error", "Incomplete"} :
        /\ IsTold(g, f, p) /\ state'[p].stage = "finalizing"
        /\ state'[p].originalIncompleteResult
        /\ result = IF state'[p].childErr THEN "Error" ELSE "Incomplete"
        /\ state'[p].outcome = OutcomeOf(result)
        /\ Unblock(p, result, state[p].wanted)
  BY ParentHasNoLeasesEffect
<1>2. UNCHANGED <<exists, leased>>
  BY DEF ParentHasNoLeases, backend
<1>3. /\ LeasesAreTrue(p)'
      /\ state'[p].wanted # {}
      /\ state'[p].wanted \subseteq Children[state'[p].reference]
      /\ \A c \in state'[p].wanted :
            \/ c \in state'[p].leases \cup state'[p].gotNoLease
            \/ \E t \in States : Holds(t, p)' /\ state'[t].reference = c
      /\ state'[p].reference \in exists
      /\ state'[p].leases = {}
      /\ \A t \in States \ {p} : Spared(t) /\ KeptHoldersOf(t)
  BY <1>1, <1>2, ToldKnowledge
<1>4. \A t \in States : ~Holds(t, p)'
  BY <1>1 DEF Structure, ParentsWait, Holds
<1>5. state'[p].wanted \subseteq state'[p].gotNoLease
  BY <1>3, <1>4
<1>6. \A c : GraphExists(c)' <=> GraphExists(c)
  BY <1>2, SameGraphs
<1>7. /\ state'[p].wanted = state[p].wanted /\ state'[p].reference = state[p].reference
      /\ Live(p) /\ Live(p)'
  BY <1>1 DEF IsTold
<1>8. AnswerIsTrue(state[p].reference, result, state[p].wanted)
  <2>1. CASE state'[p].childErr
    BY <1>1, <2>1 DEF AnswerIsTrue
  <2>2. CASE ~state'[p].childErr
    <3>1. \A c \in state[p].wanted : ~GraphExists(c)
      BY <1>3, <1>5, <1>6, <1>7, <2>2 DEF LeasesAreTrue
    <3> QED BY <1>1, <1>3, <1>7, <2>2, <3>1 DEF AnswerIsTrue
  <2> QED BY <2>1, <2>2
<1>9. ResultsReflectGraph'
  <2>1. PICK w : w = state[p].wanted
    OBVIOUS
  <2>2. Unblock(p, result, w) /\ AnswerIsTrue(state[p].reference, result, w)
    BY <1>1, <1>8, <2>1
  <2> QED BY <1>2, <2>2, UnblockedResults DEF Truth
<1>10. OutcomeIsTrue(p)'
  <2>1. state[p].reference \in Objects /\ result \in Results
    BY <1>7, Fields DEF Structure, Results
  <2>2. /\ OutcomeOf(result) = "lease" => GraphExists(state[p].reference)
        /\ OutcomeOf(result) = "noLease" => ~GraphExists(state[p].reference)
    BY <1>3, <1>7, <1>8, <2>1, OutcomeOfAnswer
  <2> QED BY <1>1, <1>6, <1>7, <2>2 DEF OutcomeIsTrue
<1>11. FirstAnswerIsTrue(p)' /\ SecondAnswerIsTrue(p)' /\ AwaitedAreKnown(p)'
  BY <1>1 DEF FirstAnswerIsTrue, SecondAnswerIsTrue, AwaitedAreKnown
<1>12. TrueState(p)'
  BY <1>3, <1>10, <1>11 DEF TrueState
<1> QED BY <1>2, <1>3, <1>9, <1>12, TruthByState DEF Truth

LEMMA ReleaseObjectTruth ==
    ASSUME Structure, Truth, NEW g \in States, ReleaseObject(g)
    PROVE  Truth'
<1>1. PICK s \in States : KeptHolders /\ (\A t \in States \ {s} : Spared(t)) /\ ~Live(s)'
  BY ReleaseObjectEffect
<1>2. UNCHANGED <<exists, leased, caller>>
  BY DEF ReleaseObject, backend
<1>3. ResultsReflectGraph'
  BY <1>2, SameResults DEF Truth
<1> QED BY <1>1, <1>2, <1>3, KeptHoldersOfAll, TruthByState DEF Truth

LEMMA TruthInit ==
    ASSUME Init
    PROVE  Truth
  BY DEF Init, Truth, Live, ResultsReflectGraph

LEMMA TruthNext ==
    ASSUME Structure, Truth, [Next]_vars
    PROVE  Truth'
<1>1. Structure'
  BY StructureNext
<1>2. CASE UNCHANGED vars
  BY <1>2, UnchangedTruth DEF vars, backend
<1>3. ASSUME NEW c \in Objects, Expire(c)
      PROVE  Truth'
  BY <1>3, UnchangedTruth DEF Expire
<1>4. ASSUME NEW s \in States, Step(s) \/ UploadFails(s)
      PROVE  Truth'
  <2>1. CASE ParentStillWaits(s)
    BY <2>1, ParentStillWaitsEffect, ToldTruth DEF ParentStillWaits, backend
  <2>2. CASE ParentHasLeases(s)
    BY <2>2, ParentHasLeasesEffect, ToldTruth DEF ParentHasLeases, backend
  <2>3. CASE Relock(s)
    BY <2>3, UnchangedTruth DEF Relock, backend
  <2> QED BY <1>1, <1>4, <2>1, <2>2, <2>3, GetPendingObjectTruth, ProcessSingleObjectTruth,
             FirstUploadTruth, SecondUploadTruth, FinishFirstTruth, QueueChildrenTruth,
             FinishSecondTruth, ParentHasNoLeasesTruth, StartSecondUploadTruth,
             ReleaseObjectTruth, UploadFailsTruth DEF Step
<1> QED BY <1>2, <1>3, <1>4, UploadObjectTruth DEF Next

(* What callers are told is the truth about the whole graph below the      *)
(* object: "complete" is only said of a graph of which all objects exist,  *)
(* and objects that are asked for are roots of graphs that do not.  That   *)
(* holds however the traversals of overlapping graphs interleave, whatever *)
(* leases expire meanwhile and whichever calls of the backend fail.        *)
THEOREM CallersAreToldTheTruth == Spec => []ResultsReflectGraph
<1>1. Init => Structure /\ Truth
  BY StructureInit, TruthInit
<1>2. Structure /\ Truth /\ [Next]_vars => Structure' /\ Truth'
  BY StructureNext, TruthNext
<1>3. Truth => ResultsReflectGraph
  BY DEF Truth
<1> QED BY <1>1, <1>2, <1>3, PTL DEF Spec

-----------------------------------------------------------------------------
(* Nothing but faults, and objects that exceed the limit, leads to errors. *)
LEMMA SparedInnocence ==
    ASSUME NEW t \in States, Spared(t), Live(t)', Live(t) => FreeOfErrors(t),
           leased \subseteq leased'
    PROVE  FreeOfErrors(t)'
<1>1. CASE Kept(t)
  BY <1>1 DEF Kept, SameFields, FreeOfErrors
<1>2. CASE Fresh(t)
  BY <1>2 DEF Fresh, FreeOfErrors
<1> QED BY <1>1, <1>2 DEF Spared

(* Faults are counted, and leases are only lost because of them. *)
LEMMA FaultsAreCounted ==
    ASSUME TypeOK, [Next]_vars
    PROVE  /\ errors' \in Nat /\ expirations' \in Nat
           /\ errors' >= errors /\ expirations' >= expirations
           /\ NoFaults' => NoFaults /\ leased \subseteq leased'
<1> DEFINE Counted == /\ errors' \in Nat /\ expirations' \in Nat
                      /\ errors' >= errors /\ expirations' >= expirations
           Quiet == UNCHANGED <<errors, expirations>> /\ leased \subseteq leased'
<1>1. errors \in Nat /\ expirations \in Nat
  BY DEF TypeOK
<1>2. Quiet => Counted /\ (NoFaults' => NoFaults /\ leased \subseteq leased')
  BY <1>1 DEF NoFaults
<1>3. ASSUME errors' = errors + 1, expirations' = expirations \/ expirations' = expirations + 1
      PROVE  Counted /\ ~NoFaults'
  BY <1>1, <1>3 DEF NoFaults
<1>4. ASSUME expirations' = expirations + 1, errors' = errors
      PROVE  Counted /\ ~NoFaults'
  BY <1>1, <1>4 DEF NoFaults
<1>5. CASE UNCHANGED vars
  BY <1>2, <1>5 DEF vars, backend, bounds
<1>6. ASSUME NEW c \in Callers, NEW o \in Objects, UploadObject(c, o)
      PROVE  Quiet
  BY <1>6 DEF UploadObject, backend
<1>7. ASSUME NEW c \in Objects, Expire(c)
      PROVE  Counted /\ ~NoFaults'
  BY <1>4, <1>7 DEF Expire
<1>8. ASSUME NEW s \in States, UploadFails(s)
      PROVE  Counted /\ ~NoFaults'
  BY <1>3, <1>8 DEF UploadFails
<1>9. ASSUME NEW s \in States, SecondUpload(s)
      PROVE  Counted /\ (NoFaults' => NoFaults /\ leased \subseteq leased')
  <2>1. leased \subseteq leased'
    BY <1>9 DEF SecondUpload, BaseUpload
  <2>2. CASE UNCHANGED bounds
    BY <1>2, <2>1, <2>2 DEF bounds
  <2>3. CASE expirations' = expirations + 1 /\ errors' = errors
    BY <1>4, <2>3
  <2> QED BY <1>9, <2>2, <2>3 DEF SecondUpload
<1>10. ASSUME NEW s \in States, Step(s), ~SecondUpload(s)
       PROVE  Quiet
  <2>1. CASE FirstUpload(s)
    BY <2>1 DEF FirstUpload, BaseUpload, bounds
  <2>2. CASE FinishFirst(s) \/ FinishSecond(s)
    BY <2>2 DEF FinishFirst, FinishSecond, Finalize, bounds, backend
  <2>3. CASE \/ GetPendingObject(s) \/ ProcessSingleObject(s) \/ QueueChildren(s)
             \/ ParentStillWaits(s) \/ ParentHasNoLeases(s) \/ ParentHasLeases(s)
             \/ StartSecondUpload(s) \/ Relock(s) \/ ReleaseObject(s)
    BY <2>3 DEF GetPendingObject, ProcessSingleObject, QueueChildren, ParentStillWaits,
                ParentHasNoLeases, ParentHasLeases, StartSecondUpload, Relock,
                ReleaseObject, bounds, backend
  <2> QED BY <1>10, <2>1, <2>2, <2>3 DEF Step
<1> HIDE DEF Quiet
<1>11. Counted /\ (NoFaults' => NoFaults /\ leased \subseteq leased')
  BY <1>2, <1>5, <1>6, <1>7, <1>8, <1>9, <1>10 DEF Next
<1> QED BY <1>11

(* Whether an error that is reported is due to something else. *)
IsExplained(o) ==
    errors > 0 \/ expirations > 0 \/ ~CanAcquireParentAndChildren(Maximum, o)

LEMMA SpuriousErrors ==
    NoSpuriousErrors <=>
        \A c \in Callers : \A o :
            /\ caller[c].stage = "answered" /\ caller[c].result = "Error"
            /\ caller[c].reference = o
            => IsExplained(o)
  BY DEF NoSpuriousErrors, IsExplained

LEMMA SpuriousErrorsNext ==
    NoSpuriousErrors' <=>
        \A c \in Callers : \A o :
            /\ caller'[c].stage = "answered" /\ caller'[c].result = "Error"
            /\ caller'[c].reference = o
            => IsExplained(o)'
  BY DEF NoSpuriousErrors, IsExplained

LEMMA StillExplained ==
    ASSUME TypeOK, [Next]_vars, NEW o
    PROVE  /\ IsExplained(o) => IsExplained(o)'
           /\ ~NoFaults' => IsExplained(o)'
<1>1. /\ errors' \in Nat /\ expirations' \in Nat
      /\ errors' >= errors /\ expirations' >= expirations
      /\ errors \in Nat /\ expirations \in Nat
  BY FaultsAreCounted DEF TypeOK
<1> QED BY <1>1 DEF IsExplained, NoFaults

LEMMA SameErrors ==
    ASSUME TypeOK, [Next]_vars, NoSpuriousErrors, UNCHANGED caller
    PROVE  NoSpuriousErrors'
  BY StillExplained, SpuriousErrors, SpuriousErrorsNext

LEMMA UnblockedErrors ==
    ASSUME TypeOK, [Next]_vars, NoSpuriousErrors, NEW s \in States, NEW result, NEW wanted,
           Unblock(s, result, wanted), result = "Error" => ~NoFaults'
    PROVE  NoSpuriousErrors'
<1>1. ASSUME NEW c \in Callers, NEW o, caller'[c].reference = o,
             caller'[c].stage = "answered", caller'[c].result = "Error"
      PROVE  IsExplained(o)'
  <2>1. CASE c \in state[s].hasCallers
    <3>1. caller'[c].result = result
      BY <2>1 DEF Unblock
    <3>2. ~NoFaults'
      BY <1>1, <3>1
    <3> QED BY <3>2, StillExplained
  <2>2. CASE c \notin state[s].hasCallers
    <3>1. caller'[c] = caller[c]
      BY <2>2 DEF Unblock
    <3>2. IsExplained(o)
      BY <1>1, <3>1, SpuriousErrors
    <3> QED BY <3>2, StillExplained
  <2> QED BY <2>1, <2>2
<1> QED BY <1>1, SpuriousErrorsNext

InnocentStates == NoFaults => \A s \in States : Live(s) => FreeOfErrors(s)

(* A step changes at most s, and has no fault. *)
LEMMA InnocenceByState ==
    ASSUME TypeOK, Innocence, [Next]_vars, NEW s \in States,
           \A t \in States \ {s} : Spared(t),
           NoFaults' /\ Live(s)' => FreeOfErrors(s)'
    PROVE  InnocentStates'
<1>1. NoFaults' => NoFaults /\ leased \subseteq leased'
  BY FaultsAreCounted
<1>2. ASSUME NoFaults', NEW t \in States, Live(t)', t # s
      PROVE  FreeOfErrors(t)'
  BY <1>1, <1>2, SparedInnocence DEF Innocence
<1> QED BY <1>2 DEF InnocentStates

LEMMA BaseUploadInnocence ==
    ASSUME Structure, Truth, Innocence, [Next]_vars, NEW s \in States,
           NEW stage \in {"firstDone", "secondDone"}, NEW accepted \in SUBSET Objects,
           \/ state[s].stage = "first" /\ stage = "firstDone"
           \/ /\ state[s].stage = "second" /\ stage = "secondDone"
              /\ NoFaults' => accepted = state[s].leases,
           BaseUpload(s, accepted, stage)
    PROVE  InnocentStates'
<1>1. TypeOK /\ Live(s)
  BY LiveStates DEF Structure
<1>2. PICK o \in Objects : o = state[s].reference
  BY <1>1, Fields
<1> DEFINE missing == Children[o] \ (leased \cup accepted)
<1>3. PICK result \in Results, wanted \in SUBSET Objects :
        /\ Answered(s, stage, result, wanted)
        /\ result = IF o \notin exists THEN "Missing"
                    ELSE IF missing = {} THEN "Complete" ELSE "Incomplete"
        /\ wanted = IF result = "Incomplete" THEN missing ELSE {}
        /\ \A t \in States \ {s} : Spared(t)
        /\ leased' = IF o \in exists THEN leased \cup accepted ELSE leased
  <2>1. PICK result \in Results, wanted \in SUBSET Objects :
          LET p == state[s].reference
              m == Children[p] \ (leased \cup accepted)
          IN  /\ Answered(s, stage, result, wanted)
              /\ result = IF p \notin exists THEN "Missing"
                          ELSE IF m = {} THEN "Complete" ELSE "Incomplete"
              /\ wanted = IF result = "Incomplete" THEN m ELSE {}
              /\ \A t \in States \ {s} : Spared(t)
              /\ leased' = IF p \in exists THEN leased \cup accepted ELSE leased
    BY <1>1, BaseUploadEffect
  <2> QED BY <1>2, <2>1
<1>4. ASSUME NoFaults'
      PROVE  FreeOfErrors(s)'
  <2>1. NoFaults /\ FreeOfErrors(s)
    BY <1>1, <1>4, FaultsAreCounted DEF Innocence
  <2>2. state'[s].reference = o /\ state'[s].stage = stage /\ state'[s].result = result
        /\ state'[s].wanted = wanted /\ state'[s].gotNoLease = state[s].gotNoLease
        /\ ~state'[s].childErr /\ result # "Error"
    BY <1>2, <1>3, <2>1 DEF Answered, FreeOfErrors
  <2>3. CASE stage = "firstDone"
    <3>1. result = "Incomplete" => Children[o] \ leased' \subseteq wanted
      BY <1>3
    <3> QED BY <2>2, <2>3, <3>1 DEF FreeOfErrors
  <2>4. CASE stage = "secondDone"
    <3>1. TrueState(s) /\ state[s].stage = "second" /\ accepted = state[s].leases
      BY <1>1, <1>4, <2>4 DEF Truth, TrueState
    <3>2. \A t \in States : ~Holds(t, s)
      BY <3>1 DEF Structure, ParentsWait, Holds
    <3>3. state[s].wanted \subseteq state[s].leases \cup state[s].gotNoLease /\ o \in exists
      BY <1>2, <3>1, <3>2 DEF TrueState, AwaitedAreKnown
    <3>4. Children[o] \ leased \subseteq state[s].wanted
      BY <1>2, <2>1, <3>1 DEF FreeOfErrors
    <3>5. result # "Missing" /\ wanted \subseteq state[s].gotNoLease
      BY <1>3, <3>1, <3>3, <3>4
    <3> QED BY <2>2, <2>4, <3>5 DEF FreeOfErrors
  <2> QED BY <2>3, <2>4
<1> QED BY <1>1, <1>3, <1>4, InnocenceByState

LEMMA UploadsInnocence ==
    ASSUME Structure, Truth, Innocence, [Next]_vars, NEW s \in States,
           FirstUpload(s) \/ SecondUpload(s)
    PROVE  Innocence'
<1>1. TypeOK /\ UNCHANGED caller
  BY DEF Structure, FirstUpload, SecondUpload, BaseUpload
<1>2. NoSpuriousErrors'
  BY <1>1, SameErrors DEF Innocence
<1>3. CASE FirstUpload(s)
  <2>1. state[s].stage = "first" /\ BaseUpload(s, {}, "firstDone") /\ {} \in SUBSET Objects
    BY <1>3 DEF FirstUpload
  <2>2. InnocentStates'
    BY <2>1, BaseUploadInnocence
  <2> QED BY <1>2, <2>2 DEF Innocence, InnocentStates
<1>4. CASE SecondUpload(s)
  <2>1. Live(s) /\ state[s].leases \in SUBSET Objects /\ state[s].stage = "second"
    BY <1>1, <1>4, LiveStates, Fields DEF SecondUpload
  <2>2. PICK accepted \in SUBSET Objects :
          /\ BaseUpload(s, accepted, "secondDone")
          /\ NoFaults' => accepted = state[s].leases
    <3>1. CASE BaseUpload(s, state[s].leases, "secondDone")
      <4>1. PICK accepted \in SUBSET Objects : accepted = state[s].leases
        BY <2>1
      <4> QED BY <3>1, <4>1
    <3>2. CASE /\ expirations' = expirations + 1
               /\ \E accepted \in SUBSET state[s].leases : BaseUpload(s, accepted, "secondDone")
      <4>1. ~NoFaults'
        BY <1>1, <3>2 DEF NoFaults, TypeOK
      <4> QED BY <2>1, <3>2, <4>1
    <3> QED BY <1>4, <3>1, <3>2 DEF SecondUpload
  <2>3. InnocentStates'
    BY <2>1, <2>2, BaseUploadInnocence
  <2> QED BY <1>2, <2>3 DEF Innocence, InnocentStates
<1> QED BY <1>3, <1>4

LEMMA FinalizeInnocence ==
    ASSUME Structure, Innocence, [Next]_vars, NEW s \in States, Live(s), NEW result \in Results,
           NEW wanted, NEW first \in BOOLEAN, Finalize(s, result, wanted, first),
           NoFaults' => result # "Error"
    PROVE  Innocence'
<1>1. TypeOK /\ Unblock(s, result, wanted)
  BY DEF Structure, Finalize
<1>2. /\ \A t \in States \ {s} : Spared(t)
      /\ state'[s].stage = "finalizing"
      /\ state'[s].outcome = OutcomeOf(result)
      /\ state'[s].childErr = state[s].childErr
  BY <1>1, FinalizeEffect
<1>3. ASSUME NoFaults' PROVE FreeOfErrors(s)'
  <2>1. FreeOfErrors(s)
    BY <1>1, <1>3, FaultsAreCounted DEF Innocence
  <2>2. OutcomeOf(result) # "error"
    BY <1>3 DEF OutcomeOf, Results
  <2> QED BY <1>2, <2>1, <2>2 DEF FreeOfErrors
<1>4. InnocentStates'
  BY <1>1, <1>2, <1>3, InnocenceByState
<1>5. NoSpuriousErrors'
  BY <1>1, UnblockedErrors DEF Innocence
<1> QED BY <1>4, <1>5 DEF Innocence, InnocentStates

LEMMA FinishesInnocence ==
    ASSUME Structure, Innocence, [Next]_vars, NEW s \in States,
           FinishFirst(s) \/ FinishSecond(s)
    PROVE  Innocence'
<1>1. TypeOK /\ Live(s) /\ state[s].result \in Results
  BY LiveStates, Fields DEF Structure, FinishFirst, FinishSecond
<1>2. NoFaults' => FreeOfErrors(s)
  BY <1>1, FaultsAreCounted DEF Innocence
<1>3. PICK r \in Results : r = state[s].result
  BY <1>1
<1>4. CASE FinishFirst(s)
  <2>1. Finalize(s, r, {}, TRUE) /\ state[s].stage = "firstDone"
    BY <1>3, <1>4 DEF FinishFirst
  <2>2. NoFaults' => r # "Error"
    BY <1>2, <1>3, <2>1 DEF FreeOfErrors
  <2> QED BY <1>1, <2>1, <2>2, FinalizeInnocence
<1>5. CASE FinishSecond(s)
  <2>1. NoFaults' => r # "Error" /\ ~RenewalFailed(s)
    BY <1>2, <1>3, <1>5 DEF FreeOfErrors, FinishSecond, RenewalFailed
  <2>2. CASE RenewalFailed(s)
    <3>1. Finalize(s, "Error", {}, FALSE) /\ "Error" \in Results /\ ~NoFaults'
      BY <1>5, <2>1, <2>2 DEF FinishSecond, Results
    <3> QED BY <1>1, <3>1, FinalizeInnocence
  <2>3. CASE ~RenewalFailed(s)
    <3>1. PICK w : w = state[s].wanted
      OBVIOUS
    <3>2. Finalize(s, r, w, FALSE)
      BY <1>3, <1>5, <2>3, <3>1 DEF FinishSecond
    <3> QED BY <1>1, <2>1, <3>2, FinalizeInnocence
  <2> QED BY <2>2, <2>3
<1> QED BY <1>4, <1>5

(* A child of which the outcome is no error leaves its parent without one. *)
LEMMA ToldInnocence ==
    ASSUME Structure, Innocence, [Next]_vars,
           NEW g \in States, NEW f \in States, NEW p \in States, IsTold(g, f, p),
           \/ state'[p].stage \in {"waiting", "secondQueued"}
           \/ /\ state'[p].stage = "finalizing"
              /\ ~state'[p].childErr => state'[p].outcome # "error"
    PROVE  InnocentStates' /\ (NoFaults' => ~state'[p].childErr)
<1>1. TypeOK /\ Live(p) /\ Live(f) /\ \A t \in States \ {p} : Spared(t)
  BY DEF Structure, IsTold
<1>2. ASSUME NoFaults'
      PROVE  ~state'[p].childErr /\ FreeOfErrors(p)'
  <2>1. FreeOfErrors(p) /\ FreeOfErrors(f) /\ leased \subseteq leased'
    BY <1>1, <1>2, FaultsAreCounted DEF Innocence
  <2>2. ~state'[p].childErr
    BY <2>1 DEF FreeOfErrors, IsTold
  <2>3. Children[state'[p].reference] \ leased' \subseteq state'[p].wanted
    BY <2>1 DEF FreeOfErrors, IsTold
  <2> QED BY <2>2, <2>3 DEF FreeOfErrors
<1> QED BY <1>1, <1>2, InnocenceByState

LEMMA ParentsInnocence ==
    ASSUME Structure, Innocence, [Next]_vars, NEW g \in States,
           ParentStillWaits(g) \/ ParentHasLeases(g) \/ ParentHasNoLeases(g)
    PROVE  Innocence'
<1>1. TypeOK
  BY DEF Structure
<1>2. CASE ParentStillWaits(g) \/ ParentHasLeases(g)
  <2>1. PICK f, p \in States : IsTold(g, f, p) /\ state'[p].stage \in {"waiting", "secondQueued"}
    BY <1>2, ParentStillWaitsEffect, ParentHasLeasesEffect
  <2>2. UNCHANGED caller
    BY <1>2 DEF ParentStillWaits, ParentHasLeases
  <2>3. InnocentStates' /\ NoSpuriousErrors'
    BY <1>1, <2>1, <2>2, ToldInnocence, SameErrors DEF Innocence
  <2> QED BY <2>3 DEF Innocence, InnocentStates
<1>3. CASE ParentHasNoLeases(g)
  <2>1. PICK f, p \in States, result \in {"Error", "Incomplete"} :
          /\ IsTold(g, f, p) /\ state'[p].stage = "finalizing"
          /\ result = IF state'[p].childErr THEN "Error" ELSE "Incomplete"
          /\ state'[p].outcome = OutcomeOf(result)
          /\ Unblock(p, result, state[p].wanted)
    BY <1>3, ParentHasNoLeasesEffect
  <2>2. ~state'[p].childErr => state'[p].outcome # "error"
    BY <2>1 DEF OutcomeOf
  <2>3. InnocentStates' /\ (NoFaults' => ~state'[p].childErr)
    BY <2>1, <2>2, ToldInnocence
  <2>4. result = "Error" => ~NoFaults'
    BY <2>1, <2>3
  <2>5. PICK w : w = state[p].wanted
    OBVIOUS
  <2>6. NoSpuriousErrors'
    BY <1>1, <2>1, <2>4, <2>5, UnblockedErrors DEF Innocence
  <2> QED BY <2>3, <2>6 DEF Innocence, InnocentStates
<1> QED BY <1>2, <1>3

LEMMA QueueChildrenInnocence ==
    ASSUME Structure, Innocence, [Next]_vars, NEW s \in States, QueueChildren(s)
    PROVE  Innocence'
<1>1. TypeOK /\ UNCHANGED caller
  BY DEF Structure, QueueChildren
<1>2. /\ \A t \in States \ {s} : Spared(t)
      /\ Live(s) /\ state[s].stage = "firstDone" /\ state[s].result = "Incomplete"
      /\ state'[s].stage = "waiting"
      /\ state'[s].reference = state[s].reference
      /\ state'[s].wanted = state[s].wanted
      /\ state'[s].childErr = state[s].childErr
  BY QueueChildrenEffect
<1>3. ASSUME NoFaults' PROVE FreeOfErrors(s)'
  <2>1. FreeOfErrors(s) /\ leased \subseteq leased'
    BY <1>1, <1>2, <1>3, FaultsAreCounted DEF Innocence
  <2> QED BY <1>2, <2>1 DEF FreeOfErrors
<1>4. InnocentStates' /\ NoSpuriousErrors'
  BY <1>1, <1>2, <1>3, InnocenceByState, SameErrors DEF Innocence
<1> QED BY <1>4 DEF Innocence, InnocentStates

LEMMA AdvanceInnocence ==
    ASSUME Structure, Innocence, [Next]_vars, NEW s \in States,
           GetPendingObject(s) \/ ProcessSingleObject(s) \/ StartSecondUpload(s)
    PROVE  Innocence'
<1>1. TypeOK /\ UNCHANGED caller
  BY DEF Structure, GetPendingObject, ProcessSingleObject, StartSecondUpload
<1>2. PICK p \in States :
        /\ SameFields(p) /\ \A t \in States \ {p} : Spared(t)
        /\ \/ state'[p].stage \in {"popped", "first"}
           \/ state[p].stage = "secondQueued" /\ state'[p].stage = "second"
  BY <1>1, GetPendingObjectEffect, ProcessSingleObjectEffect, StartSecondUploadEffect
<1>3. ASSUME NoFaults' PROVE FreeOfErrors(p)'
  <2>1. FreeOfErrors(p) /\ leased \subseteq leased'
    BY <1>1, <1>2, <1>3, FaultsAreCounted DEF Innocence, SameFields
  <2> QED BY <1>2, <2>1 DEF FreeOfErrors, SameFields
<1>4. InnocentStates' /\ NoSpuriousErrors'
  BY <1>1, <1>2, <1>3, InnocenceByState, SameErrors DEF Innocence
<1> QED BY <1>4 DEF Innocence, InnocentStates

LEMMA UploadObjectInnocence ==
    ASSUME Structure, Innocence, [Next]_vars, NEW c \in Callers, NEW o \in Objects,
           UploadObject(c, o)
    PROVE  Innocence'
<1>1. TypeOK /\ ReferencesAreLive
  BY DEF Structure
<1>2. \A t \in States : Spared(t)
  BY <1>1, UploadObjectEffect
<1>3. InnocentStates'
  BY <1>1, <1>2, FaultsAreCounted, SparedInnocence DEF Innocence, InnocentStates
<1>4. /\ \A d \in Callers \ {c} : caller'[d] = caller[d]
      /\ \/ caller'[c].stage = "waiting"
         \/ caller'[c].reference = o /\ ~CanAcquireParentAndChildren(Maximum, o)
  BY <1>1 DEF UploadObject, TypeOK
<1>5. NoSpuriousErrors'
  <2>1. ASSUME NEW d \in Callers, NEW q, caller'[d].reference = q,
               caller'[d].stage = "answered", caller'[d].result = "Error"
        PROVE  IsExplained(q)'
    <3>1. CASE d = c
      BY <1>4, <2>1, <3>1 DEF IsExplained
    <3>2. CASE d # c
      <4>1. IsExplained(q)
        BY <1>4, <2>1, <3>2, SpuriousErrors DEF Innocence
      <4> QED BY <1>1, <4>1, StillExplained
    <3> QED BY <3>1, <3>2
  <2> QED BY <2>1, SpuriousErrorsNext
<1> QED BY <1>3, <1>5 DEF Innocence, InnocentStates

LEMMA InnocenceInit ==
    ASSUME Init
    PROVE  Innocence
  BY DEF Init, Innocence, Live, NoSpuriousErrors

LEMMA InnocenceNext ==
    ASSUME Structure, Truth, Innocence, [Next]_vars
    PROVE  Innocence'
<1>1. TypeOK
  BY DEF Structure
<1>2. CASE UNCHANGED vars
  <2>1. UNCHANGED <<state, leased, caller, errors, expirations>>
    BY <1>2 DEF vars, backend, bounds
  <2> QED BY <2>1 DEF Innocence, NoFaults, Live, FreeOfErrors, NoSpuriousErrors
<1>3. ASSUME ~NoFaults', UNCHANGED caller
      PROVE  Innocence'
  BY <1>1, <1>3, SameErrors DEF Innocence
<1>4. ASSUME NEW c \in Objects, Expire(c)
      PROVE  Innocence'
  <2>1. ~NoFaults' /\ UNCHANGED caller
    BY <1>1, <1>4 DEF Expire, NoFaults, TypeOK
  <2> QED BY <1>3, <2>1
<1>5. ASSUME NEW s \in States, UploadFails(s)
      PROVE  Innocence'
  <2>1. ~NoFaults' /\ UNCHANGED caller
    BY <1>1, <1>5 DEF UploadFails, NoFaults, TypeOK
  <2> QED BY <1>3, <2>1
<1>6. ASSUME NEW s \in States, ReleaseObject(s)
      PROVE  Innocence'
  <2>1. PICK t \in States : (\A u \in States \ {t} : Spared(u)) /\ ~Live(t)'
    BY <1>6, ReleaseObjectEffect
  <2>2. UNCHANGED caller
    BY <1>6 DEF ReleaseObject
  <2>3. InnocentStates' /\ NoSpuriousErrors'
    BY <1>1, <2>1, <2>2, InnocenceByState, SameErrors DEF Innocence
  <2> QED BY <2>3 DEF Innocence, InnocentStates
<1>7. ASSUME NEW s \in States, Relock(s)
      PROVE  Innocence'
  <2>1. UNCHANGED <<state, leased, caller, errors, expirations>>
    BY <1>7 DEF Relock, backend, bounds
  <2> QED BY <2>1 DEF Innocence, NoFaults, Live, FreeOfErrors, NoSpuriousErrors
<1>8. ASSUME NEW s \in States, Step(s)
      PROVE  Innocence'
  BY <1>6, <1>7, <1>8, AdvanceInnocence, UploadsInnocence, FinishesInnocence,
     QueueChildrenInnocence, ParentsInnocence DEF Step
<1> QED BY <1>2, <1>4, <1>5, <1>8, UploadObjectInnocence DEF Next

(* Errors are only reported if something went wrong: unless a call of the  *)
(* backend failed, a lease expired, or the object can never fit the limit, *)
(* no interleaving of traversals makes a second call of the backend refuse *)
(* leases that its children handed out.                                    *)
THEOREM OnlyFaultsLeadToErrors == Spec => []NoSpuriousErrors
<1>1. Init => Structure /\ Truth /\ Innocence
  BY StructureInit, TruthInit, InnocenceInit
<1>2. Structure /\ Truth /\ Innocence /\ [Next]_vars => Structure' /\ Truth' /\ Innocence'
  BY StructureNext, TruthNext, InnocenceNext
<1>3. Innocence => NoSpuriousErrors
  BY DEF Innocence
<1> QED BY <1>1, <1>2, <1>3, PTL DEF Spec
=============================================================================
