----------------------------- MODULE EpochList -----------------------------
(***************************************************************************)
(* The bookkeeping of PersistentEpochList                                  *)
(* (pkg/storage/object/local/persistent_epoch_list.go) as operators on an  *)
(* epoch list value.  Every operation of the Go type is one operator that  *)
(* takes the list and returns the list; LocalStore.tla turns them into the *)
(* steps of the threads that hold the store's lock.                        *)
(*                                                                         *)
(* Locations are uint64 and epoch IDs uint32 in the code.  Both are kept   *)
(* as residues, of moduli small enough that TLC reaches the wrap-arounds.  *)
(***************************************************************************)
EXTENDS Integers, Sequences

CONSTANTS
    LocationModulus,      \* 2^64 in the code
    EpochIDModulus,       \* 2^32 in the code
    MaximumLocationSpan   \* maximumLocationSpan: bytes the ring may expose

ASSUME LocationModulusAssumption == LocationModulus \in Nat \ {0}
ASSUME EpochIDModulusAssumption == EpochIDModulus \in Nat \ {0}
ASSUME MaximumLocationSpanAssumption == MaximumLocationSpan \in Nat \ {0}

Locations == 0 .. LocationModulus - 1
EpochIDs == 0 .. EpochIDModulus - 1

(* int64(a-b) > 0 on uint64 operands. *)
Ahead(a, b) ==
    LET d == (a - b) % LocationModulus IN d > 0 /\ 2 * d < LocationModulus

(* The hash seeds are drawn from a 64-bit random number generator.  They   *)
(* are natural numbers here, and the callers hand in one that was never    *)
(* used before.                                                            *)
EpochInfo == [hashSeed : Nat, maximumLocation : Locations]

(* wakeup is ~locationsChangedWakeup.isBlocking: the channel was closed.   *)
EpochListType ==
    [closedForWriting : BOOLEAN,
     minimumEpochID : EpochIDs,
     minimumLocation : Locations,
     epochs : Seq(EpochInfo),
     synchronizingEpochs : Nat,
     synchronizedEpochs : Nat,
     wakeup : BOOLEAN]

(* What GetPersistentState() writes to disk: the state file's contents.    *)
PersistentStateType ==
    [minimumEpochID : EpochIDs,
     minimumLocation : Locations,
     epochs : Seq([hashSeed : Nat, locationIncrease : Locations])]

EmptyEpochList(minimumEpochID, minimumLocation) ==
    [closedForWriting |-> FALSE,
     minimumEpochID |-> minimumEpochID,
     minimumLocation |-> minimumLocation,
     epochs |-> <<>>,
     synchronizingEpochs |-> 0,
     synchronizedEpochs |-> 0,
     wakeup |-> FALSE]

Reinitialize(el) ==
    [el EXCEPT !.minimumEpochID = 0, !.minimumLocation = 0, !.epochs = <<>>,
               !.synchronizingEpochs = 0, !.synchronizedEpochs = 0]

-----------------------------------------------------------------------------
(* Length of the longest prefix of the epochs that only covers locations   *)
(* below the minimum.                                                      *)
EpochsToPrune(el) ==
    CHOOSE n \in 0 .. Len(el.epochs) :
        /\ \A i \in 1 .. n : el.epochs[i].maximumLocation <= el.minimumLocation
        /\ n < Len(el.epochs) =>
               el.epochs[n + 1].maximumLocation > el.minimumLocation

(* uint subtraction that stops at zero. *)
Monus(a, b) == IF a < b THEN 0 ELSE a - b

PruneStaleEpochsBy(el, n) ==
    [el EXCEPT !.minimumEpochID = (@ + n) % EpochIDModulus,
               !.epochs = SubSeq(@, n + 1, Len(@)),
               !.synchronizingEpochs = Monus(@, n),
               !.synchronizedEpochs = Monus(@, n)]

PruneStaleEpochs(el) == PruneStaleEpochsBy(el, EpochsToPrune(el))

-----------------------------------------------------------------------------
MaximumLocation(el) ==
    IF el.epochs = <<>>
    THEN el.minimumLocation
    ELSE el.epochs[Len(el.epochs)].maximumLocation

(* Mutant: the seed is not drawn anew, so that a reused epoch ID accepts   *)
(* the records of its predecessor.                                         *)
AppendEpochFixedSeed(el, location, seed) ==
    [el EXCEPT !.epochs =
        Append(@, [hashSeed |-> 0, maximumLocation |-> location])]

AppendEpoch(el, location, seed) ==
    [el EXCEPT !.epochs =
        Append(@, [hashSeed |-> seed, maximumLocation |-> location])]

RaiseLastEpoch(el, location) ==
    [el EXCEPT !.epochs[Len(el.epochs)].maximumLocation = location]

(* Make the write part of the current epoch, starting one if the last      *)
(* epoch is already being synchronized.                                    *)
ExtendEpochs(el, location, seed) ==
    IF Len(el.epochs) = el.synchronizingEpochs
    THEN AppendEpoch(el, location, seed)
    ELSE RaiseLastEpoch(el, location)

(* Mutant: the ring is taken to be full from the start. *)
RaiseMinimumLocationAlways(el, location) ==
    [el EXCEPT !.minimumLocation = location - MaximumLocationSpan]

(* The ring buffer overwrites what is further than a span behind. *)
RaiseMinimumLocation(el, location) ==
    [el EXCEPT !.minimumLocation =
        IF (location - @) % LocationModulus > MaximumLocationSpan
        THEN location - MaximumLocationSpan
        ELSE @]

(* Mutant: no epoch for a write that does not raise the maximum. *)
FinalizeOnlyForward(el, location, seed) ==
    IF Ahead(location, MaximumLocation(el))
    THEN [PruneStaleEpochs(
             RaiseMinimumLocation(
                 ExtendEpochs(
                     IF location < MaximumLocation(el)
                     THEN Reinitialize(el) ELSE el,
                     location, seed), location))
             EXCEPT !.wakeup = TRUE]
    ELSE el

(* The success path of FinalizeWriteUpToLocation; callers check            *)
(* closedForWriting first.                                                 *)
FinalizeWriteUpToLocation(el, location, seed) ==
    LET maximumLocation == MaximumLocation(el)
        base == IF location < maximumLocation THEN Reinitialize(el) ELSE el
    IN  IF Ahead(location, maximumLocation)
        THEN [PruneStaleEpochs(
                 RaiseMinimumLocation(
                     ExtendEpochs(base, location, seed), location))
                 EXCEPT !.wakeup = TRUE]
        ELSE IF Len(el.epochs) = el.synchronizingEpochs
             THEN AppendEpoch(el, maximumLocation, seed)
             ELSE el

DiscardUpToLocation(el, location) ==
    IF el.minimumLocation < location
    THEN [PruneStaleEpochs([el EXCEPT !.minimumLocation = location])
             EXCEPT !.wakeup = TRUE]
    ELSE el

-----------------------------------------------------------------------------
(* Mutant: the list stays open for writing. *)
NotifySyncStartingStayOpen(el, isFinalSync) ==
    [el EXCEPT !.synchronizingEpochs = Len(el.epochs)]

NotifySyncStarting(el, isFinalSync) ==
    [el EXCEPT !.closedForWriting = @ \/ isFinalSync,
               !.synchronizingEpochs = Len(el.epochs)]

(* Mutant: blocks the channel although there is a newer epoch. *)
NotifySyncCompletedBlock(el) ==
    [el EXCEPT !.synchronizedEpochs = el.synchronizingEpochs,
               !.wakeup = FALSE]

NotifySyncCompleted(el) ==
    [el EXCEPT !.synchronizedEpochs = el.synchronizingEpochs,
               !.wakeup = @ /\ el.synchronizingEpochs # Len(el.epochs)]

(* Mutant: lists every epoch. *)
GetPersistentStateAll(el) ==
    LET previous(i) == IF i = 1 THEN el.minimumLocation
                       ELSE el.epochs[i - 1].maximumLocation
    IN  [minimumEpochID |-> el.minimumEpochID,
         minimumLocation |-> el.minimumLocation,
         epochs |->
            [i \in 1 .. Len(el.epochs) |->
                [hashSeed |-> el.epochs[i].hashSeed,
                 locationIncrease |->
                    (el.epochs[i].maximumLocation - previous(i))
                        % LocationModulus]]]

GetPersistentState(el) ==
    LET previous(i) == IF i = 1 THEN el.minimumLocation
                       ELSE el.epochs[i - 1].maximumLocation
    IN  [minimumEpochID |-> el.minimumEpochID,
         minimumLocation |-> el.minimumLocation,
         epochs |->
            [i \in 1 .. el.synchronizedEpochs |->
                [hashSeed |-> el.epochs[i].hashSeed,
                 locationIncrease |->
                    (el.epochs[i].maximumLocation - previous(i))
                        % LocationModulus]]]

-----------------------------------------------------------------------------
(* Partial sums of the location increases: the (unreduced) maximum         *)
(* location of each reloaded epoch.                                        *)
ReloadedMaximum(ps) ==
    LET maximum[i \in 0 .. Len(ps.epochs)] ==
            IF i = 0 THEN ps.minimumLocation
            ELSE maximum[i - 1] + ps.epochs[i].locationIncrease
    IN  maximum

(* NewPersistentEpochList: a carry out of the 64-bit sum drops everything  *)
(* loaded up to that point.  The sums the code can have written stay below *)
(* the modulus, so at most one carry is modelled.                          *)
NewPersistentEpochList(ps) ==
    LET maximum == ReloadedMaximum(ps)
        n == Len(ps.epochs)
        carries == {i \in 1 .. n : maximum[i] >= LocationModulus}
        first == IF carries = {} THEN 1
                 ELSE CHOOSE i \in carries : \A j \in carries : i <= j
        start == IF carries = {}
                 THEN EmptyEpochList(ps.minimumEpochID, ps.minimumLocation)
                 ELSE EmptyEpochList(0, 0)
    IN  PruneStaleEpochs(
            [start EXCEPT
                !.epochs =
                    [i \in 1 .. n + 1 - first |->
                        [hashSeed |-> ps.epochs[i + first - 1].hashSeed,
                         maximumLocation |->
                            maximum[i + first - 1] % LocationModulus]],
                !.synchronizingEpochs = n + 1 - first,
                !.synchronizedEpochs = n + 1 - first])

(* initialLocation in NewStoreFromConfiguration. *)
InitialLocation(ps) == ReloadedMaximum(ps)[Len(ps.epochs)] % LocationModulus

-----------------------------------------------------------------------------
(* GetEpochStateForEpochID: index in epochs (1-based), if it is one. *)
EpochIndex(el, epochID) == ((epochID - el.minimumEpochID) % EpochIDModulus) + 1

EpochIDResolves(el, epochID) == EpochIndex(el, epochID) <= Len(el.epochs)

(* GetCurrentEpochState panics unless this holds. *)
HasCurrentEpoch(el) == Len(el.epochs) = el.synchronizingEpochs + 1

CurrentEpochID(el) ==
    (el.minimumEpochID + el.synchronizingEpochs) % EpochIDModulus

IsValidLocation(minimumLocation, maximumLocation, location, sizeBytes) ==
    /\ location >= minimumLocation
    /\ location < maximumLocation
    /\ maximumLocation - location >= sizeBytes

-----------------------------------------------------------------------------
(* The shape of the epoch list that its operations rely upon: the epochs   *)
(* that are on disk, being synchronized and being written are a prefix of  *)
(* one another, at most one epoch is being written, and the epochs cover   *)
(* increasing locations.                                                   *)
EpochListOK(list) ==
    /\ list.synchronizedEpochs <= list.synchronizingEpochs
    /\ list.synchronizingEpochs <= Len(list.epochs)
    /\ Len(list.epochs) <= list.synchronizingEpochs + 1
    /\ \A i \in 1 .. Len(list.epochs) :
          list.minimumLocation <= list.epochs[i].maximumLocation
    /\ \A i, j \in 1 .. Len(list.epochs) : i <= j =>
          list.epochs[i].maximumLocation <= list.epochs[j].maximumLocation
=============================================================================
