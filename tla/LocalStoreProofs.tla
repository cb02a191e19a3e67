-------------------------- MODULE LocalStoreProofs --------------------------
(***************************************************************************)
(* The local store, for any number of objects, calls, epochs, crashes and  *)
(* corruptions and any size of the ring: its types, the well-formedness of *)
(* its epoch list, that records point to data and still do after a power   *)
(* failure, and that a clean shutdown loses nothing.                       *)
(*                                                                         *)
(* IInv is about numbers and lists.  SInv adds where the cursor, the       *)
(* epochs and the writes under way are, to which epoch a record belongs,   *)
(* and which of the data a record points to is on the device.  ShutdownInv *)
(* is about the two synchronizations of a shutdown.                        *)
(***************************************************************************)
EXTENDS LocalStore, EpochListProofs

(* The calls that are about to use the end of an object's location.        *)
UsesLocation == {"next", "read", "discard", "write", "finalize"}

ThreadLocationsOK ==
    \A t \in Threads : thread[t].pc \in UsesLocation =>
        thread[t].location + Size[thread[t].obj] \in Locations

(* The inductive invariant.  A restart turns the state file into an epoch  *)
(* list, so what is in it, or about to be, has to be known as well.        *)
IInv ==
    /\ TypeOK
    /\ EpochListOK(el)
    /\ PersistentStateOK(persisted)
    /\ PersistentStateOK(pending)
    /\ ThreadLocationsOK

-----------------------------------------------------------------------------
(* Threads that move on. *)
LEMMA ActiveFields ==
    ASSUME NEW r \in ActiveThread
    PROVE  /\ r.pc \in {"next", "read", "discard", "lock", "recheck", "put",
                        "write", "finalize"}
           /\ r.op \in Operations /\ r.obj \in Objects
           /\ r.location \in Locations /\ r.needsRefresh \in BOOLEAN
  BY DEF ActiveThread

LEMMA NotIdle ==
    ASSUME TypeOK, NEW t \in Threads, thread[t].pc # "idle"
    PROVE  thread[t] \in ActiveThread
  BY DEF TypeOK, ThreadStates, Idle

LEMMA SizeFacts ==
    ASSUME NEW o \in Objects
    PROVE  Size[o] \in Nat /\ Size[o] > 0 /\ Size[o] \in Locations
  BY SizeAssumption, LocationModulusAssumption DEF Locations

LEMMA ReturnOK ==
    ASSUME TypeOK, ThreadLocationsOK, NEW t \in Threads, Return(t)
    PROVE  thread' \in [Threads -> ThreadStates] /\ ThreadLocationsOK'
<1>1. thread' \in [Threads -> ThreadStates]
  BY DEF TypeOK, Return, ThreadStates
<1>2. \A u \in Threads : thread'[u] = IF u = t THEN Idle ELSE thread[u]
  BY DEF TypeOK, Return
<1>3. Idle.pc \notin UsesLocation
  BY DEF Idle, UsesLocation
<1> QED BY <1>1, <1>2, <1>3 DEF ThreadLocationsOK

LEMMA MoveOK ==
    ASSUME TypeOK, ThreadLocationsOK, NEW t \in Threads,
           NEW r \in ActiveThread,
           thread' = [thread EXCEPT ![t] = r],
           r.pc \in UsesLocation => r.location + Size[r.obj] \in Locations
    PROVE  thread' \in [Threads -> ThreadStates] /\ ThreadLocationsOK'
<1>1. thread' \in [Threads -> ThreadStates]
  BY DEF TypeOK, ThreadStates
<1>2. \A u \in Threads : thread'[u] = IF u = t THEN r ELSE thread[u]
  BY DEF TypeOK
<1> QED BY <1>1, <1>2 DEF ThreadLocationsOK

LEMMA GotoOK ==
    ASSUME TypeOK, ThreadLocationsOK, NEW t \in Threads,
           thread[t] \in ActiveThread,
           NEW pc \in {"next", "read", "discard", "lock", "recheck", "put",
                       "write", "finalize"},
           Goto(t, pc), pc \in UsesLocation => thread[t].pc \in UsesLocation
    PROVE  thread' \in [Threads -> ThreadStates] /\ ThreadLocationsOK'
<1> DEFINE r == [thread[t] EXCEPT !.pc = pc]
<1>1. /\ r \in ActiveThread
      /\ r.pc = pc /\ r.location = thread[t].location /\ r.obj = thread[t].obj
  BY DEF ActiveThread
<1>2. thread' = [thread EXCEPT ![t] = r]
  BY DEF Goto
<1> HIDE DEF r
<1>3. r.pc \in UsesLocation => r.location + Size[r.obj] \in Locations
  BY <1>1 DEF ThreadLocationsOK
<1> QED BY <1>1, <1>2, <1>3, MoveOK

LEMMA GotoWriteOK ==
    ASSUME TypeOK, ThreadLocationsOK, NEW t \in Threads,
           thread[t] \in ActiveThread,
           NEW pc \in {"lock", "put"}, GotoWrite(t, pc)
    PROVE  thread' \in [Threads -> ThreadStates] /\ ThreadLocationsOK'
<1> DEFINE r == [thread[t] EXCEPT !.pc = pc, !.location = 0,
                                  !.needsRefresh = FALSE]
<1>1. r \in ActiveThread /\ r.pc = pc
  <2>1. 0 \in Locations
    BY LocationModulusAssumption DEF Locations
  <2> QED BY <2>1 DEF ActiveThread
<1>2. thread' = [thread EXCEPT ![t] = r]
  BY DEF GotoWrite
<1> HIDE DEF r
<1> QED BY <1>1, <1>2, MoveOK DEF UsesLocation

-----------------------------------------------------------------------------
(* The records. *)
LEMMA RecordValidOK ==
    ASSUME NEW list \in EpochListType, NEW o \in Objects,
           NEW record \in Records \cup {NoRecord}, RecordValid(list, record, o)
    PROVE  /\ record.location \in Locations
           /\ record.location + Size[o] \in Locations
<1> DEFINE i == EpochIndex(list, record.epochID)
<1>1. record \in Records
  BY DEF RecordValid
<1>2. record.epochID \in EpochIDs /\ record.location \in Locations
  BY <1>1 DEF Records
<1>3. record.epochID - list.minimumEpochID \in Int
  BY <1>2, EpochListFields, EpochIDModulusAssumption DEF EpochIDs
<1>4. i \in 1 .. Len(list.epochs)
  <2>1. (record.epochID - list.minimumEpochID) % EpochIDModulus
          \in 0 .. EpochIDModulus - 1
    BY <1>3, EpochIDModulusAssumption, ResidueInRange
  <2>2. i <= Len(list.epochs)
    BY DEF RecordValid, EpochIDResolves
  <2> QED BY <2>1, <2>2, EpochListFields, EpochIDModulusAssumption DEF EpochIndex
<1>5. /\ record.location >= list.minimumLocation
      /\ list.epochs[i].maximumLocation - record.location >= Size[o]
  BY DEF RecordValid, IsValidLocation
<1> HIDE DEF i
<1>6. list.epochs[i].maximumLocation \in Locations
  BY <1>4, EpochListFields
<1> QED BY <1>2, <1>5, <1>6, SizeFacts, LocationModulusAssumption DEF Locations

LEMMA PutRecordOK ==
    ASSUME TypeOK, NEW list \in EpochListType, HasCurrentEpoch(list),
           NEW o \in Objects, NEW location \in Locations
    PROVE  PutRecord(list, o, location) \in [Objects -> Records \cup {NoRecord}]
<1> DEFINE epoch == list.epochs[list.synchronizingEpochs + 1]
           record == [epochID |-> CurrentEpochID(list),
                      hashSeed |-> epoch.hashSeed,
                      location |-> location]
<1>1. list.synchronizingEpochs + 1 \in 1 .. Len(list.epochs)
  BY EpochListFields DEF HasCurrentEpoch
<1>2. epoch.hashSeed \in Nat
  BY <1>1, EpochListFields
<1>3. CurrentEpochID(list) \in EpochIDs
  <2>1. list.minimumEpochID + list.synchronizingEpochs \in Int
    BY EpochListFields
  <2> QED BY <2>1, EpochIDModulusAssumption, ResidueInRange
          DEF CurrentEpochID, EpochIDs
<1>4. record \in Records
  BY <1>2, <1>3 DEF Records
<1>5. \/ PutRecord(list, o, location) = [rlm EXCEPT ![o] = record]
      \/ PutRecord(list, o, location) = rlm
  BY DEF PutRecord
<1>6. rlm \in [Objects -> Records \cup {NoRecord}]
  BY DEF TypeOK
<1> HIDE DEF record
<1> QED BY <1>4, <1>5, <1>6

-----------------------------------------------------------------------------
(* The initial state. *)
LEMMA InitialStateOK ==
    PersistentStateOK([minimumEpochID |-> FirstEpochID,
                       minimumLocation |-> FirstLocation, epochs |-> <<>>])
<1> DEFINE ps == [minimumEpochID |-> FirstEpochID,
                  minimumLocation |-> FirstLocation, epochs |-> <<>>]
           m == [i \in 0 .. 0 |-> FirstLocation]
<1>1. ps \in PersistentStateType /\ ps.epochs = <<>> /\ Len(<<>>) = 0
      /\ ps.minimumLocation = FirstLocation
  BY FirstAssumption, EmptySeq DEF PersistentStateType
<1> HIDE DEF ps
<1>2. m \in [0 .. Len(ps.epochs) -> Locations] /\ AddUpTo(ps, m)
  BY <1>1, FirstAssumption, LocationModulusAssumption DEF AddUpTo, Locations
<1> QED BY <1>1, <1>2 DEF PersistentStateOK, ps

LEMMA RoundUpToSectorOK ==
    ASSUME NEW location \in Locations
    PROVE  RoundUpToSector(location) \in Locations
<1> DEFINE x == (location + SectorSize - 1) % LocationModulus
<1>1. location + SectorSize - 1 \in Int
  BY SectorAssumption, LocationModulusAssumption DEF Locations
<1>2. x \in 0 .. LocationModulus - 1
  BY <1>1, LocationModulusAssumption, ResidueInRange
<1> HIDE DEF x
<1>3. (x \div SectorSize) * SectorSize \in 0 .. x
  BY <1>2, SectorAssumption, RoundDown
<1> QED BY <1>2, <1>3, LocationModulusAssumption
        DEF RoundUpToSector, Sector, Locations, x

LEMMA InitIInv == Init => IInv
<1> SUFFICES ASSUME Init PROVE IInv
  OBVIOUS
<1>1. PersistentStateOK(persisted) /\ PersistentStateOK(pending)
      /\ pending = persisted
  BY InitialStateOK DEF Init
<1>2. el \in EpochListType /\ EpochListOK(el)
  BY <1>1, NewPersistentEpochListOK DEF Init
<1>3. nextLocation \in Locations
  BY <1>1, NewPersistentEpochListOK, RoundUpToSectorOK DEF Init
<1>4. ThreadLocationsOK
  BY DEF Init, ThreadLocationsOK, Idle, UsesLocation
<1>5. TypeOK
  <2>1. persisted \in PersistentStateType /\ pending \in PersistentStateType
    BY <1>1 DEF PersistentStateOK
  <2>2. /\ cache \in [Slots -> Bytes \cup {Null}]
        /\ durable \in [Slots -> Bytes \cup {Null}]
    BY DEF Init
  <2>3. /\ rlm \in [Objects -> Records \cup {NoRecord}]
        /\ rlmDisk \in [Objects -> Records \cup {NoRecord}]
    BY DEF Init
  <2>4. thread \in [Threads -> ThreadStates]
    BY DEF Init, ThreadStates
  <2> QED BY <1>2, <1>3, <2>1, <2>2, <2>3, <2>4 DEF TypeOK, Init, SyncerStates
<1> QED BY <1>1, <1>2, <1>4, <1>5 DEF IInv

-----------------------------------------------------------------------------
(* The steps of the calls. *)
LEMMA OnlyThreadMoves ==
    ASSUME IInv, thread' \in [Threads -> ThreadStates], ThreadLocationsOK',
           UNCHANGED <<el, nextLocation, cache, rlm, syncerVars,
                       environmentVars, nextSeed>>
    PROVE  IInv'
  BY DEF IInv, TypeOK, syncerVars, environmentVars, PersistentStateOK

LEMMA BeginIInv ==
    ASSUME IInv, NEW t \in Threads, NEW op \in Operations, NEW o \in Objects,
           Begin(t, op, o)
    PROVE  IInv'
<1> DEFINE r(pc, location) ==
             [pc |-> pc, op |-> op, obj |-> o, location |-> location,
              needsRefresh |-> FALSE]
<1>1. thread' \in [Threads -> ThreadStates] /\ ThreadLocationsOK'
  <2>1. CASE /\ RecordValid(el, rlm[o], o)
             /\ thread' = [thread EXCEPT ![t] = r("next", rlm[o].location)]
    <3>1. rlm[o] \in Records \cup {NoRecord} /\ el \in EpochListType
      BY DEF IInv, TypeOK
    <3>2. rlm[o].location \in Locations /\ rlm[o].location + Size[o] \in Locations
      BY <2>1, <3>1, RecordValidOK
    <3>3. r("next", rlm[o].location) \in ActiveThread
      BY <3>2 DEF ActiveThread
    <3> QED BY <2>1, <3>2, <3>3, MoveOK DEF IInv
  <2>2. CASE thread' = [thread EXCEPT ![t] = r("lock", 0)]
    <3>1. 0 \in Locations
      BY LocationModulusAssumption DEF Locations
    <3>2. r("lock", 0) \in ActiveThread
      BY <3>1 DEF ActiveThread
    <3> QED BY <2>2, <3>2, MoveOK DEF IInv, UsesLocation
  <2> QED BY <2>1, <2>2 DEF Begin
<1> QED BY <1>1, OnlyThreadMoves DEF Begin

LEMMA ReadNextPutLocationIInv ==
    ASSUME IInv, NEW t \in Threads, ReadNextPutLocation(t)
    PROVE  IInv'
<1>1. thread[t] \in ActiveThread /\ thread[t].pc = "next"
  BY NotIdle DEF IInv, ReadNextPutLocation
<1>2. thread[t].location + Size[thread[t].obj] \in Locations
  BY <1>1 DEF IInv, ThreadLocationsOK, UsesLocation
<1>3. \/ \E needsRefresh \in BOOLEAN :
            thread' = [thread EXCEPT ![t].pc = "read",
                                     ![t].needsRefresh = needsRefresh]
      \/ GotoWrite(t, "lock")
      \/ Return(t)
  <2>1. PICK threshold \in 0 .. CurrentRegion - 1 :
          LET needsRefresh == NeedsRefresh(thread[t].location, threshold)
          IN  CASE thread[t].op = "download" \/
                     (thread[t].op = "touch" /\ needsRefresh) ->
                     thread' = [thread EXCEPT ![t].pc = "read",
                                              ![t].needsRefresh = needsRefresh]
                [] thread[t].op = "upload" /\ needsRefresh -> GotoWrite(t, "lock")
                [] OTHER -> Return(t)
    BY DEF ReadNextPutLocation
  <2>2. NeedsRefresh(thread[t].location, threshold) \in BOOLEAN
    BY DEF NeedsRefresh
  <2> QED BY <2>1, <2>2
<1>4. ASSUME NEW needsRefresh \in BOOLEAN,
             thread' = [thread EXCEPT ![t].pc = "read",
                                      ![t].needsRefresh = needsRefresh]
      PROVE  thread' \in [Threads -> ThreadStates] /\ ThreadLocationsOK'
  <2> DEFINE r == [thread[t] EXCEPT !.pc = "read", !.needsRefresh = needsRefresh]
  <2>1. /\ r \in ActiveThread
        /\ r.location = thread[t].location /\ r.obj = thread[t].obj
    BY <1>1 DEF ActiveThread
  <2>2. thread' = [thread EXCEPT ![t] = r]
    BY <1>4 DEF IInv, TypeOK
  <2> HIDE DEF r
  <2> QED BY <1>2, <2>1, <2>2, MoveOK DEF IInv
<1>5. thread' \in [Threads -> ThreadStates] /\ ThreadLocationsOK'
  BY <1>1, <1>3, <1>4, GotoWriteOK, ReturnOK DEF IInv
<1> QED BY <1>5, OnlyThreadMoves DEF ReadNextPutLocation

LEMMA ReadObjectIInv ==
    ASSUME IInv, NEW t \in Threads, ReadObject(t)
    PROVE  IInv'
<1>1. thread[t] \in ActiveThread /\ thread[t].pc = "read"
  BY NotIdle DEF IInv, ReadObject
<1>2. Goto(t, "discard") \/ GotoWrite(t, "lock") \/ Return(t)
  BY DEF ReadObject
<1>3. thread' \in [Threads -> ThreadStates] /\ ThreadLocationsOK'
  BY <1>1, <1>2, GotoOK, GotoWriteOK, ReturnOK DEF IInv, UsesLocation
<1> QED BY <1>3, OnlyThreadMoves DEF ReadObject

LEMMA DiscardCorruptedIInv ==
    ASSUME IInv, NEW t \in Threads, DiscardCorrupted(t)
    PROVE  IInv'
<1>1. thread[t].location + Size[thread[t].obj] \in Locations
  BY DEF IInv, ThreadLocationsOK, UsesLocation, DiscardCorrupted
<1>2. el' \in EpochListType /\ EpochListOK(el')
  BY <1>1, DiscardUpToLocationOK DEF IInv, TypeOK, DiscardCorrupted
<1>3. thread' \in [Threads -> ThreadStates] /\ ThreadLocationsOK'
  BY ReturnOK DEF IInv, DiscardCorrupted
<1> QED
  BY <1>2, <1>3 DEF IInv, TypeOK, DiscardCorrupted, syncerVars, environmentVars

LEMMA AcquireWriteLockIInv ==
    ASSUME IInv, NEW t \in Threads, AcquireWriteLock(t)
    PROVE  IInv'
<1> DEFINE o == thread[t].obj
<1>1. thread[t] \in ActiveThread /\ o \in Objects
  BY NotIdle, ActiveFields DEF IInv, AcquireWriteLock
<1>2. CASE /\ RecordValid(el, rlm[o], o)
           /\ thread' = [thread EXCEPT ![t].pc = "recheck",
                                       ![t].location = rlm[o].location]
  <2> DEFINE r == [thread[t] EXCEPT !.pc = "recheck",
                                    !.location = rlm[o].location]
  <2>1. rlm[o].location \in Locations
    <3>1. rlm[o] \in Records \cup {NoRecord} /\ el \in EpochListType
      BY <1>1 DEF IInv, TypeOK
    <3> QED BY <1>1, <1>2, <3>1, RecordValidOK
  <2>2. r \in ActiveThread /\ r.pc = "recheck"
    BY <1>1, <2>1 DEF ActiveThread
  <2>3. thread' = [thread EXCEPT ![t] = r]
    BY <1>2 DEF IInv, TypeOK
  <2> HIDE DEF r
  <2>4. thread' \in [Threads -> ThreadStates] /\ ThreadLocationsOK'
    BY <2>2, <2>3, MoveOK DEF IInv, UsesLocation
  <2> QED BY <2>4, OnlyThreadMoves DEF AcquireWriteLock
<1>3. CASE GotoWrite(t, "put")
  <2>1. thread' \in [Threads -> ThreadStates] /\ ThreadLocationsOK'
    BY <1>1, <1>3, GotoWriteOK DEF IInv
  <2> QED BY <2>1, OnlyThreadMoves DEF AcquireWriteLock
<1> QED BY <1>2, <1>3 DEF AcquireWriteLock

LEMMA RecheckIInv ==
    ASSUME IInv, NEW t \in Threads, Recheck(t)
    PROVE  IInv'
<1>1. thread[t] \in ActiveThread
  BY NotIdle DEF IInv, Recheck
<1>2. GotoWrite(t, "put") \/ Return(t)
  BY DEF Recheck
<1>3. thread' \in [Threads -> ThreadStates] /\ ThreadLocationsOK'
  BY <1>1, <1>2, GotoWriteOK, ReturnOK DEF IInv
<1> QED BY <1>3, OnlyThreadMoves DEF Recheck

LEMMA AllocateIInv ==
    ASSUME IInv, NEW t \in Threads, Allocate(t)
    PROVE  IInv'
<1> DEFINE o == thread[t].obj
           allocation == AllocateLocation(Size[o])
           r == [thread[t] EXCEPT !.pc = "write", !.location = allocation[1]]
<1>1. thread[t] \in ActiveThread /\ o \in Objects
  BY NotIdle, ActiveFields DEF IInv, Allocate
<1>2. /\ allocation[1] \in Locations /\ allocation[2] \in Locations
      /\ allocation[2] = allocation[1] + Size[o]
  <2>1. nextLocation \in Locations
    BY DEF IInv, TypeOK
  <2> QED BY <1>1, <2>1, SizeFacts, LocationModulusAssumption
          DEF AllocateLocation, Locations
<1>3. /\ nextLocation' = allocation[2]
      /\ thread' = [thread EXCEPT ![t] = r]
  BY DEF Allocate, IInv, TypeOK
<1> HIDE DEF allocation
<1>4. r \in ActiveThread /\ r.location = allocation[1] /\ r.obj = o
  BY <1>1, <1>2 DEF ActiveThread
<1> HIDE DEF r
<1>5. thread' \in [Threads -> ThreadStates] /\ ThreadLocationsOK'
  BY <1>2, <1>3, <1>4, MoveOK DEF IInv
<1> QED BY <1>2, <1>3, <1>5
        DEF IInv, TypeOK, Allocate, syncerVars, environmentVars, PersistentStateOK

LEMMA WrittenRingOK ==
    ASSUME NEW ring \in [Slots -> Bytes \cup {Null}],
           NEW o \in Objects, NEW location \in Locations
    PROVE  WrittenRing(ring, o, location) \in [Slots -> Bytes \cup {Null}]
<1> DEFINE range == Sector(location) * SectorSize ..
                      (Sector(location + Size[o] - 1) + 1) * SectorSize - 1
           touched(s) == {p \in range : p % Ring = s}
           p(s) == CHOOSE q \in touched(s) : TRUE
           value(s) ==
             IF touched(s) = {} THEN ring[s]
             ELSE IF p(s) \in location .. location + Size[o] - 1
                  THEN [obj |-> o, offset |-> p(s) - location, location |-> p(s)]
                  ELSE IF /\ p(s) < nextLocation
                          /\ ring[s] # Null /\ ring[s].location = p(s)
                       THEN ring[s]
                       ELSE [obj |-> Null, offset |-> 0, location |-> p(s)]
<1>1. WrittenRing(ring, o, location) = [s \in Slots |-> value(s)]
  BY DEF WrittenRing
<1>2. range \subseteq Nat
  <2>1. location \in Nat
    BY LocationModulusAssumption DEF Locations
  <2>2. SectorSize \in Nat \ {0}
    BY SectorAssumption
  <2>3. (location \div SectorSize) * SectorSize \in 0 .. location
    BY <2>1, <2>2, RoundDown
  <2>4. Sector(location) * SectorSize \in Nat
    BY <2>1, <2>3 DEF Sector
  <2> QED BY <2>4
<1>3. ASSUME NEW s \in Slots
      PROVE  value(s) \in Bytes \cup {Null}
  <2>1. CASE touched(s) = {}
    BY <2>1
  <2>2. CASE touched(s) # {}
    <3>1. p(s) \in touched(s)
      BY <2>2
    <3> HIDE DEF p
    <3>2. p(s) \in Nat
      BY <1>2, <3>1
    <3>3. CASE p(s) \in location .. location + Size[o] - 1
      <4>1. p(s) - location \in Nat
        BY <3>2, <3>3, SizeFacts, LocationModulusAssumption DEF Locations
      <4> QED BY <2>2, <3>2, <3>3, <4>1 DEF Bytes
    <3>4. CASE p(s) \notin location .. location + Size[o] - 1
      BY <2>2, <3>2, <3>4 DEF Bytes
    <3> QED BY <3>3, <3>4
  <2> QED BY <2>1, <2>2
<1> HIDE DEF value
<1> QED BY <1>1, <1>3

LEMMA WriteDataIInv ==
    ASSUME IInv, NEW t \in Threads, WriteData(t)
    PROVE  IInv'
<1>1. thread[t] \in ActiveThread /\ thread[t].pc = "write"
  BY NotIdle DEF IInv, WriteData
<1>2. thread' \in [Threads -> ThreadStates] /\ ThreadLocationsOK'
  <2>1. Goto(t, "finalize") \/ Return(t)
    BY DEF WriteData
  <2> QED BY <1>1, <2>1, GotoOK, ReturnOK DEF IInv, UsesLocation
<1>3. cache' \in [Slots -> Bytes \cup {Null}]
  <2>1. thread[t].obj \in Objects /\ thread[t].location \in Locations
    BY <1>1, ActiveFields
  <2>2. cache \in [Slots -> Bytes \cup {Null}]
    BY DEF IInv, TypeOK
  <2> QED BY <2>1, <2>2, WrittenRingOK DEF WriteData
<1> QED BY <1>2, <1>3
        DEF IInv, TypeOK, WriteData, syncerVars, environmentVars, PersistentStateOK

(* The list after a write is well-formed and has a current epoch. *)
LEMMA FinalizedOK ==
    ASSUME IInv, NEW t \in Threads, thread[t].pc = "finalize"
    PROVE  /\ Finalized(t) \in EpochListType
           /\ EpochListOK(Finalized(t))
           /\ HasCurrentEpoch(Finalized(t))
<1> DEFINE location == thread[t].location + Size[thread[t].obj]
<1>1. location \in Locations
  BY DEF IInv, ThreadLocationsOK, UsesLocation
<1>2. location > 0
  <2>1. thread[t] \in ActiveThread
    BY NotIdle DEF IInv
  <2>2. thread[t].obj \in Objects /\ thread[t].location \in Locations
    BY <2>1, ActiveFields
  <2> QED BY <2>2, SizeFacts, LocationModulusAssumption DEF Locations
<1>3. el \in EpochListType /\ EpochListOK(el) /\ nextSeed \in Nat
  BY DEF IInv, TypeOK
<1> HIDE DEF location
<1> QED BY <1>1, <1>2, <1>3, FinalizeWriteUpToLocationOK DEF Finalized, location

LEMMA FinalizeWriteIInv ==
    ASSUME IInv, NEW t \in Threads, FinalizeWrite(t)
    PROVE  IInv'
<1>1. thread[t] \in ActiveThread /\ thread[t].pc = "finalize"
  BY NotIdle DEF IInv, FinalizeWrite
<1>2. el' \in EpochListType /\ EpochListOK(el') /\ HasCurrentEpoch(el')
  BY <1>1, FinalizedOK DEF FinalizeWrite
<1>3. rlm' \in [Objects -> Records \cup {NoRecord}]
  BY <1>1, <1>2, ActiveFields, PutRecordOK DEF FinalizeWrite, IInv
<1>4. thread' \in [Threads -> ThreadStates] /\ ThreadLocationsOK'
  BY ReturnOK DEF IInv, FinalizeWrite
<1>5. nextSeed' \in Nat
  BY DEF FinalizeWrite, IInv, TypeOK
<1> QED BY <1>2, <1>3, <1>4, <1>5
        DEF IInv, TypeOK, FinalizeWrite, syncerVars, environmentVars

LEMMA RejectWriteIInv ==
    ASSUME IInv, NEW t \in Threads, RejectWrite(t)
    PROVE  IInv'
<1>1. thread' \in [Threads -> ThreadStates] /\ ThreadLocationsOK'
  BY ReturnOK DEF IInv, RejectWrite
<1> QED BY <1>1, OnlyThreadMoves DEF RejectWrite

-----------------------------------------------------------------------------
(* The steps of the syncer leave the calls and the records alone. *)
LEMMA SyncerIInv ==
    ASSUME IInv, SyncerStep
    PROVE  IInv'
<1> USE DEF IInv
<1>0. UNCHANGED <<storeVars, environmentVars, nextSeed>>
  BY DEF SyncerStep, WakeUp, DelayElapses, ContextDone, StartSync, SyncData,
     CompleteSync, CompleteFinalSync, ReadPersistentState,
     WritePersistentState, WritePersistentStateFails
<1>1. ThreadLocationsOK'
  BY <1>0 DEF ThreadLocationsOK, storeVars
<1>2. el' \in EpochListType /\ EpochListOK(el')
  <2>1. el \in EpochListType /\ EpochListOK(el)
    BY DEF TypeOK
  <2>2. CASE el' = NotifySyncStarting(el, FALSE)
    BY <2>1, <2>2, NotifySyncStartingOK
  <2>3. CASE el' = NotifySyncCompleted(el)
    BY <2>1, <2>3, NotifySyncCompletedOK
  <2>4. CASE el' = NotifySyncStarting(NotifySyncCompleted(el), TRUE)
    BY <2>1, <2>4, NotifySyncCompletedOK, NotifySyncStartingOK
  <2>5. CASE el' = el
    BY <2>1, <2>5
  <2> QED BY <2>2, <2>3, <2>4, <2>5
          DEF SyncerStep, WakeUp, DelayElapses, ContextDone, StartSync, SyncData,
              CompleteSync, CompleteFinalSync, ReadPersistentState,
              WritePersistentState, WritePersistentStateFails
<1>3. PersistentStateOK(persisted') /\ PersistentStateOK(pending')
  <2>1. PersistentStateOK(GetPersistentState(el))
    BY GetPersistentStateOK DEF TypeOK
  <2>2. pending' \in {pending, GetPersistentState(el)}
    BY DEF SyncerStep, WakeUp, DelayElapses, ContextDone, StartSync, SyncData,
       CompleteSync, CompleteFinalSync, ReadPersistentState,
       WritePersistentState, WritePersistentStateFails
  <2>3. persisted' \in {persisted, pending}
    BY DEF SyncerStep, WakeUp, DelayElapses, ContextDone, StartSync, SyncData,
       CompleteSync, CompleteFinalSync, ReadPersistentState,
       WritePersistentState, WritePersistentStateFails
  <2> QED BY <2>1, <2>2, <2>3
<1>4. durable' \in [Slots -> Bytes \cup {Null}]
  BY DEF TypeOK, SyncerStep, WakeUp, DelayElapses, ContextDone, StartSync,
     SyncData, CompleteSync, CompleteFinalSync, ReadPersistentState,
     WritePersistentState, WritePersistentStateFails
<1>5. syncer' \in SyncerStates /\ keepGoing' \in BOOLEAN
  BY DEF TypeOK, SyncerStates, SyncerStep, WakeUp, DelayElapses, ContextDone,
     StartSync, SyncData, CompleteSync, CompleteFinalSync, ReadPersistentState,
     WritePersistentState, WritePersistentStateFails
<1> QED BY <1>0, <1>1, <1>2, <1>3, <1>4, <1>5
        DEF TypeOK, storeVars, environmentVars, PersistentStateOK

LEMMA RequestShutdownIInv ==
    ASSUME IInv, RequestShutdown
    PROVE  IInv'
  BY DEF IInv, TypeOK, RequestShutdown, storeVars, syncerVars,
         ThreadLocationsOK, PersistentStateOK

LEMMA CorruptIInv ==
    ASSUME IInv, NEW s \in Slots, Corrupt(s)
    PROVE  IInv'
<1>1. cache' \in [Slots -> Bytes \cup {Null}]
  <2>1. cache \in [Slots -> Bytes \cup {Null}]
    BY DEF IInv, TypeOK
  <2>2. cache[s] \in Bytes
    BY <2>1 DEF Corrupt
  <2>3. [cache[s] EXCEPT !.obj = Null] \in Bytes
    BY <2>2 DEF Bytes
  <2>4. cache' = [cache EXCEPT ![s] = [cache[s] EXCEPT !.obj = Null]]
    BY <2>1 DEF Corrupt
  <2> QED BY <2>1, <2>3, <2>4
<1> QED BY <1>1 DEF IInv, TypeOK, Corrupt, syncerVars, ThreadLocationsOK,
                    PersistentStateOK

LEMMA CrashIInv ==
    ASSUME IInv, Crash
    PROVE  IInv'
<1>1. PersistentStateOK(persisted') /\ PersistentStateOK(pending')
  BY DEF IInv, Crash
<1>2. /\ el' \in EpochListType /\ EpochListOK(el')
      /\ nextLocation' \in Locations
  BY NewPersistentEpochListOK, RoundUpToSectorOK DEF IInv, Crash
<1>3. PowerFails \/ ProcessKilled
  BY DEF Crash
<1>4. /\ cache' \in [Slots -> Bytes \cup {Null}]
      /\ durable' \in [Slots -> Bytes \cup {Null}]
  BY <1>3 DEF IInv, TypeOK, PowerFails, ProcessKilled
<1>5. /\ rlm' \in [Objects -> Records \cup {NoRecord}]
      /\ rlmDisk' \in [Objects -> Records \cup {NoRecord}]
  BY <1>3 DEF IInv, TypeOK, PowerFails, ProcessKilled
<1>6. thread' \in [Threads -> ThreadStates] /\ ThreadLocationsOK'
  BY DEF Crash, ThreadStates, ThreadLocationsOK, Idle, UsesLocation
<1>7. /\ syncer' \in SyncerStates /\ keepGoing' \in BOOLEAN
      /\ shutdown' \in BOOLEAN
  BY DEF Crash, SyncerStates
<1>8. /\ nextSeed' \in Nat /\ crashes' \in Nat /\ corruptions' \in Nat
  BY DEF IInv, TypeOK, Crash
<1>9. persisted' \in PersistentStateType /\ pending' \in PersistentStateType
  BY DEF IInv, TypeOK, Crash
<1>10. TypeOK'
  BY <1>2, <1>4, <1>5, <1>6, <1>7, <1>8, <1>9 DEF TypeOK
<1> QED BY <1>1, <1>2, <1>6, <1>10 DEF IInv

-----------------------------------------------------------------------------
LEMMA NextIInv == IInv /\ [Next]_vars => IInv'
<1> SUFFICES ASSUME IInv, [Next]_vars PROVE IInv'
  OBVIOUS
<1>1. CASE UNCHANGED vars
  BY <1>1 DEF IInv, TypeOK, vars, storeVars, syncerVars, environmentVars,
              ThreadLocationsOK, PersistentStateOK
<1>2. ASSUME NEW t \in Threads, ThreadStep(t)
      PROVE  IInv'
  BY <1>2, BeginIInv, ReadNextPutLocationIInv, ReadObjectIInv,
     DiscardCorruptedIInv, AcquireWriteLockIInv, RecheckIInv, AllocateIInv,
     WriteDataIInv, FinalizeWriteIInv, RejectWriteIInv DEF ThreadStep
<1>3. ASSUME NEW s \in Slots, Corrupt(s)
      PROVE  IInv'
  BY <1>3, CorruptIInv
<1> QED BY <1>1, <1>2, <1>3, SyncerIInv, RequestShutdownIInv, CrashIInv DEF Next

(* Every variable of the store keeps its type, whatever the interleaving   *)
(* of calls, synchronizations and crashes: in particular no location and   *)
(* no epoch ID leaves its integer range.                                   *)
THEOREM TypeCorrect == Spec => []TypeOK
<1>1. IInv => TypeOK
  BY DEF IInv
<1> QED BY <1>1, InitIInv, NextIInv, PTL DEF Spec

(* The panic in GetCurrentEpochState() cannot be reached, and the epoch    *)
(* list is well-formed, for every value of the constants.                  *)
THEOREM EpochListAlwaysConsistent == Spec => []EpochListConsistent
<1>1. IInv => EpochListConsistent
  BY FinalizedOK DEF IInv, EpochListConsistent, Panics
<1> QED BY <1>1, InitIInv, NextIInv, PTL DEF Spec
-----------------------------------------------------------------------------
(* Sectors and laps of the ring. *)
LEMMA SectorBounds ==
    ASSUME NEW S \in Nat \ {0}, NEW x \in Nat
    PROVE  /\ (x \div S) \in Nat
           /\ (x \div S) * S <= x
           /\ x < (x \div S) * S + S
           /\ (x \div S) * S \in Nat
  OBVIOUS

LEMMA ProductOrder ==
    ASSUME NEW a \in Int, NEW b \in Int, NEW S \in Nat \ {0}, a * S < b * S
    PROVE  (a + 1) * S <= b * S
<1>1. a < b
  <2> SUFFICES ASSUME b <= a PROVE FALSE
    OBVIOUS
  <2>1. PICK c \in Nat : a = b + c
    <3>1. a - b \in Nat /\ a = b + (a - b)
      OBVIOUS
    <3> QED BY <3>1
  <2>2. a * S = b * S + c * S /\ c * S >= 0 /\ b * S \in Int
    BY <2>1
  <2> QED BY <2>2
<1>2. PICK c \in Nat : b = (a + 1) + c
  <2>1. b - (a + 1) \in Nat /\ b = (a + 1) + (b - (a + 1))
    BY <1>1
  <2> QED BY <2>1
<1>3. b * S = (a + 1) * S + c * S /\ c * S >= 0
  BY <1>2
<1> QED BY <1>3

(* A byte that shares its slot with one that is less than a lap ahead of   *)
(* it is not behind that one.                                              *)
LEMMA SameSlot ==
    ASSUME NEW R \in Nat \ {0}, NEW p \in Nat, NEW y \in Nat,
           p % R = y % R, y < p + R
    PROVE  y <= p
<1> DEFINE a == p \div R
           b == y \div R
           r == p % R
<1>1. /\ a \in Int /\ b \in Int /\ r \in Int
      /\ p = a * R + r /\ y = b * R + r
  OBVIOUS
<1> HIDE DEF a, b, r
<1>2. /\ a * R \in Int /\ b * R \in Int /\ (a + 1) * R = a * R + R
      /\ (a + 1) * R \in Int
  BY <1>1
<1>3. b * R < (a + 1) * R
  BY <1>1, <1>2
<1>4. (b + 1) * R <= (a + 1) * R
  BY <1>1, <1>3, ProductOrder
<1>5. (b + 1) * R = b * R + R
  BY <1>1
<1> QED BY <1>1, <1>2, <1>4, <1>5

LEMMA RingFacts ==
    /\ Ring \in Nat \ {0} /\ Ring = SectorSize + MaximumLocationSpan
    /\ \A y \in Nat : y % Ring \in Slots
<1>1. SectorSize \in Nat \ {0} /\ SectorCount \in Nat \ {0, 1}
  BY SectorAssumption
<1>2. SectorSize * SectorCount = SectorSize + SectorSize * (SectorCount - 1)
  BY <1>1
<1>3. MaximumLocationSpan \in Nat
  BY MaximumLocationSpanAssumption
<1>4. Ring = SectorSize + MaximumLocationSpan
  BY <1>2, SectorAssumption DEF Ring
<1>5. Ring \in Nat \ {0}
  BY <1>1, <1>3, <1>4
<1>6. ASSUME NEW y \in Nat
      PROVE  y % Ring \in Slots
  BY <1>5, ResidueInRange DEF Slots
<1> QED BY <1>4, <1>5, <1>6
-----------------------------------------------------------------------------
(* What is in the ring.  The byte at location y is solid if its slot holds *)
(* what was written for y, or for a location that overwrote it.            *)
Solid(ring, y) == ring[y % Ring] # Null /\ ring[y % Ring].location >= y

HoldsData(ring, location, o) ==
    \A k \in 0 .. Size[o] - 1 : Solid(ring, location + k)

FirstWritten(location) == Sector(location) * SectorSize

(* A write puts bytes in their own slots, none of them before the sector   *)
(* it starts in or beyond the sector it ends in, and the object it writes  *)
(* is there afterwards, provided that it fits.                             *)
LEMMA WrittenRingEffect ==
    ASSUME NEW ring \in [Slots -> Bytes \cup {Null}],
           NEW o \in Objects, NEW location \in Nat
    PROVE  LET res == WrittenRing(ring, o, location)
           IN  /\ \A s \in Slots :
                     \/ res[s] = ring[s]
                     \/ /\ res[s] # Null
                        /\ res[s].location \in Nat
                        /\ res[s].location % Ring = s
                        /\ FirstWritten(location) <= res[s].location
                        /\ res[s].location < location + Size[o] + SectorSize
               /\ location + Size[o] <= FirstWritten(location) + Ring =>
                     HoldsData(res, location, o)
<1> DEFINE low == FirstWritten(location)
           top == (Sector(location + Size[o] - 1) + 1) * SectorSize
           range == Sector(location) * SectorSize .. top - 1
           touched(s) == {p \in range : p % Ring = s}
           p(s) == CHOOSE q \in touched(s) : TRUE
           value(s) ==
             IF touched(s) = {} THEN ring[s]
             ELSE IF p(s) \in location .. location + Size[o] - 1
                  THEN [obj |-> o, offset |-> p(s) - location, location |-> p(s)]
                  ELSE IF /\ p(s) < nextLocation
                          /\ ring[s] # Null /\ ring[s].location = p(s)
                       THEN ring[s]
                       ELSE [obj |-> Null, offset |-> 0, location |-> p(s)]
           res == WrittenRing(ring, o, location)
<1>1. res = [s \in Slots |-> value(s)]
  BY DEF WrittenRing
<1>2. SectorSize \in Nat \ {0} /\ Size[o] \in Nat /\ Size[o] > 0
  BY SectorAssumption, SizeFacts
<1>3. low \in Nat /\ low <= location /\ location < low + SectorSize
  BY <1>2, SectorBounds DEF FirstWritten, Sector
<1>4. /\ top \in Nat
      /\ location + Size[o] <= top
      /\ top < location + Size[o] + SectorSize
  <2> DEFINE x == location + Size[o] - 1
             q == x \div SectorSize
  <2>1. x \in Nat
    BY <1>2
  <2> HIDE DEF x
  <2>2. q \in Nat /\ q * SectorSize \in Nat /\ q * SectorSize <= x
        /\ x < q * SectorSize + SectorSize
    BY <1>2, <2>1, SectorBounds
  <2> HIDE DEF q
  <2>3. (q + 1) * SectorSize = q * SectorSize + SectorSize
    BY <1>2, <2>2
  <2>4. top = (q + 1) * SectorSize
    BY DEF q, x, Sector
  <2> HIDE DEF top
  <2> QED BY <1>2, <2>1, <2>2, <2>3, <2>4 DEF x
<1>5. range = low .. top - 1
  BY DEF FirstWritten
<1> HIDE DEF range, top, low
<1>6. ASSUME NEW s \in Slots, touched(s) # {}
      PROVE  /\ p(s) \in Nat /\ p(s) % Ring = s
             /\ low <= p(s) /\ p(s) < top
             /\ \/ value(s) # Null /\ value(s).location = p(s)
                \/ value(s) = ring[s] /\ ring[s] # Null /\ ring[s].location = p(s)
  <2>1. p(s) \in touched(s)
    BY <1>6
  <2> HIDE DEF p
  <2>2. /\ p(s) \in Nat /\ p(s) % Ring = s
        /\ low <= p(s) /\ p(s) < top
    BY <1>3, <1>4, <1>5, <2>1
  <2>3. CASE p(s) \in location .. location + Size[o] - 1
    <3>1. p(s) - location \in Nat
      BY <2>2, <2>3, <1>2
    <3>2. [obj |-> o, offset |-> p(s) - location, location |-> p(s)] \in Bytes
      BY <2>2, <3>1 DEF Bytes
    <3>3. value(s) = [obj |-> o, offset |-> p(s) - location, location |-> p(s)]
      BY <1>6, <2>3
    <3> QED BY <2>2, <3>2, <3>3, NullAssumption
  <2>4. CASE p(s) \notin location .. location + Size[o] - 1
    <3>1. [obj |-> Null, offset |-> 0, location |-> p(s)] \in Bytes
      BY <2>2 DEF Bytes
    <3>2. \/ value(s) = ring[s] /\ ring[s] # Null /\ ring[s].location = p(s)
          \/ value(s) = [obj |-> Null, offset |-> 0, location |-> p(s)]
      BY <1>6, <2>4
    <3> QED BY <2>2, <3>1, <3>2, NullAssumption
  <2> QED BY <2>3, <2>4
<1>7. \A s \in Slots :
         \/ res[s] = ring[s]
         \/ /\ res[s] # Null
            /\ res[s].location \in Nat
            /\ res[s].location % Ring = s
            /\ low <= res[s].location
            /\ res[s].location < location + Size[o] + SectorSize
  <2> TAKE s \in Slots
  <2>1. res[s] = value(s)
    BY <1>1
  <2>2. CASE touched(s) = {}
    BY <2>1, <2>2
  <2>3. CASE touched(s) # {}
    <3>1. /\ p(s) \in Nat /\ p(s) % Ring = s
          /\ low <= p(s) /\ p(s) < top
          /\ \/ value(s) # Null /\ value(s).location = p(s)
             \/ value(s) = ring[s] /\ ring[s] # Null /\ ring[s].location = p(s)
      BY <1>6, <2>3
    <3> HIDE DEF p, value, res, touched
    <3> QED BY <1>2, <1>3, <1>4, <2>1, <3>1
  <2> QED BY <2>2, <2>3
<1>8. ASSUME location + Size[o] <= low + Ring
      PROVE  HoldsData(res, location, o)
  <2> SUFFICES ASSUME NEW k \in 0 .. Size[o] - 1
               PROVE  Solid(res, location + k)
    BY DEF HoldsData
  <2> DEFINE y == location + k
             s == y % Ring
  <2>1. y \in Nat /\ low <= y /\ y < top /\ y < low + Ring
    BY <1>2, <1>3, <1>4, <1>8, RingFacts
  <2> HIDE DEF y
  <2>2. s \in Slots /\ y \in touched(s)
    BY <1>5, <1>3, <1>4, <2>1, RingFacts
  <2> HIDE DEF s
  <2>3. /\ p(s) \in Nat /\ p(s) % Ring = s
        /\ low <= p(s)
        /\ \/ value(s) # Null /\ value(s).location = p(s)
           \/ value(s) = ring[s] /\ ring[s] # Null /\ ring[s].location = p(s)
    BY <1>6, <2>2
  <2>4. res[s] = value(s)
    BY <1>1, <2>2
  <2> HIDE DEF p, value, res, touched
  <2>5. y <= p(s)
    <3>1. y < p(s) + Ring
      BY <1>3, <2>1, <2>3, RingFacts
    <3> QED BY <2>1, <2>3, <3>1, SameSlot, RingFacts DEF s
  <2>6. res[s] # Null /\ res[s].location >= y
    BY <2>1, <2>3, <2>4, <2>5
  <2> QED BY <2>6 DEF Solid, s, y
<1> HIDE DEF res
<1> QED BY <1>7, <1>8 DEF res, low
-----------------------------------------------------------------------------
(* That records point to data, also after a crash, is shown for a cursor   *)
(* that never wraps around: the locations that are ever assigned are fewer *)
(* than half of the 64-bit ones.  Every object fits in the ring.           *)
LocationsSuffice ==
    /\ MaxAllocated \in Nat
    /\ 2 * (FirstLocation + MaxAllocated + Ring) <= LocationModulus

ObjectsFit == \A o \in Objects : Size[o] <= MaximumLocationSpan

HighestEnd == FirstLocation + MaxAllocated

(* Where everything is: the epochs end before the cursor, the state file   *)
(* resumes before it, and no write that is under way was lapped by it.     *)
CursorOK(list, next) ==
    /\ FirstLocation <= next /\ next < HighestEnd + SectorSize
    /\ FirstLocation <= list.minimumLocation
    /\ MaximumLocation(list) <= next /\ MaximumLocation(list) <= HighestEnd

StateFileOK(ps, next) ==
    /\ FirstLocation <= ps.minimumLocation
    /\ InitialLocation(ps) <= next /\ InitialLocation(ps) <= HighestEnd

CallOK(call, list, next) ==
    /\ call.pc \in {"write", "finalize"} =>
          /\ FirstLocation <= call.location
          /\ call.location + Size[call.obj] <= next
          /\ call.location + Size[call.obj] <= HighestEnd
          /\ next <= FirstWritten(call.location) + Ring
    /\ call.pc \in {"next", "read", "discard"} =>
          call.location + Size[call.obj] <= MaximumLocation(list)

RingOK(ring) ==
    \A s \in Slots : ring[s] # Null => ring[s].location < HighestEnd + SectorSize

PlacesInv ==
    /\ CursorOK(el, nextLocation)
    /\ StateFileOK(pending, nextLocation)
    /\ StateFileOK(persisted, nextLocation)
    /\ \A t \in Threads : CallOK(thread[t], el, nextLocation)
    /\ RingOK(cache)
    /\ RingOK(durable)

LEMMA PlaceFacts ==
    ASSUME LocationsSuffice
    PROVE  /\ FirstLocation \in Nat /\ HighestEnd \in Nat
           /\ SectorSize \in Nat \ {0} /\ MaximumLocationSpan \in Nat
           /\ Ring = SectorSize + MaximumLocationSpan /\ Ring \in Nat
           /\ LocationModulus \in Nat
           /\ 2 * (HighestEnd + Ring) <= LocationModulus
           /\ 2 * (HighestEnd + SectorSize) <= LocationModulus
<1>1. FirstLocation \in Nat
  BY FirstAssumption, LocationModulusAssumption DEF Locations
<1>2. /\ Ring = SectorSize + MaximumLocationSpan /\ Ring \in Nat
      /\ MaximumLocationSpan \in Nat /\ SectorSize \in Nat \ {0}
  BY RingFacts, SectorAssumption, MaximumLocationSpanAssumption
<1> QED BY <1>1, <1>2, LocationModulusAssumption DEF LocationsSuffice, HighestEnd

-----------------------------------------------------------------------------
(* A write leaves the bytes alone that are less than a lap ahead of it. *)
LEMMA HoldsAfterWrite ==
    ASSUME NEW ring \in [Slots -> Bytes \cup {Null}],
           NEW o \in Objects, NEW location \in Nat,
           NEW q \in Objects, NEW y \in Nat,
           HoldsData(ring, y, q), y + Size[q] <= FirstWritten(location) + Ring
    PROVE  HoldsData(WrittenRing(ring, o, location), y, q)
<1> DEFINE res == WrittenRing(ring, o, location)
<1>1. \A s \in Slots :
         \/ res[s] = ring[s]
         \/ /\ res[s] # Null
            /\ res[s].location \in Nat
            /\ res[s].location % Ring = s
            /\ FirstWritten(location) <= res[s].location
  BY WrittenRingEffect
<1>2. /\ FirstWritten(location) \in Nat /\ Size[q] \in Nat
      /\ Ring \in Nat \ {0}
  <2>1. SectorSize \in Nat \ {0}
    BY SectorAssumption
  <2>2. (location \div SectorSize) * SectorSize \in Nat
    BY <2>1, SectorBounds
  <2> QED BY <2>2, SizeFacts, RingFacts DEF FirstWritten, Sector
<1> HIDE DEF res
<1> SUFFICES ASSUME NEW k \in 0 .. Size[q] - 1
             PROVE  Solid(res, y + k)
  BY DEF HoldsData, res
<1> DEFINE z == y + k
           s == z % Ring
<1>3. z \in Nat /\ z < FirstWritten(location) + Ring
  <2> DEFINE bound == FirstWritten(location) + Ring
  <2>1. bound \in Nat /\ y + Size[q] <= bound /\ Size[q] \in Nat
    BY <1>2
  <2> HIDE DEF bound
  <2>2. z < bound
    BY <2>1
  <2> QED BY <2>1, <2>2 DEF bound
<1>4. Solid(ring, z)
  BY DEF HoldsData
<1> HIDE DEF z
<1>5. s \in Slots
  BY <1>3, RingFacts
<1>6. ASSUME res[s] = ring[s] PROVE Solid(res, z)
  BY <1>4, <1>6 DEF Solid
<1>7. ASSUME res[s] # ring[s] PROVE Solid(res, z)
  <2>0. /\ res[s] # Null /\ res[s].location \in Nat
        /\ res[s].location % Ring = s
        /\ FirstWritten(location) <= res[s].location
    BY <1>1, <1>5, <1>7
  <2>1. /\ res[s] # Null /\ res[s].location \in Nat
        /\ res[s].location % Ring = z % Ring
        /\ z < res[s].location + Ring
    BY <1>2, <1>3, <2>0
  <2>2. z <= res[s].location
    BY <1>2, <1>3, <2>1, SameSlot
  <2> QED BY <1>3, <2>1, <2>2 DEF Solid
<1> QED BY <1>6, <1>7 DEF z

LEMMA RingAfterWrite ==
    ASSUME NEW ring \in [Slots -> Bytes \cup {Null}], RingOK(ring),
           LocationsSuffice,
           NEW o \in Objects, NEW location \in Nat,
           location + Size[o] <= HighestEnd
    PROVE  RingOK(WrittenRing(ring, o, location))
<1> DEFINE res == WrittenRing(ring, o, location)
<1>1. \A s \in Slots :
         \/ res[s] = ring[s]
         \/ /\ res[s].location \in Nat
            /\ res[s].location < location + Size[o] + SectorSize
  BY WrittenRingEffect
<1> HIDE DEF res
<1>2. Size[o] \in Nat
  BY SizeFacts
<1> QED BY <1>1, <1>2, PlaceFacts DEF RingOK, res

(* Without wrap-around, solid bytes are written ones. *)
LEMMA HoldsDataWritten ==
    ASSUME NEW ring \in [Slots -> Bytes \cup {Null}], RingOK(ring),
           LocationsSuffice,
           NEW o \in Objects, NEW location \in Nat,
           HoldsData(ring, location, o)
    PROVE  Written(ring, o, location)
<1> SUFFICES ASSUME NEW k \in 0 .. Size[o] - 1
             PROVE  LET byte == ring[(location + k) % Ring]
                    IN  /\ byte # Null
                        /\ \/ byte.location = location + k
                           \/ Ahead(byte.location, location + k)
  BY DEF Written
<1> DEFINE y == location + k
           byte == ring[y % Ring]
<1>1. y \in Nat
  BY SizeFacts
<1>2. Solid(ring, y)
  BY DEF HoldsData
<1> HIDE DEF y
<1>3. y % Ring \in Slots
  BY <1>1, RingFacts
<1>4. byte \in Bytes /\ byte # Null /\ byte.location >= y
  BY <1>2, <1>3 DEF Solid
<1>5. byte.location < HighestEnd + SectorSize
  BY <1>3, <1>4 DEF RingOK
<1> HIDE DEF byte
<1>6. byte.location \in Nat
  BY <1>4 DEF Bytes
<1>7. /\ byte.location - y \in 0 .. LocationModulus - 1
      /\ 2 * (byte.location - y) < LocationModulus
  BY <1>1, <1>4, <1>5, <1>6, PlaceFacts
<1>8. (byte.location - y) % LocationModulus = byte.location - y
  BY <1>7, LocationModulusAssumption, ResidueOfSmall
<1>9. byte.location = y \/ Ahead(byte.location, y)
  BY <1>1, <1>4, <1>6, <1>7, <1>8 DEF Ahead
<1> QED BY <1>4, <1>9 DEF byte, y
-----------------------------------------------------------------------------
(* Calls that move on. *)
Quiet == {"idle", "lock", "recheck", "put"}

LEMMA QuietCall ==
    ASSUME NEW call, NEW list, NEW next, call.pc \in Quiet
    PROVE  CallOK(call, list, next)
  BY DEF CallOK, Quiet

LEMMA ReturnCall ==
    ASSUME IInv, NEW t \in Threads, Return(t), NEW u \in Threads
    PROVE  thread'[u] = thread[u] \/ thread'[u].pc \in Quiet
<1>1. thread'[u] = IF u = t THEN Idle ELSE thread[u]
  BY DEF IInv, TypeOK, Return
<1>2. Idle.pc \in Quiet
  BY DEF Idle, Quiet
<1> QED BY <1>1, <1>2

LEMMA GotoWriteCall ==
    ASSUME IInv, NEW t \in Threads, thread[t] \in ActiveThread,
           NEW pc \in {"lock", "put"}, GotoWrite(t, pc), NEW u \in Threads
    PROVE  thread'[u] = thread[u] \/ thread'[u].pc \in Quiet
<1> DEFINE r == [thread[t] EXCEPT !.pc = pc, !.location = 0,
                                  !.needsRefresh = FALSE]
<1>1. r.pc = pc
  BY DEF ActiveThread
<1>2. thread' = [thread EXCEPT ![t] = r]
  BY DEF GotoWrite
<1> HIDE DEF r
<1>3. thread'[u] = IF u = t THEN r ELSE thread[u]
  BY <1>2 DEF IInv, TypeOK
<1> QED BY <1>1, <1>3 DEF Quiet

LEMMA GotoCall ==
    ASSUME IInv, NEW t \in Threads, thread[t] \in ActiveThread,
           NEW pc, Goto(t, pc), NEW u \in Threads
    PROVE  \/ thread'[u] = thread[u]
           \/ /\ u = t
              /\ thread'[u].pc = pc
              /\ thread'[u].location = thread[t].location
              /\ thread'[u].obj = thread[t].obj
<1> DEFINE r == [thread[t] EXCEPT !.pc = pc]
<1>1. r.pc = pc /\ r.location = thread[t].location /\ r.obj = thread[t].obj
  BY DEF ActiveThread
<1>2. thread' = [thread EXCEPT ![t] = r]
  BY DEF Goto
<1> HIDE DEF r
<1>3. thread'[u] = IF u = t THEN r ELSE thread[u]
  BY <1>2 DEF IInv, TypeOK
<1> QED BY <1>1, <1>3

(* The calls alone have moved. *)
LEMMA CallsMove ==
    ASSUME PlacesInv,
           UNCHANGED <<el, nextLocation, cache, durable, pending, persisted>>,
           \A u \in Threads : \/ thread'[u] = thread[u]
                              \/ thread'[u].pc \in Quiet
                              \/ CallOK(thread'[u], el, nextLocation)
    PROVE  PlacesInv'
<1>1. \A u \in Threads : CallOK(thread'[u], el, nextLocation)
  BY QuietCall, Zenon DEF PlacesInv
<1> QED BY <1>1, Zenon DEF PlacesInv

LEMMA ValidRecordEnds ==
    ASSUME NEW list \in EpochListType, EpochListOK(list), NEW o \in Objects,
           NEW record \in Records \cup {NoRecord}, RecordValid(list, record, o)
    PROVE  \E i \in 1 .. Len(list.epochs) :
              /\ i = EpochIndex(list, record.epochID)
              /\ list.epochs[i].hashSeed = record.hashSeed
              /\ list.minimumLocation <= record.location
              /\ record.location + Size[o] <= list.epochs[i].maximumLocation
              /\ record.location + Size[o] <= MaximumLocation(list)
<1> DEFINE i == EpochIndex(list, record.epochID)
<1>1. record \in Records
  BY DEF RecordValid
<1>2. record.epochID \in EpochIDs /\ record.location \in Locations
  BY <1>1 DEF Records
<1>3. record.epochID - list.minimumEpochID \in Int
  BY <1>2, EpochListFields, EpochIDModulusAssumption DEF EpochIDs
<1>4. i \in 1 .. Len(list.epochs)
  <2>1. (record.epochID - list.minimumEpochID) % EpochIDModulus
          \in 0 .. EpochIDModulus - 1
    BY <1>3, EpochIDModulusAssumption, ResidueInRange
  <2>2. i <= Len(list.epochs)
    BY DEF RecordValid, EpochIDResolves
  <2> QED BY <2>1, <2>2, EpochListFields, EpochIDModulusAssumption DEF EpochIndex
<1>5. /\ list.epochs[i].hashSeed = record.hashSeed
      /\ record.location >= list.minimumLocation
      /\ list.epochs[i].maximumLocation - record.location >= Size[o]
  BY DEF RecordValid, IsValidLocation
<1> HIDE DEF i
<1>6. /\ list.epochs[i].maximumLocation \in Nat
      /\ list.epochs[i].maximumLocation <= MaximumLocation(list)
      /\ MaximumLocation(list) \in Nat
      /\ list.minimumLocation \in Nat
  BY <1>4, EpochListFields, MaximumLocationOK
<1>7. record.location \in Nat /\ Size[o] \in Nat
  BY <1>2, SizeFacts, LocationModulusAssumption DEF Locations
<1>8. /\ list.minimumLocation <= record.location
      /\ record.location + Size[o] <= list.epochs[i].maximumLocation
      /\ record.location + Size[o] <= MaximumLocation(list)
  BY <1>5, <1>6, <1>7
<1> QED BY <1>4, <1>5, <1>8 DEF i

LEMMA BeginPlaces ==
    ASSUME IInv, PlacesInv, NEW t \in Threads, NEW op \in Operations,
           NEW o \in Objects, Begin(t, op, o)
    PROVE  PlacesInv'
<1> DEFINE r(pc, location) ==
             [pc |-> pc, op |-> op, obj |-> o, location |-> location,
              needsRefresh |-> FALSE]
<1>0. UNCHANGED <<el, nextLocation, cache, durable, pending, persisted>>
  BY DEF Begin, syncerVars
<1>1. CASE /\ RecordValid(el, rlm[o], o)
           /\ thread' = [thread EXCEPT ![t] = r("next", rlm[o].location)]
  <2>1. rlm[o] \in Records \cup {NoRecord} /\ el \in EpochListType /\ EpochListOK(el)
    BY DEF IInv, TypeOK
  <2>2. rlm[o].location + Size[o] <= MaximumLocation(el)
    BY <1>1, <2>1, ValidRecordEnds
  <2>3. CallOK(r("next", rlm[o].location), el, nextLocation)
    BY <2>2 DEF CallOK
  <2>4. \A u \in Threads : thread'[u] = thread[u]
                           \/ thread'[u] = r("next", rlm[o].location)
    BY <1>1 DEF IInv, TypeOK
  <2> HIDE DEF r
  <2>5. \A u \in Threads : thread'[u] = thread[u]
                           \/ CallOK(thread'[u], el, nextLocation)
    BY <2>3, <2>4, Zenon
  <2> QED BY <1>0, <2>5, CallsMove
<1>2. CASE thread' = [thread EXCEPT ![t] = r("lock", 0)]
  <2>1. \A u \in Threads : thread'[u] = thread[u] \/ thread'[u].pc \in Quiet
    BY <1>2 DEF IInv, TypeOK, Quiet
  <2> QED BY <1>0, <2>1, CallsMove
<1> QED BY <1>1, <1>2 DEF Begin

LEMMA ReadNextPutLocationPlaces ==
    ASSUME IInv, PlacesInv, NEW t \in Threads, ReadNextPutLocation(t)
    PROVE  PlacesInv'
<1>0. UNCHANGED <<el, nextLocation, cache, durable, pending, persisted>>
  BY DEF ReadNextPutLocation, syncerVars
<1>1. thread[t] \in ActiveThread /\ thread[t].pc = "next"
  BY NotIdle DEF IInv, ReadNextPutLocation
<1>2. thread[t].location + Size[thread[t].obj] <= MaximumLocation(el)
  BY <1>1 DEF PlacesInv, CallOK
<1>3. \/ \E needsRefresh \in BOOLEAN :
            thread' = [thread EXCEPT ![t].pc = "read",
                                     ![t].needsRefresh = needsRefresh]
      \/ GotoWrite(t, "lock")
      \/ Return(t)
  <2>1. PICK threshold \in 0 .. CurrentRegion - 1 :
          LET needsRefresh == NeedsRefresh(thread[t].location, threshold)
          IN  CASE thread[t].op = "download" \/
                     (thread[t].op = "touch" /\ needsRefresh) ->
                     thread' = [thread EXCEPT ![t].pc = "read",
                                              ![t].needsRefresh = needsRefresh]
                [] thread[t].op = "upload" /\ needsRefresh -> GotoWrite(t, "lock")
                [] OTHER -> Return(t)
    BY DEF ReadNextPutLocation
  <2>2. NeedsRefresh(thread[t].location, threshold) \in BOOLEAN
    BY DEF NeedsRefresh
  <2> QED BY <2>1, <2>2
<1>4. ASSUME NEW needsRefresh \in BOOLEAN,
             thread' = [thread EXCEPT ![t].pc = "read",
                                      ![t].needsRefresh = needsRefresh]
      PROVE  PlacesInv'
  <2> DEFINE r == [thread[t] EXCEPT !.pc = "read", !.needsRefresh = needsRefresh]
  <2>1. r.pc = "read" /\ r.location = thread[t].location /\ r.obj = thread[t].obj
    BY <1>1 DEF ActiveThread
  <2>2. thread' = [thread EXCEPT ![t] = r]
    BY <1>4 DEF IInv, TypeOK
  <2> HIDE DEF r
  <2>3. CallOK(r, el, nextLocation)
    BY <1>2, <2>1 DEF CallOK
  <2>4. \A u \in Threads : thread'[u] = thread[u] \/ thread'[u] = r
    BY <2>2 DEF IInv, TypeOK
  <2>5. \A u \in Threads : thread'[u] = thread[u]
                           \/ CallOK(thread'[u], el, nextLocation)
    BY <2>3, <2>4, Zenon
  <2> QED BY <1>0, <2>5, CallsMove
<1>5. CASE GotoWrite(t, "lock")
  <2>1. \A u \in Threads : thread'[u] = thread[u] \/ thread'[u].pc \in Quiet
    BY <1>1, <1>5, GotoWriteCall
  <2> QED BY <1>0, <2>1, CallsMove
<1>6. CASE Return(t)
  <2>1. \A u \in Threads : thread'[u] = thread[u] \/ thread'[u].pc \in Quiet
    BY <1>6, ReturnCall
  <2> QED BY <1>0, <2>1, CallsMove
<1> QED BY <1>3, <1>4, <1>5, <1>6

LEMMA ReadObjectPlaces ==
    ASSUME IInv, PlacesInv, NEW t \in Threads, ReadObject(t)
    PROVE  PlacesInv'
<1>0. UNCHANGED <<el, nextLocation, cache, durable, pending, persisted>>
  BY DEF ReadObject, syncerVars
<1>1. thread[t] \in ActiveThread /\ thread[t].pc = "read"
  BY NotIdle DEF IInv, ReadObject
<1>2. thread[t].location + Size[thread[t].obj] <= MaximumLocation(el)
  BY <1>1 DEF PlacesInv, CallOK
<1>3. CASE Goto(t, "discard")
  <2>1. ASSUME NEW u \in Threads
        PROVE  thread'[u] = thread[u] \/ CallOK(thread'[u], el, nextLocation)
    <3>1. CASE thread'[u] # thread[u]
      <4>1. /\ thread'[u].pc = "discard"
            /\ thread'[u].location = thread[t].location
            /\ thread'[u].obj = thread[t].obj
        BY <1>1, <1>3, <3>1, GotoCall
      <4> QED BY <1>2, <4>1 DEF CallOK
    <3> QED BY <3>1
  <2> QED BY <1>0, <2>1, CallsMove
<1>4. CASE GotoWrite(t, "lock")
  <2>1. \A u \in Threads : thread'[u] = thread[u] \/ thread'[u].pc \in Quiet
    BY <1>1, <1>4, GotoWriteCall
  <2> QED BY <1>0, <2>1, CallsMove
<1>5. CASE Return(t)
  <2>1. \A u \in Threads : thread'[u] = thread[u] \/ thread'[u].pc \in Quiet
    BY <1>5, ReturnCall
  <2> QED BY <1>0, <2>1, CallsMove
<1> QED BY <1>3, <1>4, <1>5 DEF ReadObject

LEMMA AcquireWriteLockPlaces ==
    ASSUME IInv, PlacesInv, NEW t \in Threads, AcquireWriteLock(t)
    PROVE  PlacesInv'
<1>0. UNCHANGED <<el, nextLocation, cache, durable, pending, persisted>>
  BY DEF AcquireWriteLock, syncerVars
<1>1. thread[t] \in ActiveThread
  BY NotIdle DEF IInv, AcquireWriteLock
<1>2. CASE GotoWrite(t, "put")
  <2>1. \A u \in Threads : thread'[u] = thread[u] \/ thread'[u].pc \in Quiet
    BY <1>1, <1>2, GotoWriteCall
  <2> QED BY <1>0, <2>1, CallsMove
<1>3. CASE ~GotoWrite(t, "put")
  <2> DEFINE r == [thread[t] EXCEPT !.pc = "recheck",
                                    !.location = rlm[thread[t].obj].location]
  <2>1. thread' = [thread EXCEPT ![t] = r]
    BY <1>3 DEF AcquireWriteLock
  <2>2. r.pc = "recheck"
    BY <1>1 DEF ActiveThread
  <2> HIDE DEF r
  <2>3. \A u \in Threads : thread'[u] = thread[u] \/ thread'[u].pc \in Quiet
    BY <2>1, <2>2 DEF IInv, TypeOK, Quiet
  <2> QED BY <1>0, <2>3, CallsMove
<1> QED BY <1>2, <1>3

LEMMA RecheckPlaces ==
    ASSUME IInv, PlacesInv, NEW t \in Threads, Recheck(t)
    PROVE  PlacesInv'
<1>0. UNCHANGED <<el, nextLocation, cache, durable, pending, persisted>>
  BY DEF Recheck, syncerVars
<1>1. thread[t] \in ActiveThread
  BY NotIdle DEF IInv, Recheck
<1>2. GotoWrite(t, "put") \/ Return(t)
  BY DEF Recheck
<1>3. \A u \in Threads : thread'[u] = thread[u] \/ thread'[u].pc \in Quiet
  BY <1>1, <1>2, GotoWriteCall, ReturnCall
<1> QED BY <1>0, <1>3, CallsMove

LEMMA RejectWritePlaces ==
    ASSUME IInv, PlacesInv, NEW t \in Threads, RejectWrite(t)
    PROVE  PlacesInv'
<1>0. UNCHANGED <<el, nextLocation, cache, durable, pending, persisted>>
  BY DEF RejectWrite, syncerVars
<1>1. \A u \in Threads : thread'[u] = thread[u] \/ thread'[u].pc \in Quiet
  BY ReturnCall DEF RejectWrite
<1> QED BY <1>0, <1>1, CallsMove
LEMMA LocationsAreNatural == Locations \subseteq Nat
  BY LocationModulusAssumption DEF Locations

LEMMA FirstWrittenFacts ==
    ASSUME NEW location \in Nat
    PROVE  /\ FirstWritten(location) \in Nat
           /\ FirstWritten(location) <= location
           /\ location < FirstWritten(location) + SectorSize
  BY SectorAssumption, SectorBounds DEF FirstWritten, Sector

LEMMA PlaceTypes ==
    ASSUME IInv
    PROVE  /\ el \in EpochListType /\ EpochListOK(el)
           /\ nextLocation \in Nat
           /\ el.minimumLocation \in Nat
           /\ MaximumLocation(el) \in Nat
           /\ el.minimumLocation <= MaximumLocation(el)
           /\ PersistentStateOK(pending) /\ PersistentStateOK(persisted)
           /\ InitialLocation(pending) \in Nat
           /\ InitialLocation(persisted) \in Nat
           /\ \A t \in Threads : thread[t].pc # "idle" =>
                 /\ thread[t].obj \in Objects
                 /\ thread[t].location \in Nat
                 /\ Size[thread[t].obj] \in Nat /\ Size[thread[t].obj] > 0
<1>1. el \in EpochListType /\ EpochListOK(el) /\ nextLocation \in Locations
  BY DEF IInv, TypeOK
<1>2. PersistentStateOK(pending) /\ PersistentStateOK(persisted)
  BY DEF IInv
<1>3. InitialLocation(pending) \in Locations /\ InitialLocation(persisted) \in Locations
  BY <1>2, NewPersistentEpochListOK
<1>4. ASSUME NEW t \in Threads, thread[t].pc # "idle"
      PROVE  /\ thread[t].obj \in Objects
             /\ thread[t].location \in Nat
             /\ Size[thread[t].obj] \in Nat /\ Size[thread[t].obj] > 0
  <2>1. thread[t] \in ActiveThread
    BY <1>4, NotIdle DEF IInv
  <2>2. thread[t].obj \in Objects /\ thread[t].location \in Locations
    BY <2>1, ActiveFields
  <2> QED BY <2>2, SizeFacts, LocationsAreNatural
<1> QED BY <1>1, <1>2, <1>3, <1>4, LocationsAreNatural, EpochListFields,
           MaximumLocationOK

(* The cursor stays below half of the locations: allocateLocation does not *)
(* start over.                                                             *)
LEMMA AllocationForward ==
    ASSUME IInv, PlacesInv, LocationsSuffice, NEW t \in Threads, Allocate(t)
    PROVE  LET size == Size[thread[t].obj]
           IN  /\ thread[t] \in ActiveThread /\ thread[t].obj \in Objects
               /\ size \in Nat /\ size > 0
               /\ nextLocation' = nextLocation + size
               /\ nextLocation' <= HighestEnd
               /\ NotLapped(nextLocation')
               /\ thread' = [thread EXCEPT ![t].pc = "write",
                                           ![t].location = nextLocation]
<1> DEFINE size == Size[thread[t].obj]
           allocation == AllocateLocation(size)
<1>1. thread[t] \in ActiveThread /\ thread[t].obj \in Objects
  BY NotIdle, ActiveFields DEF IInv, Allocate
<1>2. size \in Nat /\ size > 0 /\ size < LocationModulus
  BY <1>1, SizeFacts, LocationModulusAssumption DEF Locations
<1>3. /\ (allocation[2] - FirstLocation) % LocationModulus <= MaxAllocated
      /\ NotLapped(allocation[2])
      /\ nextLocation' = allocation[2]
      /\ thread' = [thread EXCEPT ![t].pc = "write",
                                  ![t].location = allocation[1]]
  BY DEF Allocate
<1> HIDE DEF size
<1>4. /\ nextLocation \in Nat /\ FirstLocation \in Nat /\ LocationModulus \in Nat
      /\ FirstLocation <= nextLocation /\ nextLocation < HighestEnd + SectorSize
      /\ 2 * (HighestEnd + SectorSize) <= LocationModulus
      /\ HighestEnd \in Nat /\ SectorSize \in Nat
      /\ HighestEnd = FirstLocation + MaxAllocated /\ MaxAllocated \in Nat
  BY PlaceFacts, PlaceTypes DEF PlacesInv, CursorOK, HighestEnd, LocationsSuffice
<1>5. nextLocation + size < LocationModulus
  <2> SUFFICES ASSUME nextLocation + size >= LocationModulus PROVE FALSE
    BY <1>2, <1>4
  <2>1. allocation[2] = size
    BY DEF AllocateLocation
  <2>2. CASE size >= FirstLocation
    <3>1. size - FirstLocation \in 0 .. LocationModulus - 1
      BY <1>2, <1>4, <2>2
    <3>2. size - FirstLocation <= MaxAllocated
      BY <1>3, <2>1, <3>1, LocationModulusAssumption, ResidueOfSmall
    <3> QED BY <1>2, <1>4, <3>2
  <2>3. CASE size < FirstLocation
    BY <1>2, <1>4, <2>3
  <2> QED BY <1>2, <1>4, <2>2, <2>3
<1>6. allocation[1] = nextLocation /\ allocation[2] = nextLocation + size
  BY <1>2, <1>4, <1>5 DEF AllocateLocation
<1>7. nextLocation + size - FirstLocation \in 0 .. LocationModulus - 1
  BY <1>2, <1>4, <1>5
<1>8. (nextLocation + size - FirstLocation) % LocationModulus
         = nextLocation + size - FirstLocation
  BY <1>7, LocationModulusAssumption, ResidueOfSmall
<1> HIDE DEF allocation
<1>9. nextLocation + size <= HighestEnd
  BY <1>2, <1>3, <1>4, <1>6, <1>8
<1> QED BY <1>1, <1>2, <1>3, <1>6, <1>9 DEF size

LEMMA AllocatePlaces ==
    ASSUME IInv, PlacesInv, LocationsSuffice, ObjectsFit, NEW t \in Threads,
           Allocate(t)
    PROVE  PlacesInv'
<1> DEFINE size == Size[thread[t].obj]
           next == nextLocation + size
           r == [thread[t] EXCEPT !.pc = "write", !.location = nextLocation]
<1>1. /\ thread[t] \in ActiveThread /\ thread[t].obj \in Objects
      /\ size \in Nat /\ size > 0
      /\ nextLocation' = next
      /\ next <= HighestEnd
      /\ NotLapped(next)
      /\ thread' = [thread EXCEPT ![t] = r]
  BY AllocationForward
<1>2. size <= MaximumLocationSpan
  BY <1>1 DEF ObjectsFit
<1>3. /\ nextLocation \in Nat
      /\ FirstLocation <= nextLocation
  BY PlaceTypes DEF PlacesInv, CursorOK
<1>4. r.pc = "write" /\ r.location = nextLocation /\ r.obj = thread[t].obj
  BY <1>1 DEF ActiveThread
<1> HIDE DEF r, size
<1>5. UNCHANGED <<el, cache, durable, pending, persisted>>
  BY DEF Allocate, syncerVars
<1>6. CallOK(r, el, next)
  <2>1. next <= FirstWritten(nextLocation) + Ring
    BY <1>1, <1>2, <1>3, FirstWrittenFacts, PlaceFacts
  <2> HIDE DEF next
  <2> QED BY <1>1, <1>3, <1>4, <2>1 DEF CallOK, size, next
<1>7. ASSUME NEW u \in Threads
      PROVE  CallOK(thread[u], el, next)
  <2>0. CallOK(thread[u], el, nextLocation)
    BY DEF PlacesInv
  <2>1. CASE thread[u].pc \in {"write", "finalize"}
    <3> DEFINE L == thread[u].location
               z == Size[thread[u].obj]
    <3>1. L \in Nat /\ z \in Nat /\ z > 0
      BY <2>1, PlaceTypes
    <3>2. /\ FirstLocation <= L /\ L + z <= nextLocation /\ L + z <= HighestEnd
      BY <2>0, <2>1 DEF CallOK
    <3>3. (next - L) % LocationModulus <= MaximumLocationSpan
      BY <1>1, <2>1 DEF NotLapped
    <3> HIDE DEF L, z
    <3>4. next \in Nat /\ next - L \in 0 .. LocationModulus - 1
      BY <1>1, <1>3, <3>1, <3>2, PlaceFacts
    <3>5. next - L <= MaximumLocationSpan
      BY <3>3, <3>4, LocationModulusAssumption, ResidueOfSmall
    <3>6. next <= FirstWritten(L) + Ring
      BY <3>1, <3>4, <3>5, FirstWrittenFacts, PlaceFacts
    <3>7. L + z <= next
      BY <1>1, <1>3, <3>1, <3>2
    <3> HIDE DEF next
    <3> QED BY <2>1, <3>2, <3>6, <3>7 DEF CallOK, L, z
  <2>2. CASE thread[u].pc \notin {"write", "finalize"}
    BY <2>0, <2>2 DEF CallOK
  <2> QED BY <2>1, <2>2
<1>8. \A u \in Threads : thread'[u] = r \/ thread'[u] = thread[u]
  BY <1>1 DEF IInv, TypeOK
<1>9. \A u \in Threads : CallOK(thread'[u], el, next)
  BY <1>6, <1>7, <1>8, Zenon
<1>10. next \in Nat /\ nextLocation <= next
  BY <1>1, <1>3
<1>11. CursorOK(el, next)
  BY <1>1, <1>3, <1>10, PlaceTypes, PlaceFacts DEF PlacesInv, CursorOK
<1>12. StateFileOK(pending, next) /\ StateFileOK(persisted, next)
  BY <1>3, <1>10, PlaceTypes DEF PlacesInv, StateFileOK
<1> HIDE DEF next
<1> QED BY <1>1, <1>5, <1>9, <1>11, <1>12, Zenon DEF PlacesInv
LEMMA CallKept ==
    ASSUME IInv, NEW u \in Threads, CallOK(thread[u], el, nextLocation),
           NEW list, MaximumLocation(list) \in Nat,
           MaximumLocation(el) <= MaximumLocation(list)
    PROVE  CallOK(thread[u], list, nextLocation)
<1>1. CASE thread[u].pc \in {"next", "read", "discard"}
  <2>1. /\ thread[u].location \in Nat /\ Size[thread[u].obj] \in Nat
        /\ MaximumLocation(el) \in Nat
    BY <1>1, PlaceTypes
  <2>2. thread[u].location + Size[thread[u].obj] <= MaximumLocation(list)
    BY <1>1, <2>1 DEF CallOK
  <2> QED BY <1>1, <2>2 DEF CallOK
<1>2. CASE thread[u].pc \notin {"next", "read", "discard"}
  BY <1>2 DEF CallOK
<1> QED BY <1>1, <1>2

(* A list that ends no later than the cursor, and no earlier than before,  *)
(* takes the place of the list.                                            *)
LEMMA ListMoves ==
    ASSUME IInv, PlacesInv, LocationsSuffice,
           el' \in EpochListType, EpochListOK(el'),
           el.minimumLocation <= el'.minimumLocation,
           MaximumLocation(el) <= MaximumLocation(el'),
           MaximumLocation(el') <= nextLocation,
           MaximumLocation(el') <= HighestEnd,
           UNCHANGED <<nextLocation, cache, durable, pending, persisted>>,
           \A u \in Threads : thread'[u] = thread[u] \/ thread'[u].pc \in Quiet
    PROVE  PlacesInv'
<1>1. MaximumLocation(el') \in Nat /\ el'.minimumLocation \in Nat
  BY MaximumLocationOK, EpochListFields
<1>2. \A u \in Threads : CallOK(thread[u], el', nextLocation)
  BY <1>1, CallKept DEF PlacesInv
<1>3. \A u \in Threads : CallOK(thread'[u], el', nextLocation)
  BY <1>2, QuietCall, Zenon
<1>4. CursorOK(el', nextLocation)
  <2>1. FirstLocation <= el'.minimumLocation
    BY <1>1, PlaceTypes, PlaceFacts DEF PlacesInv, CursorOK
  <2> QED BY <2>1 DEF PlacesInv, CursorOK
<1> QED BY <1>3, <1>4, Zenon DEF PlacesInv

LEMMA DiscardCorruptedPlaces ==
    ASSUME IInv, PlacesInv, LocationsSuffice, NEW t \in Threads,
           DiscardCorrupted(t), NEW seed
    PROVE  /\ PlacesInv'
           /\ \E n : Follows(el, el', n, seed)
<1> DEFINE location == thread[t].location + Size[thread[t].obj]
<1>1. thread[t].pc = "discard" /\ el' = DiscardUpToLocation(el, location)
      /\ Return(t)
  BY DEF DiscardCorrupted
<1>2. location \in Locations
  BY <1>1 DEF IInv, ThreadLocationsOK, UsesLocation
<1>3. location <= MaximumLocation(el)
  BY <1>1 DEF PlacesInv, CallOK
<1>4. el \in EpochListType /\ EpochListOK(el) /\ MaximumLocation(el) \in Nat
  BY PlaceTypes
<1> HIDE DEF location
<1>5. el' \in EpochListType /\ EpochListOK(el')
  BY <1>1, <1>2, <1>4, DiscardUpToLocationOK
<1>6. /\ \E n : Follows(el, el', n, seed)
      /\ MaximumLocation(el') = MaximumLocation(el)
  BY <1>1, <1>2, <1>3, <1>4, DiscardUpToLocationFollows
<1>7. el.minimumLocation <= el'.minimumLocation
  BY <1>6 DEF Follows
<1>8. \A u \in Threads : thread'[u] = thread[u] \/ thread'[u].pc \in Quiet
  BY <1>1, ReturnCall
<1>9. UNCHANGED <<nextLocation, cache, durable, pending, persisted>>
  BY DEF DiscardCorrupted, syncerVars
<1>10. /\ MaximumLocation(el) <= MaximumLocation(el')
       /\ MaximumLocation(el') <= nextLocation
       /\ MaximumLocation(el') <= HighestEnd
  BY <1>4, <1>6 DEF PlacesInv, CursorOK
<1>11. PlacesInv'
  BY <1>5, <1>7, <1>8, <1>9, <1>10, ListMoves
<1> QED BY <1>6, <1>11

LEMMA ResidueOfNegative ==
    ASSUME NEW M \in Nat \ {0}, NEW x \in Int, x + M \in 0 .. M - 1
    PROVE  x % M = x + M
  OBVIOUS

(* A location is ahead of another only when it is larger. *)
LEMMA AheadIsLarger ==
    ASSUME LocationsSuffice, NEW a \in Nat, NEW b \in Nat,
           a <= HighestEnd, b <= HighestEnd, Ahead(a, b)
    PROVE  b < a
<1> SUFFICES ASSUME a <= b PROVE FALSE
  OBVIOUS
<1>1. CASE a = b
  <2>1. a - b \in 0 .. LocationModulus - 1 /\ a - b = 0
    BY <1>1, LocationModulusAssumption
  <2>2. (a - b) % LocationModulus = 0
    BY <2>1, LocationModulusAssumption, ResidueOfSmall
  <2> QED BY <2>2 DEF Ahead
<1>2. CASE a < b
  <2>1. /\ a - b \in Int
        /\ a - b + LocationModulus \in 0 .. LocationModulus - 1
        /\ 2 * (a - b + LocationModulus) >= LocationModulus
    BY <1>2, PlaceFacts
  <2>2. (a - b) % LocationModulus = a - b + LocationModulus
    BY <2>1, LocationModulusAssumption, ResidueOfNegative
  <2> DEFINE d == (a - b) % LocationModulus
  <2>3. 2 * d < LocationModulus
    BY DEF Ahead
  <2>4. d = a - b + LocationModulus
    BY <2>2
  <2> HIDE DEF d
  <2> QED BY <2>1, <2>3, <2>4, LocationModulusAssumption
<1> QED BY <1>1, <1>2

LEMMA FinalizeWritePlaces ==
    ASSUME IInv, PlacesInv, LocationsSuffice, NEW t \in Threads,
           FinalizeWrite(t)
    PROVE  /\ PlacesInv'
           /\ \E n : Follows(el, el', n, nextSeed)
<1> DEFINE location == thread[t].location + Size[thread[t].obj]
<1>1. /\ thread[t].pc = "finalize"
      /\ el' = FinalizeWriteUpToLocation(el, location, nextSeed)
      /\ Return(t)
  BY DEF FinalizeWrite, Finalized
<1>2. location \in Locations
  BY <1>1 DEF IInv, ThreadLocationsOK, UsesLocation
<1>3. location > 0 /\ location \in Nat
  BY <1>1, PlaceTypes
<1>4. location <= nextLocation /\ location <= HighestEnd
  BY <1>1 DEF PlacesInv, CallOK
<1>5. /\ el \in EpochListType /\ EpochListOK(el) /\ MaximumLocation(el) \in Nat
      /\ nextSeed \in Nat
  BY PlaceTypes DEF IInv, TypeOK
<1>6. el' \in EpochListType /\ EpochListOK(el')
  BY <1>1, FinalizedOK DEF FinalizeWrite
<1> HIDE DEF location
<1>7. Ahead(location, MaximumLocation(el)) => MaximumLocation(el) < location
  BY <1>3, <1>4, <1>5, AheadIsLarger DEF PlacesInv, CursorOK
<1>8. /\ \E n : Follows(el, el', n, nextSeed)
      /\ MaximumLocation(el) <= MaximumLocation(el')
      /\ MaximumLocation(el') \in {MaximumLocation(el), location}
  BY <1>1, <1>2, <1>3, <1>5, <1>7, FinalizeWriteUpToLocationFollows
<1>9. el.minimumLocation <= el'.minimumLocation
  BY <1>8 DEF Follows
<1>10. \A u \in Threads : thread'[u] = thread[u] \/ thread'[u].pc \in Quiet
  BY <1>1, ReturnCall
<1>11. UNCHANGED <<nextLocation, cache, durable, pending, persisted>>
  BY DEF FinalizeWrite, syncerVars
<1>12. /\ MaximumLocation(el') <= nextLocation
       /\ MaximumLocation(el') <= HighestEnd
  BY <1>4, <1>5, <1>8 DEF PlacesInv, CursorOK
<1>13. PlacesInv'
  BY <1>6, <1>8, <1>9, <1>10, <1>11, <1>12, ListMoves
<1> QED BY <1>8, <1>13
LEMMA WriteDataPlaces ==
    ASSUME IInv, PlacesInv, LocationsSuffice, NEW t \in Threads, WriteData(t)
    PROVE  PlacesInv'
<1> DEFINE o == thread[t].obj
           location == thread[t].location
<1>0. UNCHANGED <<el, nextLocation, durable, pending, persisted>>
  BY DEF WriteData, syncerVars
<1>1. thread[t] \in ActiveThread /\ thread[t].pc = "write"
  BY NotIdle DEF IInv, WriteData
<1>2. o \in Objects /\ location \in Nat
  BY <1>1, PlaceTypes
<1>3. CallOK(thread[t], el, nextLocation)
  BY DEF PlacesInv
<1>4. location + Size[o] <= HighestEnd
  BY <1>1, <1>3 DEF CallOK
<1>5. RingOK(cache')
  <2>1. cache \in [Slots -> Bytes \cup {Null}] /\ RingOK(cache)
    BY DEF IInv, TypeOK, PlacesInv
  <2>2. RingOK(WrittenRing(cache, o, location))
    BY <1>2, <1>4, <2>1, RingAfterWrite
  <2>3. cache' = cache \/ cache' = WrittenRing(cache, o, location)
    BY DEF WriteData
  <2> QED BY <2>1, <2>2, <2>3, Zenon
<1>6. ASSUME NEW u \in Threads
      PROVE  CallOK(thread'[u], el, nextLocation)
  <2>1. CASE Goto(t, "finalize")
    <3>1. \/ thread'[u] = thread[u]
          \/ /\ thread'[u].pc = "finalize"
             /\ thread'[u].location = location
             /\ thread'[u].obj = o
      BY <1>1, <2>1, GotoCall
    <3>2. CallOK(thread[u], el, nextLocation)
      BY DEF PlacesInv
    <3> QED BY <1>1, <1>3, <3>1, <3>2 DEF CallOK
  <2>2. CASE Return(t)
    <3>1. thread'[u] = thread[u] \/ thread'[u].pc \in Quiet
      BY <2>2, ReturnCall
    <3>2. CallOK(thread[u], el, nextLocation)
      BY DEF PlacesInv
    <3> QED BY <3>1, <3>2, QuietCall, Zenon
  <2> QED BY <2>1, <2>2 DEF WriteData
<1> QED BY <1>0, <1>5, <1>6, Zenon DEF PlacesInv

-----------------------------------------------------------------------------
(* What is read for the state file resumes where the last epoch that is on *)
(* disk ends.                                                              *)
LEMMA SavedState ==
    ASSUME NEW list \in EpochListType, EpochListOK(list)
    PROVE  LET ps == GetPersistentState(list)
           IN  /\ PersistentStateOK(ps)
               /\ ps.minimumEpochID = list.minimumEpochID
               /\ ps.minimumLocation = list.minimumLocation
               /\ Len(ps.epochs) = list.synchronizedEpochs
               /\ InitialLocation(ps) <= MaximumLocation(list)
               /\ \A i \in 1 .. Len(ps.epochs) :
                     /\ i \in 1 .. Len(list.epochs)
                     /\ ps.epochs[i].hashSeed = list.epochs[i].hashSeed
                     /\ ReloadedMaximum(ps)[i] = list.epochs[i].maximumLocation
<1> DEFINE ps == GetPersistentState(list)
           n == list.synchronizedEpochs
<1>1. /\ ps \in PersistentStateType
      /\ Len(ps.epochs) = n
      /\ EpochEnds(list) \in [0 .. Len(ps.epochs) -> Locations]
      /\ AddUpTo(ps, EpochEnds(list))
      /\ ps.minimumEpochID = list.minimumEpochID
      /\ ps.minimumLocation = list.minimumLocation
      /\ \A i \in 1 .. Len(ps.epochs) :
            ps.epochs[i].hashSeed = list.epochs[i].hashSeed
  BY GetPersistentStateFields
<1>2. PersistentStateOK(ps)
  BY GetPersistentStateOK
<1> HIDE DEF ps
<1>3. n \in Nat /\ n <= Len(list.epochs) /\ Len(list.epochs) \in Nat
  BY EpochListFields DEF EpochListOK
<1>4. \A i \in 0 .. n : ReloadedMaximum(ps)[i] = EpochEnds(list)[i]
  BY <1>1, ReloadedMaximumOK
<1>5. /\ \A i \in 1 .. n : EpochEnds(list)[i] = list.epochs[i].maximumLocation
      /\ EpochEnds(list)[0] = list.minimumLocation
  BY <1>3 DEF EpochEnds
<1>6. InitialLocation(ps) = EpochEnds(list)[n]
  <2>1. InitialLocation(ps) = ReloadedMaximum(ps)[Len(ps.epochs)]
    BY <1>2, ReloadFields
  <2>2. n \in 0 .. n
    BY <1>3
  <2> HIDE DEF n
  <2> QED BY <1>1, <1>4, <2>1, <2>2
<1>7. InitialLocation(ps) <= MaximumLocation(list)
  <2>1. CASE n = 0
    BY <1>5, <1>6, <2>1, MaximumLocationOK
  <2>2. CASE n # 0
    <3>1. n \in 1 .. n /\ n \in 1 .. Len(list.epochs)
      BY <1>3, <2>2
    <3> QED BY <1>5, <1>6, <3>1, MaximumLocationOK
  <2> QED BY <2>1, <2>2
<1> HIDE DEF n
<1> QED BY <1>1, <1>2, <1>3, <1>4, <1>5, <1>7 DEF ps, n

LEMMA SyncerPlaces ==
    ASSUME IInv, PlacesInv, LocationsSuffice, SyncerStep
    PROVE  PlacesInv'
<1>0. thread' = thread /\ nextLocation' = nextLocation /\ cache' = cache
  BY DEF SyncerStep, WakeUp, DelayElapses, ContextDone, StartSync, SyncData,
     CompleteSync, CompleteFinalSync, ReadPersistentState,
     WritePersistentState, WritePersistentStateFails, storeVars
<1>1. durable' = durable \/ durable' = cache
  BY DEF SyncerStep, WakeUp, DelayElapses, ContextDone, StartSync, SyncData,
     CompleteSync, CompleteFinalSync, ReadPersistentState,
     WritePersistentState, WritePersistentStateFails
<1>2. el'.epochs = el.epochs /\ el'.minimumLocation = el.minimumLocation
  <2>1. el \in EpochListType
    BY PlaceTypes
  <2>2. \A list \in EpochListType :
           /\ NotifySyncCompleted(list).epochs = list.epochs
           /\ NotifySyncCompleted(list).minimumLocation = list.minimumLocation
    BY DEF NotifySyncCompleted, EpochListType
  <2>3. \A list \in EpochListType, final \in BOOLEAN :
           /\ NotifySyncStarting(list, final).epochs = list.epochs
           /\ NotifySyncStarting(list, final).minimumLocation = list.minimumLocation
    BY DEF NotifySyncStarting, EpochListType
  <2>4. NotifySyncCompleted(el) \in EpochListType
    BY PlaceTypes, NotifySyncCompletedOK
  <2>5. \/ el' = el
        \/ el' = NotifySyncStarting(el, FALSE)
        \/ el' = NotifySyncCompleted(el)
        \/ el' = NotifySyncStarting(NotifySyncCompleted(el), TRUE)
    BY DEF SyncerStep, WakeUp, DelayElapses, ContextDone, StartSync, SyncData,
       CompleteSync, CompleteFinalSync, ReadPersistentState,
       WritePersistentState, WritePersistentStateFails
  <2> QED BY <2>1, <2>2, <2>3, <2>4, <2>5
<1>3. MaximumLocation(el') = MaximumLocation(el)
  BY <1>2 DEF MaximumLocation
<1>4. CursorOK(el', nextLocation')
  BY <1>0, <1>2, <1>3 DEF PlacesInv, CursorOK
<1>5. \A t \in Threads : CallOK(thread'[t], el', nextLocation')
  BY <1>0, <1>3 DEF PlacesInv, CallOK
<1>6. pending' = pending \/ pending' = GetPersistentState(el)
  BY DEF SyncerStep, WakeUp, DelayElapses, ContextDone, StartSync, SyncData,
     CompleteSync, CompleteFinalSync, ReadPersistentState,
     WritePersistentState, WritePersistentStateFails
<1>7. persisted' = persisted \/ persisted' = pending
  BY DEF SyncerStep, WakeUp, DelayElapses, ContextDone, StartSync, SyncData,
     CompleteSync, CompleteFinalSync, ReadPersistentState,
     WritePersistentState, WritePersistentStateFails
<1>8. StateFileOK(GetPersistentState(el), nextLocation)
  <2> DEFINE ps == GetPersistentState(el)
  <2>1. /\ ps.minimumLocation = el.minimumLocation
        /\ InitialLocation(ps) <= MaximumLocation(el)
        /\ InitialLocation(ps) \in Locations
    BY PlaceTypes, SavedState, NewPersistentEpochListOK
  <2> HIDE DEF ps
  <2>2. InitialLocation(ps) \in Nat
    BY <2>1, LocationsAreNatural
  <2>3. StateFileOK(ps, nextLocation)
    BY <2>1, <2>2, PlaceTypes, PlaceFacts DEF StateFileOK, PlacesInv, CursorOK
  <2> QED BY <2>3 DEF ps
<1>9. StateFileOK(pending', nextLocation') /\ StateFileOK(persisted', nextLocation')
  BY <1>0, <1>6, <1>7, <1>8, Zenon DEF PlacesInv
<1> QED BY <1>0, <1>1, <1>4, <1>5, <1>9, Zenon DEF PlacesInv

LEMMA RequestShutdownPlaces ==
    ASSUME PlacesInv, RequestShutdown
    PROVE  PlacesInv'
<1>1. UNCHANGED <<el, nextLocation, cache, durable, pending, persisted, thread>>
  BY DEF RequestShutdown, storeVars, syncerVars
<1> QED BY <1>1, Zenon DEF PlacesInv

(* Corruption changes what is in a byte, not where it belongs. *)
LEMMA CorruptLocations ==
    ASSUME IInv, NEW s \in Slots, Corrupt(s), NEW z \in Slots
    PROVE  /\ cache'[z] # Null <=> cache[z] # Null
           /\ cache[z] # Null => cache'[z].location = cache[z].location
<1>1. cache \in [Slots -> Bytes \cup {Null}] /\ cache[s] \in Bytes
  BY DEF IInv, TypeOK, Corrupt
<1> DEFINE byte == [cache[s] EXCEPT !.obj = Null]
<1>2. byte \in Bytes /\ byte.location = cache[s].location
  BY <1>1 DEF Bytes
<1>3. cache' = [cache EXCEPT ![s] = byte]
  BY DEF Corrupt
<1> HIDE DEF byte
<1>4. cache'[z] = IF z = s THEN byte ELSE cache[z]
  BY <1>1, <1>3
<1> QED BY <1>1, <1>2, <1>4, NullAssumption

LEMMA CorruptPlaces ==
    ASSUME IInv, PlacesInv, NEW s \in Slots, Corrupt(s)
    PROVE  PlacesInv'
<1>1. UNCHANGED <<el, nextLocation, durable, pending, persisted, thread>>
  BY DEF Corrupt, syncerVars
<1>2. RingOK(cache')
  BY CorruptLocations DEF RingOK, PlacesInv
<1> QED BY <1>1, <1>2, Zenon DEF PlacesInv

LEMMA RoundUpForward ==
    ASSUME LocationsSuffice, NEW x \in Nat, x <= HighestEnd
    PROVE  /\ RoundUpToSector(x) \in Nat
           /\ x <= RoundUpToSector(x)
           /\ RoundUpToSector(x) < x + SectorSize
<1> DEFINE y == x + SectorSize - 1
<1>1. y \in 0 .. LocationModulus - 1 /\ y \in Nat /\ SectorSize \in Nat \ {0}
  BY PlaceFacts
<1>2. y % LocationModulus = y
  BY <1>1, LocationModulusAssumption, ResidueOfSmall
<1>3. RoundUpToSector(x) = (y \div SectorSize) * SectorSize
  BY <1>2 DEF RoundUpToSector, Sector
<1>4. /\ (y \div SectorSize) * SectorSize <= y
      /\ y < (y \div SectorSize) * SectorSize + SectorSize
      /\ (y \div SectorSize) * SectorSize \in Nat
  <2> HIDE DEF y
  <2> QED BY <1>1, SectorBounds
<1> DEFINE z == (y \div SectorSize) * SectorSize
<1>5. z \in Nat /\ z <= y /\ y < z + SectorSize /\ RoundUpToSector(x) = z
  BY <1>3, <1>4
<1> HIDE DEF z
<1> QED BY <1>1, <1>5
(* The list and the cursor that a restart creates. *)
LEMMA RestartPlaces ==
    ASSUME LocationsSuffice, NEW ps, PersistentStateOK(ps), NEW next,
           StateFileOK(ps, next)
    PROVE  LET list == NewPersistentEpochList(ps)
               start == RoundUpToSector(InitialLocation(ps))
           IN  CursorOK(list, start) /\ StateFileOK(ps, start)
<1> DEFINE list == NewPersistentEpochList(ps)
           start == RoundUpToSector(InitialLocation(ps))
           len == Len(ps.epochs)
           max == ReloadedMaximum(ps)
<1>1. /\ list \in EpochListType /\ EpochListOK(list)
      /\ InitialLocation(ps) \in Nat
  BY NewPersistentEpochListOK, LocationsAreNatural
<1>2. /\ len \in Nat
      /\ \A i \in 0 .. len : max[i] \in Nat
      /\ \A i, j \in 0 .. len : i <= j => max[i] <= max[j]
      /\ max[0] = ps.minimumLocation
      /\ InitialLocation(ps) = max[len]
      /\ list.minimumLocation = ps.minimumLocation
      /\ \E n \in 0 .. len :
            /\ Len(list.epochs) = len - n
            /\ \A j \in 1 .. len - n :
                  /\ j + n \in 1 .. len
                  /\ list.epochs[j].maximumLocation = max[j + n]
  BY ReloadFields
<1>3. FirstLocation <= ps.minimumLocation /\ InitialLocation(ps) <= HighestEnd
  BY DEF StateFileOK
<1>4. /\ start \in Nat /\ InitialLocation(ps) <= start
      /\ start < InitialLocation(ps) + SectorSize
  BY <1>1, <1>3, RoundUpForward
<1> HIDE DEF list, start, len, max
<1>5. ps.minimumLocation \in Nat /\ ps.minimumLocation <= InitialLocation(ps)
  <2>1. 0 \in 0 .. len /\ len \in 0 .. len /\ 0 <= len
    BY <1>2
  <2> QED BY <1>2, <2>1
<1>6. MaximumLocation(list) <= InitialLocation(ps)
  <2>1. PICK n \in 0 .. len :
            /\ Len(list.epochs) = len - n
            /\ \A j \in 1 .. len - n :
                  /\ j + n \in 1 .. len
                  /\ list.epochs[j].maximumLocation = max[j + n]
    BY <1>2
  <2>2. CASE list.epochs = <<>>
    BY <1>2, <1>5, <2>2 DEF MaximumLocation
  <2>3. CASE list.epochs # <<>>
    <3>1. list.epochs \in Seq(EpochInfo) /\ Len(list.epochs) \in Nat
      BY <1>1, EpochListFields
    <3>2. Len(list.epochs) \in 1 .. len - n
      BY <1>2, <2>1, <2>3, <3>1, EmptySeq
    <3>3. list.epochs[Len(list.epochs)].maximumLocation
             = max[Len(list.epochs) + n]
          /\ Len(list.epochs) + n \in 1 .. len
      BY <2>1, <3>2
    <3>4. max[Len(list.epochs) + n] <= max[len]
      BY <1>2, <3>3
    <3> QED BY <1>2, <2>3, <3>3, <3>4 DEF MaximumLocation
  <2> QED BY <2>2, <2>3
<1>7. MaximumLocation(list) \in Nat
  BY <1>1, MaximumLocationOK
<1>8. CursorOK(list, start)
  <2>1. list.minimumLocation = ps.minimumLocation
    BY <1>2
  <2> QED BY <1>1, <1>3, <1>4, <1>5, <1>6, <1>7, <2>1, PlaceFacts DEF CursorOK
<1>9. StateFileOK(ps, start)
  BY <1>3, <1>4 DEF StateFileOK
<1> QED BY <1>8, <1>9 DEF list, start

(* Every slot holds what it held before, in the cache or on the device. *)
LEMMA CrashRings ==
    ASSUME IInv, Crash, NEW s \in Slots
    PROVE  /\ cache'[s] = cache[s] \/ cache'[s] = durable[s]
           /\ durable'[s] = cache[s] \/ durable'[s] = durable[s]
<1>1. CASE PowerFails
  <2>1. /\ \E lostSlots \in SUBSET {z \in Slots : cache[z] # durable[z]} :
              cache' = [z \in Slots |->
                  IF z \in lostSlots THEN durable[z] ELSE cache[z]]
        /\ durable' = cache'
    BY <1>1 DEF PowerFails
  <2> QED BY <2>1
<1>2. CASE ProcessKilled
  BY <1>2 DEF ProcessKilled
<1> QED BY <1>1, <1>2 DEF Crash

LEMMA CrashPlaces ==
    ASSUME IInv, PlacesInv, LocationsSuffice, Crash
    PROVE  PlacesInv'
<1>1. /\ el' = NewPersistentEpochList(persisted)
      /\ nextLocation' = RoundUpToSector(InitialLocation(persisted))
      /\ thread' = [t \in Threads |-> Idle]
      /\ pending' = persisted /\ persisted' = persisted
  BY DEF Crash
<1>2. CursorOK(el', nextLocation') /\ StateFileOK(persisted, nextLocation')
  BY <1>1, RestartPlaces DEF IInv, PlacesInv
<1>3. \A t \in Threads : thread'[t].pc \in Quiet
  BY <1>1 DEF Idle, Quiet
<1>4. \A t \in Threads : CallOK(thread'[t], el', nextLocation')
  BY <1>3, QuietCall, Zenon
<1>5. RingOK(cache') /\ RingOK(durable')
  BY CrashRings DEF RingOK, PlacesInv
<1> QED BY <1>1, <1>2, <1>4, <1>5, Zenon DEF PlacesInv

LEMMA InitPlaces ==
    ASSUME Init, LocationsSuffice
    PROVE  PlacesInv
<1>1. /\ el = NewPersistentEpochList(persisted)
      /\ nextLocation = RoundUpToSector(InitialLocation(persisted))
      /\ pending = persisted
      /\ PersistentStateOK(persisted)
  BY InitialStateOK DEF Init
<1>2. StateFileOK(persisted, FirstLocation)
  <2>1. persisted.minimumLocation = FirstLocation /\ Len(persisted.epochs) = 0
    BY EmptySeq DEF Init
  <2>2. InitialLocation(persisted) = FirstLocation
    BY <1>1, <2>1, ReloadFields
  <2>3. FirstLocation \in Nat /\ MaxAllocated \in Nat
    BY PlaceFacts DEF LocationsSuffice
  <2> QED BY <2>1, <2>2, <2>3 DEF StateFileOK, HighestEnd
<1>3. CursorOK(el, nextLocation) /\ StateFileOK(persisted, nextLocation)
  BY <1>1, <1>2, RestartPlaces
<1>4. \A t \in Threads : thread[t].pc \in Quiet
  BY DEF Init, Idle, Quiet
<1>5. \A t \in Threads : CallOK(thread[t], el, nextLocation)
  BY <1>4, QuietCall, Zenon
<1>6. RingOK(cache) /\ RingOK(durable)
  BY DEF Init, RingOK
<1> QED BY <1>1, <1>3, <1>5, <1>6, Zenon DEF PlacesInv
-----------------------------------------------------------------------------
(* What the records point to.  A record belongs to the epoch that has its  *)
(* seed, if there is one: epoch IDs are reused, seeds are not.             *)
ListSeedsOK(list, seed) ==
    /\ \A i \in 1 .. Len(list.epochs) : list.epochs[i].hashSeed < seed
    /\ \A i, j \in 1 .. Len(list.epochs) :
          list.epochs[i].hashSeed = list.epochs[j].hashSeed => i = j

(* Of the epochs that the state file lists, the list does not write to any *)
(* again: those that it still has are on disk.                             *)
FileSeedsOK(ps, list, seed) ==
    /\ \A i \in 1 .. Len(ps.epochs) : ps.epochs[i].hashSeed < seed
    /\ \A i, j \in 1 .. Len(ps.epochs) :
          ps.epochs[i].hashSeed = ps.epochs[j].hashSeed => i = j
    /\ \A i \in 1 .. Len(ps.epochs), j \in 1 .. Len(list.epochs) :
          ps.epochs[i].hashSeed = list.epochs[j].hashSeed =>
              j <= list.synchronizedEpochs

(* The record r of object o, if it belongs to an epoch of the list, points *)
(* at data in the cache c; if it belongs to one of the first n epochs, the *)
(* data is in d as well, which survives a power failure.                   *)
ListHolds(list, n, r, o, c, d) ==
    \A i \in 1 .. Len(list.epochs) :
        r.hashSeed = list.epochs[i].hashSeed =>
            /\ r.location + Size[o] <= list.epochs[i].maximumLocation
            /\ HoldsData(c, r.location, o)
            /\ i <= n => HoldsData(d, r.location, o)

FileHolds(ps, r, o, c, d) ==
    \A i \in 1 .. Len(ps.epochs) :
        r.hashSeed = ps.epochs[i].hashSeed =>
            /\ r.location + Size[o] <= ReloadedMaximum(ps)[i]
            /\ HoldsData(c, r.location, o)
            /\ HoldsData(d, r.location, o)

RecordOK(r, o, list, n, p, q, c, d, seed) ==
    r # NoRecord =>
        /\ r.hashSeed < seed
        /\ ListHolds(list, n, r, o, c, d)
        /\ FileHolds(p, r, o, c, d)
        /\ FileHolds(q, r, o, c, d)

(* The epochs whose data dataSyncer() has synchronized. *)
SyncedEpochs ==
    IF syncer \in {"synced", "finalSynced"}
    THEN el.synchronizingEpochs ELSE el.synchronizedEpochs

SeedsInv ==
    /\ ListSeedsOK(el, nextSeed)
    /\ FileSeedsOK(pending, el, nextSeed)
    /\ FileSeedsOK(persisted, el, nextSeed)

RecordsInv ==
    \A o \in Objects : \A r \in {rlm[o], rlmDisk[o]} :
        RecordOK(r, o, el, SyncedEpochs, pending, persisted, cache, durable,
                 nextSeed)

(* The calls that wait for the lock to finalize their write have written.  *)
WrittenInv ==
    \A t \in Threads : thread[t].pc = "finalize" =>
        HoldsData(cache, thread[t].location, thread[t].obj)

(* The inductive invariant. *)
SInv == IInv /\ PlacesInv /\ WrittenInv /\ SeedsInv /\ RecordsInv

-----------------------------------------------------------------------------
(* The list is pruned, raised and extended. *)
LEMMA FollowsSeeds ==
    ASSUME NEW list \in EpochListType, NEW res \in EpochListType,
           NEW n, NEW seed, Follows(list, res, n, seed),
           NEW s0 \in Nat, NEW s1 \in Nat, s0 <= s1,
           ListSeedsOK(list, s0),
           \A i \in 1 .. Len(list.epochs) : list.epochs[i].hashSeed # seed,
           \A j \in 1 .. Len(res.epochs) : res.epochs[j].hashSeed = seed =>
               seed < s1
    PROVE  ListSeedsOK(res, s1)
<1>1. /\ Len(list.epochs) \in Nat /\ Len(res.epochs) \in Nat /\ n \in Nat
      /\ \A i \in 1 .. Len(list.epochs) : list.epochs[i].hashSeed \in Nat
      /\ \A i \in 1 .. Len(res.epochs) : res.epochs[i].hashSeed \in Nat
  BY EpochListFields DEF Follows
<1>2. \A j \in 1 .. Len(res.epochs) :
          \/ /\ j + n \in 1 .. Len(list.epochs)
             /\ res.epochs[j].hashSeed = list.epochs[j + n].hashSeed
          \/ /\ j + n = Len(list.epochs) + 1
             /\ res.epochs[j].hashSeed = seed
  BY <1>1 DEF Follows
<1>3. \A j \in 1 .. Len(res.epochs) : res.epochs[j].hashSeed < s1
  <2> TAKE j \in 1 .. Len(res.epochs)
  <2>1. CASE /\ j + n \in 1 .. Len(list.epochs)
             /\ res.epochs[j].hashSeed = list.epochs[j + n].hashSeed
    <3>1. list.epochs[j + n].hashSeed < s0 /\ list.epochs[j + n].hashSeed \in Nat
      BY <1>1, <2>1 DEF ListSeedsOK
    <3> QED BY <2>1, <3>1
  <2>2. CASE res.epochs[j].hashSeed = seed
    BY <2>2
  <2> QED BY <1>2, <2>1, <2>2
<1>4. ASSUME NEW j \in 1 .. Len(res.epochs), NEW k \in 1 .. Len(res.epochs),
             res.epochs[j].hashSeed = res.epochs[k].hashSeed
      PROVE  j = k
  <2>1. CASE j + n \in 1 .. Len(list.epochs) /\ k + n \in 1 .. Len(list.epochs)
    <3>1. list.epochs[j + n].hashSeed = list.epochs[k + n].hashSeed
      BY <1>1, <1>2, <1>4, <2>1
    <3>2. j + n = k + n
      BY <2>1, <3>1 DEF ListSeedsOK
    <3> QED BY <1>1, <3>2
  <2>2. CASE ~(j + n \in 1 .. Len(list.epochs)) /\ ~(k + n \in 1 .. Len(list.epochs))
    BY <1>1, <1>2, <2>2
  <2>3. CASE j + n \in 1 .. Len(list.epochs) /\ ~(k + n \in 1 .. Len(list.epochs))
    BY <1>1, <1>2, <1>4, <2>3
  <2>4. CASE ~(j + n \in 1 .. Len(list.epochs)) /\ k + n \in 1 .. Len(list.epochs)
    BY <1>1, <1>2, <1>4, <2>4
  <2> QED BY <2>1, <2>2, <2>3, <2>4
<1> QED BY <1>3, <1>4 DEF ListSeedsOK

LEMMA FollowsFileSeeds ==
    ASSUME NEW list \in EpochListType, NEW res \in EpochListType,
           NEW n, NEW seed, Follows(list, res, n, seed),
           NEW s0 \in Nat, NEW s1 \in Nat, s0 <= s1,
           NEW ps, PersistentStateOK(ps), FileSeedsOK(ps, list, s0),
           \A i \in 1 .. Len(ps.epochs) : ps.epochs[i].hashSeed # seed
    PROVE  FileSeedsOK(ps, res, s1)
<1>1. /\ Len(list.epochs) \in Nat /\ Len(res.epochs) \in Nat /\ n \in Nat
      /\ list.synchronizedEpochs \in Nat
      /\ res.synchronizedEpochs = Monus(list.synchronizedEpochs, n)
  BY EpochListFields DEF Follows
<1>2. /\ Len(ps.epochs) \in Nat
      /\ \A i \in 1 .. Len(ps.epochs) : ps.epochs[i].hashSeed \in Nat
  <2>1. ps.epochs \in Seq(PersistedEpochInfo)
    BY DEF PersistentStateOK, PersistentStateType, PersistedEpochInfo
  <2>2. /\ Len(ps.epochs) \in Nat
        /\ \A i \in 1 .. Len(ps.epochs) : ps.epochs[i] \in PersistedEpochInfo
    BY <2>1
  <2> QED BY <2>2 DEF PersistedEpochInfo
<1>3. \A i \in 1 .. Len(ps.epochs) : ps.epochs[i].hashSeed < s1
  BY <1>2 DEF FileSeedsOK
<1>4. ASSUME NEW i \in 1 .. Len(ps.epochs), NEW j \in 1 .. Len(res.epochs),
             ps.epochs[i].hashSeed = res.epochs[j].hashSeed
      PROVE  j <= res.synchronizedEpochs
  <2>1. /\ j + n \in 1 .. Len(list.epochs)
        /\ res.epochs[j].hashSeed = list.epochs[j + n].hashSeed
    BY <1>1, <1>4 DEF Follows
  <2>2. j + n <= list.synchronizedEpochs
    BY <1>4, <2>1 DEF FileSeedsOK
  <2> QED BY <1>1, <2>2 DEF Monus
<1> QED BY <1>3, <1>4 DEF FileSeedsOK

LEMMA FollowsHolds ==
    ASSUME NEW list \in EpochListType, NEW res \in EpochListType,
           NEW n, NEW seed, Follows(list, res, n, seed),
           NEW m \in Nat, NEW o \in Objects, NEW r \in Records,
           NEW c, NEW d, ListHolds(list, m, r, o, c, d), r.hashSeed # seed
    PROVE  ListHolds(res, Monus(m, n), r, o, c, d)
<1>1. /\ Len(list.epochs) \in Nat /\ Len(res.epochs) \in Nat /\ n \in Nat
      /\ r.location \in Nat /\ Size[o] \in Nat
  BY EpochListFields, SizeFacts, LocationsAreNatural DEF Follows, Records
<1> SUFFICES ASSUME NEW j \in 1 .. Len(res.epochs),
                    r.hashSeed = res.epochs[j].hashSeed
             PROVE  /\ r.location + Size[o] <= res.epochs[j].maximumLocation
                    /\ HoldsData(c, r.location, o)
                    /\ j <= Monus(m, n) => HoldsData(d, r.location, o)
  BY DEF ListHolds
<1>2. /\ j + n \in 1 .. Len(list.epochs)
      /\ res.epochs[j].hashSeed = list.epochs[j + n].hashSeed
      /\ list.epochs[j + n].maximumLocation <= res.epochs[j].maximumLocation
  BY <1>1 DEF Follows
<1>3. /\ r.location + Size[o] <= list.epochs[j + n].maximumLocation
      /\ HoldsData(c, r.location, o)
      /\ j + n <= m => HoldsData(d, r.location, o)
  BY <1>2 DEF ListHolds
<1>4. list.epochs[j + n].maximumLocation \in Nat /\ res.epochs[j].maximumLocation \in Nat
  BY <1>2, EpochListFields
<1>5. r.location + Size[o] <= res.epochs[j].maximumLocation
  BY <1>1, <1>2, <1>3, <1>4, SMTT(60)
<1>6. j <= Monus(m, n) => j + n <= m
  BY <1>1 DEF Monus
<1> QED BY <1>3, <1>5, <1>6

LEMMA DataTypes ==
    ASSUME IInv
    PROVE  /\ el \in EpochListType /\ EpochListOK(el)
           /\ PersistentStateOK(pending) /\ PersistentStateOK(persisted)
           /\ nextSeed \in Nat
           /\ SyncedEpochs \in Nat /\ SyncedEpochs <= Len(el.epochs)
           /\ cache \in [Slots -> Bytes \cup {Null}]
           /\ durable \in [Slots -> Bytes \cup {Null}]
           /\ \A o \in Objects : \A r \in {rlm[o], rlmDisk[o]} :
                 r \in Records \cup {NoRecord}
<1>1. /\ el \in EpochListType /\ EpochListOK(el)
      /\ PersistentStateOK(pending) /\ PersistentStateOK(persisted)
      /\ nextSeed \in Nat
      /\ cache \in [Slots -> Bytes \cup {Null}]
      /\ durable \in [Slots -> Bytes \cup {Null}]
      /\ rlm \in [Objects -> Records \cup {NoRecord}]
      /\ rlmDisk \in [Objects -> Records \cup {NoRecord}]
  BY DEF IInv, TypeOK
<1>2. SyncedEpochs \in Nat /\ SyncedEpochs <= Len(el.epochs)
  BY <1>1, EpochListFields DEF SyncedEpochs, EpochListOK
<1>3. \A o \in Objects : \A r \in {rlm[o], rlmDisk[o]} :
                 r \in Records \cup {NoRecord}
  BY <1>1
<1> QED BY <1>1, <1>2, <1>3

LEMMA FileFields ==
    ASSUME NEW ps, PersistentStateOK(ps)
    PROVE  /\ Len(ps.epochs) \in Nat
           /\ \A i \in 1 .. Len(ps.epochs) : ps.epochs[i].hashSeed \in Nat
<1>1. ps.epochs \in Seq(PersistedEpochInfo)
  BY DEF PersistentStateOK, PersistentStateType, PersistedEpochInfo
<1>2. /\ Len(ps.epochs) \in Nat
      /\ \A i \in 1 .. Len(ps.epochs) : ps.epochs[i] \in PersistedEpochInfo
  BY <1>1
<1> QED BY <1>2 DEF PersistedEpochInfo

(* The list takes its next value; no record and no state file knows the    *)
(* seed of the epoch that may have been added.                             *)
LEMMA ListFollows ==
    ASSUME SInv, el' \in EpochListType,
           NEW n, NEW seed \in Int, Follows(el, el', n, seed),
           seed < 0 \/ seed >= nextSeed,
           nextSeed' \in Nat, nextSeed <= nextSeed',
           \A j \in 1 .. Len(el'.epochs) :
               el'.epochs[j].hashSeed = seed => seed < nextSeed',
           UNCHANGED <<syncer, pending, persisted, cache, durable>>
    PROVE  /\ SeedsInv'
           /\ \A o \in Objects : \A r \in Records \cup {NoRecord} :
                 RecordOK(r, o, el, SyncedEpochs, pending, persisted, cache,
                          durable, nextSeed) =>
                 RecordOK(r, o, el', SyncedEpochs', pending', persisted',
                          cache', durable', nextSeed')
<1>1. /\ el \in EpochListType
      /\ PersistentStateOK(pending) /\ PersistentStateOK(persisted)
      /\ nextSeed \in Nat /\ SyncedEpochs \in Nat
  BY DataTypes DEF SInv
<1>2. /\ ListSeedsOK(el, nextSeed)
      /\ FileSeedsOK(pending, el, nextSeed)
      /\ FileSeedsOK(persisted, el, nextSeed)
  BY DEF SInv, SeedsInv
<1>3. \A i \in 1 .. Len(el.epochs) : el.epochs[i].hashSeed # seed
  <2>1. \A i \in 1 .. Len(el.epochs) : /\ el.epochs[i].hashSeed \in Nat
                                       /\ el.epochs[i].hashSeed < nextSeed
    BY <1>1, <1>2, EpochListFields DEF ListSeedsOK
  <2> QED BY <1>1, <2>1
<1>4. ASSUME NEW ps, PersistentStateOK(ps), FileSeedsOK(ps, el, nextSeed)
      PROVE  \A i \in 1 .. Len(ps.epochs) : ps.epochs[i].hashSeed # seed
  <2>1. \A i \in 1 .. Len(ps.epochs) : /\ ps.epochs[i].hashSeed \in Nat
                                       /\ ps.epochs[i].hashSeed < nextSeed
    BY <1>4, FileFields DEF FileSeedsOK
  <2> QED BY <1>1, <2>1
<1>5. ListSeedsOK(el', nextSeed')
  BY <1>1, <1>2, <1>3, FollowsSeeds
<1>6. FileSeedsOK(pending, el', nextSeed') /\ FileSeedsOK(persisted, el', nextSeed')
  BY <1>1, <1>2, <1>4, FollowsFileSeeds
<1>7. SyncedEpochs' = Monus(SyncedEpochs, n)
  BY DEF SyncedEpochs, Follows
<1>8. ASSUME NEW o \in Objects, NEW r \in Records,
             RecordOK(r, o, el, SyncedEpochs, pending, persisted, cache,
                      durable, nextSeed),
             r # NoRecord
      PROVE  RecordOK(r, o, el', SyncedEpochs', pending, persisted, cache,
                      durable, nextSeed')
  <2>1. /\ r.hashSeed < nextSeed
        /\ ListHolds(el, SyncedEpochs, r, o, cache, durable)
        /\ FileHolds(pending, r, o, cache, durable)
        /\ FileHolds(persisted, r, o, cache, durable)
    BY <1>8 DEF RecordOK
  <2>2. r.hashSeed \in Nat
    BY DEF Records
  <2>3. r.hashSeed # seed /\ r.hashSeed < nextSeed'
    BY <1>1, <2>1, <2>2
  <2>4. ListHolds(el', SyncedEpochs', r, o, cache, durable)
    BY <1>1, <1>7, <2>1, <2>3, FollowsHolds
  <2> QED BY <2>1, <2>3, <2>4 DEF RecordOK
<1>9. ASSUME NEW o \in Objects
      PROVE  RecordOK(NoRecord, o, el', SyncedEpochs', pending, persisted, cache,
                      durable, nextSeed')
  BY DEF RecordOK
<1>10. SeedsInv'
  BY <1>5, <1>6, Zenon DEF SeedsInv
<1>11. pending' = pending /\ persisted' = persisted /\ cache' = cache
       /\ durable' = durable
  OBVIOUS
<1> QED BY <1>8, <1>9, <1>10, <1>11, Zenon

LEMMA DiscardCorruptedData ==
    ASSUME SInv, LocationsSuffice, NEW t \in Threads, DiscardCorrupted(t)
    PROVE  SeedsInv' /\ RecordsInv'
<1>1. PICK n : Follows(el, el', n, 0 - 1)
  BY DiscardCorruptedPlaces DEF SInv
<1>2. el' \in EpochListType
  BY DiscardCorruptedIInv DEF SInv, IInv, TypeOK
<1>3. UNCHANGED <<syncer, pending, persisted, cache, durable, rlm, rlmDisk, nextSeed>>
  BY DEF DiscardCorrupted, syncerVars, environmentVars
<1>4. nextSeed \in Nat
  BY DataTypes DEF SInv
<1>5. \A j \in 1 .. Len(el'.epochs) : el'.epochs[j].hashSeed # 0 - 1
  <2>1. \A j \in 1 .. Len(el'.epochs) : el'.epochs[j].hashSeed \in Nat
    BY <1>2, EpochListFields
  <2> QED BY <2>1
<1>6. /\ SeedsInv'
      /\ \A o \in Objects : \A r \in Records \cup {NoRecord} :
            RecordOK(r, o, el, SyncedEpochs, pending, persisted, cache,
                     durable, nextSeed) =>
            RecordOK(r, o, el', SyncedEpochs', pending', persisted',
                     cache', durable', nextSeed')
  <2>1. 0 - 1 \in Int /\ 0 - 1 < 0
    OBVIOUS
  <2>2. nextSeed' \in Nat /\ nextSeed <= nextSeed'
    BY <1>3, <1>4
  <2> QED BY <1>1, <1>2, <1>3, <1>5, <2>1, <2>2, ListFollows
<1>7. RecordsInv'
  <2>1. \A o \in Objects : \A r \in {rlm[o], rlmDisk[o]} :
            /\ r \in Records \cup {NoRecord}
            /\ RecordOK(r, o, el, SyncedEpochs, pending, persisted, cache,
                        durable, nextSeed)
    BY DataTypes DEF SInv, RecordsInv
  <2>2. rlm' = rlm /\ rlmDisk' = rlmDisk
    BY <1>3
  <2> QED BY <1>6, <2>1, <2>2, Zenon DEF RecordsInv
<1> QED BY <1>6, <1>7
(* An epoch that was just started is the last one, so its seed is counted  *)
(* as used.                                                                *)
LEMMA FreshSeedIsLast ==
    ASSUME SInv, NEW n, Follows(el, el', n, nextSeed), el' \in EpochListType,
           NEW j \in 1 .. Len(el'.epochs), el'.epochs[j].hashSeed = nextSeed
    PROVE  el'.epochs[Len(el'.epochs)].hashSeed = nextSeed
<1> DEFINE len == Len(el.epochs)
           k == Len(el'.epochs)
<1>1. /\ len \in Nat /\ k \in Nat /\ n \in Nat /\ nextSeed \in Nat
      /\ \A i \in 1 .. len : /\ el.epochs[i].hashSeed \in Nat
                             /\ el.epochs[i].hashSeed < nextSeed
  BY DataTypes, EpochListFields DEF SInv, Follows, SeedsInv, ListSeedsOK
<1>2. \A i \in 1 .. k :
          \/ /\ i + n <= len
             /\ el'.epochs[i].hashSeed = el.epochs[i + n].hashSeed
          \/ /\ i + n = len + 1
             /\ el'.epochs[i].hashSeed = nextSeed
  BY DEF Follows
<1> HIDE DEF len, k
<1>3. j \in 1 .. k /\ k \in 1 .. k /\ j <= k
  BY <1>1 DEF k
<1>4. ~(j + n <= len)
  <2> SUFFICES ASSUME j + n <= len PROVE FALSE
    OBVIOUS
  <2>1. el'.epochs[j].hashSeed = el.epochs[j + n].hashSeed /\ j + n \in 1 .. len
    BY <1>1, <1>2, <1>3
  <2> QED BY <1>1, <2>1
<1>5. k + n > len
  BY <1>1, <1>3, <1>4
<1>6. el'.epochs[k].hashSeed = nextSeed
  BY <1>1, <1>2, <1>3, <1>5
<1> QED BY <1>6 DEF k

LEMMA FinalizeWriteData ==
    ASSUME SInv, LocationsSuffice, NEW t \in Threads, FinalizeWrite(t)
    PROVE  SeedsInv' /\ RecordsInv'
<1> DEFINE o == thread[t].obj
           k == Len(el'.epochs)
           ok(r, q) == RecordOK(r, q, el, SyncedEpochs, pending, persisted,
                                cache, durable, nextSeed)
           okNext(r, q) == RecordOK(r, q, el', SyncedEpochs', pending',
                                    persisted', cache', durable', nextSeed')
<1>1. PICK n : Follows(el, el', n, nextSeed)
  BY FinalizeWritePlaces DEF SInv
<1>2. IInv'
  BY FinalizeWriteIInv DEF SInv
<1>3. el' \in EpochListType /\ EpochListOK(el') /\ HasCurrentEpoch(el')
  BY FinalizedOK DEF FinalizeWrite, SInv
<1>4. UNCHANGED <<syncer, pending, persisted, cache, durable, rlmDisk>>
  BY DEF FinalizeWrite, syncerVars, environmentVars
<1>5. nextSeed \in Nat /\ nextSeed' \in Nat /\ nextSeed <= nextSeed'
      /\ nextSeed' = IF el'.epochs[k].hashSeed = nextSeed
                     THEN nextSeed + 1 ELSE nextSeed
  BY DataTypes DEF SInv, FinalizeWrite
<1>6. \A j \in 1 .. k : el'.epochs[j].hashSeed = nextSeed => nextSeed < nextSeed'
  BY <1>1, <1>3, <1>5, FreshSeedIsLast
<1>7. /\ SeedsInv'
      /\ \A q \in Objects : \A r \in Records \cup {NoRecord} :
            ok(r, q) => okNext(r, q)
  <2>1. nextSeed \in Int /\ (nextSeed < 0 \/ nextSeed >= nextSeed)
    BY <1>5
  <2> QED BY <1>1, <1>3, <1>4, <1>5, <1>6, <2>1, ListFollows
<1>8. \A q \in Objects : \A r \in {rlm[q], rlmDisk[q]} : okNext(r, q)
  <2>1. \A q \in Objects : \A r \in {rlm[q], rlmDisk[q]} :
            r \in Records \cup {NoRecord} /\ ok(r, q)
    BY DataTypes DEF SInv, RecordsInv
  <2> HIDE DEF ok, okNext
  <2> QED BY <1>7, <2>1, Zenon
<1>9. thread[t].pc = "finalize" /\ rlm' = PutRecord(el', o, thread[t].location)
  BY DEF FinalizeWrite
<1>10. o \in Objects /\ thread[t].location \in Nat
  BY <1>9, PlaceTypes DEF SInv
<1> DEFINE epoch == el'.epochs[el'.synchronizingEpochs + 1]
           record == [epochID |-> CurrentEpochID(el'),
                      hashSeed |-> epoch.hashSeed,
                      location |-> thread[t].location]
<1>11. CASE rlm' = rlm
  <2>1. \A q \in Objects : \A r \in {rlm'[q], rlmDisk'[q]} : okNext(r, q)
    <3> HIDE DEF okNext
    <3> QED BY <1>4, <1>8, <1>11, Zenon
  <2> QED BY <1>7, <2>1, Zenon DEF RecordsInv
<1>12. CASE rlm' # rlm
  <2>1. /\ IsValidLocation(el'.minimumLocation, epoch.maximumLocation,
                           thread[t].location, Size[o])
        /\ rlm' = [rlm EXCEPT ![o] = record]
    BY <1>9, <1>12 DEF PutRecord
  <2>2. /\ k = el'.synchronizingEpochs + 1 /\ k \in 1 .. k /\ k \in Nat
        /\ el'.synchronizingEpochs \in Nat
        /\ epoch = el'.epochs[k]
        /\ el'.epochs[k].maximumLocation \in Nat
    BY <1>3, EpochListFields DEF HasCurrentEpoch
  <2>3. thread[t].location + Size[o] <= el'.epochs[k].maximumLocation
    BY <1>10, <2>1, <2>2, SizeFacts DEF IsValidLocation
  <2>4. record.hashSeed = el'.epochs[k].hashSeed
        /\ record.location = thread[t].location
    BY <2>2
  <2> HIDE DEF record, epoch, k
  <2>5. HoldsData(cache, record.location, o)
    BY <1>9, <2>4 DEF SInv, WrittenInv
  <2>6. SyncedEpochs' < k /\ el'.synchronizedEpochs < k
    BY <1>3, <2>2, EpochListFields DEF SyncedEpochs, EpochListOK
  <2>7. /\ ListSeedsOK(el', nextSeed')
        /\ FileSeedsOK(pending', el', nextSeed')
        /\ FileSeedsOK(persisted', el', nextSeed')
    BY <1>7 DEF SeedsInv
  <2>8. record.hashSeed < nextSeed'
    BY <2>2, <2>4, <2>7 DEF ListSeedsOK, k
  <2>9. ListHolds(el', SyncedEpochs', record, o, cache', durable')
    <3> SUFFICES ASSUME NEW i \in 1 .. Len(el'.epochs),
                        record.hashSeed = el'.epochs[i].hashSeed
                 PROVE  /\ record.location + Size[o]
                             <= el'.epochs[i].maximumLocation
                        /\ HoldsData(cache', record.location, o)
                        /\ i <= SyncedEpochs' =>
                              HoldsData(durable', record.location, o)
      BY DEF ListHolds
    <3>1. i = k
      BY <2>2, <2>4, <2>7 DEF ListSeedsOK, k
    <3>2. ~(i <= SyncedEpochs')
      <4>1. SyncedEpochs' \in Nat
        BY <1>3, EpochListFields DEF SyncedEpochs
      <4> QED BY <2>2, <2>6, <3>1, <4>1
    <3> QED BY <1>4, <2>3, <2>4, <2>5, <3>1, <3>2
  <2>10. ASSUME NEW ps, FileSeedsOK(ps, el', nextSeed')
         PROVE  FileHolds(ps, record, o, cache', durable')
    <3> SUFFICES ASSUME NEW i \in 1 .. Len(ps.epochs),
                        record.hashSeed = ps.epochs[i].hashSeed
                 PROVE  FALSE
      BY DEF FileHolds
    <3>1. k <= el'.synchronizedEpochs
      BY <2>2, <2>4, <2>10 DEF FileSeedsOK, k
    <3>2. el'.synchronizedEpochs \in Nat
      BY <1>3, EpochListFields
    <3> QED BY <2>2, <2>6, <3>1, <3>2
  <2>11. okNext(record, o)
    BY <2>7, <2>8, <2>9, <2>10 DEF RecordOK
  <2>12. \A q \in Objects : rlm'[q] = rlm[q] \/ (q = o /\ rlm'[q] = record)
    <3>1. rlm \in [Objects -> Records \cup {NoRecord}]
      BY DEF SInv, IInv, TypeOK
    <3> QED BY <2>1, <3>1
  <2>13. \A q \in Objects : \A r \in {rlm'[q], rlmDisk'[q]} : okNext(r, q)
    <3>1. rlmDisk' = rlmDisk
      BY <1>4
    <3> HIDE DEF okNext
    <3> QED BY <1>8, <2>11, <2>12, <3>1, Zenon
  <2> QED BY <1>7, <2>13, Zenon DEF RecordsInv
<1> QED BY <1>11, <1>12

LEMMA DataUnchanged ==
    ASSUME SInv,
           UNCHANGED <<el, syncer, pending, persisted, cache, durable, rlm,
                       rlmDisk, nextSeed>>
    PROVE  SeedsInv' /\ RecordsInv'
<1>1. SyncedEpochs' = SyncedEpochs
  BY DEF SyncedEpochs
<1>2. /\ el' = el /\ pending' = pending /\ persisted' = persisted
      /\ cache' = cache /\ durable' = durable /\ nextSeed' = nextSeed
      /\ rlm' = rlm /\ rlmDisk' = rlmDisk
  OBVIOUS
<1>3. SeedsInv'
  BY <1>2, Zenon DEF SInv, SeedsInv
<1>4. RecordsInv'
  BY <1>1, <1>2, Zenon DEF SInv, RecordsInv
<1> QED BY <1>3, <1>4

(* A record that belongs to an epoch points behind the cursor. *)
LEMMA RecordBehindCursor ==
    ASSUME IInv, PlacesInv, LocationsSuffice, NEW r \in Records,
           NEW o \in Objects, NEW n, NEW c, NEW d
    PROVE  /\ \A i \in 1 .. Len(el.epochs) :
                 /\ r.hashSeed = el.epochs[i].hashSeed
                 /\ ListHolds(el, n, r, o, c, d)
                 => r.location + Size[o] <= nextLocation
           /\ \A ps \in {pending, persisted} : \A i \in 1 .. Len(ps.epochs) :
                 /\ r.hashSeed = ps.epochs[i].hashSeed
                 /\ FileHolds(ps, r, o, c, d)
                 => r.location + Size[o] <= nextLocation
<1>1. r.location \in Nat /\ Size[o] \in Nat
  BY SizeFacts, LocationsAreNatural DEF Records
<1>2. nextLocation \in Nat /\ MaximumLocation(el) \in Nat
      /\ MaximumLocation(el) <= nextLocation
  BY PlaceTypes DEF PlacesInv, CursorOK
<1>3. ASSUME NEW i \in 1 .. Len(el.epochs),
             r.hashSeed = el.epochs[i].hashSeed,
             ListHolds(el, n, r, o, c, d)
      PROVE  r.location + Size[o] <= nextLocation
  <2>1. r.location + Size[o] <= el.epochs[i].maximumLocation
    BY <1>3 DEF ListHolds
  <2>2. el.epochs[i].maximumLocation <= MaximumLocation(el)
        /\ el.epochs[i].maximumLocation \in Nat
    BY PlaceTypes, MaximumLocationOK, EpochListFields
  <2> QED BY <1>1, <1>2, <2>1, <2>2
<1>4. ASSUME NEW ps \in {pending, persisted}, NEW i \in 1 .. Len(ps.epochs),
             r.hashSeed = ps.epochs[i].hashSeed,
             FileHolds(ps, r, o, c, d)
      PROVE  r.location + Size[o] <= nextLocation
  <2>1. r.location + Size[o] <= ReloadedMaximum(ps)[i]
    BY <1>4 DEF FileHolds
  <2>2. PersistentStateOK(ps) /\ StateFileOK(ps, nextLocation)
    BY <1>4 DEF PlacesInv, IInv
  <2>3. /\ Len(ps.epochs) \in Nat
        /\ \A k \in 0 .. Len(ps.epochs) : ReloadedMaximum(ps)[k] \in Nat
        /\ \A k, j \in 0 .. Len(ps.epochs) : k <= j =>
              ReloadedMaximum(ps)[k] <= ReloadedMaximum(ps)[j]
        /\ InitialLocation(ps) = ReloadedMaximum(ps)[Len(ps.epochs)]
    BY <2>2, ReloadFields
  <2>4. /\ i \in 0 .. Len(ps.epochs) /\ i <= Len(ps.epochs)
        /\ Len(ps.epochs) \in 0 .. Len(ps.epochs)
    BY <2>3
  <2>5. /\ ReloadedMaximum(ps)[i] \in Nat
        /\ ReloadedMaximum(ps)[i] <= InitialLocation(ps)
        /\ InitialLocation(ps) \in Nat
    BY <2>3, <2>4
  <2>6. InitialLocation(ps) <= nextLocation
    BY <2>2 DEF StateFileOK
  <2> QED BY <1>1, <1>2, <2>1, <2>5, <2>6
<1> QED BY <1>3, <1>4

(* The rings change, but not what is behind the cursor. *)
LEMMA RingsChange ==
    ASSUME SInv, LocationsSuffice,
           UNCHANGED <<el, syncer, pending, persisted, durable, rlm, rlmDisk,
                       nextSeed>>,
           \A q \in Objects, y \in Nat :
               /\ y + Size[q] <= nextLocation
               /\ HoldsData(cache, y, q)
               => HoldsData(cache', y, q)
    PROVE  SeedsInv' /\ RecordsInv'
<1>1. SyncedEpochs' = SyncedEpochs
  BY DEF SyncedEpochs
<1>2. /\ el' = el /\ pending' = pending /\ persisted' = persisted
      /\ durable' = durable /\ nextSeed' = nextSeed
      /\ rlm' = rlm /\ rlmDisk' = rlmDisk
  OBVIOUS
<1>3. SeedsInv'
  BY <1>2, Zenon DEF SInv, SeedsInv
<1>4. ASSUME NEW o \in Objects, NEW r \in {rlm[o], rlmDisk[o]}
      PROVE  RecordOK(r, o, el, SyncedEpochs, pending, persisted, cache',
                      durable, nextSeed)
  <2>1. r \in Records \cup {NoRecord}
    BY DataTypes DEF SInv
  <2>2. CASE r = NoRecord
    BY <2>2 DEF RecordOK
  <2>3. CASE r # NoRecord
    <3>1. r \in Records /\ r.location \in Nat
      BY <2>1, <2>3, LocationsAreNatural DEF Records
    <3>2. /\ r.hashSeed < nextSeed
          /\ ListHolds(el, SyncedEpochs, r, o, cache, durable)
          /\ FileHolds(pending, r, o, cache, durable)
          /\ FileHolds(persisted, r, o, cache, durable)
      BY <2>3 DEF SInv, RecordsInv, RecordOK
    <3>3. ListHolds(el, SyncedEpochs, r, o, cache', durable)
      <4>1. \A i \in 1 .. Len(el.epochs) : r.hashSeed = el.epochs[i].hashSeed =>
               r.location + Size[o] <= nextLocation
        BY <3>1, <3>2, RecordBehindCursor DEF SInv
      <4> QED BY <3>1, <3>2, <4>1 DEF ListHolds
    <3>4. ASSUME NEW ps \in {pending, persisted}, FileHolds(ps, r, o, cache, durable)
          PROVE  FileHolds(ps, r, o, cache', durable)
      <4>1. \A i \in 1 .. Len(ps.epochs) : r.hashSeed = ps.epochs[i].hashSeed =>
               r.location + Size[o] <= nextLocation
        BY <3>1, <3>4, RecordBehindCursor DEF SInv
      <4> QED BY <3>1, <3>4, <4>1 DEF FileHolds
    <3> QED BY <3>2, <3>3, <3>4 DEF RecordOK
  <2> QED BY <2>2, <2>3
<1>5. RecordsInv'
  BY <1>1, <1>2, <1>4, Zenon DEF RecordsInv
<1> QED BY <1>3, <1>5

LEMMA CorruptHolds ==
    ASSUME IInv, NEW s \in Slots, Corrupt(s), NEW q \in Objects, NEW y \in Nat,
           HoldsData(cache, y, q)
    PROVE  HoldsData(cache', y, q)
<1> SUFFICES ASSUME NEW k \in 0 .. Size[q] - 1
             PROVE  Solid(cache', y + k)
  BY DEF HoldsData
<1>1. Solid(cache, y + k)
  BY DEF HoldsData
<1>2. y + k \in Nat
  BY SizeFacts
<1>3. (y + k) % Ring \in Slots
  BY <1>2, RingFacts
<1> QED BY <1>1, <1>3, CorruptLocations DEF Solid

LEMMA CorruptData ==
    ASSUME SInv, LocationsSuffice, NEW s \in Slots, Corrupt(s)
    PROVE  SeedsInv' /\ RecordsInv'
<1>1. UNCHANGED <<el, syncer, pending, persisted, durable, rlm, rlmDisk, nextSeed>>
  BY DEF Corrupt, syncerVars
<1>2. IInv
  BY DEF SInv
<1> QED BY <1>1, <1>2, CorruptHolds, RingsChange

(* A write leaves alone what is behind the cursor, as it is less than a    *)
(* lap behind it.                                                          *)
LEMMA WriteDataHolds ==
    ASSUME IInv, PlacesInv, LocationsSuffice, NEW t \in Threads, WriteData(t),
           NEW q \in Objects, NEW y \in Nat,
           y + Size[q] <= nextLocation, HoldsData(cache, y, q)
    PROVE  HoldsData(cache', y, q)
<1> DEFINE o == thread[t].obj
           location == thread[t].location
<1>1. thread[t] \in ActiveThread /\ thread[t].pc = "write"
  BY NotIdle DEF IInv, WriteData
<1>2. o \in Objects /\ location \in Nat
  BY <1>1, PlaceTypes
<1>3. nextLocation <= FirstWritten(location) + Ring
  BY <1>1 DEF PlacesInv, CallOK
<1>4. y + Size[q] <= FirstWritten(location) + Ring
  BY <1>2, <1>3, SizeFacts, PlaceTypes, FirstWrittenFacts, RingFacts
<1>5. cache \in [Slots -> Bytes \cup {Null}]
  BY DEF IInv, TypeOK
<1>6. HoldsData(WrittenRing(cache, o, location), y, q)
  BY <1>2, <1>4, <1>5, HoldsAfterWrite
<1>7. cache' = cache \/ cache' = WrittenRing(cache, o, location)
  BY DEF WriteData
<1> QED BY <1>6, <1>7, Zenon

LEMMA WriteDataData ==
    ASSUME SInv, LocationsSuffice, NEW t \in Threads, WriteData(t)
    PROVE  SeedsInv' /\ RecordsInv'
<1>1. UNCHANGED <<el, syncer, pending, persisted, durable, rlm, rlmDisk, nextSeed>>
  BY DEF WriteData, syncerVars, environmentVars
<1>2. IInv /\ PlacesInv
  BY DEF SInv
<1> QED BY <1>1, <1>2, WriteDataHolds, RingsChange

(* The epochs stay what they are; more of them are on disk, or known to    *)
(* be, than before.                                                        *)
LEMMA SyncedEpochsGrow ==
    ASSUME SInv, el'.epochs = el.epochs,
           el'.synchronizedEpochs \in Nat,
           el.synchronizedEpochs <= el'.synchronizedEpochs,
           SyncedEpochs' = SyncedEpochs,
           UNCHANGED <<pending, persisted, cache, durable, rlm, rlmDisk, nextSeed>>
    PROVE  SeedsInv' /\ RecordsInv'
<1>1. /\ pending' = pending /\ persisted' = persisted
      /\ cache' = cache /\ durable' = durable /\ nextSeed' = nextSeed
      /\ rlm' = rlm /\ rlmDisk' = rlmDisk
  OBVIOUS
<1>2. el.synchronizedEpochs \in Nat /\ Len(el.epochs) \in Nat
  BY DataTypes, EpochListFields DEF SInv
<1>3. ListSeedsOK(el', nextSeed)
  BY DEF SInv, SeedsInv, ListSeedsOK
<1>4. ASSUME NEW ps, FileSeedsOK(ps, el, nextSeed)
      PROVE  FileSeedsOK(ps, el', nextSeed)
  BY <1>2, <1>4 DEF FileSeedsOK
<1>5. SeedsInv'
  BY <1>1, <1>3, <1>4, Zenon DEF SInv, SeedsInv
<1>6. ASSUME NEW o, NEW r,
             RecordOK(r, o, el, SyncedEpochs, pending, persisted, cache,
                      durable, nextSeed)
      PROVE  RecordOK(r, o, el', SyncedEpochs, pending, persisted, cache,
                      durable, nextSeed)
  <2>1. ListHolds(el, SyncedEpochs, r, o, cache, durable) =>
        ListHolds(el', SyncedEpochs, r, o, cache, durable)
    BY Zenon DEF ListHolds
  <2> QED BY <1>6, <2>1, Zenon DEF RecordOK
<1>7. RecordsInv'
  BY <1>1, <1>6, Zenon DEF SInv, RecordsInv
<1> QED BY <1>5, <1>7

LEMMA NotifySyncFields ==
    ASSUME NEW list \in EpochListType, NEW final \in BOOLEAN
    PROVE  /\ NotifySyncStarting(list, final).epochs = list.epochs
           /\ NotifySyncStarting(list, final).minimumEpochID = list.minimumEpochID
           /\ NotifySyncStarting(list, final).minimumLocation = list.minimumLocation
           /\ NotifySyncStarting(list, final).synchronizingEpochs = Len(list.epochs)
           /\ NotifySyncStarting(list, final).synchronizedEpochs
                 = list.synchronizedEpochs
           /\ NotifySyncStarting(list, final).closedForWriting
                 = (list.closedForWriting \/ final)
           /\ NotifySyncCompleted(list).epochs = list.epochs
           /\ NotifySyncCompleted(list).minimumEpochID = list.minimumEpochID
           /\ NotifySyncCompleted(list).minimumLocation = list.minimumLocation
           /\ NotifySyncCompleted(list).synchronizingEpochs
                 = list.synchronizingEpochs
           /\ NotifySyncCompleted(list).synchronizedEpochs
                 = list.synchronizingEpochs
           /\ NotifySyncCompleted(list).closedForWriting = list.closedForWriting
  BY DEF NotifySyncStarting, NotifySyncCompleted, EpochListType

LEMMA NotifyData ==
    ASSUME SInv, \/ WakeUp \/ DelayElapses \/ ContextDone \/ StartSync
                 \/ CompleteSync \/ CompleteFinalSync
    PROVE  SeedsInv' /\ RecordsInv'
<1>1. el \in EpochListType /\ EpochListOK(el)
  BY DataTypes DEF SInv
<1>2. el.synchronizedEpochs \in Nat /\ el.synchronizingEpochs \in Nat
      /\ el.synchronizedEpochs <= el.synchronizingEpochs
  BY <1>1, EpochListFields DEF EpochListOK
<1>3. UNCHANGED <<pending, persisted, cache, durable, rlm, rlmDisk, nextSeed>>
  BY DEF WakeUp, DelayElapses, ContextDone, StartSync, CompleteSync,
         CompleteFinalSync, storeVars, environmentVars
<1>4. NotifySyncCompleted(el) \in EpochListType
  BY <1>1, NotifySyncCompletedOK
<1>5. CASE WakeUp \/ DelayElapses \/ ContextDone
  <2>1. el' = el /\ syncer' \notin {"synced", "finalSynced"}
        /\ syncer \notin {"synced", "finalSynced"}
    BY <1>5 DEF WakeUp, DelayElapses, ContextDone
  <2> QED BY <1>2, <1>3, <2>1, SyncedEpochsGrow DEF SyncedEpochs
<1>6. CASE StartSync
  <2>1. /\ el' = NotifySyncStarting(el, FALSE)
        /\ syncer = "starting" /\ syncer' = "syncing"
    BY <1>6 DEF StartSync
  <2>2. el'.epochs = el.epochs /\ el'.synchronizedEpochs = el.synchronizedEpochs
    BY <1>1, <2>1, NotifySyncFields
  <2>3. SyncedEpochs' = SyncedEpochs
    BY <2>1, <2>2 DEF SyncedEpochs
  <2> QED BY <1>2, <1>3, <2>2, <2>3, SyncedEpochsGrow
<1>7. CASE CompleteSync \/ CompleteFinalSync
  <2>1. /\ syncer \in {"synced", "finalSynced"}
        /\ syncer' \in {"reading", "finalSyncing"}
        /\ \/ el' = NotifySyncCompleted(el)
           \/ el' = NotifySyncStarting(NotifySyncCompleted(el), TRUE)
    BY <1>7 DEF CompleteSync, CompleteFinalSync
  <2>2. el'.epochs = el.epochs /\ el'.synchronizedEpochs = el.synchronizingEpochs
    <3>1. CASE el' = NotifySyncCompleted(el)
      BY <1>1, <3>1, NotifySyncFields
    <3>2. CASE el' = NotifySyncStarting(NotifySyncCompleted(el), TRUE)
      <4> DEFINE list == NotifySyncCompleted(el)
      <4>1. /\ list.epochs = el.epochs
            /\ list.synchronizedEpochs = el.synchronizingEpochs
        BY <1>1, NotifySyncFields
      <4>2. list \in EpochListType /\ TRUE \in BOOLEAN
        BY <1>4
      <4> HIDE DEF list
      <4>3. /\ NotifySyncStarting(list, TRUE).epochs = list.epochs
            /\ NotifySyncStarting(list, TRUE).synchronizedEpochs
                  = list.synchronizedEpochs
        BY <4>2, NotifySyncFields
      <4> QED BY <3>2, <4>1, <4>3 DEF list
    <3> QED BY <2>1, <3>1, <3>2
  <2>3. SyncedEpochs' = SyncedEpochs
    BY <2>1, <2>2 DEF SyncedEpochs
  <2> QED BY <1>2, <1>3, <2>2, <2>3, SyncedEpochsGrow
<1> QED BY <1>5, <1>6, <1>7

LEMMA SyncDataData ==
    ASSUME SInv, SyncData
    PROVE  SeedsInv' /\ RecordsInv'
<1>1. /\ el' = el /\ pending' = pending /\ persisted' = persisted
      /\ cache' = cache /\ durable' = cache /\ nextSeed' = nextSeed
      /\ rlm' = rlm /\ rlmDisk' = rlmDisk
  BY DEF SyncData, storeVars, environmentVars
<1>2. SeedsInv'
  BY <1>1, Zenon DEF SInv, SeedsInv
<1>3. ASSUME NEW o, NEW r,
             RecordOK(r, o, el, SyncedEpochs, pending, persisted, cache,
                      durable, nextSeed)
      PROVE  RecordOK(r, o, el, SyncedEpochs', pending, persisted, cache,
                      cache, nextSeed)
  <2>1. ListHolds(el, SyncedEpochs, r, o, cache, durable) =>
        ListHolds(el, SyncedEpochs', r, o, cache, cache)
    BY Zenon DEF ListHolds
  <2>2. ASSUME NEW ps, FileHolds(ps, r, o, cache, durable)
        PROVE  FileHolds(ps, r, o, cache, cache)
    BY <2>2, Zenon DEF FileHolds
  <2> QED BY <1>3, <2>1, <2>2, Zenon DEF RecordOK
<1>4. RecordsInv'
  BY <1>1, <1>3, Zenon DEF SInv, RecordsInv
<1> QED BY <1>2, <1>4

LEMMA ReadPersistentStateData ==
    ASSUME SInv, ReadPersistentState
    PROVE  SeedsInv' /\ RecordsInv'
<1> DEFINE ps == GetPersistentState(el)
<1>1. /\ el' = el /\ pending' = ps /\ persisted' = persisted
      /\ cache' = cache /\ durable' = durable /\ nextSeed' = nextSeed
      /\ rlm' = rlm /\ rlmDisk' = rlmDisk
      /\ syncer = "reading" /\ syncer' = "writing"
  BY DEF ReadPersistentState, storeVars, environmentVars
<1>2. el \in EpochListType /\ EpochListOK(el)
  BY DataTypes DEF SInv
<1>3. /\ Len(ps.epochs) = el.synchronizedEpochs
      /\ \A i \in 1 .. Len(ps.epochs) :
            /\ i \in 1 .. Len(el.epochs)
            /\ ps.epochs[i].hashSeed = el.epochs[i].hashSeed
            /\ ReloadedMaximum(ps)[i] = el.epochs[i].maximumLocation
  BY <1>2, SavedState
<1> HIDE DEF ps
<1>4. /\ el.synchronizedEpochs \in Nat
      /\ SyncedEpochs = el.synchronizedEpochs /\ SyncedEpochs' = SyncedEpochs
  BY <1>1, <1>2, EpochListFields DEF SyncedEpochs
<1>5. FileSeedsOK(ps, el, nextSeed)
  <2>1. ListSeedsOK(el, nextSeed)
    BY DEF SInv, SeedsInv
  <2>2. \A i \in 1 .. Len(ps.epochs), j \in 1 .. Len(el.epochs) :
           ps.epochs[i].hashSeed = el.epochs[j].hashSeed =>
               j <= el.synchronizedEpochs
    <3>1. ASSUME NEW i \in 1 .. Len(ps.epochs), NEW j \in 1 .. Len(el.epochs),
                 ps.epochs[i].hashSeed = el.epochs[j].hashSeed
          PROVE  j <= el.synchronizedEpochs
      <4>1. i = j
        BY <1>3, <2>1, <3>1 DEF ListSeedsOK
      <4> QED BY <1>3, <1>4, <4>1
    <3> QED BY <3>1
  <2>3. \A i \in 1 .. Len(ps.epochs) : ps.epochs[i].hashSeed < nextSeed
    BY <1>3, <2>1 DEF ListSeedsOK
  <2>4. \A i, j \in 1 .. Len(ps.epochs) :
          ps.epochs[i].hashSeed = ps.epochs[j].hashSeed => i = j
    BY <1>3, <2>1 DEF ListSeedsOK
  <2> QED BY <2>2, <2>3, <2>4 DEF FileSeedsOK
<1>6. SeedsInv'
  BY <1>1, <1>5, Zenon DEF SInv, SeedsInv
<1>7. ASSUME NEW o, NEW r,
             RecordOK(r, o, el, SyncedEpochs, pending, persisted, cache,
                      durable, nextSeed)
      PROVE  RecordOK(r, o, el, SyncedEpochs, ps, persisted, cache,
                      durable, nextSeed)
  <2>1. ASSUME ListHolds(el, SyncedEpochs, r, o, cache, durable)
        PROVE  FileHolds(ps, r, o, cache, durable)
    <3> SUFFICES ASSUME NEW i \in 1 .. Len(ps.epochs),
                        r.hashSeed = ps.epochs[i].hashSeed
                 PROVE  /\ r.location + Size[o] <= ReloadedMaximum(ps)[i]
                        /\ HoldsData(cache, r.location, o)
                        /\ HoldsData(durable, r.location, o)
      BY DEF FileHolds
    <3>1. i \in 1 .. Len(el.epochs) /\ i <= SyncedEpochs
      BY <1>3, <1>4
    <3>2. r.hashSeed = el.epochs[i].hashSeed
          /\ ReloadedMaximum(ps)[i] = el.epochs[i].maximumLocation
      BY <1>3
    <3> QED BY <2>1, <3>1, <3>2 DEF ListHolds
  <2> QED BY <1>7, <2>1, Zenon DEF RecordOK
<1>8. RecordsInv'
  BY <1>1, <1>4, <1>7, Zenon DEF SInv, RecordsInv
<1> QED BY <1>6, <1>8

LEMMA WritePersistentStateData ==
    ASSUME SInv, WritePersistentState \/ WritePersistentStateFails
    PROVE  SeedsInv' /\ RecordsInv'
<1>1. /\ el' = el /\ pending' = pending
      /\ persisted' = persisted \/ persisted' = pending
      /\ cache' = cache /\ durable' = durable /\ nextSeed' = nextSeed
      /\ rlm' = rlm /\ rlmDisk' = rlmDisk
  BY DEF WritePersistentState, WritePersistentStateFails, storeVars,
         environmentVars
<1>2. SyncedEpochs' = SyncedEpochs
  <2>1. syncer = "writing" /\ syncer' \in {"waiting", "stopped", "reading"}
    BY DEF WritePersistentState, WritePersistentStateFails
  <2> QED BY <1>1, <2>1 DEF SyncedEpochs
<1>3. SeedsInv'
  BY <1>1, Zenon DEF SInv, SeedsInv
<1>4. ASSUME NEW o, NEW r,
             RecordOK(r, o, el, SyncedEpochs, pending, persisted, cache,
                      durable, nextSeed)
      PROVE  RecordOK(r, o, el, SyncedEpochs, pending, persisted', cache,
                      durable, nextSeed)
  BY <1>1, <1>4, Zenon DEF RecordOK
<1>5. RecordsInv'
  BY <1>1, <1>2, <1>4, Zenon DEF SInv, RecordsInv
<1> QED BY <1>3, <1>5

LEMMA SyncerData ==
    ASSUME SInv, SyncerStep
    PROVE  SeedsInv' /\ RecordsInv'
  BY NotifyData, SyncDataData, ReadPersistentStateData,
     WritePersistentStateData DEF SyncerStep

(* What was both in the cache and on the device is still there. *)
LEMMA CrashHolds ==
    ASSUME IInv, Crash, NEW q \in Objects, NEW y \in Nat,
           HoldsData(cache, y, q), HoldsData(durable, y, q)
    PROVE  HoldsData(cache', y, q) /\ HoldsData(durable', y, q)
<1> SUFFICES ASSUME NEW k \in 0 .. Size[q] - 1
             PROVE  Solid(cache', y + k) /\ Solid(durable', y + k)
  BY DEF HoldsData
<1>1. Solid(cache, y + k) /\ Solid(durable, y + k)
  BY DEF HoldsData
<1>2. y + k \in Nat
  BY SizeFacts
<1>3. (y + k) % Ring \in Slots
  BY <1>2, RingFacts
<1> QED BY <1>1, <1>3, CrashRings DEF Solid

LEMMA CrashRecords ==
    ASSUME IInv, Crash, NEW o \in Objects, NEW r \in {rlm'[o], rlmDisk'[o]}
    PROVE  r \in {rlm[o], rlmDisk[o]}
<1>1. CASE PowerFails
  <2>1. /\ \E lostRecords \in SUBSET {z \in Objects : rlm[z] # rlmDisk[z]} :
              rlm' = [z \in Objects |->
                  IF z \in lostRecords THEN rlmDisk[z] ELSE rlm[z]]
        /\ rlmDisk' = rlm'
    BY <1>1 DEF PowerFails
  <2> QED BY <2>1
<1>2. CASE ProcessKilled
  BY <1>2 DEF ProcessKilled
<1> QED BY <1>1, <1>2 DEF Crash

(* Only what the state file lists is left, and it is on the device. *)
LEMMA CrashData ==
    ASSUME SInv, Crash
    PROVE  SeedsInv' /\ RecordsInv'
<1> DEFINE ps == persisted
           max == ReloadedMaximum(ps)
           len == Len(ps.epochs)
<1>0. IInv /\ PersistentStateOK(ps) /\ FileSeedsOK(ps, el, nextSeed)
  BY DEF SInv, IInv, SeedsInv
<1>1. /\ el' = NewPersistentEpochList(ps)
      /\ pending' = ps /\ persisted' = ps /\ nextSeed' = nextSeed
      /\ syncer' = "waiting"
  BY DEF Crash
<1>2. /\ len \in Nat
      /\ el'.synchronizingEpochs = Len(el'.epochs)
      /\ el'.synchronizedEpochs = Len(el'.epochs)
      /\ \E n \in 0 .. len :
            /\ Len(el'.epochs) = len - n
            /\ \A j \in 1 .. len - n :
                  /\ j + n \in 1 .. len
                  /\ el'.epochs[j].hashSeed = ps.epochs[j + n].hashSeed
                  /\ el'.epochs[j].maximumLocation = max[j + n]
  <2>1. PersistentStateOK(ps)
    BY <1>0
  <2> DEFINE res == NewPersistentEpochList(ps)
  <2>2. /\ len \in Nat
        /\ res.synchronizingEpochs = Len(res.epochs)
        /\ res.synchronizedEpochs = Len(res.epochs)
        /\ \E n \in 0 .. len :
              /\ Len(res.epochs) = len - n
              /\ \A j \in 1 .. len - n :
                    /\ j + n \in 1 .. len
                    /\ res.epochs[j].hashSeed = ps.epochs[j + n].hashSeed
                    /\ res.epochs[j].maximumLocation = max[j + n]
    BY <2>1, ReloadFields
  <2>3. el' = res
    BY <1>1
  <2> HIDE DEF res
  <2> QED BY <2>2, <2>3
<1>3. PICK n \in 0 .. len :
            /\ Len(el'.epochs) = len - n
            /\ \A j \in 1 .. len - n :
                  /\ j + n \in 1 .. len
                  /\ el'.epochs[j].hashSeed = ps.epochs[j + n].hashSeed
                  /\ el'.epochs[j].maximumLocation = max[j + n]
  BY <1>2
<1> HIDE DEF max, len
<1>4. ListSeedsOK(el', nextSeed)
  <2>1. \A i \in 1 .. Len(el'.epochs) : el'.epochs[i].hashSeed < nextSeed
    BY <1>0, <1>3 DEF FileSeedsOK, len
  <2>2. ASSUME NEW i \in 1 .. Len(el'.epochs), NEW j \in 1 .. Len(el'.epochs),
               el'.epochs[i].hashSeed = el'.epochs[j].hashSeed
        PROVE  i = j
    <3>1. /\ i + n \in 1 .. len /\ j + n \in 1 .. len
          /\ ps.epochs[i + n].hashSeed = ps.epochs[j + n].hashSeed
      BY <1>3, <2>2
    <3>2. i + n = j + n
      BY <1>0, <3>1 DEF FileSeedsOK, len
    <3> QED BY <1>2, <1>3, <3>2
  <2> QED BY <2>1, <2>2 DEF ListSeedsOK
<1>5. FileSeedsOK(ps, el', nextSeed)
  <2>1. \A j \in 1 .. Len(el'.epochs) : j <= el'.synchronizedEpochs
    BY <1>2, <1>3
  <2> QED BY <1>0, <2>1 DEF FileSeedsOK
<1>6. SeedsInv'
  BY <1>1, <1>4, <1>5, Zenon DEF SeedsInv
<1>7. ASSUME NEW o \in Objects, NEW r \in {rlm[o], rlmDisk[o]}
      PROVE  RecordOK(r, o, el', SyncedEpochs', ps, ps, cache', durable', nextSeed)
  <2>1. r \in Records \cup {NoRecord}
    BY DataTypes DEF SInv
  <2>2. CASE r = NoRecord
    BY <2>2 DEF RecordOK
  <2>3. CASE r # NoRecord
    <3>1. r \in Records /\ r.location \in Nat
      BY <2>1, <2>3, LocationsAreNatural DEF Records
    <3>2. /\ r.hashSeed < nextSeed
          /\ FileHolds(ps, r, o, cache, durable)
      BY <2>3 DEF SInv, RecordsInv, RecordOK
    <3>3. FileHolds(ps, r, o, cache', durable')
      BY <1>0, <3>1, <3>2, CrashHolds DEF FileHolds
    <3>4. ListHolds(el', SyncedEpochs', r, o, cache', durable')
      <4> SUFFICES ASSUME NEW i \in 1 .. Len(el'.epochs),
                          r.hashSeed = el'.epochs[i].hashSeed
                   PROVE  /\ r.location + Size[o] <= el'.epochs[i].maximumLocation
                          /\ HoldsData(cache', r.location, o)
                          /\ HoldsData(durable', r.location, o)
        BY Zenon DEF ListHolds
      <4>1. /\ i + n \in 1 .. Len(ps.epochs)
            /\ r.hashSeed = ps.epochs[i + n].hashSeed
            /\ el'.epochs[i].maximumLocation = ReloadedMaximum(ps)[i + n]
        BY <1>3 DEF len, max
      <4> QED BY <3>3, <4>1 DEF FileHolds
    <3> QED BY <3>2, <3>3, <3>4 DEF RecordOK
  <2> QED BY <2>2, <2>3
<1>8. RecordsInv'
  <2>1. \A o \in Objects : \A r \in {rlm'[o], rlmDisk'[o]} :
           RecordOK(r, o, el', SyncedEpochs', ps, ps, cache', durable', nextSeed)
    BY <1>0, <1>7, CrashRecords, Zenon
  <2> QED BY <1>1, <2>1, Zenon DEF RecordsInv
<1> QED BY <1>6, <1>8

LEMMA InitData ==
    ASSUME Init
    PROVE  SeedsInv /\ RecordsInv
<1>1. /\ el = NewPersistentEpochList(persisted)
      /\ pending = persisted
      /\ PersistentStateOK(persisted)
      /\ Len(persisted.epochs) = 0
  BY InitialStateOK, EmptySeq DEF Init
<1>2. Len(el.epochs) = 0
  <2> DEFINE res == NewPersistentEpochList(persisted)
             len == Len(persisted.epochs)
  <2>1. /\ len \in Nat
        /\ \E n \in 0 .. len : Len(res.epochs) = len - n
    BY <1>1, ReloadFields
  <2>2. el = res /\ len = 0
    BY <1>1
  <2> HIDE DEF res, len
  <2>3. Len(el.epochs) = 0
    BY <2>1, <2>2
  <2> QED BY <2>3
<1>3. SeedsInv
  BY <1>1, <1>2 DEF SeedsInv, ListSeedsOK, FileSeedsOK
<1>4. \A o \in Objects : rlm[o] = NoRecord /\ rlmDisk[o] = NoRecord
  BY DEF Init
<1>5. RecordsInv
  BY <1>4 DEF RecordsInv, RecordOK
<1> QED BY <1>3, <1>5

-----------------------------------------------------------------------------
(* Only a call that has written goes on to finalize. *)
LEMMA CallReplaced ==
    ASSUME IInv, NEW t \in Threads, NEW r, r.pc # "finalize",
           thread' = [thread EXCEPT ![t] = r], NEW u \in Threads
    PROVE  thread'[u] = thread[u] \/ thread'[u].pc # "finalize"
<1>1. thread'[u] = thread[u] \/ thread'[u] = r
  BY DEF IInv, TypeOK
<1> QED BY <1>1

LEMMA OnlyWritersFinalize ==
    ASSUME IInv, NEW t \in Threads, ThreadStep(t), ~WriteData(t), NEW u \in Threads
    PROVE  thread'[u] = thread[u] \/ thread'[u].pc # "finalize"
<1>1. ASSUME NEW op \in Operations, NEW o \in Objects, Begin(t, op, o)
      PROVE  thread'[u] = thread[u] \/ thread'[u].pc # "finalize"
  <2> DEFINE r(pc, location) ==
               [pc |-> pc, op |-> op, obj |-> o, location |-> location,
                needsRefresh |-> FALSE]
  <2>1. \/ thread' = [thread EXCEPT ![t] = r("next", rlm[o].location)]
        \/ thread' = [thread EXCEPT ![t] = r("lock", 0)]
    BY <1>1 DEF Begin
  <2>2. /\ r("next", rlm[o].location).pc # "finalize"
        /\ r("lock", 0).pc # "finalize"
    OBVIOUS
  <2> HIDE DEF r
  <2> QED BY <2>1, <2>2, CallReplaced
<1>2. CASE Return(t)
  BY <1>2, ReturnCall DEF Quiet
<1>3. ASSUME NEW pc \in {"lock", "put"}, GotoWrite(t, pc), thread[t] \in ActiveThread
      PROVE  thread'[u] = thread[u] \/ thread'[u].pc # "finalize"
  BY <1>3, GotoWriteCall DEF Quiet
<1>4. CASE ReadNextPutLocation(t)
  <2>1. thread[t] \in ActiveThread
    BY <1>4, NotIdle DEF IInv, ReadNextPutLocation
  <2>2. PICK threshold \in 0 .. CurrentRegion - 1 :
          LET needsRefresh == NeedsRefresh(thread[t].location, threshold)
          IN  CASE thread[t].op = "download" \/
                     (thread[t].op = "touch" /\ needsRefresh) ->
                     thread' = [thread EXCEPT ![t].pc = "read",
                                              ![t].needsRefresh = needsRefresh]
                [] thread[t].op = "upload" /\ needsRefresh -> GotoWrite(t, "lock")
                [] OTHER -> Return(t)
    BY <1>4 DEF ReadNextPutLocation
  <2> DEFINE b == NeedsRefresh(thread[t].location, threshold)
             r == [thread[t] EXCEPT !.pc = "read", !.needsRefresh = b]
  <2>3. thread' = [thread EXCEPT ![t] = r] \/ GotoWrite(t, "lock") \/ Return(t)
    <3>1. b \in BOOLEAN
      BY DEF NeedsRefresh
    <3> HIDE DEF b
    <3>2. \/ thread' = [thread EXCEPT ![t].pc = "read", ![t].needsRefresh = b]
          \/ GotoWrite(t, "lock") \/ Return(t)
      BY <2>2, <3>1 DEF b
    <3>3. thread' = [thread EXCEPT ![t].pc = "read", ![t].needsRefresh = b] =>
          thread' = [thread EXCEPT ![t] = r]
      BY DEF IInv, TypeOK
    <3> QED BY <3>2, <3>3
  <2>4. r.pc # "finalize"
    BY <2>1 DEF ActiveThread
  <2> HIDE DEF r
  <2>5. CASE thread' = [thread EXCEPT ![t] = r]
    BY <2>4, <2>5, CallReplaced
  <2> QED BY <1>2, <1>3, <2>1, <2>3, <2>5
<1>5. CASE ReadObject(t)
  <2>1. thread[t] \in ActiveThread
    BY <1>5, NotIdle DEF IInv, ReadObject
  <2>2. Goto(t, "discard") \/ GotoWrite(t, "lock") \/ Return(t)
    BY <1>5 DEF ReadObject
  <2>3. CASE Goto(t, "discard")
    <3>1. thread'[u] = thread[u] \/ thread'[u].pc = "discard"
      BY <2>1, <2>3, GotoCall
    <3> QED BY <3>1
  <2> QED BY <1>2, <1>3, <2>1, <2>2, <2>3
<1>6. CASE AcquireWriteLock(t)
  <2>1. thread[t] \in ActiveThread
    BY <1>6, NotIdle DEF IInv, AcquireWriteLock
  <2> DEFINE r == [thread[t] EXCEPT !.pc = "recheck",
                                    !.location = rlm[thread[t].obj].location]
  <2>2. thread' = [thread EXCEPT ![t] = r] \/ GotoWrite(t, "put")
    BY <1>6 DEF AcquireWriteLock
  <2>3. r.pc # "finalize"
    BY <2>1 DEF ActiveThread
  <2> HIDE DEF r
  <2>4. CASE thread' = [thread EXCEPT ![t] = r]
    BY <2>3, <2>4, CallReplaced
  <2> QED BY <1>3, <2>1, <2>2, <2>4
<1>7. CASE Recheck(t)
  <2>1. thread[t] \in ActiveThread
    BY <1>7, NotIdle DEF IInv, Recheck
  <2>2. GotoWrite(t, "put") \/ Return(t)
    BY <1>7 DEF Recheck
  <2> QED BY <1>2, <1>3, <2>1, <2>2
<1>8. CASE Allocate(t)
  <2>1. thread[t] \in ActiveThread
    BY <1>8, NotIdle DEF IInv, Allocate
  <2> DEFINE place == AllocateLocation(Size[thread[t].obj])[1]
             r == [thread[t] EXCEPT !.pc = "write", !.location = place]
  <2>2. thread' = [thread EXCEPT ![t].pc = "write", ![t].location = place]
    BY <1>8 DEF Allocate
  <2> HIDE DEF place
  <2>3. thread' = [thread EXCEPT ![t] = r]
    BY <2>2 DEF IInv, TypeOK
  <2>4. r.pc # "finalize"
    BY <2>1 DEF ActiveThread
  <2> HIDE DEF r
  <2> QED BY <2>3, <2>4, CallReplaced
<1>9. CASE DiscardCorrupted(t) \/ FinalizeWrite(t) \/ RejectWrite(t)
  BY <1>2, <1>9 DEF DiscardCorrupted, FinalizeWrite, RejectWrite
<1> QED BY <1>1, <1>4, <1>5, <1>6, <1>7, <1>8, <1>9 DEF ThreadStep

LEMMA WrittenKept ==
    ASSUME SInv, NEW u \in Threads, thread[u].pc = "finalize",
           \A q \in Objects, y \in Nat :
               /\ y + Size[q] <= nextLocation
               /\ HoldsData(cache, y, q)
               => HoldsData(cache', y, q)
    PROVE  HoldsData(cache', thread[u].location, thread[u].obj)
<1>1. thread[u].obj \in Objects /\ thread[u].location \in Nat
  BY PlaceTypes DEF SInv
<1>2. thread[u].location + Size[thread[u].obj] <= nextLocation
  BY DEF SInv, PlacesInv, CallOK
<1>3. HoldsData(cache, thread[u].location, thread[u].obj)
  BY DEF SInv, WrittenInv
<1> QED BY <1>1, <1>2, <1>3

LEMMA WrittenStays ==
    ASSUME SInv,
           \A u \in Threads : thread'[u] = thread[u] \/ thread'[u].pc # "finalize",
           \A q \in Objects, y \in Nat :
               /\ y + Size[q] <= nextLocation
               /\ HoldsData(cache, y, q)
               => HoldsData(cache', y, q)
    PROVE  WrittenInv'
<1> SUFFICES ASSUME NEW u \in Threads, thread'[u].pc = "finalize"
             PROVE  HoldsData(cache', thread'[u].location, thread'[u].obj)
  BY DEF WrittenInv
<1>1. thread'[u] = thread[u]
  OBVIOUS
<1>2. HoldsData(cache', thread[u].location, thread[u].obj)
  BY <1>1, WrittenKept
<1> QED BY <1>1, <1>2

LEMMA ObjectWritten ==
    ASSUME IInv, PlacesInv, NEW t \in Threads, thread[t].pc = "write"
    PROVE  LET o == thread[t].obj
               location == thread[t].location
           IN  /\ o \in Objects /\ location \in Nat
               /\ HoldsData(WrittenRing(cache, o, location), location, o)
<1> DEFINE o == thread[t].obj
           location == thread[t].location
<1>1. o \in Objects /\ location \in Nat /\ Size[o] \in Nat
      /\ nextLocation \in Nat
  BY PlaceTypes
<1>2. location + Size[o] <= nextLocation
      /\ nextLocation <= FirstWritten(location) + Ring
  BY DEF PlacesInv, CallOK
<1>3. location + Size[o] <= FirstWritten(location) + Ring
  BY <1>1, <1>2, FirstWrittenFacts, RingFacts
<1>4. cache \in [Slots -> Bytes \cup {Null}]
  BY DEF IInv, TypeOK
<1>5. HoldsData(WrittenRing(cache, o, location), location, o)
  BY <1>1, <1>3, <1>4, WrittenRingEffect
<1> QED BY <1>1, <1>5

LEMMA WriteDataWritten ==
    ASSUME SInv, LocationsSuffice, NEW t \in Threads, WriteData(t)
    PROVE  WrittenInv'
<1> DEFINE o == thread[t].obj
           location == thread[t].location
<1>1. IInv /\ PlacesInv
  BY DEF SInv
<1>2. thread[t] \in ActiveThread /\ thread[t].pc = "write"
  BY NotIdle DEF SInv, IInv, WriteData
<1>3. \A q \in Objects, y \in Nat :
         /\ y + Size[q] <= nextLocation
         /\ HoldsData(cache, y, q)
         => HoldsData(cache', y, q)
  BY <1>1, WriteDataHolds
<1>4. CASE Return(t)
  <2>1. \A u \in Threads : thread'[u] = thread[u] \/ thread'[u].pc # "finalize"
    BY <1>1, <1>4, ReturnCall DEF Quiet
  <2> QED BY <1>3, <2>1, WrittenStays
<1>5. CASE cache' = WrittenRing(cache, o, location) /\ Goto(t, "finalize")
  <2> SUFFICES ASSUME NEW u \in Threads, thread'[u].pc = "finalize"
               PROVE  HoldsData(cache', thread'[u].location, thread'[u].obj)
    BY DEF WrittenInv
  <2>1. CASE thread'[u] = thread[u]
    BY <1>3, <2>1, WrittenKept
  <2>2. CASE thread'[u] # thread[u]
    <3>1. thread'[u].location = location /\ thread'[u].obj = o
      BY <1>1, <1>2, <1>5, <2>2, GotoCall
    <3>2. HoldsData(WrittenRing(cache, o, location), location, o)
      BY <1>1, <1>2, ObjectWritten
    <3> QED BY <1>5, <3>1, <3>2, Zenon
  <2> QED BY <2>1, <2>2
<1> QED BY <1>4, <1>5 DEF WriteData

-----------------------------------------------------------------------------
(* The steps of the calls that touch neither the ring nor the list. *)
LEMMA QuietStepData ==
    ASSUME SInv, NEW t \in Threads,
           \/ \E op \in Operations, o \in Objects : Begin(t, op, o)
           \/ ReadNextPutLocation(t) \/ ReadObject(t) \/ AcquireWriteLock(t)
           \/ Recheck(t) \/ Allocate(t) \/ RejectWrite(t)
    PROVE  SeedsInv' /\ RecordsInv'
<1>1. UNCHANGED <<el, syncer, pending, persisted, cache, durable, rlm,
                  rlmDisk, nextSeed>>
  BY DEF Begin, ReadNextPutLocation, ReadObject, AcquireWriteLock, Recheck,
         Allocate, RejectWrite, syncerVars, environmentVars
<1> QED BY <1>1, DataUnchanged

LEMMA ThreadStepData ==
    ASSUME SInv, LocationsSuffice, NEW t \in Threads, ThreadStep(t)
    PROVE  SeedsInv' /\ RecordsInv'
  BY QuietStepData, DiscardCorruptedData, WriteDataData, FinalizeWriteData
     DEF ThreadStep

LEMMA ThreadStepPlaces ==
    ASSUME SInv, LocationsSuffice, ObjectsFit, NEW t \in Threads, ThreadStep(t)
    PROVE  IInv' /\ PlacesInv'
<1>1. IInv /\ PlacesInv
  BY DEF SInv
<1>2. IInv'
  BY <1>1, BeginIInv, ReadNextPutLocationIInv, ReadObjectIInv,
     DiscardCorruptedIInv, AcquireWriteLockIInv, RecheckIInv, AllocateIInv,
     WriteDataIInv, FinalizeWriteIInv, RejectWriteIInv DEF ThreadStep
<1>3. ASSUME DiscardCorrupted(t) PROVE PlacesInv'
  BY <1>1, <1>3, DiscardCorruptedPlaces
<1>4. PlacesInv'
  BY <1>1, <1>3, BeginPlaces, ReadNextPutLocationPlaces, ReadObjectPlaces,
     AcquireWriteLockPlaces, RecheckPlaces, AllocatePlaces, WriteDataPlaces,
     FinalizeWritePlaces, RejectWritePlaces DEF ThreadStep
<1> QED BY <1>2, <1>4

LEMMA ThreadStepWritten ==
    ASSUME SInv, LocationsSuffice, NEW t \in Threads, ThreadStep(t)
    PROVE  WrittenInv'
<1>1. CASE WriteData(t)
  BY <1>1, WriteDataWritten
<1>2. CASE ~WriteData(t)
  <2>1. \A u \in Threads : thread'[u] = thread[u] \/ thread'[u].pc # "finalize"
    BY <1>2, OnlyWritersFinalize DEF SInv
  <2>2. cache' = cache
    BY <1>2 DEF ThreadStep, Begin, ReadNextPutLocation, ReadObject,
       DiscardCorrupted, AcquireWriteLock, Recheck, Allocate, FinalizeWrite,
       RejectWrite
  <2>3. \A q \in Objects, y \in Nat :
           HoldsData(cache, y, q) => HoldsData(cache', y, q)
    BY <2>2, Zenon
  <2> QED BY <2>1, <2>3, WrittenStays
<1> QED BY <1>1, <1>2

LEMMA SyncerWritten ==
    ASSUME SInv, UNCHANGED <<cache, thread>>
    PROVE  WrittenInv'
<1>1. cache' = cache /\ thread' = thread
  OBVIOUS
<1> QED BY <1>1, Zenon DEF SInv, WrittenInv

LEMMA InitSInv ==
    ASSUME Init, LocationsSuffice
    PROVE  SInv
<1>1. WrittenInv
  BY DEF Init, WrittenInv, Idle
<1> QED BY <1>1, InitIInv, InitPlaces, InitData DEF SInv

LEMMA NextSInv ==
    ASSUME LocationsSuffice, ObjectsFit, SInv, [Next]_vars
    PROVE  SInv'
<1>0. IInv /\ PlacesInv
  BY DEF SInv
<1>1. ASSUME NEW t \in Threads, ThreadStep(t)
      PROVE  SInv'
  BY <1>1, ThreadStepData, ThreadStepPlaces, ThreadStepWritten DEF SInv
<1>2. CASE SyncerStep
  <2>1. UNCHANGED <<cache, thread>>
    BY <1>2 DEF SyncerStep, WakeUp, DelayElapses, ContextDone, StartSync, SyncData,
       CompleteSync, CompleteFinalSync, ReadPersistentState,
       WritePersistentState, WritePersistentStateFails, storeVars
  <2>2. WrittenInv'
    BY <2>1, SyncerWritten
  <2> QED BY <1>0, <1>2, <2>2, SyncerIInv, SyncerPlaces, SyncerData DEF SInv
<1>3. CASE RequestShutdown
  <2>1. /\ UNCHANGED <<cache, thread>>
        /\ UNCHANGED <<el, syncer, pending, persisted, cache, durable, rlm,
                       rlmDisk, nextSeed>>
    BY <1>3 DEF RequestShutdown, storeVars, syncerVars
  <2>2. WrittenInv'
    BY <2>1, SyncerWritten
  <2> QED BY <1>0, <1>3, <2>1, <2>2, RequestShutdownIInv, RequestShutdownPlaces,
             DataUnchanged DEF SInv
<1>4. ASSUME NEW s \in Slots, Corrupt(s)
      PROVE  SInv'
  <2>1. WrittenInv'
    <3>1. \A q \in Objects, y \in Nat :
             HoldsData(cache, y, q) => HoldsData(cache', y, q)
      BY <1>0, <1>4, CorruptHolds
    <3>2. thread' = thread
      BY <1>4 DEF Corrupt
    <3> QED BY <3>1, <3>2, WrittenStays
  <2> QED BY <1>0, <1>4, <2>1, CorruptIInv, CorruptPlaces, CorruptData DEF SInv
<1>5. CASE Crash
  <2>1. WrittenInv'
    BY <1>5 DEF Crash, WrittenInv, Idle
  <2> QED BY <1>0, <1>5, <2>1, CrashIInv, CrashPlaces, CrashData DEF SInv
<1>6. CASE UNCHANGED vars
  <2>1. /\ UNCHANGED <<cache, thread>>
        /\ UNCHANGED <<el, syncer, pending, persisted, cache, durable, rlm,
                       rlmDisk, nextSeed>>
        /\ UNCHANGED <<el, nextLocation, cache, durable, pending, persisted>>
    BY <1>6 DEF vars, storeVars, syncerVars, environmentVars
  <2>2. IInv'
    BY <1>0, <1>6, NextIInv
  <2>3. PlacesInv'
    BY <1>0, <2>1, CallsMove
  <2>4. WrittenInv'
    BY <2>1, SyncerWritten
  <2> QED BY <2>1, <2>2, <2>3, <2>4, DataUnchanged DEF SInv
<1> QED BY <1>1, <1>2, <1>3, <1>4, <1>5, <1>6 DEF Next

LEMMA SInvRecords ==
    ASSUME LocationsSuffice, SInv
    PROVE  RecordsPointToData
<1> SUFFICES ASSUME NEW o \in Objects, RecordValid(el, rlm[o], o)
             PROVE  Written(cache, o, rlm[o].location)
  BY DEF RecordsPointToData
<1>1. /\ el \in EpochListType /\ EpochListOK(el)
      /\ cache \in [Slots -> Bytes \cup {Null}]
      /\ rlm[o] \in Records \cup {NoRecord}
  BY DataTypes DEF SInv
<1>2. rlm[o] # NoRecord
  BY DEF RecordValid
<1>3. rlm[o].location \in Nat
  BY <1>1, <1>2, LocationsAreNatural DEF Records
<1>4. \E i \in 1 .. Len(el.epochs) : el.epochs[i].hashSeed = rlm[o].hashSeed
  BY <1>1, ValidRecordEnds
<1>5. ListHolds(el, SyncedEpochs, rlm[o], o, cache, durable)
  BY <1>2 DEF SInv, RecordsInv, RecordOK
<1>6. HoldsData(cache, rlm[o].location, o)
  BY <1>4, <1>5 DEF ListHolds
<1>7. RingOK(cache)
  BY DEF SInv, PlacesInv
<1> QED BY <1>1, <1>3, <1>6, <1>7, HoldsDataWritten

LEMMA SInvRestart ==
    ASSUME LocationsSuffice, SInv
    PROVE  RestartSafe
<1> DEFINE res == NewPersistentEpochList(persisted)
           len == Len(persisted.epochs)
<1> SUFFICES ASSUME NEW o \in Objects, NEW r \in {rlm[o], rlmDisk[o]},
                    RecordValid(res, r, o)
             PROVE  Written(durable, o, r.location)
  BY DEF RestartSafe
<1>1. /\ PersistentStateOK(persisted)
      /\ durable \in [Slots -> Bytes \cup {Null}]
      /\ r \in Records \cup {NoRecord}
  BY DataTypes DEF SInv
<1>2. r # NoRecord
  BY DEF RecordValid
<1>3. r.location \in Nat
  BY <1>1, <1>2, LocationsAreNatural DEF Records
<1>4. res \in EpochListType /\ EpochListOK(res)
  BY <1>1, NewPersistentEpochListOK
<1>5. /\ len \in Nat
      /\ \E n \in 0 .. len :
            /\ Len(res.epochs) = len - n
            /\ \A j \in 1 .. len - n :
                  /\ j + n \in 1 .. len
                  /\ res.epochs[j].hashSeed = persisted.epochs[j + n].hashSeed
  BY <1>1, ReloadFields
<1> HIDE DEF res
<1>6. PICK i \in 1 .. Len(res.epochs) : res.epochs[i].hashSeed = r.hashSeed
  BY <1>1, <1>4, ValidRecordEnds
<1>7. \E i1 \in 1 .. Len(persisted.epochs) :
         persisted.epochs[i1].hashSeed = r.hashSeed
  BY <1>5, <1>6
<1>8. FileHolds(persisted, r, o, cache, durable)
  BY <1>2 DEF SInv, RecordsInv, RecordOK
<1>9. HoldsData(durable, r.location, o)
  BY <1>7, <1>8 DEF FileHolds
<1>10. RingOK(durable)
  BY DEF SInv, PlacesInv
<1> QED BY <1>1, <1>3, <1>9, <1>10, HoldsDataWritten

(* A record that Get() accepts points at data that was written, whatever   *)
(* the interleaving of calls, the crashes and the power failures, as long  *)
(* as the cursor does not wrap around and every object fits in the ring.   *)
THEOREM RecordsAlwaysPointToData ==
    ASSUME LocationsSuffice, ObjectsFit
    PROVE  Spec => []RecordsPointToData
<1>1. Init => SInv
  BY InitSInv
<1>2. SInv /\ [Next]_vars => SInv'
  BY NextSInv
<1>3. SInv => RecordsPointToData
  BY SInvRecords
<1> QED BY <1>1, <1>2, <1>3, PTL DEF Spec

(* Whenever the power fails, the records that the state file lets the next *)
(* process accept point at data that is on the device, under the same two  *)
(* hypotheses.                                                             *)
THEOREM RestartAlwaysSafe ==
    ASSUME LocationsSuffice, ObjectsFit
    PROVE  Spec => []RestartSafe
<1>1. Init => SInv
  BY InitSInv
<1>2. SInv /\ [Next]_vars => SInv'
  BY NextSInv
<1>3. SInv => RestartSafe
  BY SInvRestart
<1> QED BY <1>1, <1>2, <1>3, PTL DEF Spec

-----------------------------------------------------------------------------
(* A clean shutdown.  Epoch IDs tell the epochs of a list apart as long as *)
(* there are no more epochs than IDs.                                      *)
EpochIDsSuffice == Len(el.epochs) <= EpochIDModulus

LEMMA ResidueOfLarge ==
    ASSUME NEW M \in Nat \ {0}, NEW x \in Int, x - M \in 0 .. M - 1
    PROVE  x % M = x - M
  OBVIOUS

LEMMA SubtractResidue ==
    ASSUME NEW M \in Nat \ {0}, NEW a \in 0 .. M - 1, NEW b \in 0 .. M - 1
    PROVE  /\ (a - b) % M \in 0 .. M - 1
           /\ (a - b) % M \in {a - b, a - b + M}
<1>1. a - b \in Int
  OBVIOUS
<1>2. CASE a >= b
  <2>1. a - b \in 0 .. M - 1
    BY <1>2
  <2>2. (a - b) % M = a - b
    BY <2>1, ResidueOfSmall
  <2> QED BY <2>1, <2>2
<1>3. CASE a < b
  <2>1. (a - b) + M \in 0 .. M - 1
    BY <1>3
  <2>2. (a - b) % M = (a - b) + M
    BY <1>1, <2>1, ResidueOfNegative
  <2> QED BY <2>1, <2>2
<1> QED BY <1>2, <1>3

LEMMA AddResidue ==
    ASSUME NEW M \in Nat \ {0}, NEW a \in 0 .. M - 1, NEW n \in 0 .. M
    PROVE  /\ (a + n) % M \in 0 .. M - 1
           /\ (a + n) % M \in {a + n, a + n - M}
<1>1. CASE a + n < M
  <2>1. a + n \in 0 .. M - 1
    BY <1>1
  <2>2. (a + n) % M = a + n
    BY <2>1, ResidueOfSmall
  <2> QED BY <2>1, <2>2
<1>2. CASE a + n >= M
  <2>1. (a + n) - M \in 0 .. M - 1 /\ a + n \in Int
    BY <1>2
  <2>2. (a + n) % M = (a + n) - M
    BY <2>1, ResidueOfLarge
  <2> QED BY <2>1, <2>2
<1> QED BY <1>1, <1>2

(* The index of an epoch ID after n epochs were pruned. *)
LEMMA IndexAfterPruning ==
    ASSUME NEW M \in Nat \ {0}, NEW id \in 0 .. M - 1, NEW m \in 0 .. M - 1,
           NEW n \in 0 .. M
    PROVE  LET x == (id - m) % M
               y == (id - ((m + n) % M)) % M
           IN  /\ x \in 0 .. M - 1 /\ y \in 0 .. M - 1
               /\ y + n < M => x = y + n
               /\ n <= x => y = x - n
<1> DEFINE x == (id - m) % M
           z == (m + n) % M
           y == (id - z) % M
<1>1. x \in 0 .. M - 1 /\ x \in {id - m, id - m + M}
  BY SubtractResidue
<1>2. z \in 0 .. M - 1 /\ z \in {m + n, m + n - M}
  BY AddResidue
<1> HIDE DEF x, z
<1>3. y \in 0 .. M - 1 /\ y \in {id - z, id - z + M}
  BY <1>2, SubtractResidue
<1> HIDE DEF y
<1>4. y + n < M => x = y + n
  BY <1>1, <1>2, <1>3
<1>5. n <= x => y = x - n
  BY <1>1, <1>2, <1>3
<1> QED BY <1>1, <1>3, <1>4, <1>5 DEF x, y, z

LEMMA RecordValidAt ==
    ASSUME NEW list \in EpochListType, NEW o \in Objects,
           NEW record \in Records, record # NoRecord,
           NEW i \in 1 .. Len(list.epochs), i = EpochIndex(list, record.epochID),
           list.epochs[i].hashSeed = record.hashSeed,
           list.minimumLocation <= record.location,
           record.location + Size[o] <= list.epochs[i].maximumLocation
    PROVE  RecordValid(list, record, o)
<1>1. record.location \in Nat /\ Size[o] \in Nat /\ Size[o] > 0
  BY SizeFacts, LocationsAreNatural DEF Records
<1>2. /\ list.epochs[i].maximumLocation \in Nat /\ list.minimumLocation \in Nat
      /\ Len(list.epochs) \in Nat
  BY EpochListFields
<1>3. /\ record.location >= list.minimumLocation
      /\ record.location < list.epochs[i].maximumLocation
      /\ list.epochs[i].maximumLocation - record.location >= Size[o]
  BY <1>1, <1>2
<1>4. EpochIDResolves(list, record.epochID)
  BY <1>2 DEF EpochIDResolves
<1> QED BY <1>3, <1>4 DEF RecordValid, IsValidLocation

(* The list after n of its epochs were pruned and its minimum was raised.  *)
PrunedFrom(list, res, n) ==
    /\ n \in 0 .. Len(list.epochs)
    /\ Len(res.epochs) = Len(list.epochs) - n
    /\ res.minimumEpochID = (list.minimumEpochID + n) % EpochIDModulus
    /\ list.minimumLocation <= res.minimumLocation
    /\ res.closedForWriting = list.closedForWriting
    /\ res.synchronizingEpochs = Monus(list.synchronizingEpochs, n)
    /\ res.synchronizedEpochs = Monus(list.synchronizedEpochs, n)
    /\ \A i \in 1 .. Len(list.epochs) - n : res.epochs[i] = list.epochs[i + n]

LEMMA DiscardPrunes ==
    ASSUME NEW list \in EpochListType, NEW location \in Locations
    PROVE  \E n : PrunedFrom(list, DiscardUpToLocation(list, location), n)
<1> DEFINE raised == [list EXCEPT !.minimumLocation = location]
           n == EpochsToPrune(raised)
           pruned == PruneStaleEpochs(raised)
           res == DiscardUpToLocation(list, location)
<1>0. /\ list.minimumLocation \in Nat /\ Len(list.epochs) \in Nat
      /\ list.synchronizingEpochs \in Nat /\ list.synchronizedEpochs \in Nat
      /\ list.minimumEpochID \in 0 .. EpochIDModulus - 1
      /\ location \in Nat
  BY EpochListFields, LocationsAreNatural DEF EpochIDs
<1>1. CASE list.minimumLocation < location
  <2>1. res = [pruned EXCEPT !.wakeup = TRUE]
    BY <1>1 DEF DiscardUpToLocation
  <2>2. /\ raised \in EpochListType
        /\ raised.epochs = list.epochs
        /\ raised.minimumLocation = location
        /\ raised.minimumEpochID = list.minimumEpochID
        /\ raised.closedForWriting = list.closedForWriting
        /\ raised.synchronizingEpochs = list.synchronizingEpochs
        /\ raised.synchronizedEpochs = list.synchronizedEpochs
    BY DEF EpochListType
  <2> HIDE DEF raised
  <2>3. /\ n \in 0 .. Len(list.epochs)
        /\ pruned \in EpochListType
        /\ pruned.minimumEpochID = (list.minimumEpochID + n) % EpochIDModulus
        /\ pruned.minimumLocation = location
        /\ pruned.closedForWriting = list.closedForWriting
        /\ pruned.synchronizingEpochs = Monus(list.synchronizingEpochs, n)
        /\ pruned.synchronizedEpochs = Monus(list.synchronizedEpochs, n)
        /\ Len(pruned.epochs) = Len(list.epochs) - n
        /\ \A i \in 1 .. Len(list.epochs) - n : pruned.epochs[i] = list.epochs[i + n]
    BY <2>2, PruneStaleEpochsFields
  <2> HIDE DEF n, pruned
  <2>4. /\ res.closedForWriting = pruned.closedForWriting
        /\ res.minimumEpochID = pruned.minimumEpochID
        /\ res.minimumLocation = pruned.minimumLocation
        /\ res.epochs = pruned.epochs
        /\ res.synchronizingEpochs = pruned.synchronizingEpochs
        /\ res.synchronizedEpochs = pruned.synchronizedEpochs
    BY <2>1, <2>3, WakeupFields
  <2> HIDE DEF res
  <2>5. list.minimumLocation <= res.minimumLocation
    BY <1>0, <1>1, <2>3, <2>4
  <2>6. PrunedFrom(list, res, n)
    BY <2>3, <2>4, <2>5, Zenon DEF PrunedFrom
  <2> QED BY <2>6 DEF res
<1>2. CASE ~(list.minimumLocation < location)
  <2>1. res = list
    BY <1>2 DEF DiscardUpToLocation
  <2>2. (list.minimumEpochID + 0) % EpochIDModulus = list.minimumEpochID
    <3>1. list.minimumEpochID + 0 = list.minimumEpochID
      BY <1>0
    <3> QED BY <1>0, <3>1, EpochIDModulusAssumption, ResidueOfSmall
  <2>3. PrunedFrom(list, list, 0)
    BY <1>0, <2>2 DEF PrunedFrom, Monus
  <2> QED BY <2>1, <2>3
<1> QED BY <1>1, <1>2

(* Pruning does not make records valid: the IDs of the epochs that are     *)
(* gone are not yet those of others.                                       *)
LEMMA PrunedRecordValid ==
    ASSUME NEW list \in EpochListType, Len(list.epochs) <= EpochIDModulus,
           NEW res \in EpochListType, EpochListOK(res),
           NEW n, PrunedFrom(list, res, n), NEW o \in Objects,
           NEW record \in Records \cup {NoRecord}, RecordValid(res, record, o)
    PROVE  RecordValid(list, record, o)
<1>1. PICK j \in 1 .. Len(res.epochs) :
         /\ j = EpochIndex(res, record.epochID)
         /\ res.epochs[j].hashSeed = record.hashSeed
         /\ res.minimumLocation <= record.location
         /\ record.location + Size[o] <= res.epochs[j].maximumLocation
  BY ValidRecordEnds
<1>2. record \in Records /\ record # NoRecord
  BY DEF RecordValid
<1>3. /\ record.epochID \in 0 .. EpochIDModulus - 1
      /\ record.location \in Nat /\ Size[o] \in Nat
      /\ list.minimumEpochID \in 0 .. EpochIDModulus - 1
      /\ Len(list.epochs) \in Nat
      /\ list.minimumLocation \in Nat /\ res.minimumLocation \in Nat
  BY <1>2, EpochListFields, SizeFacts, LocationsAreNatural DEF Records, EpochIDs
<1>4. /\ n \in 0 .. Len(list.epochs)
      /\ Len(res.epochs) = Len(list.epochs) - n
      /\ res.minimumEpochID = (list.minimumEpochID + n) % EpochIDModulus
      /\ list.minimumLocation <= res.minimumLocation
      /\ \A i \in 1 .. Len(list.epochs) - n : res.epochs[i] = list.epochs[i + n]
  BY DEF PrunedFrom
<1>5. n \in 0 .. EpochIDModulus /\ EpochIDModulus \in Nat \ {0}
  BY <1>3, <1>4, EpochIDModulusAssumption
<1> DEFINE x == (record.epochID - list.minimumEpochID) % EpochIDModulus
           y == (record.epochID - ((list.minimumEpochID + n) % EpochIDModulus))
                    % EpochIDModulus
<1>6. /\ x \in 0 .. EpochIDModulus - 1 /\ y \in 0 .. EpochIDModulus - 1
      /\ y + n < EpochIDModulus => x = y + n
  BY <1>3, <1>5, IndexAfterPruning, ZenonT(60)
<1>7. j = y + 1 /\ EpochIndex(list, record.epochID) = x + 1
  BY <1>1, <1>4 DEF EpochIndex
<1> HIDE DEF x, y
<1>8. x = y + n
  BY <1>3, <1>4, <1>5, <1>6, <1>7
<1>9. /\ j + n \in 1 .. Len(list.epochs)
      /\ j \in 1 .. Len(list.epochs) - n
      /\ j + n = EpochIndex(list, record.epochID)
  BY <1>3, <1>4, <1>5, <1>6, <1>7, <1>8
<1>10. res.epochs[j] = list.epochs[j + n]
  BY <1>4, <1>9
<1>11. list.minimumLocation <= record.location
  BY <1>1, <1>3, <1>4
<1> QED BY <1>1, <1>2, <1>9, <1>10, <1>11, RecordValidAt

(* When every epoch is on disk, what is read for the state file keeps      *)
(* every record valid.                                                     *)
LEMMA SavedRecordValid ==
    ASSUME NEW list \in EpochListType, EpochListOK(list),
           list.synchronizedEpochs = Len(list.epochs), NEW o \in Objects,
           NEW record \in Records \cup {NoRecord}, RecordValid(list, record, o)
    PROVE  RecordValid(NewPersistentEpochList(GetPersistentState(list)), record, o)
<1> DEFINE ps == GetPersistentState(list)
           res == NewPersistentEpochList(ps)
           len == Len(list.epochs)
<1>1. PICK i \in 1 .. len :
         /\ i = EpochIndex(list, record.epochID)
         /\ list.epochs[i].hashSeed = record.hashSeed
         /\ list.minimumLocation <= record.location
         /\ record.location + Size[o] <= list.epochs[i].maximumLocation
  BY ValidRecordEnds
<1>2. record \in Records /\ record # NoRecord
  BY DEF RecordValid
<1>3. /\ record.epochID \in 0 .. EpochIDModulus - 1
      /\ record.location \in Nat /\ Size[o] \in Nat /\ Size[o] > 0
      /\ list.minimumEpochID \in 0 .. EpochIDModulus - 1
      /\ len \in Nat /\ list.epochs[i].maximumLocation \in Nat
      /\ list.minimumLocation \in Nat
  BY <1>2, EpochListFields, SizeFacts, LocationsAreNatural DEF Records, EpochIDs
<1>4. /\ PersistentStateOK(ps)
      /\ ps.minimumEpochID = list.minimumEpochID
      /\ ps.minimumLocation = list.minimumLocation
      /\ Len(ps.epochs) = len
      /\ \A k \in 1 .. Len(ps.epochs) :
            /\ ps.epochs[k].hashSeed = list.epochs[k].hashSeed
            /\ ReloadedMaximum(ps)[k] = list.epochs[k].maximumLocation
  BY SavedState
<1> HIDE DEF ps
<1>5. res \in EpochListType
  BY <1>4, NewPersistentEpochListOK
<1>6. /\ res.minimumLocation = ps.minimumLocation
      /\ \E n \in 0 .. Len(ps.epochs) :
            /\ Len(res.epochs) = Len(ps.epochs) - n
            /\ res.minimumEpochID = (ps.minimumEpochID + n) % EpochIDModulus
            /\ \A k \in 1 .. n : ReloadedMaximum(ps)[k] <= ps.minimumLocation
            /\ \A j \in 1 .. Len(ps.epochs) - n :
                  /\ j + n \in 1 .. Len(ps.epochs)
                  /\ res.epochs[j].hashSeed = ps.epochs[j + n].hashSeed
                  /\ res.epochs[j].maximumLocation = ReloadedMaximum(ps)[j + n]
  BY <1>4, ReloadFields
<1> HIDE DEF res
<1>7. PICK n \in 0 .. len :
            /\ Len(res.epochs) = len - n
            /\ res.minimumEpochID = (list.minimumEpochID + n) % EpochIDModulus
            /\ \A k \in 1 .. n : ReloadedMaximum(ps)[k] <= list.minimumLocation
            /\ \A j \in 1 .. len - n :
                  /\ j + n \in 1 .. len
                  /\ res.epochs[j].hashSeed = ps.epochs[j + n].hashSeed
                  /\ res.epochs[j].maximumLocation = ReloadedMaximum(ps)[j + n]
  BY <1>4, <1>6
<1> HIDE DEF len
<1>8. n < i
  <2> SUFFICES ASSUME i <= n PROVE FALSE
    BY <1>3, <1>7
  <2>1. i \in 1 .. n
    BY <1>3, <1>7
  <2>2. ReloadedMaximum(ps)[i] <= list.minimumLocation
    BY <1>7, <2>1
  <2>3. ReloadedMaximum(ps)[i] = list.epochs[i].maximumLocation
    BY <1>4
  <2> QED BY <1>1, <1>3, <2>2, <2>3
<1> DEFINE x == (record.epochID - list.minimumEpochID) % EpochIDModulus
           y == (record.epochID - ((list.minimumEpochID + n) % EpochIDModulus))
                    % EpochIDModulus
<1>9. x \in 0 .. EpochIDModulus - 1
  BY <1>3, EpochIDModulusAssumption, SubtractResidue
<1>10. i = x + 1 /\ EpochIndex(res, record.epochID) = y + 1
  BY <1>1, <1>7 DEF EpochIndex
<1>11. n \in 0 .. EpochIDModulus /\ n <= x
  <2> HIDE DEF x, y
  <2> QED BY <1>3, <1>7, <1>8, <1>9, <1>10, EpochIDModulusAssumption
<1>12. y = x - n
  BY <1>3, <1>11, EpochIDModulusAssumption, IndexAfterPruning, ZenonT(60)
<1> HIDE DEF x, y
<1>13. /\ i - n \in 1 .. len - n /\ (i - n) + n = i
       /\ i - n = EpochIndex(res, record.epochID)
       /\ i - n \in 1 .. Len(res.epochs)
  BY <1>3, <1>7, <1>8, <1>9, <1>10, <1>12
<1>14. /\ res.epochs[i - n].hashSeed = list.epochs[i].hashSeed
       /\ res.epochs[i - n].maximumLocation = list.epochs[i].maximumLocation
  BY <1>4, <1>7, <1>13
<1>15. RecordValid(res, record, o)
  BY <1>1, <1>2, <1>4, <1>5, <1>6, <1>13, <1>14, RecordValidAt
<1> QED BY <1>15 DEF res, ps

(* From the second synchronization of a shutdown on, the list takes no     *)
(* writes and every epoch is on disk or about to be; what was read for the *)
(* state file, and then is in it, keeps the records valid.                 *)
Closing == {"finalSyncing", "finalSynced", "reading", "writing", "stopped"}

KeepsRecords(list, ps) ==
    \A o \in Objects :
        RecordValid(list, rlm[o], o) =>
            RecordValid(NewPersistentEpochList(ps), rlm[o], o)

ListClosed(list, state, going) ==
    /\ state \in {"finalSyncing", "finalSynced", "stopped"} => ~going
    /\ ~going /\ state \in Closing =>
          /\ list.closedForWriting
          /\ list.synchronizingEpochs = Len(list.epochs)
    /\ ~going /\ state \in {"reading", "writing", "stopped"} =>
          list.synchronizedEpochs = Len(list.epochs)

ShutdownInv ==
    /\ ListClosed(el, syncer, keepGoing)
    /\ ~keepGoing /\ syncer = "writing" => KeepsRecords(el, pending)
    /\ syncer = "stopped" => KeepsRecords(el, persisted)

(* The epoch list and the records stay as they are. *)
LEMMA ShutdownUnchanged ==
    ASSUME ShutdownInv,
           UNCHANGED <<el, rlm, syncer, keepGoing, pending, persisted>>
    PROVE  ShutdownInv'
<1>1. /\ el' = el /\ rlm' = rlm /\ syncer' = syncer /\ keepGoing' = keepGoing
      /\ pending' = pending /\ persisted' = persisted
  OBVIOUS
<1>2. ListClosed(el', syncer', keepGoing')
  BY <1>1 DEF ShutdownInv
<1>3. /\ KeepsRecords(el, pending) => KeepsRecords(el, pending)'
      /\ KeepsRecords(el, persisted) => KeepsRecords(el, persisted)'
  BY <1>1, Zenon DEF KeepsRecords
<1> QED BY <1>1, <1>2, <1>3 DEF ShutdownInv

LEMMA DiscardCorruptedShutdown ==
    ASSUME IInv, ShutdownInv, EpochIDsSuffice, NEW t \in Threads,
           DiscardCorrupted(t)
    PROVE  ShutdownInv'
<1>1. /\ rlm' = rlm /\ syncer' = syncer /\ keepGoing' = keepGoing
      /\ pending' = pending /\ persisted' = persisted
  BY DEF DiscardCorrupted, syncerVars
<1>2. thread[t].location + Size[thread[t].obj] \in Locations
  BY DEF IInv, ThreadLocationsOK, UsesLocation, DiscardCorrupted
<1>3. el \in EpochListType /\ el' \in EpochListType /\ EpochListOK(el')
  BY DiscardCorruptedIInv DEF IInv, TypeOK
<1>4. PICK n : PrunedFrom(el, el', n)
  BY <1>2, <1>3, DiscardPrunes DEF DiscardCorrupted
<1>5. ListClosed(el', syncer, keepGoing)
  <2>1. /\ el'.closedForWriting = el.closedForWriting
        /\ n \in 0 .. Len(el.epochs) /\ Len(el.epochs) \in Nat
        /\ Len(el'.epochs) = Len(el.epochs) - n
        /\ el'.synchronizingEpochs = Monus(el.synchronizingEpochs, n)
        /\ el'.synchronizedEpochs = Monus(el.synchronizedEpochs, n)
    BY <1>3, <1>4, EpochListFields DEF PrunedFrom
  <2>2. Monus(Len(el.epochs), n) = Len(el.epochs) - n
    BY <2>1 DEF Monus
  <2> QED BY <2>1, <2>2 DEF ShutdownInv, ListClosed
<1>6. ASSUME NEW ps, KeepsRecords(el, ps)
      PROVE  KeepsRecords(el', ps)
  <2>1. ASSUME NEW o \in Objects, RecordValid(el', rlm[o], o)
        PROVE  RecordValid(el, rlm[o], o)
    <3>1. rlm[o] \in Records \cup {NoRecord}
      BY DEF IInv, TypeOK
    <3> QED BY <1>3, <1>4, <2>1, <3>1, PrunedRecordValid DEF EpochIDsSuffice
  <2> QED BY <1>6, <2>1 DEF KeepsRecords
<1>7. /\ ~keepGoing /\ syncer = "writing" => KeepsRecords(el', pending)
      /\ syncer = "stopped" => KeepsRecords(el', persisted)
  BY <1>6 DEF ShutdownInv
<1>8. /\ ~keepGoing' /\ syncer' = "writing" => KeepsRecords(el, pending)'
      /\ syncer' = "stopped" => KeepsRecords(el, persisted)'
  BY <1>1, <1>7, Zenon DEF KeepsRecords
<1>9. ListClosed(el', syncer', keepGoing')
  BY <1>1, <1>5
<1> QED BY <1>8, <1>9 DEF ShutdownInv

(* Writes are only finalized while the list is open. *)
LEMMA FinalizeWriteShutdown ==
    ASSUME IInv, ShutdownInv, NEW t \in Threads, FinalizeWrite(t)
    PROVE  ShutdownInv'
<1>1. ~el.closedForWriting /\ syncer' = syncer /\ keepGoing' = keepGoing
  BY DEF FinalizeWrite, syncerVars
<1>2. keepGoing \/ syncer \notin Closing
  BY <1>1 DEF ShutdownInv, ListClosed
<1>3. syncer \notin {"finalSyncing", "finalSynced", "stopped"}
  BY <1>2 DEF ShutdownInv, ListClosed, Closing
<1> QED BY <1>1, <1>2, <1>3 DEF ShutdownInv, ListClosed, Closing

LEMMA SyncerShutdown ==
    ASSUME IInv, ShutdownInv, SyncerStep
    PROVE  ShutdownInv'
<1>1. el \in EpochListType /\ EpochListOK(el) /\ keepGoing \in BOOLEAN
  BY DEF IInv, TypeOK
<1>2. rlm' = rlm
  BY DEF SyncerStep, WakeUp, DelayElapses, ContextDone, StartSync, SyncData,
     CompleteSync, CompleteFinalSync, ReadPersistentState,
     WritePersistentState, WritePersistentStateFails, storeVars
<1>3. CASE WakeUp \/ DelayElapses \/ ContextDone \/ StartSync
  <2>1. syncer' \in {"delay", "starting", "syncing"}
    BY <1>3 DEF WakeUp, DelayElapses, ContextDone, StartSync
  <2> QED BY <2>1 DEF ShutdownInv, ListClosed, Closing
<1>4. CASE SyncData
  <2>1. /\ el' = el /\ keepGoing' = keepGoing
        /\ \/ syncer' = "synced"
           \/ syncer = "finalSyncing" /\ syncer' = "finalSynced"
    BY <1>4 DEF SyncData
  <2> QED BY <2>1 DEF ShutdownInv, ListClosed, Closing
<1>5. CASE CompleteSync
  <2>1. CASE keepGoing
    <3>1. syncer' = "reading" /\ keepGoing'
      BY <1>5, <2>1 DEF CompleteSync
    <3> QED BY <3>1 DEF ShutdownInv, ListClosed
  <2>2. CASE ~keepGoing
    <3> DEFINE list == NotifySyncCompleted(el)
    <3>1. /\ syncer' = "finalSyncing" /\ ~keepGoing'
          /\ el' = NotifySyncStarting(list, TRUE)
      BY <1>5, <2>2 DEF CompleteSync
    <3>2. list \in EpochListType /\ TRUE \in BOOLEAN
      BY <1>1, NotifySyncCompletedOK
    <3> HIDE DEF list
    <3>3. /\ NotifySyncStarting(list, TRUE).epochs = list.epochs
          /\ NotifySyncStarting(list, TRUE).synchronizingEpochs = Len(list.epochs)
          /\ NotifySyncStarting(list, TRUE).closedForWriting
                = (list.closedForWriting \/ TRUE)
      BY <3>2, NotifySyncFields
    <3>4. el'.closedForWriting /\ el'.synchronizingEpochs = Len(el'.epochs)
      BY <3>1, <3>3
    <3> QED BY <3>1, <3>4 DEF ShutdownInv, ListClosed
  <2> QED BY <2>1, <2>2
<1>6. CASE CompleteFinalSync
  <2>1. /\ syncer = "finalSynced" /\ syncer' = "reading" /\ keepGoing' = keepGoing
        /\ el' = NotifySyncCompleted(el)
    BY <1>6 DEF CompleteFinalSync
  <2>2. ~keepGoing /\ el.closedForWriting /\ el.synchronizingEpochs = Len(el.epochs)
    BY <2>1 DEF ShutdownInv, ListClosed, Closing
  <2>3. /\ el'.epochs = el.epochs
        /\ el'.synchronizingEpochs = el.synchronizingEpochs
        /\ el'.synchronizedEpochs = el.synchronizingEpochs
        /\ el'.closedForWriting = el.closedForWriting
    BY <1>1, <2>1, NotifySyncFields
  <2> QED BY <2>1, <2>2, <2>3 DEF ShutdownInv, ListClosed
<1>7. CASE ReadPersistentState
  <2>1. /\ syncer = "reading" /\ syncer' = "writing" /\ keepGoing' = keepGoing
        /\ el' = el /\ pending' = GetPersistentState(el)
    BY <1>7 DEF ReadPersistentState
  <2>2. ListClosed(el', syncer', keepGoing')
    BY <2>1 DEF ShutdownInv, ListClosed, Closing
  <2>3. ASSUME ~keepGoing PROVE KeepsRecords(el, GetPersistentState(el))
    <3>1. el.synchronizedEpochs = Len(el.epochs)
      BY <2>1, <2>3 DEF ShutdownInv, ListClosed
    <3>2. \A o \in Objects : rlm[o] \in Records \cup {NoRecord}
      BY DEF IInv, TypeOK
    <3> QED BY <1>1, <3>1, <3>2, SavedRecordValid DEF KeepsRecords
  <2>4. ~keepGoing' => KeepsRecords(el, pending)'
    BY <1>2, <2>1, <2>3, Zenon DEF KeepsRecords
  <2> QED BY <2>1, <2>2, <2>4 DEF ShutdownInv
<1>8. CASE WritePersistentState \/ WritePersistentStateFails
  <2>1. /\ syncer = "writing" /\ keepGoing' = keepGoing /\ el' = el
        /\ \/ syncer' = "reading"
           \/ syncer' = "waiting"
           \/ syncer' = "stopped" /\ ~keepGoing /\ persisted' = pending
    BY <1>8 DEF WritePersistentState, WritePersistentStateFails
  <2>2. ListClosed(el', syncer', keepGoing')
    BY <2>1 DEF ShutdownInv, ListClosed, Closing
  <2>3. syncer' = "stopped" => KeepsRecords(el, persisted)'
    <3>1. ~keepGoing => KeepsRecords(el, pending)
      BY <2>1 DEF ShutdownInv
    <3>2. ASSUME persisted' = pending, KeepsRecords(el, pending)
          PROVE  KeepsRecords(el, persisted)'
      BY <1>2, <2>1, <3>2, Zenon DEF KeepsRecords
    <3> QED BY <2>1, <3>1, <3>2
  <2> QED BY <2>1, <2>2, <2>3 DEF ShutdownInv
<1> QED BY <1>3, <1>4, <1>5, <1>6, <1>7, <1>8 DEF SyncerStep

LEMMA NextShutdown ==
    ASSUME IInv, ShutdownInv, EpochIDsSuffice, [Next]_vars
    PROVE  ShutdownInv'
<1>1. ASSUME NEW t \in Threads, ThreadStep(t)
      PROVE  ShutdownInv'
  <2>1. CASE \/ \E op \in Operations, o \in Objects : Begin(t, op, o)
             \/ ReadNextPutLocation(t) \/ ReadObject(t) \/ AcquireWriteLock(t)
             \/ Recheck(t) \/ Allocate(t) \/ WriteData(t) \/ RejectWrite(t)
    <3>1. UNCHANGED <<el, rlm, syncer, keepGoing, pending, persisted>>
      BY <2>1 DEF Begin, ReadNextPutLocation, ReadObject, AcquireWriteLock,
         Recheck, Allocate, WriteData, RejectWrite, syncerVars
    <3> QED BY <3>1, ShutdownUnchanged
  <2> QED BY <1>1, <2>1, DiscardCorruptedShutdown, FinalizeWriteShutdown
          DEF ThreadStep
<1>2. ASSUME \/ RequestShutdown \/ UNCHANGED vars
             \/ \E s \in Slots : Corrupt(s)
      PROVE  ShutdownInv'
  <2>1. UNCHANGED <<el, rlm, syncer, keepGoing, pending, persisted>>
    BY <1>2 DEF RequestShutdown, Corrupt, vars, storeVars, syncerVars
  <2> QED BY <2>1, ShutdownUnchanged
<1>3. CASE Crash
  <2>1. syncer' = "waiting"
    BY <1>3 DEF Crash
  <2> QED BY <2>1 DEF ShutdownInv, ListClosed, Closing
<1> QED BY <1>1, <1>2, <1>3, SyncerShutdown DEF Next

(* A shutdown loses no object: what could be looked up when                *)
(* ProcessLocationsChanged() returned false can be looked up after a       *)
(* restart, the records that were discarded meanwhile excepted, provided   *)
(* that there never are more epochs at a time than epoch IDs.              *)
THEOREM CleanShutdownAlwaysKeepsObjects ==
    Spec /\ []EpochIDsSuffice => []CleanShutdownKeepsObjects
<1>1. Init => ShutdownInv
  BY DEF Init, ShutdownInv, ListClosed, Closing
<1>2. IInv /\ ShutdownInv /\ EpochIDsSuffice /\ [Next]_vars => ShutdownInv'
  BY NextShutdown
<1>3. ShutdownInv => CleanShutdownKeepsObjects
  BY DEF ShutdownInv, KeepsRecords, CleanShutdownKeepsObjects
<1> QED BY <1>1, <1>2, <1>3, InitIInv, NextIInv, PTL DEF Spec
=============================================================================
