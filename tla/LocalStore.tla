----------------------------- MODULE LocalStore -----------------------------
(***************************************************************************)
(* The local object store of pkg/storage/object/local: threads that        *)
(* upload, touch and download objects (store.go), the ring buffer that     *)
(* holds their data (block_device_backed_location_blob_map.go), the        *)
(* reference-location records that point into it                           *)
(* (block_device_backed_reference_location_record_array.go), the periodic  *)
(* syncer (periodic_syncer.go), the state file                             *)
(* (directory_backed_persistent_state_store.go), and what a crash or power *)
(* failure leaves of all that.                                             *)
(*                                                                         *)
(* The record array is taken to be large enough to hold one record per     *)
(* object; the hash map that displaces records is a component of its own.  *)
(***************************************************************************)
EXTENDS EpochList, FiniteSets

CONSTANTS
    Objects,         \* flat references
    Size,            \* Size[o]: bytes of object o
    Threads,         \* concurrent calls into the store
    Operations,      \* the calls made: "upload" is UploadObject with contents,
                     \* "touch" is UploadObject without, "download"
    SectorSize, SectorCount,
    NewRegion, CurrentRegion,
    FirstEpochID, FirstLocation,
                     \* where the (empty) store of the first process starts
    NoRecord,        \* an empty record slot
    Null,            \* contents that belong to no object
    MaxSeeds,        \* bound on the hash seeds that are drawn
    MaxAllocated,    \* bound on the bytes allocated from the first location on
    MaxUnsynced,     \* bound on the bytes allocated since the state file
    MaxFaults        \* bound on crashes and corruptions

ASSUME SizeAssumption == Size \in [Objects -> 1 .. LocationModulus - 1]
ASSUME SectorAssumption ==
    /\ SectorSize \in Nat \ {0}
    /\ SectorCount \in Nat \ {0, 1}
    /\ MaximumLocationSpan = SectorSize * (SectorCount - 1)
ASSUME OperationsAssumption == Operations \subseteq {"upload", "touch", "download"}
ASSUME FirstAssumption == FirstEpochID \in EpochIDs /\ FirstLocation \in Locations
ASSUME RegionAssumption == NewRegion \in Nat /\ CurrentRegion \in Nat \ {0}

VARIABLES
    el,            \* the PersistentEpochList
    nextLocation,  \* nextLocation of the LocationBlobMap
    cache,         \* contents of the ring buffer, as a read returns them
    durable,       \* the part of it that survives a power failure
    rlm, rlmDisk,  \* the record of each object, likewise
    thread,        \* what each call has come to
    syncer,        \* where ProcessLocationsChanged() has come to
    keepGoing,     \* its result
    pending,       \* the state WritePersistentState() is writing
    persisted,     \* the state file
    shutdown,      \* the context of the syncer was cancelled
    nextSeed,      \* seeds below this one have been used
    crashes, corruptions

storeVars == <<nextLocation, cache, rlm, thread>>
syncerVars == <<syncer, keepGoing, pending, persisted, durable>>
environmentVars == <<rlmDisk, shutdown, crashes, corruptions>>
vars == <<el, storeVars, syncerVars, environmentVars, nextSeed>>

Ring == SectorSize * SectorCount
Slots == 0 .. Ring - 1
Bytes == [obj : Objects \cup {Null}, offset : Nat, location : Nat]
Records == [epochID : EpochIDs, hashSeed : Nat, location : Locations]

ASSUME NullAssumption == Null \notin Bytes

Idle == [pc |-> "idle"]
ActiveThread ==
    [pc : {"next", "read", "discard", "lock", "recheck", "put", "write",
           "finalize"},
     op : Operations, obj : Objects, location : Locations,
     needsRefresh : BOOLEAN]
ThreadStates == {Idle} \cup ActiveThread
SyncerStates ==
    {"waiting", "delay", "starting", "syncing", "synced", "finalSyncing",
     "finalSynced", "reading", "writing", "stopped"}

TypeOK ==
    /\ el \in EpochListType
    /\ nextLocation \in Locations
    /\ cache \in [Slots -> Bytes \cup {Null}]
    /\ durable \in [Slots -> Bytes \cup {Null}]
    /\ rlm \in [Objects -> Records \cup {NoRecord}]
    /\ rlmDisk \in [Objects -> Records \cup {NoRecord}]
    /\ thread \in [Threads -> ThreadStates]
    /\ syncer \in SyncerStates
    /\ keepGoing \in BOOLEAN
    /\ pending \in PersistentStateType
    /\ persisted \in PersistentStateType
    /\ shutdown \in BOOLEAN
    /\ nextSeed \in Nat
    /\ crashes \in Nat /\ corruptions \in Nat

Sector(location) == location \div SectorSize

(* nextLocation of NewBlockDeviceBackedLocationBlobMap. *)
RoundUpToSector(location) ==
    Sector((location + SectorSize - 1) % LocationModulus) * SectorSize

(* newPersistentState() has FirstEpochID = 1 and FirstLocation = 0; larger  *)
(* ones are those of a store whose state file survived its data.           *)
Init ==
    /\ persisted = [minimumEpochID |-> FirstEpochID,
                    minimumLocation |-> FirstLocation,
                    epochs |-> <<>>]
    /\ el = NewPersistentEpochList(persisted)
    /\ nextLocation = RoundUpToSector(InitialLocation(persisted))
    /\ thread = [t \in Threads |-> Idle]
    /\ syncer = "waiting"
    /\ keepGoing = TRUE
    /\ pending = persisted
    /\ shutdown = FALSE
    /\ cache = [s \in Slots |-> Null]
    /\ durable = cache
    /\ rlm = [o \in Objects |-> NoRecord]
    /\ rlmDisk = rlm
    /\ nextSeed = 1
    /\ crashes = 0 /\ corruptions = 0

-----------------------------------------------------------------------------
(* blockDeviceBackedLocationRecordArray.Get: the epoch must be known, the  *)
(* checksum must be one made with its seed, the location must be valid.    *)
RecordValid(list, record, o) ==
    /\ record # NoRecord
    /\ EpochIDResolves(list, record.epochID)
    /\ LET epoch == list.epochs[EpochIndex(list, record.epochID)]
       IN  /\ epoch.hashSeed = record.hashSeed
           /\ IsValidLocation(list.minimumLocation, epoch.maximumLocation,
                              record.location, Size[o])

(* blockDeviceBackedLocationRecordArray.Put: a record outside the current  *)
(* epoch's range is silently not written.                                  *)
PutRecord(list, o, location) ==
    LET epoch == list.epochs[list.synchronizingEpochs + 1]
    IN  IF IsValidLocation(list.minimumLocation, epoch.maximumLocation,
                           location, Size[o])
        THEN [rlm EXCEPT ![o] = [epochID |-> CurrentEpochID(list),
                                 hashSeed |-> epoch.hashSeed,
                                 location |-> location]]
        ELSE rlm

(* readObjectAtLocation: the bytes hash to the reference. *)
Intact(ring, o, location) ==
    \A k \in 0 .. Size[o] - 1 :
        LET byte == ring[(location + k) % Ring]
        IN  byte # Null /\ byte.obj = o /\ byte.offset = k

(* Mutant: the operands of the subtraction are swapped. *)
NeedsRefreshSwapped(location, threshold) ==
    LET distance == (location - nextLocation) % LocationModulus
    IN  /\ 2 * distance < LocationModulus
        /\ distance > NewRegion + threshold

(* getObjectLocation compares the distance with a threshold that depends   *)
(* on the hash of the object; it may be any number below the size of the   *)
(* current region.                                                         *)
NeedsRefresh(location, threshold) ==
    LET distance == (nextLocation - location) % LocationModulus
    IN  /\ 2 * distance < LocationModulus
        /\ distance > NewRegion + threshold

-----------------------------------------------------------------------------
(* The calls.  getObjectLocation reads the record under the lock, and the  *)
(* write cursor after having released it.                                  *)
Goto(t, pc) == thread' = [thread EXCEPT ![t].pc = pc]
GotoWrite(t, pc) ==    \* the location that was looked up is not used any more
    thread' = [thread EXCEPT ![t].pc = pc, ![t].location = 0,
                             ![t].needsRefresh = FALSE]
Return(t) == thread' = [thread EXCEPT ![t] = Idle]

Begin(t, op, o) ==
    /\ thread[t] = Idle
    /\ LET found == RecordValid(el, rlm[o], o)
           call(pc, location) ==
               thread' = [thread EXCEPT ![t] =
                   [pc |-> pc, op |-> op, obj |-> o, location |-> location,
                    needsRefresh |-> FALSE]]
       IN  \/ found /\ call("next", rlm[o].location)
           \/ ~found /\ op = "upload" /\ call("lock", 0)
    /\ UNCHANGED <<el, nextLocation, cache, rlm, syncerVars, environmentVars,
                   nextSeed>>

ReadNextPutLocation(t) ==
    /\ thread[t].pc = "next"
    /\ \E threshold \in 0 .. CurrentRegion - 1 :
          LET needsRefresh == NeedsRefresh(thread[t].location, threshold)
          IN  CASE thread[t].op = "download" \/
                     (thread[t].op = "touch" /\ needsRefresh) ->
                     thread' = [thread EXCEPT ![t].pc = "read",
                                              ![t].needsRefresh = needsRefresh]
                [] thread[t].op = "upload" /\ needsRefresh -> GotoWrite(t, "lock")
                [] OTHER -> Return(t)
    /\ UNCHANGED <<el, nextLocation, cache, rlm, syncerVars, environmentVars,
                   nextSeed>>

ReadObject(t) ==
    /\ thread[t].pc = "read"
    /\ IF ~Intact(cache, thread[t].obj, thread[t].location)
       THEN Goto(t, "discard")
       ELSE IF thread[t].needsRefresh THEN GotoWrite(t, "lock") ELSE Return(t)
    /\ UNCHANGED <<el, nextLocation, cache, rlm, syncerVars, environmentVars,
                   nextSeed>>

DiscardCorrupted(t) ==
    /\ thread[t].pc = "discard"
    /\ el' = DiscardUpToLocation(el,
                 thread[t].location + Size[thread[t].obj])
    /\ Return(t)
    /\ UNCHANGED <<nextLocation, cache, rlm, syncerVars, environmentVars,
                   nextSeed>>

-----------------------------------------------------------------------------
(* maybeWriteObject.  The write lock is held from "recheck" on. *)
HoldsWriteLock(t, o) ==
    /\ thread[t].pc \in {"recheck", "put", "write", "finalize"}
    /\ thread[t].obj = o

AcquireWriteLock(t) ==
    /\ thread[t].pc = "lock"
    /\ \A u \in Threads : ~HoldsWriteLock(u, thread[t].obj)
    /\ LET o == thread[t].obj
       IN  IF RecordValid(el, rlm[o], o)
           THEN thread' = [thread EXCEPT ![t].pc = "recheck",
                                         ![t].location = rlm[o].location]
           ELSE GotoWrite(t, "put")
    /\ UNCHANGED <<el, nextLocation, cache, rlm, syncerVars, environmentVars,
                   nextSeed>>

Recheck(t) ==
    /\ thread[t].pc = "recheck"
    /\ \E threshold \in 0 .. CurrentRegion - 1 :
          IF NeedsRefresh(thread[t].location, threshold)
          THEN GotoWrite(t, "put")
          ELSE Return(t)
    /\ UNCHANGED <<el, nextLocation, cache, rlm, syncerVars, environmentVars,
                   nextSeed>>

(* allocateLocation: start over at zero when the cursor would overflow. *)
AllocateLocation(sizeBytes) ==
    IF nextLocation + sizeBytes >= LocationModulus
    THEN <<0, sizeBytes>>
    ELSE <<nextLocation, nextLocation + sizeBytes>>

(* Environment: a write is never stalled for so long that the others write *)
(* a full span past it; what is not in the state file is at most           *)
(* MaxUnsynced bytes.                                                      *)
NotLapped(newNextLocation) ==
    \A u \in Threads : thread[u].pc \in {"write", "finalize"} =>
        (newNextLocation - thread[u].location) % LocationModulus
            <= MaximumLocationSpan

Allocate(t) ==
    /\ thread[t].pc = "put"
    /\ nextSeed < MaxSeeds
    /\ LET allocation == AllocateLocation(Size[thread[t].obj])
       IN  /\ (allocation[2] - FirstLocation) % LocationModulus <= MaxAllocated
           /\ NotLapped(allocation[2])
           /\ (allocation[2] - InitialLocation(persisted)) % LocationModulus
                 <= MaxUnsynced
           /\ nextLocation' = allocation[2]
           /\ thread' = [thread EXCEPT ![t].pc = "write",
                                       ![t].location = allocation[1]]
    /\ UNCHANGED <<el, cache, rlm, syncerVars, environmentVars, nextSeed>>

(* The device is written in whole sectors.  The bytes of a shared sector   *)
(* that no object was assigned yet become null, the ones written before    *)
(* are written again.                                                      *)
WrittenRing(ring, o, location) ==
    [s \in Slots |->
        LET touched == {p \in Sector(location) * SectorSize ..
                              (Sector(location + Size[o] - 1) + 1)
                                  * SectorSize - 1 : p % Ring = s}
            p == CHOOSE q \in touched : TRUE
        IN  IF touched = {} THEN ring[s]
            ELSE IF p \in location .. location + Size[o] - 1
                 THEN [obj |-> o, offset |-> p - location, location |-> p]
                 ELSE IF /\ p < nextLocation
                         /\ ring[s] # Null /\ ring[s].location = p
                      THEN ring[s]
                      ELSE [obj |-> Null, offset |-> 0, location |-> p]]

WriteData(t) ==
    /\ thread[t].pc = "write"
    /\ \/ /\ cache' = WrittenRing(cache, thread[t].obj, thread[t].location)
          /\ Goto(t, "finalize")
       \/ \* One of the WriteAt() calls fails, before or after the others.
          /\ cache' \in {cache, WrittenRing(cache, thread[t].obj,
                                            thread[t].location)}
          /\ Return(t)
    /\ UNCHANGED <<el, nextLocation, rlm, syncerVars, environmentVars,
                   nextSeed>>

(* The list after the write of thread t. *)
Finalized(t) ==
    FinalizeWriteUpToLocation(
        el, thread[t].location + Size[thread[t].obj], nextSeed)

(* GetCurrentEpochState() panics when there is no current epoch. *)
Panics(t) ==
    /\ thread[t].pc = "finalize"
    /\ ~el.closedForWriting
    /\ ~HasCurrentEpoch(Finalized(t))

FinalizeWrite(t) ==
    /\ thread[t].pc = "finalize"
    /\ ~el.closedForWriting
    /\ ~Panics(t)
    /\ el' = Finalized(t)
    /\ rlm' = PutRecord(el', thread[t].obj, thread[t].location)
    /\ nextSeed' = IF el'.epochs[Len(el'.epochs)].hashSeed = nextSeed
                   THEN nextSeed + 1 ELSE nextSeed
    /\ Return(t)
    /\ UNCHANGED <<nextLocation, cache, syncerVars, environmentVars>>

RejectWrite(t) ==
    /\ thread[t].pc = "finalize"
    /\ el.closedForWriting
    /\ Return(t)
    /\ UNCHANGED <<el, nextLocation, cache, rlm, syncerVars, environmentVars,
                   nextSeed>>

-----------------------------------------------------------------------------
(* ProcessLocationsChanged, over and over until the context is cancelled.  *)
(* The wakeup channel it holds is the current one, as only the syncer      *)
(* replaces it.  A select with several ready cases takes any of them.      *)
WakeUp ==
    /\ syncer = "waiting" /\ el.wakeup
    /\ syncer' = "delay"
    /\ UNCHANGED <<el, storeVars, keepGoing, pending, persisted, durable,
                   environmentVars, nextSeed>>

DelayElapses ==
    /\ syncer = "delay"
    /\ syncer' = "starting"
    /\ UNCHANGED <<el, storeVars, keepGoing, pending, persisted, durable,
                   environmentVars, nextSeed>>

ContextDone ==
    /\ syncer \in {"waiting", "delay"} /\ shutdown
    /\ syncer' = "starting"
    /\ keepGoing' = FALSE
    /\ UNCHANGED <<el, storeVars, pending, persisted, durable,
                   environmentVars, nextSeed>>

StartSync ==
    /\ syncer = "starting"
    /\ syncer' = "syncing"
    /\ el' = NotifySyncStarting(el, FALSE)
    /\ UNCHANGED <<storeVars, keepGoing, pending, persisted, durable,
                   environmentVars, nextSeed>>

(* A dataSyncer() call that succeeds.  One that fails is repeated later    *)
(* and changes nothing that the store relies upon.                         *)
SyncData ==
    /\ \/ syncer = "syncing" /\ syncer' = "synced"
       \/ syncer = "finalSyncing" /\ syncer' = "finalSynced"
    /\ durable' = cache
    /\ UNCHANGED <<el, storeVars, keepGoing, pending, persisted,
                   environmentVars, nextSeed>>

(* When shutting down, the lock is not released between the completion of  *)
(* the first and the start of the second synchronization.                  *)
CompleteSync ==
    /\ syncer = "synced"
    /\ IF keepGoing
       THEN /\ el' = NotifySyncCompleted(el)
            /\ syncer' = "reading"
       ELSE /\ el' = NotifySyncStarting(NotifySyncCompleted(el), TRUE)
            /\ syncer' = "finalSyncing"
    /\ UNCHANGED <<storeVars, keepGoing, pending, persisted, durable,
                   environmentVars, nextSeed>>

CompleteFinalSync ==
    /\ syncer = "finalSynced"
    /\ el' = NotifySyncCompleted(el)
    /\ syncer' = "reading"
    /\ UNCHANGED <<storeVars, keepGoing, pending, persisted, durable,
                   environmentVars, nextSeed>>

ReadPersistentState ==
    /\ syncer = "reading"
    /\ pending' = GetPersistentState(el)
    /\ syncer' = "writing"
    /\ UNCHANGED <<el, storeVars, keepGoing, persisted, durable,
                   environmentVars, nextSeed>>

(* Mutant: the result of ProcessLocationsChanged() is ignored. *)
WritePersistentStateForever ==
    /\ syncer = "writing"
    /\ persisted' = pending
    /\ syncer' = "waiting"
    /\ UNCHANGED <<el, storeVars, keepGoing, pending, durable,
                   environmentVars, nextSeed>>

WritePersistentState ==
    /\ syncer = "writing"
    /\ persisted' = pending
    /\ syncer' = IF keepGoing THEN "waiting" ELSE "stopped"
    /\ UNCHANGED <<el, storeVars, keepGoing, pending, durable,
                   environmentVars, nextSeed>>

(* Any step up to the synchronization of the directory may fail, the       *)
(* rename having taken effect or not.  The state is then read again.       *)
WritePersistentStateFails ==
    /\ syncer = "writing"
    /\ persisted' \in {persisted, pending}
    /\ syncer' = "reading"
    /\ UNCHANGED <<el, storeVars, keepGoing, pending, durable,
                   environmentVars, nextSeed>>

-----------------------------------------------------------------------------
(* The environment. *)
RequestShutdown ==
    /\ ~shutdown
    /\ shutdown' = TRUE
    /\ UNCHANGED <<el, storeVars, syncerVars, rlmDisk, crashes, corruptions,
                   nextSeed>>

(* Bits rot, or another process writes to the device. *)
Corrupt(s) ==
    /\ crashes + corruptions < MaxFaults
    /\ cache[s] # Null
    /\ cache' = [cache EXCEPT ![s].obj = Null]
    /\ corruptions' = corruptions + 1
    /\ UNCHANGED <<el, nextLocation, rlm, thread, syncerVars, rlmDisk,
                   shutdown, crashes, nextSeed>>

(* What is on the device when the next process starts.  After a power       *)
(* failure any part of the writes since the last synchronization may have  *)
(* reached it, record by record and byte by byte; when only the process    *)
(* was killed nothing is lost, and nothing was synchronized either.        *)
PowerFails ==
    /\ \E lostSlots \in SUBSET {s \in Slots : cache[s] # durable[s]},
          lostRecords \in SUBSET {o \in Objects : rlm[o] # rlmDisk[o]} :
          /\ cache' = [s \in Slots |->
                IF s \in lostSlots THEN durable[s] ELSE cache[s]]
          /\ rlm' = [o \in Objects |->
                IF o \in lostRecords THEN rlmDisk[o] ELSE rlm[o]]
    /\ durable' = cache'
    /\ rlmDisk' = rlm'

ProcessKilled == UNCHANGED <<cache, durable, rlm, rlmDisk>>

(* Then the store is created again from the state file. *)
Crash ==
    /\ crashes + corruptions < MaxFaults
    /\ PowerFails \/ ProcessKilled
    /\ el' = NewPersistentEpochList(persisted)
    /\ nextLocation' = RoundUpToSector(InitialLocation(persisted))
    /\ thread' = [t \in Threads |-> Idle]
    /\ syncer' = "waiting"
    /\ keepGoing' = TRUE
    /\ pending' = persisted
    /\ shutdown' = FALSE
    /\ crashes' = crashes + 1
    /\ UNCHANGED <<persisted, nextSeed, corruptions>>

-----------------------------------------------------------------------------
ThreadStep(t) ==
    \/ \E op \in Operations, o \in Objects : Begin(t, op, o)
    \/ ReadNextPutLocation(t)
    \/ ReadObject(t)
    \/ DiscardCorrupted(t)
    \/ AcquireWriteLock(t)
    \/ Recheck(t)
    \/ Allocate(t)
    \/ WriteData(t)
    \/ FinalizeWrite(t)
    \/ RejectWrite(t)

SyncerStep ==
    \/ WakeUp
    \/ DelayElapses
    \/ ContextDone
    \/ StartSync
    \/ SyncData
    \/ CompleteSync
    \/ CompleteFinalSync
    \/ ReadPersistentState
    \/ WritePersistentState
    \/ WritePersistentStateFails

Next ==
    \/ \E t \in Threads : ThreadStep(t)
    \/ SyncerStep
    \/ RequestShutdown
    \/ \E s \in Slots : Corrupt(s)
    \/ Crash

Spec == Init /\ [][Next]_vars

(* The syncer's goroutine runs, its timer fires and its I/O succeeds       *)
(* eventually; a select that finds the context cancelled time and again    *)
(* takes that case eventually.  Nothing is assumed of the callers.         *)
Fairness ==
    /\ WF_vars(WakeUp \/ DelayElapses \/ ContextDone)
    /\ WF_vars(StartSync \/ SyncData \/ CompleteSync \/ CompleteFinalSync)
    /\ WF_vars(ReadPersistentState)
    /\ SF_vars(WritePersistentState)
    /\ SF_vars(ContextDone)

FairSpec == Spec /\ Fairness

-----------------------------------------------------------------------------
(* No interleaving of writes, discards, synchronizations and restarts      *)
(* leaves the list without a current epoch when FinalizeWriteUpToLocation  *)
(* returns, so the panic() in GetCurrentEpochState() is not reached; and   *)
(* the list is well-formed throughout.                                     *)
EpochListConsistent ==
    /\ EpochListOK(el)
    /\ \A t \in Threads : ~Panics(t)

(* The bytes at location .. location + Size[o] - 1 were written for that   *)
(* location, or for one that overwrote it: they are not left over from an  *)
(* earlier lap of the ring.                                                *)
Written(ring, o, location) ==
    \A k \in 0 .. Size[o] - 1 :
        LET byte == ring[(location + k) % Ring]
        IN  /\ byte # Null
            /\ byte.location = location + k \/ Ahead(byte.location, location + k)

(* A record that a lookup accepts points at data that was written, also    *)
(* after a crash that kept the record and lost the data: such records      *)
(* belong to an epoch that the state file does not list, and when its ID   *)
(* is used again it has another hash seed.                                 *)
RecordsPointToData ==
    \A o \in Objects :
        RecordValid(el, rlm[o], o) => Written(cache, o, rlm[o].location)

(* If the power fails now, every record that the state file lets the next  *)
(* process accept points at data that dataSyncer() has put on the device.  *)
RestartSafe ==
    LET reloaded == NewPersistentEpochList(persisted)
    IN  \A o \in Objects : \A record \in {rlm[o], rlmDisk[o]} :
            RecordValid(reloaded, record, o) =>
                Written(durable, o, record.location)

(* When ProcessLocationsChanged() has returned false, every object that    *)
(* can be looked up can still be looked up after a restart: the writes     *)
(* that were acknowledged during the shutdown are in the state file.       *)
CleanShutdownKeepsObjects ==
    syncer = "stopped" =>
        LET reloaded == NewPersistentEpochList(persisted)
        IN  \A o \in Objects :
                RecordValid(el, rlm[o], o) => RecordValid(reloaded, rlm[o], o)

(* UploadObject() is about to return UploadObjectComplete. *)
Acknowledges(t) ==
    /\ crashes' = crashes
    /\ thread'[t] = Idle
    /\ \/ thread[t].pc = "next"
       \/ thread[t].pc = "recheck"
       \/ thread[t].pc = "finalize" /\ ~el.closedForWriting

(* An upload that is acknowledged, because the object was written or was   *)
(* found to be recent enough, can be downloaded: the record is accepted    *)
(* and the data is that of the object, although it is not read.            *)
AcknowledgedIsReadable ==
    [][\A t \in Threads : Acknowledges(t) =>
          LET o == thread[t].obj
          IN  /\ RecordValid(el', rlm'[o], o)
              /\ Intact(cache', o, rlm'[o].location)]_vars

(* An epoch that exists while the channel is closed is eventually listed   *)
(* by the state file, unless its locations are overwritten or discarded.   *)
EpochsEventuallyPersisted ==
    \A id \in EpochIDs :
        (EpochIDResolves(el, id) /\ el.wakeup) ~>
            \/ EpochIDResolves(NewPersistentEpochList(persisted), id)
            \/ ~EpochIDResolves(el, id)

(* A shutdown that is requested completes. *)
ShutdownCompletes == shutdown ~> (syncer = "stopped" \/ ~shutdown)
=============================================================================
