------------------------------ MODULE LossyMap ------------------------------
(***************************************************************************)
(* The fixed-size hash map of pkg/ds/lossymap (hash_map.go): collisions    *)
(* are resolved by displacing the older of two records, and a lookup may   *)
(* stop at the first record that is expired.  It backs the leases of       *)
(* pkg/storage/object/flatbacked and the tags of pkg/storage/tag/local.    *)
(*                                                                         *)
(* A Put() is a step per iteration of its loop, so that it can fail        *)
(* between two writes to the record array.  No other call runs meanwhile:  *)
(* the owners of the map hold a lock.                                      *)
(***************************************************************************)
EXTENDS Integers

CONSTANTS
    Keys,
    Slots,                \* indices of the record array
    Hash,                 \* Hash[key][attempt]: recordKeyHasher % recordCount
    MaximumGetAttempts,
    MaximumPutAttempts,
    MaxValue,             \* bound on the values (leases, timestamps)
    Bounds,               \* the lowest valid values that callers pass: {0} for
                          \* tags, which do not expire
    MaxFailures,          \* bound on failing calls into the record array
    NoKey,                \* the zero key, of a record that was never written
    NotFound

Attempts == 0 .. MaximumGetAttempts - 1
Values == 0 .. MaxValue

ASSUME AttemptsAssumption ==
    MaximumGetAttempts \in Nat \ {0} /\ MaximumPutAttempts \in Nat \ {0}
ASSUME HashAssumption == Hash \in [Keys \cup {NoKey} -> [Attempts -> Slots]]
ASSUME ValuesAssumption == MaxValue \in Nat /\ Bounds \subseteq Values
ASSUME NoKeyAssumption == NoKey \notin Keys
ASSUME NotFoundAssumption == NotFound \notin Nat

VARIABLES
    records,     \* the record array
    put,         \* the Put() in progress
    before,      \* history: what Get() returned before that Put(), for its bound
    failures

vars == <<records, put, before, failures>>

Records == [key : Keys \cup {NoKey}, attempt : Attempts, value : Values]
ZeroRecord == [key |-> NoKey, attempt |-> 0, value |-> 0]
NoPut == [active |-> FALSE]
Puts ==
    [active : {TRUE}, record : Records, lowestValidValue : Values,
     iteration : 1 .. MaximumPutAttempts]

TypeOK ==
    /\ records \in [Slots -> Records]
    /\ put \in {NoPut} \cup Puts
    /\ before \in [Keys -> Values \cup {NotFound}]
    /\ failures \in Nat

Init ==
    /\ records = [s \in Slots |-> ZeroRecord]
    /\ put = NoPut
    /\ before = [k \in Keys |-> NotFound]
    /\ failures = 0

-----------------------------------------------------------------------------
(* lowerBoundComparingRecordArray.Get, and the same comparison in          *)
(* blockDeviceBackedLeaseRecordArray.Get.                                  *)
Expired(slot, lowestValidValue) == records[slot].value < lowestValidValue

Matches(slot, key, attempt) ==
    records[slot].key = key /\ records[slot].attempt = attempt

(* The attempt at which a lookup finds the key, as a set of at most one:   *)
(* no earlier attempt ends at an expired record or finds the key.          *)
FoundAt(key, lowestValidValue) ==
    {a \in Attempts :
        /\ Matches(Hash[key][a], key, a)
        /\ \A b \in 0 .. a : ~Expired(Hash[key][b], lowestValidValue)
        /\ \A b \in 0 .. a - 1 : ~Matches(Hash[key][b], key, b)}

Get(key, lowestValidValue) ==
    IF FoundAt(key, lowestValidValue) = {} THEN NotFound
    ELSE records[Hash[key][CHOOSE a \in FoundAt(key, lowestValidValue) : TRUE]].value

-----------------------------------------------------------------------------
(* lowerBoundComparingRecordArray.Put: what is expired is not written. *)
PutRecord(slot, record, lowestValidValue) ==
    IF record.value < lowestValidValue THEN records
    ELSE [records EXCEPT ![slot] = record]

StartPut(key, value, lowestValidValue) ==
    /\ put = NoPut
    /\ put' = [active |-> TRUE,
               record |-> [key |-> key, attempt |-> 0, value |-> value],
               lowestValidValue |-> lowestValidValue,
               iteration |-> 1]
    /\ before' = [k \in Keys |-> Get(k, lowestValidValue)]
    /\ UNCHANGED <<records, failures>>

Slot == Hash[put.record.key][put.record.attempt]

(* The existing record may be overwritten directly. *)
InsertRecord ==
    /\ put.active
    /\ Expired(Slot, put.lowestValidValue)
    /\ records' = PutRecord(Slot, put.record, put.lowestValidValue)
    /\ put' = NoPut
    /\ UNCHANGED <<before, failures>>

(* Mutant: the comparison is the wrong way around. *)
UpdateRecordOlder ==
    /\ put.active
    /\ ~Expired(Slot, put.lowestValidValue)
    /\ Matches(Slot, put.record.key, put.record.attempt)
    /\ records' = IF records[Slot].value > put.record.value
                  THEN PutRecord(Slot, put.record, put.lowestValidValue)
                  ELSE records
    /\ put' = NoPut
    /\ UNCHANGED <<before, failures>>

(* Only a newer version of the same key overwrites an entry. *)
UpdateRecord ==
    /\ put.active
    /\ ~Expired(Slot, put.lowestValidValue)
    /\ Matches(Slot, put.record.key, put.record.attempt)
    /\ records' = IF records[Slot].value < put.record.value
                  THEN PutRecord(Slot, put.record, put.lowestValidValue)
                  ELSE records
    /\ put' = NoPut
    /\ UNCHANGED <<before, failures>>

(* The rest of the loop: try the record at its next index, unless Get()    *)
(* could not reach it there or the loop has run for too long.              *)
NextIteration(record) ==
    put' = IF record.attempt + 1 >= MaximumGetAttempts
               \/ put.iteration + 1 > MaximumPutAttempts
           THEN NoPut
           ELSE [put EXCEPT !.record = [record EXCEPT !.attempt = @ + 1],
                            !.iteration = @ + 1]

(* Mutant: displaces newer records as well. *)
DisplaceRecordAlways ==
    /\ put.active
    /\ ~Expired(Slot, put.lowestValidValue)
    /\ ~Matches(Slot, put.record.key, put.record.attempt)
    /\ records' = PutRecord(Slot, put.record, put.lowestValidValue)
    /\ NextIteration(records[Slot])
    /\ UNCHANGED <<before, failures>>

DisplaceRecord ==
    /\ put.active
    /\ ~Expired(Slot, put.lowestValidValue)
    /\ ~Matches(Slot, put.record.key, put.record.attempt)
    /\ records[Slot].value < put.record.value
    /\ records' = PutRecord(Slot, put.record, put.lowestValidValue)
    /\ NextIteration(records[Slot])
    /\ UNCHANGED <<before, failures>>

SkipRecord ==
    /\ put.active
    /\ ~Expired(Slot, put.lowestValidValue)
    /\ ~Matches(Slot, put.record.key, put.record.attempt)
    /\ records[Slot].value >= put.record.value
    /\ NextIteration(put.record)
    /\ UNCHANGED <<records, before, failures>>

(* A read or write of the record array fails, or the process is killed. *)
FailPut ==
    /\ put.active
    /\ failures < MaxFailures
    /\ failures' = failures + 1
    /\ put' = NoPut
    /\ UNCHANGED <<records, before>>

Next ==
    \/ \E key \in Keys, value \in Values, lowestValidValue \in Bounds :
          StartPut(key, value, lowestValidValue)
    \/ InsertRecord
    \/ UpdateRecord
    \/ DisplaceRecord
    \/ SkipRecord
    \/ FailPut

Spec == Init /\ [][Next]_vars

-----------------------------------------------------------------------------
(* Along the probe sequence of a record all earlier records are at least   *)
(* as new.                                                                 *)
ProbedInOrder(record) ==
    \A j \in 0 .. record.attempt - 1 :
        records[Hash[record.key][j]].value >= record.value

(* The invariant the hash map is built around: newer values are stored at  *)
(* more preferable locations, for the records of the array and for the one *)
(* that Put() is carrying.                                                 *)
OrderedByAge ==
    /\ \A s \in Slots : records[s].key \in Keys =>
          /\ s = Hash[records[s].key][records[s].attempt]
          /\ ProbedInOrder(records[s])
    /\ put.active => ProbedInOrder(put.record)

(* The unexpired copies of a key. *)
Copies(key, lowestValidValue) ==
    {s \in Slots : records[s].key = key /\ ~Expired(s, lowestValidValue)}

(* A lookup may stop at an expired record and still misses nothing: it     *)
(* returns the newest unexpired value stored for the key, whichever other  *)
(* keys were inserted, displaced, expired or lost by a failing Put(), and  *)
(* also when the caller's bound is lower than that of an earlier call.     *)
GetReturnsNewestCopy ==
    \A key \in Keys, bound \in Values :
        LET copies == Copies(key, bound)
        IN  IF copies = {} THEN Get(key, bound) = NotFound
            ELSE \E s \in copies :
                    /\ Get(key, bound) = records[s].value
                    /\ \A t \in copies : records[t].value <= records[s].value

(* A Put() of any key never makes an older version of a key reappear.      *)
(* What a lookup with the bound of the Put() found before is afterwards,   *)
(* whatever the bound, found again, superseded by something newer, or no   *)
(* longer found.  It relies on no Put() failing, and on none running into  *)
(* MaximumPutAttempts with the newer version in its hands.                 *)
OlderVersionNeverReappears ==
    ~put.active /\ failures = 0 =>
        \A key \in Keys :
            \/ before[key] = NotFound
            \/ Get(key, 0) = NotFound
            \/ Get(key, 0) >= before[key]
=============================================================================
