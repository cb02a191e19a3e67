--------------------------- MODULE LossyMapProofs ---------------------------
(***************************************************************************)
(* The lossy map finds the newest copy of a key, for every number of       *)
(* slots, keys and attempts and every hash function.  The values stored in *)
(* a slot only ever grow (SlotGrows); hence a record stays behind newer    *)
(* ones on its probe sequence.                                             *)
(***************************************************************************)
EXTENDS LossyMap, WellFoundedInduction, TLAPS

(* The zero key only ever comes with the oldest value. *)
ZeroKeyOldest ==
    /\ \A s \in Slots : records[s].key \notin Keys => records[s].value = 0
    /\ put.active /\ put.record.key \notin Keys => put.record.value = 0

IInv == TypeOK /\ OrderedByAge /\ ZeroKeyOldest

(* What a step does to the records, if it is not a step that overwrites    *)
(* a slot with an older value.                                             *)
RecordsGrow ==
    \A s \in Slots : records'[s].value >= records[s].value

(* A non-empty set of natural numbers has a smallest element. *)
LEMMA SmallestInNat ==
    ASSUME NEW S \in SUBSET Nat, S # {}
    PROVE  \E n \in S : \A m \in S : n <= m
<1> DEFINE R == OpToRel(<, Nat)
<1>1. IsWellFoundedOn(R, Nat)
  BY NatLessThanWellFounded
<1>2. \A n, m \in Nat : <<m, n>> \in R <=> m < n
  BY DEF OpToRel
<1> HIDE DEF R
<1>3. PICK n \in S : \A m \in S : ~(<<m, n>> \in R)
  BY <1>1, WFMin
<1>4. ASSUME NEW m \in S PROVE n <= m
  <2>1. m \in Nat /\ n \in Nat
    OBVIOUS
  <2>2. ~(m < n)
    BY <1>2, <1>3, <2>1
  <2> QED BY <2>1, <2>2
<1> QED BY <1>4

LEMMA InitIInv == Init => IInv
<1> SUFFICES ASSUME Init PROVE IInv
  OBVIOUS
<1>1. ZeroRecord \in Records /\ ZeroRecord.key \notin Keys
  BY AttemptsAssumption, ValuesAssumption, NoKeyAssumption
     DEF ZeroRecord, Records, Attempts, Values
<1>2. TypeOK
  BY <1>1 DEF Init, TypeOK
<1>3. OrderedByAge
  BY <1>1 DEF Init, OrderedByAge, NoPut
<1>4. ZeroKeyOldest
  BY DEF Init, ZeroKeyOldest, ZeroRecord, NoPut
<1> QED BY <1>2, <1>3, <1>4 DEF IInv

LEMMA RecordFields ==
    ASSUME NEW r \in Records
    PROVE  /\ r.key \in Keys \cup {NoKey}
           /\ r.attempt \in Attempts /\ r.attempt \in Nat
           /\ r.value \in Values /\ r.value \in Nat
  BY AttemptsAssumption, ValuesAssumption DEF Records, Attempts, Values

LEMMA PutFields ==
    ASSUME TypeOK, put.active
    PROVE  /\ put \in Puts
           /\ put.record \in Records
           /\ put.lowestValidValue \in Values
           /\ put.lowestValidValue \in Nat
           /\ put.iteration \in 1 .. MaximumPutAttempts
           /\ Slot \in Slots
<1>1. put \in Puts
  BY DEF TypeOK, NoPut
<1>2. put.record \in Records /\ put.lowestValidValue \in Values
      /\ put.iteration \in 1 .. MaximumPutAttempts
  BY <1>1 DEF Puts
<1>3. Slot \in Slots
  BY <1>2, RecordFields, HashAssumption DEF Slot
<1> QED BY <1>1, <1>2, <1>3, ValuesAssumption DEF Values

(* A record's place on its probe sequence only depends on the values       *)
(* before it, which grow.                                                  *)
LEMMA ProbedInOrderStable ==
    ASSUME TypeOK, RecordsGrow, NEW r \in Records, ProbedInOrder(r),
           TypeOK'
    PROVE  ProbedInOrder(r)'
<1> SUFFICES ASSUME NEW j \in 0 .. r.attempt - 1
             PROVE  records'[Hash[r.key][j]].value >= r.value
  BY DEF ProbedInOrder
<1>1. r.attempt \in Attempts /\ r.key \in Keys \cup {NoKey} /\ r.value \in Nat
  BY RecordFields
<1>2. j \in Attempts
  BY <1>1, AttemptsAssumption DEF Attempts
<1>3. Hash[r.key][j] \in Slots
  BY <1>1, <1>2, HashAssumption
<1>4. records[Hash[r.key][j]].value >= r.value
  BY DEF ProbedInOrder
<1>5. /\ records[Hash[r.key][j]] \in Records
      /\ records'[Hash[r.key][j]] \in Records
  BY <1>3 DEF TypeOK
<1>6. /\ records[Hash[r.key][j]].value \in Nat
      /\ records'[Hash[r.key][j]].value \in Nat
  BY <1>5, RecordFields
<1>7. records'[Hash[r.key][j]].value >= records[Hash[r.key][j]].value
  BY <1>3 DEF RecordsGrow
<1> QED BY <1>1, <1>4, <1>6, <1>7

(* Writing the record that Put() carries into its slot, when the old value *)
(* is older or expired.                                                    *)
LEMMA PutRecordOK ==
    ASSUME IInv, put.active,
           records' = PutRecord(Slot, put.record, put.lowestValidValue),
           \/ Expired(Slot, put.lowestValidValue)
           \/ records[Slot].value < put.record.value
    PROVE  /\ records' \in [Slots -> Records]
           /\ RecordsGrow
           /\ \A s \in Slots :
                 records'[s] = records[s] \/ (s = Slot /\ records'[s] = put.record)
<1>1. /\ put.record \in Records /\ put.lowestValidValue \in Nat
      /\ Slot \in Slots
  BY PutFields DEF IInv
<1>2. records \in [Slots -> Records]
  BY DEF IInv, TypeOK
<1>3. \A s \in Slots : records[s].value \in Nat
  BY <1>2, RecordFields
<1>4. put.record.value \in Nat
  BY <1>1, RecordFields
<1>5. CASE put.record.value < put.lowestValidValue
  <2>1. records' = records
    BY <1>5 DEF PutRecord
  <2> QED BY <1>2, <1>3, <2>1 DEF RecordsGrow
<1>6. CASE ~(put.record.value < put.lowestValidValue)
  <2>1. records' = [records EXCEPT ![Slot] = put.record]
    BY <1>6 DEF PutRecord
  <2>2. put.record.value >= records[Slot].value
    BY <1>1, <1>3, <1>4, <1>6 DEF Expired
  <2>3. \A s \in Slots :
           records'[s] = records[s] \/ (s = Slot /\ records'[s] = put.record)
    BY <1>1, <1>2, <2>1
  <2>4. RecordsGrow
    BY <1>1, <1>2, <1>3, <2>1, <2>2 DEF RecordsGrow
  <2> QED BY <1>1, <1>2, <2>1, <2>3, <2>4
<1> QED BY <1>5, <1>6

(* The first conjunct of OrderedByAge. *)
RecordsOrdered ==
    \A s \in Slots : records[s].key \in Keys =>
        /\ s = Hash[records[s].key][records[s].attempt]
        /\ ProbedInOrder(records[s])

LEMMA RecordsStayOrdered ==
    ASSUME IInv, put.active, TypeOK', RecordsGrow,
           \A s \in Slots :
               records'[s] = records[s] \/ (s = Slot /\ records'[s] = put.record)
    PROVE  RecordsOrdered'
<1> SUFFICES ASSUME NEW s \in Slots, records'[s].key \in Keys
             PROVE  /\ s = Hash[records'[s].key][records'[s].attempt]
                    /\ ProbedInOrder(records[s])'
  BY DEF RecordsOrdered
<1>1. PICK r \in Records : r = records'[s]
  BY DEF TypeOK
<1>2. s = Hash[r.key][r.attempt] /\ ProbedInOrder(r)
  <2>1. CASE r = records[s]
    BY <1>1, <2>1 DEF IInv, OrderedByAge
  <2>2. CASE s = Slot /\ r = put.record
    BY <2>2 DEF IInv, OrderedByAge, Slot
  <2> QED BY <1>1, <2>1, <2>2
<1>3. ProbedInOrder(r)'
  BY <1>2, ProbedInOrderStable DEF IInv
<1>4. ProbedInOrder(records[s])'
  BY <1>1, <1>3 DEF ProbedInOrder
<1> QED BY <1>1, <1>2, <1>4

(* The record that Put() carries on with. *)
LEMMA NextIterationOK ==
    ASSUME IInv, put.active, RecordsGrow, records' \in [Slots -> Records],
           NEW r \in Records, NextIteration(r), ProbedInOrder(r),
           records'[Hash[r.key][r.attempt]].value >= r.value
    PROVE  /\ put' \in {NoPut} \cup Puts
           /\ put'.active => ProbedInOrder(put.record)'
           /\ put'.active => put'.record.key = r.key /\ put'.record.value = r.value
<1>1. CASE put' = NoPut
  BY <1>1 DEF NoPut
<1>2. CASE put' # NoPut
  <2> DEFINE q == [r EXCEPT !.attempt = @ + 1]
  <2>1. /\ r.attempt + 1 < MaximumGetAttempts
        /\ put.iteration + 1 <= MaximumPutAttempts
        /\ put' = [put EXCEPT !.record = q, !.iteration = @ + 1]
    <3>1. put.iteration \in Nat /\ r.attempt \in Nat
      BY PutFields, RecordFields, AttemptsAssumption DEF IInv
    <3> QED BY <1>2, <3>1, AttemptsAssumption DEF NextIteration
  <2>2. put \in Puts /\ put.iteration \in 1 .. MaximumPutAttempts
    BY PutFields DEF IInv
  <2>3. r.attempt + 1 \in Attempts /\ r.key \in Keys \cup {NoKey}
        /\ r.value \in Values /\ r.value \in Nat /\ r.attempt \in Nat
        /\ r.attempt \in Attempts
    BY <2>1, RecordFields, AttemptsAssumption DEF Attempts
  <2>4. q \in Records /\ q.key = r.key /\ q.value = r.value
        /\ q.attempt = r.attempt + 1
    BY <2>3 DEF Records
  <2>5. put' \in Puts /\ put'.record = q
    <3>1. put.iteration + 1 \in 1 .. MaximumPutAttempts
      BY <2>1, <2>2, AttemptsAssumption
    <3>2. put.active \in {TRUE} /\ put.lowestValidValue \in Values
      BY <2>2 DEF Puts
    <3>3. put' = [active |-> put.active, record |-> q,
                  lowestValidValue |-> put.lowestValidValue,
                  iteration |-> put.iteration + 1]
      BY <2>1, <2>2 DEF Puts
    <3> QED BY <2>4, <3>1, <3>2, <3>3 DEF Puts
  <2>6. \A j \in 0 .. q.attempt - 1 : records'[Hash[q.key][j]].value >= q.value
    <3> SUFFICES ASSUME NEW j \in 0 .. q.attempt - 1
                 PROVE  records'[Hash[r.key][j]].value >= r.value
      BY <2>4
    <3>1. CASE j = r.attempt
      BY <3>1
    <3>2. CASE j # r.attempt
      <4>1. j \in 0 .. r.attempt - 1 /\ j \in Attempts
        BY <2>3, <2>4, <3>2, AttemptsAssumption DEF Attempts
      <4>2. Hash[r.key][j] \in Slots
        BY <2>3, <4>1, HashAssumption
      <4>3. records[Hash[r.key][j]].value >= r.value
        BY <4>1 DEF ProbedInOrder
      <4>4. /\ records[Hash[r.key][j]].value \in Nat
            /\ records'[Hash[r.key][j]].value \in Nat
        BY <4>2, RecordFields DEF IInv, TypeOK
      <4>5. records'[Hash[r.key][j]].value >= records[Hash[r.key][j]].value
        BY <4>2 DEF RecordsGrow
      <4> QED BY <2>3, <4>3, <4>4, <4>5
    <3> QED BY <3>1, <3>2
  <2> QED BY <2>4, <2>5, <2>6 DEF ProbedInOrder
<1> QED BY <1>1, <1>2

-----------------------------------------------------------------------------
LEMMA StartPutIInv ==
    ASSUME IInv, NEW key \in Keys, NEW value \in Values, NEW bound \in Bounds,
           StartPut(key, value, bound)
    PROVE  IInv'
<1>1. 0 \in Attempts /\ bound \in Values
  BY AttemptsAssumption, ValuesAssumption DEF Attempts
<1>2. put' \in Puts /\ put'.record.attempt = 0
  BY <1>1, AttemptsAssumption DEF StartPut, Puts, Records
<1>3. before' \in [Keys -> Values \cup {NotFound}]
  <2>1. ASSUME NEW k \in Keys PROVE Get(k, bound) \in Values \cup {NotFound}
    <3>1. CASE FoundAt(k, bound) = {}
      BY <3>1 DEF Get
    <3>2. CASE FoundAt(k, bound) # {}
      <4>1. PICK a \in Attempts :
               a = (CHOOSE b \in FoundAt(k, bound) : TRUE)
        BY <3>2 DEF FoundAt
      <4>2. records[Hash[k][a]] \in Records
        BY HashAssumption DEF IInv, TypeOK
      <4>3. Get(k, bound) = records[Hash[k][a]].value
        BY <3>2, <4>1 DEF Get
      <4> QED BY <4>2, <4>3, RecordFields
    <3> QED BY <3>1, <3>2
  <2> QED BY <2>1 DEF StartPut
<1>4. TypeOK'
  BY <1>2, <1>3 DEF IInv, TypeOK, StartPut
<1>5. OrderedByAge'
  BY <1>2 DEF IInv, OrderedByAge, ProbedInOrder, StartPut
<1>6. ZeroKeyOldest'
  BY DEF IInv, ZeroKeyOldest, StartPut
<1> QED BY <1>4, <1>5, <1>6 DEF IInv

LEMMA FinishPutIInv ==
    ASSUME IInv, put.active,
           records' = PutRecord(Slot, put.record, put.lowestValidValue)
               \/ records' = records,
           \/ records' = records
           \/ Expired(Slot, put.lowestValidValue)
           \/ records[Slot].value < put.record.value,
           put' = NoPut, before' = before, failures' \in Nat
    PROVE  IInv'
<1>1. /\ records' \in [Slots -> Records]
      /\ RecordsGrow
      /\ \A s \in Slots :
            records'[s] = records[s] \/ (s = Slot /\ records'[s] = put.record)
  <2>1. CASE records' = records
    <3>1. \A s \in Slots : records[s].value \in Nat
      BY RecordFields DEF IInv, TypeOK
    <3> QED BY <2>1, <3>1 DEF IInv, TypeOK, RecordsGrow
  <2>2. CASE records' # records
    BY <2>2, PutRecordOK
  <2> QED BY <2>1, <2>2
<1>2. TypeOK'
  BY <1>1 DEF IInv, TypeOK
<1>3. RecordsOrdered'
  BY <1>1, <1>2, RecordsStayOrdered
<1>4. ZeroKeyOldest'
  BY <1>1 DEF IInv, ZeroKeyOldest, NoPut
<1> QED BY <1>2, <1>3, <1>4 DEF IInv, OrderedByAge, RecordsOrdered, NoPut

LEMMA DisplaceRecordIInv ==
    ASSUME IInv, DisplaceRecord
    PROVE  IInv'
<1>1. put.active /\ records[Slot].value < put.record.value
  BY DEF DisplaceRecord
<1>2. /\ records' \in [Slots -> Records]
      /\ RecordsGrow
      /\ \A s \in Slots :
            records'[s] = records[s] \/ (s = Slot /\ records'[s] = put.record)
  BY PutRecordOK DEF DisplaceRecord
<1>3. Slot \in Slots
  BY <1>1, PutFields DEF IInv
<1>4. PICK r \in Records : r = records[Slot]
  BY <1>3 DEF IInv, TypeOK
<1>5. /\ put' \in {NoPut} \cup Puts
      /\ put'.active => ProbedInOrder(put.record)'
      /\ put'.active => put'.record.key = r.key /\ put'.record.value = r.value
  <2>1. CASE r.key \in Keys
    <3>1. Slot = Hash[r.key][r.attempt] /\ ProbedInOrder(r)
      BY <1>3, <1>4, <2>1 DEF IInv, OrderedByAge
    <3>2. records'[Slot].value >= r.value
      BY <1>2, <1>3, <1>4 DEF RecordsGrow
    <3> QED BY <1>1, <1>2, <1>4, <3>1, <3>2, NextIterationOK DEF DisplaceRecord
  <2>2. CASE r.key \notin Keys
    <3>1. r.value = 0
      BY <1>3, <1>4, <2>2 DEF IInv, ZeroKeyOldest
    <3>2. \A a \in Attempts : records[Hash[r.key][a]].value \in Nat
                            /\ records'[Hash[r.key][a]].value \in Nat
      BY <1>2, HashAssumption, RecordFields DEF IInv, TypeOK
    <3>3. ProbedInOrder(r) /\ records'[Hash[r.key][r.attempt]].value >= r.value
      BY <3>1, <3>2, RecordFields, AttemptsAssumption DEF ProbedInOrder, Attempts
    <3> QED BY <1>1, <1>2, <1>4, <3>3, NextIterationOK DEF DisplaceRecord
  <2> QED BY <2>1, <2>2
<1>6. TypeOK'
  BY <1>2, <1>5 DEF IInv, TypeOK, DisplaceRecord
<1>7. RecordsOrdered'
  BY <1>1, <1>2, <1>6, RecordsStayOrdered
<1>8. ZeroKeyOldest'
  BY <1>1, <1>2, <1>3, <1>4, <1>5 DEF IInv, ZeroKeyOldest
<1> QED BY <1>5, <1>6, <1>7, <1>8 DEF IInv, OrderedByAge, RecordsOrdered

LEMMA SkipRecordIInv ==
    ASSUME IInv, SkipRecord
    PROVE  IInv'
<1>1. put.active /\ records[Slot].value >= put.record.value /\ records' = records
      /\ NextIteration(put.record)
  BY DEF SkipRecord
<1>2. PICK r \in Records : r = put.record
  BY <1>1, PutFields DEF IInv
<1>3. RecordsGrow /\ records' \in [Slots -> Records]
  <2>1. \A s \in Slots : records[s].value \in Nat
    BY RecordFields DEF IInv, TypeOK
  <2> QED BY <1>1, <2>1 DEF IInv, TypeOK, RecordsGrow
<1>4. /\ put' \in {NoPut} \cup Puts
      /\ put'.active => ProbedInOrder(put.record)'
      /\ put'.active => put'.record.key = r.key /\ put'.record.value = r.value
  <2>1. ProbedInOrder(r)
    BY <1>1, <1>2 DEF IInv, OrderedByAge
  <2>2. records'[Hash[r.key][r.attempt]].value >= r.value
    BY <1>1, <1>2 DEF Slot
  <2> QED BY <1>1, <1>2, <1>3, <2>1, <2>2, NextIterationOK
<1>5. TypeOK'
  BY <1>3, <1>4 DEF IInv, TypeOK, SkipRecord
<1>6. RecordsOrdered'
  BY <1>1 DEF IInv, OrderedByAge, RecordsOrdered, ProbedInOrder
<1>7. ZeroKeyOldest'
  BY <1>1, <1>2, <1>4 DEF IInv, ZeroKeyOldest
<1> QED BY <1>4, <1>5, <1>6, <1>7 DEF IInv, OrderedByAge, RecordsOrdered

LEMMA NextIInv == IInv /\ [Next]_vars => IInv'
<1> SUFFICES ASSUME IInv, [Next]_vars PROVE IInv'
  OBVIOUS
<1>1. CASE UNCHANGED vars
  BY <1>1 DEF IInv, TypeOK, OrderedByAge, ProbedInOrder, ZeroKeyOldest, vars
<1>2. ASSUME NEW key \in Keys, NEW value \in Values, NEW bound \in Bounds,
             StartPut(key, value, bound)
      PROVE  IInv'
  BY <1>2, StartPutIInv
<1>3. CASE InsertRecord
  BY <1>3, FinishPutIInv DEF InsertRecord, IInv, TypeOK
<1>4. CASE UpdateRecord
  BY <1>4, FinishPutIInv DEF UpdateRecord, IInv, TypeOK
<1>5. CASE FailPut
  BY <1>5, FinishPutIInv DEF FailPut, IInv, TypeOK
<1> QED BY <1>1, <1>2, <1>3, <1>4, <1>5, DisplaceRecordIInv, SkipRecordIInv
        DEF Next

(* A Get() finds the newest unexpired copy of its key, in every state in   *)
(* which the records are ordered by age.                                   *)
LEMMA OrderedGet == IInv => GetReturnsNewestCopy
<1> SUFFICES ASSUME IInv, NEW key \in Keys, NEW bound \in Values
             PROVE  LET copies == Copies(key, bound)
                    IN  IF copies = {} THEN Get(key, bound) = NotFound
                        ELSE \E s \in copies :
                                /\ Get(key, bound) = records[s].value
                                /\ \A t \in copies :
                                      records[t].value <= records[s].value
  BY DEF GetReturnsNewestCopy
<1> DEFINE copies == Copies(key, bound)
           at(a) == Hash[key][a]
<1>1. \A s \in Slots : records[s] \in Records /\ records[s].value \in Nat
                       /\ records[s].attempt \in Attempts
  BY RecordFields DEF IInv, TypeOK
<1>2. \A a \in Attempts : at(a) \in Slots
  BY HashAssumption
<1>3. bound \in Nat /\ \A a \in Attempts : a \in Nat
  BY ValuesAssumption, AttemptsAssumption DEF Values, Attempts
<1>4. ASSUME NEW s \in copies
      PROVE  /\ s \in Slots /\ records[s].key = key /\ records[s].value >= bound
             /\ s = at(records[s].attempt) /\ records[s].attempt \in Attempts
             /\ \A b \in 0 .. records[s].attempt - 1 :
                   records[at(b)].value >= records[s].value
  <2>1. s \in Slots /\ records[s].key = key /\ records[s].value >= bound
    BY <1>1, <1>3 DEF Copies, Expired
  <2>2. s = at(records[s].attempt) /\ ProbedInOrder(records[s])
    BY <2>1 DEF IInv, OrderedByAge
  <2> QED BY <1>1, <2>1, <2>2 DEF ProbedInOrder
<1>5. ASSUME NEW a \in FoundAt(key, bound)
      PROVE  /\ a \in Attempts /\ at(a) \in copies
             /\ \A t \in copies : records[t].value <= records[at(a)].value
  <2>1. /\ a \in Attempts
        /\ records[at(a)].key = key /\ records[at(a)].attempt = a
        /\ \A b \in 0 .. a : ~Expired(at(b), bound)
        /\ \A b \in 0 .. a - 1 : ~Matches(at(b), key, b)
    BY DEF FoundAt, Matches
  <2>2. at(a) \in copies
    BY <1>2, <1>3, <2>1 DEF Copies
  <2>3. ASSUME NEW t \in copies
        PROVE  records[t].value <= records[at(a)].value
    <3> DEFINE n == records[t].attempt
    <3>1. n \in Attempts /\ n \in Nat /\ a \in Nat /\ t = at(n)
          /\ records[t].key = key /\ t \in Slots
      BY <1>3, <1>4, <2>1
    <3>2. n \notin 0 .. a - 1
      BY <2>1, <3>1 DEF Matches
    <3>3. CASE n = a
      BY <1>1, <3>1, <3>3
    <3>4. CASE n # a
      <4>1. a \in 0 .. n - 1
        BY <3>1, <3>2, <3>4
      <4>2. records[at(a)].value >= records[t].value
        BY <1>4, <4>1
      <4> QED BY <1>1, <1>2, <2>1, <3>1, <4>2
    <3> QED BY <3>3, <3>4
  <2> QED BY <2>1, <2>2, <2>3
<1>6. CASE copies = {}
  <2>1. FoundAt(key, bound) = {}
    BY <1>5, <1>6
  <2> QED BY <1>6, <2>1 DEF Get
<1>7. CASE copies # {}
  <2>1. FoundAt(key, bound) # {}
    <3> DEFINE M == {n \in Attempts : at(n) \in copies /\ records[at(n)].attempt = n}
    <3>1. PICK n \in M : \A m \in M : n <= m
      <4>1. M # {} /\ M \subseteq Nat
        <5>1. PICK s \in copies : TRUE
          BY <1>7
        <5>2. records[s].attempt \in M
          BY <1>4
        <5> QED BY <1>3, <5>2
      <4> HIDE DEF M
      <4> QED BY <4>1, SmallestInNat
    <3>2. n \in Attempts /\ at(n) \in copies /\ records[at(n)].attempt = n
          /\ n \in Nat
      BY <1>3, <3>1
    <3>3. Matches(at(n), key, n) /\ records[at(n)].value >= bound
          /\ \A b \in 0 .. n - 1 : records[at(b)].value >= records[at(n)].value
      BY <1>4, <3>2 DEF Matches
    <3>4. ASSUME NEW b \in 0 .. n
          PROVE  ~Expired(at(b), bound) /\ b \in Attempts
      <4>1. b \in Attempts
        BY <3>2, AttemptsAssumption DEF Attempts
      <4>2. records[at(b)].value >= bound
        <5>1. CASE b = n
          BY <3>3, <5>1
        <5>2. CASE b # n
          <6>1. b \in 0 .. n - 1
            BY <3>2, <5>2
          <6>2. records[at(b)].value >= records[at(n)].value
            BY <3>3, <6>1
          <6> QED BY <1>1, <1>2, <1>3, <3>2, <3>3, <4>1, <6>2
        <5> QED BY <5>1, <5>2
      <4> QED BY <1>1, <1>2, <1>3, <4>1, <4>2 DEF Expired
    <3>5. ASSUME NEW b \in 0 .. n - 1
          PROVE  ~Matches(at(b), key, b)
      <4>1. SUFFICES ASSUME Matches(at(b), key, b) PROVE FALSE
        OBVIOUS
      <4>2. b \in 0 .. n /\ b < n /\ b \in Nat
        BY <3>2
      <4>3. ~Expired(at(b), bound) /\ b \in Attempts
        BY <3>4, <4>2
      <4>4. b \in M
        BY <1>2, <4>1, <4>3 DEF Copies, Matches
      <4> QED BY <3>1, <3>2, <4>2, <4>4
    <3>6. n \in FoundAt(key, bound)
      BY <3>2, <3>3, <3>4, <3>5 DEF FoundAt
    <3> QED BY <3>6
  <2>2. PICK a \in FoundAt(key, bound) :
           a = (CHOOSE b \in FoundAt(key, bound) : TRUE)
    BY <2>1
  <2>3. Get(key, bound) = records[at(a)].value
    BY <2>1, <2>2 DEF Get
  <2> QED BY <1>5, <1>7, <2>3
<1> QED BY <1>6, <1>7

(* Put() keeps newer values at more preferable locations, although it may  *)
(* displace records repeatedly, give up or fail half-way.                  *)
THEOREM AlwaysOrderedByAge == Spec => []OrderedByAge
<1>1. IInv => OrderedByAge
  BY DEF IInv
<1> QED BY <1>1, InitIInv, NextIInv, PTL DEF Spec

(* Get() returns the newest unexpired value stored for its key, for every  *)
(* hash function, table size and number of attempts.                       *)
THEOREM GetAlwaysReturnsNewestCopy == Spec => []GetReturnsNewestCopy
  BY InitIInv, NextIInv, OrderedGet, PTL DEF Spec
=============================================================================
