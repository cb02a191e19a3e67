-------------------------- MODULE EpochListProofs --------------------------
(* What the operations of the epoch list preserve, for lists of any length. *)
EXTENDS EpochList, TLAPS, SequenceTheorems, WellFoundedInduction

(* A non-empty set of natural numbers has a least element. *)
LEMMA LeastNatural ==
    ASSUME NEW T, T \subseteq Nat, T # {}
    PROVE  \E x \in T : \A y \in T : x <= y
<1> DEFINE R == {ss \in Nat \X Nat : ss[1] < ss[2]}
<1>1. IsWellFoundedOn(R, Nat)
  BY NatLessThanWellFounded DEF OpToRel
<1>2. PICK x \in T : \A y \in T : ~ (<<y, x>> \in R)
  BY <1>1, WFMin, Zenon
<1>3. \A y \in T : ~ (y < x)
  BY <1>2
<1> QED BY <1>3

(* Residues. *)
LEMMA ResidueInRange ==
    ASSUME NEW M \in Nat \ {0}, NEW x \in Int
    PROVE  x % M \in 0 .. M - 1
  OBVIOUS

LEMMA ResidueOfSmall ==
    ASSUME NEW M \in Nat \ {0}, NEW x \in 0 .. M - 1
    PROVE  x % M = x
  OBVIOUS

LEMMA SmallLocation ==
    ASSUME NEW x \in Locations
    PROVE  x \in Nat /\ x < LocationModulus /\ x % LocationModulus = x
<1>1. LocationModulus \in Nat \ {0} /\ x \in 0 .. LocationModulus - 1
  BY LocationModulusAssumption DEF Locations
<1>2. x \in Nat /\ x < LocationModulus
  BY <1>1
<1> QED BY <1>1, <1>2, ResidueOfSmall

LEMMA RoundDown ==
    ASSUME NEW S \in Nat \ {0}, NEW x \in Nat
    PROVE  (x \div S) * S \in 0 .. x
  OBVIOUS

-----------------------------------------------------------------------------
(* The types of the parts of a list. *)
LEMMA EpochListFields ==
    ASSUME NEW list \in EpochListType
    PROVE  /\ list.closedForWriting \in BOOLEAN
           /\ list.minimumEpochID \in EpochIDs /\ list.minimumEpochID \in Nat
           /\ list.minimumLocation \in Locations /\ list.minimumLocation \in Nat
           /\ list.epochs \in Seq(EpochInfo) /\ Len(list.epochs) \in Nat
           /\ list.synchronizingEpochs \in Nat
           /\ list.synchronizedEpochs \in Nat
           /\ list.wakeup \in BOOLEAN
           /\ \A i \in 1 .. Len(list.epochs) :
                 /\ list.epochs[i] \in EpochInfo
                 /\ list.epochs[i].hashSeed \in Nat
                 /\ list.epochs[i].maximumLocation \in Locations
                 /\ list.epochs[i].maximumLocation \in Nat
<1>1. /\ list.closedForWriting \in BOOLEAN
      /\ list.minimumEpochID \in EpochIDs
      /\ list.minimumLocation \in Locations
      /\ list.epochs \in Seq(EpochInfo)
      /\ list.synchronizingEpochs \in Nat
      /\ list.synchronizedEpochs \in Nat
      /\ list.wakeup \in BOOLEAN
  BY DEF EpochListType
<1>2. Len(list.epochs) \in Nat /\ \A i \in 1 .. Len(list.epochs) :
            list.epochs[i] \in EpochInfo
  BY <1>1
<1>3. \A e \in EpochInfo : /\ e.hashSeed \in Nat
                          /\ e.maximumLocation \in Locations
  BY DEF EpochInfo
<1>4. EpochIDs \subseteq Nat /\ Locations \subseteq Nat
  BY LocationModulusAssumption, EpochIDModulusAssumption DEF EpochIDs, Locations
<1> QED BY <1>1, <1>2, <1>3, <1>4

(* Ordered: what pruneStaleEpochs may rely upon when minimumLocation was   *)
(* just raised.                                                            *)
Ordered(list) ==
    /\ list.synchronizedEpochs <= list.synchronizingEpochs
    /\ list.synchronizingEpochs <= Len(list.epochs)
    /\ Len(list.epochs) <= list.synchronizingEpochs + 1
    /\ \A i, j \in 1 .. Len(list.epochs) : i <= j =>
          list.epochs[i].maximumLocation <= list.epochs[j].maximumLocation

(* The loop in pruneStaleEpochs stops. *)
LEMMA EpochsToPruneProperties ==
    ASSUME NEW list \in EpochListType
    PROVE  /\ EpochsToPrune(list) \in 0 .. Len(list.epochs)
           /\ \A i \in 1 .. EpochsToPrune(list) :
                 list.epochs[i].maximumLocation <= list.minimumLocation
           /\ EpochsToPrune(list) < Len(list.epochs) =>
                 list.epochs[EpochsToPrune(list) + 1].maximumLocation
                     > list.minimumLocation
<1> DEFINE max(i) == list.epochs[i].maximumLocation
           P(n) == /\ \A i \in 1 .. n : max(i) <= list.minimumLocation
                   /\ n < Len(list.epochs) => max(n + 1) > list.minimumLocation
           T == {i \in 1 .. Len(list.epochs) : max(i) > list.minimumLocation}
<1>1. /\ list.epochs \in Seq(EpochInfo)
      /\ Len(list.epochs) \in Nat
      /\ list.minimumLocation \in Int
      /\ \A i \in 1 .. Len(list.epochs) : max(i) \in Int
  BY EpochListFields
<1>2. \E n \in 0 .. Len(list.epochs) : P(n)
  <2>1. CASE T = {}
    <3>1. P(Len(list.epochs))
      BY <1>1, <2>1
    <3> QED BY <1>1, <3>1
  <2>2. CASE T # {}
    <3> T \subseteq Nat
      BY <1>1
    <3> HIDE DEF T
    <3>1. PICK x \in T : \A y \in T : x <= y
      BY <2>2, LeastNatural, Zenon
    <3> USE DEF T
    <3>2. x - 1 \in 0 .. Len(list.epochs) /\ P(x - 1)
      BY <1>1, <3>1
    <3> QED BY <3>2
  <2> QED BY <2>1, <2>2
<1>3. EpochsToPrune(list) = CHOOSE n \in 0 .. Len(list.epochs) : P(n)
  BY Zenon DEF EpochsToPrune
<1> HIDE DEF P
<1>4. EpochsToPrune(list) \in 0 .. Len(list.epochs) /\ P(EpochsToPrune(list))
  BY <1>2, <1>3
<1> QED BY <1>4 DEF P

(* Pruning keeps the list well-formed, and keeps the current epoch if      *)
(* there is one that reaches beyond the minimum location.                  *)
LEMMA PruneStaleEpochsOK ==
    ASSUME NEW list \in EpochListType, Ordered(list)
    PROVE  /\ PruneStaleEpochs(list) \in EpochListType
           /\ EpochListOK(PruneStaleEpochs(list))
           /\ (/\ HasCurrentEpoch(list)
               /\ list.epochs[Len(list.epochs)].maximumLocation
                      > list.minimumLocation) =>
                 HasCurrentEpoch(PruneStaleEpochs(list))
<1> DEFINE n == EpochsToPrune(list)
           res == PruneStaleEpochs(list)
           len == Len(list.epochs)
<1>1. /\ list.epochs \in Seq(EpochInfo) /\ len \in Nat
      /\ list.minimumLocation \in Int
      /\ list.minimumEpochID \in Nat
      /\ list.synchronizingEpochs \in Nat /\ list.synchronizedEpochs \in Nat
      /\ \A i \in 1 .. len : list.epochs[i] \in EpochInfo
      /\ \A i \in 1 .. len : list.epochs[i].maximumLocation \in Int
  BY EpochListFields
<1>2. /\ n \in 0 .. len
      /\ \A i \in 1 .. n : list.epochs[i].maximumLocation <= list.minimumLocation
      /\ n < len => list.epochs[n + 1].maximumLocation > list.minimumLocation
  BY EpochsToPruneProperties
<1> HIDE DEF n
<1>3. res = [list EXCEPT
                !.minimumEpochID = (list.minimumEpochID + n) % EpochIDModulus,
                !.epochs = SubSeq(list.epochs, n + 1, len),
                !.synchronizingEpochs = Monus(list.synchronizingEpochs, n),
                !.synchronizedEpochs = Monus(list.synchronizedEpochs, n)]
  BY DEF PruneStaleEpochs, PruneStaleEpochsBy, n
<1>4. /\ SubSeq(list.epochs, n + 1, len) \in Seq(EpochInfo)
      /\ Len(SubSeq(list.epochs, n + 1, len)) = len - n
      /\ \A i \in 1 .. len - n :
            SubSeq(list.epochs, n + 1, len)[i] = list.epochs[i + n]
  <2>1. \A i \in n + 1 .. len : list.epochs[i] \in EpochInfo
    BY <1>1, <1>2
  <2>2. /\ SubSeq(list.epochs, n + 1, len) \in Seq(EpochInfo)
        /\ Len(SubSeq(list.epochs, n + 1, len)) =
              IF n + 1 <= len THEN len - (n + 1) + 1 ELSE 0
        /\ \A i \in 1 .. len - (n + 1) + 1 :
              SubSeq(list.epochs, n + 1, len)[i] = list.epochs[n + 1 + i - 1]
    BY <1>1, <1>2, <2>1, SubSeqProperties
  <2> QED BY <1>1, <1>2, <2>2
<1>5. (list.minimumEpochID + n) % EpochIDModulus \in EpochIDs
  <2>1. list.minimumEpochID + n \in Int
    BY <1>1, <1>2
  <2> QED BY <2>1, EpochIDModulusAssumption, ResidueInRange DEF EpochIDs
<1>6. /\ Monus(list.synchronizingEpochs, n) \in Nat
      /\ Monus(list.synchronizedEpochs, n) \in Nat
  BY <1>1, <1>2 DEF Monus
<1>7. res \in EpochListType
  BY <1>3, <1>4, <1>5, <1>6 DEF EpochListType
<1>8. /\ res.epochs = SubSeq(list.epochs, n + 1, len)
      /\ res.minimumLocation = list.minimumLocation
      /\ res.synchronizingEpochs = Monus(list.synchronizingEpochs, n)
      /\ res.synchronizedEpochs = Monus(list.synchronizedEpochs, n)
  BY <1>3 DEF EpochListType
<1> HIDE DEF res, len
<1>9. EpochListOK(res)
  <2>1. /\ res.synchronizedEpochs <= res.synchronizingEpochs
        /\ res.synchronizingEpochs <= Len(res.epochs)
        /\ Len(res.epochs) <= res.synchronizingEpochs + 1
    BY <1>1, <1>2, <1>4, <1>8, SMTT(30) DEF Monus, Ordered, len
  <2>2. \A i, j \in 1 .. Len(res.epochs) : i <= j =>
          res.epochs[i].maximumLocation <= res.epochs[j].maximumLocation
    BY <1>1, <1>2, <1>4, <1>8 DEF Ordered, len
  <2>3. \A i \in 1 .. Len(res.epochs) :
          res.minimumLocation <= res.epochs[i].maximumLocation
    <3> SUFFICES ASSUME NEW i \in 1 .. Len(res.epochs)
                 PROVE  res.minimumLocation <= res.epochs[i].maximumLocation
      OBVIOUS
    <3>1. n < len /\ i + n \in 1 .. len /\ n + 1 \in 1 .. len /\ n + 1 <= i + n
      BY <1>1, <1>2, <1>4, <1>8
    <3>2. list.epochs[n + 1].maximumLocation <= list.epochs[i + n].maximumLocation
      BY <3>1 DEF Ordered, len
    <3> QED BY <1>1, <1>2, <1>4, <1>8, <3>1, <3>2, SMTT(30)
  <2> QED BY <2>1, <2>2, <2>3 DEF EpochListOK
<1>10. ASSUME HasCurrentEpoch(list),
              list.epochs[Len(list.epochs)].maximumLocation
                  > list.minimumLocation
       PROVE  HasCurrentEpoch(res)
  <2>1. len > 0 /\ n # len
    BY <1>1, <1>2, <1>10, SMTT(30) DEF HasCurrentEpoch, len
  <2> QED BY <1>1, <1>2, <1>4, <1>8, <1>10, <2>1, SMTT(30) DEF HasCurrentEpoch, Monus, len
<1> QED BY <1>7, <1>9, <1>10 DEF res

-----------------------------------------------------------------------------
(* MaximumLocation of a well-formed list is a location, and not below the  *)
(* minimum or the end of any epoch.                                        *)
LEMMA MaximumLocationOK ==
    ASSUME NEW list \in EpochListType, EpochListOK(list)
    PROVE  /\ MaximumLocation(list) \in Locations
           /\ MaximumLocation(list) \in Nat
           /\ list.minimumLocation <= MaximumLocation(list)
           /\ \A i \in 1 .. Len(list.epochs) :
                 list.epochs[i].maximumLocation <= MaximumLocation(list)
<1>1. CASE list.epochs = <<>>
  BY <1>1, EpochListFields DEF MaximumLocation
<1>2. CASE list.epochs # <<>>
  <2>1. Len(list.epochs) \in 1 .. Len(list.epochs)
    BY <1>2, EpochListFields, EmptySeq
  <2> QED BY <1>2, <2>1, EpochListFields DEF MaximumLocation, EpochListOK
<1> QED BY <1>1, <1>2

LEMMA AppendEpochOK ==
    ASSUME NEW list \in EpochListType, Ordered(list),
           Len(list.epochs) = list.synchronizingEpochs,
           NEW location \in Locations, NEW seed \in Nat,
           \A i \in 1 .. Len(list.epochs) :
               list.epochs[i].maximumLocation <= location
    PROVE  LET res == AppendEpoch(list, location, seed)
           IN  /\ res \in EpochListType
               /\ Ordered(res)
               /\ HasCurrentEpoch(res)
               /\ res.minimumLocation = list.minimumLocation
               /\ Len(res.epochs) = Len(list.epochs) + 1
               /\ \A i \in 1 .. Len(list.epochs) : res.epochs[i] = list.epochs[i]
               /\ res.epochs[Len(res.epochs)].maximumLocation = location
<1> DEFINE res == AppendEpoch(list, location, seed)
           epoch == [hashSeed |-> seed, maximumLocation |-> location]
<1>1. epoch \in EpochInfo /\ epoch.maximumLocation = location
  BY DEF EpochInfo
<1> HIDE DEF epoch
<1>2. /\ Append(list.epochs, epoch) \in Seq(EpochInfo)
      /\ Len(Append(list.epochs, epoch)) = Len(list.epochs) + 1
      /\ \A i \in 1 .. Len(list.epochs) :
            Append(list.epochs, epoch)[i] = list.epochs[i]
      /\ Append(list.epochs, epoch)[Len(list.epochs) + 1] = epoch
  BY <1>1, EpochListFields, AppendProperties
<1>3. res = [list EXCEPT !.epochs = Append(list.epochs, epoch)]
  BY DEF AppendEpoch, epoch
<1>4. /\ res \in EpochListType
      /\ res.epochs = Append(list.epochs, epoch)
      /\ res.minimumLocation = list.minimumLocation
      /\ res.synchronizingEpochs = list.synchronizingEpochs
      /\ res.synchronizedEpochs = list.synchronizedEpochs
  BY <1>2, <1>3 DEF EpochListType
<1> HIDE DEF res
<1>5. HasCurrentEpoch(res)
  BY <1>2, <1>4, EpochListFields DEF HasCurrentEpoch
<1>6. Ordered(res)
  <2>1. /\ Len(list.epochs) \in Nat /\ list.synchronizingEpochs \in Nat
        /\ location \in Nat
        /\ \A i \in 1 .. Len(list.epochs) : list.epochs[i].maximumLocation \in Nat
    BY EpochListFields DEF Locations
  <2>2. ASSUME NEW i \in 1 .. Len(res.epochs), NEW j \in 1 .. Len(res.epochs), i <= j
        PROVE  res.epochs[i].maximumLocation <= res.epochs[j].maximumLocation
    <3>1. CASE j = Len(list.epochs) + 1
      <4>1. res.epochs[j].maximumLocation = location
        BY <1>1, <1>2, <1>4, <3>1
      <4>2. CASE i = j
        BY <2>1, <4>1, <4>2
      <4>3. CASE i # j
        <5>1. i \in 1 .. Len(list.epochs)
          BY <1>2, <1>4, <2>1, <2>2, <3>1, <4>3
        <5> QED BY <1>2, <1>4, <4>1, <5>1
      <4> QED BY <4>2, <4>3
    <3>2. CASE j # Len(list.epochs) + 1
      <4>1. i \in 1 .. Len(list.epochs) /\ j \in 1 .. Len(list.epochs)
        BY <1>2, <1>4, <2>1, <2>2, <3>2
      <4> QED BY <1>2, <1>4, <2>2, <4>1 DEF Ordered
    <3> QED BY <3>1, <3>2
  <2> QED BY <1>2, <1>4, <2>1, <2>2 DEF Ordered
<1> QED BY <1>1, <1>2, <1>4, <1>5, <1>6, EpochListFields DEF res

LEMMA RaiseLastEpochOK ==
    ASSUME NEW list \in EpochListType, Ordered(list), HasCurrentEpoch(list),
           NEW location \in Locations,
           list.epochs[Len(list.epochs)].maximumLocation <= location
    PROVE  LET res == RaiseLastEpoch(list, location)
           IN  /\ res \in EpochListType
               /\ Ordered(res)
               /\ HasCurrentEpoch(res)
               /\ res.minimumLocation = list.minimumLocation
               /\ res.epochs[Len(res.epochs)].maximumLocation = location
<1> DEFINE res == RaiseLastEpoch(list, location)
           len == Len(list.epochs)
           epoch == [list.epochs[len] EXCEPT !.maximumLocation = location]
           raised == [list.epochs EXCEPT ![len] = epoch]
<1>1. len \in 1 .. len /\ len \in Nat
  BY EpochListFields DEF HasCurrentEpoch
<1>2. epoch \in EpochInfo /\ epoch.maximumLocation = location
  BY <1>1, EpochListFields DEF EpochInfo
<1> HIDE DEF epoch
<1>3. /\ raised \in Seq(EpochInfo)
      /\ Len(raised) = len
      /\ \A i \in 1 .. len : raised[i] = IF i = len THEN epoch ELSE list.epochs[i]
  BY <1>1, <1>2, EpochListFields
<1>4. res = [list EXCEPT !.epochs = raised]
  BY DEF RaiseLastEpoch, epoch
<1> HIDE DEF raised
<1>5. /\ res \in EpochListType
      /\ res.epochs = raised
      /\ res.minimumLocation = list.minimumLocation
      /\ res.synchronizingEpochs = list.synchronizingEpochs
      /\ res.synchronizedEpochs = list.synchronizedEpochs
  BY <1>3, <1>4 DEF EpochListType
<1> HIDE DEF res, len
<1>6. HasCurrentEpoch(res)
  BY <1>3, <1>5 DEF HasCurrentEpoch, len
<1>7. \A i \in 1 .. len : list.epochs[i].maximumLocation <= location
  <2> SUFFICES ASSUME NEW i \in 1 .. len
               PROVE  list.epochs[i].maximumLocation <= location
    OBVIOUS
  <2>1. /\ list.epochs[i].maximumLocation \in Nat /\ list.epochs[len].maximumLocation \in Nat
        /\ list.epochs[len].maximumLocation <= location
    BY <1>1, EpochListFields DEF len
  <2>2. location \in Nat
    BY LocationModulusAssumption DEF Locations
  <2>3. i <= len
    BY <1>1
  <2>4. list.epochs[i].maximumLocation <= list.epochs[len].maximumLocation
    BY <1>1, <2>3 DEF Ordered, len
  <2> QED BY <2>1, <2>2, <2>4
<1>8. Ordered(res)
  <2>1. /\ res.synchronizedEpochs <= res.synchronizingEpochs
        /\ res.synchronizingEpochs <= Len(res.epochs)
        /\ Len(res.epochs) <= res.synchronizingEpochs + 1
    BY <1>3, <1>5 DEF Ordered, len
  <2>2. ASSUME NEW i \in 1 .. len, NEW j \in 1 .. len, i <= j
        PROVE  raised[i].maximumLocation <= raised[j].maximumLocation
    <3>1. CASE j = len
      BY <1>1, <1>2, <1>3, <1>7, <3>1, LocationModulusAssumption DEF Locations
    <3>2. CASE j # len
      BY <1>1, <1>3, <2>2, <3>2 DEF Ordered, len
    <3> QED BY <3>1, <3>2
  <2> QED BY <1>3, <1>5, <2>1, <2>2 DEF Ordered
<1> QED BY <1>2, <1>1, <1>3, <1>5, <1>6, <1>8 DEF res

-----------------------------------------------------------------------------
(* The list that pruneStaleEpochs is called with in                        *)
(* FinalizeWriteUpToLocation.                                              *)
LEMMA ExtendEpochsOK ==
    ASSUME NEW list \in EpochListType, EpochListOK(list),
           NEW location \in Locations, NEW seed \in Nat,
           MaximumLocation(list) <= location
    PROVE  LET res == ExtendEpochs(list, location, seed)
           IN  /\ res \in EpochListType
               /\ Ordered(res)
               /\ HasCurrentEpoch(res)
               /\ res.minimumLocation = list.minimumLocation
               /\ res.epochs[Len(res.epochs)].maximumLocation = location
<1>1. Ordered(list)
  BY DEF EpochListOK, Ordered
<1>2. \A i \in 1 .. Len(list.epochs) :
          list.epochs[i].maximumLocation <= location
  BY MaximumLocationOK, EpochListFields, LocationModulusAssumption DEF Locations
<1>3. CASE Len(list.epochs) = list.synchronizingEpochs
  BY <1>1, <1>2, <1>3, AppendEpochOK DEF ExtendEpochs
<1>4. CASE Len(list.epochs) # list.synchronizingEpochs
  <2>1. HasCurrentEpoch(list)
    <3>1. /\ list.synchronizingEpochs \in Nat /\ Len(list.epochs) \in Nat
          /\ list.synchronizingEpochs <= Len(list.epochs)
          /\ Len(list.epochs) <= list.synchronizingEpochs + 1
      BY EpochListFields DEF EpochListOK
    <3> QED BY <1>4, <3>1 DEF HasCurrentEpoch
  <2>2. list.epochs[Len(list.epochs)].maximumLocation <= location
    BY <1>2, <2>1, EpochListFields DEF HasCurrentEpoch
  <2> QED BY <1>1, <1>4, <2>1, <2>2, RaiseLastEpochOK DEF ExtendEpochs
<1> QED BY <1>3, <1>4

LEMMA RaiseMinimumLocationOK ==
    ASSUME NEW list \in EpochListType, Ordered(list), HasCurrentEpoch(list),
           NEW location \in Locations,
           list.minimumLocation < location,
           list.epochs[Len(list.epochs)].maximumLocation = location
    PROVE  LET res == RaiseMinimumLocation(list, location)
           IN  /\ res \in EpochListType
               /\ Ordered(res)
               /\ HasCurrentEpoch(res)
               /\ res.minimumLocation
                     < res.epochs[Len(res.epochs)].maximumLocation
<1> DEFINE res == RaiseMinimumLocation(list, location)
           minimum == IF (location - list.minimumLocation) % LocationModulus
                             > MaximumLocationSpan
                      THEN location - MaximumLocationSpan
                      ELSE list.minimumLocation
<1>1. location - list.minimumLocation \in 0 .. LocationModulus - 1
  BY EpochListFields, LocationModulusAssumption DEF Locations
<1>2. (location - list.minimumLocation) % LocationModulus
         = location - list.minimumLocation
  BY <1>1, LocationModulusAssumption, ResidueOfSmall
<1>3. minimum \in Locations /\ minimum < location
  BY <1>2, EpochListFields, LocationModulusAssumption,
     MaximumLocationSpanAssumption DEF Locations
<1>4. res = [list EXCEPT !.minimumLocation = minimum]
  BY DEF RaiseMinimumLocation
<1> HIDE DEF minimum
<1>5. /\ res \in EpochListType
      /\ res.minimumLocation = minimum
      /\ res.epochs = list.epochs
      /\ res.synchronizingEpochs = list.synchronizingEpochs
      /\ res.synchronizedEpochs = list.synchronizedEpochs
  BY <1>3, <1>4 DEF EpochListType
<1> HIDE DEF res
<1> QED BY <1>3, <1>5 DEF res, Ordered, HasCurrentEpoch

LEMMA ReinitializeOK ==
    ASSUME NEW list \in EpochListType
    PROVE  /\ Reinitialize(list) \in EpochListType
           /\ EpochListOK(Reinitialize(list))
           /\ MaximumLocation(Reinitialize(list)) = 0
           /\ Reinitialize(list).minimumLocation = 0
<1> DEFINE res == Reinitialize(list)
<1>1. 0 \in EpochIDs /\ 0 \in Locations /\ <<>> \in Seq(EpochInfo) /\ Len(<<>>) = 0
  BY LocationModulusAssumption, EpochIDModulusAssumption, EmptySeq
  DEF EpochIDs, Locations
<1>2. /\ res \in EpochListType
      /\ res.minimumLocation = 0
      /\ res.epochs = <<>>
      /\ res.synchronizingEpochs = 0
      /\ res.synchronizedEpochs = 0
  BY <1>1 DEF Reinitialize, EpochListType
<1> HIDE DEF res
<1> QED BY <1>1, <1>2 DEF res, EpochListOK, MaximumLocation

(* Only the wakeup channel changes. *)
LEMMA SetWakeup ==
    ASSUME NEW list \in EpochListType, EpochListOK(list), NEW w \in BOOLEAN
    PROVE  LET res == [list EXCEPT !.wakeup = w]
           IN  /\ res \in EpochListType
               /\ EpochListOK(res)
               /\ HasCurrentEpoch(list) => HasCurrentEpoch(res)
               /\ res.epochs = list.epochs
               /\ res.synchronizingEpochs = list.synchronizingEpochs
<1> DEFINE res == [list EXCEPT !.wakeup = w]
<1>1. /\ res \in EpochListType
      /\ res.minimumLocation = list.minimumLocation
      /\ res.epochs = list.epochs
      /\ res.synchronizingEpochs = list.synchronizingEpochs
      /\ res.synchronizedEpochs = list.synchronizedEpochs
  BY DEF EpochListType
<1> HIDE DEF res
<1> QED BY <1>1 DEF res, EpochListOK, HasCurrentEpoch

(* FinalizeWriteUpToLocation leaves a well-formed list with a current      *)
(* epoch: GetCurrentEpochState() does not panic.  Objects are not empty,   *)
(* so the location is not zero.                                            *)
LEMMA FinalizeWriteUpToLocationOK ==
    ASSUME NEW list \in EpochListType, EpochListOK(list),
           NEW location \in Locations, location > 0, NEW seed \in Nat
    PROVE  LET res == FinalizeWriteUpToLocation(list, location, seed)
           IN  /\ res \in EpochListType
               /\ EpochListOK(res)
               /\ HasCurrentEpoch(res)
<1> DEFINE maximum == MaximumLocation(list)
           base == IF location < maximum THEN Reinitialize(list) ELSE list
           extended == ExtendEpochs(base, location, seed)
           raised == RaiseMinimumLocation(extended, location)
           pruned == PruneStaleEpochs(raised)
           res == FinalizeWriteUpToLocation(list, location, seed)
<1>0. /\ maximum \in Nat /\ maximum \in Locations /\ location \in Nat
      /\ list.minimumLocation <= maximum
      /\ \A i \in 1 .. Len(list.epochs) :
            list.epochs[i].maximumLocation <= maximum
  BY MaximumLocationOK, LocationModulusAssumption DEF Locations
<1>1. CASE Ahead(location, maximum)
  <2>0. res = [pruned EXCEPT !.wakeup = TRUE]
    BY <1>1 DEF FinalizeWriteUpToLocation
  <2> HIDE DEF maximum
  <2>1. location # maximum
    <3> SUFFICES ASSUME location = maximum PROVE FALSE
      OBVIOUS
    <3>1. (location - maximum) % LocationModulus = 0
      BY <1>0, LocationModulusAssumption, ResidueOfSmall
    <3> QED BY <1>1, <3>1 DEF Ahead
  <2>2. /\ base \in EpochListType /\ EpochListOK(base)
        /\ MaximumLocation(base) <= location
        /\ base.minimumLocation < location
    <3>1. CASE location < maximum
      BY <1>0, <3>1, ReinitializeOK
    <3>2. CASE ~(location < maximum)
      BY <1>0, <2>1, <3>2, EpochListFields DEF maximum
    <3> QED BY <3>1, <3>2
  <2> HIDE DEF base
  <2>3. /\ extended \in EpochListType
        /\ Ordered(extended)
        /\ HasCurrentEpoch(extended)
        /\ extended.minimumLocation < location
        /\ extended.epochs[Len(extended.epochs)].maximumLocation = location
    BY <2>2, ExtendEpochsOK
  <2> HIDE DEF extended
  <2>4. /\ raised \in EpochListType
        /\ Ordered(raised)
        /\ HasCurrentEpoch(raised)
        /\ raised.minimumLocation
              < raised.epochs[Len(raised.epochs)].maximumLocation
    BY <2>3, RaiseMinimumLocationOK
  <2>5. raised.epochs[Len(raised.epochs)].maximumLocation
              > raised.minimumLocation
    <3>1. Len(raised.epochs) \in 1 .. Len(raised.epochs)
      BY <2>4, EpochListFields DEF HasCurrentEpoch
    <3> QED BY <2>4, <3>1, EpochListFields
  <2> HIDE DEF raised
  <2>6. /\ pruned \in EpochListType /\ EpochListOK(pruned)
        /\ HasCurrentEpoch(pruned)
    BY <2>4, <2>5, PruneStaleEpochsOK
  <2> HIDE DEF pruned
  <2> QED BY <2>0, <2>6, SetWakeup
<1>2. CASE ~Ahead(location, maximum) /\ Len(list.epochs) = list.synchronizingEpochs
  <2>1. res = AppendEpoch(list, maximum, seed)
    BY <1>2 DEF FinalizeWriteUpToLocation
  <2>2. Ordered(list)
    BY DEF EpochListOK, Ordered
  <2> HIDE DEF maximum
  <2>3. /\ res \in EpochListType
        /\ Ordered(res)
        /\ HasCurrentEpoch(res)
        /\ res.minimumLocation = list.minimumLocation
        /\ Len(res.epochs) = Len(list.epochs) + 1
        /\ \A i \in 1 .. Len(list.epochs) : res.epochs[i] = list.epochs[i]
        /\ res.epochs[Len(res.epochs)].maximumLocation = maximum
    BY <1>0, <1>2, <2>1, <2>2, AppendEpochOK
  <2> HIDE DEF res
  <2>4. \A i \in 1 .. Len(res.epochs) :
            res.minimumLocation <= res.epochs[i].maximumLocation
    <3> SUFFICES ASSUME NEW i \in 1 .. Len(res.epochs)
                 PROVE  res.minimumLocation <= res.epochs[i].maximumLocation
      OBVIOUS
    <3>1. CASE i = Len(res.epochs)
      BY <1>0, <2>3, <3>1
    <3>2. CASE i # Len(res.epochs)
      <4>1. i \in 1 .. Len(list.epochs)
        BY <2>3, <3>2, EpochListFields
      <4> QED BY <2>3, <4>1 DEF EpochListOK
    <3> QED BY <3>1, <3>2
  <2> QED BY <2>3, <2>4 DEF EpochListOK, Ordered, res
<1>3. CASE ~Ahead(location, maximum) /\ Len(list.epochs) # list.synchronizingEpochs
  <2>1. res = list
    BY <1>3 DEF FinalizeWriteUpToLocation
  <2>2. HasCurrentEpoch(list)
    BY <1>3, EpochListFields DEF EpochListOK, HasCurrentEpoch
  <2> QED BY <2>1, <2>2
<1> QED BY <1>1, <1>2, <1>3

(* Discarding, and starting and completing a synchronization. *)
LEMMA DiscardUpToLocationOK ==
    ASSUME NEW list \in EpochListType, EpochListOK(list),
           NEW location \in Locations
    PROVE  /\ DiscardUpToLocation(list, location) \in EpochListType
           /\ EpochListOK(DiscardUpToLocation(list, location))
<1> DEFINE raised == [list EXCEPT !.minimumLocation = location]
           pruned == PruneStaleEpochs(raised)
<1>1. CASE list.minimumLocation < location
  <2>0. DiscardUpToLocation(list, location) = [pruned EXCEPT !.wakeup = TRUE]
    BY <1>1 DEF DiscardUpToLocation
  <2>1. /\ raised \in EpochListType
        /\ raised.epochs = list.epochs
        /\ raised.synchronizingEpochs = list.synchronizingEpochs
        /\ raised.synchronizedEpochs = list.synchronizedEpochs
    BY DEF EpochListType
  <2> HIDE DEF raised
  <2>2. Ordered(raised)
    BY <2>1 DEF EpochListOK, Ordered
  <2>3. pruned \in EpochListType /\ EpochListOK(pruned)
    BY <2>1, <2>2, PruneStaleEpochsOK
  <2> HIDE DEF pruned
  <2> QED BY <2>0, <2>3, SetWakeup
<1>2. CASE ~(list.minimumLocation < location)
  BY <1>2 DEF DiscardUpToLocation
<1> QED BY <1>1, <1>2

LEMMA NotifySyncStartingOK ==
    ASSUME NEW list \in EpochListType, EpochListOK(list), NEW final \in BOOLEAN
    PROVE  /\ NotifySyncStarting(list, final) \in EpochListType
           /\ EpochListOK(NotifySyncStarting(list, final))
<1> DEFINE res == NotifySyncStarting(list, final)
<1>1. Len(list.epochs) \in Nat /\ (list.closedForWriting \/ final) \in BOOLEAN
  BY EpochListFields
<1>2. /\ res \in EpochListType
      /\ res.minimumLocation = list.minimumLocation
      /\ res.epochs = list.epochs
      /\ res.synchronizingEpochs = Len(list.epochs)
      /\ res.synchronizedEpochs = list.synchronizedEpochs
  BY <1>1 DEF NotifySyncStarting, EpochListType
<1> HIDE DEF res
<1> QED BY <1>1, <1>2, EpochListFields DEF res, EpochListOK

LEMMA NotifySyncCompletedOK ==
    ASSUME NEW list \in EpochListType, EpochListOK(list)
    PROVE  /\ NotifySyncCompleted(list) \in EpochListType
           /\ EpochListOK(NotifySyncCompleted(list))
<1> DEFINE res == NotifySyncCompleted(list)
<1>1. (list.wakeup /\ list.synchronizingEpochs # Len(list.epochs)) \in BOOLEAN
  BY EpochListFields
<1>2. /\ res \in EpochListType
      /\ res.minimumLocation = list.minimumLocation
      /\ res.epochs = list.epochs
      /\ res.synchronizingEpochs = list.synchronizingEpochs
      /\ res.synchronizedEpochs = list.synchronizingEpochs
  BY <1>1 DEF NotifySyncCompleted, EpochListType
<1> HIDE DEF res
<1> QED BY <1>2, EpochListFields DEF res, EpochListOK

-----------------------------------------------------------------------------
(* A state file that GetPersistentState may have written: the increases    *)
(* add up to locations.                                                    *)
AddUpTo(ps, m) ==
    /\ m[0] = ps.minimumLocation
    /\ \A i \in 1 .. Len(ps.epochs) :
          m[i] = m[i - 1] + ps.epochs[i].locationIncrease
    /\ \A i, j \in 0 .. Len(ps.epochs) : i <= j => m[i] <= m[j]

PersistentStateOK(ps) ==
    /\ ps \in PersistentStateType
    /\ \E m \in [0 .. Len(ps.epochs) -> Locations] : AddUpTo(ps, m)

PersistedEpochInfo == [hashSeed : Nat, locationIncrease : Locations]

(* The location that epoch i of the list starts after, or ends at. *)
EpochEnds(list) ==
    [i \in 0 .. list.synchronizedEpochs |->
        IF i = 0 THEN list.minimumLocation ELSE list.epochs[i].maximumLocation]

(* What the state file says of the epochs that are on disk. *)
LEMMA GetPersistentStateFields ==
    ASSUME NEW list \in EpochListType, EpochListOK(list)
    PROVE  LET ps == GetPersistentState(list)
           IN  /\ ps \in PersistentStateType
               /\ Len(ps.epochs) = list.synchronizedEpochs
               /\ EpochEnds(list) \in [0 .. Len(ps.epochs) -> Locations]
               /\ AddUpTo(ps, EpochEnds(list))
               /\ ps.minimumEpochID = list.minimumEpochID
               /\ ps.minimumLocation = list.minimumLocation
               /\ \A i \in 1 .. Len(ps.epochs) :
                     ps.epochs[i].hashSeed = list.epochs[i].hashSeed
<1> DEFINE ps == GetPersistentState(list)
           n == list.synchronizedEpochs
           m == [i \in 0 .. n |-> IF i = 0 THEN list.minimumLocation
                                 ELSE list.epochs[i].maximumLocation]
           info(i) == [hashSeed |-> list.epochs[i].hashSeed,
                       locationIncrease |->
                          (list.epochs[i].maximumLocation -
                             (IF i = 1 THEN list.minimumLocation
                              ELSE list.epochs[i - 1].maximumLocation))
                          % LocationModulus]
           infos == [i \in 1 .. n |-> info(i)]
<1>1. n \in Nat /\ n <= Len(list.epochs)
  BY EpochListFields DEF EpochListOK
<1> HIDE DEF n
<1>2. m \in [0 .. n -> Locations]
  BY <1>1, EpochListFields
<1>3. \A i, j \in 0 .. n : i <= j => m[i] <= m[j]
  <2> SUFFICES ASSUME NEW i \in 0 .. n, NEW j \in 0 .. n, i <= j
               PROVE  m[i] <= m[j]
    OBVIOUS
  <2>1. CASE i = 0 /\ j = 0
    BY <2>1, EpochListFields
  <2>2. CASE i = 0 /\ j # 0
    <3>1. j \in 1 .. Len(list.epochs)
      BY <1>1, <2>2
    <3>2. list.minimumLocation <= list.epochs[j].maximumLocation
      BY <3>1 DEF EpochListOK
    <3> QED BY <2>2, <3>2
  <2>3. CASE i # 0
    <3>1. i \in 1 .. Len(list.epochs) /\ j \in 1 .. Len(list.epochs) /\ j # 0
      BY <1>1, <2>3
    <3>2. list.epochs[i].maximumLocation <= list.epochs[j].maximumLocation
      BY <3>1 DEF EpochListOK
    <3> QED BY <2>3, <3>1, <3>2
  <2> QED BY <2>1, <2>2, <2>3
<1>4. \A i \in 1 .. n :
         /\ i - 1 \in 0 .. n /\ i \in 0 .. n
         /\ m[i] \in Nat /\ m[i - 1] \in Nat
         /\ m[i] - m[i - 1] \in 0 .. LocationModulus - 1
  <2> HIDE DEF m
  <2> TAKE i \in 1 .. n
  <2>1. i - 1 \in 0 .. n /\ i \in 0 .. n /\ i - 1 <= i
    BY <1>1
  <2>2. m[i] \in Locations /\ m[i - 1] \in Locations /\ m[i - 1] <= m[i]
    BY <1>2, <1>3, <2>1
  <2> QED BY <2>1, <2>2, LocationModulusAssumption DEF Locations
<1>5. \A i \in 1 .. n : info(i).locationIncrease = (m[i] - m[i - 1]) % LocationModulus
  BY <1>1
<1>6. \A i \in 1 .. n : info(i).hashSeed \in Nat
  BY <1>1, EpochListFields
<1> HIDE DEF m
<1>7. \A i \in 1 .. n : /\ info(i).locationIncrease = m[i] - m[i - 1]
                       /\ info(i).locationIncrease \in Locations
  BY <1>4, <1>5, LocationModulusAssumption, ResidueOfSmall DEF Locations
<1>8. \A i \in 1 .. n : info(i) \in PersistedEpochInfo
  BY <1>6, <1>7 DEF PersistedEpochInfo
<1>9. ps = [minimumEpochID |-> list.minimumEpochID,
            minimumLocation |-> list.minimumLocation,
            epochs |-> infos]
  BY DEF GetPersistentState, n
<1> HIDE DEF info
<1>10. infos \in Seq(PersistedEpochInfo) /\ Len(infos) = n
       /\ \A i \in 1 .. n : infos[i] = info(i)
  BY <1>1, <1>8
<1> HIDE DEF infos
<1>11. ps \in PersistentStateType /\ ps.epochs = infos
       /\ ps.minimumLocation = list.minimumLocation
  BY <1>9, <1>10, EpochListFields DEF PersistentStateType, PersistedEpochInfo
<1>12. m[0] = list.minimumLocation
  BY <1>1 DEF m
<1>16. /\ ps.minimumEpochID = list.minimumEpochID
       /\ ps.minimumLocation = list.minimumLocation
  BY <1>9
<1>17. \A i \in 1 .. n : ps.epochs[i].hashSeed = list.epochs[i].hashSeed
  BY <1>10, <1>11 DEF info
<1> HIDE DEF ps
<1>13. \A i \in 1 .. n : m[i] = m[i - 1] + infos[i].locationIncrease
  BY <1>4, <1>7, <1>10
<1>14. AddUpTo(ps, m)
  BY <1>3, <1>10, <1>11, <1>12, <1>13 DEF AddUpTo
<1>18. m = EpochEnds(list)
  BY DEF EpochEnds, m, n
<1> QED BY <1>2, <1>10, <1>11, <1>14, <1>16, <1>17, <1>18 DEF ps, n

LEMMA GetPersistentStateOK ==
    ASSUME NEW list \in EpochListType, EpochListOK(list)
    PROVE  PersistentStateOK(GetPersistentState(list))
  BY GetPersistentStateFields DEF PersistentStateOK

(* The list that NewPersistentEpochList() fills in. *)
IsLoaded(list, id, location, epochs, n) ==
    /\ id \in EpochIDs /\ location \in Locations /\ epochs \in Seq(EpochInfo) /\ n \in Nat
    /\ list = [EmptyEpochList(id, location) EXCEPT !.epochs = epochs,
                                                   !.synchronizingEpochs = n,
                                                   !.synchronizedEpochs = n]

LEMMA LoadedFields ==
    ASSUME NEW id, NEW location, NEW epochs, NEW n, NEW list,
           IsLoaded(list, id, location, epochs, n)
    PROVE  /\ list \in EpochListType
           /\ list.minimumEpochID = id
           /\ list.minimumLocation = location
           /\ list.epochs = epochs
           /\ list.synchronizingEpochs = n
           /\ list.synchronizedEpochs = n
  BY DEF EpochListType, EmptyEpochList, IsLoaded

LEMMA LoadedOpen ==
    ASSUME NEW id, NEW location, NEW epochs, NEW n, NEW list,
           IsLoaded(list, id, location, epochs, n)
    PROVE  list.closedForWriting = FALSE
  BY DEF EmptyEpochList, IsLoaded

(* Reloading undoes the delta encoding. *)
LEMMA ReloadedMaximumOK ==
    ASSUME NEW ps \in PersistentStateType,
           NEW m \in [0 .. Len(ps.epochs) -> Locations], AddUpTo(ps, m)
    PROVE  \A i \in 0 .. Len(ps.epochs) : ReloadedMaximum(ps)[i] = m[i]
<1> DEFINE n == Len(ps.epochs)
           step(f, i) == IF i = 0 THEN ps.minimumLocation
                         ELSE f[i - 1] + ps.epochs[i].locationIncrease
           f == ReloadedMaximum(ps)
<1>1. n \in Nat
  BY DEF PersistentStateType
<1> HIDE DEF n
<1>2. m = [i \in 0 .. n |-> step(m, i)]
  <2>1. m = [i \in 0 .. n |-> m[i]]
    BY DEF n
  <2>2. ASSUME NEW i \in 0 .. n
        PROVE  m[i] = step(m, i)
    <3>1. CASE i = 0
      BY <3>1 DEF AddUpTo
    <3>2. CASE i # 0
      <4>1. i \in 1 .. n
        BY <1>1, <3>2
      <4> QED BY <3>2, <4>1 DEF AddUpTo, n
    <3> QED BY <3>1, <3>2
  <2> HIDE DEF step
  <2> QED BY <2>1, <2>2
<1>3. f = CHOOSE g : g = [i \in 0 .. n |-> step(g, i)]
  BY DEF ReloadedMaximum, n
<1> HIDE DEF f, step
<1>4. f = [i \in 0 .. n |-> step(f, i)]
  BY <1>2, <1>3
<1> SUFFICES ASSUME NEW k \in 0 .. n, f[k] # m[k]
             PROVE  FALSE
  BY DEF f, n
<1> DEFINE T == {i \in 0 .. n : f[i] # m[i]}
<1>5. T \subseteq Nat /\ T # {}
  BY <1>1
<1>6. PICK x \in T : \A y \in T : x <= y
  <2> HIDE DEF T
  <2> QED BY <1>5, LeastNatural, Zenon
<1>7. x # 0
  BY <1>1, <1>2, <1>4, <1>6 DEF step
<1>8. x \in 1 .. n /\ x - 1 \in 0 .. n /\ f[x - 1] = m[x - 1]
  BY <1>1, <1>6, <1>7
<1>9. f[x] = m[x]
  BY <1>1, <1>2, <1>4, <1>8 DEF step
<1> QED BY <1>6, <1>9

LEMMA NewPersistentEpochListOK ==
    ASSUME NEW ps, PersistentStateOK(ps)
    PROVE  /\ NewPersistentEpochList(ps) \in EpochListType
           /\ EpochListOK(NewPersistentEpochList(ps))
           /\ InitialLocation(ps) \in Locations
<1> DEFINE maximum == ReloadedMaximum(ps)
           n == Len(ps.epochs)
           infos == [i \in 1 .. n + 1 - 1 |->
                        [hashSeed |-> ps.epochs[i + 1 - 1].hashSeed,
                         maximumLocation |->
                            maximum[i + 1 - 1] % LocationModulus]]
           start == EmptyEpochList(ps.minimumEpochID, ps.minimumLocation)
           loaded == [start EXCEPT !.epochs = infos,
                                   !.synchronizingEpochs = n + 1 - 1,
                                   !.synchronizedEpochs = n + 1 - 1]
<1>1. PICK m \in [0 .. n -> Locations] : AddUpTo(ps, m)
  BY DEF PersistentStateOK
<1>2. ps \in PersistentStateType
  BY DEF PersistentStateOK
<1>3. /\ n \in Nat
      /\ ps.minimumEpochID \in EpochIDs
      /\ ps.minimumLocation \in Locations
      /\ \A i \in 1 .. n : ps.epochs[i].hashSeed \in Nat
  <2>1. ps.epochs \in Seq(PersistedEpochInfo)
    BY <1>2 DEF PersistentStateType, PersistedEpochInfo
  <2>2. \A i \in 1 .. n : ps.epochs[i] \in PersistedEpochInfo
    BY <2>1
  <2> QED BY <1>2, <2>1, <2>2 DEF PersistentStateType, PersistedEpochInfo
<1>4. \A i \in 0 .. n : maximum[i] = m[i]
  BY <1>1, <1>2, ReloadedMaximumOK
<1> HIDE DEF maximum
<1>5. \A i \in 0 .. n : /\ maximum[i] \in Locations
                       /\ maximum[i] < LocationModulus
                       /\ maximum[i] % LocationModulus = maximum[i]
  BY <1>1, <1>4, SmallLocation
<1>6. {i \in 1 .. n : maximum[i] >= LocationModulus} = {}
  BY <1>3, <1>5, LocationModulusAssumption DEF Locations
<1>7. NewPersistentEpochList(ps) = PruneStaleEpochs(loaded)
  BY <1>6 DEF NewPersistentEpochList, maximum
<1>8. InitialLocation(ps) \in Locations
  BY <1>3, <1>5 DEF InitialLocation, maximum
<1>9. /\ \A i \in 1 .. n : /\ infos[i] \in EpochInfo
                           /\ infos[i].maximumLocation = m[i]
      /\ infos \in Seq(EpochInfo)
      /\ Len(infos) = n
  <2>1. \A i \in 1 .. n : /\ infos[i] = [hashSeed |-> ps.epochs[i].hashSeed,
                                         maximumLocation |-> maximum[i]]
                         /\ i \in 0 .. n
    BY <1>3, <1>5
  <2>2. \A i \in 1 .. n : infos[i] \in EpochInfo /\ infos[i].maximumLocation = m[i]
    BY <1>3, <1>4, <1>5, <2>1 DEF EpochInfo
  <2>3. infos \in [1 .. n -> EpochInfo]
    <3>1. n + 1 - 1 = n
      BY <1>3
    <3>2. DOMAIN infos = 1 .. n /\ infos = [i \in DOMAIN infos |-> infos[i]]
      BY <3>1
    <3> HIDE DEF infos
    <3> QED BY <2>2, <3>2
  <2> HIDE DEF infos
  <2> QED BY <1>3, <2>2, <2>3
<1> HIDE DEF infos
<1>10. /\ loaded \in EpochListType
       /\ loaded.epochs = infos
       /\ loaded.synchronizingEpochs = n
       /\ loaded.synchronizedEpochs = n
  <2>1. n + 1 - 1 = n
    BY <1>3
  <2>2. IsLoaded(loaded, ps.minimumEpochID, ps.minimumLocation, infos, n)
    BY <1>3, <1>9, <2>1 DEF IsLoaded
  <2> HIDE DEF loaded, start, n
  <2> QED BY <2>2, LoadedFields
<1> HIDE DEF loaded
<1>11. Ordered(loaded)
  BY <1>1, <1>3, <1>9, <1>10 DEF Ordered, AddUpTo
<1> QED BY <1>7, <1>8, <1>10, <1>11, PruneStaleEpochsOK
-----------------------------------------------------------------------------
(* The fields of a list that was pruned. *)
LEMMA PruneStaleEpochsFields ==
    ASSUME NEW list \in EpochListType
    PROVE  LET n == EpochsToPrune(list)
               res == PruneStaleEpochs(list)
           IN  /\ n \in 0 .. Len(list.epochs)
               /\ res \in EpochListType
               /\ res.minimumEpochID = (list.minimumEpochID + n) % EpochIDModulus
               /\ res.minimumLocation = list.minimumLocation
               /\ res.closedForWriting = list.closedForWriting
               /\ res.synchronizingEpochs = Monus(list.synchronizingEpochs, n)
               /\ res.synchronizedEpochs = Monus(list.synchronizedEpochs, n)
               /\ Len(res.epochs) = Len(list.epochs) - n
               /\ \A i \in 1 .. Len(list.epochs) - n :
                     res.epochs[i] = list.epochs[i + n]
<1> DEFINE n == EpochsToPrune(list)
           res == PruneStaleEpochs(list)
           len == Len(list.epochs)
           tail == SubSeq(list.epochs, n + 1, len)
<1>1. /\ list.epochs \in Seq(EpochInfo) /\ len \in Nat
      /\ list.minimumEpochID \in Nat
      /\ list.synchronizingEpochs \in Nat /\ list.synchronizedEpochs \in Nat
      /\ \A i \in 1 .. len : list.epochs[i] \in EpochInfo
  BY EpochListFields
<1>2. n \in 0 .. len
  BY EpochsToPruneProperties
<1> HIDE DEF n
<1>3. res = [list EXCEPT
                !.minimumEpochID = (list.minimumEpochID + n) % EpochIDModulus,
                !.epochs = tail,
                !.synchronizingEpochs = Monus(list.synchronizingEpochs, n),
                !.synchronizedEpochs = Monus(list.synchronizedEpochs, n)]
  BY DEF PruneStaleEpochs, PruneStaleEpochsBy, n
<1>4. /\ tail \in Seq(EpochInfo)
      /\ Len(tail) = len - n
      /\ \A i \in 1 .. len - n : tail[i] = list.epochs[i + n]
  <2>1. \A i \in n + 1 .. len : list.epochs[i] \in EpochInfo
    BY <1>1, <1>2
  <2>2. /\ tail \in Seq(EpochInfo)
        /\ Len(tail) = IF n + 1 <= len THEN len - (n + 1) + 1 ELSE 0
        /\ \A i \in 1 .. len - (n + 1) + 1 : tail[i] = list.epochs[n + 1 + i - 1]
    BY <1>1, <1>2, <2>1, SubSeqProperties
  <2> QED BY <1>1, <1>2, <2>2
<1>5. (list.minimumEpochID + n) % EpochIDModulus \in EpochIDs
  <2>1. list.minimumEpochID + n \in Int
    BY <1>1, <1>2
  <2> QED BY <2>1, EpochIDModulusAssumption, ResidueInRange DEF EpochIDs
<1>6. /\ Monus(list.synchronizingEpochs, n) \in Nat
      /\ Monus(list.synchronizedEpochs, n) \in Nat
  BY <1>1, <1>2 DEF Monus
<1> HIDE DEF tail
<1>7. /\ res \in EpochListType
      /\ res.epochs = tail
      /\ res.minimumEpochID = (list.minimumEpochID + n) % EpochIDModulus
      /\ res.minimumLocation = list.minimumLocation
      /\ res.closedForWriting = list.closedForWriting
      /\ res.synchronizingEpochs = Monus(list.synchronizingEpochs, n)
      /\ res.synchronizedEpochs = Monus(list.synchronizedEpochs, n)
  BY <1>3, <1>4, <1>5, <1>6 DEF EpochListType
<1> HIDE DEF res, len
<1> QED BY <1>2, <1>4, <1>7 DEF n, res, len

(* The epochs of res are those of list without the first n, which may have *)
(* been raised, possibly followed by a new one that has the given seed.    *)
Follows(list, res, n, seed) ==
    /\ n \in Nat
    /\ res.synchronizingEpochs = Monus(list.synchronizingEpochs, n)
    /\ res.synchronizedEpochs = Monus(list.synchronizedEpochs, n)
    /\ list.minimumLocation <= res.minimumLocation
    /\ \A j \in 1 .. Len(res.epochs) :
          \/ /\ j + n <= Len(list.epochs)
             /\ res.epochs[j].hashSeed = list.epochs[j + n].hashSeed
             /\ list.epochs[j + n].maximumLocation
                   <= res.epochs[j].maximumLocation
          \/ /\ j + n = Len(list.epochs) + 1
             /\ res.epochs[j].hashSeed = seed

LEMMA MaximumOfPruned ==
    ASSUME NEW list \in EpochListType, Ordered(list)
    PROVE  LET res == PruneStaleEpochs(list)
           IN  \/ /\ res.epochs = <<>>
                  /\ MaximumLocation(res) = list.minimumLocation
                  /\ \A i \in 1 .. Len(list.epochs) :
                        list.epochs[i].maximumLocation <= list.minimumLocation
               \/ /\ list.epochs # <<>>
                  /\ MaximumLocation(res) =
                        list.epochs[Len(list.epochs)].maximumLocation
                  /\ MaximumLocation(res) > list.minimumLocation
<1> DEFINE n == EpochsToPrune(list)
           res == PruneStaleEpochs(list)
           len == Len(list.epochs)
<1>1. /\ list.epochs \in Seq(EpochInfo) /\ len \in Nat
      /\ list.minimumLocation \in Nat
      /\ \A i \in 1 .. len : list.epochs[i].maximumLocation \in Nat
  BY EpochListFields
<1>2. /\ n \in 0 .. len
      /\ \A i \in 1 .. n : list.epochs[i].maximumLocation <= list.minimumLocation
      /\ n < len => list.epochs[n + 1].maximumLocation > list.minimumLocation
  BY EpochsToPruneProperties
<1>3. /\ res \in EpochListType
      /\ res.minimumLocation = list.minimumLocation
      /\ Len(res.epochs) = len - n
      /\ \A i \in 1 .. len - n : res.epochs[i] = list.epochs[i + n]
  BY PruneStaleEpochsFields
<1>4. res.epochs \in Seq(EpochInfo)
  BY <1>3, EpochListFields
<1> HIDE DEF n, res
<1>5. CASE n = len
  <2>1. res.epochs = <<>>
    BY <1>1, <1>3, <1>4, <1>5, EmptySeq
  <2> QED BY <1>1, <1>2, <1>3, <1>5, <2>1 DEF MaximumLocation, res
<1>6. CASE n < len
  <2>1. res.epochs # <<>> /\ Len(res.epochs) = len - n /\ len - n \in 1 .. len - n
    BY <1>1, <1>2, <1>3, <1>4, <1>6, EmptySeq
  <2>2. res.epochs[len - n] = list.epochs[len]
    <3>1. (len - n) + n = len
      BY <1>1, <1>2
    <3> QED BY <1>3, <2>1, <3>1
  <2>3. MaximumLocation(res) = list.epochs[len].maximumLocation
    BY <2>1, <2>2 DEF MaximumLocation
  <2>4. list.epochs[len].maximumLocation > list.minimumLocation
    <3>1. n + 1 \in 1 .. len /\ len \in 1 .. len /\ n + 1 <= len
      BY <1>1, <1>2, <1>6
    <3>2. list.epochs[n + 1].maximumLocation <= list.epochs[len].maximumLocation
      BY <3>1 DEF Ordered
    <3> QED BY <1>1, <1>2, <1>6, <3>1, <3>2
  <2>5. list.epochs # <<>>
    BY <1>1, <1>2, <1>6, EmptySeq
  <2> QED BY <2>3, <2>4, <2>5 DEF res
<1> QED BY <1>1, <1>2, <1>5, <1>6
LEMMA WakeupFields ==
    ASSUME NEW list \in EpochListType
    PROVE  LET res == [list EXCEPT !.wakeup = TRUE]
           IN  /\ res.closedForWriting = list.closedForWriting
               /\ res.minimumEpochID = list.minimumEpochID
               /\ res.minimumLocation = list.minimumLocation
               /\ res.epochs = list.epochs
               /\ res.synchronizingEpochs = list.synchronizingEpochs
               /\ res.synchronizedEpochs = list.synchronizedEpochs
  BY DEF EpochListType

(* Discarding what was stored so far only prunes. *)
LEMMA DiscardUpToLocationFollows ==
    ASSUME NEW list \in EpochListType, EpochListOK(list),
           NEW location \in Locations, location <= MaximumLocation(list),
           NEW seed
    PROVE  LET res == DiscardUpToLocation(list, location)
           IN  /\ \E n : Follows(list, res, n, seed)
               /\ MaximumLocation(res) = MaximumLocation(list)
<1> DEFINE raised == [list EXCEPT !.minimumLocation = location]
           n == EpochsToPrune(raised)
           pruned == PruneStaleEpochs(raised)
           res == DiscardUpToLocation(list, location)
<1>0. /\ list.minimumLocation \in Nat /\ Len(list.epochs) \in Nat
      /\ list.synchronizingEpochs \in Nat /\ list.synchronizedEpochs \in Nat
      /\ \A i \in 1 .. Len(list.epochs) : list.epochs[i].maximumLocation \in Nat
      /\ list.epochs \in Seq(EpochInfo)
  BY EpochListFields
<1>1. CASE list.minimumLocation < location
  <2>1. res = [pruned EXCEPT !.wakeup = TRUE]
    BY <1>1 DEF DiscardUpToLocation
  <2>2. /\ raised \in EpochListType
        /\ raised.epochs = list.epochs
        /\ raised.minimumLocation = location
        /\ raised.synchronizingEpochs = list.synchronizingEpochs
        /\ raised.synchronizedEpochs = list.synchronizedEpochs
    BY DEF EpochListType
  <2> HIDE DEF raised
  <2>3. Ordered(raised)
    BY <2>2 DEF EpochListOK, Ordered
  <2>4. /\ n \in 0 .. Len(list.epochs)
        /\ pruned \in EpochListType
        /\ pruned.minimumLocation = location
        /\ pruned.synchronizingEpochs = Monus(list.synchronizingEpochs, n)
        /\ pruned.synchronizedEpochs = Monus(list.synchronizedEpochs, n)
        /\ Len(pruned.epochs) = Len(list.epochs) - n
        /\ \A i \in 1 .. Len(list.epochs) - n : pruned.epochs[i] = list.epochs[i + n]
    BY <2>2, PruneStaleEpochsFields
  <2>5. MaximumLocation(pruned) = MaximumLocation(list)
    <3>1. CASE list.epochs = <<>>
      <4>1. MaximumLocation(list) = list.minimumLocation
        BY <3>1 DEF MaximumLocation
      <4> QED BY <1>0, <1>1, <4>1, LocationModulusAssumption DEF Locations
    <3>2. CASE list.epochs # <<>>
      <4>1. MaximumLocation(list) = list.epochs[Len(list.epochs)].maximumLocation
        BY <3>2 DEF MaximumLocation
      <4>2. Len(list.epochs) \in 1 .. Len(list.epochs)
        BY <1>0, <3>2, EmptySeq
      <4>3. \/ /\ MaximumLocation(pruned) = location
               /\ list.epochs[Len(list.epochs)].maximumLocation <= location
            \/ MaximumLocation(pruned) = list.epochs[Len(list.epochs)].maximumLocation
        BY <2>2, <2>3, <4>2, MaximumOfPruned
      <4> QED BY <1>0, <4>1, <4>2, <4>3, LocationModulusAssumption DEF Locations
    <3> QED BY <3>1, <3>2
  <2> HIDE DEF n, pruned
  <2>6. /\ res.minimumLocation = pruned.minimumLocation
        /\ res.epochs = pruned.epochs
        /\ res.synchronizingEpochs = pruned.synchronizingEpochs
        /\ res.synchronizedEpochs = pruned.synchronizedEpochs
    BY <2>1, <2>4, WakeupFields
  <2>7. MaximumLocation(res) = MaximumLocation(list)
    BY <2>5, <2>6 DEF MaximumLocation
  <2> HIDE DEF res
  <2>8. ASSUME NEW j \in 1 .. Len(res.epochs)
        PROVE  /\ j + n <= Len(list.epochs)
               /\ res.epochs[j].hashSeed = list.epochs[j + n].hashSeed
               /\ list.epochs[j + n].maximumLocation
                     <= res.epochs[j].maximumLocation
    <3>1. j \in 1 .. Len(list.epochs) - n /\ j + n \in 1 .. Len(list.epochs)
      BY <1>0, <2>4, <2>6
    <3>2. res.epochs[j] = list.epochs[j + n]
      BY <2>4, <2>6, <3>1
    <3> QED BY <1>0, <3>1, <3>2
  <2>9. Follows(list, res, n, seed)
    <3>1. n \in Nat /\ list.minimumLocation <= res.minimumLocation
      BY <1>0, <1>1, <2>4, <2>6, LocationModulusAssumption DEF Locations
    <3> QED BY <2>4, <2>6, <2>8, <3>1 DEF Follows
  <2> QED BY <2>7, <2>9 DEF res
<1>2. CASE ~(list.minimumLocation < location)
  <2>1. res = list
    BY <1>2 DEF DiscardUpToLocation
  <2>2. Follows(list, list, 0, seed)
    BY <1>0 DEF Follows, Monus
  <2> QED BY <2>1, <2>2
<1> QED BY <1>1, <1>2

(* What extending the last epoch, or starting one, does to each epoch. *)
LEMMA ExtendEpochsFollows ==
    ASSUME NEW list \in EpochListType, EpochListOK(list),
           NEW location \in Locations, NEW seed \in Nat,
           MaximumLocation(list) <= location
    PROVE  LET res == ExtendEpochs(list, location, seed)
           IN  /\ Follows(list, res, 0, seed)
               /\ res.minimumLocation = list.minimumLocation
               /\ res.closedForWriting = list.closedForWriting
<1> DEFINE res == ExtendEpochs(list, location, seed)
           len == Len(list.epochs)
<1>1. /\ list.epochs \in Seq(EpochInfo) /\ len \in Nat
      /\ list.minimumLocation \in Nat
      /\ list.synchronizingEpochs \in Nat /\ list.synchronizedEpochs \in Nat
      /\ \A i \in 1 .. len : /\ list.epochs[i] \in EpochInfo
                             /\ list.epochs[i].maximumLocation \in Nat
  BY EpochListFields
<1>2. \A i \in 1 .. len : list.epochs[i].maximumLocation <= location
  BY <1>1, MaximumLocationOK, LocationModulusAssumption DEF Locations
<1>3. CASE len = list.synchronizingEpochs
  <2> DEFINE epoch == [hashSeed |-> seed, maximumLocation |-> location]
             epochs == Append(list.epochs, epoch)
  <2>1. epoch \in EpochInfo /\ epoch.hashSeed = seed
    BY DEF EpochInfo
  <2>2. res = [list EXCEPT !.epochs = epochs]
    BY <1>3 DEF ExtendEpochs, AppendEpoch
  <2> HIDE DEF epoch
  <2>3. /\ Len(epochs) = len + 1
        /\ \A i \in 1 .. len : epochs[i] = list.epochs[i]
        /\ epochs[len + 1] = epoch
    BY <1>1, <2>1, AppendProperties
  <2> HIDE DEF epochs
  <2>4. /\ res.epochs = epochs
        /\ res.minimumLocation = list.minimumLocation
        /\ res.closedForWriting = list.closedForWriting
        /\ res.synchronizingEpochs = list.synchronizingEpochs
        /\ res.synchronizedEpochs = list.synchronizedEpochs
    BY <2>2 DEF EpochListType
  <2> HIDE DEF res, len
  <2>5. ASSUME NEW j \in 1 .. Len(res.epochs)
        PROVE  \/ /\ j + 0 <= len
                  /\ res.epochs[j].hashSeed = list.epochs[j + 0].hashSeed
                  /\ list.epochs[j + 0].maximumLocation
                        <= res.epochs[j].maximumLocation
               \/ /\ j + 0 = len + 1
                  /\ res.epochs[j].hashSeed = seed
    <3>1. j + 0 = j
      OBVIOUS
    <3>2. CASE j = len + 1
      BY <2>1, <2>3, <2>4, <3>1, <3>2
    <3>3. CASE j # len + 1
      <4>1. j \in 1 .. len
        BY <1>1, <2>3, <2>4, <3>3
      <4> QED BY <1>1, <2>3, <2>4, <3>1, <4>1
    <3> QED BY <3>2, <3>3
  <2>6. Follows(list, res, 0, seed)
    BY <1>1, <2>4, <2>5 DEF Follows, Monus, len
  <2> QED BY <2>4, <2>6 DEF res
<1>4. CASE len # list.synchronizingEpochs
  <2> DEFINE epoch == [list.epochs[len] EXCEPT !.maximumLocation = location]
             epochs == [list.epochs EXCEPT ![len] = epoch]
  <2>0. len \in 1 .. len
    BY <1>1, <1>4 DEF EpochListOK
  <2>1. /\ epoch \in EpochInfo /\ epoch.maximumLocation = location
        /\ epoch.hashSeed = list.epochs[len].hashSeed
    BY <1>1, <2>0 DEF EpochInfo
  <2>2. res = [list EXCEPT !.epochs = epochs]
    BY <1>4 DEF ExtendEpochs, RaiseLastEpoch
  <2> HIDE DEF epoch
  <2>3. /\ Len(epochs) = len
        /\ \A i \in 1 .. len : epochs[i] = IF i = len THEN epoch ELSE list.epochs[i]
    BY <1>1, <2>0, <2>1
  <2> HIDE DEF epochs
  <2>4. /\ res.epochs = epochs
        /\ res.minimumLocation = list.minimumLocation
        /\ res.closedForWriting = list.closedForWriting
        /\ res.synchronizingEpochs = list.synchronizingEpochs
        /\ res.synchronizedEpochs = list.synchronizedEpochs
    BY <2>2 DEF EpochListType
  <2> HIDE DEF res
  <2>5. ASSUME NEW j \in 1 .. Len(res.epochs)
        PROVE  /\ j + 0 <= len
               /\ res.epochs[j].hashSeed = list.epochs[j + 0].hashSeed
               /\ list.epochs[j + 0].maximumLocation
                     <= res.epochs[j].maximumLocation
    <3>1. j + 0 = j /\ j \in 1 .. len
      BY <2>3, <2>4
    <3>2. CASE j = len
      BY <1>2, <2>1, <2>3, <2>4, <3>1, <3>2
    <3>3. CASE j # len
      BY <1>1, <2>3, <2>4, <3>1, <3>3
    <3> QED BY <3>2, <3>3
  <2> HIDE DEF len
  <2>6. Follows(list, res, 0, seed)
    BY <1>1, <2>4, <2>5 DEF Follows, Monus, len
  <2> QED BY <2>4, <2>6 DEF res
<1> QED BY <1>3, <1>4
(* A write that the cursor did not wrap around for never reinitializes the *)
(* list: the epochs that are not overwritten stay, in their order.         *)
LEMMA FinalizeWriteUpToLocationFollows ==
    ASSUME NEW list \in EpochListType, EpochListOK(list),
           NEW location \in Locations, location > 0, NEW seed \in Nat,
           Ahead(location, MaximumLocation(list)) =>
               MaximumLocation(list) < location
    PROVE  LET res == FinalizeWriteUpToLocation(list, location, seed)
           IN  /\ \E n : Follows(list, res, n, seed)
               /\ MaximumLocation(list) <= MaximumLocation(res)
               /\ MaximumLocation(res) \in {MaximumLocation(list), location}
<1> DEFINE maximum == MaximumLocation(list)
           extended == ExtendEpochs(list, location, seed)
           raised == RaiseMinimumLocation(extended, location)
           n == EpochsToPrune(raised)
           pruned == PruneStaleEpochs(raised)
           res == FinalizeWriteUpToLocation(list, location, seed)
<1>0. /\ maximum \in Nat /\ maximum \in Locations /\ location \in Nat
      /\ list.minimumLocation <= maximum
      /\ \A i \in 1 .. Len(list.epochs) :
            list.epochs[i].maximumLocation <= maximum
  BY MaximumLocationOK, LocationModulusAssumption DEF Locations
<1>a. /\ list.minimumLocation \in Nat /\ Len(list.epochs) \in Nat
      /\ list.synchronizingEpochs \in Nat /\ list.synchronizedEpochs \in Nat
      /\ \A i \in 1 .. Len(list.epochs) : list.epochs[i].maximumLocation \in Nat
      /\ list.epochs \in Seq(EpochInfo)
  BY EpochListFields
<1>1. CASE Ahead(location, maximum)
  <2>0. maximum < location
    BY <1>1
  <2>1. res = [pruned EXCEPT !.wakeup = TRUE]
    <3>1. ~(location < maximum)
      BY <1>0, <2>0
    <3>2. (IF location < maximum THEN Reinitialize(list) ELSE list) = list
      BY <3>1
    <3> QED BY <1>1, <3>2, Zenon DEF FinalizeWriteUpToLocation
  <2>2. /\ extended \in EpochListType
        /\ Ordered(extended)
        /\ HasCurrentEpoch(extended)
        /\ extended.minimumLocation = list.minimumLocation
        /\ extended.epochs[Len(extended.epochs)].maximumLocation = location
    BY <1>0, <2>0, ExtendEpochsOK
  <2>3. Follows(list, extended, 0, seed)
    BY <1>0, <2>0, ExtendEpochsFollows
  <2> HIDE DEF extended, maximum
  <2>4. /\ raised \in EpochListType
        /\ Ordered(raised)
        /\ HasCurrentEpoch(raised)
        /\ raised.minimumLocation
              < raised.epochs[Len(raised.epochs)].maximumLocation
    BY <1>0, <1>a, <2>0, <2>2, RaiseMinimumLocationOK
  <2>5. /\ raised.epochs = extended.epochs
        /\ raised.synchronizingEpochs = extended.synchronizingEpochs
        /\ raised.synchronizedEpochs = extended.synchronizedEpochs
    BY <2>2 DEF RaiseMinimumLocation, EpochListType
  <2>6. list.minimumLocation <= raised.minimumLocation
    <3> DEFINE d == (location - extended.minimumLocation) % LocationModulus
    <3>1. raised.minimumLocation =
             IF d > MaximumLocationSpan THEN location - MaximumLocationSpan
             ELSE extended.minimumLocation
      BY <2>2 DEF RaiseMinimumLocation, EpochListType
    <3>2. location - list.minimumLocation \in 0 .. LocationModulus - 1
      BY <1>0, <1>a, <2>0, LocationModulusAssumption DEF Locations
    <3>3. d = location - list.minimumLocation
      BY <2>2, <3>2, LocationModulusAssumption, ResidueOfSmall
    <3> HIDE DEF d
    <3> QED BY <1>0, <1>a, <2>2, <3>1, <3>3, MaximumLocationSpanAssumption
  <2> HIDE DEF raised
  <2>7. /\ n \in 0 .. Len(raised.epochs)
        /\ pruned \in EpochListType
        /\ pruned.minimumLocation = raised.minimumLocation
        /\ pruned.synchronizingEpochs = Monus(raised.synchronizingEpochs, n)
        /\ pruned.synchronizedEpochs = Monus(raised.synchronizedEpochs, n)
        /\ Len(pruned.epochs) = Len(raised.epochs) - n
        /\ \A i \in 1 .. Len(raised.epochs) - n :
              pruned.epochs[i] = raised.epochs[i + n]
    BY <2>4, PruneStaleEpochsFields
  <2>a. Len(raised.epochs) \in Nat /\ Len(raised.epochs) \in 1 .. Len(raised.epochs)
    BY <2>4, EpochListFields DEF HasCurrentEpoch
  <2>8. MaximumLocation(pruned) = location
    <3>1. raised.epochs[Len(raised.epochs)].maximumLocation \in Nat
          /\ raised.minimumLocation \in Nat
      BY <2>4, <2>a, EpochListFields
    <3>2. ~(raised.epochs[Len(raised.epochs)].maximumLocation
              <= raised.minimumLocation)
      BY <2>4, <3>1
    <3>3. MaximumLocation(pruned) =
              raised.epochs[Len(raised.epochs)].maximumLocation
      BY <2>4, <2>a, <3>2, MaximumOfPruned
    <3> QED BY <2>2, <2>5, <3>3
  <2> HIDE DEF n, pruned
  <2>9. /\ res.minimumLocation = pruned.minimumLocation
        /\ res.epochs = pruned.epochs
        /\ res.synchronizingEpochs = pruned.synchronizingEpochs
        /\ res.synchronizedEpochs = pruned.synchronizedEpochs
    BY <2>1, <2>7, WakeupFields
  <2>10. MaximumLocation(res) = location
    BY <2>8, <2>9 DEF MaximumLocation
  <2> HIDE DEF res
  <2>11. ASSUME NEW j \in 1 .. Len(res.epochs)
         PROVE  \/ /\ j + n <= Len(list.epochs)
                   /\ res.epochs[j].hashSeed = list.epochs[j + n].hashSeed
                   /\ list.epochs[j + n].maximumLocation
                         <= res.epochs[j].maximumLocation
                \/ /\ j + n = Len(list.epochs) + 1
                   /\ res.epochs[j].hashSeed = seed
    <3>1. /\ j \in 1 .. Len(raised.epochs) - n
          /\ j + n \in 1 .. Len(extended.epochs)
          /\ (j + n) + 0 = j + n
      BY <2>5, <2>7, <2>9, <2>a
    <3>2. res.epochs[j] = extended.epochs[j + n]
      BY <2>5, <2>7, <2>9, <3>1
    <3>3. \/ /\ (j + n) + 0 <= Len(list.epochs)
             /\ extended.epochs[j + n].hashSeed
                   = list.epochs[(j + n) + 0].hashSeed
             /\ list.epochs[(j + n) + 0].maximumLocation
                   <= extended.epochs[j + n].maximumLocation
          \/ /\ (j + n) + 0 = Len(list.epochs) + 1
             /\ extended.epochs[j + n].hashSeed = seed
      BY <2>3, <3>1 DEF Follows
    <3> QED BY <3>1, <3>2, <3>3
  <2>12. /\ res.synchronizingEpochs = Monus(list.synchronizingEpochs, n)
         /\ res.synchronizedEpochs = Monus(list.synchronizedEpochs, n)
    <3>1. /\ extended.synchronizingEpochs = list.synchronizingEpochs
          /\ extended.synchronizedEpochs = list.synchronizedEpochs
      BY <1>a, <2>3 DEF Follows, Monus
    <3> QED BY <2>5, <2>7, <2>9, <3>1
  <2>13. Follows(list, res, n, seed)
    <3>1. n \in Nat
      BY <2>7
    <3>2. list.minimumLocation <= res.minimumLocation
      BY <2>6, <2>7, <2>9
    <3> QED BY <2>11, <2>12, <3>1, <3>2 DEF Follows
  <2> QED BY <1>0, <2>0, <2>10, <2>13 DEF res, maximum
<1>2. CASE ~Ahead(location, maximum) /\ Len(list.epochs) = list.synchronizingEpochs
  <2>1. res = AppendEpoch(list, maximum, seed)
    BY <1>2 DEF FinalizeWriteUpToLocation
  <2>2. res = ExtendEpochs(list, maximum, seed)
    BY <1>2, <2>1 DEF ExtendEpochs
  <2>3. Follows(list, ExtendEpochs(list, maximum, seed), 0, seed)
    BY <1>0, ExtendEpochsFollows
  <2>4. /\ ExtendEpochs(list, maximum, seed) \in EpochListType
        /\ HasCurrentEpoch(ExtendEpochs(list, maximum, seed))
        /\ ExtendEpochs(list, maximum, seed).epochs[
              Len(ExtendEpochs(list, maximum, seed).epochs)].maximumLocation
              = maximum
    BY <1>0, ExtendEpochsOK
  <2> HIDE DEF res
  <2>5. res.epochs # <<>>
    BY <2>2, <2>4, EpochListFields, EmptySeq DEF HasCurrentEpoch
  <2>6. MaximumLocation(res) = maximum
    BY <2>2, <2>4, <2>5 DEF MaximumLocation
  <2> QED BY <1>0, <2>2, <2>3, <2>6 DEF res
<1>3. CASE ~Ahead(location, maximum) /\ Len(list.epochs) # list.synchronizingEpochs
  <2>1. res = list
    BY <1>3 DEF FinalizeWriteUpToLocation
  <2>2. Follows(list, list, 0, seed)
    BY <1>a DEF Follows, Monus
  <2> QED BY <1>0, <2>1, <2>2
<1> QED BY <1>1, <1>2, <1>3
-----------------------------------------------------------------------------
(* The list that a restart creates from a state file: the epochs that are  *)
(* listed, without the first n, which are below the minimum location.      *)
LEMMA ReloadFields ==
    ASSUME NEW ps, PersistentStateOK(ps)
    PROVE  LET res == NewPersistentEpochList(ps)
               len == Len(ps.epochs)
               max == ReloadedMaximum(ps)
           IN  /\ len \in Nat
               /\ \A i \in 0 .. len : max[i] \in Locations /\ max[i] \in Nat
               /\ \A i, j \in 0 .. len : i <= j => max[i] <= max[j]
               /\ max[0] = ps.minimumLocation
               /\ InitialLocation(ps) = max[len]
               /\ res.closedForWriting = FALSE
               /\ res.minimumLocation = ps.minimumLocation
               /\ res.synchronizingEpochs = Len(res.epochs)
               /\ res.synchronizedEpochs = Len(res.epochs)
               /\ \E n \in 0 .. len :
                     /\ Len(res.epochs) = len - n
                     /\ res.minimumEpochID = (ps.minimumEpochID + n) % EpochIDModulus
                     /\ \A i \in 1 .. n : max[i] <= ps.minimumLocation
                     /\ \A j \in 1 .. len - n :
                           /\ j + n \in 1 .. len
                           /\ res.epochs[j].hashSeed = ps.epochs[j + n].hashSeed
                           /\ res.epochs[j].maximumLocation = max[j + n]
<1> DEFINE maximum == ReloadedMaximum(ps)
           len == Len(ps.epochs)
           infos == [i \in 1 .. len + 1 - 1 |->
                        [hashSeed |-> ps.epochs[i + 1 - 1].hashSeed,
                         maximumLocation |->
                            maximum[i + 1 - 1] % LocationModulus]]
           start == EmptyEpochList(ps.minimumEpochID, ps.minimumLocation)
           loaded == [start EXCEPT !.epochs = infos,
                                   !.synchronizingEpochs = len + 1 - 1,
                                   !.synchronizedEpochs = len + 1 - 1]
           res == NewPersistentEpochList(ps)
           n == EpochsToPrune(loaded)
<1>1. PICK m \in [0 .. len -> Locations] : AddUpTo(ps, m)
  BY DEF PersistentStateOK
<1>2. ps \in PersistentStateType
  BY DEF PersistentStateOK
<1>3. /\ len \in Nat
      /\ ps.minimumEpochID \in EpochIDs
      /\ ps.minimumLocation \in Locations
      /\ \A i \in 1 .. len : ps.epochs[i].hashSeed \in Nat
  <2>1. ps.epochs \in Seq(PersistedEpochInfo)
    BY <1>2 DEF PersistentStateType, PersistedEpochInfo
  <2>2. \A i \in 1 .. len : ps.epochs[i] \in PersistedEpochInfo
    BY <2>1
  <2> QED BY <1>2, <2>1, <2>2 DEF PersistentStateType, PersistedEpochInfo
<1>4. \A i \in 0 .. len : maximum[i] = m[i]
  BY <1>1, <1>2, ReloadedMaximumOK
<1>5. InitialLocation(ps) = maximum[len] % LocationModulus
  BY DEF InitialLocation
<1>6. res = PruneStaleEpochs(
              LET carries == {i \in 1 .. len : maximum[i] >= LocationModulus}
                  first == IF carries = {} THEN 1
                           ELSE CHOOSE i \in carries : \A j \in carries : i <= j
                  begin == IF carries = {}
                           THEN EmptyEpochList(ps.minimumEpochID, ps.minimumLocation)
                           ELSE EmptyEpochList(0, 0)
              IN  [begin EXCEPT
                    !.epochs =
                        [i \in 1 .. len + 1 - first |->
                            [hashSeed |-> ps.epochs[i + first - 1].hashSeed,
                             maximumLocation |->
                                maximum[i + first - 1] % LocationModulus]],
                    !.synchronizingEpochs = len + 1 - first,
                    !.synchronizedEpochs = len + 1 - first])
  BY DEF NewPersistentEpochList
<1> HIDE DEF maximum, res
<1>7. \A i \in 0 .. len : /\ maximum[i] \in Locations /\ maximum[i] \in Nat
                         /\ maximum[i] < LocationModulus
                         /\ maximum[i] % LocationModulus = maximum[i]
  BY <1>1, <1>4, SmallLocation
<1>8. {i \in 1 .. len : maximum[i] >= LocationModulus} = {}
  BY <1>3, <1>7, LocationModulusAssumption DEF Locations
<1>9. res = PruneStaleEpochs(loaded)
  BY <1>6, <1>8
<1>10. /\ infos \in Seq(EpochInfo)
       /\ Len(infos) = len
       /\ \A i \in 1 .. len : /\ infos[i].hashSeed = ps.epochs[i].hashSeed
                              /\ infos[i].maximumLocation = maximum[i]
  <2>1. \A i \in 1 .. len : /\ infos[i] = [hashSeed |-> ps.epochs[i].hashSeed,
                                         maximumLocation |-> maximum[i]]
                         /\ i \in 0 .. len
    BY <1>3, <1>7
  <2>2. \A i \in 1 .. len : infos[i] \in EpochInfo
    BY <1>3, <1>7, <2>1 DEF EpochInfo
  <2>a. ASSUME NEW i \in 1 .. len
        PROVE  /\ infos[i].hashSeed = ps.epochs[i].hashSeed
               /\ infos[i].maximumLocation = maximum[i]
    <3>1. infos[i] = [hashSeed |-> ps.epochs[i].hashSeed,
                      maximumLocation |-> maximum[i]]
      BY <2>1
    <3> DEFINE info == infos[i]
    <3> HIDE DEF info
    <3>2. info = [hashSeed |-> ps.epochs[i].hashSeed,
                  maximumLocation |-> maximum[i]]
      BY <3>1 DEF info
    <3>3. /\ info.hashSeed = ps.epochs[i].hashSeed
          /\ info.maximumLocation = maximum[i]
      BY <3>2
    <3> QED BY <3>3 DEF info
  <2>3. infos \in [1 .. len -> EpochInfo]
    <3>1. len + 1 - 1 = len
      BY <1>3
    <3>2. DOMAIN infos = 1 .. len /\ infos = [i \in DOMAIN infos |-> infos[i]]
      BY <3>1
    <3> HIDE DEF infos
    <3> QED BY <2>2, <3>2
  <2> HIDE DEF infos
  <2>4. infos \in Seq(EpochInfo) /\ Len(infos) = len
    BY <1>3, <2>3
  <2> QED BY <2>4, <2>a
<1> HIDE DEF infos
<1>a. len + 1 - 1 = len
  BY <1>3
<1>b. IsLoaded(loaded, ps.minimumEpochID, ps.minimumLocation, infos, len)
  BY <1>3, <1>10, <1>a DEF IsLoaded
<1>11. /\ loaded \in EpochListType
       /\ loaded.closedForWriting = FALSE
       /\ loaded.minimumEpochID = ps.minimumEpochID
       /\ loaded.minimumLocation = ps.minimumLocation
       /\ loaded.epochs = infos
       /\ loaded.synchronizingEpochs = len
       /\ loaded.synchronizedEpochs = len
  <2> HIDE DEF loaded, start, len
  <2>1. loaded.closedForWriting = FALSE
    BY <1>b, LoadedOpen
  <2>2. /\ loaded \in EpochListType
        /\ loaded.minimumEpochID = ps.minimumEpochID
        /\ loaded.minimumLocation = ps.minimumLocation
        /\ loaded.epochs = infos
        /\ loaded.synchronizingEpochs = len
        /\ loaded.synchronizedEpochs = len
    BY <1>b, LoadedFields
  <2> QED BY <2>1, <2>2
<1> HIDE DEF loaded
<1>12. /\ n \in 0 .. len
       /\ res.minimumEpochID = (ps.minimumEpochID + n) % EpochIDModulus
       /\ res.minimumLocation = ps.minimumLocation
       /\ res.closedForWriting = FALSE
       /\ res.synchronizingEpochs = Monus(len, n)
       /\ res.synchronizedEpochs = Monus(len, n)
       /\ Len(res.epochs) = len - n
       /\ \A i \in 1 .. len - n : res.epochs[i] = infos[i + n]
  BY <1>9, <1>10, <1>11, PruneStaleEpochsFields
<1>13. \A i \in 1 .. n : infos[i].maximumLocation <= ps.minimumLocation
  BY <1>11, EpochsToPruneProperties
<1> HIDE DEF n
<1>14. \A i, j \in 0 .. len : i <= j => maximum[i] <= maximum[j]
  BY <1>1, <1>4 DEF AddUpTo
<1>15. maximum[0] = ps.minimumLocation /\ InitialLocation(ps) = maximum[len]
  BY <1>1, <1>3, <1>4, <1>5, <1>7 DEF AddUpTo
<1>16. Monus(len, n) = len - n
  BY <1>3, <1>12 DEF Monus
<1>17. \A i \in 1 .. n : maximum[i] <= ps.minimumLocation
  BY <1>3, <1>10, <1>12, <1>13
<1>18. \A j \in 1 .. len - n :
          /\ j + n \in 1 .. len
          /\ res.epochs[j].hashSeed = ps.epochs[j + n].hashSeed
          /\ res.epochs[j].maximumLocation = maximum[j + n]
  BY <1>3, <1>10, <1>12
<1> HIDE DEF len
<1> QED BY <1>3, <1>7, <1>12, <1>14, <1>15, <1>16, <1>17, <1>18
        DEF len, maximum, res
=============================================================================
