-------------------------- MODULE LeaseStoreProofs --------------------------
(***************************************************************************)
(* The leases of the flat-backed store keep their promise, for every       *)
(* graph of objects, number of callers and duration.  The invariant has to *)
(* speak of calls in progress: the clock is read before the flat store     *)
(* confirms the object, and provided leases were handed out earlier.       *)
(***************************************************************************)
EXTENDS LeaseStore, TLAPS

D == LeaseCompletenessDuration
Uploading == {"base", "download", "leases"}

(* What was confirmed recently enough is in the flat store. *)
Retained ==
    \A o \in Objects :
        touched[o] # NoLease /\ now <= touched[o] + RetentionDuration => o \in exists

(* The clock does not run backwards. *)
NothingInTheFuture ==
    \A o \in Objects : touched[o] <= now /\ confirmed[o] <= now

CallBacked(p) ==
    /\ call[p].leaseNow <= now
    /\ call[p].stage # "base" => touched[call[p].object] >= call[p].leaseNow
    /\ call[p].childrenLeases # NoLeases =>
          \A c \in Objects : call[p].childrenLeases[c] <= confirmed[c]

CallsBacked ==
    \A p \in Callers : call[p].stage \in Uploading => CallBacked(p)

IInv ==
    /\ TypeOK
    /\ LeasesAreBacked
    /\ Retained
    /\ NothingInTheFuture
    /\ CallsBacked

LEMMA LeasesInNat ==
    /\ D \in Nat /\ RetentionDuration \in Nat
    /\ FirstTime \in Nat /\ FirstTime > 2 * D /\ FirstTime > 0
    /\ \A l \in Leases : l \in Nat /\ (l # NoLease => l \in Times)
    /\ \A t \in Times : t \in Nat /\ t >= FirstTime /\ t \in Leases /\ t # NoLease
    /\ NoLease \in Leases /\ NoLease = 0
  BY DurationAssumption, TimeAssumption DEF D, Leases, Times, NoLease

LEMMA CallFields ==
    ASSUME TypeOK, NEW p \in Callers, call[p].stage \in Uploading
    PROVE  /\ call[p] \in Calls
           /\ call[p].object \in Objects
           /\ call[p].contents \in BOOLEAN
           /\ call[p].childrenLeases \in {NoLeases} \cup [Objects -> Leases]
           /\ call[p].leaseNow \in Times
           /\ call[p].renews \in {NoRenewal} \cup Renewals
<1>1. call[p] \in {Idle} \cup Renewals \cup Calls
  BY DEF TypeOK
<1>2. call[p] # Idle
  BY DEF Idle, Uploading
<1>3. call[p] \notin Renewals
  BY DEF Renewals, Uploading
<1>4. call[p] \in Calls
  BY <1>1, <1>2, <1>3
<1> QED BY <1>4 DEF Calls

LEMMA RenewalFields ==
    ASSUME TypeOK, NEW p \in Callers, call[p].stage = "renewing"
    PROVE  /\ call[p] \in Renewals
           /\ call[p].object \in Objects
           /\ call[p].wanted \in SUBSET Objects
<1>1. call[p] \in {Idle} \cup Renewals \cup Calls
  BY DEF TypeOK
<1>2. call[p] # Idle
  BY DEF Idle
<1>3. call[p] \notin Calls
  BY DEF Calls
<1>4. call[p] \in Renewals
  BY <1>1, <1>2, <1>3
<1> QED BY <1>4 DEF Renewals

LEMMA InitIInv == Init => IInv
<1> SUFFICES ASSUME Init PROVE IInv
  OBVIOUS
<1>1. TypeOK
  BY LeasesInNat, TimeAssumption DEF Init, TypeOK, Times
<1>0. /\ \A o \in Objects : leases[o] = 0 /\ confirmed[o] = 0 /\ touched[o] = 0
      /\ now \in Nat
  BY TimeAssumption DEF Init, NoLease
<1>2. LeasesAreBacked
  <2>1. ASSUME NEW o \in Objects
        PROVE  leases[o] <= confirmed[o] /\ confirmed[o] = NoLease
    <3>1. leases[o] = 0 /\ confirmed[o] = 0
      BY <1>0
    <3> QED BY <3>1 DEF NoLease
  <2> QED BY <2>1 DEF LeasesAreBacked
<1>3. Retained
  BY DEF Init, Retained
<1>4. NothingInTheFuture
  <2>1. ASSUME NEW o \in Objects
        PROVE  touched[o] <= now /\ confirmed[o] <= now
    <3>1. touched[o] = 0 /\ confirmed[o] = 0 /\ now \in Nat
      BY <1>0
    <3> QED BY <3>1
  <2> QED BY <2>1 DEF NothingInTheFuture
<1>5. CallsBacked
  BY DEF Init, CallsBacked, Idle, Uploading
<1> QED BY <1>1, <1>2, <1>3, <1>4, <1>5 DEF IInv

-----------------------------------------------------------------------------
(* The calls of other callers are not affected by a step that only lets    *)
(* time, touched and confirmed grow.                                       *)
Grows ==
    /\ now' \in Nat /\ now' >= now
    /\ \A o \in Objects : touched'[o] >= touched[o] /\ confirmed'[o] >= confirmed[o]
    /\ touched' \in [Objects -> Leases] /\ confirmed' \in [Objects -> Leases]

LEMMA OtherCallBacked ==
    ASSUME IInv, Grows, NEW q \in Callers, call[q].stage \in Uploading,
           call'[q] = call[q]
    PROVE  CallBacked(q)'
<1>1. CallBacked(q)
  BY DEF IInv, CallsBacked
<1>2. /\ call[q].object \in Objects /\ call[q].leaseNow \in Nat
      /\ call[q].childrenLeases \in {NoLeases} \cup [Objects -> Leases]
  BY CallFields, LeasesInNat DEF IInv
<1>3. /\ now \in Nat
      /\ \A o \in Objects : /\ touched[o] \in Nat /\ confirmed[o] \in Nat
                            /\ touched'[o] \in Nat /\ confirmed'[o] \in Nat
  BY LeasesInNat DEF IInv, TypeOK, Grows
<1>4. call'[q].leaseNow <= now'
  BY <1>1, <1>2, <1>3 DEF CallBacked, Grows
<1>5. call'[q].stage # "base" => touched'[call'[q].object] >= call'[q].leaseNow
  BY <1>1, <1>2, <1>3 DEF CallBacked, Grows
<1>6. ASSUME call'[q].childrenLeases # NoLeases, NEW c \in Objects
      PROVE  call'[q].childrenLeases[c] <= confirmed'[c]
  <2>1. call[q].childrenLeases[c] \in Nat
    BY <1>2, <1>6, LeasesInNat
  <2>2. call[q].childrenLeases[c] <= confirmed[c]
    BY <1>1, <1>6 DEF CallBacked
  <2> QED BY <1>3, <2>1, <2>2 DEF Grows
<1> QED BY <1>4, <1>5, <1>6 DEF CallBacked
(* Steps after which the invariant holds if the type does, apart from what *)
(* they do to the call of one caller.                                      *)
LEMMA QuietStep ==
    ASSUME IInv, NEW p \in Callers, TypeOK',
           UNCHANGED <<now, exists, leases, evictions, touched, confirmed>>,
           \A q \in Callers \ {p} : call'[q] = call[q],
           call'[p].stage \in Uploading => CallBacked(p)'
    PROVE  IInv'
<1>1. Grows
  <2>1. now \in Nat /\ \A o \in Objects : touched[o] \in Nat /\ confirmed[o] \in Nat
    BY LeasesInNat DEF IInv, TypeOK
  <2>2. \A o \in Objects : touched[o] >= touched[o] /\ confirmed[o] >= confirmed[o]
    BY <2>1
  <2>3. now >= now
    BY <2>1
  <2> QED BY <2>1, <2>2, <2>3 DEF IInv, TypeOK, Grows
<1>2. LeasesAreBacked' /\ Retained' /\ NothingInTheFuture'
  BY DEF IInv, LeasesAreBacked, Retained, NothingInTheFuture
<1>3. CallsBacked'
  <2> SUFFICES ASSUME NEW q \in Callers, call'[q].stage \in Uploading
               PROVE  CallBacked(q)'
    BY DEF CallsBacked
  <2>1. CASE q = p
    BY <2>1
  <2>2. CASE q # p
    BY <1>1, <2>2, OtherCallBacked
  <2> QED BY <2>1, <2>2
<1> QED BY <1>2, <1>3 DEF IInv

LEMMA StartIInv ==
    ASSUME IInv, NEW p \in Callers, NEW o \in Objects, NEW contents \in BOOLEAN,
           NEW provided \in SUBSET Objects, NEW given \in {NoLeases, LeasesOf(provided)},
           NEW renews \in {NoRenewal} \cup Renewals,
           Start(p, o, contents, given, renews)
    PROVE  IInv'
<1>1. LeasesOf(provided) \in [Objects -> Leases]
  BY LeasesInNat DEF LeasesOf, IInv, TypeOK
<1>2. now \in Times
  BY DEF IInv, TypeOK
<1>3. /\ call' = [call EXCEPT ![p] =
            [stage |-> "base", object |-> o, contents |-> contents,
             childrenLeases |-> given, leaseNow |-> now, renews |-> renews]]
      /\ UNCHANGED <<now, exists, leases, evictions, touched, confirmed>>
  BY DEF Start
<1>4. call'[p] = [stage |-> "base", object |-> o, contents |-> contents,
                  childrenLeases |-> given, leaseNow |-> now, renews |-> renews]
      /\ \A q \in Callers \ {p} : call'[q] = call[q]
  BY <1>3 DEF IInv, TypeOK
<1>5. call'[p] \in Calls
  BY <1>1, <1>2, <1>4 DEF Calls
<1>6. TypeOK'
  BY <1>3, <1>5 DEF IInv, TypeOK
<1>7. CallBacked(p)'
  <2>1. call'[p].leaseNow <= now'
    BY <1>2, <1>3, <1>4, LeasesInNat
  <2>2. ASSUME given # NoLeases, NEW c \in Objects
        PROVE  given[c] <= confirmed[c]
    <3>1. confirmed[c] \in Nat
      BY LeasesInNat DEF IInv, TypeOK
    <3>2. given[c] = confirmed[c] \/ given[c] = 0
      BY <2>2, <1>1 DEF LeasesOf, NoLease
    <3> QED BY <3>1, <3>2
  <2> QED BY <1>3, <1>4, <2>1, <2>2 DEF CallBacked
<1> QED BY <1>3, <1>4, <1>6, <1>7, QuietStep

LEMMA BeginIInv ==
    ASSUME IInv, NEW p \in Callers, NEW o \in Objects, NEW contents \in BOOLEAN,
           Begin(p, o, contents)
    PROVE  IInv'
<1>1. CASE Start(p, o, contents, NoLeases, NoRenewal)
  BY <1>1, StartIInv, {} \in SUBSET Objects
<1>2. ASSUME NEW provided \in SUBSET Children[o],
             Start(p, o, contents, LeasesOf(provided), NoRenewal)
      PROVE  IInv'
  <2>1. provided \in SUBSET Objects
    BY ChildrenAssumption
  <2> QED BY <1>2, <2>1, StartIInv
<1> QED BY <1>1, <1>2 DEF Begin

LEMMA RenewIInv ==
    ASSUME IInv, NEW p \in Callers, Renew(p)
    PROVE  IInv'
<1>1. call[p] \in Renewals /\ call[p].object \in Objects
      /\ call[p].wanted \in SUBSET Objects
  BY RenewalFields DEF IInv, Renew
<1> QED BY <1>1, StartIInv DEF Renew

(* A call that returns without a lease. *)
LEMMA ReturnIInv ==
    ASSUME IInv, NEW p \in Callers, Return(p),
           UNCHANGED <<now, exists, leases, evictions, touched, confirmed>>
    PROVE  IInv'
<1>1. call' = [call EXCEPT ![p] = Idle]
  BY DEF Return
<1>2. call'[p] = Idle /\ \A q \in Callers \ {p} : call'[q] = call[q]
  BY <1>1 DEF IInv, TypeOK
<1>3. TypeOK'
  BY <1>1 DEF IInv, TypeOK
<1>4. call'[p].stage \notin Uploading
  BY <1>2 DEF Idle, Uploading
<1> QED BY <1>2, <1>3, <1>4, QuietStep

LEMMA DownloadContentsIInv ==
    ASSUME IInv, NEW p \in Callers, DownloadContents(p)
    PROVE  IInv'
<1>1. /\ call[p].stage = "download"
      /\ call' = [call EXCEPT ![p].stage = "leases"]
      /\ UNCHANGED <<now, exists, leases, evictions, touched, confirmed>>
  BY DEF DownloadContents
<1>2. call[p] \in Calls /\ CallBacked(p)
  BY <1>1, CallFields DEF IInv, CallsBacked, Uploading
<1>3. /\ call'[p] = [call[p] EXCEPT !.stage = "leases"]
      /\ \A q \in Callers \ {p} : call'[q] = call[q]
  BY <1>1 DEF IInv, TypeOK
<1>4. call'[p] \in Calls
  BY <1>2, <1>3 DEF Calls
<1>5. TypeOK'
  BY <1>1, <1>4 DEF IInv, TypeOK
<1>6. CallBacked(p)'
  BY <1>1, <1>2, <1>3 DEF CallBacked, Calls
<1> QED BY <1>1, <1>3, <1>5, <1>6, QuietStep
-----------------------------------------------------------------------------
(* Provided leases were handed out, and so were those that end up in the   *)
(* map or decide about a child.                                            *)
LEMMA ProvidedLeaseBacked ==
    ASSUME IInv, NEW p \in Callers, call[p].stage = "leases", NEW c \in Objects
    PROVE  ProvidedLease(p, c) \in Leases /\ ProvidedLease(p, c) <= confirmed[c]
<1>1. /\ call[p].childrenLeases \in {NoLeases} \cup [Objects -> Leases]
      /\ call[p].leaseNow \in Times /\ CallBacked(p)
  BY CallFields DEF IInv, CallsBacked, Uploading
<1>2. confirmed[c] \in Nat
  BY LeasesInNat DEF IInv, TypeOK
<1>3. CASE call[p].childrenLeases = NoLeases
  <2>1. ProvidedLease(p, c) = 0
    BY <1>3 DEF ProvidedLease, NoLease
  <2> QED BY <1>2, <2>1, LeasesInNat
<1>4. CASE call[p].childrenLeases # NoLeases
  <2>1. PICK l \in Leases : l = call[p].childrenLeases[c]
    BY <1>1, <1>4
  <2>2. l <= confirmed[c] /\ l \in Nat
    BY <1>1, <1>4, <2>1, LeasesInNat DEF CallBacked
  <2>3. PICK t \in Times : t = call[p].leaseNow
    BY <1>1
  <2>4. t \in Nat /\ t \in Leases
    BY LeasesInNat
  <2>5. ProvidedLease(p, c) = IF l < t THEN l ELSE t
    BY <1>4, <2>1, <2>3 DEF ProvidedLease, EarlierOf
  <2> QED BY <1>2, <2>2, <2>4, <2>5
<1> QED BY <1>3, <1>4

LEMMA StoredLeasesBacked ==
    ASSUME IInv, NEW p \in Callers, call[p].stage = "leases", NEW stored
    PROVE  /\ StoredLeases(p, stored) \in [Objects -> Leases]
           /\ \A c \in Objects : StoredLeases(p, stored)[c] <= confirmed[c]
<1>1. ASSUME NEW c \in Objects
      PROVE  /\ StoredLeases(p, stored)[c] \in Leases
             /\ StoredLeases(p, stored)[c] <= confirmed[c]
  <2>1. /\ leases[c] \in Leases /\ leases[c] <= confirmed[c]
        /\ ProvidedLease(p, c) \in Leases /\ ProvidedLease(p, c) <= confirmed[c]
    BY ProvidedLeaseBacked DEF IInv, TypeOK, LeasesAreBacked
  <2>2. StoredLeases(p, stored)[c] \in {leases[c], ProvidedLease(p, c)}
    BY DEF StoredLeases, LaterOf
  <2> QED BY <2>1, <2>2
<1>2. StoredLeases(p, stored) = [c \in Objects |-> StoredLeases(p, stored)[c]]
  BY DEF StoredLeases
<1> QED BY <1>1, <1>2

LEMMA ChildLeaseBacked ==
    ASSUME IInv, NEW p \in Callers, call[p].stage = "leases", NEW c \in Objects
    PROVE  ChildLease(p, c) \in Nat /\ ChildLease(p, c) <= confirmed[c]
<1> DEFINE stored == StoredLeases(p, Children[call[p].object])
<1>1. ChildLease(p, c) \in {stored[c], ProvidedLease(p, c)}
  BY DEF ChildLease
<1>2. stored[c] \in Leases /\ stored[c] <= confirmed[c]
  BY StoredLeasesBacked
<1>3. ProvidedLease(p, c) \in Leases /\ ProvidedLease(p, c) <= confirmed[c]
  BY ProvidedLeaseBacked
<1> HIDE DEF stored
<1> QED BY <1>1, <1>2, <1>3, LeasesInNat

(* The heart of the matter: a call that hands out a lease. *)
LEMMA CompleteIInv ==
    ASSUME IInv, NEW p \in Callers, call[p].stage \in Uploading, Complete(p),
           now' = now, evictions' = evictions,
           exists' \in SUBSET Objects, Retained',
           touched' \in [Objects -> Leases],
           \A o \in Objects : touched'[o] >= touched[o] /\ touched'[o] <= now,
           touched'[call[p].object] >= call[p].leaseNow,
           leases' \in [Objects -> Leases],
           \A o \in Objects : leases'[o] <= confirmed[o],
           \A c \in Children[call[p].object] : confirmed[c] >= call[p].leaseNow - 2 * D
    PROVE  IInv'
<1>1. PICK o \in Objects : o = call[p].object
  BY CallFields DEF IInv
<1>2. PICK t \in Times : t = call[p].leaseNow
  BY CallFields DEF IInv
<1>3. /\ t <= now /\ t \in Nat /\ t >= FirstTime /\ t # NoLease /\ t \in Leases
  BY <1>2, LeasesInNat DEF IInv, CallsBacked, CallBacked
<1>4. /\ call' = [call EXCEPT ![p] = Idle]
      /\ confirmed' = [confirmed EXCEPT ![o] = LaterOf(@, t)]
  BY <1>1, <1>2 DEF Complete, Return
<1>5. /\ now \in Nat
      /\ \A x \in Objects : /\ confirmed[x] \in Nat /\ confirmed[x] \in Leases
                            /\ touched[x] \in Nat /\ touched'[x] \in Nat
                            /\ leases'[x] \in Nat
  BY LeasesInNat DEF IInv, TypeOK
<1>6. /\ confirmed' \in [Objects -> Leases]
      /\ \A x \in Objects : confirmed'[x] \in Nat /\ confirmed'[x] >= confirmed[x]
      /\ \A x \in Objects : x # o => confirmed'[x] = confirmed[x]
      /\ confirmed'[o] = IF confirmed[o] > t THEN confirmed[o] ELSE t
  <2>1. confirmed'[o] = IF confirmed[o] > t THEN confirmed[o] ELSE t
    BY <1>4 DEF LaterOf, IInv, TypeOK
  <2>2. \A x \in Objects : x # o => confirmed'[x] = confirmed[x]
    BY <1>4 DEF IInv, TypeOK
  <2>3. confirmed'[o] \in Leases /\ confirmed'[o] \in Nat /\ confirmed'[o] >= confirmed[o]
    BY <1>3, <1>5, <2>1
  <2>4. confirmed' \in [Objects -> Leases]
    BY <1>4, <1>5, <2>3 DEF IInv, TypeOK
  <2>5. ASSUME NEW x \in Objects
        PROVE  confirmed'[x] \in Nat /\ confirmed'[x] >= confirmed[x]
    <3>1. CASE x = o
      BY <2>3, <3>1
    <3>2. CASE x # o
      BY <1>5, <2>2, <3>2
    <3> QED BY <3>1, <3>2
  <2> QED BY <2>1, <2>2, <2>4, <2>5
<1>7. TypeOK'
  BY <1>1, <1>4, <1>6 DEF IInv, TypeOK
<1>8. Grows
  BY <1>5, <1>6 DEF Grows
<1>9. NothingInTheFuture'
  <2> SUFFICES ASSUME NEW x \in Objects PROVE touched'[x] <= now /\ confirmed'[x] <= now
    BY DEF NothingInTheFuture
  <2>1. confirmed[x] <= now
    BY DEF IInv, NothingInTheFuture
  <2> QED BY <1>3, <1>5, <1>6, <2>1
<1>11. LeasesAreBacked'
  <2> SUFFICES ASSUME NEW x \in Objects
               PROVE  /\ leases'[x] <= confirmed'[x]
                      /\ confirmed'[x] # NoLease =>
                            /\ touched'[x] >= confirmed'[x]
                            /\ \A c \in Children[x] : confirmed'[c] >= confirmed'[x] - 2 * D
    BY DEF LeasesAreBacked, D
  <2>1. leases'[x] <= confirmed'[x]
    BY <1>5, <1>6
  <2>2. CASE confirmed'[x] = confirmed[x]
    <3>1. ASSUME confirmed[x] # NoLease
          PROVE  touched'[x] >= confirmed'[x]
      BY <1>5, <2>2, <3>1 DEF IInv, LeasesAreBacked
    <3>2. ASSUME confirmed[x] # NoLease, NEW c \in Children[x]
          PROVE  confirmed'[c] >= confirmed'[x] - 2 * D
      <4>1. c \in Objects
        BY ChildrenAssumption
      <4>2. confirmed[c] >= confirmed[x] - 2 * D
        BY <3>2 DEF IInv, LeasesAreBacked, D
      <4> QED BY <1>5, <1>6, <2>2, <4>1, <4>2, LeasesInNat
    <3> QED BY <2>1, <2>2, <3>1, <3>2
  <2>3. CASE confirmed'[x] # confirmed[x]
    <3>1. x = o /\ confirmed'[x] = t
      BY <1>6, <2>3
    <3>2. ASSUME NEW c \in Children[x]
          PROVE  confirmed'[c] >= confirmed'[x] - 2 * D
      <4>1. c \in Objects
        BY ChildrenAssumption
      <4>2. confirmed[c] >= t - 2 * D
        BY <1>1, <1>2, <3>1
      <4> QED BY <1>3, <1>5, <1>6, <3>1, <4>1, <4>2, LeasesInNat
    <3> QED BY <1>1, <1>2, <2>1, <3>1, <3>2
  <2> QED BY <2>2, <2>3
<1>12. CallsBacked'
  <2> SUFFICES ASSUME NEW q \in Callers, call'[q].stage \in Uploading
               PROVE  CallBacked(q)'
    BY DEF CallsBacked
  <2>1. q # p
    BY <1>4 DEF IInv, TypeOK, Idle, Uploading
  <2>2. call'[q] = call[q]
    BY <1>4, <2>1 DEF IInv, TypeOK
  <2> QED BY <1>8, <2>2, OtherCallBacked
<1> QED BY <1>7, <1>9, <1>11, <1>12 DEF IInv

-----------------------------------------------------------------------------
(* What the flat store confirms now, it retains. *)
LEMMA TouchStep ==
    ASSUME IInv, NEW o \in Objects, now' = now,
           exists' = exists \cup {o}, touched' = [touched EXCEPT ![o] = now]
    PROVE  /\ exists' \in SUBSET Objects /\ Retained'
           /\ touched' \in [Objects -> Leases] /\ touched'[o] = now
           /\ \A x \in Objects : touched'[x] >= touched[x] /\ touched'[x] <= now
<1>1. now \in Nat /\ now \in Leases /\ \A x \in Objects : touched[x] \in Nat
  BY LeasesInNat DEF IInv, TypeOK
<1>2. /\ exists' \in SUBSET Objects
      /\ touched' \in [Objects -> Leases] /\ touched'[o] = now
      /\ \A x \in Objects : x # o => touched'[x] = touched[x]
  BY <1>1 DEF IInv, TypeOK
<1>3. ASSUME NEW x \in Objects
      PROVE  touched'[x] >= touched[x] /\ touched'[x] <= now
  <2>1. touched[x] <= now
    BY DEF IInv, NothingInTheFuture
  <2>2. touched'[x] = touched[x] \/ touched'[x] = now
    BY <1>2
  <2> QED BY <1>1, <2>1, <2>2
<1>4. Retained'
  BY <1>2 DEF IInv, Retained
<1> QED BY <1>2, <1>3, <1>4

LEMMA BaseUploadCompleteIInv ==
    ASSUME IInv, NEW p \in Callers, BaseUploadComplete(p)
    PROVE  IInv'
<1>1. call[p].stage = "base" /\ call[p].stage \in Uploading
  BY DEF BaseUploadComplete, Uploading
<1>2. PICK o \in Objects : o = call[p].object
  BY <1>1, CallFields DEF IInv
<1>3. /\ UNCHANGED <<now, leases, evictions>>
      /\ exists' = exists \cup {o} /\ touched' = [touched EXCEPT ![o] = now]
  BY <1>2 DEF BaseUploadComplete
<1>4. /\ exists' \in SUBSET Objects /\ Retained'
      /\ touched' \in [Objects -> Leases] /\ touched'[o] = now
      /\ \A x \in Objects : touched'[x] >= touched[x] /\ touched'[x] <= now
  BY <1>3, TouchStep
<1>5. CallBacked(p) /\ call[p] \in Calls /\ call[p].leaseNow <= now
  BY <1>1, CallFields DEF IInv, CallsBacked, CallBacked
<1>6. /\ now \in Nat /\ call[p].leaseNow \in Nat
      /\ \A x \in Objects : /\ confirmed[x] \in Nat
                            /\ touched[x] \in Nat /\ touched'[x] \in Nat
  BY <1>1, <1>4, CallFields, LeasesInNat DEF IInv, TypeOK
<1>7. CASE Children[o] = {}
  <2>1. Complete(p)
    BY <1>2, <1>7 DEF BaseUploadComplete
  <2>2. /\ leases' \in [Objects -> Leases]
        /\ \A x \in Objects : leases'[x] <= confirmed[x]
    BY <1>3 DEF IInv, TypeOK, LeasesAreBacked
  <2>3. touched'[call[p].object] >= call[p].leaseNow
    BY <1>2, <1>4, <1>5, <1>6
  <2>4. \A c \in Children[call[p].object] : confirmed[c] >= call[p].leaseNow - 2 * D
    BY <1>2, <1>7
  <2> QED BY <1>1, <1>3, <1>4, <2>1, <2>2, <2>3, <2>4, CompleteIInv
<1>8. CASE Children[o] # {}
  <2>1. PICK stage \in {"leases", "download"} :
           call' = [call EXCEPT ![p].stage = stage]
    BY <1>2, <1>8 DEF BaseUploadComplete
  <2>2. confirmed' = confirmed
    BY <1>2, <1>8 DEF BaseUploadComplete
  <2>3. /\ call'[p] = [call[p] EXCEPT !.stage = stage]
        /\ \A q \in Callers \ {p} : call'[q] = call[q]
    BY <2>1 DEF IInv, TypeOK
  <2>4. call'[p] \in Calls
    BY <1>5, <2>3 DEF Calls
  <2>5. TypeOK'
    BY <1>3, <1>4, <2>1, <2>2, <2>4 DEF IInv, TypeOK
  <2>6. Grows
    BY <1>3, <1>4, <1>6, <2>2 DEF Grows, IInv, TypeOK
  <2>7. NothingInTheFuture'
    BY <1>3, <1>4, <2>2 DEF IInv, NothingInTheFuture
  <2>8. LeasesAreBacked'
    <3> SUFFICES ASSUME NEW x \in Objects
                 PROVE  /\ leases[x] <= confirmed[x]
                        /\ confirmed[x] # NoLease =>
                              /\ touched'[x] >= confirmed[x]
                              /\ \A c \in Children[x] : confirmed[c] >= confirmed[x] - 2 * D
      BY <1>3, <2>2 DEF LeasesAreBacked, D
    <3>1. /\ leases[x] <= confirmed[x]
          /\ confirmed[x] # NoLease =>
                /\ touched[x] >= confirmed[x]
                /\ \A c \in Children[x] : confirmed[c] >= confirmed[x] - 2 * D
      BY DEF IInv, LeasesAreBacked, D
    <3>2. touched[x] >= confirmed[x] => touched'[x] >= confirmed[x]
      BY <1>4, <1>6
    <3> QED BY <3>1, <3>2
  <2>9. CallBacked(p)'
    <3>1. /\ call'[p].leaseNow = call[p].leaseNow /\ call'[p].object = o
          /\ call'[p].childrenLeases = call[p].childrenLeases
      BY <1>2, <1>5, <2>3 DEF Calls
    <3>2. touched'[o] >= call[p].leaseNow
      BY <1>4, <1>5, <1>6
    <3> QED BY <1>3, <1>5, <2>2, <3>1, <3>2 DEF CallBacked
  <2>10. CallsBacked'
    <3> SUFFICES ASSUME NEW q \in Callers, call'[q].stage \in Uploading
                 PROVE  CallBacked(q)'
      BY DEF CallsBacked
    <3>1. CASE q = p
      BY <2>9, <3>1
    <3>2. CASE q # p
      BY <2>3, <2>6, <3>2, OtherCallBacked
    <3> QED BY <3>1, <3>2
  <2> QED BY <1>4, <2>5, <2>7, <2>8, <2>10 DEF IInv
<1> QED BY <1>7, <1>8

LEMMA LeasesValidIInv ==
    ASSUME IInv, NEW p \in Callers, LeasesValid(p)
    PROVE  IInv'
<1>1. call[p].stage = "leases" /\ call[p].stage \in Uploading
  BY DEF LeasesValid, Uploading
<1>2. /\ UNCHANGED <<now, exists, evictions, touched>> /\ Complete(p)
      /\ leases' = StoredLeases(p, Children[call[p].object])
      /\ WantOutgoingReferencesLeases(p) = {}
  BY DEF LeasesValid
<1>3. /\ leases' \in [Objects -> Leases]
      /\ \A c \in Objects : leases'[c] <= confirmed[c]
  BY <1>1, <1>2, StoredLeasesBacked
<1>4. /\ exists' \in SUBSET Objects /\ Retained' /\ touched' \in [Objects -> Leases]
  BY <1>2 DEF IInv, TypeOK, Retained
<1>5. ASSUME NEW x \in Objects
      PROVE  touched'[x] >= touched[x] /\ touched'[x] <= now
  <2>1. touched[x] \in Nat /\ touched[x] <= now
    BY LeasesInNat DEF IInv, TypeOK, NothingInTheFuture
  <2> QED BY <1>2, <2>1
<1>6. touched'[call[p].object] >= call[p].leaseNow
  BY <1>1, <1>2 DEF IInv, CallsBacked, CallBacked
<1>7. ASSUME NEW c \in Children[call[p].object]
      PROVE  confirmed[c] >= call[p].leaseNow - 2 * D
  <2>1. c \in Objects
    BY <1>1, CallFields, ChildrenAssumption DEF IInv
  <2>2. ~(ChildLease(p, c) < LeaseIncompleteCutoff(p))
    BY <1>2 DEF WantOutgoingReferencesLeases
  <2>3. PICK t \in Nat : t = call[p].leaseNow
    BY <1>1, CallFields, LeasesInNat DEF IInv
  <2>4. D \in Nat
    BY LeasesInNat
  <2>5. LeaseIncompleteCutoff(p) \in {t - D, t - 2 * D}
    BY <2>3 DEF LeaseIncompleteCutoff, LeaseExpirationCutoff, D
  <2>6. ChildLease(p, c) \in Nat /\ ChildLease(p, c) <= confirmed[c]
    BY <1>1, <2>1, ChildLeaseBacked
  <2>7. confirmed[c] \in Nat
    BY <2>1, LeasesInNat DEF IInv, TypeOK
  <2>8. PICK k \in {t - D, t - 2 * D} : k = LeaseIncompleteCutoff(p)
    BY <2>5
  <2>9. PICK l \in Nat : l = ChildLease(p, c)
    BY <2>6
  <2>10. l >= k /\ k >= t - 2 * D /\ k \in Int
    BY <2>2, <2>4, <2>8, <2>9
  <2>11. l <= confirmed[c]
    BY <2>6, <2>9
  <2> QED BY <2>3, <2>4, <2>7, <2>10, <2>11
<1> QED BY <1>1, <1>2, <1>3, <1>4, <1>5, <1>6, <1>7, CompleteIInv

(* Steps that only change the leases map and end calls. *)
LEMMA LeasesStep ==
    ASSUME IInv, TypeOK', UNCHANGED <<now, exists, touched, confirmed>>,
           \A c \in Objects : leases'[c] <= confirmed[c],
           \A q \in Callers : call'[q].stage \in Uploading => call'[q] = call[q]
    PROVE  IInv'
<1>1. Grows
  <2>1. now \in Nat /\ \A o \in Objects : touched[o] \in Nat /\ confirmed[o] \in Nat
    BY LeasesInNat DEF IInv, TypeOK
  <2>2. now >= now /\ \A o \in Objects : touched[o] >= touched[o] /\ confirmed[o] >= confirmed[o]
    BY <2>1
  <2> QED BY <2>1, <2>2 DEF IInv, TypeOK, Grows
<1>2. LeasesAreBacked' /\ Retained' /\ NothingInTheFuture'
  BY DEF IInv, LeasesAreBacked, Retained, NothingInTheFuture
<1>3. CallsBacked'
  BY <1>1, OtherCallBacked DEF CallsBacked
<1> QED BY <1>2, <1>3 DEF IInv

LEMMA LeasesIncompleteIInv ==
    ASSUME IInv, NEW p \in Callers, LeasesIncomplete(p)
    PROVE  IInv'
<1> DEFINE renewal == [stage |-> "renewing", object |-> call[p].object,
                       leaseNow |-> call[p].leaseNow,
                       wanted |-> WantOutgoingReferencesLeases(p)]
<1>1. call[p].stage = "leases" /\ call[p].stage \in Uploading
  BY DEF LeasesIncomplete, Uploading
<1>2. /\ UNCHANGED <<now, exists, evictions, touched, confirmed>>
      /\ leases' = StoredLeases(p, Children[call[p].object])
  BY DEF LeasesIncomplete
<1>3. /\ leases' \in [Objects -> Leases]
      /\ \A c \in Objects : leases'[c] <= confirmed[c]
  BY <1>1, <1>2, StoredLeasesBacked
<1>4. WantOutgoingReferencesLeases(p) \in SUBSET Objects
  BY <1>1, CallFields, ChildrenAssumption DEF IInv, WantOutgoingReferencesLeases
<1>5. renewal \in Renewals /\ renewal.stage \notin Uploading
  BY <1>1, <1>4, CallFields DEF IInv, Renewals, Uploading
<1>6. PICK next \in {renewal, Idle} : call' = [call EXCEPT ![p] = next]
  BY DEF LeasesIncomplete
<1> HIDE DEF renewal
<1>7. next \in {Idle} \cup Renewals /\ next.stage \notin Uploading
  BY <1>5, <1>6 DEF Idle, Uploading
<1>8. TypeOK'
  BY <1>2, <1>3, <1>6, <1>7 DEF IInv, TypeOK
<1>9. \A q \in Callers : call'[q].stage \in Uploading => call'[q] = call[q]
  BY <1>6, <1>7 DEF IInv, TypeOK
<1> QED BY <1>2, <1>3, <1>8, <1>9, LeasesStep

LEMMA LeasesFailIInv ==
    ASSUME IInv, NEW p \in Callers, LeasesFail(p)
    PROVE  IInv'
<1>1. call[p].stage = "leases" /\ call[p].stage \in Uploading
  BY DEF LeasesFail, Uploading
<1>2. PICK stored \in SUBSET Children[call[p].object] : leases' = StoredLeases(p, stored)
  BY DEF LeasesFail
<1>3. /\ UNCHANGED <<now, exists, evictions, touched, confirmed>>
      /\ call' = [call EXCEPT ![p] = Idle]
  BY DEF LeasesFail, Return
<1>4. /\ leases' \in [Objects -> Leases]
      /\ \A c \in Objects : leases'[c] <= confirmed[c]
  BY <1>1, <1>2, StoredLeasesBacked
<1>5. TypeOK'
  BY <1>3, <1>4 DEF IInv, TypeOK
<1>6. \A q \in Callers : call'[q].stage \in Uploading => call'[q] = call[q]
  BY <1>3 DEF IInv, TypeOK, Idle, Uploading
<1> QED BY <1>3, <1>4, <1>5, <1>6, LeasesStep

LEMMA EvictIInv ==
    ASSUME IInv, NEW c \in Objects, Evict(c)
    PROVE  IInv'
<1>1. /\ UNCHANGED <<now, exists, call, touched, confirmed>>
      /\ leases' = [leases EXCEPT ![c] = NoLease] /\ evictions' = evictions + 1
  BY DEF Evict
<1>2. TypeOK'
  BY <1>1, LeasesInNat DEF IInv, TypeOK
<1>3. ASSUME NEW x \in Objects PROVE leases'[x] <= confirmed[x]
  <2>1. confirmed[x] \in Nat /\ leases[x] <= confirmed[x]
    BY LeasesInNat DEF IInv, TypeOK, LeasesAreBacked
  <2>2. leases'[x] = leases[x] \/ leases'[x] = 0
    BY <1>1 DEF IInv, TypeOK, NoLease
  <2> QED BY <2>1, <2>2
<1> QED BY <1>1, <1>2, <1>3, LeasesStep

LEMMA TickIInv == IInv /\ Tick => IInv'
<1> SUFFICES ASSUME IInv, Tick PROVE IInv'
  OBVIOUS
<1>1. /\ now < MaxTime /\ now' = now + 1
      /\ UNCHANGED <<exists, leases, call, evictions, touched, confirmed>>
  BY DEF Tick
<1>2. /\ now \in Nat /\ RetentionDuration \in Nat
      /\ \A o \in Objects : touched[o] \in Nat /\ confirmed[o] \in Nat
  BY LeasesInNat DEF IInv, TypeOK
<1>3. now' \in Times
  BY <1>1, TimeAssumption DEF IInv, TypeOK, Times
<1>4. TypeOK'
  BY <1>1, <1>3 DEF IInv, TypeOK
<1>5. ASSUME NEW o \in Objects
      PROVE  touched[o] >= touched[o] /\ confirmed[o] >= confirmed[o]
  <2>1. touched[o] \in Nat /\ confirmed[o] \in Nat
    BY <1>2
  <2> QED BY <2>1
<1>6. Grows
  BY <1>1, <1>2, <1>5 DEF Grows, IInv, TypeOK
<1>7. LeasesAreBacked'
  BY <1>1 DEF IInv, LeasesAreBacked
<1>8. Retained'
  BY <1>1, <1>2 DEF IInv, Retained
<1>9. NothingInTheFuture'
  BY <1>1, <1>2 DEF IInv, NothingInTheFuture
<1>10. CallsBacked'
  BY <1>1, <1>6, OtherCallBacked DEF CallsBacked
<1> QED BY <1>4, <1>7, <1>8, <1>9, <1>10 DEF IInv

LEMMA LoseIInv ==
    ASSUME IInv, NEW o \in Objects, Lose(o)
    PROVE  IInv'
<1>1. /\ now > touched[o] + RetentionDuration /\ exists' = exists \ {o}
      /\ UNCHANGED <<now, leases, call, evictions, touched, confirmed>>
  BY DEF Lose
<1>2. TypeOK'
  BY <1>1 DEF IInv, TypeOK
<1>3. LeasesAreBacked' /\ NothingInTheFuture' /\ CallsBacked'
  BY <1>1 DEF IInv, LeasesAreBacked, NothingInTheFuture, CallsBacked, CallBacked
<1>4. now \in Nat /\ RetentionDuration \in Nat /\ touched[o] \in Nat
  BY LeasesInNat DEF IInv, TypeOK
<1>5. ~(now <= touched[o] + RetentionDuration)
  BY <1>1, <1>4
<1>6. Retained'
  BY <1>1, <1>5 DEF IInv, Retained
<1> QED BY <1>2, <1>3, <1>6 DEF IInv

LEMMA NextIInv == IInv /\ [Next]_vars => IInv'
<1> SUFFICES ASSUME IInv, [Next]_vars PROVE IInv'
  OBVIOUS
<1>1. CASE UNCHANGED vars
  BY <1>1 DEF vars, IInv, TypeOK, LeasesAreBacked, Retained, NothingInTheFuture,
              CallsBacked, CallBacked
<1>2. ASSUME NEW p \in Callers, NEW o \in Objects, NEW contents \in BOOLEAN,
             Begin(p, o, contents)
      PROVE  IInv'
  BY <1>2, BeginIInv
<1>3. ASSUME NEW p \in Callers, AbandonRenewal(p) \/ BaseUploadMissing(p) \/ BaseFails(p)
      PROVE  IInv'
  BY <1>3, ReturnIInv DEF AbandonRenewal, BaseUploadMissing, BaseFails
<1>4. ASSUME NEW p \in Callers, Renew(p) \/ BaseUploadComplete(p) \/ DownloadContents(p)
      PROVE  IInv'
  BY <1>4, RenewIInv, BaseUploadCompleteIInv, DownloadContentsIInv
<1>5. ASSUME NEW p \in Callers, LeasesValid(p) \/ LeasesIncomplete(p) \/ LeasesFail(p)
      PROVE  IInv'
  BY <1>5, LeasesValidIInv, LeasesIncompleteIInv, LeasesFailIInv
<1>6. ASSUME NEW o \in Objects, Lose(o) \/ Evict(o)
      PROVE  IInv'
  BY <1>6, LoseIInv, EvictIInv
<1>7. \A p \in Callers : Uploads[p] \subseteq Objects
  BY UploadsAssumption
<1> QED BY <1>1, <1>2, <1>3, <1>4, <1>5, <1>6, <1>7, TickIInv DEF Next

LEMMA IInvHolds == Spec => []IInv
<1> QED BY InitIInv, NextIInv, PTL DEF Spec

(* LeasesAreBacked holds in every reachable state: flatbacked's            *)
(* UploadObject() never stores or hands out a lease that the flat store's  *)
(* confirmations do not justify, whatever the interleaving of its callers. *)
THEOREM LeasesAlwaysBacked == Spec => []LeasesAreBacked
<1>1. IInv => LeasesAreBacked
  BY DEF IInv
<1> QED BY <1>1, IInvHolds, PTL

-----------------------------------------------------------------------------
(* Each level of the graph costs 2 * D. *)
LEMMA OneLevelUp ==
    ASSUME NEW d \in Nat, NEW a \in Nat, NEW b \in Nat, a < b
    PROVE  d * a + d <= d * b
<1>1. PICK k \in Nat : b = a + 1 + k
  <2>1. b - a - 1 \in Nat /\ b = a + 1 + (b - a - 1)
    OBVIOUS
  <2> QED BY <2>1
<1>2. d * b = d * a + d + d * k
  BY <1>1
<1>3. d * k >= 0 /\ d * k \in Nat /\ d * a \in Nat
  OBVIOUS
<1> QED BY <1>2, <1>3

(* A fresh enough lease of an object vouches for everything below it. *)
LEMMA LeasedGraph ==
    ASSUME IInv, NEW o \in Objects, confirmed[o] # NoLease,
           now <= confirmed[o] + RetentionDuration
                    - 2 * LeaseCompletenessDuration * Height[o]
    PROVE  Reachable(o) \subseteq exists
<1> DEFINE d == 2 * D
<1> DEFINE S == {x \in Objects : confirmed[x] # NoLease
                                  /\ confirmed[x] - d * Height[x] >= confirmed[o] - d * Height[o]}
<1>1. /\ now \in Nat /\ RetentionDuration \in Nat
      /\ D \in Nat /\ d \in Nat
      /\ \A x \in Objects : /\ touched[x] \in Nat /\ confirmed[x] \in Nat
                            /\ Height[x] \in Nat /\ d * Height[x] \in Nat
  <2>1. /\ now \in Nat /\ RetentionDuration \in Nat /\ D \in Nat
        /\ \A x \in Objects : touched[x] \in Nat /\ confirmed[x] \in Nat
    BY LeasesInNat DEF IInv, TypeOK
  <2>2. d \in Nat
    BY <2>1
  <2>3. \A x \in Objects : Height[x] \in Nat
    BY ChildrenAssumption
  <2>4. \A a, b \in Nat : a * b \in Nat
    OBVIOUS
  <2> HIDE DEF d
  <2> QED BY <2>1, <2>2, <2>3, <2>4
<1>2. o \in S
  BY <1>1
<1>3. ASSUME NEW x \in S, NEW c \in Children[x]
      PROVE  c \in S
  <2>1. x \in Objects /\ c \in Objects /\ Height[c] < Height[x]
    BY ChildrenAssumption
  <2>2. confirmed[c] >= confirmed[x] - d
    BY <2>1 DEF IInv, LeasesAreBacked, D
  <2>3. d * Height[c] + d <= d * Height[x]
    BY <1>1, <2>1, OneLevelUp
  <2>4. confirmed[x] >= FirstTime /\ FirstTime > d /\ FirstTime \in Nat
    BY <2>1, LeasesInNat DEF IInv, TypeOK
  <2>5. confirmed[c] > 0
    BY <1>1, <2>1, <2>2, <2>4
  <2>6. confirmed[c] # NoLease
    BY <1>1, <2>1, <2>5 DEF NoLease
  <2>7. confirmed[c] - d * Height[c] >= confirmed[x] - d * Height[x]
    <3> HIDE DEF d
    <3> QED BY <1>1, <2>1, <2>2, <2>3
  <2>8. confirmed[x] - d * Height[x] >= confirmed[o] - d * Height[o]
    OBVIOUS
  <2> QED BY <1>1, <2>1, <2>6, <2>7, <2>8
<1>4. Closed(S)
  BY <1>3 DEF Closed
<1>5. Reachable(o) \subseteq S
  BY <1>2, <1>4 DEF Reachable
<1>6. ASSUME NEW x \in S PROVE x \in exists
  <2>1. x \in Objects /\ confirmed[x] # NoLease
        /\ confirmed[x] - d * Height[x] >= confirmed[o] - d * Height[o]
    OBVIOUS
  <2>2. touched[x] >= confirmed[x] /\ confirmed[x] > 0
    BY <1>1, <2>1 DEF IInv, LeasesAreBacked, NoLease
  <2>3. now <= confirmed[o] + RetentionDuration - d * Height[o]
    BY DEF D
  <2>4. now <= touched[x] + RetentionDuration
    <3> HIDE DEF d
    <3> QED BY <1>1, <2>1, <2>2, <2>3
  <2>5. touched[x] # NoLease
    BY <1>1, <2>1, <2>2 DEF NoLease
  <2> QED BY <2>1, <2>4, <2>5 DEF IInv, Retained
<1> QED BY <1>5, <1>6

(* LeasedGraphsExist holds in every reachable state: an object for which   *)
(* UploadObject() handed out a lease recently enough has everything below  *)
(* it in the flat store, for every graph and every retention duration.     *)
THEOREM LeasedGraphsAlwaysExist == Spec => []LeasedGraphsExist
<1>1. IInv => LeasedGraphsExist
  BY LeasedGraph DEF LeasedGraphsExist
<1> QED BY <1>1, IInvHolds, PTL
-----------------------------------------------------------------------------
(***************************************************************************)
(* Renewals.  What a caller was not asked for is still recent enough when  *)
(* it returns with what it was asked for, because the leases in the map    *)
(* only become later.                                                      *)
(***************************************************************************)
RenewalBacked(r) ==
    /\ r.leaseNow <= now
    /\ evictions = 0 =>
          \A c \in Children[r.object] \ r.wanted : leases[c] >= r.leaseNow - D

RenewalOf(p) ==
    /\ call[p].stage = "renewing" => RenewalBacked(call[p])
    /\ call[p].stage \in Uploading /\ call[p].renews # NoRenewal =>
          /\ RenewalBacked(call[p].renews)
          /\ call[p].renews.object = call[p].object
          /\ call[p].renews.leaseNow <= call[p].leaseNow
          /\ call[p].childrenLeases # NoLeases

RenewalsBacked == \A p \in Callers : RenewalOf(p)

LEMMA InitRenewalsBacked == Init => RenewalsBacked
  BY DEF Init, RenewalsBacked, RenewalOf, Idle, Uploading

(* Time passes and, unless one is forgotten, leases become later. *)
LeasesGrow ==
    /\ now' \in Nat /\ now' >= now /\ evictions' \in Nat /\ evictions \in Nat
    /\ evictions' = 0 =>
          evictions = 0 /\ \A c \in Objects : leases'[c] \in Nat /\ leases'[c] >= leases[c]

LEMMA RenewalStaysBacked ==
    ASSUME IInv, LeasesGrow, NEW r \in Renewals, RenewalBacked(r)
    PROVE  RenewalBacked(r)'
<1>1. /\ r.leaseNow \in Nat /\ now \in Nat /\ D \in Nat
      /\ Children[r.object] \subseteq Objects
      /\ \A c \in Objects : leases[c] \in Nat
  BY LeasesInNat, ChildrenAssumption DEF Renewals, IInv, TypeOK
<1>2. r.leaseNow <= now'
  BY <1>1 DEF LeasesGrow, RenewalBacked
<1>3. ASSUME evictions' = 0, NEW c \in Children[r.object] \ r.wanted
      PROVE  leases'[c] >= r.leaseNow - D
  <2>1. leases[c] >= r.leaseNow - D
    BY <1>3 DEF LeasesGrow, RenewalBacked
  <2> QED BY <1>1, <1>3, <2>1 DEF LeasesGrow
<1> QED BY <1>2, <1>3 DEF RenewalBacked

(* Every step lets time and leases grow. *)
LEMMA StoredLeasesGrow ==
    ASSUME IInv, NEW p \in Callers, call[p].stage = "leases", NEW stored,
           NEW c \in Objects
    PROVE  StoredLeases(p, stored)[c] \in Nat /\ StoredLeases(p, stored)[c] >= leases[c]
<1>1. leases[c] \in Nat /\ ProvidedLease(p, c) \in Nat
  BY ProvidedLeaseBacked, LeasesInNat DEF IInv, TypeOK
<1> QED BY <1>1 DEF StoredLeases, LaterOf

LEMMA NextGrows ==
    ASSUME IInv, [Next]_vars
    PROVE  LeasesGrow
<1>1. now \in Nat /\ evictions \in Nat /\ \A c \in Objects : leases[c] \in Nat
  BY LeasesInNat DEF IInv, TypeOK
<1>2. CASE UNCHANGED <<now, leases, evictions>>
  BY <1>1, <1>2 DEF LeasesGrow
<1>3. CASE Tick
  BY <1>1, <1>3 DEF Tick, LeasesGrow
<1>4. ASSUME NEW p \in Callers, NEW stored, call[p].stage = "leases",
             leases' = StoredLeases(p, stored), UNCHANGED <<now, evictions>>
      PROVE  LeasesGrow
  BY <1>1, <1>4, StoredLeasesGrow DEF LeasesGrow
<1>5. ASSUME NEW p \in Callers, LeasesValid(p) \/ LeasesIncomplete(p) \/ LeasesFail(p)
      PROVE  LeasesGrow
  BY <1>4, <1>5 DEF LeasesValid, LeasesIncomplete, LeasesFail
<1>6. ASSUME NEW c \in Objects, Evict(c) PROVE LeasesGrow
  BY <1>1, <1>6 DEF Evict, LeasesGrow
<1> QED
  BY <1>2, <1>3, <1>5, <1>6
     DEF Next, vars, Begin, Start, Renew, AbandonRenewal, BaseUploadComplete,
         BaseUploadMissing, DownloadContents, BaseFails, Lose

(* A renewal that no step has an influence on. *)
LEMMA RenewalOfSameCall ==
    ASSUME IInv, LeasesGrow, NEW p \in Callers, RenewalOf(p), call'[p] = call[p]
    PROVE  RenewalOf(p)'
<1>1. CASE call[p].stage = "renewing"
  <2>1. call[p] \in Renewals /\ RenewalBacked(call[p])
    BY <1>1, RenewalFields DEF IInv, RenewalOf
  <2>2. RenewalBacked(call[p])'
    BY <2>1, RenewalStaysBacked DEF RenewalBacked
  <2> QED BY <1>1, <2>2 DEF RenewalOf, Uploading
<1>2. CASE call[p].stage \in Uploading /\ call[p].renews # NoRenewal
  <2>1. call[p].renews \in Renewals /\ RenewalBacked(call[p].renews)
    BY <1>2, CallFields DEF IInv, RenewalOf
  <2>2. RenewalBacked(call[p].renews)'
    BY <2>1, RenewalStaysBacked DEF RenewalBacked
  <2> QED BY <1>2, <2>2 DEF RenewalOf, Uploading
<1>3. CASE /\ call[p].stage # "renewing"
           /\ ~(call[p].stage \in Uploading /\ call[p].renews # NoRenewal)
  BY <1>3 DEF RenewalOf
<1> QED BY <1>1, <1>2, <1>3

(* The flat store has answered, and the call proceeds. *)
LEMMA RenewalOfNextStage ==
    ASSUME IInv, LeasesGrow, NEW p \in Callers, RenewalOf(p), call[p].stage \in Uploading,
           NEW stage \in Uploading, call'[p] = [call[p] EXCEPT !.stage = stage]
    PROVE  RenewalOf(p)'
<1>1. /\ call[p] \in Calls /\ call[p].renews \in {NoRenewal} \cup Renewals
  BY CallFields DEF IInv
<1>2. /\ call'[p].stage = stage /\ call'[p].renews = call[p].renews
      /\ call'[p].object = call[p].object /\ call'[p].leaseNow = call[p].leaseNow
      /\ call'[p].childrenLeases = call[p].childrenLeases
  BY <1>1 DEF Calls
<1>3. stage # "renewing"
  BY DEF Uploading
<1>4. CASE call[p].renews # NoRenewal
  <2>1. call[p].renews \in Renewals /\ RenewalBacked(call[p].renews)
    BY <1>1, <1>4 DEF RenewalOf
  <2>2. RenewalBacked(call[p].renews)'
    BY <1>2, <2>1, RenewalStaysBacked DEF RenewalBacked
  <2> QED BY <1>2, <1>3, <1>4, <2>2 DEF RenewalOf
<1>5. CASE call[p].renews = NoRenewal
  BY <1>2, <1>3, <1>5 DEF RenewalOf
<1> QED BY <1>4, <1>5

(* A call that starts, of which the clock is not before that of the call   *)
(* whose leases it renews.                                                 *)
LEMMA RenewalOfStart ==
    ASSUME IInv, RenewalsBacked, NEW p \in Callers, NEW o \in Objects,
           NEW contents, NEW given, NEW renews, Start(p, o, contents, given, renews),
           \/ renews = NoRenewal
           \/ /\ call[p].stage = "renewing" /\ renews = call[p]
              /\ o = renews.object /\ given # NoLeases
    PROVE  RenewalOf(p)'
<1>1. /\ call'[p] = [stage |-> "base", object |-> o, contents |-> contents,
                     childrenLeases |-> given, leaseNow |-> now, renews |-> renews]
      /\ UNCHANGED <<now, leases, evictions>>
  BY DEF Start, IInv, TypeOK
<1>2. CASE renews = NoRenewal
  BY <1>1, <1>2 DEF RenewalOf
<1>3. CASE /\ call[p].stage = "renewing" /\ renews = call[p]
           /\ o = renews.object /\ given # NoLeases
  <2>1. RenewalBacked(renews)
    BY <1>3 DEF RenewalsBacked, RenewalOf
  <2>2. RenewalBacked(renews)' /\ renews.leaseNow <= now
    BY <1>1, <2>1 DEF RenewalBacked
  <2> QED BY <1>1, <1>3, <2>2 DEF RenewalOf, RenewalBacked
<1> QED BY <1>2, <1>3

(* What an incomplete result does not want is recent. *)
LEMMA RenewalOfIncomplete ==
    ASSUME IInv, NEW p \in Callers, LeasesIncomplete(p)
    PROVE  RenewalOf(p)'
<1>1. call[p].stage = "leases" /\ call[p].stage \in Uploading
  BY DEF LeasesIncomplete, Uploading
<1>2. CASE call[p].childrenLeases # NoLeases
  <2>1. call'[p] = Idle
    BY <1>2 DEF LeasesIncomplete, IInv, TypeOK
  <2> QED BY <2>1 DEF RenewalOf, Idle, Uploading
<1>3. CASE call[p].childrenLeases = NoLeases
  <2> DEFINE o == call[p].object
             t == call[p].leaseNow
             wanted == WantOutgoingReferencesLeases(p)
  <2>1. /\ call'[p] = [stage |-> "renewing", object |-> o, leaseNow |-> t, wanted |-> wanted]
        /\ leases' = StoredLeases(p, Children[o]) /\ UNCHANGED <<now, evictions>>
    BY <1>3 DEF LeasesIncomplete, IInv, TypeOK
  <2>2. /\ t \in Nat /\ t > 2 * D /\ D \in Nat /\ t <= now
        /\ o \in Objects /\ Children[o] \subseteq Objects
    <3>1. t \in Times /\ o \in Objects /\ t <= now
      BY <1>1, CallFields DEF IInv, CallsBacked, CallBacked
    <3>2. PICK u \in Times : u = t
      BY <3>1
    <3>3. u \in Nat /\ u > 2 * D /\ D \in Nat
      BY LeasesInNat
    <3> QED BY <3>1, <3>2, <3>3, ChildrenAssumption
  <2>3. ASSUME NEW c \in Children[o] \ wanted
        PROVE  leases'[c] >= t - D
    <3>1. ~(ChildLease(p, c) < LeaseIncompleteCutoff(p))
      BY <2>3 DEF WantOutgoingReferencesLeases
    <3>2. ProvidedLease(p, c) = 0
      BY <1>3 DEF ProvidedLease, NoLease
    <3>3. LeaseIncompleteCutoff(p) = t - D
      BY <1>3 DEF LeaseIncompleteCutoff, D
    <3>4. ChildLease(p, c) \in {leases'[c], 0}
      BY <2>1, <3>2 DEF ChildLease
    <3>5. leases'[c] \in Nat
      BY <1>1, <2>1, <2>2, StoredLeasesGrow
    <3> HIDE DEF t, o, wanted
    <3> QED BY <2>2, <3>1, <3>3, <3>4, <3>5
  <2> HIDE DEF t, o, wanted
  <2>4. call'[p].stage = "renewing" /\ RenewalBacked(call[p])'
    BY <2>1, <2>2, <2>3 DEF RenewalBacked
  <2> QED BY <2>4 DEF RenewalOf, RenewalBacked, Uploading
<1> QED BY <1>2, <1>3

LEMMA NextRenewalsBacked == IInv /\ RenewalsBacked /\ [Next]_vars => RenewalsBacked'
<1> SUFFICES ASSUME IInv, RenewalsBacked, [Next]_vars, NEW q \in Callers
             PROVE  RenewalOf(q)'
  BY DEF RenewalsBacked
<1>1. LeasesGrow /\ RenewalOf(q)
  BY NextGrows DEF RenewalsBacked
<1>2. CASE call'[q] = call[q]
  BY <1>1, <1>2, RenewalOfSameCall
<1>3. CASE call'[q] = Idle
  BY <1>3 DEF RenewalOf, Idle, Uploading
<1>4. CASE UNCHANGED call
  BY <1>2, <1>4
<1>5. ASSUME NEW p \in Callers, p # q,
             \E r : call' = [call EXCEPT ![p] = r]
      PROVE  call'[q] = call[q]
  BY <1>5 DEF IInv, TypeOK
<1>6. ASSUME NEW p \in Callers,
             \/ AbandonRenewal(p) \/ BaseUploadMissing(p) \/ BaseFails(p)
             \/ LeasesValid(p) \/ LeasesFail(p)
      PROVE  RenewalOf(q)'
  <2>1. call' = [call EXCEPT ![p] = Idle]
    BY <1>6 DEF AbandonRenewal, BaseUploadMissing, BaseFails, LeasesValid, LeasesFail,
                Complete, Return
  <2> QED BY <1>2, <1>3, <2>1 DEF IInv, TypeOK
<1>7. ASSUME NEW p \in Callers, NEW o \in Objects, NEW contents \in BOOLEAN,
             Begin(p, o, contents)
      PROVE  RenewalOf(q)'
  <2>1. PICK given : Start(p, o, contents, given, NoRenewal)
    BY <1>7 DEF Begin
  <2>2. p # q => call'[q] = call[q]
    BY <2>1, <1>5 DEF Start
  <2> QED BY <1>2, <2>1, <2>2, RenewalOfStart
<1>8. ASSUME NEW p \in Callers, Renew(p)
      PROVE  RenewalOf(q)'
  <2>1. /\ call[p].stage = "renewing" /\ call[p].object \in Objects
        /\ Start(p, call[p].object, FALSE, LeasesOf(call[p].wanted), call[p])
    BY <1>8, RenewalFields DEF Renew, IInv
  <2>2. LeasesOf(call[p].wanted) # NoLeases
    <3>1. DOMAIN LeasesOf(call[p].wanted) = Objects /\ DOMAIN NoLeases = {}
      BY DEF LeasesOf, NoLeases
    <3> QED BY <2>1, <3>1
  <2>3. p # q => call'[q] = call[q]
    BY <2>1, <1>5 DEF Start
  <2> QED BY <1>2, <2>1, <2>2, <2>3, RenewalOfStart
<1>9. ASSUME NEW p \in Callers, BaseUploadComplete(p) \/ DownloadContents(p)
      PROVE  RenewalOf(q)'
  <2>1. call[p].stage \in Uploading
    BY <1>9 DEF BaseUploadComplete, DownloadContents, Uploading
  <2>2. \/ call' = [call EXCEPT ![p] = Idle]
        \/ \E stage \in Uploading : call' = [call EXCEPT ![p].stage = stage]
    BY <1>9 DEF BaseUploadComplete, DownloadContents, Complete, Return, Uploading
  <2>3. \/ call'[q] = call[q] \/ call'[q] = Idle
        \/ p = q /\ \E stage \in Uploading : call'[q] = [call[q] EXCEPT !.stage = stage]
    BY <2>2 DEF IInv, TypeOK
  <2> QED BY <1>1, <1>2, <1>3, <2>1, <2>3, RenewalOfNextStage
<1>10. ASSUME NEW p \in Callers, LeasesIncomplete(p)
       PROVE  RenewalOf(q)'
  <2>1. p # q => call'[q] = call[q]
    BY <1>10, <1>5 DEF LeasesIncomplete
  <2> QED BY <1>2, <1>10, <2>1, RenewalOfIncomplete
<1>11. \A p \in Callers : Uploads[p] \subseteq Objects
  BY UploadsAssumption
<1> QED
  BY <1>4, <1>6, <1>7, <1>8, <1>9, <1>10, <1>11 DEF Next, vars, Tick, Lose, Evict

(* A renewal in time finds everything recent enough. *)
LEMMA RenewalInTime ==
    ASSUME IInv, RenewalsBacked, NEW p \in Callers, TimelyRenewal(p), evictions = 0
    PROVE  WantOutgoingReferencesLeases(p) = {}
<1> DEFINE o == call[p].object
           t == call[p].leaseNow
           r == call[p].renews
<1>1. /\ call[p].stage = "leases" /\ call[p].stage \in Uploading
      /\ r # NoRenewal /\ t <= r.leaseNow + D
      /\ \A c \in r.wanted : call[p].childrenLeases[c] >= r.leaseNow
  BY DEF TimelyRenewal, Uploading, D
<1>2. /\ o \in Objects /\ t \in Times /\ r \in Renewals
      /\ call[p].childrenLeases \in {NoLeases} \cup [Objects -> Leases]
  BY <1>1, CallFields DEF IInv
<1>3. /\ RenewalBacked(r) /\ r.object = o /\ r.leaseNow <= t
      /\ call[p].childrenLeases # NoLeases
  BY <1>1 DEF RenewalsBacked, RenewalOf
<1>4. PICK t0 \in Nat, r0 \in Nat : t0 = t /\ r0 = r.leaseNow
  BY <1>2, LeasesInNat DEF Renewals
<1>5. D \in Nat /\ r0 <= t0 /\ t0 <= r0 + D
  BY <1>1, <1>3, <1>4, LeasesInNat
<1>6. LeaseIncompleteCutoff(p) = t0 - 2 * D /\ LeaseExpirationCutoff(p) = t0 - 2 * D
  BY <1>3, <1>4 DEF LeaseIncompleteCutoff, LeaseExpirationCutoff, D
<1>7. ASSUME NEW c \in Children[o]
      PROVE  ~(ChildLease(p, c) < LeaseIncompleteCutoff(p))
  <2> DEFINE stored == StoredLeases(p, Children[o])
  <2>1. c \in Objects
    BY <1>2, ChildrenAssumption
  <2>2. ProvidedLease(p, c) \in Nat /\ stored[c] \in Nat /\ stored[c] >= leases[c]
        /\ leases[c] \in Nat
    BY <1>1, <2>1, ProvidedLeaseBacked, StoredLeasesGrow, LeasesInNat DEF IInv, TypeOK
  <2>3. ChildLease(p, c) = IF /\ ProvidedLease(p, c) < LeaseIncompleteCutoff(p)
                              /\ stored[c] >= LeaseExpirationCutoff(p)
                           THEN stored[c] ELSE ProvidedLease(p, c)
    BY DEF ChildLease
  <2>4. CASE c \in r.wanted
    <3>1. PICK l \in Nat : l = call[p].childrenLeases[c] /\ l >= r0
      BY <1>1, <1>2, <1>3, <1>4, <2>1, <2>4, LeasesInNat
    <3>2. ProvidedLease(p, c) = IF l < t0 THEN l ELSE t0
      BY <1>3, <1>4, <3>1 DEF ProvidedLease, EarlierOf
    <3> HIDE DEF stored, o, t, r
    <3>3. ProvidedLease(p, c) >= r0
      BY <1>5, <3>1, <3>2
    <3> QED BY <1>5, <1>6, <2>2, <2>3, <3>3
  <2>5. CASE c \notin r.wanted
    <3>1. leases[c] >= r0 - D
      BY <1>3, <1>4, <2>5 DEF RenewalBacked
    <3> HIDE DEF stored, o, t, r
    <3>2. stored[c] >= t0 - 2 * D
      BY <1>5, <2>2, <3>1
    <3> QED BY <1>5, <1>6, <2>2, <2>3, <3>2
  <2> QED BY <2>4, <2>5
<1> QED BY <1>7 DEF WantOutgoingReferencesLeases

(* RenewalSucceeds holds in every reachable state: the two cutoffs of      *)
(* flatbacked's UploadObject() are far enough apart that a caller that     *)
(* renews what it was asked to renew within LeaseCompletenessDuration is   *)
(* not told of further leases, whatever the graph and the other callers.   *)
THEOREM RenewalAlwaysSucceeds == Spec => []RenewalSucceeds
<1>1. IInv /\ RenewalsBacked => RenewalSucceeds
  BY RenewalInTime DEF RenewalSucceeds
<1>2. Spec => []RenewalsBacked
  BY InitRenewalsBacked, NextRenewalsBacked, IInvHolds, PTL DEF Spec
<1> QED BY <1>1, <1>2, IInvHolds, PTL
=============================================================================
