----------------------------- MODULE LeaseStore -----------------------------
(***************************************************************************)
(* The store of pkg/storage/object/flatbacked, which puts leases in front  *)
(* of a flat object store, so that an object is only reported as complete  *)
(* if everything below it was recently seen to exist.                      *)
(*                                                                         *)
(* The flat store (pkg/storage/object/local) is represented by what its    *)
(* callers rely on: an object that UploadObject() reported as complete     *)
(* stays readable for RetentionDuration.  The leases map (LossyMap)        *)
(* returns the newest lease of a child, or has forgotten it.               *)
(***************************************************************************)
EXTENDS Integers

CONSTANTS
    Objects,
    Children,                     \* outgoing references, by object
    Height,                       \* LocalReference.GetHeight()
    Callers,
    Uploads,                      \* the objects that each caller uploads
    LeaseCompletenessDuration,
    RetentionDuration,
    FirstTime,                    \* the time at which the process starts
    MaxTime,                      \* bound on the clock
    MaxEvictions                  \* bound on the leases that the map forgets

NoLease == 0
Times == FirstTime .. MaxTime
Leases == {NoLease} \cup Times
NoLeases == <<>>

ASSUME DurationAssumption ==
    LeaseCompletenessDuration \in Nat /\ RetentionDuration \in Nat
ASSUME TimeAssumption ==
    /\ FirstTime \in Nat /\ MaxTime \in Nat /\ FirstTime <= MaxTime
    /\ FirstTime > 2 * LeaseCompletenessDuration
ASSUME UploadsAssumption == Uploads \in [Callers -> SUBSET Objects]
ASSUME ChildrenAssumption ==
    /\ Children \in [Objects -> SUBSET Objects]
    /\ Height \in [Objects -> Nat]
    /\ \A o \in Objects : \A c \in Children[o] : Height[c] < Height[o]

VARIABLES
    now,
    exists,       \* the objects in the flat store
    leases,       \* the leases map
    call,         \* UploadObject() calls in progress
    evictions,
    touched,      \* history: when the flat store last confirmed an object
    confirmed     \* the newest lease that was handed out, by object

vars == <<now, exists, leases, call, evictions, touched, confirmed>>

Idle == [stage |-> "idle"]
(* A caller that provided no leases, got an incomplete result, and obtains *)
(* the leases that are wanted.                                             *)
NoRenewal == [stage |-> "none"]
Renewals ==
    [stage : {"renewing"}, object : Objects, leaseNow : Times, wanted : SUBSET Objects]
Calls ==
    [stage : {"base", "download", "leases"},
     object : Objects,
     contents : BOOLEAN,
     childrenLeases : {NoLeases} \cup [Objects -> Leases],
     leaseNow : Times,
     renews : {NoRenewal} \cup Renewals]

TypeOK ==
    /\ now \in Times
    /\ exists \in SUBSET Objects
    /\ leases \in [Objects -> Leases]
    /\ call \in [Callers -> {Idle} \cup Renewals \cup Calls]
    /\ evictions \in Nat
    /\ touched \in [Objects -> Leases]
    /\ confirmed \in [Objects -> Leases]

Init ==
    /\ now = FirstTime
    /\ exists = {}
    /\ leases = [o \in Objects |-> NoLease]
    /\ call = [p \in Callers |-> Idle]
    /\ evictions = 0
    /\ touched = [o \in Objects |-> NoLease]
    /\ confirmed = [o \in Objects |-> NoLease]

LaterOf(a, b) == IF a > b THEN a ELSE b
EarlierOf(a, b) == IF a < b THEN a ELSE b

-----------------------------------------------------------------------------
(* UploadObject() is called and reads the clock. *)
Start(p, o, contents, childrenLeases, renews) ==
    /\ call' = [call EXCEPT ![p] =
          [stage |-> "base", object |-> o, contents |-> contents,
           childrenLeases |-> childrenLeases, leaseNow |-> now, renews |-> renews]]
    /\ UNCHANGED <<now, exists, leases, evictions, touched, confirmed>>

(* Callers provide the newest lease that was handed out, or none. *)
LeasesOf(provided) ==
    [c \in Objects |-> IF c \in provided THEN confirmed[c] ELSE NoLease]

Begin(p, o, contents) ==
    /\ call[p] = Idle
    /\ \/ Start(p, o, contents, NoLeases, NoRenewal)
       \/ \E provided \in SUBSET Children[o] :
             /\ Children[o] # {}
             /\ Start(p, o, contents, LeasesOf(provided), NoRenewal)

(* The call that follows an incomplete result.  Only the leases that were  *)
(* wanted are provided.                                                    *)
Renew(p) ==
    /\ call[p].stage = "renewing"
    /\ Start(p, call[p].object, FALSE, LeasesOf(call[p].wanted), call[p])

(* The call, or the renewal, ends without a lease. *)
Return(p) == call' = [call EXCEPT ![p] = Idle]

AbandonRenewal(p) ==
    /\ call[p].stage = "renewing"
    /\ Return(p)
    /\ UNCHANGED <<now, exists, leases, evictions, touched, confirmed>>

(* Mutant: the lease has the time at which the call returns. *)
CompleteAtReturn(p) ==
    /\ confirmed' = [confirmed EXCEPT ![call[p].object] = LaterOf(@, now)]
    /\ Return(p)

(* The call hands out a lease. *)
Complete(p) ==
    /\ confirmed' = [confirmed EXCEPT ![call[p].object] = LaterOf(@, call[p].leaseNow)]
    /\ Return(p)

(* The flat store has the object or is given it. *)
BaseUploadComplete(p) ==
    LET o == call[p].object
    IN  /\ call[p].stage = "base"
        /\ call[p].contents \/ o \in exists
        /\ exists' = exists \cup {o}
        /\ touched' = [touched EXCEPT ![o] = now]
        /\ IF Children[o] = {}
           THEN Complete(p)
           ELSE /\ call' = [call EXCEPT ![p].stage =
                               IF call[p].contents THEN "leases" ELSE "download"]
                /\ UNCHANGED confirmed
        /\ UNCHANGED <<now, leases, evictions>>

(* Mutant: a missing object is reported as if it were complete. *)
BaseUploadMissingIgnored(p) ==
    /\ call[p].stage = "base"
    /\ ~call[p].contents /\ call[p].object \notin exists
    /\ IF Children[call[p].object] = {}
       THEN Complete(p)
       ELSE /\ call' = [call EXCEPT ![p].stage = "leases"]
            /\ UNCHANGED confirmed
    /\ UNCHANGED <<now, exists, leases, evictions, touched>>

BaseUploadMissing(p) ==
    /\ call[p].stage = "base"
    /\ ~call[p].contents /\ call[p].object \notin exists
    /\ Return(p)
    /\ UNCHANGED <<now, exists, leases, evictions, touched, confirmed>>

DownloadContents(p) ==
    /\ call[p].stage = "download"
    /\ call[p].object \in exists
    /\ call' = [call EXCEPT ![p].stage = "leases"]
    /\ UNCHANGED <<now, exists, leases, evictions, touched, confirmed>>

(* A call into the flat store fails, or the object that it reported as     *)
(* complete can no longer be downloaded.                                   *)
BaseFails(p) ==
    /\ call[p].stage \in {"base", "download"}
    /\ Return(p)
    /\ UNCHANGED <<now, exists, leases, evictions, touched, confirmed>>

-----------------------------------------------------------------------------
LeaseExpirationCutoff(p) == call[p].leaseNow - 2 * LeaseCompletenessDuration

(* Mutant: as strict when leases are provided. *)
LeaseIncompleteCutoffStrict(p) == call[p].leaseNow - LeaseCompletenessDuration

LeaseIncompleteCutoff(p) ==
    IF call[p].childrenLeases = NoLeases
    THEN call[p].leaseNow - LeaseCompletenessDuration
    ELSE LeaseExpirationCutoff(p)

(* The lease that the caller provided, not later than the current time. *)
ProvidedLease(p, c) ==
    IF call[p].childrenLeases = NoLeases THEN NoLease
    ELSE EarlierOf(call[p].childrenLeases[c], call[p].leaseNow)

(* The leases map once the valid leases of some children were put into it. *)
StoredLeases(p, stored) ==
    [c \in Objects |->
        IF /\ c \in stored
           /\ call[p].childrenLeases # NoLeases
           /\ ProvidedLease(p, c) >= LeaseExpirationCutoff(p)
        THEN LaterOf(leases[c], ProvidedLease(p, c))
        ELSE leases[c]]

(* The lease against which the completeness of a child is decided. *)
ChildLease(p, c) ==
    LET stored == StoredLeases(p, Children[call[p].object])[c]
    IN  IF /\ ProvidedLease(p, c) < LeaseIncompleteCutoff(p)
           /\ stored >= LeaseExpirationCutoff(p)
        THEN stored
        ELSE ProvidedLease(p, c)

WantOutgoingReferencesLeases(p) ==
    {c \in Children[call[p].object] : ChildLease(p, c) < LeaseIncompleteCutoff(p)}

(* The loop over the children, during which the lock is held. *)
LeasesValid(p) ==
    /\ call[p].stage = "leases"
    /\ leases' = StoredLeases(p, Children[call[p].object])
    /\ WantOutgoingReferencesLeases(p) = {}
    /\ Complete(p)
    /\ UNCHANGED <<now, exists, evictions, touched>>

LeasesIncomplete(p) ==
    /\ call[p].stage = "leases"
    /\ leases' = StoredLeases(p, Children[call[p].object])
    /\ WantOutgoingReferencesLeases(p) # {}
    /\ call' = [call EXCEPT ![p] =
          IF call[p].childrenLeases = NoLeases
          THEN [stage |-> "renewing", object |-> call[p].object,
                leaseNow |-> call[p].leaseNow,
                wanted |-> WantOutgoingReferencesLeases(p)]
          ELSE Idle]
    /\ UNCHANGED <<now, exists, evictions, touched, confirmed>>

(* A read or write of the leases map fails after some children. *)
LeasesFail(p) ==
    /\ call[p].stage = "leases"
    /\ \E stored \in SUBSET Children[call[p].object] : leases' = StoredLeases(p, stored)
    /\ Return(p)
    /\ UNCHANGED <<now, exists, evictions, touched, confirmed>>

-----------------------------------------------------------------------------
Tick ==
    /\ now < MaxTime
    /\ now' = now + 1
    /\ UNCHANGED <<exists, leases, call, evictions, touched, confirmed>>

(* The flat store overwrites an object it has not confirmed for long. *)
Lose(o) ==
    /\ o \in exists
    /\ now > touched[o] + RetentionDuration
    /\ exists' = exists \ {o}
    /\ UNCHANGED <<now, leases, call, evictions, touched, confirmed>>

(* The leases map displaces a lease, after which renewals may take longer. *)
Evict(c) ==
    /\ leases[c] # NoLease
    /\ evictions < MaxEvictions
    /\ evictions' = evictions + 1
    /\ leases' = [leases EXCEPT ![c] = NoLease]
    /\ UNCHANGED <<now, exists, call, touched, confirmed>>

Next ==
    \/ \E p \in Callers :
          \/ \E o \in Uploads[p], contents \in BOOLEAN : Begin(p, o, contents)
          \/ Renew(p)
          \/ AbandonRenewal(p)
          \/ BaseUploadComplete(p)
          \/ BaseUploadMissing(p)
          \/ DownloadContents(p)
          \/ BaseFails(p)
          \/ LeasesValid(p)
          \/ LeasesIncomplete(p)
          \/ LeasesFail(p)
    \/ Tick
    \/ \E o \in Objects : Lose(o) \/ Evict(o)

Spec == Init /\ [][Next]_vars

-----------------------------------------------------------------------------
(* Sets of objects that contain the children of their members. *)
Closed(S) == \A o \in S : Children[o] \subseteq S

(* Everything below an object, itself included. *)
Reachable(o) == {x \in Objects : \A S \in SUBSET Objects : o \in S /\ Closed(S) => x \in S}

(* The promise of a lease: while the flat store keeps what it confirmed    *)
(* for 2 * LeaseCompletenessDuration per level of the graph and a margin   *)
(* on top, an object whose lease is not older than that margin has no      *)
(* missing objects below it.                                               *)
LeasedGraphsExist ==
    \A o \in Objects :
        /\ confirmed[o] # NoLease
        /\ now <= confirmed[o] + RetentionDuration
                    - 2 * LeaseCompletenessDuration * Height[o]
        => Reachable(o) \subseteq exists

(* The map never holds a lease that was not handed out.  Once one was, the *)
(* flat store has confirmed the object since, and the store its children   *)
(* at most 2 * LeaseCompletenessDuration before.                           *)
LeasesAreBacked ==
    \A o \in Objects :
        /\ leases[o] <= confirmed[o]
        /\ confirmed[o] # NoLease =>
              /\ touched[o] >= confirmed[o]
              /\ \A c \in Children[o] :
                    confirmed[c] >= confirmed[o] - 2 * LeaseCompletenessDuration

(* A call that provides the leases that the caller's previous one, made    *)
(* without any, wanted, all of them renewed and within                     *)
(* LeaseCompletenessDuration.                                              *)
TimelyRenewal(p) ==
    /\ call[p].stage = "leases" /\ call[p].renews # NoRenewal
    /\ call[p].leaseNow <= call[p].renews.leaseNow + LeaseCompletenessDuration
    /\ \A c \in call[p].renews.wanted :
          call[p].childrenLeases[c] >= call[p].renews.leaseNow

(* Such a caller is not told that some other lease has expired meanwhile,  *)
(* whatever other callers did, unless the map forgot a lease.              *)
RenewalSucceeds ==
    \A p \in Callers :
        TimelyRenewal(p) /\ evictions = 0 => WantOutgoingReferencesLeases(p) = {}
=============================================================================
