----------------------------- MODULE DagClient -----------------------------
(***************************************************************************)
(* The client of UploadDags() (pkg/storage/dag/grpc/uploader.go), which    *)
(* uploads one DAG.  For every object that the server has not finalized it *)
(* keeps the reference indices and, unless the contents were requested, a  *)
(* walker from which these can be obtained.  Goroutines provide contents   *)
(* while messages from the server are being processed.                     *)
(***************************************************************************)
EXTENDS DagProtocol, Functions, TLC

CONSTANTS
    Roots,                             \* objects that may be uploaded
    WalkerConcurrency,                 \* objectContentsWalkerSemaphore
    MaxWalkerErrors                    \* bound on failures of GetContents()

ASSUME ClientAssumption ==
    Roots \subseteq Objects /\ WalkerConcurrency \in Nat \ {0} /\ MaxWalkerErrors \in Nat

VARIABLES
    root, rootTag,         \* the call's arguments: is a tag to be written?
    unfinalized,           \* unfinalizedObjectsByReference and ...ByLowestIndex
    nextIndex,             \* nextReferenceIndex
    requested,             \* an object whose request waits for the semaphore
    providers,             \* goroutines that provide contents, by index
    clientStatus,
    liveWalkers,           \* walkers of which no method has been called
    walkerErrors

upload == <<root, rootTag>>
clientVars == <<upload, unfinalized, nextIndex, requested, providers, clientStatus,
                liveWalkers, walkerErrors>>

NewObject(index) == [lowest |-> index, additional |-> <<>>, walker |-> TRUE]

Ended == {"ok", "error", "protocolError"}

ClientTypeOK ==
    /\ root \in Objects /\ rootTag \in BOOLEAN
    /\ DOMAIN unfinalized \subseteq Objects /\ IsFiniteSet(DOMAIN unfinalized)
    /\ unfinalized \in [DOMAIN unfinalized ->
                         [lowest : Nat, additional : Seq(Nat), walker : BOOLEAN]]
    /\ nextIndex \in Nat
    /\ requested \in SUBSET (Nat \X Objects) /\ IsFiniteSet(requested)
    /\ DOMAIN providers \subseteq Nat /\ IsFiniteSet(DOMAIN providers)
    /\ providers \in [DOMAIN providers ->
                       [reference : Objects, stage : {"get", "send"}, discards : Nat]]
    /\ clientStatus \in {"objects", "tag", "eof"} \cup Ended
    /\ liveWalkers \in Int /\ walkerErrors \in Nat

(* Messages up to the initiation of the DAG have been sent. *)
ClientInit ==
    /\ root \in Roots /\ rootTag \in BOOLEAN
    /\ requests = <<InitiateDag(root, rootTag)>>
    /\ responses = <<>>
    /\ unfinalized = [o \in {root} |-> NewObject(0)]
    /\ nextIndex = 1
    /\ requested = {} /\ providers = <<>>
    /\ clientStatus = "objects"
    /\ liveWalkers = 1 /\ walkerErrors = 0

(* The call returns an error.  Goroutines are canceled and walkers that    *)
(* were not used yet are discarded.                                        *)
End(reason) ==
    /\ clientStatus' = reason
    /\ liveWalkers' = liveWalkers - Cardinality(requested)
          - Cardinality({o \in DOMAIN unfinalized : unfinalized[o].walker})
          - SumFunction([i \in DOMAIN providers |->
                providers[i].discards + IF providers[i].stage = "get" THEN 1 ELSE 0])
    /\ unfinalized' = <<>> /\ providers' = <<>> /\ requested' = {}
    /\ UNCHANGED <<upload, nextIndex>>

(* The main loop, which is held up while it waits for the semaphore and    *)
(* does not receive once all objects have been finalized.                  *)
Consume(types) ==
    /\ requested = {}
    /\ clientStatus = "objects" => DOMAIN unfinalized # {}
    /\ responses # <<>> /\ Head(responses).type \in types
    /\ responses' = Tail(responses)
    /\ UNCHANGED <<requests, walkerErrors>>

WithLowestIndex(i) == {o \in DOMAIN unfinalized : unfinalized[o].lowest = i}

ClientReceiveRequest ==
    LET i == Head(responses).index
        known == WithLowestIndex(i)
        o == CHOOSE x \in known : TRUE
    IN  /\ clientStatus = "objects" /\ Consume({"RequestObjectContents"})
        /\ IF known = {} \/ ~unfinalized[o].walker
           THEN End("protocolError")
           ELSE /\ unfinalized' = [unfinalized EXCEPT ![o].walker = FALSE]
                /\ requested' = {<<i, o>>}
                /\ UNCHANGED <<upload, nextIndex, providers, clientStatus, liveWalkers>>

AcquireSemaphore ==
    /\ Cardinality(DOMAIN providers) < WalkerConcurrency
    /\ \E r \in requested :
          providers' = With(providers, r[1],
                            [reference |-> r[2], stage |-> "get", discards |-> 0])
    /\ requested' = {}
    /\ UNCHANGED <<channel, upload, unfinalized, nextIndex, clientStatus, liveWalkers,
                   walkerErrors>>

(* Mutant: the walker of a child that is known already is dropped. *)
WalkersToDiscardNone(children) == {}

(* Children that have a walker already. *)
WalkersToDiscard(children) ==
    {c \in children \cap DOMAIN unfinalized : unfinalized[c].walker}

(* Mutant: sendLock is not held while indices are assigned. *)
SendLockAlwaysFree == TRUE

SendLockIsFree == \A j \in DOMAIN providers : providers[j].stage # "send"

(* The children's indices are assigned with sendLock held until the        *)
(* contents have been sent.  A child that is known already keeps the       *)
(* walker it has.                                                          *)
GetContents(i) ==
    LET o == providers[i].reference
        index == ChildIndices(o, nextIndex)
        known == Children[o] \cap DOMAIN unfinalized
        merged == [c \in Children[o] |->
                      IF c \in known
                      THEN [unfinalized[c] EXCEPT !.additional = Append(@, index[c]),
                                                  !.walker = TRUE]
                      ELSE NewObject(index[c])]
    IN  /\ providers[i].stage = "get"
        /\ SendLockIsFree
        /\ unfinalized' = WithAll(unfinalized, merged)
        /\ nextIndex' = nextIndex + Cardinality(Children[o])
        /\ liveWalkers' = liveWalkers - 1 + Cardinality(Children[o])
        /\ providers' = [providers EXCEPT
              ![i].stage = "send",
              ![i].discards = Cardinality(WalkersToDiscard(Children[o]))]
        /\ UNCHANGED <<channel, upload, requested, clientStatus, walkerErrors>>

GetContentsFails(i) ==
    /\ providers[i].stage = "get"
    /\ walkerErrors < MaxWalkerErrors
    /\ walkerErrors' = walkerErrors + 1
    /\ End("error")
    /\ UNCHANGED channel

SendContents(i) ==
    /\ providers[i].stage = "send"
    /\ requests' = Append(requests, ProvideObjectContents(i, FALSE))
    /\ liveWalkers' = liveWalkers - providers[i].discards
    /\ providers' = Restrict(providers, DOMAIN providers \ {i})
    /\ UNCHANGED <<responses, upload, unfinalized, nextIndex, requested, clientStatus,
                   walkerErrors>>

(* The server may not know all of the object's indices yet. *)
ClientReceiveFinalizeObject ==
    LET i == Head(responses).index
        n == Head(responses).additional
        known == WithLowestIndex(i)
        o == CHOOSE x \in known : TRUE
        indices == unfinalized[o].additional
    IN  /\ clientStatus = "objects" /\ Consume({"FinalizeObject"})
        /\ IF known = {} THEN End("protocolError")
           ELSE IF ~Head(responses).success THEN End("error")
           ELSE IF n > Len(indices) THEN End("protocolError")
           ELSE /\ IF n < Len(indices)
                   THEN /\ unfinalized' = [unfinalized EXCEPT
                              ![o].lowest = indices[n + 1],
                              ![o].additional = SubSeq(indices, n + 2, Len(indices))]
                        /\ UNCHANGED liveWalkers
                   ELSE /\ unfinalized' = Restrict(unfinalized, DOMAIN unfinalized \ {o})
                        /\ liveWalkers' = liveWalkers - IF unfinalized[o].walker THEN 1 ELSE 0
                /\ UNCHANGED <<upload, nextIndex, requested, providers, clientStatus>>

AllObjectsFinalized ==
    /\ clientStatus = "objects" /\ requested = {} /\ DOMAIN unfinalized = {}
    /\ requests' = Append(requests, CloseSend)
    /\ clientStatus' = IF rootTag THEN "tag" ELSE "eof"
    /\ UNCHANGED <<responses, upload, unfinalized, nextIndex, requested, providers,
                   liveWalkers, walkerErrors>>

ClientReceiveFinalizeTag ==
    /\ clientStatus = "tag" /\ Consume({"FinalizeTag"})
    /\ IF Head(responses).index # 0 THEN End("protocolError")
       ELSE IF ~Head(responses).success THEN End("error")
       ELSE /\ clientStatus' = "eof"
            /\ UNCHANGED <<upload, unfinalized, nextIndex, requested, providers,
                           liveWalkers>>

ClientReceiveHangup ==
    /\ clientStatus = "eof" /\ Consume({"Hangup"})
    /\ clientStatus' = "ok"
    /\ UNCHANGED <<upload, unfinalized, nextIndex, requested, providers, liveWalkers>>

(* The call was failed by the server, or it sent something that is not     *)
(* expected.                                                               *)
Expected ==
    CASE clientStatus = "objects" -> {"RequestObjectContents", "FinalizeObject"}
      [] clientStatus = "tag" -> {"FinalizeTag"}
      [] OTHER -> {"Hangup"}

ClientReceiveOther ==
    /\ clientStatus \notin Ended
    /\ Consume(ResponseTypes \ Expected)
    /\ End(IF Head(responses).type = "HangupError" THEN "error" ELSE "protocolError")

ClientStep ==
    \/ ClientReceiveRequest \/ ClientReceiveFinalizeObject \/ AllObjectsFinalized
    \/ ClientReceiveFinalizeTag \/ ClientReceiveHangup \/ ClientReceiveOther \/ AcquireSemaphore
    \/ \E i \in DOMAIN providers : GetContents(i) \/ SendContents(i)
=============================================================================
