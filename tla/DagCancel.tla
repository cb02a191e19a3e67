----------------------------- MODULE DagCancel -----------------------------
(***************************************************************************)
(* The server of UploadDags() with a client that uploads several DAGs over *)
(* one stream and cancels some of them by leaving the contents of objects  *)
(* empty, as dag.proto permits.  The client in pkg/storage/dag/grpc does   *)
(* neither of these.                                                       *)
(***************************************************************************)
EXTENDS DagServer

CONSTANTS Roots, MaxCancellations

VARIABLES initiated, finalized, cancellations

clientVars == <<initiated, finalized, cancellations>>
vars == <<channel, serverVars, clientVars>>

Init ==
    /\ ServerInit
    /\ requests = <<>> /\ responses = <<>>
    /\ initiated = {} /\ finalized = 0 /\ cancellations = 0

(* As many DAGs as the handshake allows. *)
ClientInitiate(o) ==
    /\ o \in Roots \ initiated
    /\ Cardinality(initiated) - finalized < MaximumUnfinalizedDAGsCount
    /\ requests' = Append(requests, InitiateDag(o, TRUE))
    /\ initiated' = initiated \cup {o}
    /\ UNCHANGED <<responses, finalized, cancellations>>

ClientReceive ==
    /\ responses # <<>>
    /\ responses' = Tail(responses)
    /\ IF Head(responses).type = "RequestObjectContents"
       THEN \E cancel \in BOOLEAN :
               /\ cancel => cancellations < MaxCancellations
               /\ cancellations' = cancellations + IF cancel THEN 1 ELSE 0
               /\ requests' = Append(requests,
                                 ProvideObjectContents(Head(responses).index, cancel))
               /\ UNCHANGED finalized
       ELSE /\ finalized' = finalized + IF Head(responses).type = "FinalizeTag" THEN 1 ELSE 0
            /\ UNCHANGED <<requests, cancellations>>
    /\ UNCHANGED initiated

Server(A) == A /\ UNCHANGED clientVars
Client(A) == A /\ UNCHANGED serverVars

Next ==
    \/ Server(ServerStep) \/ Server(ReceiveCancellation)
    \/ Client(ClientReceive)
    \/ \E o \in Roots : Client(ClientInitiate(o))

Spec ==
    /\ Init /\ [][Next]_vars
    /\ WF_vars(Server(ServerReceive \/ ReceiveCancellation)) /\ WF_vars(Server(ServerSend))
    /\ WF_vars(Server(LockedStep))
    /\ WF_vars(Server(\E s \in DOMAIN state : ObjectStep(s)))
    /\ WF_vars(Server(\E w \in tagWrites : UpdateTag(w[1], w[2])))
    /\ WF_vars(Client(ClientReceive))
-----------------------------------------------------------------------------
(* Canceling a DAG does not take the stream down with it: the server still *)
(* finalizes all of the DAGs that were initiated.                          *)
StreamSurvivesCancellation == initiated = Roots ~> finalized = Cardinality(Roots)
=============================================================================
