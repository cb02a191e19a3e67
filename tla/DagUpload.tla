----------------------------- MODULE DagUpload -----------------------------
(***************************************************************************)
(* The client and the server of UploadDags(), connected by a stream.       *)
(***************************************************************************)
EXTENDS DagServer, DagClient

vars == <<channel, serverVars, clientVars>>

Init == ServerInit /\ ClientInit

Running == clientStatus \notin Ended

(* An error of the client cancels the call on the server. *)
Server(A) == Running /\ A /\ UNCHANGED clientVars
Client(A) == Running /\ A /\ UNCHANGED serverVars

Done == ~Running /\ UNCHANGED vars

Next ==
    \/ Server(ServerStep)
    \/ Client(ClientStep)
    \/ \E i \in DOMAIN providers : Client(GetContentsFails(i))
    \/ Done

(* Both sides process what they receive, and goroutines run, are granted   *)
(* the lock and the semaphores, and get an answer from storage.            *)
Fairness ==
    /\ WF_vars(Server(ServerReceive)) /\ WF_vars(Server(ServerSend))
    /\ WF_vars(Server(LockedStep))
    /\ WF_vars(Server(\E s \in DOMAIN state : ObjectStep(s)))
    /\ WF_vars(Server(\E w \in tagWrites : UpdateTag(w[1], w[2])))
    /\ WF_vars(Client(ClientStep))

Spec == Init /\ [][Next]_vars /\ Fairness
-----------------------------------------------------------------------------
TypeOK == ServerTypeOK /\ ClientTypeOK

(* Client and server agree on what reference indices mean, whatever        *)
(* messages cross each other: neither side receives a message it does not  *)
(* expect, and the client is never asked for contents it has no walker     *)
(* for.  An upload only fails if storage or a walker did, or if the DAG    *)
(* exceeds the limit.                                                      *)
OnlyFaultsFailUploads ==
    /\ clientStatus # "protocolError"
    /\ clientStatus = "error" \/ status = "failed" =>
          \/ errors > 0 \/ walkerErrors > 0
          \/ ~CanAcquireParentAndChildren(Maximum, root)

(* Every walker is used or discarded when the upload ends. *)
WalkersReleased == clientStatus \in Ended => liveWalkers = 0

Promise == INSTANCE UploadPromise WITH
    stored <- exists, wantTag <- rootTag,
    result <- CASE clientStatus = "ok" -> "ok"
                [] clientStatus \in {"error", "protocolError"} -> "error"
                [] OTHER -> "running"

(* The protocol, with its deduplication of objects and its goroutines that *)
(* write them, implements the upload of a DAG: the client is only told of  *)
(* success if the whole DAG and its tag are stored, objects are written    *)
(* bottom-up and the upload ends.                                          *)
ImplementsPromise == Promise!Spec
=============================================================================
