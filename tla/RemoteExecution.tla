-------------------------- MODULE RemoteExecution --------------------------
(***************************************************************************)
(* Remote execution: clients that execute actions, the scheduler, and the  *)
(* workers that synchronize with it.                                       *)
(*                                                                         *)
(* A Synchronize() call that does not block is one step, at the time the   *)
(* scheduler holds its lock: what the worker does before and after only    *)
(* touches its own state.  The response may be lost, the connection of a   *)
(* call that blocks may break at any time, and a worker may crash at any   *)
(* time.  The scheduler notices a broken connection later, so that the     *)
(* worker's next call may overtake the previous one.  That holds for a     *)
(* call the scheduler has yet to start on, too: Synchronize() acquires the *)
(* lock without looking at its context, so that a request the worker gave  *)
(* up on is lost, or handled at any later time.                            *)
(***************************************************************************)
EXTENDS Scheduler

CONSTANT MaxDisturbances   \* Bound on faults and administrative actions.

ASSUME DisturbancesAssumption == MaxDisturbances \in Nat

VARIABLES
    procs,          \* The worker processes.
    abandoned,      \* The requests they gave up on, and that may yet be handled.
    belated,        \* History: the workers of which such a request was handled
                    \* since they were last answered.
    disturbances    \* The number of disturbances so far.

W == INSTANCE RemoteWorker WITH Nothing <- None

workerVars == <<procs, abandoned, belated>>

vars == <<bq, clients, wedged, procs, abandoned, belated, disturbances>>

Init ==
    /\ SchedulerInit
    /\ procs = [w \in Workers |-> W!NewWorker]
    /\ abandoned = [w \in Workers |-> {}]
    /\ belated = {}
    /\ disturbances = 0

\* A call returns, and its response is delivered if the worker still waits
\* for it.
Deliver(w, p, outcome) ==
    /\ bq' = outcome.bq
    /\ procs' \in {[procs EXCEPT ![w] = q] : q \in W!Apply(p, outcome.response)}
    /\ belated' = IF outcome.response \in {Blocked, AlreadySynchronizing}
                  THEN belated ELSE belated \ {w}
    /\ UNCHANGED <<clients, wedged, abandoned>>

\* One iteration of Run(), of which the request is handled in order.
Run(w) ==
    /\ CanEnter
    /\ ~procs[w].calling
    /\ \E p \in W!Progress(procs[w]) :
         \E outcome \in Synchronize(bq, w, W!RequestOf(p, WorkerClass[w] = Largest)) :
             Deliver(w, p, outcome)

\* The response does not reach the worker.
RunLosesResponse(w) ==
    /\ CanEnter
    /\ ~procs[w].calling
    /\ \E p \in W!Progress(procs[w]) :
         \E outcome \in Synchronize(bq, w, W!RequestOf(p, WorkerClass[w] = Largest)) :
             /\ bq' = outcome.bq
             /\ procs' = [procs EXCEPT ![w] = W!Failure(p)]
    /\ UNCHANGED <<clients, wedged, abandoned, belated>>

\* The call fails before its request is handled, because the connection
\* breaks or the worker is asked to shut down.
RunGivesUp(w) ==
    /\ ~procs[w].calling
    /\ \E p \in W!Progress(procs[w]) :
         /\ procs' = [procs EXCEPT ![w] = W!Failure(p)]
         /\ abandoned' = [abandoned EXCEPT ![w] =
                @ \cup {W!RequestOf(p, WorkerClass[w] = Largest)}]
    /\ UNCHANGED <<bq, clients, wedged, belated>>

\* A request that its worker gave up on is handled after all.  The worker,
\* which may have been restarted in the meantime, receives no response.
SynchronizeBelatedly(w) ==
    /\ CanEnter
    /\ \E request \in abandoned[w] :
         /\ \E outcome \in Synchronize(bq, w, request) : bq' = outcome.bq
         /\ abandoned' = [abandoned EXCEPT ![w] = @ \ {request}]
    /\ belated' = belated \cup {w}
    /\ UNCHANGED <<clients, wedged, procs>>

Blocking(w) == w \in DOMAIN bq.workers /\ bq.workers[w].wait # "no"

\* A blocked call that was woken up resumes.
Resume(w) ==
    /\ CanEnter
    /\ Blocking(w)
    /\ bq.workers[w].wait \in {"woken", "undrained"}
    /\ procs[w].calling
    /\ \E outcome \in resumeAfterWakeup(bq, w) : Deliver(w, procs[w], outcome)

\* A blocked call reaches its timeout.
Timeout(w) ==
    /\ CanEnter
    /\ Blocking(w)
    /\ procs[w].calling
    /\ Deliver(w, procs[w], resumeAfterTimeout(bq, w))

\* A blocked call whose connection broke returns.
Cancel(w) ==
    /\ CanEnter
    /\ Blocking(w)
    /\ ~procs[w].calling
    /\ bq' = [bq EXCEPT !.workers[w].wait = "no"]
    /\ UNCHANGED <<clients, wedged, workerVars>>

Disconnect(w) ==
    /\ procs[w].calling
    /\ procs' = [procs EXCEPT ![w] = W!Failure(@)]
    /\ UNCHANGED <<bq, clients, wedged, abandoned, belated>>

\* The process crashes and is restarted, or gives up on a scheduler it could
\* not reach for a minute.
Crash(w) ==
    /\ procs' = [procs EXCEPT ![w] = W!NewWorker]
    /\ UNCHANGED <<bq, clients, wedged, abandoned, belated>>

Stop(w) ==
    /\ procs' = [procs EXCEPT ![w] = W!Shutdown(@)]
    /\ UNCHANGED <<bq, clients, wedged, abandoned, belated>>

\* The worker terminates gracefully, and is later started again.
Terminate(w) ==
    /\ W!MayTerminate(procs[w])
    /\ procs' = [procs EXCEPT ![w] = W!NewWorker]
    /\ UNCHANGED <<bq, clients, wedged, abandoned, belated>>

\* What workers and the scheduler do with one another.
WorkerNext ==
    \E w \in Workers :
        \/ Run(w) \/ Resume(w) \/ Timeout(w) \/ Cancel(w) \/ Terminate(w)
        \/ SynchronizeBelatedly(w)

\* What goes wrong, or is asked for by an administrator.
Disturbance ==
    \/ \E w \in Workers :
          \/ RunLosesResponse(w) \/ RunGivesUp(w) \/ Disconnect(w)
          \/ Crash(w) \/ Stop(w)
    \/ ManagementNext /\ UNCHANGED workerVars

Next ==
    \/ /\ \/ ClientNext /\ UNCHANGED workerVars
          \/ ExpiryNext /\ UNCHANGED workerVars
          \/ WorkerNext
       /\ UNCHANGED disturbances
    \/ /\ disturbances < MaxDisturbances
       /\ disturbances' = disturbances + 1
       /\ Disturbance

Spec == Init /\ [][Next]_vars

(***************************************************************************)
(* Fairness: LaunchWorkerThread() keeps calling Run(), executors complete  *)
(* because of the execution timeout, woken goroutines get to take the      *)
(* lock, and gRPC notices broken connections.  Timeouts of blocking calls  *)
(* are not relied on.                                                      *)
(***************************************************************************)
Fairness ==
    /\ \A w \in Workers :
          /\ WF_vars(Run(w) /\ UNCHANGED disturbances)
          /\ WF_vars(Resume(w) /\ UNCHANGED disturbances)
          /\ WF_vars(Cancel(w) /\ UNCHANGED disturbances)
    /\ \A c \in Clients :
          WF_vars(WaitExecutionCompletes(c) /\ UNCHANGED <<workerVars, disturbances>>)

FairSpec == Spec /\ Fairness

-----------------------------------------------------------------------------
(***************************************************************************)
(* Type correctness of the scheduler and the workers.                      *)
(***************************************************************************)
TypeOK ==
    /\ SchedulerTypeOK
    /\ procs \in [Workers ->
          [state : {"idle", "executing", "completed", "rejected"},
           task : 1..bq.created \cup {None}, succeeded : BOOLEAN,
           schedulerMayThinkExecuting : BOOLEAN, calling : BOOLEAN,
           stopping : BOOLEAN, synchronized : BOOLEAN]]
    /\ abandoned \in [Workers -> SUBSET Request]
    /\ belated \subseteq Workers
    /\ disturbances \in 0..MaxDisturbances

(***************************************************************************)
(* No task is executed by two workers at the same time, even if requests   *)
(* or responses get lost, workers crash or are slow, or execution is       *)
(* retried on the largest size class.  It takes a request that a worker    *)
(* gave up on, and that is handled after the answer to a later one, to     *)
(* have the scheduler hand out a task that is still being executed.        *)
(***************************************************************************)
NoDuplicateExecution ==
    \A v, w \in Workers \ belated :
        v # w /\ procs[v].state = "executing" /\ procs[w].state = "executing"
            => procs[v].task # procs[w].task

(***************************************************************************)
(* A worker that believes it can be terminated without interrupting        *)
(* anything is right: unless it is yet to synchronize for the first time,  *)
(* the scheduler neither has a task assigned to it nor will assign one.    *)
(* The scheduler only does so if it handles a request that the worker gave *)
(* up on after it answered a later one.                                    *)
(***************************************************************************)
IdleWorkersAreIdle ==
    \A w \in Workers \ belated :
        /\ procs[w].synchronized
        /\ ~procs[w].calling
        /\ ~procs[w].schedulerMayThinkExecuting
        /\ w \in DOMAIN bq.workers
        => bq.workers[w].task = None /\ bq.workers[w].wait = "no"

(***************************************************************************)
(* Workers discard the completion event of an execution that failed on a   *)
(* smaller size class, because the scheduler has to retry it.  No client   *)
(* is told that its action completed without receiving that event.         *)
(***************************************************************************)
CompletionsCarryEvents ==
    \A c \in Clients :
        clients[c].call = "waiting" /\ bq.tasks[clients[c].task].learner = NoLearner
            => bq.tasks[clients[c].task].failed \/ bq.tasks[clients[c].task].event

\* Nobody keeps the scheduler or the workers from working.
Operational ==
    /\ ~wedged
    /\ bq.drains = {}
    /\ \A w \in DOMAIN bq.workers : ~bq.workers[w].terminating
    /\ \A w \in Workers : ~procs[w].stopping

(***************************************************************************)
(* Every client that waits is answered, provided that from some time on    *)
(* no worker is drained, terminating or shutting down, and that no client  *)
(* reattached to an operation (which blocks the scheduler).                *)
(***************************************************************************)
Answered ==
    <>[]Operational => \A c \in Clients :
        clients[c].call = "waiting" ~> clients[c].call # "waiting"

=============================================================================
