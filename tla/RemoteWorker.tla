---------------------------- MODULE RemoteWorker ----------------------------
(***************************************************************************)
(* The worker's side of the remote worker protocol: remoteworker.Client,   *)
(* whose Run() method synchronizes with the scheduler once, and which      *)
(* LaunchWorkerThread() calls until the worker is asked to shut down.      *)
(*                                                                         *)
(* The state of one client is a record: what it reports to the scheduler,  *)
(* whether it is inside a Synchronize() call that blocks, whether it has   *)
(* been asked to stop, and whether the scheduler may think that it is      *)
(* executing something (schedulerMayThinkExecutingUntil).  A process that  *)
(* crashes or terminates is replaced by one in the initial state.          *)
(***************************************************************************)
EXTENDS Integers

CONSTANT Nothing            \* The absence of a task.

NewWorker ==
    [state |-> "idle", task |-> Nothing, succeeded |-> FALSE,
     schedulerMayThinkExecuting |-> FALSE, calling |-> FALSE, stopping |-> FALSE,
     synchronized |-> FALSE]

(***************************************************************************)
(* The start of Run(): a client that is executing either reports that it   *)
(* still is, or finds that the executor is done or returned an error.      *)
(***************************************************************************)
Progress(p) ==
    IF p.state = "executing"
    THEN {p, [p EXCEPT !.state = "rejected"]}
           \cup {[p EXCEPT !.state = "completed", !.succeeded = ok] : ok \in BOOLEAN}
    ELSE {p}

\* A worker with problems, or one that lost track, asks not to be given any
\* work, so that it can check its health first.
PreferBeingIdle(p) ==
    \/ p.stopping
    \/ p.state = "idle" /\ p.schedulerMayThinkExecuting
    \/ p.state = "completed" /\ ~p.succeeded

\* The events of unsuccessful executions are discarded if there is a larger
\* size class, as execution is retried there.
CompletionEvent(p, isLargestSizeClass) == p.succeeded \/ isLargestSizeClass

RequestOf(p, isLargestSizeClass) ==
    [state |-> p.state, task |-> p.task, succeeded |-> p.succeeded,
     event |-> CompletionEvent(p, isLargestSizeClass),
     preferBeingIdle |-> PreferBeingIdle(p)]

stopExecution(p) == [p EXCEPT !.state = "idle", !.task = Nothing, !.succeeded = FALSE]

\* The execution that is in progress is awaited before the next one starts.
\* An action that cannot be decrypted or has an invalid certificate is
\* rejected.
startExecution(p, t) ==
    {[stopExecution(p) EXCEPT !.state = st, !.task = t] : st \in {"executing", "rejected"}}

\* Mutant of Failure: a call that fails is taken to have had no effect.
FailureIgnored(p) == [p EXCEPT !.calling = FALSE]

\* The call failed, so that a request to execute something may be lost.
Failure(p) == [p EXCEPT !.calling = FALSE, !.schedulerMayThinkExecuting = TRUE]

\* Mutant of Apply: being told to go idle doesn't make the client forget that
\* the scheduler may think it is executing.
ApplyRemembers(p, response) ==
    CASE response.kind = "error" -> {Failure(p)}
      [] response.kind = "blocked" -> {[p EXCEPT !.calling = TRUE]}
      [] response.kind = "idle" ->
            {[stopExecution(p) EXCEPT !.calling = FALSE, !.synchronized = TRUE]}
      [] response.kind = "executing" ->
            {[q EXCEPT !.calling = FALSE, !.synchronized = TRUE,
                       !.schedulerMayThinkExecuting = TRUE] :
                q \in startExecution(p, response.task)}
      [] response.kind = "continue" -> {[p EXCEPT !.synchronized = TRUE]}

(***************************************************************************)
(* The end of Run(): the states the client can be in once it has received  *)
(* a response from the scheduler.                                          *)
(***************************************************************************)
Apply(p, response) ==
    CASE response.kind = "error" -> {Failure(p)}
      [] response.kind = "blocked" -> {[p EXCEPT !.calling = TRUE]}
      [] response.kind = "idle" ->
            {[stopExecution(p) EXCEPT !.calling = FALSE, !.synchronized = TRUE,
                                      !.schedulerMayThinkExecuting = FALSE]}
      [] response.kind = "executing" ->
            {[q EXCEPT !.calling = FALSE, !.synchronized = TRUE,
                       !.schedulerMayThinkExecuting = TRUE] :
                q \in startExecution(p, response.task)}
      [] response.kind = "continue" ->
            {[p EXCEPT !.synchronized = TRUE,
                       !.schedulerMayThinkExecuting = (p.state = "executing")]}

\* Run() is only called again, or the worker terminated, between calls.
MayTerminate(p) == p.stopping /\ ~p.calling /\ ~p.schedulerMayThinkExecuting

\* Shutting down cancels a call that is blocking.
Shutdown(p) == [(IF p.calling THEN Failure(p) ELSE p) EXCEPT !.stopping = TRUE]

=============================================================================
