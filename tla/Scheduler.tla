----------------------------- MODULE Scheduler -----------------------------
(***************************************************************************)
(* InMemoryBuildQueue: the scheduler that accepts actions from clients and *)
(* hands them out to workers.                                              *)
(*                                                                         *)
(* All of the scheduler's state is protected by one lock.  It is the       *)
(* record bq, and every method that is called with the lock held is an     *)
(* operator from one such record to the next, or to the set of the ones    *)
(* that may come next where the code picks the head of a heap.  A call     *)
(* that blocks gives up the lock, and resumes as a step of its own.        *)
(*                                                                         *)
(* There is one platform queue, whose largest size class is predeclared.   *)
(* Other size classes appear when a worker announces them, and disappear   *)
(* when they have had no workers for some time.  The tree of invocations   *)
(* has a root and one level of children.  The order in which the heaps     *)
(* keep operations, invocations and workers is a matter of fairness and    *)
(* locality, and is left open.  Timestamps and metrics are left out.       *)
(***************************************************************************)
EXTENDS InitialSizeClass, Sequences, Functions, TLC

CONSTANTS
    Actions,          \* Deduplication keys of the actions that are executed.
    Keys,             \* Invocation keys of clients.
    Clients,          \* Execute() calls.
    Workers,          \* Worker IDs.
    WorkerClass,      \* The size class each of the workers announces.
    WorkerTaskRetryCount,
    MaximumQueuedBackgroundLearningOperations,
    None

ASSUME SchedulerAssumption ==
    /\ WorkerClass \in [Workers -> SizeClasses]
    /\ WorkerTaskRetryCount \in Nat
    /\ MaximumQueuedBackgroundLearningOperations \in Nat
    /\ IsFiniteSet(Keys) /\ IsFiniteSet(Clients) /\ IsFiniteSet(Workers)
    /\ None \notin Actions \cup Workers \cup Keys \cup {"root", "background"}
    /\ None \notin Nat
    /\ {"root", "background"} \cap Keys = {}

VARIABLES
    bq,       \* The state of the InMemoryBuildQueue.
    clients,  \* The Execute() and WaitExecution() calls of clients.
    wedged    \* The lock is held by a caller that waits for it itself.

Root == "root"
BackgroundLearningKeys == "background"
InvocationKeys == Keys \cup {Root, BackgroundLearningKeys}

(***************************************************************************)
(* A step of the code that panics if ok does not hold.  Nothing happens    *)
(* after a panic, as it takes down the process.                            *)
(***************************************************************************)
Unless(ok, s, next) ==
    IF ok /\ ~s.panicked THEN next ELSE [s EXCEPT !.panicked = TRUE]

\* The map f with an entry for key x, if it has none yet.
With(f, x, y) == [z \in DOMAIN f \cup {x} |-> IF z \in DOMAIN f THEN f[z] ELSE y]

\* Sequential composition: what F makes of the state s.
Then(s, F(_)) == CHOOSE v \in {IF u.panicked THEN u ELSE F(u) : u \in {s}} : TRUE

-----------------------------------------------------------------------------
(***************************************************************************)
(* Invocations.  An invocation is identified by its size class and key,    *)
(* and is in the tree if it is in the domain of inv.  It has the tasks of  *)
(* its queued operations, for every worker the number of its operations    *)
(* that the worker executes, and the number of idle workers that most      *)
(* recently executed one of its operations.                                *)
(***************************************************************************)
NewInvocation == [queued |-> {}, executing |-> [w \in Workers |-> 0], idle |-> 0]

Invocations(c, K) == {<<c, k>> : k \in K}

\* The number of the invocations of class c with keys K that are invocation
\* i, or below it.
Share(i, c, K) ==
    CASE i[1] # c -> 0
      [] i[1] = c /\ i[2] = Root -> Cardinality(K)
      [] OTHER -> IF i[2] \in K THEN 1 ELSE 0

getOrCreateInvocation(s, c, K) ==
    [s EXCEPT !.inv = [i \in DOMAIN s.inv \cup Invocations(c, K) |->
                          IF i \in DOMAIN s.inv THEN s.inv[i] ELSE NewInvocation]]

IsActive(i) == i.queued # {} \/ \E w \in Workers : i.executing[w] # 0

removeIfEmpty(s, c, K) ==
    LET empty == {i \in Invocations(c, K \ {Root}) : ~IsActive(s.inv[i]) /\ s.inv[i].idle = 0}
    IN  [s EXCEPT !.inv = Restrict(s.inv, DOMAIN s.inv \ empty)]

incrementExecutingWorkersCount(s, c, K, w) ==
    Unless(Invocations(c, K) \subseteq DOMAIN s.inv, s,
        [s EXCEPT !.inv = [i \in DOMAIN s.inv |->
            [s.inv[i] EXCEPT !.executing[w] = @ + Share(i, c, K)]]])

decrementExecutingWorkersCount(s, c, K, w) ==
    Unless(/\ Invocations(c, K) \subseteq DOMAIN s.inv
           /\ \A i \in DOMAIN s.inv : s.inv[i].executing[w] >= Share(i, c, K), s,
        Then([s EXCEPT !.inv = [i \in DOMAIN s.inv |->
                  [s.inv[i] EXCEPT !.executing[w] = @ - Share(i, c, K)]]],
             LAMBDA u : removeIfEmpty(u, c, K)))

\* Place all operations of a task in the queues of their invocations.
enqueue(s, t, K) ==
    LET queues == Invocations(s.tasks[t].class, K) IN
    Unless(queues \subseteq {i \in DOMAIN s.inv : t \notin s.inv[i].queued}, s,
        [s EXCEPT !.inv = [i \in DOMAIN s.inv |->
            IF i \in queues THEN [s.inv[i] EXCEPT !.queued = @ \cup {t}] ELSE s.inv[i]]])

removeQueuedFromInvocation(s, t, K) ==
    LET queues == Invocations(s.tasks[t].class, K) IN
    Unless(queues \subseteq {i \in DOMAIN s.inv : t \in s.inv[i].queued}, s,
        [s EXCEPT !.inv = [i \in DOMAIN s.inv |->
            IF i \in queues THEN [s.inv[i] EXCEPT !.queued = @ \ {t}] ELSE s.inv[i]]])

clearLastInvocation(s, w) ==
    LET c == WorkerClass[w]
        k == s.workers[w].last
    IN  IF k = None THEN s
        ELSE Unless(/\ s.workers[w].wait # "queued"
                    /\ <<c, k>> \in DOMAIN s.inv
                    /\ \A i \in DOMAIN s.inv : s.inv[i].idle >= Share(i, c, {k}), s,
                 Then([s EXCEPT !.inv = [i \in DOMAIN s.inv |->
                                           [s.inv[i] EXCEPT !.idle = @ - Share(i, c, {k})]],
                                !.workers[w].last = None],
                      LAMBDA u : removeIfEmpty(u, c, {k})))

setLastInvocation(s, w, k) ==
    LET c == WorkerClass[w] IN
    Unless(s.workers[w].last = None /\ <<c, k>> \in DOMAIN s.inv, s,
        [s EXCEPT !.inv = [i \in DOMAIN s.inv |->
                             [s.inv[i] EXCEPT !.idle = @ + Share(i, c, {k})]],
                  !.workers[w].last = k])

-----------------------------------------------------------------------------
(***************************************************************************)
(* Tasks and operations.  A task has one operation for every invocation    *)
(* that asked for it, so that an operation is named by its task and key.   *)
(***************************************************************************)
NewOperation(background) ==
    [waiters |-> 0, mayExistWithoutWaiters |-> background, cleanup |-> FALSE]

newOperation(s, t, k, background) ==
    Unless(k \notin DOMAIN s.tasks[t].operations, s,
        [s EXCEPT !.tasks[t].operations = With(@, k, NewOperation(background))])

\* An operation that nobody waits for is removed after some time.
maybeStartCleanup(o) ==
    [o EXCEPT !.cleanup = o.cleanup \/ (o.waiters = 0 /\ ~o.mayExistWithoutWaiters)]

OperationKeys(s, t) == DOMAIN s.tasks[t].operations

\* The dequeueing of a worker, so that a task can be assigned to it or that
\* it notices it got drained.
wakeUp(s, w) ==
    Unless(s.workers[w].wait = "queued", s, [s EXCEPT !.workers[w].wait = "woken"])

assignUnqueuedTask(s, w, t) ==
    Unless(s.workers[w].task = None /\ s.tasks[t].worker = None, s,
        Then(Then([s EXCEPT !.workers[w].task = t,
                            !.tasks[t].worker = w,
                            !.tasks[t].retryCount = 0],
                  LAMBDA u : incrementExecutingWorkersCount(
                                 u, s.tasks[t].class, OperationKeys(s, t), w)),
             LAMBDA u : clearLastInvocation(u, w)))

assignQueuedTask(s, w, t) ==
    Then(assignUnqueuedTask(s, w, t),
         LAMBDA u : removeQueuedFromInvocation(u, t, OperationKeys(s, t)))

\* The idle workers of a size class that are best suited for a task: the
\* ones that last worked on one of its invocations, the ones without a last
\* invocation, or any.
PreferredWorkers(s, c, K) ==
    LET queued == {w \in DOMAIN s.workers : WorkerClass[w] = c /\ s.workers[w].wait = "queued"}
        nearest == {w \in queued : s.workers[w].last \in K}
        unbound == {w \in queued : s.workers[w].last = Root}
    IN  IF nearest # {} THEN nearest ELSE IF unbound # {} THEN unbound ELSE queued

schedule(s, t) ==
    LET workers == PreferredWorkers(s, s.tasks[t].class, OperationKeys(s, t)) IN
    IF workers = {}
    THEN {enqueue(s, t, OperationKeys(s, t))}
    ELSE {Then(wakeUp(s, w), LAMBDA u : assignUnqueuedTask(u, w, t)) : w \in workers}

LowestCommonAncestor(K) == IF \E k \in K : K = {k} THEN CHOOSE k \in K : TRUE ELSE Root

\* Mutant of leaveQueuedOrExecutingStage: the worker's last invocation is only
\* set once the task has left its invocations.
leaveQueuedOrExecutingStageLate(s, t, completedByWorker) ==
    LET c == s.tasks[t].class
        K == OperationKeys(s, t)
        w == s.tasks[t].worker
        last == IF completedByWorker THEN LowestCommonAncestor(K) ELSE Root
    IN  Unless(s.tasks[t].learner # NoLearner, s,
            IF w = None
            THEN Then(removeQueuedFromInvocation(s, t, K),
                      LAMBDA u : removeIfEmpty(u, c, K))
            ELSE Then(Then(decrementExecutingWorkersCount(s, c, K, w),
                           LAMBDA u : setLastInvocation(u, w, last)),
                      LAMBDA u : [u EXCEPT !.tasks[t].worker = None,
                                           !.workers[w].task = None]))

(***************************************************************************)
(* A task that is queued is first started on a temporary worker, which     *)
(* amounts to taking its operations off their queues.                      *)
(***************************************************************************)
leaveQueuedOrExecutingStage(s, t, completedByWorker) ==
    LET c == s.tasks[t].class
        K == OperationKeys(s, t)
        w == s.tasks[t].worker
        last == IF completedByWorker THEN LowestCommonAncestor(K) ELSE Root
    IN  Unless(s.tasks[t].learner # NoLearner, s,
            IF w = None
            THEN Then(removeQueuedFromInvocation(s, t, K),
                      LAMBDA u : removeIfEmpty(u, c, K))
            ELSE Then(Then(setLastInvocation(s, w, last),
                           LAMBDA u : decrementExecutingWorkersCount(u, c, K, w)),
                      LAMBDA u : [u EXCEPT !.tasks[t].worker = None,
                                           !.workers[w].task = None]))

\* Mutant of markCompleted: the task can still be deduplicated against.
markCompletedInFlight(s, t) ==
    [s EXCEPT
        !.tasks[t].learner = NoLearner,
        !.tasks[t].operations = [k \in DOMAIN @ |->
            IF @[k].mayExistWithoutWaiters
            THEN maybeStartCleanup([@[k] EXCEPT !.mayExistWithoutWaiters = FALSE])
            ELSE @[k]]]

\* Mutant of markCompleted: operations of background learning are left alone.
markCompletedForever(s, t) ==
    [s EXCEPT
        !.tasks[t].learner = NoLearner,
        !.inFlightDeduplicationMap = Restrict(@, DOMAIN @ \ {s.tasks[t].action})]

markCompleted(s, t) ==
    [s EXCEPT
        !.tasks[t].learner = NoLearner,
        !.inFlightDeduplicationMap =
            Restrict(@, DOMAIN @ \ {s.tasks[t].action}),
        !.tasks[t].operations = [k \in DOMAIN @ |->
            IF @[k].mayExistWithoutWaiters
            THEN maybeStartCleanup([@[k] EXCEPT !.mayExistWithoutWaiters = FALSE])
            ELSE @[k]]]

\* The learner's handle is released, either by reporting the outcome to it
\* or by abandoning it.
releaseHandle(s) == [s EXCEPT !.handles = @ - 1]

fail(s, t, completedByWorker) ==
    IF s.tasks[t].learner = NoLearner THEN s
    ELSE Then(leaveQueuedOrExecutingStage(s, t, completedByWorker),
              LAMBDA u : markCompleted([releaseHandle(u) EXCEPT !.tasks[t].failed = TRUE], t))

NewTask(action, c, learner) ==
    [action |-> action, class |-> c, learner |-> learner, worker |-> None,
     retryCount |-> 0, operations |-> <<>>, failed |-> FALSE, event |-> FALSE]

\* Create a task with one operation.  A fresh UUID names it.
addTask(s, action, choice, k, background) ==
    LET t == s.created + 1 IN
    Then(Then([s EXCEPT !.created = t,
                        !.tasks = With(@, t, NewTask(action, choice.class, choice.learner)),
                        !.inFlightDeduplicationMap =
                            IF background THEN @ ELSE With(@, action, t)],
              LAMBDA u : getOrCreateInvocation(u, choice.class, {k})),
         LAMBDA u : newOperation(u, t, k, background))

\* Mutant of scheduleInBackground: the learner that is not used is dropped.
scheduleInBackgroundLeak(s, choice) ==
    LET i == <<choice.class, BackgroundLearningKeys>>
        queued == IF i \in DOMAIN s.inv THEN s.inv[i].queued ELSE {}
    IN  IF Cardinality(queued) >= MaximumQueuedBackgroundLearningOperations
        THEN {s}
        ELSE UNION {schedule(u, u.created) :
                       u \in {addTask(s, None, choice, BackgroundLearningKeys, TRUE)}}

\* Run a task another time, just for learning, unless there are too many of
\* those already.
scheduleInBackground(s, choice) ==
    LET i == <<choice.class, BackgroundLearningKeys>>
        queued == IF i \in DOMAIN s.inv THEN s.inv[i].queued ELSE {}
    IN  IF Cardinality(queued) >= MaximumQueuedBackgroundLearningOperations
        THEN {releaseHandle(s)}
        ELSE UNION {schedule(u, u.created) :
                       u \in {addTask(s, None, choice, BackgroundLearningKeys, TRUE)}}

complete(s, t, succeeded, event) ==
    LET learner == s.tasks[t].learner
        background == Succeeded(learner, s.classes)
        finish(u) == markCompleted([u EXCEPT !.tasks[t].event = event], t)
        retry(u) == getOrCreateInvocation(
                        [u EXCEPT !.tasks[t].learner = Failed(learner),
                                  !.tasks[t].class = Max(s.classes)],
                        Max(s.classes), OperationKeys(s, t))
        conclude(u) ==
            CASE succeeded /\ background # {} ->
                    {finish(v) : v \in UNION {scheduleInBackground(u, b) : b \in background}}
              [] ~succeeded /\ Failed(learner) # NoLearner ->
                    UNION {schedule(v, t) : v \in {retry(u)}}
              [] OTHER -> {finish(releaseHandle(u))}
    IN  UNION {IF u.panicked THEN {u} ELSE conclude(u) :
                  u \in {leaveQueuedOrExecutingStage(s, t, TRUE)}}

\* Mutant of remove: the invocation of a queued operation is left behind.
removeLeavesInvocation(s, t, k) ==
    LET task == s.tasks[t]
        last == DOMAIN task.operations = {k}
        s1 == CASE last -> fail(s, t, FALSE)
                [] ~last /\ task.worker # None ->
                      decrementExecutingWorkersCount(s, task.class, {k}, task.worker)
                [] ~last /\ task.worker = None /\ task.learner # NoLearner ->
                      removeQueuedFromInvocation(s, t, {k})
                [] OTHER -> s
    IN  IF last
        THEN [s1 EXCEPT !.tasks = Restrict(@, DOMAIN @ \ {t})]
        ELSE [s1 EXCEPT !.tasks[t].operations = Restrict(@, DOMAIN @ \ {k})]

(***************************************************************************)
(* operation.remove(), which runs when nobody has waited for the operation *)
(* for some time.  A task without operations is forgotten.                 *)
(***************************************************************************)
remove(s, t, k) ==
    LET task == s.tasks[t]
        last == DOMAIN task.operations = {k}
        s1 == CASE last -> fail(s, t, FALSE)
                [] ~last /\ task.worker # None ->
                      decrementExecutingWorkersCount(s, task.class, {k}, task.worker)
                [] ~last /\ task.worker = None /\ task.learner # NoLearner ->
                      Then(removeQueuedFromInvocation(s, t, {k}),
                           LAMBDA u : removeIfEmpty(u, task.class, {k}))
                [] OTHER -> s
    IN  IF last
        THEN [s1 EXCEPT !.tasks = Restrict(@, DOMAIN @ \ {t})]
        ELSE [s1 EXCEPT !.tasks[t].operations = Restrict(@, DOMAIN @ \ {k})]

QueuedTasks(s, c) ==
    UNION {s.inv[i].queued : i \in {j \in DOMAIN s.inv : j[1] = c}}

failAllQueuedOperations(s, c) ==
    FoldSet(LAMBDA t, u : fail(u, t, FALSE), s, QueuedTasks(s, c))

WorkersOf(s, c) == {w \in DOMAIN s.workers : WorkerClass[w] = c}

\* sizeClassQueue.remove(), for a size class that has had no workers.
removeSizeClassQueue(s, c) ==
    LET s1 == failAllQueuedOperations(s, c) IN
    [s1 EXCEPT !.classes = @ \ {c},
               !.inv = Restrict(@, {i \in DOMAIN @ : i[1] # c}),
               !.drains = {w \in @ : WorkerClass[w] # c}]

removeStaleWorker(s, w) ==
    LET t == s.workers[w].task IN
    Then(Then(IF t = None THEN s ELSE fail(s, t, FALSE),
              LAMBDA u : clearLastInvocation(u, w)),
         LAMBDA u : [u EXCEPT !.workers = Restrict(@, DOMAIN @ \ {w})])

-----------------------------------------------------------------------------
(***************************************************************************)
(* Synchronize().  The outcome of a call is the next state and a response. *)
(* A call that blocks has no response yet: its worker is queued, or waits  *)
(* until it is no longer drained.                                          *)
(***************************************************************************)
Idle == [kind |-> "idle", task |-> None]
Executing(t) == [kind |-> "executing", task |-> t]
Continue == [kind |-> "continue", task |-> None]
AlreadySynchronizing == [kind |-> "error", task |-> None]
Blocked == [kind |-> "blocked", task |-> None]

Outcome(s, response) == [bq |-> s, response |-> response]

\* The call returns.  From now on the worker is removed if it doesn't
\* synchronize again in time.
Return(s, w, response) == Outcome([s EXCEPT !.workers[w].wait = "no"], response)

isDrained(s, w) == s.workers[w].terminating \/ w \in s.drains

assignNextQueuedTask(s, w) ==
    {Return(assignQueuedTask(s, w, t), w, Executing(t)) : t \in QueuedTasks(s, WorkerClass[w])}

\* An iteration of the loop in getNextTask().
waitForTask(s, w) ==
    IF isDrained(s, w)
    THEN {Outcome([s EXCEPT !.workers[w].wait = "drained"], Blocked)}
    ELSE IF QueuedTasks(s, WorkerClass[w]) # {}
    THEN assignNextQueuedTask(s, w)
    ELSE {Outcome(Unless(s.workers[w].wait # "queued", s,
                         [s EXCEPT !.workers[w].wait = "queued"]), Blocked)}

getNextTask(s, w, mayBlock, preferBeingIdle) ==
    CASE preferBeingIdle -> {Return(s, w, Idle)}
      [] ~preferBeingIdle /\ ~isDrained(s, w) /\ QueuedTasks(s, WorkerClass[w]) # {} ->
            assignNextQueuedTask(s, w)
      [] OTHER -> IF mayBlock THEN waitForTask(s, w) ELSE {Return(s, w, Idle)}

getCurrentOrNextTask(s, w, mayBlock, preferBeingIdle) ==
    LET t == s.workers[w].task IN
    IF t = None THEN getNextTask(s, w, mayBlock, preferBeingIdle)
    ELSE IF s.tasks[t].retryCount < WorkerTaskRetryCount
    THEN {Return([s EXCEPT !.tasks[t].retryCount = @ + 1], w, Executing(t))}
    ELSE UNION {getNextTask(u, w, mayBlock, preferBeingIdle) : u \in {fail(s, t, FALSE)}}

NewWorker == [task |-> None, wait |-> "no", terminating |-> FALSE, last |-> None]

\* The size class and the worker come into existence when they are first
\* seen.
register(s, w) ==
    IF w \in DOMAIN s.workers THEN s
    ELSE Then([getOrCreateInvocation(s, WorkerClass[w], {Root}) EXCEPT
                  !.classes = @ \cup {WorkerClass[w]},
                  !.workers = With(@, w, NewWorker)],
              LAMBDA u : setLastInvocation(u, w, Root))

(***************************************************************************)
(* The worker reports its own state.  What it says about a task other than *)
(* the one it should be running is ignored.                                *)
(***************************************************************************)
report(s, w, request) ==
    LET t == s.workers[w].task
        isRunningCorrectTask == t # None /\ t = request.task
        idle == request.preferBeingIdle
    IN  CASE ~isRunningCorrectTask ->
                getCurrentOrNextTask(s, w, request.state # "executing", idle)
          [] isRunningCorrectTask /\ request.state = "idle" ->
                getCurrentOrNextTask(s, w, TRUE, idle)
          [] isRunningCorrectTask /\ request.state = "executing" ->
                {Return(s, w, Continue)}
          [] isRunningCorrectTask /\ request.state = "rejected" ->
                UNION {getNextTask(u, w, TRUE, idle) : u \in {fail(s, t, TRUE)}}
          [] isRunningCorrectTask /\ request.state = "completed" ->
                UNION {getNextTask(u, w, TRUE, idle) :
                          u \in complete(s, t, request.succeeded, request.event)}

Synchronize(s, w, request) ==
    IF w \in DOMAIN s.workers /\ s.workers[w].wait # "no"
    THEN {Outcome(s, AlreadySynchronizing)}
    ELSE UNION {report(u, w, request) : u \in {register(s, w)}}

\* A blocked call resumes because its worker was woken up, or because
\* workers were undrained.
resumeAfterWakeup(s, w) ==
    IF s.workers[w].wait = "woken" /\ s.workers[w].task # None
    THEN {Return(s, w, Executing(s.workers[w].task))}
    ELSE waitForTask(s, w)

\* A blocked call resumes because it timed out, after dequeueing the worker.
resumeAfterTimeout(s, w) ==
    LET t == s.workers[w].task IN
    Return(s, w, IF s.workers[w].wait \in {"queued", "woken"} /\ t # None
                 THEN Executing(t) ELSE Idle)

-----------------------------------------------------------------------------
Request ==
    [state : {"idle", "executing", "completed", "rejected"},
     task : Nat \cup {None}, succeeded : BOOLEAN, event : BOOLEAN,
     preferBeingIdle : BOOLEAN]

\* The calls of clients, and the operation they wait for.
NewClient == [call |-> "none", task |-> None, key |-> Root]

SchedulerInit ==
    /\ bq = [classes |-> {Largest}, tasks |-> <<>>, created |-> 0,
             inFlightDeduplicationMap |-> <<>>,
             inv |-> [i \in {<<Largest, Root>>} |-> NewInvocation],
             workers |-> <<>>, drains |-> {}, handles |-> 0, panicked |-> FALSE]
    /\ clients = [c \in Clients |-> NewClient]
    /\ wedged = FALSE

\* The lock can be taken.
CanEnter == ~wedged /\ ~bq.panicked

\* The part of waitExecution() before it gives up the lock.
startWaiting(s, t, k) ==
    LET o == s.tasks[t].operations[k] IN
    [s EXCEPT !.tasks[t].operations[k] = [o EXCEPT !.cleanup = FALSE, !.waiters = @ + 1]]

\* The deferred part of waitExecution().
stopWaiting(s, t, k) ==
    LET o == s.tasks[t].operations[k] IN
    Unless(o.waiters > 0, s,
        [s EXCEPT !.tasks[t].operations[k] = maybeStartCleanup([o EXCEPT !.waiters = @ - 1])])

deduplicate(s, t, k) ==
    LET task == s.tasks[t] IN
    IF k \in DOMAIN task.operations THEN s
    ELSE Then(newOperation(getOrCreateInvocation(s, task.class, {k}), t, k, FALSE),
              LAMBDA u : IF task.worker # None
                         THEN incrementExecutingWorkersCount(u, task.class, {k}, task.worker)
                         ELSE enqueue(u, t, {k}))

Wait(c, s, t, k) ==
    /\ bq' = startWaiting(s, t, k)
    /\ clients' = [clients EXCEPT ![c] = [@ EXCEPT !.call = "waiting", !.task = t, !.key = k]]

\* A client asks for an action that is already in flight.
ExecuteDeduplicated(c, action, k) ==
    /\ CanEnter
    /\ clients[c].call = "none"
    /\ action \in DOMAIN bq.inFlightDeduplicationMap
    /\ LET t == bq.inFlightDeduplicationMap[action] IN Wait(c, deduplicate(bq, t, k), t, k)
    /\ UNCHANGED wedged

\* A client asks for an action, for which a task is created.
ExecuteNew(c, action, k) ==
    /\ CanEnter
    /\ clients[c].call = "none"
    /\ action \notin DOMAIN bq.inFlightDeduplicationMap
    /\ \E choice \in Select(bq.classes) :
         LET s == addTask([bq EXCEPT !.handles = @ + 1], action, choice, k, FALSE) IN
         \E u \in schedule(s, s.created) : Wait(c, u, s.created, k)
    /\ UNCHANGED wedged

\* A client that wakes up finds its task completed.
WaitExecutionCompletes(c) ==
    /\ CanEnter
    /\ clients[c].call = "waiting"
    /\ LET t == clients[c].task
       IN  /\ bq.tasks[t].learner = NoLearner
           /\ bq' = stopWaiting(bq, t, clients[c].key)
           /\ clients' = [clients EXCEPT ![c] = [NewClient EXCEPT !.call = "returned"]]
    /\ UNCHANGED wedged

\* A client goes away, or its connection breaks.
WaitExecutionCanceled(c) ==
    /\ CanEnter
    /\ clients[c].call = "waiting"
    /\ bq' = stopWaiting(bq, clients[c].task, clients[c].key)
    /\ clients' = [clients EXCEPT ![c] = [@ EXCEPT !.call = "canceled"]]
    /\ UNCHANGED wedged

\* WaitExecution(), with which a client reattaches to its operation.  It
\* takes the lock a second time if the operation exists.
WaitExecution(c) ==
    /\ CanEnter
    /\ clients[c].call = "canceled"
    /\ LET t == clients[c].task
           exists == t \in DOMAIN bq.tasks /\ clients[c].key \in DOMAIN bq.tasks[t].operations
       IN  /\ wedged' = exists
           /\ clients' = [clients EXCEPT ![c] =
                IF exists THEN [@ EXCEPT !.call = "reattaching"]
                ELSE [NewClient EXCEPT !.call = "returned"]]
    /\ UNCHANGED bq

-----------------------------------------------------------------------------
(***************************************************************************)
(* What happens with the passing of time.                                  *)
(***************************************************************************)
CleanUp(s) ==
    /\ CanEnter
    /\ bq' = s
    /\ UNCHANGED <<clients, wedged>>

OperationExpires ==
    \E t \in DOMAIN bq.tasks : \E k \in OperationKeys(bq, t) :
        bq.tasks[t].operations[k].cleanup /\ CleanUp(remove(bq, t, k))

\* Mutant of WorkerExpires: the task is retried as if the worker failed it.
WorkerExpiresRetries(w) ==
    /\ w \in DOMAIN bq.workers
    /\ bq.workers[w].wait = "no"
    /\ LET t == bq.workers[w].task
           retry == t # None /\ Failed(bq.tasks[t].learner) # NoLearner
       IN  \E s \in IF retry THEN complete(bq, t, FALSE, FALSE) ELSE {bq} :
              CleanUp(removeStaleWorker(s, w))

WorkerExpires(w) ==
    w \in DOMAIN bq.workers /\ bq.workers[w].wait = "no" /\ CleanUp(removeStaleWorker(bq, w))

SizeClassQueueExpires ==
    \E c \in bq.classes \ {Largest} :
        WorkersOf(bq, c) = {} /\ CleanUp(removeSizeClassQueue(bq, c))

(***************************************************************************)
(* The calls of administrators.                                            *)
(***************************************************************************)
KillOperation ==
    \E t \in DOMAIN bq.tasks : CleanUp(fail(bq, t, FALSE))

KillOperationsWithoutWorkers ==
    \E c \in bq.classes :
        WorkersOf(bq, c) = {} /\ CleanUp(failAllQueuedOperations(bq, c))

\* Mutant of wakeUpQueued: workers keep waiting for tasks.
wakeUpQueuedNot(s, W) == s

\* Wake up the workers that have become drained.
wakeUpQueued(s, W) ==
    [s EXCEPT !.workers = [w \in DOMAIN @ |->
        IF w \in W /\ @[w].wait = "queued" THEN [@[w] EXCEPT !.wait = "woken"] ELSE @[w]]]

AddDrain(w) ==
    /\ WorkerClass[w] \in bq.classes
    /\ CleanUp(wakeUpQueued([bq EXCEPT !.drains = @ \cup {w}], {w}))

RemoveDrain(w) ==
    /\ WorkerClass[w] \in bq.classes
    /\ CleanUp([bq EXCEPT
           !.drains = @ \ {w},
           !.workers = [v \in DOMAIN @ |->
               IF WorkerClass[v] = WorkerClass[w] /\ @[v].wait = "drained"
               THEN [@[v] EXCEPT !.wait = "undrained"] ELSE @[v]]])

TerminateWorkers(w) ==
    /\ w \in DOMAIN bq.workers
    /\ CleanUp(wakeUpQueued([bq EXCEPT !.workers[w].terminating = TRUE], {w}))

ClientNext ==
    \E c \in Clients :
        \/ \E action \in Actions, k \in Keys :
              ExecuteDeduplicated(c, action, k) \/ ExecuteNew(c, action, k)
        \/ WaitExecutionCompletes(c)
        \/ WaitExecution(c)

ManagementNext ==
    \/ \E c \in Clients : WaitExecutionCanceled(c)
    \/ KillOperation
    \/ KillOperationsWithoutWorkers
    \/ \E w \in Workers :
          AddDrain(w) \/ RemoveDrain(w) \/ TerminateWorkers(w) \/ WorkerExpires(w)

ExpiryNext == OperationExpires \/ SizeClassQueueExpires

-----------------------------------------------------------------------------
Task ==
    [action : Actions \cup {None}, class : SizeClasses, learner : Learner,
     worker : Workers \cup {None}, retryCount : 0..WorkerTaskRetryCount,
     operations : UNION {[K -> [waiters : 0..Cardinality(Clients),
                                mayExistWithoutWaiters : BOOLEAN, cleanup : BOOLEAN]] :
                            K \in SUBSET InvocationKeys},
     failed : BOOLEAN, event : BOOLEAN]

(***************************************************************************)
(* Type correctness of the scheduler's state and of the calls of clients.  *)
(***************************************************************************)
SchedulerTypeOK ==
    /\ bq.classes \subseteq SizeClasses /\ Largest \in bq.classes
    /\ bq.created \in Nat
    /\ DOMAIN bq.tasks \subseteq 1..bq.created
    /\ \A t \in DOMAIN bq.tasks : bq.tasks[t] \in Task
    /\ \A a \in DOMAIN bq.inFlightDeduplicationMap :
          a \in Actions /\ bq.inFlightDeduplicationMap[a] \in 1..bq.created
    /\ DOMAIN bq.inv \subseteq bq.classes \X InvocationKeys
    /\ \A i \in DOMAIN bq.inv :
          /\ bq.inv[i].queued \subseteq 1..bq.created
          /\ bq.inv[i].executing \in [Workers -> Nat]
          /\ bq.inv[i].idle \in Nat
    /\ DOMAIN bq.workers \subseteq Workers
    /\ \A w \in DOMAIN bq.workers :
          bq.workers[w] \in
             [task : 1..bq.created \cup {None},
              wait : {"no", "queued", "woken", "drained", "undrained"},
              terminating : BOOLEAN, last : InvocationKeys \cup {None}]
    /\ bq.drains \subseteq Workers
    /\ bq.handles \in Int
    /\ bq.panicked \in BOOLEAN
    /\ clients \in [Clients -> [call : {"none", "waiting", "canceled", "reattaching", "returned"},
                                task : 1..bq.created \cup {None},
                                key : InvocationKeys]]
    /\ wedged \in BOOLEAN

Uncompleted(t) == bq.tasks[t].learner # NoLearner

(***************************************************************************)
(* None of the code's panics can be reached: operations are attached to an *)
(* invocation once, workers and tasks are assigned when they are free, no  *)
(* counter becomes negative, no invocation is used after it was removed,   *)
(* no worker is queued twice or dequeued when it is not queued.            *)
(***************************************************************************)
NoPanic == ~bq.panicked

(***************************************************************************)
(* Workers and tasks agree on who executes what, and only tasks that are   *)
(* not completed are executed.  Every task that is neither completed nor   *)
(* executing is queued by each of its operations.  The counters of every   *)
(* invocation equal what workers and tasks say, and an invocation only     *)
(* remains in the tree as long as it has operations or workers, however    *)
(* tasks complete, fail, are retried on another size class, are abandoned  *)
(* by some of their clients, or lose their worker.                         *)
(***************************************************************************)
InvocationsAccounted ==
    /\ \A w \in DOMAIN bq.workers :
          LET t == bq.workers[w].task IN
          /\ t # None => /\ t \in DOMAIN bq.tasks
                         /\ bq.tasks[t].worker = w
                         /\ bq.tasks[t].class = WorkerClass[w]
                         /\ Uncompleted(t)
          /\ (t = None) <=> (bq.workers[w].last # None)
    /\ \A t \in DOMAIN bq.tasks :
          /\ bq.tasks[t].worker # None =>
                /\ bq.tasks[t].worker \in DOMAIN bq.workers
                /\ bq.workers[bq.tasks[t].worker].task = t
          /\ Uncompleted(t) => Invocations(bq.tasks[t].class, OperationKeys(bq, t)) \subseteq DOMAIN bq.inv
    /\ \A i \in DOMAIN bq.inv :
          /\ bq.inv[i].queued =
                {t \in DOMAIN bq.tasks : /\ Uncompleted(t) /\ bq.tasks[t].worker = None
                                         /\ i[1] = bq.tasks[t].class
                                         /\ i[2] \in OperationKeys(bq, t)}
          /\ \A w \in Workers :
                bq.inv[i].executing[w] =
                   IF w \in DOMAIN bq.workers /\ bq.workers[w].task # None
                   THEN Share(i, WorkerClass[w], OperationKeys(bq, bq.workers[w].task))
                   ELSE 0
          /\ bq.inv[i].idle =
                Cardinality({w \in DOMAIN bq.workers :
                    bq.workers[w].last # None /\ Share(i, WorkerClass[w], {bq.workers[w].last}) = 1})
          /\ i[2] # Root => IsActive(bq.inv[i]) \/ bq.inv[i].idle > 0

(***************************************************************************)
(* No work is left lying around while a worker waits for it: a worker only *)
(* waits for a task if its size class has none queued and it may be given  *)
(* one, and it only waits for being undrained if it is drained.            *)
(***************************************************************************)
BlockedWorkersHaveNothingToDo ==
    \A w \in DOMAIN bq.workers :
        /\ bq.workers[w].wait = "queued" =>
              /\ bq.workers[w].task = None
              /\ ~isDrained(bq, w)
              /\ QueuedTasks(bq, WorkerClass[w]) = {}
        /\ bq.workers[w].wait = "drained" => bq.workers[w].task = None /\ isDrained(bq, w)

(***************************************************************************)
(* Every handle on the statistics of an action is released exactly once:   *)
(* the ones that are not released are those of the learners of tasks that  *)
(* are not completed.                                                      *)
(***************************************************************************)
LearnersConcludedOnce ==
    bq.handles = Cardinality({t \in DOMAIN bq.tasks : Uncompleted(t)})

(***************************************************************************)
(* Requests are deduplicated against tasks that will still report a        *)
(* result, and an action is not executed by two such tasks.                *)
(***************************************************************************)
DeduplicationIsSound ==
    /\ \A a \in DOMAIN bq.inFlightDeduplicationMap :
          LET t == bq.inFlightDeduplicationMap[a] IN
          t \in DOMAIN bq.tasks /\ Uncompleted(t) /\ bq.tasks[t].action = a
    /\ \A t \in DOMAIN bq.tasks :
          Uncompleted(t) /\ bq.tasks[t].action # None =>
             /\ bq.tasks[t].action \in DOMAIN bq.inFlightDeduplicationMap
             /\ bq.inFlightDeduplicationMap[bq.tasks[t].action] = t

(***************************************************************************)
(* The operation of a client that waits exists, the waiters of operations  *)
(* are counted, and an operation nobody waits for is always going to be    *)
(* removed, except for background learning that is yet to complete.        *)
(***************************************************************************)
OperationsAreReclaimed ==
    /\ \A c \in Clients : clients[c].call = "waiting" =>
          clients[c].task \in DOMAIN bq.tasks /\
          clients[c].key \in OperationKeys(bq, clients[c].task)
    /\ \A t \in DOMAIN bq.tasks : \A k \in OperationKeys(bq, t) :
          LET o == bq.tasks[t].operations[k] IN
          /\ o.waiters = Cardinality({c \in Clients : /\ clients[c].call = "waiting"
                                                       /\ clients[c].task = t
                                                       /\ clients[c].key = k})
          /\ o.cleanup <=> o.waiters = 0 /\ ~o.mayExistWithoutWaiters
          /\ o.mayExistWithoutWaiters <=> Uncompleted(t) /\ bq.tasks[t].action = None

=============================================================================
