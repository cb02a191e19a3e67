---------------------- MODULE RemoteExecutionInvariant ----------------------
(***************************************************************************)
(* The inductive invariant of remote execution, and what the methods of    *)
(* the scheduler do, as relations between two of its states.               *)
(*                                                                         *)
(* The methods of the scheduler are operators on its state, and several of *)
(* them are applied within one step.  The parts of the invariant are       *)
(* therefore stated of such a state, and have parameters for what does not *)
(* hold half-way: X is a set of tasks that are neither queued nor executed *)
(* for the moment, E is a set of invocations that may be empty, n is the   *)
(* number of handles that no task has, and P is a set of operations that   *)
(* nobody waits for yet.                                                   *)
(***************************************************************************)
EXTENDS RemoteExecution

(* A state is a record of these fields. *)
Fields == {"classes", "tasks", "created", "inFlightDeduplicationMap", "inv", "workers",
           "drains", "handles", "panicked"}

IsState(s) == s = [f \in Fields |-> s[f]]

TaskFields == {"action", "class", "learner", "worker", "retryCount", "operations",
               "failed", "event"}

IsTask(x) == x = [f \in TaskFields |-> x[f]]

Operation == [waiters : Nat, mayExistWithoutWaiters : BOOLEAN, cleanup : BOOLEAN]

TaskOK(x) ==
    /\ IsTask(x)
    /\ x.action \in Actions \cup {None}
    /\ x.class \in SizeClasses
    /\ x.learner \in Learner
    /\ x.worker \in Workers \cup {None}
    /\ x.retryCount \in 0 .. WorkerTaskRetryCount
    /\ x.operations = [k \in DOMAIN x.operations |-> x.operations[k]]
    /\ DOMAIN x.operations \subseteq InvocationKeys
    /\ \A k \in DOMAIN x.operations : x.operations[k] \in Operation
    /\ x.failed \in BOOLEAN /\ x.event \in BOOLEAN

Invocation == [queued : SUBSET Nat, executing : [Workers -> Nat], idle : Nat]

Worker(n) ==
    [task : 1 .. n \cup {None},
     wait : {"no", "queued", "woken", "drained", "undrained"},
     terminating : BOOLEAN, last : InvocationKeys \cup {None}]

(* The types of the parts of a state in which nothing panicked. *)
StateOK(s) ==
    /\ IsState(s)
    /\ s.panicked = FALSE
    /\ s.classes \subseteq SizeClasses /\ Largest \in s.classes
    /\ s.created \in Nat
    /\ DOMAIN s.tasks \subseteq 1 .. s.created
    /\ \A t \in DOMAIN s.tasks : TaskOK(s.tasks[t])
    /\ DOMAIN s.inv \subseteq s.classes \X InvocationKeys
    /\ \A i \in DOMAIN s.inv : s.inv[i] \in Invocation
    /\ DOMAIN s.workers \subseteq Workers
    /\ \A w \in DOMAIN s.workers : s.workers[w] \in Worker(s.created)
    /\ s.drains \subseteq Workers
    /\ s.handles \in Int

Pending(s, t) == s.tasks[t].learner # NoLearner

(* What workers say about the tasks and invocations that they refer to. *)
WorkersOK(s) ==
    \A w \in DOMAIN s.workers :
        LET t == s.workers[w].task IN
        /\ t # None => /\ t \in DOMAIN s.tasks
                       /\ s.tasks[t].worker = w
                       /\ s.tasks[t].class = WorkerClass[w]
                       /\ Pending(s, t)
        /\ (t = None) <=> (s.workers[w].last # None)
        /\ WorkerClass[w] \in s.classes
        /\ s.workers[w].last # None => <<WorkerClass[w], s.workers[w].last>> \in DOMAIN s.inv

(* What tasks say about the workers and invocations that they refer to. *)
TasksOK(s, X) ==
    \A t \in DOMAIN s.tasks :
        /\ DOMAIN s.tasks[t].operations # {}
        /\ s.tasks[t].worker # None =>
              /\ s.tasks[t].worker \in DOMAIN s.workers
              /\ s.workers[s.tasks[t].worker].task = t
        /\ Pending(s, t) => s.tasks[t].class \in s.classes
        /\ t \in X => Pending(s, t) /\ s.tasks[t].worker = None
        /\ Pending(s, t) /\ t \notin X =>
              Invocations(s.tasks[t].class, DOMAIN s.tasks[t].operations) \subseteq DOMAIN s.inv

Queues(s, t, i) ==
    /\ Pending(s, t)
    /\ s.tasks[t].worker = None
    /\ i[1] = s.tasks[t].class
    /\ i[2] \in DOMAIN s.tasks[t].operations

QueuesOK(s, X) ==
    \A i \in DOMAIN s.inv : s.inv[i].queued = {t \in DOMAIN s.tasks \ X : Queues(s, t, i)}

Executes(s, w, i) ==
    IF w \in DOMAIN s.workers /\ s.workers[w].task # None
    THEN Share(i, WorkerClass[w], DOMAIN s.tasks[s.workers[w].task].operations)
    ELSE 0

ExecutingOK(s) ==
    \A i \in DOMAIN s.inv : \A w \in Workers : s.inv[i].executing[w] = Executes(s, w, i)

IdleWorkers(s, i) ==
    {w \in DOMAIN s.workers :
        s.workers[w].last # None /\ Share(i, WorkerClass[w], {s.workers[w].last}) = 1}

IdleOK(s) == \A i \in DOMAIN s.inv : s.inv[i].idle = Cardinality(IdleWorkers(s, i))

(* Invocations that are not empty. *)
ActiveOK(s, E) ==
    \A i \in DOMAIN s.inv \ E : i[2] # Root => IsActive(s.inv[i]) \/ s.inv[i].idle # 0

RootsOK(s) == \A c \in s.classes : <<c, Root>> \in DOMAIN s.inv

Accounted(s, X, E) ==
    /\ WorkersOK(s) /\ TasksOK(s, X)
    /\ QueuesOK(s, X) /\ ExecutingOK(s) /\ IdleOK(s)
    /\ ActiveOK(s, E) /\ RootsOK(s)

(* What workers that wait have to do. *)
NothingQueued(s, X, c) ==
    \A t \in DOMAIN s.tasks \ X :
        Pending(s, t) /\ s.tasks[t].worker = None => s.tasks[t].class # c

WaitingOK(s, X) ==
    \A w \in DOMAIN s.workers :
        /\ s.workers[w].wait = "queued" =>
              /\ s.workers[w].task = None
              /\ ~isDrained(s, w)
              /\ NothingQueued(s, X, WorkerClass[w])
        /\ s.workers[w].wait = "drained" => isDrained(s, w)
        /\ s.workers[w].wait \in {"drained", "undrained"} => s.workers[w].task = None

PendingTasks(s) == {t \in DOMAIN s.tasks : Pending(s, t)}

HandlesOK(s, n) == s.handles = Cardinality(PendingTasks(s)) + n

DeduplicationOK(s) ==
    /\ \A a \in DOMAIN s.inFlightDeduplicationMap :
          LET t == s.inFlightDeduplicationMap[a] IN
          a \in Actions /\ t \in DOMAIN s.tasks /\ Pending(s, t) /\ s.tasks[t].action = a
    /\ \A t \in DOMAIN s.tasks :
          Pending(s, t) /\ s.tasks[t].action # None =>
             /\ s.tasks[t].action \in DOMAIN s.inFlightDeduplicationMap
             /\ s.inFlightDeduplicationMap[s.tasks[t].action] = t

(* Which size class the learner of a task is about, and what has become of *)
(* tasks that are completed.                                               *)
LearnersOK(s) ==
    \A t \in DOMAIN s.tasks :
        LET x == s.tasks[t] IN
        /\ x.learner.kind = "none" => x.learner = NoLearner
        /\ x.learner.kind \in {"largest", "largestBackground"} => x.class = Largest
        /\ x.learner.kind = "smallerBackground" => x.action = None
        /\ ~Pending(s, t) /\ x.action # None => x.failed \/ x.event

Waiters(cl, t, k) ==
    {c \in Clients : cl[c].call = "waiting" /\ cl[c].task = t /\ cl[c].key = k}

ClientsOK(s, cl) ==
    \A c \in Clients : cl[c].call = "waiting" =>
        /\ cl[c].task \in DOMAIN s.tasks
        /\ cl[c].key \in DOMAIN s.tasks[cl[c].task].operations
        /\ s.tasks[cl[c].task].action # None

OperationFine(s, cl, P, t, k) ==
    LET o == s.tasks[t].operations[k] IN
    /\ o.waiters = Cardinality(Waiters(cl, t, k))
    /\ <<t, k>> \notin P => (o.cleanup <=> o.waiters = 0 /\ ~o.mayExistWithoutWaiters)
    /\ o.mayExistWithoutWaiters <=> Pending(s, t) /\ s.tasks[t].action = None

OperationsOK(s, cl, P) ==
    \A t \in DOMAIN s.tasks : \A k \in DOMAIN s.tasks[t].operations : OperationFine(s, cl, P, t, k)

(* What is not affected by where tasks are queued or executed. *)
RecordsOK(s, cl, P) ==
    /\ DeduplicationOK(s) /\ LearnersOK(s)
    /\ ClientsOK(s, cl) /\ OperationsOK(s, cl, P)

(* The scheduler's state half-way a step, and between two steps. *)
Halfway(s, X, E, n, cl, P) ==
    /\ StateOK(s) /\ Accounted(s, X, E) /\ WaitingOK(s, X)
    /\ HandlesOK(s, n) /\ RecordsOK(s, cl, P)

SchedulerInv(s, cl) == Halfway(s, {}, {}, 0, cl, {})

(* If the task is executed by anyone, it is by worker w. *)
HeldBy(s, t, w) == t \in DOMAIN s.tasks /\ Pending(s, t) => s.tasks[t].worker = w

MayTerminateSafely(s, p, w) ==
    /\ p.synchronized /\ ~p.calling /\ ~p.schedulerMayThinkExecuting
    /\ w \in DOMAIN s.workers
    => s.workers[w].task = None /\ s.workers[w].wait = "no"

MayExecute(s, p, w) ==
    p.state = "executing" => p.task \in 1 .. s.created /\ HeldBy(s, p.task, w)

(* What holds of the workers that are not in set B. *)
ProcessesOK(s, ps, B) ==
    \A w \in Workers \ B : MayExecute(s, ps[w], w) /\ MayTerminateSafely(s, ps[w], w)

(* The requests of worker w. *)
RequestOK(w, request) ==
    /\ request.state \in {"idle", "executing", "completed", "rejected"}
    /\ request.succeeded \in BOOLEAN /\ request.event \in BOOLEAN
    /\ request.preferBeingIdle \in BOOLEAN
    /\ request.succeeded => request.event
    /\ WorkerClass[w] = Largest => request.event

RequestsOK(requests) ==
    /\ requests \in [Workers -> SUBSET Request]
    /\ \A w \in Workers : \A r \in requests[w] : RequestOK(w, r)

(* What calls of clients and worker processes may be. *)
Client(n) ==
    [call : {"none", "waiting", "canceled", "reattaching", "returned"},
     task : 1 .. n \cup {None}, key : InvocationKeys]

ClientsTyped(n, cl) == cl \in [Clients -> Client(n)]

Process(n) ==
    [state : {"idle", "executing", "completed", "rejected"},
     task : 1 .. n \cup {None}, succeeded : BOOLEAN,
     schedulerMayThinkExecuting : BOOLEAN, calling : BOOLEAN,
     stopping : BOOLEAN, synchronized : BOOLEAN]

ProcsTyped(n, ps) == ps \in [Workers -> Process(n)]

Processes ==
    /\ ProcsTyped(bq.created, procs) /\ ProcessesOK(bq, procs, belated)
    /\ NoDuplicateExecution /\ belated \subseteq Workers

Everything ==
    /\ SchedulerInv(bq, clients) /\ ClientsTyped(bq.created, clients)
    /\ wedged \in BOOLEAN /\ Processes /\ RequestsOK(abandoned)

(* The inductive invariant. *)
IInv == Everything /\ disturbances \in 0 .. MaxDisturbances

-----------------------------------------------------------------------------
(* What changes, given that only the tree of invocations does. *)
SameButInvocations(s, u) ==
    /\ IsState(u)
    /\ u.classes = s.classes /\ u.created = s.created
    /\ u.inFlightDeduplicationMap = s.inFlightDeduplicationMap
    /\ u.drains = s.drains /\ u.handles = s.handles /\ u.panicked = s.panicked
    /\ u.tasks = s.tasks /\ u.workers = s.workers

(* Removal of empty invocations. *)
Removes(s, u, c, K) ==
    /\ SameButInvocations(s, u)
    /\ DOMAIN u.inv \subseteq DOMAIN s.inv
    /\ \A i \in DOMAIN s.inv :
          \/ i \in DOMAIN u.inv
          \/ i \in Invocations(c, K \ {Root}) /\ ~IsActive(s.inv[i]) /\ s.inv[i].idle = 0
    /\ \A i \in DOMAIN u.inv :
          /\ u.inv[i] = s.inv[i]
          /\ IsActive(s.inv[i]) \/ s.inv[i].idle # 0 \/ i \notin Invocations(c, K \ {Root})

(* What the methods of invocations do, in states in which they do not      *)
(* panic.                                                                  *)
SameScalars(s, u) ==
    /\ IsState(u)
    /\ u.classes = s.classes /\ u.created = s.created
    /\ u.inFlightDeduplicationMap = s.inFlightDeduplicationMap
    /\ u.drains = s.drains /\ u.handles = s.handles /\ u.panicked = s.panicked

Increments(s, u, c, K, w) ==
    /\ SameButInvocations(s, u)
    /\ DOMAIN u.inv = DOMAIN s.inv
    /\ \A i \in DOMAIN s.inv :
          u.inv[i] = [s.inv[i] EXCEPT !.executing[w] = @ + Share(i, c, K)]

Decrements(s, u, c, K, w) ==
    /\ SameButInvocations(s, u)
    /\ DOMAIN u.inv = DOMAIN s.inv
    /\ \A i \in DOMAIN s.inv :
          u.inv[i] = [s.inv[i] EXCEPT !.executing[w] = @ - Share(i, c, K)]

Enqueues(s, u, t, c, K) ==
    /\ SameButInvocations(s, u)
    /\ DOMAIN u.inv = DOMAIN s.inv
    /\ \A i \in DOMAIN s.inv :
          u.inv[i] = IF i \in Invocations(c, K)
                     THEN [s.inv[i] EXCEPT !.queued = @ \cup {t}] ELSE s.inv[i]

Dequeues(s, u, t, c, K) ==
    /\ SameButInvocations(s, u)
    /\ DOMAIN u.inv = DOMAIN s.inv
    /\ \A i \in DOMAIN s.inv :
          u.inv[i] = IF i \in Invocations(c, K)
                     THEN [s.inv[i] EXCEPT !.queued = @ \ {t}] ELSE s.inv[i]

ClearsLast(s, u, w, c, k) ==
    /\ SameScalars(s, u) /\ u.tasks = s.tasks
    /\ u.workers = [s.workers EXCEPT ![w].last = None]
    /\ DOMAIN u.inv = DOMAIN s.inv
    /\ \A i \in DOMAIN s.inv : u.inv[i] = [s.inv[i] EXCEPT !.idle = @ - Share(i, c, {k})]

SetsLast(s, u, w, c, k) ==
    /\ SameScalars(s, u) /\ u.tasks = s.tasks
    /\ u.workers = [s.workers EXCEPT ![w].last = k]
    /\ DOMAIN u.inv = DOMAIN s.inv
    /\ \A i \in DOMAIN s.inv : u.inv[i] = [s.inv[i] EXCEPT !.idle = @ + Share(i, c, {k})]

Creates(s, u, c, K) ==
    /\ SameButInvocations(s, u)
    /\ DOMAIN u.inv = DOMAIN s.inv \cup Invocations(c, K)
    /\ \A i \in DOMAIN u.inv :
          u.inv[i] = IF i \in DOMAIN s.inv THEN s.inv[i] ELSE NewInvocation

(* Tasks that are given to workers, and taken away from them.  Of the task *)
(* only its worker and its number of retries change.                       *)
SameTask(x, y) ==
    /\ IsTask(y)
    /\ y.action = x.action /\ y.class = x.class /\ y.learner = x.learner
    /\ y.operations = x.operations /\ y.failed = x.failed /\ y.event = x.event

OnlyTask(s, u, t) ==
    /\ DOMAIN u.tasks = DOMAIN s.tasks
    /\ \A x \in DOMAIN s.tasks \ {t} : u.tasks[x] = s.tasks[x]

OnlyWorker(s, u, w) ==
    /\ DOMAIN u.workers = DOMAIN s.workers
    /\ \A v \in DOMAIN s.workers \ {w} : u.workers[v] = s.workers[v]

Moves(s, u, t, w) ==
    /\ SameScalars(s, u) /\ OnlyTask(s, u, t) /\ SameTask(s.tasks[t], u.tasks[t])
    /\ u.tasks[t].worker = w
    /\ u.tasks[t].retryCount \in 0 .. WorkerTaskRetryCount

WorkerWith(x, t, k) ==
    [task |-> t, wait |-> x.wait, terminating |-> x.terminating, last |-> k]

(* Task t is given to worker w, of which the last invocation was k. *)
Assigns(s, u, w, t, k) ==
    LET c == WorkerClass[w]
        K == DOMAIN s.tasks[t].operations
    IN  /\ Moves(s, u, t, w) /\ OnlyWorker(s, u, w)
        /\ u.workers[w] = WorkerWith(s.workers[w], t, None)
        /\ DOMAIN u.inv = DOMAIN s.inv
        /\ \A i \in DOMAIN s.inv :
              /\ u.inv[i] \in Invocation
              /\ u.inv[i].queued = s.inv[i].queued
              /\ \A v \in Workers \ {w} : u.inv[i].executing[v] = s.inv[i].executing[v]
              /\ u.inv[i].executing[w] = s.inv[i].executing[w] + Share(i, c, K)
              /\ u.inv[i].idle = s.inv[i].idle - Share(i, c, {k})

(* Task t is taken away from worker w, of which k becomes the last         *)
(* invocation.                                                             *)
Unassigns(s, u, w, t, k) ==
    LET c == WorkerClass[w]
        K == DOMAIN s.tasks[t].operations
    IN  /\ Moves(s, u, t, None) /\ OnlyWorker(s, u, w)
        /\ u.workers[w] = WorkerWith(s.workers[w], None, k)
        /\ DOMAIN u.inv = DOMAIN s.inv
        /\ \A i \in DOMAIN s.inv :
              /\ u.inv[i] \in Invocation
              /\ u.inv[i].queued = s.inv[i].queued
              /\ \A v \in Workers \ {w} : u.inv[i].executing[v] = s.inv[i].executing[v]
              /\ u.inv[i].executing[w] = s.inv[i].executing[w] - Share(i, c, K)
              /\ u.inv[i].idle = s.inv[i].idle + Share(i, c, {k})

(* A step that concerns task t and worker w only. *)
OnlyConcerns(s, u, t, w) ==
    /\ u.classes = s.classes
    /\ DOMAIN u.inv = DOMAIN s.inv
    /\ DOMAIN u.tasks \ {t} = DOMAIN s.tasks \ {t}
    /\ \A x \in DOMAIN s.tasks \ {t} : u.tasks[x] = s.tasks[x]
    /\ DOMAIN u.workers \ {w} = DOMAIN s.workers \ {w}
    /\ \A v \in DOMAIN s.workers \ {w} : u.workers[v] = s.workers[v]
    /\ w \in DOMAIN s.workers => s.workers[w].task \in {None, t}
    /\ t \in DOMAIN s.tasks => s.tasks[t].worker \in {None, w}

(* Steps after which no task is executed by another worker, and after      *)
(* which idle workers are still idle.                                      *)
Evolves(s, u, T) ==
    /\ s.created \in Nat /\ u.created \in Nat /\ s.created <= u.created
    /\ \A t \in DOMAIN u.tasks \ T :
          t \in 1 .. s.created /\ Pending(u, t) =>
             /\ t \in DOMAIN s.tasks /\ Pending(s, t)
             /\ s.tasks[t].worker # None => u.tasks[t].worker = s.tasks[t].worker

Quiet(s, u, V) ==
    \A v \in DOMAIN u.workers \ V :
        /\ v \in DOMAIN s.workers
        /\ s.workers[v].task = None /\ s.workers[v].wait = "no" =>
              u.workers[v].task = None /\ u.workers[v].wait = "no"

(* The outcome o of a request of worker w, given that the state was s. *)
Responds(s, o, w, request, T) ==
    /\ Evolves(s, o.bq, T) /\ Quiet(s, o.bq, {w})
    /\ \A t \in T : /\ t \in DOMAIN s.tasks /\ Pending(s, t)
                    /\ s.tasks[t].worker = w /\ request.state = "completed"
    /\ w \in DOMAIN o.bq.workers
    /\ \/ /\ o.response = Idle
          /\ o.bq.workers[w].task = None /\ o.bq.workers[w].wait = "no"
       \/ /\ o.bq.workers[w].task # None
          /\ o.response = Executing(o.bq.workers[w].task)
       \/ o.response = Blocked
       \/ /\ o.response = Continue /\ request.state = "executing"
          /\ o.bq.workers[w].task # None /\ o.bq.workers[w].task = request.task
       \/ o.response = AlreadySynchronizing

(* The tasks that worker w gives up. *)
GivesUp(s, T, w) == \A t \in T : t \in DOMAIN s.tasks /\ Pending(s, t) /\ s.tasks[t].worker = w

(* Worker w goes from state p to q, while the workers that are excepted go *)
(* from B to C.                                                            *)
AssignedTo(s, t, w) == t \in DOMAIN s.tasks /\ Pending(s, t) /\ s.tasks[t].worker = w

KeepsExecuting(p, q, w, B) == w \notin B /\ p.state = "executing" /\ p.task = q.task

GoodProcess(u, p, q, w, B) ==
    /\ MayExecute(u, q, w) /\ MayTerminateSafely(u, q, w)
    /\ q.state = "executing" => KeepsExecuting(p, q, w, B) \/ AssignedTo(u, q.task, w)

GoodStep(u, p, q, w, B, C) ==
    /\ q \in Process(u.created)
    /\ C \subseteq Workers /\ C \ {w} = B \ {w}
    /\ w \notin C => GoodProcess(u, p, q, w, B)

(* Tasks of which only the worker and the number of retries differ. *)
SameRecords(s, u) ==
    /\ u.inFlightDeduplicationMap = s.inFlightDeduplicationMap
    /\ DOMAIN u.tasks = DOMAIN s.tasks
    /\ \A t \in DOMAIN s.tasks : SameTask(s.tasks[t], u.tasks[t])

(* Completion of a task that has left its invocations: what is recorded of *)
(* its outcome, and markCompleted().                                       *)
Records(s, u, t, f, e, h) ==
    /\ IsState(u)
    /\ u.classes = s.classes /\ u.created = s.created
    /\ u.inFlightDeduplicationMap = s.inFlightDeduplicationMap
    /\ u.inv = s.inv /\ u.workers = s.workers
    /\ u.drains = s.drains /\ u.panicked = s.panicked /\ u.handles = h
    /\ OnlyTask(s, u, t)
    /\ IsTask(u.tasks[t])
    /\ u.tasks[t].action = s.tasks[t].action /\ u.tasks[t].class = s.tasks[t].class
    /\ u.tasks[t].learner = s.tasks[t].learner /\ u.tasks[t].worker = s.tasks[t].worker
    /\ u.tasks[t].retryCount = s.tasks[t].retryCount
    /\ u.tasks[t].operations = s.tasks[t].operations
    /\ u.tasks[t].failed = f /\ u.tasks[t].event = e

CompletedOperation(o) ==
    IF o.mayExistWithoutWaiters
    THEN maybeStartCleanup([o EXCEPT !.mayExistWithoutWaiters = FALSE])
    ELSE o

Completes(s, u, t, f, e, h) ==
    /\ IsState(u)
    /\ u.classes = s.classes /\ u.created = s.created
    /\ u.inv = s.inv /\ u.workers = s.workers
    /\ u.drains = s.drains /\ u.panicked = s.panicked /\ u.handles = h
    /\ DOMAIN u.inFlightDeduplicationMap
          = DOMAIN s.inFlightDeduplicationMap \ {s.tasks[t].action}
    /\ \A a \in DOMAIN u.inFlightDeduplicationMap :
          u.inFlightDeduplicationMap[a] = s.inFlightDeduplicationMap[a]
    /\ OnlyTask(s, u, t)
    /\ IsTask(u.tasks[t])
    /\ u.tasks[t].action = s.tasks[t].action /\ u.tasks[t].class = s.tasks[t].class
    /\ u.tasks[t].learner = NoLearner /\ u.tasks[t].worker = s.tasks[t].worker
    /\ u.tasks[t].retryCount = s.tasks[t].retryCount
    /\ u.tasks[t].operations = [k \in DOMAIN s.tasks[t].operations |->
                                   CompletedOperation(s.tasks[t].operations[k])]
    /\ u.tasks[t].failed = f /\ u.tasks[t].event = e

(* An invocation is used by its tasks that are queued or executed, and by  *)
(* the workers of which it is the last invocation.                         *)
Used(s, X, i) ==
    \/ \E t \in DOMAIN s.tasks \ X :
          Pending(s, t) /\ i \in Invocations(s.tasks[t].class, DOMAIN s.tasks[t].operations)
    \/ \E w \in DOMAIN s.workers : s.workers[w].last # None /\ i = <<WorkerClass[w], s.workers[w].last>>

WorkerFine(s, w) ==
    LET t == s.workers[w].task IN
    /\ t # None => /\ t \in DOMAIN s.tasks
                   /\ s.tasks[t].worker = w
                   /\ s.tasks[t].class = WorkerClass[w]
                   /\ Pending(s, t)
    /\ (t = None) <=> (s.workers[w].last # None)
    /\ WorkerClass[w] \in s.classes
    /\ s.workers[w].last # None => <<WorkerClass[w], s.workers[w].last>> \in DOMAIN s.inv

TaskFine(s, X, t) ==
    /\ DOMAIN s.tasks[t].operations # {}
    /\ s.tasks[t].worker # None =>
          /\ s.tasks[t].worker \in DOMAIN s.workers
          /\ s.workers[s.tasks[t].worker].task = t
    /\ Pending(s, t) => s.tasks[t].class \in s.classes
    /\ t \in X => Pending(s, t) /\ s.tasks[t].worker = None
    /\ Pending(s, t) /\ t \notin X =>
          Invocations(s.tasks[t].class, DOMAIN s.tasks[t].operations) \subseteq DOMAIN s.inv

CountsQueued(s, u, Y, t) ==
    \A i \in DOMAIN s.inv :
        /\ u.inv[i].queued \ {t} = s.inv[i].queued \ {t}
        /\ t \in u.inv[i].queued <=> t \in DOMAIN u.tasks \ Y /\ Queues(u, t, i)

CountsExecuting(s, u, w) ==
    \A i \in DOMAIN s.inv :
        /\ \A v \in Workers \ {w} : u.inv[i].executing[v] = s.inv[i].executing[v]
        /\ w \in Workers => u.inv[i].executing[w] = Executes(u, w, i)

CountsIdle(s, u, w) ==
    \A i \in DOMAIN s.inv :
        u.inv[i].idle = s.inv[i].idle - (IF w \in IdleWorkers(s, i) THEN 1 ELSE 0)
                                      + (IF w \in IdleWorkers(u, i) THEN 1 ELSE 0)

(* The invocations that task t and worker w use. *)
Touched(s, X, t, w) ==
    {i \in DOMAIN s.inv :
       \/ /\ t \in DOMAIN s.tasks \ X /\ Pending(s, t)
          /\ i \in Invocations(s.tasks[t].class, DOMAIN s.tasks[t].operations)
       \/ w \in DOMAIN s.workers /\ s.workers[w].last # None /\ i = <<WorkerClass[w], s.workers[w].last>>}

(* What is not used any more is among the invocations F. *)
StillUsed(s, u, X, Y, E, F, t, w) ==
    /\ X \ {t} = Y \ {t}
    /\ \A i \in E : i \in F \/ i[2] = Root \/ Used(u, Y, i)
    /\ \A i \in Touched(s, X, t, w) : i \in F \/ i[2] = Root \/ Used(u, Y, i)

(* Worker w has a last invocation, and is counted as idle there. *)
MayClear(s, w, c, k) ==
    /\ IsState(s) /\ s.panicked = FALSE /\ w \in DOMAIN s.workers
    /\ k = s.workers[w].last /\ k # None /\ c = WorkerClass[w]
    /\ s.workers[w].wait # "queued"
    /\ <<c, k>> \in DOMAIN s.inv
    /\ \A i \in DOMAIN s.inv : s.inv[i].idle >= Share(i, c, {k})

(* Task t, that is in no queue, and worker w may be given to each other. *)
MayAssign(s, X, E, w, t, c, k) ==
    /\ w \in DOMAIN s.workers /\ t \in DOMAIN s.tasks
    /\ StateOK(s) /\ Accounted(s, X \cup {t}, E) /\ t \notin X
    /\ c = WorkerClass[w] /\ s.tasks[t].class = c
    /\ s.workers[w].task = None /\ k = s.workers[w].last
    /\ Invocations(c, DOMAIN s.tasks[t].operations) \subseteq DOMAIN s.inv
    /\ E \subseteq Invocations(c, DOMAIN s.tasks[t].operations)

(* Worker w executes task t, and k may become its last invocation. *)
MayUnassign(s, X, w, t, c, K, k) ==
    /\ w \in DOMAIN s.workers /\ t \in DOMAIN s.tasks \ X
    /\ StateOK(s) /\ Accounted(s, X, {})
    /\ s.workers[w].task = t /\ c = WorkerClass[w] /\ K = DOMAIN s.tasks[t].operations
    /\ k \in InvocationKeys /\ <<c, k>> \in DOMAIN s.inv

(* Task t is in no queue and at no worker. *)
MayComplete(s, t) ==
    t \in DOMAIN s.tasks /\ StateOK(s) /\ Accounted(s, {t}, {})

(* Creation of invocations, of a size class that may be new. *)
AddsInvocations(s, u, c, K) ==
    /\ IsState(u)
    /\ u.classes = s.classes \cup {c} /\ u.created = s.created
    /\ u.inFlightDeduplicationMap = s.inFlightDeduplicationMap
    /\ u.drains = s.drains /\ u.handles = s.handles /\ u.panicked = s.panicked
    /\ u.tasks = s.tasks /\ u.workers = s.workers
    /\ DOMAIN u.inv = DOMAIN s.inv \cup Invocations(c, K)
    /\ \A i \in DOMAIN u.inv :
          u.inv[i] = IF i \in DOMAIN s.inv THEN s.inv[i] ELSE NewInvocation

(* The creation of a task with one operation. *)
NextTask(s, t) == t = s.created + 1

AddsTask(s, u, t, x, m) ==
    /\ IsState(u)
    /\ u.classes = s.classes /\ u.created = t
    /\ u.inFlightDeduplicationMap = m
    /\ u.drains = s.drains /\ u.handles = s.handles /\ u.panicked = s.panicked
    /\ u.workers = s.workers
    /\ DOMAIN u.tasks = DOMAIN s.tasks \cup {t} /\ u.tasks[t] = x
    /\ \A y \in DOMAIN s.tasks : u.tasks[y] = s.tasks[y]

CreatesFor(s, u, c, k) == \E v : Creates(s, v, c, {k}) /\ u.inv = v.inv

IsNewTask(x, action, choice, k, background) ==
    /\ IsTask(x)
    /\ x.action = action /\ x.class = choice.class /\ x.learner = choice.learner
    /\ x.worker = None /\ x.retryCount = 0
    /\ x.operations = With(<<>>, k, NewOperation(background))
    /\ x.failed = FALSE /\ x.event = FALSE

(* What the scheduler is asked to create a task for. *)
ChoiceOK(s, action, choice) ==
    /\ action \in Actions \cup {None}
    /\ choice.class \in s.classes
    /\ choice.learner \in Learner /\ choice.learner.kind # "none"
    /\ choice.learner.kind \in {"largest", "largestBackground"} => choice.class = Largest
    /\ choice.learner.kind = "smallerBackground" => action = None

(* removeStaleWorker(). *)
Leaves(s, u, w, c, k) ==
    /\ SameScalars(s, u) /\ u.tasks = s.tasks
    /\ DOMAIN u.workers = DOMAIN s.workers \ {w}
    /\ \A x \in DOMAIN u.workers : u.workers[x] = s.workers[x]
    /\ DOMAIN u.inv = DOMAIN s.inv
    /\ \A i \in DOMAIN s.inv : u.inv[i] = [s.inv[i] EXCEPT !.idle = @ - Share(i, c, {k})]

(* Workers that disappear leave the others alone. *)
Departs(s, u) ==
    /\ u.tasks = s.tasks /\ u.handles = s.handles /\ u.drains = s.drains /\ u.created = s.created
    /\ u.inFlightDeduplicationMap = s.inFlightDeduplicationMap
    /\ DOMAIN u.workers \subseteq DOMAIN s.workers
    /\ \A w \in DOMAIN u.workers : u.workers[w] = s.workers[w]

(* removeSizeClassQueue(). *)
Withdraws(s, u, c) ==
    /\ IsState(u)
    /\ u.classes = s.classes \ {c} /\ u.created = s.created
    /\ u.inFlightDeduplicationMap = s.inFlightDeduplicationMap
    /\ u.handles = s.handles /\ u.panicked = s.panicked
    /\ u.tasks = s.tasks /\ u.workers = s.workers
    /\ u.drains = {w \in s.drains : WorkerClass[w] # c}
    /\ DOMAIN u.inv = {i \in DOMAIN s.inv : i[1] # c}
    /\ \A i \in DOMAIN u.inv : u.inv[i] = s.inv[i]

(* Draining and termination of workers, which wake up the ones that wait. *)
Rewaits(s, u) ==
    /\ IsState(u)
    /\ u.classes = s.classes /\ u.created = s.created
    /\ u.inFlightDeduplicationMap = s.inFlightDeduplicationMap
    /\ u.handles = s.handles /\ u.panicked = s.panicked
    /\ u.tasks = s.tasks /\ u.inv = s.inv
    /\ u.drains \subseteq Workers
    /\ DOMAIN u.workers = DOMAIN s.workers
    /\ \A w \in DOMAIN s.workers :
          /\ u.workers[w] \in Worker(s.created)
          /\ u.workers[w].task = s.workers[w].task /\ u.workers[w].last = s.workers[w].last
          /\ s.workers[w].wait = "no" => u.workers[w].wait = "no"

WakesUp(x) == IF x.wait = "queued" THEN [x EXCEPT !.wait = "woken"] ELSE x

WakesOne(s, u, w) ==
    /\ IsState(u)
    /\ u.classes = s.classes /\ u.created = s.created
    /\ u.inFlightDeduplicationMap = s.inFlightDeduplicationMap
    /\ u.handles = s.handles /\ u.panicked = s.panicked /\ u.drains = s.drains
    /\ u.tasks = s.tasks /\ u.inv = s.inv
    /\ DOMAIN u.workers = DOMAIN s.workers
    /\ \A v \in DOMAIN s.workers :
          u.workers[v] = IF v = w THEN WakesUp(s.workers[v]) ELSE s.workers[v]

(* remove(): one of the operations of a task is removed. *)
LosesOperation(x, y, k) ==
    /\ IsTask(y)
    /\ y.action = x.action /\ y.class = x.class /\ y.learner = x.learner
    /\ y.worker = x.worker /\ y.retryCount = x.retryCount
    /\ y.failed = x.failed /\ y.event = x.event
    /\ y.operations = [j \in DOMAIN x.operations \ {k} |-> x.operations[j]]

Shrinks(s, u, t, k) ==
    /\ SameScalars(s, u) /\ u.workers = s.workers
    /\ OnlyTask(s, u, t) /\ LosesOperation(s.tasks[t], u.tasks[t], k)

(* deduplicate(): a task gets another operation. *)
GainsOperation(x, y, k) ==
    /\ IsTask(y)
    /\ y.action = x.action /\ y.class = x.class /\ y.learner = x.learner
    /\ y.worker = x.worker /\ y.retryCount = x.retryCount
    /\ y.failed = x.failed /\ y.event = x.event
    /\ y.operations = With(x.operations, k, NewOperation(FALSE))

Grows(s, u, t, k) ==
    /\ SameScalars(s, u) /\ u.workers = s.workers
    /\ OnlyTask(s, u, t) /\ GainsOperation(s.tasks[t], u.tasks[t], k)

Gained(x, y, k) ==
    /\ DOMAIN y.operations = DOMAIN x.operations \cup {k}
    /\ \A j \in DOMAIN x.operations : y.operations[j] = x.operations[j]
    /\ y.operations[k] = NewOperation(FALSE)

(* One field of one task changes. *)
ChangesTask(s, u, t, y) ==
    /\ SameScalars(s, u) /\ u.inv = s.inv /\ u.workers = s.workers
    /\ OnlyTask(s, u, t) /\ u.tasks[t] = y

(* Clients that start and stop waiting for an operation. *)
ChangesOperation(s, u, t, k, o) ==
    LET y == u.tasks[t] IN
    /\ ChangesTask(s, u, t, y)
    /\ IsTask(y)
    /\ y.action = s.tasks[t].action /\ y.class = s.tasks[t].class /\ y.learner = s.tasks[t].learner
    /\ y.worker = s.tasks[t].worker /\ y.retryCount = s.tasks[t].retryCount
    /\ y.failed = s.tasks[t].failed /\ y.event = s.tasks[t].event
    /\ y.operations = [s.tasks[t].operations EXCEPT ![k] = o]

(* The workers that are excepted once worker w is given a response. *)
Excepted(B, w, response) ==
    IF response \in {Blocked, AlreadySynchronizing} THEN B ELSE B \ {w}

=============================================================================
