----------------------- MODULE RemoteExecutionProofs -----------------------
(***************************************************************************)
(* The scheduler's bookkeeping is right, for any number of clients,        *)
(* workers, actions, keys and size classes, and any number of faults; so   *)
(* is what workers conclude from the answers of the scheduler.             *)
(*                                                                         *)
(* What a method does is stated as a relation between two states, such as  *)
(* Assigns or Forgets, and one lemma shows that the method has it.  Other  *)
(* lemmas show that the relation preserves the parts of the invariant.     *)
(* Evolves and Quiet are what worker processes need to know of a step of   *)
(* the scheduler.                                                          *)
(***************************************************************************)
EXTENDS RemoteExecutionInvariant, FiniteSetTheorems, WellFoundedInduction, TLAPS

-----------------------------------------------------------------------------
(* Size classes and keys. *)
LEMMA LargestIsLargest ==
    /\ Largest \in SizeClasses /\ Largest \in Nat
    /\ \A S \in SUBSET SizeClasses : Largest \in S => Max(S) = Largest
<1>1. /\ Largest \in SizeClasses
      /\ \A c \in SizeClasses : Largest >= c
  <2>1. \E c \in SizeClasses : \A d \in SizeClasses : c >= d
    BY SizeClassesAssumption
  <2> QED BY <2>1 DEF Largest, Max
<1>2. ASSUME NEW S \in SUBSET SizeClasses, Largest \in S
      PROVE  Max(S) = Largest
  <2>1. /\ Max(S) \in S
        /\ \A c \in S : Max(S) >= c
    <3>1. \E c \in S : \A d \in S : c >= d
      BY <1>1, <1>2
    <3> QED BY <3>1 DEF Max
  <2>2. Max(S) \in Nat /\ Largest \in Nat /\ Max(S) >= Largest /\ Largest >= Max(S)
    BY <1>1, <1>2, <2>1, SizeClassesAssumption
  <2> QED BY <2>2
<1> QED BY <1>1, <1>2, SizeClassesAssumption

LEMMA KeysAreFinite ==
    ASSUME NEW K \in SUBSET InvocationKeys
    PROVE  IsFiniteSet(K) /\ Cardinality(K) \in Nat
<1>1. IsFiniteSet({Root, BackgroundLearningKeys})
  <2>1. {Root, BackgroundLearningKeys} = {Root} \cup {BackgroundLearningKeys}
    OBVIOUS
  <2>2. IsFiniteSet({Root})
    BY FS_Singleton
  <2> HIDE DEF Root, BackgroundLearningKeys
  <2>3. IsFiniteSet({Root} \cup {BackgroundLearningKeys})
    BY <2>2, FS_AddElement
  <2> QED BY <2>3
<1>2. IsFiniteSet(InvocationKeys)
  BY <1>1, SchedulerAssumption, FS_Union DEF InvocationKeys
<1>3. IsFiniteSet(K)
  BY <1>2, FS_Subset
<1> QED BY <1>3, FS_CardinalityType

LEMMA NamesDiffer ==
    /\ None \notin InvocationKeys /\ None \notin Nat /\ None \notin Workers /\ None \notin Actions
    /\ Root \in InvocationKeys /\ BackgroundLearningKeys \in InvocationKeys
    /\ Keys \subseteq InvocationKeys
  BY SchedulerAssumption DEF InvocationKeys, Root, BackgroundLearningKeys

(* The number of invocations of a set that are at or below a given one. *)
LEMMA ShareIsNatural ==
    ASSUME NEW i, NEW c, NEW K \in SUBSET InvocationKeys
    PROVE  Share(i, c, K) \in Nat
  BY KeysAreFinite DEF Share

LEMMA ShareOfOne ==
    ASSUME NEW i, NEW c, NEW k
    PROVE  Share(i, c, {k}) = IF i[1] = c /\ (i[2] = Root \/ i[2] = k) THEN 1 ELSE 0
<1>1. Cardinality({k}) = 1
  BY FS_Singleton
<1> QED BY <1>1 DEF Share

LEMMA ShareOfMore ==
    ASSUME NEW i, NEW c, NEW K \in SUBSET InvocationKeys, NEW k \in InvocationKeys, k \notin K
    PROVE  Share(i, c, K \cup {k}) = Share(i, c, K) + Share(i, c, {k})
<1>1. Cardinality(K \cup {k}) = Cardinality(K) + 1
  BY KeysAreFinite, FS_AddElement
<1>2. Cardinality({k}) = 1
  BY FS_Singleton
<1> QED BY <1>1, <1>2, KeysAreFinite DEF Share

LEMMA ShareOfInvocation ==
    ASSUME NEW c, NEW K \in SUBSET InvocationKeys, NEW i \in Invocations(c, K)
    PROVE  Share(i, c, K) >= 1 /\ i[1] = c /\ i[2] \in K
<1>1. i[1] = c /\ i[2] \in K
  BY DEF Invocations
<1>2. Cardinality(K) # 0
  BY <1>1, KeysAreFinite, FS_EmptySet
<1> QED BY <1>1, <1>2, KeysAreFinite DEF Share

LEMMA ShareOfOther ==
    ASSUME NEW C, NEW i \in C \X InvocationKeys, NEW c, NEW K, i \notin Invocations(c, K),
           i[2] # Root
    PROVE  Share(i, c, K) = 0
<1>1. i = <<i[1], i[2]>>
  OBVIOUS
<1>2. ~ (i[1] = c /\ i[2] \in K)
  BY <1>1 DEF Invocations
<1> QED BY <1>2 DEF Share

(* The workers that are counted as being idle. *)
LEMMA IdleWorkersAreFinite ==
    ASSUME NEW s, StateOK(s), NEW i
    PROVE  /\ IsFiniteSet(IdleWorkers(s, i))
           /\ Cardinality(IdleWorkers(s, i)) \in Nat
           /\ Cardinality(IdleWorkers(s, i)) = 0 <=> IdleWorkers(s, i) = {}
<1>1. IdleWorkers(s, i) \subseteq Workers
  BY DEF IdleWorkers, StateOK
<1>2. IsFiniteSet(IdleWorkers(s, i))
  BY <1>1, SchedulerAssumption, FS_Subset
<1> QED BY <1>2, FS_CardinalityType, FS_EmptySet

-----------------------------------------------------------------------------
LEMMA RemovalFields ==
    ASSUME NEW s, IsState(s), NEW c, NEW K
    PROVE  Removes(s, removeIfEmpty(s, c, K), c, K)
  BY DEF Removes, SameButInvocations, IsState, Fields, removeIfEmpty, Restrict

(* Invocations that are in use are not empty. *)
LEMMA UsedByTask ==
    ASSUME NEW s, NEW X, StateOK(s), WorkersOK(s), TasksOK(s, X), QueuesOK(s, X), ExecutingOK(s),
           NEW t \in DOMAIN s.tasks \ X, Pending(s, t),
           NEW i \in Invocations(s.tasks[t].class, DOMAIN s.tasks[t].operations),
           i \in DOMAIN s.inv
    PROVE  IsActive(s.inv[i])
<1> DEFINE K == DOMAIN s.tasks[t].operations
           c == s.tasks[t].class
           w == s.tasks[t].worker
<1>1. K \in SUBSET InvocationKeys /\ w \in Workers \cup {None}
  BY DEF StateOK, TaskOK
<1>2. Share(i, c, K) >= 1 /\ i[1] = c /\ i[2] \in K
  BY <1>1, ShareOfInvocation
<1>3. CASE w = None
  <2>1. t \in s.inv[i].queued
    BY <1>2, <1>3 DEF QueuesOK, Queues
  <2> QED BY <2>1 DEF IsActive
<1>4. CASE w # None
  <2>1. w \in DOMAIN s.workers /\ s.workers[w].task = t /\ w \in Workers
    BY <1>1, <1>4 DEF TasksOK
  <2>2. t # None
    BY NamesDiffer DEF StateOK
  <2>3. s.tasks[t].class = WorkerClass[w]
    BY <2>1, <2>2 DEF WorkersOK
  <2>4. s.inv[i].executing[w] = Share(i, c, K)
    BY <2>1, <2>2, <2>3 DEF ExecutingOK, Executes
  <2>5. Share(i, c, K) # 0
    BY <1>1, <1>2, ShareIsNatural
  <2> QED BY <2>1, <2>4, <2>5 DEF IsActive
<1> QED BY <1>3, <1>4

LEMMA UsedByWorker ==
    ASSUME NEW s, StateOK(s), IdleOK(s), NEW w \in DOMAIN s.workers, s.workers[w].last # None,
           <<WorkerClass[w], s.workers[w].last>> \in DOMAIN s.inv
    PROVE  s.inv[<<WorkerClass[w], s.workers[w].last>>].idle # 0
<1> DEFINE i == <<WorkerClass[w], s.workers[w].last>>
<1>1. Share(i, WorkerClass[w], {s.workers[w].last}) = 1
  <2>1. i[1] = WorkerClass[w] /\ i[2] = s.workers[w].last
    OBVIOUS
  <2> HIDE DEF i
  <2> QED BY <2>1, ShareOfOne
<1>2. w \in IdleWorkers(s, i)
  BY <1>1 DEF IdleWorkers
<1> QED BY <1>2, IdleWorkersAreFinite DEF IdleOK

LEMMA RemovalKeepsAccounts ==
    ASSUME NEW s, NEW X, NEW E, StateOK(s), Accounted(s, X, E), NEW c, NEW K,
           NEW u, Removes(s, u, c, K)
    PROVE  StateOK(u) /\ Accounted(u, X, E \ Invocations(c, K))
<1>1. /\ IsState(u)
      /\ u.classes = s.classes /\ u.created = s.created /\ u.tasks = s.tasks
      /\ u.workers = s.workers /\ u.drains = s.drains /\ u.handles = s.handles
      /\ u.panicked = s.panicked
      /\ DOMAIN u.inv \subseteq DOMAIN s.inv
      /\ \A i \in DOMAIN s.inv :
            \/ i \in DOMAIN u.inv
            \/ i \in Invocations(c, K \ {Root}) /\ ~IsActive(s.inv[i]) /\ s.inv[i].idle = 0
      /\ \A i \in DOMAIN u.inv :
            /\ u.inv[i] = s.inv[i]
            /\ IsActive(s.inv[i]) \/ s.inv[i].idle # 0 \/ i \notin Invocations(c, K \ {Root})
  BY DEF Removes, SameButInvocations
<1>2. StateOK(u)
  BY <1>1 DEF StateOK
<1>3. WorkersOK(u)
  BY <1>1, UsedByWorker DEF Accounted, WorkersOK, Pending
<1>4. TasksOK(u, X)
  <2>1. ASSUME NEW t \in DOMAIN s.tasks, Pending(s, t), t \notin X,
               NEW i \in Invocations(s.tasks[t].class, DOMAIN s.tasks[t].operations)
        PROVE  i \in DOMAIN u.inv
    <3>1. i \in DOMAIN s.inv
      BY <2>1 DEF Accounted, TasksOK
    <3>2. IsActive(s.inv[i])
      BY <2>1, <3>1, UsedByTask DEF Accounted
    <3> QED BY <1>1, <3>1, <3>2
  <2> QED BY <1>1, <2>1 DEF Accounted, TasksOK, Pending
<1>5. QueuesOK(u, X)
  BY <1>1 DEF Accounted, QueuesOK, Queues, Pending
<1>6. ExecutingOK(u)
  BY <1>1 DEF Accounted, ExecutingOK, Executes
<1>7. IdleOK(u)
  <2>1. \A i : IdleWorkers(u, i) = IdleWorkers(s, i)
    BY <1>1 DEF IdleWorkers
  <2> QED BY <1>1, <2>1 DEF Accounted, IdleOK
<1>8. ActiveOK(u, E \ Invocations(c, K))
  <2> SUFFICES ASSUME NEW i \in DOMAIN u.inv, i \notin E \ Invocations(c, K), i[2] # Root,
                      ~IsActive(u.inv[i]), u.inv[i].idle = 0
               PROVE  FALSE
    BY DEF ActiveOK
  <2>1. i \in DOMAIN s.inv /\ i \notin Invocations(c, K \ {Root})
    BY <1>1
  <2>2. i \notin Invocations(c, K)
    BY <2>1 DEF Invocations
  <2>3. i \notin E
    BY <2>2
  <2> QED BY <1>1, <2>1, <2>3 DEF Accounted, ActiveOK
<1>9. RootsOK(u)
  <2>1. \A d : <<d, Root>> \notin Invocations(c, K \ {Root})
    BY DEF Invocations
  <2> QED BY <1>1, <2>1 DEF Accounted, RootsOK
<1> QED BY <1>2, <1>3, <1>4, <1>5, <1>6, <1>7, <1>8, <1>9 DEF Accounted
(* Workers and tasks agree on who executes what. *)
LEMMA TaskOfWorker ==
    ASSUME NEW s, StateOK(s), WorkersOK(s), NEW w \in DOMAIN s.workers,
           s.workers[w].task # None
    PROVE  LET t == s.workers[w].task IN
           /\ t \in DOMAIN s.tasks /\ Pending(s, t)
           /\ s.tasks[t].worker = w /\ s.tasks[t].class = WorkerClass[w]
           /\ s.workers[w].last = None
  BY DEF WorkersOK

LEMMA WorkerOfTask ==
    ASSUME NEW s, NEW X, StateOK(s), TasksOK(s, X), NEW t \in DOMAIN s.tasks,
           s.tasks[t].worker # None
    PROVE  LET w == s.tasks[t].worker IN
           w \in DOMAIN s.workers /\ w \in Workers /\ s.workers[w].task = t /\ t # None
<1>1. s.tasks[t].worker \in DOMAIN s.workers /\ s.workers[s.tasks[t].worker].task = t
  BY DEF TasksOK
<1>2. DOMAIN s.workers \subseteq Workers /\ t # None
  BY NamesDiffer DEF StateOK
<1> QED BY <1>1, <1>2

-----------------------------------------------------------------------------
(* The parts of the accounts that are sums, after a step that concerns one *)
(* task or one worker.                                                     *)
LEMMA QueuesStep ==
    ASSUME NEW s, NEW u, NEW X, NEW Y, NEW t, QueuesOK(s, X),
           X \ {t} = Y \ {t},
           DOMAIN u.inv = DOMAIN s.inv,
           DOMAIN u.tasks \ {t} = DOMAIN s.tasks \ {t},
           \A x \in DOMAIN s.tasks \ {t} :
              /\ u.tasks[x].learner = s.tasks[x].learner
              /\ u.tasks[x].worker = s.tasks[x].worker
              /\ u.tasks[x].class = s.tasks[x].class
              /\ DOMAIN u.tasks[x].operations = DOMAIN s.tasks[x].operations,
           \A i \in DOMAIN s.inv :
              /\ u.inv[i].queued \ {t} = s.inv[i].queued \ {t}
              /\ t \in u.inv[i].queued <=> t \in DOMAIN u.tasks \ Y /\ Queues(u, t, i)
    PROVE  QueuesOK(u, Y)
<1> SUFFICES ASSUME NEW i \in DOMAIN u.inv
             PROVE  u.inv[i].queued = {x \in DOMAIN u.tasks \ Y : Queues(u, x, i)}
  BY DEF QueuesOK
<1>1. s.inv[i].queued = {x \in DOMAIN s.tasks \ X : Queues(s, x, i)}
  BY DEF QueuesOK
<1>2. \A x \in DOMAIN s.tasks \ {t} : Queues(s, x, i) <=> Queues(u, x, i)
  BY DEF Queues, Pending
<1>3. ASSUME NEW x, x # t
      PROVE  x \in u.inv[i].queued <=> x \in DOMAIN u.tasks \ Y /\ Queues(u, x, i)
  <2>1. x \in u.inv[i].queued <=> x \in s.inv[i].queued
    BY <1>3
  <2>2. x \in DOMAIN u.tasks \ Y <=> x \in DOMAIN s.tasks \ X
    BY <1>3
  <2> QED BY <1>1, <1>2, <1>3, <2>1, <2>2
<1> QED BY <1>3

OthersLast(s, u, w) ==
    /\ DOMAIN u.inv = DOMAIN s.inv
    /\ DOMAIN u.workers \ {w} = DOMAIN s.workers \ {w}
    /\ \A v \in DOMAIN s.workers \ {w} : u.workers[v].last = s.workers[v].last

LEMMA IdleStep ==
    ASSUME NEW s, NEW u, NEW w, StateOK(s), IdleOK(s), OthersLast(s, u, w),
           \A i \in DOMAIN s.inv :
              u.inv[i].idle = s.inv[i].idle - (IF w \in IdleWorkers(s, i) THEN 1 ELSE 0)
                                            + (IF w \in IdleWorkers(u, i) THEN 1 ELSE 0)
    PROVE  IdleOK(u)
<1>0. /\ DOMAIN u.inv = DOMAIN s.inv
      /\ DOMAIN u.workers \ {w} = DOMAIN s.workers \ {w}
      /\ \A v \in DOMAIN s.workers \ {w} : u.workers[v].last = s.workers[v].last
  BY DEF OthersLast
<1> SUFFICES ASSUME NEW i \in DOMAIN u.inv
             PROVE  u.inv[i].idle = Cardinality(IdleWorkers(u, i))
  BY DEF IdleOK
<1> DEFINE S == IdleWorkers(s, i)
           U == IdleWorkers(u, i)
<1>1. U \ {w} = S \ {w}
  BY <1>0 DEF IdleWorkers
<1>2. s.inv[i].idle = Cardinality(S)
  BY <1>0 DEF IdleOK
<1>3. IsFiniteSet(S) /\ Cardinality(S) \in Nat
  BY IdleWorkersAreFinite
<1>4. u.inv[i].idle = s.inv[i].idle - (IF w \in S THEN 1 ELSE 0) + (IF w \in U THEN 1 ELSE 0)
  BY <1>0
<1> HIDE DEF S, U
<1>5. /\ IsFiniteSet(S \ {w})
      /\ Cardinality(S \ {w}) = Cardinality(S) - (IF w \in S THEN 1 ELSE 0)
  <2>1. /\ IsFiniteSet(S \ {w})
        /\ Cardinality(S \ {w}) = IF w \in S THEN Cardinality(S) - 1 ELSE Cardinality(S)
    BY <1>3, FS_RemoveElement, Zenon
  <2> QED BY <1>3, <2>1
<1>6. Cardinality((S \ {w}) \cup {w}) = Cardinality(S \ {w}) + 1
  BY <1>5, FS_AddElement
<1>7. CASE w \in U
  <2>1. U = (S \ {w}) \cup {w}
    BY <1>1, <1>7
  <2> QED BY <1>2, <1>3, <1>4, <1>5, <1>6, <1>7, <2>1 DEF U
<1>8. CASE w \notin U
  <2>1. U = S \ {w}
    BY <1>1, <1>8
  <2> QED BY <1>2, <1>3, <1>4, <1>5, <1>8, <2>1 DEF U
<1> QED BY <1>7, <1>8

(* Nothing is counted for an invocation that is not in the tree. *)
LEMMA AbsentInvocation ==
    ASSUME NEW s, NEW X, StateOK(s), WorkersOK(s), TasksOK(s, X),
           NEW c \in SizeClasses, NEW k \in InvocationKeys,
           <<c, k>> \notin DOMAIN s.inv, k = Root => c \notin s.classes
    PROVE  /\ \A t \in DOMAIN s.tasks \ X : ~Queues(s, t, <<c, k>>)
           /\ \A w \in Workers : Executes(s, w, <<c, k>>) = 0
           /\ IdleWorkers(s, <<c, k>>) = {}
<1> DEFINE i == <<c, k>>
<1>0. i[1] = c /\ i[2] = k /\ i \in SizeClasses \X InvocationKeys
  OBVIOUS
<1>1. ASSUME NEW t \in DOMAIN s.tasks \ X, Queues(s, t, i)
      PROVE  FALSE
  <2>1. i \in Invocations(s.tasks[t].class, DOMAIN s.tasks[t].operations)
    BY <1>1 DEF Queues, Invocations
  <2> QED BY <1>1, <2>1 DEF TasksOK, Queues
<1>2. ASSUME NEW w \in Workers
      PROVE  Executes(s, w, i) = 0
  <2> SUFFICES ASSUME w \in DOMAIN s.workers, s.workers[w].task # None
               PROVE  Share(i, WorkerClass[w], DOMAIN s.tasks[s.workers[w].task].operations) = 0
    BY DEF Executes
  <2> DEFINE t == s.workers[w].task
             K == DOMAIN s.tasks[t].operations
  <2>1. /\ t \in DOMAIN s.tasks /\ s.tasks[t].class = WorkerClass[w] /\ Pending(s, t)
        /\ s.tasks[t].worker = w /\ WorkerClass[w] \in s.classes
    BY DEF WorkersOK
  <2>2. t \notin X
    BY <2>1, NamesDiffer DEF TasksOK
  <2>3. i \notin Invocations(WorkerClass[w], K)
    BY <2>1, <2>2 DEF TasksOK
  <2>4. CASE k = Root
    <3>1. i[1] # WorkerClass[w]
      BY <1>0, <2>1, <2>4
    <3> HIDE DEF i
    <3> QED BY <3>1 DEF Share
  <2>5. CASE k # Root
    <3> HIDE DEF i
    <3> QED BY <1>0, <2>3, <2>5, ShareOfOther
  <2> QED BY <2>4, <2>5
<1>3. ASSUME NEW w \in IdleWorkers(s, i)
      PROVE  FALSE
  <2> DEFINE l == s.workers[w].last
  <2>1. w \in DOMAIN s.workers /\ l # None /\ Share(i, WorkerClass[w], {l}) = 1
    BY DEF IdleWorkers
  <2>2. WorkerClass[w] \in s.classes /\ <<WorkerClass[w], l>> \in DOMAIN s.inv
    BY <2>1 DEF WorkersOK
  <2>3. i[1] = WorkerClass[w] /\ (i[2] = Root \/ i[2] = l)
    <3> HIDE DEF i, l
    <3>1. Share(i, WorkerClass[w], {l})
             = IF i[1] = WorkerClass[w] /\ (i[2] = Root \/ i[2] = l) THEN 1 ELSE 0
      BY ShareOfOne
    <3> QED BY <2>1, <3>1
  <2> QED BY <1>0, <2>2, <2>3
<1> QED BY <1>1, <1>2, <1>3
-----------------------------------------------------------------------------
LEMMA ReplaceInvocations ==
    ASSUME NEW s, IsState(s), NEW x, NEW u, u = [s EXCEPT !.inv = x]
    PROVE  SameButInvocations(s, u) /\ u.inv = x
  BY DEF IsState, Fields, SameButInvocations

LEMMA IncrementIs ==
    ASSUME NEW s, IsState(s), s.panicked = FALSE, NEW c, NEW K, NEW w,
           Invocations(c, K) \subseteq DOMAIN s.inv,
           NEW u, u = incrementExecutingWorkersCount(s, c, K, w)
    PROVE  Increments(s, u, c, K, w)
<1> DEFINE x == [i \in DOMAIN s.inv |->
                    [s.inv[i] EXCEPT !.executing[w] = @ + Share(i, c, K)]]
<1>1. u = [s EXCEPT !.inv = x]
  BY DEF incrementExecutingWorkersCount, Unless
<1>2. /\ DOMAIN x = DOMAIN s.inv
      /\ \A i \in DOMAIN s.inv :
            x[i] = [s.inv[i] EXCEPT !.executing[w] = @ + Share(i, c, K)]
  OBVIOUS
<1> HIDE DEF x
<1>3. SameButInvocations(s, u) /\ u.inv = x
  BY <1>1, ReplaceInvocations
<1> QED BY <1>2, <1>3 DEF Increments

LEMMA DecrementIs ==
    ASSUME NEW s, IsState(s), s.panicked = FALSE, NEW c, NEW K, NEW w,
           Invocations(c, K) \subseteq DOMAIN s.inv,
           \A i \in DOMAIN s.inv : s.inv[i].executing[w] >= Share(i, c, K),
           NEW u, u = decrementExecutingWorkersCount(s, c, K, w)
    PROVE  \E v : Decrements(s, v, c, K, w) /\ Removes(v, u, c, K)
<1> DEFINE x == [i \in DOMAIN s.inv |->
                    [s.inv[i] EXCEPT !.executing[w] = @ - Share(i, c, K)]]
           v == [s EXCEPT !.inv = x]
<1>1. u = Then(v, LAMBDA y : removeIfEmpty(y, c, K))
  BY DEF decrementExecutingWorkersCount, Unless
<1>2. /\ SameButInvocations(s, v)
      /\ DOMAIN v.inv = DOMAIN s.inv
      /\ \A i \in DOMAIN s.inv :
            v.inv[i] = [s.inv[i] EXCEPT !.executing[w] = @ - Share(i, c, K)]
  <2>1. /\ DOMAIN x = DOMAIN s.inv
        /\ \A i \in DOMAIN s.inv :
              x[i] = [s.inv[i] EXCEPT !.executing[w] = @ - Share(i, c, K)]
    OBVIOUS
  <2> HIDE DEF x
  <2> QED BY <2>1, ReplaceInvocations
<1> HIDE DEF v
<1>3. IsState(v) /\ v.panicked = FALSE
  BY <1>2 DEF SameButInvocations
<1>4. u = removeIfEmpty(v, c, K)
  BY <1>1, <1>3 DEF Then
<1>5. Removes(v, u, c, K)
  BY <1>3, <1>4, RemovalFields
<1> QED BY <1>2, <1>5 DEF Decrements

LEMMA EnqueueIs ==
    ASSUME NEW s, IsState(s), s.panicked = FALSE, NEW t, NEW K, NEW c, c = s.tasks[t].class,
           Invocations(c, K) \subseteq DOMAIN s.inv,
           \A i \in Invocations(c, K) : t \notin s.inv[i].queued,
           NEW u, u = enqueue(s, t, K)
    PROVE  Enqueues(s, u, t, c, K)
<1>1. Invocations(c, K) \subseteq {i \in DOMAIN s.inv : t \notin s.inv[i].queued}
  OBVIOUS
<1> DEFINE x == [i \in DOMAIN s.inv |->
             IF i \in Invocations(c, K) THEN [s.inv[i] EXCEPT !.queued = @ \cup {t}]
             ELSE s.inv[i]]
<1>2. u = [s EXCEPT !.inv = x]
  BY <1>1 DEF enqueue, Unless
<1>3. /\ DOMAIN x = DOMAIN s.inv
      /\ \A i \in DOMAIN s.inv :
            x[i] = IF i \in Invocations(c, K) THEN [s.inv[i] EXCEPT !.queued = @ \cup {t}]
                   ELSE s.inv[i]
  OBVIOUS
<1> HIDE DEF x
<1>4. SameButInvocations(s, u) /\ u.inv = x
  BY <1>2, ReplaceInvocations
<1> QED BY <1>3, <1>4 DEF Enqueues

LEMMA RemoveQueuedIs ==
    ASSUME NEW s, IsState(s), s.panicked = FALSE, NEW t, NEW K, NEW c, c = s.tasks[t].class,
           Invocations(c, K) \subseteq DOMAIN s.inv,
           \A i \in Invocations(c, K) : t \in s.inv[i].queued,
           NEW u, u = removeQueuedFromInvocation(s, t, K)
    PROVE  Dequeues(s, u, t, c, K)
<1>1. Invocations(c, K) \subseteq {i \in DOMAIN s.inv : t \in s.inv[i].queued}
  OBVIOUS
<1> DEFINE x == [i \in DOMAIN s.inv |->
             IF i \in Invocations(c, K) THEN [s.inv[i] EXCEPT !.queued = @ \ {t}]
             ELSE s.inv[i]]
<1>2. u = [s EXCEPT !.inv = x]
  BY <1>1 DEF removeQueuedFromInvocation, Unless
<1>3. /\ DOMAIN x = DOMAIN s.inv
      /\ \A i \in DOMAIN s.inv :
            x[i] = IF i \in Invocations(c, K) THEN [s.inv[i] EXCEPT !.queued = @ \ {t}]
                   ELSE s.inv[i]
  OBVIOUS
<1> HIDE DEF x
<1>4. SameButInvocations(s, u) /\ u.inv = x
  BY <1>2, ReplaceInvocations
<1> QED BY <1>3, <1>4 DEF Dequeues

LEMMA ClearLastIs ==
    ASSUME NEW s, NEW w, NEW c, NEW k, MayClear(s, w, c, k), NEW u, u = clearLastInvocation(s, w)
    PROVE  \E v : ClearsLast(s, v, w, c, k) /\ Removes(v, u, c, {k})
<1>0. /\ IsState(s) /\ s.panicked = FALSE /\ w \in DOMAIN s.workers
      /\ k = s.workers[w].last /\ k # None /\ c = WorkerClass[w]
      /\ s.workers[w].wait # "queued"
      /\ <<c, k>> \in DOMAIN s.inv
      /\ \A i \in DOMAIN s.inv : s.inv[i].idle >= Share(i, c, {k})
  BY DEF MayClear
<1> DEFINE x == [i \in DOMAIN s.inv |-> [s.inv[i] EXCEPT !.idle = @ - Share(i, c, {k})]]
           y == [s.workers EXCEPT ![w].last = None]
           v == [s EXCEPT !.inv = x, !.workers = y]
<1>1. u = Then(v, LAMBDA z : removeIfEmpty(z, c, {k}))
  <2>1. v = [s EXCEPT !.inv = x, !.workers[w].last = None]
    OBVIOUS
  <2>2. u = Unless(/\ s.workers[w].wait # "queued"
                   /\ <<c, k>> \in DOMAIN s.inv
                   /\ \A i \in DOMAIN s.inv : s.inv[i].idle >= Share(i, c, {k}), s,
                Then(v, LAMBDA z : removeIfEmpty(z, c, {k})))
    BY <1>0, <2>1 DEF clearLastInvocation
  <2> HIDE DEF v
  <2> QED BY <1>0, <2>2 DEF Unless
<1>2. /\ SameScalars(s, v) /\ v.tasks = s.tasks
      /\ v.workers = [s.workers EXCEPT ![w].last = None]
      /\ DOMAIN v.inv = DOMAIN s.inv
      /\ \A i \in DOMAIN s.inv : v.inv[i] = [s.inv[i] EXCEPT !.idle = @ - Share(i, c, {k})]
  <2>1. /\ DOMAIN x = DOMAIN s.inv
        /\ \A i \in DOMAIN s.inv : x[i] = [s.inv[i] EXCEPT !.idle = @ - Share(i, c, {k})]
    OBVIOUS
  <2> HIDE DEF x, y
  <2>2. SameScalars(s, v) /\ v.tasks = s.tasks /\ v.inv = x /\ v.workers = y
    BY <1>0 DEF IsState, Fields, SameScalars
  <2> HIDE DEF v
  <2> QED BY <2>1, <2>2 DEF y
<1> HIDE DEF v
<1>3. IsState(v) /\ v.panicked = FALSE
  BY <1>0, <1>2 DEF SameScalars
<1>4. u = removeIfEmpty(v, c, {k})
  BY <1>1, <1>3 DEF Then
<1>5. Removes(v, u, c, {k})
  BY <1>3, <1>4, RemovalFields
<1> QED BY <1>2, <1>5 DEF ClearsLast

LEMMA SetLastIs ==
    ASSUME NEW s, IsState(s), s.panicked = FALSE, NEW w \in DOMAIN s.workers, NEW k, NEW c,
           c = WorkerClass[w], s.workers[w].last = None, <<c, k>> \in DOMAIN s.inv,
           NEW u, u = setLastInvocation(s, w, k)
    PROVE  SetsLast(s, u, w, c, k)
<1> DEFINE x == [i \in DOMAIN s.inv |-> [s.inv[i] EXCEPT !.idle = @ + Share(i, c, {k})]]
           y == [s.workers EXCEPT ![w].last = k]
<1>1. u = [s EXCEPT !.inv = x, !.workers = y]
  BY DEF setLastInvocation, Unless
<1>2. /\ DOMAIN x = DOMAIN s.inv
      /\ \A i \in DOMAIN s.inv : x[i] = [s.inv[i] EXCEPT !.idle = @ + Share(i, c, {k})]
  OBVIOUS
<1> HIDE DEF x, y
<1>3. SameScalars(s, u) /\ u.tasks = s.tasks /\ u.inv = x /\ u.workers = y
  BY <1>1 DEF IsState, Fields, SameScalars
<1> QED BY <1>2, <1>3 DEF y, SetsLast

LEMMA GetOrCreateIs ==
    ASSUME NEW s, IsState(s), NEW c, NEW K, NEW u, u = getOrCreateInvocation(s, c, K)
    PROVE  Creates(s, u, c, K)
  BY DEF Creates, getOrCreateInvocation, IsState, Fields, SameButInvocations

-----------------------------------------------------------------------------
LEMMA AssignUnqueuedIs ==
    ASSUME NEW s, StateOK(s), NEW w \in DOMAIN s.workers, NEW t \in DOMAIN s.tasks,
           s.workers[w].task = None, s.tasks[t].worker = None,
           NEW c, c = WorkerClass[w], s.tasks[t].class = c,
           NEW K, K = DOMAIN s.tasks[t].operations,
           NEW k, k = s.workers[w].last, k # None, s.workers[w].wait # "queued",
           Invocations(c, K) \subseteq DOMAIN s.inv, <<c, k>> \in DOMAIN s.inv,
           \A i \in DOMAIN s.inv : s.inv[i].idle >= Share(i, c, {k}),
           NEW u, u = assignUnqueuedTask(s, w, t)
    PROVE  \E v : Assigns(s, v, w, t, k) /\ Removes(v, u, c, {k})
<1> DEFINE x == [s.tasks EXCEPT ![t] = [s.tasks[t] EXCEPT !.worker = w, !.retryCount = 0]]
           y == [s.workers EXCEPT ![w] = WorkerWith(s.workers[w], t, k)]
           a == [s EXCEPT !.workers = y, !.tasks = x]
           b == incrementExecutingWorkersCount(a, c, K, w)
<1>0. /\ IsState(s) /\ s.panicked = FALSE /\ w \in Workers
      /\ s.workers[w] \in Worker(s.created) /\ TaskOK(s.tasks[t])
      /\ K \in SUBSET InvocationKeys /\ k \in InvocationKeys
      /\ \A i \in DOMAIN s.inv : s.inv[i] \in Invocation
  BY NamesDiffer DEF StateOK, TaskOK, Worker
<1>1. u = Then(Then(a, LAMBDA z : incrementExecutingWorkersCount(z, c, K, w)),
               LAMBDA z : clearLastInvocation(z, w))
  <2>1. y = [s.workers EXCEPT ![w].task = t]
    BY <1>0 DEF Worker, WorkerWith
  <2>2. [s EXCEPT !.workers[w].task = t, !.tasks[t].worker = w, !.tasks[t].retryCount = 0] = a
    BY <1>0, <2>1 DEF IsState, Fields
  <2> HIDE DEF a
  <2> QED BY <1>0, <2>2 DEF assignUnqueuedTask, Unless, OperationKeys
<1>2. /\ OnlyTask(s, a, t) /\ a.tasks = x
      /\ SameTask(s.tasks[t], x[t]) /\ x[t].worker = w
      /\ x[t].retryCount \in 0 .. WorkerTaskRetryCount
  <2>1. a.tasks = x
    BY <1>0 DEF IsState, Fields
  <2>2. DOMAIN x = DOMAIN s.tasks /\ \A z \in DOMAIN s.tasks \ {t} : x[z] = s.tasks[z]
    OBVIOUS
  <2>3. x[t] = [s.tasks[t] EXCEPT !.worker = w, !.retryCount = 0]
    OBVIOUS
  <2> HIDE DEF x, a
  <2>4. /\ SameTask(s.tasks[t], x[t]) /\ x[t].worker = w /\ x[t].retryCount = 0
    BY <1>0, <2>3 DEF TaskOK, IsTask, TaskFields, SameTask
  <2> QED BY <2>1, <2>2, <2>4, SchedulerAssumption DEF OnlyTask
<1>3. /\ SameScalars(s, a) /\ a.inv = s.inv /\ a.workers = y
      /\ DOMAIN y = DOMAIN s.workers
      /\ \A v \in DOMAIN s.workers \ {w} : y[v] = s.workers[v]
      /\ y[w] = WorkerWith(s.workers[w], t, k)
  <2> HIDE DEF x
  <2> QED BY <1>0 DEF IsState, Fields, SameScalars
<1> HIDE DEF x, y, a
<1>4. IsState(a) /\ a.panicked = FALSE
  BY <1>0, <1>3 DEF SameScalars
<1>5. /\ SameButInvocations(a, b)
      /\ DOMAIN b.inv = DOMAIN s.inv
      /\ \A i \in DOMAIN s.inv :
            b.inv[i] = [s.inv[i] EXCEPT !.executing[w] = @ + Share(i, c, K)]
  <2>1. Invocations(c, K) \subseteq DOMAIN a.inv
    BY <1>3
  <2>2. Increments(a, b, c, K, w)
    BY <1>4, <2>1, IncrementIs
  <2> HIDE DEF b
  <2> QED BY <1>3, <2>2 DEF Increments
<1> HIDE DEF b
<1>6. IsState(b) /\ b.panicked = FALSE /\ b.workers = y /\ b.tasks = a.tasks
  BY <1>3, <1>4, <1>5 DEF SameButInvocations
<1>7. u = clearLastInvocation(b, w)
  <2>1. Then(a, LAMBDA z : incrementExecutingWorkersCount(z, c, K, w)) = b
    BY <1>4 DEF Then, b
  <2>2. u = Then(b, LAMBDA z : clearLastInvocation(z, w))
    BY <1>1, <2>1
  <2> QED BY <1>6, <2>2 DEF Then
<1>8. PICK v : ClearsLast(b, v, w, c, k) /\ Removes(v, u, c, {k})
  <2>1. /\ w \in DOMAIN b.workers /\ k = b.workers[w].last /\ b.workers[w].wait # "queued"
        /\ <<c, k>> \in DOMAIN b.inv
    BY <1>3, <1>5, <1>6 DEF WorkerWith
  <2>2. ASSUME NEW i \in DOMAIN b.inv
        PROVE  b.inv[i].idle >= Share(i, c, {k})
    <3>1. i \in DOMAIN s.inv /\ b.inv[i] = [s.inv[i] EXCEPT !.executing[w] = @ + Share(i, c, K)]
      BY <1>5
    <3>2. s.inv[i] \in Invocation /\ s.inv[i].idle >= Share(i, c, {k})
      BY <1>0, <3>1
    <3>3. b.inv[i].idle = s.inv[i].idle
      BY <3>1, <3>2 DEF Invocation
    <3> QED BY <3>2, <3>3
  <2>3. MayClear(b, w, c, k)
    BY <1>6, <2>1, <2>2 DEF MayClear
  <2> QED BY <1>7, <2>3, ClearLastIs
<1>9. /\ SameScalars(b, v) /\ v.tasks = b.tasks
       /\ v.workers = [b.workers EXCEPT ![w].last = None]
       /\ DOMAIN v.inv = DOMAIN b.inv
       /\ \A i \in DOMAIN b.inv :
             v.inv[i] = [b.inv[i] EXCEPT !.idle = @ - Share(i, c, {k})]
  BY <1>8 DEF ClearsLast
<1>10. Moves(s, v, t, w)
  BY <1>2, <1>3, <1>5, <1>6, <1>9 DEF Moves, SameScalars, SameButInvocations, OnlyTask
<1>11. OnlyWorker(s, v, w) /\ v.workers[w] = WorkerWith(s.workers[w], t, None)
  BY <1>3, <1>6, <1>9 DEF OnlyWorker, WorkerWith
<1>12. ASSUME NEW i \in DOMAIN s.inv
       PROVE  /\ v.inv[i] \in Invocation
              /\ v.inv[i].queued = s.inv[i].queued
              /\ \A z \in Workers \ {w} : v.inv[i].executing[z] = s.inv[i].executing[z]
              /\ v.inv[i].executing[w] = s.inv[i].executing[w] + Share(i, c, K)
              /\ v.inv[i].idle = s.inv[i].idle - Share(i, c, {k})
  <2> DEFINE m == Share(i, c, K)
             n == Share(i, c, {k})
  <2>1. m \in Nat /\ n \in Nat /\ s.inv[i].idle >= n /\ s.inv[i] \in Invocation
    BY <1>0, ShareIsNatural
  <2>2. b.inv[i] = [s.inv[i] EXCEPT !.executing[w] = @ + m]
    BY <1>5
  <2>3. v.inv[i] = [b.inv[i] EXCEPT !.idle = @ - n]
    BY <1>5, <1>9
  <2> HIDE DEF m, n
  <2>4. /\ b.inv[i] \in Invocation /\ b.inv[i].queued = s.inv[i].queued
        /\ b.inv[i].idle = s.inv[i].idle
        /\ b.inv[i].executing = [s.inv[i].executing EXCEPT ![w] = @ + m]
    BY <1>0, <2>1, <2>2 DEF Invocation
  <2>5. /\ v.inv[i] \in Invocation
        /\ v.inv[i].queued = s.inv[i].queued
        /\ v.inv[i].executing = [s.inv[i].executing EXCEPT ![w] = @ + m]
        /\ v.inv[i].idle = s.inv[i].idle - n
    BY <2>1, <2>3, <2>4 DEF Invocation
  <2>6. /\ \A z \in Workers \ {w} : v.inv[i].executing[z] = s.inv[i].executing[z]
        /\ v.inv[i].executing[w] = s.inv[i].executing[w] + m
    BY <1>0, <2>1, <2>5 DEF Invocation
  <2> QED BY <2>5, <2>6 DEF m, n
<1>13. Assigns(s, v, w, t, k)
  BY <1>5, <1>9, <1>10, <1>11, <1>12, ZenonT(60) DEF Assigns
<1> QED BY <1>8, <1>13

LEMMA UsedIsActive ==
    ASSUME NEW s, NEW X, StateOK(s), WorkersOK(s), TasksOK(s, X), QueuesOK(s, X), ExecutingOK(s),
           IdleOK(s), NEW i \in DOMAIN s.inv, Used(s, X, i)
    PROVE  IsActive(s.inv[i]) \/ s.inv[i].idle # 0
<1>1. CASE \E t \in DOMAIN s.tasks \ X :
              Pending(s, t) /\ i \in Invocations(s.tasks[t].class, DOMAIN s.tasks[t].operations)
  BY <1>1, UsedByTask
<1>2. CASE \E w \in DOMAIN s.workers :
              s.workers[w].last # None /\ i = <<WorkerClass[w], s.workers[w].last>>
  BY <1>2, UsedByWorker
<1> QED BY <1>1, <1>2 DEF Used

LEMMA ActiveIsUsed ==
    ASSUME NEW s, NEW X, StateOK(s), WorkersOK(s), TasksOK(s, X), QueuesOK(s, X), ExecutingOK(s),
           IdleOK(s), NEW i \in DOMAIN s.inv, i[2] # Root,
           IsActive(s.inv[i]) \/ s.inv[i].idle # 0
    PROVE  Used(s, X, i)
<1>0. i = <<i[1], i[2]>>
  BY DEF StateOK
<1>1. CASE s.inv[i].queued # {}
  <2>1. PICK t \in DOMAIN s.tasks \ X : Queues(s, t, i)
    BY <1>1 DEF QueuesOK
  <2>2. i \in Invocations(s.tasks[t].class, DOMAIN s.tasks[t].operations)
    BY <1>0, <2>1 DEF Queues, Invocations
  <2> QED BY <2>1, <2>2 DEF Used, Queues
<1>2. CASE \E w \in Workers : s.inv[i].executing[w] # 0
  <2>1. PICK w \in Workers : Executes(s, w, i) # 0
    BY <1>2 DEF ExecutingOK
  <2> DEFINE t == s.workers[w].task
             K == DOMAIN s.tasks[t].operations
  <2>2. w \in DOMAIN s.workers /\ t # None /\ Share(i, WorkerClass[w], K) # 0
    BY <2>1 DEF Executes
  <2>3. /\ t \in DOMAIN s.tasks /\ Pending(s, t) /\ s.tasks[t].worker = w
        /\ s.tasks[t].class = WorkerClass[w]
    BY <2>2 DEF WorkersOK
  <2>4. i[1] = WorkerClass[w] /\ i[2] \in K
    <3> HIDE DEF K, t
    <3> QED BY <2>2 DEF Share
  <2>5. i \in Invocations(s.tasks[t].class, K)
    BY <1>0, <2>3, <2>4 DEF Invocations
  <2>6. t \notin X
    BY <2>3, NamesDiffer DEF TasksOK
  <2> QED BY <2>3, <2>5, <2>6 DEF Used
<1>3. CASE s.inv[i].idle # 0
  <2>1. PICK w : w \in IdleWorkers(s, i)
    BY <1>3, IdleWorkersAreFinite DEF IdleOK
  <2> DEFINE l == s.workers[w].last
  <2>2. w \in DOMAIN s.workers /\ l # None /\ Share(i, WorkerClass[w], {l}) = 1
    BY <2>1 DEF IdleWorkers
  <2>3. i[1] = WorkerClass[w] /\ i[2] = l
    <3> HIDE DEF l
    <3>1. Share(i, WorkerClass[w], {l})
             = IF i[1] = WorkerClass[w] /\ (i[2] = Root \/ i[2] = l) THEN 1 ELSE 0
      BY ShareOfOne
    <3> QED BY <2>2, <3>1
  <2> QED BY <1>0, <2>2, <2>3 DEF Used
<1> QED BY <1>1, <1>2, <1>3 DEF IsActive

LEMMA AccountsStep ==
    ASSUME NEW s, NEW u, NEW X, NEW Y, NEW E, NEW F, NEW t, NEW w,
           StateOK(s), StateOK(u), Accounted(s, X, E), OnlyConcerns(s, u, t, w),
           w \in DOMAIN u.workers => WorkerFine(u, w),
           t \in DOMAIN u.tasks => TaskFine(u, Y, t),
           CountsQueued(s, u, Y, t), CountsExecuting(s, u, w), CountsIdle(s, u, w),
           StillUsed(s, u, X, Y, E, F, t, w)
    PROVE  Accounted(u, Y, F)
<1>0. /\ X \ {t} = Y \ {t}
      /\ \A i \in E \cup Touched(s, X, t, w) : i \in F \/ i[2] = Root \/ Used(u, Y, i)
  BY DEF StillUsed
<1>1. /\ u.classes = s.classes
      /\ DOMAIN u.inv = DOMAIN s.inv
      /\ DOMAIN u.tasks \ {t} = DOMAIN s.tasks \ {t}
      /\ \A x \in DOMAIN s.tasks \ {t} : u.tasks[x] = s.tasks[x]
      /\ DOMAIN u.workers \ {w} = DOMAIN s.workers \ {w}
      /\ \A v \in DOMAIN s.workers \ {w} : u.workers[v] = s.workers[v]
      /\ w \in DOMAIN s.workers => s.workers[w].task \in {None, t}
      /\ t \in DOMAIN s.tasks => s.tasks[t].worker \in {None, w}
  BY DEF OnlyConcerns
<1>2. /\ \A v \in DOMAIN s.workers : v # None /\ v \in Workers
      /\ \A x \in DOMAIN s.tasks : x # None
  BY NamesDiffer DEF StateOK
<1>3. \A v \in DOMAIN s.workers \ {w} :
         /\ s.workers[v].task # None => s.workers[v].task # t /\ s.workers[v].task \in DOMAIN s.tasks
  <2> SUFFICES ASSUME NEW v \in DOMAIN s.workers \ {w}, s.workers[v].task # None
               PROVE  s.workers[v].task # t /\ s.workers[v].task \in DOMAIN s.tasks
    OBVIOUS
  <2>1. s.workers[v].task \in DOMAIN s.tasks /\ s.tasks[s.workers[v].task].worker = v
    BY TaskOfWorker DEF Accounted
  <2> QED BY <1>1, <1>2, <2>1
<1>4. \A x \in DOMAIN s.tasks \ {t} :
         s.tasks[x].worker # None => s.tasks[x].worker # w /\ s.tasks[x].worker \in DOMAIN s.workers
  <2> SUFFICES ASSUME NEW x \in DOMAIN s.tasks \ {t}, s.tasks[x].worker # None
               PROVE  s.tasks[x].worker # w /\ s.tasks[x].worker \in DOMAIN s.workers
    OBVIOUS
  <2>1. s.tasks[x].worker \in DOMAIN s.workers /\ s.workers[s.tasks[x].worker].task = x
    BY WorkerOfTask DEF Accounted
  <2> QED BY <1>1, <1>2, <2>1
<1>5. WorkersOK(u)
  <2> SUFFICES ASSUME NEW v \in DOMAIN u.workers PROVE WorkerFine(u, v)
    BY DEF WorkersOK, WorkerFine
  <2> SUFFICES ASSUME v # w PROVE WorkerFine(u, v)
    OBVIOUS
  <2>1. v \in DOMAIN s.workers /\ u.workers[v] = s.workers[v]
    BY <1>1
  <2>2. WorkerFine(s, v)
    BY <2>1 DEF Accounted, WorkersOK, WorkerFine
  <2>3. s.workers[v].task # None =>
           s.workers[v].task \in DOMAIN u.tasks
              /\ u.tasks[s.workers[v].task] = s.tasks[s.workers[v].task]
    BY <1>1, <1>3, <2>1
  <2> QED BY <1>1, <2>1, <2>2, <2>3 DEF WorkerFine, Pending
<1>6. TasksOK(u, Y)
  <2> SUFFICES ASSUME NEW x \in DOMAIN u.tasks PROVE TaskFine(u, Y, x)
    BY DEF TasksOK, TaskFine
  <2> SUFFICES ASSUME x # t PROVE TaskFine(u, Y, x)
    OBVIOUS
  <2>1. x \in DOMAIN s.tasks /\ u.tasks[x] = s.tasks[x] /\ (x \in X <=> x \in Y)
    BY <1>0, <1>1
  <2>2. TaskFine(s, X, x)
    BY <2>1 DEF Accounted, TasksOK, TaskFine
  <2>3. s.tasks[x].worker # None =>
           s.tasks[x].worker \in DOMAIN u.workers
              /\ u.workers[s.tasks[x].worker] = s.workers[s.tasks[x].worker]
    BY <1>1, <1>4, <2>1
  <2> QED BY <1>1, <2>1, <2>2, <2>3 DEF TaskFine, Pending
<1>7. QueuesOK(u, Y)
  <2>1. QueuesOK(s, X)
    BY DEF Accounted
  <2>2. \A i \in DOMAIN s.inv :
              /\ u.inv[i].queued \ {t} = s.inv[i].queued \ {t}
              /\ t \in u.inv[i].queued <=> t \in DOMAIN u.tasks \ Y /\ Queues(u, t, i)
    BY DEF CountsQueued
  <2>3. \A x \in DOMAIN s.tasks \ {t} :
              /\ u.tasks[x].learner = s.tasks[x].learner
              /\ u.tasks[x].worker = s.tasks[x].worker
              /\ u.tasks[x].class = s.tasks[x].class
              /\ DOMAIN u.tasks[x].operations = DOMAIN s.tasks[x].operations
    BY <1>1
  <2> QED BY <1>0, <1>1, <2>1, <2>2, <2>3, QueuesStep
<1>8. ExecutingOK(u)
  <2> SUFFICES ASSUME NEW i \in DOMAIN s.inv, NEW v \in Workers
               PROVE  u.inv[i].executing[v] = Executes(u, v, i)
    BY <1>1 DEF ExecutingOK
  <2>1. CASE v = w
    BY <2>1 DEF CountsExecuting
  <2>2. CASE v # w
    <3>1. u.inv[i].executing[v] = Executes(s, v, i)
      BY <2>2 DEF CountsExecuting, Accounted, ExecutingOK
    <3>2. v \in DOMAIN u.workers <=> v \in DOMAIN s.workers
      BY <1>1, <2>2
    <3>3. v \in DOMAIN s.workers =>
             /\ u.workers[v] = s.workers[v]
             /\ s.workers[v].task # None =>
                   u.tasks[s.workers[v].task] = s.tasks[s.workers[v].task]
      BY <1>1, <1>3, <2>2
    <3> QED BY <3>1, <3>2, <3>3 DEF Executes
  <2> QED BY <2>1, <2>2
<1>9. IdleOK(u)
  <2>1. IdleOK(s) /\ OthersLast(s, u, w)
    BY <1>1 DEF Accounted, OthersLast
  <2>2. \A i \in DOMAIN s.inv :
           u.inv[i].idle = s.inv[i].idle - (IF w \in IdleWorkers(s, i) THEN 1 ELSE 0)
                                         + (IF w \in IdleWorkers(u, i) THEN 1 ELSE 0)
    BY DEF CountsIdle
  <2> QED BY <2>1, <2>2, IdleStep
<1>10. ActiveOK(u, F)
  <2> SUFFICES ASSUME NEW i \in DOMAIN s.inv, i \notin F, i[2] # Root
               PROVE  IsActive(u.inv[i]) \/ u.inv[i].idle # 0
    BY <1>1 DEF ActiveOK
  <2>1. CASE i \in E \cup Touched(s, X, t, w)
    <3>1. Used(u, Y, i)
      BY <1>0, <2>1
    <3> QED BY <1>1, <1>5, <1>6, <1>7, <1>8, <1>9, <3>1, UsedIsActive
  <2>2. CASE i \notin E \cup Touched(s, X, t, w)
    <3>1. IsActive(s.inv[i]) \/ s.inv[i].idle # 0
      BY <2>2 DEF Accounted, ActiveOK
    <3>2. Used(s, X, i)
      BY <3>1, ActiveIsUsed DEF Accounted
    <3>3. Used(u, Y, i)
      <4>1. CASE \E x \in DOMAIN s.tasks \ X :
                    Pending(s, x) /\ i \in Invocations(s.tasks[x].class, DOMAIN s.tasks[x].operations)
        <5>1. PICK x \in DOMAIN s.tasks \ X :
                    Pending(s, x) /\ i \in Invocations(s.tasks[x].class, DOMAIN s.tasks[x].operations)
          BY <4>1
        <5>2. x # t
          BY <2>2, <5>1 DEF Touched
        <5>3. x \in DOMAIN u.tasks \ Y /\ u.tasks[x] = s.tasks[x]
          BY <1>0, <1>1, <5>1, <5>2
        <5> QED BY <5>1, <5>3 DEF Used, Pending
      <4>2. CASE \E v \in DOMAIN s.workers :
                    s.workers[v].last # None /\ i = <<WorkerClass[v], s.workers[v].last>>
        <5>1. PICK v \in DOMAIN s.workers :
                    s.workers[v].last # None /\ i = <<WorkerClass[v], s.workers[v].last>>
          BY <4>2
        <5>2. v # w
          BY <2>2, <5>1 DEF Touched
        <5>3. v \in DOMAIN u.workers /\ u.workers[v] = s.workers[v]
          BY <1>1, <5>1, <5>2
        <5> QED BY <5>1, <5>3 DEF Used
      <4> QED BY <3>2, <4>1, <4>2 DEF Used
    <3> QED BY <1>1, <1>5, <1>6, <1>7, <1>8, <1>9, <3>3, UsedIsActive
  <2> QED BY <2>1, <2>2
<1>11. RootsOK(u)
  BY <1>1 DEF Accounted, RootsOK
<1> QED BY <1>5, <1>6, <1>7, <1>8, <1>9, <1>10, <1>11 DEF Accounted

(* Removing a task from or adding one to those of workers keeps the types. *)
LEMMA MovesKeepsTypes ==
    ASSUME NEW s, NEW u, StateOK(s), NEW t \in DOMAIN s.tasks, NEW w \in DOMAIN s.workers,
           NEW v \in Workers \cup {None}, Moves(s, u, t, v), OnlyWorker(s, u, w),
           u.workers[w] \in Worker(s.created),
           DOMAIN u.inv = DOMAIN s.inv,
           \A i \in DOMAIN s.inv : u.inv[i] \in Invocation
    PROVE  StateOK(u)
<1>1. TaskOK(u.tasks[t])
  BY DEF StateOK, Moves, SameTask, TaskOK
<1>2. \A x \in DOMAIN u.tasks : TaskOK(u.tasks[x])
  BY <1>1 DEF StateOK, Moves, OnlyTask
<1>3. \A x \in DOMAIN u.workers : u.workers[x] \in Worker(s.created)
  BY DEF StateOK, OnlyWorker
<1> QED BY <1>2, <1>3 DEF StateOK, Moves, SameScalars, OnlyTask, OnlyWorker

LEMMA AssignsAccounts ==
    ASSUME NEW s, NEW u, NEW X, NEW E, NEW w, NEW t, NEW c, NEW k,
           MayAssign(s, X, E, w, t, c, k), Assigns(s, u, w, t, k)
    PROVE  StateOK(u) /\ Accounted(u, X, {<<c, k>>})
<1> /\ w \in DOMAIN s.workers /\ t \in DOMAIN s.tasks
    /\ StateOK(s) /\ Accounted(s, X \cup {t}, E) /\ t \notin X
    /\ c = WorkerClass[w] /\ s.tasks[t].class = c
    /\ s.workers[w].task = None /\ k = s.workers[w].last
    /\ Invocations(c, DOMAIN s.tasks[t].operations) \subseteq DOMAIN s.inv
    /\ E \subseteq Invocations(c, DOMAIN s.tasks[t].operations)
  BY DEF MayAssign
<1> DEFINE K == DOMAIN s.tasks[t].operations
<1>1. /\ Moves(s, u, t, w) /\ OnlyWorker(s, u, w)
      /\ u.workers[w] = WorkerWith(s.workers[w], t, None)
      /\ DOMAIN u.inv = DOMAIN s.inv
      /\ \A i \in DOMAIN s.inv :
            /\ u.inv[i] \in Invocation
            /\ u.inv[i].queued = s.inv[i].queued
            /\ \A v \in Workers \ {w} : u.inv[i].executing[v] = s.inv[i].executing[v]
            /\ u.inv[i].executing[w] = s.inv[i].executing[w] + Share(i, c, K)
            /\ u.inv[i].idle = s.inv[i].idle - Share(i, c, {k})
  BY DEF Assigns
<1>2. /\ w \in Workers /\ w # None /\ t # None /\ t \in Nat /\ K \in SUBSET InvocationKeys
      /\ s.workers[w] \in Worker(s.created)
      /\ s.created \in Nat /\ t \in 1 .. s.created
      /\ DOMAIN s.inv \subseteq SizeClasses \X InvocationKeys
      /\ \A i \in DOMAIN s.inv : s.inv[i] \in Invocation
      /\ \A v \in DOMAIN s.workers : v # None
      /\ \A x \in DOMAIN s.tasks : x # None
  <2>1. /\ TaskOK(s.tasks[t]) /\ s.created \in Nat /\ DOMAIN s.tasks \subseteq 1 .. s.created
        /\ DOMAIN s.workers \subseteq Workers /\ s.workers[w] \in Worker(s.created)
        /\ DOMAIN s.inv \subseteq SizeClasses \X InvocationKeys
        /\ \A i \in DOMAIN s.inv : s.inv[i] \in Invocation
    BY DEF StateOK
  <2>2. K \in SUBSET InvocationKeys
    BY <2>1 DEF TaskOK
  <2> HIDE DEF K
  <2> QED BY <2>1, <2>2, NamesDiffer
<1>3. /\ k # None /\ k \in InvocationKeys /\ <<c, k>> \in DOMAIN s.inv /\ c \in s.classes
      /\ Pending(s, t) /\ s.tasks[t].worker = None
  BY <1>2, NamesDiffer DEF Accounted, WorkersOK, TasksOK, Worker
<1>4. /\ DOMAIN u.tasks = DOMAIN s.tasks
      /\ \A x \in DOMAIN s.tasks \ {t} : u.tasks[x] = s.tasks[x]
      /\ u.tasks[t].worker = w /\ u.tasks[t].class = c
      /\ u.tasks[t].learner = s.tasks[t].learner
      /\ u.tasks[t].operations = s.tasks[t].operations
      /\ DOMAIN u.workers = DOMAIN s.workers
      /\ \A v \in DOMAIN s.workers \ {w} : u.workers[v] = s.workers[v]
      /\ u.workers[w].task = t /\ u.workers[w].last = None
      /\ u.classes = s.classes
  BY <1>1 DEF Moves, OnlyTask, OnlyWorker, SameTask, SameScalars, WorkerWith
<1> HIDE DEF K
<1>5. StateOK(u)
  <2>1. u.workers[w] \in Worker(s.created)
    BY <1>1, <1>2 DEF WorkerWith, Worker
  <2> QED BY <1>1, <1>2, <2>1, MovesKeepsTypes
<1>6. OnlyConcerns(s, u, t, w)
  BY <1>1, <1>3, <1>4 DEF OnlyConcerns
<1>7. WorkerFine(u, w)
  BY <1>2, <1>3, <1>4 DEF WorkerFine, Pending
<1>8. TaskFine(u, X, t)
  <2>1. DOMAIN s.tasks[t].operations # {}
    BY DEF Accounted, TasksOK
  <2> QED BY <1>1, <1>2, <1>3, <1>4, <2>1 DEF TaskFine
<1>9. CountsQueued(s, u, X, t)
  <2>1. \A i \in DOMAIN s.inv : t \notin s.inv[i].queued /\ ~Queues(u, t, i)
    BY <1>2, <1>4 DEF Accounted, QueuesOK, Queues
  <2> QED BY <1>1, <2>1 DEF CountsQueued
<1>10. CountsExecuting(s, u, w)
  <2> SUFFICES ASSUME NEW i \in DOMAIN s.inv
               PROVE  u.inv[i].executing[w] = Executes(u, w, i)
    BY <1>1 DEF CountsExecuting
  <2>1. s.inv[i].executing[w] = 0
    BY <1>2 DEF Accounted, ExecutingOK, Executes
  <2>2. Executes(u, w, i) = Share(i, c, K)
    BY <1>2, <1>4 DEF Executes, K
  <2>3. Share(i, c, K) \in Nat
    BY <1>2, ShareIsNatural
  <2> QED BY <1>1, <2>1, <2>2, <2>3
<1>11. CountsIdle(s, u, w)
  <2> SUFFICES ASSUME NEW i \in DOMAIN s.inv
        PROVE  u.inv[i].idle = s.inv[i].idle - (IF w \in IdleWorkers(s, i) THEN 1 ELSE 0)
                                             + (IF w \in IdleWorkers(u, i) THEN 1 ELSE 0)
    BY DEF CountsIdle
  <2>1. Share(i, c, {k}) \in {0, 1}
    BY ShareOfOne
  <2>2. w \in IdleWorkers(s, i) <=> Share(i, c, {k}) = 1
    BY <1>3 DEF IdleWorkers
  <2>3. w \notin IdleWorkers(u, i)
    BY <1>4 DEF IdleWorkers
  <2>4. s.inv[i].idle \in Nat /\ u.inv[i].idle = s.inv[i].idle - Share(i, c, {k})
    BY <1>1, <1>2 DEF Invocation
  <2> QED BY <2>1, <2>2, <2>3, <2>4
<1>12. StillUsed(s, u, X \cup {t}, X, E, {<<c, k>>}, t, w)
  <2>1. \A i \in E : Used(u, X, i)
    BY <1>3, <1>4 DEF Used, Pending
  <2>2. \A i \in Touched(s, X \cup {t}, t, w) : i = <<c, k>>
    BY DEF Touched
  <2>3. (X \cup {t}) \ {t} = X \ {t}
    OBVIOUS
  <2> QED BY <2>1, <2>2, <2>3 DEF StillUsed
<1>13. Accounted(u, X, {<<c, k>>})
  BY <1>5, <1>6, <1>7, <1>8, <1>9, <1>10, <1>11, <1>12, AccountsStep
<1> QED BY <1>5, <1>13

-----------------------------------------------------------------------------
(* Tasks that are queued, and taken off their queues. *)
LEMMA NoWorkerConcerned ==
    ASSUME NEW s, NEW u, StateOK(s), u.workers = s.workers,
           \A i \in DOMAIN s.inv :
              /\ u.inv[i].executing = s.inv[i].executing
              /\ u.inv[i].idle = s.inv[i].idle
    PROVE  /\ CountsExecuting(s, u, None) /\ CountsIdle(s, u, None)
           /\ None \notin DOMAIN u.workers /\ None \notin Workers
<1>1. None \notin DOMAIN s.workers /\ None \notin Workers
  BY NamesDiffer DEF StateOK
<1>2. \A i \in DOMAIN s.inv : s.inv[i].idle \in Nat
  BY DEF StateOK, Invocation
<1>3. \A i : None \notin IdleWorkers(s, i) /\ None \notin IdleWorkers(u, i)
  BY <1>1 DEF IdleWorkers
<1>4. CountsIdle(s, u, None)
  BY <1>2, <1>3 DEF CountsIdle
<1> QED BY <1>1, <1>4 DEF CountsExecuting

LEMMA InvocationTypes ==
    ASSUME NEW s, NEW u, StateOK(s), SameButInvocations(s, u), DOMAIN u.inv = DOMAIN s.inv,
           \A i \in DOMAIN s.inv : u.inv[i] \in Invocation
    PROVE  StateOK(u)
  BY DEF StateOK, SameButInvocations

LEMMA EnqueuesAccounts ==
    ASSUME NEW s, NEW u, NEW X, NEW E, NEW t \in DOMAIN s.tasks, NEW c, NEW K,
           StateOK(s), Accounted(s, X \cup {t}, E), t \notin X,
           c = s.tasks[t].class, K = DOMAIN s.tasks[t].operations,
           Invocations(c, K) \subseteq DOMAIN s.inv, E \subseteq Invocations(c, K),
           Enqueues(s, u, t, c, K)
    PROVE  StateOK(u) /\ Accounted(u, X, {})
<1>1. /\ SameButInvocations(s, u) /\ u.tasks = s.tasks /\ u.workers = s.workers
      /\ u.classes = s.classes /\ DOMAIN u.inv = DOMAIN s.inv
  BY DEF Enqueues, SameButInvocations
<1>2. t \in Nat /\ \A i \in DOMAIN s.inv : s.inv[i] \in Invocation
  BY DEF StateOK
<1>3. \A i \in DOMAIN s.inv :
         /\ u.inv[i] \in Invocation
         /\ u.inv[i].executing = s.inv[i].executing /\ u.inv[i].idle = s.inv[i].idle
         /\ u.inv[i].queued = IF i \in Invocations(c, K) THEN s.inv[i].queued \cup {t}
                              ELSE s.inv[i].queued
  <2> SUFFICES ASSUME NEW i \in DOMAIN s.inv
               PROVE  /\ u.inv[i] \in Invocation
                      /\ u.inv[i].executing = s.inv[i].executing /\ u.inv[i].idle = s.inv[i].idle
                      /\ u.inv[i].queued = IF i \in Invocations(c, K) THEN s.inv[i].queued \cup {t}
                                           ELSE s.inv[i].queued
    OBVIOUS
  <2>1. s.inv[i] \in Invocation
    BY <1>2
  <2>2. u.inv[i] = IF i \in Invocations(c, K)
                   THEN [s.inv[i] EXCEPT !.queued = @ \cup {t}] ELSE s.inv[i]
    BY DEF Enqueues
  <2> QED BY <1>2, <2>1, <2>2 DEF Invocation
<1>4. StateOK(u)
  BY <1>1, <1>3, InvocationTypes
<1>5. Pending(s, t) /\ s.tasks[t].worker = None /\ c \in s.classes /\ K # {}
  BY DEF Accounted, TasksOK
<1>6. OnlyConcerns(s, u, t, None)
  BY <1>1, <1>5, NoWorkerConcerned, NamesDiffer DEF OnlyConcerns, StateOK
<1>7. TaskFine(u, X, t)
  BY <1>1, <1>5 DEF TaskFine, Pending
<1>8. CountsQueued(s, u, X, t)
  <2> SUFFICES ASSUME NEW i \in DOMAIN s.inv
               PROVE  /\ u.inv[i].queued \ {t} = s.inv[i].queued \ {t}
                      /\ t \in u.inv[i].queued <=> t \in DOMAIN u.tasks \ X /\ Queues(u, t, i)
    BY DEF CountsQueued
  <2>1. t \notin s.inv[i].queued
    BY DEF Accounted, QueuesOK
  <2>2. i = <<i[1], i[2]>>
    BY DEF StateOK
  <2>3. i \in Invocations(c, K) <=> i[1] = c /\ i[2] \in K
    BY <2>2 DEF Invocations
  <2>4. Queues(u, t, i) <=> i[1] = c /\ i[2] \in K
    BY <1>1, <1>5 DEF Queues, Pending
  <2> QED BY <1>1, <1>3, <2>1, <2>3, <2>4
<1>9. StillUsed(s, u, X \cup {t}, X, E, {}, t, None)
  <2>1. \A i \in E : Used(u, X, i)
    BY <1>1, <1>5 DEF Used, Pending
  <2>2. Touched(s, X \cup {t}, t, None) = {}
    BY <1>1, NoWorkerConcerned, NamesDiffer DEF Touched, StateOK
  <2>3. (X \cup {t}) \ {t} = X \ {t}
    OBVIOUS
  <2> QED BY <2>1, <2>2, <2>3 DEF StillUsed
<1>10. CountsExecuting(s, u, None) /\ CountsIdle(s, u, None) /\ None \notin DOMAIN u.workers
  BY <1>1, <1>3, NoWorkerConcerned
<1>11. Accounted(u, X, {})
  BY <1>4, <1>6, <1>7, <1>8, <1>9, <1>10, AccountsStep
<1> QED BY <1>4, <1>11

LEMMA DequeuesAccounts ==
    ASSUME NEW s, NEW u, NEW X, NEW t \in DOMAIN s.tasks \ X, NEW c, NEW K,
           StateOK(s), Accounted(s, X, {}), Pending(s, t), s.tasks[t].worker = None,
           c = s.tasks[t].class, K = DOMAIN s.tasks[t].operations,
           Dequeues(s, u, t, c, K)
    PROVE  StateOK(u) /\ Accounted(u, X \cup {t}, Invocations(c, K))
<1>1. /\ SameButInvocations(s, u) /\ u.tasks = s.tasks /\ u.workers = s.workers
      /\ u.classes = s.classes /\ DOMAIN u.inv = DOMAIN s.inv
  BY DEF Dequeues, SameButInvocations
<1>2. t \in Nat /\ \A i \in DOMAIN s.inv : s.inv[i] \in Invocation
  BY DEF StateOK
<1>3. \A i \in DOMAIN s.inv :
         /\ u.inv[i] \in Invocation
         /\ u.inv[i].executing = s.inv[i].executing /\ u.inv[i].idle = s.inv[i].idle
         /\ u.inv[i].queued = IF i \in Invocations(c, K) THEN s.inv[i].queued \ {t}
                              ELSE s.inv[i].queued
  <2> SUFFICES ASSUME NEW i \in DOMAIN s.inv
               PROVE  /\ u.inv[i] \in Invocation
                      /\ u.inv[i].executing = s.inv[i].executing /\ u.inv[i].idle = s.inv[i].idle
                      /\ u.inv[i].queued = IF i \in Invocations(c, K) THEN s.inv[i].queued \ {t}
                                           ELSE s.inv[i].queued
    OBVIOUS
  <2>1. s.inv[i] \in Invocation
    BY <1>2
  <2>2. u.inv[i] = IF i \in Invocations(c, K)
                   THEN [s.inv[i] EXCEPT !.queued = @ \ {t}] ELSE s.inv[i]
    BY DEF Dequeues
  <2> QED BY <1>2, <2>1, <2>2 DEF Invocation
<1>4. StateOK(u)
  BY <1>1, <1>3, InvocationTypes
<1>5. c \in s.classes /\ K # {} /\ Invocations(c, K) \subseteq DOMAIN s.inv
  BY DEF Accounted, TasksOK
<1>6. OnlyConcerns(s, u, t, None)
  BY <1>1, <1>5, NoWorkerConcerned, NamesDiffer DEF OnlyConcerns, StateOK
<1>7. TaskFine(u, X \cup {t}, t)
  BY <1>1, <1>5 DEF TaskFine, Pending
<1>8. CountsQueued(s, u, X \cup {t}, t)
  <2> SUFFICES ASSUME NEW i \in DOMAIN s.inv
               PROVE  u.inv[i].queued \ {t} = s.inv[i].queued \ {t} /\ t \notin u.inv[i].queued
    BY DEF CountsQueued
  <2>1. t \in s.inv[i].queued => i[1] = c /\ i[2] \in K
    BY DEF Accounted, QueuesOK, Queues
  <2>2. i = <<i[1], i[2]>>
    BY DEF StateOK
  <2>3. i \in Invocations(c, K) <=> i[1] = c /\ i[2] \in K
    BY <2>2 DEF Invocations
  <2> QED BY <1>3, <2>1, <2>3
<1>9. StillUsed(s, u, X, X \cup {t}, {}, Invocations(c, K), t, None)
  <2>1. None \notin DOMAIN s.workers
    BY NamesDiffer DEF StateOK
  <2>2. \A i \in Touched(s, X, t, None) : i \in Invocations(c, K)
    BY <2>1 DEF Touched
  <2>3. X \ {t} = (X \cup {t}) \ {t}
    OBVIOUS
  <2> QED BY <2>2, <2>3 DEF StillUsed
<1>10. CountsExecuting(s, u, None) /\ CountsIdle(s, u, None) /\ None \notin DOMAIN u.workers
  BY <1>1, <1>3, NoWorkerConcerned
<1>11. Accounted(u, X \cup {t}, Invocations(c, K))
  BY <1>4, <1>6, <1>7, <1>8, <1>9, <1>10, AccountsStep
<1> QED BY <1>4, <1>11

LEMMA UnassignsAccounts ==
    ASSUME NEW s, NEW u, NEW X, NEW w, NEW t, NEW c, NEW K, NEW k,
           MayUnassign(s, X, w, t, c, K, k), Unassigns(s, u, w, t, k)
    PROVE  StateOK(u) /\ Accounted(u, X \cup {t}, Invocations(c, K))
<1> /\ w \in DOMAIN s.workers /\ t \in DOMAIN s.tasks \ X
    /\ StateOK(s) /\ Accounted(s, X, {})
    /\ s.workers[w].task = t /\ c = WorkerClass[w] /\ K = DOMAIN s.tasks[t].operations
    /\ k \in InvocationKeys /\ <<c, k>> \in DOMAIN s.inv
  BY DEF MayUnassign
<1>1. /\ Moves(s, u, t, None) /\ OnlyWorker(s, u, w)
      /\ u.workers[w] = WorkerWith(s.workers[w], None, k)
      /\ DOMAIN u.inv = DOMAIN s.inv
      /\ \A i \in DOMAIN s.inv :
            /\ u.inv[i] \in Invocation
            /\ u.inv[i].queued = s.inv[i].queued
            /\ \A v \in Workers \ {w} : u.inv[i].executing[v] = s.inv[i].executing[v]
            /\ u.inv[i].executing[w] = s.inv[i].executing[w] - Share(i, c, K)
            /\ u.inv[i].idle = s.inv[i].idle + Share(i, c, {k})
  BY DEF Unassigns
<1>2. /\ w \in Workers /\ w # None /\ t # None /\ K \in SUBSET InvocationKeys
      /\ s.workers[w] \in Worker(s.created) /\ k # None
      /\ \A i \in DOMAIN s.inv : s.inv[i] \in Invocation
  <2>1. /\ TaskOK(s.tasks[t]) /\ DOMAIN s.tasks \subseteq 1 .. s.created
        /\ DOMAIN s.workers \subseteq Workers /\ s.workers[w] \in Worker(s.created)
        /\ \A i \in DOMAIN s.inv : s.inv[i] \in Invocation
    BY DEF StateOK
  <2>2. K \in SUBSET InvocationKeys
    BY <2>1 DEF TaskOK
  <2> QED BY <2>1, <2>2, NamesDiffer
<1>3. /\ s.tasks[t].worker = w /\ s.tasks[t].class = c /\ Pending(s, t) /\ c \in s.classes
      /\ s.workers[w].last = None /\ K # {}
  BY <1>2 DEF Accounted, WorkersOK, TasksOK
<1>4. /\ DOMAIN u.tasks = DOMAIN s.tasks
      /\ \A x \in DOMAIN s.tasks \ {t} : u.tasks[x] = s.tasks[x]
      /\ u.tasks[t].worker = None /\ u.tasks[t].class = c
      /\ u.tasks[t].learner = s.tasks[t].learner
      /\ u.tasks[t].operations = s.tasks[t].operations
      /\ DOMAIN u.workers = DOMAIN s.workers
      /\ \A v \in DOMAIN s.workers \ {w} : u.workers[v] = s.workers[v]
      /\ u.workers[w].task = None /\ u.workers[w].last = k
      /\ u.classes = s.classes
  BY <1>1, <1>3 DEF Moves, OnlyTask, OnlyWorker, SameTask, SameScalars, WorkerWith
<1>5. StateOK(u)
  <2>1. u.workers[w] \in Worker(s.created)
    BY <1>1, <1>2 DEF WorkerWith, Worker
  <2> QED BY <1>1, <1>2, <2>1, MovesKeepsTypes
<1>6. OnlyConcerns(s, u, t, w)
  BY <1>1, <1>3, <1>4 DEF OnlyConcerns
<1>7. WorkerFine(u, w)
  BY <1>1, <1>2, <1>3, <1>4 DEF WorkerFine
<1>8. TaskFine(u, X \cup {t}, t)
  BY <1>3, <1>4 DEF TaskFine, Pending
<1>9. CountsQueued(s, u, X \cup {t}, t)
  <2>1. \A i \in DOMAIN s.inv : t \notin s.inv[i].queued
    BY <1>2, <1>3 DEF Accounted, QueuesOK, Queues
  <2> QED BY <1>1, <2>1 DEF CountsQueued
<1>10. CountsExecuting(s, u, w)
  <2> SUFFICES ASSUME NEW i \in DOMAIN s.inv
               PROVE  u.inv[i].executing[w] = Executes(u, w, i)
    BY <1>1 DEF CountsExecuting
  <2>1. s.inv[i].executing[w] = Share(i, c, K)
    BY <1>2 DEF Accounted, ExecutingOK, Executes
  <2>2. Executes(u, w, i) = 0
    BY <1>4 DEF Executes
  <2>3. Share(i, c, K) \in Nat
    BY <1>2, ShareIsNatural
  <2> QED BY <1>1, <2>1, <2>2, <2>3
<1>11. CountsIdle(s, u, w)
  <2> SUFFICES ASSUME NEW i \in DOMAIN s.inv
        PROVE  u.inv[i].idle = s.inv[i].idle - (IF w \in IdleWorkers(s, i) THEN 1 ELSE 0)
                                             + (IF w \in IdleWorkers(u, i) THEN 1 ELSE 0)
    BY DEF CountsIdle
  <2>1. Share(i, c, {k}) \in {0, 1}
    BY ShareOfOne
  <2>2. w \notin IdleWorkers(s, i)
    BY <1>3 DEF IdleWorkers
  <2>3. w \in IdleWorkers(u, i) <=> Share(i, c, {k}) = 1
    BY <1>2, <1>4 DEF IdleWorkers
  <2>4. s.inv[i].idle \in Nat /\ u.inv[i].idle = s.inv[i].idle + Share(i, c, {k})
    BY <1>1, <1>2 DEF Invocation
  <2> QED BY <2>1, <2>2, <2>3, <2>4
<1>12. StillUsed(s, u, X, X \cup {t}, {}, Invocations(c, K), t, w)
  <2>1. \A i \in Touched(s, X, t, w) : i \in Invocations(c, K)
    BY <1>3 DEF Touched
  <2>2. X \ {t} = (X \cup {t}) \ {t}
    OBVIOUS
  <2> QED BY <2>1, <2>2 DEF StillUsed
<1>13. Accounted(u, X \cup {t}, Invocations(c, K))
  BY <1>5, <1>6, <1>7, <1>8, <1>9, <1>10, <1>11, <1>12, AccountsStep
<1> QED BY <1>5, <1>13

(* Removing invocations from two states that only differ otherwise. *)
LEMMA RemovesElsewhere ==
    ASSUME NEW s, NEW u, NEW c, NEW K, Removes(s, u, c, K), NEW r, NEW v,
           r.inv = s.inv, v.inv = u.inv, SameButInvocations(r, v)
    PROVE  Removes(r, v, c, K)
  BY DEF Removes

(* The last invocation of a worker that completes a task is one of its     *)
(* invocations, or the root.                                               *)
LEMMA LastIs ==
    ASSUME NEW K, K # {}
    PROVE  LowestCommonAncestor(K) \in K \cup {Root}
  BY DEF LowestCommonAncestor

LEMMA LeaveExecutingIs ==
    ASSUME NEW s, StateOK(s), NEW t \in DOMAIN s.tasks, NEW w \in DOMAIN s.workers,
           NEW c, NEW K, NEW k, NEW b,
           Pending(s, t), s.tasks[t].worker = w, s.workers[w].task = t, w # None,
           s.tasks[t].class = c, WorkerClass[w] = c, K = DOMAIN s.tasks[t].operations,
           k = IF b THEN LowestCommonAncestor(K) ELSE Root,
           k \in InvocationKeys, <<c, k>> \in DOMAIN s.inv, s.workers[w].last = None,
           Invocations(c, K) \subseteq DOMAIN s.inv,
           \A i \in DOMAIN s.inv : s.inv[i].executing[w] >= Share(i, c, K),
           NEW u, u = leaveQueuedOrExecutingStage(s, t, b)
    PROVE  \E v : Unassigns(s, v, w, t, k) /\ Removes(v, u, c, K)
<1>0. /\ IsState(s) /\ s.panicked = FALSE /\ w \in Workers
      /\ s.workers[w] \in Worker(s.created) /\ TaskOK(s.tasks[t])
      /\ K \in SUBSET InvocationKeys
      /\ \A i \in DOMAIN s.inv : s.inv[i] \in Invocation
  BY DEF StateOK, TaskOK
<1> DEFINE F(z) == [z EXCEPT !.tasks[t].worker = None, !.workers[w].task = None]
           p == setLastInvocation(s, w, k)
           q == decrementExecutingWorkersCount(p, c, K, w)
<1>1. u = Then(Then(p, LAMBDA z : decrementExecutingWorkersCount(z, c, K, w)), LAMBDA z : F(z))
  BY <1>0 DEF leaveQueuedOrExecutingStage, Unless, OperationKeys, Pending
<1>2. SetsLast(s, p, w, c, k)
  BY <1>0, SetLastIs
<1> HIDE DEF p
<1>3. /\ SameScalars(s, p) /\ p.tasks = s.tasks
      /\ p.workers = [s.workers EXCEPT ![w].last = k]
      /\ DOMAIN p.inv = DOMAIN s.inv
      /\ \A i \in DOMAIN s.inv : p.inv[i] = [s.inv[i] EXCEPT !.idle = @ + Share(i, c, {k})]
  BY <1>2 DEF SetsLast
<1>4. IsState(p) /\ p.panicked = FALSE
  BY <1>0, <1>3 DEF SameScalars
<1>5. \A i \in DOMAIN s.inv :
         /\ p.inv[i] \in Invocation /\ p.inv[i].queued = s.inv[i].queued
         /\ p.inv[i].executing = s.inv[i].executing
         /\ p.inv[i].idle = s.inv[i].idle + Share(i, c, {k})
  <2> SUFFICES ASSUME NEW i \in DOMAIN s.inv
               PROVE  /\ p.inv[i] \in Invocation /\ p.inv[i].queued = s.inv[i].queued
                      /\ p.inv[i].executing = s.inv[i].executing
                      /\ p.inv[i].idle = s.inv[i].idle + Share(i, c, {k})
    OBVIOUS
  <2> DEFINE n == Share(i, c, {k})
  <2>1. n \in Nat /\ s.inv[i] \in Invocation
    BY <1>0, ShareIsNatural
  <2>2. p.inv[i] = [s.inv[i] EXCEPT !.idle = @ + n]
    BY <1>3
  <2> HIDE DEF n
  <2>3. /\ p.inv[i] \in Invocation /\ p.inv[i].queued = s.inv[i].queued
        /\ p.inv[i].executing = s.inv[i].executing
        /\ p.inv[i].idle = s.inv[i].idle + n
    BY <2>1, <2>2 DEF Invocation
  <2> QED BY <2>3 DEF n
<1>6. PICK a : Decrements(p, a, c, K, w) /\ Removes(a, q, c, K)
  <2>1. Invocations(c, K) \subseteq DOMAIN p.inv
    BY <1>3
  <2>2. \A i \in DOMAIN p.inv : p.inv[i].executing[w] >= Share(i, c, K)
    BY <1>3, <1>5
  <2> QED BY <1>4, <2>1, <2>2, DecrementIs
<1>7. Then(p, LAMBDA z : decrementExecutingWorkersCount(z, c, K, w)) = q
  BY <1>4 DEF Then, q
<1> HIDE DEF q, F
<1>8. /\ SameButInvocations(p, a) /\ SameButInvocations(a, q)
      /\ DOMAIN a.inv = DOMAIN p.inv
      /\ \A i \in DOMAIN p.inv :
            a.inv[i] = [p.inv[i] EXCEPT !.executing[w] = @ - Share(i, c, K)]
  BY <1>6 DEF Decrements, Removes
<1>9. /\ IsState(a) /\ IsState(q) /\ q.panicked = FALSE /\ q.tasks = s.tasks
      /\ q.workers = p.workers /\ a.workers = p.workers /\ a.tasks = s.tasks
      /\ SameScalars(s, a) /\ SameScalars(s, q)
  BY <1>3, <1>4, <1>8 DEF SameButInvocations, SameScalars
<1>10. u = F(q)
  <2>1. u = Then(q, LAMBDA z : F(z))
    BY <1>1, <1>7
  <2> QED BY <1>9, <2>1 DEF Then
<1> DEFINE v == F(a)
           x == [s.tasks EXCEPT ![t] = [s.tasks[t] EXCEPT !.worker = None]]
           y == [s.workers EXCEPT ![w] = WorkerWith(s.workers[w], None, k)]
<1>11. ASSUME NEW z, IsState(z), z.tasks = s.tasks, z.workers = p.workers, SameScalars(s, z),
              NEW r, r = F(z)
       PROVE  r.inv = z.inv /\ SameScalars(s, r) /\ r.tasks = x /\ r.workers = y
  <2>1. r = [z EXCEPT !.tasks = x, !.workers = y]
    <3>1. [p.workers EXCEPT ![w].task = None] = y
      BY <1>0, <1>3 DEF Worker, WorkerWith
    <3> HIDE DEF y
    <3> QED BY <1>11, <3>1 DEF F, IsState, Fields
  <2> HIDE DEF x, y
  <2> QED BY <1>11, <2>1 DEF IsState, Fields, SameScalars
<1> HIDE DEF v
<1>12. v.inv = a.inv /\ SameScalars(s, v) /\ v.tasks = x /\ v.workers = y
  BY <1>9, <1>11 DEF v
<1>13. u.inv = q.inv /\ SameScalars(s, u) /\ u.tasks = x /\ u.workers = y
  BY <1>9, <1>10, <1>11
<1>14. Removes(v, u, c, K)
  <2>1. SameButInvocations(v, u)
    BY <1>12, <1>13 DEF SameButInvocations, SameScalars
  <2> QED BY <1>6, <1>12, <1>13, <2>1, RemovesElsewhere
<1>15. Moves(s, v, t, None)
  <2>1. DOMAIN x = DOMAIN s.tasks /\ \A z \in DOMAIN s.tasks \ {t} : x[z] = s.tasks[z]
    OBVIOUS
  <2>2. x[t] = [s.tasks[t] EXCEPT !.worker = None]
    OBVIOUS
  <2> HIDE DEF x
  <2>3. SameTask(s.tasks[t], x[t]) /\ x[t].worker = None /\ x[t].retryCount = s.tasks[t].retryCount
    BY <1>0, <2>2 DEF TaskOK, IsTask, TaskFields, SameTask
  <2>4. s.tasks[t].retryCount \in 0 .. WorkerTaskRetryCount
    BY <1>0 DEF TaskOK
  <2> QED BY <1>12, <2>1, <2>3, <2>4 DEF Moves, OnlyTask
<1>16. OnlyWorker(s, v, w) /\ v.workers[w] = WorkerWith(s.workers[w], None, k)
  BY <1>12 DEF OnlyWorker
<1>17. ASSUME NEW i \in DOMAIN s.inv
       PROVE  /\ v.inv[i] \in Invocation
              /\ v.inv[i].queued = s.inv[i].queued
              /\ \A z \in Workers \ {w} : v.inv[i].executing[z] = s.inv[i].executing[z]
              /\ v.inv[i].executing[w] = s.inv[i].executing[w] - Share(i, c, K)
              /\ v.inv[i].idle = s.inv[i].idle + Share(i, c, {k})
  <2> DEFINE m == Share(i, c, K)
  <2>1. m \in Nat /\ s.inv[i].executing[w] >= m /\ s.inv[i] \in Invocation
    BY <1>0, ShareIsNatural
  <2>2. v.inv[i] = [p.inv[i] EXCEPT !.executing[w] = @ - m]
    BY <1>3, <1>8, <1>12, ZenonT(60)
  <2>3. p.inv[i] \in Invocation /\ p.inv[i].executing = s.inv[i].executing
    BY <1>5
  <2> HIDE DEF m
  <2>4. /\ v.inv[i] \in Invocation /\ v.inv[i].queued = p.inv[i].queued
        /\ v.inv[i].idle = p.inv[i].idle
        /\ v.inv[i].executing = [p.inv[i].executing EXCEPT ![w] = @ - m]
    BY <1>0, <2>1, <2>2, <2>3 DEF Invocation
  <2>5. /\ \A z \in Workers \ {w} : v.inv[i].executing[z] = s.inv[i].executing[z]
        /\ v.inv[i].executing[w] = s.inv[i].executing[w] - m
    BY <1>0, <2>1, <2>3, <2>4 DEF Invocation
  <2> QED BY <1>5, <2>4, <2>5 DEF m
<1>18. DOMAIN v.inv = DOMAIN s.inv
  BY <1>3, <1>8, <1>12
<1> HIDE DEF x, y
<1>19. Unassigns(s, v, w, t, k)
  BY <1>15, <1>16, <1>17, <1>18 DEF Unassigns
<1> QED BY <1>14, <1>19

-----------------------------------------------------------------------------
LEMMA EvolvesTransitive ==
    ASSUME NEW s, NEW u, NEW v, NEW T, Evolves(s, u, T), Evolves(u, v, T)
    PROVE  Evolves(s, v, T)
<1>1. /\ s.created \in Nat /\ u.created \in Nat /\ s.created <= u.created
      /\ v.created \in Nat /\ u.created <= v.created
  BY DEF Evolves
<1>2. ASSUME NEW t \in DOMAIN v.tasks \ T, t \in 1 .. s.created, Pending(v, t)
      PROVE  /\ t \in DOMAIN s.tasks /\ Pending(s, t)
             /\ s.tasks[t].worker # None => v.tasks[t].worker = s.tasks[t].worker
  <2>1. t \in 1 .. u.created
    BY <1>1, <1>2
  <2>2. /\ t \in DOMAIN u.tasks /\ Pending(u, t)
        /\ u.tasks[t].worker # None => v.tasks[t].worker = u.tasks[t].worker
    BY <1>2, <2>1 DEF Evolves
  <2>3. /\ t \in DOMAIN s.tasks /\ Pending(s, t)
        /\ s.tasks[t].worker # None => u.tasks[t].worker = s.tasks[t].worker
    BY <1>2, <2>2 DEF Evolves
  <2> QED BY <2>2, <2>3
<1>3. s.created <= v.created
  BY <1>1
<1> QED BY <1>1, <1>2, <1>3 DEF Evolves

LEMMA QuietTransitive ==
    ASSUME NEW s, NEW u, NEW v, NEW T, Quiet(s, u, T), Quiet(u, v, T)
    PROVE  Quiet(s, v, T)
  BY DEF Quiet

LEMMA RecordsStep ==
    ASSUME NEW s, NEW u, NEW cl, NEW P, NEW n, SameRecords(s, u), RecordsOK(s, cl, P),
           u.handles = s.handles, HandlesOK(s, n)
    PROVE  RecordsOK(u, cl, P) /\ HandlesOK(u, n)
<1>1. \A t \in DOMAIN s.tasks :
         /\ u.tasks[t].action = s.tasks[t].action
         /\ u.tasks[t].class = s.tasks[t].class
         /\ u.tasks[t].learner = s.tasks[t].learner
         /\ u.tasks[t].operations = s.tasks[t].operations
         /\ u.tasks[t].failed = s.tasks[t].failed
         /\ u.tasks[t].event = s.tasks[t].event
         /\ Pending(u, t) <=> Pending(s, t)
  BY DEF SameRecords, SameTask, Pending
<1>2. DOMAIN u.tasks = DOMAIN s.tasks /\ u.inFlightDeduplicationMap = s.inFlightDeduplicationMap
  BY DEF SameRecords
<1>3. DeduplicationOK(u)
  BY <1>1, <1>2 DEF RecordsOK, DeduplicationOK
<1>4. LearnersOK(u)
  BY <1>1, <1>2 DEF RecordsOK, LearnersOK
<1>5. ClientsOK(u, cl)
  BY <1>1, <1>2 DEF RecordsOK, ClientsOK
<1>6. OperationsOK(u, cl, P)
  <2>1. OperationsOK(s, cl, P)
    BY DEF RecordsOK
  <2> SUFFICES ASSUME NEW t \in DOMAIN s.tasks, NEW k \in DOMAIN s.tasks[t].operations
               PROVE  OperationFine(u, cl, P, t, k)
    BY <1>1, <1>2 DEF OperationsOK
  <2>2. /\ (Pending(u, t) <=> Pending(s, t)) /\ u.tasks[t].action = s.tasks[t].action
        /\ u.tasks[t].operations = s.tasks[t].operations
    BY <1>1
  <2>3. OperationFine(s, cl, P, t, k)
    BY <2>1 DEF OperationsOK
  <2> QED BY <2>2, <2>3 DEF OperationFine
<1>7. PendingTasks(u) = PendingTasks(s)
  BY <1>1, <1>2 DEF PendingTasks
<1> QED BY <1>3, <1>4, <1>5, <1>6, <1>7 DEF RecordsOK, HandlesOK

LEMMA PendingTasksAreFinite ==
    ASSUME NEW s, StateOK(s)
    PROVE  IsFiniteSet(PendingTasks(s)) /\ Cardinality(PendingTasks(s)) \in Nat
<1>1. s.created \in Nat /\ PendingTasks(s) \subseteq 1 .. s.created
  BY DEF StateOK, PendingTasks
<1>2. IsFiniteSet(1 .. s.created)
  BY <1>1, FS_Interval
<1> QED BY <1>1, <1>2, FS_Subset, FS_CardinalityType

(* leaveQueuedOrExecutingStage(). *)
Frees(s, u, t) ==
    /\ DOMAIN u.workers = DOMAIN s.workers
    /\ \A w \in DOMAIN s.workers :
          /\ u.workers[w].wait = s.workers[w].wait
          /\ u.workers[w].terminating = s.workers[w].terminating
          /\ IF s.workers[w].task = t THEN u.workers[w].task = None
             ELSE u.workers[w] = s.workers[w]

LEMMA MovesFields ==
    ASSUME NEW s, NEW u, NEW t \in DOMAIN s.tasks, NEW w, Moves(s, u, t, w), StateOK(s)
    PROVE  /\ SameRecords(s, u) /\ u.handles = s.handles /\ u.drains = s.drains
           /\ DOMAIN u.tasks = DOMAIN s.tasks
           /\ \A x \in DOMAIN s.tasks \ {t} : u.tasks[x] = s.tasks[x]
           /\ u.tasks[t].worker = w
           /\ \A x \in DOMAIN s.tasks :
                 /\ Pending(u, x) <=> Pending(s, x)
                 /\ u.tasks[x].class = s.tasks[x].class
<1>1. \A x \in DOMAIN s.tasks : IsTask(s.tasks[x])
  BY DEF StateOK, TaskOK
<1>2. \A x \in DOMAIN s.tasks : SameTask(s.tasks[x], u.tasks[x])
  BY <1>1 DEF Moves, OnlyTask, SameTask
<1> QED BY <1>2 DEF Moves, OnlyTask, SameTask, SameRecords, SameScalars, Pending

MovesOnly(s, u, t, w) ==
    /\ SameRecords(s, u) /\ u.handles = s.handles /\ u.drains = s.drains
    /\ DOMAIN u.tasks = DOMAIN s.tasks
    /\ \A x \in DOMAIN s.tasks \ {t} : u.tasks[x] = s.tasks[x]
    /\ u.tasks[t].worker = w

LEMMA MovesNothingElse ==
    ASSUME NEW s, NEW u, NEW t \in DOMAIN s.tasks, NEW w, Moves(s, u, t, w), StateOK(s)
    PROVE  MovesOnly(s, u, t, w)
<1>1. \A x \in DOMAIN s.tasks : IsTask(s.tasks[x])
  BY DEF StateOK, TaskOK
<1>2. \A x \in DOMAIN s.tasks : SameTask(s.tasks[x], u.tasks[x])
  BY <1>1 DEF Moves, OnlyTask, SameTask
<1> QED BY <1>2 DEF MovesOnly, Moves, OnlyTask, SameRecords, SameScalars

LEMMA LeaveAccounts ==
    ASSUME NEW s, StateOK(s), Accounted(s, {}, {}), NEW t \in DOMAIN s.tasks, Pending(s, t),
           NEW b, NEW u, u = leaveQueuedOrExecutingStage(s, t, b)
    PROVE  /\ StateOK(u) /\ Accounted(u, {t}, {})
           /\ Moves(s, u, t, None) /\ Frees(s, u, t)
<1> DEFINE w == s.tasks[t].worker
           c == s.tasks[t].class
           K == DOMAIN s.tasks[t].operations
<1>1. /\ IsState(s) /\ s.panicked = FALSE /\ TaskOK(s.tasks[t]) /\ t # None /\ t \in Nat
      /\ \A i \in DOMAIN s.inv : s.inv[i] \in Invocation
      /\ K \in SUBSET InvocationKeys
  BY NamesDiffer DEF StateOK, TaskOK
<1>2. /\ Invocations(c, K) \subseteq DOMAIN s.inv /\ K # {} /\ c \in s.classes
  BY DEF Accounted, TasksOK
<1>3. {} \cup {t} = {t} /\ t \in DOMAIN s.tasks \ {}
  OBVIOUS
<1>4. CASE w = None
  <2> DEFINE v == removeQueuedFromInvocation(s, t, K)
  <2>1. u = Then(v, LAMBDA z : removeIfEmpty(z, c, K))
    BY <1>1, <1>4 DEF leaveQueuedOrExecutingStage, Unless, OperationKeys, Pending
  <2>2. ASSUME NEW i \in Invocations(c, K) PROVE t \in s.inv[i].queued
    <3>1. i[1] = c /\ i[2] \in K /\ i \in DOMAIN s.inv
      BY <1>2 DEF Invocations
    <3> QED BY <1>4, <3>1 DEF Accounted, QueuesOK, Queues
  <2>3. Dequeues(s, v, t, c, K)
    BY <1>1, <1>2, <2>2, RemoveQueuedIs
  <2> HIDE DEF v
  <2>4. StateOK(v) /\ Accounted(v, {t}, Invocations(c, K))
    <3> HIDE DEF c, K
    <3>1. c = s.tasks[t].class /\ K = DOMAIN s.tasks[t].operations
      BY DEF c, K
    <3> QED BY <1>3, <1>4, <2>3, <3>1, DequeuesAccounts
  <2>5. u = removeIfEmpty(v, c, K)
    BY <2>1, <2>4 DEF Then, StateOK
  <2>6. Removes(v, u, c, K)
    BY <2>4, <2>5, RemovalFields DEF StateOK
  <2>7. StateOK(u) /\ Accounted(u, {t}, {})
    <3>1. Invocations(c, K) \ Invocations(c, K) = {}
      OBVIOUS
    <3> QED BY <2>4, <2>6, <3>1, RemovalKeepsAccounts
  <2>8. SameButInvocations(s, v) /\ SameButInvocations(v, u)
    BY <2>3, <2>6 DEF Dequeues, Removes
  <2>9. u.tasks = s.tasks /\ u.workers = s.workers /\ SameScalars(s, u)
    BY <2>8 DEF SameButInvocations, SameScalars
  <2>10. Moves(s, u, t, None)
    BY <1>1, <1>4, <2>9 DEF Moves, OnlyTask, SameTask, TaskOK
  <2>11. \A x \in DOMAIN s.workers : s.workers[x].task # t
    <3> SUFFICES ASSUME NEW x \in DOMAIN s.workers, s.workers[x].task = t PROVE FALSE
      OBVIOUS
    <3>1. s.tasks[t].worker = x
      BY <1>1, TaskOfWorker DEF Accounted
    <3> QED BY <1>4, <3>1, NamesDiffer DEF StateOK
  <2> QED BY <2>7, <2>9, <2>10, <2>11 DEF Frees
<1>5. CASE w # None
  <2> DEFINE k == IF b THEN LowestCommonAncestor(K) ELSE Root
  <2>1. w \in DOMAIN s.workers /\ w \in Workers /\ s.workers[w].task = t
    BY <1>5, WorkerOfTask DEF Accounted
  <2>2. c = WorkerClass[w] /\ s.workers[w].last = None
    BY <1>1, <2>1, TaskOfWorker DEF Accounted
  <2>3. k \in K \cup {Root}
    BY <1>2, LastIs
  <2>4. k \in InvocationKeys
    BY <1>1, <2>3, NamesDiffer
  <2>5. <<c, k>> \in DOMAIN s.inv
    <3>1. <<c, Root>> \in DOMAIN s.inv
      BY <1>2 DEF Accounted, RootsOK
    <3>2. k \in K => <<c, k>> \in Invocations(c, K)
      BY DEF Invocations
    <3> QED BY <1>2, <2>3, <3>1, <3>2
  <2>6. \A i \in DOMAIN s.inv : s.inv[i].executing[w] >= Share(i, c, K)
    <3> SUFFICES ASSUME NEW i \in DOMAIN s.inv PROVE s.inv[i].executing[w] >= Share(i, c, K)
      OBVIOUS
    <3>1. s.inv[i].executing[w] = Share(i, c, K)
      BY <1>1, <2>1, <2>2 DEF Accounted, ExecutingOK, Executes
    <3>2. Share(i, c, K) \in Nat
      BY <1>1, ShareIsNatural
    <3> QED BY <3>1, <3>2
  <2> HIDE DEF w, c, K
  <2>7. /\ s.tasks[t].worker = w /\ s.tasks[t].class = c /\ K = DOMAIN s.tasks[t].operations
        /\ k = IF b THEN LowestCommonAncestor(K) ELSE Root
    BY DEF w, c, K
  <2> HIDE DEF k
  <2>8. PICK v : Unassigns(s, v, w, t, k) /\ Removes(v, u, c, K)
    BY <1>2, <1>5, <2>1, <2>2, <2>4, <2>5, <2>6, <2>7, LeaveExecutingIs
  <2>9. StateOK(v) /\ Accounted(v, {t}, Invocations(c, K))
    <3> DEFINE X == {}
    <3>1. Accounted(s, X, {}) /\ t \in DOMAIN s.tasks \ X
      OBVIOUS
    <3>2. X \cup {t} = {t}
      OBVIOUS
    <3> HIDE DEF X
    <3>3. StateOK(v) /\ Accounted(v, X \cup {t}, Invocations(c, K))
      <4>1. MayUnassign(s, X, w, t, c, K, k)
        BY <2>1, <2>2, <2>4, <2>5, <2>7, <3>1 DEF MayUnassign
      <4> QED BY <2>8, <4>1, UnassignsAccounts
    <3> QED BY <3>2, <3>3
  <2>10. StateOK(u) /\ Accounted(u, {t}, {})
    <3>1. Invocations(c, K) \ Invocations(c, K) = {}
      OBVIOUS
    <3> QED BY <2>8, <2>9, <3>1, RemovalKeepsAccounts
  <2>11. /\ Moves(s, v, t, None) /\ OnlyWorker(s, v, w)
         /\ v.workers[w] = WorkerWith(s.workers[w], None, k)
         /\ SameButInvocations(v, u)
    BY <2>8 DEF Unassigns, Removes
  <2>12. Moves(s, u, t, None)
    BY <2>11 DEF Moves, SameButInvocations, SameScalars, OnlyTask
  <2>13. \A x \in DOMAIN s.workers : s.workers[x].task = t => x = w
    <3> SUFFICES ASSUME NEW x \in DOMAIN s.workers, s.workers[x].task = t PROVE x = w
      OBVIOUS
    <3>1. s.tasks[t].worker = x
      BY <1>1, TaskOfWorker DEF Accounted
    <3> QED BY <2>7, <3>1
  <2>14. u.workers = v.workers
    BY <2>11 DEF SameButInvocations
  <2>15. Frees(s, u, t)
    BY <2>1, <2>11, <2>13, <2>14 DEF Frees, OnlyWorker, WorkerWith
  <2> QED BY <2>10, <2>12, <2>15
<1> QED BY <1>4, <1>5

LEMMA LeaveOK ==
    ASSUME NEW s, NEW cl, NEW n, NEW P, Halfway(s, {}, {}, n, cl, P),
           NEW t \in DOMAIN s.tasks, Pending(s, t),
           NEW b, NEW u, u = leaveQueuedOrExecutingStage(s, t, b)
    PROVE  /\ Halfway(u, {t}, {}, n, cl, P)
           /\ Moves(s, u, t, None) /\ Frees(s, u, t)
<1>1. /\ StateOK(s) /\ StateOK(u) /\ Accounted(u, {t}, {})
      /\ Moves(s, u, t, None) /\ Frees(s, u, t)
  BY LeaveAccounts DEF Halfway
<1>2. RecordsOK(u, cl, P) /\ HandlesOK(u, n)
  BY <1>1, MovesFields, RecordsStep DEF Halfway
<1>3. WaitingOK(u, {t})
  <2> SUFFICES ASSUME NEW w \in DOMAIN s.workers
               PROVE  /\ u.workers[w].wait = "queued" =>
                            /\ u.workers[w].task = None
                            /\ ~isDrained(u, w)
                            /\ NothingQueued(u, {t}, WorkerClass[w])
                      /\ u.workers[w].wait = "drained" => isDrained(u, w)
                      /\ u.workers[w].wait \in {"drained", "undrained"} => u.workers[w].task = None
    BY <1>1 DEF WaitingOK, Frees
  <2>1. /\ u.workers[w].wait = s.workers[w].wait
        /\ s.workers[w].task = None => u.workers[w].task = None
        /\ isDrained(u, w) <=> isDrained(s, w)
    BY <1>1, MovesFields DEF Frees, isDrained
  <2>2. NothingQueued(s, {}, WorkerClass[w]) => NothingQueued(u, {t}, WorkerClass[w])
    <3>1. /\ DOMAIN u.tasks = DOMAIN s.tasks
          /\ \A x \in DOMAIN s.tasks \ {t} :
                u.tasks[x] = s.tasks[x] /\ (Pending(u, x) <=> Pending(s, x))
      BY <1>1, MovesFields, ZenonT(60)
    <3> QED BY <3>1 DEF NothingQueued
  <2>3. /\ s.workers[w].wait = "queued" =>
              s.workers[w].task = None /\ ~isDrained(s, w) /\ NothingQueued(s, {}, WorkerClass[w])
        /\ s.workers[w].wait = "drained" => isDrained(s, w)
        /\ s.workers[w].wait \in {"drained", "undrained"} => s.workers[w].task = None
    BY DEF Halfway, WaitingOK
  <2> QED BY <2>1, <2>2, <2>3
<1> QED BY <1>1, <1>2, <1>3 DEF Halfway

-----------------------------------------------------------------------------
LEMMA CompletesIs ==
    ASSUME NEW s, StateOK(s), NEW t \in DOMAIN s.tasks, NEW f, NEW e, NEW h,
           NEW z, Records(s, z, t, f, e, h), NEW u, u = markCompleted(z, t)
    PROVE  Completes(s, u, t, f, e, h)
<1> DEFINE ops == [k \in DOMAIN s.tasks[t].operations |->
                      CompletedOperation(s.tasks[t].operations[k])]
           x == [z.tasks[t] EXCEPT !.learner = NoLearner, !.operations = ops]
           y == [z.tasks EXCEPT ![t] = x]
           d == Restrict(z.inFlightDeduplicationMap,
                         DOMAIN z.inFlightDeduplicationMap \ {z.tasks[t].action})
<1>1. /\ IsState(z) /\ IsTask(z.tasks[t]) /\ DOMAIN z.tasks = DOMAIN s.tasks
      /\ z.tasks[t].operations = s.tasks[t].operations
      /\ z.tasks[t].action = s.tasks[t].action
      /\ z.inFlightDeduplicationMap = s.inFlightDeduplicationMap
  BY DEF Records, OnlyTask
<1>2. u = [z EXCEPT !.tasks = y, !.inFlightDeduplicationMap = d]
  <2>1. u = [z EXCEPT !.tasks[t].learner = NoLearner,
                      !.inFlightDeduplicationMap = d,
                      !.tasks[t].operations = ops]
    BY <1>1 DEF markCompleted, CompletedOperation
  <2> HIDE DEF ops, d
  <2> DEFINE y1 == [z.tasks EXCEPT ![t].learner = NoLearner]
             y2 == [y1 EXCEPT ![t].operations = ops]
  <2>2. y2 = y
    <3>1. DOMAIN y2 = DOMAIN y /\ \A j \in DOMAIN y \ {t} : y2[j] = y[j]
      OBVIOUS
    <3>2. y2[t] = [[z.tasks[t] EXCEPT !.learner = NoLearner] EXCEPT !.operations = ops]
      BY <1>1
    <3>3. y[t] = x
      BY <1>1
    <3>4. x = [[z.tasks[t] EXCEPT !.learner = NoLearner] EXCEPT !.operations = ops]
      BY <1>1 DEF IsTask, TaskFields
    <3>5. \A j \in DOMAIN y : y2[j] = y[j]
      BY <3>1, <3>2, <3>3, <3>4
    <3>6. y2 = [j \in DOMAIN y2 |-> y2[j]] /\ y = [j \in DOMAIN y |-> y[j]]
      OBVIOUS
    <3> HIDE DEF y2, y
    <3> QED BY <3>1, <3>5, <3>6
  <2>3. u = [z EXCEPT !.tasks = y2, !.inFlightDeduplicationMap = d]
    <3> HIDE DEF x, y
    <3> QED BY <1>1, <2>1 DEF IsState, Fields
  <2> QED BY <2>2, <2>3
<1>3. /\ DOMAIN d = DOMAIN s.inFlightDeduplicationMap \ {s.tasks[t].action}
      /\ \A a \in DOMAIN d : d[a] = s.inFlightDeduplicationMap[a]
  BY <1>1 DEF Restrict
<1>4. DOMAIN y = DOMAIN s.tasks /\ y[t] = x /\ \A j \in DOMAIN s.tasks \ {t} : y[j] = z.tasks[j]
  BY <1>1
<1> HIDE DEF y, d
<1>5. /\ IsState(u) /\ u.tasks = y /\ u.inFlightDeduplicationMap = d
      /\ u.classes = z.classes /\ u.created = z.created /\ u.inv = z.inv /\ u.workers = z.workers
      /\ u.drains = z.drains /\ u.panicked = z.panicked /\ u.handles = z.handles
  BY <1>1, <1>2 DEF IsState, Fields
<1> HIDE DEF ops
<1>6. /\ IsTask(x) /\ x.action = z.tasks[t].action /\ x.class = z.tasks[t].class
      /\ x.learner = NoLearner /\ x.worker = z.tasks[t].worker
      /\ x.retryCount = z.tasks[t].retryCount /\ x.operations = ops
      /\ x.failed = z.tasks[t].failed /\ x.event = z.tasks[t].event
  BY <1>1 DEF IsTask, TaskFields
<1> HIDE DEF x
<1>7. OnlyTask(s, u, t)
  BY <1>4, <1>5 DEF Records, OnlyTask
<1>8. /\ u.tasks[t] = x
      /\ u.tasks[t].operations = [k \in DOMAIN s.tasks[t].operations |->
                                   CompletedOperation(s.tasks[t].operations[k])]
  BY <1>4, <1>5, <1>6 DEF ops
<1> QED BY <1>3, <1>5, <1>6, <1>7, <1>8 DEF Completes, Records

LEMMA CompletedOperationIs ==
    ASSUME NEW o \in Operation
    PROVE  LET p == CompletedOperation(o) IN
           /\ p \in Operation
           /\ p.waiters = o.waiters /\ ~p.mayExistWithoutWaiters
           /\ (o.cleanup <=> o.waiters = 0 /\ ~o.mayExistWithoutWaiters)
                 => (p.cleanup <=> p.waiters = 0 /\ ~p.mayExistWithoutWaiters)
  BY DEF CompletedOperation, maybeStartCleanup, Operation

LEMMA CompletesAccounts ==
    ASSUME NEW s, NEW u, NEW t, NEW f \in BOOLEAN, NEW e \in BOOLEAN, NEW h \in Int,
           MayComplete(s, t), Completes(s, u, t, f, e, h)
    PROVE  StateOK(u) /\ Accounted(u, {}, {})
<1> t \in DOMAIN s.tasks /\ StateOK(s) /\ Accounted(s, {t}, {})
  BY DEF MayComplete
<1>1. /\ IsState(u) /\ OnlyTask(s, u, t)
      /\ u.classes = s.classes /\ u.created = s.created
      /\ u.inv = s.inv /\ u.workers = s.workers
      /\ u.drains = s.drains /\ u.panicked = s.panicked /\ u.handles = h
      /\ IsTask(u.tasks[t])
      /\ u.tasks[t].action = s.tasks[t].action /\ u.tasks[t].class = s.tasks[t].class
      /\ u.tasks[t].learner = NoLearner /\ u.tasks[t].worker = s.tasks[t].worker
      /\ u.tasks[t].retryCount = s.tasks[t].retryCount
      /\ u.tasks[t].operations = [k \in DOMAIN s.tasks[t].operations |->
                                   CompletedOperation(s.tasks[t].operations[k])]
      /\ u.tasks[t].failed = f /\ u.tasks[t].event = e
  BY DEF Completes
<1>2. StateOK(u)
  <2>1. TaskOK(s.tasks[t])
    BY DEF StateOK
  <2>2. NoLearner \in Learner
    BY LargestIsLargest DEF NoLearner, Learner
  <2>3. \A k \in DOMAIN s.tasks[t].operations :
           CompletedOperation(s.tasks[t].operations[k]) \in Operation
    BY <2>1, CompletedOperationIs DEF TaskOK
  <2>4. /\ DOMAIN u.tasks[t].operations = DOMAIN s.tasks[t].operations
        /\ u.tasks[t].operations = [k \in DOMAIN u.tasks[t].operations |-> u.tasks[t].operations[k]]
        /\ \A k \in DOMAIN s.tasks[t].operations : u.tasks[t].operations[k] \in Operation
    BY <1>1, <2>3
  <2>5. TaskOK(u.tasks[t])
    BY <1>1, <2>1, <2>2, <2>4 DEF TaskOK
  <2>6. DOMAIN u.tasks = DOMAIN s.tasks /\ \A x \in DOMAIN u.tasks : TaskOK(u.tasks[x])
    BY <1>1, <2>5 DEF StateOK, OnlyTask
  <2> QED BY <1>1, <2>6 DEF StateOK
<1>3. /\ Pending(s, t) /\ s.tasks[t].worker = None /\ DOMAIN s.tasks[t].operations # {}
  BY DEF Accounted, TasksOK
<1>4. ~Pending(u, t)
  BY <1>1 DEF Pending
<1>5. CountsExecuting(s, u, None) /\ CountsIdle(s, u, None) /\ None \notin DOMAIN u.workers
  BY <1>1, NoWorkerConcerned
<1>6. OnlyConcerns(s, u, t, None)
  BY <1>1, <1>3, <1>5 DEF OnlyConcerns, OnlyTask
<1>7. TaskFine(u, {}, t)
  BY <1>1, <1>3, <1>4 DEF TaskFine
<1>8. CountsQueued(s, u, {}, t)
  <2>1. \A i \in DOMAIN s.inv : t \notin s.inv[i].queued /\ ~Queues(u, t, i)
    BY <1>4 DEF Accounted, QueuesOK, Queues
  <2> QED BY <1>1, <2>1 DEF CountsQueued
<1>9. StillUsed(s, u, {t}, {}, {}, {}, t, None)
  <2>1. None \notin DOMAIN s.workers
    BY <1>1, <1>5
  <2>2. Touched(s, {t}, t, None) = {}
    BY <2>1 DEF Touched
  <2> QED BY <2>2 DEF StillUsed
<1>10. Accounted(u, {}, {})
  BY <1>2, <1>5, <1>6, <1>7, <1>8, <1>9, AccountsStep
<1> QED BY <1>2, <1>10

CompletesWith(s, u, t, f, e, d, n, cl, P) ==
    /\ t \in DOMAIN s.tasks /\ f \in BOOLEAN /\ e \in BOOLEAN /\ d \in Int /\ n \in Int
    /\ Halfway(s, {t}, {}, n, cl, P) /\ Completes(s, u, t, f, e, s.handles + d)
    /\ s.tasks[t].action # None => f \/ e

LEMMA CompletesOK ==
    ASSUME NEW s, NEW u, NEW t, NEW f, NEW e, NEW d, NEW n, NEW cl, NEW P,
           CompletesWith(s, u, t, f, e, d, n, cl, P)
    PROVE  Halfway(u, {}, {}, n + d + 1, cl, P)
<1> /\ t \in DOMAIN s.tasks /\ f \in BOOLEAN /\ e \in BOOLEAN /\ d \in Int /\ n \in Int
    /\ Halfway(s, {t}, {}, n, cl, P) /\ Completes(s, u, t, f, e, s.handles + d)
    /\ s.tasks[t].action # None => f \/ e
  BY DEF CompletesWith
<1>1. StateOK(s) /\ Accounted(s, {t}, {}) /\ s.handles \in Int
  BY DEF Halfway, StateOK
<1>2. StateOK(u) /\ Accounted(u, {}, {})
  <2> DEFINE h == s.handles + d
  <2>1. h \in Int /\ Completes(s, u, t, f, e, h)
    BY <1>1
  <2> HIDE DEF h
  <2>2. MayComplete(s, t)
    BY <1>1 DEF MayComplete
  <2> QED BY <2>1, <2>2, CompletesAccounts
<1>3. /\ u.workers = s.workers /\ u.drains = s.drains /\ u.handles = s.handles + d
      /\ DOMAIN u.tasks = DOMAIN s.tasks
      /\ \A x \in DOMAIN s.tasks \ {t} : u.tasks[x] = s.tasks[x]
      /\ u.tasks[t].action = s.tasks[t].action
      /\ u.tasks[t].learner = NoLearner
      /\ u.tasks[t].operations = [k \in DOMAIN s.tasks[t].operations |->
                                   CompletedOperation(s.tasks[t].operations[k])]
      /\ u.tasks[t].failed = f /\ u.tasks[t].event = e
      /\ DOMAIN u.inFlightDeduplicationMap
            = DOMAIN s.inFlightDeduplicationMap \ {s.tasks[t].action}
      /\ \A a \in DOMAIN u.inFlightDeduplicationMap :
            u.inFlightDeduplicationMap[a] = s.inFlightDeduplicationMap[a]
  BY DEF Completes, OnlyTask
<1>4. /\ Pending(s, t) /\ ~Pending(u, t)
      /\ \A x \in DOMAIN s.tasks \ {t} : Pending(u, x) <=> Pending(s, x)
  BY <1>1, <1>3 DEF Pending, Accounted, TasksOK
<1>5. WaitingOK(u, {})
  <2>1. \A c : NothingQueued(s, {t}, c) => NothingQueued(u, {}, c)
    BY <1>3, <1>4 DEF NothingQueued
  <2>2. \A w : isDrained(u, w) <=> isDrained(s, w)
    BY <1>3 DEF isDrained
  <2> QED BY <1>3, <2>1, <2>2 DEF Halfway, WaitingOK
<1>6. HandlesOK(u, n + d + 1)
  <2>1. PendingTasks(u) = PendingTasks(s) \ {t} /\ t \in PendingTasks(s)
    BY <1>3, <1>4 DEF PendingTasks
  <2>2. /\ IsFiniteSet(PendingTasks(s)) /\ Cardinality(PendingTasks(s)) \in Nat
    BY <1>1, PendingTasksAreFinite
  <2>3. Cardinality(PendingTasks(u)) = Cardinality(PendingTasks(s)) - 1
    BY <2>1, <2>2, FS_RemoveElement
  <2>4. s.handles = Cardinality(PendingTasks(s)) + n
    BY DEF Halfway, HandlesOK
  <2>5. u.handles = Cardinality(PendingTasks(u)) + (n + d + 1)
    BY <1>3, <2>2, <2>3, <2>4
  <2> QED BY <2>5 DEF HandlesOK
<1>7. DeduplicationOK(u)
  <2>1. DeduplicationOK(s)
    BY DEF Halfway, RecordsOK
  <2>2. ASSUME NEW a \in DOMAIN u.inFlightDeduplicationMap
        PROVE  LET x == u.inFlightDeduplicationMap[a] IN
               a \in Actions /\ x \in DOMAIN u.tasks /\ Pending(u, x) /\ u.tasks[x].action = a
    <3> DEFINE x == s.inFlightDeduplicationMap[a]
    <3>1. a \in DOMAIN s.inFlightDeduplicationMap /\ a # s.tasks[t].action
      BY <1>3
    <3>2. a \in Actions /\ x \in DOMAIN s.tasks /\ Pending(s, x) /\ s.tasks[x].action = a
      BY <2>1, <3>1 DEF DeduplicationOK
    <3>3. x # t
      BY <3>1, <3>2
    <3> QED BY <1>3, <1>4, <3>2, <3>3
  <2>3. ASSUME NEW x \in DOMAIN u.tasks, Pending(u, x), u.tasks[x].action # None
        PROVE  /\ u.tasks[x].action \in DOMAIN u.inFlightDeduplicationMap
               /\ u.inFlightDeduplicationMap[u.tasks[x].action] = x
    <3> DEFINE a == s.tasks[x].action
    <3>1. x # t /\ x \in DOMAIN s.tasks /\ Pending(s, x) /\ u.tasks[x].action = a /\ a # None
      BY <1>3, <1>4, <2>3
    <3>2. a \in DOMAIN s.inFlightDeduplicationMap /\ s.inFlightDeduplicationMap[a] = x
      BY <2>1, <3>1 DEF DeduplicationOK
    <3>3. a # s.tasks[t].action
      BY <1>4, <2>1, <3>1, <3>2 DEF DeduplicationOK
    <3>4. a \in DOMAIN u.inFlightDeduplicationMap
      BY <1>3, <3>2, <3>3
    <3> QED BY <1>3, <3>1, <3>2, <3>4
  <2> QED BY <2>2, <2>3 DEF DeduplicationOK
<1>8. LearnersOK(u)
  <2>1. LearnersOK(s)
    BY DEF Halfway, RecordsOK
  <2> QED BY <1>3, <1>4, <2>1 DEF LearnersOK, NoLearner
<1>9. ClientsOK(u, cl)
  <2>1. ClientsOK(s, cl)
    BY DEF Halfway, RecordsOK
  <2>2. \A x \in DOMAIN s.tasks :
           /\ DOMAIN u.tasks[x].operations = DOMAIN s.tasks[x].operations
           /\ u.tasks[x].action = s.tasks[x].action
    BY <1>3
  <2> QED BY <1>3, <2>1, <2>2 DEF ClientsOK
<1>10. OperationsOK(u, cl, P)
  <2> SUFFICES ASSUME NEW x \in DOMAIN s.tasks, NEW k \in DOMAIN u.tasks[x].operations
               PROVE  OperationFine(u, cl, P, x, k)
    BY <1>3 DEF OperationsOK
  <2>1. k \in DOMAIN s.tasks[x].operations
    BY <1>3
  <2>2. OperationFine(s, cl, P, x, k)
    BY <2>1 DEF Halfway, RecordsOK, OperationsOK
  <2>3. CASE x = t
    <3> DEFINE o == s.tasks[t].operations[k]
               p == u.tasks[t].operations[k]
    <3>1. p = CompletedOperation(o) /\ o \in Operation
      <4>1. TaskOK(s.tasks[t])
        BY <1>1 DEF StateOK
      <4> QED BY <1>3, <2>1, <2>3, <4>1 DEF TaskOK
    <3> HIDE DEF o, p
    <3>2. /\ p.waiters = o.waiters /\ ~p.mayExistWithoutWaiters
          /\ (o.cleanup <=> o.waiters = 0 /\ ~o.mayExistWithoutWaiters)
                 => (p.cleanup <=> p.waiters = 0 /\ ~p.mayExistWithoutWaiters)
      BY <3>1, CompletedOperationIs
    <3>3. /\ o.waiters = Cardinality(Waiters(cl, t, k))
          /\ <<t, k>> \notin P => (o.cleanup <=> o.waiters = 0 /\ ~o.mayExistWithoutWaiters)
      BY <2>2, <2>3 DEF OperationFine, o
    <3>4. /\ p.waiters = Cardinality(Waiters(cl, t, k))
          /\ <<t, k>> \notin P => (p.cleanup <=> p.waiters = 0 /\ ~p.mayExistWithoutWaiters)
          /\ p.mayExistWithoutWaiters <=> Pending(u, t) /\ u.tasks[t].action = None
      BY <1>4, <3>2, <3>3
    <3> QED BY <2>3, <3>4 DEF OperationFine, p
  <2>4. CASE x # t
    BY <1>3, <1>4, <2>2, <2>4 DEF OperationFine
  <2> QED BY <2>3, <2>4
<1> QED BY <1>2, <1>5, <1>6, <1>7, <1>8, <1>9, <1>10 DEF Halfway, RecordsOK

(* fail(). *)
Fails(s, u, t) ==
    /\ u.created = s.created /\ u.classes = s.classes /\ u.drains = s.drains
    /\ OnlyTask(s, u, t) /\ ~Pending(u, t)
    /\ DOMAIN u.tasks[t].operations = DOMAIN s.tasks[t].operations
    /\ Frees(s, u, t)

LEMMA FailOK ==
    ASSUME NEW s, NEW cl, NEW n \in Int, NEW P, Halfway(s, {}, {}, n, cl, P),
           NEW t \in DOMAIN s.tasks, NEW b, NEW u, u = fail(s, t, b)
    PROVE  Halfway(u, {}, {}, n, cl, P) /\ Fails(s, u, t)
<1>0. StateOK(s) /\ t # None
  BY NamesDiffer DEF Halfway, StateOK
<1>1. CASE ~Pending(s, t)
  <2>1. u = s
    BY <1>1 DEF fail, Pending
  <2>2. \A w \in DOMAIN s.workers : s.workers[w].task # t
    BY <1>0, <1>1, TaskOfWorker DEF Halfway, Accounted
  <2> QED BY <1>1, <2>1, <2>2 DEF Fails, OnlyTask, Frees
<1>2. CASE Pending(s, t)
  <2> DEFINE v == leaveQueuedOrExecutingStage(s, t, b)
             z == [releaseHandle(v) EXCEPT !.tasks[t].failed = TRUE]
  <2>1. Halfway(v, {t}, {}, n, cl, P) /\ Moves(s, v, t, None) /\ Frees(s, v, t)
    BY <1>2, LeaveOK
  <2>2. u = Then(v, LAMBDA y : markCompleted([releaseHandle(y) EXCEPT !.tasks[t].failed = TRUE], t))
    BY <1>2 DEF fail, Pending
  <2> HIDE DEF v
  <2>3. /\ StateOK(v) /\ IsState(v) /\ v.panicked = FALSE /\ t \in DOMAIN v.tasks /\ v.handles \in Int
        /\ TaskOK(v.tasks[t]) /\ IsTask(v.tasks[t]) /\ v.tasks[t].event \in BOOLEAN
    BY <2>1 DEF Halfway, StateOK, Moves, OnlyTask, TaskOK
  <2>4. u = markCompleted(z, t)
    BY <2>2, <2>3 DEF Then
  <2>5. Records(v, z, t, TRUE, v.tasks[t].event, v.handles - 1)
    <3> DEFINE x == [v.tasks[t] EXCEPT !.failed = TRUE]
               y == [v.tasks EXCEPT ![t] = x]
    <3>1. z = [v EXCEPT !.handles = v.handles - 1, !.tasks = y]
      BY <2>3 DEF releaseHandle, IsState, Fields
    <3>2. DOMAIN y = DOMAIN v.tasks /\ y[t] = x /\ \A j \in DOMAIN v.tasks \ {t} : y[j] = v.tasks[j]
      BY <2>3
    <3>3. /\ IsTask(x) /\ x.action = v.tasks[t].action /\ x.class = v.tasks[t].class
          /\ x.learner = v.tasks[t].learner /\ x.worker = v.tasks[t].worker
          /\ x.retryCount = v.tasks[t].retryCount /\ x.operations = v.tasks[t].operations
          /\ x.failed = TRUE /\ x.event = v.tasks[t].event
      BY <2>3 DEF IsTask, TaskFields
    <3> HIDE DEF x, y
    <3>4. /\ IsState(z) /\ z.tasks = y /\ z.handles = v.handles - 1
          /\ z.classes = v.classes /\ z.created = v.created
          /\ z.inFlightDeduplicationMap = v.inFlightDeduplicationMap
          /\ z.inv = v.inv /\ z.workers = v.workers
          /\ z.drains = v.drains /\ z.panicked = v.panicked
      BY <2>3, <3>1 DEF IsState, Fields
    <3> HIDE DEF z
    <3>5. OnlyTask(v, z, t) /\ z.tasks[t] = x
      BY <3>2, <3>4 DEF OnlyTask
    <3> QED BY <3>3, <3>4, <3>5 DEF Records
  <2> HIDE DEF z
  <2>6. Completes(v, u, t, TRUE, v.tasks[t].event, v.handles - 1)
    BY <2>3, <2>4, <2>5, CompletesIs
  <2>7. Halfway(u, {}, {}, n, cl, P)
    <3>1. v.handles - 1 = v.handles + (-1) /\ -1 \in Int /\ n + (-1) + 1 = n
      BY <2>3
    <3>2. Halfway(u, {}, {}, n + (-1) + 1, cl, P)
      <4> DEFINE e == v.tasks[t].event
      <4>1. CompletesWith(v, u, t, TRUE, e, -1, n, cl, P)
        BY <2>1, <2>3, <2>6, <3>1 DEF CompletesWith
      <4> HIDE DEF e
      <4> QED BY <4>1, CompletesOK
    <3> QED BY <3>1, <3>2
  <2>8. /\ v.created = s.created /\ v.classes = s.classes /\ v.drains = s.drains
        /\ OnlyTask(s, v, t) /\ DOMAIN v.tasks[t].operations = DOMAIN s.tasks[t].operations
    BY <2>1 DEF Moves, SameScalars, SameTask
  <2>9. /\ u.created = v.created /\ u.classes = v.classes /\ u.drains = v.drains
        /\ OnlyTask(v, u, t) /\ DOMAIN u.tasks[t].operations = DOMAIN v.tasks[t].operations
        /\ u.workers = v.workers /\ u.tasks[t].learner = NoLearner
    BY <2>6 DEF Completes
  <2>10. OnlyTask(s, u, t) /\ Frees(s, u, t) /\ ~Pending(u, t)
    BY <2>1, <2>8, <2>9 DEF OnlyTask, Frees, Pending
  <2> QED BY <2>7, <2>8, <2>9, <2>10 DEF Fails
<1> QED BY <1>1, <1>2

(* No other worker gets to execute anything. *)
LEMMA FailEvolves ==
    ASSUME NEW s, NEW u, NEW t \in DOMAIN s.tasks, Fails(s, u, t), s.created \in Nat, t # None
    PROVE  Evolves(s, u, {}) /\ Quiet(s, u, {})
<1>1. Evolves(s, u, {})
  BY DEF Fails, Evolves, OnlyTask, Pending
<1>2. Quiet(s, u, {})
  BY DEF Fails, Frees, Quiet
<1> QED BY <1>1, <1>2

-----------------------------------------------------------------------------
(* Assignment of tasks to workers. *)
Assigned(s, u, w, t) ==
    /\ Moves(s, u, t, w) /\ OnlyWorker(s, u, w)
    /\ u.workers[w] = WorkerWith(s.workers[w], t, None)

(* The last invocation of a worker that is not executing anything. *)
LEMMA LastOfWorker ==
    ASSUME NEW s, NEW X, NEW E, StateOK(s), Accounted(s, X, E),
           NEW w \in DOMAIN s.workers, s.workers[w].task = None,
           NEW c, NEW k, c = WorkerClass[w], k = s.workers[w].last
    PROVE  /\ k # None /\ k \in InvocationKeys /\ <<c, k>> \in DOMAIN s.inv
           /\ \A i \in DOMAIN s.inv : s.inv[i].idle >= Share(i, c, {k})
<1>1. k # None /\ <<c, k>> \in DOMAIN s.inv
  BY DEF Accounted, WorkersOK
<1>2. k \in InvocationKeys
  <2>1. s.workers[w] \in Worker(s.created)
    BY DEF StateOK
  <2> QED BY <1>1, <2>1 DEF Worker
<1>3. ASSUME NEW i \in DOMAIN s.inv
      PROVE  s.inv[i].idle >= Share(i, c, {k})
  <2>1. s.inv[i].idle = Cardinality(IdleWorkers(s, i))
    BY DEF Accounted, IdleOK
  <2>2. /\ Cardinality(IdleWorkers(s, i)) \in Nat
        /\ Cardinality(IdleWorkers(s, i)) = 0 <=> IdleWorkers(s, i) = {}
    BY IdleWorkersAreFinite
  <2>3. Share(i, c, {k}) \in {0, 1}
    BY ShareOfOne
  <2>4. Share(i, c, {k}) = 1 => w \in IdleWorkers(s, i)
    BY <1>1 DEF IdleWorkers
  <2> QED BY <2>1, <2>2, <2>3, <2>4
<1> QED BY <1>1, <1>2, <1>3

LEMMA AssignAccounts ==
    ASSUME NEW s, NEW X, NEW E, NEW w \in DOMAIN s.workers, NEW t \in DOMAIN s.tasks,
           StateOK(s), Accounted(s, X \cup {t}, E), t \notin X,
           WorkerClass[w] = s.tasks[t].class,
           s.workers[w].task = None, s.workers[w].wait # "queued",
           Invocations(s.tasks[t].class, DOMAIN s.tasks[t].operations) \subseteq DOMAIN s.inv,
           E \subseteq Invocations(s.tasks[t].class, DOMAIN s.tasks[t].operations),
           NEW u, u = assignUnqueuedTask(s, w, t)
    PROVE  StateOK(u) /\ Accounted(u, X, {}) /\ Assigned(s, u, w, t)
<1> DEFINE c == WorkerClass[w]
           k == s.workers[w].last
           K == DOMAIN s.tasks[t].operations
<1>1. /\ k # None /\ k \in InvocationKeys /\ <<c, k>> \in DOMAIN s.inv
      /\ \A i \in DOMAIN s.inv : s.inv[i].idle >= Share(i, c, {k})
  BY LastOfWorker
<1>2. s.tasks[t].worker = None
  BY DEF Accounted, TasksOK
<1>3. /\ c = WorkerClass[w] /\ k = s.workers[w].last /\ K = DOMAIN s.tasks[t].operations
      /\ s.tasks[t].class = c /\ Invocations(c, K) \subseteq DOMAIN s.inv
      /\ E \subseteq Invocations(c, K)
  OBVIOUS
<1> HIDE DEF c, k, K
<1>4. PICK v : Assigns(s, v, w, t, k) /\ Removes(v, u, c, {k})
  BY <1>1, <1>2, <1>3, AssignUnqueuedIs
<1>5. StateOK(v) /\ Accounted(v, X, {<<c, k>>})
  <2>1. /\ Invocations(c, DOMAIN s.tasks[t].operations) \subseteq DOMAIN s.inv
        /\ E \subseteq Invocations(c, DOMAIN s.tasks[t].operations)
    BY <1>3
  <2>2. MayAssign(s, X, E, w, t, c, k)
    BY <1>3, <2>1 DEF MayAssign
  <2> QED BY <1>4, <2>2, AssignsAccounts
<1>6. StateOK(u) /\ Accounted(u, X, {})
  <2> DEFINE F == {<<c, k>>}
  <2>1. F \ Invocations(c, {k}) = {}
    BY DEF Invocations
  <2>2. Accounted(v, X, F)
    BY <1>5
  <2> HIDE DEF F
  <2>3. StateOK(u) /\ Accounted(u, X, F \ Invocations(c, {k}))
    BY <1>4, <1>5, <2>2, RemovalKeepsAccounts
  <2> QED BY <2>1, <2>3
<1>7. /\ Moves(s, v, t, w) /\ OnlyWorker(s, v, w)
      /\ v.workers[w] = WorkerWith(s.workers[w], t, None)
      /\ SameButInvocations(v, u)
  BY <1>4 DEF Assigns, Removes
<1>8. Assigned(s, u, w, t)
  BY <1>7 DEF Assigned, Moves, OnlyWorker, OnlyTask, SameButInvocations, SameScalars
<1> QED BY <1>6, <1>8

(* Steps that leave it as it is who executes what. *)
SameWork(s, u) ==
    /\ u.classes = s.classes /\ u.inv = s.inv
    /\ DOMAIN u.tasks = DOMAIN s.tasks
    /\ \A t \in DOMAIN s.tasks :
          /\ u.tasks[t].learner = s.tasks[t].learner /\ u.tasks[t].worker = s.tasks[t].worker
          /\ u.tasks[t].class = s.tasks[t].class
          /\ DOMAIN u.tasks[t].operations = DOMAIN s.tasks[t].operations
    /\ DOMAIN u.workers = DOMAIN s.workers
    /\ \A w \in DOMAIN s.workers :
          u.workers[w].task = s.workers[w].task /\ u.workers[w].last = s.workers[w].last

LEMMA SameWorkAccounts ==
    ASSUME NEW s, NEW u, NEW X, NEW E, Accounted(s, X, E), SameWork(s, u)
    PROVE  Accounted(u, X, E)
<1>1. /\ u.classes = s.classes /\ u.inv = s.inv
      /\ DOMAIN u.tasks = DOMAIN s.tasks
      /\ \A t \in DOMAIN s.tasks :
            /\ Pending(u, t) <=> Pending(s, t)
            /\ u.tasks[t].worker = s.tasks[t].worker /\ u.tasks[t].class = s.tasks[t].class
            /\ DOMAIN u.tasks[t].operations = DOMAIN s.tasks[t].operations
      /\ DOMAIN u.workers = DOMAIN s.workers
      /\ \A w \in DOMAIN s.workers :
            u.workers[w].task = s.workers[w].task /\ u.workers[w].last = s.workers[w].last
  BY DEF SameWork, Pending
<1>2. WorkersOK(u)
  <2> SUFFICES ASSUME NEW w \in DOMAIN u.workers PROVE WorkerFine(u, w)
    BY DEF WorkersOK, WorkerFine
  <2>1. w \in DOMAIN s.workers
    BY <1>1
  <2>2. WorkerFine(s, w)
    BY <2>1 DEF Accounted, WorkersOK, WorkerFine
  <2> QED BY <1>1, <2>1, <2>2 DEF WorkerFine
<1>3. TasksOK(u, X)
  <2> SUFFICES ASSUME NEW x \in DOMAIN u.tasks PROVE TaskFine(u, X, x)
    BY DEF TasksOK, TaskFine
  <2>1. x \in DOMAIN s.tasks
    BY <1>1
  <2>2. TaskFine(s, X, x)
    BY <2>1 DEF Accounted, TasksOK, TaskFine
  <2> QED BY <1>1, <2>1, <2>2 DEF TaskFine
<1>4. QueuesOK(u, X)
  <2>1. ASSUME NEW i \in DOMAIN s.inv
        PROVE  {t \in DOMAIN u.tasks \ X : Queues(u, t, i)} = {t \in DOMAIN s.tasks \ X : Queues(s, t, i)}
    BY <1>1 DEF Queues
  <2> QED BY <1>1, <2>1 DEF Accounted, QueuesOK
<1>5. ExecutingOK(u)
  <2>1. \A w \in DOMAIN s.workers : s.workers[w].task # None => s.workers[w].task \in DOMAIN s.tasks
    BY DEF Accounted, WorkersOK
  <2>2. \A w : \A i : Executes(u, w, i) = Executes(s, w, i)
    BY <1>1, <2>1 DEF Executes
  <2> QED BY <1>1, <2>2 DEF Accounted, ExecutingOK
<1>6. IdleOK(u)
  <2>1. \A i : IdleWorkers(u, i) = IdleWorkers(s, i)
    BY <1>1 DEF IdleWorkers
  <2> QED BY <1>1, <2>1 DEF Accounted, IdleOK
<1> QED BY <1>1, <1>2, <1>3, <1>4, <1>5, <1>6 DEF Accounted, ActiveOK, RootsOK

(* The state u is like s, except for what worker w waits for. *)
WaitsFor(s, u, w, x) ==
    /\ SameScalars(s, u) /\ u.tasks = s.tasks /\ u.inv = s.inv /\ OnlyWorker(s, u, w)
    /\ u.workers[w] = [s.workers[w] EXCEPT !.wait = x]

LEMMA WaitsForIs ==
    ASSUME NEW s, IsState(s), NEW w \in DOMAIN s.workers, NEW x,
           NEW u, u = [s EXCEPT !.workers[w].wait = x]
    PROVE  WaitsFor(s, u, w, x)
<1> DEFINE y == [s.workers EXCEPT ![w].wait = x]
<1>1. u = [s EXCEPT !.workers = y]
  BY DEF IsState, Fields
<1>2. /\ DOMAIN y = DOMAIN s.workers /\ \A v \in DOMAIN s.workers \ {w} : y[v] = s.workers[v]
      /\ y[w] = [s.workers[w] EXCEPT !.wait = x]
  OBVIOUS
<1> HIDE DEF y
<1>3. SameScalars(s, u) /\ u.tasks = s.tasks /\ u.inv = s.inv /\ u.workers = y
  BY <1>1 DEF IsState, Fields, SameScalars
<1> QED BY <1>2, <1>3 DEF WaitsFor, OnlyWorker

LEMMA WaitsForAccounts ==
    ASSUME NEW s, NEW X, NEW E, StateOK(s), Accounted(s, X, E), NEW w \in DOMAIN s.workers,
           NEW x \in {"no", "queued", "woken", "drained", "undrained"},
           NEW u, WaitsFor(s, u, w, x)
    PROVE  /\ StateOK(u) /\ Accounted(u, X, E)
           /\ u.workers[w].task = s.workers[w].task /\ u.workers[w].wait = x
           /\ u.workers[w].terminating = s.workers[w].terminating
           /\ u.workers[w].last = s.workers[w].last
<1>1. s.workers[w] \in Worker(s.created)
  BY DEF StateOK
<1>2. /\ u.workers[w] \in Worker(s.created)
      /\ u.workers[w].task = s.workers[w].task /\ u.workers[w].wait = x
      /\ u.workers[w].terminating = s.workers[w].terminating
      /\ u.workers[w].last = s.workers[w].last
  BY <1>1 DEF WaitsFor, Worker
<1>3. StateOK(u)
  <2>1. DOMAIN u.workers = DOMAIN s.workers
    BY DEF WaitsFor, OnlyWorker
  <2>2. \A v \in DOMAIN u.workers : u.workers[v] \in Worker(s.created)
    BY <1>2, <2>1 DEF WaitsFor, OnlyWorker, StateOK
  <2> QED BY <2>1, <2>2 DEF WaitsFor, SameScalars, StateOK
<1>4. SameWork(s, u)
  BY <1>2 DEF WaitsFor, SameScalars, OnlyWorker, SameWork
<1> QED BY <1>2, <1>3, <1>4, SameWorkAccounts

(* schedule(). *)
Schedules(s, u, t) ==
    /\ SameScalars(s, u) /\ SameRecords(s, u) /\ OnlyTask(s, u, t)
    /\ DOMAIN u.workers = DOMAIN s.workers
    /\ \A w \in DOMAIN s.workers : s.workers[w].wait # "queued" => u.workers[w] = s.workers[w]

LEMMA ScheduleOK ==
    ASSUME NEW s, NEW X, NEW E, NEW n, NEW cl, NEW P, NEW t \in DOMAIN s.tasks,
           Halfway(s, X \cup {t}, E, n, cl, P), t \notin X,
           Invocations(s.tasks[t].class, DOMAIN s.tasks[t].operations) \subseteq DOMAIN s.inv,
           E \subseteq Invocations(s.tasks[t].class, DOMAIN s.tasks[t].operations),
           NEW u \in schedule(s, t)
    PROVE  Halfway(u, X, {}, n, cl, P) /\ Schedules(s, u, t)
<1> DEFINE c == s.tasks[t].class
           K == DOMAIN s.tasks[t].operations
           Q == {w \in DOMAIN s.workers : WorkerClass[w] = c /\ s.workers[w].wait = "queued"}
           Best == PreferredWorkers(s, c, K)
<1>1. /\ StateOK(s) /\ Accounted(s, X \cup {t}, E) /\ WaitingOK(s, X \cup {t})
      /\ HandlesOK(s, n) /\ RecordsOK(s, cl, P)
      /\ IsState(s) /\ s.panicked = FALSE
      /\ \A x \in DOMAIN s.tasks : IsTask(s.tasks[x])
  BY DEF Halfway, StateOK, TaskOK
<1>2. /\ Pending(s, t) /\ s.tasks[t].worker = None
  BY <1>1 DEF Accounted, TasksOK
<1>3. Best \subseteq Q /\ (Best = {} => Q = {})
  BY DEF PreferredWorkers
<1>4. CASE Best = {}
  <2>1. u = enqueue(s, t, K)
    BY <1>4 DEF schedule, OperationKeys
  <2>2. \A i \in Invocations(c, K) : t \notin s.inv[i].queued
    BY <1>1 DEF Accounted, QueuesOK
  <2>3. c = s.tasks[t].class /\ K = DOMAIN s.tasks[t].operations
    OBVIOUS
  <2>4. Enqueues(s, u, t, c, K)
    BY <1>1, <2>1, <2>2, EnqueueIs
  <2> HIDE DEF c, K
  <2>5. StateOK(u) /\ Accounted(u, X, {})
    <3>1. Invocations(c, K) \subseteq DOMAIN s.inv /\ E \subseteq Invocations(c, K)
      BY <2>3
    <3> QED BY <1>1, <2>3, <2>4, <3>1, EnqueuesAccounts
  <2>6. /\ u.tasks = s.tasks /\ u.workers = s.workers /\ SameScalars(s, u)
        /\ u.drains = s.drains /\ u.handles = s.handles
    BY <2>4 DEF Enqueues, SameButInvocations, SameScalars
  <2>7. SameRecords(s, u)
    BY <1>1, <2>6 DEF SameRecords, SameTask, SameScalars
  <2>8. RecordsOK(u, cl, P) /\ HandlesOK(u, n)
    BY <1>1, <2>6, <2>7, RecordsStep
  <2>9. WaitingOK(u, X)
    <3>1. \A w : isDrained(u, w) <=> isDrained(s, w)
      BY <2>6 DEF isDrained
    <3>2. ASSUME NEW w \in DOMAIN s.workers, s.workers[w].wait = "queued",
                 NothingQueued(s, X \cup {t}, WorkerClass[w])
          PROVE  NothingQueued(u, X, WorkerClass[w])
      <4>1. c # WorkerClass[w]
        BY <1>3, <1>4, <3>2
      <4> QED BY <2>3, <2>6, <3>2, <4>1 DEF NothingQueued, Pending
    <3> QED BY <1>1, <2>6, <3>1, <3>2 DEF WaitingOK
  <2> QED BY <2>5, <2>6, <2>7, <2>8, <2>9 DEF Halfway, Schedules, OnlyTask
<1>5. CASE Best # {}
  <2>1. PICK w \in Best : u = Then(wakeUp(s, w), LAMBDA z : assignUnqueuedTask(z, w, t))
    BY <1>5 DEF schedule, OperationKeys
  <2>2. w \in DOMAIN s.workers /\ WorkerClass[w] = c /\ s.workers[w].wait = "queued"
    BY <1>3
  <2>3. s.workers[w].task = None
    BY <1>1, <2>2 DEF WaitingOK
  <2> DEFINE a == [s EXCEPT !.workers[w].wait = "woken"]
  <2>4. wakeUp(s, w) = a
    BY <1>1, <2>2 DEF wakeUp, Unless
  <2>5. WaitsFor(s, a, w, "woken")
    BY <1>1, <2>2, WaitsForIs
  <2> HIDE DEF a
  <2>6. /\ StateOK(a) /\ Accounted(a, X \cup {t}, E)
        /\ a.workers[w].task = None /\ a.workers[w].wait = "woken"
        /\ a.workers[w].terminating = s.workers[w].terminating
    BY <1>1, <2>2, <2>3, <2>5, WaitsForAccounts
  <2>7. a.tasks = s.tasks /\ a.inv = s.inv /\ SameScalars(s, a) /\ OnlyWorker(s, a, w)
    BY <2>5 DEF WaitsFor
  <2>8. u = assignUnqueuedTask(a, w, t)
    BY <2>1, <2>4, <2>6 DEF Then, StateOK
  <2>9. w \in DOMAIN a.workers /\ t \in DOMAIN a.tasks
    BY <2>2, <2>7 DEF OnlyWorker
  <2>10. StateOK(u) /\ Accounted(u, X, {}) /\ Assigned(a, u, w, t)
    <3>1. /\ WorkerClass[w] = a.tasks[t].class
          /\ Invocations(a.tasks[t].class, DOMAIN a.tasks[t].operations) \subseteq DOMAIN a.inv
          /\ E \subseteq Invocations(a.tasks[t].class, DOMAIN a.tasks[t].operations)
      BY <2>2, <2>7
    <3>2. a.workers[w].wait # "queued"
      BY <2>6
    <3> HIDE DEF c, K, Q, Best
    <3> QED BY <2>6, <2>8, <2>9, <3>1, <3>2, AssignAccounts
  <2>11. /\ SameRecords(a, u) /\ u.handles = a.handles /\ u.drains = a.drains
         /\ DOMAIN u.tasks = DOMAIN s.tasks
         /\ \A x \in DOMAIN s.tasks \ {t} : u.tasks[x] = s.tasks[x]
         /\ u.tasks[t].worker = w
    <3>1. Moves(a, u, t, w) /\ StateOK(a) /\ t \in DOMAIN a.tasks
      BY <2>6, <2>9, <2>10 DEF Assigned
    <3> HIDE DEF c, K, Q, Best
    <3>2. MovesOnly(a, u, t, w)
      BY <3>1, MovesNothingElse
    <3> QED BY <2>7, <3>2 DEF MovesOnly
  <2>12. SameRecords(s, u) /\ u.handles = s.handles /\ u.drains = s.drains
    BY <2>7, <2>11 DEF SameRecords, SameScalars
  <2>13. RecordsOK(u, cl, P) /\ HandlesOK(u, n)
    BY <1>1, <2>12, RecordsStep
  <2>14. /\ DOMAIN u.workers = DOMAIN s.workers
         /\ \A v \in DOMAIN s.workers \ {w} : u.workers[v] = s.workers[v]
         /\ u.workers[w].wait = "woken"
    BY <2>2, <2>6, <2>7, <2>10 DEF Assigned, OnlyWorker, WorkerWith
  <2>15. WaitingOK(u, X)
    <3>1. \A v \in DOMAIN s.workers \ {w} : isDrained(u, v) <=> isDrained(s, v)
      BY <2>12, <2>14 DEF isDrained
    <3>2. \A d : NothingQueued(s, X \cup {t}, d) => NothingQueued(u, X, d)
      <4>1. w # None
        BY <1>1, <2>2, NamesDiffer DEF StateOK
      <4> QED BY <2>11, <4>1 DEF NothingQueued, Pending
    <3> HIDE DEF Best, Q, c, K
    <3> SUFFICES ASSUME NEW v \in DOMAIN s.workers
                 PROVE  /\ u.workers[v].wait = "queued" =>
                              /\ u.workers[v].task = None
                              /\ ~isDrained(u, v)
                              /\ NothingQueued(u, X, WorkerClass[v])
                        /\ u.workers[v].wait = "drained" => isDrained(u, v)
                        /\ u.workers[v].wait \in {"drained", "undrained"} => u.workers[v].task = None
      BY <2>14 DEF WaitingOK
    <3>3. CASE v = w
      BY <2>14, <3>3
    <3>4. CASE v # w
      BY <1>1, <2>14, <3>1, <3>2, <3>4 DEF WaitingOK
    <3> QED BY <3>3, <3>4
  <2>16. SameScalars(s, u)
    BY <2>7, <2>10 DEF Assigned, Moves, SameScalars
  <2>17. Schedules(s, u, t)
    BY <2>2, <2>11, <2>12, <2>14, <2>16 DEF Schedules, OnlyTask
  <2> QED BY <2>10, <2>13, <2>15, <2>17 DEF Halfway
<1> QED BY <1>4, <1>5

(* The tasks that are queued. *)
LEMMA QueuedTasksAre ==
    ASSUME NEW s, NEW X, NEW E, StateOK(s), Accounted(s, X, E), NEW c
    PROVE  QueuedTasks(s, c) = {t \in DOMAIN s.tasks \ X :
                                   Pending(s, t) /\ s.tasks[t].worker = None /\ s.tasks[t].class = c}
<1>1. ASSUME NEW t \in QueuedTasks(s, c)
      PROVE  /\ t \in DOMAIN s.tasks \ X
             /\ Pending(s, t) /\ s.tasks[t].worker = None /\ s.tasks[t].class = c
  <2>1. PICK i \in DOMAIN s.inv : i[1] = c /\ t \in s.inv[i].queued
    BY DEF QueuedTasks
  <2> QED BY <2>1 DEF Accounted, QueuesOK, Queues
<1>2. ASSUME NEW t \in DOMAIN s.tasks \ X,
             Pending(s, t), s.tasks[t].worker = None, s.tasks[t].class = c
      PROVE  t \in QueuedTasks(s, c)
  <2>1. PICK k : k \in DOMAIN s.tasks[t].operations
    BY DEF Accounted, TasksOK
  <2> DEFINE i == <<c, k>>
  <2>2. i \in DOMAIN s.inv /\ i[1] = c /\ i[2] = k
    BY <1>2, <2>1 DEF Accounted, TasksOK, Invocations
  <2> HIDE DEF i
  <2>3. t \in s.inv[i].queued
    BY <1>2, <2>1, <2>2 DEF Accounted, QueuesOK, Queues
  <2> QED BY <2>2, <2>3 DEF QueuedTasks
<1> QED BY <1>1, <1>2

(* Taking a task off its queues before or after assigning it to a worker   *)
(* makes no difference.                                                    *)
DequeuesOnly(s, u, t, c, K) ==
    \A i \in DOMAIN s.inv :
        /\ u.inv[i] \in Invocation
        /\ u.inv[i].executing = s.inv[i].executing /\ u.inv[i].idle = s.inv[i].idle
        /\ u.inv[i].queued = IF i \in Invocations(c, K) THEN s.inv[i].queued \ {t}
                             ELSE s.inv[i].queued

LEMMA DequeueFields ==
    ASSUME NEW s, NEW u, NEW t, NEW c, NEW K, Dequeues(s, u, t, c, K),
           \A i \in DOMAIN s.inv : s.inv[i] \in Invocation
    PROVE  DequeuesOnly(s, u, t, c, K)
<1> SUFFICES ASSUME NEW i \in DOMAIN s.inv
             PROVE  /\ u.inv[i] \in Invocation
                    /\ u.inv[i].executing = s.inv[i].executing /\ u.inv[i].idle = s.inv[i].idle
                    /\ u.inv[i].queued = IF i \in Invocations(c, K) THEN s.inv[i].queued \ {t}
                                         ELSE s.inv[i].queued
  BY DEF DequeuesOnly
<1>1. u.inv[i] = IF i \in Invocations(c, K)
                 THEN [s.inv[i] EXCEPT !.queued = @ \ {t}] ELSE s.inv[i]
  BY DEF Dequeues
<1>2. s.inv[i] \in Invocation
  OBVIOUS
<1> QED BY <1>1, <1>2 DEF Invocation

LEMMA AssignsAfterDequeueing ==
    ASSUME NEW s, NEW a, NEW w, NEW t, NEW k, NEW c, NEW K, Assigns(s, a, w, t, k),
           NEW r, NEW v, Dequeues(s, r, t, c, K), Dequeues(a, v, t, c, K),
           \A i \in DOMAIN s.inv : s.inv[i] \in Invocation
    PROVE  Assigns(r, v, w, t, k)
<1>1. /\ Moves(s, a, t, w) /\ OnlyWorker(s, a, w)
      /\ a.workers[w] = WorkerWith(s.workers[w], t, None)
      /\ DOMAIN a.inv = DOMAIN s.inv
      /\ \A i \in DOMAIN s.inv :
              /\ a.inv[i] \in Invocation
              /\ a.inv[i].queued = s.inv[i].queued
              /\ \A x \in Workers \ {w} : a.inv[i].executing[x] = s.inv[i].executing[x]
              /\ a.inv[i].executing[w]
                    = s.inv[i].executing[w] + Share(i, WorkerClass[w], DOMAIN s.tasks[t].operations)
              /\ a.inv[i].idle = s.inv[i].idle - Share(i, WorkerClass[w], {k})
  BY DEF Assigns
<1>2. /\ SameButInvocations(s, r) /\ SameButInvocations(a, v)
      /\ DOMAIN r.inv = DOMAIN s.inv /\ DOMAIN v.inv = DOMAIN s.inv
  BY <1>1 DEF Dequeues
<1>3. \A i \in DOMAIN s.inv :
         /\ r.inv[i].executing = s.inv[i].executing /\ r.inv[i].idle = s.inv[i].idle
         /\ r.inv[i].queued = IF i \in Invocations(c, K) THEN s.inv[i].queued \ {t}
                              ELSE s.inv[i].queued
  <2>1. DequeuesOnly(s, r, t, c, K)
    BY DequeueFields
  <2> QED BY <2>1 DEF DequeuesOnly
<1>4. \A i \in DOMAIN s.inv :
         /\ v.inv[i] \in Invocation
         /\ v.inv[i].executing = a.inv[i].executing /\ v.inv[i].idle = a.inv[i].idle
         /\ v.inv[i].queued = IF i \in Invocations(c, K) THEN s.inv[i].queued \ {t}
                              ELSE s.inv[i].queued
  <2>1. \A i \in DOMAIN a.inv : a.inv[i] \in Invocation
    BY <1>1
  <2>2. \A i \in DOMAIN a.inv :
           /\ v.inv[i] \in Invocation
           /\ v.inv[i].executing = a.inv[i].executing /\ v.inv[i].idle = a.inv[i].idle
           /\ v.inv[i].queued = IF i \in Invocations(c, K) THEN a.inv[i].queued \ {t}
                                ELSE a.inv[i].queued
    <3>1. DequeuesOnly(a, v, t, c, K)
      BY <2>1, DequeueFields
    <3> QED BY <3>1 DEF DequeuesOnly
  <2> QED BY <1>1, <2>2
<1>5. /\ Moves(r, v, t, w) /\ OnlyWorker(r, v, w) /\ r.tasks = s.tasks
      /\ v.workers[w] = WorkerWith(r.workers[w], t, None)
  BY <1>1, <1>2 DEF Moves, SameScalars, SameButInvocations, OnlyTask, OnlyWorker
<1>6. \A i \in DOMAIN r.inv :
         /\ v.inv[i] \in Invocation
         /\ v.inv[i].queued = r.inv[i].queued
         /\ \A x \in Workers \ {w} : v.inv[i].executing[x] = r.inv[i].executing[x]
         /\ v.inv[i].executing[w]
               = r.inv[i].executing[w] + Share(i, WorkerClass[w], DOMAIN r.tasks[t].operations)
         /\ v.inv[i].idle = r.inv[i].idle - Share(i, WorkerClass[w], {k})
  <2> SUFFICES ASSUME NEW i \in DOMAIN s.inv
               PROVE  /\ v.inv[i] \in Invocation
                      /\ v.inv[i].queued = r.inv[i].queued
                      /\ \A x \in Workers \ {w} : v.inv[i].executing[x] = r.inv[i].executing[x]
                      /\ v.inv[i].executing[w] = r.inv[i].executing[w]
                            + Share(i, WorkerClass[w], DOMAIN r.tasks[t].operations)
                      /\ v.inv[i].idle = r.inv[i].idle - Share(i, WorkerClass[w], {k})
    BY <1>2
  <2>1. v.inv[i] \in Invocation /\ v.inv[i].queued = r.inv[i].queued
    BY <1>3, <1>4
  <2>2. /\ v.inv[i].executing = a.inv[i].executing /\ v.inv[i].idle = a.inv[i].idle
        /\ r.inv[i].executing = s.inv[i].executing /\ r.inv[i].idle = s.inv[i].idle
    BY <1>3, <1>4
  <2> QED BY <1>1, <1>5, <2>1, <2>2
<1> QED BY <1>2, <1>5, <1>6 DEF Assigns

(* assignQueuedTask(). *)
LEMMA AssignQueuedAccounts ==
    ASSUME NEW s, StateOK(s), Accounted(s, {}, {}), NEW w \in DOMAIN s.workers,
           NEW t \in DOMAIN s.tasks, Pending(s, t), s.tasks[t].worker = None,
           s.tasks[t].class = WorkerClass[w],
           s.workers[w].task = None, s.workers[w].wait # "queued",
           NEW u, u = assignQueuedTask(s, w, t)
    PROVE  StateOK(u) /\ Accounted(u, {}, {}) /\ Assigned(s, u, w, t)
<1> DEFINE c == WorkerClass[w]
           k == s.workers[w].last
           K == DOMAIN s.tasks[t].operations
           b == assignUnqueuedTask(s, w, t)
           r == removeQueuedFromInvocation(s, t, K)
<1>1. /\ k # None /\ k \in InvocationKeys /\ <<c, k>> \in DOMAIN s.inv
      /\ \A i \in DOMAIN s.inv : s.inv[i].idle >= Share(i, c, {k})
  BY LastOfWorker
<1>2. /\ IsState(s) /\ s.panicked = FALSE /\ TaskOK(s.tasks[t]) /\ w \in Workers
      /\ \A i \in DOMAIN s.inv : s.inv[i] \in Invocation
      /\ K \in SUBSET InvocationKeys
  BY DEF StateOK, TaskOK
<1>3. /\ c = WorkerClass[w] /\ k = s.workers[w].last /\ K = DOMAIN s.tasks[t].operations
      /\ s.tasks[t].class = c /\ Invocations(c, K) \subseteq DOMAIN s.inv
  BY DEF Accounted, TasksOK
<1>4. u = Then(b, LAMBDA z : removeQueuedFromInvocation(z, t, K))
  BY DEF assignQueuedTask, OperationKeys
<1> HIDE DEF c, k, K
<1>5. ASSUME NEW i \in Invocations(c, K) PROVE t \in s.inv[i].queued
  <2>1. i[1] = c /\ i[2] \in K /\ i \in DOMAIN s.inv
    BY <1>3 DEF Invocations
  <2> QED BY <1>3, <2>1 DEF Accounted, QueuesOK, Queues
<1>6. Dequeues(s, r, t, c, K)
  BY <1>2, <1>3, <1>5, RemoveQueuedIs
<1> HIDE DEF r
<1>7. StateOK(r) /\ Accounted(r, {t}, Invocations(c, K))
  <2>1. {} \cup {t} = {t} /\ t \in DOMAIN s.tasks \ {}
    OBVIOUS
  <2> QED BY <1>3, <1>6, <2>1, DequeuesAccounts
<1>8. PICK a : Assigns(s, a, w, t, k) /\ Removes(a, b, c, {k})
  BY <1>1, <1>3, AssignUnqueuedIs
<1> HIDE DEF b
<1>9. /\ Moves(s, a, t, w) /\ OnlyWorker(s, a, w)
      /\ a.workers[w] = WorkerWith(s.workers[w], t, None)
      /\ DOMAIN a.inv = DOMAIN s.inv
      /\ \A i \in DOMAIN s.inv :
            /\ a.inv[i] \in Invocation
            /\ a.inv[i].queued = s.inv[i].queued
            /\ a.inv[i].executing[w] = s.inv[i].executing[w] + Share(i, c, K)
      /\ SameButInvocations(a, b)
  BY <1>3, <1>8 DEF Assigns, Removes
<1>10. /\ IsState(a) /\ a.panicked = FALSE /\ a.tasks[t].class = c
       /\ IsState(b) /\ b.panicked = FALSE /\ b.tasks[t].class = c
  BY <1>2, <1>3, <1>9 DEF Moves, SameScalars, SameTask, SameButInvocations
<1> DEFINE v == removeQueuedFromInvocation(a, t, K)
<1>11. Dequeues(a, v, t, c, K)
  BY <1>3, <1>5, <1>9, <1>10, RemoveQueuedIs
<1> HIDE DEF v
<1>12. Assigns(r, v, w, t, k)
  BY <1>2, <1>6, <1>8, <1>11, AssignsAfterDequeueing
<1>13. StateOK(v) /\ Accounted(v, {}, {<<c, k>>})
  <2> DEFINE X == {}
  <2>1. t \notin X /\ Accounted(r, X \cup {t}, Invocations(c, K))
    BY <1>7
  <2>2. /\ w \in DOMAIN r.workers /\ t \in DOMAIN r.tasks /\ r.tasks[t].class = c
        /\ r.workers[w].task = None /\ k = r.workers[w].last
        /\ Invocations(c, DOMAIN r.tasks[t].operations) \subseteq DOMAIN r.inv
        /\ Invocations(c, K) \subseteq Invocations(c, DOMAIN r.tasks[t].operations)
    BY <1>3, <1>6 DEF Dequeues, SameButInvocations
  <2> HIDE DEF X
  <2>3. StateOK(v) /\ Accounted(v, X, {<<c, k>>})
    <3>1. MayAssign(r, X, Invocations(c, K), w, t, c, k)
      BY <1>3, <1>7, <2>1, <2>2 DEF MayAssign
    <3> QED BY <1>12, <3>1, AssignsAccounts
  <2> QED BY <2>3 DEF X
<1>14. u = removeQueuedFromInvocation(b, t, K)
  BY <1>4, <1>10 DEF Then
<1>15. /\ DOMAIN b.inv \subseteq DOMAIN a.inv
       /\ \A i \in DOMAIN a.inv :
             \/ i \in DOMAIN b.inv
             \/ i \in Invocations(c, {k} \ {Root}) /\ ~IsActive(a.inv[i]) /\ a.inv[i].idle = 0
       /\ \A i \in DOMAIN b.inv :
             /\ b.inv[i] = a.inv[i]
             /\ IsActive(a.inv[i]) \/ a.inv[i].idle # 0 \/ i \notin Invocations(c, {k} \ {Root})
  BY <1>8 DEF Removes
<1>16. Dequeues(b, u, t, c, K)
  <2>1. \A i \in Invocations(c, K) : i \in DOMAIN b.inv
    BY <1>3, <1>5, <1>9, <1>15 DEF IsActive
  <2>2. \A i \in Invocations(c, K) : t \in b.inv[i].queued
    BY <1>3, <1>5, <1>9, <1>15, <2>1
  <2> QED BY <1>10, <1>14, <2>1, <2>2, RemoveQueuedIs
<1>17. \A i \in DOMAIN a.inv :
          /\ v.inv[i].executing = a.inv[i].executing /\ v.inv[i].idle = a.inv[i].idle
          /\ v.inv[i].queued = IF i \in Invocations(c, K) THEN a.inv[i].queued \ {t}
                               ELSE a.inv[i].queued
  <2>1. \A i \in DOMAIN a.inv : a.inv[i] \in Invocation
    BY <1>9
  <2>2. DequeuesOnly(a, v, t, c, K)
    BY <1>11, <2>1, DequeueFields
  <2> QED BY <2>2 DEF DequeuesOnly
<1>18. ASSUME NEW i \in DOMAIN a.inv
       PROVE  IsActive(v.inv[i]) <=> IsActive(a.inv[i])
  <2>1. CASE i \in Invocations(c, K)
    <3>1. Share(i, c, K) >= 1 /\ Share(i, c, K) \in Nat
      BY <1>2, <2>1, ShareOfInvocation, ShareIsNatural
    <3>2. s.inv[i].executing[w] \in Nat
      BY <1>2, <1>9 DEF Invocation
    <3>3. a.inv[i].executing[w] # 0
      BY <1>9, <3>1, <3>2
    <3> QED BY <1>2, <1>17, <3>3 DEF IsActive
  <2>2. CASE i \notin Invocations(c, K)
    BY <1>17, <2>2 DEF IsActive
  <2> QED BY <2>1, <2>2
<1>19. Removes(v, u, c, {k})
  <2>1. DOMAIN v.inv = DOMAIN a.inv /\ DOMAIN u.inv = DOMAIN b.inv
    BY <1>11, <1>16 DEF Dequeues
  <2>2. \A i \in DOMAIN u.inv : u.inv[i] = v.inv[i]
    BY <1>11, <1>15, <1>16, <2>1, ZenonT(60) DEF Dequeues
  <2>3. SameButInvocations(v, u)
    BY <1>9, <1>11, <1>16 DEF Dequeues, SameButInvocations
  <2>4. \A i \in DOMAIN v.inv :
           \/ i \in DOMAIN u.inv
           \/ i \in Invocations(c, {k} \ {Root}) /\ ~IsActive(v.inv[i]) /\ v.inv[i].idle = 0
    BY <1>15, <1>17, <1>18, <2>1
  <2>5. \A i \in DOMAIN u.inv :
           IsActive(v.inv[i]) \/ v.inv[i].idle # 0 \/ i \notin Invocations(c, {k} \ {Root})
    BY <1>15, <1>17, <1>18, <2>1
  <2> QED BY <1>15, <2>1, <2>2, <2>3, <2>4, <2>5 DEF Removes
<1>20. StateOK(u) /\ Accounted(u, {}, {})
  <2> DEFINE F == {<<c, k>>}
  <2>1. F \ Invocations(c, {k}) = {}
    BY DEF Invocations
  <2>2. Accounted(v, {}, F)
    BY <1>13
  <2> HIDE DEF F
  <2>3. StateOK(u) /\ Accounted(u, {}, F \ Invocations(c, {k}))
    BY <1>13, <1>19, <2>2, RemovalKeepsAccounts
  <2> QED BY <2>1, <2>3
<1>21. Assigned(s, u, w, t)
  <2>1. SameButInvocations(a, v) /\ SameButInvocations(v, u)
    BY <1>11, <1>19 DEF Dequeues, Removes
  <2> QED BY <1>9, <2>1 DEF Assigned, Moves, OnlyWorker, OnlyTask, SameButInvocations, SameScalars
<1> QED BY <1>20, <1>21

-----------------------------------------------------------------------------
(* Calls of Synchronize() that block or return. *)
WaitFine(s, X, w, x) ==
    /\ x = "queued" =>
          /\ s.workers[w].task = None
          /\ ~isDrained(s, w)
          /\ NothingQueued(s, X, WorkerClass[w])
    /\ x = "drained" => isDrained(s, w)
    /\ x \in {"drained", "undrained"} => s.workers[w].task = None

OthersWaitingOK(s, X, w) ==
    \A v \in DOMAIN s.workers \ {w} : WaitFine(s, X, v, s.workers[v].wait)

LEMMA WaitingIs ==
    ASSUME NEW s, NEW X
    PROVE  WaitingOK(s, X) <=> \A v \in DOMAIN s.workers : WaitFine(s, X, v, s.workers[v].wait)
  BY DEF WaitingOK, WaitFine

LEMMA WaitsForOK ==
    ASSUME NEW s, NEW X, NEW E, NEW n, NEW cl, NEW P, NEW w \in DOMAIN s.workers,
           NEW x \in {"no", "queued", "woken", "drained", "undrained"},
           StateOK(s), Accounted(s, X, E), HandlesOK(s, n), RecordsOK(s, cl, P),
           OthersWaitingOK(s, X, w), WaitFine(s, X, w, x),
           NEW u, WaitsFor(s, u, w, x)
    PROVE  Halfway(u, X, E, n, cl, P)
<1>1. /\ StateOK(u) /\ Accounted(u, X, E)
      /\ u.workers[w].task = s.workers[w].task /\ u.workers[w].wait = x
      /\ u.workers[w].terminating = s.workers[w].terminating
  BY WaitsForAccounts
<1>2. /\ u.tasks = s.tasks /\ u.drains = s.drains /\ u.handles = s.handles
      /\ u.inFlightDeduplicationMap = s.inFlightDeduplicationMap
      /\ DOMAIN u.workers = DOMAIN s.workers
      /\ \A v \in DOMAIN s.workers \ {w} : u.workers[v] = s.workers[v]
  BY DEF WaitsFor, SameScalars, OnlyWorker
<1>3. SameRecords(s, u)
  BY <1>2 DEF SameRecords, SameTask, StateOK, TaskOK
<1>4. RecordsOK(u, cl, P) /\ HandlesOK(u, n)
  BY <1>2, <1>3, RecordsStep
<1>5. \A v \in DOMAIN s.workers : isDrained(u, v) <=> isDrained(s, v)
  BY <1>1, <1>2 DEF isDrained
<1>6. \A c : NothingQueued(u, X, c) <=> NothingQueued(s, X, c)
  BY <1>2 DEF NothingQueued, Pending
<1>7. ASSUME NEW v \in DOMAIN s.workers PROVE WaitFine(u, X, v, u.workers[v].wait)
  <2>1. CASE v = w
    BY <1>1, <1>5, <1>6, <2>1 DEF WaitFine
  <2>2. CASE v # w
    BY <1>2, <1>5, <1>6, <2>2 DEF WaitFine, OthersWaitingOK
  <2> QED BY <2>1, <2>2
<1>8. WaitingOK(u, X)
  BY <1>2, <1>7, WaitingIs
<1> QED BY <1>1, <1>4, <1>8 DEF Halfway

(* The outcome o of a call of worker w, given that the state was s. *)
Answers(s, o, w, T) ==
    /\ Evolves(s, o.bq, T) /\ Quiet(s, o.bq, {w}) /\ w \in DOMAIN o.bq.workers
    /\ \/ /\ o.response = Idle
          /\ o.bq.workers[w].task = None /\ o.bq.workers[w].wait = "no"
       \/ /\ o.bq.workers[w].task # None
          /\ o.response = Executing(o.bq.workers[w].task)
       \/ o.response = Blocked

LEMMA WaitsForEvolves ==
    ASSUME NEW s, StateOK(s), NEW w \in DOMAIN s.workers, NEW x, NEW u, WaitsFor(s, u, w, x)
    PROVE  /\ Evolves(s, u, {}) /\ Quiet(s, u, {w})
           /\ w \in DOMAIN u.workers
<1>1. /\ u.tasks = s.tasks /\ u.created = s.created /\ s.created \in Nat
      /\ DOMAIN u.workers = DOMAIN s.workers
      /\ \A v \in DOMAIN s.workers \ {w} : u.workers[v] = s.workers[v]
  BY DEF WaitsFor, SameScalars, OnlyWorker, StateOK
<1>2. Evolves(s, u, {})
  BY <1>1 DEF Evolves, Pending
<1> QED BY <1>1, <1>2 DEF Quiet

LEMMA ReturnOK ==
    ASSUME NEW s, NEW cl, SchedulerInv(s, cl), NEW w \in DOMAIN s.workers, NEW o, NEW r,
           o = Return(s, w, r),
           \/ r = Idle /\ s.workers[w].task = None
           \/ s.workers[w].task # None /\ r = Executing(s.workers[w].task)
    PROVE  SchedulerInv(o.bq, cl) /\ Answers(s, o, w, {})
<1> DEFINE u == [s EXCEPT !.workers[w].wait = "no"]
<1>1. o.bq = u /\ o.response = r
  BY DEF Return, Outcome
<1>2. StateOK(s) /\ IsState(s)
  BY DEF SchedulerInv, Halfway, StateOK
<1>3. WaitsFor(s, u, w, "no")
  BY <1>2, WaitsForIs
<1> HIDE DEF u
<1>4. OthersWaitingOK(s, {}, w) /\ WaitFine(s, {}, w, "no")
  BY WaitingIs DEF SchedulerInv, Halfway, OthersWaitingOK, WaitFine
<1>5. SchedulerInv(u, cl)
  BY <1>3, <1>4, WaitsForOK DEF SchedulerInv, Halfway
<1>6. u.workers[w].task = s.workers[w].task /\ u.workers[w].wait = "no"
  BY <1>2, <1>3, WaitsForAccounts DEF SchedulerInv, Halfway
<1>7. Evolves(s, u, {}) /\ Quiet(s, u, {w}) /\ w \in DOMAIN u.workers
  BY <1>2, <1>3, WaitsForEvolves
<1> QED BY <1>1, <1>5, <1>6, <1>7 DEF Answers

LEMMA AssignNextOK ==
    ASSUME NEW s, NEW cl, SchedulerInv(s, cl), NEW w \in DOMAIN s.workers,
           s.workers[w].task = None, s.workers[w].wait # "queued",
           NEW o \in assignNextQueuedTask(s, w)
    PROVE  SchedulerInv(o.bq, cl) /\ Answers(s, o, w, {})
<1>1. /\ StateOK(s) /\ Accounted(s, {}, {}) /\ WaitingOK(s, {}) /\ HandlesOK(s, 0)
      /\ RecordsOK(s, cl, {})
  BY DEF SchedulerInv, Halfway
<1>2. PICK t \in QueuedTasks(s, WorkerClass[w]) :
         o = Return(assignQueuedTask(s, w, t), w, Executing(t))
  BY DEF assignNextQueuedTask
<1>3. /\ t \in DOMAIN s.tasks /\ Pending(s, t) /\ s.tasks[t].worker = None
      /\ s.tasks[t].class = WorkerClass[w]
  BY <1>1, QueuedTasksAre
<1> DEFINE v == assignQueuedTask(s, w, t)
           u == [v EXCEPT !.workers[w].wait = "no"]
<1>4. o.bq = u /\ o.response = Executing(t)
  BY <1>2 DEF Return, Outcome
<1>5. StateOK(v) /\ Accounted(v, {}, {}) /\ Assigned(s, v, w, t)
  BY <1>1, <1>3, AssignQueuedAccounts
<1> HIDE DEF v
<1>6. /\ Moves(s, v, t, w) /\ OnlyWorker(s, v, w)
      /\ v.workers[w] = WorkerWith(s.workers[w], t, None)
  BY <1>5 DEF Assigned
<1>7. /\ SameRecords(s, v) /\ v.handles = s.handles /\ v.drains = s.drains
      /\ DOMAIN v.tasks = DOMAIN s.tasks
      /\ \A x \in DOMAIN s.tasks \ {t} : v.tasks[x] = s.tasks[x]
      /\ v.tasks[t].worker = w
      /\ \A x \in DOMAIN s.tasks :
            /\ Pending(v, x) <=> Pending(s, x)
            /\ v.tasks[x].class = s.tasks[x].class
  BY <1>1, <1>3, <1>6, MovesFields
<1>8. RecordsOK(v, cl, {}) /\ HandlesOK(v, 0)
  BY <1>1, <1>7, RecordsStep
<1>9. /\ w \in DOMAIN v.workers /\ v.workers[w].task = t /\ t # None /\ w # None
      /\ DOMAIN v.workers = DOMAIN s.workers /\ v.created = s.created /\ s.created \in Nat
      /\ \A x \in DOMAIN s.workers \ {w} : v.workers[x] = s.workers[x]
  BY <1>1, <1>3, <1>6, NamesDiffer DEF OnlyWorker, WorkerWith, Moves, SameScalars, StateOK
<1>10. OthersWaitingOK(v, {}, w) /\ WaitFine(v, {}, w, "no")
  <2>1. \A x \in DOMAIN s.workers \ {w} : isDrained(v, x) <=> isDrained(s, x)
    BY <1>7, <1>9 DEF isDrained
  <2>2. \A c : NothingQueued(s, {}, c) => NothingQueued(v, {}, c)
    BY <1>7, <1>9 DEF NothingQueued
  <2>3. \A x \in DOMAIN s.workers \ {w} : WaitFine(s, {}, x, s.workers[x].wait)
    BY <1>1, WaitingIs
  <2>4. ASSUME NEW x \in DOMAIN s.workers \ {w} PROVE WaitFine(v, {}, x, v.workers[x].wait)
    BY <1>9, <2>1, <2>2, <2>3 DEF WaitFine
  <2> QED BY <1>9, <2>4 DEF OthersWaitingOK, WaitFine
<1>11. WaitsFor(v, u, w, "no")
  BY <1>5, <1>9, WaitsForIs DEF StateOK
<1> HIDE DEF u
<1>12. SchedulerInv(u, cl)
  BY <1>5, <1>8, <1>9, <1>10, <1>11, WaitsForOK DEF SchedulerInv
<1>13. u.workers[w].task = t /\ u.workers[w].wait = "no"
  BY <1>5, <1>9, <1>11, WaitsForAccounts
<1>14. Evolves(v, u, {}) /\ Quiet(v, u, {w}) /\ w \in DOMAIN u.workers
  BY <1>5, <1>9, <1>11, WaitsForEvolves
<1>15. Evolves(s, v, {}) /\ Quiet(s, v, {w})
  BY <1>3, <1>7, <1>9 DEF Evolves, Quiet
<1>16. Evolves(s, u, {}) /\ Quiet(s, u, {w})
  BY <1>14, <1>15, EvolvesTransitive, QuietTransitive
<1> QED BY <1>4, <1>9, <1>12, <1>13, <1>14, <1>16 DEF Answers

LEMMA WaitForTaskOK ==
    ASSUME NEW s, NEW cl, SchedulerInv(s, cl), NEW w \in DOMAIN s.workers,
           s.workers[w].task = None, s.workers[w].wait # "queued",
           NEW o \in waitForTask(s, w)
    PROVE  SchedulerInv(o.bq, cl) /\ Answers(s, o, w, {})
<1>1. /\ StateOK(s) /\ Accounted(s, {}, {}) /\ WaitingOK(s, {}) /\ HandlesOK(s, 0)
      /\ RecordsOK(s, cl, {}) /\ IsState(s) /\ s.panicked = FALSE
  BY DEF SchedulerInv, Halfway, StateOK
<1>2. OthersWaitingOK(s, {}, w)
  BY <1>1, WaitingIs DEF OthersWaitingOK
<1>3. ASSUME NEW x \in {"drained", "queued"}, WaitFine(s, {}, w, x),
             NEW u, u = [s EXCEPT !.workers[w].wait = x], o.bq = u, o.response = Blocked
      PROVE  SchedulerInv(o.bq, cl) /\ Answers(s, o, w, {})
  <2>1. WaitsFor(s, u, w, x)
    BY <1>1, <1>3, WaitsForIs
  <2>2. SchedulerInv(u, cl)
    BY <1>1, <1>2, <1>3, <2>1, WaitsForOK DEF SchedulerInv
  <2>3. Evolves(s, u, {}) /\ Quiet(s, u, {w}) /\ w \in DOMAIN u.workers
    BY <1>1, <2>1, WaitsForEvolves
  <2> QED BY <1>3, <2>2, <2>3 DEF Answers
<1>4. CASE isDrained(s, w)
  <2>1. o.bq = [s EXCEPT !.workers[w].wait = "drained"] /\ o.response = Blocked
    BY <1>4 DEF waitForTask, Outcome
  <2> QED BY <1>3, <1>4, <2>1 DEF WaitFine
<1>5. CASE ~isDrained(s, w) /\ QueuedTasks(s, WorkerClass[w]) # {}
  BY <1>5, AssignNextOK DEF waitForTask
<1>6. CASE ~isDrained(s, w) /\ QueuedTasks(s, WorkerClass[w]) = {}
  <2>1. o.bq = [s EXCEPT !.workers[w].wait = "queued"] /\ o.response = Blocked
    BY <1>1, <1>6 DEF waitForTask, Outcome, Unless
  <2>2. NothingQueued(s, {}, WorkerClass[w])
    BY <1>1, <1>6, QueuedTasksAre DEF NothingQueued
  <2> QED BY <1>3, <1>6, <2>1, <2>2 DEF WaitFine
<1> QED BY <1>4, <1>5, <1>6

LEMMA GetNextTaskOK ==
    ASSUME NEW s, NEW cl, SchedulerInv(s, cl), NEW w \in DOMAIN s.workers,
           s.workers[w].task = None, s.workers[w].wait # "queued",
           NEW mayBlock \in BOOLEAN, NEW preferBeingIdle \in BOOLEAN,
           NEW o \in getNextTask(s, w, mayBlock, preferBeingIdle)
    PROVE  SchedulerInv(o.bq, cl) /\ Answers(s, o, w, {})
<1>1. \/ o = Return(s, w, Idle)
      \/ o \in assignNextQueuedTask(s, w)
      \/ o \in waitForTask(s, w)
  BY DEF getNextTask
<1> QED BY <1>1, ReturnOK, AssignNextOK, WaitForTaskOK

LEMMA SameWorkWaiting ==
    ASSUME NEW s, NEW u, NEW X, WaitingOK(s, X), SameWork(s, u), u.drains = s.drains,
           \A w \in DOMAIN s.workers :
              /\ u.workers[w].wait = s.workers[w].wait
              /\ u.workers[w].terminating = s.workers[w].terminating
    PROVE  WaitingOK(u, X)
<1>1. /\ DOMAIN u.workers = DOMAIN s.workers
      /\ \A w \in DOMAIN s.workers : u.workers[w].task = s.workers[w].task
  BY DEF SameWork
<1>2. \A w \in DOMAIN s.workers : isDrained(u, w) <=> isDrained(s, w)
  BY DEF isDrained
<1>3. \A c : NothingQueued(s, X, c) => NothingQueued(u, X, c)
  BY DEF SameWork, NothingQueued, Pending
<1> QED BY <1>1, <1>2, <1>3 DEF WaitingOK

LEMMA ChangesTaskIs ==
    ASSUME NEW s, IsState(s), NEW t \in DOMAIN s.tasks, NEW y,
           NEW u, u = [s EXCEPT !.tasks[t] = y]
    PROVE  ChangesTask(s, u, t, y)
<1> DEFINE z == [s.tasks EXCEPT ![t] = y]
<1>1. u = [s EXCEPT !.tasks = z]
  BY DEF IsState, Fields
<1>2. DOMAIN z = DOMAIN s.tasks /\ z[t] = y /\ \A x \in DOMAIN s.tasks \ {t} : z[x] = s.tasks[x]
  OBVIOUS
<1> HIDE DEF z
<1>3. SameScalars(s, u) /\ u.tasks = z /\ u.inv = s.inv /\ u.workers = s.workers
  BY <1>1 DEF IsState, Fields, SameScalars
<1> QED BY <1>2, <1>3 DEF ChangesTask, OnlyTask

LEMMA ChangesTaskAccounts ==
    ASSUME NEW s, NEW X, NEW E, StateOK(s), Accounted(s, X, E), WaitingOK(s, X),
           NEW t \in DOMAIN s.tasks, NEW y, TaskOK(y),
           y.learner = s.tasks[t].learner, y.worker = s.tasks[t].worker,
           y.class = s.tasks[t].class, DOMAIN y.operations = DOMAIN s.tasks[t].operations,
           NEW u, ChangesTask(s, u, t, y)
    PROVE  /\ StateOK(u) /\ Accounted(u, X, E) /\ WaitingOK(u, X)
           /\ Evolves(s, u, {}) /\ Quiet(s, u, {})
<1>1. /\ SameScalars(s, u) /\ u.inv = s.inv /\ u.workers = s.workers
      /\ DOMAIN u.tasks = DOMAIN s.tasks
      /\ \A x \in DOMAIN s.tasks : u.tasks[x] = IF x = t THEN y ELSE s.tasks[x]
  BY DEF ChangesTask, OnlyTask
<1>2. SameWork(s, u)
  BY <1>1 DEF SameWork, SameScalars
<1>3. StateOK(u)
  BY <1>1 DEF StateOK, SameScalars
<1>4. WaitingOK(u, X)
  BY <1>1, <1>2, SameWorkWaiting DEF SameScalars
<1>5. Evolves(s, u, {}) /\ Quiet(s, u, {})
  BY <1>1 DEF Evolves, Quiet, Pending, SameScalars, StateOK
<1> QED BY <1>2, <1>3, <1>4, <1>5, SameWorkAccounts

LEMMA RetryOK ==
    ASSUME NEW s, NEW cl, SchedulerInv(s, cl), NEW t \in DOMAIN s.tasks,
           s.tasks[t].retryCount < WorkerTaskRetryCount,
           NEW u, u = [s EXCEPT !.tasks[t].retryCount = @ + 1]
    PROVE  SchedulerInv(u, cl) /\ u.workers = s.workers /\ Evolves(s, u, {}) /\ Quiet(s, u, {})
<1> DEFINE x == s.tasks[t]
           y == [x EXCEPT !.retryCount = @ + 1]
<1>1. /\ StateOK(s) /\ Accounted(s, {}, {}) /\ WaitingOK(s, {}) /\ HandlesOK(s, 0)
      /\ RecordsOK(s, cl, {}) /\ IsState(s)
  BY DEF SchedulerInv, Halfway, StateOK
<1>2. TaskOK(x)
  BY <1>1 DEF StateOK
<1>3. u = [s EXCEPT !.tasks[t] = y]
  BY <1>1 DEF IsState, Fields
<1>4. x.retryCount < WorkerTaskRetryCount
  OBVIOUS
<1> HIDE DEF x
<1>5. TaskOK(y) /\ SameTask(x, y) /\ y.worker = x.worker
  <2>1. IsTask(x) /\ x.retryCount \in 0 .. WorkerTaskRetryCount
    BY <1>2 DEF TaskOK
  <2>2. SameTask(x, y) /\ y.worker = x.worker /\ y.retryCount = x.retryCount + 1
    BY <2>1 DEF IsTask, TaskFields, SameTask
  <2>3. y.retryCount \in 0 .. WorkerTaskRetryCount
    BY <1>4, <2>1, <2>2, SchedulerAssumption
  <2> HIDE DEF y
  <2> QED BY <1>2, <2>2, <2>3 DEF TaskOK, SameTask
<1>6. y.learner = x.learner /\ y.class = x.class /\ DOMAIN y.operations = DOMAIN x.operations
  BY <1>5 DEF SameTask
<1> HIDE DEF y
<1>7. ChangesTask(s, u, t, y)
  BY <1>1, <1>3, ChangesTaskIs
<1>8. /\ StateOK(u) /\ Accounted(u, {}, {}) /\ WaitingOK(u, {})
      /\ Evolves(s, u, {}) /\ Quiet(s, u, {})
  BY <1>1, <1>5, <1>6, <1>7, ChangesTaskAccounts DEF x
<1>9. SameRecords(s, u)
  BY <1>1, <1>5, <1>7 DEF ChangesTask, SameScalars, OnlyTask, SameRecords, SameTask, x, StateOK, TaskOK
<1>10. RecordsOK(u, cl, {}) /\ HandlesOK(u, 0)
  BY <1>1, <1>7, <1>9, RecordsStep DEF ChangesTask, SameScalars
<1> QED BY <1>7, <1>8, <1>10 DEF SchedulerInv, Halfway, ChangesTask

LEMMA FailInv ==
    ASSUME NEW s, NEW cl, SchedulerInv(s, cl), NEW t \in DOMAIN s.tasks, NEW b,
           NEW u, u = fail(s, t, b)
    PROVE  SchedulerInv(u, cl) /\ Fails(s, u, t)
<1> DEFINE n == 0
           P == {}
<1>1. Halfway(s, {}, {}, n, cl, P) /\ n \in Int
  BY DEF SchedulerInv
<1> HIDE DEF n, P
<1>2. Halfway(u, {}, {}, n, cl, P) /\ Fails(s, u, t)
  BY <1>1, FailOK
<1> QED BY <1>2 DEF SchedulerInv, n, P

LEMMA AnswersAfter ==
    ASSUME NEW s, NEW u, NEW w, NEW T, Evolves(s, u, T), Quiet(s, u, {w}), NEW o, Answers(u, o, w, {})
    PROVE  Answers(s, o, w, T)
<1>1. Evolves(u, o.bq, {}) /\ Quiet(u, o.bq, {w})
  BY DEF Answers
<1>2. Evolves(u, o.bq, T)
  BY <1>1 DEF Evolves
<1>3. Evolves(s, o.bq, T) /\ Quiet(s, o.bq, {w})
  BY <1>1, <1>2, EvolvesTransitive, QuietTransitive
<1> QED BY <1>3 DEF Answers

LEMMA GetCurrentOrNextTaskOK ==
    ASSUME NEW s, NEW cl, SchedulerInv(s, cl), NEW w \in DOMAIN s.workers,
           s.workers[w].wait = "no",
           NEW mayBlock \in BOOLEAN, NEW preferBeingIdle \in BOOLEAN,
           NEW o \in getCurrentOrNextTask(s, w, mayBlock, preferBeingIdle)
    PROVE  SchedulerInv(o.bq, cl) /\ Answers(s, o, w, {})
<1> DEFINE t == s.workers[w].task
<1>1. CASE t = None
  BY <1>1, GetNextTaskOK DEF getCurrentOrNextTask
<1>2. ASSUME t # None PROVE t \in DOMAIN s.tasks /\ s.created \in Nat
  BY <1>2 DEF SchedulerInv, Halfway, Accounted, WorkersOK, StateOK
<1>3. CASE t # None /\ s.tasks[t].retryCount < WorkerTaskRetryCount
  <2> DEFINE u == [s EXCEPT !.tasks[t].retryCount = @ + 1]
  <2>1. o = Return(u, w, Executing(t))
    BY <1>3 DEF getCurrentOrNextTask
  <2> HIDE DEF t
  <2>2. SchedulerInv(u, cl) /\ u.workers = s.workers /\ Evolves(s, u, {}) /\ Quiet(s, u, {})
    BY <1>2, <1>3, RetryOK
  <2> HIDE DEF u
  <2>3. w \in DOMAIN u.workers /\ u.workers[w].task = t
    BY <2>2 DEF t
  <2>4. SchedulerInv(o.bq, cl) /\ Answers(u, o, w, {})
    BY <1>3, <2>1, <2>2, <2>3, ReturnOK
  <2>5. Quiet(s, u, {w})
    BY <2>2 DEF Quiet
  <2> QED BY <2>2, <2>4, <2>5, AnswersAfter
<1>4. CASE t # None /\ ~ (s.tasks[t].retryCount < WorkerTaskRetryCount)
  <2> DEFINE u == fail(s, t, FALSE)
  <2>1. o \in getNextTask(u, w, mayBlock, preferBeingIdle)
    BY <1>4 DEF getCurrentOrNextTask
  <2> HIDE DEF u
  <2>0. t \in DOMAIN s.tasks
    BY <1>2, <1>4
  <2> HIDE DEF t
  <2>2. SchedulerInv(u, cl) /\ Fails(s, u, t)
    BY <2>0, FailInv DEF u
  <2>3. Evolves(s, u, {}) /\ Quiet(s, u, {})
    BY <1>2, <1>4, <2>2, FailEvolves
  <2>4. w \in DOMAIN u.workers /\ u.workers[w].task = None /\ u.workers[w].wait = "no"
    BY <2>2 DEF Fails, Frees, t
  <2>5. SchedulerInv(o.bq, cl) /\ Answers(u, o, w, {})
    BY <2>1, <2>2, <2>4, GetNextTaskOK
  <2>6. Quiet(s, u, {w})
    BY <2>3 DEF Quiet
  <2> QED BY <2>3, <2>5, <2>6, AnswersAfter
<1> QED BY <1>1, <1>3, <1>4

-----------------------------------------------------------------------------
LEMMA NewInvocationIs ==
    /\ NewInvocation \in Invocation /\ NewInvocation.queued = {} /\ NewInvocation.idle = 0
    /\ \A w \in Workers : NewInvocation.executing[w] = 0
  BY DEF NewInvocation, Invocation

LEMMA AddsInvocationsAccounts ==
    ASSUME NEW s, NEW X, NEW E, StateOK(s), Accounted(s, X, E),
           NEW c \in SizeClasses, NEW K \in SUBSET InvocationKeys, Root \in K \/ c \in s.classes,
           NEW u, AddsInvocations(s, u, c, K)
    PROVE  StateOK(u) /\ Accounted(u, X, E \cup Invocations(c, K))
<1>1. /\ IsState(u)
      /\ u.classes = s.classes \cup {c} /\ u.created = s.created
      /\ u.drains = s.drains /\ u.handles = s.handles /\ u.panicked = s.panicked
      /\ u.tasks = s.tasks /\ u.workers = s.workers
      /\ DOMAIN u.inv = DOMAIN s.inv \cup Invocations(c, K)
      /\ \A i \in DOMAIN u.inv :
            u.inv[i] = IF i \in DOMAIN s.inv THEN s.inv[i] ELSE NewInvocation
  BY DEF AddsInvocations
<1>2. \A i \in Invocations(c, K) : i \in u.classes \X InvocationKeys
  BY <1>1 DEF Invocations
<1>3. StateOK(u)
  <2>1. DOMAIN u.inv \subseteq u.classes \X InvocationKeys
    BY <1>1, <1>2 DEF StateOK
  <2>2. \A i \in DOMAIN u.inv : u.inv[i] \in Invocation
    BY <1>1, NewInvocationIs DEF StateOK
  <2> QED BY <1>1, <2>1, <2>2 DEF StateOK
<1>4. \A i \in DOMAIN u.inv \ DOMAIN s.inv :
         /\ \A t \in DOMAIN s.tasks \ X : ~Queues(s, t, i)
         /\ \A w \in Workers : Executes(s, w, i) = 0
         /\ IdleWorkers(s, i) = {}
  <2> SUFFICES ASSUME NEW i \in DOMAIN u.inv \ DOMAIN s.inv
               PROVE  /\ \A t \in DOMAIN s.tasks \ X : ~Queues(s, t, i)
                      /\ \A w \in Workers : Executes(s, w, i) = 0
                      /\ IdleWorkers(s, i) = {}
    OBVIOUS
  <2>1. PICK k \in K : i = <<c, k>>
    BY <1>1 DEF Invocations
  <2>2. k = Root => c \notin s.classes
    BY <2>1 DEF Accounted, RootsOK
  <2>3. k \in InvocationKeys /\ <<c, k>> \notin DOMAIN s.inv /\ WorkersOK(s) /\ TasksOK(s, X)
    BY <2>1 DEF Accounted
  <2> QED BY <2>1, <2>2, <2>3, AbsentInvocation
<1>5. WorkersOK(u)
  BY <1>1 DEF Accounted, WorkersOK, Pending
<1>6. TasksOK(u, X)
  BY <1>1 DEF Accounted, TasksOK, Pending
<1>7. QueuesOK(u, X)
  <2>1. \A t \in DOMAIN s.tasks : \A i : Queues(u, t, i) <=> Queues(s, t, i)
    BY <1>1 DEF Queues, Pending
  <2> QED BY <1>1, <1>4, <2>1, NewInvocationIs DEF Accounted, QueuesOK
<1>8. ExecutingOK(u)
  <2>1. \A w \in Workers : \A i : Executes(u, w, i) = Executes(s, w, i)
    BY <1>1 DEF Executes
  <2> QED BY <1>1, <1>4, <2>1, NewInvocationIs DEF Accounted, ExecutingOK
<1>9. IdleOK(u)
  <2>1. \A i : IdleWorkers(u, i) = IdleWorkers(s, i)
    BY <1>1 DEF IdleWorkers
  <2> QED BY <1>1, <1>4, <2>1, NewInvocationIs, FS_EmptySet DEF Accounted, IdleOK
<1>10. ActiveOK(u, E \cup Invocations(c, K))
  BY <1>1 DEF Accounted, ActiveOK
<1>11. RootsOK(u)
  <2>1. Root \in K => <<c, Root>> \in Invocations(c, K)
    BY DEF Invocations
  <2> QED BY <1>1, <2>1 DEF Accounted, RootsOK
<1> QED BY <1>3, <1>5, <1>6, <1>7, <1>8, <1>9, <1>10, <1>11 DEF Accounted

LEMMA CreatesAccounts ==
    ASSUME NEW s, NEW X, NEW E, StateOK(s), Accounted(s, X, E),
           NEW c \in s.classes, NEW K \in SUBSET InvocationKeys,
           NEW u, Creates(s, u, c, K)
    PROVE  StateOK(u) /\ Accounted(u, X, E \cup Invocations(c, K))
<1>1. c \in SizeClasses /\ AddsInvocations(s, u, c, K)
  BY DEF Creates, SameButInvocations, AddsInvocations, StateOK
<1> QED BY <1>1, AddsInvocationsAccounts

LEMMA AddTaskIs ==
    ASSUME NEW s, StateOK(s), NEW action, NEW choice, NEW k, NEW background,
           NEW t, NextTask(s, t),
           NEW m, m = IF background THEN s.inFlightDeduplicationMap
                      ELSE With(s.inFlightDeduplicationMap, action, t),
           NEW u, u = addTask(s, action, choice, k, background)
    PROVE  /\ AddsTask(s, u, t, u.tasks[t], m)
           /\ IsNewTask(u.tasks[t], action, choice, k, background)
           /\ CreatesFor(s, u, choice.class, k)
<1>1. IsState(s) /\ s.panicked = FALSE /\ t \notin DOMAIN s.tasks
  BY DEF StateOK, NextTask
<1> DEFINE x0 == NewTask(action, choice.class, choice.learner)
           z == With(s.tasks, t, x0)
           s1 == [s EXCEPT !.created = t, !.tasks = z, !.inFlightDeduplicationMap = m]
           s2 == getOrCreateInvocation(s1, choice.class, {k})
           x == [x0 EXCEPT !.operations = With(@, k, NewOperation(background))]
<1>2. /\ DOMAIN z = DOMAIN s.tasks \cup {t} /\ z[t] = x0
      /\ \A y \in DOMAIN s.tasks : z[y] = s.tasks[y]
  <2> HIDE DEF x0
  <2> QED BY <1>1 DEF With
<1>3. u = Then(Then(s1, LAMBDA v : getOrCreateInvocation(v, choice.class, {k})),
               LAMBDA v : newOperation(v, t, k, background))
  BY DEF addTask, NextTask
<1> HIDE DEF z
<1>4. /\ IsState(s1) /\ s1.classes = s.classes /\ s1.created = t /\ s1.tasks = z
      /\ s1.inFlightDeduplicationMap = m /\ s1.drains = s.drains /\ s1.handles = s.handles
      /\ s1.panicked = FALSE /\ s1.workers = s.workers /\ s1.inv = s.inv
  BY <1>1 DEF IsState, Fields
<1> HIDE DEF s1
<1>5. u = Then(s2, LAMBDA v : newOperation(v, t, k, background))
  BY <1>3, <1>4 DEF Then
<1>6. Creates(s1, s2, choice.class, {k})
  BY <1>4, GetOrCreateIs
<1> HIDE DEF s2
<1>7. /\ IsState(s2) /\ s2.classes = s.classes /\ s2.created = t /\ s2.tasks = z
      /\ s2.inFlightDeduplicationMap = m /\ s2.drains = s.drains /\ s2.handles = s.handles
      /\ s2.panicked = FALSE /\ s2.workers = s.workers
      /\ DOMAIN s2.inv = DOMAIN s.inv \cup Invocations(choice.class, {k})
      /\ \A i \in DOMAIN s2.inv : s2.inv[i] = IF i \in DOMAIN s.inv THEN s.inv[i] ELSE NewInvocation
  BY <1>4, <1>6 DEF Creates, SameButInvocations
<1>8. u = newOperation(s2, t, k, background)
  BY <1>5, <1>7 DEF Then
<1>9. x0.operations = <<>> /\ DOMAIN x0.operations = {}
  BY DEF NewTask
<1>10. IsNewTask(x, action, choice, k, background)
  <2>1. /\ IsTask(x0) /\ x0.action = action /\ x0.class = choice.class
        /\ x0.learner = choice.learner /\ x0.worker = None /\ x0.retryCount = 0
        /\ x0.failed = FALSE /\ x0.event = FALSE
    BY DEF NewTask, IsTask, TaskFields
  <2> HIDE DEF x0
  <2> QED BY <1>9, <2>1 DEF IsNewTask, IsTask, TaskFields
<1> HIDE DEF x
<1>12. u = [s2 EXCEPT !.tasks[t] = x]
  <2>1. u = [s2 EXCEPT !.tasks[t].operations = With(@, k, NewOperation(background))]
    BY <1>2, <1>7, <1>8, <1>9 DEF newOperation, Unless
  <2>2. u = [s2 EXCEPT !.tasks[t] = [s2.tasks[t] EXCEPT !.operations = With(@, k, NewOperation(background))]]
    BY <2>1
  <2> QED BY <1>2, <1>7, <2>2 DEF x
<1>13. ChangesTask(s2, u, t, x)
  BY <1>2, <1>7, <1>12, ChangesTaskIs
<1>14. AddsTask(s, u, t, x, m)
  BY <1>1, <1>2, <1>7, <1>13 DEF AddsTask, ChangesTask, SameScalars, OnlyTask
<1> DEFINE v == getOrCreateInvocation(s, choice.class, {k})
<1>15. Creates(s, v, choice.class, {k})
  BY <1>1, GetOrCreateIs
<1>16. v.inv = s2.inv
  BY <1>1, <1>4 DEF getOrCreateInvocation, IsState, Fields, s2
<1>17. u.inv = v.inv
  BY <1>13, <1>16 DEF ChangesTask
<1> QED BY <1>10, <1>14, <1>15, <1>17 DEF AddsTask, CreatesFor

LEMMA NewOperationIs ==
    ASSUME NEW b \in BOOLEAN
    PROVE  LET o == NewOperation(b) IN
           /\ o \in Operation /\ o.waiters = 0 /\ o.mayExistWithoutWaiters = b /\ o.cleanup = FALSE
  BY DEF NewOperation, Operation

(* The facts about the task that addTask() creates. *)
LEMMA NewTaskIs ==
    ASSUME NEW s, StateOK(s), NEW action, NEW choice, ChoiceOK(s, action, choice),
           NEW k \in InvocationKeys, NEW b \in BOOLEAN, NEW x, IsNewTask(x, action, choice, k, b)
    PROVE  /\ TaskOK(x) /\ x.learner # NoLearner /\ x.worker = None /\ x.class = choice.class
           /\ x.action = action /\ x.learner = choice.learner
           /\ DOMAIN x.operations = {k} /\ x.operations[k] = NewOperation(b)
<1> DEFINE N == NewOperation(b)
<1>1. N \in Operation
  BY NewOperationIs
<1> HIDE DEF N
<1>2. /\ IsTask(x)
      /\ x.action = action /\ x.class = choice.class /\ x.learner = choice.learner
      /\ x.worker = None /\ x.retryCount = 0
      /\ x.operations = With(<<>>, k, N)
      /\ x.failed = FALSE /\ x.event = FALSE
  BY DEF IsNewTask, N
<1>3. /\ DOMAIN x.operations = {k} /\ x.operations[k] = N
      /\ x.operations = [y \in DOMAIN x.operations |-> x.operations[y]]
  <2>1. DOMAIN <<>> = {}
    OBVIOUS
  <2> QED BY <1>2, <2>1 DEF With
<1>4. x.retryCount \in 0 .. WorkerTaskRetryCount
  BY <1>2, SchedulerAssumption
<1>5. choice.learner # NoLearner
  BY DEF ChoiceOK, NoLearner
<1>6. TaskOK(x)
  BY <1>1, <1>2, <1>3, <1>4 DEF TaskOK, ChoiceOK, StateOK
<1> QED BY <1>2, <1>3, <1>5, <1>6 DEF N

LEMMA AddsTaskAccounts ==
    ASSUME NEW s, NEW X, X \subseteq DOMAIN s.tasks, StateOK(s), Accounted(s, X, {}),
           NEW t, NextTask(s, t), NEW x, NEW m, NEW u, AddsTask(s, u, t, x, m),
           TaskOK(x), x.learner # NoLearner, x.worker = None, x.class \in s.classes,
           NEW k, DOMAIN x.operations = {k}, k \in InvocationKeys,
           NEW v, Creates(s, v, x.class, {k}), u.inv = v.inv
    PROVE  /\ StateOK(u) /\ Accounted(u, X \cup {t}, Invocations(x.class, {k}))
           /\ Invocations(x.class, {k}) \subseteq DOMAIN u.inv
<1> DEFINE E == Invocations(x.class, {k})
           Y == X \cup {t}
<1>1. StateOK(v) /\ Accounted(v, X, E)
  <2> DEFINE Z == {}
  <2>1. Accounted(s, X, Z) /\ {k} \in SUBSET InvocationKeys
    OBVIOUS
  <2> HIDE DEF Z
  <2>2. StateOK(v) /\ Accounted(v, X, Z \cup E)
    BY <2>1, CreatesAccounts
  <2>3. Z \cup E = E
    BY DEF Z
  <2> QED BY <2>2, <2>3
<1>2. /\ v.classes = s.classes /\ v.created = s.created /\ v.tasks = s.tasks
      /\ v.workers = s.workers /\ v.panicked = s.panicked /\ v.handles = s.handles
      /\ v.drains = s.drains /\ E \subseteq DOMAIN v.inv
  BY DEF Creates, SameButInvocations
<1>3. /\ IsState(u) /\ u.classes = s.classes /\ u.created = t
      /\ u.drains = s.drains /\ u.handles = s.handles /\ u.panicked = s.panicked
      /\ u.workers = s.workers
      /\ DOMAIN u.tasks = DOMAIN s.tasks \cup {t} /\ u.tasks[t] = x
      /\ \A y \in DOMAIN s.tasks : u.tasks[y] = s.tasks[y]
  BY DEF AddsTask
<1>4. /\ t \in Nat /\ t \notin DOMAIN s.tasks /\ s.created \in Nat /\ t \notin X
      /\ \A y \in DOMAIN s.tasks : y \in 1 .. t
      /\ \A y \in 1 .. s.created : y \in 1 .. t /\ y # t
  BY DEF StateOK, NextTask
<1>5. StateOK(u)
  <2>1. DOMAIN u.tasks \subseteq 1 .. u.created /\ u.created \in Nat
    <3>1. u.created = t /\ t \in Nat /\ DOMAIN u.tasks = DOMAIN s.tasks \cup {t}
      BY <1>3, <1>4
    <3>2. t \in 1 .. t
      BY <1>4 DEF NextTask
    <3> QED BY <1>4, <3>1, <3>2
  <2>2. \A y \in DOMAIN u.tasks : TaskOK(u.tasks[y])
    BY <1>3 DEF StateOK
  <2>3. \A w \in DOMAIN u.workers : u.workers[w] \in Worker(u.created)
    BY <1>3, <1>4 DEF StateOK, Worker
  <2> QED BY <1>1, <1>2, <1>3, <2>1, <2>2, <2>3 DEF StateOK
<1>6. CountsExecuting(v, u, None) /\ CountsIdle(v, u, None) /\ None \notin DOMAIN u.workers
  BY <1>1, <1>2, <1>3, NoWorkerConcerned
<1>7. OnlyConcerns(v, u, t, None)
  BY <1>2, <1>3, <1>4, <1>6 DEF OnlyConcerns
<1>8. TaskFine(u, Y, t)
  BY <1>3 DEF TaskFine, Pending
<1>9. CountsQueued(v, u, Y, t)
  <2>1. \A i \in DOMAIN v.inv : t \notin v.inv[i].queued
    BY <1>1, <1>2, <1>4 DEF Accounted, QueuesOK
  <2> QED BY <2>1 DEF CountsQueued
<1>10. StillUsed(v, u, X, Y, E, E, t, None)
  <2>1. X \ {t} = Y \ {t}
    OBVIOUS
  <2>2. Touched(v, X, t, None) = {}
    BY <1>2, <1>3, <1>4, <1>6 DEF Touched
  <2> HIDE DEF Y, E
  <2> QED BY <2>1, <2>2 DEF StillUsed
<1> HIDE DEF Y, E
<1>11. Accounted(u, Y, E)
  BY <1>1, <1>5, <1>6, <1>7, <1>8, <1>9, <1>10, AccountsStep
<1> QED BY <1>2, <1>5, <1>11 DEF Y, E

(* What a new task has to do with the others. *)
LessOne(n, h) == n \in Int /\ h \in Int /\ h = n - 1

MayAdd(s, X, P, action, choice, k, b, t) ==
    /\ X \subseteq DOMAIN s.tasks /\ NextTask(s, t)
    /\ ChoiceOK(s, action, choice) /\ action \notin DOMAIN s.inFlightDeduplicationMap
    /\ k \in InvocationKeys
    /\ b \in BOOLEAN /\ (b <=> action = None)
    /\ b \/ <<t, k>> \in P

NewInvocations(choice, k) == Invocations(choice.class, {k})

TaskAdded(s, u, X, t, choice, k, action) ==
    /\ NewInvocations(choice, k) \subseteq DOMAIN u.inv
    /\ AddsTask(s, u, t, u.tasks[t], u.inFlightDeduplicationMap)
    /\ t \notin DOMAIN s.tasks /\ t \notin X
    /\ u.tasks[t].class = choice.class /\ DOMAIN u.tasks[t].operations = {k}
    /\ u.tasks[t].action = action

LEMMA AddTaskOK ==
    ASSUME NEW s, NEW X, NEW n, NEW h, LessOne(n, h), NEW cl, NEW P,
           Halfway(s, X, {}, n, cl, P),
           NEW action, NEW choice, NEW k, NEW b, NEW t, MayAdd(s, X, P, action, choice, k, b, t),
           NEW u, u = addTask(s, action, choice, k, b)
    PROVE  /\ Halfway(u, X \cup {t}, NewInvocations(choice, k), h, cl, P)
           /\ TaskAdded(s, u, X, t, choice, k, action)
<1> DEFINE x == u.tasks[t]
           m == IF b THEN s.inFlightDeduplicationMap ELSE With(s.inFlightDeduplicationMap, action, t)
           E == Invocations(choice.class, {k})
<1>1. StateOK(s) /\ Accounted(s, X, {}) /\ WaitingOK(s, X) /\ HandlesOK(s, n) /\ RecordsOK(s, cl, P)
  BY DEF Halfway
<1> USE DEF MayAdd
<1>0. m = IF b THEN s.inFlightDeduplicationMap ELSE With(s.inFlightDeduplicationMap, action, t)
  OBVIOUS
<1> HIDE DEF m, x
<1>2. /\ AddsTask(s, u, t, x, m) /\ IsNewTask(x, action, choice, k, b)
      /\ CreatesFor(s, u, choice.class, k)
  BY <1>0, <1>1, AddTaskIs DEF x
<1>3. PICK v : Creates(s, v, choice.class, {k}) /\ u.inv = v.inv
  BY <1>2 DEF CreatesFor
<1>4. /\ TaskOK(x) /\ x.learner # NoLearner /\ x.worker = None /\ x.class = choice.class
      /\ x.action = action /\ x.learner = choice.learner
      /\ DOMAIN x.operations = {k} /\ x.operations[k] = NewOperation(b)
  BY <1>1, <1>2, NewTaskIs
<1>5. x.class \in s.classes /\ Creates(s, v, x.class, {k}) /\ E = Invocations(x.class, {k})
  BY <1>3, <1>4 DEF ChoiceOK
<1> HIDE DEF E
<1>6. StateOK(u) /\ Accounted(u, X \cup {t}, E) /\ E \subseteq DOMAIN u.inv
  <2>1. u.inv = v.inv /\ k \in InvocationKeys
    BY <1>3
  <2>2. /\ StateOK(u) /\ Accounted(u, X \cup {t}, Invocations(x.class, {k}))
        /\ Invocations(x.class, {k}) \subseteq DOMAIN u.inv
    BY <1>1, <1>2, <1>4, <1>5, <2>1, AddsTaskAccounts
  <2> QED BY <1>5, <2>2
<1>7. /\ t \in Nat /\ t \notin DOMAIN s.tasks /\ s.created \in Nat /\ t \notin X /\ t # None
  BY <1>1, NamesDiffer DEF StateOK, NextTask
<1>8. /\ u.inFlightDeduplicationMap = m /\ u.drains = s.drains /\ u.handles = s.handles
      /\ u.workers = s.workers
      /\ DOMAIN u.tasks = DOMAIN s.tasks \cup {t} /\ u.tasks[t] = x
      /\ \A y \in DOMAIN s.tasks : u.tasks[y] = s.tasks[y]
  BY <1>2 DEF AddsTask
<1>9. Pending(u, t) /\ \A y \in DOMAIN s.tasks : Pending(u, y) <=> Pending(s, y)
  BY <1>4, <1>8 DEF Pending
<1>10. WaitingOK(u, X \cup {t})
  <2>1. \A c : NothingQueued(s, X, c) => NothingQueued(u, X \cup {t}, c)
    BY <1>8, <1>9 DEF NothingQueued
  <2>2. \A w : isDrained(u, w) <=> isDrained(s, w)
    BY <1>8 DEF isDrained
  <2> QED BY <1>1, <1>8, <2>1, <2>2 DEF WaitingOK
<1>11. HandlesOK(u, h)
  <2>1. PendingTasks(u) = PendingTasks(s) \cup {t} /\ t \notin PendingTasks(s)
    BY <1>7, <1>8, <1>9 DEF PendingTasks
  <2>2. /\ IsFiniteSet(PendingTasks(s)) /\ Cardinality(PendingTasks(s)) \in Nat
    BY <1>1, PendingTasksAreFinite
  <2>3. Cardinality(PendingTasks(u)) = Cardinality(PendingTasks(s)) + 1
    BY <2>1, <2>2, FS_AddElement
  <2>4. s.handles = Cardinality(PendingTasks(s)) + n
    BY <1>1 DEF HandlesOK
  <2>5. u.handles = Cardinality(PendingTasks(u)) + h
    BY <1>8, <2>2, <2>3, <2>4 DEF LessOne
  <2> QED BY <2>5 DEF HandlesOK
<1>12. DeduplicationOK(u)
  <2>1. DeduplicationOK(s)
    BY <1>1 DEF RecordsOK
  <2>2. CASE b
    <3>1. m = s.inFlightDeduplicationMap /\ action = None
      BY <2>2 DEF m
    <3>2. u.inFlightDeduplicationMap = s.inFlightDeduplicationMap
      BY <1>8, <3>1
    <3>3. ASSUME NEW a \in DOMAIN s.inFlightDeduplicationMap
          PROVE  LET y == s.inFlightDeduplicationMap[a] IN
                 a \in Actions /\ y \in DOMAIN u.tasks /\ Pending(u, y) /\ u.tasks[y].action = a
      BY <1>8, <1>9, <2>1 DEF DeduplicationOK
    <3>4. ASSUME NEW y \in DOMAIN u.tasks, Pending(u, y), u.tasks[y].action # None
          PROVE  LET a == u.tasks[y].action IN
                 /\ a \in DOMAIN s.inFlightDeduplicationMap
                 /\ s.inFlightDeduplicationMap[a] = y
      <4>1. y \in DOMAIN s.tasks
        BY <1>4, <1>8, <3>1, <3>4
      <4>2. Pending(s, y) /\ u.tasks[y] = s.tasks[y]
        BY <1>8, <1>9, <3>4, <4>1
      <4> QED BY <2>1, <3>4, <4>1, <4>2 DEF DeduplicationOK
    <3> QED BY <3>2, <3>3, <3>4 DEF DeduplicationOK
  <2>3. CASE ~b
    <3>1. /\ DOMAIN m = DOMAIN s.inFlightDeduplicationMap \cup {action}
          /\ m[action] = t
          /\ \A a \in DOMAIN s.inFlightDeduplicationMap : m[a] = s.inFlightDeduplicationMap[a]
      BY <2>3 DEF m, With
    <3>2. action \in Actions
      BY <2>3 DEF ChoiceOK
    <3>3. \A a \in DOMAIN m :
             a \in Actions /\ m[a] \in DOMAIN u.tasks /\ Pending(u, m[a]) /\ u.tasks[m[a]].action = a
      BY <1>4, <1>8, <1>9, <2>1, <3>1, <3>2 DEF DeduplicationOK
    <3>4. \A y \in DOMAIN u.tasks :
             Pending(u, y) /\ u.tasks[y].action # None =>
                u.tasks[y].action \in DOMAIN m /\ m[u.tasks[y].action] = y
      BY <1>4, <1>8, <1>9, <2>1, <3>1 DEF DeduplicationOK
    <3> QED BY <1>8, <3>3, <3>4 DEF DeduplicationOK
  <2> QED BY <2>2, <2>3
<1>13. LearnersOK(u)
  <2>1. LearnersOK(s)
    BY <1>1 DEF RecordsOK
  <2> QED BY <1>4, <1>8, <1>9, <2>1 DEF LearnersOK, ChoiceOK
<1>14. ClientsOK(u, cl)
  BY <1>1, <1>8 DEF RecordsOK, ClientsOK
<1>15. OperationsOK(u, cl, P)
  <2> SUFFICES ASSUME NEW y \in DOMAIN u.tasks, NEW l \in DOMAIN u.tasks[y].operations
               PROVE  OperationFine(u, cl, P, y, l)
    BY DEF OperationsOK
  <2>1. CASE y \in DOMAIN s.tasks
    <3>1. OperationFine(s, cl, P, y, l)
      BY <1>1, <1>8, <2>1 DEF RecordsOK, OperationsOK
    <3> QED BY <1>8, <1>9, <2>1, <3>1 DEF OperationFine
  <2>2. CASE y \notin DOMAIN s.tasks
    <3>1. y = t /\ l = k
      BY <1>4, <1>8, <2>2
    <3>2. Waiters(cl, t, k) = {}
      BY <1>1, <1>7 DEF Waiters, RecordsOK, ClientsOK
    <3>3. Cardinality(Waiters(cl, t, k)) = 0
      BY <3>2, FS_EmptySet
    <3> DEFINE o == NewOperation(b)
    <3>4. o.waiters = 0 /\ o.mayExistWithoutWaiters = b /\ o.cleanup = FALSE
      BY NewOperationIs
    <3>5. u.tasks[t].operations[k] = o
      BY <1>4, <1>8
    <3> HIDE DEF o
    <3> QED BY <1>4, <1>8, <1>9, <3>1, <3>3, <3>4, <3>5 DEF OperationFine
  <2> QED BY <2>1, <2>2
<1>16. Halfway(u, X \cup {t}, E, h, cl, P)
  BY <1>6, <1>10, <1>11, <1>12, <1>13, <1>14, <1>15 DEF Halfway, RecordsOK
<1> QED BY <1>2, <1>4, <1>6, <1>7, <1>8, <1>16 DEF E, NewInvocations, TaskAdded

(* Nobody waits for some operations. *)
LEMMA MoreUnattended ==
    ASSUME NEW s, NEW X, NEW E, NEW n, NEW cl, NEW P, NEW Q, Halfway(s, X, E, n, cl, P), P \subseteq Q
    PROVE  Halfway(s, X, E, n, cl, Q)
  BY DEF Halfway, RecordsOK, OperationsOK, OperationFine

(* A task that is created and scheduled. *)
Scheduled(s, u, t, action, k) ==
    /\ t \notin DOMAIN s.tasks /\ u.created = t /\ u.classes = s.classes
    /\ u.handles = s.handles
    /\ DOMAIN u.tasks = DOMAIN s.tasks \cup {t}
    /\ u.tasks[t].action = action /\ DOMAIN u.tasks[t].operations = {k}
    /\ \A y \in DOMAIN s.tasks : u.tasks[y] = s.tasks[y]
    /\ DOMAIN u.workers = DOMAIN s.workers
    /\ \A w \in DOMAIN s.workers : s.workers[w].wait # "queued" => u.workers[w] = s.workers[w]

LEMMA AddAndScheduleOK ==
    ASSUME NEW s, NEW X, NEW n, NEW h, LessOne(n, h), NEW cl, NEW P,
           Halfway(s, X, {}, n, cl, P),
           NEW action, NEW choice, NEW k, NEW b, NEW t, MayAdd(s, X, P, action, choice, k, b, t),
           NEW v, v = addTask(s, action, choice, k, b), NEW u \in schedule(v, t)
    PROVE  /\ Halfway(u, X, {}, h, cl, P)
           /\ v.created = t /\ Scheduled(s, u, t, action, k)
<1> DEFINE E == NewInvocations(choice, k)
<1>0. Halfway(v, X \cup {t}, E, h, cl, P) /\ TaskAdded(s, v, X, t, choice, k, action)
  BY AddTaskOK
<1> HIDE DEF E
<1>1. /\ E \subseteq DOMAIN v.inv
      /\ AddsTask(s, v, t, v.tasks[t], v.inFlightDeduplicationMap)
      /\ t \notin DOMAIN s.tasks /\ t \notin X
      /\ v.tasks[t].action = action /\ DOMAIN v.tasks[t].operations = {k}
      /\ E = Invocations(v.tasks[t].class, DOMAIN v.tasks[t].operations)
  BY <1>0 DEF TaskAdded, NewInvocations, E
<1>2. /\ v.classes = s.classes /\ v.created = t /\ v.workers = s.workers /\ v.handles = s.handles
      /\ DOMAIN v.tasks = DOMAIN s.tasks \cup {t}
      /\ \A y \in DOMAIN s.tasks : v.tasks[y] = s.tasks[y]
  BY <1>1 DEF AddsTask
<1>3. /\ t \in DOMAIN v.tasks /\ t \notin X
      /\ Invocations(v.tasks[t].class, DOMAIN v.tasks[t].operations) \subseteq DOMAIN v.inv
      /\ E \subseteq Invocations(v.tasks[t].class, DOMAIN v.tasks[t].operations)
  BY <1>1, <1>2
<1>4. Halfway(u, X, {}, h, cl, P) /\ Schedules(v, u, t)
  BY <1>0, <1>3, ScheduleOK
<1>5. /\ u.created = t /\ u.classes = s.classes /\ u.handles = s.handles
      /\ DOMAIN u.tasks = DOMAIN s.tasks \cup {t}
      /\ \A y \in DOMAIN v.tasks \ {t} : u.tasks[y] = v.tasks[y]
      /\ SameTask(v.tasks[t], u.tasks[t])
      /\ DOMAIN u.workers = DOMAIN s.workers
      /\ \A w \in DOMAIN s.workers : s.workers[w].wait # "queued" => u.workers[w] = s.workers[w]
  BY <1>2, <1>4 DEF Schedules, SameScalars, OnlyTask, SameRecords
<1>6. /\ u.tasks[t].action = action /\ DOMAIN u.tasks[t].operations = {k}
      /\ \A y \in DOMAIN s.tasks : u.tasks[y] = s.tasks[y]
  BY <1>1, <1>2, <1>5 DEF SameTask
<1> QED BY <1>1, <1>2, <1>4, <1>5, <1>6 DEF Scheduled

LEMMA ScheduledEvolves ==
    ASSUME NEW s, StateOK(s), NEW t, NextTask(s, t), NEW action, NEW k,
           NEW u, Scheduled(s, u, t, action, k)
    PROVE  Evolves(s, u, {}) /\ Quiet(s, u, {})
<1>1. s.created \in Nat /\ t \in Nat /\ s.created <= t /\ t \notin 1 .. s.created
  BY DEF StateOK, NextTask
<1>2. Evolves(s, u, {})
  BY <1>1 DEF Scheduled, Evolves, Pending
<1>3. Quiet(s, u, {})
  BY DEF Scheduled, Quiet
<1> QED BY <1>2, <1>3

-----------------------------------------------------------------------------
(* complete(): the outcome is recorded, with h handles being left. *)
LEMMA FinishIs ==
    ASSUME NEW s, StateOK(s), NEW t \in DOMAIN s.tasks, NEW e, NEW h,
           NEW r, r = [s EXCEPT !.handles = h],
           NEW u, u = markCompleted([r EXCEPT !.tasks[t].event = e], t)
    PROVE  Completes(s, u, t, s.tasks[t].failed, e, h)
<1> DEFINE x == [s.tasks[t] EXCEPT !.event = e]
           y == [s.tasks EXCEPT ![t] = x]
           z == [r EXCEPT !.tasks[t].event = e]
<1>1. IsState(s) /\ IsTask(s.tasks[t])
  BY DEF StateOK, TaskOK
<1>2. z = [s EXCEPT !.handles = h, !.tasks = y]
  BY <1>1 DEF IsState, Fields
<1>3. DOMAIN y = DOMAIN s.tasks /\ y[t] = x /\ \A j \in DOMAIN s.tasks \ {t} : y[j] = s.tasks[j]
  OBVIOUS
<1>4. /\ IsTask(x) /\ x.action = s.tasks[t].action /\ x.class = s.tasks[t].class
      /\ x.learner = s.tasks[t].learner /\ x.worker = s.tasks[t].worker
      /\ x.retryCount = s.tasks[t].retryCount /\ x.operations = s.tasks[t].operations
      /\ x.failed = s.tasks[t].failed /\ x.event = e
  BY <1>1 DEF IsTask, TaskFields
<1> HIDE DEF x, y
<1>5. /\ IsState(z) /\ z.tasks = y /\ z.handles = h
      /\ z.classes = s.classes /\ z.created = s.created
      /\ z.inFlightDeduplicationMap = s.inFlightDeduplicationMap
      /\ z.inv = s.inv /\ z.workers = s.workers
      /\ z.drains = s.drains /\ z.panicked = s.panicked
  BY <1>1, <1>2 DEF IsState, Fields
<1>6. u = markCompleted(z, t)
  OBVIOUS
<1> HIDE DEF z
<1>7. OnlyTask(s, z, t) /\ z.tasks[t] = x
  BY <1>3, <1>5 DEF OnlyTask
<1>8. Records(s, z, t, s.tasks[t].failed, e, h)
  BY <1>4, <1>5, <1>7 DEF Records
<1> QED BY <1>6, <1>8, CompletesIs

(* The task is not executed any more, and nothing else changes. *)
Finishes(s, u, t) ==
    /\ u.created = s.created /\ u.classes = s.classes
    /\ OnlyTask(s, u, t) /\ ~Pending(u, t) /\ u.workers = s.workers

FinishHandles(n, d) == n + d + 1

LEMMA FinishOK ==
    ASSUME NEW s, NEW n \in Int, NEW cl, NEW P, NEW t \in DOMAIN s.tasks, Halfway(s, {t}, {}, n, cl, P),
           NEW e \in BOOLEAN, s.tasks[t].action # None => e, NEW d \in Int, NEW h, h = s.handles + d,
           NEW r, r = [s EXCEPT !.handles = h],
           NEW u, u = markCompleted([r EXCEPT !.tasks[t].event = e], t)
    PROVE  Halfway(u, {}, {}, FinishHandles(n, d), cl, P) /\ Finishes(s, u, t)
<1>1. StateOK(s) /\ s.tasks[t].failed \in BOOLEAN
  BY DEF Halfway, StateOK, TaskOK
<1>2. Completes(s, u, t, s.tasks[t].failed, e, h)
  BY <1>1, FinishIs
<1>3. Finishes(s, u, t)
  BY <1>2 DEF Completes, Finishes, Pending
<1>4. Halfway(u, {}, {}, n + d + 1, cl, P)
  <2> DEFINE f == s.tasks[t].failed
  <2>1. Completes(s, u, t, f, e, s.handles + d) /\ f \in BOOLEAN
    BY <1>1, <1>2
  <2>2. CompletesWith(s, u, t, f, e, d, n, cl, P)
    BY <2>1 DEF CompletesWith
  <2> HIDE DEF f
  <2> QED BY <2>2, CompletesOK
<1> QED BY <1>3, <1>4 DEF FinishHandles

(* The handle is released. *)
LEMMA FinishReleasing ==
    ASSUME NEW s, NEW cl, NEW t \in DOMAIN s.tasks, Halfway(s, {t}, {}, 0, cl, {}),
           NEW e \in BOOLEAN, s.tasks[t].action # None => e,
           NEW u, u = markCompleted([releaseHandle(s) EXCEPT !.tasks[t].event = e], t)
    PROVE  SchedulerInv(u, cl) /\ Finishes(s, u, t)
<1> DEFINE n == 0
           d == -1
           P == {}
           h == s.handles - 1
           r == releaseHandle(s)
<1>1. s.handles \in Int /\ IsState(s)
  BY DEF Halfway, StateOK
<1>2. n \in Int /\ d \in Int /\ h = s.handles + d /\ FinishHandles(n, d) = 0 /\ P = {}
  BY <1>1 DEF FinishHandles
<1>3. r = [s EXCEPT !.handles = h]
  BY <1>1 DEF releaseHandle, IsState, Fields
<1>4. Halfway(s, {t}, {}, n, cl, P) /\ u = markCompleted([r EXCEPT !.tasks[t].event = e], t)
  OBVIOUS
<1> HIDE DEF n, d, P, h, r
<1>5. Halfway(u, {}, {}, FinishHandles(n, d), cl, P) /\ Finishes(s, u, t)
  BY <1>2, <1>3, <1>4, FinishOK
<1> QED BY <1>2, <1>5 DEF SchedulerInv

(* The handle has been passed on to another task. *)
LEMMA FinishKeeping ==
    ASSUME NEW s, NEW cl, NEW t \in DOMAIN s.tasks, NEW m, m = -1, Halfway(s, {t}, {}, m, cl, {}),
           NEW e \in BOOLEAN, s.tasks[t].action # None => e,
           NEW u, u = markCompleted([s EXCEPT !.tasks[t].event = e], t)
    PROVE  SchedulerInv(u, cl) /\ Finishes(s, u, t)
<1> DEFINE n == m
           d == 0
           P == {}
           h == s.handles
<1>1. s.handles \in Int /\ IsState(s)
  BY DEF Halfway, StateOK
<1>2. n \in Int /\ d \in Int /\ h = s.handles + d /\ FinishHandles(n, d) = 0 /\ P = {}
  BY <1>1 DEF FinishHandles
<1>3. s = [s EXCEPT !.handles = h]
  BY <1>1 DEF IsState, Fields
<1>4. Halfway(s, {t}, {}, n, cl, P)
  OBVIOUS
<1> HIDE DEF n, d, P, h
<1>5. Halfway(u, {}, {}, FinishHandles(n, d), cl, P) /\ Finishes(s, u, t)
  BY <1>2, <1>3, <1>4, FinishOK
<1> QED BY <1>2, <1>5 DEF SchedulerInv

(* A task that is going to be retried on the largest size class. *)
Retried(x, y) ==
    /\ IsTask(y) /\ y.learner = LargestLearner /\ y.class = Largest
    /\ y.action = x.action /\ y.worker = x.worker /\ y.retryCount = x.retryCount
    /\ y.operations = x.operations /\ y.failed = x.failed /\ y.event = x.event

LEMMA RetriedIs ==
    ASSUME NEW s, StateOK(s), NEW t \in DOMAIN s.tasks,
           NEW u, u = [s EXCEPT !.tasks[t].learner = LargestLearner, !.tasks[t].class = Largest]
    PROVE  ChangesTask(s, u, t, u.tasks[t]) /\ Retried(s.tasks[t], u.tasks[t])
<1> DEFINE x == s.tasks[t]
           y == [x EXCEPT !.learner = LargestLearner, !.class = Largest]
<1>1. IsState(s) /\ IsTask(x)
  BY DEF StateOK, TaskOK
<1>2. u = [s EXCEPT !.tasks[t] = y]
  BY <1>1 DEF IsState, Fields
<1> HIDE DEF x
<1>3. Retried(x, y)
  BY <1>1 DEF IsTask, TaskFields, Retried
<1> HIDE DEF y
<1>4. ChangesTask(s, u, t, y)
  BY <1>1, <1>2, ChangesTaskIs
<1> QED BY <1>3, <1>4 DEF ChangesTask, x

LEMMA LargestLearnerIs ==
    LargestLearner \in Learner /\ LargestLearner # NoLearner /\ LargestLearner.kind = "largest"
  BY LargestIsLargest DEF LargestLearner, Learner, NoLearner

LEMMA RetriedAccounts ==
    ASSUME NEW s, NEW t \in DOMAIN s.tasks, StateOK(s), Accounted(s, {t}, {}),
           NEW y, NEW u, ChangesTask(s, u, t, y), Retried(s.tasks[t], y)
    PROVE  StateOK(u) /\ Accounted(u, {t}, {})
<1>1. /\ SameScalars(s, u) /\ u.inv = s.inv /\ u.workers = s.workers
      /\ DOMAIN u.tasks = DOMAIN s.tasks /\ u.tasks[t] = y
      /\ \A x \in DOMAIN s.tasks \ {t} : u.tasks[x] = s.tasks[x]
  BY DEF ChangesTask, OnlyTask
<1>2. /\ Pending(s, t) /\ s.tasks[t].worker = None /\ DOMAIN s.tasks[t].operations # {}
  BY DEF Accounted, TasksOK
<1>3. /\ Pending(u, t) /\ u.tasks[t].worker = None /\ u.tasks[t].class = Largest
      /\ DOMAIN u.tasks[t].operations # {}
  BY <1>1, <1>2, LargestLearnerIs DEF Retried, Pending
<1>4. StateOK(u)
  <2>1. TaskOK(s.tasks[t])
    BY DEF StateOK
  <2>2. TaskOK(y)
    BY <2>1, LargestLearnerIs, LargestIsLargest DEF TaskOK, Retried
  <2>3. \A x \in DOMAIN u.tasks : TaskOK(u.tasks[x])
    BY <1>1, <2>2 DEF StateOK
  <2> QED BY <1>1, <2>3 DEF StateOK, SameScalars
<1>5. CountsExecuting(s, u, None) /\ CountsIdle(s, u, None) /\ None \notin DOMAIN u.workers
  BY <1>1, NoWorkerConcerned
<1>6. OnlyConcerns(s, u, t, None)
  BY <1>1, <1>2, <1>5 DEF OnlyConcerns, SameScalars
<1>7. TaskFine(u, {t}, t)
  BY <1>3, <1>4 DEF TaskFine, StateOK
<1>8. CountsQueued(s, u, {t}, t)
  <2>1. \A i \in DOMAIN s.inv : t \notin s.inv[i].queued
    BY DEF Accounted, QueuesOK
  <2> QED BY <1>1, <2>1 DEF CountsQueued
<1>9. StillUsed(s, u, {t}, {t}, {}, {}, t, None)
  <2>1. None \notin DOMAIN s.workers
    BY <1>1, <1>5
  <2>2. Touched(s, {t}, t, None) = {}
    BY <2>1 DEF Touched
  <2> QED BY <2>2 DEF StillUsed
<1>10. Accounted(u, {t}, {})
  BY <1>4, <1>5, <1>6, <1>7, <1>8, <1>9, AccountsStep
<1> QED BY <1>4, <1>10

LEMMA RetriedOK ==
    ASSUME NEW s, NEW cl, NEW P, NEW n, NEW t \in DOMAIN s.tasks, Halfway(s, {t}, {}, n, cl, P),
           NEW y, NEW u, ChangesTask(s, u, t, y), Retried(s.tasks[t], y)
    PROVE  Halfway(u, {t}, {}, n, cl, P)
<1>1. StateOK(s) /\ Accounted(s, {t}, {}) /\ WaitingOK(s, {t}) /\ HandlesOK(s, n) /\ RecordsOK(s, cl, P)
  BY DEF Halfway
<1>2. /\ u.inFlightDeduplicationMap = s.inFlightDeduplicationMap /\ u.handles = s.handles
      /\ u.drains = s.drains /\ u.workers = s.workers
      /\ DOMAIN u.tasks = DOMAIN s.tasks /\ u.tasks[t] = y
      /\ \A x \in DOMAIN s.tasks \ {t} : u.tasks[x] = s.tasks[x]
  BY DEF ChangesTask, OnlyTask, SameScalars
<1>3. /\ Pending(s, t) /\ Pending(u, t)
      /\ \A x \in DOMAIN s.tasks : Pending(u, x) <=> Pending(s, x)
  BY <1>1, <1>2, LargestLearnerIs DEF Retried, Pending, Accounted, TasksOK
<1>4. /\ y.action = s.tasks[t].action /\ y.operations = s.tasks[t].operations
      /\ y.learner = LargestLearner /\ y.class = Largest
  BY DEF Retried
<1>5. \A x \in DOMAIN s.tasks :
         u.tasks[x].action = s.tasks[x].action /\ u.tasks[x].operations = s.tasks[x].operations
  BY <1>2, <1>4
<1>6. WaitingOK(u, {t})
  <2>1. \A c : NothingQueued(s, {t}, c) => NothingQueued(u, {t}, c)
    BY <1>2, <1>3 DEF NothingQueued
  <2>2. \A w : isDrained(u, w) <=> isDrained(s, w)
    BY <1>2 DEF isDrained
  <2> QED BY <1>1, <1>2, <2>1, <2>2 DEF WaitingOK
<1>7. HandlesOK(u, n)
  <2>1. PendingTasks(u) = PendingTasks(s)
    BY <1>2, <1>3 DEF PendingTasks
  <2> QED BY <1>1, <1>2, <2>1 DEF HandlesOK
<1>8. DeduplicationOK(u)
  <2>1. DeduplicationOK(s)
    BY <1>1 DEF RecordsOK
  <2> QED BY <1>2, <1>3, <1>5, <2>1 DEF DeduplicationOK
<1>9. LearnersOK(u)
  <2>1. LearnersOK(s)
    BY <1>1 DEF RecordsOK
  <2> QED BY <1>2, <1>3, <1>4, <2>1, LargestLearnerIs DEF LearnersOK
<1>10. ClientsOK(u, cl)
  BY <1>1, <1>2, <1>5 DEF RecordsOK, ClientsOK
<1>11. OperationsOK(u, cl, P)
  <2> SUFFICES ASSUME NEW x \in DOMAIN s.tasks, NEW k \in DOMAIN s.tasks[x].operations
               PROVE  OperationFine(u, cl, P, x, k)
    BY <1>2, <1>5 DEF OperationsOK
  <2>1. OperationFine(s, cl, P, x, k)
    BY <1>1 DEF RecordsOK, OperationsOK
  <2>2. /\ u.tasks[x].operations[k] = s.tasks[x].operations[k]
        /\ u.tasks[x].action = s.tasks[x].action
        /\ Pending(u, x) <=> Pending(s, x)
    BY <1>3, <1>5
  <2> QED BY <2>1, <2>2 DEF OperationFine
<1> QED BY <1>1, <1>6, <1>7, <1>8, <1>9, <1>10, <1>11, RetriedAccounts DEF Halfway, RecordsOK

(* Creation of invocations for a task that is about to be scheduled. *)
LEMMA CreatesOK ==
    ASSUME NEW s, NEW X, NEW n, NEW cl, NEW P, Halfway(s, X, {}, n, cl, P),
           NEW c \in s.classes, NEW K \in SUBSET InvocationKeys, NEW u, Creates(s, u, c, K)
    PROVE  Halfway(u, X, Invocations(c, K), n, cl, P)
<1> DEFINE E == {}
<1>1. /\ StateOK(s) /\ Accounted(s, X, E) /\ WaitingOK(s, X) /\ HandlesOK(s, n) /\ RecordsOK(s, cl, P)
  BY DEF Halfway
<1>2. E \cup Invocations(c, K) = Invocations(c, K)
  OBVIOUS
<1> HIDE DEF E
<1>3. StateOK(u) /\ Accounted(u, X, E \cup Invocations(c, K))
  BY <1>1, CreatesAccounts
<1>4. /\ u.inFlightDeduplicationMap = s.inFlightDeduplicationMap /\ u.handles = s.handles
      /\ u.drains = s.drains /\ u.workers = s.workers /\ u.tasks = s.tasks
  BY DEF Creates, SameButInvocations
<1>5. WaitingOK(u, X)
  BY <1>1, <1>4 DEF WaitingOK, NothingQueued, isDrained, Pending
<1>6. SameRecords(s, u)
  BY <1>1, <1>4 DEF SameRecords, SameTask, StateOK, TaskOK
<1>7. RecordsOK(u, cl, P) /\ HandlesOK(u, n)
  BY <1>1, <1>4, <1>6, RecordsStep
<1> QED BY <1>2, <1>3, <1>5, <1>7 DEF Halfway

Rescheduled(s, u, t) ==
    /\ u.created = s.created /\ OnlyTask(s, u, t)
    /\ DOMAIN u.workers = DOMAIN s.workers
    /\ \A w \in DOMAIN s.workers : s.workers[w].wait # "queued" => u.workers[w] = s.workers[w]

LEMMA SchedulesAgain ==
    ASSUME NEW s, NEW r, NEW v, NEW u, NEW t,
           DOMAIN r.tasks = DOMAIN s.tasks, r.workers = s.workers, r.created = s.created,
           \A x \in DOMAIN s.tasks \ {t} : r.tasks[x] = s.tasks[x],
           v.tasks = r.tasks, v.workers = r.workers, v.created = r.created,
           Schedules(v, u, t)
    PROVE  Rescheduled(s, u, t)
<1>1. u.created = v.created /\ OnlyTask(v, u, t)
  BY DEF Schedules, SameScalars
<1>2. OnlyTask(s, u, t)
  BY <1>1 DEF OnlyTask
<1> QED BY <1>1, <1>2 DEF Schedules, Rescheduled

LEMMA RescheduleOK ==
    ASSUME NEW s, NEW cl, NEW t \in DOMAIN s.tasks, Halfway(s, {t}, {}, 0, cl, {}),
           NEW K, K = DOMAIN s.tasks[t].operations,
           NEW r, r = [s EXCEPT !.tasks[t].learner = LargestLearner, !.tasks[t].class = Largest],
           NEW v, v = getOrCreateInvocation(r, Largest, K),
           NEW u \in schedule(v, t)
    PROVE  SchedulerInv(u, cl) /\ Rescheduled(s, u, t)
<1> DEFINE n == 0
           P == {}
           X == {}
           E == Invocations(Largest, K)
<1>0. Halfway(s, {t}, {}, n, cl, P)
  OBVIOUS
<1>1. X \cup {t} = {t} /\ t \notin X /\ n = 0 /\ P = {} /\ X = {}
  OBVIOUS
<1> HIDE DEF n, P, X
<1>2. ChangesTask(s, r, t, r.tasks[t]) /\ Retried(s.tasks[t], r.tasks[t])
  BY <1>0, RetriedIs DEF Halfway
<1>3. Halfway(r, {t}, {}, n, cl, P)
  BY <1>0, <1>2, RetriedOK
<1>4. IsState(r) /\ Creates(r, v, Largest, K)
  BY <1>3, GetOrCreateIs DEF Halfway, StateOK
<1>5. /\ Largest \in r.classes /\ K \in SUBSET InvocationKeys
      /\ K = DOMAIN r.tasks[t].operations /\ r.tasks[t].class = Largest
  <2>1. K = DOMAIN r.tasks[t].operations /\ r.tasks[t].class = Largest /\ t \in DOMAIN r.tasks
    BY <1>2 DEF ChangesTask, OnlyTask, Retried
  <2> QED BY <1>3, <2>1 DEF Halfway, StateOK, TaskOK
<1>6. Halfway(v, {t}, E, n, cl, P)
  BY <1>3, <1>4, <1>5, CreatesOK
<1>7. /\ v.tasks = r.tasks /\ v.workers = r.workers /\ v.created = r.created
      /\ E \subseteq DOMAIN v.inv
  BY <1>4 DEF Creates, SameButInvocations
<1>8. /\ DOMAIN r.tasks = DOMAIN s.tasks /\ r.workers = s.workers /\ r.created = s.created
      /\ \A x \in DOMAIN s.tasks \ {t} : r.tasks[x] = s.tasks[x]
  BY <1>2 DEF ChangesTask, OnlyTask, SameScalars
<1>9. E = Invocations(v.tasks[t].class, DOMAIN v.tasks[t].operations)
  BY <1>5, <1>7
<1> HIDE DEF E
<1>10. /\ t \in DOMAIN v.tasks /\ t \notin X
       /\ Halfway(v, X \cup {t}, E, n, cl, P)
       /\ Invocations(v.tasks[t].class, DOMAIN v.tasks[t].operations) \subseteq DOMAIN v.inv
       /\ E \subseteq Invocations(v.tasks[t].class, DOMAIN v.tasks[t].operations)
  BY <1>1, <1>6, <1>7, <1>8, <1>9
<1>11. Halfway(u, X, {}, n, cl, P) /\ Schedules(v, u, t)
  BY <1>10, ScheduleOK
<1>12. Rescheduled(s, u, t)
  BY <1>7, <1>8, <1>11, SchedulesAgain, ZenonT(60)
<1>13. SchedulerInv(u, cl)
  BY <1>1, <1>11 DEF SchedulerInv
<1> QED BY <1>12, <1>13

(* scheduleInBackground(). *)
LEMMA ScheduleInBackgroundOK ==
    ASSUME NEW s, NEW cl, NEW t \in DOMAIN s.tasks, Halfway(s, {t}, {}, 0, cl, {}),
           NEW b, ChoiceOK(s, None, b), NEW u \in scheduleInBackground(s, b)
    PROVE  \/ u = releaseHandle(s)
           \/ /\ \E m : m = -1 /\ Halfway(u, {t}, {}, m, cl, {})
              /\ Scheduled(s, u, s.created + 1, None, BackgroundLearningKeys)
<1> DEFINE v == addTask(s, None, b, BackgroundLearningKeys, TRUE)
<1>1. u = releaseHandle(s) \/ u \in schedule(v, v.created)
  BY DEF scheduleInBackground
<1>2. ASSUME u \in schedule(v, v.created)
      PROVE  /\ \E m : m = -1 /\ Halfway(u, {t}, {}, m, cl, {})
             /\ Scheduled(s, u, s.created + 1, None, BackgroundLearningKeys)
  <2> DEFINE n == 0
             h == -1
             P == {}
             X == {t}
             x == s.created + 1
             k == BackgroundLearningKeys
             B == TRUE
  <2>1. Halfway(s, X, {}, n, cl, P) /\ LessOne(n, h) /\ v = addTask(s, None, b, k, B)
    BY DEF LessOne
  <2>2. MayAdd(s, X, P, None, b, k, B, x)
    <3>1. None \notin DOMAIN s.inFlightDeduplicationMap
      BY NamesDiffer DEF Halfway, RecordsOK, DeduplicationOK
    <3> QED BY <3>1, NamesDiffer DEF MayAdd, NextTask
  <2>3. v.created = x
    <3>1. AddsTask(s, v, x, v.tasks[x], IF B THEN s.inFlightDeduplicationMap
                                        ELSE With(s.inFlightDeduplicationMap, None, x))
      <4>1. StateOK(s) /\ NextTask(s, x)
        BY DEF Halfway, NextTask
      <4> HIDE DEF x, k, B
      <4> QED BY <2>1, <4>1, AddTaskIs
    <3> HIDE DEF v, B, x
    <3> QED BY <3>1 DEF AddsTask
  <2> HIDE DEF n, h, P, X, x, k, B, v
  <2>4. u \in schedule(v, x)
    BY <1>2, <2>3
  <2>5. Halfway(u, X, {}, h, cl, P) /\ Scheduled(s, u, x, None, k)
    BY <2>1, <2>2, <2>4, AddAndScheduleOK
  <2> QED BY <2>5 DEF h, X, P, x, k
<1> QED BY <1>1, <1>2

(* What follows for the other tasks and workers. *)
Concludes(s, z, t) ==
    /\ s.created \in Nat /\ z.created \in Nat /\ s.created <= z.created
    /\ \A x \in DOMAIN z.tasks \ {t} :
          x \in 1 .. s.created => x \in DOMAIN s.tasks /\ z.tasks[x] = s.tasks[x]
    /\ DOMAIN z.workers = DOMAIN s.workers
    /\ \A w \in DOMAIN s.workers : s.workers[w].wait # "queued" => z.workers[w] = s.workers[w]

CompletesFor(s, z, cl, w, t) ==
    /\ SchedulerInv(z, cl)
    /\ Evolves(s, z, {t}) /\ Quiet(s, z, {w})
    /\ w \in DOMAIN z.workers /\ z.workers[w].task = None /\ z.workers[w].wait = "no"

(* Task t, which worker w was executing, has left its stage. *)
LeftBy(s, u, w, t) ==
    /\ StateOK(s) /\ t \in DOMAIN s.tasks /\ w \in DOMAIN s.workers
    /\ s.workers[w].task = t /\ s.workers[w].wait = "no" /\ t # None
    /\ Moves(s, u, t, None) /\ Frees(s, u, t)

LEMMA ConcludesEvolves ==
    ASSUME NEW s, NEW u, NEW w, NEW t, LeftBy(s, u, w, t), NEW cl, NEW z, Concludes(u, z, t),
           SchedulerInv(z, cl)
    PROVE  CompletesFor(s, z, cl, w, t)
<1> /\ StateOK(s) /\ t \in DOMAIN s.tasks /\ w \in DOMAIN s.workers
    /\ s.workers[w].task = t /\ s.workers[w].wait = "no" /\ t # None
    /\ Moves(s, u, t, None) /\ Frees(s, u, t)
  BY DEF LeftBy
<1>1. u.created = s.created /\ DOMAIN u.tasks = DOMAIN s.tasks
      /\ \A x \in DOMAIN s.tasks \ {t} : u.tasks[x] = s.tasks[x]
  BY DEF Moves, SameScalars, OnlyTask
<1>2. Evolves(s, z, {t})
  BY <1>1 DEF Concludes, Evolves, Pending
<1>3. Quiet(s, z, {w})
  <2> SUFFICES ASSUME NEW v \in DOMAIN z.workers \ {w},
                      s.workers[v].task = None /\ s.workers[v].wait = "no"
               PROVE  z.workers[v].task = None /\ z.workers[v].wait = "no"
    BY DEF Quiet, Concludes, Frees
  <2>1. v \in DOMAIN s.workers /\ v \in DOMAIN u.workers
    BY DEF Concludes, Frees
  <2>2. u.workers[v] = s.workers[v]
    BY <2>1 DEF Frees
  <2> QED BY <2>1, <2>2 DEF Concludes
<1>4. u.workers[w].task = None /\ u.workers[w].wait = "no" /\ w \in DOMAIN u.workers
  BY DEF Frees
<1>5. w \in DOMAIN z.workers /\ z.workers[w] = u.workers[w]
  BY <1>4 DEF Concludes
<1> QED BY <1>2, <1>3, <1>4, <1>5 DEF CompletesFor

LEMMA FinishesConcludes ==
    ASSUME NEW s, StateOK(s), NEW t, NEW z, Finishes(s, z, t)
    PROVE  Concludes(s, z, t)
BY DEF StateOK, Finishes, OnlyTask, Concludes

LEMMA RescheduledConcludes ==
    ASSUME NEW s, StateOK(s), NEW t, NEW z, Rescheduled(s, z, t)
    PROVE  Concludes(s, z, t)
BY DEF StateOK, Rescheduled, OnlyTask, Concludes

LEMMA ScheduledConcludes ==
    ASSUME NEW s, StateOK(s), NEW t \in DOMAIN s.tasks, NEW x, NextTask(s, x), NEW k,
           NEW v, Scheduled(s, v, x, None, k), NEW z, Finishes(v, z, t)
    PROVE  Concludes(s, z, t)
<1>1. s.created \in Nat /\ v.created = s.created + 1 /\ z.created = v.created
  BY DEF StateOK, NextTask, Scheduled, Finishes
<1>2. ASSUME NEW y \in DOMAIN z.tasks \ {t}, y \in 1 .. s.created
      PROVE  y \in DOMAIN s.tasks /\ z.tasks[y] = s.tasks[y]
  <2>1. y \in DOMAIN v.tasks /\ z.tasks[y] = v.tasks[y]
    BY DEF Finishes, OnlyTask
  <2>2. y # x
    BY <1>1, <1>2 DEF NextTask
  <2> QED BY <2>1, <2>2 DEF Scheduled
<1>3. /\ DOMAIN z.workers = DOMAIN s.workers
      /\ \A w \in DOMAIN s.workers : s.workers[w].wait # "queued" => z.workers[w] = s.workers[w]
  BY DEF Scheduled, Finishes
<1> QED BY <1>1, <1>2, <1>3 DEF Concludes

(* The event that is recorded. *)
EventOK(s, w, succeeded, event) ==
    /\ succeeded \in BOOLEAN /\ event \in BOOLEAN
    /\ succeeded => event
    /\ WorkerClass[w] = Largest => event

LEMMA EventIsThere ==
    ASSUME NEW s, NEW cl, SchedulerInv(s, cl), NEW w \in DOMAIN s.workers, NEW t,
           t = s.workers[w].task, t # None, NEW succeeded, NEW event,
           EventOK(s, w, succeeded, event), succeeded \/ Failed(s.tasks[t].learner) = NoLearner,
           s.tasks[t].action # None
    PROVE  event
<1>1. /\ t \in DOMAIN s.tasks /\ Pending(s, t) /\ s.tasks[t].class = WorkerClass[w]
  BY DEF SchedulerInv, Halfway, Accounted, WorkersOK
<1>2. LearnersOK(s) /\ s.tasks[t].learner \in Learner
  BY <1>1 DEF SchedulerInv, Halfway, RecordsOK, StateOK, TaskOK
<1>3. CASE succeeded
  BY <1>3 DEF EventOK
<1>4. CASE ~succeeded
  <2> DEFINE l == s.tasks[t].learner
  <2>1. l.kind # "smaller"
    BY <1>4, LargestLearnerIs DEF Failed
  <2>2. l.kind # "none" /\ l.kind # "smallerBackground"
    BY <1>1, <1>2 DEF LearnersOK, Pending
  <2>3. l.kind \in {"none", "largest", "smaller", "largestBackground", "smallerBackground"}
    BY <1>2 DEF Learner
  <2>4. s.tasks[t].class = Largest
    BY <1>1, <1>2, <2>1, <2>2, <2>3 DEF LearnersOK
  <2> QED BY <1>1, <2>4 DEF EventOK
<1> QED BY <1>3, <1>4 DEF EventOK

(* complete(). *)
FinishedWith(u, t, event, z) == z = markCompleted([u EXCEPT !.tasks[t].event = event], t)

LEMMA CompleteIs ==
    ASSUME NEW s, NEW t, NEW succeeded \in BOOLEAN, NEW event, NEW z \in complete(s, t, succeeded, event),
           NEW u, u = leaveQueuedOrExecutingStage(s, t, TRUE), u.panicked = FALSE
    PROVE  \/ /\ succeeded
              /\ \E b \in Succeeded(s.tasks[t].learner, s.classes) :
                    \E v \in scheduleInBackground(u, b) : FinishedWith(v, t, event, z)
           \/ /\ Failed(s.tasks[t].learner) # NoLearner
              /\ z \in schedule(getOrCreateInvocation(
                                   [u EXCEPT !.tasks[t].learner = Failed(s.tasks[t].learner),
                                             !.tasks[t].class = Max(s.classes)],
                                   Max(s.classes), OperationKeys(s, t)), t)
           \/ /\ succeeded \/ Failed(s.tasks[t].learner) = NoLearner
              /\ FinishedWith(releaseHandle(u), t, event, z)
<1> DEFINE l == s.tasks[t].learner
           B == Succeeded(l, s.classes)
           finish(v) == markCompleted([v EXCEPT !.tasks[t].event = event], t)
           r == getOrCreateInvocation([u EXCEPT !.tasks[t].learner = Failed(l),
                                                !.tasks[t].class = Max(s.classes)],
                                      Max(s.classes), OperationKeys(s, t))
           C == CASE succeeded /\ B # {} ->
                        {finish(v) : v \in UNION {scheduleInBackground(u, b) : b \in B}}
                  [] ~succeeded /\ Failed(l) # NoLearner -> UNION {schedule(v, t) : v \in {r}}
                  [] OTHER -> {finish(releaseHandle(u))}
<1>1. z \in UNION {IF v.panicked THEN {v} ELSE
                      CASE succeeded /\ B # {} ->
                              {finish(y) : y \in UNION {scheduleInBackground(v, b) : b \in B}}
                        [] ~succeeded /\ Failed(l) # NoLearner ->
                              UNION {schedule(y, t) :
                                 y \in {getOrCreateInvocation([v EXCEPT !.tasks[t].learner = Failed(l),
                                                                        !.tasks[t].class = Max(s.classes)],
                                                              Max(s.classes), OperationKeys(s, t))}}
                        [] OTHER -> {finish(releaseHandle(v))} : v \in {u}}
  BY DEF complete
<1>2. z \in IF u.panicked THEN {u} ELSE C
  BY <1>1, ZenonT(60)
<1>3. z \in C
  BY <1>2
<1>4. CASE succeeded /\ B # {}
  <2>1. z \in {finish(v) : v \in UNION {scheduleInBackground(u, b) : b \in B}}
    <3> HIDE DEF B, l, r, finish
    <3> QED BY <1>3, <1>4
  <2>2. PICK v \in UNION {scheduleInBackground(u, b) : b \in B} : z = finish(v)
    BY <2>1, Zenon
  <2>3. PICK b \in B : v \in scheduleInBackground(u, b)
    BY <2>2, Zenon
  <2> QED BY <1>4, <2>2, <2>3, Zenon DEF FinishedWith
<1>5. CASE ~succeeded /\ Failed(l) # NoLearner
  <2>1. z \in UNION {schedule(v, t) : v \in {r}}
    <3> HIDE DEF B, l, r, finish
    <3> QED BY <1>3, <1>5
  <2>2. z \in schedule(r, t)
    <3> HIDE DEF r
    <3> QED BY <2>1, Zenon
  <2> QED BY <1>5, <2>2, Zenon
<1>6. CASE ~(succeeded /\ B # {}) /\ ~(~succeeded /\ Failed(l) # NoLearner)
  <2>1. z \in {finish(releaseHandle(u))}
    <3> HIDE DEF B, l, r, finish
    <3> QED BY <1>3, <1>6
  <2>2. FinishedWith(releaseHandle(u), t, event, z)
    BY <2>1, Zenon DEF FinishedWith
  <2>3. succeeded \/ Failed(l) = NoLearner
    <3> HIDE DEF B, l
    <3> QED BY <1>6
  <2> QED BY <2>2, <2>3, Zenon
<1> QED BY <1>4, <1>5, <1>6, Zenon

LEMMA CompleteOK ==
    ASSUME NEW s, NEW cl, SchedulerInv(s, cl), NEW w \in DOMAIN s.workers, NEW t,
           t = s.workers[w].task, t # None, s.workers[w].wait = "no",
           NEW succeeded, NEW event, EventOK(s, w, succeeded, event),
           NEW z \in complete(s, t, succeeded, event)
    PROVE  CompletesFor(s, z, cl, w, t)
<1> DEFINE u == leaveQueuedOrExecutingStage(s, t, TRUE)
           l == s.tasks[t].learner
<1>1. t \in DOMAIN s.tasks /\ Pending(s, t) /\ StateOK(s)
  BY DEF SchedulerInv, Halfway, Accounted, WorkersOK
<1>2. Halfway(u, {t}, {}, 0, cl, {}) /\ Moves(s, u, t, None) /\ Frees(s, u, t)
  <2> DEFINE n == 0
             P == {}
  <2>1. Halfway(s, {}, {}, n, cl, P)
    BY DEF SchedulerInv
  <2> HIDE DEF n, P
  <2>2. Halfway(u, {t}, {}, n, cl, P) /\ Moves(s, u, t, None) /\ Frees(s, u, t)
    <3> HIDE DEF u
    <3>1. u = leaveQueuedOrExecutingStage(s, t, TRUE)
      BY DEF u
    <3> QED BY <1>1, <2>1, <3>1, LeaveOK
  <2> QED BY <2>2 DEF n, P
<1>3. StateOK(u) /\ u.panicked = FALSE
  BY <1>2 DEF Halfway, StateOK
<1>4. /\ t \in DOMAIN u.tasks /\ u.classes = s.classes /\ u.tasks[t].action = s.tasks[t].action
      /\ DOMAIN u.tasks[t].operations = DOMAIN s.tasks[t].operations
  BY <1>1, <1>2 DEF Moves, SameScalars, OnlyTask, SameTask
<1>5. \/ /\ succeeded
         /\ \E b \in Succeeded(l, s.classes) :
               \E v \in scheduleInBackground(u, b) : FinishedWith(v, t, event, z)
      \/ /\ Failed(l) # NoLearner
         /\ z \in schedule(getOrCreateInvocation(
                              [u EXCEPT !.tasks[t].learner = Failed(l),
                                        !.tasks[t].class = Max(s.classes)],
                              Max(s.classes), OperationKeys(s, t)), t)
      \/ /\ succeeded \/ Failed(l) = NoLearner
         /\ FinishedWith(releaseHandle(u), t, event, z)
  <2>1. succeeded \in BOOLEAN
    BY DEF EventOK
  <2> QED BY <1>3, <2>1, CompleteIs
<1>6. succeeded \/ Failed(l) = NoLearner => (u.tasks[t].action # None => event)
  <2> SUFFICES ASSUME succeeded \/ Failed(l) = NoLearner, u.tasks[t].action # None PROVE event
    BY DEF EventOK
  <2>1. s.tasks[t].action # None
    BY <1>4
  <2> QED BY <2>1, EventIsThere
<1>7. event \in BOOLEAN
  BY DEF EventOK
<1> HIDE DEF u, l
<1>8. ASSUME Concludes(u, z, t), SchedulerInv(z, cl)
      PROVE  CompletesFor(s, z, cl, w, t)
  <2>1. LeftBy(s, u, w, t)
    BY <1>1, <1>2 DEF LeftBy
  <2> QED BY <1>8, <2>1, ConcludesEvolves
<1>9. ASSUME succeeded \/ Failed(l) = NoLearner, FinishedWith(releaseHandle(u), t, event, z)
      PROVE  CompletesFor(s, z, cl, w, t)
  <2>1. u.tasks[t].action # None => event
    BY <1>6, <1>9
  <2>2. SchedulerInv(z, cl) /\ Finishes(u, z, t)
    BY <1>2, <1>4, <1>7, <1>9, <2>1, FinishReleasing DEF FinishedWith
  <2>3. Concludes(u, z, t)
    BY <1>3, <2>2, FinishesConcludes
  <2> QED BY <1>8, <2>2, <2>3
<1>10. ASSUME succeeded, NEW b \in Succeeded(l, s.classes), NEW v \in scheduleInBackground(u, b),
              FinishedWith(v, t, event, z)
       PROVE  CompletesFor(s, z, cl, w, t)
  <2>1. ChoiceOK(u, None, b)
    <3>1. l \in Learner
      BY <1>1 DEF StateOK, TaskOK, l
    <3>2. /\ b.class = l.class /\ l.class \in s.classes
          /\ b.learner = [kind |-> "smallerBackground", class |-> l.class]
      BY DEF Succeeded
    <3> QED BY <1>4, <3>1, <3>2 DEF ChoiceOK, Learner
  <2>2. \/ v = releaseHandle(u)
        \/ /\ \E m : m = -1 /\ Halfway(v, {t}, {}, m, cl, {})
           /\ Scheduled(u, v, u.created + 1, None, BackgroundLearningKeys)
    BY <1>2, <1>4, <2>1, ScheduleInBackgroundOK
  <2>3. CASE v = releaseHandle(u)
    BY <1>9, <1>10, <2>3
  <2>4. ASSUME NEW m, m = -1, Halfway(v, {t}, {}, m, cl, {}),
               Scheduled(u, v, u.created + 1, None, BackgroundLearningKeys)
        PROVE  CompletesFor(s, z, cl, w, t)
    <3> DEFINE x == u.created + 1
    <3>1. NextTask(u, x) /\ Scheduled(u, v, x, None, BackgroundLearningKeys)
      BY <2>4 DEF NextTask
    <3> HIDE DEF x
    <3>2. t \in DOMAIN v.tasks /\ v.tasks[t] = u.tasks[t]
      BY <1>4, <3>1 DEF Scheduled
    <3>3. v.tasks[t].action # None => event
      BY <1>6, <1>10, <3>2
    <3>4. z = markCompleted([v EXCEPT !.tasks[t].event = event], t)
      BY <1>10 DEF FinishedWith
    <3>5. SchedulerInv(z, cl) /\ Finishes(v, z, t)
      BY <1>7, <2>4, <3>2, <3>3, <3>4, FinishKeeping
    <3>6. Concludes(u, z, t)
      BY <1>3, <1>4, <3>1, <3>5, ScheduledConcludes
    <3> QED BY <1>8, <3>5, <3>6
  <2> QED BY <2>2, <2>3, <2>4
<1>11. ASSUME Failed(l) # NoLearner,
              z \in schedule(getOrCreateInvocation(
                                [u EXCEPT !.tasks[t].learner = Failed(l),
                                          !.tasks[t].class = Max(s.classes)],
                                Max(s.classes), OperationKeys(s, t)), t)
       PROVE  CompletesFor(s, z, cl, w, t)
  <2>1. Failed(l) = LargestLearner
    BY <1>11 DEF Failed
  <2>2. Max(s.classes) = Largest
    BY <1>1, LargestIsLargest DEF StateOK
  <2> DEFINE K == DOMAIN u.tasks[t].operations
             r == [u EXCEPT !.tasks[t].learner = LargestLearner, !.tasks[t].class = Largest]
             v == getOrCreateInvocation(r, Largest, K)
  <2>3. K = OperationKeys(s, t)
    BY <1>4 DEF OperationKeys
  <2>4. z \in schedule(v, t)
    BY <1>11, <2>1, <2>2, <2>3
  <2>5. K = DOMAIN u.tasks[t].operations
    OBVIOUS
  <2>6. r = [u EXCEPT !.tasks[t].learner = LargestLearner, !.tasks[t].class = Largest]
    OBVIOUS
  <2>7. v = getOrCreateInvocation(r, Largest, K)
    OBVIOUS
  <2> HIDE DEF K, r, v
  <2>8. SchedulerInv(z, cl) /\ Rescheduled(u, z, t)
    BY <1>2, <1>4, <2>4, <2>5, <2>6, <2>7, RescheduleOK
  <2>9. Concludes(u, z, t)
    BY <1>3, <2>8, RescheduledConcludes
  <2> QED BY <1>8, <2>8, <2>9
<1> QED BY <1>5, <1>9, <1>10, <1>11

-----------------------------------------------------------------------------
(* register(): a worker, and possibly its size class, become known. *)
IdleWorker == [task |-> None, wait |-> "no", terminating |-> FALSE, last |-> Root]

Joins(v, u, w) ==
    /\ SameScalars(v, u) /\ u.tasks = v.tasks
    /\ DOMAIN u.workers = DOMAIN v.workers \cup {w}
    /\ u.workers[w] = IdleWorker
    /\ \A x \in DOMAIN v.workers : u.workers[x] = v.workers[x]
    /\ DOMAIN u.inv = DOMAIN v.inv
    /\ \A i \in DOMAIN v.inv :
          u.inv[i] = [v.inv[i] EXCEPT !.idle = @ + Share(i, WorkerClass[w], {Root})]

LEMMA RegisterIs ==
    ASSUME NEW s, StateOK(s), NEW w \in Workers, w \notin DOMAIN s.workers,
           NEW u, u = register(s, w)
    PROVE  \E v : AddsInvocations(s, v, WorkerClass[w], {Root}) /\ Joins(v, u, w)
<1> DEFINE c == WorkerClass[w]
           g == getOrCreateInvocation(s, c, {Root})
           r == [g EXCEPT !.classes = @ \cup {c}, !.workers = With(@, w, NewWorker)]
           v == [r EXCEPT !.workers = s.workers]
<1>1. Creates(s, g, c, {Root}) /\ IsState(s) /\ s.panicked = FALSE
  <2>1. IsState(s) /\ s.panicked = FALSE
    BY DEF StateOK
  <2> QED BY <2>1, GetOrCreateIs
<1> HIDE DEF g
<1>2. /\ IsState(g) /\ g.panicked = FALSE /\ g.workers = s.workers
      /\ <<c, Root>> \in DOMAIN g.inv
  BY <1>1 DEF Creates, SameButInvocations, Invocations
<1>3. /\ IsState(r) /\ r.classes = g.classes \cup {c} /\ r.workers = With(g.workers, w, NewWorker)
      /\ r.inv = g.inv /\ r.created = g.created /\ r.tasks = g.tasks
      /\ r.inFlightDeduplicationMap = g.inFlightDeduplicationMap
      /\ r.drains = g.drains /\ r.handles = g.handles /\ r.panicked = g.panicked
  BY <1>2 DEF IsState, Fields
<1>4. u = setLastInvocation(r, w, Root)
  <2> HIDE DEF r
  <2>1. u = Then(r, LAMBDA x : setLastInvocation(x, w, Root))
    BY DEF register, r, g
  <2> QED BY <1>2, <1>3, <2>1 DEF Then
<1>5. /\ DOMAIN r.workers = DOMAIN s.workers \cup {w} /\ r.workers[w] = NewWorker
      /\ \A x \in DOMAIN s.workers : r.workers[x] = s.workers[x]
  <2> HIDE DEF r
  <2>1. r.workers = With(s.workers, w, NewWorker)
    BY <1>2, <1>3
  <2> QED BY <2>1 DEF With
<1> HIDE DEF r
<1>6. SetsLast(r, u, w, c, Root)
  <2>1. /\ IsState(r) /\ r.panicked = FALSE /\ w \in DOMAIN r.workers
        /\ r.workers[w].last = None /\ <<c, Root>> \in DOMAIN r.inv
    BY <1>2, <1>3, <1>5 DEF NewWorker
  <2> QED BY <1>4, <2>1, SetLastIs
<1>7. /\ IsState(v) /\ v.classes = r.classes /\ v.workers = s.workers
      /\ v.inv = r.inv /\ v.created = r.created /\ v.tasks = r.tasks
      /\ v.inFlightDeduplicationMap = r.inFlightDeduplicationMap
      /\ v.drains = r.drains /\ v.handles = r.handles /\ v.panicked = r.panicked
  BY <1>3 DEF IsState, Fields
<1> HIDE DEF v
<1>8. AddsInvocations(s, v, c, {Root})
  BY <1>1, <1>3, <1>7 DEF Creates, SameButInvocations, AddsInvocations
<1>9. Joins(v, u, w)
  <2>1. u.workers = [r.workers EXCEPT ![w].last = Root]
    BY <1>6 DEF SetsLast
  <2>2. /\ DOMAIN u.workers = DOMAIN v.workers \cup {w}
        /\ u.workers[w] = [NewWorker EXCEPT !.last = Root]
        /\ \A x \in DOMAIN v.workers : u.workers[x] = v.workers[x]
    BY <1>5, <1>7, <2>1
  <2>3. u.workers[w] = IdleWorker
    BY <2>2 DEF NewWorker, IdleWorker
  <2>4. SameScalars(v, u) /\ u.tasks = v.tasks
    BY <1>6, <1>7 DEF SetsLast, SameScalars
  <2>5. /\ DOMAIN u.inv = DOMAIN v.inv
        /\ \A i \in DOMAIN v.inv : u.inv[i] = [v.inv[i] EXCEPT !.idle = @ + Share(i, c, {Root})]
    BY <1>6, <1>7 DEF SetsLast
  <2> QED BY <2>2, <2>3, <2>4, <2>5 DEF Joins
<1> QED BY <1>8, <1>9

LEMMA JoinsAccounts ==
    ASSUME NEW s, StateOK(s), Accounted(s, {}, {}), NEW w \in Workers, w \notin DOMAIN s.workers,
           WorkerClass[w] \in s.classes, NEW u, Joins(s, u, w)
    PROVE  StateOK(u) /\ Accounted(u, {}, {})
<1> DEFINE c == WorkerClass[w]
<1>1. c \in SizeClasses /\ Root \in InvocationKeys /\ None \notin InvocationKeys
      /\ None \notin DOMAIN s.tasks
  BY SchedulerAssumption, NamesDiffer DEF StateOK
<1>2. ASSUME NEW i \in DOMAIN s.inv
      PROVE  /\ u.inv[i] \in Invocation
             /\ u.inv[i].queued = s.inv[i].queued /\ u.inv[i].executing = s.inv[i].executing
             /\ u.inv[i].idle = s.inv[i].idle + Share(i, c, {Root})
  <2>1. s.inv[i] \in Invocation
    BY DEF StateOK
  <2>2. Share(i, c, {Root}) \in Nat
    BY <1>1, ShareIsNatural
  <2>3. u.inv[i] = [s.inv[i] EXCEPT !.idle = @ + Share(i, c, {Root})]
    BY DEF Joins
  <2> QED BY <2>1, <2>2, <2>3 DEF Invocation
<1>3. StateOK(u)
  <2>1. IdleWorker \in Worker(s.created)
    BY <1>1 DEF IdleWorker, Worker
  <2>2. \A x \in DOMAIN u.workers : x \in Workers /\ u.workers[x] \in Worker(s.created)
    BY <2>1 DEF Joins, StateOK
  <2> QED BY <1>2, <2>2 DEF Joins, SameScalars, StateOK
<1>4. OnlyConcerns(s, u, None, w)
  BY <1>1 DEF Joins, SameScalars, OnlyConcerns
<1>5. WorkerFine(u, w)
  <2>1. u.workers[w].task = None /\ u.workers[w].last = Root
    BY DEF Joins, IdleWorker
  <2>2. <<c, Root>> \in DOMAIN u.inv /\ c \in u.classes
    BY DEF Accounted, RootsOK, Joins, SameScalars
  <2> QED BY <1>1, <2>1, <2>2 DEF WorkerFine
<1>6. None \notin DOMAIN u.tasks
  BY <1>1 DEF Joins
<1>7. CountsQueued(s, u, {}, None)
  <2>1. \A i \in DOMAIN s.inv : None \notin s.inv[i].queued
    BY NamesDiffer DEF StateOK, Invocation
  <2> QED BY <1>2, <1>6, <2>1 DEF CountsQueued
<1>8. CountsExecuting(s, u, w)
  <2>1. \A i \in DOMAIN s.inv : s.inv[i].executing[w] = 0
    BY DEF Accounted, ExecutingOK, Executes
  <2>2. \A i \in DOMAIN s.inv : Executes(u, w, i) = 0
    BY DEF Joins, IdleWorker, Executes
  <2> QED BY <1>2, <2>1, <2>2 DEF CountsExecuting
<1>9. CountsIdle(s, u, w)
  <2> SUFFICES ASSUME NEW i \in DOMAIN s.inv
               PROVE  u.inv[i].idle = s.inv[i].idle - (IF w \in IdleWorkers(s, i) THEN 1 ELSE 0)
                                                    + (IF w \in IdleWorkers(u, i) THEN 1 ELSE 0)
    BY DEF CountsIdle
  <2>1. w \notin IdleWorkers(s, i)
    BY DEF IdleWorkers
  <2>2. w \in IdleWorkers(u, i) <=> Share(i, c, {Root}) = 1
    BY <1>1 DEF IdleWorkers, Joins, IdleWorker
  <2>3. Share(i, c, {Root}) \in {0, 1}
    BY ShareOfOne
  <2>4. s.inv[i].idle \in Nat
    BY DEF StateOK, Invocation
  <2> QED BY <1>2, <2>1, <2>2, <2>3, <2>4
<1>10. StillUsed(s, u, {}, {}, {}, {}, None, w)
  BY <1>1 DEF StillUsed, Touched
<1> QED BY <1>3, <1>4, <1>5, <1>6, <1>7, <1>8, <1>9, <1>10, AccountsStep

LEMMA EqualRecords ==
    ASSUME NEW s, NEW u, StateOK(s), u.tasks = s.tasks,
           u.inFlightDeduplicationMap = s.inFlightDeduplicationMap
    PROVE  SameRecords(s, u)
BY DEF SameRecords, SameTask, StateOK, TaskOK

Registered(s, u, w) ==
    /\ Evolves(s, u, {}) /\ Quiet(s, u, {w}) /\ u.tasks = s.tasks
    /\ w \in DOMAIN u.workers /\ u.workers[w].wait = "no"
    /\ u.workers[w].task # None => w \in DOMAIN s.workers /\ s.workers[w].task = u.workers[w].task

LEMMA RegisterOK ==
    ASSUME NEW s, NEW cl, SchedulerInv(s, cl), NEW w \in Workers,
           w \in DOMAIN s.workers => s.workers[w].wait = "no",
           NEW u, u = register(s, w)
    PROVE  SchedulerInv(u, cl) /\ Registered(s, u, w)
<1>1. CASE w \in DOMAIN s.workers
  <2>1. u = s
    BY <1>1 DEF register
  <2>2. s.created \in Nat /\ DOMAIN s.tasks \subseteq 1 .. s.created
    BY DEF SchedulerInv, Halfway, StateOK
  <2> QED BY <1>1, <2>1, <2>2 DEF Registered, Evolves, Quiet
<1>2. CASE w \notin DOMAIN s.workers
  <2> DEFINE c == WorkerClass[w]
             X == {}
             P == {}
             n == 0
  <2>1. StateOK(s) /\ Accounted(s, X, {}) /\ WaitingOK(s, X) /\ HandlesOK(s, n) /\ RecordsOK(s, cl, P)
    BY DEF SchedulerInv, Halfway
  <2>2. PICK v : AddsInvocations(s, v, c, {Root}) /\ Joins(v, u, w)
    BY <1>2, <2>1, RegisterIs
  <2>3. StateOK(v) /\ Accounted(v, {}, {} \cup Invocations(c, {Root}))
    <3> DEFINE K == {Root}
               E == {}
    <3>1. c \in SizeClasses /\ K \in SUBSET InvocationKeys /\ Root \in K /\ Accounted(s, X, E)
          /\ AddsInvocations(s, v, c, K)
      BY <2>1, <2>2, SchedulerAssumption, NamesDiffer
    <3> HIDE DEF K, E, X, c
    <3>2. StateOK(v) /\ Accounted(v, X, E \cup Invocations(c, K))
      BY <2>1, <3>1, AddsInvocationsAccounts
    <3> QED BY <3>2 DEF K, E, X
  <2>4. Accounted(v, {}, {})
    <3>1. \A i \in Invocations(c, {Root}) : i[2] = Root
      BY DEF Invocations
    <3> QED BY <2>3, <3>1 DEF Accounted, ActiveOK
  <2>5. w \notin DOMAIN v.workers /\ c \in v.classes
    BY <1>2, <2>2 DEF AddsInvocations
  <2>6. StateOK(u) /\ Accounted(u, {}, {})
    BY <2>2, <2>3, <2>4, <2>5, JoinsAccounts
  <2>7. /\ u.tasks = s.tasks /\ u.handles = s.handles /\ u.drains = s.drains
        /\ u.created = s.created
        /\ u.inFlightDeduplicationMap = s.inFlightDeduplicationMap
        /\ DOMAIN u.workers = DOMAIN s.workers \cup {w} /\ u.workers[w] = IdleWorker
        /\ \A x \in DOMAIN s.workers : u.workers[x] = s.workers[x]
    BY <2>2 DEF AddsInvocations, Joins, SameScalars
  <2>8. WaitingOK(u, X)
    <3> HIDE DEF X
    <3>1. u.workers[w].wait = "no"
      BY <2>7 DEF IdleWorker
    <3>2. \A x : NothingQueued(s, X, x) => NothingQueued(u, X, x)
      BY <2>7 DEF NothingQueued, Pending
    <3>3. \A x \in DOMAIN s.workers : isDrained(u, x) <=> isDrained(s, x)
      BY <2>7 DEF isDrained
    <3> QED BY <2>1, <2>7, <3>1, <3>2, <3>3 DEF WaitingOK
  <2>9. HandlesOK(u, n) /\ RecordsOK(u, cl, P)
    <3> HIDE DEF n, P
    <3>1. SameRecords(s, u)
      BY <2>1, <2>7, EqualRecords
    <3> QED BY <2>1, <2>7, <3>1, RecordsStep
  <2>10. SchedulerInv(u, cl)
    BY <2>6, <2>8, <2>9 DEF SchedulerInv, Halfway
  <2>11. Registered(s, u, w)
    <3>1. u.workers[w].task = None /\ u.workers[w].wait = "no"
      BY <2>7 DEF IdleWorker
    <3>2. s.created \in Nat /\ DOMAIN s.tasks \subseteq 1 .. s.created
      BY <2>1 DEF StateOK
    <3>3. Evolves(s, u, {})
      BY <2>7, <3>2 DEF Evolves, Pending
    <3>4. Quiet(s, u, {w})
      BY <2>7 DEF Quiet
    <3> QED BY <2>7, <3>1, <3>3, <3>4 DEF Registered
  <2> QED BY <2>10, <2>11
<1> QED BY <1>1, <1>2

LEMMA AnswersResponds ==
    ASSUME NEW s, NEW o, NEW w, NEW request, Answers(s, o, w, {})
    PROVE  Responds(s, o, w, request, {})
BY DEF Answers, Responds

(* report(). *)
LEMMA FreedByFailing ==
    ASSUME NEW s, NEW cl, SchedulerInv(s, cl), NEW w \in DOMAIN s.workers, NEW t,
           t = s.workers[w].task, t # None, s.workers[w].wait = "no", NEW b,
           NEW u, u = fail(s, t, b)
    PROVE  /\ SchedulerInv(u, cl) /\ Evolves(s, u, {}) /\ Quiet(s, u, {w})
           /\ w \in DOMAIN u.workers /\ u.workers[w].task = None /\ u.workers[w].wait = "no"
<1>1. t \in DOMAIN s.tasks /\ s.created \in Nat
  BY DEF SchedulerInv, Halfway, Accounted, WorkersOK, StateOK
<1>2. SchedulerInv(u, cl) /\ Fails(s, u, t)
  BY <1>1, FailInv
<1>3. Evolves(s, u, {}) /\ Quiet(s, u, {})
  BY <1>1, <1>2, FailEvolves
<1>4. Quiet(s, u, {w})
  BY <1>3 DEF Quiet
<1>5. w \in DOMAIN u.workers /\ u.workers[w].task = None /\ u.workers[w].wait = "no"
  BY <1>2 DEF Fails, Frees
<1> QED BY <1>2, <1>3, <1>4, <1>5

LEMMA ReportOK ==
    ASSUME NEW s, NEW cl, SchedulerInv(s, cl), NEW w \in DOMAIN s.workers,
           s.workers[w].wait = "no", NEW request, RequestOK(w, request),
           NEW o \in report(s, w, request)
    PROVE  SchedulerInv(o.bq, cl) /\ \E T : Responds(s, o, w, request, T)
<1> DEFINE t == s.workers[w].task
           idle == request.preferBeingIdle
           b == request.state # "executing"
<1>1. \/ o \in getCurrentOrNextTask(s, w, b, idle)
      \/ o \in getCurrentOrNextTask(s, w, TRUE, idle)
      \/ /\ request.state = "executing" /\ o = Return(s, w, Continue)
         /\ t # None /\ t = request.task
      \/ t # None /\ \E u : u = fail(s, t, TRUE) /\ o \in getNextTask(u, w, TRUE, idle)
      \/ /\ t # None /\ request.state = "completed"
         /\ \E u \in complete(s, t, request.succeeded, request.event) :
               o \in getNextTask(u, w, TRUE, idle)
  <2>1. request.state \in {"idle", "executing", "completed", "rejected"}
    BY DEF RequestOK
  <2>2. CASE ~(t # None /\ t = request.task)
    BY <2>2 DEF report
  <2>3. CASE t # None /\ t = request.task /\ request.state = "idle"
    BY <2>3 DEF report
  <2>4. CASE t # None /\ t = request.task /\ request.state = "executing"
    BY <2>4 DEF report
  <2>5. CASE t # None /\ t = request.task /\ request.state = "rejected"
    <3>1. o \in UNION {getNextTask(u, w, TRUE, idle) : u \in {fail(s, t, TRUE)}}
      BY <2>5 DEF report
    <3> QED BY <2>5, <3>1, Zenon
  <2>6. CASE t # None /\ t = request.task /\ request.state = "completed"
    <3>1. o \in UNION {getNextTask(u, w, TRUE, idle) :
                          u \in complete(s, t, request.succeeded, request.event)}
      BY <2>6 DEF report
    <3> QED BY <2>6, <3>1, Zenon
  <2> QED BY <2>1, <2>2, <2>3, <2>4, <2>5, <2>6
<1>2. b \in BOOLEAN /\ TRUE \in BOOLEAN /\ idle \in BOOLEAN
  BY DEF RequestOK
<1> HIDE DEF t, idle, b
<1>3. ASSUME SchedulerInv(o.bq, cl), Answers(s, o, w, {})
      PROVE  SchedulerInv(o.bq, cl) /\ \E T : Responds(s, o, w, request, T)
  BY <1>3, AnswersResponds
<1>4. CASE o \in getCurrentOrNextTask(s, w, b, idle)
  <2>1. SchedulerInv(o.bq, cl) /\ Answers(s, o, w, {})
    BY <1>2, <1>4, GetCurrentOrNextTaskOK
  <2> QED BY <1>3, <2>1
<1>5. CASE o \in getCurrentOrNextTask(s, w, TRUE, idle)
  <2>1. SchedulerInv(o.bq, cl) /\ Answers(s, o, w, {})
    BY <1>2, <1>5, GetCurrentOrNextTaskOK
  <2> QED BY <1>3, <2>1
<1>6. CASE /\ request.state = "executing" /\ o = Return(s, w, Continue)
           /\ t # None /\ t = request.task
  <2> DEFINE x == "no"
             n == 0
             P == {}
             X == {}
  <2>1. /\ StateOK(s) /\ Accounted(s, X, {}) /\ HandlesOK(s, n) /\ RecordsOK(s, cl, P)
        /\ WaitingOK(s, X)
    BY DEF SchedulerInv, Halfway
  <2>2. WaitFine(s, X, w, x) /\ x \in {"no", "queued", "woken", "drained", "undrained"}
    BY DEF WaitFine
  <2>3. OthersWaitingOK(s, X, w)
    <3> HIDE DEF X
    <3> QED BY <2>1, WaitingIs DEF OthersWaitingOK
  <2>4. o.bq = [s EXCEPT !.workers[w].wait = x] /\ o.response = Continue
    BY <1>6 DEF Return, Outcome
  <2> HIDE DEF x, n, P, X
  <2>5. WaitsFor(s, o.bq, w, x)
    BY <2>1, <2>4, WaitsForIs DEF StateOK
  <2>6. Halfway(o.bq, X, {}, n, cl, P)
    BY <2>1, <2>2, <2>3, <2>5, WaitsForOK
  <2>7. SchedulerInv(o.bq, cl)
    BY <2>6 DEF SchedulerInv, n, P, X
  <2>8. Evolves(s, o.bq, {}) /\ Quiet(s, o.bq, {w}) /\ w \in DOMAIN o.bq.workers
    BY <2>1, <2>5, WaitsForEvolves
  <2>9. o.bq.workers[w].task = t
    BY <2>1, <2>5 DEF WaitsFor, StateOK, Worker, t
  <2>10. Responds(s, o, w, request, {})
    BY <1>6, <2>4, <2>8, <2>9 DEF Responds
  <2> QED BY <2>7, <2>10
<1>7. CASE t # None /\ \E u : u = fail(s, t, TRUE) /\ o \in getNextTask(u, w, TRUE, idle)
  <2>1. PICK u : u = fail(s, t, TRUE) /\ o \in getNextTask(u, w, TRUE, idle)
    BY <1>7
  <2>2. t = s.workers[w].task
    BY DEF t
  <2>3. /\ SchedulerInv(u, cl) /\ Evolves(s, u, {}) /\ Quiet(s, u, {w})
        /\ w \in DOMAIN u.workers /\ u.workers[w].task = None /\ u.workers[w].wait = "no"
    BY <1>7, <2>1, <2>2, FreedByFailing
  <2>4. SchedulerInv(o.bq, cl) /\ Answers(u, o, w, {})
    BY <1>2, <2>1, <2>3, GetNextTaskOK
  <2>5. Answers(s, o, w, {})
    BY <2>3, <2>4, AnswersAfter
  <2> QED BY <1>3, <2>4, <2>5
<1>8. ASSUME t # None, request.state = "completed",
             NEW u \in complete(s, t, request.succeeded, request.event),
             o \in getNextTask(u, w, TRUE, idle)
      PROVE  SchedulerInv(o.bq, cl) /\ \E T : Responds(s, o, w, request, T)
  <2>1. t = s.workers[w].task
    BY DEF t
  <2>2. EventOK(s, w, request.succeeded, request.event)
    BY DEF RequestOK, EventOK
  <2>3. CompletesFor(s, u, cl, w, t)
    BY <1>8, <2>1, <2>2, CompleteOK
  <2>4. SchedulerInv(o.bq, cl) /\ Answers(u, o, w, {})
    <3>1. /\ SchedulerInv(u, cl) /\ w \in DOMAIN u.workers /\ u.workers[w].task = None
          /\ u.workers[w].wait = "no"
      BY <2>3 DEF CompletesFor
    <3> QED BY <1>2, <1>8, <3>1, GetNextTaskOK
  <2>5. Answers(s, o, w, {t})
    <3>1. Evolves(s, u, {t}) /\ Quiet(s, u, {w})
      BY <2>3 DEF CompletesFor
    <3> DEFINE T == {t}
    <3>2. Evolves(s, u, T)
      BY <3>1
    <3> HIDE DEF T
    <3>3. Answers(s, o, w, T)
      BY <2>4, <3>1, <3>2, AnswersAfter
    <3> QED BY <3>3 DEF T
  <2>6. t \in DOMAIN s.tasks /\ Pending(s, t) /\ s.tasks[t].worker = w
    BY <1>8, <2>1 DEF SchedulerInv, Halfway, Accounted, WorkersOK
  <2>7. Responds(s, o, w, request, {t})
    BY <1>8, <2>5, <2>6 DEF Answers, Responds
  <2> QED BY <2>4, <2>7
<1> QED BY <1>1, <1>4, <1>5, <1>6, <1>7, <1>8

(* Synchronize(). *)
LEMMA RespondsAfter ==
    ASSUME NEW s, NEW u, NEW w, Registered(s, u, w), NEW o, NEW request, NEW T,
           Responds(u, o, w, request, T)
    PROVE  Responds(s, o, w, request, T)
<1>1. Evolves(s, o.bq, T)
  <2>1. Evolves(s, u, T)
    BY DEF Registered, Evolves
  <2> QED BY <2>1, EvolvesTransitive DEF Responds
<1>2. Quiet(s, o.bq, {w})
  <2> DEFINE V == {w}
  <2>1. Quiet(s, u, V) /\ Quiet(u, o.bq, V)
    BY DEF Registered, Responds
  <2> HIDE DEF V
  <2>2. Quiet(s, o.bq, V)
    BY <2>1, QuietTransitive
  <2> QED BY <2>2 DEF V
<1>3. u.tasks = s.tasks
  BY DEF Registered
<1>4. \A t \in T : t \in DOMAIN s.tasks /\ Pending(s, t) /\ s.tasks[t].worker = w /\ request.state = "completed"
  BY <1>3 DEF Responds, Pending
<1> QED BY <1>1, <1>2, <1>4 DEF Responds

LEMMA SynchronizeOK ==
    ASSUME NEW s, NEW cl, SchedulerInv(s, cl), NEW w \in Workers, NEW request,
           RequestOK(w, request), NEW o \in Synchronize(s, w, request)
    PROVE  SchedulerInv(o.bq, cl) /\ \E T : Responds(s, o, w, request, T)
<1>1. CASE w \in DOMAIN s.workers /\ s.workers[w].wait # "no"
  <2>1. o.bq = s /\ o.response = AlreadySynchronizing
    BY <1>1 DEF Synchronize, Outcome
  <2>2. s.created \in Nat /\ DOMAIN s.tasks \subseteq 1 .. s.created
    BY DEF SchedulerInv, Halfway, StateOK
  <2>3. Evolves(s, s, {}) /\ Quiet(s, s, {w})
    BY <2>2 DEF Evolves, Quiet
  <2>4. Responds(s, o, w, request, {})
    BY <1>1, <2>1, <2>3 DEF Responds
  <2> QED BY <2>1, <2>4
<1>2. CASE ~(w \in DOMAIN s.workers /\ s.workers[w].wait # "no")
  <2> DEFINE u == register(s, w)
  <2>1. o \in UNION {report(x, w, request) : x \in {register(s, w)}}
    BY <1>2 DEF Synchronize
  <2>2. o \in report(u, w, request)
    BY <2>1, Zenon
  <2>3. u = register(s, w)
    OBVIOUS
  <2> HIDE DEF u
  <2>4. SchedulerInv(u, cl) /\ Registered(s, u, w)
    BY <1>2, <2>3, RegisterOK
  <2>5. w \in DOMAIN u.workers /\ u.workers[w].wait = "no"
    BY <2>4 DEF Registered
  <2>6. SchedulerInv(o.bq, cl) /\ \E T : Responds(u, o, w, request, T)
    BY <2>2, <2>4, <2>5, ReportOK
  <2>7. PICK T : Responds(u, o, w, request, T)
    BY <2>6
  <2>8. Responds(s, o, w, request, T)
    BY <2>4, <2>7, RespondsAfter
  <2> QED BY <2>6, <2>8
<1> QED BY <1>1, <1>2

(* Calls that blocked, and return. *)
LEMMA ResumeAfterWakeupOK ==
    ASSUME NEW s, NEW cl, SchedulerInv(s, cl), NEW w \in DOMAIN s.workers,
           s.workers[w].wait \in {"woken", "undrained"}, NEW o \in resumeAfterWakeup(s, w)
    PROVE  SchedulerInv(o.bq, cl) /\ Answers(s, o, w, {})
<1>1. WaitingOK(s, {})
  BY DEF SchedulerInv, Halfway
<1>2. CASE s.workers[w].wait = "woken" /\ s.workers[w].task # None
  <2>1. o = Return(s, w, Executing(s.workers[w].task))
    BY <1>2 DEF resumeAfterWakeup
  <2> DEFINE r == Executing(s.workers[w].task)
  <2>2. o = Return(s, w, r) /\ s.workers[w].task # None /\ r = Executing(s.workers[w].task)
    BY <1>2, <2>1
  <2> HIDE DEF r
  <2> QED BY <2>2, ReturnOK
<1>3. CASE ~(s.workers[w].wait = "woken" /\ s.workers[w].task # None)
  <2>1. o \in waitForTask(s, w)
    BY <1>3 DEF resumeAfterWakeup
  <2>2. s.workers[w].task = None /\ s.workers[w].wait # "queued"
    BY <1>1, <1>3 DEF WaitingOK
  <2> QED BY <2>1, <2>2, WaitForTaskOK
<1> QED BY <1>2, <1>3

LEMMA ResumeAfterTimeoutOK ==
    ASSUME NEW s, NEW cl, SchedulerInv(s, cl), NEW w \in DOMAIN s.workers,
           s.workers[w].wait # "no", NEW o, o = resumeAfterTimeout(s, w)
    PROVE  SchedulerInv(o.bq, cl) /\ Answers(s, o, w, {})
<1> DEFINE t == s.workers[w].task
           r == IF s.workers[w].wait \in {"queued", "woken"} /\ t # None THEN Executing(t) ELSE Idle
<1>1. o = Return(s, w, r)
  BY DEF resumeAfterTimeout
<1>2. WaitingOK(s, {}) /\ s.workers[w].wait \in {"no", "queued", "woken", "drained", "undrained"}
  BY DEF SchedulerInv, Halfway, StateOK, Worker
<1>3. \/ r = Idle /\ s.workers[w].task = None
      \/ s.workers[w].task # None /\ r = Executing(s.workers[w].task)
  BY <1>2 DEF WaitingOK
<1> HIDE DEF r, t
<1> QED BY <1>1, <1>3, ReturnOK

LEMMA CancelOK ==
    ASSUME NEW s, NEW cl, SchedulerInv(s, cl), NEW w \in DOMAIN s.workers,
           NEW u, u = [s EXCEPT !.workers[w].wait = "no"]
    PROVE  /\ SchedulerInv(u, cl) /\ Evolves(s, u, {}) /\ Quiet(s, u, {w})
           /\ w \in DOMAIN u.workers /\ u.workers[w].task = s.workers[w].task
<1> DEFINE x == "no"
           n == 0
           P == {}
           X == {}
<1>1. /\ StateOK(s) /\ Accounted(s, X, {}) /\ HandlesOK(s, n) /\ RecordsOK(s, cl, P)
      /\ WaitingOK(s, X)
  BY DEF SchedulerInv, Halfway
<1>2. WaitFine(s, X, w, x) /\ x \in {"no", "queued", "woken", "drained", "undrained"}
  BY DEF WaitFine
<1>3. OthersWaitingOK(s, X, w)
  <2> HIDE DEF X
  <2> QED BY <1>1, WaitingIs DEF OthersWaitingOK
<1>4. u = [s EXCEPT !.workers[w].wait = x]
  OBVIOUS
<1> HIDE DEF x, n, P, X
<1>5. WaitsFor(s, u, w, x)
  BY <1>1, <1>4, WaitsForIs DEF StateOK
<1>6. Halfway(u, X, {}, n, cl, P)
  BY <1>1, <1>2, <1>3, <1>5, WaitsForOK
<1>7. SchedulerInv(u, cl)
  BY <1>6 DEF SchedulerInv, n, P, X
<1>8. Evolves(s, u, {}) /\ Quiet(s, u, {w}) /\ w \in DOMAIN u.workers
  BY <1>1, <1>5, WaitsForEvolves
<1>9. u.workers[w].task = s.workers[w].task
  BY <1>1, <1>2, <1>5, WaitsForAccounts
<1> QED BY <1>7, <1>8, <1>9

-----------------------------------------------------------------------------
LEMMA UnregisterIs ==
    ASSUME NEW s, StateOK(s), NEW w \in DOMAIN s.workers, NEW k, NEW c,
           k = s.workers[w].last, k # None, c = WorkerClass[w],
           s.workers[w].wait # "queued",
           <<c, k>> \in DOMAIN s.inv,
           \A i \in DOMAIN s.inv : s.inv[i].idle >= Share(i, c, {k}),
           NEW u,
           u = Then(clearLastInvocation(s, w),
                    LAMBDA x : [x EXCEPT !.workers = Restrict(@, DOMAIN @ \ {w})])
    PROVE  \E v : Leaves(s, v, w, c, k) /\ Removes(v, u, c, {k})
<1> DEFINE x == clearLastInvocation(s, w)
<1>1. IsState(s) /\ s.panicked = FALSE
  BY DEF StateOK
<1>2. PICK y : ClearsLast(s, y, w, c, k) /\ Removes(y, x, c, {k})
  <2>1. x = clearLastInvocation(s, w)
    OBVIOUS
  <2> HIDE DEF x
  <2>2. MayClear(s, w, c, k)
    BY <1>1 DEF MayClear
  <2> QED BY <2>1, <2>2, ClearLastIs
<1> HIDE DEF x
<1>3. x.panicked = FALSE /\ IsState(x) /\ x.workers = y.workers
  BY <1>1, <1>2 DEF ClearsLast, SameScalars, Removes, SameButInvocations
<1>4. u = [x EXCEPT !.workers = Restrict(@, DOMAIN @ \ {w})]
  <2>1. u = Then(x, LAMBDA z : [z EXCEPT !.workers = Restrict(@, DOMAIN @ \ {w})])
    BY DEF x
  <2> QED BY <1>3, <2>1 DEF Then
<1> DEFINE v == [y EXCEPT !.workers = Restrict(x.workers, DOMAIN x.workers \ {w})]
<1>5. /\ IsState(v) /\ v.workers = Restrict(x.workers, DOMAIN x.workers \ {w})
      /\ v.classes = y.classes
      /\ v.inv = y.inv /\ v.created = y.created /\ v.tasks = y.tasks
      /\ v.inFlightDeduplicationMap = y.inFlightDeduplicationMap
      /\ v.drains = y.drains /\ v.handles = y.handles /\ v.panicked = y.panicked
  <2>1. IsState(y)
    BY <1>2 DEF ClearsLast, SameScalars
  <2> QED BY <2>1 DEF IsState, Fields
<1>6. /\ IsState(u) /\ u.workers = Restrict(x.workers, DOMAIN x.workers \ {w})
      /\ u.classes = x.classes
      /\ u.inv = x.inv /\ u.created = x.created /\ u.tasks = x.tasks
      /\ u.inFlightDeduplicationMap = x.inFlightDeduplicationMap
      /\ u.drains = x.drains /\ u.handles = x.handles /\ u.panicked = x.panicked
  BY <1>3, <1>4 DEF IsState, Fields
<1> HIDE DEF v
<1>7. Leaves(s, v, w, c, k)
  <2>1. x.workers = [s.workers EXCEPT ![w].last = None]
    BY <1>2, <1>3 DEF ClearsLast
  <2>2. /\ DOMAIN v.workers = DOMAIN s.workers \ {w}
        /\ \A z \in DOMAIN v.workers : v.workers[z] = s.workers[z]
    BY <1>5, <2>1 DEF Restrict
  <2>3. SameScalars(s, v) /\ v.tasks = s.tasks
    BY <1>2, <1>5 DEF ClearsLast, SameScalars
  <2>4. /\ DOMAIN v.inv = DOMAIN s.inv
        /\ \A i \in DOMAIN s.inv : v.inv[i] = [s.inv[i] EXCEPT !.idle = @ - Share(i, c, {k})]
    BY <1>2, <1>5, ZenonT(60) DEF ClearsLast
  <2> QED BY <2>2, <2>3, <2>4, Zenon DEF Leaves
<1>8. SameButInvocations(v, u)
  BY <1>2, <1>5, <1>6 DEF Removes, SameButInvocations
<1>9. Removes(v, u, c, {k})
  <2> DEFINE K == {k}
  <2>1. Removes(y, x, c, K)
    BY <1>2
  <2> HIDE DEF K
  <2>2. Removes(v, u, c, K)
    BY <1>5, <1>6, <1>8, <2>1, RemovesElsewhere
  <2> QED BY <2>2 DEF K
<1> QED BY <1>7, <1>9

LEMMA LeavesAccounts ==
    ASSUME NEW s, StateOK(s), Accounted(s, {}, {}), NEW w \in DOMAIN s.workers, NEW c, NEW k,
           c = WorkerClass[w], k = s.workers[w].last, s.workers[w].task = None,
           \A i \in DOMAIN s.inv : s.inv[i].idle >= Share(i, c, {k}),
           NEW u, Leaves(s, u, w, c, k)
    PROVE  StateOK(u) /\ Accounted(u, {}, {<<c, k>>})
<1>1. /\ k # None /\ k \in InvocationKeys /\ None \notin DOMAIN s.tasks /\ w \in Workers
  <2>1. k # None /\ s.workers[w] \in Worker(s.created)
    BY DEF StateOK, Accounted, WorkersOK
  <2>2. k \in InvocationKeys
    BY <2>1 DEF Worker
  <2>3. None \notin DOMAIN s.tasks
    BY NamesDiffer DEF StateOK
  <2> QED BY <2>1, <2>2, <2>3 DEF StateOK
<1>2. ASSUME NEW i \in DOMAIN s.inv
      PROVE  /\ u.inv[i] \in Invocation
             /\ u.inv[i].queued = s.inv[i].queued /\ u.inv[i].executing = s.inv[i].executing
             /\ u.inv[i].idle = s.inv[i].idle - Share(i, c, {k})
             /\ Share(i, c, {k}) \in Nat /\ s.inv[i].idle \in Nat
  <2>1. s.inv[i] \in Invocation
    BY DEF StateOK
  <2>2. Share(i, c, {k}) \in Nat
    BY <1>1, ShareIsNatural
  <2>3. u.inv[i] = [s.inv[i] EXCEPT !.idle = @ - Share(i, c, {k})]
    BY DEF Leaves
  <2>4. s.inv[i].idle >= Share(i, c, {k})
    OBVIOUS
  <2> DEFINE h == Share(i, c, {k})
  <2> HIDE DEF h
  <2>5. h \in Nat /\ u.inv[i] = [s.inv[i] EXCEPT !.idle = @ - h] /\ s.inv[i].idle >= h
    BY <2>2, <2>3, <2>4 DEF h
  <2>6. /\ u.inv[i] \in Invocation
        /\ u.inv[i].queued = s.inv[i].queued /\ u.inv[i].executing = s.inv[i].executing
        /\ u.inv[i].idle = s.inv[i].idle - h /\ s.inv[i].idle \in Nat
    BY <2>1, <2>5 DEF Invocation
  <2> QED BY <2>2, <2>6 DEF h
<1>3. StateOK(u)
  <2>2. \A x \in DOMAIN u.workers : x \in Workers /\ u.workers[x] \in Worker(s.created)
    BY DEF Leaves, StateOK
  <2> QED BY <1>2, <2>2 DEF Leaves, SameScalars, StateOK
<1>4. OnlyConcerns(s, u, None, w)
  BY <1>1 DEF Leaves, SameScalars, OnlyConcerns
<1>5. w \notin DOMAIN u.workers
  BY DEF Leaves
<1>6. None \notin DOMAIN u.tasks
  BY <1>1 DEF Leaves
<1>7. CountsQueued(s, u, {}, None)
  <2>1. \A i \in DOMAIN s.inv : None \notin s.inv[i].queued
    BY NamesDiffer DEF StateOK, Invocation
  <2> QED BY <1>2, <1>6, <2>1 DEF CountsQueued
<1>8. CountsExecuting(s, u, w)
  <2>1. \A i \in DOMAIN s.inv : s.inv[i].executing[w] = 0
    BY <1>1 DEF Accounted, ExecutingOK, Executes
  <2>2. \A i \in DOMAIN s.inv : Executes(u, w, i) = 0
    BY <1>5 DEF Executes
  <2> QED BY <1>2, <2>1, <2>2 DEF CountsExecuting
<1>9. CountsIdle(s, u, w)
  <2> SUFFICES ASSUME NEW i \in DOMAIN s.inv
               PROVE  u.inv[i].idle = s.inv[i].idle - (IF w \in IdleWorkers(s, i) THEN 1 ELSE 0)
                                                    + (IF w \in IdleWorkers(u, i) THEN 1 ELSE 0)
    BY DEF CountsIdle
  <2>1. w \notin IdleWorkers(u, i)
    BY <1>5 DEF IdleWorkers
  <2>2. w \in IdleWorkers(s, i) <=> Share(i, c, {k}) = 1
    BY <1>1 DEF IdleWorkers
  <2>3. Share(i, c, {k}) \in {0, 1}
    BY ShareOfOne
  <2> DEFINE h == Share(i, c, {k})
  <2>4. u.inv[i].idle = s.inv[i].idle - h /\ s.inv[i].idle \in Nat
    BY <1>2
  <2> HIDE DEF h
  <2>5. h \in {0, 1} /\ (w \in IdleWorkers(s, i) <=> h = 1)
    BY <2>2, <2>3 DEF h
  <2> QED BY <2>1, <2>4, <2>5
<1>10. StillUsed(s, u, {}, {}, {}, {<<c, k>>}, None, w)
  BY <1>1 DEF StillUsed, Touched
<1>11. Accounted(u, {}, {<<c, k>>})
  <2> DEFINE F == {<<c, k>>}
             X == {}
  <2>1. StillUsed(s, u, X, X, X, F, None, w) /\ CountsQueued(s, u, X, None) /\ Accounted(s, X, X)
    BY <1>10, <1>7
  <2> HIDE DEF F, X
  <2>2. Accounted(u, X, F)
    BY <1>3, <1>4, <1>5, <1>6, <1>8, <1>9, <2>1, AccountsStep
  <2> QED BY <2>2 DEF F, X
<1> QED BY <1>3, <1>11

LEMMA DepartsOK ==
    ASSUME NEW s, NEW cl, SchedulerInv(s, cl), NEW u, StateOK(u), Accounted(u, {}, {}), Departs(s, u)
    PROVE  SchedulerInv(u, cl) /\ Evolves(s, u, {}) /\ Quiet(s, u, {})
<1> DEFINE X == {}
           P == {}
           n == 0
<1>1. StateOK(s) /\ WaitingOK(s, X) /\ HandlesOK(s, n) /\ RecordsOK(s, cl, P)
  BY DEF SchedulerInv, Halfway
<1>2. WaitingOK(u, X)
  <2> HIDE DEF X
  <2>1. \A x : NothingQueued(s, X, x) => NothingQueued(u, X, x)
    BY DEF Departs, NothingQueued, Pending
  <2>2. \A x \in DOMAIN u.workers : isDrained(u, x) <=> isDrained(s, x)
    BY DEF Departs, isDrained
  <2> QED BY <1>1, <2>1, <2>2 DEF Departs, WaitingOK
<1>3. HandlesOK(u, n) /\ RecordsOK(u, cl, P)
  <2> HIDE DEF n, P
  <2>1. SameRecords(s, u)
    BY <1>1, EqualRecords DEF Departs
  <2> QED BY <1>1, <2>1, RecordsStep DEF Departs
<1>4. SchedulerInv(u, cl)
  BY <1>2, <1>3 DEF SchedulerInv, Halfway
<1>5. s.created \in Nat /\ DOMAIN s.tasks \subseteq 1 .. s.created
  BY <1>1 DEF StateOK
<1>6. Evolves(s, u, {})
  BY <1>5 DEF Departs, Evolves, Pending
<1>7. Quiet(s, u, {})
  BY DEF Departs, Quiet
<1> QED BY <1>4, <1>6, <1>7

LEMMA RemoveStaleWorkerOK ==
    ASSUME NEW s, NEW cl, SchedulerInv(s, cl), NEW w \in DOMAIN s.workers,
           s.workers[w].wait = "no", NEW z, z = removeStaleWorker(s, w)
    PROVE  SchedulerInv(z, cl) /\ Evolves(s, z, {}) /\ Quiet(s, z, {})
<1> DEFINE t == s.workers[w].task
           u == IF t = None THEN s ELSE fail(s, t, FALSE)
<1>1. /\ SchedulerInv(u, cl) /\ Evolves(s, u, {}) /\ Quiet(s, u, {})
      /\ w \in DOMAIN u.workers /\ u.workers[w].task = None /\ u.workers[w].wait = "no"
  <2>1. s.created \in Nat /\ DOMAIN s.tasks \subseteq 1 .. s.created
    BY DEF SchedulerInv, Halfway, StateOK
  <2>2. CASE t = None
    <3>1. u = s
      BY <2>2
    <3>2. Evolves(s, s, {}) /\ Quiet(s, s, {})
      BY <2>1 DEF Evolves, Quiet
    <3> HIDE DEF u
    <3> QED BY <2>2, <3>1, <3>2
  <2>3. CASE t # None
    <3>1. u = fail(s, t, FALSE)
      BY <2>3
    <3>2. t \in DOMAIN s.tasks
      BY <2>3 DEF SchedulerInv, Halfway, Accounted, WorkersOK
    <3>3. t = s.workers[w].task
      OBVIOUS
    <3> HIDE DEF u, t
    <3>4. SchedulerInv(u, cl) /\ Fails(s, u, t)
      BY <3>1, <3>2, FailInv
    <3>5. Evolves(s, u, {}) /\ Quiet(s, u, {})
      BY <2>1, <2>3, <3>2, <3>4, FailEvolves
    <3>6. w \in DOMAIN u.workers /\ u.workers[w].task = None /\ u.workers[w].wait = "no"
      BY <2>3, <3>3, <3>4 DEF Fails, Frees
    <3> QED BY <3>4, <3>5, <3>6
  <2> QED BY <2>2, <2>3
<1>2. z = Then(Then(u, LAMBDA x : clearLastInvocation(x, w)),
               LAMBDA x : [x EXCEPT !.workers = Restrict(@, DOMAIN @ \ {w})])
  BY DEF removeStaleWorker
<1> HIDE DEF u
<1>3. StateOK(u) /\ u.panicked = FALSE /\ Accounted(u, {}, {})
  BY <1>1 DEF SchedulerInv, Halfway, StateOK
<1>4. z = Then(clearLastInvocation(u, w),
               LAMBDA x : [x EXCEPT !.workers = Restrict(@, DOMAIN @ \ {w})])
  <2>1. Then(u, LAMBDA x : clearLastInvocation(x, w)) = clearLastInvocation(u, w)
    BY <1>3 DEF Then
  <2> QED BY <1>2, <2>1
<1> DEFINE c == WorkerClass[w]
           k == u.workers[w].last
           E == {}
           X == {}
<1>5. c = WorkerClass[w] /\ k = u.workers[w].last /\ Accounted(u, X, E)
  BY <1>3
<1> HIDE DEF c, k, E, X
<1>6. /\ k # None /\ k \in InvocationKeys /\ <<c, k>> \in DOMAIN u.inv
      /\ \A i \in DOMAIN u.inv : u.inv[i].idle >= Share(i, c, {k})
  BY <1>1, <1>3, <1>5, LastOfWorker
<1>7. PICK v : Leaves(u, v, w, c, k) /\ Removes(v, z, c, {k})
  BY <1>1, <1>3, <1>4, <1>5, <1>6, UnregisterIs
<1>8. StateOK(v) /\ Accounted(v, {}, {<<c, k>>})
  BY <1>1, <1>3, <1>5, <1>6, <1>7, LeavesAccounts
<1>9. StateOK(z) /\ Accounted(z, {}, {})
  <2> DEFINE K == {k}
             Y == {}
             G == {<<c, k>>}
  <2>1. Accounted(v, Y, G) /\ Removes(v, z, c, K)
    BY <1>7, <1>8
  <2>2. G \ Invocations(c, K) = {}
    BY DEF Invocations
  <2> HIDE DEF K, Y, G
  <2>3. StateOK(z) /\ Accounted(z, Y, G \ Invocations(c, K))
    BY <1>8, <2>1, RemovalKeepsAccounts
  <2> QED BY <2>2, <2>3 DEF Y
<1>10. Departs(u, z)
  BY <1>7 DEF Leaves, SameScalars, Removes, SameButInvocations, Departs
<1>11. SchedulerInv(z, cl) /\ Evolves(u, z, {}) /\ Quiet(u, z, {})
  BY <1>1, <1>9, <1>10, DepartsOK
<1>12. Evolves(s, z, {}) /\ Quiet(s, z, {})
  <2> DEFINE T == {}
  <2>1. Evolves(s, u, T) /\ Quiet(s, u, T) /\ Evolves(u, z, T) /\ Quiet(u, z, T)
    BY <1>1, <1>11
  <2> HIDE DEF T
  <2>2. Evolves(s, z, T) /\ Quiet(s, z, T)
    BY <2>1, EvolvesTransitive, QuietTransitive
  <2> QED BY <2>2 DEF T
<1> QED BY <1>11, <1>12

-----------------------------------------------------------------------------
(* failAllQueuedOperations() fails tasks one by one. *)
(* A non-empty set of natural numbers has a least element. *)
LEMMA LeastNatural ==
    ASSUME NEW T, T \subseteq Nat, T # {}
    PROVE  \E x \in T : \A y \in T : x <= y
<1> DEFINE R == {ss \in Nat \X Nat : ss[1] < ss[2]}
<1>1. IsWellFoundedOn(R, Nat)
  BY NatLessThanWellFounded DEF OpToRel
<1>2. PICK x \in T : \A y \in T : ~ (<<y, x>> \in R)
  BY <1>1, WFMin, Zenon
<1>3. \A y \in T : ~ (y < x)
  BY <1>2
<1> QED BY <1>3

(* The next task of a set that is failed, and what has become of the state *)
(* after failing those of a set, for every set of S.                       *)
NextOf(x) == CHOOSE t \in x : TRUE

FailsOneByOne(g, D, s) ==
    g = [x \in D |-> IF x = {} THEN s ELSE fail(g[x \ {NextOf(x)}], NextOf(x), FALSE)]

SmallSubsets(S, n) == {x \in SUBSET S : Cardinality(x) <= n}

LEMMA SmallerSubset ==
    ASSUME NEW S, IsFiniteSet(S), NEW n \in Nat, NEW x \in SmallSubsets(S, n), x # {}
    PROVE  /\ NextOf(x) \in x
           /\ n # 0
           /\ x \ {NextOf(x)} \in SmallSubsets(S, n - 1)
<1>1. NextOf(x) \in x
  BY DEF NextOf
<1>2. IsFiniteSet(x)
  BY FS_Subset DEF SmallSubsets
<1>3. /\ Cardinality(x) \in Nat /\ Cardinality(x) # 0
      /\ Cardinality(x \ {NextOf(x)}) = Cardinality(x) - 1
  BY <1>1, <1>2, FS_CardinalityType, FS_EmptySet, FS_RemoveElement
<1> QED BY <1>1, <1>3 DEF SmallSubsets

LEMMA FailingOneByOneExists ==
    ASSUME NEW S, IsFiniteSet(S), NEW s, NEW n \in Nat
    PROVE  \E g : FailsOneByOne(g, SmallSubsets(S, n), s)
<1> SUFFICES ASSUME ~ \E g : FailsOneByOne(g, SmallSubsets(S, n), s) PROVE FALSE
  OBVIOUS
<1> DEFINE Bad == {m \in Nat : ~ \E g : FailsOneByOne(g, SmallSubsets(S, m), s)}
<1>1. PICK m \in Bad : \A k \in Bad : m <= k
  <2>1. Bad \subseteq Nat /\ Bad # {}
    OBVIOUS
  <2> HIDE DEF Bad
  <2> QED BY <2>1, LeastNatural
<1>2. m \in Nat
  OBVIOUS
<1>3. CASE m = 0
  <2> DEFINE g == [x \in SmallSubsets(S, m) |-> s]
  <2>1. \A x \in SmallSubsets(S, m) : x = {}
    BY <1>2, <1>3, SmallerSubset
  <2>2. \A x \in SmallSubsets(S, m) :
           g[x] = IF x = {} THEN s ELSE fail(g[x \ {NextOf(x)}], NextOf(x), FALSE)
    BY <2>1
  <2>3. FailsOneByOne(g, SmallSubsets(S, m), s)
    BY <2>2 DEF FailsOneByOne
  <2> QED BY <2>3
<1>4. CASE m # 0
  <2>1. m - 1 \in Nat /\ ~ (m <= m - 1)
    BY <1>2, <1>4
  <2>2. PICK h : FailsOneByOne(h, SmallSubsets(S, m - 1), s)
    BY <1>1, <2>1
  <2> DEFINE g == [x \in SmallSubsets(S, m) |->
                      IF x = {} THEN s ELSE fail(h[x \ {NextOf(x)}], NextOf(x), FALSE)]
  <2>3. ASSUME NEW x \in SmallSubsets(S, m), x # {}
        PROVE  g[x \ {NextOf(x)}] = h[x \ {NextOf(x)}]
    <3> DEFINE y == x \ {NextOf(x)}
    <3>1. y \in SmallSubsets(S, m - 1)
      BY <1>2, <2>3, SmallerSubset
    <3>2. y \in SmallSubsets(S, m)
      <4>1. y \in SUBSET S /\ Cardinality(y) <= m - 1
        BY <3>1 DEF SmallSubsets
      <4>2. Cardinality(y) \in Nat
        BY <4>1, FS_Subset, FS_CardinalityType
      <4> QED BY <1>2, <4>1, <4>2 DEF SmallSubsets
    <3> HIDE DEF y
    <3>3. g[y] = IF y = {} THEN s ELSE fail(h[y \ {NextOf(y)}], NextOf(y), FALSE)
      BY <3>2
    <3>4. h[y] = IF y = {} THEN s ELSE fail(h[y \ {NextOf(y)}], NextOf(y), FALSE)
      BY <2>2, <3>1, Zenon DEF FailsOneByOne
    <3> QED BY <3>3, <3>4, Zenon DEF y
  <2>4. \A x \in SmallSubsets(S, m) :
           g[x] = IF x = {} THEN s ELSE fail(g[x \ {NextOf(x)}], NextOf(x), FALSE)
    BY <2>3, Zenon
  <2>5. FailsOneByOne(g, SmallSubsets(S, m), s)
    <3> HIDE DEF g
    <3>1. g = [x \in SmallSubsets(S, m) |-> g[x]]
      BY DEF g
    <3> QED BY <2>4, <3>1, Zenon DEF FailsOneByOne
  <2> QED BY <2>5
<1> QED BY <1>3, <1>4

LEMMA FailingAllIsOneByOne ==
    ASSUME NEW s, NEW c, IsFiniteSet(QueuedTasks(s, c))
    PROVE  \E g : /\ FailsOneByOne(g, SUBSET QueuedTasks(s, c), s)
                  /\ failAllQueuedOperations(s, c) = g[QueuedTasks(s, c)]
<1> DEFINE S == QueuedTasks(s, c)
           n == Cardinality(S)
<1>1. SmallSubsets(S, n) = SUBSET S
  BY FS_Subset, FS_CardinalityType DEF SmallSubsets
<1>2. n \in Nat
  BY FS_CardinalityType
<1> HIDE DEF S
<1>3. \E g : FailsOneByOne(g, SUBSET S, s)
  <2>1. IsFiniteSet(S)
    BY DEF S
  <2> HIDE DEF n
  <2>2. \E g : FailsOneByOne(g, SmallSubsets(S, n), s)
    BY <1>2, <2>1, FailingOneByOneExists
  <2> QED BY <1>1, <2>2
<1> DEFINE h == CHOOSE g : FailsOneByOne(g, SUBSET S, s)
<1>4. FailsOneByOne(h, SUBSET S, s)
  BY <1>3
<1>5. failAllQueuedOperations(s, c) = h[S]
  BY DEF failAllQueuedOperations, FoldSet, MapThenFoldSet, FailsOneByOne, NextOf, S
<1> QED BY <1>4, <1>5 DEF S

(* What failing the tasks of a set that nobody executes amounts to. *)
FailsAll(s, u, x) ==
    /\ u.created = s.created /\ u.classes = s.classes /\ u.drains = s.drains
    /\ DOMAIN u.tasks = DOMAIN s.tasks
    /\ \A t \in DOMAIN s.tasks \ x : u.tasks[t] = s.tasks[t]
    /\ \A t \in x : ~Pending(u, t)
    /\ DOMAIN u.workers = DOMAIN s.workers
    /\ \A w \in DOMAIN s.workers : s.workers[w].task \notin x => u.workers[w] = s.workers[w]

LEMMA FailsOneMore ==
    ASSUME NEW s, NEW u, NEW v, NEW x, NEW t \in x, x \subseteq DOMAIN s.tasks,
           FailsAll(s, u, x \ {t}), Fails(u, v, t)
    PROVE  FailsAll(s, v, x)
<1>1. /\ v.created = s.created /\ v.classes = s.classes /\ v.drains = s.drains
      /\ DOMAIN v.tasks = DOMAIN s.tasks /\ DOMAIN v.workers = DOMAIN s.workers
  BY DEF Fails, OnlyTask, Frees, FailsAll
<1>2. \A y \in DOMAIN s.tasks \ x : v.tasks[y] = s.tasks[y]
  BY DEF Fails, OnlyTask, FailsAll
<1>3. \A y \in x : ~Pending(v, y)
  BY DEF Fails, OnlyTask, FailsAll, Pending
<1>4. ASSUME NEW w \in DOMAIN s.workers, s.workers[w].task \notin x
      PROVE  v.workers[w] = s.workers[w]
  <2>1. u.workers[w] = s.workers[w] /\ w \in DOMAIN u.workers
    BY <1>4 DEF FailsAll
  <2> QED BY <1>4, <2>1 DEF Fails, Frees
<1> QED BY <1>1, <1>2, <1>3, <1>4 DEF FailsAll

LEMMA FailingSubsets ==
    ASSUME NEW s, NEW cl, SchedulerInv(s, cl), NEW S, S \subseteq DOMAIN s.tasks, IsFiniteSet(S),
           NEW g, FailsOneByOne(g, SUBSET S, s)
    PROVE  \A x \in SUBSET S : SchedulerInv(g[x], cl) /\ FailsAll(s, g[x], x)
<1> DEFINE Good(x) == SchedulerInv(g[x], cl) /\ FailsAll(s, g[x], x)
           Bad == {x \in SUBSET S : ~Good(x)}
           Sizes == {Cardinality(x) : x \in Bad}
<1> SUFFICES ASSUME Bad # {} PROVE FALSE
  BY Zenon
<1>1. \A x \in SUBSET S : IsFiniteSet(x) /\ Cardinality(x) \in Nat
  BY FS_Subset, FS_CardinalityType
<1>2. Sizes \subseteq Nat /\ Sizes # {}
  <2> HIDE DEF Good
  <2> QED BY <1>1
<1>3. PICK n \in Sizes : \A m \in Sizes : n <= m
  <2> HIDE DEF Sizes
  <2> QED BY <1>2, LeastNatural
<1>4. PICK x \in Bad : n = Cardinality(x)
  BY <1>3, Zenon
<1>5. x \in SUBSET S /\ ~Good(x)
  BY <1>4, Zenon
<1>6. g[x] = IF x = {} THEN s ELSE fail(g[x \ {NextOf(x)}], NextOf(x), FALSE)
  BY <1>5, Zenon DEF FailsOneByOne
<1>7. x # {}
  <2> SUFFICES ASSUME x = {} PROVE FALSE
    OBVIOUS
  <2>1. g[x] = s
    BY <1>6
  <2>2. FailsAll(s, s, x)
    BY DEF FailsAll
  <2> QED BY <1>5, <2>1, <2>2, Zenon
<1> DEFINE t == NextOf(x)
           y == x \ {t}
<1>8. t \in x
  BY <1>7 DEF NextOf
<1>9. y \in SUBSET S /\ Cardinality(y) \in Nat /\ ~(n <= Cardinality(y))
  <2>1. Cardinality(y) = Cardinality(x) - 1
    BY <1>1, <1>5, <1>8, FS_RemoveElement
  <2>2. y \in SUBSET S
    BY <1>5
  <2> HIDE DEF y
  <2> QED BY <1>1, <1>4, <1>5, <2>1, <2>2
<1>10. Good(y)
  <2> SUFFICES ASSUME ~Good(y) PROVE FALSE
    OBVIOUS
  <2>1. y \in Bad
    BY <1>9, Zenon
  <2>2. Cardinality(y) \in Sizes
    BY <2>1, Zenon
  <2> HIDE DEF Sizes, Good, y
  <2> QED BY <1>3, <1>9, <2>2
<1>11. g[x] = fail(g[y], t, FALSE) /\ SchedulerInv(g[y], cl) /\ FailsAll(s, g[y], x \ {t})
  BY <1>6, <1>7, <1>10, Zenon
<1>12. x \subseteq DOMAIN s.tasks
  BY <1>5
<1> DEFINE u == g[y]
           v == g[x]
<1>13. v = fail(u, t, FALSE) /\ SchedulerInv(u, cl) /\ FailsAll(s, u, x \ {t})
  BY <1>11
<1> HIDE DEF u, v, y, t
<1>14. t \in DOMAIN u.tasks
  BY <1>8, <1>12, <1>13 DEF FailsAll
<1>15. SchedulerInv(v, cl) /\ Fails(u, v, t)
  BY <1>13, <1>14, FailInv
<1>16. FailsAll(s, v, x)
  BY <1>8, <1>12, <1>13, <1>15, FailsOneMore
<1> QED BY <1>5, <1>15, <1>16, Zenon DEF v

(* Nobody executes the tasks that are queued. *)
FailsQueued(s, u, c) ==
    /\ u.created = s.created /\ u.classes = s.classes /\ u.drains = s.drains
    /\ DOMAIN u.workers = DOMAIN s.workers
    /\ \A w \in DOMAIN s.workers : u.workers[w] = s.workers[w]
    /\ DOMAIN u.tasks = DOMAIN s.tasks
    /\ \A t \in DOMAIN s.tasks :
          IF Pending(s, t) /\ s.tasks[t].worker = None /\ s.tasks[t].class = c
          THEN ~Pending(u, t) ELSE u.tasks[t] = s.tasks[t]

LEMMA FailAllOK ==
    ASSUME NEW s, NEW cl, SchedulerInv(s, cl), NEW c, NEW u, u = failAllQueuedOperations(s, c)
    PROVE  /\ SchedulerInv(u, cl) /\ FailsQueued(s, u, c)
           /\ Evolves(s, u, {}) /\ Quiet(s, u, {})
<1> DEFINE S == QueuedTasks(s, c)
           X == {}
           E == {}
<1>1. StateOK(s) /\ Accounted(s, X, E) /\ WorkersOK(s)
  BY DEF SchedulerInv, Halfway, Accounted
<1>2. S = {t \in DOMAIN s.tasks \ X : Pending(s, t) /\ s.tasks[t].worker = None /\ s.tasks[t].class = c}
  <2> HIDE DEF X, E
  <2> QED BY <1>1, QueuedTasksAre
<1>3. S = {t \in DOMAIN s.tasks : Pending(s, t) /\ s.tasks[t].worker = None /\ s.tasks[t].class = c}
  <2> HIDE DEF S
  <2> QED BY <1>2
<1>4. S \subseteq DOMAIN s.tasks /\ IsFiniteSet(S)
  <2> HIDE DEF S
  <2>1. S \subseteq PendingTasks(s)
    BY <1>3 DEF PendingTasks
  <2> QED BY <1>1, <1>3, <2>1, PendingTasksAreFinite, FS_Subset
<1>5. PICK g : FailsOneByOne(g, SUBSET S, s) /\ u = g[S]
  BY <1>4, FailingAllIsOneByOne
<1> HIDE DEF S
<1>6. SchedulerInv(u, cl) /\ FailsAll(s, u, S)
  <2>1. \A x \in SUBSET S : SchedulerInv(g[x], cl) /\ FailsAll(s, g[x], x)
    BY <1>4, <1>5, FailingSubsets
  <2> QED BY <1>5, <2>1
<1>7. FailsQueued(s, u, c)
  <2>1. ASSUME NEW w \in DOMAIN s.workers PROVE u.workers[w] = s.workers[w]
    <3>1. s.workers[w].task \notin S
      <4> SUFFICES ASSUME s.workers[w].task \in S PROVE FALSE
        OBVIOUS
      <4>1. s.workers[w].task # None
        BY <1>1, <1>4, NamesDiffer DEF StateOK
      <4>2. s.tasks[s.workers[w].task].worker = w /\ w # None
        BY <1>1, <4>1, NamesDiffer DEF WorkersOK, StateOK
      <4> QED BY <1>3, <4>2
    <3> QED BY <1>6, <3>1 DEF FailsAll
  <2>2. ASSUME NEW t \in DOMAIN s.tasks
        PROVE  IF Pending(s, t) /\ s.tasks[t].worker = None /\ s.tasks[t].class = c
               THEN ~Pending(u, t) ELSE u.tasks[t] = s.tasks[t]
    <3>1. t \in S <=> Pending(s, t) /\ s.tasks[t].worker = None /\ s.tasks[t].class = c
      BY <1>3
    <3> QED BY <1>6, <3>1 DEF FailsAll
  <2> QED BY <1>6, <2>1, <2>2 DEF FailsAll, FailsQueued
<1>8. Evolves(s, u, {})
  <2>1. s.created \in Nat /\ u.created = s.created
    BY <1>1, <1>6 DEF StateOK, FailsAll
  <2>2. ASSUME NEW t \in DOMAIN u.tasks, Pending(u, t)
        PROVE  t \in DOMAIN s.tasks /\ u.tasks[t] = s.tasks[t]
    BY <1>7, <2>2 DEF FailsQueued
  <2> QED BY <2>1, <2>2 DEF Evolves, Pending
<1>9. Quiet(s, u, {})
  BY <1>7 DEF FailsQueued, Quiet
<1> QED BY <1>6, <1>7, <1>8, <1>9

LEMMA WithdrawsIs ==
    ASSUME NEW s, IsState(s), NEW c,
           NEW u, u = [s EXCEPT !.classes = @ \ {c},
                                !.inv = Restrict(@, {i \in DOMAIN @ : i[1] # c}),
                                !.drains = {w \in @ : WorkerClass[w] # c}]
    PROVE  Withdraws(s, u, c)
<1>1. /\ IsState(u)
      /\ u.classes = s.classes \ {c} /\ u.created = s.created
      /\ u.inFlightDeduplicationMap = s.inFlightDeduplicationMap
      /\ u.handles = s.handles /\ u.panicked = s.panicked
      /\ u.tasks = s.tasks /\ u.workers = s.workers
      /\ u.drains = {w \in s.drains : WorkerClass[w] # c}
      /\ u.inv = Restrict(s.inv, {i \in DOMAIN s.inv : i[1] # c})
  BY DEF IsState, Fields
<1>2. /\ DOMAIN u.inv = {i \in DOMAIN s.inv : i[1] # c}
      /\ \A i \in DOMAIN u.inv : u.inv[i] = s.inv[i]
  BY <1>1 DEF Restrict
<1> QED BY <1>1, <1>2 DEF Withdraws

LEMMA WithdrawsOK ==
    ASSUME NEW s, NEW cl, SchedulerInv(s, cl), NEW c \in s.classes, c # Largest,
           \A w \in DOMAIN s.workers : WorkerClass[w] # c,
           \A t \in DOMAIN s.tasks : Pending(s, t) => s.tasks[t].class # c,
           NEW u, Withdraws(s, u, c)
    PROVE  SchedulerInv(u, cl) /\ Evolves(s, u, {}) /\ Quiet(s, u, {})
<1>1. StateOK(s) /\ Accounted(s, {}, {})
  BY DEF SchedulerInv, Halfway
<1>2. StateOK(u)
  <2>1. DOMAIN u.inv \subseteq u.classes \X InvocationKeys
    BY <1>1 DEF StateOK, Withdraws
  <2> QED BY <1>1, <2>1 DEF StateOK, Withdraws
<1>3. u.tasks = s.tasks /\ u.workers = s.workers /\ u.classes = s.classes \ {c}
      /\ DOMAIN u.inv = {i \in DOMAIN s.inv : i[1] # c}
      /\ \A i \in DOMAIN u.inv : u.inv[i] = s.inv[i]
  BY DEF Withdraws
<1>4. WorkersOK(u)
  <2> SUFFICES ASSUME NEW w \in DOMAIN s.workers PROVE WorkerFine(u, w)
    BY <1>3 DEF WorkersOK, WorkerFine
  <2>1. WorkerFine(s, w)
    BY <1>1 DEF Accounted, WorkersOK, WorkerFine
  <2>2. WorkerClass[w] # c /\ <<WorkerClass[w], s.workers[w].last>>[1] = WorkerClass[w]
    OBVIOUS
  <2> QED BY <1>3, <2>1, <2>2 DEF WorkerFine, Pending
<1>5. TasksOK(u, {})
  <2> SUFFICES ASSUME NEW t \in DOMAIN s.tasks PROVE TaskFine(u, {}, t)
    BY <1>3 DEF TasksOK, TaskFine
  <2>1. TaskFine(s, {}, t)
    BY <1>1 DEF Accounted, TasksOK, TaskFine
  <2>2. Pending(u, t) <=> Pending(s, t)
    BY <1>3 DEF Pending
  <2>3. ASSUME Pending(s, t)
        PROVE  Invocations(s.tasks[t].class, DOMAIN s.tasks[t].operations) \subseteq DOMAIN u.inv
    <3>1. s.tasks[t].class # c
      BY <2>3
    <3>2. \A i \in Invocations(s.tasks[t].class, DOMAIN s.tasks[t].operations) : i[1] = s.tasks[t].class
      BY DEF Invocations
    <3> QED BY <1>3, <2>1, <2>3, <3>1, <3>2 DEF TaskFine
  <2> QED BY <1>3, <2>1, <2>2, <2>3 DEF TaskFine
<1>6. QueuesOK(u, {})
  <2> SUFFICES ASSUME NEW i \in DOMAIN u.inv
               PROVE  u.inv[i].queued = {t \in DOMAIN u.tasks \ {} : Queues(u, t, i)}
    BY DEF QueuesOK
  <2>1. s.inv[i].queued = {t \in DOMAIN s.tasks \ {} : Queues(s, t, i)} /\ u.inv[i] = s.inv[i]
    BY <1>1, <1>3 DEF Accounted, QueuesOK
  <2>2. \A t : Queues(u, t, i) <=> Queues(s, t, i)
    BY <1>3 DEF Queues, Pending
  <2> QED BY <1>3, <2>1, <2>2
<1>7. ExecutingOK(u)
  BY <1>1, <1>3 DEF Accounted, ExecutingOK, Executes
<1>8. IdleOK(u)
  <2> SUFFICES ASSUME NEW i \in DOMAIN u.inv
               PROVE  u.inv[i].idle = Cardinality(IdleWorkers(u, i))
    BY DEF IdleOK
  <2>1. s.inv[i].idle = Cardinality(IdleWorkers(s, i)) /\ u.inv[i] = s.inv[i]
    BY <1>1, <1>3 DEF Accounted, IdleOK
  <2>2. IdleWorkers(u, i) = IdleWorkers(s, i)
    BY <1>3 DEF IdleWorkers
  <2> QED BY <2>1, <2>2
<1>9. ActiveOK(u, {}) /\ RootsOK(u)
  BY <1>1, <1>3 DEF Accounted, ActiveOK, RootsOK
<1>10. Accounted(u, {}, {})
  BY <1>4, <1>5, <1>6, <1>7, <1>8, <1>9 DEF Accounted
<1> DEFINE X == {}
           P == {}
           n == 0
<1>11. WaitingOK(s, X) /\ HandlesOK(s, n) /\ RecordsOK(s, cl, P)
  BY DEF SchedulerInv, Halfway
<1>12. WaitingOK(u, X)
  <2> HIDE DEF X
  <2>1. \A x : NothingQueued(s, X, x) => NothingQueued(u, X, x)
    BY <1>3 DEF NothingQueued, Pending
  <2>2. \A x \in DOMAIN u.workers : isDrained(u, x) <=> isDrained(s, x)
    BY <1>3 DEF Withdraws, isDrained
  <2> QED BY <1>3, <1>11, <2>1, <2>2 DEF WaitingOK
<1>13. HandlesOK(u, n) /\ RecordsOK(u, cl, P)
  <2> HIDE DEF n, P
  <2>1. SameRecords(s, u)
    BY <1>1, EqualRecords DEF Withdraws
  <2> QED BY <1>11, <2>1, RecordsStep DEF Withdraws
<1>14. SchedulerInv(u, cl)
  BY <1>2, <1>10, <1>12, <1>13 DEF SchedulerInv, Halfway
<1>15. s.created \in Nat /\ DOMAIN s.tasks \subseteq 1 .. s.created
  BY <1>1 DEF StateOK
<1>16. Evolves(s, u, {}) /\ Quiet(s, u, {})
  BY <1>15 DEF Withdraws, Evolves, Pending, Quiet
<1> QED BY <1>14, <1>16

LEMMA RemoveSizeClassQueueOK ==
    ASSUME NEW s, NEW cl, SchedulerInv(s, cl), NEW c \in s.classes \ {Largest},
           WorkersOf(s, c) = {}, NEW z, z = removeSizeClassQueue(s, c)
    PROVE  SchedulerInv(z, cl) /\ Evolves(s, z, {}) /\ Quiet(s, z, {})
<1> DEFINE u == failAllQueuedOperations(s, c)
<1>1. u = failAllQueuedOperations(s, c)
  OBVIOUS
<1>2. z = [u EXCEPT !.classes = @ \ {c},
                    !.inv = Restrict(@, {i \in DOMAIN @ : i[1] # c}),
                    !.drains = {w \in @ : WorkerClass[w] # c}]
  BY DEF removeSizeClassQueue
<1> HIDE DEF u
<1>3. /\ SchedulerInv(u, cl) /\ FailsQueued(s, u, c)
      /\ Evolves(s, u, {}) /\ Quiet(s, u, {})
  BY <1>1, FailAllOK
<1>4. IsState(u) /\ WorkersOK(u) /\ TasksOK(u, {})
  BY <1>3 DEF SchedulerInv, Halfway, StateOK, Accounted
<1>5. Withdraws(u, z, c)
  BY <1>2, <1>4, WithdrawsIs
<1>6. \A w \in DOMAIN u.workers : WorkerClass[w] # c
  BY <1>3 DEF WorkersOf, FailsQueued
<1>7. ASSUME NEW t \in DOMAIN u.tasks, Pending(u, t) PROVE u.tasks[t].class # c
  <2>1. CASE u.tasks[t].worker = None
    <3>1. u.tasks[t] = s.tasks[t] /\ t \in DOMAIN s.tasks /\ Pending(s, t)
      BY <1>3, <1>7 DEF FailsQueued, Pending
    <3> QED BY <1>3, <1>7, <2>1, <3>1 DEF FailsQueued
  <2>2. CASE u.tasks[t].worker # None
    <3> DEFINE w == u.tasks[t].worker
    <3>1. w \in DOMAIN u.workers /\ u.workers[w].task = t
      BY <1>4, <2>2 DEF TasksOK
    <3>2. t # None
      BY <1>3, NamesDiffer DEF SchedulerInv, Halfway, StateOK
    <3>3. u.tasks[t].class = WorkerClass[w]
      BY <1>4, <3>1, <3>2 DEF WorkersOK
    <3> QED BY <1>6, <3>1, <3>3
  <2> QED BY <2>1, <2>2
<1>8. c \in u.classes /\ c # Largest
  BY <1>3 DEF FailsQueued
<1>9. SchedulerInv(z, cl) /\ Evolves(u, z, {}) /\ Quiet(u, z, {})
  BY <1>3, <1>5, <1>6, <1>7, <1>8, WithdrawsOK
<1>10. Evolves(s, z, {}) /\ Quiet(s, z, {})
  <2> DEFINE T == {}
  <2>1. Evolves(s, u, T) /\ Quiet(s, u, T) /\ Evolves(u, z, T) /\ Quiet(u, z, T)
    BY <1>3, <1>9
  <2> HIDE DEF T
  <2>2. Evolves(s, z, T) /\ Quiet(s, z, T)
    BY <2>1, EvolvesTransitive, QuietTransitive
  <2> QED BY <2>2 DEF T
<1> QED BY <1>9, <1>10

-----------------------------------------------------------------------------
LEMMA RewaitsOK ==
    ASSUME NEW s, NEW cl, SchedulerInv(s, cl), NEW u, Rewaits(s, u),
           \A w \in DOMAIN s.workers :
              \/ /\ u.workers[w].wait = s.workers[w].wait
                 /\ s.workers[w].wait = "queued" => isDrained(u, w) = isDrained(s, w)
                 /\ s.workers[w].wait = "drained" => isDrained(u, w)
              \/ u.workers[w].wait = "woken"
              \/ u.workers[w].wait = "undrained" /\ s.workers[w].wait = "drained"
    PROVE  SchedulerInv(u, cl) /\ Evolves(s, u, {}) /\ Quiet(s, u, {})
<1> DEFINE X == {}
           P == {}
           n == 0
<1>1. /\ StateOK(s) /\ Accounted(s, X, X)
      /\ WaitingOK(s, X) /\ HandlesOK(s, n) /\ RecordsOK(s, cl, P)
  BY DEF SchedulerInv, Halfway
<1> HIDE DEF X, P, n
<1>2. StateOK(u)
  BY <1>1 DEF StateOK, Rewaits
<1>3. Accounted(u, X, X)
  <2>1. SameWork(s, u)
    BY DEF Rewaits, SameWork
  <2> QED BY <1>1, <2>1, SameWorkAccounts
<1>4. WaitingOK(u, X)
  <2> SUFFICES ASSUME NEW w \in DOMAIN s.workers PROVE WaitFine(u, X, w, u.workers[w].wait)
    BY WaitingIs DEF Rewaits
  <2>1. WaitFine(s, X, w, s.workers[w].wait)
    BY <1>1, WaitingIs
  <2>2. NothingQueued(s, X, WorkerClass[w]) => NothingQueued(u, X, WorkerClass[w])
    BY DEF Rewaits, NothingQueued, Pending
  <2>3. u.workers[w].task = s.workers[w].task
    BY DEF Rewaits
  <2>4. CASE /\ u.workers[w].wait = s.workers[w].wait
             /\ s.workers[w].wait = "queued" => isDrained(u, w) = isDrained(s, w)
             /\ s.workers[w].wait = "drained" => isDrained(u, w)
    BY <2>1, <2>2, <2>3, <2>4 DEF WaitFine
  <2>5. CASE u.workers[w].wait = "woken"
    BY <2>5 DEF WaitFine
  <2>6. CASE u.workers[w].wait = "undrained" /\ s.workers[w].wait = "drained"
    BY <2>1, <2>3, <2>6 DEF WaitFine
  <2> QED BY <2>4, <2>5, <2>6
<1>5. HandlesOK(u, n) /\ RecordsOK(u, cl, P)
  <2>1. SameRecords(s, u)
    BY <1>1, EqualRecords DEF Rewaits
  <2> QED BY <1>1, <2>1, RecordsStep DEF Rewaits
<1>6. SchedulerInv(u, cl)
  BY <1>2, <1>3, <1>4, <1>5 DEF SchedulerInv, Halfway, X, P, n
<1>7. s.created \in Nat /\ DOMAIN s.tasks \subseteq 1 .. s.created
  BY <1>1 DEF StateOK
<1>8. Evolves(s, u, {}) /\ Quiet(s, u, {})
  BY <1>7 DEF Rewaits, Evolves, Pending, Quiet
<1> QED BY <1>6, <1>8

LEMMA WakeUpQueuedIs ==
    ASSUME NEW s, IsState(s), NEW w, NEW u, u = wakeUpQueued(s, {w})
    PROVE  WakesOne(s, u, w)
<1> DEFINE f == [v \in DOMAIN s.workers |->
                    IF v \in {w} /\ s.workers[v].wait = "queued"
                    THEN [s.workers[v] EXCEPT !.wait = "woken"] ELSE s.workers[v]]
<1>1. u = [s EXCEPT !.workers = f]
  BY DEF wakeUpQueued
<1>2. /\ DOMAIN f = DOMAIN s.workers
      /\ \A v \in DOMAIN s.workers :
            f[v] = IF v = w THEN WakesUp(s.workers[v]) ELSE s.workers[v]
  BY DEF WakesUp
<1> HIDE DEF f
<1>3. /\ IsState(u) /\ u.workers = f
      /\ u.classes = s.classes /\ u.created = s.created
      /\ u.inFlightDeduplicationMap = s.inFlightDeduplicationMap
      /\ u.handles = s.handles /\ u.panicked = s.panicked /\ u.drains = s.drains
      /\ u.tasks = s.tasks /\ u.inv = s.inv
  BY <1>1 DEF IsState, Fields
<1> QED BY <1>2, <1>3 DEF WakesOne

LEMMA WakesUpIs ==
    ASSUME NEW m, NEW x \in Worker(m)
    PROVE  /\ WakesUp(x) \in Worker(m)
           /\ WakesUp(x).task = x.task /\ WakesUp(x).last = x.last
           /\ WakesUp(x).terminating = x.terminating
           /\ WakesUp(x).wait = IF x.wait = "queued" THEN "woken" ELSE x.wait
BY DEF WakesUp, Worker

LEMMA AddDrainOK ==
    ASSUME NEW s, NEW cl, SchedulerInv(s, cl), NEW w \in Workers,
           NEW u, u = wakeUpQueued([s EXCEPT !.drains = @ \cup {w}], {w})
    PROVE  SchedulerInv(u, cl) /\ Evolves(s, u, {}) /\ Quiet(s, u, {})
<1> DEFINE r == [s EXCEPT !.drains = @ \cup {w}]
<1>1. StateOK(s)
  BY DEF SchedulerInv, Halfway
<1>2. /\ IsState(r) /\ r.drains = s.drains \cup {w}
      /\ r.classes = s.classes /\ r.created = s.created
      /\ r.inFlightDeduplicationMap = s.inFlightDeduplicationMap
      /\ r.handles = s.handles /\ r.panicked = s.panicked
      /\ r.tasks = s.tasks /\ r.inv = s.inv /\ r.workers = s.workers
  BY <1>1 DEF StateOK, IsState, Fields
<1> HIDE DEF r
<1>3. /\ IsState(u)
      /\ u.classes = r.classes /\ u.created = r.created
      /\ u.inFlightDeduplicationMap = r.inFlightDeduplicationMap
      /\ u.handles = r.handles /\ u.panicked = r.panicked /\ u.drains = r.drains
      /\ u.tasks = r.tasks /\ u.inv = r.inv
      /\ DOMAIN u.workers = DOMAIN r.workers
      /\ \A v \in DOMAIN r.workers :
            u.workers[v] = IF v = w THEN WakesUp(r.workers[v]) ELSE r.workers[v]
  <2>1. u = wakeUpQueued(r, {w})
    BY DEF r
  <2>2. WakesOne(r, u, w)
    BY <1>2, <2>1, WakeUpQueuedIs
  <2> QED BY <2>2 DEF WakesOne
<1>4. \A v \in DOMAIN s.workers : s.workers[v] \in Worker(s.created)
  BY <1>1 DEF StateOK
<1>5. Rewaits(s, u)
  <2>1. u.drains \subseteq Workers
    BY <1>1, <1>2, <1>3 DEF StateOK
  <2>2. ASSUME NEW v \in DOMAIN s.workers
        PROVE  /\ u.workers[v] \in Worker(s.created)
               /\ u.workers[v].task = s.workers[v].task /\ u.workers[v].last = s.workers[v].last
               /\ s.workers[v].wait = "no" => u.workers[v].wait = "no"
    <3>1. u.workers[v] = IF v = w THEN WakesUp(s.workers[v]) ELSE s.workers[v]
      BY <1>2, <1>3
    <3> QED BY <1>4, <3>1, WakesUpIs
  <2> QED BY <1>2, <1>3, <2>1, <2>2 DEF Rewaits
<1>6. ASSUME NEW v \in DOMAIN s.workers
      PROVE  \/ /\ u.workers[v].wait = s.workers[v].wait
                /\ s.workers[v].wait = "queued" => isDrained(u, v) = isDrained(s, v)
                /\ s.workers[v].wait = "drained" => isDrained(u, v)
             \/ u.workers[v].wait = "woken"
  <2>1. u.workers[v] = IF v = w THEN WakesUp(s.workers[v]) ELSE s.workers[v]
    BY <1>2, <1>3
  <2>2. CASE v = w
    <3>1. isDrained(u, v)
      BY <1>2, <1>3, <2>2 DEF isDrained
    <3>2. u.workers[v].wait = IF s.workers[v].wait = "queued" THEN "woken" ELSE s.workers[v].wait
      BY <1>4, <2>1, <2>2, WakesUpIs
    <3> QED BY <3>1, <3>2
  <2>3. CASE v # w
    <3>1. isDrained(u, v) = isDrained(s, v)
      BY <1>2, <1>3, <2>1, <2>3 DEF isDrained
    <3>2. WaitingOK(s, {})
      BY DEF SchedulerInv, Halfway
    <3> QED BY <2>1, <2>3, <3>1, <3>2 DEF WaitingOK
  <2> QED BY <2>2, <2>3
<1> QED BY <1>5, <1>6, RewaitsOK

LEMMA TerminateOK ==
    ASSUME NEW s, NEW cl, SchedulerInv(s, cl), NEW w \in DOMAIN s.workers,
           NEW u, u = wakeUpQueued([s EXCEPT !.workers[w].terminating = TRUE], {w})
    PROVE  SchedulerInv(u, cl) /\ Evolves(s, u, {}) /\ Quiet(s, u, {})
<1> DEFINE r == [s EXCEPT !.workers[w].terminating = TRUE]
           y == [s.workers[w] EXCEPT !.terminating = TRUE]
<1>1. StateOK(s)
  BY DEF SchedulerInv, Halfway
<1>2. /\ IsState(r) /\ r.drains = s.drains
      /\ r.classes = s.classes /\ r.created = s.created
      /\ r.inFlightDeduplicationMap = s.inFlightDeduplicationMap
      /\ r.handles = s.handles /\ r.panicked = s.panicked
      /\ r.tasks = s.tasks /\ r.inv = s.inv
      /\ r.workers = [s.workers EXCEPT ![w] = y]
  BY <1>1 DEF StateOK, IsState, Fields
<1>3. \A v \in DOMAIN s.workers : s.workers[v] \in Worker(s.created)
  BY <1>1 DEF StateOK
<1>4. /\ y \in Worker(s.created) /\ y.task = s.workers[w].task /\ y.last = s.workers[w].last
      /\ y.wait = s.workers[w].wait /\ y.terminating = TRUE
  <2>1. s.workers[w] \in Worker(s.created)
    BY <1>3
  <2> QED BY <2>1 DEF Worker
<1> HIDE DEF r, y
<1>5. /\ IsState(u)
      /\ u.classes = r.classes /\ u.created = r.created
      /\ u.inFlightDeduplicationMap = r.inFlightDeduplicationMap
      /\ u.handles = r.handles /\ u.panicked = r.panicked /\ u.drains = r.drains
      /\ u.tasks = r.tasks /\ u.inv = r.inv
      /\ DOMAIN u.workers = DOMAIN r.workers
      /\ \A v \in DOMAIN r.workers :
            u.workers[v] = IF v = w THEN WakesUp(r.workers[v]) ELSE r.workers[v]
  <2>1. u = wakeUpQueued(r, {w})
    BY DEF r
  <2>2. WakesOne(r, u, w)
    BY <1>2, <2>1, WakeUpQueuedIs
  <2> QED BY <2>2 DEF WakesOne
<1>6. \A v \in DOMAIN s.workers :
         u.workers[v] = IF v = w THEN WakesUp(y) ELSE s.workers[v]
  BY <1>2, <1>5
<1>7. /\ WakesUp(y) \in Worker(s.created)
      /\ WakesUp(y).task = s.workers[w].task /\ WakesUp(y).last = s.workers[w].last
      /\ WakesUp(y).terminating = TRUE
      /\ WakesUp(y).wait = IF s.workers[w].wait = "queued" THEN "woken" ELSE s.workers[w].wait
  BY <1>4, WakesUpIs
<1>8. Rewaits(s, u)
  <2>1. u.drains \subseteq Workers
    BY <1>1, <1>2, <1>5 DEF StateOK
  <2>2. ASSUME NEW v \in DOMAIN s.workers
        PROVE  /\ u.workers[v] \in Worker(s.created)
               /\ u.workers[v].task = s.workers[v].task /\ u.workers[v].last = s.workers[v].last
               /\ s.workers[v].wait = "no" => u.workers[v].wait = "no"
    BY <1>3, <1>6, <1>7
  <2> QED BY <1>2, <1>5, <2>1, <2>2 DEF Rewaits
<1>9. ASSUME NEW v \in DOMAIN s.workers
      PROVE  \/ /\ u.workers[v].wait = s.workers[v].wait
                /\ s.workers[v].wait = "queued" => isDrained(u, v) = isDrained(s, v)
                /\ s.workers[v].wait = "drained" => isDrained(u, v)
             \/ u.workers[v].wait = "woken"
  <2>1. CASE v = w
    <3>1. isDrained(u, v)
      BY <1>6, <1>7, <2>1 DEF isDrained
    <3> QED BY <1>6, <1>7, <2>1, <3>1
  <2>2. CASE v # w
    <3>1. isDrained(u, v) = isDrained(s, v)
      BY <1>2, <1>5, <1>6, <2>2 DEF isDrained
    <3>2. WaitingOK(s, {})
      BY DEF SchedulerInv, Halfway
    <3> QED BY <1>6, <2>2, <3>1, <3>2 DEF WaitingOK
  <2> QED BY <2>1, <2>2
<1> QED BY <1>8, <1>9, RewaitsOK

LEMMA RemoveDrainOK ==
    ASSUME NEW s, NEW cl, SchedulerInv(s, cl), NEW w \in Workers,
           NEW u, u = [s EXCEPT
                          !.drains = @ \ {w},
                          !.workers = [v \in DOMAIN @ |->
                              IF WorkerClass[v] = WorkerClass[w] /\ @[v].wait = "drained"
                              THEN [@[v] EXCEPT !.wait = "undrained"] ELSE @[v]]]
    PROVE  SchedulerInv(u, cl) /\ Evolves(s, u, {}) /\ Quiet(s, u, {})
<1> DEFINE y(v) == [s.workers[v] EXCEPT !.wait = "undrained"]
           f == [v \in DOMAIN s.workers |->
                    IF WorkerClass[v] = WorkerClass[w] /\ s.workers[v].wait = "drained"
                    THEN y(v) ELSE s.workers[v]]
<1>1. StateOK(s) /\ WaitingOK(s, {})
  BY DEF SchedulerInv, Halfway
<1>2. u = [s EXCEPT !.drains = @ \ {w}, !.workers = f]
  OBVIOUS
<1>3. /\ DOMAIN f = DOMAIN s.workers
      /\ \A v \in DOMAIN s.workers :
            f[v] = IF WorkerClass[v] = WorkerClass[w] /\ s.workers[v].wait = "drained"
                   THEN y(v) ELSE s.workers[v]
  OBVIOUS
<1> HIDE DEF f
<1>4. /\ IsState(u) /\ u.workers = f /\ u.drains = s.drains \ {w}
      /\ u.classes = s.classes /\ u.created = s.created
      /\ u.inFlightDeduplicationMap = s.inFlightDeduplicationMap
      /\ u.handles = s.handles /\ u.panicked = s.panicked
      /\ u.tasks = s.tasks /\ u.inv = s.inv
  BY <1>1, <1>2 DEF StateOK, IsState, Fields
<1>5. ASSUME NEW v \in DOMAIN s.workers
      PROVE  /\ y(v) \in Worker(s.created)
             /\ y(v).task = s.workers[v].task /\ y(v).last = s.workers[v].last
             /\ y(v).wait = "undrained" /\ s.workers[v] \in Worker(s.created)
  <2>1. s.workers[v] \in Worker(s.created)
    BY <1>1 DEF StateOK
  <2> QED BY <2>1 DEF Worker
<1> HIDE DEF y
<1>6. Rewaits(s, u)
  <2>1. u.drains \subseteq Workers
    BY <1>1, <1>4 DEF StateOK
  <2>2. ASSUME NEW v \in DOMAIN s.workers
        PROVE  /\ u.workers[v] \in Worker(s.created)
               /\ u.workers[v].task = s.workers[v].task /\ u.workers[v].last = s.workers[v].last
               /\ s.workers[v].wait = "no" => u.workers[v].wait = "no"
    BY <1>3, <1>4, <1>5
  <2> QED BY <1>3, <1>4, <2>1, <2>2 DEF Rewaits
<1>7. ASSUME NEW v \in DOMAIN s.workers
      PROVE  \/ /\ u.workers[v].wait = s.workers[v].wait
                /\ s.workers[v].wait = "queued" => isDrained(u, v) = isDrained(s, v)
                /\ s.workers[v].wait = "drained" => isDrained(u, v)
             \/ u.workers[v].wait = "undrained" /\ s.workers[v].wait = "drained"
  <2>1. CASE WorkerClass[v] = WorkerClass[w] /\ s.workers[v].wait = "drained"
    BY <1>3, <1>4, <1>5, <2>1
  <2>2. CASE ~(WorkerClass[v] = WorkerClass[w] /\ s.workers[v].wait = "drained")
    <3>1. u.workers[v] = s.workers[v]
      BY <1>3, <1>4, <2>2
    <3>2. ASSUME s.workers[v].wait = "drained" PROVE isDrained(u, v)
      <4>1. v # w /\ isDrained(s, v)
        BY <1>1, <2>2, <3>2 DEF WaitingOK
      <4> QED BY <1>4, <3>1, <4>1 DEF isDrained
    <3>3. ASSUME s.workers[v].wait = "queued" PROVE isDrained(u, v) = isDrained(s, v)
      <4>1. ~isDrained(s, v)
        BY <1>1, <3>3 DEF WaitingOK
      <4> QED BY <1>4, <3>1, <4>1 DEF isDrained
    <3> QED BY <3>1, <3>2, <3>3
  <2> QED BY <2>1, <2>2
<1> QED BY <1>6, <1>7, RewaitsOK

-----------------------------------------------------------------------------
DropsOperation(s, u, t, k) ==
    u = [s EXCEPT !.tasks[t].operations = Restrict(@, DOMAIN @ \ {k})]

LEMMA ShrinksIs ==
    ASSUME NEW s, IsState(s), NEW t \in DOMAIN s.tasks, IsTask(s.tasks[t]), NEW k,
           NEW u, DropsOperation(s, u, t, k)
    PROVE  Shrinks(s, u, t, k) /\ u.inv = s.inv
<1> DEFINE ops == Restrict(s.tasks[t].operations, DOMAIN s.tasks[t].operations \ {k})
           y == [s.tasks[t] EXCEPT !.operations = ops]
<1>1. u = [s EXCEPT !.tasks[t] = y]
  BY DEF DropsOperation
<1>2. ops = [j \in DOMAIN s.tasks[t].operations \ {k} |-> s.tasks[t].operations[j]]
  BY DEF Restrict
<1> HIDE DEF ops
<1>3. /\ IsTask(y) /\ y.operations = ops
      /\ y.action = s.tasks[t].action /\ y.class = s.tasks[t].class /\ y.learner = s.tasks[t].learner
      /\ y.worker = s.tasks[t].worker /\ y.retryCount = s.tasks[t].retryCount
      /\ y.failed = s.tasks[t].failed /\ y.event = s.tasks[t].event
  BY DEF IsTask, TaskFields
<1> HIDE DEF y
<1>4. ChangesTask(s, u, t, y)
  BY <1>1, ChangesTaskIs
<1>5. LosesOperation(s.tasks[t], y, k)
  BY <1>2, <1>3 DEF LosesOperation
<1> QED BY <1>4, <1>5 DEF ChangesTask, Shrinks

LEMMA LosesOperationTypes ==
    ASSUME NEW x, TaskOK(x), NEW k, NEW y, LosesOperation(x, y, k)
    PROVE  /\ TaskOK(y) /\ DOMAIN y.operations = DOMAIN x.operations \ {k}
           /\ \A j \in DOMAIN y.operations : y.operations[j] = x.operations[j]
<1>1. /\ DOMAIN y.operations = DOMAIN x.operations \ {k}
      /\ \A j \in DOMAIN y.operations : y.operations[j] = x.operations[j]
      /\ y.operations = [j \in DOMAIN y.operations |-> y.operations[j]]
  BY DEF LosesOperation
<1>2. TaskOK(y)
  BY <1>1 DEF LosesOperation, TaskOK
<1> QED BY <1>1, <1>2

LEMMA ShrinksTypes ==
    ASSUME NEW s, NEW u, NEW t \in DOMAIN s.tasks, NEW k, StateOK(s), Shrinks(s, u, t, k),
           DOMAIN u.inv = DOMAIN s.inv, \A i \in DOMAIN s.inv : u.inv[i] \in Invocation
    PROVE  StateOK(u)
<1>1. TaskOK(u.tasks[t])
  BY LosesOperationTypes DEF StateOK, Shrinks
<1>2. \A x \in DOMAIN u.tasks : TaskOK(u.tasks[x])
  BY <1>1 DEF StateOK, Shrinks, OnlyTask
<1> QED BY <1>2 DEF StateOK, Shrinks, SameScalars, OnlyTask

(* The operation is removed after empty invocations are. *)
LEMMA ShrinksThrough ==
    ASSUME NEW s, NEW v, SameButInvocations(s, v), NEW x, NEW c, NEW K, Removes(v, x, c, K),
           NEW t, NEW k, NEW z, Shrinks(x, z, t, k), z.inv = x.inv
    PROVE  \E y : /\ Shrinks(s, y, t, k) /\ y.inv = v.inv /\ Removes(y, z, c, K)
<1> DEFINE y == [v EXCEPT !.tasks = z.tasks]
<1>1. IsState(v)
  BY DEF SameButInvocations
<1>2. /\ IsState(y) /\ y.tasks = z.tasks /\ y.inv = v.inv /\ y.workers = v.workers
      /\ y.classes = v.classes /\ y.created = v.created
      /\ y.inFlightDeduplicationMap = v.inFlightDeduplicationMap
      /\ y.drains = v.drains /\ y.handles = v.handles /\ y.panicked = v.panicked
  BY <1>1 DEF IsState, Fields
<1> HIDE DEF y
<1>3. SameButInvocations(v, x) /\ x.tasks = s.tasks
  BY DEF Removes, SameButInvocations
<1>4. SameButInvocations(y, z)
  BY <1>2, <1>3 DEF SameButInvocations, Shrinks, SameScalars
<1>5. Shrinks(s, y, t, k)
  <2>1. SameScalars(s, y) /\ y.workers = s.workers
    BY <1>2 DEF SameButInvocations, SameScalars
  <2> QED BY <1>2, <1>3, <2>1 DEF Shrinks, OnlyTask
<1>6. Removes(y, z, c, K)
  BY <1>2, <1>4, RemovesElsewhere
<1> QED BY <1>2, <1>5, <1>6

(* The operations of other tasks and the clients are not affected. *)
LEMMA ShrinksOK ==
    ASSUME NEW s, NEW cl, SchedulerInv(s, cl), NEW t \in DOMAIN s.tasks, NEW k,
           Waiters(cl, t, k) = {},
           NEW u, StateOK(u), Accounted(u, {}, {}), Shrinks(s, u, t, k)
    PROVE  SchedulerInv(u, cl) /\ Evolves(s, u, {}) /\ Quiet(s, u, {})
<1> DEFINE X == {}
           P == {}
           n == 0
<1>1. StateOK(s) /\ WaitingOK(s, X) /\ HandlesOK(s, n) /\ RecordsOK(s, cl, P)
  BY DEF SchedulerInv, Halfway
<1>2. /\ DOMAIN u.tasks = DOMAIN s.tasks
      /\ \A x \in DOMAIN s.tasks :
            /\ Pending(u, x) <=> Pending(s, x)
            /\ u.tasks[x].learner = s.tasks[x].learner
            /\ u.tasks[x].worker = s.tasks[x].worker /\ u.tasks[x].class = s.tasks[x].class
            /\ u.tasks[x].action = s.tasks[x].action
            /\ u.tasks[x].failed = s.tasks[x].failed /\ u.tasks[x].event = s.tasks[x].event
  BY DEF Shrinks, OnlyTask, LosesOperation, Pending
<1>3. /\ u.workers = s.workers /\ u.created = s.created /\ u.drains = s.drains
      /\ u.handles = s.handles /\ u.inFlightDeduplicationMap = s.inFlightDeduplicationMap
  BY DEF Shrinks, SameScalars
<1>4. \A x \in DOMAIN s.tasks : \A j \in DOMAIN u.tasks[x].operations :
         /\ j \in DOMAIN s.tasks[x].operations
         /\ u.tasks[x].operations[j] = s.tasks[x].operations[j]
  BY DEF Shrinks, OnlyTask, LosesOperation
<1>5. \A x \in DOMAIN s.tasks : \A j \in DOMAIN s.tasks[x].operations :
         j \in DOMAIN u.tasks[x].operations \/ (x = t /\ j = k)
  BY DEF Shrinks, OnlyTask, LosesOperation
<1>6. WaitingOK(u, X)
  <2> HIDE DEF X
  <2>1. \A x : NothingQueued(s, X, x) => NothingQueued(u, X, x)
    BY <1>2 DEF NothingQueued
  <2>2. \A x \in DOMAIN u.workers : isDrained(u, x) <=> isDrained(s, x)
    BY <1>3 DEF isDrained
  <2> QED BY <1>1, <1>3, <2>1, <2>2 DEF WaitingOK
<1>7. HandlesOK(u, n)
  <2>1. PendingTasks(u) = PendingTasks(s)
    BY <1>2 DEF PendingTasks
  <2> QED BY <1>1, <1>3, <2>1 DEF HandlesOK
<1>8. DeduplicationOK(u)
  BY <1>1, <1>2, <1>3 DEF RecordsOK, DeduplicationOK
<1>9. LearnersOK(u)
  BY <1>1, <1>2 DEF RecordsOK, LearnersOK
<1>10. ClientsOK(u, cl)
  <2> SUFFICES ASSUME NEW c \in Clients, cl[c].call = "waiting"
               PROVE  /\ cl[c].task \in DOMAIN u.tasks
                      /\ cl[c].key \in DOMAIN u.tasks[cl[c].task].operations
                      /\ u.tasks[cl[c].task].action # None
    BY DEF ClientsOK
  <2>1. /\ cl[c].task \in DOMAIN s.tasks
        /\ cl[c].key \in DOMAIN s.tasks[cl[c].task].operations
        /\ s.tasks[cl[c].task].action # None
    BY <1>1 DEF RecordsOK, ClientsOK
  <2>2. ~(cl[c].task = t /\ cl[c].key = k)
    BY DEF Waiters
  <2> QED BY <1>2, <1>5, <2>1, <2>2
<1>11. OperationsOK(u, cl, P)
  <2> SUFFICES ASSUME NEW x \in DOMAIN s.tasks, NEW j \in DOMAIN u.tasks[x].operations
               PROVE  OperationFine(u, cl, P, x, j)
    BY <1>2 DEF OperationsOK
  <2>1. OperationFine(s, cl, P, x, j)
    BY <1>1, <1>4 DEF RecordsOK, OperationsOK
  <2> HIDE DEF P
  <2> QED BY <1>2, <1>4, <2>1 DEF OperationFine
<1>12. SchedulerInv(u, cl)
  BY <1>6, <1>7, <1>8, <1>9, <1>10, <1>11 DEF SchedulerInv, Halfway, RecordsOK
<1>13. s.created \in Nat /\ DOMAIN s.tasks \subseteq 1 .. s.created
  BY <1>1 DEF StateOK
<1>14. Evolves(s, u, {})
  BY <1>2, <1>3, <1>13 DEF Evolves
<1>15. Quiet(s, u, {})
  BY <1>3 DEF Quiet
<1> QED BY <1>12, <1>14, <1>15

(* The parts of the accounts that do not depend on how the task is run. *)
ShrinksFine(s, y, t, c, K, k, w) ==
    /\ OnlyConcerns(s, y, t, w) /\ TaskFine(y, {}, t)
    /\ DOMAIN y.tasks[t].operations = K \ {k}
    /\ y.tasks[t].worker = w /\ y.tasks[t].class = c /\ t \in DOMAIN y.tasks
    /\ Pending(y, t) <=> Pending(s, t)
    /\ StillUsed(s, y, {}, {}, {}, Invocations(c, {k}), t, w)

LEMMA ShrinksConcerns ==
    ASSUME NEW s, StateOK(s), Accounted(s, {}, {}), NEW t \in DOMAIN s.tasks, NEW c, NEW K, NEW k,
           c = s.tasks[t].class, K = DOMAIN s.tasks[t].operations, k \in K, K # {k},
           NEW w, w = s.tasks[t].worker,
           NEW y, Shrinks(s, y, t, k), DOMAIN y.inv = DOMAIN s.inv
    PROVE  ShrinksFine(s, y, t, c, K, k, w)
<1>1. /\ DOMAIN y.tasks[t].operations = K \ {k} /\ K \ {k} # {}
      /\ y.tasks[t].worker = w /\ y.tasks[t].class = c /\ t \in DOMAIN y.tasks
      /\ y.workers = s.workers /\ y.classes = s.classes
      /\ DOMAIN y.tasks = DOMAIN s.tasks /\ \A x \in DOMAIN s.tasks \ {t} : y.tasks[x] = s.tasks[x]
  BY DEF Shrinks, LosesOperation, OnlyTask, SameScalars
<1>2. Pending(y, t) <=> Pending(s, t)
  BY DEF Shrinks, LosesOperation, Pending
<1>3. WorkersOK(s) /\ TasksOK(s, {})
  BY DEF Accounted
<1>4. w # None => w \in DOMAIN s.workers /\ s.workers[w].task = t
  BY <1>3 DEF TasksOK
<1>5. None \notin DOMAIN s.workers
  BY NamesDiffer DEF StateOK
<1>6. OnlyConcerns(s, y, t, w)
  BY <1>1, <1>4, <1>5 DEF OnlyConcerns
<1>7. TaskFine(s, {}, t)
  BY <1>3 DEF TasksOK, TaskFine
<1>8. Invocations(c, K \ {k}) \subseteq Invocations(c, K)
  BY DEF Invocations
<1>9. TaskFine(y, {}, t)
  BY <1>1, <1>2, <1>7, <1>8 DEF TaskFine
<1>10. StillUsed(s, y, {}, {}, {}, Invocations(c, {k}), t, w)
  <2> SUFFICES ASSUME NEW i \in Touched(s, {}, t, w)
               PROVE  i \in Invocations(c, {k}) \/ Used(y, {}, i)
    BY DEF StillUsed
  <2>1. CASE Pending(s, t) /\ i \in Invocations(c, K)
    <3>1. i \in Invocations(c, {k}) \/ i \in Invocations(c, K \ {k})
      BY <2>1 DEF Invocations
    <3> QED BY <1>1, <1>2, <2>1, <3>1 DEF Used
  <2>2. CASE w \in DOMAIN s.workers /\ s.workers[w].last # None /\ i = <<WorkerClass[w], s.workers[w].last>>
    BY <1>1, <2>2 DEF Used
  <2> QED BY <2>1, <2>2 DEF Touched
<1> QED BY <1>1, <1>2, <1>6, <1>9, <1>10 DEF ShrinksFine

(* An operation of a task that is executed. *)
LEMMA ShrinksExecuting ==
    ASSUME NEW s, StateOK(s), Accounted(s, {}, {}), NEW t \in DOMAIN s.tasks, NEW c, NEW K, NEW k,
           c = s.tasks[t].class, K = DOMAIN s.tasks[t].operations, k \in K, K # {k},
           NEW w, w = s.tasks[t].worker, w # None,
           NEW v, Decrements(s, v, c, {k}, w),
           NEW y, Shrinks(s, y, t, k), y.inv = v.inv
    PROVE  StateOK(y) /\ Accounted(y, {}, Invocations(c, {k}))
<1>1. /\ K \in SUBSET InvocationKeys /\ k \in InvocationKeys /\ w \in DOMAIN s.workers /\ w \in Workers
      /\ s.workers[w].task = t /\ t # None /\ c = WorkerClass[w]
  <2>1. WorkersOK(s) /\ TasksOK(s, {}) /\ TaskOK(s.tasks[t])
    BY DEF Accounted, StateOK
  <2>2. K \in SUBSET InvocationKeys /\ k \in InvocationKeys
    BY <2>1 DEF TaskOK
  <2>3. w \in DOMAIN s.workers /\ s.workers[w].task = t /\ t # None /\ w \in Workers
    BY <2>1, NamesDiffer DEF TasksOK, StateOK
  <2>4. c = WorkerClass[w]
    BY <2>1, <2>3, ZenonT(60) DEF WorkersOK
  <2> QED BY <2>2, <2>3, <2>4
<1>2. DOMAIN y.inv = DOMAIN s.inv
  BY DEF Decrements
<1>3. /\ OnlyConcerns(s, y, t, w) /\ TaskFine(y, {}, t)
      /\ DOMAIN y.tasks[t].operations = K \ {k}
      /\ y.tasks[t].worker = w /\ y.tasks[t].class = c /\ t \in DOMAIN y.tasks
      /\ Pending(y, t) <=> Pending(s, t)
      /\ StillUsed(s, y, {}, {}, {}, Invocations(c, {k}), t, w)
  <2>1. ShrinksFine(s, y, t, c, K, k, w)
    BY <1>2, ShrinksConcerns
  <2> QED BY <2>1 DEF ShrinksFine
<1>4. y.workers = s.workers /\ y.classes = s.classes
  BY DEF Shrinks, SameScalars
<1>5. ASSUME NEW i \in DOMAIN s.inv
      PROVE  /\ y.inv[i] \in Invocation
             /\ y.inv[i].queued = s.inv[i].queued /\ y.inv[i].idle = s.inv[i].idle
             /\ \A x \in Workers \ {w} : y.inv[i].executing[x] = s.inv[i].executing[x]
             /\ y.inv[i].executing[w] = Share(i, c, K \ {k})
  <2> DEFINE h == Share(i, c, {k})
             g == Share(i, c, K \ {k})
  <2>1. s.inv[i] \in Invocation /\ y.inv[i] = [s.inv[i] EXCEPT !.executing[w] = @ - h]
    BY DEF StateOK, Decrements
  <2>2. s.inv[i].executing[w] = Share(i, c, K)
    BY <1>1 DEF Accounted, ExecutingOK, Executes
  <2>3. Share(i, c, K) = g + h /\ g \in Nat /\ h \in Nat
    <3> DEFINE L == K \ {k}
    <3>1. L \in SUBSET InvocationKeys /\ k \notin L /\ L \cup {k} = K /\ {k} \in SUBSET InvocationKeys
      BY <1>1
    <3>2. g = Share(i, c, L)
      OBVIOUS
    <3>3. h \in Nat
      BY <3>1, ShareIsNatural
    <3> HIDE DEF L, g
    <3>4. Share(i, c, L \cup {k}) = Share(i, c, L) + Share(i, c, {k})
      BY <1>1, <3>1, ShareOfMore
    <3>5. Share(i, c, L) \in Nat
      BY <3>1, ShareIsNatural
    <3> QED BY <3>1, <3>2, <3>3, <3>4, <3>5
  <2> HIDE DEF g, h
  <2>4. s.inv[i].executing[w] - h = g
    BY <2>2, <2>3
  <2>5. /\ y.inv[i] \in Invocation
        /\ y.inv[i].queued = s.inv[i].queued /\ y.inv[i].idle = s.inv[i].idle
        /\ \A x \in Workers \ {w} : y.inv[i].executing[x] = s.inv[i].executing[x]
        /\ y.inv[i].executing[w] = g
    <3> DEFINE x == s.inv[i]
               z == y.inv[i]
    <3>1. x \in Invocation /\ w \in Workers /\ g \in Nat /\ x.executing[w] - h = g
      BY <1>1, <2>1, <2>3, <2>4
    <3>2. z = [x EXCEPT !.executing[w] = @ - h]
      BY <2>1
    <3> HIDE DEF x, z
    <3>3. /\ z \in Invocation /\ z.queued = x.queued /\ z.idle = x.idle
          /\ \A q \in Workers \ {w} : z.executing[q] = x.executing[q]
          /\ z.executing[w] = g
      BY <3>1, <3>2 DEF Invocation
    <3> QED BY <3>3 DEF x, z
  <2> QED BY <2>5 DEF g
<1>6. StateOK(y)
  BY <1>2, <1>5, ShrinksTypes
<1>7. WorkerFine(y, w)
  <2>1. WorkerFine(s, w)
    BY <1>1 DEF Accounted, WorkersOK, WorkerFine
  <2> QED BY <1>1, <1>2, <1>3, <1>4, <2>1 DEF WorkerFine
<1>8. CountsQueued(s, y, {}, t)
  <2>1. \A i \in DOMAIN s.inv : t \notin s.inv[i].queued
    BY DEF Accounted, QueuesOK, Queues
  <2>2. \A i \in DOMAIN s.inv : ~Queues(y, t, i)
    BY <1>3 DEF Queues
  <2> QED BY <1>5, <2>1, <2>2 DEF CountsQueued
<1>9. CountsExecuting(s, y, w)
  <2>1. \A i \in DOMAIN s.inv : Executes(y, w, i) = Share(i, c, K \ {k})
    BY <1>1, <1>3, <1>4 DEF Executes
  <2> QED BY <1>5, <2>1 DEF CountsExecuting
<1>10. CountsIdle(s, y, w)
  <2> SUFFICES ASSUME NEW i \in DOMAIN s.inv
               PROVE  y.inv[i].idle = s.inv[i].idle - (IF w \in IdleWorkers(s, i) THEN 1 ELSE 0)
                                                    + (IF w \in IdleWorkers(y, i) THEN 1 ELSE 0)
    BY DEF CountsIdle
  <2>1. IdleWorkers(y, i) = IdleWorkers(s, i)
    BY <1>4 DEF IdleWorkers
  <2>2. s.inv[i].idle \in Nat /\ y.inv[i].idle = s.inv[i].idle
    BY <1>5 DEF StateOK, Invocation
  <2> QED BY <2>1, <2>2
<1>11. Accounted(y, {}, Invocations(c, {k}))
  <2> DEFINE F == Invocations(c, {k})
             X == {}
  <2>1. /\ StillUsed(s, y, X, X, X, F, t, w) /\ CountsQueued(s, y, X, t) /\ Accounted(s, X, X)
        /\ TaskFine(y, X, t)
    BY <1>3, <1>8
  <2> HIDE DEF F, X
  <2>2. Accounted(y, X, F)
    BY <1>3, <1>6, <1>7, <1>9, <1>10, <2>1, AccountsStep
  <2> QED BY <2>2 DEF F, X
<1> QED BY <1>6, <1>11

(* An operation of a task that is queued. *)
LEMMA ShrinksQueued ==
    ASSUME NEW s, StateOK(s), Accounted(s, {}, {}), NEW t \in DOMAIN s.tasks, NEW c, NEW K, NEW k,
           c = s.tasks[t].class, K = DOMAIN s.tasks[t].operations, k \in K, K # {k},
           s.tasks[t].worker = None,
           NEW v, Dequeues(s, v, t, c, {k}),
           NEW y, Shrinks(s, y, t, k), y.inv = v.inv
    PROVE  StateOK(y) /\ Accounted(y, {}, Invocations(c, {k}))
<1> DEFINE w == None
<1>1. w = s.tasks[t].worker /\ w = None
  OBVIOUS
<1> HIDE DEF w
<1>2. DOMAIN y.inv = DOMAIN s.inv
  BY DEF Dequeues
<1>3. /\ OnlyConcerns(s, y, t, w) /\ TaskFine(y, {}, t)
      /\ DOMAIN y.tasks[t].operations = K \ {k}
      /\ y.tasks[t].worker = w /\ y.tasks[t].class = c /\ t \in DOMAIN y.tasks
      /\ Pending(y, t) <=> Pending(s, t)
      /\ StillUsed(s, y, {}, {}, {}, Invocations(c, {k}), t, w)
  <2>1. ShrinksFine(s, y, t, c, K, k, w)
    BY <1>1, <1>2, ShrinksConcerns
  <2> QED BY <2>1 DEF ShrinksFine
<1>4. DequeuesOnly(s, v, t, c, {k})
  <2> DEFINE L == {k}
  <2>1. Dequeues(s, v, t, c, L) /\ \A i \in DOMAIN s.inv : s.inv[i] \in Invocation
    BY DEF StateOK
  <2> HIDE DEF L
  <2>2. DequeuesOnly(s, v, t, c, L)
    BY <2>1, DequeueFields
  <2> QED BY <2>2 DEF L
<1>5. \A i \in DOMAIN s.inv :
         /\ y.inv[i] \in Invocation
         /\ y.inv[i].executing = s.inv[i].executing /\ y.inv[i].idle = s.inv[i].idle
         /\ y.inv[i].queued = IF i \in Invocations(c, {k}) THEN s.inv[i].queued \ {t}
                              ELSE s.inv[i].queued
  BY <1>4 DEF DequeuesOnly
<1>6. StateOK(y)
  BY <1>2, <1>5, ShrinksTypes
<1>7. y.workers = s.workers
  BY DEF Shrinks
<1>8. CountsExecuting(s, y, w) /\ CountsIdle(s, y, w) /\ w \notin DOMAIN y.workers
  <2>1. CountsExecuting(s, y, None) /\ CountsIdle(s, y, None) /\ None \notin DOMAIN y.workers
    BY <1>5, <1>7, NoWorkerConcerned
  <2> QED BY <1>1, <2>1
<1>9. CountsQueued(s, y, {}, t)
  <2> SUFFICES ASSUME NEW i \in DOMAIN s.inv
               PROVE  /\ y.inv[i].queued \ {t} = s.inv[i].queued \ {t}
                      /\ t \in y.inv[i].queued <=> t \in DOMAIN y.tasks \ {} /\ Queues(y, t, i)
    BY DEF CountsQueued
  <2>1. t \in s.inv[i].queued <=> Queues(s, t, i)
    BY DEF Accounted, QueuesOK
  <2>2. Queues(s, t, i) <=> Pending(s, t) /\ i[1] = c /\ i[2] \in K
    BY DEF Queues
  <2>3. Queues(y, t, i) <=> Pending(s, t) /\ i[1] = c /\ i[2] \in K /\ i[2] # k
    BY <1>1, <1>3 DEF Queues
  <2>4. i \in Invocations(c, {k}) <=> i[1] = c /\ i[2] = k
    <3>1. i \in s.classes \X InvocationKeys
      BY DEF StateOK
    <3>2. i = <<i[1], i[2]>>
      BY <3>1
    <3> QED BY <3>2 DEF Invocations
  <2>5. y.inv[i].queued = IF i \in Invocations(c, {k}) THEN s.inv[i].queued \ {t}
                          ELSE s.inv[i].queued
    BY <1>5
  <2>6. t \in y.inv[i].queued <=> Queues(y, t, i)
    BY <2>1, <2>2, <2>3, <2>4, <2>5
  <2>7. y.inv[i].queued \ {t} = s.inv[i].queued \ {t}
    BY <2>5
  <2> QED BY <1>3, <2>6, <2>7
<1>10. Accounted(y, {}, Invocations(c, {k}))
  <2> DEFINE F == Invocations(c, {k})
             X == {}
  <2>1. /\ StillUsed(s, y, X, X, X, F, t, w) /\ CountsQueued(s, y, X, t) /\ Accounted(s, X, X)
        /\ TaskFine(y, X, t)
    BY <1>3, <1>9
  <2> HIDE DEF F, X
  <2>2. Accounted(y, X, F)
    BY <1>3, <1>6, <1>8, <2>1, AccountsStep
  <2> QED BY <2>2 DEF F, X
<1> QED BY <1>6, <1>10

(* An operation of a task that is completed. *)
LEMMA ShrinksCompleted ==
    ASSUME NEW s, StateOK(s), Accounted(s, {}, {}), NEW t \in DOMAIN s.tasks, NEW K, NEW k,
           K = DOMAIN s.tasks[t].operations, k \in K, K # {k},
           s.tasks[t].worker = None, ~Pending(s, t),
           NEW y, Shrinks(s, y, t, k), y.inv = s.inv
    PROVE  StateOK(y) /\ Accounted(y, {}, {})
<1> DEFINE w == None
           c == s.tasks[t].class
<1>1. w = s.tasks[t].worker /\ w = None /\ c = s.tasks[t].class
  OBVIOUS
<1> HIDE DEF w, c
<1>3. /\ OnlyConcerns(s, y, t, w) /\ TaskFine(y, {}, t)
      /\ y.tasks[t].worker = w /\ t \in DOMAIN y.tasks
      /\ Pending(y, t) <=> Pending(s, t)
  <2>1. ShrinksFine(s, y, t, c, K, k, w)
    BY <1>1, ShrinksConcerns
  <2> QED BY <2>1 DEF ShrinksFine
<1>6. StateOK(y)
  <2>1. \A i \in DOMAIN s.inv : y.inv[i] \in Invocation
    BY DEF StateOK
  <2> QED BY <2>1, ShrinksTypes
<1>7. y.workers = s.workers
  BY DEF Shrinks
<1>8. CountsExecuting(s, y, w) /\ CountsIdle(s, y, w) /\ w \notin DOMAIN y.workers
      /\ w \notin DOMAIN s.workers
  <2>1. CountsExecuting(s, y, None) /\ CountsIdle(s, y, None) /\ None \notin DOMAIN y.workers
    BY <1>7, NoWorkerConcerned
  <2> QED BY <1>1, <1>7, <2>1
<1>9. CountsQueued(s, y, {}, t)
  <2>1. \A i \in DOMAIN s.inv : ~Queues(s, t, i) /\ ~Queues(y, t, i)
    BY <1>3 DEF Queues
  <2>2. \A i \in DOMAIN s.inv : t \notin s.inv[i].queued
    BY <2>1 DEF Accounted, QueuesOK
  <2> QED BY <2>1, <2>2 DEF CountsQueued
<1>10. StillUsed(s, y, {}, {}, {}, {}, t, w)
  BY <1>8 DEF StillUsed, Touched
<1>11. Accounted(y, {}, {})
  BY <1>3, <1>6, <1>8, <1>9, <1>10, AccountsStep
<1> QED BY <1>6, <1>11

(* A task that is completed, and that nobody waits for, is forgotten. *)
Forgets(s, u, t) ==
    /\ SameScalars(s, u) /\ u.workers = s.workers /\ u.inv = s.inv
    /\ DOMAIN u.tasks = DOMAIN s.tasks \ {t}
    /\ \A x \in DOMAIN u.tasks : u.tasks[x] = s.tasks[x]

LEMMA ForgetsIs ==
    ASSUME NEW s, IsState(s), NEW t, NEW u, u = [s EXCEPT !.tasks = Restrict(@, DOMAIN @ \ {t})]
    PROVE  Forgets(s, u, t)
<1> DEFINE f == Restrict(s.tasks, DOMAIN s.tasks \ {t})
<1>1. u = [s EXCEPT !.tasks = f]
  OBVIOUS
<1>2. DOMAIN f = DOMAIN s.tasks \ {t} /\ \A x \in DOMAIN f : f[x] = s.tasks[x]
  BY DEF Restrict
<1> HIDE DEF f
<1>3. SameScalars(s, u) /\ u.workers = s.workers /\ u.inv = s.inv /\ u.tasks = f
  BY <1>1 DEF IsState, Fields, SameScalars
<1> QED BY <1>2, <1>3 DEF Forgets

LEMMA ForgetsOK ==
    ASSUME NEW s, NEW cl, SchedulerInv(s, cl), NEW t \in DOMAIN s.tasks, ~Pending(s, t),
           \A k \in DOMAIN s.tasks[t].operations : Waiters(cl, t, k) = {},
           NEW u, Forgets(s, u, t)
    PROVE  SchedulerInv(u, cl) /\ Evolves(s, u, {}) /\ Quiet(s, u, {})
<1>1. StateOK(s) /\ Accounted(s, {}, {}) /\ WorkersOK(s) /\ TasksOK(s, {})
  BY DEF SchedulerInv, Halfway, Accounted
<1>2. /\ u.workers = s.workers /\ u.inv = s.inv /\ u.created = s.created /\ u.drains = s.drains
      /\ u.handles = s.handles /\ u.inFlightDeduplicationMap = s.inFlightDeduplicationMap
      /\ DOMAIN u.tasks = DOMAIN s.tasks \ {t}
      /\ \A x \in DOMAIN u.tasks : u.tasks[x] = s.tasks[x]
  BY DEF Forgets, SameScalars
<1>3. StateOK(u)
  BY <1>1 DEF StateOK, Forgets, SameScalars
<1> DEFINE w == None
<1>4. s.tasks[t].worker = w
  <2> SUFFICES ASSUME s.tasks[t].worker # None PROVE FALSE
    OBVIOUS
  <2>1. t # None /\ s.tasks[t].worker \in DOMAIN s.workers /\ s.workers[s.tasks[t].worker].task = t
    BY <1>1, NamesDiffer DEF TasksOK, StateOK
  <2> QED BY <1>1, <2>1 DEF WorkersOK
<1>5. CountsExecuting(s, u, w) /\ CountsIdle(s, u, w) /\ w \notin DOMAIN u.workers
      /\ w \notin DOMAIN s.workers
  BY <1>1, <1>2, NoWorkerConcerned
<1> HIDE DEF w
<1>6. OnlyConcerns(s, u, t, w)
  BY <1>4, <1>5 DEF Forgets, SameScalars, OnlyConcerns
<1>7. CountsQueued(s, u, {}, t)
  <2>1. \A i \in DOMAIN s.inv : t \notin s.inv[i].queued
    BY <1>1 DEF Accounted, QueuesOK, Queues
  <2> QED BY <1>2, <2>1 DEF CountsQueued
<1>8. StillUsed(s, u, {}, {}, {}, {}, t, w)
  BY <1>5 DEF StillUsed, Touched
<1>9. t \notin DOMAIN u.tasks
  BY <1>2
<1>10. Accounted(u, {}, {})
  BY <1>1, <1>3, <1>5, <1>6, <1>7, <1>8, <1>9, AccountsStep
<1> DEFINE X == {}
           P == {}
           n == 0
<1>11. WaitingOK(s, X) /\ HandlesOK(s, n) /\ RecordsOK(s, cl, P)
  BY DEF SchedulerInv, Halfway
<1>12. WaitingOK(u, X)
  <2> HIDE DEF X
  <2>1. \A x : NothingQueued(s, X, x) => NothingQueued(u, X, x)
    BY <1>2 DEF NothingQueued, Pending
  <2>2. \A x \in DOMAIN u.workers : isDrained(u, x) <=> isDrained(s, x)
    BY <1>2 DEF isDrained
  <2> QED BY <1>2, <1>11, <2>1, <2>2 DEF WaitingOK
<1>13. HandlesOK(u, n)
  <2>1. PendingTasks(u) = PendingTasks(s)
    BY <1>2 DEF PendingTasks, Pending
  <2> QED BY <1>2, <1>11, <2>1 DEF HandlesOK
<1>14. DeduplicationOK(u)
  BY <1>2, <1>11 DEF RecordsOK, DeduplicationOK, Pending
<1>15. LearnersOK(u)
  BY <1>2, <1>11 DEF RecordsOK, LearnersOK, Pending
<1>16. ClientsOK(u, cl)
  <2> SUFFICES ASSUME NEW c \in Clients, cl[c].call = "waiting"
               PROVE  /\ cl[c].task \in DOMAIN u.tasks
                      /\ cl[c].key \in DOMAIN u.tasks[cl[c].task].operations
                      /\ u.tasks[cl[c].task].action # None
    BY DEF ClientsOK
  <2>1. /\ cl[c].task \in DOMAIN s.tasks
        /\ cl[c].key \in DOMAIN s.tasks[cl[c].task].operations
        /\ s.tasks[cl[c].task].action # None
    BY <1>11 DEF RecordsOK, ClientsOK
  <2>2. cl[c].task # t
    BY <2>1 DEF Waiters
  <2> QED BY <1>2, <2>1, <2>2
<1>17. OperationsOK(u, cl, P)
  <2> SUFFICES ASSUME NEW x \in DOMAIN u.tasks, NEW j \in DOMAIN u.tasks[x].operations
               PROVE  OperationFine(u, cl, P, x, j)
    BY DEF OperationsOK
  <2> HIDE DEF P
  <2>1. x \in DOMAIN s.tasks /\ u.tasks[x] = s.tasks[x] /\ (Pending(u, x) <=> Pending(s, x))
    BY <1>2 DEF Pending
  <2>2. OperationFine(s, cl, P, x, j)
    BY <1>11, <2>1 DEF RecordsOK, OperationsOK
  <2> QED BY <2>1, <2>2 DEF OperationFine
<1>18. SchedulerInv(u, cl)
  BY <1>3, <1>10, <1>12, <1>13, <1>14, <1>15, <1>16, <1>17 DEF SchedulerInv, Halfway, RecordsOK
<1>19. s.created \in Nat /\ DOMAIN s.tasks \subseteq 1 .. s.created
  BY <1>1 DEF StateOK
<1>20. Evolves(s, u, {}) /\ Quiet(s, u, {})
  BY <1>2, <1>19 DEF Evolves, Pending, Quiet
<1> QED BY <1>18, <1>20

LEMMA RemovingIsSafe ==
    ASSUME NEW s, NEW u, NEW v, Evolves(s, u, {}) /\ Quiet(s, u, {}), Evolves(u, v, {}) /\ Quiet(u, v, {})
    PROVE  Evolves(s, v, {}) /\ Quiet(s, v, {})
<1> DEFINE T == {}
<1>1. Evolves(s, u, T) /\ Quiet(s, u, T) /\ Evolves(u, v, T) /\ Quiet(u, v, T)
  OBVIOUS
<1> HIDE DEF T
<1>2. Evolves(s, v, T) /\ Quiet(s, v, T)
  BY <1>1, EvolvesTransitive, QuietTransitive
<1> QED BY <1>2 DEF T

(* An operation that is going to be cleaned up has no waiters. *)
LEMMA CleanupHasNoWaiters ==
    ASSUME NEW s, NEW cl, SchedulerInv(s, cl), NEW t \in DOMAIN s.tasks,
           NEW k \in DOMAIN s.tasks[t].operations, s.tasks[t].operations[k].cleanup
    PROVE  Waiters(cl, t, k) = {}
<1>1. OperationFine(s, cl, {}, t, k)
  BY DEF SchedulerInv, Halfway, RecordsOK, OperationsOK
<1>2. Cardinality(Waiters(cl, t, k)) = 0
  BY <1>1 DEF OperationFine
<1>3. IsFiniteSet(Waiters(cl, t, k))
  <2>1. Waiters(cl, t, k) \subseteq Clients /\ IsFiniteSet(Clients)
    BY SchedulerAssumption DEF Waiters
  <2> QED BY <2>1, FS_Subset
<1> QED BY <1>2, <1>3, FS_EmptySet

LEMMA RemoveLastOK ==
    ASSUME NEW s, NEW cl, SchedulerInv(s, cl), NEW t \in DOMAIN s.tasks, NEW k,
           DOMAIN s.tasks[t].operations = {k}, Waiters(cl, t, k) = {},
           NEW u, u = fail(s, t, FALSE),
           NEW z, z = [u EXCEPT !.tasks = Restrict(@, DOMAIN @ \ {t})]
    PROVE  SchedulerInv(z, cl) /\ Evolves(s, z, {}) /\ Quiet(s, z, {})
<1>1. SchedulerInv(u, cl) /\ Fails(s, u, t)
  BY FailInv
<1>2. t # None /\ s.created \in Nat
  BY NamesDiffer DEF SchedulerInv, Halfway, StateOK
<1>3. Evolves(s, u, {}) /\ Quiet(s, u, {})
  BY <1>1, <1>2, FailEvolves
<1>4. t \in DOMAIN u.tasks /\ ~Pending(u, t) /\ DOMAIN u.tasks[t].operations = {k}
  BY <1>1 DEF Fails, OnlyTask
<1>5. Forgets(u, z, t)
  BY <1>1, ForgetsIs DEF SchedulerInv, Halfway, StateOK
<1>6. \A j \in DOMAIN u.tasks[t].operations : Waiters(cl, t, j) = {}
  BY <1>4
<1>7. SchedulerInv(z, cl) /\ Evolves(u, z, {}) /\ Quiet(u, z, {})
  BY <1>1, <1>4, <1>5, <1>6, ForgetsOK
<1> QED BY <1>3, <1>7, RemovingIsSafe

(* The key of the operation that is removed, and the invocation it is      *)
(* removed from.                                                           *)
Only(L, k) == L = {k}

RemovesFrom(s, cl, t, k, L) ==
    /\ SchedulerInv(s, cl) /\ t \in DOMAIN s.tasks /\ k \in DOMAIN s.tasks[t].operations
    /\ DOMAIN s.tasks[t].operations # {k} /\ Waiters(cl, t, k) = {} /\ Only(L, k)

ShrunkAccounts(y, c, L) == StateOK(y) /\ Accounted(y, {}, Invocations(c, L))

LEMMA RemovalFinishes ==
    ASSUME NEW s, NEW cl, NEW t, NEW k, NEW L, RemovesFrom(s, cl, t, k, L),
           NEW c, NEW v, SameButInvocations(s, v), NEW x, Removes(v, x, c, L),
           \A y : Shrinks(s, y, t, k) /\ y.inv = v.inv => ShrunkAccounts(y, c, L),
           NEW z, DropsOperation(x, z, t, k)
    PROVE  SchedulerInv(z, cl) /\ Evolves(s, z, {}) /\ Quiet(s, z, {})
<1>1. SameButInvocations(v, x) /\ IsState(x) /\ x.tasks = s.tasks
  BY DEF Removes, SameButInvocations
<1>2. t \in DOMAIN x.tasks /\ IsTask(x.tasks[t])
  BY <1>1 DEF RemovesFrom, SchedulerInv, Halfway, StateOK, TaskOK
<1>3. Shrinks(x, z, t, k) /\ z.inv = x.inv
  BY <1>1, <1>2, ShrinksIs
<1>4. PICK y : Shrinks(s, y, t, k) /\ y.inv = v.inv /\ Removes(y, z, c, L)
  BY <1>3, ShrinksThrough
<1>5. StateOK(y) /\ Accounted(y, {}, Invocations(c, L))
  BY <1>4 DEF ShrunkAccounts
<1> DEFINE X == {}
           G == Invocations(c, L)
<1>6. Accounted(y, X, G) /\ Removes(y, z, c, L) /\ G \ Invocations(c, L) = {}
  BY <1>4, <1>5
<1> HIDE DEF X, G
<1>7. StateOK(z) /\ Accounted(z, X, G \ Invocations(c, L))
  BY <1>5, <1>6, RemovalKeepsAccounts
<1>8. StateOK(z) /\ Accounted(z, {}, {})
  BY <1>6, <1>7 DEF X
<1>9. Shrinks(s, z, t, k)
  <2>1. SameScalars(s, x) /\ x.workers = s.workers
    BY <1>1 DEF SameScalars, SameButInvocations
  <2> QED BY <1>1, <1>3, <2>1 DEF Shrinks, SameScalars, OnlyTask
<1> QED BY <1>8, <1>9, ShrinksOK DEF RemovesFrom

LEMMA RemoveExecutingOK ==
    ASSUME NEW s, NEW cl, NEW t, NEW k, NEW L, RemovesFrom(s, cl, t, k, L),
           NEW c, NEW w, c = s.tasks[t].class, w = s.tasks[t].worker, w # None,
           NEW x, x = decrementExecutingWorkersCount(s, c, L, w),
           NEW z, DropsOperation(x, z, t, k)
    PROVE  SchedulerInv(z, cl) /\ Evolves(s, z, {}) /\ Quiet(s, z, {})
<1> DEFINE K == DOMAIN s.tasks[t].operations
<1>1. StateOK(s) /\ Accounted(s, {}, {}) /\ WorkersOK(s) /\ TasksOK(s, {}) /\ TaskOK(s.tasks[t])
      /\ IsState(s) /\ s.panicked = FALSE /\ t \in DOMAIN s.tasks /\ k \in K /\ K # {k}
  BY DEF RemovesFrom, SchedulerInv, Halfway, Accounted, StateOK
<1>2. w \in DOMAIN s.workers /\ s.workers[w].task = t /\ t # None /\ w \in Workers
  BY <1>1, NamesDiffer DEF TasksOK, StateOK
<1>3. c = WorkerClass[w] /\ Pending(s, t)
  BY <1>1, <1>2 DEF WorkersOK
<1>4. Invocations(c, K) \subseteq DOMAIN s.inv /\ K \in SUBSET InvocationKeys /\ k \in InvocationKeys
  BY <1>1, <1>3 DEF TasksOK, TaskOK
<1>5. Invocations(c, L) \subseteq DOMAIN s.inv
  BY <1>1, <1>4 DEF Invocations, RemovesFrom, Only
<1>6. \A i \in DOMAIN s.inv : s.inv[i].executing[w] >= Share(i, c, L)
  <2> SUFFICES ASSUME NEW i \in DOMAIN s.inv PROVE s.inv[i].executing[w] >= Share(i, c, L)
    OBVIOUS
  <2>1. s.inv[i].executing[w] = Share(i, c, K)
    BY <1>1, <1>2, <1>3 DEF Accounted, ExecutingOK, Executes
  <2> DEFINE M == K \ {k}
  <2>2. M \in SUBSET InvocationKeys /\ k \notin M /\ M \cup {k} = K /\ L \in SUBSET InvocationKeys
    BY <1>1, <1>4 DEF RemovesFrom, Only
  <2>3. Share(i, c, L) \in Nat
    BY <2>2, ShareIsNatural
  <2> HIDE DEF M
  <2>4. Share(i, c, M \cup {k}) = Share(i, c, M) + Share(i, c, {k}) /\ Share(i, c, M) \in Nat
    BY <1>4, <2>2, ShareOfMore, ShareIsNatural
  <2>5. Share(i, c, K) = Share(i, c, M) + Share(i, c, L)
    BY <2>2, <2>4 DEF RemovesFrom, Only
  <2> HIDE DEF K
  <2> QED BY <2>1, <2>3, <2>4, <2>5
<1>7. PICK v : Decrements(s, v, c, L, w) /\ Removes(v, x, c, L)
  BY <1>1, <1>5, <1>6, DecrementIs
<1>8. SameButInvocations(s, v)
  BY <1>7 DEF Decrements
<1>9. Decrements(s, v, c, {k}, w)
  BY <1>7 DEF RemovesFrom, Only
<1>10. \A y : Shrinks(s, y, t, k) /\ y.inv = v.inv => ShrunkAccounts(y, c, L)
  <2> SUFFICES ASSUME NEW y, Shrinks(s, y, t, k), y.inv = v.inv PROVE ShrunkAccounts(y, c, L)
    OBVIOUS
  <2>1. K = DOMAIN s.tasks[t].operations /\ k \in K /\ K # {k}
    BY <1>1
  <2> HIDE DEF K
  <2>2. StateOK(y) /\ Accounted(y, {}, Invocations(c, {k}))
    BY <1>1, <1>9, <2>1, ShrinksExecuting
  <2> QED BY <2>2 DEF ShrunkAccounts, RemovesFrom, Only
<1> QED BY <1>7, <1>8, <1>10, RemovalFinishes

LEMMA RemoveQueuedOK ==
    ASSUME NEW s, NEW cl, NEW t, NEW k, NEW L, RemovesFrom(s, cl, t, k, L),
           NEW c, c = s.tasks[t].class, s.tasks[t].worker = None, Pending(s, t),
           NEW v, v = removeQueuedFromInvocation(s, t, L),
           NEW x, v.panicked = FALSE => x = removeIfEmpty(v, c, L),
           NEW z, DropsOperation(x, z, t, k)
    PROVE  SchedulerInv(z, cl) /\ Evolves(s, z, {}) /\ Quiet(s, z, {})
<1> DEFINE K == DOMAIN s.tasks[t].operations
<1>1. StateOK(s) /\ Accounted(s, {}, {}) /\ TasksOK(s, {}) /\ TaskOK(s.tasks[t])
      /\ IsState(s) /\ s.panicked = FALSE /\ t \in DOMAIN s.tasks /\ k \in K /\ K # {k}
  BY DEF RemovesFrom, SchedulerInv, Halfway, Accounted, StateOK
<1>2. Invocations(c, K) \subseteq DOMAIN s.inv
  BY <1>1 DEF TasksOK
<1>3. Invocations(c, L) \subseteq DOMAIN s.inv
  BY <1>1, <1>2 DEF Invocations, RemovesFrom, Only
<1>4. \A i \in Invocations(c, L) : t \in s.inv[i].queued
  <2>1. \A i \in Invocations(c, L) : i \in DOMAIN s.inv /\ Queues(s, t, i)
    BY <1>1, <1>3 DEF Invocations, Queues, RemovesFrom, Only
  <2> QED BY <1>1, <2>1 DEF Accounted, QueuesOK
<1>5. Dequeues(s, v, t, c, L)
  BY <1>1, <1>3, <1>4, RemoveQueuedIs
<1>6. SameButInvocations(s, v) /\ v.panicked = FALSE /\ IsState(v)
  BY <1>1, <1>5 DEF Dequeues, SameButInvocations
<1>7. x = removeIfEmpty(v, c, L)
  BY <1>6
<1>8. Removes(v, x, c, L)
  BY <1>6, <1>7, RemovalFields
<1>9. Dequeues(s, v, t, c, {k})
  BY <1>5 DEF RemovesFrom, Only
<1>10. \A y : Shrinks(s, y, t, k) /\ y.inv = v.inv => ShrunkAccounts(y, c, L)
  <2> SUFFICES ASSUME NEW y, Shrinks(s, y, t, k), y.inv = v.inv PROVE ShrunkAccounts(y, c, L)
    OBVIOUS
  <2>1. K = DOMAIN s.tasks[t].operations /\ k \in K /\ K # {k}
    BY <1>1
  <2> HIDE DEF K
  <2>2. StateOK(y) /\ Accounted(y, {}, Invocations(c, {k}))
    BY <1>1, <1>9, <2>1, ShrinksQueued
  <2> QED BY <2>2 DEF ShrunkAccounts, RemovesFrom, Only
<1> QED BY <1>6, <1>8, <1>10, RemovalFinishes

LEMMA RemoveOK ==
    ASSUME NEW s, NEW cl, SchedulerInv(s, cl), NEW t \in DOMAIN s.tasks,
           NEW k \in DOMAIN s.tasks[t].operations, s.tasks[t].operations[k].cleanup,
           NEW z, z = remove(s, t, k)
    PROVE  SchedulerInv(z, cl) /\ Evolves(s, z, {}) /\ Quiet(s, z, {})
<1>1. Waiters(cl, t, k) = {}
  BY CleanupHasNoWaiters
<1>2. CASE DOMAIN s.tasks[t].operations = {k}
  <2> DEFINE u == fail(s, t, FALSE)
  <2>1. z = [u EXCEPT !.tasks = Restrict(@, DOMAIN @ \ {t})] /\ u = fail(s, t, FALSE)
    BY <1>2 DEF remove
  <2> HIDE DEF u
  <2> QED BY <1>1, <1>2, <2>1, RemoveLastOK
<1> DEFINE L == {k}
           c == s.tasks[t].class
           w == s.tasks[t].worker
<1>3. CASE DOMAIN s.tasks[t].operations # {k} /\ s.tasks[t].worker # None
  <2> DEFINE x == decrementExecutingWorkersCount(s, c, L, w)
  <2>1. DropsOperation(x, z, t, k)
    BY <1>3 DEF remove, DropsOperation
  <2>2. RemovesFrom(s, cl, t, k, L)
    BY <1>1, <1>3 DEF RemovesFrom, Only
  <2>3. x = decrementExecutingWorkersCount(s, c, L, w) /\ c = s.tasks[t].class /\ w = s.tasks[t].worker
        /\ w # None
    BY <1>3
  <2> HIDE DEF x, c, w, L
  <2> QED BY <2>1, <2>2, <2>3, RemoveExecutingOK
<1>4. CASE DOMAIN s.tasks[t].operations # {k} /\ s.tasks[t].worker = None /\ Pending(s, t)
  <2> DEFINE v == removeQueuedFromInvocation(s, t, L)
             x == Then(v, LAMBDA r : removeIfEmpty(r, c, L))
  <2>1. DropsOperation(x, z, t, k)
    BY <1>4 DEF remove, DropsOperation, Pending
  <2>2. RemovesFrom(s, cl, t, k, L)
    BY <1>1, <1>4 DEF RemovesFrom, Only
  <2>3. c = s.tasks[t].class /\ v = removeQueuedFromInvocation(s, t, L)
    OBVIOUS
  <2>4. v.panicked = FALSE => x = removeIfEmpty(v, c, L)
    <3> HIDE DEF v, c, L
    <3> QED BY DEF Then
  <2> HIDE DEF x, c, w, L, v
  <2> QED BY <1>4, <2>1, <2>2, <2>3, <2>4, RemoveQueuedOK
<1>5. CASE DOMAIN s.tasks[t].operations # {k} /\ s.tasks[t].worker = None /\ ~Pending(s, t)
  <2>1. DropsOperation(s, z, t, k)
    BY <1>5 DEF remove, DropsOperation, Pending
  <2>2. StateOK(s) /\ Accounted(s, {}, {}) /\ IsState(s) /\ IsTask(s.tasks[t])
    BY DEF SchedulerInv, Halfway, StateOK, TaskOK
  <2>3. Shrinks(s, z, t, k) /\ z.inv = s.inv
    BY <2>1, <2>2, ShrinksIs
  <2>4. StateOK(z) /\ Accounted(z, {}, {})
    BY <1>5, <2>2, <2>3, ShrinksCompleted
  <2> QED BY <1>1, <2>3, <2>4, ShrinksOK
<1> QED BY <1>2, <1>3, <1>4, <1>5

-----------------------------------------------------------------------------
AddsOperation(s, u, t, k) == u = newOperation(s, t, k, FALSE)

LEMMA GrowsIs ==
    ASSUME NEW s, IsState(s), s.panicked = FALSE, NEW t \in DOMAIN s.tasks, IsTask(s.tasks[t]),
           NEW k, k \notin DOMAIN s.tasks[t].operations,
           NEW u, AddsOperation(s, u, t, k)
    PROVE  Grows(s, u, t, k) /\ u.inv = s.inv
<1> DEFINE ops == With(s.tasks[t].operations, k, NewOperation(FALSE))
           y == [s.tasks[t] EXCEPT !.operations = ops]
<1>1. u = [s EXCEPT !.tasks[t] = y]
  BY DEF AddsOperation, newOperation, Unless
<1>2. ops = With(s.tasks[t].operations, k, NewOperation(FALSE))
  OBVIOUS
<1> HIDE DEF ops
<1>3. /\ IsTask(y) /\ y.operations = ops
      /\ y.action = s.tasks[t].action /\ y.class = s.tasks[t].class /\ y.learner = s.tasks[t].learner
      /\ y.worker = s.tasks[t].worker /\ y.retryCount = s.tasks[t].retryCount
      /\ y.failed = s.tasks[t].failed /\ y.event = s.tasks[t].event
  BY DEF IsTask, TaskFields
<1> HIDE DEF y
<1>4. ChangesTask(s, u, t, y)
  BY <1>1, ChangesTaskIs
<1>5. GainsOperation(s.tasks[t], y, k)
  BY <1>2, <1>3 DEF GainsOperation
<1> QED BY <1>4, <1>5 DEF ChangesTask, Grows

LEMMA GainsOperationTypes ==
    ASSUME NEW x, TaskOK(x), NEW k \in InvocationKeys, k \notin DOMAIN x.operations,
           NEW y, GainsOperation(x, y, k)
    PROVE  TaskOK(y) /\ Gained(x, y, k)
<1>1. /\ DOMAIN y.operations = DOMAIN x.operations \cup {k}
      /\ \A j \in DOMAIN x.operations : y.operations[j] = x.operations[j]
      /\ y.operations[k] = NewOperation(FALSE)
  <2> DEFINE f == x.operations
             o == NewOperation(FALSE)
  <2>1. y.operations = With(f, k, o) /\ k \notin DOMAIN f
    BY DEF GainsOperation
  <2> HIDE DEF f, o
  <2>2. /\ DOMAIN y.operations = DOMAIN f \cup {k} /\ y.operations[k] = o
        /\ \A j \in DOMAIN f : y.operations[j] = f[j]
    BY <2>1 DEF With
  <2> QED BY <2>2 DEF f, o
<1>2. y.operations = [j \in DOMAIN y.operations |-> y.operations[j]]
  BY DEF GainsOperation, With
<1>3. NewOperation(FALSE) \in Operation
  <2> DEFINE b == FALSE
  <2>1. b \in BOOLEAN
    OBVIOUS
  <2> HIDE DEF b
  <2>2. NewOperation(b) \in Operation
    BY <2>1, NewOperationIs
  <2> QED BY <2>2 DEF b
<1>4. \A j \in DOMAIN y.operations : y.operations[j] \in Operation
  BY <1>1, <1>3 DEF TaskOK
<1>5. DOMAIN y.operations \subseteq InvocationKeys
  BY <1>1 DEF TaskOK
<1>6. TaskOK(y)
  BY <1>2, <1>4, <1>5 DEF GainsOperation, TaskOK
<1> QED BY <1>1, <1>6 DEF Gained

LEMMA GrowsTypes ==
    ASSUME NEW s, NEW u, NEW t \in DOMAIN s.tasks, NEW k \in InvocationKeys,
           k \notin DOMAIN s.tasks[t].operations, StateOK(s), Grows(s, u, t, k),
           DOMAIN u.inv = DOMAIN s.inv, \A i \in DOMAIN s.inv : u.inv[i] \in Invocation
    PROVE  StateOK(u)
<1>1. TaskOK(u.tasks[t])
  BY GainsOperationTypes DEF StateOK, Grows
<1>2. \A x \in DOMAIN u.tasks : TaskOK(u.tasks[x])
  BY <1>1 DEF StateOK, Grows, OnlyTask
<1> QED BY <1>2 DEF StateOK, Grows, SameScalars, OnlyTask

(* The operations of other tasks and the clients are not affected. *)
LEMMA GrowsOK ==
    ASSUME NEW s, NEW cl, SchedulerInv(s, cl), NEW t \in DOMAIN s.tasks, NEW k \in InvocationKeys,
           k \notin DOMAIN s.tasks[t].operations, s.tasks[t].action # None,
           NEW P, <<t, k>> \in P,
           NEW u, StateOK(u), Accounted(u, {}, {}), Grows(s, u, t, k)
    PROVE  Halfway(u, {}, {}, 0, cl, P) /\ Evolves(s, u, {}) /\ Quiet(s, u, {})
<1> DEFINE X == {}
           n == 0
           Q == {}
<1>1. StateOK(s) /\ WaitingOK(s, X) /\ HandlesOK(s, n) /\ RecordsOK(s, cl, Q)
  BY DEF SchedulerInv, Halfway
<1>2. /\ DOMAIN u.tasks = DOMAIN s.tasks
      /\ \A x \in DOMAIN s.tasks :
            /\ Pending(u, x) <=> Pending(s, x)
            /\ u.tasks[x].learner = s.tasks[x].learner
            /\ u.tasks[x].worker = s.tasks[x].worker /\ u.tasks[x].class = s.tasks[x].class
            /\ u.tasks[x].action = s.tasks[x].action
            /\ u.tasks[x].failed = s.tasks[x].failed /\ u.tasks[x].event = s.tasks[x].event
  BY DEF Grows, OnlyTask, GainsOperation, Pending
<1>3. /\ u.workers = s.workers /\ u.created = s.created /\ u.drains = s.drains
      /\ u.handles = s.handles /\ u.inFlightDeduplicationMap = s.inFlightDeduplicationMap
  BY DEF Grows, SameScalars
<1>4. /\ DOMAIN u.tasks[t].operations = DOMAIN s.tasks[t].operations \cup {k}
      /\ \A j \in DOMAIN s.tasks[t].operations : u.tasks[t].operations[j] = s.tasks[t].operations[j]
      /\ u.tasks[t].operations[k] = NewOperation(FALSE)
  <2>1. TaskOK(s.tasks[t]) /\ GainsOperation(s.tasks[t], u.tasks[t], k)
    BY <1>1 DEF StateOK, Grows
  <2>2. Gained(s.tasks[t], u.tasks[t], k)
    BY <2>1, GainsOperationTypes
  <2> QED BY <2>2 DEF Gained
<1>5. \A x \in DOMAIN s.tasks : \A j \in DOMAIN s.tasks[x].operations :
         /\ j \in DOMAIN u.tasks[x].operations
         /\ u.tasks[x].operations[j] = s.tasks[x].operations[j]
  BY <1>4 DEF Grows, OnlyTask
<1>6. WaitingOK(u, X)
  <2> HIDE DEF X
  <2>1. \A x : NothingQueued(s, X, x) => NothingQueued(u, X, x)
    BY <1>2 DEF NothingQueued
  <2>2. \A x \in DOMAIN u.workers : isDrained(u, x) <=> isDrained(s, x)
    BY <1>3 DEF isDrained
  <2> QED BY <1>1, <1>3, <2>1, <2>2 DEF WaitingOK
<1>7. HandlesOK(u, n)
  <2>1. PendingTasks(u) = PendingTasks(s)
    BY <1>2 DEF PendingTasks
  <2> QED BY <1>1, <1>3, <2>1 DEF HandlesOK
<1>8. DeduplicationOK(u)
  BY <1>1, <1>2, <1>3 DEF RecordsOK, DeduplicationOK
<1>9. LearnersOK(u)
  BY <1>1, <1>2 DEF RecordsOK, LearnersOK
<1>10. ClientsOK(u, cl)
  BY <1>1, <1>2, <1>5 DEF RecordsOK, ClientsOK
<1>11. OperationsOK(u, cl, P)
  <2> SUFFICES ASSUME NEW x \in DOMAIN s.tasks, NEW j \in DOMAIN u.tasks[x].operations
               PROVE  OperationFine(u, cl, P, x, j)
    BY <1>2 DEF OperationsOK
  <2>1. CASE j \in DOMAIN s.tasks[x].operations
    <3>1. OperationFine(s, cl, Q, x, j) /\ <<x, j>> \notin Q
      BY <1>1, <2>1 DEF RecordsOK, OperationsOK
    <3> HIDE DEF Q
    <3> QED BY <1>2, <1>5, <2>1, <3>1 DEF OperationFine
  <2>2. CASE j \notin DOMAIN s.tasks[x].operations
    <3>1. x = t /\ j = k
      BY <1>4, <2>2 DEF Grows, OnlyTask
    <3>2. Waiters(cl, t, k) = {}
      BY <1>1 DEF RecordsOK, ClientsOK, Waiters
    <3>3. Cardinality(Waiters(cl, t, k)) = 0
      BY <3>2, FS_EmptySet
    <3> DEFINE b == FALSE
               o == NewOperation(b)
    <3>4. b \in BOOLEAN /\ ~b /\ u.tasks[t].operations[k] = o
      BY <1>4
    <3> HIDE DEF b
    <3>5. o.waiters = 0 /\ o.mayExistWithoutWaiters = b
      BY <3>4, NewOperationIs
    <3> HIDE DEF o
    <3>6. OperationFine(u, cl, P, t, k)
      BY <1>2, <3>3, <3>4, <3>5 DEF OperationFine
    <3> QED BY <3>1, <3>6
  <2> QED BY <2>1, <2>2
<1>12. Halfway(u, {}, {}, 0, cl, P)
  BY <1>6, <1>7, <1>8, <1>9, <1>10, <1>11 DEF Halfway, RecordsOK
<1>13. s.created \in Nat /\ DOMAIN s.tasks \subseteq 1 .. s.created
  BY <1>1 DEF StateOK
<1>14. Evolves(s, u, {})
  BY <1>2, <1>3, <1>13 DEF Evolves
<1>15. Quiet(s, u, {})
  BY <1>3 DEF Quiet
<1> QED BY <1>12, <1>14, <1>15

(* The parts of the accounts that do not depend on how the task is run. *)
GrowsFine(s, y, t, c, K, k, w) ==
    /\ OnlyConcerns(s, y, t, w) /\ TaskFine(y, {}, t)
    /\ DOMAIN y.tasks[t].operations = K \cup {k}
    /\ y.tasks[t].worker = w /\ y.tasks[t].class = c /\ t \in DOMAIN y.tasks
    /\ Pending(y, t)
    /\ StillUsed(s, y, {}, {}, Invocations(c, {k}), {}, t, w)

LEMMA GrowsConcerns ==
    ASSUME NEW s, StateOK(s), NEW E, Accounted(s, {}, E), NEW t \in DOMAIN s.tasks, NEW c, NEW K,
           NEW k \in InvocationKeys, c = s.tasks[t].class, K = DOMAIN s.tasks[t].operations, k \notin K,
           Pending(s, t), Invocations(c, {k}) \subseteq DOMAIN s.inv,
           NEW w, w = s.tasks[t].worker,
           NEW y, Grows(s, y, t, k), DOMAIN y.inv = DOMAIN s.inv
    PROVE  GrowsFine(s, y, t, c, K, k, w)
<1>1. DOMAIN y.tasks[t].operations = K \cup {k}
  <2>1. TaskOK(s.tasks[t]) /\ GainsOperation(s.tasks[t], y.tasks[t], k)
    BY DEF StateOK, Grows
  <2>2. Gained(s.tasks[t], y.tasks[t], k)
    BY <2>1, GainsOperationTypes
  <2> QED BY <2>2 DEF Gained
<1>2. /\ y.tasks[t].worker = w /\ y.tasks[t].class = c /\ t \in DOMAIN y.tasks
      /\ y.workers = s.workers /\ y.classes = s.classes
      /\ DOMAIN y.tasks = DOMAIN s.tasks /\ \A x \in DOMAIN s.tasks \ {t} : y.tasks[x] = s.tasks[x]
  BY DEF Grows, GainsOperation, OnlyTask, SameScalars
<1>3. Pending(y, t)
  BY DEF Grows, GainsOperation, Pending
<1>4. WorkersOK(s) /\ TasksOK(s, {})
  BY DEF Accounted
<1>5. w # None => w \in DOMAIN s.workers /\ s.workers[w].task = t
  BY <1>4 DEF TasksOK
<1>6. None \notin DOMAIN s.workers
  BY NamesDiffer DEF StateOK
<1>7. OnlyConcerns(s, y, t, w)
  BY <1>2, <1>5, <1>6 DEF OnlyConcerns
<1>8. TaskFine(s, {}, t)
  BY <1>4 DEF TasksOK, TaskFine
<1>9. Invocations(c, K \cup {k}) = Invocations(c, K) \cup Invocations(c, {k})
  BY DEF Invocations
<1>10. TaskFine(y, {}, t)
  BY <1>1, <1>2, <1>3, <1>8, <1>9 DEF TaskFine
<1>11. StillUsed(s, y, {}, {}, Invocations(c, {k}), {}, t, w)
  <2>1. \A i \in Invocations(c, K \cup {k}) : Used(y, {}, i)
    BY <1>1, <1>2, <1>3 DEF Used
  <2> SUFFICES ASSUME NEW i \in Touched(s, {}, t, w) PROVE Used(y, {}, i)
    BY <1>9, <2>1 DEF StillUsed
  <2>2. CASE i \in Invocations(c, K)
    BY <1>9, <2>1, <2>2
  <2>3. CASE w \in DOMAIN s.workers /\ s.workers[w].last # None /\ i = <<WorkerClass[w], s.workers[w].last>>
    BY <1>2, <2>3 DEF Used
  <2> QED BY <2>2, <2>3 DEF Touched
<1> QED BY <1>1, <1>2, <1>3, <1>7, <1>10, <1>11 DEF GrowsFine

(* What a task that gets another operation is like. *)
MayGrow(s, t, c, K, k) ==
    /\ StateOK(s) /\ Accounted(s, {}, Invocations(c, {k})) /\ t \in DOMAIN s.tasks
    /\ k \in InvocationKeys /\ c = s.tasks[t].class /\ K = DOMAIN s.tasks[t].operations /\ k \notin K
    /\ Pending(s, t) /\ Invocations(c, {k}) \subseteq DOMAIN s.inv

GrowsFrom(s, y, t, k) ==
    /\ Grows(s, y, t, k) /\ DOMAIN y.inv = DOMAIN s.inv
    /\ \A i \in DOMAIN s.inv : y.inv[i] \in Invocation

GrownAccounts(y) == StateOK(y) /\ Accounted(y, {}, {})

LEMMA GrowsAccounts ==
    ASSUME NEW s, NEW t, NEW c, NEW K, NEW k, MayGrow(s, t, c, K, k),
           NEW w, w = s.tasks[t].worker, NEW y, GrowsFrom(s, y, t, k),
           w \in DOMAIN y.workers => WorkerFine(y, w),
           CountsQueued(s, y, {}, t), CountsExecuting(s, y, w), CountsIdle(s, y, w)
    PROVE  GrownAccounts(y)
<1> DEFINE E == Invocations(c, {k})
           X == {}
<1>1. /\ StateOK(s) /\ Accounted(s, X, E) /\ t \in DOMAIN s.tasks
      /\ k \in InvocationKeys /\ c = s.tasks[t].class /\ K = DOMAIN s.tasks[t].operations /\ k \notin K
      /\ Pending(s, t) /\ Invocations(c, {k}) \subseteq DOMAIN s.inv
  BY DEF MayGrow
<1>2. /\ Grows(s, y, t, k) /\ DOMAIN y.inv = DOMAIN s.inv
      /\ \A i \in DOMAIN s.inv : y.inv[i] \in Invocation
  BY DEF GrowsFrom
<1>3. StateOK(y)
  <2>1. k \notin DOMAIN s.tasks[t].operations
    BY <1>1
  <2> QED BY <1>1, <1>2, <2>1, GrowsTypes
<1>4. GrowsFine(s, y, t, c, K, k, w)
  <2>1. Accounted(s, {}, E)
    BY <1>1
  <2> HIDE DEF E
  <2> QED BY <1>1, <1>2, <2>1, GrowsConcerns
<1>5. OnlyConcerns(s, y, t, w) /\ TaskFine(y, X, t) /\ StillUsed(s, y, X, X, E, X, t, w)
  BY <1>4 DEF GrowsFine
<1>6. CountsQueued(s, y, X, t)
  OBVIOUS
<1> HIDE DEF E, X
<1>7. Accounted(y, X, X)
  BY <1>1, <1>3, <1>5, <1>6, AccountsStep
<1> QED BY <1>3, <1>7 DEF X, GrownAccounts

(* An operation of a task that is executed. *)
LEMMA GrowsExecuting ==
    ASSUME NEW s, NEW t, NEW c, NEW K, NEW k, MayGrow(s, t, c, K, k),
           NEW w, w = s.tasks[t].worker, w # None,
           NEW v, Grows(s, v, t, k), v.inv = s.inv, NEW y, Increments(v, y, c, {k}, w)
    PROVE  GrownAccounts(y) /\ Grows(s, y, t, k)
<1>1. /\ StateOK(s) /\ Accounted(s, {}, Invocations(c, {k})) /\ t \in DOMAIN s.tasks
      /\ k \in InvocationKeys /\ c = s.tasks[t].class /\ K = DOMAIN s.tasks[t].operations /\ k \notin K
      /\ Pending(s, t)
  BY DEF MayGrow
<1>2. /\ K \in SUBSET InvocationKeys /\ w \in DOMAIN s.workers /\ w \in Workers
      /\ s.workers[w].task = t /\ t # None /\ c = WorkerClass[w]
  <2>1. WorkersOK(s) /\ TasksOK(s, {}) /\ TaskOK(s.tasks[t])
    BY <1>1 DEF Accounted, StateOK
  <2>2. K \in SUBSET InvocationKeys
    BY <1>1, <2>1 DEF TaskOK
  <2>3. w \in DOMAIN s.workers /\ s.workers[w].task = t /\ t # None /\ w \in Workers
    BY <1>1, <2>1, NamesDiffer DEF TasksOK, StateOK
  <2>4. c = WorkerClass[w]
    BY <1>1, <2>1, <2>3, ZenonT(60) DEF WorkersOK
  <2> QED BY <2>2, <2>3, <2>4
<1>3. Grows(s, y, t, k) /\ y.tasks = v.tasks
  BY DEF Grows, Increments, SameButInvocations, SameScalars, OnlyTask
<1>4. /\ y.workers = s.workers /\ y.classes = s.classes /\ DOMAIN y.inv = DOMAIN s.inv
      /\ y.tasks[t].worker = w /\ y.tasks[t].class = c /\ t \in DOMAIN y.tasks
  BY <1>1, <1>3 DEF Grows, SameScalars, Increments, GainsOperation, OnlyTask
<1>5. DOMAIN y.tasks[t].operations = K \cup {k} /\ Pending(y, t)
  <2>1. TaskOK(s.tasks[t]) /\ GainsOperation(s.tasks[t], y.tasks[t], k)
    BY <1>1, <1>3 DEF StateOK, Grows
  <2>2. k \notin DOMAIN s.tasks[t].operations
    BY <1>1
  <2>3. Gained(s.tasks[t], y.tasks[t], k)
    BY <1>1, <2>1, <2>2, GainsOperationTypes
  <2> QED BY <1>1, <2>1, <2>3 DEF Gained, GainsOperation, Pending
<1>6. ASSUME NEW i \in DOMAIN s.inv
      PROVE  /\ y.inv[i] \in Invocation
             /\ y.inv[i].queued = s.inv[i].queued /\ y.inv[i].idle = s.inv[i].idle
             /\ \A x \in Workers \ {w} : y.inv[i].executing[x] = s.inv[i].executing[x]
             /\ y.inv[i].executing[w] = Share(i, c, K \cup {k})
  <2> DEFINE h == Share(i, c, {k})
             g == Share(i, c, K \cup {k})
             f == Share(i, c, K)
  <2>1. s.inv[i] \in Invocation /\ y.inv[i] = [s.inv[i] EXCEPT !.executing[w] = @ + h]
    BY <1>1 DEF StateOK, Increments
  <2>2. s.inv[i].executing[w] = f
    BY <1>1, <1>2 DEF Accounted, ExecutingOK, Executes
  <2>3. g = f + h
    BY <1>1, <1>2, ShareOfMore
  <2>4. f \in Nat
    BY <1>2, ShareIsNatural
  <2>5. h \in Nat
    <3>1. {k} \in SUBSET InvocationKeys
      BY <1>1
    <3> QED BY <3>1, ShareIsNatural
  <2> HIDE DEF f, g, h
  <2>6. s.inv[i].executing[w] + h = g /\ g \in Nat
    BY <2>2, <2>3, <2>4, <2>5
  <2> DEFINE e == s.inv[i].executing
  <2>7. e \in [Workers -> Nat] /\ e[w] + h = g
    BY <2>1, <2>6 DEF Invocation
  <2>8. /\ y.inv[i] \in Invocation
        /\ y.inv[i].queued = s.inv[i].queued /\ y.inv[i].idle = s.inv[i].idle
        /\ y.inv[i].executing = [e EXCEPT ![w] = g]
    <3>1. y.inv[i] = [s.inv[i] EXCEPT !.executing = [e EXCEPT ![w] = g]]
      BY <2>1, <2>7
    <3>2. [e EXCEPT ![w] = g] \in [Workers -> Nat]
      BY <1>2, <2>6, <2>7
    <3> HIDE DEF e
    <3> QED BY <2>1, <3>1, <3>2 DEF Invocation
  <2>9. /\ \A x \in Workers \ {w} : y.inv[i].executing[x] = s.inv[i].executing[x]
        /\ y.inv[i].executing[w] = g
    BY <1>2, <2>7, <2>8
  <2> QED BY <2>8, <2>9 DEF g
<1>7. GrowsFrom(s, y, t, k)
  BY <1>3, <1>4, <1>6 DEF GrowsFrom
<1>8. WorkerFine(y, w)
  <2>1. WorkerFine(s, w)
    BY <1>1, <1>2 DEF Accounted, WorkersOK, WorkerFine
  <2> QED BY <1>2, <1>4, <1>5, <2>1 DEF WorkerFine
<1>9. CountsQueued(s, y, {}, t)
  <2>1. \A i \in DOMAIN s.inv : t \notin s.inv[i].queued
    BY <1>1 DEF Accounted, QueuesOK, Queues
  <2>2. \A i \in DOMAIN s.inv : ~Queues(y, t, i)
    BY <1>4 DEF Queues
  <2> QED BY <1>6, <2>1, <2>2 DEF CountsQueued
<1>10. CountsExecuting(s, y, w)
  <2>1. \A i \in DOMAIN s.inv : Executes(y, w, i) = Share(i, c, K \cup {k})
    BY <1>2, <1>4, <1>5 DEF Executes
  <2> QED BY <1>6, <2>1 DEF CountsExecuting
<1>11. CountsIdle(s, y, w)
  <2> SUFFICES ASSUME NEW i \in DOMAIN s.inv
               PROVE  y.inv[i].idle = s.inv[i].idle - (IF w \in IdleWorkers(s, i) THEN 1 ELSE 0)
                                                    + (IF w \in IdleWorkers(y, i) THEN 1 ELSE 0)
    BY DEF CountsIdle
  <2>1. IdleWorkers(y, i) = IdleWorkers(s, i)
    BY <1>4 DEF IdleWorkers
  <2>2. s.inv[i].idle \in Nat /\ y.inv[i].idle = s.inv[i].idle
    BY <1>1, <1>6 DEF StateOK, Invocation
  <2> QED BY <2>1, <2>2
<1>12. GrownAccounts(y)
  BY <1>7, <1>8, <1>9, <1>10, <1>11, GrowsAccounts
<1> QED BY <1>3, <1>12

(* An operation of a task that is queued. *)
LEMMA GrowsQueued ==
    ASSUME NEW s, NEW t, NEW c, NEW K, NEW k, MayGrow(s, t, c, K, k), s.tasks[t].worker = None,
           NEW v, Grows(s, v, t, k), v.inv = s.inv, NEW y, Enqueues(v, y, t, c, {k})
    PROVE  GrownAccounts(y) /\ Grows(s, y, t, k)
<1> DEFINE w == None
<1>1. w = s.tasks[t].worker /\ w = None
  OBVIOUS
<1> HIDE DEF w
<1>2. /\ StateOK(s) /\ Accounted(s, {}, Invocations(c, {k})) /\ t \in DOMAIN s.tasks
      /\ k \in InvocationKeys /\ c = s.tasks[t].class /\ K = DOMAIN s.tasks[t].operations /\ k \notin K
      /\ Pending(s, t) /\ t \in Nat
  BY DEF MayGrow, StateOK
<1>3. Grows(s, y, t, k) /\ y.tasks = v.tasks
  BY DEF Grows, Enqueues, SameButInvocations, SameScalars, OnlyTask
<1>4. /\ y.workers = s.workers /\ y.classes = s.classes /\ DOMAIN y.inv = DOMAIN s.inv
      /\ y.tasks[t].worker = w /\ y.tasks[t].class = c /\ t \in DOMAIN y.tasks
  BY <1>1, <1>2, <1>3 DEF Grows, SameScalars, Enqueues, GainsOperation, OnlyTask
<1>5. DOMAIN y.tasks[t].operations = K \cup {k} /\ Pending(y, t)
  <2>1. TaskOK(s.tasks[t]) /\ GainsOperation(s.tasks[t], y.tasks[t], k)
    BY <1>2, <1>3 DEF StateOK, Grows
  <2>2. k \notin DOMAIN s.tasks[t].operations
    BY <1>2
  <2>3. Gained(s.tasks[t], y.tasks[t], k)
    BY <1>2, <2>1, <2>2, GainsOperationTypes
  <2> QED BY <1>2, <2>1, <2>3 DEF Gained, GainsOperation, Pending
<1>6. ASSUME NEW i \in DOMAIN s.inv
      PROVE  /\ y.inv[i] \in Invocation
             /\ y.inv[i].executing = s.inv[i].executing /\ y.inv[i].idle = s.inv[i].idle
             /\ y.inv[i].queued = IF i \in Invocations(c, {k}) THEN s.inv[i].queued \cup {t}
                                  ELSE s.inv[i].queued
  <2>1. s.inv[i] \in Invocation
    BY <1>2 DEF StateOK
  <2>2. y.inv[i] = IF i \in Invocations(c, {k}) THEN [s.inv[i] EXCEPT !.queued = @ \cup {t}]
                   ELSE s.inv[i]
    BY DEF Enqueues
  <2> QED BY <1>2, <2>1, <2>2 DEF Invocation
<1>7. GrowsFrom(s, y, t, k)
  BY <1>3, <1>4, <1>6 DEF GrowsFrom
<1>8. CountsExecuting(s, y, w) /\ CountsIdle(s, y, w) /\ w \notin DOMAIN y.workers
  <2>1. \A i \in DOMAIN s.inv :
           y.inv[i].executing = s.inv[i].executing /\ y.inv[i].idle = s.inv[i].idle
    BY <1>6
  <2>2. CountsExecuting(s, y, None) /\ CountsIdle(s, y, None) /\ None \notin DOMAIN y.workers
    BY <1>2, <1>4, <2>1, NoWorkerConcerned
  <2> QED BY <1>1, <2>2
<1>9. CountsQueued(s, y, {}, t)
  <2> SUFFICES ASSUME NEW i \in DOMAIN s.inv
               PROVE  /\ y.inv[i].queued \ {t} = s.inv[i].queued \ {t}
                      /\ t \in y.inv[i].queued <=> t \in DOMAIN y.tasks \ {} /\ Queues(y, t, i)
    BY DEF CountsQueued
  <2>1. t \in s.inv[i].queued <=> Queues(s, t, i)
    BY <1>2 DEF Accounted, QueuesOK
  <2>2. Queues(s, t, i) <=> i[1] = c /\ i[2] \in K
    BY <1>2 DEF Queues
  <2>3. Queues(y, t, i) <=> i[1] = c /\ (i[2] \in K \/ i[2] = k)
    BY <1>1, <1>4, <1>5 DEF Queues
  <2>4. i \in Invocations(c, {k}) <=> i[1] = c /\ i[2] = k
    <3>1. i \in s.classes \X InvocationKeys
      BY <1>2 DEF StateOK
    <3>2. i = <<i[1], i[2]>>
      BY <3>1
    <3> QED BY <3>2 DEF Invocations
  <2>5. y.inv[i].queued = IF i \in Invocations(c, {k}) THEN s.inv[i].queued \cup {t}
                          ELSE s.inv[i].queued
    BY <1>6
  <2>6. t \in y.inv[i].queued <=> Queues(y, t, i)
    BY <2>1, <2>2, <2>3, <2>4, <2>5
  <2>7. y.inv[i].queued \ {t} = s.inv[i].queued \ {t}
    BY <2>5
  <2> QED BY <1>4, <2>6, <2>7
<1>10. GrownAccounts(y)
  BY <1>1, <1>7, <1>8, <1>9, GrowsAccounts
<1> QED BY <1>3, <1>10

(* The invocation is created first. *)
LEMMA CreatedMayGrow ==
    ASSUME NEW s, NEW cl, SchedulerInv(s, cl), NEW t \in DOMAIN s.tasks, Pending(s, t),
           NEW c, NEW K, c = s.tasks[t].class, K = DOMAIN s.tasks[t].operations,
           NEW k \in InvocationKeys, k \notin K,
           NEW r, Creates(s, r, c, {k})
    PROVE  MayGrow(r, t, c, K, k)
<1>1. StateOK(s) /\ Accounted(s, {}, {}) /\ TasksOK(s, {})
  BY DEF SchedulerInv, Halfway, Accounted
<1>2. c \in s.classes
  BY <1>1 DEF TasksOK
<1>3. r.tasks = s.tasks
  BY DEF Creates, SameButInvocations
<1> DEFINE X == {}
           L == {k}
<1>4. StateOK(s) /\ Accounted(s, X, X) /\ L \in SUBSET InvocationKeys /\ Creates(s, r, c, L)
  BY <1>1
<1>5. X \cup Invocations(c, L) = Invocations(c, L)
  OBVIOUS
<1> HIDE DEF X, L
<1>6. StateOK(r) /\ Accounted(r, X, X \cup Invocations(c, L))
  BY <1>2, <1>4, CreatesAccounts
<1>7. Invocations(c, L) \subseteq DOMAIN r.inv
  BY <1>4 DEF Creates
<1>8. StateOK(r) /\ Accounted(r, {}, Invocations(c, {k})) /\ Invocations(c, {k}) \subseteq DOMAIN r.inv
  BY <1>5, <1>6, <1>7 DEF X, L
<1> QED BY <1>3, <1>8 DEF MayGrow, Pending

Deduplicates(s, u, cl, t, k, P) ==
    /\ Halfway(u, {}, {}, 0, cl, P) /\ Evolves(s, u, {}) /\ Quiet(s, u, {})
    /\ t \in DOMAIN u.tasks /\ k \in DOMAIN u.tasks[t].operations /\ u.tasks[t].action # None

(* What deduplicate() does if the operation does not exist yet. *)
AttachesOperation(v, u, t, c, L, w) ==
    /\ w # None => u = incrementExecutingWorkersCount(v, c, L, w)
    /\ w = None => u = enqueue(v, t, L)

LEMMA DeduplicateIs ==
    ASSUME NEW s, NEW t, NEW k, NEW c, NEW w, c = s.tasks[t].class, w = s.tasks[t].worker,
           k \notin DOMAIN s.tasks[t].operations,
           NEW L, Only(L, k), NEW u, u = deduplicate(s, t, k),
           NEW r, r = getOrCreateInvocation(s, c, L),
           NEW v, AddsOperation(r, v, t, k), v.panicked = FALSE
    PROVE  AttachesOperation(v, u, t, c, L, w)
<1>1. u = Then(newOperation(getOrCreateInvocation(s, c, {k}), t, k, FALSE),
               LAMBDA x : IF w # None
                          THEN incrementExecutingWorkersCount(x, c, {k}, w)
                          ELSE enqueue(x, t, {k}))
  BY DEF deduplicate
<1>2. newOperation(getOrCreateInvocation(s, c, {k}), t, k, FALSE) = v
  BY DEF Only, AddsOperation
<1>3. u = IF v.panicked THEN v
          ELSE IF w # None THEN incrementExecutingWorkersCount(v, c, {k}, w)
               ELSE enqueue(v, t, {k})
  BY <1>1, <1>2 DEF Then
<1> QED BY <1>3 DEF Only, AttachesOperation

LEMMA DeduplicateOK ==
    ASSUME NEW s, NEW cl, SchedulerInv(s, cl), NEW t \in DOMAIN s.tasks, Pending(s, t),
           s.tasks[t].action # None, NEW k \in InvocationKeys, NEW P, <<t, k>> \in P,
           NEW u, u = deduplicate(s, t, k)
    PROVE  Deduplicates(s, u, cl, t, k, P)
<1>1. StateOK(s) /\ s.created \in Nat /\ DOMAIN s.tasks \subseteq 1 .. s.created
  BY DEF SchedulerInv, Halfway, StateOK
<1>2. CASE k \in DOMAIN s.tasks[t].operations
  <2>1. u = s
    BY <1>2 DEF deduplicate
  <2> DEFINE X == {}
             n == 0
  <2>2. Halfway(s, X, X, n, cl, X) /\ X \subseteq P
    BY DEF SchedulerInv
  <2> HIDE DEF X, n
  <2>3. Halfway(s, X, X, n, cl, P)
    BY <2>2, MoreUnattended
  <2>4. Halfway(s, {}, {}, 0, cl, P)
    BY <2>3 DEF X, n
  <2>5. Evolves(s, s, {}) /\ Quiet(s, s, {})
    BY <1>1 DEF Evolves, Quiet
  <2> QED BY <1>2, <2>1, <2>4, <2>5 DEF Deduplicates
<1>3. CASE k \notin DOMAIN s.tasks[t].operations
  <2> DEFINE c == s.tasks[t].class
             K == DOMAIN s.tasks[t].operations
             w == s.tasks[t].worker
             L == {k}
             r == getOrCreateInvocation(s, c, L)
             v == newOperation(r, t, k, FALSE)
  <2>1. /\ c = s.tasks[t].class /\ K = DOMAIN s.tasks[t].operations /\ w = s.tasks[t].worker
        /\ k \notin K
    BY <1>3
  <2>2. Only(L, k)
    BY DEF Only
  <2>3. r = getOrCreateInvocation(s, c, L) /\ AddsOperation(r, v, t, k)
    BY DEF AddsOperation
  <2> HIDE DEF c, K, w, L, r, v
  <2>4. Creates(s, r, c, L) /\ Creates(s, r, c, {k})
    <3>1. Creates(s, r, c, L)
      BY <1>1, <2>3, GetOrCreateIs DEF StateOK
    <3> QED BY <2>2, <3>1 DEF Only
  <2>5. MayGrow(r, t, c, K, k)
    BY <2>1, <2>4, CreatedMayGrow
  <2>6. SameButInvocations(s, r) /\ r.tasks = s.tasks
    BY <2>4 DEF Creates, SameButInvocations
  <2>7. /\ IsState(r) /\ r.panicked = FALSE /\ t \in DOMAIN r.tasks /\ IsTask(r.tasks[t])
        /\ k \notin DOMAIN r.tasks[t].operations
    BY <1>1, <1>3, <2>6 DEF SameButInvocations, StateOK, TaskOK
  <2>8. Grows(r, v, t, k) /\ v.inv = r.inv
    BY <2>3, <2>7, GrowsIs
  <2>9. IsState(v) /\ v.panicked = FALSE /\ v.tasks[t].class = c
    BY <2>1, <2>6, <2>7, <2>8 DEF Grows, SameScalars, GainsOperation
  <2>10. /\ w # None => u = incrementExecutingWorkersCount(v, c, L, w)
         /\ w = None => u = enqueue(v, t, L)
    <3>1. k \notin DOMAIN s.tasks[t].operations
      BY <1>3
    <3>2. AttachesOperation(v, u, t, c, L, w)
      BY <2>1, <2>2, <2>3, <2>9, <3>1, DeduplicateIs
    <3> QED BY <3>2 DEF AttachesOperation
  <2>11. Invocations(c, L) \subseteq DOMAIN v.inv
    BY <2>4, <2>8 DEF Creates
  <2>12. GrownAccounts(u) /\ Grows(r, u, t, k)
    <3>1. CASE w # None
      <4>1. Increments(v, u, c, L, w)
        BY <2>9, <2>10, <2>11, <3>1, IncrementIs
      <4>2. Increments(v, u, c, {k}, w)
        BY <2>2, <4>1 DEF Only
      <4>3. w = r.tasks[t].worker
        BY <2>1, <2>6
      <4> QED BY <2>5, <2>8, <3>1, <4>2, <4>3, GrowsExecuting
    <3>2. CASE w = None
      <4>1. r.tasks[t].worker = None
        BY <2>1, <2>6, <3>2
      <4>2. \A i \in Invocations(c, L) : t \notin v.inv[i].queued
        <5>1. QueuesOK(r, {}) /\ K = DOMAIN r.tasks[t].operations
          BY <2>1, <2>5, <2>6 DEF MayGrow, Accounted
        <5>2. \A i \in Invocations(c, L) : i \in DOMAIN r.inv /\ ~Queues(r, t, i)
          BY <2>1, <2>2, <2>8, <2>11, <5>1 DEF Only, Invocations, Queues
        <5> QED BY <2>8, <5>1, <5>2 DEF QueuesOK
      <4>3. c = v.tasks[t].class /\ u = enqueue(v, t, L)
        BY <2>9, <2>10, <3>2
      <4>4. Enqueues(v, u, t, c, L)
        BY <2>9, <2>11, <4>2, <4>3, EnqueueIs
      <4>5. Enqueues(v, u, t, c, {k})
        BY <2>2, <4>4 DEF Only
      <4> QED BY <2>5, <2>8, <4>1, <4>5, GrowsQueued
    <3> QED BY <3>1, <3>2
  <2>13. StateOK(u) /\ Accounted(u, {}, {})
    BY <2>12 DEF GrownAccounts
  <2>14. Grows(s, u, t, k)
    BY <2>6, <2>12 DEF Grows, SameButInvocations, SameScalars, OnlyTask
  <2>15. Halfway(u, {}, {}, 0, cl, P) /\ Evolves(s, u, {}) /\ Quiet(s, u, {})
    <3>1. k \notin DOMAIN s.tasks[t].operations
      BY <1>3
    <3> QED BY <2>13, <2>14, <3>1, GrowsOK
  <2>16. TaskOK(s.tasks[t]) /\ GainsOperation(s.tasks[t], u.tasks[t], k) /\ t \in DOMAIN u.tasks
    BY <1>1, <2>14 DEF StateOK, Grows, OnlyTask
  <2>17. Gained(s.tasks[t], u.tasks[t], k)
    <3> DEFINE x == s.tasks[t]
               y == u.tasks[t]
    <3>1. TaskOK(x) /\ GainsOperation(x, y, k) /\ k \notin DOMAIN x.operations
      BY <1>3, <2>16
    <3> HIDE DEF x, y
    <3>2. Gained(x, y, k)
      BY <3>1, GainsOperationTypes
    <3> QED BY <3>2 DEF x, y
  <2> QED BY <2>15, <2>16, <2>17 DEF Deduplicates, Gained, GainsOperation
<1> QED BY <1>2, <1>3

-----------------------------------------------------------------------------
LEMMA ChangesOperationIs ==
    ASSUME NEW s, StateOK(s), NEW t \in DOMAIN s.tasks, NEW k, NEW o,
           NEW u, u = [s EXCEPT !.tasks[t].operations[k] = o]
    PROVE  ChangesOperation(s, u, t, k, o)
<1> DEFINE ops == [s.tasks[t].operations EXCEPT ![k] = o]
           y == [s.tasks[t] EXCEPT !.operations = ops]
<1>1. u = [s EXCEPT !.tasks[t] = y] /\ IsState(s) /\ IsTask(s.tasks[t])
  BY DEF StateOK, TaskOK
<1>2. ops = [s.tasks[t].operations EXCEPT ![k] = o]
  OBVIOUS
<1> HIDE DEF ops
<1>3. /\ IsTask(y) /\ y.operations = ops
      /\ y.action = s.tasks[t].action /\ y.class = s.tasks[t].class /\ y.learner = s.tasks[t].learner
      /\ y.worker = s.tasks[t].worker /\ y.retryCount = s.tasks[t].retryCount
      /\ y.failed = s.tasks[t].failed /\ y.event = s.tasks[t].event
  BY <1>1 DEF IsTask, TaskFields
<1> HIDE DEF y
<1>4. ChangesTask(s, u, t, y)
  BY <1>1, ChangesTaskIs
<1>5. u.tasks[t] = y
  BY <1>4 DEF ChangesTask
<1> QED BY <1>2, <1>3, <1>4, <1>5 DEF ChangesOperation

(* The operation is the only one of which the waiters change. *)
OnlyWaiters(cl, cm, t, k) ==
    \A x, j : x # t \/ j # k => Waiters(cm, x, j) = Waiters(cl, x, j)

Attended(cm, t, k, o, p) ==
    /\ p \in Operation
    /\ p.mayExistWithoutWaiters = o.mayExistWithoutWaiters
    /\ p.waiters = Cardinality(Waiters(cm, t, k))
    /\ p.cleanup <=> p.waiters = 0 /\ ~p.mayExistWithoutWaiters

LEMMA ChangesOperationOK ==
    ASSUME NEW s, NEW cl, NEW P, Halfway(s, {}, {}, 0, cl, P), NEW t \in DOMAIN s.tasks,
           NEW k \in DOMAIN s.tasks[t].operations, P \subseteq {<<t, k>>},
           NEW cm, OnlyWaiters(cl, cm, t, k), ClientsOK(s, cm),
           NEW o, Attended(cm, t, k, s.tasks[t].operations[k], o),
           NEW u, ChangesOperation(s, u, t, k, o)
    PROVE  SchedulerInv(u, cm) /\ Evolves(s, u, {}) /\ Quiet(s, u, {})
<1> DEFINE y == u.tasks[t]
           X == {}
           n == 0
           Q == {}
<1>1. StateOK(s) /\ Accounted(s, X, X) /\ WaitingOK(s, X) /\ HandlesOK(s, n) /\ RecordsOK(s, cl, P)
      /\ TaskOK(s.tasks[t])
  BY DEF Halfway, StateOK
<1>2. /\ DOMAIN y.operations = DOMAIN s.tasks[t].operations /\ y.operations[k] = o
      /\ \A j \in DOMAIN s.tasks[t].operations \ {k} : y.operations[j] = s.tasks[t].operations[j]
      /\ y.operations = [j \in DOMAIN y.operations |-> y.operations[j]]
  BY DEF ChangesOperation
<1>3. TaskOK(y)
  <2>1. \A j \in DOMAIN y.operations : y.operations[j] \in Operation
    BY <1>1, <1>2 DEF TaskOK, Attended
  <2> QED BY <1>1, <1>2, <2>1 DEF ChangesOperation, TaskOK
<1>4. /\ ChangesTask(s, u, t, y)
      /\ y.learner = s.tasks[t].learner /\ y.worker = s.tasks[t].worker
      /\ y.class = s.tasks[t].class
  BY DEF ChangesOperation
<1>5. /\ StateOK(u) /\ Accounted(u, X, X) /\ WaitingOK(u, X)
      /\ Evolves(s, u, {}) /\ Quiet(s, u, {})
  <2> HIDE DEF y, X
  <2> QED BY <1>1, <1>2, <1>3, <1>4, ChangesTaskAccounts
<1>6. /\ DOMAIN u.tasks = DOMAIN s.tasks /\ u.handles = s.handles
      /\ u.inFlightDeduplicationMap = s.inFlightDeduplicationMap
      /\ \A x \in DOMAIN s.tasks \ {t} : u.tasks[x] = s.tasks[x]
  BY <1>4 DEF ChangesTask, SameScalars, OnlyTask
<1>7. \A x \in DOMAIN s.tasks :
            /\ Pending(u, x) <=> Pending(s, x)
            /\ u.tasks[x].learner = s.tasks[x].learner
            /\ u.tasks[x].worker = s.tasks[x].worker /\ u.tasks[x].class = s.tasks[x].class
            /\ u.tasks[x].action = s.tasks[x].action
            /\ u.tasks[x].failed = s.tasks[x].failed /\ u.tasks[x].event = s.tasks[x].event
            /\ DOMAIN u.tasks[x].operations = DOMAIN s.tasks[x].operations
  BY <1>2, <1>6 DEF ChangesOperation, Pending
<1>8. HandlesOK(u, n)
  <2>1. PendingTasks(u) = PendingTasks(s)
    BY <1>6, <1>7 DEF PendingTasks
  <2> QED BY <1>1, <1>6, <2>1 DEF HandlesOK
<1>9. DeduplicationOK(u)
  BY <1>1, <1>6, <1>7 DEF RecordsOK, DeduplicationOK
<1>10. LearnersOK(u)
  BY <1>1, <1>6, <1>7 DEF RecordsOK, LearnersOK
<1>11. ClientsOK(u, cm)
  BY <1>6, <1>7 DEF ClientsOK
<1>12. OperationsOK(u, cm, Q)
  <2> SUFFICES ASSUME NEW x \in DOMAIN s.tasks, NEW j \in DOMAIN s.tasks[x].operations
               PROVE  OperationFine(u, cm, Q, x, j)
    BY <1>6, <1>7 DEF OperationsOK
  <2>1. OperationFine(s, cl, P, x, j)
    BY <1>1 DEF RecordsOK, OperationsOK
  <2>2. CASE x = t /\ j = k
    <3>1. u.tasks[x].operations[j] = o /\ s.tasks[x].operations[j] = s.tasks[t].operations[k]
      BY <1>2, <2>2
    <3> HIDE DEF y, Q
    <3> QED BY <1>7, <2>1, <2>2, <3>1 DEF OperationFine, Attended
  <2>3. CASE ~(x = t /\ j = k)
    <3>1. u.tasks[x].operations[j] = s.tasks[x].operations[j]
      BY <1>2, <1>6, <2>3
    <3>2. <<x, j>> \notin P
      BY <2>3
    <3>3. Waiters(cm, x, j) = Waiters(cl, x, j)
      BY <2>3 DEF OnlyWaiters
    <3> HIDE DEF y, Q
    <3> QED BY <1>7, <2>1, <3>1, <3>2, <3>3 DEF OperationFine
  <2> QED BY <2>2, <2>3
<1>13. SchedulerInv(u, cm)
  BY <1>5, <1>8, <1>9, <1>10, <1>11, <1>12 DEF SchedulerInv, Halfway, RecordsOK
<1> QED BY <1>5, <1>13

(* Client c starts or stops waiting for the operation of task t with key k. *)
OthersWait(cl, cm, c) == \A d \in Clients \ {c} : cm[d] = cl[d]

StartsWaiting(cl, cm, c, t, k) ==
    /\ c \in Clients /\ OthersWait(cl, cm, c) /\ cl[c].call # "waiting"
    /\ cm[c].call = "waiting" /\ cm[c].task = t /\ cm[c].key = k

StopsWaiting(cl, cm, c, t, k) ==
    /\ c \in Clients /\ OthersWait(cl, cm, c) /\ cm[c].call # "waiting"
    /\ cl[c].call = "waiting" /\ cl[c].task = t /\ cl[c].key = k

LEMMA WaitersAreFinite ==
    ASSUME NEW cl, NEW t, NEW k
    PROVE  IsFiniteSet(Waiters(cl, t, k)) /\ Cardinality(Waiters(cl, t, k)) \in Nat
<1>1. Waiters(cl, t, k) \subseteq Clients /\ IsFiniteSet(Clients)
  BY SchedulerAssumption DEF Waiters
<1> QED BY <1>1, FS_Subset, FS_CardinalityType

Waited(s, cl, P, t, k) ==
    /\ Halfway(s, {}, {}, 0, cl, P) /\ t \in DOMAIN s.tasks
    /\ k \in DOMAIN s.tasks[t].operations /\ s.tasks[t].action # None

Safe(s, u, cl) == SchedulerInv(u, cl) /\ Evolves(s, u, {}) /\ Quiet(s, u, {})

LEMMA StartWaitingOK ==
    ASSUME NEW s, NEW cl, NEW P, NEW t, NEW k, P \subseteq {<<t, k>>}, Waited(s, cl, P, t, k),
           NEW c, NEW cm, StartsWaiting(cl, cm, c, t, k), NEW u, u = startWaiting(s, t, k)
    PROVE  Safe(s, u, cm)
<1> DEFINE o == s.tasks[t].operations[k]
           p == [o EXCEPT !.cleanup = FALSE, !.waiters = @ + 1]
<1>1. u = [s EXCEPT !.tasks[t].operations[k] = p]
  BY DEF startWaiting
<1>2. /\ StateOK(s) /\ t \in DOMAIN s.tasks /\ k \in DOMAIN s.tasks[t].operations
      /\ s.tasks[t].action # None /\ TaskOK(s.tasks[t]) /\ Halfway(s, {}, {}, 0, cl, P)
  BY DEF Waited, Halfway, StateOK
<1>3. o \in Operation /\ OperationFine(s, cl, P, t, k) /\ ClientsOK(s, cl)
  BY <1>2 DEF TaskOK, Halfway, RecordsOK, OperationsOK
<1>4. o.waiters = Cardinality(Waiters(cl, t, k)) /\ o.waiters \in Nat
  BY <1>3 DEF OperationFine, Operation
<1> HIDE DEF o
<1>5. /\ p \in Operation /\ p.mayExistWithoutWaiters = o.mayExistWithoutWaiters
      /\ p.waiters = o.waiters + 1 /\ p.cleanup = FALSE
  <2> DEFINE q == [o EXCEPT !.cleanup = FALSE]
  <2>1. /\ q \in Operation /\ q.mayExistWithoutWaiters = o.mayExistWithoutWaiters
        /\ q.waiters = o.waiters /\ q.cleanup = FALSE
    BY <1>3, <1>4 DEF Operation
  <2>2. p = [q EXCEPT !.waiters = q.waiters + 1]
    BY <1>3 DEF Operation
  <2> HIDE DEF p, q
  <2> QED BY <1>4, <2>1, <2>2 DEF Operation
<1> HIDE DEF p
<1>6. ChangesOperation(s, u, t, k, p)
  BY <1>1, <1>2, ChangesOperationIs
<1>7. OnlyWaiters(cl, cm, t, k)
  BY DEF OnlyWaiters, StartsWaiting, OthersWait, Waiters
<1>8. Waiters(cm, t, k) = Waiters(cl, t, k) \cup {c} /\ c \notin Waiters(cl, t, k)
  BY DEF StartsWaiting, OthersWait, Waiters
<1>9. Cardinality(Waiters(cm, t, k)) = Cardinality(Waiters(cl, t, k)) + 1
  BY <1>8, WaitersAreFinite, FS_AddElement
<1>10. Attended(cm, t, k, o, p)
  BY <1>4, <1>5, <1>9 DEF Attended
<1>11. ClientsOK(s, cm)
  BY <1>2, <1>3 DEF ClientsOK, StartsWaiting, OthersWait
<1>12. Attended(cm, t, k, s.tasks[t].operations[k], p)
  BY <1>10 DEF o
<1>13. SchedulerInv(u, cm) /\ Evolves(s, u, {}) /\ Quiet(s, u, {})
  BY <1>2, <1>6, <1>7, <1>11, <1>12, ChangesOperationOK
<1> QED BY <1>13 DEF Safe

LEMMA StopWaitingOK ==
    ASSUME NEW s, NEW cl, SchedulerInv(s, cl), NEW c, NEW cm, NEW t, NEW k,
           StopsWaiting(cl, cm, c, t, k), NEW u, u = stopWaiting(s, t, k)
    PROVE  Safe(s, u, cm)
<1> DEFINE o == s.tasks[t].operations[k]
           p == maybeStartCleanup([o EXCEPT !.waiters = @ - 1])
           P == {}
<1>1. StateOK(s) /\ s.panicked = FALSE /\ ClientsOK(s, cl) /\ OperationsOK(s, cl, P)
  BY DEF SchedulerInv, Halfway, StateOK, RecordsOK
<1>2. t \in DOMAIN s.tasks /\ k \in DOMAIN s.tasks[t].operations
  BY <1>1 DEF ClientsOK, StopsWaiting
<1>3. o \in Operation /\ OperationFine(s, cl, P, t, k)
  BY <1>1, <1>2 DEF StateOK, TaskOK, OperationsOK
<1>4. Waiters(cm, t, k) = Waiters(cl, t, k) \ {c} /\ c \in Waiters(cl, t, k)
  BY DEF StopsWaiting, OthersWait, Waiters
<1>5. /\ Cardinality(Waiters(cm, t, k)) = Cardinality(Waiters(cl, t, k)) - 1
      /\ Cardinality(Waiters(cl, t, k)) \in Nat /\ Cardinality(Waiters(cl, t, k)) # 0
  <2>1. IsFiniteSet(Waiters(cl, t, k)) /\ Cardinality(Waiters(cl, t, k)) \in Nat
    BY WaitersAreFinite
  <2>2. Cardinality(Waiters(cm, t, k)) = Cardinality(Waiters(cl, t, k)) - 1
    BY <1>4, <2>1, FS_RemoveElement
  <2>3. Cardinality(Waiters(cl, t, k)) # 0
    BY <1>4, <2>1, FS_EmptySet
  <2> QED BY <2>1, <2>2, <2>3
<1>6. o.waiters = Cardinality(Waiters(cl, t, k)) /\ o.waiters \in Nat /\ o.waiters > 0
  <2>1. o.waiters = Cardinality(Waiters(cl, t, k))
    BY <1>3 DEF OperationFine
  <2> QED BY <1>5, <2>1
<1>7. ~o.cleanup
  BY <1>3, <1>6 DEF OperationFine
<1>8. u = [s EXCEPT !.tasks[t].operations[k] = p]
  BY <1>1, <1>6 DEF stopWaiting, Unless
<1> HIDE DEF o
<1>9. /\ p \in Operation /\ p.mayExistWithoutWaiters = o.mayExistWithoutWaiters
      /\ p.waiters = o.waiters - 1
      /\ p.cleanup <=> p.waiters = 0 /\ ~p.mayExistWithoutWaiters
  <2> DEFINE q == [o EXCEPT !.waiters = @ - 1]
  <2>1. /\ q \in Operation /\ q.waiters = o.waiters - 1 /\ ~q.cleanup
        /\ q.mayExistWithoutWaiters = o.mayExistWithoutWaiters
    BY <1>3, <1>6, <1>7 DEF Operation
  <2>2. p = [q EXCEPT !.cleanup = q.cleanup \/ (q.waiters = 0 /\ ~q.mayExistWithoutWaiters)]
    BY DEF maybeStartCleanup
  <2> HIDE DEF q, p
  <2> QED BY <2>1, <2>2 DEF Operation
<1> HIDE DEF p
<1>10. ChangesOperation(s, u, t, k, p)
  BY <1>1, <1>2, <1>8, ChangesOperationIs
<1>11. OnlyWaiters(cl, cm, t, k)
  BY DEF OnlyWaiters, StopsWaiting, OthersWait, Waiters
<1>12. Attended(cm, t, k, o, p)
  BY <1>5, <1>6, <1>9 DEF Attended
<1>13. ClientsOK(s, cm)
  BY <1>1 DEF ClientsOK, StopsWaiting, OthersWait
<1>14. Attended(cm, t, k, s.tasks[t].operations[k], p)
  BY <1>12 DEF o
<1>15. Halfway(s, {}, {}, 0, cl, P) /\ P \subseteq {<<t, k>>}
  BY DEF SchedulerInv
<1> HIDE DEF P
<1>16. SchedulerInv(u, cm) /\ Evolves(s, u, {}) /\ Quiet(s, u, {})
  BY <1>2, <1>10, <1>11, <1>13, <1>14, <1>15, ChangesOperationOK
<1> QED BY <1>16 DEF Safe

LEMMA SafeTransitive ==
    ASSUME NEW s, NEW u, Evolves(s, u, {}), Quiet(s, u, {}), NEW v, NEW cl, Safe(u, v, cl)
    PROVE  Safe(s, v, cl)
<1>1. Evolves(s, u, {}) /\ Quiet(s, u, {})
  OBVIOUS
<1>2. Evolves(u, v, {}) /\ Quiet(u, v, {})
  BY DEF Safe
<1>3. Evolves(s, v, {}) /\ Quiet(s, v, {})
  BY <1>1, <1>2, RemovingIsSafe
<1> QED BY <1>3 DEF Safe

(* Execute() of an action that is in flight. *)
LEMMA ExecuteDeduplicatedOK ==
    ASSUME NEW s, NEW cl, SchedulerInv(s, cl), NEW action \in DOMAIN s.inFlightDeduplicationMap,
           NEW t, t = s.inFlightDeduplicationMap[action], NEW k \in Keys,
           NEW v, v = deduplicate(s, t, k), NEW c, NEW cm, StartsWaiting(cl, cm, c, t, k),
           NEW u, u = startWaiting(v, t, k)
    PROVE  Safe(s, u, cm)
<1>1. t \in DOMAIN s.tasks /\ Pending(s, t) /\ s.tasks[t].action # None
  <2>1. DeduplicationOK(s)
    BY DEF SchedulerInv, Halfway, RecordsOK
  <2>2. t \in DOMAIN s.tasks /\ Pending(s, t) /\ s.tasks[t].action = action /\ action \in Actions
    BY <2>1 DEF DeduplicationOK
  <2> QED BY <2>2, NamesDiffer
<1> DEFINE P == {<<t, k>>}
<1>2. <<t, k>> \in P /\ P \subseteq {<<t, k>>} /\ k \in InvocationKeys
  BY NamesDiffer
<1> HIDE DEF P
<1>3. Deduplicates(s, v, cl, t, k, P)
  BY <1>1, <1>2, DeduplicateOK
<1>4. Waited(v, cl, P, t, k) /\ Evolves(s, v, {}) /\ Quiet(s, v, {})
  BY <1>3 DEF Deduplicates, Waited
<1>5. Safe(v, u, cm)
  BY <1>2, <1>4, StartWaitingOK
<1> QED BY <1>4, <1>5, SafeTransitive

(* Execute() of an action that is not.  A handle is obtained first. *)
MoreHandles(s, h) ==
    /\ IsState(h)
    /\ h.classes = s.classes /\ h.created = s.created
    /\ h.inFlightDeduplicationMap = s.inFlightDeduplicationMap
    /\ h.drains = s.drains /\ h.handles = s.handles + 1 /\ h.panicked = s.panicked
    /\ h.tasks = s.tasks /\ h.workers = s.workers /\ h.inv = s.inv

LEMMA MoreHandlesOK ==
    ASSUME NEW s, NEW cl, SchedulerInv(s, cl), NEW h, MoreHandles(s, h), NEW n, n = 1
    PROVE  Halfway(h, {}, {}, n, cl, {}) /\ Evolves(s, h, {}) /\ Quiet(s, h, {})
<1> DEFINE X == {}
           m == 0
<1>1. StateOK(s) /\ Accounted(s, X, X) /\ WaitingOK(s, X) /\ HandlesOK(s, m) /\ RecordsOK(s, cl, X)
  BY DEF SchedulerInv, Halfway
<1>2. StateOK(h)
  BY <1>1 DEF MoreHandles, StateOK
<1>3. HandlesOK(h, n)
  <2>1. PendingTasks(h) = PendingTasks(s)
    BY DEF MoreHandles, PendingTasks, Pending
  <2>2. Cardinality(PendingTasks(s)) \in Nat
    BY <1>1, PendingTasksAreFinite
  <2> QED BY <1>1, <2>1, <2>2 DEF HandlesOK, MoreHandles
<1> HIDE DEF X
<1>4. SameWork(s, h)
  BY DEF SameWork, MoreHandles
<1>5. Accounted(h, X, X)
  BY <1>1, <1>4, SameWorkAccounts
<1>6. WaitingOK(h, X)
  BY <1>1, <1>4, SameWorkWaiting DEF MoreHandles
<1>7. DeduplicationOK(h) /\ LearnersOK(h)
  BY <1>1 DEF RecordsOK, DeduplicationOK, LearnersOK, MoreHandles, Pending
<1>8. ClientsOK(h, cl)
  BY <1>1 DEF RecordsOK, ClientsOK, MoreHandles
<1>9. OperationsOK(h, cl, X)
  <2>1. h.tasks = s.tasks
    BY DEF MoreHandles
  <2>2. SUFFICES ASSUME NEW t \in DOMAIN s.tasks, NEW k \in DOMAIN s.tasks[t].operations
                 PROVE  OperationFine(h, cl, X, t, k)
    BY <2>1 DEF OperationsOK
  <2>3. OperationFine(s, cl, X, t, k)
    BY <1>1 DEF RecordsOK, OperationsOK
  <2> QED BY <2>1, <2>3 DEF OperationFine, Pending
<1>10. Halfway(h, {}, {}, n, cl, {})
  BY <1>2, <1>3, <1>5, <1>6, <1>7, <1>8, <1>9 DEF Halfway, RecordsOK, X
<1>11. s.created \in Nat
  BY <1>1 DEF StateOK
<1>12. DOMAIN s.tasks \subseteq 1 .. s.created
  BY <1>1 DEF StateOK
<1>13. Evolves(s, h, {}) /\ Quiet(s, h, {})
  BY <1>11, <1>12 DEF Evolves, Quiet, MoreHandles, Pending
<1> QED BY <1>10, <1>13

LEMMA SelectIsOK ==
    ASSUME NEW s, StateOK(s), NEW action \in Actions, NEW choice \in Select(s.classes)
    PROVE  ChoiceOK(s, action, choice)
<1>1. s.classes \subseteq SizeClasses /\ Largest \in s.classes /\ Max(s.classes) = Largest
      /\ Largest \in SizeClasses
  BY LargestIsLargest DEF StateOK
<1>2. \/ choice = [class |-> Largest, learner |-> LargestLearner]
      \/ \E c \in s.classes : choice = [class |-> c, learner |-> [kind |-> "smaller", class |-> c]]
      \/ \E c \in s.classes : choice = [class |-> Largest,
                                        learner |-> [kind |-> "largestBackground", class |-> c]]
  BY <1>1 DEF Select
<1>3. CASE choice = [class |-> Largest, learner |-> LargestLearner]
  BY <1>1, <1>3, LargestLearnerIs DEF ChoiceOK
<1>4. CASE \E c \in s.classes : choice = [class |-> c, learner |-> [kind |-> "smaller", class |-> c]]
  BY <1>1, <1>4 DEF ChoiceOK, Learner
<1>5. CASE \E c \in s.classes : choice = [class |-> Largest,
                                          learner |-> [kind |-> "largestBackground", class |-> c]]
  BY <1>1, <1>5 DEF ChoiceOK, Learner
<1> QED BY <1>2, <1>3, <1>4, <1>5

CreatesTask(h, v, action, choice, k) == v = addTask(h, action, choice, k, FALSE)

LEMMA ExecuteNewOK ==
    ASSUME NEW s, NEW cl, SchedulerInv(s, cl), NEW action \in Actions,
           action \notin DOMAIN s.inFlightDeduplicationMap, NEW k \in Keys,
           NEW choice \in Select(s.classes), NEW h, MoreHandles(s, h),
           NEW v, CreatesTask(h, v, action, choice, k),
           NEW t, t = v.created, NEW x \in schedule(v, t),
           NEW c, NEW cm, StartsWaiting(cl, cm, c, t, k), NEW u, u = startWaiting(x, t, k)
    PROVE  Safe(s, u, cm)
<1> DEFINE n == 1
           m == 0
           y == s.created + 1
           P == {<<y, k>>}
           X == {}
           b == FALSE
<1>1. StateOK(s) /\ s.created \in Nat
  BY DEF SchedulerInv, Halfway, StateOK
<1>2. n = 1 /\ LessOne(n, m)
  BY DEF LessOne
<1>3. Halfway(h, {}, {}, n, cl, {}) /\ Evolves(s, h, {}) /\ Quiet(s, h, {})
  <2> HIDE DEF n
  <2> QED BY <1>2, MoreHandlesOK
<1>4. Halfway(h, X, X, n, cl, X) /\ X \subseteq P
  BY <1>3
<1>5. NextTask(h, y) /\ StateOK(h) /\ h.classes = s.classes
      /\ h.inFlightDeduplicationMap = s.inFlightDeduplicationMap
  BY <1>3 DEF NextTask, MoreHandles, Halfway
<1>6. ChoiceOK(h, action, choice)
  BY <1>5, SelectIsOK
<1>7. /\ X \subseteq DOMAIN h.tasks /\ action \notin DOMAIN h.inFlightDeduplicationMap
      /\ k \in InvocationKeys /\ b \in BOOLEAN /\ (b <=> action = None) /\ <<y, k>> \in P /\ ~b
  BY <1>5, NamesDiffer
<1>8. P = {<<y, k>>}
  OBVIOUS
<1>9. v = addTask(h, action, choice, k, b)
  BY DEF CreatesTask
<1> HIDE DEF n, m, y, P, X, b
<1>10. MayAdd(h, X, P, action, choice, k, b, y)
  BY <1>5, <1>6, <1>7 DEF MayAdd
<1>11. Halfway(h, X, X, n, cl, P)
  BY <1>4, MoreUnattended
<1>12. y = t
  <2>1. Halfway(h, X, {}, n, cl, P)
    BY <1>11 DEF X
  <2>2. TaskAdded(h, v, X, y, choice, k, action)
    BY <1>2, <1>9, <1>10, <2>1, AddTaskOK
  <2> QED BY <2>2 DEF TaskAdded, AddsTask
<1>13. Halfway(x, X, {}, m, cl, P) /\ Scheduled(h, x, y, action, k)
  <2>1. Halfway(h, X, {}, n, cl, P) /\ x \in schedule(v, y)
    BY <1>11, <1>12 DEF X
  <2> QED BY <1>2, <1>9, <1>10, <2>1, AddAndScheduleOK
<1>14. Evolves(h, x, {}) /\ Quiet(h, x, {})
  BY <1>5, <1>13, ScheduledEvolves
<1>15. Waited(x, cl, P, t, k) /\ P \subseteq {<<t, k>>}
  <2>1. Halfway(x, {}, {}, 0, cl, P)
    BY <1>13 DEF X, m
  <2>2. y \in DOMAIN x.tasks /\ x.tasks[y].action # None /\ k \in DOMAIN x.tasks[y].operations
    BY <1>13, NamesDiffer DEF Scheduled
  <2> QED BY <1>8, <1>12, <2>1, <2>2 DEF Waited
<1>16. Safe(x, u, cm)
  BY <1>15, StartWaitingOK
<1>17. Safe(h, u, cm)
  BY <1>14, <1>16, SafeTransitive
<1> QED BY <1>3, <1>17, SafeTransitive

-----------------------------------------------------------------------------
(* The actions of clients, of administrators, and those that happen with   *)
(* the passing of time.                                                    *)
Calls == SchedulerInv(bq, clients) /\ ClientsTyped(bq.created, clients) /\ wedged \in BOOLEAN

StepOK ==
    /\ Safe(bq, bq', clients')
    /\ ClientsTyped(bq'.created, clients')
    /\ wedged' \in BOOLEAN

LEMMA MoreClientsTyped ==
    ASSUME NEW n \in Nat, NEW m \in Nat, n <= m, NEW cl, ClientsTyped(n, cl)
    PROVE  ClientsTyped(m, cl)
<1>1. 1 .. n \subseteq 1 .. m
  OBVIOUS
<1>2. Client(n) \subseteq Client(m)
  BY <1>1 DEF Client
<1> QED BY <1>2 DEF ClientsTyped

LEMMA CleanUpOK ==
    ASSUME Calls, NEW s, CleanUp(s),
           SchedulerInv(s, clients) /\ Evolves(bq, s, {}) /\ Quiet(bq, s, {})
    PROVE  StepOK
<1>1. bq' = s /\ clients' = clients /\ wedged' = wedged
  BY DEF CleanUp
<1>2. Safe(bq, bq', clients')
  BY <1>1 DEF Safe
<1>3. bq.created \in Nat /\ s.created \in Nat /\ bq.created <= s.created
  BY DEF Evolves
<1>4. ClientsTyped(s.created, clients)
  BY <1>3, MoreClientsTyped DEF Calls
<1> QED BY <1>1, <1>2, <1>4 DEF StepOK, Calls

LEMMA OperationExpiresOK ==
    ASSUME Calls, OperationExpires
    PROVE  StepOK
<1>0. PICK t \in DOMAIN bq.tasks : \E k \in OperationKeys(bq, t) :
        bq.tasks[t].operations[k].cleanup /\ CleanUp(remove(bq, t, k))
  BY DEF OperationExpires
<1>1. PICK k \in DOMAIN bq.tasks[t].operations :
        bq.tasks[t].operations[k].cleanup /\ CleanUp(remove(bq, t, k))
  BY <1>0 DEF OperationKeys
<1> DEFINE s == remove(bq, t, k)
<1>2. CleanUp(s) /\ s = remove(bq, t, k)
  BY <1>1
<1> HIDE DEF s
<1>3. SchedulerInv(s, clients) /\ Evolves(bq, s, {}) /\ Quiet(bq, s, {})
  BY <1>1, <1>2, RemoveOK DEF Calls
<1> QED BY <1>2, <1>3, CleanUpOK

LEMMA WorkerExpiresOK ==
    ASSUME Calls, NEW w, WorkerExpires(w)
    PROVE  StepOK
<1> DEFINE s == removeStaleWorker(bq, w)
<1>1. CleanUp(s) /\ s = removeStaleWorker(bq, w) /\ w \in DOMAIN bq.workers
      /\ bq.workers[w].wait = "no"
  BY DEF WorkerExpires
<1> HIDE DEF s
<1>2. SchedulerInv(s, clients) /\ Evolves(bq, s, {}) /\ Quiet(bq, s, {})
  BY <1>1, RemoveStaleWorkerOK DEF Calls
<1> QED BY <1>1, <1>2, CleanUpOK

LEMMA SizeClassQueueExpiresOK ==
    ASSUME Calls, SizeClassQueueExpires
    PROVE  StepOK
<1>1. PICK c \in bq.classes \ {Largest} :
        WorkersOf(bq, c) = {} /\ CleanUp(removeSizeClassQueue(bq, c))
  BY DEF SizeClassQueueExpires
<1> DEFINE s == removeSizeClassQueue(bq, c)
<1>2. CleanUp(s) /\ s = removeSizeClassQueue(bq, c)
  BY <1>1
<1> HIDE DEF s
<1>3. SchedulerInv(s, clients) /\ Evolves(bq, s, {}) /\ Quiet(bq, s, {})
  BY <1>1, <1>2, RemoveSizeClassQueueOK DEF Calls
<1> QED BY <1>2, <1>3, CleanUpOK

LEMMA KillOperationOK ==
    ASSUME Calls, KillOperation
    PROVE  StepOK
<1>1. PICK t \in DOMAIN bq.tasks : CleanUp(fail(bq, t, FALSE))
  BY DEF KillOperation
<1> DEFINE b == FALSE
           s == fail(bq, t, b)
<1>2. CleanUp(s) /\ s = fail(bq, t, b)
  BY <1>1
<1> HIDE DEF s, b
<1>3. SchedulerInv(s, clients) /\ Fails(bq, s, t)
  BY <1>1, <1>2, FailInv DEF Calls
<1>4. bq.created \in Nat /\ t # None
  BY <1>1, NamesDiffer DEF Calls, SchedulerInv, Halfway, StateOK
<1>5. Evolves(bq, s, {}) /\ Quiet(bq, s, {})
  BY <1>1, <1>3, <1>4, FailEvolves
<1> QED BY <1>2, <1>3, <1>5, CleanUpOK

LEMMA KillOperationsWithoutWorkersOK ==
    ASSUME Calls, KillOperationsWithoutWorkers
    PROVE  StepOK
<1>1. PICK c \in bq.classes : CleanUp(failAllQueuedOperations(bq, c))
  BY DEF KillOperationsWithoutWorkers
<1> DEFINE s == failAllQueuedOperations(bq, c)
<1>2. CleanUp(s) /\ s = failAllQueuedOperations(bq, c)
  BY <1>1
<1> HIDE DEF s
<1>3. SchedulerInv(s, clients) /\ Evolves(bq, s, {}) /\ Quiet(bq, s, {})
  BY <1>2, FailAllOK DEF Calls
<1> QED BY <1>2, <1>3, CleanUpOK

LEMMA DrainsOK ==
    ASSUME Calls, NEW w \in Workers, AddDrain(w) \/ RemoveDrain(w) \/ TerminateWorkers(w)
    PROVE  StepOK
<1>1. CASE AddDrain(w)
  <2> DEFINE s == wakeUpQueued([bq EXCEPT !.drains = @ \cup {w}], {w})
  <2>1. CleanUp(s)
    BY <1>1 DEF AddDrain
  <2>2. SchedulerInv(s, clients) /\ Evolves(bq, s, {}) /\ Quiet(bq, s, {})
    BY AddDrainOK DEF Calls
  <2> HIDE DEF s
  <2> QED BY <2>1, <2>2, CleanUpOK
<1>2. CASE RemoveDrain(w)
  <2> DEFINE s == [bq EXCEPT
                      !.drains = @ \ {w},
                      !.workers = [v \in DOMAIN @ |->
                          IF WorkerClass[v] = WorkerClass[w] /\ @[v].wait = "drained"
                          THEN [@[v] EXCEPT !.wait = "undrained"] ELSE @[v]]]
  <2>1. CleanUp(s)
    BY <1>2 DEF RemoveDrain
  <2>2. SchedulerInv(s, clients) /\ Evolves(bq, s, {}) /\ Quiet(bq, s, {})
    BY RemoveDrainOK DEF Calls
  <2> HIDE DEF s
  <2> QED BY <2>1, <2>2, CleanUpOK
<1>3. CASE TerminateWorkers(w)
  <2> DEFINE s == wakeUpQueued([bq EXCEPT !.workers[w].terminating = TRUE], {w})
  <2>1. CleanUp(s) /\ w \in DOMAIN bq.workers
    BY <1>3 DEF TerminateWorkers
  <2>2. SchedulerInv(s, clients) /\ Evolves(bq, s, {}) /\ Quiet(bq, s, {})
    BY <2>1, TerminateOK DEF Calls
  <2> HIDE DEF s
  <2> QED BY <2>1, <2>2, CleanUpOK
<1> QED BY <1>1, <1>2, <1>3

(* A client that starts to wait. *)
LEMMA WaitIs ==
    ASSUME Calls, NEW c \in Clients, clients[c].call = "none", NEW s, NEW t, NEW k \in Keys,
           Wait(c, s, t, k)
    PROVE  /\ bq' = startWaiting(s, t, k) /\ StartsWaiting(clients, clients', c, t, k)
           /\ SchedulerInv(bq', clients') /\ bq'.created \in Nat /\ bq.created \in Nat
                 /\ bq.created <= bq'.created
                 => ClientsTyped(bq'.created, clients')
<1> DEFINE x == clients[c]
           y == [x EXCEPT !.call = "waiting", !.task = t, !.key = k]
<1>1. x \in Client(bq.created) /\ clients \in [Clients -> Client(bq.created)]
  BY DEF Calls, ClientsTyped
<1>2. clients' = [clients EXCEPT ![c] = y] /\ bq' = startWaiting(s, t, k)
  BY DEF Wait
<1> HIDE DEF x
<1>3. y.call = "waiting" /\ y.task = t /\ y.key = k
      /\ y = [f \in {"call", "task", "key"} |-> y[f]]
  <2>1. x = [f \in {"call", "task", "key"} |-> x[f]]
    BY <1>1 DEF Client
  <2>2. y.call = "waiting" /\ y.task = t /\ y.key = k
    BY <2>1
  <2>3. y = [f \in {"call", "task", "key"} |-> y[f]]
    BY <2>1
  <2> QED BY <2>2, <2>3
<1> HIDE DEF y
<1>4. clients'[c] = y /\ (\A d \in Clients \ {c} : clients'[d] = clients[d])
      /\ DOMAIN clients' = Clients /\ clients' = [d \in Clients |-> clients'[d]]
  BY <1>1, <1>2
<1>5. clients[c].call # "waiting" /\ y.call = "waiting" /\ y.task = t /\ y.key = k
  BY <1>3
<1>6. StartsWaiting(clients, clients', c, t, k)
  BY <1>4, <1>5 DEF StartsWaiting, OthersWait
<1>7. ASSUME SchedulerInv(bq', clients'), bq'.created \in Nat, bq.created \in Nat,
             bq.created <= bq'.created
      PROVE  ClientsTyped(bq'.created, clients')
  <2>1. t \in DOMAIN bq'.tasks
    BY <1>4, <1>5, <1>7 DEF SchedulerInv, Halfway, RecordsOK, ClientsOK
  <2>2. t \in 1 .. bq'.created
    BY <1>7, <2>1 DEF SchedulerInv, Halfway, StateOK
  <2>3. y \in Client(bq'.created)
    BY <1>3, <2>2, NamesDiffer DEF Client
  <2>4. ClientsTyped(bq'.created, clients)
    BY <1>7, MoreClientsTyped DEF Calls
  <2>5. \A d \in Clients : clients'[d] \in Client(bq'.created)
    BY <1>4, <2>3, <2>4 DEF ClientsTyped
  <2> QED BY <1>4, <2>5 DEF ClientsTyped
<1> QED BY <1>2, <1>6, <1>7

LEMMA WaitOK ==
    ASSUME Calls, NEW c \in Clients, clients[c].call = "none", NEW s, NEW t, NEW k \in Keys,
           Wait(c, s, t, k), Safe(bq, bq', clients'), wedged' = wedged
    PROVE  StepOK
<1>1. /\ SchedulerInv(bq', clients') /\ bq'.created \in Nat /\ bq.created \in Nat
      /\ bq.created <= bq'.created
  BY DEF Safe, Evolves
<1>2. ClientsTyped(bq'.created, clients')
  BY <1>1, WaitIs
<1> QED BY <1>2 DEF StepOK, Calls

LEMMA ExecuteDeduplicatedStep ==
    ASSUME Calls, NEW c \in Clients, NEW action \in Actions, NEW k \in Keys,
           ExecuteDeduplicated(c, action, k)
    PROVE  StepOK
<1> DEFINE t == bq.inFlightDeduplicationMap[action]
           v == deduplicate(bq, t, k)
<1>1. /\ clients[c].call = "none" /\ action \in DOMAIN bq.inFlightDeduplicationMap
      /\ Wait(c, v, t, k) /\ wedged' = wedged /\ SchedulerInv(bq, clients)
  BY DEF ExecuteDeduplicated, Calls
<1>2. t = bq.inFlightDeduplicationMap[action] /\ v = deduplicate(bq, t, k)
  OBVIOUS
<1> HIDE DEF t, v
<1>3. bq' = startWaiting(v, t, k) /\ StartsWaiting(clients, clients', c, t, k)
  BY <1>1, WaitIs
<1>4. Safe(bq, bq', clients')
  BY <1>1, <1>2, <1>3, ExecuteDeduplicatedOK
<1> QED BY <1>1, <1>4, WaitOK

LEMMA ExecuteNewStep ==
    ASSUME Calls, NEW c \in Clients, NEW action \in Actions, NEW k \in Keys,
           ExecuteNew(c, action, k)
    PROVE  StepOK
<1> DEFINE h == [bq EXCEPT !.handles = @ + 1]
<1>1. /\ clients[c].call = "none" /\ action \notin DOMAIN bq.inFlightDeduplicationMap
      /\ wedged' = wedged /\ SchedulerInv(bq, clients)
  BY DEF ExecuteNew, Calls
<1>2. PICK choice \in Select(bq.classes) :
         \E u \in schedule(addTask(h, action, choice, k, FALSE),
                           addTask(h, action, choice, k, FALSE).created) :
            Wait(c, u, addTask(h, action, choice, k, FALSE).created, k)
  BY DEF ExecuteNew
<1> DEFINE v == addTask(h, action, choice, k, FALSE)
           t == v.created
<1>3. PICK u \in schedule(v, t) : Wait(c, u, t, k)
  BY <1>2
<1>4. CreatesTask(h, v, action, choice, k) /\ t = v.created
  BY DEF CreatesTask
<1>5. IsState(bq)
  BY DEF Calls, SchedulerInv, Halfway, StateOK
<1>6. MoreHandles(bq, h)
  BY <1>5 DEF MoreHandles, IsState, Fields
<1> HIDE DEF h, v, t
<1>7. bq' = startWaiting(u, t, k) /\ StartsWaiting(clients, clients', c, t, k)
  BY <1>1, <1>3, WaitIs
<1>8. Safe(bq, bq', clients')
  BY <1>1, <1>3, <1>4, <1>6, <1>7, ExecuteNewOK
<1> QED BY <1>1, <1>3, <1>8, WaitOK

(* A client that stops waiting. *)
LEMMA StopWaitingStep ==
    ASSUME Calls, NEW c \in Clients, NEW y \in Client(bq.created), clients[c].call = "waiting",
           y.call # "waiting",
           clients' = [clients EXCEPT ![c] = y], wedged' = wedged,
           bq' = stopWaiting(bq, clients[c].task, clients[c].key)
    PROVE  StepOK
<1> DEFINE t == clients[c].task
           k == clients[c].key
<1>1. /\ clients \in [Clients -> Client(bq.created)] /\ SchedulerInv(bq, clients)
      /\ bq.created \in Nat
  BY DEF Calls, ClientsTyped, SchedulerInv, Halfway, StateOK
<1>2. clients'[c] = y /\ (\A d \in Clients \ {c} : clients'[d] = clients[d])
  BY <1>1
<1>3. StopsWaiting(clients, clients', c, t, k) /\ bq' = stopWaiting(bq, t, k)
  BY <1>2 DEF StopsWaiting, OthersWait
<1> HIDE DEF t, k
<1>4. Safe(bq, bq', clients')
  BY <1>1, <1>3, StopWaitingOK
<1>5. bq'.created \in Nat /\ bq.created <= bq'.created
  BY <1>4 DEF Safe, Evolves
<1>6. ClientsTyped(bq.created, clients')
  BY <1>1 DEF ClientsTyped
<1>7. ClientsTyped(bq'.created, clients')
  BY <1>1, <1>5, <1>6, MoreClientsTyped
<1> QED BY <1>4, <1>7 DEF StepOK, Calls

LEMMA WaitExecutionEndsOK ==
    ASSUME Calls, NEW c \in Clients, WaitExecutionCompletes(c) \/ WaitExecutionCanceled(c)
    PROVE  StepOK
<1>1. clients[c] \in Client(bq.created) /\ clients[c].call = "waiting" /\ wedged' = wedged
  BY DEF Calls, ClientsTyped, WaitExecutionCompletes, WaitExecutionCanceled
<1>2. bq' = stopWaiting(bq, clients[c].task, clients[c].key)
  BY DEF WaitExecutionCompletes, WaitExecutionCanceled
<1>3. \E y \in Client(bq.created) :
         y.call # "waiting" /\ clients' = [clients EXCEPT ![c] = y]
  <2>1. CASE WaitExecutionCompletes(c)
    <3> DEFINE y == [NewClient EXCEPT !.call = "returned"]
    <3>1. clients' = [clients EXCEPT ![c] = y]
      BY <2>1 DEF WaitExecutionCompletes
    <3>2. y \in Client(bq.created) /\ y.call # "waiting"
      BY NamesDiffer DEF NewClient, Client
    <3> HIDE DEF y
    <3> QED BY <3>1, <3>2
  <2>2. CASE WaitExecutionCanceled(c)
    <3> DEFINE x == clients[c]
               y == [x EXCEPT !.call = "canceled"]
    <3>1. clients' = [clients EXCEPT ![c] = y]
      BY <2>2 DEF WaitExecutionCanceled
    <3> HIDE DEF x
    <3>2. x \in Client(bq.created)
      BY <1>1 DEF x
    <3>3. y \in Client(bq.created) /\ y.call # "waiting"
      BY <3>2 DEF Client
    <3> HIDE DEF y
    <3> QED BY <3>1, <3>3
  <2> QED BY <2>1, <2>2
<1> QED BY <1>1, <1>2, <1>3, StopWaitingStep

(* A client that reattaches to its operation. *)
LEMMA WaitExecutionOK ==
    ASSUME Calls, NEW c \in Clients, WaitExecution(c)
    PROVE  StepOK
<1> DEFINE x == clients[c]
           e == x.task \in DOMAIN bq.tasks /\ x.key \in DOMAIN bq.tasks[x.task].operations
           y == IF e THEN [x EXCEPT !.call = "reattaching"] ELSE [NewClient EXCEPT !.call = "returned"]
<1>1. /\ clients \in [Clients -> Client(bq.created)] /\ x \in Client(bq.created)
      /\ x.call = "canceled" /\ bq' = bq /\ wedged' \in BOOLEAN /\ SchedulerInv(bq, clients)
  BY DEF Calls, ClientsTyped, WaitExecution
<1>2. clients' = [clients EXCEPT ![c] = y]
  BY DEF WaitExecution
<1> HIDE DEF x, e
<1>3. y \in Client(bq.created) /\ y.call # "waiting"
  BY <1>1, NamesDiffer DEF Client, NewClient
<1> HIDE DEF y
<1>4. clients'[c] = y /\ (\A d \in Clients \ {c} : clients'[d] = clients[d])
      /\ ClientsTyped(bq.created, clients')
  BY <1>1, <1>2, <1>3 DEF ClientsTyped
<1>5. clients[c].call # "waiting" /\ clients'[c].call # "waiting"
  BY <1>1, <1>3, <1>4 DEF x
<1>6. \A t, k : Waiters(clients', t, k) = Waiters(clients, t, k)
  BY <1>4, <1>5 DEF Waiters
<1>7. SchedulerInv(bq, clients')
  <2> DEFINE P == {}
  <2>1. /\ StateOK(bq) /\ Accounted(bq, {}, {}) /\ WaitingOK(bq, {}) /\ HandlesOK(bq, 0)
        /\ DeduplicationOK(bq) /\ LearnersOK(bq) /\ ClientsOK(bq, clients)
        /\ OperationsOK(bq, clients, P)
    BY <1>1 DEF SchedulerInv, Halfway, RecordsOK
  <2>2. ClientsOK(bq, clients')
    BY <1>4, <1>5, <2>1 DEF ClientsOK
  <2>3. OperationsOK(bq, clients', P)
    <3> HIDE DEF P
    <3>1. SUFFICES ASSUME NEW t \in DOMAIN bq.tasks, NEW k \in DOMAIN bq.tasks[t].operations
                   PROVE  OperationFine(bq, clients', P, t, k)
      BY DEF OperationsOK
    <3>2. OperationFine(bq, clients, P, t, k)
      BY <2>1 DEF OperationsOK
    <3> QED BY <1>6, <3>2 DEF OperationFine
  <2> QED BY <2>1, <2>2, <2>3 DEF SchedulerInv, Halfway, RecordsOK
<1>8. bq.created \in Nat
  BY <1>1 DEF SchedulerInv, Halfway, StateOK
<1>9. Evolves(bq, bq, {}) /\ Quiet(bq, bq, {})
  BY <1>8 DEF Evolves, Quiet
<1> QED BY <1>1, <1>4, <1>7, <1>9 DEF StepOK, Safe

(* The actions that do not involve a worker process. *)
LEMMA SchedulerStep ==
    ASSUME Calls, ClientNext \/ ExpiryNext \/ ManagementNext
    PROVE  StepOK
<1>1. CASE ClientNext
  BY <1>1, ExecuteDeduplicatedStep, ExecuteNewStep, WaitExecutionEndsOK, WaitExecutionOK
     DEF ClientNext
<1>2. CASE ExpiryNext
  BY <1>2, OperationExpiresOK, SizeClassQueueExpiresOK DEF ExpiryNext
<1>3. CASE ManagementNext
  BY <1>3, WaitExecutionEndsOK, KillOperationOK, KillOperationsWithoutWorkersOK, DrainsOK,
     WorkerExpiresOK DEF ManagementNext
<1> QED BY <1>1, <1>2, <1>3

-----------------------------------------------------------------------------
(* The worker processes. *)
LEMMA MoreProcesses ==
    ASSUME NEW n \in Nat, NEW m \in Nat, n <= m
    PROVE  Process(n) \subseteq Process(m)
<1>1. 1 .. n \subseteq 1 .. m
  OBVIOUS
<1> QED BY <1>1 DEF Process

LEMMA ExecutionContinues ==
    ASSUME NEW s, NEW u, NEW T, Evolves(s, u, T), NEW w \in Workers, NEW p,
           StateOK(u), MayExecute(s, p, w), p.task \notin T
    PROVE  MayExecute(u, p, w)
<1>1. SUFFICES ASSUME p.state = "executing"
               PROVE  p.task \in 1 .. u.created /\ HeldBy(u, p.task, w)
  BY DEF MayExecute
<1>2. p.task \in 1 .. s.created /\ HeldBy(s, p.task, w)
  BY <1>1 DEF MayExecute
<1>3. s.created \in Nat /\ u.created \in Nat /\ s.created <= u.created
  BY DEF Evolves
<1>4. ASSUME p.task \in DOMAIN u.tasks, Pending(u, p.task)
      PROVE  u.tasks[p.task].worker = w
  <2>1. /\ p.task \in DOMAIN s.tasks /\ Pending(s, p.task)
        /\ s.tasks[p.task].worker # None => u.tasks[p.task].worker = s.tasks[p.task].worker
    BY <1>2, <1>4 DEF Evolves
  <2>2. s.tasks[p.task].worker = w
    BY <1>2, <2>1 DEF HeldBy
  <2> QED BY <2>1, <2>2, NamesDiffer
<1> QED BY <1>2, <1>3, <1>4 DEF HeldBy

LEMMA OthersContinue ==
    ASSUME NEW s, NEW u, NEW T, Evolves(s, u, T), NEW w \in Workers, GivesUp(s, T, w),
           Quiet(s, u, {w}), StateOK(u), NEW v \in Workers \ {w}, NEW p,
           MayExecute(s, p, v), MayTerminateSafely(s, p, v)
    PROVE  MayExecute(u, p, v) /\ MayTerminateSafely(u, p, v)
<1>1. p.state = "executing" => p.task \notin T
  BY DEF MayExecute, HeldBy, GivesUp
<1>2. MayExecute(u, p, v)
  <2>1. CASE p.state = "executing"
    BY <1>1, <2>1, ExecutionContinues
  <2>2. CASE p.state # "executing"
    BY <2>2 DEF MayExecute
  <2> QED BY <2>1, <2>2
<1>3. MayTerminateSafely(u, p, v)
  BY DEF MayTerminateSafely, Quiet
<1> QED BY <1>2, <1>3

LEMMA ProcessStep ==
    ASSUME Processes, NEW w \in Workers, NEW q, procs' = [procs EXCEPT ![w] = q],
           NEW T, Evolves(bq, bq', T), Quiet(bq, bq', {w}), GivesUp(bq, T, w),
           StateOK(bq'), GoodStep(bq', procs[w], q, w, belated, belated')
    PROVE  Processes'
<1>1. procs \in [Workers -> Process(bq.created)]
  BY DEF Processes, ProcsTyped
<1>2. bq.created \in Nat /\ bq'.created \in Nat /\ bq.created <= bq'.created
  BY DEF Evolves
<1>3. Process(bq.created) \subseteq Process(bq'.created)
  BY <1>2, MoreProcesses
<1>4. procs'[w] = q /\ \A v \in Workers \ {w} : procs'[v] = procs[v]
  BY <1>1
<1>5. ProcsTyped(bq'.created, procs')
  BY <1>1, <1>3 DEF ProcsTyped, GoodStep
<1>6. /\ belated' \subseteq Workers
      /\ \A v \in Workers \ {w} : v \in belated <=> v \in belated'
      /\ w \notin belated' => GoodProcess(bq', procs[w], q, w, belated)
  BY DEF GoodStep
<1>7. ASSUME NEW v \in Workers \ belated'
      PROVE  MayExecute(bq', procs'[v], v) /\ MayTerminateSafely(bq', procs'[v], v)
  <2>1. CASE v = w
    BY <1>4, <1>6, <2>1 DEF GoodProcess
  <2>2. CASE v # w
    <3>1. MayExecute(bq, procs[v], v) /\ MayTerminateSafely(bq, procs[v], v)
      BY <1>6, <2>2 DEF Processes, ProcessesOK
    <3> QED BY <1>4, <2>2, <3>1, OthersContinue
  <2> QED BY <2>1, <2>2
<1>8. NoDuplicateExecution'
  <2>1. ASSUME NEW v \in Workers \ {w}, v \notin belated', w \notin belated',
               procs[v].state = "executing", q.state = "executing", procs[v].task = q.task
        PROVE  FALSE
    <3>1. CASE KeepsExecuting(procs[w], q, w, belated)
      BY <1>6, <2>1, <3>1 DEF Processes, NoDuplicateExecution, KeepsExecuting
    <3>2. CASE AssignedTo(bq', q.task, w)
      <4>1. MayExecute(bq', procs[v], v)
        BY <1>4, <1>7, <2>1
      <4> QED BY <2>1, <3>2, <4>1 DEF MayExecute, HeldBy, AssignedTo
    <3> QED BY <1>6, <2>1, <3>1, <3>2 DEF GoodProcess
  <2>2. \A v, x \in Workers \ belated' : v # w /\ x # w /\ v # x
              /\ procs[v].state = "executing"
              /\ procs[x].state = "executing" => procs[v].task # procs[x].task
    BY <1>6 DEF Processes, NoDuplicateExecution
  <2> QED BY <1>4, <2>1, <2>2 DEF NoDuplicateExecution
<1>9. ProcessesOK(bq', procs', belated')
  BY <1>7 DEF ProcessesOK
<1> QED BY <1>5, <1>6, <1>8, <1>9 DEF Processes

LEMMA ProcessesStay ==
    ASSUME Processes, UNCHANGED <<procs, belated>>, Evolves(bq, bq', {}), Quiet(bq, bq', {}),
           StateOK(bq')
    PROVE  Processes'
<1> DEFINE T == {}
<1>1. Evolves(bq, bq', T) /\ (\A t : t \notin T)
  OBVIOUS
<1> HIDE DEF T
<1>2. bq.created \in Nat /\ bq'.created \in Nat /\ bq.created <= bq'.created
  BY DEF Evolves
<1>3. Process(bq.created) \subseteq Process(bq'.created)
  BY <1>2, MoreProcesses
<1>4. ProcsTyped(bq'.created, procs')
  BY <1>3 DEF Processes, ProcsTyped
<1>5. ASSUME NEW w \in Workers \ belated
      PROVE  MayExecute(bq', procs[w], w) /\ MayTerminateSafely(bq', procs[w], w)
  <2>1. MayExecute(bq, procs[w], w) /\ MayTerminateSafely(bq, procs[w], w)
    BY DEF Processes, ProcessesOK
  <2>2. MayExecute(bq', procs[w], w)
    BY <1>1, <2>1, ExecutionContinues
  <2>3. MayTerminateSafely(bq', procs[w], w)
    BY <2>1 DEF MayTerminateSafely, Quiet
  <2> QED BY <2>2, <2>3
<1>6. ProcessesOK(bq', procs', belated')
  BY <1>5 DEF ProcessesOK
<1> QED BY <1>4, <1>6 DEF Processes, NoDuplicateExecution

(* The fields of a process that is in state p, and what it reports. *)
LEMMA ProgressOK ==
    ASSUME NEW n, NEW r \in Process(n), NEW p \in W!Progress(r)
    PROVE  /\ p \in Process(n) /\ p.calling = r.calling
           /\ p.schedulerMayThinkExecuting = r.schedulerMayThinkExecuting
           /\ p.state = "executing" => p = r
<1>1. CASE p = r
  BY <1>1
<1>2. CASE p = [r EXCEPT !.state = "rejected"]
  BY <1>2 DEF Process
<1>3. ASSUME NEW ok \in BOOLEAN, p = [r EXCEPT !.state = "completed", !.succeeded = ok]
      PROVE  /\ p \in Process(n) /\ p.calling = r.calling
             /\ p.schedulerMayThinkExecuting = r.schedulerMayThinkExecuting
             /\ p.state = "completed"
  BY <1>3 DEF Process
<1>4. \/ p = r \/ p = [r EXCEPT !.state = "rejected"]
      \/ \E ok \in BOOLEAN : p = [r EXCEPT !.state = "completed", !.succeeded = ok]
  BY DEF W!Progress
<1> QED BY <1>1, <1>2, <1>3, <1>4

LEMMA RequestOfOK ==
    ASSUME NEW n, NEW p \in Process(n), NEW w,
           NEW request, request = W!RequestOf(p, WorkerClass[w] = Largest)
    PROVE  RequestOK(w, request) /\ request.state = p.state /\ request.task = p.task
<1>1. /\ request.state = p.state /\ request.task = p.task /\ request.succeeded = p.succeeded
      /\ request.event = (p.succeeded \/ WorkerClass[w] = Largest)
      /\ request.preferBeingIdle = W!PreferBeingIdle(p)
  BY DEF W!RequestOf, W!CompletionEvent
<1>2. W!PreferBeingIdle(p) \in BOOLEAN
  BY DEF W!PreferBeingIdle
<1>3. p.state \in {"idle", "executing", "completed", "rejected"} /\ p.succeeded \in BOOLEAN
  BY DEF Process
<1> QED BY <1>1, <1>2, <1>3 DEF RequestOK

(* A call fails. *)
LEMMA FailureOK ==
    ASSUME NEW n, NEW p \in Process(n), NEW q, q = W!Failure(p)
    PROVE  /\ q \in Process(n) /\ q.state = p.state /\ q.task = p.task
           /\ q.calling = FALSE /\ q.schedulerMayThinkExecuting = TRUE
BY DEF Process, W!Failure

LEMMA FailureIsGood ==
    ASSUME NEW u, NEW p \in Process(u.created), NEW w, NEW r, NEW B, B \subseteq Workers,
           w \notin B => MayExecute(u, p, w),
           p.state = "executing" => p = r, NEW q, q = W!Failure(p)
    PROVE  GoodStep(u, r, q, w, B, B)
<1>1. /\ q \in Process(u.created) /\ q.state = p.state /\ q.task = p.task
      /\ q.schedulerMayThinkExecuting = TRUE
  BY FailureOK, ZenonT(60)
<1>2. ASSUME w \notin B
      PROVE  GoodProcess(u, r, q, w, B)
  BY <1>1, <1>2 DEF GoodProcess, KeepsExecuting, MayExecute, MayTerminateSafely
<1> QED BY <1>1, <1>2 DEF GoodStep

(* A response arrives. *)
LEMMA ApplyIdle ==
    ASSUME NEW n, NEW p \in Process(n), NEW q \in W!Apply(p, Idle)
    PROVE  q.state = "idle" /\ q \in Process(n)
<1> DEFINE r == W!stopExecution(p)
<1>1. q = [r EXCEPT !.calling = FALSE, !.synchronized = TRUE,
                    !.schedulerMayThinkExecuting = FALSE]
  BY DEF Idle, W!Apply
<1>2. r \in Process(n) /\ r.state = "idle"
  BY DEF Process, W!stopExecution
<1> HIDE DEF r
<1> QED BY <1>1, <1>2 DEF Process

LEMMA ApplyBlocked ==
    ASSUME NEW n, NEW p \in Process(n), NEW q \in W!Apply(p, Blocked)
    PROVE  q \in Process(n) /\ q.calling = TRUE /\ q.state = p.state /\ q.task = p.task
<1>1. q = [p EXCEPT !.calling = TRUE]
  BY DEF Blocked, W!Apply
<1> QED BY <1>1 DEF Process

LEMMA ApplyError ==
    ASSUME NEW p, NEW q \in W!Apply(p, AlreadySynchronizing)
    PROVE  q = W!Failure(p)
BY DEF AlreadySynchronizing, W!Apply

LEMMA ApplyContinue ==
    ASSUME NEW n, NEW p \in Process(n), NEW q \in W!Apply(p, Continue), p.state = "executing"
    PROVE  /\ q \in Process(n) /\ q.state = p.state /\ q.task = p.task
           /\ q.schedulerMayThinkExecuting
<1>1. q = [p EXCEPT !.synchronized = TRUE,
                    !.schedulerMayThinkExecuting = (p.state = "executing")]
  BY DEF Continue, W!Apply
<1> QED BY <1>1 DEF Process

LEMMA ApplyExecuting ==
    ASSUME NEW n, NEW p \in Process(n), NEW t \in 1 .. n, NEW q \in W!Apply(p, Executing(t))
    PROVE  q \in Process(n) /\ q.task = t /\ q.schedulerMayThinkExecuting
<1> DEFINE r == W!stopExecution(p)
<1>1. PICK x \in W!startExecution(p, t) :
        q = [x EXCEPT !.calling = FALSE, !.synchronized = TRUE,
                      !.schedulerMayThinkExecuting = TRUE]
  BY DEF Executing, W!Apply
<1>2. r \in Process(n)
  BY DEF Process, W!stopExecution
<1>3. PICK st \in {"executing", "rejected"} : x = [r EXCEPT !.state = st, !.task = t]
  BY <1>1 DEF W!startExecution
<1> HIDE DEF r
<1>4. x \in Process(n) /\ x.task = t
  BY <1>2, <1>3 DEF Process
<1> QED BY <1>1, <1>4 DEF Process

LEMMA ResponsesDiffer ==
    ASSUME NEW B, NEW w, NEW t
    PROVE  /\ Excepted(B, w, Blocked) = B /\ Excepted(B, w, AlreadySynchronizing) = B
           /\ Excepted(B, w, Idle) = B \ {w} /\ Excepted(B, w, Continue) = B \ {w}
           /\ Excepted(B, w, Executing(t)) = B \ {w}
<1>1. /\ Blocked.kind = "blocked" /\ AlreadySynchronizing.kind = "error"
      /\ Idle.kind = "idle" /\ Continue.kind = "continue" /\ Executing(t).kind = "executing"
  BY DEF Blocked, AlreadySynchronizing, Idle, Continue, Executing
<1> QED BY <1>1 DEF Excepted

LEMMA AnswerIsGood ==
    ASSUME NEW u, NEW p, NEW q \in Process(u.created), NEW w, NEW B, B \subseteq Workers,
           GoodProcess(u, p, q, w, B)
    PROVE  GoodStep(u, p, q, w, B, B \ {w})
BY DEF GoodStep

LEMMA ResponseIsGood ==
    ASSUME NEW s, NEW o, NEW w \in Workers, NEW request, NEW T, Responds(s, o, w, request, T),
           NEW r, NEW p \in Process(s.created), NEW B, B \subseteq Workers,
           w \notin B => MayExecute(s, p, w),
           p.state = "executing" => p = r, request.state = p.state, request.task = p.task,
           StateOK(o.bq), WorkersOK(o.bq), NEW q \in W!Apply(p, o.response)
    PROVE  GoodStep(o.bq, r, q, w, B, Excepted(B, w, o.response))
<1> DEFINE u == o.bq
           n == u.created
           x == o.response
<1>1. /\ Evolves(s, u, T) /\ w \in DOMAIN u.workers
      /\ \A t \in T : request.state = "completed"
      /\ \/ x = Idle /\ u.workers[w].task = None /\ u.workers[w].wait = "no"
         \/ u.workers[w].task # None /\ x = Executing(u.workers[w].task)
         \/ x = Blocked
         \/ /\ x = Continue /\ request.state = "executing"
            /\ u.workers[w].task # None /\ u.workers[w].task = request.task
         \/ x = AlreadySynchronizing
  BY DEF Responds
<1>2. StateOK(u) /\ WorkersOK(u) /\ n = u.created /\ q \in W!Apply(p, x)
  OBVIOUS
<1> HIDE DEF u, n, x
<1>3. s.created \in Nat /\ n \in Nat /\ s.created <= n
  BY <1>1, <1>2 DEF Evolves
<1>4. p \in Process(n)
  BY <1>3, MoreProcesses
<1>5. ASSUME w \notin B
      PROVE  MayExecute(u, p, w)
  <2>1. CASE p.state = "executing"
    <3>1. p.task \notin T
      BY <1>1, <2>1
    <3> QED BY <1>1, <1>2, <1>5, <3>1, ExecutionContinues
  <2>2. CASE p.state # "executing"
    BY <2>2 DEF MayExecute
  <2> QED BY <2>1, <2>2
<1>6. GoodStep(u, r, q, w, B, Excepted(B, w, x))
  <2>1. CASE x = Idle /\ u.workers[w].task = None /\ u.workers[w].wait = "no"
    <3>0. q \in W!Apply(p, Idle)
      BY <1>2, <2>1
    <3>1. q.state = "idle" /\ q \in Process(n)
      BY <1>4, <3>0, ApplyIdle
    <3>2. GoodProcess(u, r, q, w, B)
      BY <1>2, <2>1, <3>1 DEF GoodProcess, MayExecute, MayTerminateSafely
    <3>3. GoodStep(u, r, q, w, B, B \ {w})
      BY <1>2, <3>1, <3>2, AnswerIsGood
    <3>4. Excepted(B, w, x) = B \ {w}
      BY <2>1, ResponsesDiffer
    <3> QED BY <3>3, <3>4
  <2>2. CASE u.workers[w].task # None /\ x = Executing(u.workers[w].task)
    <3> DEFINE t == u.workers[w].task
    <3>1. t \in DOMAIN u.tasks /\ AssignedTo(u, t, w) /\ t # None /\ x = Executing(t)
      BY <1>1, <1>2, <2>2 DEF WorkersOK, AssignedTo
    <3>2. t \in 1 .. n
      BY <1>2, <3>1 DEF StateOK
    <3> HIDE DEF t
    <3>3. q \in Process(n) /\ q.task = t /\ q.schedulerMayThinkExecuting
      BY <1>2, <1>4, <3>1, <3>2, ApplyExecuting
    <3>4. HeldBy(u, t, w)
      BY <3>1 DEF HeldBy, AssignedTo
    <3>5. GoodProcess(u, r, q, w, B)
      BY <1>2, <3>1, <3>2, <3>3, <3>4 DEF GoodProcess, MayExecute, MayTerminateSafely
    <3>6. GoodStep(u, r, q, w, B, B \ {w})
      BY <1>2, <3>3, <3>5, AnswerIsGood
    <3>7. Excepted(B, w, x) = B \ {w}
      BY <3>1, ResponsesDiffer
    <3> QED BY <3>6, <3>7
  <2>3. CASE x = Blocked
    <3>0. q \in W!Apply(p, Blocked)
      BY <1>2, <2>3
    <3>1. q \in Process(n) /\ q.calling = TRUE /\ q.state = p.state /\ q.task = p.task
      BY <1>4, <3>0, ApplyBlocked, ZenonT(60)
    <3>2. ASSUME w \notin B
          PROVE  GoodProcess(u, r, q, w, B)
      BY <1>2, <1>5, <3>1, <3>2 DEF GoodProcess, KeepsExecuting, MayExecute, MayTerminateSafely
    <3>3. GoodStep(u, r, q, w, B, B)
      BY <1>2, <3>1, <3>2 DEF GoodStep
    <3> QED BY <2>3, <3>3, ResponsesDiffer
  <2>4. CASE /\ x = Continue /\ request.state = "executing"
             /\ u.workers[w].task # None /\ u.workers[w].task = request.task
    <3>0. q \in W!Apply(p, Continue)
      BY <1>2, <2>4
    <3>1. /\ q \in Process(n) /\ q.state = p.state /\ q.task = p.task
          /\ q.schedulerMayThinkExecuting
      BY <1>4, <2>4, <3>0, ApplyContinue
    <3>2. q.task \in DOMAIN u.tasks /\ AssignedTo(u, q.task, w)
      <4>1. u.workers[w].task # None /\ u.workers[w].task = q.task
        BY <2>4, <3>1
      <4>2. w \in DOMAIN u.workers /\ WorkersOK(u)
        BY <1>1, <1>2
      <4> QED BY <4>1, <4>2 DEF WorkersOK, AssignedTo
    <3>3. q.task \in 1 .. n /\ HeldBy(u, q.task, w)
      BY <1>2, <3>2 DEF StateOK, HeldBy, AssignedTo
    <3>4. GoodProcess(u, r, q, w, B)
      BY <1>2, <3>1, <3>2, <3>3 DEF GoodProcess, MayExecute, MayTerminateSafely
    <3>5. GoodStep(u, r, q, w, B, B \ {w})
      BY <1>2, <3>1, <3>4, AnswerIsGood
    <3>6. Excepted(B, w, x) = B \ {w}
      BY <2>4, ResponsesDiffer
    <3> QED BY <3>5, <3>6
  <2>5. CASE x = AlreadySynchronizing
    <3>0. q \in W!Apply(p, AlreadySynchronizing)
      BY <1>2, <2>5
    <3>1. q = W!Failure(p)
      BY <1>4, <3>0, ApplyError
    <3>2. GoodStep(u, r, q, w, B, B)
      BY <1>2, <1>4, <1>5, <3>1, FailureIsGood
    <3> QED BY <2>5, <3>2, ResponsesDiffer
  <2> QED BY <1>1, <2>1, <2>2, <2>3, <2>4, <2>5
<1> QED BY <1>6 DEF u, x

(* A request of worker w, which goes to state q, has outcome o. *)
LEMMA HandledOK ==
    ASSUME Everything, NEW w \in Workers, NEW o, SchedulerInv(o.bq, clients),
           NEW request, NEW T, Responds(bq, o, w, request, T),
           NEW q, bq' = o.bq, procs' = [procs EXCEPT ![w] = q], UNCHANGED <<clients, wedged>>,
           GoodStep(o.bq, procs[w], q, w, belated, belated'), RequestsOK(abandoned')
    PROVE  Everything'
<1>1. StateOK(o.bq)
  BY DEF SchedulerInv, Halfway
<1>2. Evolves(bq, o.bq, T) /\ Quiet(bq, o.bq, {w}) /\ GivesUp(bq, T, w)
  BY DEF Responds, GivesUp
<1>3. bq.created \in Nat /\ o.bq.created \in Nat /\ bq.created <= o.bq.created
  BY <1>2 DEF Evolves
<1>4. Processes'
  BY <1>1, <1>2, ProcessStep DEF Everything
<1>5. ClientsTyped(bq'.created, clients')
  BY <1>3, MoreClientsTyped DEF Everything
<1> QED BY <1>4, <1>5 DEF Everything

(* A call of worker w, which was in state r and is in state p, has outcome *)
(* o, and the worker goes to state q.                                      *)
LEMMA OutcomeOK ==
    ASSUME Everything, NEW w \in Workers, NEW o, SchedulerInv(o.bq, clients),
           NEW request, NEW T, Responds(bq, o, w, request, T),
           NEW p \in Process(bq.created), p.state = "executing" => p = procs[w],
           request.state = p.state, request.task = p.task, NEW q,
           \/ q \in W!Apply(p, o.response) /\ belated' = Excepted(belated, w, o.response)
           \/ q = W!Failure(p) /\ belated' = belated,
           bq' = o.bq, procs' = [procs EXCEPT ![w] = q], UNCHANGED <<clients, wedged, abandoned>>
    PROVE  Everything'
<1>1. StateOK(o.bq) /\ WorkersOK(o.bq)
  BY DEF SchedulerInv, Halfway, Accounted
<1>2. w \notin belated => MayExecute(bq, p, w)
  <2>1. w \notin belated => MayExecute(bq, procs[w], w)
    BY DEF Everything, Processes, ProcessesOK
  <2> QED BY <2>1 DEF MayExecute
<1>3. belated \subseteq Workers /\ RequestsOK(abandoned)
  BY DEF Everything, Processes
<1>4. Evolves(bq, o.bq, T) /\ \A t \in T : request.state = "completed"
  BY DEF Responds
<1>5. GoodStep(o.bq, procs[w], q, w, belated, belated')
  <2>1. CASE q \in W!Apply(p, o.response) /\ belated' = Excepted(belated, w, o.response)
    BY <1>1, <1>2, <1>3, <2>1, ResponseIsGood
  <2>2. CASE q = W!Failure(p) /\ belated' = belated
    <3>1. ASSUME w \notin belated
          PROVE  MayExecute(o.bq, p, w)
      <4>1. CASE p.state = "executing"
        <5>1. p.task \notin T
          BY <1>4, <4>1
        <5> QED BY <1>1, <1>2, <1>4, <3>1, <5>1, ExecutionContinues
      <4>2. CASE p.state # "executing"
        BY <4>2 DEF MayExecute
      <4> QED BY <4>1, <4>2
    <3>2. p \in Process(o.bq.created)
      <4>1. bq.created \in Nat /\ o.bq.created \in Nat /\ bq.created <= o.bq.created
        BY <1>4 DEF Evolves
      <4> QED BY <4>1, MoreProcesses
    <3> DEFINE u == o.bq
    <3>3. (w \notin belated => MayExecute(u, p, w)) /\ p \in Process(u.created)
      BY <3>1, <3>2
    <3> HIDE DEF u
    <3>4. GoodStep(u, procs[w], q, w, belated, belated)
      BY <1>3, <2>2, <3>3, FailureIsGood
    <3> QED BY <2>2, <3>4 DEF u
  <2> QED BY <2>1, <2>2
<1>6. RequestsOK(abandoned')
  BY <1>3
<1> QED BY <1>5, <1>6, HandledOK

LEMMA RunOK ==
    ASSUME Everything, NEW w \in Workers, Run(w) \/ RunLosesResponse(w)
    PROVE  Everything'
<1>1. procs \in [Workers -> Process(bq.created)]
  BY DEF Everything, Processes, ProcsTyped
<1> DEFINE Gets(p, o, q) ==
              \/ q \in W!Apply(p, o.response) /\ belated' = Excepted(belated, w, o.response)
              \/ q = W!Failure(p) /\ belated' = belated
<1>2. PICK p \in W!Progress(procs[w]) :
        \E o \in Synchronize(bq, w, W!RequestOf(p, WorkerClass[w] = Largest)) :
           /\ bq' = o.bq /\ UNCHANGED <<clients, wedged, abandoned>>
           /\ \E q : procs' = [procs EXCEPT ![w] = q] /\ Gets(p, o, q)
  <2>1. CASE Run(w)
    BY <2>1 DEF Run, Deliver, Excepted
  <2>2. CASE RunLosesResponse(w)
    BY <2>2 DEF RunLosesResponse
  <2> QED BY <2>1, <2>2
<1> DEFINE request == W!RequestOf(p, WorkerClass[w] = Largest)
<1>3. p \in Process(bq.created) /\ (p.state = "executing" => p = procs[w])
  BY <1>1, ProgressOK
<1>4. RequestOK(w, request) /\ request.state = p.state /\ request.task = p.task
  BY <1>3, RequestOfOK
<1>5. PICK o \in Synchronize(bq, w, request) :
           /\ bq' = o.bq /\ UNCHANGED <<clients, wedged, abandoned>>
           /\ \E q : procs' = [procs EXCEPT ![w] = q] /\ Gets(p, o, q)
  BY <1>2
<1> HIDE DEF request
<1>6. SchedulerInv(o.bq, clients) /\ \E T : Responds(bq, o, w, request, T)
  BY <1>4, SynchronizeOK DEF Everything
<1>7. PICK T : Responds(bq, o, w, request, T)
  BY <1>6
<1>8. PICK q : procs' = [procs EXCEPT ![w] = q] /\ Gets(p, o, q)
  BY <1>5
<1> QED BY <1>3, <1>4, <1>5, <1>6, <1>7, <1>8, OutcomeOK

(* A request that was given up on is handled. *)
LEMMA SynchronizeBelatedlyOK ==
    ASSUME Everything, NEW w \in Workers, SynchronizeBelatedly(w)
    PROVE  Everything'
<1>1. PICK request \in abandoned[w] :
        /\ \E o \in Synchronize(bq, w, request) : bq' = o.bq
        /\ abandoned' = [abandoned EXCEPT ![w] = @ \ {request}]
  BY DEF SynchronizeBelatedly
<1>2. PICK o \in Synchronize(bq, w, request) : bq' = o.bq
  BY <1>1
<1>3. belated' = belated \cup {w} /\ UNCHANGED <<clients, wedged, procs>>
  BY DEF SynchronizeBelatedly
<1>4. RequestsOK(abandoned) /\ RequestOK(w, request) /\ SchedulerInv(bq, clients)
  BY <1>1 DEF Everything, RequestsOK
<1>5. SchedulerInv(o.bq, clients) /\ \E T : Responds(bq, o, w, request, T)
  BY <1>2, <1>4, SynchronizeOK
<1>6. PICK T : Responds(bq, o, w, request, T)
  BY <1>5
<1>7. RequestsOK(abandoned')
  BY <1>1, <1>4 DEF RequestsOK
<1>8. procs[w] \in Process(bq.created) /\ procs = [procs EXCEPT ![w] = procs[w]]
  BY DEF Everything, Processes, ProcsTyped
<1>9. procs[w] \in Process(o.bq.created)
  <2>1. bq.created \in Nat /\ o.bq.created \in Nat /\ bq.created <= o.bq.created
    BY <1>6 DEF Responds, Evolves
  <2> QED BY <1>8, <2>1, MoreProcesses
<1>10. belated \subseteq Workers
  BY DEF Everything, Processes
<1>11. GoodStep(o.bq, procs[w], procs[w], w, belated, belated')
  BY <1>3, <1>9, <1>10 DEF GoodStep
<1>12. procs' = [procs EXCEPT ![w] = procs[w]] /\ UNCHANGED <<clients, wedged>>
  BY <1>3, <1>8
<1> QED BY <1>2, <1>5, <1>6, <1>7, <1>11, <1>12, HandledOK

(* A call that blocked returns. *)
LEMMA AnswerOK ==
    ASSUME Everything, NEW w \in Workers, NEW o, SchedulerInv(o.bq, clients),
           Answers(bq, o, w, {}), Deliver(w, procs[w], o)
    PROVE  Everything'
<1> DEFINE p == procs[w]
           request == W!RequestOf(p, TRUE)
           T == {}
<1>1. p \in Process(bq.created)
  BY DEF Everything, Processes, ProcsTyped
<1>2. PICK q \in W!Apply(p, o.response) : procs' = [procs EXCEPT ![w] = q]
  BY DEF Deliver
<1>3. /\ bq' = o.bq /\ UNCHANGED <<clients, wedged, abandoned>>
      /\ belated' = Excepted(belated, w, o.response)
  BY DEF Deliver, Excepted
<1>4. Responds(bq, o, w, request, T)
  BY AnswersResponds
<1>5. request.state = p.state /\ request.task = p.task
  BY DEF W!RequestOf
<1>6. p.state = "executing" => p = procs[w]
  OBVIOUS
<1> HIDE DEF p, request, T
<1> QED BY <1>1, <1>2, <1>3, <1>4, <1>5, <1>6, OutcomeOK

LEMMA ResumeOK ==
    ASSUME Everything, NEW w \in Workers, Resume(w) \/ Timeout(w)
    PROVE  Everything'
<1>1. w \in DOMAIN bq.workers /\ bq.workers[w].wait # "no" /\ SchedulerInv(bq, clients)
  BY DEF Resume, Timeout, Blocking, Everything
<1>2. CASE Resume(w)
  <2>1. PICK o \in resumeAfterWakeup(bq, w) : Deliver(w, procs[w], o)
    BY <1>2 DEF Resume
  <2>2. bq.workers[w].wait \in {"woken", "undrained"}
    BY <1>2 DEF Resume
  <2>3. SchedulerInv(o.bq, clients) /\ Answers(bq, o, w, {})
    BY <1>1, <2>2, ResumeAfterWakeupOK
  <2> QED BY <2>1, <2>3, AnswerOK
<1>3. CASE Timeout(w)
  <2> DEFINE o == resumeAfterTimeout(bq, w)
  <2>1. Deliver(w, procs[w], o) /\ o = resumeAfterTimeout(bq, w)
    BY <1>3 DEF Timeout
  <2> HIDE DEF o
  <2>2. SchedulerInv(o.bq, clients) /\ Answers(bq, o, w, {})
    BY <1>1, <2>1, ResumeAfterTimeoutOK
  <2> QED BY <2>1, <2>2, AnswerOK
<1> QED BY <1>2, <1>3

(* A call that blocked is canceled. *)
LEMMA CancelStep ==
    ASSUME Everything, NEW w \in Workers, Cancel(w)
    PROVE  Everything'
<1> DEFINE u == [bq EXCEPT !.workers[w].wait = "no"]
           T == {}
<1>1. /\ w \in DOMAIN bq.workers /\ bq.workers[w].wait # "no" /\ bq' = u /\ procs' = procs
      /\ clients' = clients /\ wedged' = wedged /\ SchedulerInv(bq, clients)
      /\ belated' = belated /\ abandoned' = abandoned /\ belated \subseteq Workers
  BY DEF Cancel, Blocking, Everything, Processes, workerVars
<1>2. SchedulerInv(u, clients) /\ Evolves(bq, u, {}) /\ Quiet(bq, u, {w})
  BY <1>1, CancelOK
<1>3. Evolves(bq, u, T) /\ GivesUp(bq, T, w)
  BY <1>2 DEF GivesUp
<1>4. \A t : t \notin T
  OBVIOUS
<1> HIDE DEF u, T
<1>5. bq.created \in Nat /\ u.created \in Nat /\ bq.created <= u.created /\ StateOK(u)
  BY <1>2 DEF Evolves, SchedulerInv, Halfway
<1>6. procs[w] \in Process(bq.created) /\ procs = [procs EXCEPT ![w] = procs[w]]
  BY DEF Everything, Processes, ProcsTyped
<1>7. procs[w] \in Process(u.created)
  BY <1>5, <1>6, MoreProcesses
<1>8. GoodStep(u, procs[w], procs[w], w, belated, belated)
  <2>1. ASSUME w \notin belated
        PROVE  GoodProcess(u, procs[w], procs[w], w, belated)
    <3>1. MayExecute(bq, procs[w], w) /\ MayTerminateSafely(bq, procs[w], w)
      BY <2>1 DEF Everything, Processes, ProcessesOK
    <3>2. MayExecute(u, procs[w], w)
      BY <1>3, <1>4, <1>5, <3>1, ExecutionContinues
    <3>3. MayTerminateSafely(u, procs[w], w)
      BY <1>1, <3>1 DEF MayTerminateSafely
    <3> QED BY <2>1, <3>2, <3>3 DEF GoodProcess, KeepsExecuting
  <2> QED BY <1>1, <1>7, <2>1 DEF GoodStep
<1>9. Processes'
  BY <1>1, <1>2, <1>3, <1>5, <1>6, <1>8, ProcessStep DEF Everything
<1>10. ClientsTyped(u.created, clients)
  BY <1>5, MoreClientsTyped DEF Everything
<1> QED BY <1>1, <1>2, <1>9, <1>10 DEF Everything

(* What happens to a process without the scheduler knowing. *)
LEMMA AloneOK ==
    ASSUME Everything, NEW w \in Workers, NEW q, procs' = [procs EXCEPT ![w] = q],
           UNCHANGED <<bq, clients, wedged, belated>>, RequestsOK(abandoned'),
           GoodStep(bq, procs[w], q, w, belated, belated)
    PROVE  Everything'
<1> DEFINE T == {}
<1>1. bq.created \in Nat /\ StateOK(bq)
  BY DEF Everything, SchedulerInv, Halfway, StateOK
<1>2. Evolves(bq, bq', T) /\ Quiet(bq, bq', {w}) /\ GivesUp(bq, T, w)
  BY <1>1 DEF Evolves, Quiet, GivesUp
<1> HIDE DEF T
<1>3. Processes'
  BY <1>1, <1>2, ProcessStep DEF Everything
<1> QED BY <1>3 DEF Everything

LEMMA NewWorkerIsGood ==
    ASSUME NEW s, NEW p, NEW w, NEW B, B \subseteq Workers
    PROVE  GoodStep(s, p, W!NewWorker, w, B, B)
<1> DEFINE q == W!NewWorker
<1>1. q \in Process(s.created) /\ q.state = "idle" /\ ~q.synchronized
  BY DEF W!NewWorker, Process
<1> HIDE DEF q
<1>2. GoodProcess(s, p, q, w, B)
  BY <1>1 DEF GoodProcess, MayExecute, MayTerminateSafely
<1>3. GoodStep(s, p, q, w, B, B)
  BY <1>1, <1>2 DEF GoodStep
<1> QED BY <1>3 DEF q

LEMMA WorkerAlone ==
    ASSUME Everything, NEW w \in Workers,
           \/ RunGivesUp(w) \/ Disconnect(w) \/ Crash(w) \/ Stop(w) \/ Terminate(w)
    PROVE  Everything'
<1> DEFINE r == procs[w]
           B == belated
<1>1. r \in Process(bq.created) /\ B \subseteq Workers /\ RequestsOK(abandoned)
  BY DEF Everything, Processes, ProcsTyped
<1>2. w \notin B => MayExecute(bq, r, w) /\ MayTerminateSafely(bq, r, w)
  BY DEF Everything, Processes, ProcessesOK
<1>3. UNCHANGED <<bq, clients, wedged, belated>>
  BY DEF RunGivesUp, Disconnect, Crash, Stop, Terminate
<1>4. CASE RunGivesUp(w)
  <2>1. PICK p \in W!Progress(r) :
          /\ procs' = [procs EXCEPT ![w] = W!Failure(p)]
          /\ abandoned' = [abandoned EXCEPT ![w] =
                @ \cup {W!RequestOf(p, WorkerClass[w] = Largest)}]
    BY <1>4 DEF RunGivesUp
  <2> DEFINE request == W!RequestOf(p, WorkerClass[w] = Largest)
  <2>2. p \in Process(bq.created) /\ (p.state = "executing" => p = r)
    BY <1>1, <2>1, ProgressOK
  <2>3. w \notin B => MayExecute(bq, p, w)
    BY <1>2, <2>2 DEF MayExecute
  <2>4. GoodStep(bq, r, W!Failure(p), w, B, B)
    BY <1>1, <2>2, <2>3, FailureIsGood
  <2>5. RequestOK(w, request) /\ request \in Request
    <3>1. RequestOK(w, request)
      BY <2>2, RequestOfOK
    <3>2. bq.created \in Nat
      BY DEF Everything, SchedulerInv, Halfway, StateOK
    <3>3. /\ request.state \in {"idle", "executing", "completed", "rejected"}
          /\ request.succeeded \in BOOLEAN /\ request.event \in BOOLEAN
          /\ request.preferBeingIdle \in BOOLEAN
      BY <3>1 DEF RequestOK
    <3>4. request.task \in Nat \cup {None}
      BY <2>2, <3>2 DEF Process, W!RequestOf
    <3>5. request = [state |-> request.state, task |-> request.task,
                     succeeded |-> request.succeeded, event |-> request.event,
                     preferBeingIdle |-> request.preferBeingIdle]
      BY DEF W!RequestOf
    <3> HIDE DEF request
    <3> QED BY <3>1, <3>3, <3>4, <3>5 DEF Request
  <2>6. abandoned' = [abandoned EXCEPT ![w] = @ \cup {request}]
    BY <2>1
  <2> HIDE DEF request
  <2>7. RequestsOK(abandoned')
    BY <1>1, <2>5, <2>6 DEF RequestsOK
  <2> QED BY <1>3, <2>1, <2>4, <2>7, AloneOK
<1>5. CASE Disconnect(w)
  <2>1. GoodStep(bq, r, W!Failure(r), w, B, B)
    BY <1>1, <1>2, FailureIsGood
  <2>2. procs' = [procs EXCEPT ![w] = W!Failure(r)] /\ UNCHANGED abandoned
    BY <1>5 DEF Disconnect
  <2> QED BY <1>1, <1>3, <2>1, <2>2, AloneOK
<1>6. CASE Crash(w) \/ Terminate(w)
  <2>1. procs' = [procs EXCEPT ![w] = W!NewWorker] /\ UNCHANGED abandoned
    BY <1>6 DEF Crash, Terminate
  <2>2. GoodStep(bq, r, W!NewWorker, w, B, B)
    BY <1>1, NewWorkerIsGood
  <2> QED BY <1>1, <1>3, <2>1, <2>2, AloneOK
<1>7. CASE Stop(w)
  <2> DEFINE p == IF r.calling THEN W!Failure(r) ELSE r
             q == [p EXCEPT !.stopping = TRUE]
  <2>1. procs' = [procs EXCEPT ![w] = q] /\ UNCHANGED abandoned
    BY <1>7 DEF Stop, W!Shutdown
  <2>2. GoodStep(bq, r, p, w, B, B)
    <3>1. CASE r.calling
      BY <1>1, <1>2, <3>1, FailureIsGood
    <3>2. CASE ~r.calling
      <4>1. w \notin B => GoodProcess(bq, r, r, w, B)
        BY <1>2 DEF GoodProcess, KeepsExecuting
      <4> QED BY <1>1, <3>2, <4>1 DEF GoodStep
    <3> QED BY <3>1, <3>2
  <2> HIDE DEF p
  <2>3. /\ q \in Process(bq.created) /\ q.state = p.state /\ q.task = p.task
        /\ q.calling = p.calling /\ q.synchronized = p.synchronized
        /\ q.schedulerMayThinkExecuting = p.schedulerMayThinkExecuting
    BY <2>2 DEF GoodStep, Process
  <2> HIDE DEF q
  <2>4. w \notin B => GoodProcess(bq, r, q, w, B)
    BY <2>2, <2>3 DEF GoodStep, GoodProcess, KeepsExecuting, MayExecute, MayTerminateSafely
  <2>5. GoodStep(bq, r, q, w, B, B)
    BY <1>1, <2>3, <2>4 DEF GoodStep
  <2> QED BY <1>1, <1>3, <2>1, <2>5, AloneOK
<1> QED BY <1>4, <1>5, <1>6, <1>7

-----------------------------------------------------------------------------
LEMMA InitialSchedulerOK ==
    ASSUME SchedulerInit
    PROVE  SchedulerInv(bq, clients) /\ ClientsTyped(bq.created, clients) /\ wedged \in BOOLEAN
<1> DEFINE i == <<Largest, Root>>
           X == {}
           n == 0
<1>1. /\ IsState(bq) /\ bq.panicked = FALSE /\ bq.classes = {Largest} /\ bq.created = 0
      /\ bq.handles = 0 /\ bq.drains = {} /\ bq.tasks = <<>>
      /\ bq.inFlightDeduplicationMap = <<>> /\ bq.workers = <<>>
      /\ bq.inv = [j \in {i} |-> NewInvocation]
  BY DEF SchedulerInit, IsState, Fields
<1>2. DOMAIN bq.tasks = {} /\ DOMAIN bq.inFlightDeduplicationMap = {} /\ DOMAIN bq.workers = {}
  BY <1>1
<1>3. Largest \in SizeClasses /\ Root \in InvocationKeys
  BY LargestIsLargest, NamesDiffer
<1>4. NewInvocation \in Invocation
  BY DEF NewInvocation, Invocation
<1>5. DOMAIN bq.inv = {i} /\ bq.inv[i] = NewInvocation /\ i[1] = Largest /\ i[2] = Root
  BY <1>1
<1> HIDE DEF X, n
<1>6. StateOK(bq)
  BY <1>1, <1>2, <1>3, <1>4, <1>5 DEF StateOK
<1>7. WorkersOK(bq) /\ TasksOK(bq, X) /\ WaitingOK(bq, X)
  BY <1>2 DEF WorkersOK, TasksOK, WaitingOK
<1>8. QueuesOK(bq, X)
  BY <1>2, <1>5 DEF QueuesOK, NewInvocation
<1>9. ExecutingOK(bq)
  BY <1>2, <1>5 DEF ExecutingOK, NewInvocation, Executes
<1>10. IdleOK(bq)
  <2>1. IdleWorkers(bq, i) = {}
    BY <1>2 DEF IdleWorkers
  <2> QED BY <1>5, <2>1, FS_EmptySet DEF IdleOK, NewInvocation
<1>11. ActiveOK(bq, X) /\ RootsOK(bq)
  BY <1>1, <1>5 DEF ActiveOK, RootsOK
<1>12. HandlesOK(bq, n)
  <2>1. PendingTasks(bq) = {}
    BY <1>2 DEF PendingTasks
  <2> QED BY <1>1, <2>1, FS_EmptySet DEF HandlesOK, n
<1>13. clients = [c \in Clients |-> NewClient] /\ NewClient.call = "none"
  BY DEF SchedulerInit, NewClient
<1>14. RecordsOK(bq, clients, X)
  BY <1>2, <1>13 DEF RecordsOK, DeduplicationOK, LearnersOK, ClientsOK, OperationsOK
<1>15. SchedulerInv(bq, clients)
  BY <1>6, <1>7, <1>8, <1>9, <1>10, <1>11, <1>12, <1>14
     DEF SchedulerInv, Halfway, Accounted, X, n
<1>16. NewClient \in Client(bq.created)
  BY <1>3 DEF NewClient, Client
<1>17. ClientsTyped(bq.created, clients)
  BY <1>13, <1>16 DEF ClientsTyped
<1> QED BY <1>15, <1>17 DEF SchedulerInit

LEMMA InitOK ==
    Init => IInv
<1>1. SUFFICES ASSUME Init
               PROVE  IInv
  OBVIOUS
<1>2. SchedulerInv(bq, clients) /\ ClientsTyped(bq.created, clients) /\ wedged \in BOOLEAN
  BY <1>1, InitialSchedulerOK DEF Init
<1>3. /\ procs = [w \in Workers |-> W!NewWorker] /\ belated = {}
      /\ abandoned = [w \in Workers |-> {}]
  BY <1>1 DEF Init
<1> DEFINE q == W!NewWorker
<1>4. \A w \in Workers : procs[w] = q
  BY <1>3
<1>5. \A w : GoodStep(bq, q, q, w, belated, belated)
  BY <1>3, NewWorkerIsGood
<1>6. q.state = "idle"
  BY DEF W!NewWorker
<1>7. procs = [w \in Workers |-> q]
  BY <1>3
<1> HIDE DEF q
<1>8. ProcsTyped(bq.created, procs)
  BY <1>5, <1>7 DEF ProcsTyped, GoodStep
<1>9. ProcessesOK(bq, procs, belated)
  BY <1>4, <1>5 DEF ProcessesOK, GoodStep, GoodProcess
<1>10. NoDuplicateExecution
  BY <1>4, <1>6 DEF NoDuplicateExecution
<1>11. disturbances \in 0 .. MaxDisturbances
  BY <1>1, DisturbancesAssumption DEF Init
<1>12. RequestsOK(abandoned)
  BY <1>3 DEF RequestsOK
<1> QED BY <1>2, <1>3, <1>8, <1>9, <1>10, <1>11, <1>12 DEF IInv, Everything, Processes

LEMMA NextOK ==
    ASSUME IInv, [Next]_vars
    PROVE  IInv'
<1>1. Everything /\ disturbances \in 0 .. MaxDisturbances
  BY DEF IInv
<1>2. ASSUME ClientNext \/ ExpiryNext \/ ManagementNext, UNCHANGED workerVars
      PROVE  Everything'
  <2>1. StepOK
    BY <1>1, <1>2, SchedulerStep DEF Everything, Calls
  <2>2. SchedulerInv(bq', clients') /\ Evolves(bq, bq', {}) /\ Quiet(bq, bq', {})
    BY <2>1 DEF StepOK, Safe
  <2>3. StateOK(bq')
    BY <2>2 DEF SchedulerInv, Halfway
  <2>4. Processes'
    BY <1>1, <1>2, <2>2, <2>3, ProcessesStay DEF Everything, workerVars
  <2>5. RequestsOK(abandoned')
    BY <1>1, <1>2 DEF Everything, workerVars
  <2> QED BY <2>1, <2>2, <2>4, <2>5 DEF Everything, StepOK
<1>3. ASSUME NEW w \in Workers,
             \/ Run(w) \/ Resume(w) \/ Timeout(w) \/ Cancel(w) \/ Terminate(w)
             \/ SynchronizeBelatedly(w)
      PROVE  Everything'
  BY <1>1, <1>3, RunOK, ResumeOK, CancelStep, WorkerAlone, SynchronizeBelatedlyOK
<1>4. ASSUME NEW w \in Workers,
             \/ RunLosesResponse(w) \/ RunGivesUp(w) \/ Disconnect(w)
             \/ Crash(w) \/ Stop(w)
      PROVE  Everything'
  BY <1>1, <1>4, RunOK, WorkerAlone
<1>5. CASE /\ \/ ClientNext /\ UNCHANGED workerVars
              \/ ExpiryNext /\ UNCHANGED workerVars
              \/ WorkerNext
           /\ UNCHANGED disturbances
  <2>1. Everything'
    BY <1>2, <1>3, <1>5 DEF WorkerNext
  <2> QED BY <1>1, <1>5, <2>1 DEF IInv
<1>6. CASE disturbances < MaxDisturbances /\ disturbances' = disturbances + 1 /\ Disturbance
  <2>1. Everything'
    BY <1>2, <1>4, <1>6 DEF Disturbance
  <2>2. disturbances' \in 0 .. MaxDisturbances
    BY <1>1, <1>6, DisturbancesAssumption
  <2> QED BY <2>1, <2>2 DEF IInv
<1>7. CASE UNCHANGED vars
  BY <1>7 DEF vars, IInv, Everything, Processes, NoDuplicateExecution, SchedulerInv, RequestsOK
<1> QED BY <1>5, <1>6, <1>7 DEF Next

LEMMA Invariance ==
    Spec => []IInv
<1>1. IInv /\ [Next]_vars => IInv'
  BY NextOK
<1> QED BY InitOK, <1>1, PTL DEF Spec

-----------------------------------------------------------------------------
(* What the invariant says of the states of the specification. *)
LEMMA Reached ==
    ASSUME IInv
    PROVE  /\ StateOK(bq) /\ Accounted(bq, {}, {}) /\ WaitingOK(bq, {}) /\ HandlesOK(bq, 0)
           /\ DeduplicationOK(bq) /\ LearnersOK(bq) /\ ClientsOK(bq, clients)
           /\ OperationsOK(bq, clients, {}) /\ Processes
BY DEF IInv, Everything, SchedulerInv, Halfway, RecordsOK

LEMMA FewWaiters ==
    ASSUME NEW cl, NEW t, NEW k
    PROVE  Cardinality(Waiters(cl, t, k)) \in 0 .. Cardinality(Clients)
<1>1. Waiters(cl, t, k) \subseteq Clients /\ IsFiniteSet(Clients)
  BY SchedulerAssumption DEF Waiters
<1>2. Cardinality(Waiters(cl, t, k)) <= Cardinality(Clients)
  BY <1>1, FS_Subset
<1>3. Cardinality(Waiters(cl, t, k)) \in Nat /\ Cardinality(Clients) \in Nat
  BY <1>1, WaitersAreFinite, FS_CardinalityType
<1> QED BY <1>2, <1>3

LEMMA TasksTyped ==
    ASSUME NEW s, NEW cl, StateOK(s), OperationsOK(s, cl, {}), NEW t \in DOMAIN s.tasks
    PROVE  s.tasks[t] \in Task
<1> DEFINE x == s.tasks[t]
           Op == [waiters : 0 .. Cardinality(Clients), mayExistWithoutWaiters : BOOLEAN,
                  cleanup : BOOLEAN]
           Ops == UNION {[K -> Op] : K \in SUBSET InvocationKeys}
<1>1. TaskOK(x)
  BY DEF StateOK
<1>2. ASSUME NEW k \in DOMAIN x.operations
      PROVE  x.operations[k] \in Op
  <2> DEFINE o == x.operations[k]
  <2>1. o.waiters = Cardinality(Waiters(cl, t, k))
    BY <1>2 DEF OperationsOK, OperationFine
  <2>2. o.waiters \in 0 .. Cardinality(Clients)
    BY <2>1, FewWaiters
  <2>3. o \in Operation
    BY <1>1, <1>2 DEF TaskOK
  <2> HIDE DEF o
  <2>4. o \in Op
    BY <2>2, <2>3 DEF Operation
  <2> QED BY <2>4 DEF o
<1> HIDE DEF Op
<1>3. x.operations \in [DOMAIN x.operations -> Op] /\ DOMAIN x.operations \in SUBSET InvocationKeys
  BY <1>1, <1>2 DEF TaskOK
<1>4. x.operations \in Ops
  BY <1>3
<1> HIDE DEF Ops, x
<1>5. x = [action |-> x.action, class |-> x.class, learner |-> x.learner, worker |-> x.worker,
           retryCount |-> x.retryCount, operations |-> x.operations, failed |-> x.failed,
           event |-> x.event]
  BY <1>1 DEF TaskOK, IsTask, TaskFields
<1>6. /\ x.action \in Actions \cup {None} /\ x.class \in SizeClasses /\ x.learner \in Learner
      /\ x.worker \in Workers \cup {None} /\ x.retryCount \in 0 .. WorkerTaskRetryCount
      /\ x.failed \in BOOLEAN /\ x.event \in BOOLEAN
  BY <1>1 DEF TaskOK
<1>7. x \in [action : Actions \cup {None}, class : SizeClasses, learner : Learner,
             worker : Workers \cup {None}, retryCount : 0..WorkerTaskRetryCount,
             operations : Ops, failed : BOOLEAN, event : BOOLEAN]
  BY <1>4, <1>5, <1>6
<1>8. x \in Task
  BY <1>7 DEF Task, Ops, Op
<1> QED BY <1>8 DEF x

LEMMA InvocationsTyped ==
    ASSUME NEW s, StateOK(s), QueuesOK(s, {}), NEW i \in DOMAIN s.inv
    PROVE  /\ s.inv[i].queued \subseteq 1 .. s.created
           /\ s.inv[i].executing \in [Workers -> Nat]
           /\ s.inv[i].idle \in Nat
<1>1. s.inv[i] \in Invocation /\ DOMAIN s.tasks \subseteq 1 .. s.created
  BY DEF StateOK
<1>2. s.inv[i].queued \subseteq DOMAIN s.tasks
  BY DEF QueuesOK
<1> QED BY <1>1, <1>2 DEF Invocation

LEMMA InvIsTyped ==
    IInv => TypeOK
<1>1. SUFFICES ASSUME IInv
               PROVE  TypeOK
  OBVIOUS
<1>2. /\ StateOK(bq) /\ OperationsOK(bq, clients, {}) /\ DeduplicationOK(bq)
      /\ QueuesOK(bq, {}) /\ ClientsTyped(bq.created, clients) /\ wedged \in BOOLEAN
      /\ ProcsTyped(bq.created, procs) /\ disturbances \in 0 .. MaxDisturbances
      /\ abandoned \in [Workers -> SUBSET Request] /\ belated \subseteq Workers
  BY <1>1, Reached DEF IInv, Everything, Processes, Accounted, RequestsOK
<1>3. \A t \in DOMAIN bq.tasks : bq.tasks[t] \in Task
  BY <1>2, TasksTyped
<1>4. \A a \in DOMAIN bq.inFlightDeduplicationMap :
         a \in Actions /\ bq.inFlightDeduplicationMap[a] \in 1 .. bq.created
  BY <1>2 DEF DeduplicationOK, StateOK
<1>5. \A i \in DOMAIN bq.inv :
         /\ bq.inv[i].queued \subseteq 1 .. bq.created
         /\ bq.inv[i].executing \in [Workers -> Nat]
         /\ bq.inv[i].idle \in Nat
  BY <1>2, InvocationsTyped
<1>6. /\ bq.classes \subseteq SizeClasses /\ Largest \in bq.classes /\ bq.created \in Nat
      /\ DOMAIN bq.tasks \subseteq 1 .. bq.created
      /\ DOMAIN bq.inv \subseteq bq.classes \X InvocationKeys
      /\ DOMAIN bq.workers \subseteq Workers /\ bq.drains \subseteq Workers
      /\ bq.handles \in Int /\ bq.panicked \in BOOLEAN
  BY <1>2 DEF StateOK
<1>7. \A w \in DOMAIN bq.workers : bq.workers[w] \in Worker(bq.created)
  BY <1>2 DEF StateOK
<1>8. SchedulerTypeOK
  BY <1>2, <1>3, <1>4, <1>5, <1>6, <1>7 DEF SchedulerTypeOK, Worker, ClientsTyped, Client
<1> QED BY <1>2, <1>8 DEF TypeOK, ProcsTyped, Process

LEMMA InvIsAccounted ==
    IInv => InvocationsAccounted
<1>1. SUFFICES ASSUME IInv
               PROVE  InvocationsAccounted
  OBVIOUS
<1> DEFINE X == {}
<1>2. /\ StateOK(bq) /\ WorkersOK(bq) /\ TasksOK(bq, X) /\ QueuesOK(bq, X) /\ ExecutingOK(bq)
      /\ IdleOK(bq) /\ ActiveOK(bq, X)
  BY <1>1, Reached DEF Accounted
<1>3. \A w \in DOMAIN bq.workers :
         /\ bq.workers[w].task # None => /\ bq.workers[w].task \in DOMAIN bq.tasks
                                         /\ bq.tasks[bq.workers[w].task].worker = w
                                         /\ bq.tasks[bq.workers[w].task].class = WorkerClass[w]
                                         /\ Uncompleted(bq.workers[w].task)
         /\ (bq.workers[w].task = None) <=> (bq.workers[w].last # None)
  BY <1>2 DEF WorkersOK, Pending, Uncompleted
<1>4. \A t \in DOMAIN bq.tasks :
         /\ bq.tasks[t].worker # None =>
               /\ bq.tasks[t].worker \in DOMAIN bq.workers
               /\ bq.workers[bq.tasks[t].worker].task = t
         /\ Uncompleted(t) =>
               Invocations(bq.tasks[t].class, OperationKeys(bq, t)) \subseteq DOMAIN bq.inv
  BY <1>2 DEF TasksOK, Pending, Uncompleted, OperationKeys
<1>5. ASSUME NEW i \in DOMAIN bq.inv
      PROVE  bq.inv[i].queued =
                {t \in DOMAIN bq.tasks : /\ Uncompleted(t) /\ bq.tasks[t].worker = None
                                         /\ i[1] = bq.tasks[t].class
                                         /\ i[2] \in OperationKeys(bq, t)}
  <2>1. bq.inv[i].queued = {t \in DOMAIN bq.tasks \ X : Queues(bq, t, i)}
    BY <1>2, <1>5 DEF QueuesOK
  <2> QED BY <2>1 DEF Queues, Pending, Uncompleted, OperationKeys
<1>6. ASSUME NEW i \in DOMAIN bq.inv, NEW w \in Workers
      PROVE  bq.inv[i].executing[w] =
                IF w \in DOMAIN bq.workers /\ bq.workers[w].task # None
                THEN Share(i, WorkerClass[w], OperationKeys(bq, bq.workers[w].task))
                ELSE 0
  BY <1>2, <1>6 DEF ExecutingOK, Executes, OperationKeys
<1>7. ASSUME NEW i \in DOMAIN bq.inv
      PROVE  bq.inv[i].idle =
                Cardinality({w \in DOMAIN bq.workers :
                    bq.workers[w].last # None
                    /\ Share(i, WorkerClass[w], {bq.workers[w].last}) = 1})
  BY <1>2, <1>7 DEF IdleOK, IdleWorkers
<1>8. ASSUME NEW i \in DOMAIN bq.inv, i[2] # Root
      PROVE  IsActive(bq.inv[i]) \/ bq.inv[i].idle > 0
  <2>1. bq.inv[i] \in Invocation
    BY <1>2, <1>8 DEF StateOK
  <2>2. bq.inv[i].idle \in Nat
    BY <2>1 DEF Invocation
  <2>3. IsActive(bq.inv[i]) \/ bq.inv[i].idle # 0
    BY <1>2, <1>8 DEF ActiveOK
  <2> QED BY <2>2, <2>3
<1> QED BY <1>3, <1>4, <1>5, <1>6, <1>7, <1>8 DEF InvocationsAccounted

LEMMA InvBlocks ==
    IInv => BlockedWorkersHaveNothingToDo
<1>1. SUFFICES ASSUME IInv, NEW w \in DOMAIN bq.workers
               PROVE  /\ bq.workers[w].wait = "queued" =>
                            /\ bq.workers[w].task = None
                            /\ ~isDrained(bq, w)
                            /\ QueuedTasks(bq, WorkerClass[w]) = {}
                      /\ bq.workers[w].wait = "drained" =>
                            bq.workers[w].task = None /\ isDrained(bq, w)
  BY DEF BlockedWorkersHaveNothingToDo
<1> DEFINE X == {}
<1>2. WaitingOK(bq, X) /\ QueuesOK(bq, X)
  BY <1>1, Reached DEF Accounted
<1>3. ASSUME NothingQueued(bq, X, WorkerClass[w])
      PROVE  QueuedTasks(bq, WorkerClass[w]) = {}
  <2>1. SUFFICES ASSUME NEW i \in DOMAIN bq.inv, i[1] = WorkerClass[w], NEW t \in bq.inv[i].queued
                 PROVE  FALSE
    BY DEF QueuedTasks
  <2>2. t \in DOMAIN bq.tasks \ X /\ Queues(bq, t, i)
    BY <1>2, <2>1 DEF QueuesOK
  <2> QED BY <1>3, <2>1, <2>2 DEF NothingQueued, Queues
<1> QED BY <1>1, <1>2, <1>3 DEF WaitingOK

LEMMA InvCounts ==
    IInv => /\ NoPanic /\ LearnersConcludedOnce /\ DeduplicationIsSound
            /\ OperationsAreReclaimed
<1>1. SUFFICES ASSUME IInv
               PROVE  /\ NoPanic /\ LearnersConcludedOnce /\ DeduplicationIsSound
                      /\ OperationsAreReclaimed
  OBVIOUS
<1> DEFINE P == {}
           n == 0
<1>2. /\ StateOK(bq) /\ HandlesOK(bq, n) /\ DeduplicationOK(bq) /\ ClientsOK(bq, clients)
      /\ OperationsOK(bq, clients, P)
  BY <1>1, Reached
<1>3. NoPanic
  BY <1>2 DEF StateOK, NoPanic
<1>4. LearnersConcludedOnce
  <2>1. PendingTasks(bq) = {t \in DOMAIN bq.tasks : Uncompleted(t)}
    BY DEF PendingTasks, Pending, Uncompleted
  <2>2. Cardinality(PendingTasks(bq)) \in Nat
    BY <1>2, PendingTasksAreFinite
  <2> QED BY <1>2, <2>1, <2>2 DEF HandlesOK, LearnersConcludedOnce
<1>5. DeduplicationIsSound
  BY <1>2 DEF DeduplicationOK, DeduplicationIsSound, Pending, Uncompleted
<1>6. ASSUME NEW c \in Clients, clients[c].call = "waiting"
      PROVE  /\ clients[c].task \in DOMAIN bq.tasks
             /\ clients[c].key \in OperationKeys(bq, clients[c].task)
  BY <1>2, <1>6 DEF ClientsOK, OperationKeys
<1>7. ASSUME NEW t \in DOMAIN bq.tasks, NEW k \in OperationKeys(bq, t)
      PROVE  LET o == bq.tasks[t].operations[k] IN
             /\ o.waiters = Cardinality({c \in Clients : /\ clients[c].call = "waiting"
                                                          /\ clients[c].task = t
                                                          /\ clients[c].key = k})
             /\ o.cleanup <=> o.waiters = 0 /\ ~o.mayExistWithoutWaiters
             /\ o.mayExistWithoutWaiters <=> Uncompleted(t) /\ bq.tasks[t].action = None
  <2>1. OperationFine(bq, clients, P, t, k)
    BY <1>2, <1>7 DEF OperationsOK, OperationKeys
  <2> QED BY <2>1 DEF OperationFine, Waiters, Pending, Uncompleted
<1>8. OperationsAreReclaimed
  BY <1>6, <1>7 DEF OperationsAreReclaimed
<1> QED BY <1>3, <1>4, <1>5, <1>8

LEMMA InvCarriesEvents ==
    IInv => CompletionsCarryEvents
<1>1. SUFFICES ASSUME IInv, NEW c \in Clients, clients[c].call = "waiting",
                      bq.tasks[clients[c].task].learner = NoLearner
               PROVE  bq.tasks[clients[c].task].failed \/ bq.tasks[clients[c].task].event
  BY DEF CompletionsCarryEvents
<1>2. LearnersOK(bq) /\ ClientsOK(bq, clients)
  BY <1>1, Reached
<1> DEFINE t == clients[c].task
<1>3. t \in DOMAIN bq.tasks /\ bq.tasks[t].action # None /\ ~Pending(bq, t)
  BY <1>1, <1>2 DEF ClientsOK, Pending
<1> QED BY <1>2, <1>3 DEF LearnersOK

LEMMA InvIsIdle ==
    IInv => NoDuplicateExecution /\ IdleWorkersAreIdle
BY Reached DEF Processes, ProcessesOK, MayTerminateSafely, IdleWorkersAreIdle

-----------------------------------------------------------------------------
(***************************************************************************)
(* The state of the scheduler, the calls of clients and the worker         *)
(* processes always have their types: in particular the waiters of an      *)
(* operation never exceed the clients, tasks are retried at most           *)
(* WorkerTaskRetryCount times by one worker, and nobody refers to a task   *)
(* that is yet to be created.                                              *)
(***************************************************************************)
THEOREM RemoteExecutionTyped ==
    Spec => []TypeOK
BY Invariance, InvIsTyped, PTL

(***************************************************************************)
(* No panic of the scheduler can be reached, whatever clients, workers and *)
(* administrators do.                                                      *)
(***************************************************************************)
THEOREM SchedulerNeverPanics ==
    Spec => []NoPanic
<1>1. IInv => NoPanic
  BY InvCounts
<1> QED BY <1>1, Invariance, PTL

(***************************************************************************)
(* Workers, tasks and the tree of invocations always agree with one        *)
(* another, and no invocation outlives its operations and workers: for any *)
(* number of workers, keys and size classes, through completion, failure,  *)
(* retries on the largest size class, background learning, loss of         *)
(* workers, and removal of operations and size classes.                    *)
(***************************************************************************)
THEOREM InvocationsAlwaysAccounted ==
    Spec => []InvocationsAccounted
BY Invariance, InvIsAccounted, PTL

(***************************************************************************)
(* A worker that waits in Synchronize() never misses a task: its size      *)
(* class has nothing queued, and it is or is not drained, as it believes.  *)
(***************************************************************************)
THEOREM BlockedWorkersNeverMissTasks ==
    Spec => []BlockedWorkersHaveNothingToDo
BY Invariance, InvBlocks, PTL

(***************************************************************************)
(* Every handle on the statistics of an action is released exactly once,   *)
(* by whichever of complete(), fail() and background learning comes last.  *)
(***************************************************************************)
THEOREM LearnersAlwaysConcludedOnce ==
    Spec => []LearnersConcludedOnce
<1>1. IInv => LearnersConcludedOnce
  BY InvCounts
<1> QED BY <1>1, Invariance, PTL

(***************************************************************************)
(* The in-flight deduplication map has exactly the tasks that will still   *)
(* report a result for their action.                                       *)
(***************************************************************************)
THEOREM DeduplicationAlwaysSound ==
    Spec => []DeduplicationIsSound
<1>1. IInv => DeduplicationIsSound
  BY InvCounts
<1> QED BY <1>1, Invariance, PTL

(***************************************************************************)
(* The waiters of every operation are counted right, and an operation      *)
(* without waiters is always on its way to being removed.                  *)
(***************************************************************************)
THEOREM OperationsAlwaysReclaimed ==
    Spec => []OperationsAreReclaimed
<1>1. IInv => OperationsAreReclaimed
  BY InvCounts
<1> QED BY <1>1, Invariance, PTL

(***************************************************************************)
(* No two workers execute the same task at the same time, however many     *)
(* requests and responses are lost, and however often workers crash, save  *)
(* for a worker of which a request it gave up on was handled since it was  *)
(* last answered.                                                          *)
(***************************************************************************)
THEOREM ExecutionIsNeverDuplicated ==
    Spec => []NoDuplicateExecution
<1>1. IInv => NoDuplicateExecution
  BY InvIsIdle
<1> QED BY <1>1, Invariance, PTL

(***************************************************************************)
(* A worker that believes that the scheduler has nothing assigned to it,   *)
(* and that it may therefore terminate, is right, unless a request it gave *)
(* up on was handled after it was told so: nothing else can make it wrong. *)
(***************************************************************************)
THEOREM IdleWorkersAlwaysIdle ==
    Spec => []IdleWorkersAreIdle
<1>1. IInv => IdleWorkersAreIdle
  BY InvIsIdle
<1> QED BY <1>1, Invariance, PTL

(***************************************************************************)
(* The completion event that workers discard on smaller size classes is    *)
(* never the one that a client is waiting for.                             *)
(***************************************************************************)
THEOREM CompletionsAlwaysCarryEvents ==
    Spec => []CompletionsCarryEvents
BY Invariance, InvCarriesEvents, PTL
=============================================================================
