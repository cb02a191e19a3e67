# Verification of Bonanza

Bonanza is a build system of which the state lives in a content addressed,
distributed object store, and which runs the actions of a build on remote
workers. This directory holds TLA+ models of the parts of it whose correctness
depends on interleavings, crashes, expiration, lost messages and capacity
limits: the object store, the protocol that fills it, the scheduler and its
workers, and the evaluation of the keys of a build. TLC checks them on small
instances, and TLAPS checks proofs about some of them for instances of any size.

Paths below are relative to `src/`.

## The system and its parts

| Part | State | Operations | Interacts with |
| --- | --- | --- | --- |
| Local object store, `pkg/storage/object/local` | a ring of sectors on a block device; reference-location records in a lossy hash map on a second device; the list of epochs in memory; a state file | `UploadObject`, `DownloadObject`, the periodic syncer, start and shutdown | flatbacked calls it; the syncer shares the epoch list with all calls |
| Lossy hash map, `pkg/ds/lossymap` | an array of records | `Get`, `Put` | local store, leases map, tag store |
| Flat-backed store, `pkg/storage/object/flatbacked` | the leases map | `UploadObject`, `DownloadObject` | calls the local store; called by mirrored |
| Mirrored store, `pkg/storage/object/mirrored` | none of its own | replicated upload and download | calls two flat-backed stores over gRPC |
| Lease renewing uploader, `pkg/storage/object/leaserenewing` | states of objects being traversed, a heap of pending ones, the remaining limit | `UploadObject`, `ProcessSingleObject` | calls mirrored |
| DAG uploading service, `pkg/storage/dag` | per stream, server: object states, a heap, limits, outgoing messages; client: unfinalized objects with their reference indices and walkers | the `UploadDags` stream, finalization | the server calls leaserenewing and the tag store |
| Tag stores, `pkg/storage/tag` | a lossy map of signed values | `ResolveTag`, `UpdateTag` | lease renewing resolver calls both tag and object stores |
| Scheduler, `pkg/scheduler` | operations, tasks, workers, invocations, a cleanup queue, under one lock | `Execute`, `WaitExecution`, `Synchronize`, drains, kills, timers | clients and workers |
| Initial size class selection, `pkg/scheduler/initialsizeclass` | outcomes of earlier actions | `Selector`, `Learner` | scheduler |
| Remote worker client, `pkg/remoteworker`; remote execution client, `pkg/remoteexecution` | one call at a time | `Synchronize` loop; `Execute` with reattachment | scheduler |
| Evaluation, `pkg/model/evaluation`, `cmd/bonanza_builder` | states of keys in queues and their dependencies; a cache in the object and tag stores | evaluation, cache lookup, invalidation, upload, cycle detection | storage, remote execution |
| Analysis, Starlark, labels, file system model, encodings | mostly none | functions | evaluation |

What is hard about them:

* **Crashes.** The local store acknowledges writes long before they are on the
  device. Data, records and the state file are written in different places, and
  a power failure keeps any part of the unsynchronized writes. Only the epochs
  that the state file lists tell which records may be trusted.
* **Numbers that wrap.** Locations are 64 bit and epoch IDs 32 bit, compared by
  the sign of their wrapped difference, and the location cursor skips to zero.
* **Writes that finish out of order**, objects that share sectors, and lookups
  that decide on the basis of a cursor that others move.
* **Expiration.** Leases of an object's children are obtained at different
  times. Whether a graph is complete follows from ages that add up per level,
  while the ring overwrites what was not confirmed for long.
* **Locks that are released halfway.** The lease renewing uploader finalizes
  parents recursively and releases its lock around backend calls.
* **Limits.** Traversals are bounded by the number and size of unfinalized
  parents. A share of it that leaks, or a traversal that waits for a share held
  by what waits for it, stops the service.
* **Lossy structures.** The hash maps displace and forget, and calls on them
  fail between two writes.
* **Messages that cross.** Client and server of `UploadDags` number references
  independently. A worker repeats `Synchronize()` not knowing whether the last
  call had an effect, while the scheduler may still be blocked in it.
* **Bookkeeping that is spread out.** A task of the scheduler is known to its
  operations, its worker, the invocations of each and a deduplication map, each
  of which has counters. Drains, kills, expirations and retries take it out of
  some of these and not of others.
* **Caches of things that change.** The dependencies that a cached value had in
  an earlier build may no longer exist, may form cycles with current ones, and
  their objects may be lost while others make use of them.

`PROJECT.json` lists every part under `components` and every such hazard at its
line under `hazards`. The properties below are the answers to that list.

## Modules

Each module follows the source's names. `PROJECT.json` maps every definition to
the lines it stands for. Definitions that a comment marks as *Mutant* are wrong
on purpose. They are used by nothing and exist so that each property can be seen
to fail if the code were changed that way.

### EpochList

`persistent_epoch_list.go`, as operators on a record `el` that holds the fields
of `PersistentEpochList`. All of its methods run under one lock, so each is an
operator without steps of its own: `FinalizeWriteUpToLocation`,
`DiscardUpToLocation`, `NotifySyncStarting`, `NotifySyncCompleted`,
`GetPersistentState`, and the constructor `NewPersistentEpochList` that turns a
state file into a list again. Integers wrap at `LocationModulus` and
`EpochIDModulus`, which are 2^64 and 2^32 in the code. The model of the
constructor includes its loop over location increments, the position at which
the sum wraps, and the epochs it drops there.

### LocalStore

The store around that list. A call is a thread with a program counter; its
steps are the regions between two acquisitions of a lock or two I/O calls in
`store.go`: reading the next put location, reading the record and the data,
discarding corrupted locations, taking the per-object write lock, checking
again, allocating, writing sectors, finalizing. `syncer` is the program counter
of `ProcessLocationsChanged` in `periodic_syncer.go`, which waits for the wakeup
channel, delays, synchronizes the data device, and writes the state file until
it succeeds.

The ring maps each byte to the object, offset and location it was written for.
There are two versions of it: `cache` is what a read returns, `durable` what
survives a power failure; `rlm` and `rlmDisk` are the same for records.
`dataSyncer` copies the first to the second. `Crash` keeps any subset of the
bytes and records that differ, or all of them when only the process was killed,
and starts the store from the state file. `Corrupt` changes a byte. Failing
writes of data and of the state file are alternatives of the steps that perform
them; a failing write of the state file may or may not have renamed it.

A record is valid if its epoch is listed, its checksum (the hash seed) is that
of the epoch, and its location is in the range of the epoch. Seeds are drawn
from a counter: the code draws 64 random bits, and that they are distinct is an
assumption.

### LossyMap

`hash_map.go` with `lowerBoundComparingRecordArray`. `Get` is an operator. `Put`
takes one step per iteration of its loop, each of which reads and writes one
record, so that it may fail in between (`FailPut`). Calls are otherwise
sequential, as all users hold a lock around them. `Hash` is an arbitrary
function of key and attempt, so probe sequences may cross and revisit slots.

### LeaseStore

`flatbacked/store.go`. A call reads the clock, calls the flat store, downloads
the object if it was not given its contents, and then evaluates the leases of
the children with a lock held. Actions are the code between these calls, and
time passes in between (`Tick`). The flat store is represented by what
flatbacked relies on, namely that it does not lose an object for
`RetentionDuration` after confirming it (`Lose`), and the leases map by a map
that may forget (`Evict`) and that otherwise returns the newest lease, which is
what LossyMap is shown to do. `touched` and `confirmed` are history variables.

### ObjectLimit

`CompareByHeight` of references and `limit.go`: how much of the limit on
unfinalized parents an object and its children need, and what is given back at
each stage. LeaseRenewing and DagServer share it, as the code does.

### LeaseRenewing

`leaserenewing/uploader.go`. The variables are the fields of the
uploader. `lock` names the goroutine that keeps the mutex over several steps,
and `stack` is the recursion of `finalizeObjectLocked`. `GetPendingObject` takes
the top of the heap in the order of `CompareByHeight` and acquires its share of
the limit; `QueueChildren`, `ParentStillWaits`, `ParentHasNoLeases`,
`ParentHasLeases`, `Relock` and `ReleaseObject` are the parts of finalization
between which the lock is released or a decision is made. The backend has a set
of objects and a set of valid leases, and it answers as LeaseStore does.

### DagProtocol, DagServer, DagClient, DagUpload and UploadPromise

`DagProtocol` has the messages of the stream, which arrive in order in each
direction, and the numbering of references.

`DagServer` is `dag/uploader_server.go`. An `objectState` is a record that is
identified by the lowest index it was created for. The goroutine that receives,
the one that sends, those that check and write objects and those that write tags
each take steps between two acquisitions of the lock; the recursion that
finalizes parents, which releases the lock in between, is `LockedStep`. Calls
into storage may fail (`MaxErrors`) and leases may turn out to have expired
(`MaxExpirations`).

`DagClient` is `dag/grpc/uploader.go`: the goroutine that processes responses,
the goroutines that obtain contents from walkers and provide them, under a
semaphore, and the walkers that still need to be used or discarded.

`DagUpload` composes them. Once the client returns, the server's call is canceled.
`UploadPromise` is the abstract specification, in terms of which objects are
stored only. `DagUpload!Promise` is the instance of it with the refinement
mapping: `stored` is the set of objects that exist, `wantTag` the client's
argument, and `result` the client's status.

`DagCancel` composes DagServer with a client that uploads several DAGs over one
stream and cancels some, as `dag.proto` allows.

### Scheduler, InitialSizeClass, RemoteWorker and RemoteExecution

`Scheduler` is `in_memory_build_queue.go`. All of it runs under one lock, so the
scheduler is one record `bq`, methods that are called with the lock held are
operators on it, and a call that blocks resumes in a step of its own. A method
that takes the head of a heap has a set of outcomes: the order of heaps is
about fairness and locality, and is left open. There is one platform queue; its
largest size class is predeclared and another one comes and goes with its
worker. Invocations form one level below the root. `wedged` is set by the call
that deadlocks (see the observations).

`InitialSizeClass` is the protocol of `Selector` and `Learner`: which size class
is tried first, what follows on success, failure and timeout, and which learner
is concluded or abandoned. The statistics behind the choice are floating point
arithmetic; any of the choices may be made.

`RemoteWorker` is the state of `pkg/remoteworker/client.go` between two calls of
`Synchronize()`: the execution it is running, whether it wants to be idle, and
what it reports after failures.

`RemoteExecution` composes these with clients and the network. Responses may get
lost, connections may break without the scheduler noticing before the next call
arrives, workers crash or shut down, clients leave, operators drain, kill and
terminate, and timeouts expire in any order. `RunGivesUp` is a call that fails
before its request was handled, because the connection broke or because the
worker's context was canceled. The request is then in `abandoned`. The handler
does not look at whether its call was canceled before it acts, so the request
may be handled at any later time (`SynchronizeBelatedly`), also if its worker has
made other calls since, has terminated, or was restarted, or it may never be
handled, which is a lost request. `belated` is a history variable: the workers of
which such a request was handled since the scheduler last answered them.
`MaxDisturbances` bounds how many of these events happen in one behaviour; the
handling of an abandoned request comes on top of them.

### Evaluation

`recursive_computer.go`, and the part of the builder's executor that starts
builds. `rc` is the `RecursiveComputer` under its lock: the states of keys, the
lists they are in (queued, evaluating, blocked, evaluated, uploading, completed)
and the keys they block. `evaluators` and `uploaders` are goroutines between two
acquisitions of that lock, `storage` is the cache that survives a build. What is
computed is abstracted to what it depends on: a value is the set of overrides
that it is made of. That is all that is needed to tell a right result from one
that the cache got wrong. Walking cached evaluations is one step (`Lookup`) and
all keys share one queue. `StartBuild` may happen at any time, which stands for
a build that was canceled, among others because a requested key failed. A key
that failed keeps the variable dependencies that it had asked for until then,
which is what `evaluationFailedValueState` hands to those that embed it; one that
failed before it asked for any has none (`earlyFailedValueState`).
`events` counts the loss of an object, a failing computation and the start of
another build, which `MaxEvents` bounds; `faults` are those of the first two that
happened, each at most once.
`partial` is a history variable: a cache entry was made that embeds a dependency
which had failed by then.

### MC modules and proofs

The modules that start with `MC` give graphs, sizes, probe sequences, worker
classes and builds for TLC.
The theorems are in modules whose names end in `Proofs`, one per component.
`EpochListProofs` and `ObjectLimitProofs` hold lemmas only: what the operators
of EpochList do to a well-formed list, and what acquiring and releasing does to
sums of shares of a limit. `TypeOK` is checked by TLC in `local_store_crash` and
is part of every invariant that is proved. In Evaluation it describes the
state.

## What the runs show

| Run | Checks | Instance |
| --- | --- | --- |
| `local_store_crash` | `TypeOK`, `EpochListConsistent`, `RecordsPointToData`, `RestartSafe`, `CleanShutdownKeepsObjects` | two threads, two objects, three sectors, uploads, touches and downloads; one fault, which is a crash, a power failure or a corrupted byte; starts so close to the limits of locations (9 values) and epoch IDs (4) that both are passed |
| `local_store_shutdown` | `AcknowledgedIsReadable`, `ShutdownCompletes`, `EpochsEventuallyPersisted` | two threads, objects of 1 and 2 bytes, sectors of 2 bytes, a ring of 2 sectors of which 5 bytes are allocated, state file writes that fail, under fairness |
| `lossy_map` | `OrderedByAge`, `GetReturnsNewestCopy`, `OlderVersionNeverReappears` | three keys, three slots, three probe attempts, values 0 to 5 and every bound, one failure |
| `lease_store` | `LeasedGraphsExist`, `LeasesAreBacked`, `RenewalSucceeds` | a parent with two children, two callers, four points in time, a retention of two, one lease forgotten |
| `lease_renewing` | `LimitConserved`, `WaitsForLiveChildren`, `ResultsReflectGraph`, `NoSpuriousErrors` | two roots with shared children and a shared grandchild, two callers, a limit for one traversal at a time, one error or expiration |
| `lease_renewing_progress` | `CallersAreAnswered`, violated | see the findings |
| `dag_upload` | `LimitConserved`, `WaitsForLiveChildren`, `NoPanic`, `OnlyFaultsFailUploads`, `WalkersReleased`, `ImplementsPromise` | a DAG of four objects of which two are shared, or one that exceeds the limit; parts of it stored already, one error of storage, one of a walker, one expired lease; under fairness |
| `dag_cancel` | `StreamSurvivesCancellation`, violated | see the findings |
| `remote_execution` | `NoPanic`, `InvocationsAccounted`, `BlockedWorkersHaveNothingToDo`, `LearnersConcludedOnce`, `DeduplicationIsSound`, `OperationsAreReclaimed`, `NoDuplicateExecution`, `IdleWorkersAreIdle`, `CompletionsCarryEvents` | two clients, one action, two invocation keys, two size classes with a worker each, one disturbance, after which a request that was given up on may be handled at any time, no retries; symmetric in clients and keys |
| `remote_execution_progress` | `Answered` | one client, two disturbances, one retry, under fairness |
| `evaluation` | `NoOtherPanic`, `KeysAccounted`, `ResultsAreRight`, `OnlyFaultsFail`, `OtherBuildsFinish` | six keys of which two are overridden, two builds or a cyclic one, two evaluators, one uploader, one retry; two events out of a lost object, a failing computation and the start of the next build; under fairness |
| `evaluation_cycle` | `BuildsFinish`, violated | see the findings |

### Local store

* `RestartSafe`: if the power failed in this very state, each record that the
  state file would make the next process accept leads to data that is on the
  device. It fails if `GetPersistentState` listed epochs that are not
  synchronized yet.
* `RecordsPointToData`: a record that a lookup accepts leads to bytes that were
  written for that location or for one that has overwritten it since, also
  after a crash that kept the record and lost the data, and although the epoch
  ID is used again. It fails if seeds are not drawn anew.
* `CleanShutdownKeepsObjects`: writes that are acknowledged between the two
  synchronizations of a shutdown are in the state file. It fails if
  `NotifySyncStarting(isFinalSync)` did not close the list for writing.
* `EpochListConsistent`: the list is well-formed and the `panic()` of
  `GetCurrentEpochState` is not reached, in any order of writes, discards and
  synchronizations, across the wrap of locations and of epoch IDs.
* `AcknowledgedIsReadable` is an action property: the step in which an upload is
  acknowledged, because it wrote the object or found it to be recent enough,
  leaves it readable, although objects share sectors, others are being written,
  and the cursor that the decision was based on was read earlier.
* `ShutdownCompletes` and `EpochsEventuallyPersisted` are the liveness of the
  syncer.

The bounds allow the ring to go around, two epochs beyond the first one, and a
write that is finalized before one with a lower location. They are small in the
number of faults: a crash and a corruption do not both happen in one behaviour.
An instance with one of each, two objects, uploads and downloads was checked
once (10.5 million states, no error); it takes too long to be kept as a run.
`RestartSafe` does not need a crash to happen, as it is stated about the state
that a crash would find.

Assumptions about the environment, which are guards of the model:

* `NotLapped`: no write is stalled for so long that others write a full span
  past it. The code has no means to notice, and nothing else bounds it.
* `MaxUnsynced`: what is allocated since the state file was last written is
  less than the ring. The code relies on `minimumEpochInterval` and the size of
  the device for this.
* One record slot per object. Displacement by the hash map is checked in
  LossyMap, but the rewriting of a displaced record with the current epoch ID
  (`block_device_backed_reference_location_record_array.go`) is not modelled.

### Lossy map

`OrderedByAge` is the invariant the map is built around: newer values are at
more preferable positions. From it follows `GetReturnsNewestCopy`: a lookup may
stop at the first expired record and still returns the newest unexpired copy.
Both hold with failing calls and bounds that go backwards, which happens in
flatbacked because the clock is read before the lock is taken.

`OlderVersionNeverReappears` is weaker than a user may expect. It does not hold
after a `Put` that failed or that ran into `maximumPutAttempts`, because the
displaced record is lost while an older copy of its key may still be in the
array. Two put attempts are too few for the instance of the run, three and more
suffice. The code counts these events in a metric. Tags are the user for
which it matters, as their values are not interchangeable.

### Leases

`LeasesAreBacked` is the link between time and existence: a lease is never later
than the flat store's confirmation of the object, and never more than
2 × `leaseCompletenessDuration` later than the leases of the children. It fails
if the lease carried the time at which the call returns. `LeasedGraphsExist`
draws the conclusion: with a retention of R, a lease of an object of height h
guarantees that nothing below is missing until R - 2·h·D after it. The comment
on `leases_map_lease_completeness_duration` tells operators to reckon with one D
per level when restarting; the code guarantees freshness of two.

`RenewalSucceeds`: a caller that provided no leases, was told which ones are
wanted, and provides those in time is not told that others have expired. This
is the purpose of the two cutoffs, and fails if the stricter one were used for
both calls. It is not guaranteed for a caller whose first call provided leases:
the lenient cutoff applied to that call as well, so that a lease it did not ask
for may expire before the next one.

### Lease renewing uploader

`LimitConserved` accounts for every share of the limit in every intermediate
state. `WaitsForLiveChildren` relates a parent's counter to the children that
will decrement it. `ResultsReflectGraph` and `NoSpuriousErrors` say that callers
are told the truth about the graph: complete only if everything exists, missing
or incomplete only if something does not, errors only if something failed or
expired. `CallersAreAnswered`, that every caller gets an answer, is what the order
of the heap is meant to guarantee. It does not: `lease_renewing_progress` has
objects of different sizes and shows a traversal that stops (see the findings).

### DAG uploads

`ImplementsPromise` is the refinement: objects are written after everything
below them, the tag after the whole DAG, the client is told of success only if
both happened, and the call ends. It fails if a parent's finalization ignored
that a child failed. `OnlyFaultsFailUploads` is about the reference indices: both
sides count independently and deduplicate objects, and requests for contents
cross with contents that carry further references. Neither side ever receives a
message that it does not expect. It fails if indices are assigned in another
order than messages are sent. `WalkersReleased`: every walker is used or discarded
exactly once, on error paths too. `LimitConserved`, `WaitsForLiveChildren` and
`NoPanic` are about the server. Two shared objects, one of which is a child of
three others at different heights, make requests and finalization cross in every
way; the third initial state, in which the root is there but objects below are
not, exercises the renewal of leases that turns into an upload.

### Remote execution

`InvocationsAccounted` recomputes every counter of every invocation, and which
of them exist, from the operations and workers in the system. It is the property
behind most panics of the scheduler, which are `NoPanic`.
`BlockedWorkersHaveNothingToDo` relates two sides that wait for each other: no
worker is blocked in `Synchronize()` while an operation that it could run is
queued. `DeduplicationIsSound` and `OperationsAreReclaimed` relate the
deduplication map and the operations to tasks and to clients: no client joins a
task that is done, and what nobody waits for is on its way out.
`LearnersConcludedOnce` holds across retries, background learning, kills and
expirations. `NoDuplicateExecution`, `IdleWorkersAreIdle` and
`CompletionsCarryEvents` relate the scheduler to worker processes: no task is
executed by two workers, although requests and responses get lost and tasks are
retried; a worker that believes it can terminate without interrupting anything
is right about the scheduler; and although workers discard the completion event
of an execution that is to be retried, no client is told of a completion without
one. `Answered`: every client that waits is answered in the end, provided that
from some time on nothing is drained, terminating or shutting down, and that the
scheduler is not wedged. No timeout needs to expire for it.

`NoDuplicateExecution` and `IdleWorkersAreIdle` do not speak of workers in
`belated`, for which neither holds: TLC finds the two behaviours that the
observations describe if the exception is removed. What they say is that it takes
a request that is handled after a later one was answered, and that no other
combination of losses, crashes and retries does it. The exception ends with the
next answer that tells the worker what to do. All other properties hold with
such requests too.

One disturbance at any moment is enough for all of the pairs of "call that did
or did not have an effect, or will have it later" and "call that overtakes it".
Two of them, in the run with a single client, exercise retries up to their limit
and drains that are removed again. Two clients with two disturbances exceed the
time that is practical.

### Evaluation

`KeysAccounted` relates lists, counters and goroutines: a key that needs to be
evaluated is queued, evaluated by one goroutine, or blocked on exactly as many
keys as it was counted for, and evaluated ones block nothing.
`ResultsAreRight` compares with what would be computed without a cache, for the
values that a build obtained and for every entry of the cache against every
build that may find it. It fails if keys that were invalidated since they were
consumed were embedded in the entries of others. `OnlyFaultsFail`: dependencies
that existed in an earlier build only never make a key fail, although they may
form cycles with current ones. `NoOtherPanic` names the panics that can be
reached and says that there are no others. `OtherBuildsFinish`: no broadcast is
missed, and invalidations, restarts and cycles end, except where a build has
panicked or its cycle is broken at a key that nothing is blocked on, which is what
`evaluation_cycle` is about.

The code misbehaves in three situations that the instance reaches, and each
property says which of them it excepts:

* a cycle is broken at a key that two others are blocked on (a nil dereference,
  excepted in `NoOtherPanic` and `OtherBuildsFinish`);
* a cycle is broken at a key that none are blocked on (a hang, excepted in
  `OtherBuildsFinish`, and the subject of `evaluation_cycle`);
* a key embeds a dependency that was invalidated after the key consumed it and
  that failed when it was computed again (`partial`, excepted in `NoOtherPanic`
  and `ResultsAreRight`).

Findings and observations below describe them. Behaviours without any of these
are not excepted from anything.

The builds are chosen such that the dependency between two keys is reversed from
the first build to the second, so that a lookup and a computation block each
other; that two equal builds share all of the cache; and that one build has a
real cycle on which a requested key is blocked too, so that, depending on the
order in which keys get blocked, it is broken at a key that none, one or two
others are blocked on. Two events suffice for an object that is lost and whose
key fails when it is computed again, and for either of these before, during or
after the change from one build to the next. An entry that such a build leaves
in the cache needs no next build to be found wrong, as `ResultsAreRight` compares
it with all builds.

### Fairness

For the syncer: weak fairness of its own steps, since it is a goroutine that
nothing blocks but its channels and timer; strong fairness of a successful write
of the state file, as retries would otherwise fail forever, in which case a
shutdown does not complete; and strong fairness of the `select` case of the
cancelled context, because Go picks uniformly among ready cases and the other
one may become ready again and again. Nothing is assumed of callers. For the
lease renewing uploader, whose run shows that not even this suffices: weak
fairness of each goroutine's step, which stands for the scheduler, for locks and
semaphores that are granted to those waiting, and for a backend that answers.
Expirations and failures are not fair. For DAG uploads: weak fairness of
receiving, of sending, of the steps with the lock held, of the goroutines for
objects and tags, and of the client's steps. For remote execution: weak fairness
of each worker's loop, of which calls that are given up on are not a part, of a
blocked call resuming when it was woken up and noticing that it was canceled,
and of each client's `Execute()` call noticing a completion. Timeouts, retries
of lost connections by clients, and administrators are not fair: `Answered` does
not depend on them. For evaluation: weak fairness of the disjunction of all
goroutine steps. It does not need to be fair to each, as all of them run out of
things to do.

## Findings

Each has a run that shows it.

1. `pkg/storage/object/leaserenewing/uploader.go:138`: only the top of the heap is
   considered. It may be an object that does not fit in what remains of the limit,
   while the rest of the limit is held by a parent that waits for children
   further down the heap. The comment on `CompareByHeight`
   (`pkg/storage/object/local_reference.go:223`) says that its order guarantees
   forward progress, which is true of one traversal: there, what is below a
   parent always fits in what was reserved for it. A second caller may ask for an
   object that is lower than the pending child and larger than what is left.
   Neither is answered (`lease_renewing_progress`). The server of `UploadDags`
   takes objects from its heap in the same way
   (`pkg/storage/dag/uploader_server.go:554`).
2. `pkg/storage/dag/uploader_server.go:426`: if a client leaves out the contents
   of an object, which the comment describes as a way to cancel a DAG without
   tearing down the connection, the server releases the share of the limit that
   the object's parent acquired, but not the share acquired for its own
   children. Other DAGs on the stream are never finalized (`dag_cancel`).
3. `pkg/model/evaluation/recursive_computer.go:194`: `isBlockedCyclic()` also
   holds for a key that is merely blocked on a cycle, and what fails is not that
   key but the keys that are blocked on it. If it is a requested key that no
   other key waits for, nothing fails, nothing is enqueued, and the build hangs
   (`evaluation_cycle`).

### Observations without a run

Noticed while modelling. They are outside the instances of the runs, or part of
the model and excepted by the properties.

* `pkg/storage/object/flatbacked/block_device_backed_lease_record_array.go:58`:
  leases are read at offset 36 and written at offset 41.
* `pkg/storage/object/local/persistent_epoch_list.go:202`: a write that opens an
  epoch without raising the maximum location does not wake up the syncer,
  contrary to the comment on `GetLocationsChangedWakeup`. The data is persisted
  when a later write wakes it up, or at shutdown. `EpochsEventuallyPersisted`
  promises only what wakes it up.
* `pkg/storage/object/flatbacked/store.go:103`: calls without leases are told to
  renew leases older than D, whereas `bonanza_storage_shard.proto:38` says that
  this happens if one is older than 2·D.
* `pkg/ds/lossymap/hash_map.go:205`: see the lossy map above.
* `pkg/scheduler/in_memory_build_queue.go:511`: `WaitExecution()` of an operation
  that exists calls `enter()` with the lock held, and neither it nor any other
  call returns after that. Modelled as `wedged`.
* `pkg/scheduler/in_memory_build_queue.go:1676`: removing the last size class of
  a platform queue leaves the platform queue behind, and the next `Execute()`
  (line 472) selects from an empty list. The modelled queue has a size class
  that is predeclared and never removed.
* `pkg/scheduler/in_memory_build_queue.go:1396`: `TerminateWorkers()` assumes that
  a task that executes only changes to being completed, but the channel it waits
  for is also closed by `reportNonFinalStageChange()` (line 2505), so that it may
  return early. The wait is left out of the model.
* `pkg/scheduler/in_memory_build_queue.go:3067`: `Synchronize()` assigns a task
  without looking at whether its call was canceled, and nothing relates it to
  other calls of the same worker. A worker that is asked to shut down cancels
  its call (`pkg/remoteworker/client.go:425`) and makes another one that asks to
  be idle. If the canceled request is handled after that one was answered, a
  task is assigned to a worker that has terminated, contrary to the purpose of
  `schedulerMayThinkExecutingUntil` (`client.go:311` and 413). The task waits
  for the worker to time out. Likewise, if a worker crashes after it gave up on
  a request that reports a failed execution, and the restarted worker is told to
  execute the task again, the late request has the task retried on the largest
  size class while the worker executes it. Both take a request that is delayed
  for longer than the worker's next call takes. Modelled by
  `SynchronizeBelatedly`, and excepted by means of `belated`.
* `pkg/model/evaluation/recursive_computer.go:201`: the loop that fails the keys
  blocked on a key ranges over an array from which these are removed. With two
  or more of them it reaches an element that was set to nil, which it
  dereferences. Modelled as a panic. The run reaches it, and `NoOtherPanic`
  excepts it.
* `pkg/model/evaluation/recursive_computer.go:1097`: `gatherDependencies()`
  hoists dependencies that need to be evaluated again, as their own dependencies
  are not known, but embeds ones that were invalidated, evaluated again and have
  failed. Of these only the dependencies are known that they had asked for until
  then (line 1578), or none (line 1523). If an object of the dependency is lost
  after a key consumed its value, and computing it again fails before the key is
  done, the key's cache entry leaves out dependencies and is a stale hit in a
  later build, which is what the comment on line 1065 warns of. If nothing is
  left to hoist, line 1123 panics, and if what is left is a key that failed
  without ever having had a record, uploading does (lines 1510 and 1554). The
  TODO on line 1079 is about hoisting keys that failed. Modelled, and excepted
  by means of `partial`.
* `pkg/model/evaluation/recursive_computer.go:210`: after failing keys nothing
  may be queued, and the goroutine waits without looking for further cycles.
  With a single evaluating goroutine, the one that breaks a cycle enqueues keys,
  wakes up nobody and waits. The instance has two goroutines.
* `tryInvalidateKeyState()`: a key that is invalidated during its upload remains
  evaluated until that ends. Dependents that restart meanwhile fail again and
  use up the number of retries, and one that began to read before another
  goroutine had the key computed again fails although a retry would do.
  `OnlyFaultsFail` therefore permits failures once any object was lost.

## What is proved

For every graph, every number of objects, threads, callers, keys and slots and
every value of the sizes, durations, limits and moduli that the `ASSUME`s allow:

| Theorem | Statement |
| --- | --- |
| `LocalStoreProofs!TypeCorrect` | `Spec => []TypeOK` |
| `LocalStoreProofs!EpochListAlwaysConsistent` | `Spec => []EpochListConsistent` |
| `LocalStoreProofs!RecordsAlwaysPointToData` | `LocationsSuffice /\ ObjectsFit => (Spec => []RecordsPointToData)` |
| `LocalStoreProofs!RestartAlwaysSafe` | `LocationsSuffice /\ ObjectsFit => (Spec => []RestartSafe)` |
| `LocalStoreProofs!CleanShutdownAlwaysKeepsObjects` | `Spec /\ []EpochIDsSuffice => []CleanShutdownKeepsObjects` |
| `LossyMapProofs!AlwaysOrderedByAge` | `Spec => []OrderedByAge` |
| `LossyMapProofs!GetAlwaysReturnsNewestCopy` | `Spec => []GetReturnsNewestCopy` |
| `LeaseStoreProofs!LeasesAlwaysBacked` | `Spec => []LeasesAreBacked` |
| `LeaseStoreProofs!LeasedGraphsAlwaysExist` | `Spec => []LeasedGraphsExist` |
| `LeaseStoreProofs!RenewalAlwaysSucceeds` | `Spec => []RenewalSucceeds` |
| `LeaseRenewingProofs!ParentsWaitForLiveChildren` | `Spec => []WaitsForLiveChildren` |
| `LeaseRenewingProofs!LimitIsConserved` | `Spec => []LimitConserved` |
| `LeaseRenewingProofs!CallersAreToldTheTruth` | `Spec => []ResultsReflectGraph` |
| `LeaseRenewingProofs!OnlyFaultsLeadToErrors` | `Spec => []NoSpuriousErrors` |
| `DagUploadProofs!ChildrenTellTheirParents` | `Spec => []WaitsForLiveChildren` |
| `DagUploadProofs!UnfinalizedParentsLimitIsConserved` | `Spec => []LimitConserved` |
| `DagUploadProofs!ServerDoesNotPanic` | `Spec => []NoPanic` |
| `DagUploadProofs!UploadKeepsItsPromise` | `Spec => Promise!Init /\ [][Promise!Next]_(Promise!vars)` |
| `RemoteExecutionProofs!RemoteExecutionTyped` | `Spec => []TypeOK` |
| `RemoteExecutionProofs!SchedulerNeverPanics` | `Spec => []NoPanic` |
| `RemoteExecutionProofs!InvocationsAlwaysAccounted` | `Spec => []InvocationsAccounted` |
| `RemoteExecutionProofs!BlockedWorkersNeverMissTasks` | `Spec => []BlockedWorkersHaveNothingToDo` |
| `RemoteExecutionProofs!LearnersAlwaysConcludedOnce` | `Spec => []LearnersConcludedOnce` |
| `RemoteExecutionProofs!DeduplicationAlwaysSound` | `Spec => []DeduplicationIsSound` |
| `RemoteExecutionProofs!OperationsAlwaysReclaimed` | `Spec => []OperationsAreReclaimed` |
| `RemoteExecutionProofs!ExecutionIsNeverDuplicated` | `Spec => []NoDuplicateExecution` |
| `RemoteExecutionProofs!IdleWorkersAlwaysIdle` | `Spec => []IdleWorkersAreIdle` |
| `RemoteExecutionProofs!CompletionsAlwaysCarryEvents` | `Spec => []CompletionsCarryEvents` |

* **LocalStore.** `IInv` is `TypeOK`, `EpochListOK(el)`, `PersistentStateOK` of
  the state file and of the state being written, and `ThreadLocationsOK`. The
  state file has to be part of it since a crash turns it into a list. That the
  maximum locations stay sorted and within the modulus rests on lemmas of
  `EpochListProofs`, one per operator: what `FinalizeWriteUpToLocation` and
  `DiscardUpToLocation` do to a well-formed list, that `GetPersistentState` of
  one is well-formed, and that `NewPersistentEpochList` of a well-formed state
  is a well-formed list, also if the increments wrap.
* **LocalStore, crashes.** `SInv` adds four parts to `IInv`. `PlacesInv` orders
  the cursor, the ends of epochs, the resumption point of the state file and the
  writes under way, none of which is lapped. `SeedsInv` says that a seed names at
  most one epoch, and that an epoch of the state file that is still in the list
  is not written to any more. `RecordsInv` says of each record, in memory or on
  the device, that if its seed is that of an epoch of the list, its data is in
  the ring, and if that epoch is one that was synchronized or that the state file
  lists, the data is durable too. `WrittenInv` says that calls about to finalize
  have written their bytes. A record is judged by its seed and not its
  epoch ID, as IDs are reused; this is what makes the parts inductive across
  restarts. The hypothesis `LocationsSuffice` excludes that the cursor wraps: all
  that is ever allocated, and the ring, make up less than half of the locations,
  of which the code has 2^64. `ObjectsFit` says that no object exceeds the span
  of the ring. The run `local_store_shutdown` satisfies both.
* **LocalStore, shutdown.** `ShutdownInv` follows the syncer: after the last
  call of `NotifySyncStarting` the list is closed and all of its epochs are
  being synchronized, then are synchronized, and the state that is written
  reloads to a list under which every valid record is still valid. That uses the
  reloading lemma with wrapping locations. `EpochIDsSuffice`, at most
  `EpochIDModulus` epochs at a time, is needed for an ID to identify one of
  them.
* **LossyMap.** `IInv` is `TypeOK`, `OrderedByAge`, which already speaks of the
  record that a `Put` is carrying, and `ZeroKeyOldest`, that a record without a
  key has the lowest value. A step only ever raises the value in a slot
  (`RecordsGrow`): an expired record is below the bound, and what is below the
  bound is not written. Raising values keeps probe sequences ordered.
  `GetReturnsNewestCopy` follows from the
  invariant alone, by taking the first attempt at which a copy is found.
* **LeaseStore.** `IInv` adds three parts to `TypeOK` and `LeasesAreBacked`:
  `Retained` (what was confirmed within the retention exists),
  `NothingInTheFuture` (no lease is later than the clock) and `CallsBacked` (a
  call's clock is at most the confirmation it got, and the leases it provides
  were handed out). `LeasedGraphsExist` follows without induction on heights:
  the set of objects whose lease is recent enough for their height is closed
  under children by `LeasesAreBacked` and contained in `exists` by `Retained`,
  so everything reachable from a member exists.
  `RenewalSucceeds` needs `RenewalsBacked`: for a caller that is between the
  call that listed the wanted leases and the one that provides them, each child
  that was not wanted still has a lease in the map that is at most D older than
  the clock of the first call. Other callers only store later leases
  (`LeasesGrow`), and the property excuses evictions. If the second call is in
  time, the lease is at most 2·D older than its clock, which is its cutoff.
* **LeaseRenewing.** `Structure` is what makes `WaitsForLiveChildren` inductive.
  Its parts: states that can be found by reference are live
  (`ReferencesAreLive`), a state only lists parents that wait, and lists each
  once (`ParentsWait`), wanted leases are of children (`WantedAreChildren`), and
  the recursion of `finalizeObjectLocked` goes from a state to one of its
  parents (`Stacks`). The last part is what the lock being released in the
  middle of the loop over parents puts at risk. Given `Structure`, each action
  changes what one or two states hold of the limit; `LimitConserved` follows
  from the lemmas of `ObjectLimitProofs`. `Truth` attaches to every stage of a
  state what it knows about the graph below its object: leases are of complete
  graphs, a failed renewal of a child without errors means that its graph is
  not complete, and a first answer that listed wanted leases leaves no other
  child unexplained. Graphs are related to those of children by one lemma,
  `GraphOf`, since reachability is a closure. `Innocence` states which of these
  answers are impossible as long as there were no faults.
* **DagUpload.** `Structure` has the same parts for the server, where an object
  is shared by all indices under which the client knows it, and adds
  which fields may be set at which stage of a finalization (`FinalizationOK`),
  that finalizations nest without repetition (`StackOK`), that the queues of
  messages hold objects of the right stage, once (`QueuesOK`), and that the
  client starts its one DAG with its first message and never leaves out contents
  (`RequestsOK`). Without the last one `LimitConserved` is false, as the first
  finding above shows. The limit is a sum over all states, of what an object
  holds at its stage and what the goroutine that finalized it has yet to return.
  `Counted` says where the DAG is: its root is open, or its tag is held by the
  root, being written, or about to be reported, and in exactly one of these
  places. It bounds `unfinalizedDAGsCount`. `Truth` says that reports are true
  from the moment that they are queued until the client acts on them. Its part
  about the client needs that the root is below nothing that it is above of, so
  that its index remains zero and a report for another index cannot be taken
  for that of the root. The refinement is a step simulation: `PutObject` is a
  `Store` step of UploadPromise, `UpdateTag` is `WriteTag`, the client's receipt
  of the end of the stream is `Succeed`, its error paths are `Fail`, and all
  others stutter.

* **RemoteExecution.** The invariant and the relations that describe steps are
  in `RemoteExecutionInvariant`. A step of the scheduler applies several methods
  to its state, so the invariant is stated of a state half-way a step, with
  parameters for what does not hold yet: `Halfway(s, X, E, n, cl, P)`, where `X`
  are tasks that are in no queue and at no worker, `E` are invocations that may
  be empty, `n` counts handles that belong to no task, and `P` are operations
  whose client has yet to start waiting. `SchedulerInv` is the case in which
  there are none of these. Its parts are the properties of the runs and what
  they need: size classes of pending tasks exist and have a root (`RootsOK`),
  tasks have operations (`TasksOK`), workers that wait for being undrained have
  no task (`WaitingOK`), no client waits for background learning (`ClientsOK`),
  and a learner on the largest size class belongs to a task on it, while a
  completed task that somebody asked for failed or has its event (`LearnersOK`).
  Each method is shown to satisfy a relation between its states, and each
  relation to preserve the parts, so that the proof of an action composes lemmas
  about methods. Methods that loop over a set of tasks are folds; that the fold
  fails them one after another is shown with a smallest set for which it does
  not. `Evolves` and `Quiet` summarize a step for the worker processes: no
  pending task moves from one worker to another, other than the one that worker
  reports as completed, and workers that are idle stay so. `ProcessesOK` then is
  inductive: what a process executes is, if still pending, assigned to it
  (`HeldBy`), and a process that believes to be idle is. `NoDuplicateExecution`
  needs both, as a worker may still execute a task that the scheduler has given
  up on. It is stated of the workers that are not in `belated`. `RequestsOK`
  says of abandoned requests that they are well-formed, and no more: nothing can
  be said about when they are handled. So the effect of one on its own worker is
  unconstrained, which puts that worker in `belated` until the scheduler answers
  it, and the proof has to show that it leaves the processes of all other
  workers alone, and that an answer restores what is claimed of the worker
  itself.

TLC checked each of these invariants on the instance of the corresponding run
before it was proved. Sums over sets of states are taken with the folds of the
community modules; that a sum changes by as much as one of its terms is shown
with the theorems on finite sets, by looking at a smallest set for which it does
not hold.

The proofs assume what the modules' `ASSUME`s say (heights decrease towards
children, only leaves have height zero, moduli and sizes are positive, time
starts later than 2·D, there is a largest size class, and sets of clients,
workers and invocation keys are finite and have no names in common) and the
environment assumptions that are guards in the models. Bounds on faults and on
the number of states are constants of any value. `MaxStates` of LeaseRenewing is
one of them: a step that would need more states waits, so that addresses are
from a finite set.

Only model-checked:

* `AcknowledgedIsReadable` of LocalStore, an action property about a decision
  that was based on an earlier cursor, and the crash properties for cursors and
  seeds beyond the hypotheses above: `local_store_crash` starts so close to the
  limit that locations wrap around.
* `OlderVersionNeverReappears` of LossyMap, which is false if records can be
  displaced more often than `MaximumPutAttempts` permits. The observations above
  describe it, and the run's instance permits enough attempts.
* `OnlyFaultsFailUploads` and `WalkersReleased` of DagUpload. They need that
  client and server agree on the index of every object with all messages in
  transit taken into account, which the invariants above avoid.
* Evaluation. Its cache holds evaluations of earlier builds, whose dependencies
  are walked recursively, so that `ResultsAreRight` is an induction over data.
* Liveness, including that an upload ends, which is the fairness part of
  `ImplementsPromise`: it is out of the prover's reach, as is `ENABLED`.

No module has a RECURSIVE operator, so that all of them can be proved about.

## Not modelled, and the plan

In order of importance:

1. Proofs about the existing modules: `KeysAccounted` of Evaluation; the
   agreement on reference indices in DagUpload; `RecordsPointToData` for a cursor
   that wraps around.
2. `Mirrored`: two LeaseStores behind `mirrored/uploader.go`, the merge of wanted
   leases, and the replication loop, showing that the pair implements the
   backend of LeaseRenewing.
3. `TagStore`: `tag/local` on top of LossyMap, and the lease renewing resolver's
   write back racing with updates.
4. Composition: LocalStore with LossyMap's displacement; an abstract map with
   forgetting that LossyMap implements; LocalStore implementing the retention
   guarantee that LeaseStore assumes.
5. Scheduler: platform queues that are not predeclared, deeper trees of
   invocations and the order of their heaps. Evaluation: several queues, and the
   evaluations that a build returns.

The volatile epoch list and the in-memory arrays are subsets of the persistent
ones. Decorators that forward calls, gRPC marshaling, metrics, configuration
parsing, encryption and encodings, page rank, the semantics of analysis and
Starlark, and user interfaces are left out: they are either free of state or
functions over data too large for a model checker, for which unit tests are the
better tool.

## Running the checks

    tlc -workers 2 -config LocalStoreCrash.cfg MCLocalStore
    tlapm LocalStoreProofs.tla

and likewise for the other runs of `PROJECT.json` and proof modules. Every run
takes at most a few minutes on two cores.
