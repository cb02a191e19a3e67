----------------------------- MODULE Evaluation -----------------------------
(***************************************************************************)
(* RecursiveComputer: the evaluation of the keys of a build, of which the  *)
(* values depend on those of others.                                       *)
(*                                                                         *)
(* Goroutines that evaluate keys restart the computation of a key when the *)
(* values that it turned out to need are there.  Others upload the values, *)
(* for later builds to use.  A build may find in the cache what an earlier *)
(* one stored, provided that the values of the dependencies that are       *)
(* listed there are the same.  The objects of the cache may get lost.      *)
(*                                                                         *)
(* What is computed is abstracted to what it depends on: the value of a    *)
(* key is the set of overrides that it is made of, and their values.  All  *)
(* keys share one evaluation queue.  Timestamps, progress messages and the *)
(* evaluations that are returned at the end of a build are left out.       *)
(***************************************************************************)
EXTENDS Naturals, Sequences, FiniteSets, SequencesExt

CONSTANTS
    Keys,
    Reference,          \* The order of keys by their raw references.
    Overrides,          \* The keys of which the build provides the values.
    NativeKeys,         \* Keys whose values are only kept in memory.
    LookupKeys,         \* Keys that only look up data in others.
    Requested,          \* The keys that the build asks for.
    Builds,             \* What builds that follow each other override: a set of
                        \* sequences of functions of Overrides.
    Dependencies(_, _), \* What the computation of a key asks for, given the overrides.
    Evaluators,         \* Goroutines that call ProcessNextEvaluatableKey().
    Uploaders,          \* Goroutines that call ProcessNextUploadableKey().
    MaximumMissingObjectRetries,
    MaxEvents,          \* Bound on lost objects, failing computations and further builds.
    None

ASSUME EvaluationAssumption ==
    /\ Reference \in [Keys -> Nat] /\ IsInjective(Reference)
    /\ Overrides \cup NativeKeys \cup LookupKeys \cup Requested \subseteq Keys
    /\ Overrides \cap (NativeKeys \cup Requested) = {}
    /\ \A builds \in Builds : builds # <<>> /\ \A n \in DOMAIN builds : DOMAIN builds[n] = Overrides
    /\ {MaximumMissingObjectRetries, MaxEvents} \subseteq Nat

VARIABLES
    build,       \* What the build overrides, and the ones that are to come.
    rc,          \* The state of the RecursiveComputer.
    evaluators,  \* What each of the goroutines does that evaluate keys.
    uploaders,   \* What each of the goroutines does that upload values.
    storage,     \* The cache, and the keys whose objects cannot be read.
    events,      \* The number of MaxEvents so far.
    faults,      \* History: the kinds of faults that there have been.
    partial      \* History: a failed key was embedded in the entry of another.

history == <<events, faults, partial>>
vars == <<build, rc, evaluators, uploaders, storage, history>>

(***************************************************************************)
(* The outcome of code that is only correct if ok holds, and panics        *)
(* otherwise.  Nothing happens after a panic.                              *)
(***************************************************************************)
Unless(ok, s, next) ==
    IF ok /\ ~s.panicked THEN next ELSE [s EXCEPT !.panicked = TRUE]

\* Sequential composition: what F makes of the state s.
Then(s, F(_)) == CHOOSE v \in {IF u.panicked THEN u ELSE F(u) : u \in {s}} : TRUE

\* The keys that can be reached from those of S in steps of Successors.
Closure(S, Successors(_)) ==
    FoldSet(LAMBDA n, T : T \cup UNION {Successors(k) : k \in T}, S, 1 .. Cardinality(Keys))

Event == events < MaxEvents /\ events' = events + 1
Fault(kind) == Event /\ kind \notin faults /\ faults' = faults \cup {kind}

-----------------------------------------------------------------------------
(***************************************************************************)
(* Value states.  Keys that still need to be evaluated are going to look   *)
(* in the cache (initial) or not (computing).  Values that were computed   *)
(* are in memory, until they are uploaded.  Native ones cannot be.  The    *)
(* record is what others that depend on the key are looked up with, of     *)
(* which keys that are computed again and failed ones keep the last one.   *)
(* A key that failed is made of the variable dependencies that it had      *)
(* asked for until then, and one that is being computed remembers those of *)
(* the last attempt.                                                       *)
(***************************************************************************)
State(kind, value, hoisted, record) ==
    [kind |-> kind, value |-> value, hoisted |-> hoisted, record |-> record, err |-> None]

initialMessageValueState == State("initial", {}, {}, None)
computingValueState(direct, record) == State("computing", {}, direct, record)
failedValueState(err, direct, record) ==
    [State("failed", {}, direct, record) EXCEPT !.err = err]
evaluatedState(kind, value, hoisted) ==
    State(kind, value, hoisted, IF value = {} THEN None ELSE value)
overriddenMessageValueState(k, v) == evaluatedState("overridden", {<<k, v>>}, {})

newInitialValueState(k) ==
    IF k \in NativeKeys THEN computingValueState({}, None) ELSE initialMessageValueState

isEvaluated(vs) == vs.kind \notin {"initial", "computing"}

isVariableDependency(vs) == vs.value # {}

\* Only values that are read from storage can be invalidated.
CanInvalidate(vs) == vs.kind = "uploaded"

\* Mutant: what others are looked up with is discarded along with the value.
invalidateForgets(vs) == computingValueState({}, None)

invalidate(vs) == computingValueState({}, vs.record)

-----------------------------------------------------------------------------
(***************************************************************************)
(* Key states and the lists that they are in.  The order of the keys that  *)
(* are queued, blocked, or about to be uploaded is that of the code.  The  *)
(* order of the others has no effect.                                      *)
(***************************************************************************)
NewKeyState(vs) ==
    [exists |-> FALSE, hasMessage |-> FALSE, valueState |-> vs, list |-> None,
     blockedCount |-> 0, blocking |-> <<>>, waiter |-> "none",
     invalidateAfterUpload |-> FALSE, cacheInvalidations |-> 0, missingObjectRetries |-> 0]

Ordered == {"queued", "blocked", "evaluated"}

pushLast(s, l, k) ==
    Unless(s.keys[k].list = None, s,
        [s EXCEPT !.keys[k].list = l,
                  !.lists = IF l \in Ordered THEN [@ EXCEPT ![l] = Append(@, k)] ELSE @])

removeFrom(s, l, k) ==
    Unless(s.keys[k].list = l, s,
        [s EXCEPT !.keys[k].list = None,
                  !.lists = IF l \in Ordered THEN [@ EXCEPT ![l] = Remove(@, k)] ELSE @])

\* Mutant: goroutines that wait are not woken up.
enqueueForEvaluationSilently(s, k) == pushLast(s, "queued", k)

\* The broadcast of queuedKeysWait has every goroutine look at the queue.
enqueueForEvaluation(s, k) ==
    Then(pushLast(s, "queued", k), LAMBDA u : [u EXCEPT !.waiting = {}])

getOrCreateKeyState(s, k) ==
    IF s.keys[k].exists THEN [s EXCEPT !.keys[k].hasMessage = TRUE]
    ELSE enqueueForEvaluation(
             [s EXCEPT !.keys[k].exists = TRUE, !.keys[k].hasMessage = TRUE], k)

\* One of the keys that a key was blocked on has been evaluated.
unblock(s, k) ==
    Unless(s.keys[k].blockedCount > 0, s,
        Then([s EXCEPT !.keys[k].blockedCount = @ - 1],
             LAMBDA u : IF u.keys[k].blockedCount > 0 THEN u
                        ELSE enqueueForEvaluation(removeFrom(u, "blocked", k), k)))

\* Mutant: the keys that were blocked remain in the list.
evaluatedKeyStateKeepsBlocking(s, k) ==
    Unless(isEvaluated(s.keys[k].valueState), s,
        Then(FoldLeft(unblock, s, s.keys[k].blocking),
             LAMBDA u : pushLast([u EXCEPT !.keys[k].waiter = IF @ = "waiting" THEN "woken" ELSE @],
                                 "evaluated", k)))

evaluatedKeyState(s, k) ==
    Unless(isEvaluated(s.keys[k].valueState), s,
        Then(FoldLeft(unblock, s, s.keys[k].blocking),
             LAMBDA u : pushLast([u EXCEPT !.keys[k].blocking = <<>>,
                                           !.keys[k].waiter = IF @ = "waiting" THEN "woken" ELSE @],
                                 "evaluated", k)))

tryInvalidateKeyState(s, k) ==
    LET ks == s.keys[k] IN
    CASE ~isEvaluated(ks.valueState) -> [ok |-> TRUE, s |-> s]
      [] /\ isEvaluated(ks.valueState)
         /\ \/ ks.cacheInvalidations >= MaximumMissingObjectRetries
            \/ ~CanInvalidate(ks.valueState)
            \/ ks.list \notin {"uploading", "evaluated", "completed"} -> [ok |-> FALSE, s |-> s]
      [] OTHER ->
           LET counted == [s EXCEPT !.keys[k].cacheInvalidations = @ + 1] IN
           [ok |-> TRUE,
            s |-> IF ks.list = "uploading"
                  THEN [counted EXCEPT !.keys[k].invalidateAfterUpload = TRUE]
                  ELSE Then(removeFrom(counted, ks.list, k),
                            LAMBDA u : enqueueForEvaluation(
                                [u EXCEPT !.keys[k].valueState = invalidate(ks.valueState)], k))]

\* The keys of D that were invalidated, and what became of the state.
invalidateConsumedDependencies(s, k, D) ==
    LET Step(r, d) == LET t == tryInvalidateKeyState(r.s, d)
                      IN  [s |-> t.s, keys |-> r.keys \cup IF t.ok THEN {d} ELSE {}]
        r == FoldLeft(Step, [s |-> s, keys |-> {}], SetToSeq(D))
    IN  IF s.keys[k].missingObjectRetries >= MaximumMissingObjectRetries
        THEN [s |-> s, keys |-> {}]
        ELSE [r EXCEPT !.s.keys[k].missingObjectRetries = @ + IF r.keys = {} THEN 0 ELSE 1]

-----------------------------------------------------------------------------
(***************************************************************************)
(* Cycles.  They are looked for when no key is queued or being evaluated,  *)
(* by a goroutine that is about to wait.  As dependencies may be those of  *)
(* earlier builds, the keys on a cycle, or blocked on one, that are        *)
(* looking in the cache are computed instead.  If there are none, the keys *)
(* that are blocked on the first of the others fail.                       *)
(***************************************************************************)
blockedOn(s, k) == {d \in Keys : \E i \in DOMAIN s.keys[d].blocking : s.keys[d].blocking[i] = k}

isBlockedCyclic(s, k) ==
    LET Blockers(d) == blockedOn(s, d)
    IN  \E d \in Closure({k}, Blockers) : d \in Closure(Blockers(d), Blockers)

forceUnblockKeyState(s, k, blockers) ==
    Unless(s.keys[k].blockedCount = Cardinality(blockers), s,
        removeFrom([s EXCEPT !.keys = [d \in Keys |->
                       IF d \in blockers THEN [s.keys[d] EXCEPT !.blocking = RemoveFirst(@, k)]
                       ELSE s.keys[d]],
                             !.keys[k].blockedCount = 0],
                   "blocked", k))

\* Mutant: the dependencies of earlier builds are taken for real ones.
disableCacheLookupFails(s, k) ==
    Then(forceUnblockKeyState(s, k, blockedOn(s, k)),
         LAMBDA u : evaluatedKeyState(
             [u EXCEPT !.keys[k].valueState = failedValueState("cycle", {}, None)], k))

\* If a key is looking in the cache, have it computed.
disableCacheLookup(s, k) ==
    Then(forceUnblockKeyState(s, k, blockedOn(s, k)),
         LAMBDA u : enqueueForEvaluation(
             [u EXCEPT !.keys[k].valueState = computingValueState({}, None)], k))

gotFailedDependency(s, k) ==
    Unless(s.keys[k].valueState.kind = "computing", s,
        [s EXCEPT !.keys[k].valueState = failedValueState("cycle", @.hoisted, @.record)])

(***************************************************************************)
(* The loop over the keys that are blocked on ksCyclic removes them from   *)
(* the array that it iterates over, and leaves nil in its last element.    *)
(* It therefore only gets to the end if there is at most one of them.      *)
(***************************************************************************)
failBlockedOn(s, ksCyclic) ==
    LET Fail(u, k) == Then(gotFailedDependency(forceUnblockKeyState(u, k, blockedOn(u, k)), k),
                           LAMBDA v : evaluatedKeyState(v, k))
    IN  Unless(Len(s.keys[ksCyclic].blocking) <= 1, s, FoldLeft(Fail, s, s.keys[ksCyclic].blocking))

blockedCyclic(s) == SelectSeq(s.lists["blocked"], LAMBDA k : isBlockedCyclic(s, k))

breakCycles(s) ==
    LET cyclic == blockedCyclic(s)
        lookups == SelectSeq(cyclic, LAMBDA k : s.keys[k].valueState.kind = "initial")
    IN  CASE s.lists["blocked"] = <<>> \/ \E k \in Keys : s.keys[k].list = "evaluating" -> s
          [] OTHER -> Unless(cyclic # <<>>, s,
                          IF lookups # <<>> THEN FoldLeft(disableCacheLookup, s, lookups)
                          ELSE failBlockedOn(s, Head(cyclic)))

-----------------------------------------------------------------------------
(***************************************************************************)
(* The dependencies of the cache entry of a key.  Those with lower         *)
(* references are embedded in it, except for ones that are overridden,     *)
(* that only look up data, or that need to be evaluated again.  What they  *)
(* are made of in turn takes their place.                                  *)
(***************************************************************************)
\* Mutant: keys that were invalidated since they were consumed are embedded too.
NestsStale(s, k, d) ==
    /\ Reference[d] < Reference[k]
    /\ d \notin LookupKeys \cup Overrides

Nests(s, k, d) ==
    /\ Reference[d] < Reference[k]
    /\ isEvaluated(s.keys[d].valueState)
    /\ d \notin LookupKeys \cup Overrides

\* The dependencies that the entry of a key is about, embedded ones included.
Gathered(s, k, direct) ==
    LET Nested(d) == IF Nests(s, k, d) THEN s.keys[d].valueState.hoisted ELSE {}
    IN  Closure(direct, Nested) \ {k}

gatherDependencies(s, k, direct) == {d \in Gathered(s, k, direct) : ~Nests(s, k, d)}

\* A dependency is embedded that failed since it was consumed, of which not
\* all that it is made of need to be known.
NestsFailed(s, k, direct) ==
    \E d \in Gathered(s, k, direct) :
        Nests(s, k, d) /\ s.keys[d].valueState.kind = "failed"

\* What the code finds the cache entries of a key with, given its dependencies.
Frontier(s, D) == [d \in D |-> s.keys[d].valueState.record]

Graphlets(k, frontier) == {g \in storage.graphlets : g.key = k /\ g.frontier = frontier}

-----------------------------------------------------------------------------
(***************************************************************************)
(* Goroutines that evaluate keys.  The fields of one that is evaluating    *)
(* are those of recursivelyComputingEnvironment: the dependencies it still *)
(* has to request, the ones that turned out to be missing, that are        *)
(* variable, and that were consumed, and the value up to now.              *)
(***************************************************************************)
Looking == [pc |-> "looking", key |-> None, vs |-> None, todo |-> <<>>, reading |-> None,
            missing |-> {}, direct |-> {}, consumed |-> {}, stored |-> {}, value |-> {},
            err |-> None]

At(e, pc) == ~rc.panicked /\ evaluators[e].pc = pc /\ e \notin rc.waiting

\* The evaluation of a key proceeds to computing its value.
Computing(env, record) ==
    [env EXCEPT !.pc = "computing", !.vs = computingValueState({}, record),
                !.todo = Dependencies(build.inputs, env.key)]

\* The evaluation of a key returns with a new value state.
Returns(env, vs, missing) == [env EXCEPT !.pc = "finishing", !.vs = vs, !.missing = missing]

\* The key was evaluated, has to wait for others, or can be tried again.
finish(s, k, vs, missing) ==
    LET D == {d \in missing : ~isEvaluated(s.keys[d].valueState)}
        Block(u) == pushLast([u EXCEPT !.keys = [d \in Keys |->
                                  IF d \in D THEN [u.keys[d] EXCEPT !.blocking = Append(@, k)]
                                  ELSE u.keys[d]],
                                       !.keys[k].blockedCount = Cardinality(D)], "blocked", k)
    IN  IF isEvaluated(s.keys[k].valueState) THEN removeFrom(s, "evaluating", k) ELSE
        Then(removeFrom([s EXCEPT !.keys[k].valueState = vs], "evaluating", k),
             LAMBDA u : CASE missing = {} -> evaluatedKeyState(u, k)
                          [] missing # {} /\ D = {} -> enqueueForEvaluation(u, k)
                          [] OTHER -> Unless(u.keys[k].blockedCount = 0, u, Block(u)))

\* Take the first key from the queue.
PopKey(e) ==
    LET k == Head(rc.lists["queued"])
        env == [Looking EXCEPT !.key = k]
        vs == rc.keys[k].valueState
    IN  /\ At(e, "looking")
        /\ rc.lists["queued"] # <<>>
        /\ rc' = Then(removeFrom(rc, "queued", k),
                      LAMBDA u : Unless(~isEvaluated(vs), u, pushLast(u, "evaluating", k)))
        /\ evaluators' = [evaluators EXCEPT ![e] =
               IF vs.kind = "initial" THEN [env EXCEPT !.pc = "lookup", !.vs = vs]
               ELSE Computing(env, vs.record)]
        /\ UNCHANGED <<build, uploaders, storage, history>>

\* Wait for a key to be queued, having broken any cycles.
WaitForKey(e) ==
    /\ At(e, "looking")
    /\ rc.lists["queued"] = <<>>
    /\ rc' = Then(breakCycles(rc), LAMBDA u : [u EXCEPT !.waiting = @ \cup {e}])
    /\ UNCHANGED <<build, evaluators, uploaders, storage, history>>

(***************************************************************************)
(* Look for a key in the cache.  The keys that its entry depends on have   *)
(* to be evaluated first.  Ones that are new, or overridden and not asked  *)
(* for before, are treated as if they were not.                            *)
(***************************************************************************)
Lookup(e) ==
    LET env == evaluators[e]
        k == env.key
        root == storage.root[k]
        D == root.dependencies
        evaluated == {d \in D : rc.keys[d].hasMessage /\ isEvaluated(rc.keys[d].valueState)}
        unknown == {d \in D : ~rc.keys[d].hasMessage}
        unusable == {d \in evaluated : ~isVariableDependency(rc.keys[d].valueState)}
        hits == Graphlets(k, Frontier(rc, D))
        miss == Computing(env, None)
    IN  /\ At(e, "lookup")
        /\ evaluators' = [evaluators EXCEPT ![e] =
               CASE root.kind = "none" \/ unusable # {} -> miss
                 [] root.kind = "value" ->
                      IF k \in storage.lost THEN miss
                      ELSE Returns(env, evaluatedState("uploaded", {}, {}), {})
                 [] root.kind = "initial" /\ unusable = {} /\ evaluated # D ->
                      Returns(env, env.vs, D \ evaluated)
                 [] OTHER ->
                      IF hits = {} \/ k \in storage.lost THEN miss
                      ELSE Returns(env, evaluatedState("uploaded", (CHOOSE g \in hits : TRUE).value, D), {})]
        /\ rc' = IF unusable # {} THEN rc
                 ELSE FoldLeft(getOrCreateKeyState, rc, SetToSeq(unknown))
        /\ UNCHANGED <<build, uploaders, storage, history>>

\* A dependency of the key is consumed, in the value state vs.
Consume(env, d, vs) ==
    [env EXCEPT !.consumed = @ \cup {d}, !.value = @ \cup vs.value,
                !.direct = @ \cup IF isVariableDependency(vs) THEN {d} ELSE {}]

\* GetMessageValue() or GetNativeValue(), up to the point where the value is
\* read from storage.
RequestDependency(e) ==
    LET d == Head(evaluators[e].todo)
        env == [evaluators[e] EXCEPT !.todo = Tail(@)]
        s == getOrCreateKeyState(rc, d)
        vs == s.keys[d].valueState
    IN  /\ At(e, "computing") /\ evaluators[e].todo # <<>>
        /\ rc' = s
        /\ evaluators' = [evaluators EXCEPT ![e] =
               CASE ~isEvaluated(vs) -> [env EXCEPT !.missing = @ \cup {d}]
                 [] vs.kind = "failed" -> [env EXCEPT !.direct = @ \cup {d},
                                                      !.err = IF @ = None THEN vs.err ELSE @]
                 [] vs.kind = "uploaded" -> [Consume(env, d, vs) EXCEPT !.pc = "reading", !.reading = d]
                 [] OTHER -> Consume(env, d, vs)]
        /\ UNCHANGED <<build, uploaders, storage, history>>

\* The value of a dependency is read from storage.
ReadDependency(e) ==
    LET env == evaluators[e]
        d == env.reading
        read == [env EXCEPT !.pc = "computing", !.reading = None]
        t == tryInvalidateKeyState(rc, d)
    IN  /\ At(e, "reading")
        /\ rc' = IF d \in storage.lost THEN t.s ELSE rc
        /\ evaluators' = [evaluators EXCEPT ![e] =
               CASE d \notin storage.lost -> [read EXCEPT !.stored = @ \cup {d}]
                 [] d \in storage.lost /\ t.ok ->
                      [read EXCEPT !.direct = @ \ {d}, !.consumed = @ \ {d},
                                   !.missing = @ \cup {d}]
                 [] OTHER -> [read EXCEPT !.err = IF @ = None THEN "lost" ELSE @]]
        /\ UNCHANGED <<build, uploaders, storage, history>>

\* The computation returns ErrMissingDependency.  It may do so as soon as it
\* failed to obtain a value.
ComputeIncomplete(e) ==
    LET env == evaluators[e] IN
    /\ At(e, "computing")
    /\ env.missing # {} \/ env.err # None
    /\ rc' = IF env.err # None
             THEN finish(rc, env.key, failedValueState(env.err, env.direct, env.vs.record), {})
             ELSE finish(rc, env.key, computingValueState(env.direct, env.vs.record), env.missing)
    /\ evaluators' = [evaluators EXCEPT ![e] = Looking]
    /\ UNCHANGED <<build, uploaders, storage, history>>

\* The computation returns a value.
ComputeSucceeds(e) ==
    LET env == evaluators[e]
        hoisted == gatherDependencies(rc, env.key, env.direct)
        kind == IF env.key \in NativeKeys THEN "native" ELSE "computed"
    IN  /\ At(e, "computing")
        /\ env.todo = <<>> /\ env.missing = {} /\ env.err = None
        /\ rc' = Unless(env.direct = {} \/ hoisted # {}, rc,
                        finish(rc, env.key, evaluatedState(kind, env.value, hoisted), {}))
        /\ evaluators' = [evaluators EXCEPT ![e] = Looking]
        /\ partial' = (partial \/ NestsFailed(rc, env.key, env.direct))
        /\ UNCHANGED <<build, uploaders, storage, events, faults>>

\* The computation finds an object missing that a value refers to which was
\* read from storage.
ComputeMissesObject(e) ==
    LET env == evaluators[e]
        t == invalidateConsumedDependencies(rc, env.key, env.consumed)
    IN  /\ At(e, "computing")
        /\ env.todo = <<>> /\ env.missing = {} /\ env.err = None
        /\ env.stored \cap storage.lost # {}
        /\ rc' = t.s
        /\ evaluators' = [evaluators EXCEPT ![e] =
               IF t.keys = {}
               THEN Returns(env, failedValueState("lost", env.direct, env.vs.record), {})
               ELSE Returns(env, computingValueState(env.direct, env.vs.record), t.keys)]
        /\ UNCHANGED <<build, uploaders, storage, history>>

\* The lookup or the computation fails for a reason of its own.
EvaluationFails(e) ==
    LET env == evaluators[e] IN
    /\ At(e, "lookup") \/ At(e, "computing")
    /\ Fault("failure")
    /\ rc' = finish(rc, env.key, failedValueState("error", env.direct, env.vs.record), {})
    /\ evaluators' = [evaluators EXCEPT ![e] = Looking]
    /\ UNCHANGED <<build, uploaders, storage, partial>>

\* The lock is taken again after a lookup or an invalidation.
FinishKey(e) ==
    LET env == evaluators[e] IN
    /\ At(e, "finishing")
    /\ rc' = finish(rc, env.key, env.vs, env.missing)
    /\ evaluators' = [evaluators EXCEPT ![e] = Looking]
    /\ UNCHANGED <<build, uploaders, storage, history>>

-----------------------------------------------------------------------------
(***************************************************************************)
(* Goroutines that upload values.  Of a value with dependencies the list   *)
(* of its dependencies is stored, and the value under what these are.  The *)
(* entry for the direct dependencies, which no lookup asks for, is left    *)
(* out.                                                                    *)
(***************************************************************************)
Idle == [pc |-> "idle", key |-> None, vs |-> None, todo |-> {}]

UploaderAt(u, pc) == ~rc.panicked /\ uploaders[u].pc = pc

\* Take the first key that was evaluated.
PopUpload(u) ==
    LET k == Head(rc.lists["evaluated"])
        vs == rc.keys[k].valueState
    IN  /\ UploaderAt(u, "idle")
        /\ rc.lists["evaluated"] # <<>>
        /\ rc' = Then(removeFrom(rc, "evaluated", k),
                      LAMBDA s : Unless(isEvaluated(vs) /\ vs.kind # "overridden", s,
                                        pushLast(s, "uploading", k)))
        /\ uploaders' = [uploaders EXCEPT ![u] =
               [pc |-> "uploading", key |-> k, vs |-> vs,
                todo |-> CASE vs.kind # "computed" -> {}
                           [] vs.kind = "computed" /\ vs.hoisted = {} -> {"value"}
                           [] OTHER -> {"initial", "graphlet"}]]
        /\ UNCHANGED <<build, evaluators, storage, history>>

\* The graphlet cannot be built, because the evaluation of a dependency that
\* is to be embedded is no longer in storage.  The cache is left alone.
MissGraphlet(u) ==
    /\ UploaderAt(u, "uploading")
    /\ uploaders[u].todo = {"initial", "graphlet"}
    /\ storage.lost # {}
    /\ uploaders' = [uploaders EXCEPT ![u].todo = {}]
    /\ UNCHANGED <<build, rc, evaluators, storage, history>>

\* Upload a value that no override has an influence on.
StoreValue(u) ==
    LET k == uploaders[u].key IN
    /\ UploaderAt(u, "uploading") /\ "value" \in uploaders[u].todo
    /\ storage' = [storage EXCEPT !.root[k] = [kind |-> "value", dependencies |-> {}],
                                  !.lost = @ \ {k}]
    /\ uploaders' = [uploaders EXCEPT ![u].todo = {}, ![u].vs.kind = "uploaded"]
    /\ UNCHANGED <<build, rc, evaluators, history>>

\* Upload the initial lookup result.
StoreInitial(u) ==
    LET k == uploaders[u].key IN
    /\ UploaderAt(u, "uploading") /\ "initial" \in uploaders[u].todo
    /\ storage' = [storage EXCEPT !.root[k] =
                      [kind |-> "initial", dependencies |-> uploaders[u].vs.hoisted]]
    /\ uploaders' = [uploaders EXCEPT ![u].todo = @ \ {"initial"}]
    /\ UNCHANGED <<build, rc, evaluators, history>>

\* Upload the graphlet, under the values that its dependencies have now.
StoreGraphlet(u) ==
    LET k == uploaders[u].key
        vs == uploaders[u].vs
        frontier == Frontier(rc, vs.hoisted)
        g == [key |-> k, frontier |-> frontier, value |-> vs.value]
    IN  /\ UploaderAt(u, "uploading") /\ "graphlet" \in uploaders[u].todo
        /\ rc' = Unless(\A d \in vs.hoisted : frontier[d] # None, rc, rc)
        /\ storage' = [storage EXCEPT !.graphlets = (@ \ Graphlets(k, frontier)) \cup {g},
                                      !.lost = @ \ {k}]
        /\ uploaders' = [uploaders EXCEPT ![u].todo = @ \ {"graphlet"}, ![u].vs.kind = "uploaded"]
        /\ UNCHANGED <<build, evaluators, history>>

\* The key is completed, unless it was invalidated during the upload.
FinishUpload(u) ==
    LET k == uploaders[u].key
        vs == uploaders[u].vs
        again == rc.keys[k].invalidateAfterUpload /\ CanInvalidate(vs)
        s == removeFrom([rc EXCEPT !.keys[k].valueState = IF again THEN invalidate(vs) ELSE vs,
                                   !.keys[k].invalidateAfterUpload = FALSE], "uploading", k)
    IN  /\ UploaderAt(u, "uploading") /\ uploaders[u].todo = {}
        /\ rc' = Then(s, LAMBDA v : IF again THEN enqueueForEvaluation(v, k)
                                    ELSE pushLast(v, "completed", k))
        /\ uploaders' = [uploaders EXCEPT ![u] = Idle]
        /\ UNCHANGED <<build, evaluators, storage, history>>

\* The goroutine ends, as there is nothing left to upload.
StopUploader(u) ==
    /\ UploaderAt(u, "idle")
    /\ rc.lists["evaluated"] = <<>> /\ rc.shouldStopUploading
    /\ uploaders' = [uploaders EXCEPT ![u].pc = "stopped"]
    /\ UNCHANGED <<build, rc, evaluators, storage, history>>

-----------------------------------------------------------------------------
(***************************************************************************)
(* Builds.  One waits for all requested keys, and lets the uploads finish. *)
(* It may be canceled at any time.                                         *)
(***************************************************************************)
NewRecursiveComputer(inputs) ==
    LET empty == [keys |-> [k \in Keys |->
                      IF k \in Overrides
                      THEN [NewKeyState(overriddenMessageValueState(k, inputs[k])) EXCEPT !.exists = TRUE]
                      ELSE [NewKeyState(newInitialValueState(k)) EXCEPT
                                !.waiter = IF k \in Requested THEN "waiting" ELSE "none"]],
                  lists |-> [l \in Ordered |-> <<>>], waiting |-> {},
                  shouldStopUploading |-> FALSE, panicked |-> FALSE]
    IN  FoldLeft(getOrCreateKeyState, empty, SetToSeq(Requested))

\* A call that waits for a key was woken up.  The key may have been
\* invalidated since.
WaitForEvaluation(k) ==
    /\ ~rc.panicked
    /\ rc.keys[k].waiter = "woken"
    /\ rc' = [rc EXCEPT !.keys[k].waiter =
                 IF isEvaluated(rc.keys[k].valueState) THEN "returned" ELSE "waiting"]
    /\ UNCHANGED <<build, evaluators, uploaders, storage, history>>

GracefullyStopUploading ==
    /\ ~rc.panicked /\ ~rc.shouldStopUploading
    /\ \A k \in Requested : rc.keys[k].waiter = "returned"
    /\ rc' = [rc EXCEPT !.shouldStopUploading = TRUE]
    /\ UNCHANGED <<build, evaluators, uploaders, storage, history>>

\* The next build starts.  The former one completed or was canceled.
StartBuild ==
    /\ build.next # <<>>
    /\ Event
    /\ build' = [inputs |-> Head(build.next), next |-> Tail(build.next)]
    /\ rc' = NewRecursiveComputer(Head(build.next))
    /\ evaluators' = [e \in Evaluators |-> Looking]
    /\ uploaders' = [u \in Uploaders |-> Idle]
    /\ UNCHANGED <<storage, faults, partial>>

\* The objects with the value of a key are lost by the object store.
LoseObjects(k) ==
    /\ Fault("loss")
    /\ k \notin storage.lost
    /\ \/ storage.root[k].kind = "value"
       \/ \E g \in storage.graphlets : g.key = k
    /\ storage' = [storage EXCEPT !.lost = @ \cup {k}]
    /\ UNCHANGED <<build, rc, evaluators, uploaders, partial>>

Evaluate(e) ==
    \/ PopKey(e) \/ WaitForKey(e) \/ Lookup(e) \/ RequestDependency(e)
    \/ ReadDependency(e) \/ ComputeIncomplete(e) \/ ComputeSucceeds(e)
    \/ ComputeMissesObject(e) \/ FinishKey(e)

Upload(u) ==
    \/ PopUpload(u) \/ MissGraphlet(u) \/ StoreValue(u) \/ StoreInitial(u)
    \/ StoreGraphlet(u) \/ FinishUpload(u) \/ StopUploader(u)

Init ==
    /\ \E builds \in Builds :
          /\ build = [inputs |-> Head(builds), next |-> Tail(builds)]
          /\ rc = NewRecursiveComputer(Head(builds))
    /\ evaluators = [e \in Evaluators |-> Looking]
    /\ uploaders = [u \in Uploaders |-> Idle]
    /\ storage = [root |-> [k \in Keys |-> [kind |-> "none", dependencies |-> {}]],
                  graphlets |-> {}, lost |-> {}]
    /\ events = 0 /\ faults = {} /\ partial = FALSE

\* The steps that goroutines take by themselves.
Progress ==
    \/ \E k \in Requested : WaitForEvaluation(k)
    \/ GracefullyStopUploading
    \/ \E u \in Uploaders : Upload(u)
    \/ \E e \in Evaluators : Evaluate(e)

Next ==
    \/ Progress
    \/ \E e \in Evaluators : EvaluationFails(e)
    \/ StartBuild
    \/ \E k \in Keys : LoseObjects(k)

Spec == Init /\ [][Next]_vars

(***************************************************************************)
(* As long as some goroutine can take a step, one of them does, and calls  *)
(* into storage return.  It does not matter which one, as all of them run  *)
(* out of things to do.  Nothing makes objects go missing, computations    *)
(* fail or builds start.                                                   *)
(***************************************************************************)
Fairness == WF_vars(Progress)

FairSpec == Spec /\ Fairness

-----------------------------------------------------------------------------
Inputs == UNION {ToSet(builds) : builds \in Builds}

\* The value that a key has by definition, for given overrides.
RightValue ==
    [inputs \in Inputs |-> [k \in Keys |->
        LET Needs(d) == ToSet(Dependencies(inputs, d))
        IN  {<<x, inputs[x]>> : x \in Overrides \cap Closure({k}, Needs)}]]

\* Some key depends on itself.
Cyclic ==
    [inputs \in Inputs |->
        LET Needs(d) == ToSet(Dependencies(inputs, d))
        IN  \E k \in Closure(Requested, Needs) : k \in Closure(Needs(k), Needs)]

\* The keys of the build really depend on each other, none of them can be
\* evaluated, and n keys are blocked on the one at which the cycle is broken.
CycleBrokenWith(n) ==
    /\ Cyclic[build.inputs]
    /\ \A k \in Keys : rc.keys[k].list \notin {"queued", "evaluating"}
    /\ blockedCyclic(rc) # <<>>
    /\ Len(rc.keys[Head(blockedCyclic(rc))].blocking) = n

(***************************************************************************)
(* The panics that can be reached are that of the loop that breaks a cycle *)
(* at a key that several others are blocked on, and those that follow from *)
(* embedding a key that failed.  In any other case no key is put in two    *)
(* lists or taken from one that it is not in, blocked keys are counted     *)
(* correctly, cycles are found when there must be one, keys that look in   *)
(* the cache are not failed, and the record of a dependency is there when  *)
(* a value is uploaded.                                                    *)
(***************************************************************************)
NoOtherPanic ==
    rc.panicked => partial \/ \E n \in 2 .. Cardinality(Keys) : CycleBrokenWith(n)

Occurrences(x, seq) == Cardinality({i \in DOMAIN seq : seq[i] = x})

(***************************************************************************)
(* No key is lost sight of: a key that needs to be evaluated is queued, is *)
(* being evaluated by one goroutine, or is blocked, on exactly as many     *)
(* keys as it has been counted for, all of which still need to be          *)
(* evaluated.  One that was evaluated blocks no other keys and is on its   *)
(* way to being uploaded.                                                  *)
(***************************************************************************)
KeysAccounted ==
    ~rc.panicked =>
    \A k \in {x \in Keys \ Overrides : rc.keys[x].exists} :
        LET ks == rc.keys[k]
            blockers == [d \in Keys |-> Occurrences(k, rc.keys[d].blocking)]
        IN  /\ isEvaluated(ks.valueState) <=> ks.list \in {"evaluated", "uploading", "completed"}
            /\ \A l \in Ordered : Occurrences(k, rc.lists[l]) = IF ks.list = l THEN 1 ELSE 0
            /\ ks.blockedCount = Cardinality({d \in Keys : blockers[d] = 1})
            /\ \A d \in Keys : blockers[d] <= 1
            /\ (ks.list = "blocked") <=> (ks.blockedCount > 0)
            /\ isEvaluated(ks.valueState) => ks.blocking = <<>>
            /\ Cardinality({e \in Evaluators : evaluators[e].key = k}) =
                  IF ks.list = "evaluating" THEN 1 ELSE 0
            /\ Cardinality({u \in Uploaders : uploaders[u].key = k}) =
                  IF ks.list = "uploading" THEN 1 ELSE 0

\* Values that were obtained are the ones that evaluating the key without a
\* cache would yield.
ValuesAreRight ==
    \A k \in Keys :
        LET vs == rc.keys[k].valueState
        IN  isEvaluated(vs) /\ vs.kind # "failed" => vs.value = RightValue[build.inputs][k]

\* Whatever a later build overrides, the entries of the cache that it finds
\* have the values that it would compute.
CacheIsSound ==
    /\ \A g \in storage.graphlets, inputs \in Inputs :
          (\A d \in DOMAIN g.frontier : g.frontier[d] = RightValue[inputs][d])
              => g.value = RightValue[inputs][g.key]
    /\ \A k \in Keys, inputs \in Inputs :
          storage.root[k].kind = "value" => RightValue[inputs][k] = {}

(***************************************************************************)
(* The cache does not change the outcome of a build, although dependencies *)
(* are invalidated while others make use of them and upload their values.  *)
(* The exception is a dependency of which the computation was repeated and *)
(* failed: embedding it loses what it depends on.                          *)
(***************************************************************************)
ResultsAreRight == partial \/ (ValuesAreRight /\ CacheIsSound)

(***************************************************************************)
(* A key only fails if a computation failed, an object was lost, or keys   *)
(* really depend on each other.  Dependencies of earlier builds that no    *)
(* longer exist never make a key fail.                                     *)
(***************************************************************************)
OnlyFaultsFail ==
    \A k \in Keys :
        rc.keys[k].valueState.kind = "failed" =>
            CASE rc.keys[k].valueState.err = "cycle" -> Cyclic[build.inputs]
              [] OTHER -> faults # {}

Finished ==
    /\ \A k \in Requested : rc.keys[k].waiter = "returned"
    /\ \A u \in Uploaders : uploaders[u].pc = "stopped"

(***************************************************************************)
(* A build that is not canceled finishes: every requested key is evaluated *)
(* and all that was evaluated is uploaded.                                 *)
(***************************************************************************)
BuildsFinish == <>[]Finished

(***************************************************************************)
(* With several evaluators, a build finishes unless it panics, or has a    *)
(* cycle that is broken at a key that no others are blocked on.  Keys on   *)
(* other cycles fail, and cycles that only exist because of dependencies   *)
(* of an earlier build are resolved by not using the cache for them.       *)
(***************************************************************************)
OtherBuildsFinish == <>[](Finished \/ rc.panicked \/ CycleBrokenWith(0))

=============================================================================
