---------------------------- MODULE ValidationPool ----------------------------
(***************************************************************************)
(* The global validation pool (src/validation/pool.rs) and the schema      *)
(* cache its workers share (src/schema/compiler.rs, src/schema/cache.rs).  *)
(*                                                                         *)
(* The pool has the queue, the threads and the result channels of          *)
(* ScannerPool, line for line; processing a job is what differs.  A worker *)
(* looks the schema up, compiles it outside of any lock when it is not     *)
(* there, inserts it and validates, so the steps of two workers interleave.*)
(* A caller stands for an Envoy worker thread serving one API with limits  *)
(* of its own: the pool and its cache are shared by all APIs.              *)
(*                                                                         *)
(* Whether a value satisfies its schema is left out: a job that was judged *)
(* has for its outcome the schema whose validator judged it.               *)
(***************************************************************************)
EXTENDS ScannerPool

CONSTANTS
    Schemas,         \* the resolved schemas of the APIs
    Compilable,      \* those that jsonschema compiles
    Levels,          \* Levels[s]: how many nodes s has at each depth, root first
    Keys,            \* hashes
    SchemaKey,       \* SchemaKey[s]: the hash of the JSON of s
    MaxSchemaDepth,  \* MaxSchemaDepth[c]: SecurityLimits::max_schema_depth of c's API
    MaxComplexity    \* DEFAULT_MAX_SCHEMA_COMPLEXITY

ASSUME ValidationAssumption ==
    /\ Outcomes = Schemas \cup {"error"}
    /\ Compilable \subseteq Schemas
    /\ None \notin Schemas /\ "error" \notin Schemas
    /\ Levels \in [Schemas -> Seq(Nat)]
    /\ MaxSchemaDepth \in [Callers -> Nat]
    /\ MaxComplexity \in Nat

\* Two schemas do not collide in the 64 bits of DefaultHasher.
ASSUME KeyAssumption ==
    /\ SchemaKey \in [Schemas -> Keys]
    /\ \A s, t \in Schemas : SchemaKey[s] = SchemaKey[t] => s = t

VARIABLES
    payload,      \* payload[j]: the schema of job j
    stage,        \* stage[w]: how far w has come with its job
    validator,    \* validator[w]: the schema of the validator w holds
    cache,        \* cache[k]: the schema of the validator cached under k
    compilations  \* history: compilations[k], since k was last evicted

validationVars == <<payload, stage, validator, cache, compilations>>
allVars == <<vars, validationVars>>

ValidationInit ==
    /\ Init
    /\ payload = [j \in Job |-> None]
    /\ stage = [w \in Workers |-> "idle"]
    /\ validator = [w \in Workers |-> None]
    /\ cache = [k \in Keys |-> None]
    /\ compilations = [k \in Keys |-> 0]

-----------------------------------------------------------------------------
\* The callers.

SubmitJob(c) ==
    /\ Submit(c)
    /\ \E s \in Schemas : payload' = [payload EXCEPT ![Current(c)] = s]
    /\ UNCHANGED <<stage, validator, cache, compilations>>

\* submit failed, or recv_timeout returned: late answers change nothing here.
CallerReturns(c) == (SubmitFails(c) \/ Waken(c)) /\ UNCHANGED validationVars

-----------------------------------------------------------------------------
\* The workers.

\* The schema w is working on, and the limits its job carries.
SchemaOf(w) == payload[job[w]]
DepthOf(w) == MaxSchemaDepth[job[w][1]]

\* Faulty variant: the key does not depend on the schema.
KeyOfAny(s) == SchemaKey[CHOOSE t \in Schemas : TRUE]

Key(s) == SchemaKey[s]

TakeJob(w) ==
    /\ RecvJob(w)
    /\ stage' = [stage EXCEPT ![w] = "lookup"]
    /\ UNCHANGED <<payload, validator, cache, compilations>>

LookUp(w) ==
    LET found == cache[Key(SchemaOf(w))] IN
    /\ stage[w] = "lookup"
    /\ stage' = [stage EXCEPT ![w] = IF found = None THEN "compile" ELSE "validate"]
    /\ validator' = [validator EXCEPT ![w] = found]
    /\ UNCHANGED <<vars, payload, cache, compilations>>

\* estimate_schema_complexity: the nodes of s no deeper than depth.  What lies
\* below is not counted, nor refused.
Nodes(s, depth) ==
    LET within[d \in Nat] ==
            (IF d < Len(Levels[s]) THEN Levels[s][d + 1] ELSE 0)
            + (IF d = 0 THEN 0 ELSE within[d - 1])
    IN  within[depth]

\* Faulty variant: every schema that compiles is accepted.
AcceptableUnlimited(s, depth) == s \in Compilable

\* get_or_compile_with_limits compiles the schema once it has missed the cache.
Acceptable(s, depth) == Nodes(s, depth) <= MaxComplexity /\ s \in Compilable

\* Faulty variant: the validator is not kept.
InsertNever(s) == cache

\* Another worker may have inserted the same schema since the lookup.
Insert(s) == [cache EXCEPT ![Key(s)] = s]

Compile(w) ==
    LET s == SchemaOf(w) IN
    /\ stage[w] = "compile" /\ Acceptable(s, DepthOf(w))
    /\ cache' = Insert(s)
    /\ compilations' = [compilations EXCEPT ![Key(s)] = @ + 1]
    /\ validator' = [validator EXCEPT ![w] = s]
    /\ stage' = [stage EXCEPT ![w] = "validate"]
    /\ UNCHANGED <<vars, payload>>

\* Faulty variant: the worker keeps its stage.
DoneInPlace(w) ==
    /\ validator' = [validator EXCEPT ![w] = None]
    /\ UNCHANGED <<payload, stage, cache, compilations>>

\* The worker is done with its job.
Done(w) ==
    /\ stage' = [stage EXCEPT ![w] = "idle"]
    /\ validator' = [validator EXCEPT ![w] = None]
    /\ UNCHANGED <<payload, cache, compilations>>

\* Faulty variant: the worker goes on to its next job without an answer.
RefuseSilently(w) ==
    /\ stage[w] = "compile" /\ ~Acceptable(SchemaOf(w), DepthOf(w))
    /\ job' = [job EXCEPT ![w] = None] /\ Done(w)
    /\ UNCHANGED <<pool, queue, lock, alive, channel, scanned, panicked, callerSide>>

\* Too complex, or not a schema: an error result is sent.
Refuse(w) ==
    /\ stage[w] = "compile" /\ ~Acceptable(SchemaOf(w), DepthOf(w))
    /\ FinishJob(w) /\ scanned'[job[w]] = "error"
    /\ Done(w)

Validate(w) ==
    /\ stage[w] = "validate"
    /\ FinishJob(w) /\ scanned'[job[w]] = validator[w]
    /\ Done(w)

WorkerPanics(w) == Panic(w) /\ Done(w)

\* Taking the mutex, or ending.
WorkerElse(w) == (LockReceiver(w) \/ RecvEnd(w)) /\ UNCHANGED validationVars

-----------------------------------------------------------------------------

OwnerStep == (ShutDown \/ DropPool) /\ UNCHANGED validationVars

\* The cache (moka) evicts an entry: its time to live is over, or its capacity
\* was needed.
Evict(k) ==
    /\ cache[k] # None
    /\ cache' = [cache EXCEPT ![k] = None]
    /\ compilations' = [compilations EXCEPT ![k] = 0]
    /\ UNCHANGED <<vars, payload, stage, validator>>

ValidationEnded == Ended /\ UNCHANGED validationVars

ValidationNext ==
    \/ \E c \in Callers : SubmitJob(c) \/ CallerReturns(c)
    \/ \E w \in Workers : \/ TakeJob(w) \/ LookUp(w) \/ Compile(w)
                          \/ Refuse(w) \/ Validate(w)
                          \/ WorkerPanics(w) \/ WorkerElse(w)
    \/ OwnerStep
    \/ \E k \in Keys : Evict(k)
    \/ ValidationEnded

ValidationSpec == ValidationInit /\ [][ValidationNext]_allVars

-----------------------------------------------------------------------------
\* Type invariant

\* The variables of validation have their types; a worker has a stage exactly
\* while it has a job.
ValidationTypeOK ==
    /\ payload \in [Job -> Schemas \cup {None}]
    /\ stage \in [Workers -> {"idle", "lookup", "compile", "validate"}]
    /\ validator \in [Workers -> Schemas \cup {None}]
    /\ cache \in [Keys -> Schemas \cup {None}]
    /\ compilations \in [Keys -> Nat]
    /\ \A w \in Workers : stage[w] = "idle" <=> job[w] = None

-----------------------------------------------------------------------------
\* Safety

\* The validation pool behaves as the scanner pool does: what holds of the one
\* holds of the other (answers are a caller's own, errors have a reason, every
\* job is answered or dropped).
PoolSpec == Spec

\* The workers share one cache and yet each value is judged by the validator of
\* its own schema, whatever other workers inserted or the cache evicted meanwhile.
JudgedByOwnSchema == \A j \in Job : scanned[j] \in Schemas => scanned[j] = payload[j]

\* A schema is refused only by the limits of the job's own API, but it may be
\* used because those of another API, which submitted it too, let it into the
\* cache: the complexity check is made on a cache miss only.
LimitsSharedThroughCache ==
    LET fits(s, c) == s \in Compilable /\ Nodes(s, MaxSchemaDepth[c]) <= MaxComplexity IN
    \A j \in Job :
        /\ scanned[j] = "error" => ~fits(payload[j], j[1])
        /\ scanned[j] \in Schemas
              => \E i \in Job : payload[i] = payload[j] /\ fits(payload[j], i[1])

\* Workers that miss the cache together all compile, but no more often than
\* there are workers until the schema is evicted.
StampedeBounded == \A k \in Keys : compilations[k] <= Cardinality(Workers)

=============================================================================
