------------------------- MODULE ValidationPoolProofs -------------------------
(***************************************************************************)
(* What holds of ValidationPool for any number of workers, callers,        *)
(* schemas and APIs.  The pool is shown to behave as ScannerPool first, so *)
(* that the invariants of ScannerPoolProofs can be used of it.             *)
(***************************************************************************)
EXTENDS ValidationPool, ScannerPoolProofs

\* Every step of the validation pool is a step of the scanner pool, or none.
LEMMA PoolStep == [ValidationNext]_allVars => [Next]_vars
<1> SUFFICES ASSUME [ValidationNext]_allVars PROVE Next \/ UNCHANGED vars
  OBVIOUS
<1>1. ASSUME NEW c \in Callers, SubmitJob(c) \/ CallerReturns(c)
      PROVE  Next
  BY <1>1 DEF SubmitJob, CallerReturns, Next
<1>2. ASSUME NEW w \in Workers, TakeJob(w) \/ Refuse(w) \/ Validate(w) \/ WorkerPanics(w) \/ WorkerElse(w)
      PROVE  Next
  BY <1>2 DEF TakeJob, Refuse, Validate, WorkerPanics, WorkerElse, Next, WorkerStep
<1>3. ASSUME NEW w \in Workers, LookUp(w) \/ Compile(w)
      PROVE  UNCHANGED vars
  BY <1>3 DEF LookUp, Compile
<1>4. ASSUME OwnerStep
      PROVE  Next
  BY <1>4 DEF OwnerStep, Next
<1>5. ASSUME NEW k \in Keys, Evict(k)
      PROVE  UNCHANGED vars
  BY <1>5 DEF Evict
<1>6. ASSUME ValidationEnded
      PROVE  UNCHANGED vars
  BY <1>6 DEF ValidationEnded, Ended
<1>7. ASSUME UNCHANGED allVars
      PROVE  UNCHANGED vars
  BY <1>7 DEF allVars
<1> QED
  BY <1>1, <1>2, <1>3, <1>4, <1>5, <1>6, <1>7 DEF ValidationNext

\* The validation pool is a ScannerPool: its callers are served in the same
\* way, whatever the cache does.
THEOREM ActsAsPool == ValidationSpec => PoolSpec
<1>1. ValidationInit => Init
  BY DEF ValidationInit
<1>2. [ValidationNext]_allVars => [Next]_vars
  BY PoolStep
<1> QED
  BY <1>1, <1>2, PTL DEF ValidationSpec, PoolSpec, Spec

LEMMA PoolHolds == ValidationSpec => [](Context /\ Places /\ Channels)
BY ActsAsPool, JobsHold, PTL DEF PoolSpec

-----------------------------------------------------------------------------
\* Judging.

\* Every job that was submitted has a schema, every cached validator lies under
\* the key of its own schema, and what a worker holds is for the job it has.
PayloadKnown == \A j \in Job : channel[j] # "unused" => payload[j] \in Schemas
CacheOwn == \A k \in Keys : cache[k] # None => cache[k] \in Schemas /\ SchemaKey[cache[k]] = k
HeldOwn == \A w \in Workers : stage[w] = "validate" => validator[w] = payload[job[w]]

Judging == ValidationTypeOK /\ PayloadKnown /\ CacheOwn /\ HeldOwn /\ JudgedByOwnSchema

\* A worker that has come past "idle" has a job, and the job a schema.
LEMMA WorkedOn ==
    ASSUME Context, Places, Judging, NEW w \in Workers, stage[w] # "idle"
    PROVE  job[w] \in Job /\ channel[job[w]] = "open" /\ SchemaOf(w) \in Schemas
<1>1. job[w] # None /\ job[w] \in Job
  BY DEF Judging, ValidationTypeOK, Context, TypeOK
<1>2. channel[job[w]] = "open"
  BY <1>1 DEF Places, HandsOpen
<1> QED
  BY <1>1, <1>2 DEF Judging, PayloadKnown, SchemaOf

LEMMA SubmitJudging ==
    ASSUME Context, Places, Channels, Judging, NEW c \in Callers, SubmitJob(c)
    PROVE  Judging'
<1> DEFINE j == Current(c)
<1>1. j \in Job /\ channel[j] = "unused"
  BY NextUnused DEF SubmitJob, Submit
<1>2. scanned[j] = "none" /\ "none" \notin Schemas
  BY <1>1, PoolAssumption, ValidationAssumption DEF Channels, ChannelOwn
<1>3. /\ UNCHANGED <<job, scanned, stage, validator, cache, compilations>>
      /\ \A i \in Job : i # j => payload'[i] = payload[i] /\ channel'[i] = channel[i]
      /\ payload'[j] \in Schemas
      /\ payload' \in [Job -> Schemas \cup {None}]
  BY <1>1 DEF SubmitJob, Submit, workerSide, Judging, ValidationTypeOK, Context, TypeOK
<1>4. \A w \in Workers : stage[w] # "idle" => job[w] \in Job /\ job[w] # j
  BY <1>1, WorkedOn
<1>5. ValidationTypeOK' /\ CacheOwn'
  BY <1>3 DEF Judging, ValidationTypeOK, CacheOwn
<1>6. PayloadKnown'
  BY <1>3 DEF Judging, PayloadKnown
<1>7. HeldOwn'
  BY <1>3, <1>4 DEF Judging, HeldOwn
<1>8. JudgedByOwnSchema'
  BY <1>1, <1>2, <1>3 DEF Judging, JudgedByOwnSchema
<1> QED
  BY <1>5, <1>6, <1>7, <1>8 DEF Judging

LEMMA LookUpJudging ==
    ASSUME Context, Places, Judging, NEW w \in Workers, LookUp(w)
    PROVE  Judging'
<1>1. job[w] # None /\ SchemaOf(w) \in Schemas
  BY WorkedOn, PoolAssumption DEF LookUp
<1>2. SchemaKey[SchemaOf(w)] \in Keys
  BY <1>1, KeyAssumption
<1>3. cache[Key(SchemaOf(w))] # None => cache[Key(SchemaOf(w))] = SchemaOf(w)
  BY <1>1, <1>2, KeyAssumption DEF Judging, CacheOwn, Key
<1>4. UNCHANGED <<job, scanned, channel, payload, cache, compilations>>
  BY DEF LookUp, vars
<1>5. ValidationTypeOK'
  BY <1>1, <1>2, <1>4, ValidationAssumption DEF LookUp, Judging, ValidationTypeOK, Key
<1>6. PayloadKnown' /\ CacheOwn' /\ JudgedByOwnSchema'
  BY <1>4 DEF Judging, PayloadKnown, CacheOwn, JudgedByOwnSchema
<1>7. HeldOwn'
  BY <1>3, <1>4 DEF LookUp, Judging, HeldOwn, ValidationTypeOK, SchemaOf
<1> QED
  BY <1>5, <1>6, <1>7 DEF Judging

LEMMA CompileJudging ==
    ASSUME Context, Places, Judging, NEW w \in Workers, Compile(w)
    PROVE  Judging'
<1>1. job[w] # None /\ SchemaOf(w) \in Schemas
  BY WorkedOn, PoolAssumption DEF Compile
<1>2. SchemaKey[SchemaOf(w)] \in Keys
  BY <1>1, KeyAssumption
<1>3. UNCHANGED <<job, scanned, channel, payload>>
  BY DEF Compile, vars
<1>4. ValidationTypeOK'
  BY <1>1, <1>2, <1>3 DEF Compile, Judging, ValidationTypeOK, Key, Insert
<1>5. CacheOwn'
  BY <1>1, <1>2 DEF Compile, Judging, CacheOwn, ValidationTypeOK, Insert, Key
<1>6. PayloadKnown' /\ JudgedByOwnSchema'
  BY <1>3 DEF Judging, PayloadKnown, JudgedByOwnSchema
<1>7. HeldOwn'
  BY <1>3 DEF Compile, Judging, HeldOwn, ValidationTypeOK, SchemaOf
<1> QED
  BY <1>4, <1>5, <1>6, <1>7 DEF Judging

\* The end of a job, whichever way: the worker is idle, scanned may have gained
\* the judgment of this job.
LEMMA DoneJudging ==
    ASSUME Judging, NEW w \in Workers, Done(w),
           job \in [Workers -> Job \cup {None}], job' = [job EXCEPT ![w] = None],
           \A j \in Job : channel'[j] # "unused" => channel[j] # "unused",
           \A j \in Job : scanned'[j] \in Schemas => scanned'[j] = payload[j]
    PROVE  Judging'
<1>1. UNCHANGED <<payload, cache, compilations>>
  BY DEF Done
<1>2. ValidationTypeOK'
  BY <1>1 DEF Done, Judging, ValidationTypeOK
<1>3. PayloadKnown' /\ CacheOwn' /\ JudgedByOwnSchema'
  BY <1>1 DEF Judging, PayloadKnown, CacheOwn, JudgedByOwnSchema
<1>4. HeldOwn'
  BY <1>1 DEF Done, Judging, HeldOwn, ValidationTypeOK
<1> QED
  BY <1>2, <1>3, <1>4 DEF Judging

LEMMA AnswerJudging ==
    ASSUME Context, Places, Judging, NEW w \in Workers, Refuse(w) \/ Validate(w)
    PROVE  Judging'
<1>1. job[w] \in Job /\ channel[job[w]] = "open"
  BY WorkedOn DEF Refuse, Validate
<1>2. FinishJob(w) /\ Done(w)
  BY DEF Refuse, Validate
<1>3. scanned'[job[w]] = "error" \/ scanned'[job[w]] = payload[job[w]]
  BY DEF Refuse, Validate, Judging, HeldOwn
<1>4. /\ job' = [job EXCEPT ![w] = None]
      /\ \A j \in Job : j # job[w] => scanned'[j] = scanned[j] /\ channel'[j] = channel[j]
  BY <1>1, <1>2 DEF FinishJob, ReplyTo, Context, TypeOK
<1>5. \A j \in Job : scanned'[j] \in Schemas => scanned'[j] = payload[j]
  BY <1>3, <1>4, ValidationAssumption DEF Judging, JudgedByOwnSchema
<1>6. \A j \in Job : channel'[j] # "unused" => channel[j] # "unused"
  BY <1>1, <1>4
<1> QED
  BY <1>2, <1>4, <1>5, <1>6, DoneJudging DEF Context, TypeOK

LEMMA PanicJudging ==
    ASSUME Context, Places, Judging, NEW w \in Workers, WorkerPanics(w)
    PROVE  Judging'
<1>1. job[w] \in Job /\ channel[job[w]] = "open"
  BY PoolAssumption DEF WorkerPanics, Panic, Context, TypeOK, Places, HandsOpen
<1>2. \A j \in Job : j \in Queued => channel[j] = "open"
  BY PoolAssumption DEF Queued, Places, QueueOpen
<1>3. /\ job' = [job EXCEPT ![w] = None] /\ scanned' = scanned
      /\ \A j \in Job : channel'[j] # "unused" => channel[j] # "unused"
  BY <1>1, <1>2 DEF WorkerPanics, Panic
<1> QED
  BY <1>3, DoneJudging DEF WorkerPanics, Context, TypeOK, Judging, JudgedByOwnSchema

LEMMA TakeJudging ==
    ASSUME Context, Judging, NEW w \in Workers, TakeJob(w)
    PROVE  Judging'
<1>1. UNCHANGED <<scanned, channel, payload, validator, cache, compilations>>
  BY DEF TakeJob, RecvJob
<1>2. job' = [job EXCEPT ![w] = Head(queue)] /\ Head(queue) # None
  <2>1. Head(queue) \in Message /\ Head(queue) # Shutdown
    <3>1. queue \in Seq(Message) /\ queue # <<>> /\ Head(queue) # Shutdown
      BY DEF TakeJob, RecvJob, Context, TypeOK
    <3> QED
      BY <3>1
  <2> QED
    BY <2>1, PoolAssumption DEF TakeJob, RecvJob, Message
<1>3. job[w] = None
  BY PoolAssumption DEF TakeJob, RecvJob, Context, MutexInv, LockHolderIdle
<1>4. ValidationTypeOK'
  BY <1>1, <1>2 DEF TakeJob, Judging, ValidationTypeOK, Context, TypeOK
<1>5. PayloadKnown' /\ CacheOwn' /\ JudgedByOwnSchema'
  BY <1>1 DEF Judging, PayloadKnown, CacheOwn, JudgedByOwnSchema
<1>6. HeldOwn'
  BY <1>1, <1>2 DEF TakeJob, Judging, HeldOwn, ValidationTypeOK, Context, TypeOK
<1> QED
  BY <1>4, <1>5, <1>6 DEF Judging

LEMMA EvictJudging ==
    ASSUME Judging, NEW k \in Keys, Evict(k)
    PROVE  Judging'
BY DEF Evict, vars, Judging, ValidationTypeOK, PayloadKnown, CacheOwn, HeldOwn, JudgedByOwnSchema

\* Steps that only move callers, the mutex or the queue.
LEMMA QuietJudging ==
    ASSUME Judging, UNCHANGED validationVars, UNCHANGED <<job, scanned>>,
           \A j \in Job : channel'[j] # "unused" => channel[j] # "unused"
    PROVE  Judging'
BY DEF validationVars, Judging, ValidationTypeOK, PayloadKnown, CacheOwn, HeldOwn, JudgedByOwnSchema

LEMMA JudgingStep ==
    Context /\ Places /\ Channels /\ Judging /\ [ValidationNext]_allVars => Judging'
<1> SUFFICES ASSUME Context, Places, Channels, Judging, [ValidationNext]_allVars
             PROVE  Judging'
  OBVIOUS
<1>1. ASSUME NEW c \in Callers, CallerReturns(c)
      PROVE  Judging'
  <2>1. UNCHANGED <<job, scanned, channel>>
    BY <1>1 DEF CallerReturns, SubmitFails, Waken, Receive, RecvTimeout, Disconnected,
                Return, workerSide
  <2> QED
    BY <1>1, <2>1, QuietJudging DEF CallerReturns
<1>2. ASSUME NEW w \in Workers, WorkerElse(w)
      PROVE  Judging'
  <2>1. \A j \in Job : j \in Queued => channel[j] = "open"
    BY PoolAssumption DEF Queued, Places, QueueOpen
  <2>2. UNCHANGED <<job, scanned>>
    BY <1>2 DEF WorkerElse, LockReceiver, RecvEnd
  <2>3. \A j \in Job : channel'[j] # "unused" => channel[j] # "unused"
    BY <1>2, <2>1 DEF WorkerElse, LockReceiver, RecvEnd
  <2> QED
    BY <1>2, <2>2, <2>3, QuietJudging DEF WorkerElse
<1>3. CASE OwnerStep
  BY <1>3, QuietJudging DEF OwnerStep, ShutDown, DropPool, workerSide
<1>4. CASE ValidationEnded \/ UNCHANGED allVars
  BY <1>4, QuietJudging DEF ValidationEnded, Ended, allVars, vars
<1> QED
  BY <1>1, <1>2, <1>3, <1>4, SubmitJudging, LookUpJudging, CompileJudging, AnswerJudging,
     PanicJudging, TakeJudging, EvictJudging
  DEF ValidationNext

LEMMA JudgingHolds == ValidationSpec => [](Context /\ Places /\ Channels /\ Judging)
<1>1. ValidationInit => Judging
  BY PoolAssumption, ValidationAssumption
  DEF ValidationInit, Init, Judging, ValidationTypeOK, PayloadKnown, CacheOwn, HeldOwn,
      JudgedByOwnSchema
<1>2. Context /\ Places /\ Channels /\ Judging /\ [ValidationNext]_allVars => Judging'
  BY JudgingStep
<1> QED
  BY <1>1, <1>2, PoolHolds, PTL DEF ValidationSpec

\* The validation pool keeps its types, for any number of threads.
THEOREM ValidationTypeCorrect == ValidationSpec => []ValidationTypeOK
<1>1. Judging => ValidationTypeOK
  BY DEF Judging
<1> QED
  BY <1>1, JudgingHolds, PTL

\* Values are judged by their own schema's validator, however the workers
\* interleave on the cache and whenever it evicts.
THEOREM OwnSchemaJudges == ValidationSpec => []JudgedByOwnSchema
<1>1. Judging => JudgedByOwnSchema
  BY DEF Judging
<1> QED
  BY <1>1, JudgingHolds, PTL

-----------------------------------------------------------------------------
\* The stampede.

\* The workers that have missed the cache under k and not inserted yet.
Compiling(k) == {w \in Workers : stage[w] = "compile" /\ Key(SchemaOf(w)) = k}

\* Compilations are counted only while the key is cached, and each worker that
\* is about to compile has its share of the bound left.
Herd ==
    /\ \A k \in Keys : cache[k] = None => compilations[k] = 0
    /\ \A k \in Keys : compilations[k] + Cardinality(Compiling(k)) <= Cardinality(Workers)

LEMMA CompilingSize ==
    ASSUME NEW k
    PROVE  /\ IsFiniteSet(Compiling(k))
           /\ Cardinality(Compiling(k)) \in Nat
           /\ Cardinality(Workers) \in Nat
           /\ Cardinality(Compiling(k)) <= Cardinality(Workers)
<1>1. Compiling(k) \subseteq Workers
  BY DEF Compiling
<1> QED
  BY <1>1, PoolAssumption, FS_Subset, FS_CardinalityType

\* Nothing gets harder when no worker joins those that compile.
LEMMA HerdShrinks ==
    ASSUME Judging, Herd, NEW k \in Keys, Compiling(k)' \subseteq Compiling(k),
           compilations'[k] \in {0, compilations[k]}
    PROVE  compilations'[k] + Cardinality(Compiling(k)') <= Cardinality(Workers)
<1>1. /\ Cardinality(Compiling(k)') \in Nat /\ Cardinality(Compiling(k)) \in Nat
      /\ Cardinality(Compiling(k)') <= Cardinality(Compiling(k))
      /\ Cardinality(Workers) \in Nat
  BY CompilingSize, FS_Subset, FS_CardinalityType
<1>2. compilations[k] \in Nat
  BY DEF Judging, ValidationTypeOK
<1>3. compilations[k] + Cardinality(Compiling(k)) <= Cardinality(Workers)
  BY DEF Herd
<1> QED
  BY <1>1, <1>2, <1>3

LEMMA SubmitHerd ==
    ASSUME Context, Places, Channels, Judging, Herd, NEW c \in Callers, SubmitJob(c)
    PROVE  Herd'
<1>1. Current(c) \in Job /\ channel[Current(c)] = "unused"
  BY NextUnused DEF SubmitJob, Submit
<1>2. \A w \in Workers : stage[w] = "compile" => job[w] # Current(c)
  BY <1>1, WorkedOn
<1>3. UNCHANGED <<job, stage, cache, compilations>>
  BY DEF SubmitJob, Submit, workerSide
<1>4. \A w \in Workers : stage[w] = "compile" => SchemaOf(w)' = SchemaOf(w)
  BY <1>2, <1>3, WorkedOn DEF SubmitJob, SchemaOf, Judging, ValidationTypeOK
<1>5. \A k \in Keys : Compiling(k)' \subseteq Compiling(k)
  BY <1>3, <1>4 DEF Compiling, Key
<1> QED
  BY <1>3, <1>5, HerdShrinks DEF Herd

LEMMA LookUpHerd ==
    ASSUME Context, Places, Judging, Herd, NEW w \in Workers, LookUp(w)
    PROVE  Herd'
<1>0. Key(SchemaOf(w)) \in Keys
  BY WorkedOn, KeyAssumption DEF LookUp, Key
<1>1. PICK k0 \in Keys : k0 = Key(SchemaOf(w))
  BY <1>0
<1>2. UNCHANGED <<job, payload, cache, compilations>>
  BY DEF LookUp, vars
<1>3. \A k \in Keys : k # k0 \/ cache[k0] # None => Compiling(k)' \subseteq Compiling(k)
  BY <1>1, <1>2 DEF Compiling, LookUp, SchemaOf, Key, Judging, ValidationTypeOK
<1>4. ASSUME cache[k0] = None
      PROVE  compilations'[k0] + Cardinality(Compiling(k0)') <= Cardinality(Workers)
  <2>1. compilations'[k0] = 0
    BY <1>1, <1>2, <1>4 DEF Herd
  <2>2. Compiling(k0)' \subseteq Workers
    BY DEF Compiling
  <2>3. Cardinality(Compiling(k0)') <= Cardinality(Workers) /\ Cardinality(Compiling(k0)') \in Nat
    BY <2>2, PoolAssumption, FS_Subset, FS_CardinalityType
  <2> QED
    BY <2>1, <2>3
<1>5. \A k \in Keys : compilations'[k] + Cardinality(Compiling(k)') <= Cardinality(Workers)
  <2> SUFFICES ASSUME NEW k \in Keys, k # k0 \/ cache[k0] # None
               PROVE  compilations'[k] + Cardinality(Compiling(k)') <= Cardinality(Workers)
    BY <1>4
  <2>1. Compiling(k)' \subseteq Compiling(k) /\ compilations'[k] = compilations[k]
    BY <1>2, <1>3
  <2> QED
    BY <2>1, HerdShrinks
<1> QED
  BY <1>2, <1>5 DEF Herd

LEMMA CompileHerd ==
    ASSUME Context, Places, Judging, Herd, NEW w \in Workers, Compile(w)
    PROVE  Herd'
<1>0. SchemaOf(w) \in Schemas /\ SchemaOf(w) # None /\ Key(SchemaOf(w)) \in Keys
  BY WorkedOn, KeyAssumption, ValidationAssumption DEF Compile, Key
<1>1. PICK k0 \in Keys : k0 = Key(SchemaOf(w))
  BY <1>0
<1>2. /\ UNCHANGED <<job, payload>>
      /\ cache' = [cache EXCEPT ![k0] = SchemaOf(w)]
      /\ compilations' = [compilations EXCEPT ![k0] = @ + 1]
      /\ cache \in [Keys -> Schemas \cup {None}] /\ compilations \in [Keys -> Nat]
  BY <1>1 DEF Compile, vars, Insert, Judging, ValidationTypeOK
<1>3. \A k \in Keys : Compiling(k)' \subseteq Compiling(k)
  BY <1>2 DEF Compiling, Compile, SchemaOf, Key, Judging, ValidationTypeOK
<1>4. w \in Compiling(k0) /\ Compiling(k0)' \subseteq Compiling(k0) \ {w}
  <2>1. stage[w] = "compile" /\ stage'[w] = "validate"
    BY DEF Compile, Judging, ValidationTypeOK
  <2>2. w \in Compiling(k0) /\ w \notin Compiling(k0)'
    BY <1>1, <2>1 DEF Compiling
  <2> QED
    BY <1>1, <1>3, <2>2
<1>5. compilations'[k0] + Cardinality(Compiling(k0)') <= Cardinality(Workers)
  <2>1. Cardinality(Compiling(k0) \ {w}) = Cardinality(Compiling(k0)) - 1
    BY <1>4, CompilingSize, FS_RemoveElement
  <2>2. /\ Cardinality(Compiling(k0)') <= Cardinality(Compiling(k0) \ {w})
        /\ Cardinality(Compiling(k0)') \in Nat
    BY <1>4, CompilingSize, FS_Subset, FS_CardinalityType, FS_RemoveElement
  <2>3. compilations'[k0] = compilations[k0] + 1 /\ compilations[k0] \in Nat
    BY <1>1, <1>2
  <2>4. compilations[k0] + Cardinality(Compiling(k0)) <= Cardinality(Workers)
    BY <1>1 DEF Herd
  <2>5. Cardinality(Compiling(k0)) \in Nat /\ Cardinality(Workers) \in Nat
    BY CompilingSize
  <2> QED
    BY <2>1, <2>2, <2>3, <2>4, <2>5
<1>6. \A k \in Keys : k # k0 => compilations'[k] = compilations[k]
  BY <1>2
<1>7. \A k \in Keys : compilations'[k] + Cardinality(Compiling(k)') <= Cardinality(Workers)
  <2> SUFFICES ASSUME NEW k \in Keys, k # k0
               PROVE  compilations'[k] + Cardinality(Compiling(k)') <= Cardinality(Workers)
    BY <1>5
  <2>1. Compiling(k)' \subseteq Compiling(k) /\ compilations'[k] = compilations[k]
    BY <1>3, <1>6
  <2> QED
    BY <2>1, HerdShrinks
<1>8. \A k \in Keys : cache'[k] = None => compilations'[k] = 0
  BY <1>0, <1>2 DEF Herd
<1> QED
  BY <1>7, <1>8 DEF Herd

\* Every other step leaves the cache alone and adds nobody to those that compile.
LEMMA OtherHerd ==
    ASSUME Judging, Herd, UNCHANGED <<payload, cache, compilations>>,
           \A w \in Workers : stage'[w] = "compile" => stage[w] = "compile" /\ job'[w] = job[w]
    PROVE  Herd'
<1>1. \A k \in Keys : Compiling(k)' \subseteq Compiling(k)
  BY DEF Compiling, SchemaOf, Key
<1> QED
  BY <1>1, HerdShrinks DEF Herd

LEMMA EvictHerd ==
    ASSUME Judging, Herd, NEW k \in Keys, Evict(k)
    PROVE  Herd'
<1>1. UNCHANGED <<job, payload, stage>>
  BY DEF Evict, vars
<1>2. \A l \in Keys : Compiling(l)' \subseteq Compiling(l)
  BY <1>1 DEF Compiling, SchemaOf, Key
<1>3. \A l \in Keys : compilations'[l] \in {0, compilations[l]}
  BY DEF Evict, Judging, ValidationTypeOK
<1>4. \A l \in Keys : cache'[l] = None => compilations'[l] = 0
  BY DEF Evict, Judging, ValidationTypeOK, Herd
<1> QED
  BY <1>2, <1>3, <1>4, HerdShrinks DEF Herd

LEMMA HerdStep ==
    Context /\ Places /\ Channels /\ Judging /\ Herd /\ [ValidationNext]_allVars => Herd'
<1> SUFFICES ASSUME Context, Places, Channels, Judging, Herd, [ValidationNext]_allVars
             PROVE  Herd'
  OBVIOUS
<1> DEFINE Aside == \A w \in Workers :
                       stage'[w] = "compile" => stage[w] = "compile" /\ job'[w] = job[w]
<1>1. ASSUME NEW c \in Callers, CallerReturns(c)
      PROVE  UNCHANGED <<payload, cache, compilations>> /\ Aside
  BY <1>1 DEF CallerReturns, SubmitFails, Waken, Receive, RecvTimeout, Disconnected,
              Return, workerSide, validationVars
<1>2. ASSUME NEW w \in Workers, TakeJob(w) \/ WorkerElse(w)
      PROVE  UNCHANGED <<payload, cache, compilations>> /\ Aside
  BY <1>2 DEF TakeJob, RecvJob, WorkerElse, LockReceiver, RecvEnd, validationVars,
              Judging, ValidationTypeOK, Context, TypeOK
<1>3. ASSUME NEW w \in Workers, Refuse(w) \/ Validate(w) \/ WorkerPanics(w)
      PROVE  UNCHANGED <<payload, cache, compilations>> /\ Aside
  <2>1. Done(w) /\ job' = [job EXCEPT ![w] = None]
    BY <1>3 DEF Refuse, Validate, WorkerPanics, FinishJob, Panic
  <2> QED
    BY <2>1 DEF Done, Judging, ValidationTypeOK, Context, TypeOK
<1>4. ASSUME OwnerStep \/ ValidationEnded \/ UNCHANGED allVars
      PROVE  UNCHANGED <<payload, cache, compilations>> /\ Aside
  BY <1>4 DEF OwnerStep, ShutDown, DropPool, ValidationEnded, Ended, workerSide,
              validationVars, allVars, vars
<1> HIDE DEF Aside
<1>5. UNCHANGED <<payload, cache, compilations>> /\ Aside => Herd'
  BY OtherHerd DEF Aside
<1> QED
  BY <1>1, <1>2, <1>3, <1>4, <1>5, SubmitHerd, LookUpHerd, CompileHerd, EvictHerd
  DEF ValidationNext

\* However many threads miss the cache at once, a schema is compiled at most
\* once by each of them before it is evicted.
THEOREM StampedeIsBounded == ValidationSpec => []StampedeBounded
<1>1. ValidationInit => Herd
  <2> SUFFICES ASSUME ValidationInit, NEW k \in Keys
               PROVE  compilations[k] = 0 /\ compilations[k] + Cardinality(Compiling(k)) <= Cardinality(Workers)
    BY DEF Herd
  <2>1. compilations[k] = 0
    BY DEF ValidationInit
  <2> QED
    BY <2>1, CompilingSize
<1>2. Context /\ Places /\ Channels /\ Judging /\ Herd /\ [ValidationNext]_allVars => Herd'
  BY HerdStep
<1>3. Judging /\ Herd => StampedeBounded
  <2> SUFFICES ASSUME Judging, Herd, NEW k \in Keys
               PROVE  compilations[k] <= Cardinality(Workers)
    BY DEF StampedeBounded
  <2>1. compilations[k] \in Nat /\ compilations[k] + Cardinality(Compiling(k)) <= Cardinality(Workers)
    BY DEF Judging, ValidationTypeOK, Herd
  <2> QED
    BY <2>1, CompilingSize
<1> QED
  BY <1>1, <1>2, <1>3, JudgingHolds, PTL DEF ValidationSpec
-----------------------------------------------------------------------------
\* Whose limits.

\* Some API that submitted s has limits that s keeps.
Fits(s, c) == Acceptable(s, MaxSchemaDepth[c])
Admitted(s) == \E i \in Job : payload[i] = s /\ Fits(s, i[1])

\* What is cached, held or was used was admitted for somebody, and a refusal is
\* by the limits of the job's own API.
NotYetGiven == \A j \in Job : channel[j] = "unused" => payload[j] = None
RefusedByOwn == \A j \in Job : scanned[j] = "error" => ~Fits(payload[j], j[1])
CacheAdmitted == \A k \in Keys : cache[k] # None => Admitted(cache[k])
HeldAdmitted == \A w \in Workers : validator[w] # None => Admitted(validator[w])
UsedAdmitted == \A j \in Job : scanned[j] \in Schemas => Admitted(scanned[j])

Limited == NotYetGiven /\ RefusedByOwn /\ CacheAdmitted /\ HeldAdmitted /\ UsedAdmitted

\* Nothing changes for the limits when neither schemas nor judgments do.
LEMMA LimitedFrame ==
    ASSUME Limited, UNCHANGED <<payload, scanned, cache>>,
           \A j \in Job : channel'[j] = "unused" => channel[j] = "unused",
           \A w \in Workers : validator'[w] \in {None, validator[w]}
    PROVE  Limited'
<1>1. \A s : Admitted(s)' <=> Admitted(s)
  BY DEF Admitted
<1>2. NotYetGiven' /\ RefusedByOwn'
  BY DEF Limited, NotYetGiven, RefusedByOwn
<1>3. CacheAdmitted' /\ UsedAdmitted'
  BY <1>1 DEF Limited, CacheAdmitted, UsedAdmitted
<1>4. HeldAdmitted'
  BY <1>1 DEF Limited, HeldAdmitted
<1> QED
  BY <1>2, <1>3, <1>4 DEF Limited

LEMMA SubmitLimited ==
    ASSUME Context, Channels, Judging, Limited, NEW c \in Callers, SubmitJob(c)
    PROVE  Limited'
<1> DEFINE j == Current(c)
<1>1. j \in Job /\ channel[j] = "unused" /\ payload[j] = None /\ scanned[j] = "none"
  BY NextUnused, PoolAssumption
  DEF SubmitJob, Submit, Channels, ChannelOwn, Limited, NotYetGiven
<1>2. /\ UNCHANGED <<scanned, validator, cache>>
      /\ \A i \in Job : i # j => payload'[i] = payload[i] /\ channel'[i] = channel[i]
      /\ channel'[j] = "open"
  BY <1>1 DEF SubmitJob, Submit, workerSide, Judging, ValidationTypeOK, Context, TypeOK
<1>3. ASSUME NEW s, s # None, Admitted(s)
      PROVE  Admitted(s)'
  <2>1. PICK i \in Job : payload[i] = s /\ Fits(s, i[1])
    BY <1>3 DEF Admitted
  <2>2. payload'[i] = s
    BY <1>1, <1>2, <1>3, <2>1
  <2> QED
    BY <2>1, <2>2 DEF Admitted
<1>4. None \notin Schemas /\ "none" \notin Schemas
  BY PoolAssumption, ValidationAssumption
<1> HIDE DEF j
<1>5. NotYetGiven' /\ RefusedByOwn'
  BY <1>1, <1>2 DEF Limited, NotYetGiven, RefusedByOwn
<1>6. CacheAdmitted' /\ HeldAdmitted'
  BY <1>2, <1>3 DEF Limited, CacheAdmitted, HeldAdmitted
<1>7. UsedAdmitted'
  BY <1>2, <1>3, <1>4 DEF Limited, UsedAdmitted
<1> QED
  BY <1>5, <1>6, <1>7 DEF Limited

LEMMA LookUpLimited ==
    ASSUME Context, Places, Judging, Limited, NEW w \in Workers, LookUp(w)
    PROVE  Limited'
<1>1. Key(SchemaOf(w)) \in Keys
  BY WorkedOn, KeyAssumption DEF LookUp, Key
<1>2. /\ UNCHANGED <<payload, scanned, channel, cache>>
      /\ validator' = [validator EXCEPT ![w] = cache[Key(SchemaOf(w))]]
  BY DEF LookUp, vars
<1>3. \A s : Admitted(s)' <=> Admitted(s)
  BY <1>2 DEF Admitted
<1>4. NotYetGiven' /\ RefusedByOwn' /\ CacheAdmitted' /\ UsedAdmitted'
  BY <1>2, <1>3 DEF Limited, NotYetGiven, RefusedByOwn, CacheAdmitted, UsedAdmitted
<1>5. HeldAdmitted'
  BY <1>1, <1>2, <1>3 DEF Limited, HeldAdmitted, CacheAdmitted, Judging, ValidationTypeOK
<1> QED
  BY <1>4, <1>5 DEF Limited

LEMMA CompileLimited ==
    ASSUME Context, Places, Judging, Limited, NEW w \in Workers, Compile(w)
    PROVE  Limited'
<1> DEFINE s == SchemaOf(w)
<1>1. job[w] \in Job /\ s = payload[job[w]] /\ Key(s) \in Keys
  BY WorkedOn, KeyAssumption DEF Compile, Key, SchemaOf
<1>2. Fits(s, job[w][1])
  BY DEF Compile, Fits, DepthOf
<1>3. Admitted(s)
  BY <1>1, <1>2 DEF Admitted
<1>4. /\ UNCHANGED <<payload, scanned, channel>>
      /\ cache' = [cache EXCEPT ![Key(s)] = s]
      /\ validator' = [validator EXCEPT ![w] = s]
  BY DEF Compile, vars, Insert
<1>5. \A t : Admitted(t)' <=> Admitted(t)
  BY <1>4 DEF Admitted
<1> HIDE DEF s
<1>6. NotYetGiven' /\ RefusedByOwn' /\ UsedAdmitted'
  BY <1>4, <1>5 DEF Limited, NotYetGiven, RefusedByOwn, UsedAdmitted
<1>7. CacheAdmitted' /\ HeldAdmitted'
  BY <1>1, <1>3, <1>4, <1>5
  DEF Limited, CacheAdmitted, HeldAdmitted, Judging, ValidationTypeOK
<1> QED
  BY <1>6, <1>7 DEF Limited

LEMMA AnswerLimited ==
    ASSUME Context, Places, Judging, Limited, NEW w \in Workers, Refuse(w) \/ Validate(w)
    PROVE  Limited'
<1> DEFINE j == job[w]
<1>1. j \in Job /\ channel[j] = "open" /\ payload[j] \in Schemas
  BY WorkedOn DEF Refuse, Validate, SchemaOf
<1>2. FinishJob(w) /\ Done(w)
  BY DEF Refuse, Validate
<1>3. /\ \A i \in Job : i # j => scanned'[i] = scanned[i] /\ channel'[i] = channel[i]
      /\ channel'[j] # "unused"
      /\ UNCHANGED <<payload, cache>>
      /\ \A v \in Workers : validator'[v] \in {None, validator[v]}
  <2>1. "unused" \notin Outcomes
    BY PoolAssumption
  <2>2. channel \in [Job -> Outcomes \cup {"unused", "open", "closed"}]
    BY DEF Context, TypeOK
  <2>3. scanned \in [Job -> Outcomes \cup {"none"}]
    BY DEF Context, TypeOK
  <2>4. /\ \A i \in Job : i # j => scanned'[i] = scanned[i] /\ channel'[i] = channel[i]
        /\ channel'[j] # "unused"
    BY <1>1, <1>2, <2>1, <2>2, <2>3 DEF FinishJob, ReplyTo
  <2>5. UNCHANGED <<payload, cache>> /\ \A v \in Workers : validator'[v] \in {None, validator[v]}
    BY <1>2 DEF Done, Judging, ValidationTypeOK
  <2> QED
    BY <2>4, <2>5
<1>4. \A s : Admitted(s)' <=> Admitted(s)
  BY <1>3 DEF Admitted
<1>5. /\ scanned'[j] = "error" => ~Fits(payload[j], j[1])
      /\ scanned'[j] \in Schemas => Admitted(scanned'[j])
  <2>1. "error" \notin Schemas /\ None \notin Schemas
    BY ValidationAssumption
  <2>2. CASE Refuse(w)
    BY <2>1, <2>2 DEF Refuse, Fits, SchemaOf, DepthOf
  <2>3. CASE Validate(w)
    <3>1. scanned'[j] = validator[w] /\ validator[w] = payload[j]
      BY <2>3 DEF Validate, Judging, HeldOwn
    <3> QED
      BY <1>1, <2>1, <3>1 DEF Limited, HeldAdmitted
  <2> QED
    BY <2>2, <2>3
<1> HIDE DEF j
<1>6. NotYetGiven' /\ RefusedByOwn'
  BY <1>3, <1>5 DEF Limited, NotYetGiven, RefusedByOwn
<1>7. CacheAdmitted' /\ HeldAdmitted'
  BY <1>3, <1>4 DEF Limited, CacheAdmitted, HeldAdmitted
<1>8. UsedAdmitted'
  BY <1>3, <1>4, <1>5 DEF Limited, UsedAdmitted
<1> QED
  BY <1>6, <1>7, <1>8 DEF Limited

LEMMA EvictLimited ==
    ASSUME Judging, Limited, NEW k \in Keys, Evict(k)
    PROVE  Limited'
<1>1. /\ UNCHANGED <<payload, scanned, channel, validator>>
      /\ cache' = [cache EXCEPT ![k] = None]
  BY DEF Evict, vars
<1>2. \A s : Admitted(s)' <=> Admitted(s)
  BY <1>1 DEF Admitted
<1>3. NotYetGiven' /\ RefusedByOwn' /\ HeldAdmitted' /\ UsedAdmitted'
  BY <1>1, <1>2 DEF Limited, NotYetGiven, RefusedByOwn, HeldAdmitted, UsedAdmitted
<1>4. CacheAdmitted'
  BY <1>1, <1>2 DEF Limited, CacheAdmitted, Judging, ValidationTypeOK
<1> QED
  BY <1>3, <1>4 DEF Limited

LEMMA LimitedStep ==
    Context /\ Places /\ Channels /\ Judging /\ Limited /\ [ValidationNext]_allVars => Limited'
<1> SUFFICES ASSUME Context, Places, Channels, Judging, Limited, [ValidationNext]_allVars
             PROVE  Limited'
  OBVIOUS
<1>1. ASSUME NEW c \in Callers, CallerReturns(c)
      PROVE  Limited'
  <2>1. UNCHANGED <<scanned, channel>> /\ UNCHANGED validationVars
    BY <1>1 DEF CallerReturns, SubmitFails, Waken, Receive, RecvTimeout, Disconnected,
                Return, workerSide
  <2> QED
    BY <2>1, LimitedFrame DEF validationVars
<1>2. ASSUME NEW w \in Workers, WorkerElse(w)
      PROVE  Limited'
  <2>1. scanned' = scanned /\ UNCHANGED validationVars
    BY <1>2 DEF WorkerElse, LockReceiver, RecvEnd
  <2>2. \A j \in Job : channel'[j] = "unused" => channel[j] = "unused"
    BY <1>2 DEF WorkerElse, LockReceiver, RecvEnd
  <2> QED
    BY <2>1, <2>2, LimitedFrame DEF validationVars
<1>3. ASSUME NEW w \in Workers, TakeJob(w)
      PROVE  Limited'
  BY <1>3, LimitedFrame DEF TakeJob, RecvJob
<1>4. ASSUME NEW w \in Workers, WorkerPanics(w)
      PROVE  Limited'
  <2>1. UNCHANGED <<payload, scanned, cache>>
    BY <1>4 DEF WorkerPanics, Panic, Done
  <2>2. \A j \in Job : channel'[j] = "unused" => channel[j] = "unused"
    BY <1>4 DEF WorkerPanics, Panic
  <2>3. \A v \in Workers : validator'[v] \in {None, validator[v]}
    BY <1>4 DEF WorkerPanics, Done, Judging, ValidationTypeOK
  <2> QED
    BY <2>1, <2>2, <2>3, LimitedFrame
<1>5. CASE OwnerStep
  BY <1>5, LimitedFrame DEF OwnerStep, ShutDown, DropPool, workerSide, validationVars
<1>6. CASE ValidationEnded \/ UNCHANGED allVars
  BY <1>6, LimitedFrame DEF ValidationEnded, Ended, allVars, vars, validationVars
<1> QED
  BY <1>1, <1>2, <1>3, <1>4, <1>5, <1>6, SubmitLimited, LookUpLimited, CompileLimited,
     AnswerLimited, EvictLimited
  DEF ValidationNext

\* A schema is refused by its own API's limits, and may be used on the strength
\* of another API's: it was admitted at least for one that submitted it too.
THEOREM LimitsAreShared == ValidationSpec => []LimitsSharedThroughCache
<1>1. ValidationInit => Limited
  BY PoolAssumption, ValidationAssumption
  DEF ValidationInit, Init, Limited, NotYetGiven, RefusedByOwn, CacheAdmitted, HeldAdmitted,
      UsedAdmitted
<1>2. Context /\ Places /\ Channels /\ Judging /\ Limited /\ [ValidationNext]_allVars => Limited'
  BY LimitedStep
<1>3. Judging /\ Limited => LimitsSharedThroughCache
  <2> SUFFICES ASSUME Judging, Limited PROVE LimitsSharedThroughCache
    OBVIOUS
  <2>1. \A s, c : Fits(s, c) <=> s \in Compilable /\ Nodes(s, MaxSchemaDepth[c]) <= MaxComplexity
    BY DEF Fits, Acceptable
  <2>2. \A j \in Job : scanned[j] = "error" => ~Fits(payload[j], j[1])
    BY DEF Limited, RefusedByOwn
  <2>3. \A j \in Job : scanned[j] \in Schemas =>
           \E i \in Job : payload[i] = payload[j] /\ Fits(payload[j], i[1])
    BY DEF Limited, UsedAdmitted, Admitted, Judging, JudgedByOwnSchema
  <2> HIDE DEF Fits
  <2> QED
    BY <2>1, <2>2, <2>3 DEF LimitsSharedThroughCache
<1> QED
  BY <1>1, <1>2, <1>3, JudgingHolds, PTL DEF ValidationSpec
===============================================================================
