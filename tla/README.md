# A formal model of api-fence

api-fence is a Rust dynamic module for Envoy. On each HTTP stream it validates
the request and the response against an OpenAPI document and scans them with
ModSecurity. These modules state what the parts of it with state, order and
concurrency do, check them with TLC on small instances and prove the most
important properties with TLAPS for every value of the constants. Paths such as
`filter.rs` are relative to the crate's `src/` directory. Every definition that
stands for code is listed with its lines under "map" in `PROJECT.json`.

## 1. Inventory

| Component (source) | State it keeps | Operations | Talks to |
|---|---|---|---|
| HTTP filter (`filter.rs`) | per stream: the operation, the request's method, URI and headers, the errors so far | six callbacks of Envoy: headers, body and trailers of the request and of the response | router, validators, compiler, both pools, mocks, metadata, counters |
| Observability (`observability.rs`, `modsec/observability.rs`) | dynamic metadata and counters of the stream | `set_*_metadata`, `set_modsec_*_metadata`, `send_error_response` | Envoy |
| Dual ruleset scanner (`modsec/scanner.rs`) | two `Arc<Rules>`, the timeout, the timeout action | `scan_blocking`: one job per ruleset, one after the other | scanner pool |
| Scanner pool (`modsec/pool.rs`) | an mpsc queue, a mutex around its receiver, N threads, one rendezvous channel per job | `submit`, `scan_blocking`, `worker_loop`, `shutdown`, drop | libmodsecurity |
| Validation pool (`validation/pool.rs`, `validation/global.rs`) | the same, and the shared compiler | `submit`, `validate_blocking`, `worker_loop`, `shutdown`, drop | compiler |
| Schema compiler and cache (`schema/*.rs`, `security.rs`) | a moka cache from the hash of a schema to its validator | `get_or_compile[_with_limits]`, eviction | jsonschema |
| Ruleset registry (`modsec/global.rs`, `modsec/rules.rs`) | a map from the hash of a ruleset's configuration to its compiled rules, never emptied | `get_or_compile_ruleset`, `add_*` | libmodsecurity, files, remote servers |
| Transaction, engine (`modsec/transaction.rs`, `modsec/engine.rs`, `modsec/pool.rs` from 398) | a transaction of libmodsecurity and the collector of its log | the phases, `intervention` | FFI, scanner pool |
| String extractor (`modsec/string_extractor.rs`) | none | the strings of a JSON body that are scanned in its place | filter, transaction |
| Router (`router.rs`) | a routing table, built item by item when the configuration is loaded | `from_spec`, `find_operation` | matchit |
| Reference resolver (`resolver.rs`) | the document's components, shared; per clone the set of references being resolved, behind a mutex | `resolve_*`, `resolve_schema_deep` | - |
| Validators (`validation/{query,header,path,body,response}.rs`) | none | conversion, checks, selection of a response | resolver, compiler |
| Mocks (`mock.rs`) | none | selection of a response and an example, generated values | resolver |
| Configuration (`config.rs`, `modsec/config.rs`) | the options of a filter | parsing, defaults, validation | everything |

How they interact. Envoy creates one `OpenApiFilter` per stream and runs all its
callbacks on the worker thread of the stream. A callback calls the validators
and the router directly; for a scan it blocks in `ScannerPool::scan_blocking`,
for a body with the global pool enabled in `ValidationPool::validate_blocking`.
Both pools are process-wide: all streams and all APIs share their threads, and
the validation threads share one schema cache. A callback answers Envoy with
Continue, StopIteration, "buffer", or a local reply, which ends the stream.

What is hard about it:

- *Ordering of callbacks.* Headers are held for a body only if the operation has
  one, so an upstream may answer before the request body was judged; a response
  is held only if the request's callback stored an operation; errors are
  collected over several callbacks, each of which counts and reports.
- *Late answers.* A call into a pool gives up after its timeout while its job is
  queued or running; the same thread may already be in its next call when the
  answer arrives.
- *Lost threads.* A panic in a job ends its thread for good. When the last one
  ends, the queue goes with it, and later calls fail.
- *A shared cache* that is read and filled in separate steps by several threads
  for APIs with different limits, and that evicts at any time.
- *A registry that only grows*, whose keys are what configurations say and not
  what files and servers hold, filled by loads that may fail at any source.
- *Verdicts from two sources*: libmodsecurity logs through a pointer to the
  transaction's collector and answers when asked for an intervention; it
  evaluates a phase only when told to.
- *A recursion that has to end*: references are followed with a set of those in
  progress that has to be cleaned on every way out; deep inlining recurses
  once more around it, with no such set of its own.
- *Two routes, one path*: the table is built in the document's order, and what
  matchit refuses is left out with a warning.
- *Conversions before a verdict*: a text of a URL, header or form becomes a JSON
  value by its schema's type, and is judged as that value; the generator of
  mocks has to meet the same schemas from the other side.
- *Fail-open decisions*: timeouts, errors, pass-through mode and alert mode all
  let a request go on, and metadata and counters have to tell.

What makes each part correct: the filter forwards nothing it knows to be invalid
or has not scanned, does not hold a stream for a callback that never comes, and
tells the truth in metadata and counters; a pool gives each call the answer to
its own job, returns from each call, loses no job and ends when told to; a value
is judged by the validator of its own schema; a scan has all its phases
evaluated and its verdict is of its own rules alone; a scanner has whole rules
for each of its rulesets; a reference is resolved to what it stands for, a cycle
is found and none is found where there is none; a declared operation is served;
conversion, selection, extraction and generation agree with a reference
definition of what a text or a schema means.

## 2. Modules

| Module | Models | Constants |
|---|---|---|
| `DualScan` | `ScanResult`, `DualScanResult`, the WAF metadata | - |
| `Filter` (EXTENDS `DualScan`) | one stream through `OpenApiFilter`, Envoy's side included | configurations, operations, outcomes of the head's checks |
| `ScanService` | abstract: what a caller of a pool is promised | callers, calls, outcomes |
| `ScannerPool` | the pool of `modsec/pool.rs`; `Service` is `ScanService` over its variables | workers, callers, bounds on calls and panics |
| `ValidationPool` (EXTENDS `ScannerPool`) | the pool of `validation/pool.rs` and the schema cache its workers share | schemas, their sizes and hashes, limits per API |
| `ScanTransaction` | what a worker does with a scan job: extraction, phases, log collector, verdict | string literals and what the extractor makes of them, rules |
| `RulesRegistry` | the ruleset registry and the making of scanners from it | APIs, rule sources, ruleset configurations |
| `References` | what a reference of a document stands for | kinds of references, names, documents |
| `RefLookup` (EXTENDS `References`) | abstract: what a caller of the resolver is promised | streams |
| `Resolver` (EXTENDS `References`) | `RefResolver`, one clone per stream; `Lookups` is `RefLookup` over its variables | streams, room on the stack |
| `Router` | the loading of the table and the routing of requests | documents, requests |
| `Values` | texts, JSON values, schemas, the conversion of parameters | components, jsonschema's verdict `Accepts` |
| `RequestHead` (EXTENDS `Router`, `Values`) | a request through the route and the four checks of its head | texts, schemas, the longest header |
| `Bodies` (EXTENDS `Values`) | forms, their conversion, media types | - |
| `RequestBody` (EXTENDS `RequestHead`, `Bodies`) | the head, and the form in a body, field by field | form schemas, fields, the inlining of schemas |
| `Mock` (EXTENDS `Bodies`) | the generator of mock responses | what it gives for a schema, `Generated` |
| `Exchange` (EXTENDS `RequestBody`, `Mock`) | the head, the body of any type and the mock of a request | JSON depth, mock configurations, schemas of responses |
| `MCFilter`, `MCScannerPool`, `MCValidationPool`, `MCScanTransaction`, `MCRulesRegistry`, `MCResolver`, `MCExchange` | instances for TLC | |
| `FilterProofs`, `FilterBooksProofs`, `ScannerPoolProofs`, `ValidationPoolProofs`, `ScanTransactionProofs`, `RulesRegistryProofs`, `ResolverProofs`, `RequestProofs` | theorems and proofs | |

Operators whose comment begins with "Faulty variant" are not part of any
specification: each is a plausible bug of the definition that follows it and is
used to show that a property can be violated.

### Filter

One action per callback: `OnRequestHeaders(end_of_stream)`, `OnRequestBody`,
`RequestTrailers`, `OnResponseHeaders(end_of_stream)`, `OnResponseBody`. Since a
callback runs to its end on one thread, it is one step; each early return of the
code is a disjunct (`RejectUnrouted`, `RejectPathTypes`, `RejectLongQuery`,
`RejectHead`, `AcceptHead`, ...). The outcomes of routing and of the checks, the
answer of the scanner and of the validation pool are bound by `\E` in the step,
restricted to what the configuration allows (no timeout without a pool, no
secondary result without a secondary ruleset).

`current_operation`, `context` (method, URI and headers were stored),
`request_errors` and `response_errors` are fields of `OpenApiFilter`, or the
local lists of its callbacks; `validation_errors`, `metadata`, `modsec_metadata`
and `modsec_metrics` are what the stream writes to Envoy. `stream`, `upstream`,
`response` and `reply` are the host's: how much of the request was delivered to
the filter, how much of it the upstream has, how far the response has come, and
the local reply. `scan` is a history variable.

Assumed of Envoy, as the code relies on it: callbacks of a direction come in
order; a callback that stopped with buffering gets the whole body with
`end_of_stream`; a local reply or the end of the response is the end of the
stream; a response begins only after the request's headers were released, and
may do so before the request's body has ended. Two things the host may also do
are kept: `get_buffered_*_body` may return `None`, and a body may end in
trailers, for which the filter has no callback.

### ScannerPool and ScanService

`queue` is the mpsc channel, `lock` the mutex around its receiver, `channel[j]`
the rendezvous channel of job `j`: unused, open, closed (its sender was dropped)
or holding the result. A job is named by its caller and the number of the call.
`Submit`, `SubmitFails`, `Receive`, `RecvTimeout`, `Disconnected` are the paths
of `scan_blocking`; `LockReceiver`, `RecvJob`, `FinishJob`, `Panic`, `RecvEnd`
are the steps of `worker_loop`, between which threads interleave; `ShutDown` and
`DropPool` consume the pool, which Rust's ownership allows only when no call is
running. `RecvTimeout` may happen whenever nothing has arrived yet: the clock is
not modelled. `timeout_ms` is positive, so a call always waits.

`ScanService` has a caller begin a call, a scan find something once, and the
call return that very finding, a timeout or an error. `ServiceSpec` says that
the pool implements it, with `next`, `waiting`, `scanned`, `answer` for its
variables.

The scanner of a configuration with two rulesets makes two calls one after the
other, so it is a caller of this model with at least two calls.

### ValidationPool

The queue and the threads of the two pools agree line for line, so the module
extends `ScannerPool` and conjoins to its actions what processing does:
`LookUp`, `Compile` or `Refuse`, `Validate`, as separate steps. No lock is held
between them, so workers miss together, compile the same schema and insert over
each other; `Evict` stands for time to live and capacity. A caller is a thread
serving one API with its own `max_schema_depth`; a schema is represented by the
number of nodes at each of its depths, which is all that
`estimate_schema_complexity` looks at, and by whether jsonschema compiles it.
`PoolSpec` says that with all this the module still implements `ScannerPool`.

### ScanTransaction

What `ScannerPool` calls an outcome. `Calls(job)` is the list of calls on the
transaction that the job's scan type makes; `Prepare` and `Evaluate` make the
next, `Fail` is any of them returning an error, `Conclude` is the end of
`process_*_scan`. The three functions end alike and share `Conclusion`. What a
phase logs and whether an intervention is pending is libmodsecurity's choice.
`NextJob` is the worker's next job, with a transaction of its own. A body is the
sequence of its string literals, and a literal is what the extractor's tests
make of it (`Unreadable`, `OutOfBounds`, `Base64`). While a job is "extracting"
the loop of `extract_strings` runs over them: `LeaveOut` and `Keep` are its
turns, `read` how far it is and `strings` what it keeps, until the body ends or
`AtLimit`; `Submit` then hands the job to the worker, as the filter does.

### RulesRegistry

`Start(a)` is Envoy handing over a configuration of API `a`; `Hit` and `Miss`
are the lookup, `AddSource` and `AddFails` the `?` of each source, `Store` the
insertion, `Serve` what the scanner does with the rules it gets, `Refuse` the
error. `registry` is a function that grows. `text` is what a compilation has
loaded so far, each source's content at the moment it was read; `Edit` changes a
file or a remote URL at any moment. A ruleset's `hash` is a field: what
`hash_ruleset_config` covers; `RegistryAssumption` says that rulesets of one
hash have as many sources, since they differ in a remote key at most (64-bit
collisions aside). Lookup and insertion lock the mutex separately and the model
lets several APIs interleave there. Envoy creates configurations on its main
thread today, so this is more than happens; what is claimed for one at a time
follows with `Cardinality(Apis) = 1`.

### References, RefLookup and Resolver

`Meaning` defines, without any recursion, what a question (a reference, and the
kind of component asked for) comes to: the references reached from it are those
in every set that holds it and is closed under following aliases; it stands for
the one of them that is no alias, and for an error of kind "circular" if there
is none. `RefLookup` has a stream ask and then be told that very meaning.

`Resolver` is the code: `CheckCycle` looks for the current reference in the set
of the stream's clone; `LookupFails` is an error of the lookup, before the
reference is entered; `Lookup` enters it and has the item, or an alias and the
next call; `Unwind` is a frame that takes its reference out of the set and
returns, with a result or an error; `Answer` the return of the outermost one.
The five resolutions (`ResolveSchema`, `ResolveParameter`, `ResolveResponse`,
`ResolveRequestBody`, `ResolveHeader`) differ in the kind asked for. Clones are
of one document, and `LookupSpec` says that each stream is told what `RefLookup`
promises, whatever the others do in between.

`ResolveDeep` is `resolve_schema_deep`: `InlineNext` resolves the next nested
reference, `Descend` enters what it found, `SchemaInlined` leaves a schema,
`GiveUp` takes an error out through all levels. Nothing there remembers which
schemas it is inside of; a schema that contains itself goes on until `Overflow`,
which aborts the process. `MaxDepth` is how many schemas fit on the stack.

### Router

`LoadItem` is one turn of `from_spec`'s loop, `Arrive` a request, `MatchRoute`
and `MatchNone` the two ends of `find_operation`. `SameShape`, `Matches` and
`Prefers` are what the code relies on in matchit, which is outside of the
repository: it refuses a template that differs from another in parameter names
only, and prefers a segment that is written out. `RoutesKept` says what the
table holds.

### Values, RequestHead, Bodies, RequestBody, Mock and Exchange

A text is a sequence of atoms, known by what they parse as (integer, number,
boolean, the words HTML forms have for one, a word) and by their length in
characters and in bytes, which the code does not take for the same everywhere. A
schema is known by its type, bounds, values, items and properties. `Values` and
`Bodies` have the conversions, each with its own rules: path segments, queries,
headers, form fields, multipart files, and the depth and media type of bodies.
`Mock` has the generator: what it draws at random is a set of choices, a range
given by its ends. A schema of additional properties applies to the keys a schema
does not name (`PropertyOf`), in coercion as in judging.

A media type is what `mime` reads in a Content-Type (`main`, `sub`, `suffix`),
whether it has a boundary, whether that is all of the text (`exact`), and the
words that occur anywhere in the text as it is written (`words`), since the code
asks both kinds of questions. Which body is parsed as a form goes by the type
(`IsForm`, exactly `application/x-www-form-urlencoded` or, with a boundary,
`multipart/form-data`), which one is coerced by the words (`Coerces`), what is
JSON by the suffix or else by the words (`is_json_media_type`), and what the
generator takes for JSON by the words alone (`NamedJson`).

What the code computes by a function that calls itself is a constant here, and
the function is one level of it, which takes what it gives within as a
parameter: `generate_from_json_schema(s, within)` is a level of `Generated`,
`resolve_schema_deep(r, within)` of `Inlined`, `estimate_json_depth(v, depths)`
of `Depth`, as `JsonSchema` is of `Accepts`. The assumptions say that
`Generated`, `Inlined` and `Accepts` are what a level makes of themselves, and
TLC evaluates them; the instance defines each by that recursion. So no module but
`MCExchange` has recursive operators, and all others can be proved about.

What jsonschema says of a value is a constant, `Accepts`. `JsonSchema` is one
level of what JSON Schema defines, given what is said of the schemas within;
`JsonSchemaAssumption` says that `Accepts` is that on the readings of texts, and
the instance for TLC defines it by that recursion. `convert_param_to_json` calls
itself for the items of an array; the model has one such level
(`convert_item`), and `SchemasAssumption` that no array of a parameter holds
arrays. `Readings` and `Reads` are the reference: what a text can be read as,
and that the schema has its choice.

`RequestHead` takes a request through `CheckPathTypes`, `CheckPath`,
`CheckQuery`, `CheckHeaders`, as in pass-through mode, where every check is
reached. `errors` is `request_errors`. Before the headers among the parameters are
judged, every header is measured against `MaxHeaderValueLength`
(`HeaderTooLong`). `JudgeBody` and `Finish` stand for
whatever comes after the head.

`RequestBody` goes on with a body that is a form. `ReadField` is one turn of the
loops of `parse_form_urlencoded_to_json` and `parse_multipart_to_json`: `read`
is how many fields they took, `map` the object made of them. `CheckForm` coerces
the object by the schema and judges it; `JudgeOther` is any verdict on a body of
another type. The code coerces by one function that calls itself; a form nests
three levels at most, which are `coerce_form_data_to_schema`, `coerce_property`
and `coerce_item`. The reference is `FormReadings`: of the fields of a key those
count that came after its last file, a key that counts once is read as that
field can be, one that counts more often as an array of what each can be.

`Exchange` says what the rest is: `CheckBody` for JSON, XML, what does not
parse, what is of an unsupported type and what is missing, then `SendMock` or
`SendNoMock`. Its steps up to the verdict are those of `RequestBody` with `mock`
added, `CheckBody` is a `JudgeOther`, the others are a `Finish` or leave all of
it alone (`ExchangeBodies`). `SchemasIn` is a schema with all that are within;
`MockAssumption` has no schema that contains itself, for which neither the
generator nor deep resolution ends (Resolver says what becomes of the stack).
`Filter` has what the verdicts lead to and draws them freely; here is how they
are reached. Routing itself is `Router`'s: `Route` is any step of it. A mock
whose range is empty panics, and the panic leaves a callback of Envoy: the
process aborts.

## 3. Runs

| Run | Question | Bounds |
|---|---|---|
| `stream` | Does the filter forward only what was judged and scanned as configured; is a response held while judged; do metadata, counters and reply agree; does each stream end? | every combination of the request side's options with the response side off, and of the response side's with the request validated or not; operations with no, optional, required and unresolvable body, mocked ones among them; six heads, in which each check fails |
| `scanner_pool` | Does the pool implement the scan service, lose no job, and return from each call even if no worker runs? Is each job processed or dropped, and do the threads end? | 2 workers, 2 callers with 2 calls, 2 panics, so that all workers may be lost |
| `validation_pool` | With a shared cache, is it still the pool, and does the right schema judge? | 2 workers, 3 callers of 2 APIs with 1 call, 3 schemas (one too wide for one API, one that does not compile), 1 panic |
| `scan_transaction` | Does each scan evaluate its phases, show the rules what it must, and conclude from its own rules? | 5 bodies over 5 literals, 2 kept at most; 3 rules, one of them a set-up rule; jobs of all types, one after the other |
| `rules_registry` | Are scanners complete and their rules whole, whatever fails or changes, and compilations bounded? | 2 APIs, 3 rulesets of 2 hashes, 4 sources of which 2 are edited; APIs symmetric |
| `resolver` | Does every stream learn what its reference stands for, does deep inlining end well or for a reason, and does each resolution end? | 2 streams; 10 documents: chains, references missing, by URL or of another kind, circles of aliases, schemas that contain themselves at once, through another, behind an alias, behind an error; 8 questions; 3 levels on the stack |
| `exchange` | Is a declared operation served, a parameter, a form and a mock judged as its schema says? | 3 tables of routes, and one item for each of 27 operations; parameters of each type against each of 11 texts and of headers one character too long, declared and not; 12 forms under six media types (with and without a boundary, with json in the boundary, with capitals, of another main type) and bodies under five (one of them unreadable); JSON nests at most twice where it is judged, and three times where it is generated |
| five violations | see section 6 | as above, or the smallest of them |

Why these bounds suffice for the interesting cases. A stream ends after at most
four callbacks, so `stream` is complete for its configurations. The state of the
request side the response side reads is the stored operation and the stored
context, and both values of each occur among the response configurations. A
transaction has at most six calls, and a second job shows what a first one
leaves behind; a limit of two is met before, at and after a repeated literal.
Two APIs race for one hash; a ruleset of two sources has one loaded when the
other fails. In the pools two calls per caller are needed for a late answer to
meet the next call, two workers for contention at the mutex, for a lost worker
with a survivor and for two lookups before one insertion; two callers for a job
that waits behind another. Two streams show whether a clone sees another's set;
three schemas make circles of one and two and a chain into each, and three
levels are what the deepest schema needs that does not contain itself. In
`exchange` each text meets each schema in the place where it is converted.
Ranges are generated by their ends and the items of a generated array are alike,
as bounds are all a schema says of either. Bounds are named: `MaxCalls`,
`MaxPanics`, `MaxDepth`, `MaxJsonDepth`, `MaxHeaderValueLength` and
the sets of the `MC` modules.

Fairness.

- `FairSpec` (Filter): Envoy goes on delivering callbacks. `StreamEnds` then
  says that the filter never waits for a callback that Envoy does not owe it.
- `TimerFairness`: the caller's own thread wakes: by its result, by the loss of
  the sender, or because the clock of `recv_timeout` runs. Nothing of the
  workers.
- `WorkerFairness`: threads are scheduled, some waiter gets a free mutex (not
  each one: `std::sync::Mutex` is not fair) and libmodsecurity returns. Callers
  are not assumed to call, and panics and the owner's steps are never forced.
  `CallReturns` needs `TimerFairness` only, which is what the run assumes;
  `JobsReleased` and `EndReached` have `WorkerFairness` as a premise of their
  own.
- `FairSpec` (Resolver): a thread that has begun a resolution goes on with it.
  None is made to begin one.

Deadlock is checked in every run: the ends of a stream and of a pool are the
actions `Finished` and `Ended`, the end of the process is `Aborted` (Resolver,
Exchange), so any other stop is an error; a scanner thread always has a next
job, an API a next configuration and a router a next request.

## 4. Theorems

All for every value of the constants that satisfies the named assumptions
(`FilterAssumption`, `PoolAssumption`, `ValidationAssumption`, `KeyAssumption`,
`ScanAssumption`, `RegistryAssumption`, `ReferencesAssumption`,
`ResolverAssumption`, `RouterAssumption`, `TextsAssumption`,
`SchemasAssumption`, `JsonSchemaAssumption`, `FormAssumption`,
`ExchangeAssumption`, `MockAssumption`). `HeadersHeld`,
`ValidationTypeCorrect`, `RouterTyped`, `FirstOfEachShape`, `HeadVerdicts` and
`FormsKept` state properties that no run checks by name; the others state what a
run shows on its instance.

**Filter.** `TypeCorrect`; then `InvalidStopped`, `UnscannedStopped`,
`HeadersHeld`, `ResponseHeld`, `ReplyFirst` from the invariant `TypeOK /\ Gate`,
`Gate == StreamOrder /\ RequestGate /\ ResponseGate`. None of the five is
inductive alone. `StreamOrder` ties the host's variables together (what the
upstream has against what was delivered); `RequestGate` says, for each stage,
which operation, errors and scan a request that went on has; `ResponseGate` ties
a held response to the operation. There is one lemma per callback.

`FilterBooksProofs` adds what the stream writes. `ContextScanned` and
`BlockedStopped` follow from `WafBooks` and `ScanOrder`: how WAF metadata, the
blocks counted and the stream's end go together, and at which stage a scan can
have happened. `CountersCorrect` rests on `ErrorBooks`, which relates the
counters to the errors collected at every stage, those of a body still to come
included, and `VerdictsCorrect` on `VerdictBooks`, which relates them to the
metadata; `VerdictsStay` is the action property, from `VerdictBooks`.

**ScannerPool.** `TypeCorrect` needs `WaitingInCall` (a waiting caller has a
call left). `MutexFree` is from `MutexInv`. `OwnAnswers`, `ErrorsExplained` and
the refinement `PoolServes` rest on `Places /\ Channels`: an open job is in one
place only, in the queue once or in one worker's hands (`QueueOpen`,
`QueueUnique`, `HandsOpen`, `HandsUnique`, `OnePlace`); a channel holds its own
job's finding (`ChannelOwn`); and only begun calls have channels
(`ChannelBegun`). Without the uniqueness two workers could answer one job and a
scan would be reported twice. `LostWithWorker` adds why a channel is closed.
`OpenPending` is the other direction of `Places`: an open job is somewhere
(`OpenPlaced`), which a dropped queue, a panic and a late receiver each have to
respect. `EndsDrained` needs the order in which things end: a thread ends only
when the queue is closed and drained, a job is dropped only by a panic or when
the last thread was lost to one (`QueueOrder`, `EndsWhenDrained`,
`DroppedByPanics`, `PanickedGone`).

**ValidationPool.** `ActsAsPool` (each step is a step of `ScannerPool` or leaves
it unchanged) makes the invariants above available. `OwnSchemaJudges` rests on
`Judging`: entries are under their own key (`CacheOwn`) and a worker that
validates holds the validator of its job's schema (`HeldOwn`). It is here that
`KeyAssumption` is used: two schemas do not collide in the 64 bits of
`DefaultHasher`, which the code does not check. `StampedeIsBounded` rests on
`Herd`: while an entry is absent, compilations done and compilations still to
come are together no more than the workers that missed; its proof counts with
finite-set cardinalities. `LimitsAreShared` says that a validator another API's
limits refuse is only ever used by that API out of the cache: its invariant
`Limited` follows an admitted schema from the compilation (`HeldAdmitted`)
through the cache (`CacheAdmitted`) to its use (`UsedAdmitted`).

**ScanTransaction.** `PhasesTheorem` (`AllPhasesEvaluated`) and `VerdictTheorem`
(`VerdictTellsRules`). A scan ends only when `next` is past `Calls(job)`, so the
invariant says for each type which phases lie before `next`; the verdict needs
that the collector is at every moment what was logged in this transaction
without the set-up rules, and that `result` was made from it. `StringsTheorem`
(`BodyStringsJudged`) is by `ExtractionInv`, the invariant of the extractor's
loop: `strings` has no repetition and holds exactly the literals among those
read that the configuration admits, unless it was full, when it has
`MaxUniqueStrings` of them. It is kept with the job until the phase that shows
it to the rules. `ToSetAppend` is what one more string does to the set of them.

**RulesRegistry.** `WholeTheorem` (`RulesWhole`) and `ConfiguredTheorem`
(`ScannersAsConfigured`) from `RulesInv`: the registry holds under each hash
rules of that hash (`RegistryInv`); while a scanner is made, the rules got are
those of the rulesets that come before the ones still to do (`MakingInv`), which
is what makes the finished scanner complete (`ScannerInv`); and what is loaded
is no longer than the ruleset's sources (`TextInv`). `ServeKeeps` and
`MakingGoesOn` carry the step from one ruleset to the next.
`CompilationsTheorem` (`CompilationsBounded`) counts pairs of an API and a hash:
a compilation uses up the pair of its API, since the hash is in the registry
when that API asks again (`StoredInv`); the pairs still to come are finitely
many, for which the theorem needs that rulesets are.

**Resolver.** `ChainTracked` (`TracksOwnChain`) and `ResolverImplementsLookup`
(`LookupSpec`) from one invariant per stream, `SoundStream`: the references in
frames were followed from the question on the way to the current one
(`Chasing`), all of them are in the stream's own set, and a result is the
question's meaning. A chase that comes back into its frames has found a set
closed under following that holds no end (`ChaseCircular`), one that comes to no
alias has found the only end, so what is told is what `Meaning` defines. Streams
do not disturb each other because a step touches the set of its own clone only.

`DeepTold` (`DeepResolutionTold`) needs more than the variables hold: for every
stream that inlines, there is a path of the schemas it is inside of, one per
level of `todo`, and a set of those already done (`Walking`). Every level's
needs are done, left or on the path; done schemas lead only to done ones and
none of them contains itself (`Settled`). A level that empties settles its
schema; a path longer than there are references has one of them twice. The last
part holds only where the stack has room for as many schemas as there are
references, which the theorem assumes: with less, a deep document that is sound
overflows it too.

**Router.** `FirstOfEachShape` (`RoutesKept`) and `OperationsServed`
(`DeclaredOperationServed`) from `RouterInv`: the table has the first item of
each shape, and the answer was chosen among those that match. Shapes are an
equivalence and a template matches what another of its shape does, so a path
with a declared item is matched by the item that stands for its shape.

**RequestHead.** `HeadRoutes` says that the checks let the router route and
change nothing of it (`HeadSpec` implements `RouterSpec`), which makes the
theorems above available. `HeadVerdicts` is the invariant of the stages,
`VerdictsKept`: among the checks done before a stage, `errors` has those that
fail, by the request and the answer as they still are (`FailsUnchanged`), and no
other; the check of the headers fails for a header that is too long as well.
`ParametersTheorem` (`ParametersJudged`) then rests on `ParamReads`: a
parameter is valid exactly if one of its readings is accepted. One direction is
that what is converted is a reading (`ScalarIsReading`, `ItemIsReading`,
`ArrayIsReading`); the other that, whenever some reading is accepted, the schema
has a type by which the conversion yields that one or one that is accepted too
(`ScalarConverted`), and item by item for an array (`ArrayConverted`). That the
texts met are those the assumptions speak of is `ServedTyped`, from
`DeclaredOperationServed`. `EarlyRefusalTheorem` (`EarlyRefusalAgrees`) is by
`ValidPassesEarly`: what the full check takes passes the early one where
characters are bytes.

**RequestBody.** `BodyHeads` (`BodySpec` implements `HeadSpec`) makes the
theorems on the head available. `FormsKept` is the invariant of the loop,
`FormKept`: after `read` fields `map` has exactly their keys, and under each
what `Merged` makes of the fields that count. What counts changes with a field
in one way for a text and in another for a file (`CountedNext`); positions are
numbered by counting those before them, and a new one comes last (`NthNext`), so
that what `AddPart` does is what `Merged` says (`KeyNext`). `FormsTheorem`
(`FormsJudgedAsSent`) is then about one object and one schema. By a schema with
a type, what a field is made is one of its readings (`FieldIsReading`) and is
accepted if any of them is (`FieldCoerced`); the same is carried from fields to
the values of a key (`MergedCoerced`) and from keys to the object
(`FormCoerced`). It assumes of the schema that there is a type in every place
(`HasTypes`, additional properties included): where there is none, as in a
`oneOf`, the code leaves strings as they are and the claim is false. It is also
false of a form whose Content-Type has capitals, which is parsed and then not
coerced, so `Coerces` is a premise; the run has such forms. Of `Inlined` nothing
is assumed but that it is one of `FormSchemas`, and of jsonschema what JSON
Schema says of readings of the form.

**Exchange.** `ExchangeBodies` (`Spec` implements `BodySpec`) makes all of the
above theorems on what the run checks (`ExchangeJudges`). `MockTheorem`
(`MockPassesValidation`) needs of the variables only that a mock is one that can
be made of the response its status has (`MockKept`); the rest is about the
generator. `Generates` is what it is to hold to for one schema: what it gives is
accepted if every schema within keeps to what the generator looks at (`Keeps`),
and if it panics there is a range within that it cannot choose from
(`Rangeless`). `AcceptedStep` and `PanicStep` carry that from the schemas within
to the schema, type by type. For all schemas it follows without induction over
data, which the prover lacks: if some failed, there would be one with the fewest
schemas within (`SmallestNat`, from the well-foundedness of the natural numbers),
those of its own are fewer still since it is not among them (`RankFalls`), so
they do not fail, and neither does it.

Which content the mock is made of is another matter: `NamedJsonFound` shows that
the generator and the check choose the same one if they agree on which types of
the response are JSON, and this is a premise of the property (`Sound`). Without
it the claim is false, as the run shows when the premise is dropped: of
`application/geo+json-seq` and `application/geo+json` the generator takes the
first and the check the second.

The proof corrected the property twice. A string of an enumeration is generated
whatever its length, so `Keeps` must ask that the values of an enumeration are
within the bounds beside it; and the generator nests as deep as the schema, while
`max_json_depth` limits the response, so a mock of a schema that nests deeper is
one the filter itself rejects. Both operations are among those of the run.

Only model-checked: liveness under fairness (`StreamEnds`, `CallReturns`,
`JobsReleased`, `EndReached`, `ResolutionEnds`) and anything with ENABLED. Every
other property of a passing run is a theorem.

## 5. What is not modelled

- Clock time, sizes in bytes, wording of messages, histograms, logs.
- What libmodsecurity and moka compute: outcomes, chosen freely. What jsonschema
  does is one in the pools, and JSON Schema's definition in `Exchange`.
- Arrays within arrays in a parameter.
- The process-wide pools are `OnceLock` statics, whose `shutdown` only tests
  call; the model keeps it because it is part of the type's interface.
- `ScannerPool::submit` used directly by a caller that never receives.
- The compiler a configuration uses without the global pool: the streams' own
  threads look up, compile and insert in a cache of that configuration, with the
  steps of `ValidationPool`'s workers and one set of limits. `clear` of the
  cache is called by tests only.
- How XML is read and written: what `serde_xml_rs` makes of a body is data, and a
  mock in XML is known by the value it was written from. The code puts no limit
  on the depth of XML, nor does the model.
- Patterns and formats of strings, limits on regular expressions: what a string
  looks like is data here, and a text is only as long as it is. The case of
  header names. The length of the Content-Type itself is not among the headers
  that are measured.
- The coercion of bodies that are no forms: `FormAssumption` has no JSON or XML
  under a type that `Coerces`, whose values could nest deeper than a form's. A
  JSON type with a form's name in a parameter would be one.
- The generic functions of `validation/query.rs`, `header.rs` and `response.rs`
  that nothing but tests calls.
- What a configuration is parsed from, problem documents and their wording.
- The foreign functions, bundled rules and the `OnceLock` statics: declarations,
  texts, and values that are set once.

## 6. Where the code and its documents disagree

Each is a run that is expected to fail, with one property taken from the
document.

| Run | Document | Code |
|---|---|---|
| `route_conflict` | duplicate paths panic, Envoy does not start (docs/architecture.md:403) | a conflict is printed and the later route is missing (router.rs:114) |
| `vendored_json` | `+json` types are supported for bodies (docs/architecture.md:173) | the suffix of the request's type is dropped before it is compared (util.rs:157), so a declared vendored type never matches |
| `multipart_json` | `multipart/form-data` is supported for bodies (docs/architecture.md:175) | `json` anywhere in the Content-Type, the boundary included, makes it JSON (util.rs:41), and the form is refused |
| `failed_scan` | fail-open or fail-closed is the behaviour on a scan error too (docs/architecture.md:297) | a failed scan is a clean result (modsec/pool.rs:349); `timeout_action` is not consulted |
| `same_config` | a cached ruleset is one of the same configuration (modsec/global.rs:59) | the hash leaves the remote key out; the rules first fetched with any key are served |

Noticed on the way and visible in the model, without a run of their own:
`fail_on_response_error` (README.md:212) is read nowhere, an invalid response
goes on (filter.rs:1675); with `validate_response` off, its default, the callback
returns before it scans a response body, whatever `scan_response` says
(filter.rs:1624 against modsec/config.rs:22); nothing reads `queue_capacity`, the
"maximum queue depth for pending scans" (README.md:224), and the channel has no
bound (modsec/pool.rs:242), so jobs whose callers gave up pile up in it; a
missing body is counted but not in the metadata in pass-through mode (`Reported`
in `Filter`); "validate independently" (README.md:53) does not hold of
responses, whose operation is stored by the request's callback; rulesets said to
run in parallel (`modsec/scanner.rs:78`) run one after the other; the validation
pool's `timeout_ms` and `queue_capacity` are fixed by its first user; the
complexity limit is not applied on a cache hit (`LimitsSharedThroughCache` says
what does hold), and its count stops at the depth limit, so that a deep schema
passes more easily than a wide one (security.rs:100 against 422); "timed out" in
the metadata (README.md:111) is that of the effective result only, so the other
ruleset's timeout is enforced and not reported (modsec/observability.rs:256);
forms whose Content-Type has capitals are parsed but not coerced (filter.rs:590
searches the header as it is written, validation/body.rs:310 the parsed type);
the generator of mocks and the check of responses choose their JSON content by
different tests (mock.rs:238, util.rs:48); the cycle detection that
`resolver.rs:14` describes does not cover `resolve_schema_deep`; a mock's status
is drawn among the successful ones where README.md:244 says the first; of the
bounds of a number the generator keeps only to those of an integer with a
minimum, and panics if that is among the last thousand of an `i64` (mock.rs:348:
in a release build `min + 1000` wraps around and the range is empty); the
metric `modsec.strings_extracted`
(README.md:81) is never recorded, since nothing calls
`record_string_extraction`.

## 7. Plan

Done, in this order: `DualScan`, `Filter` and its proofs; `ScannerPool`,
`ScanService` and their proofs; `ValidationPool` and its proofs;
`ScanTransaction` and `RulesRegistry` with their proofs; `References`,
`RefLookup`, `Resolver` and the refinement; `Router` and its proofs; `Values`,
`Mock`, `Exchange`; the books of the stream, the ends of the pool, shared limits
and bounded compilations as theorems; the extractor's loop; `RequestHead` and
the theorems on parameters; `RequestBody` and the theorem on forms; `Mock` and
`Exchange` without recursive operators, and the theorem on mocks.

Left:

1. An abstract request gate that `Filter` is shown to implement: a request is
   pending, refused or forwarded, and forwarded only once judged.
2. `Exchange` under `Filter`: the outcomes of the head drawn from the checks
   instead of freely. Each is finite by itself; together they need smaller sets.
3. Patterns and formats, which a schema may ask of a string and the generator
   does not look at.
