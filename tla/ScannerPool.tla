----------------------------- MODULE ScannerPool -----------------------------
(***************************************************************************)
(* The global ModSecurity thread pool (src/modsec/pool.rs) and the threads *)
(* that scan through it (DualRulesetScanner::scan_blocking in              *)
(* src/modsec/scanner.rs): an unbounded queue, worker threads that take    *)
(* turns at its receiver behind a mutex, and one result channel per job.   *)
(*                                                                         *)
(* A caller stands for an Envoy worker thread.  Its calls are numbered; a  *)
(* scanner with a secondary ruleset makes two of them on each payload, one *)
(* after the other.                                                        *)
(***************************************************************************)
EXTENDS Naturals, Sequences, FiniteSets

CONSTANTS
    Workers,    \* the worker threads
    Callers,    \* the threads that scan
    MaxCalls,   \* bound on the calls of each caller
    MaxPanics,  \* bound on the workers lost to a panic
    Outcomes,   \* what processing a job can find
    Shutdown,   \* WorkerMessage::Shutdown
    None        \* nobody, nothing

VARIABLES
    pool,       \* "open", "shut down" or "dropped"
    queue,      \* the WorkerMessages nobody received yet
    lock,       \* who holds the mutex of the receiver
    alive,      \* the workers whose loop has not returned or unwound
    job,        \* job[w]: what w is processing
    channel,    \* channel[j]: the result channel of job j
    next,       \* next[c]: the number of c's current or next call
    waiting,    \* waiting[c]: c is in recv_timeout
    answer,     \* answer[j]: what scan_blocking returned for job j
    scanned,    \* history: what processing job j found
    panicked    \* history: the jobs whose worker panicked

vars == <<pool, queue, lock, alive, job, channel, next, waiting, answer, scanned, panicked>>

Job == Callers \X (1 .. MaxCalls)
Message == Job \cup {Shutdown}

\* Faulty variant: the calls are counted from the one after.
CurrentOffByOne(c) == <<c, next[c] + 1>>

\* The call c is in, or makes next; its job and result channel are of that name.
Current(c) == <<c, next[c]>>

ASSUME PoolAssumption ==
    /\ MaxCalls \in Nat /\ MaxPanics \in Nat
    /\ IsFiniteSet(Workers)
    /\ Shutdown \notin Job
    /\ None \notin Job /\ None \notin Workers
    /\ Outcomes \cap {"none", "unused", "open", "closed", "timeout"} = {}

Init ==
    /\ pool = "open" /\ queue = <<>>
    /\ lock = None /\ alive = Workers
    /\ job = [w \in Workers |-> None]
    /\ channel = [j \in Job |-> "unused"]
    /\ next = [c \in Callers |-> 1]
    /\ waiting = [c \in Callers |-> FALSE]
    /\ answer = [j \in Job |-> "none"]
    /\ scanned = [j \in Job |-> "none"]
    /\ panicked = {}

-----------------------------------------------------------------------------
\* The callers: submit, then recv_timeout on the job's own channel.

callerSide == <<next, waiting, answer>>
workerSide == <<lock, alive, job, scanned, panicked>>

\* Sending succeeds as long as a worker holds the receiver.
Submit(c) ==
    /\ pool = "open" /\ ~waiting[c] /\ next[c] <= MaxCalls
    /\ alive # {}
    /\ queue' = Append(queue, Current(c))
    /\ channel' = [channel EXCEPT ![Current(c)] = "open"]
    /\ waiting' = [waiting EXCEPT ![c] = TRUE]
    /\ UNCHANGED <<pool, next, answer, workerSide>>

Return(c, result) ==
    /\ answer' = [answer EXCEPT ![Current(c)] = result]
    /\ next' = [next EXCEPT ![c] = @ + 1]
    /\ waiting' = [waiting EXCEPT ![c] = FALSE]
    /\ UNCHANGED <<pool, queue, channel, workerSide>>

\* Every worker is gone: submit fails and the call returns an error result.
SubmitFails(c) ==
    /\ pool = "open" /\ ~waiting[c] /\ next[c] <= MaxCalls
    /\ alive = {}
    /\ Return(c, "error")

Receive(c) ==
    /\ waiting[c] /\ channel[Current(c)] \in Outcomes
    /\ Return(c, channel[Current(c)])

\* Faulty variant: recv in the place of recv_timeout.
RecvTimeoutNever(c) == FALSE /\ Return(c, "timeout")

\* RecvTimeoutError::Timeout: the receiver is dropped, the job is not withdrawn.
RecvTimeout(c) ==
    /\ waiting[c] /\ channel[Current(c)] = "open"
    /\ Return(c, "timeout")

\* RecvTimeoutError::Disconnected
Disconnected(c) ==
    /\ waiting[c] /\ channel[Current(c)] = "closed"
    /\ Return(c, "error")

-----------------------------------------------------------------------------
\* The workers.

\* The messages in the queue.  When the last worker ends the receiver goes with
\* it, and the jobs still queued are dropped together with their result senders.
Queued == {queue[i] : i \in DOMAIN queue}

LockReceiver(w) ==
    /\ w \in alive /\ job[w] = None /\ lock = None
    /\ lock' = w
    /\ UNCHANGED <<pool, queue, alive, job, channel, scanned, panicked, callerSide>>

\* Faulty variant: the mutex is kept while the job is processed.
UnlockNever(w) == lock

\* recv returns inside the block that holds the mutex; the lock is released
\* before the message is looked at.
Unlocked(w) == None

\* Faulty variant: a received job stays in the queue.
QueueUnread == queue

QueueRead == Tail(queue)

RecvJob(w) ==
    /\ lock = w /\ queue # <<>> /\ Head(queue) # Shutdown
    /\ lock' = Unlocked(w)
    /\ queue' = QueueRead
    /\ job' = [job EXCEPT ![w] = Head(queue)]
    /\ UNCHANGED <<pool, alive, channel, scanned, panicked, callerSide>>

\* Faulty variant: the result goes to the call its caller is in now.
ReplyToCaller(j) == <<j[1], IF next[j[1]] <= MaxCalls THEN next[j[1]] ELSE MaxCalls>>

\* The job carries the sender of its own channel.
ReplyTo(j) == j

\* Faulty variant: the worker drops the result sender without using it.
FinishJobSilently(w) ==
    /\ job[w] # None
    /\ channel' = [channel EXCEPT ![ReplyTo(job[w])] = "closed"]
    /\ job' = [job EXCEPT ![w] = None]
    /\ UNCHANGED <<pool, queue, lock, alive, scanned, panicked, callerSide>>

\* process_scan_job returned; the send fails silently if the caller gave up.
FinishJob(w) ==
    /\ job[w] # None
    /\ \E result \in Outcomes :
          /\ scanned' = [scanned EXCEPT ![job[w]] = result]
          /\ channel' = [channel EXCEPT ![ReplyTo(job[w])] = result]
    /\ job' = [job EXCEPT ![w] = None]
    /\ UNCHANGED <<pool, queue, lock, alive, panicked, callerSide>>

\* Processing panics: the thread unwinds and drops the result sender.
Panic(w) ==
    /\ job[w] # None /\ Cardinality(panicked) < MaxPanics
    /\ alive' = alive \ {w}
    /\ job' = [job EXCEPT ![w] = None]
    /\ panicked' = panicked \cup {job[w]}
    /\ queue' = IF alive' = {} THEN <<>> ELSE queue
    /\ channel' = [j \in Job |->
          IF j = job[w] \/ (alive' = {} /\ j \in Queued) THEN "closed" ELSE channel[j]]
    /\ UNCHANGED <<pool, lock, scanned, callerSide>>

\* Shutdown was received, or the queue is empty and its sender is gone.
RecvEnd(w) ==
    /\ lock = w
    /\ \/ queue # <<>> /\ Head(queue) = Shutdown
       \/ queue = <<>> /\ pool = "dropped"
    /\ lock' = None
    /\ alive' = alive \ {w}
    /\ queue' = IF alive' = {} \/ queue = <<>> THEN <<>> ELSE Tail(queue)
    /\ channel' = [j \in Job |->
          IF alive' = {} /\ j \in Queued THEN "closed" ELSE channel[j]]
    /\ UNCHANGED <<pool, job, scanned, panicked, callerSide>>

-----------------------------------------------------------------------------
\* The owner of the pool.  Both consume it, so no caller is inside a call.

\* Faulty variant: one worker is told to stop too few.
ShutdownsTooFew == [i \in 1 .. Cardinality(Workers) - 1 |-> Shutdown]

Shutdowns == [i \in 1 .. Cardinality(Workers) |-> Shutdown]

\* Faulty variant: Shutdown overtakes the jobs already queued.
ClosingAtOnce == Shutdowns \o queue

\* One Shutdown per worker goes behind the jobs already queued.
Closing == queue \o Shutdowns

ShutDown ==
    /\ pool = "open" /\ \A c \in Callers : ~waiting[c]
    /\ pool' = "shut down"
    /\ queue' = IF alive = {} THEN queue ELSE Closing
    /\ UNCHANGED <<channel, workerSide, callerSide>>

\* The pool is dropped without shutdown: the queue has no sender any more.
DropPool ==
    /\ pool = "open" /\ \A c \in Callers : ~waiting[c]
    /\ pool' = "dropped"
    /\ UNCHANGED <<queue, channel, workerSide, callerSide>>

-----------------------------------------------------------------------------

Waken(c) == Receive(c) \/ RecvTimeout(c) \/ Disconnected(c)
WorkerStep(w) == RecvJob(w) \/ FinishJob(w) \/ RecvEnd(w)

\* The pool was consumed and its threads are gone: nothing is left to happen.
Ended == pool # "open" /\ alive = {} /\ UNCHANGED vars

Next == \/ \E c \in Callers : Submit(c) \/ SubmitFails(c) \/ Waken(c)
        \/ \E w \in Workers : LockReceiver(w) \/ WorkerStep(w) \/ Panic(w)
        \/ ShutDown
        \/ DropPool
        \/ Ended

Spec == Init /\ [][Next]_vars

\* The clock runs: a blocked caller is woken by its result, by the loss of the
\* sender or by the timeout.
TimerFairness == \A c \in Callers : WF_vars(Waken(c))
TimerSpec == Spec /\ TimerFairness

\* Every thread is scheduled, a free mutex is given to some waiter, and
\* libmodsecurity returns from every scan.  It is no part of TimerSpec: only the
\* properties that need it assume it.
WorkerFairness == /\ WF_vars(\E w \in Workers : LockReceiver(w))
                  /\ \A w \in Workers : WF_vars(WorkerStep(w))

-----------------------------------------------------------------------------
\* Type invariant

\* Every variable of the pool, its callers and its workers has its type.
TypeOK ==
    /\ pool \in {"open", "shut down", "dropped"}
    /\ queue \in Seq(Message)
    /\ lock \in Workers \cup {None}
    /\ alive \subseteq Workers
    /\ job \in [Workers -> Job \cup {None}]
    /\ channel \in [Job -> Outcomes \cup {"unused", "open", "closed"}]
    /\ next \in [Callers -> 1 .. MaxCalls + 1]
    /\ waiting \in [Callers -> BOOLEAN]
    /\ answer \in [Job -> Outcomes \cup {"none", "timeout", "error"}]
    /\ scanned \in [Job -> Outcomes \cup {"none"}]
    /\ panicked \subseteq Job

-----------------------------------------------------------------------------
\* Safety

\* A caller can only wait on an open channel, and behind every open channel
\* there is exactly one job: queued once, or in the hands of one worker.
OpenMeansPending ==
    \A j \in Job :
        LET places == {i \in DOMAIN queue : queue[i] = j}
            hands  == {w \in Workers : job[w] = j}
        IN  Cardinality(places) + Cardinality(hands) =
                IF channel[j] = "open" THEN 1 ELSE 0

\* A call returns what scanning its own payload with its own ruleset found:
\* never the late answer to an earlier call that timed out.
AnswerIsOwn ==
    \A j \in Job : answer[j] \notin {"none", "timeout", "error"} => scanned[j] = answer[j]

\* A call fails only when its worker panicked, when no worker is left, or when
\* processing itself failed.
ErrorOnlyWhenLost ==
    \A j \in Job :
        answer[j] = "error" /\ scanned[j] # "error" => j \in panicked \/ alive = {}

\* The mutex covers recv only: a worker that processes a job does not hold it,
\* and a worker that is gone did not take it along.
LockHolderIdle == lock # None => lock \in alive /\ job[lock] = None

\* Workers end only after everything submitted was processed, abandoned jobs
\* included, unless panics took them all.
EndDrains ==
    alive = {} /\ Cardinality(panicked) < Cardinality(Workers)
        => \A j \in Job : channel[j] # "unused" => scanned[j] # "none" \/ j \in panicked

\* What one caller may rely on, whatever the threads do: queue, mutex, channels
\* and workers are hidden.
Service == INSTANCE ScanService
              WITH next <- next, waiting <- waiting, scanned <- scanned, answer <- answer
ServiceSpec == Service!Spec

-----------------------------------------------------------------------------
\* Liveness

\* scan_blocking returns even if no worker ever runs again.
CallReturns == \A c \in Callers : waiting[c] ~> ~waiting[c]

\* With scheduled workers every submitted job is processed in the end, or dropped
\* with the last worker, also when its caller has long given up.
JobsReleased ==
    WorkerFairness => \A j \in Job : channel[j] = "open" ~> channel[j] # "open"

\* With scheduled workers shutdown joins each of them, and dropping the pool ends
\* them too, whatever the callers do.
EndReached == WorkerFairness => (pool # "open" ~> alive = {})

=============================================================================
