-------------------------- MODULE ScannerPoolProofs --------------------------
(***************************************************************************)
(* Theorems about ScannerPool, for every number of workers and callers,    *)
(* every number of calls and panics and every set of outcomes.             *)
(***************************************************************************)
EXTENDS ScannerPool, FiniteSetTheorems, SequenceTheorems, TLAPS

-----------------------------------------------------------------------------
\* Type correctness.

LEMMA InitType == Init => TypeOK
BY PoolAssumption DEF Init, TypeOK

\* While a call can be made or is being made, it has a name.
LEMMA CurrentType ==
    ASSUME TypeOK, NEW c \in Callers, next[c] <= MaxCalls
    PROVE  Current(c) \in Job
<1>1. next[c] \in 1 .. MaxCalls
  <2>1. next[c] \in 1 .. MaxCalls + 1
    BY DEF TypeOK
  <2> QED
    BY <2>1, PoolAssumption
<1> QED
  BY <1>1 DEF Current, Job

LEMMA NextNat ==
    ASSUME TypeOK, NEW c \in Callers
    PROVE  next[c] \in Nat
<1>1. next[c] \in 1 .. MaxCalls + 1
  BY DEF TypeOK
<1> QED
  BY <1>1, PoolAssumption

LEMMA ReturnType ==
    ASSUME TypeOK, NEW c \in Callers, next[c] <= MaxCalls,
           NEW result \in Outcomes \cup {"timeout", "error"}, Return(c, result)
    PROVE  TypeOK'
<1>1. answer' \in [Job -> Outcomes \cup {"none", "timeout", "error"}]
  BY DEF TypeOK, Return
<1>2. next' \in [Callers -> 1 .. MaxCalls + 1]
  <2>1. next[c] + 1 \in 1 .. MaxCalls + 1
    <3>1. next[c] \in 1 .. MaxCalls + 1
      BY DEF TypeOK
    <3> QED
      BY <3>1, PoolAssumption
  <2> QED
    BY <2>1 DEF TypeOK, Return
<1> QED
  BY <1>1, <1>2 DEF TypeOK, Return, workerSide

\* Shutdown messages are messages.
LEMMA ClosingType == queue \in Seq(Message) => Closing \in Seq(Message)
<1>1. Cardinality(Workers) \in Nat
  BY PoolAssumption, FS_CardinalityType
<1>2. Shutdowns \in Seq(Message)
  BY <1>1 DEF Shutdowns, Message
<1> QED
  BY <1>2 DEF Closing

\* A caller that waits is inside one of its MaxCalls calls.
WaitingInCall == \A c \in Callers : waiting[c] => next[c] <= MaxCalls

LEMMA WaitingStep == TypeOK /\ WaitingInCall /\ [Next]_vars => WaitingInCall'
<1> SUFFICES ASSUME TypeOK, WaitingInCall, [Next]_vars PROVE WaitingInCall'
  OBVIOUS
<1> USE DEF WaitingInCall
<1>1. ASSUME NEW c \in Callers, NEW result, Return(c, result)
      PROVE  WaitingInCall'
  BY <1>1 DEF Return, TypeOK
<1>2. ASSUME NEW c \in Callers, Submit(c)
      PROVE  WaitingInCall'
  BY <1>2 DEF Submit, TypeOK
<1>3. ASSUME UNCHANGED <<next, waiting>>
      PROVE  WaitingInCall'
  BY <1>3
<1> QED
  BY <1>1, <1>2, <1>3
  DEF Next, vars, SubmitFails, Waken, Receive, RecvTimeout, Disconnected, LockReceiver,
      WorkerStep, RecvJob, FinishJob, RecvEnd, Panic, ShutDown, DropPool, Ended, callerSide

LEMMA CallerType ==
    ASSUME TypeOK, WaitingInCall, NEW c \in Callers,
           Submit(c) \/ SubmitFails(c) \/ Waken(c)
    PROVE  TypeOK'
<1>1. CASE Submit(c)
  <2>1. Current(c) \in Job
    BY <1>1, CurrentType DEF Submit
  <2>2. queue' \in Seq(Message)
    BY <1>1, <2>1 DEF Submit, TypeOK, Message
  <2>3. channel' \in [Job -> Outcomes \cup {"unused", "open", "closed"}]
    BY <1>1 DEF Submit, TypeOK
  <2> QED
    BY <1>1, <2>2, <2>3 DEF Submit, TypeOK, workerSide
<1>2. CASE SubmitFails(c)
  BY <1>2, ReturnType DEF SubmitFails
<1>3. CASE Waken(c)
  <2>1. waiting[c] /\ next[c] <= MaxCalls
    BY <1>3 DEF Waken, Receive, RecvTimeout, Disconnected, WaitingInCall
  <2> QED
    BY <1>3, <2>1, ReturnType DEF Waken, Receive, RecvTimeout, Disconnected
<1> QED
  BY <1>1, <1>2, <1>3

LEMMA WorkerType ==
    ASSUME TypeOK, NEW w \in Workers, LockReceiver(w) \/ WorkerStep(w) \/ Panic(w)
    PROVE  TypeOK'
<1>1. CASE LockReceiver(w)
  BY <1>1 DEF LockReceiver, TypeOK, callerSide
<1>2. CASE RecvJob(w)
  <2>1. Head(queue) \in Message /\ Tail(queue) \in Seq(Message)
    BY <1>2, HeadTailProperties DEF RecvJob, TypeOK
  <2>2. Head(queue) \in Job
    BY <1>2, <2>1 DEF RecvJob, Message
  <2> QED
    BY <1>2, <2>1, <2>2 DEF RecvJob, Unlocked, QueueRead, TypeOK, callerSide
<1>3. CASE FinishJob(w)
  BY <1>3 DEF FinishJob, ReplyTo, TypeOK, callerSide
<1>4. CASE Panic(w)
  <2>1. job[w] \in Job
    BY <1>4 DEF Panic, TypeOK
  <2>2. queue' \in Seq(Message)
    BY <1>4, EmptySeq DEF Panic, TypeOK
  <2>3. channel' \in [Job -> Outcomes \cup {"unused", "open", "closed"}]
    BY <1>4 DEF Panic, TypeOK
  <2> QED
    BY <1>4, <2>1, <2>2, <2>3 DEF Panic, TypeOK, callerSide
<1>5. CASE RecvEnd(w)
  <2>1. queue' \in Seq(Message)
    BY <1>5, EmptySeq, HeadTailProperties DEF RecvEnd, TypeOK
  <2>2. channel' \in [Job -> Outcomes \cup {"unused", "open", "closed"}]
    BY <1>5 DEF RecvEnd, TypeOK
  <2> QED
    BY <1>5, <2>1, <2>2 DEF RecvEnd, TypeOK, callerSide
<1> QED
  BY <1>1, <1>2, <1>3, <1>4, <1>5 DEF WorkerStep

LEMMA NextType == TypeOK /\ WaitingInCall /\ [Next]_vars => TypeOK'
<1> SUFFICES ASSUME TypeOK, WaitingInCall, [Next]_vars PROVE TypeOK'
  OBVIOUS
<1>1. CASE ShutDown
  BY <1>1, ClosingType DEF ShutDown, TypeOK, workerSide, callerSide
<1>2. CASE DropPool
  BY <1>2 DEF DropPool, TypeOK, workerSide, callerSide
<1>3. CASE UNCHANGED vars
  BY <1>3 DEF vars, TypeOK
<1> QED
  BY <1>1, <1>2, <1>3, CallerType, WorkerType DEF Next, Ended

LEMMA TypesHold == Spec => [](TypeOK /\ WaitingInCall)
<1>1. Init => TypeOK /\ WaitingInCall
  BY InitType DEF Init, WaitingInCall
<1>2. TypeOK /\ WaitingInCall /\ [Next]_vars => (TypeOK /\ WaitingInCall)'
  BY NextType, WaitingStep
<1> QED
  BY <1>1, <1>2, PTL DEF Spec

\* The pool, its queue and its channels are well typed, however many workers
\* and callers there are: only jobs and shutdown messages are ever queued.
THEOREM TypeCorrect == Spec => []TypeOK
BY TypesHold, PTL

-----------------------------------------------------------------------------
\* The mutex.

\* Whoever holds the receiver's mutex is alive and between two jobs, and who
\* has a job is alive: no lock is lost with a thread.
MutexInv == LockHolderIdle /\ \A w \in Workers : job[w] # None => w \in alive

LEMMA MutexStep == TypeOK /\ MutexInv /\ [Next]_vars => MutexInv'
<1> SUFFICES ASSUME TypeOK, MutexInv, [Next]_vars PROVE MutexInv'
  OBVIOUS
<1> USE DEF MutexInv, LockHolderIdle, TypeOK
<1>1. ASSUME UNCHANGED <<lock, alive, job>>
      PROVE  MutexInv'
  BY <1>1
<1>2. ASSUME NEW w \in Workers, LockReceiver(w)
      PROVE  MutexInv'
  BY <1>2, PoolAssumption DEF LockReceiver
<1>3. ASSUME NEW w \in Workers, RecvJob(w)
      PROVE  MutexInv'
  BY <1>3, PoolAssumption DEF RecvJob, Unlocked
<1>4. ASSUME NEW w \in Workers, FinishJob(w)
      PROVE  MutexInv'
  BY <1>4 DEF FinishJob
<1>5. ASSUME NEW w \in Workers, Panic(w)
      PROVE  MutexInv'
  BY <1>5 DEF Panic
<1>6. ASSUME NEW w \in Workers, RecvEnd(w)
      PROVE  MutexInv'
  BY <1>6, PoolAssumption DEF RecvEnd
<1> QED
  BY <1>1, <1>2, <1>3, <1>4, <1>5, <1>6
  DEF Next, vars, Submit, SubmitFails, Waken, Receive, RecvTimeout, Disconnected, Return,
      WorkerStep, ShutDown, DropPool, Ended, workerSide

LEMMA MutexHolds == Spec => []MutexInv
<1>1. Init => MutexInv
  BY PoolAssumption DEF Init, MutexInv, LockHolderIdle
<1>2. TypeOK /\ MutexInv /\ [Next]_vars => MutexInv'
  BY MutexStep
<1> QED
  BY <1>1, <1>2, TypeCorrect, PTL DEF Spec

\* worker_loop holds the mutex while it waits in recv and never while it scans:
\* a slow scan delays no other worker, and a panic poisons no lock.
THEOREM MutexFree == Spec => []LockHolderIdle
<1>1. MutexInv => LockHolderIdle
  BY DEF MutexInv
<1> QED
  BY <1>1, MutexHolds, PTL

-----------------------------------------------------------------------------
\* Where a job can be.

\* Lemmas about the queue: the places of the sequences the actions build.
LEMMA TailPlaces ==
    ASSUME queue \in Seq(Message), queue # <<>>
    PROVE  /\ 1 \in DOMAIN queue /\ Head(queue) = queue[1]
           /\ \A i \in DOMAIN Tail(queue) :
                 /\ i + 1 \in DOMAIN queue /\ i + 1 # 1
                 /\ i \in Nat
                 /\ Tail(queue)[i] = queue[i + 1]
<1>1. /\ Tail(queue) \in Seq(Message)
      /\ Len(Tail(queue)) = Len(queue) - 1
      /\ \A i \in 1 .. Len(Tail(queue)) : Tail(queue)[i] = queue[i + 1]
  BY HeadTailProperties
<1>2. Len(queue) \in Nat \ {0} /\ DOMAIN queue = 1 .. Len(queue)
  BY EmptySeq, LenProperties
<1>3. DOMAIN Tail(queue) = 1 .. Len(queue) - 1
  BY <1>1, LenProperties
<1> QED
  BY <1>1, <1>2, <1>3

LEMMA AppendPlaces ==
    ASSUME queue \in Seq(Message), NEW m \in Message
    PROVE  \A i \in DOMAIN Append(queue, m) :
              \/ i \in DOMAIN queue /\ Append(queue, m)[i] = queue[i]
              \/ i = Len(queue) + 1 /\ Append(queue, m)[i] = m
<1>1. /\ Append(queue, m) \in Seq(Message)
      /\ Len(Append(queue, m)) = Len(queue) + 1
      /\ \A i \in 1 .. Len(queue) : Append(queue, m)[i] = queue[i]
      /\ Append(queue, m)[Len(queue) + 1] = m
  BY AppendProperties
<1>2. Len(queue) \in Nat /\ DOMAIN queue = 1 .. Len(queue)
  BY LenProperties
<1>3. DOMAIN Append(queue, m) = 1 .. Len(queue) + 1
  BY <1>1, LenProperties
<1> QED
  BY <1>1, <1>2, <1>3

LEMMA ClosingPlaces ==
    ASSUME queue \in Seq(Message)
    PROVE  \A i \in DOMAIN Closing :
              \/ i \in DOMAIN queue /\ Closing[i] = queue[i]
              \/ Closing[i] = Shutdown
<1>1. Cardinality(Workers) \in Nat
  BY PoolAssumption, FS_CardinalityType
<1>2. /\ Shutdowns \in Seq(Message)
      /\ Len(Shutdowns) = Cardinality(Workers)
      /\ \A i \in 1 .. Len(Shutdowns) : Shutdowns[i] = Shutdown
  BY <1>1 DEF Shutdowns, Message
<1>3. /\ Closing \in Seq(Message)
      /\ Len(Closing) = Len(queue) + Len(Shutdowns)
      /\ \A i \in 1 .. Len(queue) + Len(Shutdowns) :
            Closing[i] = IF i <= Len(queue) THEN queue[i] ELSE Shutdowns[i - Len(queue)]
  BY <1>2, ConcatProperties DEF Closing
<1>4. Len(queue) \in Nat /\ DOMAIN queue = 1 .. Len(queue)
  BY LenProperties
<1>5. DOMAIN Closing = 1 .. Len(queue) + Len(Shutdowns)
  BY <1>3, LenProperties
<1> QED
  BY <1>1, <1>2, <1>3, <1>4, <1>5

\* A job is in one place: queued once or in the hands of one worker, and its
\* channel is open as long as it is.
QueueOpen == \A i \in DOMAIN queue : queue[i] # Shutdown => channel[queue[i]] = "open"
QueueUnique ==
    \A i, k \in DOMAIN queue : queue[i] = queue[k] /\ queue[i] # Shutdown => i = k
HandsOpen == \A w \in Workers : job[w] # None => channel[job[w]] = "open"
HandsUnique == \A v, w \in Workers : job[v] = job[w] /\ job[v] # None => v = w
OnePlace == \A w \in Workers, i \in DOMAIN queue : job[w] # None => job[w] # queue[i]

\* A channel carries what its own job found, and only calls that began have one.
ChannelOwn ==
    \A j \in Job : IF channel[j] \in Outcomes THEN scanned[j] = channel[j]
                   ELSE scanned[j] = "none"
ChannelBegun == \A j \in Job : channel[j] # "unused" => Service!Begun(j)

Places == QueueOpen /\ QueueUnique /\ HandsOpen /\ HandsUnique /\ OnePlace
Channels == ChannelOwn /\ ChannelBegun

Context == TypeOK /\ WaitingInCall /\ MutexInv

\* A job in a worker's hands has an open channel and no result yet.
LEMMA InHand ==
    ASSUME Context, Places, Channels, NEW w \in Workers, job[w] # None
    PROVE  job[w] \in Job /\ channel[job[w]] = "open" /\ scanned[job[w]] = "none"
<1>1. job[w] \in Job
  BY DEF Context, TypeOK
<1>2. channel[job[w]] = "open"
  BY DEF Places, HandsOpen
<1>3. "open" \notin Outcomes
  BY PoolAssumption
<1>4. ChannelOwn
  BY DEF Channels
<1>5. scanned[job[w]] = "none"
  BY <1>1, <1>2, <1>3, <1>4 DEF ChannelOwn
<1> QED
  BY <1>1, <1>2, <1>5

\* The call a caller is about to make has no channel yet.
LEMMA NextUnused ==
    ASSUME Context, Channels, NEW c \in Callers, ~waiting[c], next[c] <= MaxCalls
    PROVE  Current(c) \in Job /\ channel[Current(c)] = "unused"
<1>1. Current(c) \in Job
  BY CurrentType DEF Context
<1>2. ~Service!Begun(Current(c))
  <2>1. next[c] \in Nat
    BY NextNat DEF Context
  <2> QED
    BY <2>1 DEF Service!Begun, Current
<1> QED
  BY <1>1, <1>2 DEF Channels, ChannelBegun

LEMMA SubmitStep ==
    ASSUME Context, Places, Channels, NEW c \in Callers, Submit(c)
    PROVE  Places' /\ Channels'
<1> DEFINE j == Current(c)
<1>1. j \in Job /\ channel[j] = "unused"
  BY NextUnused DEF Submit
<1>2. j \in Message /\ j # Shutdown /\ j # None
  BY <1>1, PoolAssumption DEF Message
<1>3. /\ queue \in Seq(Message)
      /\ channel \in [Job -> Outcomes \cup {"unused", "open", "closed"}]
  BY DEF Context, TypeOK
<1> HIDE DEF j
<1>4. /\ queue' = Append(queue, j)
      /\ channel' = [channel EXCEPT ![j] = "open"]
      /\ waiting' = [waiting EXCEPT ![c] = TRUE]
      /\ UNCHANGED <<job, scanned, next>>
  BY DEF Submit, workerSide, j
<1>5. \A i \in DOMAIN queue' :
         \/ i \in DOMAIN queue /\ queue'[i] = queue[i]
         \/ i = Len(queue) + 1 /\ queue'[i] = j
  BY <1>2, <1>3, <1>4, AppendPlaces
<1>6. /\ \A i \in DOMAIN queue : queue[i] # j
      /\ \A w \in Workers : job[w] # j
  BY <1>1, <1>2 DEF Places, QueueOpen, HandsOpen
<1>7. \A i \in DOMAIN queue : queue[i] \in Message
  BY <1>3, LenProperties, ElementOfSeq
<1>8. QueueOpen'
  BY <1>1, <1>3, <1>4, <1>5, <1>7 DEF Places, QueueOpen, Message
<1>9. QueueUnique'
  BY <1>5, <1>6 DEF Places, QueueUnique
<1>10. HandsOpen'
  BY <1>1, <1>3, <1>4, <1>6 DEF Places, HandsOpen, Context, TypeOK
<1>11. HandsUnique'
  BY <1>4 DEF Places, HandsUnique
<1>12. OnePlace'
  BY <1>4, <1>5, <1>6 DEF Places, OnePlace
<1>13. ChannelOwn'
  <2>1. "open" \notin Outcomes /\ "unused" \notin Outcomes
    BY PoolAssumption
  <2> QED
    BY <1>1, <1>3, <1>4, <2>1 DEF Channels, ChannelOwn
<1>14. ChannelBegun'
  <2> SUFFICES ASSUME NEW k \in Job, channel'[k] # "unused"
               PROVE  Service!Begun(k)'
    BY DEF ChannelBegun
  <2>1. CASE k = j
    <3>1. k[1] = c /\ k[2] = next[c] /\ waiting'[c]
      BY <1>4, <2>1 DEF j, Current, Context, TypeOK
    <3> QED
      BY <1>4, <3>1 DEF Service!Begun
  <2>2. CASE k # j
    <3>1. Service!Begun(k)
      BY <1>3, <1>4, <2>2 DEF Channels, ChannelBegun
    <3>2. k[1] \in Callers
      BY DEF Job
    <3> QED
      BY <1>4, <3>1, <3>2 DEF Service!Begun, Context, TypeOK
  <2> QED
    BY <2>1, <2>2
<1> QED
  BY <1>8, <1>9, <1>10, <1>11, <1>12, <1>13, <1>14 DEF Places, Channels

LEMMA ReturnStep ==
    ASSUME Context, Places, Channels, NEW c \in Callers, NEW result, Return(c, result)
    PROVE  Places' /\ Channels'
<1>1. UNCHANGED <<queue, channel, job, scanned>>
  BY DEF Return, workerSide
<1>2. Places' /\ ChannelOwn'
  BY <1>1
  DEF Places, QueueOpen, QueueUnique, HandsOpen, HandsUnique, OnePlace, Channels, ChannelOwn
<1>3. ChannelBegun'
  <2> SUFFICES ASSUME NEW k \in Job, channel[k] # "unused"
               PROVE  Service!Begun(k)'
    BY <1>1 DEF ChannelBegun
  <2>1. Service!Begun(k) /\ k[1] \in Callers /\ k[2] \in Nat
    BY PoolAssumption DEF Channels, ChannelBegun, Job
  <2>2. next[k[1]] \in Nat /\ next[c] \in Nat
    BY <2>1, NextNat DEF Context
  <2>3. /\ next' = [next EXCEPT ![c] = @ + 1]
        /\ waiting' = [waiting EXCEPT ![c] = FALSE]
        /\ next \in [Callers -> 1 .. MaxCalls + 1]
        /\ waiting \in [Callers -> BOOLEAN]
    BY DEF Return, Context, TypeOK
  <2>4. CASE k[1] = c
    <3>1. next'[c] = next[c] + 1 /\ k[2] <= next[c]
      BY <2>1, <2>2, <2>3, <2>4 DEF Service!Begun
    <3> QED
      BY <2>1, <2>2, <2>4, <3>1 DEF Service!Begun
  <2>5. CASE k[1] # c
    BY <2>1, <2>3, <2>5 DEF Service!Begun
  <2> QED
    BY <2>4, <2>5
<1> QED
  BY <1>2, <1>3 DEF Channels

\* A call that began stays begun while no caller moves.
LEMMA BegunFrame ==
    ASSUME UNCHANGED callerSide, ChannelBegun,
           \A j \in Job : channel[j] = "unused" => channel'[j] = "unused"
    PROVE  ChannelBegun'
BY DEF ChannelBegun, Service!Begun, callerSide

LEMMA RecvJobStep ==
    ASSUME Context, Places, Channels, NEW w \in Workers, RecvJob(w)
    PROVE  Places' /\ Channels'
<1>1. queue \in Seq(Message) /\ queue # <<>> /\ job[w] = None /\ job \in [Workers -> Job \cup {None}]
  BY PoolAssumption DEF Context, TypeOK, MutexInv, LockHolderIdle, RecvJob
<1>2. /\ 1 \in DOMAIN queue /\ Head(queue) = queue[1]
      /\ \A i \in DOMAIN Tail(queue) :
            i + 1 \in DOMAIN queue /\ i + 1 # 1 /\ i \in Nat /\ Tail(queue)[i] = queue[i + 1]
  BY <1>1, TailPlaces
<1>3. /\ queue' = Tail(queue) /\ job' = [job EXCEPT ![w] = queue[1]]
      /\ queue[1] # Shutdown
      /\ UNCHANGED <<channel, scanned>> /\ UNCHANGED callerSide
  BY <1>2 DEF RecvJob, QueueRead
<1>4. QueueOpen'
  BY <1>2, <1>3 DEF Places, QueueOpen
<1>5. QueueUnique'
  <2> SUFFICES ASSUME NEW i \in DOMAIN queue', NEW k \in DOMAIN queue',
                      queue'[i] = queue'[k], queue'[i] # Shutdown
               PROVE  i = k
    BY <1>3 DEF QueueUnique
  <2>1. i + 1 = k + 1
    BY <1>2, <1>3 DEF Places, QueueUnique
  <2> QED
    BY <1>2, <1>3, <2>1
<1>6. HandsOpen'
  BY <1>1, <1>2, <1>3 DEF Places, HandsOpen, QueueOpen
<1>7. HandsUnique'
  BY <1>1, <1>2, <1>3 DEF Places, HandsUnique, OnePlace
<1>8. OnePlace'
  BY <1>1, <1>2, <1>3 DEF Places, OnePlace, QueueUnique
<1>9. Channels'
  BY <1>3, BegunFrame DEF Channels, ChannelOwn
<1> QED
  BY <1>4, <1>5, <1>6, <1>7, <1>8, <1>9 DEF Places

LEMMA FinishJobStep ==
    ASSUME Context, Places, Channels, NEW w \in Workers, FinishJob(w)
    PROVE  Places' /\ Channels'
<1> DEFINE j == job[w]
<1>1. /\ j \in Job /\ j # None
      /\ job \in [Workers -> Job \cup {None}]
      /\ channel \in [Job -> Outcomes \cup {"unused", "open", "closed"}]
      /\ scanned \in [Job -> Outcomes \cup {"none"}]
  BY DEF Context, TypeOK, FinishJob
<1>2. PICK result \in Outcomes :
         /\ scanned' = [scanned EXCEPT ![j] = result]
         /\ channel' = [channel EXCEPT ![j] = result]
  BY DEF FinishJob, ReplyTo
<1>3. /\ job' = [job EXCEPT ![w] = None]
      /\ queue' = queue /\ UNCHANGED callerSide
  BY DEF FinishJob
<1>4. channel[j] = "open"
  BY <1>1 DEF Places, HandsOpen
<1>5. /\ \A i \in DOMAIN queue : queue[i] # j
      /\ \A v \in Workers \ {w} : job[v] # j
  BY <1>1 DEF Places, OnePlace, HandsUnique
<1>6. \A i \in DOMAIN queue : queue[i] # Shutdown => queue[i] \in Job
  <2>1. queue \in Seq(Message)
    BY DEF Context, TypeOK
  <2> QED
    BY <2>1, LenProperties, ElementOfSeq DEF Message
<1> HIDE DEF j
<1>7. QueueOpen'
  BY <1>1, <1>2, <1>3, <1>5, <1>6 DEF Places, QueueOpen
<1>8. QueueUnique'
  BY <1>3 DEF Places, QueueUnique
<1>9. HandsOpen'
  BY <1>1, <1>2, <1>3, <1>5 DEF Places, HandsOpen
<1>10. HandsUnique'
  BY <1>1, <1>3 DEF Places, HandsUnique
<1>11. OnePlace'
  BY <1>1, <1>3 DEF Places, OnePlace
<1>12. ChannelOwn'
  BY <1>1, <1>2 DEF Channels, ChannelOwn
<1>13. ChannelBegun'
  BY <1>1, <1>2, <1>3, <1>4, BegunFrame DEF Channels
<1> QED
  BY <1>7, <1>8, <1>9, <1>10, <1>11, <1>12, <1>13 DEF Places, Channels

\* A worker that ends closes channels: those of jobs that are nowhere any more.
LEMMA WorkerEnds ==
    ASSUME Context, Places, Channels, NEW w \in Workers,
           alive' = alive \ {w}, job' = [job EXCEPT ![w] = None],
           queue' = <<>> \/ (alive' # {} /\ queue' \in {queue, Tail(queue)} /\ queue # <<>>),
           channel' = [j \in Job |->
              IF (job[w] # None /\ j = job[w]) \/ (alive' = {} /\ j \in Queued)
              THEN "closed" ELSE channel[j]],
           scanned' = scanned, UNCHANGED callerSide
    PROVE  Places' /\ Channels'
<1>1. /\ queue \in Seq(Message)
      /\ job \in [Workers -> Job \cup {None}]
      /\ channel \in [Job -> Outcomes \cup {"unused", "open", "closed"}]
  BY DEF Context, TypeOK
<1>2. \A i \in DOMAIN queue : queue[i] # Shutdown => queue[i] \in Job
  BY <1>1, LenProperties, ElementOfSeq DEF Message
<1>3. ASSUME NEW i \in DOMAIN queue'
      PROVE  \/ queue' = queue /\ i \in DOMAIN queue
             \/ /\ queue' = Tail(queue) /\ i \in Nat /\ i + 1 \in DOMAIN queue
                /\ queue'[i] = queue[i + 1]
  <2>1. CASE queue' = <<>>
    <3>1. DOMAIN queue' = {}
      BY <2>1
    <3> QED
      BY <1>3, <3>1
  <2>2. CASE queue' = queue
    BY <1>3, <2>2
  <2>3. CASE queue' = Tail(queue) /\ queue # <<>>
    BY <1>1, <1>3, <2>3, TailPlaces
  <2> QED
    BY <2>1, <2>2, <2>3
<1>4. \A i \in DOMAIN queue' : alive' # {}
  <2>1. DOMAIN <<>> = {}
    OBVIOUS
  <2> QED
    BY <2>1
<1>5. \A v \in Workers : job'[v] # None => v # w /\ job'[v] = job[v] /\ alive' # {}
  BY <1>1 DEF Context, MutexInv
<1>6. QueueOpen'
  BY <1>1, <1>2, <1>3, <1>4 DEF Places, QueueOpen, OnePlace
<1>7. QueueUnique'
  BY <1>3 DEF Places, QueueUnique
<1>8. HandsOpen'
  BY <1>1, <1>5 DEF Places, HandsOpen, HandsUnique
<1>9. HandsUnique'
  BY <1>5 DEF Places, HandsUnique
<1>10. OnePlace'
  BY <1>3, <1>5 DEF Places, OnePlace
<1>11. \A j \in Job : channel'[j] # channel[j] => channel[j] = "open" /\ channel'[j] = "closed"
  BY <1>1, <1>2, PoolAssumption
  DEF Places, HandsOpen, QueueOpen, Queued
<1>12. ChannelOwn'
  <2>1. "open" \notin Outcomes /\ "closed" \notin Outcomes
    BY PoolAssumption
  <2> QED
    BY <1>1, <1>11, <2>1 DEF Channels, ChannelOwn
<1>13. ChannelBegun'
  BY <1>11, BegunFrame DEF Channels
<1> QED
  BY <1>6, <1>7, <1>8, <1>9, <1>10, <1>12, <1>13 DEF Places, Channels

LEMMA PanicStep ==
    ASSUME Context, Places, Channels, NEW w \in Workers, Panic(w)
    PROVE  Places' /\ Channels'
<1>1. /\ alive' = alive \ {w} /\ job' = [job EXCEPT ![w] = None]
      /\ queue' = IF alive' = {} THEN <<>> ELSE queue
      /\ channel' = [j \in Job |->
            IF (job[w] # None /\ j = job[w]) \/ (alive' = {} /\ j \in Queued)
            THEN "closed" ELSE channel[j]]
      /\ scanned' = scanned /\ UNCHANGED callerSide
  BY DEF Panic
<1>2. queue' = <<>> \/ (alive' # {} /\ queue' \in {queue, Tail(queue)} /\ queue # <<>>)
  BY <1>1
<1> QED
  BY <1>1, <1>2, WorkerEnds

LEMMA RecvEndStep ==
    ASSUME Context, Places, Channels, NEW w \in Workers, RecvEnd(w)
    PROVE  Places' /\ Channels'
<1>1. job[w] = None /\ job = [job EXCEPT ![w] = None]
  BY PoolAssumption DEF RecvEnd, Context, MutexInv, LockHolderIdle, TypeOK
<1>2. /\ alive' = alive \ {w} /\ job' = [job EXCEPT ![w] = None]
      /\ queue' = IF alive' = {} \/ queue = <<>> THEN <<>> ELSE Tail(queue)
      /\ channel' = [j \in Job |->
            IF (job[w] # None /\ j = job[w]) \/ (alive' = {} /\ j \in Queued)
            THEN "closed" ELSE channel[j]]
      /\ scanned' = scanned /\ UNCHANGED callerSide
  BY <1>1 DEF RecvEnd
<1>3. queue' = <<>> \/ (alive' # {} /\ queue' \in {queue, Tail(queue)} /\ queue # <<>>)
  BY <1>2
<1> QED
  BY <1>2, <1>3, WorkerEnds

LEMMA ShutDownStep ==
    ASSUME Context, Places, Channels, ShutDown
    PROVE  Places' /\ Channels'
<1>1. UNCHANGED <<channel, job, scanned>> /\ UNCHANGED callerSide
  BY DEF ShutDown, workerSide
<1>2. \A i \in DOMAIN queue' :
         \/ i \in DOMAIN queue /\ queue'[i] = queue[i]
         \/ queue'[i] = Shutdown
  BY ClosingPlaces DEF ShutDown, Context, TypeOK
<1>3. \A w \in Workers : job[w] # None => job[w] # Shutdown
  BY PoolAssumption DEF Context, TypeOK
<1>4. QueueOpen' /\ QueueUnique'
  BY <1>1, <1>2 DEF Places, QueueOpen, QueueUnique
<1>5. HandsOpen' /\ HandsUnique' /\ OnePlace'
  BY <1>1, <1>2, <1>3 DEF Places, HandsOpen, HandsUnique, OnePlace
<1>6. Channels'
  BY <1>1, BegunFrame DEF Channels, ChannelOwn
<1> QED
  BY <1>4, <1>5, <1>6 DEF Places

LEMMA JobsStep == Context /\ Places /\ Channels /\ [Next]_vars => (Places /\ Channels)'
<1> SUFFICES ASSUME Context, Places, Channels, [Next]_vars PROVE Places' /\ Channels'
  OBVIOUS
<1>1. ASSUME NEW c \in Callers, SubmitFails(c) \/ Waken(c)
      PROVE  Places' /\ Channels'
  BY <1>1, ReturnStep DEF SubmitFails, Waken, Receive, RecvTimeout, Disconnected
<1>2. ASSUME UNCHANGED <<queue, job, channel, scanned, next, waiting>>
      PROVE  Places' /\ Channels'
  BY <1>2
  DEF Places, QueueOpen, QueueUnique, HandsOpen, HandsUnique, OnePlace,
      Channels, ChannelOwn, ChannelBegun, Service!Begun
<1>3. ASSUME NEW w \in Workers, LockReceiver(w)
      PROVE  Places' /\ Channels'
  BY <1>2, <1>3 DEF LockReceiver, callerSide
<1>4. CASE DropPool
  BY <1>2, <1>4 DEF DropPool, workerSide, callerSide
<1>5. CASE UNCHANGED vars
  BY <1>2, <1>5 DEF vars
<1> QED
  BY <1>1, <1>3, <1>4, <1>5, SubmitStep, RecvJobStep, FinishJobStep, PanicStep, RecvEndStep,
     ShutDownStep
  DEF Next, WorkerStep, Ended

LEMMA JobsHold == Spec => [](Context /\ Places /\ Channels)
<1>1. Init => Places /\ Channels
  <2> SUFFICES ASSUME Init PROVE Places /\ Channels
    OBVIOUS
  <2>1. DOMAIN queue = {} /\ \A w \in Workers : job[w] = None
    BY DEF Init
  <2>2. Places
    BY <2>1 DEF Places, QueueOpen, QueueUnique, HandsOpen, HandsUnique, OnePlace
  <2>3. Channels
    BY PoolAssumption DEF Init, Channels, ChannelOwn, ChannelBegun
  <2> QED
    BY <2>2, <2>3
<1>2. Context /\ Places /\ Channels /\ [Next]_vars => (Places /\ Channels)'
  BY JobsStep
<1>3. Context <=> TypeOK /\ WaitingInCall /\ MutexInv
  BY DEF Context
<1> QED
  BY <1>1, <1>2, <1>3, TypesHold, MutexHolds, PTL DEF Spec

-----------------------------------------------------------------------------
\* The answers.

LEMMA AnswerStep ==
    Context /\ Places /\ Channels /\ AnswerIsOwn /\ [Next]_vars => AnswerIsOwn'
<1> SUFFICES ASSUME Context, Places, Channels, AnswerIsOwn, [Next]_vars PROVE AnswerIsOwn'
  OBVIOUS
<1>1. answer \in [Job -> Outcomes \cup {"none", "timeout", "error"}]
  BY DEF Context, TypeOK
<1>2. ASSUME NEW c \in Callers, NEW result, Return(c, result),
             result \in {"timeout", "error"} \/ scanned[Current(c)] = result
      PROVE  AnswerIsOwn'
  BY <1>1, <1>2 DEF Return, AnswerIsOwn, workerSide
<1>3. ASSUME NEW c \in Callers, SubmitFails(c) \/ Waken(c)
      PROVE  AnswerIsOwn'
  <2>1. CASE Receive(c)
    <3>1. Current(c) \in Job
      BY <2>1, CurrentType DEF Receive, Context, WaitingInCall
    <3>2. scanned[Current(c)] = channel[Current(c)]
      BY <2>1, <3>1 DEF Receive, Channels, ChannelOwn
    <3> QED
      BY <1>2, <2>1, <3>2 DEF Receive
  <2> QED
    BY <1>2, <1>3, <2>1 DEF SubmitFails, Waken, RecvTimeout, Disconnected
<1>4. ASSUME NEW w \in Workers, FinishJob(w)
      PROVE  AnswerIsOwn'
  <2>1. /\ job[w] \in Job
        /\ \A j \in Job : j # job[w] => scanned'[j] = scanned[j]
        /\ answer' = answer
    BY <1>4 DEF FinishJob, Context, TypeOK, callerSide
  <2>2. scanned[job[w]] = "none"
    BY <1>4, InHand DEF FinishJob
  <2> QED
    BY <2>1, <2>2, <1>1 DEF AnswerIsOwn
<1>5. ASSUME UNCHANGED <<answer, scanned>>
      PROVE  AnswerIsOwn'
  BY <1>5 DEF AnswerIsOwn
<1> QED
  BY <1>3, <1>4, <1>5
  DEF Next, vars, Submit, LockReceiver, WorkerStep, RecvJob, RecvEnd, Panic, ShutDown,
      DropPool, Ended, workerSide, callerSide

\* scan_blocking returns the result of its own job, never of an earlier one
\* that timed out and finished late.
THEOREM OwnAnswers == Spec => []AnswerIsOwn
<1>1. Init => AnswerIsOwn
  BY DEF Init, AnswerIsOwn
<1>2. Context /\ Places /\ Channels /\ AnswerIsOwn /\ [Next]_vars => AnswerIsOwn'
  BY AnswerStep
<1> QED
  BY <1>1, <1>2, JobsHold, PTL DEF Spec

\* A result sender goes unused only with its worker or with the last one.
LostWithWorker == \A j \in Job : channel[j] = "closed" => j \in panicked \/ alive = {}

ErrorInv == ErrorOnlyWhenLost /\ LostWithWorker

LEMMA ErrorStep ==
    Context /\ Places /\ Channels /\ ErrorInv /\ [Next]_vars => ErrorInv'
<1> SUFFICES ASSUME Context, Places, Channels, ErrorInv, [Next]_vars PROVE ErrorInv'
  OBVIOUS
<1>1. /\ answer \in [Job -> Outcomes \cup {"none", "timeout", "error"}]
      /\ channel \in [Job -> Outcomes \cup {"unused", "open", "closed"}]
      /\ scanned \in [Job -> Outcomes \cup {"none"}]
      /\ job \in [Workers -> Job \cup {None}]
  BY DEF Context, TypeOK
<1> USE DEF ErrorInv, ErrorOnlyWhenLost, LostWithWorker
<1>2. ASSUME NEW c \in Callers, NEW result, Return(c, result),
             result = "error" => \/ scanned[Current(c)] = "error"
                                 \/ Current(c) \in panicked \/ alive = {}
      PROVE  ErrorInv'
  BY <1>1, <1>2 DEF Return, workerSide
<1>3. ASSUME NEW c \in Callers, SubmitFails(c) \/ Waken(c)
      PROVE  ErrorInv'
  <2>1. CASE SubmitFails(c)
    BY <1>2, <2>1 DEF SubmitFails
  <2>2. CASE Waken(c)
    <3>1. Current(c) \in Job
      BY <2>2, CurrentType DEF Waken, Receive, RecvTimeout, Disconnected, Context, WaitingInCall
    <3>2. CASE Receive(c)
      BY <1>2, <3>1, <3>2 DEF Receive, Channels, ChannelOwn
    <3>3. CASE RecvTimeout(c)
      BY <1>2, <3>3 DEF RecvTimeout
    <3>4. CASE Disconnected(c)
      BY <1>2, <3>1, <3>4 DEF Disconnected
    <3> QED
      BY <2>2, <3>2, <3>3, <3>4 DEF Waken
  <2> QED
    BY <1>3, <2>1, <2>2
<1>4. ASSUME NEW c \in Callers, Submit(c)
      PROVE  ErrorInv'
  BY <1>1, <1>4 DEF Submit, workerSide
<1>5. ASSUME NEW w \in Workers, FinishJob(w)
      PROVE  ErrorInv'
  <2>1. /\ job[w] \in Job
        /\ \A j \in Job : j # job[w] => scanned'[j] = scanned[j] /\ channel'[j] = channel[j]
        /\ channel'[job[w]] \in Outcomes
        /\ UNCHANGED <<answer, panicked, alive>>
    BY <1>1, <1>5 DEF FinishJob, ReplyTo, callerSide
  <2>2. scanned[job[w]] = "none" /\ "closed" \notin Outcomes
    BY <1>5, InHand, PoolAssumption DEF FinishJob
  <2> QED
    BY <2>1, <2>2
<1>6. ASSUME NEW w \in Workers, Panic(w)
      PROVE  ErrorInv'
  BY <1>1, <1>6 DEF Panic, callerSide
<1>7. ASSUME NEW w \in Workers, RecvEnd(w)
      PROVE  ErrorInv'
  BY <1>1, <1>7 DEF RecvEnd, callerSide
<1>8. ASSUME UNCHANGED <<answer, scanned, panicked, alive, channel>>
      PROVE  ErrorInv'
  BY <1>8
<1> QED
  BY <1>3, <1>4, <1>5, <1>6, <1>7, <1>8
  DEF Next, vars, LockReceiver, WorkerStep, RecvJob, ShutDown, DropPool, Ended,
      workerSide, callerSide

\* scan_blocking fails only if its job was lost with a worker, if no worker is
\* left, or if the scan itself failed: never because others timed out.
THEOREM ErrorsExplained == Spec => []ErrorOnlyWhenLost
<1>1. Init => ErrorInv
  BY DEF Init, ErrorInv, ErrorOnlyWhenLost, LostWithWorker
<1>2. Context /\ Places /\ Channels /\ ErrorInv /\ [Next]_vars => ErrorInv'
  BY ErrorStep
<1>3. ErrorInv => ErrorOnlyWhenLost
  BY DEF ErrorInv
<1> QED
  BY <1>1, <1>2, <1>3, JobsHold, PTL DEF Spec

-----------------------------------------------------------------------------
\* Nothing is forgotten: what is open is somewhere.

\* Behind an open channel there is a job, in the queue or in somebody's hands.
Located(j) ==
    \/ \E i \in DOMAIN queue : queue[i] = j
    \/ \E w \in Workers : job[w] = j
OpenPlaced == \A j \in Job : channel[j] = "open" => Located(j)

\* A message in the queue that is not its head stays in its tail.
LEMMA TailKeeps ==
    ASSUME queue \in Seq(Message), queue # <<>>
    PROVE  \A i \in DOMAIN queue :
              i = 1 \/ (i - 1 \in DOMAIN Tail(queue) /\ Tail(queue)[i - 1] = queue[i])
<1>1. /\ Tail(queue) \in Seq(Message)
      /\ Len(Tail(queue)) = Len(queue) - 1
      /\ \A i \in 1 .. Len(Tail(queue)) : Tail(queue)[i] = queue[i + 1]
  BY HeadTailProperties
<1>2. Len(queue) \in Nat \ {0} /\ DOMAIN queue = 1 .. Len(queue)
  BY EmptySeq, LenProperties
<1>3. DOMAIN Tail(queue) = 1 .. Len(queue) - 1
  BY <1>1, LenProperties
<1>4. ASSUME NEW i \in DOMAIN queue, i # 1
      PROVE  i - 1 \in DOMAIN Tail(queue) /\ Tail(queue)[i - 1] = queue[i]
  <2>1. i \in Nat /\ i - 1 \in 1 .. Len(Tail(queue)) /\ (i - 1) + 1 = i
    BY <1>1, <1>2, <1>4
  <2> QED
    BY <1>1, <1>2, <1>3, <2>1
<1> QED
  BY <1>4

LEMMA AppendKeeps ==
    ASSUME queue \in Seq(Message), NEW m \in Message
    PROVE  /\ \A i \in DOMAIN queue :
                 i \in DOMAIN Append(queue, m) /\ Append(queue, m)[i] = queue[i]
           /\ Len(queue) + 1 \in DOMAIN Append(queue, m)
           /\ Append(queue, m)[Len(queue) + 1] = m
<1>1. /\ Append(queue, m) \in Seq(Message)
      /\ Len(Append(queue, m)) = Len(queue) + 1
      /\ \A i \in 1 .. Len(queue) : Append(queue, m)[i] = queue[i]
      /\ Append(queue, m)[Len(queue) + 1] = m
  BY AppendProperties
<1>2. Len(queue) \in Nat /\ DOMAIN queue = 1 .. Len(queue)
  BY LenProperties
<1>3. DOMAIN Append(queue, m) = 1 .. Len(queue) + 1
  BY <1>1, LenProperties
<1> QED
  BY <1>1, <1>2, <1>3

LEMMA ClosingKeeps ==
    ASSUME queue \in Seq(Message)
    PROVE  \A i \in DOMAIN queue : i \in DOMAIN Closing /\ Closing[i] = queue[i]
<1>1. Cardinality(Workers) \in Nat
  BY PoolAssumption, FS_CardinalityType
<1>2. Shutdowns \in Seq(Message) /\ Len(Shutdowns) = Cardinality(Workers)
  BY <1>1 DEF Shutdowns, Message
<1>3. /\ Closing \in Seq(Message)
      /\ Len(Closing) = Len(queue) + Len(Shutdowns)
      /\ \A i \in 1 .. Len(queue) + Len(Shutdowns) :
            Closing[i] = IF i <= Len(queue) THEN queue[i] ELSE Shutdowns[i - Len(queue)]
  BY <1>2, ConcatProperties DEF Closing
<1>4. Len(queue) \in Nat /\ DOMAIN queue = 1 .. Len(queue)
  BY LenProperties
<1>5. DOMAIN Closing = 1 .. Len(queue) + Len(Shutdowns)
  BY <1>3, LenProperties
<1> QED
  BY <1>1, <1>2, <1>3, <1>4, <1>5

LEMMA PlacedStep == Context /\ Places /\ Channels /\ OpenPlaced /\ [Next]_vars => OpenPlaced'
<1> SUFFICES ASSUME Context, Places, Channels, OpenPlaced, [Next]_vars PROVE OpenPlaced'
  OBVIOUS
<1>1. /\ queue \in Seq(Message)
      /\ job \in [Workers -> Job \cup {None}]
      /\ channel \in [Job -> Outcomes \cup {"unused", "open", "closed"}]
  BY DEF Context, TypeOK
<1>2. ASSUME NEW c \in Callers, Submit(c)
      PROVE  OpenPlaced'
  <2>1. Current(c) \in Message
    BY <1>2, CurrentType DEF Submit, Context, Message
  <2>2. /\ queue' = Append(queue, Current(c)) /\ job' = job
        /\ channel' = [channel EXCEPT ![Current(c)] = "open"]
    BY <1>2 DEF Submit, workerSide
  <2> SUFFICES ASSUME NEW j \in Job, channel'[j] = "open" PROVE Located(j)'
    BY DEF OpenPlaced
  <2>3. CASE j = Current(c)
    BY <1>1, <2>1, <2>2, <2>3, AppendKeeps DEF Located
  <2>4. CASE j # Current(c)
    <3>1. Located(j)
      BY <1>1, <2>2, <2>4 DEF OpenPlaced
    <3> QED
      BY <1>1, <2>1, <2>2, <3>1, AppendKeeps DEF Located
  <2> QED
    BY <2>3, <2>4
<1>3. ASSUME NEW w \in Workers, RecvJob(w)
      PROVE  OpenPlaced'
  <2>1. /\ queue # <<>> /\ job[w] = None
        /\ queue' = Tail(queue) /\ job' = [job EXCEPT ![w] = queue[1]] /\ channel' = channel
    BY <1>1, <1>3, PoolAssumption, TailPlaces
    DEF Context, TypeOK, MutexInv, LockHolderIdle, RecvJob, QueueRead
  <2> SUFFICES ASSUME NEW j \in Job, channel'[j] = "open" PROVE Located(j)'
    BY DEF OpenPlaced
  <2>2. Located(j)
    BY <2>1 DEF OpenPlaced
  <2>3. CASE \E v \in Workers : job[v] = j
    BY <1>1, <2>1, <2>3, PoolAssumption DEF Located
  <2>4. CASE \E i \in DOMAIN queue : queue[i] = j
    <3>1. PICK i \in DOMAIN queue : queue[i] = j
      BY <2>4
    <3>2. CASE i = 1
      BY <1>1, <2>1, <3>1, <3>2 DEF Located
    <3>3. CASE i # 1
      BY <1>1, <2>1, <3>1, <3>3, TailKeeps DEF Located
    <3> QED
      BY <3>2, <3>3
  <2> QED
    BY <2>2, <2>3, <2>4 DEF Located
<1>4. ASSUME NEW w \in Workers, FinishJob(w)
      PROVE  OpenPlaced'
  <2>1. /\ job[w] \in Job /\ "open" \notin Outcomes
        /\ queue' = queue /\ job' = [job EXCEPT ![w] = None]
        /\ \A j \in Job : channel'[j] = "open" => j # job[w] /\ channel[j] = "open"
    BY <1>1, <1>4, PoolAssumption DEF FinishJob, ReplyTo
  <2> SUFFICES ASSUME NEW j \in Job, channel'[j] = "open" PROVE Located(j)'
    BY DEF OpenPlaced
  <2>2. Located(j) /\ j # job[w]
    BY <2>1 DEF OpenPlaced
  <2> QED
    BY <1>1, <2>1, <2>2 DEF Located
<1>5. ASSUME NEW w \in Workers, Panic(w)
      PROVE  OpenPlaced'
  <2>1. /\ job' = [job EXCEPT ![w] = None]
        /\ queue' = IF alive' = {} THEN <<>> ELSE queue
        /\ \A j \in Job : channel'[j] = "open" =>
              channel[j] = "open" /\ j # job[w] /\ ~(alive' = {} /\ j \in Queued)
    BY <1>1, <1>5 DEF Panic
  <2> SUFFICES ASSUME NEW j \in Job, channel'[j] = "open" PROVE Located(j)'
    BY DEF OpenPlaced
  <2>2. Located(j) /\ j # job[w] /\ ~(alive' = {} /\ j \in Queued)
    BY <2>1 DEF OpenPlaced
  <2>3. CASE \E v \in Workers : job[v] = j
    BY <1>1, <2>1, <2>2, <2>3 DEF Located
  <2>4. CASE \E i \in DOMAIN queue : queue[i] = j
    <3>1. j \in Queued
      BY <2>4 DEF Queued
    <3> QED
      BY <2>1, <2>2, <2>4, <3>1 DEF Located
  <2> QED
    BY <2>2, <2>3, <2>4 DEF Located
<1>6. ASSUME NEW w \in Workers, RecvEnd(w)
      PROVE  OpenPlaced'
  <2>1. /\ job' = job
        /\ queue = <<>> \/ (queue # <<>> /\ Head(queue) = Shutdown)
        /\ queue' = IF alive' = {} \/ queue = <<>> THEN <<>> ELSE Tail(queue)
        /\ \A j \in Job : channel'[j] = "open" =>
              channel[j] = "open" /\ ~(alive' = {} /\ j \in Queued)
    BY <1>1, <1>6 DEF RecvEnd
  <2> SUFFICES ASSUME NEW j \in Job, channel'[j] = "open" PROVE Located(j)'
    BY DEF OpenPlaced
  <2>2. Located(j) /\ ~(alive' = {} /\ j \in Queued)
    BY <2>1 DEF OpenPlaced
  <2>3. CASE \E i \in DOMAIN queue : queue[i] = j
    <3>1. PICK i \in DOMAIN queue : queue[i] = j
      BY <2>3
    <3>2. queue # <<>> /\ alive' # {}
      <4>1. DOMAIN <<>> = {}
        OBVIOUS
      <4> QED
        BY <2>2, <3>1, <4>1 DEF Queued
    <3>3. i # 1
      BY <1>1, <2>1, <3>1, <3>2, TailPlaces, PoolAssumption
    <3> QED
      BY <1>1, <2>1, <3>1, <3>2, <3>3, TailKeeps DEF Located
  <2> QED
    BY <2>1, <2>2, <2>3 DEF Located
<1>7. CASE ShutDown
  <2>1. UNCHANGED <<channel, job>> /\ queue' \in {queue, Closing}
    BY <1>7 DEF ShutDown, workerSide
  <2> QED
    BY <1>1, <2>1, ClosingKeeps DEF OpenPlaced, Located
<1>8. ASSUME UNCHANGED <<queue, job, channel>>
      PROVE  OpenPlaced'
  BY <1>8 DEF OpenPlaced, Located
<1> QED
  BY <1>2, <1>3, <1>4, <1>5, <1>6, <1>7, <1>8
  DEF Next, vars, SubmitFails, Waken, Receive, RecvTimeout, Disconnected, Return, LockReceiver,
      WorkerStep, DropPool, Ended, workerSide

LEMMA PlacedHolds == Spec => []OpenPlaced
<1>1. Init => OpenPlaced
  BY DEF Init, OpenPlaced
<1>2. Context /\ Places /\ Channels /\ OpenPlaced /\ [Next]_vars => OpenPlaced'
  BY PlacedStep
<1> QED
  BY <1>1, <1>2, JobsHold, PTL DEF Spec

\* Each job submitted and not given up by the workers is in exactly one place:
\* nothing is lost between submit and the result, nothing is processed twice.
THEOREM OpenPending == Spec => []OpenMeansPending
<1>1. Context /\ Places /\ OpenPlaced => OpenMeansPending
  <2> SUFFICES ASSUME Context, Places, OpenPlaced, NEW j \in Job
               PROVE  Cardinality({i \in DOMAIN queue : queue[i] = j})
                        + Cardinality({w \in Workers : job[w] = j})
                        = IF channel[j] = "open" THEN 1 ELSE 0
    BY DEF OpenMeansPending
  <2> DEFINE places == {i \in DOMAIN queue : queue[i] = j}
             hands == {w \in Workers : job[w] = j}
  <2>1. j # Shutdown /\ j # None
    BY PoolAssumption
  <2>2. Cardinality({}) = 0 /\ \A x : Cardinality({x}) = 1
    BY FS_EmptySet, FS_Singleton
  <2>3. ASSUME channel[j] # "open"
        PROVE  places = {} /\ hands = {}
    BY <2>1, <2>3 DEF Places, QueueOpen, HandsOpen
  <2>4. ASSUME NEW i \in DOMAIN queue, queue[i] = j
        PROVE  places = {i} /\ hands = {}
    BY <2>1, <2>4 DEF Places, QueueUnique, OnePlace
  <2>5. ASSUME NEW w \in Workers, job[w] = j
        PROVE  places = {} /\ hands = {w}
    BY <2>1, <2>5 DEF Places, HandsUnique, OnePlace
  <2>6. channel[j] = "open" => Located(j)
    BY DEF OpenPlaced
  <2>7. Cardinality(places) + Cardinality(hands) = IF channel[j] = "open" THEN 1 ELSE 0
    <3> HIDE DEF places, hands
    <3>1. CASE channel[j] # "open"
      BY <2>2, <2>3, <3>1
    <3>2. CASE channel[j] = "open"
      <4>1. CASE \E i \in DOMAIN queue : queue[i] = j
        <5>1. PICK i \in DOMAIN queue : queue[i] = j
          BY <4>1
        <5>2. Cardinality(places) = 1 /\ Cardinality(hands) = 0
          BY <2>2, <2>4, <5>1
        <5> QED
          BY <3>2, <5>2
      <4>2. CASE \E w \in Workers : job[w] = j
        <5>1. PICK w \in Workers : job[w] = j
          BY <4>2
        <5>2. Cardinality(places) = 0 /\ Cardinality(hands) = 1
          BY <2>2, <2>5, <5>1
        <5> QED
          BY <3>2, <5>2
      <4> QED
        BY <2>6, <3>2, <4>1, <4>2 DEF Located
    <3> QED
      BY <3>1, <3>2
  <2> QED
    BY <2>7
<1> QED
  BY <1>1, JobsHold, PlacedHolds, PTL

-----------------------------------------------------------------------------
\* Ending drains the queue.

\* Shutdown messages are behind every job, and there are none before shutdown.
QueueOrder ==
    /\ pool = "open" => \A i \in DOMAIN queue : queue[i] # Shutdown
    /\ \A i, k \in DOMAIN queue : i < k /\ queue[i] = Shutdown => queue[k] = Shutdown

NoJobQueued == \A i \in DOMAIN queue : queue[i] = Shutdown

\* A worker ends by itself only when the pool is closed and no job is queued.
EndsWhenDrained ==
    Cardinality(alive) + Cardinality(panicked) < Cardinality(Workers)
        => pool # "open" /\ NoJobQueued

\* A job is dropped with its worker, or because panics took all of them.
DroppedByPanics ==
    \A j \in Job : channel[j] = "closed" =>
        j \in panicked \/ (alive = {} /\ Cardinality(panicked) >= Cardinality(Workers))

\* A worker panics at most once, on a job of its own.
PanickedGone == IsFiniteSet(panicked) /\ \A j \in panicked : channel[j] = "closed"

Drained == QueueOrder /\ EndsWhenDrained /\ DroppedByPanics /\ PanickedGone

\* The threads are finitely many, and a panic takes one and adds one job.
LEMMA WorkerCount ==
    ASSUME TypeOK, PanickedGone
    PROVE  /\ Cardinality(Workers) \in Nat
           /\ Cardinality(alive) \in Nat /\ Cardinality(panicked) \in Nat
           /\ IsFiniteSet(alive)
           /\ alive = {} => Cardinality(alive) = 0
<1>1. IsFiniteSet(alive)
  BY PoolAssumption, FS_Subset DEF TypeOK
<1> QED
  BY <1>1, PoolAssumption, FS_CardinalityType, FS_EmptySet DEF PanickedGone

LEMMA OrderStep == Context /\ QueueOrder /\ [Next]_vars => QueueOrder'
<1> SUFFICES ASSUME Context, QueueOrder, [Next]_vars PROVE QueueOrder'
  OBVIOUS
<1>1. queue \in Seq(Message)
  BY DEF Context, TypeOK
<1>2. Len(queue) \in Nat /\ DOMAIN queue = 1 .. Len(queue)
  BY <1>1, LenProperties
<1>3. ASSUME NEW c \in Callers, Submit(c)
      PROVE  QueueOrder'
  <2>1. Current(c) \in Message /\ Current(c) # Shutdown
    BY <1>3, CurrentType, PoolAssumption DEF Submit, Context, Message
  <2>2. queue' = Append(queue, Current(c)) /\ pool' = "open" /\ pool = "open"
    BY <1>3 DEF Submit
  <2>3. \A i \in DOMAIN queue' : queue'[i] # Shutdown
    BY <1>1, <2>1, <2>2, AppendPlaces DEF QueueOrder
  <2> QED
    BY <2>3 DEF QueueOrder
<1>4. ASSUME pool' = pool, queue # <<>>, queue' = Tail(queue)
      PROVE  QueueOrder'
  <2>1. \A i \in DOMAIN queue' : i \in Nat /\ i + 1 \in DOMAIN queue /\ queue'[i] = queue[i + 1]
    BY <1>1, <1>4, TailPlaces
  <2>2. ASSUME NEW i \in DOMAIN queue', NEW k \in DOMAIN queue', i < k, queue'[i] = Shutdown
        PROVE  queue'[k] = Shutdown
    <3>1. i + 1 < k + 1
      BY <2>1, <2>2
    <3> QED
      BY <2>1, <2>2, <3>1 DEF QueueOrder
  <2> QED
    BY <1>4, <2>1, <2>2 DEF QueueOrder
<1>5. ASSUME queue' = <<>>
      PROVE  QueueOrder'
  <2>1. DOMAIN queue' = {}
    BY <1>5
  <2> QED
    BY <2>1 DEF QueueOrder
<1>6. ASSUME pool' = pool, queue' = queue
      PROVE  QueueOrder'
  BY <1>6 DEF QueueOrder
<1>7. CASE ShutDown
  <2>1. pool = "open" /\ pool' # "open" /\ queue' \in {queue, Closing}
    BY <1>7 DEF ShutDown
  <2>2. CASE queue' = queue
    BY <2>1, <2>2 DEF QueueOrder
  <2>3. CASE queue' = Closing
    <3>1. ASSUME NEW i \in DOMAIN Closing, NEW k \in DOMAIN Closing, i < k, Closing[i] = Shutdown
          PROVE  Closing[k] = Shutdown
      <4>1. i \notin DOMAIN queue
        BY <1>1, <2>1, <3>1, ClosingKeeps DEF QueueOrder
      <4>2. k \notin DOMAIN queue
        <5>1. i \in Nat \ {0} /\ k \in Nat
          BY <1>1, ClosingType, LenProperties
        <5> QED
          BY <1>2, <3>1, <4>1, <5>1
      <4> QED
        BY <1>1, <4>2, ClosingPlaces
    <3> QED
      BY <2>1, <2>3, <3>1 DEF QueueOrder
  <2> QED
    BY <2>1, <2>2, <2>3
<1>8. CASE DropPool
  BY <1>8 DEF DropPool, QueueOrder
<1>9. ASSUME NEW w \in Workers, RecvJob(w) \/ RecvEnd(w) \/ Panic(w)
      PROVE  QueueOrder'
  BY <1>4, <1>5, <1>6, <1>9 DEF RecvJob, QueueRead, RecvEnd, Panic
<1> QED
  BY <1>3, <1>6, <1>7, <1>8, <1>9
  DEF Next, vars, SubmitFails, Waken, Receive, RecvTimeout, Disconnected, Return, LockReceiver,
      WorkerStep, FinishJob, Ended

\* A panic takes one worker and adds one job; a job that panicked is dropped.
LEMMA PanicCounts ==
    ASSUME Context, Places, PanickedGone, NEW w \in Workers, Panic(w)
    PROVE  /\ Cardinality(alive') = Cardinality(alive) - 1
           /\ Cardinality(panicked') = Cardinality(panicked) + 1
           /\ PanickedGone'
<1>1. /\ w \in alive /\ alive' = alive \ {w} /\ job[w] \in Job
      /\ channel[job[w]] = "open" /\ panicked' = panicked \cup {job[w]}
  BY DEF Panic, Context, MutexInv, TypeOK, Places, HandsOpen
<1>2. IsFiniteSet(alive) /\ IsFiniteSet(panicked) /\ job[w] \notin panicked
  BY <1>1, WorkerCount DEF Context, PanickedGone
<1>3. Cardinality(alive') = Cardinality(alive) - 1
  BY <1>1, <1>2, FS_RemoveElement
<1>4. Cardinality(panicked') = Cardinality(panicked) + 1 /\ IsFiniteSet(panicked')
  BY <1>1, <1>2, FS_AddElement
<1>5. \A j \in Job : channel[j] = "closed" \/ j = job[w] => channel'[j] = "closed"
  BY DEF Panic
<1>6. panicked \subseteq Job
  BY DEF Context, TypeOK
<1> QED
  BY <1>1, <1>3, <1>4, <1>5, <1>6 DEF PanickedGone

LEMMA PanicDrained ==
    ASSUME Context, Places, Drained, NEW w \in Workers, Panic(w)
    PROVE  EndsWhenDrained' /\ DroppedByPanics' /\ PanickedGone'
<1>1. PanickedGone /\ TypeOK
  BY DEF Drained, Context
<1>2. /\ Cardinality(alive') = Cardinality(alive) - 1
      /\ Cardinality(panicked') = Cardinality(panicked) + 1
      /\ PanickedGone'
  BY <1>1, PanicCounts
<1>3. /\ Cardinality(Workers) \in Nat /\ Cardinality(alive) \in Nat
      /\ Cardinality(panicked) \in Nat
  BY <1>1, WorkerCount
<1>4. Cardinality(alive') + Cardinality(panicked') = Cardinality(alive) + Cardinality(panicked)
  BY <1>2, <1>3
<1>5. queue' = IF alive' = {} THEN <<>> ELSE queue
  BY DEF Panic
<1>6. NoJobQueued => NoJobQueued'
  <2>1. DOMAIN <<>> = {}
    OBVIOUS
  <2> QED
    BY <1>5, <2>1 DEF NoJobQueued
<1>7. EndsWhenDrained'
  <2>1. pool' = pool
    BY DEF Panic
  <2> QED
    BY <1>4, <1>6, <2>1 DEF Drained, EndsWhenDrained
<1>8. DroppedByPanics'
  <2> SUFFICES ASSUME NEW j \in Job, channel'[j] = "closed"
               PROVE  \/ j \in panicked'
                      \/ alive' = {} /\ Cardinality(panicked') >= Cardinality(Workers)
    BY DEF DroppedByPanics
  <2>1. /\ panicked' = panicked \cup {job[w]} /\ alive' = alive \ {w}
        /\ j = job[w] \/ (alive' = {} /\ j \in Queued) \/ channel[j] = "closed"
    BY DEF Panic
  <2>2. CASE alive' = {} /\ j \in Queued
    <3>1. ~NoJobQueued
      BY <2>2, PoolAssumption DEF NoJobQueued, Queued
    <3>2. Cardinality(alive) + Cardinality(panicked) >= Cardinality(Workers)
      BY <1>3, <3>1 DEF Drained, EndsWhenDrained
    <3>3. Cardinality(alive') = 0
      BY <2>2, FS_EmptySet
    <3> QED
      BY <1>2, <1>3, <2>2, <3>2, <3>3
  <2>3. CASE channel[j] = "closed"
    <3>1. \/ j \in panicked
          \/ alive = {} /\ Cardinality(panicked) >= Cardinality(Workers)
      BY <2>3 DEF Drained, DroppedByPanics
    <3>2. w \in alive
      BY DEF Panic, Context, MutexInv
    <3> QED
      BY <2>1, <3>1, <3>2
  <2> QED
    BY <2>1, <2>2, <2>3
<1> QED
  BY <1>2, <1>7, <1>8

\* Who receives the end of the queue leaves no job behind.
LEMMA RecvEndDrained ==
    ASSUME Context, Places, Drained, NEW w \in Workers, RecvEnd(w)
    PROVE  EndsWhenDrained' /\ DroppedByPanics' /\ PanickedGone'
<1>1. queue \in Seq(Message) /\ channel \in [Job -> Outcomes \cup {"unused", "open", "closed"}]
  BY DEF Context, TypeOK
<1>2. /\ pool' = pool /\ panicked' = panicked /\ alive' \subseteq alive
      /\ queue' = <<>> \/ (queue # <<>> /\ queue' = Tail(queue))
  BY DEF RecvEnd
<1>3. pool # "open" /\ NoJobQueued
  <2>1. CASE queue = <<>> /\ pool = "dropped"
    <3>1. DOMAIN queue = {}
      BY <2>1
    <3> QED
      BY <2>1, <3>1 DEF NoJobQueued
  <2>2. CASE queue # <<>> /\ Head(queue) = Shutdown
    <3>1. 1 \in DOMAIN queue /\ queue[1] = Shutdown
      BY <1>1, <2>2, TailPlaces
    <3>2. \A i \in DOMAIN queue : i = 1 \/ 1 < i
      <4>1. Len(queue) \in Nat /\ DOMAIN queue = 1 .. Len(queue)
        BY <1>1, LenProperties
      <4> QED
        BY <4>1
    <3> QED
      BY <3>1, <3>2 DEF Drained, QueueOrder, NoJobQueued
  <2> QED
    BY <2>1, <2>2 DEF RecvEnd
<1>4. NoJobQueued'
  <2>1. CASE queue' = <<>>
    <3>1. DOMAIN queue' = {}
      BY <2>1
    <3> QED
      BY <3>1 DEF NoJobQueued
  <2>2. CASE queue # <<>> /\ queue' = Tail(queue)
    BY <1>1, <1>3, <2>2, TailPlaces DEF NoJobQueued
  <2> QED
    BY <1>2, <2>1, <2>2
<1>5. channel' = channel
  <2>1. \A j \in Job : j \notin Queued
    BY <1>3, PoolAssumption DEF NoJobQueued, Queued
  <2> QED
    BY <1>1, <2>1 DEF RecvEnd
<1>6. EndsWhenDrained'
  BY <1>2, <1>3, <1>4 DEF EndsWhenDrained
<1>7. DroppedByPanics'
  <2>1. alive = {} => alive' = {}
    BY <1>2
  <2> QED
    BY <1>2, <1>5, <2>1 DEF Drained, DroppedByPanics
<1>8. PanickedGone'
  BY <1>2, <1>5 DEF Drained, PanickedGone
<1> QED
  BY <1>6, <1>7, <1>8

LEMMA DrainedStep ==
    Context /\ Places /\ Channels /\ Drained /\ [Next]_vars
        => (EndsWhenDrained /\ DroppedByPanics /\ PanickedGone)'
<1> SUFFICES ASSUME Context, Places, Channels, Drained, [Next]_vars
             PROVE  EndsWhenDrained' /\ DroppedByPanics' /\ PanickedGone'
  OBVIOUS
<1>1. /\ queue \in Seq(Message) /\ panicked \subseteq Job
      /\ channel \in [Job -> Outcomes \cup {"unused", "open", "closed"}]
  BY DEF Context, TypeOK
<1>2. /\ Cardinality(Workers) \in Nat /\ Cardinality(alive) \in Nat
      /\ Cardinality(panicked) \in Nat
  BY WorkerCount DEF Context, Drained
<1>3. ASSUME UNCHANGED <<alive, panicked>>,
             \A j \in Job : channel'[j] = "closed" <=> channel[j] = "closed"
      PROVE  DroppedByPanics' /\ PanickedGone'
  BY <1>1, <1>3 DEF Drained, DroppedByPanics, PanickedGone
<1>4. ASSUME UNCHANGED <<alive, panicked, pool>>, NoJobQueued => NoJobQueued'
      PROVE  EndsWhenDrained'
  BY <1>4 DEF Drained, EndsWhenDrained
<1>5. ASSUME UNCHANGED <<alive, panicked, channel, pool, queue>>
      PROVE  EndsWhenDrained' /\ DroppedByPanics' /\ PanickedGone'
  BY <1>3, <1>4, <1>5 DEF NoJobQueued
<1>6. ASSUME pool = "open", UNCHANGED <<alive, panicked>>
      PROVE  EndsWhenDrained'
  <2>1. Cardinality(alive) + Cardinality(panicked) >= Cardinality(Workers)
    BY <1>2, <1>6 DEF Drained, EndsWhenDrained
  <2> QED
    BY <1>2, <1>6, <2>1 DEF EndsWhenDrained
<1>7. ASSUME NEW c \in Callers, Submit(c)
      PROVE  EndsWhenDrained' /\ DroppedByPanics' /\ PanickedGone'
  <2>1. /\ pool = "open" /\ UNCHANGED <<alive, panicked>>
        /\ channel' = [channel EXCEPT ![Current(c)] = "open"]
    BY <1>7 DEF Submit, workerSide
  <2>2. Current(c) \in Job /\ channel[Current(c)] = "unused"
    BY <1>7, NextUnused DEF Submit
  <2> QED
    BY <1>1, <1>3, <1>6, <2>1, <2>2
<1>8. ASSUME NEW w \in Workers, RecvJob(w)
      PROVE  EndsWhenDrained' /\ DroppedByPanics' /\ PanickedGone'
  <2>1. /\ UNCHANGED <<alive, panicked, pool, channel>>
        /\ queue # <<>> /\ queue' = Tail(queue)
    BY <1>8 DEF RecvJob, QueueRead
  <2>2. NoJobQueued => NoJobQueued'
    BY <1>1, <2>1, TailPlaces DEF NoJobQueued
  <2> QED
    BY <1>3, <1>4, <2>1, <2>2
<1>9. ASSUME NEW w \in Workers, FinishJob(w)
      PROVE  EndsWhenDrained' /\ DroppedByPanics' /\ PanickedGone'
  <2>1. /\ UNCHANGED <<alive, panicked, pool, queue>>
        /\ "open" \notin Outcomes /\ "closed" \notin Outcomes
        /\ \E result \in Outcomes : channel' = [channel EXCEPT ![job[w]] = result]
    BY <1>9, PoolAssumption DEF FinishJob, ReplyTo
  <2>2. job[w] \in Job /\ channel[job[w]] = "open"
    BY <1>9, InHand DEF FinishJob
  <2> QED
    BY <1>1, <1>3, <1>4, <2>1, <2>2 DEF NoJobQueued
<1>10. CASE ShutDown \/ DropPool
  <2>1. pool = "open" /\ UNCHANGED <<alive, panicked, channel>>
    BY <1>10 DEF ShutDown, DropPool, workerSide
  <2> QED
    BY <1>3, <1>6, <2>1
<1> QED
  BY <1>5, <1>7, <1>8, <1>9, <1>10, PanicDrained, RecvEndDrained
  DEF Next, vars, SubmitFails, Waken, Receive, RecvTimeout, Disconnected, Return, LockReceiver,
      WorkerStep, Ended, workerSide

LEMMA DrainedHolds == Spec => []Drained
<1>1. Init => Drained
  <2> SUFFICES ASSUME Init PROVE Drained
    OBVIOUS
  <2>1. DOMAIN queue = {} /\ panicked = {} /\ alive = Workers
    BY DEF Init
  <2>2. Cardinality(panicked) = 0 /\ IsFiniteSet(panicked) /\ Cardinality(Workers) \in Nat
    BY <2>1, FS_EmptySet, FS_CardinalityType, PoolAssumption
  <2>3. QueueOrder /\ EndsWhenDrained
    BY <2>1, <2>2 DEF QueueOrder, EndsWhenDrained, NoJobQueued
  <2>4. DroppedByPanics
    BY DEF Init, DroppedByPanics
  <2> QED
    BY <2>1, <2>2, <2>3, <2>4 DEF Drained, PanickedGone
<1>2. Context /\ Places /\ Channels /\ Drained /\ [Next]_vars => Drained'
  BY OrderStep, DrainedStep DEF Drained
<1> QED
  BY <1>1, <1>2, JobsHold, PTL DEF Spec

\* Shutting the pool down or dropping it lets the workers process everything
\* that was submitted, also what nobody waits for any more.
THEOREM EndsDrained == Spec => []EndDrains
<1>1. Context /\ Places /\ Channels /\ OpenPlaced /\ Drained => EndDrains
  <2> SUFFICES ASSUME Context, Places, Channels, OpenPlaced, Drained,
                      alive = {}, Cardinality(panicked) < Cardinality(Workers),
                      NEW j \in Job, channel[j] # "unused"
               PROVE  scanned[j] # "none" \/ j \in panicked
    BY DEF EndDrains
  <2>1. NoJobQueued
    <3>1. Cardinality(alive) = 0 /\ Cardinality(panicked) \in Nat
      BY WorkerCount DEF Context, Drained
    <3> QED
      BY <3>1 DEF Drained, EndsWhenDrained
  <2>2. channel[j] # "open"
    <3>1. ~Located(j)
      BY <2>1, PoolAssumption DEF Located, NoJobQueued, Context, MutexInv
    <3> QED
      BY <3>1 DEF OpenPlaced
  <2>3. CASE channel[j] = "closed"
    <3>1. /\ Cardinality(panicked) \in Nat /\ Cardinality(Workers) \in Nat
      BY WorkerCount DEF Context, Drained
    <3> QED
      BY <2>3, <3>1 DEF Drained, DroppedByPanics
  <2>4. CASE channel[j] \in Outcomes
    BY <2>4, PoolAssumption DEF Channels, ChannelOwn
  <2> QED
    BY <2>2, <2>3, <2>4 DEF Context, TypeOK
<1> QED
  BY <1>1, JobsHold, PlacedHolds, DrainedHolds, PTL

-----------------------------------------------------------------------------
\* The pool implements the service its callers are promised.

LEMMA ServiceInit == Init => Service!Init
BY DEF Init, Service!Init, Service!Call, Job

\* A return of the pool is a return of the service.
LEMMA ServiceReturn ==
    ASSUME NEW c \in Callers, NEW result, Return(c, result)
    PROVE  Service!Return(c, result)
BY DEF Return, Service!Return, Service!Current, Current, workerSide

LEMMA ServiceStep ==
    Context /\ Places /\ Channels /\ [Next]_vars => [Service!Next]_(Service!vars)
<1> SUFFICES ASSUME Context, Places, Channels, [Next]_vars
             PROVE  Service!Next \/ UNCHANGED <<next, waiting, scanned, answer>>
  BY DEF Service!vars
<1>1. ASSUME NEW c \in Callers, Submit(c)
      PROVE  Service!Begin(c)
  BY <1>1 DEF Submit, Service!Begin, workerSide
<1>2. ASSUME NEW c \in Callers, SubmitFails(c)
      PROVE  Service!Failed(c)
  <2>1. Current(c) \in Job /\ channel[Current(c)] = "unused"
    BY <1>2, NextUnused DEF SubmitFails
  <2>2. scanned[Current(c)] = "none"
    BY <2>1, PoolAssumption DEF Channels, ChannelOwn
  <2> QED
    BY <1>2, <2>2, ServiceReturn DEF SubmitFails, Service!Failed, Service!Current, Current
<1>3. ASSUME NEW c \in Callers, Waken(c)
      PROVE  Service!Answered(c) \/ Service!TimedOut(c) \/ Service!Failed(c)
  <2>1. waiting[c] /\ next[c] <= MaxCalls
    BY <1>3 DEF Waken, Receive, RecvTimeout, Disconnected, Context, WaitingInCall
  <2>2. Current(c) \in Job
    BY <2>1, CurrentType DEF Context
  <2>3. CASE Receive(c)
    <3>1. scanned[Current(c)] = channel[Current(c)] /\ scanned[Current(c)] # "none"
      BY <2>2, <2>3, PoolAssumption DEF Receive, Channels, ChannelOwn
    <3> QED
      BY <2>1, <2>3, <3>1, ServiceReturn DEF Receive, Service!Answered, Service!Current, Current
  <2>4. CASE RecvTimeout(c)
    <3>1. scanned[Current(c)] = "none"
      BY <2>2, <2>4, PoolAssumption DEF RecvTimeout, Channels, ChannelOwn
    <3> QED
      BY <2>1, <2>4, <3>1, ServiceReturn DEF RecvTimeout, Service!TimedOut, Service!Current, Current
  <2>5. CASE Disconnected(c)
    <3>1. scanned[Current(c)] = "none"
      BY <2>2, <2>5, PoolAssumption DEF Disconnected, Channels, ChannelOwn
    <3> QED
      BY <2>1, <2>5, <3>1, ServiceReturn DEF Disconnected, Service!Failed, Service!Current, Current
  <2> QED
    BY <1>3, <2>3, <2>4, <2>5 DEF Waken
<1>4. ASSUME NEW w \in Workers, FinishJob(w)
      PROVE  job[w] \in Service!Call /\ Service!Scan(job[w])
  <2>1. job[w] \in Job /\ channel[job[w]] = "open" /\ scanned[job[w]] = "none"
    BY <1>4, InHand DEF FinishJob
  <2>2. Service!Begun(job[w])
    BY <2>1 DEF Channels, ChannelBegun
  <2> QED
    BY <1>4, <2>1, <2>2 DEF FinishJob, Service!Scan, Service!Call, Job, callerSide
<1> QED
  BY <1>1, <1>2, <1>3, <1>4
  DEF Next, vars, Service!Next, LockReceiver, WorkerStep, RecvJob, RecvEnd, Panic, ShutDown,
      DropPool, Ended, workerSide, callerSide

\* What a thread sees of scan_blocking is the blocking scan service, whatever
\* the number of threads, lost workers and abandoned jobs behind it.
THEOREM PoolServes == Spec => ServiceSpec
<1>1. Init => Service!Init
  BY ServiceInit
<1>2. Context /\ Places /\ Channels /\ [Next]_vars => [Service!Next]_(Service!vars)
  BY ServiceStep
<1> QED
  BY <1>1, <1>2, JobsHold, PTL DEF Spec, ServiceSpec, Service!Spec
=============================================================================
