----------------------------- MODULE ScanService -----------------------------
(***************************************************************************)
(* What a caller of ScannerPool::scan_blocking is promised, and no more:   *)
(* it makes its calls one after the other, and each call returns once,     *)
(* with the result of its own scan, with a timeout if that scan had not    *)
(* answered by then, or with an error.  A scan may still run after its     *)
(* call timed out; nobody hears of it.                                     *)
(***************************************************************************)
EXTENDS Naturals

CONSTANTS
    Callers,   \* the threads that scan: Envoy's worker threads
    MaxCalls,  \* bound on the calls of each of them
    Outcomes   \* what scanning can find

VARIABLES
    next,     \* next[c]: the number of c's current or next call
    waiting,  \* waiting[c]: c is inside that call
    scanned,  \* scanned[j]: what the scan of call j found, "none" before
    answer    \* answer[j]: what call j returned, "none" before

vars == <<next, waiting, scanned, answer>>

Call == Callers \X (1 .. MaxCalls)
Current(c) == <<c, next[c]>>

Init == /\ next = [c \in Callers |-> 1]
        /\ waiting = [c \in Callers |-> FALSE]
        /\ scanned = [j \in Call |-> "none"]
        /\ answer = [j \in Call |-> "none"]

Begin(c) ==
    /\ ~waiting[c] /\ next[c] <= MaxCalls
    /\ waiting' = [waiting EXCEPT ![c] = TRUE]
    /\ UNCHANGED <<next, scanned, answer>>

\* The call j has begun; it may have returned since.
Begun(j) == j[2] < next[j[1]] \/ (j[2] = next[j[1]] /\ waiting[j[1]])

Scan(j) ==
    /\ Begun(j) /\ scanned[j] = "none"
    /\ \E r \in Outcomes : scanned' = [scanned EXCEPT ![j] = r]
    /\ UNCHANGED <<next, waiting, answer>>

Return(c, r) ==
    /\ answer' = [answer EXCEPT ![Current(c)] = r]
    /\ next' = [next EXCEPT ![c] = @ + 1]
    /\ waiting' = [waiting EXCEPT ![c] = FALSE]
    /\ UNCHANGED scanned

Answered(c) == waiting[c] /\ scanned[Current(c)] # "none" /\ Return(c, scanned[Current(c)])
TimedOut(c) == waiting[c] /\ scanned[Current(c)] = "none" /\ Return(c, "timeout")
Failed(c)   == next[c] <= MaxCalls /\ scanned[Current(c)] = "none" /\ Return(c, "error")

Next == \/ \E c \in Callers : Begin(c) \/ Answered(c) \/ TimedOut(c) \/ Failed(c)
        \/ \E j \in Call : Scan(j)

Spec == Init /\ [][Next]_vars
=============================================================================
