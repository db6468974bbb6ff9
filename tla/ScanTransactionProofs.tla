------------------------ MODULE ScanTransactionProofs ------------------------
(***************************************************************************)
(* What holds of every scan, whatever the body and whatever libmodsecurity *)
(* logs: a verdict rests on all phases, tells all that the rules found in  *)
(* them, and the rules were shown every string the extractor may not leave *)
(* out.                                                                    *)
(***************************************************************************)
EXTENDS ScanTransaction, FiniteSetTheorems, TLAPS

\* The phases behind a transaction whose call number n comes next: the first
\* two calls have none, every other has its own.
PhasesBehind(n) == IF n <= 3 THEN 0 ELSE n - 3

Processing == {"extracting", "scanning", "failed", "done"}

\* The phases evaluated are those of the calls made, in order, and a scan is
\* only done when every call was.
PhasesInv ==
    /\ status \in Processing
    /\ next \in Nat \ {0}
    /\ evaluated \in Seq(Nat \X {Shown(c) : c \in DOMAIN Phase})
    /\ Len(evaluated) = PhasesBehind(next)
    /\ \A i \in 1 .. Len(evaluated) : evaluated[i][1] = i
    /\ \A i \in 1 .. Len(evaluated) : evaluated[i][2] = Shown(Calls(job)[i + 2])
    /\ next <= Len(Calls(job)) + 1
    /\ status = "extracting" => next = 1
    /\ status = "done" => next = Len(Calls(job)) + 1

\* The collector holds the detection rules fired, and a verdict is what
\* Conclusion made of it.
FindingsInv ==
    /\ status \in Processing
    /\ fired \subseteq Rules
    /\ collector = Detected
    /\ pending \in Intervention
    /\ status = "done" => result = Conclusion

-----------------------------------------------------------------------------
\* Phase, call by call.
LEMMA PhaseOfCall ==
    /\ "new" \notin DOMAIN Phase /\ "uri" \notin DOMAIN Phase
    /\ "request headers" \in DOMAIN Phase /\ Phase["request headers"] = 1
    /\ "request end" \in DOMAIN Phase /\ Phase["request end"] = 2
    /\ "request body" \in DOMAIN Phase /\ Phase["request body"] = 2
    /\ "response headers" \in DOMAIN Phase /\ Phase["response headers"] = 3
    /\ "response body" \in DOMAIN Phase /\ Phase["response body"] = 4
  BY DEF Phase

\* There are two calls more than phases.
LEMMA CallsCount ==
    ASSUME NEW j
    PROVE  Len(Calls(j)) = LastPhase(j.type) + 2 /\ LastPhase(j.type) \in {2, 4}
<1>1. Len(<<"new", "uri", "request headers", "request end", "response headers", "response body">>) = 6
  OBVIOUS
<1>2. Len(<<"new", "uri", "request headers", "request body">>) = 4
  OBVIOUS
<1> QED
  BY <1>1, <1>2 DEF Calls, LastPhase

\* The first two calls evaluate no phase.
LEMMA FirstCalls ==
    ASSUME NEW j, NEW n \in {1, 2}
    PROVE  Calls(j)[n] \notin DOMAIN Phase
<1>1. Calls(j)[1] = "new" /\ Calls(j)[2] = "uri"
  BY DEF Calls
<1>2. CASE n = 1
  BY <1>1, <1>2, PhaseOfCall
<1>3. CASE n = 2
  BY <1>1, <1>3, PhaseOfCall
<1> QED
  BY <1>2, <1>3

\* Call number n, from the third on, evaluates phase n - 2.
LEMMA LaterCalls ==
    ASSUME NEW j, NEW n \in 3 .. Len(Calls(j))
    PROVE  Calls(j)[n] \in DOMAIN Phase /\ Phase[Calls(j)[n]] = n - 2
<1>1. CASE j.type = "response"
  <2>1. /\ Calls(j)[3] = "request headers"
        /\ Calls(j)[4] = "request end"
        /\ Calls(j)[5] = "response headers"
        /\ Calls(j)[6] = "response body"
    BY <1>1 DEF Calls
  <2>2. n = 3 \/ n = 4 \/ n = 5 \/ n = 6
    <3>1. Len(Calls(j)) = 6
      BY <1>1, CallsCount DEF LastPhase
    <3> QED
      BY <3>1
  <2>3. CASE n = 3
    <3>1. Calls(j)[n] = "request headers"
      BY <2>1, <2>3
    <3>2. n - 2 = 1
      BY <2>3
    <3> QED
      BY <3>1, <3>2, PhaseOfCall
  <2>4. CASE n = 4
    <3>1. Calls(j)[n] = "request end"
      BY <2>1, <2>4
    <3>2. n - 2 = 2
      BY <2>4
    <3> QED
      BY <3>1, <3>2, PhaseOfCall
  <2>5. CASE n = 5
    <3>1. Calls(j)[n] = "response headers"
      BY <2>1, <2>5
    <3>2. n - 2 = 3
      BY <2>5
    <3> QED
      BY <3>1, <3>2, PhaseOfCall
  <2>6. CASE n = 6
    <3>1. Calls(j)[n] = "response body"
      BY <2>1, <2>6
    <3>2. n - 2 = 4
      BY <2>6
    <3> QED
      BY <3>1, <3>2, PhaseOfCall
  <2> QED
    BY <2>2, <2>3, <2>4, <2>5, <2>6
<1>2. CASE j.type # "response"
  <2>1. /\ Calls(j)[3] = "request headers"
        /\ Calls(j)[4] = "request body"
    BY <1>2 DEF Calls
  <2>2. n = 3 \/ n = 4
    <3>1. Len(Calls(j)) = 4
      BY <1>2, CallsCount DEF LastPhase
    <3> QED
      BY <3>1
  <2>3. CASE n = 3
    <3>1. Calls(j)[n] = "request headers"
      BY <2>1, <2>3
    <3>2. n - 2 = 1
      BY <2>3
    <3> QED
      BY <3>1, <3>2, PhaseOfCall
  <2>4. CASE n = 4
    <3>1. Calls(j)[n] = "request body"
      BY <2>1, <2>4
    <3>2. n - 2 = 2
      BY <2>4
    <3> QED
      BY <3>1, <3>2, PhaseOfCall
  <2> QED
    BY <2>2, <2>3, <2>4
<1> QED
  BY <1>1, <1>2

-----------------------------------------------------------------------------
LEMMA PhasesInit == Init => PhasesInv
<1> SUFFICES ASSUME NEW j \in Job, Begin(j) PROVE PhasesInv
  BY DEF Init
<1>1. job = j /\ status \in {"extracting", "scanning"} /\ next = 1 /\ evaluated = <<>>
  BY DEF Begin
<1>2. Len(Calls(j)) \in Nat /\ Len(Calls(j)) >= 1
  BY CallsCount
<1> QED
  BY <1>1, <1>2 DEF PhasesInv, Processing, PhasesBehind

LEMMA PhasesNext == PhasesInv /\ [Next]_vars => PhasesInv'
<1> SUFFICES ASSUME PhasesInv, [Next]_vars PROVE PhasesInv'
  OBVIOUS
<1>1. Len(Calls(job)) \in Nat
  BY CallsCount
<1>2. CASE Prepare
  <2>1. next \in 1 .. Len(Calls(job)) /\ Calls(job)[next] \notin DOMAIN Phase
    BY <1>1, <1>2 DEF PhasesInv, Prepare, Calling, Call
  <2>2. next < 3
    BY <1>1, <2>1, LaterCalls
  <2> QED
    BY <1>1, <1>2, <2>2 DEF PhasesInv, Prepare, Calling, PhasesBehind, Processing
<1>3. CASE Evaluate
  <2> DEFINE S == Nat \X {Shown(c) : c \in DOMAIN Phase}
             entry == <<Phase[Call], Shown(Call)>>
  <2>0. next \in 1 .. Len(Calls(job)) /\ Call \in DOMAIN Phase
    BY <1>1, <1>3 DEF PhasesInv, Evaluate, Calling
  <2>1. next >= 3 /\ Phase[Call] = next - 2
    <3>1. next \notin {1, 2}
      BY <2>0, FirstCalls DEF Call
    <3> QED
      BY <1>1, <2>0, <3>1, LaterCalls DEF Call
  <2>2. entry \in S /\ entry[1] = Len(evaluated) + 1
    BY <1>1, <2>0, <2>1 DEF PhasesInv, PhasesBehind
  <2>3. evaluated' = Append(evaluated, entry) /\ job' = job /\ next' = next + 1 /\ status' = status
    BY <1>3 DEF Evaluate
  <2> HIDE DEF entry
  <2>4. evaluated' \in Seq(S)
    BY <2>2, <2>3 DEF PhasesInv
  <2>5. Len(evaluated') = Len(evaluated) + 1 /\ Len(evaluated) \in Nat
    BY <2>2, <2>3 DEF PhasesInv
  <2>6. \A i \in 1 .. Len(evaluated') : evaluated'[i][1] = i
    BY <2>2, <2>3, <2>5 DEF PhasesInv
  <2>11. entry[2] = Shown(Calls(job)[Len(evaluated) + 1 + 2])
    <3>1. Len(evaluated) + 1 + 2 = next
      BY <1>1, <2>0, <2>1 DEF PhasesInv, PhasesBehind
    <3> QED
      BY <3>1 DEF Call, entry
  <2>12. \A i \in 1 .. Len(evaluated') : evaluated'[i][2] = Shown(Calls(job)[i + 2])
    BY <2>2, <2>3, <2>5, <2>11 DEF PhasesInv
  <2>13. \A i \in 1 .. Len(evaluated') : evaluated'[i][2] = Shown(Calls(job)[i + 2])'
    <3>1. job' = job /\ strings' = strings
      BY <1>3 DEF Evaluate
    <3> QED
      BY <2>12, <3>1 DEF Shown, ScanBody
  <2>7. Len(evaluated') = PhasesBehind(next')
    BY <1>1, <2>0, <2>1, <2>3, <2>5 DEF PhasesInv, PhasesBehind
  <2>8. next' \in Nat \ {0} /\ next' <= Len(Calls(job')) + 1 /\ status' = "scanning"
    BY <1>1, <1>3, <2>0, <2>3 DEF PhasesInv, Evaluate, Calling
  <2>9. S' = S
    BY <1>3 DEF Evaluate, Shown, ScanBody
  <2> QED
    BY <2>4, <2>6, <2>7, <2>8, <2>9, <2>13 DEF PhasesInv, Processing
<1>4. CASE Fail
  BY <1>4 DEF PhasesInv, Fail, Processing, Shown, ScanBody
<1>5. CASE Conclude
  <2>1. /\ status' = "done" /\ UNCHANGED <<job, strings, next, evaluated>>
        /\ next = Len(Calls(job)) + 1
    BY <1>1, <1>5 DEF PhasesInv, Conclude
  <2> QED
    BY <1>1, <2>1 DEF PhasesInv, Processing, Shown, ScanBody
<1>6. CASE NextJob
  <2>1. Len(Calls(job')) \in Nat /\ Len(Calls(job')) >= 1
    BY CallsCount
  <2> QED
    BY <1>6, <2>1 DEF PhasesInv, NextJob, Processing, PhasesBehind
<1>7. CASE UNCHANGED vars
  BY <1>7 DEF PhasesInv, vars, Shown, ScanBody
<1>8. CASE LeaveOut \/ Keep \/ Submit
  <2>1. status = "extracting" /\ next = 1 /\ evaluated = <<>>
    BY <1>8 DEF PhasesInv, PhasesBehind, LeaveOut, Keep, Submit, Extracting
  <2>2. /\ status' \in {"extracting", "scanning"}
        /\ UNCHANGED <<job, next, evaluated>>
    BY <1>8, <2>1 DEF LeaveOut, Keep, Submit
  <2> QED
    BY <2>1, <2>2 DEF PhasesInv, PhasesBehind, Processing
<1> QED
  BY <1>2, <1>3, <1>4, <1>5, <1>6, <1>7, <1>8 DEF Next

\* Whatever the body and whatever the rules answer, no scan ends with a verdict
\* before every phase of its type was evaluated, once and in order
\* (process_request_scan and its two siblings in src/modsec/pool.rs).
THEOREM PhasesTheorem == Spec => []AllPhasesEvaluated
<1>1. PhasesInv => AllPhasesEvaluated
  <2> SUFFICES ASSUME PhasesInv, status = "done" PROVE AllPhasesEvaluated
    BY DEF AllPhasesEvaluated
  <2>1. Len(Calls(job)) = LastPhase(job.type) + 2 /\ LastPhase(job.type) \in {2, 4}
    BY CallsCount
  <2>2. Len(evaluated) = LastPhase(job.type)
    BY <2>1 DEF PhasesInv, PhasesBehind
  <2>3. DOMAIN evaluated = 1 .. Len(evaluated)
    BY DEF PhasesInv
  <2> QED
    BY <2>2, <2>3 DEF PhasesInv, AllPhasesEvaluated
<1> QED
  BY <1>1, PhasesInit, PhasesNext, PTL DEF Spec

-----------------------------------------------------------------------------
LEMMA FindingsInit == Init => FindingsInv
  BY DEF Init, Begin, FindingsInv, Processing, Detected, Intervention, NoIntervention, Rules

LEMMA FindingsNext == FindingsInv /\ [Next]_vars => FindingsInv'
<1> SUFFICES ASSUME FindingsInv, [Next]_vars PROVE FindingsInv'
  OBVIOUS
<1>1. CASE Prepare
  BY <1>1 DEF FindingsInv, Prepare, Calling, Processing, Detected
<1>2. CASE Evaluate
  <2>1. PICK logged \in SUBSET Rules : /\ fired' = fired \cup logged
                                       /\ collector' = collector \cup Collect(logged)
    BY <1>2 DEF Evaluate
  <2>2. Collect(logged) = logged \cap DetectionRules
    BY ScanAssumption DEF Collect, Rules
  <2>3. collector' = Detected' /\ fired' \subseteq Rules
    BY <2>1, <2>2 DEF FindingsInv, Detected
  <2>4. pending' \in Intervention /\ status' = "scanning"
    BY <1>2 DEF FindingsInv, Evaluate, Calling
  <2> QED
    BY <2>3, <2>4 DEF FindingsInv, Processing
<1>3. CASE Fail
  BY <1>3 DEF FindingsInv, Fail, Processing, Detected
<1>4. CASE Conclude
  BY <1>4 DEF FindingsInv, Conclude, Conclusion, Processing, Detected
<1>5. CASE NextJob
  BY <1>5 DEF FindingsInv, NextJob, Fresh, Processing, Detected, Intervention, NoIntervention, Rules
<1>6. CASE UNCHANGED vars
  BY <1>6 DEF FindingsInv, vars, Detected, Conclusion
<1>7. CASE LeaveOut \/ Keep \/ Submit
  BY <1>7 DEF FindingsInv, LeaveOut, Keep, Submit, Extracting, Processing, Detected
<1> QED
  BY <1>1, <1>2, <1>3, <1>4, <1>5, <1>6, <1>7 DEF Next

\* Nothing the rules found in any phase is missing from a verdict, nothing of an
\* earlier job is in it, and no rule that only sets up blocks
\* (process_request_scan, LogCollector in src/modsec/engine.rs).
THEOREM VerdictTheorem == Spec => []VerdictTellsRules
<1>1. FindingsInv => VerdictTellsRules
  <2> SUFFICES ASSUME FindingsInv, status = "done" PROVE VerdictTellsRules
    BY DEF VerdictTellsRules
  <2>1. /\ result.blocked = (pending.disruptive \/ Detected # {})
        /\ result.matched = Detected \cup Named(pending)
    BY DEF FindingsInv, Conclusion
  <2>2. pending.disruptive \in BOOLEAN
    BY DEF FindingsInv, Intervention
  <2>3. Detected = {} /\ result.matched # {} => pending.rule # NoRule
    BY <2>1 DEF Named
  <2> QED
    BY <2>1, <2>2, <2>3 DEF VerdictTellsRules
<1> QED
  BY <1>1, FindingsInit, FindingsNext, PTL DEF Spec

-----------------------------------------------------------------------------
\* What the extractor has done so far: every literal behind it that may be
\* scanned was kept, once, and it only stops where there are no more literals or
\* no more room.
ExtractionInv ==
    /\ job \in Job
    /\ status = "extracting" => Extracted(job)
    /\ Extracted(job) =>
          /\ read \in 0 .. Len(job.body)
          /\ strings \in Seq(Strings)
          /\ ToSet(strings) \subseteq {s \in {job.body[k] : k \in 1 .. read} :
                                          Extractable(s, job.skip_base64)}
          /\ \A k \in 1 .. read :
                Extractable(job.body[k], job.skip_base64) => job.body[k] \in ToSet(strings)
          /\ IsFiniteSet(ToSet(strings)) /\ Cardinality(ToSet(strings)) = Len(strings)
          /\ Len(strings) <= MaxUniqueStrings
          /\ status # "extracting" => read = Len(job.body) \/ AtLimit

\* What a sequence holds once an element is appended.
LEMMA ToSetAppend ==
    ASSUME NEW S, NEW seq \in Seq(S), NEW e \in S
    PROVE  ToSet(Append(seq, e)) = ToSet(seq) \cup {e}
<1>1. DOMAIN seq = 1 .. Len(seq) /\ Len(seq) \in Nat
  OBVIOUS
<1>2. DOMAIN Append(seq, e) = 1 .. Len(seq) + 1
  OBVIOUS
<1>3. \A i \in 1 .. Len(seq) + 1 : Append(seq, e)[i] = IF i = Len(seq) + 1 THEN e ELSE seq[i]
  OBVIOUS
<1>4. 1 .. Len(seq) + 1 = (1 .. Len(seq)) \cup {Len(seq) + 1}
  BY <1>1
<1> QED
  BY <1>1, <1>2, <1>3, <1>4 DEF ToSet

LEMMA BodyIsSeq ==
    ASSUME job \in Job, Extracted(job)
    PROVE  job.body \in Seq(Strings)
  BY ScanAssumption DEF Job, Extracted

LEMMA ExtractionInit == Init => ExtractionInv
<1> SUFFICES ASSUME NEW j \in Job, Begin(j) PROVE ExtractionInv
  BY DEF Init
<1>1. job = j /\ read = 0 /\ strings = <<>> /\ status = (IF Extracted(j) THEN "extracting" ELSE "scanning")
  BY DEF Begin
<1>2. ToSet(strings) = {}
  BY <1>1 DEF ToSet
<1>3. Extracted(job) => job.body \in Seq(Strings)
  BY <1>1, BodyIsSeq
<1>4. IsFiniteSet({}) /\ Cardinality({}) = 0 /\ Len(<<>>) = 0
  BY FS_EmptySet
<1>5. Extracted(job) => status = "extracting" /\ 0 \in 0 .. Len(job.body)
  BY <1>1, <1>3
<1>6. 1 .. 0 = {} /\ <<>> \in Seq(Strings) /\ 0 <= MaxUniqueStrings
  BY ScanAssumption
<1>7. job \in Job /\ (status = "extracting" => Extracted(job))
  BY <1>1
<1> QED
  BY <1>1, <1>2, <1>4, <1>5, <1>6, <1>7 DEF ExtractionInv

LEMMA ExtractionNext == ExtractionInv /\ [Next]_vars => ExtractionInv'
<1> SUFFICES ASSUME ExtractionInv, [Next]_vars PROVE ExtractionInv'
  OBVIOUS
<1>1. Extracted(job) => job.body \in Seq(Strings)
  BY BodyIsSeq DEF ExtractionInv
<1>2. CASE LeaveOut
  <2>1. /\ Extracted(job) /\ read \in 0 .. Len(job.body) /\ read < Len(job.body) /\ ~IsNew
        /\ read' = read + 1 /\ status' = "extracting" /\ UNCHANGED <<job, strings>>
    BY <1>2 DEF ExtractionInv, LeaveOut, Extracting
  <2>2. Extractable(Literal, job.skip_base64) => Literal \in ToSet(strings)
    BY <2>1 DEF ExtractionInv, IsNew, Contains, ToSet
  <2>3. read' \in 0 .. Len(job.body)
    BY <1>1, <2>1
  <2>4. \A k \in 1 .. read' : k \in 1 .. read \/ k = read + 1
    BY <1>1, <2>1
  <2>5. \A k \in 1 .. read' :
           Extractable(job.body[k], job.skip_base64) => job.body[k] \in ToSet(strings)
    BY <2>1, <2>2, <2>4 DEF ExtractionInv, Literal
  <2>6. {job.body[k] : k \in 1 .. read} \subseteq {job.body[k] : k \in 1 .. read'}
    BY <1>1, <2>1
  <2> QED
    BY <2>1, <2>3, <2>5, <2>6 DEF ExtractionInv, Extracted
<1>3. CASE Keep
  <2>1. /\ Extracted(job) /\ read \in 0 .. Len(job.body) /\ read < Len(job.body) /\ IsNew
        /\ strings' = Append(strings, Literal)
        /\ read' = read + 1 /\ status' = "extracting" /\ UNCHANGED job
    BY <1>3 DEF ExtractionInv, Keep, Extracting
  <2>2. Literal \in Strings /\ strings \in Seq(Strings)
    BY <1>1, <2>1 DEF Literal, ExtractionInv
  <2>3. ToSet(strings') = ToSet(strings) \cup {Literal} /\ Literal \notin ToSet(strings)
    BY <2>1, <2>2, ToSetAppend DEF IsNew, Contains, ToSet
  <2>4. read' \in 0 .. Len(job.body)
    BY <1>1, <2>1
  <2>5. \A k \in 1 .. read' : k \in 1 .. read \/ k = read + 1
    BY <1>1, <2>1
  <2>6. \A k \in 1 .. read' :
           Extractable(job.body[k], job.skip_base64) => job.body[k] \in ToSet(strings')
    BY <2>1, <2>3, <2>5 DEF ExtractionInv, Literal
  <2>7. {job.body[k] : k \in 1 .. read'} = {job.body[k] : k \in 1 .. read} \cup {Literal}
    BY <1>1, <2>1 DEF Literal
  <2>8. ToSet(strings') \subseteq {s \in {job.body[k] : k \in 1 .. read'} :
                                        Extractable(s, job.skip_base64)}
    BY <2>1, <2>3, <2>7 DEF ExtractionInv, IsNew
  <2>9. /\ IsFiniteSet(ToSet(strings'))
        /\ Cardinality(ToSet(strings')) = Cardinality(ToSet(strings)) + 1
    BY <2>1, <2>3, FS_AddElement DEF ExtractionInv
  <2>10. strings' \in Seq(Strings) /\ Len(strings') = Len(strings) + 1
    BY <2>1, <2>2
  <2>11. Cardinality(ToSet(strings')) = Len(strings')
    BY <2>1, <2>9, <2>10 DEF ExtractionInv
  <2>13. Len(strings') <= MaxUniqueStrings
    BY <1>3, <2>2, <2>10, ScanAssumption DEF Keep, AtLimit
  <2>12. Extracted(job)' /\ job' \in Job
    BY <2>1 DEF ExtractionInv, Extracted
  <2> QED
    BY <2>1, <2>4, <2>6, <2>8, <2>9, <2>10, <2>11, <2>12, <2>13 DEF ExtractionInv
<1>4. CASE Submit
  <2>1. Extracted(job) /\ UNCHANGED <<job, read, strings>> /\ status' = "scanning"
    BY <1>4 DEF ExtractionInv, Submit
  <2>2. read = Len(job.body) \/ AtLimit
    BY <1>4 DEF Submit
  <2> QED
    BY <2>1, <2>2 DEF ExtractionInv, Extracted, AtLimit
<1>5. CASE Prepare \/ Evaluate \/ Fail \/ Conclude
  <2>1. UNCHANGED <<job, read, strings>> /\ status = "scanning" /\ status' # "extracting"
    BY <1>5 DEF Prepare, Evaluate, Fail, Conclude, Calling
  <2> QED
    BY <2>1 DEF ExtractionInv, Extracted, AtLimit
<1>6. CASE NextJob
  <2>1. /\ job' \in Job /\ read' = 0 /\ strings' = <<>>
        /\ status' = (IF Extracted(job') THEN "extracting" ELSE "scanning")
    BY <1>6 DEF NextJob
  <2>2. ToSet(strings') = {}
    BY <2>1 DEF ToSet
  <2>3. Extracted(job') => job'.body \in Seq(Strings)
    BY <2>1, ScanAssumption DEF Job, Extracted
  <2>4. IsFiniteSet({}) /\ Cardinality({}) = 0 /\ Len(<<>>) = 0
    BY FS_EmptySet
  <2>5. Extracted(job') => status' = "extracting" /\ 0 \in 0 .. Len(job'.body)
    BY <2>1, <2>3
  <2>6. 1 .. 0 = {} /\ <<>> \in Seq(Strings) /\ 0 <= MaxUniqueStrings
    BY ScanAssumption
  <2>7. job' \in Job /\ (status' = "extracting" => Extracted(job'))
    BY <2>1
  <2> QED
    BY <2>1, <2>2, <2>4, <2>5, <2>6, <2>7 DEF ExtractionInv, Extracted
<1>7. CASE UNCHANGED vars
  BY <1>7 DEF ExtractionInv, Extracted, AtLimit, vars
<1> QED
  BY <1>2, <1>3, <1>4, <1>5, <1>6, <1>7 DEF Next

\* No string of a JSON body escapes the rules because of another of its strings,
\* of its place, or of how often it comes, short of max_unique_strings others
\* before it; a body that is not JSON is shown as it is (extract_strings in
\* src/modsec/string_extractor.rs, process_request_scan).
THEOREM StringsTheorem == Spec => []BodyStringsJudged
<1>1. PhasesInv /\ ExtractionInv => BodyStringsJudged
  <2> SUFFICES ASSUME PhasesInv, ExtractionInv, status = "done", job.body # NoBody
               PROVE  BodyStringsJudged
    BY DEF BodyStringsJudged
  <2> DEFINE shown == Last(evaluated)[2]
  <2>1. job.body \in Seq(Strings)
    BY ScanAssumption DEF ExtractionInv, Job
  <2>2. shown = ScanBody
    <3>1. Len(Calls(job)) = LastPhase(job.type) + 2 /\ LastPhase(job.type) \in {2, 4}
      BY CallsCount
    <3>2. Len(evaluated) = LastPhase(job.type)
      BY <3>1 DEF PhasesInv, PhasesBehind
    <3>3. shown = Shown(Calls(job)[Len(Calls(job))])
      BY <3>1, <3>2 DEF PhasesInv, Last
    <3>4. Calls(job)[Len(Calls(job))] \in {"request body", "response body"}
      BY <3>1 DEF Calls, LastPhase
    <3> QED
      BY <3>3, <3>4 DEF Shown
  <2> HIDE DEF shown
  <2>3. CASE ~job.json
    <3>1. shown = job.body
      BY <2>2, <2>3 DEF ScanBody
    <3>2. DOMAIN job.body = 1 .. Len(job.body)
      BY <2>1
    <3>3. \A i \in DOMAIN job.body : job.body[i] \in ToSet(shown)
      BY <3>1 DEF ToSet
    <3> QED
      BY <2>3, <3>1, <3>3 DEF BodyStringsJudged, shown
  <2>4. CASE job.json
    <3>1. shown = strings /\ Extracted(job)
      BY <2>2, <2>4 DEF ScanBody, Extracted
    <3>2. /\ ToSet(shown) \subseteq ToSet(job.body)
          /\ Cardinality(ToSet(shown)) = Len(shown)
          /\ Len(shown) <= MaxUniqueStrings
      <4>1. /\ read \in 0 .. Len(job.body)
            /\ ToSet(strings) \subseteq {job.body[k] : k \in 1 .. read}
            /\ Cardinality(ToSet(strings)) = Len(strings) /\ Len(strings) <= MaxUniqueStrings
        BY <3>1 DEF ExtractionInv
      <4>2. {job.body[k] : k \in 1 .. read} \subseteq ToSet(job.body)
        BY <2>1, <4>1 DEF ToSet
      <4> QED
        BY <3>1, <4>1, <4>2
    <3>3. ASSUME NEW i \in DOMAIN job.body, job.body[i] \notin ToSet(shown),
                 Extractable(job.body[i], job.skip_base64)
          PROVE  PastLimit(i)
      <4>1. i \in 1 .. Len(job.body) /\ read \in 0 .. Len(job.body) /\ i \notin 1 .. read
        BY <2>1, <3>1, <3>3 DEF ExtractionInv
      <4>2. read < i /\ read # Len(job.body)
        BY <2>1, <4>1
      <4>3. Cardinality(ToSet(strings)) >= MaxUniqueStrings
        BY <3>1, <4>2 DEF ExtractionInv, AtLimit
      <4>4. {job.body[k] : k \in 1 .. read} \subseteq {job.body[k] : k \in 1 .. i - 1}
        BY <2>1, <4>1, <4>2
      <4>5. ToSet(strings) \subseteq MetBefore(i)
        BY <3>1, <4>4 DEF ExtractionInv, MetBefore
      <4>6. IsFiniteSet(MetBefore(i))
        <5>1. IsFiniteSet(1 .. i - 1)
          BY <4>1, FS_Interval
        <5>2. IsFiniteSet({job.body[k] : k \in 1 .. i - 1})
          <6> DEFINE f == [k \in 1 .. i - 1 |-> job.body[k]]
                     T == {job.body[k] : k \in 1 .. i - 1}
          <6>1. f \in Surjection(1 .. i - 1, T)
            BY DEF Surjection
          <6> HIDE DEF f, T
          <6>2. IsFiniteSet(T)
            BY <5>1, <6>1, FS_Surjection
          <6> QED
            BY <6>2 DEF T
        <5> QED
          BY <5>2, FS_Subset DEF MetBefore
      <4>7. Cardinality(ToSet(strings)) <= Cardinality(MetBefore(i))
        BY <4>5, <4>6, FS_Subset
      <4>8. Cardinality(MetBefore(i)) \in Nat /\ Cardinality(ToSet(strings)) \in Nat
        BY <3>1, <4>6, FS_CardinalityType DEF ExtractionInv
      <4> QED
        BY <4>3, <4>7, <4>8, ScanAssumption DEF PastLimit
    <3> QED
      BY <2>4, <3>2, <3>3 DEF BodyStringsJudged, shown
  <2> QED
    BY <2>3, <2>4
<1> QED
  BY <1>1, PhasesInit, PhasesNext, ExtractionInit, ExtractionNext, PTL DEF Spec
=============================================================================
