--------------------------- MODULE ScanTransaction ---------------------------
(***************************************************************************)
(* A scan job from its payload to its result.  The filter reduces a JSON   *)
(* body to its strings (extract_strings in src/modsec/string_extractor.rs) *)
(* and submits the job; process_scan_job in src/modsec/pool.rs makes a     *)
(* libmodsecurity transaction and drives it through its phases             *)
(* (src/modsec/transaction.rs), while libmodsecurity logs the rules that   *)
(* match into the transaction's collector (src/modsec/engine.rs).          *)
(*                                                                         *)
(* A body is the sequence of its string literals.  Everything else of a    *)
(* payload is left out: no decision here looks at it.                      *)
(***************************************************************************)
EXTENDS Naturals, FiniteSets, SequencesExt

CONSTANTS
    Strings,           \* the string literals bodies are made of
    Unreadable,        \* those that are not UTF-8, or that the body's end cuts off
    OutOfBounds,       \* shorter than min_string_length, longer than max_string_length
    Base64,            \* those that is_likely_base64 accepts
    MaxUniqueStrings,  \* StringExtractorConfig.max_unique_strings
    Bodies,            \* the bodies that are scanned
    NoBody,            \* ScanPayload.body is None
    DetectionRules,    \* rule ids outside 900000 .. 901999
    SetupRules,        \* rule ids inside
    NoRule             \* an intervention whose log names no rule

\* StringExtractorConfig::validate refuses a limit of 0.
ASSUME ScanAssumption ==
    /\ MaxUniqueStrings \in Nat \ {0}
    /\ Bodies \subseteq Seq(Strings)
    /\ NoBody \notin Bodies
    /\ DetectionRules \cap SetupRules = {}
    /\ NoRule \notin DetectionRules \cup SetupRules

VARIABLES
    job,        \* the job in hand
    status,     \* "extracting" in the filter, "scanning", then "done" or "failed"
    read,       \* how many literals of the body the extractor is past
    strings,    \* ExtractionResult.strings: those it kept
    next,       \* the number of the call on the transaction that comes next
    evaluated,  \* the phases libmodsecurity evaluated, each with the strings it saw
    fired,      \* history: the rules logged in these phases
    collector,  \* LogCollector.matched_rules
    pending,    \* libmodsecurity: the intervention that waits to be asked for
    result      \* the ScanResult, once the status is "done"

vars == <<job, status, read, strings, next, evaluated, fired, collector, pending, result>>

ScanType == {"request", "response", "response as request"}

\* The filter scans a response only once it has the body.
Job == {j \in [type : ScanType, body : Bodies \cup {NoBody}, json : BOOLEAN, skip_base64 : BOOLEAN] :
            j.type = "request" \/ j.body # NoBody}

Rules == DetectionRules \cup SetupRules
Intervention == [disruptive : BOOLEAN, rule : Rules \cup {NoRule}]

\* As good as no intervention: it neither blocks nor names a rule.
NoIntervention == [disruptive |-> FALSE, rule |-> NoRule]

ScanResult == [blocked : BOOLEAN, matched : SUBSET Rules]

\* ScanResult::error: the same value as that of a scan that found nothing.
NothingFound == [blocked |-> FALSE, matched |-> {}]

-----------------------------------------------------------------------------
\* The transaction.

\* Faulty variant: a request without body has no body phase.
CallsWithBody(j) ==
    IF j.type # "response" /\ j.body = NoBody THEN <<"new", "uri", "request headers">>
    ELSE IF j.type = "response"
    THEN <<"new", "uri", "request headers", "request end", "response headers", "response body">>
    ELSE <<"new", "uri", "request headers", "request body">>

\* A response is scanned after its request's head; scanned as a request it is
\* the body of a made-up one.  Without a body its phase is evaluated all the same.
Calls(j) ==
    IF j.type = "response"
    THEN <<"new", "uri", "request headers", "request end", "response headers", "response body">>
    ELSE <<"new", "uri", "request headers", "request body">>

\* The phase a call makes libmodsecurity evaluate; "new" and "uri" have none.
Phase == [c \in {"request headers", "request end", "request body",
                 "response headers", "response body"} |->
            CASE c = "request headers" -> 1
              [] c \in {"request end", "request body"} -> 2
              [] c = "response headers" -> 3
              [] c = "response body" -> 4]

\* The extracted strings stand in for the body of JSON.
ScanBody == IF job.json THEN strings ELSE job.body

Shown(call) ==
    IF call \in {"request body", "response body"} /\ job.body # NoBody THEN ScanBody ELSE <<>>

\* Faulty variant: every log line with a rule id is taken for a match.
CollectAll(logged) == logged

\* The collector passes over the rules that only set the rule set up.
Collect(logged) == logged \ SetupRules

\* The rule the intervention's log names.
Named(i) == IF i.rule = NoRule THEN {} ELSE {i.rule}

\* A rule in the log blocks as much as an intervention does.
Conclusion == [blocked |-> pending.disruptive \/ collector # {},
               matched |-> collector \cup Named(pending)]

\* Only a JSON body is reduced to its strings.
Extracted(j) == j.json /\ j.body # NoBody

\* A job is prepared; the transaction's collector is its own.
Begin(j) ==
    /\ job = j /\ status = (IF Extracted(j) THEN "extracting" ELSE "scanning")
    /\ read = 0 /\ strings = <<>> /\ next = 1
    /\ evaluated = <<>> /\ fired = {} /\ collector = {}
    /\ pending = NoIntervention /\ result = NothingFound

Init == \E j \in Job : Begin(j)

-----------------------------------------------------------------------------
\* The extractor.

Extractable(s, skip) == s \notin Unreadable \cup OutOfBounds /\ (skip => s \notin Base64)

Extracting == status = "extracting" /\ read < Len(job.body)
Literal == job.body[read + 1]
IsNew == Extractable(Literal, job.skip_base64) /\ ~Contains(strings, Literal)

\* Faulty variant: the limit is on the literals met, repeated or left out.
AtLimitCounting == read >= MaxUniqueStrings

AtLimit == Len(strings) >= MaxUniqueStrings

LeaveOut ==
    /\ Extracting /\ ~IsNew
    /\ read' = read + 1
    /\ UNCHANGED <<job, status, strings, next, evaluated, fired, collector, pending, result>>

Keep ==
    /\ Extracting /\ IsNew /\ ~AtLimit
    /\ strings' = Append(strings, Literal) /\ read' = read + 1
    /\ UNCHANGED <<job, status, next, evaluated, fired, collector, pending, result>>

\* The body was read, or another string is met when there is no room for it:
\* what comes after that one is not looked at.  The job goes to a worker.
Submit ==
    /\ status = "extracting"
    /\ read = Len(job.body) \/ (Extracting /\ IsNew /\ AtLimit)
    /\ status' = "scanning"
    /\ UNCHANGED <<job, read, strings, next, evaluated, fired, collector, pending, result>>

-----------------------------------------------------------------------------
\* The worker.

\* There is a call to make.
Calling == status = "scanning" /\ next <= Len(Calls(job))
Call == Calls(job)[next]

Prepare ==
    /\ Calling /\ Call \notin DOMAIN Phase
    /\ next' = next + 1
    /\ UNCHANGED <<job, status, read, strings, evaluated, fired, collector, pending, result>>

\* The rules log as they please; an intervention stays until it is asked for,
\* unless a later one takes its place.
Evaluate ==
    /\ Calling /\ Call \in DOMAIN Phase
    /\ \E logged \in SUBSET Rules :
          /\ fired' = fired \cup logged
          /\ collector' = collector \cup Collect(logged)
    /\ pending' \in {pending} \cup Intervention
    /\ evaluated' = Append(evaluated, <<Phase[Call], Shown(Call)>>)
    /\ next' = next + 1
    /\ UNCHANGED <<job, status, read, strings, result>>

\* Any call may fail; the error ends the scan and takes its matches with it.
Fail ==
    /\ Calling
    /\ status' = "failed"
    /\ UNCHANGED <<job, read, strings, next, evaluated, fired, collector, pending, result>>

Conclude ==
    /\ status = "scanning" /\ next > Len(Calls(job))
    /\ status' = "done" /\ result' = Conclusion
    /\ UNCHANGED <<job, read, strings, next, evaluated, fired, collector, pending>>

\* Faulty variant: the next transaction logs into the same collector.
FreshNever == collector

Fresh == {}

\* The transaction is dropped with its collector; another job is prepared.
NextJob ==
    /\ status \in {"done", "failed"}
    /\ job' \in Job /\ status' = (IF Extracted(job') THEN "extracting" ELSE "scanning")
    /\ read' = 0 /\ strings' = <<>> /\ next' = 1
    /\ evaluated' = <<>> /\ fired' = {} /\ collector' = Fresh
    /\ pending' = NoIntervention /\ result' = NothingFound

Next == LeaveOut \/ Keep \/ Submit \/ Prepare \/ Evaluate \/ Fail \/ Conclude \/ NextJob

Spec == Init /\ [][Next]_vars

-----------------------------------------------------------------------------
\* Properties

\* A scan that ends without an error had every phase of its scan type
\* evaluated, once and in order, whether or not there was a body: the rules on
\* the query of a GET request run in the phase of its body
\* (process_request_scan: "We MUST always call finalize_request_body").
LastPhase(type) == IF type = "response" THEN 4 ELSE 2
AllPhasesEvaluated ==
    status = "done" => /\ Len(evaluated) = LastPhase(job.type)
                       /\ \A i \in DOMAIN evaluated : evaluated[i][1] = i

\* The rules judge every string of the body they are given, except, in JSON,
\* one that the extractor's configuration excludes and those that are first met
\* when max_unique_strings others have been; and they judge no JSON string twice
\* nor more than that many (extract_strings, build_scan_payload).
MetBefore(i) == {s \in {job.body[k] : k \in 1 .. i - 1} : Extractable(s, job.skip_base64)}
PastLimit(i) == Cardinality(MetBefore(i)) >= MaxUniqueStrings
BodyStringsJudged ==
    status = "done" /\ job.body # NoBody =>
        LET shown == Last(evaluated)[2]
        IN  /\ \A i \in DOMAIN job.body :
                  \/ job.body[i] \in ToSet(shown)
                  \/ job.json /\ (~Extractable(job.body[i], job.skip_base64) \/ PastLimit(i))
            /\ ToSet(shown) \subseteq ToSet(job.body)
            /\ job.json => /\ Cardinality(ToSet(shown)) = Len(shown)
                           /\ Len(shown) <= MaxUniqueStrings

\* A verdict tells what the rules found, in this transaction and whichever the
\* phase: it blocks exactly if a detection rule was logged or the intervention
\* is disruptive, and reports every such rule and the one the intervention
\* names; matches without blocking come from an undisruptive intervention alone
\* (process_request_scan, LogCollector::add_log).
Detected == fired \cap DetectionRules
VerdictTellsRules ==
    status = "done" =>
        /\ result.blocked <=> Detected # {} \/ pending.disruptive
        /\ result.matched = Detected \cup Named(pending)
        /\ result.matched # {} /\ ~result.blocked => ~pending.disruptive /\ pending.rule # NoRule

=============================================================================
