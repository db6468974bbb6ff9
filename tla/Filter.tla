-------------------------------- MODULE Filter --------------------------------
(***************************************************************************)
(* One HTTP stream through OpenApiFilter (src/filter.rs).                  *)
(*                                                                         *)
(* Envoy creates one filter object per stream and calls its callbacks on   *)
(* one worker thread, so each callback is one atomic step of the filter.   *)
(* What the environment chooses is bound by \E in the step: the outcome    *)
(* of routing and of each check, the answers of the scanner and of the     *)
(* validation pool, and when the host delivers which callback.  The        *)
(* response of the upstream may start as soon as the request headers have  *)
(* been released, before the request body was judged.                      *)
(***************************************************************************)
EXTENDS Naturals, Sequences, DualScan

CONSTANTS
    Configs,     \* the filter configurations examined
    Operations,  \* the operations of the OpenAPI document examined
    Heads,       \* the outcomes of the checks on a request head examined
    None         \* no operation: Option::None

VARIABLES
    cfg,                         \* FilterConfig: fixed for the stream
    current_operation,           \* set by on_request_headers
    current_response_operation,  \* set by on_response_headers
    context,                     \* request_method, request_uri, request_headers are set
    request_errors,
    response_errors,
    validation_errors,           \* request/response.validation_errors counters
    metadata,                    \* request/response.verdict and error_count
    modsec_metadata,             \* modsec.request.* / modsec.response.*
    modsec_metrics,              \* modsec.request/response.{scans,timeouts,blocked,alerts}
    scan,                        \* history: what was scanned, and the answer
    stream,                      \* host: how far the request has been delivered
    upstream,                    \* host: what the upstream has received of the request
    response,                    \* host: how far the response has been delivered
    reply                        \* the local reply that ended the stream

vars == <<cfg, current_operation, current_response_operation, context,
          request_errors, response_errors, validation_errors, metadata,
          modsec_metadata, modsec_metrics, scan,
          stream, upstream, response, reply>>

requestSide  == <<current_operation, context, request_errors, stream, upstream>>
responseSide == <<current_response_operation, response_errors, response>>

-----------------------------------------------------------------------------
\* The data.

Config == [validate_request : BOOLEAN, validate_response : BOOLEAN,
           fail_on_request_error : BOOLEAN, fail_on_response_error : BOOLEAN,
           mocking : BOOLEAN,
           pool : {"off", "allow", "block"},  \* validation pool and its timeout_action
           scan_request : BOOLEAN, scan_response : BOOLEAN,
           request_action : ScanAction, response_action : ScanAction,
           timeout_action : TimeoutAction,
           secondary_ruleset : BOOLEAN]

\* "unresolvable": the operation has a request body whose $ref does not resolve.
RequestBody == {"none", "optional", "required", "unresolvable"}
\* mockable: mock::generate_mock_response succeeds for the operation.
Operation == [request_body : RequestBody, mockable : BOOLEAN]

Sides == {"request", "response"}

\* Replies before or at routing: 400 :method or :path is missing, 414 the path
\* is too long, 404 no such path, 405 no such method on the path.
RoutingReply == {"400", "414", "404", "405"}
Reply == RoutingReply \cup {"413", "403", "503", "mock"}
NoReply == [status |-> "none", started |-> FALSE]

\* The outcome of the checks on the request head; query_fits is the length limit.
HeaderChecks == [path_types : BOOLEAN, path : BOOLEAN, query_fits : BOOLEAN,
                 query : BOOLEAN, headers : BOOLEAN]
ASSUME FilterAssumption ==
    /\ Configs \subseteq Config
    /\ Operations \subseteq Operation
    /\ Heads \subseteq HeaderChecks
    /\ None \notin Operation

\* The outcome of validating a body against its schema: "late" is a timeout
\* of the validation pool.
BodyCheck == {"ok", "bad", "late"}
RequestError == {"path_types", "path", "query", "headers", "missing_body", "body"}
ResponseError == {"headers", "body"}

Verdict == {"unset", "valid", "invalid"}
NoVerdict == [verdict |-> "unset", error_count |-> 0]
NoModsecMetadata == [verdict |-> "unset", timed_out |-> FALSE]
NoScan == [primary |-> NoResult, secondary |-> NoResult]
NotScanned == [context |-> FALSE, body |-> FALSE, result |-> NoScan]
NoScans == [scans |-> 0, timeouts |-> 0, blocked |-> 0, alerts |-> 0]

-----------------------------------------------------------------------------
\* Helpers of the callbacks.

ErrorIf(failed, error) == IF failed THEN <<error>> ELSE <<>>

PathErrors(h) == ErrorIf(~h.path_types, "path_types") \o ErrorIf(~h.path, "path")

\* The errors on_request_headers has pushed when it decides.
HeaderErrors(h) ==
    PathErrors(h) \o ErrorIf(~h.query, "query") \o ErrorIf(~h.headers, "headers")

\* Faulty variant: the error that decided is not counted.
ReportOthers(errors) == [verdict |-> IF errors = <<>> THEN "valid" ELSE "invalid",
                         error_count |-> Len(errors) - 1]

\* observability::set_request_metadata and set_response_metadata
Report(errors) == [verdict |-> IF errors = <<>> THEN "valid" ELSE "invalid",
                   error_count |-> Len(errors)]

\* A timeout of the pool is an error only when its action is to block.
SchemaValid(check) == check = "ok" \/ (check = "late" /\ cfg.pool = "allow")

\* The outcomes validation can have: without a pool nothing is late.
BodyChecks == IF cfg.pool = "off" THEN {"ok", "bad"} ELSE BodyCheck

\* validate_body_with_schema returns Ok.
RequestBodyValid(op, empty, check) ==
    \/ op.request_body = "none"
    \/ op.request_body = "optional" /\ (empty \/ SchemaValid(check))
    \/ op.request_body = "required" /\ ~empty /\ SchemaValid(check)

SingleAnswers == {d \in DualScanResult : d.secondary = NoResult}
DualAnswers == DualScanResult \ SingleAnswers

\* The answers a scanner of this configuration can give; NoScan when scanning
\* is off, or the result when there is none to ask for.
ScanAnswers(enabled) ==
    IF ~enabled THEN {NoScan}
    ELSE IF cfg.secondary_ruleset THEN DualAnswers ELSE SingleAnswers

Action(side) == IF side = "request" THEN cfg.request_action ELSE cfg.response_action

\* Faulty variant: a timeout is let through whatever timeout_action says.
ScanDispositionFailOpen(side, d) == IF ShouldBlock(d, Action(side)) THEN "403" ELSE "pass"

\* What a callback does with the scan result: the timeout is looked at first.
ScanDisposition(side, d) ==
    IF AnyTimeout(d) /\ cfg.timeout_action = "block" THEN "503"
    ELSE IF ShouldBlock(d, Action(side)) THEN "403" ELSE "pass"

\* The counters after a scan answered d.
CountScan(m, d, action) ==
    LET One(b) == IF b THEN 1 ELSE 0
        blocked == Blocked(EffectiveResult(d))
    IN  [scans    |-> m.scans + 1,
         timeouts |-> m.timeouts + One(AnyTimeout(d)),
         blocked  |-> m.blocked + One(blocked /\ action = "block"),
         alerts   |-> m.alerts + One(blocked /\ action = "alert")]

\* scan_request_with_modsec and scan_response_with_modsec
RecordScan(side, ctx, body, d) ==
    IF d = NoScan
    THEN UNCHANGED <<modsec_metadata, modsec_metrics, scan>>
    ELSE /\ modsec_metadata' =
                [modsec_metadata EXCEPT ![side] = BuildMetadata(d, Action(side))]
         /\ modsec_metrics' =
                [modsec_metrics EXCEPT ![side] = CountScan(@, d, Action(side))]
         /\ scan' = [scan EXCEPT ![side] =
                [context |-> ctx, body |-> body, result |-> d]]

ReplyWith(status) ==
    reply' = [status |-> status, started |-> response \in {"open", "complete"}]

Mocked(op) == cfg.mocking /\ op.mockable

\* Faulty variant: the counter is set to the errors of this callback.
CountLast(side, errors) ==
    validation_errors' = [validation_errors EXCEPT ![side] = Len(errors)]

\* One increment for each error of this callback.
Count(side, errors) ==
    validation_errors' = [validation_errors EXCEPT ![side] = @ + Len(errors)]
SetMetadata(side, errors) == metadata' = [metadata EXCEPT ![side] = Report(errors)]

StreamOver == reply # NoReply \/ response = "complete"

Init ==
    /\ cfg \in Configs
    /\ current_operation = None /\ current_response_operation = None
    /\ context = FALSE
    /\ request_errors = <<>> /\ response_errors = <<>>
    /\ validation_errors = [side \in Sides |-> 0]
    /\ metadata = [side \in Sides |-> NoVerdict]
    /\ modsec_metadata = [side \in Sides |-> NoModsecMetadata]
    /\ modsec_metrics = [side \in Sides |-> NoScans]
    /\ scan = [side \in Sides |-> NotScanned]
    /\ stream = "new" /\ upstream = "none" /\ response = "none"
    /\ reply = NoReply

-----------------------------------------------------------------------------
\* on_request_headers

\* Where the request stands after its headers were delivered.
Delivered(end_of_stream) == stream' = IF end_of_stream THEN "headers" ELSE "open"

\* The callback returned Continue: the headers go on, and so does the request
\* when it has no body.
ReleaseHeaders(end_of_stream) ==
    upstream' = IF end_of_stream THEN "complete" ELSE "headers"

\* validate_request is off: nothing is looked at and nothing is stored.
SkipRequestHeaders(end_of_stream) ==
    /\ ~cfg.validate_request
    /\ ReleaseHeaders(end_of_stream)
    /\ UNCHANGED <<current_operation, context, request_errors, validation_errors,
                   metadata, modsec_metadata, modsec_metrics, scan, reply>>

\* A pseudo header is missing, the path is too long or no operation matches.
RejectUnrouted ==
    /\ cfg.validate_request
    /\ \E status \in RoutingReply : ReplyWith(status)
    /\ request_errors' = <<>>
    /\ UNCHANGED <<current_operation, context, upstream, validation_errors,
                   metadata, modsec_metadata, modsec_metrics, scan>>

\* A path parameter is not of its type: early failure, before anything is stored.
RejectPathTypes(h) ==
    /\ cfg.validate_request /\ cfg.fail_on_request_error
    /\ ~h.path_types
    /\ request_errors' = <<"path_types">>
    /\ Count("request", request_errors')
    /\ SetMetadata("request", request_errors')
    /\ ReplyWith("400")
    /\ UNCHANGED <<current_operation, context, upstream,
                   modsec_metadata, modsec_metrics, scan>>

\* The query string is too long: the errors so far are counted, not reported.
RejectLongQuery(h) ==
    /\ cfg.validate_request
    /\ h.path_types \/ ~cfg.fail_on_request_error
    /\ ~h.query_fits
    /\ request_errors' = PathErrors(h)
    /\ Count("request", request_errors')
    /\ ReplyWith("400")
    /\ UNCHANGED <<current_operation, context, upstream, metadata,
                   modsec_metadata, modsec_metrics, scan>>

\* Faulty variant: the operation is stored, the context for later scans is not.
CheckHeadOnly(op, h) ==
    /\ cfg.validate_request
    /\ h.path_types \/ ~cfg.fail_on_request_error
    /\ h.query_fits
    /\ current_operation' = op
    /\ context' = FALSE

\* The head was checked to its end: operation and scan context are stored.
CheckHead(op, h) ==
    /\ cfg.validate_request
    /\ h.path_types \/ ~cfg.fail_on_request_error
    /\ h.query_fits
    /\ current_operation' = op
    /\ context' = TRUE

RejectHead(op, h) ==
    /\ CheckHead(op, h)
    /\ cfg.fail_on_request_error /\ HeaderErrors(h) # <<>>
    /\ request_errors' = HeaderErrors(h)
    /\ Count("request", request_errors')
    /\ SetMetadata("request", request_errors')
    /\ ReplyWith("400")
    /\ UNCHANGED <<upstream, modsec_metadata, modsec_metrics, scan>>

\* Faulty variant: the headers are released although a body has to be judged.
WaitNever(op, end_of_stream) == FALSE
\* Faulty variant: the callback waits for a body that will not come.
WaitAlways(op, end_of_stream) == op.request_body # "none"

\* StopIteration without a reply: the headers are held until the body arrives.
WaitForBody(op, end_of_stream) == op.request_body # "none" /\ ~end_of_stream

\* A required body that does not come, found only once the scan let it pass.
MissingBody(op, end_of_stream) == op.request_body = "required" /\ end_of_stream

AcceptHead(op, h, end_of_stream, d) ==
    LET errors      == HeaderErrors(h)
        disposition == ScanDisposition("request", d)
        missing     == disposition = "pass" /\ MissingBody(op, end_of_stream)
    IN
    /\ CheckHead(op, h)
    /\ errors = <<>> \/ ~cfg.fail_on_request_error
    /\ RecordScan("request", TRUE, FALSE, d)
    /\ request_errors' = errors \o ErrorIf(missing, "missing_body")
    /\ Count("request", request_errors')
    /\ SetMetadata("request", IF cfg.fail_on_request_error THEN request_errors' ELSE errors)
    /\ \/ /\ disposition # "pass"
          /\ ReplyWith(disposition) /\ UNCHANGED upstream
       \/ /\ missing /\ cfg.fail_on_request_error
          /\ ReplyWith("400") /\ UNCHANGED upstream
       \/ /\ disposition = "pass" /\ ~(missing /\ cfg.fail_on_request_error)
          /\ \/ WaitForBody(op, end_of_stream) /\ UNCHANGED <<upstream, reply>>
             \/ ~WaitForBody(op, end_of_stream) /\ Mocked(op)
                /\ ReplyWith("mock") /\ UNCHANGED upstream
             \/ ~WaitForBody(op, end_of_stream) /\ ~Mocked(op)
                /\ ReleaseHeaders(end_of_stream) /\ UNCHANGED reply

OnRequestHeaders(end_of_stream) ==
    /\ stream = "new"
    /\ Delivered(end_of_stream)
    /\ \/ SkipRequestHeaders(end_of_stream)
       \/ RejectUnrouted
       \/ \E h \in Heads : RejectPathTypes(h) \/ RejectLongQuery(h)
       \/ \E op \in Operations, h \in Heads : RejectHead(op, h)
       \/ \E op \in Operations, h \in Heads :
             /\ CheckHead(op, h)
             /\ \E d \in ScanAnswers(cfg.scan_request /\ end_of_stream) :
                   AcceptHead(op, h, end_of_stream, d)
    /\ UNCHANGED <<cfg, responseSide>>

-----------------------------------------------------------------------------
\* on_request_body with end_of_stream.  Without it the callback only asks the
\* host to keep buffering.

\* get_buffered_request_body answers None: the callback returns Continue.
PassUnbufferedBody ==
    /\ stream' = "unbuffered" /\ upstream' = "complete"
    /\ UNCHANGED <<current_operation, context, request_errors, validation_errors,
                   metadata, modsec_metadata, modsec_metrics, scan, reply>>

RejectLargeBody ==
    /\ stream' = "body" /\ ReplyWith("413")
    /\ UNCHANGED <<current_operation, context, request_errors, upstream,
                   validation_errors, metadata, modsec_metadata, modsec_metrics, scan>>

\* The scan decides before the body is validated.
StopBodyByScan(d) ==
    /\ ScanDisposition("request", d) # "pass"
    /\ stream' = "body" /\ RecordScan("request", context, TRUE, d)
    /\ ReplyWith(ScanDisposition("request", d))
    /\ UNCHANGED <<current_operation, context, request_errors, upstream,
                   validation_errors, metadata>>

\* The error validate_body_with_schema adds.
BodyErrors(empty, check) ==
    ErrorIf(~RequestBodyValid(current_operation, empty, check), "body")

\* Faulty variant: the verdict is that of the body alone.
ReportBodyOnly(found) == SetMetadata("request", found)

\* The verdict covers the errors of the head as well.
ReportBody(found) == SetMetadata("request", request_errors \o found)

\* Faulty variant: pass-through whatever fail_on_request_error says.
BodyFailsNever(found) == FALSE

\* Only an error of the body itself fails the request here.
BodyFails(found) == found # <<>> /\ cfg.fail_on_request_error

JudgeBody(empty, check, d) ==
    LET found == BodyErrors(empty, check) IN
    /\ ScanDisposition("request", d) = "pass"
    /\ current_operation # None
    /\ stream' = "body" /\ RecordScan("request", context, TRUE, d)
    /\ request_errors' = request_errors \o found
    /\ Count("request", found)
    /\ ReportBody(found)
    /\ \/ BodyFails(found) /\ ReplyWith("400") /\ UNCHANGED upstream
       \/ ~BodyFails(found) /\ Mocked(current_operation)
          /\ ReplyWith("mock") /\ UNCHANGED upstream
       \/ ~BodyFails(found) /\ ~Mocked(current_operation)
          /\ upstream' = "complete" /\ UNCHANGED reply
    /\ UNCHANGED <<current_operation, context>>

\* No operation was stored: the body is scanned, not validated.
PassBodyUnvalidated(d) ==
    /\ ScanDisposition("request", d) = "pass"
    /\ current_operation = None
    /\ stream' = "body" /\ RecordScan("request", context, TRUE, d)
    /\ upstream' = "complete"
    /\ UNCHANGED <<current_operation, context, request_errors, validation_errors,
                   metadata, reply>>

OnRequestBody ==
    /\ stream = "open" /\ ~StreamOver
    /\ \/ PassUnbufferedBody
       \/ RejectLargeBody
       \/ \E d \in ScanAnswers(cfg.scan_request) :
             \/ StopBodyByScan(d)
             \/ \E empty \in BOOLEAN, check \in BodyChecks : JudgeBody(empty, check, d)
             \/ PassBodyUnvalidated(d)
    /\ UNCHANGED <<cfg, responseSide>>

\* The filter has no on_request_trailers: the host's default releases the
\* request, so a body that ends in trailers meets no end_of_stream callback.
RequestTrailers ==
    /\ stream = "open" /\ ~StreamOver
    /\ stream' = "trailers" /\ upstream' = "complete"
    /\ UNCHANGED <<cfg, current_operation, context, request_errors, validation_errors,
                   metadata, modsec_metadata, modsec_metrics, scan, reply, responseSide>>

-----------------------------------------------------------------------------
\* on_response_headers

SkipResponseHeaders(end_of_stream) ==
    /\ ~cfg.validate_response
    /\ response' = IF end_of_stream THEN "complete" ELSE "open"
    /\ UNCHANGED <<current_response_operation, response_errors, validation_errors, metadata>>

\* Faulty variant: a response with a body is released before it was judged.
HoldResponseNever(end_of_stream) == FALSE

\* StopAllIterationAndBuffer, only when there is an operation to validate against.
HoldResponse(end_of_stream) == ~end_of_stream /\ current_operation # None

\* The error validate_response_headers adds.
ResponseHeaderErrors(valid) == ErrorIf(~valid, "headers")

JudgeResponseHeaders(end_of_stream, valid) ==
    LET found == ResponseHeaderErrors(valid) IN
    /\ cfg.validate_response
    /\ current_operation = None => valid
    /\ current_response_operation' = current_operation
    /\ response_errors' = found
    /\ Count("response", found)
    /\ response' = IF HoldResponse(end_of_stream) THEN "held"
                   ELSE IF end_of_stream THEN "complete" ELSE "open"
    /\ IF end_of_stream THEN SetMetadata("response", found) ELSE UNCHANGED metadata

OnResponseHeaders(end_of_stream) ==
    /\ upstream # "none" /\ response = "none" /\ ~StreamOver
    /\ \/ SkipResponseHeaders(end_of_stream)
       \/ \E valid \in BOOLEAN : JudgeResponseHeaders(end_of_stream, valid)
    /\ UNCHANGED <<cfg, requestSide, modsec_metadata, modsec_metrics, scan, reply>>

-----------------------------------------------------------------------------
\* on_response_body with end_of_stream

SkipResponseBody ==
    /\ ~cfg.validate_response
    /\ response' = "complete"
    /\ UNCHANGED <<response_errors, validation_errors, metadata, modsec_metadata,
                   modsec_metrics, scan, reply>>

\* get_buffered_response_body answers None.
PassUnbufferedResponse ==
    /\ cfg.validate_response
    /\ response' = "complete"
    /\ UNCHANGED <<response_errors, validation_errors, metadata, modsec_metadata,
                   modsec_metrics, scan, reply>>

StopResponseByScan(d) ==
    /\ cfg.validate_response
    /\ ScanDisposition("response", d) # "pass"
    /\ RecordScan("response", context, TRUE, d)
    /\ ReplyWith(ScanDisposition("response", d))
    /\ UNCHANGED <<response, response_errors, validation_errors, metadata>>

ResponseErrors(found) == response_errors \o found

\* The error validate_response_body_with_schema adds, when there is an operation.
ResponseBodyErrors(check) ==
    ErrorIf(current_response_operation # None /\ ~SchemaValid(check), "body")

\* Errors are recorded; the response goes on whatever fail_on_response_error says.
JudgeResponseBody(check, d) ==
    LET found == ResponseBodyErrors(check) IN
    /\ cfg.validate_response
    /\ ScanDisposition("response", d) = "pass"
    /\ RecordScan("response", context, TRUE, d)
    /\ response_errors' = ResponseErrors(found)
    /\ Count("response", found)
    /\ SetMetadata("response", response_errors')
    /\ response' = "complete"
    /\ UNCHANGED reply

OnResponseBody ==
    /\ response \in {"held", "open"} /\ ~StreamOver
    /\ \/ SkipResponseBody
       \/ PassUnbufferedResponse
       \/ \E d \in ScanAnswers(cfg.scan_response) :
             \/ StopResponseByScan(d)
             \/ \E check \in BodyChecks : JudgeResponseBody(check, d)
    /\ UNCHANGED <<cfg, requestSide, current_response_operation>>

-----------------------------------------------------------------------------

\* The stream is over: the host makes no further callback and drops the filter.
Finished == StreamOver /\ UNCHANGED vars

Next ==
    \/ \E end_of_stream \in BOOLEAN :
          OnRequestHeaders(end_of_stream) \/ OnResponseHeaders(end_of_stream)
    \/ OnRequestBody
    \/ RequestTrailers
    \/ OnResponseBody
    \/ Finished

Spec == Init /\ [][Next]_vars

\* The host keeps delivering callbacks until the stream is over.
FairSpec == Spec /\ WF_vars(Next)

-----------------------------------------------------------------------------
\* Type invariant

ModsecMetrics == [scans : Nat, timeouts : Nat, blocked : Nat, alerts : Nat]
ScanRecord == [context : BOOLEAN, body : BOOLEAN, result : DualScanResult \cup {NoScan}]

\* Every variable has its type: the fields of OpenApiFilter, the metadata and
\* counters it writes, and the host's view of the stream.
TypeOK ==
    /\ cfg \in Configs
    /\ current_operation \in Operations \cup {None}
    /\ current_response_operation \in Operations \cup {None}
    /\ context \in BOOLEAN
    /\ request_errors \in Seq(RequestError)
    /\ response_errors \in Seq(ResponseError)
    /\ validation_errors \in [Sides -> Nat]
    /\ metadata \in [Sides -> [verdict : Verdict, error_count : Nat]]
    /\ modsec_metadata \in
          [Sides -> [verdict : ModsecVerdict \cup {"unset"}, timed_out : BOOLEAN]]
    /\ modsec_metrics \in [Sides -> ModsecMetrics]
    /\ scan \in [Sides -> ScanRecord]
    /\ stream \in {"new", "headers", "open", "body", "unbuffered", "trailers"}
    /\ upstream \in {"none", "headers", "complete"}
    /\ response \in {"none", "held", "open", "complete"}
    /\ reply \in [status : Reply, started : BOOLEAN] \cup {NoReply}

-----------------------------------------------------------------------------
\* Safety

\* The filter saw the whole request: it ended with its headers, or its body
\* reached the end_of_stream callback in the host's buffer.
SeenWhole == stream \in {"headers", "body"}

\* With fail_on_request_error no request with a known error reaches the
\* upstream whole, whichever callback found the error; nor does one that lacks
\* the body its operation requires.
NoInvalidRequestForwarded ==
    upstream = "complete" /\ SeenWhole /\ cfg.validate_request /\ cfg.fail_on_request_error
        => /\ request_errors = <<>>
           /\ current_operation # None
           /\ stream = "headers" => current_operation.request_body # "required"

\* A request that was to be scanned reaches the upstream whole only after a scan
\* of all of it, body included, that did not ask to stop it.  (Without
\* validate_request a request without a body is not scanned.)
NoUnscannedRequestForwarded ==
    LET s == scan["request"] IN
    upstream = "complete" /\ cfg.scan_request
    /\ (stream = "body" \/ (stream = "headers" /\ cfg.validate_request))
        => /\ s.result # NoScan
           /\ s.body <=> (stream = "body")
           /\ ~ShouldBlock(s.result, cfg.request_action)
           /\ cfg.timeout_action = "block" => ~AnyTimeout(s.result)

\* While the body of a request is outstanding its headers are held, unless its
\* operation has no request body: then the body is judged behind their back.
HeadersHeldForBody ==
    cfg.validate_request /\ stream = "open" /\ upstream # "none"
        => current_operation.request_body = "none"

\* Likewise a response is never begun downstream before its body was judged,
\* as long as requests are validated too (which is what finds the operation).
ResponseHeldWhileJudged ==
    cfg.validate_request /\ cfg.validate_response => response # "open"

\* A local reply meets a response already begun only where headers were released
\* before the body was judged: never for an operation with a request body.
ReplyBeforeResponse ==
    reply.started => \/ ~cfg.validate_request
                     \/ current_operation.request_body = "none" /\ stream = "body"

\* The error on_request_headers finds after it has written the metadata is
\* missing from it in pass-through mode: the missing body, the last one found.
Reported(errors) ==
    IF errors # <<>> /\ errors[Len(errors)] = "missing_body"
    THEN SubSeq(errors, 1, Len(errors) - 1) ELSE errors

\* Metadata agrees with the errors: the verdict of a request that goes on tells
\* every error but a missing body, that of one refused with 400 tells them all.
VerdictTellsErrors ==
    /\ cfg.validate_request /\ upstream # "none"
          => metadata["request"] = Report(Reported(request_errors))
    /\ reply.status = "400" /\ context
          => metadata["request"] = Report(request_errors) /\ request_errors # <<>>

\* The counters agree with what was found, across callbacks: every error is
\* counted once, and each side of a stream is scanned at most once.
CountersTellStream ==
    /\ validation_errors["request"] = Len(request_errors)
    /\ validation_errors["response"] = Len(response_errors)
    /\ \A side \in Sides :
          modsec_metrics[side].scans = IF scan[side].result = NoScan THEN 0 ELSE 1

\* What the WAF metadata calls blocked has been stopped, and a 403 is always
\* accounted for: metadata, counter and reply tell the same story.
BlockedMeansStopped ==
    /\ \A side \in Sides :
          /\ modsec_metadata[side].verdict = "blocked" <=> modsec_metrics[side].blocked = 1
          /\ modsec_metadata[side].verdict = "blocked" => reply.status \in {"403", "503"}
    /\ reply.status = "403" => \E side \in Sides : modsec_metadata[side].verdict = "blocked"

\* Scans are made in the context of the stream's own request exactly when
\* requests are validated; otherwise they see "GET /" without headers.
ScanContext ==
    \A side \in Sides :
        scan[side].result # NoScan => (scan[side].context <=> cfg.validate_request)

\* A verdict never recovers: no later callback turns an invalid request valid
\* again or forgets an error that was reported.
VerdictNeverRecovers ==
    [][metadata["request"].verdict = "invalid"
          => /\ metadata'["request"].verdict = "invalid"
             /\ metadata'["request"].error_count >= metadata["request"].error_count]_vars

-----------------------------------------------------------------------------
\* Liveness

\* The filter never holds a stream for a callback that will not come: every
\* stream ends with a response or a local reply.
StreamEnds == <>StreamOver

-----------------------------------------------------------------------------
\* What a document says of the filter and the code does not do.

\* docs/architecture.md:297: fail-open or fail-closed is the "Behavior on timeout or
\* scan error".  A request whose scan failed does not go on where the filter is told
\* to block (timeout_action).
FailedScansBlocked ==
    LET d == scan["request"].result IN
    upstream = "complete" /\ cfg.timeout_action = "block" /\ d # NoScan
        => "error" \notin {d.primary, d.secondary}

=============================================================================
