---------------------------- MODULE FilterProofs ----------------------------
(***************************************************************************)
(* Theorems about Filter, for every set of configurations, operations and  *)
(* request heads.                                                          *)
(***************************************************************************)
EXTENDS Filter, TLAPS

-----------------------------------------------------------------------------
\* Lemmas about the helpers.

\* ErrorIf yields no error or the one it is given.
LEMMA ErrorIfType ==
    ASSUME NEW S, NEW e \in S, NEW failed \in BOOLEAN
    PROVE  /\ ErrorIf(failed, e) \in Seq(S)
           /\ Len(ErrorIf(failed, e)) = IF failed THEN 1 ELSE 0
           /\ ErrorIf(failed, e) = <<>> <=> ~failed
BY DEF ErrorIf

\* The errors of a request head are a sequence of request errors.
LEMMA HeaderErrorsType ==
    ASSUME NEW h \in Heads
    PROVE  PathErrors(h) \in Seq(RequestError) /\ HeaderErrors(h) \in Seq(RequestError)
<1>1. h \in HeaderChecks
  BY FilterAssumption
<1>2. /\ h.path_types \in BOOLEAN /\ h.path \in BOOLEAN
      /\ h.query \in BOOLEAN /\ h.headers \in BOOLEAN
  BY <1>1 DEF HeaderChecks
<1>3. /\ ErrorIf(~h.path_types, "path_types") \in Seq(RequestError)
      /\ ErrorIf(~h.path, "path") \in Seq(RequestError)
      /\ ErrorIf(~h.query, "query") \in Seq(RequestError)
      /\ ErrorIf(~h.headers, "headers") \in Seq(RequestError)
  BY <1>2, ErrorIfType DEF RequestError
<1> QED
  BY <1>3 DEF PathErrors, HeaderErrors

\* A report on any errors is a verdict and a number.
LEMMA ReportType ==
    ASSUME NEW S, NEW errors \in Seq(S)
    PROVE  Report(errors) \in [verdict : Verdict, error_count : Nat]
BY DEF Report, Verdict

\* A scanner answers with a result of its kind, and always when it is enabled.
LEMMA ScanAnswersType ==
    ASSUME NEW enabled \in BOOLEAN, NEW d \in ScanAnswers(enabled)
    PROVE  /\ d \in DualScanResult \cup {NoScan}
           /\ enabled <=> d # NoScan
<1>1. CASE enabled
  <2>1. d \in DualScanResult
    BY <1>1 DEF ScanAnswers, SingleAnswers, DualAnswers
  <2>2. d.primary # NoResult
    BY <2>1 DEF DualScanResult, ScanResult, NoResult
  <2> QED
    BY <1>1, <2>1, <2>2 DEF NoScan
<1>2. CASE ~enabled
  BY <1>2 DEF ScanAnswers
<1> QED
  BY <1>1, <1>2

ScanTypeOK ==
    /\ modsec_metadata \in
          [Sides -> [verdict : ModsecVerdict \cup {"unset"}, timed_out : BOOLEAN]]
    /\ modsec_metrics \in [Sides -> ModsecMetrics]
    /\ scan \in [Sides -> ScanRecord]

\* Recording a scan keeps the types of what it writes.
LEMMA RecordScanType ==
    ASSUME ScanTypeOK, NEW side \in Sides, NEW ctx \in BOOLEAN, NEW body \in BOOLEAN,
           NEW d \in DualScanResult \cup {NoScan}, RecordScan(side, ctx, body, d)
    PROVE  ScanTypeOK'
<1>1. CASE d = NoScan
  BY <1>1 DEF RecordScan, ScanTypeOK
<1>2. CASE d # NoScan
  <2>1. BuildMetadata(d, Action(side)) \in
           [verdict : ModsecVerdict \cup {"unset"}, timed_out : BOOLEAN]
    BY DEF BuildMetadata, ModsecVerdict, TimedOut
  <2>2. CountScan(modsec_metrics[side], d, Action(side)) \in ModsecMetrics
    BY DEF CountScan, ModsecMetrics, ScanTypeOK
  <2>3. [context |-> ctx, body |-> body, result |-> d] \in ScanRecord
    BY DEF ScanRecord
  <2> QED
    BY <1>2, <2>1, <2>2, <2>3 DEF RecordScan, ScanTypeOK
<1> QED
  BY <1>1, <1>2

\* Counting errors keeps the type of the counters.
LEMMA CountType ==
    ASSUME NEW S, NEW errors \in Seq(S), NEW side \in Sides,
           validation_errors \in [Sides -> Nat], Count(side, errors)
    PROVE  validation_errors' \in [Sides -> Nat]
<1>1. Len(errors) \in Nat
  OBVIOUS
<1> QED
  BY <1>1 DEF Count

\* Reporting errors keeps the type of the metadata.
LEMMA SetMetadataType ==
    ASSUME NEW S, NEW errors \in Seq(S), NEW side \in Sides,
           metadata \in [Sides -> [verdict : Verdict, error_count : Nat]],
           SetMetadata(side, errors)
    PROVE  metadata' \in [Sides -> [verdict : Verdict, error_count : Nat]]
<1>1. Report(errors) \in [verdict : Verdict, error_count : Nat]
  BY ReportType
<1> QED
  BY <1>1 DEF SetMetadata

\* A reply has the type of a reply.
LEMMA ReplyType ==
    ASSUME NEW status \in Reply, ReplyWith(status)
    PROVE  reply' \in [status : Reply, started : BOOLEAN] \cup {NoReply}
BY DEF ReplyWith

-----------------------------------------------------------------------------
\* Type correctness.

RequestTypeOK ==
    /\ current_operation \in Operations \cup {None}
    /\ context \in BOOLEAN
    /\ request_errors \in Seq(RequestError)
    /\ stream \in {"new", "headers", "open", "body", "unbuffered", "trailers"}
    /\ upstream \in {"none", "headers", "complete"}

ResponseTypeOK ==
    /\ current_response_operation \in Operations \cup {None}
    /\ response_errors \in Seq(ResponseError)
    /\ response \in {"none", "held", "open", "complete"}

OutputTypeOK ==
    /\ validation_errors \in [Sides -> Nat]
    /\ metadata \in [Sides -> [verdict : Verdict, error_count : Nat]]
    /\ ScanTypeOK
    /\ reply \in [status : Reply, started : BOOLEAN] \cup {NoReply}

LEMMA TypeParts ==
    /\ TypeOK <=> cfg \in Configs /\ RequestTypeOK /\ ResponseTypeOK /\ OutputTypeOK
    /\ TypeOK' <=> cfg' \in Configs /\ RequestTypeOK' /\ ResponseTypeOK' /\ OutputTypeOK'
BY DEF TypeOK, RequestTypeOK, ResponseTypeOK, OutputTypeOK, ScanTypeOK

USE DEF Sides

LEMMA InitType == Init => TypeOK
<1> SUFFICES ASSUME Init PROVE TypeOK
  OBVIOUS
<1>1. /\ cfg \in Configs
      /\ RequestTypeOK
      /\ ResponseTypeOK
  <2>1. <<>> \in Seq(RequestError) /\ <<>> \in Seq(ResponseError)
    OBVIOUS
  <2> QED
    BY <2>1 DEF Init, RequestTypeOK, ResponseTypeOK
<1>2. ScanTypeOK
  BY DEF Init, ScanTypeOK, NoModsecMetadata, NoScans, NotScanned, ModsecMetrics, ScanRecord
<1>3. OutputTypeOK
  BY <1>2 DEF Init, OutputTypeOK, Verdict, NoVerdict
<1> QED
  BY <1>1, <1>3, TypeParts

LEMMA RequestHeadersType ==
    ASSUME TypeOK, NEW end_of_stream \in BOOLEAN, OnRequestHeaders(end_of_stream)
    PROVE  TypeOK'
<1> USE TypeParts
<1>1. cfg' = cfg /\ ResponseTypeOK'
  BY DEF OnRequestHeaders, ResponseTypeOK, responseSide
<1>2. stream' \in {"headers", "open"}
  BY DEF OnRequestHeaders, Delivered
<1>3. SUFFICES RequestTypeOK' /\ OutputTypeOK'
  BY <1>1, TypeParts
<1>4. CASE SkipRequestHeaders(end_of_stream)
  BY <1>2, <1>4
  DEF SkipRequestHeaders, ReleaseHeaders, RequestTypeOK, OutputTypeOK, ScanTypeOK
<1>5. CASE RejectUnrouted
  <2>1. reply' \in [status : Reply, started : BOOLEAN] \cup {NoReply}
    BY <1>5, ReplyType DEF RejectUnrouted, Reply
  <2> QED
    BY <1>2, <1>5, <2>1 DEF RejectUnrouted, RequestTypeOK, OutputTypeOK, ScanTypeOK
<1>6. ASSUME NEW h \in Heads, RejectPathTypes(h)
      PROVE  RequestTypeOK' /\ OutputTypeOK'
  <2>1. request_errors' \in Seq(RequestError)
    BY <1>6 DEF RejectPathTypes, RequestError
  <2>2. reply' \in [status : Reply, started : BOOLEAN] \cup {NoReply}
    BY <1>6, ReplyType DEF RejectPathTypes, Reply, RoutingReply
  <2>3. /\ validation_errors' \in [Sides -> Nat]
        /\ metadata' \in [Sides -> [verdict : Verdict, error_count : Nat]]
    BY <1>6, <2>1, CountType, SetMetadataType DEF RejectPathTypes, OutputTypeOK
  <2> QED
    BY <1>2, <1>6, <2>1, <2>2, <2>3 DEF RejectPathTypes, RequestTypeOK, OutputTypeOK, ScanTypeOK
<1>7. ASSUME NEW h \in Heads, RejectLongQuery(h)
      PROVE  RequestTypeOK' /\ OutputTypeOK'
  <2>1. request_errors' \in Seq(RequestError)
    BY <1>7, HeaderErrorsType DEF RejectLongQuery
  <2>2. reply' \in [status : Reply, started : BOOLEAN] \cup {NoReply}
    BY <1>7, ReplyType DEF RejectLongQuery, Reply, RoutingReply
  <2>3. validation_errors' \in [Sides -> Nat]
    BY <1>7, <2>1, CountType, SetMetadataType DEF RejectLongQuery, OutputTypeOK
  <2> QED
    BY <1>2, <1>7, <2>1, <2>2, <2>3 DEF RejectLongQuery, RequestTypeOK, OutputTypeOK, ScanTypeOK
<1>8. ASSUME NEW op \in Operations, NEW h \in Heads, RejectHead(op, h)
      PROVE  RequestTypeOK' /\ OutputTypeOK'
  <2>1. request_errors' \in Seq(RequestError)
    BY <1>8, HeaderErrorsType DEF RejectHead
  <2>2. reply' \in [status : Reply, started : BOOLEAN] \cup {NoReply}
    BY <1>8, ReplyType DEF RejectHead, Reply, RoutingReply
  <2>3. /\ validation_errors' \in [Sides -> Nat]
        /\ metadata' \in [Sides -> [verdict : Verdict, error_count : Nat]]
    BY <1>8, <2>1, CountType, SetMetadataType DEF RejectHead, OutputTypeOK
  <2> QED
    BY <1>2, <1>8, <2>1, <2>2, <2>3
    DEF RejectHead, CheckHead, RequestTypeOK, OutputTypeOK, ScanTypeOK
<1>9. ASSUME NEW op \in Operations, NEW h \in Heads,
             NEW d \in ScanAnswers(cfg.scan_request /\ end_of_stream),
             AcceptHead(op, h, end_of_stream, d)
      PROVE  RequestTypeOK' /\ OutputTypeOK'
  <2> DEFINE errors == HeaderErrors(h)
             disposition == ScanDisposition("request", d)
             missing == disposition = "pass" /\ MissingBody(op, end_of_stream)
  <2>1. errors \in Seq(RequestError)
    BY HeaderErrorsType
  <2>2. request_errors' \in Seq(RequestError)
    <3>1. missing \in BOOLEAN
      OBVIOUS
    <3>2. ErrorIf(missing, "missing_body") \in Seq(RequestError)
      BY <3>1, ErrorIfType DEF RequestError
    <3>3. request_errors' = errors \o ErrorIf(missing, "missing_body")
      BY <1>9 DEF AcceptHead
    <3> QED
      BY <2>1, <3>2, <3>3
  <2>3. ScanTypeOK'
    <3>1. d \in DualScanResult \cup {NoScan}
      BY ScanAnswersType
    <3> QED
      BY <1>9, <3>1, RecordScanType DEF AcceptHead, OutputTypeOK
  <2>4. validation_errors' \in [Sides -> Nat]
    BY <1>9, <2>2, CountType, SetMetadataType DEF AcceptHead, OutputTypeOK
  <2>5. metadata' \in [Sides -> [verdict : Verdict, error_count : Nat]]
    BY <1>9, <2>1, <2>2, CountType, SetMetadataType DEF AcceptHead, OutputTypeOK
  <2>6. reply' \in [status : Reply, started : BOOLEAN] \cup {NoReply}
    <3>1. disposition # "pass" => disposition \in Reply
      BY DEF ScanDisposition, Reply
    <3> QED
      BY <1>9, <3>1, ReplyType DEF AcceptHead, Reply, RoutingReply, OutputTypeOK
  <2>7. upstream' \in {"none", "headers", "complete"}
    BY <1>9 DEF AcceptHead, ReleaseHeaders, RequestTypeOK
  <2>8. current_operation' \in Operations \cup {None} /\ context' \in BOOLEAN
    BY <1>9 DEF AcceptHead, CheckHead
  <2> QED
    BY <1>2, <2>2, <2>3, <2>4, <2>5, <2>6, <2>7, <2>8 DEF RequestTypeOK, OutputTypeOK
<1> QED
  BY <1>4, <1>5, <1>6, <1>7, <1>8, <1>9 DEF OnRequestHeaders

LEMMA RequestBodyType ==
    ASSUME TypeOK, OnRequestBody
    PROVE  TypeOK'
<1> USE TypeParts
<1>1. cfg' = cfg /\ ResponseTypeOK'
  BY DEF OnRequestBody, ResponseTypeOK, responseSide
<1>2. SUFFICES RequestTypeOK' /\ OutputTypeOK'
  BY <1>1, TypeParts
<1>3. CASE PassUnbufferedBody
  BY <1>3 DEF PassUnbufferedBody, RequestTypeOK, OutputTypeOK, ScanTypeOK
<1>4. CASE RejectLargeBody
  <2>1. reply' \in [status : Reply, started : BOOLEAN] \cup {NoReply}
    BY <1>4, ReplyType DEF RejectLargeBody, Reply
  <2> QED
    BY <1>4, <2>1 DEF RejectLargeBody, RequestTypeOK, OutputTypeOK, ScanTypeOK
<1>5. ASSUME NEW d \in ScanAnswers(cfg.scan_request), RecordScan("request", context, TRUE, d)
      PROVE  ScanTypeOK'
  <2>1. d \in DualScanResult \cup {NoScan}
    <3>1. cfg.scan_request \in BOOLEAN
      BY FilterAssumption DEF TypeOK, Config
    <3> QED
      BY <3>1, ScanAnswersType
  <2> QED
    BY <1>5, <2>1, RecordScanType DEF RequestTypeOK, OutputTypeOK
<1>6. ASSUME NEW d \in ScanAnswers(cfg.scan_request), StopBodyByScan(d)
      PROVE  RequestTypeOK' /\ OutputTypeOK'
  <2>1. reply' \in [status : Reply, started : BOOLEAN] \cup {NoReply}
    <3>1. ScanDisposition("request", d) \in Reply
      BY <1>6 DEF StopBodyByScan, ScanDisposition, Reply
    <3> QED
      BY <1>6, <3>1, ReplyType DEF StopBodyByScan
  <2>2. ScanTypeOK'
    BY <1>5, <1>6 DEF StopBodyByScan
  <2> QED
    BY <1>6, <2>1, <2>2 DEF StopBodyByScan, RequestTypeOK, OutputTypeOK
<1>7. ASSUME NEW d \in ScanAnswers(cfg.scan_request), NEW empty \in BOOLEAN,
             NEW check \in BodyChecks, JudgeBody(empty, check, d)
      PROVE  RequestTypeOK' /\ OutputTypeOK'
  <2> DEFINE found == BodyErrors(empty, check)
  <2>1. found \in Seq(RequestError)
    <3>1. (~RequestBodyValid(current_operation, empty, check)) \in BOOLEAN
      BY DEF RequestBodyValid
    <3> QED
      BY <3>1, ErrorIfType DEF BodyErrors, RequestError
  <2> HIDE DEF found
  <2>2. request_errors \o found \in Seq(RequestError)
    BY <2>1 DEF RequestTypeOK
  <2>3. ScanTypeOK'
    BY <1>5, <1>7 DEF JudgeBody
  <2>4. validation_errors' \in [Sides -> Nat]
    BY <1>7, <2>1, CountType DEF JudgeBody, OutputTypeOK, found
  <2>5. metadata' \in [Sides -> [verdict : Verdict, error_count : Nat]]
    BY <1>7, <2>2, SetMetadataType DEF JudgeBody, ReportBody, OutputTypeOK, found
  <2>6. reply' \in [status : Reply, started : BOOLEAN] \cup {NoReply}
    BY <1>7, ReplyType DEF JudgeBody, Reply, RoutingReply, OutputTypeOK
  <2> QED
    BY <1>7, <2>2, <2>3, <2>4, <2>5, <2>6 DEF JudgeBody, RequestTypeOK, OutputTypeOK, found
<1>8. ASSUME NEW d \in ScanAnswers(cfg.scan_request), PassBodyUnvalidated(d)
      PROVE  RequestTypeOK' /\ OutputTypeOK'
  <2>1. ScanTypeOK'
    BY <1>5, <1>8 DEF PassBodyUnvalidated
  <2> QED
    BY <1>8, <2>1 DEF PassBodyUnvalidated, RequestTypeOK, OutputTypeOK
<1> QED
  BY <1>3, <1>4, <1>6, <1>7, <1>8 DEF OnRequestBody

LEMMA TrailersType == TypeOK /\ RequestTrailers => TypeOK'
BY TypeParts DEF RequestTrailers, RequestTypeOK, ResponseTypeOK, OutputTypeOK, ScanTypeOK,
                 responseSide

LEMMA ResponseHeadersType ==
    ASSUME TypeOK, NEW end_of_stream \in BOOLEAN, OnResponseHeaders(end_of_stream)
    PROVE  TypeOK'
<1> USE TypeParts
<1>1. cfg' = cfg /\ RequestTypeOK' /\ ScanTypeOK' /\ reply' = reply
  BY DEF OnResponseHeaders, RequestTypeOK, requestSide, OutputTypeOK, ScanTypeOK
<1>2. CASE SkipResponseHeaders(end_of_stream)
  BY <1>1, <1>2, TypeParts DEF SkipResponseHeaders, ResponseTypeOK, OutputTypeOK
<1>3. ASSUME NEW valid \in BOOLEAN, JudgeResponseHeaders(end_of_stream, valid)
      PROVE  TypeOK'
  <2> DEFINE found == ResponseHeaderErrors(valid)
  <2>1. found \in Seq(ResponseError)
    BY ErrorIfType DEF ResponseError, ResponseHeaderErrors
  <2> HIDE DEF found
  <2>2. validation_errors' \in [Sides -> Nat]
    BY <1>3, <2>1, CountType DEF JudgeResponseHeaders, OutputTypeOK, found
  <2>3. metadata' \in [Sides -> [verdict : Verdict, error_count : Nat]]
    BY <1>3, <2>1, SetMetadataType DEF JudgeResponseHeaders, OutputTypeOK, found
  <2>4. ResponseTypeOK'
    BY <1>1, <1>3, <2>1 DEF JudgeResponseHeaders, ResponseTypeOK, RequestTypeOK, found
  <2> QED
    BY <1>1, <2>2, <2>3, <2>4, TypeParts DEF OutputTypeOK
<1> QED
  BY <1>2, <1>3 DEF OnResponseHeaders

LEMMA ResponseBodyType ==
    ASSUME TypeOK, OnResponseBody
    PROVE  TypeOK'
<1> USE TypeParts
<1>1. cfg' = cfg /\ RequestTypeOK' /\ current_response_operation' = current_response_operation
  BY DEF OnResponseBody, RequestTypeOK, requestSide
<1>2. SUFFICES ResponseTypeOK' /\ OutputTypeOK'
  BY <1>1, TypeParts
<1>3. CASE SkipResponseBody
  BY <1>1, <1>3 DEF SkipResponseBody, ResponseTypeOK, OutputTypeOK, ScanTypeOK
<1>4. CASE PassUnbufferedResponse
  BY <1>1, <1>4 DEF PassUnbufferedResponse, ResponseTypeOK, OutputTypeOK, ScanTypeOK
<1>5. ASSUME NEW d \in ScanAnswers(cfg.scan_response), RecordScan("response", context, TRUE, d)
      PROVE  ScanTypeOK'
  <2>1. d \in DualScanResult \cup {NoScan}
    <3>1. cfg.scan_response \in BOOLEAN
      BY FilterAssumption DEF TypeOK, Config
    <3> QED
      BY <3>1, ScanAnswersType
  <2> QED
    BY <1>5, <2>1, RecordScanType DEF RequestTypeOK, OutputTypeOK
<1>6. ASSUME NEW d \in ScanAnswers(cfg.scan_response), StopResponseByScan(d)
      PROVE  ResponseTypeOK' /\ OutputTypeOK'
  <2>1. reply' \in [status : Reply, started : BOOLEAN] \cup {NoReply}
    <3>1. ScanDisposition("response", d) \in Reply
      BY <1>6 DEF StopResponseByScan, ScanDisposition, Reply
    <3> QED
      BY <1>6, <3>1, ReplyType DEF StopResponseByScan
  <2>2. ScanTypeOK'
    BY <1>5, <1>6 DEF StopResponseByScan
  <2> QED
    BY <1>1, <1>6, <2>1, <2>2 DEF StopResponseByScan, ResponseTypeOK, OutputTypeOK
<1>7. ASSUME NEW d \in ScanAnswers(cfg.scan_response), NEW check \in BodyChecks,
             JudgeResponseBody(check, d)
      PROVE  ResponseTypeOK' /\ OutputTypeOK'
  <2> DEFINE found == ResponseBodyErrors(check)
  <2>1. found \in Seq(ResponseError)
    BY ErrorIfType DEF ResponseError, ResponseBodyErrors
  <2> HIDE DEF found
  <2>2. response_errors' \in Seq(ResponseError)
    BY <1>7, <2>1 DEF JudgeResponseBody, ResponseErrors, ResponseTypeOK, found
  <2>3. ScanTypeOK'
    BY <1>5, <1>7 DEF JudgeResponseBody
  <2>4. validation_errors' \in [Sides -> Nat]
    BY <1>7, <2>1, CountType DEF JudgeResponseBody, OutputTypeOK, found
  <2>5. metadata' \in [Sides -> [verdict : Verdict, error_count : Nat]]
    BY <1>7, <2>2, SetMetadataType DEF JudgeResponseBody, OutputTypeOK
  <2> QED
    BY <1>1, <1>7, <2>2, <2>3, <2>4, <2>5 DEF JudgeResponseBody, ResponseTypeOK, OutputTypeOK
<1> QED
  BY <1>3, <1>4, <1>6, <1>7 DEF OnResponseBody

LEMMA NextType == TypeOK /\ [Next]_vars => TypeOK'
<1> SUFFICES ASSUME TypeOK, [Next]_vars PROVE TypeOK'
  OBVIOUS
<1>1. CASE UNCHANGED vars
  BY <1>1, TypeParts
  DEF vars, RequestTypeOK, ResponseTypeOK, OutputTypeOK, ScanTypeOK, TypeOK
<1>2. CASE Next
  BY <1>1, <1>2, RequestHeadersType, RequestBodyType, TrailersType, ResponseHeadersType,
     ResponseBodyType DEF Next, Finished
<1> QED
  BY <1>1, <1>2

\* Every reachable state of a stream is well typed: in particular no callback
\* makes an error counter negative or reports a verdict it has no name for.
THEOREM TypeCorrect == Spec => []TypeOK
<1>1. Init => TypeOK
  BY InitType
<1>2. TypeOK /\ [Next]_vars => TypeOK'
  BY NextType
<1> QED
  BY <1>1, <1>2, PTL DEF Spec

-----------------------------------------------------------------------------
\* The gate: what reaches the upstream and the client.

\* What the gate properties rest on: how far the stream is, across callbacks.
StreamOrder ==
    /\ stream = "new" => upstream = "none" /\ reply = NoReply /\ request_errors = <<>>
    /\ stream = "open" => upstream # "complete"
    /\ response # "none" => upstream # "none"
    /\ cfg.validate_request /\ upstream # "none" => current_operation # None
    /\ cfg.validate_request /\ stream = "open" /\ reply = NoReply
          => current_operation # None
    /\ cfg.validate_request /\ cfg.fail_on_request_error /\ request_errors # <<>>
          => reply # NoReply

RequestGate == NoInvalidRequestForwarded /\ NoUnscannedRequestForwarded /\ HeadersHeldForBody
ResponseGate == ResponseHeldWhileJudged /\ ReplyBeforeResponse

Gate == StreamOrder /\ RequestGate /\ ResponseGate

LEMMA InitGate == Init => Gate
BY DEF Init, Gate, StreamOrder, RequestGate, ResponseGate, NoInvalidRequestForwarded,
       NoUnscannedRequestForwarded, HeadersHeldForBody, ResponseHeldWhileJudged,
       ReplyBeforeResponse, NoReply

\* A reply ends the stream.
LEMMA ReplyEnds ==
    ASSUME NEW status \in Reply, ReplyWith(status)
    PROVE  reply' # NoReply /\ (reply'.started <=> response \in {"open", "complete"})
<1>1. status # "none"
  BY DEF Reply, RoutingReply
<1> QED
  BY <1>1 DEF ReplyWith, NoReply

\* A scan leaves its own record and touches no other.
LEMMA RecordScanEffect ==
    ASSUME scan \in [Sides -> ScanRecord], NEW side \in Sides, NEW ctx, NEW body, NEW d,
           RecordScan(side, ctx, body, d)
    PROVE  /\ d = NoScan => scan' = scan
           /\ d # NoScan => scan'[side] = [context |-> ctx, body |-> body, result |-> d]
           /\ \A other \in Sides \ {side} : scan'[other] = scan[other]
BY DEF RecordScan

LEMMA ConfigType == TypeOK => cfg \in Config
BY FilterAssumption DEF TypeOK

LEMMA OperationType ==
    ASSUME NEW op \in Operations
    PROVE  op # None /\ op.request_body \in RequestBody
BY FilterAssumption DEF Operation

LEMMA RequestHeadersGate ==
    ASSUME TypeOK, Gate, NEW end_of_stream \in BOOLEAN, OnRequestHeaders(end_of_stream)
    PROVE  Gate'
<1>1. /\ upstream = "none" /\ response = "none" /\ reply = NoReply
      /\ cfg' = cfg /\ response' = "none"
      /\ stream' = IF end_of_stream THEN "headers" ELSE "open"
  BY DEF OnRequestHeaders, Gate, StreamOrder, Delivered, responseSide
<1>2. cfg \in Config
  BY ConfigType
<1> USE DEF Gate, StreamOrder, RequestGate, ResponseGate, NoInvalidRequestForwarded,
            NoUnscannedRequestForwarded, HeadersHeldForBody, ResponseHeldWhileJudged,
            ReplyBeforeResponse, SeenWhole
<1>3. ASSUME NEW status \in Reply, ReplyWith(status), UNCHANGED upstream
      PROVE  Gate'
  <2>1. reply' # NoReply /\ ~reply'.started
    BY <1>1, <1>3, ReplyEnds
  <2> QED
    BY <1>1, <1>3, <2>1
<1>4. CASE SkipRequestHeaders(end_of_stream)
  BY <1>1, <1>4 DEF SkipRequestHeaders, ReleaseHeaders, NoReply
<1>5. CASE RejectUnrouted
  BY <1>3, <1>5 DEF RejectUnrouted, Reply
<1>6. ASSUME NEW h \in Heads, RejectPathTypes(h) \/ RejectLongQuery(h)
      PROVE  Gate'
  BY <1>3, <1>6 DEF RejectPathTypes, RejectLongQuery, Reply, RoutingReply
<1>7. ASSUME NEW op \in Operations, NEW h \in Heads, RejectHead(op, h)
      PROVE  Gate'
  BY <1>3, <1>7 DEF RejectHead, Reply, RoutingReply
<1>8. ASSUME NEW op \in Operations, NEW h \in Heads,
             NEW d \in ScanAnswers(cfg.scan_request /\ end_of_stream),
             AcceptHead(op, h, end_of_stream, d)
      PROVE  Gate'
  <2> DEFINE disposition == ScanDisposition("request", d)
             missing == disposition = "pass" /\ MissingBody(op, end_of_stream)
  <2>1. CASE disposition # "pass"
    <3>1. disposition \in Reply
      BY <2>1 DEF ScanDisposition, Reply
    <3> QED
      BY <1>3, <1>8, <2>1, <3>1 DEF AcceptHead
  <2>2. CASE disposition = "pass" /\ reply' # reply
    BY <1>3, <1>8, <2>2 DEF AcceptHead, Reply, RoutingReply
  <2>3. CASE disposition = "pass" /\ reply' = reply
    <3>1. /\ current_operation' = op /\ op # None
          /\ cfg.validate_request
      BY <1>8, OperationType DEF AcceptHead, CheckHead
    <3>2. cfg.fail_on_request_error => ~missing
      BY <1>8, <1>1, <2>3, ReplyEnds DEF AcceptHead, Reply, RoutingReply
    <3>3. cfg.fail_on_request_error => request_errors' = <<>>
      BY <1>8, <3>2 DEF AcceptHead, ErrorIf
    <3>4. ~reply'.started
      BY <1>1, <2>3 DEF NoReply
    <3>5. CASE WaitForBody(op, end_of_stream)
      <4>1. upstream' = "none" /\ stream' = "open"
        BY <1>1, <1>8, <2>3, <3>5 DEF AcceptHead, WaitForBody
      <4> QED
        BY <1>1, <2>3, <3>1, <3>3, <3>4, <4>1
    <3>6. CASE ~WaitForBody(op, end_of_stream) /\ ~end_of_stream
      <4>1. /\ upstream' = "headers" /\ stream' = "open"
            /\ op.request_body = "none"
        BY <1>1, <1>8, <2>3, <3>6, ReplyEnds
        DEF AcceptHead, WaitForBody, ReleaseHeaders, Reply, RoutingReply
      <4> QED
        BY <1>1, <2>3, <3>1, <3>3, <3>4, <4>1
    <3>7. CASE end_of_stream
      <4>1. upstream' = "complete" /\ stream' = "headers"
        BY <1>1, <1>8, <2>3, <3>7, ReplyEnds
        DEF AcceptHead, WaitForBody, ReleaseHeaders, Reply, RoutingReply
      <4>2. cfg.scan_request
              => /\ scan'["request"] = [context |-> TRUE, body |-> FALSE, result |-> d]
                 /\ d # NoScan
        BY <1>2, <1>8, <3>7, ScanAnswersType, RecordScanEffect DEF AcceptHead, TypeOK, Config
      <4>3. /\ ~ShouldBlock(d, cfg.request_action)
            /\ cfg.timeout_action = "block" => ~AnyTimeout(d)
        BY <2>3 DEF ScanDisposition, Action
      <4>4. cfg.fail_on_request_error => op.request_body # "required"
        BY <2>3, <3>2, <3>7 DEF MissingBody
      <4> QED
        BY <1>1, <2>3, <3>1, <3>3, <3>4, <4>1, <4>2, <4>3, <4>4
    <3> QED
      BY <3>5, <3>6, <3>7
  <2> QED
    BY <2>1, <2>2, <2>3
<1> QED
  BY <1>4, <1>5, <1>6, <1>7, <1>8 DEF OnRequestHeaders

LEMMA RequestBodyGate ==
    ASSUME TypeOK, Gate, OnRequestBody
    PROVE  Gate'
<1> USE DEF Gate, StreamOrder, RequestGate, ResponseGate, NoInvalidRequestForwarded,
            NoUnscannedRequestForwarded, HeadersHeldForBody, ResponseHeldWhileJudged,
            ReplyBeforeResponse, SeenWhole
<1>1. /\ stream = "open" /\ reply = NoReply /\ upstream # "complete"
      /\ response \in {"none", "held", "open"}
      /\ cfg' = cfg /\ response' = response
      /\ cfg.validate_request => current_operation # None
  BY DEF OnRequestBody, StreamOver, responseSide, TypeOK
<1>2. cfg \in Config
  BY ConfigType
<1>3. cfg.validate_request /\ response # "none" => current_operation.request_body = "none"
  BY <1>1
<1>4. cfg.validate_request /\ cfg.fail_on_request_error => request_errors = <<>>
  BY <1>1
<1>5. cfg.validate_request /\ upstream = "headers" => current_operation # None
  BY <1>1
<1>6. ASSUME NEW status \in Reply, ReplyWith(status), stream' = "body",
             UNCHANGED <<current_operation, upstream>>
      PROVE  Gate'
  <2>1. reply' # NoReply /\ (reply'.started => response # "none")
    BY <1>6, ReplyEnds
  <2> QED
    BY <1>1, <1>3, <1>5, <1>6, <2>1
<1>7. ASSUME NEW d \in ScanAnswers(cfg.scan_request), ScanDisposition("request", d) = "pass",
             RecordScan("request", context, TRUE, d)
      PROVE  cfg.scan_request
               => LET s == scan'["request"] IN
                  /\ s.result # NoScan /\ s.body
                  /\ ~ShouldBlock(s.result, cfg.request_action)
                  /\ cfg.timeout_action = "block" => ~AnyTimeout(s.result)
  <2>1. cfg.scan_request \in BOOLEAN
    BY <1>2 DEF Config
  <2>2. cfg.scan_request
          => scan'["request"] = [context |-> context, body |-> TRUE, result |-> d]
             /\ d # NoScan
    BY <1>7, <2>1, ScanAnswersType, RecordScanEffect DEF TypeOK
  <2>3. /\ ~ShouldBlock(d, cfg.request_action)
        /\ cfg.timeout_action = "block" => ~AnyTimeout(d)
    BY <1>7 DEF ScanDisposition, Action
  <2> QED
    BY <2>2, <2>3
<1>8. CASE PassUnbufferedBody
  BY <1>1, <1>8 DEF PassUnbufferedBody, NoReply
<1>9. CASE RejectLargeBody
  BY <1>6, <1>9 DEF RejectLargeBody, Reply
<1>10. ASSUME NEW d \in ScanAnswers(cfg.scan_request), StopBodyByScan(d)
       PROVE  Gate'
  <2>1. ScanDisposition("request", d) \in Reply
    BY <1>10 DEF StopBodyByScan, ScanDisposition, Reply
  <2> QED
    BY <1>6, <1>10, <2>1 DEF StopBodyByScan
<1>11. ASSUME NEW d \in ScanAnswers(cfg.scan_request), NEW empty \in BOOLEAN,
              NEW check \in BodyChecks, JudgeBody(empty, check, d)
       PROVE  Gate'
  <2> DEFINE found == BodyErrors(empty, check)
  <2>1. CASE BodyFails(found) \/ Mocked(current_operation)
    BY <1>6, <1>11, <2>1 DEF JudgeBody, Reply, RoutingReply
  <2>2. CASE ~BodyFails(found) /\ ~Mocked(current_operation)
    <3>1. /\ upstream' = "complete" /\ stream' = "body" /\ reply' = reply
          /\ current_operation' = current_operation
          /\ request_errors' = request_errors \o found
      BY <1>11, <2>2 DEF JudgeBody
    <3>2. cfg.fail_on_request_error => found = <<>>
      BY <2>2 DEF BodyFails
    <3>3. cfg.validate_request /\ cfg.fail_on_request_error => request_errors' = <<>>
      BY <1>4, <3>1, <3>2
    <3>4. ~reply'.started
      BY <1>1, <3>1 DEF NoReply
    <3> QED
      BY <1>1, <1>7, <1>11, <3>1, <3>3, <3>4 DEF JudgeBody
  <2> QED
    BY <2>1, <2>2
<1>12. ASSUME NEW d \in ScanAnswers(cfg.scan_request), PassBodyUnvalidated(d)
       PROVE  Gate'
  <2>1. ~cfg.validate_request
    BY <1>1, <1>2, <1>12 DEF PassBodyUnvalidated, Config
  <2>2. upstream' = "complete" /\ stream' = "body" /\ reply' = reply
    BY <1>12 DEF PassBodyUnvalidated
  <2> QED
    BY <1>1, <1>7, <1>12, <2>1, <2>2 DEF PassBodyUnvalidated, NoReply
<1> QED
  BY <1>8, <1>9, <1>10, <1>11, <1>12 DEF OnRequestBody

LEMMA TrailersGate == TypeOK /\ Gate /\ RequestTrailers => Gate'
BY DEF RequestTrailers, StreamOver, responseSide, NoReply, Gate, StreamOrder, RequestGate,
       ResponseGate, NoInvalidRequestForwarded, NoUnscannedRequestForwarded,
       HeadersHeldForBody, ResponseHeldWhileJudged, ReplyBeforeResponse, SeenWhole

\* The request side of the gate depends on nothing the response callbacks write.
LEMMA RequestGateFrame ==
    ASSUME RequestGate, UNCHANGED <<cfg, requestSide>>, scan'["request"] = scan["request"]
    PROVE  RequestGate'
BY DEF requestSide, RequestGate, NoInvalidRequestForwarded, NoUnscannedRequestForwarded,
       HeadersHeldForBody, SeenWhole

LEMMA ResponseHeadersGate ==
    ASSUME TypeOK, Gate, NEW end_of_stream \in BOOLEAN, OnResponseHeaders(end_of_stream)
    PROVE  Gate'
<1>1. /\ upstream # "none" /\ UNCHANGED <<cfg, requestSide, scan, reply>>
      /\ reply = NoReply
  BY DEF OnResponseHeaders, StreamOver
<1>2. RequestGate'
  BY <1>1, RequestGateFrame DEF Gate
<1>3. StreamOrder'
  BY <1>1 DEF Gate, StreamOrder, requestSide
<1>4. ResponseHeldWhileJudged'
  BY <1>1
  DEF Gate, StreamOrder, OnResponseHeaders, SkipResponseHeaders, JudgeResponseHeaders,
      HoldResponse, ResponseHeldWhileJudged, requestSide
<1>5. ReplyBeforeResponse'
  BY <1>1 DEF ReplyBeforeResponse, NoReply
<1> QED
  BY <1>2, <1>3, <1>4, <1>5 DEF Gate, ResponseGate

LEMMA ResponseBodyGate ==
    ASSUME TypeOK, Gate, OnResponseBody
    PROVE  Gate'
<1>1. /\ response \in {"held", "open"} /\ reply = NoReply
      /\ UNCHANGED <<cfg, requestSide>>
  BY DEF OnResponseBody, StreamOver
<1>2. scan'["request"] = scan["request"]
  <2>1. ASSUME NEW d, RecordScan("response", context, TRUE, d)
        PROVE  scan'["request"] = scan["request"]
    BY <2>1, RecordScanEffect DEF TypeOK
  <2> QED
    BY <2>1 DEF OnResponseBody, SkipResponseBody, PassUnbufferedResponse, StopResponseByScan,
                JudgeResponseBody
<1>3. RequestGate'
  BY <1>1, <1>2, RequestGateFrame DEF Gate
<1>4. /\ response' \in {response, "complete"}
      /\ reply' # reply => cfg.validate_response /\ reply' # NoReply
                           /\ (reply'.started <=> response = "open")
  <2>1. ASSUME NEW d, StopResponseByScan(d)
        PROVE  reply' # NoReply /\ (reply'.started <=> response = "open")
    <3>1. ScanDisposition("response", d) \in Reply
      BY <2>1 DEF StopResponseByScan, ScanDisposition, Reply
    <3> QED
      BY <1>1, <2>1, <3>1, ReplyEnds DEF StopResponseByScan
  <2> QED
    BY <2>1 DEF OnResponseBody, SkipResponseBody, PassUnbufferedResponse, StopResponseByScan,
                JudgeResponseBody
<1>5. StreamOrder'
  BY <1>1, <1>4 DEF Gate, StreamOrder, requestSide
<1>6. ResponseHeldWhileJudged' /\ ReplyBeforeResponse'
  BY <1>1, <1>4, ConfigType
  DEF Gate, ResponseGate, ResponseHeldWhileJudged, ReplyBeforeResponse, NoReply, Config
<1> QED
  BY <1>3, <1>5, <1>6 DEF Gate, ResponseGate

LEMMA NextGate == TypeOK /\ Gate /\ [Next]_vars => Gate'
<1> SUFFICES ASSUME TypeOK, Gate, [Next]_vars PROVE Gate'
  OBVIOUS
<1>1. CASE UNCHANGED vars
  BY <1>1
  DEF vars, Gate, StreamOrder, RequestGate, ResponseGate, NoInvalidRequestForwarded,
      NoUnscannedRequestForwarded, HeadersHeldForBody, ResponseHeldWhileJudged,
      ReplyBeforeResponse, SeenWhole
<1>2. CASE Next
  BY <1>1, <1>2, RequestHeadersGate, RequestBodyGate, TrailersGate, ResponseHeadersGate,
     ResponseBodyGate DEF Next, Finished
<1> QED
  BY <1>1, <1>2

LEMMA GateHolds == Spec => []Gate
<1>1. Init => Gate
  BY InitGate
<1>2. TypeOK /\ Gate /\ [Next]_vars => Gate'
  BY NextGate
<1> QED
  BY <1>1, <1>2, TypeCorrect, PTL DEF Spec

\* With fail_on_request_error on_request_headers and on_request_body between
\* them let no request with a known error through, under any configuration.
THEOREM InvalidStopped == Spec => []NoInvalidRequestForwarded
<1>1. Gate => NoInvalidRequestForwarded
  BY DEF Gate, RequestGate
<1> QED
  BY <1>1, GateHolds, PTL

\* A request to be scanned is forwarded only after a scan that let it pass.
THEOREM UnscannedStopped == Spec => []NoUnscannedRequestForwarded
<1>1. Gate => NoUnscannedRequestForwarded
  BY DEF Gate, RequestGate
<1> QED
  BY <1>1, GateHolds, PTL

\* on_request_headers holds the headers of every request whose body it will judge.
THEOREM HeadersHeld == Spec => []HeadersHeldForBody
<1>1. Gate => HeadersHeldForBody
  BY DEF Gate, RequestGate
<1> QED
  BY <1>1, GateHolds, PTL

\* on_response_headers holds every response that will be judged, if requests are.
THEOREM ResponseHeld == Spec => []ResponseHeldWhileJudged
<1>1. Gate => ResponseHeldWhileJudged
  BY DEF Gate, ResponseGate
<1> QED
  BY <1>1, GateHolds, PTL

\* A local reply meets a response already begun in one case only: the body of
\* an operation that has no request body.
THEOREM ReplyFirst == Spec => []ReplyBeforeResponse
<1>1. Gate => ReplyBeforeResponse
  BY DEF Gate, ResponseGate
<1> QED
  BY <1>1, GateHolds, PTL
=============================================================================
