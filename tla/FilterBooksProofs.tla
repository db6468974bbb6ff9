-------------------------- MODULE FilterBooksProofs --------------------------
(***************************************************************************)
(* Theorems on what Filter tells of a stream: counters, metadata and the   *)
(* WAF's records agree with what was found and with how the stream went.   *)
(***************************************************************************)
EXTENDS FilterProofs

USE DEF Sides

-----------------------------------------------------------------------------
\* The WAF's records.

\* A record of a scan holds what CountScan and BuildMetadata make of its answer.
RecordOf(side) ==
    IF scan[side].result = NoScan
    THEN modsec_metrics[side] = NoScans /\ modsec_metadata[side] = NoModsecMetadata
    ELSE /\ modsec_metrics[side] = CountScan(NoScans, scan[side].result, Action(side))
         /\ modsec_metadata[side] = BuildMetadata(scan[side].result, Action(side))
         /\ scan[side].context <=> cfg.validate_request

\* The scan of this side asked to stop the stream.
Stops(side) == scan[side].result # NoScan /\ ShouldBlock(scan[side].result, Action(side))

StopsTold ==
    /\ \A side \in Sides : Stops(side) => reply.status \in {"403", "503"}
    /\ reply.status = "403" => \E side \in Sides : Stops(side)

WafBooks == (\A side \in Sides : RecordOf(side)) /\ StopsTold

\* When a side has not been scanned yet, and what a scan would see.
ScanOrder ==
    /\ stream = "new" => ~context
    /\ stream \in {"new", "open"} => scan["request"].result = NoScan
    /\ response # "complete" /\ reply = NoReply => scan["response"].result = NoScan
    /\ stream # "new" /\ reply = NoReply => (context <=> cfg.validate_request)

\* What a callback does that makes at most one scan, of a side not scanned yet.
Scans(side, ctx, body, d) ==
    /\ RecordScan(side, ctx, body, d)
    /\ d \in DualScanResult \cup {NoScan}
    /\ cfg' = cfg /\ reply = NoReply /\ scan[side].result = NoScan
    /\ d # NoScan => (ctx <=> cfg.validate_request)
    /\ IF ScanDisposition(side, d) = "pass" THEN reply'.status # "403"
       ELSE reply'.status = ScanDisposition(side, d)

\* The disposition of a scan is "pass" only if the scan does not ask to stop, and
\* 403 only if it does; where nothing was scanned it is "pass".
LEMMA Dispositions ==
    ASSUME NEW side \in Sides, NEW d
    PROVE  /\ ScanDisposition(side, d) \in {"pass", "403", "503"}
           /\ ScanDisposition(side, d) = "pass" => ~ShouldBlock(d, Action(side))
           /\ ScanDisposition(side, d) = "403" => ShouldBlock(d, Action(side))
           /\ ScanDisposition(side, NoScan) = "pass"
BY DEF ScanDisposition, ShouldBlock, AnyTimeout, TimedOut, NoScan, NoResult, EffectiveResult,
       Matched, Blocked

\* What RecordScan writes for its side, and that it leaves the other alone.
LEMMA RecordWritten ==
    ASSUME TypeOK, NEW side \in Sides, NEW ctx, NEW body, NEW d, RecordScan(side, ctx, body, d)
    PROVE  /\ d = NoScan => UNCHANGED <<scan, modsec_metrics, modsec_metadata>>
           /\ d # NoScan =>
                 /\ scan'[side] = [context |-> ctx, body |-> body, result |-> d]
                 /\ modsec_metrics'[side] = CountScan(modsec_metrics[side], d, Action(side))
                 /\ modsec_metadata'[side] = BuildMetadata(d, Action(side))
           /\ \A other \in Sides \ {side} :
                 /\ scan'[other] = scan[other]
                 /\ modsec_metrics'[other] = modsec_metrics[other]
                 /\ modsec_metadata'[other] = modsec_metadata[other]
BY DEF RecordScan, TypeOK

\* A scan of a side not scanned before keeps the books.
LEMMA ScansKeepBooks ==
    ASSUME TypeOK, WafBooks, NEW side \in Sides, NEW ctx, NEW body, NEW d,
           Scans(side, ctx, body, d)
    PROVE  WafBooks'
<1>1. /\ RecordScan(side, ctx, body, d) /\ cfg' = cfg /\ reply = NoReply
      /\ scan[side].result = NoScan
  BY DEF Scans
<1>2. \A s \in Sides : Action(s)' = Action(s)
  BY <1>1 DEF Action
<1>3. \A s \in Sides : ~Stops(s)
  BY <1>1 DEF WafBooks, StopsTold, NoReply
<1>4. \A other \in Sides \ {side} : RecordOf(other)' /\ ~Stops(other)'
  <2>1. SUFFICES ASSUME NEW other \in Sides \ {side} PROVE RecordOf(other)' /\ ~Stops(other)'
    OBVIOUS
  <2>2. /\ scan'[other] = scan[other] /\ modsec_metrics'[other] = modsec_metrics[other]
        /\ modsec_metadata'[other] = modsec_metadata[other]
    BY <1>1, RecordWritten
  <2> QED
    BY <1>1, <1>2, <1>3, <2>2 DEF WafBooks, RecordOf, Stops
<1>5. CASE d = NoScan
  <2>1. UNCHANGED <<scan, modsec_metrics, modsec_metadata>>
    BY <1>1, <1>5, RecordWritten
  <2>2. RecordOf(side)' /\ ~Stops(side)'
    BY <1>1, <2>1 DEF WafBooks, RecordOf, Stops
  <2>3. reply'.status # "403"
    BY <1>5, Dispositions DEF Scans
  <2> QED
    BY <1>4, <2>2, <2>3 DEF WafBooks, StopsTold
<1>6. CASE d # NoScan
  <2>1. /\ scan'[side] = [context |-> ctx, body |-> body, result |-> d]
        /\ modsec_metrics'[side] = CountScan(modsec_metrics[side], d, Action(side))
        /\ modsec_metadata'[side] = BuildMetadata(d, Action(side))
    BY <1>1, <1>6, RecordWritten
  <2>2. modsec_metrics[side] = NoScans
    BY <1>1 DEF WafBooks, RecordOf
  <2>3. RecordOf(side)'
    BY <1>1, <1>2, <1>6, <2>1, <2>2 DEF RecordOf, Scans
  <2>4. Stops(side)' <=> ShouldBlock(d, Action(side))
    BY <1>2, <1>6, <2>1 DEF Stops
  <2>5. /\ Stops(side)' => reply'.status \in {"403", "503"}
        /\ reply'.status = "403" => Stops(side)'
    BY <2>4, Dispositions DEF Scans
  <2> QED
    BY <1>4, <2>3, <2>5 DEF WafBooks, StopsTold
<1> QED
  BY <1>5, <1>6

\* When nothing is scanned the books change only by the reply.
LEMMA NoScanKeepsBooks ==
    ASSUME TypeOK, WafBooks, UNCHANGED <<cfg, modsec_metadata, modsec_metrics, scan>>,
           reply = NoReply, reply'.status # "403"
    PROVE  WafBooks'
<1>1. \A side \in Sides : ~Stops(side)
  BY DEF WafBooks, StopsTold, NoReply
<1>2. \A side \in Sides : RecordOf(side)' /\ ~Stops(side)'
  BY <1>1 DEF WafBooks, RecordOf, Stops, Action
<1> QED
  BY <1>2 DEF WafBooks, StopsTold

\* on_request_headers: only AcceptHead scans, and only a request without a body.
LEMMA RequestHeadersBooks ==
    ASSUME TypeOK, StreamOrder, ScanOrder, WafBooks, NEW end_of_stream \in BOOLEAN,
           OnRequestHeaders(end_of_stream)
    PROVE  ScanOrder' /\ WafBooks'
<1>1. /\ stream = "new" /\ upstream = "none" /\ response = "none" /\ reply = NoReply
      /\ UNCHANGED <<cfg, response>>
      /\ stream' = IF end_of_stream THEN "headers" ELSE "open"
      /\ ~context /\ \A side \in Sides : scan[side].result = NoScan
  BY DEF OnRequestHeaders, StreamOrder, ScanOrder, Delivered, responseSide, TypeOK
<1>2. ASSUME UNCHANGED <<modsec_metadata, modsec_metrics, scan>>, reply'.status # "403",
             reply' # NoReply \/ (context' <=> cfg.validate_request)
      PROVE  ScanOrder' /\ WafBooks'
  <2>1. WafBooks'
    BY <1>1, <1>2, NoScanKeepsBooks
  <2>2. ScanOrder'
    BY <1>1, <1>2 DEF ScanOrder
  <2> QED
    BY <2>1, <2>2
<1>3. ASSUME NEW status \in Reply \ {"403"}, ReplyWith(status)
      PROVE  reply'.status # "403" /\ reply' # NoReply
  BY <1>3, ReplyEnds DEF ReplyWith
<1>4. CASE SkipRequestHeaders(end_of_stream)
  BY <1>1, <1>2, <1>4 DEF SkipRequestHeaders, NoReply
<1>5. CASE RejectUnrouted
  BY <1>2, <1>3, <1>5 DEF RejectUnrouted, RoutingReply, Reply
<1>6. ASSUME NEW h \in Heads, RejectPathTypes(h) \/ RejectLongQuery(h)
      PROVE  ScanOrder' /\ WafBooks'
  BY <1>2, <1>3, <1>6 DEF RejectPathTypes, RejectLongQuery, RoutingReply, Reply
<1>7. ASSUME NEW op \in Operations, NEW h \in Heads, RejectHead(op, h)
      PROVE  ScanOrder' /\ WafBooks'
  BY <1>2, <1>3, <1>7 DEF RejectHead, RoutingReply, Reply
<1>8. ASSUME NEW op \in Operations, NEW h \in Heads,
             NEW d \in ScanAnswers(cfg.scan_request /\ end_of_stream),
             AcceptHead(op, h, end_of_stream, d)
      PROVE  ScanOrder' /\ WafBooks'
  <2> DEFINE disposition == ScanDisposition("request", d)
  <2>1. /\ RecordScan("request", TRUE, FALSE, d) /\ context' /\ cfg.validate_request
    BY <1>8 DEF AcceptHead, CheckHead
  <2>2. (cfg.scan_request /\ end_of_stream) \in BOOLEAN
    BY ConfigType DEF Config
  <2>3. d \in DualScanResult \cup {NoScan} /\ (~end_of_stream => d = NoScan)
    BY <2>2, ScanAnswersType
  <2>4. IF disposition = "pass" THEN reply'.status # "403" ELSE reply'.status = disposition
    BY <1>1, <1>8 DEF AcceptHead, ReplyWith, NoReply
  <2>5. WafBooks'
    <3>1. Scans("request", TRUE, FALSE, d)
      BY <1>1, <2>1, <2>3, <2>4 DEF Scans
    <3> QED
      BY <3>1, ScansKeepBooks
  <2>6. /\ scan'["response"] = scan["response"]
        /\ ~end_of_stream => scan'["request"] = scan["request"]
    BY <2>1, <2>3, RecordWritten
  <2>7. ScanOrder'
    BY <1>1, <2>1, <2>6 DEF ScanOrder
  <2> QED
    BY <2>5, <2>7
<1> QED
  BY <1>4, <1>5, <1>6, <1>7, <1>8 DEF OnRequestHeaders

\* on_request_body scans with the context on_request_headers stored.
LEMMA RequestBodyBooks ==
    ASSUME TypeOK, ScanOrder, WafBooks, OnRequestBody
    PROVE  ScanOrder' /\ WafBooks'
<1>1. /\ stream = "open" /\ reply = NoReply /\ response # "complete"
      /\ UNCHANGED <<cfg, response>>
      /\ (context <=> cfg.validate_request) /\ \A side \in Sides : scan[side].result = NoScan
  BY DEF OnRequestBody, StreamOver, ScanOrder, responseSide
<1>2. stream' \in {"unbuffered", "body"} /\ context' = context
  BY DEF OnRequestBody, PassUnbufferedBody, RejectLargeBody, StopBodyByScan, JudgeBody,
         PassBodyUnvalidated
<1>3. ASSUME scan'["response"] = scan["response"]
      PROVE  ScanOrder'
  BY <1>1, <1>2, <1>3 DEF ScanOrder
<1>4. CASE PassUnbufferedBody \/ RejectLargeBody
  <2>1. UNCHANGED <<modsec_metadata, modsec_metrics, scan>> /\ reply'.status # "403"
    BY <1>1, <1>4 DEF PassUnbufferedBody, RejectLargeBody, ReplyWith, NoReply
  <2> QED
    BY <1>1, <1>3, <2>1, NoScanKeepsBooks
<1>5. ASSUME NEW d \in ScanAnswers(cfg.scan_request), RecordScan("request", context, TRUE, d),
             IF ScanDisposition("request", d) = "pass" THEN reply'.status # "403"
             ELSE reply'.status = ScanDisposition("request", d)
      PROVE  ScanOrder' /\ WafBooks'
  <2>1. d \in DualScanResult \cup {NoScan}
    <3>1. cfg.scan_request \in BOOLEAN
      BY ConfigType DEF Config
    <3> QED
      BY <3>1, ScanAnswersType
  <2>2. Scans("request", context, TRUE, d)
    BY <1>1, <1>5, <2>1 DEF Scans
  <2>3. scan'["response"] = scan["response"]
    BY <1>5, RecordWritten
  <2> QED
    BY <1>3, <2>2, <2>3, ScansKeepBooks
<1>6. ASSUME NEW d \in ScanAnswers(cfg.scan_request), StopBodyByScan(d)
      PROVE  ScanOrder' /\ WafBooks'
  BY <1>5, <1>6 DEF StopBodyByScan, ReplyWith
<1>7. ASSUME NEW d \in ScanAnswers(cfg.scan_request), NEW empty \in BOOLEAN,
             NEW check \in BodyChecks, JudgeBody(empty, check, d)
      PROVE  ScanOrder' /\ WafBooks'
  <2>1. /\ RecordScan("request", context, TRUE, d) /\ ScanDisposition("request", d) = "pass"
        /\ reply' = reply \/ ReplyWith("400") \/ ReplyWith("mock")
    BY <1>7 DEF JudgeBody
  <2>2. reply'.status # "403"
    BY <1>1, <2>1 DEF ReplyWith, NoReply
  <2> QED
    BY <1>5, <2>1, <2>2
<1>8. ASSUME NEW d \in ScanAnswers(cfg.scan_request), PassBodyUnvalidated(d)
      PROVE  ScanOrder' /\ WafBooks'
  BY <1>1, <1>5, <1>8 DEF PassBodyUnvalidated, NoReply
<1> QED
  BY <1>4, <1>6, <1>7, <1>8 DEF OnRequestBody

LEMMA TrailersBooks ==
    ASSUME TypeOK, ScanOrder, WafBooks, RequestTrailers
    PROVE  ScanOrder' /\ WafBooks'
<1>1. WafBooks'
  BY NoScanKeepsBooks DEF RequestTrailers, StreamOver, NoReply
<1>2. ScanOrder'
  BY DEF RequestTrailers, StreamOver, ScanOrder, responseSide
<1> QED
  BY <1>1, <1>2

\* on_response_headers scans nothing.
LEMMA ResponseHeadersBooks ==
    ASSUME TypeOK, ScanOrder, WafBooks, NEW end_of_stream \in BOOLEAN,
           OnResponseHeaders(end_of_stream)
    PROVE  ScanOrder' /\ WafBooks'
<1>1. WafBooks'
  BY NoScanKeepsBooks DEF OnResponseHeaders, StreamOver, NoReply
<1>2. ScanOrder'
  BY DEF OnResponseHeaders, StreamOver, ScanOrder, requestSide
<1> QED
  BY <1>1, <1>2

\* on_response_body scans the response, if nothing ended the stream before.
LEMMA ResponseBodyBooks ==
    ASSUME TypeOK, StreamOrder, ScanOrder, WafBooks, OnResponseBody
    PROVE  ScanOrder' /\ WafBooks'
<1>1. /\ response \in {"held", "open"} /\ reply = NoReply /\ stream # "new"
      /\ UNCHANGED <<cfg, stream, context>>
      /\ (context <=> cfg.validate_request) /\ scan["response"].result = NoScan
  BY DEF OnResponseBody, StreamOver, StreamOrder, ScanOrder, requestSide
<1>2. CASE SkipResponseBody \/ PassUnbufferedResponse
  <2>1. WafBooks'
    BY <1>1, <1>2, NoScanKeepsBooks DEF SkipResponseBody, PassUnbufferedResponse, NoReply
  <2>2. ScanOrder'
    BY <1>1, <1>2 DEF SkipResponseBody, PassUnbufferedResponse, ScanOrder
  <2> QED
    BY <2>1, <2>2
<1>3. ASSUME NEW d \in ScanAnswers(cfg.scan_response), RecordScan("response", context, TRUE, d),
             response' = "complete" \/ reply' # NoReply,
             IF ScanDisposition("response", d) = "pass" THEN reply'.status # "403"
             ELSE reply'.status = ScanDisposition("response", d)
      PROVE  ScanOrder' /\ WafBooks'
  <2>1. d \in DualScanResult \cup {NoScan}
    <3>1. cfg.scan_response \in BOOLEAN
      BY ConfigType DEF Config
    <3> QED
      BY <3>1, ScanAnswersType
  <2>2. Scans("response", context, TRUE, d)
    BY <1>1, <1>3, <2>1 DEF Scans
  <2>3. scan'["request"] = scan["request"]
    BY <1>3, RecordWritten
  <2>4. ScanOrder'
    BY <1>1, <1>3, <2>3 DEF ScanOrder
  <2> QED
    BY <2>2, <2>4, ScansKeepBooks
<1>4. ASSUME NEW d \in ScanAnswers(cfg.scan_response), StopResponseByScan(d)
      PROVE  ScanOrder' /\ WafBooks'
  <2>1. ScanDisposition("response", d) \in Reply
    BY <1>4 DEF StopResponseByScan, ScanDisposition, Reply
  <2> QED
    BY <1>3, <1>4, <2>1, ReplyEnds DEF StopResponseByScan, ReplyWith
<1>5. ASSUME NEW d \in ScanAnswers(cfg.scan_response), NEW check \in BodyChecks,
             JudgeResponseBody(check, d)
      PROVE  ScanOrder' /\ WafBooks'
  BY <1>1, <1>3, <1>5 DEF JudgeResponseBody, NoReply
<1> QED
  BY <1>2, <1>4, <1>5 DEF OnResponseBody

LEMMA WafBooksHold == Spec => [](ScanOrder /\ WafBooks)
<1>1. Init => ScanOrder /\ WafBooks
  BY DEF Init, ScanOrder, WafBooks, StopsTold, RecordOf, Stops, NotScanned, NoReply
<1>2. TypeOK /\ Gate /\ ScanOrder /\ WafBooks /\ [Next]_vars => (ScanOrder /\ WafBooks)'
  <2>1. CASE UNCHANGED vars
    BY <2>1 DEF vars, ScanOrder, WafBooks, StopsTold, RecordOf, Stops, Action
  <2>2. CASE Next
    BY <2>1, <2>2, RequestHeadersBooks, RequestBodyBooks, TrailersBooks, ResponseHeadersBooks,
       ResponseBodyBooks DEF Next, Finished, Gate
  <2> QED
    BY <2>1, <2>2
<1> QED
  BY <1>1, <1>2, TypeCorrect, GateHolds, PTL DEF Spec

\* What the WAF metadata calls blocked was stopped, with any pair of rulesets,
\* actions and timeouts, and a 403 is never unaccounted for.
THEOREM BlockedStopped == Spec => []BlockedMeansStopped
<1>1. WafBooks => BlockedMeansStopped
  <2> SUFFICES ASSUME WafBooks PROVE BlockedMeansStopped
    OBVIOUS
  <2>2. ASSUME NEW side \in Sides
        PROVE  /\ modsec_metadata[side].verdict = "blocked" <=> Stops(side)
               /\ modsec_metrics[side].blocked = 1 <=> Stops(side)
    <3>1. CASE scan[side].result = NoScan
      BY <3>1 DEF WafBooks, RecordOf, Stops, NoScans, NoModsecMetadata
    <3>2. CASE scan[side].result # NoScan
      <4> DEFINE d == scan[side].result
      <4>1. /\ modsec_metrics[side] = CountScan(NoScans, d, Action(side))
            /\ modsec_metadata[side] = BuildMetadata(d, Action(side))
        BY <3>2 DEF WafBooks, RecordOf
      <4>2. Stops(side) <=> ShouldBlock(d, Action(side))
        BY <3>2 DEF Stops
      <4>3. BuildMetadata(d, Action(side)).verdict = "blocked" <=> ShouldBlock(d, Action(side))
        BY DEF BuildMetadata, ShouldBlock
      <4>4. CountScan(NoScans, d, Action(side)).blocked = 1 <=> ShouldBlock(d, Action(side))
        BY DEF CountScan, NoScans, ShouldBlock
      <4> QED
        BY <4>1, <4>2, <4>3, <4>4
    <3> QED
      BY <3>1, <3>2
  <2>3. ASSUME NEW side \in Sides
        PROVE  /\ modsec_metadata[side].verdict = "blocked" <=> modsec_metrics[side].blocked = 1
               /\ modsec_metadata[side].verdict = "blocked" => reply.status \in {"403", "503"}
    BY <2>2 DEF WafBooks, StopsTold
  <2>4. reply.status = "403" => \E side \in Sides : modsec_metadata[side].verdict = "blocked"
    BY <2>2 DEF WafBooks, StopsTold
  <2> QED
    BY <2>3, <2>4 DEF BlockedMeansStopped
<1> QED
  BY <1>1, WafBooksHold, PTL

\* Every scan was made with the request of its own stream if requests are
\* validated, and with none otherwise.
THEOREM ContextScanned == Spec => []ScanContext
<1>1. ScanOrder /\ WafBooks => ScanContext
  BY DEF WafBooks, RecordOf, ScanContext
<1> QED
  BY <1>1, WafBooksHold, PTL

-----------------------------------------------------------------------------
\* Counters and verdicts.

ErrorBooks ==
    /\ response = "none" => response_errors = <<>>
    /\ validation_errors["request"] = Len(request_errors)
    /\ validation_errors["response"] = Len(response_errors)

\* The errors that are found before the metadata is written.
HeadError == RequestError \ {"missing_body"}

VerdictBooks ==
    /\ stream = "new" \/ ~cfg.validate_request => metadata["request"] = NoVerdict
    /\ ~cfg.validate_request => current_operation = None
    /\ stream # "headers" => request_errors \in Seq(HeadError)
    /\ cfg.validate_request /\ (upstream # "none" \/ (stream # "new" /\ reply = NoReply))
          => metadata["request"] = Report(Reported(request_errors))
    /\ reply.status = "400" /\ context
          => metadata["request"] = Report(request_errors) /\ request_errors # <<>>

\* Without a missing body all errors are reported.
LEMMA AllReported ==
    ASSUME NEW errors \in Seq(HeadError)
    PROVE  Reported(errors) = errors
<1>1. errors # <<>> => errors[Len(errors)] \in HeadError
  OBVIOUS
<1> QED
  BY <1>1 DEF Reported, HeadError

\* Of a request that lacks its body the errors found before are reported.
LEMMA HeadReported ==
    ASSUME NEW errors \in Seq(HeadError)
    PROVE  Reported(errors \o <<"missing_body">>) = errors
<1> DEFINE all == errors \o <<"missing_body">>
<1>1. all # <<>> /\ Len(all) = Len(errors) + 1 /\ all[Len(all)] = "missing_body"
  OBVIOUS
<1>2. SubSeq(all, 1, Len(errors)) = errors
  OBVIOUS
<1>3. Len(all) - 1 = Len(errors)
  BY <1>1
<1> QED
  BY <1>1, <1>2, <1>3 DEF Reported

\* The checks of the head find no missing body.
LEMMA HeadErrorsFound ==
    ASSUME NEW h \in Heads
    PROVE  PathErrors(h) \in Seq(HeadError) /\ HeaderErrors(h) \in Seq(HeadError)
<1>1. /\ h.path_types \in BOOLEAN /\ h.path \in BOOLEAN
      /\ h.query \in BOOLEAN /\ h.headers \in BOOLEAN
  BY FilterAssumption DEF HeaderChecks
<1>2. /\ ErrorIf(~h.path_types, "path_types") \in Seq(HeadError)
      /\ ErrorIf(~h.path, "path") \in Seq(HeadError)
      /\ ErrorIf(~h.query, "query") \in Seq(HeadError)
      /\ ErrorIf(~h.headers, "headers") \in Seq(HeadError)
  BY <1>1, ErrorIfType DEF HeadError, RequestError
<1> QED
  BY <1>2 DEF PathErrors, HeaderErrors

\* Count adds to the counter of its side, SetMetadata writes that of its side.
LEMMA CountWritten ==
    ASSUME TypeOK, NEW side \in Sides, NEW errors, Count(side, errors)
    PROVE  /\ validation_errors'[side] = validation_errors[side] + Len(errors)
           /\ \A other \in Sides \ {side} : validation_errors'[other] = validation_errors[other]
BY DEF Count, TypeOK

LEMMA MetadataWritten ==
    ASSUME TypeOK, NEW side \in Sides, NEW errors, SetMetadata(side, errors)
    PROVE  /\ metadata'[side] = Report(errors)
           /\ \A other \in Sides \ {side} : metadata'[other] = metadata[other]
BY DEF SetMetadata, TypeOK

\* on_request_headers counts each error it finds; the counter was zero.
LEMMA RequestHeadersCounts ==
    ASSUME TypeOK, StreamOrder, ErrorBooks, NEW end_of_stream \in BOOLEAN,
           OnRequestHeaders(end_of_stream)
    PROVE  ErrorBooks'
<1>1. /\ request_errors = <<>> /\ validation_errors["request"] = 0
      /\ UNCHANGED <<response, response_errors>>
  BY DEF OnRequestHeaders, StreamOrder, ErrorBooks, responseSide
<1>2. CASE UNCHANGED validation_errors /\ request_errors' = <<>>
  BY <1>1, <1>2 DEF ErrorBooks
<1>3. ASSUME request_errors' \in Seq(RequestError), Count("request", request_errors')
      PROVE  ErrorBooks'
  <2>1. /\ validation_errors'["request"] = 0 + Len(request_errors')
        /\ validation_errors'["response"] = validation_errors["response"]
    BY <1>1, <1>3, CountWritten
  <2>2. Len(request_errors') \in Nat
    BY <1>3
  <2> QED
    BY <1>1, <2>1, <2>2 DEF ErrorBooks
<1>4. request_errors' \in Seq(RequestError)
  BY RequestHeadersType DEF TypeOK
<1>5. CASE SkipRequestHeaders(end_of_stream) \/ RejectUnrouted
  BY <1>1, <1>2, <1>5 DEF SkipRequestHeaders, RejectUnrouted
<1>6. ASSUME NEW h \in Heads, RejectPathTypes(h) \/ RejectLongQuery(h)
      PROVE  ErrorBooks'
  BY <1>3, <1>4, <1>6 DEF RejectPathTypes, RejectLongQuery
<1>7. ASSUME NEW op \in Operations, NEW h \in Heads, RejectHead(op, h)
      PROVE  ErrorBooks'
  BY <1>3, <1>4, <1>7 DEF RejectHead
<1>8. ASSUME NEW op \in Operations, NEW h \in Heads,
             NEW d \in ScanAnswers(cfg.scan_request /\ end_of_stream),
             AcceptHead(op, h, end_of_stream, d)
      PROVE  ErrorBooks'
  BY <1>3, <1>4, <1>8 DEF AcceptHead
<1> QED
  BY <1>5, <1>6, <1>7, <1>8 DEF OnRequestHeaders

\* The body adds its own error to those of the head, and to their counter.
LEMMA RequestBodyCounts ==
    ASSUME TypeOK, ErrorBooks, OnRequestBody
    PROVE  ErrorBooks'
<1>1. UNCHANGED <<response, response_errors>>
  BY DEF OnRequestBody, responseSide
<1>2. CASE UNCHANGED <<validation_errors, request_errors>>
  BY <1>1, <1>2 DEF ErrorBooks
<1>3. ASSUME NEW d \in ScanAnswers(cfg.scan_request), NEW empty \in BOOLEAN,
             NEW check \in BodyChecks, JudgeBody(empty, check, d)
      PROVE  ErrorBooks'
  <2> DEFINE found == BodyErrors(empty, check)
  <2>1. found \in Seq(RequestError)
    BY ErrorIfType DEF BodyErrors, RequestError, RequestBodyValid
  <2>2. request_errors' = request_errors \o found /\ Count("request", found)
    BY <1>3 DEF JudgeBody
  <2> HIDE DEF found
  <2>3. Len(request_errors \o found) = Len(request_errors) + Len(found)
    BY <2>1 DEF TypeOK
  <2>4. /\ validation_errors'["request"] = validation_errors["request"] + Len(found)
        /\ validation_errors'["response"] = validation_errors["response"]
    BY <2>2, CountWritten
  <2> QED
    BY <1>1, <2>2, <2>3, <2>4 DEF ErrorBooks
<1> QED
  BY <1>2, <1>3 DEF OnRequestBody, PassUnbufferedBody, RejectLargeBody, StopBodyByScan,
                    PassBodyUnvalidated

\* on_response_headers counts on its own side, from zero.
LEMMA ResponseHeadersCounts ==
    ASSUME TypeOK, ErrorBooks, NEW end_of_stream \in BOOLEAN, OnResponseHeaders(end_of_stream)
    PROVE  ErrorBooks'
<1>1. /\ response = "none" /\ response_errors = <<>> /\ validation_errors["response"] = 0
      /\ UNCHANGED request_errors /\ response' # "none"
  BY DEF OnResponseHeaders, ErrorBooks, requestSide, SkipResponseHeaders, JudgeResponseHeaders
<1>2. CASE SkipResponseHeaders(end_of_stream)
  BY <1>1, <1>2 DEF SkipResponseHeaders, ErrorBooks
<1>3. ASSUME NEW valid \in BOOLEAN, JudgeResponseHeaders(end_of_stream, valid)
      PROVE  ErrorBooks'
  <2> DEFINE found == ResponseHeaderErrors(valid)
  <2>1. found \in Seq(ResponseError)
    BY ErrorIfType DEF ResponseHeaderErrors, ResponseError
  <2>2. response_errors' = found /\ Count("response", found)
    BY <1>3 DEF JudgeResponseHeaders
  <2> HIDE DEF found
  <2>3. /\ validation_errors'["response"] = 0 + Len(found)
        /\ validation_errors'["request"] = validation_errors["request"]
    BY <1>1, <2>2, CountWritten
  <2>4. Len(found) \in Nat
    BY <2>1
  <2> QED
    BY <1>1, <2>2, <2>3, <2>4 DEF ErrorBooks
<1> QED
  BY <1>2, <1>3 DEF OnResponseHeaders

LEMMA ResponseBodyCounts ==
    ASSUME TypeOK, ErrorBooks, OnResponseBody
    PROVE  ErrorBooks'
<1>1. /\ response # "none" /\ UNCHANGED request_errors /\ response' # "none"
  BY DEF OnResponseBody, requestSide, SkipResponseBody, PassUnbufferedResponse,
         StopResponseByScan, JudgeResponseBody
<1>2. CASE UNCHANGED <<validation_errors, response_errors>>
  BY <1>1, <1>2 DEF ErrorBooks
<1>3. ASSUME NEW d \in ScanAnswers(cfg.scan_response), NEW check \in BodyChecks,
             JudgeResponseBody(check, d)
      PROVE  ErrorBooks'
  <2> DEFINE found == ResponseBodyErrors(check)
  <2>1. found \in Seq(ResponseError)
    BY ErrorIfType DEF ResponseBodyErrors, ResponseError
  <2>2. response_errors' = response_errors \o found /\ Count("response", found)
    BY <1>3 DEF JudgeResponseBody, ResponseErrors
  <2> HIDE DEF found
  <2>3. Len(response_errors \o found) = Len(response_errors) + Len(found)
    BY <2>1 DEF TypeOK
  <2>4. /\ validation_errors'["response"] = validation_errors["response"] + Len(found)
        /\ validation_errors'["request"] = validation_errors["request"]
    BY <2>2, CountWritten
  <2> QED
    BY <1>1, <2>2, <2>3, <2>4 DEF ErrorBooks
<1> QED
  BY <1>2, <1>3 DEF OnResponseBody, SkipResponseBody, PassUnbufferedResponse, StopResponseByScan

LEMMA ErrorBooksHold == Spec => []ErrorBooks
<1>1. Init => ErrorBooks
  BY DEF Init, ErrorBooks
<1>2. TypeOK /\ Gate /\ ErrorBooks /\ [Next]_vars => ErrorBooks'
  <2>1. CASE UNCHANGED vars
    BY <2>1 DEF vars, ErrorBooks
  <2>2. CASE RequestTrailers
    BY <2>2 DEF RequestTrailers, responseSide, ErrorBooks
  <2>3. CASE Next
    BY <2>1, <2>2, <2>3, RequestHeadersCounts, RequestBodyCounts, ResponseHeadersCounts,
       ResponseBodyCounts DEF Next, Finished, Gate
  <2> QED
    BY <2>1, <2>3
<1> QED
  BY <1>1, <1>2, TypeCorrect, GateHolds, PTL DEF Spec

\* validation_errors and the WAF's counter of scans tell what happened on the
\* stream, over all its callbacks.
THEOREM CountersCorrect == Spec => []CountersTellStream
<1>1. ErrorBooks /\ WafBooks => CountersTellStream
  <2> SUFFICES ASSUME ErrorBooks, WafBooks PROVE CountersTellStream
    OBVIOUS
  <2>1. ASSUME NEW side \in Sides
        PROVE  modsec_metrics[side].scans = IF scan[side].result = NoScan THEN 0 ELSE 1
    BY DEF WafBooks, RecordOf, NoScans, CountScan
  <2> QED
    BY <2>1 DEF ErrorBooks, CountersTellStream
<1> QED
  BY <1>1, ErrorBooksHold, WafBooksHold, PTL

\* on_request_headers: the verdict is that of the head's checks.
LEMMA RequestHeadersVerdict ==
    ASSUME TypeOK, StreamOrder, ScanOrder, VerdictBooks, NEW end_of_stream \in BOOLEAN,
           OnRequestHeaders(end_of_stream)
    PROVE  VerdictBooks'
<1>1. /\ stream = "new" /\ upstream = "none" /\ reply = NoReply /\ ~context
      /\ metadata["request"] = NoVerdict /\ request_errors = <<>>
      /\ cfg' = cfg /\ stream' = IF end_of_stream THEN "headers" ELSE "open"
      /\ ~cfg.validate_request => current_operation = None
  BY DEF OnRequestHeaders, StreamOrder, ScanOrder, VerdictBooks, Delivered, NoReply
<1>2. CASE SkipRequestHeaders(end_of_stream)
  BY <1>1, <1>2 DEF SkipRequestHeaders, VerdictBooks, NoReply
<1>3. CASE RejectUnrouted
  <2>1. reply' # NoReply
    BY <1>3, ReplyEnds DEF RejectUnrouted, Reply
  <2> QED
    BY <1>1, <1>3, <2>1 DEF RejectUnrouted, VerdictBooks
<1>4. ASSUME NEW h \in Heads, RejectPathTypes(h) \/ RejectLongQuery(h)
      PROVE  VerdictBooks'
  <2>1. reply' # NoReply
    BY <1>4, ReplyEnds DEF RejectPathTypes, RejectLongQuery, Reply, RoutingReply
  <2>2. request_errors' \in Seq(HeadError)
    <3>1. <<"path_types">> \in Seq(HeadError)
      BY DEF HeadError, RequestError
    <3> QED
      BY <1>4, <3>1, HeadErrorsFound DEF RejectPathTypes, RejectLongQuery
  <2> QED
    BY <1>1, <1>4, <2>1, <2>2 DEF RejectPathTypes, RejectLongQuery, VerdictBooks
<1>5. ASSUME NEW op \in Operations, NEW h \in Heads, RejectHead(op, h)
      PROVE  VerdictBooks'
  <2>1. reply' # NoReply
    BY <1>5, ReplyEnds DEF RejectHead, Reply, RoutingReply
  <2>2. /\ request_errors' = HeaderErrors(h) /\ request_errors' \in Seq(HeadError)
        /\ request_errors' # <<>> /\ cfg.validate_request /\ upstream' = "none"
    BY <1>1, <1>5, HeadErrorsFound DEF RejectHead, CheckHead
  <2>3. metadata'["request"] = Report(request_errors')
    BY <1>5, MetadataWritten DEF RejectHead
  <2> QED
    BY <1>1, <2>1, <2>2, <2>3 DEF VerdictBooks
<1>6. ASSUME NEW op \in Operations, NEW h \in Heads,
             NEW d \in ScanAnswers(cfg.scan_request /\ end_of_stream),
             AcceptHead(op, h, end_of_stream, d)
      PROVE  VerdictBooks'
  <2> DEFINE errors == HeaderErrors(h)
             disposition == ScanDisposition("request", d)
             missing == disposition = "pass" /\ MissingBody(op, end_of_stream)
  <2>1. errors \in Seq(HeadError) /\ cfg.validate_request
    BY <1>6, HeadErrorsFound DEF AcceptHead, CheckHead
  <2>2. /\ request_errors' = errors \o ErrorIf(missing, "missing_body")
        /\ SetMetadata("request", IF cfg.fail_on_request_error THEN request_errors' ELSE errors)
    BY <1>6 DEF AcceptHead
  <2> HIDE DEF errors
  <2>3. CASE ~missing
    <3>1. request_errors' = errors
      BY <2>1, <2>2, <2>3 DEF ErrorIf
    <3>2. metadata'["request"] = Report(request_errors') /\ Reported(request_errors') = request_errors'
      BY <2>1, <2>2, <3>1, MetadataWritten, AllReported
    <3>3. disposition # "400"
      BY Dispositions
    <3>4. reply'.status # "400"
      BY <1>1, <1>6, <2>3, <3>3 DEF AcceptHead, ReplyWith, NoReply
    <3> QED
      BY <1>1, <2>1, <3>1, <3>2, <3>4 DEF VerdictBooks
  <2>4. CASE missing
    <3>1. stream' = "headers" /\ end_of_stream
      BY <1>1, <2>4 DEF MissingBody
    <3>2. request_errors' = errors \o <<"missing_body">>
      BY <2>2, <2>4 DEF ErrorIf
    <3>3. request_errors' # <<>> /\ Reported(request_errors') = errors
      BY <2>1, <3>2, HeadReported
    <3>4. CASE cfg.fail_on_request_error
      <4>1. ReplyWith("400") /\ upstream' = "none"
        BY <1>1, <1>6, <2>4, <3>4 DEF AcceptHead
      <4>2. reply' # NoReply
        BY <4>1, ReplyEnds DEF Reply, RoutingReply
      <4>3. metadata'["request"] = Report(request_errors')
        BY <2>2, <3>4, MetadataWritten
      <4> QED
        BY <1>1, <2>1, <3>1, <3>3, <4>1, <4>2, <4>3 DEF VerdictBooks
    <3>5. CASE ~cfg.fail_on_request_error
      <4>1. reply'.status # "400"
        BY <1>1, <1>6, <2>4, <3>5 DEF AcceptHead, ReplyWith, NoReply
      <4>2. metadata'["request"] = Report(Reported(request_errors'))
        BY <2>2, <3>3, <3>5, MetadataWritten
      <4> QED
        BY <1>1, <2>1, <3>1, <4>1, <4>2 DEF VerdictBooks
    <3> QED
      BY <3>4, <3>5
  <2> QED
    BY <2>3, <2>4
<1> QED
  BY <1>2, <1>3, <1>4, <1>5, <1>6 DEF OnRequestHeaders

\* A callback that judges nothing of the request leaves its verdict alone.
LEMMA QuietVerdict ==
    ASSUME VerdictBooks, stream # "new", reply = NoReply, reply'.status # "400",
           UNCHANGED <<cfg, current_operation, request_errors, context>>,
           metadata'["request"] = metadata["request"],
           stream' = stream \/ (stream # "headers" /\ stream' # "new")
    PROVE  VerdictBooks'
BY DEF VerdictBooks

\* on_request_body: its verdict covers the errors of the head.
LEMMA RequestBodyVerdict ==
    ASSUME TypeOK, VerdictBooks, OnRequestBody
    PROVE  VerdictBooks'
<1>1. /\ stream = "open" /\ reply = NoReply /\ cfg' = cfg /\ stream' \in {"unbuffered", "body"}
      /\ request_errors \in Seq(HeadError)
  BY DEF OnRequestBody, StreamOver, VerdictBooks, PassUnbufferedBody, RejectLargeBody,
         StopBodyByScan, JudgeBody, PassBodyUnvalidated
<1>2. ASSUME UNCHANGED <<current_operation, request_errors, context, metadata>>,
             reply'.status # "400"
      PROVE  VerdictBooks'
  BY <1>1, <1>2, QuietVerdict
<1>3. CASE PassUnbufferedBody \/ RejectLargeBody
  <2>1. reply'.status # "400"
    BY <1>1, <1>3 DEF PassUnbufferedBody, RejectLargeBody, ReplyWith, NoReply
  <2> QED
    BY <1>2, <1>3, <2>1 DEF PassUnbufferedBody, RejectLargeBody
<1>4. ASSUME NEW d, StopBodyByScan(d)
      PROVE  VerdictBooks'
  <2>1. ScanDisposition("request", d) # "400"
    BY Dispositions
  <2> QED
    BY <1>2, <1>4, <2>1 DEF StopBodyByScan, ReplyWith
<1>5. ASSUME NEW d, PassBodyUnvalidated(d)
      PROVE  VerdictBooks'
  BY <1>1, <1>2, <1>5 DEF PassBodyUnvalidated, NoReply
<1>6. ASSUME NEW d, NEW empty \in BOOLEAN, NEW check \in BodyChecks, JudgeBody(empty, check, d)
      PROVE  VerdictBooks'
  <2> DEFINE found == BodyErrors(empty, check)
  <2>1. found \in Seq(HeadError)
    BY ErrorIfType DEF BodyErrors, HeadError, RequestError, RequestBodyValid
  <2>2. /\ request_errors' = request_errors \o found
        /\ SetMetadata("request", request_errors \o found)
        /\ cfg.validate_request /\ UNCHANGED <<current_operation, context>>
    BY <1>6, ConfigType DEF JudgeBody, ReportBody, VerdictBooks, Config
  <2>3. reply'.status = "400" => found # <<>>
    BY <1>1, <1>6 DEF JudgeBody, BodyFails, ReplyWith, NoReply
  <2> HIDE DEF found
  <2>4. request_errors' \in Seq(HeadError) /\ (found # <<>> => request_errors' # <<>>)
    BY <1>1, <2>1, <2>2
  <2>5. metadata'["request"] = Report(request_errors') /\ Reported(request_errors') = request_errors'
    BY <2>2, <2>4, MetadataWritten, AllReported
  <2> QED
    BY <1>1, <2>2, <2>3, <2>4, <2>5 DEF VerdictBooks
<1> QED
  BY <1>3, <1>4, <1>5, <1>6 DEF OnRequestBody

\* The callbacks of the response write nothing of the request's verdict.
LEMMA ResponseVerdict ==
    ASSUME TypeOK, StreamOrder, VerdictBooks,
           OnResponseBody \/ \E end_of_stream \in BOOLEAN : OnResponseHeaders(end_of_stream)
    PROVE  VerdictBooks' /\ metadata'["request"] = metadata["request"]
<1>1. /\ stream # "new" /\ reply = NoReply
      /\ UNCHANGED <<cfg, stream, current_operation, request_errors, context>>
  BY DEF OnResponseHeaders, OnResponseBody, StreamOver, StreamOrder, requestSide
<1>2. metadata' = metadata \/ \E errors : SetMetadata("response", errors)
  BY DEF OnResponseHeaders, OnResponseBody, SkipResponseHeaders, JudgeResponseHeaders,
         SkipResponseBody, PassUnbufferedResponse, StopResponseByScan, JudgeResponseBody
<1>3. metadata'["request"] = metadata["request"]
  BY <1>2, MetadataWritten
<1>4. reply' = reply \/ \E d : ReplyWith(ScanDisposition("response", d))
  BY DEF OnResponseHeaders, OnResponseBody, SkipResponseHeaders, JudgeResponseHeaders,
         SkipResponseBody, PassUnbufferedResponse, StopResponseByScan, JudgeResponseBody
<1>5. reply'.status # "400"
  BY <1>1, <1>4, Dispositions DEF ReplyWith, NoReply
<1> QED
  BY <1>1, <1>3, <1>5, QuietVerdict

LEMMA TrailersVerdict == VerdictBooks /\ RequestTrailers => VerdictBooks'
BY QuietVerdict DEF RequestTrailers, StreamOver, NoReply

LEMMA VerdictBooksHold == Spec => []VerdictBooks
<1>1. Init => VerdictBooks
  BY DEF Init, VerdictBooks, NoReply, HeadError
<1>2. TypeOK /\ Gate /\ ScanOrder /\ WafBooks /\ VerdictBooks /\ [Next]_vars => VerdictBooks'
  <2>1. CASE UNCHANGED vars
    BY <2>1 DEF vars, VerdictBooks
  <2>2. CASE Next
    BY <2>1, <2>2, RequestHeadersVerdict, RequestBodyVerdict, TrailersVerdict, ResponseVerdict
    DEF Next, Finished, Gate
  <2> QED
    BY <2>1, <2>2
<1> QED
  BY <1>1, <1>2, TypeCorrect, GateHolds, WafBooksHold, PTL DEF Spec

\* The metadata of a request that goes on tells all its errors but a missing
\* body, and that of one refused with 400 tells them all.
THEOREM VerdictsCorrect == Spec => []VerdictTellsErrors
<1>1. VerdictBooks => VerdictTellsErrors
  BY DEF VerdictBooks, VerdictTellsErrors
<1> QED
  BY <1>1, VerdictBooksHold, PTL

\* No callback takes a request's verdict or one of its errors back.
THEOREM VerdictsStay == Spec => VerdictNeverRecovers
<1>1. ASSUME TypeOK, StreamOrder, VerdictBooks, [Next]_vars, metadata["request"].verdict = "invalid"
      PROVE  /\ metadata'["request"].verdict = "invalid"
             /\ metadata'["request"].error_count >= metadata["request"].error_count
  <2>1. metadata["request"].error_count \in Nat
    BY <1>1 DEF TypeOK
  <2>2. CASE metadata'["request"] = metadata["request"]
    BY <1>1, <2>1, <2>2
  <2>3. ASSUME NEW end_of_stream \in BOOLEAN, OnRequestHeaders(end_of_stream)
        PROVE  FALSE
    BY <1>1, <2>3 DEF OnRequestHeaders, VerdictBooks, NoVerdict
  <2>4. ASSUME NEW d, NEW empty \in BOOLEAN, NEW check \in BodyChecks,
               stream = "open", reply = NoReply, JudgeBody(empty, check, d)
        PROVE  /\ metadata'["request"].verdict = "invalid"
               /\ metadata'["request"].error_count >= metadata["request"].error_count
    <3> DEFINE found == BodyErrors(empty, check)
    <3>1. found \in Seq(HeadError)
      BY ErrorIfType DEF BodyErrors, HeadError, RequestError, RequestBodyValid
    <3>2. /\ SetMetadata("request", request_errors \o found)
          /\ cfg.validate_request /\ request_errors \in Seq(HeadError)
      BY <1>1, <2>4, ConfigType DEF JudgeBody, ReportBody, VerdictBooks, Config
    <3> HIDE DEF found
    <3>3. metadata["request"] = Report(request_errors)
      BY <1>1, <2>4, <3>2, AllReported DEF VerdictBooks
    <3>4. metadata'["request"] = Report(request_errors \o found)
      BY <1>1, <3>2, MetadataWritten
    <3>5. request_errors # <<>>
      BY <1>1, <3>3 DEF Report
    <3>6. /\ request_errors \o found # <<>>
          /\ Len(request_errors \o found) >= Len(request_errors)
      BY <3>1, <3>2, <3>5
    <3> QED
      BY <3>3, <3>4, <3>6 DEF Report
  <2>5. CASE OnRequestBody
    <3>1. stream = "open" /\ reply = NoReply
      BY <2>5 DEF OnRequestBody, StreamOver
    <3> QED
      BY <2>2, <2>4, <2>5, <3>1 DEF OnRequestBody, PassUnbufferedBody, RejectLargeBody,
         StopBodyByScan, PassBodyUnvalidated
  <2> QED
    BY <1>1, <2>2, <2>3, <2>5, ResponseVerdict DEF Next, Finished, RequestTrailers, vars
<1>2. TypeOK /\ Gate /\ VerdictBooks /\ [Next]_vars =>
        [metadata["request"].verdict = "invalid"
          => /\ metadata'["request"].verdict = "invalid"
             /\ metadata'["request"].error_count >= metadata["request"].error_count]_vars
  BY <1>1 DEF Gate
<1> QED
  BY <1>2, TypeCorrect, GateHolds, VerdictBooksHold, PTL DEF Spec, VerdictNeverRecovers
=============================================================================
