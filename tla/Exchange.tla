------------------------------ MODULE Exchange ------------------------------
(***************************************************************************)
(* What the filter finds in a request and sends as a mock (src/filter.rs,  *)
(* src/validation, src/mock.rs): the head as RequestHead has it, the body, *)
(* the mock response.  Filter has what the verdicts lead to; here they are *)
(* reached.                                                                *)
(***************************************************************************)
EXTENDS RequestBody, Mock

CONSTANTS
    MaxJsonDepth,   \* max_json_depth of the security limits
    MockConfigs,    \* the configurations of mocking
    ReplySchemas,   \* the schemas of responses, as they are written
    Depth(_),       \* estimate_json_depth: how deep a value nests
    SchemasIn(_)    \* the schemas within a schema, itself among them

ASSUME ExchangeAssumption == MaxJsonDepth \in Nat

\* The schemas that are inlined in a resolved one.
Subschemas(r) == Inner(r) \cup r.oneOf \cup ({r.additional} \ {NoSchema})

\* One level of the function, which calls itself: within is what it gives for the
\* schemas of a resolved one.  That it ends is shown for Resolver.
resolve_schema_deep(r, within) ==
    [r EXCEPT !.items = IF @ = NoSchema THEN NoSchema ELSE within[@],
              !.additional = IF @ = NoSchema THEN NoSchema ELSE within[@],
              !.oneOf = {within[x] : x \in @},
              !.properties = [k \in DOMAIN @ |-> within[@[k]]]]

\* The schemas of responses have those within among them, and none contains itself;
\* only arrays have items.  jsonschema says of what is generated what JSON Schema
\* says; a failure is no value.
ASSUME MockAssumption ==
    /\ Bad # Panic /\ MaxInteger \in Int /\ Inlined(NoSchema) = NoSchema
    /\ \A s \in ReplySchemas :
          LET r == Resolved(s)  i == Inlined(s) IN
          /\ r # NoSchema /\ i # NoSchema /\ DOMAIN r = DOMAIN Schema(r.type)
          /\ {r.lo, r.hi} \subseteq Int \cup {Unbounded}
          /\ Inner(r) \subseteq ReplySchemas
          /\ i = resolve_schema_deep(r, [c \in Subschemas(r) |-> Inlined(c)])
          /\ Generated(r) = generate_from_json_schema(r, [c \in Inner(r) |-> Generated(Resolved(c))])
          /\ \A v \in Generated(r) \ Failures : Accepts(i, v) <=> JsonSchema(Accepts, i, v)
          /\ SchemasIn(i) = {i} \cup UNION {SchemasIn(x) : x \in Inner(i)} /\ IsFiniteSet(SchemasIn(i))
          /\ \A x \in Inner(i) : i \notin SchemasIn(x)
    /\ \A op \in Operations : \A code \in DOMAIN op.responses :
          LET response == op.responses[code] IN
          /\ DOMAIN response.content \subseteq Nat
          /\ \A c \in Range(response.content) : c.schema # NoSchema => c.schema \in ReplySchemas
          /\ \A h \in DOMAIN response.headers :
                LET s == response.headers[h].schema IN
                /\ s.items # NoSchema => s.type = "array"
                /\ \A t \in generate_header_value(s) : \A v \in Readings(t) :
                      v # Bad /\ (Accepts(s, v) <=> JsonSchema(Accepts, s, v))

VARIABLE mock  \* the mock response sent, or the failure to make one

vars == <<bodyVars, mock>>

NoMock == [code |-> NoCode, headers |-> <<>>, body |-> Bad]

Init == BodyInit /\ mock = NoMock

-----------------------------------------------------------------------------
\* The body of a request.

NoBody == [empty |-> TRUE]

\* The values right within a value, by index or by name.
InnerValues(v) ==
    CASE Is(v, "array") -> v.array [] Is(v, "object") -> v.object [] OTHER -> <<>>

\* One level of the nesting of a JSON text, which the scan of its brackets finds:
\* depths are those of the values right within.
estimate_json_depth(v, depths) ==
    IF Is(v, "array") \/ Is(v, "object")
    THEN 1 + (CHOOSE n \in depths \cup {0} : \A m \in depths : m <= n)
    ELSE 0

\* body_to_json_secure, of what is no form: JSON, XML without a limit of its depth, and
\* no other type.
body_to_json_secure(body, m) ==
    CASE is_json_media_type(m) ->
            IF Is(body, "json") /\ Depth(body.json) <= MaxJsonDepth THEN body.json ELSE Bad
      [] ~is_json_media_type(m) /\ m.main \in {"application", "text"} /\ m.sub = "xml" ->
            IF Is(body, "xml") THEN body.xml ELSE Bad
      [] OTHER -> Bad

\* validate_body_with_schema.
BodyFails ==
    LET spec == Operation.body
        body == request.body
    IN  /\ spec # NoRequestBody
        /\ IF body = NoBody THEN spec.required
           ELSE Content = NoContent \/ ValueFails(body_to_json_secure(body, request.media))

CheckBody ==
    /\ stage = "body" /\ ~FormBody
    /\ Judge("body", BodyFails, "mock")
    /\ UNCHANGED <<read, map, mock>>

-----------------------------------------------------------------------------
\* Mock responses, and what the filter requires of responses.

\* generate_mock_response; Bad is its failure, when nothing is sent.
SendMock ==
    /\ stage = "mock"
    /\ \E config \in MockConfigs : \E code \in determine_status_code(Operation, config) :
          LET response == get_response_for_status(Operation, code) IN
          /\ response # NoResponse
          /\ \E body \in MockBodies(response, config) :
             \E headers \in generate_response_headers(response) :
                /\ mock' = [code |-> code, headers |-> headers, body |-> body]
                /\ stage' = IF body = Panic THEN "crashed" ELSE "route"
    /\ UNCHANGED <<routerVars, errors, read, map>>

\* Mocking is not enabled, or there is no response to mock.
SendNoMock ==
    /\ stage = "mock"
    /\ stage' = "route"
    /\ UNCHANGED <<routerVars, errors, read, map, mock>>

\* A panic in a callback aborts the process.
Aborted == stage = "crashed" /\ UNCHANGED vars

Next ==
    \/ Route /\ read' = 0 /\ map' = <<>> /\ mock' = NoMock
    \/ CheckPathTypes /\ UNCHANGED <<read, map, mock>>
    \/ CheckPath /\ UNCHANGED <<read, map, mock>>
    \/ CheckQuery /\ UNCHANGED <<read, map, mock>>
    \/ CheckHeaders /\ UNCHANGED <<read, map, mock>>
    \/ ReadField /\ UNCHANGED mock
    \/ CheckForm /\ UNCHANGED mock
    \/ CheckBody \/ SendMock \/ SendNoMock \/ Aborted

Spec == Init /\ [][Next]_vars

\* validate_response_headers.
ResponseHeadersPass(response, headers) ==
    \A h \in DOMAIN response.headers :
        IF h \in DOMAIN headers THEN ParamValid(headers[h], Resolved(response.headers[h].schema))
        ELSE ~response.headers[h].required

\* validate_response_body_with_schema: whatever the type of the body is.
ResponseBodyPasses(response, body) ==
    LET content == find_json_content(response.content) IN
    content # NoContent =>
        /\ Is(body, "json") /\ Depth(body.json) <= MaxJsonDepth
        /\ content.schema # NoSchema => Accepts(Inlined(content.schema), body.json)

-----------------------------------------------------------------------------
\* Properties

\* The generator keeps to all that s itself says.
Keeps(s) ==
    LET unbounded == s.lo = Unbounded /\ s.hi = Unbounded IN
    CASE s.type = "string"  -> IF s.enum = {} THEN unbounded
                               ELSE \A t \in s.enum : Within(Chars(t), s)
      [] s.type = "integer" -> s.lo # Unbounded \/ s.hi = Unbounded
      [] s.type = "number"  -> unbounded
      [] s.type = "array"   -> unbounded /\ s.items # NoSchema
      [] s.type = "object"  -> s.required \subseteq DOMAIN s.properties
      [] OTHER -> s.type \in {"boolean", "any"}

\* An integer is to be above its own limit, or a thousand above it is no integer of
\* the machine.
Rangeless(s) ==
    /\ s.type = "integer" /\ s.lo # Unbounded
    /\ IF s.hi # Unbounded THEN s.lo > s.hi ELSE s.lo > MaxInteger - 1000

\* A header the generator writes as its schema has it.
Written(h) ==
    IF h.reference THEN ~h.required
    ELSE /\ h.schema.type \in {"string", "integer"} /\ Keeps(h.schema)
         /\ h.schema.lo = Unbounded /\ h.schema.enum = {}

\* A mock response passes the checks of responses where its schemas say no more
\* than the generator looks at, every example is one of its schema and the body
\* nests no deeper than bodies may, if the generator and the check agree on which of
\* its types are JSON; and the generator panics only over a schema that nothing
\* satisfies, or whose minimum is among the last thousand integers.
MockPassesValidation ==
    mock # NoMock =>
        LET response == get_response_for_status(Operation, mock.code)
            content == find_json_content(response.content)
            Sound(c) == /\ c.schema # NoSchema /\ \A x \in SchemasIn(Inlined(c.schema)) : Keeps(x)
                        /\ c.example # NoExample => /\ c = content
                                                    /\ Accepts(Inlined(c.schema), c.example)
                        /\ "json" \in c.type.words <=> is_json_media_type(c.type)
        IN  /\ mock.body = Panic =>
                  \E c \in Range(response.content) :
                      c.schema # NoSchema /\ \E x \in SchemasIn(Inlined(c.schema)) : Rangeless(x)
            /\ mock.body \notin Failures =>
                  /\ (\A h \in DOMAIN response.headers : Written(response.headers[h])) =>
                        ResponseHeadersPass(response, mock.headers)
                  /\ /\ \A c \in Range(response.content) : Sound(c)
                     /\ Is(mock.body, "json") => Depth(mock.body.json) <= MaxJsonDepth
                     => ResponseBodyPasses(response, mock.body)

\* docs/architecture.md: JSON types with a +json suffix are supported as the
\* content type of a body.
VendoredJsonAccepted ==
    stage = "mock" /\ "body" \in errors /\ request.media.suffix = "json" =>
        ~\E c \in Range(Operation.body.content) : /\ c.type = request.media
                                                  /\ Is(request.body, "json")
                                                  /\ Accepts(Inlined(c.schema), request.body.json)

\* docs/architecture.md: multipart/form-data is supported as the content type of a
\* body, whatever the boundary of its parts is.
MultipartAccepted ==
    /\ stage = "mock" /\ "body" \in errors
    /\ request.media.main = "multipart" /\ IsForm(request.media) /\ Coerces(request.media)
    /\ Is(request.body, "form")
    => ~\E c \in Typed(Operation.body.content, extract_media_type(request.media)) :
            /\ c.schema # NoSchema /\ HasTypes(Inlined(c.schema))
            /\ \E v \in FormReadings(request.body.form) : Accepts(Inlined(c.schema), v)
=============================================================================
