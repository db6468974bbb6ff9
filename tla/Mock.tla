-------------------------------- MODULE Mock --------------------------------
(***************************************************************************)
(* Mock responses (src/mock.rs), generated from the examples or the        *)
(* schemas of an operation.  What is chosen at random is a set of choices; *)
(* a range is chosen from by its ends, as bounds are all that schemas say  *)
(* of numbers and of lengths.                                              *)
(***************************************************************************)
EXTENDS Bodies

CONSTANTS
    NoCode,         \* default_status_code: None
    NoExample,      \* a media type without an example
    NoResponse,     \* no response for a status code
    MaxInteger,     \* the largest of the machine's integers
    Generated(_)    \* generate_from_json_schema: what is generated for a schema

\* Classes of status codes; a response is for a code, a class or all others.
Success == {"200", "201"}
ClassOf(code) == IF code \in Success THEN "2XX" ELSE "4XX"

determine_status_code(op, config) ==
    LET possible == (Success \cap DOMAIN op.responses)
                    \cup (IF "2XX" \in DOMAIN op.responses THEN {"200"} ELSE {})
    IN  CASE config.default_status_code # NoCode -> {config.default_status_code}
          [] config.default_status_code = NoCode /\ possible # {} -> possible
          [] OTHER -> IF "default" \in DOMAIN op.responses THEN {"200"} ELSE {}

\* The code, its class, or default.
get_response_for_status(op, code) ==
    CASE code \in DOMAIN op.responses -> op.responses[code]
      [] code \notin DOMAIN op.responses /\ ClassOf(code) \in DOMAIN op.responses ->
            op.responses[ClassOf(code)]
      [] OTHER -> IF "default" \in DOMAIN op.responses THEN op.responses["default"]
                  ELSE NoResponse

\* Words of fake, outside of the repository, from short to long.
Words == {[string |-> Single(Atom("word", 0, n, n))] : n \in {2, 14}}

\* The generator panics.
Panic == [panic |-> TRUE]

Failures == {Bad, Panic}

\* Faulty variant: the minimum is not looked at.
RandomIntegerAnywhere(s) == {1, 999}

\* gen_range(min..=max); none when it panics, as the range is empty or min + 1000
\* has wrapped around.
RandomInteger(s) ==
    CASE s.lo = Unbounded -> {1, 999}
      [] s.lo # Unbounded /\ s.hi = Unbounded ->
            IF s.lo + 1000 <= MaxInteger THEN {s.lo, s.lo + 1000} ELSE {}
      [] OTHER -> IF s.lo <= s.hi THEN {s.lo, s.hi} ELSE {}

\* The items of an array are alike here: each is judged by itself.
GeneratedArrays(item) ==
    (item \cap Failures) \cup {[array |-> [i \in 1..n |-> v]] : n \in {1, 5}, v \in item \ Failures}

\* What fails within fails the whole.
GeneratedObjects(each) ==
    LET failed == Failures \cap UNION {each[k] : k \in DOMAIN each}
    IN  IF failed # {} THEN failed ELSE {[object |-> f] : f \in OneOfEach(each)}

\* The schemas right within a schema.
Inner(s) == ({s.items} \ {NoSchema}) \cup {s.properties[k] : k \in DOMAIN s.properties}

\* One level of the function, which calls itself: within is what it gives for the
\* schemas right within.
generate_from_json_schema(s, within) ==
    CASE s.type = "string"  -> IF s.enum = {} THEN Words ELSE {[string |-> t] : t \in s.enum}
      [] s.type = "number"  -> {[number |-> n] : n \in {0, 999}}
      [] s.type = "integer" -> IF RandomInteger(s) = {} THEN {Panic}
                               ELSE {[integer |-> n] : n \in RandomInteger(s)}
      [] s.type = "boolean" -> {[boolean |-> b] : b \in BOOLEAN}
      [] s.type = "array"   -> IF s.items = NoSchema THEN {Bad}
                               ELSE GeneratedArrays(within[s.items])
      [] s.type = "object"  -> GeneratedObjects([k \in DOMAIN s.properties |-> within[s.properties[k]]])
      [] s.type = "any"     -> {[object |-> <<>>]}
      [] OTHER -> {Bad}

\* The text of a header: the bounds of the schema are not looked at.
generate_header_value(s) ==
    CASE s.type = "string"  -> {w.string : w \in Words}
      [] s.type = "integer" -> {Single(Atom("integer", n, 3, 3)) : n \in {1, 999}}
      [] OTHER -> {Single(Atom("word", 0, 10, 10))}

\* A header that is a reference is left out; one whose schema is a reference has
\* a fixed word.
generate_response_headers(response) ==
    OneOfEach([h \in {n \in DOMAIN response.headers : ~response.headers[n].reference} |->
                generate_header_value(response.headers[h].schema)])

\* XML for a type that has xml somewhere and not json, and JSON for all others.
serialize_for_content_type(v, type) ==
    IF "xml" \in type.words /\ "json" \notin type.words THEN [xml |-> v] ELSE [json |-> v]

\* The first content with an example.
generate_from_example(response) ==
    LET c == First(response.content, {x \in Range(response.content) : x.example # NoExample})
    IN  IF c = NoContent THEN {} ELSE {serialize_for_content_type(c.example, c.type)}

\* What the generator takes for JSON: any type with json somewhere, where responses
\* are checked by is_json_media_type.
NamedJson(content) == JsonOr(content, {c \in Range(content) : "json" \in c.type.words})

\* application/json, another type with json, the first content.
generate_from_schema(response) ==
    LET json == NamedJson(response.content)
        c == IF json # NoContent THEN json ELSE First(response.content, Range(response.content))
    IN  IF c.schema = NoSchema THEN {Bad}
        ELSE {IF v \in Failures THEN v ELSE serialize_for_content_type(v, c.type) :
                v \in Generated(Resolved(c.schema))}

\* The bodies that can be generated, Bad or Panic among them.
MockBodies(response, config) ==
    LET example == generate_from_example(response)
    IN  IF config.prefer_examples /\ example # {} THEN example ELSE generate_from_schema(response)
=============================================================================
