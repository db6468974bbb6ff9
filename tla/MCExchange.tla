----------------------------- MODULE MCExchange -----------------------------
(***************************************************************************)
(* Instances of Exchange for TLC.                                          *)
(***************************************************************************)
EXTENDS Exchange

CONSTANTS id, q, h, n, f, l, GET, POST

\* Texts: 7, 1500, 7.5, true, yes, ab, two characters of four bytes, nothing;
\* 7,0 and 7,ab and the JSON array [7].
Seven == Atom("integer", 7, 1, 1)
Nought == Atom("integer", 0, 1, 1)
Word == Atom("word", 0, 2, 2)
ValueTexts == {Single(Seven), Single(Nought), Single(Atom("integer", 1500, 4, 4)),
          Single(Atom("number", 7, 3, 3)), Single(Atom("boolean", 1, 4, 4)),
          Single(Atom("flag", 1, 3, 3)), Single(Word), Single(Atom("word", 0, 2, 4)),
          Text(<<Seven, Nought>>), Text(<<Seven, Word>>),
          [atoms |-> <<Seven>>, json |-> TRUE]}
Empty == Single(Atom("word", 0, 0, 0))
items == Single(Atom("word", 0, 5, 5))
new == Single(Atom("word", 0, 3, 3))
MCTexts == ValueTexts \cup {Empty, items, new}
MCSegments == MCTexts \cup {id, q}

\* Schemas.
Integer == Schema("integer")
Small == [Integer EXCEPT !.lo = 1, !.hi = 100]
Large == [Integer EXCEPT !.lo = 1000]
Topmost == [Integer EXCEPT !.lo = 4500]
Wrong == [Integer EXCEPT !.lo = 5, !.hi = 2]
Short == [Schema("string") EXCEPT !.hi = 2]
Chosen == [Schema("string") EXCEPT !.enum = {Single(Word), Single(Seven)}]
Boolean == Schema("boolean")
Number == Schema("number")
ListOf(s) == [Schema("array") EXCEPT !.items = s]
Ref(name) == [Schema("ref") EXCEPT !.target = name]
Object(properties, required) ==
    [Schema("object") EXCEPT !.properties = properties, !.required = required]
Either == [Schema("oneOf") EXCEPT !.oneOf = {Integer, Short}]
MCComponents == ("Small" :> Small) @@ ("List" :> ListOf(Ref("Small")))
RECURSIVE MCAccepts(_, _)
MCAccepts(s, v) == JsonSchema(MCAccepts, s, v)
Shape == Object((n :> Ref("Small")) @@ (f :> Boolean) @@ (l :> ListOf(Integer)), {n})

\* Contents and operations.
Json == MediaType("application", "json", "", {"json"})
Vendored == MediaType("application", "vnd.api", "json", {"json"})
Geo == MediaType("application", "geo", "json", {"json"})
GeoSeq == MediaType("application", "geo", "json-seq", {"json"})
Lines == MediaType("application", "x-ndjson", "", {"json"})
Form == MediaType("application", "x-www-form-urlencoded", "", {"x-www-form-urlencoded"})
TextForm == [Form EXCEPT !.main = "text"]
Parts == MediaType("multipart", "form-data", "", {"multipart/form-data"})
AnyType == MediaType("*", "*", "", {})
Xml == MediaType("application", "xml", "", {"xml"})
\* With parameters: boundaries, one of them with json in it; with capitals; unreadable.
Bounded == [Parts EXCEPT !.boundary = TRUE, !.exact = FALSE]
JsonBounded == [Bounded EXCEPT !.words = @ \cup {"json"}]
Capitals(type) == [type EXCEPT !.words = {}, !.exact = FALSE]
Unreadable == [MediaType("", "", "", {"json"}) EXCEPT !.exact = FALSE]
Media(type, schema, example) == [type |-> type, schema |-> schema, example |-> example]
Param(in, name, required, schema) ==
    [in |-> in, name |-> name, required |-> required, schema |-> schema, resolves |-> TRUE]
Op(params, body, responses) == [params |-> params, body |-> body, responses |-> responses]
Params(path, query, header) ==
    Op(<<Param("path", id, TRUE, path), Param("query", q, TRUE, query),
         Param("header", h, FALSE, header)>>, NoRequestBody, <<>>)
Body(content) == Op(<<>>, [required |-> TRUE, content |-> content], <<>>)
Header(schema, required) == [reference |-> FALSE, required |-> required, schema |-> schema]
Mocked(responses) == Op(<<>>, NoRequestBody, responses)
Reply(headers, content) == [headers |-> headers, content |-> content]
JsonReply(schema) == Reply(<<>>, <<Media(Json, schema, NoExample)>>)

Heads == {
    Params(Small, Integer, Chosen), Params(Short, ListOf(Integer), Boolean),
    Params(Number, ListOf(Ref("Small")), Either), Params(Boolean, Ref("List"), Integer),
    Params(Ref("Small"), Chosen, Short), Params(Chosen, Number, ListOf(Boolean)),
    Op(<<Param("path", id, TRUE, Integer),
         [Param("header", h, FALSE, Integer) EXCEPT !.resolves = FALSE]>>, NoRequestBody, <<>>)}
Bodies == {
    Body(<<Media(Json, Shape, NoExample), Media(Form, Shape, NoExample)>>),
    Body(<<Media(AnyType, Shape, NoExample)>>), Body(<<Media(Form, Schema("any"), NoExample)>>),
    Body(<<Media(Form, Object((l :> ListOf(Boolean)) @@ (n :> Number) @@ (f :> Chosen), {}), NoExample)>>),
    Body(<<Media(Form, [Object(f :> Boolean, {}) EXCEPT !.additional = Integer], NoExample),
           Media(Parts, [Object(f :> Boolean, {}) EXCEPT !.additional = Schema("never")], NoExample),
           Media(Xml, Object(n :> Short, {n}), NoExample)>>),
    Body(<<Media(Parts, Object(f :> Schema("object"), {f}), NoExample), Media(Json, NoSchema, NoExample)>>)}
Vendors == Body(<<Media(Vendored, Shape, NoExample)>>)
Replies == {
    Mocked("200" :> JsonReply(Large)), Mocked("200" :> JsonReply(Topmost)),
    Mocked("2XX" :> JsonReply(ListOf(Small))),
    Mocked(("200" :> JsonReply(Wrong)) @@ ("201" :> JsonReply(Chosen))),
    Mocked("201" :> JsonReply(ListOf(ListOf(Ref("List"))))),
    Mocked("200" :> JsonReply([Chosen EXCEPT !.hi = 1])),
    Mocked("default" :> JsonReply(Object((n :> Ref("List")) @@ (f :> Boolean), {n, f}))),
    Mocked(("200" :> JsonReply(Either)) @@ ("4XX" :> JsonReply(Short))),
    Mocked("200" :> Reply(h :> Header(Schema("string"), TRUE),
                         <<Media(Xml, Short, [string |-> items]), Media(Json, Number, NoExample)>>)),
    Mocked("200" :> Reply((h :> Header(Integer, TRUE)) @@ (q :> [Header(Integer, TRUE) EXCEPT !.reference = TRUE]),
                         <<Media(Vendored, Number, [number |-> 7]), Media(Form, Small, NoExample)>>)),
    Mocked("200" :> Reply(<<>>, <<Media(GeoSeq, Boolean, NoExample), Media(Geo, Number, NoExample)>>)),
    Mocked("200" :> Reply(<<>>, <<Media(Capitals(Geo), Number, NoExample), Media(Xml, Boolean, NoExample)>>))}
MCOperations == Heads \cup Bodies \cup {Vendors} \cup Replies \cup {Mocked(<<>>)}
MCSchemas ==
    LET schemas == UNION {{Resolved(p.schema) : p \in Range(op.params)} : op \in MCOperations}
    IN  schemas \cup ({s.items : s \in schemas} \ {NoSchema})
AndInner(S) == S \cup UNION {Subschemas(Resolved(s)) : s \in S}
MCFormSchemas ==
    LET schemas == UNION {{Inlined(c.schema) : c \in Range(op.body.content)} :
                             op \in Bodies \cup {Vendors}} \ {NoSchema}
    IN  AndInner(AndInner(schemas))
\* The functions that call themselves.
RECURSIVE MCInlined(_), MCGenerated(_), MCDepth(_), MCSchemasIn(_)
MCInlined(s) ==
    LET r == Resolved(s)
    IN  IF r = NoSchema THEN NoSchema
        ELSE resolve_schema_deep(r, [c \in Subschemas(r) |-> MCInlined(c)])
MCGenerated(s) == generate_from_json_schema(s, [c \in Inner(s) |-> MCGenerated(Resolved(c))])
MCDepth(v) ==
    LET within == InnerValues(v)
    IN  estimate_json_depth(v, {MCDepth(within[i]) : i \in DOMAIN within})
MCSchemasIn(s) == {s} \cup UNION {MCSchemasIn(x) : x \in Inner(s)}

\* The schemas of responses and those within, as they are written.
MCReplySchemas ==
    LET contents == UNION {UNION {Range(r.content) : r \in Range(op.responses)} : op \in Replies}
    IN  AndInner(AndInner(AndInner({c.schema : c \in contents} \ {NoSchema})))
MCPathParams == {<<>>} \cup {id :> s : s \in {Small, Short, Number, Boolean, Chosen}}
MCMockConfigs == [prefer_examples : BOOLEAN, default_status_code : {NoCode, "404"}]

\* Paths: /items/{id} with what it declares itself, and tables of routes.
Lit(text) == [literal |-> TRUE, text |-> text]
Par(name) == [literal |-> FALSE, text |-> name]
PathOf(template, operations, params) ==
    [template |-> template, reference |-> FALSE, operations |-> operations, params |-> params]
Simple(template, methods) == PathOf(template, [m \in methods |-> Mocked(<<>>)], <<>>)
Own(op) == IF op.params = <<>> \/ op.params[1].schema.type = "ref" THEN <<>>
           ELSE IF op \notin Heads \/ Len(op.params) < 3 THEN <<>> ELSE id :> op.params[1].schema
Tables == {
    \* two names for one parameter, each with a method of its own
    <<Simple(<<Lit(items), Par(id)>>, {GET}), Simple(<<Lit(items), Par(q)>>, {GET, POST})>>,
    \* written out before and after a parameter; a way that ends needs the other
    <<Simple(<<Par(id), Lit(new)>>, {GET}), Simple(<<Lit(items), Par(id)>>, {POST}),
      Simple(<<Lit(items), Lit(new)>>, {GET})>>,
    \* an item with no operations, and one that is a reference
    <<Simple(<<Lit(items), Par(q)>>, {}), Simple(<<Lit(items)>>, {GET}),
      [Simple(<<Par(id)>>, {GET}) EXCEPT !.reference = TRUE]>>}
MCDocuments == Tables
    \cup {<<PathOf(<<Lit(items), Par(id)>>, POST :> op, Own(op))>> : op \in MCOperations}

\* Forms: keys once and again, files before and after.
Field(key, t) == [key |-> key, text |-> t, file |-> FALSE]
Forms == {<<>>, <<Field(n, Single(Seven))>>,
    <<Field(n, Single(Seven)), Field(f, Single(Atom("flag", 1, 3, 3)))>>,
    <<Field(n, Single(Seven)), Field(f, Single(Seven))>>,
    <<Field(n, Single(Seven)), Field(f, Single(Nought))>>,
    <<Field(n, Single(Word))>>,
    <<Field(l, Single(Seven)), Field(n, Single(Seven)), Field(l, Single(Nought))>>,
    <<Field(l, Single(Seven)), Field(n, Single(Seven))>>,
    <<Field(l, Single(Seven)), Field(l, Single(Word)), Field(n, Single(Seven)), Field(l, Single(Nought))>>,
    <<[Field(f, Single(Seven)) EXCEPT !.file = TRUE]>>,
    <<Field(f, Single(Seven)), [Field(f, Single(Seven)) EXCEPT !.file = TRUE]>>,
    <<[Field(f, Single(Seven)) EXCEPT !.file = TRUE], Field(f, Single(Seven))>>}
MCFields == UNION {Range(x) : x \in Forms}

MCRequests ==
    LET Ask(id_, query, headers) == [method |-> POST, path |-> <<items, id_>>, query |-> query,
            headers |-> headers, media |-> Json, body |-> NoBody]
        Send(media, body) == [Ask(Single(Seven), <<>>, <<>>) EXCEPT !.media = media, !.body = body]
        Value(v) == [json |-> [object |-> v]]
    IN  {Ask(t, q :> Single(Seven), h :> Single(Word)) : t \in ValueTexts}
        \cup {Ask(Single(Seven), q :> t, h :> Single(Seven)) : t \in ValueTexts}
        \cup {Ask(Single(Seven), <<>>, h :> t) : t \in ValueTexts}
        \cup {Ask(Single(Seven), q :> Single(Seven), k :> items) : k \in {h, q}}
        \cup {Send(m, [form |-> x]) : m \in {Form, TextForm, Capitals(Form)},
                                      x \in {y \in Forms : \A i \in DOMAIN y : ~y[i].file}}
        \cup {Send(m, [form |-> x]) : m \in {Parts, Bounded, JsonBounded, Capitals(Bounded)}, x \in Forms}
        \cup {Send(Xml, [xml |-> [object |-> n :> [string |-> x]]]) :
                x \in {Single(Seven), Single(Atom("word", 0, 2, 4)), items}}
        \cup {Send(m, b) : m \in {Json, Vendored, Xml, Lines, Unreadable},
                b \in {Value(n :> [integer |-> 7]), Value(n :> [integer |-> 1500]),
                       Value((n :> [integer |-> 7]) @@ (l :> [array |-> <<[integer |-> 7]>>])),
                       Value((n :> [integer |-> 7]) @@ (l :> [array |-> <<[array |-> <<>>]>>])),
                       [garbage |-> TRUE]}}
        \cup {[Ask(x, <<>>, <<>>) EXCEPT !.method = m] : m \in {GET, POST}, x \in {new, Empty, items}}
        \cup {[Ask(new, <<>>, <<>>) EXCEPT !.path = p] : p \in {<<new, new>>, <<items>>, <<new>>, <<>>}}
=============================================================================
