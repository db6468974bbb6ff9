---------------------------- MODULE RequestHead ----------------------------
(***************************************************************************)
(* What the filter finds in the head of a request (src/filter.rs,          *)
(* src/validation): the route, then the types of the path parameters, the  *)
(* parameters of the path, the query and the headers.  The body and the    *)
(* response, which follow, are any here: Exchange has them.                *)
(***************************************************************************)
EXTENDS Router, Values

CONSTANTS
    Texts,                \* the texts of the requests
    Schemas,              \* the schemas of the parameters
    MaxHeaderValueLength  \* max_header_value_length of the security limits

\* Texts have their atoms among them, and are all that a request has in its head.
ASSUME TextsAssumption ==
    /\ Texts \subseteq TextType
    /\ \A t \in Texts : \A i \in DOMAIN t.atoms : Single(t.atoms[i]) \in Texts
    /\ \A r \in Requests :
          /\ \A i \in DOMAIN r.path : r.path[i] \in Texts
          /\ \A k \in DOMAIN r.query : r.query[k] \in Texts
          /\ \A k \in DOMAIN r.headers : r.headers[k] \in Texts

\* Schemas have their items among them; arrays within arrays are left out.
ASSUME SchemasAssumption ==
    /\ NoSchema \notin Schemas
    /\ \A s \in Schemas : s.items # NoSchema => s.items \in Schemas /\ s.items.type # "array"
    /\ \A op \in Operations : \A i \in DOMAIN op.params : Resolved(op.params[i].schema) \in Schemas

\* jsonschema says of the readings of a text what JSON Schema says; a failure is
\* no value.
ASSUME JsonSchemaAssumption ==
    \A t \in Texts : \A v \in Readings(t) :
        /\ v # Bad
        /\ \A s \in Schemas : Accepts(s, v) <=> JsonSchema(Accepts, s, v)

VARIABLES
    stage,    \* what is checked next
    errors    \* request_errors: the checks that failed

headVars == <<routerVars, stage, errors>>

HeadInit == RouterInit /\ stage = "route" /\ errors = {}

Item == document[answer.route]
Operation == Item.operations[request.method]

\* Path parameters as matchit names them.
PathTexts ==
    LET t == Item.template
        parameters == {i \in DOMAIN t : ~t[i].literal}
    IN  [n \in {t[i].text : i \in parameters} |->
            request.path[CHOOSE i \in parameters : t[i].text = n]]

TextsIn(location) ==
    CASE location = "path"   -> PathTexts
      [] location = "query"  -> request.query
      [] location = "header" -> request.headers

-----------------------------------------------------------------------------
\* The checks.

Route ==
    /\ stage = "route"
    /\ RouterNext
    /\ stage' = IF answer'.status = 200 THEN "types" ELSE "route"
    /\ errors' = {}

\* The check named by the stage is done and the next stage follows.
Judge(check, failed, next) ==
    /\ stage = check
    /\ errors' = IF failed THEN errors \cup {check} ELSE errors
    /\ stage' = next
    /\ UNCHANGED routerVars

\* validate_path_param_types, by the schemas inline in the path item.
TypesFail ==
    \E n \in DOMAIN PathTexts \cap DOMAIN Item.params :
        ~validate_single_path_param(PathTexts[n], Item.params[n])

\* Faulty variant: a required parameter is not missed.
ParamFailsIfGiven(p, location) ==
    \/ ~p.resolves
    \/ /\ p.in = location /\ p.name \in DOMAIN TextsIn(location)
       /\ ~ParamValid(TextsIn(location)[p.name], Resolved(p.schema))

\* What each of the three loops does with one parameter: it is resolved whatever
\* its place, a required one is missed (but not in a path), and a value is judged.
ParamFails(p, location) ==
    LET texts == TextsIn(location) IN
    \/ ~p.resolves
    \/ /\ p.in = location
       /\ IF p.name \in DOMAIN texts THEN ~ParamValid(texts[p.name], Resolved(p.schema))
          ELSE p.required /\ location # "path"

\* check_string_length, of every header, declared or not.
HeaderTooLong == \E k \in DOMAIN request.headers : Bytes(request.headers[k]) > MaxHeaderValueLength

\* The loops of the three checks stop at the first parameter that fails; that of the
\* headers is not begun when one is too long.
ParamsFail(location) ==
    \/ location = "header" /\ HeaderTooLong
    \/ \E i \in DOMAIN Operation.params : ParamFails(Operation.params[i], location)

CheckPathTypes == Judge("types", TypesFail, "path")
CheckPath == Judge("path", ParamsFail("path"), "query")
\* A path or a query that is too long is answered before the check: Filter has it.
CheckQuery == Judge("query", ParamsFail("query"), "header")
CheckHeaders == Judge("header", ParamsFail("header"), "body")

\* The body, and what comes after it; the next request follows, or nothing.
JudgeBody == \E failed \in BOOLEAN : Judge("body", failed, "mock")
Finish ==
    /\ stage = "mock"
    /\ stage' \in {"route", "crashed"}
    /\ UNCHANGED <<routerVars, errors>>

HeadNext == Route \/ CheckPathTypes \/ CheckPath \/ CheckQuery \/ CheckHeaders
            \/ JudgeBody \/ Finish

\* What every exchange does with the head of a request: a step of Exchange is one
\* of HeadNext, or leaves headVars alone.
HeadSpec == HeadInit /\ [][HeadNext]_headVars

-----------------------------------------------------------------------------
\* Properties

\* The head is judged without errors exactly if all parameters of the operation
\* resolve, none that is required in the query or the headers is missing, every
\* text is one of a value its schema accepts, and no header at all is longer than
\* headers may be.
Judged == stage \in {"body", "mock"}
ParametersJudged ==
    Judged => \A location \in {"path", "query", "header"} :
        location \in errors <=>
            \/ /\ location = "header"
               /\ \E k \in DOMAIN request.headers : Bytes(request.headers[k]) > MaxHeaderValueLength
            \/ \E i \in DOMAIN Operation.params :
                LET p == Operation.params[i]  texts == TextsIn(location)
                    given == p.name \in DOMAIN texts
                IN  \/ ~p.resolves
                    \/ /\ p.in = location
                       /\ IF given THEN ~Reads(texts[p.name], Resolved(p.schema))
                          ELSE p.required /\ location # "path"

\* A value that the early check of the path refuses is refused by the full check
\* of the same schema too, unless it is a text with characters of several bytes.
EarlyRefusalAgrees ==
    Judged /\ "types" \in errors /\ "path" \notin errors =>
        \E n \in DOMAIN PathTexts \cap DOMAIN Item.params :
            \/ Chars(PathTexts[n]) # Bytes(PathTexts[n])
            \/ ~\E p \in Range(Operation.params) :
                    p.in = "path" /\ p.name = n /\ p.schema = Item.params[n]
=============================================================================
