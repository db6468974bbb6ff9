---------------------------- MODULE RequestBody ----------------------------
(***************************************************************************)
(* What the filter finds in the body of a request that is a form           *)
(* (src/filter.rs, src/validation/body.rs): its fields are read one after  *)
(* the other, made what the schema has in their place, and judged.  Bodies *)
(* of other types have any verdict here: Exchange has them.                *)
(***************************************************************************)
EXTENDS RequestHead, Bodies

CONSTANTS
    Inlined(_),   \* resolve_schema_deep: a schema without references
    FormSchemas,  \* the schemas of bodies, without references
    Fields        \* the fields of forms

\* The types whose bodies are parsed as forms; one of parts must have a boundary.
IsForm(m) ==
    \/ extract_media_type(m) = [main |-> "application", sub |-> "x-www-form-urlencoded"]
    \/ extract_media_type(m) = [main |-> "multipart", sub |-> "form-data"] /\ m.boundary

\* The types whose bodies are coerced: the header is searched as it is written.
Coerces(m) == m.words \cap {"x-www-form-urlencoded", "multipart/form-data"} # {}

\* An operation without request_body.
NoRequestBody == [declared |-> FALSE]

\* jsonschema says of v what JSON Schema says; a failure is no value.
Agreed(v) ==
    v # Bad /\ \A s \in FormSchemas : Accepts(s, v) <=> JsonSchema(Accepts, s, v)

\* Schemas have those within among them; only multipart forms have files.  What is no
\* form is not coerced: the model of coercion nests as deep as forms do.
ASSUME FormAssumption ==
    /\ \A s \in FormSchemas :
          /\ s.items # NoSchema => s.items \in FormSchemas
          /\ s.additional # NoSchema => s.additional \in FormSchemas
          /\ \A k \in DOMAIN s.properties :
                s.properties[k] # NoSchema /\ s.properties[k] \in FormSchemas
    /\ \A op \in Operations, r \in Requests :
          op.body # NoRequestBody =>
              LET content == find_matching_content_type(op.body.content, r.media)
              IN  content # NoContent /\ content.schema # NoSchema =>
                      Inlined(content.schema) \in FormSchemas
    /\ \A x \in Fields : /\ x.text \in TextType /\ x.file \in BOOLEAN
                         /\ \A v \in FieldReadings(x) : Agreed(v)
    /\ \A r \in Requests : Coerces(r.media) => \A kind \in {"json", "xml"} : ~Is(r.body, kind)
    /\ \A r \in Requests : Is(r.body, "form") =>
          /\ r.body.form \in Seq(Fields)
          /\ r.media.main # "multipart" => \A i \in DOMAIN r.body.form : ~r.body.form[i].file
          /\ \A k \in Keys(r.body.form, Len(r.body.form)) :
                \A v \in KeyReadings(r.body.form, k) : Agreed(v)
          /\ \A v \in FormReadings(r.body.form) : Agreed(v)

VARIABLES
    read,   \* how many fields of the form were read
    map     \* the object made of them

bodyVars == <<headVars, read, map>>

BodyInit == HeadInit /\ read = 0 /\ map = <<>>

-----------------------------------------------------------------------------

Content == find_matching_content_type(Operation.body.content, request.media)

\* The body is parsed as a form.
FormBody ==
    /\ Operation.body # NoRequestBody
    /\ Is(request.body, "form") /\ Content # NoContent
    /\ ~is_json_media_type(request.media) /\ IsForm(request.media)

\* One turn of parse_form_urlencoded_to_json or parse_multipart_to_json.
ReadField ==
    /\ stage = "body" /\ FormBody
    /\ read < Len(request.body.form)
    /\ read' = read + 1
    /\ map' = LET x == request.body.form[read + 1]
              IN  IF request.media.main = "multipart" THEN AddPart(map, x) ELSE AddField(map, x)
    /\ UNCHANGED headVars

\* The body as what the schema says of it.
Shaped(v, s) == IF Coerces(request.media) THEN coerce_form_data_to_schema(v, s) ELSE v

\* The verdict on the value of a body; that of a pool is in ValidationPool.
ValueFails(v) ==
    \/ v = Bad
    \/ /\ Content.schema # NoSchema
       /\ LET s == Inlined(Content.schema)
          IN  Shaped(v, s) # Bad => ~Accepts(s, Shaped(v, s))

CheckForm ==
    /\ stage = "body" /\ FormBody
    /\ read = Len(request.body.form)
    /\ Judge("body", ValueFails([object |-> map]), "mock")
    /\ UNCHANGED <<read, map>>

\* The verdict on a body of another type, or on a body that is missing.
JudgeOther == stage = "body" /\ ~FormBody /\ JudgeBody /\ UNCHANGED <<read, map>>

BodyNext ==
    \/ Route /\ read' = 0 /\ map' = <<>>
    \/ (CheckPathTypes \/ CheckPath \/ CheckQuery \/ CheckHeaders) /\ UNCHANGED <<read, map>>
    \/ ReadField
    \/ CheckForm
    \/ JudgeOther
    \/ Finish /\ UNCHANGED <<read, map>>

\* What every exchange does with the head of a request and a form in its body.
BodySpec == BodyInit /\ [][BodyNext]_bodyVars

-----------------------------------------------------------------------------
\* Properties

\* There is a type in the place of every field.
HasType(s) == s.type # "oneOf" /\ (s.items # NoSchema => s.items.type # "oneOf")
HasTypes(s) ==
    /\ s.type # "oneOf"
    /\ s.additional # NoSchema => HasType(s.additional)
    /\ \A k \in DOMAIN s.properties : HasType(s.properties[k])

\* A form whose type is written in small letters is judged by what it can be read as:
\* an array of two items or more comes through as the values its schema has, one of a
\* single item does not.
FormsJudgedAsSent ==
    stage = "mock" /\ FormBody /\ Coerces(request.media)
    /\ Content.schema # NoSchema /\ HasTypes(Inlined(Content.schema)) =>
        ("body" \in errors <=>
            ~\E v \in FormReadings(request.body.form) : Accepts(Inlined(Content.schema), v))
=============================================================================
