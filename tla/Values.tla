------------------------------- MODULE Values -------------------------------
(***************************************************************************)
(* Values on their way into a validation: the texts of a URL or a header,  *)
(* the JSON values they are converted to (src/validation), and what a      *)
(* schema says of both.                                                    *)
(*                                                                         *)
(* A text is known by what it parses as and how long it is, a schema by    *)
(* its type and its bounds.                                                *)
(***************************************************************************)
EXTENDS Integers, SequencesExt

CONSTANTS
    Unbounded,       \* a bound that is not given: Option::None
    NoSchema,        \* items or a media type without a schema
    Bad,             \* what does not convert: Err
    Components,      \* #/components/schemas, by name
    Accepts(_, _)    \* jsonschema, outside of the repository: a value satisfies a schema

\* An atom is an "integer" (it parses as a number too), a "number", a "boolean"
\* (true or false), a "flag" (on, off, yes, no) or a "word"; value is that of a
\* number, 0 or 1 for false and true; a character may take several bytes.
Atom(kind, value, chars, bytes) ==
    [kind |-> kind, value |-> value, chars |-> chars, bytes |-> bytes]

AtomType == [kind : {"integer", "number", "boolean", "flag", "word"}, value : Int,
             chars : Nat, bytes : Nat]

\* A text: atoms separated by commas, or a JSON array of them.
TextType == [atoms : Seq(AtomType), json : BOOLEAN]
Text(atoms) == [atoms |-> atoms, json |-> FALSE]
Single(atom) == Text(<<atom>>)

IsA(t, kinds) == ~t.json /\ Len(t.atoms) = 1 /\ t.atoms[1].kind \in kinds
Sum(numbers) == FoldLeft(LAMBDA x, y : x + y, 0, numbers)
Chars(t) == Sum([i \in DOMAIN t.atoms |-> t.atoms[i].chars]) + Len(t.atoms) - 1
Bytes(t) == Sum([i \in DOMAIN t.atoms |-> t.atoms[i].bytes]) + Len(t.atoms) - 1

\* JSON values: records of one field, named for the type.
Is(v, type) == type \in DOMAIN v

\* A schema.  lo and hi bound a number, the characters of a string or the items
\* of an array; additional is the schema of properties that are not named; "ref" is
\* a reference to a component that was not resolved; "any" and "oneOf" are schemas
\* without a type, "never" is false.
Schema(type) == [type |-> type, lo |-> Unbounded, hi |-> Unbounded, enum |-> {},
                 items |-> NoSchema, properties |-> <<>>, additional |-> NoSchema,
                 required |-> {}, oneOf |-> {}, target |-> ""]

\* What an object schema has for a key.
PropertyOf(s, k) == IF k \in DOMAIN s.properties THEN s.properties[k] ELSE s.additional

Within(n, s) == (s.lo = Unbounded \/ n >= s.lo) /\ (s.hi = Unbounded \/ n <= s.hi)

\* resolve_schema; that it ends is shown for Resolver.
Resolved(s) == IF s # NoSchema /\ s.type = "ref" THEN Components[s.target] ELSE s

-----------------------------------------------------------------------------
\* What jsonschema says of v and s, given what it says of the schemas within s.  A
\* schema that still has a reference to a component does not compile.
JsonSchema(Conforms(_, _), s, v) ==
    CASE s.type = "integer" -> Is(v, "integer") /\ Within(v.integer, s)
      [] s.type = "number"  -> \/ Is(v, "integer") /\ Within(v.integer, s)
                               \/ Is(v, "number") /\ Within(v.number, s)
      [] s.type = "boolean" -> Is(v, "boolean")
      [] s.type = "string"  -> /\ Is(v, "string") /\ Within(Chars(v.string), s)
                               /\ s.enum = {} \/ v.string \in s.enum
      [] s.type = "array"   -> /\ Is(v, "array") /\ Within(Len(v.array), s)
                               /\ s.items # NoSchema =>
                                     \A i \in DOMAIN v.array : Conforms(s.items, v.array[i])
      [] s.type = "object"  -> /\ Is(v, "object") /\ s.required \subseteq DOMAIN v.object
                               /\ \A k \in DOMAIN v.object : PropertyOf(s, k) # NoSchema =>
                                     Conforms(PropertyOf(s, k), v.object[k])
      [] s.type = "any"     -> TRUE
      [] s.type = "oneOf"   -> \E x \in s.oneOf : \A y \in s.oneOf : Conforms(y, v) <=> y = x
      [] OTHER -> FALSE

-----------------------------------------------------------------------------
\* Parameters.

\* serde_json, on an atom within an array.
JsonAtom(a) ==
    CASE a.kind = "integer" -> [integer |-> a.value]
      [] a.kind = "number"  -> [number |-> a.value]
      [] a.kind = "boolean" -> [boolean |-> a.value = 1]
      [] OTHER -> [string |-> Single(a)]

\* An array of what converted, or Bad.
AllOf(values) == IF \E i \in DOMAIN values : values[i] = Bad THEN Bad ELSE [array |-> values]

\* What is no array is converted by the type of its schema.
convert_scalar(t, s) ==
    CASE s.type = "integer" ->
            IF IsA(t, {"integer"}) THEN [integer |-> t.atoms[1].value] ELSE Bad
      [] s.type = "number" ->
            IF IsA(t, {"integer", "number"}) THEN [number |-> t.atoms[1].value] ELSE Bad
      [] s.type = "boolean" ->
            IF IsA(t, {"boolean"}) THEN [boolean |-> t.atoms[1].value = 1] ELSE Bad
      [] OTHER -> [string |-> t]

\* Faulty variant: the items of an array stay strings.
convert_item_never(a, items) == [string |-> Single(a)]

\* Items without a schema of their own stay strings.
convert_item(a, items) ==
    IF items = NoSchema \/ items.type = "ref" THEN [string |-> Single(a)]
    ELSE convert_scalar(Single(a), items)

\* The code calls itself for each item; arrays within arrays are left out.
convert_param_to_json(t, s) ==
    IF s.type # "array" THEN convert_scalar(t, s)
    ELSE IF t.json THEN [array |-> [i \in DOMAIN t.atoms |-> JsonAtom(t.atoms[i])]]
    ELSE AllOf([i \in DOMAIN t.atoms |-> convert_item(t.atoms[i], s.items)])

\* validate_param_with_schema.
ParamValid(t, s) ==
    LET v == convert_param_to_json(t, s)
    IN  v # Bad /\ (s.items # NoSchema => s.items.type # "ref") /\ Accepts(s, v)

\* validate_string_type: the length is that of the bytes.
validate_string_type(t, s) == (s.enum = {} \/ t \in s.enum) /\ Within(Bytes(t), s)

\* Faulty variant: a number is taken for an integer.
integral_path_param(t, s) ==
    CASE s.type \in {"integer", "number"} -> IsA(t, {"integer"})
      [] s.type = "boolean" -> IsA(t, {"boolean"})
      [] s.type = "string"  -> validate_string_type(t, s)
      [] OTHER -> TRUE

\* The early check of a path parameter.
validate_single_path_param(t, s) ==
    CASE s.type = "integer" -> IsA(t, {"integer"})
      [] s.type = "number"  -> IsA(t, {"integer", "number"})
      [] s.type = "boolean" -> IsA(t, {"boolean"})
      [] s.type = "string"  -> validate_string_type(t, s)
      [] OTHER -> TRUE
-----------------------------------------------------------------------------
\* The reference definition: what a text can be read as, and the schema has its
\* choice of the readings.

\* Every function that takes each k of its domain to one of choices[k].
OneOfEach(choices) ==
    {f \in [DOMAIN choices -> UNION {choices[k] : k \in DOMAIN choices}] :
        \A k \in DOMAIN choices : f[k] \in choices[k]}

\* An atom is a string, and what it parses as; an integer is a number too.
AtomReadings(a) ==
    {JsonAtom(a), [string |-> Single(a)]}
        \cup (IF a.kind = "integer" THEN {[number |-> a.value]} ELSE {})
ArraysOf(readings) == {[array |-> x] : x \in OneOfEach(readings)}
Readings(t) ==
    {[string |-> t]} \cup
    IF t.json THEN {[array |-> [i \in DOMAIN t.atoms |-> JsonAtom(t.atoms[i])]]}
    ELSE ArraysOf([i \in DOMAIN t.atoms |-> AtomReadings(t.atoms[i])])
         \cup (IF Len(t.atoms) = 1 THEN AtomReadings(t.atoms[1]) ELSE {})

\* A text is one of the values a schema accepts.  What has no type is read as a
\* string, and an array whose items are a reference accepts nothing.
Reads(t, s) ==
    /\ s.items # NoSchema => s.items.type # "ref"
    /\ \E v \in Readings(t) :
          /\ Accepts(s, v)
          /\ s.type = "oneOf" => v = [string |-> t]
          /\ s.type = "array" /\ ~t.json /\ s.items # NoSchema /\ s.items.type = "oneOf" =>
                \A i \in DOMAIN t.atoms : v.array[i] = [string |-> Single(t.atoms[i])]
=============================================================================
