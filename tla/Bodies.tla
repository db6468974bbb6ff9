------------------------------- MODULE Bodies -------------------------------
(***************************************************************************)
(* Bodies on their way into a validation (src/validation/body.rs,          *)
(* src/util.rs): forms become JSON objects and their fields what the       *)
(* schema has in their place, and a media type selects the schema.         *)
(***************************************************************************)
EXTENDS Values

\* Forms: sequences of fields, each a key with a text, or a file.

\* serde_json::Map: what key had is replaced.
insert(map, key, v) == [k \in DOMAIN map \cup {key} |-> IF k = key THEN v ELSE map[k]]

\* Faulty variant: the last value of a key replaces the others.
AddFieldLast(map, f) == insert(map, f.key, [string |-> f.text])

\* A key that comes again makes an array of all its values.
AddField(map, f) ==
    LET text == [string |-> f.text] IN
    insert(map, f.key,
        IF f.key \notin DOMAIN map THEN text
        ELSE IF Is(map[f.key], "array") THEN [array |-> Append(map[f.key].array, text)]
        ELSE [array |-> <<map[f.key], text>>])

\* The object that describes a file.
FileOf(f) == [object |-> ("size" :> [integer |-> Bytes(f.text)])]

\* A file takes the place of what had its name.
AddPart(map, f) ==
    IF f.file THEN insert(map, f.key, FileOf(f)) ELSE AddField(map, f)

\* The values of a form are strings: each is made what the schema has in its place.
\* The code calls itself for a property and for an item; a form nests no deeper.
coerce_item(v, s) ==
    CASE s.type \in {"integer", "number"} /\ Is(v, "string") -> convert_scalar(v.string, s)
      [] s.type = "boolean" /\ Is(v, "string") ->
            IF \/ IsA(v.string, {"boolean", "flag"})
               \/ IsA(v.string, {"integer"}) /\ v.string.atoms[1].value \in 0..1
            THEN [boolean |-> v.string.atoms[1].value = 1] ELSE Bad
      [] OTHER -> v

coerce_property(v, s) ==
    IF s.type = "array" /\ Is(v, "array")
    THEN IF s.items = NoSchema THEN v
         ELSE AllOf([i \in DOMAIN v.array |-> coerce_item(v.array[i], s.items)])
    ELSE coerce_item(v, s)

coerce_form_data_to_schema(v, s) ==
    IF s.type = "object" /\ Is(v, "object")
    THEN LET coerced == [k \in DOMAIN v.object |->
                 IF PropertyOf(s, k) = NoSchema THEN v.object[k]
                 ELSE coerce_property(v.object[k], PropertyOf(s, k))]
         IN  IF \E k \in DOMAIN coerced : coerced[k] = Bad THEN Bad ELSE [object |-> coerced]
    ELSE v

-----------------------------------------------------------------------------
\* Media types.  A text is main/sub+suffix with parameters, as mime reads it, in
\* small letters; main is "" when it reads nothing.  words are those of Searched that
\* are anywhere in the text as it is written, parameters included; exact says that
\* the text is main/sub and no more.

Searched == {"json", "xml", "x-www-form-urlencoded", "multipart/form-data"}

MediaType(main, sub, suffix, words) ==
    [main |-> main, sub |-> sub, suffix |-> suffix, words |-> words,
     exact |-> suffix = "", boundary |-> FALSE]

\* An application type with a suffix is one of JSON by that suffix alone; of any other
\* type, or of one that does not parse, the text is searched.
is_json_media_type(m) ==
    IF m.main = "application" /\ (m.sub = "json" \/ m.suffix # "")
    THEN "json" \in {m.sub, m.suffix}
    ELSE "json" \in m.words

\* The suffix is not part of what mime calls the subtype.
extract_media_type(m) == [main |-> m.main, sub |-> m.sub]

media_type_matches(base, range) ==
    range.exact /\ range.main \in {"*", base.main} /\ range.sub \in {"*", base.sub}

NoContent == [type |-> MediaType("", "", "", {}), schema |-> NoSchema]

\* The first of the contents that is in S, NoContent without one.
First(content, S) ==
    LET found == {i \in DOMAIN content : content[i] \in S}
    IN  IF found = {} THEN NoContent ELSE content[Min(found)]

\* The content whose type is written as base is.
Typed(content, base) ==
    {c \in Range(content) : c.type.exact /\ extract_media_type(c.type) = base}

\* What the specification has for a type: the type itself, then a range.
find_matching_content_type(content, m) ==
    LET base == extract_media_type(m)
        exact == First(content, Typed(content, base))
        ranges == {c \in Range(content) : /\ "*" \in {c.type.main, c.type.sub}
                                          /\ media_type_matches(base, c.type)}
    IN  CASE m.main = "" -> NoContent
          [] m.main # "" /\ exact # NoContent -> exact
          [] OTHER -> First(content, ranges)

\* application/json, or else the first of the contents in S.
JsonOr(content, S) ==
    LET exact == First(content, Typed(content, [main |-> "application", sub |-> "json"]))
    IN  IF exact # NoContent THEN exact ELSE First(content, S)

\* What a response has for JSON.
find_json_content(content) ==
    JsonOr(content, {c \in Range(content) : is_json_media_type(c.type)})

-----------------------------------------------------------------------------
\* The reference definition: what a form can be read as.

\* A field as it is sent.
Sent(x) == IF x.file THEN FileOf(x) ELSE [string |-> x.text]

\* In a form 0 and 1, and the flags, are booleans as well.
FieldReadings(x) ==
    LET a == x.text.atoms[1] IN
    {Sent(x)} \cup
    IF x.file \/ x.text.json \/ Len(x.text.atoms) # 1 THEN {}
    ELSE AtomReadings(a) \cup
         (IF a.kind = "flag" \/ (a.kind = "integer" /\ a.value \in 0..1)
          THEN {[boolean |-> a.value = 1]} ELSE {})

\* Of the first n fields those of key k that count: from the last file on.
Counted(fields, n, k) ==
    {i \in 1..n : /\ fields[i].key = k
                  /\ \A j \in (i + 1)..n : fields[j].key = k => ~fields[j].file}

\* The p-th number of I.
Nth(I, p) == CHOOSE i \in {j \in I : Cardinality({m \in I : m <= j}) = p} : TRUE

Keys(fields, n) == {fields[i].key : i \in 1..n}

\* A key that counts once is a scalar, one that counts again an array.
KeyReadings(fields, k) ==
    LET I == Counted(fields, Len(fields), k) IN
    IF Cardinality(I) = 1 THEN FieldReadings(fields[Nth(I, 1)])
    ELSE ArraysOf([p \in 1..Cardinality(I) |-> FieldReadings(fields[Nth(I, p)])])

FormReadings(fields) ==
    {[object |-> f] : f \in OneOfEach([k \in Keys(fields, Len(fields)) |-> KeyReadings(fields, k)])}
=============================================================================
