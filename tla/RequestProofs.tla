--------------------------- MODULE RequestProofs ---------------------------
(***************************************************************************)
(* Proofs about Router, RequestHead, RequestBody and Exchange: what the    *)
(* router keeps of a document is enough for every declared path, the       *)
(* parameters and the form of a request are judged as what they can be     *)
(* read as, and a mock response is one of its schema.                      *)
(***************************************************************************)
EXTENDS Exchange, SequenceTheorems, FiniteSetTheorems, WellFoundedInduction, TLAPS

\* Templates of one shape match the same paths.
LEMMA ShapeMatches ==
    ASSUME NEW t, NEW u, NEW path, SameShape(t, u), t \in Seq(Part), u \in Seq(Part)
    PROVE  Matches(t, path) <=> Matches(u, path)
<1>1. DOMAIN t = DOMAIN u BY DEF SameShape
<1>2. QED BY <1>1 DEF SameShape, Matches

\* A template is preferred to all templates of one shape, or to none.
LEMMA ShapePrefers ==
    ASSUME NEW t \in Seq(Part), NEW u \in Seq(Part), NEW v \in Seq(Part),
           SameShape(u, v), Len(t) = Len(u), Prefers(t, u)
    PROVE  Prefers(t, v)
<1>1. DOMAIN t = DOMAIN u /\ DOMAIN u = DOMAIN v /\ DOMAIN t = 1..Len(t) BY DEF SameShape
<1>2. PICK i \in DOMAIN t : /\ t[i].literal /\ ~u[i].literal
                            /\ \A j \in 1..(i - 1) : t[j].literal = u[j].literal
      BY DEF Prefers
<1>3. ~v[i].literal BY <1>1, <1>2 DEF SameShape
<1>4. ASSUME NEW j \in 1..(i - 1) PROVE t[j].literal = v[j].literal
  <2>1. j \in DOMAIN u BY <1>1, <1>2
  <2>2. QED BY <1>2, <2>1 DEF SameShape
<1>5. QED BY <1>2, <1>3, <1>4 DEF Prefers

\* Sharing a shape passes from one template to the next.
LEMMA ShapeTransitive ==
    ASSUME NEW t, NEW u, NEW v, SameShape(t, u), SameShape(u, v),
           t \in Seq(Part), u \in Seq(Part), v \in Seq(Part)
    PROVE  SameShape(t, v)
<1>1. DOMAIN t = DOMAIN u /\ DOMAIN u = DOMAIN v BY DEF SameShape
<1>2. QED BY <1>1 DEF SameShape

\* SameShape does not depend on which of the two comes first.
LEMMA ShapeSymmetric ==
    ASSUME NEW t \in Seq(Part), NEW u \in Seq(Part), SameShape(t, u)
    PROVE  SameShape(u, t)
<1>1. DOMAIN t = DOMAIN u BY DEF SameShape
<1>2. QED BY <1>1 DEF SameShape

LEMMA ShapeReflexive == ASSUME NEW t \in Seq(Part) PROVE SameShape(t, t)
BY DEF SameShape

-----------------------------------------------------------------------------
\* The inductive invariant: a request comes when the router is built.
RouterInv ==
    /\ RouterTypeOK
    /\ RoutesKept
    /\ request # NoRequest => loaded = Len(document)
    /\ answer # Unanswered => request # NoRequest

\* The templates of a document are sequences of segments.
LEMMA TemplatesTyped ==
    ASSUME document \in Documents
    PROVE  /\ document \in Seq(PathItem) /\ Len(document) \in Nat
           /\ DOMAIN document = 1..Len(document)
           /\ \A i \in DOMAIN document : Template(i) \in Seq(Part)
<1>1. document \in Seq(PathItem) BY RouterAssumption
<1>2. \A i \in DOMAIN document : document[i] \in PathItem BY <1>1
<1>3. \A i \in DOMAIN document : document[i].template \in Seq(Part) BY <1>2 DEF PathItem
<1>4. QED BY <1>1, <1>3 DEF Template

\* One more path item keeps the first of each shape.
LEMMA AddRouteKeeps ==
    ASSUME RouterTypeOK, RoutesKept, LoadItem
    PROVE  RoutesKept' /\ routes' \subseteq 1..(loaded + 1)
<1> DEFINE n == loaded + 1
<1>1. /\ document' = document /\ loaded' = n /\ routes' = AddRoute(n)
      /\ loaded \in Nat /\ n \in 1..Len(document) /\ routes \subseteq 1..loaded
  <2>1. Len(document) \in Nat BY TemplatesTyped DEF RouterTypeOK
  <2>2. QED BY <2>1 DEF LoadItem, RouterTypeOK
<1>2. /\ DOMAIN document = 1..Len(document)
      /\ \A i \in DOMAIN document : Template(i) \in Seq(Part)
      BY TemplatesTyped DEF RouterTypeOK
<1>3. \A i : Template(i)' = Template(i) BY <1>1 DEF Template
<1>4. routes' \subseteq routes \cup {n} /\ routes \subseteq routes' BY <1>1 DEF AddRoute
<1>5. \A i \in 1..n : HasOperations(document[i]) =>
          \E j \in routes' : j <= i /\ SameShape(Template(j), Template(i))
  <2> SUFFICES ASSUME NEW i \in 1..n, HasOperations(document[i])
               PROVE  \E j \in routes' : j <= i /\ SameShape(Template(j), Template(i))
      OBVIOUS
  <2>1. CASE i \in 1..loaded BY <2>1, <1>4 DEF RoutesKept
  <2>2. CASE i = n
    <3>1. CASE Conflicts(n)
      <4>1. PICK j \in routes : SameShape(Template(j), Template(n)) BY <3>1 DEF Conflicts
      <4>2. j <= n BY <1>1
      <4>3. QED BY <4>1, <4>2, <2>2, <1>4
    <3>2. CASE ~Conflicts(n)
      <4>1. n \in routes' BY <3>2, <2>2, <1>1 DEF AddRoute
      <4>2. SameShape(Template(n), Template(n)) BY <1>1, <1>2, ShapeReflexive
      <4>3. n <= n BY <1>1
      <4>4. QED BY <4>1, <4>2, <4>3, <2>2
    <3>3. QED BY <3>1, <3>2
  <2>3. QED BY <2>1, <2>2, <1>1
<1>6. \A i \in routes' : HasOperations(document[i]) BY <1>1 DEF AddRoute, RoutesKept
<1>7. \A i, j \in routes' : SameShape(Template(i), Template(j)) => i = j
  <2> SUFFICES ASSUME NEW i \in routes', NEW j \in routes', SameShape(Template(i), Template(j))
               PROVE  i = j
      OBVIOUS
  <2>1. CASE i \in routes /\ j \in routes BY <2>1 DEF RoutesKept
  <2>2. CASE n \in routes' /\ n \notin routes
    <3>1. ~Conflicts(n) BY <2>2, <1>1 DEF AddRoute
    <3>2. CASE i = n /\ j \in routes
      <4>1. Template(i) \in Seq(Part) /\ Template(j) \in Seq(Part) BY <1>1, <1>2, <3>2
      <4>2. SameShape(Template(j), Template(i)) BY <4>1, ShapeSymmetric
      <4>3. QED BY <4>2, <3>1, <3>2 DEF Conflicts
    <3>3. CASE i \in routes /\ j = n BY <3>3, <3>1 DEF Conflicts
    <3>4. QED BY <3>2, <3>3, <2>1, <1>4
  <2>3. QED BY <2>1, <2>2, <1>4
<1>8. RoutesKept' BY <1>1, <1>3, <1>5, <1>6, <1>7 DEF RoutesKept
<1>9. 1..loaded \subseteq 1..n /\ n \in 1..n BY <1>1
<1>10. routes' \subseteq 1..n BY <1>4, <1>9, <1>1
<1>11. QED BY <1>8, <1>10

LEMMA RouterInitInv == RouterInit => RouterInv
<1> SUFFICES ASSUME RouterInit PROVE RouterInv OBVIOUS
<1>1. Len(document) \in Nat BY TemplatesTyped DEF RouterInit
<1>2. RouterTypeOK BY <1>1 DEF RouterInit, RouterTypeOK, Answer
<1>3. RoutesKept BY DEF RouterInit, RoutesKept
<1>4. QED BY <1>2, <1>3 DEF RouterInit, RouterInv

LEMMA RouterNextInv == RouterInv /\ [RouterNext]_routerVars => RouterInv'
<1> SUFFICES ASSUME RouterInv, [RouterNext]_routerVars PROVE RouterInv' OBVIOUS
<1>1. CASE LoadItem
  <2>1. RoutesKept' /\ routes' \subseteq 1..(loaded + 1)
        BY <1>1, AddRouteKeeps DEF RouterInv
  <2>2. Len(document) \in Nat BY TemplatesTyped DEF RouterInv, RouterTypeOK
  <2>3. RouterTypeOK' BY <1>1, <2>1, <2>2 DEF LoadItem, RouterInv, RouterTypeOK
  <2>4. request = NoRequest BY <1>1, <2>2 DEF LoadItem, RouterInv
  <2>5. QED BY <1>1, <2>1, <2>3, <2>4 DEF LoadItem, RouterInv
<1>2. CASE Arrive
  <2>1. RouterTypeOK' BY <1>2 DEF Arrive, RouterInv, RouterTypeOK, Answer
  <2>2. RoutesKept' BY <1>2 DEF Arrive, RouterInv, RoutesKept, Template
  <2>3. QED BY <1>2, <2>1, <2>2, RouterAssumption DEF Arrive, RouterInv
<1>3. CASE MatchRoute
  <2>1. PICK i \in routes : answer' = [status |-> IF request.method \in DOMAIN document[i].operations
                                                  THEN 200 ELSE 405, route |-> i]
        BY <1>3 DEF MatchRoute
  <2>2. loaded \in Nat
    <3>1. Len(document) \in Nat BY TemplatesTyped DEF RouterInv, RouterTypeOK
    <3>2. QED BY <3>1 DEF RouterInv, RouterTypeOK
  <2>3. i \in Nat \ {0} BY <2>2 DEF RouterInv, RouterTypeOK
  <2>4. answer' \in Answer BY <2>1, <2>3 DEF Answer
  <2>5. RouterTypeOK' BY <1>3, <2>4 DEF MatchRoute, RouterInv, RouterTypeOK
  <2>6. RoutesKept' BY <1>3 DEF MatchRoute, RouterInv, RoutesKept, Template
  <2>7. QED BY <1>3, <2>5, <2>6 DEF MatchRoute, Routing, RouterInv
<1>4. CASE MatchNone
  <2>1. RouterTypeOK' BY <1>4 DEF MatchNone, RouterInv, RouterTypeOK, Answer
  <2>2. RoutesKept' BY <1>4 DEF MatchNone, RouterInv, RoutesKept, Template
  <2>3. QED BY <1>4, <2>1, <2>2 DEF MatchNone, Routing, RouterInv
<1>5. CASE UNCHANGED routerVars
  <2>1. RouterTypeOK' BY <1>5 DEF routerVars, RouterInv, RouterTypeOK
  <2>2. RoutesKept' BY <1>5 DEF routerVars, RouterInv, RoutesKept, Template
  <2>3. QED BY <1>5, <2>1, <2>2 DEF routerVars, RouterInv
<1>6. QED BY <1>1, <1>2, <1>3, <1>4, <1>5 DEF RouterNext

LEMMA RouterInvariant == RouterSpec => []RouterInv
BY RouterInitInv, RouterNextInv, PTL DEF RouterSpec

\* The router has the first item of each shape that declares operations, and
\* nothing else.
THEOREM FirstOfEachShape == RouterSpec => []RoutesKept
BY RouterInvariant, PTL DEF RouterInv

-----------------------------------------------------------------------------
\* What is declared has a route of its shape, no later than it.
LEMMA DeclaredHasRoute ==
    ASSUME RouterInv, Routing, NEW i \in Declared
    PROVE  \E j \in routes : /\ j <= i /\ SameShape(Template(j), Template(i))
                             /\ Matches(Template(j), request.path)
<1>1. /\ DOMAIN document = 1..Len(document)
      /\ \A k \in DOMAIN document : Template(k) \in Seq(Part)
      BY TemplatesTyped DEF RouterInv, RouterTypeOK
<1>2. i \in 1..loaded /\ HasOperations(document[i]) /\ Matches(Template(i), request.path)
      BY <1>1 DEF Declared, RouterInv, Routing
<1>3. PICK j \in routes : j <= i /\ SameShape(Template(j), Template(i))
      BY <1>2 DEF RouterInv, RoutesKept
<1>4. j \in DOMAIN document BY <1>1 DEF RouterInv, RouterTypeOK, Routing
<1>5. Matches(Template(j), request.path)
      BY <1>1, <1>2, <1>3, <1>4, ShapeMatches DEF Declared
<1>6. QED BY <1>3, <1>5

\* A route that answers stands for every item that declares the method.
LEMMA RouteServes ==
    ASSUME RouterInv, MatchRoute PROVE DeclaredOperationServed'
<1>1. PICK r \in routes :
        /\ MatchedBy(r, request.path)
        /\ answer' = [status |-> IF request.method \in DOMAIN document[r].operations
                                 THEN 200 ELSE 405, route |-> r]
      BY DEF MatchRoute
<1>2. document' = document /\ request' = request /\ Routing BY DEF MatchRoute
<1>3. Declared' = Declared /\ (\A i : Template(i)' = Template(i))
      BY <1>2 DEF Declared, Template
<1>4. /\ DOMAIN document = 1..Len(document) /\ Len(document) \in Nat
      /\ \A k \in DOMAIN document : Template(k) \in Seq(Part)
      BY TemplatesTyped DEF RouterInv, RouterTypeOK
<1>5. r \in DOMAIN document BY <1>2, <1>4 DEF RouterInv, RouterTypeOK, Routing
<1>6. r \in Declared BY <1>1, <1>5 DEF Declared, MatchedBy, RouterInv, RoutesKept
<1>7. ASSUME NEW i \in Declared, request.method \in DOMAIN document[i].operations,
             answer'.status = 405
      PROVE  \/ SameShape(Template(r), Template(i)) /\ r < i
             \/ Prefers(Template(r), Template(i))
  <2>1. PICK j \in routes : /\ j <= i /\ SameShape(Template(j), Template(i))
                            /\ Matches(Template(j), request.path)
        BY <1>2, DeclaredHasRoute
  <2>2. i \in DOMAIN document /\ i # r BY <1>1, <1>7 DEF Declared
  <2>3. CASE j = r
    <3>1. r < i BY <2>1, <2>2, <2>3, <1>4, <1>5
    <3>2. QED BY <3>1, <2>1, <2>3
  <2>4. CASE j # r
    <3>1. Prefers(Template(r), Template(j)) BY <2>1, <2>4, <1>1 DEF MatchedBy
    <3>2. j \in DOMAIN document BY <1>2, <1>4 DEF RouterInv, RouterTypeOK, Routing
    <3>3. Len(Template(r)) = Len(Template(j)) BY <2>1, <1>1 DEF MatchedBy, Matches
    <3>4. QED BY <3>1, <3>2, <3>3, <2>1, <2>2, <1>4, <1>5, ShapePrefers
  <2>5. QED BY <2>3, <2>4
<1>8. answer'.route = r /\ answer'.status \in {200, 405}
      /\ (answer'.status = 200 => request.method \in DOMAIN document[r].operations)
      BY <1>1
<1>9. QED BY <1>2, <1>3, <1>6, <1>7, <1>8 DEF DeclaredOperationServed

\* No request for a declared path is a 404, one that is served is served by an
\* item that declares it, and a 405 has an item before or above all that do.
THEOREM OperationsServed == RouterSpec => []DeclaredOperationServed
<1>1. RouterInit => DeclaredOperationServed BY DEF RouterInit, DeclaredOperationServed
<1>2. ASSUME RouterInv, DeclaredOperationServed, [RouterNext]_routerVars
      PROVE  DeclaredOperationServed'
  <2>1. CASE LoadItem BY <2>1, <1>2 DEF LoadItem, DeclaredOperationServed, Declared, Template
  <2>2. CASE Arrive BY <2>2 DEF Arrive, DeclaredOperationServed
  <2>3. CASE MatchRoute BY <2>3, <1>2, RouteServes
  <2>4. CASE MatchNone
    <3>1. Routing BY <2>4 DEF MatchNone
    <3>2. Declared = {} BY <1>2, <2>4, <3>1, DeclaredHasRoute DEF MatchNone
    <3>3. Declared' = {} BY <3>2, <2>4 DEF MatchNone, Declared, Template
    <3>4. answer' = [status |-> 404, route |-> 0] BY <2>4 DEF MatchNone
    <3>5. QED BY <3>3, <3>4 DEF DeclaredOperationServed
  <2>5. CASE UNCHANGED routerVars
        BY <2>5, <1>2 DEF routerVars, DeclaredOperationServed, Declared, Template
  <2>6. QED BY <2>1, <2>2, <2>3, <2>4, <2>5, <1>2 DEF RouterNext
<1>3. QED BY RouterInvariant, <1>1, <1>2, PTL DEF RouterSpec

\* Requests come only for a router that is built, and its routes are positions of
\* the document.
THEOREM RouterTyped == RouterSpec => []RouterTypeOK
BY RouterInvariant, PTL DEF RouterInv

-----------------------------------------------------------------------------
\* What a parameter is converted to.

\* An atom as a text of its own is read as the atom is.
LEMMA SingleTyped ==
    ASSUME NEW t \in Texts, NEW i \in DOMAIN t.atoms
    PROVE  LET one == Single(t.atoms[i]) IN
           /\ one \in Texts /\ ~one.json /\ one.atoms = <<t.atoms[i]>>
           /\ AtomReadings(t.atoms[i]) \subseteq Readings(one)
<1> DEFINE a == t.atoms[i]
<1>1. Single(a) \in Texts BY TextsAssumption
<1>2. ~Single(a).json /\ Single(a).atoms = <<a>> BY DEF Single, Text
<1>3. Len(Single(a).atoms) = 1 /\ Single(a).atoms[1] = a BY <1>2
<1>4. AtomReadings(a) \subseteq Readings(Single(a)) BY <1>2, <1>3 DEF Readings
<1>5. QED BY <1>1, <1>2, <1>4

\* A text of one atom that is no JSON is that atom.
LEMMA OneAtom ==
    ASSUME NEW t \in TextType, ~t.json, Len(t.atoms) = 1
    PROVE  Single(t.atoms[1]) = t /\ t.atoms[1] \in AtomType
<1>1. t.atoms \in Seq(AtomType) /\ t = [atoms |-> t.atoms, json |-> FALSE] BY DEF TextType
<1>2. t.atoms = <<t.atoms[1]>> BY <1>1
<1>3. QED BY <1>1, <1>2 DEF Single, Text

\* What a text that is no array is read as.
LEMMA ScalarReadings ==
    ASSUME NEW t \in Texts, NEW v \in Readings(t)
    PROVE  \/ v = [string |-> t]
           \/ \E x : v = [array |-> x]
           \/ /\ IsA(t, {"integer"})
              /\ v \in {[integer |-> t.atoms[1].value], [number |-> t.atoms[1].value]}
           \/ IsA(t, {"number"}) /\ v = [number |-> t.atoms[1].value]
           \/ IsA(t, {"boolean"}) /\ v = [boolean |-> t.atoms[1].value = 1]
<1>1. CASE v = [string |-> t] BY <1>1
<1>2. CASE t.json /\ v # [string |-> t] BY <1>2 DEF Readings
<1>3. CASE v \in ArraysOf([i \in DOMAIN t.atoms |-> AtomReadings(t.atoms[i])])
      BY <1>3 DEF ArraysOf
<1>4. CASE ~t.json /\ Len(t.atoms) = 1 /\ v \in AtomReadings(t.atoms[1])
  <2> DEFINE a == t.atoms[1]
  <2>1. Single(a) = t /\ a.kind \in {"integer", "number", "boolean", "flag", "word"}
        BY <1>4, TextsAssumption, OneAtom DEF AtomType
  <2>2. \/ v = JsonAtom(a)
        \/ v = [string |-> t]
        \/ a.kind = "integer" /\ v = [number |-> a.value]
        BY <1>4, <2>1 DEF AtomReadings
  <2>3. \/ v = [string |-> t]
        \/ a.kind = "integer" /\ v \in {[integer |-> a.value], [number |-> a.value]}
        \/ a.kind = "number" /\ v = [number |-> a.value]
        \/ a.kind = "boolean" /\ v = [boolean |-> a.value = 1]
        BY <2>1, <2>2 DEF JsonAtom
  <2>4. \A k : IsA(t, {k}) <=> a.kind = k BY <1>4 DEF IsA
  <2>5. QED BY <2>3, <2>4
<1>5. QED BY <1>1, <1>2, <1>3, <1>4 DEF Readings

\* What is converted by the type of its schema is a reading of the text.
LEMMA ScalarIsReading ==
    ASSUME NEW t \in Texts, NEW s, convert_scalar(t, s) # Bad
    PROVE  convert_scalar(t, s) \in Readings(t)
<1> DEFINE a == t.atoms[1]
           c == convert_scalar(t, s)
<1>1. CASE c = [string |-> t] BY <1>1 DEF Readings
<1>2. CASE IsA(t, {"integer", "number", "boolean"}) /\ c \in AtomReadings(a)
      BY <1>2 DEF Readings, IsA
<1>3. CASE s.type = "integer" /\ IsA(t, {"integer"})
  <2>1. a.kind = "integer" BY <1>3 DEF IsA
  <2>2. c = JsonAtom(a) BY <1>3, <2>1 DEF convert_scalar, JsonAtom
  <2>3. QED BY <1>2, <1>3, <2>2 DEF AtomReadings, IsA
<1>4. CASE s.type = "number" /\ IsA(t, {"integer", "number"})
  <2>1. c = [number |-> a.value] BY <1>4 DEF convert_scalar
  <2>2. a.kind = "integer" \/ JsonAtom(a) = [number |-> a.value] BY <1>4 DEF IsA, JsonAtom
  <2>3. QED BY <1>2, <1>4, <2>1, <2>2 DEF AtomReadings, IsA
<1>5. CASE s.type = "boolean" /\ IsA(t, {"boolean"})
  <2>1. a.kind = "boolean" BY <1>5 DEF IsA
  <2>2. c = JsonAtom(a) BY <1>5, <2>1 DEF convert_scalar, JsonAtom
  <2>3. QED BY <1>2, <1>5, <2>2 DEF AtomReadings, IsA
<1>6. CASE s.type \notin {"integer", "number", "boolean"} BY <1>6, <1>1 DEF convert_scalar
<1>7. QED BY <1>3, <1>4, <1>5, <1>6 DEF convert_scalar

\* By the schema of a text that is no array, one of its readings is accepted
\* exactly if what it is converted to is.
LEMMA ScalarConverted ==
    ASSUME NEW t \in Texts, NEW s \in Schemas, s.type # "array"
    PROVE  (/\ convert_scalar(t, s) # Bad
            /\ Accepts(s, convert_scalar(t, s)))
           <=> \E v \in Readings(t) : /\ Accepts(s, v)
                                      /\ s.type = "oneOf" => v = [string |-> t]
<1> DEFINE c == convert_scalar(t, s)
<1>1. ASSUME c # Bad, Accepts(s, c)
      PROVE  \E v \in Readings(t) : Accepts(s, v) /\ (s.type = "oneOf" => v = [string |-> t])
  <2>1. c \in Readings(t) BY <1>1, ScalarIsReading
  <2>2. s.type = "oneOf" => c = [string |-> t] BY DEF convert_scalar
  <2>3. QED BY <1>1, <2>1, <2>2
<1>2. ASSUME NEW v \in Readings(t), Accepts(s, v), s.type = "oneOf" => v = [string |-> t]
      PROVE  c # Bad /\ Accepts(s, c)
  <2>1. JsonSchema(Accepts, s, v) BY <1>2, JsonSchemaAssumption
  <2>2. v # Bad BY JsonSchemaAssumption
  <2>3. CASE c = v BY <2>3, <2>2, <1>2
  <2>4. CASE s.type = "integer"
    <3>1. Is(v, "integer") BY <2>1, <2>4 DEF JsonSchema
    <3>2. IsA(t, {"integer"}) /\ v = [integer |-> t.atoms[1].value]
          BY <3>1, ScalarReadings DEF Is
    <3>3. QED BY <2>3, <2>4, <3>2 DEF convert_scalar
  <2>5. CASE s.type = "number"
    <3>1. \/ Is(v, "integer") /\ Within(v.integer, s)
          \/ Is(v, "number") /\ Within(v.number, s)
          BY <2>1, <2>5 DEF JsonSchema
    <3>2. /\ IsA(t, {"integer"}) \/ IsA(t, {"number"})
          /\ v \in {[integer |-> t.atoms[1].value], [number |-> t.atoms[1].value]}
          BY <3>1, ScalarReadings DEF Is
    <3>3. IsA(t, {"integer", "number"}) BY <3>2 DEF IsA
    <3>4. c = [number |-> t.atoms[1].value] BY <2>5, <3>3 DEF convert_scalar
    <3>5. Within(t.atoms[1].value, s) BY <3>1, <3>2 DEF Is
    <3>6. Is(c, "number") /\ Within(c.number, s) BY <3>4, <3>5 DEF Is
    <3>7. JsonSchema(Accepts, s, c) BY <3>6, <2>5 DEF JsonSchema
    <3>8. c \in Readings(t)
      <4>1. t.atoms[1].kind = "integer" \/ JsonAtom(t.atoms[1]) = c BY <3>2, <3>4 DEF IsA, JsonAtom
      <4>2. c \in AtomReadings(t.atoms[1]) BY <3>4, <4>1 DEF AtomReadings
      <4>3. QED BY <4>2, <3>3 DEF IsA, Readings
    <3>9. QED BY <3>7, <3>8, JsonSchemaAssumption
  <2>6. CASE s.type = "boolean"
    <3>1. Is(v, "boolean") BY <2>1, <2>6 DEF JsonSchema
    <3>2. IsA(t, {"boolean"}) /\ v = [boolean |-> t.atoms[1].value = 1]
          BY <3>1, ScalarReadings DEF Is
    <3>3. QED BY <2>3, <2>6, <3>2 DEF convert_scalar
  <2>7. CASE s.type = "string"
    <3>1. Is(v, "string") BY <2>1, <2>7 DEF JsonSchema
    <3>2. v = [string |-> t] BY <3>1, ScalarReadings DEF Is
    <3>3. QED BY <2>3, <2>7, <3>2 DEF convert_scalar
  <2>8. CASE s.type = "oneOf" BY <2>8, <2>3, <1>2 DEF convert_scalar
  <2>9. CASE s.type = "any"
    <3>1. c = [string |-> t] BY <2>9 DEF convert_scalar
    <3>2. c \in Readings(t) BY <3>1 DEF Readings
    <3>3. JsonSchema(Accepts, s, c) BY <2>9 DEF JsonSchema
    <3>4. QED BY <3>2, <3>3, JsonSchemaAssumption
  <2>10. CASE s.type = "object"
    <3>1. Is(v, "object") BY <2>1, <2>10 DEF JsonSchema
    <3>2. FALSE BY <3>1, ScalarReadings DEF Is
    <3>3. QED BY <3>2
  <2>11. s.type \in {"integer", "number", "boolean", "string", "oneOf", "any", "object"}
         BY <2>1 DEF JsonSchema
  <2>12. QED BY <2>4, <2>5, <2>6, <2>7, <2>8, <2>9, <2>10, <2>11
<1>3. QED BY <1>1, <1>2

\* An item of an array is converted as a text of its own.
LEMMA ItemConverted ==
    ASSUME NEW t \in Texts, NEW s \in Schemas, NEW i \in DOMAIN t.atoms,
           s.items # NoSchema, s.items.type # "ref"
    PROVE  /\ convert_item(t.atoms[i], s.items) = convert_scalar(Single(t.atoms[i]), s.items)
           /\ Single(t.atoms[i]) \in Texts /\ s.items \in Schemas /\ s.items.type # "array"
BY TextsAssumption, SchemasAssumption DEF convert_item

\* An item that converts is a reading of its atom.
LEMMA ItemIsReading ==
    ASSUME NEW t \in Texts, NEW s \in Schemas, NEW i \in DOMAIN t.atoms,
           s.items # NoSchema => s.items.type # "ref",
           convert_item(t.atoms[i], s.items) # Bad
    PROVE  convert_item(t.atoms[i], s.items) \in AtomReadings(t.atoms[i])
<1> DEFINE a == t.atoms[i]
           one == Single(a)
           c == convert_item(a, s.items)
<1>1. one \in Texts /\ ~one.json /\ Len(one.atoms) = 1 /\ one.atoms[1] = a
  <2>1. one \in Texts /\ ~one.json /\ one.atoms = <<a>> BY SingleTyped
  <2>2. QED BY <2>1
<1>2. c = [string |-> one] \/ c = convert_scalar(one, s.items) BY DEF convert_item
<1>3. CASE c = [string |-> one] BY <1>3 DEF AtomReadings
<1>4. CASE c = convert_scalar(one, s.items)
  <2>1. c \in Readings(one) BY <1>1, <1>4, ScalarIsReading
  <2>2. \A k : IsA(one, k) <=> a.kind \in k BY <1>1 DEF IsA
  <2>3. \/ c = [string |-> one]
        \/ a.kind = "integer" /\ c \in {[integer |-> a.value], [number |-> a.value]}
        \/ a.kind = "number" /\ c = [number |-> a.value]
        \/ a.kind = "boolean" /\ c = [boolean |-> a.value = 1]
        BY <1>1, <1>4, <2>2 DEF convert_scalar
  <2>4. QED BY <2>3 DEF AtomReadings, JsonAtom
<1>5. QED BY <1>2, <1>3, <1>4

\* An array of readings of its atoms is a reading of a text that is no JSON.
LEMMA ArrayIsReading ==
    ASSUME NEW t \in Texts, ~t.json, NEW x,
           x = [i \in DOMAIN t.atoms |-> x[i]],
           \A i \in DOMAIN t.atoms : x[i] \in AtomReadings(t.atoms[i])
    PROVE  [array |-> x] \in Readings(t)
<1> DEFINE choices == [i \in DOMAIN t.atoms |-> AtomReadings(t.atoms[i])]
<1>1. DOMAIN choices = DOMAIN t.atoms /\ \A i \in DOMAIN t.atoms : choices[i] = AtomReadings(t.atoms[i])
      OBVIOUS
<1>2. \A i \in DOMAIN choices : x[i] \in choices[i] BY <1>1
<1> HIDE DEF choices
<1>3. \A i \in DOMAIN choices : x[i] \in UNION {choices[k] : k \in DOMAIN choices} BY <1>2
<1>4. x \in [DOMAIN choices -> UNION {choices[k] : k \in DOMAIN choices}] BY <1>1, <1>3
<1>5. x \in OneOfEach(choices) BY <1>2, <1>4 DEF OneOfEach
<1>6. [array |-> x] \in ArraysOf(choices) BY <1>5 DEF ArraysOf
<1>7. QED BY <1>6 DEF Readings, choices

\* The arrays that a text can be read as.
LEMMA ArrayReadings ==
    ASSUME NEW t \in Texts, NEW v \in Readings(t), Is(v, "array")
    PROVE  IF t.json THEN v = [array |-> [i \in DOMAIN t.atoms |-> JsonAtom(t.atoms[i])]]
           ELSE \E x : /\ v = [array |-> x] /\ x = [i \in DOMAIN t.atoms |-> x[i]]
                       /\ \A i \in DOMAIN t.atoms : x[i] \in AtomReadings(t.atoms[i])
<1>1. v # [string |-> t] BY DEF Is
<1>2. CASE t.json BY <1>1, <1>2 DEF Readings
<1>3. CASE ~t.json
  <2> DEFINE choices == [i \in DOMAIN t.atoms |-> AtomReadings(t.atoms[i])]
  <2>1. \A a : JsonAtom(a) # v
    <3>1. \A a : DOMAIN JsonAtom(a) \in {{"integer"}, {"number"}, {"boolean"}, {"string"}} BY DEF JsonAtom
    <3>2. QED BY <3>1 DEF Is
  <2>2. \A a : v \notin AtomReadings(a) BY <2>1 DEF AtomReadings, Is
  <2>3. v \in ArraysOf(choices) BY <1>1, <1>3, <2>2 DEF Readings
  <2>4. PICK x \in OneOfEach(choices) : v = [array |-> x] BY <2>3 DEF ArraysOf
  <2>5. DOMAIN choices = DOMAIN t.atoms /\ \A i \in DOMAIN t.atoms : choices[i] = AtomReadings(t.atoms[i])
        OBVIOUS
  <2> HIDE DEF choices
  <2>6. x \in [DOMAIN choices -> UNION {choices[k] : k \in DOMAIN choices}]
        /\ \A i \in DOMAIN choices : x[i] \in choices[i] BY <2>4 DEF OneOfEach
  <2>7. x = [i \in DOMAIN t.atoms |-> x[i]] BY <2>5, <2>6
  <2>8. \A i \in DOMAIN t.atoms : x[i] \in AtomReadings(t.atoms[i]) BY <2>5, <2>6
  <2>9. QED BY <1>3, <2>4, <2>7, <2>8
<1>4. QED BY <1>2, <1>3

\* The length of a function on the first n numbers.
LEMMA LenOfFunction ==
    ASSUME NEW n \in Nat, NEW x, x = [i \in 1..n |-> x[i]]
    PROVE  Len(x) = n
<1> DEFINE S == {x[i] : i \in 1..n}
<1>1. x \in [1..n -> S] OBVIOUS
<1>2. x \in Seq(S) BY <1>1, SeqDef
<1>3. DOMAIN x = 1..n /\ DOMAIN x = 1..Len(x) /\ Len(x) \in Nat BY <1>1, <1>2, LenProperties
<1>4. QED BY <1>3

\* By the schema of an array, one of the readings of a text is accepted exactly if
\* what it is converted to is.
LEMMA ArrayConverted ==
    ASSUME NEW t \in Texts, NEW s \in Schemas, s.type = "array",
           s.items # NoSchema => s.items.type # "ref"
    PROVE  (/\ convert_param_to_json(t, s) # Bad
            /\ Accepts(s, convert_param_to_json(t, s)))
           <=> \E v \in Readings(t) :
                  /\ Accepts(s, v)
                  /\ ~t.json /\ s.items # NoSchema /\ s.items.type = "oneOf" =>
                        \A i \in DOMAIN t.atoms : v.array[i] = [string |-> Single(t.atoms[i])]
<1> DEFINE c == convert_param_to_json(t, s)
           y == [i \in DOMAIN t.atoms |-> convert_item(t.atoms[i], s.items)]
           Strings(v) == ~t.json /\ s.items # NoSchema /\ s.items.type = "oneOf" =>
                            \A i \in DOMAIN t.atoms : v.array[i] = [string |-> Single(t.atoms[i])]
<1>0. y = [i \in DOMAIN t.atoms |-> y[i]] OBVIOUS
<1>1. CASE t.json
  <2> DEFINE j == [array |-> [i \in DOMAIN t.atoms |-> JsonAtom(t.atoms[i])]]
  <2>1. c = j BY <1>1 DEF convert_param_to_json
  <2>2. j \in Readings(t) BY <1>1 DEF Readings
  <2>3. j # Bad BY <2>2, JsonSchemaAssumption
  <2>4. ASSUME NEW v \in Readings(t), Accepts(s, v) PROVE v = j
    <3>1. JsonSchema(Accepts, s, v) BY <2>4, JsonSchemaAssumption
    <3>2. Is(v, "array") BY <3>1 DEF JsonSchema
    <3>3. QED BY <3>2, <1>1, ArrayReadings
  <2> HIDE DEF j, c
  <2>5. QED BY <1>1, <2>1, <2>2, <2>3, <2>4 DEF c
<1>2. CASE ~t.json
  <2>1. c = AllOf(y) BY <1>2 DEF convert_param_to_json
  <2>2. ASSUME \A i \in DOMAIN t.atoms : y[i] # Bad
        PROVE  c = [array |-> y] /\ c \in Readings(t) /\ c # Bad
    <3>1. c = [array |-> y] BY <2>1, <2>2 DEF AllOf
    <3>2. \A i \in DOMAIN t.atoms : y[i] \in AtomReadings(t.atoms[i]) BY <2>2, ItemIsReading
    <3> HIDE DEF y
    <3>3. [array |-> y] \in Readings(t) BY <1>0, <1>2, <3>2, ArrayIsReading
    <3>4. QED BY <3>1, <3>3, JsonSchemaAssumption
  <2>3. ASSUME c # Bad, Accepts(s, c)
        PROVE  \E v \in Readings(t) : Accepts(s, v) /\ Strings(v)
    <3>1. \A i \in DOMAIN t.atoms : y[i] # Bad BY <2>1, <2>3 DEF AllOf
    <3>2. c = [array |-> y] /\ c \in Readings(t) BY <2>2, <3>1
    <3>3. s.items # NoSchema /\ s.items.type = "oneOf" =>
            \A i \in DOMAIN t.atoms : y[i] = [string |-> Single(t.atoms[i])]
          BY DEF convert_item, convert_scalar
    <3> HIDE DEF y
    <3>4. Strings(c) BY <3>2, <3>3
    <3>5. QED BY <2>3, <3>2, <3>4
  <2>4. ASSUME NEW v \in Readings(t), Accepts(s, v), Strings(v)
        PROVE  c # Bad /\ Accepts(s, c)
    <3>1. JsonSchema(Accepts, s, v) BY <2>4, JsonSchemaAssumption
    <3>2. /\ Is(v, "array") /\ Within(Len(v.array), s)
          /\ s.items # NoSchema => \A i \in DOMAIN v.array : Accepts(s.items, v.array[i])
          BY <3>1 DEF JsonSchema
    <3>3. PICK x : /\ v = [array |-> x] /\ x = [i \in DOMAIN t.atoms |-> x[i]]
                   /\ \A i \in DOMAIN t.atoms : x[i] \in AtomReadings(t.atoms[i])
          BY <3>2, <1>2, ArrayReadings
    <3>4. DOMAIN x = DOMAIN t.atoms /\ DOMAIN y = DOMAIN t.atoms BY <3>3
    <3>5. ASSUME NEW i \in DOMAIN t.atoms
          PROVE  y[i] # Bad /\ (s.items # NoSchema => Accepts(s.items, y[i]))
      <4> DEFINE one == Single(t.atoms[i])
      <4>1. one \in Texts /\ AtomReadings(t.atoms[i]) \subseteq Readings(one) BY SingleTyped
      <4>2. CASE s.items = NoSchema
        <5>1. y[i] = [string |-> one] BY <4>2 DEF convert_item
        <5>2. y[i] \in Readings(one) BY <5>1 DEF Readings
        <5>3. QED BY <4>1, <4>2, <5>2, JsonSchemaAssumption
      <4>3. CASE s.items # NoSchema
        <5>1. /\ y[i] = convert_scalar(one, s.items)
              /\ s.items \in Schemas /\ s.items.type # "array"
              BY <4>3, ItemConverted
        <5>2. x[i] \in Readings(one) /\ Accepts(s.items, x[i]) BY <4>1, <4>3, <3>2, <3>3, <3>4
        <5>3. s.items.type = "oneOf" => x[i] = [string |-> one] BY <4>3, <3>3, <2>4, <1>2
        <5> HIDE DEF y, one
        <5>4. QED BY <4>1, <4>3, <5>1, <5>2, <5>3, ScalarConverted
      <4>4. QED BY <4>2, <4>3
    <3>6. Len(x) = Len(y)
      <4>1. t.atoms \in Seq(AtomType) BY TextsAssumption DEF TextType
      <4>2. DOMAIN t.atoms = 1..Len(t.atoms) /\ Len(t.atoms) \in Nat BY <4>1
      <4> HIDE DEF y
      <4>3. QED BY <4>2, <3>3, <1>0, LenOfFunction
    <3>7. c = [array |-> y] /\ c \in Readings(t) /\ c # Bad BY <2>2, <3>5
    <3>8. JsonSchema(Accepts, s, c)
      <4> HIDE DEF y, c
      <4>1. c.array = y /\ v.array = x /\ Is(c, "array") BY <3>3, <3>7 DEF Is
      <4>2. s.items # NoSchema => \A i \in DOMAIN c.array : Accepts(s.items, c.array[i])
            BY <4>1, <3>4, <3>5
      <4>3. Within(Len(c.array), s) BY <4>1, <3>2, <3>6
      <4>4. QED BY <4>1, <4>2, <4>3 DEF JsonSchema
    <3>9. QED BY <3>7, <3>8, JsonSchemaAssumption
  <2> HIDE DEF c, y
  <2>5. QED BY <2>3, <2>4, <1>2 DEF c
<1>3. QED BY <1>1, <1>2

\* A parameter is valid exactly if it is one of the values that its schema accepts.
LEMMA ParamReads ==
    ASSUME NEW t \in Texts, NEW s \in Schemas
    PROVE  ParamValid(t, s) <=> Reads(t, s)
<1>1. CASE s.type = "array" BY <1>1, ArrayConverted DEF ParamValid, Reads
<1>2. CASE s.type # "array" BY <1>2, ScalarConverted DEF ParamValid, Reads, convert_param_to_json
<1>3. QED BY <1>1, <1>2

\* A text that is valid passes the early check of the same schema, unless it has
\* characters of several bytes.
LEMMA ValidPassesEarly ==
    ASSUME NEW t \in Texts, NEW s, Resolved(s) \in Schemas,
           ParamValid(t, Resolved(s)), Chars(t) = Bytes(t)
    PROVE  validate_single_path_param(t, s)
<1> DEFINE c == convert_scalar(t, s)
<1>1. s # NoSchema BY SchemasAssumption DEF Resolved
<1>2. CASE s.type = "ref" BY <1>2 DEF validate_single_path_param
<1>3. CASE s.type \in {"integer", "number", "boolean", "string"}
  <2>1. Resolved(s) = s /\ convert_param_to_json(t, s) = c
        BY <1>3 DEF Resolved, convert_param_to_json
  <2>2. c # Bad /\ Accepts(s, c) BY <2>1 DEF ParamValid
  <2>3. CASE s.type = "string"
    <3>1. c = [string |-> t] BY <2>3 DEF convert_scalar
    <3>2. c \in Readings(t) /\ s \in Schemas BY <2>1, <2>2, ScalarIsReading
    <3>3. JsonSchema(Accepts, s, c) BY <2>2, <3>2, JsonSchemaAssumption
    <3>4. Within(Chars(c.string), s) /\ (s.enum = {} \/ c.string \in s.enum)
          BY <3>3, <2>3 DEF JsonSchema
    <3>5. QED BY <3>1, <3>4, <2>3 DEF validate_single_path_param, validate_string_type
  <2>4. CASE s.type \in {"integer", "number", "boolean"}
        BY <2>4, <2>2 DEF convert_scalar, validate_single_path_param
  <2>5. QED BY <2>3, <2>4, <1>3
<1>4. CASE s.type \notin {"ref", "integer", "number", "boolean", "string"}
      BY <1>4 DEF validate_single_path_param
<1>5. QED BY <1>2, <1>3, <1>4

-----------------------------------------------------------------------------
\* The head of a request.

\* All that the checks of the head do to the router is to let it route.
THEOREM HeadRoutes == HeadSpec => RouterSpec
<1>1. HeadInit => RouterInit BY DEF HeadInit
<1>2. [HeadNext]_headVars => [RouterNext]_routerVars
      BY DEF HeadNext, headVars, Route, Judge, CheckPathTypes, CheckPath, CheckQuery,
             CheckHeaders, JudgeBody, Finish
<1>3. QED BY <1>1, <1>2, PTL DEF HeadSpec, RouterSpec

\* What fails in the head, by the name of its check.
Fails(check) == IF check = "types" THEN TypesFail ELSE ParamsFail(check)
HeadChecks == {"types", "path", "query", "header"}

\* The checks done before a stage.
DoneBefore(s) ==
    CASE s = "types"  -> {}
      [] s = "path"   -> {"types"}
      [] s = "query"  -> {"types", "path"}
      [] s = "header" -> {"types", "path", "query"}
      [] s = "body"   -> HeadChecks
      [] s = "mock"   -> HeadChecks \cup {"body"}

\* The inductive invariant: errors tells of the checks that are done, and of no
\* other.
VerdictsKept ==
    stage \in HeadChecks \cup {"body", "mock"} =>
        /\ answer.status = 200
        /\ errors \subseteq DoneBefore(stage)
        /\ \A check \in DoneBefore(stage) \cap HeadChecks : check \in errors <=> Fails(check)

\* Checks judge by what the router has, which they leave alone.
LEMMA FailsUnchanged ==
    ASSUME UNCHANGED routerVars
    PROVE  \A check \in HeadChecks : Fails(check)' <=> Fails(check)
<1>1. document' = document /\ request' = request /\ answer' = answer BY DEF routerVars
<1>2. Item' = Item /\ Operation' = Operation BY <1>1 DEF Item, Operation
<1>3. PathTexts' = PathTexts BY <1>1, <1>2 DEF PathTexts
<1>4. TypesFail' <=> TypesFail BY <1>2, <1>3 DEF TypesFail
<1>5. \A l : TextsIn(l)' = TextsIn(l) BY <1>1, <1>3 DEF TextsIn
<1>6. \A l, p : ParamFails(p, l)' <=> ParamFails(p, l) BY <1>5 DEF ParamFails
<1>7. HeaderTooLong' <=> HeaderTooLong BY <1>1 DEF HeaderTooLong
<1>8. \A l : ParamsFail(l)' <=> ParamsFail(l) BY <1>2, <1>6, <1>7 DEF ParamsFail
<1>9. QED BY <1>4, <1>8 DEF Fails

\* A check adds its verdict to those before it.
LEMMA JudgeKeeps ==
    ASSUME VerdictsKept, NEW check \in HeadChecks, NEW next,
           Judge(check, Fails(check), next),
           next \in {"path", "query", "header", "body"},
           DoneBefore(next) = DoneBefore(check) \cup {check}, check \notin DoneBefore(check)
    PROVE  VerdictsKept'
<1>1. /\ stage = check /\ stage' = next /\ answer' = answer
      /\ errors' = IF Fails(check) THEN errors \cup {check} ELSE errors
      BY DEF Judge, routerVars
<1>2. \A c \in HeadChecks : Fails(c)' <=> Fails(c) BY FailsUnchanged DEF Judge
<1>3. /\ answer.status = 200 /\ errors \subseteq DoneBefore(check)
      /\ \A c \in DoneBefore(check) \cap HeadChecks : c \in errors <=> Fails(c)
      BY <1>1 DEF VerdictsKept
<1>4. DoneBefore(stage)' = DoneBefore(next) BY <1>1
<1>5. \A c \in DoneBefore(next) \cap HeadChecks : c \in errors' <=> Fails(c)
      BY <1>1, <1>3
<1>6. errors' \subseteq DoneBefore(next) BY <1>1, <1>3
<1>7. \A c \in DoneBefore(next) \cap HeadChecks : c \in errors' <=> Fails(c)'
      BY <1>2, <1>5
<1>8. answer'.status = 200 BY <1>1, <1>3
<1>9. stage' = next BY <1>1
<1> HIDE DEF DoneBefore, Fails
<1>10. QED BY <1>6, <1>7, <1>8, <1>9 DEF VerdictsKept

LEMMA VerdictsNext == VerdictsKept /\ [HeadNext]_headVars => VerdictsKept'
<1> SUFFICES ASSUME VerdictsKept, [HeadNext]_headVars PROVE VerdictsKept' OBVIOUS
<1>1. CASE Route
  <2>1. CASE answer'.status = 200
    <3>1. stage' = "types" /\ errors' = {} BY <1>1, <2>1 DEF Route
    <3>2. QED BY <2>1, <3>1 DEF VerdictsKept, DoneBefore
  <2>2. CASE answer'.status # 200
    <3>1. stage' = "route" BY <1>1, <2>2 DEF Route
    <3>2. QED BY <3>1 DEF VerdictsKept, HeadChecks
  <2>3. QED BY <2>1, <2>2
<1>2. CASE CheckPathTypes
  <2>1. Judge("types", Fails("types"), "path") BY <1>2 DEF CheckPathTypes, Fails
  <2>2. DoneBefore("path") = DoneBefore("types") \cup {"types"} /\ "types" \notin DoneBefore("types")
        BY DEF DoneBefore
  <2>3. QED BY <2>1, <2>2, JudgeKeeps DEF HeadChecks
<1>3. CASE CheckPath
  <2>1. Judge("path", Fails("path"), "query") BY <1>3 DEF CheckPath, Fails
  <2>2. DoneBefore("query") = DoneBefore("path") \cup {"path"} /\ "path" \notin DoneBefore("path")
        BY DEF DoneBefore
  <2>3. QED BY <2>1, <2>2, JudgeKeeps DEF HeadChecks
<1>4. CASE CheckQuery
  <2>1. Judge("query", Fails("query"), "header") BY <1>4 DEF CheckQuery, Fails
  <2>2. DoneBefore("header") = DoneBefore("query") \cup {"query"} /\ "query" \notin DoneBefore("query")
        BY DEF DoneBefore
  <2>3. QED BY <2>1, <2>2, JudgeKeeps DEF HeadChecks
<1>5. CASE CheckHeaders
  <2>1. Judge("header", Fails("header"), "body") BY <1>5 DEF CheckHeaders, Fails
  <2>2. DoneBefore("body") = DoneBefore("header") \cup {"header"} /\ "header" \notin DoneBefore("header")
        BY DEF DoneBefore, HeadChecks
  <2>3. QED BY <2>1, <2>2, JudgeKeeps DEF HeadChecks
<1>6. CASE JudgeBody
  <2>1. /\ stage = "body" /\ stage' = "mock" /\ answer' = answer /\ UNCHANGED routerVars
        /\ errors' \in {errors, errors \cup {"body"}}
        BY <1>6 DEF JudgeBody, Judge, routerVars
  <2>2. \A c \in HeadChecks : Fails(c)' <=> Fails(c) BY <2>1, FailsUnchanged
  <2>3. /\ answer.status = 200 /\ errors \subseteq HeadChecks
        /\ \A c \in HeadChecks : c \in errors <=> Fails(c)
        BY <2>1 DEF VerdictsKept, DoneBefore
  <2>4. "body" \notin HeadChecks BY DEF HeadChecks
  <2>5. \A c \in HeadChecks : c \in errors' <=> Fails(c)' BY <2>1, <2>2, <2>3, <2>4
  <2>6. DoneBefore(stage)' = HeadChecks \cup {"body"} BY <2>1 DEF DoneBefore
  <2>7. errors' \subseteq HeadChecks \cup {"body"} /\ answer'.status = 200 BY <2>1, <2>3
  <2> HIDE DEF HeadChecks, Fails
  <2>8. QED BY <2>5, <2>6, <2>7 DEF VerdictsKept
<1>7. CASE Finish BY <1>7 DEF Finish, VerdictsKept, HeadChecks
<1>8. CASE UNCHANGED headVars
  <2>1. stage' = stage /\ errors' = errors /\ answer' = answer BY <1>8 DEF headVars, routerVars
  <2>2. \A c \in HeadChecks : Fails(c)' <=> Fails(c) BY <1>8, FailsUnchanged DEF headVars
  <2>3. DoneBefore(stage)' = DoneBefore(stage) BY <2>1
  <2> HIDE DEF HeadChecks, Fails, DoneBefore
  <2>4. QED BY <2>1, <2>2, <2>3 DEF VerdictsKept
<1>9. QED BY <1>1, <1>2, <1>3, <1>4, <1>5, <1>6, <1>7, <1>8 DEF HeadNext

\* Whatever the parameters are, errors has the checks of the head that are done and
\* failed.
THEOREM HeadVerdicts == HeadSpec => []VerdictsKept
<1>1. HeadInit => VerdictsKept BY DEF HeadInit, VerdictsKept, HeadChecks
<1>2. QED BY <1>1, VerdictsNext, PTL DEF HeadSpec

\* An operation that is served has texts and schemas that the assumptions are about.
LEMMA ServedTyped ==
    ASSUME RouterInv, DeclaredOperationServed, answer.status = 200
    PROVE  /\ Operation \in Operations
           /\ \A n \in DOMAIN PathTexts : PathTexts[n] \in Texts
           /\ \A n \in DOMAIN request.query : request.query[n] \in Texts
           /\ \A n \in DOMAIN request.headers : request.headers[n] \in Texts
<1>1. answer # Unanswered BY DEF Unanswered
<1>2. answer.route \in Declared /\ request.method \in DOMAIN Item.operations
      BY <1>1 DEF DeclaredOperationServed, Item
<1>3. Item \in PathItem /\ Matches(Item.template, request.path)
  <2>1. document \in Seq(PathItem) BY RouterAssumption DEF RouterInv, RouterTypeOK
  <2>2. answer.route \in DOMAIN document /\ Matches(Template(answer.route), request.path)
        BY <1>2 DEF Declared
  <2>3. QED BY <2>1, <2>2 DEF Item, Template
<1>4. Operation \in Operations
  <2>1. Item.operations \in UNION {[M -> Operations] : M \in SUBSET Methods}
        BY <1>3 DEF PathItem
  <2>2. QED BY <2>1, <1>2 DEF Operation
<1>5. Item.template \in Seq(Part) BY <1>3 DEF PathItem
<1>6. request \in Requests BY <1>1 DEF RouterInv, RouterTypeOK
<1>7. DOMAIN request.path = DOMAIN Item.template
  <2>1. request.path \in Seq(Segments) BY <1>6, RouterAssumption
  <2>2. QED BY <2>1, <1>3, <1>5 DEF Matches
<1>8. ASSUME NEW n \in DOMAIN PathTexts PROVE PathTexts[n] \in Texts
  <2> DEFINE parameters == {i \in DOMAIN Item.template : ~Item.template[i].literal}
             i == CHOOSE k \in parameters : Item.template[k].text = n
  <2>1. \E k \in parameters : Item.template[k].text = n BY <1>8 DEF PathTexts
  <2>2. i \in parameters BY <2>1
  <2>3. PathTexts[n] = request.path[i] BY <1>8 DEF PathTexts
  <2>4. i \in DOMAIN request.path BY <2>2, <1>7
  <2>5. QED BY <2>3, <2>4, <1>6, TextsAssumption
<1>9. /\ \A n \in DOMAIN request.query : request.query[n] \in Texts
      /\ \A n \in DOMAIN request.headers : request.headers[n] \in Texts
      BY <1>6, TextsAssumption
<1>10. QED BY <1>4, <1>8, <1>9

\* What a request that is judged needs of the invariants.
LEMMA JudgedTyped ==
    ASSUME RouterInv, DeclaredOperationServed, VerdictsKept, Judged
    PROVE  /\ \A check \in HeadChecks : check \in errors <=> Fails(check)
           /\ \A l \in {"path", "query", "header"} : \A n \in DOMAIN TextsIn(l) : TextsIn(l)[n] \in Texts
           /\ \A i \in DOMAIN Operation.params : Resolved(Operation.params[i].schema) \in Schemas
<1>1. /\ answer.status = 200
      /\ \A check \in HeadChecks : check \in errors <=> Fails(check)
      BY DEF Judged, VerdictsKept, DoneBefore
<1>2. \A l \in {"path", "query", "header"} : \A n \in DOMAIN TextsIn(l) : TextsIn(l)[n] \in Texts
      BY <1>1, ServedTyped DEF TextsIn
<1>3. \A i \in DOMAIN Operation.params : Resolved(Operation.params[i].schema) \in Schemas
      BY <1>1, ServedTyped, SchemasAssumption
<1>4. QED BY <1>1, <1>2, <1>3

LEMMA HeadInvariant == HeadSpec => [](RouterInv /\ DeclaredOperationServed /\ VerdictsKept)
BY HeadRoutes, RouterInvariant, OperationsServed, HeadVerdicts, PTL

\* The head of a request passes exactly if nothing required is missing and every
\* text is one of a value that its schema accepts, for any texts and schemas.
THEOREM ParametersTheorem == HeadSpec => []ParametersJudged
<1>1. ASSUME RouterInv, DeclaredOperationServed, VerdictsKept PROVE ParametersJudged
  <2> SUFFICES ASSUME Judged, NEW l \in {"path", "query", "header"}
               PROVE  l \in errors <=>
                        \/ l = "header" /\ HeaderTooLong
                        \/ \E i \in DOMAIN Operation.params :
                            LET p == Operation.params[i]  texts == TextsIn(l)
                                given == p.name \in DOMAIN texts
                            IN  \/ ~p.resolves
                                \/ /\ p.in = l
                                   /\ IF given THEN ~Reads(texts[p.name], Resolved(p.schema))
                                      ELSE p.required /\ l # "path"
      BY DEF ParametersJudged, HeaderTooLong
  <2>1. l \in errors <=> ParamsFail(l) BY <1>1, JudgedTyped DEF HeadChecks, Fails
  <2>2. ASSUME NEW i \in DOMAIN Operation.params,
               Operation.params[i].name \in DOMAIN TextsIn(l)
        PROVE  ParamValid(TextsIn(l)[Operation.params[i].name], Resolved(Operation.params[i].schema))
               <=> Reads(TextsIn(l)[Operation.params[i].name], Resolved(Operation.params[i].schema))
        BY <1>1, <2>2, JudgedTyped, ParamReads
  <2>3. QED BY <2>1, <2>2 DEF ParamsFail, ParamFails
<1>2. QED BY <1>1, HeadInvariant, PTL

\* The early check of the path refuses no value that the full check of the same
\* schema takes, unless it has characters of several bytes.
THEOREM EarlyRefusalTheorem == HeadSpec => []EarlyRefusalAgrees
<1>1. ASSUME RouterInv, DeclaredOperationServed, VerdictsKept PROVE EarlyRefusalAgrees
  <2> SUFFICES ASSUME Judged, "types" \in errors, "path" \notin errors
               PROVE  \E n \in DOMAIN PathTexts \cap DOMAIN Item.params :
                        \/ Chars(PathTexts[n]) # Bytes(PathTexts[n])
                        \/ ~\E p \in Range(Operation.params) :
                                p.in = "path" /\ p.name = n /\ p.schema = Item.params[n]
      BY DEF EarlyRefusalAgrees
  <2>1. TypesFail /\ ~ParamsFail("path") BY <1>1, JudgedTyped DEF HeadChecks, Fails
  <2>2. PICK n \in DOMAIN PathTexts \cap DOMAIN Item.params :
            ~validate_single_path_param(PathTexts[n], Item.params[n])
        BY <2>1 DEF TypesFail
  <2>3. SUFFICES ASSUME Chars(PathTexts[n]) = Bytes(PathTexts[n]),
                        NEW p \in Range(Operation.params),
                        p.in = "path", p.name = n, p.schema = Item.params[n]
                 PROVE  FALSE
        BY <2>2
  <2>4. PICK i \in DOMAIN Operation.params : p = Operation.params[i] BY <2>3 DEF Range
  <2>5. TextsIn("path") = PathTexts BY DEF TextsIn
  <2>6. ~ParamFails(p, "path") BY <2>1, <2>4 DEF ParamsFail
  <2>7. ParamValid(PathTexts[n], Resolved(p.schema)) BY <2>2, <2>3, <2>5, <2>6 DEF ParamFails
  <2>8. PathTexts[n] \in Texts /\ Resolved(p.schema) \in Schemas
        BY <1>1, <2>2, <2>4, <2>5, JudgedTyped
  <2>9. QED BY <2>2, <2>3, <2>7, <2>8, ValidPassesEarly
<1>2. QED BY <1>1, HeadInvariant, PTL

-----------------------------------------------------------------------------
\* What the fields of a form are coerced to.

\* What a field can be read as.
LEMMA FieldReadingsAre ==
    ASSUME NEW x \in Fields, NEW v \in FieldReadings(x)
    PROVE  \/ v = Sent(x)
           \/ /\ ~x.file /\ IsA(x.text, {"integer"})
              /\ v \in {[integer |-> x.text.atoms[1].value], [number |-> x.text.atoms[1].value]}
           \/ ~x.file /\ IsA(x.text, {"number"}) /\ v = [number |-> x.text.atoms[1].value]
           \/ /\ ~x.file
              /\ \/ IsA(x.text, {"boolean", "flag"})
                 \/ IsA(x.text, {"integer"}) /\ x.text.atoms[1].value \in 0..1
              /\ v = [boolean |-> x.text.atoms[1].value = 1]
<1> DEFINE a == x.text.atoms[1]
<1>1. CASE v = Sent(x) BY <1>1
<1>2. CASE v # Sent(x)
  <2>1. ~x.file /\ ~x.text.json /\ Len(x.text.atoms) = 1 BY <1>2 DEF FieldReadings
  <2>2. Single(a) = x.text /\ a.kind \in {"integer", "number", "boolean", "flag", "word"}
        BY <2>1, OneAtom, FormAssumption DEF AtomType
  <2>3. Sent(x) = [string |-> Single(a)] BY <2>1, <2>2 DEF Sent
  <2>4. \A K : IsA(x.text, K) <=> a.kind \in K BY <2>1 DEF IsA
  <2>5. CASE v \in AtomReadings(a)
    <3>1. v = JsonAtom(a) \/ (a.kind = "integer" /\ v = [number |-> a.value])
          BY <1>2, <2>3, <2>5 DEF AtomReadings
    <3>2. \/ a.kind = "integer" /\ v \in {[integer |-> a.value], [number |-> a.value]}
          \/ a.kind = "number" /\ v = [number |-> a.value]
          \/ a.kind = "boolean" /\ v = [boolean |-> a.value = 1]
          BY <1>2, <2>2, <2>3, <3>1 DEF JsonAtom
    <3>3. QED BY <2>1, <2>4, <3>2
  <2>6. CASE /\ a.kind = "flag" \/ (a.kind = "integer" /\ a.value \in 0..1)
             /\ v = [boolean |-> a.value = 1]
        BY <2>1, <2>4, <2>6
  <2>7. QED BY <1>2, <2>1, <2>5, <2>6 DEF FieldReadings
<1>3. QED BY <1>1, <1>2

\* A field of one atom that is no JSON is read as all that the atom is, and as a
\* boolean if it is one of the texts for true and false.
LEMMA FieldReadsAtom ==
    ASSUME NEW x \in Fields, ~x.file, NEW K, IsA(x.text, K)
    PROVE  /\ AtomReadings(x.text.atoms[1]) \subseteq FieldReadings(x)
           /\ \/ IsA(x.text, {"boolean", "flag"})
              \/ IsA(x.text, {"integer"}) /\ x.text.atoms[1].value \in 0..1
              => [boolean |-> x.text.atoms[1].value = 1] \in FieldReadings(x)
<1> DEFINE a == x.text.atoms[1]
<1>1. ~x.text.json /\ Len(x.text.atoms) = 1 BY DEF IsA
<1>2. AtomReadings(a) \subseteq FieldReadings(x) BY <1>1 DEF FieldReadings
<1>3. CASE IsA(x.text, {"boolean"})
  <2>1. a.kind = "boolean" BY <1>3 DEF IsA
  <2>2. JsonAtom(a) = [boolean |-> a.value = 1] BY <2>1 DEF JsonAtom
  <2>3. QED BY <1>2, <2>2 DEF AtomReadings
<1>4. ASSUME a.kind = "flag" \/ (a.kind = "integer" /\ a.value \in 0..1)
      PROVE  [boolean |-> a.value = 1] \in FieldReadings(x)
      BY <1>1, <1>4 DEF FieldReadings
<1>5. \A S : IsA(x.text, S) <=> a.kind \in S BY <1>1 DEF IsA
<1> HIDE DEF a
<1>6. QED BY <1>2, <1>3, <1>4, <1>5 DEF a

\* A field that can be made what its schema has is one of its readings.
LEMMA FieldIsReading ==
    ASSUME NEW x \in Fields, NEW s, coerce_item(Sent(x), s) # Bad
    PROVE  coerce_item(Sent(x), s) \in FieldReadings(x)
<1> DEFINE a == x.text.atoms[1]
           c == coerce_item(Sent(x), s)
<1>1. CASE c = Sent(x) BY <1>1 DEF FieldReadings
<1>2. CASE c # Sent(x)
  <2>1. ~x.file
    <3>1. SUFFICES ASSUME x.file PROVE FALSE BY FormAssumption
    <3>2. ~Is(Sent(x), "string") BY <3>1 DEF Sent, FileOf, Is
    <3>3. QED BY <1>2, <3>2 DEF coerce_item
  <2>2. Is(Sent(x), "string") /\ Sent(x).string = x.text BY <2>1 DEF Sent, Is
  <2>3. CASE s.type = "integer"
    <3>1. IsA(x.text, {"integer"}) /\ c = [integer |-> a.value]
          BY <2>2, <2>3 DEF coerce_item, convert_scalar
    <3>2. JsonAtom(a) = c BY <3>1 DEF IsA, JsonAtom
    <3>3. QED BY <2>1, <3>1, <3>2, FieldReadsAtom DEF AtomReadings
  <2>4. CASE s.type = "number"
    <3>1. IsA(x.text, {"integer", "number"}) /\ c = [number |-> a.value]
          BY <2>2, <2>4 DEF coerce_item, convert_scalar
    <3>2. a.kind = "integer" \/ JsonAtom(a) = c BY <3>1 DEF IsA, JsonAtom
    <3>3. c \in AtomReadings(a) BY <3>1, <3>2 DEF AtomReadings
    <3>4. QED BY <2>1, <3>1, <3>3, FieldReadsAtom
  <2>5. CASE s.type = "boolean"
    <3>1. /\ \/ IsA(x.text, {"boolean", "flag"})
             \/ IsA(x.text, {"integer"}) /\ a.value \in 0..1
          /\ c = [boolean |-> a.value = 1]
          BY <2>2, <2>5 DEF coerce_item
    <3>2. QED BY <2>1, <3>1, FieldReadsAtom
  <2>6. s.type \in {"integer", "number", "boolean"} BY <1>2 DEF coerce_item
  <2>7. QED BY <2>3, <2>4, <2>5, <2>6
<1>3. QED BY <1>1, <1>2

\* By a schema with a type, one of the readings of a field is accepted exactly if
\* what it is made is.
LEMMA FieldCoerced ==
    ASSUME NEW x \in Fields, NEW s \in FormSchemas, s.type # "oneOf"
    PROVE  (coerce_item(Sent(x), s) # Bad /\ Accepts(s, coerce_item(Sent(x), s)))
           <=> \E v \in FieldReadings(x) : Accepts(s, v)
<1> DEFINE a == x.text.atoms[1]
           c == coerce_item(Sent(x), s)
<1>1. \A v \in FieldReadings(x) : v # Bad /\ (Accepts(s, v) <=> JsonSchema(Accepts, s, v))
      BY FormAssumption DEF Agreed
<1>2. ASSUME c # Bad, Accepts(s, c) PROVE \E v \in FieldReadings(x) : Accepts(s, v)
      BY <1>2, FieldIsReading
<1>3. ASSUME NEW v \in FieldReadings(x), Accepts(s, v) PROVE c # Bad /\ Accepts(s, c)
  <2>1. JsonSchema(Accepts, s, v) /\ v # Bad BY <1>1, <1>3
  <2>2. CASE c = v BY <2>2, <2>1, <1>3
  <2>3. ~x.file => Is(Sent(x), "string") /\ Sent(x).string = x.text BY DEF Sent, Is
  <2>4. \A k \in {"integer", "number", "boolean"} : ~Is(Sent(x), k) BY DEF Sent, FileOf, Is
  <2>5. CASE s.type = "integer"
    <3>1. Is(v, "integer") BY <2>1, <2>5 DEF JsonSchema
    <3>2. ~x.file /\ IsA(x.text, {"integer"}) /\ v = [integer |-> a.value]
          BY <3>1, <2>4, FieldReadingsAre DEF Is
    <3>3. QED BY <2>2, <2>3, <2>5, <3>2 DEF coerce_item, convert_scalar
  <2>6. CASE s.type = "number"
    <3>1. \/ Is(v, "integer") /\ Within(v.integer, s)
          \/ Is(v, "number") /\ Within(v.number, s)
          BY <2>1, <2>6 DEF JsonSchema
    <3>2. /\ ~x.file /\ (IsA(x.text, {"integer"}) \/ IsA(x.text, {"number"}))
          /\ v \in {[integer |-> a.value], [number |-> a.value]}
          BY <3>1, <2>4, FieldReadingsAre DEF Is
    <3>3. IsA(x.text, {"integer", "number"}) BY <3>2 DEF IsA
    <3>4. c = [number |-> a.value] BY <2>3, <2>6, <3>2, <3>3 DEF coerce_item, convert_scalar
    <3>5. Within(a.value, s) BY <3>1, <3>2 DEF Is
    <3>6. JsonSchema(Accepts, s, c) BY <2>6, <3>4, <3>5 DEF JsonSchema, Is
    <3>7. c \in FieldReadings(x)
      <4>1. a.kind = "integer" \/ JsonAtom(a) = c BY <3>2, <3>4 DEF IsA, JsonAtom
      <4>2. c \in AtomReadings(a) BY <3>4, <4>1 DEF AtomReadings
      <4>3. QED BY <3>2, <3>3, <4>2, FieldReadsAtom
    <3>8. QED BY <3>6, <3>7, <1>1
  <2>7. CASE s.type = "boolean"
    <3>1. Is(v, "boolean") BY <2>1, <2>7 DEF JsonSchema
    <3>2. /\ ~x.file
          /\ \/ IsA(x.text, {"boolean", "flag"})
             \/ IsA(x.text, {"integer"}) /\ a.value \in 0..1
          /\ v = [boolean |-> a.value = 1]
          BY <3>1, <2>4, FieldReadingsAre DEF Is
    <3>3. QED BY <2>2, <2>3, <2>7, <3>2 DEF coerce_item
  <2>8. CASE s.type \in {"string", "array", "object"}
    <3>1. c = Sent(x) BY <2>8 DEF coerce_item
    <3>2. Is(v, s.type) BY <2>1, <2>8 DEF JsonSchema
    <3>3. v = Sent(x) BY <3>2, <2>8, FieldReadingsAre DEF Is
    <3>4. QED BY <3>1, <3>3, <2>2
  <2>9. CASE s.type = "any"
    <3>1. c = Sent(x) BY <2>9 DEF coerce_item
    <3>2. c \in FieldReadings(x) BY <3>1 DEF FieldReadings
    <3>3. JsonSchema(Accepts, s, c) BY <2>9 DEF JsonSchema
    <3>4. QED BY <3>2, <3>3, <1>1
  <2>10. s.type \in {"integer", "number", "boolean", "string", "array", "object", "any"}
         BY <2>1 DEF JsonSchema
  <2>11. QED BY <2>5, <2>6, <2>7, <2>8, <2>9, <2>10
<1>4. QED BY <1>2, <1>3
\* What a key is sent with: each of its fields, or its only one.
Merged(x, n) == IF n = 1 THEN Sent(x[1]) ELSE [array |-> [p \in 1..n |-> Sent(x[p])]]
MergedReadings(x, n) ==
    IF n = 1 THEN FieldReadings(x[1]) ELSE ArraysOf([p \in 1..n |-> FieldReadings(x[p])])

\* An array with a reading of each of the fields is a reading of them.
LEMMA ArrayOfReadings ==
    ASSUME NEW n \in Nat, NEW x, NEW y, y = [p \in 1..n |-> y[p]],
           \A p \in 1..n : y[p] \in FieldReadings(x[p])
    PROVE  [array |-> y] \in ArraysOf([p \in 1..n |-> FieldReadings(x[p])])
<1> DEFINE choices == [p \in 1..n |-> FieldReadings(x[p])]
<1>1. DOMAIN choices = 1..n /\ \A p \in 1..n : choices[p] = FieldReadings(x[p]) OBVIOUS
<1> HIDE DEF choices
<1>2. \A p \in DOMAIN choices : y[p] \in UNION {choices[k] : k \in DOMAIN choices} BY <1>1
<1>3. y \in [DOMAIN choices -> UNION {choices[k] : k \in DOMAIN choices}] BY <1>1, <1>2
<1>4. y \in OneOfEach(choices) BY <1>1, <1>3 DEF OneOfEach
<1>5. QED BY <1>4 DEF ArraysOf, choices

\* A reading of fields as an array has a reading of each of them.
LEMMA ArrayReadingOf ==
    ASSUME NEW n \in Nat, NEW x, NEW v \in ArraysOf([p \in 1..n |-> FieldReadings(x[p])])
    PROVE  \E y : /\ v = [array |-> y] /\ y = [p \in 1..n |-> y[p]]
                  /\ \A p \in 1..n : y[p] \in FieldReadings(x[p])
<1> DEFINE choices == [p \in 1..n |-> FieldReadings(x[p])]
<1>1. DOMAIN choices = 1..n /\ \A p \in 1..n : choices[p] = FieldReadings(x[p]) OBVIOUS
<1>2. PICK y \in OneOfEach(choices) : v = [array |-> y] BY DEF ArraysOf
<1> HIDE DEF choices
<1>3. y \in [DOMAIN choices -> UNION {choices[k] : k \in DOMAIN choices}]
      /\ \A p \in DOMAIN choices : y[p] \in choices[p] BY <1>2 DEF OneOfEach
<1>4. y = [p \in 1..n |-> y[p]] BY <1>1, <1>3
<1>5. QED BY <1>1, <1>2, <1>3, <1>4

\* Several fields of one key that can be made what the schema has are one of their
\* readings.
LEMMA ArrayIsRead ==
    ASSUME NEW n \in Nat, n # 1, NEW x \in [1..n -> Fields], NEW s,
           coerce_property(Merged(x, n), s) # Bad
    PROVE  coerce_property(Merged(x, n), s) \in MergedReadings(x, n)
<1> DEFINE m == [p \in 1..n |-> Sent(x[p])]
           y == [p \in 1..n |-> coerce_item(m[p], s.items)]
<1>1. Merged(x, n) = [array |-> m] BY DEF Merged
<1>2. MergedReadings(x, n) = ArraysOf([p \in 1..n |-> FieldReadings(x[p])]) BY DEF MergedReadings
<1>3. \A p \in 1..n : m[p] = Sent(x[p]) /\ m[p] \in FieldReadings(x[p]) BY DEF FieldReadings
<1>4. DOMAIN m = 1..n /\ m = [p \in 1..n |-> m[p]] OBVIOUS
<1>5. y = [p \in 1..n |-> y[p]] /\ \A p \in 1..n : y[p] = coerce_item(m[p], s.items) OBVIOUS
<1> HIDE DEF m
<1>6. Is([array |-> m], "array") /\ ~Is([array |-> m], "string") /\ [array |-> m].array = m BY DEF Is
<1>7. [array |-> m] \in ArraysOf([p \in 1..n |-> FieldReadings(x[p])])
      BY <1>3, <1>4, ArrayOfReadings
<1>8. CASE s.type = "array" /\ s.items # NoSchema
  <2>1. coerce_property(Merged(x, n), s) = AllOf(y)
        BY <1>1, <1>4, <1>6, <1>8 DEF coerce_property
  <2>2. DOMAIN y = 1..n OBVIOUS
  <2> HIDE DEF y
  <2>3. AllOf(y) = [array |-> y] /\ \A p \in 1..n : y[p] # Bad BY <2>1, <2>2 DEF AllOf
  <2>4. \A p \in 1..n : y[p] \in FieldReadings(x[p]) BY <2>3, <1>3, <1>5, FieldIsReading
  <2>5. QED BY <1>2, <1>5, <2>1, <2>3, <2>4, ArrayOfReadings
<1>9. CASE ~(s.type = "array" /\ s.items # NoSchema)
  <2>1. coerce_property(Merged(x, n), s) = [array |-> m]
        BY <1>1, <1>6, <1>9 DEF coerce_property, coerce_item
  <2>2. QED BY <2>1, <1>2, <1>7
<1>10. QED BY <1>8, <1>9

\* By a schema with types, one of the readings of several fields is accepted exactly
\* if what they are made is.
LEMMA ArrayCoerced ==
    ASSUME NEW n \in Nat, n # 1, NEW x \in [1..n -> Fields], NEW s \in FormSchemas,
           HasType(s), \A v \in MergedReadings(x, n) : Agreed(v)
    PROVE  (/\ coerce_property(Merged(x, n), s) # Bad
            /\ Accepts(s, coerce_property(Merged(x, n), s)))
           <=> \E v \in MergedReadings(x, n) : Accepts(s, v)
<1> DEFINE c == coerce_property(Merged(x, n), s)
           m == [p \in 1..n |-> Sent(x[p])]
           y == [p \in 1..n |-> coerce_item(m[p], s.items)]
<1>1. \A v \in MergedReadings(x, n) : v # Bad /\ (Accepts(s, v) <=> JsonSchema(Accepts, s, v))
      BY DEF Agreed
<1>2. ASSUME c # Bad, Accepts(s, c) PROVE \E v \in MergedReadings(x, n) : Accepts(s, v)
      BY <1>2, ArrayIsRead
<1>3. ASSUME NEW v \in MergedReadings(x, n), Accepts(s, v) PROVE c # Bad /\ Accepts(s, c)
  <2>1. JsonSchema(Accepts, s, v) BY <1>1, <1>3
  <2>2. MergedReadings(x, n) = ArraysOf([p \in 1..n |-> FieldReadings(x[p])]) BY DEF MergedReadings
  <2>3. PICK z : /\ v = [array |-> z] /\ z = [p \in 1..n |-> z[p]]
                 /\ \A p \in 1..n : z[p] \in FieldReadings(x[p])
        BY <2>2, ArrayReadingOf
  <2>4. v.array = z /\ \A k : Is(v, k) <=> k = "array" BY <2>3 DEF Is
  <2>5. Merged(x, n) = [array |-> m] BY DEF Merged
  <2>6. \A p \in 1..n : m[p] = Sent(x[p]) /\ m[p] \in FieldReadings(x[p]) BY DEF FieldReadings
  <2>7. DOMAIN m = 1..n /\ m = [p \in 1..n |-> m[p]] OBVIOUS
  <2>8. y = [p \in 1..n |-> y[p]] /\ DOMAIN y = 1..n
        /\ \A p \in 1..n : y[p] = coerce_item(m[p], s.items) OBVIOUS
  <2> HIDE DEF m
  <2>9. /\ Is([array |-> m], "array") /\ ~Is([array |-> m], "string") /\ [array |-> m].array = m
        BY DEF Is
  <2>10. [array |-> m] \in MergedReadings(x, n)
    <3>1. [array |-> m] \in ArraysOf([p \in 1..n |-> FieldReadings(x[p])])
          BY <2>6, <2>7, ArrayOfReadings
    <3>2. QED BY <2>2, <3>1
  <2>11. DOMAIN z = 1..n BY <2>3
  <2>12. CASE s.type = "array" /\ s.items # NoSchema
    <3>1. c = AllOf(y) BY <2>5, <2>7, <2>9, <2>12 DEF coerce_property
    <3>2. Within(Len(z), s) /\ \A p \in 1..n : Accepts(s.items, z[p])
          BY <2>1, <2>4, <2>11, <2>12 DEF JsonSchema
    <3>3. s.items \in FormSchemas /\ s.items.type # "oneOf"
          BY <2>12, FormAssumption DEF HasType
    <3>4. \A p \in 1..n : y[p] # Bad /\ Accepts(s.items, y[p])
          BY <2>3, <2>6, <2>8, <3>2, <3>3, FieldCoerced
    <3> HIDE DEF y
    <3>5. c = [array |-> y] BY <3>1, <3>4, <2>8 DEF AllOf
    <3>6. c # Bad
      <4>1. \A p \in 1..n : y[p] \in FieldReadings(x[p]) BY <2>6, <2>8, <3>4, FieldIsReading
      <4>2. c \in MergedReadings(x, n) BY <2>2, <2>8, <3>5, <4>1, ArrayOfReadings
      <4>3. QED BY <4>2, <1>1
    <3>7. Len(z) = Len(y) BY <2>3, <2>8, LenOfFunction
    <3>8. Is(c, "array") /\ c.array = y BY <3>5 DEF Is
    <3>9. JsonSchema(Accepts, s, c) BY <2>8, <2>12, <3>2, <3>4, <3>7, <3>8 DEF JsonSchema
    <3>10. QED BY <1>1, <3>6, <3>9, ArrayIsRead
  <2>13. CASE s.type = "array" /\ s.items = NoSchema
    <3>1. c = [array |-> m] BY <2>5, <2>9, <2>13 DEF coerce_property
    <3>2. Within(Len(z), s) BY <2>1, <2>4, <2>13 DEF JsonSchema
    <3>3. Len(z) = Len(m) BY <2>3, <2>7, LenOfFunction
    <3>4. JsonSchema(Accepts, s, c) BY <2>9, <2>13, <3>1, <3>2, <3>3 DEF JsonSchema
    <3>5. QED BY <1>1, <2>10, <3>1, <3>4
  <2>14. CASE s.type = "any"
    <3>1. c = [array |-> m] BY <2>5, <2>9, <2>14 DEF coerce_property, coerce_item
    <3>2. JsonSchema(Accepts, s, c) BY <2>14 DEF JsonSchema
    <3>3. QED BY <1>1, <2>10, <3>1, <3>2
  <2>15. s.type \in {"array", "any"} BY <2>1, <2>4 DEF JsonSchema, HasType
  <2>16. QED BY <2>12, <2>13, <2>14, <2>15
<1>4. QED BY <1>2, <1>3

\* The same for any number of fields.
LEMMA MergedIsRead ==
    ASSUME NEW n \in Nat, NEW x \in [1..n -> Fields], NEW s,
           coerce_property(Merged(x, n), s) # Bad
    PROVE  coerce_property(Merged(x, n), s) \in MergedReadings(x, n)
<1>1. CASE n = 1
  <2>1. x[1] \in Fields BY <1>1
  <2>2. ~Is(Sent(x[1]), "array") BY DEF Sent, FileOf, Is
  <2>3. coerce_property(Sent(x[1]), s) = coerce_item(Sent(x[1]), s) BY <2>2 DEF coerce_property
  <2>4. QED BY <1>1, <2>1, <2>3, FieldIsReading DEF Merged, MergedReadings
<1>2. QED BY <1>1, ArrayIsRead

LEMMA MergedCoerced ==
    ASSUME NEW n \in Nat, NEW x \in [1..n -> Fields], NEW s \in FormSchemas,
           HasType(s), \A v \in MergedReadings(x, n) : Agreed(v)
    PROVE  (/\ coerce_property(Merged(x, n), s) # Bad
            /\ Accepts(s, coerce_property(Merged(x, n), s)))
           <=> \E v \in MergedReadings(x, n) : Accepts(s, v)
<1>1. CASE n = 1
  <2>1. x[1] \in Fields BY <1>1
  <2>2. ~Is(Sent(x[1]), "array") BY DEF Sent, FileOf, Is
  <2>3. coerce_property(Sent(x[1]), s) = coerce_item(Sent(x[1]), s) BY <2>2 DEF coerce_property
  <2>4. QED BY <1>1, <2>1, <2>3, FieldCoerced DEF Merged, MergedReadings, HasType
<1>2. QED BY <1>1, ArrayCoerced

\* What is sent is a reading of it.
LEMMA MergedItself ==
    ASSUME NEW n \in Nat, NEW x \in [1..n -> Fields]
    PROVE  Merged(x, n) \in MergedReadings(x, n)
<1>1. CASE n = 1 BY <1>1 DEF Merged, MergedReadings, FieldReadings
<1>2. CASE n # 1
  <2> DEFINE m == [p \in 1..n |-> Sent(x[p])]
  <2>1. m = [p \in 1..n |-> m[p]] /\ \A p \in 1..n : m[p] \in FieldReadings(x[p])
        BY DEF FieldReadings
  <2>2. Merged(x, n) = [array |-> m] BY <1>2 DEF Merged
  <2> HIDE DEF m
  <2>3. QED BY <1>2, <2>1, <2>2, ArrayOfReadings DEF MergedReadings
<1>3. QED BY <1>1, <1>2

-----------------------------------------------------------------------------
\* The object that is made of a form.

\* How often a key counts among the first n fields, and with which.
Times(fields, n, k) == Cardinality(Counted(fields, n, k))
KeyFields(fields, n, k) == [p \in 1..Times(fields, n, k) |-> fields[Nth(Counted(fields, n, k), p)]]

\* The object has, for every key among the first n fields, what it is sent with.
MapIs(m, fields, n) ==
    /\ m = [k \in Keys(fields, n) |-> m[k]]
    /\ \A k \in Keys(fields, n) :
          /\ Times(fields, n, k) # 0
          /\ \A p \in 1..Times(fields, n, k) :
                Nth(Counted(fields, n, k), p) \in Counted(fields, n, k)
          /\ m[k] = Merged(KeyFields(fields, n, k), Times(fields, n, k))

\* Fields are counted by their positions.
LEMMA CountedFinite ==
    ASSUME NEW fields \in Seq(Fields), NEW n \in Nat, NEW k
    PROVE  /\ Counted(fields, n, k) \subseteq 1..n
           /\ IsFiniteSet(Counted(fields, n, k)) /\ Times(fields, n, k) \in Nat
<1>1. Counted(fields, n, k) \subseteq 1..n BY DEF Counted
<1>2. IsFiniteSet(1..n) BY FS_Interval
<1>3. IsFiniteSet(Counted(fields, n, k)) BY <1>1, <1>2, FS_Subset
<1>4. QED BY <1>1, <1>3, FS_CardinalityType DEF Times

\* A field changes what counts for no other key; a file counts alone, a text with
\* what counted before.
LEMMA CountedNext ==
    ASSUME NEW fields \in Seq(Fields), NEW n \in Nat, n < Len(fields), NEW k
    PROVE  Counted(fields, n + 1, k) =
               IF fields[n + 1].key # k THEN Counted(fields, n, k)
               ELSE IF fields[n + 1].file THEN {n + 1}
               ELSE Counted(fields, n, k) \cup {n + 1}
<1> DEFINE x == fields[n + 1]
<1>1. 1..(n + 1) = (1..n) \cup {n + 1} OBVIOUS
<1>2. \A i \in 1..n : (i + 1)..(n + 1) = ((i + 1)..n) \cup {n + 1} OBVIOUS
<1>3. (n + 1 + 1)..(n + 1) = {} OBVIOUS
<1>4. \A i \in 1..n : i \in Counted(fields, n + 1, k)
         <=> i \in Counted(fields, n, k) /\ (x.key = k => ~x.file)
      BY <1>1, <1>2 DEF Counted
<1>5. n + 1 \in Counted(fields, n + 1, k) <=> x.key = k BY <1>1, <1>3 DEF Counted
<1>6. Counted(fields, n + 1, k) \subseteq (1..n) \cup {n + 1} BY <1>1 DEF Counted
<1>7. Counted(fields, n, k) \subseteq 1..n BY DEF Counted
<1>8. CASE x.key # k
  <2>1. \A i : i \in Counted(fields, n + 1, k) <=> i \in Counted(fields, n, k)
        BY <1>4, <1>5, <1>6, <1>7, <1>8
  <2>2. Counted(fields, n + 1, k) = Counted(fields, n, k) BY <2>1
  <2>3. QED BY <2>2, <1>8
<1>9. CASE x.key = k /\ x.file BY <1>4, <1>5, <1>6, <1>9
<1>10. CASE x.key = k /\ ~x.file BY <1>4, <1>5, <1>6, <1>7, <1>10
<1>11. QED BY <1>8, <1>9, <1>10

\* A number above all others comes after them.
LEMMA NthNext ==
    ASSUME NEW n \in Nat, NEW I, I \subseteq 1..n, IsFiniteSet(I), Cardinality(I) \in Nat
    PROVE  /\ Cardinality(I \cup {n + 1}) = Cardinality(I) + 1
           /\ \A p \in 1..Cardinality(I) : Nth(I \cup {n + 1}, p) = Nth(I, p)
           /\ Nth(I \cup {n + 1}, Cardinality(I) + 1) = n + 1
<1> DEFINE J == I \cup {n + 1}
           Up(K, j) == {m \in K : m <= j}
           Pick(K, p) == {j \in K : Cardinality(Up(K, j)) = p}
<1>1. n + 1 \notin I OBVIOUS
<1>2. Cardinality(J) = Cardinality(I) + 1 BY <1>1, FS_AddElement
<1>3. \A j \in I : Up(J, j) = Up(I, j) OBVIOUS
<1>4. Up(J, n + 1) = J
  <2>1. \A m \in J : m <= n + 1 OBVIOUS
  <2>2. QED BY <2>1
<1>5. ASSUME NEW j \in I PROVE Cardinality(Up(I, j)) \in Nat /\ Cardinality(Up(I, j)) <= Cardinality(I)
  <2>1. Up(I, j) \subseteq I OBVIOUS
  <2>2. QED BY <2>1, FS_Subset, FS_CardinalityType
<1>6. \A K, p : Nth(K, p) = CHOOSE i \in Pick(K, p) : TRUE BY DEF Nth
<1> HIDE DEF Up
<1>7. ASSUME NEW p \in 1..Cardinality(I) PROVE Nth(J, p) = Nth(I, p)
  <2>1. \A j \in I : Cardinality(Up(J, j)) = Cardinality(Up(I, j)) BY <1>3
  <2>2. Cardinality(Up(J, n + 1)) # p BY <1>2, <1>4
  <2>3. Pick(J, p) = Pick(I, p) BY <2>1, <2>2
  <2> HIDE DEF Pick, J
  <2>4. QED BY <2>3, <1>6
<1>8. Nth(J, Cardinality(I) + 1) = n + 1
  <2>1. \A j \in J : Cardinality(Up(J, j)) = Cardinality(I) + 1 <=> j = n + 1
        BY <1>2, <1>3, <1>4, <1>5
  <2>2. Pick(J, Cardinality(I) + 1) = {n + 1} BY <2>1
  <2> HIDE DEF Pick, J
  <2>3. QED BY <2>2, <1>6
<1>9. QED BY <1>2, <1>7, <1>8

\* A number alone is the first.
LEMMA NthAlone ==
    ASSUME NEW n \in Nat
    PROVE  Cardinality({n + 1}) = 1 /\ Nth({n + 1}, 1) = n + 1
<1>1. IsFiniteSet({}) /\ Cardinality({}) = 0 /\ {} \subseteq 1..n /\ {} \cup {n + 1} = {n + 1}
      BY FS_EmptySet
<1>2. 0 + 1 = 1 /\ 0 \in Nat OBVIOUS
<1>3. QED BY <1>1, <1>2, NthNext

\* What Merged says of no fields, of one and of one more.
LEMMA MergedNext ==
    ASSUME NEW n \in Nat, NEW x \in [1..n -> Fields], NEW y \in [1..(n + 1) -> Fields],
           \A p \in 1..n : y[p] = x[p]
    PROVE  Merged(y, n + 1) =
               IF n = 0 THEN Sent(y[1])
               ELSE IF n = 1 THEN [array |-> <<Merged(x, n), Sent(y[2])>>]
               ELSE [array |-> Append(Merged(x, n).array, Sent(y[n + 1]))]
<1>1. CASE n = 0 BY <1>1 DEF Merged
<1>2. CASE n = 1
  <2> DEFINE z == [p \in 1..2 |-> Sent(y[p])]
  <2>1. Merged(y, n + 1) = [array |-> z] BY <1>2 DEF Merged
  <2>2. z = <<Sent(y[1]), Sent(y[2])>> OBVIOUS
  <2>3. Merged(x, n) = Sent(y[1]) BY <1>2 DEF Merged
  <2> HIDE DEF z
  <2>4. QED BY <1>2, <2>1, <2>2, <2>3
<1>3. CASE n \notin {0, 1}
  <2> DEFINE S == {Sent(y[p]) : p \in 1..(n + 1)}
             z == [p \in 1..(n + 1) |-> Sent(y[p])]
             w == [p \in 1..n |-> Sent(x[p])]
  <2>1. Merged(y, n + 1) = [array |-> z] /\ Merged(x, n) = [array |-> w] BY <1>3 DEF Merged
  <2>2. \A p \in 1..n : w[p] \in S /\ w[p] = z[p] OBVIOUS
  <2>3. w = [p \in 1..n |-> w[p]] /\ z = [p \in 1..(n + 1) |-> z[p]] /\ z[n + 1] = Sent(y[n + 1])
        OBVIOUS
  <2> HIDE DEF z, w, S
  <2>4. w \in [1..n -> S] BY <2>2, <2>3
  <2>5. w \in Seq(S) /\ Len(w) = n
    <3>1. w \in Seq(S) BY <2>4, SeqDef
    <3>2. QED BY <3>1, <2>3, LenOfFunction
  <2>6. Append(w, Sent(y[n + 1])) = z
    <3> DEFINE e == Sent(y[n + 1])
               a == Append(w, e)
    <3>1. e \in S BY DEF S
    <3> HIDE DEF e
    <3>2. /\ a \in Seq(S) /\ Len(a) = n + 1
          /\ \A p \in 1..n : a[p] = w[p]
          /\ a[n + 1] = e
          BY <2>5, <3>1, AppendProperties
    <3> HIDE DEF a
    <3>3. DOMAIN a = 1..(n + 1) /\ a = [p \in DOMAIN a |-> a[p]] BY <3>2
    <3>4. \A p \in 1..(n + 1) : p = n + 1 \/ p \in 1..n OBVIOUS
    <3>5. \A p \in 1..(n + 1) : a[p] = z[p] BY <2>2, <2>3, <3>2, <3>4 DEF e
    <3>6. a = z BY <2>3, <3>3, <3>5
    <3>7. QED BY <3>6 DEF a, e
  <2>7. [array |-> w].array = w OBVIOUS
  <2>8. QED BY <1>3, <2>1, <2>6, <2>7
<1>4. QED BY <1>1, <1>2, <1>3

\* The fields of a key are fields, and fields of a form.
LEMMA KeyFieldsTyped ==
    ASSUME NEW fields \in Seq(Fields), NEW n \in 0..Len(fields), NEW k,
           \A p \in 1..Times(fields, n, k) : Nth(Counted(fields, n, k), p) \in Counted(fields, n, k)
    PROVE  /\ KeyFields(fields, n, k) \in [1..Times(fields, n, k) -> Fields]
           /\ \A p \in 1..Times(fields, n, k) :
                 KeyFields(fields, n, k)[p] = fields[Nth(Counted(fields, n, k), p)]
<1>1. Counted(fields, n, k) \subseteq 1..n BY DEF Counted
<1>2. \A p \in 1..Times(fields, n, k) : fields[Nth(Counted(fields, n, k), p)] \in Fields
      BY <1>1, ElementOfSeq
<1>3. QED BY <1>2 DEF KeyFields

\* What a key is sent with after one more field, which is of that key.
LEMMA KeyNext ==
    ASSUME NEW fields \in Seq(Fields), NEW n \in Nat, n < Len(fields), NEW m,
           MapIs(m, fields, n)
    PROVE  LET x == fields[n + 1]
               k == x.key
           IN  /\ Times(fields, n + 1, k) # 0
               /\ \A p \in 1..Times(fields, n + 1, k) :
                     Nth(Counted(fields, n + 1, k), p) \in Counted(fields, n + 1, k)
               /\ AddPart(m, x)[k] = Merged(KeyFields(fields, n + 1, k), Times(fields, n + 1, k))
<1> DEFINE x == fields[n + 1]
           k == x.key
           I == Counted(fields, n, k)
           J == Counted(fields, n + 1, k)
           T == Times(fields, n, k)
           xs == KeyFields(fields, n, k)
           ys == KeyFields(fields, n + 1, k)
<1>1. /\ J = IF x.file THEN {n + 1} ELSE I \cup {n + 1}
      /\ I \subseteq 1..n /\ IsFiniteSet(I) /\ T = Cardinality(I) /\ T \in Nat
      BY CountedNext, CountedFinite DEF Times
<1>2. \A w : insert(m, k, w)[k] = w BY DEF insert
<1>3. x \in Fields BY ElementOfSeq
<1>4. ASSUME J = {n + 1}
      PROVE  /\ Times(fields, n + 1, k) # 0
             /\ \A p \in 1..Times(fields, n + 1, k) : Nth(J, p) \in J
             /\ Merged(ys, Times(fields, n + 1, k)) = Sent(x)
  <2>1. Times(fields, n + 1, k) = 1 /\ Nth(J, 1) = n + 1 BY <1>4, NthAlone DEF Times
  <2>2. ys[1] = x BY <2>1 DEF KeyFields
  <2>3. \A p \in 1..1 : p = 1 OBVIOUS
  <2>4. QED BY <1>4, <2>1, <2>2, <2>3 DEF Merged
<1>5. CASE x.file
  <2>1. AddPart(m, x)[k] = Sent(x) BY <1>2, <1>5 DEF AddPart, Sent
  <2>2. QED BY <1>1, <1>4, <1>5, <2>1
<1>6. CASE ~x.file /\ k \notin DOMAIN m
  <2>1. DOMAIN m = Keys(fields, n) BY DEF MapIs
  <2>2. \A i \in 1..n : fields[i].key # k BY <1>6, <2>1 DEF Keys
  <2>3. J = {n + 1} BY <1>1, <1>6, <2>2 DEF Counted
  <2>4. AddPart(m, x)[k] = Sent(x) BY <1>2, <1>6 DEF AddPart, AddField, Sent
  <2>5. QED BY <1>4, <2>3, <2>4
<1>7. CASE ~x.file /\ k \in DOMAIN m
  <2>1. k \in Keys(fields, n) BY <1>7 DEF MapIs
  <2>2. /\ T # 0 /\ \A p \in 1..T : Nth(I, p) \in I
        /\ m[k] = Merged(xs, T)
        BY <2>1 DEF MapIs
  <2>3. J = I \cup {n + 1} BY <1>1, <1>7
  <2>4. /\ Times(fields, n + 1, k) = T + 1
        /\ \A p \in 1..T : Nth(J, p) = Nth(I, p)
        /\ Nth(J, T + 1) = n + 1
    <3>1. Times(fields, n + 1, k) = Cardinality(J) BY DEF Times
    <3> HIDE DEF I, J, T, k
    <3>2. /\ Cardinality(I \cup {n + 1}) = T + 1
          /\ \A p \in 1..T : Nth(I \cup {n + 1}, p) = Nth(I, p)
          /\ Nth(I \cup {n + 1}, T + 1) = n + 1
          BY <1>1, NthNext
    <3>3. QED BY <2>3, <3>1, <3>2
  <2>5. \A p \in 1..(T + 1) : p = T + 1 \/ p \in 1..T BY <1>1
  <2>6. \A p \in 1..Times(fields, n + 1, k) : Nth(J, p) \in J BY <2>2, <2>3, <2>4, <2>5
  <2>7. /\ xs \in [1..T -> Fields]
        /\ \A p \in 1..T : xs[p] = fields[Nth(I, p)]
        BY <2>2, KeyFieldsTyped
  <2>8. /\ ys \in [1..(T + 1) -> Fields]
        /\ \A p \in 1..(T + 1) : ys[p] = fields[Nth(J, p)]
        BY <2>4, <2>6, KeyFieldsTyped
  <2> HIDE DEF xs, ys, T, I, J
  <2>9. \A p \in 1..T : ys[p] = xs[p]
    <3>1. \A p \in 1..T : p \in 1..(T + 1) BY <1>1
    <3>2. QED BY <2>4, <2>7, <2>8, <3>1
  <2>10. ys[T + 1] = x
    <3>1. T + 1 \in 1..(T + 1) BY <1>1
    <3>2. ys[T + 1] = fields[Nth(J, T + 1)] BY <2>8, <3>1
    <3>3. QED BY <3>2, <2>4
  <2>11. Merged(ys, T + 1) =
             IF T = 1 THEN [array |-> <<m[k], Sent(x)>>]
             ELSE [array |-> Append(m[k].array, Sent(x))]
    <3>1. T \in Nat /\ T # 0 /\ m[k] = Merged(xs, T) BY <1>1, <2>2
    <3>2. xs \in [1..T -> Fields] /\ ys \in [1..(T + 1) -> Fields] BY <2>7, <2>8
    <3> HIDE DEF x, k
    <3>3. Merged(ys, T + 1) =
              IF T = 0 THEN Sent(ys[1])
              ELSE IF T = 1 THEN [array |-> <<Merged(xs, T), Sent(ys[2])>>]
              ELSE [array |-> Append(Merged(xs, T).array, Sent(ys[T + 1]))]
          BY <3>1, <3>2, <2>9, MergedNext
    <3>4. CASE T = 1
      <4>1. ys[2] = x BY <2>10, <3>4
      <4>2. QED BY <3>1, <3>3, <3>4, <4>1
    <3>5. CASE T # 1
      <4>1. Merged(ys, T + 1) = [array |-> Append(Merged(xs, T).array, Sent(ys[T + 1]))]
            BY <3>1, <3>3, <3>5
      <4>2. QED BY <2>10, <3>1, <3>5, <4>1
    <3>6. QED BY <3>4, <3>5
  <2>12. Is(m[k], "array") <=> T # 1
    <3>1. CASE T = 1 BY <2>2, <3>1 DEF Merged, Sent, FileOf, Is
    <3>2. CASE T # 1 BY <2>2, <3>2 DEF Merged, Is
    <3>3. QED BY <3>1, <3>2
  <2>13. AddPart(m, x)[k] =
             IF T = 1 THEN [array |-> <<m[k], Sent(x)>>]
             ELSE [array |-> Append(m[k].array, Sent(x))]
         BY <1>2, <1>7, <2>12 DEF AddPart, AddField, Sent
  <2>14. AddPart(m, x)[k] = Merged(ys, Times(fields, n + 1, k)) BY <2>4, <2>11, <2>13
  <2>15. Times(fields, n + 1, k) # 0 BY <1>1, <2>4
  <2>16. QED BY <2>6, <2>14, <2>15 DEF ys, J
<1>8. QED BY <1>5, <1>6, <1>7, <1>3, FormAssumption

\* One turn of the loop keeps what the object is.
LEMMA MapNext ==
    ASSUME NEW fields \in Seq(Fields), NEW n \in Nat, n < Len(fields), NEW m,
           MapIs(m, fields, n)
    PROVE  MapIs(AddPart(m, fields[n + 1]), fields, n + 1)
<1> DEFINE x == fields[n + 1]
           next == AddPart(m, x)
<1>1. Keys(fields, n + 1) = Keys(fields, n) \cup {x.key}
  <2>1. 1..(n + 1) = (1..n) \cup {n + 1} OBVIOUS
  <2>2. QED BY <2>1 DEF Keys
<1>2. DOMAIN m = Keys(fields, n) BY DEF MapIs
<1>3. PICK w : next = insert(m, x.key, w) BY DEF AddPart, AddField
<1>4. /\ next = [k \in Keys(fields, n + 1) |-> next[k]]
      /\ \A k \in Keys(fields, n) \ {x.key} : next[k] = m[k]
      BY <1>1, <1>2, <1>3 DEF insert
<1> HIDE DEF next
<1>5. ASSUME NEW k \in Keys(fields, n) \ {x.key}
      PROVE  /\ Times(fields, n + 1, k) # 0
             /\ \A p \in 1..Times(fields, n + 1, k) :
                   Nth(Counted(fields, n + 1, k), p) \in Counted(fields, n + 1, k)
             /\ next[k] = Merged(KeyFields(fields, n + 1, k), Times(fields, n + 1, k))
  <2>1. Counted(fields, n + 1, k) = Counted(fields, n, k) BY <1>5, CountedNext
  <2>2. Times(fields, n + 1, k) = Times(fields, n, k) BY <2>1 DEF Times
  <2>3. KeyFields(fields, n + 1, k) = KeyFields(fields, n, k) BY <2>1, <2>2 DEF KeyFields
  <2>4. QED BY <1>4, <2>1, <2>2, <2>3 DEF MapIs
<1>6. QED BY <1>1, <1>4, <1>5, KeyNext DEF MapIs, next

\* What a key of a form can be read as.
LEMMA KeyReadingsAre ==
    ASSUME NEW form \in Seq(Fields), NEW k,
           \A p \in 1..Times(form, Len(form), k) :
              Nth(Counted(form, Len(form), k), p) \in Counted(form, Len(form), k),
           Times(form, Len(form), k) # 0
    PROVE  KeyReadings(form, k) =
               MergedReadings(KeyFields(form, Len(form), k), Times(form, Len(form), k))
<1> DEFINE T == Times(form, Len(form), k)
           I == Counted(form, Len(form), k)
           x == KeyFields(form, Len(form), k)
<1>1. T \in Nat /\ T = Cardinality(I) BY CountedFinite DEF Times
<1>2. Len(form) \in 0..Len(form) OBVIOUS
<1>3. \A p \in 1..T : x[p] = form[Nth(I, p)] BY <1>2, KeyFieldsTyped
<1> HIDE DEF x, T, I
<1>4. 1 \in 1..1 OBVIOUS
<1>5. CASE T = 1
  <2>1. x[1] = form[Nth(I, 1)] BY <1>3, <1>4, <1>5
  <2>2. QED BY <1>1, <1>5, <2>1 DEF KeyReadings, MergedReadings, I, x, T
<1>6. CASE T # 1
  <2>1. [p \in 1..T |-> FieldReadings(form[Nth(I, p)])] = [p \in 1..T |-> FieldReadings(x[p])]
        BY <1>3
  <2>2. KeyReadings(form, k) = ArraysOf([p \in 1..T |-> FieldReadings(form[Nth(I, p)])])
        BY <1>1, <1>6 DEF KeyReadings, I
  <2>3. MergedReadings(x, T) = ArraysOf([p \in 1..T |-> FieldReadings(x[p])])
        BY <1>6 DEF MergedReadings
  <2>4. KeyReadings(form, k) = MergedReadings(x, T) BY <2>1, <2>2, <2>3
  <2>5. QED BY <2>4 DEF x, T
<1>7. QED BY <1>5, <1>6

\* An object with a reading of every key is a reading of a form, and every reading
\* of the form is such an object.
LEMMA FormReadingsAre ==
    ASSUME NEW form, NEW v
    PROVE  v \in FormReadings(form)
           <=> \E g : /\ v = [object |-> g] /\ g = [k \in Keys(form, Len(form)) |-> g[k]]
                      /\ \A k \in Keys(form, Len(form)) : g[k] \in KeyReadings(form, k)
<1> DEFINE K == Keys(form, Len(form))
           choices == [k \in K |-> KeyReadings(form, k)]
<1>1. DOMAIN choices = K /\ \A k \in K : choices[k] = KeyReadings(form, k) OBVIOUS
<1>2. FormReadings(form) = {[object |-> g] : g \in OneOfEach(choices)} BY DEF FormReadings
<1> HIDE DEF choices, K
<1>3. ASSUME NEW g
      PROVE  g \in OneOfEach(choices)
             <=> g = [k \in K |-> g[k]] /\ \A k \in K : g[k] \in KeyReadings(form, k)
  <2>1. ASSUME g \in OneOfEach(choices)
        PROVE  g = [k \in K |-> g[k]] /\ \A k \in K : g[k] \in KeyReadings(form, k)
        BY <1>1, <2>1 DEF OneOfEach
  <2>2. ASSUME g = [k \in K |-> g[k]], \A k \in K : g[k] \in KeyReadings(form, k)
        PROVE  g \in OneOfEach(choices)
    <3>1. \A k \in DOMAIN choices : g[k] \in choices[k] BY <1>1, <2>2
    <3>2. \A k \in DOMAIN choices : g[k] \in UNION {choices[j] : j \in DOMAIN choices} BY <3>1
    <3>3. g \in [DOMAIN choices -> UNION {choices[j] : j \in DOMAIN choices}] BY <1>1, <2>2, <3>2
    <3>4. QED BY <3>1, <3>3 DEF OneOfEach
  <2>3. QED BY <2>1, <2>2
<1>4. (\E g \in OneOfEach(choices) : v = [object |-> g])
      <=> \E g : /\ v = [object |-> g] /\ g = [k \in K |-> g[k]]
                 /\ \A k \in K : g[k] \in KeyReadings(form, k)
      BY <1>3
<1>5. QED BY <1>2, <1>4 DEF K

\* The object made of a form is judged as what the form can be read as.
LEMMA FormCoerced ==
    ASSUME NEW r \in Requests, Is(r.body, "form"), NEW m,
           MapIs(m, r.body.form, Len(r.body.form)), NEW s \in FormSchemas, HasTypes(s)
    PROVE  LET c == coerce_form_data_to_schema([object |-> m], s)
           IN  /\ [object |-> m] # Bad
               /\ c # Bad /\ Accepts(s, c)
                  <=> \E v \in FormReadings(r.body.form) : Accepts(s, v)
<1> DEFINE form == r.body.form
           K == Keys(form, Len(form))
           P(k) == PropertyOf(s, k)
           y == [k \in K |-> IF P(k) = NoSchema THEN m[k] ELSE coerce_property(m[k], P(k))]
           c == coerce_form_data_to_schema([object |-> m], s)
           R == FormReadings(form)
<1>1. form \in Seq(Fields) /\ (\A k \in K : \A v \in KeyReadings(form, k) : Agreed(v))
      /\ \A v \in R : Agreed(v)
      BY FormAssumption
<1>2. \A v \in R : v # Bad /\ (Accepts(s, v) <=> JsonSchema(Accepts, s, v)) BY <1>1 DEF Agreed
<1>3. m = [k \in K |-> m[k]] /\ DOMAIN m = K BY DEF MapIs
<1>4. y = [k \in K |-> y[k]] /\ DOMAIN y = K
      /\ \A k \in K : y[k] = IF P(k) = NoSchema THEN m[k] ELSE coerce_property(m[k], P(k))
      OBVIOUS
<1>5. ASSUME NEW k \in K
      PROVE  /\ m[k] \in KeyReadings(form, k)
             /\ y[k] # Bad => y[k] \in KeyReadings(form, k)
             /\ P(k) # NoSchema =>
                  (y[k] # Bad /\ Accepts(P(k), y[k])
                   <=> \E v \in KeyReadings(form, k) : Accepts(P(k), v))
  <2> DEFINE T == Times(form, Len(form), k)
             x == KeyFields(form, Len(form), k)
  <2>1. /\ T # 0 /\ m[k] = Merged(x, T)
        /\ \A p \in 1..T : Nth(Counted(form, Len(form), k), p) \in Counted(form, Len(form), k)
        BY DEF MapIs
  <2>2. Len(form) \in Nat /\ Len(form) \in 0..Len(form) BY <1>1
  <2>3. T \in Nat /\ x \in [1..T -> Fields] BY <1>1, <2>1, <2>2, CountedFinite, KeyFieldsTyped
  <2>4. KeyReadings(form, k) = MergedReadings(x, T) BY <1>1, <2>1, KeyReadingsAre
  <2> HIDE DEF x, T
  <2>5. m[k] \in KeyReadings(form, k) BY <2>1, <2>3, <2>4, MergedItself
  <2>6. CASE P(k) # NoSchema
    <3>1. y[k] = coerce_property(Merged(x, T), P(k)) BY <1>4, <2>1, <2>6
    <3>2. P(k) \in FormSchemas BY <2>6, FormAssumption DEF PropertyOf
    <3>3. HasType(P(k)) BY <2>6 DEF HasTypes, PropertyOf
    <3>4. \A v \in MergedReadings(x, T) : Agreed(v) BY <1>1, <2>4
    <3> HIDE DEF y, P
    <3>5. y[k] # Bad => y[k] \in KeyReadings(form, k) BY <2>3, <2>4, <3>1, MergedIsRead
    <3>6. y[k] # Bad /\ Accepts(P(k), y[k]) <=> \E v \in KeyReadings(form, k) : Accepts(P(k), v)
          BY <2>3, <2>4, <3>1, <3>2, <3>3, <3>4, MergedCoerced
    <3>7. QED BY <2>5, <3>5, <3>6
  <2>7. CASE P(k) = NoSchema
    <3>1. y[k] = m[k] BY <1>4, <2>7
    <3>2. QED BY <2>5, <2>7, <3>1
  <2>8. QED BY <2>6, <2>7
<1> HIDE DEF y
<1>6. [object |-> m] \in R BY <1>3, <1>5, FormReadingsAre
<1>7. CASE s.type = "object"
  <2>1. c = IF \E k \in K : y[k] = Bad THEN Bad ELSE [object |-> y]
    <3>1. [object |-> m].object = m /\ Is([object |-> m], "object") BY DEF Is
    <3>2. QED BY <1>3, <1>7, <3>1 DEF coerce_form_data_to_schema, y
  <2>2. ASSUME \A k \in K : y[k] # Bad PROVE c = [object |-> y] /\ c \in R /\ c # Bad
    <3>1. c = [object |-> y] BY <2>1, <2>2
    <3>2. \A k \in K : y[k] \in KeyReadings(form, k) BY <1>5, <2>2
    <3>3. c \in R BY <1>4, <3>1, <3>2, FormReadingsAre
    <3>4. QED BY <1>2, <3>1, <3>3
  <2>3. ASSUME c # Bad, Accepts(s, c) PROVE \E v \in R : Accepts(s, v) BY <2>1, <2>2, <2>3
  <2>4. ASSUME NEW v \in R, Accepts(s, v) PROVE c # Bad /\ Accepts(s, c)
    <3>1. PICK g : /\ v = [object |-> g] /\ g = [k \in K |-> g[k]]
                   /\ \A k \in K : g[k] \in KeyReadings(form, k)
          BY FormReadingsAre
    <3>2. v.object = g /\ DOMAIN g = K BY <3>1
    <3>3. /\ s.required \subseteq K
          /\ \A k \in K : P(k) # NoSchema => Accepts(P(k), g[k])
          BY <1>2, <1>7, <2>4, <3>2 DEF JsonSchema
    <3>4. \A k \in K : P(k) # NoSchema => y[k] # Bad /\ Accepts(P(k), y[k])
          BY <1>5, <3>1, <3>3
    <3>5. \A k \in K : P(k) = NoSchema => y[k] # Bad BY <1>1, <1>4, <1>5 DEF Agreed
    <3>6. c = [object |-> y] /\ c \in R /\ c # Bad BY <2>2, <3>4, <3>5
    <3>7. Is(c, "object") /\ c.object = y BY <3>6 DEF Is
    <3>8. JsonSchema(Accepts, s, c) BY <1>4, <1>7, <3>3, <3>4, <3>7 DEF JsonSchema
    <3>9. QED BY <1>2, <3>6, <3>8
  <2>5. QED BY <1>2, <1>6, <2>3, <2>4
<1>8. CASE s.type # "object"
  <2>1. c = [object |-> m] BY <1>8 DEF coerce_form_data_to_schema
  <2>2. ASSUME NEW v \in R, Accepts(s, v) PROVE Accepts(s, c)
    <3>1. PICK g : v = [object |-> g] BY FormReadingsAre
    <3>2. \A k : Is(v, k) <=> k = "object" BY <3>1 DEF Is
    <3>3. s.type = "any" BY <1>2, <1>8, <2>2, <3>2 DEF JsonSchema, HasTypes
    <3>4. JsonSchema(Accepts, s, c) BY <3>3 DEF JsonSchema
    <3>5. QED BY <1>2, <1>6, <2>1, <3>4
  <2>3. QED BY <1>2, <1>6, <2>1, <2>2
<1>9. QED BY <1>7, <1>8

-----------------------------------------------------------------------------
\* The body of a request.

\* All that reading and judging a form does to the head is to let it go on.
THEOREM BodyHeads == BodySpec => HeadSpec
<1>1. BodyInit => HeadInit BY DEF BodyInit
<1>2. [BodyNext]_bodyVars => [HeadNext]_headVars
  <2>1. SUFFICES ASSUME BodyNext PROVE HeadNext \/ UNCHANGED headVars
        BY DEF bodyVars
  <2>2. CASE CheckForm
    <3>1. CASE ValueFails([object |-> map])
      <4>1. Judge("body", TRUE, "mock") BY <2>2, <3>1 DEF CheckForm, Judge
      <4>2. QED BY <4>1 DEF HeadNext, JudgeBody
    <3>2. CASE ~ValueFails([object |-> map])
      <4>1. Judge("body", FALSE, "mock") BY <2>2, <3>2 DEF CheckForm, Judge
      <4>2. QED BY <4>1 DEF HeadNext, JudgeBody
    <3>3. QED BY <3>1, <3>2
  <2>3. CASE ReadField BY <2>3 DEF ReadField
  <2>4. CASE JudgeOther BY <2>4 DEF JudgeOther, HeadNext
  <2>5. QED BY <2>1, <2>2, <2>3, <2>4 DEF BodyNext, HeadNext
<1>3. QED BY <1>1, <1>2, PTL DEF BodySpec, HeadSpec

\* The fields of a form that were read are in the object, each in its place, and
\* once all are read the verdict is that on the object.
Form == request.body.form
FormKept ==
    /\ stage \in {"types", "path", "query", "header"} => read = 0 /\ map = <<>>
    /\ stage \in {"body", "mock"} /\ FormBody => read \in 0..Len(Form) /\ MapIs(map, Form, read)
    /\ stage = "mock" /\ FormBody =>
          read = Len(Form) /\ ("body" \in errors <=> ValueFails([object |-> map]))

\* Nothing of what a body is judged by changes while the router stays.
LEMMA BodyUnchanged ==
    ASSUME UNCHANGED routerVars
    PROVE  /\ FormBody' <=> FormBody
           /\ Form' = Form
           /\ \A v : ValueFails(v)' <=> ValueFails(v)
<1>1. Operation' = Operation /\ request' = request BY DEF routerVars, Operation, Item
<1>2. Content' = Content BY <1>1 DEF Content
<1>3. FormBody' <=> FormBody BY <1>1, <1>2 DEF FormBody
<1>4. \A v : ValueFails(v)' <=> ValueFails(v) BY <1>1, <1>2 DEF ValueFails, Shaped
<1>5. QED BY <1>1, <1>3, <1>4 DEF Form

\* A form of a request that is judged is one that the assumptions are about.
LEMMA FormTyped ==
    ASSUME RouterInv, DeclaredOperationServed, answer.status = 200, FormBody
    PROVE  /\ request \in Requests /\ Is(request.body, "form") /\ Form \in Seq(Fields)
           /\ request.media.main # "multipart" => \A i \in DOMAIN Form : ~Form[i].file
           /\ Content.schema # NoSchema => Inlined(Content.schema) \in FormSchemas
<1>1. answer # Unanswered BY DEF Unanswered
<1>2. request \in Requests BY <1>1 DEF RouterInv, RouterTypeOK
<1>3. Is(request.body, "form") /\ Content # NoContent /\ Operation.body # NoRequestBody
      BY DEF FormBody
<1>4. Operation \in Operations BY ServedTyped
<1>5. Content.schema # NoSchema => Inlined(Content.schema) \in FormSchemas
      BY <1>2, <1>3, <1>4, FormAssumption DEF Content
<1>6. QED BY <1>2, <1>3, <1>5, FormAssumption DEF Form

LEMMA NothingRead == ASSUME NEW fields PROVE MapIs(<<>>, fields, 0)
<1>1. 1..0 = {} OBVIOUS
<1>2. Keys(fields, 0) = {} BY <1>1 DEF Keys
<1>3. <<>> = [k \in {} |-> <<>>[k]] OBVIOUS
<1>4. QED BY <1>2, <1>3 DEF MapIs

\* A field is read.
LEMMA FieldRead ==
    ASSUME RouterInv, DeclaredOperationServed, VerdictsKept, FormKept, ReadField
    PROVE  FormKept'
<1>1. /\ stage = "body" /\ stage' = "body" /\ FormBody /\ UNCHANGED routerVars
      /\ read < Len(Form) /\ read' = read + 1
      /\ map' = IF request.media.main = "multipart" THEN AddPart(map, Form[read + 1])
                ELSE AddField(map, Form[read + 1])
      BY DEF ReadField, headVars, Form
<1>2. read \in 0..Len(Form) /\ MapIs(map, Form, read) BY <1>1 DEF FormKept
<1>3. answer.status = 200 BY <1>1 DEF VerdictsKept, DoneBefore
<1>4. Form \in Seq(Fields) /\ (request.media.main # "multipart" => \A i \in DOMAIN Form : ~Form[i].file)
      BY <1>1, <1>3, FormTyped
<1>5. read \in Nat /\ Len(Form) \in Nat BY <1>2, <1>4
<1>6. map' = AddPart(map, Form[read + 1])
  <2>1. read + 1 \in DOMAIN Form BY <1>1, <1>4, <1>5
  <2>2. QED BY <1>1, <1>4, <2>1 DEF AddPart
<1>7. MapIs(map', Form, read + 1) BY <1>1, <1>2, <1>4, <1>5, <1>6, MapNext
<1>8. read + 1 \in 0..Len(Form) BY <1>1, <1>5
<1>9. Form' = Form BY <1>1, BodyUnchanged
<1>10. MapIs(map, Form, read)' BY <1>1, <1>7, <1>9 DEF MapIs
<1>11. QED BY <1>1, <1>8, <1>9, <1>10 DEF FormKept

\* A form is judged.
LEMMA FormChecked ==
    ASSUME RouterInv, DeclaredOperationServed, VerdictsKept, FormKept, CheckForm
    PROVE  FormKept'
<1>1. /\ stage = "body" /\ stage' = "mock" /\ FormBody /\ UNCHANGED <<routerVars, read, map>>
      /\ read = Len(Form)
      /\ errors' = IF ValueFails([object |-> map]) THEN errors \cup {"body"} ELSE errors
      BY DEF CheckForm, Judge, Form
<1>2. "body" \notin errors BY <1>1 DEF VerdictsKept, DoneBefore, HeadChecks
<1>3. "body" \in errors' <=> ValueFails([object |-> map]) BY <1>1, <1>2
<1>4. Form' = Form /\ ([object |-> map]) = ([object |-> map])'
      /\ \A v : ValueFails(v)' <=> ValueFails(v) BY <1>1, BodyUnchanged
<1>5. ValueFails([object |-> map])' <=> ValueFails([object |-> map]) BY <1>1, <1>4 DEF ValueFails
<1>6. read \in 0..Len(Form) /\ MapIs(map, Form, read) BY <1>1 DEF FormKept
<1>7. MapIs(map, Form, read)' BY <1>1, <1>4, <1>6 DEF MapIs
<1>8. QED BY <1>1, <1>3, <1>4, <1>5, <1>6, <1>7 DEF FormKept

\* A check of the head, before which no field is read.
LEMMA HeadChecked ==
    ASSUME RouterInv, DeclaredOperationServed, VerdictsKept, FormKept,
           CheckPathTypes \/ CheckPath \/ CheckQuery \/ CheckHeaders, UNCHANGED <<read, map>>
    PROVE  FormKept'
<1>1. /\ stage \in {"types", "path", "query", "header"}
      /\ stage' \in {"path", "query", "header", "body"} /\ UNCHANGED routerVars
      BY DEF CheckPathTypes, CheckPath, CheckQuery, CheckHeaders, Judge
<1>2. read' = 0 /\ map' = <<>> BY <1>1 DEF FormKept
<1>3. ASSUME FormBody', stage' = "body" PROVE read' \in 0..Len(Form') /\ MapIs(map, Form, read)'
  <2>1. answer.status = 200 BY <1>1 DEF VerdictsKept, HeadChecks
  <2>2. Form' \in Seq(Fields) BY <1>1, <1>3, <2>1, BodyUnchanged, FormTyped
  <2>3. 0 \in 0..Len(Form') BY <2>2
  <2>4. MapIs(map', Form', read') BY <1>2, NothingRead
  <2>5. QED BY <1>2, <2>3, <2>4 DEF MapIs
<1>4. QED BY <1>1, <1>2, <1>3 DEF FormKept

LEMMA FormNext ==
    ASSUME RouterInv, DeclaredOperationServed, VerdictsKept, FormKept, [BodyNext]_bodyVars
    PROVE  FormKept'
<1>1. CASE Route /\ read' = 0 /\ map' = <<>>
  <2>1. stage' \in {"route", "types"} BY <1>1 DEF Route
  <2>2. QED BY <1>1, <2>1 DEF FormKept
<1>2. CASE (CheckPathTypes \/ CheckPath \/ CheckQuery \/ CheckHeaders) /\ UNCHANGED <<read, map>>
      BY <1>2, HeadChecked
<1>3. CASE ReadField BY <1>3, FieldRead
<1>4. CASE CheckForm BY <1>4, FormChecked
<1>5. CASE JudgeOther
  <2>1. ~FormBody /\ UNCHANGED routerVars /\ stage' = "mock"
        BY <1>5 DEF JudgeOther, JudgeBody, Judge
  <2>2. ~FormBody' BY <2>1, BodyUnchanged
  <2>3. QED BY <2>1, <2>2 DEF FormKept
<1>6. CASE Finish /\ UNCHANGED <<read, map>> BY <1>6 DEF Finish, FormKept
<1>7. CASE UNCHANGED bodyVars
  <2>1. /\ UNCHANGED routerVars /\ stage' = stage /\ errors' = errors /\ read' = read /\ map' = map
        BY <1>7 DEF bodyVars, headVars
  <2>2. /\ FormBody' <=> FormBody
        /\ Form' = Form
        /\ ValueFails([object |-> map])' <=> ValueFails([object |-> map])
    <3>1. \A v : ValueFails(v)' <=> ValueFails(v) BY <2>1, BodyUnchanged
    <3>2. ([object |-> map])' = [object |-> map] BY <2>1
    <3>3. QED BY <2>1, <3>1, <3>2, BodyUnchanged DEF ValueFails
  <2>3. MapIs(map, Form, read)' <=> MapIs(map, Form, read) BY <2>1, <2>2 DEF MapIs
  <2>4. QED BY <2>1, <2>2, <2>3 DEF FormKept
<1>8. QED BY <1>1, <1>2, <1>3, <1>4, <1>5, <1>6, <1>7 DEF BodyNext

\* Whatever the fields are, each that was read is in the object in its place, and
\* the verdict on a form is that on the object of all.
THEOREM FormsKept == BodySpec => []FormKept
<1>1. BodySpec => [](RouterInv /\ DeclaredOperationServed /\ VerdictsKept)
      BY BodyHeads, HeadInvariant, PTL
<1>2. BodyInit => FormKept BY DEF BodyInit, HeadInit, FormKept
<1>3. QED BY <1>1, <1>2, FormNext, PTL DEF BodySpec

\* A form passes exactly if the schema accepts one of the objects that it can be
\* read as, for any fields and any schema with a type in the place of each.
THEOREM FormsTheorem == BodySpec => []FormsJudgedAsSent
<1>1. BodySpec => [](RouterInv /\ DeclaredOperationServed /\ VerdictsKept)
      BY BodyHeads, HeadInvariant, PTL
<1>2. ASSUME RouterInv, DeclaredOperationServed, VerdictsKept, FormKept PROVE FormsJudgedAsSent
  <2> DEFINE s == Inlined(Content.schema)
             v == [object |-> map]
  <2>1. SUFFICES ASSUME stage = "mock", FormBody, Coerces(request.media),
                        Content.schema # NoSchema, HasTypes(s)
                 PROVE  "body" \in errors <=> ~\E w \in FormReadings(request.body.form) : Accepts(s, w)
        BY DEF FormsJudgedAsSent
  <2>2. /\ MapIs(map, request.body.form, Len(request.body.form))
        /\ "body" \in errors <=> ValueFails(v)
        BY <1>2, <2>1 DEF FormKept, Form
  <2>3. answer.status = 200 BY <1>2, <2>1 DEF VerdictsKept
  <2>4. request \in Requests /\ Is(request.body, "form") /\ s \in FormSchemas
        BY <1>2, <2>1, <2>3, FormTyped
  <2>5. Shaped(v, s) = coerce_form_data_to_schema(v, s) BY <2>1 DEF Shaped
  <2>6. ValueFails(v) <=> v = Bad \/ (Shaped(v, s) # Bad => ~Accepts(s, Shaped(v, s)))
        BY <2>1 DEF ValueFails
  <2> HIDE DEF s
  <2>7. /\ v # Bad
        /\ Shaped(v, s) # Bad /\ Accepts(s, Shaped(v, s))
           <=> \E w \in FormReadings(request.body.form) : Accepts(s, w)
        BY <2>1, <2>2, <2>4, <2>5, FormCoerced
  <2>8. QED BY <2>2, <2>6, <2>7
<1>3. QED BY <1>1, <1>2, FormsKept, PTL

-----------------------------------------------------------------------------
\* Contents, of which the first is taken.

\* A set of natural numbers has a smallest.
LEMMA SmallestNat ==
    ASSUME NEW N \in SUBSET Nat, N # {}
    PROVE  \E n \in N : \A m \in N : n <= m
<1>1. PICK n \in N : \A m \in N : <<m, n>> \notin OpToRel(<, Nat)
      BY WFMin, NatLessThanWellFounded
<1>2. \A m \in N : ~(m < n) BY <1>1 DEF OpToRel
<1>3. QED BY <1>2

\* The first of the contents is one of them.
LEMMA FirstFound ==
    ASSUME NEW content, DOMAIN content \subseteq Nat, NEW S, First(content, S) # NoContent
    PROVE  First(content, S) \in S /\ First(content, S) \in Range(content)
<1> DEFINE found == {i \in DOMAIN content : content[i] \in S}
<1>1. found # {} /\ First(content, S) = content[Min(found)] BY DEF First
<1>2. \E n \in found : \A m \in found : n <= m BY <1>1, SmallestNat
<1>3. Min(found) \in found BY <1>2 DEF Min
<1>4. QED BY <1>1, <1>3 DEF Range

\* The JSON content is one of the contents, and of a JSON type.
LEMMA JsonContentFound ==
    ASSUME NEW content, DOMAIN content \subseteq Nat, find_json_content(content) # NoContent
    PROVE  /\ find_json_content(content) \in Range(content)
           /\ is_json_media_type(find_json_content(content).type)
<1> DEFINE exact == Typed(content, [main |-> "application", sub |-> "json"])
           others == {c \in Range(content) : is_json_media_type(c.type)}
<1>1. \A c \in exact : is_json_media_type(c.type)
      BY DEF is_json_media_type, Typed, extract_media_type
<1>2. CASE First(content, exact) # NoContent
  <2>1. find_json_content(content) = First(content, exact)
        BY <1>2 DEF find_json_content, JsonOr
  <2> HIDE DEF exact
  <2>2. find_json_content(content) \in exact BY <1>2, <2>1, FirstFound
  <2>3. QED BY <1>1, <1>2, <2>1, <2>2, FirstFound
<1>3. CASE First(content, exact) = NoContent
  <2>1. find_json_content(content) = First(content, others)
        BY <1>3 DEF find_json_content, JsonOr
  <2> HIDE DEF others
  <2>2. First(content, others) \in others /\ First(content, others) \in Range(content)
        BY <2>1, FirstFound
  <2>3. QED BY <2>1, <2>2 DEF others
<1>4. QED BY <1>2, <1>3

\* What the generator takes for JSON is one of the contents, and it is what responses
\* are checked by where the two agree on the types.
LEMMA NamedJsonFound ==
    ASSUME NEW content, DOMAIN content \subseteq Nat
    PROVE  /\ NamedJson(content) # NoContent => NamedJson(content) \in Range(content)
           /\ (\A c \in Range(content) : "json" \in c.type.words <=> is_json_media_type(c.type))
                 => NamedJson(content) = find_json_content(content)
<1> DEFINE exact == Typed(content, [main |-> "application", sub |-> "json"])
           named == {c \in Range(content) : "json" \in c.type.words}
           others == {c \in Range(content) : is_json_media_type(c.type)}
<1>1. /\ NamedJson(content) = JsonOr(content, named)
      /\ find_json_content(content) = JsonOr(content, others)
      BY DEF NamedJson, find_json_content
<1>2. NamedJson(content) \in {First(content, exact), First(content, named)}
      BY <1>1 DEF JsonOr
<1>3. NamedJson(content) # NoContent => NamedJson(content) \in Range(content)
  <2> HIDE DEF exact, named
  <2>1. QED BY <1>2, FirstFound
<1>4. ASSUME \A c \in Range(content) : "json" \in c.type.words <=> is_json_media_type(c.type)
      PROVE  named = others
      BY <1>4
<1>5. QED BY <1>1, <1>3, <1>4

-----------------------------------------------------------------------------
\* What is generated for a schema.

\* What deep resolution leaves of a schema, and what it replaces.
LEMMA InlinedIs ==
    ASSUME NEW s \in ReplySchemas
    PROVE  LET r == Resolved(s)  i == Inlined(s) IN
           /\ i.type = r.type /\ i.lo = r.lo /\ i.hi = r.hi /\ i.enum = r.enum
           /\ i.required = r.required
           /\ i.items = Inlined(r.items)
           /\ DOMAIN i.properties = DOMAIN r.properties
           /\ \A k \in DOMAIN r.properties : i.properties[k] = Inlined(r.properties[k])
<1> DEFINE r == Resolved(s)
           i == Inlined(s)
           within == [c \in Subschemas(r) |-> Inlined(c)]
           items == IF r.items = NoSchema THEN NoSchema ELSE within[r.items]
           additional == IF r.additional = NoSchema THEN NoSchema ELSE within[r.additional]
           oneOf == {within[x] : x \in r.oneOf}
           properties == [k \in DOMAIN r.properties |-> within[r.properties[k]]]
<1>1. i = [r EXCEPT !.items = items, !.additional = additional, !.oneOf = oneOf,
                    !.properties = properties]
      BY MockAssumption DEF resolve_schema_deep
<1>2. DOMAIN r = {"type", "lo", "hi", "enum", "items", "properties", "additional",
                  "required", "oneOf", "target"}
      BY MockAssumption DEF Schema
<1>3. items = Inlined(r.items) BY MockAssumption DEF Inner, Subschemas
<1>4. /\ DOMAIN properties = DOMAIN r.properties
      /\ \A k \in DOMAIN r.properties : properties[k] = Inlined(r.properties[k])
      BY DEF Inner, Subschemas
<1> HIDE DEF r, i, items, additional, oneOf, properties
<1>5. /\ i.type = r.type /\ i.lo = r.lo /\ i.hi = r.hi /\ i.enum = r.enum
      /\ i.required = r.required /\ i.items = items /\ i.properties = properties
      BY <1>1, <1>2
<1>6. QED BY <1>3, <1>4, <1>5 DEF r, i

\* What is within a schema is, resolved, within the resolved schema.
LEMMA InnerInlined ==
    ASSUME NEW s \in ReplySchemas, NEW c \in Inner(Resolved(s))
    PROVE  c \in ReplySchemas /\ Inlined(c) \in Inner(Inlined(s))
<1>1. c \in ReplySchemas /\ Inlined(c) # NoSchema BY MockAssumption
<1>2. QED BY <1>1, InlinedIs DEF Inner

\* What the generator is to hold to for one schema.
Generates(s) ==
    /\ (\A x \in SchemasIn(Inlined(s)) : Keeps(x)) =>
          \A v \in Generated(Resolved(s)) \ Failures : Accepts(Inlined(s), v)
    /\ Panic \in Generated(Resolved(s)) => \E x \in SchemasIn(Inlined(s)) : Rangeless(x)

\* A schema is among those within it, with all that are within its own.
LEMMA InnerWithin ==
    ASSUME NEW s \in ReplySchemas
    PROVE  /\ Inlined(s) \in SchemasIn(Inlined(s))
           /\ \A c \in Inner(Resolved(s)) : SchemasIn(Inlined(c)) \subseteq SchemasIn(Inlined(s))
<1>1. SchemasIn(Inlined(s)) = {Inlined(s)} \cup UNION {SchemasIn(x) : x \in Inner(Inlined(s))}
      BY MockAssumption
<1>2. QED BY <1>1, InnerInlined

\* An integer is within its bounds, or the range is empty.
LEMMA IntegersWithin ==
    ASSUME NEW s, {s.lo, s.hi} \subseteq Int \cup {Unbounded}
    PROVE  /\ s.lo # Unbounded \/ s.hi = Unbounded => \A n \in RandomInteger(s) : Within(n, s)
           /\ s.type = "integer" /\ RandomInteger(s) = {} => Rangeless(s)
<1>1. MaxInteger \in Int BY MockAssumption
<1>2. CASE s.lo = Unbounded BY <1>2 DEF RandomInteger, Within
<1>3. CASE s.lo # Unbounded /\ s.hi = Unbounded
      BY <1>1, <1>3 DEF RandomInteger, Within, Rangeless
<1>4. CASE s.lo # Unbounded /\ s.hi # Unbounded BY <1>4 DEF RandomInteger, Within, Rangeless
<1>5. QED BY <1>2, <1>3, <1>4

\* A generated object has its properties, each of them generated.
LEMMA ObjectsGenerated ==
    ASSUME NEW each, NEW v \in GeneratedObjects(each) \ Failures
    PROVE  \E f : /\ v = [object |-> f] /\ DOMAIN f = DOMAIN each
                  /\ \A k \in DOMAIN each : f[k] \in each[k] \ Failures
<1> DEFINE failed == Failures \cap UNION {each[k] : k \in DOMAIN each}
           objects == {[object |-> f] : f \in OneOfEach(each)}
<1>1. v \in IF failed # {} THEN failed ELSE objects BY DEF GeneratedObjects
<1>2. failed \subseteq Failures OBVIOUS
<1>3. failed = {} /\ v \in objects
  <2> HIDE DEF failed, objects
  <2>1. QED BY <1>1, <1>2
<1>4. PICK f \in OneOfEach(each) : v = [object |-> f] BY <1>3
<1>5. DOMAIN f = DOMAIN each /\ \A k \in DOMAIN each : f[k] \in each[k] BY <1>4 DEF OneOfEach
<1>6. ASSUME NEW k \in DOMAIN each, f[k] \in Failures PROVE FALSE
  <2>1. f[k] \in UNION {each[m] : m \in DOMAIN each} BY <1>5, <1>6
  <2>2. f[k] \in failed BY <2>1, <1>6
  <2>3. QED BY <2>2, <1>3
<1>7. QED BY <1>4, <1>5, <1>6

\* Where the schemas within hold to it, what is generated is accepted.
LEMMA AcceptedStep ==
    ASSUME NEW s \in ReplySchemas, \A c \in Inner(Resolved(s)) : Generates(c),
           \A x \in SchemasIn(Inlined(s)) : Keeps(x),
           NEW v \in Generated(Resolved(s)) \ Failures
    PROVE  Accepts(Inlined(s), v)
<1> DEFINE r == Resolved(s)
           i == Inlined(s)
           within == [c \in Inner(r) |-> Generated(Resolved(c))]
<1>1. /\ Generated(r) = generate_from_json_schema(r, within)
      /\ {r.lo, r.hi} \subseteq Int \cup {Unbounded}
      /\ Accepts(i, v) <=> JsonSchema(Accepts, i, v)
      BY MockAssumption
<1>2. /\ i.type = r.type /\ i.lo = r.lo /\ i.hi = r.hi /\ i.enum = r.enum
      /\ i.required = r.required /\ i.items = Inlined(r.items)
      /\ DOMAIN i.properties = DOMAIN r.properties
      /\ \A k \in DOMAIN r.properties : i.properties[k] = Inlined(r.properties[k])
      BY InlinedIs
<1>3. Keeps(i) BY InnerWithin
<1>4. v \in generate_from_json_schema(r, within) /\ v \notin Failures BY <1>1
<1>5. \A c \in Inner(r) : \A w \in Generated(Resolved(c)) \ Failures : Accepts(Inlined(c), w)
      BY InnerWithin DEF Generates
<1>6. Inlined(NoSchema) = NoSchema BY MockAssumption
<1> SUFFICES JsonSchema(Accepts, i, v) BY <1>1
<1> HIDE DEF r, i, within
<1>7. CASE r.type = "string"
  <2>1. PICK t : /\ v = [string |-> t]
                 /\ r.enum = {} \/ t \in r.enum
        BY <1>4, <1>7 DEF generate_from_json_schema, Words
  <2>2. Within(Chars(t), i) /\ (i.enum = {} \/ t \in i.enum)
        BY <1>2, <1>3, <1>7, <2>1 DEF Keeps, Within
  <2>3. QED BY <1>2, <1>7, <2>1, <2>2 DEF JsonSchema, Is
<1>8. CASE r.type = "integer"
  <2>1. r.lo # Unbounded \/ r.hi = Unbounded BY <1>2, <1>3, <1>8 DEF Keeps
  <2>2. PICK n \in RandomInteger(r) : v = [integer |-> n]
        BY <1>4, <1>8 DEF generate_from_json_schema, Failures
  <2>3. Within(n, r) BY <1>1, <2>1, <2>2, IntegersWithin
  <2>4. QED BY <1>2, <1>8, <2>2, <2>3 DEF JsonSchema, Is, Within
<1>9. CASE r.type = "number"
  <2>1. PICK n \in {0, 999} : v = [number |-> n] BY <1>4, <1>9 DEF generate_from_json_schema
  <2>2. Within(n, i) BY <1>2, <1>3, <1>9 DEF Keeps, Within
  <2>3. QED BY <1>2, <1>9, <2>1, <2>2 DEF JsonSchema, Is
<1>10. CASE r.type = "boolean"
  <2>1. PICK b \in BOOLEAN : v = [boolean |-> b] BY <1>4, <1>10 DEF generate_from_json_schema
  <2>2. QED BY <1>2, <1>10, <2>1 DEF JsonSchema, Is
<1>11. CASE r.type = "array"
  <2>1. i.lo = Unbounded /\ i.hi = Unbounded /\ i.items # NoSchema
        BY <1>2, <1>3, <1>11 DEF Keeps
  <2>2. r.items # NoSchema BY <1>2, <1>6, <2>1
  <2>3. v \in GeneratedArrays(within[r.items]) \ Failures
        BY <1>4, <1>11, <2>2 DEF generate_from_json_schema
  <2>4. PICK n \in {1, 5} : \E w \in within[r.items] \ Failures : v = [array |-> [m \in 1..n |-> w]]
        BY <2>3 DEF GeneratedArrays
  <2>5. r.items \in Inner(r) BY <2>2 DEF Inner
  <2>6. PICK w \in Generated(Resolved(r.items)) \ Failures : v = [array |-> [m \in 1..n |-> w]]
        BY <2>4, <2>5 DEF within
  <2>7. Accepts(i.items, w) BY <1>2, <1>5, <2>5, <2>6
  <2>8. \A m \in DOMAIN v.array : v.array[m] = w BY <2>6
  <2>9. Is(v, "array") /\ Within(Len(v.array), i) BY <2>1, <2>6 DEF Is, Within
  <2>10. QED BY <1>2, <1>11, <2>7, <2>8, <2>9 DEF JsonSchema
<1>12. CASE r.type = "object"
  <2> DEFINE each == [k \in DOMAIN r.properties |-> within[r.properties[k]]]
  <2>1. v \in GeneratedObjects(each) \ Failures BY <1>4, <1>12 DEF generate_from_json_schema
  <2> HIDE DEF each
  <2>2. PICK f : /\ v = [object |-> f] /\ DOMAIN f = DOMAIN each
                 /\ \A k \in DOMAIN each : f[k] \in each[k] \ Failures
        BY <2>1, ObjectsGenerated
  <2>3. DOMAIN f = DOMAIN r.properties BY <2>2 DEF each
  <2>4. ASSUME NEW k \in DOMAIN r.properties PROVE Accepts(i.properties[k], f[k])
    <3>1. r.properties[k] \in Inner(r) BY DEF Inner
    <3>2. f[k] \in Generated(Resolved(r.properties[k])) \ Failures BY <2>2, <3>1 DEF each, within
    <3>3. QED BY <1>2, <1>5, <3>1, <3>2
  <2>5. i.required \subseteq DOMAIN f BY <1>2, <1>3, <1>12, <2>3 DEF Keeps
  <2>6. Is(v, "object") /\ v.object = f BY <2>2 DEF Is
  <2>7. \A k \in DOMAIN f : PropertyOf(i, k) = i.properties[k] BY <1>2, <2>3 DEF PropertyOf
  <2>8. QED BY <1>2, <1>12, <2>3, <2>4, <2>5, <2>6, <2>7 DEF JsonSchema
<1>13. CASE r.type = "any" BY <1>2, <1>13 DEF JsonSchema
<1>14. r.type \in {"string", "integer", "number", "boolean", "array", "object", "any"}
       BY <1>2, <1>3 DEF Keeps
<1>15. QED BY <1>7, <1>8, <1>9, <1>10, <1>11, <1>12, <1>13, <1>14

\* Where the schemas within hold to it, a panic has its reason.
LEMMA PanicStep ==
    ASSUME NEW s \in ReplySchemas, \A c \in Inner(Resolved(s)) : Generates(c),
           Panic \in Generated(Resolved(s))
    PROVE  \E x \in SchemasIn(Inlined(s)) : Rangeless(x)
<1> DEFINE r == Resolved(s)
           i == Inlined(s)
           within == [c \in Inner(r) |-> Generated(Resolved(c))]
<1>1. /\ Generated(r) = generate_from_json_schema(r, within) /\ Bad # Panic
      /\ {r.lo, r.hi} \subseteq Int \cup {Unbounded}
      BY MockAssumption
<1>2. ASSUME NEW c \in Inner(r), Panic \in Generated(Resolved(c))
      PROVE  \E x \in SchemasIn(i) : Rangeless(x)
      BY <1>2, InnerWithin DEF Generates
<1>3. i.type = r.type /\ i.lo = r.lo /\ i.hi = r.hi /\ i \in SchemasIn(i)
      BY InlinedIs, InnerWithin
<1>4. Panic \in generate_from_json_schema(r, within) BY <1>1
<1>5. DOMAIN Panic = {"panic"} BY DEF Panic
<1> SUFFICES \E x \in SchemasIn(i) : Rangeless(x) OBVIOUS
<1> HIDE DEF r, i, within
<1>6. CASE r.type = "string"
      BY <1>4, <1>6, <1>5 DEF generate_from_json_schema, Words
<1>7. CASE r.type = "integer"
  <2>1. RandomInteger(r) = {} BY <1>4, <1>5, <1>7 DEF generate_from_json_schema
  <2>2. Rangeless(r) BY <1>1, <1>7, <2>1, IntegersWithin
  <2>3. Rangeless(i) BY <1>3, <2>2 DEF Rangeless
  <2>4. QED BY <1>3, <2>3
<1>8. CASE r.type = "number" BY <1>4, <1>5, <1>8 DEF generate_from_json_schema
<1>9. CASE r.type = "boolean" BY <1>4, <1>5, <1>9 DEF generate_from_json_schema
<1>10. CASE r.type = "array"
  <2>1. r.items # NoSchema BY <1>1, <1>4, <1>10 DEF generate_from_json_schema
  <2>2. Panic \in GeneratedArrays(within[r.items]) BY <1>4, <1>10, <2>1 DEF generate_from_json_schema
  <2>3. Panic \in within[r.items] BY <1>5, <2>2 DEF GeneratedArrays
  <2>4. r.items \in Inner(r) BY <2>1 DEF Inner
  <2>5. Panic \in Generated(Resolved(r.items)) BY <2>3, <2>4 DEF within
  <2>6. QED BY <1>2, <2>4, <2>5
<1>11. CASE r.type = "object"
  <2> DEFINE each == [k \in DOMAIN r.properties |-> within[r.properties[k]]]
  <2>1. Panic \in GeneratedObjects(each) BY <1>4, <1>11 DEF generate_from_json_schema
  <2> HIDE DEF each
  <2>2. Panic \in UNION {each[k] : k \in DOMAIN each} BY <1>5, <2>1 DEF GeneratedObjects
  <2>3. PICK k \in DOMAIN r.properties : Panic \in within[r.properties[k]] BY <2>2 DEF each
  <2>4. r.properties[k] \in Inner(r) BY DEF Inner
  <2>5. Panic \in Generated(Resolved(r.properties[k])) BY <2>3, <2>4 DEF within
  <2>6. QED BY <1>2, <2>4, <2>5
<1>12. CASE r.type = "any" BY <1>4, <1>5, <1>12 DEF generate_from_json_schema
<1>13. CASE r.type \notin {"string", "integer", "number", "boolean", "array", "object", "any"}
       BY <1>1, <1>4, <1>13 DEF generate_from_json_schema
<1>14. QED BY <1>6, <1>7, <1>8, <1>9, <1>10, <1>11, <1>12, <1>13

\* No schema contains itself: within one that is inside another there are fewer.
Rank(s) == Cardinality(SchemasIn(Inlined(s)))

LEMMA RankFalls ==
    ASSUME NEW s \in ReplySchemas, NEW c \in Inner(Resolved(s))
    PROVE  Rank(s) \in Nat /\ Rank(c) \in Nat /\ Rank(c) < Rank(s)
<1>1. c \in ReplySchemas /\ Inlined(c) \in Inner(Inlined(s)) BY InnerInlined
<1>2. /\ IsFiniteSet(SchemasIn(Inlined(s))) /\ IsFiniteSet(SchemasIn(Inlined(c)))
      /\ Inlined(s) \notin SchemasIn(Inlined(c))
      BY <1>1, MockAssumption
<1>3. /\ SchemasIn(Inlined(c)) \subseteq SchemasIn(Inlined(s))
      /\ SchemasIn(Inlined(c)) # SchemasIn(Inlined(s))
      BY <1>2, InnerWithin
<1>4. Rank(s) \in Nat /\ Rank(c) \in Nat BY <1>2, FS_CardinalityType DEF Rank
<1>5. Rank(c) <= Rank(s) /\ Rank(c) # Rank(s) BY <1>2, <1>3, FS_Subset DEF Rank
<1>6. QED BY <1>4, <1>5

\* What is generated for a schema is accepted by it where no schema within says
\* more than the generator looks at, and a panic is over a range within it: of the
\* schemas that fail there would be one with the fewest within, whose own do not.
LEMMA SchemasGenerate == \A s \in ReplySchemas : Generates(s)
<1>1. SUFFICES ASSUME NEW s \in ReplySchemas, ~Generates(s) PROVE FALSE OBVIOUS
<1> DEFINE failing == {x \in ReplySchemas : ~Generates(x)}
           ranks == {Rank(x) : x \in failing}
<1>2. \A x \in ReplySchemas : Rank(x) \in Nat BY MockAssumption, FS_CardinalityType DEF Rank
<1>3. PICK n \in ranks : \A m \in ranks : n <= m
  <2>1. ranks \in SUBSET Nat /\ ranks # {} BY <1>1, <1>2
  <2>2. QED BY <2>1, SmallestNat
<1>4. PICK x \in failing : \A y \in failing : Rank(x) <= Rank(y) BY <1>3
<1>5. ASSUME NEW c \in Inner(Resolved(x)) PROVE Generates(c)
  <2>1. c \in ReplySchemas BY <1>4, InnerInlined
  <2>2. Rank(x) \in Nat /\ Rank(c) \in Nat /\ Rank(c) < Rank(x) BY <1>4, RankFalls
  <2>3. QED BY <1>4, <2>1, <2>2
<1>6. Generates(x) BY <1>4, <1>5, AcceptedStep, PanicStep DEF Generates
<1>7. QED BY <1>4, <1>6

-----------------------------------------------------------------------------
\* Mock responses.

\* The response for a status is one that the assumptions are about.
LEMMA ResponseTyped ==
    ASSUME NEW op \in Operations, NEW code, get_response_for_status(op, code) # NoResponse
    PROVE  \E c \in DOMAIN op.responses : get_response_for_status(op, code) = op.responses[c]
BY DEF get_response_for_status

\* The texts of headers and what they are converted to.
LEMMA HeaderWritten ==
    ASSUME NEW op \in Operations, NEW code \in DOMAIN op.responses,
           NEW h \in DOMAIN op.responses[code].headers,
           Written(op.responses[code].headers[h]), ~op.responses[code].headers[h].reference,
           NEW t \in generate_header_value(op.responses[code].headers[h].schema)
    PROVE  ParamValid(t, Resolved(op.responses[code].headers[h].schema))
<1> DEFINE s == op.responses[code].headers[h].schema
<1>1. /\ s.items # NoSchema => s.type = "array"
      /\ \A v \in Readings(t) : v # Bad /\ (Accepts(s, v) <=> JsonSchema(Accepts, s, v))
      BY MockAssumption
<1>2. /\ s.type \in {"string", "integer"} /\ s.lo = Unbounded /\ s.hi = Unbounded /\ s.enum = {}
      BY DEF Written, Keeps
<1>3. t \in generate_header_value(s) OBVIOUS
<1>4. Resolved(s) = s BY <1>2 DEF Resolved
<1> SUFFICES ParamValid(t, s) BY <1>4
<1> HIDE DEF s
<1>5. \A n : Within(n, s) BY <1>2 DEF Within
<1>6. s.items = NoSchema /\ convert_param_to_json(t, s) = convert_scalar(t, s)
      BY <1>1, <1>2 DEF convert_param_to_json
<1>7. SUFFICES /\ convert_scalar(t, s) \in Readings(t)
               /\ JsonSchema(Accepts, s, convert_scalar(t, s))
      BY <1>1, <1>6 DEF ParamValid
<1>8. CASE s.type = "string"
  <2>1. convert_scalar(t, s) = [string |-> t] BY <1>8 DEF convert_scalar
  <2>2. JsonSchema(Accepts, s, [string |-> t]) BY <1>2, <1>5, <1>8 DEF JsonSchema, Is
  <2>3. QED BY <2>1, <2>2 DEF Readings
<1>9. CASE s.type = "integer"
  <2>1. PICK n \in {1, 999} : t = Single(Atom("integer", n, 3, 3))
        BY <1>3, <1>9 DEF generate_header_value
  <2>2. /\ ~t.json /\ Len(t.atoms) = 1 /\ t.atoms[1].kind = "integer" /\ t.atoms[1].value = n
        BY <2>1 DEF Single, Text, Atom
  <2>3. convert_scalar(t, s) = [integer |-> n] BY <1>9, <2>2 DEF convert_scalar, IsA
  <2>4. [integer |-> n] \in Readings(t) BY <2>2 DEF Readings, AtomReadings, JsonAtom
  <2>5. JsonSchema(Accepts, s, [integer |-> n]) BY <1>5, <1>9 DEF JsonSchema, Is
  <2>6. QED BY <2>3, <2>4, <2>5
<1>10. QED BY <1>2, <1>8, <1>9

\* Headers that are written as their schemas have them pass.
LEMMA HeadersPass ==
    ASSUME NEW op \in Operations, NEW code \in DOMAIN op.responses,
           \A h \in DOMAIN op.responses[code].headers : Written(op.responses[code].headers[h]),
           NEW headers \in generate_response_headers(op.responses[code])
    PROVE  ResponseHeadersPass(op.responses[code], headers)
<1> DEFINE response == op.responses[code]
           inline == {n \in DOMAIN response.headers : ~response.headers[n].reference}
           each == [h \in inline |-> generate_header_value(response.headers[h].schema)]
<1>1. headers \in OneOfEach(each) BY DEF generate_response_headers
<1>2. DOMAIN each = inline /\ \A h \in inline : each[h] = generate_header_value(response.headers[h].schema)
      OBVIOUS
<1> HIDE DEF each
<1>3. DOMAIN headers = inline /\ \A h \in inline : headers[h] \in each[h]
      BY <1>1, <1>2 DEF OneOfEach
<1>4. ASSUME NEW h \in DOMAIN response.headers, h \in DOMAIN headers
      PROVE  ParamValid(headers[h], Resolved(response.headers[h].schema))
      BY <1>2, <1>3, <1>4, HeaderWritten
<1>5. ASSUME NEW h \in DOMAIN response.headers, h \notin DOMAIN headers
      PROVE  ~response.headers[h].required
      BY <1>3, <1>5 DEF Written
<1>6. QED BY <1>4, <1>5 DEF ResponseHeadersPass

\* The body that is made of an example.
LEMMA ExampleBody ==
    ASSUME NEW response, DOMAIN response.content \subseteq Nat,
           NEW body \in generate_from_example(response)
    PROVE  \E c \in Range(response.content) :
              c.example # NoExample /\ body = serialize_for_content_type(c.example, c.type)
<1> DEFINE S == {x \in Range(response.content) : x.example # NoExample}
           c == First(response.content, S)
<1>1. c # NoContent /\ body = serialize_for_content_type(c.example, c.type)
      BY DEF generate_from_example
<1>2. c \in S BY <1>1, FirstFound
<1>3. QED BY <1>1, <1>2

\* The body that is made of a schema: of what the generator takes for JSON, if there
\* is any.
LEMMA SchemaBody ==
    ASSUME NEW response, DOMAIN response.content \subseteq Nat,
           NEW body \in generate_from_schema(response), body # Bad
    PROVE  \E c \in Range(response.content) :
              /\ c.schema # NoSchema
              /\ NamedJson(response.content) # NoContent => c = NamedJson(response.content)
              /\ \E v \in Generated(Resolved(c.schema)) :
                    body = IF v \in Failures THEN v ELSE serialize_for_content_type(v, c.type)
<1> DEFINE json == NamedJson(response.content)
           c == IF json # NoContent THEN json ELSE First(response.content, Range(response.content))
<1>1. /\ c.schema # NoSchema
      /\ \E v \in Generated(Resolved(c.schema)) :
            body = IF v \in Failures THEN v ELSE serialize_for_content_type(v, c.type)
      BY DEF generate_from_schema
<1>2. c # NoContent
  <2>1. NoContent.schema = NoSchema BY DEF NoContent
  <2>2. QED BY <1>1, <2>1
<1>3. c \in Range(response.content) BY <1>2, NamedJsonFound, FirstFound
<1>4. QED BY <1>1, <1>3

\* What is serialized is no panic, and for a type with json in it the value.
LEMMA SerializedIs ==
    ASSUME NEW v, NEW type
    PROVE  /\ serialize_for_content_type(v, type) # Panic
           /\ "json" \in type.words => serialize_for_content_type(v, type) = [json |-> v]
<1>1. DOMAIN Panic = {"panic"} BY DEF Panic
<1>2. DOMAIN [json |-> v] = {"json"} /\ DOMAIN [xml |-> v] = {"xml"} OBVIOUS
<1>3. QED BY <1>1, <1>2 DEF serialize_for_content_type

\* A panic over a body has its reason.
LEMMA BodyPanics ==
    ASSUME NEW op \in Operations, NEW code \in DOMAIN op.responses, NEW config,
           Panic \in MockBodies(op.responses[code], config)
    PROVE  \E c \in Range(op.responses[code].content) :
               c.schema # NoSchema /\ \E x \in SchemasIn(Inlined(c.schema)) : Rangeless(x)
<1> DEFINE response == op.responses[code]
<1>1. /\ DOMAIN response.content \subseteq Nat /\ Panic # Bad
      /\ \A c \in Range(response.content) : c.schema # NoSchema => c.schema \in ReplySchemas
      BY MockAssumption
<1>2. Panic \notin generate_from_example(response) BY <1>1, ExampleBody, SerializedIs
<1>3. Panic \in generate_from_schema(response) BY <1>2 DEF MockBodies
<1>4. PICK c \in Range(response.content) :
          /\ c.schema # NoSchema
          /\ \E v \in Generated(Resolved(c.schema)) :
                Panic = IF v \in Failures THEN v ELSE serialize_for_content_type(v, c.type)
      BY <1>1, <1>3, SchemaBody
<1>5. Panic \in Generated(Resolved(c.schema)) BY <1>4, SerializedIs
<1>6. c.schema \in ReplySchemas BY <1>1, <1>4
<1>7. QED BY <1>4, <1>5, <1>6, SchemasGenerate DEF Generates

\* A body passes where the schemas say no more than the generator looks at, the
\* examples are of their schemas and it is agreed which types are JSON.
LEMMA BodyPasses ==
    ASSUME NEW op \in Operations, NEW code \in DOMAIN op.responses, NEW config,
           NEW body \in MockBodies(op.responses[code], config), body \notin Failures,
           Is(body, "json") => Depth(body.json) <= MaxJsonDepth,
           \A c \in Range(op.responses[code].content) :
              /\ c.schema # NoSchema /\ \A x \in SchemasIn(Inlined(c.schema)) : Keeps(x)
              /\ c.example # NoExample => /\ c = find_json_content(op.responses[code].content)
                                          /\ Accepts(Inlined(c.schema), c.example)
              /\ "json" \in c.type.words <=> is_json_media_type(c.type)
    PROVE  ResponseBodyPasses(op.responses[code], body)
<1> DEFINE response == op.responses[code]
           content == find_json_content(response.content)
<1>1. /\ DOMAIN response.content \subseteq Nat
      /\ \A c \in Range(response.content) : c.schema # NoSchema => c.schema \in ReplySchemas
      BY MockAssumption
<1>2. SUFFICES ASSUME content # NoContent
               PROVE  \E v : body = [json |-> v] /\ Accepts(Inlined(content.schema), v)
  <2>1. ASSUME NEW v, body = [json |-> v], Accepts(Inlined(content.schema), v)
        PROVE  ResponseBodyPasses(response, body)
    <3>1. Is(body, "json") /\ body.json = v BY <2>1 DEF Is
    <3>2. QED BY <2>1, <3>1 DEF ResponseBodyPasses
  <2>2. content = NoContent => ResponseBodyPasses(response, body) BY DEF ResponseBodyPasses
  <2>3. QED BY <2>1, <2>2
<1>3. content \in Range(response.content) /\ "json" \in content.type.words
      BY <1>1, <1>2, JsonContentFound
<1>4. CASE body \in generate_from_example(response)
  <2>1. PICK c \in Range(response.content) :
            c.example # NoExample /\ body = serialize_for_content_type(c.example, c.type)
        BY <1>1, <1>4, ExampleBody
  <2>2. c = content /\ Accepts(Inlined(c.schema), c.example) BY <2>1
  <2>3. body = [json |-> c.example] BY <1>3, <2>1, <2>2, SerializedIs
  <2>4. QED BY <2>2, <2>3
<1>5. CASE body \in generate_from_schema(response)
  <2>1. body # Bad /\ NamedJson(response.content) = content
        BY <1>1, NamedJsonFound DEF Failures
  <2>2. /\ content.schema # NoSchema
        /\ \E v \in Generated(Resolved(content.schema)) :
              body = IF v \in Failures THEN v ELSE serialize_for_content_type(v, content.type)
        BY <1>1, <1>2, <1>5, <2>1, SchemaBody
  <2>3. PICK v \in Generated(Resolved(content.schema)) :
            body = IF v \in Failures THEN v ELSE serialize_for_content_type(v, content.type)
        BY <2>2
  <2>4. v \notin Failures /\ body = [json |-> v] BY <1>3, <2>3, SerializedIs
  <2>5. content.schema \in ReplySchemas BY <1>1, <1>3, <2>2
  <2>6. \A x \in SchemasIn(Inlined(content.schema)) : Keeps(x) BY <1>3
  <2>7. Accepts(Inlined(content.schema), v)
        BY <2>3, <2>4, <2>5, <2>6, SchemasGenerate DEF Generates
  <2>8. QED BY <2>4, <2>7
<1>6. QED BY <1>4, <1>5 DEF MockBodies

-----------------------------------------------------------------------------
\* The exchange.

\* To the head of a request and a form in its body an exchange does what RequestBody
\* has, whatever becomes of other bodies and of mock responses.
THEOREM ExchangeBodies == Spec => BodySpec
<1>1. Init => BodyInit BY DEF Init
<1>2. [Next]_vars => [BodyNext]_bodyVars
  <2>1. SUFFICES ASSUME Next PROVE BodyNext \/ UNCHANGED bodyVars
        BY DEF vars
  <2>2. CASE CheckBody
    <3>1. stage = "body" /\ ~FormBody /\ Judge("body", BodyFails, "mock") /\ UNCHANGED <<read, map>>
          BY <2>2 DEF CheckBody
    <3>2. CASE BodyFails
      <4>1. Judge("body", TRUE, "mock") BY <3>1, <3>2 DEF Judge
      <4>2. QED BY <3>1, <4>1 DEF BodyNext, JudgeOther, JudgeBody
    <3>3. CASE ~BodyFails
      <4>1. Judge("body", FALSE, "mock") BY <3>1, <3>3 DEF Judge
      <4>2. QED BY <3>1, <4>1 DEF BodyNext, JudgeOther, JudgeBody
    <3>4. QED BY <3>2, <3>3
  <2>3. CASE SendMock
    <3>1. stage = "mock" /\ stage' \in {"route", "crashed"} /\ UNCHANGED <<routerVars, errors, read, map>>
          BY <2>3 DEF SendMock
    <3>2. QED BY <3>1 DEF BodyNext, Finish
  <2>4. CASE SendNoMock BY <2>4 DEF SendNoMock, BodyNext, Finish
  <2>5. CASE Aborted BY <2>5 DEF Aborted, vars
  <2>6. QED BY <2>1, <2>2, <2>3, <2>4, <2>5 DEF Next, BodyNext
<1>3. QED BY <1>1, <1>2, PTL DEF Spec, BodySpec

\* Whatever is asked and of whatever document: in an exchange a declared operation is
\* served, and parameters and forms are judged by all they can be read as.
THEOREM ExchangeJudges ==
    Spec => [](/\ DeclaredOperationServed /\ ParametersJudged
               /\ EarlyRefusalAgrees /\ FormsJudgedAsSent)
BY ExchangeBodies, BodyHeads, HeadRoutes, OperationsServed, ParametersTheorem,
   EarlyRefusalTheorem, FormsTheorem, PTL

\* The inductive invariant: a mock is one that is made of the response its status has.
MockKept ==
    mock # NoMock =>
        LET response == get_response_for_status(Operation, mock.code) IN
        /\ answer.status = 200 /\ response # NoResponse
        /\ \E config \in MockConfigs : mock.body \in MockBodies(response, config)
        /\ mock.headers \in generate_response_headers(response)

\* A mock stays what it was made of until the next request.
LEMMA MockNext == VerdictsKept /\ MockKept /\ [Next]_vars => MockKept'
<1> SUFFICES ASSUME VerdictsKept, MockKept, [Next]_vars PROVE MockKept' OBVIOUS
<1>1. CASE mock' = NoMock BY <1>1 DEF MockKept
<1>2. CASE UNCHANGED routerVars /\ mock' = mock
  <2>1. Operation' = Operation /\ answer' = answer BY <1>2 DEF routerVars, Operation, Item
  <2>2. QED BY <1>2, <2>1 DEF MockKept
<1>3. CASE SendMock
  <2>1. stage = "mock" /\ UNCHANGED routerVars BY <1>3 DEF SendMock
  <2>2. Operation' = Operation /\ answer' = answer BY <2>1 DEF routerVars, Operation, Item
  <2>3. answer'.status = 200 BY <2>1, <2>2 DEF VerdictsKept
  <2>4. QED BY <1>3, <2>2, <2>3 DEF MockKept, SendMock
<1>4. CASE Route /\ read' = 0 /\ map' = <<>> /\ mock' = NoMock BY <1>1, <1>4
<1>5. CASE (CheckPathTypes \/ CheckPath \/ CheckQuery \/ CheckHeaders) /\ UNCHANGED <<read, map, mock>>
      BY <1>2, <1>5 DEF CheckPathTypes, CheckPath, CheckQuery, CheckHeaders, Judge
<1>6. CASE ReadField /\ UNCHANGED mock BY <1>2, <1>6 DEF ReadField, headVars
<1>7. CASE CheckForm /\ UNCHANGED mock BY <1>2, <1>7 DEF CheckForm, Judge
<1>8. CASE CheckBody BY <1>2, <1>8 DEF CheckBody, Judge
<1>9. CASE SendNoMock BY <1>2, <1>9 DEF SendNoMock
<1>10. CASE Aborted \/ UNCHANGED vars
       BY <1>2, <1>10 DEF Aborted, vars, bodyVars, headVars
<1>11. QED BY <1>3, <1>4, <1>5, <1>6, <1>7, <1>8, <1>9, <1>10 DEF Next

\* What the properties of an exchange rest on.
LEMMA MocksKept == Spec => [](RouterInv /\ DeclaredOperationServed /\ VerdictsKept /\ MockKept)
<1>1. Spec => [](RouterInv /\ DeclaredOperationServed /\ VerdictsKept)
      BY ExchangeBodies, BodyHeads, HeadInvariant, PTL
<1>2. Init => MockKept BY DEF Init, MockKept
<1>3. QED BY <1>1, <1>2, MockNext, PTL DEF Spec

\* Whatever the schemas are, a mock response passes the checks of responses where
\* they say no more than the generator looks at, and the generator panics only over
\* a range that it cannot choose from.
THEOREM MockTheorem == Spec => []MockPassesValidation
<1>1. ASSUME RouterInv, DeclaredOperationServed, VerdictsKept, MockKept, mock # NoMock
      PROVE  MockPassesValidation
  <2> DEFINE response == get_response_for_status(Operation, mock.code)
  <2>1. /\ answer.status = 200 /\ response # NoResponse
        /\ mock.headers \in generate_response_headers(response)
        BY <1>1 DEF MockKept
  <2>2. PICK config \in MockConfigs : mock.body \in MockBodies(response, config)
        BY <1>1 DEF MockKept
  <2>3. Operation \in Operations BY <1>1, <2>1, ServedTyped
  <2>4. PICK code \in DOMAIN Operation.responses : response = Operation.responses[code]
        BY <2>1, <2>3, ResponseTyped
  <2> HIDE DEF response
  <2>5. mock.body = Panic =>
            \E c \in Range(response.content) :
                c.schema # NoSchema /\ \E x \in SchemasIn(Inlined(c.schema)) : Rangeless(x)
        BY <2>2, <2>3, <2>4, BodyPanics
  <2>6. (\A h \in DOMAIN response.headers : Written(response.headers[h])) =>
            ResponseHeadersPass(response, mock.headers)
        BY <2>1, <2>3, <2>4, HeadersPass
  <2>7. ASSUME mock.body \notin Failures,
               Is(mock.body, "json") => Depth(mock.body.json) <= MaxJsonDepth,
               \A c \in Range(response.content) :
                  /\ c.schema # NoSchema /\ \A x \in SchemasIn(Inlined(c.schema)) : Keeps(x)
                  /\ c.example # NoExample => /\ c = find_json_content(response.content)
                                              /\ Accepts(Inlined(c.schema), c.example)
                  /\ "json" \in c.type.words <=> is_json_media_type(c.type)
        PROVE  ResponseBodyPasses(response, mock.body)
        BY <2>2, <2>3, <2>4, <2>7, BodyPasses
  <2>8. QED BY <2>5, <2>6, <2>7 DEF MockPassesValidation, response
<1>2. RouterInv /\ DeclaredOperationServed /\ VerdictsKept /\ MockKept => MockPassesValidation
      BY <1>1 DEF MockPassesValidation
<1>3. QED BY <1>2, MocksKept, PTL
=============================================================================
