----------------------------- MODULE MCResolver -----------------------------
(***************************************************************************)
(* Instances of Resolver for TLC: documents with chains, cycles and broken *)
(* references.                                                             *)
(***************************************************************************)
EXTENDS Resolver, TLC

CONSTANTS s1, s2, a, b, c

MCStreams == {s1, s2}
MCNames == {a, b, c}

Ref(kind, name) == [kind |-> kind, name |-> name]
A == Ref("schemas", a)
B == Ref("schemas", b)
C == Ref("schemas", c)
P == Ref("parameters", a)
R == Ref("responses", a)
Url == Ref("url", a)
MCRefs == {A, B, C, P, R, Url}

To(r)  == [alias |-> r, nested |-> <<>>]
Item(refs) == [alias |-> NoRef, nested |-> refs]

\* The other kinds of components: an alias of itself, one of another kind.
Others == (P :> To(P)) @@ (R :> To(P))

Schemas == {
    \* a chain of aliases, a schema used twice, one missing, one by URL
    (A :> To(B)) @@ (B :> To(C)) @@ (C :> Item(<<>>)),
    (A :> Item(<<B, C>>)) @@ (B :> Item(<<C>>)) @@ (C :> Item(<<>>)),
    (A :> Item(<<B>>)) @@ (B :> To(C)),
    (A :> To(B)) @@ (B :> To(P)) @@ (C :> Item(<<Url, A>>)),
    \* circles of aliases
    (A :> To(B)) @@ (B :> To(A)) @@ (C :> To(A)),
    (A :> Item(<<C, B>>)) @@ (B :> To(B)) @@ (C :> Item(<<>>)),
    \* schemas that contain themselves: at once, through another, through an
    \* alias, and behind an error that comes first
    (A :> Item(<<A>>)) @@ (B :> To(A)) @@ (C :> Item(<<>>)),
    (A :> Item(<<C, B>>)) @@ (B :> Item(<<A>>)) @@ (C :> Item(<<>>)),
    (A :> Item(<<B>>)) @@ (B :> To(C)) @@ (C :> Item(<<A>>)),
    (A :> Item(<<Url, B>>)) @@ (B :> Item(<<A>>)) @@ (C :> Item(<<B>>))}

MCDocuments == {d @@ Others : d \in Schemas}

MCQuestions == [kind : {"schemas"}, ref : {A, B, P, Url}]
    \cup {[kind |-> "parameters", ref |-> P], [kind |-> "responses", ref |-> R],
          [kind |-> "requestBodies", ref |-> R], [kind |-> "headers", ref |-> Url]}
=============================================================================
