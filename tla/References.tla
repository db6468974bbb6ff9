----------------------------- MODULE References -----------------------------
(***************************************************************************)
(* $ref in an OpenAPI document as src/resolver.rs reads it: the components *)
(* by reference, each an alias of another reference or an item, and what a *)
(* reference means.                                                        *)
(*                                                                         *)
(* The meaning is defined without following the reference step by step:    *)
(* from the smallest set of references that holds it and is closed under   *)
(* aliases.                                                                *)
(***************************************************************************)
EXTENDS Naturals, Sequences

CONSTANTS
    Names,      \* the names of components
    Refs,       \* the references that occur
    Documents,  \* the OpenAPI documents examined, by their components
    Questions,  \* what is asked: one of the five functions on a reference
    NoRef       \* no reference: Option::None

\* RefTarget: the five maps of #/components that can be referred to.
Kinds == {"schemas", "parameters", "responses", "requestBodies", "headers"}

\* Other references: an http or https URL, and whatever else does not parse.
Reference == [kind : Kinds \cup {"url", "malformed"}, name : Names]

\* ReferenceOr: alias is what a component refers to, NoRef for an item.  nested
\* are the references within an item in the order they are inlined: properties,
\* items, additionalProperties, oneOf, allOf, anyOf, not.
Component == [alias : Refs \cup {NoRef}, nested : Seq(Refs)]

Question == [kind : Kinds, ref : Refs]

Errors == {"url", "malformed", "type", "missing", "circular"}
Found(r)  == [error |-> "none", found |-> r]
Failed(e) == [error |-> e, found |-> NoRef]
Outcome == {Found(r) : r \in Refs} \cup {Failed(e) : e \in Errors}

ASSUME ReferencesAssumption ==
    /\ Refs \subseteq Reference
    /\ NoRef \notin Reference \cup Question \cup Outcome
    /\ Questions \subseteq Question
    /\ \A c \in Documents : DOMAIN c \subseteq Refs /\ c \in [DOMAIN c -> Component]

\* parse_ref, the comparison of kinds and the lookup, in this order.
Verdict(c, q, r) ==
    CASE r.kind \notin Kinds -> Failed(r.kind)
      [] r.kind \in Kinds \ {q.kind} -> Failed("type")
      [] r.kind = q.kind /\ r \notin DOMAIN c -> Failed("missing")
      [] r.kind = q.kind /\ r \in DOMAIN c -> Found(r)

IsAlias(c, q, r) == r.kind = q.kind /\ r \in DOMAIN c /\ c[r].alias # NoRef

-----------------------------------------------------------------------------
\* The reference definition.

\* S holds what its members are aliases of.
Closed(c, q, S) == \A r \in S : IsAlias(c, q, r) => c[r].alias \in S

\* q.ref and all that it is an alias of.
Reach(c, q) == {r \in Refs : \A S \in SUBSET Refs : q.ref \in S /\ Closed(c, q, S) => r \in S}

Ends(c, q) == {r \in Reach(c, q) : ~IsAlias(c, q, r)}

\* What q.ref stands for: the end of its aliases, or an error.
Meaning == [c \in Documents |-> [q \in Question |->
    LET ends == Ends(c, q) IN
    IF ends = {} THEN Failed("circular") ELSE Verdict(c, q, CHOOSE r \in ends : TRUE)]]
=============================================================================
