------------------------------ MODULE Resolver ------------------------------
(***************************************************************************)
(* RefResolver (src/resolver.rs): every stream resolves references on its  *)
(* own clone, each with its own set of the references being resolved.  A   *)
(* resolution is a native recursion, here a stack of frames; each visit to *)
(* the mutex of the set is a step.  resolve_schema_deep inlines what is    *)
(* nested in a schema, depth first, one resolution after the other.        *)
(***************************************************************************)
EXTENDS References, Functions

CONSTANTS
    Streams,  \* the streams, each with its filter and its clone
    MaxDepth  \* how many nested schemas fit on the native stack

ASSUME ResolverAssumption == MaxDepth \in Nat

VARIABLES
    components,  \* the components of the document: fixed
    resolving,   \* resolving[o]: the set of the clone o
    asked,       \* asked[s]: the question being resolved
    frames,      \* frames[s]: the references s is inside resolve_..._by_ref of
    current,     \* current[s]: the reference about to be looked at
    at,          \* at[s]: where the recursion is
    result,      \* result[s]: what the resolution came to
    root,        \* root[s]: the reference being inlined deeply, NoRef without
    todo,        \* todo[s]: the references left in each schema s is inside of
    outcome,     \* outcome[s]: what the last deep resolution came to
    crashed      \* the stack overflowed: the process is gone

vars == <<components, resolving, asked, frames, current, at, result,
          root, todo, outcome, crashed>>

\* Faulty variant: the clones share one set behind an Arc.
CloneShared(s) == CHOOSE o \in Streams : TRUE

\* Clone: each clone gets a fresh set.
CloneOf(s) == s

Init ==
    /\ components \in Documents
    /\ resolving = [o \in Streams |-> {}]
    /\ asked = [s \in Streams |-> NoRef]
    /\ frames = [s \in Streams |-> <<>>]
    /\ current = [s \in Streams |-> NoRef]
    /\ at = [s \in Streams |-> "idle"]
    /\ result = [s \in Streams |-> NoRef]
    /\ root = [s \in Streams |-> NoRef]
    /\ todo = [s \in Streams |-> <<>>]
    /\ outcome = [s \in Streams |-> "none"]
    /\ crashed = FALSE

Top(seq) == seq[Len(seq)]
Pop(seq) == SubSeq(seq, 1, Len(seq) - 1)

-----------------------------------------------------------------------------
\* Following one reference.

deepSide == <<root, todo, outcome>>

\* Enter resolve_..._by_ref with the reference of the question.
Enter(s, q) ==
    /\ asked' = [asked EXCEPT ![s] = q]
    /\ current' = [current EXCEPT ![s] = q.ref]
    /\ result' = [result EXCEPT ![s] = NoRef]
    /\ at' = [at EXCEPT ![s] = "check"]

\* A call of one of the five public functions on a reference; on an item it
\* returns that item and touches nothing.
Resolve(s, kind) ==
    /\ at[s] = "idle"
    /\ \E q \in Questions : q.kind = kind /\ Enter(s, q)
    /\ root' = [root EXCEPT ![s] = NoRef]
    /\ outcome' = [outcome EXCEPT ![s] = "none"]
    /\ UNCHANGED <<components, resolving, frames, todo, crashed>>

ResolveSchema(s)      == Resolve(s, "schemas")
ResolveParameter(s)   == Resolve(s, "parameters")
ResolveResponse(s)    == Resolve(s, "responses")
ResolveRequestBody(s) == Resolve(s, "requestBodies")
ResolveHeader(s)      == Resolve(s, "headers")

\* The result of the innermost call: the frames under it pass it on.
Conclude(s, o) ==
    /\ result' = [result EXCEPT ![s] = o]
    /\ at' = [at EXCEPT ![s] = "return"]

\* Faulty variant: the guard of a frame lives until the frame returns.
GuardsToReturn(s) == Range(frames[s])

\* The frames that hold the guard of the set while they call on: the block of
\* each visit ends before the call.
Guards(s) == {}

\* The first visit to the mutex.
InProgress(s) == current[s] \in resolving[CloneOf(s)]

CheckCycle(s) ==
    /\ at[s] = "check" /\ Guards(s) = {}
    /\ \/ InProgress(s) /\ Conclude(s, Failed("circular"))
       \/ ~InProgress(s) /\ at' = [at EXCEPT ![s] = "lookup"] /\ UNCHANGED result
    /\ UNCHANGED <<components, resolving, asked, frames, current, deepSide, crashed>>

\* Early return with the error; this reference was not entered into the set.
LookupFails(s) ==
    LET verdict == Verdict(components, asked[s], current[s]) IN
    /\ at[s] = "lookup" /\ verdict.error # "none"
    /\ Conclude(s, verdict)
    /\ UNCHANGED <<components, resolving, asked, frames, current, deepSide, crashed>>

\* The second visit to the mutex, then the item or the call for the alias.
Lookup(s) ==
    LET r == current[s]  target == components[r].alias IN
    /\ at[s] = "lookup" /\ Verdict(components, asked[s], r).error = "none"
    /\ resolving' = [resolving EXCEPT ![CloneOf(s)] = @ \cup {r}]
    /\ frames' = [frames EXCEPT ![s] = Append(@, r)]
    /\ \/ target = NoRef /\ Conclude(s, Found(r)) /\ UNCHANGED current
       \/ /\ target # NoRef
          /\ current' = [current EXCEPT ![s] = target]
          /\ at' = [at EXCEPT ![s] = "check"]
          /\ UNCHANGED result
    /\ UNCHANGED <<components, asked, deepSide, crashed>>

\* Faulty variant: an error returns at once and leaves the reference in the set.
CleanedOnSuccess(s) ==
    IF result[s].error = "none"
    THEN [resolving EXCEPT ![CloneOf(s)] = @ \ {Top(frames[s])}] ELSE resolving

\* The third visit to the mutex: clean up tracking.
Cleaned(s) == [resolving EXCEPT ![CloneOf(s)] = @ \ {Top(frames[s])}]

\* A frame returns to the one below it, with a result or an error.
Unwind(s) ==
    /\ at[s] = "return" /\ frames[s] # <<>>
    /\ resolving' = Cleaned(s)
    /\ frames' = [frames EXCEPT ![s] = Pop(@)]
    /\ UNCHANGED <<components, asked, current, at, result, deepSide, crashed>>

\* The outermost frame has returned to a caller outside of deep resolution.
Answer(s) ==
    /\ at[s] = "return" /\ frames[s] = <<>> /\ root[s] = NoRef
    /\ at' = [at EXCEPT ![s] = "idle"]
    /\ current' = [current EXCEPT ![s] = NoRef]
    /\ UNCHANGED <<components, resolving, asked, frames, result, deepSide, crashed>>

-----------------------------------------------------------------------------
\* Deep resolution.

\* resolve_schema_deep on a reference: it is the one thing to be inlined.
ResolveDeep(s) ==
    /\ at[s] = "idle"
    /\ \E q \in Questions : /\ q.kind = "schemas"
                            /\ root' = [root EXCEPT ![s] = q.ref]
                            /\ todo' = [todo EXCEPT ![s] = << <<q.ref>> >>]
    /\ outcome' = [outcome EXCEPT ![s] = "none"]
    /\ at' = [at EXCEPT ![s] = "walk"]
    /\ UNCHANGED <<components, resolving, asked, frames, current, result, crashed>>

\* The next nested reference of the schema s is inside of.
InlineNext(s) ==
    LET left == Top(todo[s]) IN
    /\ at[s] = "walk" /\ left # <<>>
    /\ Enter(s, [kind |-> "schemas", ref |-> Head(left)])
    /\ todo' = [todo EXCEPT ![s] = Append(Pop(@), Tail(left))]
    /\ UNCHANGED <<components, resolving, frames, root, outcome, crashed>>

\* The schema s is inside of is inlined; the outermost one ends the call.
SchemaInlined(s) ==
    /\ at[s] = "walk" /\ Top(todo[s]) = <<>>
    /\ todo' = [todo EXCEPT ![s] = Pop(@)]
    /\ IF Len(todo[s]) = 1
       THEN /\ at' = [at EXCEPT ![s] = "idle"]
            /\ outcome' = [outcome EXCEPT ![s] = "inlined"]
            /\ current' = [current EXCEPT ![s] = NoRef]
       ELSE UNCHANGED <<at, outcome, current>>
    /\ UNCHANGED <<components, resolving, asked, frames, result, root, crashed>>

\* Faulty variant: only what the outermost schema refers to is inlined.
NestedOnce(s) == IF Len(todo[s]) > 1 THEN <<>> ELSE components[result[s].found].nested

\* What resolve_schema_nested has to inline in the schema just resolved.
Nested(s) == components[result[s].found].nested

DeepReturned(s) == at[s] = "return" /\ frames[s] = <<>> /\ root[s] # NoRef

\* resolve_schema_nested is entered for the schema just resolved.
Descend(s) ==
    /\ DeepReturned(s) /\ result[s].error = "none"
    /\ Len(todo[s]) <= MaxDepth
    /\ todo' = [todo EXCEPT ![s] = Append(@, Nested(s))]
    /\ at' = [at EXCEPT ![s] = "walk"]
    /\ UNCHANGED <<components, resolving, asked, frames, current, result,
                   root, outcome, crashed>>

\* There is no room for another schema on the stack: the process is aborted.
Overflow(s) ==
    /\ DeepReturned(s) /\ result[s].error = "none"
    /\ Len(todo[s]) > MaxDepth
    /\ crashed' = TRUE
    /\ UNCHANGED <<components, resolving, asked, frames, current, at, result, deepSide>>

\* The error leaves all levels at once.
GiveUp(s) ==
    /\ DeepReturned(s) /\ result[s].error # "none"
    /\ todo' = [todo EXCEPT ![s] = <<>>]
    /\ outcome' = [outcome EXCEPT ![s] = result[s].error]
    /\ at' = [at EXCEPT ![s] = "idle"]
    /\ current' = [current EXCEPT ![s] = NoRef]
    /\ UNCHANGED <<components, resolving, asked, frames, result, root, crashed>>

-----------------------------------------------------------------------------

Begin(s) ==
    \/ ResolveSchema(s) \/ ResolveParameter(s) \/ ResolveResponse(s)
    \/ ResolveRequestBody(s) \/ ResolveHeader(s) \/ ResolveDeep(s)

Continue(s) ==
    \/ CheckCycle(s) \/ LookupFails(s) \/ Lookup(s) \/ Unwind(s) \/ Answer(s)
    \/ InlineNext(s) \/ SchemaInlined(s) \/ Descend(s) \/ Overflow(s) \/ GiveUp(s)

\* An aborted process does nothing any more.
Aborted == crashed /\ UNCHANGED vars

Next == \/ ~crashed /\ \E s \in Streams : Begin(s) \/ Continue(s)
        \/ Aborted

Spec == Init /\ [][Next]_vars

\* A thread that has begun a resolution goes on with it.
FairSpec == Spec /\ \A s \in Streams : WF_vars(~crashed /\ Continue(s))

-----------------------------------------------------------------------------
\* Properties

\* A clone tracks exactly the references its own stream is inside of, each of
\* them once: nothing stays behind after an error, and nothing is shared.
TracksOwnChain ==
    \A s \in Streams : resolving[s] = Range(frames[s]) /\ IsInjective(frames[s])

\* A caller sees the result of its question once the outermost frame returned.
Told == [s \in Streams |-> IF at[s] \in {"idle", "walk"} THEN result[s] ELSE NoRef]

\* Every stream is told what its reference stands for in the document: cycles
\* are found, none is found where there is none, and no stream sees another.
Lookups == INSTANCE RefLookup WITH question <- asked, reply <- Told
LookupSpec == Lookups!Spec

SchemaMeaning(c, r) == Meaning[c][[kind |-> "schemas", ref |-> r]]

\* What is nested in the schema that r stands for.
NestedIn(c, r) ==
    LET m == SchemaMeaning(c, r) IN
    IF m.error = "none" THEN Range(c[m.found].nested) ELSE {}

\* What r leads to when it is inlined.
Inlined == [c \in Documents |-> [r \in Refs |->
    LET Whole(S) == \A x \in S : NestedIn(c, x) \subseteq S
    IN  {x \in Refs : \A S \in SUBSET Refs : r \in S /\ Whole(S) => x \in S}]]

\* Some schema that is reached from r contains itself.
Unbounded == [c \in Documents |-> [r \in Refs |->
    \E S \in SUBSET Inlined[c][r] : S # {} /\ \A x \in S : NestedIn(c, x) \cap S # {}]]

\* A schema is inlined only if all it leads to exists and nothing in it contains
\* itself; an error is one of a reference it leads to; and the stack overflows
\* only on a schema that contains itself.
DeepResolutionTold ==
    /\ \A s \in Streams : outcome[s] # "none" =>
          LET errors == {SchemaMeaning(components, x).error : x \in Inlined[components][root[s]]}
          IN  IF outcome[s] = "inlined"
              THEN errors = {"none"} /\ ~Unbounded[components][root[s]]
              ELSE outcome[s] \in errors
    /\ crashed => \E s \in Streams : root[s] # NoRef /\ Unbounded[components][root[s]]

\* Every resolution comes to an end, or to the end of the process.
ResolutionEnds == \A s \in Streams : at[s] # "idle" ~> at[s] = "idle" \/ crashed
=============================================================================
