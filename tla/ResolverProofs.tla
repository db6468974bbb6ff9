--------------------------- MODULE ResolverProofs ---------------------------
(***************************************************************************)
(* Proofs about Resolver: every clone tracks the chain of its own stream,  *)
(* the streams are told what RefLookup promises, and deep resolution tells *)
(* the truth.                                                              *)
(***************************************************************************)
EXTENDS Resolver, FiniteSetTheorems, SequenceTheorems, TLAPS

-----------------------------------------------------------------------------
\* What a reference means, and the chain that leads there.

\* F are the references that were followed from q.ref on the way to x.
Chasing(c, q, F, x) ==
    /\ q \in Question /\ x \in Refs
    /\ q.ref \in F \cup {x}
    /\ \A y \in F : IsAlias(c, q, y) /\ c[y].alias \in F \cup {x}
    /\ F \cup {x} \subseteq Reach(c, q)

LEMMA DocumentTyped ==
    ASSUME NEW c \in Documents, NEW r \in DOMAIN c
    PROVE  r \in Refs /\ c[r].alias \in Refs \cup {NoRef} /\ c[r].nested \in Seq(Refs)
<1>1. DOMAIN c \subseteq Refs /\ c \in [DOMAIN c -> Component] BY ReferencesAssumption
<1>2. c[r] \in Component BY <1>1
<1>3. QED BY <1>1, <1>2 DEF Component

\* Nothing outside of a closed set that holds q.ref is reached.
LEMMA ReachInClosed ==
    ASSUME NEW c, NEW q, NEW S \in SUBSET Refs, q.ref \in S, Closed(c, q, S)
    PROVE  Reach(c, q) \subseteq S
BY DEF Reach

\* What a reached reference is an alias of is reached.
LEMMA ReachFollows ==
    ASSUME NEW c \in Documents, NEW q, NEW r \in Reach(c, q), IsAlias(c, q, r)
    PROVE  c[r].alias \in Reach(c, q)
<1>1. c[r].alias \in Refs BY DocumentTyped DEF IsAlias
<1>2. ASSUME NEW S \in SUBSET Refs, q.ref \in S, Closed(c, q, S)
      PROVE  c[r].alias \in S
  <2>1. r \in S BY <1>2 DEF Reach
  <2>2. QED BY <2>1, <1>2 DEF Closed
<1>3. QED BY <1>1, <1>2 DEF Reach

\* The question itself is where the chase begins.
LEMMA ChaseBegins ==
    ASSUME NEW c, NEW q \in Question PROVE Chasing(c, q, {}, q.ref)
<1>1. q.ref \in Refs BY DEF Question
<1>2. q.ref \in Reach(c, q) BY <1>1 DEF Reach
<1>3. QED BY <1>1, <1>2 DEF Chasing

\* A chase that comes back to where it was is that of a circle.
LEMMA ChaseCircular ==
    ASSUME NEW c \in Documents, NEW q, NEW F, NEW x, Chasing(c, q, F, x), x \in F
    PROVE  Meaning[c][q] = Failed("circular")
<1>1. F \in SUBSET Refs /\ q.ref \in F BY DEF Chasing, Reach
<1>2. Closed(c, q, F) BY DEF Chasing, Closed
<1>3. Reach(c, q) \subseteq F BY <1>1, <1>2, ReachInClosed
<1>4. Ends(c, q) = {} BY <1>3 DEF Ends, Chasing
<1>5. q \in Question BY DEF Chasing
<1>6. QED BY <1>4, <1>5 DEF Meaning

\* A chase that comes to a reference that is no alias has come to the end.
LEMMA ChaseEnds ==
    ASSUME NEW c \in Documents, NEW q, NEW F, NEW x, Chasing(c, q, F, x),
           ~IsAlias(c, q, x)
    PROVE  Meaning[c][q] = Verdict(c, q, x)
<1> DEFINE S == F \cup {x}
<1>1. S \in SUBSET Refs /\ q.ref \in S BY DEF Chasing, Reach
<1>2. Closed(c, q, S) BY DEF Chasing, Closed
<1>3. Reach(c, q) \subseteq S BY <1>1, <1>2, ReachInClosed
<1>4. Ends(c, q) = {x} BY <1>3 DEF Ends, Chasing
<1>5. (CHOOSE r \in {x} : TRUE) = x OBVIOUS
<1>6. q \in Question BY DEF Chasing
<1>7. QED BY <1>4, <1>5, <1>6 DEF Meaning

\* Following an alias goes on with the chase.
LEMMA ChaseFollows ==
    ASSUME NEW c \in Documents, NEW q, NEW F, NEW x, Chasing(c, q, F, x),
           IsAlias(c, q, x)
    PROVE  Chasing(c, q, F \cup {x}, c[x].alias)
<1>1. c[x].alias \in Refs BY DocumentTyped DEF IsAlias
<1>2. c[x].alias \in Reach(c, q) BY ReachFollows DEF Chasing
<1>3. QED BY <1>1, <1>2 DEF Chasing

\* The verdict of a lookup is an outcome; a reference is found in the components
\* of the kind asked for.
LEMMA VerdictTyped ==
    ASSUME NEW c \in Documents, NEW q \in Question, NEW r \in Refs
    PROVE  /\ Verdict(c, q, r) \in Outcome
           /\ Verdict(c, q, r).error = "none" =>
                 r.kind = q.kind /\ r \in DOMAIN c /\ Verdict(c, q, r) = Found(r)
           /\ Verdict(c, q, r).error # "none" => ~IsAlias(c, q, r)
<1>1. r.kind \in Kinds \cup {"url", "malformed"} /\ q.kind \in Kinds
      BY ReferencesAssumption DEF Reference, Question
<1>2. CASE r.kind \notin Kinds
      BY <1>1, <1>2 DEF Verdict, Outcome, Failed, Errors, IsAlias, Found
<1>3. CASE r.kind \in Kinds \ {q.kind}
      BY <1>1, <1>3 DEF Verdict, Outcome, Failed, Errors, IsAlias, Found
<1>4. CASE r.kind = q.kind /\ r \notin DOMAIN c
      BY <1>1, <1>4 DEF Verdict, Outcome, Failed, Errors, IsAlias, Found
<1>5. CASE r.kind = q.kind /\ r \in DOMAIN c
      BY <1>1, <1>5 DEF Verdict, Outcome, Failed, Errors, IsAlias, Found
<1>6. QED BY <1>1, <1>2, <1>3, <1>4, <1>5

\* What a question means is an outcome, and what is found is in the document.
LEMMA MeaningTyped ==
    ASSUME NEW c \in Documents, NEW q \in Question
    PROVE  /\ Meaning[c][q] \in Outcome
           /\ Meaning[c][q].error = "none" => Meaning[c][q].found \in DOMAIN c
<1>1. CASE Ends(c, q) = {}
  <2>1. Meaning[c][q] = Failed("circular") BY <1>1 DEF Meaning
  <2>2. QED BY <2>1 DEF Failed, Outcome, Errors
<1>2. CASE Ends(c, q) # {}
  <2>1. PICK r \in Ends(c, q) : r = CHOOSE x \in Ends(c, q) : TRUE BY <1>2
  <2>2. Meaning[c][q] = Verdict(c, q, r) BY <1>2, <2>1 DEF Meaning
  <2>3. r \in Refs BY DEF Ends, Reach
  <2>4. QED BY <2>2, <2>3, VerdictTyped DEF Found
<1>3. QED BY <1>1, <1>2

-----------------------------------------------------------------------------
\* The stack of frames.

\* A frame is pushed: the reference joins what the stack holds.
LEMMA Pushed ==
    ASSUME NEW stack \in Seq(Refs), NEW x \in Refs, IsInjective(stack),
           x \notin Range(stack)
    PROVE  /\ Append(stack, x) \in Seq(Refs)
           /\ Range(Append(stack, x)) = Range(stack) \cup {x}
           /\ IsInjective(Append(stack, x))
<1> DEFINE longer == Append(stack, x)  n == Len(stack)
<1>1. longer \in Seq(Refs) /\ n \in Nat OBVIOUS
<1>2. DOMAIN stack = 1 .. n /\ DOMAIN longer = 1 .. (n + 1) OBVIOUS
<1>3. \A i \in 1 .. n : longer[i] = stack[i] OBVIOUS
<1>4. longer[n + 1] = x OBVIOUS
<1> HIDE DEF longer, n
<1>5. \A i \in 1 .. (n + 1) : i \in 1 .. n \/ i = n + 1 BY <1>1
<1>6. 1 .. n \subseteq 1 .. (n + 1) /\ n + 1 \in 1 .. (n + 1) BY <1>1
<1>7. Range(longer) = Range(stack) \cup {x}
      BY <1>2, <1>3, <1>4, <1>5, <1>6 DEF Range
<1>8. \A i \in 1 .. n : longer[i] # x BY <1>2, <1>3 DEF Range
<1>9. IsInjective(longer)
      BY <1>2, <1>3, <1>4, <1>5, <1>6, <1>8 DEF IsInjective
<1>10. QED BY <1>1, <1>7, <1>9 DEF longer

\* A frame is popped: its reference leaves what the stack holds.
LEMMA Popped ==
    ASSUME NEW stack \in Seq(Refs), stack # <<>>, IsInjective(stack)
    PROVE  /\ Top(stack) \in Refs
           /\ Pop(stack) \in Seq(Refs)
           /\ Range(Pop(stack)) = Range(stack) \ {Top(stack)}
           /\ IsInjective(Pop(stack))
<1> DEFINE n == Len(stack)  rest == Pop(stack)
<1>1. n \in Nat /\ n # 0 /\ DOMAIN stack = 1 .. n BY EmptySeq
<1>2. n \in 1 .. n /\ n - 1 \in Nat BY <1>1
<1>3. rest \in Seq(Refs) BY <1>1 DEF Pop
<1>4. DOMAIN rest = 1 .. (n - 1) BY <1>1 DEF Pop
<1>5. \A i \in 1 .. (n - 1) : rest[i] = stack[i] BY <1>1 DEF Pop
<1>6. Top(stack) = stack[n] BY DEF Top
<1>7. Top(stack) \in Refs BY <1>2, <1>6
<1> HIDE DEF n, rest
<1>8. \A i \in 1 .. n : i \in 1 .. (n - 1) \/ i = n BY <1>1
<1>9. 1 .. (n - 1) \subseteq 1 .. n /\ n \notin 1 .. (n - 1) BY <1>1
<1>10. \A i \in 1 .. (n - 1) : stack[i] # stack[n]
       BY <1>1, <1>2, <1>9 DEF IsInjective
<1>11. Range(rest) = Range(stack) \ {stack[n]}
       BY <1>1, <1>4, <1>5, <1>8, <1>9, <1>10 DEF Range
<1>12. IsInjective(rest) BY <1>1, <1>4, <1>5, <1>9 DEF IsInjective
<1>13. QED BY <1>3, <1>6, <1>7, <1>11, <1>12 DEF rest

\* Nothing is held by an empty stack.
LEMMA NothingHeld == Range(<<>>) = {} /\ IsInjective(<<>>)
BY DEF Range, IsInjective

-----------------------------------------------------------------------------
\* The invariant.

Places == {"idle", "check", "lookup", "return", "walk"}

\* Every variable has its type.
ResolverTypeOK ==
    /\ components \in Documents
    /\ resolving \in [Streams -> SUBSET Refs]
    /\ asked \in [Streams -> Question \cup {NoRef}]
    /\ frames \in [Streams -> Seq(Refs)]
    /\ current \in [Streams -> Refs \cup {NoRef}]
    /\ at \in [Streams -> Places]
    /\ result \in [Streams -> Outcome \cup {NoRef}]
    /\ root \in [Streams -> Refs \cup {NoRef}]
    /\ todo \in [Streams -> Seq(Seq(Refs))]
    /\ outcome \in [Streams -> {"none", "inlined"} \cup Errors]
    /\ crashed \in BOOLEAN

\* One stream, from what it asked, its set and its stack: while it goes on, the
\* references held are those it followed from the question to the current one;
\* what it returns is what the question means.
Sound(c, q, held, stack, x, pc, res, left) ==
    /\ held = Range(stack) /\ IsInjective(stack)
    /\ pc \in {"idle", "walk"} => stack = <<>> /\ (q = NoRef \/ res # NoRef)
    /\ pc = "walk" => left # <<>>
    /\ pc \in {"check", "lookup"} => Chasing(c, q, held, x)
    /\ pc = "lookup" => x \notin held
    /\ pc = "return" => q \in Question /\ res = Meaning[c][q]

SoundStream(s) == Sound(components, asked[s], resolving[s], frames[s],
                        current[s], at[s], result[s], todo[s])

ResolverInv == ResolverTypeOK /\ \A s \in Streams : SoundStream(s)

\* A step of s touches nothing of another stream.
OthersKept(s) ==
    /\ components' = components
    /\ \A t \in Streams \ {s} :
          /\ asked'[t] = asked[t] /\ resolving'[t] = resolving[t]
          /\ frames'[t] = frames[t] /\ current'[t] = current[t]
          /\ at'[t] = at[t] /\ result'[t] = result[t] /\ todo'[t] = todo[t]

\* It is enough to look at the stream that steps.
LEMMA OneStream ==
    ASSUME ResolverInv, NEW s \in Streams, ResolverTypeOK', OthersKept(s),
           SoundStream(s)'
    PROVE  ResolverInv'
<1>1. ASSUME NEW t \in Streams PROVE SoundStream(t)'
  <2>1. CASE t = s BY <2>1
  <2>2. CASE t # s
    <3>1. SoundStream(t) BY DEF ResolverInv
    <3>2. QED BY <2>2, <3>1 DEF SoundStream, OthersKept
  <2>3. QED BY <2>1, <2>2
<1>2. QED BY <1>1 DEF ResolverInv

\* Every stream begins with nothing asked and nothing held.
LEMMA ResolverBegins == Init => ResolverInv
<1>1. SUFFICES ASSUME Init PROVE ResolverInv OBVIOUS
<1>2. <<>> \in Seq(Refs) /\ <<>> \in Seq(Seq(Refs)) OBVIOUS
<1>3. ResolverTypeOK BY <1>1, <1>2 DEF Init, ResolverTypeOK, Places
<1>4. ASSUME NEW s \in Streams PROVE SoundStream(s)
      BY <1>1, NothingHeld DEF Init, SoundStream, Sound
<1>5. QED BY <1>3, <1>4 DEF ResolverInv

-----------------------------------------------------------------------------
\* Every action keeps the invariant.

\* A question that is asked with nothing held is where a chase begins.
LEMMA EnterKeeps ==
    ASSUME ResolverInv, NEW s \in Streams, NEW q \in Question, Enter(s, q),
           at[s] \in {"idle", "walk"}, ResolverTypeOK',
           UNCHANGED <<components, resolving, frames>>,
           \A t \in Streams \ {s} : todo'[t] = todo[t]
    PROVE  ResolverInv'
<1>1. asked'[s] = q /\ current'[s] = q.ref /\ at'[s] = "check"
      BY DEF Enter, ResolverInv, ResolverTypeOK
<1>2. resolving[s] = {} BY NothingHeld DEF ResolverInv, SoundStream, Sound
<1>3. Chasing(components, q, {}, q.ref) BY ChaseBegins
<1>4. SoundStream(s)'
      BY <1>1, <1>2, <1>3 DEF ResolverInv, SoundStream, Sound
<1>5. OthersKept(s) BY DEF OthersKept, Enter, ResolverInv, ResolverTypeOK
<1>6. QED BY <1>4, <1>5, OneStream

\* A call of one of the five functions.
LEMMA ResolveKeeps ==
    ASSUME ResolverInv, NEW s \in Streams, NEW kind, Resolve(s, kind)
    PROVE  ResolverInv'
<1>1. PICK q \in Questions : q.kind = kind /\ Enter(s, q) BY DEF Resolve
<1>2. q \in Question /\ q.ref \in Refs BY ReferencesAssumption DEF Question
<1>3. ResolverTypeOK'
      BY <1>1, <1>2 DEF Resolve, Enter, ResolverInv, ResolverTypeOK, Places
<1>4. QED BY <1>1, <1>2, <1>3, EnterKeeps DEF Resolve

\* A deep resolution begins.
LEMMA ResolveDeepKeeps ==
    ASSUME ResolverInv, NEW s \in Streams, ResolveDeep(s) PROVE ResolverInv'
<1>1. PICK q \in Questions : /\ root' = [root EXCEPT ![s] = q.ref]
                             /\ todo' = [todo EXCEPT ![s] = << <<q.ref>> >>]
      BY DEF ResolveDeep
<1>2. q.ref \in Refs BY ReferencesAssumption DEF Question
<1>3. << <<q.ref>> >> \in Seq(Seq(Refs)) /\ << <<q.ref>> >> # <<>> BY <1>2
<1>4. ResolverTypeOK'
  <2>1. todo' \in [Streams -> Seq(Seq(Refs))]
        BY <1>1, <1>3 DEF ResolverInv, ResolverTypeOK
  <2>2. QED BY <1>1, <1>2, <2>1 DEF ResolveDeep, ResolverInv, ResolverTypeOK, Places
<1>5. at'[s] = "walk" /\ todo'[s] # <<>> /\ at[s] = "idle"
      BY <1>1, <1>3 DEF ResolveDeep, ResolverInv, ResolverTypeOK
<1>6. SoundStream(s)'
      BY <1>5 DEF ResolveDeep, ResolverInv, SoundStream, Sound
<1>7. OthersKept(s) BY <1>1 DEF OthersKept, ResolveDeep, ResolverInv, ResolverTypeOK
<1>8. QED BY <1>4, <1>6, <1>7, OneStream

\* The next nested reference is resolved.
LEMMA InlineNextKeeps ==
    ASSUME ResolverInv, NEW s \in Streams, InlineNext(s)
    PROVE  /\ ResolverInv'
           /\ [kind |-> "schemas", ref |-> Head(Top(todo[s]))] \in Question
<1> DEFINE levels == todo[s]  left == Top(levels)
           q == [kind |-> "schemas", ref |-> Head(left)]
<1>1. at[s] = "walk" /\ left # <<>> /\ Enter(s, q)
      /\ todo' = [todo EXCEPT ![s] = Append(Pop(levels), Tail(left))]
      /\ UNCHANGED <<components, resolving, frames, root, outcome, crashed>>
      BY DEF InlineNext, ResolverInv, ResolverTypeOK
<1>2. levels \in Seq(Seq(Refs)) /\ levels # <<>>
      BY <1>1 DEF ResolverInv, ResolverTypeOK, SoundStream, Sound
<1> HIDE DEF levels
<1>3. left \in Seq(Refs) /\ Pop(levels) \in Seq(Seq(Refs))
  <2>1. Len(levels) \in Nat \ {0} BY <1>2, EmptySeq
  <2>2. Len(levels) \in 1 .. Len(levels) BY <2>1
  <2>3. QED BY <1>2, <2>1, <2>2 DEF Top, Pop
<1> HIDE DEF left
<1>4. Head(left) \in Refs /\ Tail(left) \in Seq(Refs) BY <1>1, <1>3
<1>5. q \in Question BY <1>4 DEF Question, Kinds
<1>6. Append(Pop(levels), Tail(left)) \in Seq(Seq(Refs)) BY <1>3, <1>4
<1>7. todo' \in [Streams -> Seq(Seq(Refs))]
      BY <1>1, <1>6 DEF ResolverInv, ResolverTypeOK
<1>8. ResolverTypeOK'
      BY <1>1, <1>4, <1>5, <1>7 DEF Enter, ResolverInv, ResolverTypeOK, Places
<1>9. \A t \in Streams \ {s} : todo'[t] = todo[t]
      BY <1>1 DEF ResolverInv, ResolverTypeOK
<1>10. ResolverInv' BY <1>1, <1>5, <1>8, <1>9, EnterKeeps
<1>11. QED BY <1>5, <1>10 DEF left, levels

\* The first visit to the mutex.
LEMMA CheckCycleKeeps ==
    ASSUME ResolverInv, NEW s \in Streams, CheckCycle(s) PROVE ResolverInv'
<1> DEFINE c == components  q == asked[s]  x == current[s]
<1>1. Sound(c, q, resolving[s], frames[s], x, "check", result[s], todo[s])
      /\ Chasing(c, q, resolving[s], x)
      BY DEF CheckCycle, ResolverInv, SoundStream, Sound
<1>2. CloneOf(s) = s BY DEF CloneOf
<1>3. ResolverTypeOK'
  <2>1. Failed("circular") \in Outcome BY DEF Outcome, Errors
  <2>2. \/ at' = [at EXCEPT ![s] = "lookup"] /\ UNCHANGED result
        \/ Conclude(s, Failed("circular"))
        BY DEF CheckCycle
  <2>3. result' \in [Streams -> Outcome \cup {NoRef}] /\ at' \in [Streams -> Places]
        BY <2>1, <2>2 DEF Conclude, ResolverInv, ResolverTypeOK, Places
  <2>4. QED BY <2>3 DEF CheckCycle, deepSide, ResolverInv, ResolverTypeOK
<1>4. OthersKept(s)
      BY DEF OthersKept, CheckCycle, Conclude, deepSide, ResolverInv, ResolverTypeOK
<1>5. CASE InProgress(s)
  <2>1. Meaning[c][q] = Failed("circular")
        BY <1>1, <1>2, <1>5, ChaseCircular DEF InProgress, ResolverInv, ResolverTypeOK
  <2>2. result'[s] = Failed("circular") /\ at'[s] = "return"
        BY <1>5 DEF CheckCycle, Conclude, ResolverInv, ResolverTypeOK
  <2>3. q \in Question BY <1>1 DEF Chasing
  <2>4. SoundStream(s)'
        BY <1>1, <2>1, <2>2, <2>3 DEF CheckCycle, deepSide, SoundStream, Sound
  <2>5. QED BY <1>3, <1>4, <2>4, OneStream
<1>6. CASE ~InProgress(s)
  <2>1. at'[s] = "lookup" /\ x \notin resolving[s]
        BY <1>2, <1>6 DEF CheckCycle, InProgress, ResolverInv, ResolverTypeOK
  <2>2. SoundStream(s)' BY <1>1, <1>6, <2>1 DEF CheckCycle, deepSide, SoundStream, Sound
  <2>3. QED BY <1>3, <1>4, <2>2, OneStream
<1>7. QED BY <1>5, <1>6

\* What is known before the component is looked up.
LEMMA BeforeLookup ==
    ASSUME ResolverInv, NEW s \in Streams, at[s] = "lookup"
    PROVE  /\ Chasing(components, asked[s], resolving[s], current[s])
           /\ components \in Documents /\ asked[s] \in Question /\ current[s] \in Refs
           /\ current[s] \notin resolving[s]
           /\ resolving[s] = Range(frames[s]) /\ IsInjective(frames[s])
           /\ frames[s] \in Seq(Refs)
BY DEF ResolverInv, ResolverTypeOK, SoundStream, Sound, Chasing

\* The lookup ends with an error.
LEMMA LookupFailsKeeps ==
    ASSUME ResolverInv, NEW s \in Streams, LookupFails(s) PROVE ResolverInv'
<1> DEFINE c == components  q == asked[s]  x == current[s]  v == Verdict(c, q, x)
<1>1. at[s] = "lookup" /\ v.error # "none" /\ Conclude(s, v)
      /\ UNCHANGED <<components, resolving, asked, frames, current, deepSide, crashed>>
      BY DEF LookupFails
<1>2. /\ Chasing(c, q, resolving[s], x)
      /\ c \in Documents /\ q \in Question /\ x \in Refs
      /\ resolving[s] = Range(frames[s]) /\ IsInjective(frames[s])
      BY <1>1, BeforeLookup
<1>3. v \in Outcome /\ ~IsAlias(c, q, x) BY <1>1, <1>2, VerdictTyped
<1>4. Meaning[c][q] = v BY <1>2, <1>3, ChaseEnds
<1> HIDE DEF v
<1>5. ResolverTypeOK'
      BY <1>1, <1>3 DEF Conclude, deepSide, ResolverInv, ResolverTypeOK, Places
<1>6. OthersKept(s)
      BY <1>1 DEF OthersKept, Conclude, deepSide, ResolverInv, ResolverTypeOK
<1>7. result'[s] = v /\ at'[s] = "return"
      BY <1>1 DEF Conclude, ResolverInv, ResolverTypeOK
<1>8. SoundStream(s)'
      BY <1>1, <1>2, <1>4, <1>7 DEF deepSide, SoundStream, Sound
<1>9. QED BY <1>5, <1>6, <1>8, OneStream

\* The lookup finds the component and the reference is entered into the set.
LEMMA LookupKeeps ==
    ASSUME ResolverInv, NEW s \in Streams, Lookup(s) PROVE ResolverInv'
<1> DEFINE c == components  q == asked[s]  x == current[s]  target == c[x].alias
<1>1. /\ at[s] = "lookup" /\ Verdict(c, q, x).error = "none"
      /\ resolving' = [resolving EXCEPT ![s] = @ \cup {x}]
      /\ frames' = [frames EXCEPT ![s] = Append(@, x)]
      /\ UNCHANGED <<components, asked, deepSide, crashed>>
      BY DEF Lookup, CloneOf
<1>2. /\ Chasing(c, q, resolving[s], x)
      /\ c \in Documents /\ q \in Question /\ x \in Refs /\ x \notin resolving[s]
      /\ resolving[s] = Range(frames[s]) /\ IsInjective(frames[s])
      /\ frames[s] \in Seq(Refs)
      BY <1>1, BeforeLookup
<1>3. x.kind = q.kind /\ x \in DOMAIN c /\ Verdict(c, q, x) = Found(x)
      BY <1>1, <1>2, VerdictTyped
<1>4. /\ Append(frames[s], x) \in Seq(Refs) /\ IsInjective(Append(frames[s], x))
      /\ Range(Append(frames[s], x)) = resolving[s] \cup {x}
      BY <1>2, Pushed
<1>5. /\ resolving'[s] = resolving[s] \cup {x} /\ frames'[s] = Append(frames[s], x)
      /\ asked'[s] = q /\ todo'[s] = todo[s]
      BY <1>1 DEF deepSide, ResolverInv, ResolverTypeOK
<1>6. /\ resolving' \in [Streams -> SUBSET Refs] /\ frames' \in [Streams -> Seq(Refs)]
      /\ \A t \in Streams \ {s} : resolving'[t] = resolving[t] /\ frames'[t] = frames[t]
      BY <1>1, <1>2, <1>4 DEF ResolverInv, ResolverTypeOK
<1>7. CASE target = NoRef
  <2>1. Conclude(s, Found(x)) /\ UNCHANGED current
    <3>1. \/ target = NoRef /\ Conclude(s, Found(x)) /\ UNCHANGED current
          \/ target # NoRef
          BY DEF Lookup
    <3>2. QED BY <1>7, <3>1
  <2>2. ~IsAlias(c, q, x) BY <1>7 DEF IsAlias
  <2>3. Meaning[c][q] = Found(x) BY <1>2, <1>3, <2>2, ChaseEnds
  <2>4. Found(x) \in Outcome BY <1>2 DEF Outcome
  <2>5. ResolverTypeOK'
        BY <1>1, <1>6, <2>1, <2>4
        DEF Conclude, deepSide, ResolverInv, ResolverTypeOK, Places
  <2>6. OthersKept(s)
        BY <1>1, <1>6, <2>1
        DEF OthersKept, Conclude, deepSide, ResolverInv, ResolverTypeOK
  <2>7. result'[s] = Found(x) /\ at'[s] = "return"
        BY <2>1 DEF Conclude, ResolverInv, ResolverTypeOK
  <2>8. SoundStream(s)'
        BY <1>1, <1>2, <1>4, <1>5, <2>3, <2>7 DEF SoundStream, Sound
  <2>9. QED BY <2>5, <2>6, <2>8, OneStream
<1>8. CASE target # NoRef
  <2>1. /\ current' = [current EXCEPT ![s] = target]
        /\ at' = [at EXCEPT ![s] = "check"] /\ UNCHANGED result
    <3>1. \/ target = NoRef
          \/ /\ current' = [current EXCEPT ![s] = target]
             /\ at' = [at EXCEPT ![s] = "check"] /\ UNCHANGED result
          BY DEF Lookup
    <3>2. QED BY <1>8, <3>1
  <2>2. IsAlias(c, q, x) BY <1>3, <1>8 DEF IsAlias
  <2>3. Chasing(c, q, resolving[s] \cup {x}, target) BY <1>2, <2>2, ChaseFollows
  <2>4. target \in Refs BY <2>3 DEF Chasing
  <2>5. ResolverTypeOK'
        BY <1>1, <1>6, <2>1, <2>4 DEF deepSide, ResolverInv, ResolverTypeOK, Places
  <2>6. OthersKept(s)
        BY <1>1, <1>6, <2>1 DEF OthersKept, deepSide, ResolverInv, ResolverTypeOK
  <2>7. current'[s] = target /\ at'[s] = "check"
        BY <2>1 DEF ResolverInv, ResolverTypeOK
  <2>8. SoundStream(s)'
        BY <1>1, <1>2, <1>4, <1>5, <2>3, <2>7 DEF SoundStream, Sound
  <2>9. QED BY <2>5, <2>6, <2>8, OneStream
<1>9. QED BY <1>7, <1>8

\* A frame returns: its reference leaves the set.
LEMMA UnwindKeeps ==
    ASSUME ResolverInv, NEW s \in Streams, Unwind(s) PROVE ResolverInv'
<1> DEFINE stack == frames[s]
<1>1. /\ at[s] = "return" /\ stack # <<>>
      /\ resolving' = [resolving EXCEPT ![s] = @ \ {Top(stack)}]
      /\ frames' = [frames EXCEPT ![s] = Pop(@)]
      /\ UNCHANGED <<components, asked, current, at, result, deepSide, crashed>>
      BY DEF Unwind, Cleaned, CloneOf
<1>2. /\ stack \in Seq(Refs) /\ IsInjective(stack) /\ resolving[s] = Range(stack)
      BY DEF ResolverInv, ResolverTypeOK, SoundStream, Sound
<1>3. /\ Pop(stack) \in Seq(Refs) /\ IsInjective(Pop(stack))
      /\ Range(Pop(stack)) = Range(stack) \ {Top(stack)}
      BY <1>1, <1>2, Popped
<1>4. /\ resolving'[s] = resolving[s] \ {Top(stack)} /\ frames'[s] = Pop(stack)
      BY <1>1 DEF ResolverInv, ResolverTypeOK
<1>5. ResolverTypeOK'
      BY <1>1, <1>3 DEF deepSide, ResolverInv, ResolverTypeOK
<1>6. OthersKept(s) BY <1>1 DEF OthersKept, deepSide, ResolverInv, ResolverTypeOK
<1>7. SoundStream(s)'
      BY <1>1, <1>2, <1>3, <1>4 DEF deepSide, ResolverInv, SoundStream, Sound
<1>8. QED BY <1>5, <1>6, <1>7, OneStream

\* What is known when the outermost frame has returned.
LEMMA AtReturn ==
    ASSUME ResolverInv, NEW s \in Streams, at[s] = "return"
    PROVE  /\ asked[s] \in Question /\ components \in Documents
           /\ result[s] = Meaning[components][asked[s]]
           /\ result[s] \in Outcome /\ result[s] # NoRef
           /\ result[s].error = "none" => result[s].found \in DOMAIN components
<1>1. /\ asked[s] \in Question /\ components \in Documents
      /\ result[s] = Meaning[components][asked[s]]
      BY DEF ResolverInv, ResolverTypeOK, SoundStream, Sound
<1>2. QED BY <1>1, MeaningTyped, ReferencesAssumption

\* The outermost frame returns to the caller.
LEMMA AnswerKeeps ==
    ASSUME ResolverInv, NEW s \in Streams, Answer(s) PROVE ResolverInv'
<1>1. ResolverTypeOK' BY DEF Answer, deepSide, ResolverInv, ResolverTypeOK, Places
<1>2. OthersKept(s) BY DEF OthersKept, Answer, deepSide, ResolverInv, ResolverTypeOK
<1>3. at'[s] = "idle" /\ result[s] # NoRef
      BY AtReturn DEF Answer, ResolverInv, ResolverTypeOK
<1>4. SoundStream(s)'
      BY <1>3 DEF Answer, deepSide, ResolverInv, SoundStream, Sound
<1>5. QED BY <1>1, <1>2, <1>4, OneStream

\* Nothing is left to inline in the schema s is inside of.
LEMMA SchemaInlinedKeeps ==
    ASSUME ResolverInv, NEW s \in Streams, SchemaInlined(s) PROVE ResolverInv'
<1> DEFINE levels == todo[s]
<1>1. /\ at[s] = "walk"
      /\ todo' = [todo EXCEPT ![s] = Pop(@)]
      /\ UNCHANGED <<components, resolving, asked, frames, result, root, crashed>>
      BY DEF SchemaInlined
<1>2. levels \in Seq(Seq(Refs)) /\ levels # <<>>
      BY <1>1 DEF ResolverInv, ResolverTypeOK, SoundStream, Sound
<1>3. Len(levels) \in Nat \ {0} BY <1>2, EmptySeq
<1>4. Pop(levels) \in Seq(Seq(Refs)) /\ Len(Pop(levels)) = Len(levels) - 1
      BY <1>2, <1>3 DEF Pop
<1>5. todo'[s] = Pop(levels) BY <1>1 DEF ResolverInv, ResolverTypeOK
<1>6. \/ /\ at' = [at EXCEPT ![s] = "idle"]
         /\ outcome' = [outcome EXCEPT ![s] = "inlined"]
         /\ current' = [current EXCEPT ![s] = NoRef]
      \/ Len(levels) # 1 /\ UNCHANGED <<at, outcome, current>>
      BY DEF SchemaInlined
<1>7. todo' \in [Streams -> Seq(Seq(Refs))]
      BY <1>1, <1>4 DEF ResolverInv, ResolverTypeOK
<1>8. ResolverTypeOK'
      BY <1>1, <1>6, <1>7 DEF ResolverInv, ResolverTypeOK, Places
<1>9. OthersKept(s) BY <1>1, <1>6 DEF OthersKept, ResolverInv, ResolverTypeOK
<1>10. at'[s] \in {"idle", "walk"}
       BY <1>1, <1>6 DEF ResolverInv, ResolverTypeOK
<1>11. ASSUME at'[s] = "walk" PROVE todo'[s] # <<>>
  <2>1. Len(levels) # 1 BY <1>6, <1>11 DEF ResolverInv, ResolverTypeOK
  <2>2. Len(Pop(levels)) # 0 BY <2>1, <1>3, <1>4
  <2>3. Pop(levels) # <<>> BY <2>2
  <2>4. QED BY <1>5, <2>3
<1>12. SoundStream(s)'
       BY <1>1, <1>10, <1>11 DEF ResolverInv, SoundStream, Sound
<1>13. QED BY <1>8, <1>9, <1>12, OneStream

\* What is nested in the schema found is inlined next.
LEMMA DescendKeeps ==
    ASSUME ResolverInv, NEW s \in Streams, Descend(s) PROVE ResolverInv'
<1>1. at[s] = "return" /\ frames[s] = <<>> /\ result[s].error = "none"
      BY DEF Descend, DeepReturned
<1>2. result[s].found \in DOMAIN components /\ components \in Documents
      /\ result[s] # NoRef
      BY <1>1, AtReturn
<1>3. Nested(s) \in Seq(Refs) BY <1>2, DocumentTyped DEF Nested
<1>4. todo[s] \in Seq(Seq(Refs)) BY DEF ResolverInv, ResolverTypeOK
<1> DEFINE levels == todo[s]  refs == Nested(s)
<1> HIDE DEF levels, refs
<1>5. Append(levels, refs) \in Seq(Seq(Refs)) /\ Append(levels, refs) # <<>>
  <2>1. levels \in Seq(Seq(Refs)) /\ refs \in Seq(Refs) BY <1>3, <1>4 DEF levels, refs
  <2>2. Append(levels, refs) \in Seq(Seq(Refs)) BY <2>1
  <2>3. Len(Append(levels, refs)) = Len(levels) + 1 /\ Len(levels) \in Nat BY <2>1
  <2>4. Len(Append(levels, refs)) # 0 BY <2>3
  <2>5. Append(levels, refs) # <<>> BY <2>2, <2>4, EmptySeq
  <2>6. QED BY <2>2, <2>5
<1>6. todo' = [todo EXCEPT ![s] = Append(@, Nested(s))]
      /\ at' = [at EXCEPT ![s] = "walk"]
      /\ UNCHANGED <<components, resolving, asked, frames, current, result,
                     root, outcome, crashed>>
      BY DEF Descend
<1>7. todo' \in [Streams -> Seq(Seq(Refs))]
      BY <1>5, <1>6 DEF levels, refs, ResolverInv, ResolverTypeOK
<1>8. ResolverTypeOK' BY <1>6, <1>7 DEF ResolverInv, ResolverTypeOK, Places
<1>9. OthersKept(s) BY <1>6 DEF OthersKept, ResolverInv, ResolverTypeOK
<1>10. at'[s] = "walk" /\ todo'[s] # <<>>
       BY <1>5, <1>6 DEF levels, refs, ResolverInv, ResolverTypeOK
<1>11. SoundStream(s)'
       BY <1>1, <1>2, <1>6, <1>10 DEF ResolverInv, SoundStream, Sound
<1>12. QED BY <1>8, <1>9, <1>11, OneStream

\* The stack overflows.
LEMMA OverflowKeeps ==
    ASSUME ResolverInv, NEW s \in Streams, Overflow(s) PROVE ResolverInv'
<1>1. ResolverTypeOK' BY DEF Overflow, deepSide, ResolverInv, ResolverTypeOK
<1>2. ASSUME NEW t \in Streams PROVE SoundStream(t)'
      BY DEF Overflow, deepSide, ResolverInv, SoundStream
<1>3. QED BY <1>1, <1>2 DEF ResolverInv

\* An error ends the deep resolution.
LEMMA GiveUpKeeps ==
    ASSUME ResolverInv, NEW s \in Streams, GiveUp(s) PROVE ResolverInv'
<1>1. at[s] = "return" /\ frames[s] = <<>> /\ result[s].error # "none"
      BY DEF GiveUp, DeepReturned
<1>2. result[s] # NoRef /\ result[s] \in Outcome BY <1>1, AtReturn
<1>3. result[s].error \in Errors BY <1>1, <1>2 DEF Outcome, Found, Failed
<1>4. <<>> \in Seq(Seq(Refs)) OBVIOUS
<1>5. ResolverTypeOK'
      BY <1>3, <1>4 DEF GiveUp, ResolverInv, ResolverTypeOK, Places
<1>6. OthersKept(s) BY DEF OthersKept, GiveUp, ResolverInv, ResolverTypeOK
<1>7. at'[s] = "idle" BY DEF GiveUp, ResolverInv, ResolverTypeOK
<1>8. SoundStream(s)'
      BY <1>1, <1>2, <1>7 DEF GiveUp, ResolverInv, SoundStream, Sound
<1>9. QED BY <1>5, <1>6, <1>8, OneStream

\* A step that changes nothing keeps the invariant.
LEMMA StutterKeeps == ASSUME ResolverInv, UNCHANGED vars PROVE ResolverInv'
<1>1. ResolverTypeOK' BY DEF vars, ResolverInv, ResolverTypeOK
<1>2. ASSUME NEW t \in Streams PROVE SoundStream(t)'
      BY DEF vars, ResolverInv, SoundStream
<1>3. QED BY <1>1, <1>2 DEF ResolverInv

\* Every step keeps the invariant.
LEMMA ResolverStep == ResolverInv /\ [Next]_vars => ResolverInv'
<1>1. SUFFICES ASSUME ResolverInv, [Next]_vars PROVE ResolverInv' OBVIOUS
<1>2. CASE UNCHANGED vars BY <1>1, <1>2, StutterKeeps
<1>3. ASSUME NEW s \in Streams, Begin(s) PROVE ResolverInv'
  <2>1. CASE ResolveDeep(s) BY <1>1, <2>1, ResolveDeepKeeps
  <2>2. CASE ~ResolveDeep(s)
        BY <1>1, <1>3, <2>2, ResolveKeeps
        DEF Begin, ResolveSchema, ResolveParameter, ResolveResponse,
            ResolveRequestBody, ResolveHeader
  <2>3. QED BY <2>1, <2>2
<1>4. ASSUME NEW s \in Streams, Continue(s) PROVE ResolverInv'
  <2>1. CASE CheckCycle(s) BY <1>1, <2>1, CheckCycleKeeps
  <2>2. CASE LookupFails(s) BY <1>1, <2>2, LookupFailsKeeps
  <2>3. CASE Lookup(s) BY <1>1, <2>3, LookupKeeps
  <2>4. CASE Unwind(s) BY <1>1, <2>4, UnwindKeeps
  <2>5. CASE Answer(s) BY <1>1, <2>5, AnswerKeeps
  <2>6. CASE InlineNext(s) BY <1>1, <2>6, InlineNextKeeps
  <2>7. CASE SchemaInlined(s) BY <1>1, <2>7, SchemaInlinedKeeps
  <2>8. CASE Descend(s) BY <1>1, <2>8, DescendKeeps
  <2>9. CASE Overflow(s) BY <1>1, <2>9, OverflowKeeps
  <2>10. CASE GiveUp(s) BY <1>1, <2>10, GiveUpKeeps
  <2>11. QED BY <1>4, <2>1, <2>2, <2>3, <2>4, <2>5, <2>6, <2>7, <2>8, <2>9, <2>10
             DEF Continue
<1>5. QED BY <1>1, <1>2, <1>3, <1>4 DEF Next, Aborted

\* The invariant holds in every reachable state.
LEMMA ResolverInvariant == Spec => []ResolverInv
BY ResolverBegins, ResolverStep, PTL DEF Spec

\* A clone of the resolver (src/resolver.rs Clone, resolve_*_by_ref) tracks
\* exactly the references its own stream is inside of, each of them once: a
\* reference leaves the set with its frame, with a result or an error, whatever
\* other streams resolve at the time.
THEOREM ChainTracked == Spec => []TracksOwnChain
<1>1. ResolverInv => TracksOwnChain
      BY DEF ResolverInv, SoundStream, Sound, TracksOwnChain
<1>2. QED BY <1>1, ResolverInvariant, PTL

-----------------------------------------------------------------------------
\* The refinement.

\* Asking is the step that enters a resolution.
LEMMA EnterAsks ==
    ASSUME ResolverInv, ResolverInv', NEW s \in Streams, NEW q \in Question,
           Enter(s, q), at[s] \in {"idle", "walk"}, UNCHANGED components
    PROVE  Lookups!Ask(s)
<1>1. asked[s] = NoRef \/ Told[s] # NoRef
      BY DEF Told, ResolverInv, SoundStream, Sound
<1>2. asked' = [asked EXCEPT ![s] = q] BY DEF Enter
<1>3. Told' = [Told EXCEPT ![s] = NoRef]
      BY DEF Enter, Told, ResolverInv, ResolverTypeOK
<1>4. q \in Lookups!Question BY DEF Question, Lookups!Question, Kinds, Lookups!Kinds
<1>5. QED BY <1>1, <1>2, <1>3, <1>4 DEF Lookups!Ask

\* What is meant is the same in both modules.
LEMMA SameMeaning == Lookups!Meaning = Meaning
BY DEF Lookups!Meaning, Meaning, Lookups!Question, Question, Lookups!Kinds, Kinds,
       Lookups!Ends, Ends, Lookups!Reach, Reach, Lookups!Closed, Closed,
       Lookups!IsAlias, IsAlias, Lookups!Verdict, Verdict,
       Lookups!Failed, Failed, Lookups!Found, Found

\* Leaving the outermost frame is telling.
LEMMA ReturnTells ==
    ASSUME ResolverInv, NEW s \in Streams, NEW place \in {"idle", "walk"},
           at[s] = "return", at' = [at EXCEPT ![s] = place],
           UNCHANGED <<components, asked, result>>
    PROVE  Lookups!Tell(s)
<1>1. asked[s] # NoRef /\ Told[s] = NoRef /\ result[s] = Meaning[components][asked[s]]
      BY AtReturn, ReferencesAssumption DEF Told
<1>2. Told' = [Told EXCEPT ![s] = result[s]]
      BY DEF Told, ResolverInv, ResolverTypeOK
<1>3. QED BY <1>1, <1>2, SameMeaning DEF Lookups!Tell

\* A step within a resolution tells nobody anything.
LEMMA WithinSilent ==
    ASSUME ResolverInv, NEW s \in Streams,
           CheckCycle(s) \/ LookupFails(s) \/ Lookup(s) \/ Unwind(s)
           \/ SchemaInlined(s) \/ Overflow(s) \/ ResolveDeep(s) \/ UNCHANGED vars
    PROVE  UNCHANGED <<components, asked, Told>>
<1>1. CASE CheckCycle(s) \/ LookupFails(s)
      BY <1>1 DEF CheckCycle, LookupFails, Conclude, Told, ResolverInv, ResolverTypeOK
<1>2. CASE Lookup(s)
      BY <1>2 DEF Lookup, Conclude, Told, ResolverInv, ResolverTypeOK
<1>3. CASE Unwind(s) \/ Overflow(s) \/ UNCHANGED vars
      BY <1>3 DEF Unwind, Overflow, vars, Told
<1>4. CASE SchemaInlined(s) \/ ResolveDeep(s)
      BY <1>4 DEF SchemaInlined, ResolveDeep, Told, ResolverInv, ResolverTypeOK
<1>5. QED BY <1>1, <1>2, <1>3, <1>4

\* Every step of a stream asks, tells or is silent.
LEMMA StreamImplements ==
    ASSUME ResolverInv, ResolverInv', NEW s \in Streams, Begin(s) \/ Continue(s)
    PROVE  Lookups!Ask(s) \/ Lookups!Tell(s) \/ UNCHANGED <<components, asked, Told>>
<1>1. CASE Begin(s) /\ ~ResolveDeep(s)
  <2>1. PICK kind \in Kinds : Resolve(s, kind)
        BY <1>1 DEF Begin, ResolveSchema, ResolveParameter, ResolveResponse,
                    ResolveRequestBody, ResolveHeader, Kinds
  <2>2. PICK q \in Questions : Enter(s, q) BY <2>1 DEF Resolve
  <2>3. q \in Question BY ReferencesAssumption
  <2>4. at[s] = "idle" /\ UNCHANGED components BY <2>1 DEF Resolve
  <2>5. QED BY <2>2, <2>3, <2>4, EnterAsks
<1>2. CASE InlineNext(s)
  <2> DEFINE q == [kind |-> "schemas", ref |-> Head(Top(todo[s]))]
  <2>1. q \in Question BY <1>2, InlineNextKeeps
  <2>2. Enter(s, q) /\ at[s] = "walk" /\ UNCHANGED components BY <1>2 DEF InlineNext
  <2>3. QED BY <2>1, <2>2, EnterAsks
<1>3. CASE Answer(s) BY <1>3, ReturnTells DEF Answer
<1>4. CASE Descend(s) BY <1>4, ReturnTells DEF Descend, DeepReturned
<1>5. CASE GiveUp(s) BY <1>5, ReturnTells DEF GiveUp, DeepReturned
<1>6. CASE CheckCycle(s) \/ LookupFails(s) \/ Lookup(s) \/ Unwind(s)
           \/ SchemaInlined(s) \/ Overflow(s) \/ ResolveDeep(s)
      BY <1>6, WithinSilent
<1>7. QED BY <1>1, <1>2, <1>3, <1>4, <1>5, <1>6 DEF Begin, Continue

\* The initial states are initial states of the promise.
LEMMA BeginImplements == Init => Lookups!Init
BY DEF Init, Lookups!Init, Told

\* The resolvers of src/resolver.rs implement what RefLookup promises: every
\* stream is told what its reference stands for in the document, an item or the
\* error, and a cycle exactly when there is one, however the streams interleave.
THEOREM ResolverImplementsLookup == Spec => LookupSpec
<1>1. ResolverInv /\ ResolverInv' /\ [Next]_vars => [Lookups!Next]_(Lookups!vars)
  <2>1. SUFFICES ASSUME ResolverInv, ResolverInv', [Next]_vars
                 PROVE  [Lookups!Next]_(Lookups!vars)
        OBVIOUS
  <2>2. CASE UNCHANGED vars
        BY <2>1, <2>2 DEF Lookups!vars, vars, Told
  <2>3. ASSUME NEW s \in Streams, Begin(s) \/ Continue(s)
        PROVE  [Lookups!Next]_(Lookups!vars)
        BY <2>1, <2>3, StreamImplements DEF Lookups!Next, Lookups!vars
  <2>4. QED BY <2>1, <2>2, <2>3 DEF Next, Aborted
<1>2. QED BY <1>1, BeginImplements, ResolverInvariant, PTL
          DEF Spec, LookupSpec, Lookups!Spec

-----------------------------------------------------------------------------
\* Deep resolution: what is inlined and what is left.

\* Everything in D exists, leads to D only, and nothing in it contains itself.
Settled(c, D) ==
    /\ \A x \in D : SchemaMeaning(c, x).error = "none" /\ NestedIn(c, x) \subseteq D
    /\ \A S \in SUBSET D : S # {} => \E x \in S : NestedIn(c, x) \cap S = {}

\* What the i-th level has to inline: path holds the schemas being inlined.
Needed(c, r, path, i) == IF i = 1 THEN {r} ELSE NestedIn(c, path[i - 1])

\* What of it is left or being inlined.
Open(levels, path, i) ==
    Range(levels[i]) \cup (IF i \in DOMAIN path THEN {path[i]} ELSE {})

\* On the way through all that r leads to, D is done.
Walking(c, r, levels, path, D) ==
    /\ levels # <<>> /\ Settled(c, D)
    /\ Range(path) \subseteq Inlined[c][r]
    /\ \A i \in DOMAIN levels :
          /\ Needed(c, r, path, i) \subseteq D \cup Open(levels, path, i)
          /\ Open(levels, path, i) \subseteq Needed(c, r, path, i)
          /\ i # 1 => SchemaMeaning(c, path[i - 1]).error = "none"

\* What a schema that exists nests are references.
LEMMA NestedTyped ==
    ASSUME NEW c \in Documents, NEW x \in Refs PROVE NestedIn(c, x) \subseteq Refs
<1> DEFINE m == SchemaMeaning(c, x)
<1>1. CASE m.error # "none" BY <1>1 DEF NestedIn
<1>2. CASE m.error = "none"
  <2>1. [kind |-> "schemas", ref |-> x] \in Question BY DEF Question, Kinds
  <2>2. m.found \in DOMAIN c BY <1>2, <2>1, MeaningTyped DEF SchemaMeaning
  <2>3. c[m.found].nested \in Seq(Refs) BY <2>2, DocumentTyped
  <2>4. NestedIn(c, x) = Range(c[m.found].nested) BY <1>2 DEF NestedIn
  <2>5. QED BY <2>3, <2>4 DEF Range
<1>3. QED BY <1>1, <1>2

\* A schema leads to itself and to all that is nested in what it leads to.
LEMMA InlinedWhole ==
    ASSUME NEW c \in Documents, NEW r \in Refs
    PROVE  /\ r \in Inlined[c][r] /\ Inlined[c][r] \subseteq Refs
           /\ \A x \in Inlined[c][r] : NestedIn(c, x) \subseteq Inlined[c][r]
           /\ \A S \in SUBSET Refs :
                 r \in S /\ (\A x \in S : NestedIn(c, x) \subseteq S) => Inlined[c][r] \subseteq S
<1> DEFINE Whole(S) == \A x \in S : NestedIn(c, x) \subseteq S
<1>1. Inlined[c][r] = {x \in Refs : \A S \in SUBSET Refs : r \in S /\ Whole(S) => x \in S}
      BY DEF Inlined
<1>2. ASSUME NEW x \in Inlined[c][r], NEW y \in NestedIn(c, x) PROVE y \in Inlined[c][r]
  <2>1. x \in Refs BY <1>1
  <2>2. y \in Refs BY <2>1, NestedTyped
  <2>3. ASSUME NEW S \in SUBSET Refs, r \in S, Whole(S) PROVE y \in S
    <3>1. x \in S BY <1>1, <2>3
    <3>2. QED BY <2>3, <3>1
  <2>4. QED BY <1>1, <2>2, <2>3
<1>3. QED BY <1>1, <1>2

\* All that is needed is what r leads to.
LEMMA NeededInlined ==
    ASSUME NEW c \in Documents, NEW r \in Refs, NEW levels \in Seq(Seq(Refs)),
           NEW path \in Seq(Refs), NEW D, Walking(c, r, levels, path, D),
           NEW i \in DOMAIN levels, i = 1 \/ i - 1 \in DOMAIN path
    PROVE  Needed(c, r, path, i) \subseteq Inlined[c][r]
<1>1. CASE i = 1 BY <1>1, InlinedWhole DEF Needed
<1>2. CASE i # 1
  <2>1. path[i - 1] \in Inlined[c][r] BY <1>2 DEF Walking, Range
  <2>2. QED BY <1>2, <2>1, InlinedWhole DEF Needed
<1>3. QED BY <1>1, <1>2

\* A schema all of whose nested references are settled can be settled.
LEMMA SettleOne ==
    ASSUME NEW c, NEW D, Settled(c, D), NEW x, SchemaMeaning(c, x).error = "none",
           NestedIn(c, x) \subseteq D
    PROVE  Settled(c, D \cup {x})
<1>1. CASE x \in D
  <2>1. D \cup {x} = D BY <1>1
  <2>2. QED BY <2>1
<1>2. CASE x \notin D
  <2>1. ASSUME NEW S \in SUBSET (D \cup {x}), S # {}
        PROVE  \E y \in S : NestedIn(c, y) \cap S = {}
    <3>1. CASE S \subseteq {x} BY <1>2, <2>1, <3>1
    <3>2. CASE ~(S \subseteq {x})
      <4>1. S \ {x} \in SUBSET D /\ S \ {x} # {} BY <3>2
      <4>2. PICK y \in S \ {x} : NestedIn(c, y) \cap (S \ {x}) = {} BY <4>1 DEF Settled
      <4>3. NestedIn(c, y) \subseteq D BY <4>1, <4>2 DEF Settled
      <4>4. QED BY <1>2, <4>2, <4>3
    <3>3. QED BY <3>1, <3>2
  <2>2. QED BY <2>1 DEF Settled
<1>3. QED BY <1>1, <1>2

\* When r is settled, all it leads to is whole and contains itself nowhere.
LEMMA SettledWhole ==
    ASSUME NEW c \in Documents, NEW r \in Refs, NEW D \in SUBSET Refs, Settled(c, D), r \in D
    PROVE  /\ {SchemaMeaning(c, x).error : x \in Inlined[c][r]} = {"none"}
           /\ ~Unbounded[c][r]
<1>1. Inlined[c][r] \subseteq D BY InlinedWhole DEF Settled
<1>2. \A x \in Inlined[c][r] : SchemaMeaning(c, x).error = "none" BY <1>1 DEF Settled
<1>3. r \in Inlined[c][r] BY InlinedWhole
<1>4. ~Unbounded[c][r] BY <1>1 DEF Settled, Unbounded
<1>5. QED BY <1>2, <1>3, <1>4

\* A path longer than there are references comes to one of them twice, which
\* contains itself.
LEMMA LongPathUnbounded ==
    ASSUME NEW c \in Documents, NEW r \in Refs, NEW path \in Seq(Refs),
           Range(path) \subseteq Inlined[c][r],
           \A i \in DOMAIN path : i # 1 => path[i] \in NestedIn(c, path[i - 1]),
           IsFiniteSet(Refs), Len(path) > Cardinality(Refs)
    PROVE  Unbounded[c][r]
<1> DEFINE n == Len(path)
<1>1. n \in Nat /\ DOMAIN path = 1 .. n /\ path \in [1 .. n -> Refs] OBVIOUS
<1>2. Cardinality(Refs) \in Nat BY FS_CardinalityType
<1>3. IsFiniteSet(1 .. n) /\ Cardinality(1 .. n) = n
  <2>1. 1 \in Int /\ n \in Int BY <1>1
  <2>2. IsFiniteSet(1 .. n) /\ Cardinality(1 .. n) = IF 1 > n THEN 0 ELSE n - 1 + 1
        BY <2>1, FS_Interval
  <2>3. QED BY <1>1, <2>2
<1>4. \E i, j \in 1 .. n : i # j /\ path[i] = path[j]
      BY <1>1, <1>2, <1>3, FS_PigeonHole
<1>5. PICK i \in 1 .. n, j \in 1 .. n : i < j /\ path[i] = path[j]
  <2>1. PICK k \in 1 .. n, l \in 1 .. n : k # l /\ path[k] = path[l] BY <1>4
  <2>2. k < l \/ l < k BY <2>1, <1>1
  <2>3. QED BY <2>1, <2>2
<1> DEFINE S == {path[k] : k \in i .. (j - 1)}
<1>6. i .. (j - 1) \subseteq 1 .. n BY <1>1, <1>5
<1>7. S \in SUBSET Inlined[c][r] BY <1>1, <1>6 DEF Range
<1>8. path[i] \in S
  <2>1. i \in i .. (j - 1) BY <1>1, <1>5
  <2>2. QED BY <2>1
<1>9. ASSUME NEW x \in S PROVE NestedIn(c, x) \cap S # {}
  <2>1. PICK k \in i .. (j - 1) : x = path[k] OBVIOUS
  <2>2. k + 1 \in 1 .. n /\ k + 1 # 1 /\ (k + 1) - 1 = k BY <1>1, <1>5, <2>1
  <2>3. path[k + 1] \in NestedIn(c, path[k]) BY <1>1, <2>2
  <2>4. k + 1 \in i .. (j - 1) \/ k + 1 = j BY <1>1, <1>5, <2>1
  <2>5. path[k + 1] \in S
    <3>1. CASE k + 1 \in i .. (j - 1) BY <3>1
    <3>2. CASE k + 1 = j BY <1>5, <1>8, <3>2
    <3>3. QED BY <2>4, <3>1, <3>2
  <2>6. QED BY <2>1, <2>3, <2>5
<1> HIDE DEF S
<1>10. QED BY <1>7, <1>8, <1>9 DEF Unbounded

\* A list is its head and its tail.
LEMMA HeadAndTail ==
    ASSUME NEW list \in Seq(Refs), list # <<>>
    PROVE  /\ Head(list) \in Refs /\ Tail(list) \in Seq(Refs)
           /\ Range(list) = {Head(list)} \cup Range(Tail(list))
<1> DEFINE n == Len(list)  rest == Tail(list)
<1>1. n \in Nat \ {0} /\ DOMAIN list = 1 .. n BY EmptySeq
<1>2. /\ rest \in Seq(Refs) /\ DOMAIN rest = 1 .. (n - 1)
      /\ \A i \in 1 .. (n - 1) : rest[i] = list[i + 1]
      BY <1>1
<1>3. Head(list) = list[1] /\ 1 \in 1 .. n BY <1>1
<1> HIDE DEF n, rest
<1>4. ASSUME NEW x \in Range(list) PROVE x \in {Head(list)} \cup Range(rest)
  <2>1. PICK i \in 1 .. n : x = list[i] BY <1>1 DEF Range
  <2>2. CASE i = 1 BY <1>3, <2>1, <2>2
  <2>3. CASE i # 1
    <3>1. i - 1 \in 1 .. (n - 1) /\ (i - 1) + 1 = i BY <1>1, <2>1, <2>3
    <3>2. rest[i - 1] = x BY <1>2, <2>1, <3>1
    <3>3. QED BY <1>2, <3>1, <3>2 DEF Range
  <2>4. QED BY <2>2, <2>3
<1>5. Range(rest) \subseteq Range(list)
  <2>1. \A i \in 1 .. (n - 1) : i + 1 \in 1 .. n BY <1>1
  <2>2. QED BY <1>1, <1>2, <2>1 DEF Range
<1>6. Head(list) \in Range(list) /\ Head(list) \in Refs BY <1>1, <1>3 DEF Range
<1>7. QED BY <1>2, <1>4, <1>5, <1>6 DEF rest

\* The levels with one more at their end.
LEMMA Appended ==
    ASSUME NEW levels \in Seq(Seq(Refs)), NEW refs \in Seq(Refs)
    PROVE  /\ Append(levels, refs) # <<>>
           /\ DOMAIN Append(levels, refs) = 1 .. (Len(levels) + 1)
           /\ Append(levels, refs)[Len(levels) + 1] = refs
           /\ \A i \in 1 .. Len(levels) : Append(levels, refs)[i] = levels[i]
<1> DEFINE lists == Seq(Refs)
<1>1. levels \in Seq(lists) /\ refs \in lists OBVIOUS
<1> HIDE DEF lists
<1>2. Append(levels, refs) \in Seq(lists) /\ Len(Append(levels, refs)) = Len(levels) + 1
      /\ Len(levels) \in Nat
      BY <1>1
<1>3. Append(levels, refs) # <<>>
  <2>1. Len(Append(levels, refs)) # 0 BY <1>2
  <2>2. QED BY <1>2, <2>1, EmptySeq
<1>4. DOMAIN Append(levels, refs) = 1 .. (Len(levels) + 1) BY <1>2
<1>5. Append(levels, refs)[Len(levels) + 1] = refs BY <1>1
<1>6. \A i \in 1 .. Len(levels) : Append(levels, refs)[i] = levels[i] BY <1>1
<1>7. QED BY <1>3, <1>4, <1>5, <1>6

\* The way begins with what is asked for.
LEMMA WalkBegins ==
    ASSUME NEW c \in Documents, NEW r \in Refs
    PROVE  Walking(c, r, << <<r>> >>, <<>>, {})
<1>1. Range(<<r>>) = {r} /\ Range(<<>>) = {} BY DEF Range
<1>2. DOMAIN << <<r>> >> = {1} /\ << <<r>> >>[1] = <<r>> /\ << <<r>> >> # <<>> OBVIOUS
<1>3. Settled(c, {}) BY DEF Settled
<1>4. 1 \notin DOMAIN <<>> OBVIOUS
<1>5. Needed(c, r, <<>>, 1) = {r} BY DEF Needed
<1>6. Open(<< <<r>> >>, <<>>, 1) = {r} BY <1>1, <1>2, <1>4 DEF Open
<1>7. QED BY <1>1, <1>2, <1>3, <1>5, <1>6 DEF Walking

\* The next reference of the innermost level is taken.
LEMMA WalkTakes ==
    ASSUME NEW c \in Documents, NEW r \in Refs, NEW levels \in Seq(Seq(Refs)),
           NEW path \in Seq(Refs), NEW D, Walking(c, r, levels, path, D),
           Len(path) = Len(levels) - 1, NEW left, left = Top(levels), left # <<>>
    PROVE  /\ Append(path, Head(left)) \in Seq(Refs)
           /\ Walking(c, r, Append(Pop(levels), Tail(left)), Append(path, Head(left)), D)
<1> DEFINE n == Len(levels)  further == Append(path, Head(left))
           after == Append(Pop(levels), Tail(left))
<1>1. n \in Nat \ {0} /\ DOMAIN levels = 1 .. n BY EmptySeq DEF Walking
<1>2. n \in 1 .. n /\ left = levels[n] /\ left \in Seq(Refs) BY <1>1 DEF Top
<1>3. /\ Head(left) \in Refs /\ Tail(left) \in Seq(Refs)
      /\ Range(left) = {Head(left)} \cup Range(Tail(left))
      BY <1>2, HeadAndTail
<1>4. DOMAIN path = 1 .. (n - 1) BY <1>1
<1>5. /\ further \in Seq(Refs) /\ DOMAIN further = 1 .. n /\ further[n] = Head(left)
      /\ \A i \in 1 .. (n - 1) : further[i] = path[i]
      BY <1>1, <1>3
<1>6. Pop(levels) \in Seq(Seq(Refs)) /\ Len(Pop(levels)) = n - 1
      /\ \A i \in 1 .. (n - 1) : Pop(levels)[i] = levels[i]
      BY <1>1 DEF Pop
<1>7. /\ DOMAIN after = 1 .. n /\ after[n] = Tail(left) /\ after # <<>>
      /\ \A i \in 1 .. (n - 1) : after[i] = levels[i]
  <2> DEFINE front == Pop(levels)  rest == Tail(left)
  <2>1. front \in Seq(Seq(Refs)) /\ rest \in Seq(Refs) /\ Len(front) = n - 1 BY <1>3, <1>6
  <2>2. (n - 1) + 1 = n BY <1>1
  <2> HIDE DEF front, rest, n
  <2>3. /\ Append(front, rest) # <<>> /\ DOMAIN Append(front, rest) = 1 .. n
        /\ Append(front, rest)[n] = rest
        /\ \A i \in 1 .. (n - 1) : Append(front, rest)[i] = front[i]
    <3>1. Len(front) + 1 = n BY <2>1, <2>2
    <3>2. /\ Append(front, rest) # <<>>
          /\ DOMAIN Append(front, rest) = 1 .. (Len(front) + 1)
          /\ Append(front, rest)[Len(front) + 1] = rest
          /\ \A i \in 1 .. Len(front) : Append(front, rest)[i] = front[i]
          BY <2>1, Appended
    <3>3. QED BY <2>1, <3>1, <3>2
  <2>4. QED BY <1>6, <2>3 DEF front, rest
<1> HIDE DEF n, further, after
<1>8. \A i \in 1 .. n : i = n \/ (i \in 1 .. (n - 1) /\ i # n) BY <1>1
<1>9. n \notin 1 .. (n - 1) BY <1>1
<1>10. ASSUME NEW i \in 1 .. n
       PROVE  /\ Open(after, further, i) = Open(levels, path, i)
              /\ Needed(c, r, further, i) = Needed(c, r, path, i)
              /\ i # 1 => further[i - 1] = path[i - 1]
  <2>1. i # 1 => i - 1 \in 1 .. (n - 1) BY <1>1
  <2>2. i # 1 => further[i - 1] = path[i - 1] BY <1>5, <2>1
  <2>3. Needed(c, r, further, i) = Needed(c, r, path, i) BY <2>2 DEF Needed
  <2>4. CASE i = n
    <3>1. after[i] = Tail(left) /\ levels[i] = left /\ further[i] = Head(left)
          BY <1>2, <1>5, <1>7, <2>4
    <3>2. i \in DOMAIN further /\ i \notin DOMAIN path BY <1>4, <1>5, <1>9, <2>4
    <3>3. QED BY <1>3, <2>2, <2>3, <3>1, <3>2 DEF Open
  <2>5. CASE i # n
    <3>1. after[i] = levels[i] /\ further[i] = path[i] BY <1>5, <1>7, <1>8, <2>5
    <3>2. i \in DOMAIN further /\ i \in DOMAIN path BY <1>4, <1>5, <1>8, <2>5
    <3>3. QED BY <2>2, <2>3, <3>1, <3>2 DEF Open
  <2>6. QED BY <2>2, <2>3, <2>4, <2>5
<1>11. Range(further) = Range(path) \cup {Head(left)}
  <2>1. ASSUME NEW y \in Range(further) PROVE y \in Range(path) \cup {Head(left)}
    <3>1. PICK i \in 1 .. n : y = further[i] BY <1>5 DEF Range
    <3>2. CASE i = n BY <1>5, <3>1, <3>2
    <3>3. CASE i # n BY <1>4, <1>5, <1>8, <3>1, <3>3 DEF Range
    <3>4. QED BY <3>2, <3>3
  <2>2. Head(left) \in Range(further) BY <1>2, <1>5 DEF Range
  <2>3. Range(path) \subseteq Range(further)
    <3>1. 1 .. (n - 1) \subseteq 1 .. n BY <1>1
    <3>2. QED BY <1>4, <1>5, <3>1 DEF Range
  <2>4. QED BY <2>1, <2>2, <2>3
<1>12. Head(left) \in Inlined[c][r]
  <2>1. Head(left) \in Open(levels, path, n) BY <1>2, <1>3 DEF Open
  <2>2. n = 1 \/ n - 1 \in DOMAIN path BY <1>1, <1>4
  <2>3. Needed(c, r, path, n) \subseteq Inlined[c][r] BY <1>1, <1>2, <2>2, NeededInlined
  <2>4. QED BY <1>1, <1>2, <2>1, <2>3 DEF Walking
<1>13. Walking(c, r, after, further, D)
       BY <1>1, <1>7, <1>10, <1>11, <1>12 DEF Walking
<1>14. QED BY <1>5, <1>13 DEF after, further

\* The schema that was resolved opens a level with what it nests.
LEMMA WalkEnters ==
    ASSUME NEW c \in Documents, NEW r \in Refs, NEW levels \in Seq(Seq(Refs)),
           NEW path \in Seq(Refs), NEW D, Walking(c, r, levels, path, D),
           Len(path) = Len(levels), SchemaMeaning(c, Top(path)).error = "none",
           NEW refs \in Seq(Refs), Range(refs) = NestedIn(c, Top(path))
    PROVE  Walking(c, r, Append(levels, refs), path, D)
<1> DEFINE n == Len(levels)  after == Append(levels, refs)
<1>1. n \in Nat \ {0} /\ DOMAIN levels = 1 .. n /\ DOMAIN path = 1 .. n
      BY EmptySeq DEF Walking
<1>2. Top(path) = path[n] BY DEF Top
<1>3. /\ DOMAIN after = 1 .. (n + 1) /\ after[n + 1] = refs /\ after # <<>>
      /\ \A i \in 1 .. n : after[i] = levels[i]
      BY Appended
<1> HIDE DEF n, after
<1>4. \A i \in 1 .. (n + 1) : i \in 1 .. n \/ i = n + 1 BY <1>1
<1>5. \A i \in 1 .. n : Open(after, path, i) = Open(levels, path, i) BY <1>3 DEF Open
<1>6. n + 1 \notin 1 .. n /\ n + 1 # 1 /\ (n + 1) - 1 = n BY <1>1
<1>7. Open(after, path, n + 1) = NestedIn(c, path[n])
      BY <1>1, <1>2, <1>3, <1>6 DEF Open
<1>8. Needed(c, r, path, n + 1) = NestedIn(c, path[n]) BY <1>6 DEF Needed
<1>9. QED BY <1>1, <1>2, <1>3, <1>4, <1>5, <1>6, <1>7, <1>8 DEF Walking, after

\* A level with nothing left is closed and its schema settled.
LEMMA WalkLeaves ==
    ASSUME NEW c \in Documents, NEW r \in Refs, NEW levels \in Seq(Seq(Refs)),
           NEW path \in Seq(Refs), NEW D \in SUBSET Refs, Walking(c, r, levels, path, D),
           Len(path) = Len(levels) - 1, Top(levels) = <<>>, Len(levels) # 1
    PROVE  /\ Pop(path) \in Seq(Refs) /\ D \cup {Top(path)} \in SUBSET Refs
           /\ Len(Pop(path)) = Len(Pop(levels)) - 1
           /\ Walking(c, r, Pop(levels), Pop(path), D \cup {Top(path)})
<1> DEFINE n == Len(levels)  m == n - 1  x == Top(path)
           back == Pop(path)  after == Pop(levels)
<1>1. n \in Nat \ {0} /\ DOMAIN levels = 1 .. n BY EmptySeq DEF Walking
<1>2. m \in Nat \ {0} /\ n = m + 1 /\ DOMAIN path = 1 .. m BY <1>1
<1>3. x = path[m] /\ x \in Refs BY <1>2 DEF Top
<1>4. /\ back \in Seq(Refs) /\ DOMAIN back = 1 .. (m - 1) /\ Len(back) = m - 1
      /\ \A i \in 1 .. (m - 1) : back[i] = path[i]
      BY <1>2 DEF Pop
<1>5. /\ after \in Seq(Seq(Refs)) /\ DOMAIN after = 1 .. m /\ Len(after) = m
      /\ \A i \in 1 .. m : after[i] = levels[i]
      BY <1>1, <1>2 DEF Pop
<1>6. after # <<>> BY <1>2, <1>5
<1>7. levels[n] = <<>> BY DEF Top
<1> HIDE DEF n, m, x, back, after
<1>8. n \in 1 .. n /\ n # 1 /\ n - 1 = m /\ n \notin 1 .. m BY <1>2
<1>9. SchemaMeaning(c, x).error = "none" BY <1>1, <1>3, <1>8 DEF Walking
<1>10. NestedIn(c, x) \subseteq D
  <2>1. Needed(c, r, path, n) = NestedIn(c, x) BY <1>3, <1>8 DEF Needed
  <2>2. Open(levels, path, n) = {} BY <1>2, <1>7, <1>8, NothingHeld DEF Open
  <2>3. QED BY <1>1, <1>8, <2>1, <2>2 DEF Walking
<1>11. Settled(c, D \cup {x}) BY <1>9, <1>10, SettleOne DEF Walking
<1>12. Range(back) \subseteq Range(path)
  <2>1. 1 .. (m - 1) \subseteq 1 .. m BY <1>2
  <2>2. QED BY <1>2, <1>4, <2>1 DEF Range
<1>13. ASSUME NEW i \in 1 .. m
       PROVE  /\ Needed(c, r, back, i) = Needed(c, r, path, i)
              /\ i # 1 => back[i - 1] = path[i - 1]
              /\ Open(after, back, i) \subseteq Open(levels, path, i)
              /\ Open(levels, path, i) \subseteq Open(after, back, i) \cup {x}
  <2>1. i # 1 => i - 1 \in 1 .. (m - 1) BY <1>2
  <2>2. i # 1 => back[i - 1] = path[i - 1] BY <1>4, <2>1
  <2>3. i = m \/ i \in 1 .. (m - 1) BY <1>2
  <2>4. m \notin 1 .. (m - 1) BY <1>2
  <2>5. CASE i = m
    <3>1. after[i] = levels[i] /\ path[i] = x BY <1>3, <1>5, <2>5
    <3>2. i \in DOMAIN path /\ i \notin DOMAIN back BY <1>2, <1>4, <2>4, <2>5
    <3>3. QED BY <2>2, <3>1, <3>2 DEF Open, Needed
  <2>6. CASE i # m
    <3>1. after[i] = levels[i] /\ back[i] = path[i] BY <1>4, <1>5, <2>3, <2>6
    <3>2. i \in DOMAIN path /\ i \in DOMAIN back BY <1>2, <1>4, <2>3, <2>6
    <3>3. QED BY <2>2, <3>1, <3>2 DEF Open, Needed
  <2>7. QED BY <2>2, <2>5, <2>6 DEF Needed
<1>14. 1 .. m \subseteq 1 .. n BY <1>2
<1>15. Walking(c, r, after, back, D \cup {x})
  <2>1. Range(back) \subseteq Inlined[c][r] BY <1>12 DEF Walking
  <2>2. ASSUME NEW i \in 1 .. m
        PROVE  /\ Needed(c, r, back, i) \subseteq (D \cup {x}) \cup Open(after, back, i)
               /\ Open(after, back, i) \subseteq Needed(c, r, back, i)
               /\ i # 1 => SchemaMeaning(c, back[i - 1]).error = "none"
        BY <1>1, <1>13, <1>14 DEF Walking
  <2>3. QED BY <1>5, <1>6, <1>11, <2>1, <2>2 DEF Walking
<1>16. QED BY <1>3, <1>4, <1>5, <1>15 DEF x, back, after

\* When nothing is left in the outermost level, what was asked for is settled.
LEMMA WalkEnds ==
    ASSUME NEW c \in Documents, NEW r \in Refs, NEW levels \in Seq(Seq(Refs)),
           NEW path \in Seq(Refs), NEW D, Walking(c, r, levels, path, D),
           Len(path) = Len(levels) - 1, Top(levels) = <<>>, Len(levels) = 1
    PROVE  r \in D
<1>1. 1 \in DOMAIN levels /\ levels[1] = <<>> /\ 1 \notin DOMAIN path BY DEF Top
<1>2. Open(levels, path, 1) = {} BY <1>1, NothingHeld DEF Open
<1>3. QED BY <1>1, <1>2 DEF Walking, Needed

\* Every schema of the path is nested in the one before it.
LEMMA PathNested ==
    ASSUME NEW c \in Documents, NEW r \in Refs, NEW levels \in Seq(Seq(Refs)),
           NEW path \in Seq(Refs), NEW D, Walking(c, r, levels, path, D),
           Len(path) = Len(levels), NEW i \in DOMAIN path, i # 1
    PROVE  path[i] \in NestedIn(c, path[i - 1])
<1>1. i \in DOMAIN levels OBVIOUS
<1>2. path[i] \in Open(levels, path, i) BY DEF Open
<1>3. QED BY <1>1, <1>2 DEF Walking, Needed

\* What a deep resolution came to, as DeepResolutionTold has it.
ToldDeep(c, r, o) ==
    LET errors == {SchemaMeaning(c, x).error : x \in Inlined[c][r]}
    IN  IF o = "inlined" THEN errors = {"none"} /\ ~Unbounded[c][r] ELSE o \in errors

\* One stream: while it inlines, it is on the way through all that its root leads
\* to, at the last schema of its path when it resolves one; nothing is told
\* before the end, and then the truth.
Walks(c, r, levels, pc, q, o) ==
    /\ o # "none" => pc = "idle" /\ r \in Refs /\ ToldDeep(c, r, o)
    /\ pc = "walk" => r # NoRef
    /\ pc # "idle" /\ r # NoRef =>
          \E path \in Seq(Refs), D \in SUBSET Refs :
              /\ Walking(c, r, levels, path, D)
              /\ pc = "walk" => Len(path) = Len(levels) - 1
              /\ pc # "walk" => /\ Len(path) = Len(levels)
                                /\ q = [kind |-> "schemas", ref |-> Top(path)]

WalkStream(s) == Walks(components, root[s], todo[s], at[s], asked[s], outcome[s])

\* The process is aborted only by a schema that contains itself.
CrashExplained == crashed => \E s \in Streams : root[s] # NoRef /\ Unbounded[components][root[s]]

\* A step of s leaves the deep resolution of others alone.
OthersWalk(s) ==
    /\ components' = components
    /\ \A t \in Streams \ {s} :
          /\ root'[t] = root[t] /\ todo'[t] = todo[t] /\ at'[t] = at[t]
          /\ asked'[t] = asked[t] /\ outcome'[t] = outcome[t]

\* It is enough to look at the stream that steps.
LEMMA OneWalk ==
    ASSUME \A t \in Streams : WalkStream(t), NEW s \in Streams, OthersWalk(s),
           WalkStream(s)'
    PROVE  \A t \in Streams : WalkStream(t)'
<1>1. ASSUME NEW t \in Streams, t # s PROVE WalkStream(t)'
      BY <1>1 DEF WalkStream, OthersWalk
<1>2. QED BY <1>1

\* A call that does not inline begins.
LEMMA ResolveWalks ==
    ASSUME ResolverInv, NEW s \in Streams, NEW kind, Resolve(s, kind)
    PROVE  OthersWalk(s) /\ WalkStream(s)'
<1>1. OthersWalk(s)
      BY DEF OthersWalk, Resolve, Enter, ResolverInv, ResolverTypeOK
<1>2. at'[s] = "check" /\ root'[s] = NoRef /\ outcome'[s] = "none"
      BY DEF Resolve, Enter, ResolverInv, ResolverTypeOK
<1>3. QED BY <1>1, <1>2 DEF WalkStream, Walks

\* A deep resolution begins.
LEMMA ResolveDeepWalks ==
    ASSUME ResolverInv, NEW s \in Streams, ResolveDeep(s)
    PROVE  OthersWalk(s) /\ WalkStream(s)'
<1>1. PICK q \in Questions : /\ root' = [root EXCEPT ![s] = q.ref]
                             /\ todo' = [todo EXCEPT ![s] = << <<q.ref>> >>]
      BY DEF ResolveDeep
<1>2. q.ref \in Refs /\ q.ref # NoRef BY ReferencesAssumption DEF Question
<1>3. OthersWalk(s)
      BY <1>1 DEF OthersWalk, ResolveDeep, ResolverInv, ResolverTypeOK
<1>4. /\ at'[s] = "walk" /\ outcome'[s] = "none" /\ root'[s] = q.ref
      /\ todo'[s] = << <<q.ref>> >> /\ components' = components /\ components \in Documents
      BY <1>1 DEF ResolveDeep, ResolverInv, ResolverTypeOK
<1>5. Walking(components, q.ref, << <<q.ref>> >>, <<>>, {}) BY <1>2, <1>4, WalkBegins
<1>6. <<>> \in Seq(Refs) /\ Len(<<>>) = Len(<< <<q.ref>> >>) - 1 OBVIOUS
<1> DEFINE levels == << <<q.ref>> >>  none == <<>>
<1>7. /\ Walking(components, q.ref, levels, none, {}) /\ todo'[s] = levels
      /\ none \in Seq(Refs) /\ Len(none) = Len(levels) - 1
      BY <1>4, <1>5, <1>6
<1> HIDE DEF levels, none
<1>8. WalkStream(s)' BY <1>2, <1>4, <1>7 DEF WalkStream, Walks
<1>9. QED BY <1>3, <1>8

\* The next nested reference is taken up.
LEMMA InlineNextWalks ==
    ASSUME ResolverInv, NEW s \in Streams, WalkStream(s), InlineNext(s)
    PROVE  OthersWalk(s) /\ WalkStream(s)'
<1> DEFINE c == components  r == root[s]  levels == todo[s]  left == Top(levels)
           after == Append(Pop(levels), Tail(left))
           q == [kind |-> "schemas", ref |-> Head(left)]
<1>1. /\ at[s] = "walk" /\ left # <<>> /\ Enter(s, q)
      /\ todo' = [todo EXCEPT ![s] = after]
      /\ UNCHANGED <<components, resolving, frames, root, outcome, crashed>>
      BY DEF InlineNext, ResolverInv, ResolverTypeOK
<1>2. c \in Documents /\ levels \in Seq(Seq(Refs)) /\ r \in Refs
      BY <1>1 DEF ResolverInv, ResolverTypeOK, WalkStream, Walks
<1>3. outcome[s] = "none" BY <1>1 DEF WalkStream, Walks
<1>4. PICK path \in Seq(Refs), D \in SUBSET Refs :
         Walking(c, r, levels, path, D) /\ Len(path) = Len(levels) - 1
      BY <1>1 DEF WalkStream, Walks
<1>5. OthersWalk(s) BY <1>1 DEF OthersWalk, Enter, ResolverInv, ResolverTypeOK
<1>6. /\ at'[s] = "check" /\ asked'[s] = q /\ todo'[s] = after
      /\ root'[s] = r /\ outcome'[s] = "none" /\ components' = c
      BY <1>1, <1>3 DEF Enter, ResolverInv, ResolverTypeOK
<1> DEFINE further == Append(path, Head(left))
<1>7. further \in Seq(Refs) /\ Walking(c, r, after, further, D)
      BY <1>1, <1>2, <1>4, WalkTakes
<1>8. Len(further) = Len(after) /\ Top(further) = Head(left)
  <2>1. Len(levels) \in Nat \ {0} BY <1>2, <1>4, EmptySeq DEF Walking
  <2>2. left \in Seq(Refs)
    <3>1. Len(levels) \in 1 .. Len(levels) BY <2>1
    <3>2. QED BY <1>2, <3>1 DEF Top
  <2>3. Head(left) \in Refs /\ Tail(left) \in Seq(Refs) BY <1>1, <2>2, HeadAndTail
  <2>4. Pop(levels) \in Seq(Seq(Refs)) /\ Len(Pop(levels)) = Len(levels) - 1
        BY <1>2, <2>1 DEF Pop
  <2>5. Len(after) = Len(levels)
    <3> DEFINE front == Pop(levels)  rest == Tail(left)
    <3>1. front \in Seq(Seq(Refs)) /\ rest \in Seq(Refs) /\ Len(front) = Len(levels) - 1
          BY <2>3, <2>4
    <3> HIDE DEF front, rest, levels
    <3>2. Len(Append(front, rest)) = Len(front) + 1 BY <3>1
    <3>3. QED BY <2>1, <3>1, <3>2 DEF front, rest
  <2>6. Len(further) = Len(path) + 1 /\ further[Len(path) + 1] = Head(left)
        BY <2>3
  <2>7. Len(path) + 1 = Len(levels) BY <1>4, <2>1
  <2>8. QED BY <2>5, <2>6, <2>7 DEF Top
<1> HIDE DEF c, r, after, further, left, levels, q
<1>9. q = [kind |-> "schemas", ref |-> Top(further)] BY <1>8 DEF q
<1>10. WalkStream(s)' BY <1>6, <1>7, <1>8, <1>9 DEF WalkStream, Walks
<1>11. QED BY <1>5, <1>10

\* A schema is inlined, or all of them.
LEMMA SchemaInlinedWalks ==
    ASSUME ResolverInv, NEW s \in Streams, WalkStream(s), SchemaInlined(s)
    PROVE  OthersWalk(s) /\ WalkStream(s)'
<1> DEFINE c == components  r == root[s]  levels == todo[s]
<1>1. /\ at[s] = "walk" /\ Top(levels) = <<>>
      /\ todo' = [todo EXCEPT ![s] = Pop(@)]
      /\ UNCHANGED <<components, resolving, asked, frames, result, root, crashed>>
      BY DEF SchemaInlined
<1>2. \/ /\ Len(levels) = 1
         /\ at' = [at EXCEPT ![s] = "idle"]
         /\ outcome' = [outcome EXCEPT ![s] = "inlined"]
      \/ Len(levels) # 1 /\ UNCHANGED <<at, outcome>>
      BY DEF SchemaInlined
<1>3. c \in Documents /\ levels \in Seq(Seq(Refs)) /\ r \in Refs
      BY <1>1 DEF ResolverInv, ResolverTypeOK, WalkStream, Walks
<1>4. PICK path \in Seq(Refs), D \in SUBSET Refs :
         Walking(c, r, levels, path, D) /\ Len(path) = Len(levels) - 1
      BY <1>1 DEF WalkStream, Walks
<1>5. OthersWalk(s) BY <1>1, <1>2 DEF OthersWalk, ResolverInv, ResolverTypeOK
<1>6. todo'[s] = Pop(levels) /\ root'[s] = r /\ components' = c
      BY <1>1 DEF ResolverInv, ResolverTypeOK
<1>7. CASE Len(levels) = 1
  <2>1. r \in D BY <1>1, <1>3, <1>4, <1>7, WalkEnds
  <2>2. Settled(c, D) BY <1>4 DEF Walking
  <2>3. ToldDeep(c, r, "inlined") BY <1>3, <2>1, <2>2, SettledWhole DEF ToldDeep
  <2>4. at'[s] = "idle" /\ outcome'[s] = "inlined"
        BY <1>2, <1>7 DEF ResolverInv, ResolverTypeOK
  <2> HIDE DEF c, r, levels
  <2>5. WalkStream(s)' BY <1>3, <1>6, <2>3, <2>4 DEF WalkStream, Walks
  <2>6. QED BY <1>5, <2>5
<1>8. CASE Len(levels) # 1
  <2>1. at'[s] = "walk" /\ outcome'[s] = "none"
    <3>1. outcome[s] = "none" BY <1>1 DEF WalkStream, Walks
    <3>2. QED BY <1>1, <1>2, <1>8, <3>1
  <2>2. /\ Pop(path) \in Seq(Refs) /\ D \cup {Top(path)} \in SUBSET Refs
        /\ Len(Pop(path)) = Len(Pop(levels)) - 1
        /\ Walking(c, r, Pop(levels), Pop(path), D \cup {Top(path)})
        BY <1>1, <1>3, <1>4, <1>8, WalkLeaves
  <2>3. r # NoRef BY <1>1 DEF WalkStream, Walks
  <2> DEFINE back == Pop(path)  more == D \cup {Top(path)}  after == Pop(levels)
  <2>4. /\ back \in Seq(Refs) /\ more \in SUBSET Refs /\ Len(back) = Len(after) - 1
        /\ Walking(c, r, after, back, more) /\ todo'[s] = after
        BY <1>6, <2>2
  <2> HIDE DEF c, r, levels, back, more, after
  <2>5. WalkStream(s)' BY <1>6, <2>1, <2>3, <2>4 DEF WalkStream, Walks
  <2>6. QED BY <1>5, <2>5
<1>9. QED BY <1>7, <1>8

\* A step within one resolution.
LEMMA WithinWalks ==
    ASSUME ResolverInv, NEW s \in Streams, WalkStream(s),
           CheckCycle(s) \/ LookupFails(s) \/ Lookup(s) \/ Unwind(s)
    PROVE  OthersWalk(s) /\ WalkStream(s)'
<1>1. /\ UNCHANGED <<components, asked, root, todo, outcome>>
      /\ at[s] \notin {"idle", "walk"} /\ at'[s] \notin {"idle", "walk"}
      /\ \A t \in Streams \ {s} : at'[t] = at[t]
  <2>1. CASE CheckCycle(s) \/ LookupFails(s)
        BY <2>1 DEF CheckCycle, LookupFails, Conclude, deepSide, ResolverInv, ResolverTypeOK
  <2>2. CASE Lookup(s)
        BY <2>2 DEF Lookup, Conclude, deepSide, ResolverInv, ResolverTypeOK
  <2>3. CASE Unwind(s) BY <2>3 DEF Unwind, deepSide
  <2>4. QED BY <2>1, <2>2, <2>3
<1>2. OthersWalk(s) BY <1>1 DEF OthersWalk
<1>3. outcome[s] = "none" BY <1>1 DEF WalkStream, Walks
<1>4. WalkStream(s)' BY <1>1, <1>3 DEF WalkStream, Walks
<1>5. QED BY <1>2, <1>4

\* A resolution outside of deep resolution returns.
LEMMA AnswerWalks ==
    ASSUME ResolverInv, NEW s \in Streams, WalkStream(s), Answer(s)
    PROVE  OthersWalk(s) /\ WalkStream(s)'
<1>1. /\ UNCHANGED <<components, asked, root, todo, outcome>>
      /\ at[s] = "return" /\ at'[s] = "idle"
      /\ \A t \in Streams \ {s} : at'[t] = at[t]
      BY DEF Answer, deepSide, ResolverInv, ResolverTypeOK
<1>2. outcome[s] = "none" BY <1>1 DEF WalkStream, Walks
<1>3. QED BY <1>1, <1>2 DEF OthersWalk, WalkStream, Walks

\* What is known when a nested reference has been resolved.
LEMMA DeepReturn ==
    ASSUME ResolverInv, NEW s \in Streams, WalkStream(s), DeepReturned(s)
    PROVE  /\ outcome[s] = "none" /\ root[s] \in Refs /\ root[s] # NoRef
           /\ components \in Documents /\ todo[s] \in Seq(Seq(Refs))
           /\ result[s] # NoRef /\ result[s] \in Outcome
           /\ result[s].error = "none" => result[s].found \in DOMAIN components
           /\ \E path \in Seq(Refs), D \in SUBSET Refs :
                 /\ Walking(components, root[s], todo[s], path, D)
                 /\ Len(path) = Len(todo[s])
                 /\ result[s] = SchemaMeaning(components, Top(path))
                 /\ Top(path) \in Inlined[components][root[s]]
<1>1. at[s] = "return" /\ root[s] # NoRef BY DEF DeepReturned
<1>2. /\ root[s] \in Refs /\ components \in Documents /\ todo[s] \in Seq(Seq(Refs))
      /\ outcome[s] = "none"
      BY <1>1 DEF ResolverInv, ResolverTypeOK, WalkStream, Walks
<1>3. PICK path \in Seq(Refs), D \in SUBSET Refs :
         /\ Walking(components, root[s], todo[s], path, D) /\ Len(path) = Len(todo[s])
         /\ asked[s] = [kind |-> "schemas", ref |-> Top(path)]
      BY <1>1 DEF WalkStream, Walks
<1>4. result[s] = SchemaMeaning(components, Top(path))
      BY <1>1, <1>3, AtReturn DEF SchemaMeaning
<1>5. Top(path) \in Inlined[components][root[s]]
  <2>1. Len(todo[s]) \in Nat \ {0} BY <1>2, <1>3, EmptySeq DEF Walking
  <2>2. Len(path) \in DOMAIN path BY <1>3, <2>1
  <2>3. Top(path) \in Range(path) BY <2>2 DEF Top, Range
  <2>4. QED BY <1>3, <2>3 DEF Walking
<1>6. QED BY <1>1, <1>2, <1>3, <1>4, <1>5, AtReturn

\* The schema found is entered.
LEMMA DescendWalks ==
    ASSUME ResolverInv, NEW s \in Streams, WalkStream(s), Descend(s)
    PROVE  OthersWalk(s) /\ WalkStream(s)'
<1> DEFINE c == components  r == root[s]  levels == todo[s]  refs == Nested(s)
<1>1. /\ DeepReturned(s) /\ result[s].error = "none"
      /\ todo' = [todo EXCEPT ![s] = Append(@, refs)]
      /\ at' = [at EXCEPT ![s] = "walk"]
      /\ UNCHANGED <<components, resolving, asked, frames, current, result,
                     root, outcome, crashed>>
      BY DEF Descend
<1>2. /\ outcome[s] = "none" /\ r \in Refs /\ r # NoRef /\ c \in Documents
      /\ levels \in Seq(Seq(Refs)) /\ result[s].found \in DOMAIN c
      BY <1>1, DeepReturn
<1>3. PICK path \in Seq(Refs), D \in SUBSET Refs :
         /\ Walking(c, r, levels, path, D) /\ Len(path) = Len(levels)
         /\ result[s] = SchemaMeaning(c, Top(path))
      BY <1>1, DeepReturn
<1>4. refs \in Seq(Refs) BY <1>2, DocumentTyped DEF Nested
<1>5. Range(refs) = NestedIn(c, Top(path)) BY <1>1, <1>3 DEF Nested, NestedIn
<1>6. OthersWalk(s) BY <1>1 DEF OthersWalk, ResolverInv, ResolverTypeOK
<1>7. /\ at'[s] = "walk" /\ outcome'[s] = "none" /\ root'[s] = r /\ components' = c
      /\ todo'[s] = Append(levels, refs)
      BY <1>1, <1>2 DEF ResolverInv, ResolverTypeOK
<1> HIDE DEF c, r, levels, refs
<1>8. Walking(c, r, Append(levels, refs), path, D)
  <2>1. SchemaMeaning(c, Top(path)).error = "none" BY <1>1, <1>3
  <2>2. QED BY <1>2, <1>3, <1>4, <1>5, <2>1, WalkEnters
<1>9. Len(path) = Len(Append(levels, refs)) - 1
  <2>1. DOMAIN Append(levels, refs) = 1 .. (Len(levels) + 1) /\ Len(levels) \in Nat
        BY <1>2, <1>4, Appended
  <2>2. Len(Append(levels, refs)) = Len(levels) + 1 BY <1>2, <1>4
  <2>3. QED BY <1>3, <2>1, <2>2
<1>10. WalkStream(s)' BY <1>2, <1>3, <1>7, <1>8, <1>9 DEF WalkStream, Walks
<1>11. QED BY <1>6, <1>10

\* An error is one of a reference that the root leads to.
LEMMA GiveUpWalks ==
    ASSUME ResolverInv, NEW s \in Streams, WalkStream(s), GiveUp(s)
    PROVE  OthersWalk(s) /\ WalkStream(s)'
<1> DEFINE c == components  r == root[s]  e == result[s].error
<1>1. /\ DeepReturned(s) /\ e # "none"
      /\ outcome' = [outcome EXCEPT ![s] = e]
      /\ at' = [at EXCEPT ![s] = "idle"]
      /\ todo' = [todo EXCEPT ![s] = <<>>]
      /\ UNCHANGED <<components, asked, root>>
      BY DEF GiveUp
<1>2. r \in Refs /\ result[s] \in Outcome BY <1>1, DeepReturn
<1>3. e # "inlined" BY <1>1, <1>2 DEF Outcome, Failed, Found, Errors
<1>4. \E x \in Inlined[c][r] : result[s] = SchemaMeaning(c, x) BY <1>1, DeepReturn
<1>5. ToldDeep(c, r, e) BY <1>3, <1>4 DEF ToldDeep
<1>6. OthersWalk(s) BY <1>1 DEF OthersWalk, ResolverInv, ResolverTypeOK
<1>7. at'[s] = "idle" /\ outcome'[s] = e /\ root'[s] = r /\ components' = c
      BY <1>1 DEF ResolverInv, ResolverTypeOK
<1> HIDE DEF c, r, e
<1>8. WalkStream(s)' BY <1>2, <1>5, <1>7 DEF WalkStream, Walks
<1>9. QED BY <1>6, <1>8

\* The stack overflows on a path that comes to a schema twice.
LEMMA OverflowExplained ==
    ASSUME ResolverInv, NEW s \in Streams, WalkStream(s), Overflow(s),
           IsFiniteSet(Refs), MaxDepth >= Cardinality(Refs)
    PROVE  root[s] # NoRef /\ Unbounded[components][root[s]]
<1>1. DeepReturned(s) /\ Len(todo[s]) > MaxDepth BY DEF Overflow
<1>2. /\ root[s] \in Refs /\ root[s] # NoRef /\ components \in Documents
      /\ todo[s] \in Seq(Seq(Refs))
      BY <1>1, DeepReturn
<1>3. PICK path \in Seq(Refs), D \in SUBSET Refs :
         Walking(components, root[s], todo[s], path, D) /\ Len(path) = Len(todo[s])
      BY <1>1, DeepReturn
<1>4. \A i \in DOMAIN path : i # 1 => path[i] \in NestedIn(components, path[i - 1])
      BY <1>2, <1>3, PathNested
<1>5. Len(path) > Cardinality(Refs)
  <2>1. Cardinality(Refs) \in Nat BY FS_CardinalityType
  <2>2. QED BY <1>1, <1>3, <2>1, ResolverAssumption
<1>6. Range(path) \subseteq Inlined[components][root[s]] BY <1>3 DEF Walking
<1>7. QED BY <1>2, <1>4, <1>5, <1>6, LongPathUnbounded

\* All streams are on their way, and a crash is explained.
DeepInv == ResolverInv /\ (\A s \in Streams : WalkStream(s)) /\ CrashExplained

\* No stream inlines at first.
LEMMA DeepBegins == Init => DeepInv
<1>1. SUFFICES ASSUME Init PROVE DeepInv OBVIOUS
<1>2. ASSUME NEW s \in Streams PROVE WalkStream(s) BY <1>1 DEF Init, WalkStream, Walks
<1>3. CrashExplained BY <1>1 DEF Init, CrashExplained
<1>4. QED BY <1>1, <1>2, <1>3, ResolverBegins DEF DeepInv

\* Every step of a stream keeps all on their way.
LEMMA StreamWalks ==
    ASSUME DeepInv, ~crashed, NEW s \in Streams, Begin(s) \/ Continue(s),
           IsFiniteSet(Refs), MaxDepth >= Cardinality(Refs)
    PROVE  (\A t \in Streams : WalkStream(t)') /\ CrashExplained'
<1>1. ResolverInv /\ WalkStream(s) /\ \A t \in Streams : WalkStream(t) BY DEF DeepInv
<1>2. CASE Overflow(s)
  <2>1. ASSUME NEW t \in Streams PROVE WalkStream(t)'
        BY <1>1, <1>2 DEF Overflow, deepSide, WalkStream
  <2>2. root[s] # NoRef /\ Unbounded[components][root[s]] BY <1>1, <1>2, OverflowExplained
  <2>3. root' = root /\ components' = components BY <1>2 DEF Overflow, deepSide
  <2>4. CrashExplained' BY <2>2, <2>3 DEF CrashExplained
  <2>5. QED BY <2>1, <2>4
<1>3. CASE Begin(s) /\ ~ResolveDeep(s)
  <2>1. PICK kind \in Kinds : Resolve(s, kind)
        BY <1>3 DEF Begin, ResolveSchema, ResolveParameter, ResolveResponse,
                    ResolveRequestBody, ResolveHeader, Kinds
  <2>2. OthersWalk(s) /\ WalkStream(s)' BY <1>1, <2>1, ResolveWalks
  <2>3. ~crashed' BY <2>1 DEF Resolve
  <2>4. QED BY <1>1, <2>2, <2>3, OneWalk DEF CrashExplained
<1>4. CASE ResolveDeep(s) \/ InlineNext(s) \/ SchemaInlined(s) \/ Descend(s)
           \/ GiveUp(s) \/ Answer(s)
  <2>1. OthersWalk(s) /\ WalkStream(s)'
        BY <1>1, <1>4, ResolveDeepWalks, InlineNextWalks, SchemaInlinedWalks,
           DescendWalks, GiveUpWalks, AnswerWalks
  <2>2. ~crashed'
        BY <1>4 DEF ResolveDeep, InlineNext, SchemaInlined, Descend, GiveUp, Answer
  <2>3. QED BY <1>1, <2>1, <2>2, OneWalk DEF CrashExplained
<1>5. CASE CheckCycle(s) \/ LookupFails(s) \/ Lookup(s) \/ Unwind(s)
  <2>1. OthersWalk(s) /\ WalkStream(s)' BY <1>1, <1>5, WithinWalks
  <2>2. ~crashed' BY <1>5 DEF CheckCycle, LookupFails, Lookup, Unwind
  <2>3. QED BY <1>1, <2>1, <2>2, OneWalk DEF CrashExplained
<1>6. QED BY <1>2, <1>3, <1>4, <1>5 DEF Begin, Continue

\* Deep resolution (src/resolver.rs resolve_schema_deep, resolve_schema_nested)
\* inlines a schema only if all it leads to exists and nothing in it contains
\* itself, and gives an error only of a reference it leads to; on a stack with
\* room for as many schemas as there are references, the process is aborted only
\* by a schema that contains itself.
THEOREM DeepTold ==
    ASSUME IsFiniteSet(Refs), MaxDepth >= Cardinality(Refs)
    PROVE  Spec => []DeepResolutionTold
<1>1. DeepInv /\ [Next]_vars => DeepInv'
  <2>1. SUFFICES ASSUME DeepInv, [Next]_vars PROVE DeepInv' OBVIOUS
  <2>2. ResolverInv' BY <2>1, ResolverStep DEF DeepInv
  <2>3. CASE UNCHANGED vars
    <3>1. ASSUME NEW t \in Streams PROVE WalkStream(t)'
          BY <2>1, <2>3 DEF vars, DeepInv, WalkStream
    <3>2. CrashExplained' BY <2>1, <2>3 DEF vars, DeepInv, CrashExplained
    <3>3. QED BY <2>2, <3>1, <3>2 DEF DeepInv
  <2>4. ASSUME ~crashed, NEW s \in Streams, Begin(s) \/ Continue(s) PROVE DeepInv'
        BY <2>1, <2>2, <2>4, StreamWalks DEF DeepInv
  <2>5. QED BY <2>1, <2>3, <2>4 DEF Next, Aborted
<1>2. DeepInv => DeepResolutionTold
  <2>1. ASSUME DeepInv, NEW s \in Streams, outcome[s] # "none"
        PROVE  ToldDeep(components, root[s], outcome[s])
        BY <2>1 DEF DeepInv, WalkStream, Walks
  <2>2. QED BY <2>1 DEF DeepInv, CrashExplained, DeepResolutionTold, ToldDeep
<1>3. QED BY <1>1, <1>2, DeepBegins, PTL DEF Spec
=============================================================================
