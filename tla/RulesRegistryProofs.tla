------------------------- MODULE RulesRegistryProofs -------------------------
(***************************************************************************)
(* Whatever is edited, updated or refused, by however many threads: rules  *)
(* that are stored or used are whole and of the hash they are wanted for.  *)
(***************************************************************************)
EXTENDS RulesRegistry, FiniteSetTheorems, SequenceTheorems, TLAPS

\* r may stand for a ruleset of hash h.
StandsFor(r, h) == r \in Compiled /\ Whole(r) /\ r.of.hash = h

TypeInv ==
    /\ todo \in [Apis -> Seq(Rulesets)] /\ update \in [Apis -> Seq(Rulesets)]
    /\ got \in [Apis -> Seq(Compiled)]
    /\ text \in [Apis -> Seq(Content) \cup {NotCompiling}]
    /\ scanner \in [Apis -> [filter : Seq(Rulesets), rules : Seq(Compiled)]]
    /\ content \in [Sources -> Content]

\* The registry holds each hash's own rules.
RegistryInv == \A h \in DOMAIN registry : StandsFor(registry[h], h)

\* With todo still to do of update, got are the rules of what comes before.
MakingOf(left, have, all) ==
    /\ left = <<>> => have = <<>>
    /\ left # <<>> => Len(have) + Len(left) = Len(all)
    /\ left # <<>> => \A k \in 1 .. Len(left) : left[k] = all[Len(have) + k]
    /\ \A i \in 1 .. Len(have) : StandsFor(have[i], all[i].hash)

MakingInv(a) == MakingOf(todo[a], got[a], update[a])

\* The scanner s is complete.
Complete(s) ==
    /\ Len(s.rules) = Len(s.filter)
    /\ \A i \in 1 .. Len(s.rules) : StandsFor(s.rules[i], s.filter[i].hash)

ScannerInv(a) == Complete(scanner[a])

\* What is loaded is loaded for a ruleset and no longer than its sources.
TextOf(t, left) ==
    t # NotCompiling => /\ left # <<>> /\ t \in Seq(Content)
                        /\ Len(t) <= Len(Head(left).sources)

TextInv(a) == TextOf(text[a], todo[a])

RulesInv ==
    /\ TypeInv /\ RegistryInv
    /\ \A a \in Apis : MakingInv(a) /\ ScannerInv(a) /\ TextInv(a)

-----------------------------------------------------------------------------
\* Nothing made, nothing to do.
LEMMA MakingNothing == \A u : MakingOf(<<>>, <<>>, u)
<1>1. Len(<<>>) = 0
  OBVIOUS
<1> QED
  BY <1>1 DEF MakingOf

LEMMA RulesInit == Init => RulesInv
<1> SUFFICES ASSUME Init PROVE RulesInv
  OBVIOUS
<1>1. <<>> \in Seq(Rulesets) /\ <<>> \in Seq(Compiled) /\ Len(<<>>) = 0 /\ DOMAIN <<>> = {}
  OBVIOUS
<1>2. NoScanner \in [filter : Seq(Rulesets), rules : Seq(Compiled)]
  BY <1>1 DEF NoScanner
<1>3. TypeInv
  BY <1>1, <1>2 DEF Init, TypeInv
<1>4. RegistryInv
  BY <1>1 DEF Init, RegistryInv
<1>5. ASSUME NEW a \in Apis PROVE MakingInv(a) /\ ScannerInv(a) /\ TextInv(a)
  BY <1>1, MakingNothing DEF Init, MakingInv, ScannerInv, Complete, NoScanner, TextInv, TextOf
<1> QED
  BY <1>3, <1>4, <1>5 DEF RulesInv

\* Rules for the next of several rulesets: one more got, one less to do.
LEMMA MakingGoesOn ==
    ASSUME NEW t \in Seq(Rulesets), NEW g \in Seq(Compiled), NEW u \in Seq(Rulesets),
           NEW r \in Compiled, MakingOf(t, g, u), t # <<>>, StandsFor(r, Head(t).hash)
    PROVE  /\ Len(g) + Len(t) = Len(u)
           /\ \A i \in 1 .. Len(g) + 1 : StandsFor(Append(g, r)[i], u[i].hash)
           /\ Len(t) > 1 => MakingOf(Tail(t), Append(g, r), u)
<1> DEFINE longer == Append(g, r)
<1>1. Len(g) + Len(t) = Len(u)
  BY DEF MakingOf
<1>2. \A k \in 1 .. Len(t) : t[k] = u[Len(g) + k]
  BY DEF MakingOf
<1>3. \A i \in 1 .. Len(g) : StandsFor(g[i], u[i].hash)
  BY DEF MakingOf
<1>4. Len(g) \in Nat /\ Len(t) \in Nat
  OBVIOUS
<1>5. Len(t) >= 1
  BY <1>4
<1>6. Head(t) = t[1]
  OBVIOUS
<1>7. Head(t) = u[Len(g) + 1]
  BY <1>2, <1>4, <1>5, <1>6
<1>8. Len(longer) = Len(g) + 1 /\ longer[Len(g) + 1] = r
  OBVIOUS
<1>9. \A i \in 1 .. Len(g) : longer[i] = g[i]
  OBVIOUS
<1> HIDE DEF longer
<1>10. ASSUME NEW i \in 1 .. Len(g) + 1 PROVE StandsFor(longer[i], u[i].hash)
  <2>1. CASE i = Len(g) + 1
    BY <1>7, <1>8, <2>1
  <2>2. CASE i # Len(g) + 1
    <3>1. i \in 1 .. Len(g)
      BY <1>4, <2>2
    <3> QED
      BY <1>3, <1>9, <3>1
  <2> QED
    BY <2>1, <2>2
<1>11. ASSUME Len(t) > 1 PROVE MakingOf(Tail(t), longer, u)
  <2>1. Len(Tail(t)) = Len(t) - 1
    OBVIOUS
  <2>2. \A k \in 1 .. Len(t) - 1 : Tail(t)[k] = t[k + 1]
    OBVIOUS
  <2>3. Tail(t) # <<>>
    <3>1. Len(Tail(t)) # 0
      BY <1>4, <1>11, <2>1
    <3>2. Len(<<>>) = 0
      BY EmptySeq
    <3> QED
      BY <3>1, <3>2
  <2>4. Len(longer) + Len(Tail(t)) = Len(u)
    BY <1>1, <1>4, <1>8, <2>1
  <2>5. ASSUME NEW k \in 1 .. Len(Tail(t)) PROVE Tail(t)[k] = u[Len(longer) + k]
    <3>1. k \in 1 .. Len(t) - 1
      BY <2>1
    <3>2. k + 1 \in 1 .. Len(t)
      BY <1>4, <3>1
    <3>3. Len(longer) + k = Len(g) + (k + 1)
      BY <1>4, <1>8, <3>1
    <3>4. Tail(t)[k] = t[k + 1]
      BY <2>2, <3>1
    <3>5. t[k + 1] = u[Len(g) + (k + 1)]
      BY <1>2, <3>2
    <3> QED
      BY <3>3, <3>4, <3>5
  <2>6. \A i \in 1 .. Len(longer) : StandsFor(longer[i], u[i].hash)
    BY <1>8, <1>10
  <2> QED
    BY <2>3, <2>4, <2>5, <2>6 DEF MakingOf
<1> QED
  BY <1>1, <1>10, <1>11 DEF longer

\* Serving a the right rules for the ruleset it is at keeps what it makes, or
\* makes it the scanner; the other APIs are not concerned.
LEMMA ServeKeeps ==
    ASSUME RulesInv, NEW a \in Apis, NEW r, todo[a] # <<>>,
           StandsFor(r, Wanted(a).hash), Serve(a, r)
    PROVE  TypeInv' /\ \A b \in Apis : MakingInv(b)' /\ ScannerInv(b)' /\ TextInv(b)'
<1> DEFINE longer == Append(got[a], r)
<1>1. todo[a] \in Seq(Rulesets) /\ got[a] \in Seq(Compiled) /\ update[a] \in Seq(Rulesets)
  BY DEF RulesInv, TypeInv
<1>2. r \in Compiled
  BY DEF StandsFor
<1>3. longer \in Seq(Compiled)
  BY <1>1, <1>2
<1>4. Len(longer) = Len(got[a]) + 1
  BY <1>1, <1>2
<1>5. Tail(todo[a]) \in Seq(Rulesets)
  BY <1>1
<1>6. MakingOf(todo[a], got[a], update[a]) /\ StandsFor(r, Head(todo[a]).hash)
  BY DEF RulesInv, MakingInv, Wanted
<1>7. /\ Len(got[a]) + Len(todo[a]) = Len(update[a])
      /\ \A i \in 1 .. Len(got[a]) + 1 : StandsFor(longer[i], update[a][i].hash)
      /\ Len(todo[a]) > 1 => MakingOf(Tail(todo[a]), longer, update[a])
  BY <1>1, <1>2, <1>6, MakingGoesOn
<1>8. /\ todo' = [todo EXCEPT ![a] = Tail(todo[a])] /\ text' = [text EXCEPT ![a] = NotCompiling]
      /\ UNCHANGED content
  BY DEF Serve
<1>9. /\ Len(todo[a]) > 1
         /\ got' = [got EXCEPT ![a] = longer] /\ update' = update /\ scanner' = scanner
      \/ /\ Len(todo[a]) = 1 /\ got' = [got EXCEPT ![a] = <<>>] /\ update' = [update EXCEPT ![a] = <<>>]
         /\ scanner' = [scanner EXCEPT ![a] = [filter |-> update[a], rules |-> longer]]
  BY DEF Serve, Forget
<1> HIDE DEF longer
<1>14. \A n \in Nat : n > 1 => n # 1
  OBVIOUS
<1>13. TextInv(a)'
  <2>1. text'[a] = NotCompiling
    BY <1>8 DEF RulesInv, TypeInv
  <2> QED
    BY <2>1 DEF TextInv, TextOf
<1>10. ASSUME NEW b \in Apis, b # a PROVE MakingInv(b)' /\ ScannerInv(b)' /\ TextInv(b)'
  <2>1. todo'[b] = todo[b] /\ got'[b] = got[b] /\ update'[b] = update[b] /\ scanner'[b] = scanner[b]
    BY <1>8, <1>9, <1>10 DEF RulesInv, TypeInv
  <2>2. text'[b] = text[b]
    BY <1>8, <1>10 DEF RulesInv, TypeInv
  <2>3. MakingOf(todo[b], got[b], update[b]) /\ Complete(scanner[b]) /\ TextOf(text[b], todo[b])
    BY DEF RulesInv, MakingInv, ScannerInv, TextInv
  <2> QED
    BY <2>1, <2>2, <2>3 DEF MakingInv, ScannerInv, TextInv
<1>11. CASE Len(todo[a]) > 1
  <2>1. got' = [got EXCEPT ![a] = longer] /\ update' = update /\ scanner' = scanner
    <3>1. Len(todo[a]) # 1
      <4>1. Len(todo[a]) \in Nat
        BY <1>1, LenProperties
      <4> QED
        BY <1>11, <4>1, <1>14
    <3> QED
      BY <1>9, <3>1
  <2>2. TypeInv'
    BY <1>3, <1>5, <1>8, <2>1 DEF RulesInv, TypeInv
  <2>3. todo'[a] = Tail(todo[a]) /\ got'[a] = longer /\ update'[a] = update[a] /\ scanner'[a] = scanner[a]
    BY <1>8, <2>1 DEF RulesInv, TypeInv
  <2>4. MakingInv(a)' /\ ScannerInv(a)'
    BY <1>7, <1>11, <2>3 DEF RulesInv, MakingInv, ScannerInv
  <2> QED
    BY <1>10, <1>13, <2>2, <2>4
<1>12. CASE Len(todo[a]) = 1
  <2> DEFINE new == [filter |-> update[a], rules |-> longer]
  <2>1. /\ got' = [got EXCEPT ![a] = <<>>] /\ update' = [update EXCEPT ![a] = <<>>]
        /\ scanner' = [scanner EXCEPT ![a] = new]
    BY <1>9, <1>12
  <2>2. new \in [filter : Seq(Rulesets), rules : Seq(Compiled)]
    BY <1>1, <1>3
  <2>3. TypeInv'
    BY <1>5, <1>8, <2>1, <2>2 DEF RulesInv, TypeInv
  <2>4. Tail(todo[a]) = <<>>
    <3>1. Len(Tail(todo[a])) = 0
      BY <1>1, <1>12
    <3> QED
      BY <1>5, <3>1, EmptySeq
  <2>5. todo'[a] = <<>> /\ got'[a] = <<>> /\ scanner'[a] = new
    BY <1>8, <2>1, <2>4 DEF RulesInv, TypeInv
  <2>6. Len(longer) = Len(update[a])
    BY <1>4, <1>7, <1>12
  <2>7. Complete(new)
    BY <1>4, <1>7, <2>6 DEF Complete
  <2>8. MakingInv(a)' /\ ScannerInv(a)'
    BY <2>5, <2>7, MakingNothing DEF MakingInv, ScannerInv
  <2> QED
    BY <1>10, <1>13, <2>3, <2>8
<1> QED
  BY <1>9, <1>11, <1>12

\* Giving up leaves no trace of what was being made.
LEMMA RefuseKeeps ==
    ASSUME RulesInv, NEW a \in Apis, Refuse(a)
    PROVE  RulesInv'
<1>1. /\ todo' = [todo EXCEPT ![a] = <<>>] /\ got' = [got EXCEPT ![a] = <<>>]
      /\ text' = [text EXCEPT ![a] = NotCompiling] /\ update' = [update EXCEPT ![a] = <<>>]
      /\ UNCHANGED <<content, registry, scanner>>
  BY DEF Refuse, Forget
<1>2. TypeInv'
  BY <1>1 DEF RulesInv, TypeInv
<1>3. RegistryInv'
  BY <1>1 DEF RulesInv, RegistryInv
<1>4. ASSUME NEW b \in Apis PROVE MakingInv(b)' /\ ScannerInv(b)' /\ TextInv(b)'
  <2>1. ScannerInv(b)'
    BY <1>1 DEF RulesInv, ScannerInv
  <2>2. CASE b = a
    <3>1. todo'[b] = <<>> /\ got'[b] = <<>> /\ text'[b] = NotCompiling
      BY <1>1, <2>2 DEF RulesInv, TypeInv
    <3> QED
      BY <2>1, <3>1, MakingNothing DEF MakingInv, TextInv, TextOf
  <2>3. CASE b # a
    <3>1. /\ todo'[b] = todo[b] /\ got'[b] = got[b] /\ update'[b] = update[b]
          /\ text'[b] = text[b]
      BY <1>1, <2>3 DEF RulesInv, TypeInv
    <3> QED
      BY <2>1, <3>1 DEF RulesInv, MakingInv, TextInv
  <2> QED
    BY <2>2, <2>3
<1> QED
  BY <1>2, <1>3, <1>4 DEF RulesInv

LEMMA RulesNext == RulesInv /\ [Next]_vars => RulesInv'
<1> SUFFICES ASSUME RulesInv, [Next]_vars PROVE RulesInv'
  OBVIOUS
<1>1. ASSUME NEW a \in Apis, Start(a) PROVE RulesInv'
  <2>1. PICK f \in Filters : update' = [update EXCEPT ![a] = f] /\ todo' = [todo EXCEPT ![a] = f]
    BY <1>1 DEF Start
  <2>2. f \in Seq(Rulesets)
    BY RegistryAssumption
  <2>3. todo[a] = <<>> /\ got[a] = <<>> /\ UNCHANGED <<content, registry, got, text, scanner>>
    BY <1>1 DEF Start, RulesInv, MakingInv, MakingOf
  <2>4. TypeInv' /\ RegistryInv'
    BY <2>1, <2>2, <2>3 DEF RulesInv, TypeInv, RegistryInv
  <2>5. ASSUME NEW b \in Apis PROVE MakingInv(b)' /\ ScannerInv(b)' /\ TextInv(b)'
    <3>1. ScannerInv(b)'
      BY <2>3 DEF RulesInv, ScannerInv
    <3>4. text' = text /\ (text[a] # NotCompiling => todo[a] # <<>>)
      BY <2>3 DEF RulesInv, TextInv, TextOf
    <3>2. CASE b = a
      <4>1. todo'[b] = f /\ update'[b] = f /\ got'[b] = <<>>
        BY <2>1, <2>3, <3>2 DEF RulesInv, TypeInv
      <4>2. Len(<<>>) = 0
        OBVIOUS
      <4>3. Len(f) \in Nat
        BY <2>2
      <4>4. MakingOf(f, <<>>, f)
        BY <4>2, <4>3 DEF MakingOf
      <4> QED
        BY <2>3, <3>1, <3>2, <3>4, <4>1, <4>4 DEF MakingInv, TextInv, TextOf
    <3>3. CASE b # a
      <4>1. todo'[b] = todo[b] /\ got'[b] = got[b] /\ update'[b] = update[b]
        BY <2>1, <2>3, <3>3 DEF RulesInv, TypeInv
      <4> QED
        BY <3>1, <3>4, <4>1 DEF RulesInv, MakingInv, TextInv
    <3> QED
      BY <3>2, <3>3
  <2> QED
    BY <2>4, <2>5 DEF RulesInv
<1>2. ASSUME NEW a \in Apis, Hit(a) PROVE RulesInv'
  <2>1. StandsFor(registry[Hash(Wanted(a))], Wanted(a).hash)
    BY <1>2 DEF Hit, Hash, RulesInv, RegistryInv
  <2>2. todo[a] # <<>> /\ Serve(a, registry[Hash(Wanted(a))]) /\ UNCHANGED registry
    BY <1>2 DEF Hit, Looking
  <2>3. RegistryInv'
    BY <2>2 DEF RulesInv, RegistryInv
  <2> QED
    BY <2>1, <2>2, <2>3, ServeKeeps DEF RulesInv
<1>3. ASSUME NEW a \in Apis, Store(a) PROVE RulesInv'
  <2> DEFINE compiled == [of |-> Wanted(a), text |-> text[a]]
  <2>1. /\ todo[a] # <<>> /\ text[a] \in Seq(Content) /\ Loaded(a) /\ HasRules(a)
        /\ registry' = Insert(Hash(Wanted(a)), compiled) /\ Serve(a, compiled)
    BY <1>3 DEF Store, Compiling, RulesInv, TypeInv
  <2>2. Wanted(a) \in Rulesets
    BY <2>1 DEF RulesInv, TypeInv, Wanted
  <2>3. StandsFor(compiled, Wanted(a).hash)
    BY <2>1, <2>2 DEF StandsFor, Whole, Compiled, Loaded, HasRules
  <2>4. RegistryInv'
    <3> HIDE DEF compiled
    <3>1. ASSUME NEW h \in DOMAIN registry' PROVE StandsFor(registry'[h], h)
      BY <2>1, <2>3, <3>1 DEF Insert, Hash, RulesInv, RegistryInv
    <3> QED
      BY <3>1 DEF RegistryInv, StandsFor, Whole
  <2> HIDE DEF compiled
  <2> QED
    BY <2>1, <2>3, <2>4, ServeKeeps DEF RulesInv
<1>4. ASSUME NEW a \in Apis, AddFails(a) \/ NoRulesLoaded(a) PROVE RulesInv'
  BY <1>4, RefuseKeeps DEF AddFails, NoRulesLoaded
<1>5. ASSUME UNCHANGED <<registry, todo, got, update, scanner>>, TypeInv',
             \A b \in Apis : TextInv(b)'
      PROVE  RulesInv'
  BY <1>5 DEF RulesInv, RegistryInv, MakingInv, ScannerInv
<1>6. ASSUME NEW a \in Apis, Miss(a) PROVE RulesInv'
  <2>1. TypeInv'
    BY <1>6 DEF Miss, RulesInv, TypeInv
  <2>2. todo[a] # <<>> /\ Wanted(a) \in Rulesets
    BY <1>6 DEF Miss, Looking, Wanted, RulesInv, TypeInv
  <2>3. Len(Wanted(a).sources) \in Nat
    BY <2>2, RegistryAssumption DEF ValidRuleset
  <2>4. <<>> \in Seq(Content) /\ Len(<<>>) = 0
    BY EmptySeq
  <2>5. TextOf(<<>>, todo[a])
    BY <2>2, <2>3, <2>4 DEF TextOf, Wanted
  <2>6. ASSUME NEW b \in Apis PROVE TextInv(b)'
    <3>1. text'[b] = IF b = a THEN <<>> ELSE text[b]
      BY <1>6 DEF Miss, RulesInv, TypeInv
    <3>2. todo' = todo
      BY <1>6 DEF Miss
    <3> QED
      BY <2>5, <3>1, <3>2 DEF RulesInv, TextInv
  <2> QED
    BY <1>5, <1>6, <2>1, <2>6 DEF Miss
<1>7. ASSUME NEW a \in Apis, AddSource(a) PROVE RulesInv'
  <2>1. text[a] \in Seq(Content) /\ todo[a] # <<>> /\ Wanted(a) \in Rulesets
    BY <1>7 DEF AddSource, Compiling, Wanted, RulesInv, TypeInv
  <2>2. Len(text[a]) \in Nat /\ Wanted(a).sources \in Seq(Sources) /\ Len(text[a]) # Len(Wanted(a).sources)
    BY <1>7, <2>1, RegistryAssumption DEF AddSource, Loaded, ValidRuleset
  <2>3. text' = [text EXCEPT ![a] = Append(text[a], NextContent(a))]
    BY <1>7 DEF AddSource
  <2>4. Len(text[a]) + 1 \in 1 .. Len(Wanted(a).sources)
    <3>1. Len(text[a]) <= Len(Wanted(a).sources)
      BY <1>7 DEF AddSource, Compiling, Wanted, RulesInv, TextInv, TextOf
    <3>2. Len(Wanted(a).sources) \in Nat
      BY <2>2
    <3> QED
      BY <2>2, <3>1, <3>2
  <2>5. NextContent(a) \in Content
    BY <2>2, <2>4 DEF NextContent, RulesInv, TypeInv
  <2>6. Append(text[a], NextContent(a)) \in Seq(Content)
    BY <2>1, <2>5
  <2>7. UNCHANGED <<content, registry, todo, got, update, scanner>>
    BY <1>7 DEF AddSource
  <2>8. TypeInv'
    BY <2>3, <2>6, <2>7 DEF RulesInv, TypeInv
  <2>9. TextOf(Append(text[a], NextContent(a)), todo[a])
    <3>1. Len(Append(text[a], NextContent(a))) = Len(text[a]) + 1
      BY <2>1, <2>5
    <3>2. Len(text[a]) + 1 <= Len(Wanted(a).sources)
      BY <2>4
    <3> QED
      BY <2>1, <2>6, <3>1, <3>2 DEF TextOf, Wanted
  <2>10. ASSUME NEW b \in Apis PROVE TextInv(b)'
    <3>1. text'[b] = IF b = a THEN Append(text[a], NextContent(a)) ELSE text[b]
      BY <2>3 DEF RulesInv, TypeInv
    <3>2. todo' = todo
      BY <2>7
    <3> QED
      BY <2>9, <3>1, <3>2 DEF RulesInv, TextInv
  <2> QED
    BY <1>5, <2>7, <2>8, <2>10
<1>8. ASSUME NEW s \in Editable, Edit(s) PROVE RulesInv'
  <2>1. TypeInv'
    BY <1>8 DEF Edit, RulesInv, TypeInv
  <2> QED
    BY <1>5, <1>8, <2>1 DEF Edit, RulesInv, TextInv
<1>9. CASE UNCHANGED vars
  <2>1. TypeInv'
    BY <1>9 DEF vars, RulesInv, TypeInv
  <2> QED
    BY <1>5, <1>9, <2>1 DEF vars, RulesInv, TextInv
<1> QED
  BY <1>1, <1>2, <1>3, <1>4, <1>6, <1>7, <1>8, <1>9 DEF Next

-----------------------------------------------------------------------------
LEMMA RulesInvariant == Spec => []RulesInv
<1> QED
  BY RulesInit, RulesNext, PTL DEF Spec

\* Rules in the registry or in a scanner were loaded from all of their sources
\* and are not empty: no load that failed midway left them there
\* (get_or_compile_ruleset, src/modsec/global.rs:66-122).
THEOREM WholeTheorem == Spec => []RulesWhole
<1>1. RulesInv => RulesWhole
  <2> SUFFICES ASSUME RulesInv PROVE RulesWhole
    OBVIOUS
  <2>1. ASSUME NEW a \in Apis, NEW i \in DOMAIN scanner[a].rules PROVE Whole(scanner[a].rules[i])
    <3>1. scanner[a].rules \in Seq(Compiled)
      BY DEF RulesInv, TypeInv
    <3>2. i \in 1 .. Len(scanner[a].rules)
      BY <2>1, <3>1, LenProperties
    <3> QED
      BY <3>2 DEF RulesInv, ScannerInv, Complete, StandsFor
  <2> QED
    BY <2>1 DEF RulesInv, RegistryInv, StandsFor, RulesWhole
<1> QED
  BY <1>1, RulesInvariant, PTL

\* A scanner has rules for every one of its rulesets, each of the ruleset's own
\* hash (DualRulesetScanner::new, src/modsec/scanner.rs:140-178).
THEOREM ConfiguredTheorem == Spec => []ScannersAsConfigured
<1>1. RulesInv => ScannersAsConfigured
  <2> SUFFICES ASSUME RulesInv, NEW a \in Apis
               PROVE  /\ Len(scanner[a].rules) = Len(scanner[a].filter)
                      /\ \A i \in DOMAIN scanner[a].rules :
                            scanner[a].rules[i].of.hash = scanner[a].filter[i].hash
    BY DEF ScannersAsConfigured
  <2>1. Complete(scanner[a]) /\ scanner[a].rules \in Seq(Compiled)
    BY DEF RulesInv, TypeInv, ScannerInv
  <2>2. ASSUME NEW i \in DOMAIN scanner[a].rules
        PROVE  scanner[a].rules[i].of.hash = scanner[a].filter[i].hash
    <3>1. i \in 1 .. Len(scanner[a].rules)
      BY <2>1, <2>2, LenProperties
    <3> QED
      BY <2>1, <3>1 DEF Complete, StandsFor
  <2> QED
    BY <2>1, <2>2 DEF Complete
<1> QED
  BY <1>1, RulesInvariant, PTL

-----------------------------------------------------------------------------
\* How often rules are compiled.

\* The compilations that may still come: of a hash that is not registered, by
\* anybody, and of one that is, by those that missed it before.
ToCome ==
    {p \in Apis \X Hashes :
        \/ p[2] \notin DOMAIN registry
        \/ Compiling(p[1]) /\ Hash(Wanted(p[1])) = p[2]}

\* Every compilation uses up one of those that were to come.
StoredInv ==
    /\ stored \in Nat
    /\ stored + Cardinality(ToCome) <= Cardinality(Apis) * Cardinality(Hashes)

LEMMA PairCount ==
    /\ IsFiniteSet(Apis \X Hashes)
    /\ Cardinality(Apis \X Hashes) = Cardinality(Apis) * Cardinality(Hashes)
    /\ Cardinality(Apis \X Hashes) \in Nat
<1>1. IsFiniteSet(Hashes)
  <2> DEFINE hashOf == [r \in Rulesets |-> r.hash]
  <2>1. hashOf \in Surjection(Rulesets, Hashes)
    BY DEF Hashes, Surjection
  <2> QED
    BY <2>1, RegistryAssumption, FS_Surjection
<1>2. IsFiniteSet(Apis)
  BY RegistryAssumption
<1> QED
  BY <1>1, <1>2, FS_Product, FS_CardinalityType

LEMMA ToComeCount == IsFiniteSet(ToCome) /\ Cardinality(ToCome) \in Nat
<1>1. ToCome \subseteq Apis \X Hashes
  BY DEF ToCome
<1> QED
  BY <1>1, PairCount, FS_Subset, FS_CardinalityType

\* A step that stores nothing and brings nothing new to come.
LEMMA NothingNew ==
    ASSUME StoredInv, stored' = stored, ToCome' \subseteq ToCome
    PROVE  StoredInv'
<1>1. Cardinality(ToCome') <= Cardinality(ToCome) /\ Cardinality(ToCome') \in Nat
  BY ToComeCount, FS_Subset, FS_CardinalityType
<1>2. Cardinality(ToCome) \in Nat
  BY ToComeCount
<1>3. Cardinality(Apis) * Cardinality(Hashes) \in Nat
  BY PairCount
<1> QED
  BY <1>1, <1>2, <1>3 DEF StoredInv

\* Storing takes the pair of the API and the hash from what is to come.
LEMMA StoreCounts ==
    ASSUME RulesInv, StoredInv, NEW a \in Apis, Store(a)
    PROVE  StoredInv'
<1> DEFINE h == Hash(Wanted(a))
           pair == <<a, h>>
<1>1. Compiling(a) /\ h \in Hashes
  <2>1. todo[a] # <<>> /\ todo[a] \in Seq(Rulesets)
    BY DEF Store, Compiling, RulesInv, TypeInv
  <2>2. Wanted(a) \in Rulesets
    BY <2>1 DEF Wanted
  <2> QED
    BY <2>2 DEF Store, Hash, Hashes
<1>2. /\ DOMAIN registry' = DOMAIN registry \cup {h}
      /\ stored' = stored + 1
      /\ text' = [text EXCEPT ![a] = NotCompiling]
      /\ todo' = [todo EXCEPT ![a] = Tail(@)]
  BY DEF Store, Serve, Insert
<1>3. ~Compiling(a)'
  BY <1>2 DEF Compiling, RulesInv, TypeInv
<1>4. \A b \in Apis : b # a => todo'[b] = todo[b] /\ text'[b] = text[b]
  BY <1>2 DEF RulesInv, TypeInv
<1>5. pair \in ToCome
  BY <1>1 DEF ToCome
<1>6. ToCome' \subseteq ToCome \ {pair}
  <2> SUFFICES ASSUME NEW b \in Apis, NEW k \in Hashes, <<b, k>> \in ToCome'
               PROVE  <<b, k>> \in ToCome /\ <<b, k>> # pair
    BY DEF ToCome
  <2>1. k \notin DOMAIN registry' \/ (Compiling(b) /\ Hash(Wanted(b)) = k)'
    BY DEF ToCome
  <2>2. CASE k \notin DOMAIN registry'
    BY <1>2, <2>2 DEF ToCome
  <2>3. CASE (Compiling(b) /\ Hash(Wanted(b)) = k)'
    <3>1. b # a
      BY <1>3, <2>3
    <3>2. Compiling(b) /\ Hash(Wanted(b)) = k
      BY <1>4, <2>3, <3>1 DEF Compiling, Wanted, Hash
    <3> QED
      BY <3>1, <3>2 DEF ToCome
  <2> QED
    BY <2>1, <2>2, <2>3
<1> HIDE DEF pair
<1>7. /\ IsFiniteSet(ToCome \ {pair})
      /\ Cardinality(ToCome \ {pair}) = Cardinality(ToCome) - 1
  BY <1>5, ToComeCount, FS_RemoveElement
<1>8. Cardinality(ToCome') <= Cardinality(ToCome) - 1 /\ Cardinality(ToCome') \in Nat
  BY <1>6, <1>7, FS_Subset, FS_CardinalityType
<1>9. Cardinality(ToCome) \in Nat /\ Cardinality(Apis) * Cardinality(Hashes) \in Nat
  BY ToComeCount, PairCount
<1> QED
  BY <1>2, <1>8, <1>9 DEF StoredInv

LEMMA StoredStep == RulesInv /\ StoredInv /\ [Next]_vars => StoredInv'
<1> SUFFICES ASSUME RulesInv, StoredInv, [Next]_vars PROVE StoredInv'
  OBVIOUS
<1>1. ASSUME stored' = stored, registry' = registry,
             \A b \in Apis : Compiling(b)' =>
                \/ Compiling(b) /\ Wanted(b)' = Wanted(b)
                \/ Hash(Wanted(b))' \notin DOMAIN registry
      PROVE  StoredInv'
  <2>1. ToCome' \subseteq ToCome
    BY <1>1 DEF ToCome, Hash
  <2> QED
    BY <1>1, <2>1, NothingNew
<1>2. ASSUME NEW a \in Apis, Start(a)
      PROVE  StoredInv'
  <2>1. /\ UNCHANGED <<stored, registry, text>> /\ todo[a] = <<>>
        /\ \E f \in Filters : todo' = [todo EXCEPT ![a] = f]
    BY <1>2 DEF Start
  <2>2. text[a] = NotCompiling
    BY <2>1 DEF RulesInv, TextInv, TextOf
  <2>3. \A b \in Apis : Compiling(b)' => Compiling(b) /\ Wanted(b)' = Wanted(b)
    BY <2>1, <2>2 DEF Compiling, Wanted, RulesInv, TypeInv
  <2> QED
    BY <1>1, <2>1, <2>3
<1>3. ASSUME NEW a \in Apis, Hit(a) \/ Refuse(a)
      PROVE  StoredInv'
  <2>1. /\ UNCHANGED <<stored, registry>>
        /\ text' = [text EXCEPT ![a] = NotCompiling]
        /\ \A b \in Apis : b # a => todo'[b] = todo[b]
    BY <1>3 DEF Hit, Serve, Refuse, RulesInv, TypeInv
  <2>2. \A b \in Apis : Compiling(b)' => Compiling(b) /\ Wanted(b)' = Wanted(b)
    BY <2>1 DEF Compiling, Wanted, RulesInv, TypeInv
  <2> QED
    BY <1>1, <2>1, <2>2
<1>4. ASSUME NEW a \in Apis, Miss(a)
      PROVE  StoredInv'
  <2>1. /\ UNCHANGED <<stored, registry, todo>>
        /\ text' = [text EXCEPT ![a] = <<>>]
        /\ Hash(Wanted(a)) \notin DOMAIN registry
    BY <1>4 DEF Miss
  <2>2. \A b \in Apis : Compiling(b)' =>
           \/ Compiling(b) /\ Wanted(b)' = Wanted(b)
           \/ Hash(Wanted(b))' \notin DOMAIN registry
    BY <2>1 DEF Compiling, Wanted, Hash, RulesInv, TypeInv
  <2> QED
    BY <1>1, <2>1, <2>2
<1>5. ASSUME NEW a \in Apis, AddSource(a)
      PROVE  StoredInv'
  <2>1. /\ UNCHANGED <<stored, registry, todo>> /\ Compiling(a)
        /\ \A b \in Apis : b # a => text'[b] = text[b]
    BY <1>5 DEF AddSource, RulesInv, TypeInv
  <2>2. \A b \in Apis : Compiling(b)' => Compiling(b) /\ Wanted(b)' = Wanted(b)
    BY <2>1 DEF Compiling, Wanted
  <2> QED
    BY <1>1, <2>1, <2>2
<1>6. ASSUME UNCHANGED <<stored, registry, todo, text>>
      PROVE  StoredInv'
  BY <1>1, <1>6 DEF Compiling, Wanted
<1> QED
  BY <1>2, <1>3, <1>4, <1>5, <1>6, StoreCounts
  DEF Next, vars, AddFails, NoRulesLoaded, Edit

\* However many APIs race, and however often they are updated, each compiles a
\* ruleset once at most (get_or_compile_ruleset, src/modsec/global.rs:66-122).
THEOREM CompilationsTheorem == Spec => []CompilationsBounded
<1>1. Init => StoredInv
  <2> SUFFICES ASSUME Init PROVE StoredInv
    OBVIOUS
  <2>1. stored = 0 /\ Cardinality(ToCome) \in Nat
    BY ToComeCount DEF Init
  <2>2. ToCome \subseteq Apis \X Hashes
    BY DEF ToCome
  <2>3. Cardinality(ToCome) <= Cardinality(Apis \X Hashes)
    BY <2>2, PairCount, FS_Subset
  <2> QED
    BY <2>1, <2>3, PairCount DEF StoredInv
<1>2. RulesInv /\ StoredInv /\ [Next]_vars => StoredInv'
  BY StoredStep
<1>3. StoredInv => CompilationsBounded
  <2>1. Cardinality(ToCome) \in Nat /\ Cardinality(Apis) * Cardinality(Hashes) \in Nat
    BY ToComeCount, PairCount
  <2> QED
    BY <2>1 DEF StoredInv, CompilationsBounded
<1> QED
  BY <1>1, <1>2, <1>3, RulesInvariant, PTL DEF Spec
=============================================================================
