---------------------------- MODULE RulesRegistry ----------------------------
(***************************************************************************)
(* The registry of compiled rulesets (src/modsec/global.rs) and the        *)
(* scanners made from it: FilterConfig::try_new gives an API a             *)
(* DualRulesetScanner (src/modsec/scanner.rs) for its one or two           *)
(* rulesets, each taken from the registry or compiled from its sources     *)
(* (src/modsec/rules.rs) and stored there.  Nothing is ever taken out.     *)
(*                                                                         *)
(* An API whose configuration is updated makes a new scanner; if that      *)
(* fails Envoy refuses the update and the API keeps the scanner it has.    *)
(* Compiling holds no lock: the registry is only locked to look a ruleset  *)
(* up and to store one.                                                    *)
(***************************************************************************)
EXTENDS Naturals, Sequences, FiniteSets

CONSTANTS
    Apis,      \* the APIs; each has one filter configuration at a time
    Sources,   \* bundled rules, files, remote URLs with a key, inline rules
    Bundled,   \* those of them that come with the binary: they load
    Editable,  \* those whose content may change: files and remote URLs
    Rulesets,  \* RulesetConfigs: records of a name, sources and a hashed part
    Filters    \* the scanners' configurations: a ruleset, or two

\* What a source may hold; "broken" stands for every reason not to load it.
Content == {"rules", "empty", "broken"}

\* What RulesetConfig::validate lets through: a ruleset that names a source.
ValidRuleset(r) == r.sources \in Seq(Sources) /\ r.sources # <<>>

\* Two rulesets of equal hash differ in a remote key at most (hash collisions
\* aside): the hash covers everything else that says what the sources are.
ASSUME RegistryAssumption ==
    /\ IsFiniteSet(Apis) /\ IsFiniteSet(Rulesets)
    /\ Bundled \subseteq Sources /\ Editable \subseteq Sources \ Bundled
    /\ \A r \in Rulesets : ValidRuleset(r)
    /\ \A r, s \in Rulesets : r.hash = s.hash => Len(r.sources) = Len(s.sources)
    /\ \A f \in Filters : f \in Seq(Rulesets) /\ Len(f) \in 1 .. 2

VARIABLES
    content,   \* content[s]: what the source s holds now
    registry,  \* RULES_REGISTRY: a function from hashes to compiled rules
    stored,    \* history: how often rules were stored
    todo,      \* todo[a]: the rulesets that a's new scanner still needs
    got,       \* got[a]: the rules it has got
    text,      \* text[a]: what was loaded for the ruleset it compiles, or NotCompiling
    update,    \* update[a]: the configuration of that scanner
    scanner    \* scanner[a]: the scanner a has: its configuration and its rules

vars == <<content, registry, stored, todo, got, text, update, scanner>>

NotCompiling == <<"not compiling">>
NoScanner == [filter |-> <<>>, rules |-> <<>>]

\* Faulty variant: the name alone is hashed.
HashName(r) == r.name

\* hash_ruleset_config: everything but the key of the remote source.
Hash(r) == r.hash

Init ==
    /\ content \in {c \in [Sources -> Content] : \A s \in Bundled : c[s] = "rules"}
    /\ registry = <<>> /\ stored = 0
    /\ todo = [a \in Apis |-> <<>>] /\ got = [a \in Apis |-> <<>>]
    /\ text = [a \in Apis |-> NotCompiling] /\ update = [a \in Apis |-> <<>>]
    /\ scanner = [a \in Apis |-> NoScanner]

\* Somebody edits a rules file, or the remote side serves something else.
Edit(s) ==
    /\ content' \in {[content EXCEPT ![s] = c] : c \in Content}
    /\ UNCHANGED <<registry, stored, todo, got, text, update, scanner>>

\* Envoy hands over a new configuration of a.
Start(a) ==
    /\ todo[a] = <<>>
    /\ \E f \in Filters :
          /\ update' = [update EXCEPT ![a] = f]
          /\ todo' = [todo EXCEPT ![a] = f]
    /\ UNCHANGED <<content, registry, stored, got, text, scanner>>

\* What the making of a scanner kept in its local variables goes with it.
Forget(a) == got' = [got EXCEPT ![a] = <<>>] /\ update' = [update EXCEPT ![a] = <<>>]

\* The scanner takes the rules r for its next ruleset; with the last one it is
\* complete.
Serve(a, r) ==
    /\ todo' = [todo EXCEPT ![a] = Tail(@)]
    /\ text' = [text EXCEPT ![a] = NotCompiling]
    /\ \/ /\ Len(todo[a]) > 1
          /\ got' = [got EXCEPT ![a] = Append(@, r)]
          /\ UNCHANGED <<update, scanner>>
       \/ /\ Len(todo[a]) = 1
          /\ scanner' = [scanner EXCEPT ![a] = [filter |-> update[a], rules |-> Append(got[a], r)]]
          /\ Forget(a)
    /\ UNCHANGED content

\* An error: no scanner, and the configuration is refused.
Refuse(a) ==
    /\ todo' = [todo EXCEPT ![a] = <<>>]
    /\ text' = [text EXCEPT ![a] = NotCompiling]
    /\ Forget(a)
    /\ UNCHANGED <<content, registry, stored, scanner>>

Looking(a) == todo[a] # <<>> /\ text[a] = NotCompiling
Compiling(a) == todo[a] # <<>> /\ text[a] # NotCompiling
Wanted(a) == Head(todo[a])

Hit(a) ==
    /\ Looking(a) /\ Hash(Wanted(a)) \in DOMAIN registry
    /\ Serve(a, registry[Hash(Wanted(a))])
    /\ UNCHANGED <<registry, stored>>

Miss(a) ==
    /\ Looking(a) /\ Hash(Wanted(a)) \notin DOMAIN registry
    /\ text' = [text EXCEPT ![a] = <<>>]
    /\ UNCHANGED <<content, registry, stored, todo, got, update, scanner>>

Loaded(a) == Len(text[a]) = Len(Wanted(a).sources)
NextContent(a) == content[Wanted(a).sources[Len(text[a]) + 1]]

\* Bundled rules, then files, then the remote URL, then inline rules.
AddSource(a) ==
    /\ Compiling(a) /\ ~Loaded(a) /\ NextContent(a) # "broken"
    /\ text' = [text EXCEPT ![a] = Append(@, NextContent(a))]
    /\ UNCHANGED <<content, registry, stored, todo, got, update, scanner>>

AddFails(a) == Compiling(a) /\ ~Loaded(a) /\ NextContent(a) = "broken" /\ Refuse(a)

\* Faulty variant: rules_count is not looked at.
HasRulesAlways(a) == TRUE

\* rules_count() > 0.
HasRules(a) == \E i \in DOMAIN text[a] : text[a][i] = "rules"

NoRulesLoaded(a) == Compiling(a) /\ Loaded(a) /\ ~HasRules(a) /\ Refuse(a)

\* Faulty variant: the compiled rules are used without being stored.
InsertNever(hash, r) == registry

\* HashMap::insert: what another thread stored meanwhile is replaced.
Insert(hash, r) ==
    [h \in DOMAIN registry \cup {hash} |-> IF h = hash THEN r ELSE registry[h]]

Store(a) ==
    /\ Compiling(a) /\ Loaded(a) /\ HasRules(a)
    /\ LET compiled == [of |-> Wanted(a), text |-> text[a]]
       IN  /\ registry' = Insert(Hash(Wanted(a)), compiled)
           /\ Serve(a, compiled)
    /\ stored' = stored + 1

Next == \/ \E a \in Apis : \/ Start(a) \/ Hit(a) \/ Miss(a) \/ AddSource(a)
                           \/ AddFails(a) \/ NoRulesLoaded(a) \/ Store(a)
        \/ \E s \in Editable : Edit(s)

Spec == Init /\ [][Next]_vars

-----------------------------------------------------------------------------
\* Properties

Hashes == {r.hash : r \in Rulesets}
Compiled == [of : Rulesets, text : Seq(Content)]

\* A scanner has rules for all of its rulesets or does not exist, and rules that
\* stand for another ruleset's are only used where the hash of the two is the
\* same (DualRulesetScanner::new, get_or_compile_ruleset).
ScannersAsConfigured ==
    \A a \in Apis :
        LET s == scanner[a]
        IN  /\ Len(s.rules) = Len(s.filter)
            /\ \A i \in DOMAIN s.rules : s.rules[i].of.hash = s.filter[i].hash

\* Rules in use or in the registry were loaded from all of their sources, in
\* spite of every edit meanwhile, and are not empty: a load that fails midway
\* leaves nothing behind (get_or_compile_ruleset: each `?` before the insert).
Whole(r) == Len(r.text) = Len(r.of.sources) /\ \E i \in DOMAIN r.text : r.text[i] = "rules"
RulesWhole ==
    /\ \A h \in DOMAIN registry : Whole(registry[h])
    /\ \A a \in Apis : \A i \in DOMAIN scanner[a].rules : Whole(scanner[a].rules[i])

\* However often configurations are updated or refused, and whatever is edited,
\* a ruleset is compiled no more often than there are threads to race for it:
\* once, if configurations are made one at a time ("Deduplicates identical
\* rulesets across multiple API filter instances").
CompilationsBounded == stored <= Cardinality(Apis) * Cardinality(Hashes)

=============================================================================
