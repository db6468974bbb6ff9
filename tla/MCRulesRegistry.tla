--------------------------- MODULE MCRulesRegistry ---------------------------
(***************************************************************************)
(* Instances of RulesRegistry for TLC.                                     *)
(***************************************************************************)
EXTENDS RulesRegistry, TLC

CONSTANTS a1, a2, file, bundled, partner, internal

\* partner and internal are one URL with two keys.
MCApis == {a1, a2}
MCSources == {file, bundled, partner, internal}
MCBundledSources == {bundled}
MCEditable == {file, partner}

Ruleset(name, hash, sources) == [name |-> name, hash |-> hash, sources |-> sources]

\* The same ruleset but for its key, and one of the same name.
MCPartner == Ruleset("crs", "crs and feed", <<file, partner>>)
MCInternal == Ruleset("crs", "crs and feed", <<file, internal>>)
MCBundled == Ruleset("crs", "crs bundled", <<bundled>>)

MCRulesets == {MCPartner, MCInternal, MCBundled}
MCFilters == {<<MCBundled>>, <<MCPartner>>, <<MCInternal, MCBundled>>}

\* The APIs are interchangeable.
Symmetry == Permutations(MCApis)

\* src/modsec/global.rs:59-61: "If a ruleset with the same configuration has
\* already been compiled, the cached Arc is returned.  Otherwise, the ruleset is
\* compiled and stored in the registry."
SameConfigurationServed ==
    \A a \in Apis : \A i \in DOMAIN scanner[a].rules :
        scanner[a].rules[i].of = scanner[a].filter[i]
=============================================================================
