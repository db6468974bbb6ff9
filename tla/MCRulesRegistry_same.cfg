\* A ruleset with the same configuration comes from the cache, says global.rs.
CONSTANTS
    a1 = a1
    a2 = a2
    file = file
    bundled = bundled
    partner = partner
    internal = internal
    Apis <- MCApis
    Sources <- MCSources
    Bundled <- MCBundledSources
    Editable <- MCEditable
    Rulesets <- MCRulesets
    Filters <- MCFilters
SPECIFICATION Spec
SYMMETRY Symmetry
INVARIANT SameConfigurationServed
