\* Two APIs whose configurations are updated while the sources change.
CONSTANTS
    a1 = a1
    a2 = a2
    file = file
    bundled = bundled
    partner = partner
    internal = internal
    Apis <- MCApis
    Sources <- MCSources
    Bundled <- MCBundledSources
    Editable <- MCEditable
    Rulesets <- MCRulesets
    Filters <- MCFilters
SPECIFICATION Spec
SYMMETRY Symmetry
INVARIANTS
    ScannersAsConfigured
    RulesWhole
    CompilationsBounded
