\* Two workers and one cache, three callers of two APIs with one call each.
CONSTANTS
    w1 = w1
    w2 = w2
    c1 = c1
    c2 = c2
    c3 = c3
    small = small
    wide = wide
    broken = broken
    k1 = k1
    k2 = k2
    k3 = k3
    Workers <- MCWorkers
    Callers <- MCCallers
    Schemas <- MCSchemas
    Compilable <- MCCompilable
    Levels <- MCLevels
    Keys <- MCKeys
    SchemaKey <- MCSchemaKey
    MaxSchemaDepth <- MCMaxSchemaDepth
    MaxComplexity <- MCMaxComplexity
    Outcomes <- MCOutcomes
    Shutdown = Shutdown
    None = None
    MaxCalls = 1
    MaxPanics = 1
SPECIFICATION ValidationSpec
SYMMETRY Symmetry
INVARIANTS
    JudgedByOwnSchema
    LimitsSharedThroughCache
    StampedeBounded
PROPERTIES
    PoolSpec
