\* Fail-closed is the behaviour on a scan error too, says docs/architecture.md.
CONSTANTS
    None = None
    Operations <- MCPlainOperations
    Heads <- MCFewHeads
    Configs <- MCRequestConfigs
SPECIFICATION Spec
INVARIANT FailedScansBlocked
