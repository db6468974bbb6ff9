\* Both paths of a stream under every configuration of each side.
CONSTANTS
    None = None
    Operations <- MCOperations
    Heads <- MCHeads
    Configs <- MCStreamConfigs
SPECIFICATION FairSpec
INVARIANTS
    TypeOK
    NoInvalidRequestForwarded
    NoUnscannedRequestForwarded
    ResponseHeldWhileJudged
    ReplyBeforeResponse
    VerdictTellsErrors
    CountersTellStream
    ScanContext
    BlockedMeansStopped
PROPERTIES
    VerdictNeverRecovers
    StreamEnds
