\* Jobs of every type on one worker, one after the other.
CONSTANTS
    word = word
    phrase = phrase
    tail = tail
    long = long
    encoded = encoded
    sqli = sqli
    xss = xss
    setup = setup
    Strings <- MCStrings
    Unreadable <- MCUnreadable
    OutOfBounds <- MCOutOfBounds
    Base64 <- MCBase64
    MaxUniqueStrings = 2
    Bodies <- MCBodies
    NoBody = NoBody
    DetectionRules <- MCDetectionRules
    SetupRules <- MCSetupRules
    NoRule = NoRule
SPECIFICATION Spec
INVARIANTS
    AllPhasesEvaluated
    BodyStringsJudged
    VerdictTellsRules
