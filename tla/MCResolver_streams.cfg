\* Two streams that resolve references of one document at the same time.
CONSTANTS
    s1 = s1
    s2 = s2
    a = a
    b = b
    c = c
    NoRef = NoRef
    Streams <- MCStreams
    Names <- MCNames
    Refs <- MCRefs
    Questions <- MCQuestions
    Documents <- MCDocuments
    MaxDepth = 3
SPECIFICATION FairSpec
INVARIANTS
    TracksOwnChain
    DeepResolutionTold
PROPERTIES
    LookupSpec
    ResolutionEnds
