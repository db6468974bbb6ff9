\* Requests and mock responses, one after another.
CONSTANTS
    id = id
    q = q
    h = h
    n = n
    f = f
    l = l
    GET = GET
    POST = POST
    NoSegment <- Empty
    Segments <- MCSegments
    Methods = {GET, POST}
    Operations <- MCOperations
    PathParams <- MCPathParams
    Documents <- MCDocuments
    Requests <- MCRequests
    Texts <- MCTexts
    Schemas <- MCSchemas
    Inlined <- MCInlined
    FormSchemas <- MCFormSchemas
    Fields <- MCFields
    NoRequest = NoRequest
    Unbounded = Unbounded
    NoSchema = NoSchema
    Bad = Bad
    Components <- MCComponents
    Accepts <- MCAccepts
    NoCode = NoCode
    NoExample = NoExample
    NoResponse = NoResponse
    Generated <- MCGenerated
    Depth <- MCDepth
    SchemasIn <- MCSchemasIn
    ReplySchemas <- MCReplySchemas
    MaxInteger = 5000
    MaxHeaderValueLength = 4
    MaxJsonDepth = 2
    MockConfigs <- MCMockConfigs
SPECIFICATION Spec
INVARIANTS
    DeclaredOperationServed
    ParametersJudged
    EarlyRefusalAgrees
    FormsJudgedAsSent
    MockPassesValidation
