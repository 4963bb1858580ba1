SPECIFICATION MCSpec
CONSTANTS
    wk = wk
    cli = cli
    None = None
    FieldNames = {"dates", "prices", "other"}
    ComponentIds = {"dq.a.b"}
    MaxFields = 2
    MaxDifferences = 8
    MaxSafeInteger = 9
    Runners = {wk, cli}
    Workers = {wk}
    Installs <- MCInstalls
    Requested <- MCRequested
    RequestId = "dq.a.b"
    InputFields = {"dates", "prices"}
    QuestionFields = {"dates"}
    ErrorLists <- MCErrorLists
    ArtifactRunners = {wk}
    Behaviours = {"ok", "contract", "dq_other", "ambiguous", "refusal", "validation", "value", "memory"}
    Noises = {"silent", "flood"}
    Faults = {"path", "stage", "write", "render", "corrupt", "read", "rename", "check", "remove"}
    MemberOrder <- MCMemberOrder
    Contents = {"a", "big", "huge", "bad"}
    Garbage = Garbage
    Malformed = {"bad"}
    Size <- MCSize
    MaxMember = 2
    MaxBundle = 3
    MaxEdits = 2
    GuidanceCases <- MCGuidanceCases
    Supplies <- MCSupplies
    AnswerValues <- MCAnswerValues
    NoKeyword = NoKeyword
    Schemas <- MCSchemas
    Nesting <- MCNesting
    MaxNesting = 5
    Definitions <- MCDefinitions
    ProducerFields <- MCProducerFields
    ConsumerFields <- MCConsumerFields
    Plans <- MCPlans
    Policies <- MCPolicies
    InstalledComponents <- MCInstalledComponents
    Approvers = {"ann", "bob"}
    MaxDrift = 2
    Nothing = Nothing
    r1 = r1
    r2 = r2
    d1 = d1
    d2 = d2
    DatasetRequests <- MCDatasetRequests
    LocalFiles <- MCLocalFiles
    FieldBindings <- MCFieldBindings
    MaxRows = 2
    MaxColumns = 2
    MaxCell = 2
    MaxInline = 2
    MaxPayload = 3
    MaxNumber = 4
    Doubles <- MCDoubles
    Unread = Unread
    Roots <- MCRoots
    FolderOf <- MCFolderOf
    Descriptors = {0, 1, 2, 3, 4, 5}
    Readers <- MCReaders
    MaxChunks = 1
    MaxChanges = 2
    Closed = Closed
    Link = Link
    Elsewhere = Elsewhere
INVARIANTS
    OutputWhole
    AnswerTellsOutput
    ResultIdentity
    HostTruth
    PublishedIsAnswer
    NoFalseCorruption
    DefaultsExact
    CompatiblePortsFit
    AuthorizedIsApproved
    AskedOnce
    DatasetFaithful
    ReadsConfined
CHECK_DEADLOCK FALSE
