SPECIFICATION Spec
CONSTANTS
    Actions = {"CREATE", "READ", "LIST"}
    Handled = {"CREATE", "READ"}
    Codes = {"InternalFailure", "InvalidRequest", "NotFound"}
    Streams = {"stream1", "stream2"}
    Events <- MCEvents
    MaxInvocations = 2
INVARIANTS
    TypeOK
    AnswerMatchesOutcome
    MetricsMatchOutcome
    FreshCredentials
    FilteredRecordsHaveAHome
PROPERTIES
    KeepsContract
    EveryRequestEnds
