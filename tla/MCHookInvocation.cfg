SPECIFICATION HookSpec
CONSTANTS
    Actions = {"CREATE_PRE_PROVISION", "DELETE_PRE_PROVISION"}
    Handled = {"CREATE_PRE_PROVISION"}
    Codes = {"InternalFailure", "InvalidRequest", "NotFound"}
    Streams = {"stream1", "stream2"}
    Events <- MCEvents
    MaxInvocations = 2
    RetryLimit = 3
INVARIANTS
    HookTypeOK
    AnswerMatchesOutcome
    NoModelOnlyIfRefused
    TokenEchoed
    HookMetricsMatchOutcome
    FreshCredentials
PROPERTIES
    KeepsContract
    CallGoesForward
