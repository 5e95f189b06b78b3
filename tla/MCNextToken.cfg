SPECIFICATION Spec
CONSTANTS
    Actions = {"CREATE", "READ", "LIST", "CREATE_PRE_PROVISION"}
    Handled = {"CREATE", "LIST", "CREATE_PRE_PROVISION"}
    Points = {"CREATE_PRE_PROVISION"}
    Codes = {"InternalFailure", "InvalidRequest", "NotFound"}
    Streams = {"stream1"}
    Events <- MCEvents
    Units = 3
    MaxLost = 1
PROPERTIES
    ListingEnds
CHECK_DEADLOCK FALSE
