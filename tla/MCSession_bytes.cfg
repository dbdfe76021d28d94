SPECIFICATION Spec
CONSTANTS
    KeepAlives = {0, 3}
    ConnectTimeout = 2
    MaxTime = 15
    Requests <- MCRequests
    Topics <- MCTopics
    Username <- MCUsername
    Password <- MCPassword
    MaxPending = 2
    Lengths <- MCLengths
    Connects <- MCConnects
CHECK_DEADLOCK FALSE
INVARIANTS InStep SilentClientDropped DroppedOnlyWhenSilent LengthRoundTrip ConnectRoundTrip
PROPERTIES AnswersRequest
