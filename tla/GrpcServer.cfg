\* One call: calls share nothing but the server that is shut down.
CONSTANTS
    Call = {c}
    MaxMessages = 2
    STREAM_HEARTBEAT_PERIOD = 20
    Hints = {0, 3}
SPECIFICATION FairSpec
INVARIANTS EndedIsReleased AnsweredAsHandled
PROPERTY ShutdownReturns
CHECK_DEADLOCK FALSE
