CONSTANTS
    Key = {k1, k2}
    NoKey = NoKey
    Publisher = {p1}
    Reader = r
    Closer = {c1}
    MAX_QUEUE_DEPTH = 2
    WORK_CHANNEL_DEPTH = 1
    FEEDER_CHANNEL_DEPTH = 1
    MaxMessages = 4
SPECIFICATION FairSpec
INVARIANTS PerKeyOrder NoLostWakeup CloseIsSynchronous
PROPERTIES ImplementsMailbox ConsumeReturns ShutdownCompletes EventuallyReceived
CHECK_DEADLOCK FALSE
