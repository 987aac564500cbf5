\* One topic name: every call returns, SIGINT ends the publishing threads, and a
\* hardware that rounds is read back.
SPECIFICATION FairSpec
CONSTANTS
    NULL = NULL
    Paths <- MCProgressPaths
    Kind <- MCProgressKind
    Readable <- MCReadable
    Writable <- MCWritable
    Faulty = {"gain"}
    Values = {"1", "2"}
    Rounds <- MCRounds
    Numeric = {"1", "2"}
    Names = {"n1"}
    Topics = {o1}
    EnableRequests <- MCProgressEnable
    WriteRequests <- MCProgressPut
    ReadRequests = {"gain"}
    Messages <- MCMessages
    Overlap <- MCAccess
INVARIANT
    WriteReadsBack
PROPERTIES
    EveryCallReturns
    ShutdownStopsTopics
CHECK_DEADLOCK FALSE
