\* AttrDisableTopic while a message on the topic's /write is served.
SPECIFICATION Spec
CONSTANTS
    NULL = NULL
    Paths <- MCProgressPaths
    Kind <- MCProgressKind
    Readable <- MCReadable
    Writable <- MCWritable
    Faulty = {"gain"}
    Values = {"1", "2"}
    Rounds <- MCRounds
    Numeric = {"1", "2"}
    Names = {"n1"}
    Topics = {o1}
    EnableRequests <- MCProgressEnable
    WriteRequests <- MCProgressPut
    ReadRequests = {"gain"}
    Messages <- MCMessages
    Overlap <- MCDisable
INVARIANT UpdateFindsTopic
CHECK_DEADLOCK FALSE
