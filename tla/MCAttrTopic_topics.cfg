\* Orderly clients: topics, the map and the threads agree.
SPECIFICATION Spec
CONSTANTS
    NULL = NULL
    Paths <- MCPaths
    Kind <- MCKind
    Readable <- MCTwoReadable
    Writable <- MCWritable
    Faulty = {"gain"}
    Values = {"1", "2"}
    Rounds <- MCRounds
    Numeric = {"1", "2"}
    Names = {"n1", "n2"}
    Topics = {o1, o2}
    EnableRequests <- MCEnable
    WriteRequests <- MCPut
    ReadRequests = {"gain", "missing"}
    Messages <- MCMessages
    Overlap <- MCAccess
INVARIANTS
    TypeOK
    NoCrash
    TopicsOwned
    PublishesCurrent
VIEW NodeView
SYMMETRY TopicSymmetry
CHECK_DEADLOCK FALSE
