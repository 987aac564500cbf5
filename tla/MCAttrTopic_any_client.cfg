\* Any two services at once, beside the callbacks and the publishing threads.
SPECIFICATION Spec
CONSTANTS
    NULL = NULL
    Paths <- MCAnyPaths
    Kind <- MCAnyKind
    Readable <- MCAnyReadable
    Writable <- MCWritable
    Faulty = {"gain"}
    Values = {"1"}
    Rounds <- MCRounds
    Numeric = {"1"}
    Names = {"n1", "n2"}
    Topics = {o1, o2}
    EnableRequests <- MCAnyEnable
    WriteRequests <- MCAnyPut
    ReadRequests = {"uri"}
    Messages <- MCAnyMessages
    Overlap <- MCAny
INVARIANT LockInv
VIEW NodeView
SYMMETRY TopicSymmetry
CHECK_DEADLOCK FALSE
