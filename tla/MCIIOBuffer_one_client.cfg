\* One client that waits for its answers and stops the stream before it
\* reconfigures; the hardware always answers.
SPECIFICATION Spec
CONSTANTS
    NULL = NULL
    Handles = {h1, h2}
    DeviceChannels <- MCDeviceChannels
    InputRequests <- MCInputRequests
    OutputRequests <- MCOutputRequests
    Overlap <- MCOneClient
    MaxCalls = 2
    StopFirst = TRUE
    HwAnswers = TRUE
SYMMETRY HandleSymmetry
INVARIANTS
    TypeOK
    NoCrash
    NoLeak
    ConfigMatches
    ReadDelivers
    PublishesWhole
    TopicMatchesThread
PROPERTIES
    RefillDelivers
    DestroyReleases
CHECK_DEADLOCK FALSE
