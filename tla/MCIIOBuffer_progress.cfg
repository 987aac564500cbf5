\* One client, hardware that answers: every call returns, SIGINT ends the stream.
SPECIFICATION FairSpec
CONSTANTS
    NULL = NULL
    Handles = {h1}
    DeviceChannels <- MCDeviceChannels
    InputRequests <- MCOneInputRequest
    OutputRequests <- MCOutSegmentRequest
    Overlap <- MCOneClient
    MaxCalls = 2
    StopFirst = TRUE
    HwAnswers = TRUE
PROPERTIES
    EveryCallReturns
    ShutdownStopsStream
CHECK_DEADLOCK FALSE
