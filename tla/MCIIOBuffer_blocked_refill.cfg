\* A context without timeout: the hardware may never complete a transfer.
SPECIFICATION FairSpec
CONSTANTS
    NULL = NULL
    Handles = {h1}
    DeviceChannels <- MCDeviceChannels
    InputRequests <- MCOneInputRequest
    OutputRequests <- MCOutSegmentRequest
    Overlap <- MCOneClient
    MaxCalls = 2
    StopFirst = TRUE
    HwAnswers = FALSE
PROPERTY
    DestroyReturns
CHECK_DEADLOCK FALSE
