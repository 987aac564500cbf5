\* One client that refills while the topic is enabled.
SPECIFICATION Spec
CONSTANTS
    NULL = NULL
    Handles = {h1}
    DeviceChannels <- MCDeviceChannels
    InputRequests <- MCOneInputRequest
    OutputRequests <- MCOutSegmentRequest
    Overlap <- MCOneClient
    MaxCalls = 1
    StopFirst = TRUE
    HwAnswers = TRUE
PROPERTY
    RefillAlwaysDelivers
CHECK_DEADLOCK FALSE
