\* The example is stopped while its buffer streams.
SPECIFICATION StreamSpec
CONSTANTS
    NULL = NULL
    Handles = {h1}
    DeviceChannels <- MCDeviceChannels
    InputRequests <- MCRequest
    OutputRequests = {}
    Overlap <- MCTeardown
    MaxCalls = 2
    StopFirst = FALSE
    HwAnswers = TRUE
    NodeChannels <- MCNodeChannels
    NodeSamples = 1
    NodeScale = 10
    ResetScale <- MCResetScale
INVARIANT StreamSurvives
CHECK_DEADLOCK FALSE
