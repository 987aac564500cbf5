\* Clients call every service whenever they like.
SPECIFICATION Spec
CONSTANTS
    NULL = NULL
    Handles = {h1, h2}
    DeviceChannels <- MCDeviceChannels
    InputRequests <- MCOneInputRequest
    OutputRequests <- MCOneOutputRequest
    Overlap <- MCAnyClient
    MaxCalls = 2
    StopFirst = FALSE
    HwAnswers = TRUE
VIEW ControlView
SYMMETRY HandleSymmetry
INVARIANTS
    LockInv
PROPERTIES
    UsesLibIIO
CHECK_DEADLOCK FALSE
