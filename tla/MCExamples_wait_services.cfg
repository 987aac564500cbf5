\* adi_iio's services are discovered one after the other.
SPECIFICATION ExamplesSpec
CONSTANTS
    Launches = {"electrodes"}
    NPoints = 3
    Depth = 1
    MaxCode = 4095
    Discoveries <- MCOneByOne
    MaxTicks = 3
    MaxMessages = 2
    MaxEvents = 2
    MaxFailures = 1
    None = None
    Error = Error
    NaN = NaN
INVARIANT
    RequestsFindTheirService
CHECK_DEADLOCK FALSE
