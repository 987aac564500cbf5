\* The examples, one at a time: safety and progress.
SPECIFICATION ExamplesFairSpec
CONSTANTS
    Launches = {"electrodes", "temperature", "buffer", "monitor", "bring-up"}
    NPoints = 3
    Depth = 1
    MaxCode = 4095
    Discoveries <- MCTogether
    MaxTicks = 3
    MaxMessages = 2
    MaxEvents = 2
    MaxFailures = 1
    None = None
    Error = Error
    NaN = NaN
INVARIANTS
    TypeOK
    TypesOK
    OneElectrodeAtATime
    LatestReachesDAC
    ActuatorDisables
    StatisticsMatch
    ScalesRead
    MilliVolts
    EachOnce
    PlotShowsChannels
    ShowsOwnReadings
    TeardownDisables
PROPERTIES
    Continuity
    EventuallyDriven
    SetupCompletes
    ShowsItsAttribute
    BringUpCompletes
    VoltsComeRight
CHECK_DEADLOCK FALSE
