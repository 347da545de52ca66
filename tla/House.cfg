CONSTANTS
    HoursPerDay = 3
    Cycles = {1}
    BlacksPerCycle = 1
    Course <- ShortCourse
    Configs <- SomeConfigs
    Interventions = 2
    LastHour = 3
    None = None
    Network = {n, o}
    NoNetwork = NoNetwork
    ApplyDelay = 2
    RetryTicks = 2
    Window = 2
    Cap = 3
    Incidents = 2
    Mishaps = 4
SPECIFICATION HouseSpec
INVARIANTS ParksInTime PressKeepsApUp AttemptsGoOn
PROPERTIES SequenceIsWhole SequenceEnds WifiSettles CapHolds
