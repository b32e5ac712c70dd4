CONSTANTS
    Bodies <- MCBodies
    Carried <- MCCarried
    Ground = {0, 1}
    Scripts <- MCScripts
    MaxThings = 2
    SameThing = 0
    ForgetAfter = 1
    MaxCutsOff = 1
    None = None
    Jobs <- MCJobs
    JobType <- MCJobType
    Waypoints <- MCWaypoints
    JobLaps <- MCJobLaps
    CanDo = {"goto", "patrol", "hold", "return_home"}
    MaxPoint = 1
    MaxMessages = 3
    Quanta = 2
    Drivers = {"simulated", "ugv01"}
    Routes <- MCRoutes
    Extent = 1
    Backlog = 1
    Readers = {d1, d2}
    DriverFrames <- MCDriverFrames
    Full = 2
    PerUnit = 2
    Gain = 2
    Loss = 3
    MaxCharge = 1
    Low = 0
    Extremes <- MCExtremes
    MaxReach = 1
    Window = 2
    Confirm = 1
    MaxUp = 2
    MaxDown = 1
    MaxLost = 1
    People = {ann, bob}
    Nobody = Nobody
    MaxJoins = 3
    MaxBreaks = 1
SPECIFICATION Spec
CHECK_DEADLOCK FALSE
INVARIANTS TypeOK StoreIsTheTruth HeldAtNeutral StopRests ThrottleIsConfirmed GivenUpIsLetGo
PROPERTIES DoneMeansDriven DrivesAsTold
