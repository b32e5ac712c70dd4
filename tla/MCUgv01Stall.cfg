CONSTANTS
    Silence = 1
    Reply = 1
    Heartbeat = 1
    Stroke = 2
    MaxAge = 1
    Horizon = 5
    Gears = {"D"}
    Steers = {"stop"}
    Mishaps <- SlowAndJammed
    MaxMishaps = 2
    MaxPending = 2
    MaxTimeouts = 2
    MaxTrips = 2
SPECIFICATION Spec
PROPERTY StartsReleased
