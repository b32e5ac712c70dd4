CONSTANTS
    patrol = patrol
    hold = hold
    odd = odd
    NoTask = NoTask
    Tasks = {patrol, odd}
    Kind <- MCKind
    Laps <- OneLap
    Planners = {"direct"}
    MaxLaps = 1
    MaxUp = 2
    MaxDown = 1
SPECIFICATION FairSpec
PROPERTIES
    PendingIsAnswered
    SilenceEndsOrders
CHECK_DEADLOCK FALSE
