CONSTANTS
    patrol = patrol
    hold = hold
    odd = odd
    NoTask = NoTask
    Tasks = {patrol, hold}
    Kind <- MCKind
    Laps <- OneLap
    Planners = {"direct"}
    MaxLaps = 1
    MaxUp = 2
    MaxDown = 1
SPECIFICATION Spec
INVARIANT
    RunningIsExecuted
CHECK_DEADLOCK FALSE
