CONSTANTS
    patrol = patrol
    hold = hold
    odd = odd
    NoTask = NoTask
    Tasks = {patrol, hold}
    Kind <- MCKind
    Laps <- TwoLaps
    Planners = {"direct", "nav2"}
    MaxLaps = 2
    MaxUp = 2
    MaxDown = 1
SPECIFICATION Spec
INVARIANTS
    Agreement
    MotionIsOrdered
CHECK_DEADLOCK FALSE
