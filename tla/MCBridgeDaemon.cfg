CONSTANTS
    Clients = {c1, c2}
    NoClient = NoClient
    Timeout = 1
    Horizon = 2
    MaxJoins = 2
    Latching = TRUE
    Messages <- CmdMessages
SPECIFICATION Spec
SYMMETRY ClientSymmetry
INVARIANTS LatchedIsStopped ShutdownIsStopped LogTellsState
PROPERTY RefinesLatch
