\* One operator's socket: latency 0..1, burst 1, window 2, polled every unit.
CONSTANTS
    Timeout = 2
    Horizon = 5
    MaxWire = 3
    TickMax = 1
    Latency = 1
    Drain = 1
    Frames <- MCFrames
SPECIFICATION Spec
INVARIANT SilenceIsBounded
PROPERTIES BacklogNeverArms PressIsFresh
