--------------------------- MODULE MCWatchdogLink ---------------------------
EXTENDS WatchdogLink

\* Every frame the watchdog tells apart: a heartbeat, a frame without arm, an
\* arm at zero throttle, an arm with throttle, and an emergency stop.
Cmd(arm, estop, zero) == [t |-> "cmd", arm |-> arm, estop |-> estop, zero |-> zero]
Heartbeat == [t |-> "hb", arm |-> FALSE, estop |-> FALSE, zero |-> TRUE]
ReleaseFrame == Cmd(FALSE, FALSE, TRUE)
PressFrame == Cmd(TRUE, FALSE, TRUE)
MCFrames ==
    {Heartbeat, ReleaseFrame, PressFrame, Cmd(TRUE, FALSE, FALSE), Cmd(TRUE, TRUE, TRUE)}
=============================================================================
