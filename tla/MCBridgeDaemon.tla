--------------------------- MODULE MCBridgeDaemon ---------------------------
EXTENDS BridgeDaemon, TLC

Cmd(arm, estop, zero, ignition) ==
    [t |-> "cmd", arm |-> arm, estop |-> estop, zero |-> zero, ignition |-> ignition]
Other(t) == [t |-> t, arm |-> FALSE, estop |-> FALSE, zero |-> TRUE, ignition |-> FALSE]

\* A release, a press, a driving frame and an emergency stop, ignition on.
CmdMessages ==
    {Cmd(FALSE, FALSE, TRUE, TRUE), Cmd(TRUE, FALSE, TRUE, TRUE),
     Cmd(TRUE, FALSE, FALSE, TRUE), Cmd(TRUE, TRUE, FALSE, TRUE)}
\* With a frame that has the ignition off, a heartbeat and a preflight request.
AllMessages ==
    CmdMessages \cup {Cmd(FALSE, FALSE, TRUE, FALSE), Other("hb"), Other("preflight")}
\* Enough to arm and to fall silent.
FewMessages == {Cmd(FALSE, FALSE, TRUE, TRUE), Cmd(TRUE, FALSE, TRUE, TRUE)}

\* Clients are interchangeable.
ClientSymmetry == Permutations(Clients)
=============================================================================
