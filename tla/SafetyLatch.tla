----------------------------- MODULE SafetyLatch -----------------------------
(***************************************************************************)
(* What the bridge promises about motion, without clocks, sessions or      *)
(* threads (the state machine at the head of drive/bridge/watchdog.py):    *)
(* the vehicle drives only after the operator has let go of the arm and    *)
(* pressed it again, and whatever stops it forgets the letting go.         *)
(***************************************************************************)

VARIABLES mode,      \* STOPPED, DRIVING or LATCHED
          released   \* the arm was let go since it last counted as held

Init == mode = "STOPPED" /\ released = FALSE

\* The operator lets go of the arm: from DRIVING a voluntary stop.
Release ==
    /\ released' = TRUE
    /\ mode' = IF mode = "DRIVING" THEN "STOPPED" ELSE mode

\* The arm counts as held again: a press that could not be granted, a stalled
\* link's drain, a change of driver.
Spend ==
    /\ released' = FALSE
    /\ mode' = mode

\* The press that follows the letting go.
Arm ==
    /\ mode # "DRIVING" /\ released
    /\ mode' = "DRIVING"
    /\ released' = FALSE

\* The vehicle's self-test withdraws the green light under a held arm.
Withdraw ==
    /\ mode = "DRIVING"
    /\ mode' = "STOPPED"
    /\ released' = FALSE

\* Silence, a stall, a lost link or an emergency stop, in any mode.
Halt ==
    /\ mode' = "LATCHED"
    /\ released' = FALSE

Next == Release \/ Spend \/ Arm \/ Withdraw \/ Halt

Spec == Init /\ [][Next]_<<mode, released>>

=============================================================================
