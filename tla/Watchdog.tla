------------------------------ MODULE Watchdog ------------------------------
(***************************************************************************)
(* The bridge's watchdog (drive/bridge/watchdog.py) as a data type: a      *)
(* record for the object's fields and one operator per method.  The        *)
(* modules that run it (WatchdogLink, BridgeDaemon) keep the record in a   *)
(* variable and choose when each method is called and when time passes.    *)
(*                                                                         *)
(* The code compares stored instants with now(); here a field holds the    *)
(* AGE of the instant instead, in clock units, and Aged is one unit going  *)
(* by.  An age stops growing at Horizon: above Timeout the code tells no   *)
(* two ages apart, and Horizon leaves the slack a property may measure.    *)
(***************************************************************************)
EXTENDS Integers

CONSTANTS Timeout,   \* timeout_s
          Horizon    \* where an age stops growing

ASSUME TimeoutAssumption == Timeout \in Nat \ {0}
ASSUME HorizonAssumption == Horizon \in Nat /\ Horizon > Timeout

SafetyStates == {"STOPPED", "DRIVING", "LATCHED"}

\* _last_cmd is None: no command frame in this session yet.
NoFrame == -1

(***************************************************************************)
(* state    _state                                                         *)
(* fed      age of _last_feed                                              *)
(* prevArm  _prev_arm: the previous frame's arm bit, TRUE for "as if held" *)
(* gap      age of _last_cmd, or NoFrame                                   *)
(* hold     what is left until _hold_until, 0 when it has passed           *)
(* The attribute stalled only words a log line and is left out.            *)
(***************************************************************************)
WatchdogStates ==
    [state   : SafetyStates,
     fed     : 0 .. Horizon,
     prevArm : BOOLEAN,
     gap     : NoFrame .. Horizon,
     hold    : 0 .. Timeout]

NewWatchdog ==
    [state |-> "STOPPED", fed |-> 0, prevArm |-> TRUE,
     gap |-> NoFrame, hold |-> 0]

Older(age) == IF age < Horizon THEN age + 1 ELSE Horizon

\* One unit of time goes by.
Aged(w) ==
    [w EXCEPT !.fed  = Older(@),
              !.gap  = IF @ = NoFrame THEN NoFrame ELSE Older(@),
              !.hold = IF @ > 0 THEN @ - 1 ELSE 0]

Feed(w) == [w EXCEPT !.fed = 0]

\* Every latch resets the edge detector the same way.
Latch(w) == [w EXCEPT !.state = "LATCHED", !.prevArm = TRUE]

\* Variant: a frame without arm takes a latch back to STOPPED.
DisarmAnything(w) == [w EXCEPT !.state = "STOPPED"]

Disarm(w) == IF w.state = "DRIVING" THEN [w EXCEPT !.state = "STOPPED"] ELSE w

------------------------------------------------------------------------------
(* command(): a command frame of the driver arrives.                         *)

\* A receive gap longer than the window, in any state.
Stalls(w) == w.gap > Timeout

\* Variant: a gap counts as a stall only while DRIVING.
JudgedWhileDriving(w) ==
    LET stall == Stalls(w) /\ w.state = "DRIVING"
        fed   == [w EXCEPT !.fed = 0, !.gap = 0,
                           !.hold = IF stall THEN Timeout ELSE @]
    IN  IF stall THEN Latch(fed) ELSE fed

\* The record once the gap is judged: a stall opens the hold window, and while
\* DRIVING it latches.
Judged(w) ==
    LET fed == [w EXCEPT !.fed = 0, !.gap = 0,
                         !.hold = IF Stalls(w) THEN Timeout ELSE @]
    IN  IF Stalls(w) /\ w.state = "DRIVING" THEN Latch(fed) ELSE fed

\* Variant: a release inside the hold window counts, only the press is held back.
EdgedInDrain(w, arm) == [w EXCEPT !.prevArm = arm]

\* The frame's arm bit as the edge detector takes it: inside the hold window
\* every frame reads as held and none is a press.
Pressed(w, arm) == arm /\ ~w.prevArm /\ w.hold = 0
Edged(w, arm)   == [w EXCEPT !.prevArm = arm \/ w.hold > 0]

Command(w, arm, estop, zero, ready) ==
    LET j == Judged(w)
        e == Edged(j, arm)
    IN  IF estop
        THEN Latch(e)
        ELSE IF Pressed(j, arm) /\ ready /\ zero
             THEN [e EXCEPT !.state = "DRIVING"]
             ELSE e

\* The record after the daemon's locked section has taken frame f: command(),
\* then the disarm a frame without arm, or without the green light, means.
Taken(w, f, ready) ==
    LET c == Command(w, f.arm, f.estop, f.zero, ready)
    IN  IF f.arm /\ ready THEN c ELSE Disarm(c)

------------------------------------------------------------------------------
(* check(), polled by the tick thread, and link_lost(), called when the      *)
(* driver's socket closes.                                                    *)

\* Variant: one unit late.
TripsLate(w) == w.state = "DRIVING" /\ w.fed > Timeout + 1

Trips(w) == w.state = "DRIVING" /\ w.fed > Timeout
Check(w) == IF Trips(w) THEN Latch(w) ELSE w

LinkLost(w) ==
    LET forgot == [w EXCEPT !.prevArm = TRUE, !.gap = NoFrame]
    IN  IF w.state = "DRIVING" THEN Latch(forgot) ELSE forgot

=============================================================================
