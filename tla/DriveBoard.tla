------------------------------ MODULE DriveBoard ------------------------------
(***************************************************************************)
(* The drive module of ugv-01 on firmware 4.1.6 (watchdog.cpp,             *)
(* actuators.cpp, the motion commands of serial_protocol.cpp, the limits   *)
(* of angle_limits.cpp) with the brake it moves.  A record and the         *)
(* operators on it.                                                        *)
(*                                                                         *)
(* Its relays go off after a silence that only an accepted motion command  *)
(* or the keepalive breaks; the trip refuses every move until an explicit  *)
(* stop.  An angle is a place: the brake's two ends and what lies between. *)
(* Steering has one direction, since nothing here tells left from right.   *)
(***************************************************************************)
EXTENDS ThrottleBoard

Places == {"released", "between", "applied"}
End == [apply |-> "applied", release |-> "released"]

(***************************************************************************)
(* brake, steer  actBrakeState(), actSteerState(): the relay that is on    *)
(* on       how long ago that brake relay was last told to go on (observer)*)
(* at       where the brake is                                             *)
(* stuck    the brake meets something and moves no further                *)
(* stall    brkStallTripDir while brkStallTrip                             *)
(* quiet    age of lastAcceptedMs, while a relay is on                     *)
(* tripped  tripped                                                        *)
(* trips    timeouts                                                       *)
(***************************************************************************)
DriveBoards(limit) ==
    [brake : {"stop", "apply", "release"}, steer : {"stop", "turn"},
     on : 0 .. limit + 1, at : Places, stall : {"none", "apply", "release"},
     stuck : BOOLEAN, quiet : 0 .. Silence + 1, tripped : BOOLEAN, trips : Nat]

NewDriveBoard(place) ==
    [brake |-> "stop", steer |-> "stop", on |-> 0, at |-> place, stall |-> "none",
     stuck |-> FALSE, quiet |-> 0, tripped |-> FALSE, trips |-> 0]

\* limitsBrakeBlockReason(): why a move in this direction does not start.
BlockReason(b, dir) ==
    IF dir = "stop" THEN ""
    ELSE IF b.stall = dir THEN "STALL"
    ELSE IF b.at = End[dir] THEN "AT_LIMIT"
    ELSE ""

\* wdMoveAllowed()
Refused(b, frame) == b.tripped /\ frame.cmd \in {"brake", "steer"} /\ frame.arg # "stop"

WhyNot(b, frame) ==
    IF Refused(b, frame) THEN "WD_TRIPPED"
    ELSE IF frame.cmd = "brake" THEN BlockReason(b, frame.arg)
    ELSE ""

SwitchBrake(b, dir) == [b EXCEPT !.brake = dir, !.on = 0]

\* cmdBrakeSw(), cmdSteerSw(), cmdKeepalive(); cmdGear() and the angle reads
\* leave all this alone.
DriveTakes(b, frame) ==
    LET motion  == frame.cmd \in {"brake", "steer"}
        cleared == IF motion /\ frame.arg = "stop" THEN [b EXCEPT !.tripped = FALSE] ELSE b
        fresh   == [cleared EXCEPT !.quiet = 0]
        why     == WhyNot(b, frame)
    IN  CASE why = "WD_TRIPPED"                     -> b
          [] why \in {"STALL", "AT_LIMIT"}          -> SwitchBrake(b, "stop")
          [] why = "" /\ frame.cmd = "brake"        -> SwitchBrake(fresh, frame.arg)
          [] why = "" /\ frame.cmd = "steer"        -> [fresh EXCEPT !.steer = frame.arg]
          [] why = "" /\ frame.cmd = "alive"        -> fresh
          [] OTHER                                  -> b

\* The line it answers; a sensor may fail under a read (signal).
DriveAnswers(b, frame, signal) ==
    LET why == IF frame.cmd = "angles" /\ ~signal THEN "NO_SIGNAL" ELSE WhyNot(b, frame)
    IN  [cmd |-> frame.cmd, ok |-> why = "", why |-> why, duty |-> "zero",
         count |-> b.trips, at |-> b.at]

AllOff(b) ==
    [SwitchBrake(b, "stop") EXCEPT !.steer = "stop", !.tripped = TRUE, !.trips = @ + 1]

IsMoving(b) == b.brake # "stop" \/ b.steer # "stop"

\* wdUpdate(), the silence half.
SilenceTrips(b) == IsMoving(b) /\ ~b.tripped /\ b.quiet > Silence

\* The brake moves one place towards the end its relay drives it to, and the
\* board switches the relay off there (brakeLimitsUpdate()).
Moved(b) ==
    IF b.brake = "stop" \/ b.stuck THEN b
    ELSE LET there == IF b.at = "between" THEN End[b.brake]
                      ELSE IF b.at = End[b.brake] THEN b.at ELSE "between"
             m == [b EXCEPT !.at = there, !.stall = "none"]
         IN  IF there = End[b.brake] THEN SwitchBrake(m, "stop") ELSE m

\* A unit of time, limit being how far "on" is counted.
DriveAged(b, limit) ==
    LET m == Moved(b)
        a == [m EXCEPT !.quiet = IF IsMoving(m) THEN Past(@, Silence) ELSE 0,
                       !.on = IF m.brake = "stop" THEN 0 ELSE Past(@, limit)]
    IN  IF SilenceTrips(a) THEN AllOff(a) ELSE a

\* The relay on and the angle the same for BRK_STALL_MS, with no noise on it.
Stalled(b) == [SwitchBrake(b, "stop") EXCEPT !.stall = b.brake]

==============================================================================
