--------------------------------- MODULE Bench ---------------------------------
(***************************************************************************)
(* The bench vehicle: how a frame becomes a command (bridge/contract.py),  *)
(* the mock vehicle that obeys it (bridge/vehicle.py), and the reporter    *)
(* that puts it on TRACK's map (bridge/link_reporter.py).                  *)
(*                                                                         *)
(* The daemon and its watchdog are BridgeDaemon; here a frame is let       *)
(* through, neutralised or answered with a stop as they would.  A client's *)
(* reader judges a frame under the watchdog's lock and applies it after,   *)
(* and this vehicle, unlike ugv-01, has no latch of its own to refuse what *)
(* comes late.  Speeds and throttle are counted in small units, headings   *)
(* in quarters, and a tick has a fixed length.                             *)
(***************************************************************************)
EXTENDS Integers

CONSTANTS
    Readers,         \* the threads that read a client each
    DriverFrames,    \* the frames a driver may send
    Full,            \* throttle units in a full throttle
    PerUnit,         \* speed a unit of throttle aims for
    Gain, Loss,      \* speed gained and lost in a tick (8 and 14 km/h a second)
    MaxCharge, Low,  \* battery units, and how many are too few to drive
    Extremes,        \* numbers a frame may carry, in throttle units
    MaxReach           \* bound on the reported place, each way

ASSUME BenchAssumption ==
    /\ {Full, PerUnit, Gain, Loss, MaxCharge} \subseteq Nat \ {0}
    /\ Low \in Nat /\ Extremes \subseteq Int /\ MaxReach \in Nat

Gears == {"R", "N", "F"}

\* What may stand where a number should: a number, text, or a JSON NaN.
Numerals == [is : {"number"}, n : Extremes] \cup {[is |-> "text"], [is |-> "nan"]}

Frames == [throttle : Numerals, steer : {-1, 0, 1}, gear : Gears \cup {"?"},
           ignition : BOOLEAN, estop : BOOLEAN]

ASSUME FramesAssumption == DriverFrames \subseteq Frames

VARIABLES
    state,    \* the watchdog's
    hands,    \* per reader: the frame it has judged and not yet applied
    cmd,      \* the command the mock obeys
    velocity, bearing, charge,
    leftover, \* that command outlives the leave it was given with (observer)
    idle,     \* ticks since the vehicle had leave, or a leftover (observer)
    reckoned,    \* where the reporter believes it is
    reported      \* its last heartbeat

bench == <<state, hands, cmd, velocity, bearing, charge, leftover, idle, reckoned, reported>>
whereabouts == <<velocity, bearing, charge, reckoned, reported>>

TopSpeed == Full * PerUnit
RestTicks == (TopSpeed + Loss - 1) \div Loss

BenchCommands == [throttle : 0..Full, steer : {-1, 0, 1}, gear : Gears,
                  ignition : BOOLEAN, estop : BOOLEAN]
NeutralCommand == [throttle |-> 0, steer |-> 0, gear |-> "N", ignition |-> FALSE, estop |-> FALSE]
Hands == [frame : BenchCommands, judged : {"none", "drives", "holds"}]
EmptyHand == [frame |-> NeutralCommand, judged |-> "none"]
Places == [north : -MaxReach..MaxReach, east : -MaxReach..MaxReach]

BenchOK ==
    /\ state \in {"STOPPED", "DRIVING", "LATCHED"} /\ cmd \in BenchCommands
    /\ hands \in [Readers -> Hands] /\ leftover \in BOOLEAN
    /\ velocity \in 0..TopSpeed /\ bearing \in 0..3 /\ charge \in 0..MaxCharge
    /\ idle \in 0..RestTicks /\ reckoned \in Places
    /\ reported \in [status : {"NONE", "ACTIVE", "STANDBY"}, charge : 0..MaxCharge]

BenchInit ==
    /\ state = "STOPPED" /\ cmd = NeutralCommand
    /\ hands = [r \in Readers |-> EmptyHand] /\ leftover = FALSE
    /\ velocity = 0 /\ bearing = 0 /\ charge = MaxCharge /\ idle = 0
    /\ reckoned = [north |-> 0, east |-> 0]
    /\ reported = [status |-> "NONE", charge |-> 0]

------------------------------------------------------------------------------
(* Command.from_wire.                                                         *)

\* _num: text is the default, 0; "nan" is a number to Python.
Num(v) == IF v.is = "text" THEN [is |-> "number", n |-> 0] ELSE v

\* max(0, min(1, n)): a NaN loses every comparison, and 1 is what is left.
ClampUnit(v) ==
    CASE v.is = "nan" -> Full
      [] v.n < 0      -> 0
      [] v.n > Full   -> Full
      [] OTHER        -> v.n

FromWire(frame) ==
    [frame EXCEPT !.throttle = ClampUnit(Num(@)), !.gear = IF @ \in Gears THEN @ ELSE "N"]

------------------------------------------------------------------------------
(* Frames and stops.                                                          *)

\* self_test: of its checks only the battery's can fail.
SelfTest == charge > Low

Ready(frame) == FromWire(frame).ignition /\ SelfTest

Judges(r, c, verdict) ==
    /\ hands[r].judged = "none"
    /\ hands' = [hands EXCEPT ![r] = [frame |-> c, judged |-> verdict]]

\* A frame with leave to drive will be applied as it is.  Arming needs zero
\* throttle and a passing self-test, staying armed the test alone.
FrameDrives(r, frame) ==
    /\ Ready(frame) /\ ~FromWire(frame).estop
    /\ state # "DRIVING" => FromWire(frame).throttle = 0
    /\ state' = "DRIVING" /\ idle' = 0
    /\ Judges(r, FromWire(frame), "drives")
    /\ UNCHANGED <<cmd, leftover, whereabouts>>

\* Of a frame without it only the state controls will.  It latches or disarms;
\* one that finds the vehicle driving and not ready is answered with a stop.
FrameHolds(r, frame) ==
    /\ state = "DRIVING" => Ready(frame)
    /\ state' = IF FromWire(frame).estop THEN "LATCHED"
                ELSE IF state = "DRIVING" THEN "STOPPED" ELSE state
    /\ leftover' = (leftover \/ state = "DRIVING")
    /\ Judges(r, [FromWire(frame) EXCEPT !.throttle = 0, !.steer = 0], "holds")
    /\ UNCHANGED <<cmd, idle, whereabouts>>

\* apply, after the lock: whatever has happened to the state since.
Applies(r) ==
    /\ hands[r].judged # "none"
    /\ cmd' = hands[r].frame
    /\ leftover' = (hands[r].judged = "drives" /\ state # "DRIVING")
    /\ idle' = IF hands[r].judged = "drives" THEN 0 ELSE idle
    /\ hands' = [hands EXCEPT ![r] = EmptyHand]
    /\ UNCHANGED <<state, whereabouts>>

\* safe_stop.  (Variant: the throttle is left as it is.)
SafeStop(c) == [c EXCEPT !.throttle = 0, !.steer = 0]
SteerOnly(c) == [c EXCEPT !.steer = 0]
SafeStopped(c) == SafeStop(c)

\* Silence, a stall, a check that fails, a link that drops: each stops a vehicle
\* that is driving, and none of them one that is not.
Stops ==
    /\ state = "DRIVING" /\ state' \in {"LATCHED", "STOPPED"}
    /\ cmd' = SafeStopped(cmd)
    /\ leftover' = FALSE
    /\ UNCHANGED <<hands, idle, whereabouts>>

------------------------------------------------------------------------------
(* MockVehicle.tick: the speed approaches its target, the battery drains with *)
(* throttle and trickles at idle, and a moving vehicle turns.                 *)

MovingAllowed == cmd.ignition /\ cmd.gear \in {"F", "R"} /\ ~cmd.estop
Target == IF MovingAllowed THEN cmd.throttle * PerUnit ELSE 0

Approach ==
    CASE Target > velocity + Gain -> velocity + Gain
      [] Target < velocity - Loss -> velocity - Loss
      [] OTHER                 -> Target

Sign == IF cmd.gear = "F" THEN 1 ELSE -1

\* (Variant: below nothing.)
BelowNothing(c) == c - 1
Drained(c) == IF c = 0 THEN 0 ELSE c - 1

Tick ==
    /\ velocity' = Approach
    /\ charge' \in {charge, Drained(charge)}
    /\ charge' # charge => cmd.ignition
    /\ MovingAllowed /\ cmd.throttle > 0 /\ charge > 0 => charge' # charge
    /\ bearing' = IF velocity' = 0 THEN bearing ELSE (bearing + Sign * cmd.steer) % 4
    /\ idle' = IF idle = RestTicks \/ state = "DRIVING" \/ leftover THEN idle ELSE idle + 1
    /\ UNCHANGED <<state, hands, cmd, leftover, reckoned, reported>>

------------------------------------------------------------------------------
(* The reporter.                                                              *)

\* read(): the mock does not know the watchdog's state.
Read == [velocity |-> velocity, bearing |-> bearing, charge |-> charge, state |-> "STOPPED"]

GoesNorth == <<1, 0, -1, 0>>[Read.bearing + 1]
GoesEast == <<0, 1, 0, -1>>[Read.bearing + 1]

\* dead_reckon: forward along the heading, whichever gear the vehicle is in.
DeadReckon ==
    IF Read.velocity = 0 THEN reckoned
    ELSE [north |-> reckoned.north + GoesNorth, east |-> reckoned.east + GoesEast]

\* step, with every fourth sample a heartbeat.
ReportStep(heartbeat) ==
    /\ DeadReckon \in Places
    /\ reckoned' = DeadReckon
    /\ reported' = IF heartbeat
               THEN [status |-> IF Read.state = "DRIVING" THEN "ACTIVE" ELSE "STANDBY",
                     charge |-> Read.charge]
               ELSE reported
    /\ UNCHANGED <<state, hands, cmd, velocity, bearing, charge, leftover, idle>>

------------------------------------------------------------------------------
BenchNext ==
    \/ \E r \in Readers :
          \/ \E frame \in DriverFrames : FrameDrives(r, frame) \/ FrameHolds(r, frame)
          \/ Applies(r)
    \/ Stops \/ Tick
    \/ \E heartbeat \in BOOLEAN : ReportStep(heartbeat)

BenchSpec == BenchInit /\ [][BenchNext]_bench

------------------------------------------------------------------------------
(* Properties.                                                                *)

\* However the vehicle lost its leave to drive, and whatever frames came since,
\* it is at rest after the ticks a full stop takes, counted from the stop or from
\* the frame that gave the leave up being applied; the one exception is a frame
\* judged before a stop and applied after it, on which this vehicle drives until
\* the next frame is applied or a rearmed driver is stopped (daemon.py:281-321,
\* vehicle.py:67-79).
StopRests == idle = RestTicks => velocity = 0

\* "Bad values clamp or fall back to safe defaults" (contract.py): what is not a
\* number is no throttle.
BadValuesAreSafe ==
    [][\A r \in Readers, frame \in DriverFrames :
           frame.throttle.is # "number" /\ FrameDrives(r, frame) => hands'[r].frame.throttle = 0]_bench

\* "daemon overwrites from the watchdog" (vehicle.py): the state a heartbeat is
\* made from is the watchdog's, so TRACK hears of a vehicle being driven.
DrivingIsReported ==
    [][ReportStep(TRUE) /\ state = "DRIVING" => reported'.status = "ACTIVE"]_bench

=============================================================================
