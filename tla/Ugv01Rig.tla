------------------------------- MODULE Ugv01Rig -------------------------------
(***************************************************************************)
(* ugv-01 as the bridge drives it: the adapter (drive/bridge/ugv01.py)     *)
(* over the controls, the two serial links and the two boards.             *)
(*                                                                         *)
(* The bridge's threads call the adapter, which calls the controls; the    *)
(* bridge's tick thread calls tick(); each link has a reader thread.  The  *)
(* controls' lock makes one step of each call that takes it.  The boards   *)
(* take what is on their wire, and the readers what the boards answered,   *)
(* before time goes on; at once, unless they are slow.                     *)
(***************************************************************************)
EXTENDS Ugv01Controls, DriveBoard

CONSTANTS Gears,       \* gears the cockpit asks for
          Steers,      \* steering it asks for
          Mishaps,     \* what may go wrong
          MaxMishaps,  \* bound: mishaps in a behaviour
          MaxPending,  \* bound: frames waiting on a link before another command
          MaxTimeouts, \* bound: throttle board rests in a behaviour
          MaxTrips     \* bound: drive module trips in a behaviour

ASSUME RigAssumption ==
    /\ Gears \subseteq {"D", "N"} /\ Steers \subseteq {"stop", "turn"}
    /\ Mishaps \subseteq {"slow", "frame lost", "line lost", "port", "jam", "signal", "hang"}
    /\ {MaxMishaps, MaxPending, MaxTimeouts, MaxTrips} \subseteq Nat
    /\ Heartbeat + Stroke + Silence < Horizon

VARIABLES
    c,         \* the controls
    adapter,   \* what the adapter last sent
    call,      \* the parts of apply() that its caller has still to do
    throttle,  \* the throttle board
    drive,     \* the drive module and the brake
    lines,     \* per link: answered and not yet read
    reading,   \* the links whose reader thread runs
    slow,      \* who takes their time: a link's board and reader, or the bridge
    hung,      \* the tick thread no longer runs
    mishaps    \* how many there have been

vars == <<c, adapter, call, throttle, drive, lines, reading, slow, hung, mishaps>>

Commands == [brake : BOOLEAN, throttle : Duties, steer : Steers, gear : Gears]

Parts == <<"gear", "brake", "throttle", "steer">>
Calls == [todo : {SubSeq(Parts, i, 4) : i \in 1 .. 4}, cmd : Commands]
Idle == [todo |-> <<>>]

\* "unknown" is None: nothing sent, or nothing known to be sent.
Adapters == [duty : Duties \cup {"unknown"}, steer : {"stop", "turn", "unknown"},
             gear : {"D", "N", "unknown"}, brake : {"held", "free", "unknown"}]
NewAdapter == [duty |-> "unknown", steer |-> "unknown", gear |-> "unknown", brake |-> "unknown"]

Lines ==
    [cmd : {"duty", "alive", "read", "brake", "steer", "gear", "angles", "trip"},
     ok : BOOLEAN, why : {"", "TIMEOUT", "AT_LIMIT", "STALL", "WD_TRIPPED", "NO_SIGNAL"},
     duty : Duties, count : Nat, at : Places \cup {"none"}]

TypeOK ==
    /\ DOMAIN c = DOMAIN NewControls("between", "D")
    /\ c.broken \subseteq Links /\ c.up \in [Links -> BOOLEAN]
    /\ \A l \in Links :
          /\ \A i \in DOMAIN c.wire[l] : c.wire[l][i] \in Frames
          /\ \A i \in DOMAIN c.pending[l] : c.pending[l][i] \in Txns
          /\ \A i \in DOMAIN lines[l] : lines[l][i] \in Lines
    /\ {c.duty, c.acked} \subseteq Duties
    /\ {c.timeouts, c.trips} \subseteq Nat \cup {Never}
    /\ c.moveDir \in {"none", "apply", "release"} /\ c.moveAge \in 0 .. Stroke + 1
    /\ c.stopApply \in {Never} \cup 0 .. Stroke + 1
    /\ c.steer \in {"stop", "turn"} /\ c.gear \in {"D", "N", "unknown"}
    /\ c.at \in Places /\ c.readAge \in 0 .. MaxAge + 1 /\ c.hb \in 0 .. Horizon
    /\ adapter \in Adapters
    /\ call \in Calls \cup {Idle}
    /\ throttle \in ThrottleBoards
    /\ drive \in DriveBoards(Horizon)
    /\ reading \subseteq Links /\ slow \subseteq Links \cup {"bridge"}
    /\ hung \in BOOLEAN
    /\ mishaps \in 0 .. MaxMishaps

Init ==
    /\ \E place \in Places, g \in Gears :
          /\ c = NewControls(place, g)
          /\ drive = NewDriveBoard(place)
    /\ adapter = NewAdapter
    /\ call = Idle
    /\ throttle = NewThrottleBoard
    /\ lines = [l \in Links |-> <<>>]
    /\ reading = Links
    /\ slow = {}
    /\ hung = FALSE
    /\ mishaps = 0

\* A link that is not slow is served before anything else happens.
Served == \A l \in Links \ slow : c.wire[l] = <<>>

------------------------------------------------------------------------------
(* The adapter: what was sent is sent again only when it changes, and what   *)
(* was refused is tried again on the next frame.  x is [c, a]: the controls  *)
(* and the adapter's memory.                                                 *)

TryGear(x, cmd) ==
    IF cmd.gear # x.a.gear /\ CanGear(x.c)
    THEN [c |-> Gear(x.c, cmd.gear), a |-> [x.a EXCEPT !.gear = cmd.gear]]
    ELSE x

TryBrake(x, cmd) ==
    IF cmd.brake /\ x.a.brake # "held"
    THEN [c |-> ApplyBrake(x.c), a |-> [x.a EXCEPT !.brake = "held", !.duty = "zero"]]
    ELSE IF ~cmd.brake /\ x.a.brake # "free" /\ CanRelease(x.c)
    THEN [c |-> ReleaseBrake(x.c), a |-> [x.a EXCEPT !.brake = "free"]]
    ELSE x

TryThrottle(x, cmd) ==
    IF cmd.throttle # x.a.duty /\ (cmd.throttle = "positive" => CanThrottle(x.c))
    THEN [c |-> SetThrottle(x.c, cmd.throttle), a |-> [x.a EXCEPT !.duty = cmd.throttle]]
    ELSE x

TrySteer(x, cmd) ==
    IF cmd.steer # x.a.steer /\ CanSteer(x.c, cmd.steer)
    THEN [c |-> Steer(x.c, cmd.steer), a |-> [x.a EXCEPT !.steer = cmd.steer]]
    ELSE x

Stopping(x) == [c |-> SafeStop(x.c, TRUE),
                a |-> [x.a EXCEPT !.duty = "zero", !.steer = "unknown", !.brake = "held"]]

Try(part, x, cmd) ==
    CASE part = "gear" -> TryGear(x, cmd)
      [] part = "brake" -> TryBrake(x, cmd)
      [] part = "throttle" -> TryThrottle(x, cmd)
      [] part = "steer" -> TrySteer(x, cmd)

\* All of it, with nothing in between.
Applied(x, cmd) == TrySteer(TryThrottle(TryBrake(TryGear(x, cmd), cmd), cmd), cmd)

Fed == [c EXCEPT !.hb = 0]

Both(x) == c' = x.c /\ adapter' = x.a

------------------------------------------------------------------------------
\* Bounds: on what is waiting, and on how often a board may stop itself.
Room == /\ \A l \in Links : Len(c.pending[l]) < MaxPending
        /\ throttle.timeouts < MaxTimeouts /\ drive.trips < MaxTrips

\* apply(): one command frame of the cockpit.  Each part takes the controls' lock
\* for itself, so where the bridge is slow the other threads come in between.
Command(cmd) ==
    /\ Served /\ Room /\ call = Idle
    /\ IF "bridge" \in slow
       THEN c' = Fed /\ adapter' = adapter /\ call' = [todo |-> Parts, cmd |-> cmd]
       ELSE Both(Applied([c |-> Fed, a |-> adapter], cmd)) /\ call' = call
    /\ UNCHANGED <<throttle, drive, lines, reading, slow, hung, mishaps>>

CallGoesOn ==
    /\ Served /\ call # Idle
    /\ Both(Try(Head(call.todo), [c |-> c, a |-> adapter], call.cmd))
    /\ call' = IF Len(call.todo) = 1 THEN Idle ELSE [call EXCEPT !.todo = Tail(@)]
    /\ UNCHANGED <<throttle, drive, lines, reading, slow, hung, mishaps>>

\* apply() of a frame that holds the estop; safe_stop(), for a bridge that lost
\* its driver.
Stop(from) ==
    /\ Served /\ Room /\ call = Idle
    /\ Both(Stopping([c |-> from, a |-> adapter]))
    /\ UNCHANGED <<call, throttle, drive, lines, reading, slow, hung, mishaps>>

EstopHeld   == Stop(Fed)
BridgeStops == Stop(c)

\* resume(): the operator has armed again.
Resume ==
    /\ Served /\ call = Idle /\ CanResume(c)
    /\ c' = Unlatched(c)
    /\ adapter' = [adapter EXCEPT !.duty = "zero", !.steer = "unknown"]
    /\ UNCHANGED <<call, throttle, drive, lines, reading, slow, hung, mishaps>>

\* clear_faults(): a human's decision.
HumanClears ==
    /\ Served /\ Room /\ c.faulted
    /\ c' = ClearFaults(c)
    /\ UNCHANGED <<adapter, call, throttle, drive, lines, reading, slow, hung, mishaps>>

TickRuns ==
    /\ Served /\ ~hung
    /\ c' = Tick(c)
    /\ UNCHANGED <<adapter, call, throttle, drive, lines, reading, slow, hung, mishaps>>

\* A reader thread takes a line.
Read(l) ==
    /\ Served /\ l \in reading /\ l \notin c.broken /\ lines[l] # <<>>
    /\ c' = OnLine(c, l, Head(lines[l]))
    /\ lines' = [lines EXCEPT ![l] = Tail(@)]
    /\ UNCHANGED <<adapter, call, throttle, drive, reading, slow, hung, mishaps>>

\* A reader thread meets the broken port, and ends.
ReaderEnds(l) ==
    /\ Served /\ l \in reading /\ l \in c.broken
    /\ c' = LinkLost(c, l)
    /\ reading' = reading \ {l}
    /\ UNCHANGED <<adapter, call, throttle, drive, lines, slow, hung, mishaps>>

------------------------------------------------------------------------------
(* The boards.                                                               *)

\* A line on its way to the host, over a port that works.  Where the link is not slow
\* it is read at once, k being the controls with everything else this step does
\* to them.
Heard(k, l, r) == IF l \in slow \cup k.broken THEN k ELSE OnLine(k, l, r)
Queued(l, r) == IF l \in slow \ c.broken THEN [lines EXCEPT ![l] = Append(@, r)] ELSE lines

\* Bound: how much goes wrong.
Befalls(kind) == kind \in Mishaps /\ mishaps < MaxMishaps /\ mishaps' = mishaps + 1

Answer(l, k, r) == c' = Heard(k, l, r) /\ lines' = Queued(l, r)

Untaken(l) == [c EXCEPT !.wire[l] = Tail(@)]

ThrottleBoardTakes ==
    /\ c.wire["accel"] # <<>> /\ ("accel" \in slow => Served)
    /\ LET f == Head(c.wire["accel"])
       IN  /\ throttle' = ThrottleTakes(throttle, f)
           /\ Answer("accel", Untaken("accel"), ThrottleAnswers(throttle, f))
    /\ UNCHANGED <<adapter, call, drive, reading, slow, hung, mishaps>>

DriveBoardTakes ==
    /\ c.wire["drive"] # <<>>
    /\ LET f == Head(c.wire["drive"])
       IN  /\ drive' = DriveTakes(drive, f)
           /\ Answer("drive", Untaken("drive"), DriveAnswers(drive, f, TRUE))
    /\ UNCHANGED <<adapter, call, throttle, reading, slow, hung, mishaps>>

\* A frame that noise spoils is dropped by the board.
FrameLost(l) ==
    /\ c.wire[l] # <<>> /\ Befalls("frame lost")
    /\ c' = Untaken(l)
    /\ UNCHANGED <<adapter, call, throttle, drive, lines, reading, slow, hung>>

\* A line that noise spoils is dropped by the host.
LineLost(l) ==
    /\ c.wire[l] # <<>> /\ Befalls("line lost")
    /\ c' = Untaken(l)
    /\ IF l = "accel"
       THEN throttle' = ThrottleTakes(throttle, Head(c.wire[l])) /\ drive' = drive
       ELSE drive' = DriveTakes(drive, Head(c.wire[l])) /\ throttle' = throttle
    /\ UNCHANGED <<adapter, call, lines, reading, slow, hung>>

\* A sensor fails under a read.
SignalFails ==
    /\ c.wire["drive"] # <<>> /\ Befalls("signal")
    /\ Head(c.wire["drive"]).cmd = "angles"
    /\ Answer("drive", Untaken("drive"), DriveAnswers(drive, Head(c.wire["drive"]), FALSE))
    /\ UNCHANGED <<adapter, call, throttle, drive, reading, slow, hung>>

\* A line the drive module sends of its own accord.
Notice(b, cmd, why) ==
    [cmd |-> cmd, ok |-> why = "", why |-> why, duty |-> "zero", count |-> b.trips, at |-> b.at]

BrakeJams ==
    /\ drive.brake # "stop" /\ Befalls("jam")
    /\ drive' = [drive EXCEPT !.stuck = TRUE]
    /\ UNCHANGED <<c, adapter, call, throttle, lines, reading, slow, hung>>

\* The board may notice: the relay goes off, and a line that answers no frame
\* says so.  Noise on the angle may also keep it from noticing.
BrakeStalls ==
    /\ drive.brake # "stop" /\ drive.stuck
    /\ drive' = Stalled(drive)
    /\ Answer("drive", c, Notice(drive, "brake", "STALL"))
    /\ UNCHANGED <<adapter, call, throttle, reading, slow, hung, mishaps>>

\* For the rest of this unit of time, what is sent over a link waits to be taken
\* and its answers wait to be read, or the bridge's calls are interrupted.
Slows(who) ==
    /\ who \notin slow /\ Befalls("slow")
    /\ slow' = slow \cup {who}
    /\ UNCHANGED <<c, adapter, call, throttle, drive, lines, reading, hung>>

PortBreaks(l) ==
    /\ l \notin c.broken /\ Befalls("port")
    /\ c' = [c EXCEPT !.broken = @ \cup {l}]
    /\ lines' = [lines EXCEPT ![l] = <<>>]
    /\ UNCHANGED <<adapter, call, throttle, drive, reading, slow, hung>>

TickThreadHangs ==
    /\ ~hung /\ Befalls("hang")
    /\ hung' = TRUE
    /\ UNCHANGED <<c, adapter, call, throttle, drive, lines, reading, slow>>

Elapse ==
    /\ call = Idle /\ (c.ticked \/ hung)
    /\ \A l \in Links : c.wire[l] = <<>>
    /\ \A l \in reading : lines[l] = <<>> /\ l \notin c.broken
    /\ slow' = {}
    /\ throttle' = ThrottleAged(throttle)
    /\ drive' = DriveAged(drive, Horizon)
    /\ IF drive'.trips > drive.trips
       THEN Answer("drive", ControlsAged(c), Notice(drive', "trip", ""))
       ELSE c' = ControlsAged(c) /\ lines' = lines
    /\ UNCHANGED <<adapter, call, reading, hung, mishaps>>

Next ==
    \/ \E cmd \in Commands : Command(cmd)
    \/ CallGoesOn
    \/ EstopHeld \/ BridgeStops \/ Resume \/ HumanClears \/ TickRuns
    \/ \E l \in Links : Read(l) \/ ReaderEnds(l) \/ FrameLost(l) \/ LineLost(l)
                       \/ PortBreaks(l)
    \/ \E who \in Links \cup {"bridge"} : Slows(who)
    \/ ThrottleBoardTakes \/ DriveBoardTakes \/ SignalFails \/ BrakeJams \/ BrakeStalls \/ TickThreadHangs
    \/ Elapse

Spec == Init /\ [][Next]_vars

------------------------------------------------------------------------------
(* What must hold.                                                           *)

\* A dead command path keeps nothing on (controls.py, lines 28 to 35): the
\* throttle is off when the heartbeat's window and the board's own silence have
\* passed since the bridge last commanded, whatever the polls and probes do,
\* with the tick thread hung and with frames lost.
ThrottleRests == throttle.duty = "positive" => c.hb <= Heartbeat + Silence

\* So is the steering, except that a stop's brake apply is kept alive for its stroke,
\* and with it a steering whose stop frame was lost.
SteeringRests == drive.steer # "stop" => c.hb <= Heartbeat + Stroke + Silence

SilenceRests == ThrottleRests /\ SteeringRests

\* A stop starts the brake once in its episode, which resume() and clear_faults()
\* end, however many stops, faults and held estop frames follow the first
\* (controls.py, "only once per stop episode"); within it only the operator's own
\* press does.
Pressed == adapter.brake # "held" /\ adapter'.brake = "held"
StopAppliesOnce ==
    [][c.stopApply # Never /\ ~Resume /\ ~HumanClears =>
          \A i \in DOMAIN c'.wire["drive"] :
             i > Len(c.wire["drive"]) /\ c'.wire["drive"][i].arg = "apply" => Pressed]_vars

\* While the tick thread runs, no brake move outlasts the stroke by more than
\* the board's silence (tick(), step 6).
BrakeMoveIsBounded == drive.brake # "stop" /\ ~hung => drive.on <= Stroke + Silence

\* The throttle never leaves rest against a brake that is being applied: the
\* release it waited for is the last thing the brake was told.  True while one
\* thing goes wrong, and whatever goes wrong where nobody is slow; a slow link and
\* a brake that stalls break it (MCUgv01Stall).
StartsReleased ==
    [][c.duty = "zero" /\ c'.duty = "positive" =>
          /\ drive.brake # "apply" /\ drive.at # "applied"
          /\ \A i \in DOMAIN c.wire["drive"] : c.wire["drive"][i].arg # "apply"]_vars

\* A fault and a stop are never apart, whichever call recorded the fault, and
\* nothing is commanded to move under either.
FaultIsStopped ==
    /\ c.faulted \/ c.boardTripped => c.stopped
    /\ c.stopped => c.duty = "zero" /\ c.steer = "stop"

\* A stop reported as acknowledged is one: the throttle is at rest, the steering
\* is off, and nothing is on its way to change that.
AckedStopIsOff ==
    StopAcked(c) =>
        /\ throttle.duty = "zero" /\ drive.steer = "stop"
        /\ \A i \in DOMAIN c.wire["accel"] : c.wire["accel"][i].arg # "positive"
        /\ \A i \in DOMAIN c.wire["drive"] : c.wire["drive"][i].arg # "turn"

\* The acknowledgement that a gear change and a start from rest wait for is that
\* of the latest duty frame, and the board has taken it ("A late acknowledgement
\* of an earlier frame never stands in for a later one", controls.py, line 17).
\* Not so on a slow link that loses a zero.
AckIsOfTheLatest ==
    c.latestAcked => \A i \in DOMAIN c.wire["accel"] : c.wire["accel"][i].cmd # "duty"

==============================================================================
