---------------------------- MODULE Ugv01Controls ----------------------------
(***************************************************************************)
(* The one owner of ugv-01's two boards                                    *)
(* (drive/pilot/hal/drivers/ugv01/controls.py), from the moment start()    *)
(* has returned with motion armed.  Its state is a record c and each of    *)
(* its methods an operator on it: everything between taking and releasing  *)
(* the lock is one operator, nested calls included.                        *)
(*                                                                         *)
(* The _seq of a frame only ever serves to ask whether a frame is the      *)
(* latest duty frame, the release the brake waits for, or one of the       *)
(* stop's.  A pending transaction carries those three as marks instead.    *)
(***************************************************************************)
EXTENDS Integers, Sequences, SequencesExt, ThrottleBoard

CONSTANTS Reply,      \* _reply_timeout
          Heartbeat,  \* _hb_timeout
          Stroke,     \* _brake_stroke_max
          MaxAge,     \* _feedback_max_age
          Horizon     \* bound: how far the heartbeat's age is counted

ASSUME TimesAssumption ==
    /\ {Reply, Heartbeat, Stroke, MaxAge, Horizon} \subseteq Nat
    /\ Heartbeat < Horizon

Links == {"accel", "drive"}
Never == -1

Marks == {"latest", "release", "stop"}
Frames == [cmd : {"duty", "alive", "read", "brake", "steer", "gear", "angles"},
           arg : {"zero", "positive", "stop", "apply", "release", "turn", "D", "N", ""}]
Txns == [cmd : {f.cmd : f \in Frames}, arg : {f.arg : f \in Frames},
         age : 0 .. Reply + 1, marks : SUBSET Marks]

(***************************************************************************)
(* up, broken    link.connected; the port raises whatever is asked of it   *)
(* wire          written to the port, not yet taken by the board           *)
(* pending       link.pending                                              *)
(* heard         the throttle board answered in this unit of time          *)
(* ticked        tick() ran in this unit of time.  A unit is no shorter    *)
(*               than _accel_probe_s, _drive_keepalive_s and _poll_period, *)
(*               so the unit's first tick finds them all over              *)
(* alive         _accel_alive                                              *)
(* duty, acked   _duty_commanded, _duty_acked                              *)
(* latestAcked   _duty_acked_seq = _duty_last_seq                          *)
(* timeouts, trips   _accel_timeouts, _drive_trips                         *)
(* announced, boardTripped   _trip_announced, _board_tripped               *)
(* applied, moving   _brake_applied, _brake_moving                         *)
(* moveDir, moveAge  _brake_move: "none", or the direction and its age     *)
(* stopApply     age of _stop_brake_apply_at, or Never                     *)
(* steer         _steer_moving                                             *)
(* gear          _gear_acked                                               *)
(* at, readAge   _brake_angle; the age of both readings                    *)
(* hb            age of _last_heartbeat                                    *)
(* stopped, faulted, whole   _safe_stopped; _faults is not empty; no stop  *)
(*               frame failed to go out or went without its answer         *)
(***************************************************************************)
NewControls(place, gear) ==
    [up |-> [l \in Links |-> TRUE], broken |-> {},
     wire |-> [l \in Links |-> <<>>], pending |-> [l \in Links |-> <<>>],
     heard |-> TRUE, ticked |-> FALSE,
     alive |-> TRUE, duty |-> "zero", acked |-> "zero", latestAcked |-> TRUE,
     timeouts |-> Never, trips |-> 0, announced |-> FALSE, boardTripped |-> FALSE,
     applied |-> TRUE, moving |-> FALSE, moveDir |-> "none", moveAge |-> 0,
     stopApply |-> Never, steer |-> "stop", gear |-> gear,
     at |-> place, readAge |-> 0, hb |-> Horizon,
     stopped |-> FALSE, faulted |-> FALSE, whole |-> TRUE]

------------------------------------------------------------------------------
(* Writing.                                                                  *)

\* A frame sent to l now becomes a transaction.
Goes(c, l) == c.up[l] /\ l \notin c.broken

Unmarked(c, mark) ==
    [c EXCEPT !.pending = [l \in Links |->
        [i \in DOMAIN c.pending[l] |-> [c.pending[l][i] EXCEPT !.marks = @ \ {mark}]]]]

\* _write() inside safe_stop(): a port that raises is a fault, and no more.
WriteInStop(c, l, cmd, arg, marks) ==
    IF Goes(c, l)
    THEN [c EXCEPT !.wire[l] = Append(@, [cmd |-> cmd, arg |-> arg]),
                   !.pending[l] = Append(@, [cmd |-> cmd, arg |-> arg, age |-> 0, marks |-> marks])]
    ELSE IF c.up[l]
    THEN [c EXCEPT !.up[l] = FALSE, !.faulted = TRUE]
    ELSE c

\* A duty frame, the latest from now on if it went out.
DutyInStop(c, d, marks) ==
    IF Goes(c, "accel")
    THEN [WriteInStop(Unmarked(c, "latest"), "accel", "duty", d, marks \cup {"latest"})
              EXCEPT !.latestAcked = FALSE]
    ELSE WriteInStop(c, "accel", "duty", d, marks)

------------------------------------------------------------------------------
(* safe_stop() and _fault().  brake is FALSE when the stop must not touch    *)
(* the brake beyond halting it.                                              *)

\* Variant: a stop within the episode starts the brake again.
AppliesEachStop(c, brake) == brake /\ ~c.boardTripped

AppliesBrake(c, brake) == brake /\ ~c.boardTripped /\ c.stopApply = Never

\* The first stop's stroke goes on under its own deadline.
LetsStrokeRun(c, brake) ==
    /\ brake /\ ~c.boardTripped /\ c.moving
    /\ c.stopApply # Never /\ c.stopApply <= Stroke

\* Variant: a stop one board got is whole.
AnyGoes(c) == \E l \in Links : Goes(c, l)

AllGo(c) == \A l \in Links : Goes(c, l)

SafeStop(c, brake) ==
    LET reset == [Unmarked(Unmarked(c, "stop"), "release") EXCEPT
                     !.stopped = TRUE, !.steer = "stop", !.duty = "zero"]
        rest  == DutyInStop(reset, "zero", {"stop"})
        braked == IF AppliesBrake(rest, brake)
                  THEN WriteInStop([rest EXCEPT !.applied = TRUE, !.moving = TRUE,
                                        !.stopApply = 0, !.moveDir = "apply", !.moveAge = 0],
                                   "drive", "brake", "apply", {"stop"})
                  ELSE IF LetsStrokeRun(rest, brake)
                  THEN rest
                  ELSE WriteInStop([rest EXCEPT !.moving = FALSE], "drive", "brake", "stop", {"stop"})
    IN  [WriteInStop(braked, "drive", "steer", "stop", {"stop"}) EXCEPT
            !.whole = AllGo(c)]

Fault(c, brake) ==
    SafeStop([c EXCEPT !.faulted = TRUE, !.boardTripped = @ \/ ~brake], brake)

\* Variant: a failed write is recorded, and nobody stops.
RecordedOnly(c, l, cmd, arg, marks) == WriteInStop(c, l, cmd, arg, marks)

\* _write() elsewhere: a port that raises stops the vehicle.
Write(c, l, cmd, arg, marks) ==
    LET w == WriteInStop(c, l, cmd, arg, marks)
    IN  IF c.up[l] /\ ~w.up[l] THEN SafeStop(w, TRUE) ELSE w

WriteDuty(c, d) ==
    LET w == DutyInStop(c, d, {})
    IN  IF c.up["accel"] /\ ~w.up["accel"] THEN SafeStop(w, TRUE) ELSE w

\* What snapshot() reports of a stop.
StopAcked(c) ==
    /\ c.stopped /\ c.whole
    /\ \A l \in Links : \A i \in DOMAIN c.pending[l] : "stop" \notin c.pending[l][i].marks

------------------------------------------------------------------------------
(* Commands.  Each Can... is the command's own refusals.                     *)

\* _check_open()
Open(c) == ~c.faulted /\ ~c.stopped

Fresh(c) == c.readAge <= MaxAge

ZeroAcked(c) == c.duty = "zero" /\ c.acked = "zero" /\ c.latestAcked

CanThrottle(c) ==
    /\ Open(c) /\ c.up["drive"] /\ c.alive
    /\ c.duty = "zero" => ZeroAcked(c)
    /\ ~c.applied
    /\ c.gear = "D"
    /\ Fresh(c) /\ c.at = "released"

SetThrottle(c, d) == WriteDuty([c EXCEPT !.duty = d], d)

\* brake("apply"): throttle off before the brake moves.
ApplyBrake(c) ==
    LET off == WriteDuty([Unmarked(c, "release") EXCEPT !.applied = TRUE, !.duty = "zero"], "zero")
    IN  Write([off EXCEPT !.moving = TRUE, !.moveDir = "apply", !.moveAge = 0],
              "drive", "brake", "apply", {})

CanRelease(c) == Open(c)

\* brake("release"): this release is the one that counts from now on.
ReleaseBrake(c) ==
    Write([Unmarked(c, "release") EXCEPT !.moving = TRUE, !.moveDir = "release", !.moveAge = 0],
          "drive", "brake", "release", {"release"})

CanSteer(c, dir) == dir = "stop" \/ (Open(c) /\ Fresh(c))
Steer(c, dir) == Write([c EXCEPT !.steer = dir], "drive", "steer", dir, {})

CanGear(c) == Open(c) /\ ZeroAcked(c)
Gear(c, g) == Write(c, "drive", "gear", g, {})

\* What clear_faults() and resume_after_stop() both do: the latch goes, and the
\* stop's brake apply with it.
Unlatched(c) ==
    LET u == [Unmarked(c, "stop") EXCEPT !.stopped = FALSE, !.whole = TRUE, !.stopApply = Never]
    IN  IF u.moving
        THEN Write([u EXCEPT !.moving = FALSE], "drive", "brake", "stop", {})
        ELSE u

ClearFaults(c) ==
    WriteDuty([Unlatched([c EXCEPT !.faulted = FALSE, !.boardTripped = FALSE])
                  EXCEPT !.alive = FALSE], "zero")

CanResume(c) == ~c.faulted /\ ~c.boardTripped /\ c.stopped

------------------------------------------------------------------------------
(* Replies: _on_line() and what it calls, under one lock.                    *)

\* The transactions a line with this command byte could be the answer to.
Waiting(c, l, cmd) == {i \in DOMAIN c.pending[l] : c.pending[l][i].cmd = cmd}

\* A stop's frame counts as acknowledged: for the throttle board a zero that
\* echoes, for the drive module also an apply that found the brake applied.
AcksStop(l, t, r) ==
    IF l = "accel"
    THEN r.ok /\ t.arg = "zero" /\ r.duty = "zero"
    ELSE r.ok \/ (t.cmd = "brake" /\ t.arg = "apply" /\ r.why = "AT_LIMIT")

\* The board echoes the duty this frame asked for.
DutyAcked(c, t, r) ==
    [c EXCEPT !.acked = r.duty, !.latestAcked = "latest" \in t.marks,
              !.alive = @ \/ r.duty = "zero"]

\* The read-back and the keepalive answer what the board holds.
ReadBack(c, r) ==
    LET k == [c EXCEPT !.timeouts = r.count]
    IN  IF \/ c.timeouts # Never /\ r.count > c.timeouts
           \/ r.duty # c.acked /\ c.acked = c.duty
        THEN Fault(k, FALSE)
        ELSE k

OnAccelReply(c, t, r) ==
    IF r.cmd = "duty"
    THEN IF ~r.ok THEN Fault(c, FALSE)
         ELSE IF r.duty = t.arg THEN DutyAcked(c, t, r) ELSE c
    ELSE ReadBack(c, r)

\* _note_trips(): a rise that no WD line announced is a board that stopped itself.
NoteTrips(c, count) ==
    LET k == [c EXCEPT !.trips = count]
    IN  IF count <= c.trips THEN k
        ELSE IF c.announced THEN [k EXCEPT !.announced = FALSE]
        ELSE Fault(k, FALSE)

\* Variant: any brake frame the board took counts as the release.
AnyBrakeOk(c, t, r) == IF r.ok THEN [c EXCEPT !.applied = FALSE] ELSE c

OnBrakeReply(c, t, r) ==
    IF "release" \notin t.marks THEN c
    ELSE IF r.ok \/ r.why = "AT_LIMIT" THEN [c EXCEPT !.applied = FALSE]
    ELSE Fault(c, TRUE)

OnDriveReply(c, t, r) ==
    CASE r.cmd = "gear"   -> [c EXCEPT !.gear = IF r.ok THEN t.arg ELSE "unknown"]
      [] r.cmd = "brake"  -> OnBrakeReply(c, t, r)
      [] r.cmd = "alive"  -> NoteTrips(c, r.count)
      [] r.cmd = "angles" -> IF r.ok THEN [c EXCEPT !.at = r.at, !.readAge = 0] ELSE Fault(c, TRUE)
      [] r.cmd = "steer"  -> c

\* The oldest pending frame with the reply's command byte is the one it answers.
OnReply(c, l, r) ==
    LET w == Waiting(c, l, r.cmd)
    IN  IF w = {} THEN c
        ELSE LET i == CHOOSE j \in w : \A k \in w : j <= k
                 t == c.pending[l][i]
                 a == [c EXCEPT !.pending[l] = RemoveAt(@, i),
                                !.whole = @ /\ ("stop" \in t.marks => AcksStop(l, t, r))]
             IN  IF l = "accel" THEN OnAccelReply(a, t, r) ELSE OnDriveReply(a, t, r)

OnLine(c, l, r) ==
    LET h == IF l = "accel" THEN [c EXCEPT !.heard = TRUE] ELSE c
    IN  IF r.cmd = "trip"
        THEN Fault([h EXCEPT !.announced = TRUE], FALSE)
        ELSE OnReply(h, l, r)

\* _reader(): the port raised.
LinkLost(c, l) == Fault([c EXCEPT !.up[l] = FALSE], TRUE)

------------------------------------------------------------------------------
(* tick(), its numbered steps one operator each.                             *)

\* 1. Reply deadlines.
Overdue(c, l) == c.pending[l] # <<>> /\ Head(c.pending[l]).age > Reply

Deadline(c, l) ==
    IF Overdue(c, l)
    THEN Fault([c EXCEPT !.pending[l] = <<>>, !.alive = @ /\ l # "accel"], TRUE)
    ELSE c

HostLive(c) == c.hb <= Heartbeat
InMotion(c) == c.duty = "positive" \/ c.steer # "stop" \/ c.moving

\* Variant: the tick does not look at the host's heartbeat.
HeartbeatIgnored(c) == c

\* 2. The host's heartbeat while motion is commanded.
HeartbeatChecked(c) ==
    IF InMotion(c) /\ ~c.stopped /\ ~HostLive(c) THEN SafeStop(c, TRUE) ELSE c

\* The stop's own brake apply is under way, and nothing else moves.
OwnApply(c) == c.stopped /\ c.moving /\ c.stopApply # Never /\ c.steer = "stop"

\* _drive_keepalive_due() less its side effect.
KeepaliveDue(c) ==
    /\ c.up["drive"]
    /\ c.steer # "stop" \/ c.moving
    /\ \/ HostLive(c) /\ Open(c)
       \/ OwnApply(c) /\ c.stopApply <= Stroke

\* Its side effect: the stop's stroke has had its time.
StrokeOver(c) == c.up["drive"] /\ OwnApply(c) /\ c.stopApply > Stroke

\* 2b. The drive module's keepalive.
DriveKeptAlive(c) ==
    IF KeepaliveDue(c) /\ ~c.ticked THEN Write(c, "drive", "alive", "", {})
    ELSE IF StrokeOver(c) THEN Write([c EXCEPT !.moving = FALSE], "drive", "brake", "stop", {})
    ELSE c

\* 3. The throttle board's keepalive while the throttle is on, its probe at rest.
ProbeDue(c) ==
    /\ c.up["accel"] /\ ~c.ticked
    /\ c.duty = "positive" \/ (c.pending["accel"] = <<>> /\ ~c.heard)

AccelProbed(c) ==
    IF ~ProbeDue(c) THEN c
    ELSE Write(c, "accel", IF c.duty = "positive" THEN "alive" ELSE "read", "", {})

\* 4. poll_feedback(), both angles in one frame here.
Polled(c) ==
    IF c.up["drive"] /\ ~c.ticked THEN Write(c, "drive", "angles", "", {}) ELSE c

Arrived(c) == Fresh(c) /\ c.at = (IF c.moveDir = "release" THEN "released" ELSE "applied")

\* Variant: only the stop's own brake apply is bounded.
UnboundedMove(c) == c

\* 6. Every brake move is halted when the stroke has had its time.
BrakeBounded(c) ==
    IF c.moveDir = "none" THEN c
    ELSE IF ~c.moving THEN [c EXCEPT !.moveDir = "none", !.moveAge = 0]
    ELSE IF c.moveAge <= Stroke THEN c
    ELSE LET halted == Write([c EXCEPT !.moveDir = "none", !.moveAge = 0, !.moving = FALSE],
                             "drive", "brake", "stop", {})
         IN  IF Arrived(c) THEN halted ELSE Fault(halted, TRUE)

Tick(c) ==
    [BrakeBounded(Polled(AccelProbed(DriveKeptAlive(HeartbeatChecked(
        Deadline(Deadline(c, "accel"), "drive")))))) EXCEPT !.ticked = TRUE]

------------------------------------------------------------------------------
\* A unit of time.
ControlsAged(c) ==
    [c EXCEPT
        !.pending = [l \in Links |->
            [i \in DOMAIN c.pending[l] |-> [c.pending[l][i] EXCEPT !.age = Past(@, Reply)]]],
        !.heard = FALSE, !.ticked = FALSE,
        !.moveAge = IF c.moveDir = "none" THEN 0 ELSE Past(@, Stroke),
        !.stopApply = IF @ = Never THEN Never ELSE Past(@, Stroke),
        !.readAge = Past(@, MaxAge),
        !.hb = IF @ < Horizon THEN @ + 1 ELSE @]

==============================================================================
