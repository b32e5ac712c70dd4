---------------------------- MODULE BridgeDaemon ----------------------------
(***************************************************************************)
(* The bridge daemon (drive/bridge/daemon.py): cockpit sockets in, one     *)
(* vehicle out.  One reader thread per client, one tick thread; _lock      *)
(* guards the client list and the driver, _wd_lock the watchdog together   *)
(* with its log lines and every stop or resume of the vehicle.             *)
(*                                                                         *)
(* A section under a lock is one action.  What _handle does outside them,  *)
(* the driver check, the ignition edge, the self-test and the hand-over of *)
(* the frame to the vehicle, is an action each, so a reader can be         *)
(* overtaken at every point where the code lets another thread in.         *)
(***************************************************************************)
EXTENDS Watchdog

CONSTANTS Clients,    \* operators that may connect
          NoClient,   \* self._driver is None
          Messages,   \* what a cockpit sends: [t, arm, estop, zero, ignition]
          MaxJoins,   \* bound: sessions opened in a behaviour
          Latching    \* the vehicle keeps a stop until resume() (ugv01.py), or not (vehicle.py)

ASSUME ClientsAssumption == NoClient \notin Clients
ASSUME MessagesAssumption ==
    Messages \subseteq [t : {"cmd", "hb", "preflight"}, arm : BOOLEAN,
                        estop : BOOLEAN, zero : BOOLEAN, ignition : BOOLEAN]
ASSUME MaxJoinsAssumption == MaxJoins \in Nat
ASSUME LatchingAssumption == Latching \in BOOLEAN

VARIABLES
    wd,         \* self.watchdog
    clients,    \* self._clients
    joined,     \* per client, its session's _Client.joined stamp, 0 without one
    joins,      \* the last stamp given out
    driver,     \* self._driver
    reader,     \* per client, its reader thread
    ignited,    \* self._ignition_was_on
    preflight,  \* self.preflight: ran, pass
    stopping,   \* self._stop
    healthy,    \* what vehicle.self_test() would say now
    veh,        \* the vehicle: motion commanded, stop latched
    todo,       \* clients the tick thread's broadcast has yet to reach
    peer,       \* the far end of each socket
    logged      \* the state the session log's last transition line tells, or Closed

sessions == <<clients, joined, joins, driver>>
gate     == <<ignited, preflight>>
vars == <<wd, clients, joined, joins, driver, reader, ignited, preflight, stopping,
          healthy, veh, todo, peer, logged>>

\* Where a reader thread is: no session, authenticated, blocked in read_text,
\* then the steps of _handle and the broadcasts they may hang in, then out of
\* its loop.
Broadcasts == {"reporting", "announcing", "publishing"}
Points == {"out", "stamped", "read", "preflight", "ignition",
           "judge", "decide", "apply", "leave"} \cup Broadcasts

\* The session log once stop() has closed it: it takes no line any more.
Closed == "closed"

NoMessage == [t |-> "none", arm |-> FALSE, estop |-> FALSE, zero |-> TRUE, ignition |-> FALSE]

\* What the vehicle is handed: a neutral command with the brake on, the frame's
\* own throttle, or an emergency stop.
Orders == {"neutral", "drive", "estop"}

\* ready is the verdict _ready_now returned, order the command on its way.
Readers == [at : Points, msg : Messages \cup {NoMessage}, ready : BOOLEAN, order : Orders]

TypeOK ==
    /\ wd \in WatchdogStates
    /\ clients \subseteq Clients
    /\ joined \in [Clients -> 0 .. MaxJoins]
    /\ joins \in 0 .. MaxJoins
    /\ driver \in Clients \cup {NoClient}
    /\ reader \in [Clients -> Readers]
    /\ ignited \in BOOLEAN
    /\ preflight \in [ran : BOOLEAN, pass : BOOLEAN]
    /\ stopping \in BOOLEAN
    /\ healthy \in BOOLEAN
    /\ veh \in [moving : BOOLEAN, stopped : BOOLEAN]
    /\ todo \subseteq Clients
    /\ peer \in [Clients -> {"reading", "stuck", "gone"}]
    /\ logged \in SafetyStates \cup {Closed}

Idle(at) == [at |-> at, msg |-> NoMessage, ready |-> FALSE, order |-> "neutral"]

Init ==
    /\ wd = NewWatchdog
    /\ clients = {} /\ driver = NoClient
    /\ joined = [c \in Clients |-> 0] /\ joins = 0
    /\ reader = [c \in Clients |-> Idle("out")]
    /\ ignited = FALSE
    /\ preflight = [ran |-> FALSE, pass |-> FALSE]
    /\ stopping = FALSE
    /\ healthy \in BOOLEAN
    /\ veh = [moving |-> FALSE, stopped |-> FALSE]
    /\ todo = {}
    /\ peer = [c \in Clients |-> "gone"]
    /\ logged = "STOPPED"

------------------------------------------------------------------------------
(* The vehicle as the daemon uses it.                                         *)

\* safe_stop(): the adapter of ugv-01 also latches the stop, the mock does not.
Halted(v) == [moving |-> FALSE, stopped |-> Latching]

\* resume(): refused by a vehicle with a fault, and a failing self-test may be
\* one.
Resumed(v) ==
    {[v EXCEPT !.stopped = FALSE]} \cup (IF healthy THEN {} ELSE {v})

\* apply(): throttle is refused under a latched stop and may be refused for the
\* vehicle's own reasons; zero never is.
Applied(v, order) ==
    CASE order = "estop"              -> {Halted(v)}
      [] order = "neutral"            -> {[v EXCEPT !.moving = FALSE]}
      [] order = "drive" /\ v.stopped -> {v}
      [] OTHER -> {[v EXCEPT !.moving = TRUE]} \cup (IF Latching THEN {v} ELSE {})

\* A check starts to fail, with or without the vehicle stopping itself.
CheckFails ==
    /\ healthy
    /\ healthy' = FALSE
    /\ veh' \in {veh, Halted(veh)}
    /\ UNCHANGED <<wd, sessions, reader, gate, stopping, todo, peer, logged>>

CheckPasses ==
    /\ ~healthy
    /\ healthy' = TRUE
    /\ UNCHANGED <<wd, sessions, reader, gate, stopping, veh, todo, peer, logged>>

------------------------------------------------------------------------------
(* Sockets.                                                                   *)

\* The far end goes away, or stays connected and stops reading until the
\* daemon's send buffer is full.
PeerGoes(c) ==
    /\ peer[c] # "gone"
    /\ peer' = [peer EXCEPT ![c] = "gone"]
    /\ UNCHANGED <<wd, sessions, reader, gate, stopping, healthy, veh, todo, logged>>

PeerSticks(c) ==
    /\ peer[c] = "reading" /\ c \in clients
    /\ peer' = [peer EXCEPT ![c] = "stuck"]
    /\ UNCHANGED <<wd, sessions, reader, gate, stopping, healthy, veh, todo, logged>>

\* Handshake and token accepted: the _Client is made and stamped, outside _lock.
\* The broadcast's copy of an earlier session of c, closed by now, is forgotten.
Connect(c) ==
    /\ reader[c].at = "out"
    /\ joins < MaxJoins
    /\ joins' = joins + 1
    /\ joined' = [joined EXCEPT ![c] = joins + 1]
    /\ reader' = [reader EXCEPT ![c] = Idle("stamped")]
    /\ peer' = [peer EXCEPT ![c] = "reading"]
    /\ todo' = todo \ {c}
    /\ UNCHANGED <<wd, clients, driver, gate, stopping, healthy, veh, logged>>

\* Back to the top of the reader's loop.
Again == Idle(IF stopping THEN "leave" ELSE "read")

Register(c) ==
    /\ reader[c].at = "stamped"
    /\ clients' = clients \cup {c}
    /\ driver' = IF driver = NoClient THEN c ELSE driver
    /\ reader' = [reader EXCEPT ![c] = Again]
    /\ UNCHANGED <<wd, joined, joins, gate, stopping, healthy, veh, todo, peer, logged>>

\* The session with the oldest stamp among cs.
Oldest(cs) ==
    IF cs = {}
    THEN NoClient
    ELSE CHOOSE c \in cs : \A d \in cs : joined[c] <= joined[d]

\* The state the log's last transition line tells after a transition.  (Variant:
\* only latches get a line.)
LogsLatchesOnly(before, after) == IF after = "LATCHED" THEN after ELSE logged
Logs(before, after) == IF before = after \/ logged = Closed THEN logged ELSE after

\* _drop: whoever comes second, the reader or a failed send, finds it done.
Drop(c) ==
    /\ clients' = clients \ {c}
    /\ IF c \in clients /\ c = driver
       THEN /\ wd' = LinkLost(wd)
            /\ driver' = Oldest(clients \ {c})
            /\ veh' = IF wd.state = "DRIVING" THEN Halted(veh) ELSE veh
            /\ logged' = Logs(wd.state, LinkLost(wd).state)
       ELSE UNCHANGED <<wd, driver, veh, logged>>

\* The reader's loop ends: its read failed, or the daemon stops.
Leave(c) ==
    /\ \/ reader[c].at = "leave"
       \/ reader[c].at = "read" /\ peer[c] = "gone"
    /\ Drop(c)
    /\ joined' = [joined EXCEPT ![c] = 0]
    /\ reader' = [reader EXCEPT ![c] = Idle("out")]
    /\ peer' = [peer EXCEPT ![c] = "gone"]
    /\ UNCHANGED <<joins, gate, stopping, healthy, todo>>

------------------------------------------------------------------------------
(* _handle, step by step.                                                     *)

\* Client sockets block (settimeout(None)): a broadcast returns once every
\* client has taken it or failed.  One that nobody holds up ends with the step
\* that makes it.
CanBroadcast == \A c \in clients : peer[c] # "stuck"

\* A message of the driver; nobody else's changes any state.
Receive(c, m) ==
    /\ reader[c].at = "read" /\ c = driver
    /\ m.t # "hb"
    /\ reader' = [reader EXCEPT
                    ![c] = [Idle(IF m.t = "cmd" THEN "ignition" ELSE "preflight") EXCEPT !.msg = m]]
    /\ UNCHANGED <<wd, sessions, gate, stopping, healthy, veh, todo, peer, logged>>

\* A heartbeat of the driver, fed at once: it holds no state of its own.
Heartbeat(c, m) ==
    /\ reader[c].at = "read" /\ c = driver
    /\ m.t = "hb"
    /\ wd' = Feed(wd)
    /\ reader' = [reader EXCEPT ![c] = Again]
    /\ UNCHANGED <<sessions, gate, stopping, healthy, veh, todo, peer, logged>>

\* _run_preflight on request.
RunPreflight(c) ==
    /\ reader[c].at = "preflight"
    /\ preflight' = [ran |-> TRUE, pass |-> healthy]
    /\ reader' = [reader EXCEPT ![c] = IF CanBroadcast THEN Again ELSE Idle("reporting")]
    /\ UNCHANGED <<wd, sessions, ignited, stopping, healthy, veh, todo, peer, logged>>

\* Ignition on runs the self-test, ignition off clears the green light; the
\* ignition is remembered once that has been broadcast.
Ignite(c) ==
    LET on == reader[c].msg.ignition
    IN  /\ reader[c].at = "ignition"
        /\ preflight' = CASE on /\ ~ignited -> [ran |-> TRUE, pass |-> healthy]
                          [] ~on /\ ignited -> [ran |-> FALSE, pass |-> FALSE]
                          [] OTHER          -> preflight
        /\ \/ /\ on = ignited \/ CanBroadcast
              /\ ignited' = on
              /\ reader' = [reader EXCEPT ![c].at = "judge"]
           \/ /\ on # ignited /\ ~CanBroadcast
              /\ reader' = [reader EXCEPT ![c].at = "announcing"]
              /\ UNCHANGED ignited
        /\ UNCHANGED <<wd, sessions, stopping, healthy, veh, todo, peer, logged>>

\* _ready_now: the verdict as of this frame; a changed one is published.
Judge(c) ==
    /\ reader[c].at = "judge"
    /\ \/ /\ ~preflight.ran
          /\ reader' = [reader EXCEPT ![c].at = "decide", ![c].ready = FALSE]
          /\ UNCHANGED preflight
       \/ /\ preflight.ran
          /\ preflight' = [preflight EXCEPT !.pass = healthy]
          /\ reader' = [reader EXCEPT
                ![c].at = IF healthy = preflight.pass \/ CanBroadcast
                          THEN "decide" ELSE "publishing",
                ![c].ready = healthy]
    /\ UNCHANGED <<wd, sessions, ignited, stopping, healthy, veh, todo, peer, logged>>

\* A broadcast some client held up ends.
Broadcasted(c) ==
    /\ reader[c].at \in Broadcasts /\ CanBroadcast
    /\ ignited' = IF reader[c].at = "announcing" THEN reader[c].msg.ignition ELSE ignited
    /\ reader' = [reader EXCEPT
          ![c] = CASE reader[c].at = "reporting"  -> Again
                   [] reader[c].at = "announcing" -> [reader[c] EXCEPT !.at = "judge"]
                   [] reader[c].at = "publishing" -> [reader[c] EXCEPT !.at = "decide"]]
    /\ UNCHANGED <<wd, sessions, preflight, stopping, healthy, veh, todo, peer, logged>>

\* Variant: the frame's own throttle goes out, whatever the watchdog made of it.
OrderAsSent(msg, after) == IF msg.zero THEN "neutral" ELSE "drive"

\* The command of a frame the watchdog has taken.
Order(msg, after) ==
    CASE msg.estop                            -> "estop"
      [] after.state = "DRIVING" /\ ~msg.zero -> "drive"
      [] OTHER                                -> "neutral"

\* A latch found on a command frame, or a green light withdrawn while driving,
\* stops the vehicle in the locked section and ends the frame.  (Variant: only
\* the withdrawn light does.)
EndsWithdrawn(msg, ready, after) == wd.state = "DRIVING" /\ ~ready
EndsFrame(msg, ready, after) ==
    \/ wd.state # "LATCHED" /\ after.state = "LATCHED" /\ ~msg.estop
    \/ wd.state = "DRIVING" /\ ~ready

\* A fresh arm lifts the vehicle's own latch, once.  (Variant: even while the
\* daemon stops.)
LiftsAlways(after) == wd.state # "DRIVING" /\ after.state = "DRIVING"
LiftsStop(after) == wd.state # "DRIVING" /\ after.state = "DRIVING" /\ ~stopping

\* The locked section.
Decide(c) ==
    LET msg   == reader[c].msg
        after == Taken(wd, msg, reader[c].ready)
    IN  /\ reader[c].at = "decide"
        /\ wd' = after
        /\ logged' = Logs(wd.state, after.state)
        /\ \/ /\ EndsFrame(msg, reader[c].ready, after)
              /\ veh' = Halted(veh)
              /\ reader' = [reader EXCEPT ![c] = Again]
           \/ /\ ~EndsFrame(msg, reader[c].ready, after)
              /\ veh' \in IF LiftsStop(after) THEN Resumed(veh) ELSE {veh}
              /\ reader' = [reader EXCEPT
                               ![c] = [Idle("apply") EXCEPT !.order = Order(msg, after)]]
        /\ UNCHANGED <<sessions, gate, stopping, healthy, todo, peer>>

\* The frame reaches the vehicle, outside every lock; without may_drive it is
\* neutral.
Apply(c) ==
    /\ reader[c].at = "apply"
    /\ veh' \in Applied(veh, reader[c].order)
    /\ reader' = [reader EXCEPT ![c] = Again]
    /\ UNCHANGED <<wd, sessions, gate, stopping, healthy, todo, peer, logged>>

------------------------------------------------------------------------------
(* The tick thread, shutdown and the clock.                                   *)

\* Poll the watchdog; every few ticks the telemetry goes out afterwards.
Poll ==
    /\ ~stopping /\ todo = {}
    /\ wd' = Check(wd)
    /\ veh' = IF Trips(wd) THEN Halted(veh) ELSE veh
    /\ logged' = Logs(wd.state, Check(wd).state)
    /\ todo' \in {{}, clients}
    /\ UNCHANGED <<sessions, reader, gate, stopping, healthy, peer>>

\* One blocking send of the broadcast.
SendTo(c) ==
    /\ c \in todo /\ peer[c] = "reading"
    /\ todo' = todo \ {c}
    /\ UNCHANGED <<wd, sessions, reader, gate, stopping, healthy, veh, peer, logged>>

\* A send that fails drops the client from the tick thread, whatever its reader
\* is doing.
SendFails(c) ==
    /\ c \in todo /\ peer[c] = "gone"
    /\ todo' = todo \ {c}
    /\ Drop(c)
    /\ UNCHANGED <<joined, joins, reader, gate, stopping, healthy, peer>>

Stop ==
    /\ ~stopping
    /\ stopping' = TRUE
    /\ veh' = Halted(veh)
    /\ UNCHANGED <<wd, sessions, reader, gate, healthy, todo, peer, logged>>

\* The rest of stop(): the log closes, whatever the other threads are doing.
CloseLog ==
    /\ stopping /\ logged # Closed
    /\ logged' = Closed
    /\ UNCHANGED <<wd, sessions, reader, gate, stopping, healthy, veh, todo, peer>>

Elapse ==
    /\ wd' = Aged(wd)
    /\ UNCHANGED <<sessions, reader, gate, stopping, healthy, veh, todo, peer, logged>>

------------------------------------------------------------------------------
ReaderStep(c) ==
    \/ Register(c) \/ Leave(c)
    \/ RunPreflight(c) \/ Ignite(c) \/ Judge(c) \/ Broadcasted(c)
    \/ Decide(c) \/ Apply(c)

TickStep == Poll \/ \E c \in Clients : SendTo(c) \/ SendFails(c)

Next ==
    \/ \E c \in Clients :
          \/ PeerGoes(c) \/ PeerSticks(c) \/ Connect(c)
          \/ \E m \in Messages : Receive(c, m) \/ Heartbeat(c, m)
          \/ ReaderStep(c)
    \/ TickStep
    \/ CheckFails \/ CheckPasses
    \/ Stop \/ CloseLog \/ Elapse

Spec == Init /\ [][Next]_vars

\* The operating system runs every thread that can run.  Nothing is assumed of
\* the operators, the network, the vehicle or the clock.
Fairness == WF_vars(TickStep) /\ \A c \in Clients : WF_vars(ReaderStep(c))

FairSpec == Spec /\ Fairness

------------------------------------------------------------------------------
(* Properties.                                                                *)

Arms == wd.state # "DRIVING" /\ wd'.state = "DRIVING"

\* A latched vehicle is stopped, whatever frames are still in other threads'
\* hands, up to the emergency stop that is itself on its way to the vehicle.
LatchedIsStopped ==
    wd.state = "LATCHED" =>
        \/ ~veh.moving
        \/ \E c \in Clients : reader[c].at = "apply" /\ reader[c].order = "estop"

\* The same for a daemon that is shutting down.
ShutdownIsStopped == stopping => ~veh.moving

\* Until stop() closes it, the session log's last transition line tells the
\* watchdog's state: no arm, latch or disarm goes unlogged, whichever thread
\* makes it (daemon.py, "The log must never understate").
LogTellsState == logged \in {wd.state, Closed}

\* Somebody drives exactly when somebody is connected, and the driver is one of
\* the connected clients, however the reader's own exit races a failed send.
DriverIsConnected ==
    /\ driver = NoClient <=> clients = {}
    /\ driver # NoClient => driver \in clients

\* A stop of the tick thread, of a dropped link or of shutdown is lifted by a
\* fresh arm and nothing else, and by no arm once the daemon stops.
OnlyArmLiftsStop ==
    [][veh.stopped /\ ~veh'.stopped => Arms /\ ~stopping]_vars

\* The bridge refines the abstract latch: motion only after a release and a press.
Abstract == INSTANCE SafetyLatch WITH mode <- wd.state, released <- ~wd.prevArm
RefinesLatch == Abstract!Spec

\* Only the driver's own frames arm (daemon.py, "SINGLE DRIVER").
OnlyDriverArms ==
    [][Arms => \E c \in Clients : reader[c].at = "decide" /\ reader'[c] # reader[c] /\ c = driver]_vars

\* Silence beyond the window latches (daemon.py, "WATCHDOG").
Silent == wd.state = "DRIVING" /\ wd.fed > Timeout /\ ~stopping
SilenceLatches == Silent ~> ~Silent

\* The same as far as the code has it: unless a client stops reading.
SilenceLatchesUnlessStuck ==
    Silent ~> ~Silent \/ \E c \in Clients : peer[c] = "stuck"

\* An emergency stop the driver's reader has taken stops the vehicle, unless a
\* client stops reading.
Stopping(c) == reader[c].msg.estop \/ reader[c].order = "estop"
EstopStops ==
    \A c \in Clients :
        Stopping(c) ~> ~veh.moving \/ \E d \in Clients : peer[d] = "stuck"

=============================================================================
