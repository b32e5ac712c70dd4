# Argus OS: formal models

This directory holds TLA+ specifications of Argus OS, the TLC configurations that
check them, and proofs of the most important theorems. It is written from the
source: each definition is listed in `PROJECT.json` ("map") with the lines it models.

## 1. The system and its parts

Argus OS runs unmanned ground vehicles. A person drives one from a *cockpit*
(browser) through a *bridge daemon* on the vehicle; machines that work on their
own run *PILOT*; *TRACK* is the server that holds the world model and issues
orders; *LINK* is the five-message protocol between PILOT and TRACK; *C2* is the
operators' screen on TRACK; a *voice* service and an *AI gateway* sit beside TRACK.

| part | state it keeps | operations | talks to |
|---|---|---|---|
| `drive/bridge/watchdog.py` | safety state, edge detector, last feed, last frame, hold window | `feed`, `command`, `check`, `disarm`, `link_lost` | called by three kinds of threads of the daemon, under `_wd_lock` |
| `drive/bridge/daemon.py` | clients in join order, driver, ignition, preflight, log state | a reader thread per client, the tick thread, `_drop`, `stop` | watchdog, vehicle, cockpits |
| `drive/bridge/ugv01.py` | what it last sent (duty, steering, gear, brake) | `apply`, `safe_stop`, `resume`, `self_test`, `tick` | controls |
| `pilot/hal/drivers/ugv01/controls.py` | two serial links, transactions, faults, stop episode, brake stroke | commands, `tick`, reader threads, `safe_stop`, `clear_faults`, `resume_after_stop` | two boards |
| `bodies/ugv-01/firmware` | the boards' own watchdogs and latches | line handlers, timers | controls |
| `pilot/autonomy/core.py`, `local_world.py`, `worldslice.py`, `navigator.py` | current order (also on disk), laps, route, status | accept/refuse, advance, finish, recovery at boot | LINK client, locomotion |
| `pilot/link_client.py` | connection flag, held observations, registry sent/pending | the five messages, `flush`, `on_link_up` | broker |
| `track/worldmodel.py` | assets, orders with history, telemetry, inbox | five handlers, `issue_task`, `cancel_task`, watchdog | store, bus, broker |
| `pilot/runtime.py`, `hal/*` | drivers carried and started, pose, what was seen lately (also on disk) | boot, loop, signal, power cut | core, LINK client |
| `pilot/autonomy/nav2.py`, `ros/bridge.py` | the route given to Nav2, the last command and odometry | follow, cancel, `/cmd_vel`, `/odom` | Nav2, locomotion |
| `track/fusion.py`, `track/zones.py` | tracks, aliases, zone membership | `ingest`, `sweep`, `evaluate` | store |
| `track/worldmodel.py`, beside orders | modes, investigations, proposals, a machine's systems | `set_autonomy`, `investigate`, `preview_task`, `systems_view` | store, bus |
| `track/live.py`, `track/api.py` | a bounded queue per subscriber | publish, subscribe, stream | C2, Redis |
| `track/tiles.py` | open imagery files, layers found | look, serve | directory |
| `drive/cockpit` | the command, arm request and deadline, link freshness | arm, estop, relinquish, loseLink, frame loop | daemon, C2 frame |
| `drive/bridge/argus_relay.py` | roster, driver, dead man's switch | tokens, joins, takeovers | Remo server |
| `drive/bridge/vehicle.py`, `link_reporter.py` | the mock's motion, what TRACK was told of it | `apply`, `tick`, `safe_stop`, report | daemon, TRACK |
| `voice`, `gateway` | readbacks waiting for an answer, profile and adapters | listen, confirm, check, pick | TRACK |
| `sim` | a simulated machine's order, route and laps | assign, step, report | TRACK |
| `c2` | a view | requests | TRACK |

What is hard here:

* **Threads.** The daemon has a reader thread per client, a tick thread and a
  caller of `stop()`. One lock (`_lock`) protects the clients and the driver, another (`_wd_lock`) the
  watchdog. Stops and the lifting of a stop are made under `_wd_lock`; the dropping of a driver takes it
  under `_lock`, and is the one place where both are held. A frame is applied to the vehicle under neither.
* **Time.** Silence is judged by polling; a stalled TCP connection queues frames and
  delivers them in a burst with their old meaning.
* **Stops.** An emergency stop, silence, a lost link, a failed self-test and shutdown
  all stop the vehicle, and must not be undone by a frame that was already on its way.
* **Distance.** PILOT and TRACK disagree whenever the link is down, and either may restart.

What makes each part correct, in a sentence: the *watchdog* never drives on silence or
on a backlog; the *daemon* applies nothing that the watchdog did not permit at the moment
it matters; the *controls* never report a stop the boards did not acknowledge; *PILOT*
takes up no motion after a reboot by itself and tells TRACK how each order ended; *TRACK*'s
record of an order ends once and agrees with the machine when it can be heard, and its
picture of the world loses no report, tells of a zone what it knows of it and sends one
machine to a contact; the *cockpit* sends throttle only once the vehicle has confirmed, and lets go
when it has given up; *voice* turns one readback into one order at most.

## 2. Modules

| module | models | of the code |
|---|---|---|
| `Watchdog` | the watchdog, as a record with an operator per method | `drive/bridge/watchdog.py` |
| `WatchdogLink` | that watchdog at the end of one socket that delays, stalls and drains, against a clock | `watchdog.py`, the reader and tick loops of `daemon.py` |
| `SafetyLatch` | abstract: motion needs a release, then a press, after whatever stopped it | what `watchdog.py` promises |
| `BridgeDaemon` | the daemon: readers, tick thread, driver, ignition, self-test, drops, shutdown, and the vehicle as it uses it | `daemon.py`, `session_log.py`, `ugv01.py` |
| `Uplink` | the wire between TRACK and one machine, for orders and status reports | `link_client.py`, `hal/drivers/mqtt.py`, `_send_task` |
| `Pilot` | one machine's core, its navigator and the order on its disk | `autonomy/core.py`, `worldslice.py`, `local_world.py`, `navigator.py`, `nav2.py`, `runtime.py` |
| `OrderDesk` | TRACK's orders, heartbeats and watchdog for that machine | `track/worldmodel.py` |
| `Orders` | the three together | |
| `ThrottleBoard` | the throttle board: duty, silence timer, latch | `throttle_logic.h` (AC 1.4) |
| `DriveBoard` | the drive module with the brake it moves: relays, silence timer, trip, stall | `watchdog.cpp`, `actuators.cpp`, `serial_protocol.cpp`, `angle_limits.cpp` (4.1.6) |
| `Ugv01Controls` | the owner of both boards, as a record with an operator per method | `hal/drivers/ugv01/controls.py` |
| `Ugv01Rig` | adapter, controls, serial links and boards together, with what may go wrong | `drive/bridge/ugv01.py` and the three above |
| `HeldReports` | what a machine keeps while its link is down, up to TRACK's inbox | `pilot/link_client.py`, `sim/link_client.py`, `hal/drivers/mqtt.py`, `sim/transport.py`, `track/transport.py` |
| `LiveFeed` | one object's way to one application, through Redis or in process | `track/live.py`, the stream of `track/api.py` |
| `Contacts` | what machines see, fused into tracks; zones and their alerts | `track/fusion.py`, `track/zones.py`, the observation handler and sweep of `worldmodel.py`, tables of `store.py` |
| `Errands` | modes, machines sent to look, orders withdrawn | `worldmodel.py` investigate, set_autonomy, withdraw_own_orders |
| `Proposal` | what an operator reads before approving, and what becomes of it | `preview_task`, `issue_task`, `geo.py`, `events.py` |
| `Systems` | a machine's own parts as an operator sees them | `systems_view`, `hal/registry.py`, `put_payload` |
| `Tiles` | the imagery cache | `track/tiles.py` and its endpoints |
| `VoiceDesk` | orders by voice, and the gateway they are thought through | `voice/*`, `gateway/*` |
| `Machine` | a machine from its manifest to its reports, across power cuts | `runtime.py`, `main.py`, `hal/*`, `core.py` (the loop), `worldslice.py`, `local_world.py` |
| `FleetVehicle` | a simulated machine's orders, route and laps | `sim/vehicle.py` |
| `Chassis` | between Nav2 and the wheels | `nav2.py`, `ros/bridge.py`, the drivers' velocity interface |
| `Bench` | frame to command, the mock vehicle, its reporter | `contract.py`, `vehicle.py`, `link_reporter.py` |
| `Cockpit` | arm request, relinquishing, link freshness, in front of `Watchdog` | `cockpit/src/state/store.ts`, `transport/*`, `embed/driveActive.ts`, `input/*` |
| `Relay` | the legacy relay: who drives, and the dead man's switch | `argus_relay.py` |
| `MCWatchdogLink`, `MCBridgeDaemon`, `MCOrders`, `MCUgv01`, `MCSite`, `MCField` | values of the constants for TLC | |
| `WatchdogProofs`, `WatchdogLinkProofs`, `BridgeDaemonProofs`, `OrdersProofs`, `RigProofs`, `RigStopProofs`, `SiteProofs`, `FieldProofs` | theorems and their proofs | |

`WatchdogLink`, `BridgeDaemon` and `Cockpit` all use `Watchdog`; `BridgeDaemon` refines
`SafetyLatch`; `Orders` composes `Pilot`, `OrderDesk` and the `Uplink` they share;
`Ugv01Rig` composes `Ugv01Controls` with the two boards. What the rig's environment may do
to the adapter (`Command`, `EstopHeld`, `BridgeStops`, `Resume`, in any order) includes
everything that `BridgeDaemon` does to its vehicle. `HeldReports` ends at the inbox from which
`Contacts` and `Errands` start; `Machine` and `FleetVehicle` make what `HeldReports` carries.

### How state and actions correspond

**Watchdog.** Instants are kept as ages: `fed` is the time since the last feed, `gap` the
time since the last command frame (`NoFrame` before the first), both counted up to
`Horizon`, beyond every comparison the code makes. `Command` is one call of
`command()`: `Stalls` and `Judged` find the gap and the hold window, `Pressed` and
`Edged` the edge detector, `Taken` adds what the daemon does around the call.

**WatchdogLink.** `Elapse` is one unit of time and waits for whatever is due within it. A
stall (`OutageBegins`, `OutageEnds`) keeps the frames and drains them within `Drain`.
`via` and `release` are history: they say how a frame came and are read by properties only.

**BridgeDaemon.** What one thread does between two points where another can overtake it
is one action. A reader goes `Receive` (driver check, outside the locks), `Ignite`,
`Judge` (self-test), `Decide` (the section under `_wd_lock`), `Apply` (the vehicle, outside
it); broadcasts may block on a client that stopped reading (`PeerSticks`). The tick
thread is `Poll` and `SendTo`; shutdown is `Stop` and `CloseLog`, so that readers still run
in between. `Latching` tells the ugv-01 adapter, which keeps its own stop latch, from the mock.

**Pilot.** `at` is where the core's loop is. Where it acts and then reports, or reports and
then writes, these are two actions: `Accept`/`Answer`, `Finish` or `CancelCurrent`/`End`,
`Interrupt`/`DropInterrupted`. `Crash` may come between any two and leaves only `disk`.
The navigator is four booleans, and `driving` is what the drive (or Nav2) is really doing,
which after `follow([])`, or after a route that Nav2 refused, is not what the navigator believes. Nav2 is a
process of its own (`ros/launch/pilot_nav2.py:11`): `Crash` leaves it driving or, when the power is cut,
not, and `outlived` says that it is an earlier process's route. `fresh`, `outlived` and `replaced` are history.

**OrderDesk.** A handler runs up to its first await as one action. The watchdog's tick is
five: it reads a list, writes an entry, publishes (and may be suspended), writes the next
as it was read. "overdue" is PENDING for longer than `task_ack_timeout_s`; `silent` a last
heartbeat older than `heartbeat_timeout_s`. The 30 s window of the answering check is longer
than the 5 s that make a machine OFFLINE, so OFFLINE decides (`Answering`).

**Uplink.** A report stays in `up` until the broker acknowledges it; `got` counts those TRACK
has had in this session, and a reconnection starts from the first again. Orders in `down`
are gone when the session ends. `lost` (history) names the tasks whose order, cancellation or
ending was dropped or forgotten.

**Ugv01Controls.** Everything between taking the controls' lock and releasing it is one operator
on the record `c`, nested calls included: `Fault` contains `SafeStop`, a failing `Write` does too,
and `Tick` is its numbered steps composed in order. The sequence number of a frame is only ever
asked three questions (is it the latest duty frame, the awaited release, one of the stop's), so a
pending transaction carries the answers as marks. Times are ages that stop just past the limit
they are compared with. The three polling periods (0.2 s, 0.25 s, one poll) are no longer than a
unit of time: the first tick of a unit finds them over, later ones do not (`ticked`).
An angle is one of three places; both angles are read by one frame and share an age.

**Boards.** `ThrottleTakes` and `DriveTakes` are what a frame does to a board, `ThrottleAnswers` and
`DriveAnswers` the line it sends back, `ThrottleAged` and `DriveAged` what a unit of time does,
the silence timers and the brake's movement included.

**Ugv01Rig.** A link is served and its answers are read at once unless it is slow, in which case
frames and lines wait for the rest of the unit and anything may come in between. A bridge that
is slow makes `apply()` part by part (`CallGoesOn`), each part taking the controls' lock anew, as
in the code. `FrameLost`, `LineLost`, `PortBreaks`, `SignalFails`, `BrakeJams` (after which
`BrakeStalls` may or may not notice), `TickThreadHangs` and `Slows` are the mishaps. Unlike the
daemon's model this one lets the adapter act in any order, so it takes nothing from the latch.

**HeldReports.** Two threads. The loop reads the connection flag (`Checked`) and acts on what it
read a step later (`SendNow`, `Hold`); the broker client's thread raises the flag, runs the callback
(`OnLinkUp`, `TakeHeld`, `SendHeld`) and notices a cut only when it is through. `outbox` is what
that client was given at QoS 1 and keeps until acknowledged, so a message can arrive twice.
`forsaken` is history: reports that a named limit or TRACK's absence has cost.

**LiveFeed.** An update is the revision of the object it carries. A write through Redis suspends the
writer (`Publish` after `Write`), one in process is delivered in the same step. `missed` marks an
application that connected between the snapshot and the subscription of `api.py`.

**Contacts.** An observation is handled up to its first await in one action (`Observe`: match by
identity, by nearness, or a new track; zone membership), its alerts are one action each (`Alert`)
and a restart may come in between. Times are ages, points are on a line, distances a difference.
`rank` is a track's place in `list_tracks`, which decides between equals and what its limit cuts off.

**Errands.** A handler (the inbox task, or a request) is at one await at a time: `look`, `tell`,
`order`, and the loops `sweep` and `withdraw`. `suspends` is whether the live bus's publish gives up
the loop: the in-process bus never does, Redis, the default (`config.py:40`), does. One variable chosen at the
start says which, so that the properties can say what depends on it. `Report` is what a machine says of an order,
written over whatever was there; `EndErrand` is the watchdog's or a person's. `reopened` and `overlooked` are history:
orders that a report opened again on a machine that is not automatic, and orders that a switch did not find on
record because they had been issued and not yet recorded, or had been recorded over.

**Proposal.** Degrees are the integers of a small grid, the even-odd rule and the segment test are
computed on it, and the division of `geo.py` is multiplied out. `KeepOutIsHonest` does not use them:
its reference cuts a zone into convex pieces and looks at `Fine` points of each leg, ends included.

**Systems, Tiles.** Each report or request is one action. A tile file is the number it was dropped
under, so that two of one name differ, and an open connection keeps what it was opened on.

**VoiceDesk.** Each request (a sentence, an answer) goes from one await to the next. A readback is in
`pending` until `confirm` takes it out, which is one step before the order goes to TRACK. Ageing
reaches `Ttl`. `Loose` says which names contain which, since matching goes by containment.

**Machine.** `life` and `turn` say where the process is. A change in memory and its row on disk are two
actions (`owes` in between), a signal shuts down between two steps of a turn, a power cut comes
between any two. What becomes of orders is left to `Pilot`.

**FleetVehicle, Chassis.** A route is a sequence of points and a step covers one unit. Headings are quarters:
the driver's clockwise from north, Nav2's anticlockwise from east; positions `<<east, north>>`.
Nav2 may refuse a route, which the navigator does not notice (`refused`), and passes over a waypoint that it
cannot reach (`Misses`), as its configuration says.

**Bench.** A value in a frame is a number in or out of range, NaN, missing or of another type, and the
clamp does to it what `max(0.0, min(1.0, n))` does. Speeds are in units small enough to show every
rounding of the ramp. A reader judges a frame under the watchdog's lock (`FrameDrives`, `FrameHolds`) and applies
it after (`Applies`), with whatever happened to the state in between; `leftover` (history) marks a command that the
vehicle obeys without leave, because a stop overtook it or because what takes it back is judged and not yet applied.

**Cockpit.** The page is one thread: a handler runs whole. `upward` and `downward` are the socket's two
directions, each in order and as slow as it likes; the vehicle is `Watchdog` itself with the driver's
last command. `sure` in a frame and `confirmed` are observers: DRIVING had been read since the press.

**Relay.** A client's reader thread takes its steps one by one outside `_lock` (heard, sending), the dead
man's thread likewise; the server keeps the last token of each axis, so the vehicle is a set of axes.

## 3. Runs

| run | question | answer |
|---|---|---|
| `watchdog_link` | does the watchdog latch in time and arm on fresh presses only? | yes: `SilenceIsBounded`, `BacklogNeverArms`, `PressIsFresh` |
| `bridge_safety` | do threads, drops, promotion and shutdown keep a stopped vehicle stopped and the log honest? | yes, and `BridgeDaemon` refines `SafetyLatch` |
| `bridge_live` | with every message: is silence in the end latched, and does an emergency stop that the driver's reader has taken in the end reach the vehicle? | yes, unless a client stops reading its socket |
| `bridge_stray` | do only the driver's frames arm? | no: a frame past the driver check outlives its sender's session |
| `orders_safety` | do TRACK and the machine agree, and does nothing drive on an old order? | yes, for orders of which nothing was lost; but Nav2 may finish what it was sent before a restart |
| `orders_live` | is every order answered or ended? | yes, for a machine TRACK holds for online |
| `orders_replaced` | is what TRACK shows RUNNING being executed? | no: a replaced order stays RUNNING |
| `ugv01_safety` | after any one mishap: does silence put everything to rest, is a fault a stop, an acknowledged stop off, a brake move bounded, and a start from rest released? | yes |
| `ugv01_stall` | is a start from rest still released when a link is slow and the brake stalls? | no: the stall's line shifts the answers by one |
| `site` | on the server: is a report kept, a screen's last update the newest, an identity one track, a contact one machine's errand, a proposal honest about keep-out areas, a readback one order, trouble shown, a withdrawn file gone? does TRACK learn what a machine is made of, does an unseen track close? | yes, with the exceptions each property names |
| `field` | on what moves: is the store the truth across power cuts, done driven, Nav2's turn the machine's, a stopped vehicle at rest, throttle confirmed, a given-up control let go, a vehicle without a driver at neutral? | yes, with the exceptions each property names |
| `bench_nan` | are bad values safe? | no: a throttle of NaN is full throttle |

`site` and `field` hold eight and six components that share no state. `part` names the one that runs, and the
others rest in an initial state, so the state space is the sum of theirs and not the product:
about 730 000 and 2 100 000 states, each in some two minutes. A property of one component is
checked in every state of it.

**Bounds, and why they are enough.** The watchdog's behaviour depends only on whether an age
is at, below or above the window, so a window of 2 (1 in the daemon) and a `Horizon` past every
sum of timers show each comparison from both sides; three frames in the socket hold a
release, a press and a frame behind them. Two clients are needed for a promotion, and two
sessions in all give the two at once, or one that comes back. The run with two clients has the
ignition on throughout; the run with one has every message, the ignition going off, heartbeats
and self-tests on request, and checks the two stop properties with them. Two orders are needed for one to replace another; a report of
acceptance is two messages, so two reports are on their way at once, and one order on the
wire with one in the inbox gives an order and its cancellation in every arrangement. Two laps
show both ends of the lap count. The run with a refused order is the liveness run.

In `site`: three reports against room for two show a full queue, one cut a link or a TRACK that goes
and comes back (`HeldReports`); two writers and three revisions with room for two show an update
overtaken and one dropped (`LiveFeed`); three observations of two identities at two places, fresh or
late, reach every way of matching, and one zone with both rules every alert (`Contacts`); two machines,
a contact, a request and two orders let the inbox and a switch of mode meet at each await (`Errands`);
a square, an elbow with a notch, a triangle that alerts and a line that is no area, against
routes that touch corners, run along edges and pass by (`Proposal`); two callers, a readback, two
answers and an age of one past its time (`VoiceDesk`); no driver, one of each, two of a name
(`Systems`); two layers, two files (`Tiles`). In `field`: four manifests, among them one without
comms and one with a driver this build has not got, two places, two things seen and one power
cut (`Machine`); five orders of five kinds and three messages, so that each order can replace another in
the middle (`FleetVehicle`); turns both ways on a grid of nine, routes of none, one and two points, any of them refused or passed over, two
commands waiting (`Chassis`); a throttle
below, within and above its range, one that is no number, and two readers with a frame each in hand, against
steps that divide the speed unevenly (`Bench`); two frames and a reading
on their way, windows of two and one, one lost socket (`Cockpit`); two people who join three times in
all and one broken upstream (`Relay`).

In the rig every window is one unit and the stroke two, so that a stroke outlasts both silence
timers as it does on the vehicle (2 s against 0.7 s and 0.8 s); `Horizon` is one past the sum that
`SilenceRests` allows. One mishap of any of the seven kinds, at any moment, is the
fault assumption of `ugv01_safety`; the two violations need two. `MaxPending` is looked at
before a command is sent, not while its frames are, so a link holds up to five;
`MaxTimeouts` and `MaxTrips` let each board stop itself twice, which the trip counts need.
The runs ask for gear D only and for one direction of steering.

**Deadlock** is not checked for `Orders`, `site` and `field`: with a powered-off machine, or once the inputs
a bound allows are used up, nobody has anything to do.

**Fairness.** `TickStep` and each `ReaderStep` of the daemon are threads that the operating
system schedules (weak fairness); a blocked socket disables them, it does not make them
unfair. In `Orders` fair are the core's loop, TRACK's watchdog task, the clock that makes a
machine silent or an order overdue, and the broker's deliveries while connected. In `site` fair are, for
`TrackLearns`, the machine's loop and the broker client's thread, the broker's delivery over a
connection and TRACK's inbox task; for `UnseenTracksClose`, time, the watchdog's sweep and the inbox
task. `TrackLearns` asks for a connection that stays, since nobody owes one. Nothing is
assumed to bring a link back, to restart a process or to make a person act.

## 4. What is proved

For every value of the constants that satisfies the named assumptions, checked by TLAPS:

* `WatchdogLinkProofs`: types, `SilenceIsBounded`, `DrivingIsLive`, `LatchHolds`. The invariant adds `Polled`:
  a driving watchdog was fed no longer ago than the window plus the time since the last poll;
  `SilenceIsBounded` alone is not inductive, because between two polls nothing looks.
  `LiveWatchdog` (from `WatchdogProofs`, proved method by method) says that driving implies a
  measured gap and no hold window. `LatchHolds` adds that the first frame, which has no predecessor to
  be measured from, cannot arm. `BacklogNeverArms` and `PressIsFresh` rest on `WireInv`, which bounds every
  packet still on the wire by how it came: packets lie oldest first; what an outage held is gone before the
  next one; what a stall held finds the gap not yet judged, or a hold window longer than what is left of the
  burst; a live packet is no older than the silence an outage may hide from the watchdog, and the burst.
* `BridgeDaemonProofs`: types, `LogTellsState`, `DriverIsConnected`, `LatchedIsStopped`,
  `ShutdownIsStopped`, `OnlyArmLiftsStop`, and that the daemon implements `SafetyLatch`. The stop
  argument is about the vehicle's own latch: whatever makes the watchdog latch also stops the
  vehicle, and with a latching vehicle a frame still in a thread's hands cannot move it. It is
  therefore proved for `Latching = TRUE`; the mock vehicle does not have the property.
* `OrdersProofs`: types and `MotionIsOrdered`. The invariant adds that a process that has just
  started has taken no order (`Rest`), that in the middle of an order there is one (`Holding`), and that
  an order under way was taken by this process and has a lap left until its ending is told (`Counted`):
  without the last, a lap begun from an old route could drive. `Agreement` speaks of quiet moments, so its invariant has to
  say what holds in the middle: an order is sent once, before what cancels it, and nothing has come of it
  while it is on its way (`Coming`); what the machine said is true until a later word of the same
  process replaces it (`WordKept`); and what TRACK shows is so, or a report it has not had, or a
  cancellation the machine has not looked at, will make it so (`Known`). A word that dies with its
  process puts the order among the lost.
* `RigProofs`: types, `FaultIsStopped`, `StopAppliesOnce`, and `ThrottleRests`, which is the throttle's half of
  `SilenceRests`, all for any number of mishaps. `Harmless` says which frames may be on the throttle's wire
  for how long the bridge has been silent: once the heartbeat's window is over, no positive duty and no
  keepalive. With `Commanded` (a board that drives has been quiet for no more than its own window,
  and the bridge for no more than that and the heartbeat's) the bound follows; time passes
  only with empty wires and no call in hand, which is where the two ages meet. `Sound` is the stop: a fault is
  stopped, and a stop commands nothing. `Calm` and `NoStart` follow an operator's call method by method.
  The rest, here and in `RigStopProofs`, holds under hypotheses that TLC shows to be needed, and for any number
  of the other mishaps:
  - `SilenceRests` over links that lose no frame. If frames are lost, each repeated stop may lose its
    steering stop while its brake frame feeds the board, without end. The throttle's half is `ThrottleRests`;
    of the steering, `Steady` (in `SteerInv`) says what may be on the drive wire
    for how long the bridge has been silent, and that a board which steers is fed by nothing else.
  - `BrakeMoveIsBounded` over links that lose no frame and ports that hold; `BrakeMoveEnds`, the weaker bound, with ports
    that break. With a jam and a broken port TLC finds a move that goes on past the first bound: a steering stop feeds the
    board just before the port breaks. `BrakeInv` says that the controls know of every move on the board or on the
    wire (`Braced`), that they stop it on the tick it is due (`Prompt`, `Timed`), and what a board whose
    stop cannot arrive has left (`Grace`).
* `RigStopProofs`, on the invariant of `RigProofs`:
  - `AckedStopIsOff` where no link, reader or bridge call is slow. `AckInv` says, of each stop not yet
    answered, that what it is owed still stands (`Stands`): whatever could take a board from rest is ahead of the
    stop on its wire, the stop's transaction is ahead of every later one of its kind, and under a stop of the
    whole machine a board that is on, or will be told to go, still owes the answer. Replies are matched by
    their command byte to the oldest pending call; with a slow link and two lost frames, TLC finds the answer
    to an earlier stop taken for a later one's.
  - `StartsReleased` where nothing is slow and `MaxAge <= 1`. `StartInv` relates what the controls believe of the
    brake to the brake: they take it to be applied, or nothing on the module or on the wire applies it, and as
    long as a release may still count nothing is on the wire that would (`Freed`); a reading of "released" is
    true when it comes in, and while it counts the brake has not gone the whole way (`Seen`). Such a reading is
    at most 0.5 s old (`controls.py:119`) and the stroke takes 1.3 s (line 118), which is two places here, hence
    at most one unit. With `MaxAge = 2` TLC finds a start on a stale reading.
* `SiteProofs`: `NewestIsKept`, from the invariant that nothing counts as told to an application that has
  not subscribed; `WithdrawnIsGone`, from one that says which file each name, connection and layer
  can still stand for (`NamedFor`) and that a withdrawn one is none of them after a look (`Withdrawn`);
  `OneOrderPerReadback`: a readback is pending or taken, never both, and the answer that took it is the
  only one past that step (`Kept`, `Answered`, `HeldOnce`); `CheckIsTrue`, for profiles that list adapters for
  jobs they do (`WellFormed`); `TroubleIsShown`, from the invariant that the registry and the health the
  store keeps are the ones told last, whatever else was merged into the payload since.
* `FieldProofs`: `DrivesAsTold` (the driver's command is Nav2's with the sign of its turn changed, and odometry
  is the machine's place read the other way); `ArrivalIsOfThisRoute` (Nav2 holds the route an active
  navigator waits for, unless it refused it; the waypoints it passed over are not among what the theorem promises);
  `StopRests` (speed and ticks counted add up to no more than the top speed, and without leave no throttle is
  commanded but by a leftover, while nothing is counted); `HeldAtNeutral` (whatever still moves is promised
  a neutral by a thread that has yet to send it); `ThrottleIsConfirmed` (every frame in the socket that
  carries throttle is sure); `GivenUpIsLetGo`, from `LetGoInv`: of a page that has
  given up, what the open socket still carries ends the driving with nothing after it that could start it again, or
  nothing drives and nothing in it can (`Released`); a page in the background has given up; and
  without a seat there is nothing to come and the vehicle does not drive; `StoreIsTheTruth`, from
  `MachineInv`: by how much memory and store may differ for each write that is owed; `DoneMeansDriven` and
  the types of `FleetVehicle`, from `FleetInv`: where a vehicle stands on its route is what it has driven. The sum over
  a route is a recursive function, which the prover may not unfold until it is shown to exist: the
  lemma is by the least number of legs for which no such function exists. `SpecTypeOK` puts the types of all
  parts of `MCField` together.
* `SiteProofs`, of the world TRACK keeps: `FeedTellsWhere` (the feed's last word, or the alert still owed, is the zone table's);
  `OneTrackPerIdentity` (of the tracks that are not closed one follows an identity, and the list finds it), for
  as long as these tracks fit in the list the matching looks at. The hypothesis `ListFits` is the code's
  limit of 500, and needed: with `Window = 1` TLC finds a second track;
  `OneMachinePerContact` (a contact that has an order has a record, or a handler is about to write it, `Looked`) and
  `SwitchWithdraws` (an open order the platform gave on its own is on an automatic machine, or some handler has yet to
  take it back, or it was reopened or overlooked, `Backed`), both over every bus, with what only a suspending one
  allows named in the property; `NothingLost` (a report is in exactly the hands the threads' places say;
  after a flush at most the one the loop had already found itself holding).
  `SpecOneMatch`: an observation has at most one track to go to. Where two could be matched the list decides, so its
  order is in the invariant: it is always a ranking of the tracks there are, without gap or tie (`WrittenIsRanking`).
  The types of all parts of `MCSite` (`SpecTypeOK`); of the lists, `ErrandsTyped` says that no record and no handler names an order
  that was not issued. They assume finitely many zones and the three outcomes a battery check has.
* `SiteProofs`, of the geometry under a route's keep-out check: `MeetIsCommonPoint`, `segments_intersect` (`geo.py:97`) decides
  exactly whether two segments have a point in common, touching, overlapping and single points included. The point is
  given by its weights on either segment, so fractions count and not only the grid; the proof is about
  the turns of the ends, which cancel in these weights (`TurnsBalance`), so that they have opposite signs or one of the ends
  is the point. From it, `SpecEdgesAreSeen`: a route that touches an edge of a zone, grazed or run along, is never shown as clear,
  nor left open when the zone must be kept out of, for any routes and rings. Numbers are exact in the
  model and floats in the code: what a rounding does to three points nearly in line is not covered.

Only model-checked:

* `SilenceRests`, `BrakeMoveIsBounded`, `AckedStopIsOff` and `StartsReleased` where a frame is lost, a port breaks
  under a move, or a call is slow, beyond the hypotheses above: `ugv01_safety` checks these with one mishap. A slow
  link and a stall together break `StartsReleased` (`ugv01_stall`).
* `KeepOutIsHonest`: that a route which enters a zone has an end in it or touches an edge is a fact about
  polygons (an arc from inside to outside meets the boundary) that needs an induction over the ring. The
  step after it, from the edge to the verdict, is `SpecEdgesAreSeen`.
* All liveness (`SilenceLatchesUnlessStuck`, `EstopStops`, `PendingIsAnswered`, `SilenceEndsOrders`, `TrackLearns`,
  `UnseenTracksClose`), since fairness and ENABLED are beyond the prover.

## 5. What the models say about the code

* **A stall before the first command frame is invisible** (`watchdog.py:91`): heartbeats feed but
  do not set `_last_cmd`, so a queued release and press arm when they drain.
* **One client that stops reading blocks the silence check** (`daemon.py:500`).
* **The driver check is not repeated under the lock** (`daemon.py:263`).
* **A replaced order is never closed** (`core.py:238`).
* **A hold order does not stop the machine.** `follow([])` leaves the drive going
  (`navigator.py:94`); Nav2's navigator also forgets that it is driving (`nav2.py:173`), so that
  cancelling the hold leaves it driving with no order at all (`nav2.py:184`). `MotionIsOrdered`
  is stated for what remains true.
* **A crash between an ending's report and its record** (`core.py:367`, `373`) makes the next
  process report FAILED after DONE, or take up a cancelled hold again. `Agreement` leaves these
  orders out (`Cut` marks them).
* **An interrupted order may be reported to nobody**: at boot the report is made before the MQTT
  session exists, and `_send` drops it (`core.py:183`, `link_client.py:135`).
* **A report can reopen an order of an OFFLINE machine** (`worldmodel.py:651`, `1112`): the
  watchdog skips machines that are OFFLINE already, so if this one dies before its first
  heartbeat the order stays RUNNING.
* **The reply deadline forgets frames in flight** (`controls.py:961`). When the first zero of a
  stop is lost, the deadline clears the whole queue, and the echo of a newer zero acknowledges
  one that the board has yet to take. What `ugv01_safety` shows, one mishap
  at a time, is `AckedStopIsOff`: a stop reported as acknowledged is off on both boards.
* **An unasked STALL shifts the answers** (`controls.py:395`, `angle_limits.cpp:290`): the throttle can
  start while the brake is being applied, until the release behind it is taken. `StartsReleased`
  holds while one thing goes wrong at a time, and whatever goes wrong where nothing is slow (section 4).
* **A stop's own brake apply keeps a steering alive whose stop frame was lost**
  (`controls.py:1061`): the drive module has one silence timer for both actuators, so such a
  steering goes off after heartbeat, stroke and silence together, and not after heartbeat and
  silence as lines 28 to 32 suggest. `SilenceRests` states the larger bound.
* **The adapter does not learn of a stop that the controls made** (`ugv01.py:127`): it remembers
  having released the brake and sends no release afterwards, so that the throttle is refused until
  the operator presses and releases the brake. It errs on the safe side.
* **A throttle that is not a number is full throttle** (`contract.py:29`, finding `bench_nan`).
* **Redis takes two promises away** (`worldmodel.py:364`), and Redis is the default: when the bus suspends its
  caller, two requests can each send a machine to one contact, and a switch to manual can leave one on an order
  that is not yet on record, or no longer. `OneMachinePerContact` and `SwitchWithdraws` say exactly when.
* **A late report reopens a withdrawn order** (`worldmodel.py:651`): `on_task_status` writes ACCEPTED or RUNNING over
  CANCELLED, and nothing withdraws the order again. `SwitchWithdraws` names these orders (`reopened`).
* **Nav2 outlives the runtime** (`ros/launch/pilot_nav2.py:11`): nothing cancels its route when the runtime stops
  (`runtime.py:68`) or starts (`main.py:83`), and the new process's bridge forwards what it publishes
  (`ros/bridge.py:83`). A machine restarted in the middle of a route goes on, under no order, while the order
  is reported failed. "A machine never automatically resumes physical motion" (`core.py:162`) is kept
  by the runtime, not by the machine; `MotionIsOrdered` names the exception.
* **A refused route is taken for followed** (`nav2.py:180`): the result of `followWaypoints` is ignored, the navigator
  waits for the route Nav2 is still on, or reads the result of its last one, and an old SUCCEEDED is the new order's
  DONE. A cancellation then does not reach Nav2.
* **A route counts as driven with waypoints missed** (`ros/config/nav2.yaml:201`): with `stop_on_failure` off Nav2
  skips what it cannot reach and succeeds, and the navigator does not read which (`nav2.py:201`).
* **The mock vehicle drives on a frame that a stop overtook** (`daemon.py:321`, `vehicle.py:67`): it has no latch of
  its own, and the watchdog, latched already, does not stop it again. `StopRests` names the exception.
* **An identity that was taken for another can get a second track** (`fusion.py:154`): resolution takes one
  step along the row there is, and once the other's track has closed, each observation that is
  near nothing opens a new one under the identity as reported.
* **An observation held back drags a track to where it was** (`fusion.py` `_update`): the one that arrives last
  counts, whatever its age.
* **Alerts are lost when TRACK dies between the zone table and the feed**; `FeedTellsWhere` leaves this out.
* **What is published between a stream's snapshot and its subscription reaches nobody** (`api.py:528`).
* **Two drivers of one name hide each other's trouble** (`systems_view` looks rows up by name).
* **A file replaced under the same name keeps being served** (`tiles.py:148`), although "a file dropped into the
  directory shows up without a restart".
* **A proposal shown clear can cross a zone drawn before it is approved**: the order is not checked against
  what was shown.
* **"Not accepted" may be said of an order that TRACK took** when its answer comes too late (`voice`).
* **TRACK hears STANDBY of a vehicle being driven**, and a battery of 0 % where none is measured
  (`vehicle.py:126`, `ugv01.py` `read`).
* **A STOP frame carries no ignition** (`bridgeTransport.ts` `estop`): the next ordinary frame turns it on again.
* **A neutral lost with the relay's upstream is not sent again** (`argus_relay.py:182`), and a driver's own last token
  may overtake it: the two exceptions of `HeldAtNeutral`.
* **A registry can stay untold** (`link_client.py:113`): it is offered again when the machine's own link comes up,
  not when TRACK's does. `TrackLearns` names this as `untold`.
* **`list_tracks` returns five hundred rows, newest write first** (`worldmodel.py` sweep): with more open tracks
  the oldest are never swept.
* `_fail_open_tasks` looks at the 200 newest orders only (`worldmodel.py:1138`).

### Claims of the code that do not hold

Some definitions state what a comment or a docstring says and the code does not keep. No run checks
them; added to a cfg, TLC shows how each fails.

| definition | module | add to | with |
|---|---|---|---|
| `OpeningBacklogNeverArms` | `WatchdogLink` | `MCWatchdogLink.cfg` | `MaxWire = 2` |
| `SilenceLatches` | `BridgeDaemon` | `MCBridgeStray.cfg` | `SPECIFICATION FairSpec` |
| `AckIsOfTheLatest` | `Ugv01Rig` | `MCUgv01Stall.cfg` | `Mishaps <- SlowAndLossy` |
| `KeepsWorking`, `ApprovedAsShown`, `RefusedMeansRefused`, `NeitherHidesTheOther`, `DroppedShowsUp` | see section 2 | `MCSite.cfg` | as it is |
| `IdentityFirst` | `Contacts` | `MCSite.cfg` | `MaxSeen = 5` |
| `DrivingIsReported`, `DeadmanHolds` | `Bench`, `Relay` | `MCField.cfg` | as it is |

## 6. What is not modelled, and the plan

Next, in this order:

1. `Ugv01Rig`, liveness: a stop is either acknowledged or becomes a fault while the tick thread runs.
2. `Contacts` fed by `HeldReports`, with the ages of what was held back.
3. The rig's `start()` and `close()`, changes of arming, and `steer_to`.
4. Proofs: a route that enters a ring of corners from outside meets its boundary, the part of
   `KeepOutIsHonest` that is left; `AckedStopIsOff` with one slow link and no lost frame.

In the rig, left out so far: `start()` and `close()` with their handshakes, changes of arming
while running (Wi-Fi, STATUS), `steer_to` and its loop, steering limits, the plausibility of
angles (an implausible one faults as a failed one does), lights, horn, indicator and speed, the
bench modes (`brake_absent`, `brake_on_stop` off), the drive module's NO_SIGNAL trip, and a port
that fails between two writes of one call.

Left out elsewhere: the failed-login limiter, whose check and record are two lock sections
(`daemon.py:214`) but which nothing else reads; confidence, velocity and the sphere's distances in fusion; the
matching of words within a sentence; limits of the store's lists other than the tracks'; the
physics' constants; the timing of the reporter's samples.

Left out for good: the WebSocket framing, camera, perception and SLAM drivers, the C2 screens, the legacy
fake vehicles, the models behind the AI adapters, the language files, scripts and generated
code: I/O, rendering and third-party calls, with no state whose order of change matters. The clock
is the watchdog's own in the bridge and a pair of timeouts in `Orders`; TRACK's own connection to
the broker is taken as up in `Orders` (it comes and goes in `HeldReports`), and orders are
delivered at most once in a session.
