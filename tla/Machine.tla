------------------------------- MODULE Machine -------------------------------
(***************************************************************************)
(* One machine from its manifest to its reports: boot and shutdown         *)
(* (drive/pilot/runtime.py, main.py), the hardware layer (hal/loader.py,   *)
(* registry.py, perception.py, localization.py, drivers/simulated.py,      *)
(* drivers/ugv01/locomotion.py), the turn of the loop                      *)
(* (autonomy/core.py) and what the machine remembers of the things it saw  *)
(* (autonomy/worldslice.py, local_world.py).                               *)
(*                                                                         *)
(* The loop and the signal handler share one thread: a signal runs the     *)
(* whole shutdown between two steps of a turn, which then goes on.  A      *)
(* power cut comes between any two steps, one between a change in memory   *)
(* and its row on disk included.  Places are points of a line; what        *)
(* becomes of orders is the business of module Pilot.                      *)
(***************************************************************************)
EXTENDS Naturals, Sequences, FiniteSets

CONSTANTS
    Bodies,     \* manifests, as the loader reads them
    Carried,    \* the drivers this build has registered
    Ground,     \* the points of the line, a range from 0
    Scripts,    \* what the scripted camera will report: [class, off, count]
    MaxThings,  \* bound on the identities given out
    SameThing,  \* SAME_THING_M
    ForgetAfter,\* FORGET_AFTER_S, in steps of one unit
    MaxCutsOff, \* bound on the power cuts
    None        \* no driver, no place, no class

ASSUME MachineAssumption ==
    /\ \A b \in Bodies : b.sensors \subseteq {"simulated_camera", "simulated_gnss"}
    /\ Ground \subseteq Nat /\ \E last \in Ground : Ground = 0..last
    /\ \A s \in Scripts : s.class # None /\ s.off \in Nat /\ s.count \in Nat
    /\ {MaxThings, SameThing, ForgetAfter, MaxCutsOff} \subseteq Nat

VARIABLES
    body,      \* the manifest
    life,      \* "off", "refused", "starting", "looping", "over"
    running,   \* the drivers started and not stopped
    turn,      \* where the loop is: "home", "step", "sense", "report"
    asked,     \* the core has been told to stop
    place,     \* where the machine is
    speed,     \* the speed commanded, 0 or 1
    goal,      \* the waypoint the controller goes to, None for none
    route,     \* the waypoints the navigator still has
    shots,     \* per script, how often the camera has reported it since it started
    home,      \* where "return home" leads, None until known
    homeRow,   \* the same, on disk
    things,    \* what was seen lately, in memory: per identity [class, at, age]
    rows,      \* the same, on disk
    given,     \* identities given out
    owes,      \* the write to disk in progress: "nothing", "home", "thing", "forget"
    about,     \* the identities that write is about
    shown,     \* the drivers the last registry snapshot calls healthy
    cutsOff    \* power cuts so far

machineVars == <<body, life, running, turn, asked, place, speed, goal, route, shots, home, homeRow,
                 things, rows, given, owes, about, shown, cutsOff>>

Names == 1..MaxThings
Gone == [class |-> None, at |-> 0, age |-> 0]
Remembered(table) == {n \in Names : table[n] # Gone}

DriversOf(b) == {b.locomotion, b.localization, b.comms} \cup b.sensors

MachineOK ==
    /\ body \in Bodies /\ life \in {"off", "refused", "starting", "looping", "over"}
    /\ running \subseteq DriversOf(body)
    /\ turn \in {"home", "step", "sense", "report"} /\ asked \in BOOLEAN
    /\ place \in Ground /\ speed \in {0, 1} /\ goal \in Ground \cup {None}
    /\ route \in Seq(Ground)
    /\ shots \in [Scripts -> Nat]
    /\ home \in Ground \cup {None} /\ homeRow \in Ground \cup {None}
    /\ \A n \in Names : things[n].age \in 0..ForgetAfter + 1 /\ rows[n].age \in 0..ForgetAfter + 1
    /\ given \in 0..MaxThings
    /\ owes \in {"nothing", "home", "thing", "forget"} /\ about \subseteq Names
    /\ shown \subseteq DriversOf(body) /\ cutsOff \in 0..MaxCutsOff

MachineInit ==
    /\ body \in Bodies /\ life = "off" /\ running = {} /\ turn = "home" /\ asked = FALSE
    /\ place = 0 /\ speed = 0 /\ goal = None /\ route = <<>> /\ shots = [s \in Scripts |-> 0]
    /\ home = None /\ homeRow = None
    /\ things = [n \in Names |-> Gone] /\ rows = [n \in Names |-> Gone] /\ given = 0
    /\ owes = "nothing" /\ about = {} /\ shown = {} /\ cutsOff = 0

motion == <<place, speed, goal, route>>
memory == <<home, homeRow, things, rows, given, owes, about>>

------------------------------------------------------------------------------
(* Booting.                                                                   *)

\* build_drivers: a machine without locomotion or comms, or with a driver this
\* build does not carry, is refused before anything is opened.
Builds(b) ==
    /\ b.locomotion # None /\ b.comms # None
    /\ {b.locomotion, b.comms} \cup b.sensors \subseteq Carried
    /\ b.localization \in Carried \cup {"dead_reckoning"}

\* WorldSlice._recover: what the last process knew.
Recover == home' = homeRow /\ things' = rows

\* boot: what the store knows comes up before anything that could act on it.
BootMachine ==
    /\ life = "off"
    /\ IF Builds(body)
       THEN life' = "starting" /\ Recover
       ELSE life' = "refused" /\ UNCHANGED <<home, things>>
    /\ UNCHANGED <<body, running, turn, asked, shots, homeRow, rows, given, owes, about, shown, cutsOff>>
    /\ UNCHANGED motion

\* DriverSet.start, in its order; the camera's script begins again.
StartOrder(b) == <<b.locomotion, b.localization>>
StartsNext(d) ==
    LET first == SelectSeq(StartOrder(body), LAMBDA x : x \notin running) IN
    IF first # <<>> THEN d = Head(first)
    ELSE IF body.sensors \subseteq running THEN d = body.comms ELSE d \in body.sensors \ running

StartDriver(d) ==
    /\ life = "starting" /\ d \in DriversOf(body) \ running /\ StartsNext(d)
    /\ running' = running \cup {d}
    /\ life' = IF d = body.comms THEN "looping" ELSE "starting"
    /\ shots' = IF d = "simulated_camera" THEN [s \in Scripts |-> 0] ELSE shots
    /\ UNCHANGED <<body, turn, asked, shown, cutsOff>> /\ UNCHANGED motion /\ UNCHANGED memory

\* The vehicle's boards can fail their identity check: the process ends there.
StartFails ==
    /\ life = "starting" /\ body.locomotion = "ugv01_locomotion" /\ running = {}
    /\ life' = "over"
    /\ UNCHANGED <<body, running, turn, asked, shots, shown, cutsOff>>
    /\ UNCHANGED motion /\ UNCHANGED memory

------------------------------------------------------------------------------
(* The turn of the loop.                                                      *)

Turning(step) == life = "looping" /\ turn = step /\ owes = "nothing"

\* estimate: dead reckoning is healthy while it runs, a configured position never.
EstimateHealthy == body.localization = "dead_reckoning" /\ body.localization \in running

\* WorldSlice.home: the attribute first, then the row.
SetHome(x) == home' = x /\ owes' = "home"

\* run: home is where a healthy estimate says the machine is, unless the store
\* has one.
TakeHome ==
    /\ Turning("home")
    /\ turn' = "step"
    /\ IF home = None /\ EstimateHealthy THEN SetHome(place) ELSE UNCHANGED <<home, owes>>
    /\ UNCHANGED <<body, life, running, asked, shots, homeRow, things, rows, given, about, shown, cutsOff>>
    /\ UNCHANGED motion

\* set_home and save_entity; forget_entity.  (Variant: what is forgotten stays on
\* disk.)
SaveHome(row) == IF owes = "home" THEN home ELSE row
SaveThings(table) ==
    IF owes = "thing" THEN [n \in Names |-> IF n \in about THEN things[n] ELSE table[n]] ELSE table
RowsForgotten(table, names) == table
RowsWithout(table, names) == [n \in Names |-> IF n \in names THEN Gone ELSE table[n]]
ForgetRows(table, names) == RowsWithout(table, names)

\* The write through to the store that the thread is in.
WriteThrough ==
    /\ life # "off" /\ owes # "nothing"
    /\ owes' = "nothing" /\ about' = {}
    /\ homeRow' = SaveHome(homeRow)
    /\ rows' = IF owes = "forget" THEN ForgetRows(rows, about) ELSE SaveThings(rows)
    /\ UNCHANGED <<body, life, running, turn, asked, shots, home, things, given, shown, cutsOff>>
    /\ UNCHANGED motion

\* DirectNavigator.follow, for an order just taken; SimulatedLocomotion.goto.
Follow(legs) ==
    /\ Turning("step") /\ route = <<>> /\ body.locomotion = "simulated_locomotion"
    /\ route' = legs /\ goal' = Head(legs) /\ speed' = 1
    /\ UNCHANGED <<body, life, running, turn, asked, place, shots, shown, cutsOff>> /\ UNCHANGED memory

\* set_velocity without a goal, from a planner.
SetVelocity(v) ==
    /\ Turning("step") /\ route = <<>> /\ body.locomotion = "simulated_locomotion"
    /\ goal' = None /\ speed' = v
    /\ UNCHANGED <<body, life, running, turn, asked, place, route, shots, shown, cutsOff>>
    /\ UNCHANGED memory

\* tick moves the machine only while the driver runs and something is commanded.
Moves == body.locomotion \in running /\ speed > 0

Toward(x, y) == IF x < y THEN x + 1 ELSE IF y < x THEN x - 1 ELSE x
Ahead(x) == IF x + 1 \in Ground THEN x + 1 ELSE x

\* step: the tick, and then the next waypoint when this one is reached.
StepOn ==
    /\ Turning("step")
    /\ turn' = "sense"
    /\ LET now == IF ~Moves THEN place ELSE IF goal = None THEN Ahead(place) ELSE Toward(place, goal)
           there == route # <<>> /\ now = Head(route)
       IN /\ place' = now
          /\ route' = IF there THEN Tail(route) ELSE route
          /\ IF there /\ Len(route) > 1 THEN goal' = route[2] /\ speed' = 1
             ELSE IF there \/ (Moves /\ goal = now) THEN goal' = None /\ speed' = 0
             ELSE UNCHANGED <<goal, speed>>
    /\ UNCHANGED <<body, life, running, asked, shots, shown, cutsOff>> /\ UNCHANGED memory

------------------------------------------------------------------------------
(* What it sees.                                                              *)

Off(x, y) == IF x < y THEN y - x ELSE x - y

\* poll: a camera that runs reports what its script has left.
Detected == {s \in Scripts : "simulated_camera" \in running /\ shots[s] < s.count}

\* resolve begins by forgetting what has not been seen for long ...
Forgettable == {n \in Remembered(things) : things[n].age > ForgetAfter}

Forget ==
    /\ Turning("sense") /\ Detected # {} /\ Forgettable # {}
    /\ things' = [n \in Names |-> IF n \in Forgettable THEN Gone ELSE things[n]]
    /\ owes' = "forget" /\ about' = Forgettable
    /\ UNCHANGED <<body, life, running, turn, asked, shots, home, homeRow, rows, given, shown, cutsOff>>
    /\ UNCHANGED motion

\* ... and then takes the first thing of the class near enough, or a new one.
Fits(script, n) == things[n].class = script.class /\ Off(things[n].at, place + script.off) <= SameThing
Named(script) ==
    LET known == {n \in Remembered(things) : Fits(script, n)} IN
    IF known # {} THEN CHOOSE n \in known : \A k \in known : n <= k ELSE given + 1

\* _save, after the identity has changed in memory.
Save(n) == owes' = "thing" /\ about' = {n}

\* _sense: the detections stream of every sensor; a receiver's is of another
\* kind and is passed over.
Sense(script) ==
    /\ Turning("sense") /\ Forgettable = {} /\ script \in Detected
    /\ Named(script) <= MaxThings
    /\ shots' = [shots EXCEPT ![script] = @ + 1]
    /\ things' = [things EXCEPT ![Named(script)] =
                     [class |-> script.class, at |-> place + script.off, age |-> 0]]
    /\ given' = IF Named(script) > given THEN given + 1 ELSE given
    /\ Save(Named(script))
    /\ UNCHANGED <<body, life, running, turn, asked, home, homeRow, rows, shown, cutsOff>>
    /\ UNCHANGED motion

SenseDone ==
    /\ Turning("sense")
    /\ turn' = "report"
    /\ UNCHANGED <<body, life, running, asked, shots, shown, cutsOff>>
    /\ UNCHANGED motion /\ UNCHANGED memory

\* Registry.snapshot: every driver is asked, and one that is stopped, or a
\* position nobody measured, is not healthy.
Healthy(d) == d = body.comms \/ (d \in running /\ d # "static_localization")

\* The end of a turn: the next, or the way out.
Report ==
    /\ Turning("report")
    /\ shown' = {d \in DriversOf(body) : Healthy(d)}
    /\ IF asked THEN life' = "over" /\ UNCHANGED turn ELSE turn' = "step" /\ UNCHANGED life
    /\ UNCHANGED <<body, running, asked, shots, cutsOff>> /\ UNCHANGED motion /\ UNCHANGED memory

\* Wall-clock time; it passes for the rows of a machine that is off as well.
Older(table) ==
    [n \in Names |-> IF table[n] # Gone /\ table[n].age <= ForgetAfter
                     THEN [table[n] EXCEPT !.age = @ + 1] ELSE table[n]]
TimeGoesBy ==
    /\ things' = Older(things) /\ rows' = Older(rows) /\ (things' # things \/ rows' # rows)
    /\ UNCHANGED <<body, life, running, turn, asked, shots, home, homeRow, given, owes, about, shown,
                   cutsOff>> /\ UNCHANGED motion

------------------------------------------------------------------------------
(* Ending.                                                                    *)

\* Runtime.stop: the core is told, the link and the drivers are stopped.
StopAll ==
    /\ asked' = TRUE /\ running' = {} /\ speed' = 0
    /\ UNCHANGED <<body, turn, place, goal, route, shots, shown, cutsOff>> /\ UNCHANGED memory

\* A signal, in the middle of whatever the loop was at.
Signal == life = "looping" /\ ~asked /\ StopAll /\ UNCHANGED life

\* main's finally: once more, whatever ended the loop.
Finally == life = "over" /\ (running # {} \/ ~asked) /\ StopAll /\ UNCHANGED life

PowerCut ==
    /\ life \in {"starting", "looping"} /\ cutsOff < MaxCutsOff
    /\ cutsOff' = cutsOff + 1
    /\ life' = "off" /\ running' = {} /\ turn' = "home" /\ asked' = FALSE
    /\ place' = 0 /\ speed' = 0 /\ goal' = None /\ route' = <<>>
    /\ home' = None /\ things' = [n \in Names |-> Gone] /\ owes' = "nothing" /\ about' = {}
    /\ shown' = {}
    /\ UNCHANGED <<body, shots, homeRow, rows, given>>

MachineNext ==
    \/ BootMachine \/ StartFails \/ TakeHome \/ WriteThrough \/ StepOn \/ Forget \/ SenseDone \/ Report
    \/ TimeGoesBy \/ Signal \/ Finally \/ PowerCut
    \/ \E d \in DriversOf(body) : StartDriver(d)
    \/ \E x, y \in Ground : Follow(<<x, y>>)
    \/ \E v \in {0, 1} : SetVelocity(v)
    \/ \E s \in Scripts : Sense(s)

MachineSpec == MachineInit /\ [][MachineNext]_machineVars

------------------------------------------------------------------------------
(* Properties.                                                                *)

\* Memory and the store are one: between writes they agree, across power cuts,
\* so what was known, and what was forgotten, stays so (worldslice.py home, _save
\* and _forget: "or the store stops being the truth").
StoreIsTheTruth ==
    life \notin {"off", "refused"} /\ owes = "nothing" => home = homeRow /\ things = rows

=============================================================================
