------------------------------ MODULE Chassis ------------------------------
(***************************************************************************)
(* Between Nav2 and the wheels: the navigator that hands routes to Nav2    *)
(* (pilot/autonomy/nav2.py), the bridge that turns /cmd_vel into driver    *)
(* commands and positions into /odom (pilot/ros/bridge.py), and the driver *)
(* under it, simulated or the ugv-01's held shell                          *)
(* (pilot/hal/drivers).                                                    *)
(*                                                                         *)
(* Two conventions meet here.  The driver's headings are quarters of the   *)
(* compass, clockwise from north; Nav2's yaw is quarters anticlockwise     *)
(* from east.  Positions are a grid, <<east, north>>, about the datum.     *)
(*                                                                         *)
(* The core's loop calls the navigator; the bridge runs on a thread of its *)
(* own; Nav2 is external: it plans on /odom as last published, may refuse  *)
(* a route, passes over a waypoint it cannot reach, and reports what       *)
(* became of the route it accepted last.                                   *)
(***************************************************************************)
EXTENDS Integers, Sequences

CONSTANTS
    Drivers,    \* the drivers a manifest may name: "simulated", "ugv01"
    Routes,     \* the routes the core may ask for: sequences of grid points
    Extent,      \* bound on the grid
    Backlog     \* bound on commands published and not yet taken

ASSUME ChassisAssumption ==
    /\ Drivers \subseteq {"simulated", "ugv01"}
    /\ \A r \in Routes : r \in Seq(Int \X Int)
    /\ Extent \in Nat /\ Backlog \in Nat

VARIABLES
    wheels,       \* which driver it is
    at, heading,  \* where it is, and its compass heading
    commanded,    \* the driver's command: quarters clockwise, steps ahead
    spinning,     \* the bridge's thread is alive
    cmdVel,       \* commands on /cmd_vel not yet taken by the bridge
    odom,         \* the last odometry
    told,         \* what /cmd_vel last asked of the driver, as Nav2 said it
    nav2,         \* Nav2: [at : "idle", "busy", "won", "lost", goals, leg]
    course,       \* the route the navigator holds
    refused,      \* ... which Nav2 did not accept
    active, arrived, failed

ports == <<cmdVel, odom>>
rig == <<wheels, at, heading, commanded, spinning, told>>
plan == <<course, refused, active, arrived, failed>>
chassis == <<rig, ports, nav2, plan>>

Commands == [linear : -1..1, angular : -1..1]
Still == [linear |-> 0, angular |-> 0]

------------------------------------------------------------------------------
(* The two conversions.                                                       *)

\* -degrees(angular.z): anticlockwise becomes clockwise.  (Variant: as it is.)
AsGiven(angular) == angular
Clockwise(angular) == -angular

\* radians(90 - heading).
Yaw(compass) == (1 - compass) % 4

\* Distances from the datum have no sign of their own: it is put back.
Distance(a) == IF a < 0 THEN -a ELSE a
Local(p) == <<IF p[1] < 0 THEN -Distance(p[1]) ELSE Distance(p[1]),
              IF p[2] < 0 THEN -Distance(p[2]) ELSE Distance(p[2])>>

Odometry(p, compass) == [xy |-> Local(p), yaw |-> Yaw(compass)]

\* One step along a compass heading, and along a yaw.
North == <<0, 1>>
East == <<1, 0>>
South == <<0, -1>>
West == <<-1, 0>>
Along(compass) == <<North, East, South, West>>[compass + 1]
AlongYaw(yaw) == <<East, North, West, South>>[yaw + 1]
Stepped(p, n, d) == <<p[1] + n * d[1], p[2] + n * d[2]>>

ChassisInit ==
    /\ wheels \in Drivers
    /\ at = <<0, 0>> /\ heading = 0
    /\ commanded = Still /\ told = Still
    /\ spinning = TRUE
    /\ cmdVel = <<>>
    /\ odom = Odometry(<<0, 0>>, 0)
    /\ nav2 = [at |-> "idle", goals |-> <<>>, leg |-> 1]
    /\ course = <<>> /\ refused = FALSE
    /\ active = FALSE /\ arrived = FALSE /\ failed = FALSE

------------------------------------------------------------------------------
(* The bridge, and the driver under it.                                       *)

\* A command stands until the next: the simulated driver lets none expire.
Obeys(c) == commanded' = [linear |-> c.linear, angular |-> Clockwise(c.angular)]

\* The ugv-01 has no measured calibration: it stops when told to and raises on
\* anything else, in the bridge's callback, and the thread ends.
OnCmdVel ==
    /\ spinning /\ cmdVel # <<>>
    /\ LET c == Head(cmdVel) IN
       /\ told' = c
       /\ IF wheels = "ugv01"
            THEN /\ spinning' = (c = Still)
                 /\ UNCHANGED commanded
            ELSE /\ Obeys(c)
                 /\ UNCHANGED spinning
    /\ cmdVel' = Tail(cmdVel)
    /\ UNCHANGED <<wheels, at, heading, odom, nav2, plan>>

\* tick: first the turn, then the way along the new heading.
Turned == (heading + commanded.angular) % 4
Travelled == IF commanded.linear = 0 THEN at ELSE Stepped(at, commanded.linear, Along(Turned))

PublishState ==
    /\ spinning
    /\ Distance(Travelled[1]) <= Extent /\ Distance(Travelled[2]) <= Extent
    /\ heading' = Turned
    /\ at' = Travelled
    /\ odom' = Odometry(Travelled, Turned)
    /\ UNCHANGED <<wheels, commanded, spinning, told, cmdVel, nav2, plan>>

------------------------------------------------------------------------------
(* Nav2, external.                                                            *)

\* While it drives it publishes what it likes; done, or told to stop, it
\* publishes a last zero.
Publishes(c) ==
    /\ nav2.at = "busy" /\ Len(cmdVel) < Backlog
    /\ cmdVel' = Append(cmdVel, c)
    /\ UNCHANGED <<rig, odom, nav2, plan>>

Finishes(how) == /\ nav2' = [nav2 EXCEPT !.at = how]
                 /\ cmdVel' = Append(cmdVel, Still)

\* The last waypoint ends the route.
LeavesWaypoint ==
    /\ nav2.at = "busy" /\ Len(cmdVel) <= Backlog
    /\ IF nav2.leg = Len(nav2.goals)
         THEN Finishes("won")
         ELSE nav2' = [nav2 EXCEPT !.leg = @ + 1] /\ UNCHANGED cmdVel
    /\ UNCHANGED <<rig, odom, plan>>

\* A waypoint is reached when odometry says so.
Reaches == LeavesWaypoint /\ odom.xy = Local(nav2.goals[nav2.leg])

\* stop_on_failure is off: one that cannot be reached is passed over, and the
\* route succeeds without it.
Misses == LeavesWaypoint /\ odom.xy # Local(nav2.goals[nav2.leg])

GivesUp ==
    /\ nav2.at = "busy" /\ Len(cmdVel) <= Backlog
    /\ Finishes("lost")
    /\ UNCHANGED <<rig, odom, plan>>

------------------------------------------------------------------------------
(* The navigator.                                                             *)

\* A new route replaces the one Nav2 is on.  An empty one does not reach Nav2, one
\* Nav2 refuses leaves it at what it was: followWaypoints says so, and nobody looks.
Accepted(r) == nav2' = [at |-> "busy", goals |-> r, leg |-> 1]

FollowCourse(r) ==
    /\ course' = r
    /\ arrived' = FALSE /\ failed' = FALSE
    /\ active' = (r # <<>>)
    /\ refused' \in {FALSE, r # <<>>}
    /\ IF r = <<>> \/ refused' THEN UNCHANGED nav2 ELSE Accepted(r)
    /\ UNCHANGED <<rig, ports>>

\* cancelTask waits until Nav2 has stopped; it asks for the route sent last, and
\* not for an earlier one that Nav2 stayed on.
Cancel ==
    /\ Len(cmdVel) <= Backlog
    /\ active' = FALSE /\ course' = <<>> /\ refused' = FALSE
    /\ IF active /\ nav2.at = "busy" /\ ~refused
         THEN Finishes("idle")
         ELSE UNCHANGED <<nav2, cmdVel>>
    /\ UNCHANGED <<rig, odom, arrived, failed>>

Succeeded == nav2.at = "won"

\* A route that was not finished is not an arrival, and it is not silence.  After
\* a refusal the result read is that of an earlier route.
Step ==
    /\ active /\ nav2.at # "busy"
    /\ active' = FALSE
    /\ arrived' = Succeeded /\ failed' = ~Succeeded
    /\ UNCHANGED <<rig, ports, nav2, course, refused>>

ChassisNext ==
    \/ OnCmdVel \/ PublishState
    \/ \E c \in Commands : Publishes(c)
    \/ Reaches \/ Misses \/ GivesUp
    \/ \E r \in Routes : FollowCourse(r)
    \/ Cancel \/ Step

ChassisSpec == ChassisInit /\ [][ChassisNext]_chassis

------------------------------------------------------------------------------
ChassisOK ==
    /\ wheels \in Drivers /\ heading \in 0..3
    /\ commanded \in Commands /\ told \in Commands
    /\ Len(cmdVel) <= Backlog + 1
    /\ nav2.at \in {"idle", "busy", "won", "lost"} /\ refused \in BOOLEAN
    /\ ~(arrived /\ failed) /\ (active => ~arrived /\ ~failed)

\* Read in Nav2's own frame, the machine does what Nav2 said: from one odometry to
\* the next it has turned by the angle asked for, anticlockwise positive, and gone
\* that way, in the plane about the datum, as far as it was told: one sign wrong in
\* either direction and it steers away from every correction
\* (bridge.py:83-92, 96-123, 138-147).
DrivesAsTold ==
    [][PublishState /\ wheels = "simulated" =>
         /\ odom'.yaw = (odom.yaw + told.angular) % 4
         /\ odom'.xy = Stepped(odom.xy, told.linear, AlongYaw(odom'.yaw))]_chassis

\* An arrival is that of the route the navigator holds: when it says it arrived,
\* Nav2 had accepted that route, was not taken off it by another or a cancellation,
\* and came to its end, every waypoint reached or, failed, passed over.  The one
\* exception is a route that Nav2 refused: an earlier one's end is taken for its own
\* (nav2.py:169-213, config/nav2.yaml:201).
ArrivalIsOfThisRoute ==
    arrived /\ course # <<>> /\ ~refused =>
        nav2.goals = course /\ nav2.leg = Len(course) /\ nav2.at = "won"

=============================================================================
