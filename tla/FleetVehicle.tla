----------------------------- MODULE FleetVehicle -----------------------------
(***************************************************************************)
(* The simulated machine (sim/vehicle.py): the second speaker of LINK, and *)
(* the second reading of what an order asks for.  Its comms thread hands   *)
(* assignments to a queue; its loop takes all of them and then moves one   *)
(* step.  What it reports goes to module HeldReports.                      *)
(*                                                                         *)
(* A route is a sequence of points of a line and a step covers one unit;   *)
(* time, battery, headings and wording are left out.                       *)
(***************************************************************************)
EXTENDS Naturals, Sequences, FiniteSets

CONSTANTS
    Jobs,        \* orders TRACK may give this machine
    JobType,     \* per order: "goto", "patrol", "hold", "return_home", "survey"
    Waypoints,   \* per order, its waypoints
    JobLaps,     \* per order, its laps; 1 unless it is a patrol
    CanDo,       \* supported_task_types
    MaxPoint,    \* bound: the points of the line are 0..MaxPoint, home is 0
    MaxMessages, \* bound on the assignments sent
    Quanta       \* progress is told in these many steps of a route

ASSUME FleetAssumption ==
    /\ JobType \in [Jobs -> {"goto", "patrol", "hold", "return_home", "survey"}]
    /\ Waypoints \in [Jobs -> Seq(0..MaxPoint)] /\ JobLaps \in [Jobs -> Nat \ {0}]
    /\ MaxPoint \in Nat /\ MaxMessages \in Nat /\ Quanta \in Nat \ {0}

VARIABLES
    waiting,   \* _orders: assignments handed over and not looked at
    messages,  \* assignments sent so far
    looking,   \* the loop is at its orders, not at its move
    job,       \* the order being carried out, or NoJob
    stops,     \* its route
    leg,       \* which stop comes next
    lapsLeft,  \* laps_remaining
    spot,      \* where the machine is
    rolling,   \* speed_mps > 0
    condition, \* "standby" or "active"
    total,     \* the route's length, from where it was accepted (route_total_m)
    driven,    \* how much of it is covered (route_done_m)
    lastTold,  \* _last_progress, in quanta; 0 stands for -1
    tolds,     \* per order, what was last reported of it
    passed     \* stops reached since the order was accepted (observer)

fleet == <<waiting, messages, looking, job, stops, leg, lapsLeft, spot, rolling, condition, total, driven,
           lastTold, tolds, passed>>

NoJob == "no job"
Points == 0..MaxPoint
Tellings == {"nothing", "accepted", "running", "done", "failed", "cancelled"}

FleetOK ==
    /\ waiting \in Seq(Jobs \X {"do", "cancel"}) /\ messages \in 0..MaxMessages
    /\ looking \in BOOLEAN /\ job \in Jobs \cup {NoJob}
    /\ stops \in Seq(Points) /\ leg \in 1..Len(stops) + 1
    /\ lapsLeft \in Nat /\ spot \in Points /\ rolling \in BOOLEAN
    /\ condition \in {"standby", "active"} /\ {total, driven} \subseteq Nat /\ lastTold \in 0..Quanta + 1
    /\ tolds \in [Jobs -> Tellings] /\ passed \in Seq(Points)

FleetInit ==
    /\ waiting = <<>> /\ messages = 0 /\ looking = TRUE
    /\ job = NoJob /\ stops = <<>> /\ leg = 1 /\ lapsLeft = 0
    /\ spot = 0 /\ rolling = FALSE /\ condition = "standby"
    /\ total = 0 /\ driven = 0 /\ lastTold = 0
    /\ tolds = [j \in Jobs |-> "nothing"] /\ passed = <<>>

------------------------------------------------------------------------------
(* Orders.                                                                    *)

\* on_task, on the comms thread.
Assign(j, what) ==
    /\ messages < MaxMessages
    /\ messages' = messages + 1 /\ waiting' = Append(waiting, <<j, what>>)
    /\ UNCHANGED <<looking, job, stops, leg, lapsLeft, spot, rolling, condition, total, driven, lastTold,
                   tolds, passed>>

\* _route_for: a patrol ends where it began; an order to go without waypoints
\* has no route.
NoRoute(j) == JobType[j] \notin {"hold", "return_home"} /\ Waypoints[j] = <<>>
RouteOf(j) ==
    CASE JobType[j] = "hold" -> <<>>
      [] JobType[j] = "return_home" -> <<0>>
      [] JobType[j] = "patrol" -> Append(Waypoints[j], Waypoints[j][1])
      [] OTHER -> Waypoints[j]

\* laps_remaining of a new order.
LapsOf(j) == IF JobType[j] = "patrol" THEN JobLaps[j] ELSE 1

Far(x, y) == IF x < y THEN y - x ELSE x - y

\* _route_length.
Covered(points) ==
    LET sum[i \in 1..Len(points)] == IF i = 1 THEN 0 ELSE sum[i - 1] + Far(points[i - 1], points[i])
    IN  sum
Length(from, path) == Covered(<<from>> \o path)[Len(path) + 1]

\* Where a new order's route begins.  (Variant: where the last one had got to.)
LegStands(route) == IF leg <= Len(route) THEN leg ELSE 1
FirstLeg(route) == 1

\* _finish.
EndJob(as) ==
    /\ tolds' = [tolds EXCEPT ![job] = as]
    /\ job' = NoJob /\ stops' = <<>> /\ leg' = 1
    /\ rolling' = FALSE /\ lastTold' = 0 /\ condition' = "standby"

TakeCancel ==
    /\ looking /\ waiting # <<>> /\ Head(waiting)[2] = "cancel"
    /\ waiting' = Tail(waiting)
    /\ IF Head(waiting)[1] = job THEN EndJob("cancelled")
       ELSE UNCHANGED <<tolds, job, stops, leg, rolling, lastTold, condition>>
    /\ UNCHANGED <<messages, looking, lapsLeft, spot, total, driven, passed>>

Refuse ==
    /\ looking /\ waiting # <<>>
    /\ LET j == Head(waiting)[1] IN
          /\ Head(waiting)[2] = "do" /\ (JobType[j] \notin CanDo \/ NoRoute(j))
          /\ tolds' = [tolds EXCEPT ![j] = "failed"]
    /\ waiting' = Tail(waiting)
    /\ UNCHANGED <<messages, looking, job, stops, leg, lapsLeft, spot, rolling, condition, total, driven,
                   lastTold, passed>>

\* Accepted, over whatever was being carried out; what was told of that stays.
Accept ==
    /\ looking /\ waiting # <<>>
    /\ LET j == Head(waiting)[1] IN
          /\ Head(waiting)[2] = "do" /\ JobType[j] \in CanDo /\ ~NoRoute(j)
          /\ job' = j /\ stops' = RouteOf(j)
          /\ lapsLeft' = LapsOf(j)
          /\ tolds' = [tolds EXCEPT ![j] = "running"]
          /\ leg' = FirstLeg(RouteOf(j))
    /\ total' = Length(spot, RouteOf(Head(waiting)[1]))
    /\ driven' = 0 /\ condition' = "active" /\ passed' = <<>>
    /\ waiting' = Tail(waiting)
    /\ UNCHANGED <<messages, looking, spot, rolling, lastTold>>

OrdersDone ==
    /\ looking /\ waiting = <<>>
    /\ looking' = FALSE
    /\ UNCHANGED <<waiting, messages, job, stops, leg, lapsLeft, spot, rolling, condition, total, driven,
                   lastTold, tolds, passed>>

------------------------------------------------------------------------------
(* Movement.                                                                  *)

Stand ==
    /\ ~looking /\ stops = <<>>
    /\ looking' = TRUE /\ rolling' = FALSE
    /\ condition' = IF job # NoJob THEN "active" ELSE condition
    /\ UNCHANGED <<waiting, messages, job, stops, leg, lapsLeft, spot, total, driven, lastTold,
                   tolds, passed>>

\* A stop is reached: the next one, the next lap, or the end.
Reach ==
    /\ ~looking /\ stops # <<>> /\ spot = stops[leg]
    /\ looking' = TRUE /\ passed' = Append(passed, spot)
    /\ IF leg < Len(stops)
       THEN leg' = leg + 1 /\ UNCHANGED <<lapsLeft, driven, tolds, job, stops, rolling, lastTold, condition>>
       ELSE /\ lapsLeft' = lapsLeft - 1
            /\ IF lapsLeft > 1
               THEN leg' = 1 /\ driven' = 0 /\ UNCHANGED <<tolds, job, stops, rolling, lastTold, condition>>
               ELSE EndJob("done") /\ UNCHANGED driven
    /\ UNCHANGED <<waiting, messages, spot, total>>

\* One unit towards it.  Progress is told when it has grown enough since the
\* last time, whichever order or lap that was about.
Roll ==
    /\ ~looking /\ stops # <<>> /\ spot # stops[leg]
    /\ looking' = TRUE /\ rolling' = TRUE /\ driven' = driven + 1
    /\ spot' = IF spot < stops[leg] THEN spot + 1 ELSE spot - 1
    /\ LET progress == IF driven' >= total THEN Quanta ELSE (driven' * Quanta) \div total IN
       IF progress + 1 > lastTold
       THEN lastTold' = progress + 1 /\ tolds' = [tolds EXCEPT ![job] = "running"]
       ELSE UNCHANGED <<lastTold, tolds>>
    /\ UNCHANGED <<waiting, messages, job, stops, leg, lapsLeft, condition, total, passed>>

FleetNext ==
    \/ \E j \in Jobs : Assign(j, "do") \/ Assign(j, "cancel")
    \/ TakeCancel \/ Refuse \/ Accept \/ OrdersDone \/ Stand \/ Reach \/ Roll

FleetSpec == FleetInit /\ [][FleetNext]_fleet

------------------------------------------------------------------------------
(* Properties.                                                                *)

\* The stops an order asks for, n laps of them, and every lap.
Rounds(j) ==
    LET upTo[n \in 0..LapsOf(j)] == IF n = 0 THEN <<>> ELSE upTo[n - 1] \o RouteOf(j)
    IN  upTo
Asked(j) == Rounds(j)[LapsOf(j)]

\* An order is told as done only when the machine has been to every stop of it,
\* in order and as often as its laps say, since it accepted it: whatever order
\* it was replacing, and wherever that one had got to (_accept_or_refuse, _move).
DoneMeansDriven ==
    [][\A j \in Jobs : tolds'[j] = "done" /\ tolds[j] # "done" => passed' = Asked(j)]_<<tolds, passed>>

=============================================================================
