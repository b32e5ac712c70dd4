----------------------------- MODULE FieldProofs -----------------------------
(***************************************************************************)
(* What moves, proved: the Nav2 bridge for any set of routes, the bench    *)
(* vehicle for any speeds and ticks, the relay for any number of clients   *)
(* and any number of broken connections, the cockpit for any window and    *)
(* any socket, a machine's memory for any scripts and power cuts, a        *)
(* simulated vehicle for any routes, laps and orders.                      *)
(***************************************************************************)
EXTENDS MCField, SequenceTheorems, WellFoundedInduction, TLAPS

\* Numbers have a least one: the induction of this module.
LEMMA LeastNat ==
  ASSUME NEW S \in SUBSET Nat, S # {}
  PROVE  \E n \in S : \A m \in S : n <= m
<1> DEFINE less == OpToRel(<, Nat)
<1>1. IsWellFoundedOn(less, Nat)
  BY NatLessThanWellFounded
<1>2. \A m, n \in Nat : m < n => <<m, n>> \in less
  BY DEF OpToRel
<1> HIDE DEF less
<1>3. PICK n \in S : \A m \in S : ~ (<<m, n>> \in less)
  BY <1>1, WFMin
<1>4. \A m \in S : ~ (m < n)
  BY <1>2, <1>3, Zenon
<1>5. \A m \in S : n <= m
  BY <1>4
<1> QED
  BY <1>5

------------------------------------------------------------------------------
(* Chassis.                                                                   *)

Nav2States == [at : {"idle", "busy", "won", "lost"}, goals : Seq(Int \X Int), leg : Nat \ {0}]

\* The odometry last published is the machine's, the simulated driver obeys what
\* /cmd_vel asked last, and Nav2 holds the route an active navigator waits for,
\* unless it refused it.
ChassisInv ==
    /\ heading \in 0 .. 3 /\ at \in Int \X Int
    /\ told \in Commands /\ cmdVel \in Seq(Commands)
    /\ odom = Odometry(at, heading)
    /\ wheels = "simulated" => commanded = [linear |-> told.linear, angular |-> -told.angular]
    /\ wheels = "ugv01" => commanded = Still
    /\ wheels \in {"simulated", "ugv01"}
    /\ active \in BOOLEAN /\ arrived \in BOOLEAN /\ refused \in BOOLEAN
    /\ active => ~arrived
    /\ active /\ ~refused => nav2.goals = course
    /\ nav2.at = "won" => nav2.leg = Len(nav2.goals)
    /\ nav2 \in Nav2States
    /\ ArrivalIsOfThisRoute

LEMMA YawTable ==
  \A h \in 0 .. 3 :
     Yaw(h) = IF h = 0 THEN 1 ELSE IF h = 1 THEN 0 ELSE IF h = 2 THEN 3 ELSE 2
  BY DEF Yaw

LEMMA LocalIsPlace == \A p \in Int \X Int : Local(p) = p
  BY DEF Local, Distance

LEMMA ClampedQuarter == \A a \in Int : a % 4 \in 0 .. 3
  OBVIOUS

LEMMA StepIsPlace ==
  ASSUME NEW p \in Int \X Int, NEW n \in Int, NEW d \in Int \X Int
  PROVE  Stepped(p, n, d) \in Int \X Int
  BY DEF Stepped

LEMMA CompassIsPlace == \A h \in 0 .. 3 : Along(h) \in Int \X Int
<1> SUFFICES ASSUME NEW h \in 0 .. 3 PROVE Along(h) \in Int \X Int
  OBVIOUS
<1>1. h = 0 \/ h = 1 \/ h = 2 \/ h = 3
  OBVIOUS
<1> QED
  BY <1>1 DEF Along, North, East, South, West

\* A compass heading and the yaw published for it are the same direction.
LEMMA SameWay == \A h \in 0 .. 3 : AlongYaw(Yaw(h)) = Along(h)
<1> SUFFICES ASSUME NEW h \in 0 .. 3 PROVE AlongYaw(Yaw(h)) = Along(h)
  OBVIOUS
<1>1. CASE h = 0
  BY <1>1 DEF AlongYaw, Along, Yaw, North, East, South, West
<1>2. CASE h = 1
  BY <1>2 DEF AlongYaw, Along, Yaw, North, East, South, West
<1>3. CASE h = 2
  <2>1. Yaw(h) = 3
    BY <1>3, YawTable
  <2> QED
    BY <1>3, <2>1 DEF AlongYaw, Along, North, East, South, West
<1>4. CASE h = 3
  <2>1. Yaw(h) = 2
    BY <1>4, YawTable
  <2> QED
    BY <1>4, <2>1 DEF AlongYaw, Along, North, East, South, West
<1> QED
  BY <1>1, <1>2, <1>3, <1>4

\* A turn by -a on the compass is a turn by a in Nav2's frame.
LEMMA SameTurn ==
  \A h \in 0 .. 3, a \in -1 .. 1 : Yaw((h + (-a)) % 4) = (Yaw(h) + a) % 4
  BY DEF Yaw

LEMMA ChassisInitInv == ChassisInit => ChassisInv
<1> SUFFICES ASSUME ChassisInit PROVE ChassisInv
  OBVIOUS
<1>1. wheels \in {"simulated", "ugv01"} /\ heading = 0 /\ 0 \in 0 .. 3
  BY ChassisAssumption DEF ChassisInit
<1>2. Still \in Commands /\ Still.linear = 0 /\ Still.angular = 0
  BY DEF Still, Commands
<1>3. Still = [linear |-> Still.linear, angular |-> -Still.angular]
  BY DEF Still
<1>4. at = <<0, 0>> /\ at \in Int \X Int /\ odom = Odometry(at, heading)
  BY DEF ChassisInit
<1>5. cmdVel \in Seq(Commands)
  BY DEF ChassisInit
<1>6. /\ commanded = Still /\ told = Still /\ active = FALSE /\ arrived = FALSE /\ refused = FALSE
      /\ nav2.at = "idle" /\ nav2 \in Nav2States
  BY DEF ChassisInit, Nav2States
<1> QED
  BY <1>1, <1>2, <1>3, <1>4, <1>5, <1>6 DEF ChassisInv, ArrivalIsOfThisRoute

LEMMA ChassisNextInv == ChassisInv /\ [ChassisNext]_chassis => ChassisInv'
<1> SUFFICES ASSUME ChassisInv, [ChassisNext]_chassis PROVE ChassisInv'
  OBVIOUS
<1>0. /\ Still \in Commands /\ Still.linear = 0 /\ Still.angular = 0
      /\ Still = [linear |-> Still.linear, angular |-> -Still.angular]
  BY DEF Still, Commands
<1>00. cmdVel \in Seq(Commands) /\ Append(cmdVel, Still) \in Seq(Commands) /\ nav2 \in Nav2States
  BY <1>0 DEF ChassisInv
<1>1. CASE UNCHANGED chassis
  BY <1>1 DEF chassis, rig, ports, plan, ChassisInv, ArrivalIsOfThisRoute
<1>2. CASE OnCmdVel
  <2>1. Head(cmdVel) \in Commands /\ Tail(cmdVel) \in Seq(Commands)
    BY <1>2 DEF OnCmdVel, ChassisInv
  <2>2. /\ told' = Head(cmdVel) /\ cmdVel' = Tail(cmdVel)
        /\ UNCHANGED <<wheels, at, heading, odom, nav2, course, refused, active, arrived, failed>>
    BY <1>2 DEF OnCmdVel, plan
  <2>3. CASE wheels = "ugv01"
    BY <1>2, <2>1, <2>2, <2>3 DEF OnCmdVel, ChassisInv, ArrivalIsOfThisRoute
  <2>4. CASE wheels = "simulated"
    <3>1. commanded' = [linear |-> told'.linear, angular |-> -told'.angular]
      BY <1>2, <2>2, <2>4 DEF OnCmdVel, Obeys, Clockwise
    <3> QED
      BY <2>1, <2>2, <2>4, <3>1 DEF ChassisInv, ArrivalIsOfThisRoute
  <2> QED
    BY <2>3, <2>4 DEF ChassisInv
<1>3. CASE PublishState
  <2>1. commanded.angular \in Int /\ commanded.linear \in Int
    <3>1. CASE wheels = "simulated"
      BY <3>1 DEF ChassisInv, Commands
    <3>2. CASE wheels = "ugv01"
      BY <1>0, <3>2 DEF ChassisInv
    <3> QED
      BY <3>1, <3>2 DEF ChassisInv
  <2>2. Turned \in 0 .. 3
    BY <2>1 DEF Turned, ChassisInv
  <2>3. Travelled \in Int \X Int
    BY <2>1, <2>2, CompassIsPlace, StepIsPlace DEF Travelled, ChassisInv
  <2>4. /\ heading' = Turned /\ at' = Travelled /\ odom' = Odometry(Travelled, Turned)
        /\ UNCHANGED <<wheels, commanded, spinning, told, cmdVel, nav2, course, refused, active, arrived>>
    BY <1>3 DEF PublishState, plan
  <2>5. odom' = Odometry(at', heading')
    BY <2>4
  <2> QED
    BY <2>2, <2>3, <2>4, <2>5 DEF ChassisInv, ArrivalIsOfThisRoute
<1>4. ASSUME NEW c \in Commands, Publishes(c) PROVE ChassisInv'
  <2>1. cmdVel' \in Seq(Commands)
    BY <1>4 DEF Publishes, ChassisInv
  <2> QED
    BY <1>4, <2>1 DEF Publishes, rig, plan, ChassisInv, ArrivalIsOfThisRoute
<1>5. CASE Reaches \/ Misses
  <2>0. LeavesWaypoint
    BY <1>5 DEF Reaches, Misses
  <2>1. cmdVel' \in Seq(Commands)
    BY <1>00, <2>0 DEF LeavesWaypoint, Finishes
  <2>2. ~arrived \/ course = <<>> \/ refused
    BY <2>0 DEF LeavesWaypoint, ChassisInv, ArrivalIsOfThisRoute
  <2>3. /\ nav2'.goals = nav2.goals /\ nav2' \in Nav2States
        /\ nav2'.at = "won" => nav2'.leg = Len(nav2'.goals)
    <3>1. CASE nav2.leg = Len(nav2.goals)
      BY <1>00, <2>0, <3>1 DEF LeavesWaypoint, Finishes, Nav2States
    <3>2. CASE nav2.leg # Len(nav2.goals)
      <4>1. nav2' = [nav2 EXCEPT !.leg = nav2.leg + 1] /\ nav2.at = "busy"
        BY <2>0, <3>2 DEF LeavesWaypoint
      <4>2. nav2.leg + 1 \in Nat \ {0} /\ "busy" \in {"idle", "busy", "won", "lost"}
        BY <1>00 DEF Nav2States
      <4>3. nav2' = [at |-> "busy", goals |-> nav2.goals, leg |-> nav2.leg + 1]
        BY <1>00, <4>1 DEF Nav2States
      <4> QED
        BY <1>00, <4>2, <4>3 DEF Nav2States
    <3> QED
      BY <3>1, <3>2
  <2> QED
    BY <2>0, <2>1, <2>2, <2>3 DEF LeavesWaypoint, rig, plan, ChassisInv, ArrivalIsOfThisRoute
<1>6. CASE GivesUp
  <2>1. cmdVel' \in Seq(Commands)
    BY <1>00, <1>6 DEF GivesUp, Finishes
  <2>2. ~arrived \/ course = <<>> \/ refused
    BY <1>6 DEF GivesUp, ChassisInv, ArrivalIsOfThisRoute
  <2>3. nav2'.goals = nav2.goals /\ nav2' \in Nav2States /\ nav2'.at = "lost"
    BY <1>6 DEF GivesUp, Finishes, ChassisInv, Nav2States
  <2> QED
    BY <1>6, <2>1, <2>2, <2>3 DEF GivesUp, rig, plan, ChassisInv, ArrivalIsOfThisRoute
<1>7. ASSUME NEW r \in Routes, FollowCourse(r) PROVE ChassisInv'
  <2>1. r \in Seq(Int \X Int)
    BY ChassisAssumption
  <2>2. CASE r = <<>> \/ refused'
    <3>1. /\ UNCHANGED nav2 /\ arrived' = FALSE /\ refused' \in BOOLEAN
          /\ active' \in BOOLEAN /\ (active' => refused')
      BY <1>7, <2>2 DEF FollowCourse
    <3> QED
      BY <1>7, <3>1 DEF FollowCourse, rig, ports, ChassisInv, ArrivalIsOfThisRoute
  <2>3. CASE r # <<>> /\ ~refused'
    <3>1. /\ nav2' = [at |-> "busy", goals |-> r, leg |-> 1] /\ course' = r /\ arrived' = FALSE
          /\ refused' \in BOOLEAN /\ active' \in BOOLEAN
      BY <1>7, <2>3 DEF FollowCourse, Accepted
    <3>2. nav2' \in Nav2States /\ nav2'.at = "busy" /\ nav2'.goals = r
      BY <2>1, <3>1 DEF Nav2States
    <3> QED
      BY <1>7, <3>1, <3>2 DEF FollowCourse, rig, ports, ChassisInv, ArrivalIsOfThisRoute
  <2> QED
    BY <2>2, <2>3
<1>8. CASE Cancel
  <2>1. /\ active' = FALSE /\ course' = <<>> /\ refused' = FALSE
        /\ UNCHANGED <<wheels, at, heading, commanded, spinning, told, odom, arrived>>
    BY <1>8 DEF Cancel, rig
  <2>2. cmdVel' \in Seq(Commands)
    BY <1>00, <1>8 DEF Cancel, Finishes
  <2>3. nav2' \in Nav2States /\ (nav2'.at = "won" => nav2'.leg = Len(nav2'.goals))
    BY <1>8 DEF Cancel, Finishes, ChassisInv, Nav2States
  <2> QED
    BY <2>1, <2>2, <2>3 DEF ChassisInv, ArrivalIsOfThisRoute
<1>9. CASE Step
  <2>1. /\ active /\ active' = FALSE /\ arrived' = (nav2.at = "won")
        /\ UNCHANGED <<wheels, at, heading, commanded, spinning, told, cmdVel, odom, nav2, course, refused>>
    BY <1>9 DEF Step, Succeeded, rig, ports
  <2> QED
    BY <2>1 DEF ChassisInv, ArrivalIsOfThisRoute
<1> QED
  BY <1>1, <1>2, <1>3, <1>4, <1>5, <1>6, <1>7, <1>8, <1>9 DEF ChassisNext

THEOREM SpecChassisInv == ChassisSpec => []ChassisInv
  BY ChassisInitInv, ChassisNextInv, PTL DEF ChassisSpec

\* What Nav2 asks is what the machine does, one odometry to the next, for every
\* command, heading and place.
THEOREM SpecDrivesAsTold == ChassisSpec => DrivesAsTold
<1> DEFINE Driven == PublishState /\ wheels = "simulated" =>
                       /\ odom'.yaw = (odom.yaw + told.angular) % 4
                       /\ odom'.xy = Stepped(odom.xy, told.linear, AlongYaw(odom'.yaw))
<1>1. ChassisInv => Driven
  <2> SUFFICES ASSUME ChassisInv, PublishState, wheels = "simulated"
               PROVE  /\ odom'.yaw = (odom.yaw + told.angular) % 4
                      /\ odom'.xy = Stepped(odom.xy, told.linear, AlongYaw(odom'.yaw))
    OBVIOUS
  <2>1. /\ told.linear \in -1 .. 1 /\ told.angular \in -1 .. 1
        /\ commanded.linear = told.linear /\ commanded.angular = -told.angular
        /\ heading \in 0 .. 3 /\ at \in Int \X Int
    BY DEF ChassisInv, Commands
  <2>2. Turned \in 0 .. 3 /\ Yaw(Turned) = (Yaw(heading) + told.angular) % 4
    <3>1. Turned = (heading + (-told.angular)) % 4
      BY <2>1 DEF Turned
    <3>2. heading + (-told.angular) \in Int
      BY <2>1
    <3> QED
      BY <2>1, <3>1, <3>2, ClampedQuarter, SameTurn
  <2>3. odom.xy = at /\ odom.yaw = Yaw(heading)
    BY <2>1, LocalIsPlace DEF ChassisInv, Odometry
  <2>4. Along(Turned) \in Int \X Int /\ AlongYaw(Yaw(Turned)) = Along(Turned)
    BY <2>2, CompassIsPlace, SameWay
  <2>5. Travelled = Stepped(at, told.linear, Along(Turned)) /\ Travelled \in Int \X Int
    <3>1. Stepped(at, 0, Along(Turned)) = at
      BY <2>1, <2>4 DEF Stepped
    <3>2. Stepped(at, told.linear, Along(Turned)) \in Int \X Int
      BY <2>1, <2>4, StepIsPlace
    <3> QED
      BY <2>1, <3>1, <3>2 DEF Travelled
  <2>6. odom'.xy = Travelled /\ odom'.yaw = Yaw(Turned)
    BY <2>5, LocalIsPlace DEF PublishState, Odometry
  <2> QED
    BY <2>2, <2>3, <2>4, <2>5, <2>6
<1> QED
  BY <1>1, SpecChassisInv, PTL DEF ChassisSpec, DrivesAsTold

\* An arrival is that of the route the navigator holds, whatever was replaced, given
\* up or cancelled before and whatever waypoints were passed over, unless Nav2
\* refused the route.
THEOREM SpecArrivalIsOfThisRoute == ChassisSpec => []ArrivalIsOfThisRoute
<1>1. ChassisInv => ArrivalIsOfThisRoute
  BY DEF ChassisInv
<1> QED
  BY <1>1, SpecChassisInv, PTL

\* The chassis keeps its types, and never says both that it arrived and that it failed.
LEMMA ChassisInitOK == ChassisInit => ChassisOK
<1> SUFFICES ASSUME ChassisInit PROVE ChassisOK
  OBVIOUS
<1>1. Still \in Commands
  BY DEF Still, Commands
<1>2. cmdVel = <<>> /\ Len(cmdVel) <= Backlog + 1
  BY ChassisAssumption DEF ChassisInit
<1>3. nav2.at \in {"idle", "busy", "won", "lost"}
  BY DEF ChassisInit
<1>4. /\ refused = FALSE /\ active = FALSE /\ arrived = FALSE /\ failed = FALSE
      /\ commanded = Still /\ told = Still /\ wheels \in Drivers /\ heading = 0 /\ 0 \in 0..3
  BY DEF ChassisInit
<1> QED
  BY <1>1, <1>2, <1>3, <1>4 DEF ChassisOK

LEMMA ChassisNextOK ==
  ASSUME ChassisInv, ChassisOK, [ChassisNext]_chassis
  PROVE  ChassisOK'
<1>0. /\ Still \in Commands /\ cmdVel \in Seq(Commands) /\ nav2 \in Nav2States
      /\ Backlog \in Nat /\ Len(cmdVel) \in Nat /\ Len(cmdVel) <= Backlog + 1
  BY ChassisAssumption DEF ChassisInv, ChassisOK, Still, Commands
<1>01. ASSUME NEW c \in Commands PROVE Len(Append(cmdVel, c)) = Len(cmdVel) + 1
  BY <1>0
<1>1. CASE UNCHANGED chassis
  BY <1>1 DEF chassis, rig, ports, plan, ChassisOK
<1>2. CASE OnCmdVel
  <2>1. /\ cmdVel # <<>> /\ told' = Head(cmdVel) /\ cmdVel' = Tail(cmdVel)
        /\ UNCHANGED <<wheels, heading, nav2, refused, active, arrived, failed>>
    BY <1>2 DEF OnCmdVel, plan
  <2>2. told' \in Commands /\ Len(cmdVel') <= Backlog + 1
    BY <1>0, <2>1
  <2>3. commanded' \in Commands
    <3>1. CASE wheels = "ugv01"
      BY <1>2, <3>1 DEF OnCmdVel, ChassisOK
    <3>2. CASE wheels # "ugv01"
      <4>1. commanded' = [linear |-> told'.linear, angular |-> -told'.angular]
        BY <1>2, <2>1, <3>2 DEF OnCmdVel, Obeys, Clockwise
      <4> QED
        BY <2>2, <4>1 DEF Commands
    <3> QED
      BY <3>1, <3>2
  <2> QED
    BY <2>1, <2>2, <2>3 DEF ChassisOK
<1>3. CASE PublishState
  <2>1. heading' \in 0..3
    <3>1. heading + commanded.angular \in Int
      BY DEF ChassisOK, Commands
    <3> QED
      BY <1>3, <3>1, ClampedQuarter DEF PublishState, Turned
  <2> QED
    BY <1>3, <2>1 DEF PublishState, plan, ChassisOK
<1>4. ASSUME NEW c \in Commands, Publishes(c) PROVE ChassisOK'
  <2>1. Len(cmdVel') <= Backlog + 1
    BY <1>0, <1>01, <1>4 DEF Publishes
  <2> QED
    BY <1>4, <2>1 DEF Publishes, rig, plan, ChassisOK
<1>5. CASE Reaches \/ Misses
  <2>0. LeavesWaypoint
    BY <1>5 DEF Reaches, Misses
  <2>1. Len(cmdVel') <= Backlog + 1
    BY <1>0, <1>01, <2>0 DEF LeavesWaypoint, Finishes
  <2>2. nav2'.at \in {"idle", "busy", "won", "lost"}
    BY <1>0, <2>0 DEF LeavesWaypoint, Finishes, Nav2States
  <2> QED
    BY <2>0, <2>1, <2>2 DEF LeavesWaypoint, rig, plan, ChassisOK
<1>6. CASE GivesUp
  <2>1. Len(cmdVel') <= Backlog + 1
    BY <1>0, <1>01, <1>6 DEF GivesUp, Finishes
  <2>2. nav2'.at \in {"idle", "busy", "won", "lost"}
    BY <1>0, <1>6 DEF GivesUp, Finishes, Nav2States
  <2> QED
    BY <1>6, <2>1, <2>2 DEF GivesUp, rig, plan, ChassisOK
<1>7. ASSUME NEW r \in Routes, FollowCourse(r) PROVE ChassisOK'
  <2>1. nav2'.at \in {"idle", "busy", "won", "lost"}
    BY <1>7 DEF FollowCourse, Accepted, ChassisOK
  <2>2. refused' \in BOOLEAN /\ ~arrived' /\ ~failed'
    BY <1>7 DEF FollowCourse
  <2> QED
    BY <1>7, <2>1, <2>2 DEF FollowCourse, rig, ports, ChassisOK
<1>8. CASE Cancel
  <2>1. Len(cmdVel') <= Backlog + 1
    BY <1>0, <1>01, <1>8 DEF Cancel, Finishes
  <2>2. nav2'.at \in {"idle", "busy", "won", "lost"}
    BY <1>0, <1>8 DEF Cancel, Finishes, Nav2States
  <2> QED
    BY <1>8, <2>1, <2>2 DEF Cancel, rig, ChassisOK
<1>9. CASE Step
  BY <1>9 DEF Step, rig, ports, ChassisOK
<1> QED
  BY <1>1, <1>2, <1>3, <1>4, <1>5, <1>6, <1>7, <1>8, <1>9 DEF ChassisNext

------------------------------------------------------------------------------
(* Bench.                                                                     *)

\* Out of DRIVING no throttle is commanded, but by a frame that was overtaken by a
\* stop, and what speed is left has had the ticks counted to come down.  A frame
\* judged without leave carries no throttle, whoever holds it.
BenchInv ==
    /\ hands \in [Readers -> Hands] /\ leftover \in BOOLEAN
    /\ \A r \in Readers : hands[r].judged = "holds" => hands[r].frame.throttle = 0
    /\ cmd \in BenchCommands /\ velocity \in 0 .. TopSpeed /\ idle \in 0 .. RestTicks
    /\ state \in {"STOPPED", "DRIVING", "LATCHED"}
    /\ state = "DRIVING" \/ leftover => idle = 0
    /\ state # "DRIVING" /\ ~leftover => cmd.throttle = 0
    /\ velocity = 0 \/ velocity + idle * Loss <= TopSpeed

LEMMA SpeedsAreNumbers ==
  /\ Full \in Nat \ {0} /\ PerUnit \in Nat \ {0} /\ Gain \in Nat \ {0} /\ Loss \in Nat \ {0}
  /\ TopSpeed \in Nat
  BY BenchAssumption DEF TopSpeed

\* A full stop takes no more than RestTicks.
LEMMA RestTicksSuffice == RestTicks \in Nat /\ RestTicks * Loss >= TopSpeed
<1>1. \A n \in Nat, d \in Nat \ {0} : (n + d - 1) \div d \in Nat /\ ((n + d - 1) \div d) * d >= n
  OBVIOUS
<1> QED
  BY <1>1, SpeedsAreNumbers DEF RestTicks

\* What a frame may carry becomes a throttle the vehicle has, or none.
LEMMA FromWireType ==
  ASSUME NEW frame \in DriverFrames
  PROVE  FromWire(frame) \in BenchCommands
<1>0. frame \in Frames
  BY FramesAssumption
<1>1. /\ frame.throttle \in Numerals /\ frame.steer \in {-1, 0, 1} /\ frame.gear \in Gears \cup {"?"}
      /\ frame.ignition \in BOOLEAN /\ frame.estop \in BOOLEAN
  BY <1>0 DEF Frames
<1>2. ClampUnit(Num(frame.throttle)) \in 0 .. Full
  <2>1. CASE frame.throttle.is = "number" /\ frame.throttle.n \in Int
    BY <2>1, SpeedsAreNumbers DEF ClampUnit, Num
  <2>2. CASE frame.throttle.is = "text"
    <3>1. Num(frame.throttle) = [is |-> "number", n |-> 0]
      BY <2>2 DEF Num
    <3> QED
      BY <3>1, SpeedsAreNumbers DEF ClampUnit
  <2>3. CASE frame.throttle.is = "nan"
    BY <2>3, SpeedsAreNumbers DEF ClampUnit, Num
  <2> QED
    <3>1. frame.throttle \in [is : {"number"}, n : Extremes]
          \/ frame.throttle = [is |-> "text"] \/ frame.throttle = [is |-> "nan"]
      BY <1>1 DEF Numerals
    <3>2. ASSUME frame.throttle \in [is : {"number"}, n : Extremes]
          PROVE  frame.throttle.is = "number" /\ frame.throttle.n \in Int
      BY <3>2, BenchAssumption
    <3> QED
      BY <2>1, <2>2, <2>3, <3>1, <3>2
<1>3. FromWire(frame) = [throttle |-> ClampUnit(Num(frame.throttle)), steer |-> frame.steer,
                         gear |-> IF frame.gear \in Gears THEN frame.gear ELSE "N",
                         ignition |-> frame.ignition, estop |-> frame.estop]
  <2>1. frame = [throttle |-> frame.throttle, steer |-> frame.steer, gear |-> frame.gear,
                 ignition |-> frame.ignition, estop |-> frame.estop]
    BY <1>0 DEF Frames
  <2> DEFINE x == ClampUnit(Num(frame.throttle))
             y == IF frame.gear \in Gears THEN frame.gear ELSE "N"
  <2>2. FromWire(frame) = [frame EXCEPT !.throttle = x, !.gear = y]
    BY <2>1 DEF FromWire
  <2> HIDE DEF x, y
  <2>3. FromWire(frame) = [throttle |-> x, steer |-> frame.steer, gear |-> y,
                           ignition |-> frame.ignition, estop |-> frame.estop]
    BY <2>1, <2>2
  <2> QED
    BY <2>3 DEF x, y
<1>4. (IF frame.gear \in Gears THEN frame.gear ELSE "N") \in Gears
  BY DEF Gears
<1> QED
  BY <1>1, <1>2, <1>3, <1>4 DEF BenchCommands

\* safe_stop leaves a command the vehicle has, without throttle.
LEMMA SafeStopType ==
  ASSUME NEW c \in BenchCommands, NEW e, e = [c EXCEPT !.throttle = 0, !.steer = 0]
  PROVE  e \in BenchCommands /\ e.throttle = 0
<1>1. e = [throttle |-> 0, steer |-> 0, gear |-> c.gear, ignition |-> c.ignition, estop |-> c.estop]
  <2>1. c = [throttle |-> c.throttle, steer |-> c.steer, gear |-> c.gear,
             ignition |-> c.ignition, estop |-> c.estop]
    BY DEF BenchCommands
  <2> QED
    BY <2>1
<1>2. /\ 0 \in 0 .. Full /\ 0 \in {-1, 0, 1}
      /\ c.gear \in Gears /\ c.ignition \in BOOLEAN /\ c.estop \in BOOLEAN
  BY SpeedsAreNumbers DEF BenchCommands
<1> QED
  BY <1>1, <1>2 DEF BenchCommands

LEMMA ProductIsNat == \A a, b \in Nat : a * b \in Nat
  OBVIOUS

LEMMA NeutralIsCommand == NeutralCommand \in BenchCommands /\ NeutralCommand.throttle = 0
  BY SpeedsAreNumbers DEF NeutralCommand, BenchCommands, Gears

LEMMA EmptyHandType == EmptyHand \in Hands /\ EmptyHand.judged = "none"
  BY NeutralIsCommand DEF EmptyHand, Hands

\* What one reader's hand gets leaves the others' as they were.
LEMMA OneHand ==
  ASSUME NEW r \in Readers, NEW h \in Hands, hands \in [Readers -> Hands],
         hands' = [hands EXCEPT ![r] = h],
         h.judged = "holds" => h.frame.throttle = 0,
         \A q \in Readers : hands[q].judged = "holds" => hands[q].frame.throttle = 0
  PROVE  /\ hands' \in [Readers -> Hands]
         /\ \A q \in Readers : hands'[q].judged = "holds" => hands'[q].frame.throttle = 0
<1>1. hands' \in [Readers -> Hands]
  OBVIOUS
<1>2. ASSUME NEW q \in Readers, hands'[q].judged = "holds" PROVE hands'[q].frame.throttle = 0
  <2>1. CASE q = r
    <3>1. hands'[q] = h
      BY <2>1
    <3> QED
      BY <1>2, <3>1
  <2>2. CASE q # r
    <3>1. hands'[q] = hands[q]
      BY <2>2
    <3> QED
      BY <1>2, <3>1
  <2> QED
    BY <2>1, <2>2
<1> QED
  BY <1>1, <1>2

LEMMA BenchInitInv == BenchInit => BenchInv
<1> SUFFICES ASSUME BenchInit PROVE BenchInv
  OBVIOUS
<1>1. hands = [r \in Readers |-> EmptyHand] /\ leftover = FALSE
  BY DEF BenchInit
<1>2. /\ hands \in [Readers -> Hands]
      /\ \A r \in Readers : hands[r].judged = "none"
  BY <1>1, EmptyHandType
<1>3. /\ cmd \in BenchCommands /\ cmd.throttle = 0 /\ velocity \in 0 .. TopSpeed
      /\ idle \in 0 .. RestTicks /\ velocity = 0 /\ state = "STOPPED"
  BY NeutralIsCommand, SpeedsAreNumbers, RestTicksSuffice DEF BenchInit
<1> QED
  BY <1>1, <1>2, <1>3 DEF BenchInv

LEMMA BenchNextInv == BenchInv /\ [BenchNext]_bench => BenchInv'
<1> SUFFICES ASSUME BenchInv, [BenchNext]_bench PROVE BenchInv'
  OBVIOUS
<1>1. CASE UNCHANGED bench
  BY <1>1 DEF bench, BenchInv
<1>0. /\ hands \in [Readers -> Hands]
      /\ \A q \in Readers : hands[q].judged = "holds" => hands[q].frame.throttle = 0
  BY DEF BenchInv
<1>01. 0 \in 0 .. RestTicks /\ velocity + 0 * Loss <= TopSpeed
  BY SpeedsAreNumbers, RestTicksSuffice DEF BenchInv
<1>2. ASSUME NEW r \in Readers, NEW frame \in DriverFrames, FrameDrives(r, frame) PROVE BenchInv'
  <2> DEFINE h == [frame |-> FromWire(frame), judged |-> "drives"]
  <2>1. h \in Hands /\ h.judged # "holds"
    BY FromWireType DEF Hands
  <2>2. /\ hands' = [hands EXCEPT ![r] = h] /\ idle' = 0 /\ state' = "DRIVING"
        /\ UNCHANGED <<cmd, velocity, leftover>>
    BY <1>2 DEF FrameDrives, Judges, whereabouts
  <2> HIDE DEF h
  <2>3. /\ hands' \in [Readers -> Hands]
        /\ \A q \in Readers : hands'[q].judged = "holds" => hands'[q].frame.throttle = 0
    BY <1>0, <2>1, <2>2, OneHand
  <2> QED
    BY <1>01, <2>2, <2>3 DEF BenchInv
<1>3. ASSUME NEW r \in Readers, NEW frame \in DriverFrames, FrameHolds(r, frame) PROVE BenchInv'
  <2> DEFINE c == [FromWire(frame) EXCEPT !.throttle = 0, !.steer = 0]
             h == [frame |-> c, judged |-> "holds"]
  <2>1. c \in BenchCommands /\ c.throttle = 0
    <3>1. FromWire(frame) \in BenchCommands
      BY FromWireType
    <3> QED
      BY <3>1, SafeStopType
  <2>2. hands' = [hands EXCEPT ![r] = h]
    BY <1>3 DEF FrameHolds, Judges
  <2> HIDE DEF c
  <2>3. h \in Hands /\ h.frame.throttle = 0
    BY <2>1 DEF Hands
  <2> HIDE DEF h
  <2>4. /\ hands' \in [Readers -> Hands]
        /\ \A q \in Readers : hands'[q].judged = "holds" => hands'[q].frame.throttle = 0
    BY <1>0, <2>2, <2>3, OneHand
  <2>5. /\ leftover' = (leftover \/ state = "DRIVING") /\ UNCHANGED <<cmd, velocity, idle>>
        /\ state' = "DRIVING" => state = "DRIVING"
        /\ state' \in {"STOPPED", "LATCHED", state}
    BY <1>3 DEF FrameHolds, whereabouts
  <2> QED
    BY <2>4, <2>5 DEF BenchInv
<1>4. CASE Stops
  <2>1. /\ cmd' = [cmd EXCEPT !.throttle = 0, !.steer = 0] /\ leftover' = FALSE
        /\ state' \in {"LATCHED", "STOPPED"} /\ UNCHANGED <<hands, velocity, idle>>
    BY <1>4 DEF Stops, SafeStopped, SafeStop, whereabouts
  <2>2. cmd' \in BenchCommands /\ cmd'.throttle = 0
    <3>1. cmd \in BenchCommands
      BY DEF BenchInv
    <3> QED
      BY <2>1, <3>1, SafeStopType
  <2> QED
    BY <2>1, <2>2 DEF BenchInv
<1>5. CASE Tick
  <2> DEFINE target == Target
  <2>1. target \in 0 .. TopSpeed
    <3>1. \A t \in 0 .. Full : t * PerUnit \in 0 .. Full * PerUnit
      BY SpeedsAreNumbers
    <3>2. cmd.throttle \in 0 .. Full
      BY DEF BenchInv, BenchCommands
    <3> QED
      BY <3>1, <3>2, SpeedsAreNumbers DEF Target, TopSpeed
  <2>2. state # "DRIVING" /\ ~leftover => target = 0
    BY SpeedsAreNumbers DEF Target, BenchInv
  <2> HIDE DEF target
  <2>3. /\ velocity' = IF target > velocity + Gain THEN velocity + Gain
                       ELSE IF target < velocity - Loss THEN velocity - Loss ELSE target
        /\ UNCHANGED <<state, hands, cmd, leftover>>
        /\ idle' = IF idle = RestTicks \/ state = "DRIVING" \/ leftover THEN idle ELSE idle + 1
    <3>1. velocity \in Nat
      BY SpeedsAreNumbers DEF BenchInv
    <3> QED
      BY <1>5, <3>1, SpeedsAreNumbers, <2>1 DEF Tick, Approach, target
  <2>4. velocity' \in 0 .. TopSpeed
    BY <2>1, <2>3, SpeedsAreNumbers DEF BenchInv
  <2>5. idle' \in 0 .. RestTicks
    BY <2>3, RestTicksSuffice DEF BenchInv
  <2>6. CASE state = "DRIVING" \/ leftover
    <3>1. idle' = 0 /\ 0 * Loss = 0
      BY <2>3, <2>6, SpeedsAreNumbers DEF BenchInv
    <3>2. idle' * Loss = 0
      BY <3>1
    <3>3. velocity' + idle' * Loss <= TopSpeed
      BY <2>4, <3>2, SpeedsAreNumbers
    <3> QED
      BY <2>3, <2>4, <2>5, <2>6, <3>1, <3>3 DEF BenchInv
  <2>7. CASE state # "DRIVING" /\ ~leftover
    <3>1. target = 0 /\ velocity' = IF 0 < velocity - Loss THEN velocity - Loss ELSE 0
      BY <2>2, <2>3, <2>7, SpeedsAreNumbers DEF BenchInv
    <3>2. velocity' = 0 \/ (velocity # 0 /\ velocity' = velocity - Loss)
      BY <3>1, SpeedsAreNumbers DEF BenchInv
    <3>3. idle' * Loss <= idle * Loss + Loss
      <4>1. idle \in Nat /\ (idle' = idle \/ idle' = idle + 1)
        BY <2>3, RestTicksSuffice DEF BenchInv
      <4>2. (idle + 1) * Loss = idle * Loss + Loss
        BY <4>1, SpeedsAreNumbers
      <4> QED
        BY <4>1, <4>2, SpeedsAreNumbers
    <3>4. idle * Loss \in Nat /\ idle' * Loss \in Nat /\ velocity \in Nat
      <4>1. idle \in Nat /\ idle' \in Nat /\ Loss \in Nat /\ velocity \in Nat
        BY <2>5, SpeedsAreNumbers, RestTicksSuffice DEF BenchInv
      <4> QED
        BY <4>1, ProductIsNat
    <3>5. velocity' = 0 \/ velocity' + idle' * Loss <= TopSpeed
      BY <3>2, <3>3, <3>4, SpeedsAreNumbers DEF BenchInv
    <3> QED
      BY <2>3, <2>4, <2>5, <2>7, <3>5 DEF BenchInv
  <2> QED
    BY <2>6, <2>7
<1>6. ASSUME NEW heartbeat \in BOOLEAN, ReportStep(heartbeat) PROVE BenchInv'
  BY <1>6 DEF ReportStep, BenchInv
<1>7. ASSUME NEW r \in Readers, Applies(r) PROVE BenchInv'
  <2>1. /\ cmd' = hands[r].frame /\ hands' = [hands EXCEPT ![r] = EmptyHand]
        /\ leftover' = (hands[r].judged = "drives" /\ state # "DRIVING")
        /\ idle' = IF hands[r].judged = "drives" THEN 0 ELSE idle
        /\ UNCHANGED <<state, velocity>> /\ hands[r].judged # "none"
    BY <1>7 DEF Applies, whereabouts
  <2>2. hands[r] \in Hands
    BY <1>0
  <2>3. cmd' \in BenchCommands /\ hands[r].judged \in {"drives", "holds"}
    BY <2>1, <2>2 DEF Hands
  <2>4. hands[r].judged = "holds" => cmd'.throttle = 0
    BY <1>0, <2>1
  <2>5. /\ hands' \in [Readers -> Hands]
        /\ \A q \in Readers : hands'[q].judged = "holds" => hands'[q].frame.throttle = 0
    <3>1. EmptyHand \in Hands /\ (EmptyHand.judged = "holds" => EmptyHand.frame.throttle = 0)
      BY EmptyHandType
    <3> QED
      BY <1>0, <2>1, <3>1, OneHand
  <2>6. CASE hands[r].judged = "drives"
    <3>1. idle' = 0 /\ leftover' = (state # "DRIVING")
      BY <2>1, <2>6
    <3> QED
      BY <1>01, <2>1, <2>3, <2>5, <3>1 DEF BenchInv
  <2>7. CASE hands[r].judged = "holds"
    <3>1. idle' = idle /\ leftover' = FALSE /\ cmd'.throttle = 0
      BY <2>1, <2>4, <2>7
    <3> QED
      BY <2>1, <2>3, <2>5, <3>1 DEF BenchInv
  <2> QED
    BY <2>3, <2>6, <2>7
<1> QED
  BY <1>1, <1>2, <1>3, <1>4, <1>5, <1>6, <1>7 DEF BenchNext

THEOREM SpecBenchInv == BenchSpec => []BenchInv
  BY BenchInitInv, BenchNextInv, PTL DEF BenchSpec

\* Whatever speeds, gains and ticks, and however many readers hold frames: a vehicle
\* that has lost its leave to drive is at rest after the ticks a full stop takes,
\* unless a frame judged before the stop was applied after it.
THEOREM SpecStopRests == BenchSpec => []StopRests
<1>1. BenchInv => StopRests
  BY SpeedsAreNumbers, RestTicksSuffice DEF BenchInv, StopRests
<1> QED
  BY <1>1, SpecBenchInv, PTL

\* The bench vehicle keeps its types: its speed, charge and reckoned place stay in
\* their ranges.
LEMMA BenchInitOK == BenchInit => BenchOK
<1> SUFFICES ASSUME BenchInit PROVE BenchOK
  OBVIOUS
<1>1. BenchInv
  BY BenchInitInv
<1>2. reckoned \in Places /\ MaxCharge \in Nat
  BY BenchAssumption DEF BenchInit, Places
<1> QED
  BY <1>1, <1>2 DEF BenchInit, BenchInv, BenchOK

LEMMA BenchNextOK ==
  ASSUME BenchInv, BenchOK, [BenchNext]_bench
  PROVE  BenchOK'
<1>0. BenchInv' /\ MaxCharge \in Nat
  BY BenchNextInv, BenchAssumption
<1>1. /\ state' \in {"STOPPED", "DRIVING", "LATCHED"} /\ cmd' \in BenchCommands
      /\ velocity' \in 0..TopSpeed /\ idle' \in 0..RestTicks
      /\ hands' \in [Readers -> Hands] /\ leftover' \in BOOLEAN
  BY <1>0 DEF BenchInv
<1>2. CASE UNCHANGED <<bearing, charge, reckoned, reported>>
  BY <1>1, <1>2 DEF BenchOK
<1>3. CASE Tick
  <2>1. charge' \in 0..MaxCharge
    BY <1>0, <1>3 DEF Tick, Drained, BenchOK
  <2>2. bearing' \in 0..3
    <3>1. bearing + Sign * cmd.steer \in Int
      <4>1. bearing \in Int /\ cmd.steer \in {-1, 0, 1} /\ Sign \in {-1, 1}
        BY DEF BenchOK, BenchCommands, Sign
      <4>2. Sign * cmd.steer \in Int
        BY <4>1
      <4> QED
        BY <4>1, <4>2
    <3>2. bearing' = bearing \/ bearing' = (bearing + Sign * cmd.steer) % 4
      BY <1>3 DEF Tick
    <3> QED
      BY <3>1, <3>2, ClampedQuarter DEF BenchOK
  <2> QED
    BY <1>1, <1>3, <2>1, <2>2 DEF Tick, BenchOK
<1>4. ASSUME NEW heartbeat \in BOOLEAN, ReportStep(heartbeat) PROVE BenchOK'
  <2>1. reckoned' \in Places /\ UNCHANGED <<bearing, charge>>
    BY <1>4 DEF ReportStep
  <2>2. reported' \in [status : {"NONE", "ACTIVE", "STANDBY"}, charge : 0..MaxCharge]
    BY <1>4 DEF ReportStep, Read, BenchOK
  <2> QED
    BY <1>1, <2>1, <2>2 DEF BenchOK
<1> QED
  BY <1>2, <1>3, <1>4 DEF BenchNext, bench, FrameDrives, FrameHolds, Applies, Stops, whereabouts

------------------------------------------------------------------------------
(* Relay.                                                                     *)

\* What a neutral still has to send, and the axes that covers.
Remainders == {Neutral, <<Rest("steer")>>, <<>>}
Owed(tokens) ==
    {axis \in Axes : tokens = Neutral \/ (tokens = <<Rest("steer")>> /\ axis = "steer")}

\* Somebody's neutral will still tell this axis to rest.
Promised(axis) ==
    \/ axis \in Owed(deadman)
    \/ \E c \in People : reader[c].at = "leaving" /\ axis \in Owed(reader[c].holds)

\* Only the driver's thread holds a frame to forward, and while nobody drives or
\* the driver is held, every axis rests, is promised to, or is excused.
RelayInv ==
    /\ reader \in [People -> [at : {"away", "reading", "heard", "sending", "leaving"},
                              holds : Seq(Token)]]
    /\ deadman \in Remainders
    /\ moving \subseteq Axes
    /\ \A c \in People :
         /\ reader[c].at \in {"heard", "sending"} => c = driver
         /\ reader[c].at = "sending" => reader[c].holds # <<>>
         /\ reader[c].at = "leaving" => reader[c].holds \in Remainders
    /\ driver = Nobody \/ neutralized =>
         missed \/ late \/ \A axis \in moving : Promised(axis)

LEMMA NeutralTokens ==
  /\ Neutral \in Seq(Token) /\ <<Rest("steer")>> \in Seq(Token)
  /\ Neutral # <<>> /\ <<Rest("steer")>> # <<>> /\ Neutral # <<Rest("steer")>>
  /\ Head(Neutral) = Rest("throttle") /\ Tail(Neutral) = <<Rest("steer")>>
  /\ Head(<<Rest("steer")>>) = Rest("steer") /\ Tail(<<Rest("steer")>>) = <<>>
<1>1. \A axis \in Axes : Rest(axis) \in Token
  BY DEF Rest, Token
<1>2. Rest("throttle") \in Token /\ Rest("steer") \in Token
  BY <1>1 DEF Axes
<1> QED
  BY <1>2 DEF Neutral

\* One token of a neutral, sent or lost: what it told to rest is not moving, and
\* the others are still covered.
LEMMA OneSent ==
  ASSUME NEW s \in Remainders, s # <<>>, moving \subseteq Axes, SendNeutral(Head(s)), late' = late
  PROVE  /\ Tail(s) \in Remainders /\ moving' \subseteq moving
         /\ missed => missed'
         /\ missed' \/ \A axis \in moving' : axis \in Owed(s) => axis \in Owed(Tail(s))
<1>1. /\ Head(s) = Rest(Head(s).axis) /\ ~Head(s).go
      /\ Tail(s) \in Remainders
      /\ \A axis \in Owed(s) : axis = Head(s).axis \/ axis \in Owed(Tail(s))
  <2>1. CASE s = Neutral
    <3>1. Head(s) = Rest("throttle") /\ Tail(s) = <<Rest("steer")>>
      BY <2>1, NeutralTokens
    <3> QED
      BY <3>1 DEF Owed, Axes, Rest, Remainders
  <2>2. CASE s = <<Rest("steer")>>
    <3>1. Head(s) = Rest("steer") /\ Tail(s) = <<>> /\ s # Neutral
      BY <2>2, NeutralTokens
    <3>2. Head(s).axis = "steer" /\ Head(s) = Rest(Head(s).axis) /\ ~Head(s).go
      BY <3>1 DEF Rest
    <3>3. \A axis \in Owed(s) : axis = "steer"
      BY <2>2, <3>1 DEF Owed
    <3>4. Tail(s) \in Remainders
      BY <3>1 DEF Remainders
    <3> QED
      BY <3>2, <3>3, <3>4
  <2> QED
    BY <2>1, <2>2 DEF Remainders
<1>2. CASE upstream = "up"
  BY <1>1, <1>2 DEF SendNeutral, Send, Told
<1>3. CASE upstream # "up"
  BY <1>1, <1>3 DEF SendNeutral, Send
<1> QED
  BY <1>2, <1>3


\* Replacing the record of a reader that is not leaving keeps every promise.
LEMMA PromiseKept ==
  ASSUME NEW c \in People, reader[c].at # "leaving", deadman' = deadman,
         \A d \in People : d # c => reader'[d] = reader[d]
  PROVE  \A axis : Promised(axis) => Promised(axis)'
<1> SUFFICES ASSUME NEW axis, Promised(axis) PROVE Promised(axis)'
  OBVIOUS
<1>1. CASE axis \in Owed(deadman)
  BY <1>1 DEF Promised
<1>2. ASSUME NEW d \in People, reader[d].at = "leaving", axis \in Owed(reader[d].holds)
      PROVE  Promised(axis)'
  <2>1. reader'[d] = reader[d]
    BY <1>2
  <2> QED
    BY <1>2, <2>1 DEF Promised
<1> QED
  BY <1>1, <1>2 DEF Promised

LEMMA RelayInitInv == RelayInit => RelayInv
<1> SUFFICES ASSUME RelayInit PROVE RelayInv
  OBVIOUS
<1>1. <<>> \in Seq(Token) /\ <<>> \in Remainders
  BY DEF Remainders
<1>2. \A c \in People : reader[c] = [at |-> "away", holds |-> <<>>]
  BY DEF RelayInit, Away
<1>3. reader \in [People -> [at : {"away", "reading", "heard", "sending", "leaving"},
                             holds : Seq(Token)]]
  BY <1>1 DEF RelayInit, Away
<1> QED
  BY <1>1, <1>2, <1>3 DEF RelayInit, RelayInv

LEMMA RelayNextInv == RelayInv /\ [RelayNext]_relay => RelayInv'
<1> SUFFICES ASSUME RelayInv, [RelayNext]_relay PROVE RelayInv'
  OBVIOUS
<1> DEFINE Stages == {"away", "reading", "heard", "sending", "leaving"}
<1>0. /\ reader \in [People -> [at : Stages, holds : Seq(Token)]]
      /\ deadman \in Remainders /\ moving \subseteq Axes
  BY DEF RelayInv
<1>00. Away \in [at : Stages, holds : Seq(Token)] /\ Reading \in [at : Stages, holds : Seq(Token)]
  BY DEF Away, Reading
<1>1. CASE UNCHANGED relay
  BY <1>1 DEF relay, crew, wires, RelayInv, Promised
<1>2. CASE Breaks \/ Noticed \/ Reconnects
  BY <1>2 DEF Breaks, Noticed, Reconnects, crew, wires, RelayInv, Promised
<1>3. CASE FallsSilent
  BY <1>3 DEF FallsSilent, crew, wires, RelayInv, Promised
<1>4. CASE Fires
  <2>1. /\ deadman' = Neutral /\ UNCHANGED <<driver, reader, moving>>
    BY <1>4 DEF Fires, crew, wires
  <2>2. \A axis \in moving' : Promised(axis)'
    <3>1. \A axis \in Axes : axis \in Owed(Neutral)
      BY DEF Owed
    <3>2. \A axis \in moving' : axis \in Owed(deadman')
      BY <1>0, <2>1, <3>1
    <3> QED
      BY <3>2 DEF Promised
  <2>3. deadman' \in Remainders
    BY <2>1 DEF Remainders
  <2> QED
    BY <2>1, <2>2, <2>3 DEF RelayInv
<1>5. CASE HoldsNeutral
  <2>1. /\ deadman # <<>> /\ SendNeutral(Head(deadman)) /\ deadman' = Tail(deadman)
        /\ UNCHANGED <<driver, neutralized, reader, late>>
    BY <1>5 DEF HoldsNeutral, crew, wires
  <2>2. /\ Tail(deadman) \in Remainders /\ moving' \subseteq moving /\ (missed => missed')
        /\ missed' \/ \A axis \in moving' : axis \in Owed(deadman) => axis \in Owed(Tail(deadman))
    BY <1>0, <2>1, OneSent
  <2>3. missed' \/ \A axis \in moving' : Promised(axis) => Promised(axis)'
    BY <2>1, <2>2 DEF Promised
  <2> QED
    BY <2>1, <2>2, <2>3 DEF RelayInv
<1>6. ASSUME NEW c \in People, Add(c) PROVE RelayInv'
  <2>1. /\ reader[c] = Away /\ reader' = [reader EXCEPT ![c] = Reading]
        /\ Promote(Append(roster, c)) /\ UNCHANGED <<deadman, moving, missed, late>>
    BY <1>6 DEF Add
  <2>2. \A axis : Promised(axis) => Promised(axis)'
    <3>1. reader[c].at # "leaving" /\ \A d \in People : d # c => reader'[d] = reader[d]
      BY <1>0, <2>1 DEF Away
    <3> QED
      BY <2>1, <3>1, PromiseKept
  <2>3. /\ driver # Nobody => driver' = driver
        /\ driver' = Nobody \/ neutralized' => driver = Nobody \/ neutralized
    BY <2>1 DEF Promote, Promoted
  <2>4. \A d \in People : d # c => reader'[d] = reader[d]
    BY <1>0, <2>1
  <2>5. reader'[c] = Reading /\ Reading.at = "reading"
    BY <1>0, <2>1 DEF Reading
  <2>6. reader' \in [People -> [at : Stages, holds : Seq(Token)]]
    BY <1>0, <1>00, <2>1
  <2>7. \A d \in People : reader[d].at \in {"heard", "sending"} => d = driver /\ driver' = driver
    BY <2>3, RelayAssumption DEF RelayInv
  <2> QED
    BY <2>1, <2>2, <2>3, <2>4, <2>5, <2>6, <2>7 DEF RelayInv
<1>7. ASSUME NEW c \in People, Leaves(c) PROVE RelayInv'
  <2>1. reader[c] = Reading /\ UNCHANGED <<neutralized, deadman, moving>>
    BY <1>7 DEF Leaves, wires
  <2>2. CASE c = driver
    <3> DEFINE r == [at |-> "leaving", holds |-> Neutral]
    <3>1. driver' = Nobody /\ reader' = [reader EXCEPT ![c] = r]
      BY <1>7, <2>2 DEF Leaves
    <3>2. r \in [at : Stages, holds : Seq(Token)] /\ Neutral \in Remainders
      BY NeutralTokens DEF Remainders
    <3>3. reader' \in [People -> [at : Stages, holds : Seq(Token)]] /\ reader'[c] = r
      BY <1>0, <3>1, <3>2
    <3>4. \A d \in People : d # c => reader'[d] = reader[d] /\ d # driver
      BY <1>0, <2>2, <3>1
    <3>5. \A axis \in Axes : axis \in Owed(Neutral)
      BY DEF Owed
    <3>6. \A axis \in moving' : Promised(axis)'
      <4>1. \A axis \in moving' : axis \in Owed(reader'[c].holds) /\ reader'[c].at = "leaving"
        BY <1>0, <2>1, <3>3, <3>5
      <4> QED
        BY <4>1 DEF Promised
    <3> QED
      BY <1>0, <2>1, <3>1, <3>2, <3>3, <3>4, <3>6 DEF RelayInv
  <2>3. CASE c # driver
    <3>1. reader' = [reader EXCEPT ![c] = Away] /\ UNCHANGED <<driver, missed, late>>
      BY <1>7, <2>3 DEF Leaves
    <3>2. reader[c].at # "leaving" /\ \A d \in People : d # c => reader'[d] = reader[d]
      BY <1>0, <2>1, <3>1 DEF Reading
    <3>3. reader' \in [People -> [at : Stages, holds : Seq(Token)]] /\ reader'[c] = Away
      BY <1>0, <1>00, <3>1
    <3>4. \A axis : Promised(axis) => Promised(axis)'
      BY <2>1, <3>2, PromiseKept
    <3> QED
      BY <1>0, <2>1, <3>1, <3>2, <3>3, <3>4 DEF RelayInv, Away
  <2> QED
    BY <2>2, <2>3
<1>8. ASSUME NEW c \in People, LeavesNeutral(c) PROVE RelayInv'
  <2> DEFINE s == reader[c].holds
  <2>1. /\ reader[c].at = "leaving" /\ s # <<>> /\ s \in Remainders /\ SendNeutral(Head(s))
        /\ reader' = [reader EXCEPT ![c].holds = Tail(s)]
        /\ UNCHANGED <<driver, neutralized, deadman, late>>
    BY <1>8 DEF LeavesNeutral, crew, wires, RelayInv
  <2>2. /\ Tail(s) \in Remainders /\ moving' \subseteq moving /\ (missed => missed')
        /\ missed' \/ \A axis \in moving' : axis \in Owed(s) => axis \in Owed(Tail(s))
    BY <1>0, <2>1, OneSent
  <2>3. Tail(s) \in Seq(Token)
    <3>1. <<>> \in Seq(Token)
      OBVIOUS
    <3> HIDE DEF s
    <3> QED
      BY <2>2, <3>1, NeutralTokens DEF Remainders
  <2>4. /\ reader' \in [People -> [at : Stages, holds : Seq(Token)]]
        /\ reader'[c].at = "leaving" /\ reader'[c].holds = Tail(s)
        /\ \A d \in People : d # c => reader'[d] = reader[d]
    BY <1>0, <2>1, <2>3
  <2>5. missed' \/ \A axis \in moving' : Promised(axis) => Promised(axis)'
    <3> SUFFICES ASSUME ~missed', NEW axis \in moving', Promised(axis) PROVE Promised(axis)'
      OBVIOUS
    <3>1. CASE axis \in Owed(deadman)
      BY <2>1, <3>1 DEF Promised
    <3>2. ASSUME NEW d \in People, reader[d].at = "leaving", axis \in Owed(reader[d].holds)
          PROVE  Promised(axis)'
      <4>1. CASE d = c
        BY <2>2, <2>4, <3>2, <4>1 DEF Promised
      <4>2. CASE d # c
        BY <2>4, <3>2, <4>2 DEF Promised
      <4> QED
        BY <4>1, <4>2
    <3> QED
      BY <3>1, <3>2 DEF Promised
  <2> QED
    BY <1>0, <2>1, <2>2, <2>4, <2>5 DEF RelayInv
<1>9. ASSUME NEW c \in People, HandsOver(c) PROVE RelayInv'
  <2>1. /\ reader[c].at = "leaving" /\ reader[c].holds = <<>> /\ Promote(roster)
        /\ reader' = [reader EXCEPT ![c] = Away] /\ UNCHANGED <<deadman, moving, missed, late>>
    BY <1>9 DEF HandsOver, wires
  <2>2. /\ driver # Nobody => driver' = driver
        /\ driver' = Nobody \/ neutralized' => driver = Nobody \/ neutralized
    BY <2>1 DEF Promote, Promoted
  <2>3. /\ reader' \in [People -> [at : Stages, holds : Seq(Token)]] /\ reader'[c] = Away
        /\ \A d \in People : d # c => reader'[d] = reader[d]
    BY <1>0, <1>00, <2>1
  <2>4. \A axis : axis \notin Owed(<<>>)
    BY NeutralTokens DEF Owed
  <2>5. \A axis : Promised(axis) => Promised(axis)'
    <3> SUFFICES ASSUME NEW axis, Promised(axis) PROVE Promised(axis)'
      OBVIOUS
    <3>1. CASE axis \in Owed(deadman)
      BY <2>1, <3>1 DEF Promised
    <3>2. ASSUME NEW d \in People, reader[d].at = "leaving", axis \in Owed(reader[d].holds)
          PROVE  Promised(axis)'
      <4>1. d # c
        BY <2>1, <2>4, <3>2
      <4> QED
        BY <2>3, <3>2, <4>1 DEF Promised
    <3> QED
      BY <3>1, <3>2 DEF Promised
  <2>6. \A d \in People : reader[d].at \in {"heard", "sending"} => d = driver /\ driver' = driver
    BY <2>2, RelayAssumption DEF RelayInv
  <2> QED
    BY <2>1, <2>2, <2>3, <2>5, <2>6 DEF RelayInv, Away
<1>10. ASSUME NEW c \in People, Marks(c) PROVE RelayInv'
  <2>1. /\ reader[c].at = "heard" /\ neutralized' = FALSE
        /\ reader' = [reader EXCEPT ![c] =
              IF reader[c].holds = Heartbeat THEN Reading ELSE [reader[c] EXCEPT !.at = "sending"]]
        /\ UNCHANGED <<driver, deadman, moving>>
    BY <1>10 DEF Marks, crew, wires
  <2>2. c = driver /\ driver # Nobody
    BY <2>1, RelayAssumption DEF RelayInv
  <2>3. /\ reader' \in [People -> [at : Stages, holds : Seq(Token)]]
        /\ reader'[c].at # "leaving" /\ (reader'[c].at = "sending" => reader'[c].holds # <<>>)
    <3>1. CASE reader[c].holds = Heartbeat
      BY <1>0, <1>00, <2>1, <3>1 DEF Reading
    <3>2. CASE reader[c].holds # Heartbeat
      BY <1>0, <2>1, <3>2 DEF Heartbeat
    <3> QED
      BY <3>1, <3>2
  <2>4. \A d \in People : d # c => reader'[d] = reader[d]
    BY <1>0, <2>1
  <2> QED
    BY <2>1, <2>2, <2>3, <2>4 DEF RelayInv
<1>11. ASSUME NEW c \in People, Forwards(c) PROVE RelayInv'
  <2>1. /\ reader[c].at = "sending" /\ Send(reader[c].holds[1])
        /\ late' = (late \/ neutralized) /\ reader' = [reader EXCEPT ![c] = Reading]
        /\ UNCHANGED <<driver, neutralized, deadman, missed>>
    BY <1>11 DEF Forwards, crew, wires
  <2>2. c = driver /\ driver # Nobody /\ reader[c].holds # <<>>
    BY <2>1, RelayAssumption DEF RelayInv
  <2>3. moving' \subseteq Axes
    <3>1. reader[c].holds[1] \in Token
      BY <1>0, <2>2
    <3> QED
      BY <1>0, <2>1, <3>1 DEF Send, Told, Token
  <2>4. /\ reader' \in [People -> [at : Stages, holds : Seq(Token)]] /\ reader'[c] = Reading
        /\ \A d \in People : d # c => reader'[d] = reader[d]
    BY <1>0, <1>00, <2>1
  <2> QED
    BY <2>1, <2>2, <2>3, <2>4 DEF RelayInv, Reading
<1>12. ASSUME NEW c \in People, NEW frame \in Seq(Token), Takes(c, frame) PROVE RelayInv'
  <2> DEFINE r == [at |-> "heard", holds |-> frame]
  <2>1. /\ reader[c] = Reading /\ c = driver /\ reader' = [reader EXCEPT ![c] = r]
        /\ UNCHANGED <<driver, neutralized, deadman, moving, missed, late>>
    BY <1>12 DEF Takes, crew, wires
  <2>2. r \in [at : Stages, holds : Seq(Token)]
    OBVIOUS
  <2>3. /\ reader' \in [People -> [at : Stages, holds : Seq(Token)]] /\ reader'[c] = r
        /\ \A d \in People : d # c => reader'[d] = reader[d]
    BY <1>0, <2>1, <2>2
  <2>4. \A axis : Promised(axis) => Promised(axis)'
    <3>1. reader[c].at # "leaving"
      BY <2>1 DEF Reading
    <3> QED
      BY <2>1, <2>3, <3>1, PromiseKept
  <2> QED
    BY <1>0, <2>1, <2>3, <2>4 DEF RelayInv
<1>13. Heartbeat \in Seq(Token) /\ \A t \in Token : <<t>> \in Seq(Token)
  BY DEF Heartbeat
<1> QED
  BY <1>1, <1>2, <1>3, <1>4, <1>5, <1>6, <1>7, <1>8, <1>9, <1>10, <1>11, <1>12, <1>13
     DEF RelayNext

THEOREM SpecRelayInv == RelaySpec => []RelayInv
  BY RelayInitInv, RelayNextInv, PTL DEF RelaySpec

\* For any number of clients, handovers and broken connections: a held vehicle, or
\* one without a driver, rests, unless a neutral was lost or overtaken.
THEOREM SpecHeldAtNeutral == RelaySpec => []HeldAtNeutral
<1>1. RelayInv => HeldAtNeutral
  <2> SUFFICES ASSUME RelayInv, driver = Nobody \/ neutralized, AtRest, ~missed, ~late
               PROVE  moving = {}
    BY DEF HeldAtNeutral
  <2>1. \A axis : axis \notin Owed(deadman)
    BY NeutralTokens DEF AtRest, Owed
  <2>2. \A axis : ~Promised(axis)
    BY <2>1 DEF AtRest, Promised
  <2> QED
    BY <2>2 DEF RelayInv
<1> QED
  BY <1>1, SpecRelayInv, PTL

\* The roster without one who is on it once: the others, each at its place or the one
\* before it.
LEMMA WithoutIs ==
  ASSUME NEW here \in Seq(People), NEW i \in DOMAIN here,
         \A m, n \in DOMAIN here : here[m] = here[n] => m = n
  PROVE  /\ Without(here, here[i]) \in Seq(People)
         /\ Len(Without(here, here[i])) = Len(here) - 1
         /\ \A j \in 1..Len(here) - 1 :
               Without(here, here[i])[j] = IF j < i THEN here[j] ELSE here[j + 1]
<1> DEFINE k == CHOOSE k \in DOMAIN here : here[k] = here[i]
           before == SubSeq(here, 1, i - 1)
           after == SubSeq(here, i + 1, Len(here))
<1>1. k = i
  <2>1. k \in DOMAIN here /\ here[k] = here[i]
    OBVIOUS
  <2> QED
    BY <2>1
<1>2. Without(here, here[i]) = before \o after
  BY <1>1 DEF Without
<1>3. i \in 1..Len(here) /\ Len(here) \in Nat
  OBVIOUS
<1>4. /\ before \in Seq(People) /\ Len(before) = i - 1
      /\ \A j \in 1..i - 1 : before[j] = here[j]
  BY <1>3
<1>5. /\ after \in Seq(People) /\ Len(after) = Len(here) - i
      /\ \A j \in 1..Len(here) - i : after[j] = here[i + j]
  BY <1>3
<1> HIDE DEF before, after, k
<1>6. /\ before \o after \in Seq(People) /\ Len(before \o after) = Len(here) - 1
      /\ \A j \in 1..Len(here) - 1 :
            (before \o after)[j] = IF j < i THEN before[j] ELSE after[j - (i - 1)]
  BY <1>3, <1>4, <1>5, SMTT(30)
<1>7. ASSUME NEW j \in 1..Len(here) - 1
      PROVE  (before \o after)[j] = IF j < i THEN here[j] ELSE here[j + 1]
  <2>1. CASE j < i
    BY <1>3, <1>4, <1>6, <2>1
  <2>2. CASE ~(j < i)
    <3>1. j - (i - 1) \in 1..Len(here) - i /\ i + (j - (i - 1)) = j + 1
      BY <1>3, <2>2
    <3>2. (before \o after)[j] = after[j - (i - 1)]
      BY <1>6, <2>2
    <3> QED
      BY <1>5, <2>2, <3>1, <3>2
  <2> QED
    BY <2>1, <2>2
<1> QED
  BY <1>2, <1>6, <1>7

OnRoster(here, c) == \E i \in DOMAIN here : here[i] = c
Once(here) == \A i, j \in DOMAIN here : here[i] = here[j] => i = j

LEMMA RosterGrows ==
  ASSUME NEW here \in Seq(People), Once(here), NEW c \in People, ~OnRoster(here, c)
  PROVE  /\ Append(here, c) \in Seq(People) /\ Once(Append(here, c))
         /\ \A d \in People : OnRoster(Append(here, c), d) <=> OnRoster(here, d) \/ d = c
<1> DEFINE more == Append(here, c)
<1>1. /\ more \in Seq(People) /\ DOMAIN more = 1..Len(here) + 1 /\ DOMAIN here = 1..Len(here)
      /\ \A i \in DOMAIN here : more[i] = here[i]
      /\ more[Len(here) + 1] = c /\ Len(here) \in Nat
  OBVIOUS
<1> HIDE DEF more
<1>2. Once(more)
  <2> SUFFICES ASSUME NEW i \in DOMAIN more, NEW j \in DOMAIN more, more[i] = more[j] PROVE i = j
    BY DEF Once
  <2> QED
    BY <1>1 DEF Once, OnRoster
<1>3. ASSUME NEW d \in People PROVE OnRoster(more, d) <=> OnRoster(here, d) \/ d = c
  BY <1>1 DEF OnRoster
<1> QED
  BY <1>1, <1>2, <1>3 DEF more

LEMMA RosterShrinks ==
  ASSUME NEW here \in Seq(People), Once(here), NEW c \in People, OnRoster(here, c)
  PROVE  /\ Without(here, c) \in Seq(People) /\ Once(Without(here, c))
         /\ \A d \in People : OnRoster(Without(here, c), d) <=> OnRoster(here, d) /\ d # c
<1> DEFINE less == Without(here, c)
<1>1. PICK i \in DOMAIN here : here[i] = c
  BY DEF OnRoster
<1>2. /\ less \in Seq(People) /\ Len(less) = Len(here) - 1
      /\ \A j \in 1..Len(here) - 1 : less[j] = IF j < i THEN here[j] ELSE here[j + 1]
  BY <1>1, WithoutIs DEF Once
<1> HIDE DEF less
<1>3. /\ DOMAIN less = 1..Len(here) - 1 /\ DOMAIN here = 1..Len(here) /\ Len(here) \in Nat
      /\ i \in 1..Len(here)
  BY <1>2
<1>4. ASSUME NEW m \in DOMAIN less, NEW n \in DOMAIN less, less[m] = less[n] PROVE m = n
  <2> DEFINE u == IF m < i THEN m ELSE m + 1
             v == IF n < i THEN n ELSE n + 1
  <2>1. u \in DOMAIN here /\ v \in DOMAIN here
    BY <1>3
  <2>2. less[m] = here[u] /\ less[n] = here[v]
    BY <1>2, <1>3
  <2>3. u = v
    BY <1>4, <2>1, <2>2 DEF Once
  <2> QED
    BY <1>3, <2>3
<1>5. ASSUME NEW d \in People, OnRoster(less, d) PROVE OnRoster(here, d) /\ d # c
  <2>1. PICK m \in DOMAIN less : less[m] = d
    BY <1>5 DEF OnRoster
  <2> DEFINE u == IF m < i THEN m ELSE m + 1
  <2>2. u \in DOMAIN here /\ u # i
    BY <1>3
  <2>3. here[u] = d
    BY <1>2, <1>3, <2>1
  <2> HIDE DEF u
  <2> QED
    BY <1>1, <2>2, <2>3 DEF OnRoster, Once
<1>6. ASSUME NEW d \in People, OnRoster(here, d), d # c PROVE OnRoster(less, d)
  <2>1. PICK n \in DOMAIN here : here[n] = d
    BY <1>6 DEF OnRoster
  <2>2. n # i
    BY <1>1, <1>6, <2>1
  <2> DEFINE m == IF n < i THEN n ELSE n - 1
  <2>3. m \in DOMAIN less
    BY <1>3, <2>2
  <2>4. less[m] = d
    BY <1>2, <1>3, <2>1, <2>2
  <2> HIDE DEF m
  <2> QED
    BY <2>3, <2>4 DEF OnRoster
<1> QED
  BY <1>2, <1>4, <1>5, <1>6 DEF Once, less

\* The roster names each client once, and those whose threads are in the loop.
LEMMA RelayInitOK == RelayInit => RelayOK
<1> SUFFICES ASSUME RelayInit PROVE RelayOK
  OBVIOUS
<1>1. roster = <<>> /\ roster \in Seq(People) /\ DOMAIN roster = {}
  BY DEF RelayInit
<1>2. \A c \in People : reader[c].at = "away"
  BY DEF RelayInit, Away
<1> QED
  BY <1>1, <1>2 DEF RelayInit, RelayOK

\* A client's thread is in the loop that reads its frames.
Mid(x) == x.at \in {"reading", "heard", "sending"}
Aboard(c) == Mid(reader[c])

LEMMA RelayNextOK ==
  ASSUME RelayInv, RelayOK, [RelayNext]_relay
  PROVE  RelayOK'
<1> DEFINE Stages == {"away", "reading", "heard", "sending", "leaving"}
<1>0. /\ reader \in [People -> [at : Stages, holds : Seq(Token)]]
      /\ roster \in Seq(People) /\ Once(roster) /\ driver \in People \cup {Nobody}
      /\ \A c \in People : Aboard(c) <=> OnRoster(roster, c)
      /\ upstream \in {"up", "broken", "down"}
  BY DEF RelayInv, RelayOK, Once, OnRoster, Aboard, Mid
<1>1. reader' \in [People -> [at : Stages, holds : Seq(Token)]] /\ moving' \subseteq Axes
  BY RelayNextInv DEF RelayInv
<1>2. ASSUME roster' \in Seq(People), Once(roster'), driver' \in People \cup {Nobody},
             \A c \in People : Aboard(c)' <=> OnRoster(roster', c),
             upstream' \in {"up", "broken", "down"}
      PROVE  RelayOK'
  <2>1. \A c \in People : reader'[c].at \in Stages
    BY <1>1
  <2> QED
    BY <1>1, <1>2, <2>1 DEF RelayOK, Once, OnRoster, Aboard, Mid
<1>3. ASSUME UNCHANGED <<roster, driver>>, upstream' \in {"up", "broken", "down"},
             \A c \in People : Aboard(c)' <=> Aboard(c)
      PROVE  RelayOK'
  BY <1>0, <1>2, <1>3
<1>4. CASE UNCHANGED relay \/ Breaks \/ Noticed \/ Reconnects \/ FallsSilent \/ Fires \/ HoldsNeutral
  <2>1. UNCHANGED <<roster, driver, reader>> /\ upstream' \in {"up", "broken", "down"}
    BY <1>0, <1>4 DEF relay, Breaks, Noticed, Reconnects, FallsSilent, Fires, HoldsNeutral, crew, wires
  <2> QED
    BY <1>3, <2>1 DEF Aboard, Mid
<1>5. ASSUME NEW c \in People, Add(c) PROVE RelayOK'
  <2>1. /\ reader[c] = Away /\ roster' = Append(roster, c) /\ reader' = [reader EXCEPT ![c] = Reading]
        /\ driver' = Promoted(Append(roster, c)) /\ upstream' = upstream
    BY <1>5 DEF Add, Promote, wires
  <2>2. ~OnRoster(roster, c)
    <3>1. ~Aboard(c)
      BY <2>1 DEF Aboard, Mid, Away
    <3> QED
      BY <1>0, <3>1
  <2>3. /\ roster' \in Seq(People) /\ Once(roster')
        /\ \A d \in People : OnRoster(roster', d) <=> OnRoster(roster, d) \/ d = c
    BY <1>0, <2>1, <2>2, RosterGrows
  <2>4. driver' \in People \cup {Nobody}
    BY <1>0, <2>1, <2>3 DEF Promoted
  <2>5. \A d \in People : Aboard(d)' <=> Aboard(d) \/ d = c
    BY <1>0, <2>1 DEF Aboard, Mid, Reading
  <2> QED
    BY <1>0, <1>2, <2>1, <2>3, <2>4, <2>5
<1>6. ASSUME NEW c \in People, Leaves(c) PROVE RelayOK'
  <2>1. /\ reader[c] = Reading /\ roster' = Without(roster, c)
        /\ driver' \in {driver, Nobody} /\ upstream' = upstream
        /\ \/ reader' = [reader EXCEPT ![c] = [at |-> "leaving", holds |-> Neutral]]
           \/ reader' = [reader EXCEPT ![c] = Away]
    BY <1>6 DEF Leaves, wires
  <2>2. OnRoster(roster, c)
    BY <1>0, <2>1 DEF Aboard, Mid, Reading
  <2>3. /\ roster' \in Seq(People) /\ Once(roster')
        /\ \A d \in People : OnRoster(roster', d) <=> OnRoster(roster, d) /\ d # c
    BY <1>0, <2>1, <2>2, RosterShrinks
  <2>4. \A d \in People : Aboard(d)' <=> Aboard(d) /\ d # c
    BY <1>0, <2>1 DEF Aboard, Mid, Away
  <2> QED
    BY <1>0, <1>2, <2>1, <2>3, <2>4
<1>7. ASSUME NEW c \in People, LeavesNeutral(c) PROVE RelayOK'
  <2>1. /\ reader' = [reader EXCEPT ![c].holds = Tail(@)] /\ UNCHANGED <<roster, driver, upstream>>
    BY <1>7 DEF LeavesNeutral, crew, wires
  <2>2. \A d \in People : Aboard(d)' <=> Aboard(d)
    BY <1>0, <2>1 DEF Aboard, Mid
  <2> QED
    BY <1>0, <1>3, <2>1, <2>2
<1>8. ASSUME NEW c \in People, HandsOver(c) PROVE RelayOK'
  <2>1. /\ reader[c].at = "leaving" /\ reader' = [reader EXCEPT ![c] = Away]
        /\ driver' = Promoted(roster) /\ UNCHANGED <<roster, upstream>>
    BY <1>8 DEF HandsOver, Promote, wires
  <2>2. \A d \in People : Aboard(d)' <=> Aboard(d)
    BY <1>0, <2>1 DEF Aboard, Mid, Away
  <2>3. driver' \in People \cup {Nobody}
    BY <1>0, <2>1 DEF Promoted
  <2> QED
    BY <1>0, <1>2, <2>1, <2>2, <2>3
<1>9. ASSUME NEW c \in People, NEW x, Mid(x), Aboard(c),
             reader' = [reader EXCEPT ![c] = x], UNCHANGED <<roster, driver, upstream>>
      PROVE  RelayOK'
  <2>1. \A d \in People : Aboard(d)' <=> Aboard(d)
    BY <1>0, <1>9 DEF Aboard, Mid
  <2> QED
    BY <1>0, <1>3, <1>9, <2>1
<1>10. ASSUME NEW c \in People, Marks(c) PROVE RelayOK'
  <2> DEFINE x == IF reader[c].holds = Heartbeat THEN Reading ELSE [reader[c] EXCEPT !.at = "sending"]
  <2>1. /\ reader[c].at = "heard" /\ reader' = [reader EXCEPT ![c] = x]
        /\ UNCHANGED <<roster, driver, upstream>>
    BY <1>0, <1>10 DEF Marks, crew, wires
  <2>2. Mid(x)
    BY <1>0 DEF Reading, Mid
  <2> HIDE DEF x
  <2>3. Aboard(c)
    BY <2>1 DEF Aboard, Mid
  <2> QED
    BY <1>9, <2>1, <2>2, <2>3
<1>11. ASSUME NEW c \in People, Forwards(c) PROVE RelayOK'
  <2>1. /\ reader[c].at = "sending" /\ reader' = [reader EXCEPT ![c] = Reading]
        /\ UNCHANGED <<roster, driver, upstream>>
    BY <1>11 DEF Forwards, crew, wires
  <2>2. Mid(Reading) /\ Aboard(c)
    BY <2>1 DEF Aboard, Mid, Reading
  <2> QED
    BY <1>9, <2>1, <2>2
<1>12. ASSUME NEW c \in People, NEW frame, Takes(c, frame) PROVE RelayOK'
  <2> DEFINE x == [at |-> "heard", holds |-> frame]
  <2>1. /\ reader[c].at = "reading" /\ reader' = [reader EXCEPT ![c] = x]
        /\ UNCHANGED <<roster, driver, upstream>>
    BY <1>12 DEF Takes, crew, wires, Reading
  <2>2. Mid(x) /\ Aboard(c)
    BY <2>1 DEF Aboard, Mid
  <2> HIDE DEF x
  <2> QED
    BY <1>9, <2>1, <2>2
<1> QED
  BY <1>4, <1>5, <1>6, <1>7, <1>8, <1>10, <1>11, <1>12 DEF RelayNext

------------------------------------------------------------------------------
(* Cockpit.                                                                   *)

\* A frame with throttle is one of a confirmed request.
SureFrames == {Beat} \cup {f \in Sent : f.zero \/ f.sure}

CockpitInv ==
    /\ armed \in BOOLEAN /\ stopEdge \in BOOLEAN /\ confirmed \in BOOLEAN
    /\ deadline \in Settled .. Confirm
    /\ armed /\ deadline = Settled => confirmed
    /\ upward \in Seq(SureFrames)
    /\ acting.zero \/ acting.sure

LEMMA CalmIsSure == \A arm, estop \in BOOLEAN : Calm(arm, estop) \in SureFrames /\ Calm(arm, estop).zero
  BY DEF Calm, SureFrames, Sent

\* A frame written while the request is pending carries no throttle.
LEMMA FrameIsSure ==
  ASSUME CockpitInv, NEW may \in BOOLEAN, NEW neutral \in BOOLEAN
  PROVE  Frame(may, neutral) \in SureFrames
<1>0. stopEdge \in BOOLEAN /\ confirmed \in BOOLEAN /\ armed \in BOOLEAN
  BY DEF CockpitInv
<1>1. CASE may /\ armed /\ deadline # 0
  <2> DEFINE z == deadline # Settled \/ neutral
  <2>1. Frame(may, neutral) = [t |-> "cmd", arm |-> TRUE, estop |-> stopEdge, zero |-> z,
                               sure |-> confirmed]
    BY <1>1 DEF Frame, Zero, ZeroWhilePending
  <2>2. z \in BOOLEAN /\ (z \/ confirmed)
    BY <1>1 DEF CockpitInv
  <2> HIDE DEF z
  <2> QED
    BY <1>0, <2>1, <2>2 DEF SureFrames, Sent
<1>2. CASE ~(may /\ armed /\ deadline # 0)
  BY <1>0, <1>2, CalmIsSure DEF Frame, Quiet
<1> QED
  BY <1>1, <1>2

LEMMA OutIsSure ==
  ASSUME upward \in Seq(SureFrames), NEW frames \in Seq(SureFrames), Out(frames)
  PROVE  upward' \in Seq(SureFrames)
  BY DEF Out

LEMMA Windows == Settled \in Settled .. Confirm /\ Confirm \in Settled .. Confirm /\ Confirm # Settled
  BY CockpitAssumption DEF Settled

LEMMA IdleIsZero == Idle.zero
  BY DEF Idle, Calm

LEMMA CockpitInitInv == CockpitInit => CockpitInv
<1> SUFFICES ASSUME CockpitInit PROVE CockpitInv
  OBVIOUS
<1>1. /\ armed = FALSE /\ deadline = Settled /\ stopEdge = FALSE /\ confirmed = FALSE
      /\ upward = <<>> /\ acting = Idle
  BY DEF CockpitInit
<1>2. deadline \in Settled .. Confirm /\ acting.zero
  BY <1>1, Windows, IdleIsZero
<1>3. upward \in Seq(SureFrames)
  BY <1>1
<1> QED
  BY <1>1, <1>2, <1>3 DEF CockpitInv

LEMMA CockpitNextInv == CockpitInv /\ [CockpitNext]_cockpit => CockpitInv'
<1> SUFFICES ASSUME CockpitInv, [CockpitNext]_cockpit PROVE CockpitInv'
  OBVIOUS
<1> DEFINE Requested == /\ armed \in BOOLEAN /\ confirmed \in BOOLEAN
                        /\ deadline \in Settled .. Confirm
                        /\ armed /\ deadline = Settled => confirmed
<1>0. /\ stopEdge \in BOOLEAN /\ upward \in Seq(SureFrames) /\ Requested
      /\ Settled = -1 /\ Confirm \in Nat \ {0} /\ (acting.zero \/ acting.sure)
  BY CockpitAssumption DEF CockpitInv, Settled
<1>00. Requested' /\ stopEdge' \in BOOLEAN /\ upward' \in Seq(SureFrames) /\ acting' = acting
       => CockpitInv'
  BY <1>0 DEF CockpitInv
<1>01. \A f, g, h \in SureFrames : <<>> \in Seq(SureFrames) /\ <<f>> \in Seq(SureFrames)
         /\ <<f, g>> \in Seq(SureFrames)
  OBVIOUS
<1>02. /\ DropRequest => Requested'
       /\ UNCHANGED request => Requested'
       /\ SettleArm => Requested'
  <2>1. DropRequest => Requested'
    <3> SUFFICES ASSUME DropRequest PROVE Requested'
      OBVIOUS
    <3>1. armed' = FALSE /\ deadline' = Settled /\ confirmed' = FALSE
      BY DEF DropRequest
    <3>2. deadline' \in Settled .. Confirm
      BY <3>1, Windows
    <3> QED
      BY <3>1, <3>2 DEF Settled
  <2>2. UNCHANGED request => Requested'
    BY <1>0 DEF request
  <2> QED
    BY <2>1, <2>2 DEF SettleArm
<1>03. /\ Quiet \in SureFrames /\ Calm(TRUE, stopEdge) \in SureFrames
       /\ Calm(FALSE, TRUE) \in SureFrames /\ Idle.zero /\ Beat \in SureFrames
  BY <1>0, CalmIsSure DEF SureFrames, Quiet, Idle
<1>1. CASE UNCHANGED cockpit
  BY <1>1 DEF cockpit, CockpitInv
<1>2. CASE PressArm
  <2>1. Requested'
    <3>1. armed' = TRUE /\ deadline' = Confirm /\ confirmed' = FALSE
      BY <1>2 DEF PressArm
    <3>2. deadline' \in Settled .. Confirm /\ deadline' # Settled
      BY <3>1, Windows
    <3> QED
      BY <3>1, <3>2 DEF Settled
  <2>2. upward' \in Seq(SureFrames)
    BY <1>0, <1>01, <1>03, <1>2, OutIsSure DEF PressArm
  <2> QED
    BY <1>0, <1>00, <1>2, <2>1, <2>2 DEF PressArm, far
<1>3. CASE PressStop
  <2>1. upward' \in Seq(SureFrames)
    BY <1>0, <1>01, <1>03, <1>3, OutIsSure DEF PressStop
  <2> QED
    BY <1>00, <1>02, <1>3, <2>1 DEF PressStop, far
<1>4. CASE Leave \/ SignOut
  <2>1. upward' \in Seq(SureFrames)
    BY <1>0, <1>01, <1>03, <1>4, OutIsSure DEF Leave, SignOut, LastFrame, SayDisarmed
  <2> QED
    BY <1>0, <1>00, <1>02, <1>4, <2>1 DEF Leave, SignOut, GiveUpControl, far
<1>5. CASE PassConnect \/ ComeBack \/ SocketOpens \/ TellState
  <2>1. UNCHANGED <<stopEdge, upward, acting>> /\ UNCHANGED request
    BY <1>5 DEF PassConnect, ComeBack, SocketOpens, TellState, far, near
  <2> QED
    BY <1>0, <1>00, <1>02, <2>1
<1>6. CASE Tick20Hz
  BY <1>0, <1>00, <1>02, <1>6 DEF Tick20Hz, far
<1>7. ASSUME NEW beat \in BOOLEAN, NEW neutral \in BOOLEAN, Interval(beat, neutral)
      PROVE  CockpitInv'
  <2> DEFINE f == IF onScreen THEN <<Frame(MayArm, neutral)>> ELSE <<>>
             b == IF beat THEN <<Beat>> ELSE <<>>
  <2>1. Frame(MayArm, neutral) \in SureFrames
    <3>1. MayArm \in BOOLEAN
      BY DEF MayArm
    <3> QED
      BY <1>7, <3>1, FrameIsSure
  <2>2. f \in Seq(SureFrames) /\ b \in Seq(SureFrames)
    BY <1>01, <1>03, <2>1
  <2>3. Out(f \o b) /\ SettleArm /\ stopEdge' = stopEdge /\ acting' = acting
    BY <1>7 DEF Interval, far
  <2> HIDE DEF f, b
  <2>4. upward' \in Seq(SureFrames)
    <3>1. f \o b \in Seq(SureFrames)
      BY <2>2
    <3> QED
      BY <1>0, <2>3, <3>1, OutIsSure
  <2> QED
    BY <1>0, <1>00, <1>02, <2>3, <2>4
<1>8. ASSUME NEW beat \in BOOLEAN, StaleInterval(beat) PROVE CockpitInv'
  <2> DEFINE f == IF onScreen /\ (fresh \/ ~relinquished) THEN <<Quiet>> ELSE <<>>
             g == IF onScreen THEN <<Quiet>> ELSE <<>>
             b == IF beat THEN <<Beat>> ELSE <<>>
  <2>1. f \in Seq(SureFrames) /\ g \in Seq(SureFrames) /\ b \in Seq(SureFrames)
    BY <1>01, <1>03
  <2>2. Out(f \o g \o b) /\ DropRequest /\ stopEdge' = stopEdge /\ acting' = acting
    BY <1>8 DEF StaleInterval, GiveUpControl, far
  <2> HIDE DEF f, g, b
  <2>3. upward' \in Seq(SureFrames)
    <3>1. f \o g \o b \in Seq(SureFrames)
      BY <2>1
    <3> QED
      BY <1>0, <2>2, <3>1, OutIsSure
  <2> QED
    BY <1>0, <1>00, <1>02, <2>2, <2>3
<1>9. CASE HearVehicle
  <2>1. UNCHANGED <<stopEdge, upward, acting>>
    BY <1>9 DEF HearVehicle, far
  <2>2. \/ deadline' = Settled /\ confirmed' = TRUE /\ UNCHANGED armed
        \/ DropRequest
        \/ UNCHANGED request
    BY <1>9 DEF HearVehicle
  <2>3. Requested'
    <3>1. ASSUME deadline' = Settled /\ confirmed' = TRUE /\ UNCHANGED armed PROVE Requested'
      <4>1. deadline' \in Settled .. Confirm /\ armed' \in BOOLEAN
        BY <1>0, <3>1, Windows
      <4> QED
        BY <3>1, <4>1 DEF Settled
    <3> QED
      BY <1>02, <2>2, <3>1
  <2> QED
    BY <1>0, <1>00, <2>1, <2>3
<1>10. CASE SocketDies
  <2>1. upward' \in Seq(SureFrames)
    BY <1>0, <1>10 DEF SocketDies
  <2> QED
    BY <1>0, <1>00, <1>02, <1>10, <2>1 DEF SocketDies, GiveUpControl, far
<1>11. CASE TakeFrame
  <2>1. /\ upward # <<>> /\ upward' = Tail(upward) /\ UNCHANGED stopEdge /\ UNCHANGED request
        /\ (Head(upward).t = "hb" /\ acting' = acting)
           \/ (Head(upward).t # "hb" /\ acting' \in {Head(upward), Idle})
    BY <1>11 DEF TakeFrame, near
  <2>2. Head(upward) \in SureFrames /\ upward' \in Seq(SureFrames)
    BY <1>0, <2>1
  <2>3. acting'.zero \/ acting'.sure
    BY <1>0, <1>03, <2>1, <2>2 DEF SureFrames, Beat
  <2> QED
    BY <1>0, <1>02, <2>1, <2>2, <2>3 DEF CockpitInv
<1>12. CASE Polls \/ SeesClose
  <2>1. UNCHANGED <<stopEdge, upward>> /\ UNCHANGED request /\ acting' = Idle
    BY <1>12 DEF Polls, SeesClose, near
  <2> QED
    BY <1>0, <1>02, <1>03, <2>1 DEF CockpitInv
<1>13. CASE Elapses
  <2>1. /\ UNCHANGED <<armed, stopEdge, confirmed, upward, acting>> /\ deadline # 0
        /\ deadline' = IF deadline > 0 THEN deadline - 1 ELSE deadline
    BY <1>13 DEF Elapses
  <2>2. Requested'
    BY <1>0, <2>1
  <2> QED
    BY <1>0, <1>00, <2>1, <2>2
<1> QED
  BY <1>1, <1>2, <1>3, <1>4, <1>5, <1>6, <1>7, <1>8, <1>9, <1>10, <1>11, <1>12, <1>13
     DEF CockpitNext

THEOREM SpecCockpitInv == CockpitSpec => []CockpitInv
  BY CockpitInitInv, CockpitNextInv, PTL DEF CockpitSpec

\* For every window, socket and stall: throttle drives only on a frame sent after
\* DRIVING had been read since the press.
THEOREM SpecThrottleIsConfirmed == CockpitSpec => []ThrottleIsConfirmed
<1>1. CockpitInv => ThrottleIsConfirmed
  BY DEF CockpitInv, ThrottleIsConfirmed
<1> QED
  BY <1>1, SpecCockpitInv, PTL

\* What a cockpit that has let go may still say: heartbeats, and frames that do
\* not assert arm.  Every frame of it ends the driving but a heartbeat.
Harmless == {f \in SureFrames : f = Beat \/ ~f.arm}

\* What is in the socket ends the driving, or nothing drives and nothing in it
\* can start it.
Released(frames, now) ==
    \/ now # "DRIVING" /\ \A i \in 1 .. Len(frames) : frames[i] \in Harmless
    \/ \E i \in 1 .. Len(frames) :
          /\ frames[i] # Beat
          /\ \A j \in i .. Len(frames) : frames[j] \in Harmless

\* Drive in the background has given up control, an open socket has a driver at
\* its far end, and where there is none there is nothing to come.
LetGoInv ==
    /\ CockpitInv
    /\ wd \in WD!WatchdogStates
    /\ ~onScreen => relinquished
    /\ socket = "open" => seat
    /\ ~seat => upward = <<>> /\ wd.state # "DRIVING"
    /\ relinquished /\ socket = "open" => Released(upward, wd.state)

LEMMA WdConstants ==
  /\ Window \in Nat \ {0} /\ Window + 1 \in Nat /\ Window + 1 > Window
  /\ 0 \in 0 .. Window /\ 0 \in 0 .. Window + 1 /\ Window \in 0 .. Window
  /\ 0 \in WD!NoFrame .. Window + 1 /\ WD!NoFrame \in WD!NoFrame .. Window + 1
  BY CockpitAssumption DEF WD!NoFrame

\* The watchdog's methods on its records; nothing but a press starts the
\* driving, and a frame that does not assert arm ends it.
LEMMA WdLatch ==
  ASSUME NEW w \in WD!WatchdogStates
  PROVE  WD!Latch(w) \in WD!WatchdogStates /\ WD!Latch(w).state # "DRIVING"
  BY DEF WD!Latch, WD!WatchdogStates, WD!SafetyStates

LEMMA WdFeed ==
  ASSUME NEW w \in WD!WatchdogStates
  PROVE  WD!Feed(w) \in WD!WatchdogStates /\ WD!Feed(w).state = w.state
  BY WdConstants DEF WD!Feed, WD!WatchdogStates

LEMMA WdLinkLost ==
  ASSUME NEW w \in WD!WatchdogStates
  PROVE  WD!LinkLost(w) \in WD!WatchdogStates /\ WD!LinkLost(w).state # "DRIVING"
<1> DEFINE forgot == [w EXCEPT !.prevArm = TRUE, !.gap = WD!NoFrame]
<1>1. forgot \in WD!WatchdogStates /\ forgot.state = w.state
  BY WdConstants DEF WD!WatchdogStates
<1> QED
  BY <1>1, WdLatch DEF WD!LinkLost

LEMMA WdAged ==
  ASSUME NEW w \in WD!WatchdogStates
  PROVE  WD!Aged(w) \in WD!WatchdogStates /\ WD!Aged(w).state = w.state
<1>1. \A a \in Nat : a <= Window + 1 => WD!Older(a) \in 0 .. Window + 1
  BY WdConstants DEF WD!Older
<1>2. w.fed \in 0 .. Window + 1 /\ w.gap \in WD!NoFrame .. Window + 1 /\ w.hold \in 0 .. Window
  BY DEF WD!WatchdogStates
<1> DEFINE f == WD!Older(w.fed)
           g == IF w.gap = WD!NoFrame THEN WD!NoFrame ELSE WD!Older(w.gap)
           h == IF w.hold > 0 THEN w.hold - 1 ELSE 0
<1>3. f \in 0 .. Window + 1 /\ g \in WD!NoFrame .. Window + 1 /\ h \in 0 .. Window
  BY <1>1, <1>2, WdConstants DEF WD!NoFrame
<1>4. WD!Aged(w) = [w EXCEPT !.fed = f, !.gap = g, !.hold = h]
  BY DEF WD!Aged
<1> HIDE DEF f, g, h
<1> QED
  BY <1>3, <1>4 DEF WD!WatchdogStates

LEMMA WdTaken ==
  ASSUME NEW w \in WD!WatchdogStates, NEW f \in Sent, NEW ready \in BOOLEAN
  PROVE  /\ WD!Taken(w, f, ready) \in WD!WatchdogStates
         /\ ~f.arm => WD!Taken(w, f, ready).state # "DRIVING"
<1>0. f.arm \in BOOLEAN /\ f.estop \in BOOLEAN /\ f.zero \in BOOLEAN
  BY DEF Sent
<1> DEFINE h == IF WD!Stalls(w) THEN Window ELSE w.hold
           fed == [w EXCEPT !.fed = 0, !.gap = 0, !.hold = h]
           j == WD!Judged(w)
           e == WD!Edged(j, f.arm)
           c == WD!Command(w, f.arm, f.estop, f.zero, ready)
<1>1. h \in 0 .. Window
  BY WdConstants DEF WD!WatchdogStates
<1>2. fed \in WD!WatchdogStates
  <2> HIDE DEF h
  <2> QED
    BY <1>1, WdConstants DEF WD!WatchdogStates
<1>3. j \in WD!WatchdogStates
  <2>1. j = IF WD!Stalls(w) /\ w.state = "DRIVING" THEN WD!Latch(fed) ELSE fed
    BY DEF WD!Judged
  <2> HIDE DEF fed, j
  <2> QED
    BY <1>2, <2>1, WdLatch
<1> HIDE DEF j
<1>4. e \in WD!WatchdogStates
  <2>1. e = [j EXCEPT !.prevArm = (f.arm \/ j.hold > 0)]
    BY DEF WD!Edged
  <2>2. (f.arm \/ j.hold > 0) \in BOOLEAN
    BY <1>0
  <2> HIDE DEF e
  <2> QED
    BY <1>3, <2>1, <2>2 DEF WD!WatchdogStates
<1>5. c \in WD!WatchdogStates
  <2>1. c = IF f.estop THEN WD!Latch(e)
            ELSE IF WD!Pressed(j, f.arm) /\ ready /\ f.zero THEN [e EXCEPT !.state = "DRIVING"] ELSE e
    BY DEF WD!Command, j
  <2>2. [e EXCEPT !.state = "DRIVING"] \in WD!WatchdogStates
    <3> HIDE DEF e
    <3> QED
      BY <1>4 DEF WD!WatchdogStates, WD!SafetyStates
  <2> HIDE DEF e, c
  <2> QED
    BY <1>4, <2>1, <2>2, WdLatch
<1> HIDE DEF c
<1>6. WD!Disarm(c) \in WD!WatchdogStates /\ WD!Disarm(c).state # "DRIVING"
  BY <1>5 DEF WD!Disarm, WD!WatchdogStates, WD!SafetyStates
<1>7. WD!Taken(w, f, ready) = IF f.arm /\ ready THEN c ELSE WD!Disarm(c)
  BY DEF WD!Taken, c
<1> QED
  BY <1>5, <1>6, <1>7

\* Harmless frames behind what was released leave it so; a frame without arm
\* behind anything releases it.
LEMMA StaysReleased ==
  ASSUME NEW frames \in Seq(SureFrames), NEW more \in Seq(Harmless), NEW now,
         Released(frames, now) \/ (more # <<>> /\ more[1] # Beat)
  PROVE  Released(frames \o more, now)
<1> DEFINE whole == frames \o more
<1>1. /\ Len(whole) = Len(frames) + Len(more) /\ Len(frames) \in Nat /\ Len(more) \in Nat
      /\ \A i \in 1 .. Len(frames) : whole[i] = frames[i]
      /\ \A i \in Len(frames) + 1 .. Len(whole) : whole[i] = more[i - Len(frames)]
  BY DEF Harmless
<1>2. \A i \in Len(frames) + 1 .. Len(whole) : whole[i] \in Harmless
  BY <1>1
<1>3. more # <<>> => whole[Len(frames) + 1] = more[1] /\ Len(whole) >= Len(frames) + 1
  BY <1>1
<1> HIDE DEF whole
<1>4. CASE more # <<>> /\ more[1] # Beat
  BY <1>1, <1>2, <1>3, <1>4 DEF Released, whole
<1>5. CASE now # "DRIVING" /\ \A i \in 1 .. Len(frames) : frames[i] \in Harmless
  <2>1. \A i \in 1 .. Len(whole) : whole[i] \in Harmless
    BY <1>1, <1>2, <1>5
  <2> QED
    BY <1>5, <2>1 DEF Released, whole
<1>6. ASSUME NEW i \in 1 .. Len(frames), frames[i] # Beat,
             \A j \in i .. Len(frames) : frames[j] \in Harmless
      PROVE  Released(frames \o more, now)
  <2>1. \A j \in i .. Len(whole) : whole[j] \in Harmless
    BY <1>1, <1>2, <1>6
  <2>2. i \in 1 .. Len(whole) /\ whole[i] # Beat
    BY <1>1, <1>6
  <2> QED
    BY <2>1, <2>2 DEF Released, whole
<1> QED
  BY <1>4, <1>5, <1>6 DEF Released

\* The vehicle takes the oldest frame.
LEMMA TakenReleased ==
  ASSUME NEW frames \in Seq(SureFrames), frames # <<>>, NEW now, NEW after,
         Released(frames, now),
         Head(frames) = Beat => after = now,
         Head(frames) \in Harmless \ {Beat} => after # "DRIVING"
  PROVE  Released(Tail(frames), after)
<1> DEFINE rest == Tail(frames)
<1>1. /\ Len(rest) = Len(frames) - 1 /\ Len(frames) \in Nat \ {0} /\ Head(frames) = frames[1]
      /\ \A i \in 1 .. Len(rest) : rest[i] = frames[i + 1]
  OBVIOUS
<1> HIDE DEF rest
<1>2. CASE now # "DRIVING" /\ \A i \in 1 .. Len(frames) : frames[i] \in Harmless
  <2>1. after # "DRIVING"
    BY <1>1, <1>2
  <2>2. \A i \in 1 .. Len(rest) : rest[i] \in Harmless
    BY <1>1, <1>2
  <2> QED
    BY <2>1, <2>2 DEF Released, rest
<1>3. ASSUME NEW i \in 1 .. Len(frames), frames[i] # Beat,
             \A j \in i .. Len(frames) : frames[j] \in Harmless
      PROVE  Released(rest, after)
  <2>1. CASE i = 1
    <3>1. after # "DRIVING"
      BY <1>1, <1>3, <2>1
    <3>2. \A k \in 1 .. Len(rest) : rest[k] \in Harmless
      BY <1>1, <1>3, <2>1
    <3> QED
      BY <3>1, <3>2 DEF Released
  <2>2. CASE i # 1
    <3>1. i - 1 \in 1 .. Len(rest) /\ rest[i - 1] # Beat
      BY <1>1, <1>3, <2>2
    <3>2. \A k \in i - 1 .. Len(rest) : rest[k] \in Harmless
      BY <1>1, <1>3, <2>2
    <3> QED
      BY <3>1, <3>2 DEF Released
  <2> QED
    BY <2>1, <2>2
<1> QED
  BY <1>2, <1>3 DEF Released, rest

LEMMA LetGoInitInv == CockpitInit => LetGoInv
<1> SUFFICES ASSUME CockpitInit PROVE LetGoInv
  OBVIOUS
<1>1. WD!NewWatchdog \in WD!WatchdogStates /\ WD!NewWatchdog.state = "STOPPED"
  BY WdConstants DEF WD!NewWatchdog, WD!WatchdogStates, WD!SafetyStates
<1> QED
  BY <1>1, CockpitInitInv DEF CockpitInit, LetGoInv

LEMMA LetGoNextInv == LetGoInv /\ [CockpitNext]_cockpit => LetGoInv'
<1> SUFFICES ASSUME LetGoInv, [CockpitNext]_cockpit PROVE LetGoInv'
  OBVIOUS
<1>0. /\ CockpitInv /\ CockpitInv' /\ stopEdge \in BOOLEAN
      /\ upward \in Seq(SureFrames) /\ upward' \in Seq(SureFrames)
  BY CockpitNextInv DEF LetGoInv, CockpitInv
<1>q. /\ Quiet \in Harmless /\ Quiet # Beat /\ Beat \in Harmless
      /\ Calm(FALSE, TRUE) \in Harmless /\ Calm(FALSE, TRUE) # Beat
  BY <1>0, CalmIsSure DEF Harmless, SureFrames, Quiet, Calm, Beat
<1>s. \A f, g, h \in Harmless :
         /\ <<>> \in Seq(Harmless) /\ <<f>> \in Seq(Harmless) /\ <<f, g>> \in Seq(Harmless)
         /\ <<f, g, h>> \in Seq(Harmless)
  OBVIOUS
\* What the page does: frames go out behind those in the socket.
<1>p. ASSUME UNCHANGED far, socket' \in {socket, "signed out"}, ~onScreen' => relinquished',
             NEW more \in Seq(Harmless), Out(more),
             relinquished' => relinquished \/ (more # <<>> /\ more[1] # Beat)
      PROVE  LetGoInv'
  <2>1. socket = "open" => upward' = upward \o more
    BY <1>p DEF Out
  <2>2. socket # "open" => upward' = upward
    BY <1>p DEF Out
  <2>3. relinquished' /\ socket = "open" => Released(upward', wd.state)
    <3> SUFFICES ASSUME relinquished', socket = "open" PROVE Released(upward', wd.state)
      OBVIOUS
    <3>1. Released(upward, wd.state) \/ (more # <<>> /\ more[1] # Beat)
      BY <1>0, <1>p DEF LetGoInv
    <3>2. Released(upward \o more, wd.state)
      BY <1>0, <1>p, <3>1, StaysReleased, ZenonT(40)
    <3> QED
      BY <2>1, <3>2
  <2> QED
    BY <1>0, <1>p, <2>2, <2>3 DEF LetGoInv, far
<1>1. CASE UNCHANGED cockpit
  BY <1>0, <1>1 DEF cockpit, LetGoInv
<1>2. CASE PressArm
  <2>1. CASE past
    BY <1>0, <1>2, <2>1 DEF PressArm, Out, LetGoInv, far
  <2>2. CASE ~past
    BY <1>0, <1>2, <2>2 DEF PressArm, LetGoInv, far
  <2> QED
    BY <2>1, <2>2
<1>3. CASE PressStop
  <2> DEFINE more == IF stopEdge THEN <<>> ELSE <<Calm(FALSE, TRUE)>>
  <2>1. more \in Seq(Harmless)
    BY <1>q, <1>s
  <2>2. Out(more) /\ UNCHANGED <<onScreen, socket, relinquished>> /\ UNCHANGED far
    BY <1>3 DEF PressStop
  <2> HIDE DEF more
  <2> QED
    BY <1>p, <2>1, <2>2 DEF LetGoInv
<1>4. CASE Leave \/ SignOut
  <2>1. <<Quiet>> \in Seq(Harmless) /\ <<Quiet>> # <<>> /\ <<Quiet>>[1] # Beat
    BY <1>q, <1>s
  <2>2. Out(<<Quiet>>) /\ socket' \in {socket, "signed out"} /\ relinquished' /\ UNCHANGED far
    BY <1>4 DEF Leave, SignOut, GiveUpControl, LastFrame, SayDisarmed
  <2> QED
    BY <1>p, <2>1, <2>2
<1>5. CASE PassConnect \/ ComeBack \/ Tick20Hz \/ HearVehicle \/ TellState
  <2>1. UNCHANGED <<socket, relinquished, upward, wd, seat>> /\ (onScreen' = onScreen \/ onScreen')
    BY <1>5 DEF PassConnect, ComeBack, Tick20Hz, HearVehicle, TellState, far, near
  <2> QED
    BY <1>0, <2>1 DEF LetGoInv
<1>6. CASE SocketOpens
  <2>1. upward' = <<>> /\ wd'.state # "DRIVING" /\ seat' /\ UNCHANGED <<wd, onScreen, relinquished>>
    BY <1>6 DEF SocketOpens, LetGoInv
  <2>2. Released(upward', wd'.state)
    BY <2>1 DEF Released
  <2> QED
    BY <1>0, <2>1, <2>2 DEF LetGoInv
<1>7. ASSUME NEW beat \in BOOLEAN, NEW neutral \in BOOLEAN, Interval(beat, neutral)
      PROVE  LetGoInv'
  <2>1. CASE relinquished
    <3>1. ~MayArm
      BY <2>1 DEF MayArm
    <3>2. Frame(MayArm, neutral) = Quiet
      BY <3>1 DEF Frame
    <3> DEFINE f == IF onScreen THEN <<Quiet>> ELSE <<>>
               b == IF beat THEN <<Beat>> ELSE <<>>
    <3>3. f \o b \in Seq(Harmless)
      <4>1. f \in Seq(Harmless) /\ b \in Seq(Harmless)
        BY <1>q, <1>s
      <4> HIDE DEF f, b
      <4> QED
        BY <4>1
    <3>4. Out(f \o b) /\ UNCHANGED <<onScreen, socket, relinquished>> /\ UNCHANGED far
      BY <1>7, <3>2 DEF Interval
    <3> HIDE DEF f, b
    <3> QED
      BY <1>p, <2>1, <3>3, <3>4 DEF LetGoInv
  <2>2. CASE ~relinquished
    <3>1. UNCHANGED <<onScreen, socket, relinquished, wd, seat>> /\ (socket # "open" => upward' = upward)
      BY <1>7 DEF Interval, Out, far
    <3> QED
      BY <1>0, <2>2, <3>1 DEF LetGoInv
  <2> QED
    BY <2>1, <2>2
<1>8. ASSUME NEW beat \in BOOLEAN, StaleInterval(beat) PROVE LetGoInv'
  <2> DEFINE f == IF onScreen /\ (fresh \/ ~relinquished) THEN <<Quiet>> ELSE <<>>
             g == IF onScreen THEN <<Quiet>> ELSE <<>>
             b == IF beat THEN <<Beat>> ELSE <<>>
             more == f \o g \o b
  <2>1. f \in Seq(Harmless) /\ g \in Seq(Harmless) /\ b \in Seq(Harmless)
    BY <1>q, <1>s
  <2>2. /\ f = <<>> \/ f = <<Quiet>>
        /\ b = <<>> \/ b = <<Beat>>
        /\ onScreen => g = <<Quiet>>
    OBVIOUS
  <2>3. Out(more) /\ UNCHANGED <<onScreen, socket>> /\ relinquished' /\ UNCHANGED far
    BY <1>8 DEF StaleInterval, GiveUpControl
  <2> HIDE DEF f, g, b
  <2>4. more \in Seq(Harmless)
    BY <2>1
  <2>5. onScreen => more # <<>> /\ more[1] = Quiet
    BY <2>2
  <2> HIDE DEF more
  <2>6. relinquished \/ onScreen
    BY DEF LetGoInv
  <2> QED
    BY <1>p, <1>q, <2>3, <2>4, <2>5, <2>6
<1>9. CASE SocketDies
  BY <1>0, <1>9 DEF SocketDies, LetGoInv, GiveUpControl, far
<1>10. CASE TakeFrame
  <2>1. /\ upward # <<>> /\ upward' = Tail(upward)
        /\ UNCHANGED <<onScreen, socket, relinquished, seat>>
    BY <1>10 DEF TakeFrame, near
  <2>2. Head(upward) \in SureFrames
    BY <1>0, <2>1
  <2>3. /\ wd' \in WD!WatchdogStates
        /\ Head(upward) = Beat => wd'.state = wd.state
        /\ Head(upward) \in Harmless \ {Beat} => wd'.state # "DRIVING"
    <3>1. CASE Head(upward) = Beat
      <4>1. wd' = WD!Feed(wd)
        BY <1>10, <3>1 DEF TakeFrame, Beat
      <4> QED
        BY <3>1, <4>1, WdFeed DEF LetGoInv
    <3>2. CASE Head(upward) # Beat
      <4>1. Head(upward) \in Sent /\ Head(upward).t # "hb"
        BY <2>2, <3>2 DEF SureFrames, Sent
      <4>2. PICK ready \in BOOLEAN : wd' = WD!Taken(wd, Head(upward), ready)
        BY <1>10, <4>1 DEF TakeFrame
      <4>3. Head(upward) \in Harmless => ~Head(upward).arm
        BY <3>2 DEF Harmless
      <4> QED
        BY <3>2, <4>1, <4>2, <4>3, WdTaken DEF LetGoInv
    <3> QED
      BY <3>1, <3>2
  <2>4. Released(upward, wd.state) => Released(upward', wd'.state)
    BY <1>0, <2>1, <2>3, TakenReleased
  <2> QED
    BY <1>0, <2>1, <2>3, <2>4 DEF LetGoInv
<1>11. CASE Polls
  <2>1. /\ wd' = WD!Latch(wd) /\ UNCHANGED <<onScreen, socket, relinquished, seat, upward>>
        /\ wd.state = "DRIVING"
    BY <1>11 DEF Polls, WD!Check, WD!Trips, near
  <2>2. wd' \in WD!WatchdogStates /\ wd'.state # "DRIVING"
    BY <2>1, WdLatch DEF LetGoInv
  <2>3. Released(upward, wd.state) => Released(upward', wd'.state)
    BY <2>1 DEF Released
  <2> QED
    BY <1>0, <2>1, <2>2, <2>3 DEF LetGoInv
<1>12. CASE SeesClose
  <2>1. /\ wd' = WD!LinkLost(wd) /\ upward = <<>> /\ socket # "open"
        /\ UNCHANGED <<onScreen, socket, relinquished, upward>>
    BY <1>12 DEF SeesClose, near
  <2>2. wd' \in WD!WatchdogStates /\ wd'.state # "DRIVING"
    BY <2>1, WdLinkLost DEF LetGoInv
  <2> QED
    BY <1>0, <2>1, <2>2 DEF LetGoInv
<1>13. CASE Elapses
  <2>1. wd' = WD!Aged(wd) /\ UNCHANGED <<onScreen, socket, relinquished, seat, upward>>
    BY <1>13 DEF Elapses
  <2>2. wd' \in WD!WatchdogStates /\ wd'.state = wd.state
    BY <2>1, WdAged DEF LetGoInv
  <2> QED
    BY <1>0, <2>1, <2>2 DEF LetGoInv
<1> QED
  BY <1>1, <1>2, <1>3, <1>4, <1>5, <1>6, <1>7, <1>8, <1>9, <1>10, <1>11, <1>12, <1>13
     DEF CockpitNext

\* Drive in the background has given up control, and whoever has given it up has
\* a released socket: the invariant of the next theorem.
THEOREM SpecLetGoInv == CockpitSpec => []LetGoInv
  BY LetGoInitInv, LetGoNextInv, PTL DEF CockpitSpec

\* However the control was given up, and whatever the socket still carried, held
\* back or lost: once the vehicle has read it, it does not drive until the next
\* press, for any window and any number of sockets that died.
THEOREM SpecGivenUpIsLetGo == CockpitSpec => []GivenUpIsLetGo
<1>1. LetGoInv => GivenUpIsLetGo
  <2> SUFFICES ASSUME LetGoInv, relinquished, upward = <<>>, socket = "open" \/ ~seat
               PROVE  wd.state # "DRIVING"
    BY DEF GivenUpIsLetGo
  <2> QED
    BY DEF LetGoInv, Released
<1> QED
  BY <1>1, SpecLetGoInv, PTL

\* What a page, its socket and a vehicle's readings hold.
PageTyped ==
    /\ onScreen \in BOOLEAN /\ past \in BOOLEAN /\ relinquished \in BOOLEAN /\ fresh \in BOOLEAN
    /\ socket \in {"closed", "open", "signed out"} /\ lost \in 0..MaxLost
    /\ heard \in 0..Window + 1 /\ reading \in WD!SafetyStates
    /\ fresh => socket = "open"
ReadingsTyped == downward \in Seq(WD!SafetyStates) /\ Len(downward) <= MaxDown
Pending == deadline # Settled => armed
SeatTyped == seat \in BOOLEAN /\ acting \in Sent

UpFits == Len(upward) <= MaxUp

LEMMA CockpitIsTyped ==
  LetGoInv => (CockpitOK <=> PageTyped /\ ReadingsTyped /\ Pending /\ SeatTyped /\ UpFits)
<1> SUFFICES ASSUME LetGoInv
             PROVE  CockpitOK <=> PageTyped /\ ReadingsTyped /\ Pending /\ SeatTyped /\ UpFits
  OBVIOUS
<1>1. /\ armed \in BOOLEAN /\ stopEdge \in BOOLEAN /\ confirmed \in BOOLEAN
      /\ deadline \in Settled .. Confirm /\ upward \in Seq(SureFrames) /\ wd \in WD!WatchdogStates
  BY DEF LetGoInv, CockpitInv
<1>2. upward \in Seq(Sent \cup {Beat})
  <2>1. SureFrames \subseteq Sent \cup {Beat}
    BY DEF SureFrames
  <2> QED
    BY <1>1, <2>1
<1> QED
  BY <1>1, <1>2 DEF CockpitOK, PageTyped, ReadingsTyped, Pending, SeatTyped, UpFits

LEMMA OutIsBounded ==
  ASSUME upward \in Seq(SureFrames), Len(upward) <= MaxUp, NEW frames \in Seq(SureFrames), Out(frames)
  PROVE  Len(upward') <= MaxUp
<1>1. Len(upward \o frames) = Len(upward) + Len(frames)
  OBVIOUS
<1> QED
  BY <1>1 DEF Out

LEMMA CalmIsSent == \A arm, estop \in BOOLEAN : Calm(arm, estop) \in Sent
  BY DEF Calm, Sent

\* The page, its socket and the vehicle's seat keep their types: telemetry is fresh on an
\* open socket only, and only a request waits for its window.
LEMMA CockpitInitOK == CockpitInit => CockpitOK
<1> SUFFICES ASSUME CockpitInit PROVE CockpitOK
  OBVIOUS
<1>1. MaxLost \in Nat /\ MaxUp \in Nat /\ MaxDown \in Nat /\ Window \in Nat
  BY CockpitAssumption
<1>2. PageTyped /\ Pending
  <2>1. 0 \in 0..MaxLost /\ 0 \in 0..Window + 1
    BY <1>1
  <2> QED
    BY <2>1 DEF CockpitInit, PageTyped, Pending, WD!SafetyStates
<1>3. upward = <<>> /\ downward = <<>> /\ Len(upward) = 0 /\ Len(downward) = 0
  BY DEF CockpitInit
<1>4. ReadingsTyped /\ UpFits
  BY <1>1, <1>3 DEF ReadingsTyped, UpFits
<1>5. SeatTyped
  BY CalmIsSent DEF CockpitInit, SeatTyped, Idle
<1> QED
  BY <1>2, <1>4, <1>5, LetGoInitInv, CockpitIsTyped

LEMMA CockpitNextOK ==
  ASSUME LetGoInv, CockpitOK, [CockpitNext]_cockpit
  PROVE  CockpitOK'
<1>0. /\ PageTyped /\ ReadingsTyped /\ Pending /\ SeatTyped /\ UpFits
      /\ upward \in Seq(SureFrames) /\ stopEdge \in BOOLEAN /\ wd \in WD!WatchdogStates
      /\ MaxLost \in Nat /\ MaxUp \in Nat /\ MaxDown \in Nat /\ Window \in Nat \ {0}
  BY CockpitIsTyped, CockpitAssumption DEF LetGoInv, CockpitInv
<1>00. LetGoInv' /\ CockpitInv
  BY LetGoNextInv DEF LetGoInv
<1>01. ASSUME PageTyped', ReadingsTyped', Pending', SeatTyped', UpFits' PROVE CockpitOK'
  <2>1. LetGoInv' => (CockpitOK' <=> PageTyped' /\ ReadingsTyped' /\ Pending' /\ SeatTyped' /\ UpFits')
    BY CockpitIsTyped, PTL
  <2> QED
    BY <1>00, <1>01, <2>1
<1>n. /\ 0 \in 0..Window + 1 /\ \A n \in 0..Window + 1 : n <= Window => n + 1 \in 0..Window + 1
      /\ \A n \in 0..MaxLost : n < MaxLost => n + 1 \in 0..MaxLost
  BY <1>0
<1>02. /\ UNCHANGED far => SeatTyped'
       /\ UNCHANGED downward => ReadingsTyped'
       /\ UNCHANGED request => Pending'
       /\ DropRequest => Pending'
       /\ UNCHANGED near => PageTyped'
       /\ UNCHANGED upward => UpFits'
  <2>1. UNCHANGED far => SeatTyped'
    BY <1>0 DEF far, SeatTyped
  <2>2. UNCHANGED downward => ReadingsTyped'
    BY <1>0 DEF ReadingsTyped
  <2>3. (UNCHANGED request => Pending') /\ (DropRequest => Pending')
    BY <1>0 DEF request, DropRequest, Pending
  <2>4. UNCHANGED near => PageTyped'
    <3> SUFFICES ASSUME UNCHANGED near PROVE PageTyped'
      OBVIOUS
    <3>1. UNCHANGED <<onScreen, past, socket, lost, relinquished, fresh, heard, reading>>
      BY DEF near
    <3> QED
      BY <1>0, <3>1 DEF PageTyped
  <2>5. UNCHANGED upward => UpFits'
    BY <1>0 DEF UpFits
  <2> QED
    BY <2>1, <2>2, <2>3, <2>4, <2>5
<1>03. SettleArm => Pending'
  BY <1>02 DEF SettleArm
<1>s. \A f \in SureFrames : <<>> \in Seq(SureFrames) /\ <<f>> \in Seq(SureFrames)
  OBVIOUS
<1>04. /\ Quiet \in SureFrames /\ Calm(TRUE, stopEdge) \in SureFrames
       /\ Calm(FALSE, TRUE) \in SureFrames /\ Beat \in SureFrames
  BY <1>0, CalmIsSure DEF SureFrames, Quiet
<1>05. ASSUME NEW frames \in Seq(SureFrames), Out(frames) PROVE UpFits'
  BY <1>0, <1>05, OutIsBounded DEF UpFits
<1>06. Idle \in Sent
  BY CalmIsSent DEF Idle
<1>1. CASE UNCHANGED cockpit
  BY <1>0, <1>01, <1>02, <1>1 DEF cockpit, far, request, near
<1>2. CASE PressArm
  <2>1. UpFits'
    <3>1. <<Calm(TRUE, stopEdge)>> \in Seq(SureFrames)
      BY <1>s, <1>04
    <3>2. Out(<<Calm(TRUE, stopEdge)>>) \/ UNCHANGED upward
      BY <1>2 DEF PressArm
    <3> QED
      BY <1>02, <1>05, <3>1, <3>2
  <2>2. PageTyped' /\ Pending'
    BY <1>0, <1>n, <1>2 DEF PressArm, PageTyped, Pending
  <2> QED
    BY <1>01, <1>02, <1>2, <2>1, <2>2 DEF PressArm
<1>3. CASE PressStop
  <2>1. UpFits'
    BY <1>s, <1>04, <1>05, <1>3 DEF PressStop
  <2>2. PageTyped'
    BY <1>0, <1>n, <1>3 DEF PressStop, PageTyped
  <2> QED
    BY <1>01, <1>02, <1>3, <2>1, <2>2 DEF PressStop
<1>4. CASE Leave \/ SignOut
  <2>1. UpFits'
    BY <1>s, <1>04, <1>05, <1>4 DEF Leave, SignOut, LastFrame, SayDisarmed
  <2>2. PageTyped'
    <3>1. CASE Leave
      BY <1>0, <3>1 DEF Leave, GiveUpControl, PageTyped
    <3>2. CASE SignOut
      BY <1>0, <1>n, <3>2 DEF SignOut, GiveUpControl, PageTyped
    <3> QED
      BY <1>4, <3>1, <3>2
  <2> QED
    BY <1>01, <1>02, <1>4, <2>1, <2>2 DEF Leave, SignOut, GiveUpControl
<1>5. CASE PassConnect \/ ComeBack \/ Tick20Hz
  <2>1. UNCHANGED <<upward, socket, lost, relinquished, fresh, heard, reading>>
        /\ onScreen' \in {onScreen, TRUE} /\ past' \in {past, TRUE}
    BY <1>5 DEF PassConnect, ComeBack, Tick20Hz
  <2>2. PageTyped'
    BY <1>0, <2>1 DEF PageTyped
  <2> QED
    BY <1>01, <1>02, <1>03, <1>5, <2>1, <2>2 DEF PassConnect, ComeBack, Tick20Hz
<1>6. CASE SocketOpens
  <2>1. UpFits' /\ PageTyped'
    BY <1>0, <1>n, <1>02, <1>6 DEF SocketOpens, PageTyped
  <2>2. SeatTyped'
    BY <1>0, <1>6 DEF SocketOpens, SeatTyped
  <2> QED
    BY <1>01, <1>02, <1>6, <2>1, <2>2 DEF SocketOpens
<1>7. CASE HearVehicle
  <2>1. Head(downward) \in WD!SafetyStates /\ ReadingsTyped'
    BY <1>0, <1>7 DEF HearVehicle, ReadingsTyped
  <2>2. PageTyped' /\ UpFits'
    BY <1>0, <1>n, <1>02, <1>7, <2>1 DEF HearVehicle, PageTyped
  <2>3. Pending'
    <3>1. \/ deadline' = Settled
          \/ DropRequest
          \/ UNCHANGED request
      BY <1>7 DEF HearVehicle
    <3> QED
      BY <1>02, <3>1 DEF Pending
  <2> QED
    BY <1>01, <1>02, <1>7, <2>1, <2>2, <2>3 DEF HearVehicle
<1>8. ASSUME NEW beat \in BOOLEAN, NEW neutral \in BOOLEAN, Interval(beat, neutral)
      PROVE  CockpitOK'
  <2> DEFINE f == IF onScreen THEN <<Frame(MayArm, neutral)>> ELSE <<>>
             b == IF beat THEN <<Beat>> ELSE <<>>
  <2>1. Frame(MayArm, neutral) \in SureFrames
    <3>1. MayArm \in BOOLEAN
      BY DEF MayArm
    <3> QED
      BY <1>00, <1>8, <3>1, FrameIsSure
  <2>2. f \in Seq(SureFrames) /\ b \in Seq(SureFrames)
    BY <1>s, <1>04, <2>1
  <2>3. Out(f \o b) /\ SettleArm /\ UNCHANGED far /\ UNCHANGED downward
    BY <1>8 DEF Interval
  <2> HIDE DEF f, b
  <2>4. UpFits'
    <3>1. f \o b \in Seq(SureFrames)
      BY <2>2
    <3> QED
      BY <1>05, <2>3, <3>1
  <2>5. PageTyped'
    BY <1>0, <1>n, <1>8 DEF Interval, PageTyped
  <2> QED
    BY <1>01, <1>02, <1>03, <2>3, <2>4, <2>5
<1>9. ASSUME NEW beat \in BOOLEAN, StaleInterval(beat) PROVE CockpitOK'
  <2> DEFINE f == IF onScreen /\ (fresh \/ ~relinquished) THEN <<Quiet>> ELSE <<>>
             g == IF onScreen THEN <<Quiet>> ELSE <<>>
             b == IF beat THEN <<Beat>> ELSE <<>>
  <2>1. f \in Seq(SureFrames) /\ g \in Seq(SureFrames) /\ b \in Seq(SureFrames)
    BY <1>s, <1>04
  <2>2. Out(f \o g \o b) /\ DropRequest /\ UNCHANGED far /\ UNCHANGED downward
    BY <1>9 DEF StaleInterval, GiveUpControl
  <2> HIDE DEF f, g, b
  <2>3. UpFits'
    <3>1. f \o g \o b \in Seq(SureFrames)
      BY <2>1
    <3> QED
      BY <1>05, <2>2, <3>1
  <2>4. PageTyped'
    BY <1>0, <1>n, <1>9 DEF StaleInterval, GiveUpControl, PageTyped
  <2> QED
    BY <1>01, <1>02, <2>2, <2>3, <2>4
<1>10. CASE SocketDies
  <2>1. UpFits'
    <3>1. PICK n \in 0..Len(upward) : upward' = SubSeq(upward, 1, n)
      BY <1>10 DEF SocketDies
    <3>2. Len(upward') = n
      BY <1>0, <3>1
    <3> QED
      BY <1>0, <3>2 DEF UpFits
  <2>2. PageTyped'
    BY <1>0, <1>n, <1>10 DEF SocketDies, GiveUpControl, PageTyped
  <2>3. ReadingsTyped'
    <3>1. downward' = <<>> /\ Len(downward') = 0
      BY <1>10 DEF SocketDies
    <3> QED
      BY <1>0, <3>1 DEF ReadingsTyped
  <2> QED
    BY <1>01, <1>02, <1>10, <2>1, <2>2, <2>3 DEF SocketDies, GiveUpControl
<1>11. CASE TakeFrame
  <2>1. /\ upward # <<>> /\ upward' = Tail(upward) /\ UNCHANGED <<downward, seat>>
        /\ UNCHANGED near /\ UNCHANGED request
        /\ \/ acting' = acting
           \/ Head(upward).t # "hb" /\ acting' \in {Head(upward), Idle}
    BY <1>11 DEF TakeFrame
  <2>2. Head(upward) \in SureFrames /\ UpFits'
    BY <1>0, <2>1 DEF UpFits
  <2>3. SeatTyped'
    BY <1>0, <1>06, <2>1, <2>2 DEF SureFrames, Beat, SeatTyped
  <2> QED
    BY <1>01, <1>02, <2>1, <2>2, <2>3
<1>12. CASE Polls \/ SeesClose
  <2>1. /\ UNCHANGED <<upward, downward>> /\ UNCHANGED near /\ UNCHANGED request
        /\ acting' = Idle /\ seat' \in {seat, FALSE}
    BY <1>12 DEF Polls, SeesClose
  <2>2. SeatTyped' /\ UpFits'
    BY <1>0, <1>02, <1>06, <2>1 DEF SeatTyped
  <2> QED
    BY <1>01, <1>02, <2>1, <2>2
<1>13. CASE TellState
  <2>1. wd.state \in WD!SafetyStates
    BY <1>0 DEF WD!WatchdogStates
  <2>2. ReadingsTyped'
    BY <1>0, <1>13, <2>1 DEF TellState, ReadingsTyped
  <2>3. UpFits'
    BY <1>02, <1>13 DEF TellState
  <2> QED
    BY <1>01, <1>02, <1>13, <2>2, <2>3 DEF TellState
<1>14. CASE Elapses
  <2>1. /\ UNCHANGED <<onScreen, past, socket, lost, relinquished, fresh, armed, reading,
                       upward, downward, acting, seat>>
        /\ heard' = IF socket = "open" /\ heard <= Window THEN heard + 1 ELSE heard
        /\ deadline' = IF deadline > 0 THEN deadline - 1 ELSE deadline
    BY <1>14 DEF Elapses
  <2>2. heard' \in 0..Window + 1
    <3>1. heard \in 0..Window + 1
      BY <1>0 DEF PageTyped
    <3> QED
      BY <1>n, <2>1, <3>1
  <2>3. PageTyped'
    BY <1>0, <2>1, <2>2 DEF PageTyped
  <2>4. Pending'
    BY <1>00, <1>0, <2>1 DEF Pending, CockpitInv, Settled
  <2>5. SeatTyped'
    BY <1>0, <2>1 DEF SeatTyped
  <2> QED
    BY <1>01, <1>02, <2>1, <2>3, <2>4, <2>5
<1> QED
  BY <1>1, <1>2, <1>3, <1>4, <1>5, <1>6, <1>7, <1>8, <1>9, <1>10, <1>11, <1>12, <1>13, <1>14
     DEF CockpitNext

------------------------------------------------------------------------------
(* Machine.                                                                   *)

Ages == 0 .. ForgetAfter + 1
Things == [class : {s.class : s \in Scripts} \cup {None}, at : Nat, age : Ages]

\* What memory and store may differ by, while a write is on its way.
Differ ==
    /\ owes \in {"nothing", "thing", "forget"} => home = homeRow
    /\ owes \in {"nothing", "home"} => things = rows
    /\ owes = "thing" => \A n \in Names \ about : things[n] = rows[n]
    /\ owes = "forget" => \A n \in Names : things[n] = IF n \in about THEN Gone ELSE rows[n]

\* A process that is not there owes nothing.
MachineInv ==
    /\ MachineOK
    /\ things \in [Names -> Things] /\ rows \in [Names -> Things]
    /\ life \in {"off", "refused"} => owes = "nothing"
    /\ life \notin {"off", "refused"} => Differ

LEMMA GoneIsThing == Gone \in Things
<1>1. ForgetAfter \in Nat
  BY MachineAssumption
<1>2. 0 \in Ages
  BY <1>1 DEF Ages
<1> QED
  BY <1>2 DEF Gone, Things

LEMMA OnTheGround == 0 \in Ground /\ Ground \subseteq Nat
<1>1. PICK last \in Ground : last \in Nat /\ Ground = 0 .. last
  BY MachineAssumption
<1> QED
  BY <1>1

\* A step towards another point of the line, or ahead where there is one, stays
\* on it.
LEMMA StepOnTheGround ==
  ASSUME NEW x \in Ground, NEW y \in Ground
  PROVE  Toward(x, y) \in Ground /\ Ahead(x) \in Ground
<1>1. PICK last \in Ground : last \in Nat /\ Ground = 0 .. last
  BY MachineAssumption
<1> QED
  BY <1>1 DEF Toward, Ahead

\* The identity a detection resolves to is one of those given out, or the next.
LEMMA NamedIsNext ==
  ASSUME NEW s \in Scripts, given \in Nat, MaxThings \in Nat, Named(s) <= MaxThings
  PROVE  Named(s) \in Names
<1> DEFINE known == {n \in Remembered(things) : Fits(s, n)}
<1>1. CASE known = {}
  <2>1. Named(s) = given + 1
    BY <1>1 DEF Named
  <2> QED
    BY <2>1 DEF Names
<1>2. CASE known # {}
  <2>2. known \in SUBSET Nat /\ known \subseteq Names /\ known # {}
    BY <1>2 DEF Remembered, Names
  <2> HIDE DEF known
  <2>8. PICK m \in known : \A k \in known : m <= k
    BY <2>2, LeastNat
  <2> USE DEF known
  <2>6. Named(s) = CHOOSE n \in known : \A k \in known : n <= k
    BY <1>2 DEF Named
  <2>7. Named(s) \in known
    <3>1. \E n \in known : \A k \in known : n <= k
      BY <2>8
    <3>2. (CHOOSE n \in known : \A k \in known : n <= k) \in known
      <4> HIDE DEF known
      <4> QED
        BY <3>1, Zenon
    <3> QED
      BY <2>6, <3>2
  <2> QED
    BY <2>2, <2>7
<1> QED
  BY <1>1, <1>2

\* Time changes equal tables equally and brings nothing forgotten back.
LEMMA OlderOf ==
  ASSUME NEW table \in [Names -> Things]
  PROVE  /\ Older(table) \in [Names -> Things]
         /\ \A n \in Names : table[n] = Gone => Older(table)[n] = Gone
         /\ \A other \in [Names -> Things] :
               \A n \in Names : table[n] = other[n] => Older(table)[n] = Older(other)[n]
<1>1. ForgetAfter \in Nat
  BY MachineAssumption
<1>2. \A n \in Names : table[n].age \in Ages /\ table[n] \in Things
  BY DEF Things
<1>3. \A n \in Names : table[n].age <= ForgetAfter => [table[n] EXCEPT !.age = @ + 1] \in Things
  <2> SUFFICES ASSUME NEW n \in Names, table[n].age <= ForgetAfter
               PROVE  [table[n] EXCEPT !.age = @ + 1] \in Things
    OBVIOUS
  <2>1. table[n].age + 1 \in Ages
    BY <1>1, <1>2 DEF Ages
  <2> QED
    BY <2>1, <1>2 DEF Things
<1>4. Older(table) \in [Names -> Things]
  BY <1>2, <1>3 DEF Older
<1>5. \A n \in Names : table[n] = Gone => Older(table)[n] = Gone
  BY DEF Older
<1>6. ASSUME NEW other \in [Names -> Things], NEW n \in Names, table[n] = other[n]
      PROVE  Older(table)[n] = Older(other)[n]
  BY <1>6 DEF Older
<1> QED
  BY <1>4, <1>5, <1>6

LEMMA MachineInitInv == MachineInit => MachineInv
<1> SUFFICES ASSUME MachineInit PROVE MachineInv
  OBVIOUS
<1>1. MaxThings \in Nat /\ ForgetAfter \in Nat /\ MaxCutsOff \in Nat
  BY MachineAssumption
<1>2. 0 \in 0 .. MaxThings /\ 0 \in 0 .. ForgetAfter + 1 /\ 0 \in 0 .. MaxCutsOff
  BY <1>1
<1>3. things \in [Names -> Things] /\ rows \in [Names -> Things]
  BY GoneIsThing DEF MachineInit
<1>4. \A n \in Names : things[n].age \in 0 .. ForgetAfter + 1 /\ rows[n].age \in 0 .. ForgetAfter + 1
  BY <1>2 DEF MachineInit, Gone
<1>5. route \in Seq(Ground) /\ shots \in [Scripts -> Nat]
  BY DEF MachineInit
<1>6. MachineOK
  BY <1>2, <1>4, <1>5, OnTheGround, Zenon DEF MachineInit, MachineOK
<1> QED
  BY <1>3, <1>6 DEF MachineInit, MachineInv

\* Types of one step, from its parts.
LEMMA MachineNextInv == MachineInv /\ [MachineNext]_machineVars => MachineInv'
<1> SUFFICES ASSUME MachineInv, [MachineNext]_machineVars PROVE MachineInv'
  OBVIOUS
<1> USE DEF MachineInv
<1>n. MaxThings \in Nat /\ ForgetAfter \in Nat /\ MaxCutsOff \in Nat /\ given \in Nat
  BY MachineAssumption DEF MachineOK
<1>z. 0 \in 0 .. MaxThings /\ 0 \in 0 .. ForgetAfter + 1 /\ 0 \in 0 .. MaxCutsOff
  BY <1>n
<1>a. \A t \in [Names -> Things] : \A n \in Names : t[n].age \in 0 .. ForgetAfter + 1
  BY DEF Things, Ages
<1>g. [n \in Names |-> Gone] \in [Names -> Things]
  BY GoneIsThing
<1>1. CASE BootMachine
  BY <1>1, <1>a DEF BootMachine, Recover, MachineOK, Differ, motion
<1>2. CASE StartFails
  BY <1>2 DEF StartFails, MachineOK, Differ, motion, memory
<1>3. CASE TakeHome
  BY <1>3, OnTheGround DEF TakeHome, Turning, SetHome, MachineOK, Differ, motion
<1>4. CASE WriteThrough
  <2>1. homeRow' \in Ground \cup {None} /\ rows' \in [Names -> Things]
    BY <1>4, GoneIsThing DEF WriteThrough, SaveHome, SaveThings, ForgetRows, RowsWithout, MachineOK
  <2>2. MachineOK'
    BY <1>4, <1>a, <2>1 DEF WriteThrough, MachineOK, motion
  <2>3. life \notin {"off", "refused"} => home' = homeRow' /\ things' = rows'
    BY <1>4 DEF WriteThrough, SaveHome, SaveThings, ForgetRows, RowsWithout, MachineOK, Differ
  <2> QED
    BY <1>4, <2>1, <2>2, <2>3 DEF WriteThrough, Differ
<1>5. CASE StepOn
  <2> DEFINE now == IF ~Moves THEN place ELSE IF goal = None THEN Ahead(place) ELSE Toward(place, goal)
             there == route # <<>> /\ now = Head(route)
  <2>1. place \in Ground /\ goal \in Ground \cup {None} /\ route \in Seq(Ground) /\ speed \in {0, 1}
    BY DEF MachineOK
  <2>2. now \in Ground
    BY <2>1, StepOnTheGround
  <2>3. there => Tail(route) \in Seq(Ground)
    BY <2>1
  <2>4. there /\ Len(route) > 1 => route[2] \in Ground
    BY <2>1
  <2>5. /\ place' = now
        /\ route' = IF there THEN Tail(route) ELSE route
        /\ IF there /\ Len(route) > 1 THEN goal' = route[2] /\ speed' = 1
           ELSE IF there \/ (Moves /\ goal = now) THEN goal' = None /\ speed' = 0
           ELSE UNCHANGED <<goal, speed>>
    BY <1>5 DEF StepOn
  <2> HIDE DEF now, there
  <2>6. place' \in Ground /\ route' \in Seq(Ground) /\ goal' \in Ground \cup {None} /\ speed' \in {0, 1}
    BY <2>1, <2>2, <2>3, <2>4, <2>5
  <2> QED
    BY <1>5, <2>6 DEF StepOn, Turning, MachineOK, Differ, memory
<1>6. CASE Forget
  BY <1>6, GoneIsThing, <1>a DEF Forget, Turning, Forgettable, Remembered, MachineOK, Differ, motion
<1>7. CASE SenseDone
  BY <1>7 DEF SenseDone, Turning, MachineOK, Differ, motion, memory
<1>8. CASE Report
  BY <1>8 DEF Report, Turning, MachineOK, Differ, motion, memory
<1>9. CASE TimeGoesBy
  BY <1>9, <1>a, OlderOf DEF TimeGoesBy, MachineOK, Differ, motion
<1>10. CASE Signal \/ Finally
  BY <1>10 DEF Signal, Finally, StopAll, MachineOK, Differ, memory
<1>11. CASE PowerCut
  <2>1. cutsOff' \in 0 .. MaxCutsOff
    BY <1>11, <1>n DEF PowerCut, MachineOK
  <2>2. things' \in [Names -> Things] /\ rows' \in [Names -> Things]
    BY <1>11, <1>g DEF PowerCut
  <2>3. route' \in Seq(Ground)
    BY <1>11 DEF PowerCut
  <2>4. MachineOK'
    BY <1>11, <1>a, <2>1, <2>2, <2>3, OnTheGround DEF PowerCut, MachineOK
  <2> QED
    BY <1>11, <2>2, <2>4 DEF PowerCut
<1>12. ASSUME NEW d \in DriversOf(body), StartDriver(d) PROVE MachineInv'
  BY <1>12 DEF StartDriver, MachineOK, Differ, motion, memory
<1>13. ASSUME NEW x \in Ground, NEW y \in Ground, Follow(<<x, y>>) PROVE MachineInv'
  BY <1>13 DEF Follow, Turning, MachineOK, Differ, memory
<1>14. ASSUME NEW v \in {0, 1}, SetVelocity(v) PROVE MachineInv'
  BY <1>14 DEF SetVelocity, Turning, MachineOK, Differ, memory
<1>15. ASSUME NEW s \in Scripts, Sense(s) PROVE MachineInv'
  <2> DEFINE k == Named(s)
             seen == [class |-> s.class, at |-> place + s.off, age |-> 0]
  <2>1. k \in Names
    BY <1>15, <1>n, NamedIsNext DEF Sense
  <2>2. place \in Nat /\ s.off \in Nat /\ 0 \in Ages
    BY <1>z, MachineAssumption, OnTheGround DEF MachineOK, Ages
  <2>3. seen \in Things
    BY <2>2 DEF Things
  <2>4. /\ owes = "nothing" /\ life = "looping" /\ life' = life
        /\ things' = [things EXCEPT ![k] = seen] /\ rows' = rows
        /\ home' = home /\ homeRow' = homeRow
        /\ owes' = "thing" /\ about' = {k}
        /\ shots' = [shots EXCEPT ![s] = @ + 1]
        /\ given' = IF k > given THEN given + 1 ELSE given
        /\ k <= MaxThings
    BY <1>15 DEF Sense, Turning, Save
  <2>5. UNCHANGED <<body, running, turn, asked, shown, cutsOff, place, speed, goal, route>>
    BY <1>15 DEF Sense, motion
  <2> HIDE DEF k, seen
  <2>6. things' \in [Names -> Things] /\ rows' \in [Names -> Things]
    BY <2>3, <2>4
  <2>7. given' \in 0 .. MaxThings /\ shots' \in [Scripts -> Nat]
    BY <2>1, <2>4, <1>n DEF MachineOK, Names
  <2>8. MachineOK'
    BY <2>1, <2>4, <2>5, <2>6, <2>7, <1>a DEF MachineOK
  <2>9. Differ'
    BY <2>1, <2>4 DEF Differ
  <2> QED
    BY <2>4, <2>6, <2>8, <2>9
<1>16. CASE UNCHANGED machineVars
  BY <1>16 DEF machineVars, MachineOK, Differ
<1> QED
  BY <1>1, <1>2, <1>3, <1>4, <1>5, <1>6, <1>7, <1>8, <1>9, <1>10, <1>11, <1>12, <1>13, <1>14, <1>15, <1>16
     DEF MachineNext

\* The machine's memory and store keep their types, and differ by no more than
\* the write in progress: every change in memory is followed by its row before
\* the loop goes on, and a new process takes up exactly the rows.
THEOREM SpecMachineInv == MachineSpec => []MachineInv
<1> QED
  BY MachineInitInv, MachineNextInv, PTL DEF MachineSpec

\* Between writes memory and store agree, for any manifests, scripts, identities
\* and number of power cuts (worldslice.py home, _save, _forget, _recover).
THEOREM SpecStoreIsTheTruth == MachineSpec => []StoreIsTheTruth
<1>1. MachineInv => StoreIsTheTruth
  BY DEF MachineInv, Differ, StoreIsTheTruth
<1> QED
  BY SpecMachineInv, <1>1, PTL

------------------------------------------------------------------------------
(* FleetVehicle.                                                              *)

LEMMA RoundsExist ==
  ASSUME NEW r, NEW k \in Nat
  PROVE  \E f : f = [n \in 0..k |-> IF n = 0 THEN <<>> ELSE f[n - 1] \o r]
<1> DEFINE Good(n, f) == f = [i \in 0..n |-> IF i = 0 THEN <<>> ELSE f[i - 1] \o r]
           bad == {n \in Nat : ~ \E f : Good(n, f)}
<1>1. SUFFICES ASSUME bad # {} PROVE FALSE
  OBVIOUS
<1>0. bad \in SUBSET Nat /\ \A n \in Nat : n \in bad <=> ~ \E f : Good(n, f)
  OBVIOUS
<1> HIDE DEF bad
<1>2. PICK n \in bad : \A m \in bad : n <= m
  BY <1>0, <1>1, LeastNat
<1>3. n \in Nat /\ ~ \E f : Good(n, f)
  BY <1>0, <1>2
<1>4. CASE n = 0
  <2> DEFINE f == [i \in 0..0 |-> <<>>]
  <2>1. Good(0, f)
    OBVIOUS
  <2> QED
    BY <1>3, <1>4, <2>1
<1>5. CASE n # 0
  <2>0. n - 1 \in Nat /\ ~ (n <= n - 1)
    BY <1>3, <1>5
  <2>1. n - 1 \in Nat /\ n - 1 \notin bad
    BY <1>2, <2>0
  <2>2. PICK f : Good(n - 1, f)
    BY <1>0, <2>1
  <2> DEFINE g == [i \in 0..n |-> IF i < n THEN f[i] ELSE f[n - 1] \o r]
  <2>3. ASSUME NEW i \in 0..n PROVE g[i] = IF i = 0 THEN <<>> ELSE g[i - 1] \o r
    <3>1. CASE i < n
      <4>1. i \in 0..n - 1
        BY <3>1, <1>3
      <4>2. f[i] = IF i = 0 THEN <<>> ELSE f[i - 1] \o r
        BY <2>2, <4>1
      <4>3. i # 0 => i - 1 \in 0..n /\ i - 1 < n
        BY <3>1, <1>3
      <4> QED
        BY <3>1, <4>2, <4>3
    <3>2. CASE ~(i < n)
      <4>1. i = n /\ n - 1 \in 0..n /\ n - 1 < n
        BY <3>2, <1>3, <2>1
      <4> QED
        BY <4>1, <1>5
    <3> QED
      BY <3>1, <3>2
  <2>4. Good(n, g)
    <3> HIDE DEF g
    <3>1. g = [i \in 0..n |-> g[i]]
      BY DEF g
    <3> QED
      BY <2>3, <3>1
  <2> QED
    BY <1>3, <2>4
<1> QED
  BY <1>4, <1>5

LEMMA RoundsUnfold ==
  ASSUME NEW j \in Jobs
  PROVE  /\ LapsOf(j) \in Nat \ {0} /\ Rounds(j)[0] = <<>>
         /\ \A n \in 1..LapsOf(j) : Rounds(j)[n] = Rounds(j)[n - 1] \o RouteOf(j)
<1>1. LapsOf(j) \in Nat \ {0}
  BY FleetAssumption DEF LapsOf
<1> DEFINE k == LapsOf(j)
           r == RouteOf(j)
           upTo[n \in 0..k] == IF n = 0 THEN <<>> ELSE upTo[n - 1] \o r
<1>2. \E f : f = [n \in 0..k |-> IF n = 0 THEN <<>> ELSE f[n - 1] \o r]
  BY <1>1, RoundsExist
<1>3. upTo = [n \in 0..k |-> IF n = 0 THEN <<>> ELSE upTo[n - 1] \o r]
  BY <1>2, Zenon
<1>4. Rounds(j) = upTo
  BY DEF Rounds
<1> HIDE DEF upTo
<1>5. upTo[0] = <<>>
  BY <1>1, <1>3
<1>6. ASSUME NEW n \in 1..k PROVE upTo[n] = upTo[n - 1] \o r
  <2>1. n \in 0..k /\ n # 0
    BY <1>1
  <2> QED
    BY <1>3, <2>1
<1> QED
  BY <1>1, <1>4, <1>5, <1>6

LEMMA CoveredExists ==
  ASSUME NEW p, NEW k \in Nat
  PROVE  \E f : f = [i \in 1..k |-> IF i = 1 THEN 0 ELSE f[i - 1] + Far(p[i - 1], p[i])]
<1> DEFINE Good(n, f) == f = [i \in 1..n |-> IF i = 1 THEN 0 ELSE f[i - 1] + Far(p[i - 1], p[i])]
           bad == {n \in Nat : ~ \E f : Good(n, f)}
<1>0. bad \in SUBSET Nat /\ \A n \in Nat : n \in bad <=> ~ \E f : Good(n, f)
  OBVIOUS
<1> HIDE DEF bad
<1>1. SUFFICES ASSUME bad # {} PROVE FALSE
  <2>1. k \notin bad => \E f : Good(k, f)
    BY <1>0, Zenon
  <2> QED
    BY <2>1
<1>2. PICK n \in bad : \A m \in bad : n <= m
  BY <1>0, <1>1, LeastNat
<1>3. n \in Nat /\ ~ \E f : Good(n, f)
  BY <1>0, <1>2
<1>4. CASE n \in {0, 1}
  <2> DEFINE f == [i \in 1..n |-> 0]
  <2>1. Good(n, f)
    BY <1>4
  <2> QED
    BY <1>3, <2>1
<1>5. CASE n \notin {0, 1}
  <2>0. n - 1 \in Nat \ {0} /\ ~ (n <= n - 1)
    BY <1>3, <1>5
  <2>1. n - 1 \in Nat \ {0} /\ n - 1 \notin bad
    BY <1>2, <2>0
  <2>2. PICK f : Good(n - 1, f)
    BY <1>0, <2>1
  <2> DEFINE g == [i \in 1..n |-> IF i < n THEN f[i] ELSE f[n - 1] + Far(p[n - 1], p[n])]
  <2>3. ASSUME NEW i \in 1..n PROVE g[i] = IF i = 1 THEN 0 ELSE g[i - 1] + Far(p[i - 1], p[i])
    <3>1. CASE i < n
      <4>1. i \in 1..n - 1
        BY <3>1, <1>3
      <4>2. f[i] = IF i = 1 THEN 0 ELSE f[i - 1] + Far(p[i - 1], p[i])
        BY <2>2, <4>1
      <4>3. i # 1 => i - 1 \in 1..n /\ i - 1 < n
        BY <3>1, <1>3
      <4> QED
        BY <3>1, <4>2, <4>3
    <3>2. CASE ~(i < n)
      <4>1. i = n /\ n - 1 \in 1..n /\ n - 1 < n
        BY <3>2, <1>3, <2>1
      <4> QED
        BY <4>1, <1>5
    <3> QED
      BY <3>1, <3>2
  <2>4. Good(n, g)
    <3> HIDE DEF g
    <3>1. g = [i \in 1..n |-> g[i]]
      BY DEF g
    <3> QED
      BY <2>3, <3>1
  <2> QED
    BY <1>3, <2>4
<1> QED
  BY <1>4, <1>5

LEMMA LengthIsNat ==
  ASSUME NEW from \in Points, NEW path \in Seq(Points)
  PROVE  Length(from, path) \in Nat
<1> DEFINE p == <<from>> \o path
           k == Len(p)
           sum[i \in 1..k] == IF i = 1 THEN 0 ELSE sum[i - 1] + Far(p[i - 1], p[i])
<1>1. p \in Seq(Points) /\ k = Len(path) + 1 /\ k \in Nat \ {0}
  OBVIOUS
<1>2. \A i \in 1..k : p[i] \in Nat
  BY <1>1, FleetAssumption DEF Points
<1> HIDE DEF p
<1>3. \E f : f = [i \in 1..k |-> IF i = 1 THEN 0 ELSE f[i - 1] + Far(p[i - 1], p[i])]
  BY <1>1, CoveredExists
<1>4. sum = [i \in 1..k |-> IF i = 1 THEN 0 ELSE sum[i - 1] + Far(p[i - 1], p[i])]
  BY <1>3, Zenon
<1>5. Length(from, path) = sum[k]
  BY <1>1 DEF Length, Covered, p
<1> HIDE DEF sum, k
<1> DEFINE bad == {i \in 1..k : sum[i] \notin Nat}
<1>6. SUFFICES ASSUME bad # {} PROVE FALSE
  BY <1>1, <1>5
<1>0. bad \in SUBSET Nat /\ bad \in SUBSET (1..k) /\ \A i \in 1..k : i \in bad <=> sum[i] \notin Nat
  OBVIOUS
<1> HIDE DEF bad
<1>7. PICK i \in bad : \A m \in bad : i <= m
  BY <1>0, <1>6, LeastNat
<1>8. i \in 1..k /\ sum[i] \notin Nat
  BY <1>0, <1>7
<1>9. sum[i] = IF i = 1 THEN 0 ELSE sum[i - 1] + Far(p[i - 1], p[i])
  BY <1>4, <1>8
<1>10. i # 1 /\ i - 1 \in 1..k /\ ~ (i <= i - 1)
  BY <1>1, <1>8, <1>9
<1>12. i - 1 \notin bad
  BY <1>7, <1>10
<1>11. sum[i - 1] \in Nat /\ Far(p[i - 1], p[i]) \in Nat
  BY <1>0, <1>2, <1>8, <1>10, <1>12 DEF Far
<1> QED
  BY <1>8, <1>9, <1>10, <1>11

LEMMA RouteIsPath ==
  ASSUME NEW j \in Jobs, ~NoRoute(j)
  PROVE  RouteOf(j) \in Seq(Points)
<1>1. Waypoints[j] \in Seq(Points) /\ 0 \in Points
  BY FleetAssumption DEF Points
<1>2. CASE JobType[j] = "patrol"
  <2>1. Waypoints[j] # <<>>
    BY <1>2 DEF NoRoute
  <2>2. Waypoints[j][1] \in Points
    BY <1>1, <2>1
  <2> QED
    BY <1>1, <1>2, <2>2 DEF RouteOf
<1> QED
  BY <1>1, <1>2 DEF RouteOf

\* Progress, in quanta.
LEMMA ProgressFits ==
  ASSUME NEW d \in Nat, NEW q \in Nat, NEW t \in Nat, d < t
  PROVE  (d * q) \div t \in 0..q
<1> DEFINE k == (d * q) \div t
           m == (d * q) % t
<1>1. d * q \in Nat
  OBVIOUS
<1>2. k \in Nat /\ m \in 0..t - 1 /\ d * q = t * k + m
  BY <1>1
<1>3. d * q <= t * q
  OBVIOUS
<1> HIDE DEF k, m
<1>4. k <= q
  <2> SUFFICES ASSUME k >= q + 1 PROVE FALSE
    BY <1>2
  <2>1. t * k >= t * (q + 1)
    BY <1>2
  <2> QED
    BY <1>2, <1>3, <2>1
<1> QED
  BY <1>2, <1>4 DEF k

\* An order under way is on its route, with so many laps and stops of it behind.
FleetInv ==
    /\ FleetOK
    /\ stops # <<>> =>
        /\ job \in Jobs /\ ~NoRoute(job) /\ stops = RouteOf(job)
        /\ leg \in 1..Len(stops) /\ lapsLeft \in 1..LapsOf(job)
        /\ passed = Rounds(job)[LapsOf(job) - lapsLeft] \o SubSeq(stops, 1, leg - 1)

LEMMA RoundsAreStops ==
  ASSUME NEW j \in Jobs, NEW n \in 0..LapsOf(j), RouteOf(j) \in Seq(Points)
  PROVE  Rounds(j)[n] \in Seq(Points)
<1> DEFINE k == LapsOf(j)
           upTo == Rounds(j)
           r == RouteOf(j)
           bad == {i \in 0..k : upTo[i] \notin Seq(Points)}
<1>1. /\ k \in Nat /\ upTo[0] = <<>> /\ r \in Seq(Points)
      /\ \A i \in 1..k : upTo[i] = upTo[i - 1] \o r
  BY RoundsUnfold
<1> HIDE DEF k, upTo, r
<1>2. SUFFICES ASSUME bad # {} PROVE FALSE
  BY DEF k, upTo
<1>3. bad \in SUBSET Nat /\ bad \in SUBSET (0..k) /\ \A i \in 0..k : i \in bad <=> upTo[i] \notin Seq(Points)
  BY <1>1
<1> HIDE DEF bad
<1>4. PICK i \in bad : \A m \in bad : i <= m
  BY <1>2, <1>3, LeastNat
<1>5. i \in 0..k /\ upTo[i] \notin Seq(Points)
  BY <1>3, <1>4
<1>6. i # 0
  <2>1. upTo[0] \in Seq(Points)
    BY <1>1
  <2> QED
    BY <1>5, <2>1
<1>7. i \in 1..k /\ i - 1 \in 0..k /\ ~ (i <= i - 1)
  BY <1>1, <1>5, <1>6
<1>8. i - 1 \notin bad
  BY <1>4, <1>7
<1>9. upTo[i - 1] \in Seq(Points) /\ upTo[i] = upTo[i - 1] \o r
  BY <1>1, <1>3, <1>7, <1>8
<1> QED
  BY <1>1, <1>5, <1>9

LEMMA FleetStart == FleetInit => FleetInv
<1> SUFFICES ASSUME FleetInit PROVE FleetInv
  OBVIOUS
<1>1. tolds \in [Jobs -> Tellings]
  BY DEF FleetInit, Tellings
<1>2. spot \in Points /\ messages \in 0..MaxMessages /\ lastTold \in 0..Quanta + 1
  BY FleetAssumption DEF FleetInit, Points
<1>3. waiting \in Seq(Jobs \X {"do", "cancel"}) /\ stops \in Seq(Points) /\ passed \in Seq(Points)
  <2>1. \A S : <<>> \in Seq(S)
    OBVIOUS
  <2> QED
    BY <2>1 DEF FleetInit
<1>4. stops = <<>> /\ leg \in 1..Len(stops) + 1
  BY DEF FleetInit
<1>5. lapsLeft \in Nat /\ {total, driven} \subseteq Nat
  BY DEF FleetInit
<1>7. looking \in BOOLEAN /\ rolling \in BOOLEAN
  BY DEF FleetInit
<1>6. job \in Jobs \cup {NoJob} /\ condition \in {"standby", "active"}
  BY Zenon DEF FleetInit
<1> QED
  BY <1>1, <1>2, <1>3, <1>4, <1>5, <1>6, <1>7 DEF FleetInv, FleetOK

\* An order that ends.
LEMMA JobEnds ==
  ASSUME FleetInv, NEW as \in Tellings, EndJob(as), job \in Jobs
  PROVE  /\ tolds' \in [Jobs -> Tellings] /\ job' \in Jobs \cup {NoJob}
         /\ stops' = <<>> /\ stops' \in Seq(Points) /\ leg' \in 1..Len(stops') + 1
         /\ rolling' \in BOOLEAN /\ lastTold' \in 0..Quanta + 1 /\ condition' \in {"standby", "active"}
<1>1. tolds \in [Jobs -> Tellings]
  BY DEF FleetInv, FleetOK
<1>2. tolds' \in [Jobs -> Tellings]
  BY <1>1 DEF EndJob
<1>3. lastTold' = 0 /\ 0 \in 0..Quanta + 1
  BY FleetAssumption DEF EndJob
<1>4. stops' = <<>> /\ stops' \in Seq(Points) /\ leg' \in 1..Len(stops') + 1
  BY DEF EndJob
<1> QED
  BY <1>2, <1>3, <1>4 DEF EndJob

\* What a reached stop adds.
LEMMA ReachAdds ==
  ASSUME NEW S, NEW path \in Seq(S), NEW l \in 1..Len(path), NEW before \in Seq(S)
  PROVE  /\ Append(before \o SubSeq(path, 1, l - 1), path[l]) = before \o SubSeq(path, 1, l)
         /\ SubSeq(path, 1, Len(path)) = path
<1> DEFINE a == SubSeq(path, 1, l - 1)
           b == SubSeq(path, 1, l)
           left == Append(before \o a, path[l])
           right == before \o b
<1>0. l \in Nat \ {0} /\ l <= Len(path) /\ Len(path) \in Nat /\ l - 1 \in Nat
  OBVIOUS
<1>1. /\ a \in Seq(S) /\ Len(a) = l - 1 /\ \A i \in 1..l - 1 : a[i] = path[i]
  BY <1>0
<1>2. b \in Seq(S) /\ Len(b) = l /\ \A i \in 1..l : b[i] = path[i]
  BY <1>0
<1>3. path[l] \in S
  BY <1>0
<1> HIDE DEF a, b
<1> DEFINE m == Len(before)
           mid == before \o a
<1>9. m \in Nat /\ mid \in Seq(S)
  BY <1>1
<1>15. right \in Seq(S) /\ Len(right) = m + l
  BY <1>0, <1>2
<1>10. Len(mid) = m + l - 1
  <2>1. Len(mid) = m + Len(a)
    BY <1>1, ConcatProperties
  <2> QED
    BY <1>0, <1>1, <1>9, <2>1
<1>11. /\ \A i \in 1..m : mid[i] = before[i] /\ right[i] = before[i]
       /\ \A i \in 1..l : right[m + i] = b[i]
  <2>1. \A i \in 1..m : mid[i] = before[i]
    BY <1>1
  <2>2. \A i \in 1..m : right[i] = before[i]
    BY <1>2
  <2>3. ASSUME NEW i \in 1..l PROVE right[m + i] = b[i]
    BY <1>0, <1>2
  <2> QED
    BY <2>1, <2>2, <2>3
<1>12. \A i \in 1..l - 1 : mid[m + i] = a[i]
  BY <1>0, <1>1
<1>13. left = Append(mid, path[l])
  OBVIOUS
<1> HIDE DEF mid
<1>4. left \in Seq(S)
  BY <1>3, <1>9, <1>13
<1>14. /\ Len(left) = m + l /\ left[m + l] = path[l]
       /\ \A i \in 1..m + l - 1 : left[i] = mid[i]
  BY <1>0, <1>3, <1>9, <1>10, <1>13
<1> HIDE DEF left, right, m
<1>5. ASSUME NEW i \in 1..Len(left) PROVE left[i] = right[i]
  <2>0. i \in 1..m + l
    BY <1>14
  <2>2. CASE i <= m
    <3>1. i \in 1..m /\ i \in 1..m + l - 1
      BY <1>0, <1>9, <2>0, <2>2
    <3> QED
      BY <1>11, <1>14, <3>1
  <2>3. CASE i > m /\ i < m + l
    <3>1. i - m \in 1..l - 1 /\ i - m \in 1..l /\ m + (i - m) = i /\ i \in 1..m + l - 1
      BY <1>0, <1>9, <2>0, <2>3
    <3>2. left[i] = mid[i]
      BY <1>14, <3>1
    <3>3. mid[i] = a[i - m] /\ right[i] = b[i - m]
      BY <1>11, <1>12, <3>1
    <3> QED
      BY <1>1, <1>2, <3>1, <3>2, <3>3
  <2>4. CASE i = m + l
    <3>1. l \in 1..l
      BY <1>0
    <3> QED
      BY <1>2, <1>11, <1>14, <2>4, <3>1
  <2> QED
    BY <1>0, <1>9, <2>0, <2>2, <2>3, <2>4
<1>6. left = right
  BY <1>4, <1>5, <1>14, <1>15, SeqEqual
<1> DEFINE whole == SubSeq(path, 1, Len(path))
<1>7. whole \in Seq(S) /\ Len(whole) = Len(path) /\ \A i \in 1..Len(whole) : whole[i] = path[i]
  BY <1>0
<1> HIDE DEF whole
<1>8. whole = path
  BY <1>7, SeqEqual
<1> QED
  BY <1>6, <1>8 DEF left, right, a, b, whole

------------------------------------------------------------------------------
(* Every step keeps the order under way on its route.                         *)

\* What a message at the head of the queue is, and what is left.
LEMMA Taken ==
  ASSUME FleetInv, waiting # <<>>
  PROVE  /\ Head(waiting)[1] \in Jobs /\ Head(waiting)[2] \in {"do", "cancel"}
         /\ Tail(waiting) \in Seq(Jobs \X {"do", "cancel"})
<1>1. waiting \in Seq(Jobs \X {"do", "cancel"})
  BY DEF FleetInv, FleetOK
<1>2. Head(waiting) \in Jobs \X {"do", "cancel"} /\ Tail(waiting) \in Seq(Jobs \X {"do", "cancel"})
  BY <1>1
<1> QED
  BY <1>2

LEMMA AssignKeeps ==
  ASSUME FleetInv, NEW j \in Jobs, NEW what \in {"do", "cancel"}, Assign(j, what)
  PROVE  FleetInv'
<1>1. waiting' \in Seq(Jobs \X {"do", "cancel"})
  <2>1. waiting \in Seq(Jobs \X {"do", "cancel"}) /\ <<j, what>> \in Jobs \X {"do", "cancel"}
    BY DEF FleetInv, FleetOK
  <2>2. waiting' = Append(waiting, <<j, what>>)
    BY DEF Assign
  <2> QED
    BY <2>1, <2>2
<1>2. messages' \in 0..MaxMessages
  BY FleetAssumption DEF Assign, FleetInv, FleetOK
<1> QED
  BY <1>1, <1>2 DEF Assign, FleetInv, FleetOK

LEMMA TakeCancelKeeps == ASSUME FleetInv, TakeCancel PROVE FleetInv'
<1>1. Head(waiting)[1] \in Jobs /\ waiting' \in Seq(Jobs \X {"do", "cancel"})
  BY Taken DEF TakeCancel
<1>2. CASE Head(waiting)[1] = job
  <2>1. EndJob("cancelled") /\ job \in Jobs /\ "cancelled" \in Tellings
    BY <1>1, <1>2 DEF TakeCancel, Tellings
  <2>2. /\ tolds' \in [Jobs -> Tellings] /\ job' \in Jobs \cup {NoJob}
        /\ stops' = <<>> /\ stops' \in Seq(Points) /\ leg' \in 1..Len(stops') + 1
        /\ rolling' \in BOOLEAN /\ lastTold' \in 0..Quanta + 1 /\ condition' \in {"standby", "active"}
    BY <2>1, JobEnds
  <2> QED
    BY <1>1, <2>2 DEF TakeCancel, FleetInv, FleetOK
<1>3. CASE Head(waiting)[1] # job
  BY <1>1, <1>3 DEF TakeCancel, FleetInv, FleetOK
<1> QED
  BY <1>2, <1>3

LEMMA RefuseKeeps == ASSUME FleetInv, Refuse PROVE FleetInv'
<1>1. Head(waiting)[1] \in Jobs /\ waiting' \in Seq(Jobs \X {"do", "cancel"})
  BY Taken DEF Refuse
<1>2. tolds' \in [Jobs -> Tellings]
  BY <1>1 DEF Refuse, FleetInv, FleetOK, Tellings
<1> QED
  BY <1>1, <1>2 DEF Refuse, FleetInv, FleetOK

LEMMA AcceptKeeps == ASSUME FleetInv, Accept PROVE FleetInv'
<1> DEFINE j == Head(waiting)[1]
<1>1. j \in Jobs /\ waiting' \in Seq(Jobs \X {"do", "cancel"})
  BY Taken DEF Accept
<1>2. /\ ~NoRoute(j) /\ job' = j /\ stops' = RouteOf(j) /\ lapsLeft' = LapsOf(j) /\ leg' = 1 /\ passed' = <<>>
      /\ tolds' = [tolds EXCEPT ![j] = "running"] /\ total' = Length(spot, RouteOf(j)) /\ driven' = 0
      /\ condition' = "active"
  BY DEF Accept, FirstLeg
<1> HIDE DEF j
<1>3. RouteOf(j) \in Seq(Points)
  BY <1>1, <1>2, RouteIsPath
<1>4. LapsOf(j) \in Nat \ {0} /\ Rounds(j)[0] = <<>>
  BY <1>1, RoundsUnfold
<1>5. total' \in Nat
  BY <1>2, <1>3, LengthIsNat DEF FleetInv, FleetOK
<1>6. tolds' \in [Jobs -> Tellings]
  BY <1>2 DEF FleetInv, FleetOK, Tellings
<1>7. passed' \in Seq(Points)
  BY <1>2
<1>8. leg' \in 1..Len(stops') + 1 /\ (stops' # <<>> => leg' \in 1..Len(stops'))
  BY <1>2, <1>3
<1>9. passed' = Rounds(j)[LapsOf(j) - lapsLeft'] \o SubSeq(stops', 1, leg' - 1)
  <2>1. LapsOf(j) - lapsLeft' = 0
    BY <1>2, <1>4
  <2>2. SubSeq(stops', 1, leg' - 1) = <<>>
    BY <1>2, <1>3
  <2>3. <<>> = <<>> \o <<>>
    OBVIOUS
  <2> QED
    BY <1>2, <1>4, <2>1, <2>2, <2>3
<1>10. lapsLeft' \in Nat /\ lapsLeft' \in 1..LapsOf(j) /\ driven' \in Nat
  BY <1>2, <1>4
<1>11. FleetOK'
  BY <1>1, <1>2, <1>3, <1>5, <1>6, <1>7, <1>8, <1>10 DEF Accept, FleetInv, FleetOK
<1> QED
  BY <1>1, <1>2, <1>8, <1>9, <1>10, <1>11 DEF FleetInv

LEMMA OrdersDoneKeeps == ASSUME FleetInv, OrdersDone PROVE FleetInv'
  BY DEF OrdersDone, FleetInv, FleetOK

LEMMA StandKeeps == ASSUME FleetInv, Stand PROVE FleetInv'
  BY DEF Stand, FleetInv, FleetOK

\* A stop reached, seen from the route.
LEMMA ReachStands ==
  ASSUME FleetInv, Reach
  PROVE  /\ job \in Jobs /\ stops = RouteOf(job) /\ stops \in Seq(Points) /\ stops # <<>>
         /\ ~NoRoute(job) /\ leg \in 1..Len(stops) /\ lapsLeft \in 1..LapsOf(job)
         /\ LapsOf(job) \in Nat \ {0}
         /\ passed' = Rounds(job)[LapsOf(job) - lapsLeft] \o SubSeq(stops, 1, leg)
         /\ leg = Len(stops) => passed' = Rounds(job)[LapsOf(job) - lapsLeft + 1]
         /\ passed' \in Seq(Points)
<1> DEFINE n == LapsOf(job) - lapsLeft
           before == Rounds(job)[n]
<1>1. /\ job \in Jobs /\ stops = RouteOf(job) /\ stops \in Seq(Points) /\ stops # <<>>
      /\ ~NoRoute(job) /\ leg \in 1..Len(stops) /\ lapsLeft \in 1..LapsOf(job)
      /\ passed = before \o SubSeq(stops, 1, leg - 1) /\ passed \in Seq(Points) /\ spot \in Points
      /\ passed' = Append(passed, stops[leg]) /\ spot = stops[leg]
  BY DEF FleetInv, FleetOK, Reach
<1>2. /\ LapsOf(job) \in Nat \ {0}
      /\ \A i \in 1..LapsOf(job) : Rounds(job)[i] = Rounds(job)[i - 1] \o RouteOf(job)
  BY <1>1, RoundsUnfold
<1>3. n \in 0..LapsOf(job) /\ n + 1 \in 1..LapsOf(job) /\ n + 1 - 1 = n
  BY <1>1, <1>2
<1>4. before \in Seq(Points)
  BY <1>1, <1>3, RoundsAreStops
<1> HIDE DEF n, before
<1>5. /\ Append(before \o SubSeq(stops, 1, leg - 1), stops[leg]) = before \o SubSeq(stops, 1, leg)
      /\ SubSeq(stops, 1, Len(stops)) = stops
  BY <1>1, <1>4, ReachAdds
<1>6. passed' = before \o SubSeq(stops, 1, leg)
  BY <1>1, <1>5
<1>7. ASSUME leg = Len(stops) PROVE passed' = Rounds(job)[n + 1]
  <2>1. passed' = before \o stops
    BY <1>5, <1>6, <1>7
  <2>2. Rounds(job)[n + 1] = Rounds(job)[n] \o RouteOf(job)
    BY <1>2, <1>3
  <2> QED
    BY <1>1, <2>1, <2>2 DEF before
<1>8. passed' \in Seq(Points)
  <2>1. stops[leg] \in Points
    BY <1>1
  <2> QED
    BY <1>1, <2>1
<1> QED
  BY <1>1, <1>2, <1>6, <1>7, <1>8 DEF n, before

LEMMA ReachKeeps == ASSUME FleetInv, Reach PROVE FleetInv'
<1>0. /\ job \in Jobs /\ stops = RouteOf(job) /\ stops \in Seq(Points) /\ stops # <<>>
      /\ ~NoRoute(job) /\ leg \in 1..Len(stops) /\ lapsLeft \in 1..LapsOf(job)
      /\ LapsOf(job) \in Nat \ {0}
      /\ passed' = Rounds(job)[LapsOf(job) - lapsLeft] \o SubSeq(stops, 1, leg)
      /\ leg = Len(stops) => passed' = Rounds(job)[LapsOf(job) - lapsLeft + 1]
      /\ passed' \in Seq(Points)
  BY ReachStands
<1>1. FleetOK /\ looking' \in BOOLEAN
  BY DEF FleetInv, Reach
<1>2. CASE leg < Len(stops)
  <2>1. leg' = leg + 1 /\ UNCHANGED <<lapsLeft, driven, tolds, job, stops, rolling, lastTold, condition>>
    BY <1>2 DEF Reach
  <2>2. leg' \in 1..Len(stops') /\ leg' \in 1..Len(stops') + 1 /\ leg' - 1 = leg
    BY <1>0, <1>2, <2>1
  <2>3. FleetOK'
    BY <1>0, <1>1, <2>1, <2>2 DEF FleetOK, Reach
  <2> QED
    BY <1>0, <2>1, <2>2, <2>3 DEF FleetInv
<1>3. CASE leg = Len(stops) /\ lapsLeft > 1
  <2>1. leg' = 1 /\ driven' = 0 /\ lapsLeft' = lapsLeft - 1
        /\ UNCHANGED <<tolds, job, stops, rolling, lastTold, condition>>
    BY <1>0, <1>3 DEF Reach
  <2>2. leg' \in 1..Len(stops') /\ leg' \in 1..Len(stops') + 1
    BY <1>0, <1>3, <2>1
  <2>3. lapsLeft' \in 1..LapsOf(job) /\ lapsLeft' \in Nat /\ LapsOf(job) - lapsLeft + 1 = LapsOf(job) - lapsLeft'
    BY <1>0, <1>3, <2>1
  <2>4. FleetOK'
    BY <1>0, <1>1, <2>1, <2>2, <2>3 DEF FleetOK, Reach
  <2>5. passed' = Rounds(job)[LapsOf(job) - lapsLeft'] \o <<>>
    <3>1. passed' = Rounds(job)[LapsOf(job) - lapsLeft']
      BY <1>0, <1>3, <2>3
    <3>2. \A s \in Seq(Points) : s = s \o <<>>
      OBVIOUS
    <3> QED
      BY <1>0, <3>1, <3>2
  <2>6. SubSeq(stops', 1, leg' - 1) = <<>>
    BY <1>0, <2>1
  <2> QED
    BY <1>0, <2>1, <2>2, <2>3, <2>4, <2>5, <2>6 DEF FleetInv
<1>4. CASE leg = Len(stops) /\ ~ (lapsLeft > 1)
  <2>1. EndJob("done") /\ driven' = driven /\ lapsLeft' = lapsLeft - 1 /\ "done" \in Tellings
    BY <1>0, <1>4 DEF Reach, Tellings
  <2>2. /\ tolds' \in [Jobs -> Tellings] /\ job' \in Jobs \cup {NoJob}
        /\ stops' = <<>> /\ stops' \in Seq(Points) /\ leg' \in 1..Len(stops') + 1
        /\ rolling' \in BOOLEAN /\ lastTold' \in 0..Quanta + 1 /\ condition' \in {"standby", "active"}
    BY <1>0, <2>1, JobEnds
  <2>3. lapsLeft' \in Nat
    BY <1>0, <2>1
  <2> QED
    BY <1>0, <1>1, <2>1, <2>2, <2>3 DEF FleetInv, FleetOK, Reach
<1> QED
  BY <1>0, <1>2, <1>3, <1>4

LEMMA RollKeeps == ASSUME FleetInv, Roll PROVE FleetInv'
<1>0. FleetOK /\ stops # <<>> /\ stops \in Seq(Points) /\ leg \in 1..Len(stops) /\ job \in Jobs
  BY DEF FleetInv, FleetOK, Roll
<1>1. spot' \in Points
  <2>1. stops[leg] \in Points /\ spot \in Points /\ spot # stops[leg]
    BY <1>0 DEF FleetOK, Roll
  <2>2. spot' = IF spot < stops[leg] THEN spot + 1 ELSE spot - 1
    BY DEF Roll
  <2> QED
    BY <2>1, <2>2, FleetAssumption DEF Points
<1> DEFINE progress == IF driven' >= total THEN Quanta ELSE (driven' * Quanta) \div total
<1>2. driven' = driven + 1 /\ driven' \in Nat /\ total \in Nat /\ Quanta \in Nat \ {0}
  BY <1>0, FleetAssumption DEF FleetOK, Roll
<1>3. progress \in 0..Quanta
  <2>1. CASE driven' >= total
    BY <1>2, <2>1
  <2>2. CASE ~ (driven' >= total)
    <3>1. driven' < total /\ Quanta \in Nat
      BY <1>2, <2>2
    <3>2. (driven' * Quanta) \div total \in 0..Quanta
      BY <1>2, <3>1, ProgressFits
    <3> QED
      BY <2>2, <3>2
  <2> QED
    BY <2>1, <2>2
<1>4. IF progress + 1 > lastTold
      THEN lastTold' = progress + 1 /\ tolds' = [tolds EXCEPT ![job] = "running"]
      ELSE UNCHANGED <<lastTold, tolds>>
  BY DEF Roll
<1> HIDE DEF progress
<1>5. lastTold' \in 0..Quanta + 1
  BY <1>0, <1>2, <1>3, <1>4 DEF FleetOK
<1>6. tolds' \in [Jobs -> Tellings]
  BY <1>0, <1>4 DEF FleetOK, Tellings
<1>7. FleetOK'
  BY <1>0, <1>1, <1>2, <1>5, <1>6 DEF FleetOK, Roll
<1> QED
  BY <1>7 DEF FleetInv, Roll

LEMMA FleetInvariance == FleetInv /\ [FleetNext]_fleet => FleetInv'
<1> SUFFICES ASSUME FleetInv, [FleetNext]_fleet PROVE FleetInv'
  OBVIOUS
<1>1. ASSUME NEW j \in Jobs, NEW what \in {"do", "cancel"}, Assign(j, what) PROVE FleetInv'
  BY <1>1, AssignKeeps
<1>2. CASE TakeCancel
  BY <1>2, TakeCancelKeeps
<1>3. CASE Refuse
  BY <1>3, RefuseKeeps
<1>4. CASE Accept
  BY <1>4, AcceptKeeps
<1>5. CASE OrdersDone
  BY <1>5, OrdersDoneKeeps
<1>6. CASE Stand
  BY <1>6, StandKeeps
<1>7. CASE Reach
  BY <1>7, ReachKeeps
<1>8. CASE Roll
  BY <1>8, RollKeeps
<1>9. CASE UNCHANGED fleet
  BY <1>9 DEF fleet, FleetInv, FleetOK
<1> QED
  BY <1>1, <1>2, <1>3, <1>4, <1>5, <1>6, <1>7, <1>8, <1>9 DEF FleetNext

\* The simulated machine's types, and that an order under way has been to
\* exactly the stops its laps and its leg say (_accept_or_refuse, _move,
\* _finish): the induction behind DoneMeansDriven.
THEOREM SpecFleetInv == FleetSpec => []FleetInv
  BY FleetStart, FleetInvariance, PTL DEF FleetSpec

\* Only the last stop of the last lap tells an order as done.
LEMMA DoneStep ==
  ASSUME FleetInv, [FleetNext]_fleet, NEW j \in Jobs, tolds'[j] = "done", tolds[j] # "done"
  PROVE  passed' = Asked(j)
<1>0. tolds \in [Jobs -> Tellings]
  BY DEF FleetInv, FleetOK
<1>1. CASE Reach
  <2>0. /\ job \in Jobs /\ lapsLeft \in 1..LapsOf(job) /\ LapsOf(job) \in Nat \ {0} /\ leg \in 1..Len(stops)
        /\ stops \in Seq(Points)
        /\ leg = Len(stops) => passed' = Rounds(job)[LapsOf(job) - lapsLeft + 1]
    BY <1>1, ReachStands
  <2>1. tolds' # tolds
    OBVIOUS
  <2>2. leg = Len(stops) /\ lapsLeft = 1 /\ EndJob("done")
    BY <1>1, <2>0, <2>1 DEF Reach
  <2>3. j = job
    BY <1>0, <2>2 DEF EndJob
  <2>4. LapsOf(job) - lapsLeft + 1 = LapsOf(job)
    BY <2>0, <2>2
  <2> QED
    BY <2>0, <2>2, <2>3, <2>4 DEF Asked
<1>2. CASE TakeCancel
  BY <1>0, <1>2 DEF TakeCancel, EndJob
<1>3. CASE Refuse
  BY <1>0, <1>3 DEF Refuse
<1>4. CASE Accept
  BY <1>0, <1>4 DEF Accept
<1>5. CASE Roll
  BY <1>0, <1>5 DEF Roll
<1>6. CASE OrdersDone \/ Stand \/ UNCHANGED fleet
  BY <1>6 DEF OrdersDone, Stand, fleet
<1>7. ASSUME NEW i \in Jobs, NEW what \in {"do", "cancel"}, Assign(i, what) PROVE FALSE
  BY <1>7 DEF Assign
<1> QED
  BY <1>1, <1>2, <1>3, <1>4, <1>5, <1>6, <1>7 DEF FleetNext

\* An order is told as done only when every stop of every lap of it was reached
\* since it was accepted.
THEOREM SpecDoneMeansDriven == FleetSpec => DoneMeansDriven
<1>1. FleetInv /\ [FleetNext]_fleet
      => [\A j \in Jobs : tolds'[j] = "done" /\ tolds[j] # "done" => passed' = Asked(j)]_<<tolds, passed>>
  BY DoneStep
<1> QED
  BY <1>1, SpecFleetInv, PTL DEF FleetSpec, DoneMeansDriven

------------------------------------------------------------------------------
(* The parts beside each other.                                               *)

FieldInv ==
    /\ part \in Parts /\ MachineInv /\ FleetInv /\ ChassisInv /\ ChassisOK /\ BenchInv /\ BenchOK
    /\ LetGoInv /\ CockpitOK /\ RelayInv /\ RelayOK

\* Every part keeps its types, whichever of them runs.
THEOREM SpecTypeOK == Spec => []TypeOK
<1>1. Init => FieldInv
  <2> SUFFICES ASSUME Init PROVE FieldInv
    OBVIOUS
  <2>1. /\ part \in Parts /\ MachineInit /\ FleetInit /\ ChassisInit /\ BenchInit
        /\ CockpitInit /\ RelayInit
    BY DEF Init
  <2> QED
    BY <2>1, MachineInitInv, FleetStart, ChassisInitInv, ChassisInitOK, BenchInitInv, BenchInitOK,
       LetGoInitInv, CockpitInitOK, RelayInitInv, RelayInitOK DEF FieldInv
<1>2. FieldInv /\ [Next]_all => FieldInv'
  <2> SUFFICES ASSUME FieldInv, [Next]_all PROVE FieldInv'
    OBVIOUS
  <2>1. /\ part' = part /\ [MachineNext]_machineVars /\ [FleetNext]_fleet /\ [ChassisNext]_chassis
        /\ [BenchNext]_bench /\ [CockpitNext]_cockpit /\ [RelayNext]_relay
    BY DEF Next, Only, all
  <2> QED
    BY <2>1, MachineNextInv, FleetInvariance, ChassisNextInv, ChassisNextOK, BenchNextInv, BenchNextOK,
       LetGoNextInv, CockpitNextOK, RelayNextInv, RelayNextOK DEF FieldInv
<1>3. FieldInv => TypeOK
  <2> SUFFICES ASSUME FieldInv PROVE TypeOK
    OBVIOUS
  <2>1. MachineOK /\ FleetOK
    BY DEF FieldInv, MachineInv, FleetInv
  <2> QED
    BY <2>1 DEF FieldInv, TypeOK, Parts
<1> QED
  BY <1>1, <1>2, <1>3, PTL DEF Spec

=============================================================================
