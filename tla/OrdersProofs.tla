---------------------------- MODULE OrdersProofs ----------------------------
(***************************************************************************)
(* Orders, for any set of tasks, any routes and any bounds: the types,     *)
(* that a machine drives only on an order taken since it started or on the *)
(* route an earlier process left with Nav2, and that TRACK and the machine *)
(* agree once everything said is heard.                                    *)
(***************************************************************************)
EXTENDS Orders, SequenceTheorems, TLAPS

\* A process starts with no order taken.
Rest == at \in {"off", "recovering", "dropping"} => ~fresh

\* In the middle of an order there is one.
Holding == at \in {"recovering", "dropping", "accepted", "ending"} => current \in Tasks

\* An order that moves was taken since the process started and has a lap to go,
\* until its ending is told.
Counted ==
    at \in {"loop", "accepted"} /\ current \in Tasks /\ Kind[current] = "move"
        => laps >= 1 /\ fresh

IInv == TypeOK /\ Rest /\ Holding /\ Counted /\ MotionIsOrdered

------------------------------------------------------------------------------
(* The wire keeps its type under everything that uses it.                     *)

LEMMA EndingsAreTasks == \A r \in Seq(Reports) : Endings(r) \subseteq Tasks
<1> SUFFICES ASSUME NEW r \in Seq(Reports), NEW t \in Endings(r) PROVE t \in Tasks
  OBVIOUS
<1>1. PICK i \in DOMAIN r : t = r[i].task
  BY DEF Endings
<1>2. r[i] \in Reports
  OBVIOUS
<1> QED
  BY <1>1, <1>2 DEF Reports

LEMMA AboutIsTasks == \A s \in Seq(Assignments) : About(s) \subseteq Tasks
<1> SUFFICES ASSUME NEW s \in Seq(Assignments), NEW t \in About(s) PROVE t \in Tasks
  OBVIOUS
<1>1. PICK i \in DOMAIN s : t = s[i].task
  BY DEF About
<1>2. s[i] \in Assignments
  OBVIOUS
<1> QED
  BY <1>1, <1>2 DEF Assignments

LEMMA Empty ==
  /\ \A S : <<>> \in Seq(S) /\ Len(<<>>) = 0
  /\ MaxUp \in Nat /\ MaxDown \in Nat /\ 0 <= MaxUp /\ 0 <= MaxDown
<1>1. \A S : <<>> \in Seq(S) /\ Len(<<>>) = 0
  OBVIOUS
<1> QED
  BY <1>1, MaxUpAssumption, MaxDownAssumption

LEMMA TellType ==
  ASSUME WireOK, NEW r \in Seq(Reports), Tell(r)
  PROVE  WireOK'
<1>1. CASE connected
  <2>1. up \o r \in Seq(Reports) /\ Len(up \o r) = Len(up) + Len(r) /\ Len(r) \in Nat
    BY DEF WireOK
  <2>2. /\ up' = up \o r /\ Len(up) + Len(r) <= MaxUp
        /\ UNCHANGED <<lost, connected, got, down>>
    BY <1>1 DEF Tell
  <2>3. got \in 0 .. Len(up') /\ Len(up') <= MaxUp
    <3>1. Len(up) \in Nat /\ got \in 0 .. Len(up)
      BY DEF WireOK
    <3> QED
      BY <2>1, <2>2, <3>1
  <2> QED
    BY <2>1, <2>2, <2>3 DEF WireOK
<1>2. CASE ~connected
  BY <1>2, EndingsAreTasks DEF Tell, WireOK
<1> QED
  BY <1>1, <1>2

LEMMA SendType ==
  ASSUME WireOK, NEW a \in Assignments, Send(a)
  PROVE  WireOK'
<1>1. CASE connected
  BY <1>1, MaxDownAssumption DEF Send, WireOK
<1>2. CASE ~connected
  BY <1>2 DEF Send, WireOK, Assignments
<1> QED
  BY <1>1, <1>2

LEMMA CutType ==
  ASSUME WireOK, NEW h \in Seq(Assignments), NEW u \in SUBSET Tasks, Cut(h, u)
  PROVE  WireOK'
<1>1. SubSeq(up, got + 1, Len(up)) \in Seq(Reports)
  BY DEF WireOK
<1>2. lost' \subseteq Tasks
  BY <1>1, EndingsAreTasks, AboutIsTasks DEF Cut, WireOK
<1>3. up' = <<>> /\ got' = 0 /\ down' = <<>> /\ connected' = FALSE
  BY DEF Cut
<1>4. /\ up' \in Seq(Reports) /\ Len(up') <= MaxUp /\ got' \in 0 .. Len(up')
      /\ down' \in Seq(Assignments) /\ Len(down') <= MaxDown
  BY <1>3, Empty
<1> QED
  BY <1>2, <1>3, <1>4 DEF WireOK

LEMMA LinkType ==
  ASSUME WireOK, LinkUp \/ LinkDown \/ Acknowledge
  PROVE  WireOK'
<1>1. CASE LinkUp
  BY <1>1 DEF LinkUp, WireOK
<1>2. CASE LinkDown
  <2>1. down' \in Seq(Assignments) /\ Len(down') <= MaxDown
    BY <1>2, Empty DEF LinkDown
  <2>2. lost' \subseteq Tasks /\ connected' \in BOOLEAN /\ UNCHANGED <<up, got>>
    BY <1>2, AboutIsTasks DEF LinkDown, WireOK
  <2> QED
    BY <2>1, <2>2 DEF WireOK
<1>3. CASE Acknowledge
  <2>1. up \in Seq(Reports) /\ got \in 0 .. Len(up) /\ got > 0 /\ Len(up) <= MaxUp
    BY <1>3 DEF Acknowledge, WireOK
  <2>2. /\ Tail(up) \in Seq(Reports) /\ Len(Tail(up)) = Len(up) - 1
        /\ got - 1 \in 0 .. Len(Tail(up)) /\ Len(Tail(up)) <= MaxUp
    BY <2>1, MaxUpAssumption
  <2>3. up' = Tail(up) /\ got' = got - 1 /\ UNCHANGED <<connected, down, lost>>
    BY <1>3 DEF Acknowledge
  <2> QED
    BY <2>2, <2>3 DEF WireOK
<1> QED
  BY <1>1, <1>2, <1>3

LEMMA SameWire == WireOK /\ UNCHANGED wire => WireOK'
  BY DEF WireOK, wire

------------------------------------------------------------------------------
(* The machine.                                                               *)

MachineInv == MachineOK /\ Rest /\ Holding /\ Counted /\ MotionIsOrdered

\* What the navigators' calls leave behind.
LEMMA Calls ==
  ASSUME nav \in Navs, planner \in {"direct", "nav2"}, driving \in BOOLEAN, outlived \in BOOLEAN
  PROVE  /\ FollowRoute => /\ nav' \in Navs /\ driving' \in BOOLEAN /\ outlived' \in BOOLEAN
                           /\ UNCHANGED motion \/ (driving' /\ ~outlived')
         /\ FollowNothing => nav' \in Navs /\ UNCHANGED motion
         /\ CancelRoute => /\ nav' \in Navs /\ driving' \in BOOLEAN /\ outlived' \in BOOLEAN
                           /\ ~driving' \/ (planner = "nav2" /\ UNCHANGED motion)
<1>1. IdleNav \in Navs
  BY DEF IdleNav, Navs
<1>2. ASSUME FollowRoute
      PROVE  /\ nav' \in Navs /\ driving' \in BOOLEAN /\ outlived' \in BOOLEAN
             /\ UNCHANGED motion \/ (driving' /\ ~outlived')
  <2>1. PICK refused \in {FALSE, planner = "nav2"} :
          /\ nav' = [route |-> TRUE, active |-> planner = "nav2", refused |-> refused,
                     arrived |-> FALSE, failed |-> FALSE]
          /\ IF refused THEN UNCHANGED motion ELSE driving' = TRUE /\ outlived' = FALSE
    BY <1>2 DEF FollowRoute
  <2>2. nav' \in Navs
    BY <2>1 DEF Navs
  <2>3. CASE refused
    BY <2>1, <2>2, <2>3 DEF motion
  <2>4. CASE ~refused
    BY <2>1, <2>2, <2>4
  <2> QED
    BY <2>3, <2>4
<1>3. ASSUME CancelRoute
      PROVE  /\ nav' \in Navs /\ driving' \in BOOLEAN /\ outlived' \in BOOLEAN
             /\ ~driving' \/ (planner = "nav2" /\ UNCHANGED motion)
  <2>1. nav' \in Navs
    BY <1>1, <1>3 DEF CancelRoute, Navs
  <2>2. Stopped \/ (planner = "nav2" /\ UNCHANGED motion)
    BY <1>3 DEF CancelRoute
  <2> QED
    BY <2>1, <2>2 DEF Stopped, motion
<1>4. FollowNothing => nav' \in Navs /\ UNCHANGED motion
  BY <1>1 DEF FollowNothing
<1> QED
  BY <1>2, <1>3, <1>4

\* What the machine says is a report, and what it takes an order.
LEMMA Messages ==
  ASSUME MachineOK
  PROVE  /\ \A t \in Tasks, state \in Told : <<[task |-> t, state |-> state]>> \in Seq(Reports)
         /\ \A t \in Tasks : <<[task |-> t, state |-> "accepted"], [task |-> t, state |-> "running"]>> \in Seq(Reports)
         /\ Ordered => /\ Head(inbox) \in Assignments /\ Head(inbox).task \in Tasks
                       /\ Tail(inbox) \in Seq(Assignments) /\ Len(Tail(inbox)) <= MaxDown
<1>1. \A t \in Tasks, state \in Told : [task |-> t, state |-> state] \in Reports
  BY DEF Reports
<1>5. \A S : \A a, b \in S : <<a>> \in Seq(S) /\ <<a, b>> \in Seq(S)
  OBVIOUS
<1>2. \A t \in Tasks, state \in Told : <<[task |-> t, state |-> state]>> \in Seq(Reports)
  BY <1>1, <1>5, Zenon
<1>6. "accepted" \in Told /\ "running" \in Told
  BY DEF Told
<1>3. \A t \in Tasks : <<[task |-> t, state |-> "accepted"], [task |-> t, state |-> "running"]>> \in Seq(Reports)
  BY <1>1, <1>5, <1>6, Zenon
<1>4. ASSUME Ordered
      PROVE  /\ Head(inbox) \in Assignments /\ Tail(inbox) \in Seq(Assignments)
             /\ Len(Tail(inbox)) <= MaxDown
  <2>1. inbox \in Seq(Assignments) /\ Len(inbox) <= MaxDown /\ inbox # <<>> /\ MaxDown \in Nat
    BY <1>4, MaxDownAssumption DEF MachineOK, Ordered
  <2> QED
    BY <2>1
<1> QED
  BY <1>2, <1>3, <1>4 DEF Assignments

LEMMA MachineStarts == MachineInit => MachineInv
<1> SUFFICES ASSUME MachineInit PROVE MachineInv
  OBVIOUS
<1>1. IdleNav \in Navs
  BY DEF IdleNav, Navs
<1>2. planner \in {"direct", "nav2"} /\ laps \in 0 .. MaxLaps
  BY PlannersAssumption, LapsAssumption DEF MachineInit
<1>3. inbox \in Seq(Assignments) /\ Len(inbox) <= MaxDown
  BY Empty DEF MachineInit
<1>4. MachineOK
  BY <1>1, <1>2, <1>3 DEF MachineInit, MachineOK, Places
<1> QED
  BY <1>1, <1>4, NoTaskAssumption
     DEF MachineInit, MachineInv, Rest, Holding, Counted, MotionIsOrdered, motion

\* Each step of the core that says something leaves the wire a wire, and each
\* step the machine its invariant.
LEMMA CoreStep ==
  ASSUME WireOK, MachineInv, Think
  PROVE  WireOK' /\ MachineInv'
<1>0. /\ MachineOK /\ Rest /\ Holding /\ Counted /\ MotionIsOrdered
      /\ nav \in Navs /\ planner \in {"direct", "nav2"}
      /\ driving \in BOOLEAN /\ outlived \in BOOLEAN /\ fresh \in BOOLEAN
      /\ MaxLaps \in Nat /\ laps \in 0 .. MaxLaps /\ NoTask \notin Tasks
  BY LapsAssumption, NoTaskAssumption DEF MachineInv, MachineOK
<1>1. CASE Interrupt
  <2>1. current \in Tasks
    BY <1>0, <1>1 DEF Interrupt, Holding
  <2>2. WireOK'
    BY <1>0, <1>1, <2>1, Messages, TellType DEF Interrupt, Told
  <2>3. MachineInv'
    BY <1>0, <1>1, <2>1 DEF Interrupt, MachineInv, MachineOK, Places, Rest, Holding, Counted, MotionIsOrdered, motion
  <2> QED
    BY <2>2, <2>3
<1>2. CASE DropInterrupted
  BY <1>0, <1>2, SameWire
     DEF DropInterrupted, MachineInv, MachineOK, Places, Rest, Holding, Counted, MotionIsOrdered, motion
<1>3. CASE KeepHolding
  <2>1. current \in Tasks
    BY <1>0, <1>3 DEF KeepHolding, Holding
  <2>2. WireOK'
    BY <1>0, <1>3, <2>1, Messages, TellType DEF KeepHolding, Told
  <2>3. MachineInv'
    BY <1>0, <1>3, <2>1 DEF KeepHolding, MachineInv, MachineOK, Places, Rest, Holding, Counted, MotionIsOrdered, motion
  <2> QED
    BY <2>2, <2>3
<1>4. CASE CancelCurrent
  <2>1. Head(inbox).task = current /\ current \in Tasks
    BY <1>0, <1>4, Messages DEF CancelCurrent
  <2>2. WireOK'
    BY <1>0, <1>4, <2>1, Messages, TellType DEF CancelCurrent, Told
  <2>3. /\ inbox' \in Seq(Assignments) /\ Len(inbox') <= MaxDown
        /\ nav' \in Navs /\ driving' \in BOOLEAN /\ outlived' \in BOOLEAN
        /\ ~driving' \/ (planner = "nav2" /\ UNCHANGED motion)
    BY <1>0, <1>4, Messages, Calls DEF CancelCurrent, TakeOrder
  <2>4. /\ at' = "ending"
        /\ UNCHANGED <<planner, current, disk, laps, fresh, replaced>>
    BY <1>4 DEF CancelCurrent
  <2>5. MachineOK'
    BY <1>0, <2>3, <2>4 DEF MachineOK, Places
  <2>6. Rest' /\ Holding' /\ Counted' /\ MotionIsOrdered'
    BY <1>0, <2>1, <2>3, <2>4 DEF Rest, Holding, Counted, MotionIsOrdered, motion
  <2> QED
    BY <2>2, <2>5, <2>6 DEF MachineInv
<1>5. CASE CancelOther
  BY <1>0, <1>5, Messages, SameWire
     DEF CancelOther, TakeOrder, MachineInv, MachineOK, Rest, Holding, Counted, MotionIsOrdered, motion
<1>6. CASE Refuse
  <2>1. WireOK'
    BY <1>0, <1>6, Messages, TellType DEF Refuse, Told
  <2>2. MachineInv'
    BY <1>0, <1>6, Messages
       DEF Refuse, TakeOrder, MachineInv, MachineOK, Rest, Holding, Counted, MotionIsOrdered, motion
  <2> QED
    BY <2>1, <2>2
<1>7. CASE Accept
  <2> DEFINE t == Head(inbox).task
  <2>1. /\ t \in Tasks /\ current' = t /\ disk' = t /\ laps' = Laps[t] /\ Laps[t] \in 1 .. MaxLaps
        /\ inbox' \in Seq(Assignments) /\ Len(inbox') <= MaxDown
    BY <1>0, <1>7, Messages, LapsAssumption DEF Accept, TakeOrder, LapsFor
  <2>2. /\ Kind[t] \in {"move", "hold", "refused"} /\ Kind[t] # "refused"
        /\ fresh' = (fresh \/ Kind[t] = "move")
        /\ IF Kind[t] = "hold" THEN FollowNothing ELSE FollowRoute
        /\ at' = "accepted" /\ planner' = planner
    BY <1>0, <1>7, <2>1, KindAssumption DEF Accept
  <2>3. replaced' \subseteq Tasks
    BY <1>0, <1>7 DEF Accept, MachineOK
  <2>4. WireOK'
    BY <1>7, SameWire DEF Accept
  <2> HIDE DEF t
  <2>5. nav' \in Navs /\ driving' \in BOOLEAN /\ outlived' \in BOOLEAN
    BY <1>0, <2>2, Calls DEF motion
  <2>6. fresh' \in BOOLEAN /\ (fresh => fresh')
    BY <1>0, <2>2
  <2>7. UNCHANGED motion \/ fresh'
    <3>1. CASE Kind[t] = "hold"
      BY <1>0, <2>2, <3>1, Calls
    <3>2. CASE Kind[t] = "move"
      BY <2>2, <3>2
    <3> QED
      BY <2>2, <3>1, <3>2
  <2>8. MachineOK'
    BY <1>0, <2>1, <2>2, <2>3, <2>5, <2>6 DEF MachineOK, Places
  <2>9. Rest' /\ Holding' /\ Counted'
    <3>1. at' = "accepted" /\ current' = t /\ t \in Tasks /\ laps' \in 1 .. MaxLaps
      BY <2>1, <2>2
    <3>2. Kind[t] = "move" => fresh'
      BY <2>2
    <3> QED
      BY <1>0, <3>1, <3>2 DEF Rest, Holding, Counted
  <2>10. MotionIsOrdered'
    <3>1. current' # NoTask
      BY <1>0, <2>1
    <3> QED
      BY <1>0, <2>2, <2>6, <2>7, <3>1 DEF MotionIsOrdered, motion
  <2> QED
    BY <2>4, <2>8, <2>9, <2>10 DEF MachineInv
<1>8. CASE Answer
  <2>1. current \in Tasks
    BY <1>0, <1>8 DEF Answer, Holding
  <2>2. WireOK'
    BY <1>0, <1>8, <2>1, Messages, TellType DEF Answer
  <2>3. MachineInv'
    BY <1>0, <1>8, <2>1 DEF Answer, MachineInv, MachineOK, Places, Rest, Holding, Counted, MotionIsOrdered, motion
  <2> QED
    BY <2>2, <2>3
<1>9. CASE NextLap
  <2>1. /\ laps' = laps - 1 /\ laps' >= 1 /\ laps' \in 0 .. MaxLaps
        /\ FollowRoute /\ at = "loop" /\ current # NoTask /\ Kind[current] = "move"
        /\ UNCHANGED <<at, planner, inbox, current, disk, fresh, replaced>>
    BY <1>0, <1>9 DEF NextLap, Moving
  <2>2. nav' \in Navs /\ driving' \in BOOLEAN /\ outlived' \in BOOLEAN /\ fresh
    BY <1>0, <2>1, Calls DEF motion, Counted, MachineOK
  <2>3. MachineOK'
    BY <1>0, <2>1, <2>2 DEF MachineOK
  <2>4. Rest' /\ Holding' /\ Counted' /\ MotionIsOrdered'
    BY <1>0, <2>1, <2>2 DEF Rest, Holding, Counted, MotionIsOrdered, motion
  <2>5. WireOK'
    BY <1>9, SameWire DEF NextLap
  <2> QED
    BY <2>3, <2>4, <2>5 DEF MachineInv
<1>10. CASE Finish
  <2>1. /\ current \in Tasks /\ laps >= 1 /\ laps' \in 0 .. MaxLaps /\ at' = "ending"
        /\ UNCHANGED <<planner, inbox, current, disk, nav, motion, fresh, replaced>>
    BY <1>0, <1>10 DEF Finish, Moving, MachineOK, Counted
  <2>2. WireOK'
    BY <1>0, <1>10, <2>1, Messages, TellType DEF Finish, Told
  <2>3. MachineInv'
    BY <1>0, <2>1 DEF MachineInv, MachineOK, Places, Rest, Holding, Counted, MotionIsOrdered, motion
  <2> QED
    BY <2>2, <2>3
<1>11. CASE End
  <2>1. /\ nav' \in Navs /\ driving' \in BOOLEAN /\ outlived' \in BOOLEAN
        /\ ~driving' \/ (planner = "nav2" /\ UNCHANGED motion)
    BY <1>0, <1>11, Calls DEF End
  <2>2. /\ current' = NoTask /\ disk' = NoTask /\ at' = "loop"
        /\ fresh' = (fresh /\ driving')
        /\ UNCHANGED <<planner, inbox, laps, replaced, wire>>
    BY <1>11 DEF End
  <2>3. MachineOK'
    BY <1>0, <2>1, <2>2 DEF MachineOK, Places
  <2>4. Rest' /\ Holding' /\ Counted' /\ MotionIsOrdered'
    BY <1>0, <2>1, <2>2 DEF Rest, Holding, Counted, MotionIsOrdered, motion
  <2> QED
    BY <2>2, <2>3, <2>4, SameWire DEF MachineInv
<1> QED
  BY <1>1, <1>2, <1>3, <1>4, <1>5, <1>6, <1>7, <1>8, <1>9, <1>10, <1>11 DEF Think

\* The machine's other steps do too: what it says on the way, its navigator, and
\* the life of its process.
LEMMA MachineStep ==
  ASSUME WireOK, MachineInv, MachineNext
  PROVE  WireOK' /\ MachineInv'
<1>0. /\ MachineOK /\ Rest /\ Holding /\ Counted /\ MotionIsOrdered
      /\ nav \in Navs /\ planner \in {"direct", "nav2"}
      /\ driving \in BOOLEAN /\ outlived \in BOOLEAN /\ fresh \in BOOLEAN
      /\ MaxLaps \in Nat /\ laps \in 0 .. MaxLaps /\ NoTask \notin Tasks
  BY LapsAssumption, NoTaskAssumption DEF MachineInv, MachineOK
<1>1. CASE Think
  BY <1>1, CoreStep
<1>2. CASE Progress
  <2>1. current \in Tasks /\ UNCHANGED machine
    BY <1>0, <1>2 DEF Progress, Moving, MachineOK
  <2>2. WireOK'
    BY <1>0, <1>2, <2>1, Messages, TellType DEF Progress, Told
  <2> QED
    BY <1>0, <2>1, <2>2 DEF machine, MachineInv, MachineOK, Rest, Holding, Counted, MotionIsOrdered, motion
<1>3. CASE Step
  <2>1. /\ nav' \in Navs /\ driving' \in BOOLEAN /\ outlived' \in BOOLEAN
        /\ ~driving' \/ UNCHANGED motion
        /\ UNCHANGED <<at, planner, inbox, current, disk, laps, fresh, replaced, wire>>
    <3>1. nav' \in Navs
      BY <1>0, <1>3 DEF Step, Navs
    <3>2. Stopped \/ UNCHANGED motion
      BY <1>3 DEF Step
    <3>3. UNCHANGED <<at, planner, inbox, current, disk, laps, fresh, replaced, wire>>
      BY <1>3 DEF Step
    <3> QED
      BY <1>0, <3>1, <3>2, <3>3 DEF Stopped, motion
  <2>2. MachineOK'
    BY <1>0, <2>1 DEF MachineOK
  <2>3. Rest' /\ Holding' /\ Counted' /\ MotionIsOrdered'
    BY <1>0, <2>1 DEF Rest, Holding, Counted, MotionIsOrdered, motion
  <2> QED
    BY <2>1, <2>2, <2>3, SameWire DEF MachineInv
<1>4. CASE RunOut
  BY <1>0, <1>4, SameWire DEF RunOut, Stopped, MachineInv, MachineOK, Rest, Holding, Counted, MotionIsOrdered, motion
<1>5. CASE Boot
  <2>1. /\ disk \in Tasks \cup {NoTask} /\ current' = disk
        /\ at' = IF disk = NoTask THEN "loop" ELSE "recovering"
        /\ laps' = 0 /\ nav' = IdleNav /\ ~fresh /\ fresh' = FALSE
        /\ UNCHANGED <<planner, inbox, disk, motion, replaced, wire>>
    BY <1>0, <1>5 DEF Boot, MachineOK, Rest
  <2>2. IdleNav \in Navs
    BY DEF IdleNav, Navs
  <2>3. MachineOK'
    <3>1. at' \in Places /\ laps' \in 0 .. MaxLaps
      BY <1>0, <2>1 DEF Places
    <3>2. nav' \in Navs /\ fresh' \in BOOLEAN /\ driving' \in BOOLEAN /\ outlived' \in BOOLEAN
      BY <1>0, <2>1, <2>2 DEF motion
    <3> QED
      BY <1>0, <2>1, <3>1, <3>2 DEF MachineOK
  <2>4. Rest' /\ Holding' /\ Counted' /\ MotionIsOrdered'
    BY <1>0, <2>1, <2>2 DEF Rest, Holding, Counted, MotionIsOrdered, motion
  <2> QED
    BY <2>1, <2>3, <2>4, SameWire DEF MachineInv
<1>6. CASE Crash
  <2>1. /\ at' = "off" /\ inbox' = <<>> /\ current' = NoTask
        /\ laps' = 0 /\ nav' = IdleNav /\ fresh' = FALSE
        /\ outlived' = driving' /\ driving' \in BOOLEAN /\ (driving' => planner = "nav2")
        /\ UNCHANGED <<planner, disk, replaced>>
    BY <1>0, <1>6 DEF Crash
  <2>2. IdleNav \in Navs
    BY DEF IdleNav, Navs
  <2>3. inbox' \in Seq(Assignments) /\ Len(inbox') <= MaxDown
    BY <2>1, Empty
  <2>4. MachineOK'
    <3>1. at' \in Places /\ laps' \in 0 .. MaxLaps
      BY <1>0, <2>1 DEF Places
    <3>2. nav' \in Navs /\ fresh' \in BOOLEAN /\ driving' \in BOOLEAN /\ outlived' \in BOOLEAN
      BY <2>1, <2>2
    <3> QED
      BY <1>0, <2>1, <2>3, <3>1, <3>2 DEF MachineOK
  <2>5. Rest' /\ Holding' /\ Counted' /\ MotionIsOrdered'
    BY <1>0, <2>1, <2>2 DEF Rest, Holding, Counted, MotionIsOrdered, motion
  <2>6. (IF at = "ending" THEN {current} ELSE {}) \in SUBSET Tasks /\ inbox \in Seq(Assignments)
    BY <1>0 DEF Holding, MachineOK
  <2>7. WireOK'
    BY <1>6, <2>6, CutType DEF Crash
  <2> QED
    BY <2>4, <2>5, <2>7 DEF MachineInv
<1>7. CASE HandOver
  <2>1. /\ down \in Seq(Assignments) /\ down # <<>> /\ Len(down) <= MaxDown
        /\ inbox \in Seq(Assignments) /\ Len(inbox) < MaxDown /\ MaxDown \in Nat
    BY <1>0, <1>7, MaxDownAssumption DEF HandOver, WireOK, MachineOK
  <2>2. /\ Tail(down) \in Seq(Assignments) /\ Len(Tail(down)) <= MaxDown
        /\ Append(inbox, Head(down)) \in Seq(Assignments)
        /\ Len(Append(inbox, Head(down))) <= MaxDown
    BY <2>1
  <2>3. /\ inbox' = Append(inbox, Head(down)) /\ down' = Tail(down)
        /\ UNCHANGED <<at, planner, current, disk, laps, nav, motion, fresh, replaced,
                       connected, up, got, lost>>
    BY <1>7 DEF HandOver
  <2>4. WireOK'
    BY <2>2, <2>3 DEF WireOK
  <2>5. MachineInv'
    BY <1>0, <2>2, <2>3 DEF MachineInv, MachineOK, Rest, Holding, Counted, MotionIsOrdered, motion
  <2> QED
    BY <2>4, <2>5
<1> QED
  BY <1>1, <1>2, <1>3, <1>4, <1>5, <1>6, <1>7 DEF MachineNext

------------------------------------------------------------------------------
(* The order desk.                                                            *)

LEMMA Sweeping ==
  ASSUME NEW S \in SUBSET Tasks
  PROVE  Failing(S) \in Sweeps /\ Idle \in Sweeps
  BY DEF Failing, Idle, Sweeps

LEMMA DeskStepType ==
  ASSUME WireOK, DeskOK, DeskStep
  PROVE  WireOK' /\ DeskOK'
<1>0. /\ orders \in [Tasks -> Statuses] /\ asset \in {"unknown", "online", "offline"}
      /\ silent \in BOOLEAN /\ sweep \in Sweeps /\ Idle \in Sweeps
      /\ \A S \in SUBSET Tasks : Failing(S) \in Sweeps
  BY Sweeping DEF DeskOK
<1>1. ASSUME NEW t \in Tasks, NEW st \in Statuses, orders' = [orders EXCEPT ![t] = st]
      PROVE  orders' \in [Tasks -> Statuses]
  BY <1>0, <1>1
<1>2. \A t \in Tasks : {"pending", "overdue", "cancelled", "failed"} \subseteq Statuses
                       /\ Told \subseteq Statuses
  BY DEF Statuses, Pending, Told
<1>3. ASSUME NEW t \in Tasks, Issue(t)
      PROVE  WireOK' /\ DeskOK'
  <2>1. [task |-> t, cancel |-> FALSE] \in Assignments
    BY DEF Assignments
  <2> QED
    BY <1>0, <1>1, <1>2, <1>3, <2>1, SendType DEF Issue, DeskOK
<1>4. ASSUME NEW t \in Tasks, Cancel(t)
      PROVE  WireOK' /\ DeskOK'
  <2>1. [task |-> t, cancel |-> TRUE] \in Assignments
    BY DEF Assignments
  <2> QED
    BY <1>0, <1>1, <1>2, <1>4, <2>1, SendType DEF Cancel, DeskOK
<1>5. ASSUME NEW t \in Tasks, GrowOverdue(t)
      PROVE  WireOK' /\ DeskOK'
  BY <1>0, <1>1, <1>2, <1>5, SameWire DEF GrowOverdue, DeskOK
<1>6. CASE OnTaskStatus
  <2> DEFINE r == up[got + 1]
  <2>1. r \in Reports /\ got + 1 \in 0 .. Len(up)
    BY <1>6 DEF OnTaskStatus, WireOK
  <2>2. r.task \in Tasks /\ r.state \in Statuses
    BY <1>2, <2>1 DEF Reports
  <2>3. /\ orders' = [orders EXCEPT ![r.task] = r.state] /\ got' = got + 1
        /\ UNCHANGED <<asset, silent, sweep, connected, up, down, lost>>
    BY <1>6 DEF OnTaskStatus
  <2> HIDE DEF r
  <2> QED
    BY <1>0, <1>1, <2>1, <2>2, <2>3 DEF WireOK, DeskOK
<1>7. CASE OnHeartbeat
  BY <1>0, <1>7, SameWire DEF OnHeartbeat, DeskOK
<1>8. CASE Watch
  <2>1. CASE FindSilent
    BY <1>0, <2>1, SameWire DEF FindSilent, DeskOK, Sweeps
  <2>2. CASE MarkOffline
    BY <1>0, <2>2, SameWire DEF MarkOffline, DeskOK, Sweeps
  <2>3. CASE NoneOpen
    BY <1>0, <2>3, SameWire DEF NoneOpen, DeskOK
  <2>4. CASE FindOverdue
    <3>1. Overdue \in SUBSET Tasks
      BY DEF Overdue, InState
    <3> QED
      BY <1>0, <2>4, <3>1, SameWire DEF FindOverdue, DeskOK
  <2>5. ASSUME NEW t \in Tasks, FailFirst(t)
        PROVE  WireOK' /\ DeskOK'
    <3>1. OpenOrders \ {t} \in SUBSET Tasks
      BY DEF OpenOrders, InState
    <3> QED
      BY <1>0, <1>1, <1>2, <2>5, <3>1, SameWire DEF FailFirst, DeskOK
  <2>6. ASSUME NEW t \in Tasks, FailNext(t)
        PROVE  WireOK' /\ DeskOK'
    <3>1. sweep.read \ {t} \in SUBSET Tasks
      BY <1>0 DEF Sweeps
    <3> QED
      BY <1>0, <1>1, <1>2, <2>6, <3>1, SameWire DEF FailNext, DeskOK
  <2> QED
    BY <1>8, <2>1, <2>2, <2>3, <2>4, <2>5, <2>6 DEF Watch
<1> QED
  BY <1>3, <1>4, <1>5, <1>6, <1>7, <1>8 DEF DeskStep

------------------------------------------------------------------------------
(* The system.                                                                *)

LEMMA InitIInv == Init => IInv
<1> SUFFICES ASSUME Init PROVE IInv
  OBVIOUS
<1>1. WireOK
  <2>1. connected = FALSE /\ up = <<>> /\ got = 0 /\ down = <<>> /\ lost = {}
    BY DEF Init, WireInit
  <2>2. /\ up \in Seq(Reports) /\ Len(up) <= MaxUp /\ got \in 0 .. Len(up)
        /\ down \in Seq(Assignments) /\ Len(down) <= MaxDown
    BY <2>1, Empty
  <2> QED
    BY <2>1, <2>2 DEF WireOK
<1>2. DeskOK
  BY Sweeping DEF Init, DeskInit, DeskOK, Statuses
<1> QED
  BY <1>1, <1>2, MachineStarts DEF Init, IInv, TypeOK, MachineInv

LEMMA NextIInv == IInv /\ [Next]_vars => IInv'
<1> SUFFICES ASSUME IInv, [Next]_vars PROVE IInv'
  OBVIOUS
<1>0. WireOK /\ MachineInv /\ DeskOK
  BY DEF IInv, TypeOK, MachineInv
<1>1. UNCHANGED desk => DeskOK'
  BY <1>0 DEF DeskOK, desk
<1>2. UNCHANGED machine => MachineInv'
  BY <1>0 DEF machine, MachineInv, MachineOK, Rest, Holding, Counted, MotionIsOrdered
<1>3. CASE MachineNext /\ UNCHANGED desk
  BY <1>0, <1>1, <1>3, MachineStep DEF IInv, TypeOK, MachineInv
<1>4. CASE DeskStep /\ UNCHANGED machine
  BY <1>0, <1>2, <1>4, DeskStepType DEF IInv, TypeOK, MachineInv
<1>5. CASE (LinkUp \/ LinkDown \/ Acknowledge) /\ UNCHANGED <<machine, desk>>
  BY <1>0, <1>1, <1>2, <1>5, LinkType DEF IInv, TypeOK, MachineInv
<1>6. CASE FallSilent
  <2>1. DeskOK'
    BY <1>0, <1>6 DEF FallSilent, DeskOK
  <2> QED
    BY <1>0, <1>2, <1>6, <2>1, SameWire DEF FallSilent, IInv, TypeOK, MachineInv
<1>7. CASE UNCHANGED vars
  BY <1>0, <1>1, <1>2, <1>7, SameWire DEF vars, IInv, TypeOK, MachineInv
<1> QED
  BY <1>3, <1>4, <1>5, <1>6, <1>7 DEF Next

\* Every state of every run has the types the modules declare
\* (worldmodel.py, core.py, local_world.py), and satisfies the invariant.
THEOREM SpecIInv == Spec => []IInv
  BY InitIInv, NextIInv, PTL DEF Spec

\* The same, for the types alone.
THEOREM SpecTypeOK == Spec => []TypeOK
<1>1. IInv => TypeOK
  BY DEF IInv
<1> QED
  BY <1>1, SpecIInv, PTL

\* Law 15: whatever the link loses or repeats and whenever the process dies, a
\* machine drives only on an order taken since its process started, or to where
\* Nav2, which outlives that process, was sent by an earlier one; and by the direct
\* navigator only while it holds an order (core.py:_evaluate_recovered,
\* _accept_or_refuse, _finish, ros/launch/pilot_nav2.py:11).
THEOREM SpecMotionIsOrdered == Spec => []MotionIsOrdered
<1>1. IInv => MotionIsOrdered
  BY DEF IInv
<1> QED
  BY <1>1, SpecIInv, PTL

------------------------------------------------------------------------------
(* Agreement.                                                                 *)

Ended == {"done", "failed", "cancelled"}

\* Orders and cancellations that the core has yet to look at, oldest first.
OnTheWay == inbox \o down
Cancelling(t) == \E i \in DOMAIN OnTheWay : OnTheWay[i].task = t /\ OnTheWay[i].cancel

\* Reports that TRACK has not been handed in this session.
Unheard(t) == \E i \in DOMAIN up : i > got /\ up[i].task = t

\* The machine has the order, also while it is off, and has not told its ending.
Holds(t) == disk = t /\ at \notin {"ending", "dropping"}

\* A machine's words last as long as its process: an order it calls under way it
\* holds, unless a later word ends it, and one it calls ended it does not hold.
WordKept(t) ==
    \A i \in DOMAIN up : up[i].task = t =>
       /\ up[i].state \notin Ended =>
             \/ Holds(t)
             \/ \E j \in DOMAIN up : j > i /\ up[j].task = t /\ up[j].state \in Ended
       /\ up[i].state \in Ended => ~Holds(t)
       /\ up[i].state \in Ended /\ at = "dropping" /\ disk = t => up[i].state = "failed"

\* What TRACK shows is so, or a word that it has yet to hear, or a cancellation
\* the machine has yet to look at, will make it so.
Known(t) ==
    /\ orders[t] \in {"accepted", "running"} => Holds(t) \/ Unheard(t)
    /\ orders[t] = "done" => ~Holds(t)
    /\ orders[t] = "cancelled" => ~Holds(t) \/ Cancelling(t)
    /\ at = "dropping" /\ disk = t => orders[t] = "failed" \/ Unheard(t)

\* An order is sent once and before what cancels it; while it is on its way
\* nothing has come of it.
Coming(t) ==
    \A i \in DOMAIN OnTheWay : OnTheWay[i].task = t /\ ~OnTheWay[i].cancel =>
       /\ disk # t /\ t \notin About(up) /\ orders[t] \notin {"none", "done"}
       /\ \A j \in DOMAIN OnTheWay : OnTheWay[j].task = t /\ j # i => j > i /\ OnTheWay[j].cancel
       /\ orders[t] = "cancelled" /\ t \notin lost => Cancelling(t)

Unissued(t) == orders[t] = "none" => t \notin About(OnTheWay) /\ t \notin About(up) /\ disk # t

Posted == \A t \in Tasks : Coming(t) /\ Unissued(t)
Kept == \A t \in Tasks \ (lost \cup replaced) : WordKept(t) /\ Known(t)

AgreementInv ==
    /\ IInv
    /\ at # "off" => current = disk
    /\ Posted
    /\ Kept

LEMMA Pipe ==
  ASSUME IInv
  PROVE  /\ inbox \in Seq(Assignments) /\ down \in Seq(Assignments) /\ OnTheWay \in Seq(Assignments)
         /\ up \in Seq(Reports) /\ got \in 0 .. Len(up) /\ lost \subseteq Tasks
         /\ \A i \in DOMAIN OnTheWay : OnTheWay[i].task \in Tasks /\ OnTheWay[i].cancel \in BOOLEAN
         /\ \A i \in DOMAIN up : up[i].task \in Tasks /\ up[i].state \in Told
<1>1. inbox \in Seq(Assignments) /\ down \in Seq(Assignments)
  BY DEF IInv, TypeOK, WireOK, MachineOK
<1>2. OnTheWay \in Seq(Assignments)
  BY <1>1 DEF OnTheWay
<1>3. up \in Seq(Reports) /\ got \in 0 .. Len(up) /\ lost \subseteq Tasks
  BY DEF IInv, TypeOK, WireOK
<1>4. \A i \in DOMAIN OnTheWay : OnTheWay[i].task \in Tasks /\ OnTheWay[i].cancel \in BOOLEAN
  <2>1. \A i \in DOMAIN OnTheWay : OnTheWay[i] \in Assignments
    BY <1>2
  <2> QED
    BY <2>1 DEF Assignments
<1>5. \A i \in DOMAIN up : up[i].task \in Tasks /\ up[i].state \in Told
  <2>1. \A i \in DOMAIN up : up[i] \in Reports
    BY <1>3
  <2> QED
    BY <2>1 DEF Reports
<1> QED
  BY <1>1, <1>2, <1>3, <1>4, <1>5

\* HandOver moves a message within the pipe; looking at one takes the oldest.
LEMMA PipeMoves ==
  ASSUME NEW a \in Seq(Assignments), NEW b \in Seq(Assignments)
  PROVE  /\ b # <<>> => Append(a, Head(b)) \o Tail(b) = a \o b
         /\ a # <<>> => Tail(a) \o b = Tail(a \o b) /\ Head(a \o b) = Head(a) /\ a \o b # <<>>
<1> DEFINE S == Assignments
<1> HIDE DEF S
<1>0. a \in Seq(S) /\ b \in Seq(S)
  BY DEF S
<1>1. ASSUME b # <<>> PROVE Append(a, Head(b)) \o Tail(b) = a \o b
  <2> DEFINE l == Append(a, Head(b)) \o Tail(b)
             r == a \o b
  <2>1. l \in Seq(S) /\ r \in Seq(S) /\ Len(l) = Len(r)
    BY <1>0, <1>1
  <2>2. \A i \in 1 .. Len(l) : l[i] = r[i]
    BY <1>0, <1>1
  <2> HIDE DEF l, r
  <2>3. l = r
    BY <2>1, <2>2, SeqEqual
  <2> QED
    BY <2>3 DEF l, r
<1>2. ASSUME a # <<>> PROVE Tail(a) \o b = Tail(a \o b)
  <2> DEFINE l == Tail(a) \o b
             r == Tail(a \o b)
  <2>1. l \in Seq(S) /\ r \in Seq(S) /\ Len(l) = Len(r)
    BY <1>0, <1>2
  <2>2. \A i \in 1 .. Len(l) : l[i] = r[i]
    BY <1>0, <1>2
  <2> HIDE DEF l, r
  <2>3. l = r
    BY <2>1, <2>2, SeqEqual
  <2> QED
    BY <2>3 DEF l, r
<1>3. a # <<>> => Head(a \o b) = Head(a) /\ a \o b # <<>>
  OBVIOUS
<1> QED
  BY <1>1, <1>2, <1>3

\* A step in which nothing is issued, cancelled or looked at.
LEMMA PostedSame ==
  ASSUME AgreementInv, OnTheWay' = OnTheWay, orders' = orders, lost \subseteq lost',
         disk' \in {disk, NoTask},
         \A t \in Tasks : t \in About(up') => t \in About(up) \/ disk = t
  PROVE  Posted'
<1> USE NoTaskAssumption
<1>1. ASSUME NEW t \in Tasks PROVE Coming(t)'
  <2>1. Coming(t)
    BY DEF AgreementInv, Posted
  <2>2. Cancelling(t)' = Cancelling(t)
    BY DEF Cancelling
  <2> QED
    BY <2>1, <2>2 DEF Coming
<1>2. ASSUME NEW t \in Tasks PROVE Unissued(t)'
  BY DEF AgreementInv, Posted, Unissued
<1> QED
  BY <1>1, <1>2 DEF Posted

\* The core looks at the oldest message, and whatever it does is about that order.
LEMMA PostedTaken ==
  ASSUME AgreementInv, NEW c \in Tasks, OnTheWay # <<>>, c = Head(OnTheWay).task,
         OnTheWay' = Tail(OnTheWay), orders' = orders, lost \subseteq lost',
         disk' \in {disk, c},
         \A t \in Tasks : t \in About(up') => t \in About(up) \/ t = c
  PROVE  Posted'
<1> DEFINE q == OnTheWay
           p == Tail(q)
<1>1. /\ q \in Seq(Assignments) /\ \A i \in DOMAIN q : q[i].cancel \in BOOLEAN
      /\ DOMAIN q = 1 .. Len(q) /\ Len(q) \in Nat \ {0} /\ c = q[1].task
      /\ DOMAIN p = 1 .. Len(q) - 1 /\ \A i \in DOMAIN p : p[i] = q[i + 1]
  BY Pipe DEF AgreementInv
<1> HIDE DEF p
<1>2. \A t \in Tasks : Coming(t) /\ Unissued(t)
  BY DEF AgreementInv, Posted
<1>3. ASSUME NEW i \in DOMAIN p PROVE ~(p[i].task = c /\ ~p[i].cancel)
  <2> SUFFICES ASSUME p[i].task = c, ~p[i].cancel PROVE FALSE
    OBVIOUS
  <2>1. i + 1 \in DOMAIN q /\ 1 \in DOMAIN q /\ q[i + 1].task = c /\ ~q[i + 1].cancel /\ i + 1 # 1
    BY <1>1, <1>3
  <2> QED
    BY <1>1, <1>2, <2>1 DEF Coming
<1>4. ASSUME NEW t \in Tasks, t # c, Cancelling(t) PROVE Cancelling(t)'
  <2>1. PICK k \in DOMAIN q : q[k].task = t /\ q[k].cancel
    BY <1>4 DEF Cancelling
  <2>2. k # 1 /\ k - 1 \in DOMAIN p /\ p[k - 1] = q[k]
    BY <1>1, <1>4, <2>1
  <2> QED
    BY <2>1, <2>2 DEF Cancelling, p
<1>5. ASSUME NEW t \in Tasks PROVE Coming(t)'
  <2>1. CASE t = c
    BY <1>3, <2>1 DEF Coming, p
  <2>2. CASE t # c
    <3> SUFFICES ASSUME NEW i \in DOMAIN p, p[i].task = t, ~p[i].cancel
                 PROVE  /\ disk' # t /\ t \notin About(up') /\ orders'[t] \notin {"none", "done"}
                        /\ \A j \in DOMAIN p : p[j].task = t /\ j # i => j > i /\ p[j].cancel
                        /\ orders'[t] = "cancelled" /\ t \notin lost' => Cancelling(t)'
      BY DEF Coming, p
    <3>1. i + 1 \in DOMAIN q /\ q[i + 1].task = t /\ ~q[i + 1].cancel
      BY <1>1
    <3>2. /\ disk # t /\ t \notin About(up) /\ orders[t] \notin {"none", "done"}
          /\ \A j \in DOMAIN q : q[j].task = t /\ j # i + 1 => j > i + 1 /\ q[j].cancel
          /\ orders[t] = "cancelled" /\ t \notin lost => Cancelling(t)
      BY <1>2, <3>1 DEF Coming
    <3>3. ASSUME NEW j \in DOMAIN p, p[j].task = t, j # i PROVE j > i /\ p[j].cancel
      <4>1. j + 1 \in DOMAIN q /\ q[j + 1].task = t /\ j + 1 # i + 1
        BY <1>1, <3>3
      <4> QED
        BY <1>1, <3>2, <3>3, <4>1
    <3> QED
      BY <1>4, <2>2, <3>2, <3>3
  <2> QED
    BY <2>1, <2>2
<1>6. ASSUME NEW t \in Tasks, orders'[t] = "none"
      PROVE  t \notin About(OnTheWay') /\ t \notin About(up') /\ disk' # t
  <2>1. t \notin About(q) /\ t \notin About(up) /\ disk # t
    BY <1>2, <1>6 DEF Unissued
  <2>2. t # c
    BY <1>1, <2>1 DEF About
  <2>3. t \notin About(p)
    BY <1>1, <2>1 DEF About
  <2> QED
    BY <2>1, <2>2, <2>3 DEF p
<1> QED
  BY <1>5, <1>6 DEF Posted, Unissued

\* A message is sent: an order that was not issued before, or a cancellation.
LEMMA PostedSent ==
  ASSUME AgreementInv, NEW c \in Tasks, NEW b \in BOOLEAN,
         Send([task |-> c, cancel |-> b]), UNCHANGED <<inbox, disk, up>>,
         \A t \in Tasks : t # c => orders'[t] = orders[t],
         ~b => orders[c] = "none" /\ orders'[c] = "pending",
         b => orders[c] \in Open /\ orders'[c] = "cancelled"
  PROVE  /\ Posted'
         /\ \A t \in Tasks : Cancelling(t) => Cancelling(t)'
         /\ b => c \in lost' \/ Cancelling(c)'
         /\ lost \subseteq lost'
<1> DEFINE q == OnTheWay
           m == [task |-> c, cancel |-> b]
<1>0. \A t \in Tasks : Coming(t) /\ Unissued(t)
  BY DEF AgreementInv, Posted
<1>1. CASE ~connected
  <2>1. OnTheWay' = OnTheWay /\ lost' = lost \cup {c}
    BY <1>1 DEF Send, OnTheWay
  <2>2. \A t \in Tasks : Cancelling(t)' = Cancelling(t)
    BY <2>1 DEF Cancelling
  <2>3. ASSUME NEW t \in Tasks PROVE Coming(t)' /\ Unissued(t)'
    <3>1. CASE t # c
      BY <1>0, <2>1, <2>2, <3>1 DEF Coming, Unissued
    <3>2. CASE t = c /\ b
      BY <1>0, <2>1, <3>2 DEF Coming, Unissued
    <3>3. CASE t = c /\ ~b
      BY <1>0, <2>1, <3>3 DEF Coming, Unissued, About
    <3> QED
      BY <3>1, <3>2, <3>3
  <2> QED
    BY <2>1, <2>2, <2>3 DEF Posted
<1>2. CASE connected
  <2>1. /\ q \in Seq(Assignments) /\ q' \in Seq(Assignments) /\ lost' = lost
        /\ DOMAIN q = 1 .. Len(q) /\ DOMAIN q' = 1 .. Len(q) + 1 /\ Len(q) \in Nat
        /\ \A i \in DOMAIN q : q'[i] = q[i] /\ i < Len(q) + 1
        /\ q'[Len(q) + 1] = m
    <3>1. inbox \in Seq(Assignments) /\ down \in Seq(Assignments) /\ m \in Assignments
      BY Pipe DEF AgreementInv, Assignments
    <3>2. down' = Append(down, m) /\ inbox' = inbox /\ lost' = lost
      BY <1>2 DEF Send
    <3>3. q' = inbox \o Append(down, m) /\ q = inbox \o down
      BY <3>2 DEF OnTheWay
    <3> HIDE DEF m, q
    <3> QED
      BY <3>1, <3>2, <3>3
  <2> DEFINE n == Len(q) + 1
  <2>2. \A i \in DOMAIN q' : i \in DOMAIN q \/ i = n
    BY <2>1
  <2>3. n \in DOMAIN q' /\ q'[n].task = c /\ q'[n].cancel = b
    BY <2>1
  <2>4. \A t \in Tasks : Cancelling(t) => Cancelling(t)'
    BY <2>1 DEF Cancelling
  <2>5. b => Cancelling(c)'
    BY <2>3 DEF Cancelling
  <2>6. \A i \in DOMAIN q : i \in DOMAIN q'
    BY <2>1
  <2>7. ASSUME NEW t \in Tasks, t # c PROVE Coming(t)' /\ Unissued(t)'
    <3>1. \A i \in DOMAIN q' : q'[i].task = t => i \in DOMAIN q /\ q'[i] = q[i]
      BY <2>1, <2>2, <2>3, <2>7
    <3>2. Unissued(t)'
      BY <1>0, <2>7, <3>1 DEF Unissued, About
    <3>3. Coming(t)'
      BY <1>0, <2>1, <2>4, <2>7, <3>1 DEF Coming
    <3> QED
      BY <3>2, <3>3
  <2>8. CASE ~b
    <3>1. c \notin About(q) /\ c \notin About(up) /\ disk # c
      BY <1>0, <2>8 DEF Unissued
    <3>2. \A i \in DOMAIN q' : q'[i].task = c => i = n
      BY <2>1, <2>2, <3>1 DEF About
    <3>3. Coming(c)' /\ Unissued(c)'
      BY <2>8, <3>1, <3>2 DEF Coming, Unissued
    <3> QED
      BY <2>1, <2>4, <2>7, <2>8, <3>3 DEF Posted
  <2>9. CASE b
    <3>1. Unissued(c)'
      BY <2>9 DEF Unissued
    <3>2. ASSUME NEW i \in DOMAIN q', q'[i].task = c, ~q'[i].cancel
          PROVE  /\ disk' # c /\ c \notin About(up') /\ orders'[c] \notin {"none", "done"}
                 /\ \A j \in DOMAIN q' : q'[j].task = c /\ j # i => j > i /\ q'[j].cancel
      <4>1. i \in DOMAIN q /\ q[i].task = c /\ ~q[i].cancel /\ i < n
        BY <2>1, <2>2, <2>3, <2>9, <3>2
      <4>2. /\ disk # c /\ c \notin About(up)
            /\ \A j \in DOMAIN q : q[j].task = c /\ j # i => j > i /\ q[j].cancel
        BY <1>0, <4>1 DEF Coming
      <4>3. ASSUME NEW j \in DOMAIN q', q'[j].task = c, j # i PROVE j > i /\ q'[j].cancel
        <5>1. CASE j = n
          BY <2>1, <2>3, <2>9, <4>1, <5>1
        <5>2. CASE j \in DOMAIN q
          BY <2>1, <4>2, <4>3, <5>2
        <5> QED
          BY <2>2, <5>1, <5>2
      <4> QED
        BY <2>9, <4>2, <4>3
    <3>3. Coming(c)'
      BY <2>5, <2>9, <3>2 DEF Coming
    <3> QED
      BY <2>1, <2>4, <2>5, <2>7, <3>1, <3>3 DEF Posted
  <2> QED
    BY <2>8, <2>9
<1> QED
  BY <1>1, <1>2

\* Whatever of the pipe is dropped is among what was lost.
LEMMA PostedCut ==
  ASSUME AgreementInv, orders' = orders, disk' = disk, lost \subseteq lost',
         up' \in {up, <<>>}, down' = <<>>, inbox' \in {inbox, <<>>},
         About(down) \subseteq lost', inbox' = inbox \/ About(inbox) \subseteq lost'
  PROVE  /\ Posted'
         /\ \A t \in Tasks \ lost' : Cancelling(t) => Cancelling(t)'
<1> DEFINE q == OnTheWay
<1>0. \A t \in Tasks : Coming(t) /\ Unissued(t)
  BY DEF AgreementInv, Posted
<1>1. inbox \in Seq(Assignments) /\ down \in Seq(Assignments)
  BY Pipe DEF AgreementInv
<1>2. /\ Len(inbox) \in Nat /\ DOMAIN q = 1 .. Len(q) /\ Len(q) = Len(inbox) + Len(down)
      /\ \A i \in 1 .. Len(inbox) : q[i] = inbox[i]
      /\ \A i \in DOMAIN q : i > Len(inbox) => q[i] = down[i - Len(inbox)] /\ i - Len(inbox) \in DOMAIN down
  BY <1>1 DEF OnTheWay
<1>3. /\ OnTheWay' = inbox' /\ DOMAIN inbox = 1 .. Len(inbox)
      /\ \A i \in DOMAIN OnTheWay' : i \in DOMAIN inbox /\ OnTheWay'[i] = inbox[i]
      /\ inbox' = inbox => DOMAIN OnTheWay' = DOMAIN inbox
  BY <1>1 DEF OnTheWay
<1>4. \A i \in DOMAIN OnTheWay' : i \in DOMAIN q /\ OnTheWay'[i] = q[i]
  BY <1>1, <1>2, <1>3
<1>5. ASSUME NEW t \in Tasks \ lost', Cancelling(t) PROVE Cancelling(t)'
  <2>1. PICK i \in DOMAIN q : q[i].task = t /\ q[i].cancel
    BY <1>5 DEF Cancelling
  <2>2. CASE i > Len(inbox)
    BY <1>2, <1>5, <2>1, <2>2 DEF About
  <2>3. CASE i <= Len(inbox)
    <3>1. i \in DOMAIN inbox /\ q[i] = inbox[i]
      BY <1>2, <1>3, <2>1, <2>3
    <3>2. inbox' = inbox
      BY <1>5, <2>1, <3>1 DEF About
    <3> QED
      BY <1>3, <2>1, <3>1, <3>2 DEF Cancelling
  <2> QED
    BY <1>2, <2>1, <2>2, <2>3
<1>6. \A t \in Tasks : t \in About(up') => t \in About(up)
  BY DEF About
<1> HIDE DEF q
<1>7. ASSUME NEW t \in Tasks PROVE Coming(t)'
  <2> SUFFICES ASSUME NEW i \in DOMAIN OnTheWay', OnTheWay'[i].task = t, ~OnTheWay'[i].cancel
               PROVE  /\ disk' # t /\ t \notin About(up') /\ orders'[t] \notin {"none", "done"}
                      /\ \A j \in DOMAIN OnTheWay' : OnTheWay'[j].task = t /\ j # i =>
                            j > i /\ OnTheWay'[j].cancel
                      /\ orders'[t] = "cancelled" /\ t \notin lost' => Cancelling(t)'
    BY DEF Coming
  <2>1. i \in DOMAIN q /\ q[i].task = t /\ ~q[i].cancel
    BY <1>4
  <2>2. /\ disk # t /\ t \notin About(up) /\ orders[t] \notin {"none", "done"}
        /\ \A j \in DOMAIN q : q[j].task = t /\ j # i => j > i /\ q[j].cancel
        /\ orders[t] = "cancelled" /\ t \notin lost => Cancelling(t)
    BY <1>0, <2>1 DEF Coming, q
  <2> QED
    BY <1>4, <1>5, <1>6, <2>2
<1>8. ASSUME NEW t \in Tasks PROVE Unissued(t)'
  <2>1. t \in About(OnTheWay') => t \in About(OnTheWay)
    BY <1>4 DEF About, q
  <2> QED
    BY <1>0, <1>6, <2>1 DEF Unissued
<1> QED
  BY <1>5, <1>7, <1>8 DEF Posted

\* What a machine says of an order: it is under way and the machine holds it, or
\* it is over and the machine does not, any more.  Other orders are not touched.
LEMMA KeptTelling ==
  ASSUME AgreementInv, NEW c \in Tasks, NEW r \in Seq(Reports), r # <<>>,
         \A i \in DOMAIN r : r[i].task = c,
         Tell(r), UNCHANGED <<orders, replaced>>,
         \/ /\ \A i \in DOMAIN r : r[i].state \notin Ended
            /\ Holds(c) /\ Holds(c)'
         \/ /\ \A i \in DOMAIN r : r[i].state \in Ended
            /\ ~Holds(c)'
            /\ at' = "dropping" /\ disk' = c => Holds(c) /\ \A i \in DOMAIN r : r[i].state = "failed",
         \A t \in Tasks : t # c => /\ Holds(t)' = Holds(t)
                                   /\ at' = "dropping" /\ disk' = t => at = "dropping" /\ disk = t
                                   /\ Cancelling(t) => Cancelling(t)',
         Cancelling(c) => Cancelling(c)' \/ ~Holds(c)'
  PROVE  Kept'
<1>0. /\ up \in Seq(Reports) /\ got \in 0 .. Len(up) /\ Len(up) \in Nat
      /\ DOMAIN up = 1 .. Len(up) /\ Len(r) \in Nat /\ DOMAIN r = 1 .. Len(r) /\ Len(r) # 0
  BY Pipe DEF AgreementInv
<1>k. \A t \in Tasks \ (lost \cup replaced) : WordKept(t) /\ Known(t)
  BY DEF AgreementInv, Kept
<1>1. CASE ~connected
  <2>1. up' = up /\ got' = got /\ lost' = lost \cup Endings(r)
    BY <1>1 DEF Tell
  <2>2. \A i \in DOMAIN r : r[i].state \in Ended => c \in lost'
    BY <2>1 DEF Endings, Ended
  <2>3. ASSUME NEW t \in Tasks \ (lost' \cup replaced') PROVE WordKept(t)' /\ Known(t)'
    <3>1. WordKept(t) /\ Known(t)
      BY <1>k, <2>1, <2>3
    <3>2. Unheard(t)' = Unheard(t)
      BY <2>1 DEF Unheard
    <3>3. CASE t # c
      BY <2>1, <3>1, <3>2, <3>3 DEF WordKept, Known
    <3>4. CASE t = c
      <4>1. 1 \in DOMAIN r
        BY <1>0
      <4>2. Holds(c) /\ Holds(c)'
        BY <2>2, <2>3, <3>4, <4>1
      <4>3. ~(at' = "dropping")
        BY <4>2 DEF Holds
      <4> QED
        BY <2>1, <3>1, <3>2, <3>4, <4>2, <4>3 DEF WordKept, Known
    <3> QED
      BY <3>3, <3>4
  <2> QED
    BY <2>3 DEF Kept
<1>2. CASE connected
  <2>1. up' = up \o r /\ got' = got /\ lost' = lost
    BY <1>2 DEF Tell
  <2>2. /\ DOMAIN up' = 1 .. Len(up) + Len(r)
        /\ \A i \in DOMAIN up : i \in DOMAIN up' /\ up'[i] = up[i]
        /\ \A i \in DOMAIN up' : i \notin DOMAIN up =>
              i > Len(up) /\ i - Len(up) \in DOMAIN r /\ up'[i] = r[i - Len(up)]
        /\ \A i \in DOMAIN r : i + Len(up) \in DOMAIN up' /\ up'[i + Len(up)] = r[i]
    BY <1>0, <2>1
  <2>3. ASSUME NEW t \in Tasks \ (lost' \cup replaced'), t # c PROVE WordKept(t)' /\ Known(t)'
    <3>1. WordKept(t) /\ Known(t)
      BY <1>k, <2>1, <2>3
    <3>2. \A i \in DOMAIN up' : up'[i].task = t => i \in DOMAIN up /\ up'[i] = up[i]
      BY <2>2, <2>3
    <3>3. Unheard(t)' = Unheard(t)
      BY <2>1, <2>2, <3>2 DEF Unheard
    <3>4. WordKept(t)'
      BY <2>2, <2>3, <3>1, <3>2 DEF WordKept
    <3> QED
      BY <2>3, <3>1, <3>3, <3>4 DEF Known
  <2>4. ASSUME c \notin lost' \cup replaced' PROVE WordKept(c)' /\ Known(c)'
    <3>1. WordKept(c) /\ Known(c)
      BY <1>k, <2>1, <2>4
    <3>2. 1 \in DOMAIN r /\ 1 + Len(up) \in DOMAIN up' /\ up'[1 + Len(up)] = r[1] /\ 1 + Len(up) > got
      BY <1>0, <2>2
    <3>3. Unheard(c)'
      BY <2>1, <3>2 DEF Unheard
    <3>4. CASE (\A i \in DOMAIN r : r[i].state \notin Ended) /\ Holds(c) /\ Holds(c)'
      <4>1. \A i \in DOMAIN up' : up'[i].task = c /\ up'[i].state \in Ended => i \in DOMAIN up /\ up'[i] = up[i]
        BY <2>2, <3>4
      <4>2. WordKept(c)'
        BY <3>1, <3>4, <4>1 DEF WordKept
      <4> QED
        BY <3>1, <3>3, <3>4, <4>2 DEF Known, Holds
    <3>5. CASE /\ \A i \in DOMAIN r : r[i].state \in Ended
               /\ ~Holds(c)'
               /\ at' = "dropping" /\ disk' = c =>
                     Holds(c) /\ \A i \in DOMAIN r : r[i].state = "failed"
      <4>1. ASSUME NEW i \in DOMAIN up', up'[i].task = c, up'[i].state \notin Ended
            PROVE  \E j \in DOMAIN up' : j > i /\ up'[j].task = c /\ up'[j].state \in Ended
        <5>1. i \in DOMAIN up
          BY <2>2, <3>5, <4>1
        <5>2. 1 + Len(up) > i
          BY <1>0, <5>1
        <5> QED
          BY <3>2, <3>5, <5>2
      <4>2. ASSUME NEW i \in DOMAIN up', up'[i].task = c, up'[i].state \in Ended,
                   at' = "dropping", disk' = c
            PROVE  up'[i].state = "failed"
        <5>1. CASE i \notin DOMAIN up
          BY <2>2, <3>5, <4>2, <5>1
        <5>2. CASE i \in DOMAIN up
          <6>1. up[i] = up'[i] /\ up[i].state \in Ended /\ up[i].task = c
            BY <2>2, <4>2, <5>2
          <6>2. ~Holds(c)
            BY <3>1, <5>2, <6>1 DEF WordKept
          <6> QED
            BY <3>5, <4>2, <6>2
        <5> QED
          BY <5>1, <5>2
      <4>3. WordKept(c)'
        BY <3>5, <4>1, <4>2 DEF WordKept
      <4> QED
        BY <3>3, <3>5, <4>3 DEF Known
    <3> QED
      BY <3>4, <3>5
  <2> QED
    BY <2>3, <2>4 DEF Kept
<1> QED
  BY <1>1, <1>2

\* Nothing is said or heard, and every order is held or not as before.
LEMMA KeptSilent ==
  ASSUME AgreementInv, UNCHANGED <<up, got, orders>>, lost \subseteq lost', replaced \subseteq replaced',
         \A t \in Tasks \ (lost' \cup replaced') :
            /\ Holds(t)' = Holds(t)
            /\ at' = "dropping" /\ disk' = t => at = "dropping" /\ disk = t
            /\ Cancelling(t) => Cancelling(t)' \/ ~Holds(t)
  PROVE  Kept'
<1> SUFFICES ASSUME NEW t \in Tasks \ (lost' \cup replaced') PROVE WordKept(t)' /\ Known(t)'
  BY DEF Kept
<1>1. WordKept(t) /\ Known(t)
  BY DEF AgreementInv, Kept
<1>2. Unheard(t)' = Unheard(t)
  BY DEF Unheard
<1> QED
  BY <1>1, <1>2 DEF WordKept, Known

\* An order is taken up; the one it takes the place of is not looked at again.
LEMMA KeptAccept ==
  ASSUME AgreementInv, NEW c \in Tasks, OnTheWay # <<>>, ~Head(OnTheWay).cancel,
         c = Head(OnTheWay).task, OnTheWay' = Tail(OnTheWay),
         UNCHANGED <<up, got, orders, lost>>, disk' = c, at = "loop", at' = "accepted",
         replaced' = IF current = NoTask THEN replaced ELSE replaced \cup {current}
  PROVE  Kept'
<1> DEFINE q == OnTheWay
<1>1. /\ q \in Seq(Assignments) /\ DOMAIN q = 1 .. Len(q) /\ Len(q) \in Nat \ {0} /\ q[1] = Head(q)
      /\ DOMAIN Tail(q) = 1 .. Len(q) - 1 /\ \A i \in DOMAIN Tail(q) : Tail(q)[i] = q[i + 1]
  BY Pipe DEF AgreementInv
<1>2. current = disk /\ current \in Tasks \cup {NoTask}
  BY DEF AgreementInv, IInv, TypeOK, MachineOK
<1>3. 1 \in DOMAIN q /\ q[1].task = c /\ ~q[1].cancel
  BY <1>1
<1>4. /\ disk # c /\ c \notin About(up) /\ orders[c] \notin {"none", "done"}
      /\ orders[c] = "cancelled" /\ c \notin lost => Cancelling(c)
  BY <1>3 DEF AgreementInv, Posted, Coming
<1>5. ASSUME NEW t \in Tasks, Cancelling(t) PROVE Cancelling(t)'
  <2>1. PICK k \in DOMAIN q : q[k].task = t /\ q[k].cancel
    BY <1>5 DEF Cancelling
  <2>2. k # 1
    BY <1>3, <2>1
  <2>3. k - 1 \in DOMAIN Tail(q) /\ Tail(q)[k - 1] = q[k]
    BY <1>1, <2>1, <2>2
  <2> QED
    BY <2>1, <2>3 DEF Cancelling
<1> HIDE DEF q
<1>6. ASSUME NEW t \in Tasks \ (lost' \cup replaced'), t # c PROVE WordKept(t)' /\ Known(t)'
  <2>1. WordKept(t) /\ Known(t)
    BY <1>6 DEF AgreementInv, Kept
  <2>2. disk # t /\ disk' # t
    BY <1>2, <1>6, NoTaskAssumption
  <2>3. Unheard(t)' = Unheard(t)
    BY DEF Unheard
  <2> QED
    BY <1>5, <2>1, <2>2, <2>3 DEF WordKept, Known, Holds
<1>7. ASSUME c \notin lost' PROVE WordKept(c)' /\ Known(c)'
  <2>1. \A i \in DOMAIN up : up[i].task # c
    BY <1>4 DEF About
  <2>2. Holds(c)'
    BY DEF Holds
  <2> QED
    BY <1>4, <1>5, <1>7, <2>1, <2>2 DEF WordKept, Known
<1> QED
  BY <1>6, <1>7 DEF Kept

\* The process dies.  An ending that TRACK has not been handed is lost with it,
\* so what it had yet to hear of the others is that they are under way.
LEMMA KeptCrash ==
  ASSUME AgreementInv, Crash, orders' = orders,
         \A t \in Tasks \ lost' : Cancelling(t) => Cancelling(t)'
  PROVE  Kept'
<1>0. /\ up \in Seq(Reports) /\ got \in 0 .. Len(up) /\ Len(up) \in Nat /\ DOMAIN up = 1 .. Len(up)
  BY Pipe DEF AgreementInv
<1>1. /\ up' = <<>> /\ disk' = disk /\ at' = "off" /\ replaced' = replaced /\ at # "off"
      /\ lost' = lost \cup About(down) \cup About(inbox)
                      \cup (IF at = "ending" THEN {current} ELSE {})
                      \cup Endings(SubSeq(up, got + 1, Len(up)))
  BY DEF Crash, Cut
<1>2. ASSUME NEW i \in DOMAIN up, i > got, up[i].state \in Ended PROVE up[i].task \in lost'
  <2> DEFINE rest == SubSeq(up, got + 1, Len(up))
  <2>1. i - got \in DOMAIN rest /\ rest[i - got] = up[i]
    BY <1>0, <1>2
  <2>2. up[i].task \in Endings(rest)
    BY <1>2, <2>1 DEF Endings, Ended
  <2> QED
    BY <1>1, <2>2
<1> SUFFICES ASSUME NEW t \in Tasks \ (lost' \cup replaced') PROVE WordKept(t)' /\ Known(t)'
  BY DEF Kept
<1>3. WordKept(t) /\ Known(t)
  BY <1>1 DEF AgreementInv, Kept
<1>4. WordKept(t)'
  BY <1>1 DEF WordKept
<1>5. at = "ending" => disk # t
  BY <1>1 DEF AgreementInv
<1>6. Unheard(t) => Holds(t)
  <2> SUFFICES ASSUME NEW i \in DOMAIN up, i > got, up[i].task = t PROVE Holds(t)
    BY DEF Unheard
  <2>1. up[i].state \notin Ended
    BY <1>2
  <2>2. CASE \E j \in DOMAIN up : j > i /\ up[j].task = t /\ up[j].state \in Ended
    BY <1>0, <1>2, <2>2
  <2> QED
    BY <1>3, <2>1, <2>2 DEF WordKept
<1>7. Holds(t)' => Holds(t) \/ orders[t] = "failed"
  BY <1>1, <1>3, <1>5, <1>6 DEF Holds, Known
<1>8. Holds(t) => Holds(t)'
  BY <1>1 DEF Holds
<1> QED
  BY <1>1, <1>3, <1>4, <1>6, <1>7, <1>8 DEF Known

\* The watchdog fails an order, or its acknowledgement timeout passes.
LEMMA KeptShelved ==
  ASSUME AgreementInv, NEW c \in Tasks, NEW s \in {"failed", "overdue"},
         s = "overdue" => orders[c] = "pending",
         orders' = [orders EXCEPT ![c] = s], UNCHANGED <<wire, machine>>
  PROVE  Posted' /\ Kept'
<1>0. /\ UNCHANGED <<up, got, lost, disk, at, replaced>> /\ OnTheWay' = OnTheWay
      /\ orders \in [Tasks -> Statuses]
  BY DEF wire, machine, OnTheWay, AgreementInv, IInv, TypeOK, DeskOK
<1>1. \A t \in Tasks : orders'[t] = IF t = c THEN s ELSE orders[t]
  BY <1>0
<1>2. \A t \in Tasks : Cancelling(t)' = Cancelling(t) /\ Unheard(t)' = Unheard(t) /\ Holds(t)' = Holds(t)
  BY <1>0 DEF Cancelling, Unheard, Holds
<1>3. ASSUME NEW t \in Tasks PROVE Coming(t)' /\ Unissued(t)'
  <2>1. Coming(t) /\ Unissued(t)
    BY DEF AgreementInv, Posted
  <2> QED
    BY <1>0, <1>1, <1>2, <2>1 DEF Coming, Unissued
<1>4. ASSUME NEW t \in Tasks \ (lost' \cup replaced') PROVE WordKept(t)' /\ Known(t)'
  <2>1. WordKept(t) /\ Known(t)
    BY <1>0, <1>4 DEF AgreementInv, Kept
  <2> QED
    BY <1>0, <1>1, <1>2, <2>1 DEF WordKept, Known
<1> QED
  BY <1>3, <1>4 DEF Posted, Kept

\* TRACK is handed the next report.
LEMMA KeptHeard ==
  ASSUME AgreementInv, OnTaskStatus, UNCHANGED machine
  PROVE  Posted' /\ Kept'
<1>p. PICK c, s : c = up[got + 1].task /\ s = up[got + 1].state
  OBVIOUS
<1>0. /\ up \in Seq(Reports) /\ got \in 0 .. Len(up) /\ Len(up) \in Nat /\ DOMAIN up = 1 .. Len(up)
      /\ \A i \in DOMAIN up : up[i].task \in Tasks /\ up[i].state \in Told
  BY Pipe DEF AgreementInv
<1>1. /\ UNCHANGED <<up, lost, disk, at, replaced>> /\ OnTheWay' = OnTheWay
      /\ orders \in [Tasks -> Statuses]
      /\ orders' = [orders EXCEPT ![c] = s] /\ got' = got + 1 /\ got < Len(up)
  BY <1>p DEF OnTaskStatus, wire, machine, OnTheWay, AgreementInv, IInv, TypeOK, DeskOK
<1>2. c \in Tasks /\ s \in Told /\ got + 1 \in DOMAIN up /\ c \in About(up)
  BY <1>0, <1>1, <1>p DEF About
<1>3. \A t \in Tasks : orders'[t] = IF t = c THEN s ELSE orders[t]
  BY <1>1, <1>2
<1>4. \A t \in Tasks : Cancelling(t)' = Cancelling(t) /\ Holds(t)' = Holds(t)
  BY <1>1 DEF Cancelling, Holds
<1>5. \A t \in Tasks : t # c => (Unheard(t) => Unheard(t)')
  BY <1>0, <1>1, <1>p DEF Unheard
<1>6. \A i \in DOMAIN up : i > got + 1 => (up[i].task = c => Unheard(c)')
  BY <1>1 DEF Unheard
<1>7. \A i \in DOMAIN up : up[i].task = up'[i].task /\ up[i].state = up'[i].state
  BY <1>1
<1>8. ASSUME NEW t \in Tasks PROVE Coming(t)' /\ Unissued(t)'
  <2>1. Coming(t) /\ Unissued(t)
    BY DEF AgreementInv, Posted
  <2>2. CASE t # c
    BY <1>1, <1>3, <1>4, <2>1, <2>2 DEF Coming, Unissued
  <2>3. CASE t = c
    BY <1>1, <1>2, <1>3, <2>1, <2>3 DEF Coming, Unissued, Told
  <2> QED
    BY <2>2, <2>3
<1>9. ASSUME NEW t \in Tasks \ (lost' \cup replaced') PROVE WordKept(t)' /\ Known(t)'
  <2>1. WordKept(t) /\ Known(t)
    BY <1>1, <1>9 DEF AgreementInv, Kept
  <2>2. WordKept(t)'
    BY <1>1, <1>4, <2>1 DEF WordKept
  <2>3. CASE t # c
    BY <1>1, <1>3, <1>4, <1>5, <2>1, <2>2, <2>3 DEF Known
  <2>4. CASE t = c
    <3>1. s \notin Ended => Holds(c) \/ Unheard(c)'
      BY <1>0, <1>2, <1>6, <1>p, <2>1, <2>4 DEF WordKept
    <3>2. s \in Ended => ~Holds(c) /\ (at = "dropping" /\ disk = c => s = "failed")
      BY <1>2, <1>p, <2>1, <2>4 DEF WordKept
    <3>3. s \notin Ended => s \in {"accepted", "running"}
      BY <1>2 DEF Told, Ended
    <3>4. orders'[c] = s /\ Holds(c)' = Holds(c)
      BY <1>2, <1>3, <1>4
    <3>5. at = "dropping" /\ disk = c => ~Holds(c)
      BY DEF Holds
    <3>6. Known(c)'
      BY <1>1, <3>1, <3>2, <3>3, <3>4, <3>5 DEF Known, Ended
    <3> QED
      BY <2>2, <2>4, <3>6
  <2> QED
    BY <2>3, <2>4
<1> QED
  BY <1>8, <1>9 DEF Posted, Kept

\* Orders go out.
LEMMA KeptSent ==
  ASSUME AgreementInv, NEW c \in Tasks, Issue(c) \/ Cancel(c), UNCHANGED machine
  PROVE  Posted' /\ Kept'
<1>0. /\ UNCHANGED <<up, got, disk, at, replaced, inbox>> /\ orders \in [Tasks -> Statuses]
  BY DEF Issue, Cancel, Send, machine, AgreementInv, IInv, TypeOK, DeskOK
<1>1. \A t \in Tasks : t # c => orders'[t] = orders[t]
  BY <1>0 DEF Issue, Cancel
<1>2. CASE Issue(c)
  <2>1. Send([task |-> c, cancel |-> FALSE]) /\ orders[c] = "none" /\ orders'[c] = "pending"
    BY <1>0, <1>2 DEF Issue
  <2>2. /\ Posted' /\ lost \subseteq lost'
        /\ \A t \in Tasks : Cancelling(t) => Cancelling(t)'
    BY <1>0, <1>1, <2>1, PostedSent
  <2>3. disk # c
    BY <2>1 DEF AgreementInv, Posted, Unissued
  <2>4. ASSUME NEW t \in Tasks \ (lost' \cup replaced') PROVE WordKept(t)' /\ Known(t)'
    <3>1. WordKept(t) /\ Known(t)
      BY <1>0, <2>2, <2>4 DEF AgreementInv, Kept
    <3> QED
      BY <1>0, <1>1, <2>1, <2>2, <2>3, <3>1 DEF WordKept, Known, Holds, Unheard
  <2> QED
    BY <2>2, <2>4 DEF Kept
<1>3. CASE Cancel(c)
  <2>1. Send([task |-> c, cancel |-> TRUE]) /\ orders[c] \in Open /\ orders'[c] = "cancelled"
    BY <1>0, <1>3 DEF Cancel
  <2>2. /\ Posted' /\ lost \subseteq lost'
        /\ \A t \in Tasks : Cancelling(t) => Cancelling(t)'
        /\ c \in lost' \/ Cancelling(c)'
    BY <1>0, <1>1, <2>1, PostedSent
  <2>4. ASSUME NEW t \in Tasks \ (lost' \cup replaced') PROVE WordKept(t)' /\ Known(t)'
    <3>1. WordKept(t) /\ Known(t)
      BY <1>0, <2>2, <2>4 DEF AgreementInv, Kept
    <3>2. Unheard(t)' = Unheard(t) /\ Holds(t)' = Holds(t)
      BY <1>0 DEF Unheard, Holds
    <3>3. WordKept(t)'
      BY <1>0, <3>1, <3>2 DEF WordKept
    <3>4. CASE t # c
      BY <1>0, <1>1, <2>2, <3>1, <3>2, <3>3, <3>4 DEF Known
    <3>5. CASE t = c
      BY <1>0, <2>1, <2>2, <2>4, <3>1, <3>2, <3>3, <3>5 DEF Known, Open, Pending
    <3> QED
      BY <3>4, <3>5
  <2> QED
    BY <2>2, <2>4 DEF Kept
<1> QED
  BY <1>2, <1>3

\* The link comes up, goes down, or a report is acknowledged.
LEMMA KeptLink ==
  ASSUME AgreementInv, LinkUp \/ LinkDown \/ Acknowledge, UNCHANGED <<machine, desk>>
  PROVE  Posted' /\ Kept'
<1>0. /\ up \in Seq(Reports) /\ got \in 0 .. Len(up) /\ Len(up) \in Nat /\ DOMAIN up = 1 .. Len(up)
      /\ down \in Seq(Assignments) /\ inbox \in Seq(Assignments)
  BY Pipe DEF AgreementInv
<1>1. UNCHANGED <<at, disk, orders, replaced, inbox>>
  BY DEF machine, desk
<1>2. \A t \in Tasks : Holds(t)' = Holds(t)
  BY <1>1 DEF Holds
<1>3. CASE LinkUp
  <2>1. UNCHANGED <<up, down, lost>> /\ got' = 0 /\ OnTheWay' = OnTheWay
    BY <1>1, <1>3 DEF LinkUp, OnTheWay
  <2>2. Posted'
    BY <1>1, <2>1, PostedSame
  <2>3. ASSUME NEW t \in Tasks \ (lost' \cup replaced') PROVE WordKept(t)' /\ Known(t)'
    <3>1. WordKept(t) /\ Known(t)
      BY <1>1, <2>1, <2>3 DEF AgreementInv, Kept
    <3>2. /\ Unheard(t) => Unheard(t)'
          /\ Cancelling(t)' = Cancelling(t)
      BY <1>0, <2>1 DEF Unheard, Cancelling
    <3> QED
      BY <1>1, <1>2, <2>1, <3>1, <3>2 DEF WordKept, Known
  <2> QED
    BY <2>2, <2>3 DEF Kept
<1>4. CASE LinkDown
  <2>1. UNCHANGED <<up, got>> /\ down' = <<>> /\ lost' = lost \cup About(down)
    BY <1>4 DEF LinkDown
  <2>2. Posted' /\ \A t \in Tasks \ lost' : Cancelling(t) => Cancelling(t)'
    BY <1>1, <2>1, PostedCut
  <2> QED
    BY <1>1, <1>2, <2>1, <2>2, KeptSilent
<1>5. CASE Acknowledge
  <2>1. /\ UNCHANGED <<down, lost>> /\ OnTheWay' = OnTheWay
        /\ up' = Tail(up) /\ got' = got - 1 /\ got > 0 /\ Len(up) > 0
    BY <1>0, <1>1, <1>5 DEF Acknowledge, OnTheWay
  <2>2. /\ DOMAIN up' = 1 .. Len(up) - 1
        /\ \A i \in DOMAIN up' : up'[i] = up[i + 1] /\ i + 1 \in DOMAIN up
    BY <1>0, <2>1
  <2>3. \A i \in DOMAIN up : i > 1 => i - 1 \in DOMAIN up' /\ up'[i - 1] = up[i]
    BY <1>0, <2>2
  <2>4. \A t \in Tasks : t \in About(up') => t \in About(up)
    BY <2>2 DEF About
  <2>5. Posted'
    BY <1>1, <2>1, <2>4, PostedSame
  <2>6. ASSUME NEW t \in Tasks \ (lost' \cup replaced') PROVE WordKept(t)' /\ Known(t)'
    <3>1. WordKept(t) /\ Known(t)
      BY <1>1, <2>1, <2>6 DEF AgreementInv, Kept
    <3>2. Unheard(t) => Unheard(t)'
      <4> SUFFICES ASSUME NEW i \in DOMAIN up, i > got, up[i].task = t PROVE Unheard(t)'
        BY DEF Unheard
      <4>1. i - 1 \in DOMAIN up' /\ up'[i - 1] = up[i] /\ i - 1 > got'
        BY <1>0, <2>1, <2>3
      <4> QED
        BY <4>1 DEF Unheard
    <3>3. Cancelling(t)' = Cancelling(t)
      BY <2>1 DEF Cancelling
    <3>4. ASSUME NEW i \in DOMAIN up', up'[i].task = t
          PROVE  /\ up'[i].state \notin Ended =>
                       \/ Holds(t)
                       \/ \E j \in DOMAIN up' : j > i /\ up'[j].task = t /\ up'[j].state \in Ended
                 /\ up'[i].state \in Ended => ~Holds(t)
                 /\ up'[i].state \in Ended /\ at = "dropping" /\ disk = t => up'[i].state = "failed"
      <4>1. i + 1 \in DOMAIN up /\ up[i + 1] = up'[i]
        BY <2>2, <3>4
      <4>2. ASSUME NEW j \in DOMAIN up, j > i + 1, up[j].task = t, up[j].state \in Ended
            PROVE  \E k \in DOMAIN up' : k > i /\ up'[k].task = t /\ up'[k].state \in Ended
        <5>1. j - 1 \in DOMAIN up' /\ up'[j - 1] = up[j] /\ j - 1 > i
          BY <1>0, <2>2, <2>3, <3>4, <4>2
        <5> QED
          BY <4>2, <5>1
      <4> QED
        BY <3>1, <3>4, <4>1, <4>2 DEF WordKept
    <3>5. WordKept(t)'
      BY <1>1, <1>2, <3>4 DEF WordKept
    <3> QED
      BY <1>1, <1>2, <3>1, <3>2, <3>3, <3>5 DEF Known
  <2> QED
    BY <2>5, <2>6 DEF Kept
<1> QED
  BY <1>3, <1>4, <1>5

\* The core looks at its oldest message.
LEMMA OrderTaken ==
  ASSUME AgreementInv, Ordered, TakeOrder, down' = down
  PROVE  /\ OnTheWay # <<>> /\ OnTheWay' = Tail(OnTheWay) /\ Head(OnTheWay) = Head(inbox)
         /\ Head(inbox) \in Assignments /\ at = "loop" /\ current = disk
         /\ \A t \in Tasks : t # Head(inbox).task => (Cancelling(t) => Cancelling(t)')
<1>1. inbox \in Seq(Assignments) /\ down \in Seq(Assignments) /\ OnTheWay \in Seq(Assignments)
  BY Pipe DEF AgreementInv
<1>2. inbox # <<>> /\ inbox' = Tail(inbox) /\ at = "loop" /\ current = disk
  BY DEF Ordered, TakeOrder, AgreementInv
<1>3. OnTheWay # <<>> /\ OnTheWay' = Tail(OnTheWay) /\ Head(OnTheWay) = Head(inbox)
  BY <1>1, <1>2, PipeMoves DEF OnTheWay
<1>4. Head(inbox) \in Assignments
  BY <1>1, <1>2
<1>5. ASSUME NEW t \in Tasks, t # Head(inbox).task, Cancelling(t) PROVE Cancelling(t)'
  <2> DEFINE q == OnTheWay
  <2>1. PICK k \in DOMAIN q : q[k].task = t /\ q[k].cancel
    BY <1>5 DEF Cancelling
  <2>2. /\ DOMAIN q = 1 .. Len(q) /\ Len(q) \in Nat \ {0} /\ q[1] = Head(q)
        /\ DOMAIN Tail(q) = 1 .. Len(q) - 1 /\ \A i \in DOMAIN Tail(q) : Tail(q)[i] = q[i + 1]
    BY <1>1, <1>3
  <2>3. k # 1
    BY <1>3, <1>5, <2>1, <2>2
  <2>4. k - 1 \in DOMAIN Tail(q) /\ Tail(q)[k - 1] = q[k]
    BY <2>1, <2>2, <2>3
  <2> QED
    BY <1>3, <2>1, <2>4 DEF Cancelling
<1> QED
  BY <1>2, <1>3, <1>4, <1>5

\* What was said is about one order.
LEMMA SaidOf ==
  ASSUME IInv, NEW c \in Tasks, NEW r \in Seq(Reports), \A i \in DOMAIN r : r[i].task = c, Tell(r)
  PROVE  /\ \A t \in Tasks : t \in About(up') => t \in About(up) \/ t = c
         /\ lost \subseteq lost' /\ down' = down
<1>1. up \in Seq(Reports)
  BY Pipe
<1>2. CASE connected
  <2>1. up' = up \o r /\ lost' = lost /\ down' = down
    BY <1>2 DEF Tell
  <2>2. \A i \in DOMAIN up' : (i \in DOMAIN up /\ up'[i] = up[i])
                              \/ (i - Len(up) \in DOMAIN r /\ up'[i] = r[i - Len(up)])
    BY <1>1, <2>1
  <2> QED
    BY <2>1, <2>2 DEF About
<1>3. CASE ~connected
  BY <1>3 DEF Tell
<1> QED
  BY <1>2, <1>3

LEMMA AgreementInit == Init => AgreementInv
<1> SUFFICES ASSUME Init PROVE AgreementInv
  OBVIOUS
<1>1. /\ inbox = <<>> /\ down = <<>> /\ up = <<>> /\ at = "off" /\ disk = NoTask /\ lost = {}
      /\ orders = [t \in Tasks |-> "none"]
  BY DEF Init, WireInit, MachineInit, DeskInit
<1>2. OnTheWay = <<>>
  BY <1>1 DEF OnTheWay
<1>3. \A t \in Tasks : orders[t] = "none" /\ disk # t
  BY <1>1, NoTaskAssumption
<1>d. DOMAIN up = {} /\ DOMAIN OnTheWay = {}
  BY <1>1, <1>2
<1>4. Posted
  BY <1>1, <1>3, <1>d DEF Posted, Coming, Unissued, About
<1>5. Kept
  BY <1>1, <1>3, <1>d DEF Kept, WordKept, Known, Holds
<1> QED
  BY <1>1, <1>4, <1>5, InitIInv DEF AgreementInv

LEMMA AgreementMachine ==
  ASSUME AgreementInv, MachineNext, UNCHANGED desk
  PROVE  (at' # "off" => current' = disk') /\ Posted' /\ Kept'
<1>0. /\ at # "off" => current = disk
      /\ IInv /\ Posted /\ Kept /\ orders' = orders
  BY DEF AgreementInv, desk
<1>h. at \in {"recovering", "dropping", "accepted", "ending"} => current \in Tasks
  BY <1>0 DEF IInv, Holding
<1>c. current \in Tasks \cup {NoTask} /\ disk \in Tasks \cup {NoTask}
  BY <1>0 DEF IInv, TypeOK, MachineOK
<1>p. inbox \in Seq(Assignments) /\ down \in Seq(Assignments)
  BY <1>0, Pipe
\* Steps that say nothing and touch no message.
<1>s. ASSUME UNCHANGED <<up, got, lost, replaced>>, OnTheWay' = OnTheWay, disk' \in {disk, NoTask},
             at' # "off" => current' = disk',
             at' = "dropping" => at = "dropping",
             \A t \in Tasks : Holds(t)' = Holds(t)
      PROVE  (at' # "off" => current' = disk') /\ Posted' /\ Kept'
  <2>1. Posted'
    BY <1>0, <1>s, PostedSame
  <2>2. \A t \in Tasks : Cancelling(t)' = Cancelling(t)
    BY <1>s DEF Cancelling
  <2>3. \A t \in Tasks : disk' = t => disk = t
    BY <1>s, NoTaskAssumption
  <2>4. Kept'
    BY <1>0, <1>s, <2>2, <2>3, KeptSilent
  <2> QED
    BY <1>s, <2>1, <2>4
\* Words about the order the machine has, and no message touched.
<1>t. ASSUME NEW c \in Tasks, c = disk, NEW r \in Seq(Reports), r # <<>>,
             \A i \in DOMAIN r : r[i].task = c, Tell(r),
             UNCHANGED <<inbox, disk, replaced, current>>, at # "off",
             \/ (\A i \in DOMAIN r : r[i].state \notin Ended) /\ Holds(c) /\ Holds(c)'
             \/ /\ \A i \in DOMAIN r : r[i].state \in Ended
                /\ ~Holds(c)'
                /\ at' = "dropping" => Holds(c) /\ \A i \in DOMAIN r : r[i].state = "failed"
      PROVE  (at' # "off" => current' = disk') /\ Posted' /\ Kept'
  <2>1. OnTheWay' = OnTheWay /\ lost \subseteq lost' /\ \A t \in Tasks : t \in About(up') => t \in About(up) \/ t = c
    BY <1>0, <1>t, SaidOf DEF OnTheWay
  <2>2. Posted'
    BY <1>0, <1>t, <2>1, PostedSame
  <2>3. \A t \in Tasks : Cancelling(t)' = Cancelling(t)
    BY <2>1 DEF Cancelling
  <2>4. \A t \in Tasks : t # c => Holds(t)' = Holds(t) /\ disk' # t
    BY <1>t DEF Holds
  <2>5. Kept'
    BY <1>0, <1>t, <2>3, <2>4, KeptTelling
  <2> QED
    BY <1>0, <1>t, <2>2, <2>5
<1>r. \A c \in Tasks, s \in Told :
         /\ <<[task |-> c, state |-> s]>> \in Seq(Reports) /\ <<[task |-> c, state |-> s]>> # <<>>
         /\ \A i \in DOMAIN <<[task |-> c, state |-> s]>> :
               /\ <<[task |-> c, state |-> s]>>[i].task = c
               /\ <<[task |-> c, state |-> s]>>[i].state = s
  <2> SUFFICES ASSUME NEW c \in Tasks, NEW s \in Told
               PROVE  /\ <<[task |-> c, state |-> s]>> \in Seq(Reports)
                      /\ <<[task |-> c, state |-> s]>> # <<>>
                      /\ \A i \in DOMAIN <<[task |-> c, state |-> s]>> :
                            /\ <<[task |-> c, state |-> s]>>[i].task = c
                            /\ <<[task |-> c, state |-> s]>>[i].state = s
    OBVIOUS
  <2> DEFINE e == [task |-> c, state |-> s]
  <2>1. e \in Reports /\ e.task = c /\ e.state = s
    BY DEF Reports
  <2> HIDE DEF e
  <2>2. <<e>> \in Seq(Reports) /\ <<e>> # <<>> /\ \A i \in DOMAIN <<e>> : <<e>>[i] = e
    BY <2>1
  <2> QED
    BY <2>1, <2>2 DEF e
<1>w. /\ \A s \in {"accepted", "running"} : s \in Told \ Ended
      /\ \A s \in {"done", "failed", "cancelled"} : s \in Told \cap Ended
  BY DEF Told, Ended
<1>1. CASE Step \/ RunOut \/ NextLap
  <2>1. UNCHANGED <<up, got, lost, replaced, at, disk, current, inbox, down>>
    BY <1>1 DEF Step, RunOut, NextLap, wire
  <2>2. OnTheWay' = OnTheWay /\ \A t \in Tasks : Holds(t)' = Holds(t)
    BY <2>1 DEF OnTheWay, Holds
  <2> QED
    BY <1>0, <1>s, <2>1, <2>2
<1>2. CASE Boot
  <2>1. UNCHANGED <<up, got, lost, replaced, disk, inbox, down>> /\ current' = disk
        /\ at = "off" /\ at' \in {"loop", "recovering"}
    BY <1>2 DEF Boot, wire
  <2>2. OnTheWay' = OnTheWay /\ \A t \in Tasks : Holds(t)' = Holds(t)
    BY <2>1 DEF OnTheWay, Holds
  <2> QED
    BY <1>s, <2>1, <2>2
<1>3. CASE DropInterrupted \/ End
  <2>1. UNCHANGED <<up, got, lost, replaced, inbox, down>> /\ current' = NoTask /\ disk' = NoTask
        /\ at \in {"dropping", "ending"} /\ at' = "loop"
    BY <1>3 DEF DropInterrupted, End, wire
  <2>2. OnTheWay' = OnTheWay /\ \A t \in Tasks : Holds(t)' = Holds(t)
    BY <2>1, NoTaskAssumption DEF OnTheWay, Holds
  <2> QED
    BY <1>s, <2>1, <2>2
<1>4. CASE HandOver
  <2>1. UNCHANGED <<up, got, lost, replaced, at, disk, current>>
        /\ inbox' = Append(inbox, Head(down)) /\ down' = Tail(down) /\ down # <<>>
    BY <1>4 DEF HandOver
  <2>2. OnTheWay' = OnTheWay
    BY <1>p, <2>1, PipeMoves DEF OnTheWay
  <2>3. \A t \in Tasks : Holds(t)' = Holds(t)
    BY <2>1 DEF Holds
  <2> QED
    BY <1>0, <1>s, <2>1, <2>2, <2>3
<1>5. CASE KeepHolding \/ Progress
  <2>1. /\ Tell(<<[task |-> current, state |-> "running"]>>) /\ UNCHANGED <<inbox, disk, replaced, current>>
        /\ at \in {"recovering", "loop"} /\ at' = "loop" /\ (at = "loop" => current # NoTask)
    BY <1>5 DEF KeepHolding, Progress, Moving, machine
  <2>2. current \in Tasks /\ current = disk /\ Holds(current) /\ Holds(current)'
    BY <1>0, <1>c, <1>h, <2>1 DEF Holds
  <2> DEFINE r == <<[task |-> current, state |-> "running"]>>
  <2>3. r \in Seq(Reports) /\ r # <<>> /\ \A i \in DOMAIN r : r[i].task = current /\ r[i].state \notin Ended
    BY <1>r, <1>w, <2>2
  <2> HIDE DEF r
  <2>4. Tell(r)
    BY <2>1 DEF r
  <2> QED
    BY <1>t, <2>1, <2>2, <2>3, <2>4
<1>6. CASE Answer
  <2> DEFINE r == <<[task |-> current, state |-> "accepted"], [task |-> current, state |-> "running"]>>
  <2>1. Tell(r) /\ UNCHANGED <<inbox, disk, replaced, current>> /\ at = "accepted" /\ at' = "loop"
    BY <1>6 DEF Answer
  <2>2. current \in Tasks /\ current = disk /\ Holds(current) /\ Holds(current)'
    BY <1>0, <1>h, <2>1 DEF Holds
  <2>3. r \in Seq(Reports) /\ r # <<>> /\ \A i \in DOMAIN r : r[i].task = current /\ r[i].state \notin Ended
    <3> DEFINE e == [task |-> current, state |-> "accepted"]
               f == [task |-> current, state |-> "running"]
    <3>1. /\ e \in Reports /\ e.task = current /\ e.state \notin Ended
          /\ f \in Reports /\ f.task = current /\ f.state \notin Ended
      BY <1>w, <2>2 DEF Reports
    <3> HIDE DEF e, f
    <3>2. <<e, f>> \in Seq(Reports) /\ <<e, f>> # <<>> /\ \A i \in DOMAIN <<e, f>> : <<e, f>>[i] \in {e, f}
      BY <3>1
    <3>3. r = <<e, f>>
      BY DEF e, f
    <3> HIDE DEF r
    <3> QED
      BY <3>1, <3>2, <3>3
  <2> HIDE DEF r
  <2> QED
    BY <1>t, <2>1, <2>2, <2>3
<1>7. CASE Interrupt \/ Finish
  <2>1. PICK s \in {"failed", "done"} :
           /\ Tell(<<[task |-> current, state |-> s]>>) /\ UNCHANGED <<inbox, disk, replaced, current>>
           /\ at' \in {"dropping", "ending"} /\ at \in {"recovering", "loop"}
           /\ at' = "dropping" => s = "failed"
           /\ at = "loop" => current # NoTask
    BY <1>7 DEF Interrupt, Finish, Moving
  <2>2. current \in Tasks /\ current = disk /\ Holds(current) /\ ~Holds(current)'
    BY <1>0, <1>c, <1>h, <2>1 DEF Holds
  <2> DEFINE r == <<[task |-> current, state |-> s]>>
  <2>3. /\ r \in Seq(Reports) /\ r # <<>>
        /\ \A i \in DOMAIN r : r[i].task = current /\ r[i].state \in Ended /\ r[i].state = s
    BY <1>r, <1>w, <2>2
  <2> HIDE DEF r
  <2>4. Tell(r)
    BY <2>1 DEF r
  <2> QED
    BY <1>t, <2>1, <2>2, <2>3, <2>4
<1>8. CASE CancelCurrent
  <2> DEFINE r == <<[task |-> current, state |-> "cancelled"]>>
  <2>1. /\ Ordered /\ TakeOrder /\ Head(inbox).task = current /\ Tell(r) /\ at' = "ending"
        /\ UNCHANGED <<current, disk, replaced>>
    BY <1>8 DEF CancelCurrent
  <2>2. current \in Tasks /\ down' = down
    <3>1. inbox # <<>> /\ Head(inbox) \in Assignments
      BY <1>p, <2>1 DEF Ordered
    <3> QED
      BY <2>1, <3>1 DEF Assignments, Tell
  <2>3. /\ OnTheWay # <<>> /\ OnTheWay' = Tail(OnTheWay) /\ Head(OnTheWay) = Head(inbox)
        /\ current = disk /\ at = "loop"
        /\ \A t \in Tasks : t # current => (Cancelling(t) => Cancelling(t)')
    BY <2>1, <2>2, OrderTaken
  <2>4. /\ r \in Seq(Reports) /\ r # <<>>
        /\ \A i \in DOMAIN r : r[i].task = current /\ r[i].state \in Ended
    BY <1>r, <1>w, <2>2
  <2> HIDE DEF r
  <2>5. lost \subseteq lost' /\ \A t \in Tasks : t \in About(up') => t \in About(up) \/ t = current
    BY <1>0, <2>1, <2>2, <2>4, SaidOf
  <2>6. Posted'
    BY <1>0, <2>1, <2>2, <2>3, <2>5, PostedTaken
  <2>7. ~Holds(current)' /\ \A t \in Tasks : t # current => Holds(t)' = Holds(t) /\ disk' # t
    BY <2>1, <2>3 DEF Holds
  <2>8. Kept'
    BY <1>0, <2>1, <2>2, <2>3, <2>4, <2>7, KeptTelling
  <2> QED
    BY <2>1, <2>3, <2>6, <2>8
<1>9. CASE CancelOther
  <2>1. /\ Ordered /\ TakeOrder /\ Head(inbox).task # current
        /\ UNCHANGED <<current, disk, replaced, at, up, got, lost, down>>
    BY <1>9 DEF CancelOther, wire
  <2>2. /\ OnTheWay # <<>> /\ OnTheWay' = Tail(OnTheWay) /\ Head(OnTheWay) = Head(inbox)
        /\ current = disk /\ Head(inbox) \in Assignments
        /\ \A t \in Tasks : t # Head(inbox).task => (Cancelling(t) => Cancelling(t)')
    BY <2>1, OrderTaken
  <2>3. Head(inbox).task \in Tasks
    BY <2>2 DEF Assignments
  <2>4. Posted'
    BY <1>0, <2>1, <2>2, <2>3, PostedTaken
  <2>5. \A t \in Tasks : Holds(t)' = Holds(t) /\ (t = Head(inbox).task => ~Holds(t))
    BY <2>1, <2>2 DEF Holds
  <2>6. Kept'
    BY <1>0, <2>1, <2>2, <2>5, KeptSilent
  <2> QED
    BY <1>0, <2>1, <2>4, <2>6
<1>10. CASE Refuse
  <2> DEFINE c == Head(inbox).task
             r == <<[task |-> c, state |-> "failed"]>>
  <2>1. /\ Ordered /\ TakeOrder /\ ~Head(inbox).cancel /\ Tell(r)
        /\ UNCHANGED <<at, current, disk, replaced>>
    BY <1>10 DEF Refuse
  <2>2. down' = down
    BY <2>1 DEF Tell
  <2>3. /\ OnTheWay # <<>> /\ OnTheWay' = Tail(OnTheWay) /\ Head(OnTheWay) = Head(inbox)
        /\ current = disk /\ at = "loop" /\ Head(inbox) \in Assignments
        /\ \A t \in Tasks : t # c => (Cancelling(t) => Cancelling(t)')
    BY <2>1, <2>2, OrderTaken
  <2>4. c \in Tasks
    BY <2>3 DEF Assignments
  <2>5. /\ r \in Seq(Reports) /\ r # <<>>
        /\ \A i \in DOMAIN r : r[i].task = c /\ r[i].state \in Ended
    BY <1>r, <1>w, <2>4
  <2>6. disk # c
    <3>1. OnTheWay \in Seq(Assignments)
      BY <1>0, Pipe
    <3>2. 1 \in DOMAIN OnTheWay /\ OnTheWay[1] = Head(inbox)
      BY <2>3, <3>1
    <3> QED
      BY <1>0, <2>1, <2>4, <3>2 DEF Posted, Coming
  <2>z. PICK d : d = c
    OBVIOUS
  <2> HIDE DEF r, c
  <2>7. lost \subseteq lost' /\ \A t \in Tasks : t \in About(up') => t \in About(up) \/ t = d
    BY <1>0, <2>1, <2>4, <2>5, <2>z, SaidOf
  <2>8. Posted'
    BY <1>0, <2>1, <2>3, <2>4, <2>7, <2>z, PostedTaken DEF c
  <2>9. ~Holds(d)' /\ \A t \in Tasks : Holds(t)' = Holds(t)
    BY <2>1, <2>6, <2>z DEF Holds
  <2>10. Kept'
    BY <1>0, <2>1, <2>3, <2>4, <2>5, <2>9, <2>z, KeptTelling
  <2> QED
    BY <1>0, <2>1, <2>8, <2>10
<1>11. CASE Accept
  <2>z. PICK c : c = Head(inbox).task
    OBVIOUS
  <2>1. /\ Ordered /\ TakeOrder /\ ~Head(inbox).cancel
        /\ current' = c /\ disk' = c /\ at' = "accepted"
        /\ replaced' = IF current = NoTask THEN replaced ELSE replaced \cup {current}
        /\ UNCHANGED <<up, got, lost, down>>
    BY <1>11, <2>z DEF Accept, wire
  <2>2. /\ OnTheWay # <<>> /\ OnTheWay' = Tail(OnTheWay) /\ Head(OnTheWay) = Head(inbox)
        /\ at = "loop" /\ Head(inbox) \in Assignments
    BY <2>1, OrderTaken
  <2>3. c \in Tasks
    BY <2>2, <2>z DEF Assignments
  <2>4. Posted'
    BY <1>0, <2>1, <2>2, <2>3, <2>z, PostedTaken
  <2>5. Kept'
    BY <1>0, <2>1, <2>2, <2>3, <2>z, KeptAccept
  <2> QED
    BY <2>1, <2>4, <2>5
<1>12. CASE Crash
  <2>1. /\ down' = <<>> /\ inbox' = <<>> /\ up' = <<>> /\ disk' = disk /\ at' = "off"
        /\ lost \subseteq lost' /\ About(down) \subseteq lost' /\ About(inbox) \subseteq lost'
    BY <1>12 DEF Crash, Cut
  <2>2. Posted' /\ \A t \in Tasks \ lost' : Cancelling(t) => Cancelling(t)'
    BY <1>0, <2>1, PostedCut
  <2> QED
    BY <1>0, <1>12, <2>1, <2>2, KeptCrash
<1> QED
  BY <1>1, <1>2, <1>3, <1>4, <1>5, <1>6, <1>7, <1>8, <1>9, <1>10, <1>11, <1>12 DEF MachineNext, Think

LEMMA AgreementNext == AgreementInv /\ [Next]_vars => AgreementInv'
<1> SUFFICES ASSUME AgreementInv, [Next]_vars PROVE AgreementInv'
  OBVIOUS
<1>0. /\ at # "off" => current = disk
      /\ IInv /\ IInv' /\ Posted /\ Kept
  BY NextIInv DEF AgreementInv
<1>1. UNCHANGED machine => (at' # "off" => current' = disk')
  BY <1>0 DEF machine
\* Nothing that the agreement is about changes.
<1>2. ASSUME UNCHANGED <<wire, machine>>, orders' = orders PROVE AgreementInv'
  <2>1. UNCHANGED <<up, got, lost, disk, at, replaced>> /\ OnTheWay' = OnTheWay
    BY <1>2 DEF wire, machine, OnTheWay
  <2>2. Posted'
    BY <1>2, <2>1, PostedSame
  <2>3. \A t \in Tasks : Holds(t)' = Holds(t) /\ Cancelling(t)' = Cancelling(t)
    BY <2>1 DEF Holds, Cancelling
  <2>4. Kept'
    BY <1>2, <2>1, <2>3, KeptSilent
  <2> QED
    BY <1>0, <1>1, <1>2, <2>2, <2>4 DEF AgreementInv
<1>3. CASE MachineNext /\ UNCHANGED desk
  BY <1>0, <1>3, AgreementMachine DEF AgreementInv
<1>4. CASE DeskStep /\ UNCHANGED machine
  <2>1. ASSUME NEW t \in Tasks, Issue(t) \/ Cancel(t) PROVE Posted' /\ Kept'
    BY <1>4, <2>1, KeptSent
  <2>2. CASE OnTaskStatus
    BY <1>0, <1>1, <1>4, <2>2, KeptHeard DEF AgreementInv
  <2>3. ASSUME NEW t \in Tasks, GrowOverdue(t) \/ FailFirst(t) \/ FailNext(t) PROVE Posted' /\ Kept'
    <3>1. UNCHANGED wire
      BY <2>3 DEF GrowOverdue, FailFirst, FailNext
    <3>2. PICK s \in {"failed", "overdue"} :
             orders' = [orders EXCEPT ![t] = s] /\ (s = "overdue" => orders[t] = "pending")
      BY <2>3 DEF GrowOverdue, FailFirst, FailNext
    <3> QED
      BY <1>4, <3>1, <3>2, KeptShelved
  <2>4. CASE FindSilent \/ MarkOffline \/ NoneOpen \/ FindOverdue \/ OnHeartbeat
    <3>1. UNCHANGED wire /\ orders' = orders
      BY <2>4 DEF FindSilent, MarkOffline, NoneOpen, FindOverdue, OnHeartbeat
    <3> QED
      BY <1>2, <1>4, <3>1
  <2> QED
    BY <1>0, <1>1, <1>4, <2>1, <2>2, <2>3, <2>4 DEF DeskStep, Watch, AgreementInv
<1>5. CASE (LinkUp \/ LinkDown \/ Acknowledge) /\ UNCHANGED <<machine, desk>>
  BY <1>0, <1>1, <1>5, KeptLink DEF AgreementInv
<1>6. CASE FallSilent
  BY <1>2, <1>6 DEF FallSilent
<1>7. CASE UNCHANGED vars
  BY <1>2, <1>7 DEF vars, desk
<1> QED
  BY <1>3, <1>4, <1>5, <1>6, <1>7 DEF Next

\* Between TRACK and a machine nothing is ever amiss but by a word or a message
\* that is on its way: the invariant of the next theorem.
THEOREM SpecAgreementInv == Spec => []AgreementInv
  BY AgreementInit, AgreementNext, PTL DEF Spec

\* For any set of orders, any kinds, laps and bounds, and whatever the link
\* repeats and whenever the process dies: once everything said is heard, TRACK and
\* the machine agree on every order of which nothing was lost and which no newer
\* order replaced (worldmodel.py on_task_status, core.py _finish, _evaluate_recovered).
THEOREM SpecAgreement == Spec => []Agreement
<1>1. AgreementInv => Agreement
  <2> SUFFICES ASSUME AgreementInv, Quiet, NEW t \in Tasks \ (lost \cup replaced)
               PROVE  /\ orders[t] \in {"accepted", "running"} => current = t
                      /\ orders[t] \in {"done", "cancelled"} => current # t
    BY DEF Agreement
  <2>1. Known(t) /\ current = disk /\ at = "loop"
    BY DEF AgreementInv, Kept, Quiet
  <2>2. up \in Seq(Reports) /\ got = Len(up) /\ DOMAIN up = 1 .. Len(up)
    BY Pipe DEF AgreementInv, Quiet
  <2>3. ~Unheard(t)
    BY <2>2 DEF Unheard
  <2>4. DOMAIN OnTheWay = {}
    BY DEF Quiet, OnTheWay
  <2>5. ~Cancelling(t)
    BY <2>4 DEF Cancelling
  <2> QED
    BY <2>1, <2>3, <2>5 DEF Known, Holds
<1> QED
  BY <1>1, SpecAgreementInv, PTL

=============================================================================
