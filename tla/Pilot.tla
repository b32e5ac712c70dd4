-------------------------------- MODULE Pilot --------------------------------
(***************************************************************************)
(* One machine's autonomy core (drive/pilot/autonomy/core.py) with its     *)
(* navigator and the current order it keeps on disk: it takes orders,      *)
(* follows them, reports them, and comes back after a restart.             *)
(*                                                                         *)
(* The core is one loop.  Where it first acts and then reports, or reports *)
(* and then forgets, the two halves are two actions, so that the process   *)
(* may die in between.  Nav2 is a process of its own: it outlives the      *)
(* core's, and its route with it.                                          *)
(***************************************************************************)
EXTENDS Uplink

CONSTANTS NoTask,     \* world.current_task is None
          Kind,       \* per task: "move", "hold", "refused"
          Laps,       \* per task: how often its route is driven
          MaxLaps,    \* bound: on those numbers
          Planners    \* navigators the machine may be started with

ASSUME NoTaskAssumption == NoTask \notin Tasks
ASSUME KindAssumption == Kind \in [Tasks -> {"move", "hold", "refused"}]
ASSUME LapsAssumption == MaxLaps \in Nat /\ Laps \in [Tasks -> 1 .. MaxLaps]
ASSUME PlannersAssumption == Planners \subseteq {"direct", "nav2"}

VARIABLES
    at,        \* where the core is
    planner,   \* the navigator the machine is set up with
    inbox,     \* _orders: handed over by the comms thread, not yet looked at
    current,   \* world.current_task
    disk,      \* the store's current_task
    laps,      \* _laps_remaining
    nav,       \* the navigator
    driving,   \* the locomotion (or Nav2) has somewhere to go
    fresh,     \* an order to move was taken since the process started and may be
               \* under way (observer)
    outlived,  \* it goes where an earlier process sent it (observer)
    replaced   \* orders that a newer one took the place of (observer)

machine == <<at, planner, inbox, current, disk, laps, nav, driving, fresh, outlived, replaced>>
motion == <<driving, outlived>>

\* off; started with an order on disk, then with it reported; between two steps
\* of the loop; an order taken and not yet answered; an ending told and not yet
\* recorded.
Places == {"off", "recovering", "dropping", "loop", "accepted", "ending"}

\* route: there is one; active: Nav2 is believed to drive it; refused: it does not.
Navs == [route : BOOLEAN, active : BOOLEAN, refused : BOOLEAN, arrived : BOOLEAN, failed : BOOLEAN]
IdleNav == [route |-> FALSE, active |-> FALSE, refused |-> FALSE, arrived |-> FALSE, failed |-> FALSE]

MachineOK ==
    /\ at \in Places
    /\ planner \in {"direct", "nav2"}
    /\ inbox \in Seq(Assignments) /\ Len(inbox) <= MaxDown
    /\ current \in Tasks \cup {NoTask}
    /\ disk \in Tasks \cup {NoTask}
    /\ laps \in 0 .. MaxLaps
    /\ nav \in Navs
    /\ driving \in BOOLEAN
    /\ fresh \in BOOLEAN
    /\ outlived \in BOOLEAN
    /\ replaced \subseteq Tasks

MachineInit ==
    /\ at = "off" /\ planner \in Planners
    /\ inbox = <<>> /\ current = NoTask /\ disk = NoTask
    /\ laps = 0 /\ nav = IdleNav /\ driving = FALSE
    /\ fresh = FALSE /\ outlived = FALSE /\ replaced = {}

------------------------------------------------------------------------------
(* The navigators' calls.                                                     *)

Stopped == driving' = FALSE /\ outlived' = FALSE

\* follow() with somewhere to go.  Whether Nav2 accepts a route is not looked at;
\* refused, it leaves Nav2 on the one before, and the navigator with that one's
\* result.
FollowRoute ==
    \E refused \in {FALSE, planner = "nav2"} :
        /\ nav' = [route |-> TRUE, active |-> planner = "nav2", refused |-> refused,
                   arrived |-> FALSE, failed |-> FALSE]
        /\ IF refused THEN UNCHANGED motion ELSE driving' = TRUE /\ outlived' = FALSE

\* follow([]), as a hold order does: neither navigator stops what is under way,
\* and Nav2's forgets that it is.
FollowNothing ==
    /\ nav' = IdleNav
    /\ UNCHANGED motion

\* cancel(): Nav2 is only told if the navigator believes it is driving, and told
\* of the route it was given last.
CancelRoute ==
    /\ nav' = IF planner = "direct"
              THEN IdleNav
              ELSE [nav EXCEPT !.route = FALSE, !.active = FALSE, !.refused = FALSE]
    /\ IF planner = "direct" \/ (nav.active /\ ~nav.refused) THEN Stopped ELSE UNCHANGED motion

\* step(): the last waypoint is reached; only Nav2 can give up instead.  After a
\* refusal it is an earlier route that ended, then or long ago.
Under(n) == IF planner = "direct" THEN n.route /\ ~n.arrived ELSE n.active

Step ==
    /\ at = "loop" /\ Under(nav)
    /\ \/ nav' = [nav EXCEPT !.arrived = TRUE, !.active = FALSE, !.refused = FALSE]
       \/ /\ planner = "nav2"
          /\ nav' = [nav EXCEPT !.failed = TRUE, !.active = FALSE, !.refused = FALSE]
    /\ Stopped \/ (nav.refused /\ UNCHANGED motion)
    /\ UNCHANGED <<at, planner, inbox, current, disk, laps, fresh, replaced, wire>>

\* What was under way when the navigator forgot it, or never knew of it, gets
\* where it was sent or gives up.
RunOut ==
    /\ driving /\ (~Under(nav) \/ nav.refused)
    /\ Stopped
    /\ UNCHANGED <<at, planner, inbox, current, disk, laps, nav, fresh, replaced, wire>>

------------------------------------------------------------------------------
(* Starting, and dying.                                                       *)

\* boot() and run(): what the last process had under way is what this one
\* starts with.
Boot ==
    /\ at = "off"
    /\ current' = disk
    /\ at' = IF disk = NoTask THEN "loop" ELSE "recovering"
    /\ laps' = 0 /\ nav' = IdleNav /\ fresh' = FALSE
    /\ UNCHANGED <<planner, inbox, disk, motion, replaced, wire>>

\* Variant: an order found under way is followed again.
ResumesMotion ==
    /\ at = "recovering" /\ Kind[current] = "move"
    /\ FollowRoute
    /\ at' = "loop"
    /\ Tell(<<[task |-> current, state |-> "running"]>>)
    /\ UNCHANGED <<planner, inbox, current, disk, laps, fresh, replaced>>

\* _evaluate_recovered: an order that turns the wheels is over.
Interrupt ==
    /\ at = "recovering" /\ Kind[current] # "hold"
    /\ Tell(<<[task |-> current, state |-> "failed"]>>)
    /\ at' = "dropping"
    /\ UNCHANGED <<planner, inbox, current, disk, laps, nav, motion, fresh, replaced>>

DropInterrupted ==
    /\ at = "dropping"
    /\ current' = NoTask /\ disk' = NoTask
    /\ at' = "loop"
    /\ UNCHANGED <<planner, inbox, laps, nav, motion, fresh, replaced, wire>>

\* _evaluate_recovered: holding still moves nothing, so it goes on.
KeepHolding ==
    /\ at = "recovering" /\ Kind[current] = "hold"
    /\ Tell(<<[task |-> current, state |-> "running"]>>)
    /\ at' = "loop"
    /\ UNCHANGED <<planner, inbox, current, disk, laps, nav, motion, fresh, replaced>>

\* The process dies; the store is as last written.  The direct navigator's drive
\* dies with it.  Nav2's may: the power was cut; or not, and what the next process
\* bridges to the wheels (ros/bridge.py:83) is still this one's route, which
\* nothing takes back.
Crash ==
    /\ at # "off"
    /\ at' = "off"
    /\ inbox' = <<>> /\ current' = NoTask
    /\ laps' = 0 /\ nav' = IdleNav /\ fresh' = FALSE
    /\ driving' \in {FALSE, driving /\ planner = "nav2"} /\ outlived' = driving'
    /\ Cut(inbox, IF at = "ending" THEN {current} ELSE {})
    /\ UNCHANGED <<planner, disk, replaced>>

------------------------------------------------------------------------------
(* Orders.                                                                    *)

\* on_task, on the comms thread: hands over and returns.
HandOver ==
    /\ at # "off" /\ connected /\ down # <<>> /\ Len(inbox) < MaxDown
    /\ inbox' = Append(inbox, Head(down))
    /\ down' = Tail(down)
    /\ UNCHANGED <<at, planner, current, disk, laps, nav, motion, fresh, replaced,
                   connected, up, got, lost>>

Ordered == at = "loop" /\ inbox # <<>>
TakeOrder == inbox' = Tail(inbox)

CancelCurrent ==
    /\ Ordered /\ Head(inbox).cancel /\ Head(inbox).task = current
    /\ TakeOrder
    /\ CancelRoute
    /\ Tell(<<[task |-> current, state |-> "cancelled"]>>)
    /\ at' = "ending"
    /\ UNCHANGED <<planner, current, disk, laps, fresh, replaced>>

CancelOther ==
    /\ Ordered /\ Head(inbox).cancel /\ Head(inbox).task # current
    /\ TakeOrder
    /\ UNCHANGED <<at, planner, current, disk, laps, nav, motion, fresh, replaced, wire>>

\* An order of a kind the machine does not know, or with nowhere to go.
Refuse ==
    /\ Ordered /\ ~Head(inbox).cancel /\ Kind[Head(inbox).task] = "refused"
    /\ TakeOrder
    /\ Tell(<<[task |-> Head(inbox).task, state |-> "failed"]>>)
    /\ UNCHANGED <<at, planner, current, disk, laps, nav, motion, fresh, replaced>>

\* _laps_for.
LapsFor(t) == Laps[t]

\* An order taken: it is written down and followed, and the order it takes the
\* place of is not mentioned again.
Accept ==
    /\ Ordered /\ ~Head(inbox).cancel /\ Kind[Head(inbox).task] # "refused"
    /\ TakeOrder
    /\ LET t == Head(inbox).task IN
       /\ current' = t /\ disk' = t
       /\ laps' = LapsFor(t)
       /\ IF Kind[t] = "hold" THEN FollowNothing ELSE FollowRoute
       /\ fresh' = (fresh \/ Kind[t] = "move")
       /\ replaced' = IF current = NoTask THEN replaced ELSE replaced \cup {current}
    /\ at' = "accepted"
    /\ UNCHANGED <<planner, wire>>

\* ... and then answered.
Answer ==
    /\ at = "accepted"
    /\ Tell(<<[task |-> current, state |-> "accepted"], [task |-> current, state |-> "running"]>>)
    /\ at' = "loop"
    /\ UNCHANGED <<planner, inbox, current, disk, laps, nav, motion, fresh, replaced>>

------------------------------------------------------------------------------
(* _advance_task, for an order that moves.                                    *)

Moving == at = "loop" /\ current # NoTask /\ Kind[current] = "move"

Progress ==
    /\ Moving /\ ~nav.failed /\ ~nav.arrived
    /\ Tell(<<[task |-> current, state |-> "running"]>>)
    /\ UNCHANGED machine

NextLap ==
    /\ Moving /\ ~nav.failed /\ nav.arrived /\ laps > 1
    /\ laps' = laps - 1
    /\ FollowRoute
    /\ UNCHANGED <<at, planner, inbox, current, disk, fresh, replaced, wire>>

\* _finish, up to its report ...
Finish ==
    /\ Moving /\ (nav.failed \/ (nav.arrived /\ laps <= 1))
    /\ Tell(<<[task |-> current, state |-> IF nav.failed THEN "failed" ELSE "done"]>>)
    /\ laps' = IF nav.failed THEN laps ELSE laps - 1
    /\ at' = "ending"
    /\ UNCHANGED <<planner, inbox, current, disk, nav, motion, fresh, replaced>>

\* ... and after it.  (Variant: memory forgets the order, the disk does not.)
EndsInMemory ==
    /\ at = "ending"
    /\ current' = NoTask /\ disk' = disk
    /\ CancelRoute
    /\ fresh' = (fresh /\ driving')
    /\ at' = "loop"
    /\ UNCHANGED <<planner, inbox, laps, replaced, wire>>

End ==
    /\ at = "ending"
    /\ current' = NoTask /\ disk' = NoTask
    /\ CancelRoute
    /\ fresh' = (fresh /\ driving')
    /\ at' = "loop"
    /\ UNCHANGED <<planner, inbox, laps, replaced, wire>>

\* The core's own thread, whenever it runs.
Think ==
    \/ Interrupt \/ DropInterrupted \/ KeepHolding
    \/ CancelCurrent \/ CancelOther \/ Refuse \/ Accept \/ Answer
    \/ NextLap \/ Finish \/ End

MachineNext == Think \/ Progress \/ Step \/ RunOut \/ Boot \/ Crash \/ HandOver

=============================================================================
