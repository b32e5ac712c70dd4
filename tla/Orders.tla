------------------------------- MODULE Orders -------------------------------
(***************************************************************************)
(* The life of an order, end to end: TRACK's order desk and one machine's  *)
(* core over a link that comes and goes, with the machine's process dying  *)
(* and starting again at any step.                                         *)
(***************************************************************************)
EXTENDS Pilot, OrderDesk

vars == <<wire, machine, desk>>

TypeOK == WireOK /\ MachineOK /\ DeskOK

Init == WireInit /\ MachineInit /\ DeskInit

\* Nothing is heard for longer than heartbeat_timeout_s.  A machine that runs
\* and is connected heartbeats once a second, and what is on its way to TRACK
\* arrives sooner than that.
FallSilent ==
    /\ asset # "unknown" /\ ~silent
    /\ at = "off" \/ ~connected
    /\ silent' = TRUE
    /\ UNCHANGED <<wire, machine, orders, asset, sweep>>

DeskStep ==
    \/ \E t \in Tasks : Issue(t) \/ Cancel(t) \/ GrowOverdue(t)
    \/ OnTaskStatus \/ Watch
    \/ at \in {"loop", "accepted", "ending"} /\ OnHeartbeat

Next ==
    \/ MachineNext /\ UNCHANGED desk
    \/ DeskStep /\ UNCHANGED machine
    \/ at # "off" /\ LinkUp /\ UNCHANGED <<machine, desk>>
    \/ (LinkDown \/ Acknowledge) /\ UNCHANGED <<machine, desk>>
    \/ FallSilent

Spec == Init /\ [][Next]_vars

\* The core's thread, the watchdog's task, the clock, and a broker that delivers
\* and acknowledges while connected.  Nothing makes a link come back, a process
\* start, or a person act.
Fairness ==
    /\ WF_vars(Think /\ UNCHANGED desk)
    /\ WF_vars(Watch /\ UNCHANGED machine)
    /\ WF_vars(FallSilent)
    /\ \A t \in Tasks : WF_vars(GrowOverdue(t) /\ UNCHANGED machine)
    /\ WF_vars(HandOver /\ UNCHANGED desk)
    /\ WF_vars(OnTaskStatus /\ UNCHANGED machine)
    /\ WF_vars(Acknowledge /\ UNCHANGED <<machine, desk>>)

FairSpec == Spec /\ Fairness

------------------------------------------------------------------------------
(* Properties.                                                                *)

\* Everything said has been heard and nothing is in the middle of anything.
Quiet ==
    /\ connected /\ got = Len(up) /\ down = <<>>
    /\ at = "loop" /\ inbox = <<>>
    /\ sweep.at = "idle"

\* TRACK and the machine agree on every order of which nothing was lost and
\* which no newer order replaced: what TRACK shows under way the machine holds,
\* and what it shows finished or cancelled the machine does not
\* (on_task_status and the watchdog against _accept_or_refuse and _finish, with
\* reports repeated after a reconnection and a restart between any two steps).
Agreement ==
    Quiet => \A t \in Tasks \ (lost \cup replaced) :
                /\ orders[t] \in {"accepted", "running"} => current = t
                /\ orders[t] \in {"done", "cancelled"} => current # t

\* Nothing but an order taken since the process started sets a machine moving,
\* never one it found on its disk (core.py:162, law 15).  Driven by the direct
\* navigator it moves only while it holds an order.  Driven by Nav2 it may also be
\* finishing what an earlier process had sent Nav2 to do, whatever has been said
\* of that order since.
MotionIsOrdered ==
    driving => \/ fresh /\ (planner = "direct" => current # NoTask)
               \/ outlived /\ planner = "nav2"

\* An order does not stay unanswered: the machine answers it or TRACK's
\* acknowledgement timeout fails it.
PendingIsAnswered ==
    \A t \in Tasks : orders[t] \in Pending ~> orders[t] \notin Pending

\* When a machine that TRACK holds for online stops for good, its orders end
\* (watchdog_tick, _fail_open_tasks), whatever the watchdog was in the middle of.
SilenceEndsOrders ==
    (at = "off" /\ asset = "online") ~> (at # "off" \/ InState(Open) = {})

\* RUNNING means "the asset is actively executing the task" (ontology.proto:
\* 152): with nothing lost, no order TRACK shows running is one that the machine
\* does not hold.
RunningIsExecuted ==
    Quiet => \A t \in Tasks \ lost : orders[t] = "running" => current = t

=============================================================================
