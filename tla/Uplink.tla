------------------------------- MODULE Uplink -------------------------------
(***************************************************************************)
(* What carries orders and reports between TRACK and one machine: LINK's   *)
(* task and task_status messages over MQTT, as drive/pilot/link_client.py  *)
(* and drive/pilot/hal/drivers/mqtt.py use it.                             *)
(*                                                                         *)
(* A report is published with quality of service 1: it stays with the      *)
(* machine's client until the broker acknowledges it, and everything not   *)
(* acknowledged is sent again, in order, after a reconnection.  Orders go  *)
(* to whoever is subscribed at the time: the session is a clean one, so a  *)
(* machine that is away misses them.                                       *)
(***************************************************************************)
EXTENDS Naturals, Sequences

CONSTANTS Tasks,    \* orders TRACK may issue
          MaxUp,    \* bound: reports on their way at once
          MaxDown   \* bound: orders and cancellations on their way at once

ASSUME MaxUpAssumption == MaxUp \in Nat
ASSUME MaxDownAssumption == MaxDown \in Nat

VARIABLES
    connected,  \* CommsDriver.connected: the machine's session with the broker
    up,         \* reports published and not acknowledged, oldest first
    got,        \* how many of them TRACK has been handed in this session
    down,       \* orders and cancellations on their way to the machine
    lost        \* tasks whose order, cancellation or ending was lost (observer)

wire == <<connected, up, got, down, lost>>

\* What a machine says of an order.
Told == {"accepted", "running", "done", "failed", "cancelled"}
Reports == [task : Tasks, state : Told]

\* What TRACK sends: an order, or the same order with its status set to
\* cancelled.
Assignments == [task : Tasks, cancel : BOOLEAN]

About(messages) == {messages[i].task : i \in DOMAIN messages}

\* The tasks whose ending is among these reports.
Endings(reports) ==
    {reports[i].task : i \in {j \in DOMAIN reports : reports[j].state \notin {"accepted", "running"}}}

WireOK ==
    /\ connected \in BOOLEAN
    /\ up \in Seq(Reports) /\ Len(up) <= MaxUp
    /\ got \in 0 .. Len(up)
    /\ down \in Seq(Assignments) /\ Len(down) <= MaxDown
    /\ lost \subseteq Tasks

WireInit == connected = FALSE /\ up = <<>> /\ got = 0 /\ down = <<>> /\ lost = {}

\* task_status(): a report made while the link is down is dropped.
Tell(reports) ==
    /\ IF connected
       THEN /\ Len(up) + Len(reports) <= MaxUp
            /\ up' = up \o reports
            /\ lost' = lost
       ELSE /\ up' = up
            /\ lost' = lost \cup Endings(reports)
    /\ UNCHANGED <<connected, got, down>>

\* TRACK publishes to the machine's task topic.
Send(assignment) ==
    /\ IF connected
       THEN /\ Len(down) < MaxDown
            /\ down' = Append(down, assignment)
            /\ lost' = lost
       ELSE down' = down /\ lost' = lost \cup {assignment.task}
    /\ UNCHANGED <<connected, up, got>>

LinkUp ==
    /\ ~connected
    /\ connected' = TRUE
    /\ got' = 0
    /\ UNCHANGED <<up, down, lost>>

LinkDown ==
    /\ connected
    /\ connected' = FALSE
    /\ down' = <<>>
    /\ lost' = lost \cup About(down)
    /\ UNCHANGED <<up, got>>

\* The broker acknowledges the oldest report.
Acknowledge ==
    /\ connected /\ got > 0
    /\ up' = Tail(up)
    /\ got' = got - 1
    /\ UNCHANGED <<connected, down, lost>>

\* The machine's process dies: what its client held is gone, with the orders it
\* had been handed and what it knew of these tasks and had not written down.
Cut(handed, unwritten) ==
    /\ connected' = FALSE
    /\ up' = <<>> /\ got' = 0 /\ down' = <<>>
    /\ lost' = lost \cup About(down) \cup About(handed) \cup unwritten
                    \cup Endings(SubSeq(up, got + 1, Len(up)))

=============================================================================
