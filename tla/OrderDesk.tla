------------------------------ MODULE OrderDesk ------------------------------
(***************************************************************************)
(* TRACK's side of the orders it gives one machine: issuing, cancelling,   *)
(* taking reports and the watchdog (track/worldmodel.py).                  *)
(*                                                                         *)
(* TRACK is one asyncio loop: a handler runs whole up to its first await.  *)
(* The awaits that matter are those of the watchdog, which reads a list,   *)
(* publishes to the live bus for one entry and then goes on with what it   *)
(* read: with a bus that suspends (Redis), every other handler may run in  *)
(* between.  Other machines and orders are other entries of those lists,   *)
(* so an await can come before any entry.                                  *)
(***************************************************************************)
EXTENDS Uplink

VARIABLES
    orders,  \* per task, its status in the store: "none" before it is issued,
             \* "overdue" when PENDING for longer than task_ack_timeout_s
    asset,   \* the machine's status: "unknown", "online", "offline"
    silent,  \* its last heartbeat is older than heartbeat_timeout_s
    sweep    \* the watchdog's tick: where it is and the orders it has read

desk == <<orders, asset, silent, sweep>>

Pending == {"pending", "overdue"}
Open == Pending \cup {"accepted", "running"}
Statuses == {"none"} \cup Pending \cup Told

\* A tick that has nothing to write is no step at all.
Sweeps == [at : {"idle", "silent", "marked", "failing"}, read : SUBSET Tasks]
Idle == [at |-> "idle", read |-> {}]
Failing(tasks) == IF tasks = {} THEN Idle ELSE [at |-> "failing", read |-> tasks]

DeskOK ==
    /\ orders \in [Tasks -> Statuses]
    /\ asset \in {"unknown", "online", "offline"}
    /\ silent \in BOOLEAN
    /\ sweep \in Sweeps

DeskInit ==
    /\ orders = [t \in Tasks |-> "none"]
    /\ asset = "unknown" /\ silent = FALSE
    /\ sweep = Idle

InState(states) == {t \in Tasks : orders[t] \in states}

------------------------------------------------------------------------------
(* Orders out.                                                                *)

\* preview_task's check that the machine is answering; its other checks do not
\* depend on what happens here.
Answering == asset = "online"

Issue(t) ==
    /\ orders[t] = "none" /\ Answering
    /\ orders' = [orders EXCEPT ![t] = "pending"]
    /\ Send([task |-> t, cancel |-> FALSE])
    /\ UNCHANGED <<asset, silent, sweep>>

Cancel(t) ==
    /\ orders[t] \in Open
    /\ orders' = [orders EXCEPT ![t] = "cancelled"]
    /\ Send([task |-> t, cancel |-> TRUE])
    /\ UNCHANGED <<asset, silent, sweep>>

------------------------------------------------------------------------------
(* Reports in.                                                                *)

\* The status an order has is the one last reported, whatever was there before.
OnTaskStatus ==
    /\ connected /\ got < Len(up)
    /\ LET report == up[got + 1] IN
       orders' = [orders EXCEPT ![report.task] = report.state]
    /\ got' = got + 1
    /\ UNCHANGED <<asset, silent, sweep, connected, up, down, lost>>

\* A heartbeat comes in the order of everything else the machine sends.
OnHeartbeat ==
    /\ connected /\ got = Len(up)
    /\ asset' = "online" /\ silent' = FALSE
    /\ UNCHANGED <<orders, sweep, wire>>

------------------------------------------------------------------------------
(* watchdog_tick.                                                             *)

\* It reads the machines: this one is silent and not yet known to be.
FindSilent ==
    /\ sweep.at = "idle" /\ asset = "online" /\ silent
    /\ sweep' = [sweep EXCEPT !.at = "silent"]
    /\ UNCHANGED <<orders, asset, silent, wire>>

\* It writes back the copy it read, whatever was heard since.
MarkOffline ==
    /\ sweep.at = "silent"
    /\ asset' = "offline" /\ silent' = TRUE
    /\ sweep' = [sweep EXCEPT !.at = "marked"]
    /\ UNCHANGED <<orders, wire>>

\* The orders that end with a machine's silence: all that are open.  (Variant:
\* those it is carrying out.)
RunningOrders == InState({"running"})
OpenOrders == InState(Open)

\* Having published that, it reads the machine's open orders and fails one ...
FailFirst(t) ==
    /\ sweep.at = "marked" /\ t \in OpenOrders
    /\ orders' = [orders EXCEPT ![t] = "failed"]
    /\ sweep' = Failing(OpenOrders \ {t})
    /\ UNCHANGED <<asset, silent, wire>>

NoneOpen ==
    /\ sweep.at = "marked" /\ OpenOrders = {}
    /\ sweep' = Idle
    /\ UNCHANGED <<orders, asset, silent, wire>>

\* Variant: the acknowledgement timeout is never applied.
ForgivesOverdue == {}
Overdue == InState({"overdue"})

\* It reads the orders nobody has answered in time ...
FindOverdue ==
    /\ sweep.at = "idle" /\ Overdue # {}
    /\ sweep' = Failing(Overdue)
    /\ UNCHANGED <<orders, asset, silent, wire>>

\* ... and fails each, as it was read.
FailNext(t) ==
    /\ sweep.at = "failing" /\ t \in sweep.read
    /\ orders' = [orders EXCEPT ![t] = "failed"]
    /\ sweep' = Failing(sweep.read \ {t})
    /\ UNCHANGED <<asset, silent, wire>>

Watch ==
    \/ FindSilent \/ MarkOffline \/ NoneOpen \/ FindOverdue
    \/ \E t \in Tasks : FailFirst(t) \/ FailNext(t)

\* The acknowledgement timeout of an order passes.
GrowOverdue(t) ==
    /\ orders[t] = "pending"
    /\ orders' = [orders EXCEPT ![t] = "overdue"]
    /\ UNCHANGED <<asset, silent, sweep, wire>>

=============================================================================
