-------------------------------- MODULE Errands --------------------------------
(***************************************************************************)
(* What TRACK does unasked: sending automatic machines to look at contacts *)
(* and taking those orders back (track/worldmodel.py investigate,          *)
(* set_autonomy, withdraw_own_orders; track/api.py).                       *)
(*                                                                         *)
(* The task that drains the inbox runs these handlers, and so does one per *)
(* request.  Each runs whole up to an await of the live bus, and there the *)
(* others may run if the bus suspends, which the in-process one never does.*)
(***************************************************************************)
EXTENDS Naturals, Sequences, FiniteSets

CONSTANTS
    Machines,   \* the machines on record
    Sights,     \* contacts
    Requests,   \* requests to set a mode being handled at once
    NoSight,    \* what an operator's order looks into
    MaxErrands  \* bound on the orders issued

ASSUME ErrandsAssumption == Machines # {} /\ NoSight \notin Sights /\ MaxErrands \in Nat

Inbox == "inbox"
Handlers == {Inbox} \cup Requests

VARIABLES
    mode,      \* per machine, its row in asset_autonomy, "unset" without one
    answers,   \* per machine: "unheard", "online", "offline"
    sights,    \* per contact: "none", "open", "closed"
    errands,   \* the orders, in order: [machine, sight, state]
    lookedAt,  \* per contact, its row in investigations: the order's number, or 0
    doing,     \* per handler, where it is
    suspends,  \* the live bus suspends its caller
    died,      \* TRACK has been killed in the middle of a handler
    \* Observers: orders of machines not automatic since, that a late report
    \* opened again, and that a withdrawal did not find on record.
    reopened, overlooked

excused == <<reopened, overlooked>>
errand == <<mode, answers, sights, errands, lookedAt, doing, suspends, died, excused>>

Modes == {"manual", "automatic"}

\* "look" waits for the first event of a new contact, "tell" for that of a mode,
\* "order" for those of an order just issued; "sweep" and "withdraw" go through
\* what they have read.
Doing == [at : {"idle", "look", "tell", "order", "sweep", "withdraw"},
          machine : Machines, was : Modes, to : Modes,
          sight : Sights \cup {NoSight}, order : 0..MaxErrands,
          todo : SUBSET Sights, orders : SUBSET (1..MaxErrands)]

Errand == [machine : Machines, sight : Sights \cup {NoSight}, state : {"open", "ended", "withdrawn"}]

ErrandsOK ==
    /\ mode \in [Machines -> {"unset", "manual", "automatic"}]
    /\ answers \in [Machines -> {"unheard", "online", "offline"}]
    /\ sights \in [Sights -> {"none", "open", "closed"}]
    /\ errands \in Seq(Errand) /\ Len(errands) <= MaxErrands
    /\ lookedAt \in [Sights -> 0..Len(errands)]
    /\ doing \in [Handlers -> Doing]
    /\ suspends \in BOOLEAN /\ died \in BOOLEAN
    /\ reopened \subseteq DOMAIN errands /\ overlooked \subseteq DOMAIN errands

Free == [at |-> "idle", machine |-> CHOOSE m \in Machines : TRUE, was |-> "manual", to |-> "manual",
         sight |-> NoSight, order |-> 0, todo |-> {}, orders |-> {}]

ErrandsInit ==
    /\ mode = [m \in Machines |-> "unset"]
    /\ answers = [m \in Machines |-> "unheard"]
    /\ sights = [c \in Sights |-> "none"] /\ errands = <<>> /\ lookedAt = [c \in Sights |-> 0]
    /\ doing = [h \in Handlers |-> Free]
    /\ suspends \in BOOLEAN /\ died = FALSE
    /\ reopened = {} /\ overlooked = {}

------------------------------------------------------------------------------
\* The handler that may run: any one, or with a bus that never suspends the one
\* that has begun.
MayRun(h) == suspends \/ \A g \in Handlers \ {h} : doing[g].at = "idle"

Go(h, at) == doing' = [doing EXCEPT ![h] = at]

\* A machine nobody has decided about is manual.
AutonomyOf(m) == IF mode[m] = "unset" THEN "manual" ELSE mode[m]

OpenErrands == {o \in DOMAIN errands : errands[o].state = "open"}
Own(o) == errands[o].sight # NoSight
Automatic(o) == AutonomyOf(errands[o].machine) = "automatic"
Ends(o) == reopened' = reopened \ {o} /\ overlooked' = overlooked \ {o}

\* _eligible_for: automatic, not known to be offline, carrying no order.
Eligible ==
    {m \in Machines : /\ AutonomyOf(m) = "automatic" /\ answers[m] # "offline"
                      /\ \A o \in OpenErrands : errands[o].machine # m}

\* issue_task up to its first await: the order is in the store and on its way.
Place(m, c) == errands' = Append(errands, [machine |-> m, sight |-> c, state |-> "open"])

\* Variant: whoever it was that looked into it is asked again.
NeverAsks(c) == FALSE
WasInvestigated(c) == lookedAt[c] # 0

\* investigate: nothing to do, nobody to send, or the nearest machine, which can
\* have fallen silent.  A refusal is not retried.
Investigate(h, c, then) ==
    \/ /\ WasInvestigated(c) \/ Eligible = {} \/ \E m \in Eligible : answers[m] = "unheard"
       /\ Go(h, then) /\ UNCHANGED errands
    \/ /\ ~WasInvestigated(c) /\ Len(errands) < MaxErrands
       /\ \E m \in Eligible :
             /\ answers[m] = "online" /\ Place(m, c)
             /\ Go(h, [then EXCEPT !.at = "order", !.sight = c, !.order = Len(errands) + 1])

\* record_investigation, when the order's event and update have been published.
Record(h) ==
    /\ doing[h].at = "order" /\ MayRun(h)
    /\ lookedAt' = [lookedAt EXCEPT ![doing[h].sight] = doing[h].order]
    /\ Go(h, IF h = Inbox THEN Free ELSE [doing[h] EXCEPT !.at = "sweep", !.order = 0, !.sight = NoSight])
    /\ UNCHANGED <<mode, answers, sights, errands, suspends, died, excused>>

------------------------------------------------------------------------------
(* The inbox.                                                                 *)

\* An observation makes a contact; its event is published first ...
NewSight(c) ==
    /\ doing[Inbox].at = "idle" /\ MayRun(Inbox) /\ sights[c] = "none"
    /\ sights' = [sights EXCEPT ![c] = "open"]
    /\ Go(Inbox, [Free EXCEPT !.at = "look", !.sight = c])
    /\ UNCHANGED <<mode, answers, errands, lookedAt, suspends, died, excused>>

\* ... and then a machine is sent.
LookInto ==
    /\ doing[Inbox].at = "look" /\ MayRun(Inbox)
    /\ Investigate(Inbox, doing[Inbox].sight, Free)
    /\ UNCHANGED <<mode, answers, sights, lookedAt, suspends, died, excused>>

------------------------------------------------------------------------------
(* Requests.                                                                  *)

\* set_autonomy up to its first await; a mode that is not enforced is refused.
SetAutonomy(r, m, to) ==
    /\ doing[r].at = "idle" /\ MayRun(r) /\ mode[m] # to
    /\ mode' = [mode EXCEPT ![m] = to]
    /\ Go(r, [Free EXCEPT !.at = "tell", !.machine = m, !.was = AutonomyOf(m), !.to = to])
    /\ LET kept(S) == {o \in S : to = "automatic" => errands[o].machine # m} IN
       reopened' = kept(reopened) /\ overlooked' = kept(overlooked)
    /\ UNCHANGED <<answers, sights, errands, lookedAt, suspends, died>>

\* investigate_open_contacts reads the contacts once, withdraw_own_orders the
\* rows of the machine's own orders.  (Variant: all of its orders.)
AllOrders(m) == {o \in DOMAIN errands : errands[o].machine = m}
OwnOrders(m) == {lookedAt[c] : c \in {d \in Sights : lookedAt[d] # 0 /\ errands[lookedAt[d]].machine = m}}

\* Issued and not recorded yet, or recorded over since.
OffRecord(m) ==
    {o \in OpenErrands : errands[o].machine = m /\ Own(o) /\ lookedAt[errands[o].sight] # o}

Switched(r) == doing[r].at = "tell" /\ doing[r].to # doing[r].was
Withdraws(r) == Switched(r) /\ doing[r].to # "automatic"

Told(r) ==
    /\ doing[r].at = "tell" /\ MayRun(r)
    /\ Go(r, IF ~Switched(r) THEN Free
             ELSE IF Withdraws(r)
             THEN [Free EXCEPT !.at = "withdraw", !.orders = OwnOrders(doing[r].machine)]
             ELSE [Free EXCEPT !.at = "sweep", !.todo = {c \in Sights : sights[c] = "open"}])
    /\ overlooked' = overlooked \cup (IF Withdraws(r) THEN OffRecord(doing[r].machine) ELSE {})
    /\ UNCHANGED <<mode, answers, sights, errands, lookedAt, suspends, died, reopened>>

\* The next contact of the sweep.
SweepOn(r, c) ==
    /\ doing[r].at = "sweep" /\ c \in doing[r].todo /\ MayRun(r)
    /\ Investigate(r, c, [doing[r] EXCEPT !.todo = @ \ {c}])
    /\ UNCHANGED <<mode, answers, sights, lookedAt, suspends, died, excused>>

\* The next order to take back; one that has ended stays as it is.
Withdraw(r, o) ==
    /\ doing[r].at = "withdraw" /\ o \in doing[r].orders /\ MayRun(r)
    /\ errands' = [errands EXCEPT ![o].state = IF @ = "open" THEN "withdrawn" ELSE @]
    /\ Go(r, [doing[r] EXCEPT !.orders = @ \ {o}])
    /\ Ends(o)
    /\ UNCHANGED <<mode, answers, sights, lookedAt, suspends, died>>

Finish(r) ==
    /\ doing[r].at \in {"sweep", "withdraw"} /\ doing[r].todo = {} /\ doing[r].orders = {}
    /\ MayRun(r)
    /\ Go(r, Free)
    /\ UNCHANGED <<mode, answers, sights, errands, lookedAt, suspends, died, excused>>

\* create_task: a person's order, in one step.
OperatorOrders(m) ==
    /\ \A h \in Handlers : suspends \/ doing[h].at = "idle"
    /\ answers[m] = "online" /\ Len(errands) < MaxErrands
    /\ Place(m, NoSight)
    /\ UNCHANGED <<mode, answers, sights, lookedAt, doing, suspends, died, excused>>

------------------------------------------------------------------------------
(* The machines, and TRACK's own end.                                         *)

\* A heartbeat comes through the inbox, the end of its window by the watchdog.
Heard(m, as) ==
    /\ \A h \in Handlers : suspends \/ doing[h].at = "idle"
    /\ as = "online" => doing[Inbox].at = "idle"
    /\ as # answers[m]
    /\ answers' = [answers EXCEPT ![m] = as]
    /\ UNCHANGED <<mode, sights, errands, lookedAt, doing, suspends, died, excused>>

\* The sweep of the tracks closes one nobody has observed for long.
CloseSight(c) ==
    /\ sights[c] = "open" /\ \A h \in Handlers : suspends \/ doing[h].at = "idle"
    /\ sights' = [sights EXCEPT ![c] = "closed"]
    /\ UNCHANGED <<mode, answers, errands, lookedAt, doing, suspends, died, excused>>

\* The watchdog fails an order, or a person cancels it.  Over a bus that suspends,
\* the watchdog goes by what it read, whatever has become of the order since.
EndErrand(o) ==
    /\ \A h \in Handlers : suspends \/ doing[h].at = "idle"
    /\ o \in OpenErrands \/ suspends
    /\ errands' = [errands EXCEPT ![o].state = "ended"]
    /\ Ends(o)
    /\ UNCHANGED <<mode, answers, sights, lookedAt, doing, suspends, died>>

\* on_task_status: what the machine says of an order is what it is, whatever it
\* was: a late "running" opens one again that was withdrawn or failed.
Report(o, as) ==
    /\ doing[Inbox].at = "idle" /\ MayRun(Inbox)
    /\ errands' = [errands EXCEPT ![o].state = as]
    /\ IF as = "ended" THEN Ends(o)
       ELSE /\ reopened' = reopened \cup {p \in {o} \ OpenErrands : Own(p) /\ ~Automatic(p)}
            /\ UNCHANGED overlooked
    /\ UNCHANGED <<mode, answers, sights, lookedAt, doing, suspends, died>>

Die ==
    /\ ~died /\ \E h \in Handlers : doing[h].at # "idle"
    /\ died' = TRUE /\ doing' = [h \in Handlers |-> Free]
    /\ UNCHANGED <<mode, answers, sights, errands, lookedAt, suspends, excused>>

ErrandsNext ==
    \/ \E c \in Sights : NewSight(c) \/ CloseSight(c)
    \/ LookInto \/ Die
    \/ \E h \in Handlers : Record(h)
    \/ \E r \in Requests :
          \/ \E m \in Machines, to \in {"manual", "automatic"} : SetAutonomy(r, m, to)
          \/ \E c \in Sights : SweepOn(r, c)
          \/ \E o \in DOMAIN errands : Withdraw(r, o)
          \/ Told(r) \/ Finish(r)
    \/ \E m \in Machines : OperatorOrders(m) \/ Heard(m, "online") \/ Heard(m, "offline")
    \/ \E o \in DOMAIN errands : EndErrand(o) \/ Report(o, "open") \/ Report(o, "ended")

ErrandsSpec == ErrandsInit /\ [][ErrandsNext]_errand

------------------------------------------------------------------------------
(* Properties.                                                                *)

AllIdle == \A h \in Handlers : doing[h].at = "idle"

\* api.py on set_autonomy: switching away withdraws the orders this platform
\* issued on its own, and only those.  When no handler is at work, none of its
\* own orders is open on a machine that is not automatic, unless the machine
\* itself reported it under way again after it had ended, or it was not on record
\* when the switch looked, for which the bus must suspend.  No operator's order is
\* ever withdrawn.
SwitchWithdraws ==
    /\ AllIdle /\ ~died =>
          \A o \in OpenErrands : Own(o) => Automatic(o) \/ o \in reopened \cup overlooked
    /\ ~suspends /\ ~died => overlooked = {}
    /\ \A o \in DOMAIN errands : errands[o].state = "withdrawn" => Own(o)

\* A second machine is sent to a contact only while the handler that sent the
\* first has not recorded it, and so only over a bus that suspends (investigate's
\* check and its record are not one step, however the requests and new contacts
\* come).
InTheAir(o) == \E h \in Handlers : doing[h].at = "order" /\ doing[h].order = o

OneMachinePerContact ==
    [][~died =>
         \A o \in DOMAIN errands, p \in DOMAIN errands' \ DOMAIN errands :
            errands'[p].sight # NoSight /\ errands[o].sight = errands'[p].sight
                => suspends /\ InTheAir(o)]_errand

=============================================================================
