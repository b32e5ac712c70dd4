----------------------------- MODULE HeldReports -----------------------------
(***************************************************************************)
(* What a machine keeps while its link is down, and what happens to it     *)
(* when the link comes back: the LINK clients (drive/pilot/link_client.py, *)
(* sim/link_client.py) over the MQTT drivers (hal/drivers/mqtt.py,         *)
(* sim/transport.py), up to the inbox of TRACK (track/transport.py,        *)
(* track/worldmodel.py).                                                   *)
(*                                                                         *)
(* Two threads: the machine's own loop, which reads the connection flag    *)
(* and then acts on what it read, and the broker client's, which sets the  *)
(* flag, runs the callback and clears the flag.  The broker client keeps   *)
(* what it was given (QoS 1) until it is acknowledged, and sends it again; *)
(* that client and the broker are external.  A report is an observation's  *)
(* number; a description is the revision of what the machine is made of.   *)
(***************************************************************************)
EXTENDS Naturals, Sequences

CONSTANTS
    Loads,       \* whose client it is and bounds on what it sends: [program, reports, parts]
    MaxCuts,     \* bound on the times a connection is cut or TRACK goes away
    HeldLimit,   \* OFFLINE_QUEUE_LIMIT
    InboxLimit   \* maxsize of TRACK's inbox

ASSUME HeldAssumption ==
    /\ Loads \subseteq [program : {"pilot", "fleet"}, reports : Nat, parts : Nat]
    /\ MaxCuts \in Nat
    /\ {HeldLimit, InboxLimit} \subseteq Nat \ {0}

VARIABLES
    load,       \* whose client this is, and the bounds it runs within
    wire,       \* the connection to the broker exists
    up,         \* the driver's flag says so (connected)
    made,       \* observations so far
    parts,      \* the revision of the description, 0 when there is none to tell
    offered,    \* the one last offered, 0 for none (_registry_sent)
    kept,       \* the one to send (_registry_pending) or repeat (_declaration)
    hand,       \* what the loop is sending, and what it found
    held,       \* the reports held
    callback,   \* where the broker client's thread is
    batch,      \* what it is sending of what was held
    outbox,     \* given to the broker client and not acknowledged
    cuts,       \* times a connection was cut or TRACK went away
    listening,  \* TRACK is connected to the broker
    inbox,      \* TRACK's inbox
    stored,     \* reports TRACK has handled
    learned,    \* the description TRACK has, 0 for none
    forsaken,   \* reports a limit or TRACK's absence has cost
    untold      \* a description was lost at TRACK's end, and it has not had the latest since

heldReports == <<load, wire, up, made, parts, offered, kept, hand, held, callback, batch,
                 outbox, cuts, listening, inbox, stored, learned, forsaken, untold>>

machineSide == <<load, made, parts, offered, kept, hand, held, callback, batch>>
trackSide == <<listening, inbox, stored, learned, forsaken, untold>>

Reports == [kind : {"report"}, n : 1..load.reports]
Descriptions == [kind : {"description"}, n : 1..load.parts]
Messages == Reports \cup Descriptions

Nothing == [at |-> "idle"]
Hand == {Nothing} \cup [at : {"composed", "holding", "publishing"}, what : Messages]

HeldOK ==
    /\ load \in Loads /\ wire \in BOOLEAN /\ up \in BOOLEAN /\ listening \in BOOLEAN
    /\ made \in 0..load.reports /\ parts \in 0..load.parts /\ cuts \in 0..MaxCuts
    /\ {offered, kept, learned} \subseteq 0..load.parts
    /\ hand \in Hand
    /\ held \in Seq(Reports) /\ Len(held) <= HeldLimit
    /\ callback \in {"none", "raised", "flush", "sending"}
    /\ batch \in Seq(Messages) /\ (batch # <<>> => callback = "sending")
    /\ outbox \in Seq(Messages)
    /\ inbox \in Seq(Messages) /\ Len(inbox) <= InboxLimit
    /\ stored \subseteq 1..load.reports /\ forsaken \subseteq 1..load.reports
    /\ untold \in BOOLEAN

HeldInit ==
    /\ load \in Loads
    /\ wire = FALSE /\ up = FALSE /\ made = 0 /\ parts = (IF load.parts = 0 THEN 0 ELSE 1)
    /\ offered = 0 /\ kept = 0 /\ hand = Nothing /\ held = <<>>
    /\ callback = "none" /\ batch = <<>> /\ outbox = <<>> /\ cuts = 0
    /\ listening = TRUE /\ inbox = <<>> /\ stored = {} /\ learned = 0
    /\ forsaken = {} /\ untold = FALSE

------------------------------------------------------------------------------
(* The machine's loop: _send and what calls it.                               *)

\* connected, as _send reads it.
Connected == up

\* _send after its check: an observation is held when there is no link.
Checked(message) ==
    IF Connected THEN [at |-> "publishing", what |-> message]
    ELSE IF message.kind = "report" THEN [at |-> "holding", what |-> message]
    ELSE Nothing

MakeReport ==
    /\ hand = Nothing /\ made < load.reports
    /\ made' = made + 1
    /\ hand' = Checked([kind |-> "report", n |-> made + 1])
    /\ UNCHANGED <<load, wire, up, parts, offered, kept, held, callback, batch, outbox, cuts>>
    /\ UNCHANGED trackSide

\* What the hardware layer knows changes, on a real machine.
PartsChange ==
    /\ load.program = "pilot" /\ 0 < parts /\ parts < load.parts
    /\ parts' = parts + 1
    /\ UNCHANGED <<load, wire, up, made, offered, kept, hand, held, callback, batch, outbox, cuts>>
    /\ UNCHANGED trackSide

\* offer_registry, every turn of the loop.
OfferRegistry ==
    /\ load.program = "pilot" /\ hand = Nothing /\ offered # parts
    /\ kept' = parts /\ offered' = parts
    /\ UNCHANGED <<load, wire, up, made, parts, hand, held, callback, batch, outbox, cuts>>
    /\ UNCHANGED trackSide

\* telemetry with something to carry: PILOT forgets it once it finds the link
\* up, the simulated vehicle keeps its one declaration for every connection.
Describe ==
    /\ hand = Nothing /\ parts # 0
    /\ \/ /\ load.program = "pilot" /\ kept # 0
          /\ hand' = [at |-> "composed", what |-> [kind |-> "description", n |-> kept]]
          /\ kept' = IF up THEN 0 ELSE kept
       \/ /\ load.program = "fleet" /\ kept = 0
          /\ hand' = [at |-> "composed", what |-> [kind |-> "description", n |-> parts]]
          /\ kept' = parts
    /\ UNCHANGED <<load, wire, up, made, parts, offered, held, callback, batch, outbox, cuts>>
    /\ UNCHANGED trackSide

SendDescription ==
    /\ hand.at = "composed"
    /\ hand' = Checked(hand.what)
    /\ UNCHANGED <<load, wire, up, made, parts, offered, kept, held, callback, batch, outbox, cuts>>
    /\ UNCHANGED trackSide

\* MqttComms.publish: the broker client takes it, connected or not.  (Variant:
\* QoS 0, which is gone without a connection.)
PublishOnce(messages) == outbox' = IF wire THEN outbox \o messages ELSE outbox
PublishQos1(messages) == outbox' = outbox \o messages
ToBroker(messages) == PublishQos1(messages)

SendNow ==
    /\ hand.at = "publishing"
    /\ ToBroker(<<hand.what>>) /\ hand' = Nothing
    /\ UNCHANGED <<load, wire, up, made, parts, offered, kept, held, callback, batch, cuts>>
    /\ UNCHANGED trackSide

\* The append, under the lock, to a queue that drops its oldest.
Hold ==
    /\ hand.at = "holding"
    /\ hand' = Nothing
    /\ held' = IF Len(held) < HeldLimit THEN Append(held, hand.what)
               ELSE Append(Tail(held), hand.what)
    /\ forsaken' = IF Len(held) < HeldLimit THEN forsaken ELSE forsaken \cup {Head(held).n}
    /\ UNCHANGED <<load, wire, up, made, parts, offered, kept, callback, batch, outbox, cuts>>
    /\ UNCHANGED <<listening, inbox, stored, learned, untold>>

------------------------------------------------------------------------------
(* The broker client's thread.                                                *)

\* _on_connect sets the flag and then calls on_connected.
LinkUp ==
    /\ callback = "none" /\ ~wire /\ ~up
    /\ wire' = TRUE /\ up' = TRUE
    /\ callback' = IF load.program = "pilot" THEN "raised" ELSE "flush"
    /\ UNCHANGED <<load, made, parts, offered, kept, hand, held, batch, outbox, cuts>>
    /\ UNCHANGED trackSide

\* _on_link_up: TRACK is told again what the machine is made of.  (Variant: it
\* is taken to remember.)
OfferStands == offered
OfferAnew == 0
AfterLinkUp == OfferAnew

OnLinkUp ==
    /\ callback = "raised"
    /\ offered' = AfterLinkUp /\ callback' = "flush"
    /\ UNCHANGED <<load, wire, up, made, parts, kept, hand, held, batch, outbox, cuts>>
    /\ UNCHANGED trackSide

\* flush: the queue is taken under the lock; a declaration goes out first.
TakeHeld ==
    /\ callback = "flush"
    /\ LET taken == (IF load.program = "fleet" /\ kept # 0
                     THEN <<[kind |-> "description", n |-> kept]>> ELSE <<>>) \o held
       IN batch' = taken /\ callback' = (IF taken = <<>> THEN "none" ELSE "sending")
    /\ held' = <<>>
    /\ UNCHANGED <<load, wire, up, made, parts, offered, kept, hand, outbox, cuts>>
    /\ UNCHANGED trackSide

SendHeld ==
    /\ callback = "sending"
    /\ ToBroker(<<Head(batch)>>) /\ batch' = Tail(batch)
    /\ callback' = IF Len(batch) = 1 THEN "none" ELSE "sending"
    /\ UNCHANGED <<load, wire, up, made, parts, offered, kept, hand, held, cuts>>
    /\ UNCHANGED trackSide

\* The connection is gone; the thread notices when it is through with the callback.
WireCut ==
    /\ wire /\ cuts < MaxCuts
    /\ wire' = FALSE /\ cuts' = cuts + 1
    /\ UNCHANGED <<up, outbox>> /\ UNCHANGED machineSide /\ UNCHANGED trackSide

LinkDown ==
    /\ callback = "none" /\ ~wire /\ up
    /\ up' = FALSE
    /\ UNCHANGED <<wire, outbox, cuts>> /\ UNCHANGED machineSide /\ UNCHANGED trackSide

------------------------------------------------------------------------------
(* The broker and TRACK.                                                      *)

Forsake(message) ==
    /\ forsaken' = IF message.kind = "report" THEN forsaken \cup {message.n} ELSE forsaken
    /\ untold' = (message.kind = "description" \/ untold)

\* _on_transport_message hands it to the inbox, unless TRACK is away or behind.
\* The acknowledgement can be lost with the connection; then it comes again.
BrokerDelivers ==
    /\ wire /\ outbox # <<>>
    /\ IF listening /\ Len(inbox) < InboxLimit
       THEN inbox' = Append(inbox, Head(outbox)) /\ UNCHANGED <<forsaken, untold>>
       ELSE Forsake(Head(outbox)) /\ UNCHANGED inbox
    /\ \/ outbox' = Tail(outbox) /\ UNCHANGED <<wire, cuts>>
       \/ cuts < MaxCuts /\ wire' = FALSE /\ cuts' = cuts + 1 /\ UNCHANGED outbox
    /\ UNCHANGED <<up, listening, stored, learned>> /\ UNCHANGED machineSide

TrackHandles ==
    /\ inbox # <<>>
    /\ inbox' = Tail(inbox)
    /\ IF Head(inbox).kind = "report"
       THEN stored' = stored \cup {Head(inbox).n} /\ UNCHANGED <<learned, untold>>
       ELSE /\ learned' = Head(inbox).n /\ UNCHANGED stored
            /\ untold' = (untold /\ Head(inbox).n # parts)
    /\ UNCHANGED <<wire, up, outbox, cuts, listening, forsaken>> /\ UNCHANGED machineSide

\* TRACK loses the broker, or is stopped with what its inbox holds.
TrackAway ==
    /\ listening /\ cuts < MaxCuts
    /\ listening' = FALSE /\ cuts' = cuts + 1
    /\ \/ UNCHANGED <<inbox, forsaken, untold>>
       \/ /\ inbox # <<>> /\ inbox' = <<>>
          /\ forsaken' = forsaken \cup {inbox[i].n : i \in {j \in DOMAIN inbox : inbox[j].kind = "report"}}
          /\ untold' = (untold \/ \E i \in DOMAIN inbox : inbox[i].kind = "description")
    /\ UNCHANGED <<wire, up, outbox, stored, learned>> /\ UNCHANGED machineSide

TrackBack ==
    /\ ~listening
    /\ listening' = TRUE
    /\ UNCHANGED <<wire, up, outbox, cuts, inbox, stored, learned, forsaken, untold>>
    /\ UNCHANGED machineSide

------------------------------------------------------------------------------
HeldLoop == OfferRegistry \/ Describe \/ SendDescription \/ SendNow \/ Hold
HeldThread == OnLinkUp \/ TakeHeld \/ SendHeld \/ LinkDown

HeldNext ==
    \/ HeldLoop \/ HeldThread \/ MakeReport \/ PartsChange
    \/ LinkUp \/ WireCut \/ BrokerDelivers \/ TrackHandles \/ TrackAway \/ TrackBack

HeldSpec == HeldInit /\ [][HeldNext]_heldReports

------------------------------------------------------------------------------
(* Properties.                                                                *)

ReportsIn(messages) == {messages[i].n : i \in {j \in DOMAIN messages : messages[j].kind = "report"}}
InHand == IF hand.at = "idle" THEN {} ELSE ReportsIn(<<hand.what>>)

\* An observation is somewhere on its way, in the world model, or one of those a
\* named limit or TRACK's absence has cost, whatever the two threads do between
\* each other's steps (_send, flush: "would otherwise be lost").  The check of the
\* connection and the append are not one step, so one can be held after the flush
\* that should have sent it: one at the most, until the next connection.
NothingLost ==
    /\ 1..made \subseteq stored \cup forsaken \cup InHand \cup ReportsIn(held) \cup ReportsIn(batch)
                         \cup ReportsIn(outbox) \cup ReportsIn(inbox)
    /\ up /\ callback = "none" => Len(held) <= 1

\* With a connection that stays, TRACK knows what the machine is made of, unless
\* it was away, or behind, when it was told (offer_registry, _on_link_up).
TrackLearns ==
    <>[](wire /\ listening) => []<>(learned = parts \/ untold)

=============================================================================
