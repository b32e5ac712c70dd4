------------------------------- MODULE Relay -------------------------------
(***************************************************************************)
(* The relay in front of the Remo server (drive/bridge/argus_relay.py):    *)
(* who drives, what is forwarded, and the dead-man.                        *)
(*                                                                         *)
(* Every client has a reader thread, and there are the dead-man's and the  *)
(* upstream's.  _lock covers the roster and the dead-man's decision, and   *)
(* not on_token: between its look at the driver, its mark that the driver  *)
(* was heard and its send, every other thread may run.                     *)
(*                                                                         *)
(* The server keeps what it was told last, so the vehicle is its throttle  *)
(* and its steering, moving or not.                                        *)
(***************************************************************************)
EXTENDS Integers, Sequences

CONSTANTS
    People,    \* those who may connect
    Nobody,
    MaxJoins,  \* bound on connections made
    MaxBreaks  \* bound on the times the upstream connection breaks

ASSUME RelayAssumption == Nobody \notin People

VARIABLES
    roster,       \* clients, in the order they came
    driver,
    silent,       \* the driver was last heard longer ago than IDLE_MS
    neutralized,  \* driver_neutralized
    reader,       \* per client, where its thread is and the tokens it holds
    deadman,      \* the tokens the dead-man has still to send
    upstream,     \* "up", "broken" and not yet noticed, "down"
    moving,       \* the axes last told to move
    missed,       \* a token of the last neutral was not delivered
    late,         \* a driver's token was sent after the neutral meant to end it
    joins, breaks

relay == <<roster, driver, silent, neutralized, reader, deadman,
           upstream, moving, missed, late, joins, breaks>>
crew == <<roster, driver, joins>>
wires == <<upstream, breaks>>

Axes == {"throttle", "steer"}
Token == [axis : Axes, go : BOOLEAN]
Rest(axis) == [axis |-> axis, go |-> FALSE]

\* P42, then L0 and R0.  (Variant: the throttle alone.)
ThrottleOnly == <<Rest("throttle")>>
Neutral == <<Rest("throttle"), Rest("steer")>>

Away == [at |-> "away", holds |-> <<>>]
Reading == [at |-> "reading", holds |-> <<>>]

RelayInit ==
    /\ roster = <<>> /\ driver = Nobody
    /\ silent = FALSE /\ neutralized = FALSE
    /\ reader = [c \in People |-> Away]
    /\ deadman = <<>>
    /\ upstream = "up" /\ moving = {}
    /\ missed = FALSE /\ late = FALSE
    /\ joins = 0 /\ breaks = 0

------------------------------------------------------------------------------
(* Upstream: one send at a time, to a socket that may be gone.                *)

Told(token) == IF token.go THEN moving \cup {token.axis} ELSE moving \ {token.axis}

Send(token) == moving' = IF upstream = "up" THEN Told(token) ELSE moving

\* A neutral that does not arrive is not sent again: nobody reads the answer.
SendNeutral(token) ==
    /\ Send(token)
    /\ missed' = (missed \/ upstream # "up")

Breaks ==
    /\ upstream = "up" /\ breaks < MaxBreaks
    /\ upstream' = "broken" /\ breaks' = breaks + 1
    /\ UNCHANGED <<crew, silent, neutralized, reader, deadman, moving, missed, late>>

Noticed ==
    /\ upstream = "broken"
    /\ upstream' = "down"
    /\ UNCHANGED <<crew, silent, neutralized, reader, deadman, moving, missed, late, breaks>>

Reconnects ==
    /\ upstream = "down"
    /\ upstream' = "up"
    /\ UNCHANGED <<crew, silent, neutralized, reader, deadman, moving, missed, late, breaks>>

------------------------------------------------------------------------------
(* Who drives.                                                                *)

\* The one who has been here longest, if nobody drives: with a fresh clock.
Promoted(here) == IF driver = Nobody /\ here # <<>> THEN here[1] ELSE driver

Promote(here) ==
    /\ driver' = Promoted(here)
    /\ silent' = (silent /\ Promoted(here) = driver)
    /\ neutralized' = (neutralized /\ Promoted(here) = driver)

Add(c) ==
    /\ reader[c] = Away /\ joins < MaxJoins
    /\ roster' = Append(roster, c)
    /\ Promote(Append(roster, c))
    /\ reader' = [reader EXCEPT ![c] = Reading]
    /\ joins' = joins + 1
    /\ UNCHANGED <<wires, deadman, moving, missed, late>>

\* list.remove: the others close up.
Without(here, c) ==
    LET i == CHOOSE i \in DOMAIN here : here[i] = c
    IN  SubSeq(here, 1, i - 1) \o SubSeq(here, i + 1, Len(here))

\* The connection ends.  A driver's thread sends neutral before it goes.
Leaves(c) ==
    /\ reader[c] = Reading
    /\ roster' = Without(roster, c)
    /\ IF c = driver
         THEN /\ driver' = Nobody
              /\ reader' = [reader EXCEPT ![c] = [at |-> "leaving", holds |-> Neutral]]
              /\ missed' = FALSE /\ late' = FALSE
         ELSE /\ reader' = [reader EXCEPT ![c] = Away]
              /\ UNCHANGED <<driver, missed, late>>
    /\ UNCHANGED <<wires, silent, neutralized, deadman, moving, joins>>

LeavesNeutral(c) ==
    /\ reader[c].at = "leaving" /\ reader[c].holds # <<>>
    /\ SendNeutral(Head(reader[c].holds))
    /\ reader' = [reader EXCEPT ![c].holds = Tail(@)]
    /\ UNCHANGED <<crew, wires, silent, neutralized, deadman, late>>

\* Somebody who came in between may drive already.
HandsOver(c) ==
    /\ reader[c].at = "leaving" /\ reader[c].holds = <<>>
    /\ Promote(roster)
    /\ reader' = [reader EXCEPT ![c] = Away]
    /\ UNCHANGED <<roster, joins, wires, deadman, moving, missed, late>>

------------------------------------------------------------------------------
(* on_token.                                                                  *)

Heartbeat == <<>>

\* Only the driver's frames count: the others are dropped here.
Takes(c, frame) ==
    /\ reader[c] = Reading /\ c = driver
    /\ reader' = [reader EXCEPT ![c] = [at |-> "heard", holds |-> frame]]
    /\ UNCHANGED <<crew, wires, silent, neutralized, deadman, moving, missed, late>>

Marks(c) ==
    /\ reader[c].at = "heard"
    /\ silent' = FALSE /\ neutralized' = FALSE
    /\ reader' = [reader EXCEPT ![c] =
           IF @.holds = Heartbeat THEN Reading ELSE [@ EXCEPT !.at = "sending"]]
    /\ UNCHANGED <<crew, wires, deadman, moving, missed, late>>

Forwards(c) ==
    /\ reader[c].at = "sending"
    /\ Send(reader[c].holds[1])
    /\ late' = (late \/ neutralized)
    /\ reader' = [reader EXCEPT ![c] = Reading]
    /\ UNCHANGED <<crew, wires, silent, neutralized, deadman, missed>>

------------------------------------------------------------------------------
(* The dead-man.                                                              *)

FallsSilent ==
    /\ driver # Nobody /\ ~silent
    /\ silent' = TRUE
    /\ UNCHANGED <<crew, wires, neutralized, reader, deadman, moving, missed, late>>

Fires ==
    /\ deadman = <<>>
    /\ driver # Nobody /\ silent /\ ~neutralized
    /\ neutralized' = TRUE
    /\ deadman' = Neutral
    /\ missed' = FALSE /\ late' = FALSE
    /\ UNCHANGED <<crew, wires, silent, reader, moving>>

HoldsNeutral ==
    /\ deadman # <<>>
    /\ SendNeutral(Head(deadman))
    /\ deadman' = Tail(deadman)
    /\ UNCHANGED <<crew, wires, silent, neutralized, reader, late>>

RelayNext ==
    \/ Breaks \/ Noticed \/ Reconnects
    \/ FallsSilent \/ Fires \/ HoldsNeutral
    \/ \E c \in People :
         \/ Add(c) \/ Leaves(c) \/ LeavesNeutral(c) \/ HandsOver(c)
         \/ Marks(c) \/ Forwards(c)
         \/ Takes(c, Heartbeat) \/ \E t \in Token : Takes(c, <<t>>)

RelaySpec == RelayInit /\ [][RelayNext]_relay

------------------------------------------------------------------------------
RelayOK ==
    /\ roster \in Seq(People)
    /\ \A i, j \in DOMAIN roster : roster[i] = roster[j] => i = j
    /\ driver \in People \cup {Nobody}
    /\ \A c \in People :
         /\ reader[c].at \in {"away", "reading", "heard", "sending", "leaving"}
         /\ reader[c].at \in {"reading", "heard", "sending"} <=> \E i \in DOMAIN roster : roster[i] = c
    /\ upstream \in {"up", "broken", "down"} /\ moving \subseteq Axes

\* No thread is between two of its steps.
AtRest == deadman = <<>> /\ \A c \in People : reader[c].at \in {"away", "reading"}

\* With nobody driving, or the driver held for silence, the vehicle was told to
\* rest on both axes; unless a token of that neutral was lost with the upstream
\* connection, or the driver's own last token was overtaken by it.  Those are the
\* only two ways out of "vehicle to neutral the instant the driver drops" and
\* "hold the vehicle at neutral" (argus_relay.py:182, 230), whoever joins, leaves
\* or takes over in between.
HeldAtNeutral ==
    (driver = Nobody \/ neutralized) /\ AtRest => moving = {} \/ missed \/ late

\* The claim of argus_relay.py:182 as it stands.
DeadmanHolds == neutralized /\ AtRest => moving = {}

=============================================================================
