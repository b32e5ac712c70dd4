------------------------------- MODULE Cockpit -------------------------------
(***************************************************************************)
(* The operator's cockpit on a bridge link: the store's arm request        *)
(* (drive/cockpit/src/state/store.ts), the transport hook                  *)
(* (transport/useBridgeTransport.ts, bridgeTransport.ts), the active       *)
(* screen (embed/driveActive.ts) and the sticks (input/), against the      *)
(* vehicle's own watchdog at the other end of the socket (module           *)
(* Watchdog).                                                              *)
(*                                                                         *)
(* The page is one thread: a handler runs whole.  The socket keeps order   *)
(* and stalls at will in either direction.  The stick is an input, neutral *)
(* or driving at each frame; so is the rest of the arm gate (ignition, the *)
(* self-test).  Telemetry is the safety state.  Gears, lights, the words   *)
(* on the screen and the local simulation are left out.  A frame that does *)
(* not assert arm moves nothing and is written without throttle.           *)
(***************************************************************************)
EXTENDS Integers, Sequences

CONSTANTS
    Window,   \* the vehicle's watchdog window, which it declares
    Confirm,  \* ARM_CONFIRM_MS
    MaxUp,    \* bound on the frames in the socket
    MaxDown,  \* bound on the readings on their way
    MaxLost   \* bound on the times the socket dies

ASSUME CockpitAssumption ==
    /\ Window \in Nat \ {0} /\ Confirm \in 1..Window - 1
    /\ {MaxUp, MaxDown, MaxLost} \subseteq Nat

WD == INSTANCE Watchdog WITH Timeout <- Window, Horizon <- Window + 1

VARIABLES
    onScreen,       \* Drive is the active screen (driveActiveNow)
    past,         \* the operator is past the connect step (liveRef)
    socket,       \* "closed", "open", "signed out"
    lost,         \* times it has died
    relinquished, \* control has been given up since the last accepted press
    fresh,        \* vehicle telemetry is arriving (remote in the store)
    heard,        \* age of the last of it on an open socket (lastHeard)
    armed,        \* command.safety.arm
    deadline,     \* what is left for the vehicle to confirm it, or Settled
    stopEdge,     \* command.safety.estop
    reading,      \* telemetry.safetyState
    upward,           \* frames in the socket, oldest first
    downward,         \* readings in the socket, oldest first
    wd,           \* the vehicle's watchdog
    acting,       \* the last command frame it took, while it drives
    seat,         \* the vehicle has a driver on a socket
    confirmed     \* DRIVING has been read since the last press (observer)

cockpit == <<onScreen, past, socket, lost, relinquished, fresh, heard, armed, deadline, stopEdge,
             reading, upward, downward, wd, acting, seat, confirmed>>

request == <<armed, deadline, confirmed>>
far == <<wd, acting, seat>>

Settled == -1
Sent == [t : {"cmd"}, arm : BOOLEAN, estop : BOOLEAN, zero : BOOLEAN, sure : BOOLEAN]
Beat == [t |-> "hb"]
\* A frame without throttle.
Calm(arm, estop) == [t |-> "cmd", arm |-> arm, estop |-> estop, zero |-> TRUE, sure |-> FALSE]
Idle == Calm(FALSE, FALSE)
Quiet == Calm(FALSE, stopEdge)

CockpitOK ==
    /\ {onScreen, past, relinquished, fresh, armed, stopEdge, seat, confirmed} \subseteq BOOLEAN
    /\ socket \in {"closed", "open", "signed out"} /\ lost \in 0..MaxLost
    /\ heard \in 0..Window + 1 /\ deadline \in Settled..Confirm
    /\ reading \in WD!SafetyStates
    /\ upward \in Seq(Sent \cup {Beat}) /\ Len(upward) <= MaxUp
    /\ downward \in Seq(WD!SafetyStates) /\ Len(downward) <= MaxDown
    /\ wd \in WD!WatchdogStates /\ acting \in Sent
    /\ (fresh => socket = "open") /\ (deadline # Settled => armed)

\* A standalone cockpit is always active, an embedded one not until C2 says so.
CockpitInit ==
    /\ onScreen \in BOOLEAN /\ past = FALSE
    /\ socket = "closed" /\ lost = 0 /\ relinquished = TRUE /\ fresh = FALSE /\ heard = 0
    /\ armed = FALSE /\ deadline = Settled /\ stopEdge = FALSE
    /\ reading = "STOPPED" /\ upward = <<>> /\ downward = <<>>
    /\ wd = WD!NewWatchdog /\ acting = Idle /\ seat = FALSE /\ confirmed = FALSE

------------------------------------------------------------------------------
(* Frames.                                                                    *)

MayArm == past /\ onScreen /\ socket = "open" /\ fresh /\ ~relinquished

\* outgoing: a request the vehicle has not confirmed carries no throttle.
\* (Variant: it carries the stick's.)
ZeroAsStick(isPending, neutral) == neutral
ZeroWhilePending(isPending, neutral) == isPending \/ neutral
Zero(isPending, neutral) == ZeroWhilePending(isPending, neutral)

\* The command frame as the store stands, while the link is fresh enough to
\* assert arm (may) and with the stick where it is.
Frame(may, neutral) ==
    IF may /\ armed /\ deadline # 0
    THEN [t |-> "cmd", arm |-> TRUE, estop |-> stopEdge, zero |-> Zero(deadline # Settled, neutral),
          sure |-> confirmed]
    ELSE Quiet

\* What goes out in a step; a socket that is not open takes nothing.
Out(frames) ==
    /\ Len(upward) + Len(frames) <= MaxUp
    /\ upward' = IF socket = "open" THEN upward \o frames ELSE upward

\* relinquish in the store, and with it the flag of the transport.
DropRequest == armed' = FALSE /\ deadline' = Settled /\ confirmed' = FALSE
GiveUpControl == relinquished' = TRUE /\ DropRequest

------------------------------------------------------------------------------
(* The operator.                                                              *)

\* arm(): refused unless Drive is active, the gate is open and the stick
\* neutral.  The transport sends an accepted press at once, past the connect
\* step and on a live link.
PressArm ==
    /\ onScreen /\ fresh
    /\ armed' = TRUE /\ deadline' = Confirm /\ confirmed' = FALSE
    /\ IF past
       THEN relinquished' = FALSE /\ Out(<<Calm(TRUE, stopEdge)>>)
       ELSE UNCHANGED <<relinquished, upward>>
    /\ UNCHANGED <<onScreen, past, socket, lost, fresh, heard, stopEdge, reading, downward>>
    /\ UNCHANGED far

\* STOP works on any screen; a press while the last one's edge is up sends nothing.
PressStop ==
    /\ DropRequest /\ stopEdge' = TRUE
    /\ Out(IF stopEdge THEN <<>> ELSE <<Calm(FALSE, TRUE)>>)
    /\ UNCHANGED <<onScreen, past, socket, lost, relinquished, fresh, heard, reading, downward>>
    /\ UNCHANGED far

\* The operator comes to Drive past the connect step.
PassConnect ==
    /\ ~past /\ past' = TRUE
    /\ UNCHANGED <<onScreen, socket, lost, relinquished, fresh, heard, stopEdge, reading, upward, downward>>
    /\ UNCHANGED request /\ UNCHANGED far

\* C2 puts another screen in front: control is given up, and the frame that
\* says so goes at once.  (Variant: the frames just end.)
FallSilent == <<>>
SayDisarmed == <<Quiet>>
LastFrame == SayDisarmed

Leave ==
    /\ onScreen /\ socket # "signed out"
    /\ onScreen' = FALSE /\ GiveUpControl
    /\ Out(LastFrame)
    /\ UNCHANGED <<past, socket, lost, fresh, heard, stopEdge, reading, downward>>
    /\ UNCHANGED far

ComeBack ==
    /\ ~onScreen /\ onScreen' = TRUE
    /\ UNCHANGED <<past, socket, lost, relinquished, fresh, heard, stopEdge, reading, upward, downward>>
    /\ UNCHANGED request /\ UNCHANGED far

\* C2 signs the operator out: disarm, then a clean close behind it.
SignOut ==
    /\ socket # "signed out"
    /\ GiveUpControl
    /\ Out(<<Quiet>>)
    /\ socket' = "signed out" /\ fresh' = FALSE /\ heard' = 0
    /\ UNCHANGED <<onScreen, past, lost, stopEdge, reading, downward>>
    /\ UNCHANGED far

------------------------------------------------------------------------------
(* The page's timers.                                                         *)

\* settle without a reading: only the window counts.
SettleArm == IF deadline = 0 THEN DropRequest ELSE UNCHANGED request

\* The loop of the store: it also ends the STOP edge.
Tick20Hz ==
    /\ stopEdge \/ deadline = 0
    /\ stopEdge' = FALSE /\ SettleArm
    /\ UNCHANGED <<onScreen, past, socket, lost, relinquished, fresh, heard, reading, upward, downward>>
    /\ UNCHANGED far

\* The send interval, when the link is not stale: the window first, then the
\* frame of an active Drive; every third beat a heartbeat.
Interval(beat, neutral) ==
    /\ socket # "signed out" /\ ~(socket = "open" /\ heard > Window)
    /\ SettleArm
    /\ Out((IF onScreen THEN <<Frame(MayArm, neutral)>> ELSE <<>>) \o (IF beat THEN <<Beat>> ELSE <<>>))
    /\ UNCHANGED <<onScreen, past, socket, lost, relinquished, fresh, heard, stopEdge, reading, downward>>
    /\ UNCHANGED far

\* The same when the vehicle has been silent for longer than its window: the
\* link is treated as lost, although the socket says it is open.
StaleInterval(beat) ==
    /\ socket = "open" /\ heard > Window
    /\ GiveUpControl /\ fresh' = FALSE /\ heard' = 0
    /\ Out((IF onScreen /\ (fresh \/ ~relinquished) THEN <<Quiet>> ELSE <<>>)
           \o (IF onScreen THEN <<Quiet>> ELSE <<>>) \o (IF beat THEN <<Beat>> ELSE <<>>))
    /\ UNCHANGED <<onScreen, past, socket, lost, stopEdge, reading, downward>>
    /\ UNCHANGED far

------------------------------------------------------------------------------
(* What comes in.                                                             *)

\* settle with a reading that is not DRIVING: a confirmed request is over, a
\* pending one when its window has passed or the vehicle has just latched.
Ends(state) == armed /\ (deadline \in {Settled, 0} \/ (state = "LATCHED" /\ reading # "LATCHED"))

HearVehicle ==
    /\ downward # <<>> /\ socket = "open"
    /\ LET state == Head(downward) IN
       /\ reading' = state
       /\ CASE armed /\ state = "DRIVING" -> deadline' = Settled /\ confirmed' = TRUE /\ UNCHANGED armed
            [] state # "DRIVING" /\ Ends(state) -> DropRequest
            [] OTHER -> UNCHANGED request
    /\ downward' = Tail(downward) /\ heard' = 0 /\ fresh' = TRUE
    /\ UNCHANGED <<onScreen, past, socket, lost, relinquished, stopEdge, upward>>
    /\ UNCHANGED far

\* onopen: open is not live, the vehicle has to speak first.
SocketOpens ==
    /\ socket = "closed" /\ ~seat
    /\ socket' = "open" /\ seat' = TRUE /\ heard' = 0 /\ fresh' = FALSE
    /\ UNCHANGED <<onScreen, past, lost, relinquished, stopEdge, reading, upward, downward, wd, acting>>
    /\ UNCHANGED request

\* onclose or onerror, with what the socket had not carried.
SocketDies ==
    /\ socket = "open" /\ lost < MaxLost
    /\ socket' = "closed" /\ lost' = lost + 1 /\ downward' = <<>>
    /\ \E n \in 0..Len(upward) : upward' = SubSeq(upward, 1, n)
    /\ GiveUpControl /\ fresh' = FALSE /\ heard' = 0
    /\ UNCHANGED <<onScreen, past, stopEdge, reading>>
    /\ UNCHANGED far

------------------------------------------------------------------------------
(* The vehicle.                                                               *)

near == <<onScreen, past, socket, lost, relinquished, fresh, heard, stopEdge, reading>>

TakeFrame ==
    /\ upward # <<>> /\ upward' = Tail(upward)
    /\ IF Head(upward).t = "hb" THEN wd' = WD!Feed(wd) /\ UNCHANGED acting
       ELSE /\ \E ready \in BOOLEAN : wd' = WD!Taken(wd, Head(upward), ready)
            /\ acting' = IF wd'.state = "DRIVING" THEN Head(upward) ELSE Idle
    /\ UNCHANGED <<downward, seat>> /\ UNCHANGED near /\ UNCHANGED request

Polls ==
    /\ WD!Trips(wd) /\ wd' = WD!Check(wd) /\ acting' = Idle
    /\ UNCHANGED <<upward, downward, seat>> /\ UNCHANGED near /\ UNCHANGED request

\* It reads the end of the socket, behind what the socket carried.
SeesClose ==
    /\ seat /\ socket # "open" /\ upward = <<>>
    /\ seat' = FALSE /\ wd' = WD!LinkLost(wd) /\ acting' = Idle
    /\ UNCHANGED <<upward, downward>> /\ UNCHANGED near /\ UNCHANGED request

TellState ==
    /\ socket = "open" /\ Len(downward) < MaxDown
    /\ downward' = Append(downward, wd.state)
    /\ UNCHANGED upward /\ UNCHANGED far /\ UNCHANGED near /\ UNCHANGED request

\* One unit of time, for the vehicle, the telemetry's age and the window.
Elapses ==
    /\ ~WD!Trips(wd) /\ deadline # 0
    /\ wd' = WD!Aged(wd)
    /\ heard' = IF socket = "open" /\ heard <= Window THEN heard + 1 ELSE heard
    /\ deadline' = IF deadline > 0 THEN deadline - 1 ELSE deadline
    /\ <<wd', heard', deadline'>> # <<wd, heard, deadline>>
    /\ UNCHANGED <<onScreen, past, socket, lost, relinquished, fresh, armed, stopEdge, reading,
                   upward, downward, acting, seat, confirmed>>

CockpitNext ==
    \/ PressArm \/ PressStop \/ PassConnect \/ Leave \/ ComeBack \/ SignOut
    \/ Tick20Hz \/ HearVehicle \/ SocketOpens \/ SocketDies
    \/ \E beat, neutral \in BOOLEAN : Interval(beat, neutral)
    \/ \E beat \in BOOLEAN : StaleInterval(beat)
    \/ TakeFrame \/ Polls \/ SeesClose \/ TellState \/ Elapses

CockpitSpec == CockpitInit /\ [][CockpitNext]_cockpit

------------------------------------------------------------------------------
(* Properties.                                                                *)

\* However late a frame drains, the vehicle drives with throttle only on one
\* sent after DRIVING had been read since the press: a press that lapsed, was
\* refused or was never read moves nothing (useBridgeTransport.ts outgoing, "a
\* pending request is not control").
ThrottleIsConfirmed == wd.state = "DRIVING" /\ ~acting.zero => acting.sure

\* Once the vehicle has read what was sent, it is not DRIVING for a cockpit that
\* has given up control, by leaving Drive, by hearing nothing for a window, by
\* losing the link or by signing out, and it stays so until the operator presses
\* ARM again; the heartbeats that keep feeding its watchdog change nothing
\* (useBridgeTransport.ts, relinquished).
GivenUpIsLetGo == relinquished /\ upward = <<>> /\ (socket = "open" \/ ~seat) => wd.state # "DRIVING"

=============================================================================
