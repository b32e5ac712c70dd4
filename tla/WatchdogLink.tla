---------------------------- MODULE WatchdogLink ----------------------------
(***************************************************************************)
(* The watchdog at the end of one operator's socket: the cockpit sends     *)
(* command frames and heartbeats, the wire carries them in order and       *)
(* sometimes stalls, the daemon's reader hands each one to the watchdog,   *)
(* the tick thread polls it, and the socket may close and be replaced by   *)
(* the next driver's.                                                      *)
(*                                                                         *)
(* Time is explicit: Elapse is one clock unit, and it waits for whatever   *)
(* is due within the unit (the tick thread's poll, a frame of a live       *)
(* link).  The wire's promises are the ones watchdog.py states: a live     *)
(* frame arrives within Latency, and what a stall queued drains in a burst *)
(* of at most Drain, shorter than the window.                              *)
(***************************************************************************)
EXTENDS Watchdog, Sequences

CONSTANTS Frames,    \* what the cockpit sends: [t, arm, estop, zero]
          MaxWire,   \* frames in the socket at once
          TickMax,   \* longest time between two polls of the tick thread
          Latency,   \* longest time a frame spends on a live wire
          Drain      \* longest time a backlog takes to drain

ASSUME FramesAssumption ==
    Frames \subseteq [t : {"cmd", "hb"}, arm : BOOLEAN, estop : BOOLEAN, zero : BOOLEAN]
ASSUME TimingAssumption ==
    /\ MaxWire \in Nat /\ TickMax \in Nat \ {0}
    /\ Latency \in Nat /\ Drain \in Nat
    /\ Latency <= Drain /\ Drain < Timeout
    /\ Timeout + TickMax < Horizon
    /\ Timeout + Drain + Latency < Horizon

VARIABLES
    wd,       \* the watchdog
    wire,     \* the driver's socket: frames with their age, oldest first
    outage,   \* the wire delivers nothing
    drain,    \* what is left of the burst that follows an outage
    polled,   \* age of the tick thread's last poll
    release   \* history: how the frame that last read as a release arrived

vars == <<wd, wire, outage, drain, polled, release>>

\* How a frame came: on a live wire, out of an outage that ended a gap longer
\* than the window, or out of one that held it longer than the window before
\* its session's first command frame.
Arrivals == {"live", "stalled", "opening"}

\* A frame in the socket.  via is history: the daemon never sees it.
Packets == [frame : Frames, age : 0 .. Horizon, via : Arrivals]

TypeOK ==
    /\ wd \in WatchdogStates
    /\ wire \in Seq(Packets) /\ Len(wire) <= MaxWire
    /\ outage \in BOOLEAN
    /\ drain \in 0 .. Drain
    /\ polled \in 0 .. TickMax
    /\ release \in Arrivals

Init ==
    /\ wd = NewWatchdog
    /\ wire = <<>>
    /\ outage = FALSE
    /\ drain = 0
    /\ polled = 0
    /\ release = "live"

------------------------------------------------------------------------------
(* The cockpit and the wire.                                                  *)

Send(f) ==
    /\ Len(wire) < MaxWire
    /\ wire' = Append(wire, [frame |-> f, age |-> 0, via |-> "live"])
    /\ UNCHANGED <<wd, outage, drain, polled, release>>

\* A live wire owes the frame that has used up its latency.
Due == wire # <<>> /\ Head(wire).age >= Latency

\* A stall begins once the last one's burst is over.
OutageBegins ==
    /\ ~outage /\ drain = 0 /\ ~Due
    /\ outage' = TRUE
    /\ UNCHANGED <<wd, wire, drain, polled, release>>

Held(p) ==
    CASE Stalls(wd) -> "stalled"
      [] wd.gap = NoFrame /\ p.age > Timeout -> "opening"
      [] OTHER -> p.via

\* The wire comes back with what it queued.
OutageEnds ==
    /\ outage
    /\ outage' = FALSE
    /\ drain' = IF wire = <<>> THEN 0 ELSE Drain
    /\ wire' = [i \in DOMAIN wire |-> [wire[i] EXCEPT !.via = Held(wire[i])]]
    /\ UNCHANGED <<wd, polled, release>>

------------------------------------------------------------------------------
(* The daemon.                                                                *)

\* The reader thread takes the next frame; ready is the self-test's verdict.
Deliver ==
    /\ ~outage /\ wire # <<>>
    /\ LET p == Head(wire)
       IN  \/ /\ p.frame.t = "hb"
              /\ wd' = Feed(wd)
              /\ UNCHANGED release
           \/ /\ p.frame.t = "cmd"
              /\ \E ready \in BOOLEAN : wd' = Taken(wd, p.frame, ready)
              /\ release' = IF wd'.prevArm THEN release ELSE p.via
    /\ wire' = Tail(wire)
    /\ drain' = IF Tail(wire) = <<>> THEN 0 ELSE drain
    /\ UNCHANGED <<outage, polled>>

\* The tick thread polls.
Poll ==
    /\ wd' = Check(wd)
    /\ polled' = 0
    /\ UNCHANGED <<wire, outage, drain, release>>

\* The driver's socket dies, and the next driver's takes its place.
Replace ==
    /\ wd' = LinkLost(wd)
    /\ wire' = <<>>
    /\ outage' = FALSE
    /\ drain' = 0
    /\ UNCHANGED <<polled, release>>

\* One clock unit, unless a poll or a delivery is due first.
Elapse ==
    /\ polled < TickMax
    /\ outage \/ drain > 0 \/ ~Due
    /\ wd' = Aged(wd)
    /\ wire' = [i \in DOMAIN wire |-> [wire[i] EXCEPT !.age = Older(@)]]
    /\ drain' = IF drain > 0 THEN drain - 1 ELSE 0
    /\ polled' = polled + 1
    /\ UNCHANGED <<outage, release>>

Next ==
    \/ \E f \in Frames : Send(f)
    \/ OutageBegins
    \/ OutageEnds
    \/ Deliver
    \/ Poll
    \/ Replace
    \/ Elapse

Spec == Init /\ [][Next]_vars

------------------------------------------------------------------------------
(* Properties.                                                                *)

Arms == wd.state # "DRIVING" /\ wd'.state = "DRIVING"

\* Silence stops the vehicle in bounded time: while the watchdog reads DRIVING
\* the last command frame or heartbeat is never older than the window plus one
\* tick period (daemon.py, "operator silence beyond the timeout").
SilenceIsBounded == wd.state = "DRIVING" => wd.fed <= Timeout + TickMax

\* What a stall queued never arms, neither as the release nor as the press, even
\* when the backlog holds a release then a press at zero throttle (watchdog.py,
\* "when they drain they must not re-arm a latch").
BacklogNeverArms ==
    [][Arms => Head(wire).via # "stalled" /\ release # "stalled"]_vars

\* The same of a stall that comes before a session's first command frame, where
\* the watchdog has no gap to measure.  The code does not have this one.
OpeningBacklogNeverArms ==
    [][Arms => Head(wire).via # "opening" /\ release # "opening"]_vars

\* Whatever arms was sent recently, a session's opening aside: a press older than
\* one window, one burst and one latency has lost its meaning when it arrives.
PressIsFresh ==
    [][Arms /\ Head(wire).via # "opening"
       => Head(wire).age <= Timeout + Drain + Latency]_vars

\* A latch is left only by arming, and arming takes a frame at zero throttle
\* outside the hold window: no clock, poll, heartbeat or change of driver ever
\* brings the vehicle back (watchdog.py, "Re-arming is never automatic").
LatchHolds ==
    [][wd.state = "LATCHED" /\ wd'.state # "LATCHED"
       => /\ Arms
          /\ ~outage /\ Head(wire).frame.t = "cmd"
          /\ Head(wire).frame.arm /\ ~Head(wire).frame.estop /\ Head(wire).frame.zero
          /\ wd.hold = 0 /\ wd.gap \in 0 .. Timeout]_vars

\* While the vehicle drives, the edge detector is not mid-drain and the gap it
\* will measure is known.
DrivingIsLive == wd.state = "DRIVING" => wd.hold = 0 /\ wd.gap # NoFrame

=============================================================================
