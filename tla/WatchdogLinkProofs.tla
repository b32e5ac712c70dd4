------------------------- MODULE WatchdogLinkProofs -------------------------
(***************************************************************************)
(* The watchdog's timing over one operator's socket, for any window, any   *)
(* wire and any tick period: when it stops, and what can start it again.   *)
(***************************************************************************)
EXTENDS WatchdogLink, WatchdogProofs

\* The tick thread has looked at the clock since the window closed.
Polled == wd.state = "DRIVING" => wd.fed <= Timeout + polled

IInv == TypeOK /\ LiveWatchdog(wd) /\ Polled

\* The instants a record or a frame of the wire carries stay in range as time
\* passes.
LEMMA OlderType == \A age \in 0 .. Horizon : Older(age) \in 0 .. Horizon /\ Older(age) <= age + 1
  BY HorizonAssumption DEF Older

\* Time makes the last feed at most one unit older, and changes no state.
LEMMA AgedFeed ==
  ASSUME NEW w \in WatchdogStates
  PROVE  Aged(w).state = w.state /\ Aged(w).fed <= w.fed + 1
<1>1. Aged(w).state = w.state /\ Aged(w).fed = Older(w.fed)
  BY DEF Aged, WatchdogStates
<1>2. w.fed \in 0 .. Horizon
  BY DEF WatchdogStates
<1> QED
  BY <1>1, <1>2, OlderType

LEMMA InitIInv == Init => IInv
<1> SUFFICES ASSUME Init PROVE IInv
  OBVIOUS
<1>1. wd \in WatchdogStates /\ LiveWatchdog(wd) /\ wd.state = "STOPPED"
  BY NewWatchdogType DEF Init, NewWatchdog
<1>2. wire \in Seq(Packets) /\ Len(wire) <= MaxWire
  BY TimingAssumption DEF Init
<1>3. drain \in 0 .. Drain /\ polled \in 0 .. TickMax /\ release \in Arrivals
  BY TimingAssumption DEF Init, Arrivals
<1>4. outage \in BOOLEAN
  BY DEF Init
<1> QED
  BY <1>1, <1>2, <1>3, <1>4 DEF IInv, TypeOK, Polled

\* A step that leaves the wire's contents alone keeps it a wire.
LEMMA NextIInv == IInv /\ [Next]_vars => IInv'
<1> SUFFICES ASSUME IInv, [Next]_vars PROVE IInv'
  OBVIOUS
<1>0. /\ wd \in WatchdogStates /\ LiveWatchdog(wd) /\ wire \in Seq(Packets)
      /\ Len(wire) <= MaxWire /\ polled \in 0 .. TickMax /\ drain \in 0 .. Drain
      /\ outage \in BOOLEAN /\ release \in Arrivals
      /\ TickMax \in Nat \ {0} /\ MaxWire \in Nat /\ Drain \in Nat
      /\ Timeout \in Nat /\ Horizon \in Nat /\ Timeout + TickMax < Horizon
      /\ wd.fed \in 0 .. Horizon
  BY TimingAssumption, TimeoutAssumption, HorizonAssumption DEF IInv, TypeOK, WatchdogStates
<1>1. CASE UNCHANGED vars
  BY <1>1 DEF vars, IInv, TypeOK, Polled
<1>2. ASSUME NEW f \in Frames, Send(f)
      PROVE  IInv'
  <2>1. [frame |-> f, age |-> 0, via |-> "live"] \in Packets
    BY <1>0 DEF Packets, Arrivals
  <2>2. wire' \in Seq(Packets) /\ Len(wire') <= MaxWire
    BY <1>0, <1>2, <2>1 DEF Send
  <2> QED
    BY <1>0, <1>2, <2>2 DEF Send, IInv, TypeOK, Polled
<1>3. CASE OutageBegins
  BY <1>0, <1>3 DEF OutageBegins, IInv, TypeOK, Polled
<1>4. CASE OutageEnds
  <2>1. \A p \in Packets : [p EXCEPT !.via = Held(p)] \in Packets
    BY DEF Packets, Held, Arrivals
  <2>2. wire' = [i \in 1 .. Len(wire) |-> [wire[i] EXCEPT !.via = Held(wire[i])]]
    BY <1>0, <1>4 DEF OutageEnds
  <2>3. \A i \in 1 .. Len(wire) : [wire[i] EXCEPT !.via = Held(wire[i])] \in Packets
    BY <1>0, <2>1
  <2>4. wire' \in Seq(Packets) /\ Len(wire') = Len(wire)
    BY <1>0, <2>2, <2>3
  <2>5. outage' \in BOOLEAN /\ UNCHANGED <<wd, polled, release>>
    BY <1>4 DEF OutageEnds
  <2>6. drain' \in 0 .. Drain
    BY <1>0, <1>4 DEF OutageEnds
  <2> QED
    BY <1>0, <2>4, <2>5, <2>6 DEF IInv, TypeOK, Polled
<1>5. CASE Deliver
  <2>1. /\ Head(wire) \in Packets /\ Tail(wire) \in Seq(Packets)
        /\ Len(Tail(wire)) <= MaxWire
    BY <1>0, <1>5 DEF Deliver
  <2> DEFINE p == Head(wire)
  <2>2. p.frame \in Frames /\ p.via \in Arrivals
    BY <2>1 DEF Packets
  <2>3. p.frame.arm \in BOOLEAN /\ p.frame.estop \in BOOLEAN /\ p.frame.zero \in BOOLEAN
    <3>1. \A f \in Frames : f.arm \in BOOLEAN /\ f.estop \in BOOLEAN /\ f.zero \in BOOLEAN
      BY FramesAssumption, Zenon
    <3> QED
      BY <2>2, <3>1
  <2> HIDE DEF p
  <2>4. wd' \in WatchdogStates /\ LiveWatchdog(wd') /\ wd'.fed = 0 /\ release' \in Arrivals
    <3>1. CASE p.frame.t = "hb" /\ wd' = Feed(wd) /\ UNCHANGED release
      BY <1>0, <3>1, QuietMethods DEF Feed, WatchdogStates
    <3>2. ASSUME NEW ready \in BOOLEAN, wd' = Taken(wd, p.frame, ready)
          PROVE  wd' \in WatchdogStates /\ LiveWatchdog(wd') /\ wd'.fed = 0
      BY <1>0, <2>3, <3>2, TakenLives
    <3>3. CASE /\ \E ready \in BOOLEAN : wd' = Taken(wd, p.frame, ready)
               /\ release' = IF wd'.prevArm THEN release ELSE p.via
      BY <1>0, <2>2, <3>2, <3>3
    <3> QED
      BY <1>5, <3>1, <3>3 DEF Deliver, p
  <2>5. /\ wire' = Tail(wire) /\ UNCHANGED <<outage, polled>>
        /\ drain' \in 0 .. Drain
    BY <1>0, <1>5 DEF Deliver
  <2>6. wd'.fed <= Timeout + polled'
    BY <1>0, <2>4, <2>5
  <2> QED
    BY <1>0, <2>1, <2>4, <2>5, <2>6 DEF IInv, TypeOK, Polled
<1>6. CASE Poll
  <2>1. Check(wd) \in WatchdogStates /\ LiveWatchdog(Check(wd))
    BY <1>0, QuietMethods
  <2>2. Check(wd).state = "DRIVING" => Check(wd).fed <= Timeout
    BY <1>0 DEF Check, Trips, Latch, WatchdogStates
  <2> QED
    BY <1>0, <1>6, <2>1, <2>2 DEF Poll, IInv, TypeOK, Polled
<1>7. CASE Replace
  <2>1. LinkLost(wd) \in WatchdogStates /\ LiveWatchdog(LinkLost(wd))
    BY <1>0, QuietMethods
  <2>2. LinkLost(wd).state # "DRIVING"
    BY <1>0 DEF LinkLost, Latch, WatchdogStates
  <2>3. wire' \in Seq(Packets) /\ Len(wire') <= MaxWire
    BY <1>0, <1>7 DEF Replace
  <2>4. outage' \in BOOLEAN /\ wd' = LinkLost(wd) /\ UNCHANGED <<polled, release>>
    BY <1>7 DEF Replace
  <2>5. drain' \in 0 .. Drain
    BY <1>0, <1>7 DEF Replace
  <2> QED
    BY <1>0, <2>1, <2>2, <2>3, <2>4, <2>5 DEF IInv, TypeOK, Polled
<1>8. CASE Elapse
  <2>1. Aged(wd) \in WatchdogStates /\ LiveWatchdog(Aged(wd))
    BY <1>0, QuietMethods
  <2>2. \A q \in Packets : [q EXCEPT !.age = Older(@)] \in Packets
    BY OlderType DEF Packets
  <2>3. wire' = [i \in 1 .. Len(wire) |-> [wire[i] EXCEPT !.age = Older(@)]]
    BY <1>0, <1>8 DEF Elapse
  <2>4. \A i \in 1 .. Len(wire) : [wire[i] EXCEPT !.age = Older(@)] \in Packets
    BY <1>0, <2>2
  <2>5. wire' \in Seq(Packets) /\ Len(wire') = Len(wire)
    BY <1>0, <2>3, <2>4
  <2>6. /\ wd' = Aged(wd) /\ polled' = polled + 1 /\ polled' \in 0 .. TickMax
        /\ drain' \in 0 .. Drain /\ UNCHANGED <<outage, release>>
    BY <1>0, <1>8 DEF Elapse
  <2>7. Aged(wd).state = wd.state /\ Aged(wd).fed <= wd.fed + 1 /\ Aged(wd).fed \in 0 .. Horizon
    BY <1>0, <2>1, AgedFeed DEF WatchdogStates
  <2>8. Polled'
    BY <1>0, <2>6, <2>7 DEF Polled, IInv
  <2> QED
    BY <1>0, <2>1, <2>5, <2>6, <2>8 DEF IInv, TypeOK
<1> QED
  BY <1>1, <1>2, <1>3, <1>4, <1>5, <1>6, <1>7, <1>8 DEF Next

THEOREM SpecIInv == Spec => []IInv
  BY InitIInv, NextIInv, PTL DEF Spec

\* Every record, frame and timer stays in its set.
THEOREM SpecTypeOK == Spec => []TypeOK
<1>1. IInv => TypeOK
  BY DEF IInv
<1> QED
  BY <1>1, SpecIInv, PTL

\* Silence latches within the window and one tick period.
THEOREM SpecSilenceIsBounded == Spec => []SilenceIsBounded
<1>1. IInv => SilenceIsBounded
  BY TimingAssumption, TimeoutAssumption
     DEF IInv, TypeOK, Polled, SilenceIsBounded, WatchdogStates
<1> QED
  BY <1>1, SpecIInv, PTL

\* While driving, the edge detector is not mid-drain and the next gap is known.
THEOREM SpecDrivingIsLive == Spec => []DrivingIsLive
<1>1. IInv => DrivingIsLive
  BY DEF IInv, LiveWatchdog, DrivingIsLive
<1> QED
  BY <1>1, SpecIInv, PTL

------------------------------------------------------------------------------
(* A latch is left by arming only.                                            *)

\* Until a session's first command frame the edge detector reads "as if held".
FirstFrameHeld == wd.gap = NoFrame => wd.prevArm

LeftByArming ==
    wd.state = "LATCHED" /\ wd'.state # "LATCHED"
    => /\ Arms
       /\ ~outage /\ Head(wire).frame.t = "cmd"
       /\ Head(wire).frame.arm /\ ~Head(wire).frame.estop /\ Head(wire).frame.zero
       /\ wd.hold = 0 /\ wd.gap \in 0 .. Timeout

\* The methods a frame does not go through keep a latch, and forget the gap only
\* together with the release.
LEMMA QuietKeepsLatch ==
  ASSUME NEW w \in WatchdogStates, w.gap = NoFrame => w.prevArm
  PROVE  \A v \in {w, Feed(w), Check(w), LinkLost(w), Aged(w)} :
            /\ v.gap = NoFrame => v.prevArm
            /\ w.state = "LATCHED" => v.state = "LATCHED"
<1>1. /\ Feed(w).gap = w.gap /\ Feed(w).prevArm = w.prevArm /\ Feed(w).state = w.state
  BY DEF Feed, WatchdogStates
<1>2. /\ Check(w).gap = w.gap /\ (w.prevArm => Check(w).prevArm)
      /\ w.state = "LATCHED" => Check(w).state = "LATCHED"
  <2>1. CASE Trips(w)
    BY <2>1 DEF Check, Latch, WatchdogStates
  <2>2. CASE ~Trips(w)
    BY <2>2 DEF Check
  <2> QED
    BY <2>1, <2>2
<1>3. LinkLost(w).prevArm /\ (w.state = "LATCHED" => LinkLost(w).state = "LATCHED")
  BY DEF LinkLost, Latch, WatchdogStates
<1>4. /\ Aged(w).prevArm = w.prevArm /\ Aged(w).state = w.state
      /\ Aged(w).gap = IF w.gap = NoFrame THEN NoFrame ELSE Older(w.gap)
  BY DEF Aged, WatchdogStates
<1>5. w.gap # NoFrame => Older(w.gap) # NoFrame
  BY HorizonAssumption DEF Older, WatchdogStates, NoFrame
<1> QED
  BY <1>1, <1>2, <1>3, <1>4, <1>5

LEMMA NextLatchHolds == IInv /\ FirstFrameHeld /\ [Next]_vars => FirstFrameHeld' /\ LeftByArming
<1> SUFFICES ASSUME IInv, FirstFrameHeld, [Next]_vars PROVE FirstFrameHeld' /\ LeftByArming
  OBVIOUS
<1>0. wd \in WatchdogStates /\ wire \in Seq(Packets)
  BY DEF IInv, TypeOK
<1>1. \A v \in {wd, Feed(wd), Check(wd), LinkLost(wd), Aged(wd)} :
         wd' = v => FirstFrameHeld' /\ LeftByArming
  BY <1>0, QuietKeepsLatch DEF FirstFrameHeld, LeftByArming
<1>2. CASE UNCHANGED vars
  BY <1>1, <1>2 DEF vars
<1>3. CASE (\E f \in Frames : Send(f)) \/ OutageBegins \/ OutageEnds
  BY <1>1, <1>3 DEF Send, OutageBegins, OutageEnds
<1>4. CASE Poll \/ Replace \/ Elapse
  BY <1>1, <1>4 DEF Poll, Replace, Elapse
<1>5. CASE Deliver
  <2> DEFINE f == Head(wire).frame
  <2>1. ~outage /\ f \in Frames
    <3>1. ~outage /\ wire # <<>>
      BY <1>5 DEF Deliver
    <3>2. Head(wire) \in Packets
      BY <1>0, <3>1
    <3> QED
      BY <3>1, <3>2 DEF Packets
  <2>2. f.arm \in BOOLEAN /\ f.estop \in BOOLEAN /\ f.zero \in BOOLEAN
    <3>1. \A g \in Frames : g.arm \in BOOLEAN /\ g.estop \in BOOLEAN /\ g.zero \in BOOLEAN
      BY FramesAssumption, Zenon
    <3> QED
      BY <2>1, <3>1
  <2> HIDE DEF f
  <2>3. wd' = Feed(wd) \/ (f.t = "cmd" /\ \E ready \in BOOLEAN : wd' = Taken(wd, f, ready))
    BY <1>5 DEF Deliver, f
  <2>4. ASSUME f.t = "cmd", NEW ready \in BOOLEAN, wd' = Taken(wd, f, ready)
        PROVE  FirstFrameHeld' /\ LeftByArming
    <3> DEFINE j == Judged(wd)
    <3>1. /\ wd'.gap = 0
          /\ wd'.state = IF f.estop THEN "LATCHED"
                         ELSE IF Pressed(j, f.arm) /\ ready /\ f.zero THEN "DRIVING"
                         ELSE IF j.state = "DRIVING" /\ ~(f.arm /\ ready) THEN "STOPPED"
                         ELSE j.state
      BY <1>0, <2>2, <2>4, TakenRecord
    <3>2. /\ wd.state = "LATCHED" => j.state = "LATCHED" /\ j.prevArm = wd.prevArm
          /\ j.hold = (IF Stalls(wd) THEN Timeout ELSE wd.hold)
      <4>1. wd.prevArm \in BOOLEAN
        BY <1>0 DEF WatchdogStates
      <4> QED
        BY <1>0, <4>1, JudgedRecord
    <3> HIDE DEF j
    <3>3. FirstFrameHeld'
      BY <3>1 DEF FirstFrameHeld, NoFrame
    <3>4. ASSUME wd.state = "LATCHED", wd'.state # "LATCHED"
          PROVE  /\ wd'.state = "DRIVING" /\ f.arm /\ ~f.estop /\ f.zero
                 /\ wd.hold = 0 /\ wd.gap \in 0 .. Timeout
      <4>1. wd'.state = "DRIVING" /\ ~f.estop /\ f.zero /\ Pressed(j, f.arm)
        BY <3>1, <3>2, <3>4
      <4>2. f.arm /\ ~wd.prevArm /\ j.hold = 0
        BY <3>2, <3>4, <4>1 DEF Pressed
      <4>3. ~Stalls(wd) /\ wd.hold = 0
        BY <3>2, <4>2, TimeoutAssumption
      <4>4. wd.gap # NoFrame
        BY <4>2 DEF FirstFrameHeld
      <4>5. wd.gap \in 0 .. Timeout
        BY <1>0, <4>3, <4>4, TimeoutAssumption, HorizonAssumption
           DEF Stalls, WatchdogStates, NoFrame
      <4> QED
        BY <4>1, <4>2, <4>3, <4>5
    <3> QED
      BY <2>1, <2>4, <3>3, <3>4 DEF LeftByArming, Arms, f
  <2> QED
    BY <1>1, <2>3, <2>4
<1> QED
  BY <1>2, <1>3, <1>4, <1>5 DEF Next

\* No clock, poll, heartbeat or change of driver brings a latched vehicle back:
\* only a press at zero throttle, outside the hold window, on a live session.
THEOREM SpecLatchHolds == Spec => LatchHolds
<1>1. Init => FirstFrameHeld
  BY DEF Init, FirstFrameHeld, NewWatchdog
<1>2. IInv /\ FirstFrameHeld /\ [Next]_vars => FirstFrameHeld' /\ [LeftByArming]_vars
  BY NextLatchHolds
<1>3. [LeftByArming]_vars
      => [wd.state = "LATCHED" /\ wd'.state # "LATCHED"
          => /\ Arms
             /\ ~outage /\ Head(wire).frame.t = "cmd"
             /\ Head(wire).frame.arm /\ ~Head(wire).frame.estop /\ Head(wire).frame.zero
             /\ wd.hold = 0 /\ wd.gap \in 0 .. Timeout]_vars
  BY DEF LeftByArming
<1> QED
  BY <1>1, <1>2, <1>3, SpecIInv, PTL DEF Spec, LatchHolds

------------------------------------------------------------------------------
(* What a frame of the wire may be when it arrives.                           *)

\* Of a packet, by how it came.  What an outage held is gone before the next one,
\* and what a stall held finds the gap unjudged or the hold window open for as
\* long as the burst can last.  A live one is no older than the silence an outage
\* may hide from the watchdog, and the burst.
Bounded(p) ==
    /\ p.via # "live" => ~outage /\ Drain <= p.age + drain
    /\ p.via = "stalled" => wd.gap > Timeout \/ wd.hold > drain
    /\ p.via = "live" /\ outage /\ wd.gap # NoFrame => p.age <= wd.gap + Latency
    /\ p.via = "live" /\ ~outage => p.age + drain <= Timeout + Drain + Latency

WireInv ==
    /\ \A i, j \in DOMAIN wire : i < j => wire[j].age <= wire[i].age
    /\ \A i \in DOMAIN wire : Bounded(wire[i])
    /\ release # "stalled"

\* What the proofs use of the constants and of the types.
LEMMA WireTypes ==
  ASSUME IInv
  PROVE  /\ Timeout \in Nat \ {0} /\ Horizon \in Nat /\ Latency \in Nat /\ Drain \in Nat
         /\ Latency <= Drain /\ Drain < Timeout /\ Timeout + Drain + Latency < Horizon
         /\ wd \in WatchdogStates /\ wire \in Seq(Packets) /\ drain \in 0 .. Drain
         /\ outage \in BOOLEAN /\ release \in Arrivals
         /\ wd.hold \in 0 .. Timeout /\ (wd.gap = NoFrame \/ wd.gap \in 0 .. Horizon)
         /\ DOMAIN wire = 1 .. Len(wire) /\ Len(wire) \in Nat
         /\ \A i \in DOMAIN wire : wire[i].age \in 0 .. Horizon /\ wire[i].via \in Arrivals
<1>1. wd \in WatchdogStates /\ wire \in Seq(Packets)
  BY DEF IInv, TypeOK
<1>2. wd.hold \in 0 .. Timeout /\ (wd.gap = NoFrame \/ wd.gap \in 0 .. Horizon)
  BY <1>1, HorizonAssumption DEF WatchdogStates, NoFrame
<1>3. \A i \in DOMAIN wire : wire[i] \in Packets
  BY <1>1
<1>4. \A i \in DOMAIN wire : wire[i].age \in 0 .. Horizon /\ wire[i].via \in Arrivals
  BY <1>3 DEF Packets
<1> QED
  BY <1>1, <1>2, <1>4, TimingAssumption, TimeoutAssumption, HorizonAssumption DEF IInv, TypeOK

\* Nothing of what an outage held is left when no frame is due any more.
LEMMA AllLive ==
  ASSUME IInv, WireInv, drain = 0, ~Due, NEW i \in DOMAIN wire
  PROVE  wire[i].via = "live" /\ wire[i].age < Latency
<1>1. wire # <<>> /\ 1 \in DOMAIN wire /\ Head(wire) = wire[1]
  BY WireTypes
<1>2. wire[i].age <= wire[1].age
  BY <1>1, WireTypes, SMTT(30) DEF WireInv
<1>3. wire[1].age < Latency
  BY <1>1, WireTypes DEF Due
<1>4. wire[i].age < Latency
  BY <1>1, <1>2, <1>3, WireTypes
<1>5. Bounded(wire[i])
  BY DEF WireInv
<1> QED
  BY <1>4, <1>5, WireTypes DEF Bounded

LEMMA WireStart == Init => WireInv
  BY DEF Init, WireInv

\* Methods that leave the gap and the hold window alone leave the wire bounded.
LEMMA WireSame ==
  ASSUME WireInv, UNCHANGED <<wire, outage, drain, release>>,
         wd'.gap = wd.gap, wd'.hold = wd.hold
  PROVE  WireInv'
  BY DEF WireInv, Bounded

LEMMA WireSend ==
  ASSUME IInv, WireInv, NEW f \in Frames, Send(f)
  PROVE  WireInv'
<1> DEFINE p == [frame |-> f, age |-> 0, via |-> "live"]
<1>1. wire' = Append(wire, p) /\ UNCHANGED <<wd, outage, drain, release>>
  BY DEF Send
<1>2. p \in Packets /\ p.age = 0 /\ p.via = "live"
  BY HorizonAssumption DEF Packets, Arrivals
<1>3. Bounded(p)
  BY <1>2, WireTypes DEF Bounded
<1> HIDE DEF p
<1>4. /\ DOMAIN wire' = 1 .. (Len(wire) + 1) /\ wire'[Len(wire) + 1] = p
      /\ \A i \in 1 .. Len(wire) : wire'[i] = wire[i]
  BY <1>1, <1>2, WireTypes
<1>5. \A i \in DOMAIN wire' : Bounded(wire'[i])
  BY <1>3, <1>4, WireTypes DEF WireInv
<1>6. ASSUME NEW i \in DOMAIN wire', NEW j \in DOMAIN wire', i < j
      PROVE  wire'[j].age <= wire'[i].age
  <2>1. i \in 1 .. Len(wire) /\ wire'[i] = wire[i] /\ wire[i].age \in 0 .. Horizon
    BY <1>4, <1>6, WireTypes
  <2>2. CASE j = Len(wire) + 1
    BY <1>2, <1>4, <2>1, <2>2, WireTypes
  <2>3. CASE j \in 1 .. Len(wire)
    BY <1>4, <1>6, <2>1, <2>3, WireTypes DEF WireInv
  <2> QED
    BY <1>4, <2>2, <2>3, WireTypes
<1>7. \A i \in DOMAIN wire' : Bounded(wire[i])'
  BY <1>1, <1>5 DEF Bounded
<1> QED
  BY <1>1, <1>6, <1>7 DEF WireInv

LEMMA WireOutage ==
  ASSUME IInv, WireInv, OutageBegins
  PROVE  WireInv'
<1>1. drain = 0 /\ ~Due /\ outage' = TRUE /\ UNCHANGED <<wd, wire, drain, release>>
  BY DEF OutageBegins
<1>2. ASSUME NEW i \in DOMAIN wire PROVE Bounded(wire[i])'
  <2>1. wire[i].via = "live" /\ wire[i].age < Latency
    BY <1>1, <1>2, AllLive
  <2>2. wd.gap # NoFrame => wire[i].age <= wd.gap + Latency
    BY <1>2, <2>1, WireTypes
  <2> QED
    BY <1>1, <2>1, <2>2 DEF Bounded
<1> QED
  BY <1>1, <1>2 DEF WireInv

LEMMA WireBack ==
  ASSUME IInv, WireInv, OutageEnds
  PROVE  WireInv'
<1>1. /\ outage /\ outage' = FALSE /\ UNCHANGED <<wd, release>>
      /\ wire # <<>> => drain' = Drain
      /\ wire' = [i \in DOMAIN wire |-> [wire[i] EXCEPT !.via = Held(wire[i])]]
  BY DEF OutageEnds
<1>2. ASSUME NEW i \in DOMAIN wire
      PROVE  wire'[i].age = wire[i].age /\ wire'[i].via = Held(wire[i]) /\ wire[i].via = "live"
  <2>1. wire[i] \in Packets
    BY <1>2, WireTypes
  <2>2. wire'[i] = [wire[i] EXCEPT !.via = Held(wire[i])]
    BY <1>1, <1>2
  <2>3. wire[i].via = "live"
    BY <1>1, <1>2 DEF WireInv, Bounded
  <2> QED
    BY <2>1, <2>2, <2>3 DEF Packets
<1>3. DOMAIN wire' = DOMAIN wire
  BY <1>1
<1>4. ASSUME NEW i \in DOMAIN wire PROVE Bounded(wire[i])'
  <2>1. wire # <<>> /\ drain' = Drain
    BY <1>1, <1>4, WireTypes
  <2>2. wire[i].age \in 0 .. Horizon
    BY <1>4, WireTypes
  <2>3. CASE Stalls(wd)
    <3>1. wire'[i].via = "stalled" /\ wd.gap > Timeout
      BY <1>2, <1>4, <2>3, WireTypes DEF Held, Stalls, NoFrame
    <3> QED
      BY <1>1, <1>2, <1>4, <2>1, <2>2, <3>1, WireTypes DEF Bounded
  <2>4. CASE ~Stalls(wd) /\ wd.gap = NoFrame /\ wire[i].age > Timeout
    <3>1. wire'[i].via = "opening"
      BY <1>2, <1>4, <2>4 DEF Held
    <3> QED
      BY <1>1, <1>2, <1>4, <2>1, <2>2, <3>1, WireTypes, SMTT(30) DEF Bounded
  <2>5. CASE ~Stalls(wd) /\ ~(wd.gap = NoFrame /\ wire[i].age > Timeout)
    <3>1. wire'[i].via = "live"
      BY <1>2, <1>4, <2>5 DEF Held
    <3>2. wire[i].age <= Timeout + Latency
      <4>1. CASE wd.gap = NoFrame
        BY <2>2, <2>5, <4>1, WireTypes
      <4>2. CASE wd.gap # NoFrame
        <5>1. wire[i].age <= wd.gap + Latency
          BY <1>1, <1>2, <1>4, <4>2 DEF WireInv, Bounded
        <5>2. wd.gap \in 0 .. Horizon /\ ~(wd.gap > Timeout)
          BY <2>5, <4>2, WireTypes DEF Stalls
        <5> QED
          BY <2>2, <5>1, <5>2, WireTypes
      <4> QED
        BY <4>1, <4>2
    <3> QED
      BY <1>1, <1>2, <1>4, <2>1, <2>2, <3>1, <3>2, WireTypes DEF Bounded
  <2> QED
    BY <2>3, <2>4, <2>5
<1>5. \A i, j \in DOMAIN wire' : i < j => wire'[j].age <= wire'[i].age
  BY <1>2, <1>3 DEF WireInv
<1> QED
  BY <1>1, <1>3, <1>4, <1>5 DEF WireInv

\* The rest of the wire moves up.
LEMMA WireTail ==
  ASSUME IInv, WireInv, ~outage, outage' = outage, wire # <<>>, wire' = Tail(wire),
         drain' = (IF Tail(wire) = <<>> THEN 0 ELSE drain), release' # "stalled",
         \/ wd'.gap = wd.gap /\ wd'.hold = wd.hold
         \/ wd'.hold = (IF wd.gap > Timeout THEN Timeout ELSE wd.hold)
  PROVE  WireInv'
<1>1. /\ Tail(wire) \in Seq(Packets) /\ Len(Tail(wire)) = Len(wire) - 1
      /\ \A i \in 1 .. (Len(wire) - 1) : i + 1 \in DOMAIN wire /\ Tail(wire)[i] = wire[i + 1]
  BY WireTypes
<1>2. DOMAIN wire' = 1 .. (Len(wire) - 1)
  BY <1>1
<1>3. ASSUME NEW i \in DOMAIN wire', NEW j \in DOMAIN wire', i < j
      PROVE  wire'[j].age <= wire'[i].age
  <2>1. /\ wire'[i] = wire[i + 1] /\ wire'[j] = wire[j + 1] /\ i + 1 < j + 1
        /\ i + 1 \in DOMAIN wire /\ j + 1 \in DOMAIN wire
    <3>1. i \in 1 .. (Len(wire) - 1) /\ j \in 1 .. (Len(wire) - 1) /\ i + 1 < j + 1
      BY <1>2, <1>3, WireTypes
    <3> QED
      BY <1>1, <3>1
  <2> QED
    BY <2>1 DEF WireInv
<1>4. ASSUME NEW i \in DOMAIN wire' PROVE Bounded(wire[i])'
  <2>1. wire'[i] = wire[i + 1] /\ i + 1 \in DOMAIN wire
    BY <1>1, <1>2, <1>4
  <2>2. drain' = drain
    BY <1>1, <1>2, <1>4, WireTypes
  <2>3. Bounded(wire[i + 1])
    BY <2>1 DEF WireInv
  <2>4. wire[i + 1].via = "stalled" => wd'.gap > Timeout \/ wd'.hold > drain
    BY <2>3, WireTypes, SMTT(30) DEF Bounded
  <2> QED
    BY <2>1, <2>2, <2>3, <2>4 DEF Bounded
<1> QED
  BY <1>3, <1>4 DEF WireInv

LEMMA WireElapse ==
  ASSUME IInv, WireInv, Elapse
  PROVE  WireInv'
<1>1. /\ wd' = Aged(wd) /\ UNCHANGED <<outage, release>>
      /\ outage \/ drain > 0 \/ ~Due
      /\ drain' = IF drain > 0 THEN drain - 1 ELSE 0
      /\ wire' = [i \in DOMAIN wire |-> [wire[i] EXCEPT !.age = Older(@)]]
  BY DEF Elapse
<1>2. /\ wd'.gap = IF wd.gap = NoFrame THEN NoFrame ELSE Older(wd.gap)
      /\ wd'.hold = IF wd.hold > 0 THEN wd.hold - 1 ELSE 0
  BY <1>1, WireTypes DEF Aged, WatchdogStates
<1>3. ASSUME NEW i \in DOMAIN wire
      PROVE  wire'[i].age = Older(wire[i].age) /\ wire'[i].via = wire[i].via
  <2>1. wire[i] \in Packets
    BY <1>3, WireTypes
  <2>2. wire'[i] = [wire[i] EXCEPT !.age = Older(wire[i].age)]
    BY <1>1, <1>3
  <2> QED
    BY <2>1, <2>2 DEF Packets
<1>4. DOMAIN wire' = DOMAIN wire
  BY <1>1
<1>5. \A a, b \in 0 .. Horizon : a <= b => Older(a) <= Older(b)
  BY HorizonAssumption DEF Older
<1>6. \A i, j \in DOMAIN wire' : i < j => wire'[j].age <= wire'[i].age
  BY <1>3, <1>4, <1>5, WireTypes DEF WireInv
<1>7. ASSUME NEW i \in DOMAIN wire PROVE Bounded(wire[i])'
  <2>1. Bounded(wire[i]) /\ wire[i].age \in 0 .. Horizon
    BY <1>7, WireTypes DEF WireInv
  <2>2. CASE ~outage /\ drain = 0
    <3>1. wire[i].via = "live" /\ wire[i].age < Latency
      BY <1>1, <1>7, <2>2, AllLive
    <3> QED
      BY <1>1, <1>3, <1>7, <2>1, <2>2, <3>1, WireTypes DEF Bounded, Older
  <2>3. CASE ~outage /\ drain > 0
    <3>1. wire[i].via # "live" => Drain <= Older(wire[i].age) + (drain - 1)
      BY <2>1, <2>3, WireTypes DEF Bounded, Older
    <3>2. wire[i].via = "stalled" => wd'.gap > Timeout \/ wd'.hold > drain - 1
      BY <1>2, <2>1, <2>3, WireTypes, SMTT(30) DEF Bounded, Older, NoFrame
    <3>3. wire[i].via = "live" => Older(wire[i].age) + (drain - 1) <= Timeout + Drain + Latency
      BY <2>1, <2>3, WireTypes DEF Bounded, Older
    <3> QED
      BY <1>1, <1>3, <1>7, <2>3, <3>1, <3>2, <3>3 DEF Bounded
  <2>4. CASE outage
    <3>1. wire[i].via = "live" /\ (wd.gap # NoFrame => wire[i].age <= wd.gap + Latency)
      BY <2>1, <2>4 DEF Bounded
    <3>2. wd'.gap # NoFrame => Older(wire[i].age) <= wd'.gap + Latency
      <4>1. CASE wd.gap = NoFrame
        BY <1>2, <4>1
      <4>2. CASE wd.gap \in 0 .. Horizon /\ wd.gap # NoFrame
        <5>1. wire[i].age <= wd.gap + Latency /\ wd'.gap = Older(wd.gap)
          BY <1>2, <3>1, <4>2
        <5>2. \A a, g \in 0 .. Horizon : a <= g + Latency => Older(a) <= Older(g) + Latency
          BY HorizonAssumption, TimingAssumption DEF Older
        <5> QED
          BY <2>1, <4>2, <5>1, <5>2
      <4> QED
        BY <4>1, <4>2, WireTypes
    <3> QED
      BY <1>1, <1>3, <1>7, <2>4, <3>1, <3>2 DEF Bounded
  <2> QED
    BY <2>2, <2>3, <2>4, WireTypes
<1> QED
  BY <1>1, <1>4, <1>6, <1>7 DEF WireInv

\* A frame at the head of the wire.
LEMMA FirstFrame ==
  ASSUME IInv, wire # <<>>
  PROVE  /\ Head(wire) = wire[1] /\ 1 \in DOMAIN wire /\ Head(wire) \in Packets
         /\ Head(wire).frame \in Frames
         /\ Head(wire).frame.arm \in BOOLEAN /\ Head(wire).frame.estop \in BOOLEAN
         /\ Head(wire).frame.zero \in BOOLEAN
<1>1. Head(wire) = wire[1] /\ 1 \in DOMAIN wire /\ Head(wire) \in Packets
  BY WireTypes
<1>2. Head(wire).frame \in Frames
  BY <1>1 DEF Packets
<1>3. \A f \in Frames : f.arm \in BOOLEAN /\ f.estop \in BOOLEAN /\ f.zero \in BOOLEAN
  BY FramesAssumption, Zenon
<1> QED
  BY <1>1, <1>2, <1>3

\* A frame's outcome for the gap, the hold window and the release.
LEMMA WireDeliver ==
  ASSUME IInv, WireInv, Deliver
  PROVE  WireInv'
<1>1. /\ ~outage /\ wire # <<>> /\ wire' = Tail(wire) /\ outage' = outage
      /\ drain' = IF Tail(wire) = <<>> THEN 0 ELSE drain
  BY DEF Deliver
<1> DEFINE p == Head(wire)
<1>2. CASE p.frame.t = "hb" /\ wd' = Feed(wd) /\ UNCHANGED release
  <2>1. wd'.gap = wd.gap /\ wd'.hold = wd.hold
    BY <1>2, WireTypes DEF Feed, WatchdogStates
  <2>2. release' # "stalled"
    BY <1>2 DEF WireInv
  <2> QED
    BY <1>1, <2>1, <2>2, WireTail
<1>3. ASSUME NEW ready \in BOOLEAN, wd' = Taken(wd, p.frame, ready),
             release' = IF wd'.prevArm THEN release ELSE p.via
      PROVE  WireInv'
  <2>1. /\ wd'.hold = Judged(wd).hold
        /\ wd'.prevArm = (p.frame.estop \/ p.frame.arm \/ Judged(wd).hold > 0)
    BY <1>1, <1>3, FirstFrame, TakenRecord, WireTypes
  <2>2. Judged(wd).hold = (IF wd.gap > Timeout THEN Timeout ELSE wd.hold)
    BY JudgedRecord, WireTypes DEF Stalls
  <2>3. p.via = "stalled" => wd.gap > Timeout \/ wd.hold > drain
    BY <1>1, FirstFrame DEF WireInv, Bounded
  <2>4. p.via = "stalled" => wd'.prevArm
    <3>1. p.via = "stalled" => Judged(wd).hold > 0
      BY <2>2, <2>3, WireTypes
    <3> QED
      BY <2>1, <3>1, Zenon
  <2>5. release' # "stalled"
    BY <1>3, <2>4 DEF WireInv
  <2> QED
    BY <1>1, <2>1, <2>2, <2>5, WireTail
<1> QED
  BY <1>2, <1>3 DEF Deliver

LEMMA WireNext == IInv /\ WireInv /\ [Next]_vars => WireInv'
<1> SUFFICES ASSUME IInv, WireInv, [Next]_vars PROVE WireInv'
  OBVIOUS
<1>1. CASE UNCHANGED vars
  BY <1>1, WireSame DEF vars
<1>2. CASE Poll
  <2>1. Check(wd).gap = wd.gap /\ Check(wd).hold = wd.hold
    BY WireTypes DEF Check, Latch, WatchdogStates
  <2> QED
    BY <1>2, <2>1, WireSame DEF Poll
<1>3. CASE Replace
  <2>1. wire' = <<>> /\ release' = release
    BY <1>3 DEF Replace
  <2> QED
    BY <2>1 DEF WireInv
<1> QED
  BY <1>1, <1>2, <1>3, WireSend, WireOutage, WireBack, WireDeliver, WireElapse DEF Next

THEOREM SpecWireInv == Spec => []WireInv
  BY WireStart, WireNext, SpecIInv, PTL DEF Spec

\* Only a frame arms, and only one that finds neither a stall nor a hold window.
LEMMA ArmedBy ==
  ASSUME IInv, [Next]_vars, Arms
  PROVE  ~outage /\ wire # <<>> /\ ~Stalls(wd) /\ wd.hold = 0
<1>1. \A w \in {wd, Feed(wd), Check(wd), LinkLost(wd), Aged(wd)} : w.state = "DRIVING" => wd.state = "DRIVING"
  <2>1. Feed(wd).state = wd.state /\ Aged(wd).state = wd.state
    BY WireTypes DEF Feed, Aged, WatchdogStates
  <2>2. Check(wd).state \in {wd.state, "LATCHED"} /\ LinkLost(wd).state \in {wd.state, "LATCHED"}
    BY WireTypes DEF Check, LinkLost, Latch, WatchdogStates
  <2> QED
    BY <2>1, <2>2
<1>2. wd' \notin {wd, Feed(wd), Check(wd), LinkLost(wd), Aged(wd)}
  BY <1>1 DEF Arms
<1>3. Deliver
  BY <1>2 DEF Next, vars, Send, OutageBegins, OutageEnds, Poll, Replace, Elapse
<1>4. ~outage /\ wire # <<>>
  BY <1>3 DEF Deliver
<1>5. PICK ready \in BOOLEAN : wd' = Taken(wd, Head(wire).frame, ready)
  BY <1>2, <1>3 DEF Deliver
<1> DEFINE j == Judged(wd)
           f == Head(wire).frame
<1>6. wd'.state = IF f.estop THEN "LATCHED"
                  ELSE IF Pressed(j, f.arm) /\ ready /\ f.zero THEN "DRIVING"
                  ELSE IF j.state = "DRIVING" /\ ~(f.arm /\ ready) THEN "STOPPED"
                  ELSE j.state
  BY <1>4, <1>5, FirstFrame, TakenRecord, WireTypes
<1>7. /\ j.hold = (IF Stalls(wd) THEN Timeout ELSE wd.hold)
      /\ j.state = (IF Stalls(wd) /\ wd.state = "DRIVING" THEN "LATCHED" ELSE wd.state)
  BY JudgedRecord, WireTypes
<1> HIDE DEF j, f
<1>8. Pressed(j, f.arm)
  BY <1>6, <1>7 DEF Arms
<1>9. j.hold = 0
  BY <1>8 DEF Pressed
<1> QED
  BY <1>4, <1>7, <1>9, WireTypes

\* What an arming step finds at the head of the wire.
LEMMA ArmingIsFresh ==
  ASSUME IInv, WireInv, [Next]_vars, Arms
  PROVE  /\ Head(wire).via # "stalled" /\ release # "stalled"
         /\ Head(wire).via # "opening" => Head(wire).age <= Timeout + Drain + Latency
<1>1. ~outage /\ wire # <<>> /\ ~(wd.gap > Timeout) /\ wd.hold = 0
  BY ArmedBy DEF Stalls
<1>2. Bounded(Head(wire)) /\ Head(wire).via \in Arrivals /\ Head(wire).age \in 0 .. Horizon
  BY <1>1, FirstFrame, WireTypes DEF WireInv
<1>3. Head(wire).via # "stalled"
  BY <1>1, <1>2, WireTypes DEF Bounded
<1>4. Head(wire).via # "opening" => Head(wire).via = "live"
  BY <1>2, <1>3 DEF Arrivals
<1>5. Head(wire).via = "live" => Head(wire).age <= Timeout + Drain + Latency
  BY <1>1, <1>2, WireTypes DEF Bounded
<1> QED
  BY <1>3, <1>4, <1>5 DEF WireInv

\* For any window, latency, burst and tick period: nothing a stall queued arms,
\* neither as the release nor as the press (watchdog.py command, "when they drain
\* they must not re-arm a latch").
THEOREM SpecBacklogNeverArms == Spec => BacklogNeverArms
<1>1. IInv /\ WireInv /\ [Next]_vars
      => [Arms => Head(wire).via # "stalled" /\ release # "stalled"]_vars
  BY ArmingIsFresh
<1> QED
  BY <1>1, SpecIInv, SpecWireInv, PTL DEF Spec, BacklogNeverArms

\* Whatever arms, a session's opening aside, was sent within a window, a burst and
\* a latency (watchdog.py command, the drain bound of its docstring).
THEOREM SpecPressIsFresh == Spec => PressIsFresh
<1>1. IInv /\ WireInv /\ [Next]_vars
      => [Arms /\ Head(wire).via # "opening"
          => Head(wire).age <= Timeout + Drain + Latency]_vars
  BY ArmingIsFresh
<1> QED
  BY <1>1, SpecIInv, SpecWireInv, PTL DEF Spec, PressIsFresh

=============================================================================
