--------------------------- MODULE WatchdogProofs ---------------------------
(***************************************************************************)
(* What each method of the watchdog preserves, for every window and every  *)
(* record: the lemmas the proofs about the bridge rest on.                 *)
(***************************************************************************)
EXTENDS Watchdog, TLAPS

\* While the vehicle drives, no hold window is open: the locked section's disarm
\* then always sees the arm bit the edge detector recorded.
LiveWatchdog(w) == w.state = "DRIVING" => w.hold = 0 /\ w.gap # NoFrame

\* A new watchdog is well formed and at rest (Watchdog.__init__).
LEMMA NewWatchdogType == NewWatchdog \in WatchdogStates /\ LiveWatchdog(NewWatchdog)
  BY TimeoutAssumption, HorizonAssumption
     DEF NewWatchdog, WatchdogStates, SafetyStates, NoFrame, LiveWatchdog

\* Time, feeding, latching, polling and a lost link keep the record well formed
\* and the hold window shut while driving.
LEMMA QuietMethods ==
  ASSUME NEW w \in WatchdogStates, LiveWatchdog(w)
  PROVE  /\ Aged(w) \in WatchdogStates /\ LiveWatchdog(Aged(w))
         /\ Feed(w) \in WatchdogStates /\ LiveWatchdog(Feed(w))
         /\ Latch(w) \in WatchdogStates /\ LiveWatchdog(Latch(w))
         /\ Check(w) \in WatchdogStates /\ LiveWatchdog(Check(w))
         /\ LinkLost(w) \in WatchdogStates /\ LiveWatchdog(LinkLost(w))
<1>1. \A age \in 0 .. Horizon : Older(age) \in 0 .. Horizon
  BY HorizonAssumption DEF Older
<1>2. Aged(w) \in WatchdogStates /\ LiveWatchdog(Aged(w))
  <2>1. w.gap # NoFrame => w.gap \in 0 .. Horizon
    BY HorizonAssumption DEF WatchdogStates, NoFrame
  <2>2. w.gap # NoFrame => Older(w.gap) \in NoFrame .. Horizon /\ Older(w.gap) # NoFrame
    BY <1>1, <2>1, HorizonAssumption DEF NoFrame
  <2>3. Older(w.fed) \in 0 .. Horizon
    BY <1>1 DEF WatchdogStates
  <2>4. (IF w.hold > 0 THEN w.hold - 1 ELSE 0) \in 0 .. Timeout
    BY TimeoutAssumption DEF WatchdogStates
  <2> DEFINE g == IF w.gap = NoFrame THEN NoFrame ELSE Older(w.gap)
             h == IF w.hold > 0 THEN w.hold - 1 ELSE 0
  <2>5. g \in NoFrame .. Horizon /\ (w.gap # NoFrame => g # NoFrame)
    BY <2>2, HorizonAssumption DEF NoFrame
  <2>6. w.hold = 0 => h = 0
    OBVIOUS
  <2>7. Aged(w) = [w EXCEPT !.fed = Older(w.fed), !.gap = g, !.hold = h]
    BY DEF Aged
  <2> HIDE DEF g, h
  <2>8. /\ Aged(w).state = w.state /\ Aged(w).gap = g /\ Aged(w).hold = h
        /\ Aged(w) = [state |-> w.state, fed |-> Older(w.fed), prevArm |-> w.prevArm,
                      gap |-> g, hold |-> h]
    BY <2>7 DEF WatchdogStates
  <2>9. Aged(w) \in WatchdogStates
    BY <2>3, <2>4, <2>5, <2>8 DEF WatchdogStates, h
  <2> QED
    BY <2>5, <2>6, <2>8, <2>9 DEF LiveWatchdog
<1>3. Feed(w) \in WatchdogStates /\ LiveWatchdog(Feed(w))
  BY HorizonAssumption DEF Feed, WatchdogStates, LiveWatchdog
<1>4. Latch(w) \in WatchdogStates /\ LiveWatchdog(Latch(w))
  BY DEF Latch, WatchdogStates, SafetyStates, LiveWatchdog
<1>5. Check(w) \in WatchdogStates /\ LiveWatchdog(Check(w))
  BY <1>4 DEF Check
<1>6. LinkLost(w) \in WatchdogStates /\ LiveWatchdog(LinkLost(w))
  <2> DEFINE forgot == [w EXCEPT !.prevArm = TRUE, !.gap = NoFrame]
  <2>1. NoFrame \in NoFrame .. Horizon
    BY HorizonAssumption DEF NoFrame
  <2>2. forgot \in WatchdogStates /\ forgot.state = w.state
    BY <2>1 DEF WatchdogStates
  <2>3. LinkLost(w) = IF w.state = "DRIVING" THEN Latch(forgot) ELSE forgot
    BY DEF LinkLost
  <2> HIDE DEF forgot
  <2>4. Latch(forgot) \in WatchdogStates /\ Latch(forgot).state = "LATCHED"
    BY <2>2 DEF Latch, WatchdogStates, SafetyStates
  <2> QED
    BY <2>2, <2>3, <2>4 DEF LiveWatchdog
<1> QED
  BY <1>2, <1>3, <1>4, <1>5, <1>6

\* The gap's verdict: fed and measured afresh, held after a stall, latched if the
\* stall came while driving.
LEMMA JudgedRecord ==
  ASSUME NEW w \in WatchdogStates
  PROVE  /\ Judged(w) \in WatchdogStates
         /\ Judged(w).fed = 0 /\ Judged(w).gap = 0
         /\ Judged(w).hold = (IF Stalls(w) THEN Timeout ELSE w.hold)
         /\ Judged(w).state = (IF Stalls(w) /\ w.state = "DRIVING" THEN "LATCHED" ELSE w.state)
         /\ Judged(w).prevArm = (w.prevArm \/ (Stalls(w) /\ w.state = "DRIVING"))
<1> DEFINE f == [w EXCEPT !.fed = 0, !.gap = 0,
                          !.hold = IF Stalls(w) THEN Timeout ELSE w.hold]
<1>1. f \in WatchdogStates
  <2>1. /\ (IF Stalls(w) THEN Timeout ELSE w.hold) \in 0 .. Timeout
        /\ 0 \in 0 .. Horizon /\ 0 \in NoFrame .. Horizon
    BY TimeoutAssumption, HorizonAssumption DEF WatchdogStates, NoFrame
  <2> QED
    BY <2>1 DEF WatchdogStates
<1>2. /\ f.fed = 0 /\ f.gap = 0 /\ f.state = w.state /\ f.prevArm = w.prevArm
      /\ f.hold = (IF Stalls(w) THEN Timeout ELSE w.hold)
  BY DEF WatchdogStates
<1>3. Judged(w) = IF Stalls(w) /\ w.state = "DRIVING" THEN Latch(f) ELSE f
  BY DEF Judged
<1>4. CASE Stalls(w) /\ w.state = "DRIVING"
  <2>1. Judged(w) = [f EXCEPT !.state = "LATCHED", !.prevArm = TRUE]
    BY <1>3, <1>4 DEF Latch
  <2> QED
    BY <1>1, <1>2, <1>4, <2>1 DEF WatchdogStates, SafetyStates
<1>5. CASE ~(Stalls(w) /\ w.state = "DRIVING")
  <2>1. w.prevArm \in BOOLEAN
    BY DEF WatchdogStates
  <2> QED
    BY <1>1, <1>2, <1>3, <1>5, <2>1
<1> QED
  BY <1>4, <1>5

\* A command frame's outcome, by cases: an emergency stop latches; a press that
\* is granted drives; anything else leaves the state the gap's verdict left.
\* Inside the hold window the edge detector reads every frame as held.
LEMMA TakenRecord ==
  ASSUME NEW w \in WatchdogStates, NEW f, NEW ready \in BOOLEAN,
         f.arm \in BOOLEAN, f.estop \in BOOLEAN, f.zero \in BOOLEAN
  PROVE  LET t     == Taken(w, f, ready)
             j     == Judged(w)
             grant == Pressed(j, f.arm) /\ ready /\ f.zero
         IN  /\ t \in WatchdogStates
             /\ t.fed = 0 /\ t.gap = 0 /\ t.hold = j.hold
             /\ t.prevArm = (f.estop \/ f.arm \/ j.hold > 0)
             /\ t.state = IF f.estop THEN "LATCHED"
                          ELSE IF grant THEN "DRIVING"
                          ELSE IF j.state = "DRIVING" /\ ~(f.arm /\ ready) THEN "STOPPED"
                          ELSE j.state
<1> DEFINE j == Judged(w)
           e == Edged(j, f.arm)
           c == Command(w, f.arm, f.estop, f.zero, ready)
           grant == Pressed(j, f.arm) /\ ready /\ f.zero
<1>1. j \in WatchdogStates /\ j.fed = 0 /\ j.gap = 0
  BY JudgedRecord
<1> HIDE DEF j
<1>2. /\ e \in WatchdogStates
      /\ e.fed = 0 /\ e.gap = 0 /\ e.hold = j.hold /\ e.state = j.state
      /\ e.prevArm = (f.arm \/ j.hold > 0)
  BY <1>1 DEF Edged, WatchdogStates
<1>3. c = IF f.estop THEN Latch(e) ELSE IF grant THEN [e EXCEPT !.state = "DRIVING"] ELSE e
  BY DEF Command, j
<1>4. grant => f.arm /\ ready
  BY DEF Pressed
<1> HIDE DEF e, grant
<1>5. /\ c \in WatchdogStates
      /\ c.fed = 0 /\ c.gap = 0 /\ c.hold = j.hold
      /\ c.prevArm = (f.estop \/ f.arm \/ j.hold > 0)
      /\ c.state = IF f.estop THEN "LATCHED" ELSE IF grant THEN "DRIVING" ELSE j.state
  <2>1. CASE f.estop
    BY <1>2, <1>3, <2>1 DEF Latch, WatchdogStates, SafetyStates
  <2>2. CASE ~f.estop /\ grant
    BY <1>2, <1>3, <2>2 DEF WatchdogStates, SafetyStates
  <2>3. CASE ~f.estop /\ ~grant
    BY <1>2, <1>3, <2>3
  <2> QED
    BY <2>1, <2>2, <2>3
<1>6. Taken(w, f, ready) = IF f.arm /\ ready THEN c ELSE Disarm(c)
  BY DEF Taken
<1> HIDE DEF c
<1>7. /\ Disarm(c) \in WatchdogStates
      /\ Disarm(c).fed = c.fed /\ Disarm(c).gap = c.gap /\ Disarm(c).hold = c.hold
      /\ Disarm(c).prevArm = c.prevArm
      /\ Disarm(c).state = IF c.state = "DRIVING" THEN "STOPPED" ELSE c.state
  BY <1>5 DEF Disarm, WatchdogStates, SafetyStates
<1> QED
  BY <1>4, <1>5, <1>6, <1>7 DEF j, grant

\* A command frame never leaves the vehicle driving with the hold window open: the
\* press that would is not granted, and a stall has latched.
LEMMA TakenLives ==
  ASSUME NEW w \in WatchdogStates, LiveWatchdog(w), NEW f, NEW ready \in BOOLEAN,
         f.arm \in BOOLEAN, f.estop \in BOOLEAN, f.zero \in BOOLEAN
  PROVE  /\ Taken(w, f, ready) \in WatchdogStates
         /\ LiveWatchdog(Taken(w, f, ready))
         /\ Taken(w, f, ready).fed = 0
<1> DEFINE t == Taken(w, f, ready)
<1>1. /\ t \in WatchdogStates /\ t.fed = 0 /\ t.gap = 0 /\ t.hold = Judged(w).hold
      /\ t.state = "DRIVING" =>
            Judged(w).state = "DRIVING" \/ Pressed(Judged(w), f.arm)
  BY TakenRecord
<1>2. /\ Judged(w).state = "DRIVING" => w.state = "DRIVING" /\ ~Stalls(w)
      /\ Judged(w).hold = (IF Stalls(w) THEN Timeout ELSE w.hold)
  BY JudgedRecord
<1> HIDE DEF t
<1>3. t.state = "DRIVING" => t.hold = 0
  BY <1>1, <1>2 DEF Pressed, LiveWatchdog
<1>4. LiveWatchdog(t)
  BY <1>1, <1>3 DEF LiveWatchdog, NoFrame
<1> QED
  BY <1>1, <1>4 DEF t
=============================================================================
