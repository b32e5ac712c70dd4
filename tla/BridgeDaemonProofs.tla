-------------------------- MODULE BridgeDaemonProofs --------------------------
(***************************************************************************)
(* The bridge daemon's invariants, and that it refines SafetyLatch, for    *)
(* any number of clients, any messages and any window.                     *)
(***************************************************************************)
EXTENDS BridgeDaemon, WatchdogProofs, WellFoundedInduction

\* Named facts about the constants, used together.
Assumptions ==
    /\ NoClient \notin Clients
    /\ Messages \subseteq [t : {"cmd", "hb", "preflight"}, arm : BOOLEAN,
                           estop : BOOLEAN, zero : BOOLEAN, ignition : BOOLEAN]
    /\ MaxJoins \in Nat /\ Latching \in BOOLEAN

LEMMA AssumptionsHold == Assumptions
  BY ClientsAssumption, MessagesAssumption, MaxJoinsAssumption, LatchingAssumption
     DEF Assumptions

Vehicles == [moving : BOOLEAN, stopped : BOOLEAN]

------------------------------------------------------------------------------
(* The helpers' results.                                                      *)

\* A reader at any point of its code is well formed.
LEMMA IdleReader == \A at \in Points : Idle(at) \in Readers
  BY DEF Idle, Readers, Orders

\* What stops, resumes and commands make of a vehicle: a stop always stills it, a
\* resume only lifts the latch, and a command never lifts it.
LEMMA VehicleResults ==
  ASSUME NEW v \in Vehicles, NEW order \in Orders
  PROVE  /\ Halted(v) \in Vehicles /\ ~Halted(v).moving /\ Halted(v).stopped = Latching
         /\ Resumed(v) \subseteq Vehicles
         /\ \A u \in Resumed(v) : u.moving = v.moving
         /\ Applied(v, order) \subseteq Vehicles
         /\ \A u \in Applied(v, order) :
               /\ v.stopped /\ Latching => u.stopped
               /\ v.stopped /\ ~v.moving => ~u.moving
               /\ order = "estop" => ~u.moving /\ u.stopped = Latching
               /\ u.stopped => v.stopped \/ order = "estop"
<1>1. Halted(v) \in Vehicles /\ ~Halted(v).moving /\ Halted(v).stopped = Latching
  BY LatchingAssumption DEF Halted, Vehicles
<1>2. Resumed(v) \subseteq Vehicles /\ \A u \in Resumed(v) : u.moving = v.moving
  BY DEF Resumed, Vehicles
<1>3. CASE order = "estop"
  BY <1>1, <1>2, <1>3 DEF Applied
<1>4. CASE order = "neutral"
  BY <1>1, <1>2, <1>4 DEF Applied, Vehicles
<1>5. CASE order = "drive" /\ v.stopped
  BY <1>1, <1>2, <1>5 DEF Applied, Vehicles
<1>6. CASE order = "drive" /\ ~v.stopped
  <2>1. Applied(v, order) = {[v EXCEPT !.moving = TRUE]} \cup (IF Latching THEN {v} ELSE {})
    BY <1>6 DEF Applied
  <2> QED
    BY <1>1, <1>2, <1>6, <2>1 DEF Vehicles
<1> QED
  BY <1>3, <1>4, <1>5, <1>6 DEF Orders

\* Promotion picks one of the sessions it is given.
LEMMA OldestIsMember ==
  ASSUME NEW cs \in SUBSET Clients, joined \in [Clients -> 0 .. MaxJoins]
  PROVE  IF cs = {} THEN Oldest(cs) = NoClient ELSE Oldest(cs) \in cs
<1>1. CASE cs = {}
  BY <1>1 DEF Oldest
<1>2. CASE cs # {}
  <2> DEFINE stamps == {joined[c] : c \in cs}
  <2>1. stamps \in SUBSET Nat /\ stamps # {}
    BY <1>2, MaxJoinsAssumption
  <2> HIDE DEF stamps
  <2> DEFINE less == OpToRel(<, Nat)
  <2>2. IsWellFoundedOn(less, Nat)
    BY NatLessThanWellFounded
  <2>3. \A m, n \in Nat : m < n => <<m, n>> \in less
    BY DEF OpToRel
  <2> HIDE DEF less
  <2>4. PICK n \in stamps : \A m \in stamps : ~ (<<m, n>> \in less)
    BY <2>2, <2>1, WFMin
  <2>5. \A m \in stamps : ~ (m < n)
    BY <2>1, <2>3, <2>4, Zenon
  <2>6. n \in Nat /\ \A m \in stamps : m \in Nat
    BY <2>1
  <2>7. \A m \in stamps : n <= m
    BY <2>5, <2>6
  <2> USE DEF stamps
  <2>8. \E c \in cs : \A d \in cs : joined[c] <= joined[d]
    BY <2>7
  <2> QED
    BY <1>2, <2>8 DEF Oldest
<1> QED
  BY <1>1, <1>2

\* The log's last line after a transition.
LEMMA LogsAfter ==
  \A before, after : logged \in {before, Closed} => Logs(before, after) \in {after, Closed}
  BY DEF Logs

------------------------------------------------------------------------------
(* Well-formedness, the session log and the driver.                           *)

IInv ==
    /\ TypeOK
    /\ LiveWatchdog(wd)
    /\ LogTellsState
    /\ DriverIsConnected

\* Dropping a client keeps the sessions, the log and the watchdog in step.
LEMMA DropPreserves ==
  ASSUME IInv, NEW c \in Clients, Drop(c)
  PROVE  /\ wd' \in WatchdogStates /\ LiveWatchdog(wd')
         /\ clients' \subseteq Clients
         /\ driver' \in Clients \cup {NoClient}
         /\ veh' \in Vehicles
         /\ logged' \in SafetyStates \cup {Closed}
         /\ logged' \in {wd'.state, Closed}
         /\ driver' = NoClient <=> clients' = {}
         /\ driver' # NoClient => driver' \in clients'
<1>0. /\ wd \in WatchdogStates /\ LiveWatchdog(wd) /\ logged \in {wd.state, Closed}
      /\ clients \in SUBSET Clients /\ joined \in [Clients -> 0 .. MaxJoins]
      /\ veh \in Vehicles /\ logged \in SafetyStates \cup {Closed}
      /\ driver \in Clients \cup {NoClient}
      /\ driver = NoClient <=> clients = {}
      /\ driver # NoClient => driver \in clients
  BY DEF IInv, TypeOK, LogTellsState, DriverIsConnected, Vehicles
<1>1. LinkLost(wd) \in WatchdogStates /\ LiveWatchdog(LinkLost(wd))
  BY <1>0, QuietMethods
<1>2. clients' = clients \ {c}
  BY DEF Drop
<1>3. CASE c \in clients /\ c = driver
  <2>1. /\ wd' = LinkLost(wd) /\ driver' = Oldest(clients \ {c})
        /\ veh' = IF wd.state = "DRIVING" THEN Halted(veh) ELSE veh
        /\ logged' = Logs(wd.state, LinkLost(wd).state)
    BY <1>3 DEF Drop
  <2>2. logged' \in {wd'.state, Closed}
    BY <1>0, <2>1, LogsAfter
  <2>3. wd'.state \in SafetyStates
    BY <1>1, <2>1 DEF WatchdogStates
  <2>4. veh' \in Vehicles
    BY <1>0, <2>1, VehicleResults DEF Orders
  <2>5. IF clients' = {} THEN driver' = NoClient ELSE driver' \in clients'
    BY <1>0, <1>2, <2>1, OldestIsMember
  <2> QED
    BY <1>0, <1>1, <1>2, <2>1, <2>2, <2>3, <2>4, <2>5, AssumptionsHold DEF Assumptions
<1>4. CASE ~(c \in clients /\ c = driver)
  <2>1. UNCHANGED <<wd, driver, veh, logged>>
    BY <1>4 DEF Drop
  <2> QED
    BY <1>0, <1>2, <1>4, <2>1
<1> QED
  BY <1>3, <1>4

\* What the watchdog makes of the frame a reader holds.
LEMMA FrameTaken ==
  ASSUME IInv, NEW c \in Clients
  PROVE  LET msg == reader[c].msg
             t   == Taken(wd, msg, reader[c].ready)
         IN  /\ msg.arm \in BOOLEAN /\ msg.estop \in BOOLEAN /\ msg.zero \in BOOLEAN
             /\ reader[c].ready \in BOOLEAN
             /\ t \in WatchdogStates /\ LiveWatchdog(t)
<1> DEFINE msg == reader[c].msg
           ready == reader[c].ready
           t == Taken(wd, msg, ready)
<1>1. wd \in WatchdogStates /\ LiveWatchdog(wd) /\ reader[c] \in Readers
  BY DEF IInv, TypeOK
<1>2. msg \in Messages \cup {NoMessage} /\ ready \in BOOLEAN
  BY <1>1 DEF Readers
<1>3. msg.arm \in BOOLEAN /\ msg.estop \in BOOLEAN /\ msg.zero \in BOOLEAN
  <2> HIDE DEF msg, ready
  <2>1. CASE msg = NoMessage
    BY <2>1 DEF NoMessage
  <2>2. CASE msg \in Messages
    BY <2>2, MessagesAssumption, Zenon
  <2> QED
    BY <1>2, <2>1, <2>2
<1> HIDE DEF msg, ready
<1>4. t \in WatchdogStates /\ LiveWatchdog(t)
  BY <1>1, <1>2, <1>3, TakenLives
<1> QED
  BY <1>2, <1>3, <1>4 DEF msg, ready

\* The ignition bit of whatever a reader holds.
LEMMA FrameIgnition == \A r \in Readers : r.msg.ignition \in BOOLEAN
<1> SUFFICES ASSUME NEW r \in Readers PROVE r.msg.ignition \in BOOLEAN
  OBVIOUS
<1>1. r.msg \in Messages \cup {NoMessage}
  BY DEF Readers
<1>2. NoMessage.ignition \in BOOLEAN
  BY DEF NoMessage
<1>3. \A m \in Messages : m.ignition \in BOOLEAN
  BY MessagesAssumption, Zenon
<1> QED
  BY <1>1, <1>2, <1>3

\* Updating one reader with a well-formed one keeps the readers well formed.
LEMMA ReaderUpdate ==
  ASSUME reader \in [Clients -> Readers], NEW c \in Clients, NEW r \in Readers
  PROVE  [reader EXCEPT ![c] = r] \in [Clients -> Readers]
  OBVIOUS

LEMMA InitIInv == Init => IInv
<1> SUFFICES ASSUME Init PROVE IInv
  OBVIOUS
<1>1. NewWatchdog \in WatchdogStates /\ LiveWatchdog(NewWatchdog)
  BY NewWatchdogType
<1>2. Idle("out") \in Readers
  BY IdleReader DEF Points
<1>3. NewWatchdog.state = "STOPPED"
  BY DEF NewWatchdog
<1>4. reader \in [Clients -> Readers] /\ joined \in [Clients -> 0 .. MaxJoins]
  BY <1>2, MaxJoinsAssumption DEF Init
<1>5. /\ wd \in WatchdogStates /\ LiveWatchdog(wd) /\ logged \in {wd.state, Closed}
      /\ logged \in SafetyStates \cup {Closed}
  BY <1>1, <1>3 DEF Init, SafetyStates
<1>6. LogTellsState /\ DriverIsConnected
  BY <1>5 DEF Init, LogTellsState, DriverIsConnected
<1>7. TypeOK
  <2>1. /\ clients \subseteq Clients /\ driver \in Clients \cup {NoClient}
        /\ joins \in 0 .. MaxJoins /\ todo \subseteq Clients
    BY MaxJoinsAssumption DEF Init
  <2>2. /\ ignited \in BOOLEAN /\ stopping \in BOOLEAN /\ healthy \in BOOLEAN
        /\ preflight \in [ran : BOOLEAN, pass : BOOLEAN]
        /\ veh \in [moving : BOOLEAN, stopped : BOOLEAN]
    BY DEF Init
  <2>3. peer \in [Clients -> {"reading", "stuck", "gone"}]
    BY DEF Init
  <2> QED
    BY <1>4, <1>5, <2>1, <2>2, <2>3 DEF TypeOK
<1> QED
  BY <1>5, <1>6, <1>7 DEF IInv

LEMMA NextIInv == IInv /\ [Next]_vars => IInv'
<1> SUFFICES ASSUME IInv, [Next]_vars PROVE IInv'
  OBVIOUS
<1>0. /\ TypeOK /\ LogTellsState /\ DriverIsConnected
      /\ wd \in WatchdogStates /\ LiveWatchdog(wd) /\ logged \in {wd.state, Closed}
      /\ reader \in [Clients -> Readers] /\ veh \in Vehicles
      /\ wd.state \in SafetyStates
  BY DEF IInv, TypeOK, LogTellsState, Vehicles, WatchdogStates
<1>a. \A at \in Points : Idle(at) \in Readers
  BY IdleReader
<1>b. Again \in Readers
  BY <1>a DEF Again, Points
<1>c. ASSUME NEW c \in Clients, NEW at \in Points
      PROVE  [reader[c] EXCEPT !.at = at] \in Readers
  BY <1>0 DEF Readers
<1>1. CASE UNCHANGED vars
  BY <1>0, <1>1 DEF vars, IInv, TypeOK, LogTellsState, DriverIsConnected
<1>2. ASSUME NEW c \in Clients, PeerGoes(c) \/ PeerSticks(c)
      PROVE  IInv'
  BY <1>0, <1>2 DEF PeerGoes, PeerSticks, sessions, gate, IInv, TypeOK,
                     LogTellsState, DriverIsConnected
<1>3. ASSUME NEW c \in Clients, Connect(c)
      PROVE  IInv'
  <2>1. reader' \in [Clients -> Readers]
    BY <1>0, <1>3, <1>a, ReaderUpdate DEF Connect, Points
  <2>2. joined' \in [Clients -> 0 .. MaxJoins] /\ joins' \in 0 .. MaxJoins
    BY <1>0, <1>3, MaxJoinsAssumption DEF Connect, TypeOK
  <2> QED
    BY <1>0, <1>3, <2>1, <2>2 DEF Connect, gate, IInv, TypeOK, LogTellsState, DriverIsConnected
<1>4. ASSUME NEW c \in Clients, Register(c)
      PROVE  IInv'
  <2>1. reader' \in [Clients -> Readers]
    BY <1>0, <1>4, <1>b, ReaderUpdate DEF Register
  <2> QED
    BY <1>0, <1>4, <2>1, ClientsAssumption
       DEF Register, gate, IInv, TypeOK, LogTellsState, DriverIsConnected
<1>5. ASSUME NEW c \in Clients, Leave(c)
      PROVE  IInv'
  <2>1. reader' \in [Clients -> Readers]
    BY <1>0, <1>5, <1>a, ReaderUpdate DEF Leave, Points
  <2>2. joined' \in [Clients -> 0 .. MaxJoins]
    BY <1>0, <1>5, MaxJoinsAssumption DEF Leave, TypeOK
  <2>3. Drop(c)
    BY <1>5 DEF Leave
  <2> QED
    BY <1>0, <1>5, <2>1, <2>2, <2>3, DropPreserves
       DEF Leave, gate, IInv, TypeOK, LogTellsState, DriverIsConnected, Vehicles
<1>6. ASSUME NEW c \in Clients, NEW m \in Messages, Receive(c, m)
      PROVE  IInv'
  <2>1. ASSUME NEW at \in Points PROVE [Idle(at) EXCEPT !.msg = m] \in Readers
    BY <1>a DEF Idle, Readers, Orders
  <2>2. reader' \in [Clients -> Readers]
    <3>1. (IF m.t = "cmd" THEN "ignition" ELSE "preflight") \in Points
      BY DEF Points
    <3> QED
      BY <1>0, <1>6, <2>1, <3>1, ReaderUpdate DEF Receive
  <2> QED
    BY <1>0, <1>6, <2>2 DEF Receive, sessions, gate, IInv, TypeOK, LogTellsState, DriverIsConnected
<1>7. ASSUME NEW c \in Clients, NEW m \in Messages, Heartbeat(c, m)
      PROVE  IInv'
  <2>1. reader' \in [Clients -> Readers]
    BY <1>0, <1>7, <1>b, ReaderUpdate DEF Heartbeat
  <2>2. wd' \in WatchdogStates /\ LiveWatchdog(wd') /\ wd'.state = wd.state
    BY <1>0, <1>7, QuietMethods DEF Heartbeat, Feed, WatchdogStates
  <2> QED
    BY <1>0, <1>7, <2>1, <2>2 DEF Heartbeat, sessions, gate, IInv, TypeOK, LogTellsState, DriverIsConnected
<1>8. ASSUME NEW c \in Clients, RunPreflight(c)
      PROVE  IInv'
  <2>0. (IF CanBroadcast THEN Again ELSE Idle("reporting")) \in Readers
    BY <1>a, <1>b DEF Points, Broadcasts
  <2>1. reader' \in [Clients -> Readers]
    BY <1>0, <1>8, <2>0, ReaderUpdate DEF RunPreflight
  <2> QED
    BY <1>0, <1>8, <2>1 DEF RunPreflight, sessions, IInv, TypeOK, LogTellsState, DriverIsConnected
<1>9. ASSUME NEW c \in Clients, Ignite(c)
      PROVE  IInv'
  <2>0. reader[c] \in Readers
    BY <1>0
  <2>1. \E at \in Points : reader' = [reader EXCEPT ![c] = [reader[c] EXCEPT !.at = at]]
    BY <1>0, <1>9 DEF Ignite, Points, Broadcasts
  <2>2. reader' \in [Clients -> Readers]
    BY <1>0, <1>c, <2>1, ReaderUpdate
  <2>3. reader[c].msg.ignition \in BOOLEAN
    BY <2>0, FrameIgnition
  <2>4. preflight' \in [ran : BOOLEAN, pass : BOOLEAN] /\ ignited' \in BOOLEAN
    BY <1>0, <1>9, <2>3 DEF Ignite, TypeOK
  <2> QED
    BY <1>0, <1>9, <2>2, <2>4 DEF Ignite, sessions, IInv, TypeOK, LogTellsState, DriverIsConnected
<1>10. ASSUME NEW c \in Clients, Judge(c)
       PROVE  IInv'
  <2>0. reader[c] \in Readers
    BY <1>0
  <2>1. \A at \in Points, ready \in BOOLEAN :
           [reader[c] EXCEPT !.at = at, !.ready = ready] \in Readers
    BY <2>0 DEF Readers
  <2>2. PICK at \in Points, ready \in BOOLEAN :
           reader' = [reader EXCEPT ![c] = [reader[c] EXCEPT !.at = at, !.ready = ready]]
    <3>1. CASE ~preflight.ran
      <4>1. reader' = [reader EXCEPT ![c] = [reader[c] EXCEPT !.at = "decide", !.ready = FALSE]]
        BY <1>0, <1>10, <3>1 DEF Judge
      <4> QED
        BY <4>1 DEF Points
    <3>2. CASE preflight.ran
      <4> DEFINE at == IF healthy = preflight.pass \/ CanBroadcast THEN "decide" ELSE "publishing"
      <4>1. reader' = [reader EXCEPT ![c] = [reader[c] EXCEPT !.at = at, !.ready = healthy]]
        BY <1>0, <1>10, <3>2 DEF Judge
      <4>2. at \in Points /\ healthy \in BOOLEAN
        BY <1>0 DEF Points, Broadcasts, TypeOK
      <4> HIDE DEF at
      <4> QED
        BY <4>1, <4>2
    <3> QED
      BY <3>1, <3>2
  <2>3. reader' \in [Clients -> Readers]
    BY <1>0, <2>1, <2>2, ReaderUpdate
  <2>4. preflight' \in [ran : BOOLEAN, pass : BOOLEAN]
    BY <1>0, <1>10 DEF Judge, TypeOK
  <2> QED
    BY <1>0, <1>10, <2>3, <2>4 DEF Judge, sessions, IInv, TypeOK, LogTellsState, DriverIsConnected
<1>11. ASSUME NEW c \in Clients, Decide(c)
       PROVE  IInv'
  <2> DEFINE msg == reader[c].msg
             after == Taken(wd, msg, reader[c].ready)
  <2>1. after \in WatchdogStates /\ LiveWatchdog(after)
    BY FrameTaken
  <2>2. [Idle("apply") EXCEPT !.order = Order(msg, after)] \in Readers
    BY <1>a DEF Idle, Readers, Order, Orders, Points
  <2>3. wd' = after /\ logged' = Logs(wd.state, after.state)
    BY <1>11 DEF Decide
  <2>4. logged' \in {wd'.state, Closed} /\ wd'.state \in SafetyStates
    BY <1>0, <2>1, <2>3, LogsAfter DEF WatchdogStates
  <2>5. reader' \in [Clients -> Readers] /\ veh' \in Vehicles
    <3>1. CASE EndsFrame(msg, reader[c].ready, after)
      BY <1>0, <1>11, <1>b, <3>1, ReaderUpdate, VehicleResults DEF Decide, Orders
    <3>2. CASE ~EndsFrame(msg, reader[c].ready, after)
      <4>1. /\ veh' \in IF LiftsStop(after) THEN Resumed(veh) ELSE {veh}
            /\ reader' = [reader EXCEPT ![c] = [Idle("apply") EXCEPT !.order = Order(msg, after)]]
        BY <1>11, <3>2 DEF Decide
      <4>2. veh' \in Vehicles
        BY <1>0, <4>1, VehicleResults DEF Orders
      <4> QED
        BY <1>0, <2>2, <4>1, <4>2, ReaderUpdate
    <3> QED
      BY <3>1, <3>2
  <2> HIDE DEF after, msg
  <2>6. UNCHANGED <<sessions, gate, stopping, healthy, todo, peer>>
    BY <1>11 DEF Decide
  <2> QED
    BY <1>0, <2>1, <2>3, <2>4, <2>5, <2>6
       DEF sessions, gate, IInv, TypeOK, LogTellsState, DriverIsConnected, Vehicles
<1>12. ASSUME NEW c \in Clients, Apply(c)
       PROVE  IInv'
  <2>1. reader' \in [Clients -> Readers]
    BY <1>0, <1>12, <1>b, ReaderUpdate DEF Apply
  <2>2. reader[c].order \in Orders
    BY <1>0 DEF Readers
  <2>3. veh' \in Vehicles
    BY <1>0, <1>12, <2>2, VehicleResults DEF Apply
  <2> QED
    BY <1>0, <1>12, <2>1, <2>3 DEF Apply, sessions, gate, IInv, TypeOK, LogTellsState, DriverIsConnected, Vehicles
<1>13. CASE Poll
  <2>1. Check(wd) \in WatchdogStates /\ LiveWatchdog(Check(wd))
    BY <1>0, QuietMethods
  <2>2. /\ wd' = Check(wd) /\ logged' = Logs(wd.state, Check(wd).state)
        /\ veh' = IF Trips(wd) THEN Halted(veh) ELSE veh
        /\ todo' \in {{}, clients}
        /\ UNCHANGED <<sessions, reader, gate, stopping, healthy, peer>>
    BY <1>13 DEF Poll
  <2>3. logged' \in {wd'.state, Closed} /\ wd'.state \in SafetyStates
    BY <1>0, <2>1, <2>2, LogsAfter DEF WatchdogStates
  <2>4. veh' \in Vehicles
    BY <1>0, <2>2, VehicleResults DEF Orders
  <2> QED
    BY <1>0, <2>1, <2>2, <2>3, <2>4
       DEF sessions, gate, IInv, TypeOK, LogTellsState, DriverIsConnected, Vehicles
<1>14. ASSUME NEW c \in Clients, SendTo(c)
       PROVE  IInv'
  BY <1>0, <1>14 DEF SendTo, sessions, gate, IInv, TypeOK, LogTellsState, DriverIsConnected
<1>15. ASSUME NEW c \in Clients, SendFails(c)
       PROVE  IInv'
  <2>1. Drop(c)
    BY <1>15 DEF SendFails
  <2> QED
    BY <1>0, <1>15, <2>1, DropPreserves
       DEF SendFails, gate, IInv, TypeOK, LogTellsState, DriverIsConnected, Vehicles
<1>16. CASE CheckFails \/ CheckPasses
  <2>1. veh' \in Vehicles
    BY <1>0, <1>16, VehicleResults DEF CheckFails, CheckPasses, Orders
  <2> QED
    BY <1>0, <1>16, <2>1
       DEF CheckFails, CheckPasses, sessions, gate, IInv, TypeOK, LogTellsState, DriverIsConnected, Vehicles
<1>17. CASE Stop
  <2>1. veh' \in Vehicles
    BY <1>0, <1>17, VehicleResults DEF Stop, Orders
  <2> QED
    BY <1>0, <1>17, <2>1
       DEF Stop, sessions, gate, IInv, TypeOK, LogTellsState, DriverIsConnected, Vehicles
<1>18. CASE Elapse
  <2>1. wd' \in WatchdogStates /\ LiveWatchdog(wd')
    BY <1>0, <1>18, QuietMethods DEF Elapse
  <2>2. wd'.state = wd.state
    BY <1>0, <1>18 DEF Elapse, Aged, WatchdogStates
  <2> QED
    BY <1>0, <1>18, <2>1, <2>2
       DEF Elapse, sessions, gate, IInv, TypeOK, LogTellsState, DriverIsConnected
<1>19. ASSUME NEW c \in Clients, Broadcasted(c)
       PROVE  IInv'
  <2>1. \E r \in Readers : reader' = [reader EXCEPT ![c] = r]
    <3>1. reader[c].at = "reporting" => reader' = [reader EXCEPT ![c] = Again]
      BY <1>19 DEF Broadcasted
    <3>2. reader[c].at = "announcing" =>
             reader' = [reader EXCEPT ![c] = [reader[c] EXCEPT !.at = "judge"]]
      BY <1>19 DEF Broadcasted
    <3>3. reader[c].at = "publishing" =>
             reader' = [reader EXCEPT ![c] = [reader[c] EXCEPT !.at = "decide"]]
      BY <1>19 DEF Broadcasted
    <3>4. "judge" \in Points /\ "decide" \in Points
      BY DEF Points
    <3> QED
      BY <1>b, <1>c, <1>19, <3>1, <3>2, <3>3, <3>4 DEF Broadcasted, Broadcasts
  <2>2. reader' \in [Clients -> Readers]
    BY <1>0, <2>1, ReaderUpdate
  <2>3. ignited' \in BOOLEAN
    <3>1. reader[c] \in Readers
      BY <1>0
    <3>2. reader[c].msg.ignition \in BOOLEAN
      BY <3>1, FrameIgnition
    <3>3. ignited \in BOOLEAN
      BY <1>0 DEF TypeOK
    <3>4. ignited' \in {reader[c].msg.ignition, ignited}
      BY <1>19 DEF Broadcasted
    <3> QED
      BY <3>2, <3>3, <3>4
  <2> QED
    BY <1>0, <1>19, <2>2, <2>3
       DEF Broadcasted, sessions, IInv, TypeOK, LogTellsState, DriverIsConnected
<1>20. CASE CloseLog
  BY <1>0, <1>20 DEF CloseLog, sessions, gate, IInv, TypeOK, LogTellsState, DriverIsConnected
<1> QED
  BY <1>1, <1>2, <1>3, <1>4, <1>5, <1>6, <1>7, <1>8, <1>9, <1>10, <1>11, <1>12,
     <1>13, <1>14, <1>15, <1>16, <1>17, <1>18, <1>19, <1>20
     DEF Next, ReaderStep, TickStep

THEOREM SpecIInv == Spec => []IInv
<1>1. Init => IInv
  BY InitIInv
<1>2. IInv /\ [Next]_vars => IInv'
  BY NextIInv
<1> QED
  BY <1>1, <1>2, PTL DEF Spec

\* Every record stays in its set.
THEOREM SpecTypeOK == Spec => []TypeOK
<1>1. IInv => TypeOK
  BY DEF IInv
<1> QED
  BY <1>1, SpecIInv, PTL

\* No arm, latch or disarm goes unlogged, whichever thread makes it.
THEOREM SpecLogTellsState == Spec => []LogTellsState
<1>1. IInv => LogTellsState
  BY DEF IInv
<1> QED
  BY <1>1, SpecIInv, PTL

\* Somebody drives exactly when somebody is connected.
THEOREM SpecDriverIsConnected == Spec => []DriverIsConnected
<1>1. IInv => DriverIsConnected
  BY DEF IInv
<1> QED
  BY <1>1, SpecIInv, PTL

------------------------------------------------------------------------------
(* Stops: who makes them, who lifts them.                                     *)

EstopUnderway == \E c \in Clients : reader[c].at = "apply" /\ reader[c].order = "estop"

\* A stop is latched by a latching vehicle only, and stills it; the daemon's own
\* latch, and its shutdown, find it latched or about to be.
StopInv ==
    /\ veh.stopped => Latching /\ ~veh.moving
    /\ Latching /\ wd.state = "LATCHED" => veh.stopped \/ EstopUnderway
    /\ Latching /\ stopping => veh.stopped

LiftedByArm == veh.stopped /\ ~veh'.stopped => Arms /\ ~stopping

\* A step that leaves the vehicle, and the stop on its way to it, alone.
LEMMA KeptStop ==
  ASSUME StopInv, veh' = veh, stopping' = stopping,
         wd'.state = "LATCHED" => wd.state = "LATCHED",
         EstopUnderway => EstopUnderway'
  PROVE  StopInv' /\ LiftedByArm
  BY DEF StopInv, LiftedByArm

\* A step that stops the vehicle.
LEMMA StilledStop ==
  ASSUME StopInv, veh \in Vehicles, veh' = Halted(veh)
  PROVE  StopInv' /\ LiftedByArm
<1>1. ~veh'.moving /\ veh'.stopped = Latching
  BY VehicleResults DEF Orders
<1>2. Latching \in BOOLEAN
  BY LatchingAssumption
<1> QED
  BY <1>1, <1>2 DEF StopInv, LiftedByArm

\* A reader that is not handing over an emergency stop can move on.
LEMMA UnderwayKept ==
  ASSUME reader \in [Clients -> Readers], NEW c \in Clients, NEW r,
         reader[c].at # "apply" \/ reader[c].order # "estop",
         reader' = [reader EXCEPT ![c] = r]
  PROVE  EstopUnderway => EstopUnderway'
<1> SUFFICES ASSUME EstopUnderway PROVE EstopUnderway'
  OBVIOUS
<1>1. PICK d \in Clients : reader[d].at = "apply" /\ reader[d].order = "estop"
  BY DEF EstopUnderway
<1>2. d # c /\ reader'[d] = reader[d]
  BY <1>1
<1> QED
  BY <1>1, <1>2 DEF EstopUnderway

LEMMA DropStop ==
  ASSUME IInv, StopInv, NEW c \in Clients, Drop(c), stopping' = stopping,
         EstopUnderway => EstopUnderway'
  PROVE  StopInv' /\ LiftedByArm
<1>0. wd \in WatchdogStates /\ veh \in Vehicles
  BY DEF IInv, TypeOK, Vehicles
<1>1. wd.state # "DRIVING" => LinkLost(wd).state = wd.state
  BY <1>0 DEF LinkLost, WatchdogStates
<1>2. CASE c \in clients /\ c = driver /\ wd.state = "DRIVING"
  BY <1>0, <1>2, StilledStop DEF Drop
<1>3. CASE ~(c \in clients /\ c = driver /\ wd.state = "DRIVING")
  <2>1. veh' = veh /\ (wd' = wd \/ (wd' = LinkLost(wd) /\ wd.state # "DRIVING"))
    BY <1>3 DEF Drop
  <2> QED
    BY <1>1, <2>1, KeptStop
<1> QED
  BY <1>2, <1>3

LEMMA NextStop == IInv /\ StopInv /\ [Next]_vars => StopInv' /\ LiftedByArm
<1> SUFFICES ASSUME IInv, StopInv, [Next]_vars PROVE StopInv' /\ LiftedByArm
  OBVIOUS
<1>0. /\ wd \in WatchdogStates /\ LiveWatchdog(wd) /\ veh \in Vehicles
      /\ reader \in [Clients -> Readers]
  BY DEF IInv, TypeOK, Vehicles
<1>1. CASE UNCHANGED vars
  <2>1. EstopUnderway => EstopUnderway'
    BY <1>1 DEF vars, EstopUnderway
  <2> QED
    BY <1>1, <2>1, KeptStop DEF vars
<1>2. ASSUME UNCHANGED <<wd, reader, stopping, veh>>
      PROVE  StopInv' /\ LiftedByArm
  <2>1. EstopUnderway => EstopUnderway'
    BY <1>2 DEF EstopUnderway
  <2> QED
    BY <1>2, <2>1, KeptStop
<1>3. ASSUME NEW c \in Clients, reader[c].at # "apply", NEW r,
             reader' = [reader EXCEPT ![c] = r], UNCHANGED <<wd, stopping, veh>>
      PROVE  StopInv' /\ LiftedByArm
  <2>1. EstopUnderway => EstopUnderway'
    BY <1>0, <1>3, UnderwayKept
  <2> QED
    BY <1>3, <2>1, KeptStop
<1>4. ASSUME NEW c \in Clients, PeerGoes(c) \/ PeerSticks(c) \/ SendTo(c)
      PROVE  StopInv' /\ LiftedByArm
  BY <1>2, <1>4 DEF PeerGoes, PeerSticks, SendTo
<1>5. ASSUME NEW c \in Clients, Connect(c) \/ Register(c)
      PROVE  StopInv' /\ LiftedByArm
  BY <1>3, <1>5 DEF Connect, Register
<1>6. ASSUME NEW c \in Clients, Leave(c)
      PROVE  StopInv' /\ LiftedByArm
  <2>1. EstopUnderway => EstopUnderway'
    BY <1>0, <1>6, UnderwayKept DEF Leave
  <2> QED
    BY <1>6, <2>1, DropStop DEF Leave
<1>7. ASSUME NEW c \in Clients, NEW m \in Messages, Receive(c, m)
      PROVE  StopInv' /\ LiftedByArm
  BY <1>3, <1>7 DEF Receive
<1>8. ASSUME NEW c \in Clients, NEW m \in Messages, Heartbeat(c, m)
      PROVE  StopInv' /\ LiftedByArm
  <2>1. EstopUnderway => EstopUnderway'
    BY <1>0, <1>8, UnderwayKept DEF Heartbeat
  <2>2. wd'.state = wd.state
    BY <1>0, <1>8 DEF Heartbeat, Feed, WatchdogStates
  <2> QED
    BY <1>8, <2>1, <2>2, KeptStop DEF Heartbeat
<1>9. ASSUME NEW c \in Clients, RunPreflight(c)
      PROVE  StopInv' /\ LiftedByArm
  BY <1>3, <1>9 DEF RunPreflight
<1>10. ASSUME NEW c \in Clients, Ignite(c)
       PROVE  StopInv' /\ LiftedByArm
  <2>1. /\ reader[c].at # "apply" /\ UNCHANGED <<wd, stopping, veh>>
        /\ \E r : reader' = [reader EXCEPT ![c] = r]
    BY <1>0, <1>10 DEF Ignite
  <2> QED
    BY <1>3, <2>1
<1>11. ASSUME NEW c \in Clients, Judge(c)
       PROVE  StopInv' /\ LiftedByArm
  <2>1. /\ reader[c].at # "apply" /\ UNCHANGED <<wd, stopping, veh>>
        /\ \E r : reader' = [reader EXCEPT ![c] = r]
    BY <1>0, <1>11 DEF Judge
  <2> QED
    BY <1>3, <2>1
<1>12. ASSUME NEW c \in Clients, Decide(c)
       PROVE  StopInv' /\ LiftedByArm
  <2> DEFINE msg == reader[c].msg
             ready == reader[c].ready
             after == Taken(wd, msg, ready)
  <2>1. /\ after \in WatchdogStates /\ LiveWatchdog(after)
        /\ msg.estop \in BOOLEAN /\ ready \in BOOLEAN
    BY <1>12, FrameTaken
  <2>2. wd' = after /\ reader[c].at = "decide" /\ stopping' = stopping
    BY <1>12 DEF Decide
  <2>3. CASE EndsFrame(msg, ready, after)
    BY <1>0, <1>12, <2>3, StilledStop DEF Decide
  <2>4. CASE ~EndsFrame(msg, ready, after)
    <3> DEFINE r == [Idle("apply") EXCEPT !.order = Order(msg, after)]
    <3>1. /\ veh' \in IF LiftsStop(after) THEN Resumed(veh) ELSE {veh}
          /\ reader' = [reader EXCEPT ![c] = r]
      BY <1>12, <2>4 DEF Decide
    <3> HIDE DEF after, r
    <3>2. EstopUnderway => EstopUnderway'
      BY <1>0, <2>2, <3>1, UnderwayKept
    <3>3. CASE LiftsStop(after)
      <4>1. wd.state # "DRIVING" /\ wd'.state = "DRIVING" /\ ~stopping /\ ~stopping'
        BY <2>2, <3>3 DEF LiftsStop
      <4>2. veh' \in Resumed(veh)
        BY <3>1, <3>3
      <4>3. veh'.moving = veh.moving /\ (veh'.stopped => veh.stopped)
        BY <1>0, <4>2 DEF Resumed, Vehicles
      <4> QED
        BY <4>1, <4>3 DEF StopInv, LiftedByArm, Arms
    <3>4. CASE ~LiftsStop(after)
      <4>1. veh' = veh
        BY <3>1, <3>4
      <4>2. CASE wd'.state = "LATCHED" /\ wd.state # "LATCHED"
        <5>1. msg.estop
          BY <2>2, <2>4, <4>2 DEF EndsFrame
        <5>2. Order(msg, after) = "estop"
          BY <2>2, <4>2, <5>1 DEF Order
        <5>3. r.at = "apply" /\ r.order = "estop"
          BY <5>2 DEF r, Idle
        <5>4. reader'[c] = r
          BY <1>0, <3>1
        <5>5. EstopUnderway'
          BY <5>3, <5>4 DEF EstopUnderway
        <5> QED
          BY <2>2, <4>1, <5>5 DEF StopInv, LiftedByArm
      <4>3. CASE ~(wd'.state = "LATCHED" /\ wd.state # "LATCHED")
        BY <2>2, <3>2, <4>1, <4>3, KeptStop
      <4> QED
        BY <4>2, <4>3
    <3> QED
      BY <3>3, <3>4
  <2> QED
    BY <2>3, <2>4
<1>13. ASSUME NEW c \in Clients, Apply(c)
       PROVE  StopInv' /\ LiftedByArm
  <2>1. /\ reader[c].order \in Orders /\ veh' \in Applied(veh, reader[c].order)
        /\ reader' = [reader EXCEPT ![c] = Again] /\ UNCHANGED <<wd, stopping>>
    BY <1>0, <1>13 DEF Apply, Readers
  <2>2. CASE reader[c].order = "estop"
    <3>1. ~veh'.moving /\ veh'.stopped = Latching
      BY <1>0, <2>1, <2>2, VehicleResults
    <3> QED
      BY <2>1, <3>1, LatchingAssumption DEF StopInv, LiftedByArm
  <2>3. CASE reader[c].order # "estop"
    <3>1. EstopUnderway => EstopUnderway'
      BY <1>0, <2>1, <2>3, UnderwayKept
    <3>2. /\ veh.stopped /\ Latching => veh'.stopped
          /\ veh.stopped /\ ~veh.moving => ~veh'.moving
          /\ veh'.stopped => veh.stopped
      BY <1>0, <2>1, <2>3, VehicleResults
    <3> QED
      BY <2>1, <3>1, <3>2 DEF StopInv, LiftedByArm
  <2> QED
    BY <2>2, <2>3
<1>14. CASE Poll
  <2>1. CASE Trips(wd)
    BY <1>0, <1>14, <2>1, StilledStop DEF Poll
  <2>2. CASE ~Trips(wd)
    <3>1. UNCHANGED <<wd, reader, stopping, veh>>
      BY <1>14, <2>2 DEF Poll, Check
    <3> QED
      BY <1>2, <3>1
  <2> QED
    BY <2>1, <2>2
<1>15. ASSUME NEW c \in Clients, SendFails(c)
       PROVE  StopInv' /\ LiftedByArm
  <2>1. EstopUnderway => EstopUnderway'
    BY <1>15 DEF SendFails, EstopUnderway
  <2> QED
    BY <1>15, <2>1, DropStop DEF SendFails
<1>16. CASE CheckFails
  <2>1. veh' = veh \/ veh' = Halted(veh)
    BY <1>16 DEF CheckFails
  <2>2. UNCHANGED <<wd, reader, stopping>>
    BY <1>16 DEF CheckFails
  <2> QED
    BY <1>0, <1>2, <2>1, <2>2, StilledStop
<1>17. CASE CheckPasses
  BY <1>2, <1>17 DEF CheckPasses
<1>18. CASE Stop
  BY <1>0, <1>18, StilledStop DEF Stop
<1>19. CASE Elapse
  <2>1. wd'.state = wd.state
    BY <1>0, <1>19 DEF Elapse, Aged, WatchdogStates
  <2>2. EstopUnderway => EstopUnderway'
    BY <1>19 DEF Elapse, EstopUnderway
  <2> QED
    BY <1>19, <2>1, <2>2, KeptStop DEF Elapse
<1>20. ASSUME NEW c \in Clients, Broadcasted(c)
       PROVE  StopInv' /\ LiftedByArm
  <2>1. reader[c].at # "apply" /\ UNCHANGED <<wd, stopping, veh>>
    BY <1>20 DEF Broadcasted, Broadcasts
  <2>2. PICK r : reader' = [reader EXCEPT ![c] = r]
    BY <1>20 DEF Broadcasted
  <2> QED
    BY <1>3, <2>1, <2>2
<1>21. CASE CloseLog
  BY <1>2, <1>21 DEF CloseLog
<1> QED
  BY <1>1, <1>4, <1>5, <1>6, <1>7, <1>8, <1>9, <1>10, <1>11, <1>12, <1>13, <1>14,
     <1>15, <1>16, <1>17, <1>18, <1>19, <1>20, <1>21 DEF Next, ReaderStep, TickStep

LEMMA InitStop == Init => StopInv
  BY NewWatchdogType DEF Init, StopInv, NewWatchdog

THEOREM SpecStopInv == Spec => []StopInv
<1>1. IInv /\ StopInv /\ [Next]_vars => StopInv'
  BY NextStop
<1> QED
  BY <1>1, InitStop, SpecIInv, PTL DEF Spec

\* With a vehicle that latches its stops, a latched or stopping daemon has a still
\* vehicle, whatever frames other threads still hold.
THEOREM SpecStopped == Spec => [](Latching => LatchedIsStopped /\ ShutdownIsStopped)
<1>1. StopInv => (Latching => LatchedIsStopped /\ ShutdownIsStopped)
  BY DEF StopInv, LatchedIsStopped, ShutdownIsStopped, EstopUnderway
<1> QED
  BY <1>1, SpecStopInv, PTL

\* The same of a daemon that is going down alone: once stop() has latched, no frame
\* a reader still holds moves a vehicle that latches its stops.
THEOREM SpecShutdownIsStopped == Spec => [](Latching => ShutdownIsStopped)
<1>1. StopInv => (Latching => ShutdownIsStopped)
  BY DEF StopInv, ShutdownIsStopped
<1> QED
  BY <1>1, SpecStopInv, PTL

\* A stop is lifted by a fresh arm and nothing else, by none while stopping.
THEOREM SpecOnlyArmLiftsStop == Spec => OnlyArmLiftsStop
<1>1. IInv /\ StopInv /\ [Next]_vars => [veh.stopped /\ ~veh'.stopped => Arms /\ ~stopping]_vars
  BY NextStop DEF LiftedByArm
<1> QED
  BY <1>1, SpecIInv, SpecStopInv, PTL DEF Spec, OnlyArmLiftsStop

------------------------------------------------------------------------------
(* The bridge refines SafetyLatch.                                            *)

\* The methods a frame does not go through latch, forget the letting go, or
\* leave mode and edge alone.
LEMMA QuietRefines ==
  ASSUME NEW w \in WatchdogStates
  PROVE  /\ Aged(w).state = w.state /\ Aged(w).prevArm = w.prevArm
         /\ Feed(w).state = w.state /\ Feed(w).prevArm = w.prevArm
         /\ LinkLost(w).prevArm /\ LinkLost(w).state \in {w.state, "LATCHED"}
         /\ \/ Check(w) = w
            \/ Check(w).prevArm /\ Check(w).state = "LATCHED"
<1>1. Latch(w).prevArm /\ Latch(w).state = "LATCHED"
  BY DEF Latch, WatchdogStates
<1>2. \/ Check(w) = w
      \/ Check(w).prevArm /\ Check(w).state = "LATCHED"
  BY <1>1 DEF Check
<1>3. LinkLost(w).prevArm /\ LinkLost(w).state \in {w.state, "LATCHED"}
  BY DEF LinkLost, Latch, WatchdogStates
<1> QED
  BY <1>2, <1>3 DEF Aged, Feed, WatchdogStates

\* A command frame: an emergency stop or a stall while driving is a Halt; a press
\* that is granted an Arm; a withdrawn green light a Withdraw; a frame without
\* arm a Release, or a Spend inside the hold window.
LEMMA TakenRefines ==
  ASSUME NEW w \in WatchdogStates, LiveWatchdog(w), NEW f, NEW ready \in BOOLEAN,
         f.arm \in BOOLEAN, f.estop \in BOOLEAN, f.zero \in BOOLEAN,
         NEW t, t = Taken(w, f, ready)
  PROVE  \/ t.prevArm /\ t.state = "LATCHED"
         \/ t.prevArm /\ t.state = w.state
         \/ t.prevArm /\ t.state = "DRIVING" /\ w.state # "DRIVING" /\ ~w.prevArm
         \/ t.prevArm /\ t.state = "STOPPED" /\ w.state = "DRIVING"
         \/ ~t.prevArm /\ t.state = IF w.state = "DRIVING" THEN "STOPPED" ELSE w.state
<1> DEFINE j == Judged(w)
           grant == Pressed(j, f.arm) /\ ready /\ f.zero
<1>1. /\ t.prevArm = (f.estop \/ f.arm \/ j.hold > 0)
      /\ t.state = IF f.estop THEN "LATCHED"
                   ELSE IF grant THEN "DRIVING"
                   ELSE IF j.state = "DRIVING" /\ ~(f.arm /\ ready) THEN "STOPPED"
                   ELSE j.state
  BY TakenRecord
<1>2. /\ j.hold = (IF Stalls(w) THEN Timeout ELSE w.hold)
      /\ j.state = (IF Stalls(w) /\ w.state = "DRIVING" THEN "LATCHED" ELSE w.state)
      /\ j.prevArm = (w.prevArm \/ (Stalls(w) /\ w.state = "DRIVING"))
  BY JudgedRecord
<1>3. grant => f.arm /\ ready /\ j.hold = 0 /\ ~j.prevArm
  BY DEF Pressed
<1>4. Timeout > 0 /\ w.state \in SafetyStates
  BY TimeoutAssumption DEF WatchdogStates
<1> HIDE DEF j, grant
<1>5. CASE f.estop
  BY <1>1, <1>5
<1>6. CASE ~f.estop /\ grant
  BY <1>1, <1>2, <1>3, <1>6
<1>7. CASE ~f.estop /\ ~grant
  <2>1. CASE Stalls(w) /\ w.state = "DRIVING"
    BY <1>1, <1>2, <1>4, <1>7, <2>1
  <2>2. CASE ~(Stalls(w) /\ w.state = "DRIVING")
    <3>1. j.state = w.state
      BY <1>2, <2>2
    <3>2. w.state = "DRIVING" => j.hold = 0
      BY <1>2, <2>2 DEF LiveWatchdog
    <3>3. CASE f.arm
      BY <1>1, <1>7, <3>1, <3>3
    <3>4. CASE ~f.arm
      BY <1>1, <1>7, <3>1, <3>2, <3>4
    <3> QED
      BY <3>3, <3>4
  <2> QED
    BY <2>1, <2>2
<1> QED
  BY <1>5, <1>6, <1>7

\* Every step of the daemon is a step of the abstract latch, or none.
LEMMA NextRefines == IInv /\ [Next]_vars => [Abstract!Next]_<<wd.state, ~wd.prevArm>>
<1> SUFFICES ASSUME IInv, [Next]_vars
             PROVE  [Abstract!Next]_<<wd.state, ~wd.prevArm>>
  OBVIOUS
<1>0. /\ wd \in WatchdogStates /\ LiveWatchdog(wd) /\ wd.prevArm \in BOOLEAN
      /\ wd.state \in SafetyStates
  BY DEF IInv, TypeOK, WatchdogStates
<1>1. ASSUME wd'.state = wd.state, wd'.prevArm = wd.prevArm
      PROVE  [Abstract!Next]_<<wd.state, ~wd.prevArm>>
  BY <1>1
<1>2. ASSUME wd'.prevArm, wd'.state \in {wd.state, "LATCHED"}
      PROVE  [Abstract!Next]_<<wd.state, ~wd.prevArm>>
  BY <1>2 DEF Abstract!Next, Abstract!Halt, Abstract!Spend
<1>3. ASSUME NEW c \in Clients, Drop(c)
      PROVE  [Abstract!Next]_<<wd.state, ~wd.prevArm>>
  <2>1. wd' = wd \/ wd' = LinkLost(wd)
    BY <1>3 DEF Drop
  <2> QED
    BY <1>0, <1>1, <1>2, <2>1, QuietRefines
<1>4. ASSUME NEW c \in Clients, Decide(c)
      PROVE  [Abstract!Next]_<<wd.state, ~wd.prevArm>>
  <2>1. /\ wd' = Taken(wd, reader[c].msg, reader[c].ready)
    BY <1>4 DEF Decide
  <2>2. /\ reader[c].msg.arm \in BOOLEAN /\ reader[c].msg.estop \in BOOLEAN
        /\ reader[c].msg.zero \in BOOLEAN /\ reader[c].ready \in BOOLEAN
        /\ wd' \in WatchdogStates
    BY <1>4, <2>1, FrameTaken
  <2>3. \/ wd'.prevArm /\ wd'.state = "LATCHED"
        \/ wd'.prevArm /\ wd'.state = wd.state
        \/ wd'.prevArm /\ wd'.state = "DRIVING" /\ wd.state # "DRIVING" /\ ~wd.prevArm
        \/ wd'.prevArm /\ wd'.state = "STOPPED" /\ wd.state = "DRIVING"
        \/ ~wd'.prevArm /\ wd'.state = IF wd.state = "DRIVING" THEN "STOPPED" ELSE wd.state
    BY <1>0, <2>1, <2>2, TakenRefines
  <2> QED
    BY <1>2, <2>3
       DEF Abstract!Next, Abstract!Arm, Abstract!Withdraw, Abstract!Release
<1>5. CASE UNCHANGED vars
  BY <1>1, <1>5 DEF vars
<1>6. ASSUME NEW c \in Clients, NEW m \in Messages, Receive(c, m) \/ Heartbeat(c, m)
      PROVE  [Abstract!Next]_<<wd.state, ~wd.prevArm>>
  <2>1. wd' = wd \/ wd' = Feed(wd)
    BY <1>6 DEF Receive, Heartbeat
  <2> QED
    BY <1>0, <1>1, <2>1, QuietRefines
<1>7. ASSUME NEW c \in Clients,
             \/ PeerGoes(c) \/ PeerSticks(c) \/ Connect(c) \/ Register(c) \/ RunPreflight(c)
             \/ Ignite(c) \/ Judge(c) \/ Broadcasted(c) \/ Apply(c) \/ SendTo(c)
      PROVE  [Abstract!Next]_<<wd.state, ~wd.prevArm>>
  <2>1. wd' = wd
    BY <1>7 DEF PeerGoes, PeerSticks, Connect, Register, RunPreflight, Ignite, Judge,
           Broadcasted, Apply, SendTo
  <2> QED
    BY <1>1, <2>1
<1>8. ASSUME NEW c \in Clients, Leave(c) \/ SendFails(c)
      PROVE  [Abstract!Next]_<<wd.state, ~wd.prevArm>>
  <2>1. Drop(c)
    BY <1>8 DEF Leave, SendFails
  <2> QED
    BY <1>3, <2>1
<1>9. CASE Poll
  BY <1>0, <1>1, <1>2, <1>9, QuietRefines DEF Poll
<1>10. CASE CheckFails \/ CheckPasses \/ Stop \/ CloseLog
  BY <1>1, <1>10 DEF CheckFails, CheckPasses, Stop, CloseLog
<1>11. CASE Elapse
  BY <1>0, <1>1, <1>11, QuietRefines DEF Elapse
<1> QED
  BY <1>4, <1>5, <1>6, <1>7, <1>8, <1>9, <1>10, <1>11 DEF Next, ReaderStep, TickStep

\* Motion needs a release and a press after whatever stopped it: the daemon, with
\* its threads, sessions and timers, implements the latch of watchdog.py's head.
THEOREM SpecRefinesLatch == Spec => RefinesLatch
<1>1. Init => Abstract!Init
  BY DEF Init, Abstract!Init, NewWatchdog
<1>2. IInv /\ [Next]_vars => [Abstract!Next]_<<wd.state, ~wd.prevArm>>
  BY NextRefines
<1> QED
  BY <1>1, <1>2, SpecIInv, PTL DEF Spec, RefinesLatch, Abstract!Spec

=============================================================================
