------------------------------- MODULE MCField -------------------------------
(* What moves, and what drives it, for TLC: a machine, a vehicle of the simulated
   fleet, the Nav2 bridge, the bench vehicle, the cockpit and the relay.  They
   share no state and are explored one by one: `part` names the one that runs,
   the others rest in an initial state. *)
EXTENDS Machine, FleetVehicle, Chassis, Bench, Cockpit, Relay

VARIABLE part

\* Machine: a simulated one, a ugv01, one that cannot report, one that carries a
\* driver this build has not got.
Body(locomotion, localization, comms, sensors) ==
    [locomotion |-> locomotion, localization |-> localization, comms |-> comms, sensors |-> sensors]
MCBodies ==
    {Body("simulated_locomotion", "dead_reckoning", "mqtt_comms", {"simulated_camera", "simulated_gnss"}),
     Body("ugv01_locomotion", "static_localization", "mqtt_comms", {"simulated_camera"}),
     Body("simulated_locomotion", "dead_reckoning", None, {}),
     Body("lidar_car", "dead_reckoning", "mqtt_comms", {})}
MCCarried == {"simulated_locomotion", "ugv01_locomotion", "static_localization", "mqtt_comms",
              "simulated_camera", "simulated_gnss"}
MCScripts == {[class |-> "person", off |-> 0, count |-> 2]}

\* FleetVehicle: a way there and back, a round of two laps, an order without a
\* route, one home and one the machine does not take.
MCJobs == {"go", "round", "stay", "home", "look"}
MCJobType ==
    [j \in MCJobs |-> CASE j = "go"    -> "goto"
                        [] j = "round" -> "patrol"
                        [] j = "stay"  -> "hold"
                        [] j = "home"  -> "return_home"
                        [] j = "look"  -> "survey"]
MCWaypoints == [j \in MCJobs |-> CASE j = "go" -> <<1, 0>> [] j = "round" -> <<0, 1>> [] OTHER -> <<>>]
MCJobLaps == [j \in MCJobs |-> IF j = "round" THEN 2 ELSE 1]

\* Chassis: nowhere, one point, two of them.
MCRoutes == {<<>>, <<<<1, 1>>>>, <<<<0, -1>>, <<-1, 0>>>>}

\* Bench: below, within and above what a throttle may be.
MCExtremes == {-1, 1, 3}
Numeral(n) == [is |-> "number", n |-> n]
Sends(throttle, steer, gear, ignition, estop) ==
    [throttle |-> throttle, steer |-> steer, gear |-> gear, ignition |-> ignition, estop |-> estop]
MCDriverFrames ==
    {Sends(Numeral(3), 1, "F", TRUE, FALSE), Sends(Numeral(1), -1, "R", TRUE, FALSE),
     Sends(Numeral(-1), 0, "F", TRUE, FALSE), Sends([is |-> "nan"], 0, "F", TRUE, FALSE),
     Sends([is |-> "text"], 1, "?", FALSE, FALSE), Sends(Numeral(1), 0, "R", TRUE, TRUE)}

------------------------------------------------------------------------------
Parts == {"machine", "fleet", "chassis", "bench", "cockpit", "relay"}

Init ==
    /\ part \in Parts
    /\ MachineInit /\ FleetInit /\ ChassisInit /\ BenchInit /\ CockpitInit /\ RelayInit
    /\ part # "machine" => body = CHOOSE b \in Bodies : TRUE
    /\ part # "chassis" => wheels = "simulated"
    /\ part # "cockpit" => onScreen

Only(p) ==
    /\ part = p /\ UNCHANGED part
    /\ p # "machine" => UNCHANGED machineVars
    /\ p # "fleet" => UNCHANGED fleet
    /\ p # "chassis" => UNCHANGED chassis
    /\ p # "bench" => UNCHANGED bench
    /\ p # "cockpit" => UNCHANGED cockpit
    /\ p # "relay" => UNCHANGED relay

Next ==
    \/ Only("machine") /\ MachineNext
    \/ Only("fleet") /\ FleetNext
    \/ Only("chassis") /\ ChassisNext
    \/ Only("bench") /\ BenchNext
    \/ Only("cockpit") /\ CockpitNext
    \/ Only("relay") /\ RelayNext

\* Each part keeps its own variables' types.
TypeOK ==
    CASE part = "machine" -> MachineOK
      [] part = "fleet"   -> FleetOK
      [] part = "chassis" -> ChassisOK
      [] part = "bench"   -> BenchOK
      [] part = "cockpit" -> CockpitOK
      [] part = "relay"   -> RelayOK

all == <<part, machineVars, fleet, chassis, bench, cockpit, relay>>
Spec == Init /\ [][Next]_all
=============================================================================
