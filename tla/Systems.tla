-------------------------------- MODULE Systems --------------------------------
(***************************************************************************)
(* What TRACK tells an operator about a machine's own systems              *)
(* (track/worldmodel.py, systems_view): the machine's registry of drivers  *)
(* (hal/registry.py), the mirror of it in the store (put_payload) and in   *)
(* the machine's capabilities, and the rows drawn from them.               *)
(*                                                                         *)
(* How a report travels is HeldReports; here it is handled when it is      *)
(* made.  Of a payload the model keeps the registry and one more key.      *)
(***************************************************************************)
EXTENDS Naturals, Sequences

CONSTANTS
    Fittings,   \* the possible machines: per installed driver, its [name, kind, scans]
    Names,      \* names the machine's manifest or an administrator may give
    MaxSaid     \* bound on the payloads handled

ASSUME SystemsAssumption ==
    /\ Fittings \subseteq Seq([name : STRING, kind : STRING, scans : BOOLEAN])
    /\ MaxSaid \in Nat

VARIABLES
    fitted,     \* the drivers this machine booted with, in order
    works,      \* per driver: "well", "ill", or "mute" when asking it fails
    found,      \* per driver, whether its scan finds its device: TRUE, FALSE, or nothing said
    listed,     \* the stored payload: key -> value, empty before the first
    received,   \* when it was last written, counted in payloads
    called,     \* the name in the machine's capabilities, "" for none
    heardLast,  \* the last heartbeat: "never", "lately", "long ago"
    online,     \* the asset's status is not OFFLINE
    said        \* the registry the machine last told TRACK, empty before the first

systems == <<fitted, works, found, listed, received, called, heardLast, online, said>>

Drivers == DOMAIN fitted
Empty == <<>>
Unsaid == "unsaid"

SystemsOK ==
    /\ fitted \in Fittings
    /\ works \in [Drivers -> {"well", "ill", "mute"}]
    /\ found \in [Drivers -> {"yes", "no", Unsaid}]
    /\ DOMAIN listed \subseteq {"registry", "extra"}
    /\ received \in 0..MaxSaid
    /\ called \in Names \cup {""}
    /\ heardLast \in {"never", "lately", "long ago"} /\ online \in BOOLEAN

SystemsInit ==
    /\ fitted \in Fittings
    /\ works = [d \in Drivers |-> "well"]
    /\ found = [d \in Drivers |-> "yes"]
    /\ listed = Empty /\ received = 0 /\ called = ""
    /\ heardLast = "never" /\ online = TRUE /\ said = Empty

------------------------------------------------------------------------------
(* The machine.                                                               *)

WorksDifferently(d) ==
    /\ \E state \in {"well", "ill", "mute"} \ {works[d]} : works' = [works EXCEPT ![d] = state]
    /\ UNCHANGED <<fitted, found, listed, received, called, heardLast, online, said>>

FindsDifferently(d) ==
    /\ fitted[d].scans
    /\ \E state \in {"yes", "no", Unsaid} \ {found[d]} : found' = [found EXCEPT ![d] = state]
    /\ UNCHANGED <<fitted, works, listed, received, called, heardLast, online, said>>

\* Registry.health: a driver that cannot answer is not healthy.
Health == [d \in Drivers |-> [driver |-> fitted[d].name, healthy |-> works[d] = "well"]]

\* Registry.devices: only a driver that can scan lists any.
Devices ==
    LET scanning == SelectSeq([d \in Drivers |-> [driver |-> fitted[d], present |-> found[d]]],
                              LAMBDA device : device.driver.scans)
    IN  [i \in DOMAIN scanning |-> [driver |-> scanning[i].driver.name,
                                    present |-> scanning[i].present]]

Snapshot(name) == [name |-> name, drivers |-> fitted, devices |-> Devices, health |-> Health]

\* What a machine without the runtime declares: its manifest and nothing else.
Declaration(name) == [name |-> name, drivers |-> <<>>, devices |-> <<>>, health |-> <<>>]

------------------------------------------------------------------------------
(* TRACK takes it in.                                                         *)

\* Store.put_payload: merged, key by key.  (Variant: it replaces the row.)
Merged(old, new) ==
    [key \in DOMAIN old \cup DOMAIN new |-> IF key \in DOMAIN new THEN new[key] ELSE old[key]]
Replaced(old, new) == new
PutPayload(old, new) == Merged(old, new)

Absorb(payload) ==
    /\ received < MaxSaid
    /\ received' = received + 1
    /\ listed' = PutPayload(listed, payload)
    /\ UNCHANGED <<fitted, works, found, heardLast, online>>

\* A registry also gives the machine its name.
OnRegistry(registry) ==
    /\ Absorb([registry |-> registry])
    /\ called' = registry.name
    /\ said' = registry

OnTelemetry ==
    \/ \E name \in Names : OnRegistry(Snapshot(name))
    \/ \E name \in Names : fitted = <<>> /\ OnRegistry(Declaration(name))
    \/ Absorb([extra |-> received]) /\ UNCHANGED <<called, said>>

\* upsert_asset: an administrator's note about the machine.
UpsertAsset(name) ==
    /\ called' = name
    /\ UNCHANGED <<fitted, works, found, listed, received, heardLast, online, said>>

OnHeartbeat ==
    /\ heardLast' = "lately" /\ online' = TRUE
    /\ UNCHANGED <<fitted, works, found, listed, received, called, said>>

\* ANSWERING_WINDOW_S passes; the watchdog's own limit is longer.
QuietFor ==
    /\ heardLast = "lately" /\ heardLast' = "long ago"
    /\ UNCHANGED <<fitted, works, found, listed, received, called, online, said>>

DeclaredLost ==
    /\ heardLast = "long ago" /\ online
    /\ online' = FALSE
    /\ UNCHANGED <<fitted, works, found, listed, received, called, heardLast, said>>

SystemsNext ==
    \/ \E d \in Drivers : WorksDifferently(d) \/ FindsDifferently(d)
    \/ OnTelemetry
    \/ \E name \in Names : UpsertAsset(name)
    \/ OnHeartbeat \/ QuietFor \/ DeclaredLost

SystemsSpec == SystemsInit /\ [][SystemsNext]_systems

------------------------------------------------------------------------------
(* systems_view.                                                              *)

ControlLink == IF heardLast = "lately" /\ online THEN "ok" ELSE "off"

\* get_registry: nothing before the machine has described itself.
Described == "registry" \in DOMAIN listed
Registry == IF Described THEN listed["registry"] ELSE Declaration("")

\* health is looked up by the driver's name, the last entry of a name wins.
Entry(driver) ==
    LET named == {i \in DOMAIN Registry.health : Registry.health[i].driver = driver.name}
    IN  IF named = {} THEN Unsaid
        ELSE LET last == CHOOSE i \in named : \A j \in named : j <= i
             IN  IF Registry.health[last].healthy THEN "healthy" ELSE "unhealthy"

HardwareMissing(driver) ==
    \E i \in DOMAIN Registry.devices :
        Registry.devices[i].driver = driver.name /\ Registry.devices[i].present = "no"

State(driver) ==
    CASE Entry(driver) = Unsaid      -> "unknown"
      [] Entry(driver) = "unhealthy" -> "act"
      [] OTHER -> IF HardwareMissing(driver) THEN "warn" ELSE "ok"

\* One row a driver, numbered where a kind occurs twice.
Row(d) ==
    LET kind == Registry.drivers[d].kind
        alike == {e \in DOMAIN Registry.drivers : Registry.drivers[e].kind = kind}
        before == {e \in alike : e <= d}
    IN  [kind |-> kind, n |-> IF alike = {d} THEN {} ELSE before,
         state |-> State(Registry.drivers[d])]

Rows == [d \in DOMAIN Registry.drivers |-> Row(d)]

\* A camera is the device of a driver that declares images: here, of a sensor.
IsCamera(device) ==
    \E d \in DOMAIN Registry.drivers :
        Registry.drivers[d].name = device.driver /\ Registry.drivers[d].kind = "sensor"

Shown == [yes |-> "ok", no |-> "off", unsaid |-> "unknown"]

\* One a camera, by its place among the devices.
Cameras ==
    [i \in {i \in DOMAIN Registry.devices : IsCamera(Registry.devices[i])} |->
        Shown[Registry.devices[i].present]]

View == [link |-> ControlLink, described |-> Described, rows |-> Rows, cameras |-> Cameras]

------------------------------------------------------------------------------
(* Properties.                                                                *)

Alone(d) == \A e \in DOMAIN said.drivers \ {d} : said.drivers[e].name # said.drivers[d].name
MissesOwn(d) ==
    \E i \in DOMAIN said.devices :
        said.devices[i].driver = said.drivers[d].name /\ said.devices[i].present = "no"

\* Whatever a machine sent since, in whatever order, its rows tell the trouble it
\* last reported: a driver that is not healthy asks for action, one whose
\* hardware is missing warns, a missing camera is off, and none of the machine's
\* drivers is left out.
TroubleIsShown ==
    said # Empty =>
        /\ View.described /\ DOMAIN View.rows = DOMAIN said.drivers
        /\ \A d \in DOMAIN said.drivers : Alone(d) =>
              /\ ~said.health[d].healthy => View.rows[d].state = "act"
              /\ said.health[d].healthy /\ MissesOwn(d) => View.rows[d].state = "warn"
              /\ said.drivers[d].kind = "sensor" /\ MissesOwn(d) =>
                    \E i \in DOMAIN View.cameras : View.cameras[i] = "off"

\* "Two of a kind are numbered so neither disappears behind the other"
\* (worldmodel.py): a part whose driver is not healthy asks for action also when
\* the machine carries two of it.
NeitherHidesTheOther ==
    said # Empty =>
        \A d \in DOMAIN said.drivers :
            ~said.health[d].healthy => View.rows[d].state = "act"

=============================================================================
