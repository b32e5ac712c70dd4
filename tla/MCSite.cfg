CONSTANTS
    Writers = {w1, w2}
    MaxRev = 3
    Room = 2
    Entities = {e1, e2}
    Spots = {0, 1, 2}
    Classes = {"unknown", "car"}
    Zones = {"yard"}
    Area <- MCArea
    Rules <- MCRules
    Severity <- MCSeverity
    Sightings <- MCSightings
    MaxSeen = 3
    AssocDistance = 1
    AssocAge = 2
    LostAfter = 1
    CloseAfter = 3
    Window = 3
    Machines = {m1, m2}
    Sights = {c1}
    Requests = {r1}
    NoSight = NoSight
    MaxErrands = 2
    Places <- MCPlaces
    ZoneBook <- MCZoneBook
    MaxZones = 2
    Orders <- MCOrders
    Standings <- MCStandings
    Issuers <- MCIssuers
    Fine = 6
    Callers = {"ann", "bob"}
    Fleet <- MCFleet
    PlaceNames = {"gate", "yard"}
    Loose <- MCLoose
    Sayings <- MCSayings
    Profiles <- MCProfiles
    Built <- MCBuilt
    Does <- MCDoes
    Remote <- MCRemote
    MaxAsks = 1
    MaxChanges = 1
    MaxReplies = 2
    Ttl = 1
    Fittings <- MCFittings
    Names = {"a"}
    MaxSaid = 2
    Layers = {"site", "coast"}
    MaxFiles = 2
    Zooms <- MCZooms
    ZoomCeiling = 2
    Loads <- MCLoads
    MaxCuts = 1
    HeldLimit = 2
    InboxLimit = 1
SPECIFICATION FairSpec
CHECK_DEADLOCK FALSE
INVARIANTS TypeOK NothingLost NewestIsKept OneTrackPerIdentity SwitchWithdraws
INVARIANTS KeepOutIsHonest OneOrderPerReadback TroubleIsShown
PROPERTIES OneMachinePerContact TrackLearns UnseenTracksClose WithdrawnIsGone
