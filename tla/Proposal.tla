------------------------------ MODULE Proposal ------------------------------
(***************************************************************************)
(* What an operator reads before approving an order, and what is done with *)
(* the approval: preview_task and its checks, issue_task                   *)
(* (track/worldmodel.py), the geometry under the keep-out check            *)
(* (track/geo.py) and who the order is put down to (track/events.py).      *)
(*                                                                         *)
(* Degrees are the integers of a small grid: a point is <<longitude,       *)
(* latitude>>, and the one division of the code is multiplied out.         *)
(***************************************************************************)
EXTENDS Integers, Sequences, FiniteSets

CONSTANTS
    Places,    \* points a machine may be at
    ZoneBook,  \* zones somebody may create: [type, alerts, ring, area], where
               \* area, the same ground as convex rings, is for the reference
    MaxZones,  \* bound on the zones of the store
    Orders,    \* what may be asked: [type, stops]
    Standings, \* what the machine has said: [battery, mode, declared, types]
    Issuers    \* who asks: [person, asked], asked FALSE on a self-issued channel

ASSUME ProposalAssumption ==
    /\ \A s \in Standings : s.battery \in {"unknown", "enough", "low"}
    /\ Places \subseteq Int \X Int
    /\ \A o \in Orders : o.stops \in Seq(Int \X Int)
    /\ \A z \in ZoneBook : z.ring \in Seq(Int \X Int)

VARIABLES
    standing,  \* what the machine has declared, and its mode
    heard,     \* its last heartbeat: "never", "now", or "late"
    at,        \* where it said it was: <<>> before it has
    zones,     \* the zones of the store
    shown,     \* the proposal on the screen
    sent       \* the order issued on it

proposal == <<standing, heard, at, zones, shown, sent>>

------------------------------------------------------------------------------
(* geo.py.                                                                    *)

Orientation(a, b, c) == (b[1] - a[1]) * (c[2] - a[2]) - (b[2] - a[2]) * (c[1] - a[1])

Between(p, a, b) == (a <= p /\ p <= b) \/ (b <= p /\ p <= a)
InBox(p, a, b) == Between(p[1], a[1], b[1]) /\ Between(p[2], a[2], b[2])

Following(ring, i) == ring[(i % Len(ring)) + 1]

\* The edge from a to b is cut by the ray that leaves p to the east.
CutsRay(p, a, b) ==
    /\ (a[2] > p[2]) # (b[2] > p[2])
    /\ LET x == (p[1] - a[1]) * (b[2] - a[2])
           cross == (b[1] - a[1]) * (p[2] - a[2])
       IN  IF b[2] > a[2] THEN x < cross ELSE x > cross

PointInPolygon(p, ring) ==
    /\ Len(ring) >= 3
    /\ Cardinality({i \in DOMAIN ring : CutsRay(p, ring[i], Following(ring, i))}) % 2 = 1

\* The segments pass through each other.  (Variant of SegmentsMeet: a route
\* that grazes an edge does not meet it.)
SegmentsCross(p1, p2, q1, q2) ==
    LET o1 == Orientation(p1, p2, q1)  o2 == Orientation(p1, p2, q2)
        o3 == Orientation(q1, q2, p1)  o4 == Orientation(q1, q2, p2)
    IN  /\ 0 \notin {o1, o2, o3, o4}
        /\ (o1 > 0) # (o2 > 0)
        /\ (o3 > 0) # (o4 > 0)

Touches(c, a, b) == Orientation(a, b, c) = 0 /\ InBox(c, a, b)

SegmentsMeet(p1, p2, q1, q2) ==
    \/ SegmentsCross(p1, p2, q1, q2)
    \/ Touches(q1, p1, p2) \/ Touches(q2, p1, p2)
    \/ Touches(p1, q1, q2) \/ Touches(p2, q1, q2)

LegCrosses(a, b, ring) ==
    /\ Len(ring) >= 3
    /\ \/ PointInPolygon(a, ring) \/ PointInPolygon(b, ring)
       \/ \E i \in DOMAIN ring : SegmentsMeet(a, b, ring[i], Following(ring, i))

PathCrosses(path, ring) ==
    IF Len(path) = 1
      THEN PointInPolygon(path[1], ring)
      ELSE \E i \in 1..Len(path) - 1 : LegCrosses(path[i], path[i + 1], ring)

------------------------------------------------------------------------------
(* The proposal.                                                              *)

StartKnown == at # <<>>

\* Straight legs, from where the machine is; a patrol comes back.
Path(order) ==
    (IF StartKnown THEN <<at>> ELSE <<>>) \o order.stops
        \o (IF order.type = "patrol" /\ order.stops # <<>>
              THEN <<order.stops[1]>> ELSE <<>>)

IsKeepOut(zone) == zone.type \in {"restricted", "protected"} \/ zone.alerts

\* A zone of a kind this build does not know is an open question, and so is a
\* first leg nobody can see.
CheckKeepOut(path) ==
    LET crossed == {z \in zones : PathCrosses(path, z.ring)} IN
    IF \E z \in crossed : IsKeepOut(z) THEN "needs_you"
    ELSE IF crossed # {} \/ (zones # {} /\ ~StartKnown) THEN "unknown"
    ELSE "pass"

CheckAnswering == IF heard = "now" THEN "pass" ELSE "fail"

CheckBattery ==
    CASE standing.battery = "unknown" -> "unknown"
      [] standing.battery = "enough"  -> "pass"
      [] standing.battery = "low"     -> "needs_you"

CheckMode ==
    CASE standing.mode = "manual"    -> "pass"
      [] standing.mode = "automatic" -> "needs_you"
      [] OTHER                      -> "unknown"

CheckSupports(order) ==
    IF ~standing.declared THEN "unknown"
    ELSE IF order.type \in standing.types THEN "pass" ELSE "fail"

Checks(order) ==
    [answering |-> CheckAnswering, battery |-> CheckBattery, mode |-> CheckMode,
     supports |-> CheckSupports(order), keep_out |-> CheckKeepOut(Path(order))]

\* Only a "fail" stands in the way.
FirstFailure(checks) == \E c \in DOMAIN checks : checks[c] = "fail"

NoProposal == [order |-> <<>>]
NoOrder == [order |-> <<>>]

ProposalInit ==
    /\ standing \in Standings
    /\ heard = "never" /\ at = <<>>
    /\ zones = {}
    /\ shown = NoProposal /\ sent = NoOrder

HeardFrom(p) ==
    /\ heard' = "now" /\ at' = p
    /\ UNCHANGED <<standing, zones, shown, sent>>

FallsQuiet ==
    /\ heard = "now"
    /\ heard' = "late"
    /\ UNCHANGED <<standing, at, zones, shown, sent>>

DrawZone(z) ==
    /\ z \notin zones /\ Cardinality(zones) < MaxZones
    /\ zones' = zones \cup {z}
    /\ UNCHANGED <<standing, heard, at, shown, sent>>

\* What it is taken from is kept beside it, for the properties.
Preview(order) ==
    /\ shown' = [order |-> order, checks |-> Checks(order),
                 path |-> Path(order), zones |-> zones]
    /\ sent' = NoOrder
    /\ UNCHANGED <<standing, heard, at, zones>>

\* The name in the event feed, and the name on the order itself: nobody's if no
\* one was asked, or if no one is on record.
FeedNames(by) == IF ~by.asked THEN "nobody" ELSE IF by.person THEN "person" ELSE "nobody"
OrderNames(by) == IF by.person /\ by.asked THEN "person" ELSE "nobody"

\* The reason an order carries: none at all when nobody is on record.
Reason(by) ==
    IF ~by.asked THEN "ordered itself"
    ELSE IF OrderNames(by) = "nobody" THEN "none" ELSE "a person ordered it"

\* The checks are taken again, and an order is issued if nothing fails now.
Issue(by) ==
    /\ shown # NoProposal
    /\ LET checks == Checks(shown.order) IN
       /\ ~FirstFailure(checks)
       /\ sent' = [order |-> shown.order, checks |-> checks,
                   feed |-> FeedNames(by), name |-> OrderNames(by), reason |-> Reason(by)]
    /\ UNCHANGED <<standing, heard, at, zones, shown>>

ProposalNext ==
    \/ \E p \in Places : HeardFrom(p)
    \/ FallsQuiet
    \/ \E z \in ZoneBook : DrawZone(z)
    \/ \E o \in Orders : Preview(o)
    \/ \E by \in Issuers : Issue(by)

ProposalSpec == ProposalInit /\ [][ProposalNext]_proposal

------------------------------------------------------------------------------
States == {"pass", "needs_you", "unknown", "fail"}

ProposalOK ==
    /\ standing \in Standings
    /\ heard \in {"never", "now", "late"}
    /\ at \in Places \cup {<<>>}
    /\ zones \subseteq ZoneBook
    /\ shown # NoProposal => \A c \in DOMAIN shown.checks : shown.checks[c] \in States
    /\ sent # NoOrder => ~FirstFailure(sent.checks)

\* The reference: the points of each leg, Fine to a leg, against the convex
\* pieces of a zone.
CONSTANT Fine

Scaled(k, p) == <<k * p[1], k * p[2]>>
Sample(a, b, k) == <<(Fine - k) * a[1] + k * b[1], (Fine - k) * a[2] + k * b[2]>>

Turns(p, ring) == {Orientation(Scaled(Fine, ring[i]), Scaled(Fine, Following(ring, i)), p) : i \in DOMAIN ring}
Holds(p, ring) == (\A t \in Turns(p, ring) : t >= 0) \/ (\A t \in Turns(p, ring) : t <= 0)

Enters(path, zone) ==
    /\ Len(zone.ring) >= 3
    /\ \E i \in 1..Len(path) - 1, k \in 0..Fine, piece \in zone.area :
           Holds(Sample(path[i], path[i + 1], k), piece)

\* A proposal never calls a route clear that enters a zone, edges included, and
\* never leaves open ("unknown") a route that enters a place it must stay out
\* of: whatever corner, edge or vertex the legs pass through
\* (geo.py:82-85, worldmodel.py:868-916).
KeepOutIsHonest ==
    shown # NoProposal =>
        LET entered == {z \in shown.zones : Enters(shown.path, z)} IN
        /\ shown.checks.keep_out = "pass" => entered = {}
        /\ shown.checks.keep_out = "unknown" => ~\E z \in entered : IsKeepOut(z)

\* What the operator approved is what they were shown: an order that crosses a
\* place it must stay out of was shown to (worldmodel.py:104-106, "the operator's
\* call, which they made when they approved").
ApprovedAsShown ==
    sent # NoOrder =>
        (sent.checks.keep_out = "needs_you" => shown.checks.keep_out = "needs_you")

=============================================================================
