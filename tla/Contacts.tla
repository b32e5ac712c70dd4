------------------------------- MODULE Contacts -------------------------------
(***************************************************************************)
(* What machines see, fused into contacts: track/fusion.py, track/zones.py *)
(* and the observation handler and the sweep of track/worldmodel.py, over  *)
(* the tables of track/store.py.                                           *)
(*                                                                         *)
(* A track is numbered in the order of creation.  Spots are points of a   *)
(* line, times are ages in steps of one unit, counted from the moment a    *)
(* thing was observed: an observation that was held back arrives with an   *)
(* age.  Confidence, velocity, attributes and wording are left out.        *)
(***************************************************************************)
EXTENDS Naturals, Sequences, FiniteSets

CONSTANTS
    Entities,       \* identities machines report
    Spots,          \* positions, natural numbers
    Classes,        \* what an entity can be said to be, "unknown" included
    Zones,          \* the zones an administrator may draw
    Area,           \* per zone, the places inside it
    Rules,          \* per zone, its rules: a subset of {"entry", "exit"}
    Severity,       \* per zone, the threat level its entry rule names, 0 for none
    Sightings,      \* the observations that may arrive: [entity, at, class, age]
    MaxSeen,        \* bound on the observations that do
    AssocDistance,  \* assoc_max_distance_m
    AssocAge,       \* assoc_max_age_s
    LostAfter,      \* track_lost_after_s
    CloseAfter,     \* track_close_after_s
    Window          \* list_tracks' limit, 500

MaxAge == CloseAfter + 1

ASSUME ContactsAssumption ==
    /\ Spots \subseteq Nat /\ "unknown" \in Classes /\ IsFiniteSet(Zones)
    /\ Area \in [Zones -> SUBSET Spots] /\ Rules \in [Zones -> SUBSET {"entry", "exit"}]
    /\ Severity \in [Zones -> Nat]
    /\ {MaxSeen, AssocDistance, AssocAge, LostAfter, CloseAfter, Window} \subseteq Nat
    /\ LostAfter < CloseAfter
    /\ Sightings \subseteq [entity : Entities, at : Spots, class : Classes, age : 0..MaxAge]

VARIABLES
    tracks,   \* the tracks, in order of creation
    rank,     \* per track, where it stands in the list, the one written last first
    known,    \* per identity, the class on its entity's row, "none" without a row
    alias,    \* per identity, the identity it resolves to
    drawn,    \* the zones there are
    inside,   \* per track, the zones it is recorded in
    owed,     \* alerts of the observation being handled, not yet in the feed
    fed,      \* per track and zone, the last alert in the feed
    seen,     \* observations so far
    crashed   \* TRACK has been killed between an observation and its alerts

contacts == <<tracks, rank, known, alias, drawn, inside, owed, fed, seen, crashed>>

Ids == 1..MaxSeen
Tracked == [state : {"active", "lost", "closed"}, entity : Entities, at : Spots,
            age : 0..MaxAge, threat : Nat]
Alerts == [kind : {"entry", "exit"}, track : Ids, zone : Zones]

ContactsOK ==
    /\ tracks \in Seq(Tracked) /\ Len(tracks) <= seen
    /\ rank \in [DOMAIN tracks -> Ids]
    /\ known \in [Entities -> Classes \cup {"none"}]
    /\ alias \in [Entities -> Entities]
    /\ drawn \in SUBSET Zones
    /\ inside \in [Ids -> SUBSET Zones]
    /\ owed \in SUBSET Alerts
    /\ fed \in [Ids \X Zones -> {"none", "entry", "exit"}]
    /\ seen \in 0..MaxSeen /\ crashed \in BOOLEAN

ContactsInit ==
    /\ tracks = <<>> /\ rank = <<>>
    /\ known = [e \in Entities |-> "none"] /\ alias = [e \in Entities |-> e]
    /\ drawn \in SUBSET Zones /\ inside = [t \in Ids |-> {}]
    /\ owed = {} /\ fed = [x \in Ids \X Zones |-> "none"]
    /\ seen = 0 /\ crashed = FALSE

------------------------------------------------------------------------------
(* The store.                                                                 *)

Live == {t \in DOMAIN tracks : tracks[t].state # "closed"}

\* list_tracks of the states that are not closed, up to its limit.
Listed == {t \in Live : Cardinality({u \in Live : rank[u] < rank[t]}) < Window}

\* put_track moves a track it writes to the front: here some are written, the one
\* furthest down the list last.
Written(some, before) ==
    [t \in DOMAIN before |->
        IF t \in some THEN Cardinality({u \in some : before[u] >= before[t]})
        ELSE before[t] + Cardinality({u \in some : before[u] > before[t]})]

\* resolve_entity takes one step, along the row there is.
Resolve(e) == alias[e]

------------------------------------------------------------------------------
(* Association.                                                               *)

Apart(x, y) == IF x < y THEN y - x ELSE x - y

ClassesCompatible(a, b) == a = b \/ {a, b} \cap {"unknown", "none"} # {}

\* The tracks an observation could belong to: near enough, seen at about the
\* same time, and not known to be something else.  (Variant: whatever they are.)
CouldBe(s, t) ==
    /\ ClassesCompatible(s.class, known[tracks[t].entity])
    /\ Apart(s.age, tracks[t].age) <= AssocAge
    /\ Apart(s.at, tracks[t].at) <= AssocDistance

\* The nearest of them; of two as near, the one further down the list.
Nearest(s) ==
    LET fits == {t \in Listed : CouldBe(s, t)}
        nearest == {t \in fits : \A u \in fits :
                        Apart(s.at, tracks[t].at) <= Apart(s.at, tracks[u].at)}
    IN {t \in nearest : \A u \in nearest : rank[u] <= rank[t]}

\* Identity comes first: the tracks of the identity this one resolves to, the
\* most recently written of them.  (Variant: those still active, by the identity
\* as reported.)
SameReported(s) == {t \in Listed : tracks[t].entity = s.entity /\ tracks[t].state = "active"}
SameIdentity(s) ==
    LET same == {t \in Listed : tracks[t].entity = Resolve(s.entity)}
    IN {t \in same : \A u \in same : rank[t] <= rank[u]}

------------------------------------------------------------------------------
(* Zones.                                                                     *)

ZonesAt(place) == {z \in drawn : place \in Area[z]}

\* evaluate: what changed, of a track now at a place.
Entered(t, place) == ZonesAt(place) \ inside[t]
Exited(t, place) == inside[t] \ ZonesAt(place)

AlertsOf(t, place) ==
    [kind : {"entry"}, track : {t}, zone : {z \in Entered(t, place) : "entry" \in Rules[z]}]
    \cup [kind : {"exit"}, track : {t}, zone : {z \in Exited(t, place) : "exit" \in Rules[z]}]

Highest(levels) == CHOOSE l \in levels : \A k \in levels : k <= l

\* A threat level is raised by the zones entered, never lowered.
Threat(t, place, before) ==
    Highest({before} \cup {Severity[z] : z \in {y \in Entered(t, place) : "entry" \in Rules[y]}})

\* Membership is written whole when it changed.
Members(t, place) == ZonesAt(place)

------------------------------------------------------------------------------
(* on_observation, up to its first await.                                     *)

\* A specific class is never overwritten by "unknown".
Classified(before, said) == IF said # "unknown" \/ before = "none" THEN said ELSE before

Evaluate(t, place) ==
    /\ inside' = [inside EXCEPT ![t] = Members(t, place)]
    /\ owed' = AlertsOf(t, place)

\* _create: a track, and a fresh row for the identity as reported.
Create(s) ==
    LET t == Len(tracks) + 1
        track == [state |-> "active", entity |-> s.entity, at |-> s.at, age |-> s.age,
                  threat |-> Threat(t, s.at, 0)]
    IN /\ SameIdentity(s) = {} /\ Nearest(s) = {}
       /\ tracks' = Append(tracks, track)
       /\ rank' = Written({t}, Append(rank, t))
       /\ known' = [known EXCEPT ![s.entity] = s.class]
       /\ Evaluate(t, s.at)
       /\ UNCHANGED alias

\* _update: the observation taken last is where the track is, however old it is.
Update(t, s) ==
    LET e == tracks[t].entity IN
    /\ tracks' = [tracks EXCEPT ![t] = [@ EXCEPT !.state = "active", !.at = s.at, !.age = s.age,
                                                 !.threat = Threat(t, s.at, tracks[t].threat)]]
    /\ rank' = Written({t}, rank)
    /\ known' = [known EXCEPT ![e] = Classified(@, s.class)]
    /\ Evaluate(t, s.at)

\* Matched by identity ...
UpdateSame(s) ==
    \E t \in SameIdentity(s) : Update(t, s) /\ UNCHANGED alias

\* ... or by where it is: from now on the reported identity stands for the
\* track's.
UpdateNearest(s) ==
    /\ SameIdentity(s) = {}
    /\ \E t \in Nearest(s) :
          /\ Update(t, s)
          /\ alias' = [alias EXCEPT ![s.entity] = IF tracks[t].entity = s.entity
                                                  THEN @ ELSE tracks[t].entity]

\* The inbox is drained by one task, which is done with one before the next.
Observe(s) ==
    /\ owed = {} /\ seen < MaxSeen
    /\ UpdateSame(s) \/ UpdateNearest(s) \/ Create(s)
    /\ seen' = seen + 1
    /\ UNCHANGED <<drawn, fed, crashed>>

\* ... after its awaits: the event of an alert.
Alert(a) ==
    /\ owed' = owed \ {a}
    /\ fed' = [fed EXCEPT ![<<a.track, a.zone>>] = a.kind]
    /\ UNCHANGED <<tracks, rank, known, alias, drawn, inside, seen, crashed>>

\* TRACK restarts: the store is all it keeps.
RestartTrack ==
    /\ owed # {} /\ ~crashed
    /\ owed' = {} /\ crashed' = TRUE
    /\ UNCHANGED <<tracks, rank, known, alias, drawn, inside, fed, seen>>

------------------------------------------------------------------------------
(* Time and the sweep.                                                        *)

\* Time passes; the sweep comes round well before the next unit has.
Age ==
    /\ \A t \in Live : tracks[t].age <= CloseAfter
    /\ Live # {}
    /\ tracks' = [t \in DOMAIN tracks |->
                     IF t \in Live THEN [tracks[t] EXCEPT !.age = @ + 1] ELSE tracks[t]]
    /\ UNCHANGED <<rank, known, alias, drawn, inside, owed, fed, seen, crashed>>

\* The state a track's age gives it.  (Variant: lost comes before closed.)
LostFirst(track) ==
    IF track.age > LostAfter THEN "lost"
    ELSE IF track.age > CloseAfter THEN "closed" ELSE track.state
AgedState(track) ==
    IF track.age > CloseAfter THEN "closed"
    ELSE IF track.age > LostAfter THEN "lost" ELSE track.state

Stale == {t \in Listed : AgedState(tracks[t]) # tracks[t].state}

\* sweep writes the tracks whose state changed, in the order listed.  It keeps the
\* age of its last observation, whatever the age of its row.
Sweep ==
    /\ Stale # {}
    /\ tracks' = [t \in DOMAIN tracks |->
                     IF t \in Stale THEN [tracks[t] EXCEPT !.state = AgedState(tracks[t])]
                     ELSE tracks[t]]
    /\ rank' = Written(Stale, rank)
    /\ UNCHANGED <<known, alias, drawn, inside, owed, fed, seen, crashed>>

\* An administrator draws a zone; what is inside it is found out as it is seen.
CreateZone(z) ==
    /\ z \notin drawn
    /\ drawn' = drawn \cup {z}
    /\ UNCHANGED <<tracks, rank, known, alias, inside, owed, fed, seen, crashed>>

------------------------------------------------------------------------------
ContactsNext ==
    \/ \E s \in Sightings : Observe(s)
    \/ \E a \in owed : Alert(a)
    \/ \E z \in Zones : CreateZone(z)
    \/ Age \/ Sweep \/ RestartTrack

ContactsSpec == ContactsInit /\ [][ContactsNext]_contacts

------------------------------------------------------------------------------
(* Properties.                                                                *)

\* An identity that has never been taken for another is followed by one track
\* at a time (_find_track_for: identity before geometry).
OneTrackPerIdentity ==
    \A t, u \in Live :
        tracks[t].entity = tracks[u].entity /\ alias[tracks[t].entity] = tracks[t].entity => t = u

\* What the code says of identities, without that exception (fusion.py:154).
\* The code does not have this one: once the track of the identity it was taken
\* for has closed, an identity can get a second track (four observations show it).
IdentityFirst == \A t, u \in Live : tracks[t].entity = tracks[u].entity => t = u

\* Once its alerts are out, the feed and the zone table tell the same of every
\* track, in zones that alert both ways and unless TRACK died in between
\* (zones.py evaluate, worldmodel.py on_observation).
FeedTellsWhere ==
    owed = {} /\ ~crashed =>
        \A t \in Ids, z \in Zones :
            Rules[z] = {"entry", "exit"} => (z \in inside[t] <=> fed[<<t, z>>] = "entry")

\* A track nobody observes any more is closed in the end, lost in between or
\* not (fusion.py last_observed_at, sweep).
UnseenTracksClose == \A t \in Ids : t \in Live ~> t \in DOMAIN tracks /\ t \notin Live

=============================================================================
