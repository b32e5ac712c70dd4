------------------------------- MODULE MCSite -------------------------------
(* The site's server for TLC: what reaches TRACK and what it makes of it, and the
   voice service.  They share no state and are explored one by one: `part` names
   the one that runs, the others rest in an initial state. *)
EXTENDS HeldReports, LiveFeed, Contacts, Errands, Proposal, VoiceDesk, Systems, Tiles, TLC

VARIABLE part

\* HeldReports: a machine with more observations than it can hold, one whose
\* parts change too, and a fleet vehicle.
Load(program, observations, edits) == [program |-> program, reports |-> observations, parts |-> edits]
MCLoads == {Load("pilot", 3, 0), Load("pilot", 1, 2), Load("fleet", 2, 1)}

\* Contacts: a yard and its surroundings, two identities near each other or not.
MCArea == [z \in Zones |-> {0}]
MCRules == [z \in Zones |-> {"entry", "exit"}]
MCSeverity == [z \in Zones |-> 1]
MCSightings ==
    [entity : Entities, at : {0}, class : {"car"}, age : {0}] \cup
    [entity : Entities, at : {2}, class : {"unknown"}, age : {0, 3}]

\* Proposal: a square, an elbow with its notch, a triangle that alerts and a
\* shape that is none; orders that touch corners, run along edges, pass by.
Zone(type, alerts, ring, area) == [type |-> type, alerts |-> alerts, ring |-> ring, area |-> area]
Square == <<<<2, 1>>, <<4, 1>>, <<4, 3>>, <<2, 3>>>>
Elbow == <<<<1, 1>>, <<4, 1>>, <<4, 2>>, <<2, 2>>, <<2, 4>>, <<1, 4>>>>
ElbowArea == {<<<<1, 1>>, <<4, 1>>, <<4, 2>>, <<1, 2>>>>, <<<<1, 1>>, <<2, 1>>, <<2, 4>>, <<1, 4>>>>}
Triangle == <<<<3, 2>>, <<5, 4>>, <<3, 4>>>>
Line == <<<<0, 0>>, <<5, 5>>>>
MCZoneBook ==
    {Zone("restricted", FALSE, Square, {Square}), Zone("no_go", FALSE, Elbow, ElbowArea),
     Zone("no_go", TRUE, Triangle, {Triangle}), Zone("restricted", FALSE, Line, {Line})}
MCPlaces == {<<0, 0>>, <<0, 3>>}
MCOrders ==
    [type : {"goto"}, stops : {<<p>> : p \in {<<2, 3>>, <<5, 3>>, <<3, 0>>, <<4, 4>>}}] \cup
    {[type |-> "patrol", stops |-> <<<<5, 5>>, <<3, 0>>, <<0, 5>>>>]}
Standing(charge, autonomy, declared, types) ==
    [battery |-> charge, mode |-> autonomy, declared |-> declared, types |-> types]
MCStandings == {Standing("low", "manual", FALSE, {}), Standing("unknown", "guarded", TRUE, {"goto"})}
MCIssuers == {[person |-> TRUE, asked |-> TRUE], [person |-> FALSE, asked |-> TRUE],
              [person |-> TRUE, asked |-> FALSE]}

\* Voice: two machines whose names contain one another's, a third; profiles with
\* and without a cloud, and adapters that leave the machine or do not.
MCFleet == {[id |-> "m1", name |-> "scout 1"], [id |-> "m2", name |-> "scout 10"],
            [id |-> "m3", name |-> "mule"]}
MCLoose == {<<"scout", "scout 1">>, <<"scout", "scout 10">>, <<"scout 1", "scout 10">>}
Saying(kind, machine, task, place, readback) ==
    [kind |-> kind, machine |-> machine, task |-> task, place |-> place, readback |-> readback]
MCSayings == {Saying("order", "mule", "hold", NoName, TRUE), Saying("order", "scout", "navigate", "gate", TRUE),
              Saying("question", NoName, "", NoName, FALSE)}
MCProfile(cloud, understand, more) ==
    [cloud |-> cloud,
     adapters |-> "transcribe" :> <<"whisper_local">> @@ "speak" :> <<"piper_local">>
                    @@ "understand_order" :> understand @@ more]
MCProfiles == {MCProfile(FALSE, <<"llama_local">>, "see" :> <<"anthropic">>),
               MCProfile(TRUE, <<"anthropic", "llama_local">>, <<>>)}
MCBuilt == {"whisper_local", "piper_local", "anthropic", "llama_local"}
MCDoes == "whisper_local" :> {"transcribe"} @@ "piper_local" :> {"speak"}
            @@ [a \in {"anthropic", "llama_local"} |-> {"understand_order"}]
MCRemote == {{"anthropic"}}

\* Systems: nothing installed, wheels and a camera, two cameras alike.
Installed(name, kind, scans) == [name |-> name, kind |-> kind, scans |-> scans]
Camera == Installed("camera", "sensor", TRUE)
MCFittings == {<<>>, <<Installed("wheels", "locomotion", FALSE), Camera>>, <<Camera, Camera>>}

\* Tiles: zooms below, within and above what is served.
MCZooms == {-1, 0, 1, 3}

------------------------------------------------------------------------------
Parts == {"reports", "feed", "contacts", "errands", "proposal", "voice", "systems", "tiles"}

Init ==
    /\ part \in Parts
    /\ HeldInit /\ FeedInit /\ ContactsInit /\ ErrandsInit /\ ProposalInit /\ VoiceInit /\ SystemsInit /\ TilesInit
    /\ part # "reports" => load = CHOOSE l \in Loads : TRUE
    /\ part # "feed" => redis
    /\ part # "contacts" => drawn = {}
    /\ part # "errands" => ~suspends
    /\ part # "proposal" => standing = CHOOSE s \in Standings : TRUE
    /\ part # "voice" => profile = (CHOOSE p \in Profiles : TRUE)
    /\ part # "systems" => fitted = <<>>

Only(p) ==
    /\ part = p /\ UNCHANGED part
    /\ p # "reports" => UNCHANGED heldReports
    /\ p # "feed" => UNCHANGED feed
    /\ p # "contacts" => UNCHANGED contacts
    /\ p # "errands" => UNCHANGED errand
    /\ p # "proposal" => UNCHANGED proposal
    /\ p # "voice" => UNCHANGED voice
    /\ p # "systems" => UNCHANGED systems
    /\ p # "tiles" => UNCHANGED tiles

Next ==
    \/ Only("reports") /\ HeldNext
    \/ Only("feed") /\ FeedNext
    \/ Only("contacts") /\ ContactsNext
    \/ Only("errands") /\ ErrandsNext
    \/ Only("proposal") /\ ProposalNext
    \/ Only("voice") /\ VoiceNext
    \/ Only("systems") /\ SystemsNext
    \/ Only("tiles") /\ TilesNext

\* Each part keeps its own variables' types.
TypeOK ==
    CASE part = "reports"  -> HeldOK
      [] part = "feed"     -> FeedOK
      [] part = "contacts" -> ContactsOK
      [] part = "errands"  -> ErrandsOK
      [] part = "proposal" -> ProposalOK
      [] part = "voice"    -> VoiceOK
      [] part = "systems"  -> SystemsOK
      [] part = "tiles"    -> TilesOK

all == <<part, heldReports, feed, contacts, errand, proposal, voice, systems, tiles>>
Spec == Init /\ [][Next]_all

\* The fairness of the two parts whose liveness is checked, while it is their
\* turn.  A machine's two threads run, the broker delivers over a connection,
\* TRACK handles what it has; nobody owes a connection.  Time passes, the
\* watchdog ticks and the inbox task runs.
Reporting(A) == part = "reports" /\ A
Watching(A) == part = "contacts" /\ A
FairSpec ==
    /\ Spec
    /\ WF_heldReports(Reporting(OfferRegistry)) /\ WF_heldReports(Reporting(Describe \/ SendDescription))
    /\ WF_heldReports(Reporting(SendNow \/ Hold)) /\ WF_heldReports(Reporting(HeldThread))
    /\ WF_heldReports(Reporting(BrokerDelivers)) /\ WF_heldReports(Reporting(TrackHandles))
    /\ WF_contacts(Watching(Age)) /\ WF_contacts(Watching(Sweep))
    /\ WF_contacts(Watching(\E a \in owed : Alert(a)))
=============================================================================
