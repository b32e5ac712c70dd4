----------------------------- MODULE SiteProofs -----------------------------
(***************************************************************************)
(* What the site's server promises, for the people and applications in     *)
(* front of it and of the world it keeps.                                  *)
(*                                                                         *)
(* For any number of writers, queue, directory, operators, adapters and    *)
(* drivers: the live feed keeps the newest update, a withdrawn imagery     *)
(* file is never served again, a readback is worth one order at most,      *)
(* whoever answers it and however often, the gateway's check says what its *)
(* choice of an adapter then does, and a machine's rows tell its trouble.  *)
(*                                                                         *)
(* The feed, the zone table and the tracks for any sightings, identities   *)
(* and zones; the machines sent to look, for any machines, contacts and    *)
(* requests; the reports a machine holds on their way to TRACK, for any    *)
(* loads, limits and cuts; the geometry under the keep-out check for any   *)
(* points, routes and rings.                                               *)
(***************************************************************************)
EXTENDS MCSite, FiniteSetTheorems, WellFoundedInduction, TLAPS

------------------------------------------------------------------------------
(* The live feed.                                                             *)

\* Nothing counts as told to an application that has not subscribed.
FeedInv == FeedOK /\ NewestIsKept /\ (client # "open" => told = 0)

\* A delivery leaves the update last in the queue, and the queue within its room.
LEMMA DeliveredIsLast ==
  ASSUME NEW q \in Seq(Revs \ {0}), Len(q) <= Room, NEW r \in Revs \ {0}
  PROVE  /\ Enqueue(q, r) \in Seq(Revs \ {0}) /\ Len(Enqueue(q, r)) \in 1..Room
         /\ Enqueue(q, r)[Len(Enqueue(q, r))] = r
<1>1. Room \in Nat \ {0}
  BY FeedAssumption
<1>2. CASE Len(q) < Room
  <2>1. Enqueue(q, r) = Append(q, r)
    BY <1>2 DEF Enqueue, Deliver
  <2> QED
    BY <1>1, <1>2, <2>1
<1>3. CASE ~(Len(q) < Room)
  <2>1. Enqueue(q, r) = Append(Tail(q), r)
    BY <1>3 DEF Enqueue, Deliver
  <2>2. q # <<>> /\ Len(q) = Room
    BY <1>1, <1>3
  <2>3. Tail(q) \in Seq(Revs \ {0}) /\ Len(Tail(q)) = Room - 1
    BY <1>1, <2>2
  <2> QED
    BY <1>1, <2>1, <2>3
<1> QED
  BY <1>2, <1>3

\* What a delivery does to the application's side, whatever step makes it.
LEMMA DeliveryKeeps ==
  ASSUME FeedInv, NEW r \in Revs \ {0}, DeliverToAll(r), UNCHANGED <<client, view>>
  PROVE  /\ queue' \in Seq(Revs \ {0}) /\ Len(queue') <= Room
         /\ told' \in Revs /\ missed' \in BOOLEAN
         /\ NewestIsKept' /\ (client' # "open" => told' = 0)
<1>1. CASE client = "open"
  <2>1. queue' = Enqueue(queue, r) /\ told' = r /\ missed' = missed /\ client' = client
    BY <1>1 DEF DeliverToAll
  <2>2. /\ Enqueue(queue, r) \in Seq(Revs \ {0}) /\ Len(Enqueue(queue, r)) \in 1..Room
        /\ Enqueue(queue, r)[Len(Enqueue(queue, r))] = r
    BY DeliveredIsLast DEF FeedInv, FeedOK
  <2>3. queue' # <<>>
    BY <2>1, <2>2
  <2> QED
    BY <1>1, <2>1, <2>2, <2>3, FeedAssumption DEF FeedInv, FeedOK, NewestIsKept
<1>2. CASE client # "open"
  BY <1>2 DEF DeliverToAll, FeedInv, FeedOK, NewestIsKept
<1> QED
  BY <1>1, <1>2

LEMMA InitFeedInv == FeedInit => FeedInv
<1> SUFFICES ASSUME FeedInit PROVE FeedInv
  OBVIOUS
<1>1. 0 \in Revs /\ Room \in Nat \ {0}
  BY FeedAssumption DEF Revs
<1>2. rev \in Revs /\ posts \in [Writers -> Revs] /\ view \in Revs /\ told \in Revs /\ told = 0
  BY <1>1 DEF FeedInit
<1>3. channel \in Seq(Revs \ {0}) /\ queue \in Seq(Revs \ {0}) /\ channel = <<>> /\ Len(queue) <= Room
  BY <1>1 DEF FeedInit
<1>4. redis \in BOOLEAN /\ viaRedis \in BOOLEAN /\ reader \in BOOLEAN /\ missed \in BOOLEAN /\ client = "off"
  BY DEF FeedInit
<1> QED
  BY <1>2, <1>3, <1>4 DEF FeedInv, FeedOK, NewestIsKept

LEMMA NextFeedInv == FeedInv /\ [FeedNext]_feed => FeedInv'
<1> SUFFICES ASSUME FeedInv, [FeedNext]_feed PROVE FeedInv'
  OBVIOUS
<1>0. MaxRev \in Nat /\ Room \in Nat \ {0}
  BY FeedAssumption
<1> USE DEF FeedInv, FeedOK
<1>1. CASE UNCHANGED feed
  BY <1>1 DEF feed, NewestIsKept
<1>2. ASSUME NEW w \in Writers, Write(w) PROVE FeedInv'
  <2>1. rev + 1 \in Revs \ {0} /\ rev' = rev + 1
    BY <1>0, <1>2 DEF Write, Revs
  <2>2. UNCHANGED <<redis, viaRedis, reader, channel, client, view>>
    BY <1>2 DEF Write
  <2>3. CASE viaRedis
    BY <1>2, <2>1, <2>2, <2>3 DEF Write, NewestIsKept
  <2>4. CASE ~viaRedis
    <3>1. DeliverToAll(rev + 1) /\ UNCHANGED <<client, view, posts>>
      BY <1>2, <2>4 DEF Write
    <3> QED
      BY <2>1, <2>2, <3>1, DeliveryKeeps
  <2> QED
    BY <2>3, <2>4
<1>3. ASSUME NEW w \in Writers, Publish(w) PROVE FeedInv'
  <2>1. posts[w] \in Revs \ {0} /\ posts' \in [Writers -> Revs]
    BY <1>0, <1>3 DEF Publish, Revs
  <2>2. channel' \in Seq(Revs \ {0}) /\ (~reader => channel' = <<>>)
    BY <1>3, <2>1 DEF Publish
  <2> QED
    BY <1>3, <2>1, <2>2 DEF Publish, NewestIsKept
<1>4. ASSUME NEW w \in Writers, PublishFails(w) PROVE FeedInv'
  <2>1. posts[w] \in Revs \ {0} /\ posts' \in [Writers -> Revs]
    BY <1>0, <1>4 DEF PublishFails, Revs
  <2>2. DeliverToAll(posts[w]) /\ UNCHANGED <<client, view, rev, redis, reader, channel>>
    BY <1>4 DEF PublishFails
  <2>3. viaRedis' \in BOOLEAN
    BY <1>4 DEF PublishFails
  <2> QED
    BY <2>1, <2>2, <2>3, DeliveryKeeps
<1>5. CASE Read
  <2>1. Head(channel) \in Revs \ {0} /\ Tail(channel) \in Seq(Revs \ {0})
    BY <1>5 DEF Read
  <2>2. /\ DeliverToAll(Head(channel)) /\ UNCHANGED <<client, view, rev, posts, redis, viaRedis, reader>>
        /\ channel' = Tail(channel) /\ reader
    BY <1>5 DEF Read
  <2> QED
    BY <2>1, <2>2, DeliveryKeeps
<1>6. CASE RedisDown
  <2>1. channel' = <<>> /\ redis' = FALSE /\ reader' \in BOOLEAN /\ missed' \in BOOLEAN
    BY <1>6 DEF RedisDown
  <2>2. UNCHANGED <<rev, posts, viaRedis, client, queue, view, told>>
    BY <1>6 DEF RedisDown
  <2>3. channel' \in Seq(Revs \ {0})
    BY <2>1
  <2> QED
    BY <2>1, <2>2, <2>3 DEF NewestIsKept
<1>7. CASE RedisUp
  BY <1>7 DEF RedisUp, NewestIsKept
<1>8. CASE Connect
  BY <1>0, <1>8 DEF Connect, NewestIsKept, Revs
<1>9. CASE Subscribe
  BY <1>0, <1>9 DEF Subscribe, NewestIsKept
<1>10. CASE Receive
  <2>1. /\ queue # <<>> /\ view' = Head(queue) /\ queue' = Tail(queue) /\ client = "open"
        /\ UNCHANGED <<rev, posts, redis, viaRedis, reader, channel, client, told, missed>>
    BY <1>10 DEF Receive
  <2>2. Head(queue) \in Revs /\ Tail(queue) \in Seq(Revs \ {0}) /\ Len(Tail(queue)) = Len(queue) - 1
    BY <2>1
  <2>3. told # 0 => told = queue[Len(queue)]
    BY <2>1 DEF NewestIsKept
  <2>4. CASE Tail(queue) = <<>>
    <3> DEFINE rest == Tail(queue)
    <3>0. rest = <<>> /\ Len(rest) = Len(queue) - 1 /\ Len(queue) \in Nat
      BY <2>2, <2>4
    <3> HIDE DEF rest
    <3>1. Len(queue) = 1
      BY <3>0
    <3>2. Head(queue) = queue[Len(queue)]
      BY <2>1, <3>1
    <3> QED
      BY <1>0, <2>1, <2>2, <2>3, <2>4, <3>2 DEF NewestIsKept
  <2>5. CASE Tail(queue) # <<>>
    <3>1. Len(Tail(queue)) \in Nat \ {0} /\ Len(queue) \in Nat
      BY <2>1, <2>2, <2>5
    <3>2. Tail(queue)[Len(Tail(queue))] = queue[Len(queue)]
      BY <2>1, <2>2, <3>1
    <3>3. Len(Tail(queue)) <= Room
      BY <1>0, <2>2, <3>1
    <3> QED
      BY <2>1, <2>2, <2>3, <2>5, <3>2, <3>3 DEF NewestIsKept
  <2> QED
    BY <2>4, <2>5
<1>11. CASE Disconnect
  <2>1. 0 \in Revs /\ Len(<<>>) <= Room /\ <<>> \in Seq(Revs \ {0})
    BY <1>0 DEF Revs
  <2>2. /\ client' = "off" /\ queue' = <<>> /\ view' = 0 /\ told' = 0 /\ missed' = FALSE
        /\ UNCHANGED <<rev, posts, redis, viaRedis, reader, channel>>
    BY <1>11 DEF Disconnect
  <2> QED
    BY <2>1, <2>2 DEF NewestIsKept
<1> QED
  BY <1>1, <1>2, <1>3, <1>4, <1>5, <1>6, <1>7, <1>8, <1>9, <1>10, <1>11 DEF FeedNext

\* Revisions, queues and connections stay in their sets, and the queue in its room.
THEOREM SpecFeedOK == FeedSpec => []FeedOK
<1>1. FeedInv => FeedOK
  BY DEF FeedInv
<1> QED
  BY <1>1, InitFeedInv, NextFeedInv, PTL DEF FeedSpec

\* The newest update handed to a subscribed application is ahead of it or shown.
THEOREM SpecNewestIsKept == FeedSpec => []NewestIsKept
<1>1. FeedInv => NewestIsKept
  BY DEF FeedInv
<1> QED
  BY <1>1, InitFeedInv, NextFeedInv, PTL DEF FeedSpec

------------------------------------------------------------------------------
(* The imagery cache.                                                         *)

\* What is in the directory, open or remembered under a name was dropped under it.
NamedFor == \A l \in Layers : \A f \in {file[l], conn[l], layer[l]} : f # 0 => dropped[f].name = l

\* A file a look has found withdrawn is not in the directory and not open.
Withdrawn == \A l \in Layers : file[l] \notin gone /\ conn[l] \notin gone

TilesInv == TilesOK /\ NamedFor /\ Withdrawn

\* A look leaves a name with what it had, with the file there is, or with nothing;
\* with nothing where there is no file.
LEMMA LookFinds ==
  ASSUME TilesInv, NEW l \in Layers
  PROVE  /\ Look(l).conn \in {0, conn[l], file[l]} /\ Look(l).layer \in {0, layer[l], conn[l], file[l]}
         /\ file[l] = 0 => Look(l).conn = 0
<1> DEFINE had == [conn |-> conn[l], layer |-> layer[l]]
<1>1. Forgotten(had) = [conn |-> 0, layer |-> 0]
  BY DEF Forgotten, Forget
<1>2. ConnectLayer(l, had) \in {conn[l], file[l]}
  BY DEF ConnectLayer
<1>3. CASE file[l] = 0
  <2>1. Look(l) = Forgotten(had)
    BY <1>3 DEF Look
  <2> QED
    BY <1>1, <2>1
<1>4. CASE file[l] # 0 /\ layer[l] # 0
  <2>1. Look(l) = had
    BY <1>4 DEF Look
  <2> QED
    BY <1>4, <2>1
<1>5. CASE file[l] # 0 /\ layer[l] = 0
  <2>1. Look(l) = ReadLayer(l, had)
    BY <1>5 DEF Look
  <2>2. \/ Look(l) = [conn |-> ConnectLayer(l, had), layer |-> ConnectLayer(l, had)]
        \/ Look(l) = [conn |-> 0, layer |-> 0]
    BY <1>1, <2>1 DEF ReadLayer
  <2> QED
    BY <1>2, <1>5, <2>2
<1> QED
  BY <1>3, <1>4, <1>5

\* A look keeps the invariant, whichever names it is at.
LEMMA LookKeeps ==
  ASSUME TilesInv, NEW looked \in SUBSET Layers, LookAt(looked)
  PROVE  /\ {file', conn', layer'} \subseteq [Layers -> 0..Len(dropped')]
         /\ dropped' = dropped /\ gone' \subseteq DOMAIN dropped'
         /\ NamedFor' /\ Withdrawn'
<1>1. dropped' = dropped /\ file' = file
  BY DEF LookAt
<1>2. /\ dropped \in Seq(Metadata) /\ Len(dropped) \in Nat
      /\ file \in [Layers -> 0..Len(dropped)] /\ conn \in [Layers -> 0..Len(dropped)]
      /\ layer \in [Layers -> 0..Len(dropped)] /\ gone \subseteq DOMAIN dropped
  BY DEF TilesInv, TilesOK
<1>3. conn' = [l \in Layers |-> IF l \in looked THEN Look(l).conn ELSE conn[l]]
  BY DEF LookAt
<1>4. layer' = [l \in Layers |-> IF l \in looked THEN Look(l).layer ELSE layer[l]]
  BY DEF LookAt
<1>5. \A l \in Layers : /\ conn'[l] \in {0, conn[l], file[l]}
                        /\ layer'[l] \in {0, layer[l], conn[l], file[l]}
                        /\ l \in looked /\ file[l] = 0 => conn'[l] = 0
  BY <1>3, <1>4, LookFinds
<1>6. \A l \in Layers : {file[l], conn[l], layer[l]} \subseteq 0..Len(dropped) /\ 0 \in 0..Len(dropped)
  BY <1>2
<1>7. conn' \in [Layers -> 0..Len(dropped)] /\ layer' \in [Layers -> 0..Len(dropped)]
  <2>1. \A l \in Layers : conn'[l] \in 0..Len(dropped) /\ layer'[l] \in 0..Len(dropped)
    BY <1>5, <1>6
  <2> QED
    BY <1>3, <1>4, <2>1
<1>8. gone' = gone \cup {f \in DOMAIN dropped : dropped[f].name \in looked /\ file[dropped[f].name] = 0}
  BY DEF LookAt
<1>9. NamedFor'
  BY <1>1, <1>5 DEF TilesInv, NamedFor
<1>10. Withdrawn'
  <2> SUFFICES ASSUME NEW l \in Layers, NEW f \in gone'
               PROVE  file'[l] # f /\ conn'[l] # f
    BY DEF Withdrawn
  <2>1. f \in DOMAIN dropped /\ f # 0
    BY <1>2, <1>8
  <2>2. CASE f \in gone
    BY <1>1, <1>5, <2>1, <2>2 DEF TilesInv, Withdrawn
  <2>3. CASE f \notin gone
    <3>1. dropped[f].name \in looked /\ file[dropped[f].name] = 0
      BY <1>8, <2>3
    <3>2. CASE l = dropped[f].name
      BY <1>1, <1>5, <2>1, <3>1, <3>2
    <3>3. CASE l # dropped[f].name
      BY <1>1, <1>5, <2>1, <3>3 DEF TilesInv, NamedFor
    <3> QED
      BY <3>2, <3>3
  <2> QED
    BY <2>2, <2>3
<1> QED
  BY <1>1, <1>2, <1>7, <1>8, <1>9, <1>10

\* Whatever the place asked for, the tile is of the open file or there is none.
LEMMA TileIsOfFile ==
  ASSUME NEW f, NEW z, NEW x, NEW y, NEW t \in TileOf(f, z, x, y)
  PROVE  t.from \in {0, f}
  BY DEF TileOf, NoTile

LEMMA InitTilesInv == TilesInit => TilesInv
<1> SUFFICES ASSUME TilesInit PROVE TilesInv
  OBVIOUS
<1>1. /\ dropped = <<>> /\ file = [l \in Layers |-> 0] /\ conn = file /\ layer = file
      /\ asked = NoLayer /\ served = [from |-> 0] /\ gone = {}
  BY DEF TilesInit, NoTile
<1>2. dropped \in Seq(Metadata) /\ Len(dropped) = 0 /\ MaxFiles \in Nat
  BY <1>1, TilesAssumption
<1>3. TilesOK
  BY <1>1, <1>2 DEF TilesOK
<1> QED
  BY <1>1, <1>3 DEF TilesInv, NamedFor, Withdrawn

LEMMA NextTilesInv == TilesInv /\ [TilesNext]_tiles => TilesInv'
<1> SUFFICES ASSUME TilesInv, [TilesNext]_tiles PROVE TilesInv'
  OBVIOUS
<1>0. /\ dropped \in Seq(Metadata) /\ Len(dropped) \in Nat /\ Len(dropped) <= MaxFiles /\ MaxFiles \in Nat
      /\ DOMAIN dropped = 1..Len(dropped)
      /\ file \in [Layers -> 0..Len(dropped)] /\ conn \in [Layers -> 0..Len(dropped)]
      /\ layer \in [Layers -> 0..Len(dropped)] /\ gone \subseteq DOMAIN dropped
      /\ asked \in Layers \cup {NoLayer} /\ served.from \in 0..Len(dropped) /\ NamedFor /\ Withdrawn
  BY TilesAssumption DEF TilesInv, TilesOK
<1>1. CASE UNCHANGED tiles
  BY <1>0, <1>1 DEF tiles, TilesInv, TilesOK, NamedFor, Withdrawn
<1>2. CASE Drop
  <2>1. PICK new \in Metadata : /\ dropped' = Append(dropped, new)
                                /\ file' = [file EXCEPT ![new.name] = Len(dropped) + 1]
    BY <1>2 DEF Drop
  <2>2. UNCHANGED <<conn, layer, asked, served, gone>> /\ Len(dropped) < MaxFiles
    BY <1>2 DEF Drop
  <2>3. /\ dropped' \in Seq(Metadata) /\ Len(dropped') = Len(dropped) + 1
        /\ DOMAIN dropped' = 1..Len(dropped) + 1
        /\ \A f \in DOMAIN dropped : dropped'[f] = dropped[f]
        /\ dropped'[Len(dropped) + 1] = new
    BY <1>0, <2>1
  <2>4. \A f \in 0..Len(dropped) : f \in 0..Len(dropped') /\ f # Len(dropped) + 1
    BY <1>0, <2>3
  <2>5. Len(dropped) + 1 \in 0..Len(dropped')
    BY <1>0, <2>3
  <2>6. file' \in [Layers -> 0..Len(dropped')]
    BY <1>0, <2>1, <2>4, <2>5
  <2>7. conn' \in [Layers -> 0..Len(dropped')] /\ layer' \in [Layers -> 0..Len(dropped')]
    BY <1>0, <2>2, <2>4
  <2>8. gone' \subseteq DOMAIN dropped' /\ served'.from \in 0..Len(dropped') /\ Len(dropped') <= MaxFiles
    BY <1>0, <2>2, <2>3, <2>4
  <2>9. TilesOK'
    BY <1>0, <2>2, <2>3, <2>6, <2>7, <2>8 DEF TilesOK
  <2>10. \A l \in Layers : file'[l] \in {file[l], Len(dropped) + 1} /\ (file'[l] # file[l] => l = new.name)
    BY <1>0, <2>1
  <2>11. NamedFor'
    <3> SUFFICES ASSUME NEW l \in Layers, NEW f \in {file'[l], conn'[l], layer'[l]}, f # 0
                 PROVE  dropped'[f].name = l
      BY DEF NamedFor
    <3>1. CASE f \in {file[l], conn[l], layer[l]}
      <4>1. f \in DOMAIN dropped /\ dropped[f].name = l
        BY <1>0, <3>1 DEF NamedFor
      <4> QED
        BY <2>3, <4>1
    <3>2. CASE f \notin {file[l], conn[l], layer[l]}
      <4>1. f = file'[l] /\ f # file[l]
        BY <2>2, <3>2
      <4> QED
        BY <2>3, <2>10, <4>1
    <3> QED
      BY <3>1, <3>2
  <2>12. Withdrawn'
    <3>1. Len(dropped) + 1 \notin gone
      BY <1>0
    <3> QED
      BY <1>0, <2>2, <2>10, <3>1 DEF Withdrawn
  <2> QED
    BY <2>9, <2>11, <2>12 DEF TilesInv
<1>3. ASSUME NEW l \in Layers, WithdrawFile(l) PROVE TilesInv'
  <2>1. file' = [file EXCEPT ![l] = 0] /\ UNCHANGED <<dropped, conn, layer, asked, served, gone>>
    BY <1>3 DEF WithdrawFile
  <2>2. \A k \in Layers : file'[k] \in {0, file[k]}
    BY <1>0, <2>1
  <2>3. file' \in [Layers -> 0..Len(dropped)] /\ 0 \notin gone
    BY <1>0, <2>1
  <2>4. TilesOK'
    BY <1>0, <2>1, <2>3 DEF TilesOK
  <2>5. NamedFor'
    BY <1>0, <2>1, <2>2, ZenonT(40) DEF NamedFor
  <2>6. Withdrawn'
    BY <1>0, <2>1, <2>2, <2>3 DEF Withdrawn
  <2> QED
    BY <2>4, <2>5, <2>6 DEF TilesInv
<1>4. ASSUME NEW l \in Layers, FindLayer(l) PROVE TilesInv'
  <2>1. LookAt({l}) /\ {l} \in SUBSET Layers
    BY <1>4 DEF FindLayer
  <2>2. asked' \in {asked, l} /\ served' \in {served, [from |-> 0]}
    BY <1>4 DEF FindLayer, NoTile
  <2>3. served'.from \in 0..Len(dropped)
    BY <1>0, <2>2
  <2> QED
    BY <1>0, <2>1, <2>2, <2>3, LookKeeps DEF TilesInv, TilesOK
<1>5. CASE ListTileLayers
  <2>1. PICK looked \in SUBSET Layers : LookAt(looked)
    BY <1>5 DEF ListTileLayers
  <2>2. UNCHANGED <<asked, served>>
    BY <1>5 DEF ListTileLayers
  <2> QED
    BY <1>0, <2>1, <2>2, LookKeeps DEF TilesInv, TilesOK
<1>6. ASSUME NEW z \in Zooms, NEW x, NEW y, GetTile(z, x, y) PROVE TilesInv'
  <2>1. /\ asked \in Layers /\ served' \in TileOf(conn[asked], z, x, y) /\ asked' = NoLayer
        /\ UNCHANGED <<dropped, file, conn, layer, gone>>
    BY <1>0, <1>6 DEF GetTile
  <2>2. served'.from \in {0, conn[asked]}
    BY <2>1, TileIsOfFile
  <2>3. served'.from \in 0..Len(dropped)
    BY <1>0, <2>1, <2>2
  <2> QED
    BY <1>0, <2>1, <2>3 DEF TilesInv, TilesOK, NamedFor, Withdrawn
<1> QED
  BY <1>1, <1>2, <1>3, <1>4, <1>5, <1>6 DEF TilesNext

THEOREM SpecTilesInv == TilesSpec => []TilesInv
  BY InitTilesInv, NextTilesInv, PTL DEF TilesSpec

\* No tile of a file found withdrawn is served, also under a name taken again.
THEOREM SpecWithdrawnIsGone == TilesSpec => WithdrawnIsGone
<1>1. TilesInv /\ [TilesNext]_tiles => [served' # served => served'.from \notin gone]_tiles
  <2> SUFFICES ASSUME TilesInv, TilesNext, served' # served
               PROVE  served'.from \notin gone
    OBVIOUS
  <2>1. 0 \notin gone /\ \A l \in Layers : conn[l] \notin gone
    BY DEF TilesInv, TilesOK, Withdrawn
  <2>2. CASE \E l \in Layers : FindLayer(l)
    BY <2>1, <2>2 DEF FindLayer, NoTile
  <2>3. ASSUME NEW z \in Zooms, NEW x, NEW y, GetTile(z, x, y)
        PROVE  served'.from \notin gone
    <3>1. asked \in Layers /\ served' \in TileOf(conn[asked], z, x, y)
      BY <2>3 DEF GetTile, TilesInv, TilesOK
    <3> QED
      BY <2>1, <3>1, TileIsOfFile
  <2> QED
    BY <2>2, <2>3 DEF TilesNext, Drop, WithdrawFile, ListTileLayers
<1> QED
  BY <1>1, SpecTilesInv, PTL DEF TilesSpec, WithdrawnIsGone

------------------------------------------------------------------------------
(* The voice service and the gateway.                                         *)


Stages == {"checking", "hearing", "seeing", "thinking", "speaking", "asked", "over"}
Sentences == [by : Callers, typed : BOOLEAN, order : SUBSET VoiceOrders, at : Stages]
Answers == [by : Callers, ask : 1..MaxAsks, yes : BOOLEAN, taken : BOOLEAN,
            at : {"checking", "issuing", "answering", "over"},
            told : {"nothing", "cancelled", "sent", "not accepted", "cannot see"}]

\* A readback that is kept has been asked for, by whom it is kept for.
Kept == \A k \in pending : asks[k[2]].at = "asked" /\ asks[k[2]].by = k[1]

\* What is answered has been asked.
Answered == \A r \in DOMAIN replies : replies[r].ask \in DOMAIN asks /\ asks[replies[r].ask].at = "asked"

\* The answer that took a readback out holds it: nobody else can, and it is gone.
HasIt(r) == replies[r].taken \/ replies[r].at = "issuing"
Held(r) ==
    /\ replies[r].yes /\ replies[r].by = asks[replies[r].ask].by
    /\ <<replies[r].by, replies[r].ask>> \notin pending
    /\ \A q \in DOMAIN replies : HasIt(q) /\ replies[q].ask = replies[r].ask => q = r
HeldOnce == \A r \in DOMAIN replies : (HasIt(r) => Held(r)) /\ (replies[r].at = "checking" => ~replies[r].taken)

VoiceInv == VoiceOK /\ Kept /\ Answered /\ HeldOnce

------------------------------------------------------------------------------
(* Records.                                                                   *)

\* Names come from the map, and an order's from the order's words.
LEMMA MatchesAreKnown ==
  ASSUME NEW saying, NEW things
  PROVE  Matches(saying, things) \subseteq {t.id : t \in things}
  BY DEF Matches

LEMMA ResolvedType == ASSUME NEW s \in Sayings PROVE Resolved(s) \subseteq VoiceOrders
<1>1. CASE Resolved(s) = {}
  BY <1>1
<1>2. CASE Resolved(s) = [machine : Matches(s.machine, Fleet), task : {s.task}, place : NamedPlace(s)]
  <2>1. Matches(s.machine, Fleet) \subseteq {m.id : m \in Fleet}
    BY MatchesAreKnown
  <2>2. {t.id : t \in KnownPlaces} \subseteq PlaceNames
    BY DEF KnownPlaces
  <2>3. NamedPlace(s) \subseteq PlaceNames \cup {NoName}
    BY <2>2, MatchesAreKnown DEF NamedPlace
  <2>4. {s.task} \subseteq {t.task : t \in Sayings}
    OBVIOUS
  <2> QED
    BY <1>2, <2>1, <2>3, <2>4 DEF VoiceOrders
<1> QED
  BY <1>1, <1>2, Zenon DEF Resolved

\* One element of a sequence replaced.
LEMMA Swapped ==
  ASSUME NEW S, NEW s \in Seq(S), NEW i \in DOMAIN s
  PROVE  /\ s[i] \in S
         /\ \A e \in S : LET t == [s EXCEPT ![i] = e] IN
              /\ t \in Seq(S) /\ Len(t) = Len(s) /\ DOMAIN t = DOMAIN s
              /\ t[i] = e /\ \A j \in DOMAIN s : j # i => t[j] = s[j]
  OBVIOUS

\* The facts of VoiceOK, one by one.
LEMMA VoiceFacts ==
  ASSUME VoiceOK
  PROVE  /\ asks \in Seq(Sentences) /\ Len(asks) \in 0..MaxAsks /\ DOMAIN asks = 1..Len(asks)
         /\ pending \subseteq Callers \X (1..Len(asks))
         /\ since \in [1..MaxAsks -> 0..Ttl + 1]
         /\ replies \in Seq(Answers) /\ Len(replies) \in 0..MaxReplies /\ DOMAIN replies = 1..Len(replies)
         /\ MaxAsks \in Nat /\ MaxReplies \in Nat /\ Ttl \in Nat /\ MaxChanges \in Nat
<1>1. MaxAsks \in Nat /\ MaxReplies \in Nat /\ Ttl \in Nat /\ MaxChanges \in Nat
  BY VoiceAssumption
<1>2. asks \in Seq(Sentences) /\ replies \in Seq(Answers)
  BY DEF VoiceOK, Sentences, Stages, Answers
<1>3. Len(asks) <= MaxAsks /\ Len(replies) <= MaxReplies
  BY DEF VoiceOK
<1>4. pending \subseteq Callers \X (1..Len(asks)) /\ since \in [1..MaxAsks -> 0..Ttl + 1]
  BY DEF VoiceOK
<1>5. /\ Len(asks) \in Nat /\ DOMAIN asks = 1..Len(asks)
      /\ Len(replies) \in Nat /\ DOMAIN replies = 1..Len(replies)
  BY <1>2
<1> QED
  BY <1>1, <1>2, <1>3, <1>4, <1>5

\* A sentence that moves on keeps its asker, and the others stay.
LEMMA SentenceMoves ==
  ASSUME asks \in Seq(Sentences), NEW x \in DOMAIN asks, NEW stage \in Stages,
         NEW o \in SUBSET VoiceOrders,
         asks' = [asks EXCEPT ![x].at = stage] \/ asks' = [asks EXCEPT ![x].at = stage, ![x].order = o]
  PROVE  /\ asks' \in Seq(Sentences) /\ Len(asks') = Len(asks) /\ DOMAIN asks' = DOMAIN asks
         /\ \A y \in DOMAIN asks : asks'[y].by = asks[y].by
         /\ \A y \in DOMAIN asks : y # x => asks'[y] = asks[y]
         /\ asks'[x].at = stage
<1>1. asks[x] \in Sentences
  BY Swapped
<1>2. \E new \in Sentences : asks' = [asks EXCEPT ![x] = new] /\ new.by = asks[x].by /\ new.at = stage
  <2>1. CASE asks' = [asks EXCEPT ![x].at = stage]
    <3> DEFINE new == [asks[x] EXCEPT !.at = stage]
    <3>1. new \in Sentences /\ new.by = asks[x].by /\ new.at = stage
      BY <1>1 DEF Sentences
    <3>2. asks' = [asks EXCEPT ![x] = new]
      BY <2>1
    <3> QED
      BY <3>1, <3>2
  <2>2. CASE asks' = [asks EXCEPT ![x].at = stage, ![x].order = o]
    <3> DEFINE new == [asks[x] EXCEPT !.at = stage, !.order = o]
    <3>1. new \in Sentences /\ new.by = asks[x].by /\ new.at = stage
      BY <1>1 DEF Sentences
    <3>2. asks' = [asks EXCEPT ![x] = new]
      BY <2>2
    <3> QED
      BY <3>1, <3>2
  <2> QED
    BY <2>1, <2>2
<1> QED
  BY <1>2, Swapped

\* An answer's step keeps who answers what, and how.
LEMMA AnswerMoves ==
  ASSUME replies \in Seq(Answers), NEW r \in DOMAIN replies,
         NEW a \in {"issuing", "answering", "over"}, NEW t \in BOOLEAN,
         NEW saying \in {"nothing", "cancelled", "sent", "not accepted", "cannot see"},
         \/ replies' = [replies EXCEPT ![r].at = a] /\ t = replies[r].taken
         \/ replies' = [replies EXCEPT ![r].at = a, ![r].taken = t]
         \/ replies' = [replies EXCEPT ![r].at = a, ![r].told = saying] /\ t = replies[r].taken
  PROVE  /\ replies' \in Seq(Answers) /\ Len(replies') = Len(replies) /\ DOMAIN replies' = DOMAIN replies
         /\ \A q \in DOMAIN replies : /\ replies'[q].by = replies[q].by /\ replies'[q].ask = replies[q].ask
                                      /\ replies'[q].yes = replies[q].yes
         /\ \A q \in DOMAIN replies : q # r => replies'[q] = replies[q]
         /\ replies'[r].at = a /\ replies'[r].taken = t
<1>1. replies[r] \in Answers
  BY Swapped
<1>2. \E new \in Answers : /\ replies' = [replies EXCEPT ![r] = new]
                           /\ new.by = replies[r].by /\ new.ask = replies[r].ask
                           /\ new.yes = replies[r].yes /\ new.at = a /\ new.taken = t
  <2>1. CASE replies' = [replies EXCEPT ![r].at = a] /\ t = replies[r].taken
    <3> DEFINE new == [replies[r] EXCEPT !.at = a]
    <3>1. /\ new \in Answers /\ new.by = replies[r].by /\ new.ask = replies[r].ask
          /\ new.yes = replies[r].yes /\ new.at = a /\ new.taken = t
      BY <1>1, <2>1 DEF Answers
    <3>2. replies' = [replies EXCEPT ![r] = new]
      BY <2>1
    <3> QED
      BY <3>1, <3>2
  <2>2. CASE replies' = [replies EXCEPT ![r].at = a, ![r].taken = t]
    <3> DEFINE new == [replies[r] EXCEPT !.at = a, !.taken = t]
    <3>1. /\ new \in Answers /\ new.by = replies[r].by /\ new.ask = replies[r].ask
          /\ new.yes = replies[r].yes /\ new.at = a /\ new.taken = t
      BY <1>1, <2>2 DEF Answers
    <3>2. replies' = [replies EXCEPT ![r] = new]
      BY <2>2
    <3> QED
      BY <3>1, <3>2
  <2>3. CASE replies' = [replies EXCEPT ![r].at = a, ![r].told = saying] /\ t = replies[r].taken
    <3> DEFINE new == [replies[r] EXCEPT !.at = a, !.told = saying]
    <3>1. /\ new \in Answers /\ new.by = replies[r].by /\ new.ask = replies[r].ask
          /\ new.yes = replies[r].yes /\ new.at = a /\ new.taken = t
      BY <1>1, <2>3 DEF Answers
    <3>2. replies' = [replies EXCEPT ![r] = new]
      BY <2>3
    <3> QED
      BY <3>1, <3>2
  <2> QED
    BY <2>1, <2>2, <2>3
<1>3. PICK new \in Answers : /\ replies' = [replies EXCEPT ![r] = new]
                             /\ new.by = replies[r].by /\ new.ask = replies[r].ask
                             /\ new.yes = replies[r].yes /\ new.at = a /\ new.taken = t
  BY <1>2
<1>4. /\ replies' \in Seq(Answers) /\ Len(replies') = Len(replies) /\ DOMAIN replies' = DOMAIN replies
      /\ replies'[r] = new /\ \A q \in DOMAIN replies : q # r => replies'[q] = replies[q]
  BY <1>3, Swapped
<1> QED
  BY <1>3, <1>4

------------------------------------------------------------------------------
(* The invariant.                                                             *)

LEMMA InitVoiceInv == VoiceInit => VoiceInv
<1> SUFFICES ASSUME VoiceInit PROVE VoiceInv
  OBVIOUS
<1>1. /\ asks = <<>> /\ pending = {} /\ replies = <<>> /\ since = [x \in 1..MaxAsks |-> 0]
      /\ Ttl \in Nat /\ MaxAsks \in Nat /\ MaxReplies \in Nat /\ MaxChanges \in Nat
  BY VoiceAssumption DEF VoiceInit
<1>2. 0 \in 0..Ttl + 1 /\ 0 \in 0..MaxChanges
  BY <1>1
<1>3. VoiceOK
  BY <1>1, <1>2 DEF VoiceOK, VoiceInit
<1> QED
  BY <1>1, <1>3 DEF VoiceInv, Kept, Answered, HeldOnce

\* Steps of the gateway and of the clock.
LEMMA PolicyKeeps ==
  ASSUME VoiceInv, CheckGateway \/ VoiceTick \/ \E a \in Built : AdapterChanges(a)
  PROVE  VoiceInv'
<1>1. CASE CheckGateway
  <2>1. offers' \subseteq Capabilities
    BY <1>1 DEF CheckGateway
  <2>2. UNCHANGED <<profile, leaving, usable, changes, asks, pending, since, replies>>
    BY <1>1 DEF CheckGateway
  <2> QED
    BY <2>1, <2>2 DEF VoiceInv, VoiceOK, Kept, Answered, HeldOnce, HasIt, Held
<1>2. CASE VoiceTick
  <2>1. UNCHANGED policy /\ UNCHANGED <<asks, pending, replies>>
    BY <1>2 DEF VoiceTick
  <2>2. since' = [x \in 1..MaxAsks |-> IF since[x] <= Ttl THEN since[x] + 1 ELSE since[x]]
    BY <1>2 DEF VoiceTick
  <2>3. since' \in [1..MaxAsks -> 0..Ttl + 1]
    BY <2>2, VoiceFacts DEF VoiceInv
  <2> QED
    BY <2>1, <2>3 DEF policy, VoiceInv, VoiceOK, Kept, Answered, HeldOnce, HasIt, Held
<1>3. ASSUME NEW a \in Built, AdapterChanges(a) PROVE VoiceInv'
  <2>1. usable' \subseteq Built /\ offers' = {}
    BY <1>3 DEF AdapterChanges, VoiceInv, VoiceOK
  <2>2. changes' \in 0..MaxChanges
    <3>1. changes \in 0..MaxChanges /\ MaxChanges \in Nat /\ changes < MaxChanges /\ changes' = changes + 1
      BY <1>3, VoiceFacts DEF AdapterChanges, VoiceInv, VoiceOK
    <3> QED
      BY <3>1
  <2>3. UNCHANGED <<profile, leaving, asks, pending, since, replies>>
    BY <1>3 DEF AdapterChanges
  <2> QED
    BY <2>1, <2>2, <2>3 DEF VoiceInv, VoiceOK, Kept, Answered, HeldOnce, HasIt, Held
<1> QED
  BY <1>1, <1>2, <1>3

\* A sentence on its way to being asked disturbs no readback and no answer.
LEMMA SentenceKeeps ==
  ASSUME VoiceInv, NEW x \in DOMAIN asks, asks[x].at # "asked", NEW stage \in Stages,
         NEW o \in SUBSET VoiceOrders,
         asks' = [asks EXCEPT ![x].at = stage] \/ asks' = [asks EXCEPT ![x].at = stage, ![x].order = o],
         UNCHANGED policy, UNCHANGED <<pending, since, replies>>
  PROVE  VoiceInv'
<1>0. asks \in Seq(Sentences) /\ DOMAIN asks = 1..Len(asks) /\ pending \subseteq Callers \X (1..Len(asks))
  BY VoiceFacts DEF VoiceInv
<1>1. /\ asks' \in Seq(Sentences) /\ Len(asks') = Len(asks) /\ DOMAIN asks' = DOMAIN asks
      /\ \A y \in DOMAIN asks : asks'[y].by = asks[y].by
      /\ \A y \in DOMAIN asks : y # x => asks'[y] = asks[y]
  BY <1>0, SentenceMoves
<1>2. VoiceOK'
  BY <1>1 DEF VoiceInv, VoiceOK, policy, Sentences, Stages
<1>3. \A y \in DOMAIN asks : asks[y].at = "asked" => asks'[y] = asks[y]
  BY <1>1
<1>4. Kept'
  BY <1>0, <1>3 DEF VoiceInv, Kept
<1>5. Answered'
  BY <1>1, <1>3 DEF VoiceInv, Answered
<1>6. HeldOnce'
  BY <1>1 DEF VoiceInv, Answered, HeldOnce, HasIt, Held
<1> QED
  BY <1>2, <1>4, <1>5, <1>6 DEF VoiceInv

\* A sentence said, moved on, or given up.
LEMMA AskKeeps ==
  ASSUME VoiceInv, NEW c \in Callers, NEW typed \in BOOLEAN, Ask(c, typed)
  PROVE  VoiceInv'
<1> DEFINE new == [by |-> c, typed |-> typed, at |-> "checking", order |-> {}]
<1>0. /\ asks \in Seq(Sentences) /\ Len(asks) \in 0..MaxAsks /\ DOMAIN asks = 1..Len(asks)
      /\ pending \subseteq Callers \X (1..Len(asks)) /\ MaxAsks \in Nat
  BY VoiceFacts DEF VoiceInv
<1>1. new \in Sentences
  BY DEF Sentences, Stages
<1>2. asks' = Append(asks, new) /\ Len(asks) < MaxAsks /\ UNCHANGED policy /\ UNCHANGED <<pending, since, replies>>
  BY DEF Ask
<1> HIDE DEF new
<1>3. /\ asks' \in Seq(Sentences) /\ Len(asks') = Len(asks) + 1 /\ Len(asks') <= MaxAsks
      /\ \A y \in DOMAIN asks : y \in DOMAIN asks' /\ asks'[y] = asks[y]
  BY <1>0, <1>1, <1>2
<1>4. pending' \subseteq Callers \X (1..Len(asks'))
  BY <1>0, <1>2, <1>3
<1>5. VoiceOK'
  BY <1>2, <1>3, <1>4 DEF VoiceInv, VoiceOK, policy, Sentences, Stages
<1>6. Kept'
  BY <1>0, <1>2, <1>3 DEF VoiceInv, Kept
<1>7. Answered'
  BY <1>2, <1>3 DEF VoiceInv, Answered
<1>8. HeldOnce'
  BY <1>2, <1>3 DEF VoiceInv, Answered, HeldOnce, HasIt, Held
<1> QED
  BY <1>5, <1>6, <1>7, <1>8 DEF VoiceInv

LEMMA MovesKeep ==
  ASSUME VoiceInv, NEW x \in DOMAIN asks,
         \/ CheckAsker(x) \/ GiveUp(x) \/ Hear(x) \/ See(x)
         \/ \E s \in Sayings : Think(x, s)
  PROVE  VoiceInv'
<1>1. CASE CheckAsker(x) \/ GiveUp(x) \/ Hear(x) \/ See(x)
  <2>1. PICK stage \in Stages : asks' = [asks EXCEPT ![x].at = stage]
    BY <1>1 DEF CheckAsker, GiveUp, Hear, See, Move, Stages
  <2>2. asks[x].at # "asked" /\ UNCHANGED policy /\ UNCHANGED <<pending, since, replies>>
    BY <1>1 DEF CheckAsker, GiveUp, Hear, See
  <2> QED
    BY <2>1, <2>2, SentenceKeeps
<1>2. ASSUME NEW s \in Sayings, Think(x, s) PROVE VoiceInv'
  <2>1. Resolved(s) \in SUBSET VoiceOrders
    BY ResolvedType
  <2>2. \/ asks' = [asks EXCEPT ![x].at = "over"]
        \/ asks' = [asks EXCEPT ![x].at = "speaking", ![x].order = Resolved(s)]
    BY <1>2 DEF Think, Move
  <2>3. asks[x].at # "asked" /\ UNCHANGED policy /\ UNCHANGED <<pending, since, replies>>
    BY <1>2 DEF Think
  <2>4. "over" \in Stages /\ "speaking" \in Stages
    BY DEF Stages
  <2> QED
    BY <2>1, <2>2, <2>3, <2>4, SentenceKeeps
<1> QED
  BY <1>1, <1>2

\* A readback is kept: nobody has answered it before.
LEMMA KeepKeeps ==
  ASSUME VoiceInv, NEW x \in DOMAIN asks, Keep(x)
  PROVE  VoiceInv'
<1>0. /\ asks \in Seq(Sentences) /\ Len(asks) \in 0..MaxAsks /\ DOMAIN asks = 1..Len(asks)
      /\ pending \subseteq Callers \X (1..Len(asks)) /\ since \in [1..MaxAsks -> 0..Ttl + 1]
      /\ MaxAsks \in Nat /\ Ttl \in Nat
  BY VoiceFacts DEF VoiceInv
<1>1. /\ asks[x].at = "speaking" /\ asks' = [asks EXCEPT ![x].at = "asked"]
      /\ pending' = pending \cup {<<asks[x].by, x>>} /\ since' = [since EXCEPT ![x] = 0]
      /\ UNCHANGED policy /\ UNCHANGED replies
  BY DEF Keep, Move
<1>2. "asked" \in Stages /\ {} \in SUBSET VoiceOrders
  BY DEF Stages
<1>3. /\ asks' \in Seq(Sentences) /\ Len(asks') = Len(asks) /\ DOMAIN asks' = DOMAIN asks
      /\ \A y \in DOMAIN asks : asks'[y].by = asks[y].by
      /\ \A y \in DOMAIN asks : y # x => asks'[y] = asks[y]
      /\ asks'[x].at = "asked"
  BY <1>0, <1>1, <1>2, SentenceMoves
<1>4. asks[x].by \in Callers
  <2>1. asks[x] \in Sentences
    BY <1>0, Swapped
  <2> QED
    BY <2>1 DEF Sentences
<1>5. pending' \subseteq Callers \X (1..Len(asks'))
  BY <1>0, <1>1, <1>3, <1>4
<1>6. since' \in [1..MaxAsks -> 0..Ttl + 1]
  BY <1>0, <1>1
<1>7. VoiceOK'
  BY <1>1, <1>3, <1>5, <1>6 DEF VoiceInv, VoiceOK, policy, Sentences, Stages
<1>8. Kept'
  <2> SUFFICES ASSUME NEW k \in pending' PROVE asks'[k[2]].at = "asked" /\ asks'[k[2]].by = k[1]
    BY DEF Kept
  <2>1. CASE k \in pending
    BY <1>0, <1>1, <1>3, <2>1 DEF VoiceInv, Kept
  <2>2. CASE k = <<asks[x].by, x>>
    BY <1>3, <2>2
  <2> QED
    BY <1>1, <2>1, <2>2
<1>9. Answered'
  BY <1>1, <1>3 DEF VoiceInv, Answered
<1>10. \A r \in DOMAIN replies : replies[r].ask # x
  BY <1>1 DEF VoiceInv, Answered
<1>11. HeldOnce'
  BY <1>1, <1>3, <1>10 DEF VoiceInv, Answered, HeldOnce, HasIt, Held
<1> QED
  BY <1>7, <1>8, <1>9, <1>11 DEF VoiceInv

------------------------------------------------------------------------------
(* The answers.                                                               *)

LEMMA ReplyKeeps ==
  ASSUME VoiceInv, NEW c \in Callers, NEW x \in DOMAIN asks, NEW yes \in BOOLEAN, Reply(c, x, yes)
  PROVE  VoiceInv'
<1> DEFINE new == [by |-> c, ask |-> x, yes |-> yes, at |-> "checking", taken |-> FALSE, told |-> "nothing"]
<1>0. /\ replies \in Seq(Answers) /\ Len(replies) \in 0..MaxReplies /\ DOMAIN replies = 1..Len(replies)
      /\ DOMAIN asks = 1..Len(asks) /\ Len(asks) \in 0..MaxAsks /\ MaxReplies \in Nat /\ MaxAsks \in Nat
  BY VoiceFacts DEF VoiceInv
<1>1. new \in Answers
  <2>1. x \in 1..MaxAsks
    BY <1>0
  <2> QED
    BY <2>1 DEF Answers
<1>2. new.ask = x /\ new.at = "checking" /\ ~new.taken
  OBVIOUS
<1>3. /\ replies' = Append(replies, new) /\ Len(replies) < MaxReplies /\ asks[x].at = "asked"
      /\ UNCHANGED policy /\ UNCHANGED <<asks, pending, since>>
  BY DEF Reply
<1> HIDE DEF new
<1>4. /\ replies' \in Seq(Answers) /\ Len(replies') = Len(replies) + 1 /\ Len(replies') <= MaxReplies
      /\ DOMAIN replies' = 1..Len(replies) + 1 /\ replies'[Len(replies) + 1] = new
      /\ \A q \in DOMAIN replies : replies'[q] = replies[q]
  BY <1>0, <1>1, <1>3
<1>5. \A q \in DOMAIN replies' : q \in DOMAIN replies \/ replies'[q] = new
  BY <1>0, <1>4
<1>6. VoiceOK'
  BY <1>3, <1>4 DEF VoiceInv, VoiceOK, policy, Answers
<1>7. Kept'
  BY <1>3 DEF VoiceInv, Kept
<1>8. Answered'
  BY <1>2, <1>3, <1>4, <1>5 DEF VoiceInv, Answered
<1>9. HeldOnce'
  <2>1. \A q \in DOMAIN replies' : HasIt(q)' => q \in DOMAIN replies /\ HasIt(q)
    BY <1>2, <1>4, <1>5 DEF HasIt
  <2> SUFFICES ASSUME NEW q \in DOMAIN replies'
               PROVE  (HasIt(q)' => Held(q)') /\ (replies'[q].at = "checking" => ~replies'[q].taken)
    BY DEF HeldOnce
  <2>2. CASE q \in DOMAIN replies
    <3>1. HasIt(q) => Held(q)
      BY <2>2 DEF VoiceInv, HeldOnce
    <3>2. HasIt(q) => Held(q)'
      BY <1>3, <1>4, <2>1, <2>2, <3>1 DEF Held
    <3> QED
      BY <1>4, <2>1, <2>2, <3>2 DEF VoiceInv, HeldOnce
  <2>3. CASE q \notin DOMAIN replies
    BY <1>2, <1>5, <2>1, <2>3
  <2> QED
    BY <2>2, <2>3
<1> QED
  BY <1>6, <1>7, <1>8, <1>9 DEF VoiceInv

\* An answer moves on without taking anything out.
LEMMA AnswerKeeps ==
  ASSUME VoiceInv, NEW r \in DOMAIN replies,
         NEW a \in {"answering", "over"}, NEW t \in BOOLEAN,
         NEW saying \in {"nothing", "cancelled", "sent", "not accepted", "cannot see"},
         \/ replies' = [replies EXCEPT ![r].at = a] /\ t = replies[r].taken
         \/ replies' = [replies EXCEPT ![r].at = a, ![r].taken = t]
         \/ replies' = [replies EXCEPT ![r].at = a, ![r].told = saying] /\ t = replies[r].taken,
         t => HasIt(r), pending' \subseteq pending,
         UNCHANGED policy, UNCHANGED <<asks, since>>
  PROVE  VoiceInv'
<1>0. replies \in Seq(Answers) /\ pending \subseteq Callers \X (1..Len(asks))
  BY VoiceFacts DEF VoiceInv
<1>a. a \in {"issuing", "answering", "over"}
  OBVIOUS
<1>1. /\ replies' \in Seq(Answers) /\ Len(replies') = Len(replies) /\ DOMAIN replies' = DOMAIN replies
      /\ \A q \in DOMAIN replies : /\ replies'[q].by = replies[q].by /\ replies'[q].ask = replies[q].ask
                                   /\ replies'[q].yes = replies[q].yes
      /\ \A q \in DOMAIN replies : q # r => replies'[q] = replies[q]
      /\ replies'[r].at = a /\ replies'[r].taken = t
  <2>1. CASE replies' = [replies EXCEPT ![r].at = a] /\ t = replies[r].taken
    BY <1>0, <1>a, <2>1, AnswerMoves
  <2>2. CASE replies' = [replies EXCEPT ![r].at = a, ![r].taken = t]
    BY <1>0, <1>a, <2>2, AnswerMoves
  <2>3. CASE replies' = [replies EXCEPT ![r].at = a, ![r].told = saying] /\ t = replies[r].taken
    BY <1>0, <1>a, <2>3, AnswerMoves, ZenonT(40)
  <2> QED
    BY <2>1, <2>2, <2>3
<1>2. VoiceOK'
  BY <1>0, <1>1 DEF VoiceInv, VoiceOK, policy, Answers
<1>3. Kept'
  BY DEF VoiceInv, Kept
<1>4. Answered'
  BY <1>1 DEF VoiceInv, Answered
<1>5. \A q \in DOMAIN replies : HasIt(q)' => HasIt(q)
  <2>1. HasIt(r)' => HasIt(r)
    BY <1>1 DEF HasIt
  <2>2. \A q \in DOMAIN replies : q # r => (HasIt(q)' => HasIt(q))
    BY <1>1 DEF HasIt
  <2> QED
    BY <2>1, <2>2
<1>6. HeldOnce'
  <2> SUFFICES ASSUME NEW q \in DOMAIN replies
               PROVE  (HasIt(q)' => Held(q)') /\ (replies'[q].at = "checking" => ~replies'[q].taken)
    BY <1>1 DEF HeldOnce
  <2>1. HasIt(q) => Held(q)
    BY DEF VoiceInv, HeldOnce
  <2>2. HasIt(q) => Held(q)'
    BY <1>1, <1>5, <2>1 DEF Held
  <2>3. replies'[q].at = "checking" => ~replies'[q].taken
    BY <1>1 DEF VoiceInv, HeldOnce
  <2> QED
    BY <1>5, <2>2, <2>3
<1> QED
  BY <1>2, <1>3, <1>4, <1>6 DEF VoiceInv

\* The readback is taken out: what it was kept under, nobody holds yet.
LEMMA TakeKeeps ==
  ASSUME VoiceInv, NEW r \in DOMAIN replies, TakeReadback(r)
  PROVE  VoiceInv'
<1> DEFINE key == <<replies[r].by, replies[r].ask>>
<1>0. replies \in Seq(Answers) /\ pending \subseteq Callers \X (1..Len(asks))
  BY VoiceFacts DEF VoiceInv
<1>1. /\ replies[r].at = "checking" /\ pending' = Fresh \ {key} /\ Fresh \subseteq pending
      /\ UNCHANGED policy /\ UNCHANGED <<asks, since>>
  BY DEF TakeReadback, AfterTaking, Pop, Fresh
<1>2. CASE replies' = [replies EXCEPT ![r].at = "over", ![r].told = "cancelled"]
  <2>1. replies[r].taken = FALSE
    <3>1. replies[r] \in Answers
      BY <1>0, Swapped
    <3> QED
      BY <1>1, <3>1 DEF VoiceInv, HeldOnce, Answers
  <2> QED
    BY <1>1, <1>2, <2>1, AnswerKeeps
<1>3. CASE key \in Fresh /\ replies[r].yes /\ replies' = [replies EXCEPT ![r].at = "issuing"]
  <2>1. /\ replies' \in Seq(Answers) /\ Len(replies') = Len(replies) /\ DOMAIN replies' = DOMAIN replies
        /\ \A q \in DOMAIN replies : /\ replies'[q].by = replies[q].by /\ replies'[q].ask = replies[q].ask
                                     /\ replies'[q].yes = replies[q].yes
        /\ \A q \in DOMAIN replies : q # r => replies'[q] = replies[q]
        /\ replies'[r].at = "issuing" /\ replies'[r].taken = replies[r].taken
    <3>1. replies[r].taken \in BOOLEAN
      <4>1. replies[r] \in Answers
        BY <1>0, Swapped
      <4> QED
        BY <4>1 DEF Answers
    <3> QED
      BY <1>0, <1>3, <3>1, AnswerMoves
  <2>2. VoiceOK'
    BY <1>0, <1>1, <2>1 DEF VoiceInv, VoiceOK, policy, Answers
  <2>3. Kept'
    BY <1>1 DEF VoiceInv, Kept
  <2>4. Answered'
    BY <1>1, <2>1 DEF VoiceInv, Answered
  <2>5. replies[r].by = asks[replies[r].ask].by
    BY <1>1, <1>3 DEF VoiceInv, Kept
  <2>6. \A q \in DOMAIN replies : q # r => (HasIt(q)' <=> HasIt(q))
    BY <2>1 DEF HasIt
  <2>7. \A q \in DOMAIN replies : q # r /\ HasIt(q) => replies[q].ask # replies[r].ask
    <3> SUFFICES ASSUME NEW q \in DOMAIN replies, HasIt(q), replies[q].ask = replies[r].ask
                 PROVE  FALSE
      OBVIOUS
    <3>1. replies[q].by = asks[replies[q].ask].by /\ <<replies[q].by, replies[q].ask>> \notin pending
      BY DEF VoiceInv, HeldOnce, Held
    <3> QED
      BY <1>1, <1>3, <2>5, <3>1
  <2>8. HeldOnce'
    <3> SUFFICES ASSUME NEW q \in DOMAIN replies
                 PROVE  (HasIt(q)' => Held(q)') /\ (replies'[q].at = "checking" => ~replies'[q].taken)
      BY <2>1 DEF HeldOnce
    <3>1. CASE q = r
      <4>0. \A p \in DOMAIN replies' : HasIt(p)' /\ replies'[p].ask = replies'[r].ask => p = r
        <5> SUFFICES ASSUME NEW p \in DOMAIN replies', HasIt(p)', replies'[p].ask = replies'[r].ask, p # r
                     PROVE  FALSE
          OBVIOUS
        <5>1. p \in DOMAIN replies /\ replies[p].ask = replies[r].ask
          BY <2>1
        <5>2. HasIt(p)
          BY <2>6, <5>1
        <5> QED
          BY <2>7, <5>1, <5>2
      <4>1. Held(r)'
        <5>1. /\ replies'[r].by = replies[r].by /\ replies'[r].ask = replies[r].ask
              /\ replies'[r].yes = replies[r].yes
          BY <2>1
        <5>2. replies'[r].yes /\ replies'[r].by = asks'[replies'[r].ask].by
          BY <1>1, <1>3, <2>5, <5>1
        <5>3. <<replies'[r].by, replies'[r].ask>> \notin pending'
          BY <1>1, <5>1
        <5> QED
          BY <4>0, <5>2, <5>3 DEF Held
      <4> QED
        BY <2>1, <3>1, <4>1
    <3>2. CASE q # r
      <4>1. HasIt(q) => Held(q)
        BY DEF VoiceInv, HeldOnce
      <4>2. HasIt(q) => Held(q)'
        BY <1>1, <2>1, <2>6, <2>7, <3>2, <4>1 DEF Held
      <4> QED
        BY <2>1, <2>6, <3>2, <4>2 DEF VoiceInv, HeldOnce
    <3> QED
      BY <3>1, <3>2
  <2> QED
    BY <2>2, <2>3, <2>4, <2>8 DEF VoiceInv
<1> QED
  BY <1>2, <1>3 DEF TakeReadback, Tell

LEMMA NextVoiceInv == VoiceInv /\ [VoiceNext]_voice => VoiceInv'
<1> SUFFICES ASSUME VoiceInv, [VoiceNext]_voice PROVE VoiceInv'
  OBVIOUS
<1>1. CASE UNCHANGED voice
  BY <1>1 DEF voice, VoiceInv, VoiceOK, Kept, Answered, HeldOnce, HasIt, Held
<1>2. CASE CheckGateway \/ VoiceTick \/ \E a \in Built : AdapterChanges(a)
  BY <1>2, PolicyKeeps
<1>3. ASSUME NEW c \in Callers, NEW typed \in BOOLEAN, Ask(c, typed) PROVE VoiceInv'
  BY <1>3, AskKeeps
<1>4. ASSUME NEW c \in Callers, NEW x \in DOMAIN asks, NEW yes \in BOOLEAN, Reply(c, x, yes) PROVE VoiceInv'
  BY <1>4, ReplyKeeps
<1>5. ASSUME NEW x \in DOMAIN asks,
             CheckAsker(x) \/ GiveUp(x) \/ Hear(x) \/ See(x) \/ \E s \in Sayings : Think(x, s)
      PROVE  VoiceInv'
  BY <1>5, MovesKeep
<1>6. ASSUME NEW x \in DOMAIN asks, Keep(x) PROVE VoiceInv'
  BY <1>6, KeepKeeps
<1>7. ASSUME NEW r \in DOMAIN replies, TakeReadback(r) PROVE VoiceInv'
  BY <1>7, TakeKeeps
<1>8. ASSUME NEW r \in DOMAIN replies, CheckFails(r) \/ TrackDoesNot(r) \/ TrackAnswers(r) PROVE VoiceInv'
  <2>1. PICK saying \in {"nothing", "cancelled", "sent", "not accepted", "cannot see"} :
            replies' = [replies EXCEPT ![r].at = "over", ![r].told = saying]
    BY <1>8 DEF CheckFails, TrackDoesNot, TrackAnswers, Tell
  <2>2. UNCHANGED policy /\ UNCHANGED <<asks, pending, since>>
    BY <1>8 DEF CheckFails, TrackDoesNot, TrackAnswers
  <2>3. replies[r].taken \in BOOLEAN /\ (replies[r].taken => HasIt(r))
    <3>1. replies[r] \in Answers
      BY VoiceFacts, Swapped DEF VoiceInv
    <3> QED
      BY <3>1 DEF Answers, HasIt
  <2> QED
    BY <2>1, <2>2, <2>3, AnswerKeeps
<1>9. ASSUME NEW r \in DOMAIN replies, TrackTakesIt(r) PROVE VoiceInv'
  <2>1. /\ replies[r].at = "issuing" /\ replies' = [replies EXCEPT ![r].at = "answering", ![r].taken = TRUE]
        /\ UNCHANGED policy /\ UNCHANGED <<asks, pending, since>>
    BY <1>9 DEF TrackTakesIt
  <2>2. HasIt(r)
    BY <2>1 DEF HasIt
  <2> QED
    BY <2>1, <2>2, AnswerKeeps
<1> QED
  BY <1>1, <1>2, <1>3, <1>4, <1>5, <1>6, <1>7, <1>8, <1>9 DEF VoiceNext

THEOREM SpecVoiceInv == VoiceSpec => []VoiceInv
  BY InitVoiceInv, NextVoiceInv, PTL DEF VoiceSpec

\* Sentences, readbacks and answers keep their types; every order is made of
\* machines, places and words that are known.
THEOREM SpecVoiceOK == VoiceSpec => []VoiceOK
<1>1. VoiceInv => VoiceOK
  BY DEF VoiceInv
<1> QED
  BY <1>1, SpecVoiceInv, PTL

\* A readback is worth one order at most, and that to the operator who was asked.
THEOREM SpecOneOrderPerReadback == VoiceSpec => []OneOrderPerReadback
<1>1. VoiceInv => OneOrderPerReadback
  BY DEF VoiceInv, HeldOnce, Held, HasIt, OneOrderPerReadback
<1> QED
  BY <1>1, SpecVoiceInv, PTL

------------------------------------------------------------------------------
(* The gateway's check.                                                       *)

\* What is offered was reported usable, and no adapter has come or gone since.
Offered ==
    \A job \in offers : \E i \in DOMAIN profile.adapters[job] : Reported(profile.adapters[job][i])

\* A set of naturals that is not empty has a least element.
LEMMA Least ==
  ASSUME NEW S \in SUBSET Nat, S # {}
  PROVE  \E n \in S : \A m \in S : n <= m
<1> DEFINE less == OpToRel(<, Nat)
<1>1. IsWellFoundedOn(less, Nat)
  BY NatLessThanWellFounded
<1>2. \A m, n \in Nat : m < n => <<m, n>> \in less
  BY DEF OpToRel
<1> HIDE DEF less
<1>3. PICK n \in S : \A m \in S : ~ (<<m, n>> \in less)
  BY <1>1, WFMin
<1>4. \A m \in S : ~ (m < n)
  BY <1>2, <1>3, Zenon
<1>5. n \in Nat /\ \A m \in S : m \in Nat
  OBVIOUS
<1> QED
  BY <1>3, <1>4, <1>5

LEMMA InitOffered == VoiceInit => Offered
  BY DEF VoiceInit, Offered

LEMMA NextOffered == Offered /\ [VoiceNext]_voice => Offered'
<1> SUFFICES ASSUME Offered, [VoiceNext]_voice PROVE Offered'
  OBVIOUS
<1>1. CASE CheckGateway
  <2>1. /\ offers' = {job \in Capabilities : \E i \in DOMAIN profile.adapters[job] :
                          Reported(profile.adapters[job][i])}
        /\ UNCHANGED <<profile, leaving, usable>>
    BY <1>1 DEF CheckGateway
  <2> QED
    BY <2>1 DEF Offered, Reported, ReportedUsable, Allowed
<1>2. ASSUME NEW a \in Built, AdapterChanges(a) PROVE Offered'
  BY <1>2 DEF AdapterChanges, Offered
<1>3. CASE UNCHANGED policy
  BY <1>3 DEF policy, Offered, Reported, ReportedUsable, Allowed
<1>4. CASE UNCHANGED voice
  BY <1>3, <1>4 DEF voice, policy
<1>5. CASE VoiceTick
  BY <1>3, <1>5 DEF VoiceTick
<1>6. ASSUME NEW c \in Callers,
             \/ \E typed \in BOOLEAN : Ask(c, typed)
             \/ \E x \in DOMAIN asks, yes \in BOOLEAN : Reply(c, x, yes)
      PROVE  Offered'
  BY <1>3, <1>6 DEF Ask, Reply
<1>7. ASSUME NEW x \in DOMAIN asks,
             \/ CheckAsker(x) \/ GiveUp(x) \/ Hear(x) \/ See(x) \/ Keep(x)
             \/ \E s \in Sayings : Think(x, s)
      PROVE  Offered'
  BY <1>3, <1>7 DEF CheckAsker, GiveUp, Hear, See, Keep, Think
<1>8. ASSUME NEW r \in DOMAIN replies,
             CheckFails(r) \/ TakeReadback(r) \/ TrackTakesIt(r) \/ TrackDoesNot(r) \/ TrackAnswers(r)
      PROVE  Offered'
  BY <1>3, <1>8 DEF CheckFails, TakeReadback, TrackTakesIt, TrackDoesNot, TrackAnswers
<1> QED
  BY <1>1, <1>2, <1>4, <1>5, <1>6, <1>7, <1>8 DEF VoiceNext

\* An adapter reported usable for a well-formed profile serves its job, and the
\* first one that does is picked: what comes before it is carried and skipped.
LEMMA ReportedIsPicked ==
  ASSUME VoiceOK, WellFormed, NEW job \in Capabilities,
         NEW i \in DOMAIN profile.adapters[job], Reported(profile.adapters[job][i])
  PROVE  Picked(job) # {}
<1> DEFINE names == profile.adapters[job]
           serving == {j \in DOMAIN names : Serves(job, names[j])}
<1>1. job \in DOMAIN profile.adapters /\ Len(names) \in Nat /\ DOMAIN names = 1..Len(names)
  BY VoiceAssumption DEF VoiceOK
<1>2. \A j \in DOMAIN names : names[j] \in Built /\ job \in Does[names[j]]
  BY DEF WellFormed
<1>3. i \in serving
  BY <1>2 DEF Reported, ReportedUsable, Serves
<1>4. serving \in SUBSET Nat
  BY <1>1
<1>5. PICK first \in serving : \A j \in serving : first <= j
  BY <1>3, <1>4, Least
<1>6. \A k \in 1..first - 1 : k \in DOMAIN names /\ k \notin serving
  <2>1. first \in 1..Len(names)
    BY <1>1, <1>5
  <2>2. \A k \in 1..first - 1 : k \in 1..Len(names) /\ ~(first <= k)
    BY <1>1, <2>1
  <2> QED
    BY <1>1, <1>5, <2>2
<1>7. names[first] \in Picked(job)
  <2>1. \A k \in 1..first - 1 : names[k] \in Built /\ ~Serves(job, names[k])
    BY <1>2, <1>6
  <2>2. first \in DOMAIN names /\ Serves(job, names[first])
    BY <1>5
  <2> HIDE DEF serving
  <2> QED
    BY <2>1, <2>2 DEF Picked
<1> QED
  BY <1>7

\* What is picked is carried, named by the profile, and allowed by its policy.
LEMMA PickedIsAllowed ==
  ASSUME VoiceOK, NEW job \in Capabilities, NEW name \in Picked(job)
  PROVE  name \in Built /\ Allowed(name) /\ name \in Named
<1>1. job \in DOMAIN profile.adapters
  BY VoiceAssumption DEF VoiceOK
<1> DEFINE names == profile.adapters[job]
<1>2. PICK i \in DOMAIN names : name = names[i] /\ Serves(job, name)
  BY DEF Picked
<1>3. name \in Named
  BY <1>1, <1>2 DEF Named
<1> QED
  BY <1>2, <1>3 DEF Serves

\* The check offers no job that no adapter serves, and says that nothing leaves
\* the machine only where nothing can.
THEOREM SpecCheckIsTrue == VoiceSpec => []CheckIsTrue
<1>1. VoiceOK /\ Offered => CheckIsTrue
  <2> SUFFICES ASSUME VoiceOK, Offered PROVE CheckIsTrue
    OBVIOUS
  <2>1. WellFormed => \A job \in offers : Picked(job) # {}
    <3> SUFFICES ASSUME WellFormed, NEW job \in offers PROVE Picked(job) # {}
      OBVIOUS
    <3>1. job \in Capabilities
      BY DEF VoiceOK
    <3>2. PICK i \in DOMAIN profile.adapters[job] : Reported(profile.adapters[job][i])
      BY DEF Offered
    <3> QED
      BY <3>1, <3>2, ReportedIsPicked
  <2>2. ASSUME AnythingLeaves = "no" \/ ~profile.cloud, NEW job \in Capabilities,
               NEW name \in Picked(job)
        PROVE  name \notin leaving
    <3>1. name \in Built /\ Allowed(name) /\ name \in Named
      BY PickedIsAllowed
    <3>2. AnythingLeaves = "no" => Named \cap Built \cap leaving = {}
      BY DEF AnythingLeaves
    <3> QED
      BY <2>2, <3>1, <3>2 DEF Allowed
  <2> QED
    BY <2>1, <2>2 DEF CheckIsTrue
<1>2. VoiceSpec => []Offered
  BY InitOffered, NextOffered, PTL DEF VoiceSpec
<1> QED
  BY <1>1, <1>2, SpecVoiceOK, PTL

------------------------------------------------------------------------------
(* Systems.                                                                   *)

\* A registry with a word on the health of each of its drivers, in their order.
SpokenFor(registry) ==
    /\ DOMAIN registry.drivers \subseteq Nat
    /\ DOMAIN registry.health = DOMAIN registry.drivers
    /\ \A d \in DOMAIN registry.drivers : registry.health[d].driver = registry.drivers[d].name

\* The store keeps the registry told last, whatever else was told since.
SystemsInv ==
    /\ fitted \in Fittings
    /\ said # Empty => Described /\ listed["registry"] = said /\ SpokenFor(said)

LEMMA SystemsStart == SystemsInit => SystemsInv
  BY DEF SystemsInit, SystemsInv

\* What a merge keeps.
LEMMA Merging ==
  ASSUME NEW old, NEW new
  PROVE  /\ DOMAIN PutPayload(old, new) = DOMAIN old \cup DOMAIN new
         /\ \A key \in DOMAIN new : PutPayload(old, new)[key] = new[key]
         /\ \A key \in DOMAIN old \ DOMAIN new : PutPayload(old, new)[key] = old[key]
  BY DEF PutPayload, Merged

\* A registry is taken in whole.
LEMMA RegistryTaken ==
  ASSUME SystemsInv, NEW registry, SpokenFor(registry), OnRegistry(registry)
  PROVE  SystemsInv'
<1> DEFINE payload == [registry |-> registry]
<1>1. /\ listed' = PutPayload(listed, payload) /\ said' = registry /\ fitted' = fitted
  BY DEF OnRegistry, Absorb
<1>2. DOMAIN payload = {"registry"} /\ payload["registry"] = registry
  OBVIOUS
<1> HIDE DEF payload
<1>3. listed' = PutPayload(listed, payload)
  BY <1>1
<1>4. PutPayload(listed, payload)["registry"] = payload["registry"]
  <2>1. "registry" \in DOMAIN listed \cup DOMAIN payload /\ "registry" \in DOMAIN payload
    BY <1>2
  <2> QED
    BY <2>1 DEF PutPayload, Merged
<1>5. DOMAIN listed' = DOMAIN listed \cup DOMAIN payload
  BY <1>3, Merging, Zenon
<1>6. Described' /\ listed'["registry"] = registry
  BY <1>2, <1>5, <1>3, <1>4 DEF Described
<1>7. SpokenFor(said')
  BY <1>1
<1> QED
  BY <1>1, <1>6, <1>7 DEF SystemsInv, SpokenFor

LEMMA SystemsStep ==
  ASSUME SystemsInv, [SystemsNext]_systems
  PROVE  SystemsInv'
<1>1. CASE UNCHANGED <<fitted, listed, said>>
  BY <1>1 DEF SystemsInv, Described, SpokenFor
<1>2. ASSUME NEW name \in Names, OnRegistry(Snapshot(name)) PROVE SystemsInv'
  <2>1. DOMAIN fitted \subseteq Nat
    BY SystemsAssumption DEF SystemsInv
  <2>2. Snapshot(name).drivers = fitted /\ Snapshot(name).health = Health
    BY DEF Snapshot
  <2>3. SpokenFor(Snapshot(name))
    BY <2>1, <2>2 DEF SpokenFor, Health, Drivers
  <2> QED
    BY <1>2, <2>3, RegistryTaken
<1>3. ASSUME NEW name \in Names, OnRegistry(Declaration(name)) PROVE SystemsInv'
  <2>1. Declaration(name).drivers = <<>> /\ Declaration(name).health = <<>>
    BY DEF Declaration
  <2>2. DOMAIN <<>> = {}
    OBVIOUS
  <2>3. SpokenFor(Declaration(name))
    BY <2>1, <2>2 DEF SpokenFor
  <2> QED
    BY <1>3, <2>3, RegistryTaken
<1>4. CASE Absorb([extra |-> received]) /\ UNCHANGED <<called, said>>
  <2> DEFINE payload == [extra |-> received]
  <2>1. listed' = PutPayload(listed, payload) /\ fitted' = fitted /\ said' = said
    BY <1>4 DEF Absorb
  <2>2. "registry" \notin DOMAIN payload
    OBVIOUS
  <2> HIDE DEF payload
  <2>4. /\ DOMAIN listed' = DOMAIN listed \cup DOMAIN payload
        /\ \A key \in DOMAIN listed \ DOMAIN payload : listed'[key] = listed[key]
    BY <2>1, Merging, Zenon
  <2>3. Described => Described' /\ listed'["registry"] = listed["registry"]
    BY <2>2, <2>4 DEF Described
  <2> QED
    BY <2>1, <2>3 DEF SystemsInv, SpokenFor
<1>5. CASE \E d \in Drivers : WorksDifferently(d) \/ FindsDifferently(d)
  BY <1>1, <1>5 DEF WorksDifferently, FindsDifferently
<1>6. CASE \E name \in Names : UpsertAsset(name)
  BY <1>1, <1>6 DEF UpsertAsset
<1>7. CASE OnHeartbeat \/ QuietFor \/ DeclaredLost
  BY <1>1, <1>7 DEF OnHeartbeat, QuietFor, DeclaredLost
<1>8. CASE OnTelemetry
  BY <1>2, <1>3, <1>4, <1>8 DEF OnTelemetry
<1>9. CASE UNCHANGED systems
  BY <1>1, <1>9 DEF systems
<1> QED
  BY <1>5, <1>6, <1>7, <1>8, <1>9 DEF SystemsNext

\* The row of a driver whose name no other has tells that driver's health.
LEMMA RowTells ==
  ASSUME SystemsInv, said # Empty, NEW d \in DOMAIN said.drivers, Alone(d)
  PROVE  /\ ~said.health[d].healthy => State(said.drivers[d]) = "act"
         /\ said.health[d].healthy /\ MissesOwn(d) => State(said.drivers[d]) = "warn"
<1>1. Registry = said /\ SpokenFor(said)
  BY DEF SystemsInv, Registry
<1> DEFINE named == {i \in DOMAIN said.health : said.health[i].driver = said.drivers[d].name}
<1>2. named = {d} /\ d \in Nat
  BY <1>1 DEF SpokenFor, Alone
<1> HIDE DEF named
<1>3. (CHOOSE i \in named : \A j \in named : j <= i) = d
  BY <1>2
<1>4. Entry(said.drivers[d]) = IF said.health[d].healthy THEN "healthy" ELSE "unhealthy"
  <2>1. Entry(said.drivers[d]) =
          IF named = {} THEN Unsaid
          ELSE IF said.health[CHOOSE i \in named : \A j \in named : j <= i].healthy
               THEN "healthy" ELSE "unhealthy"
    BY <1>1 DEF Entry, named
  <2> QED
    BY <1>2, <1>3, <2>1
<1>5. MissesOwn(d) => HardwareMissing(said.drivers[d])
  BY <1>1 DEF MissesOwn, HardwareMissing
<1> QED
  BY <1>4, <1>5 DEF State, Unsaid

\* For any machine, whatever it sent and whatever was noted about it since, in any
\* order: its rows tell the trouble it last reported, of every driver that shares
\* its name with no other (worldmodel.py systems_view, store.py put_payload).
THEOREM SpecTroubleIsShown == SystemsSpec => []TroubleIsShown
<1>1. SystemsInv => TroubleIsShown
  <2> SUFFICES ASSUME SystemsInv, said # Empty PROVE TroubleIsShown
    BY DEF TroubleIsShown
  <2>1. Registry = said /\ Described
    BY DEF SystemsInv, Registry
  <2>2. View.described = Described /\ View.rows = Rows /\ View.cameras = Cameras
    BY DEF View
  <2>3. DOMAIN Rows = DOMAIN said.drivers
    BY <2>1 DEF Rows
  <2>4. ASSUME NEW d \in DOMAIN said.drivers PROVE Rows[d].state = State(said.drivers[d])
    BY <2>1 DEF Rows, Row
  <2>5. ASSUME NEW d \in DOMAIN said.drivers, said.drivers[d].kind = "sensor", MissesOwn(d)
        PROVE  \E i \in DOMAIN Cameras : Cameras[i] = "off"
    <3>1. PICK i \in DOMAIN said.devices :
             said.devices[i].driver = said.drivers[d].name /\ said.devices[i].present = "no"
      BY <2>5 DEF MissesOwn
    <3>2. IsCamera(said.devices[i])
      BY <2>1, <2>5, <3>1 DEF IsCamera
    <3>3. i \in DOMAIN Cameras /\ Cameras[i] = Shown[said.devices[i].present]
      BY <2>1, <3>1, <3>2 DEF Cameras
    <3>4. Shown["no"] = "off"
      BY DEF Shown
    <3> QED
      BY <3>1, <3>3, <3>4
  <2> QED
    BY <2>1, <2>2, <2>3, <2>4, <2>5, RowTells DEF TroubleIsShown
<1> QED
  BY <1>1, SystemsStart, SystemsStep, PTL DEF SystemsSpec

\* What counts up to a bound stays within it.
LEMMA CountsUp ==
  ASSUME NEW n \in Nat
  PROVE  0 \in 0..n /\ \A m \in 0..n : m < n => m + 1 \in 0..n
  OBVIOUS

LEMMA SystemsTyped == SystemsInit => SystemsOK
<1>1. MaxSaid \in Nat
  BY SystemsAssumption, Zenon
<1>2. ASSUME SystemsInit PROVE DOMAIN listed = {} /\ received \in 0..MaxSaid
  <2>1. listed = <<>> /\ received = 0 /\ 0 \in 0..MaxSaid
    BY <1>1, <1>2, CountsUp, Zenon DEF SystemsInit, Empty
  <2>2. DOMAIN <<>> = {}
    OBVIOUS
  <2> QED
    BY <2>1, <2>2, Zenon
<1> QED
  BY <1>2 DEF SystemsInit, SystemsOK, Drivers

\* A payload handled adds its keys and counts once.
LEMMA AbsorbTyped ==
  ASSUME SystemsOK, NEW payload, DOMAIN payload \subseteq {"registry", "extra"},
         Absorb(payload), called' \in Names \cup {""}
  PROVE  SystemsOK'
<1>1. DOMAIN listed' \subseteq {"registry", "extra"}
  <2>1. DOMAIN PutPayload(listed, payload) = DOMAIN listed \cup DOMAIN payload
    BY Merging, Zenon
  <2>2. listed' = PutPayload(listed, payload) /\ DOMAIN listed \subseteq {"registry", "extra"}
    BY DEF Absorb, SystemsOK
  <2> QED
    BY <2>1, <2>2
<1>2. received' \in 0..MaxSaid
  <2>1. MaxSaid \in Nat
    BY SystemsAssumption, Zenon
  <2>2. received < MaxSaid /\ received' = received + 1 /\ received \in 0..MaxSaid
    BY DEF Absorb, SystemsOK
  <2> QED
    BY <2>1, <2>2, CountsUp, Zenon
<1>3. UNCHANGED <<fitted, works, found, heardLast, online>>
  BY DEF Absorb
<1> QED
  BY <1>1, <1>2, <1>3 DEF SystemsOK, Drivers

LEMMA RegistryTyped ==
  ASSUME SystemsOK, NEW registry, registry.name \in Names, OnRegistry(registry)
  PROVE  SystemsOK'
<1> DEFINE payload == [registry |-> registry]
<1>1. DOMAIN payload = {"registry"}
  OBVIOUS
<1>2. Absorb(payload) /\ called' = registry.name
  BY DEF OnRegistry
<1> HIDE DEF payload
<1> QED
  BY <1>1, <1>2, AbsorbTyped

LEMMA SystemsKeepTypes == SystemsOK /\ [SystemsNext]_systems => SystemsOK'
<1> SUFFICES ASSUME SystemsOK, [SystemsNext]_systems PROVE SystemsOK'
  OBVIOUS
<1>1. ASSUME NEW d \in Drivers, WorksDifferently(d) \/ FindsDifferently(d) PROVE SystemsOK'
  BY <1>1 DEF WorksDifferently, FindsDifferently, SystemsOK, Drivers, Unsaid
<1>2. CASE OnTelemetry
  <2>1. ASSUME NEW name \in Names, OnRegistry(Snapshot(name)) PROVE SystemsOK'
    <3>1. Snapshot(name).name = name
      BY DEF Snapshot
    <3> QED
      BY <2>1, <3>1, RegistryTyped
  <2>2. ASSUME NEW name \in Names, OnRegistry(Declaration(name)) PROVE SystemsOK'
    <3>1. Declaration(name).name = name
      BY DEF Declaration
    <3> QED
      BY <2>2, <3>1, RegistryTyped
  <2>3. CASE Absorb([extra |-> received]) /\ UNCHANGED <<called, said>>
    <3> DEFINE payload == [extra |-> received]
    <3>1. DOMAIN payload = {"extra"} /\ Absorb(payload) /\ called' \in Names \cup {""}
      BY <2>3 DEF SystemsOK
    <3> HIDE DEF payload
    <3> QED
      BY <3>1, AbsorbTyped
  <2> QED
    BY <1>2, <2>1, <2>2, <2>3 DEF OnTelemetry
<1>3. ASSUME NEW name \in Names, UpsertAsset(name) PROVE SystemsOK'
  BY <1>3 DEF UpsertAsset, SystemsOK, Drivers
<1>4. CASE OnHeartbeat \/ QuietFor \/ DeclaredLost
  BY <1>4 DEF OnHeartbeat, QuietFor, DeclaredLost, SystemsOK, Drivers
<1>5. CASE UNCHANGED systems
  BY <1>5 DEF systems, SystemsOK, Drivers
<1> QED
  BY <1>1, <1>2, <1>3, <1>4, <1>5 DEF SystemsNext

------------------------------------------------------------------------------
(* Contacts.                                                                  *)

\* Of a track in a zone that alerts both ways: the feed's last word, or what the
\* handler still owes, is the zone table's.
Tells(t, z) ==
    z \in inside[t] <=>
        \/ [kind |-> "entry", track |-> t, zone |-> z] \in owed
        \/ /\ [kind |-> "exit", track |-> t, zone |-> z] \notin owed
           /\ fed[<<t, z>>] = "entry"

\* No alert and its opposite are owed at once.
OneWord(t, z) ==
    ~ /\ [kind |-> "entry", track |-> t, zone |-> z] \in owed
      /\ [kind |-> "exit", track |-> t, zone |-> z] \in owed

EntryAlert(t, z) == [kind |-> "entry", track |-> t, zone |-> z]
ExitAlert(t, z) == [kind |-> "exit", track |-> t, zone |-> z]

ZonesInv ==
    /\ drawn \in SUBSET Zones
    /\ inside \in [Ids -> SUBSET Zones]
    /\ \A a \in owed : a = EntryAlert(a.track, a.zone) \/ a = ExitAlert(a.track, a.zone)
    /\ fed \in [Ids \X Zones -> {"none", "entry", "exit"}]
    /\ ~crashed => \A t \in Ids, z \in Zones :
                      Rules[z] = {"entry", "exit"} => Tells(t, z) /\ OneWord(t, z)

LEMMA AlertFields ==
  \A t, z : /\ EntryAlert(t, z).kind = "entry" /\ EntryAlert(t, z).track = t /\ EntryAlert(t, z).zone = z
            /\ ExitAlert(t, z).kind = "exit" /\ ExitAlert(t, z).track = t /\ ExitAlert(t, z).zone = z
  BY DEF EntryAlert, ExitAlert

\* An alert tells its track and its zone, and an entry from an exit.
LEMMA AlertsDiffer ==
  \A t, u, y, z : /\ EntryAlert(t, y) = EntryAlert(u, z) => t = u /\ y = z
                  /\ ExitAlert(t, y) = ExitAlert(u, z) => t = u /\ y = z
                  /\ EntryAlert(t, y) # ExitAlert(u, z)
<1> SUFFICES ASSUME NEW t, NEW u, NEW y, NEW z
             PROVE  /\ EntryAlert(t, y) = EntryAlert(u, z) => t = u /\ y = z
                    /\ ExitAlert(t, y) = ExitAlert(u, z) => t = u /\ y = z
                    /\ EntryAlert(t, y) # ExitAlert(u, z)
  OBVIOUS
<1>1. EntryAlert(t, y).kind # ExitAlert(u, z).kind
  BY AlertFields
<1> QED
  BY <1>1, AlertFields

\* What a track's new place owes the feed.
LEMMA AlertsOwed ==
  ASSUME NEW t, NEW place
  PROVE  /\ \A a \in AlertsOf(t, place) : a = EntryAlert(a.track, a.zone) \/ a = ExitAlert(a.track, a.zone)
         /\ \A u, z : EntryAlert(u, z) \in AlertsOf(t, place)
                      <=> u = t /\ z \in Entered(t, place) /\ "entry" \in Rules[z]
         /\ \A u, z : ExitAlert(u, z) \in AlertsOf(t, place)
                      <=> u = t /\ z \in Exited(t, place) /\ "exit" \in Rules[z]
<1> DEFINE I == {z \in Entered(t, place) : "entry" \in Rules[z]}
           O == {z \in Exited(t, place) : "exit" \in Rules[z]}
           In == [kind : {"entry"}, track : {t}, zone : I]
           Out == [kind : {"exit"}, track : {t}, zone : O]
<1>1. AlertsOf(t, place) = In \cup Out
  BY DEF AlertsOf
<1> HIDE DEF I, O
<1>2. \A a \in In : a = EntryAlert(t, a.zone) /\ a.track = t /\ a.zone \in I
  BY DEF EntryAlert
<1>3. \A a \in Out : a = ExitAlert(t, a.zone) /\ a.track = t /\ a.zone \in O
  BY DEF ExitAlert
<1>4. \A z \in I : EntryAlert(t, z) \in In
  BY DEF EntryAlert
<1>5. \A z \in O : ExitAlert(t, z) \in Out
  BY DEF ExitAlert
<1> HIDE DEF In, Out
<1>6. \A u, z : EntryAlert(u, z) \in AlertsOf(t, place) <=> u = t /\ z \in I
  BY <1>1, <1>2, <1>3, <1>4, AlertsDiffer
<1>7. \A u, z : ExitAlert(u, z) \in AlertsOf(t, place) <=> u = t /\ z \in O
  BY <1>1, <1>2, <1>3, <1>5, AlertsDiffer
<1>8. \A a \in AlertsOf(t, place) : a = EntryAlert(a.track, a.zone) \/ a = ExitAlert(a.track, a.zone)
  BY <1>1, <1>2, <1>3
<1> QED
  BY <1>6, <1>7, <1>8 DEF I, O

\* Evaluating a track whose alerts are all out keeps the tables in step.
LEMMA EvaluateKeeps ==
  ASSUME ZonesInv, owed = {}, NEW t, NEW place, Evaluate(t, place),
         fed' = fed, drawn' = drawn, crashed' = crashed
  PROVE  ZonesInv'
<1>0. /\ inside' = [inside EXCEPT ![t] = ZonesAt(place)] /\ owed' = AlertsOf(t, place)
      /\ ZonesAt(place) \in SUBSET Zones
  BY DEF Evaluate, Members, ZonesAt, ZonesInv
<1>1. inside' \in [Ids -> SUBSET Zones]
  BY <1>0 DEF ZonesInv
<1>2. \A a \in owed' : a = EntryAlert(a.track, a.zone) \/ a = ExitAlert(a.track, a.zone)
  BY <1>0, AlertsOwed
<1>3. ASSUME ~crashed, NEW u \in Ids, NEW z \in Zones, Rules[z] = {"entry", "exit"}
      PROVE  Tells(u, z)' /\ OneWord(u, z)'
  <2>1. z \in inside[u] <=> fed[<<u, z>>] = "entry"
    BY <1>3 DEF ZonesInv, Tells
  <2>2. "entry" \in Rules[z] /\ "exit" \in Rules[z]
    BY <1>3
  <2>3. /\ EntryAlert(u, z) \in owed' <=> u = t /\ z \in ZonesAt(place) \ inside[t]
        /\ ExitAlert(u, z) \in owed' <=> u = t /\ z \in inside[t] \ ZonesAt(place)
    BY <1>0, <2>2, AlertsOwed DEF Entered, Exited
  <2>4. CASE u = t
    <3>1. inside'[u] = ZonesAt(place)
      BY <1>0, <2>4 DEF ZonesInv
    <3> QED
      BY <2>1, <2>3, <2>4, <3>1 DEF Tells, OneWord, EntryAlert, ExitAlert
  <2>5. CASE u # t
    <3>1. inside'[u] = inside[u]
      BY <1>0, <2>5 DEF ZonesInv
    <3> QED
      BY <2>1, <2>3, <2>5, <3>1 DEF Tells, OneWord, EntryAlert, ExitAlert
  <2> QED
    BY <2>4, <2>5
<1> QED
  BY <1>1, <1>2, <1>3 DEF ZonesInv

LEMMA ZonesInit == ContactsInit => ZonesInv
  BY DEF ContactsInit, ZonesInv, Tells, OneWord

LEMMA ZonesNext == ZonesInv /\ [ContactsNext]_contacts => ZonesInv'
<1> SUFFICES ASSUME ZonesInv, [ContactsNext]_contacts PROVE ZonesInv'
  OBVIOUS
<1>1. CASE UNCHANGED <<drawn, inside, owed, fed, crashed>>
  BY <1>1 DEF ZonesInv, Tells, OneWord
<1>2. ASSUME NEW s \in Sightings, Observe(s) PROVE ZonesInv'
  <2>1. owed = {} /\ UNCHANGED <<drawn, fed, crashed>>
    BY <1>2 DEF Observe
  <2>2. \E t, place : Evaluate(t, place)
    BY <1>2 DEF Observe, UpdateSame, UpdateNearest, Create, Update
  <2> QED
    BY <2>1, <2>2, EvaluateKeeps
<1>3. ASSUME NEW a \in owed, Alert(a) PROVE ZonesInv'
  <2>1. /\ owed' = owed \ {a} /\ fed' = [fed EXCEPT ![<<a.track, a.zone>>] = a.kind]
        /\ UNCHANGED <<drawn, inside, crashed>>
    BY <1>3 DEF Alert
  <2>2. a = EntryAlert(a.track, a.zone) \/ a = ExitAlert(a.track, a.zone)
    BY DEF ZonesInv
  <2>3. a.kind \in {"entry", "exit"}
    BY <2>2, AlertFields
  <2>4. fed' \in [Ids \X Zones -> {"none", "entry", "exit"}]
    BY <2>1, <2>3 DEF ZonesInv
  <2>5. ASSUME ~crashed, NEW t \in Ids, NEW z \in Zones, Rules[z] = {"entry", "exit"}
        PROVE  Tells(t, z)' /\ OneWord(t, z)'
    <3>0. Tells(t, z) /\ OneWord(t, z)
      BY <2>5 DEF ZonesInv
    <3>1. CASE a = EntryAlert(t, z)
      <4>1. a.kind = "entry" /\ a.track = t /\ a.zone = z
        BY <3>1, AlertFields
      <4>2. fed'[<<t, z>>] = "entry"
        BY <2>1, <4>1 DEF ZonesInv
      <4>3. ExitAlert(t, z) \notin owed' /\ EntryAlert(t, z) \notin owed' /\ z \in inside[t]
        BY <2>1, <3>0, <3>1 DEF Tells, OneWord, EntryAlert, ExitAlert
      <4> QED
        BY <2>1, <4>2, <4>3 DEF Tells, OneWord, EntryAlert, ExitAlert
    <3>2. CASE a = ExitAlert(t, z)
      <4>1. a.kind = "exit" /\ a.track = t /\ a.zone = z
        BY <3>2, AlertFields
      <4>2. fed'[<<t, z>>] = "exit"
        BY <2>1, <4>1 DEF ZonesInv
      <4>3. ExitAlert(t, z) \notin owed' /\ EntryAlert(t, z) \notin owed' /\ z \notin inside[t]
        BY <2>1, <3>0, <3>2 DEF Tells, OneWord, EntryAlert, ExitAlert
      <4> QED
        BY <2>1, <4>2, <4>3 DEF Tells, OneWord, EntryAlert, ExitAlert
    <3>3. CASE a # EntryAlert(t, z) /\ a # ExitAlert(t, z)
      <4>1. <<a.track, a.zone>> # <<t, z>>
        BY <2>2, <3>3
      <4>2. fed'[<<t, z>>] = fed[<<t, z>>]
        BY <2>1, <4>1 DEF ZonesInv
      <4>3. /\ ExitAlert(t, z) \in owed' <=> ExitAlert(t, z) \in owed
            /\ EntryAlert(t, z) \in owed' <=> EntryAlert(t, z) \in owed
        BY <2>1, <3>3
      <4> QED
        BY <2>1, <3>0, <4>2, <4>3 DEF Tells, OneWord, EntryAlert, ExitAlert
    <3> QED
      BY <3>1, <3>2, <3>3
  <2> QED
    BY <2>1, <2>4, <2>5 DEF ZonesInv
<1>4. CASE Age \/ Sweep
  BY <1>1, <1>4 DEF Age, Sweep
<1>5. ASSUME NEW z \in Zones, CreateZone(z) PROVE ZonesInv'
  BY <1>5 DEF CreateZone, ZonesInv, Tells, OneWord
<1>6. CASE RestartTrack
  BY <1>6 DEF RestartTrack, ZonesInv
<1>7. CASE UNCHANGED contacts
  BY <1>1, <1>7 DEF contacts
<1> QED
  BY <1>2, <1>3, <1>4, <1>5, <1>6, <1>7 DEF ContactsNext

\* Once a handler's alerts are out, the feed's last word on a track and a zone is
\* what the zone table says, for any contacts, zones and observations.
THEOREM SpecFeedTellsWhere == ContactsSpec => []FeedTellsWhere
<1>1. ZonesInv => FeedTellsWhere
  <2> SUFFICES ASSUME ZonesInv, owed = {}, ~crashed, NEW t \in Ids, NEW z \in Zones,
                      Rules[z] = {"entry", "exit"}
               PROVE  z \in inside[t] <=> fed[<<t, z>>] = "entry"
    BY DEF FeedTellsWhere
  <2> QED
    BY DEF ZonesInv, Tells
<1>2. ContactsSpec => []ZonesInv
  BY ZonesInit, ZonesNext, PTL DEF ContactsSpec
<1> QED
  BY <1>1, <1>2, PTL

------------------------------------------------------------------------------
(* One track for an identity.                                                 *)

\* A track's row.  What its threat level can be is not asked here.
TrackRows(T) == [state : {"active", "lost", "closed"}, entity : Entities, at : Spots,
            age : Nat, threat : T]

\* Every track has its row and its place in the list.
ListOK ==
    /\ \E T : tracks \in Seq(TrackRows(T))
    /\ rank \in [DOMAIN tracks -> Nat]
    /\ alias \in [Entities -> Entities]

LEMMA RowsGrow ==
  ASSUME NEW T, NEW U, T \subseteq U, NEW s \in Seq(TrackRows(T))
  PROVE  s \in Seq(TrackRows(U))
<1>1. TrackRows(T) \subseteq TrackRows(U)
  BY DEF TrackRows
<1> QED
  BY <1>1

\* The tracks that are not closed all fit in what the matching looks at.
ListFits == Cardinality(Live) <= Window

\* Of things with a number each, one has the least.
LEMMA LeastOf ==
  ASSUME NEW S, S # {}, NEW f, \A x \in S : f[x] \in Nat
  PROVE  \E x \in S : \A y \in S : f[x] <= f[y]
<1> DEFINE numbers == {f[x] : x \in S}
<1>1. numbers \in SUBSET Nat /\ numbers # {}
  OBVIOUS
<1>2. \A y \in S : f[y] \in numbers
  OBVIOUS
<1>3. \A n \in numbers : \E x \in S : f[x] = n
  OBVIOUS
<1> HIDE DEF numbers
<1> DEFINE less == OpToRel(<, Nat)
<1>4. IsWellFoundedOn(less, Nat)
  BY NatLessThanWellFounded
<1>5. \A m, n \in Nat : m < n => <<m, n>> \in less
  BY DEF OpToRel
<1> HIDE DEF less
<1>6. PICK n \in numbers : \A m \in numbers : ~ (<<m, n>> \in less)
  BY <1>1, <1>4, WFMin
<1>7. \A m \in numbers : ~ (m < n)
  BY <1>1, <1>5, <1>6, Zenon
<1>8. n \in Nat /\ \A m \in numbers : m \in Nat
  BY <1>1
<1>9. \A m \in numbers : n <= m
  BY <1>7, <1>8
<1>10. PICK x \in S : f[x] = n
  BY <1>3
<1> QED
  BY <1>2, <1>9, <1>10

\* A list that holds them all leaves none of the live tracks out.
LEMMA AllListed ==
  ASSUME ListOK, ListFits
  PROVE  Listed = Live
<1>0. Window \in Nat
  BY ContactsAssumption
<1>1. PICK T : tracks \in Seq(TrackRows(T))
  BY DEF ListOK
<1>2. DOMAIN tracks = 1 .. Len(tracks) /\ Len(tracks) \in Nat
  BY <1>1
<1>3. IsFiniteSet(DOMAIN tracks)
  BY <1>2, FS_Interval
<1>4. Live \in SUBSET DOMAIN tracks
  BY DEF Live
<1>5. IsFiniteSet(Live) /\ Cardinality(Live) \in Nat
  BY <1>3, <1>4, FS_Subset, FS_CardinalityType
<1> SUFFICES ASSUME NEW t \in Live
             PROVE  Cardinality({u \in Live : rank[u] < rank[t]}) < Window
  BY DEF Listed
<1> DEFINE ahead == {u \in Live : rank[u] < rank[t]}
<1>6. ahead \in SUBSET Live
  OBVIOUS
<1>7. rank[t] \in Nat
  BY <1>4 DEF ListOK
<1>8. t \notin ahead
  BY <1>7
<1> HIDE DEF ahead
<1>9. Cardinality(ahead) \in Nat /\ Cardinality(ahead) <= Cardinality(Live)
  BY <1>5, <1>6, FS_Subset, FS_CardinalityType
<1>10. Cardinality(ahead) # Cardinality(Live)
  BY <1>5, <1>6, <1>8, FS_Subset
<1>11. Cardinality(ahead) < Window
  BY <1>0, <1>5, <1>9, <1>10 DEF ListFits
<1> QED
  BY <1>11 DEF ahead

\* An identity that stands for itself is found again while its track lives.
LEMMA FoundAgain ==
  ASSUME ListOK, ListFits, NEW s, SameIdentity(s) = {}, NEW t \in Live
  PROVE  tracks[t].entity # Resolve(s.entity)
<1> DEFINE same == {u \in Listed : tracks[u].entity = Resolve(s.entity)}
<1>1. SameIdentity(s) = {u \in same : \A v \in same : rank[u] <= rank[v]}
  BY DEF SameIdentity
<1>2. same \subseteq Live
  BY DEF Listed
<1>3. \A u \in same : rank[u] \in Nat
  BY <1>2 DEF ListOK, Live
<1>4. t \in same <=> tracks[t].entity = Resolve(s.entity)
  BY AllListed
<1> HIDE DEF same
<1>5. same = {}
  BY <1>1, <1>3, LeastOf
<1> QED
  BY <1>4, <1>5

\* Writing tracks keeps every track a place.
LEMMA WrittenRanks ==
  ASSUME NEW n \in Nat, NEW before \in [1 .. n -> Nat], NEW some \in SUBSET (1 .. n)
  PROVE  Written(some, before) \in [1 .. n -> Nat]
<1>1. ASSUME NEW set \in SUBSET some PROVE Cardinality(set) \in Nat
  <2>1. IsFiniteSet(1 .. n) /\ set \in SUBSET (1 .. n)
    BY FS_Interval
  <2> QED
    BY <2>1, FS_Subset, FS_CardinalityType
<1>2. ASSUME NEW t \in 1 .. n PROVE Written(some, before)[t] \in Nat
  <2> DEFINE notBefore == {u \in some : before[u] >= before[t]}
             after == {u \in some : before[u] > before[t]}
  <2>1. Written(some, before)[t] = IF t \in some THEN Cardinality(notBefore)
                                   ELSE before[t] + Cardinality(after)
    BY DEF Written
  <2>2. notBefore \in SUBSET some /\ after \in SUBSET some
    OBVIOUS
  <2> HIDE DEF notBefore, after
  <2>3. Cardinality(notBefore) \in Nat /\ Cardinality(after) \in Nat
    BY <1>1, <2>2
  <2> QED
    BY <2>1, <2>3
<1>3. Written(some, before) = [t \in 1 .. n |-> Written(some, before)[t]]
  BY DEF Written
<1> QED
  BY <1>2, <1>3

LEMMA ListInit == ContactsInit => ListOK /\ OneTrackPerIdentity
  BY DEF ContactsInit, ListOK, OneTrackPerIdentity, Live, TrackRows

\* A track is updated: it stays its identity's, and it is as live as it was.
LEMMA UpdateKeeps ==
  ASSUME ListOK, NEW t \in Live, NEW s \in Sightings, Update(t, s)
  PROVE  /\ (\E T : tracks \in Seq(TrackRows(T)))'
         /\ (rank \in [DOMAIN tracks -> Nat])'
         /\ Live' = Live /\ \A u \in Live : tracks'[u].entity = tracks[u].entity
<1>1. PICK T : tracks \in Seq(TrackRows(T))
  BY DEF ListOK
<1>2. s \in [entity : Entities, at : Spots, class : Classes, age : 0 .. MaxAge]
  BY ContactsAssumption
<1>3. t \in DOMAIN tracks /\ tracks[t] \in TrackRows(T)
  BY <1>1 DEF Live
<1> DEFINE threat == Threat(t, s.at, tracks[t].threat)
           row == [tracks[t] EXCEPT !.state = "active", !.at = s.at, !.age = s.age, !.threat = threat]
           U == T \cup {threat}
<1>4. tracks' = [tracks EXCEPT ![t] = row] /\ rank' = Written({t}, rank)
  BY DEF Update
<1>5. row \in TrackRows(U) /\ row.entity = tracks[t].entity /\ row.state = "active"
  <2> HIDE DEF threat
  <2>1. s.age \in Nat /\ s.at \in Spots
    BY <1>2
  <2> QED
    BY <1>3, <2>1 DEF TrackRows
<1> HIDE DEF row
<1>6. T \subseteq U
  OBVIOUS
<1> HIDE DEF U
<1>12. tracks \in Seq(TrackRows(U))
  BY <1>1, <1>6, RowsGrow
<1>7. tracks' \in Seq(TrackRows(U)) /\ DOMAIN tracks' = DOMAIN tracks
  BY <1>3, <1>4, <1>5, <1>12
<1>8. rank' \in [DOMAIN tracks -> Nat]
  <2>1. DOMAIN tracks = 1 .. Len(tracks) /\ Len(tracks) \in Nat
    BY <1>1
  <2> QED
    BY <1>3, <1>4, <2>1, WrittenRanks DEF ListOK
<1>9. \A u \in DOMAIN tracks : /\ tracks'[u].entity = tracks[u].entity
                               /\ u # t => tracks'[u] = tracks[u]
  BY <1>1, <1>3, <1>4, <1>5
<1>10. tracks'[t].state = "active"
  BY <1>1, <1>3, <1>4, <1>5
<1>11. Live' = Live
  BY <1>7, <1>9, <1>10 DEF Live
<1> QED
  BY <1>7, <1>8, <1>9, <1>11 DEF Live

LEMMA ListNext ==
  ASSUME ListOK, OneTrackPerIdentity, ListFits, [ContactsNext]_contacts
  PROVE  ListOK' /\ OneTrackPerIdentity'
<1>1. CASE UNCHANGED <<tracks, rank, alias>>
  BY <1>1 DEF ListOK, OneTrackPerIdentity, Live
<1>2. ASSUME NEW s \in Sightings, UpdateSame(s) PROVE ListOK' /\ OneTrackPerIdentity'
  <2>1. PICK t \in SameIdentity(s) : Update(t, s) /\ UNCHANGED alias
    BY <1>2 DEF UpdateSame
  <2>2. t \in Live
    BY DEF SameIdentity, Listed
  <2> QED
    BY <2>1, <2>2, UpdateKeeps DEF ListOK, OneTrackPerIdentity
<1>3. ASSUME NEW s \in Sightings, UpdateNearest(s) PROVE ListOK' /\ OneTrackPerIdentity'
  <2>1. PICK t \in Nearest(s) :
           /\ Update(t, s)
           /\ alias' = [alias EXCEPT ![s.entity] = IF tracks[t].entity = s.entity
                                                   THEN @ ELSE tracks[t].entity]
    BY <1>3 DEF UpdateNearest
  <2>2. t \in Live
    BY DEF Nearest, Listed
  <2>3. s.entity \in Entities
    BY ContactsAssumption
  <2>4. \A u \in Live : tracks[u].entity \in Entities
    <3>1. PICK T : tracks \in Seq(TrackRows(T))
      BY DEF ListOK
    <3>2. \A u \in DOMAIN tracks : tracks[u] \in TrackRows(T)
      BY <3>1
    <3> QED
      BY <3>2 DEF Live, TrackRows
  <2>5. alias' \in [Entities -> Entities] /\ \A e \in Entities : alias'[e] = e => alias[e] = e
    BY <2>1, <2>2, <2>3, <2>4 DEF ListOK
  <2> QED
    <3>1. ListOK'
      BY <2>1, <2>2, <2>5, UpdateKeeps DEF ListOK
    <3>2. \A u \in Live : tracks'[u].entity = tracks[u].entity
      BY <2>1, <2>2, UpdateKeeps
    <3>3. Live' = Live
      BY <2>1, <2>2, UpdateKeeps
    <3>4. OneTrackPerIdentity'
      BY <2>4, <2>5, <3>2, <3>3 DEF OneTrackPerIdentity
    <3> QED
      BY <3>1, <3>4
<1>4. ASSUME NEW s \in Sightings, Create(s) PROVE ListOK' /\ OneTrackPerIdentity'
  <2>1. PICK T : tracks \in Seq(TrackRows(T))
    BY DEF ListOK
  <2> DEFINE t == Len(tracks) + 1
             threat == Threat(t, s.at, 0)
             row == [state |-> "active", entity |-> s.entity, at |-> s.at, age |-> s.age,
                     threat |-> threat]
             U == T \cup {threat}
  <2>2. /\ SameIdentity(s) = {} /\ UNCHANGED alias
        /\ tracks' = Append(tracks, row) /\ rank' = Written({t}, Append(rank, t))
    BY <1>4 DEF Create
  <2>3. s.age \in Nat /\ s.at \in Spots /\ s.entity \in Entities
    BY ContactsAssumption
  <2> HIDE DEF threat
  <2>4. row \in TrackRows(U) /\ row.entity = s.entity
    BY <2>3 DEF TrackRows
  <2> HIDE DEF row
  <2>12. T \subseteq U
    OBVIOUS
  <2> HIDE DEF U
  <2>5. tracks \in Seq(TrackRows(U))
    BY <2>1, <2>12, RowsGrow
  <2>6. /\ tracks' \in Seq(TrackRows(U)) /\ Len(tracks) \in Nat
        /\ DOMAIN tracks = 1 .. Len(tracks) /\ DOMAIN tracks' = 1 .. t
        /\ tracks'[t] = row /\ \A u \in DOMAIN tracks : tracks'[u] = tracks[u]
    BY <2>2, <2>4, <2>5
  <2>7. rank' \in [DOMAIN tracks' -> Nat]
    <3>1. rank \in Seq(Nat) /\ Len(rank) = Len(tracks)
      BY <2>6 DEF ListOK
    <3>2. /\ Append(rank, t) \in Seq(Nat) /\ Len(Append(rank, t)) = t /\ t \in Nat
      BY <2>6, <3>1
    <3>3. Append(rank, t) \in [1 .. t -> Nat]
      <4> DEFINE longer == Append(rank, t)
      <4>1. longer \in Seq(Nat) /\ Len(longer) = t
        BY <3>2
      <4> HIDE DEF longer, t
      <4>2. longer \in [1 .. t -> Nat]
        BY <4>1
      <4> QED
        BY <4>2 DEF longer
    <3>4. {t} \in SUBSET (1 .. t) /\ t \in Nat
      BY <2>6
    <3>5. Written({t}, Append(rank, t)) \in [1 .. t -> Nat]
      BY <3>3, <3>4, WrittenRanks
    <3> QED
      BY <2>2, <2>6, <3>5
  <2>8. ListOK'
    BY <2>2, <2>6, <2>7 DEF ListOK
  <2>9. Live' \subseteq Live \cup {t} /\ \A u \in Live : tracks'[u].entity = tracks[u].entity
    BY <2>6 DEF Live
  <2>10. \A u \in Live : tracks[u].entity = s.entity => alias[s.entity] # s.entity
    BY <2>2, FoundAgain DEF Resolve
  <2>11. OneTrackPerIdentity'
    <3>1. \A u \in Live : u \in DOMAIN tracks
      BY DEF Live
    <3>2. \A u \in Live : tracks'[u].entity = s.entity => alias'[s.entity] # s.entity
      BY <2>2, <2>9, <2>10
    <3>3. tracks'[t].entity = s.entity
      BY <2>4, <2>6
    <3>4. \A u, v \in Live : tracks'[u].entity = tracks'[v].entity
                             /\ alias'[tracks'[u].entity] = tracks'[u].entity => u = v
      BY <2>2, <2>9, ZenonT(40) DEF OneTrackPerIdentity
    <3> HIDE DEF t
    <3> SUFFICES ASSUME NEW u \in Live', NEW v \in Live', tracks'[u].entity = tracks'[v].entity,
                        alias'[tracks'[u].entity] = tracks'[u].entity
                 PROVE  u = v
      BY DEF OneTrackPerIdentity
    <3>5. u \in Live \cup {t} /\ v \in Live \cup {t}
      BY <2>9
    <3>6. CASE u \in Live /\ v \in Live
      BY <3>4, <3>6
    <3>7. CASE u = t /\ v \in Live
      BY <3>2, <3>3, <3>7
    <3>8. CASE u \in Live /\ v = t
      BY <3>2, <3>3, <3>8
    <3> QED
      BY <3>5, <3>6, <3>7, <3>8
  <2> QED
    BY <2>8, <2>11
<1>5. ASSUME tracks' = [t \in DOMAIN tracks |-> tracks'[t]],
             \A t \in DOMAIN tracks : tracks'[t].entity = tracks[t].entity,
             \E T : \A t \in DOMAIN tracks : tracks'[t] \in TrackRows(T),
             Live' \subseteq Live, UNCHANGED alias,
             rank' \in [DOMAIN tracks -> Nat]
      PROVE  ListOK' /\ OneTrackPerIdentity'
  <2>1. PICK T : \A t \in DOMAIN tracks : tracks'[t] \in TrackRows(T)
    BY <1>5
  <2>2. DOMAIN tracks = 1 .. Len(tracks) /\ Len(tracks) \in Nat
    BY DEF ListOK
  <2>3. tracks' \in Seq(TrackRows(T)) /\ DOMAIN tracks' = DOMAIN tracks
    BY <1>5, <2>1, <2>2
  <2>4. ListOK'
    BY <1>5, <2>3 DEF ListOK
  <2> QED
    BY <1>5, <2>4 DEF OneTrackPerIdentity, Live
<1>6. CASE Age
  <2>1. PICK T : tracks \in Seq(TrackRows(T))
    BY DEF ListOK
  <2>2. /\ tracks' = [t \in DOMAIN tracks |->
                       IF t \in Live THEN [tracks[t] EXCEPT !.age = @ + 1] ELSE tracks[t]]
        /\ UNCHANGED <<rank, alias>>
    BY <1>6 DEF Age
  <2>3. \A t \in DOMAIN tracks : /\ tracks[t] \in TrackRows(T)
                                 /\ tracks'[t] \in TrackRows(T)
                                 /\ tracks'[t].entity = tracks[t].entity
                                 /\ tracks'[t].state = tracks[t].state
    <3> SUFFICES ASSUME NEW t \in DOMAIN tracks
                 PROVE  /\ tracks[t] \in TrackRows(T)
                        /\ tracks'[t] \in TrackRows(T)
                        /\ tracks'[t].entity = tracks[t].entity
                        /\ tracks'[t].state = tracks[t].state
      OBVIOUS
    <3>1. tracks[t] \in TrackRows(T)
      BY <2>1
    <3>2. tracks'[t] = [tracks[t] EXCEPT !.age = @ + 1] \/ tracks'[t] = tracks[t]
      BY <2>2
    <3> QED
      BY <3>1, <3>2 DEF TrackRows
  <2>4. Live' \subseteq Live
    BY <2>2, <2>3 DEF Live
  <2> QED
    BY <1>5, <2>2, <2>3, <2>4 DEF ListOK
<1>7. CASE Sweep
  <2>1. PICK T : tracks \in Seq(TrackRows(T))
    BY DEF ListOK
  <2>2. /\ tracks' = [t \in DOMAIN tracks |->
                       IF t \in Stale THEN [tracks[t] EXCEPT !.state = AgedState(tracks[t])]
                       ELSE tracks[t]]
        /\ rank' = Written(Stale, rank) /\ UNCHANGED alias
    BY <1>7 DEF Sweep
  <2>3. \A t \in DOMAIN tracks : /\ tracks[t] \in TrackRows(T)
                                 /\ tracks'[t] \in TrackRows(T)
                                 /\ tracks'[t].entity = tracks[t].entity
    <3> SUFFICES ASSUME NEW t \in DOMAIN tracks
                 PROVE  /\ tracks[t] \in TrackRows(T)
                        /\ tracks'[t] \in TrackRows(T)
                        /\ tracks'[t].entity = tracks[t].entity
      OBVIOUS
    <3>1. tracks[t] \in TrackRows(T)
      BY <2>1
    <3>2. \/ tracks'[t] = [tracks[t] EXCEPT !.state = AgedState(tracks[t])]
          \/ tracks'[t] = tracks[t]
      BY <2>2
    <3>3. AgedState(tracks[t]) \in {"active", "lost", "closed"}
      BY <3>1 DEF AgedState, TrackRows
    <3> QED
      BY <3>1, <3>2, <3>3 DEF TrackRows
  <2>4. Stale \subseteq Live
    BY DEF Stale, Listed
  <2>5. Live' \subseteq Live
    BY <2>2, <2>4 DEF Live
  <2>6. DOMAIN tracks = 1 .. Len(tracks) /\ Len(tracks) \in Nat
    BY <2>1
  <2>7. rank' \in [DOMAIN tracks -> Nat]
    BY <2>2, <2>4, <2>6, WrittenRanks DEF ListOK, Live
  <2> QED
    BY <1>5, <2>2, <2>3, <2>5, <2>7
<1>8. CASE \E s \in Sightings : Observe(s)
  BY <1>2, <1>3, <1>4, <1>8 DEF Observe
<1>9. CASE (\E a \in owed : Alert(a)) \/ (\E z \in Zones : CreateZone(z)) \/ RestartTrack
  BY <1>1, <1>9 DEF Alert, CreateZone, RestartTrack
<1>10. CASE UNCHANGED contacts
  BY <1>1, <1>10 DEF contacts
<1> QED
  BY <1>6, <1>7, <1>8, <1>9, <1>10 DEF ContactsNext

\* For any identities, spots, zones and sightings, in any order: while the tracks
\* that are not closed fit in the list the matching looks at (500), an identity
\* that has never been taken for another is followed by one track at a time
\* (fusion.py _find_track_for, store.py list_tracks).
THEOREM SpecOneTrackPerIdentity == ContactsSpec /\ []ListFits => []OneTrackPerIdentity
  BY ListInit, ListNext, PTL DEF ContactsSpec

------------------------------------------------------------------------------
(* The list of tracks.                                                        *)

\* Every place in the list is taken, and by one track.
Ranking(before, n) ==
    /\ before \in [1 .. n -> 1 .. n]
    /\ \A t, u \in 1 .. n : before[t] = before[u] => t = u

\* As many tracks as places stand between two of them.
LEMMA PlacesBetween ==
  ASSUME NEW n \in Nat, NEW before, Ranking(before, n), NEW set \in SUBSET (1 .. n),
         NEW a \in Nat, NEW b \in Nat, a <= b, \A u \in set : a < before[u] /\ before[u] <= b
  PROVE  Cardinality(set) \in Nat /\ Cardinality(set) <= b - a
<1> DEFINE f == [u \in set |-> before[u]]
<1>1. f \in [set -> (a + 1) .. b]
  <2>1. \A u \in set : before[u] \in (a + 1) .. b
    <3> SUFFICES ASSUME NEW u \in set PROVE before[u] \in (a + 1) .. b
      OBVIOUS
    <3>1. before[u] \in 1 .. n
      BY DEF Ranking
    <3> QED
      BY <3>1
  <2> QED
    BY <2>1
<1>2. f \in Injection(set, (a + 1) .. b)
  BY <1>1 DEF Injection, IsInjective, Ranking
<1>3. IsFiniteSet((a + 1) .. b) /\ Cardinality((a + 1) .. b) = b - a
  <2>1. a + 1 \in Int /\ b \in Int
    OBVIOUS
  <2>2. IsFiniteSet((a + 1) .. b) /\ Cardinality((a + 1) .. b) = IF a + 1 > b THEN 0 ELSE b - (a + 1) + 1
    BY <2>1, FS_Interval
  <2> QED
    BY <2>2
<1>4. IsFiniteSet(set) /\ Cardinality(set) <= Cardinality((a + 1) .. b)
  BY <1>2, <1>3, FS_Injection
<1> QED
  BY <1>3, <1>4, FS_CardinalityType

\* Where the tracks written stand, and by how much the others move down.
UpTo(some, before, t) == {u \in some : before[u] >= before[t]}
Behind(some, before, t) == {u \in some : before[u] > before[t]}
Ahead(some, before, t) == {u \in some : before[u] < before[t]}

LEMMA WrittenAt ==
  ASSUME NEW before, NEW some, NEW t \in DOMAIN before
  PROVE  Written(some, before)[t] = IF t \in some THEN Cardinality(UpTo(some, before, t))
                                    ELSE before[t] + Cardinality(Behind(some, before, t))
  BY DEF Written, UpTo, Behind

\* Writing some tracks leaves the others in their order, behind them: it is a
\* list again, without gap or tie.
LEMMA WrittenIsRanking ==
  ASSUME NEW n \in Nat, NEW before, Ranking(before, n), NEW some \in SUBSET (1 .. n)
  PROVE  Ranking(Written(some, before), n)
<1> DEFINE after == Written(some, before)
<1>0. before \in [1 .. n -> 1 .. n] /\ \A t, u \in 1 .. n : before[t] = before[u] => t = u
  BY DEF Ranking
<1>a. \A t \in 1 .. n : before[t] \in Nat /\ 1 <= before[t] /\ before[t] <= n
  <2> SUFFICES ASSUME NEW t \in 1 .. n PROVE before[t] \in Nat /\ 1 <= before[t] /\ before[t] <= n
    OBVIOUS
  <2>1. before[t] \in 1 .. n
    BY <1>0
  <2> QED
    BY <2>1
<1>1. ASSUME NEW set \in SUBSET some
      PROVE  IsFiniteSet(set) /\ Cardinality(set) \in Nat /\ Cardinality(set) <= n
  <2>1. IsFiniteSet(1 .. n) /\ Cardinality(1 .. n) = n /\ set \in SUBSET (1 .. n)
    BY FS_Interval
  <2> QED
    BY <2>1, FS_Subset, FS_CardinalityType
<1>2. ASSUME NEW t \in 1 .. n
      PROVE  /\ UpTo(some, before, t) \in SUBSET some /\ Behind(some, before, t) \in SUBSET some
             /\ Ahead(some, before, t) \in SUBSET some
  BY DEF UpTo, Behind, Ahead
<1>3. ASSUME NEW t \in some PROVE after[t] \in 1 .. n /\ after[t] = Cardinality(UpTo(some, before, t))
  <2>1. after[t] = Cardinality(UpTo(some, before, t))
    BY <1>0, WrittenAt
  <2>2. t \in UpTo(some, before, t)
    BY <1>0 DEF UpTo
  <2>3. IsFiniteSet(UpTo(some, before, t)) /\ Cardinality(UpTo(some, before, t)) \in Nat
        /\ Cardinality(UpTo(some, before, t)) <= n
    BY <1>1, <1>2
  <2>4. Cardinality(UpTo(some, before, t)) # 0
    BY <2>2, <2>3, FS_EmptySet
  <2> HIDE DEF after
  <2> QED
    BY <2>1, <2>3, <2>4
<1>4. ASSUME NEW t \in 1 .. n, t \notin some
      PROVE  /\ after[t] \in 1 .. n /\ after[t] = before[t] + Cardinality(Behind(some, before, t))
             /\ Cardinality(some) < after[t]
  <2>1. after[t] = before[t] + Cardinality(Behind(some, before, t))
    BY <1>0, <1>4, WrittenAt
  <2>2. before[t] \in 1 .. n /\ before[t] \in Nat /\ before[t] <= n
    BY <1>0
  <2> DEFINE behind == Behind(some, before, t)
             ahead == Ahead(some, before, t)
  <2>3. /\ behind \in SUBSET (1 .. n)
        /\ \A u \in behind : before[t] < before[u] /\ before[u] <= n
    <3>1. behind \in SUBSET (1 .. n)
      BY DEF Behind
    <3>2. \A u \in behind : before[u] > before[t] /\ u \in 1 .. n
      BY DEF Behind
    <3> HIDE DEF behind
    <3>3. ASSUME NEW u \in behind PROVE before[t] < before[u] /\ before[u] <= n
      BY <1>a, <3>2
    <3> QED
      BY <3>1, <3>3
  <2>4. Cardinality(behind) \in Nat /\ Cardinality(behind) <= n - before[t]
    BY <2>2, <2>3, PlacesBetween
  <2>5. /\ ahead \in SUBSET (1 .. n) /\ 0 \in Nat /\ before[t] - 1 \in Nat /\ 0 <= before[t] - 1
        /\ \A u \in ahead : 0 < before[u] /\ before[u] <= before[t] - 1
    <3>1. ahead \in SUBSET (1 .. n) /\ \A u \in ahead : before[u] < before[t] /\ u \in 1 .. n
      BY DEF Ahead
    <3> HIDE DEF ahead
    <3>2. before[t] \in Nat /\ 1 <= before[t]
      BY <1>a
    <3>3. before[t] - 1 \in Nat /\ 0 <= before[t] - 1 /\ 0 \in Nat
      BY <3>2
    <3>4. ASSUME NEW u \in ahead PROVE 0 < before[u] /\ before[u] <= before[t] - 1
      <4>1. before[u] < before[t] /\ before[u] \in Nat /\ 1 <= before[u]
        BY <1>a, <3>1
      <4> QED
        BY <3>2, <4>1
    <3> QED
      BY <3>1, <3>3, <3>4
  <2>6. Cardinality(ahead) \in Nat /\ Cardinality(ahead) <= (before[t] - 1) - 0
    BY <2>5, PlacesBetween
  <2>7. some = ahead \cup behind /\ ahead \cap behind \in SUBSET some
    <3>1. ASSUME NEW u \in some PROVE before[u] < before[t] \/ before[u] > before[t]
      BY <1>0, <1>4
    <3> QED
      BY <3>1 DEF Ahead, Behind
  <2>8. Cardinality(some) <= Cardinality(ahead) + Cardinality(behind)
    <3>1. IsFiniteSet(ahead) /\ IsFiniteSet(behind) /\ Cardinality(ahead \cap behind) \in Nat
      BY <1>1, <1>2, <2>7
    <3> HIDE DEF ahead, behind
    <3>2. Cardinality(ahead \cup behind)
            = Cardinality(ahead) + Cardinality(behind) - Cardinality(ahead \cap behind)
      BY <3>1, FS_Union
    <3> QED
      BY <2>4, <2>6, <2>7, <3>1, <3>2
  <2>9. Cardinality(some) \in Nat
    BY <1>1
  <2> HIDE DEF after, ahead
  <2> QED
    BY <2>1, <2>2, <2>4, <2>6, <2>8, <2>9
<1>5. ASSUME NEW t \in some, NEW u \in some, before[t] < before[u] PROVE after[u] < after[t]
  <2> DEFINE less == UpTo(some, before, u)
             more == UpTo(some, before, t)
  <2>0. before[t] \in Nat /\ before[u] \in Nat /\ \A v \in some : before[v] \in Nat
    BY <1>a
  <2>1. less \in SUBSET more /\ t \in more /\ t \notin less
    <3>1. t \in more
      BY <2>0 DEF UpTo
    <3>2. t \notin less
      BY <1>5, <2>0 DEF UpTo
    <3>3. ASSUME NEW v \in some, before[v] >= before[u] PROVE before[v] >= before[t]
      <4>1. before[v] \in Nat
        BY <2>0
      <4> QED
        BY <1>5, <2>0, <3>3, <4>1
    <3>4. less \in SUBSET more
      BY <3>3 DEF UpTo
    <3> QED
      BY <3>1, <3>2, <3>4
  <2>2. IsFiniteSet(more) /\ Cardinality(more) \in Nat /\ Cardinality(less) \in Nat
    BY <1>1, <1>2
  <2>3. after[u] = Cardinality(less) /\ after[t] = Cardinality(more)
    BY <1>3
  <2> HIDE DEF less, more, after
  <2>4. Cardinality(less) <= Cardinality(more) /\ Cardinality(less) # Cardinality(more)
    BY <2>1, <2>2, FS_Subset
  <2> QED
    BY <2>2, <2>3, <2>4
<1>6. ASSUME NEW t \in some, NEW u \in 1 .. n, u \notin some PROVE after[t] < after[u]
  <2>1. after[t] = Cardinality(UpTo(some, before, t)) /\ Cardinality(some) < after[u] /\ after[u] \in Nat
    BY <1>3, <1>4, <1>6
  <2>2. UpTo(some, before, t) \in SUBSET some
    BY <1>2
  <2>3. IsFiniteSet(some) /\ Cardinality(some) \in Nat
    BY <1>1
  <2>4. Cardinality(UpTo(some, before, t)) <= Cardinality(some) /\ Cardinality(UpTo(some, before, t)) \in Nat
    BY <2>2, <2>3, <1>1, FS_Subset
  <2> HIDE DEF after
  <2> QED
    BY <2>1, <2>3, <2>4
<1>7. ASSUME NEW t \in 1 .. n, t \notin some, NEW u \in 1 .. n, u \notin some, before[t] < before[u]
      PROVE  after[t] < after[u]
  <2> DEFINE behind == Behind(some, before, u)
             between == {v \in some : before[t] < before[v] /\ before[v] < before[u]}
  <2>0. before[t] \in Nat /\ before[u] \in Nat /\ \A v \in some : before[v] \in Nat
    BY <1>a
  <2>1. /\ between \in SUBSET (1 .. n) /\ between \in SUBSET some
        /\ before[u] - 1 \in Nat /\ before[t] <= before[u] - 1
        /\ \A v \in between : before[t] < before[v] /\ before[v] <= before[u] - 1
    <3>1. between \in SUBSET (1 .. n) /\ between \in SUBSET some
      OBVIOUS
    <3>2. before[u] - 1 \in Nat /\ before[t] <= before[u] - 1
      BY <1>7, <2>0
    <3>3. ASSUME NEW v \in some, before[v] < before[u] PROVE before[v] <= before[u] - 1
      <4>1. before[v] \in Nat
        BY <2>0
      <4> QED
        BY <2>0, <3>3, <4>1
    <3>4. \A v \in between : before[t] < before[v] /\ before[v] <= before[u] - 1
      BY <3>3
    <3> QED
      BY <3>1, <3>2, <3>4
  <2>2. Cardinality(between) \in Nat /\ Cardinality(between) <= (before[u] - 1) - before[t]
    BY <2>0, <2>1, PlacesBetween
  <2>3. Behind(some, before, t) = between \cup behind
    <3>1. ASSUME NEW v \in some
          PROVE  before[v] > before[t] <=> (before[t] < before[v] /\ before[v] < before[u]) \/ before[v] > before[u]
      <4>1. before[v] # before[u]
        BY <1>0, <1>7
      <4> QED
        BY <1>7, <2>0, <4>1
    <3> QED
      BY <3>1 DEF Behind
  <2>4. IsFiniteSet(between) /\ IsFiniteSet(behind) /\ Cardinality(behind) \in Nat
    BY <1>1, <1>2, <2>1
  <2>5. after[t] = before[t] + Cardinality(between \cup behind) /\ after[u] = before[u] + Cardinality(behind)
    BY <1>4, <1>7, <2>3
  <2>8. between \cap behind \in SUBSET some
    BY <2>1
  <2>6. Cardinality(between \cap behind) \in Nat
    BY <1>1, <2>8
  <2> HIDE DEF between, behind, after
  <2>7. Cardinality(between \cup behind) = Cardinality(between) + Cardinality(behind) - Cardinality(between \cap behind)
    BY <2>4, FS_Union
  <2> QED
    BY <2>0, <2>2, <2>4, <2>5, <2>6, <2>7
<1>8. after \in [1 .. n -> 1 .. n]
  <2>1. after = [t \in 1 .. n |-> after[t]]
    BY <1>0 DEF Written
  <2>2. \A t \in 1 .. n : after[t] \in 1 .. n
    BY <1>3, <1>4
  <2> HIDE DEF after
  <2> QED
    BY <2>1, <2>2
<1>9. ASSUME NEW t \in 1 .. n, NEW u \in 1 .. n, t # u PROVE after[t] # after[u]
  <2>1. before[t] # before[u] /\ before[t] \in Nat /\ before[u] \in Nat
    BY <1>0, <1>9
  <2>2. before[t] < before[u] \/ before[u] < before[t]
    BY <2>1
  <2>3. after[t] < after[u] \/ after[u] < after[t]
    BY <1>5, <1>6, <1>7, <2>2
  <2>4. after[t] \in Nat /\ after[u] \in Nat
    BY <1>8
  <2> HIDE DEF after
  <2> QED
    BY <2>3, <2>4
<1> QED
  BY <1>8, <1>9 DEF Ranking

\* A track at the end of the list.
LEMMA AppendedIsRanking ==
  ASSUME NEW n \in Nat, Ranking(rank, n)
  PROVE  Ranking(Append(rank, n + 1), n + 1)
<1>1. rank \in Seq(1 .. n) /\ Len(rank) = n
  BY DEF Ranking
<1> DEFINE longer == Append(rank, n + 1)
<1>2. /\ DOMAIN longer = 1 .. n + 1
      /\ \A t \in 1 .. n : longer[t] = rank[t]
      /\ longer[n + 1] = n + 1
      /\ longer = [t \in 1 .. n + 1 |-> longer[t]]
  BY <1>1
<1> HIDE DEF longer
<1>3. ASSUME NEW t \in 1 .. n + 1 PROVE t \in 1 .. n \/ t = n + 1
  OBVIOUS
<1>4. \A t \in 1 .. n : longer[t] \in 1 .. n
  BY <1>2 DEF Ranking
<1>5. \A t \in 1 .. n + 1 : longer[t] \in 1 .. n + 1
  <2> SUFFICES ASSUME NEW t \in 1 .. n + 1 PROVE longer[t] \in 1 .. n + 1
    OBVIOUS
  <2>1. CASE t \in 1 .. n
    <3>1. longer[t] \in 1 .. n
      BY <1>4, <2>1
    <3> QED
      BY <3>1
  <2>2. CASE t = n + 1
    <3>1. longer[t] = n + 1
      BY <1>2, <2>2
    <3> QED
      BY <3>1
  <2> QED
    BY <1>3, <2>1, <2>2
<1>6. ASSUME NEW t \in 1 .. n + 1, NEW u \in 1 .. n + 1, longer[t] = longer[u] PROVE t = u
  <2>1. CASE t \in 1 .. n /\ u \in 1 .. n
    <3>1. rank[t] = rank[u]
      BY <1>2, <1>6, <2>1
    <3> QED
      BY <2>1, <3>1 DEF Ranking
  <2>2. CASE t = n + 1 \/ u = n + 1
    <3>1. ASSUME NEW v \in 1 .. n PROVE longer[v] # longer[n + 1]
      <4>1. longer[v] \in 1 .. n /\ longer[n + 1] = n + 1
        BY <1>2, <1>4
      <4> QED
        BY <4>1
    <3> QED
      BY <1>3, <1>6, <2>2, <3>1
  <2> QED
    BY <1>3, <2>1, <2>2
<1>7. longer \in [1 .. n + 1 -> 1 .. n + 1]
  BY <1>2, <1>5
<1> QED
  BY <1>6, <1>7 DEF Ranking, longer

------------------------------------------------------------------------------
(* The types of the tables.                                                   *)

RowsOK == tracks \in Seq(Tracked) /\ Len(tracks) <= seen /\ seen \in 0..MaxSeen
Order == Ranking(rank, Len(tracks))
Tables ==
    /\ known \in [Entities -> Classes \cup {"none"}]
    /\ alias \in [Entities -> Entities]
    /\ drawn \in SUBSET Zones /\ inside \in [Ids -> SUBSET Zones]
    /\ owed \in SUBSET Alerts /\ fed \in [Ids \X Zones -> {"none", "entry", "exit"}]
    /\ crashed \in BOOLEAN
ContactsTyped == RowsOK /\ Order /\ Tables

LEMMA ContactsTypedGives == ContactsTyped => ContactsOK
<1> SUFFICES ASSUME ContactsTyped PROVE ContactsOK
  OBVIOUS
<1>1. tracks \in Seq(Tracked) /\ Len(tracks) \in Nat /\ Len(tracks) <= MaxSeen
      /\ DOMAIN tracks = 1 .. Len(tracks)
  <2>1. seen <= MaxSeen /\ seen \in Nat /\ MaxSeen \in Nat /\ Len(tracks) <= seen /\ tracks \in Seq(Tracked)
    BY ContactsAssumption DEF ContactsTyped, RowsOK
  <2>2. Len(tracks) \in Nat /\ DOMAIN tracks = 1 .. Len(tracks)
    BY <2>1
  <2> QED
    BY <2>1, <2>2
<1>2. 1 .. Len(tracks) \subseteq Ids
  BY <1>1, ContactsAssumption DEF Ids
<1>3. rank \in [DOMAIN tracks -> Ids]
  BY <1>1, <1>2 DEF ContactsTyped, Order, Ranking
<1> QED
  BY <1>3 DEF ContactsTyped, RowsOK, Tables, ContactsOK

LEMMA ContactsTypedInit == ContactsInit => ContactsTyped
<1> SUFFICES ASSUME ContactsInit PROVE ContactsTyped
  OBVIOUS
<1>1. RowsOK
  <2>1. MaxSeen \in Nat
    BY ContactsAssumption
  <2> QED
    BY <2>1 DEF ContactsInit, RowsOK
<1>2. Order
  <2>1. rank = <<>> /\ Len(tracks) = 0
    BY DEF ContactsInit
  <2> QED
    BY <2>1 DEF Order, Ranking
<1>3. Tables
  BY DEF ContactsInit, Tables
<1> QED
  BY <1>1, <1>2, <1>3 DEF ContactsTyped

\* Of finitely many things with a number each, one has the greatest.
LEMMA GreatestOf ==
  ASSUME NEW S, IsFiniteSet(S), S # {}, NEW f, \A x \in S : f[x] \in Nat
  PROVE  \E x \in S : \A y \in S : f[y] <= f[x]
<1> DEFINE above(x) == {y \in S : f[y] > f[x]}
           g == [x \in S |-> Cardinality(above(x))]
<1>1. ASSUME NEW x \in S PROVE IsFiniteSet(above(x)) /\ Cardinality(above(x)) \in Nat
  <2>1. above(x) \in SUBSET S
    OBVIOUS
  <2> HIDE DEF above
  <2> QED
    BY <2>1, FS_Subset, FS_CardinalityType
<1>2. \A x \in S : g[x] \in Nat /\ g[x] = Cardinality(above(x))
  BY <1>1
<1>3. ASSUME NEW x \in S, NEW y \in S, f[y] > f[x] PROVE g[y] < g[x]
  <2>1. above(y) \in SUBSET above(x)
    <3>1. ASSUME NEW z \in S, f[z] > f[y] PROVE f[z] > f[x]
      <4>1. f[z] \in Nat /\ f[y] \in Nat /\ f[x] \in Nat
        OBVIOUS
      <4> QED
        BY <1>3, <3>1, <4>1
    <3> QED
      BY <3>1
  <2>2. y \in above(x) /\ y \notin above(y)
    BY <1>3
  <2>3. g[x] = Cardinality(above(x)) /\ g[y] = Cardinality(above(y)) /\ g[x] \in Nat /\ g[y] \in Nat
    BY <1>2
  <2>4. IsFiniteSet(above(x))
    BY <1>1
  <2> HIDE DEF above, g
  <2>5. Cardinality(above(y)) <= Cardinality(above(x)) /\ Cardinality(above(y)) # Cardinality(above(x))
    BY <2>1, <2>2, <2>4, FS_Subset
  <2> QED
    BY <2>3, <2>5
<1> HIDE DEF g
<1>4. PICK x \in S : \A y \in S : g[x] <= g[y]
  BY <1>2, LeastOf
<1>5. ASSUME NEW y \in S PROVE f[y] <= f[x]
  <2>1. f[x] \in Nat /\ f[y] \in Nat /\ g[x] \in Nat /\ g[y] \in Nat /\ g[x] <= g[y]
    BY <1>2, <1>4
  <2>2. ~ (g[y] < g[x])
    BY <2>1
  <2>3. ~ (f[y] > f[x])
    BY <1>3, <2>2
  <2> QED
    BY <2>1, <2>3
<1> QED
  BY <1>5

\* A threat level is one, however many zones were entered.
LEMMA ThreatIsLevel ==
  ASSUME Tables, NEW t, NEW place, NEW before \in Nat
  PROVE  Threat(t, place, before) \in Nat
<1> DEFINE raising == {y \in Entered(t, place) : "entry" \in Rules[y]}
           levels == {before} \cup {Severity[z] : z \in raising}
<1>1. raising \in SUBSET Zones
  BY DEF Entered, ZonesAt, Tables
<1>2. IsFiniteSet(Zones)
  BY ContactsAssumption
<1>3. IsFiniteSet(raising)
  <2> HIDE DEF raising
  <2> QED
    BY <1>1, <1>2, FS_Subset
<1>4. Severity \in [Zones -> Nat]
  BY ContactsAssumption
<1>5. \A z \in raising : Severity[z] \in Nat
  BY <1>1, <1>4
<1>6. levels \in SUBSET Nat
  BY <1>5
<1>7. \E l \in levels : \A k \in levels : k <= l
  <2> HIDE DEF raising
  <2>1. CASE raising = {}
    BY <2>1
  <2>2. CASE raising # {}
    <3>1. PICK z \in raising : \A y \in raising : Severity[y] <= Severity[z]
      BY <1>3, <1>5, <2>2, GreatestOf
    <3>2. CASE before <= Severity[z]
      <4>1. Severity[z] \in levels /\ \A k \in levels : k <= Severity[z]
        BY <3>1, <3>2
      <4> QED
        BY <4>1
    <3>3. CASE ~(before <= Severity[z])
      <4>1. ASSUME NEW y \in raising PROVE Severity[y] <= before
        <5>1. Severity[y] \in Nat /\ Severity[z] \in Nat /\ Severity[y] <= Severity[z]
          BY <1>5, <3>1
        <5> QED
          BY <3>3, <5>1
      <4>2. before \in levels /\ \A k \in levels : k <= before
        BY <4>1
      <4> QED
        BY <4>2
    <3> QED
      BY <3>2, <3>3
  <2> QED
    BY <2>1, <2>2
<1>8. Threat(t, place, before) = Highest(levels)
  BY DEF Threat
<1> HIDE DEF levels
<1>9. Highest(levels) \in levels
  BY <1>7 DEF Highest
<1> QED
  BY <1>6, <1>8, <1>9

LEMMA SightingFacts ==
  ASSUME NEW s \in Sightings
  PROVE  s.entity \in Entities /\ s.at \in Spots /\ s.class \in Classes /\ s.age \in 0..MaxAge
<1>1. s \in [entity : Entities, at : Spots, class : Classes, age : 0..MaxAge]
  BY ContactsAssumption
<1> QED
  BY <1>1

\* What the zones make of a track.
LEMMA EvaluateTyped ==
  ASSUME Tables, NEW t \in Ids, NEW place, Evaluate(t, place)
  PROVE  inside' \in [Ids -> SUBSET Zones] /\ owed' \in SUBSET Alerts
<1>1. inside \in [Ids -> SUBSET Zones] /\ drawn \in SUBSET Zones
  BY DEF Tables
<1>2. Members(t, place) \in SUBSET Zones
  BY <1>1 DEF Members, ZonesAt
<1>3. inside' \in [Ids -> SUBSET Zones]
  BY <1>1, <1>2 DEF Evaluate
<1>4. Entered(t, place) \in SUBSET Zones /\ Exited(t, place) \in SUBSET Zones
  BY <1>1 DEF Entered, Exited, ZonesAt
<1>5. AlertsOf(t, place) \in SUBSET Alerts
  BY <1>4 DEF AlertsOf, Alerts
<1> QED
  BY <1>3, <1>5 DEF Evaluate

LEMMA UpdateTyped ==
  ASSUME ContactsTyped, NEW t \in Live, NEW s \in Sightings, Update(t, s)
  PROVE  /\ tracks' \in Seq(Tracked) /\ Len(tracks') = Len(tracks)
         /\ Ranking(rank', Len(tracks'))
         /\ known' \in [Entities -> Classes \cup {"none"}]
         /\ inside' \in [Ids -> SUBSET Zones] /\ owed' \in SUBSET Alerts
         /\ tracks[t].entity \in Entities
<1>0. tracks \in Seq(Tracked) /\ Tables /\ Ranking(rank, Len(tracks)) /\ Len(tracks) \in Nat
      /\ DOMAIN tracks = 1 .. Len(tracks)
  BY DEF ContactsTyped, RowsOK, Order
<1>1. t \in DOMAIN tracks /\ tracks[t] \in Tracked
  BY <1>0 DEF Live
<1>2. t \in Ids
  <2>1. seen <= MaxSeen /\ seen \in Nat /\ MaxSeen \in Nat /\ Len(tracks) <= seen
    BY ContactsAssumption DEF ContactsTyped, RowsOK
  <2> QED
    BY <1>0, <1>1, <2>1 DEF Ids
<1> DEFINE e == tracks[t].entity
           threat == Threat(t, s.at, tracks[t].threat)
           row == [tracks[t] EXCEPT !.state = "active", !.at = s.at, !.age = s.age, !.threat = threat]
<1>3. /\ tracks' = [tracks EXCEPT ![t] = row] /\ rank' = Written({t}, rank)
      /\ known' = [known EXCEPT ![e] = Classified(@, s.class)] /\ Evaluate(t, s.at)
  BY DEF Update
<1>4. tracks[t].threat \in Nat /\ e \in Entities
  BY <1>1 DEF Tracked
<1>5. threat \in Nat
  BY <1>0, <1>4, ThreatIsLevel
<1> HIDE DEF threat
<1>6. row \in Tracked
  BY <1>1, <1>5, SightingFacts DEF Tracked
<1> HIDE DEF row
<1>7. tracks' \in Seq(Tracked) /\ Len(tracks') = Len(tracks)
  BY <1>0, <1>1, <1>3, <1>6
<1>8. Ranking(rank', Len(tracks'))
  <2>1. {t} \in SUBSET (1 .. Len(tracks))
    BY <1>0, <1>1
  <2> QED
    BY <1>0, <1>3, <1>7, <2>1, WrittenIsRanking
<1>9. known' \in [Entities -> Classes \cup {"none"}]
  <2>1. known \in [Entities -> Classes \cup {"none"}] /\ s.class \in Classes
    BY <1>0, SightingFacts DEF Tables
  <2>2. Classified(known[e], s.class) \in Classes \cup {"none"}
    BY <1>4, <2>1 DEF Classified
  <2> QED
    BY <1>3, <1>4, <2>1, <2>2
<1>10. inside' \in [Ids -> SUBSET Zones] /\ owed' \in SUBSET Alerts
  BY <1>0, <1>2, <1>3, EvaluateTyped
<1> QED
  BY <1>4, <1>7, <1>8, <1>9, <1>10

LEMMA CreateTyped ==
  ASSUME ContactsTyped, seen < MaxSeen, NEW s \in Sightings, Create(s)
  PROVE  /\ tracks' \in Seq(Tracked) /\ Len(tracks') = Len(tracks) + 1
         /\ Ranking(rank', Len(tracks'))
         /\ known' \in [Entities -> Classes \cup {"none"}]
         /\ inside' \in [Ids -> SUBSET Zones] /\ owed' \in SUBSET Alerts
<1>0. tracks \in Seq(Tracked) /\ Tables /\ Ranking(rank, Len(tracks)) /\ Len(tracks) \in Nat
  BY DEF ContactsTyped, RowsOK, Order
<1> DEFINE t == Len(tracks) + 1
           threat == Threat(t, s.at, 0)
           row == [state |-> "active", entity |-> s.entity, at |-> s.at, age |-> s.age, threat |-> threat]
<1>1. t \in Ids /\ t \in Nat
  <2>1. seen \in Nat /\ MaxSeen \in Nat /\ Len(tracks) <= seen
    BY ContactsAssumption DEF ContactsTyped, RowsOK
  <2> QED
    BY <1>0, <2>1 DEF Ids
<1>2. threat \in Nat
  BY <1>0, ThreatIsLevel
<1>3. /\ tracks' = Append(tracks, row) /\ rank' = Written({t}, Append(rank, t))
      /\ known' = [known EXCEPT ![s.entity] = s.class] /\ Evaluate(t, s.at)
  BY DEF Create
<1> HIDE DEF threat
<1>4. row \in Tracked
  BY <1>2, SightingFacts DEF Tracked
<1> HIDE DEF row
<1>5. tracks' \in Seq(Tracked) /\ Len(tracks') = t
  BY <1>0, <1>3, <1>4
<1>6. Ranking(Append(rank, t), t)
  BY <1>0, AppendedIsRanking
<1>7. Ranking(rank', t)
  <2>1. {t} \in SUBSET (1 .. t)
    BY <1>0
  <2> HIDE DEF t
  <2> QED
    BY <1>1, <1>3, <1>6, <2>1, WrittenIsRanking
<1>8. known' \in [Entities -> Classes \cup {"none"}]
  BY <1>0, <1>3, SightingFacts DEF Tables
<1>9. inside' \in [Ids -> SUBSET Zones] /\ owed' \in SUBSET Alerts
  BY <1>0, <1>1, <1>3, EvaluateTyped
<1> QED
  BY <1>5, <1>7, <1>8, <1>9

LEMMA ContactsTypedStep == ContactsTyped /\ [ContactsNext]_contacts => ContactsTyped'
<1> SUFFICES ASSUME ContactsTyped, [ContactsNext]_contacts PROVE ContactsTyped'
  OBVIOUS
<1>0. /\ RowsOK /\ Order /\ Tables /\ tracks \in Seq(Tracked) /\ Len(tracks) \in Nat
      /\ DOMAIN tracks = 1 .. Len(tracks) /\ MaxSeen \in Nat /\ seen \in Nat
      /\ Len(tracks) <= seen /\ seen <= MaxSeen
  BY ContactsAssumption DEF ContactsTyped, RowsOK
<1>1. ASSUME NEW s \in Sightings, Observe(s) PROVE ContactsTyped'
  <2>0. seen < MaxSeen /\ seen' = seen + 1 /\ UNCHANGED <<drawn, fed, crashed>>
    BY <1>1 DEF Observe
  <2>1. seen' \in 0..MaxSeen
    BY <1>0, <2>0
  <2>2. ASSUME NEW t \in Live, Update(t, s), alias' \in [Entities -> Entities] PROVE ContactsTyped'
    <3>1. /\ tracks' \in Seq(Tracked) /\ Len(tracks') = Len(tracks)
          /\ Ranking(rank', Len(tracks'))
          /\ known' \in [Entities -> Classes \cup {"none"}]
          /\ inside' \in [Ids -> SUBSET Zones] /\ owed' \in SUBSET Alerts
      BY <2>2, UpdateTyped
    <3>2. Len(tracks') <= seen'
      BY <1>0, <2>0, <3>1
    <3> QED
      BY <1>0, <2>0, <2>1, <2>2, <3>1, <3>2 DEF ContactsTyped, RowsOK, Order, Tables
  <2>3. CASE UpdateSame(s)
    <3>1. PICK t \in SameIdentity(s) : Update(t, s) /\ UNCHANGED alias
      BY <2>3 DEF UpdateSame
    <3>2. t \in Live /\ alias' \in [Entities -> Entities]
      BY <1>0, <3>1 DEF SameIdentity, Listed, Tables
    <3> QED
      BY <2>2, <3>1, <3>2
  <2>4. CASE UpdateNearest(s)
    <3>1. PICK t \in Nearest(s) :
              /\ Update(t, s)
              /\ alias' = [alias EXCEPT ![s.entity] = IF tracks[t].entity = s.entity
                                                      THEN @ ELSE tracks[t].entity]
      BY <2>4 DEF UpdateNearest
    <3>2. t \in Live
      BY DEF Nearest, Listed
    <3>3. tracks[t].entity \in Entities
      BY <3>1, <3>2, UpdateTyped
    <3>4. alias' \in [Entities -> Entities]
      BY <1>0, <3>1, <3>3, SightingFacts DEF Tables
    <3> QED
      BY <2>2, <3>1, <3>2, <3>4
  <2>5. CASE Create(s)
    <3>1. /\ tracks' \in Seq(Tracked) /\ Len(tracks') = Len(tracks) + 1
          /\ Ranking(rank', Len(tracks'))
          /\ known' \in [Entities -> Classes \cup {"none"}]
          /\ inside' \in [Ids -> SUBSET Zones] /\ owed' \in SUBSET Alerts
      BY <2>0, <2>5, CreateTyped
    <3>2. Len(tracks') <= seen'
      BY <1>0, <2>0, <3>1
    <3>3. alias' = alias
      BY <2>5 DEF Create
    <3> QED
      BY <1>0, <2>0, <2>1, <3>1, <3>2, <3>3 DEF ContactsTyped, RowsOK, Order, Tables
  <2> QED
    BY <1>1, <2>3, <2>4, <2>5 DEF Observe
<1>2. ASSUME NEW a \in owed, Alert(a) PROVE ContactsTyped'
  <2>1. a \in Alerts
    BY <1>0 DEF Tables
  <2>2. a.kind \in {"entry", "exit"}
    BY <2>1 DEF Alerts
  <2>3. /\ owed' \in SUBSET Alerts /\ fed' \in [Ids \X Zones -> {"none", "entry", "exit"}]
        /\ UNCHANGED <<tracks, rank, known, alias, drawn, inside, seen, crashed>>
    BY <1>0, <1>2, <2>2 DEF Alert, Tables
  <2> QED
    BY <1>0, <2>3 DEF ContactsTyped, RowsOK, Order, Tables
<1>3. ASSUME NEW z \in Zones, CreateZone(z) PROVE ContactsTyped'
  BY <1>0, <1>3 DEF CreateZone, ContactsTyped, RowsOK, Order, Tables
<1>4. CASE RestartTrack
  BY <1>0, <1>4 DEF RestartTrack, ContactsTyped, RowsOK, Order, Tables
<1>5. CASE Age
  <2>1. ASSUME NEW t \in DOMAIN tracks PROVE tracks'[t] \in Tracked
    <3>1. tracks[t] \in Tracked
      BY <1>0
    <3>2. CASE t \in Live
      <4>1. tracks'[t] = [tracks[t] EXCEPT !.age = @ + 1] /\ tracks[t].age <= CloseAfter
        BY <1>5, <3>2 DEF Age
      <4>2. CloseAfter \in Nat /\ tracks[t].age \in 0..MaxAge
        BY <3>1, ContactsAssumption DEF Tracked
      <4>3. tracks[t].age + 1 \in 0..MaxAge
        BY <4>1, <4>2 DEF MaxAge
      <4> QED
        BY <3>1, <4>1, <4>3 DEF Tracked
    <3>3. CASE t \notin Live
      BY <1>5, <3>1, <3>3 DEF Age
    <3> QED
      BY <3>2, <3>3
  <2>2. DOMAIN tracks' = DOMAIN tracks /\ tracks' = [t \in DOMAIN tracks |-> tracks'[t]]
        /\ UNCHANGED <<rank, known, alias, drawn, inside, owed, fed, seen, crashed>>
    BY <1>5 DEF Age
  <2>3. tracks' \in Seq(Tracked) /\ Len(tracks') = Len(tracks)
    BY <1>0, <2>1, <2>2
  <2> QED
    BY <1>0, <2>2, <2>3 DEF ContactsTyped, RowsOK, Order, Tables
<1>6. CASE Sweep
  <2>1. ASSUME NEW t \in DOMAIN tracks PROVE tracks'[t] \in Tracked
    <3>1. tracks[t] \in Tracked
      BY <1>0
    <3>2. AgedState(tracks[t]) \in {"active", "lost", "closed"}
      BY <3>1 DEF AgedState, Tracked
    <3>3. tracks'[t] = [tracks[t] EXCEPT !.state = AgedState(tracks[t])] \/ tracks'[t] = tracks[t]
      BY <1>6 DEF Sweep
    <3> QED
      BY <3>1, <3>2, <3>3 DEF Tracked
  <2>2. DOMAIN tracks' = DOMAIN tracks /\ tracks' = [t \in DOMAIN tracks |-> tracks'[t]]
        /\ rank' = Written(Stale, rank)
        /\ UNCHANGED <<known, alias, drawn, inside, owed, fed, seen, crashed>>
    BY <1>6 DEF Sweep
  <2>3. tracks' \in Seq(Tracked) /\ Len(tracks') = Len(tracks)
    BY <1>0, <2>1, <2>2
  <2>4. Ranking(rank', Len(tracks'))
    <3>1. Stale \in SUBSET (1 .. Len(tracks))
      BY <1>0 DEF Stale, Listed, Live
    <3> QED
      BY <1>0, <2>2, <2>3, <3>1, WrittenIsRanking DEF Order
  <2> QED
    BY <1>0, <2>2, <2>3, <2>4 DEF ContactsTyped, RowsOK, Order, Tables
<1>7. CASE UNCHANGED contacts
  BY <1>0, <1>7 DEF contacts, ContactsTyped, RowsOK, Order, Tables
<1> QED
  BY <1>1, <1>2, <1>3, <1>4, <1>5, <1>6, <1>7 DEF ContactsNext

\* However much was written and in whatever order, an observation has one track to
\* go to at most: of those of its identity the one written last, of those as near
\* the one further down the list, and the list has no ties (fusion.py
\* _find_track_for, store.py list_tracks).
OneMatch(s) ==
    /\ \A t, u \in SameIdentity(s) : t = u
    /\ \A t, u \in Nearest(s) : t = u
THEOREM SpecOneMatch == ContactsSpec => [](\A s \in Sightings : OneMatch(s))
<1>1. ContactsTyped => \A s \in Sightings : OneMatch(s)
  <2> SUFFICES ASSUME ContactsTyped, NEW s \in Sightings PROVE OneMatch(s)
    OBVIOUS
  <2>1. Ranking(rank, Len(tracks)) /\ DOMAIN tracks = 1 .. Len(tracks)
    BY DEF ContactsTyped, Order, RowsOK
  <2>2. \A t \in Listed : t \in 1 .. Len(tracks) /\ rank[t] \in Nat
    BY <2>1 DEF Listed, Live, Ranking
  <2>3. ASSUME NEW t \in Listed, NEW u \in Listed, rank[t] <= rank[u], rank[u] <= rank[t]
        PROVE  t = u
    <3>1. rank[t] = rank[u]
      BY <2>2, <2>3
    <3> QED
      BY <2>1, <2>2, <3>1 DEF Ranking
  <2>4. \A t, u \in SameIdentity(s) : t = u
    BY <2>3 DEF SameIdentity
  <2>5. \A t, u \in Nearest(s) : t = u
    BY <2>3 DEF Nearest
  <2> QED
    BY <2>4, <2>5 DEF OneMatch
<1> QED
  BY <1>1, ContactsTypedInit, ContactsTypedStep, PTL DEF ContactsSpec

------------------------------------------------------------------------------
(* Errands.                                                                   *)

Stances == [at : {"idle", "look", "tell", "order", "sweep", "withdraw"},
           machine : Machines, was : Modes, to : Modes,
           sight : Sights \cup {NoSight}, order : Nat,
           todo : SUBSET Sights, orders : SUBSET Nat]

ModesOK == mode \in [Machines -> {"unset", "manual", "automatic"}]

ErrandTypes ==
    /\ errands \in Seq(Errand)
    /\ lookedAt \in [Sights -> Nat]
    /\ doing \in [Handlers -> Stances]
    /\ \A h \in Handlers : doing[h].at \in {"look", "order"} => doing[h].sight \in Sights

\* A bus that does not suspend leaves at most one handler in the middle ...
OneAtWork ==
    \A g, h \in Handlers : doing[g].at # "idle" /\ doing[h].at # "idle" => g = h

\* ... an order to look at a contact is on the contact's record, or its handler
\* is about to write it there ...
Accounted ==
    \A o \in DOMAIN errands :
        errands[o].sight # NoSight =>
            \/ lookedAt[errands[o].sight] = o
            \/ \E h \in Handlers : /\ doing[h].at = "order" /\ doing[h].order = o
                                   /\ doing[h].sight = errands[o].sight

\* ... over no other order's.
Unrecorded == \A h \in Handlers : doing[h].at = "order" => lookedAt[doing[h].sight] = 0

ErrandsInv ==
    /\ ErrandTypes
    /\ ~suspends /\ ~died => OneAtWork /\ Accounted /\ Unrecorded

LEMMA FreePlace == Free \in Stances /\ Free.at = "idle"
  BY ErrandsAssumption DEF Free, Stances, Modes

LEMMA ErrandsStart == ErrandsInit => ErrandsInv
<1> SUFFICES ASSUME ErrandsInit PROVE ErrandsInv
  OBVIOUS
<1>1. doing \in [Handlers -> Stances] /\ \A h \in Handlers : doing[h].at = "idle"
  BY FreePlace DEF ErrandsInit
<1>2. errands \in Seq(Errand) /\ lookedAt \in [Sights -> Nat] /\ DOMAIN errands = {}
  BY DEF ErrandsInit
<1> QED
  BY <1>1, <1>2 DEF ErrandsInv, ErrandTypes, OneAtWork, Accounted, Unrecorded

\* With such a bus, a handler that may run is the only one in the middle.
LEMMA AloneAtWork ==
  ASSUME NEW h \in Handlers, MayRun(h), ~suspends
  PROVE  \A g \in Handlers : g # h => doing[g].at = "idle"
  BY DEF MayRun

\* A handler that goes on, having no order to record before or after, disturbs
\* nothing, and neither does one that changes how orders stand.
LEMMA GoesOn ==
  ASSUME ErrandsInv, NEW h \in Handlers, MayRun(h), doing[h].at # "order",
         NEW here \in Stances, here.at # "order", here.at = "look" => here.sight \in Sights,
         Go(h, here), UNCHANGED <<errands, lookedAt, suspends, died>>
  PROVE  ErrandsInv'
<1>1. /\ doing' \in [Handlers -> Stances] /\ doing'[h] = here
      /\ \A g \in Handlers : g # h => doing'[g] = doing[g]
  BY DEF Go, ErrandsInv, ErrandTypes
<1>2. ErrandTypes'
  BY <1>1 DEF ErrandsInv, ErrandTypes
<1>3. ASSUME ~suspends, ~died PROVE (OneAtWork /\ Accounted /\ Unrecorded)'
  <2>1. \A g \in Handlers : g # h => doing'[g].at = "idle"
    BY <1>1, <1>3, AloneAtWork
  <2>2. \A g \in Handlers : doing[g].at # "order" /\ doing'[g].at # "order"
    BY <1>1, <1>3, <2>1, AloneAtWork
  <2> QED
    BY <1>1, <1>3, <2>1, <2>2 DEF ErrandsInv, OneAtWork, Accounted, Unrecorded
<1> QED
  BY <1>2, <1>3 DEF ErrandsInv

\* An order placed for a contact nobody has looked at.
LEMMA PlacedOnce ==
  ASSUME ErrandsInv, NEW h \in Handlers, MayRun(h), doing[h].at # "order",
         NEW c \in Sights, NEW here \in Stances, here.at # "order",
         here.at = "look" => here.sight \in Sights,
         Investigate(h, c, here), UNCHANGED <<lookedAt, suspends, died>>
  PROVE  ErrandsInv'
<1>1. CASE Go(h, here) /\ UNCHANGED errands
  BY <1>1, GoesOn
<1>2. ASSUME NEW m \in Machines, ~WasInvestigated(c), Place(m, c),
             Go(h, [here EXCEPT !.at = "order", !.sight = c, !.order = Len(errands) + 1])
      PROVE  ErrandsInv'
  <2> DEFINE new == [here EXCEPT !.at = "order", !.sight = c, !.order = Len(errands) + 1]
             errand1 == [machine |-> m, sight |-> c, state |-> "open"]
  <2>0. errands \in Seq(Errand) /\ lookedAt \in [Sights -> Nat]
    BY DEF ErrandsInv, ErrandTypes
  <2>1. /\ new \in Stances /\ new.at = "order" /\ new.sight = c
        /\ new.order = Len(errands) + 1
    <3>1. Len(errands) + 1 \in Nat
      BY <2>0
    <3>2. here \in Stances /\ m \in Machines /\ c \in Sights
      OBVIOUS
    <3> QED
      BY <3>1, <3>2 DEF Stances
  <2> HIDE DEF new
  <2>2. /\ doing' \in [Handlers -> Stances] /\ doing'[h] = new
        /\ \A g \in Handlers : g # h => doing'[g] = doing[g]
    BY <1>2, <2>1 DEF Go, ErrandsInv, ErrandTypes, new
  <2>3. errand1 \in Errand /\ errand1.sight = c
    BY DEF Errand
  <2>4. errands' = Append(errands, errand1)
    BY <1>2 DEF Place
  <2> HIDE DEF errand1
  <2>5. /\ errands' \in Seq(Errand) /\ Len(errands) \in Nat
        /\ DOMAIN errands' = DOMAIN errands \cup {Len(errands) + 1}
        /\ \A o \in DOMAIN errands : errands'[o] = errands[o]
        /\ errands'[Len(errands) + 1] = errand1
    BY <2>0, <2>3, <2>4
  <2>6. ErrandTypes'
    BY <2>1, <2>2, <2>5 DEF ErrandsInv, ErrandTypes
  <2>7. ASSUME ~suspends, ~died PROVE (OneAtWork /\ Accounted /\ Unrecorded)'
    <3>1. \A g \in Handlers : g # h => doing[g].at = "idle" /\ doing'[g].at = "idle"
      BY <2>2, <2>7, AloneAtWork
    <3>2. \A g \in Handlers : doing[g].at # "order"
      BY <3>1
    <3>3. \A o \in DOMAIN errands :
              errands[o].sight # NoSight => lookedAt[errands[o].sight] = o
      BY <2>7, <3>2 DEF ErrandsInv, Accounted
    <3>4. OneAtWork'
      BY <3>1 DEF OneAtWork
    <3>5. Accounted'
      BY <2>1, <2>2, <2>3, <2>5, <3>3 DEF Accounted
    <3>6. Unrecorded'
      BY <1>2, <2>0, <2>1, <2>2, <3>1 DEF Unrecorded, WasInvestigated
    <3> QED
      BY <3>4, <3>5, <3>6
  <2> QED
    BY <2>6, <2>7 DEF ErrandsInv
<1> QED
  BY <1>1, <1>2 DEF Investigate, Eligible

\* Orders that stand otherwise than before, for the same contacts.
LEMMA SameErrands ==
  ASSUME ErrandsInv, errands' \in Seq(Errand), DOMAIN errands' = DOMAIN errands,
         \A o \in DOMAIN errands : errands'[o].sight = errands[o].sight,
         UNCHANGED <<lookedAt, doing, suspends, died>>
  PROVE  ErrandsInv'
  BY DEF ErrandsInv, ErrandTypes, OneAtWork, Accounted, Unrecorded

LEMMA Restated ==
  ASSUME errands \in Seq(Errand), NEW o \in DOMAIN errands,
         NEW s \in {"open", "ended", "withdrawn"}, errands' = [errands EXCEPT ![o].state = s]
  PROVE  /\ errands' \in Seq(Errand) /\ DOMAIN errands' = DOMAIN errands
         /\ \A p \in DOMAIN errands : errands'[p].sight = errands[p].sight
<1>0. errands[o] \in Errand
  OBVIOUS
<1>1. [errands[o] EXCEPT !.state = s] \in Errand
  BY <1>0 DEF Errand
<1>2. [errands[o] EXCEPT !.state = s].sight = errands[o].sight
  BY <1>0 DEF Errand
<1> QED
  BY <1>1, <1>2

LEMMA ModesStep == ModesOK /\ [ErrandsNext]_errand => ModesOK'
  BY DEF ModesOK, ErrandsNext, errand, NewSight, CloseSight, LookInto, Die, Record, SetAutonomy,
         SweepOn, Withdraw, Told, Finish, OperatorOrders, Heard, EndErrand, Report

LEMMA ErrandsStep == ModesOK /\ ErrandsInv /\ [ErrandsNext]_errand => ErrandsInv'
<1> SUFFICES ASSUME ModesOK, ErrandsInv, [ErrandsNext]_errand PROVE ErrandsInv'
  OBVIOUS
<1>0. /\ errands \in Seq(Errand) /\ lookedAt \in [Sights -> Nat]
      /\ doing \in [Handlers -> Stances] /\ Inbox \in Handlers
      /\ \A h \in Handlers : doing[h].at \in {"look", "order"} => doing[h].sight \in Sights
  BY DEF ErrandsInv, ErrandTypes, Handlers
<1>1. CASE UNCHANGED <<errands, lookedAt, doing, suspends, died>>
  BY <1>1 DEF ErrandsInv, ErrandTypes, OneAtWork, Accounted, Unrecorded
<1>2. ASSUME NEW c \in Sights, NewSight(c) PROVE ErrandsInv'
  <2> DEFINE here == [Free EXCEPT !.at = "look", !.sight = c]
  <2>1. here \in Stances /\ here.at = "look" /\ here.sight = c
    BY FreePlace DEF Stances
  <2> HIDE DEF here
  <2>2. Go(Inbox, here) /\ MayRun(Inbox) /\ doing[Inbox].at = "idle"
    BY <1>2 DEF NewSight, here
  <2> QED
    BY <1>0, <1>2, <2>1, <2>2, GoesOn DEF NewSight
<1>3. CASE LookInto
  BY <1>0, <1>3, FreePlace, PlacedOnce DEF LookInto
<1>4. ASSUME NEW h \in Handlers, Record(h) PROVE ErrandsInv'
  <2> DEFINE next == IF h = Inbox THEN Free
                     ELSE [doing[h] EXCEPT !.at = "sweep", !.order = 0, !.sight = NoSight]
             c == doing[h].sight
  <2>1. next \in Stances /\ next.at \in {"idle", "sweep"}
    BY <1>0, FreePlace DEF Stances
  <2>2. /\ doing[h].at = "order" /\ MayRun(h) /\ c \in Sights /\ doing[h].order \in Nat
        /\ lookedAt' = [lookedAt EXCEPT ![c] = doing[h].order]
        /\ UNCHANGED <<errands, suspends, died>>
    BY <1>0, <1>4 DEF Record, Stances
  <2>3. /\ doing' \in [Handlers -> Stances] /\ doing'[h] = next
        /\ \A g \in Handlers : g # h => doing'[g] = doing[g]
    BY <1>0, <1>4, <2>1 DEF Record, Go
  <2> HIDE DEF next
  <2>4. ErrandTypes'
    BY <1>0, <2>1, <2>2, <2>3 DEF ErrandTypes
  <2>5. ASSUME ~suspends, ~died PROVE (OneAtWork /\ Accounted /\ Unrecorded)'
    <3>1. \A g \in Handlers : g # h => doing[g].at = "idle" /\ doing'[g].at = "idle"
      BY <2>2, <2>3, <2>5, AloneAtWork
    <3>2. lookedAt[c] = 0
      BY <2>2, <2>5 DEF ErrandsInv, Unrecorded
    <3>3. ASSUME NEW o \in DOMAIN errands, errands[o].sight # NoSight
          PROVE  lookedAt'[errands[o].sight] = o
      <4>0. errands[o] \in Errand /\ o # 0
        BY <1>0
      <4>1. errands[o].sight \in Sights
        BY <3>3, <4>0 DEF Errand
      <4>2. CASE lookedAt[errands[o].sight] = o
        BY <1>0, <2>2, <3>2, <4>0, <4>1, <4>2
      <4>3. CASE lookedAt[errands[o].sight] # o
        <5>1. doing[h].order = o /\ c = errands[o].sight
          BY <2>5, <3>1, <3>3, <4>3 DEF ErrandsInv, Accounted
        <5> QED
          BY <1>0, <2>2, <4>1, <5>1
      <4> QED
        BY <4>2, <4>3
    <3> QED
      BY <2>1, <2>2, <2>3, <3>1, <3>3 DEF OneAtWork, Accounted, Unrecorded
  <2> QED
    BY <2>2, <2>4, <2>5 DEF ErrandsInv
<1>5. ASSUME NEW r \in Requests, NEW m \in Machines, NEW to \in {"manual", "automatic"},
             SetAutonomy(r, m, to)
      PROVE  ErrandsInv'
  <2> DEFINE here == [Free EXCEPT !.at = "tell", !.machine = m, !.was = AutonomyOf(m), !.to = to]
  <2>1. AutonomyOf(m) \in Modes
    BY DEF ModesOK, AutonomyOf, Modes
  <2>2. here.at = "tell" /\ here \in Stances
    BY <2>1, FreePlace DEF Stances, Modes
  <2> HIDE DEF here
  <2> QED
    BY <1>0, <1>5, <2>2, GoesOn DEF SetAutonomy, Handlers, here
<1>6. ASSUME NEW r \in Requests, Told(r) PROVE ErrandsInv'
  <2> DEFINE open == {c \in Sights : sights[c] = "open"}
             sweep == [Free EXCEPT !.at = "sweep", !.todo = open]
             take == [Free EXCEPT !.at = "withdraw", !.orders = OwnOrders(doing[r].machine)]
  <2>0. r \in Handlers /\ doing[r] \in Stances
    BY <1>0 DEF Handlers
  <2>1. open \in SUBSET Sights /\ OwnOrders(doing[r].machine) \in SUBSET Nat
    BY <1>0 DEF OwnOrders
  <2> HIDE DEF open
  <2>2. sweep \in Stances /\ sweep.at = "sweep" /\ take \in Stances /\ take.at = "withdraw"
    BY <2>1, FreePlace DEF Stances
  <2>3. Go(r, Free) \/ Go(r, sweep) \/ Go(r, take)
    BY <1>6 DEF Told, open
  <2> HIDE DEF sweep, take
  <2>4. /\ MayRun(r) /\ doing[r].at # "order"
        /\ UNCHANGED <<errands, lookedAt, suspends, died>>
    BY <1>6 DEF Told
  <2>5. CASE Go(r, Free)
    BY <2>0, <2>4, <2>5, FreePlace, GoesOn
  <2>6. CASE Go(r, sweep)
    BY <2>0, <2>2, <2>4, <2>6, GoesOn
  <2>7. CASE Go(r, take)
    BY <2>0, <2>2, <2>4, <2>7, GoesOn
  <2> QED
    BY <2>3, <2>5, <2>6, <2>7
<1>7. ASSUME NEW r \in Requests, NEW c \in Sights, SweepOn(r, c) PROVE ErrandsInv'
  <2> DEFINE here == [doing[r] EXCEPT !.todo = @ \ {c}]
  <2>0. r \in Handlers /\ doing[r] \in Stances /\ doing[r].at = "sweep"
    BY <1>0, <1>7 DEF Handlers, SweepOn
  <2>1. here \in Stances /\ here.at = "sweep"
    BY <2>0 DEF Stances
  <2>2. Investigate(r, c, here) /\ MayRun(r) /\ UNCHANGED <<lookedAt, suspends, died>>
    BY <1>7 DEF SweepOn
  <2> HIDE DEF here
  <2> QED
    BY <2>0, <2>1, <2>2, PlacedOnce
<1>8. ASSUME NEW r \in Requests, NEW o \in DOMAIN errands, Withdraw(r, o) PROVE ErrandsInv'
  <2> DEFINE here == [doing[r] EXCEPT !.orders = @ \ {o}]
  <2>0. r \in Handlers /\ doing[r] \in Stances /\ doing[r].at = "withdraw"
    BY <1>0, <1>8 DEF Handlers, Withdraw
  <2>1. here \in Stances /\ here.at = "withdraw"
    BY <2>0 DEF Stances
  <2>2. Go(r, here) /\ MayRun(r) /\ UNCHANGED <<lookedAt, suspends, died>>
    BY <1>8 DEF Withdraw
  <2> HIDE DEF here
  <2>3. /\ doing' \in [Handlers -> Stances] /\ doing'[r] = here
        /\ \A g \in Handlers : g # r => doing'[g] = doing[g]
    BY <1>0, <2>0, <2>1, <2>2 DEF Go
  <2>4. PICK s \in {"open", "ended", "withdrawn"} : errands' = [errands EXCEPT ![o].state = s]
    <3>0. errands[o] \in Errand
      BY <1>0
    <3>1. errands[o].state \in {"open", "ended", "withdrawn"}
      BY <3>0 DEF Errand
    <3> QED
      BY <1>8, <3>1 DEF Withdraw
  <2>5. /\ errands' \in Seq(Errand) /\ DOMAIN errands' = DOMAIN errands
        /\ \A p \in DOMAIN errands : errands'[p].sight = errands[p].sight
    BY <1>0, <2>4, Restated
  <2>6. ErrandTypes'
    BY <1>0, <2>1, <2>2, <2>3, <2>5 DEF ErrandTypes
  <2>7. ASSUME ~suspends, ~died PROVE (OneAtWork /\ Accounted /\ Unrecorded)'
    <3>1. \A g \in Handlers : g # r => doing[g].at = "idle" /\ doing'[g].at = "idle"
      BY <2>0, <2>2, <2>3, <2>7, AloneAtWork
    <3> QED
      BY <2>0, <2>1, <2>2, <2>3, <2>5, <2>7, <3>1
         DEF ErrandsInv, OneAtWork, Accounted, Unrecorded
  <2> QED
    BY <2>2, <2>6, <2>7 DEF ErrandsInv
<1>9. ASSUME NEW r \in Requests, Finish(r) PROVE ErrandsInv'
  BY <1>0, <1>9, FreePlace, GoesOn DEF Finish, Handlers
<1>10. ASSUME NEW m \in Machines, OperatorOrders(m) PROVE ErrandsInv'
  <2> DEFINE new == [machine |-> m, sight |-> NoSight, state |-> "open"]
  <2>1. new \in Errand /\ new.sight = NoSight
    BY DEF Errand
  <2>2. errands' = Append(errands, new) /\ UNCHANGED <<lookedAt, doing, suspends, died>>
    BY <1>10 DEF OperatorOrders, Place
  <2> HIDE DEF new
  <2>3. /\ errands' \in Seq(Errand)
        /\ DOMAIN errands' = DOMAIN errands \cup {Len(errands) + 1}
        /\ \A o \in DOMAIN errands : errands'[o] = errands[o]
        /\ errands'[Len(errands) + 1] = new
    BY <1>0, <2>1, <2>2
  <2> QED
    BY <2>1, <2>2, <2>3 DEF ErrandsInv, ErrandTypes, OneAtWork, Accounted, Unrecorded
<1>11. ASSUME NEW o \in DOMAIN errands, EndErrand(o) PROVE ErrandsInv'
  BY <1>0, <1>11, Restated, SameErrands DEF EndErrand
<1>16. ASSUME NEW o \in DOMAIN errands, NEW as \in {"open", "ended"}, Report(o, as) PROVE ErrandsInv'
  BY <1>0, <1>16, Restated, SameErrands DEF Report
<1>12. CASE Die
  BY <1>0, <1>12, FreePlace DEF Die, ErrandsInv, ErrandTypes
<1>13. ASSUME NEW c \in Sights, CloseSight(c) PROVE ErrandsInv'
  BY <1>1, <1>13 DEF CloseSight
<1>14. ASSUME NEW m \in Machines, Heard(m, "online") \/ Heard(m, "offline") PROVE ErrandsInv'
  BY <1>1, <1>14 DEF Heard
<1>15. CASE UNCHANGED errand
  BY <1>1, <1>15 DEF errand
<1> QED
  BY <1>2, <1>3, <1>4, <1>5, <1>6, <1>7, <1>8, <1>9, <1>10, <1>11, <1>12, <1>13, <1>14, <1>15, <1>16
     DEF ErrandsNext

------------------------------------------------------------------------------
(* Errands: what is on record of the platform's own orders, and what a switch *)
(* of mode takes back, over any bus.                                          *)

\* A handler in the middle of a switch to manual will withdraw the order.
Promised(o) ==
    \E r \in Handlers :
        \/ Withdraws(r) /\ doing[r].machine = errands[o].machine
        \/ doing[r].at = "withdraw" /\ o \in doing[r].orders

OwnTask(o) == o \in DOMAIN errands /\ Own(o)

\* A contact's record names the order given to look at it, and what a handler is
\* about to record or to withdraw is no operator's order.
Recorded ==
    /\ \A c \in Sights : lookedAt[c] # 0 =>
          lookedAt[c] \in DOMAIN errands /\ errands[lookedAt[c]].sight = c
    /\ \A h \in Handlers : doing[h].at = "order" =>
          doing[h].order \in DOMAIN errands /\ errands[doing[h].order].sight = doing[h].sight
    /\ \A h \in Handlers : doing[h].at = "withdraw" => \A o \in doing[h].orders : OwnTask(o)

OwnOnly == \A o \in DOMAIN errands : errands[o].state = "withdrawn" => Own(o)

\* A contact that a machine was sent to is on record, or about to be.
Looked == \A o \in DOMAIN errands : Own(o) => lookedAt[errands[o].sight] # 0 \/ InTheAir(o)

\* An order of the platform's own is out on an automatic machine, or excused, or
\* promised back.
Backed ==
    \A o \in OpenErrands :
        Own(o) => Automatic(o) \/ o \in reopened \cup overlooked \/ Promised(o)

OwnInv ==
    /\ Recorded /\ OwnOnly
    /\ ~died => Looked /\ Backed
    /\ ~suspends /\ ~died => overlooked = {}

LEMMA OwnStart == ErrandsInit => OwnInv
<1> SUFFICES ASSUME ErrandsInit PROVE OwnInv
  OBVIOUS
<1>1. DOMAIN errands = {} /\ \A h \in Handlers : doing[h].at = "idle"
  BY FreePlace DEF ErrandsInit
<1> QED
  BY <1>1 DEF ErrandsInit, OwnInv, Recorded, OwnOnly, Looked, Backed, OpenErrands

\* A handler moves; the others stay where they are.
LEMMA Moves ==
  ASSUME ErrandsInv, NEW h \in Handlers, NEW here, Go(h, here)
  PROVE  doing'[h] = here /\ \A g \in Handlers : g # h => doing'[g] = doing[g]
  BY DEF Go, ErrandsInv, ErrandTypes

\* The promises of the others are not disturbed by one that has made none.
LEMMA PromisesStay ==
  ASSUME ErrandsInv, NEW h \in Handlers, NEW here, Go(h, here), ~Withdraws(h),
         doing[h].at = "withdraw" => doing[h].orders = {},
         NEW o, errands'[o].machine = errands[o].machine, Promised(o)
  PROVE  Promised(o)'
<1>1. PICK r \in Handlers :
        \/ Withdraws(r) /\ doing[r].machine = errands[o].machine
        \/ doing[r].at = "withdraw" /\ o \in doing[r].orders
  BY DEF Promised
<1>2. r # h
  BY <1>1
<1>3. doing'[r] = doing[r]
  BY <1>2, Moves
<1> QED
  BY <1>1, <1>3 DEF Promised, Withdraws, Switched

\* A handler that goes on to a place where it has nothing to record or withdraw.
LEMMA OwnGoesOn ==
  ASSUME ErrandsInv, OwnInv, NEW h \in Handlers, ~Withdraws(h), doing[h].at # "order",
         doing[h].at = "withdraw" => doing[h].orders = {},
         NEW here, here.at \notin {"order", "withdraw"}, Go(h, here),
         UNCHANGED <<mode, errands, lookedAt, suspends, died, excused>>
  PROVE  OwnInv'
<1>1. doing'[h] = here /\ \A g \in Handlers : g # h => doing'[g] = doing[g]
  BY Moves
<1>2. Recorded' /\ OwnOnly'
  BY <1>1 DEF OwnInv, Recorded, OwnOnly, OwnTask, Own
<1>3. ASSUME ~died PROVE Looked'
  BY <1>1, <1>3 DEF OwnInv, Looked, InTheAir, Own
<1>4. ASSUME ~died PROVE Backed'
  <2> SUFFICES ASSUME NEW o \in OpenErrands, Own(o)
               PROVE  Automatic(o) \/ o \in reopened \cup overlooked \/ Promised(o)'
    BY DEF Backed, OpenErrands, Own, Automatic, AutonomyOf, excused
  <2>1. CASE Promised(o)
    BY <2>1, PromisesStay
  <2>2. CASE ~Promised(o)
    BY <1>4, <2>2 DEF OwnInv, Backed
  <2> QED
    BY <2>1, <2>2
<1>5. ASSUME ~suspends, ~died PROVE overlooked' = {}
  BY <1>5 DEF OwnInv, excused
<1> QED
  BY <1>2, <1>3, <1>4, <1>5 DEF OwnInv

\* An order placed for a contact goes to an automatic machine.
LEMMA OwnPlaced ==
  ASSUME ErrandsInv, OwnInv, NEW h \in Handlers, doing[h].at \notin {"tell", "withdraw", "order"},
         NEW c \in Sights, NEW here \in Stances, here.at \notin {"order", "withdraw"},
         Investigate(h, c, here), UNCHANGED <<mode, lookedAt, suspends, died, excused>>
  PROVE  OwnInv'
<1>0. ~Withdraws(h)
  BY DEF Withdraws, Switched
<1>1. CASE Go(h, here) /\ UNCHANGED errands
  BY <1>0, <1>1, OwnGoesOn
<1>2. ASSUME NEW m \in Eligible, Place(m, c),
             Go(h, [here EXCEPT !.at = "order", !.sight = c, !.order = Len(errands) + 1])
      PROVE  OwnInv'
  <2> DEFINE new == [here EXCEPT !.at = "order", !.sight = c, !.order = Len(errands) + 1]
             errand1 == [machine |-> m, sight |-> c, state |-> "open"]
  <2>0. errands \in Seq(Errand)
    BY DEF ErrandsInv, ErrandTypes
  <2>1. new.at = "order" /\ new.sight = c /\ new.order = Len(errands) + 1
    BY DEF Stances
  <2>g. Go(h, new)
    BY <1>2
  <2> HIDE DEF new
  <2>2. doing'[h] = new /\ \A g \in Handlers : g # h => doing'[g] = doing[g]
    BY <2>g, Moves
  <2>3. errands' = Append(errands, errand1)
    BY <1>2 DEF Place
  <2>4. errand1.machine = m /\ errand1.sight = c /\ errand1.state = "open"
    OBVIOUS
  <2> HIDE DEF errand1
  <2>5. /\ Len(errands) + 1 \notin DOMAIN errands
        /\ DOMAIN errands' = DOMAIN errands \cup {Len(errands) + 1}
        /\ \A o \in DOMAIN errands : errands'[o] = errands[o]
        /\ errands'[Len(errands) + 1] = errand1
    BY <2>0, <2>3
  <2>6. Recorded'
    BY <2>1, <2>2, <2>4, <2>5 DEF OwnInv, Recorded, OwnTask, Own
  <2>7. OwnOnly'
    BY <2>4, <2>5 DEF OwnInv, OwnOnly, Own
  <2>8. ASSUME ~died PROVE Looked'
    <3>n. PICK n : n = Len(errands) + 1
      OBVIOUS
    <3>1. InTheAir(n)'
      BY <2>1, <2>2, <3>n DEF InTheAir
    <3>2. ASSUME NEW o \in DOMAIN errands, errands[o].sight # NoSight
          PROVE  lookedAt[errands[o].sight] # 0 \/ InTheAir(o)'
      BY <2>2, <2>8, <3>2 DEF OwnInv, Looked, InTheAir, Own
    <3> QED
      BY <2>5, <3>n, <3>1, <3>2 DEF Looked, Own
  <2>9. ASSUME ~died PROVE Backed'
    <3>1. AutonomyOf(m) = "automatic"
      BY <1>2 DEF Eligible
    <3>2. ASSUME NEW o \in OpenErrands, Own(o)
          PROVE  AutonomyOf(errands[o].machine) = "automatic" \/ o \in reopened \cup overlooked \/ Promised(o)'
      <4>1. o \in DOMAIN errands /\ errands'[o].machine = errands[o].machine
        BY <2>5 DEF OpenErrands
      <4>2. CASE Promised(o)
        BY <1>0, <2>g, <4>1, <4>2, PromisesStay
      <4>3. CASE ~Promised(o)
        BY <2>9, <3>2, <4>3 DEF OwnInv, Backed, Automatic
      <4> QED
        BY <4>2, <4>3
    <3>3. ASSUME NEW o \in DOMAIN errands', errands'[o].state = "open", errands'[o].sight # NoSight
          PROVE  \/ AutonomyOf(errands'[o].machine) = "automatic" \/ o \in reopened \cup overlooked
                 \/ Promised(o)'
      <4>1. CASE o = Len(errands) + 1
        BY <2>4, <2>5, <3>1, <4>1
      <4>2. CASE o \in DOMAIN errands
        BY <2>5, <3>2, <3>3, <4>2 DEF OpenErrands, Own
      <4> QED
        BY <2>5, <4>1, <4>2
    <3> QED
      BY <3>3 DEF Backed, OpenErrands, Own, Automatic, AutonomyOf, excused
  <2> QED
    BY <2>6, <2>7, <2>8, <2>9 DEF OwnInv, excused
<1> QED
  BY <1>1, <1>2 DEF Investigate

\* An order that stands otherwise than before: one opened again is excused, unless
\* it is an operator's or its machine is automatic.
LEMMA OwnRestated ==
  ASSUME ErrandsInv, OwnInv, NEW o \in DOMAIN errands, NEW s \in {"open", "ended"},
         errands' = [errands EXCEPT ![o].state = s],
         UNCHANGED <<mode, lookedAt, doing, suspends, died>>,
         \A p \in reopened \cup overlooked : (p = o /\ s = "ended") \/ p \in reopened' \cup overlooked',
         s = "open" => o \in OpenErrands \/ ~Own(o) \/ Automatic(o) \/ o \in reopened',
         overlooked' \subseteq overlooked
  PROVE  OwnInv'
<1>0. errands \in Seq(Errand) /\ errands[o] \in Errand
  BY DEF ErrandsInv, ErrandTypes
<1>1. /\ DOMAIN errands' = DOMAIN errands
      /\ \A p \in DOMAIN errands : /\ errands'[p].sight = errands[p].sight
                                   /\ errands'[p].machine = errands[p].machine
                                   /\ p # o => errands'[p] = errands[p]
      /\ errands'[o].state = s
  BY <1>0 DEF Errand
<1>2. Recorded' /\ OwnOnly'
  BY <1>1 DEF OwnInv, Recorded, OwnOnly, OwnTask, Own
<1>3. ASSUME ~died PROVE Looked'
  BY <1>1, <1>3 DEF OwnInv, Looked, InTheAir, Own
<1>4. ASSUME ~died PROVE Backed'
  <2>1. ASSUME NEW p \in DOMAIN errands, errands'[p].state = "open", Own(p), ~Automatic(p),
               p \notin reopened' \cup overlooked'
        PROVE  Promised(p)'
    <3>1. p \in OpenErrands
      BY <1>1, <2>1 DEF OpenErrands
    <3>2. p \notin reopened \cup overlooked
      BY <1>1, <2>1
    <3>3. Promised(p)
      BY <1>4, <2>1, <3>1, <3>2 DEF OwnInv, Backed
    <3> QED
      BY <1>1, <3>3 DEF Promised, Withdraws, Switched
  <2> QED
    BY <1>1, <2>1 DEF Backed, OpenErrands, Own, Automatic, AutonomyOf
<1>5. ASSUME ~suspends, ~died PROVE overlooked' = {}
  BY <1>5 DEF OwnInv
<1> QED
  BY <1>2, <1>3, <1>4, <1>5 DEF OwnInv

LEMMA OwnStep == ModesOK /\ ErrandsInv /\ OwnInv /\ [ErrandsNext]_errand => OwnInv'
<1> SUFFICES ASSUME ModesOK, ErrandsInv, OwnInv, [ErrandsNext]_errand PROVE OwnInv'
  OBVIOUS
<1>0. /\ errands \in Seq(Errand) /\ lookedAt \in [Sights -> Nat]
      /\ doing \in [Handlers -> Stances] /\ Inbox \in Handlers /\ Requests \subseteq Handlers
      /\ \A h \in Handlers : doing[h].at \in {"look", "order"} => doing[h].sight \in Sights
      /\ \A o \in DOMAIN errands : errands[o] \in Errand /\ o # 0
  BY DEF ErrandsInv, ErrandTypes, Handlers
<1>1. CASE UNCHANGED <<mode, errands, lookedAt, doing, suspends, died, excused>>
  <2>1. Recorded' /\ OwnOnly'
    BY <1>1 DEF OwnInv, Recorded, OwnOnly, OwnTask, Own
  <2>2. ~died => Looked'
    BY <1>1 DEF OwnInv, Looked, InTheAir, Own
  <2>3. ~died => Backed'
    BY <1>1 DEF OwnInv, Backed, OpenErrands, Own, Automatic, AutonomyOf, Promised, Withdraws, Switched, excused
  <2> QED
    BY <1>1, <2>1, <2>2, <2>3 DEF OwnInv, excused
<1>2. ASSUME NEW c \in Sights, NewSight(c) PROVE OwnInv'
  <2> DEFINE here == [Free EXCEPT !.at = "look", !.sight = c]
  <2>1. here.at = "look"
    BY FreePlace DEF Stances
  <2> HIDE DEF here
  <2>2. Go(Inbox, here) /\ doing[Inbox].at = "idle" /\ ~Withdraws(Inbox)
    BY <1>2 DEF NewSight, here, Withdraws, Switched
  <2> QED
    BY <1>0, <1>2, <2>1, <2>2, OwnGoesOn DEF NewSight
<1>3. CASE LookInto
  BY <1>0, <1>3, FreePlace, OwnPlaced DEF LookInto
<1>4. ASSUME NEW h \in Handlers, Record(h) PROVE OwnInv'
  <2> DEFINE next == IF h = Inbox THEN Free
                     ELSE [doing[h] EXCEPT !.at = "sweep", !.order = 0, !.sight = NoSight]
             c == doing[h].sight
             o == doing[h].order
  <2>1. next.at \in {"idle", "sweep"}
    BY <1>0, FreePlace DEF Stances
  <2>2. /\ doing[h].at = "order" /\ c \in Sights /\ lookedAt' = [lookedAt EXCEPT ![c] = o]
        /\ Go(h, next) /\ UNCHANGED <<mode, errands, suspends, died, excused>>
    BY <1>0, <1>4 DEF Record
  <2> HIDE DEF next
  <2>3. doing'[h] = next /\ \A g \in Handlers : g # h => doing'[g] = doing[g]
    BY <2>2, Moves
  <2>4. o \in DOMAIN errands /\ errands[o].sight = c /\ o # 0
    BY <1>0, <2>2 DEF OwnInv, Recorded
  <2>5. lookedAt'[c] = o /\ \A d \in Sights : d # c => lookedAt'[d] = lookedAt[d]
    BY <1>0, <2>2
  <2> HIDE DEF c, o
  <2>6. Recorded'
    <3>1. \A d \in Sights : lookedAt'[d] # 0 =>
              lookedAt'[d] \in DOMAIN errands /\ errands[lookedAt'[d]].sight = d
      BY <2>4, <2>5 DEF OwnInv, Recorded
    <3> QED
      BY <2>1, <2>2, <2>3, <3>1 DEF OwnInv, Recorded, OwnTask, Own
  <2>7. ASSUME ~died PROVE Looked'
    <3>1. ASSUME NEW p \in DOMAIN errands, errands[p].sight # NoSight
          PROVE  lookedAt'[errands[p].sight] # 0 \/ InTheAir(p)'
      <4>1. errands[p].sight \in Sights
        BY <1>0, <3>1 DEF Errand
      <4>2. CASE lookedAt[errands[p].sight] # 0
        BY <2>4, <2>5, <4>1, <4>2
      <4>3. CASE InTheAir(p)
        <5>1. PICK g \in Handlers : doing[g].at = "order" /\ doing[g].order = p
          BY <4>3 DEF InTheAir
        <5>2. CASE g = h
          BY <2>4, <2>5, <5>1, <5>2 DEF o
        <5>3. CASE g # h
          BY <2>3, <5>1, <5>3 DEF InTheAir
        <5> QED
          BY <5>2, <5>3
      <4> QED
        BY <2>7, <3>1, <4>2, <4>3 DEF OwnInv, Looked, Own
    <3> QED
      BY <2>2, <3>1 DEF Looked, Own
  <2>8. ASSUME ~died PROVE Backed'
    <3> SUFFICES ASSUME NEW p \in OpenErrands, Own(p)
                 PROVE  Automatic(p) \/ p \in reopened \cup overlooked \/ Promised(p)'
      BY <2>2 DEF Backed, OpenErrands, Own, Automatic, AutonomyOf, excused
    <3>1. ~Withdraws(h) /\ doing[h].at # "withdraw"
      BY <2>2 DEF Withdraws, Switched
    <3>2. CASE Promised(p)
      BY <2>2, <3>1, <3>2, PromisesStay
    <3>3. CASE ~Promised(p)
      BY <2>8, <3>3 DEF OwnInv, Backed
    <3> QED
      BY <3>2, <3>3
  <2> QED
    BY <2>2, <2>6, <2>7, <2>8 DEF OwnInv, OwnOnly, Own, excused
<1>5. ASSUME NEW r \in Requests, NEW m \in Machines, NEW to \in {"manual", "automatic"},
             SetAutonomy(r, m, to)
      PROVE  OwnInv'
  <2> DEFINE here == [Free EXCEPT !.at = "tell", !.machine = m, !.was = AutonomyOf(m), !.to = to]
  <2>1. here.at = "tell" /\ here.machine = m /\ here.was = AutonomyOf(m) /\ here.to = to
    BY FreePlace DEF Stances
  <2> HIDE DEF here
  <2>2. /\ doing[r].at = "idle" /\ mode' = [mode EXCEPT ![m] = to]
        /\ Go(r, here) /\ UNCHANGED <<errands, lookedAt, suspends, died>>
        /\ reopened' = {o \in reopened : to = "automatic" => errands[o].machine # m}
        /\ overlooked' = {o \in overlooked : to = "automatic" => errands[o].machine # m}
    BY <1>5 DEF SetAutonomy, here
  <2>3. r \in Handlers /\ doing'[r] = here /\ \A g \in Handlers : g # r => doing'[g] = doing[g]
    BY <1>0, <2>2, Moves
  <2>4. Recorded' /\ OwnOnly'
    BY <2>1, <2>2, <2>3 DEF OwnInv, Recorded, OwnOnly, OwnTask, Own
  <2>5. ASSUME ~died PROVE Looked'
    BY <2>2, <2>3, <2>5 DEF OwnInv, Looked, InTheAir, Own
  <2>6. ASSUME ~died, NEW o \in OpenErrands, Own(o)
        PROVE  \/ AutonomyOf(errands[o].machine)' = "automatic"
               \/ o \in reopened' \cup overlooked' \/ Promised(o)'
    <3>1. ~Withdraws(r) /\ doing[r].at # "withdraw"
      BY <2>2 DEF Withdraws, Switched
    <3>2. CASE Promised(o)
      BY <2>2, <2>3, <3>1, <3>2, PromisesStay
    <3>3. CASE ~Promised(o) /\ errands[o].machine = m /\ to = "automatic"
      BY <2>2, <3>3 DEF AutonomyOf, ModesOK
    <3>4. CASE o \in reopened \cup overlooked /\ ~(errands[o].machine = m /\ to = "automatic")
      BY <2>2, <3>4
    <3>5. CASE Automatic(o) /\ errands[o].machine # m
      BY <2>2, <3>5 DEF Automatic, AutonomyOf, ModesOK
    <3>6. CASE Automatic(o) /\ errands[o].machine = m /\ to = "manual"
      <4>1. AutonomyOf(m) = "automatic"
        BY <3>6 DEF Automatic
      <4>2. doing'[r].at = "tell" /\ doing'[r].machine = m /\ doing'[r].to = "manual"
            /\ doing'[r].was = "automatic"
        BY <2>1, <2>3, <3>6, <4>1
      <4> QED
        BY <2>2, <2>3, <3>6, <4>2 DEF Promised, Withdraws, Switched
    <3>7. Automatic(o) \/ o \in reopened \cup overlooked \/ Promised(o)
      BY <2>6 DEF OwnInv, Backed
    <3> QED
      BY <3>2, <3>3, <3>4, <3>5, <3>6, <3>7
  <2>7. ASSUME ~died PROVE Backed'
    BY <2>2, <2>6, <2>7 DEF Backed, OpenErrands, Own, Automatic
  <2>8. ASSUME ~suspends, ~died PROVE overlooked' = {}
    BY <2>2, <2>8 DEF OwnInv
  <2> QED
    BY <2>2, <2>4, <2>5, <2>7, <2>8 DEF OwnInv
<1>6. ASSUME NEW r \in Requests, Told(r) PROVE OwnInv'
  <2> DEFINE own == OwnOrders(doing[r].machine)
             sweep == [Free EXCEPT !.at = "sweep", !.todo = {c \in Sights : sights[c] = "open"}]
             take == [Free EXCEPT !.at = "withdraw", !.orders = own]
             next == IF ~Switched(r) THEN Free ELSE IF Withdraws(r) THEN take ELSE sweep
  <2>0. r \in Handlers
    BY <1>0
  <2>1. sweep.at = "sweep" /\ take.at = "withdraw" /\ take.orders = own
    BY FreePlace DEF Stances
  <2>2. /\ doing[r].at = "tell" /\ MayRun(r) /\ Go(r, next)
        /\ overlooked' = overlooked \cup (IF Withdraws(r) THEN OffRecord(doing[r].machine) ELSE {})
        /\ UNCHANGED <<mode, errands, lookedAt, suspends, died, reopened>>
    BY <1>6 DEF Told
  <2>3. \A o \in own : OwnTask(o)
    BY <1>0, ErrandsAssumption DEF OwnOrders, OwnInv, Recorded, OwnTask, Own
  <2> HIDE DEF sweep, take, own
  <2>5. /\ next.at \in {"idle", "sweep", "withdraw"}
        /\ next.at = "withdraw" => next.orders = own
        /\ Withdraws(r) => next = take
    BY <2>1, FreePlace DEF Withdraws
  <2> HIDE DEF next
  <2>4. doing'[r] = next /\ \A g \in Handlers : g # r => doing'[g] = doing[g]
    BY <2>0, <2>2, Moves
  <2>6. Recorded' /\ OwnOnly'
    BY <2>2, <2>3, <2>4, <2>5 DEF OwnInv, Recorded, OwnOnly, OwnTask, Own
  <2>7. ASSUME ~died PROVE Looked'
    BY <2>2, <2>4, <2>7 DEF OwnInv, Looked, InTheAir, Own
  <2>8. ASSUME ~died, NEW o \in OpenErrands, Own(o)
        PROVE  Automatic(o) \/ o \in reopened \cup overlooked' \/ Promised(o)'
    <3>1. CASE Withdraws(r) /\ doing[r].machine = errands[o].machine
      <4>1. o \in DOMAIN errands /\ o # 0 /\ errands[o].sight \in Sights
        BY <1>0, <2>8 DEF OpenErrands, Errand, Own
      <4>2. CASE lookedAt[errands[o].sight] = o
        <5>1. o \in own
          BY <3>1, <4>1, <4>2 DEF own, OwnOrders
        <5>2. doing'[r].at = "withdraw" /\ o \in doing'[r].orders
          BY <2>1, <2>4, <2>5, <3>1, <5>1
        <5> QED
          BY <2>0, <5>2 DEF Promised
      <4>3. CASE lookedAt[errands[o].sight] # o
        BY <2>2, <2>8, <3>1, <4>3 DEF OffRecord
      <4> QED
        BY <4>2, <4>3
    <3>2. CASE Promised(o) /\ ~(Withdraws(r) /\ doing[r].machine = errands[o].machine)
      <4>1. PICK g \in Handlers :
              \/ Withdraws(g) /\ doing[g].machine = errands[o].machine
              \/ doing[g].at = "withdraw" /\ o \in doing[g].orders
        BY <3>2 DEF Promised
      <4>2. doing'[g] = doing[g]
        BY <2>2, <2>4, <3>2, <4>1
      <4> QED
        BY <2>2, <4>1, <4>2 DEF Promised, Withdraws, Switched
    <3>3. Automatic(o) \/ o \in reopened \cup overlooked \/ Promised(o)
      BY <2>8 DEF OwnInv, Backed
    <3> QED
      BY <2>2, <3>1, <3>2, <3>3
  <2>9. ASSUME ~died PROVE Backed'
    BY <2>2, <2>8, <2>9 DEF Backed, OpenErrands, Own, Automatic, AutonomyOf
  <2>10. ASSUME ~suspends, ~died PROVE overlooked' = {}
    <3>1. \A h \in Handlers : doing[h].at # "order"
      BY <2>0, <2>2, <2>10, AloneAtWork
    <3>2. ASSUME NEW o \in OffRecord(doing[r].machine) PROVE FALSE
      BY <2>10, <3>1 DEF OffRecord, OpenErrands, Own, ErrandsInv, Accounted
    <3>3. overlooked = {}
      BY <2>10 DEF OwnInv
    <3> QED
      BY <2>2, <3>2, <3>3
  <2> QED
    BY <2>2, <2>6, <2>7, <2>9, <2>10 DEF OwnInv
<1>7. ASSUME NEW r \in Requests, NEW c \in Sights, SweepOn(r, c) PROVE OwnInv'
  <2> DEFINE here == [doing[r] EXCEPT !.todo = @ \ {c}]
  <2>0. r \in Handlers /\ doing[r] \in Stances /\ doing[r].at = "sweep"
    BY <1>0, <1>7 DEF SweepOn
  <2>1. here \in Stances /\ here.at = "sweep"
    BY <2>0 DEF Stances
  <2>2. Investigate(r, c, here) /\ UNCHANGED <<mode, lookedAt, suspends, died, excused>>
    BY <1>7 DEF SweepOn
  <2> HIDE DEF here
  <2> QED
    BY <2>0, <2>1, <2>2, OwnPlaced
<1>8. ASSUME NEW r \in Requests, NEW o \in DOMAIN errands, Withdraw(r, o) PROVE OwnInv'
  <2> DEFINE here == [doing[r] EXCEPT !.orders = @ \ {o}]
  <2>0. r \in Handlers /\ doing[r] \in Stances
    BY <1>0
  <2>1. here.at = doing[r].at /\ here.orders = doing[r].orders \ {o}
    BY <2>0 DEF Stances
  <2>2. /\ doing[r].at = "withdraw" /\ o \in doing[r].orders /\ Go(r, here)
        /\ reopened' = reopened \ {o} /\ overlooked' = overlooked \ {o}
        /\ UNCHANGED <<mode, lookedAt, suspends, died>>
    BY <1>8 DEF Withdraw, Ends
  <2> HIDE DEF here
  <2>3. doing'[r] = here /\ \A g \in Handlers : g # r => doing'[g] = doing[g]
    BY <2>0, <2>2, Moves
  <2>4. PICK s \in {"ended", "withdrawn"} : errands' = [errands EXCEPT ![o].state = s]
    BY <1>0, <1>8 DEF Withdraw, Errand
  <2>5. /\ DOMAIN errands' = DOMAIN errands
        /\ \A p \in DOMAIN errands : /\ errands'[p].sight = errands[p].sight
                                     /\ errands'[p].machine = errands[p].machine
                                     /\ p # o => errands'[p] = errands[p]
        /\ errands'[o].state = s /\ errands[o].sight # NoSight
    <3>1. errands[o] \in Errand /\ OwnTask(o)
      BY <1>0, <2>0, <2>2 DEF OwnInv, Recorded
    <3> QED
      BY <2>4, <3>1 DEF Errand, OwnTask, Own
  <2>6. Recorded'
    BY <2>0, <2>1, <2>2, <2>3, <2>5 DEF OwnInv, Recorded, OwnTask, Own
  <2>7. OwnOnly'
    BY <2>5 DEF OwnInv, OwnOnly, Own
  <2>8. ASSUME ~died PROVE Looked'
    BY <2>2, <2>3, <2>5, <2>8 DEF OwnInv, Looked, InTheAir, Own
  <2>9. ASSUME ~died PROVE Backed'
    <3>1. ASSUME NEW p \in DOMAIN errands, errands'[p].state = "open", Own(p), ~Automatic(p),
                 p \notin reopened' \cup overlooked'
          PROVE  Promised(p)'
      <4>1. p # o /\ p \in OpenErrands
        BY <2>5, <3>1 DEF OpenErrands
      <4>2. Promised(p)
        BY <2>2, <2>9, <3>1, <4>1 DEF OwnInv, Backed
      <4>3. PICK g \in Handlers :
              \/ Withdraws(g) /\ doing[g].machine = errands[p].machine
              \/ doing[g].at = "withdraw" /\ p \in doing[g].orders
        BY <4>2 DEF Promised
      <4>4. CASE g = r
        <5>1. p \in doing[r].orders
          BY <2>2, <4>3, <4>4 DEF Withdraws, Switched
        <5> QED
          BY <2>0, <2>1, <2>2, <2>3, <4>1, <5>1 DEF Promised
      <4>5. CASE g # r
        BY <2>3, <2>5, <4>3, <4>5 DEF Promised, Withdraws, Switched
      <4> QED
        BY <4>4, <4>5
    <3> QED
      BY <2>2, <2>5, <3>1 DEF Backed, OpenErrands, Own, Automatic, AutonomyOf
  <2>10. ASSUME ~suspends, ~died PROVE overlooked' = {}
    BY <2>2, <2>10 DEF OwnInv
  <2> QED
    BY <2>2, <2>6, <2>7, <2>8, <2>9, <2>10 DEF OwnInv
<1>9. ASSUME NEW r \in Requests, Finish(r) PROVE OwnInv'
  <2>1. /\ r \in Handlers /\ doing[r].at \in {"sweep", "withdraw"} /\ doing[r].orders = {}
        /\ Go(r, Free) /\ UNCHANGED <<mode, errands, lookedAt, suspends, died, excused>>
    BY <1>0, <1>9 DEF Finish
  <2>2. ~Withdraws(r)
    BY <2>1 DEF Withdraws, Switched
  <2> QED
    BY <2>1, <2>2, FreePlace, OwnGoesOn
<1>10. ASSUME NEW m \in Machines, OperatorOrders(m) PROVE OwnInv'
  <2> DEFINE new == [machine |-> m, sight |-> NoSight, state |-> "open"]
  <2>1. new.sight = NoSight /\ new.state = "open"
    OBVIOUS
  <2>2. errands' = Append(errands, new) /\ UNCHANGED <<mode, lookedAt, doing, suspends, died, excused>>
    BY <1>10 DEF OperatorOrders, Place
  <2> HIDE DEF new
  <2>3. /\ DOMAIN errands' = DOMAIN errands \cup {Len(errands) + 1}
        /\ \A o \in DOMAIN errands : errands'[o] = errands[o]
        /\ errands'[Len(errands) + 1] = new
    BY <1>0, <2>2
  <2>4. Recorded' /\ OwnOnly'
    BY <2>1, <2>2, <2>3 DEF OwnInv, Recorded, OwnOnly, OwnTask, Own
  <2>5. ASSUME ~died PROVE Looked'
    BY <2>1, <2>2, <2>3, <2>5 DEF OwnInv, Looked, InTheAir, Own
  <2>6. ASSUME ~died PROVE Backed'
    <3>1. ASSUME NEW p \in DOMAIN errands', errands'[p].state = "open", errands'[p].sight # NoSight,
                 AutonomyOf(errands'[p].machine) # "automatic", p \notin reopened \cup overlooked
          PROVE  Promised(p)'
      <4>1. p \in DOMAIN errands /\ errands'[p] = errands[p] /\ p \in OpenErrands
        BY <2>1, <2>3, <3>1 DEF OpenErrands
      <4>2. Promised(p)
        BY <2>6, <3>1, <4>1 DEF OwnInv, Backed, Own, Automatic
      <4> QED
        BY <2>2, <4>1, <4>2 DEF Promised, Withdraws, Switched
    <3> QED
      BY <2>2, <3>1 DEF Backed, OpenErrands, Own, Automatic, AutonomyOf, excused
  <2> QED
    BY <2>2, <2>4, <2>5, <2>6 DEF OwnInv, excused
<1>11. ASSUME NEW o \in DOMAIN errands, EndErrand(o) PROVE OwnInv'
  <2>1. /\ errands' = [errands EXCEPT ![o].state = "ended"]
        /\ UNCHANGED <<mode, lookedAt, doing, suspends, died>>
        /\ reopened' = reopened \ {o} /\ overlooked' = overlooked \ {o}
    BY <1>11 DEF EndErrand, Ends
  <2> QED
    BY <2>1, OwnRestated
<1>16. ASSUME NEW o \in DOMAIN errands, NEW as \in {"open", "ended"}, Report(o, as) PROVE OwnInv'
  <2>1. /\ errands' = [errands EXCEPT ![o].state = as]
        /\ UNCHANGED <<mode, lookedAt, doing, suspends, died>>
    BY <1>16 DEF Report
  <2>2. CASE as = "ended"
    <3>1. reopened' = reopened \ {o} /\ overlooked' = overlooked \ {o}
      BY <1>16, <2>2 DEF Report, Ends
    <3> QED
      BY <2>1, <2>2, <3>1, OwnRestated
  <2>3. CASE as = "open"
    <3>1. /\ reopened' = reopened \cup {p \in {o} \ OpenErrands : Own(p) /\ ~Automatic(p)}
          /\ overlooked' = overlooked
      BY <1>16, <2>3 DEF Report
    <3>2. o \in OpenErrands \/ ~Own(o) \/ Automatic(o) \/ o \in reopened'
      BY <3>1
    <3> QED
      BY <2>1, <2>3, <3>1, <3>2, OwnRestated
  <2> QED
    BY <2>2, <2>3
<1>12. CASE Die
  <2>1. /\ died' /\ \A h \in Handlers : doing'[h].at = "idle"
        /\ UNCHANGED <<errands, lookedAt>>
    BY <1>12, FreePlace DEF Die
  <2> QED
    BY <2>1 DEF OwnInv, Recorded, OwnOnly, OwnTask, Own
<1>13. ASSUME NEW c \in Sights, CloseSight(c) PROVE OwnInv'
  BY <1>1, <1>13 DEF CloseSight
<1>14. ASSUME NEW m \in Machines, Heard(m, "online") \/ Heard(m, "offline") PROVE OwnInv'
  BY <1>1, <1>14 DEF Heard
<1>15. CASE UNCHANGED errand
  BY <1>1, <1>15 DEF errand
<1> QED
  BY <1>2, <1>3, <1>4, <1>5, <1>6, <1>7, <1>8, <1>9, <1>10, <1>11, <1>12, <1>13, <1>14, <1>15, <1>16
     DEF ErrandsNext

LEMMA ErrandsKeep == ErrandsSpec => [](ModesOK /\ ErrandsInv /\ OwnInv)
<1>1. ErrandsInit => ModesOK
  BY DEF ErrandsInit, ModesOK
<1> QED
  BY <1>1, ErrandsStart, ModesStep, ErrandsStep, OwnStart, OwnStep, PTL DEF ErrandsSpec

\* Over any bus, while TRACK is not killed in the middle of a handler: a second
\* machine is sent to a contact only while the order of the first is not on record
\* yet, and over a bus that does not suspend never, for any machines, contacts and
\* requests.
THEOREM SpecOneMachinePerContact == ErrandsSpec => OneMachinePerContact
<1> DEFINE NotYet ==
      ~died => \A o \in DOMAIN errands, p \in DOMAIN errands' \ DOMAIN errands :
                  errands'[p].sight # NoSight /\ errands[o].sight = errands'[p].sight
                      => suspends /\ InTheAir(o)
<1>1. ErrandsInv /\ OwnInv /\ [ErrandsNext]_errand => [NotYet]_errand
  <2> SUFFICES ASSUME ErrandsInv, OwnInv, ErrandsNext, ~died, NEW o \in DOMAIN errands,
                      NEW p \in DOMAIN errands', p \notin DOMAIN errands,
                      errands'[p].sight # NoSight, errands[o].sight = errands'[p].sight
               PROVE  suspends /\ InTheAir(o)
    OBVIOUS
  <2>0. /\ errands \in Seq(Errand) /\ Inbox \in Handlers /\ Requests \subseteq Handlers
        /\ \A h \in Handlers : doing[h].at = "look" => doing[h].sight \in Sights
    BY DEF ErrandsInv, ErrandTypes, Handlers
  <2>1. ASSUME NEW m, NEW c, Place(m, c)
        PROVE  errands'[p].sight = c
    <3> DEFINE new == [machine |-> m, sight |-> c, state |-> "open"]
    <3>1. errands' = Append(errands, new) /\ new.sight = c
      BY <2>1 DEF Place
    <3> HIDE DEF new
    <3>2. p = Len(errands) + 1 /\ errands'[p] = new
      BY <2>0, <3>1
    <3> QED
      BY <3>1, <3>2
  <2>2. ASSUME NEW h \in Handlers, NEW c \in Sights, NEW then, Investigate(h, c, then),
               MayRun(h), doing[h].at # "order"
        PROVE  suspends /\ InTheAir(o)
    <3>1. PICK m \in Eligible : ~WasInvestigated(c) /\ Place(m, c)
      BY <2>2 DEF Investigate
    <3>2. errands[o].sight = c /\ lookedAt[c] = 0
      BY <2>1, <3>1 DEF WasInvestigated
    <3>3. InTheAir(o)
      BY <3>2 DEF OwnInv, Looked, Own
    <3>4. suspends
      BY <2>2, <3>3 DEF MayRun, InTheAir
    <3> QED
      BY <3>3, <3>4
  <2>3. CASE LookInto
    BY <2>0, <2>2, <2>3 DEF LookInto
  <2>4. ASSUME NEW r \in Requests, NEW c \in Sights, SweepOn(r, c) PROVE suspends /\ InTheAir(o)
    BY <2>0, <2>2, <2>4 DEF SweepOn
  <2>5. ASSUME NEW m \in Machines, OperatorOrders(m) PROVE FALSE
    BY <2>1, <2>5 DEF OperatorOrders
  <2>6. CASE UNCHANGED errands
    BY <2>6
  <2>7. ASSUME NEW q \in DOMAIN errands, NEW s, errands' = [errands EXCEPT ![q].state = s] PROVE FALSE
    BY <2>7
  <2>8. ASSUME NEW q \in DOMAIN errands,
               \/ \E r \in Requests : Withdraw(r, q)
               \/ EndErrand(q) \/ Report(q, "open") \/ Report(q, "ended")
        PROVE  FALSE
    BY <2>7, <2>8 DEF Withdraw, EndErrand, Report
  <2>9. CASE \/ \E c \in Sights : NewSight(c) \/ CloseSight(c)
             \/ Die \/ \E h \in Handlers : Record(h)
             \/ \E r \in Requests : \/ \E m \in Machines, to \in {"manual", "automatic"} : SetAutonomy(r, m, to)
                                    \/ Told(r) \/ Finish(r)
             \/ \E m \in Machines : Heard(m, "online") \/ Heard(m, "offline")
    BY <2>6, <2>9 DEF NewSight, CloseSight, Die, Record, SetAutonomy, Told, Finish, Heard
  <2> QED
    BY <2>3, <2>4, <2>5, <2>8, <2>9 DEF ErrandsNext
<1>2. ErrandsSpec => [][NotYet]_errand
  BY <1>1, ErrandsKeep, PTL DEF ErrandsSpec
<1> QED
  BY <1>2 DEF OneMachinePerContact

\* Over any bus: when the handlers are through, every order the platform gave a
\* machine on its own and that is still open is on an automatic machine, or the
\* machine reported it under way again, or the switch did not find it on record,
\* which takes a bus that suspends; and no operator's order is withdrawn, for any
\* machines, contacts and requests.
THEOREM SpecSwitchWithdraws == ErrandsSpec => []SwitchWithdraws
<1>1. OwnInv => SwitchWithdraws
  <2> SUFFICES ASSUME OwnInv PROVE SwitchWithdraws
    OBVIOUS
  <2>1. AllIdle => \A o \in OpenErrands : ~Promised(o)
    BY DEF AllIdle, Promised, Withdraws, Switched
  <2> QED
    BY <2>1 DEF OwnInv, OwnOnly, Backed, SwitchWithdraws
<1> QED
  BY <1>1, ErrandsKeep, PTL


------------------------------------------------------------------------------
(* Errands: the types of what a handler holds.                                *)

\* Where a handler can be when n orders have been issued.
StancesBy(n) == [at : {"idle", "look", "tell", "order", "sweep", "withdraw"},
                 machine : Machines, was : Modes, to : Modes,
                 sight : Sights \cup {NoSight}, order : 0..n,
                 todo : SUBSET Sights, orders : SUBSET (1..n)]

\* No handler and no contact's record names an order that was not issued.
Issued == errands \in Seq(Errand) /\ Len(errands) <= MaxErrands
NamesIssued ==
    /\ lookedAt \in [Sights -> 0..Len(errands)]
    /\ doing \in [Handlers -> StancesBy(Len(errands))]
Around ==
    /\ mode \in [Machines -> {"unset", "manual", "automatic"}]
    /\ answers \in [Machines -> {"unheard", "online", "offline"}]
    /\ sights \in [Sights -> {"none", "open", "closed"}]
    /\ suspends \in BOOLEAN /\ died \in BOOLEAN
Excusing == reopened \subseteq DOMAIN errands /\ overlooked \subseteq DOMAIN errands
ErrandsTyped == Issued /\ NamesIssued /\ Around /\ Excusing

LEMMA StancesGrow ==
  ASSUME NEW m \in Nat, NEW n \in Nat, m <= n
  PROVE  0..m \subseteq 0..n /\ StancesBy(m) \subseteq StancesBy(n)
<1>1. 0..m \subseteq 0..n /\ 1..m \subseteq 1..n
  OBVIOUS
<1> QED
  BY <1>1 DEF StancesBy

LEMMA FreeBy == ASSUME NEW n \in Nat PROVE Free \in StancesBy(n)
<1>1. 0 \in 0..n /\ {} \in SUBSET (1..n)
  OBVIOUS
<1> QED
  BY <1>1, ErrandsAssumption DEF Free, StancesBy, Modes

LEMMA ErrandsTypedGives == ErrandsTyped => ErrandsOK
<1> SUFFICES ASSUME ErrandsTyped PROVE ErrandsOK
  OBVIOUS
<1>1. Len(errands) \in Nat /\ MaxErrands \in Nat /\ Len(errands) <= MaxErrands
  BY ErrandsAssumption DEF ErrandsTyped, Issued
<1>2. StancesBy(Len(errands)) \subseteq StancesBy(MaxErrands)
  BY <1>1, StancesGrow
<1>3. StancesBy(MaxErrands) = Doing
  BY DEF StancesBy, Doing
<1>4. doing \in [Handlers -> Doing]
  BY <1>2, <1>3 DEF ErrandsTyped, NamesIssued
<1> QED
  BY <1>4 DEF ErrandsTyped, ErrandsOK, Issued, NamesIssued, Around, Excusing

LEMMA ErrandsTypedInit == ErrandsInit => ErrandsTyped
<1> SUFFICES ASSUME ErrandsInit PROVE ErrandsTyped
  OBVIOUS
<1>1. errands = <<>> /\ Len(errands) = 0 /\ MaxErrands \in Nat
  BY ErrandsAssumption DEF ErrandsInit
<1>2. Free \in StancesBy(Len(errands)) /\ 0 \in 0..Len(errands)
  BY <1>1, FreeBy
<1>3. NamesIssued
  BY <1>2 DEF ErrandsInit, NamesIssued
<1>4. Issued
  BY <1>1 DEF Issued
<1>5. Around /\ Excusing
  BY DEF ErrandsInit, Around, Excusing
<1> QED
  BY <1>3, <1>4, <1>5 DEF ErrandsTyped

\* A handler moves on, the orders staying as many or growing.
LEMMA MovesOn ==
  ASSUME NamesIssued, Len(errands) \in Nat, Len(errands') \in Nat, Len(errands) <= Len(errands'),
         NEW h \in Handlers, NEW there \in StancesBy(Len(errands')), Go(h, there),
         lookedAt' = lookedAt
  PROVE  NamesIssued'
<1>1. /\ 0..Len(errands) \subseteq 0..Len(errands')
      /\ StancesBy(Len(errands)) \subseteq StancesBy(Len(errands'))
  BY StancesGrow
<1>2. doing' = [doing EXCEPT ![h] = there]
  BY DEF Go
<1>3. lookedAt' \in [Sights -> 0..Len(errands')]
  BY <1>1 DEF NamesIssued
<1>4. doing' \in [Handlers -> StancesBy(Len(errands'))]
  BY <1>1, <1>2 DEF NamesIssued
<1> QED
  BY <1>3, <1>4 DEF NamesIssued

\* An order placed is one more.
LEMMA PlacedTyped ==
  ASSUME Issued, Len(errands) < MaxErrands, NEW m \in Machines, NEW c \in Sights \cup {NoSight},
         Place(m, c)
  PROVE  Issued' /\ Len(errands') = Len(errands) + 1 /\ Len(errands) \in Nat
<1> DEFINE row == [machine |-> m, sight |-> c, state |-> "open"]
<1>1. row \in Errand /\ errands' = Append(errands, row)
  BY DEF Errand, Place
<1> HIDE DEF row
<1>2. errands \in Seq(Errand) /\ MaxErrands \in Nat
  BY ErrandsAssumption DEF Issued
<1>3. errands' \in Seq(Errand) /\ Len(errands') = Len(errands) + 1 /\ Len(errands) \in Nat
  BY <1>1, <1>2
<1>4. Len(errands') <= MaxErrands
  BY <1>2, <1>3
<1> QED
  BY <1>3, <1>4 DEF Issued

LEMMA InvestigateTyped ==
  ASSUME Issued, NamesIssued, NEW h \in Handlers, NEW c \in Sights \cup {NoSight},
         NEW then \in StancesBy(Len(errands)), Investigate(h, c, then), lookedAt' = lookedAt
  PROVE  Issued' /\ NamesIssued'
<1>0. Len(errands) \in Nat
  BY DEF Issued
<1>1. CASE Go(h, then) /\ UNCHANGED errands
  BY <1>0, <1>1, MovesOn DEF Issued
<1>2. ASSUME Len(errands) < MaxErrands, NEW m \in Eligible, Place(m, c),
             Go(h, [then EXCEPT !.at = "order", !.sight = c, !.order = Len(errands) + 1])
      PROVE  Issued' /\ NamesIssued'
  <2> DEFINE there == [then EXCEPT !.at = "order", !.sight = c, !.order = Len(errands) + 1]
  <2>1. m \in Machines
    BY DEF Eligible
  <2>2. Issued' /\ Len(errands') = Len(errands) + 1
    BY <1>2, <2>1, PlacedTyped
  <2>3. then \in StancesBy(Len(errands'))
    BY <1>0, <2>2, StancesGrow
  <2>4. Len(errands) + 1 \in 0..Len(errands') /\ Len(errands') \in Nat /\ Len(errands) <= Len(errands')
    BY <1>0, <2>2
  <2>5. there \in StancesBy(Len(errands'))
    BY <2>1, <2>3, <2>4 DEF StancesBy
  <2>6. Go(h, there)
    BY <1>2
  <2> HIDE DEF there
  <2> QED
    BY <1>0, <2>2, <2>4, <2>5, <2>6, MovesOn
<1> QED
  BY <1>1, <1>2 DEF Investigate

LEMMA AroundStep == Around /\ [ErrandsNext]_errand => Around'
<1> SUFFICES ASSUME Around, [ErrandsNext]_errand PROVE Around'
  OBVIOUS
<1>1. CASE UNCHANGED <<mode, answers, sights, suspends, died>>
  BY <1>1 DEF Around
<1>2. ASSUME NEW c \in Sights, NewSight(c) \/ CloseSight(c) PROVE Around'
  BY <1>2 DEF Around, NewSight, CloseSight
<1>3. CASE Die
  BY <1>3 DEF Around, Die
<1>4. ASSUME NEW r \in Requests, NEW m \in Machines, NEW to \in {"manual", "automatic"}, SetAutonomy(r, m, to)
      PROVE  Around'
  BY <1>4 DEF Around, SetAutonomy
<1>5. ASSUME NEW m \in Machines, NEW how \in {"online", "offline"}, Heard(m, how) PROVE Around'
  BY <1>5 DEF Around, Heard
<1>6. CASE LookInto \/ \E h \in Handlers : Record(h)
  BY <1>1, <1>6 DEF LookInto, Record
<1>7. ASSUME NEW r \in Requests,
             (\E c \in Sights : SweepOn(r, c)) \/ (\E o \in DOMAIN errands : Withdraw(r, o)) \/ Told(r) \/ Finish(r)
      PROVE  Around'
  BY <1>1, <1>7 DEF SweepOn, Withdraw, Told, Finish
<1>8. CASE \/ \E m \in Machines : OperatorOrders(m)
           \/ \E o \in DOMAIN errands : EndErrand(o) \/ Report(o, "open") \/ Report(o, "ended")
  BY <1>1, <1>8 DEF OperatorOrders, EndErrand, Report
<1>9. CASE UNCHANGED errand
  BY <1>1, <1>9 DEF errand
<1> QED
  BY <1>2, <1>3, <1>4, <1>5, <1>6, <1>7, <1>8, <1>9 DEF ErrandsNext

\* No order is ever taken off the list, and the observers name orders on it.
LEMMA Appended ==
  ASSUME errands \in Seq(Errand), NEW m \in Machines, NEW c \in Sights \cup {NoSight}, Place(m, c)
  PROVE  DOMAIN errands \subseteq DOMAIN errands'
<1> DEFINE new == [machine |-> m, sight |-> c, state |-> "open"]
<1>1. new \in Errand /\ errands' = Append(errands, new)
  BY DEF Errand, Place
<1> HIDE DEF new
<1> QED
  BY <1>1

LEMMA InvestigateKeeps ==
  ASSUME errands \in Seq(Errand), NEW h \in Handlers, NEW c \in Sights \cup {NoSight}, NEW then,
         Investigate(h, c, then)
  PROVE  DOMAIN errands \subseteq DOMAIN errands'
<1>1. CASE UNCHANGED errands
  BY <1>1
<1>2. ASSUME NEW m \in Eligible, Place(m, c) PROVE DOMAIN errands \subseteq DOMAIN errands'
  BY <1>2, Appended DEF Eligible
<1> QED
  BY <1>1, <1>2 DEF Investigate

LEMMA ExcusingStep ==
  Issued /\ NamesIssued /\ Excusing /\ [ErrandsNext]_errand => Excusing'
<1> SUFFICES ASSUME Issued, NamesIssued, Excusing, [ErrandsNext]_errand PROVE Excusing'
  OBVIOUS
<1>0. /\ errands \in Seq(Errand) /\ Inbox \in Handlers /\ Requests \subseteq Handlers
      /\ \A h \in Handlers : doing[h].sight \in Sights \cup {NoSight}
  BY DEF Issued, NamesIssued, Handlers, StancesBy
<1>k. ASSUME DOMAIN errands \subseteq DOMAIN errands', UNCHANGED excused PROVE Excusing'
  BY <1>k DEF Excusing, excused
<1>s. ASSUME NEW o \in DOMAIN errands, NEW s, errands' = [errands EXCEPT ![o].state = s]
      PROVE  DOMAIN errands' = DOMAIN errands
  BY <1>s
<1>1. CASE UNCHANGED <<errands, excused>>
  BY <1>1, <1>k
<1>2. CASE \/ \E c \in Sights : NewSight(c) \/ CloseSight(c)
           \/ Die
           \/ \E h \in Handlers : Record(h)
           \/ \E m \in Machines : Heard(m, "online") \/ Heard(m, "offline")
           \/ \E r \in Requests : Finish(r)
  BY <1>1, <1>2 DEF NewSight, CloseSight, Die, Record, Heard, Finish
<1>3. CASE LookInto
  BY <1>0, <1>3, <1>k, InvestigateKeeps DEF LookInto
<1>4. ASSUME NEW r \in Requests, NEW c \in Sights, SweepOn(r, c) PROVE Excusing'
  BY <1>0, <1>4, <1>k, InvestigateKeeps DEF SweepOn
<1>5. ASSUME NEW m \in Machines, OperatorOrders(m) PROVE Excusing'
  BY <1>0, <1>5, <1>k, Appended DEF OperatorOrders
<1>6. ASSUME NEW r \in Requests, NEW m \in Machines, NEW to \in {"manual", "automatic"}, SetAutonomy(r, m, to)
      PROVE  Excusing'
  BY <1>6 DEF SetAutonomy, Excusing
<1>7. ASSUME NEW r \in Requests, Told(r) PROVE Excusing'
  BY <1>7 DEF Told, Excusing, OffRecord, OpenErrands
<1>8. ASSUME NEW r \in Requests, NEW o \in DOMAIN errands, Withdraw(r, o) PROVE Excusing'
  BY <1>8 DEF Withdraw, Ends, Excusing
<1>9. ASSUME NEW o \in DOMAIN errands, EndErrand(o) PROVE Excusing'
  BY <1>9, <1>s DEF EndErrand, Ends, Excusing
<1>10. ASSUME NEW o \in DOMAIN errands, NEW as \in {"open", "ended"}, Report(o, as) PROVE Excusing'
  BY <1>10, <1>s DEF Report, Ends, Excusing
<1>11. CASE UNCHANGED errand
  BY <1>1, <1>11 DEF errand
<1> QED
  BY <1>2, <1>3, <1>4, <1>5, <1>6, <1>7, <1>8, <1>9, <1>10, <1>11 DEF ErrandsNext

LEMMA ErrandsTypedStep == ErrandsTyped /\ [ErrandsNext]_errand => ErrandsTyped'
<1> SUFFICES ASSUME ErrandsTyped, [ErrandsNext]_errand PROVE Issued' /\ NamesIssued'
  BY AroundStep, ExcusingStep DEF ErrandsTyped
<1>0. /\ Issued /\ NamesIssued /\ errands \in Seq(Errand) /\ Len(errands) \in Nat /\ MaxErrands \in Nat
      /\ Inbox \in Handlers /\ Requests \subseteq Handlers
      /\ \A h \in Handlers : doing[h] \in StancesBy(Len(errands))
  BY ErrandsAssumption DEF ErrandsTyped, Issued, NamesIssued, Handlers
<1>k. ASSUME NEW h \in Handlers, NEW there \in StancesBy(Len(errands)), Go(h, there),
             errands' = errands, lookedAt' = lookedAt
      PROVE  Issued' /\ NamesIssued'
  BY <1>0, <1>k, MovesOn DEF Issued
<1>1. CASE UNCHANGED <<errands, lookedAt, doing>>
  BY <1>0, <1>1 DEF Issued, NamesIssued
<1>2. ASSUME NEW c \in Sights, NewSight(c) PROVE Issued' /\ NamesIssued'
  <2> DEFINE there == [Free EXCEPT !.at = "look", !.sight = c]
  <2>1. there \in StancesBy(Len(errands))
    BY <1>0, FreeBy DEF StancesBy
  <2>2. Go(Inbox, there) /\ errands' = errands /\ lookedAt' = lookedAt
    BY <1>2 DEF NewSight
  <2> HIDE DEF there
  <2> QED
    BY <1>0, <1>k, <2>1, <2>2
<1>3. CASE LookInto
  <2>1. Investigate(Inbox, doing[Inbox].sight, Free) /\ lookedAt' = lookedAt
    BY <1>3 DEF LookInto
  <2>2. doing[Inbox].sight \in Sights \cup {NoSight} /\ Free \in StancesBy(Len(errands))
    BY <1>0, FreeBy DEF StancesBy
  <2> QED
    BY <1>0, <2>1, <2>2, InvestigateTyped
<1>4. ASSUME NEW h \in Handlers, Record(h) PROVE Issued' /\ NamesIssued'
  <2> DEFINE there == IF h = Inbox THEN Free
                      ELSE [doing[h] EXCEPT !.at = "sweep", !.order = 0, !.sight = NoSight]
  <2>1. 0 \in 0..Len(errands)
    BY <1>0
  <2>2. there \in StancesBy(Len(errands)) /\ doing[h].order \in 0..Len(errands)
    BY <1>0, <2>1, FreeBy DEF StancesBy
  <2>3. /\ doing' = [doing EXCEPT ![h] = there] /\ errands' = errands
        /\ lookedAt' = [lookedAt EXCEPT ![doing[h].sight] = doing[h].order]
    BY <1>4 DEF Record, Go
  <2> HIDE DEF there
  <2>4. lookedAt' \in [Sights -> 0..Len(errands)]
    BY <1>0, <2>2, <2>3 DEF NamesIssued
  <2>5. doing' \in [Handlers -> StancesBy(Len(errands))]
    BY <1>0, <2>2, <2>3 DEF NamesIssued
  <2> QED
    BY <1>0, <2>3, <2>4, <2>5 DEF Issued, NamesIssued
<1>5. ASSUME NEW r \in Requests, NEW m \in Machines, NEW to \in {"manual", "automatic"},
             SetAutonomy(r, m, to)
      PROVE  Issued' /\ NamesIssued'
  <2> DEFINE there == [Free EXCEPT !.at = "tell", !.machine = m, !.was = AutonomyOf(m), !.to = to]
  <2>1. AutonomyOf(m) \in Modes /\ to \in Modes
    BY DEF AutonomyOf, Modes, ErrandsTyped, Around
  <2>2. there \in StancesBy(Len(errands))
    BY <1>0, <2>1, FreeBy DEF StancesBy
  <2>3. Go(r, there) /\ errands' = errands /\ lookedAt' = lookedAt
    BY <1>5 DEF SetAutonomy
  <2> HIDE DEF there
  <2> QED
    BY <1>0, <1>k, <2>2, <2>3
<1>6. ASSUME NEW r \in Requests, Told(r) PROVE Issued' /\ NamesIssued'
  <2> DEFINE there == IF ~Switched(r) THEN Free
                      ELSE IF Withdraws(r)
                      THEN [Free EXCEPT !.at = "withdraw", !.orders = OwnOrders(doing[r].machine)]
                      ELSE [Free EXCEPT !.at = "sweep", !.todo = {c \in Sights : sights[c] = "open"}]
  <2>1. ASSUME NEW o \in OwnOrders(doing[r].machine) PROVE o \in 1..Len(errands)
    <3>1. PICK c \in Sights : o = lookedAt[c] /\ lookedAt[c] # 0
      BY DEF OwnOrders
    <3>2. lookedAt[c] \in 0..Len(errands)
      BY <1>0 DEF NamesIssued
    <3> QED
      BY <1>0, <3>1, <3>2
  <2>2. OwnOrders(doing[r].machine) \in SUBSET (1..Len(errands))
    BY <2>1
  <2>3. Free \in StancesBy(Len(errands))
    BY <1>0, FreeBy
  <2>4. there \in StancesBy(Len(errands))
    BY <2>2, <2>3 DEF StancesBy
  <2>5. Go(r, there) /\ errands' = errands /\ lookedAt' = lookedAt
    BY <1>6 DEF Told
  <2> HIDE DEF there
  <2> QED
    BY <1>0, <1>k, <2>4, <2>5
<1>7. ASSUME NEW r \in Requests, NEW c \in Sights, SweepOn(r, c) PROVE Issued' /\ NamesIssued'
  <2> DEFINE then == [doing[r] EXCEPT !.todo = @ \ {c}]
  <2>1. then \in StancesBy(Len(errands))
    <3>1. doing[r] \in StancesBy(Len(errands))
      BY <1>0
    <3> QED
      BY <3>1 DEF StancesBy
  <2>2. Investigate(r, c, then) /\ lookedAt' = lookedAt
    BY <1>7 DEF SweepOn
  <2> HIDE DEF then
  <2> QED
    BY <1>0, <2>1, <2>2, InvestigateTyped
<1>8. ASSUME NEW r \in Requests, NEW o \in DOMAIN errands, Withdraw(r, o) PROVE Issued' /\ NamesIssued'
  <2> DEFINE there == [doing[r] EXCEPT !.orders = @ \ {o}]
             state == IF errands[o].state = "open" THEN "withdrawn" ELSE errands[o].state
  <2>1. there \in StancesBy(Len(errands))
    <3>1. doing[r] \in StancesBy(Len(errands))
      BY <1>0
    <3> QED
      BY <3>1 DEF StancesBy
  <2>2. Go(r, there) /\ errands' = [errands EXCEPT ![o].state = state] /\ lookedAt' = lookedAt
    BY <1>8 DEF Withdraw
  <2>3. state \in {"open", "ended", "withdrawn"}
    <3>1. errands[o] \in Errand
      BY <1>0
    <3>2. errands[o].state \in {"open", "ended", "withdrawn"}
      BY <3>1 DEF Errand
    <3> QED
      BY <3>2
  <2> HIDE DEF there, state
  <2>4. errands' \in Seq(Errand) /\ DOMAIN errands' = DOMAIN errands
    BY <1>0, <2>2, <2>3, Restated
  <2>5. Len(errands') = Len(errands) /\ Len(errands') \in Nat /\ Len(errands) <= Len(errands')
    BY <1>0, <2>4
  <2>6. there \in StancesBy(Len(errands'))
    BY <2>1, <2>5
  <2>7. Issued'
    BY <1>0, <2>4, <2>5 DEF Issued
  <2> QED
    BY <1>0, <2>2, <2>5, <2>6, <2>7, MovesOn
<1>9. ASSUME NEW r \in Requests, Finish(r) PROVE Issued' /\ NamesIssued'
  <2>1. Go(r, Free) /\ errands' = errands /\ lookedAt' = lookedAt
    BY <1>9 DEF Finish
  <2> QED
    BY <1>0, <1>k, <2>1, FreeBy
<1>10. ASSUME NEW m \in Machines, OperatorOrders(m) PROVE Issued' /\ NamesIssued'
  <2>1. Place(m, NoSight) /\ Len(errands) < MaxErrands /\ lookedAt' = lookedAt /\ doing' = doing
    BY <1>10 DEF OperatorOrders
  <2>2. Issued' /\ Len(errands') = Len(errands) + 1
    BY <1>0, <2>1, PlacedTyped
  <2>3. Len(errands) <= Len(errands') /\ Len(errands') \in Nat
    BY <1>0, <2>2
  <2>4. /\ 0..Len(errands) \subseteq 0..Len(errands')
        /\ StancesBy(Len(errands)) \subseteq StancesBy(Len(errands'))
    BY <1>0, <2>3, StancesGrow
  <2>5. NamesIssued'
    BY <1>0, <2>1, <2>4 DEF NamesIssued
  <2> QED
    BY <2>2, <2>5
<1>11. ASSUME NEW o \in DOMAIN errands, EndErrand(o) PROVE Issued' /\ NamesIssued'
  <2>1. errands' = [errands EXCEPT ![o].state = "ended"] /\ lookedAt' = lookedAt /\ doing' = doing
    BY <1>11 DEF EndErrand
  <2>2. errands' \in Seq(Errand) /\ DOMAIN errands' = DOMAIN errands
    BY <1>0, <2>1, Restated
  <2>3. Len(errands') = Len(errands)
    BY <1>0, <2>2
  <2> QED
    BY <1>0, <2>1, <2>2, <2>3 DEF Issued, NamesIssued
<1>16. ASSUME NEW o \in DOMAIN errands, NEW as \in {"open", "ended"}, Report(o, as)
      PROVE  Issued' /\ NamesIssued'
  <2>1. errands' = [errands EXCEPT ![o].state = as] /\ lookedAt' = lookedAt /\ doing' = doing
    BY <1>16 DEF Report
  <2>2. errands' \in Seq(Errand) /\ DOMAIN errands' = DOMAIN errands
    BY <1>0, <2>1, Restated
  <2>3. Len(errands') = Len(errands)
    BY <1>0, <2>2
  <2> QED
    BY <1>0, <2>1, <2>2, <2>3 DEF Issued, NamesIssued
<1>12. CASE Die
  <2>1. doing' = [h \in Handlers |-> Free] /\ errands' = errands /\ lookedAt' = lookedAt
    BY <1>12 DEF Die
  <2>2. Free \in StancesBy(Len(errands))
    BY <1>0, FreeBy
  <2> QED
    BY <1>0, <2>1, <2>2 DEF Issued, NamesIssued
<1>13. ASSUME NEW c \in Sights, CloseSight(c) PROVE Issued' /\ NamesIssued'
  BY <1>1, <1>13 DEF CloseSight
<1>14. ASSUME NEW m \in Machines, Heard(m, "online") \/ Heard(m, "offline") PROVE Issued' /\ NamesIssued'
  BY <1>1, <1>14 DEF Heard
<1>15. CASE UNCHANGED errand
  BY <1>1, <1>15 DEF errand
<1> QED
  BY <1>2, <1>3, <1>4, <1>5, <1>6, <1>7, <1>8, <1>9, <1>10, <1>11, <1>12, <1>13, <1>14, <1>15, <1>16
  DEF ErrandsNext

------------------------------------------------------------------------------
(* HeldReports.                                                               *)

Message == [kind : {"report", "description"}, n : Nat]

HandTypes ==
    \/ hand = Nothing
    \/ /\ hand.at \in {"composed", "holding", "publishing"} /\ hand.what \in Message
       /\ hand.at = "composed" => hand.what.kind = "description"

HeldTypes ==
    /\ made \in Nat /\ parts \in Nat /\ kept \in Nat
    /\ HandTypes
    /\ held \in Seq(Message) /\ batch \in Seq(Message)
    /\ outbox \in Seq(Message) /\ inbox \in Seq(Message)

\* Once a flush has taken what was held, at most what the loop found itself
\* holding before it is held again.
LeftOver ==
    /\ callback \in {"none", "raised", "flush", "sending"}
    /\ callback = "sending" <=> batch # <<>>
    /\ callback # "none" => up
    /\ up /\ callback \in {"none", "sending"} =>
          Len(held) <= 1 /\ (hand.at = "holding" => held = <<>>)

OnItsWay ==
    stored \cup forsaken \cup InHand \cup ReportsIn(held) \cup ReportsIn(batch)
    \cup ReportsIn(outbox) \cup ReportsIn(inbox)

HeldInv == HeldTypes /\ LeftOver /\ 1..made \subseteq OnItsWay

LEMMA ReportIn ==
  \A s, n : n \in ReportsIn(s) <=> \E i \in DOMAIN s : s[i].kind = "report" /\ s[i].n = n
  BY DEF ReportsIn

LEMMA ReportsOfNone == ReportsIn(<<>>) = {}
  BY ReportIn

LEMMA ReportsOfOne ==
  ASSUME NEW m PROVE ReportsIn(<<m>>) = IF m.kind = "report" THEN {m.n} ELSE {}
  BY ReportIn

LEMMA ReportsJoined ==
  ASSUME NEW s \in Seq(Message), NEW t \in Seq(Message)
  PROVE  s \o t \in Seq(Message) /\ ReportsIn(s \o t) = ReportsIn(s) \cup ReportsIn(t)
<1>1. /\ s \o t \in Seq(Message) /\ Len(s) \in Nat /\ Len(t) \in Nat
      /\ DOMAIN s = 1..Len(s) /\ DOMAIN t = 1..Len(t)
      /\ DOMAIN (s \o t) = 1..(Len(s) + Len(t))
      /\ \A i \in DOMAIN s : (s \o t)[i] = s[i]
      /\ \A i \in DOMAIN t : (s \o t)[Len(s) + i] = t[i]
  OBVIOUS
<1>2. ASSUME NEW n \in ReportsIn(s \o t) PROVE n \in ReportsIn(s) \cup ReportsIn(t)
  <2>1. PICK i \in DOMAIN (s \o t) : (s \o t)[i].kind = "report" /\ (s \o t)[i].n = n
    BY <1>2, ReportIn
  <2>2. CASE i \in DOMAIN s
    BY <1>1, <2>1, <2>2, ReportIn
  <2>3. CASE i \notin DOMAIN s
    <3>1. i - Len(s) \in DOMAIN t /\ i = Len(s) + (i - Len(s))
      BY <1>1, <2>3
    <3> QED
      BY <1>1, <2>1, <3>1, ReportIn
  <2> QED
    BY <2>2, <2>3
<1>3. ASSUME NEW n \in ReportsIn(s) PROVE n \in ReportsIn(s \o t)
  <2>1. PICK i \in DOMAIN s : s[i].kind = "report" /\ s[i].n = n
    BY <1>3, ReportIn
  <2>2. i \in DOMAIN (s \o t) /\ (s \o t)[i] = s[i]
    BY <1>1
  <2> QED
    BY <2>1, <2>2, ReportIn
<1>4. ASSUME NEW n \in ReportsIn(t) PROVE n \in ReportsIn(s \o t)
  <2>1. PICK i \in DOMAIN t : t[i].kind = "report" /\ t[i].n = n
    BY <1>4, ReportIn
  <2>2. Len(s) + i \in DOMAIN (s \o t) /\ (s \o t)[Len(s) + i] = t[i]
    BY <1>1
  <2> QED
    BY <2>1, <2>2, ReportIn, ZenonT(40)
<1> QED
  BY <1>1, <1>2, <1>3, <1>4

LEMMA ReportsAppended ==
  ASSUME NEW s \in Seq(Message), NEW m \in Message
  PROVE  /\ Append(s, m) \in Seq(Message)
         /\ ReportsIn(Append(s, m)) = ReportsIn(s) \cup ReportsIn(<<m>>)
<1>1. Append(s, m) = s \o <<m>> /\ <<m>> \in Seq(Message)
  OBVIOUS
<1> QED
  BY <1>1, ReportsJoined

LEMMA ReportsTaken ==
  ASSUME NEW s \in Seq(Message), s # <<>>
  PROVE  /\ Head(s) \in Message /\ Tail(s) \in Seq(Message)
         /\ ReportsIn(s) = ReportsIn(<<Head(s)>>) \cup ReportsIn(Tail(s))
<1>1. Head(s) \in Message /\ Tail(s) \in Seq(Message) /\ <<Head(s)>> \in Seq(Message)
  OBVIOUS
<1>2. s = <<Head(s)>> \o Tail(s)
  OBVIOUS
<1> QED
  BY <1>1, <1>2, ReportsJoined

LEMMA HeldStart == HeldInit => HeldInv
<1> SUFFICES ASSUME HeldInit PROVE HeldInv
  OBVIOUS
<1>1. HeldTypes /\ LeftOver
  BY DEF HeldInit, HeldTypes, HandTypes, LeftOver
<1>2. 1..made = {}
  BY DEF HeldInit
<1> QED
  BY <1>1, <1>2 DEF HeldInv

\* What the loop finds: a report goes on, published or held; a description is
\* published or dropped.
LEMMA Found ==
  ASSUME NEW m \in Message, hand' = Checked(m)
  PROVE  /\ HandTypes'
         /\ m.kind = "report" => InHand' = ReportsIn(<<m>>)
         /\ m.kind = "description" => InHand' = {}
         /\ up => hand'.at # "holding"
<1>1. CASE Connected
  <2>1. hand' = [at |-> "publishing", what |-> m]
    BY <1>1 DEF Checked
  <2>2. hand'.at = "publishing" /\ hand'.what = m
    BY <2>1
  <2> HIDE DEF Message
  <2> QED
    BY <2>2, ReportsOfOne DEF HandTypes, InHand
<1>2. CASE ~Connected /\ m.kind = "report"
  <2>1. hand' = [at |-> "holding", what |-> m]
    BY <1>2 DEF Checked
  <2>2. hand'.at = "holding" /\ hand'.what = m
    BY <2>1
  <2> QED
    BY <1>2, <2>2 DEF HandTypes, InHand, Connected
<1>3. CASE ~Connected /\ m.kind # "report"
  <2>1. hand' = Nothing /\ hand'.at = "idle"
    BY <1>3 DEF Checked, Nothing
  <2> QED
    BY <1>3, <2>1 DEF HandTypes, InHand, Connected
<1> QED
  BY <1>1, <1>2, <1>3

LEMMA HeldStep == HeldInv /\ [HeldNext]_heldReports => HeldInv'
<1> SUFFICES ASSUME HeldInv, [HeldNext]_heldReports PROVE HeldInv'
  OBVIOUS
<1>0. /\ made \in Nat /\ parts \in Nat /\ kept \in Nat /\ HandTypes
      /\ held \in Seq(Message) /\ batch \in Seq(Message)
      /\ outbox \in Seq(Message) /\ inbox \in Seq(Message)
      /\ LeftOver /\ 1..made \subseteq OnItsWay
  BY DEF HeldInv, HeldTypes
<1>1. Nothing.at = "idle"
  BY DEF Nothing
<1>2. ASSUME hand = Nothing PROVE InHand = {}
  BY <1>1, <1>2 DEF InHand
<1>3. ASSUME hand' = Nothing PROVE InHand' = {} /\ HandTypes' /\ hand'.at = "idle"
  BY <1>1, <1>3 DEF InHand, HandTypes
<1>4. CASE MakeReport
  <2> DEFINE m == [kind |-> "report", n |-> made + 1]
  <2>1. m \in Message /\ m.kind = "report" /\ m.n = made + 1
    BY <1>0 DEF Message
  <2>2. /\ hand = Nothing /\ made' = made + 1 /\ hand' = Checked(m)
        /\ UNCHANGED <<parts, kept, up, held, callback, batch, outbox, inbox, stored, forsaken>>
    BY <1>4 DEF MakeReport, trackSide
  <2> HIDE DEF m
  <2>3. HandTypes' /\ InHand' = {made + 1} /\ (up => hand'.at # "holding")
    BY <2>1, <2>2, Found, ReportsOfOne
  <2>4. LeftOver'
    BY <1>0, <2>2, <2>3 DEF LeftOver
  <2>5. 1..made' \subseteq OnItsWay'
    <3>1. 1..made' = 1..made \cup {made + 1}
      BY <1>0, <2>2
    <3> QED
      BY <1>0, <1>2, <2>2, <2>3, <3>1 DEF OnItsWay
  <2> QED
    BY <1>0, <2>2, <2>3, <2>4, <2>5 DEF HeldInv, HeldTypes
<1>5. CASE OfferRegistry \/ PartsChange
  <2>1. /\ parts' \in Nat /\ kept' \in Nat
        /\ UNCHANGED <<made, hand, up, held, callback, batch, outbox, inbox, stored, forsaken>>
    BY <1>0, <1>5 DEF OfferRegistry, PartsChange, trackSide
  <2> QED
    BY <1>0, <2>1 DEF HeldInv, HeldTypes, HandTypes, LeftOver, OnItsWay, InHand
<1>6. CASE Describe
  <2>1. /\ kept' \in Nat /\ hand = Nothing
        /\ UNCHANGED <<made, parts, up, held, callback, batch, outbox, inbox, stored, forsaken>>
    BY <1>0, <1>6 DEF Describe, trackSide
  <2>2. PICK n \in Nat :
            hand' = [at |-> "composed", what |-> [kind |-> "description", n |-> n]]
    BY <1>0, <1>6 DEF Describe
  <2>3. /\ hand'.at = "composed" /\ hand'.what = [kind |-> "description", n |-> n]
        /\ hand'.what \in Message /\ hand'.what.kind = "description"
    BY <2>2 DEF Message
  <2>4. HandTypes' /\ InHand' = {}
    BY <2>3, ReportsOfOne DEF HandTypes, InHand
  <2>5. LeftOver'
    BY <1>0, <2>1, <2>3 DEF LeftOver
  <2>6. 1..made' \subseteq OnItsWay'
    BY <1>0, <1>2, <2>1, <2>4 DEF OnItsWay
  <2> QED
    BY <1>0, <2>1, <2>4, <2>5, <2>6 DEF HeldInv, HeldTypes
<1>7. CASE SendDescription
  <2>1. /\ hand.at = "composed" /\ hand' = Checked(hand.what)
        /\ UNCHANGED <<made, parts, kept, up, held, callback, batch, outbox, inbox, stored, forsaken>>
    BY <1>7 DEF SendDescription, trackSide
  <2>2. hand.what \in Message /\ hand.what.kind = "description"
    BY <1>0, <1>1, <2>1 DEF HandTypes
  <2>3. HandTypes' /\ InHand' = {} /\ InHand = {} /\ (up => hand'.at # "holding")
    BY <2>1, <2>2, Found, ReportsOfOne DEF InHand
  <2>4. LeftOver'
    BY <1>0, <2>1, <2>3 DEF LeftOver
  <2>5. 1..made' \subseteq OnItsWay'
    BY <1>0, <2>1, <2>3 DEF OnItsWay
  <2> QED
    BY <1>0, <2>1, <2>3, <2>4, <2>5 DEF HeldInv, HeldTypes
<1>8. CASE SendNow
  <2>1. /\ hand.at = "publishing" /\ outbox' = outbox \o <<hand.what>> /\ hand' = Nothing
        /\ UNCHANGED <<made, parts, kept, up, held, callback, batch, inbox, stored, forsaken>>
    BY <1>8 DEF SendNow, ToBroker, PublishQos1, trackSide
  <2>2. hand.what \in Message /\ InHand = ReportsIn(<<hand.what>>)
    BY <1>0, <1>1, <2>1 DEF HandTypes, InHand
  <2>3. /\ outbox' \in Seq(Message)
        /\ ReportsIn(outbox') = ReportsIn(outbox) \cup InHand
    <3>1. <<hand.what>> \in Seq(Message)
      BY <2>2
    <3> QED
      BY <1>0, <2>1, <2>2, <3>1, ReportsJoined
  <2>4. LeftOver'
    BY <1>0, <1>3, <2>1 DEF LeftOver
  <2>5. 1..made' \subseteq OnItsWay'
    BY <1>0, <2>1, <2>3 DEF OnItsWay
  <2> QED
    BY <1>0, <1>3, <2>1, <2>3, <2>4, <2>5 DEF HeldInv, HeldTypes
<1>9. CASE Hold
  <2>1. /\ hand.at = "holding" /\ hand' = Nothing
        /\ UNCHANGED <<made, parts, kept, up, callback, batch, outbox, inbox, stored>>
    BY <1>9 DEF Hold
  <2>2. hand.what \in Message /\ InHand = ReportsIn(<<hand.what>>)
    BY <1>0, <1>1, <2>1 DEF HandTypes, InHand
  <2>3. CASE Len(held) < HeldLimit
    <3>1. held' = Append(held, hand.what) /\ forsaken' = forsaken
      BY <1>9, <2>3 DEF Hold
    <3>2. held' \in Seq(Message) /\ ReportsIn(held') = ReportsIn(held) \cup InHand
      BY <1>0, <2>2, <3>1, ReportsAppended
    <3>3. LeftOver'
      <4>1. held = <<>> => Len(held') <= 1
        BY <1>0, <2>2, <3>1
      <4>2. hand'.at # "holding"
        BY <1>3, <2>1
      <4> QED
        BY <1>0, <2>1, <4>1, <4>2 DEF LeftOver
    <3>4. 1..made' \subseteq OnItsWay'
      BY <1>0, <2>1, <3>1, <3>2 DEF OnItsWay
    <3> QED
      BY <1>0, <1>3, <2>1, <3>2, <3>3, <3>4 DEF HeldInv, HeldTypes
  <2>4. CASE ~(Len(held) < HeldLimit)
    <3>1. held' = Append(Tail(held), hand.what) /\ forsaken' = forsaken \cup {Head(held).n}
      BY <1>9, <2>4 DEF Hold
    <3>2. held # <<>>
      BY <2>4, HeldAssumption
    <3>3. /\ Head(held) \in Message /\ Tail(held) \in Seq(Message)
          /\ ReportsIn(held) \subseteq {Head(held).n} \cup ReportsIn(Tail(held))
      BY <1>0, <3>2, ReportsTaken, ReportsOfOne
    <3>4. held' \in Seq(Message) /\ ReportsIn(held') = ReportsIn(Tail(held)) \cup InHand
      BY <2>2, <3>1, <3>3, ReportsAppended
    <3>5. LeftOver'
      BY <1>0, <1>3, <2>1, <3>2 DEF LeftOver
    <3>6. 1..made' \subseteq OnItsWay'
      BY <1>0, <2>1, <3>1, <3>3, <3>4 DEF OnItsWay
    <3> QED
      BY <1>0, <1>3, <2>1, <3>4, <3>5, <3>6 DEF HeldInv, HeldTypes
  <2> QED
    BY <2>3, <2>4
<1>10. CASE LinkUp \/ OnLinkUp \/ LinkDown
  <2>1. UNCHANGED <<made, parts, kept, hand, held, batch, outbox, inbox, stored, forsaken>>
    BY <1>10 DEF LinkUp, OnLinkUp, LinkDown, machineSide, trackSide
  <2>2. LeftOver'
    BY <1>0, <1>10, <2>1 DEF LeftOver, LinkUp, OnLinkUp, LinkDown, machineSide
  <2> QED
    BY <1>0, <2>1, <2>2 DEF HeldInv, HeldTypes, HandTypes, OnItsWay, InHand
<1>11. CASE TakeHeld
  <2> DEFINE words == [kind |-> "description", n |-> kept]
             first == IF load.program = "fleet" /\ kept # 0 THEN <<words>> ELSE <<>>
  <2>1. first \in Seq(Message) /\ ReportsIn(first) = {}
    <3>1. words \in Message /\ words.kind # "report"
      BY <1>0 DEF Message
    <3> HIDE DEF words
    <3>2. <<words>> \in Seq(Message)
      BY <3>1
    <3>3. ReportsIn(<<words>>) = {}
      BY <3>1, ReportsOfOne, Zenon
    <3>4. <<>> \in Seq(Message) /\ ReportsIn(<<>>) = {}
      BY ReportsOfNone
    <3> QED
      BY <3>2, <3>3, <3>4
  <2>2. /\ callback = "flush" /\ batch' = first \o held /\ held' = <<>>
        /\ callback' = IF first \o held = <<>> THEN "none" ELSE "sending"
        /\ UNCHANGED <<made, parts, kept, hand, up, outbox, inbox, stored, forsaken>>
    BY <1>11 DEF TakeHeld, trackSide
  <2> HIDE DEF first
  <2>3. batch' \in Seq(Message) /\ ReportsIn(batch') = ReportsIn(held)
    <3>1. /\ first \o held \in Seq(Message)
          /\ ReportsIn(first \o held) = ReportsIn(first) \cup ReportsIn(held)
      BY <1>0, <2>1, ReportsJoined
    <3> QED
      BY <2>1, <2>2, <3>1
  <2>4. batch = <<>>
    BY <1>0, <2>2 DEF LeftOver
  <2>5. LeftOver'
    BY <1>0, <2>2 DEF LeftOver
  <2>6. 1..made' \subseteq OnItsWay'
    BY <1>0, <2>2, <2>3, <2>4, ReportsOfNone DEF OnItsWay, InHand
  <2> QED
    BY <1>0, <2>2, <2>3, <2>5, <2>6 DEF HeldInv, HeldTypes, HandTypes
<1>12. CASE SendHeld
  <2>1. /\ callback = "sending" /\ outbox' = outbox \o <<Head(batch)>> /\ batch' = Tail(batch)
        /\ callback' = IF Len(batch) = 1 THEN "none" ELSE "sending"
        /\ UNCHANGED <<made, parts, kept, hand, up, held, inbox, stored, forsaken>>
    BY <1>12 DEF SendHeld, ToBroker, PublishQos1, trackSide
  <2>2. batch # <<>>
    BY <1>0, <2>1 DEF LeftOver
  <2>3. /\ Head(batch) \in Message /\ batch' \in Seq(Message)
        /\ ReportsIn(batch) = ReportsIn(<<Head(batch)>>) \cup ReportsIn(batch')
    BY <1>0, <2>1, <2>2, ReportsTaken
  <2>4. /\ outbox' \in Seq(Message)
        /\ ReportsIn(outbox') = ReportsIn(outbox) \cup ReportsIn(<<Head(batch)>>)
    <3>1. <<Head(batch)>> \in Seq(Message)
      BY <2>3
    <3> QED
      BY <1>0, <2>1, <3>1, ReportsJoined
  <2>5. Len(batch) = 1 <=> batch' = <<>>
    <3>1. Len(batch) \in Nat /\ Len(batch') = Len(batch) - 1
      BY <1>0, <2>1, <2>2
    <3>2. batch' = <<>> <=> Len(batch') = 0
      BY <2>3
    <3> QED
      BY <3>1, <3>2
  <2>6. LeftOver'
    BY <1>0, <2>1, <2>5 DEF LeftOver
  <2>7. 1..made' \subseteq OnItsWay'
    BY <1>0, <2>1, <2>3, <2>4 DEF OnItsWay, InHand
  <2> QED
    BY <1>0, <2>1, <2>3, <2>4, <2>6, <2>7 DEF HeldInv, HeldTypes, HandTypes
<1>13. CASE BrokerDelivers
  <2>1. /\ outbox # <<>> /\ outbox' \in {outbox, Tail(outbox)}
        /\ UNCHANGED <<made, parts, kept, hand, up, held, callback, batch, stored>>
    BY <1>13 DEF BrokerDelivers, machineSide
  <2>2. /\ Head(outbox) \in Message /\ Tail(outbox) \in Seq(Message)
        /\ ReportsIn(outbox) = ReportsIn(<<Head(outbox)>>) \cup ReportsIn(Tail(outbox))
    BY <1>0, <2>1, ReportsTaken
  <2>3. /\ inbox' \in Seq(Message)
        /\ ReportsIn(<<Head(outbox)>>) \subseteq ReportsIn(inbox') \cup forsaken'
        /\ ReportsIn(inbox) \subseteq ReportsIn(inbox') /\ forsaken \subseteq forsaken'
    <3>1. CASE inbox' = Append(inbox, Head(outbox)) /\ UNCHANGED <<forsaken, untold>>
      BY <1>0, <2>2, <3>1, ReportsAppended
    <3>2. CASE Forsake(Head(outbox)) /\ UNCHANGED inbox
      BY <1>0, <3>2, ReportsOfOne DEF Forsake
    <3> QED
      BY <1>13, <3>1, <3>2 DEF BrokerDelivers
  <2>4. LeftOver'
    BY <1>0, <2>1 DEF LeftOver
  <2>5. 1..made' \subseteq OnItsWay'
    BY <1>0, <2>1, <2>2, <2>3 DEF OnItsWay, InHand
  <2> QED
    BY <1>0, <2>1, <2>2, <2>3, <2>4, <2>5 DEF HeldInv, HeldTypes, HandTypes
<1>14. CASE TrackHandles
  <2>1. /\ inbox # <<>> /\ inbox' = Tail(inbox)
        /\ UNCHANGED <<made, parts, kept, hand, up, held, callback, batch, outbox, forsaken>>
    BY <1>14 DEF TrackHandles, machineSide
  <2>2. /\ inbox' \in Seq(Message)
        /\ ReportsIn(inbox) = ReportsIn(<<Head(inbox)>>) \cup ReportsIn(inbox')
    BY <1>0, <2>1, ReportsTaken
  <2>3. stored \subseteq stored' /\ ReportsIn(<<Head(inbox)>>) \subseteq stored'
    BY <1>14, ReportsOfOne DEF TrackHandles
  <2>4. LeftOver'
    BY <1>0, <2>1 DEF LeftOver
  <2>5. 1..made' \subseteq OnItsWay'
    BY <1>0, <2>1, <2>2, <2>3 DEF OnItsWay, InHand
  <2> QED
    BY <1>0, <2>1, <2>2, <2>4, <2>5 DEF HeldInv, HeldTypes, HandTypes
<1>15. CASE TrackAway
  <2>1. UNCHANGED <<made, parts, kept, hand, up, held, callback, batch, outbox, stored>>
    BY <1>15 DEF TrackAway, machineSide
  <2>2. /\ inbox' \in Seq(Message)
        /\ forsaken \cup ReportsIn(inbox) \subseteq forsaken' \cup ReportsIn(inbox')
    <3>1. CASE UNCHANGED <<inbox, forsaken, untold>>
      BY <1>0, <3>1
    <3>2. CASE inbox' = <<>> /\ forsaken' = forsaken \cup ReportsIn(inbox)
      BY <3>2
    <3> QED
      BY <1>15, <3>1, <3>2 DEF TrackAway, ReportsIn
  <2>3. LeftOver'
    BY <1>0, <2>1 DEF LeftOver
  <2>4. 1..made' \subseteq OnItsWay'
    BY <1>0, <2>1, <2>2 DEF OnItsWay, InHand
  <2> QED
    BY <1>0, <2>1, <2>2, <2>3, <2>4 DEF HeldInv, HeldTypes, HandTypes
<1>16. CASE WireCut \/ TrackBack \/ UNCHANGED heldReports
  <2>1. UNCHANGED <<made, parts, kept, hand, up, held, callback, batch, outbox, inbox, stored, forsaken>>
    BY <1>16 DEF WireCut, TrackBack, heldReports, machineSide, trackSide
  <2> QED
    BY <1>0, <2>1 DEF HeldInv, HeldTypes, HandTypes, LeftOver, OnItsWay, InHand
<1> QED
  BY <1>4, <1>5, <1>6, <1>7, <1>8, <1>9, <1>10, <1>11, <1>12, <1>13, <1>14, <1>15, <1>16
     DEF HeldNext, HeldLoop, HeldThread

\* A report is on its way, in the world model, or among those a named limit or
\* TRACK's absence has cost, and a flush leaves at most one behind, for any
\* loads, limits and cuts of the connection.
THEOREM SpecNothingLost == HeldSpec => []NothingLost
<1>1. HeldInv => NothingLost
  BY DEF HeldInv, LeftOver, OnItsWay, NothingLost
<1>2. HeldSpec => []HeldInv
  BY HeldStart, HeldStep, PTL DEF HeldSpec
<1> QED
  BY <1>1, <1>2, PTL

------------------------------------------------------------------------------
(* HeldReports: the types of what waits.                                      *)

\* What was sent is of the machine's observations and revisions, and what waits
\* is within its room.
WithinLoad ==
    /\ load \in Loads /\ wire \in BOOLEAN /\ up \in BOOLEAN /\ listening \in BOOLEAN
    /\ made \in 0..load.reports /\ parts \in 0..load.parts /\ cuts \in 0..MaxCuts
    /\ offered \in 0..load.parts /\ kept \in 0..load.parts /\ learned \in 0..load.parts
    /\ untold \in BOOLEAN
InLoop ==
    /\ hand \in Hand
    /\ hand.at = "holding" => hand.what \in Reports
HeldBack == held \in Seq(Reports) /\ Len(held) <= HeldLimit
Sending ==
    /\ batch \in Seq(Messages) /\ outbox \in Seq(Messages)
    /\ callback \in {"none", "raised", "flush", "sending"}
    /\ callback = "sending" <=> batch # <<>>
AtTrack ==
    /\ inbox \in Seq(Messages) /\ Len(inbox) <= InboxLimit
    /\ stored \subseteq 1..load.reports /\ forsaken \subseteq 1..load.reports
HeldTyped == WithinLoad /\ InLoop /\ HeldBack /\ Sending /\ AtTrack

LEMMA HeldBounds ==
  ASSUME load \in Loads
  PROVE  /\ load.program \in {"pilot", "fleet"} /\ load.reports \in Nat /\ load.parts \in Nat
         /\ MaxCuts \in Nat /\ HeldLimit \in Nat \ {0} /\ InboxLimit \in Nat \ {0}
<1>1. load \in [program : {"pilot", "fleet"}, reports : Nat, parts : Nat]
  BY HeldAssumption
<1> QED
  BY <1>1, HeldAssumption

LEMMA MessageFacts ==
  /\ \A m \in Messages : /\ m.kind \in {"report", "description"}
                         /\ m.kind = "report" => m \in Reports /\ m.n \in 1..load.reports
                         /\ m.kind = "description" => m.n \in 1..load.parts
  /\ \A m \in Reports : m \in Messages /\ m.kind = "report" /\ m.n \in 1..load.reports
  /\ \A n \in 1..load.reports : [kind |-> "report", n |-> n] \in Reports
  /\ \A n \in 1..load.parts : [kind |-> "description", n |-> n] \in Messages
  BY DEF Messages, Reports, Descriptions

LEMMA HandFacts ==
  /\ Nothing \in Hand /\ Nothing.at = "idle"
  /\ \A h \in Hand : h.at \in {"idle", "composed", "holding", "publishing"}
                     /\ (h.at # "idle" => h.what \in Messages)
  /\ \A m \in Messages, a \in {"composed", "holding", "publishing"} : [at |-> a, what |-> m] \in Hand
<1> HIDE DEF Messages
<1> QED
  BY DEF Hand, Nothing

\* What the loop found is what it had.
LEMMA CheckedTyped ==
  ASSUME NEW m \in Messages
  PROVE  /\ Checked(m) \in Hand
         /\ Checked(m).at = "holding" => Checked(m).what \in Reports
<1>1. CASE Connected
  BY <1>1, HandFacts DEF Checked
<1>2. CASE ~Connected /\ m.kind = "report"
  BY <1>2, HandFacts, MessageFacts DEF Checked
<1>3. CASE ~Connected /\ m.kind # "report"
  BY <1>3, HandFacts DEF Checked
<1> QED
  BY <1>1, <1>2, <1>3

LEMMA LoadStays == [HeldNext]_heldReports => load' = load
  BY DEF HeldNext, HeldLoop, HeldThread, heldReports, machineSide, MakeReport, PartsChange, OfferRegistry,
         Describe, SendDescription, SendNow, Hold, LinkUp, OnLinkUp, TakeHeld, SendHeld, WireCut,
         LinkDown, BrokerDelivers, TrackHandles, TrackAway, TrackBack

LEMMA HeldTypedInit == HeldInit => HeldTyped
<1> SUFFICES ASSUME HeldInit PROVE HeldTyped
  OBVIOUS
<1>1. /\ load.reports \in Nat /\ load.parts \in Nat /\ MaxCuts \in Nat
      /\ HeldLimit \in Nat \ {0} /\ InboxLimit \in Nat \ {0} /\ load \in Loads
  BY HeldBounds DEF HeldInit
<1>2. /\ 0 \in 0..load.reports /\ 0 \in 0..load.parts /\ 0 \in 0..MaxCuts /\ parts \in 0..load.parts
  BY <1>1 DEF HeldInit
<1>3. WithinLoad
  BY <1>1, <1>2 DEF HeldInit, WithinLoad
<1>4. InLoop
  BY HandFacts DEF HeldInit, InLoop
<1>5. HeldBack /\ Sending /\ AtTrack
  BY <1>1 DEF HeldInit, HeldBack, Sending, AtTrack
<1> QED
  BY <1>3, <1>4, <1>5 DEF HeldTyped

LEMMA HeldTypedGives == HeldTyped => HeldOK
  BY DEF HeldTyped, WithinLoad, InLoop, HeldBack, Sending, AtTrack, HeldOK

LEMMA WithinLoadStep == HeldTyped /\ [HeldNext]_heldReports => WithinLoad'
<1> SUFFICES ASSUME HeldTyped, [HeldNext]_heldReports PROVE WithinLoad'
  OBVIOUS
<1>0. /\ load' = load /\ WithinLoad /\ load.reports \in Nat /\ load.parts \in Nat /\ MaxCuts \in Nat
  BY LoadStays, HeldBounds DEF HeldTyped, WithinLoad
<1>1. CASE MakeReport
  <2>1. made < load.reports /\ made' = made + 1
        /\ UNCHANGED <<wire, up, parts, offered, kept, cuts, listening, learned, untold>>
    BY <1>1 DEF MakeReport, trackSide
  <2>2. made' \in 0..load.reports
    BY <1>0, <2>1 DEF WithinLoad
  <2> QED
    BY <1>0, <2>1, <2>2 DEF WithinLoad
<1>2. CASE PartsChange
  <2>1. parts < load.parts /\ parts' = parts + 1
        /\ UNCHANGED <<wire, up, made, offered, kept, cuts, listening, learned, untold>>
    BY <1>2 DEF PartsChange, trackSide
  <2>2. parts' \in 0..load.parts
    BY <1>0, <2>1 DEF WithinLoad
  <2> QED
    BY <1>0, <2>1, <2>2 DEF WithinLoad
<1>3. CASE OfferRegistry \/ Describe \/ SendDescription \/ SendNow \/ Hold
  <2>0. 0 \in 0..load.parts
    BY <1>0
  <2>1. /\ UNCHANGED <<wire, up, made, parts, cuts, listening, learned>>
        /\ kept' \in 0..load.parts /\ offered' \in 0..load.parts
        /\ untold' = untold
    BY <1>0, <1>3, <2>0 DEF WithinLoad, OfferRegistry, Describe, SendDescription, SendNow, Hold, trackSide
  <2> QED
    BY <1>0, <2>1 DEF WithinLoad
<1>4. CASE OnLinkUp \/ TakeHeld \/ SendHeld \/ LinkDown \/ LinkUp
  <2>0. 0 \in 0..load.parts
    BY <1>0
  <2>1. /\ UNCHANGED <<made, parts, cuts, listening, learned, kept, untold>>
        /\ wire' \in BOOLEAN /\ up' \in BOOLEAN /\ offered' \in 0..load.parts
    BY <1>0, <1>4, <2>0 DEF WithinLoad, OnLinkUp, TakeHeld, SendHeld, LinkDown, LinkUp, AfterLinkUp,
         OfferAnew, machineSide, trackSide
  <2> QED
    BY <1>0, <2>1 DEF WithinLoad
<1>5. CASE WireCut \/ TrackAway \/ TrackBack
  <2>1. /\ UNCHANGED <<up, made, parts, offered, kept, learned>>
        /\ wire' \in BOOLEAN /\ listening' \in BOOLEAN /\ untold' \in BOOLEAN
        /\ cuts' = cuts \/ (cuts < MaxCuts /\ cuts' = cuts + 1)
    BY <1>0, <1>5 DEF WithinLoad, WireCut, TrackAway, TrackBack, machineSide, trackSide
  <2>2. cuts' \in 0..MaxCuts
    BY <1>0, <2>1 DEF WithinLoad
  <2> QED
    BY <1>0, <2>1, <2>2 DEF WithinLoad
<1>6. CASE BrokerDelivers
  <2>1. /\ UNCHANGED <<up, made, parts, offered, kept, learned, listening>>
        /\ wire' \in BOOLEAN
        /\ cuts' = cuts \/ (cuts < MaxCuts /\ cuts' = cuts + 1)
    BY <1>0, <1>6 DEF WithinLoad, BrokerDelivers, machineSide
  <2>2. untold' \in BOOLEAN
    BY <1>0, <1>6 DEF WithinLoad, BrokerDelivers, Forsake
  <2>3. cuts' \in 0..MaxCuts
    BY <1>0, <2>1 DEF WithinLoad
  <2> QED
    BY <1>0, <2>1, <2>2, <2>3 DEF WithinLoad
<1>7. CASE TrackHandles
  <2>1. /\ UNCHANGED <<wire, up, made, parts, offered, kept, cuts, listening>>
        /\ inbox # <<>> /\ untold' \in BOOLEAN
        /\ learned' = learned \/ (Head(inbox).kind # "report" /\ learned' = Head(inbox).n)
    BY <1>0, <1>7 DEF WithinLoad, TrackHandles, machineSide
  <2>2. Head(inbox) \in Messages
    BY <2>1 DEF HeldTyped, AtTrack
  <2>3. learned' \in 0..load.parts
    <3>1. Head(inbox).kind # "report" => Head(inbox).n \in 1..load.parts
      BY <2>2, MessageFacts
    <3>2. 1..load.parts \subseteq 0..load.parts
      BY <1>0
    <3> QED
      BY <1>0, <2>1, <3>1, <3>2 DEF WithinLoad
  <2> QED
    BY <1>0, <2>1, <2>3 DEF WithinLoad
<1>8. CASE UNCHANGED heldReports
  BY <1>0, <1>8 DEF WithinLoad, heldReports
<1> QED
  BY <1>1, <1>2, <1>3, <1>4, <1>5, <1>6, <1>7, <1>8 DEF HeldNext, HeldLoop, HeldThread

LEMMA SetsStay ==
  ASSUME load' = load
  PROVE  Messages' = Messages /\ Reports' = Reports /\ Hand' = Hand
  BY DEF Messages, Reports, Descriptions, Hand, Nothing

LEMMA InLoopStep == HeldTyped /\ [HeldNext]_heldReports => InLoop'
<1> SUFFICES ASSUME HeldTyped, [HeldNext]_heldReports PROVE InLoop'
  OBVIOUS
<1>0. /\ InLoop /\ Messages' = Messages /\ Reports' = Reports /\ Hand' = Hand
      /\ WithinLoad /\ load.reports \in Nat /\ load.parts \in Nat
  BY LoadStays, SetsStay, HeldBounds DEF HeldTyped, WithinLoad
<1>1. ASSUME hand' = Nothing PROVE InLoop'
  BY <1>0, <1>1, HandFacts DEF InLoop
<1>2. ASSUME NEW m \in Messages, hand' = Checked(m) PROVE InLoop'
  BY <1>0, <1>2, CheckedTyped DEF InLoop
<1>3. CASE MakeReport
  <2>1. made + 1 \in 1..load.reports
    BY <1>0, <1>3 DEF MakeReport, WithinLoad
  <2>2. [kind |-> "report", n |-> made + 1] \in Messages
    BY <2>1, MessageFacts
  <2> QED
    BY <1>2, <1>3, <2>2 DEF MakeReport
<1>4. CASE Describe
  <2>1. PICK n \in 1..load.parts :
            hand' = [at |-> "composed", what |-> [kind |-> "description", n |-> n]]
    <3>1. (kept # 0 => kept \in 1..load.parts) /\ (parts # 0 => parts \in 1..load.parts)
      BY <1>0 DEF WithinLoad
    <3> QED
      BY <1>4, <3>1 DEF Describe
  <2> DEFINE m == [kind |-> "description", n |-> n]
  <2>2. m \in Messages
    BY MessageFacts
  <2>3. hand' = [at |-> "composed", what |-> m]
    BY <2>1
  <2> HIDE DEF m
  <2>4. hand' \in Hand /\ hand'.at = "composed"
    BY <2>2, <2>3, HandFacts
  <2> QED
    BY <1>0, <2>4 DEF InLoop
<1>5. CASE SendDescription
  <2>1. hand.what \in Messages
    BY <1>0, <1>5, HandFacts DEF SendDescription, InLoop
  <2> QED
    BY <1>2, <1>5, <2>1 DEF SendDescription
<1>6. CASE SendNow \/ Hold
  BY <1>1, <1>6 DEF SendNow, Hold
<1>7. CASE hand' = hand
  BY <1>0, <1>7 DEF InLoop
<1> QED
  BY <1>3, <1>4, <1>5, <1>6, <1>7 DEF HeldNext, HeldLoop, HeldThread, heldReports, machineSide, PartsChange,
     OfferRegistry, LinkUp, OnLinkUp, TakeHeld, SendHeld, WireCut, LinkDown, BrokerDelivers,
     TrackHandles, TrackAway, TrackBack

LEMMA HeldBackStep == HeldTyped /\ [HeldNext]_heldReports => HeldBack'
<1> SUFFICES ASSUME HeldTyped, [HeldNext]_heldReports PROVE HeldBack'
  OBVIOUS
<1>0. /\ held \in Seq(Reports) /\ Len(held) <= HeldLimit /\ Reports' = Reports
      /\ HeldLimit \in Nat \ {0} /\ InLoop
  BY LoadStays, SetsStay, HeldBounds DEF HeldTyped, HeldBack, WithinLoad
<1>1. CASE Hold
  <2>1. hand.what \in Reports /\ held' = IF Len(held) < HeldLimit THEN Append(held, hand.what)
                                         ELSE Append(Tail(held), hand.what)
    BY <1>0, <1>1 DEF Hold, InLoop
  <2>2. CASE Len(held) < HeldLimit
    BY <1>0, <2>1, <2>2 DEF HeldBack
  <2>3. CASE ~(Len(held) < HeldLimit)
    <3>1. Len(held) = HeldLimit /\ held # <<>>
      BY <1>0, <2>3
    <3>2. Tail(held) \in Seq(Reports) /\ Len(Tail(held)) = Len(held) - 1
      BY <1>0, <3>1
    <3>3. held' \in Seq(Reports) /\ Len(held') = Len(Tail(held)) + 1
      BY <2>1, <2>3, <3>2
    <3> QED
      BY <1>0, <3>1, <3>2, <3>3 DEF HeldBack
  <2> QED
    BY <2>2, <2>3
<1>2. CASE TakeHeld
  <2>1. held' = <<>>
    BY <1>2 DEF TakeHeld
  <2> QED
    BY <1>0, <2>1 DEF HeldBack
<1>3. CASE held' = held
  BY <1>0, <1>3 DEF HeldBack
<1> QED
  BY <1>1, <1>2, <1>3 DEF HeldNext, HeldLoop, HeldThread, heldReports, machineSide, PartsChange,
     OfferRegistry, LinkUp, OnLinkUp, SendHeld, WireCut, LinkDown, BrokerDelivers,
     TrackHandles, TrackAway, TrackBack, MakeReport, Describe, SendDescription, SendNow

LEMMA SendingStep == HeldTyped /\ [HeldNext]_heldReports => Sending'
<1> SUFFICES ASSUME HeldTyped, [HeldNext]_heldReports PROVE Sending'
  OBVIOUS
<1>0. /\ Sending /\ Messages' = Messages /\ batch \in Seq(Messages) /\ outbox \in Seq(Messages)
      /\ InLoop /\ WithinLoad /\ held \in Seq(Reports) /\ load.parts \in Nat
  BY LoadStays, SetsStay, HeldBounds DEF HeldTyped, HeldBack, WithinLoad, Sending
<1>1. CASE SendNow
  <2>1. hand.what \in Messages
    BY <1>0, <1>1, HandFacts DEF SendNow, InLoop
  <2>2. outbox' = outbox \o <<hand.what>> /\ UNCHANGED <<batch, callback>>
    BY <1>1 DEF SendNow, ToBroker, PublishQos1
  <2>3. outbox' \in Seq(Messages)
    <3>1. <<hand.what>> \in Seq(Messages)
      BY <2>1
    <3> QED
      BY <1>0, <2>2, <3>1
  <2> QED
    BY <1>0, <2>2, <2>3 DEF Sending
<1>2. CASE TakeHeld
  <2> DEFINE described == IF load.program = "fleet" /\ kept # 0
                     THEN <<[kind |-> "description", n |-> kept]>> ELSE <<>>
             taken == described \o held
  <2>1. described \in Seq(Messages)
    <3>1. kept # 0 => [kind |-> "description", n |-> kept] \in Messages
      <4>1. kept # 0 => kept \in 1..load.parts
        BY <1>0 DEF WithinLoad
      <4> QED
        BY <4>1, MessageFacts
    <3> HIDE DEF Messages
    <3> QED
      BY <3>1
  <2>2. held \in Seq(Messages)
    <3>1. Reports \subseteq Messages
      BY MessageFacts
    <3> QED
      BY <1>0, <3>1
  <2>3. batch' = taken /\ callback' = (IF taken = <<>> THEN "none" ELSE "sending") /\ outbox' = outbox
    BY <1>2 DEF TakeHeld
  <2> HIDE DEF described
  <2>4. taken \in Seq(Messages)
    BY <2>1, <2>2
  <2> HIDE DEF taken
  <2> QED
    BY <1>0, <2>3, <2>4 DEF Sending
<1>3. CASE SendHeld
  <2>1. /\ outbox' = outbox \o <<Head(batch)>> /\ batch' = Tail(batch) /\ callback = "sending"
        /\ callback' = IF Len(batch) = 1 THEN "none" ELSE "sending"
    BY <1>3 DEF SendHeld, ToBroker, PublishQos1
  <2>2. batch # <<>>
    BY <1>0, <2>1 DEF Sending
  <2>3. Head(batch) \in Messages /\ Tail(batch) \in Seq(Messages) /\ Len(Tail(batch)) = Len(batch) - 1
    BY <1>0, <2>2
  <2>4. outbox' \in Seq(Messages)
    <3>1. <<Head(batch)>> \in Seq(Messages)
      BY <2>3
    <3> QED
      BY <1>0, <2>1, <3>1
  <2>5. batch' = <<>> <=> Len(batch) = 1
    <3>1. Tail(batch) = <<>> <=> Len(Tail(batch)) = 0
      <4>1. \A s \in Seq(Messages) : s = <<>> <=> Len(s) = 0
        <5> HIDE DEF Messages
        <5> QED
          OBVIOUS
      <4> QED
        BY <2>3, <4>1, Zenon
    <3>2. Len(batch) \in Nat
      BY <1>0
    <3> QED
      <4>1. Len(Tail(batch)) = 0 <=> Len(batch) = 1
        BY <2>3, <3>2
      <4>2. batch' = <<>> <=> Tail(batch) = <<>>
        BY <2>1
      <4> QED
        BY <3>1, <4>1, <4>2, Zenon
  <2> QED
    BY <1>0, <2>1, <2>3, <2>4, <2>5 DEF Sending
<1>4. CASE BrokerDelivers
  <2>1. UNCHANGED <<batch, callback>> /\ outbox # <<>> /\ (outbox' = Tail(outbox) \/ outbox' = outbox)
    BY <1>4 DEF BrokerDelivers, machineSide
  <2>2. outbox' \in Seq(Messages)
    <3>1. \A q \in Seq(Messages) : q # <<>> => Tail(q) \in Seq(Messages)
      <4> HIDE DEF Messages
      <4> QED
        OBVIOUS
    <3> QED
      BY <1>0, <2>1, <3>1, Zenon
  <2> QED
    BY <1>0, <2>1, <2>2 DEF Sending
<1>5. CASE LinkUp \/ OnLinkUp
  BY <1>0, <1>5 DEF LinkUp, OnLinkUp, Sending
<1>6. CASE UNCHANGED <<batch, callback, outbox>>
  BY <1>0, <1>6 DEF Sending
<1> QED
  BY <1>1, <1>2, <1>3, <1>4, <1>5, <1>6 DEF HeldNext, HeldLoop, HeldThread, heldReports, machineSide,
     PartsChange, OfferRegistry, WireCut, LinkDown, TrackHandles, TrackAway, TrackBack, MakeReport,
     Describe, SendDescription, Hold

LEMMA AtTrackStep == HeldTyped /\ [HeldNext]_heldReports => AtTrack'
<1> SUFFICES ASSUME HeldTyped, [HeldNext]_heldReports PROVE AtTrack'
  OBVIOUS
<1>0. /\ Messages' = Messages /\ load' = load /\ InLoop /\ InboxLimit \in Nat \ {0}
      /\ inbox \in Seq(Messages) /\ Len(inbox) <= InboxLimit /\ outbox \in Seq(Messages)
      /\ held \in Seq(Reports) /\ HeldLimit \in Nat \ {0}
      /\ stored \subseteq 1..load.reports /\ forsaken \subseteq 1..load.reports
  BY LoadStays, SetsStay, HeldBounds DEF HeldTyped, HeldBack, WithinLoad, Sending, AtTrack
<1>1. CASE Hold
  <2>1. /\ UNCHANGED <<inbox, stored>>
        /\ forsaken' = IF Len(held) < HeldLimit THEN forsaken ELSE forsaken \cup {Head(held).n}
    BY <1>1 DEF Hold
  <2>2. ~(Len(held) < HeldLimit) => Head(held).n \in 1..load.reports
    <3>1. ~(Len(held) < HeldLimit) => held # <<>>
      BY <1>0
    <3>2. held # <<>> => Head(held) \in Reports
      BY <1>0
    <3> QED
      BY <3>1, <3>2, MessageFacts
  <2> QED
    BY <1>0, <2>1, <2>2 DEF AtTrack
<1>2. CASE BrokerDelivers
  <2>1. outbox # <<>> /\ stored' = stored
        /\ \/ Len(inbox) < InboxLimit /\ inbox' = Append(inbox, Head(outbox)) /\ forsaken' = forsaken
           \/ inbox' = inbox /\ Forsake(Head(outbox))
    BY <1>2 DEF BrokerDelivers
  <2>2. Head(outbox) \in Messages
    BY <1>0, <2>1
  <2>3. CASE Len(inbox) < InboxLimit /\ inbox' = Append(inbox, Head(outbox)) /\ forsaken' = forsaken
    <3>1. inbox' \in Seq(Messages) /\ Len(inbox') = Len(inbox) + 1 /\ Len(inbox) \in Nat
      BY <1>0, <2>2, <2>3
    <3>2. Len(inbox') <= InboxLimit
      BY <1>0, <2>3, <3>1
    <3> QED
      BY <1>0, <2>1, <2>3, <3>1, <3>2 DEF AtTrack
  <2>4. CASE inbox' = inbox /\ Forsake(Head(outbox))
    <3>1. Head(outbox).kind = "report" => Head(outbox).n \in 1..load.reports
      BY <2>2, MessageFacts
    <3>2. forsaken' \subseteq 1..load.reports
      BY <1>0, <2>4, <3>1 DEF Forsake
    <3> QED
      BY <1>0, <2>1, <2>4, <3>2 DEF AtTrack
  <2> QED
    BY <2>1, <2>3, <2>4
<1>3. CASE TrackHandles
  <2>1. /\ inbox # <<>> /\ inbox' = Tail(inbox) /\ forsaken' = forsaken
        /\ stored' = stored \/ (Head(inbox).kind = "report" /\ stored' = stored \cup {Head(inbox).n})
    BY <1>3 DEF TrackHandles
  <2>2. Head(inbox) \in Messages /\ Tail(inbox) \in Seq(Messages) /\ Len(Tail(inbox)) = Len(inbox) - 1
        /\ Len(inbox) \in Nat
    BY <1>0, <2>1
  <2>3. Head(inbox).kind = "report" => Head(inbox).n \in 1..load.reports
    BY <2>2, MessageFacts
  <2>4. Len(inbox') <= InboxLimit
    BY <1>0, <2>1, <2>2
  <2>5. stored' \subseteq 1..load.reports
    BY <1>0, <2>1, <2>3
  <2> QED
    BY <1>0, <2>1, <2>2, <2>4, <2>5 DEF AtTrack
<1>4. CASE TrackAway
  <2>1. CASE UNCHANGED <<inbox, forsaken, stored>>
    BY <1>0, <2>1 DEF AtTrack
  <2>2. CASE inbox' = <<>> /\ stored' = stored
             /\ forsaken' = forsaken \cup {inbox[i].n : i \in {j \in DOMAIN inbox : inbox[j].kind = "report"}}
    <3>1. ASSUME NEW i \in DOMAIN inbox, inbox[i].kind = "report" PROVE inbox[i].n \in 1..load.reports
      <4>1. inbox[i] \in Messages
        BY <1>0
      <4> QED
        BY <3>1, <4>1, MessageFacts
    <3>2. forsaken' \subseteq 1..load.reports
      BY <1>0, <2>2, <3>1
    <3>3. inbox' \in Seq(Messages) /\ Len(inbox') <= InboxLimit
      <4> HIDE DEF Messages
      <4> QED
        BY <1>0, <2>2
    <3> QED
      BY <1>0, <2>2, <3>2, <3>3 DEF AtTrack
  <2> QED
    BY <1>4, <2>1, <2>2 DEF TrackAway
<1>5. CASE UNCHANGED <<inbox, stored, forsaken>>
  BY <1>0, <1>5 DEF AtTrack
<1> QED
  BY <1>1, <1>2, <1>3, <1>4, <1>5 DEF HeldNext, HeldLoop, HeldThread, heldReports, machineSide, trackSide,
     PartsChange, OfferRegistry, WireCut, LinkDown, LinkUp, OnLinkUp, TakeHeld, SendHeld, TrackBack,
     MakeReport, Describe, SendDescription, SendNow

LEMMA HeldTypedStep == HeldTyped /\ [HeldNext]_heldReports => HeldTyped'
  BY WithinLoadStep, InLoopStep, HeldBackStep, SendingStep, AtTrackStep DEF HeldTyped

------------------------------------------------------------------------------
(* Proposal.                                                                  *)

\* What is on the screen was checked, and what was sent did not fail.
FullChecks == [answering : States, battery : States, mode : States, supports : States, keep_out : States]
ProposalInv ==
    /\ standing \in Standings
    /\ heard \in {"never", "now", "late"}
    /\ at \in Places \cup {<<>>}
    /\ zones \subseteq ZoneBook
    /\ shown = NoProposal \/ shown.checks \in FullChecks
    /\ sent = NoOrder \/ ~FirstFailure(sent.checks)

LEMMA ChecksTyped ==
  ASSUME standing \in Standings, NEW order
  PROVE  Checks(order) \in FullChecks
<1>1. CheckAnswering \in States
  BY DEF CheckAnswering, States
<1>2. CheckBattery \in States
  BY ProposalAssumption DEF CheckBattery, States
<1>3. CheckMode \in States
  BY DEF CheckMode, States
<1>4. CheckSupports(order) \in States
  BY DEF CheckSupports, States
<1>5. CheckKeepOut(Path(order)) \in States
  BY DEF CheckKeepOut, States
<1> QED
  BY <1>1, <1>2, <1>3, <1>4, <1>5 DEF Checks, FullChecks

LEMMA ProposalStart == ProposalInit => ProposalInv
  BY DEF ProposalInit, ProposalInv

LEMMA ProposalStep == ProposalInv /\ [ProposalNext]_proposal => ProposalInv'
<1> SUFFICES ASSUME ProposalInv, [ProposalNext]_proposal PROVE ProposalInv'
  OBVIOUS
<1>1. ASSUME NEW p \in Places, HeardFrom(p) PROVE ProposalInv'
  BY <1>1 DEF HeardFrom, ProposalInv
<1>2. CASE FallsQuiet
  BY <1>2 DEF FallsQuiet, ProposalInv
<1>3. ASSUME NEW z \in ZoneBook, DrawZone(z) PROVE ProposalInv'
  BY <1>3 DEF DrawZone, ProposalInv
<1>4. ASSUME NEW o \in Orders, Preview(o) PROVE ProposalInv'
  <2>1. Checks(o) \in FullChecks
    BY ChecksTyped DEF ProposalInv
  <2>2. shown'.checks = Checks(o) /\ sent' = NoOrder /\ UNCHANGED <<standing, heard, at, zones>>
    BY <1>4 DEF Preview
  <2> QED
    BY <2>1, <2>2 DEF ProposalInv
<1>5. ASSUME NEW by \in Issuers, Issue(by) PROVE ProposalInv'
  <2> DEFINE checks == Checks(shown.order)
  <2>1. ~FirstFailure(checks) /\ sent'.checks = checks
    BY <1>5 DEF Issue
  <2>2. UNCHANGED <<standing, heard, at, zones, shown>>
    BY <1>5 DEF Issue
  <2> HIDE DEF checks
  <2>3. ~FirstFailure(sent'.checks)
    BY <2>1
  <2> QED
    BY <2>2, <2>3 DEF ProposalInv
<1>6. CASE UNCHANGED proposal
  BY <1>6 DEF proposal, ProposalInv
<1> QED
  BY <1>1, <1>2, <1>3, <1>4, <1>5, <1>6 DEF ProposalNext

\* FirstFailure is of what it is given.
LEMMA ProposalTyped == ProposalInv => ProposalOK
<1>1. ASSUME NEW c \in FullChecks, NEW k \in DOMAIN c PROVE c[k] \in States
  BY DEF FullChecks
<1> QED
  BY <1>1 DEF ProposalInv, ProposalOK

------------------------------------------------------------------------------
(* Proposal: what the keep-out check cannot overlook.                         *)

\* A product that is nothing.
LEMMA NoFactor ==
  ASSUME NEW u \in Int, NEW v \in Int, u * v = 0, u # 0
  PROVE v = 0
  OBVIOUS

\* The mean of two numbers, weighted.
Mean(F, k, a, b) == (F - k) * a + k * b
Turn(ax, ay, bx, by, cx, cy) == (bx - ax) * (cy - ay) - (by - ay) * (cx - ax)

\* A mean of integers is one, whatever the weights.
LEMMA MeanIsInt ==
  ASSUME NEW F \in Int, NEW k \in Int, NEW a \in Int, NEW b \in Int
  PROVE  Mean(F, k, a, b) \in Int
  BY DEF Mean

\* A mean of the ends of a segment is on its line.
LEMMA MeanOnItself ==
  ASSUME NEW G \in Int, NEW j \in Int,
         NEW cx \in Int, NEW cy \in Int, NEW dx \in Int, NEW dy \in Int
  PROVE (dx - cx) * Mean(G, j, cy, dy) - (dy - cy) * Mean(G, j, cx, dx) = G * ((dx - cx) * cy - (dy - cy) * cx)
  BY DEF Mean

\* The point in common is on the line of either, so the turns of the ends cancel in its parts.
LEMMA TurnsBalance ==
  ASSUME NEW F \in Int, NEW G \in Int, NEW k \in Int, NEW j \in Int,
         NEW ax \in Int, NEW ay \in Int, NEW bx \in Int, NEW by \in Int,
         NEW cx \in Int, NEW cy \in Int, NEW dx \in Int, NEW dy \in Int,
         G # 0,
         G * Mean(F, k, ax, bx) = F * Mean(G, j, cx, dx),
         G * Mean(F, k, ay, by) = F * Mean(G, j, cy, dy)
  PROVE Mean(F, k, Turn(cx, cy, dx, dy, ax, ay), Turn(cx, cy, dx, dy, bx, by)) = 0
<1> DEFINE X == Mean(F, k, ax, bx)
           Y == Mean(F, k, ay, by)
           U == Mean(G, j, cx, dx)
           V == Mean(G, j, cy, dy)
           e == dx - cx
           f == dy - cy
           h == (dx - cx) * cy - (dy - cy) * cx
           whole == Mean(F, k, Turn(cx, cy, dx, dy, ax, ay), Turn(cx, cy, dx, dy, bx, by))
<1>1. X \in Int /\ Y \in Int /\ U \in Int /\ V \in Int /\ e \in Int /\ f \in Int /\ h \in Int
  <2>1. X \in Int /\ Y \in Int /\ U \in Int /\ V \in Int
    BY MeanIsInt
  <2>2. e \in Int /\ f \in Int /\ h \in Int
    OBVIOUS
  <2> QED
    BY <2>1, <2>2, Zenon
<1>2. whole = e * Y - f * X - F * h
  BY DEF Mean, Turn
<1>3. e * V - f * U = G * h
  BY MeanOnItself
<1>4. G * X = F * U /\ G * Y = F * V
  OBVIOUS
<1> HIDE DEF X, Y, U, V, e, f, h, whole
<1>5. G * (e * Y - f * X - F * h) = 0
  <2>1. G * (e * Y - f * X - F * h) = e * (G * Y) - f * (G * X) - F * (G * h)
    BY <1>1
  <2>2. e * (G * Y) - f * (G * X) - F * (G * h) = e * (F * V) - f * (F * U) - F * (e * V - f * U)
    BY <1>1, <1>3, <1>4
  <2>3. e * (F * V) - f * (F * U) - F * (e * V - f * U) = 0
    BY <1>1
  <2> QED
    BY <2>1, <2>2, <2>3
<1>6. e * Y - f * X - F * h \in Int
  BY <1>1
<1>7. whole = 0
  BY <1>2, <1>5, <1>6, NoFactor
<1> QED
  BY <1>7 DEF whole

\* Weights that add up: of two numbers that balance, neither zero, one is positive.
LEMMA OppositeSigns ==
  ASSUME NEW F \in Int, NEW k \in Int, NEW o \in Int, NEW p \in Int, F > 0, 0 <= k, k <= F,
         Mean(F, k, o, p) = 0
  PROVE  /\ o # 0 /\ p # 0 => (o > 0) # (p > 0)
         /\ o = 0 /\ p # 0 => k = 0
         /\ o # 0 /\ p = 0 => k = F
<1>1. (F - k) * o + k * p = 0
  BY DEF Mean
<1>2. ASSUME o # 0, p # 0 PROVE (o > 0) # (p > 0)
  BY <1>1, <1>2
<1>3. ASSUME o = 0, p # 0 PROVE k = 0
  <2>1. p * k = 0
    BY <1>1, <1>3
  <2> QED
    BY <1>3, <2>1, NoFactor
<1>4. ASSUME o # 0, p = 0 PROVE k = F
  <2>1. o * (F - k) = 0 /\ F - k \in Int
    BY <1>1, <1>4
  <2>2. F - k = 0
    BY <1>4, <2>1, NoFactor
  <2> QED
    BY <2>2
<1> QED
  BY <1>2, <1>3, <1>4

\* A mean is between what it is the mean of.
LEMMA MeanBetween ==
  ASSUME NEW G \in Int, NEW j \in Int, NEW x \in Int, NEW c \in Int, NEW d \in Int,
         G > 0, 0 <= j, j <= G, G * x = Mean(G, j, c, d)
  PROVE  Between(x, c, d)
<1>1. G * x = (G - j) * c + j * d
  BY DEF Mean
<1>2. CASE c <= d
  <2>1. G * (x - c) = j * (d - c) /\ j * (d - c) >= 0
    BY <1>1, <1>2
  <2>2. G * (d - x) = (G - j) * (d - c) /\ (G - j) * (d - c) >= 0
    BY <1>1, <1>2
  <2>3. c <= x /\ x <= d
    BY <2>1, <2>2
  <2> QED
    BY <2>3 DEF Between
<1>3. CASE d <= c
  <2>1. G * (c - x) = j * (c - d) /\ j * (c - d) >= 0
    BY <1>1, <1>3
  <2>2. G * (x - d) = (G - j) * (c - d) /\ (G - j) * (c - d) >= 0
    BY <1>1, <1>3
  <2>3. d <= x /\ x <= c
    BY <2>1, <2>2
  <2> QED
    BY <2>3 DEF Between
<1> QED
  BY <1>2, <1>3

\* The end of one segment that is on the other is between the other's ends.
LEMMA EndBetween ==
  ASSUME NEW F \in Int, NEW G \in Int, NEW j \in Int, NEW a \in Int, NEW c \in Int, NEW d \in Int,
         F > 0, G > 0, 0 <= j, j <= G, G * (F * a) = F * Mean(G, j, c, d)
  PROVE  Between(a, c, d)
<1> DEFINE U == Mean(G, j, c, d)
<1>1. U \in Int
  BY MeanIsInt
<1>2. G * (F * a) = F * U
  OBVIOUS
<1> HIDE DEF U
<1>3. F * (G * a - U) = 0 /\ G * a - U \in Int
  BY <1>1, <1>2
<1>4. G * a - U = 0
  BY <1>3, NoFactor
<1>5. G * a = U
  BY <1>1, <1>4
<1> QED
  BY <1>5, MeanBetween DEF U

\* Two segments of a line with a point in common: an end of one is on the other.
LEMMA MeansApart ==
  ASSUME NEW F \in Int, NEW k \in Int, NEW G \in Int, NEW j \in Int,
         NEW a \in Int, NEW b \in Int, NEW c \in Int, NEW d \in Int, NEW m \in Int,
         F > 0, 0 <= k, k <= F, G > 0, 0 <= j, j <= G, a <= m, b <= m, m < c, m < d
  PROVE  G * Mean(F, k, a, b) < F * Mean(G, j, c, d)
<1> DEFINE X == Mean(F, k, a, b)
           U == Mean(G, j, c, d)
<1>1. X <= F * m /\ X \in Int
  <2>1. F * m - X = (F - k) * (m - a) + k * (m - b)
    BY DEF Mean
  <2>2. (F - k) * (m - a) >= 0 /\ k * (m - b) >= 0
    OBVIOUS
  <2>3. X \in Int
    BY MeanIsInt
  <2> HIDE DEF X
  <2> QED
    BY <2>1, <2>2, <2>3
<1>2. G * (m + 1) <= U /\ U \in Int
  <2>1. U - G * (m + 1) = (G - j) * (c - m - 1) + j * (d - m - 1)
    BY DEF Mean
  <2>2. (G - j) * (c - m - 1) >= 0 /\ j * (d - m - 1) >= 0
    OBVIOUS
  <2>3. U \in Int
    BY MeanIsInt
  <2> HIDE DEF U
  <2> QED
    BY <2>1, <2>2, <2>3
<1> HIDE DEF X, U
<1>3. G * X <= G * (F * m)
  BY <1>1
<1>4. F * (G * (m + 1)) <= F * U
  BY <1>2
<1>5. F * (G * (m + 1)) = G * (F * m) + F * G /\ F * G > 0
  OBVIOUS
<1>6. G * X < F * U
  BY <1>1, <1>2, <1>3, <1>4, <1>5
<1> QED
  BY <1>6 DEF X, U

\* Two stretches of a line with a value in common: an end of one is within the other.
LEMMA Overlap ==
  ASSUME NEW F \in Int, NEW k \in Int, NEW G \in Int, NEW j \in Int,
         NEW a \in Int, NEW b \in Int, NEW c \in Int, NEW d \in Int,
         F > 0, 0 <= k, k <= F, G > 0, 0 <= j, j <= G, G * Mean(F, k, a, b) = F * Mean(G, j, c, d)
  PROVE  Between(c, a, b) \/ Between(d, a, b) \/ Between(a, c, d) \/ Between(b, c, d)
<1>1. ASSUME NEW m \in {a, b}, a <= m, b <= m PROVE ~(m < c /\ m < d)
  <2>1. m \in Int /\ Mean(F, k, a, b) \in Int /\ Mean(G, j, c, d) \in Int
    BY <1>1, MeanIsInt
  <2>2. ASSUME m < c, m < d PROVE G * Mean(F, k, a, b) < F * Mean(G, j, c, d)
    BY <1>1, <2>1, <2>2, MeansApart
  <2> QED
    BY <2>1, <2>2
<1>2. ASSUME NEW m \in {c, d}, c <= m, d <= m PROVE ~(m < a /\ m < b)
  <2>1. m \in Int /\ Mean(F, k, a, b) \in Int /\ Mean(G, j, c, d) \in Int
    BY <1>2, MeanIsInt
  <2>2. ASSUME m < a, m < b PROVE F * Mean(G, j, c, d) < G * Mean(F, k, a, b)
    BY <1>2, <2>1, <2>2, MeansApart
  <2> QED
    BY <2>1, <2>2
<1>3. a <= b \/ b <= a
  OBVIOUS
<1>4. c <= d \/ d <= c
  OBVIOUS
<1>5. (a <= b => ~(b < c /\ b < d)) /\ (b <= a => ~(a < c /\ a < d))
  BY <1>1
<1>6. (c <= d => ~(d < a /\ d < b)) /\ (d <= c => ~(c < a /\ c < b))
  BY <1>2
<1> QED
  BY <1>3, <1>4, <1>5, <1>6 DEF Between

\* On a line that is not upright, what is between in one coordinate is between.
LEMMA Slide ==
  ASSUME NEW u \in Int, NEW v \in Int, NEW w \in Int, NEW m \in Int,
         u > 0, 0 <= v, v <= u, w * u = m * v
  PROVE  (m >= 0 => 0 <= w /\ w <= m) /\ (m <= 0 => m <= w /\ w <= 0)
<1>1. ASSUME m >= 0 PROVE 0 <= w /\ w <= m
  BY <1>1
<1>2. ASSUME m <= 0 PROVE m <= w /\ w <= 0
  <2>1. (0 - w) * u = (0 - m) * v /\ 0 - m >= 0
    BY <1>2
  <2>2. 0 <= 0 - w /\ 0 - w <= 0 - m
    BY <2>1
  <2> QED
    BY <2>2
<1> QED
  BY <1>1, <1>2

\* In line with a segment and within it one way: within it the other way too.
LEMMA AlongTheLine ==
  ASSUME NEW ax \in Int, NEW ay \in Int, NEW bx \in Int, NEW by \in Int, NEW cx \in Int, NEW cy \in Int,
         ax # bx, (bx - ax) * (cy - ay) = (by - ay) * (cx - ax), Between(cx, ax, bx)
  PROVE  Between(cy, ay, by)
<1>1. CASE ax < bx
  <2>1. bx - ax > 0 /\ 0 <= cx - ax /\ cx - ax <= bx - ax /\ (cy - ay) * (bx - ax) = (by - ay) * (cx - ax)
    BY <1>1 DEF Between
  <2>2. /\ by - ay >= 0 => 0 <= cy - ay /\ cy - ay <= by - ay
        /\ by - ay <= 0 => by - ay <= cy - ay /\ cy - ay <= 0
    BY <2>1, Slide
  <2> QED
    BY <2>2 DEF Between
<1>2. CASE bx < ax
  <2>1. /\ ax - bx > 0 /\ 0 <= ax - cx /\ ax - cx <= ax - bx
        /\ (ay - cy) * (ax - bx) = (ay - by) * (ax - cx)
    BY <1>2 DEF Between
  <2>2. /\ ay - by >= 0 => 0 <= ay - cy /\ ay - cy <= ay - by
        /\ ay - by <= 0 => ay - by <= ay - cy /\ ay - cy <= 0
    BY <2>1, Slide
  <2> QED
    BY <2>2 DEF Between
<1> QED
  BY <1>1, <1>2

\* The third point is in line with the first two.
InLine(ax, ay, bx, by, cx, cy) == (bx - ax) * (cy - ay) = (by - ay) * (cx - ax)

\* What a point in line with a segment has of it.
Follows(ax, ay, bx, by, cx, cy) ==
    /\ ax # bx /\ Between(cx, ax, bx) => Between(cy, ay, by)
    /\ ay # by /\ Between(cy, ay, by) => Between(cx, ax, bx)
    /\ ax = bx /\ ay # by => cx = ax
    /\ ay = by /\ ax # bx => cy = ay

\* No turn, no height over the line.
LEMMA NoTurn ==
  ASSUME NEW ax \in Int, NEW ay \in Int, NEW bx \in Int, NEW by \in Int, NEW cx \in Int, NEW cy \in Int,
         Turn(ax, ay, bx, by, cx, cy) = 0
  PROVE  InLine(ax, ay, bx, by, cx, cy)
  BY DEF Turn, InLine

\* Along a line, and across it, whichever coordinate it runs along.
LEMMA BetweenInLine ==
  ASSUME NEW ax \in Int, NEW ay \in Int, NEW bx \in Int, NEW by \in Int, NEW cx \in Int, NEW cy \in Int,
         InLine(ax, ay, bx, by, cx, cy)
  PROVE  /\ ax # bx /\ Between(cx, ax, bx) => Between(cy, ay, by)
         /\ ay # by /\ Between(cy, ay, by) => Between(cx, ax, bx)
<1>1. ASSUME ax # bx, Between(cx, ax, bx) PROVE Between(cy, ay, by)
  <2>1. (bx - ax) * (cy - ay) = (by - ay) * (cx - ax)
    BY DEF InLine
  <2> QED
    BY <1>1, <2>1, AlongTheLine
<1>2. ASSUME ay # by, Between(cy, ay, by) PROVE Between(cx, ax, bx)
  <2>1. (by - ay) * (cx - ax) = (bx - ax) * (cy - ay)
    BY DEF InLine
  <2> QED
    BY <1>2, <2>1, AlongTheLine
<1> QED
  BY <1>1, <1>2

\* In line with a segment that runs straight up or straight along.
LEMMA AcrossTheLine ==
  ASSUME NEW ax \in Int, NEW ay \in Int, NEW bx \in Int, NEW by \in Int, NEW cx \in Int, NEW cy \in Int,
         InLine(ax, ay, bx, by, cx, cy)
  PROVE  /\ ax = bx /\ ay # by => cx = ax
         /\ ay = by /\ ax # bx => cy = ay
<1>1. ASSUME ax = bx, ay # by PROVE cx = ax
  <2>1. (by - ay) * (cx - ax) = 0
    BY <1>1 DEF InLine
  <2>2. by - ay \in Int /\ by - ay # 0 /\ cx - ax \in Int
    BY <1>1
  <2>3. cx - ax = 0
    BY <2>1, <2>2, NoFactor
  <2> QED
    BY <2>3
<1>2. ASSUME ay = by, ax # bx PROVE cy = ay
  <2>1. (bx - ax) * (cy - ay) = 0
    BY <1>2 DEF InLine
  <2>2. bx - ax \in Int /\ bx - ax # 0 /\ cy - ay \in Int
    BY <1>2
  <2>3. cy - ay = 0
    BY <2>1, <2>2, NoFactor
  <2> QED
    BY <2>3
<1> QED
  BY <1>1, <1>2

\* The two together.
LEMMA InLineFollows ==
  ASSUME NEW ax \in Int, NEW ay \in Int, NEW bx \in Int, NEW by \in Int, NEW cx \in Int, NEW cy \in Int,
         InLine(ax, ay, bx, by, cx, cy)
  PROVE  Follows(ax, ay, bx, by, cx, cy)
<1>1. /\ ax # bx /\ Between(cx, ax, bx) => Between(cy, ay, by)
      /\ ay # by /\ Between(cy, ay, by) => Between(cx, ax, bx)
  BY BetweenInLine
<1>2. /\ ax = bx /\ ay # by => cx = ax
      /\ ay = by /\ ax # bx => cy = ay
  BY AcrossTheLine
<1> QED
  BY <1>1, <1>2 DEF Follows

\* Positions are whole numbers of some small unit.
Points == Int \X Int

\* Two segments have a point in common, k of F parts along the one and j of G parts
\* along the other.
Sharing(a, b, c, d, F, k, G, j) ==
    \A i \in {1, 2} : G * Mean(F, k, a[i], b[i]) = F * Mean(G, j, c[i], d[i])
HavePointInCommon(a, b, c, d) ==
    \E F \in Nat \ {0}, G \in Nat \ {0} : \E k \in 0..F, j \in 0..G : Sharing(a, b, c, d, F, k, G, j)

\* The turn of three points is that of their coordinates.
LEMMA OrientationIsTurn ==
  ASSUME NEW a \in Points, NEW b \in Points, NEW c \in Points
  PROVE  /\ a[1] \in Int /\ a[2] \in Int
         /\ Orientation(a, b, c) = Turn(a[1], a[2], b[1], b[2], c[1], c[2])
         /\ Orientation(a, b, c) \in Int
  BY DEF Orientation, Turn, Points

\* The end of a segment that is on the other, by its weights, touches it.
LEMMA EndTouches ==
  ASSUME NEW a \in Points, NEW c \in Points, NEW d \in Points,
         NEW F \in Int, NEW G \in Int, NEW j \in Int, F > 0, G > 0, 0 <= j, j <= G,
         \A i \in {1, 2} : G * (F * a[i]) = F * Mean(G, j, c[i], d[i]),
         Orientation(c, d, a) = 0
  PROVE  Touches(a, c, d)
<1>1. /\ a[1] \in Int /\ a[2] \in Int /\ c[1] \in Int /\ c[2] \in Int /\ d[1] \in Int /\ d[2] \in Int
  BY DEF Points
<1>2. Between(a[1], c[1], d[1]) /\ Between(a[2], c[2], d[2])
  BY <1>1, EndBetween
<1> QED
  BY <1>2 DEF Touches, InBox

\* A point that is in line with a segment.
LEMMA PointInLine ==
  ASSUME NEW a \in Points, NEW b \in Points, NEW c \in Points, Orientation(a, b, c) = 0
  PROVE  /\ a[1] # b[1] /\ Between(c[1], a[1], b[1]) => Between(c[2], a[2], b[2])
         /\ a[2] # b[2] /\ Between(c[2], a[2], b[2]) => Between(c[1], a[1], b[1])
         /\ a[1] = b[1] /\ a[2] # b[2] => c[1] = a[1]
         /\ a[2] = b[2] /\ a[1] # b[1] => c[2] = a[2]
<1>1. /\ a[1] \in Int /\ a[2] \in Int /\ b[1] \in Int /\ b[2] \in Int /\ c[1] \in Int /\ c[2] \in Int
  BY DEF Points
<1>2. InLine(a[1], a[2], b[1], b[2], c[1], c[2])
  <2>1. Turn(a[1], a[2], b[1], b[2], c[1], c[2]) = 0
    BY OrientationIsTurn
  <2> QED
    BY <1>1, <2>1, NoTurn, Zenon
<1>3. Follows(a[1], a[2], b[1], b[2], c[1], c[2])
  BY <1>1, <1>2, InLineFollows, Zenon
<1> QED
  BY <1>3 DEF Follows

\* Four points of one line.
LEMMA OnOneLine ==
  ASSUME NEW a \in Points, NEW b \in Points, NEW c \in Points, NEW d \in Points,
         NEW F \in Int, NEW G \in Int, NEW k \in Int, NEW j \in Int,
         F > 0, G > 0, 0 <= k, k <= F, 0 <= j, j <= G, Sharing(a, b, c, d, F, k, G, j),
         Orientation(a, b, c) = 0, Orientation(a, b, d) = 0,
         Orientation(c, d, a) = 0, Orientation(c, d, b) = 0
  PROVE  Touches(c, a, b) \/ Touches(d, a, b) \/ Touches(a, c, d) \/ Touches(b, c, d)
<1>1. /\ a[1] \in Int /\ a[2] \in Int /\ b[1] \in Int /\ b[2] \in Int
      /\ c[1] \in Int /\ c[2] \in Int /\ d[1] \in Int /\ d[2] \in Int
  BY DEF Points
<1>3. ASSUME NEW i \in {1, 2}
      PROVE  Between(c[i], a[i], b[i]) \/ Between(d[i], a[i], b[i])
             \/ Between(a[i], c[i], d[i]) \/ Between(b[i], c[i], d[i])
  <2>1. G * Mean(F, k, a[i], b[i]) = F * Mean(G, j, c[i], d[i])
    BY DEF Sharing
  <2>2. a[i] \in Int /\ b[i] \in Int /\ c[i] \in Int /\ d[i] \in Int
    BY <1>1
  <2> QED
    BY <2>1, <2>2, Overlap
<1>4. CASE a[1] # b[1] /\ c[1] # d[1]
  <2>1. /\ Between(c[1], a[1], b[1]) => Between(c[2], a[2], b[2])
        /\ Between(d[1], a[1], b[1]) => Between(d[2], a[2], b[2])
        /\ Between(a[1], c[1], d[1]) => Between(a[2], c[2], d[2])
        /\ Between(b[1], c[1], d[1]) => Between(b[2], c[2], d[2])
    BY <1>4, PointInLine
  <2> QED
    BY <1>3, <2>1 DEF Touches, InBox
<1>5. CASE a[2] # b[2] /\ c[2] # d[2]
  <2>1. /\ Between(c[2], a[2], b[2]) => Between(c[1], a[1], b[1])
        /\ Between(d[2], a[2], b[2]) => Between(d[1], a[1], b[1])
        /\ Between(a[2], c[2], d[2]) => Between(a[1], c[1], d[1])
        /\ Between(b[2], c[2], d[2]) => Between(b[1], c[1], d[1])
    BY <1>5, PointInLine
  <2> QED
    BY <1>3, <2>1 DEF Touches, InBox
<1>6. CASE a[1] = b[1] /\ a[2] = b[2]
  <2>1. ASSUME NEW i \in {1, 2} PROVE G * (F * a[i]) = F * Mean(G, j, c[i], d[i])
    <3>1. a[i] = b[i] /\ a[i] \in Int
      BY <1>1, <1>6
    <3>2. Mean(F, k, a[i], b[i]) = F * a[i]
      BY <3>1 DEF Mean
    <3> QED
      BY <3>2 DEF Sharing
  <2> QED
    BY <2>1, EndTouches
<1>7. CASE c[1] = d[1] /\ c[2] = d[2]
  <2>1. ASSUME NEW i \in {1, 2} PROVE F * (G * c[i]) = G * Mean(F, k, a[i], b[i])
    <3>1. c[i] = d[i] /\ c[i] \in Int
      BY <1>1, <1>7
    <3>2. Mean(G, j, c[i], d[i]) = G * c[i]
      BY <3>1 DEF Mean
    <3> QED
      BY <3>2 DEF Sharing
  <2> QED
    BY <2>1, EndTouches
<1>8. CASE a[1] = b[1] /\ c[2] = d[2] /\ a[2] # b[2] /\ c[1] # d[1]
  <2>1. c[1] = a[1] /\ d[1] = a[1]
    BY <1>8, PointInLine
  <2> QED
    BY <1>8, <2>1
<1>9. CASE a[2] = b[2] /\ c[1] = d[1] /\ a[1] # b[1] /\ c[2] # d[2]
  <2>1. c[2] = a[2] /\ d[2] = a[2]
    BY <1>9, PointInLine
  <2> QED
    BY <1>9, <2>1
<1> QED
  BY <1>4, <1>5, <1>6, <1>7, <1>8, <1>9

\* Segments that have a point in common meet, as geo.py decides it: wherever the
\* point is, and also when they lie on one line or one of them is a point.
LEMMA SharedIsMet ==
  ASSUME NEW a \in Points, NEW b \in Points, NEW c \in Points, NEW d \in Points,
         HavePointInCommon(a, b, c, d)
  PROVE  SegmentsMeet(a, b, c, d)
<1>1. PICK F \in Nat \ {0}, G \in Nat \ {0} : \E k \in 0..F, j \in 0..G : Sharing(a, b, c, d, F, k, G, j)
  BY DEF HavePointInCommon
<1>2. PICK k \in 0..F, j \in 0..G : Sharing(a, b, c, d, F, k, G, j)
  BY <1>1
<1>3. F \in Int /\ G \in Int /\ k \in Int /\ j \in Int /\ F > 0 /\ G > 0 /\ 0 <= k /\ k <= F /\ 0 <= j /\ j <= G
  OBVIOUS
<1> DEFINE o1 == Orientation(a, b, c)
           o2 == Orientation(a, b, d)
           o3 == Orientation(c, d, a)
           o4 == Orientation(c, d, b)
<1>4. /\ a[1] \in Int /\ a[2] \in Int /\ b[1] \in Int /\ b[2] \in Int
      /\ c[1] \in Int /\ c[2] \in Int /\ d[1] \in Int /\ d[2] \in Int
      /\ o1 \in Int /\ o2 \in Int /\ o3 \in Int /\ o4 \in Int
  BY OrientationIsTurn
<1>5. /\ G * Mean(F, k, a[1], b[1]) = F * Mean(G, j, c[1], d[1])
      /\ G * Mean(F, k, a[2], b[2]) = F * Mean(G, j, c[2], d[2])
  BY <1>2 DEF Sharing
<1>6. Mean(F, k, o3, o4) = 0
  <2>1. Mean(F, k, Turn(c[1], c[2], d[1], d[2], a[1], a[2]), Turn(c[1], c[2], d[1], d[2], b[1], b[2])) = 0
    BY <1>3, <1>4, <1>5, TurnsBalance
  <2> QED
    BY <2>1, OrientationIsTurn
<1>7. Mean(G, j, o1, o2) = 0
  <2>1. Mean(G, j, Turn(a[1], a[2], b[1], b[2], c[1], c[2]), Turn(a[1], a[2], b[1], b[2], d[1], d[2])) = 0
    BY <1>3, <1>4, <1>5, TurnsBalance
  <2> QED
    BY <2>1, OrientationIsTurn
<1>8. /\ o3 # 0 /\ o4 # 0 => (o3 > 0) # (o4 > 0)
      /\ o3 = 0 /\ o4 # 0 => k = 0
      /\ o3 # 0 /\ o4 = 0 => k = F
  <2> HIDE DEF o3, o4
  <2> QED
    BY <1>3, <1>4, <1>6, OppositeSigns
<1>9. /\ o1 # 0 /\ o2 # 0 => (o1 > 0) # (o2 > 0)
      /\ o1 = 0 /\ o2 # 0 => j = 0
      /\ o1 # 0 /\ o2 = 0 => j = G
  <2> HIDE DEF o1, o2
  <2> QED
    BY <1>3, <1>4, <1>7, OppositeSigns
<1>10. o1 - o2 = o4 - o3
  BY <1>4 DEF Orientation
<1>11. CASE k = 0 /\ o3 = 0
  <2>1. ASSUME NEW i \in {1, 2} PROVE G * (F * a[i]) = F * Mean(G, j, c[i], d[i])
    <3>1. Mean(F, k, a[i], b[i]) = F * a[i]
      BY <1>3, <1>4, <1>11 DEF Mean
    <3> QED
      BY <1>2, <3>1 DEF Sharing
  <2> QED
    BY <1>3, <1>11, <2>1, EndTouches DEF SegmentsMeet
<1>12. CASE k = F /\ o4 = 0
  <2>1. ASSUME NEW i \in {1, 2} PROVE G * (F * b[i]) = F * Mean(G, j, c[i], d[i])
    <3>1. Mean(F, k, a[i], b[i]) = F * b[i]
      BY <1>3, <1>4, <1>12 DEF Mean
    <3> QED
      BY <1>2, <3>1 DEF Sharing
  <2> QED
    BY <1>3, <1>12, <2>1, EndTouches DEF SegmentsMeet
<1>13. CASE j = 0 /\ o1 = 0
  <2>1. ASSUME NEW i \in {1, 2} PROVE F * (G * c[i]) = G * Mean(F, k, a[i], b[i])
    <3>1. Mean(G, j, c[i], d[i]) = G * c[i]
      BY <1>3, <1>4, <1>13 DEF Mean
    <3> QED
      BY <1>2, <3>1 DEF Sharing
  <2> QED
    BY <1>3, <1>13, <2>1, EndTouches DEF SegmentsMeet
<1>14. CASE j = G /\ o2 = 0
  <2>1. ASSUME NEW i \in {1, 2} PROVE F * (G * d[i]) = G * Mean(F, k, a[i], b[i])
    <3>1. Mean(G, j, c[i], d[i]) = G * d[i]
      BY <1>3, <1>4, <1>14 DEF Mean
    <3> QED
      BY <1>2, <3>1 DEF Sharing
  <2> QED
    BY <1>3, <1>14, <2>1, EndTouches DEF SegmentsMeet
<1>15. CASE o1 = 0 /\ o2 = 0 /\ o3 = 0 /\ o4 = 0
  BY <1>2, <1>3, <1>15, OnOneLine DEF SegmentsMeet
<1>16. CASE o1 # 0 /\ o2 # 0 /\ o3 # 0 /\ o4 # 0
  BY <1>8, <1>9, <1>16 DEF SegmentsMeet, SegmentsCross
<1>17. o1 = 0 /\ o2 = 0 => o3 = 0 /\ o4 = 0
  <2> HIDE DEF o1, o2, o3, o4
  <2>1. ASSUME o1 = 0, o2 = 0 PROVE o3 = o4
    BY <1>4, <1>10, <2>1
  <2> QED
    BY <1>4, <1>8, <2>1
<1>18. o3 = 0 /\ o4 = 0 => o1 = 0 /\ o2 = 0
  <2> HIDE DEF o1, o2, o3, o4
  <2>1. ASSUME o3 = 0, o4 = 0 PROVE o1 = o2
    BY <1>4, <1>10, <2>1
  <2> QED
    BY <1>4, <1>9, <2>1
<1> HIDE DEF o1, o2, o3, o4
<1> QED
  BY <1>8, <1>9, <1>11, <1>12, <1>13, <1>14, <1>15, <1>16, <1>17, <1>18

\* A point in line with a segment and between its ends is a mean of them.
LEMMA InLineMean ==
  ASSUME NEW ax \in Int, NEW ay \in Int, NEW bx \in Int, NEW by \in Int, NEW cx \in Int, NEW cy \in Int,
         InLine(ax, ay, bx, by, cx, cy)
  PROVE  /\ Mean(bx - ax, cx - ax, ax, bx) = (bx - ax) * cx
         /\ Mean(bx - ax, cx - ax, ay, by) = (bx - ax) * cy
         /\ Mean(ax - bx, ax - cx, ax, bx) = (ax - bx) * cx
         /\ Mean(ax - bx, ax - cx, ay, by) = (ax - bx) * cy
         /\ Mean(by - ay, cy - ay, ax, bx) = (by - ay) * cx
         /\ Mean(by - ay, cy - ay, ay, by) = (by - ay) * cy
         /\ Mean(ay - by, ay - cy, ax, bx) = (ay - by) * cx
         /\ Mean(ay - by, ay - cy, ay, by) = (ay - by) * cy
<1>1. (bx - ax) * (cy - ay) = (by - ay) * (cx - ax)
  BY DEF InLine
<1>2. /\ Mean(bx - ax, cx - ax, ax, bx) = (bx - ax) * cx
      /\ Mean(bx - ax, cx - ax, ay, by) = (bx - ax) * cy
  BY <1>1 DEF Mean
<1>3. /\ Mean(ax - bx, ax - cx, ax, bx) = (ax - bx) * cx
      /\ Mean(ax - bx, ax - cx, ay, by) = (ax - bx) * cy
  BY <1>1 DEF Mean
<1>4. /\ Mean(by - ay, cy - ay, ax, bx) = (by - ay) * cx
      /\ Mean(by - ay, cy - ay, ay, by) = (by - ay) * cy
  BY <1>1 DEF Mean
<1>5. /\ Mean(ay - by, ay - cy, ax, bx) = (ay - by) * cx
      /\ Mean(ay - by, ay - cy, ay, by) = (ay - by) * cy
  BY <1>1 DEF Mean
<1> QED
  BY <1>2, <1>3, <1>4, <1>5

\* How far along: some parts of some number of them.
Along(ax, ay, bx, by, cx, cy) ==
    \E F \in Nat \ {0} : \E k \in 0..F : Mean(F, k, ax, bx) = F * cx /\ Mean(F, k, ay, by) = F * cy

\* So such a point is some parts of the way.
LEMMA PartOfTheWay ==
  ASSUME NEW ax \in Int, NEW ay \in Int, NEW bx \in Int, NEW by \in Int, NEW cx \in Int, NEW cy \in Int,
         InLine(ax, ay, bx, by, cx, cy), Between(cx, ax, bx), Between(cy, ay, by)
  PROVE  Along(ax, ay, bx, by, cx, cy)
<1>1. ASSUME NEW F \in Int, NEW k \in Int, F > 0, 0 <= k, k <= F,
             Mean(F, k, ax, bx) = F * cx, Mean(F, k, ay, by) = F * cy
      PROVE  Along(ax, ay, bx, by, cx, cy)
  <2>1. F \in Nat \ {0} /\ k \in 0..F
    BY <1>1
  <2> QED
    BY <1>1, <2>1 DEF Along
<1>2. CASE ax < bx
  <2>0. /\ Mean(bx - ax, cx - ax, ax, bx) = (bx - ax) * cx
        /\ Mean(bx - ax, cx - ax, ay, by) = (bx - ax) * cy
    BY InLineMean, SMTT(30)
  <2> DEFINE whole == bx - ax
             share == cx - ax
  <2>1. whole \in Int /\ share \in Int /\ whole > 0 /\ 0 <= share /\ share <= whole
    BY <1>2 DEF Between
  <2>2. Mean(whole, share, ax, bx) = whole * cx /\ Mean(whole, share, ay, by) = whole * cy
    BY <2>0
  <2> HIDE DEF whole, share
  <2> QED
    BY <1>1, <2>1, <2>2
<1>3. CASE ax > bx
  <2>0. /\ Mean(ax - bx, ax - cx, ax, bx) = (ax - bx) * cx
        /\ Mean(ax - bx, ax - cx, ay, by) = (ax - bx) * cy
    BY InLineMean, SMTT(30)
  <2> DEFINE whole == ax - bx
             share == ax - cx
  <2>1. whole \in Int /\ share \in Int /\ whole > 0 /\ 0 <= share /\ share <= whole
    BY <1>3 DEF Between
  <2>2. Mean(whole, share, ax, bx) = whole * cx /\ Mean(whole, share, ay, by) = whole * cy
    BY <2>0
  <2> HIDE DEF whole, share
  <2> QED
    BY <1>1, <2>1, <2>2
<1>4. CASE ay < by
  <2>0. /\ Mean(by - ay, cy - ay, ax, bx) = (by - ay) * cx
        /\ Mean(by - ay, cy - ay, ay, by) = (by - ay) * cy
    BY InLineMean, SMTT(30)
  <2> DEFINE whole == by - ay
             share == cy - ay
  <2>1. whole \in Int /\ share \in Int /\ whole > 0 /\ 0 <= share /\ share <= whole
    BY <1>4 DEF Between
  <2>2. Mean(whole, share, ax, bx) = whole * cx /\ Mean(whole, share, ay, by) = whole * cy
    BY <2>0
  <2> HIDE DEF whole, share
  <2> QED
    BY <1>1, <2>1, <2>2
<1>5. CASE ay > by
  <2>0. /\ Mean(ay - by, ay - cy, ax, bx) = (ay - by) * cx
        /\ Mean(ay - by, ay - cy, ay, by) = (ay - by) * cy
    BY InLineMean, SMTT(30)
  <2> DEFINE whole == ay - by
             share == ay - cy
  <2>1. whole \in Int /\ share \in Int /\ whole > 0 /\ 0 <= share /\ share <= whole
    BY <1>5 DEF Between
  <2>2. Mean(whole, share, ax, bx) = whole * cx /\ Mean(whole, share, ay, by) = whole * cy
    BY <2>0
  <2> HIDE DEF whole, share
  <2> QED
    BY <1>1, <2>1, <2>2
<1>6. CASE ax = bx /\ ay = by
  <2>1. cx = ax /\ cy = ay
    BY <1>6 DEF Between
  <2>2. Mean(1, 0, ax, bx) = 1 * cx /\ Mean(1, 0, ay, by) = 1 * cy
    BY <1>6, <2>1 DEF Mean
  <2> QED
    BY <1>1, <2>2
<1> QED
  BY <1>2, <1>3, <1>4, <1>5, <1>6

\* The crossing of two lines, by the turns of its ends.
Crossing(x, y, z, w, o1, o2, o3, o4) == o3 * y - o4 * x = o2 * z - o1 * w
Balanced(o1, o2, o3, o4) == o3 - o4 = o2 - o1

Meeting(ax, ay, bx, by, cx, cy, dx, dy, o1, o2, o3, o4) ==
    /\ Balanced(o1, o2, o3, o4)
    /\ Crossing(ax, bx, cx, dx, o1, o2, o3, o4)
    /\ Crossing(ay, by, cy, dy, o1, o2, o3, o4)

LEMMA CrossingPoint ==
  ASSUME NEW ax \in Int, NEW ay \in Int, NEW bx \in Int, NEW by \in Int,
         NEW cx \in Int, NEW cy \in Int, NEW dx \in Int, NEW dy \in Int
  PROVE  Meeting(ax, ay, bx, by, cx, cy, dx, dy,
                 Turn(ax, ay, bx, by, cx, cy), Turn(ax, ay, bx, by, dx, dy),
                 Turn(cx, cy, dx, dy, ax, ay), Turn(cx, cy, dx, dy, bx, by))
<1> DEFINE o1 == Turn(ax, ay, bx, by, cx, cy)
           o2 == Turn(ax, ay, bx, by, dx, dy)
           o3 == Turn(cx, cy, dx, dy, ax, ay)
           o4 == Turn(cx, cy, dx, dy, bx, by)
<1>1. Balanced(o1, o2, o3, o4)
  BY DEF Turn, Balanced
<1>2. Crossing(ax, bx, cx, dx, o1, o2, o3, o4)
  BY DEF Turn, Crossing
<1>3. Crossing(ay, by, cy, dy, o1, o2, o3, o4)
  BY DEF Turn, Crossing
<1> QED
  BY <1>1, <1>2, <1>3 DEF Meeting

SameMeans(x, y, z, w, o1, o3, o4) ==
    /\ Mean(o3 - o4, o3, x, y) = Mean(o3 - o4, 0 - o1, z, w)
    /\ Mean(o4 - o3, 0 - o3, x, y) = Mean(o4 - o3, o1, z, w)

\* Taken as parts of the way, the turns lead to one point from both segments.
LEMMA CrossingMeans ==
  ASSUME NEW x \in Int, NEW y \in Int, NEW z \in Int, NEW w \in Int,
         NEW o1 \in Int, NEW o2 \in Int, NEW o3 \in Int, NEW o4 \in Int,
         Balanced(o1, o2, o3, o4), Crossing(x, y, z, w, o1, o2, o3, o4)
  PROVE  SameMeans(x, y, z, w, o1, o3, o4)
<1>1. o3 - o4 = o2 - o1 /\ o3 * y - o4 * x = o2 * z - o1 * w
  BY DEF Balanced, Crossing
<1>2. Mean(o3 - o4, o3, x, y) = Mean(o3 - o4, 0 - o1, z, w)
  BY <1>1 DEF Mean
<1>3. Mean(o4 - o3, 0 - o3, x, y) = Mean(o4 - o3, o1, z, w)
  BY <1>1 DEF Mean
<1> QED
  BY <1>2, <1>3 DEF SameMeans

\* Something of one segment is on the other, said in one order or in the other.
LEMMA SharedBothWays ==
  ASSUME NEW a, NEW b, NEW c, NEW d, HavePointInCommon(c, d, a, b)
  PROVE  HavePointInCommon(a, b, c, d)
<1>1. PICK F \in Nat \ {0}, G \in Nat \ {0} : \E k \in 0..F, j \in 0..G : Sharing(c, d, a, b, F, k, G, j)
  BY DEF HavePointInCommon
<1>2. PICK k \in 0..F, j \in 0..G : Sharing(c, d, a, b, F, k, G, j)
  BY <1>1
<1>3. Sharing(a, b, c, d, G, j, F, k)
  BY <1>2 DEF Sharing
<1> QED
  BY <1>3 DEF HavePointInCommon

\* An end that touches is in common.
LEMMA TouchShares ==
  ASSUME NEW a \in Points, NEW b \in Points, NEW c \in Points, NEW d \in Points,
         Touches(c, a, b) \/ Touches(d, a, b)
  PROVE  HavePointInCommon(a, b, c, d)
<1>1. /\ a[1] \in Int /\ a[2] \in Int /\ b[1] \in Int /\ b[2] \in Int
      /\ c[1] \in Int /\ c[2] \in Int /\ d[1] \in Int /\ d[2] \in Int
  BY DEF Points
<1>2. ASSUME NEW e \in Points, Touches(e, a, b) PROVE Along(a[1], a[2], b[1], b[2], e[1], e[2])
  <2>1. e[1] \in Int /\ e[2] \in Int /\ Between(e[1], a[1], b[1]) /\ Between(e[2], a[2], b[2])
    BY <1>2 DEF Touches, InBox, Points
  <2>2. Turn(a[1], a[2], b[1], b[2], e[1], e[2]) = 0
    BY <1>2, OrientationIsTurn DEF Touches
  <2>3. InLine(a[1], a[2], b[1], b[2], e[1], e[2])
    BY <1>1, <2>1, <2>2, NoTurn, Zenon
  <2> QED
    BY <1>1, <2>1, <2>3, PartOfTheWay, Zenon
<1>3. ASSUME NEW e \in Points, NEW j \in 0..1, Touches(e, a, b),
             Mean(1, j, c[1], d[1]) = e[1], Mean(1, j, c[2], d[2]) = e[2]
      PROVE  HavePointInCommon(a, b, c, d)
  <2>1. PICK F \in Nat \ {0} : \E k \in 0..F :
            Mean(F, k, a[1], b[1]) = F * e[1] /\ Mean(F, k, a[2], b[2]) = F * e[2]
    BY <1>2, <1>3 DEF Along
  <2>2. PICK k \in 0..F : Mean(F, k, a[1], b[1]) = F * e[1] /\ Mean(F, k, a[2], b[2]) = F * e[2]
    BY <2>1
  <2>3. ASSUME NEW x \in Int PROVE 1 * (F * x) = F * x
    BY <2>3
  <2>4. e[1] \in Int /\ e[2] \in Int
    BY DEF Points
  <2>5. Sharing(a, b, c, d, F, k, 1, j)
    BY <1>3, <2>2, <2>3, <2>4 DEF Sharing
  <2> QED
    BY <2>5 DEF HavePointInCommon
<1>4. Mean(1, 0, c[1], d[1]) = c[1] /\ Mean(1, 0, c[2], d[2]) = c[2]
  BY <1>1 DEF Mean
<1>5. Mean(1, 1, c[1], d[1]) = d[1] /\ Mean(1, 1, c[2], d[2]) = d[2]
  BY <1>1 DEF Mean
<1> QED
  BY <1>3, <1>4, <1>5

\* Segments that pass through each other have the point where they do.
LEMMA CrossShares ==
  ASSUME NEW a \in Points, NEW b \in Points, NEW c \in Points, NEW d \in Points,
         SegmentsCross(a, b, c, d)
  PROVE  HavePointInCommon(a, b, c, d)
<1> DEFINE o1 == Orientation(a, b, c)
           o2 == Orientation(a, b, d)
           o3 == Orientation(c, d, a)
           o4 == Orientation(c, d, b)
<1>1. /\ a[1] \in Int /\ a[2] \in Int /\ b[1] \in Int /\ b[2] \in Int
      /\ c[1] \in Int /\ c[2] \in Int /\ d[1] \in Int /\ d[2] \in Int
      /\ o1 \in Int /\ o2 \in Int /\ o3 \in Int /\ o4 \in Int
  BY OrientationIsTurn
<1>2. /\ o1 # 0 /\ o2 # 0 /\ o3 # 0 /\ o4 # 0
      /\ (o1 > 0) # (o2 > 0) /\ (o3 > 0) # (o4 > 0)
  BY DEF SegmentsCross
<1>3. /\ o1 = Turn(a[1], a[2], b[1], b[2], c[1], c[2])
      /\ o2 = Turn(a[1], a[2], b[1], b[2], d[1], d[2])
      /\ o3 = Turn(c[1], c[2], d[1], d[2], a[1], a[2])
      /\ o4 = Turn(c[1], c[2], d[1], d[2], b[1], b[2])
  BY OrientationIsTurn
<1> HIDE DEF o1, o2, o3, o4
<1>4. /\ Balanced(o1, o2, o3, o4)
      /\ Crossing(a[1], b[1], c[1], d[1], o1, o2, o3, o4)
      /\ Crossing(a[2], b[2], c[2], d[2], o1, o2, o3, o4)
  <2>1. Meeting(a[1], a[2], b[1], b[2], c[1], c[2], d[1], d[2],
                Turn(a[1], a[2], b[1], b[2], c[1], c[2]), Turn(a[1], a[2], b[1], b[2], d[1], d[2]),
                Turn(c[1], c[2], d[1], d[2], a[1], a[2]), Turn(c[1], c[2], d[1], d[2], b[1], b[2]))
    BY <1>1, CrossingPoint
  <2>2. Meeting(a[1], a[2], b[1], b[2], c[1], c[2], d[1], d[2], o1, o2, o3, o4)
    BY <1>3, <2>1
  <2> QED
    BY <2>2 DEF Meeting
<1>5. o3 - o4 = o2 - o1
  BY <1>4 DEF Balanced
<1>6. SameMeans(a[1], b[1], c[1], d[1], o1, o3, o4) /\ SameMeans(a[2], b[2], c[2], d[2], o1, o3, o4)
  BY <1>1, <1>4, CrossingMeans, Zenon
<1>7. CASE o3 > 0
  <2>1. o4 < 0 /\ o1 < 0 /\ o2 > 0
    BY <1>1, <1>2, <1>5, <1>7
  <2> DEFINE F == o3 - o4
             j == 0 - o1
  <2>2. F \in Nat \ {0} /\ o3 \in 0..F /\ j \in 0..F
    BY <1>1, <1>5, <1>7, <2>1
  <2>3. /\ Mean(F, o3, a[1], b[1]) = Mean(F, j, c[1], d[1])
        /\ Mean(F, o3, a[2], b[2]) = Mean(F, j, c[2], d[2])
    BY <1>6 DEF SameMeans
  <2> HIDE DEF F, j
  <2>4. Sharing(a, b, c, d, F, o3, F, j)
    BY <2>3 DEF Sharing
  <2> QED
    BY <2>2, <2>4 DEF HavePointInCommon
<1>8. CASE o3 < 0
  <2>1. o4 > 0 /\ o1 > 0 /\ o2 < 0
    BY <1>1, <1>2, <1>5, <1>8
  <2> DEFINE F == o4 - o3
             k == 0 - o3
  <2>2. F \in Nat \ {0} /\ k \in 0..F /\ o1 \in 0..F
    BY <1>1, <1>5, <1>8, <2>1
  <2>3. /\ Mean(F, k, a[1], b[1]) = Mean(F, o1, c[1], d[1])
        /\ Mean(F, k, a[2], b[2]) = Mean(F, o1, c[2], d[2])
    BY <1>6 DEF SameMeans
  <2> HIDE DEF F, k
  <2>4. Sharing(a, b, c, d, F, k, F, o1)
    BY <2>3 DEF Sharing
  <2> QED
    BY <2>2, <2>4 DEF HavePointInCommon
<1> QED
  BY <1>1, <1>2, <1>7, <1>8

\* segments_intersect decides exactly whether two segments have a point in common
\* (geo.py:97-126, "touching included"): it misses none, and it reports none that
\* is not there, whether they cross, touch, lie on one line or are a single point.
THEOREM MeetIsCommonPoint ==
  \A a, b, c, d \in Points : SegmentsMeet(a, b, c, d) <=> HavePointInCommon(a, b, c, d)
<1> SUFFICES ASSUME NEW a \in Points, NEW b \in Points, NEW c \in Points, NEW d \in Points
             PROVE  SegmentsMeet(a, b, c, d) <=> HavePointInCommon(a, b, c, d)
  OBVIOUS
<1>1. HavePointInCommon(a, b, c, d) => SegmentsMeet(a, b, c, d)
  BY SharedIsMet
<1>2. ASSUME SegmentsMeet(a, b, c, d) PROVE HavePointInCommon(a, b, c, d)
  <2>1. CASE SegmentsCross(a, b, c, d)
    BY <2>1, CrossShares
  <2>2. CASE Touches(c, a, b) \/ Touches(d, a, b)
    BY <2>2, TouchShares
  <2>3. CASE Touches(a, c, d) \/ Touches(b, c, d)
    <3>1. HavePointInCommon(c, d, a, b)
      BY <2>3, TouchShares
    <3> QED
      BY <3>1, SharedBothWays
  <2> QED
    BY <1>2, <2>1, <2>2, <2>3 DEF SegmentsMeet
<1> QED
  BY <1>1, <1>2

\* A leg of the route has a point in common with an edge of the ring.
Touched(path, ring) ==
    \E i \in 1..Len(path) - 1, e \in DOMAIN ring :
        HavePointInCommon(path[i], path[i + 1], ring[e], Following(ring, e))

\* What a proposal says of the zones it was taken from.
EdgesAreSeen(proposed) ==
    \A z \in proposed.zones :
        Len(z.ring) >= 3 /\ Touched(proposed.path, z.ring) =>
            /\ proposed.checks.keep_out # "pass"
            /\ IsKeepOut(z) => proposed.checks.keep_out = "needs_you"

\* The edges of a ring run between its corners, the last to the first.
LEMMA FollowingIsCorner ==
  ASSUME NEW ring \in Seq(Points), NEW e \in DOMAIN ring
  PROVE  ring[e] \in Points /\ Following(ring, e) \in Points
<1>1. Len(ring) \in Nat /\ e \in 1..Len(ring) /\ Len(ring) > 0
  OBVIOUS
<1>2. e % Len(ring) \in 0..Len(ring) - 1
  BY <1>1
<1>3. (e % Len(ring)) + 1 \in 1..Len(ring)
  BY <1>1, <1>2
<1> QED
  BY <1>3 DEF Following

\* A route that has a point of an edge crosses the zone, as geo.py decides it.
LEMMA TouchedIsCrossed ==
  ASSUME NEW path \in Seq(Points), NEW ring \in Seq(Points), Len(ring) >= 3, Touched(path, ring)
  PROVE  PathCrosses(path, ring)
<1>1. PICK i \in 1..Len(path) - 1, e \in DOMAIN ring :
             HavePointInCommon(path[i], path[i + 1], ring[e], Following(ring, e))
  BY DEF Touched
<1>2. /\ Len(path) \in Nat /\ Len(path) # 1
      /\ path[i] \in Points /\ path[i + 1] \in Points
  BY <1>1
<1>3. SegmentsMeet(path[i], path[i + 1], ring[e], Following(ring, e))
  BY <1>1, <1>2, FollowingIsCorner, SharedIsMet
<1>4. LegCrosses(path[i], path[i + 1], ring)
  BY <1>3 DEF LegCrosses
<1> QED
  BY <1>2, <1>4 DEF PathCrosses

\* A route is made of points.
LEMMA PathOfPoints ==
  ASSUME at \in Places \cup {<<>>}, NEW o \in Orders
  PROVE  Path(o) \in Seq(Points)
<1>1. o.stops \in Seq(Points) /\ (StartKnown => at \in Points)
  BY ProposalAssumption DEF Points, StartKnown
<1>2. (IF StartKnown THEN <<at>> ELSE <<>>) \in Seq(Points)
  BY <1>1
<1>3. (IF o.type = "patrol" /\ o.stops # <<>> THEN <<o.stops[1]>> ELSE <<>>) \in Seq(Points)
  <2>1. CASE o.type = "patrol" /\ o.stops # <<>>
    <3>1. o.stops[1] \in Points
      BY <1>1, <2>1
    <3> QED
      BY <2>1, <3>1
  <2>2. CASE ~(o.type = "patrol" /\ o.stops # <<>>)
    BY <2>2
  <2> QED
    BY <2>1, <2>2
<1>4. ASSUME NEW s \in Seq(Points), NEW t \in Seq(Points), NEW u \in Seq(Points)
      PROVE  s \o t \o u \in Seq(Points)
  OBVIOUS
<1> QED
  BY <1>1, <1>2, <1>3, <1>4 DEF Path

\* The check, on the zones there are.
LEMMA CheckSeesEdges ==
  ASSUME NEW path \in Seq(Points), zones \subseteq ZoneBook, NEW z \in zones,
         Len(z.ring) >= 3, Touched(path, z.ring)
  PROVE  /\ CheckKeepOut(path) # "pass"
         /\ IsKeepOut(z) => CheckKeepOut(path) = "needs_you"
<1>1. z.ring \in Seq(Points)
  BY ProposalAssumption DEF Points
<1>2. PathCrosses(path, z.ring)
  BY <1>1, TouchedIsCrossed
<1> QED
  BY <1>2 DEF CheckKeepOut

EdgesInv ==
    /\ at \in Places \cup {<<>>} /\ zones \subseteq ZoneBook
    /\ shown = NoProposal \/ EdgesAreSeen(shown)

\* Only a preview changes what is shown.
LEMMA EdgesStep == EdgesInv /\ [ProposalNext]_proposal => EdgesInv'
<1> SUFFICES ASSUME EdgesInv, [ProposalNext]_proposal PROVE EdgesInv'
  OBVIOUS
<1>1. ASSUME NEW p \in Places, HeardFrom(p) PROVE EdgesInv'
  BY <1>1 DEF HeardFrom, EdgesInv
<1>2. CASE FallsQuiet
  BY <1>2 DEF FallsQuiet, EdgesInv
<1>3. ASSUME NEW z \in ZoneBook, DrawZone(z) PROVE EdgesInv'
  BY <1>3 DEF DrawZone, EdgesInv
<1>4. ASSUME NEW o \in Orders, Preview(o) PROVE EdgesInv'
  <2>1. /\ shown'.checks = Checks(o) /\ shown'.path = Path(o) /\ shown'.zones = zones
        /\ UNCHANGED <<at, zones>>
    BY <1>4 DEF Preview
  <2>2. shown'.checks.keep_out = CheckKeepOut(Path(o))
    BY <2>1 DEF Checks
  <2>3. Path(o) \in Seq(Points)
    BY PathOfPoints DEF EdgesInv
  <2>4. ASSUME NEW z \in zones, Len(z.ring) >= 3, Touched(Path(o), z.ring)
        PROVE  /\ CheckKeepOut(Path(o)) # "pass"
               /\ IsKeepOut(z) => CheckKeepOut(Path(o)) = "needs_you"
    BY <2>3, <2>4, CheckSeesEdges DEF EdgesInv
  <2>5. EdgesAreSeen(shown')
    BY <2>1, <2>2, <2>4 DEF EdgesAreSeen
  <2> QED
    BY <2>1, <2>5 DEF EdgesInv
<1>5. ASSUME NEW by \in Issuers, Issue(by) PROVE EdgesInv'
  BY <1>5 DEF Issue, EdgesInv
<1>6. CASE UNCHANGED proposal
  BY <1>6 DEF proposal, EdgesInv
<1> QED
  BY <1>1, <1>2, <1>3, <1>4, <1>5, <1>6 DEF ProposalNext

\* A route that has a point in common with an edge of a zone, whole or grazed, at
\* a corner or along it, is never called clear, and never left open either when
\* the zone must be kept out of (geo.py:82-165, worldmodel.py:868-916): for every
\* route, every ring of corners and every point of theirs, as far as a fraction
\* can say where it is.
THEOREM SpecEdgesAreSeen == ProposalSpec => [](shown = NoProposal \/ EdgesAreSeen(shown))
<1>1. ProposalInit => EdgesInv
  BY DEF ProposalInit, EdgesInv
<1>2. EdgesInv /\ [ProposalNext]_proposal => EdgesInv'
  BY EdgesStep
<1>3. EdgesInv => (shown = NoProposal \/ EdgesAreSeen(shown))
  BY DEF EdgesInv
<1> QED
  BY <1>1, <1>2, <1>3, PTL DEF ProposalSpec

------------------------------------------------------------------------------
(* The parts beside each other.                                               *)

SiteInv ==
    /\ part \in Parts /\ HeldTyped /\ FeedInv /\ ContactsTyped /\ ErrandsTyped /\ ProposalInv
    /\ VoiceInv /\ SystemsOK /\ TilesInv

\* Every part of the site's server keeps its types, whichever of them runs: a list
\* has a place for each track, no handler and no record names an order that was not
\* issued, what is held and what waits at TRACK is within its room.
THEOREM SpecTypeOK == Spec => []TypeOK
<1>1. Init => SiteInv
  <2> SUFFICES ASSUME Init PROVE SiteInv
    OBVIOUS
  <2>1. /\ part \in Parts /\ HeldInit /\ FeedInit /\ ContactsInit /\ ErrandsInit /\ ProposalInit
        /\ VoiceInit /\ SystemsInit /\ TilesInit
    BY DEF Init
  <2> QED
    BY <2>1, HeldTypedInit, InitFeedInv, ContactsTypedInit, ErrandsTypedInit, ProposalStart, InitVoiceInv,
       SystemsTyped, InitTilesInv DEF SiteInv
<1>2. SiteInv /\ [Next]_all => SiteInv'
  <2> SUFFICES ASSUME SiteInv, [Next]_all PROVE SiteInv'
    OBVIOUS
  <2>1. /\ part' = part /\ [HeldNext]_heldReports /\ [FeedNext]_feed /\ [ContactsNext]_contacts
        /\ [ErrandsNext]_errand /\ [ProposalNext]_proposal /\ [VoiceNext]_voice
        /\ [SystemsNext]_systems /\ [TilesNext]_tiles
    BY DEF Next, Only, all
  <2> QED
    BY <2>1, HeldTypedStep, NextFeedInv, ContactsTypedStep, ErrandsTypedStep, ProposalStep, NextVoiceInv,
       SystemsKeepTypes, NextTilesInv DEF SiteInv
<1>3. SiteInv => TypeOK
  <2> SUFFICES ASSUME SiteInv PROVE TypeOK
    OBVIOUS
  <2>1. HeldOK /\ ContactsOK /\ ErrandsOK /\ ProposalOK
    BY HeldTypedGives, ContactsTypedGives, ErrandsTypedGives, ProposalTyped DEF SiteInv
  <2>2. FeedOK /\ VoiceOK /\ SystemsOK /\ TilesOK
    BY DEF SiteInv, FeedInv, VoiceInv, TilesInv
  <2> QED
    BY <2>1, <2>2 DEF SiteInv, TypeOK, Parts
<1> QED
  BY <1>1, <1>2, <1>3, PTL DEF Spec
=============================================================================
