------------------------------- MODULE LiveFeed -------------------------------
(***************************************************************************)
(* How one object of the world model reaches one application: the live bus *)
(* (track/live.py) and the stream endpoint (track/api.py).                 *)
(*                                                                         *)
(* An update is the revision of the object it carries.  The bus publishes  *)
(* through Redis while it believes Redis is there, a write that suspends   *)
(* its task; otherwise it delivers in process, in the writing step.  The   *)
(* application shows the last update it was sent, whatever it showed       *)
(* before.  Redis, its channel and the connection of the reading task are  *)
(* external.                                                               *)
(***************************************************************************)
EXTENDS Naturals, Sequences

CONSTANTS
    Writers,   \* TRACK's tasks that write and publish: the inbox, the watchdog, requests
    MaxRev,    \* bound on the revisions written
    Room       \* maxsize of a subscriber's queue (512)

ASSUME FeedAssumption == MaxRev \in Nat /\ Room \in Nat \ {0}

VARIABLES
    rev,      \* the object's revision in the store
    posts,    \* per task, the revision it is handing to Redis, 0 if none
    redis,    \* Redis answers
    viaRedis, \* the bus publishes through Redis (RedisLiveBus.connected)
    reader,   \* the task that reads the channel is alive
    channel,  \* published and not yet read
    client,   \* the application: "off", "snapshot" (being sent it), "open"
    queue,    \* its subscription's queue
    view,     \* the revision it shows, 0 if none
    told,     \* the last revision delivered to its queue, 0 if none
    missed    \* an update was delivered, or lost, while it was not subscribed

feed == <<rev, posts, redis, viaRedis, reader, channel, client, queue, view, told, missed>>

Revs == 0..MaxRev

FeedOK ==
    /\ rev \in Revs /\ posts \in [Writers -> Revs]
    /\ redis \in BOOLEAN /\ viaRedis \in BOOLEAN /\ reader \in BOOLEAN
    /\ channel \in Seq(Revs \ {0}) /\ (~reader => channel = <<>>)
    /\ client \in {"off", "snapshot", "open"}
    /\ queue \in Seq(Revs \ {0}) /\ Len(queue) <= Room
    /\ view \in Revs /\ told \in Revs /\ missed \in BOOLEAN

\* RedisLiveBus.start: with Redis there a task reads the channel, without it
\* the bus is the in-process one from the first update on.
FeedInit ==
    /\ rev = 0 /\ posts = [w \in Writers |-> 0]
    /\ redis \in BOOLEAN /\ viaRedis = redis /\ reader = redis
    /\ channel = <<>>
    /\ client = "off" /\ queue = <<>> /\ view = 0 /\ told = 0 /\ missed = FALSE

------------------------------------------------------------------------------
(* Delivery.                                                                  *)

\* MemoryLiveBus._deliver: a full queue loses its oldest update.  (Variants: it
\* loses the one that does not fit, or grows.)
Deliver(q, r) == IF Len(q) < Room THEN Append(q, r) ELSE Append(Tail(q), r)
GrowQueue(q, r) == Append(q, r)
DeliverWhenRoom(q, r) == IF Len(q) < Room THEN Append(q, r) ELSE q
Enqueue(q, r) == Deliver(q, r)

DeliverToAll(r) ==
    IF client = "open"
    THEN queue' = Enqueue(queue, r) /\ told' = r /\ UNCHANGED missed
    ELSE missed' = (client = "snapshot" \/ missed) /\ UNCHANGED <<queue, told>>

\* A handler writes and publishes.  The in-process bus never suspends, so
\* nothing comes between the two.
Write(w) ==
    /\ posts[w] = 0 /\ rev < MaxRev
    /\ rev' = rev + 1
    /\ IF viaRedis
       THEN posts' = [posts EXCEPT ![w] = rev + 1] /\ UNCHANGED <<queue, told, missed>>
       ELSE DeliverToAll(rev + 1) /\ UNCHANGED posts
    /\ UNCHANGED <<redis, viaRedis, reader, channel, client, view>>

\* Redis takes it.  Nobody gets it when no task reads the channel.
Publish(w) ==
    /\ posts[w] # 0 /\ redis
    /\ posts' = [posts EXCEPT ![w] = 0]
    /\ channel' = IF reader THEN Append(channel, posts[w]) ELSE channel
    /\ missed' = (missed \/ (~reader /\ client = "snapshot"))
    /\ UNCHANGED <<rev, redis, viaRedis, reader, client, queue, view, told>>

\* It does not: from here on this server delivers in process.
PublishFails(w) ==
    /\ posts[w] # 0 /\ ~redis
    /\ posts' = [posts EXCEPT ![w] = 0]
    /\ viaRedis' = FALSE
    /\ DeliverToAll(posts[w])
    /\ UNCHANGED <<rev, redis, reader, channel, client, view>>

\* _read_loop hands on what it reads.
Read ==
    /\ channel # <<>>
    /\ channel' = Tail(channel)
    /\ DeliverToAll(Head(channel))
    /\ UNCHANGED <<rev, posts, redis, viaRedis, reader, client, view>>

------------------------------------------------------------------------------
(* Redis goes and comes back.                                                 *)

\* What is in the channel is gone.  The reading task ends with the error, which
\* nothing catches, or its library connects again in time.
RedisDown ==
    /\ redis
    /\ redis' = FALSE /\ channel' = <<>>
    /\ reader' \in {FALSE, reader}
    /\ missed' = (missed \/ channel # <<>>)
    /\ UNCHANGED <<rev, posts, viaRedis, client, queue, view, told>>

RedisUp ==
    /\ ~redis
    /\ redis' = TRUE
    /\ UNCHANGED <<rev, posts, viaRedis, reader, channel, client, queue, view, told, missed>>

------------------------------------------------------------------------------
(* stream: the application's connection.                                      *)

\* The snapshot is taken from the store and sent ...
Connect ==
    /\ client = "off"
    /\ client' = "snapshot"
    /\ view' = rev /\ told' = 0 /\ missed' = FALSE
    /\ UNCHANGED <<rev, posts, redis, viaRedis, reader, channel, queue>>

\* ... and only when it has been sent is the bus subscribed to.
Subscribe ==
    /\ client = "snapshot"
    /\ client' = "open" /\ queue' = <<>>
    /\ UNCHANGED <<rev, posts, redis, viaRedis, reader, channel, view, told, missed>>

Receive ==
    /\ client = "open" /\ queue # <<>>
    /\ view' = Head(queue) /\ queue' = Tail(queue)
    /\ UNCHANGED <<rev, posts, redis, viaRedis, reader, channel, client, told, missed>>

Disconnect ==
    /\ client # "off"
    /\ client' = "off" /\ queue' = <<>> /\ view' = 0 /\ told' = 0 /\ missed' = FALSE
    /\ UNCHANGED <<rev, posts, redis, viaRedis, reader, channel>>

------------------------------------------------------------------------------
FeedNext ==
    \/ \E w \in Writers : Write(w) \/ Publish(w) \/ PublishFails(w)
    \/ Read \/ RedisDown \/ RedisUp
    \/ Connect \/ Subscribe \/ Receive \/ Disconnect

FeedSpec == FeedInit /\ [][FeedNext]_feed

------------------------------------------------------------------------------
(* Properties.                                                                *)

\* However slow an application is, the latest update the bus handed to it is
\* still ahead of it or on its screen: a full queue gives up its oldest (live.py).
NewestIsKept ==
    client = "open" /\ told # 0 =>
        told = IF queue = <<>> THEN view ELSE queue[Len(queue)]

\* Nothing is being published or read.
Settled == channel = <<>> /\ \A w \in Writers : posts[w] = 0

\* live.py's promise for a server without Redis: once everything published has
\* been delivered, an application that was subscribed all along has the latest.
KeepsWorking ==
    client = "open" /\ ~missed /\ Settled =>
        rev = IF queue = <<>> THEN view ELSE queue[Len(queue)]

=============================================================================
